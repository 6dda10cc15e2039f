----------------------------- MODULE MC_CwdPaths -----------------------------
(***************************************************************************)
(* Checks the path helpers of CwdSelector.tsx on every absolute path of at *)
(* most MaxLen characters over the alphabet {/, a, b}: each state is one   *)
(* call, with its root and its path as arguments.                          *)
(***************************************************************************)
EXTENDS CwdPaths

MaxLen == 6
Chars == {"/", "a", "b"}

(* The absolute paths of at most n characters. *)
AbsPaths(n) == {Slash \o s : s \in BoundedSeq(Chars, n - 1)}

Roots == AbsPaths(3) \ {Slash}
Paths == AbsPaths(MaxLen)
(* Relative paths: a name, maybe followed by one more character. *)
Rels == {<<c>> \o s : c \in {"a", "b"}, s \in BoundedSeq(Chars, 1)}

VARIABLES root, path

Init == root \in Roots /\ path \in Paths

(* The next call, with any arguments. *)
Call == root' \in Roots /\ path' \in Paths

Spec == Init /\ [][Call]_<<root, path>>

(***************************************************************************)
(* relativePath(root, cwd) of a cwd inside root is the rest of the cwd     *)
(* after root (CwdSelector.tsx 48-53, called by getRepoLabel and the       *)
(* submodule selector): removing the first occurrence of root, which is    *)
(* not anchored, still removes the leading one, even when root occurs      *)
(* again further on.                                                       *)
(***************************************************************************)
RelativePathIsRest ==
  IsPrefix(root, path) => RelativePath(root, path) = SubSeq(path, Len(root) + 1, Len(path))

(***************************************************************************)
(* The doc comments of relativePath and joinPaths: relativePath gives "the *)
(* relative path to `path` from `root`" ('user' for /home and /home/user), *)
(* and joinPaths(root, p) the path p below root; so relativePath undoes    *)
(* joinPaths.                                                              *)
(***************************************************************************)
RelativeInvertsJoin ==
  \A rel \in Rels : RelativePath(root, JoinPaths(root, rel)) = rel

=============================================================================
