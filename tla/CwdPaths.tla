------------------------------- MODULE CwdPaths -------------------------------
(***************************************************************************)
(* The path helpers of addons/isl/src/CwdSelector.tsx.  A path is a string *)
(* written as the sequence of its characters (one-character strings), so   *)
(* that String.replace, endsWith and includes are modelled by what they do *)
(* on characters.                                                          *)
(***************************************************************************)
EXTENDS Naturals, SequencesExt

Slash == <<"/">>

(***************************************************************************)
(* The same removal at the last occurrence of root: a plausible slip for   *)
(* "the part of path after root".                                          *)
(***************************************************************************)
RelativePathLastOccurrence(root, path) ==
  LET at == {k \in 1..Len(path) : IsPrefix(root, SubSeq(path, k, Len(path)))}
  IN  IF path = <<>> \/ at = {} THEN <<>> \o path
      ELSE ReplaceSubSeqAt(CHOOSE k \in at : \A j \in at : j <= k, <<>>, root, path)

(***************************************************************************)
(* relativePath(root, path): the empty string for an empty path, else path *)
(* with the FIRST occurrence of root removed, wherever it occurs: a string *)
(* pattern given to String.replace is neither anchored nor global.  (The   *)
(* root == null case has no caller: CwdSelector returns before it when     *)
(* repositoryInfo is null.)                                                *)
(***************************************************************************)
RelativePath(root, path) ==
  IF path = <<>> THEN <<>> ELSE ReplaceFirstSubSeq(<<>>, root, path)

(***************************************************************************)
(* joinPaths(root, path): always joins with '/', whatever the separator of *)
(* root.                                                                   *)
(***************************************************************************)
JoinPaths(root, path) ==
  IF IsSuffix(Slash, root) THEN root \o path ELSE root \o Slash \o path

=============================================================================
