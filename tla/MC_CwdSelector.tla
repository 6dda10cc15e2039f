--------------------------- MODULE MC_CwdSelector ---------------------------
(***************************************************************************)
(* Model-checking instance of CwdSelector: a repository /r with an active  *)
(* submodule s (its own repository /r/s) and an inactive one t (no        *)
(* repository), a second repository /p, and a listed cwd /q that is no    *)
(* longer a repository.                                                    *)
(***************************************************************************)
EXTENDS CwdSelector

CONSTANT none

R == <<"/", "r">>
RS == <<"/", "r", "/", "s">>
RT == <<"/", "r", "/", "t">>
P == <<"/", "p">>
Q == <<"/", "q">>

MC_Cwds == {R, RS, RT, P, Q}
MC_RepoRootOf == [c \in MC_Cwds |-> IF c \in {RT, Q} THEN none ELSE c]
MC_CwdList == <<[cwd |-> R, repoRoot |-> R], [cwd |-> Q, repoRoot |-> none],
                [cwd |-> P, repoRoot |-> P]>>
MC_SubmodulesOf == [r \in {R, RS, P} |->
                      IF r = R THEN <<[path |-> <<"s">>, active |-> TRUE],
                                      [path |-> <<"t">>, active |-> FALSE]>>
                      ELSE <<>>]
MC_MaxPending == 3

=============================================================================
