----------------------------- MODULE CwdSelector -----------------------------
(***************************************************************************)
(* The working-directory selector of addons/isl/src/CwdSelector.tsx: the   *)
(* availableCwds atom and its subscription, the component's three ways to  *)
(* change the cwd (the ButtonDropdown, the RadioGroup of CwdSelections and *)
(* the SubmoduleSelector), changeCwd, and the server handling the posted   *)
(* messages in order.                                                      *)
(*                                                                         *)
(*   serverCwd   the serverCwd atom; repositoryInfo is the repository of   *)
(*               that cwd, RepoRootOf[serverCwd];                          *)
(*   available   the availableCwds atom ([] until the server answers);     *)
(*   toServer    the messages posted and not yet handled: the socket is    *)
(*               FIFO, and the server's answers come back in the same      *)
(*               order, so a handled message updates the atoms at once;    *)
(*   rendered    what the last render of CwdSelector showed, NoView when   *)
(*               it returned null: the handlers compare with its currentCwd*)
(*               and repoRoot, not with the atoms;                         *)
(*   dirty       an atom changed since that render;                        *)
(*   lastSent    the cwd of the last changeCwd, for the liveness property. *)
(***************************************************************************)
EXTENDS CwdPaths, FiniteSets

CONSTANTS
  Cwds,          \* the paths the client can ask for, as character sequences
  NoRoot,        \* repoRoot of a path that is not a repository (null)
  RepoRootOf,    \* the repository root the server finds for each path
  CwdList,       \* options of the platform/availableCwds message: [cwd, repoRoot]
  SubmodulesOf,  \* submodulesByRoot: per repository root, [path, active] records
  InitCwd,       \* the cwd the server starts in
  MaxPending     \* bound on the messages in flight

Roots == {RepoRootOf[c] : c \in Cwds} \ {NoRoot}

ASSUME RepoRootAssumption == RepoRootOf \in [Cwds -> Seq(STRING) \cup {NoRoot}]
ASSUME CwdListAssumption ==
  /\ CwdList \in Seq([cwd : Cwds, repoRoot : Seq(STRING) \cup {NoRoot}])
  /\ \A i \in DOMAIN CwdList : CwdList[i].repoRoot = RepoRootOf[CwdList[i].cwd]
ASSUME SubmodulesAssumption ==
  \A r \in Roots : \A m \in ToSet(SubmodulesOf[r]) :
     m.active => JoinPaths(r, m.path) \in Cwds /\ RepoRootOf[JoinPaths(r, m.path)] # NoRoot
ASSUME InitCwdAssumption == InitCwd \in Cwds /\ RepoRootOf[InitCwd] # NoRoot
ASSUME MaxPendingAssumption == MaxPending \in Nat \ {0}

VARIABLES serverCwd, available, toServer, rendered, dirty, lastSent

cwdVars == <<serverCwd, available, toServer, rendered, dirty, lastSent>>

Subscribe == [type |-> "subscribe", cwd |-> <<>>]
ChangeMsg(c) == [type |-> "changeCwd", cwd |-> c]
NoView == [cwd |-> <<>>, root |-> <<>>, all |-> <<>>, valid |-> <<>>, subs |-> <<>>]
NoCwd == <<>>

(***************************************************************************)
(* useCwdOptions: one option per entry, valid when it has a repoRoot.      *)
(***************************************************************************)
CwdOptions(list) ==
  [i \in DOMAIN list |-> [id |-> list[i].cwd, valid |-> list[i].repoRoot # NoRoot]]

(***************************************************************************)
(* useSubmoduleOptions: the submodules of the repository, valid when       *)
(* active.                                                                 *)
(***************************************************************************)
SubmoduleOptions(root) ==
  [i \in DOMAIN SubmodulesOf[root] |->
     [id |-> SubmodulesOf[root][i].path, valid |-> SubmodulesOf[root][i].active]]

IsValid(o) == o.valid

(***************************************************************************)
(* opts.filter(opt => opt.valid): the valid options, kept at their         *)
(* positions in opts, so in their order and as many as there are.          *)
(***************************************************************************)
ValidOnly(opts) == Restrict(opts, {i \in DOMAIN opts : IsValid(opts[i])})

(***************************************************************************)
(* What one render of CwdSelector reads when the serverCwd atom is cwd and *)
(* availableCwds is avail: null without repositoryInfo; else currentCwd,   *)
(* repoRoot, all the cwd options (CwdSelections lists them all and        *)
(* disables the invalid ones), the valid ones (the dropdown) and the valid *)
(* submodules.                                                             *)
(***************************************************************************)
(* Mutant: the dropdown offers the invalid options too (no filter, line 142). *)
ViewOfUnfiltered(cwd, avail) ==
  IF RepoRootOf[cwd] = NoRoot THEN NoView
  ELSE [cwd |-> cwd, root |-> RepoRootOf[cwd],
        all |-> CwdOptions(avail),
        valid |-> CwdOptions(avail),
        subs |-> ValidOnly(SubmoduleOptions(RepoRootOf[cwd]))]

ViewOf(cwd, avail) ==
  IF RepoRootOf[cwd] = NoRoot THEN NoView
  ELSE [cwd |-> cwd, root |-> RepoRootOf[cwd],
        all |-> CwdOptions(avail),
        valid |-> ValidOnly(CwdOptions(avail)),
        subs |-> ValidOnly(SubmoduleOptions(RepoRootOf[cwd]))]

View == ViewOf(serverCwd, available)

HasSubmodules == DOMAIN rendered.subs # {}

Render ==
  /\ dirty
  /\ rendered' = View
  /\ dirty' = FALSE
  /\ UNCHANGED <<serverCwd, available, toServer, lastSent>>

(***************************************************************************)
(* changeCwd(newCwd): post {type: 'changeCwd', cwd}; serverAPI.cwdChanged()*)
(* only touches the client's connection bookkeeping outside this model.    *)
(***************************************************************************)
(* Mutant: the message is never posted. *)
ChangeCwdNoPost(c) ==
  /\ Len(toServer) < MaxPending
  /\ lastSent' = c
  /\ UNCHANGED <<serverCwd, available, toServer, rendered, dirty>>

ChangeCwd(c) ==
  /\ Len(toServer) < MaxPending
  /\ toServer' = Append(toServer, ChangeMsg(c))
  /\ lastSent' = c
  /\ UNCHANGED <<serverCwd, available, rendered, dirty>>

(***************************************************************************)
(* The ButtonDropdown, shown when there are no submodules and at least two *)
(* valid options; onChangeSelected compares with the rendered currentCwd.  *)
(***************************************************************************)
DropdownPick(o) ==
  /\ rendered # NoView
  /\ ~HasSubmodules /\ Cardinality(DOMAIN rendered.valid) >= 2
  /\ o \in ToSet(rendered.valid)
  /\ o.id # rendered.cwd
  /\ ChangeCwd(o.id)

(***************************************************************************)
(* The RadioGroup of CwdSelections, in the tooltip: at least two options;  *)
(* an invalid one is disabled; onChange returns early on the current cwd.  *)
(***************************************************************************)
RadioPick(o) ==
  /\ rendered # NoView
  /\ Len(rendered.all) >= 2
  /\ o \in ToSet(rendered.all)
  /\ o.valid
  /\ o.id # rendered.cwd
  /\ ChangeCwd(o.id)

(***************************************************************************)
(* The SubmoduleSelector: its <select> lists the valid submodules; a pick  *)
(* other than the one relativePath(repoRoot, currentCwd) names changes the *)
(* cwd to joinPaths(repoRoot, id).                                         *)
(***************************************************************************)
(* Mutant: the repo-relative id is sent without joinPaths. *)
SubmodulePickNoJoin(m) ==
  /\ rendered # NoView
  /\ HasSubmodules
  /\ m \in ToSet(rendered.subs)
  /\ m.id # RelativePath(rendered.root, rendered.cwd)
  /\ ChangeCwd(m.id)

SubmodulePick(m) ==
  /\ rendered # NoView
  /\ HasSubmodules
  /\ m \in ToSet(rendered.subs)
  /\ m.id # RelativePath(rendered.root, rendered.cwd)
  /\ ChangeCwd(JoinPaths(rendered.root, m.id))

(***************************************************************************)
(* onConnectOrReconnect: a (re)connection posts the subscription again.    *)
(***************************************************************************)
Reconnect ==
  /\ Len(toServer) < MaxPending
  /\ toServer' = Append(toServer, Subscribe)
  /\ UNCHANGED <<serverCwd, available, rendered, dirty, lastSent>>

(***************************************************************************)
(* The server handles the oldest message: a subscription is answered with  *)
(* platform/availableCwds, written into the atom; a changeCwd moves the    *)
(* server and the serverCwd atom to the new cwd.  Either re-renders.       *)
(***************************************************************************)
ServerHandle ==
  /\ toServer # <<>>
  /\ LET msg == Head(toServer)
     IN  IF msg.type = "subscribe"
         THEN available' = CwdList /\ UNCHANGED serverCwd
         ELSE serverCwd' = msg.cwd /\ UNCHANGED available
  /\ toServer' = Tail(toServer)
  /\ dirty' = TRUE
  /\ UNCHANGED <<rendered, lastSent>>

CwdInit ==
  /\ serverCwd = InitCwd
  /\ available = <<>>
  /\ toServer = <<Subscribe>>
  /\ rendered = View
  /\ dirty = FALSE
  /\ lastSent = NoCwd

CwdNext ==
  \/ \E o \in ToSet(rendered.valid) : DropdownPick(o)
  \/ \E o \in ToSet(rendered.all) : RadioPick(o)
  \/ \E m \in ToSet(rendered.subs) : SubmodulePick(m)
  \/ Reconnect
  \/ ServerHandle
  \/ Render

(***************************************************************************)
(* The server handles every message, and React re-renders after every atom *)
(* change; the user and the connection owe nothing.                        *)
(***************************************************************************)
CwdSpec == CwdInit /\ [][CwdNext]_cwdVars /\ WF_cwdVars(ServerHandle) /\ WF_cwdVars(Render)

CwdTypeOK ==
  /\ serverCwd \in Cwds
  /\ available \in {<<>>, CwdList}
  /\ toServer \in Seq({Subscribe} \cup {ChangeMsg(c) : c \in Cwds})
  /\ Len(toServer) <= MaxPending
  /\ dirty \in BOOLEAN
  /\ lastSent \in Cwds \cup {NoCwd}

(***************************************************************************)
(* Every cwd the client asks the server for, and every cwd the server      *)
(* moves to, is a repository: the dropdown filters the valid options      *)
(* (CwdSelector.tsx 142), the radio disables the invalid ones (313), and   *)
(* the submodule selector offers the active submodules only (144), whose   *)
(* joinPaths is a repository.                                              *)
(***************************************************************************)
ChangesOnlyToRepos ==
  /\ RepoRootOf[serverCwd] # NoRoot
  /\ \A i \in DOMAIN toServer :
       toServer[i].type = "changeCwd" => RepoRootOf[toServer[i].cwd] # NoRoot

(***************************************************************************)
(* When the user stops changing the cwd, the server ends in the cwd of the *)
(* last changeCwd, however many picks were in flight: the socket keeps     *)
(* their order (changeCwd, 245-251, has no sequence number).               *)
(***************************************************************************)
LastChoiceWins ==
  \A c \in Cwds : <>[](lastSent = c) => <>[](serverCwd = c)

=============================================================================
