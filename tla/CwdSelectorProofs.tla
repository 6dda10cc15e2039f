-------------------------- MODULE CwdSelectorProofs --------------------------
(***************************************************************************)
(* Proofs about the working-directory selector, for every set of cwds,     *)
(* every availableCwds list and submodule table that satisfy the           *)
(* assumptions of CwdSelector, and every bound on the messages in flight.  *)
(***************************************************************************)
EXTENDS CwdSelector, TLAPS

(***************************************************************************)
(* Every view a render can produce: the view of some cwd and of the        *)
(* availableCwds atom before or after the server's answer.                 *)
(***************************************************************************)
Views == {ViewOf(c, a) : c \in Cwds, a \in {<<>>, CwdList}}

(***************************************************************************)
(* The inductive invariant.  ChangesOnlyToRepos alone is not inductive: a  *)
(* pick posts what the last render offered, which may be stale, so the     *)
(* invariant also says that whatever was rendered is the view of a state   *)
(* the atoms can be in, and such a view offers only repositories.          *)
(***************************************************************************)
IInv == CwdTypeOK /\ ChangesOnlyToRepos /\ rendered \in Views

(***************************************************************************)
(* Lemmas about the option lists a render builds.                          *)
(***************************************************************************)

\* An option of useCwdOptions is a listed cwd, and valid only for a repository.
LEMMA CwdOptionsRepos ==
  ASSUME NEW a \in {<<>>, CwdList}, NEW o \in ToSet(CwdOptions(a))
  PROVE  /\ o.id \in Cwds
         /\ o.valid => RepoRootOf[o.id] # NoRoot
<1>1. PICK i \in DOMAIN a : o = [id |-> a[i].cwd, valid |-> a[i].repoRoot # NoRoot]
  BY DEF ToSet, CwdOptions
<1>2. a = CwdList
  BY <1>1
<1>3. i \in DOMAIN CwdList
  BY <1>2
<1>4. CwdList[i] \in [cwd : Cwds, repoRoot : Seq(STRING) \cup {NoRoot}]
  <2> DEFINE Entry == [cwd : Cwds, repoRoot : Seq(STRING) \cup {NoRoot}]
  <2>1. CwdList \in Seq(Entry)
    BY CwdListAssumption
  <2> HIDE DEF Entry
  <2>2. CwdList[i] \in Entry
    BY <1>3, <2>1
  <2>3. QED
    BY <2>2 DEF Entry
<1>5. CwdList[i].repoRoot = RepoRootOf[CwdList[i].cwd]
  BY <1>3, CwdListAssumption
<1>6. QED
  BY <1>1, <1>2, <1>4, <1>5

\* The filter keeps options of the list, and only valid ones.
LEMMA ValidOnlyKeeps ==
  ASSUME NEW opts, NEW o \in ToSet(ValidOnly(opts))
  PROVE  o \in ToSet(opts) /\ o.valid
BY DEF ToSet, ValidOnly, Restrict, IsValid

\* A valid submodule option of a repository joins to a repository.
LEMMA SubmoduleOptionsRepos ==
  ASSUME NEW r \in Roots, NEW m \in ToSet(SubmoduleOptions(r)), m.valid
  PROVE  /\ JoinPaths(r, m.id) \in Cwds
         /\ RepoRootOf[JoinPaths(r, m.id)] # NoRoot
<1>1. PICK i \in DOMAIN SubmodulesOf[r] :
        m = [id |-> SubmodulesOf[r][i].path, valid |-> SubmodulesOf[r][i].active]
  BY DEF ToSet, SubmoduleOptions
<1>2. SubmodulesOf[r][i] \in ToSet(SubmodulesOf[r])
  BY DEF ToSet
<1>3. SubmodulesOf[r][i].active
  BY <1>1
<1>4. QED
  BY <1>1, <1>2, <1>3, SubmodulesAssumption

(***************************************************************************)
(* A view a render can produce offers, in each of its three pickers, only  *)
(* cwds that are repositories.                                             *)
(***************************************************************************)
LEMMA ViewOffersRepos ==
  ASSUME NEW v \in Views, v # NoView
  PROVE  /\ \A o \in ToSet(v.valid) : o.id \in Cwds /\ RepoRootOf[o.id] # NoRoot
         /\ \A o \in ToSet(v.all) : o.valid => o.id \in Cwds /\ RepoRootOf[o.id] # NoRoot
         /\ \A m \in ToSet(v.subs) :
               /\ JoinPaths(v.root, m.id) \in Cwds
               /\ RepoRootOf[JoinPaths(v.root, m.id)] # NoRoot
<1>1. PICK c \in Cwds, a \in {<<>>, CwdList} : v = ViewOf(c, a)
  BY DEF Views
<1>2. RepoRootOf[c] # NoRoot
  BY <1>1 DEF ViewOf
<1>3. v = [cwd |-> c, root |-> RepoRootOf[c], all |-> CwdOptions(a),
           valid |-> ValidOnly(CwdOptions(a)),
           subs |-> ValidOnly(SubmoduleOptions(RepoRootOf[c]))]
  BY <1>1, <1>2 DEF ViewOf
<1>4. RepoRootOf[c] \in Roots
  BY <1>2 DEF Roots
<1>5. ASSUME NEW o \in ToSet(v.valid)
      PROVE  o.id \in Cwds /\ RepoRootOf[o.id] # NoRoot
  <2>1. o \in ToSet(CwdOptions(a)) /\ o.valid
    BY <1>3, <1>5, ValidOnlyKeeps
  <2>2. QED
    BY <2>1, CwdOptionsRepos
<1>6. ASSUME NEW o \in ToSet(v.all), o.valid
      PROVE  o.id \in Cwds /\ RepoRootOf[o.id] # NoRoot
  BY <1>3, <1>6, CwdOptionsRepos
<1>7. ASSUME NEW m \in ToSet(v.subs)
      PROVE  /\ JoinPaths(v.root, m.id) \in Cwds
             /\ RepoRootOf[JoinPaths(v.root, m.id)] # NoRoot
  <2>1. m \in ToSet(SubmoduleOptions(RepoRootOf[c])) /\ m.valid
    BY <1>3, <1>7, ValidOnlyKeeps
  <2>2. QED
    BY <1>3, <1>4, <2>1, SubmoduleOptionsRepos
<1>8. QED
  BY <1>5, <1>6, <1>7

(***************************************************************************)
(* The messages the client posts.                                          *)
(***************************************************************************)
Msgs == {Subscribe} \cup {ChangeMsg(c) : c \in Cwds}

LEMMA InitIInv == CwdInit => IInv
<1> SUFFICES ASSUME CwdInit PROVE IInv
  OBVIOUS
<1>1. CwdTypeOK
  <2>1. toServer \in Seq(Msgs) /\ Len(toServer) <= MaxPending
    <3>1. Subscribe \in Msgs
      BY DEF Msgs
    <3>2. QED
      BY <3>1, MaxPendingAssumption DEF CwdInit
  <2>2. QED
    BY <2>1, InitCwdAssumption DEF CwdInit, CwdTypeOK, Msgs
<1>2. ChangesOnlyToRepos
  BY InitCwdAssumption DEF CwdInit, ChangesOnlyToRepos, Subscribe
<1>3. rendered \in Views
  BY InitCwdAssumption DEF CwdInit, View, Views
<1>4. QED
  BY <1>1, <1>2, <1>3 DEF IInv

(***************************************************************************)
(* changeCwd of a repository keeps the invariant: the queue stays within   *)
(* its bound and gains one more request for a repository.                  *)
(***************************************************************************)
LEMMA ChangeCwdIInv ==
  ASSUME IInv, NEW c \in Cwds, RepoRootOf[c] # NoRoot, ChangeCwd(c)
  PROVE  IInv'
<1>1. toServer \in Seq(Msgs) /\ Len(toServer) < MaxPending
  BY DEF IInv, CwdTypeOK, Msgs, ChangeCwd
<1>2. toServer' = Append(toServer, ChangeMsg(c)) /\ ChangeMsg(c) \in Msgs
  BY DEF ChangeCwd, Msgs
<1>3. CwdTypeOK'
  <2>1. toServer' \in Seq(Msgs) /\ Len(toServer') <= MaxPending
    BY <1>1, <1>2, MaxPendingAssumption
  <2>2. QED
    BY <2>1 DEF IInv, CwdTypeOK, ChangeCwd, Msgs
<1>4. ChangesOnlyToRepos'
  <2>1. ASSUME NEW i \in DOMAIN toServer', toServer'[i].type = "changeCwd"
        PROVE  RepoRootOf[toServer'[i].cwd] # NoRoot
    <3>1. CASE i = Len(toServer) + 1
      BY <1>1, <1>2, <3>1 DEF ChangeMsg
    <3>2. CASE i \in DOMAIN toServer
      BY <1>1, <1>2, <2>1, <3>2 DEF IInv, ChangesOnlyToRepos
    <3>3. QED
      BY <1>1, <1>2, <3>1, <3>2
  <2>2. QED
    BY <2>1 DEF IInv, ChangesOnlyToRepos, ChangeCwd
<1>5. (rendered \in Views)'
  BY DEF IInv, ChangeCwd, Views
<1>6. QED
  BY <1>3, <1>4, <1>5 DEF IInv

(***************************************************************************)
(* The server's handling of the oldest message keeps the invariant: a      *)
(* changeCwd it applies was a request for a repository.                    *)
(***************************************************************************)
LEMMA ServerHandleIInv ==
  ASSUME IInv, ServerHandle
  PROVE  IInv'
<1> DEFINE msg == Head(toServer)
<1>1. toServer \in Seq(Msgs) /\ toServer # <<>>
  BY DEF IInv, CwdTypeOK, Msgs, ServerHandle
<1>2. msg \in Msgs /\ msg = toServer[1]
  BY <1>1
<1>3. toServer' = Tail(toServer) /\ toServer' \in Seq(Msgs) /\ Len(toServer') < Len(toServer)
  BY <1>1 DEF ServerHandle
<1>4. \A i \in DOMAIN toServer' : toServer'[i] = toServer[i + 1] /\ i + 1 \in DOMAIN toServer
  BY <1>1, <1>3
<1>5. \A i \in DOMAIN toServer' :
        toServer'[i].type = "changeCwd" => RepoRootOf[toServer'[i].cwd] # NoRoot
  BY <1>4 DEF IInv, ChangesOnlyToRepos
<1>6. (rendered \in Views)' /\ dirty' \in BOOLEAN /\ lastSent' = lastSent
  BY DEF IInv, ServerHandle, Views
<1>7. Len(toServer') <= MaxPending /\ lastSent' \in Cwds \cup {NoCwd}
  BY <1>3, <1>6, MaxPendingAssumption DEF IInv, CwdTypeOK, ServerHandle
<1>8. CASE msg.type = "subscribe"
  <2>1. available' = CwdList /\ serverCwd' = serverCwd
    BY <1>8 DEF ServerHandle
  <2>2. serverCwd' \in Cwds /\ RepoRootOf[serverCwd'] # NoRoot
    BY <2>1 DEF IInv, CwdTypeOK, ChangesOnlyToRepos
  <2>3. QED
    BY <1>3, <1>5, <1>6, <1>7, <2>1, <2>2 DEF IInv, CwdTypeOK, ChangesOnlyToRepos
<1>9. CASE msg.type # "subscribe"
  <2>1. serverCwd' = msg.cwd /\ available' = available
    BY <1>9 DEF ServerHandle
  <2>2. PICK c \in Cwds : msg = ChangeMsg(c)
    BY <1>2, <1>9 DEF Msgs, Subscribe
  <2>3. RepoRootOf[c] # NoRoot
    BY <1>1, <1>2, <2>2 DEF IInv, ChangesOnlyToRepos, ChangeMsg
  <2>4. serverCwd' = c
    BY <2>1, <2>2 DEF ChangeMsg
  <2>5. available' \in {<<>>, CwdList}
    BY <2>1 DEF IInv, CwdTypeOK
  <2>6. QED
    BY <1>3, <1>5, <1>6, <1>7, <2>3, <2>4, <2>5 DEF IInv, CwdTypeOK, ChangesOnlyToRepos
<1>10. QED
  BY <1>8, <1>9


LEMMA NextIInv == IInv /\ [CwdNext]_cwdVars => IInv'
<1> SUFFICES ASSUME IInv, [CwdNext]_cwdVars PROVE IInv'
  OBVIOUS
<1>1. CASE \E o \in ToSet(rendered.valid) : DropdownPick(o)
  <2>1. PICK o \in ToSet(rendered.valid) : DropdownPick(o)
    BY <1>1
  <2>2. o.id \in Cwds /\ RepoRootOf[o.id] # NoRoot
    BY <2>1, ViewOffersRepos DEF IInv, DropdownPick
  <2>3. QED
    BY <2>1, <2>2, ChangeCwdIInv DEF DropdownPick
<1>2. CASE \E o \in ToSet(rendered.all) : RadioPick(o)
  <2>1. PICK o \in ToSet(rendered.all) : RadioPick(o)
    BY <1>2
  <2>2. o.id \in Cwds /\ RepoRootOf[o.id] # NoRoot
    BY <2>1, ViewOffersRepos DEF IInv, RadioPick
  <2>3. QED
    BY <2>1, <2>2, ChangeCwdIInv DEF RadioPick
<1>3. CASE \E m \in ToSet(rendered.subs) : SubmodulePick(m)
  <2>1. PICK m \in ToSet(rendered.subs) : SubmodulePick(m)
    BY <1>3
  <2>2. /\ JoinPaths(rendered.root, m.id) \in Cwds
        /\ RepoRootOf[JoinPaths(rendered.root, m.id)] # NoRoot
    BY <2>1, ViewOffersRepos DEF IInv, SubmodulePick
  <2>3. QED
    BY <2>1, <2>2, ChangeCwdIInv DEF SubmodulePick
<1>4. CASE Reconnect
  <2>1. toServer' = Append(toServer, Subscribe) /\ Subscribe \in Msgs
    BY <1>4 DEF Reconnect, Msgs
  <2>2. toServer \in Seq(Msgs) /\ Len(toServer) < MaxPending
    BY <1>4 DEF IInv, CwdTypeOK, Msgs, Reconnect
  <2>3. toServer' \in Seq(Msgs) /\ Len(toServer') <= MaxPending
    BY <2>1, <2>2, MaxPendingAssumption
  <2>4. ChangesOnlyToRepos!2'
    BY <2>1, <2>2 DEF IInv, ChangesOnlyToRepos, Subscribe
  <2>5. QED
    BY <1>4, <2>3, <2>4 DEF IInv, CwdTypeOK, ChangesOnlyToRepos, Reconnect, Msgs, Views
<1>5. CASE ServerHandle
  BY <1>5, ServerHandleIInv
<1>6. CASE Render
  <2>1. View \in Views
    BY DEF IInv, CwdTypeOK, View, Views
  <2>2. QED
    BY <1>6, <2>1 DEF IInv, CwdTypeOK, ChangesOnlyToRepos, Render
<1>7. CASE UNCHANGED cwdVars
  BY <1>7 DEF IInv, CwdTypeOK, ChangesOnlyToRepos, cwdVars, Views
<1>8. QED
  BY <1>1, <1>2, <1>3, <1>4, <1>5, <1>6, <1>7 DEF CwdNext

(***************************************************************************)
(* Every variable of the selector keeps its type, and the queue of posted  *)
(* messages never exceeds its bound, for every value of the constants.    *)
(***************************************************************************)
THEOREM CwdTypeCorrect == CwdSpec => []CwdTypeOK
<1>1. IInv => CwdTypeOK
  BY DEF IInv
<1>2. QED
  BY <1>1, InitIInv, NextIInv, PTL DEF CwdSpec

(***************************************************************************)
(* The dropdown, the radio group and the submodule selector only ever ask  *)
(* the server for a repository, even from a stale render, and so the       *)
(* server only ever moves to one (CwdSelector.tsx 142, 144, 313).          *)
(***************************************************************************)
THEOREM OnlyRepos == CwdSpec => []ChangesOnlyToRepos
<1>1. IInv => ChangesOnlyToRepos
  BY DEF IInv
<1>2. QED
  BY <1>1, InitIInv, NextIInv, PTL DEF CwdSpec

=============================================================================
