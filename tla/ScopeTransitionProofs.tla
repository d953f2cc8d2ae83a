----------------------- MODULE ScopeTransitionProofs -----------------------
(***************************************************************************)
(* Proofs about ScopeTransition, for any number of versions, deliverables, *)
(* deciders and edits.  The argument has three parts: a draft gets all its *)
(* ScopeChanges in one commit and a decision takes them all (DiffSound and *)
(* RequestSound), the rows an open transaction has demoted stay as they    *)
(* are until it ends (LocksHold), and a decision that runs alone still     *)
(* finds what it checked when it commits (Alone).                          *)
(***************************************************************************)
EXTENDS ScopeTransition, TLAPS

\* A version has changes only once its diff has been committed, and every
\* version that is decided has some, the first one excepted.
DiffSound ==
  /\ \A v \in Versions : diff[v].pc = "none" <=> baseline[v] = "none"
  /\ \A v \in Versions : diff[v].pc = "read" =>
       v > 1 /\ \A k \in diff[v].rows : k.to = v
  /\ \A k \in Keys : change[k] # "none" => diff[k.to].pc = "ended" /\ k.to > 1
  /\ \A v \in Versions : v > 1 /\ baseline[v] \notin {"none", "DRAFT"} =>
       \E k \in Keys : k.to = v /\ change[k] # "none"

\* A request holds all the changes of the version it decides.
RequestSound ==
  \A d \in Deciders : Busy(d) =>
    /\ baseline[request[d].version] # "none"
    /\ request[d].kind = "activate" =>
         request[d].version = 1 /\ request[d].rows = {}
    /\ request[d].kind # "activate" =>
         /\ request[d].kind \in {"approve", "reject"}
         /\ request[d].rows # {}
         /\ \A k \in Keys : k \in request[d].rows <=>
              k.to = request[d].version /\ change[k] # "none"

\* What a transaction has demoted is active and no other one's to write.
Locked(d) == IF request[d].pc = "demoted" THEN request[d].others ELSE {}
LocksHold ==
  /\ \A d \in Deciders :
       /\ Locked(d) \subseteq Active
       /\ request[d].version \notin request[d].others
       /\ request[d].pc = "checked" => request[d].others = {}
  /\ \A d, e \in Deciders : d # e => Locked(d) \cap Locked(e) = {}

\* Without an overlap, a decision has its draft to itself.
Alone ==
  ~overlapped =>
    /\ \A d, e \in Deciders : Busy(d) /\ Busy(e) => d = e
    /\ \A d \in Deciders : Busy(d) => baseline[request[d].version] = "DRAFT"
    /\ \A d \in Deciders : request[d].pc \in {"updating", "demoted"} =>
         Active \subseteq request[d].others
    /\ \A v \in Versions : \A k \in diff[v].rows :
         baseline[k.from] \in {"ACTIVE", "SUPERSEDED"}

Structure == TypeOK /\ DiffSound /\ RequestSound /\ LocksHold

IInv == Structure /\ BatchAgrees /\ Alone /\ OneActiveAlone /\ LineageHolds

USE VersionAssumption, AbsentAssumption, ExtractedAssumption, EditsAssumption

LEMMA InitIInv == Init => IInv
<1> SUFFICES ASSUME Init PROVE IInv
  OBVIOUS
<1>1. TypeOK
  <2>1. IdleRequest \in Request
    BY DEF IdleRequest, Request, Versions
  <2>2. [pc |-> "none", rows |-> {}] \in DiffTask
    BY DEF DiffTask
  <2>3. [c \in Codes |-> Absent] \in Items
    BY DEF Items
  <2>4. request \in [Deciders -> Request]
    BY <2>1 DEF Init
  <2>5. diff \in [Versions -> DiffTask]
    BY <2>2 DEF Init
  <2>6. items \in [Versions -> Items]
    BY <2>3 DEF Init
  <2>7. uploads \in 0 .. MaxVersion
    BY DEF Init
  <2>8. /\ baseline \in [Versions -> BaselineStatus \cup {"none"}]
        /\ change \in [Keys -> ScopeChangeStatus \cup {"none"}]
    BY DEF Init
  <2>9. edits \in SUBSET Edit /\ overlapped \in BOOLEAN
    BY DEF Init
  <2> QED
    BY <2>4, <2>5, <2>6, <2>7, <2>8, <2>9 DEF TypeOK
<1>2. DiffSound /\ BatchAgrees /\ LineageHolds
  BY DEF Init, DiffSound, BatchAgrees, LineageHolds, Keys
<1>3. RequestSound /\ LocksHold
  BY DEF Init, RequestSound, LocksHold, Locked, IdleRequest, Busy, Versions
<1>4. Alone /\ OneActiveAlone
  BY DEF Init, Alone, OneActiveAlone, OneActive, Active, IdleRequest, Busy
<1> QED
  BY <1>1, <1>2, <1>3, <1>4 DEF IInv, Structure

\* A decision that commits leaves every column with one of its values.
LEMMA DecidedType ==
  ASSUME TypeOK, NEW d \in Deciders, NEW new \in BaselineStatus
  PROVE  Decided(d, new) \in [Versions -> BaselineStatus \cup {"none"}]
BY DEF TypeOK, Decided, BaselineStatus

LEMMA TypeStep ==
  ASSUME TypeOK, [Next]_vars
  PROVE  TypeOK'
<1> USE DEF TypeOK
<1>1. CASE Upload
  BY <1>1 DEF Upload
<1>2. ASSUME NEW v \in Versions, Extraction(v)
      PROVE  TypeOK'
  <2>1. CASE Extract(v)
    BY <2>1 DEF Extract, BaselineStatus, Items, DiffTask
  <2>2. CASE DiffRead(v)
    <3>1. PICK b \in Versions :
            diff' = [diff EXCEPT ![v] = [pc |-> "read", rows |-> Delta(b, v)]]
      BY <2>2 DEF DiffRead
    <3>2. Delta(b, v) \subseteq Keys
      BY DEF Delta
    <3>3. diff' \in [Versions -> DiffTask]
      BY <3>1, <3>2 DEF DiffTask
    <3> QED
      BY <2>2, <3>3 DEF DiffRead
  <2>3. CASE DiffEnd(v)
    BY <2>3 DEF DiffEnd, DiffTask
  <2>4. CASE DiffCommit(v)
    BY <2>4 DEF DiffCommit, DiffTask, ScopeChangeStatus
  <2> QED
    BY <1>2, <2>1, <2>2, <2>3, <2>4 DEF Extraction
<1>3. ASSUME NEW v \in Versions, NEW c \in Codes, EditCheck(v, c)
      PROVE  TypeOK'
  <2>1. PICK x \in Contents \cup {Absent} :
          edits' = edits \cup {[version |-> v, code |-> c, content |-> x]}
    BY <1>3 DEF EditCheck
  <2>2. edits' \in SUBSET Edit
    BY <2>1 DEF Edit
  <2> QED
    BY <1>3, <2>2 DEF EditCheck
<1>4. ASSUME NEW e \in edits, EditCommit(e)
      PROVE  TypeOK'
  <2>1. e.version \in Versions /\ e.code \in Codes /\ e.content \in Contents \cup {Absent}
    BY DEF Edit
  <2>2. items' \in [Versions -> Items]
    BY <1>4, <2>1 DEF EditCommit, Items
  <2> QED
    BY <1>4, <2>2 DEF EditCommit
<1>5. ASSUME NEW d \in Deciders, Decision(d)
      PROVE  TypeOK'
  <2>1. ASSUME NEW v \in Versions, NEW rows \in SUBSET Keys,
               NEW kind \in {"activate", "approve", "reject"},
               Begin(d, kind, v, rows)
        PROVE  TypeOK'
    BY <2>1 DEF Begin, Request
  <2>2. CASE \E v \in Versions : Activate(d, v)
    BY <2>1, <2>2 DEF Activate
  <2>3. CASE \E v \in Versions, decision \in {"approve", "reject"} :
               Transition(d, v, decision)
    <3>1. \A v \in Versions : Proposed(v) \in SUBSET Keys
      BY DEF Proposed
    <3> QED
      BY <2>1, <2>3, <3>1 DEF Transition
  <2>4. CASE Update(d)
    <3>1. [request[d] EXCEPT !.pc = "updating",
                             !.others = Active \ {request[d].version}] \in Request
      BY DEF Request, Active
    <3>2. request' \in [Deciders -> Request]
      BY <2>4, <3>1 DEF Update
    <3> QED
      BY <2>4, <3>2 DEF Update
  <2>8. CASE Demote(d)
    <3>1. [request[d] EXCEPT !.pc = "demoted", !.others = @ \cap Active] \in Request
      BY DEF Request
    <3>2. request' \in [Deciders -> Request]
      BY <2>8, <3>1 DEF Demote
    <3> QED
      BY <2>8, <3>2 DEF Demote
  <2>5. CASE CommitApproval(d)
    <3>1. baseline' \in [Versions -> BaselineStatus \cup {"none"}]
      BY <2>5, DecidedType DEF CommitApproval, BaselineStatus
    <3> QED
      BY <2>5, <3>1 DEF CommitApproval, ScopeChangeStatus, IdleRequest, Request,
                        Versions
  <2>6. CASE CommitRejection(d)
    <3>1. baseline' \in [Versions -> BaselineStatus \cup {"none"}]
      BY <2>6, DecidedType DEF CommitRejection, BaselineStatus
    <3> QED
      BY <2>6, <3>1 DEF CommitRejection, ScopeChangeStatus, IdleRequest, Request,
                        Versions
  <2>7. CASE Fail(d)
    BY <2>7 DEF Fail, IdleRequest, Request, Versions
  <2> QED
    BY <1>5, <2>2, <2>3, <2>4, <2>5, <2>6, <2>7, <2>8 DEF Decision
<1>6. CASE UNCHANGED vars
  BY <1>6 DEF vars
<1> QED
  BY <1>1, <1>2, <1>3, <1>4, <1>5, <1>6 DEF Next

-----------------------------------------------------------------------------
(* Structure is inductive.                                                 *)

\* What a commit of decider d does to the columns, whatever its decision.
LEMMA CommitEffect ==
  ASSUME Structure, NEW d \in Deciders, CommitApproval(d) \/ CommitRejection(d)
  PROVE  /\ Busy(d)
         /\ request[d].version \in Versions
         /\ \E new \in {"ACTIVE", "REJECTED"} :
              /\ baseline'[request[d].version] = new
              /\ \A k \in request[d].rows :
                   change'[k] = IF new = "ACTIVE" THEN "IMPLEMENTED" ELSE "REJECTED"
         /\ \A v \in Versions : v # request[d].version =>
              baseline'[v] = IF v \in Locked(d) THEN "SUPERSEDED" ELSE baseline[v]
         /\ \A k \in Keys : k \notin request[d].rows => change'[k] = change[k]
         /\ \A k \in request[d].rows : k \in Keys /\ change[k] # "none"
         /\ Locked(d) \subseteq Active /\ request[d].version \notin Locked(d)
         /\ request' = [request EXCEPT ![d] = IdleRequest]
         /\ request[d].version \notin LockedBaselines(d)
         /\ UNCHANGED <<diff, overlapped>>
<1> USE DEF Structure
<1>1. Busy(d) /\ request[d] \in Request
  BY DEF CommitApproval, CommitRejection, Busy, TypeOK
<1>2. request[d].version \in Versions /\ request[d].rows \subseteq Keys
  BY <1>1 DEF Request
<1>3. \A k \in request[d].rows : change[k] # "none"
  BY <1>1, <1>2 DEF RequestSound
<1>4. /\ request' = [request EXCEPT ![d] = IdleRequest]
      /\ request[d].version \notin LockedBaselines(d)
      /\ UNCHANGED <<diff, overlapped>>
  BY DEF CommitApproval, CommitRejection
<1>5. PICK new \in {"ACTIVE", "REJECTED"} :
        /\ baseline' = Decided(d, new)
        /\ change' = [k \in Keys |-> IF k \in request[d].rows
                                     THEN IF new = "ACTIVE" THEN "IMPLEMENTED"
                                                            ELSE "REJECTED"
                                     ELSE change[k]]
  BY DEF CommitApproval, CommitRejection
<1>8. /\ Locked(d) \subseteq Active /\ request[d].version \notin Locked(d)
      /\ Locked(d) = request[d].others
  BY DEF CommitApproval, CommitRejection, LocksHold, Locked
<1>6. /\ baseline'[request[d].version] = new
      /\ \A v \in Versions : v # request[d].version =>
           baseline'[v] = IF v \in Locked(d) THEN "SUPERSEDED" ELSE baseline[v]
  <2>1. baseline' = Decided(d, new)
    BY <1>5
  <2>2. Decided(d, new)[request[d].version] = new
    BY <1>2 DEF Decided, LocksHold
  <2>3. \A v \in Versions : v # request[d].version =>
          Decided(d, new)[v] = IF v \in Locked(d) THEN "SUPERSEDED" ELSE baseline[v]
    BY <1>8 DEF Decided
  <2> QED
    BY <2>1, <2>2, <2>3
<1>7. /\ \A k \in request[d].rows :
           change'[k] = IF new = "ACTIVE" THEN "IMPLEMENTED" ELSE "REJECTED"
      /\ \A k \in Keys : k \notin request[d].rows => change'[k] = change[k]
  BY <1>2, <1>5
<1> QED
  BY <1>1, <1>2, <1>3, <1>4, <1>6, <1>7, <1>8

LEMMA DiffSoundStep ==
  ASSUME Structure, BatchAgrees, [Next]_vars
  PROVE  DiffSound'
<1> USE DEF Structure
<1>1. CASE Upload \/ UNCHANGED vars
  BY <1>1 DEF Upload, vars, DiffSound
<1>2. ASSUME NEW v \in Versions, Extract(v)
      PROVE  DiffSound'
  <2>1. \A k \in Keys : k.to = v => change[k] = "none"
    BY <1>2 DEF Extract, DiffSound, TypeOK
  <2>2. \A u \in Versions : u # v => diff'[u] = diff[u] /\ baseline'[u] = baseline[u]
    BY <1>2 DEF Extract, TypeOK
  <2>3. diff'[v].pc = "extracted" /\ baseline'[v] = "DRAFT" /\ change' = change
    BY <1>2 DEF Extract, TypeOK, DiffTask
  <2>4. \A k \in Keys : k.to \in Versions
    BY DEF Keys
  <2> QED
    BY <2>1, <2>2, <2>3, <2>4 DEF DiffSound
<1>3. ASSUME NEW v \in Versions, DiffRead(v)
      PROVE  DiffSound'
  <2>1. PICK b \in Versions :
          diff' = [diff EXCEPT ![v] = [pc |-> "read", rows |-> Delta(b, v)]]
    BY <1>3 DEF DiffRead
  <2>2. \A k \in Delta(b, v) : k.to = v
    BY DEF Delta
  <2>3. \A u \in Versions : u # v => diff'[u] = diff[u]
    BY <2>1 DEF TypeOK
  <2>4. diff'[v].pc = "read" /\ diff'[v].rows = Delta(b, v) /\ diff[v].pc = "extracted" /\ v > 1
    BY <1>3, <2>1 DEF TypeOK, DiffRead
  <2>5. baseline' = baseline /\ change' = change
    BY <1>3 DEF DiffRead
  <2>6. \A k \in Keys : k.to \in Versions
    BY DEF Keys
  <2> QED
    BY <2>2, <2>3, <2>4, <2>5, <2>6 DEF DiffSound
<1>4. ASSUME NEW v \in Versions, DiffEnd(v) \/ DiffCommit(v)
      PROVE  DiffSound'
  <2>1. /\ diff' = [diff EXCEPT ![v] = [pc |-> "ended", rows |-> {}]]
        /\ diff[v].pc \in {"extracted", "read"}
        /\ baseline' = baseline
    BY <1>4 DEF DiffEnd, DiffCommit
  <2>2. \A u \in Versions : u # v => diff'[u] = diff[u]
    BY <2>1 DEF TypeOK
  <2>3. diff'[v].pc = "ended" /\ diff'[v].rows = {}
    BY <2>1 DEF TypeOK
  <2>4. \A k \in Keys : k.to \in Versions
    BY DEF Keys
  <2>5. CASE DiffEnd(v)
    <3>1. change' = change
      BY <2>5 DEF DiffEnd
    <3> QED
      BY <2>1, <2>2, <2>3, <2>4, <3>1 DEF DiffSound
  <2>6. CASE DiffCommit(v)
    <3>1. v > 1 /\ \A k \in diff[v].rows : k.to = v
      BY <2>6 DEF DiffCommit, DiffSound
    <3>2. \A k \in Keys : /\ k \notin diff[v].rows => change'[k] = change[k]
                          /\ change[k] # "none" => change'[k] # "none"
      BY <2>6 DEF DiffCommit
    <3>3. \A k \in Keys : change'[k] # "none" => diff'[k.to].pc = "ended" /\ k.to > 1
      <4> SUFFICES ASSUME NEW k \in Keys, change'[k] # "none"
                   PROVE  diff'[k.to].pc = "ended" /\ k.to > 1
        OBVIOUS
      <4>1. CASE k \in diff[v].rows
        BY <4>1, <3>1, <2>3
      <4>2. CASE k \notin diff[v].rows
        <5>1. change[k] # "none" /\ k.to \in Versions
          BY <4>2, <3>2, <2>4
        <5>2. diff[k.to].pc = "ended" /\ k.to > 1
          BY <5>1 DEF DiffSound
        <5> QED
          BY <5>1, <5>2, <2>2, <2>3
      <4> QED
        BY <4>1, <4>2
    <3>4. \A u \in Versions : diff'[u].pc = "none" <=> baseline'[u] = "none"
      BY <2>1, <2>2, <2>3 DEF DiffSound
    <3>5. \A u \in Versions : diff'[u].pc = "read" =>
            u > 1 /\ \A k \in diff'[u].rows : k.to = u
      BY <2>2, <2>3 DEF DiffSound
    <3>6. \A u \in Versions : u > 1 /\ baseline'[u] \notin {"none", "DRAFT"} =>
            \E k \in Keys : k.to = u /\ change'[k] # "none"
      <4>1. \A u \in Versions : u > 1 /\ baseline[u] \notin {"none", "DRAFT"} =>
              \E k \in Keys : k.to = u /\ change[k] # "none"
        BY DEF DiffSound
      <4> QED
        BY <4>1, <2>1, <3>2
    <3> QED
      BY <3>3, <3>4, <3>5, <3>6 DEF DiffSound
  <2> QED
    BY <1>4, <2>5, <2>6
<1>5. ASSUME NEW v \in Versions, NEW c \in Codes, EditCheck(v, c)
      PROVE  DiffSound'
  BY <1>5 DEF EditCheck, DiffSound
<1>6. ASSUME NEW e \in edits, EditCommit(e)
      PROVE  DiffSound'
  BY <1>6 DEF EditCommit, DiffSound
<1>7. ASSUME NEW d \in Deciders, Decision(d)
      PROVE  DiffSound'
  <2>1. CASE CommitApproval(d) \/ CommitRejection(d)
    <3>2. diff' = diff
      BY <2>1 DEF CommitApproval, CommitRejection
    <3>3. \A k \in Keys : change'[k] # "none" <=> change[k] # "none"
      <4>1. \A k \in request[d].rows : change[k] # "none"
        BY <2>1 DEF CommitApproval, CommitRejection, RequestSound, Busy, TypeOK,
                    Request
      <4> QED
        BY <2>1, <4>1 DEF CommitApproval, CommitRejection
    <3>4. request[d].version \in Versions /\ baseline[request[d].version] # "none"
      BY <2>1 DEF CommitApproval, CommitRejection, RequestSound, Busy, TypeOK,
                  Request
    <3>5. \A u \in Versions : baseline'[u] = "none" <=> baseline[u] = "none"
      BY <2>1, <3>4, CommitEffect DEF Active
    <3>6. \A u \in Versions :
            baseline'[u] \notin {"none", "DRAFT"} /\ baseline[u] \in {"none", "DRAFT"}
              => u = request[d].version
      BY <2>1, CommitEffect DEF Active
    <3>7. request[d].version > 1 =>
            \E k \in Keys : k.to = request[d].version /\ change[k] # "none"
      <4>1. Busy(d)
        BY <2>1 DEF CommitApproval, CommitRejection, Busy
      <4>2. ASSUME request[d].version > 1
            PROVE  request[d].kind # "activate"
        BY <4>1, <4>2 DEF RequestSound
      <4>3. ASSUME request[d].kind # "activate"
            PROVE  /\ request[d].rows # {}
                   /\ \A k \in Keys : k \in request[d].rows <=>
                        k.to = request[d].version /\ change[k] # "none"
        BY <4>1, <4>3 DEF RequestSound
      <4>4. request[d].rows \subseteq Keys
        BY DEF TypeOK, Request
      <4> QED
        BY <4>2, <4>3, <4>4
    <3> QED
      BY <3>2, <3>3, <3>5, <3>6, <3>7 DEF DiffSound
  <2>2. CASE ~CommitApproval(d) /\ ~CommitRejection(d)
    BY <1>7, <2>2 DEF Decision, Activate, Transition, Begin, Update, Demote, Fail, DiffSound
  <2> QED
    BY <2>1, <2>2
<1> QED
  BY <1>1, <1>2, <1>3, <1>4, <1>5, <1>6, <1>7 DEF Next, Extraction

\* The steps of a handler before its commit touch its own request only.
LEMMA OwnRequest ==
  ASSUME TypeOK, NEW d \in Deciders, Decision(d)
  PROVE  \A e \in Deciders : e # d => request'[e] = request[e]
BY DEF Decision, Activate, Transition, Begin, Update, Demote, CommitApproval,
       CommitRejection, Fail, TypeOK

LEMMA RequestSoundStep ==
  ASSUME Structure, BatchAgrees, [Next]_vars
  PROVE  RequestSound'
<1> USE DEF Structure
<1>1. ASSUME request' = request, change' = change,
             \A v \in Versions : baseline[v] # "none" => baseline'[v] # "none"
      PROVE  RequestSound'
  BY <1>1 DEF RequestSound, Busy, TypeOK, Request
<1>2. CASE Upload \/ UNCHANGED vars
  BY <1>1, <1>2 DEF Upload, vars
<1>3. ASSUME NEW v \in Versions, Extract(v) \/ DiffRead(v) \/ DiffEnd(v)
      PROVE  RequestSound'
  BY <1>1, <1>3 DEF Extract, DiffRead, DiffEnd, TypeOK
<1>4. ASSUME NEW v \in Versions, DiffCommit(v)
      PROVE  RequestSound'
  <2>1. \A k \in Keys : k.to = v => change[k] = "none"
    BY <1>4 DEF DiffCommit, DiffSound
  <2>2. \A d \in Deciders : Busy(d) /\ request[d].kind # "activate" =>
          request[d].version # v
    <3> SUFFICES ASSUME NEW d \in Deciders, Busy(d), request[d].kind # "activate"
                 PROVE  request[d].version # v
      OBVIOUS
    <3>1. request[d].rows # {} /\ request[d].rows \subseteq Keys
      BY DEF RequestSound, TypeOK, Request
    <3>2. PICK k \in request[d].rows : k \in Keys
      BY <3>1
    <3>3. k.to = request[d].version /\ change[k] # "none"
      BY <3>2 DEF RequestSound
    <3> QED
      BY <2>1, <3>2, <3>3
  <2>3. \A k \in Keys : k.to # v => change'[k] = change[k]
    BY <1>4 DEF DiffCommit, DiffSound
  <2>4. request' = request /\ baseline' = baseline
    BY <1>4 DEF DiffCommit
  <2>5. \A d \in Deciders : Busy(d)' <=> Busy(d)
    BY <2>4 DEF Busy
  <2>6. \A d \in Deciders : Busy(d) /\ request[d].kind # "activate" =>
          \A k \in Keys : k \in request[d].rows <=>
            k.to = request[d].version /\ change'[k] # "none"
    <3> SUFFICES ASSUME NEW d \in Deciders, Busy(d), request[d].kind # "activate",
                        NEW k \in Keys
                 PROVE  k \in request[d].rows <=>
                          k.to = request[d].version /\ change'[k] # "none"
      OBVIOUS
    <3>1. k \in request[d].rows <=> k.to = request[d].version /\ change[k] # "none"
      BY DEF RequestSound
    <3> QED
      BY <3>1, <2>2, <2>3
  <2> QED
    BY <2>4, <2>5, <2>6 DEF RequestSound
<1>5. ASSUME NEW v \in Versions, NEW c \in Codes, EditCheck(v, c)
      PROVE  RequestSound'
  BY <1>1, <1>5 DEF EditCheck
<1>6. ASSUME NEW e \in edits, EditCommit(e)
      PROVE  RequestSound'
  BY <1>1, <1>6 DEF EditCommit
<1>7. ASSUME NEW d \in Deciders, Activate(d, 1)
      PROVE  RequestSound'
  <2>1. request' = [request EXCEPT ![d] =
          [pc |-> "checked", kind |-> "activate", version |-> 1, rows |-> {},
           others |-> {}]]
    BY <1>7 DEF Activate, Begin
  <2>2. baseline' = baseline /\ change' = change /\ baseline[1] # "none"
    BY <1>7 DEF Activate, Begin
  <2> QED
    BY <2>1, <2>2 DEF RequestSound, Busy, TypeOK
<1>8. ASSUME NEW d \in Deciders, NEW v \in Versions,
             NEW decision \in {"approve", "reject"}, Transition(d, v, decision)
      PROVE  RequestSound'
  <2>1. request' = [request EXCEPT ![d] =
          [pc |-> "checked", kind |-> decision, version |-> v, rows |-> Proposed(v),
           others |-> {}]]
    BY <1>8 DEF Transition, Begin
  <2>2. baseline' = baseline /\ change' = change /\ baseline[v] # "none"
    BY <1>8 DEF Transition, Begin
  <2>3. Proposed(v) # {}
    BY <1>8 DEF Transition
  <2>4. \A k \in Keys : k \in Proposed(v) <=> k.to = v /\ change[k] # "none"
    BY <1>8 DEF Transition, Proposed, BatchAgrees, TypeOK, ScopeChangeStatus
  <2>5. \A e \in Deciders : e # d => request'[e] = request[e]
    BY <2>1 DEF TypeOK
  <2>6. /\ request'[d].kind = decision
        /\ request'[d].version = v
        /\ request'[d].rows = Proposed(v)
    BY <2>1 DEF TypeOK
  <2> QED
    BY <2>2, <2>3, <2>4, <2>5, <2>6 DEF RequestSound, Busy
<1>9. ASSUME NEW d \in Deciders, Update(d) \/ Demote(d)
      PROVE  RequestSound'
  <2>1. /\ request'[d].kind = request[d].kind
        /\ request'[d].version = request[d].version
        /\ request'[d].rows = request[d].rows
        /\ Busy(d) /\ Busy(d)'
    <3>1. request[d] \in Request
      BY DEF TypeOK
    <3>2. CASE Update(d)
      BY <3>1, <3>2 DEF Update, TypeOK, Busy, Request
    <3>3. CASE Demote(d)
      BY <3>1, <3>3 DEF Demote, TypeOK, Busy, Request
    <3> QED
      BY <1>9, <3>2, <3>3
  <2>2. \A e \in Deciders : e # d => request'[e] = request[e]
    BY <1>9, OwnRequest DEF Decision
  <2>3. baseline' = baseline /\ change' = change
    BY <1>9 DEF Update, Demote
  <2> QED
    BY <2>1, <2>2, <2>3 DEF RequestSound, Busy
<1>10. ASSUME NEW d \in Deciders, CommitApproval(d) \/ CommitRejection(d)
       PROVE  RequestSound'
  <2>1. ~Busy(d)'
    BY <1>10 DEF CommitApproval, CommitRejection, Busy, IdleRequest, TypeOK
  <2>2. \A e \in Deciders : e # d => request'[e] = request[e]
    BY <1>10, OwnRequest DEF Decision
  <2>3. \A v \in Versions : baseline[v] # "none" => baseline'[v] # "none"
    BY <1>10, CommitEffect
  <2>4. \A k \in Keys : change'[k] # "none" <=> change[k] # "none"
    BY <1>10, CommitEffect
  <2>5. \A e \in Deciders : request[e].version \in Versions
    BY DEF TypeOK, Request
  <2> QED
    BY <2>1, <2>2, <2>3, <2>4, <2>5 DEF RequestSound, Busy
<1>11. ASSUME NEW d \in Deciders, Fail(d)
       PROVE  RequestSound'
  <2>1. ~Busy(d)'
    BY <1>11 DEF Fail, Busy, IdleRequest, TypeOK
  <2>2. \A e \in Deciders : e # d => request'[e] = request[e]
    BY <1>11, OwnRequest DEF Decision
  <2>3. baseline' = baseline /\ change' = change
    BY <1>11 DEF Fail
  <2> QED
    BY <2>1, <2>2, <2>3 DEF RequestSound, Busy
<1>12. ASSUME NEW d \in Deciders, \E v \in Versions : Activate(d, v)
       PROVE  Activate(d, 1)
  BY <1>12 DEF Activate
<1> QED
  BY <1>2, <1>3, <1>4, <1>5, <1>6, <1>7, <1>8, <1>9, <1>10, <1>11, <1>12
     DEF Next, Extraction, Decision

LEMMA LocksHoldStep ==
  ASSUME Structure, [Next]_vars
  PROVE  LocksHold'
<1> USE DEF Structure
<1>1. ASSUME request' = request, \A v \in Versions : baseline[v] = "ACTIVE" =>
                                                     baseline'[v] = "ACTIVE"
      PROVE  LocksHold'
  BY <1>1 DEF LocksHold, Locked, Active
<1>2. CASE Upload \/ UNCHANGED vars
  BY <1>1, <1>2 DEF Upload, vars
<1>3. ASSUME NEW v \in Versions, Extraction(v)
      PROVE  LocksHold'
  BY <1>1, <1>3 DEF Extraction, Extract, DiffRead, DiffEnd, DiffCommit, TypeOK
<1>4. ASSUME NEW v \in Versions, NEW c \in Codes, EditCheck(v, c)
      PROVE  LocksHold'
  BY <1>1, <1>4 DEF EditCheck
<1>5. ASSUME NEW e \in edits, EditCommit(e)
      PROVE  LocksHold'
  BY <1>1, <1>5 DEF EditCommit
\* A request that holds no row.
<1>6. ASSUME NEW d \in Deciders, request'[d].pc # "demoted",
             request'[d].version \notin request'[d].others,
             request'[d].pc = "checked" => request'[d].others = {},
             \A e \in Deciders : e # d => request'[e] = request[e],
             \A e \in Deciders : e # d => Locked(e) \subseteq Active'
      PROVE  LocksHold'
  BY <1>6 DEF LocksHold, Locked
<1>7. ASSUME NEW d \in Deciders,
             \/ \E v \in Versions : Activate(d, v)
             \/ \E v \in Versions, decision \in {"approve", "reject"} :
                  Transition(d, v, decision)
             \/ Update(d)
             \/ Fail(d)
      PROVE  LocksHold'
  <2>1. /\ request'[d].pc # "demoted"
        /\ request'[d].version \notin request'[d].others
        /\ request'[d].pc = "checked" => request'[d].others = {}
    BY <1>7 DEF Activate, Transition, Begin, Update, Fail, IdleRequest, TypeOK, Request
  <2>2. \A e \in Deciders : e # d => request'[e] = request[e]
    BY <1>7, OwnRequest DEF Decision
  <2>3. baseline' = baseline
    BY <1>7 DEF Activate, Transition, Begin, Update, Fail
  <2>4. Active' = Active
    BY <2>3 DEF Active
  <2> QED
    BY <1>6, <2>1, <2>2, <2>4 DEF LocksHold
<1>8. ASSUME NEW d \in Deciders, Demote(d)
      PROVE  LocksHold'
  <2>1. /\ request'[d].others = request[d].others \cap Active
        /\ request'[d].version = request[d].version
        /\ request'[d].pc = "demoted"
    BY <1>8 DEF Demote, TypeOK, Request
  <2>2. \A e \in Deciders : e # d => request'[e] = request[e]
    BY <1>8, OwnRequest DEF Decision
  <2>3. Active' = Active
    BY <1>8 DEF Demote, Active
  <2>4. \A e \in Deciders : e # d => request'[d].others \cap Locked(e) = {}
    BY <1>8, <2>1 DEF Demote, LockedBaselines, Locked
  <2>5. \A e \in Deciders : e # d => Locked(e)' = Locked(e)
    BY <2>2 DEF Locked
  <2>6. Locked(d)' = request'[d].others
    BY <2>1 DEF Locked
  <2>7. /\ Locked(d)' \subseteq Active'
        /\ request'[d].version \notin request'[d].others
    BY <2>1, <2>3, <2>6 DEF LocksHold
  <2>8. \A e, f \in Deciders : e # f => (Locked(e) \cap Locked(f) = {})'
    BY <2>4, <2>5, <2>6 DEF LocksHold
  <2>9. \A e \in Deciders : e # d =>
          /\ Locked(e)' \subseteq Active'
          /\ request'[e].version \notin request'[e].others
          /\ request'[e].pc = "checked" => request'[e].others = {}
    BY <2>2, <2>3, <2>5 DEF LocksHold
  <2> QED
    BY <2>1, <2>7, <2>8, <2>9 DEF LocksHold
<1>9. ASSUME NEW d \in Deciders, CommitApproval(d) \/ CommitRejection(d)
      PROVE  LocksHold'
  <2>1. request'[d].others = {} /\ request'[d].pc = "idle"
    BY <1>9 DEF CommitApproval, CommitRejection, IdleRequest, TypeOK
  <2>2. \A e \in Deciders : e # d => request'[e] = request[e]
    BY <1>9, OwnRequest DEF Decision
  <2>3. ASSUME NEW e \in Deciders, e # d
        PROVE  Locked(e) \subseteq Active'
    <3>1. request[d].version \notin Locked(e)
      BY <1>9, <2>3, CommitEffect DEF LockedBaselines, Locked
    <3>2. Locked(e) \cap Locked(d) = {}
      BY <2>3 DEF LocksHold
    <3>3. Locked(e) \subseteq Active
      BY DEF LocksHold
    <3>4. \A v \in Locked(e) : baseline'[v] = baseline[v]
      BY <1>9, <3>1, <3>2, <3>3, CommitEffect DEF Active
    <3> QED
      BY <3>3, <3>4 DEF Active
  <2> QED
    BY <1>6, <2>1, <2>2, <2>3
<1> QED
  BY <1>2, <1>3, <1>4, <1>5, <1>7, <1>8, <1>9 DEF Next, Decision

LEMMA StructureStep ==
  ASSUME Structure, BatchAgrees, [Next]_vars
  PROVE  Structure'
BY TypeStep, DiffSoundStep, RequestSoundStep, LocksHoldStep DEF Structure

-----------------------------------------------------------------------------
(* What the properties rest on.                                            *)

LEMMA BatchStep ==
  ASSUME Structure, BatchAgrees, [Next]_vars
  PROVE  BatchAgrees'
<1> USE DEF Structure
<1>1. CASE UNCHANGED <<baseline, change>>
  BY <1>1 DEF BatchAgrees
<1>2. ASSUME NEW v \in Versions, Extract(v)
      PROVE  BatchAgrees'
  <2>1. \A k \in Keys : k.to = v => change[k] = "none"
    BY <1>2 DEF Extract, DiffSound
  <2>2. /\ change' = change
        /\ \A u \in Versions : u # v => baseline'[u] = baseline[u]
    BY <1>2 DEF Extract, TypeOK
  <2>3. \A k \in Keys : k.to \in Versions
    BY DEF Keys
  <2> QED
    BY <2>1, <2>2, <2>3 DEF BatchAgrees
<1>3. ASSUME NEW v \in Versions, DiffCommit(v)
      PROVE  BatchAgrees'
  <2>1. baseline[v] = "DRAFT"
    BY <1>3 DEF DiffCommit, DiffSound
  <2>2. \A k \in diff[v].rows : k.to = v
    BY <1>3 DEF DiffCommit, DiffSound
  <2> QED
    BY <1>3, <2>1, <2>2 DEF DiffCommit, BatchAgrees
<1>4. ASSUME NEW d \in Deciders, CommitApproval(d) \/ CommitRejection(d)
      PROVE  BatchAgrees'
  <2>1. ASSUME NEW k \in Keys
        PROVE  BatchAgrees!(k)'
    <3>1. Busy(d) /\ request[d].version \in Versions /\ k.to \in Versions
      BY <1>4, CommitEffect DEF Keys
    <3>2. CASE k \in request[d].rows
      <4>1. k.to = request[d].version
        BY <3>1, <3>2 DEF RequestSound
      <4> QED
        BY <1>4, <3>2, <4>1, CommitEffect DEF BatchAgrees
    <3>3. CASE k \notin request[d].rows /\ k.to = request[d].version
      <4>1. change[k] = "none"
        BY <3>1, <3>3 DEF RequestSound, DiffSound
      <4> QED
        BY <1>4, <3>3, <4>1, CommitEffect
    <3>4. CASE k \notin request[d].rows /\ k.to # request[d].version
      <4>1. change'[k] = change[k]
        BY <1>4, <3>4, CommitEffect
      <4>2. \/ baseline'[k.to] = baseline[k.to]
            \/ baseline[k.to] = "ACTIVE" /\ baseline'[k.to] = "SUPERSEDED"
        BY <1>4, <3>1, <3>4, CommitEffect DEF LocksHold, Active
      <4> QED
        BY <4>1, <4>2 DEF BatchAgrees
    <3> QED
      BY <3>2, <3>3, <3>4
  <2> QED
    BY <2>1 DEF BatchAgrees
<1> QED
  BY <1>1, <1>2, <1>3, <1>4
     DEF Next, Extraction, Decision, Upload, DiffRead, DiffEnd, EditCheck,
         EditCommit, Activate, Transition, Begin, Update, Demote, Fail, vars

\* A row of a diff is about a baseline the task has seen active.
LEMMA DiffRowsStep ==
  ASSUME Structure, Alone, [Next]_vars, ~overlapped'
  PROVE  \A v \in Versions : \A k \in diff'[v].rows :
           baseline'[k.from] \in {"ACTIVE", "SUPERSEDED"}
<1> USE DEF Structure
<1>0. \A v \in Versions : \A k \in diff[v].rows : k.from \in Versions
  BY DEF TypeOK, DiffTask, Keys
<1>1. ASSUME overlapped' = overlapped, diff' = diff,
             \A u \in Versions : baseline[u] \in {"ACTIVE", "SUPERSEDED"} =>
                                 baseline'[u] \in {"ACTIVE", "SUPERSEDED"}
      PROVE  \A v \in Versions : \A k \in diff'[v].rows :
               baseline'[k.from] \in {"ACTIVE", "SUPERSEDED"}
  BY <1>0, <1>1 DEF Alone
<1>2. CASE Upload \/ UNCHANGED vars
  BY <1>1, <1>2 DEF Upload, vars
<1>3. ASSUME NEW w \in Versions, Extract(w) \/ DiffEnd(w) \/ DiffCommit(w)
      PROVE  \A v \in Versions : \A k \in diff'[v].rows :
               baseline'[k.from] \in {"ACTIVE", "SUPERSEDED"}
  <2>1. ~overlapped /\ \A v \in Versions : diff'[v].rows \subseteq diff[v].rows
    <3>1. ~overlapped
      BY <1>3 DEF Extract, DiffEnd, DiffCommit
    <3>2. CASE Extract(w)
      BY <3>2 DEF Extract, TypeOK, DiffTask
    <3>3. CASE DiffEnd(w) \/ DiffCommit(w)
      BY <3>3 DEF DiffEnd, DiffCommit, TypeOK, DiffTask
    <3> QED
      BY <1>3, <3>1, <3>2, <3>3
  <2>2. \A u \in Versions : baseline[u] \in {"ACTIVE", "SUPERSEDED"} =>
                            baseline'[u] = baseline[u]
    BY <1>3 DEF Extract, DiffEnd, DiffCommit, TypeOK
  <2> QED
    BY <1>0, <2>1, <2>2 DEF Alone
<1>4. ASSUME NEW w \in Versions, DiffRead(w)
      PROVE  \A v \in Versions : \A k \in diff'[v].rows :
               baseline'[k.from] \in {"ACTIVE", "SUPERSEDED"}
  <2>1. PICK b \in Versions :
          /\ Active = {b}
          /\ diff' = [diff EXCEPT ![w] = [pc |-> "read", rows |-> Delta(b, w)]]
    BY <1>4 DEF DiffRead
  <2>2. baseline[b] = "ACTIVE" /\ \A k \in Delta(b, w) : k.from = b
    BY <2>1 DEF Active, Delta
  <2>3. baseline' = baseline /\ ~overlapped
    BY <1>4 DEF DiffRead
  <2>4. \A v \in Versions : v # w => diff'[v] = diff[v]
    BY <2>1 DEF TypeOK
  <2>5. diff'[w].rows = Delta(b, w)
    BY <2>1 DEF TypeOK
  <2> QED
    BY <2>2, <2>3, <2>4, <2>5 DEF Alone
<1>5. ASSUME NEW v \in Versions, NEW c \in Codes, EditCheck(v, c)
      PROVE  overlapped' = overlapped /\ diff' = diff /\ baseline' = baseline
  BY <1>5 DEF EditCheck
<1>6. ASSUME NEW e \in edits, EditCommit(e)
      PROVE  overlapped' = overlapped /\ diff' = diff /\ baseline' = baseline
  BY <1>6 DEF EditCommit
<1>7. ASSUME NEW d \in Deciders, Decision(d)
      PROVE  \A v \in Versions : \A k \in diff'[v].rows :
               baseline'[k.from] \in {"ACTIVE", "SUPERSEDED"}
  <2>1. CASE CommitApproval(d) \/ CommitRejection(d)
    <3>1. baseline[request[d].version] = "DRAFT"
      BY <2>1, CommitEffect DEF Alone
    <3> QED
      BY <1>1, <2>1, <3>1, CommitEffect
  <2>2. CASE ~CommitApproval(d) /\ ~CommitRejection(d)
    <3>1. diff' = diff /\ baseline' = baseline
      BY <1>7, <2>2 DEF Decision, Activate, Transition, Begin, Update, Demote, Fail
    <3>2. overlapped => overlapped'
      BY <1>7, <2>2 DEF Decision, Activate, Transition, Begin, Update, Demote, Fail
    <3> QED
      BY <3>1, <3>2 DEF Alone
  <2> QED
    BY <2>1, <2>2
<1> QED
  BY <1>1, <1>2, <1>3, <1>4, <1>5, <1>6, <1>7 DEF Next, Extraction

LEMMA AloneStep ==
  ASSUME Structure, Alone, [Next]_vars
  PROVE  Alone'
<1> USE DEF Structure
<1> SUFFICES ASSUME ~overlapped'
             PROVE  /\ \A d, e \in Deciders : Busy(d)' /\ Busy(e)' => d = e
                    /\ \A d \in Deciders :
                         Busy(d)' => baseline'[request'[d].version] = "DRAFT"
                    /\ \A d \in Deciders : request'[d].pc \in {"updating", "demoted"} =>
                         Active' \subseteq request'[d].others
  BY DiffRowsStep DEF Alone
<1>1. ASSUME ~overlapped, request' = request, Active' = Active,
             \A v \in Versions : baseline[v] = "DRAFT" => baseline'[v] = "DRAFT"
      PROVE  /\ \A d, e \in Deciders : Busy(d)' /\ Busy(e)' => d = e
             /\ \A d \in Deciders :
                  Busy(d)' => baseline'[request'[d].version] = "DRAFT"
             /\ \A d \in Deciders : request'[d].pc \in {"updating", "demoted"} =>
                  Active' \subseteq request'[d].others
  BY <1>1 DEF Alone, Busy, TypeOK, Request
<1>2. CASE UNCHANGED <<request, baseline, overlapped>>
  BY <1>1, <1>2 DEF Active
<1>3. ASSUME NEW v \in Versions, Extract(v)
      PROVE  /\ ~overlapped /\ request' = request /\ Active' = Active
             /\ \A u \in Versions : baseline[u] = "DRAFT" => baseline'[u] = "DRAFT"
  BY <1>3 DEF Extract, Active, TypeOK
\* A handler that starts is the only one.
<1>4. ASSUME NEW d \in Deciders, NEW v \in Versions, baseline[v] = "DRAFT",
             NEW kind, NEW rows, Begin(d, kind, v, rows)
      PROVE  /\ \A e, f \in Deciders : Busy(e)' /\ Busy(f)' => e = f
             /\ \A e \in Deciders :
                  Busy(e)' => baseline'[request'[e].version] = "DRAFT"
             /\ \A e \in Deciders : request'[e].pc \in {"updating", "demoted"} =>
                  Active' \subseteq request'[e].others
  <2>1. \A e \in Deciders : ~Busy(e)
    BY <1>4 DEF Begin
  <2>2. \A e \in Deciders : e # d => ~Busy(e)'
    BY <1>4, <2>1 DEF Begin, Busy, TypeOK
  <2>3. request'[d].version = v /\ request'[d].pc = "checked" /\ baseline' = baseline
    BY <1>4 DEF Begin, TypeOK
  <2> QED
    BY <1>4, <2>2, <2>3 DEF Busy
<1>5. ASSUME NEW d \in Deciders, Update(d) \/ Demote(d)
      PROVE  /\ \A e, f \in Deciders : Busy(e)' /\ Busy(f)' => e = f
             /\ \A e \in Deciders :
                  Busy(e)' => baseline'[request'[e].version] = "DRAFT"
             /\ \A e \in Deciders : request'[e].pc \in {"updating", "demoted"} =>
                  Active' \subseteq request'[e].others
  <2>1. ~overlapped /\ baseline' = baseline /\ Active' = Active /\ Busy(d)
    BY <1>5 DEF Update, Demote, Active, Busy
  <2>2. \A e \in Deciders : e # d => ~Busy(e) /\ request'[e] = request[e]
    BY <1>5, <2>1, OwnRequest DEF Decision, Alone
  <2>3. baseline[request[d].version] = "DRAFT"
    BY <2>1 DEF Alone
  <2>4. request'[d].version = request[d].version
    BY <1>5 DEF Update, Demote, TypeOK, Request
  <2>5. CASE Update(d)
    <3>1. request'[d].others = Active \ {request[d].version}
      BY <2>5 DEF Update, TypeOK, Request
    <3>2. Active \subseteq request'[d].others
      BY <2>3, <3>1 DEF Active
    <3> QED
      BY <2>1, <2>2, <2>3, <2>4, <3>2 DEF Busy
  <2>6. CASE Demote(d)
    <3>1. request'[d].others = request[d].others \cap Active
      BY <2>6 DEF Demote, TypeOK, Request
    <3>2. Active \subseteq request'[d].others
      BY <2>1, <2>6, <3>1 DEF Demote, Alone
    <3> QED
      BY <2>1, <2>2, <2>3, <2>4, <3>2 DEF Busy
  <2> QED
    BY <1>5, <2>5, <2>6
\* When a handler ends, nobody else is there.
<1>6. ASSUME NEW d \in Deciders, CommitApproval(d) \/ CommitRejection(d) \/ Fail(d)
      PROVE  \A e \in Deciders : ~Busy(e)' /\ request'[e].pc = "idle"
  <2>1. ~overlapped /\ Busy(d)
    BY <1>6 DEF CommitApproval, CommitRejection, Fail, Busy
  <2>2. \A e \in Deciders : e # d => ~Busy(e) /\ request'[e] = request[e]
    BY <1>6, <2>1, OwnRequest DEF Decision, Alone
  <2>3. request'[d].pc = "idle"
    BY <1>6 DEF CommitApproval, CommitRejection, Fail, IdleRequest, TypeOK
  <2> QED
    BY <2>2, <2>3 DEF Busy
<1> QED
  BY <1>1, <1>2, <1>3, <1>4, <1>5, <1>6
     DEF Next, Extraction, Decision, Upload, DiffRead, DiffEnd, DiffCommit,
         EditCheck, EditCommit, Activate, Transition, vars

LEMMA OneActiveAloneStep ==
  ASSUME Structure, Alone, OneActiveAlone, [Next]_vars
  PROVE  OneActiveAlone'
<1> USE DEF Structure
<1> SUFFICES ASSUME ~overlapped'
             PROVE  OneActive'
  BY DEF OneActiveAlone
<1>1. ASSUME Active' \subseteq Active, ~overlapped
      PROVE  OneActive'
  BY <1>1 DEF OneActiveAlone, OneActive
<1>2. CASE UNCHANGED <<baseline, overlapped>>
  BY <1>1, <1>2 DEF Active
<1>3. ASSUME NEW v \in Versions, Extract(v)
      PROVE  OneActive'
  BY <1>1, <1>3 DEF Extract, Active, TypeOK
<1>4. ASSUME NEW d \in Deciders, NEW v, NEW kind, NEW rows, Begin(d, kind, v, rows)
      PROVE  OneActive'
  BY <1>1, <1>4 DEF Begin, Active
<1>5. ASSUME NEW d \in Deciders, CommitApproval(d) \/ CommitRejection(d)
      PROVE  OneActive'
  <2>1. ~overlapped
    BY <1>5, CommitEffect
  <2>2. CASE CommitApproval(d)
    <3>1. Active \subseteq Locked(d)
      BY <2>1, <2>2 DEF CommitApproval, Alone, Locked
    <3>2. Active' \subseteq {request[d].version}
      BY <1>5, <3>1, CommitEffect DEF Active
    <3> QED
      BY <3>2 DEF OneActive
  <2>3. CASE CommitRejection(d)
    <3>1. baseline' = Decided(d, "REJECTED")
      BY <2>3 DEF CommitRejection
    <3>2. Active' \subseteq Active
      BY <3>1 DEF Decided, LocksHold, Active
    <3> QED
      BY <1>1, <2>1, <3>2
  <2> QED
    BY <1>5, <2>2, <2>3
<1> QED
  BY <1>2, <1>3, <1>4, <1>5
     DEF Next, Extraction, Decision, Upload, DiffRead, DiffEnd, DiffCommit,
         EditCheck, EditCommit, Activate, Transition, Update, Demote, Fail, vars

LEMMA LineageStep ==
  ASSUME Structure, Alone, LineageHolds, [Next]_vars
  PROVE  LineageHolds'
<1> USE DEF Structure
<1> SUFFICES ASSUME ~overlapped', NEW k \in Keys, change'[k] # "none"
             PROVE  baseline'[k.from] \in {"ACTIVE", "SUPERSEDED"}
  BY DEF LineageHolds
<1>0. k.from \in Versions
  BY DEF Keys
<1>1. ASSUME ~overlapped, change[k] # "none",
             baseline[k.from] \in {"ACTIVE", "SUPERSEDED"} =>
               baseline'[k.from] \in {"ACTIVE", "SUPERSEDED"}
      PROVE  baseline'[k.from] \in {"ACTIVE", "SUPERSEDED"}
  BY <1>1 DEF LineageHolds
<1>2. CASE UNCHANGED <<baseline, change, overlapped>>
  BY <1>1, <1>2
<1>3. ASSUME NEW v \in Versions, Extract(v)
      PROVE  baseline'[k.from] \in {"ACTIVE", "SUPERSEDED"}
  BY <1>0, <1>1, <1>3 DEF Extract, TypeOK
<1>4. ASSUME NEW v \in Versions, DiffCommit(v)
      PROVE  baseline'[k.from] \in {"ACTIVE", "SUPERSEDED"}
  <2>1. CASE k \in diff[v].rows
    BY <1>4, <2>1 DEF DiffCommit, Alone
  <2>2. CASE k \notin diff[v].rows
    BY <1>1, <1>4, <2>2 DEF DiffCommit
  <2> QED
    BY <2>1, <2>2
<1>5. ASSUME NEW d \in Deciders, NEW v, NEW kind, NEW rows, Begin(d, kind, v, rows)
      PROVE  baseline'[k.from] \in {"ACTIVE", "SUPERSEDED"}
  BY <1>1, <1>5 DEF Begin
<1>6. ASSUME NEW d \in Deciders, CommitApproval(d) \/ CommitRejection(d)
      PROVE  baseline'[k.from] \in {"ACTIVE", "SUPERSEDED"}
  <2>1. ~overlapped /\ change[k] # "none"
    BY <1>6, CommitEffect
  <2>2. baseline[request[d].version] = "DRAFT"
    BY <1>6, <2>1, CommitEffect DEF Alone
  <2> QED
    BY <1>0, <1>1, <1>6, <2>1, <2>2, CommitEffect
<1> QED
  BY <1>2, <1>3, <1>4, <1>5, <1>6
     DEF Next, Extraction, Decision, Upload, DiffRead, DiffEnd,
         EditCheck, EditCommit, Activate, Transition, Update, Demote, Fail, vars

LEMMA IInvStep == IInv /\ [Next]_vars => IInv'
BY StructureStep, BatchStep, AloneStep, OneActiveAloneStep, LineageStep DEF IInv

LEMMA Inductive == Spec => []IInv
BY InitIInv, IInvStep, PTL DEF Spec

-----------------------------------------------------------------------------
(* The theorems.                                                           *)

\* Every column, task and request keeps the shape of its definition.
THEOREM TypesHold == Spec => []TypeOK
<1>1. IInv => TypeOK
  BY DEF IInv, Structure
<1> QED
  BY Inductive, <1>1, PTL

\* No scope after the first takes effect without the PMO, for any number of
\* requests in flight.
THEOREM PmoDecides == Spec => []PmoGate
<1>1. IInv => PmoGate
  <2> SUFFICES ASSUME IInv, NEW v \in Versions, v > 1,
                      baseline[v] \in {"ACTIVE", "SUPERSEDED"}
               PROVE  \E k \in Keys : k.to = v /\ change[k] = "IMPLEMENTED"
    BY DEF PmoGate
  <2>1. PICK k \in Keys : k.to = v /\ change[k] # "none"
    BY DEF IInv, Structure, DiffSound
  <2>2. change[k] \in {"PROPOSED", "IMPLEMENTED", "REJECTED"}
    BY <2>1 DEF IInv, Structure, TypeOK, ScopeChangeStatus
  <2>3. change[k] = "IMPLEMENTED"
    BY <2>1, <2>2 DEF IInv, BatchAgrees
  <2> QED
    BY <2>1, <2>3
<1> QED
  BY Inductive, <1>1, PTL

\* The changes of a version share its fate, for any number of requests in flight.
THEOREM BatchesAgree == Spec => []BatchAgrees
<1>1. IInv => BatchAgrees
  BY DEF IInv
<1> QED
  BY Inductive, <1>1, PTL

\* Two active baselines need two overlapping decisions.
THEOREM OneActiveWithoutOverlap == Spec => []OneActiveAlone
<1>1. IInv => OneActiveAlone
  BY DEF IInv
<1> QED
  BY Inductive, <1>1, PTL

\* Without an overlap, a change starts from a scope that was in force.
THEOREM LineageIsSound == Spec => []LineageHolds
<1>1. IInv => LineageHolds
  BY DEF IInv
<1> QED
  BY Inductive, <1>1, PTL

\* A project that has an active baseline keeps one: approval replaces it in one
\* commit and rejection leaves it (baselines.py:238-250), one decision at a time.
ScopeNeverLapses ==
  [][~overlapped' /\ Active # {} => Active' # {}]_vars

\* Without an overlap, no step leaves a project without its active baseline.
THEOREM ScopeStaysInForce == Spec => ScopeNeverLapses
<1>1. IInv /\ [Next]_vars => [~overlapped' /\ Active # {} => Active' # {}]_vars
  <2> SUFFICES ASSUME IInv, Next, ~overlapped', Active # {}
               PROVE  Active' # {}
    BY DEF vars
  <2>1. CASE UNCHANGED baseline
    BY <2>1 DEF Active
  <2>2. ASSUME NEW v \in Versions, Extract(v)
        PROVE  Active' # {}
    BY <2>2 DEF Extract, Active, IInv, Structure, TypeOK
  <2>3. ASSUME NEW d \in Deciders, CommitApproval(d)
        PROVE  Active' # {}
    <3>1. baseline'[request[d].version] = "ACTIVE" /\ request[d].version \in Versions
      BY <2>3 DEF CommitApproval, Decided, IInv, Structure, LocksHold, TypeOK, Request
    <3> QED
      BY <3>1 DEF Active
  <2>4. ASSUME NEW d \in Deciders, CommitRejection(d)
        PROVE  Active' # {}
    <3>1. baseline[request[d].version] = "DRAFT"
      BY <2>4, CommitEffect DEF IInv, Alone
    <3>2. Locked(d) = {}
      BY <2>4 DEF CommitRejection, Locked
    <3>3. \A v \in Active : baseline'[v] = baseline[v]
      BY <2>4, <3>1, <3>2, CommitEffect DEF Active, IInv
    <3> QED
      BY <3>3 DEF Active
  <2> QED
    BY <2>1, <2>2, <2>3, <2>4
       DEF Next, Extraction, Decision, Upload, DiffRead, DiffEnd, DiffCommit,
           EditCheck, EditCommit, Activate, Transition, Begin, Update, Demote, Fail
<1> QED
  BY Inductive, <1>1, PTL DEF Spec, ScopeNeverLapses
-----------------------------------------------------------------------------
(* The refinement of ScopeControl.                                         *)

LEMMA FateTyped ==
  ASSUME TypeOK, NEW v \in Versions
  PROVE  /\ baseline[v] = "none" <=> Fate(v) = "none"
         /\ baseline[v] = "DRAFT" <=> Fate(v) = "draft"
         /\ baseline[v] \in {"ACTIVE", "SUPERSEDED"} <=> Fate(v) = "approved"
         /\ baseline[v] = "REJECTED" <=> Fate(v) = "rejected"
BY DEF TypeOK, BaselineStatus, Fate

\* The fates after one version has got another status and some have been demoted.
LEMMA FateMoves ==
  ASSUME TypeOK, NEW v \in Versions, NEW new,
         Fate(v)' = new,
         \A w \in Versions \ {v} : \/ baseline'[w] = baseline[w]
                                   \/ baseline[w] = "ACTIVE" /\ baseline'[w] = "SUPERSEDED"
  PROVE  [w \in Versions |-> Fate(w)]' = [[w \in Versions |-> Fate(w)] EXCEPT ![v] = new]
<1>1. \A w \in Versions \ {v} : Fate(w)' = Fate(w)
  BY DEF Fate
<1> QED
  BY <1>1

LEMMA ExtractImplements ==
  ASSUME TypeOK, NEW v \in Versions, Extract(v)
  PROVE  Control!Draft(v)
<1>1. baseline[v] = "none" /\ baseline' = [baseline EXCEPT ![v] = "DRAFT"] /\ change' = change
  BY DEF Extract
<1>2. Active' = Active
  BY <1>1 DEF Active, TypeOK
<1>3. baseline'[v] = "DRAFT" /\ \A w \in Versions \ {v} : baseline'[w] = baseline[w]
  BY <1>1 DEF TypeOK
<1>4. Fate(v) = "none" /\ Fate(v)' = "draft"
  BY <1>1, <1>3 DEF Fate
<1>5. [w \in Versions |-> Fate(w)]' = [[w \in Versions |-> Fate(w)] EXCEPT ![v] = "draft"]
  BY <1>3, <1>4, FateMoves
<1> QED
  BY <1>1, <1>2, <1>4, <1>5 DEF Control!Draft

LEMMA DiffImplements ==
  ASSUME Structure, BatchAgrees, Alone, ~overlapped, NEW v \in Versions, DiffCommit(v)
  PROVE  Control!Propose(v)
<1> USE DEF Structure
<1>1. /\ diff[v].pc = "read" /\ v > 1
      /\ diff[v].rows \subseteq Keys
      /\ \A k \in diff[v].rows : k.to = v /\ k.from \in Versions
      /\ \A k \in diff[v].rows : baseline[k.from] \in {"ACTIVE", "SUPERSEDED"}
      /\ \A k \in Keys : k.to = v => change[k] = "none"
      /\ baseline[v] # "none"
  BY DEF DiffCommit, DiffSound, Alone, TypeOK, DiffTask, Keys
<1>2. baseline[v] = "DRAFT"
  BY <1>1 DEF DiffSound, TypeOK
<1>3. \A k \in diff[v].rows : Fate(k.from) = "approved"
  BY <1>1, FateTyped
<1>4. /\ change' = [k \in Keys |-> IF k \in diff[v].rows THEN "PROPOSED" ELSE change[k]]
      /\ baseline' = baseline
  BY DEF DiffCommit
<1>5. Fate(v) = "draft" /\ Active' = Active /\ \A w \in Versions : Fate(w)' = Fate(w)
  BY <1>2, <1>4 DEF Fate, Active
<1>6. diff[v].rows \in
        SUBSET {k \in Keys : k.to = v /\ [w \in Versions |-> Fate(w)][k.from] = "approved"}
  BY <1>1, <1>3
<1> QED
  BY <1>1, <1>4, <1>5, <1>6 DEF Control!Propose, Control!Moved

\* The changes that a decider alone holds are those that wait for a decision.
LEMMA HoldsProposed ==
  ASSUME Structure, BatchAgrees, Alone, ~overlapped, NEW d \in Deciders, Busy(d)
  PROVE  /\ baseline[request[d].version] = "DRAFT"
         /\ request[d].version \in Versions
         /\ request[d].rows = Control!Proposed(request[d].version)
         /\ request[d].version = 1 \/ request[d].rows # {}
         /\ request[d].kind # "activate" => request[d].rows # {}
<1> USE DEF Structure
<1> DEFINE v == request[d].version
<1>1. baseline[v] = "DRAFT" /\ v \in Versions /\ request[d].rows \subseteq Keys
  BY DEF Alone, TypeOK, Request
<1>2. \A k \in Keys : k.to = v => change[k] \in {"none", "PROPOSED"}
  BY <1>1 DEF BatchAgrees, TypeOK, ScopeChangeStatus
<1>3. CASE request[d].kind = "activate"
  <2>1. v = 1 /\ request[d].rows = {}
    BY <1>3 DEF RequestSound
  <2>2. \A k \in Keys : k.to = v => change[k] = "none"
    BY <2>1 DEF DiffSound, Keys, Versions
  <2> QED
    BY <1>1, <1>3, <2>1, <2>2 DEF Control!Proposed
<1>4. CASE request[d].kind # "activate"
  <2>1. /\ request[d].rows # {}
        /\ \A k \in Keys : k \in request[d].rows <=> k.to = v /\ change[k] # "none"
    BY <1>4 DEF RequestSound
  <2> QED
    BY <1>1, <1>2, <2>1 DEF Control!Proposed
<1> QED
  BY <1>3, <1>4

LEMMA ApprovalImplements ==
  ASSUME Structure, BatchAgrees, Alone, ~overlapped, NEW d \in Deciders, CommitApproval(d),
         NEW v \in Versions, v = request[d].version
  PROVE  Control!Approve(v)
<1> USE DEF Structure
<1>1. Busy(d) /\ request[d].others = Active /\ v \notin Active
  <2>1. request[d].pc = "demoted" /\ Busy(d)
    BY DEF CommitApproval, Busy
  <2>2. Active \subseteq request[d].others /\ request[d].others \subseteq Active
    BY <2>1 DEF Alone, LocksHold, Locked
  <2> QED
    BY <2>1, <2>2 DEF LocksHold
<1>2. /\ baseline[v] = "DRAFT" /\ v \in Versions
      /\ request[d].rows = Control!Proposed(v)
      /\ v = 1 \/ request[d].rows # {}
  BY <1>1, HoldsProposed
<1>3. /\ baseline' = [w \in Versions |-> CASE w = v -> "ACTIVE"
                                            [] w \in Active -> "SUPERSEDED"
                                            [] OTHER -> baseline[w]]
      /\ change' = [k \in Keys |-> IF k \in request[d].rows THEN "IMPLEMENTED" ELSE change[k]]
  BY <1>1 DEF CommitApproval, Decided
<1>4. /\ baseline'[v] = "ACTIVE"
      /\ \A w \in Versions \ {v} : baseline'[w] = IF w \in Active THEN "SUPERSEDED" ELSE baseline[w]
  BY <1>1, <1>2, <1>3
<1>5. Active' = {v}
  BY <1>2, <1>4 DEF Active
<1>6. Fate(v) = "draft" /\ Fate(v)' = "approved"
  BY <1>2, <1>4 DEF Fate
<1>7. \A w \in Versions \ {v} : \/ baseline'[w] = baseline[w]
                                \/ baseline[w] = "ACTIVE" /\ baseline'[w] = "SUPERSEDED"
  BY <1>4 DEF Active
<1>8. [w \in Versions |-> Fate(w)]' = [[w \in Versions |-> Fate(w)] EXCEPT ![v] = "approved"]
  BY <1>2, <1>6, <1>7, FateMoves
<1> QED
  BY <1>2, <1>3, <1>5, <1>6, <1>8 DEF Control!Approve, Control!Moved

LEMMA RejectionImplements ==
  ASSUME Structure, BatchAgrees, Alone, ~overlapped, NEW d \in Deciders, CommitRejection(d),
         NEW v \in Versions, v = request[d].version
  PROVE  Control!Reject(v)
<1> USE DEF Structure
<1>1. Busy(d) /\ request[d].others = {} /\ request[d].kind # "activate"
  BY DEF CommitRejection, Busy, LocksHold
<1>2. /\ baseline[v] = "DRAFT" /\ v \in Versions
      /\ request[d].rows = Control!Proposed(v) /\ request[d].rows # {}
  BY <1>1, HoldsProposed
<1>3. /\ baseline' = [w \in Versions |-> IF w = v THEN "REJECTED" ELSE baseline[w]]
      /\ change' = [k \in Keys |-> IF k \in request[d].rows THEN "REJECTED" ELSE change[k]]
  BY <1>1 DEF CommitRejection, Decided
<1>4. baseline'[v] = "REJECTED" /\ \A w \in Versions \ {v} : baseline'[w] = baseline[w]
  BY <1>2, <1>3
<1>5. Active' = Active
  BY <1>2, <1>4 DEF Active
<1>6. Fate(v) = "draft" /\ Fate(v)' = "rejected"
  BY <1>2, <1>4 DEF Fate
<1>7. [w \in Versions |-> Fate(w)]' = [[w \in Versions |-> Fate(w)] EXCEPT ![v] = "rejected"]
  BY <1>2, <1>4, <1>6, FateMoves
<1> QED
  BY <1>2, <1>3, <1>5, <1>6, <1>7 DEF Control!Reject, Control!Moved

LEMMA ControlStep ==
  ASSUME IInv, TypeOK', [Next]_vars
  PROVE  [Control!Next]_(Control!vars)
<1> USE DEF IInv, Structure
<1>1. CASE overlapped'
  BY <1>1 DEF TypeOK, Control!Next
<1>2. CASE ~overlapped'
  <2>1. ASSUME UNCHANGED <<baseline, change, overlapped>>
        PROVE  UNCHANGED Control!vars
    BY <2>1 DEF Control!vars, Fate, Active
  <2>2. ASSUME NEW v \in Versions, Extraction(v)
        PROVE  [Control!Next]_(Control!vars)
    <3>1. overlapped' = overlapped
      BY <2>2 DEF Extraction, Extract, DiffRead, DiffEnd, DiffCommit
    <3>2. CASE Extract(v)
      BY <3>1, <3>2, ExtractImplements DEF Control!Next
    <3>3. CASE DiffCommit(v)
      BY <1>2, <3>1, <3>3, DiffImplements DEF Control!Next
    <3>4. CASE DiffRead(v) \/ DiffEnd(v)
      BY <2>1, <3>4 DEF DiffRead, DiffEnd
    <3> QED
      BY <2>2, <3>2, <3>3, <3>4 DEF Extraction
  <2>3. ASSUME NEW d \in Deciders, Decision(d)
        PROVE  [Control!Next]_(Control!vars)
    <3>1. CASE CommitApproval(d)
      <4>1. PICK v \in Versions : v = request[d].version
        BY <3>1, CommitEffect
      <4>2. overlapped' = overlapped
        BY <3>1, CommitEffect
      <4>3. Control!Approve(v)
        BY <1>2, <3>1, <4>1, <4>2, ApprovalImplements
      <4> QED
        BY <4>2, <4>3 DEF Control!Next
    <3>2. CASE CommitRejection(d)
      <4>1. PICK v \in Versions : v = request[d].version
        BY <3>2, CommitEffect
      <4>2. overlapped' = overlapped
        BY <3>2, CommitEffect
      <4>3. Control!Reject(v)
        BY <1>2, <3>2, <4>1, <4>2, RejectionImplements
      <4> QED
        BY <4>2, <4>3 DEF Control!Next
    <3>3. CASE ~CommitApproval(d) /\ ~CommitRejection(d)
      <4>1. baseline' = baseline /\ change' = change
        BY <2>3, <3>3 DEF Decision, Activate, Transition, Begin, Update, Demote, Fail
      <4>2. overlapped' \in {overlapped, overlapped \/ \E e \in Deciders : Busy(e)}
        BY <2>3, <3>3 DEF Decision, Activate, Transition, Begin, Update, Demote, Fail
      <4> QED
        BY <1>2, <2>1, <4>1, <4>2 DEF TypeOK
    <3> QED
      BY <3>1, <3>2, <3>3
  <2>4. CASE Upload \/ UNCHANGED vars
    BY <2>1, <2>4 DEF Upload, vars
  <2>5. ASSUME NEW v \in Versions, NEW c \in Codes, EditCheck(v, c)
        PROVE  UNCHANGED <<baseline, change, overlapped>>
    BY <2>5 DEF EditCheck
  <2>6. ASSUME NEW e \in edits, EditCommit(e)
        PROVE  UNCHANGED <<baseline, change, overlapped>>
    BY <2>6 DEF EditCommit
  <2> QED
    BY <2>1, <2>2, <2>3, <2>4, <2>5, <2>6 DEF Next
<1> QED
  BY <1>1, <1>2

\* Decisions that check a draft and commit later implement the atomic decisions of
\* ScopeControl as long as no two of them overlap, whatever else goes on meanwhile.
THEOREM TransitionImplementsControl == Spec => ImplementsControl
<1>1. Init => Control!Init
  BY DEF Init, Control!Init, Fate, Active
<1>2. IInv /\ IInv' /\ [Next]_vars => [Control!Next]_(Control!vars)
  BY ControlStep DEF IInv, Structure
<1> QED
  BY <1>1, <1>2, Inductive, PTL DEF Spec, ImplementsControl, Control!Spec
=============================================================================
