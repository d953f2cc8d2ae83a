---------------------------- MODULE PortalProofs ---------------------------
(***************************************************************************)
(* Proofs about ProposalUpload and DataRequests, for any number of         *)
(* uploads, users, PMOs and records; those about Notifications have a      *)
(* module of their own.  At the end, the three together as they are        *)
(* checked.                                                                *)
(***************************************************************************)
EXTENDS MCPortal, NotificationsProofs

-----------------------------------------------------------------------------
(* ProposalUpload.  A row is the row of a handler that is done             *)
(* (RowsAreDone), a handler's version has all its predecessors (Numbered), *)
(* what is stored under a version is of a handler with that version        *)
(* (StoreSound), and two handlers with one version have either met or      *)
(* follow each other (Meetings).                                           *)

RowsAreDone ==
  /\ \A p \in proposals : upload[p.file].pc = "done" /\ upload[p.file].version = p.version
  /\ \A u \in Uploads : upload[u].pc = "done" =>
       [version |-> upload[u].version, file |-> u] \in proposals

Numbered ==
  /\ \A u \in Uploads : upload[u].pc = "idle" <=> upload[u].version = 0
  /\ \A u \in Uploads, k \in Numbers : k < upload[u].version => k \in Taken

\* The unique constraint: rows that are inserted or committed have versions of
\* their own.
RowsDiffer ==
  \A u \in Uploads : upload[u].pc = "inserted" =>
    /\ upload[u].version \notin Taken
    /\ \A w \in Rivals(u) : upload[w].pc # "inserted"

StoreSound ==
  /\ \A n \in Numbers : object[n] # NoFile => upload[object[n]].version = n
  /\ \A u \in Uploads : upload[u].pc \in {"stored", "inserted", "done"} =>
       /\ object[upload[u].version] # NoFile
       /\ u \notin met => object[upload[u].version] = u

Meetings ==
  /\ \A u, w \in Sending : u # w => u \in met
  /\ \A p \in proposals, u \in Sending :
       upload[u].version = p.version => p.file \in met

\* The versions of a project have neither gaps nor duplicates.
VersionsInOrder ==
  /\ \A p, q \in proposals : p.version = q.version => p = q
  /\ \A p \in proposals, n \in Numbers : n < p.version => n \in Taken

UploadIInv ==
  /\ UploadTypeOK /\ RowsAreDone /\ Numbered /\ RowsDiffer
  /\ StoreSound /\ Meetings /\ VersionsInOrder

USE UploadAssumption DEF Numbers

LEMMA UploadInitIInv == UploadInit => UploadIInv
BY DEF UploadInit, UploadIInv, UploadTypeOK, RowsAreDone, Numbered, RowsDiffer, StoreSound,
  Meetings, VersionsInOrder, Sending, Taken, Rivals, Handler, Proposal

LEMMA UploadTypeStep ==
  ASSUME UploadTypeOK, Numbered, [UploadNext]_uploadVars
  PROVE  UploadTypeOK'
<1> USE DEF UploadTypeOK, Handler
<1>1. ASSUME NEW u \in Uploads, ReadVersion(u)
      PROVE  UploadTypeOK'
  BY <1>1 DEF ReadVersion, Sending
<1>2. ASSUME NEW u \in Uploads, StoreFile(u)
      PROVE  UploadTypeOK'
  BY <1>2 DEF StoreFile, Moved
<1>3. ASSUME NEW u \in Uploads, InsertRow(u)
      PROVE  UploadTypeOK'
  BY <1>3 DEF InsertRow, Moved
<1>4. ASSUME NEW u \in Uploads, FailUpload(u)
      PROVE  UploadTypeOK'
  BY <1>4 DEF FailUpload, Moved
<1>5. ASSUME NEW u \in Uploads, CommitRow(u)
      PROVE  UploadTypeOK'
  <2>1. upload[u].version \in 1 .. MaxVersion
    BY <1>5 DEF CommitRow, Numbered
  <2>2. [version |-> upload[u].version, file |-> u] \in Proposal
    BY <2>1 DEF Proposal
  <2> QED
    BY <1>5, <2>2 DEF CommitRow, Moved
<1>6. CASE UNCHANGED uploadVars
  BY <1>6 DEF uploadVars
<1> QED
  BY <1>1, <1>2, <1>3, <1>4, <1>5, <1>6 DEF UploadNext, HandlerStep

\* What every step leaves as it is: a handler of the others, and all rows but
\* the one that is committed.
LEMMA ReadStep ==
  ASSUME UploadIInv, NEW u \in Uploads, ReadVersion(u)
  PROVE  UploadIInv'
<1> USE DEF UploadIInv, UploadTypeOK, Handler
<1>1. PICK n \in Numbers :
        /\ \A k \in Taken : k < n
        /\ n = 1 \/ n - 1 \in Taken
        /\ upload' = [upload EXCEPT ![u] = [pc |-> "numbered", version |-> n]]
  BY DEF ReadVersion
<1>2. /\ upload[u].pc = "idle" /\ u \notin Sending
      /\ object' = object /\ proposals' = proposals /\ Taken' = Taken
      /\ met \subseteq met'
  BY DEF ReadVersion, Taken, Sending
<1>3. Sending' = Sending \cup {u}
  BY <1>1, <1>2 DEF Sending
<1>4. UploadTypeOK' /\ VersionsInOrder'
  BY <1>2, UploadTypeStep DEF UploadNext, HandlerStep, VersionsInOrder
<1>5. RowsAreDone'
  BY <1>1, <1>2 DEF RowsAreDone, Proposal
<1>6. ASSUME NEW k \in Numbers, k < n
      PROVE  k \in Taken
  <2>1. CASE k = n - 1
    BY <1>1, <1>6, <2>1
  <2>2. CASE k # n - 1
    <3>1. PICK q \in proposals : q.version = n - 1
      BY <1>1, <1>6 DEF Taken
    <3>2. k < q.version
      BY <1>1, <1>6, <2>2, <3>1
    <3> QED
      BY <3>1, <3>2 DEF VersionsInOrder
  <2> QED
    BY <2>1, <2>2
<1>7. Numbered'
  BY <1>1, <1>2, <1>6 DEF Numbered
<1>8. RowsDiffer'
  BY <1>1, <1>2 DEF RowsDiffer, Rivals
<1>9. StoreSound'
  <2>1. \A k \in Numbers : object[k] # NoFile => object[k] # u
    BY <1>2 DEF StoreSound, Numbered
  <2>2. \A k \in Numbers : object[k] # NoFile => object[k] \in Uploads
    OBVIOUS
  <2> QED
    BY <1>1, <1>2, <2>1, <2>2 DEF StoreSound
<1>10. Meetings'
  <2>1. \A w \in Sending : w \in met' /\ u \in met'
    BY DEF ReadVersion
  <2>2. \A a, b \in Sending' : a # b => a \in met'
    BY <1>2, <1>3, <2>1 DEF Meetings
  <2>3. \A p \in proposals : p.version # n
    <3>1. \A p \in proposals : p.version \in Taken /\ p.version \in Numbers
      BY DEF Taken, Proposal
    <3> QED
      BY <1>1, <3>1
  <2>4. \A p \in proposals', w \in Sending' : upload'[w].version = p.version => p.file \in met'
    BY <1>1, <1>2, <1>3, <2>3 DEF Meetings, Sending
  <2> QED
    BY <2>2, <2>4 DEF Meetings
<1> QED
  BY <1>4, <1>5, <1>7, <1>8, <1>9, <1>10

\* A handler that moves on keeps its version; the rows and the history stay.
LEMMA MoveStep ==
  ASSUME UploadIInv, NEW u \in Uploads,
         upload[u].pc \in {"numbered", "stored", "inserted"},
         NEW pc \in {"stored", "inserted", "failed"}, Moved(u, pc),
         UNCHANGED <<proposals, met>>
  PROVE  /\ RowsAreDone' /\ Numbered' /\ Meetings' /\ VersionsInOrder'
         /\ Taken' = Taken
         /\ \A w \in Uploads : upload'[w].version = upload[w].version
         /\ \A w \in Uploads \ {u} : upload'[w] = upload[w]
         /\ upload'[u].pc = pc
<1> USE DEF UploadIInv, UploadTypeOK, Handler, Moved
<1>1. /\ Taken' = Taken
      /\ \A w \in Uploads : upload'[w].version = upload[w].version
      /\ \A w \in Uploads \ {u} : upload'[w] = upload[w]
      /\ upload'[u].pc = pc
  BY DEF Taken
<1>2. Sending' \subseteq Sending
  BY <1>1 DEF Sending
<1>3. RowsAreDone'
  BY <1>1 DEF RowsAreDone, Proposal
<1>4. Numbered'
  BY <1>1 DEF Numbered
<1>5. Meetings'
  BY <1>1, <1>2 DEF Meetings, Sending
<1> QED
  BY <1>1, <1>3, <1>4, <1>5 DEF VersionsInOrder

LEMMA StoreStep ==
  ASSUME UploadIInv, NEW u \in Uploads, StoreFile(u)
  PROVE  UploadIInv'
<1> USE DEF UploadIInv, UploadTypeOK, Handler
<1>1. /\ upload[u].pc = "numbered" /\ Moved(u, "stored")
      /\ object' = [object EXCEPT ![upload[u].version] = u]
      /\ UNCHANGED <<proposals, met>>
  BY DEF StoreFile
<1>2. /\ RowsAreDone' /\ Numbered' /\ Meetings' /\ VersionsInOrder'
      /\ Taken' = Taken
      /\ \A w \in Uploads : upload'[w].version = upload[w].version
      /\ \A w \in Uploads \ {u} : upload'[w] = upload[w]
      /\ upload'[u].pc = "stored"
  BY <1>1, MoveStep
<1>3. UploadTypeOK'
  BY UploadTypeStep DEF UploadNext, HandlerStep
<1>4. RowsDiffer'
  BY <1>1, <1>2 DEF RowsDiffer, Rivals
<1>5. upload[u].version \in Numbers
  BY <1>1 DEF Numbered
<1>6. StoreSound'
  <2>1. \A n \in Numbers : object'[n] = IF n = upload[u].version THEN u ELSE object[n]
    BY <1>1, <1>5
  <2>2. ASSUME NEW w \in Uploads, w # u, upload[w].version = upload[u].version,
               upload[w].pc \in {"stored", "inserted", "done"}
        PROVE  w \in met
    <3>1. CASE upload[w].pc = "done"
      <4>1. u \in Sending
        BY <1>1 DEF Sending
      <4>2. [version |-> upload[w].version, file |-> w] \in proposals
        BY <3>1 DEF RowsAreDone
      <4> QED
        BY <4>1, <4>2, <2>2 DEF Meetings
    <3>2. CASE upload[w].pc \in {"stored", "inserted"}
      BY <1>1, <2>2, <3>2 DEF Meetings, Sending
    <3> QED
      BY <2>2, <3>1, <3>2
  <2>3. \A n \in Numbers : object'[n] # NoFile => upload'[object'[n]].version = n
    BY <1>2, <2>1 DEF StoreSound
  <2>4. ASSUME NEW w \in Uploads, upload'[w].pc \in {"stored", "inserted", "done"}
        PROVE  /\ object'[upload'[w].version] # NoFile
               /\ w \notin met' => object'[upload'[w].version] = w
    <3>1. CASE w = u
      BY <3>1, <1>2, <1>5, <2>1
    <3>2. CASE w # u
      <4>1. upload'[w] = upload[w] /\ upload[w].version \in Numbers
        BY <3>2, <2>4, <1>2 DEF Numbered
      <4> QED
        BY <3>2, <4>1, <2>1, <2>2, <2>4, <1>1 DEF StoreSound
    <3> QED
      BY <3>1, <3>2
  <2> QED
    BY <2>3, <2>4 DEF StoreSound
<1> QED
  BY <1>2, <1>3, <1>4, <1>6

\* The waits of INSERT make the row of a version one at a time.
LEMMA InsertStep ==
  ASSUME UploadIInv, NEW u \in Uploads, InsertRow(u)
  PROVE  UploadIInv'
<1> USE DEF UploadIInv, UploadTypeOK, Handler
<1> DEFINE pc == IF upload[u].version \in Taken THEN "failed" ELSE "inserted"
<1>1. /\ upload[u].pc = "stored" /\ Moved(u, pc)
      /\ \A w \in Rivals(u) : upload[w].pc # "inserted"
      /\ UNCHANGED <<object, proposals, met>>
  BY DEF InsertRow
<1>2. /\ RowsAreDone' /\ Numbered' /\ Meetings' /\ VersionsInOrder'
      /\ Taken' = Taken
      /\ \A w \in Uploads : upload'[w].version = upload[w].version
      /\ \A w \in Uploads \ {u} : upload'[w] = upload[w]
      /\ upload'[u].pc = pc
  BY <1>1, MoveStep
<1>3. UploadTypeOK'
  BY UploadTypeStep DEF UploadNext, HandlerStep
<1>4. ASSUME NEW v \in Uploads, upload'[v].pc = "inserted"
      PROVE  /\ upload'[v].version \notin Taken'
             /\ \A w \in Rivals(v)' : upload'[w].pc # "inserted"
  <2>1. Rivals(v)' = Rivals(v)
    BY <1>2 DEF Rivals
  <2>2. CASE v = u
    BY <1>1, <1>2, <1>4, <2>1, <2>2 DEF Rivals
  <2>3. CASE v # u
    <3>1. /\ upload[v].version \notin Taken
          /\ \A w \in Rivals(v) : upload[w].pc # "inserted"
      BY <1>2, <1>4, <2>3 DEF RowsDiffer
    <3>2. upload[u].version # upload[v].version
      BY <1>1, <1>2, <1>4, <2>3 DEF Rivals
    <3> QED
      BY <1>2, <2>1, <3>1, <3>2 DEF Rivals
  <2> QED
    BY <2>2, <2>3
<1>5. StoreSound'
  BY <1>1, <1>2 DEF StoreSound
<1> QED
  BY <1>2, <1>3, <1>4, <1>5 DEF RowsDiffer

LEMMA FailStep ==
  ASSUME UploadIInv, NEW u \in Uploads, FailUpload(u)
  PROVE  UploadIInv'
<1> USE DEF UploadIInv, UploadTypeOK, Handler
<1>1. /\ upload[u].pc \in {"numbered", "stored", "inserted"} /\ Moved(u, "failed")
      /\ UNCHANGED <<object, proposals, met>>
  BY DEF FailUpload, Sending
<1>2. /\ RowsAreDone' /\ Numbered' /\ Meetings' /\ VersionsInOrder'
      /\ Taken' = Taken
      /\ \A w \in Uploads : upload'[w].version = upload[w].version
      /\ \A w \in Uploads \ {u} : upload'[w] = upload[w]
      /\ upload'[u].pc = "failed"
  BY <1>1, MoveStep
<1>3. UploadTypeOK'
  BY UploadTypeStep DEF UploadNext
<1>4. RowsDiffer'
  <2>1. \A w \in Uploads : upload'[w].pc = "inserted" => w # u /\ upload[w].pc = "inserted"
    BY <1>2
  <2>2. \A w \in Uploads : Rivals(w)' = Rivals(w)
    BY <1>2 DEF Rivals
  <2> QED
    BY <1>2, <2>1, <2>2 DEF RowsDiffer, Rivals
<1>5. StoreSound'
  BY <1>1, <1>2 DEF StoreSound
<1> QED
  BY <1>2, <1>3, <1>4, <1>5

LEMMA CommitStep ==
  ASSUME UploadIInv, NEW u \in Uploads, CommitRow(u)
  PROVE  UploadIInv'
<1> USE DEF UploadIInv, UploadTypeOK, Handler
<1> DEFINE row == [version |-> upload[u].version, file |-> u]
<1>1. /\ upload[u].pc = "inserted" /\ upload[u].version \in Numbers
      /\ proposals' = proposals \cup {row}
      /\ upload' = [upload EXCEPT ![u].pc = "done"]
      /\ object' = object /\ met' = met
  BY DEF CommitRow, Moved, Numbered
<1>2. /\ \A w \in Uploads : upload'[w].version = upload[w].version
      /\ \A w \in Uploads \ {u} : upload'[w] = upload[w]
      /\ upload'[u].pc = "done"
  BY <1>1
<1>3. Taken' = Taken \cup {upload[u].version}
  <2>1. row.version = upload[u].version
    OBVIOUS
  <2>2. \A n : n \in Taken' <=> n \in Taken \/ n = row.version
    BY <1>1 DEF Taken
  <2> QED
    BY <2>1, <2>2
<1>4. Sending' = Sending \ {u}
  BY <1>1 DEF Sending
<1>5. upload[u].version \notin Taken /\ \A w \in Rivals(u) : upload[w].pc # "inserted"
  BY <1>1 DEF RowsDiffer
<1>6. UploadTypeOK'
  BY UploadTypeStep DEF UploadNext, HandlerStep
<1>7. RowsAreDone'
  BY <1>1, <1>2 DEF RowsAreDone, Proposal
<1>8. Numbered'
  BY <1>2, <1>3, <1>1 DEF Numbered
<1>9. RowsDiffer'
  BY <1>2, <1>3, <1>5 DEF RowsDiffer, Rivals
<1>10. StoreSound'
  BY <1>1, <1>2 DEF StoreSound
<1>11. Meetings'
  <2>1. \A w \in Sending' : u \in met
    BY <1>1, <1>4 DEF Meetings, Sending
  <2> QED
    BY <1>1, <1>2, <1>4, <2>1 DEF Meetings, Sending
<1>12. VersionsInOrder'
  <2>1. \A p \in proposals : p.version # upload[u].version
    BY <1>5 DEF Taken
  <2>2. \A p, q \in proposals' : p.version = q.version => p = q
    BY <1>1, <2>1 DEF VersionsInOrder
  <2>3. \A n \in Numbers : n < upload[u].version => n \in Taken
    BY DEF Numbered
  <2>4. \A p \in proposals', n \in Numbers : n < p.version => n \in Taken'
    BY <1>1, <1>3, <2>3 DEF VersionsInOrder
  <2> QED
    BY <2>2, <2>4 DEF VersionsInOrder
<1> QED
  BY <1>6, <1>7, <1>8, <1>9, <1>10, <1>11, <1>12

LEMMA UploadNextIInv ==
  ASSUME UploadIInv, [UploadNext]_uploadVars
  PROVE  UploadIInv'
<1>1. CASE UNCHANGED uploadVars
  BY <1>1 DEF uploadVars, UploadIInv, UploadTypeOK, RowsAreDone, Numbered, RowsDiffer, StoreSound,
     Meetings, VersionsInOrder, Sending, Taken, Rivals, Handler, Proposal
<1>2. CASE UploadNext
  BY <1>2, ReadStep, StoreStep, InsertStep, CommitStep, FailStep DEF UploadNext, HandlerStep
<1> QED
  BY <1>1, <1>2

LEMMA UploadSpecIInv == UploadSpec => []UploadIInv
BY UploadInitIInv, UploadNextIInv, PTL DEF UploadSpec

\* What is stored follows from the invariant in one state.
LEMMA StoredFromIInv == UploadIInv => StoredFileIsSent
<1> SUFFICES ASSUME UploadIInv, NEW p \in proposals
             PROVE  LET stored == object[p.version] IN
                    /\ stored # NoFile
                    /\ p.file \notin met => stored = p.file
                    /\ stored # p.file => /\ stored \in Rivals(p.file)
                                          /\ \A q \in proposals : q.file # stored
  BY DEF StoredFileIsSent
<1> USE DEF UploadIInv, UploadTypeOK, Proposal
<1> DEFINE stored == object[p.version]
<1>1. p.file \in Uploads /\ p.version \in Numbers
  OBVIOUS
<1>2. upload[p.file].pc = "done" /\ upload[p.file].version = p.version
  BY DEF RowsAreDone
<1>3. stored # NoFile /\ (p.file \notin met => stored = p.file)
  BY <1>1, <1>2 DEF StoreSound
<1>4. stored \in Uploads /\ upload[stored].version = p.version
  BY <1>1, <1>3 DEF StoreSound
<1>5. ASSUME stored # p.file
      PROVE  stored \in Rivals(p.file)
  BY <1>2, <1>4, <1>5 DEF Rivals
<1>6. ASSUME stored # p.file, NEW q \in proposals
      PROVE  q.file # stored
  <2>1. q.file = stored => q.version = p.version
    BY <1>4 DEF RowsAreDone
  <2>2. q.version = p.version => q = p
    BY DEF VersionsInOrder
  <2> QED
    BY <1>6, <2>1, <2>2
<1> QED
  BY <1>3, <1>5, <1>6

\* The handlers, the store and the rows of the table keep their types.
THEOREM UploadTypesHold == UploadSpec => []UploadTypeOK
<1>1. UploadIInv => UploadTypeOK
  BY DEF UploadIInv
<1> QED
  BY <1>1, UploadSpecIInv, PTL

\* The versions of a project have neither gaps nor duplicates, whichever of any
\* number of uploads overlap or fail (projects.py:162-192).
THEOREM VersionsStayInOrder == UploadSpec => []VersionsInOrder
<1>1. UploadIInv => VersionsInOrder
  BY DEF UploadIInv
<1> QED
  BY <1>1, UploadSpecIInv, PTL

\* The file a version has in the log.
FileOf(n) == CHOOSE u \in Uploads : [version |-> n, file |-> u] \in proposals

\* A version has one row, and the log has the file of that row.
LEMMA OneFile ==
  ASSUME UploadIInv, NEW p \in proposals
  PROVE  p.version \in Taken /\ FileOf(p.version) = p.file
<1> USE DEF UploadIInv, UploadTypeOK, Proposal
<1>1. p.file \in Uploads /\ [version |-> p.version, file |-> p.file] \in proposals
  OBVIOUS
<1>2. ASSUME NEW u \in Uploads, [version |-> p.version, file |-> u] \in proposals
      PROVE  u = p.file
  BY <1>2 DEF VersionsInOrder
<1>3. FileOf(p.version) = p.file
  BY <1>1, <1>2 DEF FileOf
<1> QED
  BY <1>3 DEF Taken

\* The versions are those before one that has them all before it and is not taken.
LEMMA TakenBefore ==
  ASSUME UploadIInv, NEW n \in Numbers, n \notin Taken, \A k \in Numbers : k < n => k \in Taken
  PROVE  Taken = 1 .. n - 1
<1> USE DEF UploadIInv, UploadTypeOK, Proposal
<1>1. Taken \subseteq Numbers
  BY DEF Taken
<1>2. ASSUME NEW m \in Taken, m > n
      PROVE  FALSE
  <2>1. PICK p \in proposals : p.version = m
    BY DEF Taken
  <2> QED
    BY <1>2, <2>1 DEF VersionsInOrder
<1>3. ASSUME NEW m \in Taken
      PROVE  m \in 1 .. n - 1
  <2>1. m \in Numbers /\ m # n /\ ~(m > n)
    BY <1>1, <1>2
  <2> QED
    BY <2>1
<1>4. \A k \in 1 .. n - 1 : k \in Numbers /\ k < n
  OBVIOUS
<1> QED
  BY <1>3, <1>4

LEMMA CommitAdds ==
  ASSUME UploadIInv, UploadIInv', NEW u \in Uploads, CommitRow(u)
  PROVE  Log!Add(u)
<1> USE DEF UploadIInv, UploadTypeOK, Handler
<1>1. PICK v \in Numbers : v = upload[u].version
  BY DEF CommitRow, Numbered
<1>2. /\ upload[u].pc = "inserted"
      /\ proposals' = proposals \cup {[version |-> v, file |-> u]}
  BY <1>1 DEF CommitRow
<1>3. v \notin Taken /\ \A k \in Numbers : k < v => k \in Taken
  BY <1>1, <1>2 DEF RowsDiffer, Numbered
<1>4. Taken = 1 .. v - 1 /\ Taken' = 1 .. v
  <2>1. Taken' = Taken \cup {v}
    <3> DEFINE row == [version |-> v, file |-> u]
    <3>1. row.version = v /\ proposals' = proposals \cup {row}
      BY <1>2
    <3> HIDE DEF row
    <3> QED
      BY <3>1 DEF Taken
  <2>2. Taken = 1 .. v - 1
    BY <1>3, TakenBefore
  <2> QED
    BY <2>1, <2>2
<1>5. ASSUME NEW n \in Taken
      PROVE  FileOf(n) # u /\ FileOf(n)' = FileOf(n)
  <2>1. PICK p \in proposals : p.version = n
    BY <1>5 DEF Taken
  <2>2. FileOf(n) = p.file /\ p.file # u
    BY <1>2, <2>1, OneFile DEF RowsAreDone
  <2>3. \A w \in Uploads : [version |-> n, file |-> w] \in proposals'
                         <=> [version |-> n, file |-> w] \in proposals
    BY <1>2, <1>3, <1>5
  <2> QED
    BY <2>2, <2>3 DEF FileOf
<1>6. FileOf(v)' = u
  <2>1. \A w \in Uploads : [version |-> v, file |-> w] \in proposals' <=> w = u
    BY <1>2, <1>3 DEF Taken
  <2> QED
    BY <2>1 DEF FileOf
<1>7. v \in 1 .. v /\ \A n \in 1 .. v : n # v => n \in 1 .. v - 1
  OBVIOUS
<1>8. [n \in Taken |-> FileOf(n)]' =
        [n \in 1 .. v |-> IF n = v THEN u ELSE [k \in Taken |-> FileOf(k)][n]]
  BY <1>4, <1>5, <1>6, <1>7
<1> QED
  BY <1>4, <1>5, <1>7, <1>8 DEF Log!Add, FileOf

\* Each upload that commits is the next version, with the file of its own request, and
\* what has been committed stays, whichever of any number of uploads overlap or fail
\* (projects.py:162-192).
THEOREM UploadsImplementLog == UploadSpec => ImplementsLog
<1>1. UploadInit => Log!Init
  BY DEF UploadInit, Log!Init, Taken
<1>2. UploadIInv /\ UploadIInv' /\ [UploadNext]_uploadVars
        => [Log!Next]_[n \in Taken |-> CHOOSE u \in Uploads :
                                        [version |-> n, file |-> u] \in proposals]
  <2> SUFFICES ASSUME UploadIInv, UploadIInv', [UploadNext]_uploadVars
               PROVE  [Log!Next]_[n \in Taken |-> CHOOSE u \in Uploads :
                                                 [version |-> n, file |-> u] \in proposals]
    OBVIOUS
  <2>1. CASE UNCHANGED proposals
    BY <2>1 DEF Taken
  <2>2. ASSUME NEW u \in Uploads, CommitRow(u)
        PROVE  Log!Next
    BY <2>2, CommitAdds DEF Log!Next
  <2> QED
    BY <2>1, <2>2
       DEF UploadNext, HandlerStep, ReadVersion, StoreFile, InsertRow, FailUpload, uploadVars
<1> QED
  BY <1>1, <1>2, UploadSpecIInv, PTL DEF UploadSpec, ImplementsLog, Log!Spec

\* What is stored for a proposal is the file that was sent, or that of a request
\* for the same version that has failed (projects.py:172-189).
THEOREM FilesAreKept == UploadSpec => []StoredFileIsSent
BY StoredFromIInv, UploadSpecIInv, PTL

-----------------------------------------------------------------------------
(* DataRequests.  Records are appended and only their status changes       *)
(* (Grows), so what an export has read of them stays true; a release that  *)
(* no one has taken back has been shown (ReleasedIsShown), and an export   *)
(* that no one has disturbed reads a report as it was shown (ExportSound). *)

\* A PMO fulfils a record that there is.
FulfilSound == \A p \in Pmos : fulfil[p] # 0 => fulfil[p] \in DOMAIN records

ReleasedIsShown ==
  \A u \in Users : report[u].status = "CLIENT_RELEASED" => report[u].version \in shown[u]

ContentsSound(u) ==
  /\ export[u].pc = "listed" /\ export[u].listed /\ ~export[u].disturbed =>
       report[u].status = "CLIENT_RELEASED"
  /\ export[u].pc \in {"read", "snapshot"} /\ export[u].version # 0 /\ ~export[u].disturbed =>
       export[u].version \in shown[u]

RecordsSound(u) ==
  /\ export[u].before <= Len(records)
  /\ export[u].pc = "snapshot" =>
       /\ \A r \in export[u].records : r \in DOMAIN records /\ Subject(r) = u
       /\ \A r \in 1 .. export[u].before : Subject(r) = u => r \in export[u].records

ExportSound == \A u \in Users : ContentsSound(u) /\ RecordsSound(u)

DataIInv == DataTypeOK /\ FulfilSound /\ ReleasedIsShown /\ ExportSound /\ DeletionIsDone

USE ExternalAssumption, MailAssumption, PortalAssumption

LEMMA DataInitIInv == DataInit => DataIInv
<1> SUFFICES ASSUME DataInit PROVE DataIInv
  OBVIOUS
<1>1. NoExport \in Export
  BY DEF NoExport, Export
<1>2. records = << >> /\ records \in Seq(Record) /\ Len(records) = 0
  BY DEF DataInit
<1>3. DataTypeOK
  BY <1>1, <1>2 DEF DataInit, DataTypeOK, Versions
<1>4. ExportSound
  BY <1>2 DEF DataInit, ExportSound, ContentsSound, RecordsSound, NoExport
<1>5. FulfilSound /\ ReleasedIsShown /\ DeletionIsDone
  BY <1>2 DEF DataInit, FulfilSound, ReleasedIsShown, DeletionIsDone
<1> QED
  BY <1>3, <1>4, <1>5 DEF DataIInv

-----------------------------------------------------------------------------
(* What happens to the records.                                            *)

\* No record is withdrawn, and none changes its type or subject.
Grows ==
  /\ Len(records') >= Len(records)
  /\ \A r \in DOMAIN records :
       /\ records'[r].type = records[r].type
       /\ records'[r].subject = records[r].subject

LEMMA AddedRecord ==
  ASSUME DataTypeOK, NEW type \in Types, NEW subject \in Users \cup {External},
         NEW status \in {"PENDING", "FULFILLED"}, AddRecord(type, subject, status)
  PROVE  /\ records' \in Seq(Record) /\ Len(records') = Len(records) + 1
         /\ Len(records') <= MaxRecords
         /\ \A r \in DOMAIN records : records'[r] = records[r]
         /\ records'[Len(records')] = [type |-> type, subject |-> subject, status |-> status]
         /\ Grows
BY DEF DataTypeOK, AddRecord, Record, Grows

LEMMA FulfilledRecord ==
  ASSUME DataTypeOK, NEW r \in DOMAIN records,
         records' = [records EXCEPT ![r].status = "FULFILLED"]
  PROVE  /\ records' \in Seq(Record) /\ Len(records') = Len(records)
         /\ \A k \in DOMAIN records : records'[k] =
              IF k = r THEN [records[r] EXCEPT !.status = "FULFILLED"] ELSE records[k]
         /\ Grows
<1> DEFINE new == [records[r] EXCEPT !.status = "FULFILLED"]
<1>1. records \in Seq(Record) /\ r \in 1 .. Len(records) /\ records[r] \in Record
  BY DEF DataTypeOK
<1>2. new \in Record
  BY <1>1 DEF Record
<1>3. records' = [records EXCEPT ![r] = new]
  OBVIOUS
<1> HIDE DEF new
<1>4. /\ records' \in Seq(Record) /\ Len(records') = Len(records)
      /\ \A k \in 1 .. Len(records) : records'[k] = IF k = r THEN new ELSE records[k]
  <2> DEFINE changed == [records EXCEPT ![r] = new]
  <2>1. /\ changed \in Seq(Record) /\ Len(changed) = Len(records)
        /\ \A k \in 1 .. Len(records) : changed[k] = IF k = r THEN new ELSE records[k]
    BY <1>1, <1>2, ExceptSeq
  <2> HIDE DEF changed
  <2>2. records' = changed
    BY <1>3 DEF changed
  <2> QED
    BY <2>1, <2>2
<1>5. new.type = records[r].type /\ new.subject = records[r].subject
  BY <1>1 DEF new, Record
<1> QED
  BY <1>1, <1>4, <1>5 DEF Grows, new

-----------------------------------------------------------------------------
LEMMA MovedExport ==
  ASSUME DataTypeOK, NEW u \in Users, NEW new \in Export,
         NEW pc \in {"idle", "loaded", "listed", "read", "snapshot"}, Step(u, pc, new)
  PROVE  /\ export' \in [Users -> Export]
         /\ export'[u] = [new EXCEPT !.pc = pc]
         /\ \A w \in Users \ {u} : export'[w] = export[w]
<1>1. [new EXCEPT !.pc = pc] \in Export
  BY DEF Export
<1> QED
  BY <1>1 DEF DataTypeOK, Step

\* The steps of an export keep its type.
LEMMA ExportTypes ==
  ASSUME DataIInv, NEW u \in Users
  PROVE  /\ BeginExport(u) => export' \in [Users -> Export]
         /\ ListReports(u) => export' \in [Users -> Export]
         /\ ReadReport(u) => export' \in [Users -> Export]
         /\ ReadRecords(u) => export' \in [Users -> Export]
         /\ CommitExport(u) => export' \in [Users -> Export]
         /\ EndExport(u) => export' \in [Users -> Export]
         /\ ReturnReport(u) => export' \in [Users -> Export]
<1> USE DEF DataIInv
<1>1. export[u] \in Export /\ Len(records) \in 0 .. MaxRecords
  BY DEF DataTypeOK
<1>2. NoExport \in Export
  BY DEF NoExport, Export
<1>3. [NoExport EXCEPT !.before = Len(records)] \in Export
  BY <1>1, <1>2 DEF Export
<1>4. [export[u] EXCEPT !.listed = Visible(u)] \in Export
  BY <1>1 DEF Export, Visible
<1>5. [export[u] EXCEPT !.version = IF export[u].listed THEN report[u].version ELSE 0] \in Export
  <2>1. (IF export[u].listed THEN report[u].version ELSE 0) \in 0 .. MaxEdition
    BY DEF DataTypeOK, Versions
  <2> QED
    BY <1>1, <2>1 DEF Export
<1>6. {r \in DOMAIN records : Subject(r) = u} \in SUBSET Ids
  BY DEF DataTypeOK, Ids
<1>7. [export[u] EXCEPT !.records = {r \in DOMAIN records : Subject(r) = u}] \in Export
  BY <1>1, <1>6 DEF Export
<1>8. ReturnReport(u) => export' \in [Users -> Export]
  <2>1. [export[u] EXCEPT !.disturbed = @ \/ export[u].pc = "listed"] \in Export
    BY <1>1 DEF Export
  <2> QED
    BY <2>1 DEF DataTypeOK, ReturnReport
<1> QED
  BY <1>2, <1>3, <1>4, <1>5, <1>7, <1>8, MovedExport
     DEF BeginExport, ListReports, ReadReport, ReadRecords, CommitExport, EndExport

\* Which fields they leave.
LEMMA ExportEffects ==
  ASSUME DataIInv, NEW u \in Users
  PROVE  /\ BeginExport(u) => export'[u].pc = "loaded" /\ export'[u].before = Len(records)
         /\ CommitExport(u) \/ EndExport(u) => export'[u].pc = "idle" /\ export'[u].before = 0
         /\ ListReports(u) \/ ReadReport(u) =>
              /\ export'[u].pc # "snapshot"
              /\ export'[u].before = export[u].before /\ export'[u].records = export[u].records
<1>1. export \in [Users -> Export] /\ export[u] \in Export
  BY DEF DataIInv, DataTypeOK
<1>2. BeginExport(u) => export'[u].pc = "loaded" /\ export'[u].before = Len(records)
  BY <1>1 DEF BeginExport, Step, NoExport
<1>3. CommitExport(u) => export'[u].pc = "idle" /\ export'[u].before = 0
  BY <1>1 DEF CommitExport, Step, NoExport
<1>4. EndExport(u) => export'[u].pc = "idle" /\ export'[u].before = 0
  BY <1>1 DEF EndExport, Step, NoExport
<1>5. ASSUME ListReports(u)
      PROVE  /\ export'[u].pc # "snapshot"
             /\ export'[u].before = export[u].before /\ export'[u].records = export[u].records
  BY <1>1, <1>5 DEF ListReports, Step, Export
<1>6. ASSUME ReadReport(u)
      PROVE  /\ export'[u].pc # "snapshot"
             /\ export'[u].before = export[u].before /\ export'[u].records = export[u].records
  BY <1>1, <1>6 DEF ReadReport, Step, Export
<1> QED
  BY <1>2, <1>3, <1>4, <1>5, <1>6

LEMMA DataTypeStep ==
  ASSUME DataIInv, [DataNext]_dataVars
  PROVE  DataTypeOK'
<1>1. DataTypeOK
  BY DEF DataIInv
<1>2. ASSUME NEW u \in Users, UserStep(u)
      PROVE  DataTypeOK'
  <2>1. CASE CheckLogin(u)
    BY <1>1, <2>1 DEF CheckLogin, DataTypeOK
  <2>2. CASE IssueToken(u)
    BY <1>1, <2>2 DEF IssueToken, DataTypeOK
  <2>3. CASE ExpireToken(u)
    BY <1>1, <2>3 DEF ExpireToken, DataTypeOK
  <2>4. CASE AskDeletion(u)
    BY <1>1, <2>4, AddedRecord DEF AskDeletion, DataTypeOK, Types
  <2>5. CASE BeginExport(u)
    BY <1>1, <2>5, ExportTypes DEF BeginExport, DataTypeOK
  <2>6. CASE ListReports(u)
    BY <1>1, <2>6, ExportTypes DEF ListReports, DataTypeOK
  <2>7. CASE ReadReport(u)
    BY <1>1, <2>7, ExportTypes DEF ReadReport, DataTypeOK
  <2>8. CASE ReadRecords(u)
    BY <1>1, <2>8, ExportTypes DEF ReadRecords, DataTypeOK
  <2>9. CASE CommitExport(u)
    BY <1>1, <2>9, ExportTypes, AddedRecord DEF CommitExport, DataTypeOK, Types
  <2>10. CASE EndExport(u)
    BY <1>1, <2>10, ExportTypes DEF EndExport, DataTypeOK
  <2>11. CASE EditReport(u)
    BY <1>1, <2>11 DEF EditReport, DataTypeOK, Versions
  <2>12. CASE ApproveReport(u)
    BY <1>1, <2>12 DEF ApproveReport, DataTypeOK
  <2>13. CASE ReleaseReport(u)
    BY <1>1, <2>13 DEF ReleaseReport, DataTypeOK
  <2>14. CASE ReturnReport(u)
    <3>1. export' \in [Users -> Export]
      BY <2>14, ExportTypes
    <3>2. /\ report' = [report EXCEPT ![u].status = "EDITABLE"]
          /\ UNCHANGED <<anonymised, login, tokens, records, fulfil, shown>>
      BY <2>14 DEF ReturnReport
    <3> QED
      BY <1>1, <3>1, <3>2 DEF DataTypeOK
  <2> QED
    BY <1>2, <2>1, <2>2, <2>3, <2>4, <2>5, <2>6, <2>7, <2>8, <2>9, <2>10, <2>11,
       <2>12, <2>13, <2>14 DEF UserStep
<1>3. ASSUME NEW p \in Pmos, PmoStep(p)
      PROVE  DataTypeOK'
  <2>1. ASSUME NEW r \in DOMAIN records, BeginFulfil(p, r)
        PROVE  DataTypeOK'
    BY <1>1, <2>1 DEF BeginFulfil, DataTypeOK
  <2>2. CASE CommitFulfil(p)
    <3>1. fulfil[p] \in DOMAIN records
      BY <2>2 DEF CommitFulfil, DataIInv, FulfilSound
    <3>2. records' = [records EXCEPT ![fulfil[p]].status = "FULFILLED"]
      BY <2>2 DEF CommitFulfil
    <3>3. records' \in Seq(Record) /\ Len(records') = Len(records)
      BY <1>1, <3>1, <3>2, FulfilledRecord
    <3>4. Subject(fulfil[p]) \in Users \cup {External}
      <4>1. records[fulfil[p]] \in Record
        BY <1>1, <3>1 DEF DataTypeOK
      <4> QED
        BY <4>1 DEF Record, Subject
    <3>5. anonymised' \in SUBSET Users /\ fulfil' \in [Pmos -> 0 .. MaxRecords]
      BY <1>1, <2>2, <3>4 DEF CommitFulfil, DataTypeOK
    <3> QED
      BY <1>1, <2>2, <3>3, <3>5 DEF CommitFulfil, DataTypeOK
  <2>3. CASE EndFulfil(p)
    BY <1>1, <2>3 DEF EndFulfil, DataTypeOK
  <2> QED
    BY <1>3, <2>1, <2>2, <2>3 DEF PmoStep
<1>4. ASSUME NEW type \in MailTypes, AskByMail(type)
      PROVE  DataTypeOK'
  BY <1>1, <1>4, AddedRecord DEF AskByMail, DataTypeOK
<1>5. CASE UNCHANGED dataVars
  BY <1>1, <1>5 DEF dataVars, DataTypeOK
<1> QED
  BY <1>2, <1>3, <1>4, <1>5 DEF DataNext

-----------------------------------------------------------------------------
\* Every step adds one record, fulfils one, or leaves the records alone; and the
\* users that are anonymised with it.
LEMMA RecordStep ==
  ASSUME DataIInv, [DataNext]_dataVars
  PROVE  Grows /\ DeletionIsDone'
<1>1. DataTypeOK /\ DeletionIsDone
  BY DEF DataIInv
<1>2. CASE UNCHANGED <<records, anonymised>>
  BY <1>1, <1>2 DEF Grows, DeletionIsDone, Subject, DataTypeOK
<1>3. ASSUME NEW type \in Types, NEW subject \in Users \cup {External},
             NEW status \in {"PENDING", "FULFILLED"}, AddRecord(type, subject, status),
             ~(type = "DELETION" /\ status = "FULFILLED"), anonymised' = anonymised
      PROVE  Grows /\ DeletionIsDone'
  <2>1. /\ Len(records') = Len(records) + 1 /\ Grows /\ records' \in Seq(Record)
        /\ \A r \in DOMAIN records : records'[r] = records[r]
        /\ records'[Len(records')] = [type |-> type, subject |-> subject, status |-> status]
    BY <1>1, <1>3, AddedRecord
  <2>2. records \in Seq(Record) /\ DOMAIN records' = 1 .. Len(records) + 1
    BY <1>1, <2>1 DEF DataTypeOK
  <2> QED
    BY <1>1, <1>3, <2>1, <2>2 DEF DeletionIsDone, Subject
<1>4. ASSUME NEW p \in Pmos, CommitFulfil(p)
      PROVE  Grows /\ DeletionIsDone'
  <2> DEFINE r == fulfil[p]
  <2>1. r \in DOMAIN records
    BY <1>4 DEF CommitFulfil, DataIInv, FulfilSound
  <2>2. /\ anonymised' = IF records[r].type = "DELETION" /\ Subject(r) # External
                           THEN anonymised \cup {Subject(r)} ELSE anonymised
        /\ records' = [records EXCEPT ![r].status = "FULFILLED"]
    BY <1>4 DEF CommitFulfil
  <2>3. /\ Grows /\ Len(records') = Len(records) /\ records' \in Seq(Record)
        /\ \A k \in DOMAIN records : records'[k] =
             IF k = r THEN [records[r] EXCEPT !.status = "FULFILLED"] ELSE records[k]
    BY <1>1, <2>1, <2>2, FulfilledRecord
  <2>4. DOMAIN records' = DOMAIN records /\ records[r] \in Record
    BY <1>1, <2>1, <2>3 DEF DataTypeOK
  <2>5. /\ records'[r].status = "FULFILLED"
        /\ \A k \in DOMAIN records : Subject(k)' = Subject(k) /\ records'[k].type = records[k].type
        /\ \A k \in DOMAIN records : k # r => records'[k].status = records[k].status
    BY <2>1, <2>3, <2>4 DEF Grows, Subject, Record
  <2> HIDE DEF r
  <2>6. ASSUME NEW k \in DOMAIN records', records'[k].type = "DELETION",
               records'[k].status = "FULFILLED", Subject(k)' # External
        PROVE  Subject(k)' \in anonymised'
    BY <1>1, <2>1, <2>2, <2>4, <2>5, <2>6 DEF DeletionIsDone
  <2>7. ASSUME NEW u \in anonymised'
        PROVE  \E k \in DOMAIN records' :
                 records'[k].type = "DELETION" /\ records'[k].status = "FULFILLED"
                 /\ Subject(k)' = u
    <3>1. CASE u \in anonymised
      <4>1. PICK k \in DOMAIN records :
              records[k].type = "DELETION" /\ records[k].status = "FULFILLED" /\ Subject(k) = u
        BY <1>1, <3>1 DEF DeletionIsDone
      <4> QED
        BY <4>1, <2>4, <2>5
    <3>2. CASE u \notin anonymised
      BY <2>1, <2>2, <2>4, <2>5, <2>7, <3>2
    <3> QED
      BY <3>1, <3>2
  <2> QED
    BY <2>3, <2>6, <2>7 DEF DeletionIsDone
<1>5. ASSUME NEW u \in Users, UserStep(u)
      PROVE  Grows /\ DeletionIsDone'
  BY <1>2, <1>3, <1>5 DEF UserStep, CheckLogin, IssueToken, ExpireToken, AskDeletion, BeginExport,
     ListReports, ReadReport, ReadRecords, CommitExport, EndExport, EditReport, ApproveReport,
     ReleaseReport, ReturnReport, Types
<1>6. ASSUME NEW p \in Pmos, PmoStep(p)
      PROVE  Grows /\ DeletionIsDone'
  BY <1>2, <1>4, <1>6 DEF PmoStep, BeginFulfil, EndFulfil
<1>7. ASSUME NEW type \in MailTypes, AskByMail(type)
      PROVE  Grows /\ DeletionIsDone'
  BY <1>3, <1>7 DEF AskByMail
<1> QED
  BY <1>2, <1>5, <1>6, <1>7 DEF DataNext, dataVars

LEMMA FulfilStep ==
  ASSUME DataIInv, [DataNext]_dataVars
  PROVE  FulfilSound'
<1>1. Len(records') >= Len(records) /\ records \in Seq(Record) /\ records' \in Seq(Record)
  BY DataTypeStep, RecordStep DEF Grows, DataIInv, DataTypeOK
<1>2. FulfilSound /\ fulfil \in [Pmos -> 0 .. MaxRecords]
  BY DEF DataIInv, DataTypeOK
<1>3. CASE fulfil' = fulfil
  BY <1>1, <1>2, <1>3 DEF FulfilSound
<1>4. ASSUME NEW p \in Pmos, PmoStep(p)
      PROVE  FulfilSound'
  BY <1>1, <1>2, <1>4 DEF FulfilSound, PmoStep, BeginFulfil, CommitFulfil, EndFulfil
<1>5. ASSUME NEW u \in Users, UserStep(u)
      PROVE  fulfil' = fulfil
  BY <1>5 DEF UserStep, CheckLogin, IssueToken, ExpireToken, AskDeletion, BeginExport,
     ListReports, ReadReport, ReadRecords, CommitExport, EndExport, EditReport, ApproveReport,
     ReleaseReport, ReturnReport
<1> QED
  BY <1>3, <1>4, <1>5 DEF DataNext, AskByMail, dataVars

-----------------------------------------------------------------------------
LEMMA ReleaseStep ==
  ASSUME DataIInv, [DataNext]_dataVars
  PROVE  ReleasedIsShown'
<1> USE DEF DataIInv, DataTypeOK, ReleasedIsShown
<1>1. CASE UNCHANGED <<report, shown>>
  BY <1>1
<1>2. ASSUME NEW u \in Users, UserStep(u)
      PROVE  ReleasedIsShown'
  <2>1. CASE EditReport(u)
    BY <2>1 DEF EditReport
  <2>2. CASE ApproveReport(u)
    BY <2>2 DEF ApproveReport
  <2>3. CASE ReleaseReport(u)
    BY <2>3 DEF ReleaseReport
  <2>4. CASE ReturnReport(u)
    <3>1. report' = [report EXCEPT ![u].status = "EDITABLE"] /\ shown' = shown
      BY <2>4 DEF ReturnReport
    <3> QED
      BY <3>1
  <2> QED
    BY <1>1, <1>2, <2>1, <2>2, <2>3, <2>4 DEF UserStep, CheckLogin, IssueToken, ExpireToken,
       AskDeletion, BeginExport, ListReports, ReadReport, ReadRecords, CommitExport, EndExport
<1>3. ASSUME NEW p \in Pmos, PmoStep(p)
      PROVE  UNCHANGED <<report, shown>>
  BY <1>3 DEF PmoStep, BeginFulfil, CommitFulfil, EndFulfil
<1> QED
  BY <1>1, <1>2, <1>3 DEF DataNext, AskByMail, dataVars

\* What has been read of a report was shown, and what was listed is still released.
LEMMA ContentsStep ==
  ASSUME DataIInv, [DataNext]_dataVars, NEW w \in Users
  PROVE  ContentsSound(w)'
<1> USE DEF DataIInv, DataTypeOK, ContentsSound
<1>1. ContentsSound(w) /\ ReleasedIsShown /\ export[w] \in Export
  BY DEF ExportSound
<1>2. ASSUME export'[w] = export[w], report'[w] = report[w], shown[w] \subseteq shown'[w]
      PROVE  ContentsSound(w)'
  BY <1>1, <1>2
<1>3. ASSUME export'[w].pc \in {"idle", "loaded"}
      PROVE  ContentsSound(w)'
  BY <1>3
<1>4. ASSUME NEW u \in Users, UserStep(u)
      PROVE  ContentsSound(w)'
  <2>1. CASE CheckLogin(u) \/ IssueToken(u) \/ ExpireToken(u) \/ AskDeletion(u)
    BY <1>2, <2>1 DEF CheckLogin, IssueToken, ExpireToken, AskDeletion
  <2>2. CASE w # u /\ (BeginExport(u) \/ ListReports(u) \/ ReadReport(u) \/ ReadRecords(u)
                         \/ CommitExport(u) \/ EndExport(u))
    BY <1>2, <2>2 DEF Step, BeginExport, ListReports, ReadReport, ReadRecords, CommitExport,
       EndExport
  <2>3. CASE w = u /\ (BeginExport(u) \/ CommitExport(u) \/ EndExport(u))
    BY <1>3, <2>3, ExportEffects
  <2>4. CASE w = u /\ ListReports(u)
    <3>1. /\ export'[w].pc = "listed" /\ export'[w].listed = Visible(w)
          /\ report' = report
      BY <1>1, <2>4 DEF ListReports, Step, Export
    <3> QED
      BY <3>1 DEF Visible
  <2>5. CASE w = u /\ ReadReport(u)
    <3>1. /\ export'[w].pc = "read" /\ export'[w].disturbed = export[w].disturbed
          /\ export'[w].version = IF export[w].listed THEN report[w].version ELSE 0
          /\ export[w].pc = "listed"
          /\ shown' = shown
      BY <1>1, <2>5 DEF ReadReport, Step, Export
    <3> QED
      BY <1>1, <3>1 DEF ReleasedIsShown
  <2>6. CASE w = u /\ ReadRecords(u)
    <3>1. /\ export'[w].pc = "snapshot" /\ export'[w].disturbed = export[w].disturbed
          /\ export'[w].version = export[w].version
          /\ export[w].pc = "read"
          /\ shown' = shown
      BY <1>1, <2>6 DEF ReadRecords, Step, Export
    <3> QED
      BY <1>1, <3>1
  <2>7. CASE EditReport(u)
    <3>1. /\ report[u].status = "EDITABLE" /\ export' = export /\ shown' = shown
          /\ report'[w].status = report[w].status
      BY <2>7 DEF EditReport
    <3> QED
      BY <1>1, <3>1
  <2>8. CASE ApproveReport(u)
    <3>1. /\ export' = export /\ shown' = shown
          /\ report[w].status = "CLIENT_RELEASED" => report'[w].status = "CLIENT_RELEASED"
      BY <2>8 DEF ApproveReport
    <3> QED
      BY <1>1, <3>1
  <2>9. CASE ReleaseReport(u)
    <3>1. /\ export' = export /\ shown[w] \subseteq shown'[w]
          /\ report[w].status = "CLIENT_RELEASED" => report'[w].status = "CLIENT_RELEASED"
      BY <2>9 DEF ReleaseReport
    <3> QED
      BY <1>1, <3>1
  <2>10. CASE ReturnReport(u)
    <3>1. /\ shown' = shown
          /\ report' = [report EXCEPT ![u].status = "EDITABLE"]
          /\ export' = [export EXCEPT ![u].disturbed = @ \/ export[u].pc = "listed"]
      BY <2>10 DEF ReturnReport
    <3>2. CASE w # u
      BY <1>2, <3>1, <3>2
    <3>3. CASE w = u
      <4>1. /\ export'[w].pc = export[w].pc /\ export'[w].version = export[w].version
            /\ export'[w].disturbed <=> (export[w].disturbed \/ export[w].pc = "listed")
        BY <1>1, <3>1, <3>3 DEF Export
      <4> QED
        BY <1>1, <3>1, <4>1
    <3> QED
      BY <3>2, <3>3
  <2> QED
    BY <1>4, <2>1, <2>2, <2>3, <2>4, <2>5, <2>6, <2>7, <2>8, <2>9, <2>10 DEF UserStep
<1>5. ASSUME NEW p \in Pmos, PmoStep(p)
      PROVE  ContentsSound(w)'
  BY <1>2, <1>5 DEF PmoStep, BeginFulfil, CommitFulfil, EndFulfil
<1> QED
  BY <1>2, <1>4, <1>5 DEF DataNext, AskByMail, dataVars

\* What has been read of the records is there, and all of it.
LEMMA RecordsStep ==
  ASSUME DataIInv, [DataNext]_dataVars, NEW w \in Users
  PROVE  RecordsSound(w)'
<1>1. /\ RecordsSound(w) /\ Grows /\ export[w] \in Export
      /\ records \in Seq(Record) /\ records' \in Seq(Record)
  BY DataTypeStep, RecordStep DEF DataIInv, ExportSound, DataTypeOK
<1>2. \A r \in DOMAIN records : r \in DOMAIN records' /\ (Subject(r)' = Subject(r))
  BY <1>1 DEF Grows, Subject
<1>3. ASSUME export'[w].before = export[w].before, export'[w].records = export[w].records,
             export'[w].pc = "snapshot" => export[w].pc = "snapshot"
      PROVE  RecordsSound(w)'
  <2>1. export'[w].before <= Len(records') /\ 1 .. export[w].before \subseteq DOMAIN records
    BY <1>1, <1>3 DEF RecordsSound, Grows, Export, Ids
  <2> QED
    BY <1>1, <1>2, <1>3, <2>1 DEF RecordsSound
<1>4. ASSUME export'[w].before \in {0, Len(records)}, export'[w].pc # "snapshot"
      PROVE  RecordsSound(w)'
  BY <1>1, <1>4 DEF RecordsSound, Grows
<1>5. ASSUME NEW u \in Users, UserStep(u)
      PROVE  RecordsSound(w)'
  <2>1. CASE export' = export
    BY <1>3, <2>1
  <2>2. CASE w # u /\ (BeginExport(u) \/ ListReports(u) \/ ReadReport(u) \/ ReadRecords(u)
                         \/ CommitExport(u) \/ EndExport(u))
    BY <1>3, <2>2 DEF DataIInv, DataTypeOK, Step, BeginExport, ListReports, ReadReport, ReadRecords,
       CommitExport, EndExport
  <2>3. CASE w = u /\ (BeginExport(u) \/ CommitExport(u) \/ EndExport(u))
    BY <1>4, <2>3, ExportEffects
  <2>4. CASE w = u /\ (ListReports(u) \/ ReadReport(u))
    <3>1. /\ export'[w].before = export[w].before /\ export'[w].records = export[w].records
          /\ export'[w].pc # "snapshot"
      BY <2>4, ExportEffects
    <3> QED
      BY <1>3, <3>1
  <2>5. CASE w = u /\ ReadRecords(u)
    <3>1. /\ export'[w].before = export[w].before /\ records' = records
          /\ export'[w].records = {r \in DOMAIN records : Subject(r) = u}
      BY <1>1, <2>5 DEF DataIInv, DataTypeOK, Step, ReadRecords, Export
    <3>2. 1 .. export[w].before \subseteq DOMAIN records
      BY <1>1 DEF RecordsSound, Export
    <3> QED
      BY <1>1, <1>2, <2>5, <3>1, <3>2 DEF RecordsSound, Subject
  <2>6. CASE ReturnReport(u)
    <3>1. export' = [export EXCEPT ![u].disturbed = @ \/ export[u].pc = "listed"]
      BY <2>6 DEF ReturnReport
    <3>2. /\ export'[w].before = export[w].before /\ export'[w].records = export[w].records
          /\ export'[w].pc = export[w].pc
      BY <1>1, <3>1 DEF DataIInv, DataTypeOK, Export
    <3> QED
      BY <1>3, <3>2
  <2> QED
    BY <1>5, <2>1, <2>2, <2>3, <2>4, <2>5, <2>6 DEF UserStep, CheckLogin, IssueToken, ExpireToken,
       AskDeletion, EditReport, ApproveReport, ReleaseReport
<1>6. ASSUME NEW p \in Pmos, PmoStep(p)
      PROVE  export' = export
  BY <1>6 DEF PmoStep, BeginFulfil, CommitFulfil, EndFulfil
<1> QED
  BY <1>3, <1>5, <1>6 DEF DataNext, AskByMail, dataVars

LEMMA DataNextIInv ==
  ASSUME DataIInv, [DataNext]_dataVars
  PROVE  DataIInv'
BY DataTypeStep, RecordStep, FulfilStep, ReleaseStep, ContentsStep, RecordsStep DEF DataIInv, ExportSound

LEMMA DataSpecIInv == DataSpec => []DataIInv
BY DataInitIInv, DataNextIInv, PTL DEF DataSpec

\* The users, tokens, records and handlers keep their types.
THEOREM DataTypesHold == DataSpec => []DataTypeOK
<1>1. DataIInv => DataTypeOK
  BY DEF DataIInv
<1> QED
  BY <1>1, DataSpecIInv, PTL

\* A fulfilled deletion has anonymised its subject and nobody else, whichever of
\* any number of PMOs fulfil whichever records at once
\* (admin_data_requests.py:118-166).
THEOREM DeletionsAreDone == DataSpec => []DeletionIsDone
<1>1. DataIInv => DeletionIsDone
  BY DEF DataIInv
<1> QED
  BY <1>1, DataSpecIInv, PTL

\* The ZIP of a user holds what the user has been shown and all the records of the
\* user, though it is read in three steps (data_export_service.py:302-474).
THEOREM ZipsAreSound == DataSpec => ZipIsSound
<1> DEFINE Whole == \A u \in Users : Sends(u) =>
       LET zip == export[u] IN
       /\ zip.version # 0 /\ ~zip.disturbed => zip.version \in shown[u]
       /\ \A r \in zip.records : Subject(r) = u
       /\ \A r \in 1 .. zip.before : Subject(r) = u => r \in zip.records
<1>1. DataIInv => Whole
  BY DEF DataIInv, ExportSound, ContentsSound, RecordsSound, Sends
<1>2. DataIInv => [Whole]_dataVars
  BY <1>1
<1>3. ZipIsSound <=> [][Whole]_dataVars
  BY DEF ZipIsSound
<1> QED
  BY <1>2, <1>3, DataSpecIInv, PTL

-----------------------------------------------------------------------------
(* The three together.                                                     *)

\* Whichever of the three goes on, all keep their types.
THEOREM PortalTypesHold == MCSpec => []PortalTypeOK
<1>1. MCInit => UploadInit /\ DataInit /\ NoticeInit
  BY DEF MCInit
<1>2. [MCNext]_<<part, uploadVars, dataVars, bellVars>> =>
        [UploadNext]_uploadVars /\ [DataNext]_dataVars /\ [NoticeNext]_bellVars
  BY DEF MCNext
<1>3. MCSpec => UploadSpec /\ DataSpec /\ NoticeSpec
  BY <1>1, <1>2, PTL DEF MCSpec, UploadSpec, DataSpec, NoticeSpec
<1>4. UploadTypeOK /\ DataTypeOK /\ NoticeTypeOK => PortalTypeOK
  BY DEF PortalTypeOK
<1> QED
  BY <1>3, <1>4, UploadTypesHold, DataTypesHold, NoticeTypesHold, PTL
=============================================================================
