-------------------------- MODULE ProposalUpload ---------------------------
(***************************************************************************)
(* upload_proposal (projects.py) for one project, when the GP's requests   *)
(* overlap: the version is computed from what is committed, the file is    *)
(* stored under the key of that version, and only then does the unique     *)
(* constraint on the row tell two requests apart.  The store has no        *)
(* transaction: what a request has put stays when it is rolled back.       *)
(*                                                                         *)
(* The project is the GP's own and the file is not empty: the requests     *)
(* that fail these checks change nothing.  The job published between the   *)
(* INSERT and the commit is module AgentJobs.                              *)
(***************************************************************************)
EXTENDS Naturals

CONSTANTS
  Uploads,      \* requests; each carries its own file
  NoFile,       \* nothing stored
  MaxVersion    \* bound: versions, as many as requests in the runs

ASSUME UploadAssumption == NoFile \notin Uploads /\ MaxVersion \in Nat \ {0}

VARIABLES
  upload,      \* upload[u]: where the handler of u is, and its next_version
  object,      \* object[v]: whose file is under proposals/{project}/v{v}.pdf
  proposals,   \* the committed rows of the table proposals
  met          \* history: the requests another one was in flight with

uploadVars == <<upload, object, proposals, met>>

Numbers == 1 .. MaxVersion
Proposal == [version : Numbers, file : Uploads]
Handler == [pc : {"idle", "numbered", "stored", "inserted", "done", "failed"},
            version : 0 .. MaxVersion]

UploadTypeOK ==
  /\ upload \in [Uploads -> Handler]
  /\ object \in [Numbers -> Uploads \cup {NoFile}]
  /\ proposals \in SUBSET Proposal
  /\ met \in SUBSET Uploads

UploadInit ==
  /\ upload = [u \in Uploads |-> [pc |-> "idle", version |-> 0]]
  /\ object = [n \in Numbers |-> NoFile]
  /\ proposals = {}
  /\ met = {}

Moved(u, pc) == upload' = [upload EXCEPT ![u].pc = pc]
Sending == {u \in Uploads : upload[u].pc \in {"numbered", "stored", "inserted"}}
Taken == {p.version : p \in proposals}

-----------------------------------------------------------------------------
\* The version after the last committed one.
ReadVersion(u) ==
  /\ upload[u].pc = "idle"
  /\ \E n \in Numbers :
       /\ \A k \in Taken : k < n
       /\ n = 1 \/ n - 1 \in Taken
       /\ upload' = [upload EXCEPT ![u] = [pc |-> "numbered", version |-> n]]
  /\ met' = IF Sending = {} THEN met ELSE met \cup Sending \cup {u}
  /\ UNCHANGED <<object, proposals>>

\* Mutant of StoreFile: one key for the project, whatever the version.
StoreUnderOneKey(u) ==
  /\ upload[u].pc = "numbered"
  /\ object' = [object EXCEPT ![1] = u]
  /\ Moved(u, "stored")
  /\ UNCHANGED <<proposals, met>>

\* put overwrites what is under the key.
StoreFile(u) ==
  /\ upload[u].pc = "numbered"
  /\ object' = [object EXCEPT ![upload[u].version] = u]
  /\ Moved(u, "stored")
  /\ UNCHANGED <<proposals, met>>

Rivals(u) == {w \in Uploads \ {u} : upload[w].version = upload[u].version}

\* Mutant of InsertRow: a table without the unique constraint.
InsertAnyRow(u) ==
  /\ upload[u].pc = "stored"
  /\ Moved(u, "inserted")
  /\ UNCHANGED <<object, proposals, met>>

\* Mutant of InsertRow: the row waits for every rival that has stored its file.
InsertAfterStores(u) ==
  /\ upload[u].pc = "stored"
  /\ \A w \in Rivals(u) : upload[w].pc \notin {"stored", "inserted"}
  /\ Moved(u, IF upload[u].version \in Taken THEN "failed" ELSE "inserted")
  /\ UNCHANGED <<object, proposals, met>>

\* The flush: uq_proposal_project_version waits for the transaction that has
\* inserted the version, and refuses it once that is committed.
InsertRow(u) ==
  /\ upload[u].pc = "stored"
  /\ \A w \in Rivals(u) : upload[w].pc # "inserted"
  /\ Moved(u, IF upload[u].version \in Taken THEN "failed" ELSE "inserted")
  /\ UNCHANGED <<object, proposals, met>>

CommitRow(u) ==
  /\ upload[u].pc = "inserted"
  /\ proposals' = proposals \cup {[version |-> upload[u].version, file |-> u]}
  /\ Moved(u, "done")
  /\ UNCHANGED <<object, met>>

\* The store, Redis or the database refuses, or the process dies: the row is
\* rolled back and the file, if it was stored, stays.
FailUpload(u) ==
  /\ u \in Sending
  /\ Moved(u, "failed")
  /\ UNCHANGED <<object, proposals, met>>

HandlerStep(u) == ReadVersion(u) \/ StoreFile(u) \/ InsertRow(u) \/ CommitRow(u)

UploadNext == \E u \in Uploads : HandlerStep(u) \/ FailUpload(u)

\* A handler that has started goes on; nothing says that it must be started.
UploadFairness ==
  \A u \in Uploads : WF_uploadVars(StoreFile(u) \/ InsertRow(u) \/ CommitRow(u))

UploadSpec == UploadInit /\ [][UploadNext]_uploadVars /\ UploadFairness

-----------------------------------------------------------------------------
\* Uploads that overlap and fail at any point implement a log: each committed row is
\* the next version, with the file of its own request, and no row changes: "Cada
\* upload incrementa a versao" (domain.py:371; the number is read at
\* projects.py:162-171 and used after the store has been called).
Log == INSTANCE ProposalLog WITH
  Files <- Uploads,
  log <- [n \in Taken |-> CHOOSE u \in Uploads : [version |-> n, file |-> u] \in proposals]
ImplementsLog == Log!Spec

\* What is stored for a proposal is the file that was sent (projects.py:173-191),
\* unless its request has overlapped another one; and then the object is at worst
\* the file of a rival for the same version, never that of another proposal.
StoredFileIsSent ==
  \A p \in proposals :
    LET stored == object[p.version] IN
    /\ stored # NoFile
    /\ p.file \notin met => stored = p.file
    /\ stored # p.file => /\ stored \in Rivals(p.file)
                          /\ \A q \in proposals : q.file # stored

\* The wait of one INSERT for another never blocks both: every request that has
\* started ends (projects.py:192-193).
UploadsEnd ==
  \A u \in Uploads : u \in Sending ~> upload[u].pc \in {"done", "failed"}
=============================================================================
