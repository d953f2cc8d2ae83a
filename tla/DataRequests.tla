--------------------------- MODULE DataRequests ----------------------------
(***************************************************************************)
(* What the data protection law (LGPD) asks of the portal: a user asks for *)
(* an export (me.py, data_export_service.py) or for deletion, and a PMO    *)
(* fulfils the deletion by anonymising the user (admin_data_requests.py),  *)
(* while logins are in flight and tokens are out (auth.py, deps.py): a JWT *)
(* lives until it expires and nothing revokes it.                          *)
(*                                                                         *)
(* The users are clients, each with one report of a project.  An export    *)
(* reads table after table under READ COMMITTED; of what it collects the   *)
(* model keeps the report and the records.  A report is a status and a     *)
(* version of its contents.  E-mails are left out.                         *)
(***************************************************************************)
EXTENDS Naturals, Sequences, FiniteSets

CONSTANTS
  Users,        \* the users who may ask
  Pmos,         \* the PMOs, with their requests to fulfil
  External,     \* the subject of a record that came by e-mail
  MailTypes,    \* what requests by e-mail ask for
  MaxRecords,   \* bound: data processing records
  MaxEdition    \* bound: versions of a report

Types == {"EXPORT", "DELETION", "ACCESS", "RECTIFICATION"}

ASSUME ExternalAssumption == External \notin Users
ASSUME MailAssumption == MailTypes \subseteq Types
ASSUME PortalAssumption == MaxRecords \in Nat /\ MaxEdition \in Nat \ {0}

VARIABLES
  anonymised,   \* users with anonymized_at: no name, no e-mail, no password
  login,        \* users whose credentials have been checked
  tokens,       \* users who hold a token that is still valid
  records,      \* the rows of data_processing_records, in the order of commits
  fulfil,       \* fulfil[p]: the handler of PMO p
  export,       \* export[u]: the handler of user u
  report,       \* report[u]: the report of u's project
  shown         \* history: shown[u]: the versions that have been released to u

dataVars == <<anonymised, login, tokens, records, fulfil, export, report, shown>>

Ids == 1 .. MaxRecords
Versions == 1 .. MaxEdition
Subject(r) == records[r].subject

Record == [type : Types, subject : Users \cup {External},
           status : {"PENDING", "FULFILLED"}]

\* version 0: no report in it.  before and disturbed are history: the records there
\* were at the beginning, and whether the report was sent back between the two
\* reads of it.
Export == [pc : {"idle", "loaded", "listed", "read", "snapshot"},
           listed : BOOLEAN, version : 0 .. MaxEdition, records : SUBSET Ids,
           before : 0 .. MaxRecords, disturbed : BOOLEAN]

NoExport == [pc |-> "idle", listed |-> FALSE, version |-> 0, records |-> {},
             before |-> 0, disturbed |-> FALSE]

DataTypeOK ==
  /\ anonymised \in SUBSET Users
  /\ login \in SUBSET Users
  /\ tokens \in SUBSET Users
  /\ records \in Seq(Record) /\ Len(records) <= MaxRecords
  /\ fulfil \in [Pmos -> 0 .. MaxRecords]
  /\ export \in [Users -> Export]
  /\ report \in [Users -> [status : {"EDITABLE", "PMO_APPROVED", "CLIENT_RELEASED"},
                           version : Versions]]
  /\ shown \in [Users -> SUBSET Versions]

DataInit ==
  /\ anonymised = {}
  /\ login = {}
  /\ tokens = {}
  /\ records = << >>
  /\ fulfil = [p \in Pmos |-> 0]
  /\ export = [u \in Users |-> NoExport]
  /\ report = [u \in Users |-> [status |-> "EDITABLE", version |-> 1]]
  /\ shown = [u \in Users |-> {}]

-----------------------------------------------------------------------------
(* Tokens.                                                                 *)

\* Mutant of CheckLogin: the guard of F5.7 is missing and the password is kept.
CheckLoginUnguarded(u) ==
  /\ u \notin login
  /\ login' = login \cup {u}
  /\ UNCHANGED <<anonymised, tokens, records, fulfil, export, report, shown>>

\* The user is found, not anonymised, and the password is right.
CheckLogin(u) ==
  /\ u \notin login
  /\ u \notin anonymised
  /\ login' = login \cup {u}
  /\ UNCHANGED <<anonymised, tokens, records, fulfil, export, report, shown>>

IssueToken(u) ==
  /\ u \in login
  /\ login' = login \ {u}
  /\ tokens' = tokens \cup {u}
  /\ UNCHANGED <<anonymised, records, fulfil, export, report, shown>>

\* The last token of u is past its exp: decode_token refuses it.
ExpireToken(u) ==
  /\ u \in tokens
  /\ tokens' = tokens \ {u}
  /\ UNCHANGED <<anonymised, login, records, fulfil, export, report, shown>>

-----------------------------------------------------------------------------
(* Requests for deletion.                                                  *)

AddRecord(type, subject, status) ==
  /\ Len(records) < MaxRecords
  /\ records' = Append(records, [type |-> type, subject |-> subject, status |-> status])

\* request_data_deletion: get_current_user asks for a token and a row of users,
\* not whether the user is anonymised.
AskDeletion(u) ==
  /\ u \in tokens
  /\ AddRecord("DELETION", u, "PENDING")
  /\ UNCHANGED <<anonymised, login, tokens, fulfil, export, report, shown>>

\* create_manual_request: a request that came by e-mail, of any type.
AskByMail(type) ==
  /\ AddRecord(type, External, "PENDING")
  /\ UNCHANGED <<anonymised, login, tokens, fulfil, export, report, shown>>

\* fulfill_request reads the record and, for a deletion, its subject.
BeginFulfil(p, r) ==
  /\ fulfil[p] = 0
  /\ records[r].status = "PENDING"
  /\ fulfil' = [fulfil EXCEPT ![p] = r]
  /\ UNCHANGED <<anonymised, login, tokens, records, export, report, shown>>

\* Mutant of CommitFulfil: the record is closed and the user left as it is.
FulfilRecordOnly(p) ==
  /\ fulfil[p] # 0
  /\ records' = [records EXCEPT ![fulfil[p]].status = "FULFILLED"]
  /\ fulfil' = [fulfil EXCEPT ![p] = 0]
  /\ UNCHANGED <<anonymised, login, tokens, export, report, shown>>

\* The subject of a deletion is anonymised and the record fulfilled in one
\* commit; a PMO who has read the record before writes it once more.
CommitFulfil(p) ==
  /\ fulfil[p] # 0
  /\ LET r == fulfil[p] IN
     /\ anonymised' = IF records[r].type = "DELETION" /\ Subject(r) # External
                        THEN anonymised \cup {Subject(r)} ELSE anonymised
     /\ records' = [records EXCEPT ![r].status = "FULFILLED"]
  /\ fulfil' = [fulfil EXCEPT ![p] = 0]
  /\ UNCHANGED <<login, tokens, export, report, shown>>

EndFulfil(p) ==
  /\ fulfil[p] # 0
  /\ fulfil' = [fulfil EXCEPT ![p] = 0]
  /\ UNCHANGED <<anonymised, login, tokens, records, export, report, shown>>

-----------------------------------------------------------------------------
(* Exports.                                                                *)

Step(u, pc, new) == export' = [export EXCEPT ![u] = [new EXCEPT !.pc = pc]]

\* get_current_user loads the row of the user.
BeginExport(u) ==
  /\ u \in tokens
  /\ export[u].pc = "idle"
  /\ Step(u, "loaded", [NoExport EXCEPT !.before = Len(records)])
  /\ UNCHANGED <<anonymised, login, tokens, records, fulfil, report, shown>>

\* Mutant of Visible: what the client may decide is visible as well.
VisibleToReview(u) == report[u].status \in {"PMO_APPROVED", "CLIENT_RELEASED"}

\* _CLIENT_VISIBLE_REPORT_STATUSES.
Visible(u) == report[u].status = "CLIENT_RELEASED"

\* _build_client_project lists the reports that are visible now ...
ListReports(u) ==
  /\ export[u].pc = "loaded"
  /\ Step(u, "listed", [export[u] EXCEPT !.listed = Visible(u)])
  /\ UNCHANGED <<anonymised, login, tokens, records, fulfil, report, shown>>

\* ... and _build_report_export reads what they hold by then.
ReadReport(u) ==
  /\ export[u].pc = "listed"
  /\ Step(u, "read", [export[u] EXCEPT !.version = IF export[u].listed
                                                     THEN report[u].version ELSE 0])
  /\ UNCHANGED <<anonymised, login, tokens, records, fulfil, report, shown>>

\* Mutant of ReadRecords: the records that are not fulfilled yet.
ReadPending(u) ==
  /\ export[u].pc = "read"
  /\ Step(u, "snapshot", [export[u] EXCEPT !.records =
       {r \in DOMAIN records : Subject(r) = u /\ records[r].status = "PENDING"}])
  /\ UNCHANGED <<anonymised, login, tokens, records, fulfil, report, shown>>

ReadRecords(u) ==
  /\ export[u].pc = "read"
  /\ Step(u, "snapshot", [export[u] EXCEPT !.records =
       {r \in DOMAIN records : Subject(r) = u}])
  /\ UNCHANGED <<anonymised, login, tokens, records, fulfil, report, shown>>

\* The ZIP is in memory: the record of the export is committed, then it is sent.
CommitExport(u) ==
  /\ export[u].pc = "snapshot"
  /\ AddRecord("EXPORT", u, "FULFILLED")
  /\ Step(u, "idle", NoExport)
  /\ UNCHANGED <<anonymised, login, tokens, fulfil, report, shown>>

EndExport(u) ==
  /\ export[u].pc # "idle"
  /\ Step(u, "idle", NoExport)
  /\ UNCHANGED <<anonymised, login, tokens, records, fulfil, report, shown>>

-----------------------------------------------------------------------------
(* The report of the project goes its way (module ReportWorkflow).         *)

EditReport(u) ==
  /\ report[u].status = "EDITABLE"
  /\ report[u].version < MaxEdition
  /\ report' = [report EXCEPT ![u].version = @ + 1]
  /\ UNCHANGED <<anonymised, login, tokens, records, fulfil, export, shown>>

\* Submitted by the GP and approved by the PMO.
ApproveReport(u) ==
  /\ report[u].status = "EDITABLE"
  /\ report' = [report EXCEPT ![u].status = "PMO_APPROVED"]
  /\ UNCHANGED <<anonymised, login, tokens, records, fulfil, export, shown>>

ReleaseReport(u) ==
  /\ report[u].status = "PMO_APPROVED"
  /\ report' = [report EXCEPT ![u].status = "CLIENT_RELEASED"]
  /\ shown' = [shown EXCEPT ![u] = @ \cup {report[u].version}]
  /\ UNCHANGED <<anonymised, login, tokens, records, fulfil, export>>

\* Sent back, after its release as well (see ReopenRow of ReportInheritance).
ReturnReport(u) ==
  /\ report[u].status \in {"PMO_APPROVED", "CLIENT_RELEASED"}
  /\ report' = [report EXCEPT ![u].status = "EDITABLE"]
  /\ export' = [export EXCEPT ![u].disturbed = @ \/ export[u].pc = "listed"]
  /\ UNCHANGED <<anonymised, login, tokens, records, fulfil, shown>>

-----------------------------------------------------------------------------
UserStep(u) ==
  \/ CheckLogin(u) \/ IssueToken(u) \/ ExpireToken(u) \/ AskDeletion(u)
  \/ BeginExport(u) \/ ListReports(u) \/ ReadReport(u) \/ ReadRecords(u)
  \/ CommitExport(u) \/ EndExport(u)
  \/ EditReport(u) \/ ApproveReport(u) \/ ReleaseReport(u) \/ ReturnReport(u)

PmoStep(p) ==
  \/ \E r \in DOMAIN records : BeginFulfil(p, r)
  \/ CommitFulfil(p) \/ EndFulfil(p)

DataNext ==
  \/ \E u \in Users : UserStep(u)
  \/ \E p \in Pmos : PmoStep(p)
  \/ \E type \in MailTypes : AskByMail(type)

\* A checked login is answered and tokens expire.  A handler reads on or fails.
DataFairness ==
  \A u \in Users :
    /\ WF_dataVars(IssueToken(u))
    /\ WF_dataVars(ExpireToken(u))
    /\ WF_dataVars(ListReports(u) \/ ReadReport(u) \/ ReadRecords(u))
    /\ WF_dataVars(EndExport(u))

DataSpec == DataInit /\ [][DataNext]_dataVars /\ DataFairness

-----------------------------------------------------------------------------
\* What is marked as done is done, and nothing else: the subject of a fulfilled
\* deletion is anonymised, and nobody is anonymised without one
\* (admin_data_requests.py:145-164), though two PMOs may fulfil the same record
\* or two records of one subject at once.
DeletionIsDone ==
  /\ \A r \in DOMAIN records :
       records[r].type = "DELETION" /\ records[r].status = "FULFILLED"
         /\ Subject(r) # External => Subject(r) \in anonymised
  /\ \A u \in anonymised : \E r \in DOMAIN records :
       records[r].type = "DELETION" /\ records[r].status = "FULFILLED" /\ Subject(r) = u

\* This step sends the ZIP of u.
Sends(u) ==
  export[u].pc = "snapshot" /\ export'[u].pc = "idle" /\ Len(records') > Len(records)

\* A ZIP holds no contents that have never been released to the client
\* (data_export_service.py:308-320), although report and contents are read apart,
\* unless the report was sent back between the two.  "O log e gravado DEPOIS do
\* snapshot ... mas vai aparecer no proximo export" (me.py:64-67): a ZIP tells of
\* all the records of the user there were when it was asked for, and of no other's.
ZipIsSound ==
  [][\A u \in Users : Sends(u) =>
       LET zip == export[u] IN
       /\ zip.version # 0 /\ ~zip.disturbed => zip.version \in shown[u]
       /\ \A r \in zip.records : Subject(r) = u
       /\ \A r \in 1 .. zip.before : Subject(r) = u => r \in zip.records]_dataVars

\* An anonymised user is locked out in the end: tokens outlive the anonymisation
\* and a login under way may still issue one, but none is issued for ever
\* (auth.py:54-61, deps.py:25-47).
LockedOut ==
  \A u \in Users : <>[](u \in anonymised => u \notin tokens \cup login /\ export[u].pc = "idle")
=============================================================================
