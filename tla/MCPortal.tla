----------------------------- MODULE MCPortal ------------------------------
(* Small instances of ProposalUpload, DataRequests and Notifications.      *)
(* They share no variable: TLC explores one of them at a time.             *)
EXTENDS ProposalUpload, DataRequests, Notifications

VARIABLE part

MCInit ==
  /\ part \in {"upload", "data", "bell"}
  /\ UploadInit /\ DataInit /\ NoticeInit

MCNext ==
  \/ part = "upload" /\ UploadNext /\ UNCHANGED <<part, dataVars, bellVars>>
  \/ part = "data" /\ DataNext /\ UNCHANGED <<part, uploadVars, bellVars>>
  \/ part = "bell" /\ NoticeNext /\ UNCHANGED <<part, uploadVars, dataVars>>

\* A part that is not explored never enables the steps its fairness is about.
MCSpec ==
  /\ MCInit /\ [][MCNext]_<<part, uploadVars, dataVars, bellVars>>
  /\ UploadFairness /\ DataFairness

PortalTypeOK == UploadTypeOK /\ DataTypeOK /\ NoticeTypeOK
=============================================================================
