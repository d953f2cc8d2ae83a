\* Three uploads; one user, two PMOs and two records; one bell, two
\* notices and two POSTs of theirs.
SPECIFICATION MCSpec
CONSTANTS
  Uploads = {a1, a2, a3}
  NoFile = NoFile
  MaxVersion = 3
  Users = {u1}
  Pmos = {p1, p2}
  External = External
  MailTypes = {"DELETION"}
  MaxRecords = 2
  MaxEdition = 2
  People = {b1}
  Notices = {n1, n2}
  QueueSize = 2
  MaxOthers = 2
  MaxAsked = 2
  MaxPosts = 2
INVARIANTS PortalTypeOK StoredFileIsSent DeletionIsDone BadgeIsRight
PROPERTIES ImplementsLog UploadsEnd ZipIsSound LockedOut
\* A portal without work is idle.
CHECK_DEADLOCK FALSE
