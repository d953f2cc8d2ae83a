---------------------------- MODULE ProposalLog ----------------------------
(***************************************************************************)
(* What a client sees of the uploads to one project: a log of files, to    *)
(* which each upload that succeeds adds its own at the end and from which  *)
(* nothing disappears.  ProposalUpload is shown to implement it.           *)
(***************************************************************************)
EXTENDS Naturals

CONSTANT Files
VARIABLE log    \* log[n]: the file of version n

Init == log \in [{} -> Files]

Add(file) ==
  /\ \A n \in DOMAIN log : log[n] # file
  /\ \E last \in DOMAIN log' :
       /\ DOMAIN log = 1 .. last - 1
       /\ log' = [n \in 1 .. last |-> IF n = last THEN file ELSE log[n]]

Next == \E file \in Files : Add(file)

Spec == Init /\ [][Next]_log
=============================================================================
