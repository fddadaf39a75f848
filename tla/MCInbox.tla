------------------------------- MODULE MCInbox -------------------------------
(* Instances of Inbox for TLC.                                             *)
EXTENDS Inbox, TLC

CONSTANTS a, u1, w1, l1, b1

OnePdf == [n \in {a} |-> "parsed"]
OwnId == [n \in {a} |-> a]
=============================================================================
