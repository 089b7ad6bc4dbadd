----------------------------- MODULE OrderLedger -----------------------------
(***************************************************************************)
(* What order_log promises of every clientOrderId, whoever asks and however*)
(* often: the attempt is logged first, then sent to the venue at most once.*)
(* OrderEngine implements it.                                              *)
(***************************************************************************)
EXTENDS Naturals

CONSTANT Keys

VARIABLES
  logged,  \* the keys that have a row
  sent     \* requests sent to the venue, per key

TypeOK == logged \subseteq Keys /\ sent \in [Keys -> {0, 1}]

Init == logged = {} /\ sent = [k \in Keys |-> 0]

Log(k) ==
  /\ k \notin logged
  /\ logged' = logged \cup {k}
  /\ UNCHANGED sent

Send(k) ==
  /\ k \in logged /\ sent[k] = 0
  /\ sent' = [sent EXCEPT ![k] = 1]
  /\ UNCHANGED logged

Next == \E k \in Keys : Log(k) \/ Send(k)

Spec == Init /\ [][Next]_<<logged, sent>>
==============================================================================
