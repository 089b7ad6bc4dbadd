----------------------------- MODULE BoundProofs -----------------------------
(***************************************************************************)
(* How far the checks of OrderEngine that are read before they are used    *)
(* can be overshot: by what had passed them and had not yet been counted.  *)
(***************************************************************************)
EXTENDS LedgerProofs

LEMMA FewerIsLess ==
  ASSUME NEW S, IsFiniteSet(S), NEW T \in SUBSET S
  PROVE  /\ IsFiniteSet(T)
         /\ Cardinality(T) \in Nat /\ Cardinality(S) \in Nat
         /\ Cardinality(T) <= Cardinality(S)
BY FS_Subset, FS_CardinalityType

LEMMA WorkersFinite == IsFiniteSet(Workers) /\ Cardinality(Workers) \in Nat
BY ConstantsOK, FS_CardinalityType

-----------------------------------------------------------------------------
(* The kill switch *)

\* The workers past processCommand's read of the kill switch whose request
\* has not left yet.
Cleared == {w \in Workers : pc[w] \in {"risk", "insert", "prepare", "send"}}

HaltInv == halted => sentHalted + Cardinality(Cleared) <= Cardinality(Workers)

LEMMA HaltInvQuiet ==
  ASSUME HaltInv, UNCHANGED <<halted, sentHalted>>, TypeInv, Cleared' \subseteq Cleared
  PROVE  HaltInv'
<1>1. Cardinality(Cleared') \in Nat /\ Cardinality(Cleared) \in Nat
      /\ Cardinality(Cleared') <= Cardinality(Cleared)
  <2>1. IsFiniteSet(Cleared)
    BY WorkersFinite, FewerIsLess DEF Cleared
  <2> QED BY <2>1, FewerIsLess
<1> QED
  BY <1>1, WorkersFinite DEF HaltInv, TypeInv, TypeOK

LEMMA HaltInvNext ==
  ASSUME TypeInv, HaltInv, [Next]_vars
  PROVE  HaltInv'
<1>0. pc \in [Workers -> WorkerPCs] /\ sentHalted \in Nat
  BY DEF TypeInv, TypeOK
<1>1. ASSUME NEW w \in Workers, WorkerStep(w) PROVE HaltInv'
  <2> USE DEF At, Goto, envVars
  <2>1. CASE \/ ReadGroup(w) \/ DropMalformed(w) \/ RiskGate(w) \/ Insert(w)
             \/ Prepare(w) \/ RecordResult(w) \/ MarkRejected(w) \/ XAck(w)
    <3>1. UNCHANGED <<halted, sentHalted>>
      BY <2>1 DEF ReadGroup, DropMalformed, RiskGate, Insert, Prepare,
         RecordResult, MarkRejected, XAck
    <3>2. Cleared' \subseteq Cleared
      BY <1>0, <2>1 DEF ReadGroup, DropMalformed, RiskGate, Insert, Prepare,
         RecordResult, MarkRejected, XAck, Cleared
    <3> QED BY <3>1, <3>2, HaltInvQuiet
  <2>2. CASE KillSwitch(w)
    <3>1. UNCHANGED <<halted, sentHalted>>
          /\ (~halted \/ pc' = [pc EXCEPT ![w] = "ack"])
      BY <2>2 DEF KillSwitch, TradingAllowed
    <3>2. CASE ~halted
      BY <3>1, <3>2 DEF HaltInv
    <3>3. CASE pc' = [pc EXCEPT ![w] = "ack"]
      <4>1. Cleared' \subseteq Cleared
        BY <1>0, <3>3 DEF Cleared
      <4> QED BY <3>1, <4>1, HaltInvQuiet
    <3> QED BY <3>1, <3>2, <3>3
  <2>3. CASE PlaceOrder(w)
    <3>1. halted' = halted /\ (halted => sentHalted' = sentHalted + 1)
      BY <2>3 DEF PlaceOrder
    <3>2. pc[w] = "send" /\ pc' \in {[pc EXCEPT ![w] = "record"],
                                     [pc EXCEPT ![w] = "reject"]}
      BY <2>3 DEF PlaceOrder
    <3>3. Cleared' = Cleared \ {w} /\ w \in Cleared
      BY <1>0, <3>2 DEF Cleared
    <3>4. IsFiniteSet(Cleared) /\ Cardinality(Cleared) \in Nat
      BY WorkersFinite, FewerIsLess DEF Cleared
    <3>5. Cardinality(Cleared') = Cardinality(Cleared) - 1
      BY <3>3, <3>4, FS_RemoveElement
    <3> QED BY <1>0, <3>1, <3>4, <3>5, WorkersFinite DEF HaltInv
  <2> QED BY <1>1, <2>1, <2>2, <2>3 DEF WorkerStep
<1>2. ASSUME NEW r \in Replicas, SweepStep(r) PROVE HaltInv'
  <2>1. UNCHANGED <<halted, sentHalted, pc>>
    BY <1>2 DEF SweepStep, CollectOpen, GetOpenOrders, MarkUnknown, GetOrder,
       WriteTerminal, EndSweep, envVars
  <2> QED BY <2>1, HaltInvQuiet DEF Cleared
<1>3. ASSUME NEW h \in BOOLEAN, SetHalted(h) PROVE HaltInv'
  <2>1. sentHalted' = 0 /\ Cleared' = Cleared
    BY <1>3 DEF SetHalted, Cleared
  <2>2. Cardinality(Cleared) \in Nat /\ Cardinality(Cleared) <= Cardinality(Workers)
    BY WorkersFinite, FewerIsLess DEF Cleared
  <2> QED BY <2>1, <2>2 DEF HaltInv
<1>4. ASSUME NEW r \in Replicas, Crash(r) PROVE HaltInv'
  <2>1. UNCHANGED <<halted, sentHalted>> /\ Cleared' \subseteq Cleared
    BY <1>0, <1>4 DEF Crash, Cleared
  <2> QED BY <2>1, HaltInvQuiet
<1>5. ASSUME \/ \E payload \in Keys \cup Junk : Submit(payload)
             \/ \E r \in Replicas : SetGate(r)
             \/ \E k \in Keys : VenueMoves(k)
             \/ UNCHANGED vars
      PROVE  HaltInv'
  <2>1. UNCHANGED <<halted, sentHalted, pc>>
    BY <1>5 DEF Submit, SetGate, VenueMoves, vars, envVars
  <2> QED BY <2>1, HaltInvQuiet DEF Cleared
<1> QED
  BY <1>1, <1>2, <1>3, <1>4, <1>5 DEF Next, Halt, Resume

\* While trading is halted at most one request per worker leaves, in every
\* behaviour, however many workers the replicas run.
THEOREM HaltBounded == Spec => []HaltOvershoot
<1>1. Init => HaltInv
  BY DEF Init, HaltInv
<1>2. TypeInv /\ HaltInv => HaltOvershoot
  <2>1. Cardinality(Cleared) \in Nat
    BY WorkersFinite, FewerIsLess DEF Cleared
  <2> QED BY <2>1, WorkersFinite DEF HaltInv, HaltOvershoot, TypeInv, TypeOK
<1> QED
  BY <1>1, <1>2, TypeInvAlways, HaltInvNext, PTL DEF Spec

-----------------------------------------------------------------------------
(* The mainnet gate *)

Of(r) == {w \in Workers : Home[w] = r}

\* The workers of a replica past guard() with a mainnet order.
Guarding(r) == {w \in Of(r) : pc[w] = "send" /\ Book[cur[w]] \in Mainnet}

GateInv ==
  \A r \in Replicas :
    ~gate[r] => sentClosed[r] + Cardinality(Guarding(r)) <= Cardinality(Of(r))

LEMMA OfFinite == \A r : IsFiniteSet(Of(r)) /\ Cardinality(Of(r)) \in Nat
BY WorkersFinite, FewerIsLess DEF Of

LEMMA GuardingFinite ==
  \A r : /\ IsFiniteSet(Guarding(r)) /\ Cardinality(Guarding(r)) \in Nat
         /\ Cardinality(Guarding(r)) <= Cardinality(Of(r))
BY OfFinite, FewerIsLess DEF Guarding

\* A replica whose gate stays as it is, and of whose workers none gets past
\* guard() with a mainnet order.
LEMMA GateInvQuiet ==
  ASSUME TypeInv, GateInv, NEW r \in Replicas,
         gate'[r] = gate[r], sentClosed'[r] = sentClosed[r],
         Guarding(r)' \subseteq Guarding(r), ~gate'[r]
  PROVE  sentClosed'[r] + Cardinality(Guarding(r)') <= Cardinality(Of(r))
<1>1. /\ Cardinality(Guarding(r)') \in Nat /\ Cardinality(Guarding(r)) \in Nat
      /\ Cardinality(Guarding(r)') <= Cardinality(Guarding(r))
  BY GuardingFinite, FewerIsLess
<1>2. sentClosed[r] \in Nat
  BY DEF TypeInv, TypeOK
<1> QED
  BY <1>1, <1>2, OfFinite DEF GateInv

LEMMA GateInvNext ==
  ASSUME TypeInv, GateInv, [Next]_vars
  PROVE  GateInv'
<1>0. /\ pc \in [Workers -> WorkerPCs] /\ gate \in [Replicas -> BOOLEAN]
      /\ sentClosed \in [Replicas -> Nat] /\ cur \in [Workers -> Keys \cup {None}]
  BY DEF TypeInv, TypeOK
<1> SUFFICES ASSUME NEW r \in Replicas, ~gate'[r]
             PROVE  sentClosed'[r] + Cardinality(Guarding(r)') <= Cardinality(Of(r))
  BY DEF GateInv, Of
<1> DEFINE Goal == sentClosed'[r] + Cardinality(Guarding(r)') <= Cardinality(Of(r))
<1>1. ASSUME NEW w \in Workers, WorkerStep(w) PROVE Goal
  <2> USE DEF At, Goto, envVars
  <2>1. CASE \/ ReadGroup(w) \/ DropMalformed(w) \/ KillSwitch(w)
             \/ RiskGate(w) \/ Insert(w) \/ RecordResult(w)
             \/ MarkRejected(w) \/ XAck(w)
    <3>1. UNCHANGED <<gate, sentClosed>>
      BY <2>1 DEF ReadGroup, DropMalformed, KillSwitch, RiskGate, Insert,
         RecordResult, MarkRejected, XAck
    <3>2. \A v \in Workers : pc'[v] = "send" => pc[v] = "send" /\ cur'[v] = cur[v]
      BY <1>0, <2>1 DEF ReadGroup, DropMalformed, KillSwitch, RiskGate,
         Insert, RecordResult, MarkRejected, XAck
    <3>3. Guarding(r)' \subseteq Guarding(r)
      BY <3>2 DEF Guarding, Of
    <3> QED BY <3>1, <3>3, GateInvQuiet
  <2>2. CASE Prepare(w)
    <3>1. UNCHANGED <<gate, sentClosed, cur>> /\ ~gate[r]
      BY <2>2 DEF Prepare
    <3>2. \A v \in Workers : pc'[v] = "send" =>
            pc[v] = "send" \/ (v = w /\ Guarded(Home[w], Book[cur[w]]))
      BY <1>0, <2>2 DEF Prepare
    <3>3. Guarding(r)' \subseteq Guarding(r)
      BY <3>1, <3>2 DEF Guarding, Of, Guarded
    <3> QED BY <3>1, <3>3, GateInvQuiet
  <2>3. CASE PlaceOrder(w)
    <3>0. UNCHANGED <<gate, cur>> /\ pc[w] = "send"
          /\ pc' \in {[pc EXCEPT ![w] = "record"], [pc EXCEPT ![w] = "reject"]}
      BY <2>3 DEF PlaceOrder
    <3>1. sentClosed' = IF Book[cur[w]] \in Mainnet /\ ~gate[Home[w]]
                        THEN [sentClosed EXCEPT ![Home[w]] = sentClosed[Home[w]] + 1]
                        ELSE sentClosed
      BY <2>3 DEF PlaceOrder
    <3>2. Guarding(r)' = Guarding(r) \ {w}
      BY <1>0, <3>0 DEF Guarding, Of
    <3>3. CASE w \in Guarding(r)
      <4>1. Home[w] = r /\ ~gate[r] /\ sentClosed'[r] = sentClosed[r] + 1
        BY <1>0, <3>0, <3>1, <3>3 DEF Guarding, Of
      <4>2. Cardinality(Guarding(r)') = Cardinality(Guarding(r)) - 1
        BY <3>2, <3>3, GuardingFinite, FS_RemoveElement
      <4>3. sentClosed[r] \in Nat /\ Cardinality(Guarding(r)) \in Nat
            /\ Cardinality(Of(r)) \in Nat
        BY <1>0, GuardingFinite, OfFinite
      <4>4. sentClosed[r] + Cardinality(Guarding(r)) <= Cardinality(Of(r))
        BY <4>1 DEF GateInv
      <4> QED BY <4>1, <4>2, <4>3, <4>4
    <3>4. CASE w \notin Guarding(r)
      <4>1. sentClosed'[r] = sentClosed[r]
        BY <1>0, <3>0, <3>1, <3>4, ConstantsOK DEF Guarding, Of
      <4> QED BY <3>0, <3>2, <4>1, GateInvQuiet
    <3> QED BY <3>3, <3>4
  <2> QED BY <1>1, <2>1, <2>2, <2>3 DEF WorkerStep
<1>2. ASSUME NEW q \in Replicas, SetGate(q) \/ Crash(q) PROVE Goal
  <2>1. CASE q = r
    <3>1. sentClosed'[r] = 0
      BY <1>0, <1>2, <2>1 DEF SetGate, Crash
    <3>2. /\ Cardinality(Guarding(r)') \in Nat
          /\ Cardinality(Guarding(r)') <= Cardinality(Of(r))
      BY OfFinite, FewerIsLess DEF Guarding, Of
    <3> QED BY <3>1, <3>2
  <2>2. CASE q # r
    <3>1. gate'[r] = gate[r] /\ sentClosed'[r] = sentClosed[r]
      BY <1>0, <1>2, <2>2 DEF SetGate, Crash
    <3>2. \A v \in Of(r) : pc'[v] = pc[v] /\ cur'[v] = cur[v]
      BY <1>0, <1>2, <2>2 DEF SetGate, Crash, Of
    <3>3. Guarding(r)' \subseteq Guarding(r)
      BY <3>2 DEF Guarding, Of
    <3> QED BY <3>1, <3>3, GateInvQuiet
  <2> QED BY <2>1, <2>2
<1>3. ASSUME \/ \E q \in Replicas : SweepStep(q)
             \/ \E h \in BOOLEAN : SetHalted(h)
             \/ \E payload \in Keys \cup Junk : Submit(payload)
             \/ \E k \in Keys : VenueMoves(k)
             \/ UNCHANGED vars
      PROVE  Goal
  <2>1. UNCHANGED <<gate, sentClosed, pc, cur>>
    BY <1>3 DEF SweepStep, CollectOpen, GetOpenOrders, MarkUnknown, GetOrder,
       WriteTerminal, EndSweep, SetHalted, Submit, VenueMoves, vars, envVars
  <2>2. Guarding(r)' \subseteq Guarding(r)
    BY <2>1 DEF Guarding
  <2> QED BY <2>1, <2>2, GateInvQuiet
<1> QED
  BY <1>1, <1>2, <1>3 DEF Next, Halt, Resume

\* Once a replica's gate has closed, each of its workers sends at most the
\* mainnet order that had passed guard() by then.
THEOREM GateBounded == Spec => []GateOvershoot
<1>1. Init => GateInv
  <2> SUFFICES ASSUME Init, NEW r \in Replicas
               PROVE  sentClosed[r] + Cardinality(Guarding(r)) <= Cardinality(Of(r))
    BY DEF GateInv
  <2>1. sentClosed[r] = 0
    BY DEF Init
  <2> QED BY <2>1, GuardingFinite, OfFinite
<1>2. TypeInv /\ GateInv => GateOvershoot
  <2> SUFFICES ASSUME TypeInv, GateInv, NEW r \in Replicas, ~gate[r]
               PROVE  sentClosed[r] <= Cardinality(Of(r))
    BY DEF GateOvershoot, Of
  <2>1. sentClosed[r] \in Nat
    BY DEF TypeInv, TypeOK
  <2> QED BY <2>1, GuardingFinite, OfFinite DEF GateInv
<1> QED
  BY <1>1, <1>2, TypeInvAlways, GateInvNext, PTL DEF Spec

-----------------------------------------------------------------------------
(* The open-positions cap *)

\* The rows the bound is about, and the workers that will add to them.
Counted  == OpenRows \ swept
Admitted == {w \in Workers : pc[w] = "insert"}

WithinCap ==
  MaxOpen > 0 => Cardinality(Counted) + Cardinality(Admitted)
                   <= MaxOpen + Cardinality(Workers) - 1

\* A row is closed by the worker that owns it or by a sweep, and reopened only
\* by a sweep or after one.
OwnedOpen  == \A w \in Workers : Owns(w) => cur[w] \in swept \/ IsOpen(cur[w])
OwnedOnce  == \A v, w \in Workers :
                Owns(v) /\ Owns(w) /\ cur[v] = cur[w] => v = w
SweptFirst == \A r \in Replicas :
                sweep[r].pc \in {"query", "write"} => sweep[r].key \in swept

CapInv == WithinCap /\ OwnedOpen /\ OwnedOnce /\ SweptFirst

LEMMA CountedFinite ==
  /\ IsFiniteSet(Counted) /\ Cardinality(Counted) \in Nat
  /\ IsFiniteSet(OpenRows) /\ Cardinality(OpenRows) \in Nat
  /\ Cardinality(Counted) <= Cardinality(OpenRows)
<1>1. IsFiniteSet(OpenRows) /\ Cardinality(OpenRows) \in Nat
  BY ConstantsOK, FewerIsLess DEF OpenRows
<1> QED
  BY <1>1, FewerIsLess DEF Counted

LEMMA AdmittedFinite ==
  /\ IsFiniteSet(Admitted) /\ Cardinality(Admitted) \in Nat
  /\ Cardinality(Admitted) <= Cardinality(Workers)
BY WorkersFinite, FewerIsLess DEF Admitted

\* Nothing is added to the sum.
LEMMA WithinCapQuiet ==
  ASSUME WithinCap, Counted' \subseteq Counted, Admitted' \subseteq Admitted
  PROVE  WithinCap'
<1>1. /\ Cardinality(Counted') \in Nat /\ Cardinality(Counted) \in Nat
      /\ Cardinality(Counted') <= Cardinality(Counted)
  BY CountedFinite, FewerIsLess
<1>2. /\ Cardinality(Admitted') \in Nat /\ Cardinality(Admitted) \in Nat
      /\ Cardinality(Admitted') <= Cardinality(Admitted)
  BY AdmittedFinite, FewerIsLess
<1> QED
  BY <1>1, <1>2, WorkersFinite, ConstantsOK DEF WithinCap

\* A step by which nobody comes to own a row, and which closes or reopens
\* only swept rows and rows that nobody owns any more.
LEMMA CapQuiet ==
  ASSUME TypeInv, CapInv, SweptFirst', swept \subseteq swept',
         Admitted' \subseteq Admitted,
         \A w \in Workers : Owns(w)' => Owns(w) /\ cur'[w] = cur[w],
         \A k \in Keys : \/ row'[k] = row[k]
                         \/ k \in swept'
                         \/ /\ IsOpen(k)
                            /\ \A w \in Workers : Owns(w)' => cur'[w] # k
  PROVE  CapInv'
<1>1. Counted' \subseteq Counted
  BY DEF Counted, OpenRows, IsOpen
<1>2. WithinCap'
  BY <1>1, WithinCapQuiet DEF CapInv
<1>3. \A w \in Workers : Owns(w) => cur[w] \in Keys
  BY DEF TypeInv, Processing, Owns
<1>4. OwnedOpen'
  BY <1>3 DEF CapInv, OwnedOpen, IsOpen
<1>5. OwnedOnce'
  BY DEF CapInv, OwnedOnce
<1> QED
  BY <1>2, <1>4, <1>5 DEF CapInv

LEMMA CapInvWorker ==
  ASSUME TypeInv, LedgerInv, CapInv, NEW w \in Workers, WorkerStep(w)
  PROVE  CapInv'
<1> USE DEF At, Goto, envVars, sweepVars
<1>0. /\ pc \in [Workers -> WorkerPCs] /\ cur \in [Workers -> Keys \cup {None}]
      /\ row \in [Keys -> Statuses \cup {"none"}]
  BY DEF TypeInv, TypeOK
<1>a. UNCHANGED <<sweep, swept>> /\ SweptFirst'
  <2>1. UNCHANGED <<sweep, swept>>
    BY DEF WorkerStep, ReadGroup, DropMalformed, KillSwitch, RiskGate, Insert,
       Prepare, PlaceOrder, RecordResult, MarkRejected, XAck
  <2> QED BY <2>1 DEF CapInv, SweptFirst
<1>1. CASE \/ ReadGroup(w) \/ DropMalformed(w) \/ KillSwitch(w)
           \/ Prepare(w) \/ PlaceOrder(w) \/ XAck(w)
  <2>1. UNCHANGED row
    BY <1>1 DEF ReadGroup, DropMalformed, KillSwitch, Prepare, PlaceOrder, XAck
  <2>2. \A v \in Workers : Owns(v)' => Owns(v) /\ cur'[v] = cur[v]
    BY <1>0, <1>1 DEF ReadGroup, DropMalformed, KillSwitch, Prepare,
       PlaceOrder, XAck, Owns
  <2>3. Admitted' \subseteq Admitted
    BY <1>0, <1>1 DEF ReadGroup, DropMalformed, KillSwitch, Prepare,
       PlaceOrder, XAck, Admitted
  <2> QED BY <1>a, <2>1, <2>2, <2>3, CapQuiet
<1>2. CASE RiskGate(w)
  <2>1. UNCHANGED <<row, cur>>
    BY <1>2 DEF RiskGate
  <2>2. \A v \in Workers : Owns(v)' => Owns(v) /\ cur'[v] = cur[v]
    BY <1>0, <1>2 DEF RiskGate, Owns
  <2>3. CASE pc' = [pc EXCEPT ![w] = "ack"]
    <3>1. Admitted' \subseteq Admitted
      BY <1>0, <2>3 DEF Admitted
    <3> QED BY <1>a, <2>1, <2>2, <3>1, CapQuiet
  <2>4. CASE UnderCap
    <3>1. Counted' = Counted
      BY <1>a, <2>1 DEF Counted, OpenRows, IsOpen
    <3>2. /\ Cardinality(Admitted') \in Nat
          /\ Cardinality(Admitted') <= Cardinality(Workers)
      BY WorkersFinite, FewerIsLess DEF Admitted
    <3>3. MaxOpen > 0 => Cardinality(Counted) + 1 <= MaxOpen
      BY <2>4, CountedFinite, ConstantsOK DEF UnderCap
    <3>4. WithinCap'
      BY <3>1, <3>2, <3>3, CountedFinite, WorkersFinite, ConstantsOK
         DEF WithinCap
    <3>5. OwnedOpen' /\ OwnedOnce'
      BY <1>a, <2>1, <2>2 DEF CapInv, OwnedOpen, OwnedOnce, IsOpen
    <3> QED BY <1>a, <3>4, <3>5 DEF CapInv
  <2> QED BY <1>2, <2>3, <2>4 DEF RiskGate
<1>3. CASE Insert(w)
  <2>0. cur[w] \in Keys /\ UNCHANGED cur
    BY <1>3 DEF Insert, TypeInv, Processing
  <2>1. pc[w] = "insert" /\ pc' \in {[pc EXCEPT ![w] = "prepare"],
                                     [pc EXCEPT ![w] = "ack"]}
    BY <1>3 DEF Insert
  <2>2. CASE row' = row /\ pc' = [pc EXCEPT ![w] = "ack"]
    <3>1. \A v \in Workers : Owns(v)' => Owns(v) /\ cur'[v] = cur[v]
      BY <1>0, <2>0, <2>2 DEF Owns
    <3>2. Admitted' \subseteq Admitted
      BY <1>0, <2>2 DEF Admitted
    <3> QED BY <1>a, <2>2, <3>1, <3>2, CapQuiet
  <2>3. CASE row[cur[w]] = "none" /\ row' = [row EXCEPT ![cur[w]] = "new"]
    <3>1. \A v \in Workers : Owns(v)' => v = w \/ Owns(v)
      BY <1>0, <2>1 DEF Owns
    <3>2. \A v \in Workers : Owns(v) => cur[v] \in Keys /\ cur[v] # cur[w]
      BY <2>3 DEF LedgerInv, Logged, TypeInv, Processing, Owns
    <3>3. \A k \in Keys : row'[k] = IF k = cur[w] THEN "new" ELSE row[k]
      BY <1>0, <2>3
    <3>4. OwnedOpen'
      BY <1>a, <2>0, <3>1, <3>2, <3>3 DEF CapInv, OwnedOpen, IsOpen, OpenSet
    <3>5. OwnedOnce'
      BY <2>0, <3>1, <3>2 DEF CapInv, OwnedOnce
    <3>6. Counted' \subseteq Counted \cup {cur[w]}
      BY <1>a, <3>3 DEF Counted, OpenRows, IsOpen
    <3>7. Cardinality(Counted \cup {cur[w]}) <= Cardinality(Counted) + 1
          /\ IsFiniteSet(Counted \cup {cur[w]})
      <4>1. /\ IsFiniteSet(Counted \cup {cur[w]})
            /\ Cardinality(Counted \cup {cur[w]}) =
                 IF cur[w] \in Counted THEN Cardinality(Counted)
                                      ELSE Cardinality(Counted) + 1
        BY CountedFinite, FS_AddElement, ZenonT(30)
      <4> QED BY <4>1, CountedFinite
    <3>8. /\ Cardinality(Counted') \in Nat
          /\ Cardinality(Counted') <= Cardinality(Counted) + 1
      BY <3>6, <3>7, CountedFinite, FewerIsLess
    <3>9. Admitted' = Admitted \ {w} /\ w \in Admitted
      BY <1>0, <2>1 DEF Admitted
    <3>10. Cardinality(Admitted') = Cardinality(Admitted) - 1
      BY <3>9, AdmittedFinite, FS_RemoveElement
    <3>11. WithinCap'
      BY <3>8, <3>10, CountedFinite, AdmittedFinite, WorkersFinite, ConstantsOK
         DEF CapInv, WithinCap
    <3> QED BY <1>a, <3>4, <3>5, <3>11 DEF CapInv
  <2> QED BY <1>3, <2>2, <2>3 DEF Insert, IsDuplicate
<1>4. CASE RecordResult(w) \/ MarkRejected(w)
  <2>0. cur[w] \in Keys /\ UNCHANGED cur /\ Owns(w)
        /\ pc' = [pc EXCEPT ![w] = "ack"]
    BY <1>4 DEF RecordResult, MarkRejected, TypeInv, Processing, Owns
  <2>1. \A v \in Workers : Owns(v)' => Owns(v) /\ cur'[v] = cur[v] /\ v # w
    BY <1>0, <2>0 DEF Owns
  <2>2. Admitted' \subseteq Admitted
    BY <1>0, <2>0 DEF Admitted
  <2>3. \A k \in Keys : k # cur[w] => row'[k] = row[k]
    BY <1>0, <1>4 DEF RecordResult, MarkRejected, UpdateStatus
  <2>4. cur[w] \in swept \/ IsOpen(cur[w])
    BY <2>0 DEF CapInv, OwnedOpen
  <2>5. \A v \in Workers : Owns(v)' => cur'[v] # cur[w]
    BY <2>0, <2>1 DEF CapInv, OwnedOnce
  <2> QED BY <1>a, <2>1, <2>2, <2>3, <2>4, <2>5, CapQuiet
<1> QED
  BY <1>1, <1>2, <1>3, <1>4 DEF WorkerStep

LEMMA CapInvSweep ==
  ASSUME TypeInv, CapInv, NEW r \in Replicas, SweepStep(r)
  PROVE  CapInv'
<1> USE DEF AtSweep
<1>0. sweep \in [Replicas -> Sweeps] /\ row \in [Keys -> Statuses \cup {"none"}]
      /\ Ready(sweep[r])
  BY DEF TypeInv, TypeOK, Sweeping
<1>1. UNCHANGED <<pc, cur>>
  BY DEF SweepStep, CollectOpen, GetOpenOrders, MarkUnknown, GetOrder,
     WriteTerminal, EndSweep
<1>2. /\ \A w \in Workers : Owns(w)' => Owns(w) /\ cur'[w] = cur[w]
      /\ Admitted' \subseteq Admitted
  BY <1>1 DEF Owns, Admitted
<1>3. CASE CollectOpen(r) \/ GetOpenOrders(r) \/ EndSweep(r)
  <2>1. UNCHANGED <<row, swept>>
    BY <1>3 DEF CollectOpen, GetOpenOrders, EndSweep
  <2>2. \E new \in {s \in Sweeps : s.pc \in {"books", "idle"}} : Sweep(r, new)
    <3>1. CASE CollectOpen(r)
      BY <1>0, <3>1 DEF CollectOpen, Sweeps, SweepPCs, OpenRows
    <3>2. CASE GetOpenOrders(r)
      <4>1. sweep[r] \in Sweeps /\ sweep[r].pc = "books"
        BY <1>0, <3>2 DEF GetOpenOrders
      <4>2. PICK listed \in SUBSET sweep[r].todo, gone \in SUBSET sweep[r].todo :
              \/ Sweep(r, [sweep[r] EXCEPT !.todo = @ \ listed, !.missing = gone])
              \/ Sweep(r, [sweep[r] EXCEPT !.todo = @ \ listed])
        BY <3>2 DEF GetOpenOrders
      <4> QED BY <4>1, <4>2 DEF Sweeps
    <3>3. CASE EndSweep(r)
      BY <3>3 DEF EndSweep, Sweeps, SweepPCs, IdleSweep
    <3> QED BY <1>3, <3>1, <3>2, <3>3
  <2>3. sweep'[r].pc \notin {"query", "write"}
        /\ \A q \in Replicas : q # r => sweep'[q] = sweep[q]
    BY <1>0, <2>2 DEF Sweep
  <2>4. SweptFirst'
    BY <2>1, <2>3 DEF CapInv, SweptFirst
  <2> QED BY <1>2, <2>1, <2>4, CapQuiet
<1>4. CASE MarkUnknown(r)
  <2>1. PICK k \in sweep[r].missing :
          \/ /\ UpdateStatus(k, "unknown") /\ swept' = swept \cup {k}
             /\ \/ Sweep(r, [sweep[r] EXCEPT !.pc = "query", !.key = k,
                                             !.missing = @ \ {k}])
                \/ Sweep(r, [sweep[r] EXCEPT !.missing = @ \ {k}])
          \/ /\ UNCHANGED <<row, swept>>
             /\ Sweep(r, [sweep[r] EXCEPT !.missing = @ \ {k}])
    BY <1>4 DEF MarkUnknown
  <2>2. /\ \A j \in Keys : row'[j] = row[j] \/ j \in swept'
        /\ swept \subseteq swept'
    BY <1>0, <2>1 DEF UpdateStatus
  <2>3. sweep[r].pc = "books"
    BY <1>4 DEF MarkUnknown
  <2>4. \A q \in Replicas : q # r => sweep'[q] = sweep[q]
    BY <1>0, <2>1 DEF Sweep
  <2>5. sweep'[r].pc \in {"query", "write"} => sweep'[r].key \in swept'
    BY <1>0, <2>1, <2>3 DEF Sweep, Sweeps
  <2>6. SweptFirst'
    BY <2>2, <2>4, <2>5 DEF CapInv, SweptFirst
  <2> QED BY <1>2, <2>2, <2>6, CapQuiet
<1>5. CASE GetOrder(r)
  <2>1. UNCHANGED <<row, swept>> /\ sweep[r].pc = "query"
    BY <1>5 DEF GetOrder
  <2>2. /\ sweep'[r].pc \in {"query", "write"} => sweep'[r].key = sweep[r].key
        /\ \A q \in Replicas : q # r => sweep'[q] = sweep[q]
    BY <1>0, <1>5 DEF GetOrder, Sweep, Sweeps
  <2>3. SweptFirst'
    BY <2>1, <2>2 DEF CapInv, SweptFirst
  <2> QED BY <1>2, <2>1, <2>3, CapQuiet
<1>6. CASE WriteTerminal(r)
  <2>1. UNCHANGED swept /\ sweep[r].pc = "write"
    BY <1>6 DEF WriteTerminal
  <2>2. sweep'[r].pc = "books"
        /\ \A q \in Replicas : q # r => sweep'[q] = sweep[q]
    BY <1>0, <1>6 DEF WriteTerminal, Sweep, Sweeps
  <2>3. SweptFirst'
    BY <2>1, <2>2 DEF CapInv, SweptFirst
  <2>4. sweep[r].key \in swept
    BY <2>1 DEF CapInv, SweptFirst
  <2>5. \A k \in Keys : k # sweep[r].key => row'[k] = row[k]
    BY <1>0, <1>6 DEF WriteTerminal, UpdateStatus
  <2> QED BY <1>2, <2>1, <2>3, <2>4, <2>5, CapQuiet
<1> QED
  BY <1>3, <1>4, <1>5, <1>6 DEF SweepStep

LEMMA CapInvNext ==
  ASSUME TypeInv, LedgerInv, CapInv, [Next]_vars
  PROVE  CapInv'
<1>1. ASSUME NEW r \in Replicas, Crash(r) PROVE CapInv'
  <2>1. UNCHANGED <<row, swept>>
    BY <1>1 DEF Crash
  <2>2. /\ \A w \in Workers : Owns(w)' => Owns(w) /\ cur'[w] = cur[w]
        /\ Admitted' \subseteq Admitted
    BY <1>1 DEF Crash, Owns, Admitted
  <2>3. SweptFirst'
    BY <1>1, <2>1 DEF Crash, Sweep, IdleSweep, CapInv, SweptFirst, TypeInv, TypeOK
  <2> QED BY <2>1, <2>2, <2>3, CapQuiet
<1>2. ASSUME \/ \E r \in Replicas : SetGate(r)
             \/ \E h \in BOOLEAN : SetHalted(h)
             \/ \E payload \in Keys \cup Junk : Submit(payload)
             \/ \E k \in Keys : VenueMoves(k)
             \/ UNCHANGED vars
      PROVE  CapInv'
  <2>1. UNCHANGED <<row, swept, sweep, pc, cur>>
    BY <1>2 DEF SetGate, SetHalted, Submit, VenueMoves, vars, sweepVars
  <2>2. /\ \A w \in Workers : Owns(w)' => Owns(w) /\ cur'[w] = cur[w]
        /\ Admitted' \subseteq Admitted
    BY <2>1 DEF Owns, Admitted
  <2>3. SweptFirst'
    BY <2>1 DEF CapInv, SweptFirst
  <2> QED BY <2>1, <2>2, <2>3, CapQuiet
<1> QED
  BY <1>1, <1>2, CapInvWorker, CapInvSweep DEF Next, Halt, Resume

LEMMA CapInvInit == Init => CapInv
<1> SUFFICES ASSUME Init PROVE CapInv
  OBVIOUS
<1>1. Counted = {} /\ Admitted = {}
  BY DEF Init, Counted, OpenRows, IsOpen, OpenSet, Admitted
<1>2. Cardinality(Counted) = 0 /\ Cardinality(Admitted) = 0
  BY <1>1, FS_EmptySet
<1>3. Cardinality(Workers) # 0
  BY ConstantsOK, FS_EmptySet
<1>4. WithinCap
  BY <1>2, <1>3, WorkersFinite, ConstantsOK DEF WithinCap
<1> QED
  BY <1>4 DEF Init, CapInv, OwnedOpen, OwnedOnce, SweptFirst, Owns, IdleSweep

\* The open-positions cap is overshot by at most one row per further worker,
\* leaving aside rows a sweep has taken out of the count.
THEOREM CapBounded == Spec => []OpenOvershoot
<1>1. Init => CapInv
  BY CapInvInit
<1>2. CapInv => OpenOvershoot
  BY CountedFinite, AdmittedFinite, WorkersFinite, ConstantsOK
     DEF CapInv, WithinCap, Counted, OpenOvershoot
<1> QED
  BY <1>1, <1>2, TypeInvAlways, LedgerInvAlways, CapInvNext, PTL DEF Spec
-----------------------------------------------------------------------------
(* The orders that the cap counts *)

\* What is open at the venue is open in the log, sweeps aside, and what a
\* worker is about to write of it leaves it open.
StillCounted == \A k \in Keys \ swept : venue[k] \in VenueOpen => IsOpen(k)
AnswersOpen  == \A w \in Workers :
                  pc[w] = "record" /\ venue[cur[w]] \in VenueOpen => answer[w] \in OpenSet
RefusedGone  == \A w \in Workers : pc[w] = "reject" => venue[cur[w]] \notin VenueOpen

CountInv == StillCounted /\ AnswersOpen /\ RefusedGone

\* A step by which no order opens at the venue, no open row of an open order
\* is closed but by a sweep, and nobody comes to write an answer.
LEMMA CountQuiet ==
  ASSUME TypeInv, CountInv, swept \subseteq swept',
         \A k \in Keys : venue'[k] \in VenueOpen => venue[k] \in VenueOpen,
         \A k \in Keys : IsOpen(k) /\ venue[k] \in VenueOpen => k \in swept' \/ IsOpen(k)',
         \A w \in Workers : pc'[w] = "record" =>
           pc[w] = "record" /\ cur'[w] = cur[w] /\ answer'[w] = answer[w],
         \A w \in Workers : pc'[w] = "reject" =>
           pc[w] = "reject" /\ cur'[w] = cur[w]
  PROVE  CountInv'
<1>1. \A w \in Workers : pc[w] \in {"record", "reject"} => cur[w] \in Keys
  BY DEF TypeInv, Processing
<1>2. StillCounted'
  BY DEF CountInv, StillCounted
<1>3. AnswersOpen'
  BY <1>1 DEF CountInv, AnswersOpen
<1>4. RefusedGone'
  BY <1>1 DEF CountInv, RefusedGone
<1> QED
  BY <1>2, <1>3, <1>4 DEF CountInv

LEMMA CountInvWorker ==
  ASSUME "ambiguous" \notin Faults, TypeInv, LedgerInv, TruthInv, CapInv, CountInv,
         NEW w \in Workers, WorkerStep(w)
  PROVE  CountInv'
<1> USE DEF At, Goto, envVars, sweepVars
<1>0. /\ pc \in [Workers -> WorkerPCs] /\ cur \in [Workers -> Keys \cup {None}]
      /\ answer \in [Workers -> Statuses \cup {"none"}]
      /\ row \in [Keys -> Statuses \cup {"none"}]
      /\ venue \in [Keys -> VenueStatuses \cup {"none"}]
  BY DEF TypeInv, TypeOK
<1>1. UNCHANGED swept
  BY DEF WorkerStep, ReadGroup, DropMalformed, KillSwitch, RiskGate, Insert,
     Prepare, PlaceOrder, RecordResult, MarkRejected, XAck
<1>2. CASE \/ ReadGroup(w) \/ DropMalformed(w) \/ KillSwitch(w)
           \/ RiskGate(w) \/ XAck(w)
  <2>1. UNCHANGED <<row, venue>>
    BY <1>2 DEF ReadGroup, DropMalformed, KillSwitch, RiskGate, XAck
  <2>2. \A v \in Workers : pc'[v] \in {"record", "reject"} =>
          pc'[v] = pc[v] /\ cur'[v] = cur[v] /\ answer'[v] = answer[v]
    BY <1>0, <1>2 DEF ReadGroup, DropMalformed, KillSwitch, RiskGate, XAck
  <2> QED BY <1>1, <2>1, <2>2, CountQuiet DEF IsOpen
<1>3. CASE Insert(w)
  <2>1. UNCHANGED <<venue, cur, answer>> /\ cur[w] \in Keys
    BY <1>3 DEF Insert, TypeInv, Processing
  <2>2. \A k \in Keys : row'[k] = row[k] \/ row'[k] = "new"
    BY <1>0, <1>3, <2>1 DEF Insert
  <2>3. \A v \in Workers : pc'[v] \in {"record", "reject"} => pc'[v] = pc[v]
    BY <1>0, <1>3 DEF Insert
  <2> QED BY <1>1, <2>1, <2>2, <2>3, CountQuiet DEF IsOpen, OpenSet
<1>4. CASE Prepare(w)
  <2>1. UNCHANGED <<row, venue, cur, answer>>
    BY <1>4 DEF Prepare
  <2>2. cur[w] \in Keys /\ venue[cur[w]] = "none"
    BY <1>4 DEF Prepare, TypeInv, Processing, LedgerInv, Unsent, Holds,
       TruthInv, UnsentUnknown
  <2>3. \A v \in Workers : /\ pc'[v] = "record" => pc[v] = "record"
                           /\ pc'[v] = "reject" => pc[v] = "reject" \/ v = w
    BY <1>0, <1>4 DEF Prepare
  <2>4. StillCounted'
    BY <1>1, <2>1 DEF CountInv, StillCounted, IsOpen
  <2>5. AnswersOpen' /\ RefusedGone'
    BY <2>1, <2>2, <2>3 DEF CountInv, AnswersOpen, RefusedGone, VenueOpen
  <2> QED BY <2>4, <2>5 DEF CountInv
<1>5. CASE PlaceOrder(w)
  <2>0. /\ cur[w] \in Keys /\ venue[cur[w]] = "none" /\ Owns(w)
    BY <1>5 DEF PlaceOrder, TypeInv, Processing, LedgerInv, Unsent, Holds, Owns,
       TruthInv, UnsentUnknown
  <2>1. UNCHANGED <<row, cur>>
    BY <1>5 DEF PlaceOrder
  <2>2. \A k \in Keys : k # cur[w] => venue'[k] = venue[k]
    BY <1>0, <1>5 DEF PlaceOrder
  <2>3. \A v \in Workers : v # w => pc'[v] = pc[v] /\ answer'[v] = answer[v]
    BY <1>0, <1>5 DEF PlaceOrder
  <2>4. \A v \in Workers : v # w /\ Owns(v) => cur[v] \in Keys /\ cur[v] # cur[w]
    BY <2>0 DEF CapInv, OwnedOnce, TypeInv, Processing, Owns
  <2>5. cur[w] \in swept \/ IsOpen(cur[w])
    BY <2>0 DEF CapInv, OwnedOpen
  <2>6. StillCounted'
    BY <1>1, <2>1, <2>2, <2>5 DEF CountInv, StillCounted, IsOpen
  <2>7. \/ /\ pc'[w] = "record"
           /\ \E s \in VenueStatuses : venue'[cur[w]] = s /\ answer'[w] = MapStatus(s)
        \/ pc'[w] = "reject" /\ venue' = venue
    BY <1>0, <1>5, <2>0 DEF PlaceOrder, Fails
  <2>8. pc'[w] = "record" /\ venue'[cur[w]] \in VenueOpen => answer'[w] \in OpenSet
    BY <2>7 DEF VenueOpen, MapStatus, OpenSet
  <2>9. pc'[w] = "reject" => venue'[cur[w]] \notin VenueOpen
    BY <2>0, <2>7 DEF VenueOpen
  <2>10. AnswersOpen'
    BY <2>1, <2>2, <2>3, <2>4, <2>8 DEF CountInv, AnswersOpen, Owns
  <2>11. RefusedGone'
    BY <2>1, <2>2, <2>3, <2>4, <2>9 DEF CountInv, RefusedGone, Owns
  <2> QED BY <2>6, <2>10, <2>11 DEF CountInv
<1>6. CASE RecordResult(w) \/ MarkRejected(w)
  <2>0. /\ cur[w] \in Keys /\ UNCHANGED <<venue, cur, answer>>
        /\ pc' = [pc EXCEPT ![w] = "ack"]
    BY <1>6 DEF RecordResult, MarkRejected, TypeInv, Processing
  <2>1. \A k \in Keys : k # cur[w] => row'[k] = row[k]
    BY <1>0, <1>6 DEF RecordResult, MarkRejected, UpdateStatus
  <2>2. venue[cur[w]] \in VenueOpen /\ IsOpen(cur[w]) => IsOpen(cur[w])'
    BY <1>0, <1>6, <2>0 DEF RecordResult, MarkRejected, UpdateStatus, IsOpen,
       CountInv, AnswersOpen, RefusedGone
  <2>3. \A v \in Workers : pc'[v] \in {"record", "reject"} => pc'[v] = pc[v]
    BY <1>0, <2>0
  <2>4. \A k \in Keys : venue[k] \in VenueOpen /\ IsOpen(k) => IsOpen(k)'
    BY <2>0, <2>1, <2>2 DEF IsOpen
  <2> QED BY <1>1, <2>0, <2>3, <2>4, CountQuiet
<1> QED
  BY <1>2, <1>3, <1>4, <1>5, <1>6 DEF WorkerStep

LEMMA CountInvNext ==
  ASSUME "ambiguous" \notin Faults, TypeInv, LedgerInv, TruthInv, CapInv, CountInv,
         [Next]_vars
  PROVE  CountInv'
<1>0. /\ row \in [Keys -> Statuses \cup {"none"}]
      /\ venue \in [Keys -> VenueStatuses \cup {"none"}]
  BY DEF TypeInv, TypeOK
<1>1. ASSUME NEW r \in Replicas, SweepStep(r) PROVE CountInv'
  <2>1. UNCHANGED <<venue, pc, cur, answer>>
    BY <1>1 DEF SweepStep, CollectOpen, GetOpenOrders, MarkUnknown, GetOrder,
       WriteTerminal, EndSweep, envVars
  <2>2. /\ swept \subseteq swept'
        /\ \A k \in Keys : row'[k] = row[k] \/ k \in swept'
    <3>1. CASE CollectOpen(r) \/ GetOpenOrders(r) \/ GetOrder(r) \/ EndSweep(r)
      BY <3>1 DEF CollectOpen, GetOpenOrders, GetOrder, EndSweep
    <3>2. CASE MarkUnknown(r)
      BY <1>0, <3>2 DEF MarkUnknown, UpdateStatus
    <3>3. CASE WriteTerminal(r)
      <4>1. sweep[r].key \in swept /\ UNCHANGED swept
        BY <3>3 DEF WriteTerminal, AtSweep, CapInv, SweptFirst
      <4> QED BY <1>0, <3>3, <4>1 DEF WriteTerminal, UpdateStatus
    <3> QED BY <1>1, <3>1, <3>2, <3>3 DEF SweepStep
  <2> QED BY <2>1, <2>2, CountQuiet DEF IsOpen
<1>2. ASSUME NEW k \in Keys, VenueMoves(k) PROVE CountInv'
  <2>1. UNCHANGED <<row, pc, cur, answer, swept>>
    BY <1>2 DEF VenueMoves, sweepVars
  <2>2. \A j \in Keys : venue'[j] \in VenueOpen => venue[j] \in VenueOpen
    BY <1>0, <1>2 DEF VenueMoves
  <2> QED BY <2>1, <2>2, CountQuiet DEF IsOpen
<1>3. ASSUME \/ \E r \in Replicas : SetGate(r) \/ Crash(r)
             \/ \E h \in BOOLEAN : SetHalted(h)
             \/ \E payload \in Keys \cup Junk : Submit(payload)
             \/ UNCHANGED vars
      PROVE  CountInv'
  <2>1. UNCHANGED <<row, venue, swept>>
    BY <1>3 DEF SetGate, Crash, SetHalted, Submit, vars, envVars, sweepVars
  <2>2. \A w \in Workers : pc'[w] \in {"record", "reject"} =>
          pc'[w] = pc[w] /\ cur'[w] = cur[w] /\ answer'[w] = answer[w]
    BY <1>3 DEF SetGate, Crash, SetHalted, Submit, vars
  <2> QED BY <2>1, <2>2, CountQuiet DEF IsOpen
<1> QED
  BY <1>1, <1>2, <1>3, CountInvWorker DEF Next, Halt, Resume

\* Unless an answer of the venue is lost, an order open at the venue and out of
\* the count the portfolio cap reads is one whose row a sweep set to unknown,
\* however stale the answers, whatever else fails and whichever replica crashes.
THEOREM OnlySweepsHide ==
  ASSUME "ambiguous" \notin Faults
  PROVE  Spec => []StillCounted
<1>1. Init => TruthInv /\ CapInv /\ CountInv
  <2> SUFFICES ASSUME Init PROVE CountInv
    BY TruthInvInit, CapInvInit
  <2> QED BY DEF Init, CountInv, StillCounted, AnswersOpen, RefusedGone, VenueOpen
<1>2. TypeInv /\ LedgerInv /\ TruthInv /\ CapInv /\ CountInv /\ [Next]_vars =>
        TruthInv' /\ CapInv' /\ CountInv'
  BY TruthInvNext, CapInvNext, CountInvNext
<1>3. CountInv => StillCounted
  BY DEF CountInv
<1> QED
  BY <1>1, <1>2, <1>3, TypeInvAlways, LedgerInvAlways, PTL DEF Spec

\* Where no sweep runs, none has set a row to unknown.
NoSweep == swept = {} /\ \A r \in Replicas : sweep[r] = IdleSweep

LEMMA NoSweepNext ==
  ASSUME Sweepers = {}, TypeInv, NoSweep, [Next]_vars
  PROVE  NoSweep'
<1>1. ASSUME NEW r \in Replicas PROVE ~SweepStep(r)
  <2>1. sweep[r].pc = "idle"
    BY DEF NoSweep, IdleSweep
  <2> QED BY <2>1 DEF SweepStep, CollectOpen, GetOpenOrders, MarkUnknown, GetOrder,
     WriteTerminal, EndSweep, AtSweep
<1>2. ASSUME NEW r \in Replicas, Crash(r) PROVE NoSweep'
  BY <1>2 DEF Crash, Sweep, NoSweep, TypeInv, TypeOK
<1>3. ASSUME NEW w \in Workers, WorkerStep(w) PROVE UNCHANGED sweepVars
  BY <1>3 DEF WorkerStep, ReadGroup, DropMalformed, KillSwitch, RiskGate, Insert,
     Prepare, PlaceOrder, RecordResult, MarkRejected, XAck
<1>4. CASE UNCHANGED sweepVars
  BY <1>4 DEF NoSweep, sweepVars
<1> QED
  BY <1>1, <1>2, <1>3, <1>4 DEF Next, Halt, Resume, SetHalted, SetGate, Submit,
     VenueMoves, vars

\* So where no sweep runs and no answer is lost, an order open at the venue is
\* in the count.
THEOREM OpenIsCounted ==
  ASSUME Sweepers = {}, "ambiguous" \notin Faults
  PROVE  Spec => []OpenOrdersCounted
<1>1. Init => NoSweep
  BY DEF Init, NoSweep
<1>2. TypeInv /\ NoSweep /\ [Next]_vars => NoSweep'
  BY NoSweepNext
<1>3. StillCounted /\ NoSweep => OpenOrdersCounted
  BY DEF StillCounted, NoSweep, OpenOrdersCounted
<1> QED
  BY <1>1, <1>2, <1>3, OnlySweepsHide, TypeInvAlways, PTL DEF Spec

==============================================================================
