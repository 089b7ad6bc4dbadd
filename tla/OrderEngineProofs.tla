-------------------------- MODULE OrderEngineProofs --------------------------
(***************************************************************************)
(* Theorems about OrderEngine, for every number of replicas, workers, keys *)
(* and books, every combination of faults and every bound.                 *)
(***************************************************************************)
EXTENDS OrderEngine, FiniteSetTheorems, TLAPS

-----------------------------------------------------------------------------
(* The type invariant, with what each program counter says of the other    *)
(* variables of its process.                                               *)

\* A worker past XREADGROUP has an entry in hand, within its batch.
Batches ==
  \A w \in Workers : pc[w] # "poll" =>
    lo[w] \in 1..hi[w] /\ hi[w] <= delivered

\* From the risk gate to the end of a command the worker knows its key.
Processing ==
  \A w \in Workers : pc[w] \notin {"poll", "next", "ack"} => cur[w] \in Keys

\* An answer is recorded only when there is one.
Answered == \A w \in Workers : pc[w] = "record" => answer[w] \in Statuses

\* A sweep that queries or writes has a key, and one that writes an answer.
Ready(s) ==
  /\ s.pc \in {"query", "write"} => s.key \in Keys
  /\ s.pc = "write" => s.got \in Statuses
Sweeping == \A r \in Replicas : Ready(sweep[r])

TypeInv == TypeOK /\ Batches /\ Processing /\ Answered /\ Sweeping

LEMMA MapStatusType == \A v \in VenueStatuses : MapStatus(v) \in Statuses
BY DEF VenueStatuses, MapStatus, Statuses


LEMMA TypeInvInit == Init => TypeInv
<1> SUFFICES ASSUME Init PROVE TypeInv
  OBVIOUS
<1>1. TypeOK
  <2>1. stream \in Seq(Keys \cup Junk) /\ delivered \in 0..Len(stream)
    BY DEF Init
  <2>2. sweep \in [Replicas -> Sweeps]
    BY DEF Init, Sweeps, IdleSweep, SweepPCs
  <2> QED
    BY <2>1, <2>2 DEF Init, TypeOK, WorkerPCs
<1>2. Batches /\ Processing /\ Answered
  BY DEF Init, Batches, Processing, Answered
<1>3. Sweeping
  BY DEF Init, Sweeping, IdleSweep, Ready
<1> QED
  BY <1>1, <1>2, <1>3 DEF TypeInv

LEMMA PublishType ==
  ASSUME NEW type \in EventTypes, NEW status \in Statuses,
         NEW key \in Keys \cup {None}, NEW strategy \in BOOLEAN,
         events \subseteq Events, Publish(type, status, key, strategy)
  PROVE  events' \subseteq Events
BY DEF Publish, Events

LEMMA RejectionType ==
  ASSUME events \subseteq Events, PublishRejection
  PROVE  events' \subseteq Events
BY PublishType DEF PublishRejection, EventTypes, Statuses

LEMMA RowType ==
  ASSUME row \in [Keys -> Statuses \cup {"none"}],
         NEW k \in Keys, NEW status \in Statuses,
         UpdateStatus(k, status) \/ UNCHANGED row
  PROVE  row' \in [Keys -> Statuses \cup {"none"}]
BY DEF UpdateStatus


LEMMA TypeInvWorker ==
  ASSUME TypeInv, NEW w \in Workers, WorkerStep(w)
  PROVE  TypeInv'
<1> SUFFICES TypeOK' /\ (Batches /\ Processing /\ Answered)' /\ Sweeping'
  BY DEF TypeInv
<1> USE DEF TypeInv, TypeOK, streamVars, envVars, sweepVars
<1>1. CASE ReadGroup(w)
  <2> USE <1>1 DEF ReadGroup, At, Goto
  <2>1. TypeOK'
    BY ConstantsOK DEF WorkerPCs
  <2>2. (Batches /\ Processing /\ Answered)'
    BY ConstantsOK DEF Batches, Processing, Answered, WorkerPCs
  <2>3. Sweeping'
    BY DEF Sweeping
  <2> QED BY <2>1, <2>2, <2>3
<1>2. CASE DropMalformed(w)
  <2> USE <1>2 DEF DropMalformed, At, Goto
  <2>1. TypeOK'
    BY DEF WorkerPCs
  <2>2. (Batches /\ Processing /\ Answered)'
    BY DEF Batches, Processing, Answered, WorkerPCs
  <2>3. Sweeping'
    BY DEF Sweeping
  <2> QED BY <2>1, <2>2, <2>3
<1>3. CASE KillSwitch(w)
  <2> USE <1>3 DEF KillSwitch, At, Goto, Works, Fails
  <2>1. TypeOK'
    <3>1. events' \subseteq Events
      BY RejectionType
    <3>2. pc' \in [Workers -> WorkerPCs]
      BY DEF WorkerPCs
    <3>3. cur' \in [Workers -> Keys \cup {None}] /\ failures' \in Nat
      OBVIOUS
    <3> QED
      BY <3>1, <3>2, <3>3
  <2>2. (Batches /\ Processing /\ Answered)'
    BY DEF Batches, Processing, Answered, WorkerPCs
  <2>3. Sweeping'
    BY DEF Sweeping
  <2> QED BY <2>1, <2>2, <2>3
<1>4. CASE RiskGate(w)
  <2> USE <1>4 DEF RiskGate, At, Goto, Works, Fails
  <2>1. TypeOK'
    <3>1. events' \subseteq Events
      BY RejectionType
    <3>2. pc' \in [Workers -> WorkerPCs]
      BY DEF WorkerPCs
    <3>3. cur' \in [Workers -> Keys \cup {None}] /\ failures' \in Nat
      OBVIOUS
    <3> QED
      BY <3>1, <3>2, <3>3
  <2>2. (Batches /\ Processing /\ Answered)'
    BY DEF Batches, Processing, Answered, WorkerPCs
  <2>3. Sweeping'
    BY DEF Sweeping
  <2> QED BY <2>1, <2>2, <2>3
<1>5. CASE Insert(w)
  <2> USE <1>5 DEF Insert, At, Goto, Works, Fails
  <2>0. cur[w] \in Keys
    BY DEF Processing
  <2>1. TypeOK'
    <3>1. pc' \in [Workers -> WorkerPCs]
      BY DEF WorkerPCs
    <3>2. UpdateStatus(cur[w], "new") \/ UNCHANGED row
      BY DEF UpdateStatus
    <3>3. row' \in [Keys -> Statuses \cup {"none"}]
      BY <2>0, <3>2, RowType DEF Statuses
    <3>4. failures' \in Nat
      OBVIOUS
    <3> QED
      BY <3>1, <3>3, <3>4
  <2>2. (Batches /\ Processing /\ Answered)'
    BY DEF Batches, Processing, Answered, WorkerPCs
  <2>3. Sweeping'
    BY DEF Sweeping
  <2> QED BY <2>1, <2>2, <2>3
<1>6. CASE Prepare(w)
  <2> USE <1>6 DEF Prepare, At, Goto
  <2>1. TypeOK'
    BY DEF WorkerPCs
  <2>2. (Batches /\ Processing /\ Answered)'
    BY DEF Batches, Processing, Answered, WorkerPCs
  <2>3. Sweeping'
    BY DEF Sweeping
  <2> QED BY <2>1, <2>2, <2>3
<1>7. CASE PlaceOrder(w)
  <2> USE <1>7, ConstantsOK DEF PlaceOrder, At, Goto, Works, Fails
  <2>1. TypeOK'
    <3>1. pc' \in [Workers -> WorkerPCs]
      BY DEF WorkerPCs
    <3>2. venue' \in [Keys -> VenueStatuses \cup {"none"}]
      OBVIOUS
    <3>3. answer' \in [Workers -> Statuses \cup {"none"}]
      <4>1. \/ answer' = answer
            \/ \E v \in VenueStatuses :
                 answer' = [answer EXCEPT ![w] = MapStatus(v)]
        OBVIOUS
      <4>2. CASE answer' = answer
        BY <4>2
      <4>3. ASSUME NEW v \in VenueStatuses,
                   answer' = [answer EXCEPT ![w] = MapStatus(v)]
            PROVE  answer' \in [Workers -> Statuses \cup {"none"}]
        <5>1. MapStatus(v) \in Statuses
          BY MapStatusType
        <5> HIDE <1>7 DEF PlaceOrder
        <5> QED BY <4>3, <5>1
      <4> QED BY <4>1, <4>2, <4>3
    <3>4. sends' \in [Keys -> Nat]
      <4>1. sends' = [sends EXCEPT ![cur[w]] = sends[cur[w]] + 1]
        OBVIOUS
      <4>2. cur[w] \in Keys
        BY DEF Processing
      <4> HIDE <1>7 DEF PlaceOrder
      <4>3. sends[cur[w]] + 1 \in Nat
        BY <4>2
      <4> QED BY <4>1, <4>2, <4>3
    <3>5. sentClosed' \in [Replicas -> Nat] /\ sentHalted' \in Nat
      OBVIOUS
    <3>6. failures' \in Nat
      OBVIOUS
    <3> QED
      BY <3>1, <3>2, <3>3, <3>4, <3>5, <3>6
  <2>2. (Batches /\ Processing /\ Answered)'
    <3>1. Batches'
      BY DEF Batches, WorkerPCs
    <3>2. Processing'
      BY DEF Processing, WorkerPCs
    <3>3. Answered'
      BY MapStatusType DEF Answered, WorkerPCs
    <3> QED BY <3>1, <3>2, <3>3
  <2>3. Sweeping'
    BY DEF Sweeping
  <2> QED BY <2>1, <2>2, <2>3
<1>8. CASE RecordResult(w)
  <2> USE <1>8 DEF RecordResult, At, Goto, Works, Fails
  <2>0. cur[w] \in Keys /\ answer[w] \in Statuses
    BY DEF Processing, Answered
  <2>1. TypeOK'
    <3>1. events' \subseteq Events
      BY <2>0, PublishType DEF EventTypes
    <3>2. pc' \in [Workers -> WorkerPCs]
      BY DEF WorkerPCs
    <3>3. row' \in [Keys -> Statuses \cup {"none"}]
      BY <2>0, RowType
    <3>4. failures' \in Nat
      OBVIOUS
    <3> QED
      BY <3>1, <3>2, <3>3, <3>4
  <2>2. (Batches /\ Processing /\ Answered)'
    BY DEF Batches, Processing, Answered, WorkerPCs
  <2>3. Sweeping'
    BY DEF Sweeping
  <2> QED BY <2>1, <2>2, <2>3
<1>9. CASE MarkRejected(w)
  <2> USE <1>9 DEF MarkRejected, At, Goto, Works, Fails
  <2>0. cur[w] \in Keys
    BY DEF Processing
  <2>1. TypeOK'
    <3>1. events' \subseteq Events
      BY <2>0, PublishType DEF EventTypes, Statuses
    <3>2. pc' \in [Workers -> WorkerPCs]
      BY DEF WorkerPCs
    <3>3. row' \in [Keys -> Statuses \cup {"none"}]
      BY <2>0, RowType DEF Statuses
    <3>4. failures' \in Nat
      OBVIOUS
    <3> QED
      BY <3>1, <3>2, <3>3, <3>4
  <2>2. (Batches /\ Processing /\ Answered)'
    BY DEF Batches, Processing, Answered, WorkerPCs
  <2>3. Sweeping'
    BY DEF Sweeping
  <2> QED BY <2>1, <2>2, <2>3
<1>10. CASE XAck(w)
  <2> USE <1>10 DEF XAck, At, Goto, Works, Fails
  <2>0. lo[w] \in 1..hi[w] /\ hi[w] <= delivered
    BY DEF Batches
  <2>1. TypeOK'
    <3>1. pc' \in [Workers -> WorkerPCs]
      BY DEF WorkerPCs
    <3>2. acked' \subseteq 1..Len(stream)
      <4>1. lo[w] \in 1..Len(stream)
        BY <2>0
      <4>2. acked' = acked \cup {lo[w]} \/ acked' = acked
        BY DEF Acknowledged
      <4> QED BY <4>1, <4>2
    <3>3. lo' \in [Workers -> Nat] /\ failures' \in Nat
      OBVIOUS
    <3>4. cur' \in [Workers -> Keys \cup {None}]
      OBVIOUS
    <3>5. answer' \in [Workers -> Statuses \cup {"none"}]
      OBVIOUS
    <3> QED
      BY <3>1, <3>2, <3>3, <3>4, <3>5
  <2>2. (Batches /\ Processing /\ Answered)'
    BY <2>0 DEF Batches, Processing, Answered, WorkerPCs
  <2>3. Sweeping'
    BY DEF Sweeping
  <2> QED BY <2>1, <2>2, <2>3
<1> QED
  BY <1>1, <1>2, <1>3, <1>4, <1>5, <1>6, <1>7, <1>8, <1>9, <1>10
     DEF WorkerStep

LEMMA SweepType ==
  ASSUME TypeInv, NEW r \in Replicas, NEW new \in Sweeps, Ready(new),
         Sweep(r, new)
  PROVE  sweep' \in [Replicas -> Sweeps] /\ Sweeping'
BY DEF TypeInv, TypeOK, Sweeping, Sweep, Ready

LEMMA TypeInvSweep ==
  ASSUME TypeInv, NEW r \in Replicas, SweepStep(r)
  PROVE  TypeInv'
<1> DEFINE s == sweep[r]
<1>7. (Batches /\ Processing /\ Answered)'
  <2>1. UNCHANGED <<streamVars, pc, cur, answer>>
    BY DEF SweepStep, CollectOpen, GetOpenOrders, MarkUnknown, GetOrder,
       WriteTerminal, EndSweep
  <2> QED BY <2>1 DEF Batches, Processing, Answered, TypeInv, streamVars
<1>0. s \in Sweeps /\ Ready(s)
  BY DEF TypeInv, TypeOK, Sweeping
<1> SUFFICES TypeOK' /\ Sweeping'
  BY <1>7 DEF TypeInv
<1> USE DEF TypeOK, AtSweep, streamVars, envVars, sweepVars
<1>1. CASE CollectOpen(r)
  <2> DEFINE new == [s EXCEPT !.pc = "books", !.todo = OpenRows]
  <2>1. new \in Sweeps /\ Ready(new)
    BY <1>0 DEF OpenRows, Sweeps, SweepPCs, Ready
  <2>2. Sweep(r, new)
    BY <1>1 DEF CollectOpen
  <2>3. sweep' \in [Replicas -> Sweeps] /\ Sweeping'
    BY <2>1, <2>2, SweepType
  <2> QED BY <1>1, <2>3 DEF CollectOpen, TypeInv
<1>2. CASE GetOpenOrders(r)
  <2> USE <1>2 DEF GetOpenOrders, Works, Fails
  <2>1. PICK listed \in SUBSET Keys, gone \in SUBSET Keys :
          \/ Sweep(r, [s EXCEPT !.todo = @ \ listed, !.missing = gone])
          \/ Sweep(r, [s EXCEPT !.todo = @ \ listed])
    <3>1. PICK k \in sweep[r].todo :
           LET listed == {j \in sweep[r].todo : Book[j] = Book[k]}
               gone   == {j \in listed : venue[j] \notin VenueOpen}
           IN \/ Sweep(r, [s EXCEPT !.todo = @ \ listed, !.missing = gone])
              \/ Sweep(r, [s EXCEPT !.todo = @ \ listed])
      OBVIOUS
    <3> QED BY <1>0, <3>1 DEF Sweeps
  <2>2. PICK new \in Sweeps : Sweep(r, new) /\ Ready(new)
    <3> DEFINE one == [s EXCEPT !.todo = @ \ listed, !.missing = gone]
               two == [s EXCEPT !.todo = @ \ listed]
    <3>1. one \in Sweeps /\ Ready(one)
      BY <1>0 DEF Sweeps, Ready
    <3>2. two \in Sweeps /\ Ready(two)
      BY <1>0 DEF Sweeps, Ready
    <3> QED BY <2>1, <3>1, <3>2
  <2>3. sweep' \in [Replicas -> Sweeps] /\ Sweeping'
    BY <2>2, SweepType
  <2> QED BY <2>3 DEF TypeInv
<1>3. CASE MarkUnknown(r)
  <2> USE <1>3 DEF MarkUnknown, Works, Fails
  <2>1. PICK k \in s.missing :
          /\ UpdateStatus(k, "unknown") \/ UNCHANGED row
          /\ failures' \in {failures, failures + 1}
          /\ swept' \in {swept, swept \cup {k}}
          /\ \/ Sweep(r, [s EXCEPT !.pc = "query", !.key = k, !.missing = @ \ {k}])
             \/ Sweep(r, [s EXCEPT !.missing = @ \ {k}])
    OBVIOUS
  <2>2. k \in Keys
    BY <1>0 DEF Sweeps
  <2>3. PICK new \in Sweeps : Sweep(r, new) /\ Ready(new)
    <3> DEFINE one == [s EXCEPT !.pc = "query", !.key = k, !.missing = @ \ {k}]
               two == [s EXCEPT !.missing = @ \ {k}]
    <3>1. one \in Sweeps /\ Ready(one)
      BY <1>0, <2>2 DEF Sweeps, Ready, SweepPCs
    <3>2. two \in Sweeps /\ Ready(two)
      BY <1>0 DEF Sweeps, Ready
    <3> QED BY <2>1, <3>1, <3>2
  <2>4. sweep' \in [Replicas -> Sweeps] /\ Sweeping'
    BY <2>3, SweepType
  <2>5. row' \in [Keys -> Statuses \cup {"none"}]
    BY <2>1, <2>2, RowType DEF Statuses, TypeInv
  <2>6. failures' \in Nat /\ swept' \subseteq Keys
    BY <2>1, <2>2 DEF TypeInv
  <2> QED BY <2>4, <2>5, <2>6 DEF TypeInv
<1>4. CASE GetOrder(r)
  <2> USE <1>4 DEF GetOrder, Works, Fails
  <2>0. s.key \in Keys
    BY <1>0 DEF Ready
  <2>1. \/ /\ venue[s.key] # "none"
           /\ Sweep(r, [s EXCEPT !.pc = "write",
                                 !.got = MapStatus(venue[s.key])])
        \/ Sweep(r, [s EXCEPT !.pc = "books", !.key = None])
    OBVIOUS
  <2>2. PICK new \in Sweeps : Sweep(r, new) /\ Ready(new)
    <3> DEFINE one == [s EXCEPT !.pc = "write", !.got = MapStatus(venue[s.key])]
               two == [s EXCEPT !.pc = "books", !.key = None]
    <3>1. ASSUME venue[s.key] # "none" PROVE one \in Sweeps /\ Ready(one)
      <4>1. MapStatus(venue[s.key]) \in Statuses
        BY <2>0, <3>1, MapStatusType DEF TypeInv
      <4> QED BY <1>0, <2>0, <4>1 DEF Sweeps, Ready, SweepPCs
    <3>2. two \in Sweeps /\ Ready(two)
      BY <1>0 DEF Sweeps, Ready, SweepPCs
    <3> QED BY <2>1, <3>1, <3>2
  <2>3. sweep' \in [Replicas -> Sweeps] /\ Sweeping'
    BY <2>2, SweepType
  <2>4. failures' \in Nat
    BY DEF TypeInv
  <2> QED BY <2>3, <2>4 DEF TypeInv
<1>5. CASE WriteTerminal(r)
  <2> USE <1>5 DEF WriteTerminal, Works, Fails
  <2>0. s.key \in Keys /\ s.got \in Statuses
    BY <1>0 DEF Ready
  <2> DEFINE new == [s EXCEPT !.pc = "books", !.key = None, !.got = "none"]
  <2>1. new \in Sweeps /\ Ready(new) /\ Sweep(r, new)
    BY <1>0 DEF Sweeps, SweepPCs, Ready
  <2>2. sweep' \in [Replicas -> Sweeps] /\ Sweeping'
    BY <2>1, SweepType
  <2>3. row' \in [Keys -> Statuses \cup {"none"}]
    BY <2>0, RowType DEF TypeInv
  <2>4. events' \subseteq Events
    BY <2>0, PublishType DEF Suffix, EventTypes, TypeInv
  <2>5. failures' \in Nat
    BY DEF TypeInv
  <2> QED BY <2>2, <2>3, <2>4, <2>5 DEF TypeInv
<1>6. CASE EndSweep(r)
  <2>1. IdleSweep \in Sweeps /\ Ready(IdleSweep)
    BY DEF Sweeps, SweepPCs, IdleSweep, Ready
  <2>2. sweep' \in [Replicas -> Sweeps] /\ Sweeping'
    BY <1>6, <2>1, SweepType DEF EndSweep
  <2> QED BY <1>6, <2>2 DEF EndSweep, TypeInv
<1> QED
  BY <1>1, <1>2, <1>3, <1>4, <1>5, <1>6 DEF SweepStep

LEMMA TypeInvNext == TypeInv /\ [Next]_vars => TypeInv'
<1> SUFFICES ASSUME TypeInv, [Next]_vars PROVE TypeInv'
  OBVIOUS
<1> USE DEF TypeInv, TypeOK, streamVars, envVars, sweepVars
<1>1. ASSUME NEW payload \in Keys \cup Junk, Submit(payload)
      PROVE  TypeInv'
  <2>1. stream' \in Seq(Keys \cup Junk) /\ Len(stream') = Len(stream) + 1
    BY <1>1 DEF Submit
  <2>2. delivered' \in 0..Len(stream') /\ acked' \subseteq 1..Len(stream')
    BY <1>1, <2>1 DEF Submit
  <2> QED BY <1>1, <2>1, <2>2
    DEF Submit, Batches, Processing, Answered, Sweeping
<1>2. ASSUME NEW r \in Replicas, SetGate(r) PROVE TypeInv'
  BY <1>2 DEF SetGate, Batches, Processing, Answered, Sweeping
<1>3. ASSUME NEW r \in Replicas, Crash(r) PROVE TypeInv'
  <2> USE <1>3 DEF Crash
  <2>1. pc' \in [Workers -> WorkerPCs]
    BY DEF WorkerPCs
  <2>2. IdleSweep \in Sweeps /\ Ready(IdleSweep)
    BY DEF Sweeps, SweepPCs, IdleSweep, Ready
  <2>3. sweep' \in [Replicas -> Sweeps] /\ Sweeping'
    BY <2>2, SweepType
  <2>4. failures' \in Nat
    BY DEF Fails
  <2>5. TypeOK'
    BY <2>1, <2>3, <2>4
  <2>6. Batches'
    BY DEF Batches
  <2>7. Processing' /\ Answered'
    BY DEF Processing, Answered
  <2> QED BY <2>3, <2>5, <2>6, <2>7
<1>4. ASSUME NEW k \in Keys, VenueMoves(k) PROVE TypeInv'
  BY <1>4 DEF VenueMoves, Batches, Processing, Answered, Sweeping
<1>5. ASSUME NEW h \in BOOLEAN, SetHalted(h) PROVE TypeInv'
  BY <1>5 DEF SetHalted, Batches, Processing, Answered, Sweeping
<1>6. CASE UNCHANGED vars
  BY <1>6 DEF vars, Batches, Processing, Answered, Sweeping
<1> QED
  BY <1>1, <1>2, <1>3, <1>4, <1>5, <1>6, TypeInvWorker, TypeInvSweep
     DEF Next, Halt, Resume

LEMMA TypeInvAlways == Spec => []TypeInv
BY TypeInvInit, TypeInvNext, PTL DEF Spec

\* Every variable keeps its type in every behaviour of the engine: nothing
\* but the six statuses of order.go reaches order_log, and no entry beyond the
\* ones delivered is acknowledged.
THEOREM TypeCorrect == Spec => []TypeOK
BY TypeInvAlways, PTL DEF TypeInv
==============================================================================
