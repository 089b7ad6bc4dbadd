----------------------------- MODULE LedgerProofs -----------------------------
(***************************************************************************)
(* order_log as a write-ahead ledger: no clientOrderId is sent twice, and  *)
(* OrderEngine implements OrderLedger.                                     *)
(***************************************************************************)
EXTENDS OrderEngineProofs

\* A worker that has inserted a row owns it until the command ends; until the
\* request is sent it also holds the right to send it.
Owns(w)  == pc[w] \in {"prepare", "send", "record", "reject"}
Holds(w) == pc[w] \in {"prepare", "send"}

\* What a sweep works on has a row.
Listed ==
  \A r \in Replicas :
    /\ \A k \in sweep[r].todo \cup sweep[r].missing : row[k] # "none"
    /\ sweep[r].pc \in {"query", "write"} => row[sweep[r].key] # "none"

\* What a worker owns, and what was sent, has a row.
Logged ==
  /\ \A w \in Workers : Owns(w) => row[cur[w]] # "none"
  /\ \A k \in Keys : sends[k] > 0 => row[k] # "none"

\* A key held has not been sent, and no two workers hold the same one.
Unsent    == \A w \in Workers : Holds(w) => sends[cur[w]] = 0
Exclusive == \A v, w \in Workers :
               Holds(v) /\ Holds(w) /\ cur[v] = cur[w] => v = w

LedgerInv == Listed /\ Logged /\ Unsent /\ Exclusive /\ AtMostOnceSent

LEMMA LedgerInvInit == Init => LedgerInv
BY DEF Init, LedgerInv, Listed, Logged, Unsent, Exclusive, AtMostOnceSent,
   Owns, Holds, IdleSweep

\* A row is never removed, because every status that is written is one of
\* Statuses, which "none" is not.
LEMMA RowsStay ==
  ASSUME TypeInv, NEW k \in Keys, NEW status \in Statuses,
         UpdateStatus(k, status) \/ UNCHANGED row
  PROVE  \A j \in Keys : row[j] # "none" => row'[j] # "none"
BY DEF UpdateStatus, TypeInv, TypeOK, Statuses

\* The invariant holds after a step that keeps sends, removes no row, and
\* lets no worker hold or own what it did not.
LEMMA Quiet ==
  ASSUME TypeInv, LedgerInv, UNCHANGED sends, Listed',
         \A k \in Keys : row[k] # "none" => row'[k] # "none",
         \A w \in Workers : Owns(w)' =>
           Owns(w) /\ cur'[w] = cur[w] /\ (Holds(w)' => Holds(w))
  PROVE  LedgerInv'
<1>1. \A w \in Workers : Owns(w) => cur[w] \in Keys
  BY DEF TypeInv, Processing, Owns
<1>2. \A w \in Workers : Holds(w)' => Owns(w)'
  BY DEF Owns, Holds
<1>3. Logged'
  BY <1>1 DEF LedgerInv, Logged
<1>4. Unsent' /\ Exclusive'
  BY <1>2 DEF LedgerInv, Unsent, Exclusive
<1> QED
  BY <1>3, <1>4 DEF LedgerInv, AtMostOnceSent

\* A sweep that moves on keeps what it works on, or takes up open rows.
LEMMA ListedStays ==
  ASSUME TypeInv, LedgerInv, UNCHANGED sweep,
         \A k \in Keys : row[k] # "none" => row'[k] # "none"
  PROVE  Listed'
<1>1. \A r \in Replicas : sweep[r] \in Sweeps /\ Ready(sweep[r])
  BY DEF TypeInv, TypeOK, Sweeping
<1> QED
  BY <1>1 DEF LedgerInv, Listed, Sweeps, Ready

LEMMA LedgerInvWorker ==
  ASSUME TypeInv, LedgerInv, NEW w \in Workers, WorkerStep(w)
  PROVE  LedgerInv'
<1> USE DEF At, Goto, envVars, sweepVars
<1>0. pc \in [Workers -> WorkerPCs] /\ cur \in [Workers -> Keys \cup {None}]
      /\ row \in [Keys -> Statuses \cup {"none"}] /\ sends \in [Keys -> Nat]
  BY DEF TypeInv, TypeOK
<1>1. CASE \/ ReadGroup(w) \/ DropMalformed(w) \/ KillSwitch(w)
           \/ RiskGate(w) \/ Prepare(w) \/ XAck(w)
  <2>1. UNCHANGED <<row, sends, sweep>>
    BY <1>1 DEF ReadGroup, DropMalformed, KillSwitch, RiskGate, Prepare, XAck
  <2>2. \A v \in Workers : Owns(v)' =>
          Owns(v) /\ cur'[v] = cur[v] /\ (Holds(v)' => Holds(v))
    BY <1>0, <1>1 DEF ReadGroup, DropMalformed, KillSwitch, RiskGate, Prepare,
       XAck, Owns, Holds
  <2>3. Listed'
    BY <2>1, ListedStays
  <2> QED BY <2>1, <2>2, <2>3, Quiet
<1>2. CASE Insert(w)
  <2>0. cur[w] \in Keys
    BY <1>2 DEF Insert, TypeInv, Processing
  <2>1. UNCHANGED <<sends, sweep, cur>>
    BY <1>2 DEF Insert
  <2>2. UpdateStatus(cur[w], "new") \/ UNCHANGED row
    BY <1>2 DEF Insert, UpdateStatus
  <2>3. \A j \in Keys : row[j] # "none" => row'[j] # "none"
    BY <2>0, <2>2, RowsStay DEF Statuses
  <2>4. Listed'
    BY <2>1, <2>3, ListedStays
  <2>5. CASE pc'[w] # "prepare"
    <3>1. \A v \in Workers : Owns(v)' =>
            Owns(v) /\ cur'[v] = cur[v] /\ (Holds(v)' => Holds(v))
      BY <1>0, <1>2, <2>5 DEF Insert, Owns, Holds
    <3> QED BY <2>1, <2>3, <2>4, <3>1, Quiet
  <2>6. CASE pc'[w] = "prepare"
    <3>1. row[cur[w]] = "none" /\ row' = [row EXCEPT ![cur[w]] = "new"]
          /\ pc' = [pc EXCEPT ![w] = "prepare"]
      BY <1>0, <1>2, <2>6 DEF Insert, IsDuplicate
    <3>2. sends[cur[w]] = 0
      BY <1>0, <2>0, <3>1 DEF LedgerInv, Logged
    <3>3. \A v \in Workers : Holds(v) => cur[v] # cur[w]
      BY <3>1 DEF LedgerInv, Logged, Owns, Holds
    <3>4. \A v \in Workers : Owns(v) => cur[v] \in Keys
      BY DEF TypeInv, Processing, Owns
    <3>5. Logged'
      BY <1>0, <2>0, <2>1, <2>3, <3>1, <3>4 DEF LedgerInv, Logged, Owns
    <3>6. Unsent' /\ Exclusive'
      BY <1>0, <2>1, <3>1, <3>2, <3>3
         DEF LedgerInv, Unsent, Exclusive, Holds
    <3> QED BY <2>1, <2>4, <3>5, <3>6 DEF LedgerInv, AtMostOnceSent
  <2> QED BY <2>5, <2>6
<1>3. CASE PlaceOrder(w)
  <2>0. cur[w] \in Keys /\ Holds(w) /\ Owns(w)
    BY <1>3 DEF PlaceOrder, TypeInv, Processing, Holds, Owns
  <2>1. UNCHANGED <<row, sweep, cur>>
        /\ sends' = [sends EXCEPT ![cur[w]] = sends[cur[w]] + 1]
        /\ pc' \in {[pc EXCEPT ![w] = "record"], [pc EXCEPT ![w] = "reject"]}
    BY <1>3 DEF PlaceOrder
  <2>2. sends[cur[w]] = 0 /\ row[cur[w]] # "none"
    BY <2>0 DEF LedgerInv, Unsent, Logged
  <2>3. \A v \in Workers : Holds(v)' => Holds(v) /\ cur[v] # cur[w]
    BY <1>0, <2>0, <2>1 DEF LedgerInv, Exclusive, Holds
  <2>4. \A v \in Workers : Owns(v)' => Owns(v)
    BY <1>0, <2>0, <2>1 DEF Owns
  <2>5. Listed'
    BY <2>1, ListedStays
  <2>6. Logged'
    BY <1>0, <2>0, <2>1, <2>2, <2>4 DEF LedgerInv, Logged
  <2>7. Unsent'
    BY <1>0, <2>1, <2>3 DEF LedgerInv, Unsent
  <2>8. Exclusive'
    BY <2>1, <2>3 DEF LedgerInv, Exclusive
  <2>9. AtMostOnceSent'
    BY <1>0, <2>0, <2>1, <2>2 DEF LedgerInv, AtMostOnceSent
  <2> QED BY <2>5, <2>6, <2>7, <2>8, <2>9 DEF LedgerInv
<1>4. CASE RecordResult(w) \/ MarkRejected(w)
  <2>0. cur[w] \in Keys /\ UNCHANGED <<sends, sweep, cur>>
    BY <1>4 DEF RecordResult, MarkRejected, TypeInv, Processing
  <2>1. \E status \in Statuses : UpdateStatus(cur[w], status) \/ UNCHANGED row
    BY <1>4 DEF RecordResult, MarkRejected, TypeInv, Answered, Statuses
  <2>2. \A j \in Keys : row[j] # "none" => row'[j] # "none"
    BY <2>0, <2>1, RowsStay
  <2>3. Listed'
    BY <2>0, <2>2, ListedStays
  <2>4. \A v \in Workers : Owns(v)' =>
          Owns(v) /\ cur'[v] = cur[v] /\ (Holds(v)' => Holds(v))
    BY <1>0, <1>4, <2>0 DEF RecordResult, MarkRejected, Owns, Holds
  <2> QED BY <2>0, <2>2, <2>3, <2>4, Quiet
<1> QED
  BY <1>1, <1>2, <1>3, <1>4 DEF WorkerStep

\* A sweep that moves to new keeps Listed when everything new names has a row.
LEMMA ListedMoves ==
  ASSUME TypeInv, LedgerInv, NEW r \in Replicas, NEW new \in Sweeps,
         Ready(new), Sweep(r, new),
         \A k \in new.todo \cup new.missing : row[k] # "none",
         new.pc \in {"query", "write"} => row[new.key] # "none",
         \A k \in Keys : row[k] # "none" => row'[k] # "none"
  PROVE  Listed'
<1>1. \A q \in Replicas : sweep[q] \in Sweeps /\ Ready(sweep[q])
  BY DEF TypeInv, TypeOK, Sweeping
<1>2. \A q \in Replicas : sweep'[q] = IF q = r THEN new ELSE sweep[q]
  BY DEF Sweep, TypeInv, TypeOK
<1>3. \A k \in new.todo \cup new.missing : k \in Keys
  BY DEF Sweeps
<1>4. \A q \in Replicas : \A k \in sweep[q].todo \cup sweep[q].missing :
        k \in Keys /\ row[k] # "none"
  BY <1>1 DEF LedgerInv, Listed, Sweeps
<1>5. \A q \in Replicas : \A k \in sweep'[q].todo \cup sweep'[q].missing :
        row'[k] # "none"
  BY <1>2, <1>3, <1>4
<1>6. \A q \in Replicas : sweep'[q].pc \in {"query", "write"} =>
        row'[sweep'[q].key] # "none"
  BY <1>1, <1>2 DEF LedgerInv, Listed, Ready
<1> QED
  BY <1>5, <1>6 DEF Listed

LEMMA LedgerInvSweep ==
  ASSUME TypeInv, LedgerInv, NEW r \in Replicas, SweepStep(r)
  PROVE  LedgerInv'
<1> DEFINE s == sweep[r]
<1>0. s \in Sweeps /\ Ready(s) /\ s.todo \subseteq Keys /\ s.missing \subseteq Keys
      /\ \A k \in s.todo \cup s.missing : row[k] # "none"
  BY DEF TypeInv, TypeOK, Sweeping, Sweeps, LedgerInv, Listed
<1>1. UNCHANGED <<pc, cur, sends>>
  BY DEF SweepStep, CollectOpen, GetOpenOrders, MarkUnknown, GetOrder,
     WriteTerminal, EndSweep, envVars
<1>2. \A w \in Workers : Owns(w)' =>
        Owns(w) /\ cur'[w] = cur[w] /\ (Holds(w)' => Holds(w))
  BY <1>1 DEF Owns, Holds
<1>3. SUFFICES Listed' /\ \A k \in Keys : row[k] # "none" => row'[k] # "none"
  BY <1>1, <1>2, Quiet
<1> USE DEF AtSweep
<1>4. CASE CollectOpen(r)
  <2> DEFINE new == [s EXCEPT !.pc = "books", !.todo = OpenRows]
  <2>1. new \in Sweeps /\ Ready(new) /\ new.pc = "books"
        /\ new.todo = OpenRows /\ new.missing = s.missing
    BY <1>0 DEF OpenRows, Sweeps, SweepPCs, Ready
  <2>2. Sweep(r, new) /\ UNCHANGED row
    BY <1>4 DEF CollectOpen
  <2>3. \A k \in OpenRows : row[k] # "none"
    BY DEF OpenRows, IsOpen, OpenSet
  <2>4. Listed'
    BY <1>0, <2>1, <2>2, <2>3, ListedMoves
  <2> QED BY <2>2, <2>4
<1>5. CASE GetOpenOrders(r)
  <2>0. s.pc = "books" /\ UNCHANGED row
    BY <1>5 DEF GetOpenOrders
  <2>1. PICK k \in s.todo :
         LET listed == {j \in s.todo : Book[j] = Book[k]}
             gone   == {j \in listed : venue[j] \notin VenueOpen}
         IN \/ Sweep(r, [s EXCEPT !.todo = @ \ listed, !.missing = gone])
            \/ Sweep(r, [s EXCEPT !.todo = @ \ listed])
    BY <1>5 DEF GetOpenOrders
  <2>2. PICK listed \in SUBSET s.todo, gone \in SUBSET s.todo :
          \/ Sweep(r, [s EXCEPT !.todo = @ \ listed, !.missing = gone])
          \/ Sweep(r, [s EXCEPT !.todo = @ \ listed])
    BY <2>1
  <2>3. PICK new \in Sweeps :
          /\ Sweep(r, new) /\ new.pc = "books"
          /\ new.todo \cup new.missing \subseteq s.todo \cup s.missing
    <3> DEFINE one == [s EXCEPT !.todo = @ \ listed, !.missing = gone]
               two == [s EXCEPT !.todo = @ \ listed]
    <3>1. one \in Sweeps /\ one.pc = "books"
          /\ one.todo \cup one.missing \subseteq s.todo \cup s.missing
      BY <1>0, <2>0 DEF Sweeps
    <3>2. two \in Sweeps /\ two.pc = "books"
          /\ two.todo \cup two.missing \subseteq s.todo \cup s.missing
      BY <1>0, <2>0 DEF Sweeps
    <3> QED BY <2>2, <3>1, <3>2
  <2>4. Ready(new)
    BY <2>3 DEF Ready
  <2>5. Listed'
    BY <1>0, <2>0, <2>3, <2>4, ListedMoves
  <2> QED BY <2>0, <2>5
<1>6. CASE MarkUnknown(r)
  <2>1. PICK k \in s.missing :
          /\ UpdateStatus(k, "unknown") \/ UNCHANGED row
          /\ \/ Sweep(r, [s EXCEPT !.pc = "query", !.key = k, !.missing = @ \ {k}])
             \/ Sweep(r, [s EXCEPT !.missing = @ \ {k}])
    BY <1>6 DEF MarkUnknown
  <2>2. k \in Keys /\ s.pc = "books"
    BY <1>0, <1>6 DEF MarkUnknown
  <2>3. \A j \in Keys : row[j] # "none" => row'[j] # "none"
    BY <2>1, <2>2, RowsStay DEF Statuses
  <2>4. PICK new \in Sweeps :
          /\ Sweep(r, new) /\ Ready(new)
          /\ new.todo \cup new.missing \subseteq s.todo \cup s.missing
          /\ new.pc \in {"query", "write"} => new.key = k
    <3> DEFINE one == [s EXCEPT !.pc = "query", !.key = k, !.missing = @ \ {k}]
               two == [s EXCEPT !.missing = @ \ {k}]
    <3>1. one \in Sweeps /\ Ready(one) /\ one.key = k
          /\ one.todo \cup one.missing \subseteq s.todo \cup s.missing
      BY <1>0, <2>2 DEF Sweeps, SweepPCs, Ready
    <3>2. two \in Sweeps /\ Ready(two) /\ two.pc = "books"
          /\ two.todo \cup two.missing \subseteq s.todo \cup s.missing
      BY <1>0, <2>2 DEF Sweeps, Ready
    <3> QED BY <2>1, <3>1, <3>2
  <2>5. Listed'
    BY <1>0, <2>3, <2>4, ListedMoves
  <2> QED BY <2>3, <2>5
<1>7. CASE GetOrder(r)
  <2>0. s.pc = "query" /\ s.key \in Keys /\ row[s.key] # "none" /\ UNCHANGED row
    BY <1>0, <1>7 DEF GetOrder, Ready, LedgerInv, Listed
  <2>1. \/ /\ venue[s.key] # "none"
           /\ Sweep(r, [s EXCEPT !.pc = "write",
                                 !.got = MapStatus(venue[s.key])])
        \/ Sweep(r, [s EXCEPT !.pc = "books", !.key = None])
    BY <1>7 DEF GetOrder
  <2>2. PICK new \in Sweeps :
          /\ Sweep(r, new) /\ Ready(new)
          /\ new.todo = s.todo /\ new.missing = s.missing
          /\ new.pc \in {"query", "write"} => new.key = s.key
    <3> DEFINE one == [s EXCEPT !.pc = "write", !.got = MapStatus(venue[s.key])]
               two == [s EXCEPT !.pc = "books", !.key = None]
    <3>1. ASSUME venue[s.key] # "none"
          PROVE  /\ one \in Sweeps /\ Ready(one) /\ one.key = s.key
                 /\ one.todo = s.todo /\ one.missing = s.missing
      <4>1. MapStatus(venue[s.key]) \in Statuses
        BY <2>0, <3>1, MapStatusType DEF TypeInv, TypeOK
      <4> QED BY <1>0, <2>0, <4>1 DEF Sweeps, Ready, SweepPCs
    <3>2. two \in Sweeps /\ Ready(two) /\ two.pc = "books"
          /\ two.todo = s.todo /\ two.missing = s.missing
      BY <1>0 DEF Sweeps, Ready, SweepPCs
    <3> QED BY <2>1, <3>1, <3>2
  <2>3. Listed'
    BY <1>0, <2>0, <2>2, ListedMoves
  <2> QED BY <2>0, <2>3
<1>8. CASE WriteTerminal(r)
  <2> DEFINE new == [s EXCEPT !.pc = "books", !.key = None, !.got = "none"]
  <2>1. new \in Sweeps /\ Ready(new) /\ new.pc = "books"
        /\ new.todo = s.todo /\ new.missing = s.missing
    BY <1>0 DEF Sweeps, SweepPCs, Ready
  <2>2. Sweep(r, new)
    BY <1>8 DEF WriteTerminal
  <2>3. s.key \in Keys /\ s.got \in Statuses
        /\ (UpdateStatus(s.key, s.got) \/ UNCHANGED row)
    BY <1>0, <1>8 DEF WriteTerminal, Ready
  <2>4. \A j \in Keys : row[j] # "none" => row'[j] # "none"
    BY <2>3, RowsStay
  <2>5. Listed'
    BY <1>0, <2>1, <2>2, <2>4, ListedMoves
  <2> QED BY <2>4, <2>5
<1>9. CASE EndSweep(r)
  <2>1. IdleSweep \in Sweeps /\ Ready(IdleSweep) /\ IdleSweep.pc = "idle"
        /\ IdleSweep.todo = {} /\ IdleSweep.missing = {}
    BY DEF Sweeps, SweepPCs, IdleSweep, Ready
  <2>2. Sweep(r, IdleSweep) /\ UNCHANGED row
    BY <1>9 DEF EndSweep
  <2>3. Listed'
    BY <2>1, <2>2, ListedMoves
  <2> QED BY <2>2, <2>3
<1> QED
  BY <1>4, <1>5, <1>6, <1>7, <1>8, <1>9 DEF SweepStep

LEMMA LedgerInvNext == TypeInv /\ LedgerInv /\ [Next]_vars => LedgerInv'
<1> SUFFICES ASSUME TypeInv, LedgerInv, [Next]_vars PROVE LedgerInv'
  OBVIOUS
<1>1. CASE UNCHANGED <<row, sends, sweep, pc, cur>>
  <2>1. Listed'
    BY <1>1, ListedStays
  <2> QED BY <1>1, <2>1, Quiet DEF Owns, Holds
<1>2. ASSUME NEW r \in Replicas, Crash(r) PROVE LedgerInv'
  <2>1. UNCHANGED <<row, sends>> /\ Sweep(r, IdleSweep)
    BY <1>2 DEF Crash
  <2>2. IdleSweep \in Sweeps /\ Ready(IdleSweep) /\ IdleSweep.pc = "idle"
        /\ IdleSweep.todo = {} /\ IdleSweep.missing = {}
    BY DEF Sweeps, SweepPCs, IdleSweep, Ready
  <2>3. Listed'
    BY <2>1, <2>2, ListedMoves
  <2>4. \A w \in Workers : Owns(w)' =>
          Owns(w) /\ cur'[w] = cur[w] /\ (Holds(w)' => Holds(w))
    BY <1>2 DEF Crash, Owns, Holds
  <2> QED BY <2>1, <2>3, <2>4, Quiet
<1>3. ASSUME \/ \E payload \in Keys \cup Junk : Submit(payload)
             \/ \E r \in Replicas : SetGate(r)
             \/ \E k \in Keys : VenueMoves(k)
             \/ Halt \/ Resume
             \/ UNCHANGED vars
      PROVE  UNCHANGED <<row, sends, sweep, pc, cur>>
  BY <1>3 DEF Submit, SetGate, VenueMoves, Halt, Resume, SetHalted, vars,
     envVars, sweepVars
<1> QED
  BY <1>1, <1>2, <1>3, LedgerInvWorker, LedgerInvSweep DEF Next

LEMMA LedgerInvAlways == Spec => [](TypeInv /\ LedgerInv)
BY TypeInvAlways, LedgerInvInit, LedgerInvNext, PTL DEF Spec

\* No clientOrderId is sent to a venue twice, however many workers and
\* replicas there are, however often its command is submitted and whatever
\* fails or crashes.
THEOREM SentAtMostOnce == Spec => []AtMostOnceSent
BY LedgerInvAlways, PTL DEF LedgerInv

-----------------------------------------------------------------------------
(* Refinement *)

HasRow == {k \in Keys : row[k] # "none"}

\* Writing a status to a row that exists is a stutter of the ledger.
LEMMA RewriteIsStutter ==
  ASSUME TypeInv, NEW k \in Keys, NEW status \in Statuses, row[k] # "none",
         UpdateStatus(k, status) \/ UNCHANGED row
  PROVE  UNCHANGED HasRow
<1>1. row' \in [Keys -> Statuses \cup {"none"}] /\ "none" \notin Statuses
  BY RowType DEF TypeInv, TypeOK, Statuses
<1>2. \A j \in Keys : row'[j] # "none" <=> row[j] # "none"
  BY <1>1 DEF UpdateStatus, TypeInv, TypeOK
<1> QED
  BY <1>2 DEF HasRow

LEMMA LedgerStep ==
  ASSUME TypeInv, LedgerInv, [Next]_vars
  PROVE  [Ledger!Next]_<<HasRow, sends>>
<1> USE DEF envVars, streamVars, sweepVars, At
<1>0. row \in [Keys -> Statuses \cup {"none"}] /\ sends \in [Keys -> Nat]
  BY DEF TypeInv, TypeOK
<1>1. CASE UNCHANGED <<row, sends>>
  BY <1>1 DEF HasRow
<1>2. ASSUME NEW w \in Workers, Insert(w)
      PROVE  [Ledger!Next]_<<HasRow, sends>>
  <2>1. cur[w] \in Keys /\ UNCHANGED sends
    BY <1>2 DEF Insert, TypeInv, Processing
  <2>2. CASE UNCHANGED row
    BY <1>1, <2>1, <2>2
  <2>3. CASE /\ row[cur[w]] = "none"
             /\ row' = [row EXCEPT ![cur[w]] = "new"]
    <3>1. HasRow' = HasRow \cup {cur[w]} /\ cur[w] \notin HasRow
      BY <1>0, <2>1, <2>3 DEF HasRow
    <3>2. \E k \in Keys : Ledger!Log(k)
      BY <2>1, <3>1 DEF Ledger!Log, HasRow
    <3> QED BY <3>2 DEF Ledger!Next
  <2> QED BY <1>2, <2>2, <2>3 DEF Insert, IsDuplicate
<1>3. ASSUME NEW w \in Workers, PlaceOrder(w)
      PROVE  [Ledger!Next]_<<HasRow, sends>>
  <2>1. cur[w] \in Keys /\ Holds(w) /\ Owns(w) /\ UNCHANGED row
    BY <1>3 DEF PlaceOrder, TypeInv, Processing, Holds, Owns
  <2>2. sends[cur[w]] = 0 /\ cur[w] \in HasRow
    BY <2>1 DEF LedgerInv, Unsent, Logged, HasRow
  <2>3. sends' = [sends EXCEPT ![cur[w]] = 1]
    BY <1>0, <1>3, <2>1, <2>2 DEF PlaceOrder
  <2>4. \E k \in Keys : Ledger!Send(k)
    BY <2>1, <2>2, <2>3 DEF Ledger!Send, HasRow
  <2> QED BY <2>4 DEF Ledger!Next
<1>4. ASSUME NEW w \in Workers, RecordResult(w) \/ MarkRejected(w)
      PROVE  [Ledger!Next]_<<HasRow, sends>>
  <2>1. cur[w] \in Keys /\ row[cur[w]] # "none" /\ UNCHANGED sends
    BY <1>4 DEF RecordResult, MarkRejected, TypeInv, Processing, LedgerInv,
       Logged, Owns
  <2>2. \E status \in Statuses : UpdateStatus(cur[w], status) \/ UNCHANGED row
    BY <1>4 DEF RecordResult, MarkRejected, TypeInv, Answered, Statuses
  <2> QED BY <2>1, <2>2, RewriteIsStutter
<1>5. ASSUME NEW r \in Replicas, MarkUnknown(r)
      PROVE  [Ledger!Next]_<<HasRow, sends>>
  <2>1. PICK k \in sweep[r].missing :
          UpdateStatus(k, "unknown") \/ UNCHANGED row
    BY <1>5 DEF MarkUnknown
  <2>2. k \in Keys /\ row[k] # "none" /\ UNCHANGED sends
    BY <1>5, <2>1 DEF MarkUnknown, TypeInv, TypeOK, Sweeps, LedgerInv, Listed
  <2> QED BY <2>1, <2>2, RewriteIsStutter DEF Statuses
<1>6. ASSUME NEW r \in Replicas, WriteTerminal(r)
      PROVE  [Ledger!Next]_<<HasRow, sends>>
  <2> DEFINE s == sweep[r]
  <2>1. s.pc = "write" /\ UNCHANGED sends
        /\ (UpdateStatus(s.key, s.got) \/ UNCHANGED row)
    BY <1>6 DEF WriteTerminal, AtSweep
  <2>2. s.key \in Keys /\ s.got \in Statuses /\ row[s.key] # "none"
    BY <2>1 DEF TypeInv, Sweeping, Ready, LedgerInv, Listed
  <2> QED BY <2>1, <2>2, RewriteIsStutter
<1>7. ASSUME NEW w \in Workers,
             \/ ReadGroup(w) \/ DropMalformed(w) \/ KillSwitch(w)
             \/ RiskGate(w) \/ Prepare(w) \/ XAck(w)
      PROVE  UNCHANGED <<row, sends>>
  BY <1>7 DEF ReadGroup, DropMalformed, KillSwitch, RiskGate, Prepare, XAck
<1>8. ASSUME NEW r \in Replicas,
             \/ CollectOpen(r) \/ GetOpenOrders(r) \/ GetOrder(r)
             \/ EndSweep(r) \/ SetGate(r) \/ Crash(r)
      PROVE  UNCHANGED <<row, sends>>
  BY <1>8 DEF CollectOpen, GetOpenOrders, GetOrder, EndSweep, SetGate, Crash
<1>9. ASSUME \/ \E payload \in Keys \cup Junk : Submit(payload)
             \/ \E k \in Keys : VenueMoves(k)
             \/ Halt \/ Resume \/ UNCHANGED vars
      PROVE  UNCHANGED <<row, sends>>
  BY <1>9 DEF Submit, VenueMoves, Halt, Resume, SetHalted, vars
<1> QED
  BY <1>1, <1>2, <1>3, <1>4, <1>5, <1>6, <1>7, <1>8, <1>9
     DEF Next, WorkerStep, SweepStep

LEMMA LedgerStart == Init => Ledger!Init
BY DEF Init, Ledger!Init

\* Every behaviour of the engine is one of the ledger: each attempt is logged
\* before it is sent, no row is ever removed, and no order is sent twice.
THEOREM EngineImplementsLedger == Spec => ImplementsLedger
<1>1. TypeInv /\ LedgerInv /\ [Next]_vars => [Ledger!Next]_<<HasRow, sends>>
  BY LedgerStep
<1>2. Ledger!Init /\ [][Ledger!Next]_<<HasRow, sends>> => ImplementsLedger
  BY DEF ImplementsLedger, Ledger!Spec, HasRow
<1> QED
  BY LedgerStart, LedgerInvAlways, <1>1, <1>2, PTL DEF Spec

-----------------------------------------------------------------------------
(* What the log and the events say of finished orders *)

Final == {"filled", "canceled"}

\* An order that was never sent does not exist at the venue.
UnsentUnknown == \A k \in Keys : sends[k] = 0 => venue[k] = "none"

\* What a worker or a sweep is about to record.
AnswersTrue ==
  \A w \in Workers : pc[w] = "record" /\ answer[w] \in Final =>
    venue[cur[w]] = answer[w]
SweepsTrue ==
  \A r \in Replicas : sweep[r].pc = "write" /\ sweep[r].got \in Final =>
    venue[sweep[r].key] = sweep[r].got

RowsTrue   == \A k \in Keys : row[k] \in Final => venue[k] = row[k]
EventsTrue == \A e \in events : e.status \in Final =>
                e.key \in Keys /\ venue[e.key] = e.status

TruthInv == UnsentUnknown /\ AnswersTrue /\ SweepsTrue /\ RowsTrue /\ EventsTrue

\* The venue's final statuses are final.
Settled == \A k \in Keys : venue[k] \in Final => venue'[k] = venue[k]

LEMMA MapStatusFinal ==
  \A v \in VenueStatuses : MapStatus(v) \in Final => MapStatus(v) = v
BY DEF VenueStatuses, MapStatus, Final

\* Publishing what is true of the venue.
LEMMA PublishTrue ==
  ASSUME TypeInv, EventsTrue, NEW type, NEW status, NEW key, NEW strategy,
         Publish(type, status, key, strategy),
         status \in Final => key \in Keys /\ venue[key] = status
  PROVE  \A e \in events' : e.status \in Final =>
           e.key \in Keys /\ venue[e.key] = e.status
BY DEF Publish, EventsTrue

\* A step that changes neither the venue nor what is about to be recorded.
LEMMA TruthQuiet ==
  ASSUME TypeInv, TruthInv, UNCHANGED <<venue, sends>>,
         \A w \in Workers : pc'[w] = "record" =>
           pc[w] = "record" /\ answer'[w] = answer[w] /\ cur'[w] = cur[w],
         SweepsTrue', RowsTrue', EventsTrue'
  PROVE  TruthInv'
BY DEF TruthInv, UnsentUnknown, AnswersTrue

LEMMA TruthInvWorker ==
  ASSUME TypeInv, LedgerInv, TruthInv, NEW w \in Workers, WorkerStep(w)
  PROVE  TruthInv'
<1> USE DEF At, Goto, envVars, sweepVars
<1>0. /\ pc \in [Workers -> WorkerPCs] /\ cur \in [Workers -> Keys \cup {None}]
      /\ answer \in [Workers -> Statuses \cup {"none"}]
      /\ row \in [Keys -> Statuses \cup {"none"}]
      /\ venue \in [Keys -> VenueStatuses \cup {"none"}]
      /\ sends \in [Keys -> Nat] /\ events \subseteq Events
  BY DEF TypeInv, TypeOK
<1>1. CASE \/ ReadGroup(w) \/ DropMalformed(w) \/ KillSwitch(w)
           \/ RiskGate(w) \/ Insert(w) \/ Prepare(w) \/ XAck(w)
  <2>1. UNCHANGED <<venue, sends, sweep>>
    BY <1>1 DEF ReadGroup, DropMalformed, KillSwitch, RiskGate, Insert,
       Prepare, XAck
  <2>2. \A v \in Workers : pc'[v] = "record" =>
          pc[v] = "record" /\ answer'[v] = answer[v] /\ cur'[v] = cur[v]
    BY <1>0, <1>1 DEF ReadGroup, DropMalformed, KillSwitch, RiskGate, Insert,
       Prepare, XAck
  <2>3. SweepsTrue'
    BY <2>1 DEF TruthInv, SweepsTrue
  <2>4. \A k \in Keys : row'[k] = row[k] \/ row'[k] = "new"
    BY <1>0, <1>1 DEF ReadGroup, DropMalformed, KillSwitch, RiskGate, Insert,
       Prepare, XAck
  <2>5. RowsTrue'
    BY <2>1, <2>4 DEF TruthInv, RowsTrue, Final
  <2>6. EventsTrue'
    <3>1. events' = events \/ PublishRejection
      BY <1>1 DEF ReadGroup, DropMalformed, KillSwitch, RiskGate, Insert,
         Prepare, XAck
    <3>2. CASE PublishRejection
      <4>1. \A e \in events' : e.status \in Final =>
            e.key \in Keys /\ venue[e.key] = e.status
        BY <3>2, PublishTrue DEF PublishRejection, TruthInv, Final
      <4> QED BY <2>1, <4>1 DEF EventsTrue
    <3> QED BY <2>1, <3>1, <3>2 DEF TruthInv, EventsTrue
  <2> QED BY <2>1, <2>2, <2>3, <2>5, <2>6, TruthQuiet
<1>2. CASE PlaceOrder(w)
  <2>0. cur[w] \in Keys /\ sends[cur[w]] = 0 /\ venue[cur[w]] = "none"
    BY <1>2 DEF PlaceOrder, TypeInv, Processing, LedgerInv, Unsent, Holds,
       TruthInv, UnsentUnknown
  <2>1. UNCHANGED <<row, events, sweep, cur>>
        /\ sends' = [sends EXCEPT ![cur[w]] = sends[cur[w]] + 1]
    BY <1>2 DEF PlaceOrder
  <2>2. \A k \in Keys : k # cur[w] => venue'[k] = venue[k]
    BY <1>0, <1>2 DEF PlaceOrder
  <2>3. Settled
    BY <2>0, <2>2 DEF Settled, Final
  <2>4. UnsentUnknown'
    BY <1>0, <2>0, <2>1, <2>2 DEF TruthInv, UnsentUnknown
  <2>5. AnswersTrue'
    <3>1. SUFFICES ASSUME NEW v \in Workers, pc'[v] = "record", answer'[v] \in Final
                   PROVE  venue'[cur[v]] = answer'[v]
      BY <2>1 DEF AnswersTrue
    <3>2. CASE v = w
      <4>1. PICK s \in VenueStatuses : /\ venue' = [venue EXCEPT ![cur[w]] = s]
                                       /\ answer' = [answer EXCEPT ![w] = MapStatus(s)]
        BY <1>0, <1>2, <3>1, <3>2 DEF PlaceOrder
      <4>2. venue'[cur[w]] = s /\ answer'[w] = MapStatus(s)
        BY <1>0, <2>0, <4>1
      <4> QED BY <3>1, <3>2, <4>2, MapStatusFinal
    <3>3. CASE v # w
      <4>1. pc[v] = "record" /\ answer[v] = answer'[v]
        BY <1>0, <1>2, <3>1, <3>3 DEF PlaceOrder
      <4>2. cur[v] \in Keys /\ venue[cur[v]] = answer[v]
        BY <3>1, <4>1 DEF TypeInv, Processing, TruthInv, AnswersTrue
      <4> QED BY <2>3, <3>1, <4>1, <4>2 DEF Settled
    <3> QED BY <3>2, <3>3
  <2>6. SweepsTrue'
    <3>1. \A r \in Replicas : sweep[r].pc = "write" => sweep[r].key \in Keys
      BY DEF TypeInv, Sweeping, Ready
    <3> QED BY <2>1, <2>3, <3>1 DEF TruthInv, SweepsTrue, Settled
  <2>7. RowsTrue'
    BY <2>1, <2>3 DEF TruthInv, RowsTrue, Settled
  <2>8. EventsTrue'
    BY <2>1, <2>3 DEF TruthInv, EventsTrue, Settled
  <2> QED BY <2>4, <2>5, <2>6, <2>7, <2>8 DEF TruthInv
<1>3. CASE RecordResult(w) \/ MarkRejected(w)
  <2> DEFINE said == IF pc[w] = "record" THEN answer[w] ELSE "rejected"
  <2>0. cur[w] \in Keys /\ UNCHANGED <<sends, venue, sweep, cur, answer>>
        /\ (UpdateStatus(cur[w], said) \/ UNCHANGED row)
        /\ \E type, strategy : Publish(type, said, cur[w], strategy)
    BY <1>3 DEF RecordResult, MarkRejected, TypeInv, Processing
  <2>1. said \in Final => venue[cur[w]] = said
    BY DEF TruthInv, AnswersTrue, Final
  <2> HIDE DEF said
  <2>2. \A v \in Workers : pc'[v] = "record" =>
          pc[v] = "record" /\ answer'[v] = answer[v] /\ cur'[v] = cur[v]
    BY <1>0, <1>3, <2>0 DEF RecordResult, MarkRejected
  <2>3. SweepsTrue'
    BY <2>0 DEF TruthInv, SweepsTrue
  <2>4. RowsTrue'
    BY <1>0, <2>0, <2>1 DEF TruthInv, RowsTrue, UpdateStatus
  <2>5. EventsTrue'
    <3>1. \A e \in events' : e.status \in Final =>
            e.key \in Keys /\ venue[e.key] = e.status
      BY <2>0, <2>1, PublishTrue DEF TruthInv
    <3> QED BY <2>0, <3>1 DEF EventsTrue
  <2> QED BY <2>0, <2>2, <2>3, <2>4, <2>5, TruthQuiet
<1> QED
  BY <1>1, <1>2, <1>3 DEF WorkerStep

LEMMA TruthInvSweep ==
  ASSUME TypeInv, TruthInv, NEW r \in Replicas, SweepStep(r)
  PROVE  TruthInv'
<1> USE DEF AtSweep, envVars
<1>0. /\ sweep \in [Replicas -> Sweeps] /\ Ready(sweep[r])
      /\ row \in [Keys -> Statuses \cup {"none"}]
      /\ venue \in [Keys -> VenueStatuses \cup {"none"}]
  BY DEF TypeInv, TypeOK, Sweeping
<1>1. /\ UNCHANGED <<venue, sends, pc, cur, answer>>
      /\ \A q \in Replicas : q # r => sweep'[q] = sweep[q]
  BY <1>0 DEF SweepStep, CollectOpen, GetOpenOrders, MarkUnknown, GetOrder,
     WriteTerminal, EndSweep, Sweep
<1>2. \A w \in Workers : pc'[w] = "record" =>
        pc[w] = "record" /\ answer'[w] = answer[w] /\ cur'[w] = cur[w]
  BY <1>1
<1>3. CASE CollectOpen(r) \/ GetOpenOrders(r) \/ MarkUnknown(r) \/ EndSweep(r)
  <2>1. UNCHANGED events
    BY <1>3 DEF CollectOpen, GetOpenOrders, MarkUnknown, EndSweep
  <2>2. EventsTrue'
    BY <1>1, <2>1 DEF TruthInv, EventsTrue
  <2>3. \A k \in Keys : row'[k] = row[k] \/ row'[k] = "unknown"
    BY <1>0, <1>3 DEF CollectOpen, GetOpenOrders, MarkUnknown, EndSweep,
       UpdateStatus
  <2>4. RowsTrue'
    BY <1>1, <2>3 DEF TruthInv, RowsTrue, Final
  <2>5. sweep'[r].pc # "write"
    <3>1. CASE CollectOpen(r)
      BY <1>0, <3>1 DEF CollectOpen, Sweep, Sweeps
    <3>2. CASE GetOpenOrders(r)
      <4>1. sweep[r].pc = "books"
        BY <3>2 DEF GetOpenOrders
      <4>2. PICK listed \in SUBSET sweep[r].todo, gone \in SUBSET sweep[r].todo :
              \/ Sweep(r, [sweep[r] EXCEPT !.todo = @ \ listed, !.missing = gone])
              \/ Sweep(r, [sweep[r] EXCEPT !.todo = @ \ listed])
        BY <3>2 DEF GetOpenOrders
      <4> QED BY <1>0, <4>1, <4>2 DEF Sweep, Sweeps
    <3>3. CASE MarkUnknown(r)
      <4>1. sweep[r].pc = "books"
        BY <3>3 DEF MarkUnknown
      <4> QED BY <1>0, <3>3, <4>1 DEF MarkUnknown, Sweep, Sweeps
    <3>4. CASE EndSweep(r)
      BY <1>0, <3>4 DEF EndSweep, Sweep, IdleSweep
    <3> QED BY <1>3, <3>1, <3>2, <3>3, <3>4
  <2>6. SweepsTrue'
    BY <1>1, <2>5 DEF TruthInv, SweepsTrue
  <2> QED BY <1>1, <1>2, <2>2, <2>4, <2>6, TruthQuiet
<1>4. CASE GetOrder(r)
  <2>1. UNCHANGED <<row, events>> /\ sweep[r].pc = "query" /\ sweep[r].key \in Keys
    BY <1>0, <1>4 DEF GetOrder, Ready
  <2>2. sweep'[r].pc = "write" => /\ sweep'[r].key = sweep[r].key
                                  /\ venue[sweep[r].key] \in VenueStatuses
                                  /\ sweep'[r].got = MapStatus(venue[sweep[r].key])
    BY <1>0, <1>4, <2>1 DEF GetOrder, Sweep, Sweeps
  <2>3. SweepsTrue'
    BY <1>1, <2>2, MapStatusFinal DEF TruthInv, SweepsTrue
  <2>4. RowsTrue' /\ EventsTrue'
    BY <1>1, <2>1 DEF TruthInv, RowsTrue, EventsTrue
  <2> QED BY <1>1, <1>2, <2>3, <2>4, TruthQuiet
<1>5. CASE WriteTerminal(r)
  <2>0. sweep[r].pc = "write" /\ sweep[r].key \in Keys
    BY <1>0, <1>5 DEF WriteTerminal, Ready
  <2>1. sweep[r].got \in Final => venue[sweep[r].key] = sweep[r].got
    BY <2>0 DEF TruthInv, SweepsTrue
  <2>2. RowsTrue'
    BY <1>0, <1>1, <1>5, <2>0, <2>1 DEF WriteTerminal, UpdateStatus, TruthInv, RowsTrue
  <2>3. EventsTrue'
    <3>1. \A e \in events' : e.status \in Final =>
            e.key \in Keys /\ venue[e.key] = e.status
      BY <1>5, <2>0, <2>1, PublishTrue DEF WriteTerminal, TruthInv
    <3> QED BY <1>1, <3>1 DEF EventsTrue
  <2>4. sweep'[r].pc = "books"
    BY <1>0, <1>5 DEF WriteTerminal, Sweep, Sweeps
  <2>5. SweepsTrue'
    BY <1>1, <2>4 DEF TruthInv, SweepsTrue
  <2> QED BY <1>1, <1>2, <2>2, <2>3, <2>5, TruthQuiet
<1> QED
  BY <1>3, <1>4, <1>5 DEF SweepStep

LEMMA TruthInvNext ==
  ASSUME TypeInv, LedgerInv, TruthInv, [Next]_vars
  PROVE  TruthInv'
<1>0. venue \in [Keys -> VenueStatuses \cup {"none"}] /\ events \subseteq Events
  BY DEF TypeInv, TypeOK
<1>1. ASSUME NEW k \in Keys, VenueMoves(k) PROVE TruthInv'
  <2>1. UNCHANGED <<row, events, sweep, pc, cur, answer, sends>>
    BY <1>1 DEF VenueMoves, sweepVars
  <2>2. venue[k] \in VenueOpen /\ \A j \in Keys : j # k => venue'[j] = venue[j]
    BY <1>0, <1>1 DEF VenueMoves
  <2>3. Settled
    BY <2>2 DEF Settled, VenueOpen, Final
  <2>4. UnsentUnknown'
    BY <2>1, <2>2 DEF TruthInv, UnsentUnknown, VenueOpen
  <2>5. AnswersTrue'
    BY <2>1, <2>3 DEF TruthInv, AnswersTrue, Settled, TypeInv, Processing
  <2>6. SweepsTrue'
    BY <2>1, <2>3 DEF TruthInv, SweepsTrue, Settled, TypeInv, Sweeping, Ready
  <2>7. RowsTrue'
    BY <2>1, <2>3 DEF TruthInv, RowsTrue, Settled
  <2>8. EventsTrue'
    BY <2>1, <2>3 DEF TruthInv, EventsTrue, Settled
  <2> QED BY <2>4, <2>5, <2>6, <2>7, <2>8 DEF TruthInv
<1>2. ASSUME \/ \E r \in Replicas : SetGate(r) \/ Crash(r)
             \/ \E h \in BOOLEAN : SetHalted(h)
             \/ \E payload \in Keys \cup Junk : Submit(payload)
             \/ UNCHANGED vars
      PROVE  TruthInv'
  <2>1. UNCHANGED <<venue, sends, row, events>>
    BY <1>2 DEF SetGate, Crash, SetHalted, Submit, vars, envVars
  <2>2. \A w \in Workers : pc'[w] = "record" =>
          pc[w] = "record" /\ answer'[w] = answer[w] /\ cur'[w] = cur[w]
    BY <1>2 DEF SetGate, Crash, SetHalted, Submit, vars
  <2>3. \A q \in Replicas : sweep'[q] = sweep[q] \/ sweep'[q].pc = "idle"
    BY <1>2 DEF SetGate, Crash, SetHalted, Submit, vars, sweepVars, Sweep,
       IdleSweep, TypeInv, TypeOK
  <2>4. SweepsTrue'
    BY <2>1, <2>3 DEF TruthInv, SweepsTrue
  <2>5. RowsTrue' /\ EventsTrue'
    BY <2>1 DEF TruthInv, RowsTrue, EventsTrue
  <2> QED BY <2>1, <2>2, <2>4, <2>5, TruthQuiet
<1> QED
  BY <1>1, <1>2, TruthInvWorker, TruthInvSweep DEF Next, Halt, Resume

LEMMA TruthInvInit == Init => TruthInv
BY DEF Init, TruthInv, UnsentUnknown, AnswersTrue, SweepsTrue, RowsTrue,
   EventsTrue, Final, IdleSweep

\* What order_log and the events call filled or canceled is so at the venue,
\* though every write is unconditional and every answer may be stale.
THEOREM ReportsHold == Spec => []ReportsAreTrue
<1>1. Init => TruthInv
  BY TruthInvInit
<1>2. TruthInv => ReportsAreTrue
  BY DEF TruthInv, RowsTrue, EventsTrue, Final, ReportsAreTrue
<1> QED
  BY <1>1, <1>2, LedgerInvAlways, TruthInvNext, PTL DEF Spec
==============================================================================
