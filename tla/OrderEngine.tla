----------------------------- MODULE OrderEngine -----------------------------
(***************************************************************************)
(* The live-execution engine of the gateway (internal/orderengine): the    *)
(* workers of every replica consume command.order.submit through one Redis *)
(* consumer group, gate each command, write it ahead into order_log, place *)
(* it at the venue, and record the answer; every replica also runs a sweep *)
(* that compares the open rows of order_log with the venue's open orders.  *)
(* The venue itself, Redis and MongoDB are modelled by what their calls    *)
(* return to the engine.                                                   *)
(***************************************************************************)
EXTENDS Naturals, Sequences, FiniteSets

CONSTANTS
  Replicas,    \* gateway processes that share the consumer group
  Workers,     \* worker goroutines of all the replicas
  Home,        \* Home[w] is the replica that runs worker w
  Keys,        \* clientOrderIds: commands with equal idempotency keys share one
  Junk,        \* stream payloads processMessage cannot decode
  None,        \* no key
  Book,        \* Book[k]: the (account, mode, symbol) group of the order k
  Mainnet,     \* the books whose mode is mainnet
  Echoing,     \* the books whose venue reports the order's status in its answer
  MaxOpen,     \* maxOpenPositionsCount, 0 for no cap
  BatchMax,    \* Count of XREADGROUP
  MaxEntries,  \* bound: commands submitted
  Sweepers,    \* the replicas whose reconcile ticker fires in a behaviour
  AdminOps,    \* the administrative operations a behaviour may contain
  Faults,      \* the kinds of failure a behaviour may contain
  MaxFaults    \* bound: failures in one behaviour

Statuses == {"new", "partial", "filled", "canceled", "rejected", "unknown"}

\* Mutant of OpenSet: a partly filled row is not open.
OpenSetNewOnly == {"new"}

\* ListOpenForAccount, SumOpenNotionalForUser: the statuses of an open row.
OpenSet == {"new", "partial"}

\* What the venue says of an order; "other" stands for its unmapped statuses.
VenueStatuses == {"live", "partial", "filled", "canceled", "rejected", "other"}
VenueOpen     == {"live", "partial"}

\* Mutants of MapStatus: unmapped statuses are passed through, or are taken
\* for the end of the order.
MapStatusPassThrough(v) == IF v = "live" THEN "new" ELSE v
MapStatusTerminal(v) == CASE v = "live"  -> "new"
                          [] v = "other" -> "canceled"
                          [] OTHER       -> v

\* exchange/*/orders.go: an unmapped status falls through to "unknown".
MapStatus(v) == CASE v = "live"  -> "new"
                  [] v = "other" -> "unknown"
                  [] OTHER       -> v

FaultKinds == {"state", "store", "record", "publish", "ack", "refused",
               "ambiguous", "list", "query", "sweepwrite", "crash"}

ASSUME ConstantsOK ==
  /\ Home \in [Workers -> Replicas]
  /\ IsFiniteSet(Workers) /\ Workers # {}
  /\ IsFiniteSet(Keys)
  /\ Keys \cap Junk = {} /\ None \notin Keys
  /\ MaxOpen \in Nat /\ BatchMax \in Nat \ {0}
  /\ MaxEntries \in Nat /\ MaxFaults \in Nat
  /\ Sweepers \subseteq Replicas /\ AdminOps \subseteq {"halt", "gate"}
  /\ Faults \subseteq FaultKinds

VARIABLES
  stream,      \* entries of command.order.submit, never removed
  delivered,   \* last entry the consumer group has delivered
  acked,       \* entries acknowledged with XACK
  lo, hi,      \* lo[w]..hi[w]: the entries of w's batch not yet acknowledged
  pc,          \* where each worker is
  cur,         \* the clientOrderId each worker is processing
  answer,      \* the status PlaceOrder returned to each worker
  row,         \* order_log: status of the row of each key, "none" when absent
  venue,       \* status of the order at the venue, "none" when it has none
  sends,       \* PlaceOrder requests that left the process, per key
  events,      \* what was published on the events stream
  halted,      \* system_state.tradingHalted
  gate,        \* gate[r]: the mainnet gate of replica r is open
  sweep,       \* the reconcile goroutine of each replica
  failures,    \* failures so far
  sentHalted,  \* history: requests sent since the current halt began
  sentClosed,  \* history: mainnet requests sent since the gate closed
  swept        \* history: keys a sweep has set to unknown

streamVars == <<stream, delivered, acked, lo, hi>>
sweepVars  == <<sweep, swept>>
envVars    == <<venue, sends, sentHalted, sentClosed>>
vars == <<streamVars, pc, cur, answer, row, envVars, events, halted, gate,
          sweepVars, failures>>

WorkerPCs == {"poll", "next", "risk", "insert", "prepare", "send", "record",
              "reject", "ack"}
SweepPCs  == {"idle", "books", "query", "write"}

\* type: suffix of event.order.*; strategy: the payload names the strategy.
EventTypes == {"filled", "canceled", "rejected", "updated"}
Events == [type : EventTypes, status : Statuses, key : Keys \cup {None},
           strategy : BOOLEAN]

IdleSweep == [pc |-> "idle", todo |-> {}, missing |-> {}, key |-> None,
              got |-> "none"]
Sweeps == [pc : SweepPCs, todo : SUBSET Keys, missing : SUBSET Keys,
           key : Keys \cup {None}, got : Statuses \cup {"none"}]

TypeOK ==
  /\ stream \in Seq(Keys \cup Junk)
  /\ delivered \in 0..Len(stream)
  /\ acked \subseteq 1..Len(stream)
  /\ lo \in [Workers -> Nat] /\ hi \in [Workers -> Nat]
  /\ pc \in [Workers -> WorkerPCs]
  /\ cur \in [Workers -> Keys \cup {None}]
  /\ answer \in [Workers -> Statuses \cup {"none"}]
  /\ row \in [Keys -> Statuses \cup {"none"}]
  /\ venue \in [Keys -> VenueStatuses \cup {"none"}]
  /\ sends \in [Keys -> Nat]
  /\ events \subseteq Events
  /\ halted \in BOOLEAN
  /\ gate \in [Replicas -> BOOLEAN]
  /\ sweep \in [Replicas -> Sweeps]
  /\ failures \in Nat
  /\ sentHalted \in Nat
  /\ sentClosed \in [Replicas -> Nat]
  /\ swept \subseteq Keys

Init ==
  /\ stream = <<>> /\ delivered = 0 /\ acked = {}
  /\ lo = [w \in Workers |-> 1] /\ hi = [w \in Workers |-> 0]
  /\ pc = [w \in Workers |-> "poll"]
  /\ cur = [w \in Workers |-> None]
  /\ answer = [w \in Workers |-> "none"]
  /\ row = [k \in Keys |-> "none"]
  /\ venue = [k \in Keys |-> "none"]
  /\ sends = [k \in Keys |-> 0]
  /\ events = {}
  /\ halted = FALSE
  /\ gate = [r \in Replicas |-> FALSE]
  /\ sweep = [r \in Replicas |-> IdleSweep]
  /\ failures = 0 /\ swept = {}
  /\ sentHalted = 0 /\ sentClosed = [r \in Replicas |-> 0]

-----------------------------------------------------------------------------
(* Helpers *)

At(w, at)   == pc[w] = at
Goto(w, to) == pc' = [pc EXCEPT ![w] = to]

Fails(kind) ==
  /\ kind \in Faults /\ failures < MaxFaults
  /\ failures' = failures + 1

Works == UNCHANGED failures

\* publishRaw: a failed XADD is only logged.
Publish(type, status, key, strategy) ==
  \/ events' = events \cup {[type |-> type, status |-> status, key |-> key,
                             strategy |-> strategy]}
  \/ "publish" \in Faults /\ UNCHANGED events

\* publishRejection: there is no row yet, so no clientOrderId in the payload.
PublishRejection == Publish("rejected", "rejected", None, TRUE)

\* Mutant of UpdateStatus: rejected rows are removed.
UpdateStatusPruning(k, status) ==
  row' = [row EXCEPT ![k] = IF status = "rejected" THEN "none" ELSE status]

\* OrderRepo.UpdateStatus: $set without a condition on the old status.
UpdateStatus(k, status) == row' = [row EXCEPT ![k] = status]

IsOpen(k) == row[k] \in OpenSet
OpenRows  == {k \in Keys : IsOpen(k)}

\* Mutant of UnderCap: the new order is not counted.
UnderCapOffByOne == MaxOpen = 0 \/ Cardinality(OpenRows) <= MaxOpen

\* The open-positions cap: "adding this submission counts toward the cap".
UnderCap == MaxOpen = 0 \/ Cardinality(OpenRows) + 1 <= MaxOpen

\* Mutant of TradingAllowed: the kill switch is not read.
TradingAllowedUnread == TRUE

\* The kill switch as processCommand reads it.
TradingAllowed == ~halted

\* Mutant of IsDuplicate: there is no unique index on clientOrderId.
IsDuplicateUnindexed(k) == FALSE

\* The unique index on clientOrderId.
IsDuplicate(k) == row[k] # "none"

\* Mutant of Guarded: one open gate opens them all.
GuardedAnywhere(r, b) == b \in Mainnet => \E other \in Replicas : gate[other]

\* guard(): a mainnet call, a read as well as a write, needs the gate of the
\* replica that makes it.
Guarded(r, b) == b \in Mainnet => gate[r]

\* Mutant of Acknowledged: only the last entry of a batch is acknowledged.
AcknowledgedLast(w) == IF lo[w] = hi[w] THEN acked \cup {lo[w]} ELSE acked

\* XACK of the message just processed.
Acknowledged(w) == acked \cup {lo[w]}

-----------------------------------------------------------------------------
(* The producers: the HTTP submit endpoint and the strategy runtime. A     *)
(* command may be submitted again under the same key.                      *)

Submit(payload) ==
  /\ Len(stream) < MaxEntries
  /\ stream' = Append(stream, payload)
  /\ UNCHANGED <<delivered, acked, lo, hi, pc, cur, answer, row, envVars,
                 events, halted, gate, sweepVars, failures>>

-----------------------------------------------------------------------------
(* One worker goroutine *)

\* XREADGROUP ">": a batch of entries that were never delivered before.
ReadGroup(w) ==
  /\ At(w, "poll")
  /\ Goto(w, "next")
  /\ delivered < Len(stream)
  /\ \E last \in (delivered + 1)..Len(stream) :
       /\ last = Len(stream) \/ last = delivered + BatchMax
       /\ last <= delivered + BatchMax
       /\ lo' = [lo EXCEPT ![w] = delivered + 1]
       /\ hi' = [hi EXCEPT ![w] = last]
       /\ delivered' = last
  /\ UNCHANGED <<stream, acked, cur, answer, row, envVars, events, halted,
                 gate, sweepVars, failures>>

\* processMessage drops a payload it cannot decode.
DropMalformed(w) ==
  /\ At(w, "next")
  /\ Goto(w, "ack")
  /\ stream[lo[w]] \in Junk
  /\ UNCHANGED <<streamVars, cur, answer, row, envVars, events, halted, gate,
                 sweepVars, failures>>

\* processCommand starts with the kill switch; a failed read fails closed.
KillSwitch(w) ==
  /\ At(w, "next")
  /\ stream[lo[w]] \in Keys
  /\ \/ /\ TradingAllowed
        /\ Goto(w, "risk")
        /\ cur' = [cur EXCEPT ![w] = stream[lo[w]]]
        /\ Works /\ UNCHANGED events
     \/ /\ (~TradingAllowed /\ Works) \/ Fails("state")
        /\ Goto(w, "ack")
        /\ PublishRejection /\ UNCHANGED cur
  /\ UNCHANGED <<streamVars, answer, row, envVars, halted, gate, sweepVars>>

\* The per-strategy gate and the portfolio caps. Their verdicts other than
\* the open-positions cap are a free choice here.
RiskGate(w) ==
  /\ At(w, "risk")
  /\ \/ /\ UnderCap
        /\ Goto(w, "insert")
        /\ Works /\ UNCHANGED events
     \/ /\ Goto(w, "ack")
        /\ Works /\ PublishRejection
     \/ /\ Goto(w, "ack")  \* OptionRepo.FindByID failed
        /\ Fails("store") /\ UNCHANGED events
  /\ UNCHANGED <<streamVars, cur, answer, row, envVars, halted, gate,
                 sweepVars>>

\* OrderRepo.Insert under the unique index: a duplicate ends the command, and
\* so does an error, whether or not the row was stored.
Insert(w) ==
  /\ At(w, "insert")
  /\ \/ /\ ~IsDuplicate(cur[w])
        /\ row' = [row EXCEPT ![cur[w]] = "new"]
        /\ \/ Goto(w, "prepare") /\ Works
           \/ Goto(w, "ack") /\ Fails("store")
     \/ /\ (IsDuplicate(cur[w]) /\ Works) \/ Fails("store")
        /\ Goto(w, "ack") /\ UNCHANGED row
  /\ UNCHANGED <<streamVars, cur, answer, envVars, events, halted, gate,
                 sweepVars>>

\* decryptAccount, Factory, exchange_meta, then the adapter's own checks:
\* guard refuses a mainnet call while the replica's gate is closed, and the
\* others may refuse any order.
Prepare(w) ==
  /\ At(w, "prepare")
  /\ \/ /\ Guarded(Home[w], Book[cur[w]])
        /\ Goto(w, "send")
     \/ Goto(w, "reject")
  /\ UNCHANGED <<streamVars, cur, answer, row, envVars, events, halted, gate,
                 sweepVars, failures>>

\* The request leaves the process. The venue accepts it and its answer
\* arrives or is lost, or it never takes the order.
PlaceOrder(w) ==
  LET k == cur[w]  r == Home[w] IN
  /\ At(w, "send")
  /\ sends' = [sends EXCEPT ![k] = @ + 1]
  /\ sentHalted' = IF halted THEN sentHalted + 1 ELSE sentHalted
  /\ sentClosed' = IF Book[k] \in Mainnet /\ ~gate[r]
                   THEN [sentClosed EXCEPT ![r] = @ + 1] ELSE sentClosed
  /\ \/ \E v \in VenueStatuses :
          /\ Book[k] \notin Echoing => v = "live"
          /\ venue' = [venue EXCEPT ![k] = v]
          /\ \/ /\ Goto(w, "record") /\ Works
                /\ answer' = [answer EXCEPT ![w] = MapStatus(v)]
             \/ /\ Goto(w, "reject") /\ Fails("ambiguous")
                /\ UNCHANGED answer
     \/ /\ Goto(w, "reject") /\ Fails("refused")
        /\ UNCHANGED <<venue, answer>>
  /\ UNCHANGED <<streamVars, cur, row, events, halted, gate, sweepVars>>

\* The answer is written to the row; a failed write is only logged. The event
\* is named filled whatever the status.
RecordResult(w) ==
  /\ At(w, "record")
  /\ Goto(w, "ack")
  /\ \/ UpdateStatus(cur[w], answer[w]) /\ Works
     \/ UNCHANGED row /\ Fails("record")
  /\ Publish("filled", answer[w], cur[w], TRUE)
  /\ UNCHANGED <<streamVars, cur, answer, envVars, halted, gate, sweepVars>>

\* markRejected: best effort, and its event carries an empty strategyId.
MarkRejected(w) ==
  /\ At(w, "reject")
  /\ Goto(w, "ack")
  /\ \/ UpdateStatus(cur[w], "rejected") /\ Works
     \/ UNCHANGED row /\ Fails("record")
  /\ Publish("rejected", "rejected", cur[w], FALSE)
  /\ UNCHANGED <<streamVars, cur, answer, envVars, halted, gate, sweepVars>>

\* XACK follows every message, whatever became of it; its error is ignored.
XAck(w) ==
  /\ At(w, "ack")
  /\ Goto(w, IF lo[w] = hi[w] THEN "poll" ELSE "next")
  /\ \/ acked' = Acknowledged(w) /\ Works
     \/ UNCHANGED acked /\ Fails("ack")
  /\ lo' = [lo EXCEPT ![w] = @ + 1]
  /\ cur' = [cur EXCEPT ![w] = None]
  /\ answer' = [answer EXCEPT ![w] = "none"]
  /\ UNCHANGED <<stream, delivered, hi, row, envVars, events, halted, gate,
                 sweepVars>>

WorkerStep(w) ==
  \/ ReadGroup(w) \/ DropMalformed(w) \/ KillSwitch(w) \/ RiskGate(w)
  \/ Insert(w) \/ Prepare(w) \/ PlaceOrder(w) \/ RecordResult(w)
  \/ MarkRejected(w) \/ XAck(w)

-----------------------------------------------------------------------------
(* The reconcile goroutine of a replica *)

AtSweep(r, at) == sweep[r].pc = at
Sweep(r, new)  == sweep' = [sweep EXCEPT ![r] = new]

\* collectOpenByAccount: the open rows of all accounts, read before any call
\* to a venue (one account after the other; at once here). With no open row
\* ReconcileOnce returns.
CollectOpen(r) ==
  /\ r \in Sweepers /\ AtSweep(r, "idle") /\ OpenRows # {}
  /\ Sweep(r, [sweep[r] EXCEPT !.pc = "books", !.todo = OpenRows])
  /\ UNCHANGED <<streamVars, pc, cur, answer, row, envVars, events, halted,
                 gate, swept, failures>>

\* GetOpenOrders for one book: the listed rows the venue does not hold open
\* are missing; an error skips the book until the next sweep.
GetOpenOrders(r) ==
  /\ AtSweep(r, "books") /\ sweep[r].missing = {}
  /\ \E k \in sweep[r].todo :
       LET listed == {j \in sweep[r].todo : Book[j] = Book[k]}
           gone   == {j \in listed : venue[j] \notin VenueOpen}
       IN \/ /\ Guarded(r, Book[k]) /\ Works
             /\ Sweep(r, [sweep[r] EXCEPT !.todo = @ \ listed,
                                          !.missing = gone])
          \/ /\ (~Guarded(r, Book[k]) /\ Works) \/ Fails("list")
             /\ Sweep(r, [sweep[r] EXCEPT !.todo = @ \ listed])
  /\ UNCHANGED <<streamVars, pc, cur, answer, row, envVars, events, halted,
                 gate, swept>>

\* reconcileMissingLocal, step 1: the row is set to unknown, whatever it has
\* become since it was listed. An error ends the attempt: the write failed, or
\* the row it changed could not be read back.
MarkUnknown(r) ==
  /\ AtSweep(r, "books")
  /\ \E k \in sweep[r].missing :
       \/ /\ UpdateStatus(k, "unknown")
          /\ swept' = swept \cup {k}
          /\ \/ /\ Sweep(r, [sweep[r] EXCEPT !.pc = "query", !.key = k,
                                             !.missing = @ \ {k}])
                /\ Works
             \/ /\ Sweep(r, [sweep[r] EXCEPT !.missing = @ \ {k}])
                /\ Fails("sweepwrite")
       \/ /\ Fails("sweepwrite") /\ UNCHANGED <<row, swept>>
          /\ Sweep(r, [sweep[r] EXCEPT !.missing = @ \ {k}])
  /\ UNCHANGED <<streamVars, pc, cur, answer, envVars, events, halted, gate>>

\* Step 2: GetOrder. An order the venue does not know is an error too.
GetOrder(r) ==
  /\ AtSweep(r, "query")
  /\ LET k == sweep[r].key IN
       \/ /\ Guarded(r, Book[k]) /\ venue[k] # "none" /\ Works
          /\ Sweep(r, [sweep[r] EXCEPT !.pc = "write",
                                       !.got = MapStatus(venue[k])])
       \/ /\ \/ /\ ~Guarded(r, Book[k]) \/ venue[k] = "none"
                /\ Works
             \/ Fails("query")
          /\ Sweep(r, [sweep[r] EXCEPT !.pc = "books", !.key = None])
  /\ UNCHANGED <<streamVars, pc, cur, answer, row, envVars, events, halted,
                 gate, swept>>

\* orderEventSuffix
Suffix(status) == IF status \in EventTypes THEN status ELSE "updated"

\* The answer is written; a failed write is only logged, and the event is
\* published either way.
WriteTerminal(r) ==
  /\ AtSweep(r, "write")
  /\ LET k == sweep[r].key  got == sweep[r].got IN
       /\ \/ UpdateStatus(k, got) /\ Works
          \/ UNCHANGED row /\ Fails("sweepwrite")
       /\ Publish(Suffix(got), got, k, TRUE)
  /\ Sweep(r, [sweep[r] EXCEPT !.pc = "books", !.key = None, !.got = "none"])
  /\ UNCHANGED <<streamVars, pc, cur, answer, envVars, halted, gate, swept>>

EndSweep(r) ==
  /\ AtSweep(r, "books") /\ sweep[r].todo = {} /\ sweep[r].missing = {}
  /\ Sweep(r, IdleSweep)
  /\ UNCHANGED <<streamVars, pc, cur, answer, row, envVars, events, halted,
                 gate, swept, failures>>

SweepStep(r) ==
  \/ CollectOpen(r) \/ GetOpenOrders(r) \/ MarkUnknown(r) \/ GetOrder(r)
  \/ WriteTerminal(r) \/ EndSweep(r)

-----------------------------------------------------------------------------
(* The venue, the administrators, and the process *)

\* An open order trades, is cancelled by hand or expires at the venue.
VenueMoves(k) ==
  /\ venue[k] \in VenueOpen
  /\ \E v \in VenueStatuses \ {"live", "rejected"} :
       v # venue[k] /\ venue' = [venue EXCEPT ![k] = v]
  /\ UNCHANGED <<streamVars, pc, cur, answer, row, sends, sentHalted,
                 sentClosed, events, halted, gate, sweepVars, failures>>

\* SystemRepo.Halt and Resume replace the global document.
SetHalted(h) ==
  /\ "halt" \in AdminOps
  /\ halted' = h /\ sentHalted' = 0
  /\ UNCHANGED <<streamVars, pc, cur, answer, row, venue, sends, sentClosed,
                 events, gate, sweepVars, failures>>

Halt   == ~halted /\ SetHalted(TRUE)
Resume == halted /\ SetHalted(FALSE)

\* The token store of one replica opens on Confirm and closes on expiry
\* (see MainnetGate).
SetGate(r) ==
  /\ "gate" \in AdminOps
  /\ gate' = [gate EXCEPT ![r] = ~@]
  /\ sentClosed' = [sentClosed EXCEPT ![r] = 0]
  /\ UNCHANGED <<streamVars, pc, cur, answer, row, venue, sends, sentHalted,
                 events, halted, sweepVars, failures>>

\* A replica dies and restarts: its goroutines start over, under consumer
\* names of their own, so the entries of their batches stay pending for good;
\* the token store is empty again.
Crash(r) ==
  LET lostAt(w) == Home[w] = r IN
  /\ Fails("crash")
  /\ pc' = [w \in Workers |-> IF lostAt(w) THEN "poll" ELSE pc[w]]
  /\ lo' = [w \in Workers |-> IF lostAt(w) THEN 1 ELSE lo[w]]
  /\ hi' = [w \in Workers |-> IF lostAt(w) THEN 0 ELSE hi[w]]
  /\ cur' = [w \in Workers |-> IF lostAt(w) THEN None ELSE cur[w]]
  /\ answer' = [w \in Workers |-> IF lostAt(w) THEN "none" ELSE answer[w]]
  /\ Sweep(r, IdleSweep)
  /\ gate' = [gate EXCEPT ![r] = FALSE]
  /\ sentClosed' = [sentClosed EXCEPT ![r] = 0]
  /\ UNCHANGED <<stream, delivered, acked, row, venue, sends, sentHalted,
                 events, halted, swept>>

-----------------------------------------------------------------------------

Next ==
  \/ \E payload \in Keys \cup Junk : Submit(payload)
  \/ \E w \in Workers : WorkerStep(w)
  \/ \E r \in Replicas : SweepStep(r) \/ SetGate(r) \/ Crash(r)
  \/ \E k \in Keys : VenueMoves(k)
  \/ Halt \/ Resume

Spec == Init /\ [][Next]_vars

\* A goroutine that can take a step takes one: the worker loops and the
\* reconcile ticker run until the process ends. Nothing is promised of the
\* producers, the venue or the administrators.
FairSpec ==
  /\ Spec
  /\ \A w \in Workers : WF_vars(WorkerStep(w))
  /\ \A r \in Replicas : WF_vars(SweepStep(r))

-----------------------------------------------------------------------------
(* Safety *)

\* Whatever is retried, redelivered, duplicated or lost in a crash, no
\* clientOrderId leaves the gateway twice (order_repo.go: "a duplicate Submit
\* call collapses on the existing row instead of double-firing").
AtMostOnceSent == \A k \in Keys : sends[k] <= 1

\* While trading is halted no worker sends more than the one command that had
\* passed processCommand's kill-switch read before the halt.
HaltOvershoot == halted => sentHalted <= Cardinality(Workers)

\* The portfolio cap is read before Insert and not under a lock, so it can be
\* overshot, but by no more than one row per further worker, as long as no
\* sweep takes the row out of the count and puts it back.
OpenOvershoot ==
  MaxOpen > 0 =>
    Cardinality(OpenRows \ swept) <= MaxOpen + Cardinality(Workers) - 1

\* order_log and the events stream call an order filled or canceled only when
\* it is so at the venue, however stale the answer that is being recorded.
ReportsAreTrue ==
  LET final == {"filled", "canceled"} IN
  /\ \A k \in Keys : row[k] \in final => venue[k] = row[k]
  /\ \A e \in events : e.status \in final => venue[e.key] = e.status

\* An order open at the venue is in the count the portfolio cap reads.
OpenOrdersCounted == \A k \in Keys : venue[k] \in VenueOpen => IsOpen(k)

\* The guard is evaluated before the request and not with it: once a
\* replica's gate has closed, each of its workers sends at most the mainnet
\* order that had passed guard() by then.
GateOvershoot ==
  \A r \in Replicas :
    ~gate[r] => sentClosed[r] <= Cardinality({w \in Workers : Home[w] = r})

\* Implementation of the abstract ledger: a row is written before its order
\* is sent, is never deleted, and its order is sent at most once.
Ledger == INSTANCE OrderLedger
            WITH logged <- {k \in Keys : row[k] # "none"}, sent <- sends
ImplementsLedger == Ledger!Spec

-----------------------------------------------------------------------------
(* Liveness *)

\* Every command submitted is processed to its end and acknowledged.
EveryCommandAcked ==
  \A e \in 1..MaxEntries : e <= Len(stream) ~> e \in acked

\* reconcile.go: "fetch the exchange's view of open orders and converge state".
FillsReachTheLog ==
  \A k \in Keys : venue[k] = "filled" ~> row[k] = "filled"

-----------------------------------------------------------------------------
(* What a comment claims, and the engine does not keep *)

\* order_repo.go: order_log "is the source of truth for the gateway's audit
\* trail": a rejected row stands for an order the venue does not hold.
RejectedIsNotLive ==
  \A k \in Keys : row[k] = "rejected" =>
    venue[k] \notin {"live", "partial", "filled"}
==============================================================================
