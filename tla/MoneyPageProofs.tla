---------------------------- MODULE MoneyPageProofs ----------------------------
(***************************************************************************)
(* Proofs about the interleaved handlers of the AI goal page, for any      *)
(* number of stored runs, handlers at one time, presses and failures, and  *)
(* whatever the gate of the provider says.                                 *)
(***************************************************************************)
EXTENDS MoneyPage, SequenceTheorems, TLAPS

(* Programs. *)
Flags    == {"runs", "busy", "pipeline", "batch", "action", "saving"}
Requests == Patches \cup {"list", "get", "analyze", "batch", "create"}
StepType == [does : Requests, holds : SUBSET Flags]

LEMMA Glued ==
  ASSUME NEW S, NEW x \in S, NEW b \in S, NEW c \in S, NEW d \in S, NEW z \in S
  PROVE  <<x>> \o <<b, c, d>> \o <<z>> = <<x, b, c, d, z>>
<1> DEFINE s == <<x>>  t == <<b, c, d>>  u == <<z>>  w == <<x, b, c, d, z>>
<1>1. /\ s \in Seq(S) /\ t \in Seq(S) /\ u \in Seq(S) /\ w \in Seq(S)
      /\ Len(s) = 1 /\ Len(t) = 3 /\ Len(u) = 1 /\ Len(w) = 5
  OBVIOUS
<1>2. s[1] = x /\ t[1] = b /\ t[2] = c /\ t[3] = d /\ u[1] = z
  OBVIOUS
<1>3. w[1] = x /\ w[2] = b /\ w[3] = c /\ w[4] = d /\ w[5] = z
  OBVIOUS
<1> HIDE DEF s, t, u, w
<1>4. /\ s \o t \in Seq(S) /\ Len(s \o t) = Len(s) + Len(t)
      /\ \A i \in 1..(Len(s) + Len(t)) : (s \o t)[i] = IF i <= Len(s) THEN s[i] ELSE t[i - Len(s)]
  BY <1>1, ConcatProperties
<1>5. /\ (s \o t) \o u \in Seq(S) /\ Len((s \o t) \o u) = 5
      /\ \A i \in 1..5 : ((s \o t) \o u)[i] = IF i <= 4 THEN (s \o t)[i] ELSE u[i - 4]
  BY <1>1, <1>4, ConcatProperties
<1>6. \A i \in 1..5 : ((s \o t) \o u)[i] = w[i]
  BY <1>1, <1>2, <1>3, <1>4, <1>5
<1>7. (s \o t) \o u = w
  BY <1>1, <1>5, <1>6, SeqEqual
<1> QED
  BY <1>7 DEF s, t, u, w

LEMMA RefreshProgram ==
  Program("refresh") =
    <<Step("get", {"runs"}), Step("analyze", {"busy", "pipeline", "runs"}),
      Step("batch", {"pipeline", "batch", "runs"}),
      Step("backtest", {"pipeline", "batch", "runs"}), Step("refresh_context", {"runs"})>>
<1> DEFINE p == [i \in DOMAIN Pipeline |-> [Pipeline[i] EXCEPT !.holds = @ \cup {"runs"}]]
           q == <<Step("analyze", {"busy", "pipeline", "runs"}),
                  Step("batch", {"pipeline", "batch", "runs"}),
                  Step("backtest", {"pipeline", "batch", "runs"})>>
<1>1. p = q
  <2>1. DOMAIN Pipeline = 1..3
    BY DEF Pipeline
  <2>2. /\ [Pipeline[1] EXCEPT !.holds = @ \cup {"runs"}] = q[1]
        /\ [Pipeline[2] EXCEPT !.holds = @ \cup {"runs"}] = q[2]
        /\ [Pipeline[3] EXCEPT !.holds = @ \cup {"runs"}] = q[3]
    BY DEF Pipeline, Step
  <2> QED
    BY <2>1, <2>2
<1>2. Program("refresh") = <<Step("get", {"runs"})>> \o p \o <<Step("refresh_context", {"runs"})>>
  BY DEF Program
<1>3. \A does \in Requests, holds \in SUBSET Flags : Step(does, holds) \in StepType
  BY DEF Step, StepType
<1>4. /\ Step("get", {"runs"}) \in StepType
      /\ Step("analyze", {"busy", "pipeline", "runs"}) \in StepType
      /\ Step("batch", {"pipeline", "batch", "runs"}) \in StepType
      /\ Step("backtest", {"pipeline", "batch", "runs"}) \in StepType
      /\ Step("refresh_context", {"runs"}) \in StepType
  BY <1>3 DEF Requests, Patches, Flags
<1>5. <<Step("get", {"runs"})>> \o q \o <<Step("refresh_context", {"runs"})>>
      = <<Step("get", {"runs"}), Step("analyze", {"busy", "pipeline", "runs"}),
      Step("batch", {"pipeline", "batch", "runs"}),
      Step("backtest", {"pipeline", "batch", "runs"}), Step("refresh_context", {"runs"})>>
  BY <1>4, Glued
<1> QED
  BY <1>1, <1>2, <1>5

\* What the handlers have in common: typed steps, and which request may
\* follow which.
LEMMA Programs ==
  ASSUME NEW kind \in Kinds
  PROVE  LET p == Program(kind)
         IN /\ Len(p) \in Nat \ {0} /\ DOMAIN p = 1..Len(p)
            /\ \A i \in DOMAIN p : p[i].does \in Requests /\ p[i].holds \subseteq Flags
            /\ p[1].does \in {"list", "get", "analyze", "batch", "strategy", "create", "sentiment_review"}
            /\ p[1].does = "list" <=> kind = "list"
            /\ p[1].does = "analyze" <=> kind \in {"analyze", "pipeline", "scan"}
            /\ \A i \in DOMAIN p : i + 1 \in DOMAIN p =>
                 <<p[i].does, p[i + 1].does>> \in
                   {<<"get", "batch">>, <<"get", "analyze">>, <<"analyze", "batch">>,
                    <<"batch", "backtest">>, <<"backtest", "refresh_context">>,
                    <<"strategy", "paper_watch">>, <<"create", "strategy">>}
            /\ kind # "refresh" => \A i \in DOMAIN p : p[i].does # "refresh_context"
            /\ kind = "accept" => /\ Len(p) = 2
                                  /\ p[1].does = "strategy" /\ p[2].does = "paper_watch"
            /\ kind = "refresh" =>
                 /\ Len(p) = 5
                 /\ p[1].does = "get" /\ p[2].does = "analyze" /\ p[3].does = "batch"
                 /\ p[4].does = "backtest" /\ p[5].does = "refresh_context"
<1>1. CASE kind = "refresh"
  <2> DEFINE p == Program("refresh")
  <2>1. /\ Len(p) = 5 /\ DOMAIN p = 1..5
        /\ p[1] = Step("get", {"runs"})
        /\ p[2] = Step("analyze", {"busy", "pipeline", "runs"})
        /\ p[3] = Step("batch", {"pipeline", "batch", "runs"})
        /\ p[4] = Step("backtest", {"pipeline", "batch", "runs"})
        /\ p[5] = Step("refresh_context", {"runs"})
    BY RefreshProgram
  <2> HIDE DEF p
  <2>2. /\ p[1].does = "get" /\ p[2].does = "analyze" /\ p[3].does = "batch"
        /\ p[4].does = "backtest" /\ p[5].does = "refresh_context"
        /\ \A i \in 1..5 : p[i].holds \subseteq Flags
    BY <2>1 DEF Step, Flags
  <2>3. \A i \in 1..5 : i = 1 \/ i = 2 \/ i = 3 \/ i = 4 \/ i = 5
    OBVIOUS
  <2>4. \A i \in 1..5 : p[i].does \in Requests
    BY <2>2, <2>3 DEF Requests, Patches
  <2>5. \A i \in 1..5 : i + 1 \in 1..5 =>
          <<p[i].does, p[i + 1].does>> \in
            {<<"get", "analyze">>, <<"analyze", "batch">>, <<"batch", "backtest">>,
             <<"backtest", "refresh_context">>}
    BY <2>2, <2>3
  <2> QED
    BY <1>1, <2>1, <2>2, <2>4, <2>5 DEF p
<1>2. CASE kind = "list"
  BY <1>2 DEF Program, Step, Requests, Patches, Flags
<1>3. CASE kind = "open"
  BY <1>3 DEF Program, Step, Requests, Patches, Flags
<1>4. CASE kind = "analyze"
  BY <1>4 DEF Program, Step, Requests, Patches, Flags
<1>5. CASE kind \in {"pipeline", "scan"}
  <2> DEFINE p == Program(kind)
  <2>1. p = <<Step("analyze", {"busy", "pipeline"}), Step("batch", {"pipeline", "batch"}),
              Step("backtest", {"pipeline", "batch"})>>
    BY <1>5 DEF Program, Pipeline
  <2> HIDE DEF p
  <2>2. /\ Len(p) = 3 /\ DOMAIN p = 1..3
        /\ p[1].does = "analyze" /\ p[2].does = "batch" /\ p[3].does = "backtest"
        /\ \A i \in 1..3 : p[i].holds \subseteq Flags
    BY <2>1 DEF Step, Flags
  <2> QED
    BY <1>5, <2>2 DEF p, Requests, Patches
<1>6. CASE kind = "validate"
  BY <1>6 DEF Program, Step, Requests, Patches, Flags
<1>7. CASE kind = "validate_run"
  BY <1>7 DEF Program, Step, Requests, Patches, Flags
<1>8. CASE kind = "accept"
  BY <1>8 DEF Program, Step, Requests, Patches, Flags
<1>9. CASE kind = "save_and_accept"
  BY <1>9 DEF Program, Step, Requests, Patches, Flags
<1>10. CASE kind = "review"
  BY <1>10 DEF Program, Step, Requests, Patches, Flags
<1> QED
  BY <1>1, <1>2, <1>3, <1>4, <1>5, <1>6, <1>7, <1>8, <1>9, <1>10 DEF Kinds

(* The inductive invariant. *)
StoredDoc == [acts : SUBSET Patches, batch : Nat]
Job       == [run : Nat, done : BOOLEAN]
Keys      == Scans \X Nat
PageType  ==
  [known : SUBSET Nat, analysis : Nat, active : Nat, acts : SUBSET Patches, batch : Nat,
   flags : SUBSET Flags, rows : Nat, final : BOOLEAN, opened : Nat, radar : Radars,
   radarRun : Nat, last : Keys \cup {<<>>}, back : BOOLEAN]
Phases    == {"sent", "read", "answered"}
TaskType(phases) ==
  [kind : Kinds, at : Nat, run : Nat, from : Nat, batch : Nat, phase : phases, got : StoredDoc]
ChainStates == {"off", "asked", "timer", "done", "failed"}
SeenType  == [keys : SUBSET Keys, twice : BOOLEAN, mixed : BOOLEAN, late : BOOLEAN]

Types ==
  /\ doc \in Seq(StoredDoc \cup {Unstored}) /\ jobs \in Seq(Job)
  /\ page \in PageType
  /\ chain \in [1..Len(jobs) -> ChainStates]
  /\ tasks \in [1..Slots -> TaskType(Phases) \cup {Free}]
  /\ fails \in Nat /\ presses \in Nat
  /\ seen \in SeenType

\* The batch that d names, if it names one, is a batch of run r.
Own(d, j, r) == d.batch # 0 => d.batch \in 1..Len(j) /\ j[d.batch].run = r

\* A handler in its program: the runs it works on are there, and the batch it
\* has created belongs to the run it works on.
Placed(t, d, j) ==
  /\ t.at \in DOMAIN Program(t.kind)
  /\ t.run \in 0..Len(d)
  /\ Does(t) \notin {"list", "analyze"} => t.run # 0
  /\ t.kind = "refresh" => t.from \in 1..Len(d)
  /\ t.kind = "refresh" /\ t.at > 2 => t.from < t.run
  /\ Own(t, j, t.run)
  /\ Own(t.got, j, Target(t))

\* A handler that waits: what it may wait for.
Waiting(t) ==
  /\ t.batch # 0 => Does(t) \in {"backtest", "refresh_context"}
  /\ t.phase = "sent" => t.got = Unpatched
  /\ t.phase = "read" => Does(t) \in Patches
  /\ t.phase = "answered" => Does(t) \in Patches \cup {"get"}

References ==
  /\ \A r \in Runs : Own(doc[r], jobs, r)
  /\ \A b \in DOMAIN jobs : jobs[b].run \in Runs
  /\ page.known \subseteq Runs
  /\ {page.analysis, page.active, page.opened, page.radarRun} \subseteq 0..Len(doc)
  /\ page.rows \in 0..Len(jobs)
  /\ Own(page, jobs, page.active)
  /\ \A s \in Pending : Placed(tasks[s], doc, jobs) /\ Waiting(tasks[s])

\* Every flag that is up is held by a handler.
FlagsHeld ==
  \A f \in page.flags : \E s \in Pending : f \in Holds(tasks[s], tasks[s].at)

RowsOwned ==
  page.batch # 0 /\ page.rows # 0 /\ Loaded(page.batch) /\ ~seen.late =>
    jobs[page.rows].run = page.active

\* The key a scan for the radar of run n would have.
KeyOf(n) == RadarKey(IF n = 0 THEN "scan_today" ELSE "rescan_today", n)
RadarKept ==
  /\ page.radar = "none" <=> page.radarRun = 0
  /\ \A k \in seen.keys : \E n \in 0..page.radarRun : k = KeyOf(n)
  /\ KeyOf(page.radarRun) \in seen.keys => page.last = KeyOf(page.radarRun)
  /\ ~seen.twice

\* As long as handlers have not overlapped there is one at most, and what it
\* read is what is stored.
Alone ==
  ~seen.mixed =>
    /\ \A s1, s2 \in Pending : s1 = s2
    /\ \A s \in Pending : tasks[s].phase # "sent" => tasks[s].got = doc[Target(tasks[s])]

\* The next answer to the handler brings the page's copy up to date.
Behind(t) ==
  /\ t.run = page.active
  /\ \/ t.phase = "answered" /\ Does(t) \in Patches \ {"refresh_context"}
     \/ t.kind = "accept" /\ t.at = 2
Copied == page.acts = doc[page.active].acts /\ page.batch = doc[page.active].batch

CopyKept ==
  fails = 0 =>
    /\ \A r \in Runs : doc[r] # Unstored
    /\ ~seen.mixed =>
         /\ \A s \in Pending :
              tasks[s].kind = "refresh" /\ tasks[s].at > 2 => page.active = tasks[s].run
         /\ page.active = 0 \/ Copied \/ \E s \in Pending : Behind(tasks[s])

IInv == Types /\ References /\ FlagsHeld /\ RowsOwned /\ RadarKept /\ Alone /\ CopyKept

LEMMA Stated == IInv => TypeOK /\ IdleMeansFree /\ RowsAreOwn /\ CopyIsCurrent /\ AutoScanOnce
<1> SUFFICES ASSUME IInv PROVE TypeOK /\ IdleMeansFree /\ RowsAreOwn /\ CopyIsCurrent /\ AutoScanOnce
  OBVIOUS
<1> USE DEF IInv
<1>1. TypeOK
  <2>1. \A r \in Runs : doc[r].acts \subseteq Patches \cup {"none"} /\ doc[r].batch \in 0..Len(jobs)
    BY DEF Types, References, Runs, StoredDoc, Unstored, Own
  <2>2. /\ \A b \in DOMAIN jobs : jobs[b].run \in Runs /\ jobs[b].done \in BOOLEAN
        /\ {page.analysis, page.active, page.opened, page.radarRun} \subseteq Runs \cup {0}
    <3>1. \A b \in DOMAIN jobs : jobs[b] \in Job
      BY DEF Types
    <3>2. Runs = 1..Len(doc)
      BY DEF Types, Runs
    <3> QED
      BY <3>1, <3>2 DEF References, Job
  <2>3. /\ {page.batch, page.rows} \subseteq 0..Len(jobs) /\ page.acts \subseteq Patches
        /\ page.flags \subseteq Flags
    BY DEF Types, References, PageType, Own
  <2>4. \A b \in DOMAIN chain : chain[b] \in ChainStates
    BY DEF Types
  <2>5. \A s \in Pending : tasks[s].at \in DOMAIN Program(tasks[s].kind)
    BY DEF References, Placed
  <2> QED
    BY <2>1, <2>2, <2>3, <2>4, <2>5 DEF TypeOK, Flags, ChainStates
<1>2. IdleMeansFree
  BY DEF IdleMeansFree, FlagsHeld, Types, PageType
<1>3. RowsAreOwn
  BY DEF RowsAreOwn, Shown, RowsOwned
<1>4. CopyIsCurrent
  BY DEF CopyIsCurrent, CopyKept, Copied
<1>5. AutoScanOnce
  BY DEF AutoScanOnce, RadarKept
<1> QED
  BY <1>1, <1>2, <1>3, <1>4, <1>5

LEMMA FreeOrTyped ==
  ASSUME Types, NEW s \in 1..Slots, tasks[s] # Free
  PROVE  s \in Pending /\ tasks[s] \in TaskType(Phases)
BY DEF Types, Pending

LEMMA PendingTyped ==
  ASSUME Types, NEW s \in Pending
  PROVE  /\ s \in 1..Slots /\ tasks[s] \in TaskType(Phases)
         /\ tasks[s].kind \in Kinds /\ tasks[s].kind # "none"
BY DEF Types, Pending, TaskType, Kinds

LEMMA InitHolds == Init => IInv
<1> SUFFICES ASSUME Init PROVE IInv
  OBVIOUS
<1> USE MoneyPageAssumption
<1>1. /\ Len(doc) = Stored /\ DOMAIN doc = 1..Stored
      /\ Len(jobs) = Stored /\ DOMAIN jobs = 1..Stored
      /\ \A r \in 1..Stored : doc[r] = [acts |-> {"backtest"}, batch |-> r]
      /\ \A r \in 1..Stored : jobs[r] = [run |-> r, done |-> TRUE]
      /\ doc \in Seq(StoredDoc \cup {Unstored}) /\ jobs \in Seq(Job)
  <2>1. \A r \in 1..Stored : [acts |-> {"backtest"}, batch |-> r] \in StoredDoc
    BY DEF StoredDoc, Patches
  <2>2. \A r \in 1..Stored : [run |-> r, done |-> TRUE] \in Job
    BY DEF Job
  <2> QED
    BY <2>1, <2>2 DEF Init
<1>2. Task("list", 0) \in TaskType(Phases)
  BY DEF Task, TaskType, Phases, Kinds, Unpatched, StoredDoc
<1>3. page \in {Mounted, AtRest} /\ page \in PageType
  <2>1. Mounted \in PageType
    BY DEF Mounted, PageType, Patches, Flags, Radars
  <2>2. 1..Stored \in SUBSET Nat /\ {"backtest"} \in SUBSET Patches /\ {} \in SUBSET Flags
    BY DEF Patches
  <2>3. AtRest \in PageType
    BY <2>1, <2>2 DEF AtRest, PageType
  <2> QED
    BY <2>1, <2>3 DEF Init
<1>4. Types
  BY <1>1, <1>2, <1>3 DEF Init, Types, SeenType, ChainStates
<1>5. CASE page = Mounted
  <2>1. /\ Pending = {1} /\ tasks[1] = Task("list", 0)
    <3>1. Mounted.active = 0 /\ AtRest.active = 1
      BY DEF Mounted, AtRest
    <3>2. tasks = [s \in 1..Slots |-> IF s = 1 THEN Task("list", 0) ELSE Free]
      BY <1>5, <3>1 DEF Init
    <3> QED
      BY <3>2 DEF Pending, Task, Free
  <2>2. /\ Program("list")[1].does = "list" /\ Program("list")[1].holds = {"runs"}
        /\ DOMAIN Program("list") = {1}
    BY DEF Program, Step
  <2>3. References
    <3>1. /\ \A r \in Runs : Own(doc[r], jobs, r)
          /\ \A b \in DOMAIN jobs : jobs[b].run \in Runs
      BY <1>1 DEF Runs, Own
    <3>2. /\ page.known \subseteq Runs
          /\ {page.analysis, page.active, page.opened, page.radarRun} \subseteq 0..Len(doc)
          /\ page.rows \in 0..Len(jobs)
          /\ Own(page, jobs, page.active)
      BY <1>1, <1>5 DEF Mounted, Own
    <3>3. Placed(tasks[1], doc, jobs) /\ Waiting(tasks[1])
      BY <1>1, <2>1, <2>2 DEF Placed, Waiting, Task, Does, Own, Unpatched
    <3> QED
      BY <2>1, <3>1, <3>2, <3>3 DEF References
  <2>4. FlagsHeld
    BY <1>5, <2>1, <2>2 DEF FlagsHeld, Mounted, Holds, Task
  <2>5. RowsOwned /\ RadarKept /\ Alone /\ CopyKept
    BY <1>1, <1>5, <2>1 DEF Init, Mounted, RowsOwned, RadarKept, Alone, CopyKept, Task, Unstored, Runs
  <2> QED
    BY <1>4, <2>3, <2>4, <2>5 DEF IInv
<1>6. CASE page = AtRest
  <2>1. Pending = {}
    <3>1. Mounted.active = 0 /\ AtRest.active = 1
      BY DEF Mounted, AtRest
    <3>2. tasks = [s \in 1..Slots |-> Free]
      BY <1>6, <3>1 DEF Init
    <3> QED
      BY <3>2 DEF Pending
  <2>2. References
    BY <1>1, <1>6, <2>1 DEF References, Own, Runs, AtRest, Mounted
  <2>3. FlagsHeld /\ RadarKept
    BY <1>6 DEF Init, FlagsHeld, RadarKept, AtRest, Mounted
  <2>4. RowsOwned /\ Alone /\ CopyKept
    BY <1>1, <1>6, <2>1 DEF Init, AtRest, Mounted, RowsOwned, Alone, CopyKept, Unstored, Runs, Copied
  <2> QED
    BY <1>4, <2>2, <2>3, <2>4 DEF IInv
<1> QED
  BY <1>3, <1>5, <1>6

(* Starting a handler. *)
LEMMA BeginKeeps ==
  ASSUME IInv, NEW kind \in Kinds, NEW run \in 0..Len(doc), NEW last, NEW auto,
         Begin(kind, run, last, auto),
         kind \in {"list", "analyze", "pipeline", "scan"} \/ run # 0,
         auto = "radar" => last = KeyOf(page.radarRun) /\ last # page.last,
         auto # "radar" => last = page.last
  PROVE  IInv'
<1> USE DEF IInv
<1>0. PICK s \in 1..Slots \ Pending :
        /\ tasks' = [tasks EXCEPT ![s] = Task(kind, run)]
        /\ page' = [page EXCEPT !.flags = @ \cup Program(kind)[1].holds, !.last = last,
                      !.back = @ \/ auto = "return", !.opened = IF auto = "open" THEN run ELSE @]
        /\ seen' = [seen EXCEPT !.mixed = @ \/ Pending # {},
                      !.keys = IF auto = "radar" THEN @ \cup {last} ELSE @,
                      !.twice = @ \/ (auto = "radar" /\ last \in seen.keys)]
        /\ UNCHANGED <<doc, jobs, chain, fails>>
        /\ presses' \in {presses, presses + 1}
  BY DEF Begin
<1> DEFINE t == Task(kind, run)
<1>1. /\ t \in TaskType(Phases) /\ t # Free
      /\ t.kind = kind /\ t.at = 1 /\ t.run = run /\ t.from = run /\ t.batch = 0
      /\ t.phase = "sent" /\ t.got = Unpatched
  BY DEF Types, Task, TaskType, Phases, StoredDoc, Unpatched, Free, Kinds
<1>2. /\ page \in PageType /\ seen \in SeenType
      /\ Len(jobs) \in Nat /\ Len(doc) \in Nat
  BY DEF Types
<1>3. /\ Len(Program(kind)) \in Nat \ {0} /\ DOMAIN Program(kind) = 1..Len(Program(kind))
      /\ Program(kind)[1].holds \subseteq Flags
      /\ Program(kind)[1].does \in {"list", "get", "analyze", "batch", "strategy", "create",
                                     "sentiment_review"}
      /\ Program(kind)[1].does \in {"list", "analyze"} =>
           kind \in {"list", "analyze", "pipeline", "scan"}
      /\ kind \in {"list", "analyze", "pipeline", "scan"} =>
           Program(kind)[1].does \in {"list", "analyze"}
  BY Programs
<1>4. last \in Keys \cup {<<>>} /\ KeyOf(page.radarRun) \in Keys
  <2>1. KeyOf(page.radarRun) \in Keys
    BY <1>2 DEF PageType, KeyOf, RadarKey, Keys, Scans
  <2> QED
    BY <1>2, <2>1 DEF PageType
<1>5. /\ Pending' = Pending \cup {s}
      /\ tasks'[s] = t
      /\ \A p \in Pending : tasks'[p] = tasks[p] /\ p # s
  BY <1>0, <1>1 DEF Pending, Types
<1>6. Types'
  <2>1. page' \in PageType
    <3> DEFINE back == page.back \/ auto = "return"
               opened == IF auto = "open" THEN run ELSE page.opened
               flags == page.flags \cup Program(kind)[1].holds
    <3>1. page' = [page EXCEPT !.flags = flags, !.last = last, !.back = back, !.opened = opened]
      BY <1>0
    <3>2. back \in BOOLEAN /\ opened \in Nat /\ flags \in SUBSET Flags
      BY <1>2, <1>3 DEF PageType
    <3> HIDE DEF back, opened, flags
    <3> QED
      BY <1>2, <1>4, <3>1, <3>2 DEF PageType
  <2>2. tasks' \in [1..Slots -> TaskType(Phases) \cup {Free}]
    BY <1>0, <1>1 DEF Types
  <2>3. seen' \in SeenType
    <3>1. auto = "radar" => last \in Keys
      BY <1>4
    <3> QED
      BY <1>0, <1>2, <3>1 DEF SeenType
  <2> QED
    BY <1>0, <2>1, <2>2, <2>3 DEF Types
<1>7. References'
  <2>1. /\ \A r \in Runs' : Own(doc'[r], jobs', r)
        /\ \A b \in DOMAIN jobs' : jobs'[b].run \in Runs'
    BY <1>0 DEF References, Runs
  <2>2. /\ page'.known = page.known /\ page'.analysis = page.analysis /\ page'.active = page.active
        /\ page'.radarRun = page.radarRun /\ page'.rows = page.rows /\ page'.batch = page.batch
        /\ page'.opened \in {page.opened, run}
    BY <1>0, <1>2 DEF PageType
  <2>3. /\ page'.known \subseteq Runs'
        /\ {page'.analysis, page'.active, page'.opened, page'.radarRun} \subseteq 0..Len(doc')
        /\ page'.rows \in 0..Len(jobs')
        /\ Own(page', jobs', page'.active)
    BY <1>0, <2>2 DEF References, Runs, Own
  <2>4. Placed(t, doc, jobs) /\ Waiting(t)
    <3>1. 1 \in DOMAIN Program(kind)
      BY <1>3
    <3>2. kind = "refresh" => run \in 1..Len(doc)
      BY <1>2
    <3>3. /\ Own(t, jobs, t.run) /\ Own(t.got, jobs, Target(t))
      BY <1>1 DEF Own, Unpatched
    <3>4. Does(t) \notin {"list", "analyze"} => t.run # 0
      BY <1>1, <1>3 DEF Does
    <3> HIDE DEF t
    <3> QED
      BY <1>1, <3>1, <3>2, <3>3, <3>4 DEF Placed, Waiting
  <2>5. \A p \in Pending' : Placed(tasks'[p], doc', jobs') /\ Waiting(tasks'[p])
    BY <1>0, <1>5, <2>4 DEF References
  <2> QED
    BY <2>1, <2>3, <2>5 DEF References
<1>8. FlagsHeld'
  <2>1. page'.flags = page.flags \cup Program(kind)[1].holds
    BY <1>0, <1>2 DEF PageType
  <2>2. Holds(t, 1) = Program(kind)[1].holds
    BY <1>1, <1>3 DEF Holds
  <2>3. ASSUME NEW f \in page'.flags
        PROVE  \E p \in Pending' : f \in Holds(tasks'[p], tasks'[p].at)
    BY <1>1, <1>5, <2>1, <2>2 DEF FlagsHeld
  <2> QED
    BY <2>3 DEF FlagsHeld, Holds
<1>9. RowsOwned'
  BY <1>0, <1>2 DEF RowsOwned, Loaded, PageType, SeenType
<1>10. RadarKept'
  <2>1. /\ page'.radar = page.radar /\ page'.radarRun = page.radarRun /\ page'.last = last
        /\ seen'.keys = IF auto = "radar" THEN seen.keys \cup {last} ELSE seen.keys
        /\ seen'.twice = (seen.twice \/ (auto = "radar" /\ last \in seen.keys))
    BY <1>0, <1>2 DEF PageType, SeenType
  <2>2. page.radarRun \in Nat
    BY <1>2 DEF PageType
  <2>3. CASE auto = "radar"
    <3>1. last \notin seen.keys
      BY <2>3 DEF RadarKept
    <3>2. \A k \in seen'.keys : \E n \in 0..page'.radarRun : k = KeyOf(n)
      BY <2>1, <2>2, <2>3 DEF RadarKept
    <3> QED
      BY <2>1, <2>3, <3>1, <3>2 DEF RadarKept
  <2>4. CASE auto # "radar"
    BY <2>1, <2>4 DEF RadarKept
  <2> QED
    BY <2>3, <2>4
<1>11. Alone' /\ CopyKept'
  <2>1. seen'.mixed = (seen.mixed \/ Pending # {})
    BY <1>0, <1>2 DEF SeenType
  <2>2. page'.active = page.active /\ page'.acts = page.acts /\ page'.batch = page.batch
    BY <1>0, <1>2 DEF PageType
  <2>3. Alone'
    BY <1>1, <1>5, <2>1 DEF Alone
  <2>4. CopyKept'
    <3>1. ASSUME fails' = 0, ~seen'.mixed
          PROVE  /\ \A p \in Pending' :
                      tasks'[p].kind = "refresh" /\ tasks'[p].at > 2 => page'.active = tasks'[p].run
                 /\ page'.active = 0 \/ Copied'
      <4>1. fails = 0 /\ ~seen.mixed /\ Pending = {}
        BY <1>0, <2>1, <3>1
      <4>2. page.active = 0 \/ Copied
        BY <4>1 DEF CopyKept
      <4>3. page'.active = 0 \/ Copied'
        BY <1>0, <2>2, <4>2 DEF Copied
      <4>4. \A p \in Pending' : tasks'[p].at = 1
        BY <1>1, <1>5, <4>1
      <4> QED
        BY <4>3, <4>4
    <3> QED
      BY <1>0, <3>1 DEF CopyKept, Runs
  <2> QED
    BY <2>3, <2>4
<1> QED
  BY <1>6, <1>7, <1>8, <1>9, <1>10, <1>11

LEMMA PressKeeps ==
  ASSUME IInv, NEW kind \in Pressed, Press(kind)
  PROVE  IInv'
<1> USE DEF IInv
<1>1. kind \in Kinds
  BY MoneyPageAssumption
<1>2. PICK run \in Targets(kind) : Begin(kind, run, page.last, "no")
  BY DEF Press
<1>3. /\ run \in 0..Len(doc)
      /\ kind \in {"list", "analyze", "pipeline", "scan"} \/ run # 0
  <2>1. page.known \subseteq 1..Len(doc) /\ page.analysis \in 0..Len(doc) /\ Len(doc) \in Nat
    BY DEF References, Types, Runs
  <2>2. CASE kind \in {"open", "validate_run", "refresh"}
    BY <2>1, <2>2 DEF Targets
  <2>3. CASE kind \in {"validate", "review"}
    BY <2>1, <2>3 DEF Targets
  <2>4. CASE kind \in {"accept", "save_and_accept"}
    BY <2>1, <2>4 DEF Targets
  <2>5. CASE kind \in {"list", "analyze", "pipeline", "scan"}
    BY <2>1, <2>5 DEF Targets
  <2> QED
    BY <1>1, <2>2, <2>3, <2>4, <2>5 DEF Kinds
<1> QED
  BY <1>1, <1>2, <1>3, BeginKeeps

LEMMA AutoOpenKeeps == IInv /\ AutoOpen => IInv'
<1> SUFFICES ASSUME IInv, AutoOpen PROVE IInv'
  OBVIOUS
<1>1. PICK run \in page.known \ {page.opened} : Begin("open", run, page.last, "open")
  BY DEF AutoOpen
<1>2. run \in 0..Len(doc) /\ run # 0
  BY DEF IInv, References, Types, Runs
<1> QED
  BY <1>1, <1>2, BeginKeeps DEF Kinds

LEMMA AutoScanKeeps == IInv /\ AutoScan => IInv'
<1> SUFFICES ASSUME IInv, AutoScan PROVE IInv'
  OBVIOUS
<1>0. 0 \in 0..Len(doc)
  BY DEF IInv, Types
<1>1. CASE Back
  <2>1. Begin("scan", 0, page.last, "return")
    BY <1>1 DEF AutoScan
  <2> QED
    BY <1>0, <2>1, BeginKeeps DEF Kinds
<1>2. CASE ~Back
  <2> DEFINE offer == RadarOffer(page.radar)
             last == RadarKey(offer, page.radarRun)
  <2>1. /\ offer \in {"scan_today", "rescan_today"}
        /\ page.last # last
        /\ Begin("scan", 0, last, "radar")
    BY <1>2 DEF AutoScan, AutoRadar
  <2>2. last = KeyOf(page.radarRun)
    <3>1. page.radar \in Radars /\ (page.radar = "none" <=> page.radarRun = 0)
      BY DEF IInv, Types, PageType, RadarKept
    <3> QED
      BY <2>1, <3>1 DEF RadarOffer, Radars, KeyOf
  <2> HIDE DEF last
  <2> QED
    BY <1>0, <2>1, <2>2, BeginKeeps DEF Kinds
<1> QED
  BY <1>1, <1>2

(* The gateway serves a request. *)
LEMMA TargetIsRun ==
  ASSUME Types, NEW t \in TaskType(Phases \cup {"failed"}), Placed(t, doc, jobs),
         Does(t) \notin {"list", "analyze"}
  PROVE  Target(t) \in 1..Len(doc) /\ Target(t) = IF Does(t) = "refresh_context" THEN t.from ELSE t.run
<1>1. Does(t) = "refresh_context" => t.kind = "refresh"
  BY Programs DEF Does, Placed, TaskType
<1>2. Len(doc) \in Nat
  BY DEF Types
<1> QED
  BY <1>1, <1>2 DEF Placed, Target

\* A request is served without a change of what is stored for other runs.
LEMMA ServedKeeps ==
  ASSUME IInv, NEW s \in 1..Slots, tasks[s] # Free,
         NEW phase \in {"read", "answered"}, NEW got \in StoredDoc,
         tasks' = [tasks EXCEPT ![s] = [tasks[s] EXCEPT !.phase = phase, !.got = got]],
         phase = "read" => Does(tasks[s]) \in Patches,
         phase = "answered" => Does(tasks[s]) \in Patches \cup {"get"},
         Own(got, jobs, Target(tasks[s])),
         UNCHANGED <<jobs, page, chain, presses, fails, seen>>
  PROVE  /\ page \in PageType /\ seen \in SeenType
         /\ Pending' = Pending /\ s \in Pending
         /\ tasks' \in [1..Slots -> TaskType(Phases) \cup {Free}]
         /\ tasks'[s].phase = phase /\ tasks'[s].got = got
         /\ tasks'[s].kind = tasks[s].kind /\ tasks'[s].at = tasks[s].at
         /\ tasks'[s].run = tasks[s].run /\ tasks'[s].from = tasks[s].from
         /\ \A p \in 1..Slots \ {s} : tasks'[p] = tasks[p]
         /\ Does(tasks'[s]) = Does(tasks[s]) /\ Target(tasks'[s]) = Target(tasks[s])
         /\ Placed(tasks'[s], doc, jobs) /\ Waiting(tasks'[s])
         /\ FlagsHeld' /\ RadarKept' /\ RowsOwned'
<1> USE DEF IInv
<1>1. s \in Pending /\ tasks[s] \in TaskType(Phases)
  BY FreeOrTyped
<1> DEFINE t == [tasks[s] EXCEPT !.phase = phase, !.got = got]
<1>2. /\ t \in TaskType(Phases) /\ t.phase = phase /\ t.got = got
      /\ t.kind = tasks[s].kind /\ t.at = tasks[s].at /\ t.run = tasks[s].run
      /\ t.from = tasks[s].from /\ t.batch = tasks[s].batch
      /\ t.kind # "none"
  BY <1>1 DEF TaskType, Kinds, Phases
<1>3. t # Free
  BY <1>2 DEF Free
<1>4. /\ tasks'[s] = t /\ \A p \in 1..Slots \ {s} : tasks'[p] = tasks[p]
      /\ tasks' \in [1..Slots -> TaskType(Phases) \cup {Free}]
  BY <1>2 DEF Types
<1> HIDE DEF t
<1>5. Pending' = Pending
  BY <1>1, <1>3, <1>4 DEF Pending
<1>6. Does(t) = Does(tasks[s]) /\ Target(t) = Target(tasks[s])
  BY <1>2 DEF Does, Target
<1>7. Placed(t, doc, jobs) /\ Waiting(t)
  <2>1. Placed(tasks[s], doc, jobs) /\ Waiting(tasks[s])
    BY <1>1 DEF References
  <2> QED
    BY <1>2, <1>6, <2>1 DEF Placed, Waiting, Own
<1>8. FlagsHeld'
  <2>1. \A p \in Pending : tasks'[p].kind = tasks[p].kind /\ tasks'[p].at = tasks[p].at
    BY <1>2, <1>4 DEF Pending
  <2> QED
    BY <1>5, <2>1 DEF FlagsHeld, Holds
<1>9. RadarKept' /\ RowsOwned'
  BY DEF RadarKept, RowsOwned, Loaded
<1> QED
  BY <1>1, <1>2, <1>4, <1>5, <1>6, <1>7, <1>8, <1>9 DEF Types

LEMMA ReadKeeps ==
  ASSUME IInv, NEW s \in 1..Slots, tasks[s] # Free, tasks[s].phase = "sent",
         NEW phase \in {"read", "answered"},
         phase = "read" => Does(tasks[s]) \in Patches,
         phase = "answered" => Does(tasks[s]) = "get",
         Target(tasks[s]) \in Kept,
         tasks' = [tasks EXCEPT ![s] = [tasks[s] EXCEPT !.phase = phase, !.got = doc[Target(tasks[s])]]],
         UNCHANGED <<doc, jobs, page, chain, presses, fails, seen>>
  PROVE  IInv'
<1> USE DEF IInv
<1> DEFINE got == doc[Target(tasks[s])]
<1>1. got \in StoredDoc /\ Own(got, jobs, Target(tasks[s]))
  BY DEF Kept, Runs, Types, References
<1>2. /\ phase \in {"read", "answered"}
      /\ tasks' = [tasks EXCEPT ![s] = [tasks[s] EXCEPT !.phase = phase, !.got = got]]
  BY DEF Phases
<1> HIDE DEF got
<1>9. /\ UNCHANGED <<jobs, page, chain, presses, fails, seen>>
      /\ phase = "answered" => Does(tasks[s]) \in Patches \cup {"get"}
  OBVIOUS
<1>3. /\ Pending' = Pending /\ s \in Pending
      /\ tasks' \in [1..Slots -> TaskType(Phases) \cup {Free}]
      /\ tasks'[s].phase = phase /\ tasks'[s].got = got
      /\ tasks'[s].kind = tasks[s].kind /\ tasks'[s].at = tasks[s].at
      /\ tasks'[s].run = tasks[s].run
      /\ \A p \in 1..Slots \ {s} : tasks'[p] = tasks[p]
      /\ Does(tasks'[s]) = Does(tasks[s]) /\ Target(tasks'[s]) = Target(tasks[s])
      /\ Placed(tasks'[s], doc, jobs) /\ Waiting(tasks'[s])
      /\ FlagsHeld' /\ RadarKept' /\ RowsOwned'
  <2> HIDE DEF IInv
  <2> QED
    BY <1>1, <1>2, <1>9, ServedKeeps
<1>4. Pending \subseteq 1..Slots
  BY DEF Pending
<1>5. Types'
  BY <1>3 DEF Types
<1>6. References'
  BY <1>3, <1>4 DEF References, Runs
<1>7. Alone'
  BY <1>3, <1>4 DEF Alone, got
<1>8. CopyKept'
  <2>1. \A p \in Pending : Behind(tasks[p]) => Behind(tasks[p])'
    <3>1. ASSUME NEW p \in Pending, Behind(tasks[p])
          PROVE  /\ tasks'[p].run = page'.active
                 /\ \/ tasks'[p].phase = "answered" /\ Does(tasks'[p]) \in Patches \ {"refresh_context"}
                    \/ tasks'[p].kind = "accept" /\ tasks'[p].at = 2
      BY <1>3, <1>4, <3>1 DEF Behind
    <3> QED
      BY <3>1 DEF Behind, Does
  <2>2. \A p \in Pending : tasks'[p].kind = tasks[p].kind /\ tasks'[p].at = tasks[p].at
                           /\ tasks'[p].run = tasks[p].run
    BY <1>3, <1>4
  <2> QED
    BY <1>3, <2>1, <2>2 DEF CopyKept, Copied, Runs
<1> QED
  BY <1>3, <1>5, <1>6, <1>7, <1>8

LEMMA GetRunKeeps == \A s \in 1..Slots : IInv /\ GetRun(s) => IInv'
<1> SUFFICES ASSUME NEW s \in 1..Slots, IInv, GetRun(s) PROVE IInv'
  OBVIOUS
<1>1. Target(tasks[s]) = tasks[s].run
  BY DEF GetRun, Target
<1> QED
  BY <1>1, ReadKeeps DEF GetRun, Keep

LEMMA FindRunKeeps == \A s \in 1..Slots : IInv /\ FindRun(s) => IInv'
BY ReadKeeps DEF FindRun, Keep

LEMMA Upsertion ==
  ASSUME NEW old \in StoredDoc, NEW id \in Patches, NEW batch \in Nat
  PROVE  /\ Upserted(old, id, batch) \in StoredDoc
         /\ old.acts \subseteq Upserted(old, id, batch).acts
         /\ Upserted(old, id, batch).batch = IF id = "backtest" THEN batch ELSE old.batch
         /\ Upserted(old, id, batch) # Unstored
BY DEF StoredDoc, Upserted, Unstored, Patches

\* What a replacement stores: the actions that were read and one more.
LEMMA Replacement ==
  ASSUME IInv, NEW s \in 1..Slots, ReplaceActions(s)
  PROVE  LET t   == tasks[s]
             new == Upserted(t.got, Does(t), t.batch)
         IN /\ s \in Pending /\ t \in TaskType(Phases) /\ Does(t) \in Patches
            /\ Target(t) \in 1..Len(doc) /\ t.phase = "read"
            /\ new \in StoredDoc /\ new # Unstored /\ t.got.acts \subseteq new.acts
            /\ doc' \in Seq(StoredDoc \cup {Unstored}) /\ Len(doc') = Len(doc)
            /\ \A r \in 1..Len(doc) : doc'[r] = IF r = Target(t) THEN new ELSE doc[r]
<1> USE DEF IInv
<1> DEFINE t == tasks[s]
<1>1. s \in Pending /\ t \in TaskType(Phases) /\ t.phase = "read"
  BY FreeOrTyped DEF ReplaceActions
<1>2. Placed(t, doc, jobs) /\ Does(t) \in Patches
  BY <1>1 DEF References, Waiting
<1>3. Target(t) \in 1..Len(doc)
  BY <1>1, <1>2, TargetIsRun DEF TaskType, Patches
<1>4. t.got \in StoredDoc /\ t.batch \in Nat
  BY <1>1 DEF TaskType
<1> DEFINE new == Upserted(t.got, Does(t), t.batch)
<1>5. new \in StoredDoc /\ new # Unstored /\ t.got.acts \subseteq new.acts
  BY <1>2, <1>4, Upsertion
<1>6. doc' = [doc EXCEPT ![Target(t)] = new]
  BY DEF ReplaceActions
<1> HIDE DEF new
<1>7. doc \in Seq(StoredDoc \cup {Unstored}) /\ new \in StoredDoc \cup {Unstored}
  BY <1>5 DEF Types
<1>8. /\ doc' \in Seq(StoredDoc \cup {Unstored}) /\ Len(doc') = Len(doc)
      /\ \A r \in 1..Len(doc) : doc'[r] = IF r = Target(t) THEN new ELSE doc[r]
  BY <1>3, <1>6, <1>7, ExceptSeq
<1> QED
  BY <1>1, <1>2, <1>3, <1>5, <1>8 DEF new

LEMMA ReplaceActionsKeeps == \A s \in 1..Slots : IInv /\ ReplaceActions(s) => IInv'
<1> SUFFICES ASSUME NEW s \in 1..Slots, IInv, ReplaceActions(s) PROVE IInv'
  OBVIOUS
<1> USE DEF IInv
<1> DEFINE t   == tasks[s]
           new == Upserted(t.got, Does(t), t.batch)
<1>1. /\ s \in Pending /\ t \in TaskType(Phases) /\ Does(t) \in Patches
      /\ Target(t) \in 1..Len(doc) /\ t.phase = "read"
      /\ new \in StoredDoc /\ new # Unstored
      /\ doc' \in Seq(StoredDoc \cup {Unstored}) /\ Len(doc') = Len(doc)
      /\ \A r \in 1..Len(doc) : doc'[r] = IF r = Target(t) THEN new ELSE doc[r]
  BY Replacement
<1>2. Placed(t, doc, jobs)
  BY <1>1 DEF References
<1>3. Own(new, jobs, Target(t))
  <2>1. new.batch = IF Does(t) = "backtest" THEN t.batch ELSE t.got.batch
    BY DEF Upserted
  <2>2. Does(t) = "backtest" => Target(t) = t.run
    BY DEF Target
  <2> QED
    BY <1>2, <2>1, <2>2 DEF Placed, Own
<1>4. "answered" \in {"read", "answered"}
  OBVIOUS
<1> HIDE DEF new
<1>5. /\ Pending' = Pending
      /\ tasks' \in [1..Slots -> TaskType(Phases) \cup {Free}]
      /\ tasks'[s].phase = "answered" /\ tasks'[s].got = new
      /\ tasks'[s].kind = t.kind /\ tasks'[s].at = t.at /\ tasks'[s].run = t.run
      /\ \A p \in 1..Slots \ {s} : tasks'[p] = tasks[p]
      /\ Does(tasks'[s]) = Does(t) /\ Target(tasks'[s]) = Target(t)
      /\ Placed(tasks'[s], doc, jobs) /\ Waiting(tasks'[s])
      /\ FlagsHeld' /\ RadarKept' /\ RowsOwned'
  <2>1. tasks' = [tasks EXCEPT ![s] = [tasks[s] EXCEPT !.phase = "answered", !.got = new]]
    BY DEF ReplaceActions, Keep, new
  <2>2. tasks[s] # Free /\ UNCHANGED <<jobs, page, chain, presses, fails, seen>>
    BY DEF ReplaceActions
  <2> QED
    BY <1>1, <1>3, <1>4, <2>1, <2>2, ServedKeeps
<1>6. /\ Pending \subseteq 1..Slots /\ DOMAIN doc' = DOMAIN doc
      /\ UNCHANGED <<jobs, page, chain, presses, fails, seen>>
  BY <1>1 DEF Pending, ReplaceActions, Types
<1>7. Types'
  BY <1>1, <1>5, <1>6 DEF Types
<1>8. References'
  <2>1. \A r \in Runs' : Own(doc'[r], jobs', r)
    BY <1>1, <1>3, <1>6 DEF References, Runs, Types
  <2>2. \A p \in Pending' : Placed(tasks'[p], doc', jobs') /\ Waiting(tasks'[p])
    <3>1. \A p \in Pending' : Placed(tasks'[p], doc, jobs) /\ Waiting(tasks'[p])
      BY <1>5, <1>6 DEF References
    <3> QED
      BY <1>1, <1>6, <3>1 DEF Placed
  <2> QED
    BY <1>1, <1>6, <2>1, <2>2 DEF References, Runs
<1>9. Alone'
  <2>1. ASSUME ~seen'.mixed PROVE Pending' = {s}
    BY <1>1, <1>5, <1>6, <2>1 DEF Alone
  <2>2. tasks'[s].got = doc'[Target(tasks'[s])]
    BY <1>1, <1>5
  <2> QED
    BY <2>1, <2>2 DEF Alone, Target, Does
<1>10. CopyKept'
  <2>1. ASSUME fails' = 0 PROVE \A r \in Runs' : doc'[r] # Unstored
    BY <1>1, <1>6, <2>1 DEF CopyKept, Runs, Types
  <2>2. ASSUME fails' = 0, ~seen'.mixed
        PROVE  /\ \A p \in Pending' :
                    tasks'[p].kind = "refresh" /\ tasks'[p].at > 2 => page'.active = tasks'[p].run
               /\ page'.active = 0 \/ Copied' \/ \E p \in Pending' : Behind(tasks[p])'
    <3>1. Pending = {s}
      BY <1>1, <1>6, <2>2 DEF Alone
    <3>2. t.kind = "refresh" /\ t.at > 2 => page.active = t.run
      BY <1>1, <1>6, <2>2 DEF CopyKept
    <3>3. page.active = 0 \/ Copied \/ Behind(t)
      BY <1>6, <2>2, <3>1 DEF CopyKept
    <3>4. CASE page.active # Target(t) /\ Copied
      <4>1. page.active = 0 \/ doc'[page.active] = doc[page.active]
        BY <1>1, <3>4 DEF References, Types
      <4> QED
        BY <1>5, <1>6, <3>1, <3>2, <3>4, <4>1 DEF Copied
    <3>5. CASE page.active = Target(t) /\ Copied
      <4>1. Does(t) # "refresh_context"
        <5> SUFFICES ASSUME Does(t) = "refresh_context" PROVE FALSE
          OBVIOUS
        <5>1. t.kind = "refresh" /\ t.at = 5
          <6>1. /\ t.kind \in Kinds /\ t.at \in DOMAIN Program(t.kind)
            BY <1>1, <1>2 DEF TaskType, Placed
          <6>2. t.kind = "refresh"
            BY <6>1, Programs DEF Does
          <6>3. t.at \in {1, 2, 3, 4, 5}
            BY <6>1, <6>2, Programs
          <6>4. LET p == Program("refresh")
                IN /\ p[1].does = "get" /\ p[2].does = "analyze" /\ p[3].does = "batch"
                   /\ p[4].does = "backtest"
            BY Programs DEF Kinds
          <6> QED
            BY <6>2, <6>3, <6>4 DEF Does
        <5>2. page.active = t.run /\ t.from < t.run /\ page.active = t.from
          BY <1>2, <3>2, <3>5, <5>1 DEF Placed, Target
        <5>3. t.run \in Nat /\ t.from \in Nat
          BY <1>1 DEF TaskType
        <5> QED
          BY <5>2, <5>3
      <4>2. t.run = page.active
        BY <3>5, <4>1 DEF Target
      <4>3. Behind(tasks[s])'
        BY <1>1, <1>5, <1>6, <4>1, <4>2 DEF Behind, Does
      <4> QED
        BY <1>5, <1>6, <3>1, <3>2, <4>3
    <3>6. CASE Behind(t)
      <4>1. t.run = page.active /\ t.kind = "accept" /\ t.at = 2
        BY <1>1, <3>6 DEF Behind
      <4>2. Behind(tasks[s])'
        BY <1>5, <1>6, <4>1 DEF Behind
      <4> QED
        BY <1>5, <1>6, <3>1, <3>2, <4>2
    <3>7. CASE page.active = 0
      BY <1>5, <1>6, <3>1, <3>2, <3>7
    <3> QED
      BY <3>3, <3>4, <3>5, <3>6, <3>7
  <2> QED
    BY <2>1, <2>2 DEF CopyKept
<1> QED
  BY <1>5, <1>7, <1>8, <1>9, <1>10

(* The page goes on. *)

\* The answer makes the run of the handler the one that is shown.
Shows(t) ==
  \/ Does(t) = "get" /\ t.kind # "refresh"
  \/ Does(t) \in Patches \ {"refresh_context"} /\ ~(t.kind = "accept" /\ t.at = 1)

LEMMA WithRunIs ==
  ASSUME page \in PageType, NEW t \in TaskType(Phases \cup {"failed"})
  PROVE  LET q == WithRun(t)
         IN /\ q \in PageType
            /\ q.flags = page.flags /\ q.last = page.last /\ q.opened = page.opened
            /\ q.active = t.run /\ q.acts = t.got.acts /\ q.batch = t.got.batch
            /\ q.known = page.known \cup {t.run} /\ q.rows = page.rows
            /\ q.radar = page.radar /\ q.radarRun = page.radarRun
            /\ q.analysis = page.analysis
<1>1. /\ t.run \in Nat /\ t.got.acts \in SUBSET Patches /\ t.got.batch \in Nat
  BY DEF TaskType, StoredDoc
<1> QED
  BY <1>1 DEF WithRun, PageType

LEMMA OpenedIs ==
  ASSUME page \in PageType, NEW t \in TaskType(Phases \cup {"failed"})
  PROVE  LET q == Opened(t)
         IN /\ q \in PageType
            /\ q.flags = page.flags /\ q.last = page.last /\ q.opened = page.opened
            /\ q.active = t.run /\ q.acts = t.got.acts /\ q.batch = t.got.batch
            /\ q.known = page.known \cup {t.run} /\ q.rows = page.rows
            /\ q.radar = page.radar /\ q.radarRun = page.radarRun
            /\ q.analysis = t.run
<1>1. t.run \in Nat
  BY DEF TaskType
<1>2. Opened(t) = [WithRun(t) EXCEPT !.analysis = t.run]
  BY DEF Opened
<1> QED
  BY <1>1, <1>2, WithRunIs DEF PageType

LEMMA AnalyzedIs ==
  ASSUME page \in PageType, NEW t \in TaskType(Phases \cup {"failed"})
  PROVE  LET q == Analyzed(t)
         IN /\ q \in PageType
            /\ q.flags = page.flags /\ q.last = page.last /\ q.opened = page.opened
            /\ q.analysis = t.run /\ q.active = t.run /\ q.acts = {} /\ q.batch = 0
            /\ q.known = page.known \cup {t.run} /\ q.rows = page.rows
            /\ q.radar = IF t.kind = "scan" THEN "fresh" ELSE page.radar
            /\ q.radarRun = IF t.kind = "scan" THEN t.run ELSE page.radarRun
<1>1. t.run \in Nat
  BY DEF TaskType
<1>2. /\ page.known \cup {t.run} \in SUBSET Nat
      /\ (IF t.kind = "scan" THEN "fresh" ELSE page.radar) \in Radars
      /\ (IF t.kind = "scan" THEN t.run ELSE page.radarRun) \in Nat
  BY <1>1 DEF PageType, Radars
<1> QED
  BY <1>1, <1>2 DEF Analyzed, PageType

LEMMA AppliedIs ==
  ASSUME page \in PageType, Kept \subseteq Nat, NEW t \in TaskType(Phases \cup {"failed"})
  PROVE  LET q == Applied(t)
         IN /\ q \in PageType
            /\ q.flags = page.flags /\ q.last = page.last /\ q.opened = page.opened
            /\ Does(t) = "list" => q = [page EXCEPT !.known = Kept]
            /\ Does(t) = "analyze" =>
                 /\ q.analysis = t.run /\ q.active = t.run /\ q.acts = {} /\ q.batch = 0
                 /\ q.known = page.known \cup {t.run} /\ q.rows = page.rows
                 /\ q.radar = IF t.kind = "scan" THEN "fresh" ELSE page.radar
                 /\ q.radarRun = IF t.kind = "scan" THEN t.run ELSE page.radarRun
            /\ Does(t) = "batch" => q = [page EXCEPT !.rows = t.batch, !.final = FALSE]
            /\ Shows(t) =>
                 /\ q.active = t.run /\ q.acts = t.got.acts /\ q.batch = t.got.batch
                 /\ q.known = page.known \cup {t.run} /\ q.rows = page.rows
                 /\ q.radar = page.radar /\ q.radarRun = page.radarRun
                 /\ q.analysis \in {page.analysis, t.run}
            /\ Does(t) \notin {"list", "analyze", "batch"} /\ ~Shows(t) => q = page
<1>1. /\ t.run \in Nat /\ t.batch \in Nat /\ t.got.acts \in SUBSET Patches /\ t.got.batch \in Nat
  BY DEF TaskType, StoredDoc
<1>2. CASE Does(t) = "list"
  <2>1. Applied(t) = [page EXCEPT !.known = Kept] /\ ~Shows(t)
    BY <1>2 DEF Applied, Shows, Patches
  <2> QED
    BY <1>2, <2>1 DEF PageType
<1>3. CASE Does(t) = "get" /\ t.kind # "refresh"
  <2>1. Applied(t) = Opened(t) /\ Shows(t)
    BY <1>3 DEF Applied, Shows, Patches
  <2> QED
    BY <1>3, <2>1, OpenedIs
<1>4. CASE Does(t) = "analyze"
  <2>1. Applied(t) = Analyzed(t) /\ ~Shows(t)
    BY <1>4 DEF Applied, Shows, Patches
  <2> QED
    BY <1>4, <2>1, AnalyzedIs
<1>5. CASE Does(t) = "batch"
  <2>1. Applied(t) = [page EXCEPT !.rows = t.batch, !.final = FALSE] /\ ~Shows(t)
    BY <1>5 DEF Applied, Shows, Patches
  <2> QED
    BY <1>1, <1>5, <2>1 DEF PageType
<1>6. CASE Does(t) \in Patches \ {"refresh_context"} /\ ~(t.kind = "accept" /\ t.at = 1)
  <2>1. /\ Applied(t) = WithRun(t) /\ Shows(t)
        /\ Does(t) \notin {"list", "analyze", "batch"}
    BY <1>6 DEF Applied, Patches, Shows
  <2> QED
    BY <1>6, <2>1, WithRunIs
<1>7. CASE Does(t) \notin {"list", "analyze", "batch"} /\ ~Shows(t)
  <2>1. Applied(t) = page
    BY <1>7 DEF Applied, Shows
  <2> QED
    BY <1>7, <2>1
<1> QED
  BY <1>2, <1>3, <1>4, <1>5, <1>6, <1>7 DEF Shows

\* Where a handler goes on to.
LEMMA OnwardIs ==
  ASSUME NEW t \in TaskType(Phases \cup {"failed"}), t.at \in DOMAIN Program(t.kind),
         Onward(t) # Ended(t)
  PROVE  LET to == Onward(t)
             on == Program(t.kind)[to].does
         IN /\ to \in DOMAIN Program(t.kind)
            /\ \/ /\ t.phase = "answered" /\ to = t.at + 1
                  /\ <<Does(t), on>> \in
                       {<<"get", "batch">>, <<"get", "analyze">>, <<"analyze", "batch">>,
                        <<"batch", "backtest">>, <<"backtest", "refresh_context">>,
                        <<"strategy", "paper_watch">>, <<"create", "strategy">>}
               \/ /\ t.phase # "answered" /\ t.kind = "refresh" /\ to = 5 /\ t.at > 2
                  /\ Does(t) \in {"batch", "backtest"} /\ on = "refresh_context"
<1> DEFINE p == Program(t.kind)
<1>1. t.kind \in Kinds
  BY DEF TaskType
<1>2. /\ DOMAIN p = 1..Len(p) /\ Len(p) \in Nat \ {0} /\ t.at \in Nat
      /\ Ended(t) = Len(p) + 1
  BY <1>1, Programs DEF Ended, TaskType
<1>3. CASE t.phase = "answered"
  <2>1. Onward(t) = t.at + 1
    BY <1>3 DEF Onward
  <2>2. t.at + 1 \in DOMAIN p
    BY <1>2, <2>1
  <2> QED
    BY <1>1, <1>3, <2>1, <2>2, Programs DEF Does
<1>4. CASE t.phase # "answered"
  <2>1. t.kind = "refresh" /\ Does(t) \in {"batch", "backtest"} /\ Onward(t) = 5
    BY <1>4 DEF Onward
  <2>2. /\ Len(p) = 5 /\ p[1].does = "get" /\ p[2].does = "analyze" /\ p[5].does = "refresh_context"
    BY <1>1, <2>1, Programs
  <2>3. t.at # 1 /\ t.at # 2
    BY <2>1, <2>2 DEF Does
  <2> QED
    BY <1>2, <1>4, <2>1, <2>2, <2>3
<1> QED
  BY <1>3, <1>4

LEMMA ChainedIs ==
  ASSUME Types, NEW new, NEW grown \in Nat, grown >= Len(jobs)
  PROVE  /\ Chained(new, grown) \in [1..grown -> ChainStates]
         /\ new \in 1..grown /\ new # page.batch => Chained(new, grown)[new] = "asked"
         /\ new \in 1..Len(jobs) /\ new = page.batch => Chained(new, grown)[new] = chain[new]
BY DEF Types, Chained, ChainStates


\* A handler goes on: t is the handler with its answer or its error, and what
\* the gateway stores in the same step comes after what it has stored before.
Grown ==
  /\ doc' \in Seq(StoredDoc \cup {Unstored}) /\ jobs' \in Seq(Job)
  /\ Len(doc) <= Len(doc') /\ \A r \in 1..Len(doc) : doc'[r] = doc[r]
  /\ Len(jobs) <= Len(jobs') /\ \A b \in 1..Len(jobs) : jobs'[b] = jobs[b]
  /\ \A r \in 1..Len(doc') : Own(doc'[r], jobs', r)
  /\ \A b \in 1..Len(jobs') : jobs'[b].run \in 1..Len(doc')

Same(t, old) ==
  /\ t.kind = old.kind /\ t.at = old.at /\ t.from = old.from
  /\ t.run = old.run \/ (Does(old) = "analyze" /\ t.run = Len(doc) + 1)

Goes(s, t) ==
  /\ s \in Pending /\ t \in TaskType({"answered", "failed"}) /\ Same(t, tasks[s])
  /\ Grown /\ Placed(t, doc', jobs')
  /\ t.batch # 0 => Does(t) \in {"batch", "backtest", "refresh_context"}
  /\ t.phase = "answered" /\ Does(t) = "analyze" =>
       t.run = Len(doc) + 1 /\ Len(doc') = Len(doc) + 1
  /\ fails' \in Nat
  /\ fails' = 0 =>
       /\ fails = 0 /\ t.phase = "answered"
       /\ \A r \in 1..Len(doc') : r > Len(doc) => doc'[r] = Unpatched
       /\ ~seen.mixed /\ Does(t) \in Patches \cup {"get"} => t.got = doc[Target(t)]
  /\ GoOn(s, t)

After(t) == IF t.phase = "answered" THEN Applied(t) ELSE page
Moved(t) == IF Onward(t) = Ended(t) THEN Free
            ELSE [t EXCEPT !.at = Onward(t), !.phase = "sent", !.got = Unpatched]

LEMMA OwnGrows ==
  ASSUME Types, Grown, NEW d, NEW r, Own(d, jobs, r), d.batch \in Nat
  PROVE  Own(d, jobs', r)
BY DEF Types, Grown, Own

LEMMA PlacedGrows ==
  ASSUME Types, Grown, NEW t \in TaskType(Phases), Placed(t, doc, jobs)
  PROVE  Placed(t, doc', jobs')
<1>1. t.batch \in Nat /\ t.got.batch \in Nat /\ Len(doc) \in Nat /\ Len(doc') \in Nat
  BY DEF TaskType, StoredDoc, Types, Grown
<1>2. Own(t, jobs', t.run) /\ Own(t.got, jobs', Target(t))
  BY <1>1, OwnGrows DEF Placed
<1>3. 0..Len(doc) \subseteq 0..Len(doc') /\ 1..Len(doc) \subseteq 1..Len(doc')
  BY <1>1 DEF Grown
<1> QED
  BY <1>2, <1>3 DEF Placed

\* Where it is then.
LEMMA MovedIs ==
  ASSUME IInv, NEW s \in 1..Slots, NEW t, Goes(s, t)
  PROVE  LET u == Moved(t)
         IN /\ s \in Pending /\ tasks[s] \in TaskType(Phases) /\ t.kind \in Kinds
            /\ t.at = tasks[s].at /\ t.kind = tasks[s].kind
            /\ Does(t) = Does(tasks[s])
            /\ tasks' \in [1..Slots -> TaskType(Phases) \cup {Free}]
            /\ tasks'[s] = u /\ \A p \in 1..Slots \ {s} : tasks'[p] = tasks[p]
            /\ Pending' \subseteq Pending
            /\ s \in Pending' <=> Onward(t) # Ended(t)
            /\ Onward(t) # Ended(t) =>
                 /\ u.kind = t.kind /\ u.at = Onward(t) /\ u.run = t.run /\ u.phase = "sent"
                 /\ Placed(u, doc', jobs') /\ Waiting(u)
<1> DEFINE u == Moved(t)  to == Onward(t)
<1>1. /\ s \in Pending /\ tasks[s] \in TaskType(Phases)
      /\ tasks[s].kind \in Kinds /\ tasks[s].kind # "none"
  BY PendingTyped DEF IInv, Goes
<1>2. /\ t \in TaskType({"answered", "failed"}) /\ t.at = tasks[s].at /\ t.kind = tasks[s].kind
      /\ t.from = tasks[s].from /\ Does(t) = Does(tasks[s])
  BY DEF Goes, Same, Does
<1>3. t \in TaskType(Phases \cup {"failed"})
  BY <1>2 DEF TaskType, Phases
<1>4. Placed(t, doc', jobs') /\ Placed(tasks[s], doc, jobs)
  BY <1>1 DEF Goes, IInv, References
<1>5. tasks' = [tasks EXCEPT ![s] = u]
  BY DEF Goes, GoOn, Keep, Moved
<1>6. to # Ended(t) =>
        /\ u \in TaskType(Phases) /\ u # Free
        /\ u.kind = t.kind /\ u.at = to /\ u.run = t.run /\ u.phase = "sent" /\ u.got = Unpatched
        /\ u.from = t.from /\ u.batch = t.batch
  <2> SUFFICES ASSUME to # Ended(t)
               PROVE  /\ u \in TaskType(Phases) /\ u # Free
                      /\ u.kind = t.kind /\ u.at = to /\ u.run = t.run /\ u.phase = "sent"
                      /\ u.got = Unpatched /\ u.from = t.from /\ u.batch = t.batch
    OBVIOUS
  <2>1. u = [t EXCEPT !.at = to, !.phase = "sent", !.got = Unpatched]
    BY DEF Moved
  <2>2. to \in Nat
    <3>1. to \in DOMAIN Program(t.kind)
      BY <1>3, <1>4, OnwardIs DEF Placed
    <3> QED
      BY <1>1, <1>2, <3>1, Programs
  <2>3. Unpatched \in StoredDoc /\ "sent" \in Phases
    BY DEF Unpatched, StoredDoc, Phases
  <2> HIDE DEF u, to
  <2>4. /\ u \in TaskType(Phases)
        /\ u.kind = t.kind /\ u.at = to /\ u.run = t.run /\ u.phase = "sent"
        /\ u.got = Unpatched /\ u.from = t.from /\ u.batch = t.batch
    BY <1>2, <2>1, <2>2, <2>3 DEF TaskType
  <2>5. u # Free
    BY <1>1, <1>2, <2>4 DEF Free
  <2> QED
    BY <2>4, <2>5
<1>7. to = Ended(t) => u = Free
  BY DEF Moved
<1>8. to # Ended(t) => Placed(u, doc', jobs') /\ Waiting(u)
  <2> SUFFICES ASSUME to # Ended(t) PROVE Placed(u, doc', jobs') /\ Waiting(u)
    OBVIOUS
  <2> DEFINE on == Program(t.kind)[to].does
  <2>1. /\ to \in DOMAIN Program(t.kind)
        /\ \/ /\ t.phase = "answered" /\ to = t.at + 1
              /\ <<Does(t), on>> \in
                   {<<"get", "batch">>, <<"get", "analyze">>, <<"analyze", "batch">>,
                    <<"batch", "backtest">>, <<"backtest", "refresh_context">>,
                    <<"strategy", "paper_watch">>, <<"create", "strategy">>}
           \/ /\ t.phase # "answered" /\ t.kind = "refresh" /\ to = 5 /\ t.at > 2
              /\ Does(t) \in {"batch", "backtest"} /\ on = "refresh_context"
    BY <1>3, <1>4, OnwardIs DEF Placed
  <2>2. Does(u) = on
    BY <1>6 DEF Does
  <2> HIDE DEF on, u, to
  <2>3. t.run # 0
    <3>1. CASE Does(t) = "analyze"
      <4>1. t.run = Len(doc) + 1 /\ Len(doc) \in Nat
        BY <2>1, <3>1 DEF Goes, IInv, Types
      <4> QED
        BY <4>1
    <3>2. CASE Does(t) # "analyze"
      BY <1>4, <2>1, <3>2 DEF Placed
    <3> QED
      BY <3>1, <3>2
  <2>4. t.kind = "refresh" => t.from \in 1..Len(doc')
    BY <1>4 DEF Placed
  <2>5. ASSUME t.kind = "refresh", to > 2 PROVE t.from < t.run
    <3>1. CASE t.at > 2
      BY <1>4, <2>5, <3>1 DEF Placed
    <3>2. CASE ~(t.at > 2)
      <4>1. t.at = 2 /\ t.phase = "answered"
        <5>1. t.at \in Nat
          BY <1>2 DEF TaskType
        <5> QED
          BY <2>1, <2>5, <3>2, <5>1
      <4>2. Does(t) = "analyze"
        BY <1>1, <1>2, <2>5, <4>1, Programs DEF Does
      <4>3. t.run = Len(doc) + 1 /\ Len(doc) \in Nat
        BY <4>1, <4>2 DEF Goes, IInv, Types
      <4>4. t.from \in 1..Len(doc)
        BY <1>2, <1>4, <2>5 DEF Placed
      <4> QED
        BY <4>3, <4>4
    <3> QED
      BY <3>1, <3>2
  <2>6. Own(u, jobs', u.run) /\ Own(u.got, jobs', Target(u))
    BY <1>4, <1>6 DEF Placed, Own, Unpatched
  <2>7. Placed(u, doc', jobs')
    BY <1>4, <1>6, <2>1, <2>3, <2>4, <2>5, <2>6 DEF Placed
  <2>8. u.batch # 0 => Does(u) \in {"backtest", "refresh_context"}
    BY <1>6, <2>1, <2>2 DEF Goes, Patches
  <2> QED
    BY <1>6, <2>7, <2>8 DEF Waiting
<1> HIDE DEF u, to
<1>9. u \in TaskType(Phases) \cup {Free}
  BY <1>6, <1>7
<1>10. /\ tasks' \in [1..Slots -> TaskType(Phases) \cup {Free}]
       /\ tasks'[s] = u /\ \A p \in 1..Slots \ {s} : tasks'[p] = tasks[p]
  BY <1>5, <1>9 DEF IInv, Types
<1>11. Pending' \subseteq Pending /\ (s \in Pending' <=> to # Ended(t))
  BY <1>1, <1>6, <1>7, <1>10 DEF Pending
<1> QED
  BY <1>1, <1>2, <1>6, <1>8, <1>10, <1>11 DEF u, to

\* What the page is then.  Four things can happen to it.
LEMMA AfterIs ==
  ASSUME IInv, NEW s \in 1..Slots, NEW t, Goes(s, t)
  PROVE  /\ page' \in PageType
         /\ page'.last = page.last /\ page'.opened = page.opened
         /\ page'.flags = Lowered(t, Onward(t))
         /\ chain' = Chained(page'.batch, Len(jobs'))
         /\ seen' \in SeenType /\ seen'.mixed = seen.mixed /\ seen'.keys = seen.keys
         /\ seen'.twice = seen.twice
         /\ seen'.late = (seen.late \/ (t.phase = "answered" /\ Does(t) = "batch" /\ page.active # t.run))
         /\ \/ /\ t.phase = "answered" /\ Does(t) = "analyze"
               /\ page'.analysis = t.run /\ page'.active = t.run /\ page'.acts = {}
               /\ page'.batch = 0 /\ page'.known = page.known \cup {t.run} /\ page'.rows = page.rows
               /\ page'.radar = IF t.kind = "scan" THEN "fresh" ELSE page.radar
               /\ page'.radarRun = IF t.kind = "scan" THEN t.run ELSE page.radarRun
            \/ /\ t.phase = "answered" /\ Shows(t)
               /\ page'.active = t.run /\ page'.acts = t.got.acts /\ page'.batch = t.got.batch
               /\ page'.known = page.known \cup {t.run} /\ page'.rows = page.rows
               /\ page'.radar = page.radar /\ page'.radarRun = page.radarRun
               /\ page'.analysis \in {page.analysis, t.run}
            \/ /\ t.phase = "answered" => Does(t) # "analyze" /\ ~Shows(t)
               /\ page'.active = page.active /\ page'.acts = page.acts /\ page'.batch = page.batch
               /\ page'.radar = page.radar /\ page'.radarRun = page.radarRun
               /\ page'.analysis = page.analysis
               /\ page'.known \in {page.known, Kept}
               /\ IF t.phase = "answered" /\ Does(t) = "batch" THEN page'.rows = t.batch
                  ELSE page'.rows = page.rows
<1> DEFINE q == After(t)
<1>1. /\ t \in TaskType({"answered", "failed"}) /\ t.kind \in Kinds /\ t.batch \in Nat
  BY DEF Goes, TaskType
<1>2. page \in PageType /\ seen \in SeenType
  BY DEF IInv, Types
<1>3. t \in TaskType(Phases \cup {"failed"})
  BY <1>1 DEF TaskType, Phases
<1>4. Kept \subseteq Nat
  BY DEF IInv, Types, Kept, Runs
<1>5. /\ q \in PageType
      /\ q.flags = page.flags /\ q.last = page.last /\ q.opened = page.opened
      /\ \/ /\ t.phase = "answered" /\ Does(t) = "analyze"
            /\ q.analysis = t.run /\ q.active = t.run /\ q.acts = {}
            /\ q.batch = 0 /\ q.known = page.known \cup {t.run} /\ q.rows = page.rows
            /\ q.radar = IF t.kind = "scan" THEN "fresh" ELSE page.radar
            /\ q.radarRun = IF t.kind = "scan" THEN t.run ELSE page.radarRun
         \/ /\ t.phase = "answered" /\ Shows(t)
            /\ q.active = t.run /\ q.acts = t.got.acts /\ q.batch = t.got.batch
            /\ q.known = page.known \cup {t.run} /\ q.rows = page.rows
            /\ q.radar = page.radar /\ q.radarRun = page.radarRun
            /\ q.analysis \in {page.analysis, t.run}
         \/ /\ t.phase = "answered" => Does(t) # "analyze" /\ ~Shows(t)
            /\ q.active = page.active /\ q.acts = page.acts /\ q.batch = page.batch
            /\ q.radar = page.radar /\ q.radarRun = page.radarRun
            /\ q.analysis = page.analysis
            /\ q.known \in {page.known, Kept}
            /\ IF t.phase = "answered" /\ Does(t) = "batch" THEN q.rows = t.batch
               ELSE q.rows = page.rows
  <2>1. CASE t.phase # "answered"
    BY <1>2, <2>1 DEF After
  <2>2. CASE t.phase = "answered"
    <3>1. q = Applied(t)
      BY <2>2 DEF After
    <3>2. Does(t) = "list" \/ Does(t) = "batch" => ~Shows(t)
      BY DEF Shows, Patches
    <3> HIDE DEF q
    <3>3. CASE Does(t) = "analyze"
      BY <1>2, <1>3, <1>4, <2>2, <3>1, <3>3, AppliedIs
    <3>4. CASE Shows(t)
      BY <1>2, <1>3, <1>4, <2>2, <3>1, <3>4, AppliedIs
    <3>5. CASE Does(t) = "list"
      <4>1. q = [page EXCEPT !.known = Kept] /\ q \in PageType
        BY <1>2, <1>3, <1>4, <3>1, <3>5, AppliedIs
      <4> QED
        BY <1>2, <2>2, <3>2, <3>5, <4>1 DEF PageType
    <3>6. CASE Does(t) = "batch"
      <4>1. q = [page EXCEPT !.rows = t.batch, !.final = FALSE] /\ q \in PageType
        BY <1>2, <1>3, <1>4, <3>1, <3>6, AppliedIs
      <4> QED
        BY <1>2, <2>2, <3>2, <3>6, <4>1 DEF PageType
    <3>7. CASE Does(t) \notin {"list", "analyze", "batch"} /\ ~Shows(t)
      <4>1. q = page
        BY <1>2, <1>3, <1>4, <3>1, <3>7, AppliedIs
      <4> QED
        BY <1>2, <2>2, <3>7, <4>1
    <3> QED
      BY <3>3, <3>4, <3>5, <3>6, <3>7
  <2> QED
    BY <2>1, <2>2
<1>6. /\ page' = [q EXCEPT !.flags = Lowered(t, Onward(t))]
      /\ chain' = Chained(q.batch, Len(jobs'))
      /\ seen' = [seen EXCEPT !.late =
           @ \/ (t.phase = "answered" /\ Does(t) = "batch" /\ page.active # t.run)]
  BY DEF Goes, GoOn, After
<1>7. Lowered(t, Onward(t)) \subseteq Flags
  <2>1. \A i : Holds(t, i) \subseteq Flags
    BY <1>1, Programs DEF Holds
  <2> QED
    BY <1>2, <2>1 DEF Lowered, PageType
<1> HIDE DEF q
<1>8. /\ page' \in PageType /\ page'.flags = Lowered(t, Onward(t))
      /\ page'.last = q.last /\ page'.opened = q.opened /\ page'.analysis = q.analysis
      /\ page'.active = q.active /\ page'.acts = q.acts /\ page'.batch = q.batch
      /\ page'.known = q.known /\ page'.rows = q.rows
      /\ page'.radar = q.radar /\ page'.radarRun = q.radarRun
  BY <1>5, <1>6, <1>7 DEF PageType
<1>9. /\ seen' \in SeenType /\ seen'.mixed = seen.mixed /\ seen'.keys = seen.keys
      /\ seen'.twice = seen.twice
      /\ seen'.late = (seen.late \/ (t.phase = "answered" /\ Does(t) = "batch" /\ page.active # t.run))
  BY <1>2, <1>6 DEF SeenType
<1> QED
  BY <1>5, <1>6, <1>8, <1>9

LEMMA GoesTypes ==
  ASSUME IInv, NEW s \in 1..Slots, NEW t, Goes(s, t) PROVE Types'
<1>1. doc' \in Seq(StoredDoc \cup {Unstored}) /\ jobs' \in Seq(Job) /\ fails' \in Nat
  BY DEF Goes, Grown
<1>2. page' \in PageType /\ seen' \in SeenType /\ chain' = Chained(page'.batch, Len(jobs'))
  BY AfterIs
<1>3. tasks' \in [1..Slots -> TaskType(Phases) \cup {Free}]
  BY MovedIs
<1>4. chain' \in [1..Len(jobs') -> ChainStates]
  <2>1. Len(jobs') \in Nat /\ Len(jobs') >= Len(jobs) /\ Types
    BY DEF Goes, Grown, IInv, Types
  <2> QED
    BY <1>2, <2>1, ChainedIs
<1>5. presses' \in Nat
  BY DEF Goes, GoOn, IInv, Types
<1> QED
  BY <1>1, <1>2, <1>3, <1>4, <1>5 DEF Types

LEMMA GoesReferences ==
  ASSUME IInv, NEW s \in 1..Slots, NEW t, Goes(s, t) PROVE References'
<1>1. /\ Len(doc) \in Nat /\ Len(doc') \in Nat /\ Len(jobs) \in Nat /\ Len(jobs') \in Nat
      /\ Len(doc) <= Len(doc') /\ Len(jobs) <= Len(jobs')
      /\ DOMAIN doc = 1..Len(doc) /\ DOMAIN doc' = 1..Len(doc') /\ DOMAIN jobs' = 1..Len(jobs')
  BY DEF Goes, Grown, IInv, Types
<1>2. 0..Len(doc) \subseteq 0..Len(doc') /\ 1..Len(doc) \subseteq 1..Len(doc') /\ 0..Len(jobs) \subseteq 0..Len(jobs')
  BY <1>1
<1>3. Types /\ References /\ Grown /\ Placed(t, doc', jobs') /\ t.run \in Nat /\ t.got.batch \in Nat
      /\ t.batch \in Nat /\ page \in PageType
  BY DEF IInv, Goes, TaskType, StoredDoc, Types
<1>4. /\ \A r \in Runs' : Own(doc'[r], jobs', r)
      /\ \A b \in DOMAIN jobs' : jobs'[b].run \in Runs'
  BY <1>1, <1>3 DEF Grown, Runs
<1>5. t.run \in 0..Len(doc') /\ (Does(t) # "list" => t.run \in 1..Len(doc') \/ Does(t) = "analyze")
  BY <1>1, <1>3 DEF Placed
<1>6. t.phase = "answered" /\ Does(t) = "analyze" => t.run \in 1..Len(doc')
  BY <1>1 DEF Goes
<1>7. Shows(t) => t.run \in 1..Len(doc') /\ Target(t) = t.run
  <2>1. Shows(t) => Does(t) # "list" /\ Does(t) # "analyze" /\ Does(t) # "refresh_context"
    BY DEF Shows, Patches
  <2> QED
    BY <1>5, <2>1 DEF Target
<1>8. Kept \subseteq 1..Len(doc') /\ page.known \subseteq 1..Len(doc')
  BY <1>1, <1>2, <1>3 DEF Kept, Runs, References
<1>9. page'.known \subseteq Runs'
  BY <1>1, <1>6, <1>7, <1>8, AfterIs DEF Runs
<1>10. {page'.analysis, page'.active, page'.opened, page'.radarRun} \subseteq 0..Len(doc')
  <2>1. {page.analysis, page.active, page.opened, page.radarRun, t.run} \subseteq 0..Len(doc')
    BY <1>2, <1>3, <1>5 DEF References
  <2>2. /\ page'.opened = page.opened
        /\ page'.analysis \in {page.analysis, t.run} /\ page'.active \in {page.active, t.run}
        /\ page'.radarRun \in {page.radarRun, t.run}
    BY AfterIs
  <2> QED
    BY <2>1, <2>2
<1>11. page'.rows \in 0..Len(jobs')
  <2>1. page.rows \in 0..Len(jobs') /\ t.batch \in 0..Len(jobs')
    BY <1>1, <1>2, <1>3 DEF References, Placed, Own
  <2>2. page'.rows \in {page.rows, t.batch}
    BY AfterIs
  <2> QED
    BY <2>1, <2>2
<1>12. Own(page', jobs', page'.active)
  <2>1. Own(page, jobs', page.active)
    BY <1>3, OwnGrows DEF References, PageType
  <2>2. Own(t.got, jobs', Target(t))
    BY <1>3 DEF Placed
  <2>3. \/ page'.batch = 0
        \/ Shows(t) /\ page'.batch = t.got.batch /\ page'.active = t.run
        \/ page'.batch = page.batch /\ page'.active = page.active
    BY AfterIs
  <2> QED
    BY <1>7, <2>1, <2>2, <2>3 DEF Own
<1>13. \A p \in Pending' : Placed(tasks'[p], doc', jobs') /\ Waiting(tasks'[p])
  <2> SUFFICES ASSUME NEW p \in Pending' PROVE Placed(tasks'[p], doc', jobs') /\ Waiting(tasks'[p])
    OBVIOUS
  <2>1. CASE p = s
    BY <2>1, MovedIs
  <2>2. CASE p # s
    <3>1. p \in Pending /\ p \in 1..Slots
      BY MovedIs DEF Pending
    <3>2. tasks'[p] = tasks[p] /\ tasks[p] \in TaskType(Phases)
      BY <1>3, <2>2, <3>1, MovedIs, PendingTyped
    <3>3. Placed(tasks[p], doc, jobs) /\ Waiting(tasks[p])
      BY <1>3, <3>1 DEF References
    <3>4. Placed(tasks[p], doc', jobs')
      BY <1>3, <3>2, <3>3, PlacedGrows
    <3> QED
      BY <3>2, <3>3, <3>4
  <2> QED
    BY <2>1, <2>2
<1> QED
  BY <1>1, <1>4, <1>9, <1>10, <1>11, <1>12, <1>13 DEF References, Runs

LEMMA GoesFlags ==
  ASSUME IInv, NEW s \in 1..Slots, NEW t, Goes(s, t) PROVE FlagsHeld'
<1> DEFINE H == Holds(t, t.at)  N == Holds(t, Onward(t))
<1>1. page'.flags = (page.flags \ (H \ N)) \cup (N \ H)
  BY AfterIs DEF Lowered
<1>2. Holds(tasks[s], tasks[s].at) = H
  BY MovedIs DEF Holds
<1>3. N # {} => s \in Pending' /\ Holds(tasks'[s], tasks'[s].at) = N
  <2>1. N # {} => Onward(t) # Ended(t)
    <3>1. Len(Program(t.kind)) \in Nat /\ DOMAIN Program(t.kind) = 1..Len(Program(t.kind))
      BY MovedIs, Programs
    <3> QED
      BY <3>1 DEF Holds, Ended
  <2> QED
    BY <2>1, MovedIs DEF Holds
<1> SUFFICES ASSUME NEW f \in page'.flags
             PROVE  \E p \in Pending' : f \in Holds(tasks'[p], tasks'[p].at)
  BY DEF FlagsHeld, Holds
<1>4. CASE f \in N
  BY <1>3, <1>4
<1>5. CASE f \notin N
  <2>1. f \in page.flags /\ f \notin H
    BY <1>1, <1>5
  <2>2. PICK p \in Pending : f \in Holds(tasks[p], tasks[p].at)
    BY <2>1 DEF IInv, FlagsHeld
  <2>3. p # s /\ p \in 1..Slots
    BY <1>2, <2>1, <2>2 DEF Pending
  <2>4. tasks'[p] = tasks[p]
    BY <2>3, MovedIs
  <2>5. p \in Pending'
    BY <2>2, <2>4 DEF Pending
  <2> QED
    BY <2>2, <2>4, <2>5
<1> QED
  BY <1>4, <1>5

LEMMA GoesRows ==
  ASSUME IInv, NEW s \in 1..Slots, NEW t, Goes(s, t) PROVE RowsOwned'
<1> SUFFICES ASSUME page'.batch # 0, page'.rows # 0, chain'[page'.batch] \in {"timer", "done"}, ~seen'.late
             PROVE  jobs'[page'.rows].run = page'.active
  BY DEF RowsOwned, Loaded
<1>1. /\ Types /\ References /\ RowsOwned /\ page \in PageType
      /\ Grown /\ Placed(t, doc', jobs') /\ t.batch \in Nat /\ t.got.batch \in Nat
  BY DEF IInv, Types, Goes, TaskType, StoredDoc
<1>2. Len(jobs) \in Nat /\ Len(jobs') \in Nat /\ Len(jobs') >= Len(jobs)
  BY <1>1 DEF Types, Grown
<1>3. Own(page', jobs', page'.active)
  BY GoesReferences DEF References
<1>4. page'.batch \in 1..Len(jobs') /\ jobs'[page'.batch].run = page'.active
  BY <1>3 DEF Own
<1>5. page'.batch = page.batch
  <2>1. chain' = Chained(page'.batch, Len(jobs'))
    BY AfterIs
  <2> SUFFICES ASSUME page'.batch # page.batch PROVE FALSE
    OBVIOUS
  <2>2. chain'[page'.batch] = "asked"
    BY <1>1, <1>2, <1>4, <2>1, ChainedIs
  <2> QED
    BY <2>2
<1>6. page.batch \in 1..Len(jobs) /\ jobs[page.batch].run = page.active
  BY <1>1, <1>5 DEF References, Own
<1>7. page'.active = page.active
  BY <1>1, <1>4, <1>5, <1>6 DEF Grown
<1>8. Loaded(page.batch) /\ ~seen.late
  <2>1. chain' = Chained(page'.batch, Len(jobs'))
    BY AfterIs
  <2>2. chain'[page.batch] = chain[page.batch]
    BY <1>1, <1>2, <1>5, <1>6, <2>1, ChainedIs
  <2>3. ~seen.late
    BY AfterIs
  <2> QED
    BY <1>5, <2>2, <2>3 DEF Loaded
<1>9. CASE page'.rows = page.rows
  <2>1. jobs[page.rows].run = page.active
    BY <1>1, <1>5, <1>6, <1>8, <1>9 DEF RowsOwned
  <2>2. page.rows \in 1..Len(jobs)
    BY <1>1, <1>2, <1>9 DEF References
  <2> QED
    BY <1>1, <1>7, <1>9, <2>1, <2>2 DEF Grown
<1>10. CASE page'.rows # page.rows
  <2>1. t.phase = "answered" /\ Does(t) = "batch" /\ page'.rows = t.batch
    BY <1>10, AfterIs
  <2>2. page.active = t.run
    BY <2>1, AfterIs
  <2>3. jobs'[t.batch].run = t.run
    BY <1>1, <2>1 DEF Placed, Own
  <2> QED
    BY <1>7, <2>1, <2>2, <2>3
<1> QED
  BY <1>9, <1>10

\* A scan is asked for by the run its radar is about, and each has its own key.
LEMMA KeyIs ==
  ASSUME NEW m \in Nat, NEW n \in Nat, KeyOf(m) = KeyOf(n) PROVE m = n
BY DEF KeyOf, RadarKey

LEMMA GoesRadar ==
  ASSUME IInv, NEW s \in 1..Slots, NEW t, Goes(s, t) PROVE RadarKept'
<1>1. RadarKept /\ page \in PageType /\ page.radarRun \in 0..Len(doc) /\ Len(doc) \in Nat
  BY DEF IInv, Types, References
<1>2. page'.last = page.last /\ seen'.keys = seen.keys /\ seen'.twice = seen.twice
  BY AfterIs
<1>3. CASE page'.radar = page.radar /\ page'.radarRun = page.radarRun
  BY <1>1, <1>2, <1>3 DEF RadarKept
<1>4. CASE ~(page'.radar = page.radar /\ page'.radarRun = page.radarRun)
  <2>1. t.phase = "answered" /\ Does(t) = "analyze" /\ page'.radar = "fresh" /\ page'.radarRun = t.run
    BY <1>4, AfterIs
  <2>2. t.run = Len(doc) + 1
    BY <2>1 DEF Goes
  <2>3. \A n \in 0..page.radarRun : n \in 0..page'.radarRun /\ n # page'.radarRun /\ n \in Nat
    BY <1>1, <2>1, <2>2
  <2>4. \A k \in seen'.keys : \E n \in 0..page'.radarRun : k = KeyOf(n) /\ n # page'.radarRun /\ n \in Nat
    BY <1>1, <1>2, <2>3 DEF RadarKept
  <2>5. page'.radarRun \in Nat /\ page'.radarRun # 0
    BY <1>1, <2>1, <2>2
  <2>6. KeyOf(page'.radarRun) \notin seen'.keys
    BY <2>4, <2>5, KeyIs
  <2> QED
    BY <1>1, <1>2, <2>1, <2>4, <2>5, <2>6 DEF RadarKept
<1> QED
  BY <1>3, <1>4

LEMMA GoesAlone ==
  ASSUME IInv, NEW s \in 1..Slots, NEW t, Goes(s, t) PROVE Alone'
<1> SUFFICES ASSUME ~seen'.mixed
             PROVE  /\ \A s1, s2 \in Pending' : s1 = s2
                    /\ \A p \in Pending' : tasks'[p].phase = "sent"
  BY DEF Alone
<1>1. /\ seen'.mixed = seen.mixed /\ s \in Pending /\ Pending' \subseteq Pending
  BY AfterIs, MovedIs
<1>2. Pending' \subseteq {s}
  BY <1>1 DEF IInv, Alone
<1>3. s \in Pending' => tasks'[s].phase = "sent"
  BY MovedIs
<1> QED
  BY <1>2, <1>3

LEMMA GoesCopy ==
  ASSUME IInv, NEW s \in 1..Slots, NEW t, Goes(s, t) PROVE CopyKept'
<1> SUFFICES ASSUME fails' = 0
             PROVE  /\ \A r \in Runs' : doc'[r] # Unstored
                    /\ ~seen'.mixed =>
                         /\ \A p \in Pending' :
                              tasks'[p].kind = "refresh" /\ tasks'[p].at > 2 => page'.active = tasks'[p].run
                         /\ page'.active = 0 \/ Copied' \/ \E p \in Pending' : Behind(tasks[p])'
  BY DEF CopyKept
<1>1. /\ fails = 0 /\ t.phase = "answered"
      /\ \A r \in 1..Len(doc') : r > Len(doc) => doc'[r] = Unpatched
      /\ ~seen.mixed /\ Does(t) \in Patches \cup {"get"} => t.got = doc[Target(t)]
  BY DEF Goes
<1>2. /\ Types /\ References /\ Alone /\ CopyKept /\ Grown /\ Same(t, tasks[s])
      /\ Placed(t, doc', jobs')
      /\ Len(doc) \in Nat /\ Len(doc') \in Nat /\ DOMAIN doc = 1..Len(doc) /\ DOMAIN doc' = 1..Len(doc')
  BY DEF IInv, Goes, Types, Grown
<1>3. \A r \in Runs' : doc'[r] # Unstored
  <2>1. Unpatched # Unstored
    BY DEF Unpatched, Unstored
  <2>2. ASSUME NEW r \in 1..Len(doc') PROVE doc'[r] # Unstored
    <3>1. CASE r > Len(doc)
      BY <1>1, <2>1, <3>1
    <3>2. CASE r \in 1..Len(doc)
      BY <1>1, <1>2, <3>2 DEF CopyKept, Grown, Runs
    <3> QED
      BY <1>2, <3>1, <3>2
  <2> QED
    BY <1>2, <2>2 DEF Runs
<1> SUFFICES ASSUME ~seen'.mixed
             PROVE  /\ \A p \in Pending' :
                         tasks'[p].kind = "refresh" /\ tasks'[p].at > 2 => page'.active = tasks'[p].run
                    /\ page'.active = 0 \/ Copied' \/ \E p \in Pending' : Behind(tasks[p])'
  BY <1>3
<1>4. /\ ~seen.mixed /\ s \in Pending /\ Pending = {s} /\ Pending' \subseteq {s}
  <2>1. ~seen.mixed /\ s \in Pending /\ Pending' \subseteq Pending
    BY AfterIs, MovedIs
  <2> QED
    BY <1>2, <2>1 DEF Alone
<1>5. /\ tasks[s].kind = "refresh" /\ tasks[s].at > 2 => page.active = tasks[s].run
      /\ page.active = 0 \/ Copied \/ Behind(tasks[s])
  BY <1>1, <1>2, <1>4 DEF CopyKept
<1>6. /\ t.kind \in Kinds /\ t.at \in DOMAIN Program(t.kind) /\ t.at \in Nat
      /\ t.kind = tasks[s].kind /\ t.at = tasks[s].at /\ Does(t) = Does(tasks[s])
      /\ Does(t) # "analyze" => t.run = tasks[s].run
  BY <1>2, MovedIs DEF Placed, Same, Goes, TaskType
<1>7. t.kind = "refresh" =>
        /\ t.at \in {1, 2, 3, 4, 5}
        /\ t.at = 1 => Does(t) = "get"
        /\ t.at = 2 => Does(t) = "analyze"
        /\ t.at = 3 => Does(t) = "batch"
        /\ t.at = 4 => Does(t) = "backtest"
        /\ t.at = 5 => Does(t) = "refresh_context"
  <2> SUFFICES ASSUME t.kind = "refresh"
               PROVE  /\ t.at \in {1, 2, 3, 4, 5}
                      /\ t.at = 1 => Does(t) = "get"
                      /\ t.at = 2 => Does(t) = "analyze"
                      /\ t.at = 3 => Does(t) = "batch"
                      /\ t.at = 4 => Does(t) = "backtest"
                      /\ t.at = 5 => Does(t) = "refresh_context"
    OBVIOUS
  <2>1. LET p == Program("refresh")
        IN /\ DOMAIN p = 1..5
           /\ p[1].does = "get" /\ p[2].does = "analyze" /\ p[3].does = "batch"
           /\ p[4].does = "backtest" /\ p[5].does = "refresh_context"
    BY Programs DEF Kinds
  <2>2. t.at \in 1..5
    BY <1>6, <2>1
  <2> QED
    BY <2>1, <2>2 DEF Does
<1>8. s \in Pending' =>
        /\ tasks'[s].kind = t.kind /\ tasks'[s].at = t.at + 1 /\ tasks'[s].run = t.run
  <2>1. s \in Pending' =>
          /\ tasks'[s].kind = t.kind /\ tasks'[s].at = Onward(t) /\ tasks'[s].run = t.run
          /\ Onward(t) # Ended(t)
    BY MovedIs
  <2> QED
    BY <1>1, <2>1 DEF Onward
<1>9. \A p \in Pending' :
        tasks'[p].kind = "refresh" /\ tasks'[p].at > 2 => page'.active = tasks'[p].run
  <2> SUFFICES ASSUME s \in Pending', t.kind = "refresh", t.at + 1 > 2 PROVE page'.active = t.run
    BY <1>4, <1>8
  <2>1. CASE t.at = 2
    BY <1>1, <1>7, <2>1, AfterIs DEF Shows, Patches
  <2>2. CASE t.at > 2
    <3>1. Does(t) # "analyze" /\ page.active = t.run
      BY <1>5, <1>6, <1>7, <2>2
    <3> QED
      BY <3>1, AfterIs
  <2> QED
    BY <1>6, <2>1, <2>2
<1>10. page'.active = 0 \/ Copied' \/ \E p \in Pending' : Behind(tasks[p])'
  <2>1. CASE Does(t) = "analyze"
    <3>1. page'.acts = {} /\ page'.batch = 0 /\ page'.active = t.run
      BY <1>1, <2>1, AfterIs DEF Shows, Patches
    <3>2. t.run \in 1..Len(doc') /\ t.run > Len(doc)
      BY <1>1, <1>2, <2>1 DEF Goes
    <3>3. doc'[t.run] = Unpatched
      BY <1>1, <3>2
    <3> QED
      BY <3>1, <3>3 DEF Copied, Unpatched
  <2>2. CASE Shows(t)
    <3>1. page'.acts = t.got.acts /\ page'.batch = t.got.batch /\ page'.active = t.run
      BY <1>1, <2>2, AfterIs DEF Shows, Patches
    <3>2. Does(t) \in Patches \cup {"get"} /\ Does(t) \notin {"refresh_context", "analyze", "list"}
      BY <2>2 DEF Shows, Patches
    <3>3. t.got = doc[t.run]
      BY <1>1, <1>4, <3>2 DEF Target
    <3>4. t.run \in 1..Len(doc)
      <4>1. Placed(tasks[s], doc, jobs)
        BY <1>2, <1>4 DEF References
      <4> QED
        BY <1>2, <1>6, <3>2, <4>1 DEF Placed
    <3>5. t.got = doc'[t.run]
      BY <1>2, <3>3, <3>4 DEF Grown
    <3> QED
      BY <3>1, <3>5 DEF Copied
  <2>3. CASE Does(t) # "analyze" /\ ~Shows(t)
    <3>1. page'.acts = page.acts /\ page'.batch = page.batch /\ page'.active = page.active
      BY <2>3, AfterIs
    <3>2. CASE page.active = 0
      BY <3>1, <3>2
    <3>3. CASE page.active # 0 /\ Copied
      <4>1. page.active \in 1..Len(doc)
        BY <1>2, <3>3 DEF References
      <4>2. doc'[page.active] = doc[page.active]
        BY <1>2, <4>1 DEF Grown
      <4> QED
        BY <3>1, <3>3, <4>2 DEF Copied
    <3>4. CASE Behind(tasks[s])
      <4>1. t.run = page.active /\ t.kind = "accept" /\ t.at \in {1, 2}
        BY <1>6, <2>3, <3>4 DEF Behind, Shows
      <4>2. /\ Program(t.kind)[2].does = "paper_watch" /\ Len(Program(t.kind)) = 2
        BY <1>6, <4>1, Programs
      <4>3. t.at = 1
        BY <2>3, <4>1, <4>2 DEF Does, Shows, Patches
      <4>4. Onward(t) # Ended(t)
        BY <1>1, <4>1, <4>2, <4>3 DEF Onward, Ended
      <4>5. s \in Pending'
        BY <4>4, MovedIs
      <4>6. Behind(tasks[s])'
        BY <1>8, <3>1, <4>1, <4>3, <4>5 DEF Behind
      <4> QED
        BY <4>5, <4>6
    <3> QED
      BY <1>5, <3>2, <3>3, <3>4
  <2> QED
    BY <2>1, <2>2, <2>3
<1> QED
  BY <1>9, <1>10

LEMMA GoesKeeps ==
  ASSUME IInv, NEW s \in 1..Slots, NEW t, Goes(s, t) PROVE IInv'
BY GoesTypes, GoesReferences, GoesFlags, GoesRows, GoesRadar, GoesAlone, GoesCopy DEF IInv

LEMMA Stays ==
  ASSUME Types, References, UNCHANGED <<doc, jobs>> PROVE Grown /\ Len(doc') = Len(doc)
BY DEF Types, References, Grown, Runs

LEMMA DocGrows ==
  ASSUME Types, References, NEW d \in {Unpatched, Unstored}, doc' = Append(doc, d), UNCHANGED jobs
  PROVE  Grown /\ Len(doc') = Len(doc) + 1 /\ doc'[Len(doc) + 1] = d
<1>1. d \in StoredDoc \cup {Unstored} /\ d.batch = 0
  BY DEF StoredDoc, Unpatched, Unstored
<1>2. /\ doc' \in Seq(StoredDoc \cup {Unstored}) /\ Len(doc') = Len(doc) + 1
      /\ \A r \in 1..Len(doc) : doc'[r] = doc[r]
      /\ doc'[Len(doc) + 1] = d
  BY <1>1, AppendProperties DEF Types
<1>3. Len(doc) \in Nat /\ DOMAIN doc = 1..Len(doc) /\ DOMAIN jobs = 1..Len(jobs)
  BY DEF Types
<1>4. \A r \in 1..Len(doc') : Own(doc'[r], jobs', r)
  <2>1. \A r \in 1..Len(doc') : r \in 1..Len(doc) \/ r = Len(doc) + 1
    BY <1>2, <1>3
  <2> QED
    BY <1>1, <1>2, <1>3, <2>1 DEF References, Runs, Own
<1>5. \A b \in 1..Len(jobs') : jobs'[b].run \in 1..Len(doc')
  BY <1>2, <1>3 DEF References, Runs
<1> QED
  BY <1>2, <1>3, <1>4, <1>5 DEF Grown, Types

LEMMA JobsGrow ==
  ASSUME Types, References, NEW run \in 1..Len(doc),
         jobs' = Append(jobs, [run |-> run, done |-> FALSE]), UNCHANGED doc
  PROVE  Grown /\ Len(doc') = Len(doc) /\ Len(jobs') = Len(jobs) + 1 /\ jobs'[Len(jobs) + 1].run = run
<1>1. Len(doc) \in Nat /\ DOMAIN doc = 1..Len(doc) /\ DOMAIN jobs = 1..Len(jobs) /\ Len(jobs) \in Nat
  BY DEF Types
<1>2. [run |-> run, done |-> FALSE] \in Job
  BY <1>1 DEF Job
<1>3. /\ jobs' \in Seq(Job) /\ Len(jobs') = Len(jobs) + 1
      /\ \A b \in 1..Len(jobs) : jobs'[b] = jobs[b]
      /\ jobs'[Len(jobs) + 1].run = run
  BY <1>2, AppendProperties DEF Types
<1>4. \A r \in 1..Len(doc') : Own(doc'[r], jobs', r)
  <2>1. \A r \in 1..Len(doc) : Own(doc[r], jobs, r)
    BY <1>1 DEF References, Runs
  <2>2. \A b \in 1..Len(jobs) : b \in 1..Len(jobs')
    BY <1>1, <1>3
  <2> QED
    BY <1>3, <2>1, <2>2 DEF Own
<1>5. \A b \in 1..Len(jobs') : jobs'[b].run \in 1..Len(doc')
  <2>1. \A b \in 1..Len(jobs') : b \in 1..Len(jobs) \/ b = Len(jobs) + 1
    BY <1>1, <1>3
  <2> QED
    BY <1>1, <1>3, <2>1 DEF References, Runs
<1>6. /\ doc' \in Seq(StoredDoc \cup {Unstored}) /\ Len(doc') = Len(doc)
      /\ \A r \in 1..Len(doc) : doc'[r] = doc[r]
  BY DEF Types
<1>7. Len(doc) <= Len(doc') /\ Len(jobs) <= Len(jobs')
  BY <1>1, <1>3, <1>6
<1>8. Grown
  BY <1>3, <1>4, <1>5, <1>6, <1>7 DEF Grown
<1> QED
  BY <1>3, <1>6, <1>8

LEMMA CreatedGrows ==
  ASSUME Types, References, NEW s \in Pending, Created(tasks[s])
  PROVE  LET t == tasks[s]
         IN /\ Grown
            /\ Len(doc') = IF Does(t) = "analyze" THEN Len(doc) + 1 ELSE Len(doc)
            /\ \A r \in 1..Len(doc') : r > Len(doc) => doc'[r] = Unpatched
            /\ Does(t) = "batch" => /\ Len(jobs') = Len(jobs) + 1
                                    /\ jobs'[Len(jobs) + 1].run = t.run
<1> DEFINE t == tasks[s]
<1>1. Len(doc) \in Nat
  BY DEF Types
<1>2. CASE Does(t) = "analyze"
  <2>1. doc' = Append(doc, Unpatched) /\ UNCHANGED jobs
    BY <1>2 DEF Created
  <2>2. Grown /\ Len(doc') = Len(doc) + 1 /\ doc'[Len(doc) + 1] = Unpatched
    BY <2>1, DocGrows
  <2>3. \A r \in 1..Len(doc') : r > Len(doc) => r = Len(doc) + 1
    BY <1>1, <2>2
  <2> QED
    BY <1>2, <2>2, <2>3
<1>3. CASE Does(t) = "batch"
  <2>1. jobs' = Append(jobs, [run |-> t.run, done |-> FALSE]) /\ UNCHANGED doc
    BY <1>3 DEF Created
  <2>2. t.run \in 1..Len(doc)
    BY <1>1, <1>3 DEF References, Placed
  <2> HIDE DEF t
  <2> QED
    BY <1>1, <1>3, <2>1, <2>2, JobsGrow DEF t
<1>4. CASE Does(t) \notin {"analyze", "batch"}
  <2>1. UNCHANGED <<doc, jobs>>
    BY <1>4 DEF Created
  <2> QED
    BY <1>1, <1>4, <2>1, Stays
<1> QED
  BY <1>2, <1>3, <1>4

\* The answer to what is served in one step.
LEMMA AnswerIs ==
  ASSUME IInv, NEW s \in Pending, tasks[s].phase = "sent",
         Does(tasks[s]) \notin Patches \cup {"get"}
  PROVE  LET t == tasks[s]
             u == Answer(t)
         IN /\ u \in TaskType({"answered", "failed"}) /\ u.phase = "answered"
            /\ u.kind = t.kind /\ u.at = t.at /\ u.from = t.from /\ u.got = t.got
            /\ u.run = IF Does(t) = "analyze" THEN Len(doc) + 1 ELSE t.run
            /\ u.batch = IF Does(t) = "batch" THEN Len(jobs) + 1 ELSE 0
            /\ Does(u) = Does(t) /\ Same(u, t)
            /\ Target(u) = u.run
<1> DEFINE t == tasks[s]  u == Answer(t)
           run == IF Does(t) = "analyze" THEN Len(doc) + 1 ELSE t.run
           batch == IF Does(t) = "batch" THEN Len(jobs) + 1 ELSE t.batch
<1>1. t \in TaskType(Phases) /\ Waiting(t)
  BY PendingTyped DEF IInv, References
<1>2. t.batch = 0
  BY <1>1 DEF Waiting, Patches
<1>3. run \in Nat /\ batch \in Nat
  BY <1>1 DEF TaskType, IInv, Types
<1>4. u = [t EXCEPT !.phase = "answered", !.run = run, !.batch = batch]
  BY DEF Answer
<1> HIDE DEF run, batch, u, t
<1>5. /\ u \in TaskType({"answered", "failed"}) /\ u.phase = "answered"
      /\ u.kind = t.kind /\ u.at = t.at /\ u.from = t.from /\ u.got = t.got
      /\ u.run = run /\ u.batch = batch
  BY <1>1, <1>3, <1>4 DEF TaskType
<1>6. Does(u) = Does(t)
  BY <1>5 DEF Does
<1>7. Target(u) = u.run
  BY <1>6 DEF Target, Patches, t
<1>8. Same(u, t)
  BY <1>5 DEF Same, run
<1> QED
  BY <1>2, <1>5, <1>6, <1>7, <1>8 DEF t, u, run, batch

LEMMA ResumeKeeps == \A s \in 1..Slots : IInv /\ Resume(s) => IInv'
<1> SUFFICES ASSUME NEW s \in 1..Slots, IInv, Resume(s) PROVE IInv'
  OBVIOUS
<1> DEFINE t == tasks[s]
<1>1. /\ Types /\ References /\ Alone /\ s \in Pending /\ t \in TaskType(Phases) /\ UNCHANGED fails
      /\ fails \in Nat /\ Len(doc) \in Nat
  BY FreeOrTyped DEF IInv, Types, Resume
<1>2. Placed(t, doc, jobs) /\ Waiting(t)
  BY <1>1 DEF References
<1>3. CASE t.phase = "answered" /\ UNCHANGED <<doc, jobs>> /\ GoOn(s, t)
  <2>1. Grown /\ Len(doc') = Len(doc)
    BY <1>1, <1>3, Stays
  <2>2. t \in TaskType({"answered", "failed"})
    BY <1>1, <1>3 DEF TaskType
  <2>3. Placed(t, doc', jobs')
    BY <1>2, <1>3
  <2>4. /\ Does(t) \in Patches \cup {"get"}
        /\ t.batch # 0 => Does(t) \in {"batch", "backtest", "refresh_context"}
    BY <1>2, <1>3 DEF Waiting
  <2>5. Does(t) # "analyze"
    BY <2>4 DEF Patches
  <2>6. ~seen.mixed => t.got = doc[Target(t)]
    BY <1>1, <1>3 DEF Alone
  <2>7. Same(t, tasks[s])
    BY DEF Same
  <2> HIDE DEF t
  <2>8. \A r \in 1..Len(doc') : ~(r > Len(doc))
    BY <1>1, <2>1
  <2>9. Goes(s, t)
    BY <1>1, <1>3, <2>1, <2>2, <2>3, <2>4, <2>5, <2>6, <2>7, <2>8 DEF Goes
  <2> QED
    BY <2>9, GoesKeeps
<1>4. CASE t.phase = "sent" /\ Does(t) \notin Patches \cup {"get"} /\ Created(t) /\ GoOn(s, Answer(t))
  <2> DEFINE u == Answer(t)
  <2>1. /\ Grown
        /\ Len(doc') = IF Does(t) = "analyze" THEN Len(doc) + 1 ELSE Len(doc)
        /\ \A r \in 1..Len(doc') : r > Len(doc) => doc'[r] = Unpatched
        /\ Does(t) = "batch" => /\ Len(jobs') = Len(jobs) + 1
                                /\ jobs'[Len(jobs) + 1].run = t.run
    BY <1>1, <1>4, CreatedGrows
  <2>2. /\ u \in TaskType({"answered", "failed"}) /\ u.phase = "answered"
        /\ u.kind = t.kind /\ u.at = t.at /\ u.from = t.from /\ u.got = t.got
        /\ u.run = IF Does(t) = "analyze" THEN Len(doc) + 1 ELSE t.run
        /\ u.batch = IF Does(t) = "batch" THEN Len(jobs) + 1 ELSE 0
        /\ Does(u) = Does(t) /\ Same(u, t)
        /\ Target(u) = u.run
    BY <1>1, <1>4, AnswerIs
  <2>3. Placed(t, doc', jobs')
    BY <1>1, <1>2, <2>1, PlacedGrows
  <2>4. Placed(u, doc', jobs')
    <3>1. Len(doc') \in Nat /\ Len(jobs) \in Nat /\ Len(jobs') \in Nat
      BY <1>1, <2>1 DEF Types, Grown
    <3>2. u.run \in 0..Len(doc')
      <4>1. CASE Does(t) = "analyze"
        BY <1>1, <2>1, <2>2, <3>1, <4>1
      <4>2. CASE Does(t) # "analyze"
        BY <2>2, <2>3, <4>2 DEF Placed
      <4> QED
        BY <4>1, <4>2
    <3>3. Does(u) \notin {"list", "analyze"} => u.run # 0
      BY <2>2, <2>3 DEF Placed
    <3>4. u.kind = "refresh" => u.from \in 1..Len(doc') /\ (u.at > 2 => u.from < u.run)
      <4>1. CASE Does(t) = "analyze"
        <5>1. u.run = Len(doc) + 1
          BY <2>2, <4>1
        <5>2. u.kind = "refresh" => u.from \in 1..Len(doc)
          BY <1>2, <2>2 DEF Placed
        <5> QED
          BY <1>1, <2>1, <4>1, <5>1, <5>2
      <4>2. CASE Does(t) # "analyze"
        BY <2>2, <2>3, <4>2 DEF Placed
      <4> QED
        BY <4>1, <4>2
    <3>5. Own(u, jobs', u.run)
      BY <2>1, <2>2, <3>1 DEF Own
    <3>6. Own(u.got, jobs', Target(u))
      BY <1>2, <1>4, <2>2 DEF Waiting, Own, Unpatched
    <3>7. u.at \in DOMAIN Program(u.kind)
      BY <1>2, <2>2 DEF Placed
    <3> HIDE DEF u
    <3> QED
      BY <3>2, <3>3, <3>4, <3>5, <3>6, <3>7 DEF Placed
  <2>5. u.batch # 0 => Does(u) \in {"batch", "backtest", "refresh_context"}
    BY <2>2
  <2>6. Does(u) \notin Patches \cup {"get"}
    BY <1>4, <2>2
  <2>7. GoOn(s, u)
    BY <1>4
  <2> HIDE DEF u, t
  <2>8. Goes(s, u)
    BY <1>1, <2>1, <2>2, <2>4, <2>5, <2>6, <2>7 DEF Goes, t
  <2> QED
    BY <2>8, GoesKeeps
<1> QED
  BY <1>3, <1>4 DEF Resume

\* A handler with an error.
LEMMA FailedIs ==
  ASSUME Types, NEW s \in Pending
  PROVE  LET t == tasks[s]
             u == [t EXCEPT !.phase = "failed"]
         IN /\ u \in TaskType({"answered", "failed"}) /\ u.phase = "failed"
            /\ u.kind = t.kind /\ u.at = t.at /\ u.from = t.from /\ u.run = t.run
            /\ u.batch = t.batch /\ u.got = t.got
            /\ Does(u) = Does(t) /\ Target(u) = Target(t) /\ Same(u, t)
<1> DEFINE t == tasks[s]  u == [t EXCEPT !.phase = "failed"]
<1>1. t \in TaskType(Phases)
  BY PendingTyped
<1>2. /\ u \in TaskType({"answered", "failed"}) /\ u.phase = "failed"
      /\ u.kind = t.kind /\ u.at = t.at /\ u.from = t.from /\ u.run = t.run
      /\ u.batch = t.batch /\ u.got = t.got
  BY <1>1 DEF TaskType
<1> HIDE DEF u, t
<1>3. Does(u) = Does(t) /\ Target(u) = Target(t) /\ Same(u, t)
  BY <1>2 DEF Does, Target, Same
<1> QED
  BY <1>2, <1>3 DEF u, t

LEMMA FailedGoes ==
  ASSUME IInv, NEW s \in Pending, Grown, fails' \in Nat \ {0},
         GoOn(s, [tasks[s] EXCEPT !.phase = "failed"])
  PROVE  IInv'
<1> DEFINE t == tasks[s]  u == [t EXCEPT !.phase = "failed"]
<1>1. Types /\ References /\ s \in 1..Slots
  BY DEF IInv, Pending
<1>2. Placed(t, doc, jobs) /\ Waiting(t) /\ t \in TaskType(Phases)
  BY <1>1, PendingTyped DEF References
<1>3. /\ u \in TaskType({"answered", "failed"}) /\ u.phase = "failed"
      /\ u.kind = t.kind /\ u.at = t.at /\ u.from = t.from /\ u.run = t.run
      /\ u.batch = t.batch /\ u.got = t.got
      /\ Does(u) = Does(t) /\ Target(u) = Target(t) /\ Same(u, t)
  BY <1>1, FailedIs
<1>4. Placed(t, doc', jobs')
  BY <1>1, <1>2, PlacedGrows
<1>5. GoOn(s, u)
  OBVIOUS
<1> HIDE DEF u
<1>6. Placed(u, doc', jobs')
  BY <1>3, <1>4 DEF Placed, Own
<1>7. u.batch # 0 => Does(u) \in {"batch", "backtest", "refresh_context"}
  BY <1>2, <1>3 DEF Waiting
<1> HIDE DEF t
<1>8. Goes(s, u)
  BY <1>3, <1>5, <1>6, <1>7 DEF Goes, t
<1> QED
  BY <1>1, <1>8, GoesKeeps

LEMMA FailKeeps == \A s \in 1..Slots : IInv /\ Fail(s) => IInv'
<1> SUFFICES ASSUME NEW s \in 1..Slots, IInv, Fail(s) PROVE IInv'
  OBVIOUS
<1>1. Types /\ References /\ s \in Pending /\ fails' \in Nat \ {0}
  BY DEF IInv, Types, Fail, Pending
<1>2. Grown
  BY <1>1, Stays, CreatedGrows DEF Fail
<1> QED
  BY <1>1, <1>2, FailedGoes DEF Fail

\* A run that cannot be found was not stored: a request had failed before.
LEMMA RefuseKeeps == \A s \in 1..Slots : IInv /\ Refuse(s) => IInv'
<1> SUFFICES ASSUME NEW s \in 1..Slots, IInv, Refuse(s) PROVE IInv'
  OBVIOUS
<1>1. Types /\ References /\ CopyKept /\ s \in Pending /\ fails' = fails /\ fails \in Nat
  BY DEF IInv, Types, Refuse, Pending
<1>2. Grown
  BY <1>1, Stays DEF Refuse
<1>3. fails # 0
  <2>1. Placed(tasks[s], doc, jobs) /\ tasks[s] \in TaskType(Phases \cup {"failed"})
    BY <1>1, PendingTyped DEF References, TaskType, Phases
  <2>2. Does(tasks[s]) \notin {"list", "analyze"}
    BY DEF Refuse, Patches
  <2>3. Target(tasks[s]) \in Runs
    <3>1. Target(tasks[s]) \in 1..Len(doc)
      BY <1>1, <2>1, <2>2, TargetIsRun
    <3> QED
      BY <1>1, <3>1 DEF Runs, Types
  <2>4. doc[Target(tasks[s])] = Unstored
    BY <2>3 DEF Refuse, Kept
  <2> QED
    BY <1>1, <2>3, <2>4 DEF CopyKept
<1> QED
  BY <1>1, <1>2, <1>3, FailedGoes DEF Refuse

LEMMA StoreFailsKeeps == \A s \in 1..Slots : IInv /\ StoreFails(s) => IInv'
<1> SUFFICES ASSUME NEW s \in 1..Slots, IInv, StoreFails(s) PROVE IInv'
  OBVIOUS
<1> DEFINE t == tasks[s]  u == Answer(t)
<1>1. /\ Types /\ References /\ s \in Pending /\ fails' \in Nat \ {0} /\ Len(doc) \in Nat
      /\ t.phase = "sent" /\ Does(t) = "analyze" /\ GoOn(s, u)
  BY DEF IInv, Types, StoreFails, Pending
<1>2. Placed(t, doc, jobs) /\ Waiting(t)
  BY <1>1 DEF References
<1>3. Grown /\ Len(doc') = Len(doc) + 1
  BY DocGrows, <1>1 DEF StoreFails
<1>4. /\ u \in TaskType({"answered", "failed"}) /\ u.phase = "answered"
      /\ u.kind = t.kind /\ u.at = t.at /\ u.from = t.from /\ u.got = t.got
      /\ u.run = Len(doc) + 1 /\ u.batch = 0
      /\ Does(u) = Does(t) /\ Same(u, t)
      /\ Target(u) = u.run
  <2>1. Does(t) \notin Patches \cup {"get"} /\ Does(t) # "batch"
    BY <1>1 DEF Patches
  <2>2. /\ u \in TaskType({"answered", "failed"}) /\ u.phase = "answered"
        /\ u.kind = t.kind /\ u.at = t.at /\ u.from = t.from /\ u.got = t.got
        /\ u.run = IF Does(t) = "analyze" THEN Len(doc) + 1 ELSE t.run
        /\ u.batch = IF Does(t) = "batch" THEN Len(jobs) + 1 ELSE 0
        /\ Does(u) = Does(t) /\ Same(u, t)
        /\ Target(u) = u.run
    BY <1>1, <2>1, AnswerIs
  <2> HIDE DEF u, t
  <2> QED
    BY <1>1, <2>1, <2>2
<1> HIDE DEF u
<1>5. Placed(u, doc', jobs')
  <2>1. u.run \in 0..Len(doc') /\ (u.kind = "refresh" => u.from \in 1..Len(doc') /\ u.from < u.run)
    BY <1>1, <1>2, <1>3, <1>4 DEF Placed
  <2>2. Own(u, jobs', u.run) /\ Own(u.got, jobs', Target(u))
    BY <1>1, <1>2, <1>4 DEF Waiting, Own, Unpatched
  <2> QED
    BY <1>1, <1>2, <1>4, <2>1, <2>2 DEF Placed
<1> HIDE DEF t
<1>6. Goes(s, u)
  BY <1>1, <1>3, <1>4, <1>5 DEF Goes, t
<1> QED
  BY <1>6, GoesKeeps

(* The backtests and the loop that asks for them. *)

\* A step of these leaves the handlers and what is stored for the runs alone.
LEMMA QuietKeeps ==
  ASSUME IInv, Types', UNCHANGED <<doc, tasks>>, fails' = fails \/ fails' # 0,
         Len(jobs') = Len(jobs), \A b \in 1..Len(jobs) : jobs'[b].run = jobs[b].run,
         page'.known = page.known, page'.analysis = page.analysis, page'.active = page.active,
         page'.acts = page.acts, page'.batch = page.batch, page'.flags = page.flags,
         page'.opened = page.opened, page'.radarRun = page.radarRun, page'.last = page.last,
         page'.radar = "none" <=> page.radar = "none",
         seen'.keys = seen.keys, seen'.twice = seen.twice, seen'.mixed = seen.mixed,
         page'.rows \in 0..Len(jobs), RowsOwned'
  PROVE  IInv'
<1> USE DEF IInv
<1>1. /\ Pending' = Pending /\ Runs' = Runs /\ Len(jobs) \in Nat
      /\ DOMAIN jobs = 1..Len(jobs) /\ DOMAIN jobs' = 1..Len(jobs)
  BY DEF Pending, Runs, Types
<1>2. \A d, r : Own(d, jobs, r) => Own(d, jobs', r)
  BY DEF Own
<1>3. References'
  <2>1. /\ \A r \in Runs' : Own(doc'[r], jobs', r)
        /\ \A b \in DOMAIN jobs' : jobs'[b].run \in Runs'
    BY <1>1, <1>2 DEF References
  <2>2. /\ page'.known \subseteq Runs'
        /\ {page'.analysis, page'.active, page'.opened, page'.radarRun} \subseteq 0..Len(doc')
        /\ page'.rows \in 0..Len(jobs')
    BY <1>1 DEF References
  <2>3. Own(page', jobs', page'.active)
    BY <1>2 DEF References, Own
  <2>4. \A p \in Pending' : Placed(tasks'[p], doc', jobs') /\ Waiting(tasks'[p])
    BY <1>1, <1>2 DEF References, Placed
  <2> QED
    BY <2>1, <2>2, <2>3, <2>4 DEF References
<1>4. FlagsHeld'
  BY <1>1 DEF FlagsHeld
<1>5. RadarKept'
  BY DEF RadarKept
<1>6. Alone'
  BY <1>1 DEF Alone, Target, Does
<1>7. CopyKept'
  <2>1. \A p \in Pending : Behind(tasks[p]) => Behind(tasks[p])'
    BY DEF Behind, Does
  <2>2. Copied => Copied'
    BY DEF Copied
  <2> QED
    BY <1>1, <2>1, <2>2 DEF CopyKept
<1> QED
  BY <1>3, <1>4, <1>5, <1>6, <1>7

LEMMA FinishKeeps == \A b \in DOMAIN jobs : IInv /\ Finish(b) => IInv'
<1> SUFFICES ASSUME NEW b \in DOMAIN jobs, IInv, Finish(b) PROVE IInv'
  OBVIOUS
<1>1. Types /\ References /\ RowsOwned /\ page \in PageType
  BY DEF IInv, Types
<1>2. /\ jobs' = [jobs EXCEPT ![b] = [jobs[b] EXCEPT !.done = TRUE]]
      /\ UNCHANGED <<doc, page, chain, tasks, presses, fails, seen>>
  BY DEF Finish
<1> DEFINE k == [jobs[b] EXCEPT !.done = TRUE]
<1>3. b \in 1..Len(jobs) /\ jobs \in Seq(Job) /\ jobs[b] \in Job
  BY <1>1 DEF Types
<1>4. k \in Job /\ k.run = jobs[b].run
  BY <1>3 DEF Job
<1> HIDE DEF k
<1>5. /\ jobs' \in Seq(Job) /\ Len(jobs') = Len(jobs)
      /\ \A c \in 1..Len(jobs) : jobs'[c] = IF c = b THEN k ELSE jobs[c]
  BY <1>2, <1>3, <1>4, ExceptSeq DEF k
<1>6. \A c \in 1..Len(jobs) : jobs'[c].run = jobs[c].run
  BY <1>4, <1>5
<1>7. Types'
  BY <1>1, <1>2, <1>5 DEF Types
<1>8. RowsOwned'
  <2>1. page.rows \in 0..Len(jobs) /\ Len(jobs) \in Nat
    BY <1>1 DEF References, Types
  <2>2. page.rows # 0 => page.rows \in 1..Len(jobs)
    BY <2>1
  <2> QED
    BY <1>1, <1>2, <1>6, <2>2 DEF RowsOwned, Loaded
<1>9. page.rows \in 0..Len(jobs)
  BY <1>1 DEF References
<1> QED
  BY <1>2, <1>5, <1>6, <1>7, <1>8, <1>9, QuietKeeps

LEMMA PollAnsweredKeeps == \A b \in DOMAIN chain : IInv /\ PollAnswered(b) => IInv'
<1> SUFFICES ASSUME NEW b \in DOMAIN chain, IInv, PollAnswered(b) PROVE IInv'
  OBVIOUS
<1>1. /\ Types /\ References /\ RowsOwned /\ page \in PageType /\ seen \in SeenType
      /\ b \in 1..Len(jobs) /\ jobs \in Seq(Job) /\ chain \in [1..Len(jobs) -> ChainStates]
      /\ Len(jobs) \in Nat
  BY DEF IInv, Types
<1>2. UNCHANGED <<doc, jobs, tasks, presses, fails>>
  BY DEF PollAnswered
<1>3. chain' \in [1..Len(jobs) -> ChainStates]
  BY <1>1 DEF PollAnswered, ChainStates
<1>4. CASE b = page.batch
  <2> DEFINE final == jobs[b].done
  <2>1. /\ page' = [page EXCEPT !.rows = b, !.final = final]
        /\ seen' = [seen EXCEPT !.late = FALSE]
    BY <1>4 DEF PollAnswered, Alive
  <2>2. final \in BOOLEAN
    <3>1. jobs[b] \in Job
      BY <1>1
    <3> QED
      BY <3>1 DEF Job
  <2> HIDE DEF final
  <2>3. /\ page' \in PageType
        /\ page'.known = page.known /\ page'.analysis = page.analysis /\ page'.active = page.active
        /\ page'.acts = page.acts /\ page'.batch = page.batch /\ page'.flags = page.flags
        /\ page'.opened = page.opened /\ page'.radarRun = page.radarRun /\ page'.last = page.last
        /\ page'.radar = page.radar /\ page'.rows = b
    <3>1. page \in PageType /\ b \in Nat
      BY <1>1
    <3>2. page' = [page EXCEPT !.rows = b, !.final = final]
      BY <2>1
    <3> QED
      BY <2>2, <3>1, <3>2 DEF PageType
  <2>4. /\ seen' \in SeenType
        /\ seen'.keys = seen.keys /\ seen'.twice = seen.twice /\ seen'.mixed = seen.mixed
    BY <1>1, <2>1 DEF SeenType
  <2>5. Types'
    <3>1. /\ doc' \in Seq(StoredDoc \cup {Unstored}) /\ jobs' \in Seq(Job) /\ Len(jobs') = Len(jobs)
          /\ tasks' \in [1..Slots -> TaskType(Phases) \cup {Free}]
          /\ fails' \in Nat /\ presses' \in Nat
      BY <1>1, <1>2 DEF Types
    <3>2. page' \in PageType /\ seen' \in SeenType
      BY <2>3, <2>4
    <3> QED
      BY <1>3, <3>1, <3>2 DEF Types
  <2>6. RowsOwned'
    BY <1>1, <1>2, <1>4, <2>3 DEF RowsOwned, References, Own
  <2>7. page'.rows \in 0..Len(jobs)
    BY <1>1, <2>3
  <2> QED
    BY <1>2, <2>3, <2>4, <2>5, <2>6, <2>7, QuietKeeps
<1>5. CASE b # page.batch
  <2>1. UNCHANGED <<page, seen>>
    BY <1>5 DEF PollAnswered, Alive
  <2>2. Types'
    BY <1>1, <1>2, <1>3, <2>1 DEF Types
  <2>3. page.batch # 0 => chain'[page.batch] = chain[page.batch]
    BY <1>1, <1>5 DEF PollAnswered, References, Own
  <2>4. RowsOwned'
    BY <1>1, <1>2, <2>1, <2>3 DEF RowsOwned, Loaded
  <2>5. page.rows \in 0..Len(jobs)
    BY <1>1 DEF References
  <2> QED
    BY <1>2, <2>1, <2>2, <2>4, <2>5, QuietKeeps
<1> QED
  BY <1>4, <1>5

\* Only an answer brings rows: a lost one and the timer leave them.
LEMMA UnloadedKeeps ==
  ASSUME IInv, NEW b \in DOMAIN chain, NEW c \in {"asked", "failed"},
         chain' = [chain EXCEPT ![b] = c], UNCHANGED <<doc, jobs, page, tasks, presses, seen>>,
         fails' \in Nat, fails' = fails \/ fails' # 0
  PROVE  IInv'
<1>1. /\ Types /\ References /\ RowsOwned /\ chain \in [1..Len(jobs) -> ChainStates]
  BY DEF IInv, Types
<1>2. Types'
  BY <1>1 DEF Types, ChainStates
<1>3. RowsOwned'
  BY <1>1 DEF RowsOwned, Loaded, References, Own
<1>4. page.rows \in 0..Len(jobs)
  BY <1>1 DEF References
<1> QED
  BY <1>2, <1>3, <1>4, QuietKeeps

LEMMA PollFailedKeeps == \A b \in DOMAIN chain : IInv /\ PollFailed(b) => IInv'
<1> SUFFICES ASSUME NEW b \in DOMAIN chain, IInv, PollFailed(b) PROVE IInv'
  OBVIOUS
<1>1. fails' \in Nat /\ fails' # 0
  BY DEF IInv, Types, PollFailed
<1> QED
  BY <1>1, UnloadedKeeps DEF PollFailed

LEMMA PollAgainKeeps == \A b \in DOMAIN chain : IInv /\ PollAgain(b) => IInv'
BY UnloadedKeeps DEF IInv, Types, PollAgain

LEMMA RadarAgesKeeps == IInv /\ RadarAges => IInv'
<1> SUFFICES ASSUME IInv, RadarAges PROVE IInv'
  OBVIOUS
<1>1. Types /\ References /\ RowsOwned /\ page \in PageType
  BY DEF IInv, Types
<1>2. /\ page.radar = "fresh" /\ page' = [page EXCEPT !.radar = "stale"]
      /\ UNCHANGED <<doc, jobs, chain, tasks, presses, fails, seen>>
  BY DEF RadarAges
<1>3. /\ page' \in PageType
      /\ page'.known = page.known /\ page'.analysis = page.analysis /\ page'.active = page.active
      /\ page'.acts = page.acts /\ page'.batch = page.batch /\ page'.flags = page.flags
      /\ page'.opened = page.opened /\ page'.radarRun = page.radarRun /\ page'.last = page.last
      /\ page'.radar = "stale" /\ page'.rows = page.rows
  BY <1>1, <1>2 DEF PageType, Radars
<1>4. Types'
  BY <1>1, <1>2, <1>3 DEF Types
<1>5. RowsOwned'
  BY <1>1, <1>2, <1>3 DEF RowsOwned, Loaded
<1>6. page'.rows \in 0..Len(jobs)
  BY <1>1, <1>3 DEF References
<1> QED
  BY <1>2, <1>3, <1>4, <1>5, <1>6, QuietKeeps

(* The theorems. *)
LEMMA StepKeeps == IInv /\ [Next]_vars => IInv'
<1> SUFFICES ASSUME IInv, [Next]_vars PROVE IInv'
  OBVIOUS
<1>1. ASSUME NEW kind \in Pressed, Press(kind) PROVE IInv'
  BY <1>1, PressKeeps
<1>2. CASE AutoOpen \/ AutoScan
  BY <1>2, AutoOpenKeeps, AutoScanKeeps
<1>3. ASSUME NEW s \in 1..Slots, GetRun(s) \/ FindRun(s) \/ ReplaceActions(s)
      PROVE  IInv'
  BY <1>3, GetRunKeeps, FindRunKeeps, ReplaceActionsKeeps
<1>4. ASSUME NEW s \in 1..Slots, Resume(s) \/ Fail(s) \/ Refuse(s) \/ StoreFails(s)
      PROVE  IInv'
  BY <1>4, ResumeKeeps, FailKeeps, RefuseKeeps, StoreFailsKeeps
<1>5. ASSUME NEW b \in DOMAIN jobs, Finish(b) PROVE IInv'
  BY <1>5, FinishKeeps
<1>6. ASSUME NEW b \in DOMAIN chain, PollAnswered(b) \/ PollFailed(b) \/ PollAgain(b) PROVE IInv'
  BY <1>6, PollAnsweredKeeps, PollFailedKeeps, PollAgainKeeps
<1>7. CASE RadarAges
  BY <1>7, RadarAgesKeeps
<1>8. CASE UNCHANGED vars
  BY <1>8 DEF vars, IInv, Types, References, FlagsHeld, RowsOwned, RadarKept, Alone, CopyKept,
              Runs, Pending, Copied, Behind, Does, Target, Loaded
<1> QED
  BY <1>1, <1>2, <1>3, <1>4, <1>5, <1>6, <1>7, <1>8 DEF Next

\* The invariant on which the theorems rest, in every reachable state: where
\* each handler is in its program, what each flag, row and key belongs to, and
\* when the page's copy of a run is that of the gateway.
THEOREM Invariant == Spec => []IInv
<1>1. Init => IInv
  BY InitHolds
<1>2. IInv /\ [Next]_vars => IInv'
  BY StepKeeps
<1> QED
  BY <1>1, <1>2, PTL DEF Spec

\* The state of the page keeps its type: every run and batch it names is one
\* the gateway has answered with, whichever handlers of client.tsx overlap.
THEOREM TypeCorrect == Spec => []TypeOK
<1>1. IInv => TypeOK
  BY Stated
<1> QED
  BY <1>1, Invariant, PTL

\* A page on which no request is pending has all its flags down, so every
\* button is back: no order of answers and errors leaves a flag raised.
THEOREM AllFlagsComeDown == Spec => []IdleMeansFree
<1>1. IInv => IdleMeansFree
  BY Stated
<1> QED
  BY <1>1, Invariant, PTL

\* The rows that the loop of backtests has loaded are those of the run that is
\* shown, however many runs were opened and validated meanwhile.
THEOREM RowsBelong == Spec => []RowsAreOwn
<1>1. IInv => RowsAreOwn
  BY Stated
<1> QED
  BY <1>1, Invariant, PTL

\* After handlers that ran one after the other, and without an error, the page
\* shows of its run what the gateway has stored.
THEOREM CopyAgrees == Spec => []CopyIsCurrent
<1>1. IInv => CopyIsCurrent
  BY Stated
<1> QED
  BY <1>1, Invariant, PTL

\* The automatic radar never starts two scans for the same reason.
THEOREM ScansOnce == Spec => []AutoScanOnce
<1>1. IInv => AutoScanOnce
  BY Stated
<1> QED
  BY <1>1, Invariant, PTL

LEMMA GrownSticks ==
  ASSUME Types, Grown PROVE \A r \in Runs : doc[r].acts \subseteq doc'[r].acts
<1>1. Runs = 1..Len(doc)
  BY DEF Types, Runs
<1>2. \A r \in 1..Len(doc) : doc'[r] = doc[r]
  BY DEF Grown
<1> QED
  BY <1>1, <1>2

\* UpsertActionForUser reads the run and then replaces all its actions: what
\* was stored is lost only when two handlers of the page have overlapped.
THEOREM PatchesAreKept == Spec => PatchesStick
<1>1. ASSUME IInv, [Next]_vars
      PROVE  [\A r \in Runs : doc[r].acts \subseteq doc'[r].acts \/ seen.mixed]_vars
  <2> SUFFICES ASSUME Next, ~seen.mixed PROVE \A r \in Runs : doc[r].acts \subseteq doc'[r].acts
    BY <1>1
  <2>1. Types /\ References
    BY <1>1 DEF IInv
  <2>2. ASSUME UNCHANGED doc PROVE \A r \in Runs : doc[r].acts \subseteq doc'[r].acts
    BY <2>2
  <2>3. CASE \E kind \in Pressed : Press(kind)
    BY <2>2, <2>3 DEF Press, Begin
  <2>4. CASE AutoOpen \/ AutoScan
    BY <2>2, <2>4 DEF AutoOpen, AutoScan, Begin
  <2>5. ASSUME NEW s \in 1..Slots, GetRun(s) \/ FindRun(s) \/ Refuse(s)
        PROVE  \A r \in Runs : doc[r].acts \subseteq doc'[r].acts
    BY <2>2, <2>5 DEF GetRun, FindRun, Refuse
  <2>6. ASSUME NEW s \in 1..Slots, ReplaceActions(s)
        PROVE  \A r \in Runs : doc[r].acts \subseteq doc'[r].acts
    <3> DEFINE new == Upserted(tasks[s].got, Does(tasks[s]), tasks[s].batch)
    <3>1. /\ s \in Pending /\ tasks[s].phase = "read"
          /\ tasks[s].got.acts \subseteq new.acts
          /\ \A r \in 1..Len(doc) : doc'[r] = IF r = Target(tasks[s]) THEN new ELSE doc[r]
      BY <1>1, <2>6, Replacement
    <3>2. tasks[s].got = doc[Target(tasks[s])]
      BY <1>1, <3>1 DEF IInv, Alone
    <3>3. Runs = 1..Len(doc)
      BY <2>1 DEF Runs, Types
    <3> HIDE DEF new
    <3> QED
      BY <3>1, <3>2, <3>3
  <2>7. ASSUME NEW s \in 1..Slots, Resume(s) \/ Fail(s)
        PROVE  \A r \in Runs : doc[r].acts \subseteq doc'[r].acts
    <3>1. s \in Pending /\ (UNCHANGED <<doc, jobs>> \/ Created(tasks[s]))
      BY <2>7 DEF Resume, Fail, Pending
    <3>2. Grown
      BY <2>1, <3>1, Stays, CreatedGrows
    <3> QED
      BY <2>1, <3>2, GrownSticks
  <2>8. ASSUME NEW s \in 1..Slots, StoreFails(s)
        PROVE  \A r \in Runs : doc[r].acts \subseteq doc'[r].acts
    <3>1. doc' = Append(doc, Unstored) /\ UNCHANGED jobs
      BY <2>8 DEF StoreFails
    <3>2. Grown
      BY <2>1, <3>1, DocGrows
    <3> QED
      BY <2>1, <3>2, GrownSticks
  <2>9. ASSUME NEW b \in DOMAIN jobs, Finish(b)
        PROVE  \A r \in Runs : doc[r].acts \subseteq doc'[r].acts
    BY <2>2, <2>9 DEF Finish
  <2>10. ASSUME NEW b \in DOMAIN chain, PollAnswered(b) \/ PollFailed(b) \/ PollAgain(b)
         PROVE  \A r \in Runs : doc[r].acts \subseteq doc'[r].acts
    BY <2>2, <2>10 DEF PollAnswered, PollFailed, PollAgain
  <2>11. CASE RadarAges
    BY <2>2, <2>11 DEF RadarAges
  <2> QED
    BY <2>3, <2>4, <2>5, <2>6, <2>7, <2>8, <2>9, <2>10, <2>11 DEF Next
<1> QED
  BY <1>1, Invariant, PTL DEF Spec, PatchesStick
================================================================================
