------------------------------- MODULE MoneyPage -------------------------------
(***************************************************************************)
(* The handlers of the AI goal page, interleaved.  A handler is a list of  *)
(* requests; between two of them anything else may happen on the page: a   *)
(* second handler, the load of the backtests, a scan that starts by        *)
(* itself.  Each handler raises flags that disable buttons, and writes     *)
(* what it was answered into the state of the page, whatever that state    *)
(* has become meanwhile.  What the buttons offer is GoalControls's matter. *)
(* A handler that ends by leaving the page is not modelled here.           *)
(***************************************************************************)
EXTENDS GoalControls, GoalRuns

CONSTANTS
  Pressed,     \* the handlers a person starts
  Stored,      \* how many runs there are when the page is opened, all validated
  Slots,       \* bound: handlers at one time
  MaxPresses,  \* bound: handlers in all
  MaxFails,    \* bound: requests that fail
  Gate,        \* what the gateway says of the AI provider
  AutoOn,      \* the automatic radar is switched on
  Back         \* the page was opened from the settings, to run again

Kinds == {"list", "open", "analyze", "pipeline", "scan", "validate", "validate_run", "refresh",
          "accept", "save_and_accept", "review"}

ASSUME MoneyPageAssumption ==
  /\ Pressed \subseteq Kinds
  /\ Stored \in Nat \ {0} /\ Slots \in Nat \ {0} /\ MaxPresses \in Nat \ {0} /\ MaxFails \in Nat
  /\ Gate \in Gates /\ AutoOn \in BOOLEAN /\ Back \in BOOLEAN

VARIABLES
  doc,    \* for each run the actions stored and the batch its backtests are
  jobs,   \* for each batch its run and whether its backtests are finished
  page,   \* the state of the page
  chain,  \* for each batch the state of the loop that asks for its backtests
  tasks,  \* the handlers that wait for an answer
  presses, fails,
  seen    \* for the properties: scans that started by themselves, handlers
          \* that overlapped, rows another run's handler has put up

vars == <<doc, jobs, page, chain, tasks, presses, fails, seen>>

(* Handlers: their requests, and the flags they hold while each is pending. *)
Step(does, holds) == [does |-> does, holds |-> holds]

Pipeline == <<Step("analyze", {"busy", "pipeline"}), Step("batch", {"pipeline", "batch"}),
              Step("backtest", {"pipeline", "batch"})>>

\* A patch is named after the action it patches.
Patches == {"backtest", "strategy", "paper_watch", "sentiment_review", "refresh_context"}

Program(kind) ==
  CASE kind = "list"         -> <<Step("list", {"runs"})>>
    [] kind = "open"         -> <<Step("get", {"runs"})>>
    [] kind = "analyze"      -> <<Step("analyze", {"busy"})>>
    [] kind \in {"pipeline", "scan"} -> Pipeline
    [] kind = "validate"     -> <<Step("batch", {"batch"}), Step("backtest", {"batch"})>>
    [] kind = "validate_run" -> <<Step("get", {"runs"}), Step("batch", {"runs", "batch"}),
                                  Step("backtest", {"runs", "batch"})>>
    [] kind = "refresh"      -> <<Step("get", {"runs"})>>
         \o [i \in DOMAIN Pipeline |-> [Pipeline[i] EXCEPT !.holds = @ \cup {"runs"}]]
         \o <<Step("refresh_context", {"runs"})>>
    [] kind = "accept"       -> <<Step("strategy", {}), Step("paper_watch", {})>>
    [] kind = "save_and_accept" -> <<Step("create", {"saving"}), Step("strategy", {"saving"}),
                                     Step("paper_watch", {})>>
    [] kind = "review"       -> <<Step("sentiment_review", {"action"})>>

Unpatched == [acts |-> {}, batch |-> 0]
\* A run that was answered though storing it failed.
Unstored == [acts |-> {"none"}, batch |-> 0]
Free == [kind |-> "none"]

\* run: the run it works on; from: the run it was started on; batch: what it
\* created; got: what it was answered.
Task(kind, run) ==
  [kind |-> kind, at |-> 1, run |-> run, from |-> run, batch |-> 0, phase |-> "sent",
   got |-> Unpatched]

Does(t)     == Program(t.kind)[t.at].does
Holds(t, i) == IF i \in DOMAIN Program(t.kind) THEN Program(t.kind)[i].holds ELSE {}
Ended(t)    == Len(Program(t.kind)) + 1

Pending == {s \in 1..Slots : tasks[s] # Free}
Runs    == DOMAIN doc
Kept    == {r \in Runs : doc[r] # Unstored}

\* A page that was just opened, and one on which the first run has been opened
\* and its backtests loaded.  (Bound: the first sees one handler less.)
Mounted == [known |-> {}, analysis |-> 0, active |-> 0, acts |-> {}, batch |-> 0,
            flags |-> {"runs"}, rows |-> 0, final |-> FALSE, opened |-> 0,
            radar |-> "none", radarRun |-> 0, last |-> <<>>, back |-> FALSE]
AtRest == [Mounted EXCEPT !.known = 1..Stored, !.analysis = 1, !.active = 1,
             !.acts = {"backtest"}, !.batch = 1, !.flags = {}, !.rows = 1, !.final = TRUE,
             !.opened = 1]

Init ==
  /\ doc = [r \in 1..Stored |-> [acts |-> {"backtest"}, batch |-> r]]
  /\ jobs = [r \in 1..Stored |-> [run |-> r, done |-> TRUE]]
  /\ \/ /\ page = Mounted /\ presses = MaxPresses - 1
        /\ tasks = [s \in 1..Slots |-> IF s = 1 THEN Task("list", 0) ELSE Free]
     \/ /\ page = AtRest /\ presses = 0
        /\ tasks = [s \in 1..Slots |-> Free]
  /\ chain = [r \in 1..Stored |-> IF r = page.batch THEN "done" ELSE "off"] /\ fails = 0
  /\ seen = [keys |-> {}, twice |-> FALSE, mixed |-> FALSE, late |-> FALSE]

(* Starting a handler. *)
Shown == IF page.active = page.analysis /\ page.batch # 0 THEN page.rows ELSE 0

Raised(kinds) == page.flags \cap kinds # {}
Analyzing == {"busy", "pipeline", "batch"}

\* Some panel's button for the handler can be pressed.  The list of runs and
\* three of the buttons that adopt are never disabled.
Enabled(kind) ==
  CASE kind \in {"open", "accept"}            -> TRUE
    [] kind = "list"                          -> ~Raised({"runs"})
    [] kind \in {"analyze", "pipeline", "scan"} -> ~Raised(Analyzing) /\ ~GateOf(Gate).blockManual
                                                 /\ (kind # "analyze" => ~GateOf(Gate).blockRadar)
    [] kind \in {"validate_run", "refresh"}   -> ~Raised(Analyzing \cup {"runs"})
    [] kind = "validate"                      -> ~Raised({"batch"})
    [] kind = "save_and_accept"               -> ~Raised(Analyzing \cup {"saving"})
    [] kind = "review"                        -> ~Raised({"action"})

\* What it works on: a run of the list, the run that is shown, or none yet.
Targets(kind) ==
  CASE kind \in {"open", "validate_run", "refresh"} -> page.known
    [] kind \in {"validate", "review"}              -> {page.analysis} \ {0}
    [] kind \in {"accept", "save_and_accept"} ->
         IF Shown # 0 /\ page.final THEN {page.analysis} \ {0} ELSE {}
    [] OTHER -> {0}

Begin(kind, run, last, auto) ==
  \E s \in 1..Slots \ Pending :
    /\ IF auto = "open" THEN UNCHANGED presses
       ELSE presses < MaxPresses /\ presses' = presses + 1
    /\ \A s2 \in 1..Slots \ Pending : s <= s2
    /\ tasks' = [tasks EXCEPT ![s] = Task(kind, run)]
    /\ page' = [page EXCEPT !.flags = @ \cup Program(kind)[1].holds, !.last = last,
                  !.back = @ \/ auto = "return", !.opened = IF auto = "open" THEN run ELSE @]
    /\ seen' = [seen EXCEPT !.mixed = @ \/ Pending # {},
                  !.keys = IF auto = "radar" THEN @ \cup {last} ELSE @,
                  !.twice = @ \/ (auto = "radar" /\ last \in seen.keys)]
    /\ UNCHANGED <<doc, jobs, chain, fails>>

Press(kind) ==
  /\ Enabled(kind)
  /\ \E run \in Targets(kind) : Begin(kind, run, page.last, "no")

\* The effect that opens the most urgent run, which may be any of the list.
AutoOpen ==
  /\ ~Raised({"runs"}) /\ page.active = 0
  /\ \E run \in page.known \ {page.opened} : Begin("open", run, page.last, "open")

\* The effects that start a scan: back from the settings, or for today's radar.
AutoScan ==
  LET offer == RadarOffer(page.radar)
      working == Raised(Analyzing \cup {"runs"})
  IN IF Back
     THEN ReturnRun(TRUE, working, Gate, page.back) /\ Begin("scan", 0, page.last, "return")
     ELSE /\ AutoRadar(AutoOn, working, Gate, offer, page.radarRun, page.last)
          /\ Begin("scan", 0, RadarKey(offer, page.radarRun), "radar")

(* The gateway. *)
Keep(s, t) == tasks' = [tasks EXCEPT ![s] = t]

\* What is read and what is patched may have changed again before the page has
\* the answer; all else is served and answered in one step.
Created(t) == /\ doc'  = IF Does(t) = "analyze" THEN Append(doc, Unpatched) ELSE doc
              /\ jobs' = IF Does(t) = "batch" THEN Append(jobs, [run |-> t.run, done |-> FALSE])
                         ELSE jobs

\* Mutant of Answer: a run that is one ahead.
AnswerAhead(t) == [t EXCEPT !.phase = "answered",
                     !.run   = IF Does(t) = "analyze" THEN Len(doc) + 2 ELSE @,
                     !.batch = IF Does(t) = "batch" THEN Len(jobs) + 1 ELSE @]

Answer(t) == [t EXCEPT !.phase = "answered",
                !.run   = IF Does(t) = "analyze" THEN Len(doc) + 1 ELSE @,
                !.batch = IF Does(t) = "batch" THEN Len(jobs) + 1 ELSE @]

GetRun(s) ==
  LET t == tasks[s]
  IN /\ t # Free /\ t.phase = "sent" /\ Does(t) = "get" /\ t.run \in Kept
     /\ Keep(s, [t EXCEPT !.phase = "answered", !.got = doc[t.run]])
     /\ UNCHANGED <<doc, jobs, page, chain, presses, fails, seen>>

Target(t) == IF Does(t) = "refresh_context" THEN t.from ELSE t.run

\* Mutant of Upserted: the list holds nothing but the new action.
UpsertedAlone(old, id, batch) ==
  [acts |-> {id}, batch |-> IF id = "backtest" THEN batch ELSE old.batch]

\* UpsertActionForUser reads the run, and then replaces all its actions.
Upserted(old, id, batch) ==
  [acts |-> old.acts \cup {id}, batch |-> IF id = "backtest" THEN batch ELSE old.batch]

FindRun(s) ==
  LET t == tasks[s]
  IN /\ t # Free /\ t.phase = "sent" /\ Does(t) \in Patches /\ Target(t) \in Kept
     /\ Keep(s, [t EXCEPT !.phase = "read", !.got = doc[Target(t)]])
     /\ UNCHANGED <<doc, jobs, page, chain, presses, fails, seen>>

ReplaceActions(s) ==
  LET t == tasks[s]
      new == Upserted(t.got, Does(t), t.batch)
  IN /\ t # Free /\ t.phase = "read"
     /\ doc' = [doc EXCEPT ![Target(t)] = new]
     /\ Keep(s, [t EXCEPT !.phase = "answered", !.got = new])
     /\ UNCHANGED <<jobs, page, chain, presses, fails, seen>>

Finish(b) ==
  /\ ~jobs[b].done /\ jobs' = [jobs EXCEPT ![b].done = TRUE]
  /\ UNCHANGED <<doc, page, chain, tasks, presses, fails, seen>>

(* The page goes on. *)

\* Flags go down when a handler leaves the part that raised them.
\* Mutant of Lowered: not when it leaves through an error.
LoweredAfterSuccess(t, to) ==
  IF t.phase = "failed" THEN page.flags ELSE (page.flags \ Holds(t, t.at)) \cup Holds(t, to)

Lowered(t, to) ==
  (page.flags \ (Holds(t, t.at) \ Holds(t, to))) \cup (Holds(t, to) \ Holds(t, t.at))

\* A changed list of backtests ends the loop over the old one and starts one.
Chained(new, grown) ==
  [b \in 1..grown |->
     CASE b = new /\ b # page.batch -> "asked"
       [] b = page.batch /\ b # new /\ chain[b] = "timer" -> "off"
       [] OTHER -> IF b \in DOMAIN chain THEN chain[b] ELSE "off"]

\* Where the handler goes on: a refresh stops where the provider blocks it,
\* and notes the new run on the old one though validating it has failed.
Onward(t) ==
  IF t.phase = "answered"
  THEN IF t.kind = "refresh" /\ Does(t) = "get" /\ GateOf(Gate).blockManual
       THEN Ended(t) ELSE t.at + 1
  ELSE IF t.kind = "refresh" /\ Does(t) \in {"batch", "backtest"} THEN 5 ELSE Ended(t)

WithRun(t) == [page EXCEPT !.active = t.run, !.acts = t.got.acts, !.batch = t.got.batch,
                           !.known = @ \cup {t.run}]

Opened(t) == [WithRun(t) EXCEPT !.analysis = t.run]

Analyzed(t) ==
  [page EXCEPT !.analysis = t.run, !.active = t.run, !.acts = {}, !.batch = 0,
     !.known = @ \cup {t.run},
     !.radar = IF t.kind = "scan" THEN "fresh" ELSE @,
     !.radarRun = IF t.kind = "scan" THEN t.run ELSE @]

\* What the answer changes on the page.
\* Mutant of Applied: the answer to a patch is only put into the list.
AppliedToList(t) ==
  CASE Does(t) = "list" -> [page EXCEPT !.known = Kept]
    [] Does(t) = "get" /\ t.kind # "refresh" -> Opened(t)
    [] Does(t) = "analyze" -> Analyzed(t)
    [] Does(t) = "batch" -> [page EXCEPT !.rows = t.batch, !.final = FALSE]
    [] OTHER -> page

Applied(t) ==
  CASE Does(t) = "list" -> [page EXCEPT !.known = Kept]
    [] Does(t) = "get" /\ t.kind # "refresh" -> Opened(t)
    [] Does(t) = "analyze" -> Analyzed(t)
    [] Does(t) = "batch" -> [page EXCEPT !.rows = t.batch, !.final = FALSE]
    [] Does(t) \in Patches \ {"refresh_context"} /\ ~(t.kind = "accept" /\ t.at = 1) -> WithRun(t)
    [] OTHER -> page

\* The page goes on with the answer to t, or with the error.
GoOn(s, t) ==
  LET next == IF t.phase = "answered" THEN Applied(t) ELSE page
      to   == Onward(t)
  IN /\ page' = [next EXCEPT !.flags = Lowered(t, to)]
     /\ chain' = Chained(next.batch, Len(jobs'))
     /\ Keep(s, IF to = Ended(t) THEN Free
                ELSE [t EXCEPT !.at = to, !.phase = "sent", !.got = Unpatched])
     /\ seen' = [seen EXCEPT !.late =
          @ \/ (t.phase = "answered" /\ Does(t) = "batch" /\ page.active # t.run)]
     /\ UNCHANGED presses

Resume(s) ==
  LET t == tasks[s]
  IN /\ t # Free /\ UNCHANGED fails
     /\ \/ t.phase = "answered" /\ UNCHANGED <<doc, jobs>> /\ GoOn(s, t)
        \/ t.phase = "sent" /\ Does(t) \notin Patches \cup {"get"} /\ Created(t) /\ GoOn(s, Answer(t))

\* A request fails, before it is served or after.
Fail(s) ==
  LET t == tasks[s]
  IN /\ t # Free /\ t.phase \in {"sent", "answered"} /\ fails < MaxFails /\ fails' = fails + 1
     /\ \/ UNCHANGED <<doc, jobs>>
        \/ t.phase = "sent" /\ Created(t)
     /\ GoOn(s, [t EXCEPT !.phase = "failed"])

\* A run that is not stored can be neither read nor patched.
Refuse(s) ==
  LET t == tasks[s]
  IN /\ t # Free /\ t.phase = "sent" /\ Does(t) \in Patches \cup {"get"} /\ Target(t) \notin Kept
     /\ UNCHANGED <<doc, jobs, fails>> /\ GoOn(s, [t EXCEPT !.phase = "failed"])

\* The gateway answers the analysis also when it could not store the run.
StoreFails(s) ==
  LET t == tasks[s]
  IN /\ t # Free /\ t.phase = "sent" /\ Does(t) = "analyze" /\ fails < MaxFails /\ fails' = fails + 1
     /\ doc' = Append(doc, Unstored) /\ UNCHANGED jobs
     /\ GoOn(s, Answer(t))

(* The loop that asks for the backtests of the run that is shown. *)

\* Mutant of Alive: answers are taken though the list has changed.
AliveAlways(b) == TRUE
Alive(b) == b = page.batch

\* Mutant of NeedsPolling: backtests are asked for once.
NeedsPollingNever(b) == FALSE
NeedsPolling(b) == ~jobs[b].done

PollAnswered(b) ==
  /\ chain[b] = "asked"
  /\ page' = IF Alive(b) THEN [page EXCEPT !.rows = b, !.final = jobs[b].done] ELSE page
  /\ chain' = [chain EXCEPT ![b] = IF ~Alive(b) THEN "off"
                                    ELSE IF NeedsPolling(b) THEN "timer" ELSE "done"]
  /\ seen' = IF Alive(b) THEN [seen EXCEPT !.late = FALSE] ELSE seen
  /\ UNCHANGED <<doc, jobs, tasks, presses, fails>>

PollFailed(b) ==
  /\ chain[b] = "asked" /\ fails < MaxFails /\ fails' = fails + 1
  /\ chain' = [chain EXCEPT ![b] = "failed"]
  /\ UNCHANGED <<doc, jobs, page, tasks, presses, seen>>

PollAgain(b) ==
  /\ chain[b] = "timer" /\ chain' = [chain EXCEPT ![b] = "asked"]
  /\ UNCHANGED <<doc, jobs, page, tasks, presses, fails, seen>>

(* The surroundings. *)
\* Six hours pass.
RadarAges ==
  /\ page.radar = "fresh" /\ page' = [page EXCEPT !.radar = "stale"]
  /\ UNCHANGED <<doc, jobs, chain, tasks, presses, fails, seen>>

Next ==
  \/ \E kind \in Pressed : Press(kind)
  \/ AutoOpen \/ AutoScan
  \/ \E s \in 1..Slots : GetRun(s) \/ FindRun(s) \/ ReplaceActions(s) \/ Resume(s)
                             \/ Fail(s) \/ Refuse(s) \/ StoreFails(s)
  \/ \E b \in DOMAIN jobs : Finish(b)
  \/ \E b \in DOMAIN chain : PollAnswered(b) \/ PollFailed(b) \/ PollAgain(b)
  \/ RadarAges

Spec == Init /\ [][Next]_vars

\* Requests are answered or fail, the quant service works its queue off, the
\* timer fires, and the page goes on when it has an answer.
FairSpec ==
  /\ Spec
  /\ \A s \in 1..Slots :
       WF_vars(GetRun(s)) /\ WF_vars(FindRun(s)) /\ WF_vars(ReplaceActions(s)) /\ WF_vars(Resume(s) \/ Refuse(s))
  /\ \A b \in 1..(Stored + MaxPresses) :
       /\ WF_vars(b \in DOMAIN jobs /\ Finish(b))
       /\ WF_vars(b \in DOMAIN chain /\ (PollAnswered(b) \/ PollAgain(b)))

(* Properties. *)
TypeOK ==
  /\ \A r \in Runs : doc[r].acts \subseteq Patches \cup {"none"} /\ doc[r].batch \in 0..Len(jobs)
  /\ \A b \in DOMAIN jobs : jobs[b].run \in Runs /\ jobs[b].done \in BOOLEAN
  /\ {page.analysis, page.active, page.opened, page.radarRun} \subseteq Runs \cup {0}
  /\ {page.batch, page.rows} \subseteq 0..Len(jobs) /\ page.acts \subseteq Patches
  /\ page.flags \subseteq {"runs", "busy", "pipeline", "batch", "action", "saving"}
  /\ \A b \in DOMAIN chain : chain[b] \in {"off", "asked", "timer", "done", "failed"}
  /\ \A s \in Pending : tasks[s].at \in DOMAIN Program(tasks[s].kind)

\* A page on which nothing is pending has every button back, whatever order
\* the handlers ended in and whichever of them failed.
IdleMeansFree == Pending = {} => page.flags = {}

\* The rows under a run are those of its own backtests, once the page has
\* loaded them.  The exception is a batch that ends after another run was
\* opened: its rows stay under that run until they are asked for again.
Loaded(b) == chain[b] \in {"timer", "done"}
RowsAreOwn ==
  Shown # 0 /\ Loaded(page.batch) /\ ~seen.late => jobs[Shown].run = page.analysis

\* The gateway forgets an action it has stored only when two handlers of the
\* page were pending at the same time.
PatchesStick ==
  [][\A r \in Runs : doc[r].acts \subseteq doc'[r].acts \/ seen.mixed]_vars

\* A page at rest shows what is stored for its run, unless handlers overlapped
\* or a request failed.
CopyIsCurrent ==
  Pending = {} /\ fails = 0 /\ ~seen.mixed /\ page.active # 0 =>
    page.acts = doc[page.active].acts /\ page.batch = doc[page.active].batch

\* The radar does not scan twice by itself for the same reason: a scan that
\* failed is not tried again behind the user's back.
AutoScanOnce == ~seen.twice

\* Every flag comes down again.
FlagsComeDown == []<>(page.flags = {})

\* A run whose backtests are asked for is shown their results in the end,
\* unless the page turns to others or an answer fails.
ResultsArrive ==
  \A b \in 1..(Stored + MaxPresses) :
    page.batch = b /\ Loaded(b) ~> page.batch # b \/ fails > 0 \/ (page.rows = b /\ page.final)
================================================================================
