-------------------------------- MODULE GoalRun --------------------------------
(***************************************************************************)
(* One goal run on its way from the analysis to the edge of the testnet:   *)
(* the actions the gateway stores for it, the backtests the quant service  *)
(* runs, and the page that shows panels over its own copy of both.  A      *)
(* person presses any button the page draws; another tab may adopt from    *)
(* the page of a backtest.  A handler is one step here with all the ways   *)
(* its requests may fail; MoneyPage interleaves the handlers.  A later     *)
(* analysis replaces the run; the earlier one is not followed any longer.  *)
(***************************************************************************)
EXTENDS GoalControls, GoalRuns, SequencesExt

CONSTANTS
  Analyses,    \* the analyses the AI may answer with
  Outcomes,    \* the grades a backtest may end with
  MaxJobs,     \* bound: backtests of one run
  Accounts,    \* what the accounts of the user come to: none or safe
  Gate,        \* what the gateway says of the AI provider, once asked
  AutoOn,      \* the automatic radar is switched on
  Closed       \* bound: the actions a person closes or reopens

ASSUME GoalAssumption ==
  /\ Analyses \subseteq AnalysisType
  /\ MaxJobs \in Nat
  /\ Outcomes \subseteq Finished
  /\ Closed \subseteq ManualIds /\ Gate \in Gates
  /\ Accounts \in {"none", "safe"} /\ AutoOn \in BOOLEAN

VARIABLES
  run,      \* 1 when there is a run, 0 before the first
  a,        \* its analysis
  doc,      \* its actions as the gateway stores them
  related,  \* the backtests its backtest action names
  jobs,     \* its backtests
  page,     \* what the page holds
  past      \* what was done to the run, for the properties

vars == <<run, a, doc, related, jobs, page, past>>

NoActs == [id \in ActionIds |-> Missing]
NoPast == [adopted |-> "no", grade |-> "running", reviewed |-> FALSE, felt |-> FALSE]

\* open: the run is shown; polling: yes or no more.
NewPage(radar) == [open |-> FALSE, acts |-> NoActs, related |-> <<>>, rows |-> <<>>,
                   polling |-> "no", radar |-> radar]

\* The age of today's radar as a page finds it when it is loaded.  (Bound: it
\* does not age on the page.)
Aged(radar) == {radar} \cup (IF radar = "fresh" THEN {"stale"} ELSE {})

\* A page that was left or loaded again.
Left == {NewPage(radar) : radar \in Aged(page.radar)}

\* The rows that count: none before the run has backtests.
Rows == IF page.related = <<>> THEN <<>> ELSE page.rows

\* o: six hours have passed since the run was made.
List(o) == IF run = 0 THEN <<>>
        ELSE <<Entry(run, IF page.open THEN page.acts ELSE doc, o,
                     ~a.context \/ ~a.real, a.drafts # <<>>, 0)>>

View(o) ==
  LET around == [accounts |-> Accounts, gate |-> Gate, radar |-> page.radar, old |-> o,
                 auto |-> AutoOn, back |-> FALSE,
                 queue |-> Queue(List(o), [id \in {run} |->
                                     SelectSeq(Rows, LAMBDA r : r.grade \in Finished)])]
  IN IF page.open THEN Viewed(a, page.acts, Rows, around)
                  ELSE Viewed(NoAnalysis, NoActs, <<>>, around)

\* The buttons the page draws.  The age of the run adds one kind of button,
\* refresh_run, and takes others away.
Shown(kind) == ~Hidden(View(FALSE), kind)

TypeOK ==
  /\ run \in {0, 1}
  /\ a \in Analyses \cup {NoAnalysis}
  /\ \A id \in ActionIds : doc[id].status \in Statuses \cup {"none"}
  /\ \A id \in ActionIds : page.acts[id].status \in Statuses \cup {"none"}
  /\ Len(jobs) <= MaxJobs /\ \A j \in DOMAIN jobs : jobs[j].grade \in Outcomes \cup {"running"}
  /\ ToSet(related) \cup ToSet(page.related) \subseteq DOMAIN jobs
  /\ page.polling \in {"no", "yes"}
  /\ page.radar \in Radars

\* A run stored before a completed review had to name its evidence.
Legacy(x) == [DefaultActions(x) EXCEPT
  !["paper_watch"] = Action("done", PlainNote, TRUE),
  !["strategy"]    = Action("ready", SignalsNote, TRUE)]

Init ==
  /\ page = NewPage("none")
  /\ jobs = <<>> /\ related = <<>>
  /\ \/ /\ run = 0 /\ a = NoAnalysis /\ doc = NoActs /\ past = NoPast
     \/ /\ run = 1 /\ a \in {x \in Analyses : Tradable(x) # {}} /\ doc = Legacy(a)
        /\ past = [NoPast EXCEPT !.adopted = "page", !.grade = "paper", !.reviewed = TRUE]

(* Starting an analysis.  Only a blocked provider sends the page away. *)
Redirects(gate) == GateOf(gate).blockManual

\* The backtests created for n drafts of x, in the order of the drafts.
Running(x, n) ==
  LET drafts == SetToSortSeq(Runnable(x), <)
  IN [i \in 1..n |-> Row(x.drafts[drafts[i]].sid, "running")]

\* runGoalAnalysis, then runValidationBacktests when the page validates too.
\* Each create may fail and ends the batch; the last patch may fail.  (Bound:
\* asked again, the AI answers what it answered before.)
NewRun(validates, scans) ==
  \E x \in IF run = 0 THEN Analyses ELSE {a} :
    LET n == IF validates THEN Cardinality(Runnable(x)) ELSE 0
        acts == DefaultActions(x)
        started == [acts EXCEPT !["backtest"] = StartedPatch]
    IN \E made \in 0..n, stored \in BOOLEAN :
         /\ ~Redirects(Gate) /\ n <= MaxJobs
         /\ stored => made = n /\ n > 0
         /\ run' = 1 /\ a' = x /\ past' = NoPast
         /\ jobs' = Running(x, made)
         /\ doc' = IF stored THEN started ELSE acts
         /\ related' = IF stored THEN [i \in 1..n |-> i] ELSE <<>>
         /\ page' = [page EXCEPT !.open = TRUE, !.acts = doc', !.related = related',
                       !.rows = IF made = n /\ n > 0 THEN Running(x, n) ELSE @,
                       !.polling = IF stored THEN "yes" ELSE "no",
                       !.radar = IF scans THEN "fresh" ELSE @]

AnalyzeAndValidate == Shown(Analyze) /\ NewRun(TRUE, FALSE)
AnalyzeOnly        == Shown("analyze_only") /\ NewRun(FALSE, FALSE)
Scan == ~(\A kind \in Scans : Hidden(View(FALSE), kind)) /\ NewRun(TRUE, TRUE)

\* refreshRun: the same form again, then a note on the old run, which is no
\* longer the one shown.  It asks the gate only after it has read the run.
RefreshRun ==
  /\ run > 0
  /\ ~(Hidden(View(TRUE), "refresh_run") /\ Hidden(View(FALSE), "refresh_run"))
  /\ NewRun(TRUE, FALSE)

\* autoDailyRadarDecision, as the page evaluates it after each change.
AutoScan ==
  /\ AutoRadar(AutoOn, FALSE, Gate, RadarOffer(page.radar), run, <<>>)
  /\ NewRun(TRUE, TRUE)

(* Backtests. *)

\* Bound: a person asks for what fits.
HasRoom(n) == Len(jobs) + n <= MaxJobs

\* runValidationBacktests on the run that is there: made of n are created.
Validates(p) ==
  LET n == Cardinality(Runnable(a))
  IN \E made \in 0..n, stored \in BOOLEAN :
       /\ n > 0
       /\ stored => made = n
       /\ jobs' = jobs \o Running(a, made)
       /\ doc' = IF stored THEN [doc EXCEPT !["backtest"] = StartedPatch] ELSE doc
       /\ related' = IF stored THEN [i \in 1..n |-> Len(jobs) + i] ELSE related
       /\ page' = [p EXCEPT !.acts = IF stored THEN doc' ELSE @,
                     !.related = IF stored THEN related' ELSE @,
                     !.rows = IF made = n THEN Running(a, n) ELSE @,
                     !.polling = IF stored THEN "yes" ELSE @]
       /\ UNCHANGED <<run, a, past>>

RunAllBacktests ==
  /\ page.open /\ HasRoom(Cardinality(Runnable(a))) /\ Shown(RunAll)
  /\ Validates(page)

\* openRun: the page takes the run from the gateway.
Opened == [page EXCEPT !.open = TRUE, !.acts = doc, !.related = related,
             !.polling = IF related = <<>> THEN "no" ELSE "yes"]

\* validateRun opens the run of the queue and validates it.
ValidateRun ==
  /\ run > 0 /\ HasRoom(Cardinality(Runnable(a))) /\ Shown("validate_run")
  /\ Validates(Opened)

\* runBacktestDraft: one backtest, the action stored or not, and the page of
\* the backtest.
RunBacktest ==
  /\ page.open /\ HasRoom(1) /\ Shown("run_backtest")
  /\ \E i \in Tradable(a), stored \in BOOLEAN :
       /\ jobs' = Append(jobs, Row(a.drafts[i].sid, "running"))
       /\ doc' = IF stored THEN [doc EXCEPT !["backtest"] = StartedPatch] ELSE doc
       /\ related' = IF stored THEN <<Len(jobs) + 1>> ELSE related
  /\ page' \in Left
  /\ UNCHANGED <<run, a, past>>

QuantFinishes(j) ==
  /\ jobs[j].grade = "running"
  /\ \E grade \in Outcomes : jobs' = [jobs EXCEPT ![j].grade = grade]
  /\ UNCHANGED <<run, a, doc, related, page, past>>

\* The page asks for all its backtests every five seconds while one runs; an
\* error ends it.
Poll ==
  /\ page.open /\ page.polling = "yes"
  /\ LET rows == [i \in DOMAIN page.related |-> jobs[page.related[i]]]
     IN page' = [page EXCEPT !.rows = rows, !.polling = IF SomeRunning(rows) THEN "yes" ELSE "no"]
  /\ UNCHANGED <<run, a, doc, related, jobs, past>>

PollFails ==
  /\ page.open /\ page.polling = "yes"
  /\ page' = [page EXCEPT !.polling = "no"]
  /\ UNCHANGED <<run, a, doc, related, jobs, past>>

(* Adoption. *)
PickedGrade == Candidate(a, Rows).grade

\* paperWatchActionPatch, stored after the strategy action.
Adopts(acts) ==
  /\ doc' = [acts EXCEPT !["paper_watch"] = PaperPatch]
  /\ page' = [page EXCEPT !.acts = doc']
  /\ past' = [past EXCEPT !.adopted = "page", !.grade = PickedGrade]

AcceptPaperCandidate ==
  /\ page.open /\ HasCandidate(a, Rows) /\ Shown(Accept)
  /\ LET ready == [doc EXCEPT !["strategy"] = Action("ready", SignalsNote, TRUE)]
     IN \/ Storable("paper_watch", PaperPatch) /\ Adopts(ready)
        \/ doc' = ready /\ UNCHANGED <<page, past>>
  /\ UNCHANGED <<run, a, related, jobs>>

\* saveStrategyDraftCore without leaving the page, then the adoption; a
\* strategy may be saved and its action not.
SaveAndAcceptPaperCandidate ==
  /\ page.open /\ HasCandidate(a, Rows) /\ Shown("save_and_accept_paper_candidate")
  /\ LET saved == [doc EXCEPT !["strategy"] = SavedPatch]
     IN \/ Storable("paper_watch", PaperPatch) /\ Adopts(saved)
        \/ /\ doc' = saved
           /\ page' = [page EXCEPT !.acts = saved] /\ UNCHANGED past
  /\ UNCHANGED <<run, a, related, jobs>>

\* saveStrategyDraft leaves for the page of the strategy.
SaveStrategyDraft ==
  /\ page.open /\ Shown("save_strategy_draft")
  /\ \E stored \in BOOLEAN :
       doc' = IF stored THEN [doc EXCEPT !["strategy"] = SavedPatch] ELSE doc
  /\ page' \in Left
  /\ UNCHANGED <<run, a, related, jobs, past>>

\* The page of a finished backtest of the saved strategy, in another tab.
AdoptFromBacktestPage ==
  /\ run > 0 /\ StrategySaved(doc)
  /\ Outcomes \ {"failed"} # {}
  /\ past' = [past EXCEPT !.adopted = "backtest_page"]
  /\ doc' = [doc EXCEPT !["paper_watch"] = BacktestPagePatch]
  /\ UNCHANGED <<run, a, related, jobs, page>>

(* Reviews. *)

\* updateQueueAction: nothing for an action without a transition, an error for
\* one the gateway does not store.
UpdateQueueAction(id) ==
  LET act == Overlay(id, page.acts[id])
      next == Transition(id, act)
  IN /\ page.open /\ Present(act) /\ CanTransition(id, act) /\ Storable(id, next)
     /\ "complete_manual_action" \in QueueButtons(View(FALSE), id)
     /\ doc' = [doc EXCEPT ![id] = next]
     /\ page' = [page EXCEPT !.acts = doc']
     /\ past' = [past EXCEPT
          !.reviewed = @ \/ (id = "paper_watch" /\ next.status = "done"),
          !.felt     = @ \/ (id = "sentiment_review" /\ next.status = "done")]
     /\ UNCHANGED <<run, a, related, jobs>>

\* Bound: in a calm market nobody closes the review of its mood.
Unneeded == IF a.mood = "balanced" THEN {"sentiment_review"} ELSE {}

(* The page and its surroundings. *)
OpenRun ==
  /\ run > 0 /\ ~page.open
  /\ \/ InitialRun(List(FALSE), [id \in {run} |-> <<>>], 0, 0, 0) = run
     \/ Shown("open_run") \/ Shown("open_today_run")
  /\ page' = Opened
  /\ UNCHANGED <<run, a, doc, related, jobs, past>>

Reload ==
  /\ page' \in Left
  /\ UNCHANGED <<run, a, doc, related, jobs, past>>

Next ==
  \/ AnalyzeAndValidate \/ AnalyzeOnly \/ Scan \/ RefreshRun \/ AutoScan
  \/ RunAllBacktests \/ ValidateRun \/ RunBacktest
  \/ \E j \in DOMAIN jobs : QuantFinishes(j)
  \/ Poll \/ PollFails
  \/ AcceptPaperCandidate \/ SaveAndAcceptPaperCandidate \/ SaveStrategyDraft
  \/ AdoptFromBacktestPage
  \/ \E id \in Closed \ Unneeded : UpdateQueueAction(id)
  \/ OpenRun \/ Reload

Spec == Init /\ [][Next]_vars
================================================================================
