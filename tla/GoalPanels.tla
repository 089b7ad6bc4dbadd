------------------------------ MODULE GoalPanels ------------------------------
(***************************************************************************)
(* The panels of the AI goal page.  Each is a function of one view v:      *)
(*   v.a, v.acts, v.rows   the analysis, the actions stored for its run    *)
(*                         and the backtests the page shows                *)
(*   v.accounts            the accounts: loading, none, safe               *)
(*   v.gate                the gate of the AI provider                     *)
(*   v.radar               today's radar run: none, fresh, stale           *)
(*   v.old                 the analysis is six hours old                   *)
(*   v.queue               what the queue of earlier runs asks for         *)
(*   v.auto, v.back        the radar runs by itself; the page was opened   *)
(*                         from the settings                               *)
(*   v.found, v.review, v.dec, v.ready, v.runnable                         *)
(*                         what follows from these (Viewed)                *)
(* and gives the stage it shows and the action it offers (GoalControls has *)
(* the button it draws for it).                                            *)
(***************************************************************************)
EXTENDS GoalFacts

Gates  == {"ready", "blocked", "loading", "unknown"}
Radars == {"none", "fresh", "stale"}

\* The judgements every panel starts from, made once for a view of a run and
\* of what is around it.
Viewed(x, acts, rows, around) ==
  [a |-> x, acts |-> acts, rows |-> rows,
   accounts |-> around.accounts, gate |-> around.gate, radar |-> around.radar,
   old |-> around.old, auto |-> around.auto, back |-> around.back, queue |-> around.queue,
   found    |-> HasCandidate(x, rows),
   review   |-> NeedsReview(x, acts),
   dec      |-> Decision(x, acts, rows),
   ready    |-> Readiness(x, acts, rows, around.accounts),
   runnable |-> Runnable(x)]

Paper(v)  == v.acts["paper_watch"]
Found(v)  == v.found
Review(v) == v.review
Dec(v)    == v.dec
Ready(v)  == v.ready
Unvalidated(v) == v.rows = <<>> /\ v.runnable # {}

(* The gate of the provider, from its status. *)
GateOf(status) ==
  CASE status = "loading" -> [blockManual |-> FALSE, blockRadar |-> TRUE]
    [] status = "blocked" -> [blockManual |-> TRUE,  blockRadar |-> TRUE]
    [] OTHER              -> [blockManual |-> FALSE, blockRadar |-> FALSE]

GateRows(v) == <<
  <<~v.a.made /\ v.gate = "blocked", "provider_blocked", "open_link">>,
  <<~v.a.made /\ v.gate = "loading", "provider_loading", "open_link">> >>

(* Today's radar.  Without one of today the status is stale as well. *)
RadarStale(radar) == radar # "fresh"
RadarOffer(radar) == CASE radar = "none"  -> "scan_today"
                       [] radar = "stale" -> "rescan_today"
                       [] radar = "fresh" -> "open_today_run"

\* An offer to adopt becomes one that saves the strategy first.
Packaged(offer, acts) ==
  IF offer = "accept_paper_candidate" /\ ~StrategySaved(acts)
  THEN "save_and_accept_paper_candidate" ELSE offer

WithLink(d) == IF d.offer = "none" /\ DecisionLinks(d) THEN "open_link" ELSE d.offer

\* Mutant of CapitalPlan: the mood is not asked.
CapitalPlanAtOnce(v) == Panel(<<
  <<~Found(v) /\ v.runnable # {}, "waiting_validation",   "run_all_backtests">>,
  <<~Found(v),                       "waiting_validation",   "none">>,
  <<TRUE,                            "paper_sizing",         "accept_paper_candidate">> >>)

CapitalPlan(v) == Panel(<<
  <<~Found(v) /\ v.runnable # {}, "waiting_validation",   "run_all_backtests">>,
  <<~Found(v),                       "waiting_validation",   "none">>,
  <<Review(v),                       "review_before_sizing", "open_link">>,
  <<TRUE,                            "paper_sizing",         "accept_paper_candidate">> >>)

AdoptionPackage(v) == Panel(<<
  <<~Found(v),              "none",             "none">>,
  <<StrategySaved(v.acts),  "strategy_saved",   "accept_paper_candidate">>,
  <<TRUE,                   "ready_to_package", "save_and_accept_paper_candidate">> >>)

\* A draft whose parameters are complete can be saved as a strategy.
CreationSummary(v, i) ==
  IF i \in Tradable(v.a) THEN [stage |-> "ready_to_prefill", offer |-> "save_strategy_draft"]
                         ELSE [stage |-> "blocked", offer |-> "none"]

ExecutionPreview(v) ==
  LET d == Dec(v)  r == Ready(v)
  IN IF ~v.a.made THEN [stage |-> "idle", offer |-> "analyze_and_validate"]
     ELSE [stage |-> r.stage,
           offer |-> IF r.stage \in {"paper_ready", "testnet_ready"} /\ d.offer # "none"
                     THEN d.offer ELSE r.offer]

OpportunityRadar(v) ==
  IF v.a.made THEN Dec(v) ELSE [stage |-> "idle", offer |-> "analyze_and_validate"]

Autopilot(v) ==
  IF v.a.made THEN [stage |-> Dec(v).stage, offer |-> WithLink(Dec(v))]
              ELSE [stage |-> "idle", offer |-> "analyze_and_validate"]

\* How far the autopilot may execute.
MaxExecutionMode(v) ==
  IF v.a.made /\ Dec(v).stage = "testnet_candidate" THEN "testnet" ELSE "observe"

CommandCenter(v) ==
  LET d == Dec(v)
      offer == IF WithLink(d) # "none" THEN WithLink(d) ELSE Ready(v).offer
  IN Panel(GateRows(v) \o <<
       <<~v.a.made, "scan",  "analyze_and_validate">>,
       <<TRUE,      d.stage, Packaged(offer, v.acts)>> >>)

ObservationFocus(v) ==
  LET scan == IF v.radar = "stale" THEN "rescan_today" ELSE "scan_today"
      fromAnalysis == Readiness(v.a, v.acts, v.rows, "loading").offer
  IN Panel(GateRows(v) \o <<
       <<~v.a.made,      "idle",     scan>>,
       <<DataGap(v.a),   "data_gap", scan>>,
       <<Unvalidated(v), "watching", "run_all_backtests">>,
       <<TRUE,           "watching", fromAnalysis>> >>)

(* The shortlist looks a draft up by name and finds the worst of its rows. *)

\* Mutant of RowsNamed: only the first row is looked at.
RowsNamedFirst(rows, sid) == {i \in DOMAIN rows : rows[i].sid = sid /\ i = 1}
RowsNamed(rows, sid) == {i \in DOMAIN rows : rows[i].sid = sid}

ShortlistStage(v, i) ==
  LET named == RowsNamed(v.rows, v.a.drafts[i].sid)
      row == v.rows[Worst(v.rows, named)]
  IN Panel(<<
       <<i \notin Tradable(v.a),                           "observe_only",    "open_link">>,
       <<named = {},                                       "validate_ready",  "run_backtest">>,
       <<named # {} /\ row.grade = "running",              "validating",      "open_link">>,
       <<named # {} /\ row.grade \in PaperGrades,          "paper_candidate", "accept_paper_candidate">>,
       <<named # {} /\ row.grade \in {"weak", "failed"},   "rejected",        "open_link">>,
       <<TRUE,                                             "watch",           "open_link">> >>)

Shortlist(v) ==
  LET in(stage) == \E i \in DOMAIN v.a.drafts : ShortlistStage(v, i).stage = stage
  IN Panel(<<
       <<v.a.drafts = <<>>,                            "empty",           "scan_today">>,
       <<in("paper_candidate"),                        "paper_candidate", "accept_paper_candidate">>,
       <<in("validating") /\ in("validate_ready"),     "validating",      "run_all_backtests">>,
       <<in("validating"),                             "validating",      "open_link">>,
       <<in("validate_ready"),                         "validate_ready",  "run_all_backtests">>,
       <<\A i \in DOMAIN v.a.drafts : ShortlistStage(v, i).stage = "rejected",
                                                       "redesign",        "none">>,
       <<TRUE,                                         "observe",         "none">> >>)

OperatorRhythm(v) == Panel(GateRows(v) \o <<
  <<~v.a.made,                               "scan_due",        "scan_today">>,
  <<v.old \/ RadarStale(v.radar),            "refresh_due",     "refresh_run">>,
  <<Review(v),                               "slow_down",       "open_link">>,
  <<SomeRunning(v.rows),                     "validating",      "open_link">>,
  <<Unvalidated(v),                          "validate_ready",  "run_all_backtests">>,
  <<Found(v) /\ Paper(v).status \in {"manual", "done"}, "paper_watch", "open_link">>,
  <<Found(v),                                "paper_candidate", "accept_paper_candidate">>,
  <<TRUE,                                    "observe",         "scan_today">> >>)

DelegationRunbook(v) == Panel(GateRows(v) \o <<
  <<~v.a.made,                               "handoff",         "scan_today">>,
  <<RadarStale(v.radar),                     "refresh_context", "scan_today">>,
  <<v.a.notes /\ v.rows = <<>>,              "refresh_context", "open_link">>,
  <<SomeRunning(v.rows),                     "ai_wait",         "open_link">>,
  <<Unvalidated(v),                          "ai_validate",     "run_all_backtests">>,
  <<Found(v) /\ Ready(v).stage = "testnet_ready", "testnet_handoff", "open_link">>,
  <<Found(v) /\ PaperThin(Paper(v)),         "paper_review",    "open_link">>,
  <<Found(v) /\ Review(v),                   "human_review",    "open_link">>,
  <<Found(v),                                "paper_handoff",   "accept_paper_candidate">>,
  <<SomeFinished(v.rows),                    "redesign",        "scan_today">>,
  <<TRUE,                                    "observe",         "scan_today">> >>)

ThesisInvalidation(v) == Panel(<<
  <<~v.a.made,                               "needs_thesis",            "scan_today">>,
  <<v.a.notes /\ ~SomeFinished(v.rows),      "data_gap",                "open_link">>,
  <<~Found(v) /\ SomeFinished(v.rows),       "invalidated_by_backtest", "scan_today">>,
  <<Review(v),                               "pressure_test",           "open_link">>,
  <<Found(v),                                "watch_thesis",            "open_link">>,
  <<TRUE,                                    "observe",                 "run_all_backtests">> >>)

MarketWatchtower(v) == Panel(<<
  <<~v.a.made,                               "scan",             RadarOffer(v.radar)>>,
  <<DataGap(v.a),                            "data_gap",         "rescan_today">>,
  <<SomeRunning(v.rows),                     "validating",       "open_link">>,
  <<Found(v) /\ Review(v),                   "sentiment_review", "open_link">>,
  <<Found(v),                                "paper_watch",      "accept_paper_candidate">>,
  <<TRUE,                                    Dec(v).stage,       Dec(v).offer>> >>)

ReviewCoach(v) == Panel(<<
  <<~v.a.made,                        "idle",               "none">>,
  <<~Found(v) /\ v.rows # <<>>,       "waiting_candidate",  "none">>,
  <<~Found(v),                        "waiting_validation", "run_all_backtests">>,
  <<~Present(Paper(v)),               "ready_to_adopt",     Packaged("accept_paper_candidate", v.acts)>>,
  <<Paper(v).status # "done",         "observing",          "open_link">>,
  <<PaperDone(Paper(v)),              "review_complete",    "open_link">>,
  <<TRUE,                             "evidence_gap",       "open_link">> >>)

\* The subjects of a review the note does not name yet.
MissingEvidence(v) == ClientPaperSubjects \ Paper(v).note.says

\* Of the coach's offers its button takes the adoption and the links.
CoachPrimary(v) ==
  LET offer == ReviewCoach(v).offer
      linked == Found(v) \/ v.rows # <<>> \/ Paper(v).link
  IN IF offer \in {"accept_paper_candidate", "save_and_accept_paper_candidate"} /\ Found(v)
     THEN offer
     ELSE IF linked /\ v.a.made THEN "open_link" ELSE "none"

(* The tasks of the day, by what doing them means; a task without a kind   *)
(* of its own is a page to open.                                           *)
MissionTasks(v) ==
  LET d == Dec(v)
      when(cond, kind) == IF cond THEN <<kind>> ELSE <<>>
      first == IF v.queue.attention THEN v.queue.kind ELSE RadarOffer(v.radar)
  IN CASE ~v.a.made /\ v.gate \in {"blocked", "loading"} -> <<"open_link">>
       [] ~v.a.made /\ v.gate \notin {"blocked", "loading"} -> <<first>>
       [] OTHER ->
            when(v.a.notes, "page")
         \o when(d.stage = "sentiment_review", "sentiment_review")
         \o when(d.offer \in {"run_all_backtests", "open_link", "analyze_and_validate"}, d.offer)
         \o when(d.offer = "accept_paper_candidate" /\ Found(v), Packaged(d.offer, v.acts))
         \o when(d.stage = "paper_watch" /\ v.acts["strategy"].status = "ready"
                   /\ v.acts["strategy"].link, "open_link")
         \o when(d.stage = "paper_watch", "paper_watch")
         \o when(v.a.signals, "page")
         \o <<"page">>

\* The command of a task in the list of the day.
TaskCommand(task) ==
  CASE task \in {"sentiment_review", "paper_watch"} -> "complete_manual_action"
    [] task = "page" -> "open_link"
    [] OTHER -> task

\* The action of the first task in the panel that says what to do now.
NowFromTask(task) ==
  CASE task \in {"open_today_run", "open_run"} -> "open_link"
    [] task \in {"sentiment_review", "paper_watch"} -> "complete_manual_action"
    [] task = "page" -> "scan_today"
    [] OTHER -> task

NowAction(v) ==
  LET task == Head(MissionTasks(v))
      reviews == IF task = "sentiment_review" THEN "sentiment_review" ELSE "paper_watch"
  IN [stage |-> CASE ~v.a.made -> NowFromTask(task)
                  [] v.a.made /\ PaperThin(Paper(v)) -> "paper_review"
                  [] OTHER -> Dec(v).stage,
      offer |-> IF v.a.made /\ PaperThin(Paper(v)) THEN "complete_manual_action"
                ELSE NowFromTask(task),
      target |-> IF v.a.made /\ PaperThin(Paper(v)) THEN "paper_watch" ELSE reviews]

Owner(offer) == IF offer \in {"open_link", "complete_manual_action"} THEN "you" ELSE "AI"

AutonomousCommand(v) ==
  LET now == NowAction(v)
      offer == IF v.a.made THEN Packaged(now.offer, v.acts)
               ELSE IF now.offer \notin {"scan_today", "rescan_today"} THEN now.offer
               ELSE CommandCenter(v).offer
  IN [stage |-> CASE ~v.a.made /\ v.gate \in {"blocked", "loading"} -> CommandCenter(v).stage
                  [] offer \in {"validate_run", "run_all_backtests"} -> "ai_validate"
                  [] offer \in {"refresh_run", "rescan_today"} -> "refresh_context"
                  [] OTHER -> "act",
      offer |-> offer, target |-> now.target]

(* The money path: steps in order, each done, current, blocked or pending. *)
MoneyPathSteps(v) ==
  LET blockedContext == DataGap(v.a)
      validation == IF SomeFinished(v.rows) THEN "done"
                    ELSE IF SomeRunning(v.rows) \/ v.runnable # {} THEN "current" ELSE "blocked"
      paper == Panel(<<
        <<Review(v),                         "blocked", "">>,
        <<PaperDone(Paper(v)),               "done",    "">>,
        <<Present(Paper(v)) \/ Found(v),     "current", "">>,
        <<SomeFinished(v.rows),              "blocked", "">>,
        <<TRUE,                              "pending", "">> >>).stage
      adopt == Panel(<<
        <<Present(Paper(v)) /\ ~PaperDone(Paper(v)),            "", "open_link">>,
        <<Found(v) /\ ~Present(Paper(v)) /\ ~Review(v),         "", "accept_paper_candidate">>,
        <<TRUE,                                                 "", "none">> >>).offer
      testnet == Ready(v).stage = "testnet_ready"
  IN << <<"scan", "done", "none">>,
        <<"context", IF blockedContext THEN "blocked" ELSE "done",
                     IF blockedContext THEN "scan_today" ELSE "none">>,
        <<"blueprint", IF v.a.drafts # <<>> THEN "done" ELSE "blocked", "none">>,
        <<"validation", validation,
            IF ~SomeFinished(v.rows) /\ v.runnable # {} THEN "run_all_backtests" ELSE "none">>,
        <<"sentiment", IF Review(v) THEN "current" ELSE "done",
                       IF Review(v) THEN "sentiment_review" ELSE "none">>,
        <<"paper", paper, adopt>>,
        <<"testnet", IF testnet THEN "current" ELSE IF Present(Paper(v)) THEN "blocked" ELSE "pending",
                     IF testnet THEN "open_link" ELSE "none">> >>

CurrentStep(steps) ==
  LET in(status) == {n \in DOMAIN steps : steps[n][2] = status}
  IN IF in("current") # {} THEN steps[Min(in("current"))]
     ELSE IF in("blocked") # {} THEN steps[Min(in("blocked"))] ELSE steps[1]

MoneyPathIdle(v) == Panel(GateRows(v) \o << <<TRUE, "idle", "scan_today">> >>)

MoneyPath(v) ==
  LET step == CurrentStep(MoneyPathSteps(v))
  IN IF ~v.a.made THEN MoneyPathIdle(v)
     ELSE [stage |-> Ready(v).stage,
           offer |-> IF step[3] # "none" THEN step[3] ELSE Ready(v).offer]

(* The checklist before AI work. *)
SetupStatus(v) ==
  LET made(ok) == IF ~v.a.made THEN "warning" ELSE IF ok THEN "ready" ELSE "blocked"
  IN [provider |-> CASE v.gate \in {"ready", "blocked"} -> v.gate
                     [] v.gate = "loading" -> "warning"
                     [] OTHER -> made(v.a.real),
      context |-> made(~DataGap(v.a)),
      blueprint |-> made(v.a.drafts # <<>>),
      validation |-> IF SomeFinished(v.rows) THEN "ready"
                     ELSE IF v.runnable # {} THEN "warning" ELSE "blocked",
      safe_account |-> IF HasAccount(v.a, v.accounts) THEN "ready"
                       ELSE IF v.accounts # "loading" \/ v.a.made THEN "blocked" ELSE "warning",
      risk_limits |-> made(v.a.limits),
      execution_gate |-> made(~v.a.halted)]

SetupChecklist(v) ==
  LET s == SetupStatus(v)
      stage == IF \E k \in DOMAIN s : s[k] = "blocked" THEN "blocked"
               ELSE IF \E k \in DOMAIN s : s[k] = "warning" THEN "warning" ELSE "ready"
  IN Panel(<<
       <<\E k \in {"provider", "context", "safe_account", "risk_limits", "execution_gate"} :
           s[k] = "blocked",             stage, "open_link">>,
       <<s.validation = "warning",       stage, "run_all_backtests">>,
       <<~v.a.made,                      stage, RadarOffer(v.radar)>>,
       <<TRUE,                           stage, "open_link">> >>)

(* The brief and its audit. *)
AuditBlocked(v) ==
  \/ ~v.a.made \/ RadarStale(v.radar) \/ DataGap(v.a)
  \/ v.a.drafts = <<>> \/ v.rows = <<>>
  \/ SomeFinished(v.rows) /\ ~Found(v)

AuditClean(v) ==
  /\ ~AuditBlocked(v) /\ SomeFinished(v.rows)
  /\ ~Review(v) /\ CapitalPlan(v).stage = "paper_sizing"
  /\ Present(Paper(v)) => PaperDone(Paper(v))

Confidence(v) ==
  LET points(cond, n) == IF cond THEN n ELSE 0
      score == 10 + points(v.a.context, 15) + points(~v.a.notes, 10)
             + points(v.a.drafts # <<>>, 15) + points(SomeFinished(v.rows), 20)
             + points(Found(v), 15) + points(~Review(v), 10)
             + points(CapitalPlan(v).stage = "paper_sizing", 10)
             + points(PaperDone(Paper(v)), 10)
      cap == IF RadarStale(v.radar) THEN 45 ELSE 95
  IN IF ~v.a.made THEN 0 ELSE IF score > cap THEN cap ELSE score

MoneyBrief(v) == Panel(GateRows(v) \o <<
  <<~v.a.made,           "idle",          RadarOffer(v.radar)>>,
  <<RadarStale(v.radar), "stale_context", RadarOffer(v.radar)>>,
  <<TRUE,                Dec(v).stage,    WithLink(Dec(v))>> >>)

(* Coming back from the settings with the wish to run again. *)
SettingsReturn(v) == Panel(<<
  <<v.gate = "loading",  "settings_return_provider_loading", "open_link">>,
  <<v.gate = "blocked",  "settings_return_provider_blocked", "open_link">>,
  <<v.radar = "none",    "settings_return",                  "scan_today">>,
  <<TRUE,                "settings_return",                  "rescan_today">> >>)
===============================================================================
