----------------------------- MODULE GoalControls -----------------------------
(***************************************************************************)
(* What each panel of the AI goal page lets a person press.  A panel is    *)
(* handed the action its state offers and draws a button for the kinds it  *)
(* knows; an offer of another kind leaves it without one.  Where the gate  *)
(* of the AI provider stops the offer, the button leads to the settings.   *)
(***************************************************************************)
EXTENDS GoalPanels

Scans      == {"scan_today", "rescan_today"}
Adoptions  == {"accept_paper_candidate", "save_and_accept_paper_candidate"}
Accept     == "accept_paper_candidate"
RunAll     == "run_all_backtests"
Analyze    == "analyze_and_validate"

ProviderBlocks(gate, kind) ==
  \/ kind \in Scans /\ GateOf(gate).blockRadar
  \/ kind = Analyze /\ (GateOf(gate).blockManual \/ GateOf(gate).blockRadar)

\* The button drawn for an offer by a panel that knows these kinds.
Drawn(offer, kinds) == IF offer \in kinds THEN offer ELSE "none"
Button(v, offer, kinds) ==
  IF ProviderBlocks(v.gate, offer) THEN "settings" ELSE Drawn(offer, kinds)

SetupChecklistButton(v) ==
  Button(v, SetupChecklist(v).offer, Scans \cup {RunAll, "open_link"})

AutonomousCommandKinds ==
  Scans \cup Adoptions \cup
  {Analyze, RunAll, "validate_run", "refresh_run", "complete_manual_action", "open_link"}

AutonomousCommandButton(v) == Button(v, AutonomousCommand(v).offer, AutonomousCommandKinds)
NowActionButton(v)         == Button(v, NowAction(v).offer, AutonomousCommandKinds)

ObservationFocusButton(v) ==
  Button(v, ObservationFocus(v).offer, Scans \cup {RunAll, "open_link"})

\* Beside the adoption, the strategy alone can be saved.
AdoptionPackageButtons(v) ==
  {Drawn(AdoptionPackage(v).offer, Adoptions)}
  \cup (IF Found(v) /\ ~StrategySaved(v.acts) THEN {"save_strategy_draft"} ELSE {})

CommandCenterButton(v) ==
  Button(v, CommandCenter(v).offer, Scans \cup Adoptions \cup {Analyze, RunAll, "open_link"})

DelegationRunbookButton(v) ==
  Button(v, DelegationRunbook(v).offer, {"scan_today", RunAll, Accept, "open_link"})

OperatorRhythmButton(v) ==
  Button(v, OperatorRhythm(v).offer, Scans \cup {"refresh_run", RunAll, Accept, "open_link"})

MoneyPathButton(v) ==
  Button(v, MoneyPath(v).offer, {"scan_today", RunAll, Accept, "open_link", "sentiment_review"})

MoneyBriefButton(v) ==
  Button(v, MoneyBrief(v).offer, Scans \cup {"open_today_run", RunAll, Accept, "open_link"})

CapitalPlanButton(v) == Drawn(CapitalPlan(v).offer, {RunAll, Accept, "open_link"})

ReviewCoachButton(v) == Drawn(CoachPrimary(v), Adoptions \cup {"open_link"})

ReadinessButton(v) ==
  Button(v, Ready(v).offer, Scans \cup {RunAll, Accept, "open_link"})

ExecutionPreviewButton(v) ==
  Button(v, ExecutionPreview(v).offer, Scans \cup {Analyze, RunAll, Accept, "open_link"})

ThesisButton(v) == Button(v, ThesisInvalidation(v).offer, Scans \cup {RunAll, "open_link"})

WatchtowerButton(v) ==
  Button(v, MarketWatchtower(v).offer, Scans \cup {RunAll, Accept, "open_link"})

\* The list of the day has a button for every task.
MissionButtons(v) ==
  LET tasks == MissionTasks(v)
  IN {Button(v, TaskCommand(tasks[n]), AutonomousCommandKinds \cup {"open_today_run", "open_run"})
        : n \in DOMAIN tasks}

AutopilotButton(v) == Button(v, Autopilot(v).offer, {Analyze, RunAll, Accept, "open_link"})

\* Its analyze button starts a scan.
OpportunityRadarButton(v) ==
  Button(v, OpportunityRadar(v).offer, {Analyze, RunAll, Accept, "open_link"})

\* The card of today's radar asks the notice of the automatic radar, not the
\* gate: with the automatic radar off it offers the scan whatever the gate.
RadarCardButtons(v) ==
  LET scan(kind) == IF v.auto /\ v.gate # "ready" THEN "settings" ELSE kind
  IN CASE v.radar = "none"  -> {scan("scan_today")}
       [] v.radar \in {"fresh", "stale"} -> {scan("rescan_today"), "open_today_run"}

\* The queue of earlier runs knows one kind of scan and no redesign.  Below,
\* every run can be opened, and one of old context refreshed.
FollowupButtons(v) ==
  {Button(v, v.queue.kind, {"open_link", "open_run", "refresh_run", "validate_run", "scan_today"})}
  \cup (IF v.queue.kind # "scan_today" THEN {"open_run"} ELSE {})
  \cup (IF v.queue.old THEN {"refresh_run"} ELSE {})

SettingsReturnButton(v) == IF v.back THEN SettingsReturn(v).offer ELSE "none"

\* The form: analyse and validate, analyse only, scan.
FormButtons(v) ==
  {Button(v, Analyze, {Analyze})}
  \cup (IF GateOf(v.gate).blockManual THEN {"settings"} ELSE {"analyze_only"})
  \cup (IF GateOf(v.gate).blockRadar THEN {"settings"} ELSE {"scan_today"})
TemplateButtons(v) ==
  IF GateOf(v.gate).blockManual THEN {"settings"} ELSE {Analyze, "analyze_only"}

(* Under the analysis of the run. *)
DecisionButton(v) == Drawn(Dec(v).offer, {RunAll, Accept, "open_link"})

\* The first button, then one for each draft; a draft's button adopts only
\* when the candidate is that draft.
ShortlistButtons(v) ==
  {Drawn(Shortlist(v).offer, {RunAll, Accept})}
  \cup {LET item == ShortlistStage(v, i)
        IN IF item.offer = Accept /\ (~Found(v) \/ CandidateDraft(v.a, v.rows) # i)
           THEN "open_link" ELSE item.offer : i \in DOMAIN v.a.drafts}

ScoreboardButton(v) == IF Found(v) THEN Accept ELSE "none"

\* The queue of actions: which buttons an item has.
QueueButtons(v, id) ==
  LET act == Overlay(id, v.acts[id])
      runs == IF id = "backtest" THEN "run_backtest" ELSE "save_strategy_draft"
  IN (IF Present(act) /\ CanTransition(id, act) THEN {"complete_manual_action"} ELSE {})
     \cup CASE act.status = "done" /\ act.link -> {"open_link"}
            [] ~(act.status = "done" /\ act.link) /\ id \in {"backtest", "strategy"} ->
                 IF act.status # "blocked" /\ Tradable(v.a) # {} THEN {runs} ELSE {}
            [] OTHER -> IF Present(act) /\ id # "review" THEN {"open_link"} ELSE {}
QueueTop(v) == IF v.runnable # {} THEN RunAll ELSE "none"

DraftButtons(v, i) ==
  (IF i \in Tradable(v.a) THEN {"run_backtest"} ELSE {}) \cup {CreationSummary(v, i).offer}

(* Everything a person can press. *)
PanelButtons(v) ==
  {SetupChecklistButton(v), AutonomousCommandButton(v), NowActionButton(v),
   ObservationFocusButton(v), CommandCenterButton(v),
   DelegationRunbookButton(v), OperatorRhythmButton(v), MoneyPathButton(v),
   MoneyBriefButton(v), CapitalPlanButton(v), ReviewCoachButton(v), ReadinessButton(v),
   ExecutionPreviewButton(v), ThesisButton(v), WatchtowerButton(v), AutopilotButton(v),
   OpportunityRadarButton(v), SettingsReturnButton(v)}

AnalysisButtons(v) ==
  IF ~v.a.made THEN {}
  ELSE {DecisionButton(v), ScoreboardButton(v), QueueTop(v)} \cup ShortlistButtons(v)
       \cup (UNION {QueueButtons(v, id) : id \in ActionIds})
       \cup (UNION {DraftButtons(v, i) : i \in DOMAIN v.a.drafts})

\* No part of the page draws a button of this kind.
Hidden(v, kind) ==
  /\ kind \notin FormButtons(v) \cup TemplateButtons(v) \cup RadarCardButtons(v)
  /\ kind \notin FollowupButtons(v)
  /\ kind \notin AnalysisButtons(v)
  /\ kind \notin AdoptionPackageButtons(v)
  /\ kind \notin MissionButtons(v)
  /\ kind \notin PanelButtons(v)
===============================================================================
