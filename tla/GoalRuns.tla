------------------------------- MODULE GoalRuns -------------------------------
(***************************************************************************)
(* What the AI goal page does with the list of earlier runs: the one that  *)
(* asks for attention first, the one to open by itself, the comparison of  *)
(* a run with the one that refreshed it, and when a radar scan starts      *)
(* without a click.                                                        *)
(*                                                                         *)
(* An entry of the list is [id, acts, old, thin, drafts, refreshed]:       *)
(* its actions, whether it is six hours old, whether it was made without   *)
(* context or by the fallback, whether it has drafts, and the run that     *)
(* refreshed it (0: none).  The list comes newest first.                   *)
(***************************************************************************)
EXTENDS GoalFacts

Entry(id, acts, old, thin, drafts, refreshed) ==
  [id |-> id, acts |-> acts, old |-> old, thin |-> thin, drafts |-> drafts,
   refreshed |-> refreshed]

Active(act) == act.status \in {"manual", "ready"}

\* What an entry asks for, and how urgently: rows are the finished backtests
\* of the entry the page happens to show.
Followup(entry, rows) ==
  LET acts == entry.acts
      started == acts["backtest"].status = "done" /\ acts["backtest"].link
      best == rows[Best(rows, DOMAIN rows)].grade
      line == Panel(<<
        <<Active(acts["paper_watch"]),                       "paper_watch",          100>>,
        <<PaperThin(acts["paper_watch"]),                    "paper_watch",          104>>,
        <<Active(acts["backtest"]),                          "run_validation",       90>>,
        <<started /\ rows # <<>> /\ best \in PaperGrades,    "paper_candidate_validation", 94>>,
        <<started /\ rows # <<>> /\ best \notin PaperGrades, "redesign_validation",  96>>,
        <<started,                                           "validation_progress",  88>>,
        <<Active(acts["strategy"]),                          "save_strategy",        82>>,
        <<entry.refreshed # 0,                               "review_run",           35>>,
        <<StrategySaved(acts),                               "saved_strategy_backtest", 78>>,
        <<entry.old,                                         "refresh_context",      76>>,
        <<entry.thin,                                        "refresh_context",      72>>,
        <<entry.drafts,                                      "run_validation",       62>>,
        <<TRUE,                                              "review_run",           30>> >>)
  IN [id |-> entry.id, kind |-> line.stage, priority |-> line.offer]

\* The first of the most urgent entries.
Top(list, rows) ==
  LET item(n) == Followup(list[n], rows[list[n].id])
  IN item(CHOOSE n \in DOMAIN list : \A m \in DOMAIN list \ {n} :
            \/ item(n).priority > item(m).priority
            \/ item(n).priority = item(m).priority /\ n < m)

PrimaryKind(kind) ==
  CASE kind = "run_validation"      -> "validate_run"
    [] kind = "refresh_context"     -> "refresh_run"
    [] kind = "redesign_validation" -> "analyze_and_validate"
    [] kind \in {"validation_progress", "paper_candidate_validation",
                 "saved_strategy_backtest"} -> "open_link"
    [] OTHER -> "open_run"

Queue(list, rows) ==
  IF list = <<>> THEN [kind |-> "scan_today", id |-> 0, attention |-> FALSE, old |-> FALSE]
  ELSE LET top == Top(list, rows)
       IN [kind |-> PrimaryKind(top.kind), id |-> top.id,
           attention |-> top.priority >= 60,
           old |-> \E n \in DOMAIN list :
                     Followup(list[n], rows[list[n].id]).kind = "refresh_context"]

\* The run the page opens by itself, once: the most urgent one, unless a run
\* was asked for or is open.
InitialRun(list, rows, requested, active, opened) ==
  LET id == Queue(list, rows).id
  IN IF requested # 0 \/ active # 0 \/ list = <<>> \/ id = opened THEN 0 ELSE id

\* Pairs of a run and the one that refreshed it, both in the list.
Comparison(list) ==
  {<<list[n].id, list[n].refreshed>> : n \in
     {n \in DOMAIN list : \E m \in DOMAIN list : list[m].id = list[n].refreshed}}

\* Mutant of AutoRadar: the last key is not looked at.
AutoRadarAgain(enabled, busy, gate, offer, run, lastKey) ==
  /\ enabled /\ ~busy /\ gate = "ready"
  /\ offer \in {"scan_today", "rescan_today"}

\* autoDailyRadarDecision: whether a scan starts by itself; its key is that of
\* the radar it would replace.
RadarKey(offer, run) == <<offer, run>>
AutoRadar(enabled, busy, gate, offer, run, lastKey) ==
  /\ enabled /\ ~busy /\ gate = "ready"
  /\ offer \in {"scan_today", "rescan_today"}
  /\ lastKey # RadarKey(offer, run)

\* aiSettingsReturnAutoRunDecision: back from the settings, one scan.
ReturnRun(back, busy, gate, already) == back /\ ~busy /\ gate = "ready" /\ ~already
===============================================================================
