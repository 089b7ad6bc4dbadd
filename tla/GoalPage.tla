------------------------------- MODULE GoalPage -------------------------------
(***************************************************************************)
(* What a goal run and its page promise.                                   *)
(***************************************************************************)
EXTENDS GoalRun

\* A page that says the run is ready for the testnet says so of a run whose
\* paper watch was adopted and reviewed, whose sentiment was reviewed unless
\* the market was calm, and that has a backtest above the paper threshold
\* (docs/plans/2026-06-02-ai-execution-readiness.md; the panel works on the
\* page's copy of the actions and on the rows it last polled).
TestnetEarned ==
  page.open /\ Ready(View(FALSE)).stage = "testnet_ready" =>
    /\ past.adopted # "no" /\ past.reviewed
    /\ a.mood # "balanced" => past.felt
    /\ \E j \in DOMAIN jobs : jobs[j].grade \in PaperGrades

\* The queue of actions closes a paper watch only after somebody adopted a
\* strategy: the blocked one every run starts with cannot be checked off.
ReviewFollowsAdoption ==
  run > 0 /\ doc["paper_watch"].status \in {"manual", "done"} => past.adopted # "no"

\* What the page's own buttons adopt came out of its backtest above the paper
\* threshold, whichever of a dozen panels was pressed and however old its rows.
AdoptionIsProven ==
  past.adopted = "page" => past.grade \in PaperGrades

\* Verdicts on the drafts agree: as long as the page shows one row of a name,
\* the shortlist, which looks a draft up in its rows, offers an adoption when
\* and only when the other panels, which look a row up in the drafts, do.  And
\* on a run whose thesis its backtests ended no part of the page offers one.
LatestPerDraft(rows) == \A i, j \in DOMAIN rows : rows[i].sid = rows[j].sid => i = j
PanelsAgree ==
  page.open /\ LatestPerDraft(Rows) =>
    \A v \in {View(FALSE)} :
      /\ Shortlist(v).offer = Accept <=> Found(v)
      /\ ThesisInvalidation(v).stage = "invalidated_by_backtest" => Hidden(v, Accept)

\* While the mood of the market is still to be reviewed, the panels that speak
\* of money do not offer the adoption (the panels of strategies still do).
SlowDownIsHeard ==
  page.open /\ NeedsReview(a, page.acts) =>
    \A v \in {View(FALSE)} :
      Accept \notin {DelegationRunbookButton(v), OperatorRhythmButton(v), CapitalPlanButton(v),
                     WatchtowerButton(v), MoneyPathButton(v), ReadinessButton(v)}
================================================================================
