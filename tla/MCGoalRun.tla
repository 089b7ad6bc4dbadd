------------------------------- MODULE MCGoalRun -------------------------------
EXTENDS GoalPage

Made == [NoAnalysis EXCEPT !.made = TRUE, !.context = TRUE, !.real = TRUE]
Grid(sid) == Draft(sid, "BTCUSDT", TRUE)

\* A calm market and two drafts; a heated one with a draft and signals to
\* review; one without context; one that can only be watched.
MCAnalyses ==
  {[Made EXCEPT !.drafts = <<Grid("d1"), Grid("d2")>>],
   [Made EXCEPT !.mood = "heated", !.signals = TRUE, !.drafts = <<Grid("d1")>>],
   [Made EXCEPT !.context = FALSE, !.notes = TRUE, !.real = FALSE, !.drafts = <<Grid("d1")>>],
   [Made EXCEPT !.halted = TRUE, !.drafts = <<Draft("d1", "BTCUSDT", FALSE)>>]}

MCOutcomes == {"weak", "testnet"}
================================================================================
