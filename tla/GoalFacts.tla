------------------------------ MODULE GoalFacts ------------------------------
(***************************************************************************)
(* What the AI goal pages of the web client know, and the judgements they  *)
(* share: which text counts as the record of a review, which backtest is   *)
(* the candidate for paper trading, what the next step of a goal run is.   *)
(* Every operator here is a function of its arguments, as in               *)
(* data/ai-goal-preset.mjs.                                                *)
(*                                                                         *)
(* A note is what a reader of its words finds in it: the subjects it names *)
(* and its length in bytes of UTF-8.  An analysis keeps what the pages     *)
(* branch on.  A row is the result of one backtest, graded by the score    *)
(* and the figures it was given.                                           *)
(***************************************************************************)
EXTENDS Naturals, Sequences, FiniteSets, FiniteSetsExt

(* Notes *)

Subjects == {"window", "market", "sentiment", "behavior", "friction", "drawdown", "gate"}

\* What the gateway wants named before it stores a paper review as done, and
\* what the page wants named before it believes one.
ServerPaperSubjects == {"window", "market", "sentiment", "behavior", "friction"}
ClientPaperSubjects == Subjects
ReviewSubjects      == {"market", "sentiment", "behavior"}

NoteLimit == 500

Note(says, bytes) == [says |-> says, bytes |-> bytes]
NoNote       == Note({}, 0)
PlainNote    == Note({}, 46)
DefaultPaperNote     == Note(Subjects \ {"gate"}, 152)
PaperCompletionNote  == Note(Subjects, 181)
ReviewCompletionNote == Note(ReviewSubjects, 155)
QuietMarketNote      == Note({"sentiment"}, 48)
SignalsNote          == Note({"sentiment"}, 90)
\* The shortest plan: a name of three letters and no trigger.
AdoptionNote == Note({"window", "drawdown"}, 350)
\* The note of the page of a finished backtest.
BacktestPageNote == Note(Subjects, 230)

AppendNote(old, new) ==
  IF old = NoNote THEN new
  ELSE IF new = NoNote \/ old = new THEN old
  ELSE Note(old.says \cup new.says, old.bytes + 1 + new.bytes)

ServerPaperEvidence(note)  == ServerPaperSubjects \subseteq note.says
PaperEvidence(note)        == ClientPaperSubjects \subseteq note.says
ReviewEvidence(note)       == note = NoNote \/ ReviewSubjects \subseteq note.says
ServerReviewEvidence(note) == ReviewSubjects \subseteq note.says

(* Actions of a run *)

ActionIds == {"review", "data", "sentiment_review", "backtest", "strategy", "paper_watch", "gate"}
ManualIds == {"review", "data", "sentiment_review", "paper_watch", "gate"}
Statuses  == {"done", "ready", "manual", "blocked"}

\* link: the action leads somewhere (for the backtest action, to its runs).
Action(status, note, link) == [status |-> status, note |-> note, link |-> link]
Missing == Action("none", NoNote, FALSE)

Present(act)     == act # Missing
\* Mutant of PaperDone: a watch that goes on counts as reviewed.
PaperDoneWhileWatched(act) == act.status \in {"manual", "done"}

PaperDone(act)   == act.status = "done" /\ PaperEvidence(act.note)
PaperThin(act)   == act.status = "done" /\ ~PaperEvidence(act.note)
ReviewDone(act)  == act.status = "done" /\ ReviewEvidence(act.note)
StrategySaved(acts) == acts["strategy"].status = "done"

(* The analysis *)

Moods == {"balanced", "heated", "fearful"}

\* notes: gaps the AI named; context: news, macro or chain data was read;
\* signals: human factors or watch signals; real: a provider answered, not the
\* fallback; accounts: accounts that may trade
\* and not withdraw, in the snapshot the analysis was made with.
NoAnalysis ==
  [made |-> FALSE, notes |-> FALSE, context |-> FALSE, mood |-> "balanced", signals |-> FALSE,
   drafts |-> <<>>, real |-> FALSE, halted |-> FALSE, limits |-> TRUE, accounts |-> FALSE]

\* A draft: the name its strategy is given, cut to eight letters, its symbol,
\* and whether it can be traded or is there to be watched.
Draft(sid, symbol, tradable) == [sid |-> sid, symbol |-> symbol, tradable |-> tradable]

DraftType == [sid : STRING, symbol : STRING, tradable : BOOLEAN]
AnalysisType ==
  [made : BOOLEAN, notes : BOOLEAN, context : BOOLEAN, mood : Moods, signals : BOOLEAN,
   drafts : Seq(DraftType), real : BOOLEAN, halted : BOOLEAN, limits : BOOLEAN,
   accounts : BOOLEAN]

Tradable(a)   == {i \in DOMAIN a.drafts : a.drafts[i].tradable}
Runnable(a)   == {i \in Tradable(a) : \A j \in Tradable(a) : j < i =>
                    \/ a.drafts[j].sid # a.drafts[i].sid
                    \/ a.drafts[j].symbol # a.drafts[i].symbol}
Sentiment(a)  == IF ~a.made \/ (~a.context /\ a.notes) THEN "data_gap" ELSE a.mood
DataGap(a)    == a.notes \/ ~a.context
NeedsReview(a, acts) == Sentiment(a) # "balanced" /\ ~ReviewDone(acts["sentiment_review"])

(* Backtests *)

\* testnet: score 75 or more with a drawdown of 12 % at most; risky: a score
\* as high with a deeper drawdown; both and paper pass the paper threshold.
Grades      == {"running", "failed", "weak", "watch", "paper", "testnet", "risky"}
PaperGrades == {"paper", "testnet", "risky"}
Finished    == Grades \ {"running"}

Score(grade) == CASE grade = "risky"   -> 90
                  [] grade = "testnet" -> 80
                  [] grade = "paper"   -> 72
                  [] grade = "watch"   -> 60
                  [] grade = "weak"    -> 30
                  [] OTHER             -> 0

Row(sid, grade) == [sid |-> sid, grade |-> grade]

\* Rows in the order of their scores, those still running last, ties in the
\* order they came.
Before(rows, i, j) ==
  \/ rows[i].grade # "running" /\ rows[j].grade = "running"
  \/ /\ (rows[i].grade = "running") = (rows[j].grade = "running")
     /\ \/ Score(rows[i].grade) > Score(rows[j].grade)
        \/ Score(rows[i].grade) = Score(rows[j].grade) /\ i < j

Best(rows, among) == CHOOSE i \in among : \A j \in among \ {i} : Before(rows, i, j)
Worst(rows, among)  == CHOOSE i \in among : \A j \in among \ {i} : Before(rows, j, i)

SomeRunning(rows) == \E i \in DOMAIN rows : rows[i].grade = "running"
SomeFinished(rows) == \E i \in DOMAIN rows : rows[i].grade # "running"

\* A row is a candidate when its strategy is that of a draft; the draft is the
\* first one whose name is cut to the same letters.
DraftsNamed(a, sid) == {i \in Tradable(a) : a.drafts[i].sid = sid}
\* Mutant of Candidates: any finished backtest will do.
CandidatesAnyGrade(a, rows) ==
  {i \in DOMAIN rows : rows[i].grade # "running" /\ DraftsNamed(a, rows[i].sid) # {}}

Candidates(a, rows) ==
  {i \in DOMAIN rows : rows[i].grade \in PaperGrades /\ DraftsNamed(a, rows[i].sid) # {}}
HasCandidate(a, rows)   == Candidates(a, rows) # {}
Candidate(a, rows)      == rows[Best(rows, Candidates(a, rows))]
CandidateDraft(a, rows) == Min(DraftsNamed(a, Candidate(a, rows).sid))

(* The actions a new run is given *)

DefaultActions(a) ==
  LET can == Tradable(a) # {}
      byDraft == IF can THEN "ready" ELSE "blocked"
  IN [id \in ActionIds |->
        CASE id = "review" -> Action("manual", SignalsNote, FALSE)
          [] id = "data"   -> Action(IF a.notes THEN "blocked" ELSE "done", SignalsNote, FALSE)
          [] id = "sentiment_review" ->
               IF a.signals THEN Action("manual", SignalsNote, FALSE)
                            ELSE Action("done", QuietMarketNote, FALSE)
          [] id \in {"backtest", "strategy"} -> Action(byDraft, SignalsNote, FALSE)
          [] id = "paper_watch" ->
               IF can THEN Action("blocked", DefaultPaperNote, FALSE) ELSE Missing
          [] id = "gate" -> Action("blocked", SignalsNote, FALSE)]

\* What the queue shows of a stored action: a review marked done without its
\* evidence is shown as one still to be made.
Overlay(id, act) ==
  IF \/ id = "paper_watch" /\ PaperThin(act)
     \/ id = "sentiment_review" /\ act.status = "done" /\ ~ReviewEvidence(act.note)
  THEN [act EXCEPT !.status = "manual"]
  ELSE act

ActionPlan(acts) == [id \in ActionIds |-> Overlay(id, acts[id])]

\* Mutant of CanTransition: what is blocked can be closed.
CanTransitionBlocked(id, act) == id \in ManualIds

\* The button of a queue item: the status and the note it stores.  None for an
\* action a person does not close, nor for a blocked paper watch or gate.
CanTransition(id, act) ==
  id \in ManualIds /\ ~(act.status = "blocked" /\ id \in {"paper_watch", "gate"})

Transition(id, act) ==
  IF act.status = "done" THEN Action("manual", PlainNote, act.link)
  ELSE CASE id = "paper_watch" -> Action("done", AppendNote(act.note, PaperCompletionNote), act.link)
         [] id = "sentiment_review" -> Action("done", ReviewCompletionNote, act.link)
         [] OTHER -> Action("done", PlainNote, act.link)

\* The gateway's validation of a patch.
Storable(id, act) ==
  /\ act.note.bytes <= NoteLimit
  /\ id = "paper_watch" /\ act.status = "done" => ServerPaperEvidence(act.note)
  /\ id = "sentiment_review" /\ act.status = "done" => ServerReviewEvidence(act.note)
  /\ id = "gate" => act.status # "done"   \* it wants evidence none of the notes holds

\* Mutant of PaperPatch: a status the gateway does not know.
PaperPatchWatching == Action("watching", AdoptionNote, TRUE)

PaperPatch        == Action("manual", AdoptionNote, TRUE)
BacktestPagePatch == Action("manual", BacktestPageNote, TRUE)
SavedPatch        == Action("done", SignalsNote, TRUE)
StartedPatch      == Action("done", SignalsNote, TRUE)
NothingStarted    == Action("blocked", SignalsNote, FALSE)

(***************************************************************************)
(* Panels.  A panel is a table read from the top: the first line whose     *)
(* condition holds gives the panel its stage and the action it offers.     *)
(***************************************************************************)
Panel(table) ==
  LET i == CHOOSE n \in DOMAIN table : table[n][1] /\ \A m \in 1..(n - 1) : ~table[m][1]
  IN [stage |-> table[i][2], offer |-> table[i][3]]

\* nextAIGoalDecision: the next step of the run.
Decision(a, acts, rows) ==
  LET paper == acts["paper_watch"]
      started == acts["backtest"].status = "done" /\ acts["backtest"].link
      found == HasCandidate(a, rows)
  IN Panel(<<
       <<a.notes /\ rows = <<>>,              "data_gap",          "none">>,
       <<SomeRunning(rows),                   "validating",        "none">>,
       <<rows = <<>> /\ started,              "validating",        "open_link">>,
       <<rows = <<>> /\ Runnable(a) # {},     "backtest",          "run_all_backtests">>,
       <<rows = <<>>,                         "backtest",          "none">>,
       <<~found,                              "redesign",          "analyze_and_validate">>,
       <<~Present(paper) /\ NeedsReview(a, acts), "sentiment_review", "none">>,
       <<~Present(paper),                     "paper_candidate",   "accept_paper_candidate">>,
       <<~PaperDone(paper),                   "paper_watch",       "none">>,
       <<found /\ Candidate(a, rows).grade = "testnet", "testnet_candidate", "open_link">>,
       <<TRUE,                                "continue_paper",    "none">> >>)

\* The pages that follow a decision link: every stage but a run without drafts
\* and a redesign has somewhere to go.
DecisionLinks(d) == d.stage \notin {"backtest", "redesign"}

\* Accounts as the page read them, or as the analysis saw them while it loads.
HasAccount(a, accounts) == IF accounts = "loading" THEN a.accounts ELSE accounts = "safe"

\* aiExecutionReadinessFromState: how far the run is from execution.
Readiness(a, acts, rows, accounts) ==
  LET paper == acts["paper_watch"]
  IN Panel(<<
       <<~a.made,                         "not_started",         "scan_today">>,
       <<DataGap(a),                      "data_gap",            "rescan_today">>,
       <<~HasCandidate(a, rows) /\ SomeRunning(rows), "validating", "run_all_backtests">>,
       <<~HasCandidate(a, rows),          "validation_needed",   "run_all_backtests">>,
       <<NeedsReview(a, acts),            "sentiment_review",    "open_link">>,
       <<a.halted,                        "trading_halted",      "open_link">>,
       <<~a.limits,                       "risk_limits_blocked", "open_link">>,
       <<~HasAccount(a, accounts),        "account_blocked",     "open_link">>,
       <<~Present(paper),                 "paper_ready",         "accept_paper_candidate">>,
       <<~PaperDone(paper),               "paper_watch",         "open_link">>,
       <<TRUE,                            "testnet_ready",       "open_link">> >>)
==============================================================================
