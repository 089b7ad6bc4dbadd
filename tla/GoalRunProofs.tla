----------------------------- MODULE GoalRunProofs -----------------------------
(***************************************************************************)
(* What a goal run keeps to, proved for every set of analyses, every       *)
(* outcome of its backtests and every bound.                               *)
(***************************************************************************)
EXTENDS GoalPage, FiniteSetTheorems, SequenceTheorems, WellFoundedInduction, TLAPS

(***************************************************************************)
(* The inductive invariant.  Names of strategies are whatever the AI chose *)
(* and sorting the drafts cannot be reasoned about here, so a sequence of  *)
(* backtests is one over the rows it holds.                                *)
(***************************************************************************)
NoteType   == [says : SUBSET Subjects, bytes : Nat]
ActionType == [status : Statuses \cup {"none"}, note : NoteType, link : BOOLEAN]
ActsType   == [ActionIds -> ActionType]
PastType   == [adopted : {"no", "page", "backtest_page"}, grade : Grades,
               reviewed : BOOLEAN, felt : BOOLEAN]
PageOk(q)  == q \in [open : BOOLEAN, acts : ActsType, related : Seq(Nat), rows : {q.rows},
                     polling : {"no", "yes"}, radar : Radars]

RowsOk(rows) ==
  /\ rows \in Seq(Range(rows))
  /\ \A i \in DOMAIN rows : rows[i] = Row(rows[i].sid, rows[i].grade) /\ rows[i].grade \in Grades

Types ==
  /\ run \in {0, 1}
  /\ a \in Analyses \cup {NoAnalysis}
  /\ doc \in ActsType
  /\ related \in Seq(Nat)
  /\ PageOk(page)
  /\ past \in PastType

JobsOk ==
  /\ RowsOk(jobs)
  /\ Len(jobs) <= MaxJobs
  /\ \A j \in DOMAIN jobs : jobs[j].grade \in Outcomes \cup {"running"}

\* The backtests the action names are there, and an open page names the same.
Named ==
  /\ \A i \in DOMAIN related : related[i] \in DOMAIN jobs
  /\ page.related = IF page.open THEN related ELSE <<>>

\* What is not there has nothing else to it.
Blank(acts) == \A id \in ActionIds : acts[id].status = "none" => acts[id] = Missing

\* A paper watch that is more than blocked was adopted, one that is done was
\* reviewed, and a mood whose review holds evidence was reviewed.
Earned(acts) ==
  /\ acts["paper_watch"].status \notin {"none", "blocked"} => past.adopted # "no"
  /\ acts["paper_watch"].status = "done" => past.reviewed
  /\ ReviewDone(acts["sentiment_review"]) => past.felt

\* A row the page shows above the paper threshold is that of a backtest above
\* it.  (Before the run has backtests the page holds rows and shows none.)
RowsHold ==
  /\ RowsOk(page.rows)
  /\ ~page.open => page.rows = <<>>
  /\ page.related # <<>> =>
       \A i \in DOMAIN page.rows : page.rows[i].grade \in PaperGrades =>
         \E j \in DOMAIN jobs : jobs[j].grade \in PaperGrades

IInv ==
  /\ Types /\ JobsOk /\ Named
  /\ Blank(doc) /\ Blank(page.acts)
  /\ Earned(doc) /\ Earned(page.acts)
  /\ RowsHold
  /\ past.adopted = "page" => past.grade \in PaperGrades

(***************************************************************************)
(* Rows and sequences                                                      *)
(***************************************************************************)

\* The first rows of a batch: as many as asked for, all of them running.
LEMMA RunningIs ==
  ASSUME NEW x, NEW n \in Nat
  PROVE  /\ RowsOk(Running(x, n))
         /\ Len(Running(x, n)) = n
         /\ DOMAIN Running(x, n) = 1..n
         /\ \A i \in 1..n : Running(x, n)[i].grade = "running"
<1> DEFINE d(i) == Row(x.drafts[SetToSortSeq(Runnable(x), <)[i]].sid, "running")
           s == [i \in 1..n |-> d(i)]
<1>1. Running(x, n) = s
  BY DEF Running
<1>2. \A i \in 1..n : s[i] = d(i)
  OBVIOUS
<1> HIDE DEF d
<1>3. DOMAIN s = 1..n /\ \A i \in 1..n : s[i] \in Range(s)
  BY DEF Range
<1>4. s \in [1..n -> Range(s)]
  BY <1>3
<1>5. s \in Seq(Range(s))
  BY <1>4, SeqDef
<1>6. Len(s) = n
  BY <1>3, <1>5, LenProperties
<1>7. \A i \in 1..n : d(i) = Row(d(i).sid, d(i).grade) /\ d(i).grade = "running"
  BY DEF d, Row
<1> HIDE DEF s
<1> QED
  BY <1>1, <1>2, <1>3, <1>5, <1>6, <1>7 DEF RowsOk, Grades

LEMMA RowsLen ==
  ASSUME NEW s, RowsOk(s)
  PROVE  Len(s) \in Nat /\ DOMAIN s = 1..Len(s)
  BY LenProperties DEF RowsOk

LEMMA NoRows == RowsOk(<<>>) /\ Len(<<>>) = 0 /\ DOMAIN <<>> = {}
<1>1. <<>> \in Seq(Range(<<>>)) /\ Len(<<>>) = 0
  BY EmptySeq
<1>2. DOMAIN <<>> = 1..0
  BY <1>1, LenProperties
<1> QED
  BY <1>1, <1>2 DEF RowsOk

\* Rows after rows.
LEMMA RowsConcat ==
  ASSUME NEW s, NEW t, RowsOk(s), RowsOk(t)
  PROVE  /\ RowsOk(s \o t)
         /\ Len(s \o t) = Len(s) + Len(t)
         /\ \A i \in 1..Len(s) : (s \o t)[i] = s[i]
         /\ \A i \in DOMAIN (s \o t) :
              \/ i \in DOMAIN s /\ (s \o t)[i] = s[i]
              \/ \E k \in DOMAIN t : (s \o t)[i] = t[k]
<1> DEFINE S == Range(s) \cup Range(t)
           u == s \o t
<1>1. s \in Seq(S) /\ t \in Seq(S)
  <2>1. s \in Seq(Range(s)) /\ t \in Seq(Range(t))
    BY DEF RowsOk
  <2>2. Range(s) \subseteq S /\ Range(t) \subseteq S
    OBVIOUS
  <2> QED
    BY <2>1, <2>2, SeqMonotonic
<1>2. /\ Len(s) \in Nat /\ DOMAIN s = 1..Len(s)
      /\ Len(t) \in Nat /\ DOMAIN t = 1..Len(t)
  BY <1>1, LenProperties
<1> HIDE DEF S
<1>3. /\ u \in Seq(S)
      /\ Len(u) = Len(s) + Len(t)
      /\ \A i \in 1..Len(s) + Len(t) : u[i] = IF i <= Len(s) THEN s[i] ELSE t[i - Len(s)]
  BY <1>1, ConcatProperties
<1>4. DOMAIN u = 1..Len(s) + Len(t)
  BY <1>3, LenProperties
<1>5. u \in Seq(Range(u))
  BY <1>3, SeqOfRange
<1> HIDE DEF u
<1>6. ASSUME NEW i \in DOMAIN u
      PROVE  \/ i \in DOMAIN s /\ u[i] = s[i]
             \/ \E k \in DOMAIN t : u[i] = t[k]
  <2>1. CASE i <= Len(s)
    BY <2>1, <1>2, <1>3, <1>4
  <2>2. CASE ~(i <= Len(s))
    <3>1. i - Len(s) \in DOMAIN t /\ u[i] = t[i - Len(s)]
      BY <2>2, <1>2, <1>3, <1>4
    <3> QED
      BY <3>1
  <2> QED
    BY <2>1, <2>2
<1>7. \A i \in DOMAIN u : u[i] = Row(u[i].sid, u[i].grade) /\ u[i].grade \in Grades
  BY <1>6 DEF RowsOk
<1>8. \A i \in 1..Len(s) : u[i] = s[i]
  BY <1>2, <1>3
<1> QED
  BY <1>3, <1>5, <1>6, <1>7, <1>8 DEF RowsOk, u

\* One more row.
LEMMA RowsAppend ==
  ASSUME NEW s, RowsOk(s), NEW sid, NEW grade \in Grades
  PROVE  /\ RowsOk(Append(s, Row(sid, grade)))
         /\ Len(Append(s, Row(sid, grade))) = Len(s) + 1
         /\ \A i \in 1..Len(s) : Append(s, Row(sid, grade))[i] = s[i]
         /\ Append(s, Row(sid, grade))[Len(s) + 1] = Row(sid, grade)
<1> DEFINE e == Row(sid, grade)
           S == Range(s) \cup {e}
           u == Append(s, e)
<1>1. e = Row(e.sid, e.grade) /\ e.grade \in Grades
  BY DEF Row
<1>2. s \in Seq(S)
  <2>1. s \in Seq(Range(s)) /\ Range(s) \subseteq S
    BY DEF RowsOk
  <2> QED
    BY <2>1, SeqMonotonic
<1>3. e \in S
  OBVIOUS
<1> HIDE DEF S, e
<1>4. /\ u \in Seq(S) /\ Len(u) = Len(s) + 1
      /\ \A i \in 1..Len(s) : u[i] = s[i]
      /\ u[Len(s) + 1] = e
  BY <1>2, <1>3, AppendProperties
<1>5. Len(s) \in Nat /\ DOMAIN s = 1..Len(s) /\ DOMAIN u = 1..Len(s) + 1
  BY <1>2, <1>4, LenProperties
<1>6. u \in Seq(Range(u))
  BY <1>4, SeqOfRange
<1> HIDE DEF u
<1>7. ASSUME NEW i \in DOMAIN u
      PROVE  u[i] = Row(u[i].sid, u[i].grade) /\ u[i].grade \in Grades
  <2>1. CASE i = Len(s) + 1
    BY <2>1, <1>1, <1>4
  <2>2. CASE i # Len(s) + 1
    <3>1. i \in DOMAIN s /\ u[i] = s[i]
      BY <2>2, <1>4, <1>5
    <3> QED
      BY <3>1 DEF RowsOk
  <2> QED
    BY <2>1, <2>2
<1> QED
  BY <1>4, <1>6, <1>7 DEF RowsOk, u, e

\* One row with another grade.
LEMMA RowsRegrade ==
  ASSUME NEW s, RowsOk(s), NEW j \in DOMAIN s, NEW grade \in Grades
  PROVE  LET u == [s EXCEPT ![j].grade = grade]
         IN /\ RowsOk(u) /\ Len(u) = Len(s) /\ DOMAIN u = DOMAIN s
            /\ \A i \in DOMAIN s : i # j => u[i] = s[i]
            /\ u[j].grade = grade
<1> DEFINE u == [s EXCEPT ![j].grade = grade]
           e == [s[j] EXCEPT !.grade = grade]
           S == Range(s) \cup {e}
<1>1. e = Row(s[j].sid, grade)
  BY DEF RowsOk, Row
<1>2. u = [s EXCEPT ![j] = e]
  OBVIOUS
<1>3. s \in Seq(S)
  <2>1. s \in Seq(Range(s)) /\ Range(s) \subseteq S
    BY DEF RowsOk
  <2> QED
    BY <2>1, SeqMonotonic
<1>4. e \in S
  OBVIOUS
<1> HIDE DEF S, e
<1>5. Len(s) \in Nat /\ DOMAIN s = 1..Len(s)
  BY <1>3, LenProperties
<1>6. u \in Seq(S) /\ Len(u) = Len(s)
  BY <1>2, <1>3, <1>4, <1>5, ExceptSeq
<1>7. \A i \in DOMAIN s : u[i] = IF i = j THEN e ELSE s[i]
  BY <1>2
<1>8. DOMAIN u = DOMAIN s
  BY <1>2
<1> HIDE DEF u
<1>9. u \in Seq(Range(u))
  BY <1>6, SeqOfRange
<1>10. e = Row(e.sid, e.grade) /\ e.grade = grade
  BY <1>1 DEF Row
<1>11. \A i \in DOMAIN u : u[i] = Row(u[i].sid, u[i].grade) /\ u[i].grade \in Grades
  BY <1>7, <1>8, <1>10 DEF RowsOk
<1> QED
  BY <1>6, <1>7, <1>8, <1>9, <1>10, <1>11 DEF RowsOk, u

(***************************************************************************)
(* Drafts and candidates                                                   *)
(***************************************************************************)
LEMMA NoAnalysisIs == NoAnalysis \in AnalysisType
<1>1. <<>> \in Seq(DraftType)
  BY EmptySeq
<1> QED
  BY <1>1 DEF NoAnalysis, AnalysisType, Moods

\* How many drafts can be validated is a number.
LEMMA RunnableIs ==
  ASSUME NEW x \in AnalysisType
  PROVE  /\ Cardinality(Runnable(x)) \in Nat
         /\ Runnable(x) \subseteq Tradable(x)
         /\ Tradable(x) \subseteq DOMAIN x.drafts
<1>1. x.drafts \in Seq(DraftType)
  BY DEF AnalysisType
<1>2. Len(x.drafts) \in Nat /\ DOMAIN x.drafts = 1..Len(x.drafts)
  BY <1>1, LenProperties
<1>3. IsFiniteSet(DOMAIN x.drafts)
  BY <1>2, FS_Interval
<1>4. Runnable(x) \subseteq Tradable(x) /\ Tradable(x) \subseteq DOMAIN x.drafts
  BY DEF Runnable, Tradable
<1>5. IsFiniteSet(Runnable(x))
  BY <1>3, <1>4, FS_Subset
<1> QED
  BY <1>4, <1>5, FS_CardinalityType

LEMMA Least ==
  ASSUME NEW S, S \subseteq Nat, S # {}
  PROVE  \E m \in S : \A k \in S : m <= k
<1>1. PICK m \in S : \A k \in S : ~(<<k, m>> \in OpToRel(<, Nat))
  BY WFMin, NatLessThanWellFounded
<1>2. \A k \in S : ~(k < m)
  BY <1>1 DEF OpToRel
<1> QED
  BY <1>2

\* The candidate is one of the candidates: among finished rows Before is a
\* total order in which every set of them has a first.
LEMMA CandidateIs ==
  ASSUME NEW x, NEW rows, RowsOk(rows), HasCandidate(x, rows)
  PROVE  /\ Best(rows, Candidates(x, rows)) \in Candidates(x, rows)
         /\ Candidate(x, rows).grade \in PaperGrades
<1> DEFINE C == Candidates(x, rows)
           Of(grade) == {i \in C : rows[i].grade = grade}
<1>1. C # {} /\ C \subseteq DOMAIN rows /\ \A i \in C : rows[i].grade \in PaperGrades
  BY DEF HasCandidate, Candidates
<1>2. C \subseteq Nat
  BY <1>1, RowsLen
<1> HIDE DEF C
<1>3. ASSUME NEW grade \in PaperGrades, Of(grade) # {},
             \A i \in C : Score(rows[i].grade) <= Score(grade),
             \A i \in C : Score(rows[i].grade) = Score(grade) => rows[i].grade = grade
      PROVE  \E i \in C : \A j \in C \ {i} : Before(rows, i, j)
  <2>1. PICK m \in Of(grade) : \A k \in Of(grade) : m <= k
    BY <1>2, <1>3, Least
  <2>2. ASSUME NEW j \in C \ {m}
        PROVE  Before(rows, m, j)
    <3>1. rows[m].grade = grade /\ rows[m].grade # "running" /\ rows[j].grade # "running"
      BY <1>1, <2>1 DEF PaperGrades
    <3>2. Score(grade) \in Nat /\ Score(rows[j].grade) \in Nat
      BY <1>1 DEF Score, PaperGrades
    <3>3. CASE rows[j].grade = grade
      <4>1. m < j
        BY <1>2, <2>1, <3>3
      <4> QED
        BY <3>1, <3>3, <4>1 DEF Before
    <3>4. CASE rows[j].grade # grade
      <4>1. Score(grade) > Score(rows[j].grade)
        BY <1>3, <3>2, <3>4
      <4> QED
        BY <3>1, <4>1 DEF Before
    <3> QED
      BY <3>3, <3>4
  <2> QED
    BY <2>1, <2>2
<1>4. \E i \in C : \A j \in C \ {i} : Before(rows, i, j)
  <2>1. CASE Of("risky") # {}
    <3>1. \A i \in C : Score(rows[i].grade) <= Score("risky")
      BY <1>1 DEF Score, PaperGrades
    <3>2. \A i \in C : Score(rows[i].grade) = Score("risky") => rows[i].grade = "risky"
      BY <1>1 DEF Score, PaperGrades
    <3> QED
      BY <1>3, <2>1, <3>1, <3>2 DEF PaperGrades
  <2>2. CASE Of("risky") = {} /\ Of("testnet") # {}
    <3>1. \A i \in C : rows[i].grade \in {"paper", "testnet"}
      BY <1>1, <2>2 DEF PaperGrades
    <3>2. \A i \in C : Score(rows[i].grade) <= Score("testnet")
      BY <3>1 DEF Score
    <3>3. \A i \in C : Score(rows[i].grade) = Score("testnet") => rows[i].grade = "testnet"
      BY <3>1 DEF Score
    <3> QED
      BY <1>3, <2>2, <3>2, <3>3 DEF PaperGrades
  <2>3. CASE Of("risky") = {} /\ Of("testnet") = {}
    <3>1. \A i \in C : rows[i].grade = "paper"
      BY <1>1, <2>3 DEF PaperGrades
    <3>2. Of("paper") # {}
      BY <1>1, <3>1
    <3>3. \A i \in C : Score(rows[i].grade) <= Score("paper")
      BY <3>1 DEF Score
    <3> QED
      BY <1>3, <3>1, <3>2, <3>3 DEF PaperGrades
  <2> QED
    BY <2>1, <2>2, <2>3
<1>5. Best(rows, C) \in C
  BY <1>4 DEF Best
<1> QED
  BY <1>1, <1>5 DEF Candidate, C

(***************************************************************************)
(* Actions                                                                 *)
(***************************************************************************)
LEMMA NotesAre ==
  /\ NoNote \in NoteType /\ PlainNote \in NoteType /\ SignalsNote \in NoteType
  /\ DefaultPaperNote \in NoteType /\ PaperCompletionNote \in NoteType
  /\ ReviewCompletionNote \in NoteType /\ QuietMarketNote \in NoteType
  /\ AdoptionNote \in NoteType /\ BacktestPageNote \in NoteType
  BY DEF NoteType, Note, Subjects, NoNote, PlainNote, DefaultPaperNote, PaperCompletionNote,
         ReviewCompletionNote, ReviewSubjects, QuietMarketNote, SignalsNote, AdoptionNote,
         BacktestPageNote

LEMMA AppendNoteIs ==
  ASSUME NEW old \in NoteType, NEW new \in NoteType
  PROVE  AppendNote(old, new) \in NoteType
<1>1. Note(old.says \cup new.says, old.bytes + 1 + new.bytes) \in NoteType
  BY DEF NoteType, Note
<1> QED
  BY <1>1 DEF AppendNote

LEMMA StatusesAre ==
  /\ "done" \in Statuses /\ "ready" \in Statuses /\ "manual" \in Statuses
  /\ "blocked" \in Statuses /\ "none" \notin Statuses
  BY DEF Statuses

\* An action, field by field.
LEMMA ActionIs ==
  ASSUME NEW status \in Statuses, NEW note \in NoteType, NEW link \in BOOLEAN
  PROVE  /\ Action(status, note, link) \in ActionType
         /\ Action(status, note, link).status = status
         /\ Action(status, note, link).note = note
         /\ Action(status, note, link).status # "none"
  BY DEF Action, ActionType, Statuses

LEMMA MissingIs == Missing \in ActionType /\ Missing.status = "none"
  BY NotesAre DEF Missing, Action, ActionType

\* The patches the pages send.
LEMMA PatchesAre ==
  /\ PaperPatch \in ActionType /\ PaperPatch.status = "manual"
  /\ BacktestPagePatch \in ActionType /\ BacktestPagePatch.status = "manual"
  /\ SavedPatch \in ActionType /\ SavedPatch.status = "done"
  /\ StartedPatch \in ActionType /\ StartedPatch.status = "done"
  /\ Action("ready", SignalsNote, TRUE) \in ActionType
  /\ Action("ready", SignalsNote, TRUE).status = "ready"
<1>1. ASSUME NEW status \in Statuses, NEW note \in NoteType
      PROVE  /\ Action(status, note, TRUE) \in ActionType
             /\ Action(status, note, TRUE).status = status
  BY ActionIs
<1>2. PaperPatch \in ActionType /\ PaperPatch.status = "manual"
  BY <1>1, NotesAre, StatusesAre DEF PaperPatch
<1>3. BacktestPagePatch \in ActionType /\ BacktestPagePatch.status = "manual"
  BY <1>1, NotesAre, StatusesAre DEF BacktestPagePatch
<1>4. SavedPatch \in ActionType /\ SavedPatch.status = "done"
  BY <1>1, NotesAre, StatusesAre DEF SavedPatch
<1>5. StartedPatch \in ActionType /\ StartedPatch.status = "done"
  BY <1>1, NotesAre, StatusesAre DEF StartedPatch
<1> QED
  BY <1>1, <1>2, <1>3, <1>4, <1>5, NotesAre, StatusesAre

\* No action at all.
LEMMA NoActsAre == NoActs \in ActsType /\ \A id \in ActionIds : NoActs[id] = Missing
  BY MissingIs DEF NoActs, ActsType

\* The actions a run starts with: the paper watch blocked or missing, and no
\* mood reviewed.
LEMMA DefaultsAre ==
  ASSUME NEW x \in AnalysisType
  PROVE  /\ DefaultActions(x) \in ActsType
         /\ Blank(DefaultActions(x))
         /\ DefaultActions(x)["paper_watch"].status \in {"none", "blocked"}
         /\ ~ReviewDone(DefaultActions(x)["sentiment_review"])
<1> DEFINE can == Tradable(x) # {}
           byDraft == IF can THEN "ready" ELSE "blocked"
           acts == DefaultActions(x)
           of(id) ==
        CASE id = "review" -> Action("manual", SignalsNote, FALSE)
          [] id = "data"   -> Action(IF x.notes THEN "blocked" ELSE "done", SignalsNote, FALSE)
          [] id = "sentiment_review" ->
               IF x.signals THEN Action("manual", SignalsNote, FALSE)
                            ELSE Action("done", QuietMarketNote, FALSE)
          [] id \in {"backtest", "strategy"} -> Action(byDraft, SignalsNote, FALSE)
          [] id = "paper_watch" ->
               IF can THEN Action("blocked", DefaultPaperNote, FALSE) ELSE Missing
          [] id = "gate" -> Action("blocked", SignalsNote, FALSE)
<1>1. acts = [id \in ActionIds |-> of(id)]
  BY DEF DefaultActions
<1> HIDE DEF acts, can, byDraft
<1>2. /\ acts["review"] = Action("manual", SignalsNote, FALSE)
      /\ acts["data"] = Action(IF x.notes THEN "blocked" ELSE "done", SignalsNote, FALSE)
      /\ acts["sentiment_review"] = IF x.signals THEN Action("manual", SignalsNote, FALSE)
                                    ELSE Action("done", QuietMarketNote, FALSE)
      /\ acts["backtest"] = Action(byDraft, SignalsNote, FALSE)
      /\ acts["strategy"] = Action(byDraft, SignalsNote, FALSE)
      /\ acts["paper_watch"] = IF can THEN Action("blocked", DefaultPaperNote, FALSE) ELSE Missing
      /\ acts["gate"] = Action("blocked", SignalsNote, FALSE)
  BY <1>1 DEF ActionIds
<1> HIDE DEF of
<1>3. \A id \in ActionIds : acts[id] = of(id)
  BY <1>1
<1>4. \A status \in Statuses :
        /\ Action(status, SignalsNote, FALSE) \in ActionType
        /\ Action(status, SignalsNote, FALSE).status = status
        /\ status # "none"
  BY NotesAre, ActionIs, StatusesAre
<1>5. /\ Action("done", QuietMarketNote, FALSE) \in ActionType
      /\ Action("done", QuietMarketNote, FALSE).status = "done"
      /\ Action("done", QuietMarketNote, FALSE).note = QuietMarketNote
      /\ Action("blocked", DefaultPaperNote, FALSE) \in ActionType
      /\ Action("blocked", DefaultPaperNote, FALSE).status = "blocked"
  BY NotesAre, ActionIs, StatusesAre
<1>6. byDraft \in Statuses /\ (IF x.notes THEN "blocked" ELSE "done") \in Statuses
  BY DEF byDraft, Statuses
<1>7. \A id \in ActionIds \ {"paper_watch"} : acts[id] \in ActionType /\ acts[id].status # "none"
  BY <1>2, <1>4, <1>5, <1>6 DEF ActionIds, Statuses
<1>8. /\ acts["paper_watch"] \in ActionType
      /\ acts["paper_watch"].status \in {"none", "blocked"}
      /\ acts["paper_watch"].status = "none" => acts["paper_watch"] = Missing
  BY <1>2, <1>5, MissingIs
<1>9. ~ReviewDone(acts["sentiment_review"])
  <2>1. ~ReviewEvidence(QuietMarketNote)
    BY DEF ReviewEvidence, QuietMarketNote, NoNote, Note, ReviewSubjects
  <2>2. acts["sentiment_review"].status = "done" => acts["sentiment_review"].note = QuietMarketNote
    BY <1>2, <1>4, <1>5 DEF Statuses
  <2> QED
    BY <2>1, <2>2 DEF ReviewDone
<1>10. \A id \in ActionIds : acts[id] \in ActionType
  BY <1>7, <1>8
<1>11. acts \in ActsType
  BY <1>1, <1>3, <1>10 DEF ActsType
<1>12. Blank(acts)
  BY <1>7, <1>8 DEF Blank
<1> QED
  BY <1>8, <1>9, <1>11, <1>12 DEF acts

\* One action stored over the others.
Storing(acts, id, act) == [acts EXCEPT ![id] = act]

LEMMA Stored ==
  ASSUME NEW acts \in ActsType, Blank(acts), NEW id \in ActionIds,
         NEW act \in ActionType, act.status # "none"
  PROVE  /\ Storing(acts, id, act) \in ActsType /\ Blank(Storing(acts, id, act))
         /\ Storing(acts, id, act)[id] = act
         /\ \A other \in ActionIds \ {id} : Storing(acts, id, act)[other] = acts[other]
  BY DEF ActsType, Blank, Storing

\* What the queue shows of an action, and what its button stores.
LEMMA TransitionIs ==
  ASSUME NEW id \in ActionIds, NEW act \in ActionType, act.status = "none" => act = Missing,
         Present(Overlay(id, act)), CanTransition(id, Overlay(id, act))
  PROVE  /\ Transition(id, Overlay(id, act)) \in ActionType
         /\ Transition(id, Overlay(id, act)).status \in {"manual", "done"}
         /\ id = "paper_watch" => act.status \notin {"none", "blocked"}
<1> DEFINE shown == Overlay(id, act)
<1>1. shown \in ActionType /\ shown.status \in {act.status, "manual"}
      /\ (shown.status # act.status => act.status = "done")
      /\ (shown = act \/ act.status = "done")
  BY DEF Overlay, PaperThin, ActionType, Statuses
<1> HIDE DEF shown
<1>2. /\ Transition(id, shown) \in ActionType
      /\ Transition(id, shown).status \in {"manual", "done"}
  <2>1. shown.note \in NoteType /\ shown.link \in BOOLEAN
    BY <1>1 DEF ActionType
  <2>2. /\ Action("manual", PlainNote, shown.link) \in ActionType
        /\ Action("manual", PlainNote, shown.link).status = "manual"
        /\ Action("done", PlainNote, shown.link) \in ActionType
        /\ Action("done", PlainNote, shown.link).status = "done"
        /\ Action("done", ReviewCompletionNote, shown.link) \in ActionType
        /\ Action("done", ReviewCompletionNote, shown.link).status = "done"
    BY <2>1, NotesAre, ActionIs, StatusesAre
  <2>3. AppendNote(shown.note, PaperCompletionNote) \in NoteType
    BY <2>1, NotesAre, AppendNoteIs
  <2>4. /\ Action("done", AppendNote(shown.note, PaperCompletionNote), shown.link) \in ActionType
        /\ Action("done", AppendNote(shown.note, PaperCompletionNote), shown.link).status = "done"
    BY <2>1, <2>3, ActionIs, StatusesAre
  <2> QED
    BY <2>2, <2>4 DEF Transition
<1>3. ASSUME id = "paper_watch"
      PROVE  act.status \notin {"none", "blocked"}
  <2>1. shown # Missing /\ shown.status # "blocked"
    BY <1>3 DEF shown, Present, CanTransition
  <2> QED
    BY <1>1, <2>1
<1> QED
  BY <1>2, <1>3 DEF shown

(***************************************************************************)
(* The page                                                                *)
(***************************************************************************)
LEMMA PageFields ==
  ASSUME NEW q, PageOk(q)
  PROVE  /\ q.open \in BOOLEAN /\ q.acts \in ActsType /\ q.related \in Seq(Nat)
         /\ q.polling \in {"no", "yes"} /\ q.radar \in Radars
         /\ q = [open |-> q.open, acts |-> q.acts, related |-> q.related, rows |-> q.rows,
                 polling |-> q.polling, radar |-> q.radar]
  BY DEF PageOk

\* A page that shows a run, by its parts.
OpenPage(acts, names, rows, polling, radar) ==
  [open |-> TRUE, acts |-> acts, related |-> names, rows |-> rows, polling |-> polling,
   radar |-> radar]

\* A page left or loaded again shows no run.
LEMMA LeftIs ==
  ASSUME PageOk(page), NEW q \in Left
  PROVE  /\ PageOk(q) /\ ~q.open /\ q.acts = NoActs /\ q.related = <<>> /\ q.rows = <<>>
<1>1. PICK radar \in Aged(page.radar) : q = NewPage(radar)
  BY DEF Left
<1>2. radar \in Radars
  BY PageFields DEF Aged, Radars
<1>3. <<>> \in Seq(Nat)
  BY EmptySeq
<1> QED
  BY <1>1, <1>2, <1>3, NoActsAre DEF NewPage, PageOk

\* A page without a run shows nothing earned.
LEMMA NoActsEarned ==
  /\ Blank(NoActs)
  /\ NoActs["paper_watch"].status = "none"
  /\ ~ReviewDone(NoActs["sentiment_review"])
<1>1. \A id \in ActionIds : NoActs[id] = Missing
  BY NoActsAre
<1>2. NoActs["paper_watch"].status = "none" /\ NoActs["sentiment_review"].status = "none"
  BY <1>1, MissingIs DEF ActionIds
<1> QED
  BY <1>1, <1>2 DEF Blank, ReviewDone

LEMMA LeftHolds ==
  ASSUME IInv, page' \in Left
  PROVE  /\ PageOk(page') /\ Blank(page'.acts) /\ Earned(page.acts)'
         /\ page'.open = FALSE /\ page'.related = <<>> /\ RowsHold'
<1>1. /\ PageOk(page') /\ ~page'.open /\ page'.acts = NoActs /\ page'.related = <<>>
      /\ page'.rows = <<>>
  BY LeftIs DEF IInv, Types
<1>2. page'.open \in BOOLEAN
  BY <1>1, PageFields
<1>3. Blank(page'.acts) /\ Earned(page.acts)'
  BY <1>1, NoActsEarned DEF Earned
<1>4. RowsHold'
  BY <1>1, NoRows DEF RowsHold
<1> QED
  BY <1>1, <1>2, <1>3, <1>4

(***************************************************************************)
(* Init and the steps                                                      *)
(***************************************************************************)
LEMMA LegacyIs ==
  ASSUME NEW x \in AnalysisType
  PROVE  /\ Legacy(x) \in ActsType /\ Blank(Legacy(x))
         /\ ~ReviewDone(Legacy(x)["sentiment_review"])
<1> DEFINE acts == DefaultActions(x)
           watch == Action("done", PlainNote, TRUE)
           ready == Action("ready", SignalsNote, TRUE)
           closed == Storing(acts, "paper_watch", watch)
           all == Storing(closed, "strategy", ready)
<1>1. Legacy(x) = all
  BY DEF Legacy, Storing
<1>2. /\ acts \in ActsType /\ Blank(acts) /\ ~ReviewDone(acts["sentiment_review"])
  BY DefaultsAre
<1>3. /\ watch \in ActionType /\ watch.status # "none"
      /\ ready \in ActionType /\ ready.status # "none"
  BY ActionIs, NotesAre, StatusesAre
<1>4. "paper_watch" \in ActionIds /\ "strategy" \in ActionIds
      /\ "sentiment_review" \in ActionIds \ {"strategy", "paper_watch"}
  BY DEF ActionIds
<1> HIDE DEF acts, watch, ready
<1>5. closed \in ActsType /\ Blank(closed) /\ closed["sentiment_review"] = acts["sentiment_review"]
  BY <1>2, <1>3, <1>4, Stored
<1> HIDE DEF closed
<1>6. all \in ActsType /\ Blank(all) /\ all["sentiment_review"] = closed["sentiment_review"]
  BY <1>3, <1>4, <1>5, Stored
<1> QED
  BY <1>1, <1>2, <1>5, <1>6

LEMMA InitHolds ==
  ASSUME Init
  PROVE  IInv
<1> USE GoalAssumption DEF Init
<1>1. <<>> \in Seq(Nat) /\ RowsOk(<<>>) /\ Len(<<>>) = 0 /\ DOMAIN <<>> = {}
  BY NoRows, EmptySeq
<1>2. /\ PageOk(page) /\ ~page.open /\ page.acts = NoActs
      /\ page.related = <<>> /\ page.rows = <<>>
  BY <1>1, NoActsAre DEF NewPage, PageOk, Radars
<1>3. JobsOk /\ Named /\ RowsHold
  BY <1>1, <1>2 DEF JobsOk, Named, RowsHold
<1>4. Blank(page.acts) /\ Earned(page.acts)
  BY <1>2, NoActsEarned DEF Earned
<1>5. CASE run = 0 /\ a = NoAnalysis /\ doc = NoActs /\ past = NoPast
  <2>1. past \in PastType /\ past.adopted = "no"
    BY <1>5 DEF NoPast, PastType, Grades
  <2>2. Types
    BY <1>1, <1>2, <1>5, <2>1, NoActsAre DEF Types
  <2>3. Blank(doc) /\ Earned(doc)
    BY <1>5, NoActsEarned DEF Earned
  <2> QED
    BY <1>3, <1>4, <2>1, <2>2, <2>3 DEF IInv
<1>6. CASE /\ run = 1 /\ a \in {x \in Analyses : Tradable(x) # {}} /\ doc = Legacy(a)
           /\ past = [NoPast EXCEPT !.adopted = "page", !.grade = "paper", !.reviewed = TRUE]
  <2>1. past \in PastType /\ past.adopted = "page" /\ past.grade \in PaperGrades /\ past.reviewed
    BY <1>6 DEF NoPast, PastType, Grades, PaperGrades
  <2>2. a \in AnalysisType
    BY <1>6
  <2>8. doc \in ActsType /\ Blank(doc) /\ ~ReviewDone(doc["sentiment_review"])
    BY <1>6, <2>2, LegacyIs
  <2>9. Earned(doc)
    BY <2>1, <2>8 DEF Earned
  <2>10. Types
    BY <1>1, <1>2, <1>6, <2>1, <2>8 DEF Types
  <2> QED
    BY <1>3, <1>4, <2>1, <2>8, <2>9, <2>10 DEF IInv
<1> QED
  BY <1>5, <1>6

\* A new run: everything earned is gone, with the actions it was earned for.
LEMMA NewRunHolds ==
  ASSUME IInv, NEW validates \in BOOLEAN, NEW scans \in BOOLEAN, NewRun(validates, scans)
  PROVE  IInv'
<1>1. PICK x \in IF run = 0 THEN Analyses ELSE {a} :
        LET n == IF validates THEN Cardinality(Runnable(x)) ELSE 0
            acts == DefaultActions(x)
            started == [acts EXCEPT !["backtest"] = StartedPatch]
        IN \E made \in 0..n, stored \in BOOLEAN :
             /\ ~Redirects(Gate) /\ n <= MaxJobs
             /\ stored => made = n /\ n > 0
             /\ run' = 1 /\ a' = x /\ past' = NoPast
             /\ jobs' = Running(x, made)
             /\ doc' = IF stored THEN started ELSE acts
             /\ related' = IF stored THEN [i \in 1..n |-> i] ELSE <<>>
             /\ page' = [page EXCEPT !.open = TRUE, !.acts = doc', !.related = related',
                           !.rows = IF made = n /\ n > 0 THEN Running(x, n) ELSE @,
                           !.polling = IF stored THEN "yes" ELSE "no",
                           !.radar = IF scans THEN "fresh" ELSE @]
  BY DEF NewRun
<1> DEFINE n == IF validates THEN Cardinality(Runnable(x)) ELSE 0
           acts == DefaultActions(x)
           started == Storing(acts, "backtest", StartedPatch)
<1>2. PICK made \in 0..n, stored \in BOOLEAN :
        /\ n <= MaxJobs
        /\ stored => made = n /\ n > 0
        /\ run' = 1 /\ a' = x /\ past' = NoPast
        /\ jobs' = Running(x, made)
        /\ doc' = IF stored THEN started ELSE acts
        /\ related' = IF stored THEN [i \in 1..n |-> i] ELSE <<>>
        /\ page' = [page EXCEPT !.open = TRUE, !.acts = doc', !.related = related',
                      !.rows = IF made = n /\ n > 0 THEN Running(x, n) ELSE @,
                      !.polling = IF stored THEN "yes" ELSE "no",
                      !.radar = IF scans THEN "fresh" ELSE @]
  BY <1>1 DEF Storing
<1>3. x \in AnalysisType /\ x \in Analyses \cup {NoAnalysis}
  <2>1. a \in Analyses \cup {NoAnalysis}
    BY DEF IInv, Types
  <2> QED
    BY <2>1, GoalAssumption, NoAnalysisIs
<1>4. n \in Nat
  BY <1>3, RunnableIs
<1>5. MaxJobs \in Nat
  BY GoalAssumption
<1> DEFINE rows == IF made = n /\ n > 0 THEN Running(x, n) ELSE page.rows
           polling == IF stored THEN "yes" ELSE "no"
           radar == IF scans THEN "fresh" ELSE page.radar
<1>6. page' = OpenPage(doc', related', rows, polling, radar)
  <2>1. page = [open |-> page.open, acts |-> page.acts, related |-> page.related,
                rows |-> page.rows, polling |-> page.polling, radar |-> page.radar]
    BY PageFields DEF IInv, Types
  <2>2. page' = [page EXCEPT !.open = TRUE, !.acts = doc', !.related = related', !.rows = rows,
                   !.polling = polling, !.radar = radar]
    BY <1>2, <2>1
  <2> HIDE DEF rows, polling, radar
  <2> QED
    BY <2>1, <2>2 DEF OpenPage
<1>7. /\ acts \in ActsType /\ Blank(acts)
      /\ acts["paper_watch"].status \in {"none", "blocked"}
      /\ ~ReviewDone(acts["sentiment_review"])
  BY <1>3, DefaultsAre
<1> HIDE DEF n, acts, rows, polling, radar
<1>8. /\ started \in ActsType /\ Blank(started)
      /\ started["paper_watch"] = acts["paper_watch"]
      /\ started["sentiment_review"] = acts["sentiment_review"]
  <2>1. "backtest" \in ActionIds /\ "paper_watch" \in ActionIds \ {"backtest"}
        /\ "sentiment_review" \in ActionIds \ {"backtest"}
    BY DEF ActionIds
  <2>2. StartedPatch \in ActionType /\ StartedPatch.status # "none"
    BY PatchesAre
  <2> QED
    BY <1>7, <2>1, <2>2, Stored
<1> HIDE DEF started
<1>9. /\ doc' \in ActsType /\ Blank(doc')
      /\ doc'["paper_watch"].status \in {"none", "blocked"}
      /\ ~ReviewDone(doc'["sentiment_review"])
  BY <1>2, <1>7, <1>8
<1>10. related' \in Seq(Nat) /\ DOMAIN related' = (IF stored THEN 1..n ELSE {})
       /\ (stored => \A i \in 1..n : related'[i] = i) /\ (~stored => related' = <<>>)
  <2>1. <<>> \in Seq(Nat) /\ DOMAIN <<>> = {}
    BY EmptySeq, NoRows
  <2>2. [i \in 1..n |-> i] \in Seq(Nat)
    BY <1>4, SeqDef
  <2> QED
    BY <1>2, <2>1, <2>2
<1>11. /\ RowsOk(jobs') /\ Len(jobs') = made /\ DOMAIN jobs' = 1..made
       /\ \A j \in 1..made : jobs'[j].grade = "running"
  BY <1>2, <1>4, RunningIs
<1>12. rows = page.rows \/ (RowsOk(rows) /\ \A i \in DOMAIN rows : rows[i].grade = "running")
  BY <1>4, RunningIs DEF rows
<1>13. /\ polling \in {"no", "yes"} /\ radar \in Radars /\ PageOk(page)
       /\ RowsOk(page.rows)
  BY PageFields DEF IInv, Types, RowsHold, Radars, polling, radar
<1>14. /\ PageOk(page') /\ page'.open = TRUE /\ page'.acts = doc' /\ page'.related = related'
       /\ page'.rows = rows
  <2>1. doc' \in ActsType /\ related' \in Seq(Nat)
    BY <1>9, <1>10
  <2>2. polling \in {"no", "yes"} /\ radar \in Radars
    BY <1>13
  <2> DEFINE q == OpenPage(doc', related', rows, polling, radar)
  <2>3. /\ PageOk(q) /\ q.open = TRUE /\ q.acts = doc' /\ q.related = related'
        /\ q.rows = rows
    BY <2>1, <2>2 DEF OpenPage, PageOk
  <2> HIDE DEF q
  <2>4. page' = q
    BY <1>6 DEF q
  <2> QED
    BY <2>3, <2>4
<1>15. Types'
  <2>1. past' \in PastType
    BY <1>2 DEF NoPast, PastType, Grades
  <2> QED
    BY <1>2, <1>3, <1>9, <1>10, <1>14, <2>1 DEF Types
<1>16. JobsOk'
  <2>1. made <= MaxJobs
    BY <1>2, <1>4, <1>5
  <2> QED
    BY <1>11, <2>1 DEF JobsOk
<1>17. Named'
  <2>1. \A i \in DOMAIN related' : related'[i] \in DOMAIN jobs'
    BY <1>2, <1>10, <1>11
  <2> QED
    BY <1>14, <2>1 DEF Named
<1>18. Blank(doc)' /\ Blank(page.acts)'
  BY <1>9, <1>14 DEF Blank
<1>19. Earned(doc)' /\ Earned(page.acts)'
  <2>1. doc'["paper_watch"].status # "done"
    BY <1>9
  <2> QED
    BY <1>9, <1>14, <2>1 DEF Earned
<1>20. RowsHold'
  <2>1. RowsOk(rows)
    BY <1>12, <1>13
  <2>2. ASSUME related' # <<>>
        PROVE  \A i \in DOMAIN rows : rows[i].grade \notin PaperGrades
    <3>1. made = n /\ n > 0
      BY <1>2, <1>10, <2>2
    <3>2. \A i \in DOMAIN rows : rows[i].grade = "running"
      BY <1>4, <3>1, RunningIs DEF rows
    <3> QED
      BY <3>2 DEF PaperGrades
  <2> QED
    BY <1>14, <2>1, <2>2 DEF RowsHold
<1>21. past'.adopted # "page"
  BY <1>2 DEF NoPast
<1> QED
  BY <1>15, <1>16, <1>17, <1>18, <1>19, <1>20, <1>21 DEF IInv

\* A page that shows the run, or the one the queue opens.
Shows(p) ==
  /\ PageOk(p) /\ p.open = TRUE /\ p.related = related
  /\ Blank(p.acts) /\ Earned(p.acts)
  /\ RowsOk(p.rows)
  /\ p.related # <<>> =>
       \A i \in DOMAIN p.rows : p.rows[i].grade \in PaperGrades =>
         \E j \in DOMAIN jobs : jobs[j].grade \in PaperGrades

LEMMA OpenedShows ==
  ASSUME IInv
  PROVE  Shows(Opened) /\ (page.open => Shows(page))
<1>1. /\ PageOk(page) /\ doc \in ActsType /\ related \in Seq(Nat)
      /\ RowsOk(page.rows)
  BY DEF IInv, Types, RowsHold
<1> DEFINE polling == IF related = <<>> THEN "no" ELSE "yes"
<1>2. Opened = OpenPage(doc, related, page.rows, polling, page.radar)
  <2>1. page = [open |-> page.open, acts |-> page.acts, related |-> page.related,
                rows |-> page.rows, polling |-> page.polling, radar |-> page.radar]
    BY <1>1, PageFields
  <2>2. Opened = [page EXCEPT !.open = TRUE, !.acts = doc, !.related = related,
                    !.polling = polling]
    BY DEF Opened
  <2> HIDE DEF polling
  <2> QED
    BY <2>1, <2>2 DEF OpenPage
<1>3. polling \in {"no", "yes"} /\ page.radar \in Radars
  BY <1>1, PageFields
<1> HIDE DEF polling
<1>4. /\ PageOk(Opened) /\ Opened.open = TRUE /\ Opened.acts = doc
      /\ Opened.related = related /\ Opened.rows = page.rows
  BY <1>1, <1>2, <1>3 DEF OpenPage, PageOk
<1>5. \A i \in DOMAIN page.rows : related # <<>> /\ page.rows[i].grade \in PaperGrades =>
        \E j \in DOMAIN jobs : jobs[j].grade \in PaperGrades
  <2>1. CASE page.open
    BY <2>1 DEF IInv, Named, RowsHold
  <2>2. CASE ~page.open
    BY <2>2, NoRows DEF IInv, RowsHold
  <2> QED
    BY <2>1, <2>2
<1>6. Shows(Opened)
  BY <1>1, <1>4, <1>5 DEF Shows, IInv, Earned, Blank
<1>7. page.open => Shows(page)
  BY <1>1, <1>5 DEF Shows, IInv, Named
<1> QED
  BY <1>6, <1>7

LEMMA ValidatesHolds ==
  ASSUME IInv, NEW p, Shows(p), HasRoom(Cardinality(Runnable(a))), Validates(p)
  PROVE  IInv'
<1> DEFINE n == Cardinality(Runnable(a))
           started == Storing(doc, "backtest", StartedPatch)
<1>1. PICK made \in 0..n, stored \in BOOLEAN :
        /\ n > 0
        /\ stored => made = n
        /\ jobs' = jobs \o Running(a, made)
        /\ doc' = IF stored THEN started ELSE doc
        /\ related' = IF stored THEN [i \in 1..n |-> Len(jobs) + i] ELSE related
        /\ page' = [p EXCEPT !.acts = IF stored THEN doc' ELSE @,
                      !.related = IF stored THEN related' ELSE @,
                      !.rows = IF made = n THEN Running(a, n) ELSE @,
                      !.polling = IF stored THEN "yes" ELSE @]
        /\ UNCHANGED <<run, a, past>>
  BY DEF Validates, Storing
<1>2. /\ a \in AnalysisType /\ n \in Nat
  <2>1. a \in AnalysisType
    BY GoalAssumption, NoAnalysisIs DEF IInv, Types
  <2> QED
    BY <2>1, RunnableIs
<1>3. /\ RowsOk(jobs) /\ Len(jobs) \in Nat /\ DOMAIN jobs = 1..Len(jobs)
      /\ Len(jobs) + n <= MaxJobs /\ MaxJobs \in Nat
  BY GoalAssumption, RowsLen DEF IInv, JobsOk, HasRoom
<1>4. /\ PageOk(p) /\ p.open = TRUE /\ p.related = related
      /\ Blank(p.acts) /\ Earned(p.acts) /\ RowsOk(p.rows)
  BY DEF Shows
<1>5. /\ doc \in ActsType /\ Blank(doc) /\ Earned(doc) /\ related \in Seq(Nat)
      /\ \A i \in DOMAIN related : related[i] \in DOMAIN jobs
  BY DEF IInv, Types, Named
<1> DEFINE acts == IF stored THEN started ELSE p.acts
           rows == IF made = n THEN Running(a, n) ELSE p.rows
           polling == IF stored THEN "yes" ELSE p.polling
<1>6. page' = OpenPage(acts, related', rows, polling, p.radar)
  <2>1. p = [open |-> p.open, acts |-> p.acts, related |-> p.related,
             rows |-> p.rows, polling |-> p.polling, radar |-> p.radar]
    BY <1>4, PageFields
  <2>2. page' = [p EXCEPT !.acts = acts, !.related = related', !.rows = rows, !.polling = polling]
    BY <1>1, <1>4
  <2> HIDE DEF acts, rows, polling
  <2>3. page' = [open |-> p.open, acts |-> acts, related |-> related', rows |-> rows,
                 polling |-> polling, radar |-> p.radar]
    BY <2>1, <2>2
  <2> QED
    BY <1>4, <2>3 DEF OpenPage
<1> HIDE DEF n
<1>7. /\ started \in ActsType /\ Blank(started)
      /\ started["paper_watch"] = doc["paper_watch"]
      /\ started["sentiment_review"] = doc["sentiment_review"]
  <2>1. "backtest" \in ActionIds /\ "paper_watch" \in ActionIds \ {"backtest"}
        /\ "sentiment_review" \in ActionIds \ {"backtest"}
    BY DEF ActionIds
  <2>2. StartedPatch \in ActionType /\ StartedPatch.status # "none"
    BY PatchesAre
  <2> QED
    BY <1>5, <2>1, <2>2, Stored
<1> HIDE DEF started
<1>8. Earned(started)
  BY <1>5, <1>7 DEF Earned
<1>9. /\ acts \in ActsType /\ Blank(acts) /\ Earned(acts)
      /\ doc' \in ActsType /\ Blank(doc') /\ (doc' = doc \/ doc' = started)
  BY <1>1, <1>4, <1>5, <1>7, <1>8, PageFields
<1>10. related' \in Seq(Nat)
  <2>1. [i \in 1..n |-> Len(jobs) + i] \in [1..n -> Nat]
    BY <1>2, <1>3
  <2>2. [i \in 1..n |-> Len(jobs) + i] \in Seq(Nat)
    BY <1>2, <2>1, SeqDef
  <2> QED
    BY <1>1, <1>5, <2>2
<1>11. /\ RowsOk(Running(a, made)) /\ Len(Running(a, made)) = made
       /\ DOMAIN Running(a, made) = 1..made
       /\ \A i \in 1..made : Running(a, made)[i].grade = "running"
  BY <1>2, RunningIs
<1>12. /\ RowsOk(jobs') /\ Len(jobs') = Len(jobs) + made
       /\ \A j \in 1..Len(jobs) : jobs'[j] = jobs[j]
       /\ \A j \in DOMAIN jobs' : jobs'[j].grade = "running" \/ (j \in DOMAIN jobs /\ jobs'[j] = jobs[j])
  <2> DEFINE t == Running(a, made)
             u == jobs \o t
  <2>1. RowsOk(t) /\ Len(t) = made /\ \A k \in DOMAIN t : t[k].grade = "running"
    BY <1>11
  <2> HIDE DEF t
  <2>2. /\ RowsOk(u) /\ Len(u) = Len(jobs) + Len(t)
        /\ \A i \in 1..Len(jobs) : u[i] = jobs[i]
        /\ \A i \in DOMAIN u : \/ i \in DOMAIN jobs /\ u[i] = jobs[i]
                             \/ \E k \in DOMAIN t : u[i] = t[k]
    BY <1>3, <2>1, RowsConcat
  <2> HIDE DEF u
  <2>3. jobs' = u
    BY <1>1 DEF t, u
  <2> QED
    BY <2>1, <2>2, <2>3
<1>13. DOMAIN jobs' = 1..Len(jobs) + made
  BY <1>12, RowsLen
<1>14. rows = p.rows \/ (made = n /\ RowsOk(rows) /\ \A i \in DOMAIN rows : rows[i].grade = "running")
  BY <1>2, RunningIs DEF rows
<1>15. /\ polling \in {"no", "yes"} /\ p.radar \in Radars
  BY <1>4, PageFields DEF polling
<1> HIDE DEF acts, polling
<1>16. /\ PageOk(page') /\ page'.open = TRUE /\ page'.acts = acts /\ page'.related = related'
       /\ page'.rows = rows
  <2> HIDE DEF rows
  <2> QED
    BY <1>6, <1>9, <1>10, <1>15 DEF OpenPage, PageOk
<1>17. Types'
  BY <1>1, <1>9, <1>10, <1>16 DEF IInv, Types
<1>18. JobsOk'
  <2>1. Len(jobs') <= MaxJobs
    BY <1>2, <1>3, <1>12
  <2>2. \A j \in DOMAIN jobs' : jobs'[j].grade \in Outcomes \cup {"running"}
    BY <1>12 DEF IInv, JobsOk
  <2> QED
    BY <1>12, <2>1, <2>2 DEF JobsOk
<1>19. Named'
  <2>1. ASSUME NEW i \in DOMAIN related'
        PROVE  related'[i] \in DOMAIN jobs'
    <3>1. CASE stored
      BY <1>1, <1>2, <1>3, <1>13, <3>1
    <3>2. CASE ~stored
      BY <1>1, <1>3, <1>5, <1>13, <3>2
    <3> QED
      BY <3>1, <3>2
  <2> QED
    BY <1>16, <2>1 DEF Named
<1>20. Blank(doc)' /\ Blank(page.acts)'
  BY <1>9, <1>16 DEF Blank
<1>21. Earned(doc)' /\ Earned(page.acts)'
  BY <1>1, <1>5, <1>8, <1>9, <1>16 DEF Earned
<1>22. RowsHold'
  <2>1. RowsOk(rows)
    BY <1>4, <1>14
  <2>2. ASSUME related' # <<>>, NEW i \in DOMAIN rows, rows[i].grade \in PaperGrades
        PROVE  \E j \in DOMAIN jobs' : jobs'[j].grade \in PaperGrades
    <3>1. rows = p.rows /\ made # n
      BY <1>2, <1>14, <2>2, RunningIs DEF rows, PaperGrades
    <3>2. related # <<>>
      BY <1>1, <2>2, <3>1
    <3>3. PICK j \in DOMAIN jobs : jobs[j].grade \in PaperGrades
      BY <1>4, <2>2, <3>1, <3>2 DEF Shows
    <3>4. j \in DOMAIN jobs' /\ jobs'[j] = jobs[j]
      BY <1>3, <1>12, <1>13
    <3> QED
      BY <3>3, <3>4
  <2> QED
    BY <1>16, <2>1, <2>2 DEF RowsHold
<1>23. (past.adopted = "page" => past.grade \in PaperGrades)'
  BY <1>1 DEF IInv
<1> QED
  BY <1>17, <1>18, <1>19, <1>20, <1>21, <1>22, <1>23 DEF IInv

LEMMA RunBacktestHolds ==
  ASSUME IInv, RunBacktest
  PROVE  IInv'
<1> DEFINE started == Storing(doc, "backtest", StartedPatch)
<1>1. PICK i \in Tradable(a), stored \in BOOLEAN :
        /\ jobs' = Append(jobs, Row(a.drafts[i].sid, "running"))
        /\ doc' = IF stored THEN started ELSE doc
        /\ related' = IF stored THEN <<Len(jobs) + 1>> ELSE related
  BY DEF RunBacktest, Storing
<1>2. HasRoom(1) /\ page' \in Left /\ run' = run /\ a' = a /\ past' = past
  BY DEF RunBacktest
<1>3. /\ PageOk(page') /\ Blank(page'.acts) /\ Earned(page.acts)'
      /\ page'.open = FALSE /\ page'.related = <<>> /\ RowsHold'
  BY <1>2, LeftHolds
<1>4. /\ RowsOk(jobs) /\ Len(jobs) \in Nat /\ DOMAIN jobs = 1..Len(jobs)
      /\ doc \in ActsType /\ Blank(doc) /\ Earned(doc) /\ related \in Seq(Nat)
      /\ \A k \in DOMAIN related : related[k] \in DOMAIN jobs
  BY RowsLen DEF IInv, Types, JobsOk, Named
<1>5. /\ RowsOk(jobs') /\ Len(jobs') = Len(jobs) + 1
      /\ \A j \in 1..Len(jobs) : jobs'[j] = jobs[j]
      /\ jobs'[Len(jobs) + 1].grade = "running"
  <2> DEFINE e == Row(a.drafts[i].sid, "running")
             u == Append(jobs, e)
  <2>1. /\ RowsOk(u) /\ Len(u) = Len(jobs) + 1
        /\ \A j \in 1..Len(jobs) : u[j] = jobs[j]
        /\ u[Len(jobs) + 1] = e
    BY <1>4, RowsAppend DEF Grades
  <2>2. e.grade = "running"
    BY DEF Row
  <2> HIDE DEF u, e
  <2>3. jobs' = u
    BY <1>1 DEF u, e
  <2> QED
    BY <2>1, <2>2, <2>3
<1>6. DOMAIN jobs' = 1..Len(jobs) + 1
  BY <1>5, RowsLen
<1>7. /\ started \in ActsType /\ Blank(started)
      /\ started["paper_watch"] = doc["paper_watch"]
      /\ started["sentiment_review"] = doc["sentiment_review"]
  <2>1. "backtest" \in ActionIds /\ "paper_watch" \in ActionIds \ {"backtest"}
        /\ "sentiment_review" \in ActionIds \ {"backtest"}
    BY DEF ActionIds
  <2>2. StartedPatch \in ActionType /\ StartedPatch.status # "none"
    BY PatchesAre
  <2> QED
    BY <1>4, <2>1, <2>2, Stored
<1> HIDE DEF started
<1>8. doc' \in ActsType /\ Blank(doc') /\ Earned(doc)'
  <2>1. doc' = doc \/ doc' = started
    BY <1>1
  <2> QED
    BY <1>2, <1>4, <1>7, <2>1 DEF Earned
<1>9. /\ related' \in Seq(Nat)
      /\ \A k \in DOMAIN related' : related'[k] \in DOMAIN jobs'
  <2>1. CASE stored
    <3>1. related' = <<Len(jobs) + 1>>
      BY <1>1, <2>1
    <3>2. <<Len(jobs) + 1>> = [k \in 1..1 |-> Len(jobs) + 1]
      OBVIOUS
    <3>3. [k \in 1..1 |-> Len(jobs) + 1] \in Seq(Nat)
      BY <1>4, SeqDef
    <3> QED
      BY <1>4, <1>6, <3>1, <3>2, <3>3
  <2>2. CASE ~stored
    BY <1>1, <1>4, <1>6, <2>2
  <2> QED
    BY <2>1, <2>2
<1>10. Types'
  BY <1>2, <1>3, <1>8, <1>9 DEF IInv, Types
<1>11. JobsOk'
  <2>1. Len(jobs') <= MaxJobs
    BY <1>2, <1>5 DEF HasRoom
  <2>2. \A j \in DOMAIN jobs' : jobs'[j].grade \in Outcomes \cup {"running"}
    BY <1>4, <1>5, <1>6 DEF IInv, JobsOk
  <2> QED
    BY <1>5, <2>1, <2>2 DEF JobsOk
<1>12. Named'
  BY <1>3, <1>9 DEF Named
<1>13. (past.adopted = "page" => past.grade \in PaperGrades)'
  BY <1>2 DEF IInv
<1> QED
  BY <1>3, <1>8, <1>10, <1>11, <1>12, <1>13 DEF IInv, Blank

LEMMA QuantFinishesHolds ==
  ASSUME IInv, NEW j \in DOMAIN jobs, QuantFinishes(j)
  PROVE  IInv'
<1>1. PICK grade \in Outcomes : jobs' = [jobs EXCEPT ![j].grade = grade]
  BY DEF QuantFinishes
<1>2. jobs[j].grade = "running" /\ UNCHANGED <<run, a, doc, related, page, past>>
  BY DEF QuantFinishes
<1>3. grade \in Grades
  BY GoalAssumption DEF Finished
<1>4. RowsOk(jobs)
  BY DEF IInv, JobsOk
<1>5. /\ RowsOk(jobs') /\ Len(jobs') = Len(jobs) /\ DOMAIN jobs' = DOMAIN jobs
      /\ \A i \in DOMAIN jobs : i # j => jobs'[i] = jobs[i]
      /\ jobs'[j].grade = grade
  <2> DEFINE u == [jobs EXCEPT ![j].grade = grade]
  <2>1. /\ RowsOk(u) /\ Len(u) = Len(jobs) /\ DOMAIN u = DOMAIN jobs
        /\ \A i \in DOMAIN jobs : i # j => u[i] = jobs[i]
        /\ u[j].grade = grade
    BY <1>3, <1>4, RowsRegrade
  <2> HIDE DEF u
  <2>2. jobs' = u
    BY <1>1 DEF u
  <2> QED
    BY <2>1, <2>2
<1>6. JobsOk'
  BY <1>5 DEF IInv, JobsOk
<1>7. RowsHold'
  <2>1. \A i \in DOMAIN jobs : jobs[i].grade \in PaperGrades => jobs'[i].grade \in PaperGrades
    BY <1>2, <1>5 DEF PaperGrades
  <2> QED
    BY <1>2, <1>5, <2>1 DEF IInv, RowsHold
<1>8. Types' /\ Named'
  BY <1>2, <1>5 DEF IInv, Types, Named
<1> QED
  BY <1>2, <1>6, <1>7, <1>8 DEF IInv, Earned, Blank

\* A step that leaves the run and its backtests alone and the page open on
\* it: it is enough to look at the page's rows and at the two sets of actions.
LEMMA SameRunHolds ==
  ASSUME IInv, UNCHANGED <<run, a, related, jobs>>,
         doc' \in ActsType, Blank(doc'), Earned(doc)',
         PageOk(page'), page'.related = IF page'.open THEN related ELSE <<>>,
         Blank(page'.acts), Earned(page.acts)', RowsHold',
         past' \in PastType, past'.adopted = "page" => past'.grade \in PaperGrades
  PROVE  IInv'
<1>1. Types'
  BY DEF IInv, Types
<1>2. JobsOk'
  BY DEF IInv, JobsOk
<1>3. Named'
  BY DEF IInv, Named
<1>4. Blank(doc)' /\ Blank(page.acts)'
  BY DEF Blank
<1> QED
  BY <1>1, <1>2, <1>3, <1>4 DEF IInv

\* What the page and the run are to a step that starts from IInv.
LEMMA Parts ==
  ASSUME IInv
  PROVE  /\ PageOk(page) /\ doc \in ActsType /\ Blank(doc) /\ Earned(doc)
         /\ Blank(page.acts) /\ Earned(page.acts) /\ RowsHold
         /\ related \in Seq(Nat) /\ past \in PastType
         /\ past.adopted = "page" => past.grade \in PaperGrades
         /\ page.related = IF page.open THEN related ELSE <<>>
  BY DEF IInv, Types, Named

LEMMA PollHolds ==
  ASSUME IInv, Poll
  PROVE  IInv'
<1> DEFINE rows == [i \in DOMAIN page.related |-> jobs[page.related[i]]]
           polling == IF SomeRunning(rows) THEN "yes" ELSE "no"
<1>1. /\ page.open
      /\ page' = [page EXCEPT !.rows = rows, !.polling = polling]
      /\ UNCHANGED <<run, a, doc, related, jobs, past>>
  BY DEF Poll
<1>2. /\ PageOk(page) /\ related \in Seq(Nat) /\ page.related = related
      /\ RowsOk(jobs) /\ \A i \in DOMAIN related : related[i] \in DOMAIN jobs
  BY <1>1, Parts DEF IInv, JobsOk, Named
<1>3. DOMAIN rows = DOMAIN related /\ \A i \in DOMAIN related : rows[i] = jobs[related[i]]
  BY <1>2
<1>4. RowsOk(rows)
  <2>1. Len(related) \in Nat /\ DOMAIN related = 1..Len(related)
    BY <1>2, LenProperties
  <2>2. rows \in [1..Len(related) -> Range(rows)]
    BY <1>3, <2>1 DEF Range
  <2>3. rows \in Seq(Range(rows))
    BY <2>1, <2>2, SeqDef
  <2> HIDE DEF rows
  <2> QED
    BY <1>2, <1>3, <2>3 DEF RowsOk
<1>5. polling \in {"no", "yes"}
  OBVIOUS
<1> HIDE DEF rows, polling
<1>6. /\ PageOk(page') /\ page'.open = page.open /\ page'.acts = page.acts
      /\ page'.related = page.related /\ page'.rows = rows
  <2>1. /\ page.open \in BOOLEAN /\ page.acts \in ActsType /\ page.related \in Seq(Nat)
        /\ page.radar \in Radars
        /\ page = [open |-> page.open, acts |-> page.acts, related |-> page.related,
                   rows |-> page.rows, polling |-> page.polling, radar |-> page.radar]
    BY <1>2, PageFields
  <2>2. page' = [open |-> page.open, acts |-> page.acts, related |-> page.related,
                 rows |-> rows, polling |-> polling, radar |-> page.radar]
    BY <1>1, <2>1
  <2> QED
    BY <1>5, <2>1, <2>2 DEF PageOk
<1>7. RowsHold'
  <2>1. ASSUME NEW i \in DOMAIN rows, rows[i].grade \in PaperGrades
        PROVE  \E j \in DOMAIN jobs : jobs[j].grade \in PaperGrades
    BY <1>2, <1>3, <2>1
  <2> QED
    BY <1>1, <1>4, <1>6, <2>1 DEF RowsHold
<1>8. Earned(doc)' /\ Earned(page.acts)'
  BY <1>1, <1>6, Parts DEF Earned
<1> QED
  BY <1>1, <1>6, <1>7, <1>8, Parts, SameRunHolds

LEMMA PollFailsHolds ==
  ASSUME IInv, PollFails
  PROVE  IInv'
<1>1. page' = [page EXCEPT !.polling = "no"] /\ UNCHANGED <<run, a, doc, related, jobs, past>>
  BY DEF PollFails
<1>2. /\ PageOk(page') /\ page'.open = page.open /\ page'.acts = page.acts
      /\ page'.related = page.related /\ page'.rows = page.rows
  <2>1. PageOk(page)
    BY Parts
  <2>2. page' = [open |-> page.open, acts |-> page.acts, related |-> page.related,
                 rows |-> page.rows, polling |-> "no", radar |-> page.radar]
    BY <1>1, <2>1, PageFields
  <2> QED
    BY <2>1, <2>2, PageFields DEF PageOk
<1>3. RowsHold' /\ Earned(doc)' /\ Earned(page.acts)'
  BY <1>1, <1>2, Parts DEF Earned, RowsHold
<1> QED
  BY <1>1, <1>2, <1>3, Parts, SameRunHolds

LEMMA ReloadHolds ==
  ASSUME IInv, Reload
  PROVE  IInv'
<1>1. page' \in Left /\ UNCHANGED <<run, a, doc, related, jobs, past>>
  BY DEF Reload
<1>2. Earned(doc)'
  BY <1>1, Parts DEF Earned
<1> QED
  BY <1>1, <1>2, Parts, LeftHolds, SameRunHolds

LEMMA OpenRunHolds ==
  ASSUME IInv, OpenRun
  PROVE  IInv'
<1>1. page' = Opened /\ UNCHANGED <<run, a, doc, related, jobs, past>>
  BY DEF OpenRun
<1>2. Shows(Opened)
  BY OpenedShows
<1>3. /\ PageOk(page') /\ page'.open = TRUE /\ page'.related = related /\ Blank(page'.acts)
  BY <1>1, <1>2 DEF Shows
<1>4. Earned(doc)' /\ Earned(page.acts)'
  BY <1>1, <1>2, Parts DEF Shows, Earned
<1>5. RowsHold'
  BY <1>1, <1>2 DEF Shows, RowsHold
<1> QED
  BY <1>1, <1>3, <1>4, <1>5, Parts, SameRunHolds

LEMMA SaveStrategyDraftHolds ==
  ASSUME IInv, SaveStrategyDraft
  PROVE  IInv'
<1> DEFINE saved == Storing(doc, "strategy", SavedPatch)
<1>1. /\ doc' = doc \/ doc' = saved
      /\ page' \in Left /\ UNCHANGED <<run, a, related, jobs, past>>
  BY DEF SaveStrategyDraft, Storing
<1>2. /\ saved \in ActsType /\ Blank(saved)
      /\ saved["paper_watch"] = doc["paper_watch"]
      /\ saved["sentiment_review"] = doc["sentiment_review"]
  <2>1. "strategy" \in ActionIds /\ "paper_watch" \in ActionIds \ {"strategy"}
        /\ "sentiment_review" \in ActionIds \ {"strategy"}
    BY DEF ActionIds
  <2>2. SavedPatch \in ActionType /\ SavedPatch.status # "none"
    BY PatchesAre
  <2> QED
    BY <2>1, <2>2, Parts, Stored
<1> HIDE DEF saved
<1>3. doc' \in ActsType /\ Blank(doc') /\ Earned(doc)'
  BY <1>1, <1>2, Parts DEF Earned
<1> QED
  BY <1>1, <1>3, Parts, LeftHolds, SameRunHolds

LEMMA AdoptFromBacktestPageHolds ==
  ASSUME IInv, AdoptFromBacktestPage
  PROVE  IInv'
<1> DEFINE next == Storing(doc, "paper_watch", BacktestPagePatch)
<1>1. /\ doc' = next /\ past' = [past EXCEPT !.adopted = "backtest_page"]
      /\ UNCHANGED <<run, a, related, jobs, page>>
  BY DEF AdoptFromBacktestPage, Storing
<1>2. /\ past' \in PastType /\ past'.adopted = "backtest_page" /\ past'.reviewed = past.reviewed
      /\ past'.felt = past.felt
  <2>1. past \in PastType
    BY Parts
  <2> QED
    BY <1>1, <2>1 DEF PastType
<1>3. /\ next \in ActsType /\ Blank(next)
      /\ next["paper_watch"] = BacktestPagePatch
      /\ next["sentiment_review"] = doc["sentiment_review"]
  <2>1. "paper_watch" \in ActionIds /\ "sentiment_review" \in ActionIds \ {"paper_watch"}
    BY DEF ActionIds
  <2>2. BacktestPagePatch \in ActionType /\ BacktestPagePatch.status # "none"
    BY PatchesAre
  <2> QED
    BY <2>1, <2>2, Parts, Stored
<1> HIDE DEF next
<1>4. Earned(doc)'
  BY <1>1, <1>2, <1>3, Parts, PatchesAre DEF Earned
<1>5. Earned(page.acts)' /\ RowsHold'
  BY <1>1, <1>2, Parts DEF Earned, RowsHold
<1>6. doc' \in ActsType /\ Blank(doc')
  BY <1>1, <1>3
<1>7. /\ PageOk(page') /\ page'.related = (IF page'.open THEN related ELSE <<>>) /\ Blank(page'.acts)
  BY <1>1, Parts
<1>8. past'.adopted = "page" => past'.grade \in PaperGrades
  BY <1>2
<1>9. past' \in PastType
  BY <1>2
<1>10. UNCHANGED <<run, a, related, jobs>>
  BY <1>1
<1> QED
  BY <1>4, <1>5, <1>6, <1>7, <1>8, <1>9, <1>10, SameRunHolds

\* One action of the strategy stored over those the gateway has.
LEMMA StrategyStored ==
  ASSUME IInv, NEW act \in ActionType, act.status # "none"
  PROVE  LET acts == Storing(doc, "strategy", act)
         IN /\ acts \in ActsType /\ Blank(acts) /\ Earned(acts)
            /\ acts["paper_watch"] = doc["paper_watch"]
            /\ acts["sentiment_review"] = doc["sentiment_review"]
<1> DEFINE acts == Storing(doc, "strategy", act)
<1>1. "strategy" \in ActionIds /\ "paper_watch" \in ActionIds \ {"strategy"}
      /\ "sentiment_review" \in ActionIds \ {"strategy"}
  BY DEF ActionIds
<1>2. /\ acts \in ActsType /\ Blank(acts)
      /\ acts["paper_watch"] = doc["paper_watch"]
      /\ acts["sentiment_review"] = doc["sentiment_review"]
  BY <1>1, Parts, Stored
<1> HIDE DEF acts
<1>3. Earned(acts)
  BY <1>2, Parts DEF Earned
<1> QED
  BY <1>2, <1>3 DEF acts

\* The page with other actions.
LEMMA PageActs ==
  ASSUME IInv, NEW acts \in ActsType, page' = [page EXCEPT !.acts = acts]
  PROVE  /\ PageOk(page') /\ page'.open = page.open /\ page'.acts = acts
         /\ page'.related = page.related /\ page'.rows = page.rows
<1>1. PageOk(page)
  BY Parts
<1>2. page' = [open |-> page.open, acts |-> acts, related |-> page.related,
               rows |-> page.rows, polling |-> page.polling, radar |-> page.radar]
  BY <1>1, PageFields
<1> QED
  BY <1>1, <1>2, PageFields DEF PageOk

\* The adoption by one of the page's buttons: the candidate is a row the page
\* shows, and its grade is above the paper threshold.
LEMMA AdoptsHolds ==
  ASSUME IInv, page.open, HasCandidate(a, Rows),
         NEW acts \in ActsType, Blank(acts), acts["sentiment_review"] = doc["sentiment_review"],
         Adopts(acts), UNCHANGED <<run, a, related, jobs>>
  PROVE  IInv'
<1> DEFINE next == Storing(acts, "paper_watch", PaperPatch)
<1>1. /\ doc' = next /\ page' = [page EXCEPT !.acts = doc']
      /\ past' = [past EXCEPT !.adopted = "page", !.grade = PickedGrade]
  BY DEF Adopts, Storing
<1>2. PickedGrade \in PaperGrades
  <2>1. RowsOk(Rows)
    BY NoRows, Parts DEF Rows, RowsHold
  <2> QED
    BY <2>1, CandidateIs DEF PickedGrade
<1>3. /\ past' \in PastType /\ past'.adopted = "page" /\ past'.grade \in PaperGrades
      /\ past'.reviewed = past.reviewed /\ past'.felt = past.felt
  <2>1. past \in PastType
    BY Parts
  <2>2. PickedGrade \in Grades
    BY <1>2 DEF PaperGrades, Grades
  <2> QED
    BY <1>1, <1>2, <2>1, <2>2 DEF PastType
<1>4. /\ next \in ActsType /\ Blank(next)
      /\ next["paper_watch"] = PaperPatch
      /\ next["sentiment_review"] = doc["sentiment_review"]
  <2>1. "paper_watch" \in ActionIds /\ "sentiment_review" \in ActionIds \ {"paper_watch"}
    BY DEF ActionIds
  <2>2. PaperPatch \in ActionType /\ PaperPatch.status # "none"
    BY PatchesAre
  <2> QED
    BY <2>1, <2>2, Stored
<1> HIDE DEF next
<1>5. /\ PageOk(page') /\ page'.open = page.open /\ page'.acts = doc'
      /\ page'.related = page.related /\ page'.rows = page.rows
  BY <1>1, <1>4, PageActs
<1>6. Earned(doc)' /\ Earned(page.acts)'
  BY <1>1, <1>3, <1>4, <1>5, Parts, PatchesAre DEF Earned
<1>7. RowsHold'
  BY <1>5, Parts DEF RowsHold
<1>8. doc' \in ActsType /\ Blank(doc') /\ Blank(page'.acts)
  BY <1>1, <1>4, <1>5
<1>9. page'.related = IF page'.open THEN related ELSE <<>>
  BY <1>5, Parts
<1> QED
  BY <1>3, <1>5, <1>6, <1>7, <1>8, <1>9, SameRunHolds

LEMMA AcceptHolds ==
  ASSUME IInv, AcceptPaperCandidate
  PROVE  IInv'
<1> DEFINE act == Action("ready", SignalsNote, TRUE)
           ready == Storing(doc, "strategy", act)
<1>1. /\ page.open /\ HasCandidate(a, Rows) /\ UNCHANGED <<run, a, related, jobs>>
      /\ Adopts(ready) \/ (doc' = ready /\ UNCHANGED <<page, past>>)
  BY DEF AcceptPaperCandidate, Storing
<1>2. /\ ready \in ActsType /\ Blank(ready) /\ Earned(ready)
      /\ ready["paper_watch"] = doc["paper_watch"]
      /\ ready["sentiment_review"] = doc["sentiment_review"]
  <2>1. act \in ActionType /\ act.status # "none"
    BY PatchesAre
  <2> HIDE DEF act
  <2> QED
    BY <2>1, StrategyStored
<1> HIDE DEF ready
<1>3. CASE Adopts(ready)
  BY <1>1, <1>2, <1>3, AdoptsHolds
<1>4. CASE doc' = ready /\ UNCHANGED <<page, past>>
  <2>1. Earned(doc)' /\ Earned(page.acts)' /\ RowsHold'
    BY <1>1, <1>2, <1>4, Parts DEF Earned, RowsHold
  <2> QED
    BY <1>1, <1>2, <1>4, <2>1, Parts, SameRunHolds
<1> QED
  BY <1>1, <1>3, <1>4

LEMMA SaveAndAcceptHolds ==
  ASSUME IInv, SaveAndAcceptPaperCandidate
  PROVE  IInv'
<1> DEFINE saved == Storing(doc, "strategy", SavedPatch)
<1>1. /\ page.open /\ HasCandidate(a, Rows) /\ UNCHANGED <<run, a, related, jobs>>
      /\ \/ Adopts(saved)
         \/ doc' = saved /\ page' = [page EXCEPT !.acts = saved] /\ UNCHANGED past
  BY DEF SaveAndAcceptPaperCandidate, Storing
<1>2. /\ saved \in ActsType /\ Blank(saved) /\ Earned(saved)
      /\ saved["paper_watch"] = doc["paper_watch"]
      /\ saved["sentiment_review"] = doc["sentiment_review"]
  <2>1. SavedPatch \in ActionType /\ SavedPatch.status # "none"
    BY PatchesAre
  <2> QED
    BY <2>1, StrategyStored
<1> HIDE DEF saved
<1>3. CASE Adopts(saved)
  BY <1>1, <1>2, <1>3, AdoptsHolds
<1>4. CASE doc' = saved /\ page' = [page EXCEPT !.acts = saved] /\ UNCHANGED past
  <2>1. /\ PageOk(page') /\ page'.open = page.open /\ page'.acts = saved
        /\ page'.related = page.related /\ page'.rows = page.rows
    BY <1>2, <1>4, PageActs
  <2>2. Earned(doc)' /\ Earned(page.acts)' /\ RowsHold'
    BY <1>1, <1>2, <1>4, <2>1, Parts DEF Earned, RowsHold
  <2>3. doc' \in ActsType /\ Blank(doc') /\ Blank(page'.acts)
    BY <1>2, <1>4, <2>1
  <2>4. page'.related = IF page'.open THEN related ELSE <<>>
    BY <2>1, Parts
  <2> QED
    BY <1>1, <1>4, <2>1, <2>2, <2>3, <2>4, Parts, SameRunHolds
<1> QED
  BY <1>1, <1>3, <1>4

LEMMA UpdateQueueActionHolds ==
  ASSUME IInv, NEW id \in ActionIds, UpdateQueueAction(id)
  PROVE  IInv'
<1> DEFINE act == Overlay(id, page.acts[id])
           next == Transition(id, act)
           acts == Storing(doc, id, next)
<1>1. /\ page.open /\ Present(act) /\ CanTransition(id, act)
      /\ doc' = acts /\ page' = [page EXCEPT !.acts = doc']
      /\ past' = [past EXCEPT
           !.reviewed = @ \/ (id = "paper_watch" /\ next.status = "done"),
           !.felt     = @ \/ (id = "sentiment_review" /\ next.status = "done")]
      /\ UNCHANGED <<run, a, related, jobs>>
  BY DEF UpdateQueueAction, Storing
<1>2. /\ next \in ActionType /\ next.status \in {"manual", "done"}
      /\ id = "paper_watch" => page.acts[id].status \notin {"none", "blocked"}
  <2>1. page.acts[id] \in ActionType /\ (page.acts[id].status = "none" => page.acts[id] = Missing)
    BY Parts, PageFields DEF Blank, ActsType
  <2> QED
    BY <1>1, <2>1, TransitionIs
<1> HIDE DEF next
<1>3. /\ past' \in PastType
      /\ past'.adopted = past.adopted /\ past'.grade = past.grade
      /\ past.reviewed => past'.reviewed
      /\ past.felt => past'.felt
      /\ id = "paper_watch" /\ next.status = "done" => past'.reviewed
      /\ id = "sentiment_review" /\ next.status = "done" => past'.felt
  <2> DEFINE reviewed == past.reviewed \/ (id = "paper_watch" /\ next.status = "done")
             felt == past.felt \/ (id = "sentiment_review" /\ next.status = "done")
  <2>1. past \in PastType
    BY Parts
  <2>2. past' = [past EXCEPT !.reviewed = reviewed, !.felt = felt]
    BY <1>1
  <2>3. reviewed \in BOOLEAN /\ felt \in BOOLEAN
    OBVIOUS
  <2> HIDE DEF reviewed, felt
  <2>4. /\ past' \in PastType
        /\ past'.adopted = past.adopted /\ past'.grade = past.grade
        /\ past'.reviewed = reviewed /\ past'.felt = felt
    BY <2>1, <2>2, <2>3 DEF PastType
  <2> QED
    BY <2>4 DEF reviewed, felt
<1>4. /\ acts \in ActsType /\ Blank(acts) /\ acts[id] = next
      /\ \A other \in ActionIds \ {id} : acts[other] = doc[other]
  <2>1. next.status # "none"
    BY <1>2
  <2> QED
    BY <1>2, <2>1, Parts, Stored
<1> HIDE DEF acts
<1>5. /\ PageOk(page') /\ page'.open = page.open /\ page'.acts = doc'
      /\ page'.related = page.related /\ page'.rows = page.rows
  BY <1>1, <1>4, PageActs
<1>6. Earned(doc)'
  <2>1. /\ acts["paper_watch"].status \notin {"none", "blocked"} => past.adopted # "no"
        /\ acts["paper_watch"].status = "done" => past'.reviewed
    <3>1. CASE id = "paper_watch"
      BY <1>2, <1>3, <1>4, <3>1, Parts DEF Earned
    <3>2. CASE id # "paper_watch"
      <4>1. acts["paper_watch"] = doc["paper_watch"]
        BY <1>4, <3>2 DEF ActionIds
      <4> QED
        BY <1>3, <4>1, Parts DEF Earned
    <3> QED
      BY <3>1, <3>2
  <2>2. ReviewDone(acts["sentiment_review"]) => past'.felt
    <3>1. CASE id = "sentiment_review"
      BY <1>3, <1>4, <3>1 DEF ReviewDone
    <3>2. CASE id # "sentiment_review"
      <4>1. acts["sentiment_review"] = doc["sentiment_review"]
        BY <1>4, <3>2 DEF ActionIds
      <4> QED
        BY <1>3, <4>1, Parts DEF Earned
    <3> QED
      BY <3>1, <3>2
  <2> QED
    BY <1>1, <1>3, <2>1, <2>2 DEF Earned
<1>7. Earned(page.acts)' /\ RowsHold'
  BY <1>1, <1>5, <1>6, Parts DEF Earned, RowsHold
<1>8. doc' \in ActsType /\ Blank(doc') /\ Blank(page'.acts)
  BY <1>1, <1>4, <1>5
<1>9. page'.related = IF page'.open THEN related ELSE <<>>
  BY <1>5, Parts
<1>10. past'.adopted = "page" => past'.grade \in PaperGrades
  BY <1>3, Parts
<1> QED
  BY <1>1, <1>3, <1>5, <1>6, <1>7, <1>8, <1>9, <1>10, SameRunHolds

(***************************************************************************)
(* The invariant and what follows                                          *)
(***************************************************************************)
LEMMA NextHolds ==
  ASSUME IInv, Next
  PROVE  IInv'
<1>1. CASE AnalyzeAndValidate
  BY <1>1, NewRunHolds DEF AnalyzeAndValidate
<1>2. CASE AnalyzeOnly
  BY <1>2, NewRunHolds DEF AnalyzeOnly
<1>3. CASE Scan
  BY <1>3, NewRunHolds DEF Scan
<1>4. CASE RefreshRun
  BY <1>4, NewRunHolds DEF RefreshRun
<1>5. CASE AutoScan
  BY <1>5, NewRunHolds DEF AutoScan
<1>6. CASE RunAllBacktests
  BY <1>6, OpenedShows, ValidatesHolds DEF RunAllBacktests
<1>7. CASE ValidateRun
  BY <1>7, OpenedShows, ValidatesHolds DEF ValidateRun
<1>8. CASE RunBacktest
  BY <1>8, RunBacktestHolds
<1>9. CASE \E j \in DOMAIN jobs : QuantFinishes(j)
  BY <1>9, QuantFinishesHolds
<1>10. CASE Poll
  BY <1>10, PollHolds
<1>11. CASE PollFails
  BY <1>11, PollFailsHolds
<1>12. CASE AcceptPaperCandidate
  BY <1>12, AcceptHolds
<1>13. CASE SaveAndAcceptPaperCandidate
  BY <1>13, SaveAndAcceptHolds
<1>14. CASE SaveStrategyDraft
  BY <1>14, SaveStrategyDraftHolds
<1>15. CASE AdoptFromBacktestPage
  BY <1>15, AdoptFromBacktestPageHolds
<1>16. CASE \E id \in Closed \ Unneeded : UpdateQueueAction(id)
  <2>1. Closed \subseteq ActionIds
    BY GoalAssumption DEF ManualIds, ActionIds
  <2> QED
    BY <1>16, <2>1, UpdateQueueActionHolds
<1>17. CASE OpenRun
  BY <1>17, OpenRunHolds
<1>18. CASE Reload
  BY <1>18, ReloadHolds
<1> QED
  BY <1>1, <1>2, <1>3, <1>4, <1>5, <1>6, <1>7, <1>8, <1>9, <1>10, <1>11, <1>12, <1>13, <1>14,
     <1>15, <1>16, <1>17, <1>18 DEF Next

\* Whatever a person presses, whichever request fails, and whatever the other
\* tab does: the page's copy of the run keeps to what was earned.
THEOREM Invariant == Spec => []IInv
<1>1. Init => IInv
  BY InitHolds
<1>2. IInv /\ [Next]_vars => IInv'
  <2> SUFFICES ASSUME IInv, [Next]_vars
               PROVE  IInv'
    OBVIOUS
  <2>1. CASE Next
    BY <2>1, NextHolds
  <2>2. CASE UNCHANGED vars
    BY <2>2 DEF vars, IInv, Types, JobsOk, Named, Blank, Earned, RowsHold
  <2> QED
    BY <2>1, <2>2
<1> QED
  BY <1>1, <1>2, PTL DEF Spec

\* Every variable stays in its type.
THEOREM TypeCorrect == Spec => []TypeOK
<1>1. IInv => TypeOK
  <2> SUFFICES ASSUME IInv
               PROVE  TypeOK
    OBVIOUS
  <2>1. \A id \in ActionIds : doc[id].status \in Statuses \cup {"none"}
    BY Parts DEF ActsType, ActionType
  <2>2. \A id \in ActionIds : page.acts[id].status \in Statuses \cup {"none"}
    BY Parts, PageFields DEF ActsType, ActionType
  <2>3. ToSet(related) \cup ToSet(page.related) \subseteq DOMAIN jobs
    <3>1. \A i \in DOMAIN related : related[i] \in DOMAIN jobs
      BY DEF IInv, Named
    <3>2. \A i \in DOMAIN page.related : page.related[i] \in DOMAIN jobs
      BY <3>1, NoRows, Parts
    <3> QED
      BY <3>1, <3>2 DEF ToSet
  <2>4. page.polling \in {"no", "yes"} /\ page.radar \in Radars
    BY Parts, PageFields
  <2> QED
    BY <2>1, <2>2, <2>3, <2>4 DEF TypeOK, IInv, Types, JobsOk
<1> QED
  BY <1>1, Invariant, PTL

\* No paper watch is followed, and none closed, before a strategy was adopted.
THEOREM AdoptionComesFirst == Spec => []ReviewFollowsAdoption
<1>1. IInv => ReviewFollowsAdoption
  BY Parts DEF ReviewFollowsAdoption, Earned
<1> QED
  BY <1>1, Invariant, PTL

\* What the page's buttons adopt has a backtest above the paper threshold.
THEOREM AdoptionsAreProven == Spec => []AdoptionIsProven
<1>1. IInv => AdoptionIsProven
  BY Parts DEF AdoptionIsProven
<1> QED
  BY <1>1, Invariant, PTL

\* A panel shows the first of its lines whose condition holds.
Table(t, n) == n \in Nat \ {0} /\ t = [i \in 1..n |-> t[i]] /\ t[n][1]
IsShown(t, i) ==
  /\ Panel(t) = [stage |-> t[i][2], offer |-> t[i][3]]
  /\ t[i][1]
  /\ \A m \in 1..(i - 1) : ~t[m][1]

LEMMA FirstLine ==
  ASSUME NEW t, NEW n, Table(t, n)
  PROVE  \E i \in 1..n : IsShown(t, i)
<1>0. n \in Nat \ {0} /\ DOMAIN t = 1..n /\ t[n][1]
  BY DEF Table
<1> DEFINE S == {k \in 1..n : t[k][1]}
           first(k) == t[k][1] /\ \A m \in 1..(k - 1) : ~t[m][1]
           i == CHOOSE k \in DOMAIN t : first(k)
<1>1. S \subseteq Nat /\ S # {}
  BY <1>0
<1>2. PICK k \in S : \A m \in S : k <= m
  BY <1>1, Least
<1>3. \A m \in 1..(k - 1) : m \in 1..n /\ m \notin S
  BY <1>0, <1>2
<1>4. k \in DOMAIN t /\ first(k)
  BY <1>0, <1>2, <1>3
<1> HIDE DEF first
<1>5. i \in DOMAIN t /\ first(i)
  BY <1>4
<1>6. Panel(t) = [stage |-> t[i][2], offer |-> t[i][3]]
  BY DEF Panel, first
<1> HIDE DEF i
<1> QED
  BY <1>0, <1>5, <1>6 DEF first, IsShown

\* The parts of the view an open page shows its panels.
LEMMA ViewIs ==
  ASSUME page.open
  PROVE  /\ View(FALSE).ready = Readiness(a, page.acts, Rows, Accounts)
         /\ View(FALSE).a = a /\ View(FALSE).acts = page.acts /\ View(FALSE).rows = Rows
  BY DEF View, Viewed

\* The panel of readiness says testnet_ready on its last line alone.
LEMMA ReadyMeans ==
  ASSUME NEW x \in AnalysisType, NEW acts, NEW rows, NEW accounts,
         Readiness(x, acts, rows, accounts).stage = "testnet_ready"
  PROVE  /\ HasCandidate(x, rows) /\ ~NeedsReview(x, acts)
         /\ PaperDone(acts["paper_watch"])
<1> DEFINE paper == acts["paper_watch"]
           none == ~HasCandidate(x, rows)
           open == ~PaperDone(paper)
           t == <<
       <<~x.made,                         "not_started",         "scan_today">>,
       <<DataGap(x),                      "data_gap",            "rescan_today">>,
       <<none /\ SomeRunning(rows), "validating", "run_all_backtests">>,
       <<none,                            "validation_needed",   "run_all_backtests">>,
       <<NeedsReview(x, acts),            "sentiment_review",    "open_link">>,
       <<x.halted,                        "trading_halted",      "open_link">>,
       <<~x.limits,                       "risk_limits_blocked", "open_link">>,
       <<~HasAccount(x, accounts),        "account_blocked",     "open_link">>,
       <<~Present(paper),                 "paper_ready",         "accept_paper_candidate">>,
       <<open,                            "paper_watch",         "open_link">>,
       <<TRUE,                            "testnet_ready",       "open_link">> >>
<1>1. Readiness(x, acts, rows, accounts) = Panel(t)
  BY DEF Readiness
<1>2. /\ t = [i \in 1..11 |-> t[i]] /\ t[11][1]
      /\ \A n \in 1..11 : t[n][2] = "testnet_ready" => n = 11
  OBVIOUS
<1>3. /\ t[4] = <<none, "validation_needed", "run_all_backtests">>
      /\ t[5] = <<NeedsReview(x, acts), "sentiment_review", "open_link">>
      /\ t[10] = <<open, "paper_watch", "open_link">>
  OBVIOUS
<1> HIDE DEF t, none, open
<1>4. Table(t, 11)
  BY <1>2 DEF Table
<1>5. PICK i \in 1..11 : IsShown(t, i)
  BY <1>4, FirstLine
<1>6. i = 11
  BY <1>1, <1>2, <1>5 DEF IsShown
<1>7. ~t[4][1] /\ ~t[5][1] /\ ~t[10][1]
  BY <1>5, <1>6 DEF IsShown
<1>8. ~none /\ ~NeedsReview(x, acts) /\ ~open
  BY <1>3, <1>7
<1> QED
  BY <1>8 DEF none, open

\* A page that says the run is ready for the testnet says so of a run that was
\* adopted and reviewed, whose mood was reviewed or calm, and that has a
\* backtest above the paper threshold.
THEOREM ReadinessIsEarned == Spec => []TestnetEarned
<1>1. IInv => TestnetEarned
  <2> SUFFICES ASSUME IInv, page.open, Ready(View(FALSE)).stage = "testnet_ready"
               PROVE  /\ past.adopted # "no" /\ past.reviewed
                      /\ a.mood # "balanced" => past.felt
                      /\ \E j \in DOMAIN jobs : jobs[j].grade \in PaperGrades
    BY DEF TestnetEarned
  <2>1. a \in AnalysisType
    BY GoalAssumption, NoAnalysisIs DEF IInv, Types
  <2>2. Readiness(a, page.acts, Rows, Accounts).stage = "testnet_ready"
    BY ViewIs DEF Ready
  <2>3. /\ HasCandidate(a, Rows) /\ ~NeedsReview(a, page.acts)
        /\ PaperDone(page.acts["paper_watch"])
    BY <2>1, <2>2, ReadyMeans
  <2>4. past.adopted # "no" /\ past.reviewed
    BY <2>3, Parts DEF PaperDone, Earned
  <2>5. ASSUME a.mood # "balanced"
        PROVE  past.felt
    <3>1. ReviewDone(page.acts["sentiment_review"])
      BY <2>3, <2>5 DEF NeedsReview, Sentiment
    <3> QED
      BY <3>1, Parts DEF Earned
  <2>6. \E j \in DOMAIN jobs : jobs[j].grade \in PaperGrades
    <3>1. PICK i \in DOMAIN Rows : Rows[i].grade \in PaperGrades
      BY <2>3 DEF HasCandidate, Candidates
    <3>2. page.related # <<>> /\ Rows = page.rows
      BY <3>1, NoRows DEF Rows
    <3> QED
      BY <3>1, <3>2, Parts DEF RowsHold
  <2> QED
    BY <2>4, <2>5, <2>6
<1> QED
  BY <1>1, Invariant, PTL

================================================================================
