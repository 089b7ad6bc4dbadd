---------------------------- MODULE GoalPanelProofs ----------------------------
(***************************************************************************)
(* What the panels of the goal page agree on, proved for every analysis    *)
(* and every state of a run: none of them offers an adoption without a     *)
(* candidate, those that speak of money none while the mood of the market  *)
(* is still to be reviewed, and the shortlist offers one whenever there is *)
(* a candidate.                                                            *)
(***************************************************************************)
EXTENDS GoalRunProofs

(***************************************************************************)
(* Panels                                                                  *)
(***************************************************************************)

\* The line a table shows, without saying where it is drawn.
IsLine(t, i) == t[i][1] /\ \A m \in 1..(i - 1) : ~t[m][1]

LEMMA PanelLine ==
  ASSUME NEW t, NEW n, Table(t, n)
  PROVE  \E i \in 1..n : IsLine(t, i) /\ Panel(t).stage = t[i][2] /\ Panel(t).offer = t[i][3]
<1>1. PICK i \in 1..n : IsShown(t, i)
  BY FirstLine
<1>2. Panel(t).stage = t[i][2] /\ Panel(t).offer = t[i][3]
  BY <1>1 DEF IsShown
<1>3. IsLine(t, i)
  BY <1>1 DEF IsShown, IsLine
<1> QED
  BY <1>2, <1>3

\* Below the rows of the gate the table goes on.
LEMMA GatedLine ==
  ASSUME NEW v, NEW t, NEW n, Table(t, n)
  PROVE  \/ Panel(GateRows(v) \o t).offer = "open_link"
         \/ \E i \in 1..n : IsLine(t, i) /\ Panel(GateRows(v) \o t).offer = t[i][3]
<1> DEFINE g == GateRows(v)
           S == Range(g) \cup Range(t)
           u == g \o t
<1>1. g \in Seq(Range(g)) /\ Len(g) = 2 /\ g[1][3] = "open_link" /\ g[2][3] = "open_link"
  <2>1. DOMAIN g = 1..2 /\ g[1][3] = "open_link" /\ g[2][3] = "open_link"
    BY DEF GateRows
  <2>2. g \in [1..2 -> Range(g)]
    BY <2>1 DEF GateRows, Range
  <2> HIDE DEF g
  <2>3. g \in Seq(Range(g))
    BY <2>2, SeqDef
  <2>4. Len(g) = 2
    BY <2>1, <2>3, LenProperties
  <2> QED
    BY <2>1, <2>3, <2>4
<1>2. n \in Nat \ {0} /\ DOMAIN t = 1..n /\ t[n][1]
  BY DEF Table
<1>3. t \in Seq(Range(t)) /\ Len(t) = n
  <2>1. t \in [1..n -> Range(t)]
    BY DEF Table, Range
  <2>2. t \in Seq(Range(t))
    BY <1>2, <2>1, SeqDef
  <2> QED
    BY <1>2, <2>2, LenProperties
<1> HIDE DEF g
<1>4. g \in Seq(S) /\ t \in Seq(S)
  <2>1. Range(g) \subseteq S /\ Range(t) \subseteq S
    OBVIOUS
  <2> QED
    BY <1>1, <1>3, <2>1, SeqMonotonic
<1> HIDE DEF S
<1>5. /\ u \in Seq(S) /\ Len(u) = n + 2
      /\ \A i \in 1..(n + 2) : u[i] = IF i <= 2 THEN g[i] ELSE t[i - 2]
  <2>1. /\ u \in Seq(S) /\ Len(u) = Len(g) + Len(t)
        /\ \A i \in 1..(Len(g) + Len(t)) : u[i] = IF i <= Len(g) THEN g[i] ELSE t[i - Len(g)]
    BY <1>4, ConcatProperties
  <2> HIDE DEF u
  <2> QED
    BY <1>1, <1>2, <1>3, <2>1
<1>6. DOMAIN u = 1..(n + 2)
  BY <1>5, LenProperties
<1> HIDE DEF u
<1>7. Table(u, n + 2)
  <2>1. u[n + 2] = t[n]
    BY <1>2, <1>5
  <2>2. u = [i \in 1..(n + 2) |-> u[i]]
    BY <1>5, <1>6, LenProperties
  <2> QED
    BY <1>2, <2>1, <2>2 DEF Table
<1>8. PICK k \in 1..(n + 2) : IsLine(u, k) /\ Panel(u).offer = u[k][3]
  BY <1>7, PanelLine
<1>9. CASE k <= 2
  BY <1>1, <1>5, <1>8, <1>9 DEF u, g
<1>10. CASE ~(k <= 2)
  <2>1. k - 2 \in 1..n /\ u[k] = t[k - 2]
    BY <1>2, <1>5, <1>10
  <2>2. ASSUME NEW m \in 1..(k - 2 - 1)
        PROVE  ~t[m][1]
    <3>1. m + 2 \in 1..(k - 1) /\ m + 2 \in 1..(n + 2) /\ u[m + 2] = t[m]
      BY <1>2, <1>5, <1>10
    <3> QED
      BY <1>8, <3>1 DEF IsLine
  <2>3. IsLine(t, k - 2)
    BY <1>8, <2>1, <2>2 DEF IsLine
  <2> QED
    BY <1>8, <2>1, <2>3 DEF u, g
<1> QED
  BY <1>9, <1>10

\* The next step adopts only what is a candidate and was reviewed.
LEMMA DecisionAdopts ==
  ASSUME NEW x, NEW acts, NEW rows, Decision(x, acts, rows).offer = Accept
  PROVE  HasCandidate(x, rows) /\ ~NeedsReview(x, acts)
<1> DEFINE paper == acts["paper_watch"]
           started == acts["backtest"].status = "done" /\ acts["backtest"].link
           found == HasCandidate(x, rows)
           none == ~found
           new == ~Present(paper)
           t == <<
       <<x.notes /\ rows = <<>>,              "data_gap",          "none">>,
       <<SomeRunning(rows),                   "validating",        "none">>,
       <<rows = <<>> /\ started,              "validating",        "open_link">>,
       <<rows = <<>> /\ Runnable(x) # {},     "backtest",          "run_all_backtests">>,
       <<rows = <<>>,                         "backtest",          "none">>,
       <<none,                                "redesign",          "analyze_and_validate">>,
       <<new /\ NeedsReview(x, acts),         "sentiment_review", "none">>,
       <<new,                                 "paper_candidate",   "accept_paper_candidate">>,
       <<~PaperDone(paper),                   "paper_watch",       "none">>,
       <<found /\ Candidate(x, rows).grade = "testnet", "testnet_candidate", "open_link">>,
       <<TRUE,                                "continue_paper",    "none">> >>
           held == new /\ NeedsReview(x, acts)
<1>1. Decision(x, acts, rows) = Panel(t)
  BY DEF Decision
<1>2. /\ t = [i \in 1..11 |-> t[i]] /\ t[11][1]
      /\ \A n \in 1..11 : t[n][3] = Accept => n = 8
  BY DEF Accept
<1>3. /\ t[6] = <<none, "redesign", "analyze_and_validate">>
      /\ t[7] = <<held, "sentiment_review", "none">>
      /\ t[8] = <<new, "paper_candidate", "accept_paper_candidate">>
  OBVIOUS
<1> HIDE DEF t, none, new, held
<1>4. Table(t, 11)
  BY <1>2 DEF Table
<1>5. PICK i \in 1..11 : IsLine(t, i) /\ Panel(t).offer = t[i][3]
  BY <1>4, PanelLine
<1>6. i = 8
  BY <1>1, <1>2, <1>5
<1>7. t[8][1] /\ ~t[6][1] /\ ~t[7][1]
  BY <1>5, <1>6 DEF IsLine
<1>8. new /\ ~none /\ ~held
  BY <1>3, <1>7
<1> QED
  BY <1>8 DEF new, none, held

\* So does the panel of readiness.
LEMMA ReadinessAdopts ==
  ASSUME NEW x, NEW acts, NEW rows, NEW accounts,
         Readiness(x, acts, rows, accounts).offer = Accept
  PROVE  HasCandidate(x, rows) /\ ~NeedsReview(x, acts)
<1> DEFINE paper == acts["paper_watch"]
           none == ~HasCandidate(x, rows)
           t == <<
       <<~x.made,                         "not_started",         "scan_today">>,
       <<DataGap(x),                      "data_gap",            "rescan_today">>,
       <<none /\ SomeRunning(rows),       "validating",          "run_all_backtests">>,
       <<none,                            "validation_needed",   "run_all_backtests">>,
       <<NeedsReview(x, acts),            "sentiment_review",    "open_link">>,
       <<x.halted,                        "trading_halted",      "open_link">>,
       <<~x.limits,                       "risk_limits_blocked", "open_link">>,
       <<~HasAccount(x, accounts),        "account_blocked",     "open_link">>,
       <<~Present(paper),                 "paper_ready",         "accept_paper_candidate">>,
       <<~PaperDone(paper),               "paper_watch",         "open_link">>,
       <<TRUE,                            "testnet_ready",       "open_link">> >>
<1>1. Readiness(x, acts, rows, accounts) = Panel(t)
  BY DEF Readiness
<1>2. /\ t = [i \in 1..11 |-> t[i]] /\ t[11][1]
      /\ \A n \in 1..11 : t[n][3] = Accept => n = 9
  BY DEF Accept
<1>3. /\ t[4] = <<none, "validation_needed", "run_all_backtests">>
      /\ t[5] = <<NeedsReview(x, acts), "sentiment_review", "open_link">>
  OBVIOUS
<1> HIDE DEF t, none
<1>4. Table(t, 11)
  BY <1>2 DEF Table
<1>5. PICK i \in 1..11 : IsLine(t, i) /\ Panel(t).offer = t[i][3]
  BY <1>4, PanelLine
<1>6. i = 9
  BY <1>1, <1>2, <1>5
<1>7. ~t[4][1] /\ ~t[5][1]
  BY <1>5, <1>6 DEF IsLine
<1>8. ~none /\ ~NeedsReview(x, acts)
  BY <1>3, <1>7
<1> QED
  BY <1>8 DEF none

\* A table that offers the adoption on one line shows that line when it does.
LEMMA OnlyLine ==
  ASSUME NEW t, NEW n, Table(t, n), NEW k \in 1..n,
         \A m \in 1..n : t[m][3] = Accept => m = k,
         Panel(t).offer = Accept
  PROVE  IsLine(t, k)
  BY PanelLine

LEMMA GatedOnlyLine ==
  ASSUME NEW v, NEW t, NEW n, Table(t, n), NEW k \in 1..n,
         \A m \in 1..n : t[m][3] = Accept => m = k,
         Panel(GateRows(v) \o t).offer = Accept
  PROVE  IsLine(t, k)
<1>1. "open_link" # Accept
  BY DEF Accept
<1> QED
  BY <1>1, GatedLine

(***************************************************************************)
(* The panels that speak of money                                          *)
(***************************************************************************)

\* A view whose own judgements adopt only a candidate that was reviewed, and
\* that nobody came back to from the settings.
Sound(v) ==
  /\ v.dec.offer = Accept => v.found /\ ~v.review
  /\ v.ready.offer = Accept => v.found /\ ~v.review
  /\ v.radar \in Radars
  /\ v.back = FALSE
  /\ v.queue.kind # Accept

\* There is a candidate and nothing left to review.
Free(v) == Found(v) /\ ~Review(v)

LEMMA ButtonIs ==
  ASSUME NEW v, NEW offer, NEW kinds
  PROVE  /\ Button(v, offer, kinds) = Accept => offer = Accept /\ Accept \in kinds
         /\ Drawn(offer, kinds) = Accept => offer = Accept /\ Accept \in kinds
  BY DEF Button, Drawn, Accept

LEMMA OffersAre ==
  ASSUME NEW v, Sound(v)
  PROVE  /\ RadarOffer(v.radar) # Accept
         /\ WithLink(Dec(v)) = Accept => Free(v)
         /\ Dec(v).offer = Accept => Free(v)
         /\ Ready(v).offer = Accept => Free(v)
         /\ \A offer, acts : Packaged(offer, acts) = Accept => offer = Accept
  BY DEF Sound, RadarOffer, Radars, WithLink, Dec, Ready, Free, Found, Review, Packaged, Accept

LEMMA CapitalPlanAdopts ==
  ASSUME NEW v, CapitalPlan(v).offer = Accept
  PROVE  Free(v)
<1> DEFINE none == ~Found(v)
           t == <<
  <<none /\ v.runnable # {}, "waiting_validation",   "run_all_backtests">>,
  <<none,                    "waiting_validation",   "none">>,
  <<Review(v),               "review_before_sizing", "open_link">>,
  <<TRUE,                    "paper_sizing",         "accept_paper_candidate">> >>
<1>1. CapitalPlan(v) = Panel(t)
  BY DEF CapitalPlan
<1>2. /\ t = [i \in 1..4 |-> t[i]] /\ t[4][1]
      /\ \A n \in 1..4 : t[n][3] = Accept => n = 4
  BY DEF Accept
<1>3. /\ t[2] = <<none, "waiting_validation", "none">>
      /\ t[3] = <<Review(v), "review_before_sizing", "open_link">>
  OBVIOUS
<1> HIDE DEF t, none
<1>4. Table(t, 4)
  BY <1>2 DEF Table
<1>5. IsLine(t, 4)
  BY <1>1, <1>2, <1>4, OnlyLine
<1>6. ~t[2][1] /\ ~t[3][1]
  BY <1>5 DEF IsLine
<1>7. ~none /\ ~Review(v)
  BY <1>3, <1>6
<1> QED
  BY <1>7 DEF none, Free

LEMMA OperatorRhythmAdopts ==
  ASSUME NEW v, OperatorRhythm(v).offer = Accept
  PROVE  Free(v)
<1> DEFINE t == <<
  <<~v.a.made,                               "scan_due",        "scan_today">>,
  <<v.old \/ RadarStale(v.radar),            "refresh_due",     "refresh_run">>,
  <<Review(v),                               "slow_down",       "open_link">>,
  <<SomeRunning(v.rows),                     "validating",      "open_link">>,
  <<Unvalidated(v),                          "validate_ready",  "run_all_backtests">>,
  <<Found(v) /\ Paper(v).status \in {"manual", "done"}, "paper_watch", "open_link">>,
  <<Found(v),                                "paper_candidate", "accept_paper_candidate">>,
  <<TRUE,                                    "observe",         "scan_today">> >>
<1>1. OperatorRhythm(v) = Panel(GateRows(v) \o t)
  BY DEF OperatorRhythm
<1>2. /\ t = [i \in 1..8 |-> t[i]] /\ t[8][1]
      /\ \A n \in 1..8 : t[n][3] = Accept => n = 7
  BY DEF Accept
<1>3. /\ t[3] = <<Review(v), "slow_down", "open_link">>
      /\ t[7] = <<Found(v), "paper_candidate", "accept_paper_candidate">>
  OBVIOUS
<1> HIDE DEF t
<1>4. Table(t, 8)
  BY <1>2 DEF Table
<1>5. IsLine(t, 7)
  BY <1>1, <1>2, <1>4, GatedOnlyLine
<1>6. t[7][1] /\ ~t[3][1]
  BY <1>5 DEF IsLine
<1>7. Found(v) /\ ~Review(v)
  BY <1>3, <1>6
<1> QED
  BY <1>7 DEF Free

LEMMA DelegationRunbookAdopts ==
  ASSUME NEW v, DelegationRunbook(v).offer = Accept
  PROVE  Free(v)
<1> DEFINE held == Found(v) /\ Review(v)
           t == <<
  <<~v.a.made,                               "handoff",         "scan_today">>,
  <<RadarStale(v.radar),                     "refresh_context", "scan_today">>,
  <<v.a.notes /\ v.rows = <<>>,              "refresh_context", "open_link">>,
  <<SomeRunning(v.rows),                     "ai_wait",         "open_link">>,
  <<Unvalidated(v),                          "ai_validate",     "run_all_backtests">>,
  <<Found(v) /\ Ready(v).stage = "testnet_ready", "testnet_handoff", "open_link">>,
  <<Found(v) /\ PaperThin(Paper(v)),         "paper_review",    "open_link">>,
  <<held,                                    "human_review",    "open_link">>,
  <<Found(v),                                "paper_handoff",   "accept_paper_candidate">>,
  <<SomeFinished(v.rows),                    "redesign",        "scan_today">>,
  <<TRUE,                                    "observe",         "scan_today">> >>
<1>1. DelegationRunbook(v) = Panel(GateRows(v) \o t)
  BY DEF DelegationRunbook
<1>2. /\ t = [i \in 1..11 |-> t[i]] /\ t[11][1]
      /\ \A n \in 1..11 : t[n][3] = Accept => n = 9
  BY DEF Accept
<1>3. /\ t[8] = <<held, "human_review", "open_link">>
      /\ t[9] = <<Found(v), "paper_handoff", "accept_paper_candidate">>
  OBVIOUS
<1> HIDE DEF t, held
<1>4. Table(t, 11)
  BY <1>2 DEF Table
<1>5. IsLine(t, 9)
  BY <1>1, <1>2, <1>4, GatedOnlyLine
<1>6. t[9][1] /\ ~t[8][1]
  BY <1>5 DEF IsLine
<1>7. Found(v) /\ ~held
  BY <1>3, <1>6
<1> QED
  BY <1>7 DEF Free, held

LEMMA MarketWatchtowerAdopts ==
  ASSUME NEW v, Sound(v), MarketWatchtower(v).offer = Accept
  PROVE  Free(v)
<1> DEFINE held == Found(v) /\ Review(v)
           t == <<
  <<~v.a.made,                               "scan",             RadarOffer(v.radar)>>,
  <<DataGap(v.a),                            "data_gap",         "rescan_today">>,
  <<SomeRunning(v.rows),                     "validating",       "open_link">>,
  <<held,                                    "sentiment_review", "open_link">>,
  <<Found(v),                                "paper_watch",      "accept_paper_candidate">>,
  <<TRUE,                                    Dec(v).stage,       Dec(v).offer>> >>
<1>1. MarketWatchtower(v) = Panel(t)
  BY DEF MarketWatchtower
<1>2. /\ t = [i \in 1..6 |-> t[i]] /\ t[6][1]
      /\ \A n \in 1..6 : t[n][3] = Accept => n \in {5, 6}
      /\ t[6][3] = Dec(v).offer
  BY OffersAre DEF Accept
<1>3. /\ t[4] = <<held, "sentiment_review", "open_link">>
      /\ t[5] = <<Found(v), "paper_watch", "accept_paper_candidate">>
  OBVIOUS
<1> HIDE DEF t, held
<1>4. Table(t, 6)
  BY <1>2 DEF Table
<1>5. PICK i \in 1..6 : IsLine(t, i) /\ Panel(t).offer = t[i][3]
  BY <1>4, PanelLine
<1>6. CASE i = 5
  <2>1. t[5][1] /\ ~t[4][1]
    BY <1>5, <1>6 DEF IsLine
  <2>2. Found(v) /\ ~held
    BY <1>3, <2>1
  <2> QED
    BY <2>2 DEF Free, held
<1>7. CASE i = 6
  BY <1>1, <1>2, <1>5, <1>7, OffersAre
<1> QED
  BY <1>1, <1>2, <1>5, <1>6, <1>7

\* The money path: of its steps the one of the paper watch alone adopts.
LEMMA StepsAdopt ==
  ASSUME NEW v
  PROVE  /\ DOMAIN MoneyPathSteps(v) = 1..7
         /\ \A n \in 1..7 : MoneyPathSteps(v)[n][3] = Accept => Free(v)
<1> DEFINE watched == Present(Paper(v)) /\ ~PaperDone(Paper(v))
           free == Found(v) /\ ~Present(Paper(v)) /\ ~Review(v)
           t == << <<watched, "", "open_link">>, <<free, "", "accept_paper_candidate">>,
                   <<TRUE, "", "none">> >>
           adopt == Panel(t).offer
           step(n) == MoneyPathSteps(v)[n]
<1>1. /\ DOMAIN MoneyPathSteps(v) = 1..7
      /\ step(1)[3] = "none"
      /\ step(2)[3] \in {"scan_today", "none"}
      /\ step(3)[3] = "none"
      /\ step(4)[3] \in {"run_all_backtests", "none"}
      /\ step(5)[3] \in {"sentiment_review", "none"}
      /\ step(6)[3] = adopt
      /\ step(7)[3] \in {"open_link", "none"}
  BY DEF MoneyPathSteps
<1> HIDE DEF watched, free, step
<1>2. /\ t = [i \in 1..3 |-> t[i]] /\ t[3][1]
      /\ \A n \in 1..3 : t[n][3] = Accept => n = 2
  BY DEF Accept
<1>3. t[2][1] <=> free
  OBVIOUS
<1> HIDE DEF t
<1>4. Table(t, 3)
  BY <1>2 DEF Table
<1>5. ASSUME adopt = Accept
      PROVE  Free(v)
  <2>1. IsLine(t, 2)
    BY <1>2, <1>4, <1>5, OnlyLine
  <2>2. t[2][1]
    BY <2>1 DEF IsLine
  <2>3. free
    BY <1>3, <2>2
  <2> QED
    BY <2>3 DEF free, Free
<1> HIDE DEF adopt
<1>6. \A n \in 1..7 : step(n)[3] = Accept => n = 6
  BY <1>1 DEF Accept
<1>7. \A n \in 1..7 : step(n)[3] = Accept => Free(v)
  BY <1>1, <1>5, <1>6
<1> QED
  BY <1>1, <1>7 DEF step

LEMMA MinIs ==
  ASSUME NEW S, S \subseteq Nat, S # {}
  PROVE  Min(S) \in S
  BY Least DEF Min

\* The current step is one of them.
LEMMA CurrentStepIs ==
  ASSUME NEW s, DOMAIN s = 1..7
  PROVE  \E n \in 1..7 : CurrentStep(s) = s[n]
<1> DEFINE in(status) == {n \in DOMAIN s : s[n][2] = status}
<1>1. \A status : in(status) \subseteq 1..7 /\ in(status) \subseteq Nat
  OBVIOUS
<1>2. CurrentStep(s) = IF in("current") # {} THEN s[Min(in("current"))]
                       ELSE IF in("blocked") # {} THEN s[Min(in("blocked"))] ELSE s[1]
  BY DEF CurrentStep
<1> HIDE DEF in
<1>3. CASE in("current") # {}
  BY <1>1, <1>2, <1>3, MinIs
<1>4. CASE in("current") = {} /\ in("blocked") # {}
  BY <1>1, <1>2, <1>4, MinIs
<1>5. CASE in("current") = {} /\ in("blocked") = {}
  BY <1>2, <1>5
<1> QED
  BY <1>3, <1>4, <1>5

LEMMA MoneyPathAdopts ==
  ASSUME NEW v, Sound(v), MoneyPath(v).offer = Accept
  PROVE  Free(v)
<1> DEFINE step == CurrentStep(MoneyPathSteps(v))
<1>1. CASE ~v.a.made
  <2> DEFINE t == << <<TRUE, "idle", "scan_today">> >>
  <2>1. MoneyPath(v) = Panel(GateRows(v) \o t)
    BY <1>1 DEF MoneyPath, MoneyPathIdle
  <2>2. t = [i \in 1..1 |-> t[i]] /\ t[1][1] /\ t[1][3] = "scan_today"
    OBVIOUS
  <2> HIDE DEF t
  <2>3. Table(t, 1)
    BY <2>2 DEF Table
  <2>4. "open_link" # Accept /\ "scan_today" # Accept
    BY DEF Accept
  <2> QED
    BY <2>1, <2>2, <2>3, <2>4, GatedLine
<1>2. CASE v.a.made
  <2>1. MoneyPath(v).offer = IF step[3] # "none" THEN step[3] ELSE Ready(v).offer
    BY <1>2 DEF MoneyPath
  <2>2. PICK n \in 1..7 : step = MoneyPathSteps(v)[n]
    BY StepsAdopt, CurrentStepIs
  <2> HIDE DEF step
  <2>3. step[3] = Accept => Free(v)
    BY <2>2, StepsAdopt
  <2> QED
    BY <2>1, <2>3, OffersAre
<1> QED
  BY <1>1, <1>2

\* Whatever the queue of earlier runs asks for, it does not adopt.
LEMMA QueueIs ==
  ASSUME NEW list, NEW rows
  PROVE  Queue(list, rows).kind # Accept
<1>1. \A kind : PrimaryKind(kind) # Accept
  BY DEF PrimaryKind, Accept
<1>2. CASE list = <<>>
  BY <1>2 DEF Queue, Accept
<1>3. CASE list # <<>>
  <2>1. Queue(list, rows).kind = PrimaryKind(Top(list, rows).kind)
    BY <1>3 DEF Queue
  <2> QED
    BY <1>1, <2>1
<1> QED
  BY <1>2, <1>3

LEMMA ViewedIs ==
  ASSUME NEW x, NEW acts, NEW rows, NEW around
  PROVE  LET v == Viewed(x, acts, rows, around)
         IN /\ v.a = x /\ v.acts = acts /\ v.rows = rows
            /\ v.radar = around.radar /\ v.back = around.back /\ v.queue = around.queue
            /\ v.found <=> HasCandidate(x, rows)
            /\ v.review <=> NeedsReview(x, acts)
            /\ v.dec = Decision(x, acts, rows)
            /\ v.ready = Readiness(x, acts, rows, around.accounts)
  BY DEF Viewed

\* The view of an open page.
LEMMA OpenView ==
  ASSUME IInv, page.open
  PROVE  /\ Sound(View(FALSE))
         /\ View(FALSE).a = a /\ View(FALSE).acts = page.acts /\ View(FALSE).rows = Rows
         /\ Found(View(FALSE)) <=> HasCandidate(a, Rows)
         /\ Review(View(FALSE)) <=> NeedsReview(a, page.acts)
<1> DEFINE v == View(FALSE)
           rows == [id \in {run} |-> SelectSeq(Rows, LAMBDA r : r.grade \in Finished)]
           queue == Queue(List(FALSE), rows)
           around == [accounts |-> Accounts, gate |-> Gate, radar |-> page.radar, old |-> FALSE,
                      auto |-> AutoOn, back |-> FALSE, queue |-> queue]
<1>1. v = Viewed(a, page.acts, Rows, around)
  BY DEF View
<1>2. queue.kind # Accept
  BY QueueIs
<1> HIDE DEF queue
<1>3. /\ around.radar = page.radar /\ around.back = FALSE /\ around.queue = queue
      /\ around.accounts = Accounts
  OBVIOUS
<1> HIDE DEF v, around
<1>4. /\ v.a = a /\ v.acts = page.acts /\ v.rows = Rows
      /\ v.radar = page.radar /\ v.back = FALSE /\ v.queue = queue
      /\ (v.found <=> HasCandidate(a, Rows)) /\ (v.review <=> NeedsReview(a, page.acts))
      /\ v.dec = Decision(a, page.acts, Rows)
      /\ v.ready = Readiness(a, page.acts, Rows, Accounts)
  BY <1>1, <1>3, ViewedIs
<1>5. page.radar \in Radars
  BY Parts, PageFields
<1>6. Sound(v)
  <2>1. v.dec.offer = Accept => v.found /\ ~v.review
    BY <1>4, DecisionAdopts
  <2>2. v.ready.offer = Accept => v.found /\ ~v.review
    BY <1>4, ReadinessAdopts
  <2> QED
    BY <1>2, <1>4, <1>5, <2>1, <2>2 DEF Sound
<1> QED
  BY <1>4, <1>6 DEF v, Found, Review

\* While the mood of the market is still to be reviewed, no panel that speaks
\* of money offers the adoption.
THEOREM SlowDownHolds == Spec => []SlowDownIsHeard
<1>1. IInv => SlowDownIsHeard
  <2> SUFFICES ASSUME IInv, page.open, NeedsReview(a, page.acts)
               PROVE  Accept \notin {DelegationRunbookButton(View(FALSE)),
                        OperatorRhythmButton(View(FALSE)), CapitalPlanButton(View(FALSE)),
                        WatchtowerButton(View(FALSE)), MoneyPathButton(View(FALSE)),
                        ReadinessButton(View(FALSE))}
    BY DEF SlowDownIsHeard
  <2> DEFINE v == View(FALSE)
  <2>1. Sound(v) /\ ~Free(v)
    BY OpenView DEF Free
  <2> HIDE DEF v
  <2>2. DelegationRunbookButton(v) # Accept
    BY <2>1, ButtonIs, DelegationRunbookAdopts DEF DelegationRunbookButton
  <2>3. OperatorRhythmButton(v) # Accept
    BY <2>1, ButtonIs, OperatorRhythmAdopts DEF OperatorRhythmButton
  <2>4. CapitalPlanButton(v) # Accept
    BY <2>1, ButtonIs, CapitalPlanAdopts DEF CapitalPlanButton
  <2>5. WatchtowerButton(v) # Accept
    BY <2>1, ButtonIs, MarketWatchtowerAdopts DEF WatchtowerButton
  <2>6. MoneyPathButton(v) # Accept
    BY <2>1, ButtonIs, MoneyPathAdopts DEF MoneyPathButton
  <2>7. ReadinessButton(v) # Accept
    BY <2>1, ButtonIs, OffersAre DEF ReadinessButton
  <2> QED
    BY <2>2, <2>3, <2>4, <2>5, <2>6, <2>7 DEF v
<1> QED
  BY <1>1, Invariant, PTL

(***************************************************************************)
(* The other panels                                                        *)
(***************************************************************************)
LEMMA FreeIsFound ==
  ASSUME NEW v, Free(v)
  PROVE  Found(v)
  BY DEF Free

LEMMA CommandCenterAdopts ==
  ASSUME NEW v, Sound(v), CommandCenter(v).offer = Accept
  PROVE  Found(v)
<1> DEFINE d == Dec(v)
           offer == IF WithLink(d) # "none" THEN WithLink(d) ELSE Ready(v).offer
           packed == Packaged(offer, v.acts)
           new == ~v.a.made
           t == << <<new, "scan",  "analyze_and_validate">>, <<TRUE, d.stage, packed>> >>
<1>1. CommandCenter(v) = Panel(GateRows(v) \o t)
  BY DEF CommandCenter
<1>2. packed = Accept => Free(v)
  BY OffersAre
<1> HIDE DEF packed, new
<1>3. t = [i \in 1..2 |-> t[i]] /\ t[2][1] /\ t[1][3] = "analyze_and_validate" /\ t[2][3] = packed
  OBVIOUS
<1> HIDE DEF t
<1>4. Table(t, 2)
  BY <1>3 DEF Table
<1>5. "open_link" # Accept /\ "analyze_and_validate" # Accept
  BY DEF Accept
<1>6. PICK i \in 1..2 : CommandCenter(v).offer = t[i][3]
  BY <1>1, <1>4, <1>5, GatedLine
<1> QED
  BY <1>2, <1>3, <1>5, <1>6, FreeIsFound

LEMMA MoneyBriefAdopts ==
  ASSUME NEW v, Sound(v), MoneyBrief(v).offer = Accept
  PROVE  Found(v)
<1> DEFINE new == ~v.a.made
           linked == WithLink(Dec(v))
           radar == RadarOffer(v.radar)
           t == << <<new,                  "idle",          radar>>,
                   <<RadarStale(v.radar), "stale_context", radar>>,
                   <<TRUE,                Dec(v).stage,    linked>> >>
<1>1. MoneyBrief(v) = Panel(GateRows(v) \o t)
  BY DEF MoneyBrief
<1>2. radar # Accept /\ (linked = Accept => Free(v))
  BY OffersAre
<1> HIDE DEF linked, new, radar
<1>3. /\ t = [i \in 1..3 |-> t[i]] /\ t[3][1]
      /\ t[1][3] = radar /\ t[2][3] = radar /\ t[3][3] = linked
  OBVIOUS
<1> HIDE DEF t
<1>4. Table(t, 3)
  BY <1>3 DEF Table
<1>5. "open_link" # Accept
  BY DEF Accept
<1>6. PICK i \in 1..3 : MoneyBrief(v).offer = t[i][3]
  BY <1>1, <1>4, <1>5, GatedLine
<1> QED
  BY <1>2, <1>3, <1>6, FreeIsFound

LEMMA AdoptionPackageAdopts ==
  ASSUME NEW v, AdoptionPackage(v).offer = Accept
  PROVE  Found(v)
<1> DEFINE none == ~Found(v)
           t == <<
  <<none,                   "none",             "none">>,
  <<StrategySaved(v.acts),  "strategy_saved",   "accept_paper_candidate">>,
  <<TRUE,                   "ready_to_package", "save_and_accept_paper_candidate">> >>
<1>1. AdoptionPackage(v) = Panel(t)
  BY DEF AdoptionPackage
<1>2. /\ t = [i \in 1..3 |-> t[i]] /\ t[3][1]
      /\ \A n \in 1..3 : t[n][3] = Accept => n = 2
  BY DEF Accept
<1>3. t[1] = <<none, "none", "none">>
  OBVIOUS
<1> HIDE DEF t, none
<1>4. Table(t, 3)
  BY <1>2 DEF Table
<1>5. IsLine(t, 2)
  BY <1>1, <1>2, <1>4, OnlyLine
<1>6. ~t[1][1]
  BY <1>5 DEF IsLine
<1>7. ~none
  BY <1>3, <1>6
<1> QED
  BY <1>7 DEF none

\* Those that follow the judgements, and the coach, which looks itself.
LEMMA FollowersAdopt ==
  ASSUME NEW v, Sound(v)
  PROVE  /\ ExecutionPreview(v).offer = Accept => Found(v)
         /\ OpportunityRadar(v).offer = Accept => Found(v)
         /\ Autopilot(v).offer = Accept => Found(v)
         /\ CoachPrimary(v) = Accept => Found(v)
<1>1. "analyze_and_validate" # Accept /\ "open_link" # Accept /\ "none" # Accept
  BY DEF Accept
<1>2. ExecutionPreview(v).offer \in {"analyze_and_validate", Dec(v).offer, Ready(v).offer}
  BY DEF ExecutionPreview
<1>3. OpportunityRadar(v).offer \in {"analyze_and_validate", Dec(v).offer}
  BY DEF OpportunityRadar
<1>4. Autopilot(v).offer \in {"analyze_and_validate", WithLink(Dec(v))}
  BY DEF Autopilot
<1>5. CoachPrimary(v) = Accept => Found(v)
  BY <1>1 DEF CoachPrimary
<1> QED
  BY <1>1, <1>2, <1>3, <1>4, <1>5, OffersAre, FreeIsFound

\* Without a candidate no task of the day adopts.
LEMMA TasksAdopt ==
  ASSUME NEW v, Sound(v), ~Found(v)
  PROVE  /\ \A n \in DOMAIN MissionTasks(v) : MissionTasks(v)[n] # Accept
         /\ Head(MissionTasks(v)) # Accept
<1> DEFINE d == Dec(v)
           packed == Packaged(d.offer, v.acts)
           first == IF v.queue.attention THEN v.queue.kind ELSE RadarOffer(v.radar)
           S == {kind \in {"page", "open_link", "sentiment_review", "paper_watch",
                           d.offer, first} : kind # Accept}
           when(cond, kind) == IF cond THEN <<kind>> ELSE <<>>
           s1 == when(v.a.notes, "page")
           s2 == when(d.stage = "sentiment_review", "sentiment_review")
           s3 == when(d.offer \in {"run_all_backtests", "open_link", "analyze_and_validate"}, d.offer)
           s4 == when(d.offer = "accept_paper_candidate" /\ Found(v), packed)
           s5 == when(d.stage = "paper_watch" /\ v.acts["strategy"].status = "ready"
                        /\ v.acts["strategy"].link, "open_link")
           s6 == when(d.stage = "paper_watch", "paper_watch")
           s7 == when(v.a.signals, "page")
           blocked == ~v.a.made /\ v.gate \in {"blocked", "loading"}
           scans == ~v.a.made /\ v.gate \notin {"blocked", "loading"}
           s == s1 \o s2 \o s3 \o s4 \o s5 \o s6 \o s7 \o <<"page">>
<1>1. MissionTasks(v) = CASE blocked -> <<"open_link">>
                          [] scans -> <<first>>
                          [] OTHER -> s
  BY DEF MissionTasks
<1>2. "page" \in S /\ "open_link" \in S /\ "sentiment_review" \in S /\ "paper_watch" \in S
  BY DEF Accept
<1>3. first # Accept
  BY OffersAre DEF Sound
<1>4. first \in S
  BY <1>3
<1>5. d.offer \in {"run_all_backtests", "open_link", "analyze_and_validate"} => d.offer \in S
  BY DEF Accept
<1> HIDE DEF first, S
<1>6. <<>> \in Seq(S) /\ \A kind \in S : <<kind>> \in Seq(S)
  OBVIOUS
<1>7. s1 \in Seq(S) /\ s2 \in Seq(S) /\ s3 \in Seq(S) /\ s4 \in Seq(S)
  BY <1>2, <1>5, <1>6
<1>8. s5 \in Seq(S) /\ s6 \in Seq(S) /\ s7 \in Seq(S) /\ <<"page">> \in Seq(S)
  BY <1>2, <1>6
<1>9. \A x, y \in Seq(S) : x \o y \in Seq(S)
  OBVIOUS
<1> HIDE DEF s1, s2, s3, s4, s5, s6, s7
<1>10. s1 \o s2 \o s3 \o s4 \o s5 \o s6 \o s7 \in Seq(S)
  BY <1>7, <1>8, <1>9
<1>11. s \in Seq(S) /\ s # <<>>
  BY <1>8, <1>10
<1> HIDE DEF s, blocked, scans
<1>12. <<"open_link">> \in Seq(S) /\ <<"open_link">> # <<>> /\ <<first>> \in Seq(S) /\ <<first>> # <<>>
  BY <1>2, <1>4
<1>13. blocked => ~scans
  BY DEF blocked, scans
<1>14. MissionTasks(v) \in Seq(S) /\ MissionTasks(v) # <<>>
  BY <1>1, <1>11, <1>12, <1>13
<1>15. \A q \in Seq(S) : /\ \A n \in DOMAIN q : q[n] \in S
                         /\ q # <<>> => Head(q) \in S
  OBVIOUS
<1>16. Accept \notin S
  BY DEF S
<1> QED
  BY <1>14, <1>15, <1>16

\* Nor does what to do now, or the command of the day.
LEMMA NowAdopts ==
  ASSUME NEW v, Sound(v), ~Found(v)
  PROVE  NowAction(v).offer # Accept /\ AutonomousCommand(v).offer # Accept
<1> DEFINE task == Head(MissionTasks(v))
<1>1. \A kind : /\ NowFromTask(kind) = Accept => kind = Accept
  BY DEF NowFromTask, Accept
<1>2. task # Accept
  BY TasksAdopt
<1> HIDE DEF task
<1>3. NowAction(v).offer \in {"complete_manual_action", NowFromTask(task)}
  BY DEF NowAction, task
<1>4. "complete_manual_action" # Accept
  BY DEF Accept
<1>5. NowAction(v).offer # Accept
  BY <1>1, <1>2, <1>3, <1>4
<1>6. AutonomousCommand(v).offer \in {Packaged(NowAction(v).offer, v.acts), NowAction(v).offer,
                                      CommandCenter(v).offer}
  BY DEF AutonomousCommand
<1> QED
  BY <1>5, <1>6, OffersAre, CommandCenterAdopts

\* A task of another kind is not an adoption.
LEMMA CommandsAre ==
  ASSUME NEW task, TaskCommand(task) = Accept
  PROVE  task = Accept
  BY DEF TaskCommand, Accept

(***************************************************************************)
(* The shortlist                                                           *)
(***************************************************************************)

\* Where a name has one row, the worst of its rows is that row.
LEMMA WorstOfOne ==
  ASSUME NEW rows, NEW r
  PROVE  Worst(rows, {r}) = r
  BY DEF Worst

\* A draft is a paper candidate when a backtest of its name is above the paper
\* threshold, as for the panels that look for a row.
LEMMA StageIs ==
  ASSUME NEW v, LatestPerDraft(v.rows), NEW i \in DOMAIN v.a.drafts
  PROVE  ShortlistStage(v, i).stage = "paper_candidate" <=>
           /\ i \in Tradable(v.a)
           /\ \E r \in DOMAIN v.rows : /\ v.rows[r].sid = v.a.drafts[i].sid
                                       /\ v.rows[r].grade \in PaperGrades
<1> DEFINE sid == v.a.drafts[i].sid
           named == RowsNamed(v.rows, sid)
           row == v.rows[Worst(v.rows, named)]
           watched == i \notin Tradable(v.a)
           none == named = {}
           running == named # {} /\ row.grade = "running"
           paper == named # {} /\ row.grade \in PaperGrades
           rejected == named # {} /\ row.grade \in {"weak", "failed"}
           t == << <<watched,  "observe_only",    "open_link">>,
                   <<none,     "validate_ready",  "run_backtest">>,
                   <<running,  "validating",      "open_link">>,
                   <<paper,    "paper_candidate", "accept_paper_candidate">>,
                   <<rejected, "rejected",        "open_link">>,
                   <<TRUE,     "watch",           "open_link">> >>
<1>1. ShortlistStage(v, i) = Panel(t)
  BY DEF ShortlistStage
<1> HIDE DEF watched, none, running, paper, rejected
<1>2. /\ t = [n \in 1..6 |-> t[n]] /\ t[6][1]
      /\ \A n \in 1..6 : t[n][2] = "paper_candidate" <=> n = 4
  OBVIOUS
<1>3. /\ t[1][1] <=> watched
      /\ t[2][1] <=> none
      /\ t[3][1] <=> running
      /\ t[4][1] <=> paper
  OBVIOUS
<1> HIDE DEF t
<1>4. Table(t, 6)
  BY <1>2 DEF Table
<1>5. PICK k \in 1..6 : IsLine(t, k) /\ Panel(t).stage = t[k][2]
  BY <1>4, PanelLine
<1>6. Panel(t).stage = "paper_candidate" <=> k = 4
  BY <1>2, <1>5
<1>7. k = 4 => ~watched /\ paper
  BY <1>3, <1>5 DEF IsLine
<1>8. ~watched /\ ~none /\ ~running /\ paper => k = 4
  BY <1>3, <1>5 DEF IsLine
<1>9. \A r \in named : named = {r} /\ row = v.rows[r]
  <2> SUFFICES ASSUME NEW r \in named
               PROVE  named = {r} /\ row = v.rows[r]
    OBVIOUS
  <2>1. named = {r}
    BY DEF LatestPerDraft, RowsNamed
  <2> QED
    BY <2>1, WorstOfOne
<1>10. ASSUME k = 4
       PROVE  /\ i \in Tradable(v.a)
              /\ \E r \in DOMAIN v.rows : v.rows[r].sid = sid /\ v.rows[r].grade \in PaperGrades
  <2>1. PICK r \in named : TRUE
    BY <1>7, <1>10 DEF paper
  <2>2. v.rows[r].grade \in PaperGrades
    BY <1>7, <1>9, <1>10, <2>1 DEF paper
  <2>3. r \in DOMAIN v.rows /\ v.rows[r].sid = sid
    BY <2>1 DEF RowsNamed
  <2> QED
    BY <1>7, <1>10, <2>2, <2>3 DEF watched
<1>11. ASSUME i \in Tradable(v.a),
              NEW r \in DOMAIN v.rows, v.rows[r].sid = sid, v.rows[r].grade \in PaperGrades
       PROVE  k = 4
  <2>1. r \in named
    BY <1>11 DEF RowsNamed
  <2>2. row = v.rows[r] /\ named # {}
    BY <1>9, <2>1
  <2>3. row.grade # "running"
    BY <1>11, <2>2 DEF PaperGrades
  <2>4. paper /\ ~running /\ ~none /\ ~watched
    BY <1>11, <2>2, <2>3 DEF paper, running, none, watched
  <2> QED
    BY <1>8, <2>4
<1> QED
  BY <1>1, <1>6, <1>10, <1>11

\* The shortlist offers the adoption when one of its drafts is a candidate.
LEMMA ShortlistIs ==
  ASSUME NEW v, v.a.drafts = <<>> => DOMAIN v.a.drafts = {}
  PROVE  Shortlist(v).offer = Accept <=>
           \E i \in DOMAIN v.a.drafts : ShortlistStage(v, i).stage = "paper_candidate"
<1> DEFINE in(stage) == \E i \in DOMAIN v.a.drafts : ShortlistStage(v, i).stage = stage
           empty == v.a.drafts = <<>>
           paper == in("paper_candidate")
           both == in("validating") /\ in("validate_ready")
           validating == in("validating")
           ready == in("validate_ready")
           rejected == \A i \in DOMAIN v.a.drafts : ShortlistStage(v, i).stage = "rejected"
           t == << <<empty,      "empty",           "scan_today">>,
                   <<paper,      "paper_candidate", "accept_paper_candidate">>,
                   <<both,       "validating",      "run_all_backtests">>,
                   <<validating, "validating",      "open_link">>,
                   <<ready,      "validate_ready",  "run_all_backtests">>,
                   <<rejected,   "redesign",        "none">>,
                   <<TRUE,       "observe",         "none">> >>
<1>1. Shortlist(v) = Panel(t)
  BY DEF Shortlist
<1>2. paper => ~empty
  OBVIOUS
<1> HIDE DEF empty, paper, both, validating, ready, rejected
<1>3. /\ t = [n \in 1..7 |-> t[n]] /\ t[7][1]
      /\ \A n \in 1..7 : t[n][3] = Accept <=> n = 2
  BY DEF Accept
<1>4. (t[1][1] <=> empty) /\ (t[2][1] <=> paper)
  OBVIOUS
<1> HIDE DEF t
<1>5. Table(t, 7)
  BY <1>3 DEF Table
<1>6. PICK k \in 1..7 : IsLine(t, k) /\ Panel(t).offer = t[k][3]
  BY <1>5, PanelLine
<1>7. k = 2 <=> paper
  BY <1>2, <1>4, <1>6 DEF IsLine
<1> QED
  BY <1>1, <1>3, <1>6, <1>7 DEF paper

\* A shortlist that looks a draft up and a panel that looks a row up agree.
LEMMA ShortlistAgrees ==
  ASSUME NEW v, v.a \in AnalysisType, LatestPerDraft(v.rows)
  PROVE  Shortlist(v).offer = Accept <=> HasCandidate(v.a, v.rows)
<1>1. v.a.drafts \in Seq(DraftType)
  BY DEF AnalysisType
<1>2. v.a.drafts = <<>> => DOMAIN v.a.drafts = {}
  BY <1>1
<1>3. Shortlist(v).offer = Accept <=>
        \E i \in DOMAIN v.a.drafts : ShortlistStage(v, i).stage = "paper_candidate"
  BY <1>2, ShortlistIs
<1>4. ASSUME NEW i \in DOMAIN v.a.drafts, ShortlistStage(v, i).stage = "paper_candidate"
      PROVE  HasCandidate(v.a, v.rows)
  <2>1. PICK r \in DOMAIN v.rows : v.rows[r].sid = v.a.drafts[i].sid /\ v.rows[r].grade \in PaperGrades
    BY <1>4, StageIs
  <2>2. i \in DraftsNamed(v.a, v.rows[r].sid)
    BY <1>4, <2>1, StageIs DEF DraftsNamed
  <2>3. r \in Candidates(v.a, v.rows)
    BY <2>1, <2>2 DEF Candidates
  <2> QED
    BY <2>3 DEF HasCandidate
<1>5. ASSUME HasCandidate(v.a, v.rows)
      PROVE  \E i \in DOMAIN v.a.drafts : ShortlistStage(v, i).stage = "paper_candidate"
  <2>1. PICK r \in DOMAIN v.rows : /\ v.rows[r].grade \in PaperGrades
                                   /\ DraftsNamed(v.a, v.rows[r].sid) # {}
    BY <1>5 DEF HasCandidate, Candidates
  <2>2. PICK i \in Tradable(v.a) : v.a.drafts[i].sid = v.rows[r].sid
    BY <2>1 DEF DraftsNamed
  <2>3. i \in DOMAIN v.a.drafts
    BY <2>2 DEF Tradable
  <2> QED
    BY <2>1, <2>2, <2>3, StageIs
<1> QED
  BY <1>3, <1>4, <1>5

(***************************************************************************)
(* The whole page                                                          *)
(***************************************************************************)

\* Under the analysis: every button adopts what the shortlist and the rows do.
LEMMA AnalysisButtonsAdopt ==
  ASSUME NEW v, Sound(v), ~Found(v), Shortlist(v).offer # Accept
  PROVE  Accept \notin AnalysisButtons(v)
<1>1. DecisionButton(v) # Accept
  BY ButtonIs, OffersAre, FreeIsFound DEF DecisionButton
<1>2. ScoreboardButton(v) # Accept /\ QueueTop(v) # Accept
  BY DEF ScoreboardButton, QueueTop, Accept, RunAll
<1>3. Accept \notin ShortlistButtons(v)
  <2> DEFINE item(i) == ShortlistStage(v, i)
             held(i) == item(i).offer = Accept /\ (~Found(v) \/ CandidateDraft(v.a, v.rows) # i)
             button(i) == IF held(i) THEN "open_link" ELSE item(i).offer
  <2>1. ShortlistButtons(v) = {Drawn(Shortlist(v).offer, {RunAll, Accept})}
                              \cup {button(i) : i \in DOMAIN v.a.drafts}
    BY DEF ShortlistButtons
  <2>2. Drawn(Shortlist(v).offer, {RunAll, Accept}) # Accept
    BY ButtonIs
  <2>3. \A i : button(i) # Accept
    BY DEF Accept
  <2> HIDE DEF button
  <2> QED
    BY <2>1, <2>2, <2>3
<1>4. \A id \in ActionIds : Accept \notin QueueButtons(v, id)
  BY DEF QueueButtons, Accept
<1>5. \A i \in DOMAIN v.a.drafts : Accept \notin DraftButtons(v, i)
  BY DEF DraftButtons, CreationSummary, Accept
<1>6. Accept \notin UNION {QueueButtons(v, id) : id \in ActionIds}
  BY <1>4
<1>7. Accept \notin UNION {DraftButtons(v, i) : i \in DOMAIN v.a.drafts}
  BY <1>5
<1> QED
  BY <1>1, <1>2, <1>3, <1>6, <1>7 DEF AnalysisButtons

LEMMA PanelButtonsAdopt ==
  ASSUME NEW v, Sound(v), ~Found(v)
  PROVE  Accept \notin PanelButtons(v)
<1>1. Accept \notin Scans \cup {RunAll, "open_link"}
  BY DEF Accept, Scans, RunAll
<1>2. /\ SetupChecklistButton(v) # Accept /\ ObservationFocusButton(v) # Accept
      /\ ThesisButton(v) # Accept
  BY <1>1, ButtonIs DEF SetupChecklistButton, ObservationFocusButton, ThesisButton
<1>3. AutonomousCommandButton(v) # Accept /\ NowActionButton(v) # Accept
  BY ButtonIs, NowAdopts DEF AutonomousCommandButton, NowActionButton
<1>4. CommandCenterButton(v) # Accept
  BY ButtonIs, CommandCenterAdopts DEF CommandCenterButton
<1>5. DelegationRunbookButton(v) # Accept /\ OperatorRhythmButton(v) # Accept
  BY ButtonIs, DelegationRunbookAdopts, OperatorRhythmAdopts, FreeIsFound
     DEF DelegationRunbookButton, OperatorRhythmButton
<1>6. MoneyPathButton(v) # Accept /\ MoneyBriefButton(v) # Accept
  BY ButtonIs, MoneyPathAdopts, MoneyBriefAdopts, FreeIsFound
     DEF MoneyPathButton, MoneyBriefButton
<1>7. CapitalPlanButton(v) # Accept /\ WatchtowerButton(v) # Accept
  BY ButtonIs, CapitalPlanAdopts, MarketWatchtowerAdopts, FreeIsFound
     DEF CapitalPlanButton, WatchtowerButton
<1>8. ReviewCoachButton(v) # Accept /\ ReadinessButton(v) # Accept
  BY ButtonIs, FollowersAdopt, OffersAre, FreeIsFound DEF ReviewCoachButton, ReadinessButton
<1>9. /\ ExecutionPreviewButton(v) # Accept /\ AutopilotButton(v) # Accept
      /\ OpportunityRadarButton(v) # Accept
  BY ButtonIs, FollowersAdopt
     DEF ExecutionPreviewButton, AutopilotButton, OpportunityRadarButton
<1>10. SettingsReturnButton(v) # Accept
  BY DEF SettingsReturnButton, Sound, Accept
<1> QED
  BY <1>2, <1>3, <1>4, <1>5, <1>6, <1>7, <1>8, <1>9, <1>10 DEF PanelButtons

\* Without a candidate, by the rows and by the shortlist, no part of the page
\* offers the adoption.
LEMMA NothingAdopts ==
  ASSUME NEW v, Sound(v), ~Found(v), Shortlist(v).offer # Accept
  PROVE  Hidden(v, Accept)
<1>1. /\ Accept # Analyze /\ Accept # "analyze_only" /\ Accept # "settings"
      /\ Accept # "scan_today" /\ Accept # "rescan_today" /\ Accept # "open_today_run"
      /\ Accept # "open_run" /\ Accept # "refresh_run" /\ Accept # "open_link"
      /\ Accept # "validate_run" /\ Accept # "save_strategy_draft"
  BY DEF Accept, Analyze
<1>2. Accept \notin FormButtons(v)
  BY <1>1, ButtonIs DEF FormButtons
<1>3. Accept \notin TemplateButtons(v)
  BY <1>1 DEF TemplateButtons
<1>4. Accept \notin RadarCardButtons(v)
  <2>1. v.radar \in {"none", "fresh", "stale"}
    BY DEF Sound, Radars
  <2> QED
    BY <1>1, <2>1 DEF RadarCardButtons
<1>5. Accept \notin FollowupButtons(v)
  BY <1>1, ButtonIs DEF FollowupButtons
<1>6. Accept \notin AdoptionPackageButtons(v)
  BY <1>1, ButtonIs, AdoptionPackageAdopts DEF AdoptionPackageButtons
<1>7. Accept \notin MissionButtons(v)
  <2> DEFINE tasks == MissionTasks(v)
             kinds == AutonomousCommandKinds \cup {"open_today_run", "open_run"}
  <2>1. \A n \in DOMAIN tasks : Button(v, TaskCommand(tasks[n]), kinds) # Accept
    BY TasksAdopt, CommandsAre, ButtonIs
  <2> QED
    BY <2>1 DEF MissionButtons
<1> QED
  BY <1>2, <1>3, <1>4, <1>5, <1>6, <1>7, AnalysisButtonsAdopt, PanelButtonsAdopt DEF Hidden

\* The thesis gives up on a run for want of a candidate.
LEMMA InvalidatedMeans ==
  ASSUME NEW v, ThesisInvalidation(v).stage = "invalidated_by_backtest"
  PROVE  ~Found(v)
<1> DEFINE new == ~v.a.made
           gap == v.a.notes /\ ~SomeFinished(v.rows)
           lost == ~Found(v) /\ SomeFinished(v.rows)
           t == <<
  <<new,       "needs_thesis",            "scan_today">>,
  <<gap,       "data_gap",                "open_link">>,
  <<lost,      "invalidated_by_backtest", "scan_today">>,
  <<Review(v), "pressure_test",           "open_link">>,
  <<Found(v),  "watch_thesis",            "open_link">>,
  <<TRUE,      "observe",                 "run_all_backtests">> >>
<1>1. ThesisInvalidation(v) = Panel(t)
  BY DEF ThesisInvalidation
<1> HIDE DEF new, gap, lost
<1>2. /\ t = [n \in 1..6 |-> t[n]] /\ t[6][1]
      /\ \A n \in 1..6 : t[n][2] = "invalidated_by_backtest" => n = 3
  OBVIOUS
<1>3. t[3][1] <=> lost
  OBVIOUS
<1> HIDE DEF t
<1>4. Table(t, 6)
  BY <1>2 DEF Table
<1>5. IsLine(t, 3)
  BY <1>1, <1>2, <1>4, PanelLine
<1>6. lost
  BY <1>3, <1>5 DEF IsLine
<1> QED
  BY <1>6 DEF lost

\* Where the page shows one row of a name, the shortlist offers an adoption
\* exactly when the other panels have a candidate, and on a run whose thesis
\* its backtests ended no part of the page offers one.
THEOREM VerdictsAgree == Spec => []PanelsAgree
<1>1. IInv => PanelsAgree
  <2> SUFFICES ASSUME IInv, page.open, LatestPerDraft(Rows)
               PROVE  /\ Shortlist(View(FALSE)).offer = Accept <=> Found(View(FALSE))
                      /\ ThesisInvalidation(View(FALSE)).stage = "invalidated_by_backtest"
                           => Hidden(View(FALSE), Accept)
    BY DEF PanelsAgree
  <2> DEFINE v == View(FALSE)
  <2>1. Sound(v) /\ v.a = a /\ v.rows = Rows /\ (Found(v) <=> HasCandidate(a, Rows))
    BY OpenView
  <2>2. a \in AnalysisType
    BY GoalAssumption, NoAnalysisIs DEF IInv, Types
  <2> HIDE DEF v
  <2>3. Shortlist(v).offer = Accept <=> Found(v)
    BY <2>1, <2>2, ShortlistAgrees
  <2>4. ThesisInvalidation(v).stage = "invalidated_by_backtest" => Hidden(v, Accept)
    BY <2>1, <2>3, InvalidatedMeans, NothingAdopts
  <2> QED
    BY <2>3, <2>4 DEF v
<1> QED
  BY <1>1, Invariant, PTL

================================================================================
