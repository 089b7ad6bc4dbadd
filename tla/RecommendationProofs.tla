------------------------ MODULE RecommendationProofs ------------------------
(***************************************************************************)
(* Theorems about StrategyDesk and the review of recommendations it        *)
(* contains, for any number of recommendations, pages, tabs, backtests and *)
(* presses and any number of failed calls.                                 *)
(***************************************************************************)
EXTENDS StrategyDesk, TLAPS

-----------------------------------------------------------------------------
(* The invariant of the review *)

\* A recommendation still to be decided was written for the present version:
\* every approval since would have superseded it.
PendingIsBorn == \A r \in Pending : recs[r].born = strategy.version

\* So an approval that read the strategy before its transaction, and can still
\* commit, read the present version.
BaseIsCurrent ==
  \A d \in Desks, r \in Recs :
    Call(d, r) = "loaded" /\ Commits(r) => desks[d].base = strategy.version

\* Calls are about recommendations that exist, and only approvals get past the
\* lookup.
CallsAreKnown ==
  \A d \in Desks, r \in Recs :
    /\ Call(d, r) # "none" => recs[r].status # "none"
    /\ Call(d, r) \in {"loaded", "applied"} => desks[d].ask = "approve"

\* An approval that is applied, or answered well, stands.
AppliedStands ==
  \A d \in Desks, r \in Recs :
    desks[d].ask = "approve" /\ Call(d, r) \in {"applied", "ok"} => r \in Approved

Rounds   == VersionsAreOwn /\ AppliedToItsVersion /\ PendingIsBorn
CallsInv == BaseIsCurrent /\ CallsAreKnown /\ AppliedStands

ReviewInv == ReviewTypeOK /\ Rounds /\ CallsInv

LEMMA ReviewInitially == ReviewInit => ReviewInv
<1> SUFFICES ASSUME ReviewInit PROVE ReviewInv
  OBVIOUS
<1>1. ReviewTypeOK
  BY BoundsAssumption
     DEF ReviewInit, ReviewTypeOK, Strategy, Params, Live, LiveOff, Rec, Unborn, Desk, Idle,
         Quiet, Phases
<1>2. Pending = {} /\ Approved = {}
  BY DEF ReviewInit, Pending, Approved, Unborn
<1>3. Rounds
  BY <1>2 DEF Rounds, VersionsAreOwn, AppliedToItsVersion, PendingIsBorn
<1>4. \A d \in Desks, r \in Recs : Call(d, r) = "none"
  BY DEF ReviewInit, Call, Idle, Quiet
<1>5. CallsInv
  BY <1>4 DEF CallsInv, BaseIsCurrent, CallsAreKnown, AppliedStands
<1> QED
  BY <1>1, <1>3, <1>5 DEF ReviewInv

\* The calls of the pages, seen from outside the pages: what one step of a
\* call may do to all of them.
LEMMA MovesCalls ==
  ASSUME NEW d \in Desks, NEW r \in Recs, NEW phase \in Phases,
         desks \in [Desks -> Desk], Moves(d, r, phase)
  PROVE  /\ desks' \in [Desks -> Desk]
         /\ \A e \in Desks : desks'[e].ask = desks[e].ask /\ desks'[e].base = desks[e].base
         /\ \A e \in Desks, q \in Recs :
              Call(e, q)' = IF e = d /\ q = r THEN phase ELSE Call(e, q)
BY DEF Moves, Call, Desk

\* A step that moves one call and leaves the store alone.
LEMMA MovingKeeps ==
  ASSUME ReviewInv, NEW d \in Desks, NEW r \in Recs, NEW phase \in Phases,
         Call(d, r) # "none", Moves(d, r, phase), UNCHANGED <<strategy, recs>>,
         presses' \in 0 .. MaxPresses, faults' \in 0 .. MaxFaults,
         phase # "loaded",
         phase = "applied" => desks[d].ask = "approve",
         desks[d].ask = "approve" /\ phase \in {"applied", "ok"} => r \in Approved
  PROVE  ReviewInv'
<1>1. desks \in [Desks -> Desk]
  BY DEF ReviewInv, ReviewTypeOK
<1>2. /\ desks' \in [Desks -> Desk]
      /\ \A e \in Desks : desks'[e].ask = desks[e].ask /\ desks'[e].base = desks[e].base
      /\ \A e \in Desks, q \in Recs :
           Call(e, q)' = IF e = d /\ q = r THEN phase ELSE Call(e, q)
  BY <1>1, MovesCalls
<1>3. ReviewTypeOK'
  BY <1>2 DEF ReviewInv, ReviewTypeOK
<1>4. /\ Pending' = Pending /\ Approved' = Approved
      /\ \A q \in Recs : Commits(q)' = Commits(q)
  BY DEF Pending, Approved, Commits
<1>5. Rounds'
  BY <1>4 DEF ReviewInv, Rounds, VersionsAreOwn, AppliedToItsVersion, PendingIsBorn
<1>6. BaseIsCurrent'
  BY <1>2, <1>4 DEF ReviewInv, CallsInv, BaseIsCurrent
<1>7. CallsAreKnown'
  BY <1>2 DEF ReviewInv, CallsInv, CallsAreKnown
<1>8. AppliedStands'
  BY <1>2, <1>4 DEF ReviewInv, CallsInv, AppliedStands
<1> QED
  BY <1>3, <1>5, <1>6, <1>7, <1>8 DEF ReviewInv, CallsInv

\* A new recommendation is pending and no page knows it.
LEMMA InsertKeeps ==
  ASSUME ReviewInv, NEW r \in Recs, insert_recommendation(r)
  PROVE  ReviewInv'
<1>1. recs \in [Recs -> Rec] /\ strategy.version \in Nat /\ recs[r].status = "none"
  BY DEF ReviewInv, ReviewTypeOK, Strategy, insert_recommendation
<1>2. /\ recs' \in [Recs -> Rec]
      /\ \A q \in Recs : q # r => recs'[q] = recs[q]
      /\ recs'[r].status = "pending_review" /\ recs'[r].born = strategy.version
  BY <1>1 DEF insert_recommendation, Rec
<1>3. strategy' = strategy /\ desks' = desks /\ presses' = presses /\ faults' = faults
  BY DEF insert_recommendation
<1>4. ReviewTypeOK'
  BY <1>2, <1>3 DEF ReviewInv, ReviewTypeOK
<1>5. Approved' = Approved /\ Pending' = Pending \cup {r} /\ r \notin Approved
  BY <1>1, <1>2 DEF Approved, Pending
<1>6. VersionsAreOwn'
  BY <1>2, <1>3, <1>5 DEF ReviewInv, Rounds, VersionsAreOwn, Approved
<1>7. AppliedToItsVersion'
  BY <1>2, <1>5 DEF ReviewInv, Rounds, AppliedToItsVersion, Approved
<1>8. PendingIsBorn'
  BY <1>2, <1>3, <1>5 DEF ReviewInv, Rounds, PendingIsBorn, Pending
<1>9. \A d \in Desks : Call(d, r) = "none"
  BY <1>1 DEF ReviewInv, CallsInv, CallsAreKnown
<1>10. \A d \in Desks, q \in Recs : Call(d, q)' = Call(d, q)
  BY <1>3 DEF Call
<1>11. BaseIsCurrent'
  BY <1>3, <1>5, <1>9, <1>10 DEF ReviewInv, CallsInv, BaseIsCurrent, Commits
<1>12. CallsAreKnown'
  BY <1>2, <1>3, <1>9, <1>10 DEF ReviewInv, CallsInv, CallsAreKnown
<1>13. AppliedStands'
  BY <1>3, <1>5, <1>10 DEF ReviewInv, CallsInv, AppliedStands
<1> QED
  BY <1>4, <1>6, <1>7, <1>8, <1>11, <1>12, <1>13 DEF ReviewInv, Rounds, CallsInv

\* A page begins its calls, or forgets them: none is past the lookup then.
LEMMA DeskKeeps ==
  ASSUME ReviewInv, NEW d \in Desks, NEW desk \in Desk,
         desks' = [desks EXCEPT ![d] = desk],
         \A r \in Recs : desk.calls[r] \in {"none", "sent"},
         \A r \in Recs : desk.calls[r] = "sent" => recs[r].status # "none",
         presses' \in 0 .. MaxPresses, UNCHANGED <<strategy, recs, faults>>
  PROVE  ReviewInv'
<1>1. desks \in [Desks -> Desk]
  BY DEF ReviewInv, ReviewTypeOK
<1>2. desks' \in [Desks -> Desk] /\ desks'[d] = desk
      /\ \A e \in Desks : e # d => desks'[e] = desks[e]
  BY <1>1
<1>3. /\ \A r \in Recs : Call(d, r)' \in {"none", "sent"}
      /\ \A r \in Recs : Call(d, r)' = "sent" => recs[r].status # "none"
      /\ \A e \in Desks, r \in Recs : e # d => Call(e, r)' = Call(e, r)
  BY <1>2 DEF Call
<1>4. ReviewTypeOK'
  BY <1>2 DEF ReviewInv, ReviewTypeOK
<1>5. /\ Pending' = Pending /\ Approved' = Approved
      /\ \A q \in Recs : Commits(q)' = Commits(q)
  BY DEF Pending, Approved, Commits
<1>6. Rounds'
  BY <1>5 DEF ReviewInv, Rounds, VersionsAreOwn, AppliedToItsVersion, PendingIsBorn
<1>7. BaseIsCurrent'
  BY <1>2, <1>3, <1>5 DEF ReviewInv, CallsInv, BaseIsCurrent
<1>8. CallsAreKnown'
  BY <1>2, <1>3 DEF ReviewInv, CallsInv, CallsAreKnown
<1>9. AppliedStands'
  BY <1>2, <1>3, <1>5 DEF ReviewInv, CallsInv, AppliedStands
<1> QED
  BY <1>4, <1>6, <1>7, <1>8, <1>9 DEF ReviewInv, CallsInv

LEMMA PagesKeep ==
  ASSUME ReviewInv, NEW d \in Desks,
         \/ \E ask \in {"approve", "reject"}, picked \in SUBSET Recs :
              handleConfirm(d, ask, picked)
         \/ Answered(d)
  PROVE  ReviewInv'
<1>1. CASE \E ask \in {"approve", "reject"}, picked \in SUBSET Recs :
             handleConfirm(d, ask, picked)
  <2>1. PICK ask \in {"approve", "reject"}, picked \in SUBSET Recs :
          handleConfirm(d, ask, picked)
    BY <1>1
  <2> DEFINE calls == [r \in Recs |-> IF r \in picked THEN "sent" ELSE "none"]
             desk  == [ask |-> ask, base |-> 0, calls |-> calls]
  <2>2. calls \in [Recs -> Phases] /\ desk \in Desk
    BY DEF Phases, Desk
  <2>3. /\ \A r \in Recs : desk.calls[r] \in {"none", "sent"}
        /\ \A r \in Recs : desk.calls[r] = "sent" => recs[r].status # "none"
    BY <2>1 DEF handleConfirm
  <2>4. desks' = [desks EXCEPT ![d] = desk] /\ UNCHANGED <<strategy, recs, faults>>
    BY <2>1 DEF handleConfirm
  <2>5. presses' \in 0 .. MaxPresses
    BY <2>1, BoundsAssumption DEF handleConfirm, ReviewInv, ReviewTypeOK
  <2> HIDE DEF desk
  <2> QED
    BY <2>2, <2>3, <2>4, <2>5, DeskKeeps
<1>2. CASE Answered(d)
  <2>1. Idle \in Desk /\ \A r \in Recs : Idle.calls[r] = "none"
    BY DEF Idle, Desk, Quiet, Phases
  <2>2. desks' = [desks EXCEPT ![d] = Idle] /\ UNCHANGED <<strategy, recs, faults>>
        /\ presses' \in 0 .. MaxPresses
    BY <1>2 DEF Answered, ReviewInv, ReviewTypeOK
  <2> QED
    BY <2>1, <2>2, DeskKeeps
<1> QED
  BY <1>1, <1>2

LEMMA LookupKeeps ==
  ASSUME ReviewInv, NEW d \in Desks, NEW r \in Recs,
         FindByIDForUser(d, r) \/ ReadAgain(d, r) \/ LoseCall(d, r)
  PROVE  ReviewInv'
<1>1. presses \in 0 .. MaxPresses /\ faults \in 0 .. MaxFaults
  BY DEF ReviewInv, ReviewTypeOK
<1>2. CASE FindByIDForUser(d, r)
  <2>1. PICK phase \in {"found", "failed"} : Moves(d, r, phase)
    BY <1>2 DEF FindByIDForUser
  <2> QED
    BY <1>1, <1>2, <2>1, MovingKeeps DEF FindByIDForUser, Phases
<1>3. CASE ReadAgain(d, r)
  <2>1. PICK phase \in {"ok", "failed"} : Moves(d, r, phase)
    BY <1>3 DEF ReadAgain
  <2>2. r \in Approved
    BY <1>3 DEF ReadAgain, ReviewInv, CallsInv, AppliedStands, CallsAreKnown
  <2> QED
    BY <1>1, <1>3, <2>1, <2>2, MovingKeeps DEF ReadAgain, Phases
<1>4. CASE LoseCall(d, r)
  <2>1. faults' \in 0 .. MaxFaults
    BY <1>1, <1>4, BoundsAssumption DEF LoseCall
  <2> QED
    BY <1>1, <1>4, <2>1, MovingKeeps DEF LoseCall, Phases
<1> QED
  BY <1>2, <1>3, <1>4

\* A rejection changes a pending recommendation or none, so no version.
LEMMA RejectKeeps ==
  ASSUME ReviewInv, NEW d \in Desks, NEW r \in Recs, MarkRejected(d, r)
  PROVE  ReviewInv'
<1>1. /\ recs \in [Recs -> Rec] /\ desks \in [Desks -> Desk]
      /\ Call(d, r) = "found" /\ desks[d].ask = "reject" /\ Moves(d, r, "ok")
      /\ strategy' = strategy /\ presses' = presses /\ faults' = faults
  BY DEF ReviewInv, ReviewTypeOK, MarkRejected
<1>2. CASE r \notin Pending
  BY <1>1, <1>2, MovingKeeps DEF MarkRejected, ReviewInv, ReviewTypeOK, Phases
<1>3. CASE r \in Pending
  <2>1. recs' = [recs EXCEPT ![r].status = "rejected"]
    BY <1>3 DEF MarkRejected
  <2>2. /\ recs' \in [Recs -> Rec] /\ recs'[r].status = "rejected"
        /\ \A q \in Recs : q # r => recs'[q] = recs[q]
    BY <1>1, <2>1 DEF Rec
  <2>3. Approved' = Approved /\ Pending' = Pending \ {r} /\ r \notin Approved
    BY <1>3, <2>2 DEF Approved, Pending
  <2>4. "ok" \in Phases
    BY DEF Phases
  <2>5. /\ desks' \in [Desks -> Desk]
        /\ \A e \in Desks : desks'[e].ask = desks[e].ask /\ desks'[e].base = desks[e].base
        /\ \A e \in Desks, q \in Recs :
             Call(e, q)' = IF e = d /\ q = r THEN "ok" ELSE Call(e, q)
    BY <1>1, <2>4, MovesCalls
  <2>6. ReviewTypeOK'
    BY <1>1, <2>2, <2>5 DEF ReviewInv, ReviewTypeOK
  <2>7. VersionsAreOwn'
    BY <1>1, <2>2, <2>3 DEF ReviewInv, Rounds, VersionsAreOwn, Approved
  <2>8. AppliedToItsVersion'
    BY <2>2, <2>3 DEF ReviewInv, Rounds, AppliedToItsVersion, Approved
  <2>9. PendingIsBorn'
    BY <1>1, <2>2, <2>3 DEF ReviewInv, Rounds, PendingIsBorn, Pending
  <2>10. BaseIsCurrent'
    BY <1>1, <2>3, <2>5 DEF ReviewInv, CallsInv, BaseIsCurrent, Commits
  <2>11. CallsAreKnown'
    BY <1>1, <2>2, <2>5 DEF ReviewInv, CallsInv, CallsAreKnown
  <2>12. AppliedStands'
    BY <1>1, <2>3, <2>5 DEF ReviewInv, CallsInv, AppliedStands
  <2> QED
    BY <2>6, <2>7, <2>8, <2>9, <2>10, <2>11, <2>12 DEF ReviewInv, Rounds, CallsInv
<1> QED
  BY <1>2, <1>3

\* The strategy is read, with its present version; of a deleted strategy
\* nothing commits, so the version kept does not matter.
LEMMA FindStrategyKeeps ==
  ASSUME ReviewInv, NEW d \in Desks, NEW r \in Recs, FindStrategy(d, r)
  PROVE  ReviewInv'
<1> DEFINE phase == IF strategy.kept THEN "loaded" ELSE "failed"
           base  == IF strategy.kept THEN strategy.version ELSE 0
<1>1. /\ desks \in [Desks -> Desk] /\ strategy.version \in Nat
      /\ Call(d, r) = "found" /\ desks[d].ask = "approve"
      /\ desks' = [desks EXCEPT ![d].calls[r] = phase, ![d].base = base]
      /\ strategy' = strategy /\ recs' = recs /\ presses' = presses /\ faults' = faults
  BY DEF ReviewInv, ReviewTypeOK, Strategy, FindStrategy
<1>2. phase \in {"loaded", "failed"} /\ phase \in Phases /\ base \in Nat
      /\ (strategy.kept => base = strategy.version)
  BY <1>1 DEF Phases
<1> HIDE DEF phase, base
<1>3. /\ desks' \in [Desks -> Desk]
      /\ \A e \in Desks : desks'[e].ask = desks[e].ask
      /\ \A e \in Desks : desks'[e].base = IF e = d THEN base ELSE desks[e].base
      /\ \A e \in Desks, q \in Recs :
           Call(e, q)' = IF e = d /\ q = r THEN phase ELSE Call(e, q)
  <2> DEFINE calls == [desks[d].calls EXCEPT ![r] = phase]
             desk  == [desks[d] EXCEPT !.calls = calls, !.base = base]
  <2>1. desks[d] \in Desk /\ calls \in [Recs -> Phases]
    BY <1>1, <1>2 DEF Desk
  <2>2. desk \in Desk /\ desk.ask = desks[d].ask /\ desk.base = base
        /\ \A q \in Recs : desk.calls[q] = IF q = r THEN phase ELSE desks[d].calls[q]
    BY <1>2, <2>1 DEF Desk
  <2>3. desks' = [desks EXCEPT ![d] = desk]
    BY <1>1, <2>1 DEF Desk
  <2> HIDE DEF desk
  <2> QED
    BY <1>1, <2>2, <2>3 DEF Call
<1>4. /\ Pending' = Pending /\ Approved' = Approved
      /\ \A q \in Recs : Commits(q)' = Commits(q)
  BY <1>1 DEF Pending, Approved, Commits
<1>5. ReviewTypeOK'
  BY <1>1, <1>3 DEF ReviewInv, ReviewTypeOK
<1>6. Rounds'
  BY <1>1, <1>4 DEF ReviewInv, Rounds, VersionsAreOwn, AppliedToItsVersion, PendingIsBorn
<1>7. BaseIsCurrent'
  BY <1>1, <1>2, <1>3, <1>4 DEF ReviewInv, CallsInv, BaseIsCurrent, Commits
<1>8. CallsAreKnown'
  BY <1>1, <1>2, <1>3 DEF ReviewInv, CallsInv, CallsAreKnown
<1>9. AppliedStands'
  BY <1>2, <1>3, <1>4 DEF ReviewInv, CallsInv, AppliedStands
<1> QED
  BY <1>5, <1>6, <1>7, <1>8, <1>9 DEF ReviewInv, CallsInv

\* The transaction: the version it writes is the next one, and nothing pending
\* is left that an older read could be applied to.
LEMMA ApproveKeeps ==
  ASSUME ReviewInv, NEW d \in Desks, NEW r \in Recs, approve(d, r)
  PROVE  ReviewInv'
<1>1. /\ desks \in [Desks -> Desk] /\ recs \in [Recs -> Rec] /\ strategy \in Strategy
      /\ Call(d, r) = "loaded" /\ desks[d].ask = "approve"
      /\ presses' = presses /\ faults' = faults
  BY DEF ReviewInv, ReviewTypeOK, CallsInv, CallsAreKnown, approve
<1>2. CASE ~Commits(r)
  BY <1>1, <1>2, MovingKeeps DEF approve, ReviewInv, ReviewTypeOK, Phases
<1>3. CASE Commits(r)
  <2> DEFINE next == strategy.version + 1
  <2>1. desks[d].base = strategy.version
    BY <1>1, <1>3 DEF ReviewInv, CallsInv, BaseIsCurrent
  <2>2. /\ strategy' = [strategy EXCEPT !.params = r, !.version = next]
        /\ recs' = Superseding(r, next)
        /\ Moves(d, r, "applied")
    BY <1>3, <2>1 DEF approve
  <2>3. strategy.version \in Nat /\ next \in Nat /\ recs[r].born = strategy.version
    BY <1>1, <1>3 DEF Strategy, Commits, ReviewInv, Rounds, PendingIsBorn
  <2>4. strategy' \in Strategy /\ strategy'.version = next
    BY <1>1, <2>2, <2>3 DEF Strategy, Params
  <2>5. /\ recs' \in [Recs -> Rec]
        /\ recs'[r].status = "approved" /\ recs'[r].applied = next
        /\ recs'[r].born = recs[r].born
    BY <1>1, <2>2, <2>3 DEF Superseding, Rec
  <2>6. \A q \in Recs : q # r /\ q \in Pending => recs'[q].status = "superseded"
    BY <1>1, <2>2 DEF Superseding, Rec
  <2>7. \A q \in Recs : q # r /\ q \notin Pending => recs'[q] = recs[q]
    BY <2>2 DEF Superseding
  <2>8. Pending' = {}
    BY <2>5, <2>6, <2>7 DEF Pending
  <2>9. Approved' = Approved \cup {r} /\ r \notin Approved
    BY <1>3, <2>5, <2>6, <2>7 DEF Pending, Approved, Commits
  <2>10. \A q \in Approved : recs'[q] = recs[q] /\ q # r
    BY <2>7, <2>9 DEF Pending, Approved
  <2>11. "applied" \in Phases
    BY DEF Phases
  <2>12. /\ desks' \in [Desks -> Desk]
         /\ \A e \in Desks : desks'[e].ask = desks[e].ask /\ desks'[e].base = desks[e].base
         /\ \A e \in Desks, q \in Recs :
              Call(e, q)' = IF e = d /\ q = r THEN "applied" ELSE Call(e, q)
    BY <1>1, <2>2, <2>11, MovesCalls
  <2> HIDE DEF next
  <2>13. ReviewTypeOK'
    BY <1>1, <2>4, <2>5, <2>12 DEF ReviewInv, ReviewTypeOK
  <2>14. VersionsAreOwn'
    <3>1. \A q \in Approved : recs[q].applied \in 1 .. strategy.version
      BY DEF ReviewInv, Rounds, VersionsAreOwn
    <3>2. next = strategy.version + 1
      BY DEF next
    <3>3. \A q \in Approved : recs'[q].applied \in 1 .. next /\ recs'[q].applied # next
      BY <2>3, <2>10, <3>1, <3>2
    <3>4. next \in 1 .. next
      BY <2>3, <3>2
    <3>5. \A p, q \in Approved : recs'[p].applied = recs'[q].applied => p = q
      BY <2>10 DEF ReviewInv, Rounds, VersionsAreOwn
    <3> QED
      BY <2>4, <2>5, <2>9, <3>3, <3>4, <3>5 DEF VersionsAreOwn
  <2>15. AppliedToItsVersion'
    <3>1. recs'[r].applied = recs'[r].born + 1
      BY <2>3, <2>5 DEF next
    <3> QED
      BY <2>9, <2>10, <3>1 DEF ReviewInv, Rounds, AppliedToItsVersion
  <2>16. PendingIsBorn'
    BY <2>8 DEF PendingIsBorn
  <2>17. BaseIsCurrent'
    BY <2>8 DEF BaseIsCurrent, Commits
  <2>18. \A q \in Recs : recs[q].status # "none" => recs'[q].status # "none"
    BY <2>5, <2>6, <2>7
  <2>19. CallsAreKnown'
    BY <1>1, <2>12, <2>18 DEF ReviewInv, CallsInv, CallsAreKnown
  <2>20. AppliedStands'
    BY <2>9, <2>12 DEF ReviewInv, CallsInv, AppliedStands
  <2> QED
    BY <2>13, <2>14, <2>15, <2>16, <2>17, <2>19, <2>20 DEF ReviewInv, Rounds, CallsInv
<1> QED
  BY <1>2, <1>3

\* Every step of the review keeps its invariant.
LEMMA ReviewKeeps == ReviewInv /\ ReviewNext => ReviewInv'
<1> SUFFICES ASSUME ReviewInv, ReviewNext PROVE ReviewInv'
  OBVIOUS
<1>1. CASE \E r \in Recs : insert_recommendation(r)
  BY <1>1, InsertKeeps
<1>2. ASSUME NEW d \in Desks,
             (\E ask \in {"approve", "reject"}, picked \in SUBSET Recs :
                handleConfirm(d, ask, picked)) \/ Answered(d)
      PROVE  ReviewInv'
  BY <1>2, PagesKeep
<1>3. ASSUME NEW d \in Desks, NEW r \in Recs, Handle(d, r) \/ LoseCall(d, r)
      PROVE  ReviewInv'
  BY <1>3, LookupKeeps, RejectKeeps, FindStrategyKeeps, ApproveKeeps DEF Handle
<1> QED
  BY <1>1, <1>2, <1>3 DEF ReviewNext

-----------------------------------------------------------------------------
(* What a step of a tab may do *)

\* A call names no backtest that was not made.
NamedRuns == \A t \in Tabs : tabs[t].call.run <= Len(backtests)

\* The part of the type that is about the tabs and what they share.
TabTypeOK ==
  /\ gate \in {"closed", "open", "revoked"} /\ safe \in BOOLEAN /\ turns \in 0 .. MaxTurns
  /\ tabs \in [Tabs -> Tab]
  /\ backtests \in Seq(Backtest)
  /\ Len(backtests) <= MaxBacktests
  /\ source \in 0 .. Len(backtests)

\* The tab keeps its fields, shows what is stored, or is left; a parameter form
\* takes what the tab shows; what setLive lets through was allowed then.
OwnTab(t) ==
  /\ tabs' \in [Tabs -> Tab]
  /\ \A u \in Tabs : u # t => tabs'[u] = tabs[u]
  /\ tabs'[t].params \in {tabs[t].params, strategy.params, "draft"}
  /\ tabs'[t].call.params \in {tabs[t].call.params, tabs[t].params, "draft", "edited"}
  /\ tabs'[t].stage \in {tabs[t].stage, HandoffStage(TRUE), HandoffStage(FALSE),
                         "needs_backtest"}
  /\ tabs'[t].call.what = "live" /\ tabs'[t].call.at = "half" =>
       LiveAllowed(tabs'[t].call.live)
  /\ tabs'[t].call.run <= Len(backtests')

LEMMA NoCalls == NoCall \in Calls /\ Away \in Tab
BY DeskAssumption
   DEF NoCall, Ask, Away, Calls, Tab, Live, LiveOff, Params, Stages, DeskAssumption

LEMMA StagesAre ==
  ASSUME NEW sidecars \in BOOLEAN
  PROVE  /\ HandoffStage(sidecars) \in Stages
         /\ HandoffStage(sidecars) = "paper_review" => strategy.caps /\ Proven # {}
<1> DEFINE lines == << <<strategy.live.enabled,             "live_enabled">>,
                       <<~sidecars \/ Completed = {},       "needs_backtest">>,
                       <<Proven = {},                       "validation_rejected">>,
                       <<~strategy.caps,                    "risk_blocked">>,
                       <<~safe,                             "account_blocked">>,
                       <<TRUE,                              "paper_review">> >>
           IsFirst(i) == lines[i][1] /\ \A j \in 1 .. i - 1 : ~lines[j][1]
           first == CHOOSE i \in 1 .. 6 : IsFirst(i)
<1>1. HandoffStage(sidecars) = lines[first][2]
  BY DEF HandoffStage
<1>2. \E i \in 1 .. 6 : IsFirst(i)
  <2>1. CASE lines[1][1]
    BY <2>1, 1 \in 1 .. 6, 1 .. 1 - 1 = {}
  <2>2. CASE ~lines[1][1] /\ lines[2][1]
    BY <2>2, 2 \in 1 .. 6, 1 .. 2 - 1 = {1}
  <2>3. CASE ~lines[1][1] /\ ~lines[2][1] /\ lines[3][1]
    BY <2>3, 3 \in 1 .. 6, 1 .. 3 - 1 = {1, 2}
  <2>4. CASE ~lines[1][1] /\ ~lines[2][1] /\ ~lines[3][1] /\ lines[4][1]
    BY <2>4, 4 \in 1 .. 6, 1 .. 4 - 1 = {1, 2, 3}
  <2>5. CASE ~lines[1][1] /\ ~lines[2][1] /\ ~lines[3][1] /\ ~lines[4][1] /\ lines[5][1]
    BY <2>5, 5 \in 1 .. 6, 1 .. 5 - 1 = {1, 2, 3, 4}
  <2>6. CASE ~lines[1][1] /\ ~lines[2][1] /\ ~lines[3][1] /\ ~lines[4][1] /\ ~lines[5][1]
    BY <2>6, 6 \in 1 .. 6, 1 .. 6 - 1 = {1, 2, 3, 4, 5}
  <2> QED
    BY <2>1, <2>2, <2>3, <2>4, <2>5, <2>6
<1> HIDE DEF IsFirst
<1>3. first \in 1 .. 6 /\ IsFirst(first)
  BY <1>2
<1> HIDE DEF first
<1>4. lines[first][2] \in Stages
  BY <1>3 DEF Stages
<1>5. lines[first][2] = "paper_review" => first = 6
  BY <1>3
<1>6. first = 6 => ~lines[3][1] /\ ~lines[4][1]
  BY <1>3 DEF IsFirst
<1>7. lines[3][1] = (Proven = {}) /\ lines[4][1] = ~strategy.caps
  OBVIOUS
<1> QED
  BY <1>1, <1>4, <1>5, <1>6, <1>7

LEMMA RenderedIs ==
  ASSUME strategy \in Strategy, NEW sidecars \in BOOLEAN
  PROVE  /\ Rendered(sidecars) \in Tab
         /\ Rendered(sidecars).params \in {strategy.params, "draft"}
         /\ Rendered(sidecars).stage \in {HandoffStage(sidecars), "needs_backtest"}
         /\ Rendered(sidecars).call = NoCall
<1>1. HandoffStage(sidecars) \in Stages /\ strategy.params \in Params
  BY StagesAre DEF Strategy
<1> QED
  BY <1>1, NoCalls DEF Rendered, Tab, Away

\* A form is stored only while there is a strategy, a live form only after its
\* checks; backtests are added at the end.
OwnStore(t) ==
  /\ UNCHANGED <<recs, desks, gate, safe, turns>>
  /\ presses' \in 0 .. MaxPresses /\ faults' \in 0 .. MaxFaults
  /\ \/ strategy' = strategy
     \/ strategy.kept /\ strategy' = [strategy EXCEPT !.kept = FALSE]
     \/ /\ strategy.kept /\ At(t, "live", "half")
        /\ strategy' = [strategy EXCEPT !.live = tabs[t].call.live]
     \/ strategy.kept /\ strategy' = [strategy EXCEPT !.params = tabs[t].call.params]
  /\ backtests' \in Seq(Backtest) /\ Len(backtests') <= MaxBacktests
  /\ Len(backtests) <= Len(backtests')
  /\ \A i \in DOMAIN backtests : backtests'[i] = backtests[i]
  /\ source' \in 0 .. Len(backtests')

TabInv == ReviewInv /\ TabTypeOK /\ NamedRuns

\* What is so of every step that leaves the shared state alone.
LEMMA LeavesStore ==
  ASSUME TabInv, NEW t \in Tabs, UNCHANGED <<strategy, recs, desks, gate, safe, turns>>,
         UNCHANGED <<backtests, source>>,
         presses' \in 0 .. MaxPresses, faults' \in 0 .. MaxFaults
  PROVE  OwnStore(t)
BY DEF TabInv, TabTypeOK, OwnStore

\* A call moves on and nothing else of the tab changes.
LEMMA MovedIs ==
  ASSUME TabInv, NEW t \in Tabs,
         NEW point \in {"none", "asking", "sent", "half", "ok", "failed"},
         Moved(t, point), Len(backtests') \in Nat, Len(backtests) <= Len(backtests'),
         tabs[t].call.what = "live" /\ point = "half" => LiveAllowed(tabs[t].call.live)
  PROVE  OwnTab(t)
<1>1. tabs \in [Tabs -> Tab] /\ tabs[t] \in Tab /\ tabs[t].call \in Calls
  BY DEF TabInv, TabTypeOK, Tab
<1>2. tabs[t].call.run <= Len(backtests) /\ tabs[t].call.run \in Nat
      /\ Len(backtests) \in Nat
  BY <1>1, DeskAssumption DEF TabInv, TabTypeOK, NamedRuns, Calls, DeskAssumption
<1> DEFINE call == [tabs[t].call EXCEPT !.at = point]
           tab  == [tabs[t] EXCEPT !.call = call]
<1>3. /\ call \in Calls /\ call.at = point /\ call.what = tabs[t].call.what
      /\ call.params = tabs[t].call.params /\ call.live = tabs[t].call.live
      /\ call.run = tabs[t].call.run
  BY <1>1 DEF Calls
<1>4. tab \in Tab /\ tab.call = call /\ tab.params = tabs[t].params
      /\ tab.stage = tabs[t].stage
  BY <1>1, <1>3 DEF Tab
<1>5. tabs' = [tabs EXCEPT ![t] = tab]
  BY <1>1 DEF Moved, Tab
<1>6. tabs' \in [Tabs -> Tab] /\ tabs'[t] = tab /\ \A u \in Tabs : u # t => tabs'[u] = tabs[u]
  BY <1>1, <1>4, <1>5
<1> HIDE DEF tab, call
<1>7. tabs'[t].call.run <= Len(backtests')
  <2>1. \A i, j, k \in Nat : i <= j /\ j <= k => i <= k
    OBVIOUS
  <2>2. tabs'[t].call.run = tabs[t].call.run
    BY <1>3, <1>4, <1>6
  <2> QED
    BY <1>2, <2>1, <2>2, Zenon
<1> QED
  BY <1>3, <1>4, <1>6, <1>7 DEF OwnTab

\* A press fills the call in.
LEMMA PressIs ==
  ASSUME TabInv, NEW t \in Tabs, NEW call \in Calls, Press(t, call),
         call.at # "half", call.run = 0,
         call.params \in {tabs[t].params, "draft", "edited"}
  PROVE  OwnTab(t) /\ OwnStore(t)
<1>1. tabs \in [Tabs -> Tab] /\ tabs[t] \in Tab /\ Len(backtests) \in Nat
  BY DEF TabInv, TabTypeOK
<1>2. presses' \in 0 .. MaxPresses /\ faults' \in 0 .. MaxFaults
  BY BoundsAssumption DEF TabInv, ReviewInv, ReviewTypeOK, Press
<1>3. OwnStore(t)
  BY <1>2, LeavesStore DEF Press
<1> DEFINE tab == [tabs[t] EXCEPT !.call = call]
<1>4. tab \in Tab /\ tab.call = call /\ tab.params = tabs[t].params
      /\ tab.stage = tabs[t].stage
  BY <1>1 DEF Tab
<1>5. tabs' = [tabs EXCEPT ![t] = tab]
  BY <1>1 DEF Press
<1>6. tabs' \in [Tabs -> Tab] /\ tabs'[t] = tab /\ \A u \in Tabs : u # t => tabs'[u] = tabs[u]
  BY <1>1, <1>4, <1>5
<1> HIDE DEF tab
<1>7. tabs'[t].call.run <= Len(backtests')
  BY <1>1, <1>4, <1>6 DEF Press
<1>8. OwnTab(t)
  BY <1>1, <1>4, <1>6, <1>7 DEF OwnTab
<1> QED
  BY <1>3, <1>8

\* The tab shows what is stored, or another page is shown.
LEMMA ShownIs ==
  ASSUME TabInv, NEW t \in Tabs, NEW sidecars \in BOOLEAN,
         NEW tab \in {Away, Rendered(sidecars)},
         tabs' = [tabs EXCEPT ![t] = tab], backtests' = backtests
  PROVE  OwnTab(t)
<1>1. tabs \in [Tabs -> Tab] /\ Len(backtests) \in Nat /\ strategy \in Strategy
  BY DEF TabInv, TabTypeOK, ReviewInv, ReviewTypeOK
<1>2. /\ tab \in Tab /\ tab.params \in {strategy.params, "draft"} /\ tab.call = NoCall
      /\ tab.stage \in {HandoffStage(sidecars), "needs_backtest"}
  BY <1>1, RenderedIs, NoCalls DEF Away
<1>3. NoCall.at = "none" /\ NoCall.params = "draft" /\ NoCall.run = 0
  BY DEF NoCall, Ask
<1>4. tabs' \in [Tabs -> Tab] /\ tabs'[t] = tab /\ \A u \in Tabs : u # t => tabs'[u] = tabs[u]
  BY <1>1, <1>2
<1>5. tabs'[t].call.run <= Len(backtests')
  BY <1>1, <1>2, <1>3, <1>4
<1> QED
  BY <1>2, <1>3, <1>4, <1>5 DEF OwnTab

LEMMA PressesAre ==
  ASSUME TabInv, NEW t \in Tabs,
         \/ \E live \in LiveForms : onSaveLiveClick(t, live)
         \/ \E caps \in BOOLEAN : saveRisk(t, caps)
         \/ \E params \in Params : onSave(t, params)
         \/ runBacktest(t) \/ onDeleteClick(t)
  PROVE  OwnTab(t) /\ OwnStore(t)
<1>1. ASSUME NEW what \in {"live", "caps", "params", "delete", "backtest"},
             NEW at \in {"asking", "sent"}, NEW live \in Live, NEW params \in Params,
             NEW caps \in BOOLEAN, params \in {tabs[t].params, "draft", "edited"},
             Press(t, Ask(what, at, live, params, caps))
      PROVE  OwnTab(t) /\ OwnStore(t)
  <2> DEFINE call == Ask(what, at, live, params, caps)
  <2>1. call \in Calls /\ call.at = at /\ call.run = 0 /\ call.params = params
    BY <1>1, DeskAssumption DEF Ask, Calls, DeskAssumption
  <2> HIDE DEF call
  <2> QED
    BY <1>1, <2>1, PressIs DEF call
<1>2. LiveOff \in Live /\ LiveForms \subseteq Live /\ "draft" \in Params
  BY DeskAssumption DEF LiveOff, Live, Params, DeskAssumption
<1>3. CASE \E live \in LiveForms : onSaveLiveClick(t, live)
  <2>1. PICK live \in LiveForms : onSaveLiveClick(t, live)
    BY <1>3
  <2>2. PICK at \in {"asking", "sent"} : Press(t, Ask("live", at, live, "draft", FALSE))
    BY <2>1 DEF onSaveLiveClick
  <2> QED
    BY <1>1, <1>2, <2>2
<1>4. CASE \E caps \in BOOLEAN : saveRisk(t, caps)
  BY <1>1, <1>2, <1>4 DEF saveRisk
<1>5. CASE \E params \in Params : onSave(t, params)
  BY <1>1, <1>2, <1>5 DEF onSave
<1>6. CASE runBacktest(t)
  BY <1>1, <1>2, <1>6 DEF runBacktest
<1>7. CASE onDeleteClick(t)
  BY <1>1, <1>2, <1>7 DEF onDeleteClick
<1> QED
  BY <1>3, <1>4, <1>5, <1>6, <1>7

LEMMA ShowingsAre ==
  ASSUME TabInv, NEW t \in Tabs, NEW sidecars \in BOOLEAN,
         Open(t, sidecars) \/ TabAnswer(t, sidecars) \/ onConfirm(t) \/ onCancel(t)
           \/ LoseTabCall(t)
  PROVE  OwnTab(t) /\ OwnStore(t)
<1>1. /\ presses \in 0 .. MaxPresses /\ faults \in 0 .. MaxFaults
      /\ tabs \in [Tabs -> Tab] /\ tabs[t] \in Tab /\ tabs[t].call \in Calls
      /\ Len(backtests) \in Nat /\ Len(backtests) <= Len(backtests)
  BY DEF TabInv, TabTypeOK, ReviewInv, ReviewTypeOK, Tab
<1>2. SidecarsFail(sidecars) => faults' \in 0 .. MaxFaults
  BY <1>1, BoundsAssumption DEF SidecarsFail
\* A call given up leaves the tab as it is.
<1>3. ASSUME tabs' = [tabs EXCEPT ![t].call = NoCall], backtests' = backtests
      PROVE  OwnTab(t)
  <2> DEFINE tab == [tabs[t] EXCEPT !.call = NoCall]
  <2>1. tab \in Tab /\ tab.call = NoCall /\ tab.params = tabs[t].params
        /\ tab.stage = tabs[t].stage
    BY <1>1, NoCalls DEF Tab
  <2>2. tabs' = [tabs EXCEPT ![t] = tab]
    BY <1>1, <1>3
  <2>3. NoCall.at = "none" /\ NoCall.params = "draft" /\ NoCall.run = 0
    BY DEF NoCall, Ask
  <2>4. tabs' \in [Tabs -> Tab] /\ tabs'[t] = tab
        /\ \A u \in Tabs : u # t => tabs'[u] = tabs[u]
    BY <1>1, <2>1, <2>2
  <2> HIDE DEF tab
  <2>5. tabs'[t].call.run <= Len(backtests')
    BY <1>1, <1>3, <2>1, <2>3, <2>4
  <2> QED
    BY <2>1, <2>3, <2>4, <2>5 DEF OwnTab
<1>4. CASE Open(t, sidecars)
  <2>1. OwnStore(t)
    BY <1>1, <1>2, <1>4, LeavesStore DEF Open
  <2>2. OwnTab(t)
    BY <1>4, ShownIs DEF Open
  <2> QED
    BY <2>1, <2>2
<1>5. CASE TabAnswer(t, sidecars)
  <2>1. OwnStore(t)
    BY <1>1, <1>2, <1>5, LeavesStore DEF TabAnswer
  <2>2. \/ Moved(t, "asking")
        \/ tabs' = [tabs EXCEPT ![t].call = NoCall]
        \/ \E tab \in {Away, Rendered(sidecars)} : tabs' = [tabs EXCEPT ![t] = tab]
    BY <1>5 DEF TabAnswer, Moved
  <2>3. backtests' = backtests
    BY <1>5 DEF TabAnswer
  <2>4. CASE Moved(t, "asking")
    BY <1>1, <2>1, <2>3, <2>4, MovedIs
  <2>5. CASE tabs' = [tabs EXCEPT ![t].call = NoCall]
    BY <1>3, <2>1, <2>3, <2>5
  <2>6. CASE \E tab \in {Away, Rendered(sidecars)} : tabs' = [tabs EXCEPT ![t] = tab]
    BY <2>1, <2>3, <2>6, ShownIs
  <2> QED
    BY <2>2, <2>4, <2>5, <2>6
<1>6. CASE onConfirm(t)
  <2>1. Moved(t, "sent") /\ UNCHANGED <<presses, faults, backtests, source>>
        /\ UNCHANGED <<strategy, recs, desks, gate, safe, turns>>
    BY <1>6 DEF onConfirm, Moved, reviewVars
  <2>2. OwnTab(t)
    BY <1>1, <2>1, MovedIs
  <2> QED
    BY <1>1, <2>1, <2>2, LeavesStore
<1>7. CASE onCancel(t)
  <2>1. tabs' = [tabs EXCEPT ![t].call = NoCall]
        /\ UNCHANGED <<presses, faults, backtests, source>>
        /\ UNCHANGED <<strategy, recs, desks, gate, safe, turns>>
    BY <1>7 DEF onCancel, reviewVars
  <2> QED
    BY <1>1, <1>3, <2>1, LeavesStore
<1>8. CASE LoseTabCall(t)
  <2>1. Moved(t, "failed") /\ UNCHANGED <<presses, backtests, source>>
        /\ UNCHANGED <<strategy, recs, desks, gate, safe, turns>>
        /\ faults' \in 0 .. MaxFaults
    BY <1>1, <1>8, BoundsAssumption DEF LoseTabCall
  <2>2. OwnTab(t)
    BY <1>1, <2>1, MovedIs
  <2> QED
    BY <1>1, <2>1, <2>2, LeavesStore
<1> QED
  BY <1>4, <1>5, <1>6, <1>7, <1>8

LEMMA ServesAre ==
  ASSUME TabInv, NEW t \in Tabs, Serve(t)
  PROVE  OwnTab(t) /\ OwnStore(t)
<1>1. /\ presses \in 0 .. MaxPresses /\ faults \in 0 .. MaxFaults
      /\ tabs \in [Tabs -> Tab] /\ tabs[t] \in Tab /\ tabs[t].call \in Calls
      /\ Len(backtests) \in Nat /\ Len(backtests) <= Len(backtests)
      /\ backtests \in Seq(Backtest) /\ Len(backtests) <= MaxBacktests
      /\ source \in 0 .. Len(backtests) /\ strategy \in Strategy
  BY DEF TabInv, TabTypeOK, ReviewInv, ReviewTypeOK, Tab
\* Every handler but the one that makes a backtest moves its call on.
<1>2. ASSUME NEW point \in {"half", "ok", "failed"}, Moved(t, point),
             tabs[t].call.what = "live" /\ point = "half" => LiveAllowed(tabs[t].call.live),
             backtests' = backtests
      PROVE  OwnTab(t)
  BY <1>1, <1>2, MovedIs
<1>3. ASSUME \/ strategy' = strategy
             \/ strategy.kept /\ strategy' = [strategy EXCEPT !.kept = FALSE]
             \/ /\ strategy.kept /\ At(t, "live", "half")
                /\ strategy' = [strategy EXCEPT !.live = tabs[t].call.live]
             \/ strategy.kept /\ strategy' = [strategy EXCEPT !.params = tabs[t].call.params],
             UNCHANGED <<recs, desks, presses, faults, gate, safe, turns, backtests, source>>
      PROVE  OwnStore(t)
  BY <1>1, <1>3 DEF OwnStore
<1>4. CASE setLive(t)
  <2>1. UNCHANGED <<strategy, recs, desks, presses, faults, gate, safe, turns, backtests, source>>
    BY <1>4 DEF setLive, reviewVars
  <2>2. PICK point \in {"half", "failed"} :
          Moved(t, point) /\ (point = "half" => LiveAllowed(tabs[t].call.live))
    BY <1>4 DEF setLive
  <2> QED
    BY <1>2, <1>3, <2>1, <2>2
<1>5. CASE WriteLive(t)
  <2>1. PICK point \in {"ok", "failed"} : Moved(t, point)
    BY <1>5 DEF WriteLive
  <2>2. strategy' = strategy \/ (strategy.kept /\ At(t, "live", "half") /\
          strategy' = [strategy EXCEPT !.live = tabs[t].call.live])
    BY <1>5 DEF WriteLive, UpdateByID
  <2>3. UNCHANGED <<recs, desks, presses, faults, gate, safe, turns, backtests, source>>
    BY <1>5 DEF WriteLive
  <2> QED
    BY <1>2, <1>3, <2>1, <2>2, <2>3
<1>6. CASE updateParams(t)
  <2>1. PICK point \in {"ok", "failed"} : Moved(t, point)
    BY <1>6 DEF updateParams
  <2>2. strategy' = strategy \/ (strategy.kept /\
          strategy' = [strategy EXCEPT !.params = tabs[t].call.params])
    BY <1>6 DEF updateParams, UpdateByID
  <2>3. UNCHANGED <<recs, desks, presses, faults, gate, safe, turns, backtests, source>>
    BY <1>6 DEF updateParams
  <2> QED
    BY <1>2, <1>3, <2>1, <2>2, <2>3
<1>7. CASE updateRisk(t)
  <2>1. UNCHANGED <<strategy, recs, desks, presses, faults, gate, safe, turns, backtests, source>>
    BY <1>7 DEF updateRisk, reviewVars
  <2>2. PICK point \in {"ok", "failed"} : Moved(t, point)
    BY <1>7 DEF updateRisk
  <2> QED
    BY <1>2, <1>3, <2>1, <2>2
<1>8. CASE remove(t)
  <2>1. PICK point \in {"ok", "failed"} : Moved(t, point)
    BY <1>8 DEF remove
  <2>2. strategy' = [strategy EXCEPT !.kept = FALSE]
    BY <1>8 DEF remove
  <2>3. ~strategy.kept => strategy' = strategy
    BY <1>1, <2>2 DEF Strategy
  <2>4. UNCHANGED <<recs, desks, presses, faults, gate, safe, turns, backtests, source>>
    BY <1>8 DEF remove
  <2>5. strategy.kept \in BOOLEAN
    BY <1>1 DEF Strategy
  <2> QED
    BY <1>2, <1>3, <2>1, <2>2, <2>3, <2>4, <2>5
<1>9. CASE createBacktest(t)
  <2>1. CASE Moved(t, "failed") /\ UNCHANGED backtests
    <3>1. UNCHANGED <<strategy, recs, desks, presses, faults, gate, safe, turns, source>>
      BY <1>9 DEF createBacktest, reviewVars
    <3> QED
      BY <1>2, <1>3, <2>1, <3>1
  <2>2. CASE /\ NewBacktest
             /\ tabs' = [tabs EXCEPT ![t].call.at = "half",
                                     ![t].call.run = Len(backtests) + 1]
    <3>1. /\ backtests' = Append(backtests, "active")
          /\ Len(backtests) < MaxBacktests
      BY <2>2 DEF NewBacktest
    <3>2. /\ backtests' \in Seq(Backtest) /\ Len(backtests') = Len(backtests) + 1
          /\ \A i \in DOMAIN backtests : backtests'[i] = backtests[i]
      BY <1>1, <3>1 DEF Backtest
    <3>3. Len(backtests) + 1 \in 0 .. MaxBacktests /\ Len(backtests) <= Len(backtests')
          /\ source \in 0 .. Len(backtests') /\ Len(backtests') <= MaxBacktests
      BY <1>1, <3>1, <3>2, DeskAssumption DEF DeskAssumption
    <3>4. UNCHANGED <<strategy, recs, desks, presses, faults, gate, safe, turns, source>>
          /\ At(t, "backtest", "sent")
      BY <1>9 DEF createBacktest, reviewVars
    <3>5. OwnStore(t)
      BY <1>1, <3>2, <3>3, <3>4 DEF OwnStore
    <3> DEFINE call == [tabs[t].call EXCEPT !.at = "half", !.run = Len(backtests) + 1]
               tab  == [tabs[t] EXCEPT !.call = call]
    <3>6. /\ call \in Calls /\ call.what = "backtest" /\ call.params = tabs[t].call.params
          /\ call.run = Len(backtests) + 1
      BY <1>1, <3>3, <3>4 DEF Calls, At
    <3>7. tab \in Tab /\ tab.call = call /\ tab.params = tabs[t].params
          /\ tab.stage = tabs[t].stage
      BY <1>1, <3>6 DEF Tab
    <3>8. tabs' = [tabs EXCEPT ![t] = tab]
      BY <1>1, <2>2 DEF Tab, Calls
    <3>9. tabs' \in [Tabs -> Tab] /\ tabs'[t] = tab
          /\ \A u \in Tabs : u # t => tabs'[u] = tabs[u]
      BY <1>1, <3>7, <3>8
    <3> HIDE DEF tab, call
    <3>10. tabs'[t].call.run <= Len(backtests')
      BY <1>1, <3>2, <3>6, <3>7, <3>9
    <3>11. OwnTab(t)
      BY <3>6, <3>7, <3>9, <3>10 DEF OwnTab
    <3> QED
      BY <3>5, <3>11
  <2> QED
    BY <1>9, <2>1, <2>2 DEF createBacktest
<1>10. CASE updateAIGoalRunAction(t)
  <2>1. UNCHANGED <<strategy, recs, desks, presses, faults, gate, safe, turns, backtests>>
        /\ Moved(t, "ok") /\ source' = tabs[t].call.run
    BY <1>10 DEF updateAIGoalRunAction, reviewVars
  <2>2. tabs[t].call.run \in Nat /\ tabs[t].call.run <= Len(backtests)
    BY <1>1, DeskAssumption DEF Calls, TabInv, NamedRuns, DeskAssumption
  <2>3. source' \in 0 .. Len(backtests')
    BY <1>1, <2>1, <2>2
  <2>4. OwnStore(t)
    BY <1>1, <2>1, <2>3 DEF OwnStore
  <2> QED
    BY <1>2, <2>1, <2>4
<1> QED
  BY <1>4, <1>5, <1>6, <1>7, <1>8, <1>9, <1>10 DEF Serve

LEMMA TabNextIs ==
  ASSUME TabInv, NEW t \in Tabs, TabNext(t)
  PROVE  OwnTab(t) /\ OwnStore(t)
<1>1. CASE \E sidecars \in BOOLEAN : Open(t, sidecars) \/ TabAnswer(t, sidecars)
  BY <1>1, ShowingsAre
<1>2. CASE onConfirm(t) \/ onCancel(t) \/ LoseTabCall(t)
  BY <1>2, ShowingsAre
<1>3. CASE \/ \E live \in LiveForms : onSaveLiveClick(t, live)
           \/ \E caps \in BOOLEAN : saveRisk(t, caps)
           \/ \E params \in Params : onSave(t, params)
           \/ runBacktest(t) \/ onDeleteClick(t)
  BY <1>3, PressesAre
<1>4. CASE Serve(t)
  BY <1>4, ServesAre
<1> QED
  BY <1>1, <1>2, <1>3, <1>4 DEF TabNext

-----------------------------------------------------------------------------
(* The invariant of the whole *)

\* What setLive let through was let through by a gate that had been opened.
GateKept ==
  /\ MainnetNeedsGate
  /\ \A t \in Tabs : At(t, "live", "half") /\ tabs[t].call.live.enabled
                       /\ tabs[t].call.live.mode = "mainnet" => gate # "closed"

\* The parameters a tab shows or sends were once those of the strategy.
ParamsKept ==
  /\ OnlyApprovedApplied
  /\ \A t \in Tabs :
       /\ tabs[t].params \in Recs => tabs[t].params \in Approved
       /\ tabs[t].call.params \in Recs => tabs[t].call.params \in Approved

\* A tab that was left shows no stage, so the stage alone tells.
StageIsEarned ==
  \A t \in Tabs : tabs[t].stage = "paper_review" => strategy.caps /\ Proven # {}

DeskInv == TabInv /\ GateKept /\ ParamsKept /\ StageIsEarned

LEMMA DeskInitially == Init => DeskInv
<1> SUFFICES ASSUME Init PROVE DeskInv
  OBVIOUS
<1>1. ReviewInv
  BY ReviewInitially DEF Init
<1>2. tabs \in [Tabs -> Tab] /\ \A t \in Tabs : tabs[t] = Away
  BY NoCalls DEF Init
<1>3. backtests = <<>> /\ backtests \in Seq(Backtest) /\ Len(backtests) = 0
  BY DEF Init
<1>4. TabTypeOK
  <2>1. Len(backtests) <= MaxBacktests /\ 0 \in 0 .. Len(backtests) /\ 0 \in 0 .. MaxTurns
    BY <1>3, DeskAssumption
  <2>2. gate = "closed" /\ safe = FALSE /\ turns = 0 /\ source = 0
    BY DEF Init
  <2> QED
    BY <1>2, <1>3, <2>1, <2>2 DEF TabTypeOK
<1>5. \A t \in Tabs : tabs[t].params = "draft" /\ tabs[t].stage = "needs_backtest"
                      /\ tabs[t].call = NoCall
  BY <1>2 DEF Away
<1>6. NoCall.at = "none" /\ NoCall.params = "draft" /\ NoCall.run = 0
  BY DEF NoCall, Ask
<1>7. NamedRuns
  BY <1>3, <1>5, <1>6 DEF NamedRuns
<1>8. strategy.params = "draft" /\ ~strategy.live.enabled
  BY DEF Init, ReviewInit, LiveOff
<1>9. GateKept
  BY <1>5, <1>6, <1>8 DEF GateKept, MainnetNeedsGate, At
<1>10. ParamsKept
  BY <1>5, <1>6, <1>8, RecsAssumption DEF ParamsKept, OnlyApprovedApplied, RecsAssumption
<1>11. StageIsEarned
  BY <1>5 DEF StageIsEarned
<1> QED
  BY <1>1, <1>4, <1>7, <1>9, <1>10, <1>11 DEF DeskInv, TabInv

\* A step that leaves the recommendations alone and gives the strategy no new
\* version keeps the invariant of the review.
LEMMA StoreKeeps ==
  ASSUME ReviewInv, strategy' \in Strategy, strategy'.version = strategy.version,
         strategy'.kept => strategy.kept, UNCHANGED <<recs, desks>>,
         presses' \in 0 .. MaxPresses, faults' \in 0 .. MaxFaults
  PROVE  ReviewInv'
<1>1. ReviewTypeOK'
  BY DEF ReviewInv, ReviewTypeOK
<1>2. Pending' = Pending /\ Approved' = Approved
      /\ \A d \in Desks, r \in Recs : Call(d, r)' = Call(d, r)
  BY DEF Pending, Approved, Call
<1>3. Rounds'
  BY <1>2 DEF ReviewInv, Rounds, VersionsAreOwn, AppliedToItsVersion, PendingIsBorn
<1>4. BaseIsCurrent'
  BY <1>2 DEF ReviewInv, CallsInv, BaseIsCurrent, Commits
<1>5. CallsAreKnown'
  BY <1>2 DEF ReviewInv, CallsInv, CallsAreKnown
<1>6. AppliedStands'
  BY <1>2 DEF ReviewInv, CallsInv, AppliedStands
<1> QED
  BY <1>1, <1>3, <1>4, <1>5, <1>6 DEF ReviewInv, CallsInv

\* What the review does to the store: a decision stays, and the strategy takes
\* what is approved while it is kept.
LEMMA ReviewIs ==
  ASSUME ReviewInv, ReviewNext
  PROVE  /\ \A q \in Recs : recs[q].status \notin {"none", "pending_review"} =>
                              recs'[q] = recs[q]
         /\ \/ strategy' = strategy
            \/ strategy.kept /\ \E r \in Approved', v \in Nat :
                 strategy' = [strategy EXCEPT !.params = r, !.version = v]
<1> DEFINE Stands == \A q \in Recs : recs[q].status \notin {"none", "pending_review"} =>
                                       recs'[q] = recs[q]
           Takes  == strategy.kept /\ \E r \in Approved', v \in Nat :
                       strategy' = [strategy EXCEPT !.params = r, !.version = v]
<1>1. recs \in [Recs -> Rec] /\ desks \in [Desks -> Desk]
  BY DEF ReviewInv, ReviewTypeOK
<1>2. CASE \E r \in Recs : insert_recommendation(r)
  BY <1>1, <1>2 DEF insert_recommendation
<1>3. ASSUME NEW d \in Desks,
             (\E ask \in {"approve", "reject"}, picked \in SUBSET Recs :
                handleConfirm(d, ask, picked)) \/ Answered(d)
      PROVE  Stands /\ (strategy' = strategy \/ Takes)
  BY <1>3 DEF handleConfirm, Answered
<1>4. ASSUME NEW d \in Desks, NEW r \in Recs,
             FindByIDForUser(d, r) \/ FindStrategy(d, r) \/ ReadAgain(d, r) \/ LoseCall(d, r)
      PROVE  Stands /\ (strategy' = strategy \/ Takes)
  BY <1>4 DEF FindByIDForUser, FindStrategy, ReadAgain, LoseCall
<1>5. ASSUME NEW d \in Desks, NEW r \in Recs, MarkRejected(d, r)
      PROVE  Stands /\ (strategy' = strategy \/ Takes)
  BY <1>1, <1>5 DEF MarkRejected, Pending
<1>6. ASSUME NEW d \in Desks, NEW r \in Recs, approve(d, r)
      PROVE  Stands /\ (strategy' = strategy \/ Takes)
  <2>1. CASE ~Commits(r)
    BY <1>6, <2>1 DEF approve
  <2>2. CASE Commits(r)
    <3> DEFINE v == desks[d].base + 1
    <3>1. /\ strategy' = [strategy EXCEPT !.params = r, !.version = v]
          /\ recs' = Superseding(r, v)
      BY <1>6, <2>2 DEF approve
    <3>2. v \in Nat /\ strategy.kept /\ r \in Pending
      BY <1>1, <2>2 DEF Desk, Commits
    <3> HIDE DEF v
    <3>3. Stands
      BY <3>1, <3>2 DEF Superseding, Pending
    <3>4. r \in Approved'
      BY <1>1, <3>1 DEF Superseding, Approved, Rec
    <3> QED
      BY <3>1, <3>2, <3>3, <3>4
  <2> QED
    BY <2>1, <2>2
<1> QED
  BY <1>2, <1>3, <1>4, <1>5, <1>6 DEF ReviewNext, Handle

LEMMA TabsKeep ==
  ASSUME DeskInv, NEW t \in Tabs, TabNext(t)
  PROVE  DeskInv'
<1>1. OwnTab(t) /\ OwnStore(t)
  BY TabNextIs DEF DeskInv
<1>2. /\ strategy \in Strategy /\ tabs \in [Tabs -> Tab] /\ tabs[t] \in Tab
      /\ tabs[t].call \in Calls /\ tabs[t].call.live \in Live
      /\ tabs[t].call.params \in Params
      /\ backtests \in Seq(Backtest) /\ Len(backtests) \in Nat
  BY DEF DeskInv, TabInv, TabTypeOK, ReviewInv, ReviewTypeOK, Tab, Calls
<1>3. /\ strategy' \in Strategy /\ strategy'.version = strategy.version
      /\ strategy'.kept => strategy.kept
      /\ strategy'.caps = strategy.caps
      /\ strategy'.live \in {strategy.live, tabs[t].call.live}
      /\ strategy'.live # strategy.live => At(t, "live", "half")
      /\ strategy'.params \in {strategy.params, tabs[t].call.params}
  <2>1. CASE strategy' = strategy
    BY <1>2, <2>1
  <2>2. CASE strategy' = [strategy EXCEPT !.kept = FALSE]
    BY <1>2, <2>2 DEF Strategy
  <2>3. CASE At(t, "live", "half") /\ strategy.kept
             /\ strategy' = [strategy EXCEPT !.live = tabs[t].call.live]
    BY <1>2, <2>3 DEF Strategy
  <2>4. CASE strategy.kept /\ strategy' = [strategy EXCEPT !.params = tabs[t].call.params]
    BY <1>2, <2>4 DEF Strategy
  <2> QED
    BY <1>1, <2>1, <2>2, <2>3, <2>4 DEF OwnStore
<1>4. UNCHANGED <<recs, desks, gate, safe, turns>>
      /\ presses' \in 0 .. MaxPresses /\ faults' \in 0 .. MaxFaults
  BY <1>1 DEF OwnStore
<1>5. ReviewInv'
  BY <1>3, <1>4, StoreKeeps DEF DeskInv, TabInv
<1>6. /\ tabs' \in [Tabs -> Tab] /\ \A u \in Tabs : u # t => tabs'[u] = tabs[u]
  BY <1>1 DEF OwnTab
<1>7. TabTypeOK'
  BY <1>1, <1>4, <1>6 DEF OwnStore, DeskInv, TabInv, TabTypeOK
<1>8. NamedRuns'
  <2>1. /\ Len(backtests') \in Nat /\ Len(backtests) <= Len(backtests')
        /\ tabs'[t].call.run <= Len(backtests')
    BY <1>1 DEF OwnStore, OwnTab
  <2>2. ASSUME NEW u \in Tabs, u # t PROVE tabs'[u].call.run <= Len(backtests')
    <3>1. tabs[u].call.run \in Nat /\ tabs[u].call.run <= Len(backtests)
      BY <1>2, DeskAssumption DEF Tab, Calls, DeskInv, TabInv, NamedRuns, DeskAssumption
    <3>2. \A i, j, k \in Nat : i <= j /\ j <= k => i <= k
      OBVIOUS
    <3>3. tabs'[u].call.run = tabs[u].call.run
      BY <1>6, <2>2
    <3> QED
      BY <1>2, <2>1, <3>1, <3>2, <3>3, Zenon
  <2> QED
    BY <2>1, <2>2, Zenon DEF NamedRuns
<1>9. GateKept'
  <2>1. MainnetNeedsGate'
    BY <1>3, <1>4 DEF DeskInv, GateKept, MainnetNeedsGate
  <2>2. At(t, "live", "half")' /\ tabs'[t].call.live.enabled
          /\ tabs'[t].call.live.mode = "mainnet" => gate # "closed"
    BY <1>1 DEF OwnTab, LiveAllowed, At
  <2>3. ASSUME NEW u \in Tabs, u # t
        PROVE  At(u, "live", "half")' /\ tabs'[u].call.live.enabled
                 /\ tabs'[u].call.live.mode = "mainnet" => gate # "closed"
    BY <1>6, <2>3 DEF DeskInv, GateKept, At
  <2> QED
    BY <1>4, <2>1, <2>2, <2>3 DEF GateKept
<1>10. ParamsKept'
  <2>1. Approved' = Approved
    BY <1>4 DEF Approved
  <2>2. strategy'.params \in Recs => strategy'.params \in Approved
    BY <1>3 DEF DeskInv, ParamsKept, OnlyApprovedApplied
  <2>3. /\ tabs'[t].params \in Recs => tabs'[t].params \in Approved
        /\ tabs'[t].call.params \in Recs => tabs'[t].call.params \in Approved
    BY <1>1, RecsAssumption DEF OwnTab, RecsAssumption, DeskInv, ParamsKept, OnlyApprovedApplied
  <2>4. ASSUME NEW u \in Tabs, u # t
        PROVE  /\ tabs'[u].params \in Recs => tabs'[u].params \in Approved
               /\ tabs'[u].call.params \in Recs => tabs'[u].call.params \in Approved
    BY <1>6, <2>4 DEF DeskInv, ParamsKept
  <2> QED
    BY <2>1, <2>2, <2>3, <2>4 DEF ParamsKept, OnlyApprovedApplied
<1>11. StageIsEarned'
  <2>1. Proven \subseteq Proven'
    <3>1. \A i \in DOMAIN backtests : backtests'[i] = backtests[i]
          /\ Len(backtests') \in Nat /\ Len(backtests) <= Len(backtests')
          /\ backtests' \in Seq(Backtest)
      BY <1>1 DEF OwnStore
    <3>2. DOMAIN backtests \subseteq DOMAIN backtests'
      BY <1>1, <1>2 DEF OwnStore
    <3> QED
      BY <1>1, <3>2 DEF OwnStore, Proven, Completed
  <2>2. tabs'[t].stage = "paper_review" => strategy.caps /\ Proven # {}
    BY <1>1, StagesAre DEF OwnTab, DeskInv, StageIsEarned
  <2>3. ASSUME NEW u \in Tabs, u # t
        PROVE  tabs'[u].stage = "paper_review" => strategy.caps /\ Proven # {}
    BY <1>6, <2>3 DEF DeskInv, StageIsEarned
  <2> QED
    BY <1>3, <2>1, <2>2, <2>3 DEF StageIsEarned
<1> QED
  BY <1>5, <1>7, <1>8, <1>9, <1>10, <1>11 DEF DeskInv, TabInv

\* Steps of the review: a tab may show the parameters of a recommendation that
\* stays approved, and the live form is not theirs to change.
LEMMA ReviewBesideTabs ==
  ASSUME DeskInv, ReviewNext, UNCHANGED tabVars
  PROVE  DeskInv'
<1>1. ReviewInv'
  BY ReviewKeeps DEF DeskInv, TabInv
<1>2. /\ gate' = gate /\ safe' = safe /\ turns' = turns /\ tabs' = tabs
      /\ backtests' = backtests /\ source' = source
  BY DEF tabVars
<1>3. TabTypeOK' /\ NamedRuns'
  BY <1>2 DEF DeskInv, TabInv, TabTypeOK, NamedRuns
<1>4. strategy \in Strategy /\ recs \in [Recs -> Rec]
  BY DEF DeskInv, TabInv, ReviewInv, ReviewTypeOK
<1>5. /\ \A q \in Recs : recs[q].status \notin {"none", "pending_review"} =>
                           recs'[q] = recs[q]
      /\ \/ strategy' = strategy
         \/ strategy.kept /\ \E r \in Approved', v \in Nat :
              strategy' = [strategy EXCEPT !.params = r, !.version = v]
  BY ReviewIs DEF DeskInv, TabInv
<1>6. /\ strategy'.live = strategy.live /\ strategy'.caps = strategy.caps
      /\ strategy'.params = strategy.params \/ strategy'.params \in Approved'
  BY <1>4, <1>5 DEF Strategy
<1>7. Approved \subseteq Approved'
  BY <1>5 DEF Approved
<1>8. GateKept'
  BY <1>2, <1>6 DEF DeskInv, GateKept, MainnetNeedsGate, At
<1>9. ParamsKept'
  BY <1>2, <1>6, <1>7 DEF DeskInv, ParamsKept, OnlyApprovedApplied
<1>10. StageIsEarned'
  BY <1>2, <1>6 DEF DeskInv, StageIsEarned, Proven, Completed
<1> QED
  BY <1>1, <1>3, <1>8, <1>9, <1>10 DEF DeskInv, TabInv

\* Steps beside the page: backtests only end, and a gate opened once counts as
\* opened.
LEMMA AroundKeeps ==
  ASSUME DeskInv, UNCHANGED <<strategy, recs, desks, presses, faults, tabs, source>>,
         gate' \in {"closed", "open", "revoked"}, safe' \in BOOLEAN,
         turns' \in 0 .. MaxTurns, gate # "closed" => gate' # "closed",
         backtests' \in Seq(Backtest), Len(backtests') <= MaxBacktests,
         Len(backtests) <= Len(backtests'),
         \A i \in DOMAIN backtests : backtests[i] # "active" => backtests'[i] = backtests[i]
  PROVE  DeskInv'
<1>1. ReviewInv'
  <2>1. ReviewTypeOK'
    BY DEF DeskInv, TabInv, ReviewInv, ReviewTypeOK
  <2>2. strategy' \in Strategy /\ strategy' = strategy
        /\ presses' \in 0 .. MaxPresses /\ faults' \in 0 .. MaxFaults
    BY <2>1 DEF ReviewTypeOK
  <2> QED
    BY <2>2, StoreKeeps DEF DeskInv, TabInv
<1>2. /\ backtests \in Seq(Backtest) /\ Len(backtests) \in Nat /\ Len(backtests') \in Nat
      /\ tabs \in [Tabs -> Tab] /\ source \in 0 .. Len(backtests)
  BY DEF DeskInv, TabInv, TabTypeOK
<1>3. TabTypeOK'
  <2>1. source' \in 0 .. Len(backtests')
    BY <1>2
  <2> QED
    BY <1>2, <2>1 DEF TabTypeOK
<1>4. NamedRuns'
  <2>1. \A i, j, k \in Nat : i <= j /\ j <= k => i <= k
    OBVIOUS
  <2>2. ASSUME NEW t \in Tabs PROVE tabs'[t].call.run <= Len(backtests')
    <3>1. tabs[t].call.run \in Nat /\ tabs[t].call.run <= Len(backtests)
      BY <1>2, DeskAssumption DEF Tab, Calls, DeskInv, TabInv, NamedRuns, DeskAssumption
    <3>2. tabs'[t].call.run = tabs[t].call.run
      OBVIOUS
    <3> QED
      BY <1>2, <2>1, <3>1, <3>2, Zenon
  <2> QED
    BY <2>2, Zenon DEF NamedRuns
<1>5. GateKept'
  BY DEF DeskInv, GateKept, MainnetNeedsGate, At
<1>6. Approved' = Approved
  BY DEF Approved
<1>7. ParamsKept'
  BY <1>6 DEF DeskInv, ParamsKept, OnlyApprovedApplied
<1>8. Proven \subseteq Proven'
  <2>1. DOMAIN backtests \subseteq DOMAIN backtests'
    BY <1>2
  <2> QED
    BY <2>1 DEF Proven, Completed
<1>9. StageIsEarned'
  BY <1>8 DEF DeskInv, StageIsEarned
<1> QED
  BY <1>1, <1>3, <1>4, <1>5, <1>7, <1>9 DEF DeskInv, TabInv

LEMMA DeskKeepsNext == DeskInv /\ [Next]_vars => DeskInv'
<1> SUFFICES ASSUME DeskInv, [Next]_vars PROVE DeskInv'
  OBVIOUS
<1>1. /\ gate \in {"closed", "open", "revoked"} /\ safe \in BOOLEAN /\ turns \in 0 .. MaxTurns
      /\ backtests \in Seq(Backtest) /\ Len(backtests) \in Nat
      /\ Len(backtests) <= MaxBacktests
  BY DEF DeskInv, TabInv, TabTypeOK
<1>2. CASE ReviewNext /\ UNCHANGED tabVars
  BY <1>2, ReviewBesideTabs
<1>3. CASE \E t \in Tabs : TabNext(t)
  BY <1>3, TabsKeep
<1>4. CASE \E r \in Recs : DryRun(r)
  <2>1. /\ backtests' = Append(backtests, "active") /\ Len(backtests) < MaxBacktests
        /\ UNCHANGED <<strategy, recs, desks, presses, faults, tabs, source, gate, safe, turns>>
    BY <1>4 DEF DryRun, NewBacktest, reviewVars
  <2>2. /\ backtests' \in Seq(Backtest) /\ Len(backtests') = Len(backtests) + 1
        /\ \A i \in DOMAIN backtests : backtests'[i] = backtests[i]
    BY <1>1, <2>1 DEF Backtest
  <2>3. Len(backtests') <= MaxBacktests /\ Len(backtests) <= Len(backtests')
    BY <1>1, <2>1, <2>2, DeskAssumption DEF DeskAssumption
  <2> QED
    BY <1>1, <2>1, <2>2, <2>3, AroundKeeps
<1>5. CASE \E i \in DOMAIN backtests, result \in Backtest \ {"active"} :
             FinishBacktest(i, result)
  <2>1. PICK i \in DOMAIN backtests, result \in Backtest : FinishBacktest(i, result)
    BY <1>5
  <2>2. /\ backtests[i] = "active" /\ backtests' = [backtests EXCEPT ![i] = result]
        /\ UNCHANGED <<strategy, recs, desks, presses, faults, tabs, source, gate, safe, turns>>
    BY <2>1 DEF FinishBacktest, reviewVars
  <2>3. /\ backtests' \in Seq(Backtest) /\ Len(backtests') = Len(backtests)
        /\ \A j \in DOMAIN backtests : j # i => backtests'[j] = backtests[j]
    BY <1>1, <2>2
  <2>4. Len(backtests') <= MaxBacktests /\ Len(backtests) <= Len(backtests')
    BY <1>1, <2>3
  <2>5. \A j \in DOMAIN backtests : backtests[j] # "active" => backtests'[j] = backtests[j]
    BY <2>2, <2>3
  <2> QED
    BY <1>1, <2>2, <2>3, <2>4, <2>5, AroundKeeps
<1>6. CASE TurnGate \/ ChangeAccounts
  <2>1. /\ turns' = turns + 1 /\ turns < MaxTurns
        /\ UNCHANGED <<strategy, recs, desks, presses, faults, tabs, source, backtests>>
    BY <1>6 DEF TurnGate, ChangeAccounts, Turn, reviewVars
  <2>2. turns' \in 0 .. MaxTurns
    BY <1>1, <2>1, DeskAssumption DEF DeskAssumption
  <2>3. gate' \in {"closed", "open", "revoked"} /\ safe' \in BOOLEAN
        /\ (gate # "closed" => gate' # "closed")
    BY <1>1, <1>6 DEF TurnGate, ChangeAccounts
  <2>4. Len(backtests) <= Len(backtests)
    BY <1>1
  <2> QED
    BY <1>1, <2>1, <2>2, <2>3, <2>4, AroundKeeps
<1>7. CASE UNCHANGED vars
  <2>1. UNCHANGED <<strategy, recs, desks, presses, faults, tabs, source, gate, safe, turns,
                    backtests>>
    BY <1>7 DEF vars
  <2>2. Len(backtests) <= Len(backtests)
    BY <1>1
  <2> QED
    BY <1>1, <2>1, <2>2, AroundKeeps
<1> QED
  BY <1>2, <1>3, <1>4, <1>5, <1>6, <1>7 DEF Next

LEMMA DeskInvariant == Spec => []DeskInv
<1>1. Init => DeskInv
  BY DeskInitially
<1>2. DeskInv /\ [Next]_vars => DeskInv'
  BY DeskKeepsNext
<1> QED
  BY <1>1, <1>2, PTL DEF Spec

-----------------------------------------------------------------------------
(* Theorems *)

\* The whole state has its type; the backtest named by the goal run behind the
\* strategy is one that was made.
THEOREM StateHasItsType == Spec => []TypeOK
<1>1. DeskInv => TypeOK
  BY DEF DeskInv, TabInv, TabTypeOK, ReviewInv, TypeOK
<1> QED
  BY <1>1, DeskInvariant, PTL

\* The part of the type that the review alone has.
THEOREM ReviewHasItsType == Spec => []ReviewTypeOK
<1>1. DeskInv => ReviewTypeOK
  BY DEF DeskInv, TabInv, ReviewInv
<1> QED
  BY <1>1, DeskInvariant, PTL

\* approve computes the next version from a strategy it read before its
\* transaction; still no two approvals make the same version.
THEOREM ApprovalsHaveOwnVersions == Spec => []VersionsAreOwn
<1>1. DeskInv => VersionsAreOwn
  BY DEF DeskInv, TabInv, ReviewInv, Rounds
<1> QED
  BY <1>1, DeskInvariant, PTL

\* Nothing is applied to a later version than the one it was proposed for,
\* since an approval supersedes what is pending beside it.
THEOREM ApprovalsMeetTheirVersion == Spec => []AppliedToItsVersion
<1>1. DeskInv => AppliedToItsVersion
  BY DEF DeskInv, TabInv, ReviewInv, Rounds
<1> QED
  BY <1>1, DeskInvariant, PTL

\* A page that hears of a success speaks of a recommendation that is approved,
\* whatever the other pages decided meanwhile.
THEOREM SuccessIsTrue == Spec => []ApprovalIsHeard
<1>1. DeskInv => ApprovalIsHeard
  BY DEF DeskInv, TabInv, ReviewInv, CallsInv, AppliedStands, ApprovalIsHeard
<1> QED
  BY <1>1, DeskInvariant, PTL

\* Parameters proposed by a recommendation are in force only once a person
\* approved it, also when a tab saves the form it opened on them.
THEOREM ParametersAreApproved == Spec => []OnlyApprovedApplied
<1>1. DeskInv => OnlyApprovedApplied
  BY DEF DeskInv, ParamsKept
<1> QED
  BY <1>1, DeskInvariant, PTL

\* setLive checks the gate and writes later: the strategy is live on the mainnet
\* only when the gate has been opened.
THEOREM MainnetWaitsForGate == Spec => []MainnetNeedsGate
<1>1. DeskInv => MainnetNeedsGate
  BY DEF DeskInv, GateKept
<1> QED
  BY <1>1, DeskInvariant, PTL

\* The hand-over reaches paper review only with the risk caps and a backtest of
\* the grade, whichever lists failed to load.
THEOREM HandoffIsEarned == Spec => []PaperReviewIsEarned
<1>1. DeskInv => PaperReviewIsEarned
  BY DEF DeskInv, StageIsEarned, PaperReviewIsEarned
<1> QED
  BY <1>1, DeskInvariant, PTL

\* MarkRejected, the transaction of approve and the optimizer leave a decision
\* as it is.
THEOREM DecisionsAreFinal == Spec => DecisionsStand
<1>1. DeskInv /\ [Next]_vars =>
        [\A r \in Recs : recs[r].status \notin {"none", "pending_review"} =>
                           recs'[r] = recs[r]]_recs
  <2> SUFFICES ASSUME DeskInv, [Next]_vars, recs' # recs
               PROVE  \A r \in Recs : recs[r].status \notin {"none", "pending_review"} =>
                                        recs'[r] = recs[r]
    OBVIOUS
  <2>1. CASE ReviewNext
    BY <2>1, ReviewIs DEF DeskInv, TabInv
  <2>2. ASSUME NEW t \in Tabs, TabNext(t) PROVE FALSE
    BY <2>2, TabNextIs DEF DeskInv, OwnStore
  <2> QED
    BY <2>1, <2>2
       DEF Next, DryRun, FinishBacktest, TurnGate, ChangeAccounts, Turn, reviewVars, vars
<1> QED
  BY <1>1, DeskInvariant, PTL DEF Spec, DecisionsStand

\* The updates find a strategy or do nothing, so none brings a deleted one back.
THEOREM DeletionIsFinal == Spec => DeletedStaysDeleted
<1>1. DeskInv /\ [Next]_vars => [~strategy.kept => strategy' = strategy]_vars
  <2> SUFFICES ASSUME DeskInv, [Next]_vars, ~strategy.kept
               PROVE  strategy' = strategy
    OBVIOUS
  <2>1. CASE ReviewNext
    BY <2>1, ReviewIs DEF DeskInv, TabInv
  <2>2. ASSUME NEW t \in Tabs, TabNext(t) PROVE strategy' = strategy
    BY <2>2, TabNextIs DEF DeskInv, OwnStore
  <2> QED
    BY <2>1, <2>2
       DEF Next, DryRun, FinishBacktest, TurnGate, ChangeAccounts, Turn, reviewVars, vars
<1> QED
  BY <1>1, DeskInvariant, PTL DEF Spec, DeletedStaysDeleted
=============================================================================
