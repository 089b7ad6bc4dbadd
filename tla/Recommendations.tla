--------------------------- MODULE Recommendations ---------------------------
(***************************************************************************)
(* The review of the recommendations the optimizer makes for one strategy: *)
(* the pages that approve and reject them (desks) and the two handlers of  *)
(* the gateway behind them, each step of a handler that reaches the store  *)
(* an action.  One desk is one open page: the page of a recommendation,    *)
(* which decides one, or the list, which rejects several at once.          *)
(*                                                                         *)
(* A set of parameters is named after the recommendation that proposed it. *)
(***************************************************************************)
EXTENDS Naturals, FiniteSets

CONSTANTS
  Recs,        \* the recommendations the optimizer may write
  Desks,       \* the pages open on them
  MaxPresses,  \* bound: how often a person confirms or saves something
  MaxFaults    \* bound: how many calls fail on the way

ASSUME RecsAssumption   == Recs \cap {"draft", "edited"} = {}
ASSUME BoundsAssumption == MaxPresses \in Nat /\ MaxFaults \in Nat

VARIABLES strategy, recs, desks, presses, faults

reviewVars == <<strategy, recs, desks, presses, faults>>

Params   == Recs \cup {"draft", "edited"}
Live     == [enabled : BOOLEAN, mode : {"testnet", "mainnet"}, account : BOOLEAN]
LiveOff  == [enabled |-> FALSE, mode |-> "testnet", account |-> FALSE]
Strategy == [kept : BOOLEAN, params : Params, version : Nat, live : Live, caps : BOOLEAN]

\* born is auxiliary: the version of the strategy when the recommendation
\* was written.
Rec    == [status : {"none", "pending_review", "approved", "rejected", "superseded"},
           applied : Nat, born : Nat]
Unborn == [status |-> "none", applied |-> 0, born |-> 0]

\* What the page is deciding, how far the call for each recommendation is, and
\* the version its approval read.
Phases == {"none", "sent", "found", "loaded", "applied", "ok", "failed"}
Desk   == [ask : {"approve", "reject"}, calls : [Recs -> Phases], base : Nat]

Quiet == [r \in Recs |-> "none"]
Idle  == [ask |-> "reject", calls |-> Quiet, base |-> 0]

Pending  == {r \in Recs : recs[r].status = "pending_review"}
Approved == {r \in Recs : recs[r].status = "approved"}

ReviewInit ==
  /\ \E caps \in BOOLEAN :
       strategy = [kept |-> TRUE, params |-> "draft", version |-> 0, live |-> LiveOff,
                   caps |-> caps]
  /\ recs = [r \in Recs |-> Unborn]
  /\ desks = [d \in Desks |-> Idle]
  /\ presses = 0
  /\ faults = 0

-----------------------------------------------------------------------------
(* The optimizer *)

\* Mutant of insert_recommendation: the status is not the gateway's word for it.
InsertPending(r) ==
  /\ recs[r].status = "none"
  /\ recs' = [recs EXCEPT ![r] = [status |-> "pending", applied |-> 0, born |-> strategy.version]]
  /\ UNCHANGED <<strategy, desks, presses, faults>>

\* A study ends with a set of parameters worth proposing.  It read the
\* strategy when it began and does not look again.
insert_recommendation(r) ==
  /\ recs[r].status = "none"
  /\ recs' = [recs EXCEPT ![r] = [status |-> "pending_review", applied |-> 0,
                                  born |-> strategy.version]]
  /\ UNCHANGED <<strategy, desks, presses, faults>>

-----------------------------------------------------------------------------
(* The pages *)

Busy(d) == desks[d].calls # Quiet

\* A dialog of the page is confirmed: one call for each recommendation it is
\* about.  The page offers what was to be decided when it was rendered, which
\* may have been decided since.
handleConfirm(d, ask, picked) ==
  /\ ~Busy(d)
  /\ \A r \in picked : recs[r].status # "none"
  /\ ask = "approve" => \E r \in Recs : picked = {r}
  /\ presses < MaxPresses
  /\ presses' = presses + 1
  /\ desks' = [desks EXCEPT ![d] =
       [ask |-> ask, base |-> 0,
        calls |-> [r \in Recs |-> IF r \in picked THEN "sent" ELSE "none"]]]
  /\ UNCHANGED <<strategy, recs, faults>>

\* Every call is answered: the page says what became of them and can be used
\* again.  After a failure the dialog is still open, and may be confirmed again.
Answered(d) ==
  /\ Busy(d)
  /\ \A r \in Recs : desks[d].calls[r] \in {"none", "ok", "failed"}
  /\ desks' = [desks EXCEPT ![d] = Idle]
  /\ UNCHANGED <<strategy, recs, presses, faults>>

-----------------------------------------------------------------------------
(* The gateway *)

Call(d, r)         == desks[d].calls[r]
Moves(d, r, phase) == desks' = [desks EXCEPT ![d].calls[r] = phase]

\* Mutant of FindByIDForUser: approving one that is decided counts as done.
FindByIDForUserKindly(d, r) ==
  /\ Call(d, r) = "sent"
  /\ Moves(d, r, IF desks[d].ask = "approve" /\ r \notin Pending THEN "ok" ELSE "found")
  /\ UNCHANGED <<strategy, recs, presses, faults>>

\* Both handlers look the recommendation up; approving stops at one that is
\* decided already.
FindByIDForUser(d, r) ==
  /\ Call(d, r) = "sent"
  /\ Moves(d, r, IF desks[d].ask = "approve" /\ r \notin Pending THEN "failed" ELSE "found")
  /\ UNCHANGED <<strategy, recs, presses, faults>>

\* Mutant of MarkRejected: the update does not ask for the status.
MarkRejectedAlways(d, r) ==
  /\ Call(d, r) = "found"
  /\ desks[d].ask = "reject"
  /\ Moves(d, r, "ok")
  /\ recs' = [recs EXCEPT ![r].status = "rejected"]
  /\ UNCHANGED <<strategy, presses, faults>>

\* reject: only a pending one is changed; any other is answered as it stands.
MarkRejected(d, r) ==
  /\ Call(d, r) = "found"
  /\ desks[d].ask = "reject"
  /\ Moves(d, r, "ok")
  /\ recs' = IF r \in Pending THEN [recs EXCEPT ![r].status = "rejected"] ELSE recs
  /\ UNCHANGED <<strategy, presses, faults>>

\* approve: the strategy is read before the transaction begins.
FindStrategy(d, r) ==
  /\ Call(d, r) = "found"
  /\ desks[d].ask = "approve"
  /\ desks' = [desks EXCEPT
                 ![d].calls[r] = IF strategy.kept THEN "loaded" ELSE "failed",
                 ![d].base     = IF strategy.kept THEN strategy.version ELSE 0]
  /\ UNCHANGED <<strategy, recs, presses, faults>>

\* Mutant of Superseding: the others stay pending.
SupersedingNone(r, version) ==
  [recs EXCEPT ![r].status = "approved", ![r].applied = version]

\* The transaction: the strategy takes the parameters and the next version,
\* the recommendation is approved if it is pending still, and the others that
\* are pending are superseded.
Superseding(r, version) ==
  [q \in Recs |->
     IF q = r THEN [recs[q] EXCEPT !.status = "approved", !.applied = version]
     ELSE IF q \in Pending THEN [recs[q] EXCEPT !.status = "superseded"]
     ELSE recs[q]]

\* Mutant of Commits: the update does not ask for the status.
CommitsAnyway(r) == strategy.kept

Commits(r) == strategy.kept /\ r \in Pending

\* Mutant of approve: two updates in a row instead of a transaction.
ApproveUnrolled(d, r) ==
  LET newVersion == desks[d].base + 1 IN
  /\ Call(d, r) = "loaded"
  /\ strategy' = IF strategy.kept THEN [strategy EXCEPT !.params = r, !.version = newVersion]
                 ELSE strategy
  /\ recs' = IF Commits(r) THEN Superseding(r, newVersion) ELSE recs
  /\ Moves(d, r, IF Commits(r) THEN "applied" ELSE "failed")
  /\ UNCHANGED <<presses, faults>>

approve(d, r) ==
  LET newVersion == desks[d].base + 1 IN
  /\ Call(d, r) = "loaded"
  /\ IF Commits(r)
       THEN /\ strategy' = [strategy EXCEPT !.params = r, !.version = newVersion]
            /\ recs' = Superseding(r, newVersion)
            /\ Moves(d, r, "applied")
       ELSE /\ UNCHANGED <<strategy, recs>>
            /\ Moves(d, r, "failed")
  /\ UNCHANGED <<presses, faults>>

\* Both documents are read again for the answer; a strategy deleted since
\* makes it an error, although the approval stands.
ReadAgain(d, r) ==
  /\ Call(d, r) = "applied"
  /\ Moves(d, r, IF strategy.kept THEN "ok" ELSE "failed")
  /\ UNCHANGED <<strategy, recs, presses, faults>>

\* A call that does not reach the gateway, or whose answer does not come back.
LoseCall(d, r) ==
  /\ faults < MaxFaults
  /\ Call(d, r) \in {"sent", "ok"}
  /\ Moves(d, r, "failed")
  /\ faults' = faults + 1
  /\ UNCHANGED <<strategy, recs, presses>>

-----------------------------------------------------------------------------

Handle(d, r) == FindByIDForUser(d, r) \/ MarkRejected(d, r) \/ FindStrategy(d, r)
                  \/ approve(d, r) \/ ReadAgain(d, r)

ReviewNext ==
  \/ \E r \in Recs : insert_recommendation(r)
  \/ \E d \in Desks :
       \/ \E ask \in {"approve", "reject"}, picked \in SUBSET Recs :
            handleConfirm(d, ask, picked)
       \/ Answered(d)
       \/ \E r \in Recs : Handle(d, r) \/ LoseCall(d, r)

-----------------------------------------------------------------------------
(* Properties *)

\* The shape of the review's state: an approval carries the version it made.
ReviewTypeOK ==
  /\ strategy \in Strategy
  /\ recs \in [Recs -> Rec]
  /\ desks \in [Desks -> Desk]
  /\ presses \in 0 .. MaxPresses /\ faults \in 0 .. MaxFaults

\* However the approvals of several pages interleave, each gives the strategy
\* a version of its own, and the strategy has the highest, although approve
\* computes it from a strategy it read before its transaction.
VersionsAreOwn ==
  /\ \A r \in Approved : recs[r].applied \in 1 .. strategy.version
  /\ \A q, r \in Approved : recs[q].applied = recs[r].applied => q = r

\* A recommendation is applied to the version it was written for: an approval
\* supersedes everything pending beside it, so nothing older is applied later.
AppliedToItsVersion == \A r \in Approved : recs[r].applied = recs[r].born + 1

\* The parameters in force are the ones the strategy was made with, a hand
\* edit, or those of a recommendation a person approved; a transaction that
\* finds its recommendation decided leaves no trace.
OnlyApprovedApplied == strategy.params \in Recs => strategy.params \in Approved

\* A page that hears its approval succeeded speaks of a recommendation that is
\* approved and stays so, whatever the other pages do.
ApprovalIsHeard ==
  \A d \in Desks, r \in Recs :
    desks[d].ask = "approve" /\ Call(d, r) = "ok" => r \in Approved

\* A decision is final: no handler, however late, changes it.
DecisionsStand ==
  [][\A r \in Recs : recs[r].status \notin {"none", "pending_review"} => recs'[r] = recs[r]]_recs
=============================================================================
