---------------------------- MODULE StrategyDesk ----------------------------
(***************************************************************************)
(* The page of one strategy in several browser tabs (its live, risk and    *)
(* parameter forms, the hand-over of a strategy the AI drafted, and the    *)
(* backtest it offers), the handlers of the gateway those forms call, and, *)
(* beside them, the review of the strategy's recommendations.              *)
(*                                                                         *)
(* A form keeps what was last filled in and is not filled again when its   *)
(* page is refreshed; as a person may fill it in any way before pressing   *)
(* its button, what it holds is chosen at the press.                       *)
(***************************************************************************)
EXTENDS Recommendations, Sequences

CONSTANTS
  Tabs,         \* the tabs that show the strategy
  LiveForms,    \* the ways a person fills in the live form
  MaxBacktests, \* bound: how many backtests of it are made
  MaxTurns      \* bound: how often the mainnet gate or the accounts change

ASSUME DeskAssumption ==
  LiveForms \subseteq Live /\ MaxBacktests \in Nat /\ MaxTurns \in Nat

VARIABLES
  gate,       \* the mainnet gate: "closed" since the start, "open", or "revoked"
  safe,       \* an account may trade and not withdraw
  turns,      \* how often the two changed
  tabs,
  backtests,  \* of this strategy, in the order they were made
  source      \* the backtest that the goal run behind the strategy names, or 0

tabVars == <<gate, safe, turns, tabs, backtests, source>>
vars    == <<strategy, recs, desks, presses, faults,
             gate, safe, turns, tabs, backtests, source>>

\* A backtest: still running, failed, or completed and of paper grade or not.
Backtest == {"active", "failed", "weak", "paper"}

\* What a person asks for, with the forms as they are then.  asking: a dialog
\* is in front of the page; half: the first of two steps is done.
Calls == [what : {"none", "live", "caps", "params", "delete", "backtest"},
          at : {"none", "asking", "sent", "half", "ok", "failed"},
          live : Live, params : Params, caps : BOOLEAN, run : 0 .. MaxBacktests]

Ask(what, at, live, params, caps) ==
  [what |-> what, at |-> at, live |-> live, params |-> params, caps |-> caps, run |-> 0]
NoCall == Ask("none", "none", LiveOff, "draft", FALSE)

Stages == {"live_enabled", "needs_backtest", "validation_rejected", "risk_blocked",
           "account_blocked", "paper_review"}

\* A tab on the page shows parameters and the stage of the hand-over.
Tab  == [at : {"away", "page"}, params : Params, stage : Stages, call : Calls]
Away == [at |-> "away", params |-> "draft", stage |-> "needs_backtest", call |-> NoCall]

Init ==
  /\ ReviewInit
  /\ gate = "closed"
  /\ safe = FALSE
  /\ turns = 0
  /\ tabs = [t \in Tabs |-> Away]
  /\ backtests = <<>>
  /\ source = 0

-----------------------------------------------------------------------------
(* The page *)

Completed == {i \in DOMAIN backtests : backtests[i] \in {"weak", "paper"}}
Proven    == {i \in Completed : backtests[i] = "paper"}

\* Mutant of HandoffStage: it does not ask for the risk caps.
HandoffStageUncapped(sidecars) ==
  IF strategy.live.enabled THEN "live_enabled"
  ELSE IF ~sidecars \/ Completed = {} THEN "needs_backtest"
  ELSE IF Proven = {} THEN "validation_rejected"
  ELSE IF ~safe THEN "account_blocked" ELSE "paper_review"

\* What the panel of an AI draft says is next: the first line that applies.
\* The backtests and the accounts may have failed to load, and count as none.
HandoffStage(sidecars) ==
  LET lines == << <<strategy.live.enabled,             "live_enabled">>,
                  <<~sidecars \/ Completed = {},       "needs_backtest">>,
                  <<Proven = {},                       "validation_rejected">>,
                  <<~strategy.caps,                    "risk_blocked">>,
                  <<~safe,                             "account_blocked">>,
                  <<TRUE,                              "paper_review">> >>
      first == CHOOSE i \in 1 .. 6 : lines[i][1] /\ \A j \in 1 .. i - 1 : ~lines[j][1]
  IN  lines[first][2]

SidecarsFail(sidecars) ==
  IF sidecars THEN faults' = faults
              ELSE faults < MaxFaults /\ faults' = faults + 1

\* The page as rendered from what is stored, with no call under way; without
\* the strategy there is no page.
Rendered(sidecars) ==
  IF strategy.kept
    THEN [at |-> "page", params |-> strategy.params, stage |-> HandoffStage(sidecars),
          call |-> NoCall]
    ELSE Away

Idling(t) == tabs[t].call = NoCall

Open(t, sidecars) ==
  /\ Idling(t)
  /\ SidecarsFail(sidecars)
  /\ tabs' = [tabs EXCEPT ![t] = Rendered(sidecars)]
  /\ UNCHANGED <<strategy, recs, desks, presses, gate, safe, turns, backtests, source>>

\* A button of the page is pressed: a dialog comes up or the call is made.
Press(t, call) ==
  /\ Idling(t)
  /\ tabs[t].at = "page"
  /\ presses < MaxPresses
  /\ presses' = presses + 1
  /\ tabs' = [tabs EXCEPT ![t].call = call]
  /\ UNCHANGED <<strategy, recs, desks, faults, gate, safe, turns, backtests, source>>

\* Only a form that enables live asks first.
onSaveLiveClick(t, live) ==
  Press(t, Ask("live", IF live.enabled THEN "asking" ELSE "sent", live, "draft", FALSE))

onDeleteClick(t) == Press(t, Ask("delete", "asking", LiveOff, "draft", FALSE))

saveRisk(t, caps) == Press(t, Ask("caps", "sent", LiveOff, "draft", caps))

\* The parameter form opens on what the page shows.
onSave(t, params) ==
  /\ params \in {tabs[t].params, "edited"}
  /\ Press(t, Ask("params", "sent", LiveOff, params, FALSE))

\* The hand-over runs a backtest.
runBacktest(t) ==
  /\ tabs[t].stage = "needs_backtest"
  /\ Press(t, Ask("backtest", "sent", LiveOff, "draft", FALSE))

onConfirm(t) ==
  /\ tabs[t].call.at = "asking"
  /\ tabs' = [tabs EXCEPT ![t].call.at = "sent"]
  /\ UNCHANGED <<reviewVars, gate, safe, turns, backtests, source>>

onCancel(t) ==
  /\ tabs[t].call.at = "asking"
  /\ tabs' = [tabs EXCEPT ![t].call = NoCall]
  /\ UNCHANGED <<reviewVars, gate, safe, turns, backtests, source>>

-----------------------------------------------------------------------------
(* The gateway *)

At(t, what, point) == tabs[t].call.what = what /\ tabs[t].call.at = point
Moved(t, point)    == tabs' = [tabs EXCEPT ![t].call.at = point]

\* Mutant of LiveAllowed: the gate is asked only when live is turned on.
LiveAllowedOnce(live) ==
  live.enabled => /\ live.mode = "mainnet" /\ ~strategy.live.enabled => gate = "open"
                  /\ live.account

\* setLive reads the strategy, checks what it is asked for, then writes.
LiveAllowed(live) ==
  live.enabled => /\ live.mode = "mainnet" => gate = "open"
                  /\ live.account

\* Mutant of setLive: what is not allowed gets no answer.
SetLiveSilent(t) ==
  /\ At(t, "live", "sent")
  /\ strategy.kept /\ LiveAllowed(tabs[t].call.live)
  /\ Moved(t, "half")
  /\ UNCHANGED <<reviewVars, gate, safe, turns, backtests, source>>

setLive(t) ==
  /\ At(t, "live", "sent")
  /\ Moved(t, IF strategy.kept /\ LiveAllowed(tabs[t].call.live) THEN "half" ELSE "failed")
  /\ UNCHANGED <<reviewVars, gate, safe, turns, backtests, source>>

\* Mutant of UpdateByID: the update is an upsert.
UpsertByID(field, value) ==
  strategy' = [strategy EXCEPT ![field] = value, !.kept = TRUE]

UpdateByID(field, value) ==
  strategy' = IF strategy.kept THEN [strategy EXCEPT ![field] = value] ELSE strategy

WriteLive(t) ==
  /\ At(t, "live", "half")
  /\ UpdateByID("live", tabs[t].call.live)
  /\ Moved(t, IF strategy.kept THEN "ok" ELSE "failed")
  /\ UNCHANGED <<recs, desks, presses, faults, gate, safe, turns, backtests, source>>

\* The update takes the fields it knows; the risk caps are not among them.
updateParams(t) ==
  /\ At(t, "params", "sent")
  /\ UpdateByID("params", tabs[t].call.params)
  /\ Moved(t, IF strategy.kept THEN "ok" ELSE "failed")
  /\ UNCHANGED <<recs, desks, presses, faults, gate, safe, turns, backtests, source>>

updateRisk(t) ==
  /\ At(t, "caps", "sent")
  /\ Moved(t, IF strategy.kept THEN "ok" ELSE "failed")
  /\ UNCHANGED <<reviewVars, gate, safe, turns, backtests, source>>

remove(t) ==
  /\ At(t, "delete", "sent")
  /\ Moved(t, IF strategy.kept THEN "ok" ELSE "failed")
  /\ strategy' = [strategy EXCEPT !.kept = FALSE]
  /\ UNCHANGED <<recs, desks, presses, faults, gate, safe, turns, backtests, source>>

NewBacktest ==
  /\ Len(backtests) < MaxBacktests
  /\ backtests' = Append(backtests, "active")

\* Mutant of createBacktest: the handle is one ahead.
CreateBacktestAhead(t) ==
  /\ At(t, "backtest", "sent")
  /\ NewBacktest
  /\ tabs' = [tabs EXCEPT ![t].call.at = "half", ![t].call.run = Len(backtests) + 2]
  /\ UNCHANGED <<reviewVars, gate, safe, turns, source>>

\* The button makes the backtest, then has the goal run name it.  Beyond the
\* bound it is refused.
createBacktest(t) ==
  /\ At(t, "backtest", "sent")
  /\ \/ /\ NewBacktest
        /\ tabs' = [tabs EXCEPT ![t].call.at = "half", ![t].call.run = Len(backtests) + 1]
     \/ /\ Len(backtests) = MaxBacktests
        /\ Moved(t, "failed")
        /\ UNCHANGED backtests
  /\ UNCHANGED <<reviewVars, gate, safe, turns, source>>

updateAIGoalRunAction(t) ==
  /\ At(t, "backtest", "half")
  /\ source' = tabs[t].call.run
  /\ Moved(t, "ok")
  /\ UNCHANGED <<reviewVars, gate, safe, turns, backtests>>

\* A request is lost, or the answer to one is.
LoseTabCall(t) ==
  /\ faults < MaxFaults
  /\ faults' = faults + 1
  /\ tabs[t].call.at \in {"sent", "ok"} \/ At(t, "backtest", "half")
  /\ Moved(t, "failed")
  /\ UNCHANGED <<strategy, recs, desks, presses, gate, safe, turns, backtests, source>>

\* The answer.  A failure is said, and a dialog stays open for another try.
\* A success closes it and renders the page anew, from what is stored then; the
\* strategy deleted or the backtest made, the page is left instead.
TabAnswer(t, sidecars) ==
  LET call == tabs[t].call IN
  /\ \/ /\ call.at = "failed"
        /\ sidecars
        /\ tabs' = [tabs EXCEPT ![t].call =
                      IF call.what = "delete" \/ call.live.enabled
                        THEN [call EXCEPT !.at = "asking"] ELSE NoCall]
     \/ /\ call.at = "ok"
        /\ tabs' = [tabs EXCEPT ![t] =
                      IF call.what \in {"delete", "backtest"} THEN Away ELSE Rendered(sidecars)]
  /\ SidecarsFail(sidecars)
  /\ UNCHANGED <<strategy, recs, desks, presses, gate, safe, turns, backtests, source>>

-----------------------------------------------------------------------------
(* Around the page *)

\* The page of a recommendation backtests what it proposes; the result counts
\* as the strategy's, whatever its parameters.
DryRun(r) ==
  /\ recs[r].status # "none"
  /\ NewBacktest
  /\ UNCHANGED <<reviewVars, gate, safe, turns, tabs, source>>

FinishBacktest(i, result) ==
  /\ backtests[i] = "active"
  /\ backtests' = [backtests EXCEPT ![i] = result]
  /\ UNCHANGED <<reviewVars, gate, safe, turns, tabs, source>>

\* An administrator opens the gate or revokes it; accounts come and go.
Turn ==
  /\ turns < MaxTurns
  /\ turns' = turns + 1
  /\ UNCHANGED <<reviewVars, tabs, backtests, source>>

TurnGate       == Turn /\ gate' = (IF gate = "open" THEN "revoked" ELSE "open") /\ safe' = safe
ChangeAccounts == Turn /\ safe' = ~safe /\ gate' = gate

-----------------------------------------------------------------------------

Serve(t) == setLive(t) \/ WriteLive(t) \/ updateParams(t) \/ updateRisk(t) \/ remove(t)
              \/ createBacktest(t) \/ updateAIGoalRunAction(t)

TabNext(t) ==
  \/ \E sidecars \in BOOLEAN : Open(t, sidecars) \/ TabAnswer(t, sidecars)
  \/ \E live \in LiveForms : onSaveLiveClick(t, live)
  \/ \E caps \in BOOLEAN : saveRisk(t, caps)
  \/ \E params \in Params : onSave(t, params)
  \/ runBacktest(t) \/ onDeleteClick(t)
  \/ onConfirm(t) \/ onCancel(t)
  \/ Serve(t) \/ LoseTabCall(t)

Next ==
  \/ ReviewNext /\ UNCHANGED tabVars
  \/ \E t \in Tabs : TabNext(t)
  \/ \E r \in Recs : DryRun(r)
  \/ \E i \in DOMAIN backtests, result \in Backtest \ {"active"} : FinishBacktest(i, result)
  \/ TurnGate
  \/ ChangeAccounts

Spec == Init /\ [][Next]_vars

\* A handler that began comes to its end, and the page hears of it; people
\* press nothing they do not want to.
Fairness == \A t \in Tabs : WF_vars(Serve(t)) /\ WF_vars(TabAnswer(t, TRUE))

FairSpec == Spec /\ Fairness

-----------------------------------------------------------------------------
(* Properties *)

\* The type of the whole state.
TypeOK ==
  /\ ReviewTypeOK
  /\ gate \in {"closed", "open", "revoked"} /\ safe \in BOOLEAN /\ turns \in 0 .. MaxTurns
  /\ tabs \in [Tabs -> Tab]
  /\ backtests \in Seq(Backtest)
  /\ Len(backtests) <= MaxBacktests
  /\ source \in 0 .. Len(backtests)

\* While the gate was never opened the strategy is not live on the mainnet,
\* whichever way the forms of the tabs are saved one over the other.
MainnetNeedsGate ==
  strategy.live.enabled /\ strategy.live.mode = "mainnet" => gate # "closed"

\* The panel sends a draft to paper trading only when the strategy has its
\* risk caps and some backtest of it reached the grade, missing answers or not.
PaperReviewIsEarned ==
  \A t \in Tabs : tabs[t].at = "page" /\ tabs[t].stage = "paper_review" =>
                    strategy.caps /\ Proven # {}

\* A deleted strategy is not brought back by a save or an approval that was
\* under way.
DeletedStaysDeleted == [][~strategy.kept => strategy' = strategy]_vars

\* When the page is told its risk caps are saved, they are stored (one tab).
RiskIsStored == \A t \in Tabs : At(t, "caps", "ok") => strategy.caps = tabs[t].call.caps

\* A tab that waits for an answer does not wait for ever.
TabWaits(t) == tabs[t].call.at \in {"sent", "half", "ok", "failed"}
TabsSettle  == \A t \in Tabs : TabWaits(t) ~> ~TabWaits(t)

=============================================================================
