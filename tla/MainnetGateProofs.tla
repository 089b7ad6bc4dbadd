-------------------------- MODULE MainnetGateProofs --------------------------
(***************************************************************************)
(* Theorems about MainnetGate, for every lifetime, clock bound and number  *)
(* of tokens and calls.                                                    *)
(***************************************************************************)
EXTENDS MainnetGate, TLAPS

\* A pending token expires RequestTTL after it was generated.
Pending ==
  \A t \in DOMAIN requested :
    t \in DOMAIN issued /\ requested[t] = issued[t] + RequestTTL

\* A confirmed token is no longer pending, and was confirmed in time.
Spent ==
  \A g \in grants :
    /\ g.token \in DOMAIN issued \ DOMAIN requested
    /\ g.at <= issued[g.token] + RequestTTL
    /\ g.at <= now

\* The window, if there is one, is that of a confirmation.
Window ==
  confirmedExpiry = 0 \/ \E g \in grants : confirmedExpiry = g.at + ConfirmedTTL

Typed == TypeOK /\ now > 0
GateInv == Typed /\ Pending /\ Spent /\ Window /\ TokenUsedOnce /\ SentUnderWindow

LEMMA GateInvInit == Init => GateInv
BY DEF Init, Empty, GateInv, Typed, TypeOK, Pending, Spent, Window,
   TokenUsedOnce, SentUnderWindow

\* An open gate is earned now.
LEMMA OpenIsEarned ==
  ASSUME GateInv, Allowed
  PROVE  \E g \in grants : g.at <= now /\ Earned(g, now)
<1>1. PICK g \in grants : confirmedExpiry = g.at + ConfirmedTTL
  BY DEF GateInv, Typed, TypeOK, Window, Allowed
<1> QED
  BY <1>1 DEF GateInv, Spent, Allowed, Earned

\* The calls under way stay earned when the past is kept.
LEMMA CallsStayEarned ==
  ASSUME GateInv, UNCHANGED <<call, passed>>, grants \subseteq grants',
         \A t \in DOMAIN issued : t \in DOMAIN issued' /\ issued'[t] = issued[t]
  PROVE  SentUnderWindow'
BY DEF GateInv, SentUnderWindow, Earned

LEMMA GateInvNext ==
  ASSUME GateInv, [Next]_vars
  PROVE  GateInv'
<1> USE TTLs
<1>0. Typed /\ Pending /\ Spent /\ Window /\ TokenUsedOnce /\ SentUnderWindow
  BY DEF GateInv
<1>1. CASE Tick
  <2>1. SentUnderWindow'
    BY <1>1, CallsStayEarned DEF Tick
  <2> QED
    BY <1>0, <1>1, <2>1 DEF Tick, GateInv, Typed, TypeOK, Pending, Spent,
       Window, TokenUsedOnce, Grants
<1>2. ASSUME NEW t \in Tokens, RequestToken(t) PROVE GateInv'
  <2>1. UNCHANGED <<now, envEnabled, confirmedExpiry, call, grants, passed>>
        /\ t \notin DOMAIN issued
        /\ issued' = [u \in DOMAIN issued \cup {t} |->
                        IF u = t THEN now ELSE issued[u]]
    BY <1>2 DEF RequestToken
  <2>2. /\ DOMAIN requested' \subseteq DOMAIN requested \cup {t}
        /\ requested' = [u \in DOMAIN requested' |->
                           IF u = t THEN now + RequestTTL ELSE requested[u]]
    BY <1>2 DEF RequestToken, Without
  <2>3. TypeOK' /\ now' > 0
    BY <1>0, <2>1, <2>2 DEF Typed, TypeOK
  <2>4. Pending'
    BY <1>0, <2>1, <2>2 DEF Pending
  <2>5. Spent'
    BY <1>0, <2>1, <2>2 DEF Spent
  <2>6. Window' /\ TokenUsedOnce'
    BY <1>0, <2>1 DEF Window, TokenUsedOnce
  <2>7. SentUnderWindow'
    BY <2>1, CallsStayEarned
  <2> QED BY <2>3, <2>4, <2>5, <2>6, <2>7 DEF GateInv, Typed
<1>3. ASSUME NEW t \in Tokens, Confirm(t) PROVE GateInv'
  <2> DEFINE g == [token |-> t, at |-> now]
  <2>1. UNCHANGED <<now, envEnabled, call, issued, passed>>
        /\ t \in DOMAIN requested
        /\ requested' = [u \in DOMAIN requested \ {t} |-> requested[u]]
    BY <1>3 DEF Confirm, Without
  <2>2. \/ UNCHANGED <<confirmedExpiry, grants>>
        \/ /\ now <= requested[t] /\ confirmedExpiry' = now + ConfirmedTTL
           /\ grants' = grants \cup {g}
    BY <1>0, <1>3 DEF Confirm, Expired, Typed, TypeOK
  <2>3. TypeOK' /\ now' > 0
    BY <1>0, <2>1, <2>2 DEF Typed, TypeOK, Grants
  <2>4. Pending'
    BY <1>0, <2>1 DEF Pending
  <2>5. Spent'
    BY <1>0, <2>1, <2>2 DEF Spent, Pending, Typed, TypeOK
  <2>6. Window'
    <3>1. CASE UNCHANGED <<confirmedExpiry, grants>>
      BY <1>0, <3>1 DEF Window
    <3>2. CASE confirmedExpiry' = now + ConfirmedTTL /\ grants' = grants \cup {g}
      <4>1. g \in grants' /\ g.at = now
        BY <3>2
      <4> QED BY <3>2, <4>1 DEF Window
    <3> QED BY <2>2, <3>1, <3>2
  <2>7. TokenUsedOnce'
    BY <1>0, <2>1, <2>2 DEF TokenUsedOnce, Spent
  <2>8. SentUnderWindow'
    BY <2>1, <2>2, CallsStayEarned
  <2> QED BY <2>3, <2>4, <2>5, <2>6, <2>7, <2>8 DEF GateInv, Typed
<1>4. CASE Restart
  BY <1>0, <1>4 DEF Restart, Empty, GateInv, Typed, TypeOK, Pending, Spent,
     Window, TokenUsedOnce, SentUnderWindow
<1>5. ASSUME NEW c \in Calls, Guard(c) PROVE GateInv'
  <2>1. \E g \in grants : g.at <= now /\ Earned(g, now)
    BY <1>5, OpenIsEarned DEF Guard
  <2>2. SentUnderWindow'
    BY <1>0, <1>5, <2>1 DEF Guard, SentUnderWindow, Earned, Typed, TypeOK
  <2> QED
    BY <1>0, <1>5, <2>2 DEF Guard, GateInv, Typed, TypeOK, Pending, Spent,
       Window, TokenUsedOnce
<1>6. ASSUME NEW c \in Calls, Send(c) \/ Return(c) PROVE GateInv'
  <2>1. SentUnderWindow'
    BY <1>0, <1>6 DEF Send, Return, SentUnderWindow, Earned, Typed, TypeOK
  <2> QED
    BY <1>0, <1>6, <2>1 DEF Send, Return, GateInv, Typed, TypeOK, Pending,
       Spent, Window, TokenUsedOnce
<1>7. CASE UNCHANGED vars
  BY <1>0, <1>7 DEF vars, GateInv, Typed, TypeOK, Pending, Spent, Window,
     TokenUsedOnce, SentUnderWindow, Earned
<1> QED
  BY <1>1, <1>2, <1>3, <1>4, <1>5, <1>6, <1>7 DEF Next

LEMMA GateInvAlways == Spec => []GateInv
BY GateInvInit, GateInvNext, PTL DEF Spec

\* The store keeps its types: every pending token has an expiry, and
\* what is confirmed is a token with the time of its confirmation.
THEOREM GateTypeCorrect == Spec => []TypeOK
BY GateInvAlways, PTL DEF GateInv, Typed

\* The gate is open only while a confirmation of this process, made in time,
\* has not run out.
THEOREM OpenOnlyWhenEarned == Spec => []WindowIsEarned
<1>1. GateInv => WindowIsEarned
  BY OpenIsEarned DEF WindowIsEarned
<1> QED
  BY <1>1, GateInvAlways, PTL

\* A token opens the gate at most once.
THEOREM TokensAreSpent == Spec => []TokenUsedOnce
BY GateInvAlways, PTL DEF GateInv

\* A mainnet request in flight passed the guard in a window earned then.
THEOREM SendsWereEarned == Spec => []SentUnderWindow
BY GateInvAlways, PTL DEF GateInv
==============================================================================
