----------------------------- MODULE MainnetGate -----------------------------
(***************************************************************************)
(* The token store that gates mainnet trading in one gateway process       *)
(* (internal/orderengine/mainnet_gate.go), the two administrative          *)
(* operations that open it, and the adapter calls of all the venues that   *)
(* consult it. Every method runs under the store's mutex, so it is one     *)
(* step here, and its reads of the (monotonic) clock are one read.         *)
(***************************************************************************)
EXTENDS Naturals, FiniteSets

CONSTANTS
  Tokens,        \* what crypto/rand returns, each value once
  Calls,         \* goroutines that make venue calls
  RequestTTL,    \* how long a requested token can be confirmed
  ConfirmedTTL,  \* how long a confirmation opens the gate
  MaxTime        \* bound of the clock

ASSUME TTLs == RequestTTL \in Nat /\ ConfirmedTTL \in Nat

VARIABLES
  now,              \* the clock
  envEnabled,       \* MAINNET_TRADING_ENABLED when the process started
  requested,        \* requested[token] = expiry, for the pending tokens
  confirmedExpiry,  \* when the window closes; 0 is Go's zero time
  call,             \* where each venue call is
  issued,           \* history: when each token was generated
  grants,           \* history: the confirmations of this process
  passed            \* history: when each call passed the guard

vars == <<now, envEnabled, requested, confirmedExpiry, call, issued, grants,
          passed>>

Grants == [token : Tokens, at : Nat]

TypeOK ==
  /\ now \in Nat /\ envEnabled \in BOOLEAN
  /\ requested \in [DOMAIN requested -> Nat \ {0}]
  /\ DOMAIN requested \subseteq Tokens
  /\ confirmedExpiry \in Nat
  /\ call \in [Calls -> {"idle", "guarded", "sent"}]
  /\ issued \in [DOMAIN issued -> Nat]
  /\ DOMAIN issued \subseteq Tokens
  /\ grants \subseteq Grants
  /\ passed \in [Calls -> Nat]

Empty == [t \in {} |-> 0]

\* NewTokenStore.
Init ==
  /\ now = 1
  /\ envEnabled \in BOOLEAN
  /\ requested = Empty
  /\ confirmedExpiry = 0
  /\ call = [c \in Calls |-> "idle"]
  /\ issued = Empty /\ grants = {}
  /\ passed = [c \in Calls |-> 0]

Tick ==
  /\ now < MaxTime
  /\ now' = now + 1
  /\ UNCHANGED <<envEnabled, requested, confirmedExpiry, call, issued, grants,
                 passed>>

-----------------------------------------------------------------------------
(* The store *)

\* Mutant of Expired: the request lifetime is not enforced.
ExpiredNever(exp) == FALSE

\* now.After(exp)
Expired(exp) == now > exp

\* Mutant of Allowed: the window is closed one instant late.
AllowedInclusive == envEnabled /\ now <= confirmedExpiry

\* Allowed: the switch, and now.Before(confirmedExpiry).
Allowed == envEnabled /\ now < confirmedExpiry

\* Mutants of Without: a token is not consumed, or only its expiry is reset.
WithoutNothing(f, gone) == f
WithoutZeroed(f, gone) == [t \in DOMAIN f |-> IF t \in gone THEN 0 ELSE f[t]]

\* delete on a map
Without(f, gone) == [t \in DOMAIN f \ gone |-> f[t]]

\* RequestToken, cleanLocked included.
RequestToken(t) ==
  /\ envEnabled
  /\ t \notin DOMAIN issued
  /\ LET added == [u \in DOMAIN requested \cup {t} |->
                     IF u = t THEN now + RequestTTL ELSE requested[u]]
         stale == {u \in DOMAIN added : Expired(added[u])}
     IN requested' = Without(added, stale)
  /\ issued' = [u \in DOMAIN issued \cup {t} |->
                  IF u = t THEN now ELSE issued[u]]
  /\ UNCHANGED <<now, envEnabled, confirmedExpiry, call, grants, passed>>

\* Confirm: the token is consumed whether or not it is still valid.
Confirm(t) ==
  /\ envEnabled
  /\ t \in DOMAIN requested
  /\ requested' = Without(requested, {t})
  /\ \/ /\ ~Expired(requested[t])
        /\ confirmedExpiry' = now + ConfirmedTTL
        /\ grants' = grants \cup {[token |-> t, at |-> now]}
     \/ /\ Expired(requested[t])
        /\ UNCHANGED <<confirmedExpiry, grants>>
  /\ UNCHANGED <<now, envEnabled, call, issued, passed>>

\* The process dies and starts again, perhaps with another environment.
Restart ==
  /\ envEnabled' \in BOOLEAN
  /\ requested' = Empty
  /\ confirmedExpiry' = 0
  /\ call' = [c \in Calls |-> "idle"]
  /\ grants' = {}
  /\ UNCHANGED <<now, issued, passed>>

-----------------------------------------------------------------------------
(* The venue calls: guard(), then the signed request *)

Guard(c) ==
  /\ call[c] = "idle"
  /\ Allowed
  /\ call' = [call EXCEPT ![c] = "guarded"]
  /\ passed' = [passed EXCEPT ![c] = now]
  /\ UNCHANGED <<now, envEnabled, requested, confirmedExpiry, issued, grants>>

Send(c) ==
  /\ call[c] = "guarded"
  /\ call' = [call EXCEPT ![c] = "sent"]
  /\ UNCHANGED <<now, envEnabled, requested, confirmedExpiry, issued, grants,
                 passed>>

Return(c) ==
  /\ call[c] = "sent"
  /\ call' = [call EXCEPT ![c] = "idle"]
  /\ UNCHANGED <<now, envEnabled, requested, confirmedExpiry, issued, grants,
                 passed>>

Next ==
  \/ Tick \/ Restart
  \/ \E t \in Tokens : RequestToken(t) \/ Confirm(t)
  \/ \E c \in Calls : Guard(c) \/ Send(c) \/ Return(c)

Spec == Init /\ [][Next]_vars

-----------------------------------------------------------------------------

\* A confirmation that both lifetimes allow to open the gate at a given time.
Earned(g, time) ==
  /\ g.token \in DOMAIN issued
  /\ g.at <= issued[g.token] + RequestTTL
  /\ time < g.at + ConfirmedTTL

\* The gate is open only in a process started with the switch on, in which a
\* token was confirmed within RequestTTL of its request and less than
\* ConfirmedTTL ago. No window survives a restart.
WindowIsEarned ==
  Allowed => \E g \in grants : Earned(g, now)

\* A token opens the gate at most once, however often it is confirmed.
TokenUsedOnce ==
  \A g, h \in grants : g.token = h.token => g = h

\* A mainnet request in flight passed the guard in a window that the present
\* process had earned then, though the window may have closed since.
SentUnderWindow ==
  \A c \in Calls : call[c] # "idle" =>
    \E g \in grants : g.at <= passed[c] /\ Earned(g, passed[c])
==============================================================================
