----------------------------- MODULE Reconnect -----------------------------
(***************************************************************************)
(* rb-transport/src/reconnect.rs: Backoff and the loop run around it. The  *)
(* loop is written for any Backoff::new_with(initial, max); the code's own *)
(* is new(), that is (1, 32).                                              *)
(***************************************************************************)
EXTENDS Integers

CONSTANTS
    Settings,   \* the <<initial_secs, max_secs>> a Backoff is made with
    MaxU64,     \* the largest u64
    MaxFails    \* bound: consecutive failures that are explored

ASSUME MaxU64Assumption   == MaxU64 \in Nat \ {0}
ASSUME SettingsAssumption == Settings \subseteq (0 .. MaxU64) \X (0 .. MaxU64)
ASSUME MaxFailsAssumption == MaxFails \in Nat

VARIABLES
    auto,       \* auto_reconnect
    initial,    \* Backoff.initial_secs
    max,        \* Backoff.max_secs
    next,       \* Backoff.next_secs
    pc,         \* where run stands
    delay,      \* the last delay slept
    fails       \* attempts in a row that ended in a sleep without a connection

settings == <<auto, initial, max>>
vars == <<settings, next, pc, delay, fails>>

Least(a, b) == IF a <= b THEN a ELSE b

\* saturating_mul(2).min(max_secs)
Double(n) == Least(Least(2 * n, MaxU64), max)

\* new_with
Init ==
    /\ auto \in BOOLEAN
    /\ \E s \in Settings : initial = s[1] /\ max = s[2]
    /\ next = Least(initial, max)
    /\ pc = "connect"
    /\ delay = 0
    /\ fails = 0

\* backoff.next_delay() and the sleep.
Sleep ==
    /\ delay' = next
    /\ next' = Double(next)

\* Mutation: the backoff is not reset by a connection.
BugConnectedNoReset ==
    /\ pc = "connect"
    /\ pc' = "serve"
    /\ fails' = 0
    /\ UNCHANGED <<settings, next, delay>>

\* connect() succeeds; only the reconnecting loop has a backoff to reset.
Connected ==
    /\ pc = "connect"
    /\ pc' = "serve"
    /\ next' = IF auto THEN initial ELSE next
    /\ fails' = 0
    /\ UNCHANGED <<settings, delay>>

ConnectFails ==
    /\ pc = "connect"
    /\ auto /\ fails < MaxFails
    /\ pc' = "sleep"
    /\ Sleep
    /\ fails' = fails + 1
    /\ UNCHANGED settings

\* serve() is over, with or without an error: sleep, then connect again.
Served ==
    /\ pc = "serve"
    /\ auto
    /\ pc' = "sleep"
    /\ Sleep
    /\ fails' = fails + 1
    /\ UNCHANGED settings

Awake ==
    /\ pc = "sleep"
    /\ pc' = "connect"
    /\ UNCHANGED <<settings, next, delay, fails>>

\* Without auto_reconnect the first error, or the end of serve, is the result.
Return ==
    /\ ~auto
    /\ pc \in {"connect", "serve"}
    /\ pc' = "returned"
    /\ UNCHANGED <<settings, next, delay, fails>>

Next == Connected \/ ConnectFails \/ Served \/ Awake \/ Return

Spec == Init /\ [][Next]_vars

----------------------------------------------------------------------------

\* reconnect.rs: "capped exponential backoff". After k attempts in a row the
\* sleep was initial * 2^(k-1), capped by max; a connection starts over. It
\* holds when initial <= max.
DelayDoubles == pc = "sleep" => delay = Least(initial * 2 ^ (fails - 1), max)
=============================================================================
