------------------------------ MODULE RateLimiter ------------------------------
(***************************************************************************)
(* The token bucket of src/bybit/rate_limiter.go that every REST request   *)
(* passes: callers poll for a token, a goroutine refills the bucket after  *)
(* each tick of a ticker whose channel holds one tick, and Stop ends both. *)
(***************************************************************************)
EXTENDS Integers

CONSTANTS
    Callers,    \* goroutines that send REST requests
    Requested,  \* argument of NewRateLimiter
    MaxTicks    \* bound: ticks in the window looked at

ASSUME RequestedIsInt == Requested \in Int
ASSUME MaxTicksIsNat == MaxTicks \in Nat

MaxTokens == IF Requested <= 0 THEN 1 ELSE Requested

VARIABLES
    tokens,     \* rl.tokens
    tick,       \* ticks buffered in rl.refillTicker.C
    ticking,    \* rl.refillTicker runs
    stopped,    \* rl.stopChan is closed
    loop,       \* where refillLoop is: select, refill, ended
    pc,         \* callers in Wait
    cancelled,  \* callers whose context is done
    \* History: a window of time opened at any moment.
    wGranted,   \* tokens granted in it
    wTicks,     \* ticks of the ticker in it
    wRefills    \* refills in it

window == <<wGranted, wTicks, wRefills>>
vars == <<tokens, tick, ticking, stopped, loop, pc, cancelled, window>>

TypeOK ==
    /\ tokens \in 0..MaxTokens
    /\ tick \in 0..1
    /\ ticking \in BOOLEAN /\ stopped \in BOOLEAN
    /\ loop \in {"select", "refill", "ended"}
    /\ pc \in [Callers -> {"idle", "check", "take", "sleep"}]
    /\ cancelled \subseteq Callers
    /\ wGranted \in Nat /\ wTicks \in Nat /\ wRefills \in Nat

Init ==
    /\ tokens = MaxTokens
    /\ tick = 0
    /\ ticking = TRUE /\ stopped = FALSE /\ loop = "select"
    /\ pc = [a \in Callers |-> "idle"]
    /\ cancelled = {}
    /\ wGranted = 0 /\ wTicks = 0 /\ wRefills = 0

-----------------------------------------------------------------------------
Goto(a, label) == pc' = [pc EXCEPT ![a] = label]

\* Variant, for mutation: Wait does not look at stopChan.
IgnoresStop == FALSE

SeesStop == stopped

\* Variant, for mutation: the token is not taken.
SpendNothing(n) == n

Spend(n) == n - 1

\* Variants, for mutation: refills add up, or do nothing.
RefillAdds(n) == n + MaxTokens
RefillForgotten(n) == n

\* Tokens left over do not add up.
Refilled(n) == MaxTokens

Call(a) ==
    /\ pc[a] = "idle"
    /\ Goto(a, "check")
    /\ UNCHANGED <<tokens, tick, ticking, stopped, loop, cancelled, window>>

\* Wait returns, with or without a token.
Leave(a) == Goto(a, "idle") /\ cancelled' = cancelled \ {a}

CheckStop(a) ==
    /\ pc[a] = "check"
    /\ \/ SeesStop /\ Leave(a)
       \/ ~SeesStop /\ Goto(a, "take") /\ UNCHANGED cancelled
    /\ UNCHANGED <<tokens, tick, ticking, stopped, loop, window>>

\* A token is granted even if the context is done, or Stop was called since
\* the check.
Take(a) ==
    /\ pc[a] = "take"
    /\ \/ /\ tokens > 0
          /\ tokens' = Spend(tokens)
          /\ wGranted' = wGranted + 1
          /\ Leave(a)
       \/ /\ tokens <= 0
          /\ Goto(a, "sleep")
          /\ UNCHANGED <<tokens, wGranted, cancelled>>
    /\ UNCHANGED <<tick, ticking, stopped, loop, wTicks, wRefills>>

\* 100 milliseconds pass.
Retry(a) ==
    /\ pc[a] = "sleep" /\ ~SeesStop /\ a \notin cancelled
    /\ Goto(a, "check")
    /\ UNCHANGED <<tokens, tick, ticking, stopped, loop, cancelled, window>>

GiveUp(a) ==
    /\ pc[a] = "sleep" /\ (SeesStop \/ a \in cancelled)
    /\ Leave(a)
    /\ UNCHANGED <<tokens, tick, ticking, stopped, loop, window>>

Cancel(a) ==
    /\ pc[a] # "idle"
    /\ cancelled' = cancelled \cup {a}
    /\ UNCHANGED <<tokens, tick, ticking, stopped, loop, pc, window>>

\* A second passes; a tick nobody has read yet is not queued twice.
Tick ==
    /\ ticking /\ wTicks < MaxTicks
    /\ tick' = 1
    /\ wTicks' = wTicks + 1
    /\ UNCHANGED <<tokens, ticking, stopped, loop, pc, cancelled, wGranted, wRefills>>

\* refillLoop may be scheduled long after the tick, and after Stop.
TakeTick ==
    /\ loop = "select" /\ tick = 1
    /\ tick' = 0 /\ loop' = "refill"
    /\ UNCHANGED <<tokens, ticking, stopped, pc, cancelled, window>>

\* It takes rl.mu only then: the next tick may be waiting already.
Refill ==
    /\ loop = "refill"
    /\ loop' = "select"
    /\ tokens' = Refilled(tokens)
    /\ wRefills' = wRefills + 1
    /\ UNCHANGED <<tick, ticking, stopped, pc, cancelled, wGranted, wTicks>>

LoopEnds ==
    /\ loop = "select" /\ stopped
    /\ loop' = "ended"
    /\ UNCHANGED <<tokens, tick, ticking, stopped, pc, cancelled, window>>

\* Called by Client.Disconnect, any number of times.
Stop ==
    /\ ~stopped
    /\ stopped' = TRUE
    /\ UNCHANGED <<tokens, tick, ticking, loop, pc, cancelled, window>>

\* The end of Stop.  A stopped ticker has no tick waiting.
StopTicker ==
    /\ stopped /\ ticking
    /\ ticking' = FALSE /\ tick' = 0
    /\ UNCHANGED <<tokens, stopped, loop, pc, cancelled, window>>

\* Only the history changes: a window starts now.
OpenWindow ==
    /\ wGranted' = 0 /\ wTicks' = 0 /\ wRefills' = 0
    /\ UNCHANGED <<tokens, tick, ticking, stopped, loop, pc, cancelled>>

WaitStep(a) == CheckStop(a) \/ Take(a) \/ Retry(a) \/ GiveUp(a)

Next ==
    \/ \E a \in Callers : Call(a) \/ WaitStep(a) \/ Cancel(a)
    \/ Tick \/ TakeTick \/ Refill \/ LoopEnds \/ Stop \/ StopTicker \/ OpenWindow

Spec == Init /\ [][Next]_vars

-----------------------------------------------------------------------------
\* What the bucket promises of any stretch of time, whenever it starts and
\* however late refillLoop runs: a full bucket, one refill for each tick in it,
\* one for a tick that was waiting and one for a tick that refillLoop had
\* received.  A second, with its one tick, may thus see up to four times the
\* configured rate.
WindowBound == wGranted <= MaxTokens * (wTicks + 3)

\* Callers of Wait and refillLoop keep running, and seconds pass: a new window
\* lifts the bound on the ticks counted.
FairSpec ==
    /\ Spec
    /\ \A a \in Callers : WF_vars(WaitStep(a))
    /\ WF_vars(Tick) /\ WF_vars(TakeTick) /\ WF_vars(Refill) /\ WF_vars(OpenWindow)

\* After Stop, every call of Wait returns, even with no token left.
StopReleases == \A a \in Callers : (stopped /\ pc[a] # "idle") ~> pc[a] = "idle"

\* An empty bucket fills up again as long as the limiter is not stopped.
TokensReturn == (tokens = 0) ~> (tokens > 0 \/ stopped)
=============================================================================
