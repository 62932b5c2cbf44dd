--------------------------- MODULE RateLimiterProofs ---------------------------
(***************************************************************************)
(* The bound on the rate of requests, for every configured rate, number of *)
(* callers and length of window.                                           *)
(***************************************************************************)
EXTENDS RateLimiter, TLAPS

LEMMA MaxTokensIsPositive == MaxTokens \in Nat /\ MaxTokens > 0
BY RequestedIsInt DEF MaxTokens

LEMMA TypeInductive == TypeOK /\ [Next]_vars => TypeOK'
<1> SUFFICES ASSUME TypeOK, [Next]_vars PROVE TypeOK'
  OBVIOUS
<1> USE MaxTokensIsPositive DEF TypeOK
<1>1. ASSUME NEW a \in Callers, Call(a) PROVE TypeOK'
  BY <1>1 DEF Call, Goto, window
<1>2. ASSUME NEW a \in Callers, CheckStop(a) PROVE TypeOK'
  BY <1>2 DEF CheckStop, Leave, Goto, window
<1>3. ASSUME NEW a \in Callers, Take(a) PROVE TypeOK'
  BY <1>3 DEF Take, Leave, Goto, Spend
<1>4. ASSUME NEW a \in Callers, Retry(a) PROVE TypeOK'
  BY <1>4 DEF Retry, Goto, window
<1>5. ASSUME NEW a \in Callers, GiveUp(a) PROVE TypeOK'
  BY <1>5 DEF GiveUp, Leave, Goto, window
<1>6. ASSUME NEW a \in Callers, Cancel(a) PROVE TypeOK'
  BY <1>6 DEF Cancel, window
<1>7. CASE Tick
  BY <1>7 DEF Tick
<1>8. CASE TakeTick \/ Refill
  BY <1>8 DEF TakeTick, Refill, Refilled, window
<1>9. CASE LoopEnds
  BY <1>9 DEF LoopEnds, window
<1>10. CASE Stop
  BY <1>10 DEF Stop, window
<1>11. CASE StopTicker
  <2>1. ticking' \in BOOLEAN
    BY <1>11, Zenon DEF StopTicker
  <2> QED
    BY <1>11, <2>1 DEF StopTicker, window
<1>12. CASE OpenWindow
  BY <1>12 DEF OpenWindow
<1>13. CASE UNCHANGED vars
  BY <1>13 DEF vars, window
<1> QED
  BY <1>1, <1>2, <1>3, <1>4, <1>5, <1>6, <1>7, <1>8, <1>9, <1>10, <1>11, <1>12,
     <1>13 DEF Next, WaitStep

\* Ticks that refillLoop has received and not answered.
InHand == IF loop = "refill" THEN 1 ELSE 0

\* What was granted came from the bucket as the window found it and from the
\* refills; each refill but two is owed to a tick of the window.
Ledger ==
    /\ wGranted + tokens <= MaxTokens * (wRefills + 1)
    /\ wRefills + tick + InHand <= wTicks + 2

LEMMA LedgerStep ==
    ASSUME TypeOK, Ledger, [Next]_vars
    PROVE  Ledger'
<1> USE MaxTokensIsPositive DEF TypeOK, Ledger, InHand
<1>1. ASSUME NEW a \in Callers, Take(a) PROVE Ledger'
  BY <1>1 DEF Take, Spend
<1>2. CASE Refill
  <2>1. MaxTokens * (wRefills + 1 + 1) = MaxTokens * (wRefills + 1) + MaxTokens
    OBVIOUS
  <2>2. wGranted <= MaxTokens * (wRefills + 1)
    OBVIOUS
  <2> QED
    BY <1>2, <2>1, <2>2 DEF Refill, Refilled
<1>3. CASE Tick
  BY <1>3 DEF Tick
<1>4. CASE TakeTick
  BY <1>4 DEF TakeTick, window
<1>5. CASE StopTicker
  BY <1>5 DEF StopTicker, window
<1>6. CASE LoopEnds
  BY <1>6 DEF LoopEnds, window
<1>7. CASE OpenWindow
  BY <1>7 DEF OpenWindow
<1>8. CASE UNCHANGED <<tokens, tick, loop, wGranted, wTicks, wRefills>>
  BY <1>8
<1>9. ASSUME NEW a \in Callers, Call(a) \/ CheckStop(a) \/ Retry(a) \/ GiveUp(a) \/ Cancel(a)
      PROVE  UNCHANGED <<tokens, tick, loop, wGranted, wTicks, wRefills>>
  BY <1>9 DEF Call, CheckStop, Retry, GiveUp, Cancel, window
<1>10. Stop \/ UNCHANGED vars => UNCHANGED <<tokens, tick, loop, wGranted, wTicks, wRefills>>
  BY DEF Stop, vars, window
<1> QED
  BY <1>1, <1>2, <1>3, <1>4, <1>5, <1>6, <1>7, <1>8, <1>9, <1>10 DEF Next, WaitStep

\* The types, in particular that the bucket never holds more than the
\* configured rate, nor less than nothing.
THEOREM TypeInvariant == Spec => []TypeOK
<1>1. ASSUME Init PROVE TypeOK
  <2>1. tokens \in 0..MaxTokens /\ tick \in 0..1
    BY <1>1, MaxTokensIsPositive DEF Init
  <2>2. ticking \in BOOLEAN /\ stopped \in BOOLEAN /\ loop \in {"select", "refill", "ended"}
    BY <1>1, Zenon DEF Init
  <2>3. /\ pc \in [Callers -> {"idle", "check", "take", "sleep"}]
        /\ cancelled \subseteq Callers
    BY <1>1 DEF Init
  <2>4. wGranted \in Nat /\ wTicks \in Nat /\ wRefills \in Nat
    BY <1>1 DEF Init
  <2> QED
    BY <2>1, <2>2, <2>3, <2>4 DEF TypeOK
<1> QED
  BY <1>1, TypeInductive, PTL DEF Spec

\* In any window, at most the configured rate for each tick of the window and
\* for three more is granted: the bucket, the tick in the channel and the one in
\* the hands of refillLoop.
THEOREM RateBound == Spec => []WindowBound
<1>1. Init => Ledger
  BY MaxTokensIsPositive DEF Init, Ledger, InHand
<1>2. TypeOK /\ Ledger => WindowBound
  <2> SUFFICES ASSUME TypeOK, Ledger PROVE WindowBound
    OBVIOUS
  <2>1. wRefills + 1 <= wTicks + 3 /\ wGranted <= MaxTokens * (wRefills + 1)
    BY MaxTokensIsPositive DEF TypeOK, Ledger, InHand
  <2>2. MaxTokens * (wRefills + 1) <= MaxTokens * (wTicks + 3)
    BY <2>1, MaxTokensIsPositive DEF TypeOK
  <2> QED
    BY <2>1, <2>2, MaxTokensIsPositive DEF TypeOK, WindowBound
<1>3. TypeOK /\ Ledger /\ [Next]_vars => Ledger'
  BY LedgerStep
<1> QED
  BY <1>1, <1>2, <1>3, TypeInvariant, PTL DEF Spec
=============================================================================
