------------------------------ MODULE DNSCacheProofs ------------------------------
(***************************************************************************)
(* Theorems about DNSCache, for every number of goroutines, every ttl asked *)
(* for, and every bound on the delays and the clock.                       *)
(***************************************************************************)
EXTENDS DNSCache, TLAPS

\* The whole argument: a lookup is not older than MaxDelay, an answer was true
\* since its lookup began and waits at most MaxPause, and an entry outlives its
\* answer by the maximum, one lookup and one such wait at most.
LookupsOK ==
    \A a \in Callers :
        /\ pc[a] = "lookup" => asked[a] <= now /\ now <= asked[a] + MaxDelay
        /\ pc[a] = "store" =>
              /\ asked[a] <= answer[a] /\ answer[a] <= answered[a]
              /\ answered[a] <= asked[a] + MaxDelay
              /\ answered[a] <= now /\ now <= answered[a] + MaxPause

EntryOK == cached => born <= now /\ expiresAt <= born + MaxDelay + MaxPause + MaxTTL

IInv == TypeOK /\ LookupsOK /\ EntryOK

\* NewDNSCache: the ttl in use is positive and at most the maximum.
LEMMA TtlInRange == ttl \in 1..MaxTTL
BY TimesAreNumbers DEF ttl

LEMMA InitIInv == Init => IInv
<1> SUFFICES ASSUME Init PROVE IInv
  OBVIOUS
<1>1. 0 \in Time /\ 0 \in 0..(MaxTime + MaxTTL)
  BY TimesAreNumbers DEF Time
<1>2. TypeOK
  BY <1>1 DEF Init, TypeOK
<1>3. LookupsOK
  BY DEF Init, LookupsOK
<1> QED
  BY <1>2, <1>3 DEF Init, IInv, EntryOK

LEMMA StepIInv == IInv /\ [Next]_vars => IInv'
<1> SUFFICES ASSUME IInv, [Next]_vars PROVE IInv'
  OBVIOUS
<1> USE TimesAreNumbers, TtlInRange DEF IInv, TypeOK, LookupsOK, EntryOK, Time
<1>1. ASSUME NEW a \in Callers, Hit(a) PROVE IInv'
  BY <1>1 DEF Hit, vars, entry, local
<1>2. ASSUME NEW a \in Callers, Miss(a) PROVE IInv'
  <2>1. TypeOK' BY <1>2 DEF Miss, entry
  <2>2. LookupsOK' BY <1>2 DEF Miss, entry
  <2> QED BY <2>1, <2>2, <1>2 DEF Miss, entry
<1>3. ASSUME NEW a \in Callers, Answer(a) PROVE IInv'
  <2>1. PICK t \in asked[a]..now : answer' = [answer EXCEPT ![a] = t]
    BY <1>3 DEF Answer
  <2>2. t \in Time BY <2>1
  <2>3. TypeOK' BY <1>3, <2>1, <2>2 DEF Answer, entry
  <2>4. LookupsOK' BY <1>3, <2>1 DEF Answer, entry
  <2> QED BY <2>3, <2>4, <1>3 DEF Answer, entry
<1>4. ASSUME NEW a \in Callers, LookupFails(a) PROVE IInv'
  BY <1>4 DEF LookupFails, entry
<1>5. ASSUME NEW a \in Callers, Store(a) PROVE IInv'
  <2>1. TypeOK'
    <3>1. expiresAt' \in 0..(MaxTime + MaxTTL)
      BY <1>5 DEF Store
    <3>2. born' \in Time /\ pc' \in [Callers -> {"idle", "lookup", "store"}]
      BY <1>5 DEF Store
    <3> QED
      BY <3>1, <3>2, <1>5 DEF Store
  <2>2. LookupsOK' BY <1>5 DEF Store
  <2>3. EntryOK' BY <1>5 DEF Store
  <2> QED BY <2>1, <2>2, <2>3
<1>6. CASE Tick
  BY <1>6 DEF Tick, entry, local
<1>7. CASE UNCHANGED vars
  BY <1>7 DEF vars, entry, local
<1> QED
  BY <1>1, <1>2, <1>3, <1>4, <1>5, <1>6, <1>7 DEF Next

LEMMA Inductive == Spec => []IInv
BY InitIInv, StepIInv, PTL DEF Spec

\* Every variable has its type; in particular no expiry lies more than the
\* maximum beyond the clock's bound.
THEOREM TypeInvariant == Spec => []TypeOK
<1>1. IInv => TypeOK BY DEF IInv
<1> QED BY <1>1, Inductive, PTL

\* Resolve never answers from the cache what was true longer ago than the
\* maximum, one lookup and the storing of it, in whatever order overlapping
\* lookups are stored.
THEOREM AgeBound == Spec => []BoundedAge
<1>1. IInv => BoundedAge
  BY TimesAreNumbers DEF IInv, TypeOK, EntryOK, BoundedAge, Valid, Time
<1> QED BY <1>1, Inductive, PTL
=============================================================================
