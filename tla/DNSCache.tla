-------------------------------- MODULE DNSCache --------------------------------
(***************************************************************************)
(* The DNS cache of src/pkg/connectors/bybit/connector.go: goroutines that *)
(* resolve one host (hosts do not interact), each looking in the cache     *)
(* under the mutex, asking the resolver without it, and storing the answer *)
(* under it again.  Lookups overlap and answers are stored in any order.   *)
(* What the addresses are, and who shares them, is left out.               *)
(***************************************************************************)
EXTENDS Integers

CONSTANTS
    Callers,    \* goroutines that call Resolve
    Requested,  \* the ttl given to NewDNSCache
    MaxTTL,     \* maxDNSCacheTTL
    MaxDelay,   \* longest time from a miss to its answer or error: the deadline
                \* of the caller's context
    MaxPause,   \* longest time from an answer to its storing: what the scheduler
                \* and the mutex take
    MaxTime     \* bound: the clock

ASSUME TimesAreNumbers ==
    /\ Requested \in Int
    /\ MaxTTL \in Nat \ {0}
    /\ MaxDelay \in Nat /\ MaxPause \in Nat /\ MaxTime \in Nat

VARIABLES
    now,        \* the clock
    cached,     \* the host is in c.entries
    born,       \* when what the cache answers was true
    expiresAt,  \* entry.expiresAt
    pc,         \* idle, lookup, store
    asked,      \* when a goroutine missed
    answer,     \* when the addresses a goroutine got from the resolver were true
    answered    \* when it got them

entry == <<cached, born, expiresAt>>
local == <<pc, asked, answer, answered>>
vars == <<now, entry, local>>

Time == 0..MaxTime

TypeOK ==
    /\ now \in Time
    /\ cached \in BOOLEAN
    /\ born \in Time /\ expiresAt \in 0..(MaxTime + MaxTTL)
    /\ pc \in [Callers -> {"idle", "lookup", "store"}]
    /\ asked \in [Callers -> Time] /\ answer \in [Callers -> Time]
    /\ answered \in [Callers -> Time]

Init ==
    /\ now = 0
    /\ cached = FALSE /\ born = 0 /\ expiresAt = 0
    /\ pc = [a \in Callers |-> "idle"]
    /\ asked = [a \in Callers |-> 0] /\ answer = [a \in Callers |-> 0]
    /\ answered = [a \in Callers |-> 0]

\* Variant, for mutation: no upper bound.
AsRequested == IF Requested <= 0 THEN MaxTTL ELSE Requested

\* NewDNSCache takes a ttl out of range for the maximum.
ttl == IF Requested <= 0 \/ Requested > MaxTTL THEN MaxTTL ELSE Requested

Valid == cached /\ now < expiresAt

\* The answer is returned, and the cache stays as it is.
Hit(a) ==
    /\ pc[a] = "idle" /\ Valid
    /\ UNCHANGED vars

Miss(a) ==
    /\ pc[a] = "idle" /\ ~Valid
    /\ pc' = [pc EXCEPT ![a] = "lookup"]
    /\ asked' = [asked EXCEPT ![a] = now]
    /\ UNCHANGED <<now, entry, answer, answered>>

\* The resolver, external, answers with what was true at some time since.
Answer(a) ==
    /\ pc[a] = "lookup"
    /\ pc' = [pc EXCEPT ![a] = "store"]
    /\ \E t \in asked[a]..now : answer' = [answer EXCEPT ![a] = t]
    /\ answered' = [answered EXCEPT ![a] = now]
    /\ UNCHANGED <<now, entry, asked>>

\* An error leaves the cache alone.
LookupFails(a) ==
    /\ pc[a] = "lookup"
    /\ pc' = [pc EXCEPT ![a] = "idle"]
    /\ UNCHANGED <<now, entry, asked, answer, answered>>

\* Whatever was stored meanwhile, by a lookup that began later perhaps, is
\* overwritten.
Store(a) ==
    /\ pc[a] = "store"
    /\ pc' = [pc EXCEPT ![a] = "idle"]
    /\ cached' = TRUE /\ born' = answer[a]
    /\ expiresAt' = now + ttl
    /\ UNCHANGED <<now, asked, answer, answered>>

Tick ==
    /\ now < MaxTime
    /\ \A a \in Callers : pc[a] = "lookup" => now - asked[a] < MaxDelay
    /\ \A a \in Callers : pc[a] = "store" => now - answered[a] < MaxPause
    /\ now' = now + 1
    /\ UNCHANGED <<entry, local>>

Next ==
    \/ \E a \in Callers : Hit(a) \/ Miss(a) \/ Answer(a) \/ LookupFails(a) \/ Store(a)
    \/ Tick

Spec == Init /\ [][Next]_vars
-----------------------------------------------------------------------------
\* TTL-bounded, as the type's comment says, even when an older answer is stored
\* over a newer one with a fresh expiry: what the cache answers was true at most
\* the maximum, one lookup and the storing of it ago, whatever ttl was asked for.
BoundedAge == Valid => now - born < MaxTTL + MaxDelay + MaxPause
=============================================================================
