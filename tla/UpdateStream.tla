------------------------------ MODULE UpdateStream ------------------------------
(***************************************************************************)
(* The abstract specification of the connector's streams, as subscribers   *)
(* see them: one first-in first-out line of messages, settled one by one,  *)
(* into bounded channels that are all closed in the end, after the last    *)
(* update.  Connector implements it for one life of the connector; what    *)
(* comes of a connector that is used again is not promised.                *)
(***************************************************************************)
EXTENDS Naturals, Sequences

CONSTANTS
    Channels,  \* channels of the subscribers, "events" among them
    Messages,  \* records of a topic, which names a channel, and a form
    WsCap,     \* messages that may wait behind the one being settled
    ChanCap    \* capacity of a channel

VARIABLES
    life,      \* "fresh", "up", "closing", "down" or "undefined"
    line,      \* messages accepted and not settled, the oldest first
    buf,       \* number of updates buffered in each channel
    given,     \* channels that subscribers hold
    promised,  \* those given before Disconnect
    closed     \* channels that are closed

vars == <<life, line, buf, given, promised, closed>>

Init ==
    /\ life = "fresh"
    /\ line = <<>>
    /\ buf = [k \in Channels |-> 0]
    /\ given = {} /\ promised = {} /\ closed = {}

Put(k) == buf[k] < ChanCap /\ buf' = [buf EXCEPT ![k] = @ + 1]

Connect ==
    /\ life = "fresh"
    /\ life' = "up"
    /\ UNCHANGED <<line, buf, given, promised, closed>>

Offer(k) ==
    /\ life \in {"up", "closing"}
    /\ given' = given \cup {k}
    /\ UNCHANGED <<life, line, buf, promised, closed>>

Accept(m) ==
    /\ life = "up" /\ Len(line) <= WsCap
    /\ line' = Append(line, m)
    /\ UNCHANGED <<life, buf, given, promised, closed>>

\* The oldest message leaves the line: an update into its channel, and only
\* there; a malformed one leaves a Gap, unless the events channel is full.
Settle ==
    /\ life = "up" /\ line # <<>>
    /\ line' = Tail(line)
    /\ LET m == Head(line) IN
         \/ m.form = "update" /\ Put(m.topic)
         \/ m.form = "malformed" /\ Put("events")
         \/ m.form = "malformed" /\ buf["events"] = ChanCap /\ UNCHANGED buf
         \/ m.form = "empty" /\ UNCHANGED buf
    /\ UNCHANGED <<life, given, promised, closed>>

\* An event of the connection.
Event ==
    /\ life = "up" /\ Put("events")
    /\ UNCHANGED <<life, line, given, promised, closed>>

\* A subscriber reads, even what a closed channel still holds.
Consume(k) ==
    /\ k \in given /\ buf[k] > 0
    /\ buf' = [buf EXCEPT ![k] = @ - 1]
    /\ UNCHANGED <<life, line, given, promised, closed>>

\* What is in the line is given up; those who subscribed will be released.
Disconnect ==
    /\ life = "up"
    /\ life' = "closing"
    /\ line' = <<>> /\ promised' = given
    /\ UNCHANGED <<buf, given, closed>>

\* A handler may still find room for what it holds.
Straggle(k) ==
    /\ life = "closing" /\ Put(k)
    /\ UNCHANGED <<life, line, given, promised, closed>>

\* Nothing follows once all that was promised is closed.  The channels are closed
\* one after another; the order shows nowhere, for nobody sends any more.
Finish ==
    /\ life = "closing"
    /\ life' = "down"
    /\ promised \subseteq closed'
    /\ UNCHANGED <<line, buf, given, promised>>

Reuse ==
    /\ life \in {"closing", "down", "undefined"}
    /\ life' = "undefined"

Next ==
    \/ Connect \/ Disconnect \/ Finish \/ Reuse
    \/ Settle \/ Event
    \/ \E m \in Messages : Accept(m)
    \/ \E k \in Channels : Offer(k) \/ Consume(k) \/ Straggle(k)

Spec == Init /\ [][Next]_vars
=============================================================================
