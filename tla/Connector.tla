------------------------------- MODULE Connector -------------------------------
(***************************************************************************)
(* The life cycle and the streams of src/bybit/connector.go: Connect,      *)
(* Disconnect and the Subscribe methods on the callers' goroutines, and    *)
(* the two handler goroutines each Connect starts, which move messages and *)
(* events from the WebSocket client to the channels of the subscribers.    *)
(*                                                                         *)
(* A WebSocket client is seen here through its interface only: it is up or *)
(* closed, remembers topics, and buffers messages, dropping what does not  *)
(* fit.  WebSocketClient models what happens inside.                       *)
(***************************************************************************)
EXTENDS Naturals, Sequences

CONSTANTS
    Callers,      \* goroutines that use the connector
    Symbols,      \* ticker symbols
    MaxSessions,  \* bound: calls of Connect that create a WebSocket client
    MaxMessages,  \* bound: messages accepted from the exchange
    WsCap,        \* capacity of a WebSocket client's messages channel
    ChanCap       \* capacity of a subscriber's channel

ASSUME BoundsAreNatural ==
    /\ MaxSessions \in Nat /\ MaxMessages \in Nat
    /\ WsCap \in Nat \ {0} /\ ChanCap \in Nat \ {0}

ASSUME SymbolsAreNotFixed == Symbols \cap {"order", "events"} = {}

Sessions == 1..MaxSessions

\* "order" stands for the three account streams (order, position, wallet),
\* which the code treats alike.
Topics == Symbols \cup {"order"}
Channels == Topics \cup {"events"}

\* What decoding the data of a message comes to: an update, an error in one of
\* its numbers, or no object to decode.  A ticker names the symbol of its topic.
Forms == {"update", "malformed", "empty"}
Messages == [topic : Topics, form : Forms]

VARIABLES
    connected,  \* c.connected
    ctxDone,    \* c.ctx is cancelled; it is never replaced
    ws,         \* c.ws: the number of the latest client, 0 for nil
    wsState,    \* each client: "none", "down" (failed dial), "up" or "closed"
    wsTopics,   \* topics each client remembers
    queue,      \* each client's messages channel
    chan,       \* "none", "open" or "closed", for each subscriber channel
    buf,        \* number of updates buffered in each
    pc,         \* callers
    topic,      \* argument of a caller's Subscribe
    local,      \* ws and tickerChannels of a caller in Disconnect
    reader,     \* message handler started by each session's Connect
    inHand,     \* the update it is processing
    relay,      \* event handler started by each session's Connect
    given,      \* channels a Subscribe method returned
    \* History, read by no guard:
    accepted,   \* messages that entered a messages channel, until Disconnect
    handed,     \* messages the handler is done with, until Disconnect
    reused,     \* Connect succeeded after Disconnect
    promised    \* channels that were given when Disconnect began

wsVars == <<wsState, wsTopics, queue, accepted>>
outVars == <<chan, buf, given>>
callerVars == <<pc, topic, local>>
handlerVars == <<reader, inHand, relay, handed>>
lifeVars == <<connected, ctxDone, ws, reused, promised>>
vars == <<wsVars, outVars, callerVars, handlerVars, lifeVars>>

Nothing == [ws |-> 0, tickers |-> {}]

TypeOK ==
    /\ connected \in BOOLEAN /\ ctxDone \in BOOLEAN /\ reused \in BOOLEAN
    /\ ws \in 0..MaxSessions
    /\ wsState \in [Sessions -> {"none", "down", "up", "closed"}]
    /\ wsTopics \in [Sessions -> SUBSET Topics]
    /\ queue \in [Sessions -> Seq(Messages)] /\ \A s \in Sessions : Len(queue[s]) <= WsCap
    /\ chan \in [Channels -> {"none", "open", "closed"}]
    /\ buf \in [Channels -> 0..ChanCap]
    /\ pc \in [Callers -> {"idle", "connect", "close", "wait", "closing",
                           "register", "send", "panic"}]
    /\ topic \in [Callers -> Topics]
    /\ local \in [Callers -> [ws : 0..MaxSessions, tickers : SUBSET Symbols]]
    /\ reader \in [Sessions -> {"none", "select", "report", "deliver", "done", "panic"}]
    /\ relay \in [Sessions -> {"none", "select", "done", "panic"}]
    /\ inHand \in [Sessions -> Seq(Messages)] /\ \A s \in Sessions : Len(inHand[s]) <= 1
    /\ given \subseteq Channels /\ promised \subseteq Channels
    /\ accepted \in Seq(Messages) /\ handed \in Seq(Messages)

Init ==
    /\ connected = FALSE /\ ctxDone = FALSE /\ ws = 0 /\ reused = FALSE
    /\ wsState = [s \in Sessions |-> "none"]
    /\ wsTopics = [s \in Sessions |-> {}]
    /\ queue = [s \in Sessions |-> <<>>]
    /\ chan = [k \in Channels |-> IF k \in Symbols THEN "none" ELSE "open"]
    /\ buf = [k \in Channels |-> 0]
    /\ pc = [a \in Callers |-> "idle"]
    /\ topic = [a \in Callers |-> "order"]
    /\ local = [a \in Callers |-> Nothing]
    /\ reader = [s \in Sessions |-> "none"]
    /\ relay = [s \in Sessions |-> "none"]
    /\ inHand = [s \in Sessions |-> <<>>]
    /\ given = {} /\ promised = {} /\ accepted = <<>> /\ handed = <<>>

-----------------------------------------------------------------------------
\* c.mu is held through all of Connect, which talks to the exchange; its other
\* holders are single actions.
MuFree == \A a \in Callers : pc[a] # "connect"

At(a, label) == pc[a] = label
Goto(a, label) == pc' = [pc EXCEPT ![a] = label]

\* Variant, for mutation: Connect adds one handler only.
WgWithoutRelay == \A s \in Sessions : reader[s] \notin {"select", "report", "deliver"}

\* sync.WaitGroup counts the handlers.
WgZero == \A s \in Sessions :
    reader[s] \notin {"select", "report", "deliver"} /\ relay[s] # "select"

\* Variant, for mutation: no wait for room in the channel.
SendsAnyway(k) == chan[k] = "open" /\ buf' = [buf EXCEPT ![k] = @ + 1]

\* The send of a select.  On a closed channel it panics, if the select does not
\* pick ctx.Done, which is always ready by then.
Sends(k) == /\ chan[k] = "open" /\ buf[k] < ChanCap
            /\ buf' = [buf EXCEPT ![k] = @ + 1]

-----------------------------------------------------------------------------
(* Connect *)

ConnectLock(a) ==
    /\ At(a, "idle") /\ MuFree /\ ~connected
    /\ Goto(a, "connect")
    /\ UNCHANGED <<lifeVars, wsVars, outVars, handlerVars, topic, local>>

\* The permissions cannot be checked or do not allow trading.
ConnectRefused(a) ==
    /\ At(a, "connect")
    /\ Goto(a, "idle")
    /\ UNCHANGED <<lifeVars, wsVars, outVars, handlerVars, topic, local>>

\* The new WebSocket client cannot connect; c.ws keeps it.
ConnectDown(a) ==
    /\ At(a, "connect") /\ ws < MaxSessions
    /\ Goto(a, "idle")
    /\ ws' = ws + 1
    /\ wsState' = [wsState EXCEPT ![ws + 1] = "down"]
    /\ UNCHANGED <<connected, ctxDone, reused, promised, wsTopics, queue, accepted,
                   outVars, handlerVars, topic, local>>

ConnectUp(a) ==
    /\ At(a, "connect") /\ ws < MaxSessions
    /\ Goto(a, "idle")
    /\ ws' = ws + 1
    /\ wsState' = [wsState EXCEPT ![ws + 1] = "up"]
    /\ reader' = [reader EXCEPT ![ws + 1] = "select"]
    /\ relay' = [relay EXCEPT ![ws + 1] = "select"]
    /\ connected' = TRUE
    /\ reused' = (reused \/ ctxDone)
    /\ UNCHANGED <<ctxDone, promised, wsTopics, queue, accepted, outVars, inHand,
                   handed, topic, local>>

-----------------------------------------------------------------------------
(* Disconnect *)

\* Variant, for mutation: a ticker nobody has sent yet is forgotten.
OnlyBuffered == {s \in Symbols : buf[s] > 0}

\* The channels in c.tickerUpdates.
Registered == {s \in Symbols : chan[s] # "none"}

DisconnectLock(a) ==
    /\ At(a, "idle") /\ MuFree /\ connected
    /\ Goto(a, "close")
    /\ local' = [local EXCEPT ![a] =
                   [ws |-> ws, tickers |-> Registered]]
    /\ connected' = FALSE
    /\ ctxDone' = TRUE
    /\ accepted' = <<>> /\ handed' = <<>>
    /\ promised' = given
    /\ UNCHANGED <<ws, reused, wsState, wsTopics, queue, outVars, reader, inHand,
                   relay, topic>>

CloseWs(a) ==
    /\ At(a, "close")
    /\ Goto(a, "wait")
    /\ wsState' = [wsState EXCEPT ![local[a].ws] = "closed"]
    /\ UNCHANGED <<lifeVars, wsTopics, queue, accepted, outVars, handlerVars,
                   topic, local>>

WaitHandlers(a) ==
    /\ At(a, "wait") /\ WgZero
    /\ Goto(a, "closing")
    /\ UNCHANGED <<lifeVars, wsVars, outVars, handlerVars, topic, local>>

\* Closing a closed channel panics; orderUpdates comes first.  The others follow
\* one by one; they are one step because the handlers, the only ones that send,
\* are gone.
CloseChannels(a) ==
    /\ At(a, "closing")
    /\ \/ /\ chan["order"] = "open"
          /\ chan' = [k \in Channels |->
                        IF k \in local[a].tickers \cup {"order", "events"}
                        THEN "closed" ELSE chan[k]]
          /\ Goto(a, "idle")
       \/ /\ chan["order"] = "closed"
          /\ Goto(a, "panic")
          /\ UNCHANGED chan
    /\ local' = [local EXCEPT ![a] = Nothing]
    /\ UNCHANGED <<lifeVars, wsVars, buf, given, handlerVars, topic>>

-----------------------------------------------------------------------------
(* SubscribeOrders, SubscribePositions, SubscribeBalance, SubscribeTicker *)

\* Variant, for mutation: the channel is not created before the subscription.
NeverRegisters(t) == FALSE

Registers(t) == t \in Symbols

\* IsConnected, then the mutex is released.
SubscribeCheck(a, t) ==
    /\ At(a, "idle") /\ MuFree /\ connected
    /\ Goto(a, IF Registers(t) THEN "register" ELSE "send")
    /\ topic' = [topic EXCEPT ![a] = t]
    /\ UNCHANGED <<lifeVars, wsVars, outVars, handlerVars, local>>

\* The ticker channel exists before the exchange is asked for the ticker.
RegisterTicker(a) ==
    /\ At(a, "register") /\ MuFree
    /\ Goto(a, "send")
    /\ chan' = [chan EXCEPT ![topic[a]] = IF @ = "none" THEN "open" ELSE @]
    /\ UNCHANGED <<lifeVars, wsVars, buf, given, handlerVars, topic, local>>

\* ws.subscribe remembers the topic unless the client is closed, and may fail
\* all the same.
SendSubscription(a) ==
    /\ At(a, "send")
    /\ Goto(a, "idle")
    /\ wsTopics' = IF wsState[ws] = "closed" THEN wsTopics
                   ELSE [wsTopics EXCEPT ![ws] = @ \cup {topic[a]}]
    /\ \/ wsState[ws] = "up" /\ given' = given \cup {topic[a]}
       \/ UNCHANGED given
    /\ topic' = [topic EXCEPT ![a] = "order"]
    /\ UNCHANGED <<lifeVars, wsState, queue, accepted, chan, buf, handlerVars,
                   local>>

SubscribeStreamEvents ==
    /\ connected /\ MuFree /\ "events" \notin given
    /\ given' = given \cup {"events"}
    /\ UNCHANGED <<lifeVars, wsVars, chan, buf, callerVars, handlerVars>>

-----------------------------------------------------------------------------
(* handleWebSocketMessages.  The handler reads c.ws without the mutex: after  *)
(* another Connect it may see its own client or a later one.                  *)

Source(s) == s..ws

ReaderGoto(s, label) == reader' = [reader EXCEPT ![s] = label]

\* While the connector is in use, the messages it is done with are recorded.
HandOver(msgs) == handed' = IF ctxDone THEN handed ELSE handed \o msgs

Settle(s) == HandOver(inHand[s]) /\ inHand' = [inHand EXCEPT ![s] = <<>>]

\* A message without an object is logged and thrown away.
TakeMessage(s, from) ==
    /\ reader[s] = "select" /\ from \in Source(s) /\ queue[from] # <<>>
    /\ queue' = [queue EXCEPT ![from] = Tail(@)]
    /\ LET m == Head(queue[from]) IN
         IF m.form = "empty"
         THEN HandOver(<<m>>) /\ UNCHANGED <<reader, inHand>>
         ELSE /\ inHand' = [inHand EXCEPT ![s] = <<m>>]
              /\ ReaderGoto(s, IF m.form = "update" THEN "deliver" ELSE "report")
              /\ UNCHANGED handed
    /\ UNCHANGED <<lifeVars, wsState, wsTopics, accepted, outVars, callerVars, relay>>

\* dropMalformedStreamUpdate: a Gap, itself dropped if the channel is full.
ReportMalformed(s) ==
    /\ reader[s] = "report"
    /\ \/ Sends("events") /\ ReaderGoto(s, "select")
       \/ /\ ctxDone \/ buf["events"] = ChanCap
          /\ ReaderGoto(s, "select") /\ UNCHANGED buf
       \/ chan["events"] = "closed" /\ ReaderGoto(s, "panic") /\ UNCHANGED buf
    /\ Settle(s)
    /\ UNCHANGED <<lifeVars, wsVars, chan, given, callerVars, relay>>

\* The handler waits for room in the channel; a ticker looks its channel up
\* under the mutex.
DeliverUpdate(s) ==
    /\ reader[s] = "deliver"
    /\ LET t == inHand[s][1].topic IN
         /\ t \in Symbols => MuFree
         /\ \/ Sends(t) /\ ReaderGoto(s, "select")
            \/ chan[t] = "none" /\ ReaderGoto(s, "select") /\ UNCHANGED buf
            \/ chan[t] = "closed" /\ ReaderGoto(s, "panic") /\ UNCHANGED buf
    /\ Settle(s)
    /\ UNCHANGED <<lifeVars, wsVars, chan, given, callerVars, relay>>

\* Variants, for mutation: the send has a default case, or no case for ctx.Done.
ReleasedAtOnce == TRUE
NeverReleased == FALSE

\* Only ctx.Done releases a handler whose channel nobody drains.
Released == ctxDone

AbandonUpdate(s) ==
    /\ reader[s] = "deliver" /\ Released
    /\ ReaderGoto(s, "select")
    /\ inHand' = [inHand EXCEPT ![s] = <<>>]
    /\ UNCHANGED <<lifeVars, wsVars, outVars, callerVars, relay, handed>>

\* Variant, for mutation: an empty channel is taken for a closed one.
LeavesWhenDrained(s) == ctxDone \/ \E from \in Source(s) : queue[from] = <<>>

\* ctx.Done, or the messages channel is closed and drained.
LeavesLoop(s) ==
    \/ ctxDone
    \/ \E from \in Source(s) : wsState[from] = "closed" /\ queue[from] = <<>>

ReaderExits(s) ==
    /\ reader[s] = "select" /\ LeavesLoop(s)
    /\ ReaderGoto(s, "done")
    /\ UNCHANGED <<lifeVars, wsVars, outVars, callerVars, inHand, relay, handed>>

-----------------------------------------------------------------------------
(* handleWebSocketEvents *)

\* An event of the WebSocket client is forwarded, or dropped if the channel is
\* full (no change).
RelayEvent(s) ==
    /\ relay[s] = "select"
    /\ \E from \in Source(s) : wsState[from] \in {"up", "closed"}
    /\ \/ Sends("events") /\ UNCHANGED relay
       \/ /\ chan["events"] = "closed"
          /\ relay' = [relay EXCEPT ![s] = "panic"] /\ UNCHANGED buf
    /\ UNCHANGED <<lifeVars, wsVars, chan, given, callerVars, reader, inHand, handed>>

RelayExits(s) ==
    /\ relay[s] = "select"
    /\ ctxDone \/ \E from \in Source(s) : wsState[from] = "closed"
    /\ relay' = [relay EXCEPT ![s] = "done"]
    /\ UNCHANGED <<lifeVars, wsVars, outVars, callerVars, reader, inHand, handed>>

-----------------------------------------------------------------------------
(* Environment *)

\* The exchange sends a message for a topic the client subscribed; it is
\* dropped (no change) if the messages channel is full.
Receive(s, m) ==
    /\ wsState[s] = "up" /\ m.topic \in wsTopics[s]
    /\ Len(queue[s]) < WsCap /\ Len(accepted) < MaxMessages
    /\ queue' = [queue EXCEPT ![s] = Append(@, m)]
    /\ accepted' = IF ctxDone THEN accepted ELSE Append(accepted, m)
    /\ UNCHANGED <<lifeVars, wsState, wsTopics, outVars, callerVars, handlerVars>>

\* A subscriber reads from the channel it was given.
Consume(k) ==
    /\ k \in given /\ buf[k] > 0
    /\ buf' = [buf EXCEPT ![k] = @ - 1]
    /\ UNCHANGED <<lifeVars, wsVars, chan, given, callerVars, handlerVars>>

ConnectEnds(a) == ConnectRefused(a) \/ ConnectDown(a) \/ ConnectUp(a)
DisconnectStep(a) == CloseWs(a) \/ WaitHandlers(a) \/ CloseChannels(a)
SubscribeStep(a) == RegisterTicker(a) \/ SendSubscription(a)
ReaderStep(s) ==
    \/ ReportMalformed(s) \/ DeliverUpdate(s) \/ AbandonUpdate(s)
    \/ \E from \in Sessions : TakeMessage(s, from)

Next ==
    \/ \E a \in Callers :
          \/ ConnectLock(a) \/ ConnectEnds(a)
          \/ DisconnectLock(a) \/ DisconnectStep(a)
          \/ SubscribeStep(a) \/ \E t \in Topics : SubscribeCheck(a, t)
    \/ SubscribeStreamEvents
    \/ \E s \in Sessions :
          \/ ReaderStep(s) \/ ReaderExits(s)
          \/ RelayEvent(s) \/ RelayExits(s)
          \/ \E m \in Messages : Receive(s, m)
    \/ \E k \in Channels : Consume(k)

Spec == Init /\ [][Next]_vars

-----------------------------------------------------------------------------
(* Safety *)

\* No handler sends on a closed channel of the connector, and no Disconnect
\* closes one twice, as long as Connect is not used again after Disconnect:
\* Disconnect closes the channels when both handlers are gone, even if a
\* subscriber stopped reading, and only one of several concurrent calls of
\* Disconnect gets that far.  The channels of the WebSocket client are the
\* subject of WebSocketClient's LoopsNeverPanic and NeverPanics; a Subscribe that
\* panics on them does not exist here.
NoPanicInOneLife ==
    ~reused => /\ \A s \in Sessions : reader[s] # "panic" /\ relay[s] # "panic"
               /\ \A a \in Callers : ~At(a, "panic")

\* Until Disconnect, the handler settles every message the WebSocket client
\* accepted exactly once and in order: none is lost, repeated or overtaken
\* between the client's channel and the subscribers', however long the handler
\* waits for a slow subscriber.
InOrder ==
    connected /\ ~ctxDone => accepted = handed \o inHand[ws] \o queue[ws]

\* A ticker is never thrown away for want of a channel: SubscribeTicker
\* registers the channel before it asks the exchange for the ticker.
TickerHasChannel ==
    \A s \in Sessions :
        \A i \in 1..Len(queue[s]) :
            queue[s][i].topic \in Symbols => chan[queue[s][i].topic] # "none"

\* Subscribers are released: in one life, once Disconnect is over, every channel that was
\* given to a subscriber before it began is closed, whatever Subscribe calls
\* were under way.
SubscribersReleased ==
    ~reused /\ (\A a \in Callers : pc[a] \notin {"close", "wait", "closing"})
        => \A k \in promised : chan[k] = "closed"

\* Contradicted by the code.  The connector's runtime paths never panic.
NeverPanics ==
    /\ \A s \in Sessions : reader[s] # "panic" /\ relay[s] # "panic"
    /\ \A a \in Callers : ~At(a, "panic")

-----------------------------------------------------------------------------
(* Refinement *)

InDisconnect(a) == pc[a] \in {"close", "wait", "closing"}

Life ==
    IF reused THEN "undefined"
    ELSE IF connected THEN "up"
    ELSE IF ~ctxDone THEN "fresh"
    ELSE IF \E a \in Callers : InDisconnect(a) THEN "closing"
    ELSE "down"

\* What the handler holds, then what waits for it.
Line == IF Life = "up" THEN inHand[ws] \o queue[ws] ELSE <<>>

Closed == {k \in Channels : chan[k] = "closed"}

Stream == INSTANCE UpdateStream WITH life <- Life, line <- Line, closed <- Closed

\* The connector's channels are one line for the subscribers: each message that
\* was accepted leaves it in its turn, an update by going into its channel and
\* no other way; a channel is never overfilled; Disconnect gives the line up,
\* what was given before it is closed by the time it ends, and nothing is sent
\* into a channel after its closing.
ImplementsUpdateStream == Stream!Spec

-----------------------------------------------------------------------------
(* Liveness.  Goroutines run; calls to the exchange return; a select with     *)
(* several ready cases picks one at random, hence SF on the exits.  Nothing   *)
(* is assumed of subscribers, of new calls or of the exchange.                *)

Fairness ==
    /\ \A a \in Callers :
          WF_vars(ConnectEnds(a)) /\ WF_vars(DisconnectStep(a)) /\ WF_vars(SubscribeStep(a))
    /\ \A s \in Sessions :
          WF_vars(ReaderStep(s)) /\ SF_vars(ReaderExits(s)) /\ SF_vars(RelayExits(s))

FairSpec == Spec /\ Fairness

\* Disconnect ends, although a handler may be blocked on a channel that nobody
\* reads when it is called.
DisconnectEnds == \A a \in Callers : At(a, "close") ~> pc[a] \in {"idle", "panic"}

\* A channel is orphaned when SubscribeTicker registered it and then failed:
\* no subscriber can drain it.
Orphaned(k) == buf[k] > 0 /\ k \notin given

\* If subscribers keep reading, every accepted message is settled, unless the
\* connector is disconnected or an orphaned channel may fill up.
UpdatesFlow ==
    (\A k \in Channels : WF_vars(Consume(k))) =>
        \A n \in 1..MaxMessages :
            Len(accepted) >= n
                ~> (Len(handed) >= n \/ ctxDone \/ \E k \in Topics : Orphaned(k))
=============================================================================
