------------------------------ MODULE ConnectorProofs ------------------------------
(***************************************************************************)
(* Theorems about Connector, for any callers, symbols, capacities and      *)
(* bounds.  Four layers: types, the channels that must exist, one life of  *)
(* the connector, and the flow of messages.                                *)
(***************************************************************************)
EXTENDS Connector, SequenceTheorems, TLAPS

USE BoundsAreNatural, SymbolsAreNotFixed

LEMMA ChannelFacts ==
    /\ Symbols \subseteq Topics /\ Topics \subseteq Channels
    /\ "order" \in Topics /\ "events" \in Channels /\ "events" \notin Topics
    /\ Channels = Symbols \cup {"order", "events"} /\ "order" \notin Symbols
BY DEF Topics, Channels

-----------------------------------------------------------------------------
(* Types *)

\* A handler holds a message exactly while it reports or delivers one.
\* A session that is still to come is untouched.
HandOK ==
    /\ \A s \in Sessions :
          /\ reader[s] \in {"report", "deliver"} <=> inHand[s] # <<>>
          /\ s > ws => /\ reader[s] = "none" /\ relay[s] = "none"
                       /\ wsState[s] = "none" /\ queue[s] = <<>>
    /\ \A a \in Callers : local[a].ws <= ws

LEMMA InitType == Init => TypeOK /\ HandOK
<1> SUFFICES ASSUME Init PROVE TypeOK /\ HandOK
  OBVIOUS
<1> USE ChannelFacts DEF Init, Sessions
<1>1. <<>> \in Seq(Messages) /\ Len(<<>>) = 0
  BY EmptySeq
<1>2. /\ queue \in [Sessions -> Seq(Messages)] /\ \A s \in Sessions : Len(queue[s]) <= WsCap
      /\ inHand \in [Sessions -> Seq(Messages)] /\ \A s \in Sessions : Len(inHand[s]) <= 1
      /\ accepted \in Seq(Messages) /\ handed \in Seq(Messages)
  BY <1>1
<1>3. /\ wsState \in [Sessions -> {"none", "down", "up", "closed"}]
      /\ wsTopics \in [Sessions -> SUBSET Topics]
      /\ reader \in [Sessions -> {"none", "select", "report", "deliver", "done", "panic"}]
      /\ relay \in [Sessions -> {"none", "select", "done", "panic"}]
  OBVIOUS
<1>4. /\ chan \in [Channels -> {"none", "open", "closed"}]
      /\ buf \in [Channels -> 0..ChanCap]
  OBVIOUS
<1>5. /\ pc \in [Callers -> {"idle", "connect", "close", "wait", "closing",
                           "register", "send", "panic"}]
      /\ topic \in [Callers -> Topics]
  OBVIOUS
<1>6. local \in [Callers -> [ws : 0..MaxSessions, tickers : SUBSET Symbols]]
  BY DEF Nothing
<1>7. HandOK
  BY DEF HandOK, Nothing
<1>8. connected \in BOOLEAN /\ ctxDone \in BOOLEAN /\ reused \in BOOLEAN
  BY Zenon
<1>9. ws \in 0..MaxSessions /\ given \subseteq Channels /\ promised \subseteq Channels
  <2>1. ws = 0 /\ given = {} /\ promised = {}
    BY Zenon
  <2> HIDE DEF Init
  <2> QED
    BY <2>1
<1> HIDE DEF Init, Sessions
<1> QED
  BY <1>2, <1>3, <1>4, <1>5, <1>6, <1>7, <1>8, <1>9 DEF TypeOK

\* The channels' counters stay in their range.
LEMMA SendsTyped ==
    ASSUME TypeOK, NEW k \in Channels, Sends(k)
    PROVE  buf' \in [Channels -> 0..ChanCap]
BY DEF TypeOK, Sends

LEMMA HandTyped ==
    ASSUME TypeOK, NEW s \in Sessions, Settle(s)
    PROVE  /\ handed' \in Seq(Messages)
           /\ inHand' \in [Sessions -> Seq(Messages)]
           /\ \A t \in Sessions : Len(inHand'[t]) <= 1
<1>1. handed \o inHand[s] \in Seq(Messages)
  BY ConcatProperties DEF TypeOK
<1>2. <<>> \in Seq(Messages) /\ Len(<<>>) = 0
  BY EmptySeq
<1> QED
  BY <1>1, <1>2 DEF TypeOK, Settle, HandOver

LEMMA AtMostOne ==
    ASSUME NEW q \in Seq(Messages), q # <<>>, Len(q) <= 1
    PROVE  Len(q) = 1 /\ q[1] \in Messages /\ q = <<q[1]>>
<1> DEFINE n == Len(q)
<1>0. n \in Nat /\ n # 0 /\ n <= 1
  BY EmptySeq, LenProperties
<1>1. n = 1
  <2> HIDE DEF n
  <2> QED
    BY <1>0
<1> QED
  BY <1>1

LEMMA HeldTyped ==
    ASSUME TypeOK, HandOK, NEW s \in Sessions, reader[s] \in {"report", "deliver"}
    PROVE  /\ inHand[s][1] \in Messages /\ inHand[s][1].topic \in Topics
           /\ inHand[s] = <<inHand[s][1]>>
<1>1. inHand[s] \in Seq(Messages) /\ inHand[s] # <<>> /\ Len(inHand[s]) <= 1
  BY DEF TypeOK, HandOK
<1>3. inHand[s][1] \in Messages
  BY <1>1, AtMostOne
<1>4. inHand[s] = <<inHand[s][1]>>
  BY <1>1, AtMostOne
<1> QED
  BY <1>3, <1>4 DEF Messages

LEMMA TakeTyped ==
    ASSUME TypeOK, NEW s \in Sessions, NEW from \in Sessions, TakeMessage(s, from)
    PROVE  TypeOK'
<1> DEFINE m == Head(queue[from])
<1> DEFINE q == queue[from]
<1>1. q \in Seq(Messages) /\ q # <<>> /\ Len(q) <= WsCap
  BY DEF TypeOK, TakeMessage
<1>2. m \in Messages /\ Tail(q) \in Seq(Messages) /\ Len(Tail(q)) = Len(q) - 1 /\ Len(q) \in Nat
  BY <1>1, HeadTailProperties, LenProperties
<1>3. queue' \in [Sessions -> Seq(Messages)] /\ \A t \in Sessions : Len(queue'[t]) <= WsCap
  <2>1. queue' = [queue EXCEPT ![from] = Tail(q)]
    BY DEF TakeMessage
  <2> QED
    BY <2>1, <1>1, <1>2 DEF TypeOK
<1>4. <<m>> \in Seq(Messages) /\ Len(<<m>>) = 1
  BY <1>2
<1>5. CASE m.form = "empty"
  <2>1. handed \o <<m>> \in Seq(Messages)
    BY <1>4, ConcatProperties DEF TypeOK
  <2>2. handed' \in Seq(Messages)
    BY <1>5, <2>1 DEF TakeMessage, HandOver, TypeOK
  <2> QED
    BY <1>3, <1>5, <2>2
    DEF TakeMessage, TypeOK, lifeVars, outVars, callerVars
<1>6. CASE m.form # "empty"
  <2>0. /\ inHand' = [inHand EXCEPT ![s] = <<m>>]
        /\ \E l \in {"deliver", "report"} : reader' = [reader EXCEPT ![s] = l]
        /\ handed' = handed
    BY <1>6 DEF TakeMessage, ReaderGoto
  <2>1. inHand' \in [Sessions -> Seq(Messages)] /\ \A t \in Sessions : Len(inHand'[t]) <= 1
    BY <1>4, <2>0 DEF TypeOK
  <2>2. reader' \in [Sessions -> {"none", "select", "report", "deliver", "done", "panic"}]
    BY <2>0 DEF TypeOK
  <2> QED
    BY <1>3, <2>0, <2>1, <2>2 DEF TakeMessage, TypeOK, lifeVars, outVars, callerVars
<1> QED
  BY <1>5, <1>6

LEMMA ReceiveTyped ==
    ASSUME TypeOK, NEW s \in Sessions, NEW m \in Messages, Receive(s, m)
    PROVE  TypeOK'
<1>1. /\ Append(queue[s], m) \in Seq(Messages) /\ Len(Append(queue[s], m)) = Len(queue[s]) + 1
      /\ Len(queue[s]) \in Nat /\ Len(queue[s]) < WsCap
  BY LenProperties DEF TypeOK, Receive
<1>2. queue' \in [Sessions -> Seq(Messages)] /\ \A t \in Sessions : Len(queue'[t]) <= WsCap
  <2>1. queue' = [queue EXCEPT ![s] = Append(queue[s], m)]
    BY DEF Receive
  <2> QED
    BY <2>1, <1>1 DEF TypeOK
<1>3. accepted' \in Seq(Messages)
  BY DEF TypeOK, Receive
<1> QED
  BY <1>2, <1>3 DEF Receive, TypeOK, lifeVars, outVars, callerVars, handlerVars

LEMMA StepType == TypeOK /\ HandOK /\ [Next]_vars => TypeOK'
<1> SUFFICES ASSUME TypeOK, HandOK, [Next]_vars PROVE TypeOK'
  OBVIOUS
<1> USE DEF TypeOK, wsVars, outVars, callerVars, handlerVars, lifeVars, Goto, At
<1>1. ASSUME NEW a \in Callers, ConnectLock(a) \/ ConnectRefused(a) PROVE TypeOK'
  BY <1>1 DEF ConnectLock, ConnectRefused
<1>2. ASSUME NEW a \in Callers, ConnectDown(a) PROVE TypeOK'
  <2>1. ws' \in 0..MaxSessions /\ ws + 1 \in Sessions
    BY <1>2 DEF ConnectDown, Sessions
  <2> QED
    BY <1>2, <2>1 DEF ConnectDown
<1>3. ASSUME NEW a \in Callers, ConnectUp(a) PROVE TypeOK'
  BY <1>3 DEF ConnectUp, Sessions
<1>4. ASSUME NEW a \in Callers, DisconnectLock(a) PROVE TypeOK'
  BY <1>4, EmptySeq DEF DisconnectLock, Registered
<1>5. ASSUME NEW a \in Callers, CloseWs(a) PROVE TypeOK'
  BY <1>5 DEF CloseWs
<1>6. ASSUME NEW a \in Callers, WaitHandlers(a) PROVE TypeOK'
  BY <1>6 DEF WaitHandlers
<1>7. ASSUME NEW a \in Callers, CloseChannels(a) PROVE TypeOK'
  <2>1. local' \in [Callers -> [ws : 0..MaxSessions, tickers : SUBSET Symbols]]
    BY <1>7 DEF CloseChannels, Nothing
  <2>2. chan' \in [Channels -> {"none", "open", "closed"}]
    BY <1>7 DEF CloseChannels
  <2>3. pc' \in [Callers -> {"idle", "connect", "close", "wait", "closing",
                             "register", "send", "panic"}]
    BY <1>7 DEF CloseChannels
  <2> QED
    BY <1>7, <2>1, <2>2, <2>3 DEF CloseChannels
<1>8. ASSUME NEW a \in Callers, NEW t \in Topics, SubscribeCheck(a, t) PROVE TypeOK'
  BY <1>8 DEF SubscribeCheck
<1>9. ASSUME NEW a \in Callers, RegisterTicker(a) PROVE TypeOK'
  BY <1>9 DEF RegisterTicker
<1>10. ASSUME NEW a \in Callers, SendSubscription(a) PROVE TypeOK'
  <2>1. topic[a] \in Topics /\ topic[a] \in Channels
    BY ChannelFacts
  <2>2. wsTopics' \in [Sessions -> SUBSET Topics]
    <3>1. CASE wsTopics' = wsTopics
      BY <3>1
    <3>2. CASE wsTopics' = [wsTopics EXCEPT ![ws] = wsTopics[ws] \cup {topic[a]}]
      BY <3>2, <2>1
    <3> QED
      BY <1>10, <3>1, <3>2 DEF SendSubscription
  <2>3. given' \subseteq Channels
    BY <1>10, <2>1 DEF SendSubscription
  <2>4. topic' \in [Callers -> Topics]
    BY <1>10, ChannelFacts DEF SendSubscription
  <2> QED
    BY <1>10, <2>2, <2>3, <2>4 DEF SendSubscription
<1>11. CASE SubscribeStreamEvents
  BY <1>11, ChannelFacts DEF SubscribeStreamEvents
<1>12. ASSUME NEW s \in Sessions, ReportMalformed(s) PROVE TypeOK'
  BY <1>12, HandTyped, SendsTyped, ChannelFacts DEF ReportMalformed, ReaderGoto
<1>13. ASSUME NEW s \in Sessions, DeliverUpdate(s) PROVE TypeOK'
  <2>1. inHand[s][1].topic \in Channels
    BY <1>13, HeldTyped, ChannelFacts DEF DeliverUpdate
  <2> QED
    BY <1>13, <2>1, HandTyped, SendsTyped DEF DeliverUpdate, ReaderGoto
<1>14. ASSUME NEW s \in Sessions, AbandonUpdate(s) PROVE TypeOK'
  BY <1>14, EmptySeq DEF AbandonUpdate, ReaderGoto
<1>15. ASSUME NEW s \in Sessions, ReaderExits(s) PROVE TypeOK'
  BY <1>15 DEF ReaderExits, ReaderGoto
<1>16. ASSUME NEW s \in Sessions, RelayEvent(s) PROVE TypeOK'
  BY <1>16, SendsTyped, ChannelFacts DEF RelayEvent
<1>17. ASSUME NEW s \in Sessions, RelayExits(s) PROVE TypeOK'
  BY <1>17 DEF RelayExits
<1>18. ASSUME NEW k \in Channels, Consume(k) PROVE TypeOK'
  BY <1>18 DEF Consume
<1>19. CASE UNCHANGED vars
  BY <1>19 DEF vars
<1> QED
  <2> HIDE DEF TypeOK, wsVars, outVars, callerVars, handlerVars, lifeVars, Goto, At
  <2> QED
    BY <1>1, <1>2, <1>3, <1>4, <1>5, <1>6, <1>7, <1>8, <1>9, <1>10, <1>11, <1>12, <1>13, <1>14,
       <1>15, <1>16, <1>17, <1>18, <1>19, TakeTyped, ReceiveTyped
    DEF Next, ConnectEnds, DisconnectStep, SubscribeStep, ReaderStep

LEMMA StepHand == TypeOK /\ HandOK /\ [Next]_vars => HandOK'
<1> SUFFICES ASSUME TypeOK, HandOK, [Next]_vars PROVE HandOK'
  OBVIOUS
<1> USE DEF HandOK, wsVars, outVars, callerVars, handlerVars, lifeVars
<1>1. CASE UNCHANGED <<reader, inHand, relay, wsState, queue, ws, local>>
  BY <1>1
<1>2. ASSUME NEW a \in Callers, ConnectDown(a) \/ ConnectUp(a) PROVE HandOK'
  <2>1. ws + 1 \in Sessions /\ reader[ws + 1] = "none" /\ relay[ws + 1] = "none"
    BY <1>2 DEF ConnectDown, ConnectUp, TypeOK, Sessions
  <2>2. ws' = ws + 1 /\ ws \in Nat /\ Sessions \subseteq Nat /\ UNCHANGED <<queue, inHand, local>>
    BY <1>2 DEF ConnectDown, ConnectUp, TypeOK, Sessions
  <2>3. \A a2 \in Callers : local[a2].ws \in Nat
    BY DEF TypeOK
  <2>4. \A s \in Sessions \ {ws + 1} : UNCHANGED <<reader[s], relay[s], wsState[s]>>
    BY <1>2 DEF ConnectDown, ConnectUp, TypeOK
  <2>5. reader'[ws + 1] \in {"none", "select"}
    BY <1>2, <2>1 DEF ConnectDown, ConnectUp, TypeOK
  <2> QED
    BY <2>1, <2>2, <2>4, <2>5, <2>3
<1>3. ASSUME NEW s \in Sessions, ReportMalformed(s) \/ DeliverUpdate(s) \/ AbandonUpdate(s) PROVE HandOK'
  <2>1. inHand' = [inHand EXCEPT ![s] = <<>>]
    BY <1>3 DEF ReportMalformed, DeliverUpdate, AbandonUpdate, Settle
  <2>2. reader' = [reader EXCEPT ![s] = "select"] \/ reader' = [reader EXCEPT ![s] = "panic"]
    BY <1>3 DEF ReportMalformed, DeliverUpdate, AbandonUpdate, ReaderGoto
  <2>3. UNCHANGED <<relay, wsState, queue, ws, local>> /\ reader[s] # "none"
    BY <1>3 DEF ReportMalformed, DeliverUpdate, AbandonUpdate
  <2> QED
    BY <2>1, <2>2, <2>3 DEF TypeOK
<1>4. ASSUME NEW s \in Sessions, ReaderExits(s) PROVE HandOK'
  BY <1>4 DEF ReaderExits, ReaderGoto, TypeOK
<1>5. ASSUME NEW s \in Sessions, NEW from \in Sessions, TakeMessage(s, from) PROVE HandOK'
  <2>1. /\ UNCHANGED <<relay, wsState, ws, local>> /\ reader[s] = "select" /\ queue[from] # <<>>
        /\ \A n \in Sessions \ {from} : queue'[n] = queue[n]
    BY <1>5 DEF TakeMessage, TypeOK
  <2>2. CASE UNCHANGED <<reader, inHand>>
    BY <2>1, <2>2
  <2>3. CASE /\ inHand' = [inHand EXCEPT ![s] = <<Head(queue[from])>>]
             /\ \E l \in {"deliver", "report"} : reader' = [reader EXCEPT ![s] = l]
    BY <2>1, <2>3 DEF TypeOK
  <2> QED
    BY <1>5, <2>2, <2>3 DEF TakeMessage, ReaderGoto
<1>6. ASSUME NEW s \in Sessions, RelayEvent(s) \/ RelayExits(s) PROVE HandOK'
  BY <1>6 DEF RelayEvent, RelayExits, TypeOK
<1>7. ASSUME NEW s \in Sessions, NEW m \in Messages, Receive(s, m) PROVE HandOK'
  BY <1>7 DEF Receive, TypeOK
<1>8. ASSUME NEW a \in Callers, CloseWs(a) PROVE HandOK'
  BY <1>8 DEF CloseWs, TypeOK
<1>9. ASSUME NEW a \in Callers, DisconnectLock(a) \/ CloseChannels(a) PROVE HandOK'
  <2>1. /\ UNCHANGED <<reader, inHand, relay, wsState, queue, ws>>
        /\ \E r : local' = [local EXCEPT ![a] = r] /\ r.ws <= ws
    BY <1>9 DEF DisconnectLock, CloseChannels, Nothing, TypeOK
  <2> QED
    BY <2>1 DEF TypeOK
<1> QED
  BY <1>1, <1>2, <1>3, <1>4, <1>5, <1>6, <1>7, <1>8, <1>9
  DEF Next, ConnectEnds, DisconnectStep, SubscribeStep, ReaderStep, vars,
      ConnectLock, ConnectRefused, WaitHandlers, SubscribeCheck, RegisterTicker, SendSubscription, SubscribeStreamEvents,
      Consume

\* TypeOK holds whatever the callers, the exchange and the subscribers do.
THEOREM TypeInvariant == Spec => []TypeOK
<1>1. Spec => [](TypeOK /\ HandOK)
  BY InitType, StepType, StepHand, PTL DEF Spec
<1> QED
  BY <1>1, PTL

-----------------------------------------------------------------------------
(* Channels *)

\* The channels that must exist: those of the streams, of a subscription about
\* to be sent, of the topics a client remembers, and those that were returned.
ChanOK ==
    /\ chan["order"] # "none" /\ chan["events"] # "none"
    /\ \A a \in Callers : At(a, "send") => chan[topic[a]] # "none"
    /\ \A s \in Sessions : \A t \in wsTopics[s] : chan[t] # "none"
    /\ \A k \in given : chan[k] # "none"
    /\ TickerHasChannel

LEMMA InitChan == Init => ChanOK
BY ChannelFacts DEF Init, ChanOK, TickerHasChannel, At

\* A channel that exists keeps existing, and a closed one stays closed.
LEMMA ChannelsStay ==
    ASSUME TypeOK, [Next]_vars, NEW k \in Channels
    PROVE  /\ chan[k] # "none" => chan'[k] # "none"
           /\ chan[k] = "closed" => chan'[k] = "closed"
<1>1. CASE UNCHANGED chan
  BY <1>1
<1>2. ASSUME NEW a \in Callers, CloseChannels(a)
      PROVE  /\ chan[k] # "none" => chan'[k] # "none"
             /\ chan[k] = "closed" => chan'[k] = "closed"
  BY <1>2 DEF CloseChannels
<1>3. ASSUME NEW a \in Callers, RegisterTicker(a)
      PROVE  /\ chan[k] # "none" => chan'[k] # "none"
             /\ chan[k] = "closed" => chan'[k] = "closed"
  BY <1>3 DEF RegisterTicker, TypeOK
<1> QED
  BY <1>1, <1>2, <1>3
  DEF Next, vars, wsVars, outVars, callerVars, handlerVars, lifeVars, ConnectEnds,
      DisconnectStep, SubscribeStep, ReaderStep, ConnectLock, ConnectRefused, ConnectDown,
      ConnectUp, DisconnectLock, CloseWs, WaitHandlers, SubscribeCheck, SendSubscription,
      SubscribeStreamEvents, TakeMessage, ReportMalformed, DeliverUpdate, AbandonUpdate,
      ReaderExits, RelayEvent, RelayExits, Receive, Consume

LEMMA TailElements ==
    ASSUME NEW q \in Seq(Messages), q # <<>>, NEW i \in 1..Len(Tail(q))
    PROVE  i + 1 \in 1..Len(q) /\ Tail(q)[i] = q[i + 1]
BY HeadTailProperties, LenProperties

LEMMA AppendElements ==
    ASSUME NEW q \in Seq(Messages), NEW m \in Messages, NEW i \in 1..Len(Append(q, m))
    PROVE  (i \in 1..Len(q) /\ Append(q, m)[i] = q[i]) \/ Append(q, m)[i] = m
BY AppendProperties, LenProperties

\* The queues hold messages whose ticker has a channel.
LEMMA StepTicker == TypeOK /\ ChanOK /\ [Next]_vars => TickerHasChannel'
<1> SUFFICES ASSUME TypeOK, ChanOK, [Next]_vars,
                    NEW n \in Sessions, NEW i \in 1..Len(queue'[n]), queue'[n][i].topic \in Symbols
             PROVE  chan'[queue'[n][i].topic] # "none"
  BY DEF TickerHasChannel
<1>1. ASSUME NEW j \in 1..Len(queue[n]), queue'[n][i] = queue[n][j]
      PROVE  chan'[queue'[n][i].topic] # "none"
  BY <1>1, ChannelsStay, ChannelFacts DEF ChanOK, TickerHasChannel
<1>2. CASE queue' = queue
  BY <1>1, <1>2
<1>3. ASSUME NEW s \in Sessions, NEW from \in Sessions, TakeMessage(s, from)
      PROVE  chan'[queue'[n][i].topic] # "none"
  <2>1. /\ queue[from] # <<>> /\ queue[from] \in Seq(Messages)
        /\ queue'[n] = IF n = from THEN Tail(queue[from]) ELSE queue[n]
    BY <1>3 DEF TakeMessage, TypeOK
  <2> QED
    BY <1>1, <2>1, TailElements
<1>4. ASSUME NEW s \in Sessions, NEW m \in Messages, Receive(s, m)
      PROVE  chan'[queue'[n][i].topic] # "none"
  <2>1. /\ queue[s] \in Seq(Messages) /\ m.topic \in wsTopics[s] /\ m.topic \in Channels
        /\ queue'[n] = IF n = s THEN Append(queue[s], m) ELSE queue[n]
    BY <1>4, ChannelFacts DEF Receive, TypeOK, Messages
  <2>2. chan'[m.topic] # "none"
    BY <2>1, ChannelsStay DEF ChanOK
  <2> QED
    BY <1>1, <2>1, <2>2, AppendElements
<1> QED
  BY <1>2, <1>3, <1>4
  DEF Next, vars, wsVars, outVars, callerVars, handlerVars, lifeVars, ConnectEnds,
      DisconnectStep, SubscribeStep, ReaderStep, ConnectLock, ConnectRefused, ConnectDown,
      ConnectUp, DisconnectLock, CloseWs, WaitHandlers, CloseChannels, SubscribeCheck,
      RegisterTicker, SendSubscription, SubscribeStreamEvents, ReportMalformed, DeliverUpdate,
      AbandonUpdate, ReaderExits, RelayEvent, RelayExits, Consume

\* Only Subscribe decides what is sent, remembered and returned.
LEMMA StepSubscriptions ==
    ASSUME TypeOK, ChanOK, [Next]_vars
    PROVE  /\ \A a \in Callers : pc'[a] = "send" => chan'[topic'[a]] # "none"
           /\ \A s \in Sessions : \A t \in wsTopics'[s] : chan'[t] # "none"
           /\ \A k \in given' : chan'[k] # "none"
<1> USE ChannelFacts DEF TypeOK, ChanOK, At, Goto
<1> DEFINE Good == /\ \A a \in Callers : pc'[a] = "send" => chan'[topic'[a]] # "none"
                   /\ \A s \in Sessions : \A t \in wsTopics'[s] : chan'[t] # "none"
                   /\ \A k \in given' : chan'[k] # "none"
<1> SUFFICES Good
  OBVIOUS
<1>1. CASE /\ UNCHANGED <<topic, wsTopics, given>>
           /\ \A a \in Callers : pc'[a] = "send" => At(a, "send")
  BY <1>1, ChannelsStay
<1>2. ASSUME NEW a \in Callers, NEW t \in Topics, SubscribeCheck(a, t) PROVE Good
  BY <1>2 DEF SubscribeCheck, Registers, lifeVars, wsVars, outVars, handlerVars
<1>3. ASSUME NEW a \in Callers, RegisterTicker(a) PROVE Good
  BY <1>3, ChannelsStay DEF RegisterTicker, wsVars
<1>4. ASSUME NEW a \in Callers, SendSubscription(a) PROVE Good
  <2>1. chan[topic[a]] # "none" /\ chan' = chan
    BY <1>4 DEF SendSubscription
  <2>2. \A s \in Sessions : \A t \in wsTopics'[s] : t \in wsTopics[s] \/ t = topic[a]
    BY <1>4 DEF SendSubscription
  <2>3. \A k \in given' : k \in given \/ k = topic[a]
    BY <1>4 DEF SendSubscription
  <2>4. \A b \in Callers : pc'[b] = "send" => At(b, "send") /\ topic'[b] = topic[b]
    BY <1>4 DEF SendSubscription
  <2> QED
    BY <2>1, <2>2, <2>3, <2>4
<1>5. CASE SubscribeStreamEvents
  BY <1>5 DEF SubscribeStreamEvents, lifeVars, wsVars, callerVars
<1>6. ASSUME NEW a \in Callers,
             \/ ConnectLock(a) \/ ConnectRefused(a) \/ ConnectDown(a) \/ ConnectUp(a)
             \/ DisconnectLock(a) \/ CloseWs(a) \/ WaitHandlers(a) \/ CloseChannels(a)
      PROVE  Good
  <2>1. UNCHANGED <<topic, wsTopics, given>>
    BY <1>6 DEF ConnectLock, ConnectRefused, ConnectDown, ConnectUp, DisconnectLock, CloseWs,
                WaitHandlers, CloseChannels, wsVars, outVars
  <2>2. \E l \in {"idle", "connect", "close", "wait", "closing", "panic"} : Goto(a, l)
    BY <1>6 DEF ConnectLock, ConnectRefused, ConnectDown, ConnectUp, DisconnectLock, CloseWs,
                WaitHandlers, CloseChannels
  <2> QED
    BY <1>1, <2>1, <2>2
<1>7. CASE UNCHANGED <<pc, topic, wsTopics, given>>
  BY <1>1, <1>7
<1> HIDE DEF TypeOK, ChanOK, At, Goto, Good
<1>8. ASSUME NEW s \in Sessions,
             \/ ReaderStep(s) \/ ReaderExits(s) \/ RelayEvent(s) \/ RelayExits(s)
             \/ \E m \in Messages : Receive(s, m)
      PROVE  Good
  BY <1>7, <1>8 DEF wsVars, outVars, callerVars, handlerVars, lifeVars, ReaderStep, TakeMessage,
      ReportMalformed, DeliverUpdate, AbandonUpdate, ReaderExits, RelayEvent, RelayExits, Receive
<1>9. CASE UNCHANGED vars \/ \E k \in Channels : Consume(k)
  BY <1>7, <1>9 DEF Consume, vars, wsVars, outVars, callerVars
<1> QED
  BY <1>2, <1>3, <1>4, <1>5, <1>6, <1>8, <1>9
  DEF Next, ConnectEnds, DisconnectStep, SubscribeStep

LEMMA StepChan == TypeOK /\ ChanOK /\ [Next]_vars => ChanOK'
<1> SUFFICES ASSUME TypeOK, ChanOK, [Next]_vars PROVE ChanOK'
  OBVIOUS
<1>1. chan'["order"] # "none" /\ chan'["events"] # "none"
  BY ChannelsStay, ChannelFacts DEF ChanOK
<1> QED
  BY <1>1, StepTicker, StepSubscriptions DEF ChanOK, At

\* TickerHasChannel: no message of a ticker waits without a channel for it.
THEOREM TickersHaveChannels == Spec => []TickerHasChannel
<1>1. Spec => [](TypeOK /\ HandOK /\ ChanOK)
  BY InitType, StepType, StepHand, InitChan, StepChan, PTL DEF Spec
<1>2. ChanOK => TickerHasChannel
  BY DEF ChanOK
<1> QED
  BY <1>1, <1>2, PTL

-----------------------------------------------------------------------------
(* One life *)

Quiet ==
    /\ \A s \in Sessions : reader[s] # "panic" /\ relay[s] # "panic"
    /\ \A a \in Callers : ~At(a, "panic")

\* Of several calls of Disconnect one gets past the check; it closes the
\* channels, those given before it began among them, when the handlers are gone.
LifeOK ==
    ~reused =>
      /\ connected => ~ctxDone
      /\ ~ctxDone => /\ \A k \in Channels : chan[k] # "closed"
                     /\ \A a \in Callers : ~InDisconnect(a)
                     /\ promised = {}
      /\ \A a \in Callers : InDisconnect(a) =>
            /\ \A k \in Channels : chan[k] # "closed"
            /\ \A b \in Callers : InDisconnect(b) => b = a
            /\ promised \subseteq local[a].tickers \cup {"order", "events"}
      /\ \A a \in Callers : At(a, "closing") => WgZero
      /\ (\E k \in Channels : chan[k] = "closed") => WgZero
      /\ (\A a \in Callers : ~InDisconnect(a)) => \A k \in promised : chan[k] = "closed"
      /\ Quiet

LEMMA InitLife == Init => LifeOK
BY ChannelFacts DEF Init, LifeOK, InDisconnect, Quiet, At

LEMMA StepLife == TypeOK /\ HandOK /\ ChanOK /\ LifeOK /\ [Next]_vars => LifeOK'
<1> SUFFICES ASSUME TypeOK, HandOK, ChanOK, LifeOK, [Next]_vars, ~reused' PROVE LifeOK'
  BY DEF LifeOK
<1> USE ChannelFacts
<1> DEFINE Alone(a) ==
      /\ \A k \in Channels : chan[k] # "closed"
      /\ \A b \in Callers : InDisconnect(b) => b = a
      /\ promised \subseteq local[a].tickers \cup {"order", "events"}
<1>0. ~reused
  BY DEF Next, vars, wsVars, outVars, callerVars, handlerVars, lifeVars, ConnectEnds,
      DisconnectStep, SubscribeStep, ReaderStep, ConnectLock, ConnectRefused, ConnectDown,
      ConnectUp, DisconnectLock, CloseWs, WaitHandlers, CloseChannels, SubscribeCheck,
      RegisterTicker, SendSubscription, SubscribeStreamEvents, TakeMessage, ReportMalformed,
      DeliverUpdate, AbandonUpdate, ReaderExits, RelayEvent, RelayExits, Receive, Consume
\* Steps of callers outside Disconnect.
<1>1. ASSUME /\ UNCHANGED <<ctxDone, promised, local, reader, relay>>
             /\ connected' => ~ctxDone
             /\ \A k \in Channels : chan'[k] = "closed" <=> chan[k] = "closed"
             /\ \A a \in Callers : InDisconnect(a)' <=> InDisconnect(a)
             /\ \A a \in Callers : At(a, "closing")' => At(a, "closing")
             /\ \A a \in Callers : At(a, "panic")' => At(a, "panic")
      PROVE  LifeOK'
  <2>1. WgZero' <=> WgZero
    BY <1>1 DEF WgZero
  <2>2. Quiet'
    BY <1>0, <1>1 DEF LifeOK, Quiet
  <2>3. \A k \in promised : k \in Channels
    BY DEF TypeOK
  <2> QED
    BY <1>0, <1>1, <2>1, <2>2, <2>3 DEF LifeOK
<1>2. ASSUME NEW a \in Callers, NEW l \in {"idle", "connect", "register", "send"},
             Goto(a, l), ~InDisconnect(a), UNCHANGED <<ctxDone, promised, local, reader, relay>>,
             connected' => ~ctxDone,
             \A k \in Channels : chan'[k] = "closed" <=> chan[k] = "closed"
      PROVE  LifeOK'
  BY <1>1, <1>2 DEF Goto, InDisconnect, At, TypeOK
<1>3. ASSUME NEW a \in Callers,
             \/ ConnectLock(a) \/ ConnectRefused(a) \/ ConnectDown(a)
             \/ RegisterTicker(a) \/ SendSubscription(a) \/ \E t \in Topics : SubscribeCheck(a, t)
      PROVE  LifeOK'
  <2>1. /\ UNCHANGED <<ctxDone, promised, local, reader, relay, connected>>
        /\ ~InDisconnect(a)
        /\ \E l \in {"idle", "connect", "register", "send"} : Goto(a, l)
    BY <1>3 DEF ConnectLock, ConnectRefused, ConnectDown, RegisterTicker, SendSubscription,
                SubscribeCheck, lifeVars, handlerVars, InDisconnect, At
  <2>2. \A k \in Channels : chan'[k] = "closed" <=> chan[k] = "closed"
    BY <1>3 DEF ConnectLock, ConnectRefused, ConnectDown, RegisterTicker, SendSubscription,
                SubscribeCheck, outVars, TypeOK
  <2> QED
    BY <1>0, <1>2, <2>1, <2>2 DEF LifeOK
<1>4. ASSUME NEW a \in Callers, ConnectUp(a) PROVE LifeOK'
  <2>1. ~ctxDone /\ ctxDone' = ctxDone /\ UNCHANGED <<chan, promised>>
    BY <1>4 DEF ConnectUp, outVars
  <2>2. \A b \in Callers : ~InDisconnect(b)' /\ ~At(b, "panic")'
    BY <1>0, <1>4, <2>1 DEF ConnectUp, LifeOK, InDisconnect, Quiet, Goto, At, TypeOK
  <2>3. \A s \in Sessions : reader'[s] # "panic" /\ relay'[s] # "panic"
    BY <1>0, <1>4 DEF ConnectUp, LifeOK, Quiet, TypeOK
  <2> QED
    BY <1>0, <2>1, <2>2, <2>3 DEF LifeOK, Quiet, InDisconnect, At
<1>5. ASSUME NEW a \in Callers, DisconnectLock(a) PROVE LifeOK'
  <2>1. ~ctxDone /\ ctxDone' /\ ~connected' /\ UNCHANGED <<chan, reader, relay>>
    BY <1>0, <1>5 DEF DisconnectLock, LifeOK, outVars
  <2>2. \A b \in Callers : /\ InDisconnect(b)' <=> b = a
                           /\ ~At(b, "closing")' /\ ~At(b, "panic")'
    BY <1>0, <1>5, <2>1 DEF DisconnectLock, LifeOK, Quiet, InDisconnect, Goto, At, TypeOK
  <2>3. promised' \subseteq local'[a].tickers \cup {"order", "events"}
    BY <1>5 DEF DisconnectLock, Registered, ChanOK, TypeOK
  <2> QED
    BY <1>0, <2>1, <2>2, <2>3 DEF LifeOK, Quiet
<1>6. ASSUME NEW a \in Callers, CloseWs(a) \/ WaitHandlers(a) PROVE LifeOK'
  <2>1. /\ UNCHANGED <<connected, ctxDone, promised, local, chan, reader, relay>>
        /\ InDisconnect(a)
    BY <1>6 DEF CloseWs, WaitHandlers, lifeVars, outVars, handlerVars, InDisconnect, At
  <2>2. \A b \in Callers : (InDisconnect(b)' <=> InDisconnect(b)) /\ (At(b, "panic")' => At(b, "panic"))
    BY <1>6 DEF CloseWs, WaitHandlers, InDisconnect, Goto, At, TypeOK
  <2>3. \A b \in Callers : At(b, "closing")' => At(b, "closing") \/ WgZero
    BY <1>6 DEF CloseWs, WaitHandlers, Goto, At, TypeOK
  <2>4. WgZero' <=> WgZero
    BY <2>1 DEF WgZero
  <2> QED
    BY <1>0, <2>1, <2>2, <2>3, <2>4 DEF LifeOK, Quiet
<1>7. ASSUME NEW a \in Callers, CloseChannels(a) PROVE LifeOK'
  <2>1. InDisconnect(a) /\ WgZero /\ Alone(a) /\ ctxDone /\ ~connected
    BY <1>0, <1>7 DEF CloseChannels, LifeOK, InDisconnect, At
  <2>2. /\ UNCHANGED <<connected, ctxDone, promised, reader, relay>> /\ Goto(a, "idle")
        /\ \A k \in local[a].tickers \cup {"order", "events"} : k \in Channels => chan'[k] = "closed"
    BY <1>7, <2>1 DEF CloseChannels, lifeVars, handlerVars
  <2>3. \A b \in Callers : ~InDisconnect(b)' /\ ~At(b, "panic")' /\ ~At(b, "closing")'
    BY <1>0, <2>1, <2>2 DEF LifeOK, Quiet, InDisconnect, Goto, At, TypeOK
  <2>4. WgZero'
    BY <2>1, <2>2 DEF WgZero
  <2>5. \A k \in promised : chan'[k] = "closed"
    BY <2>1, <2>2 DEF TypeOK
  <2> QED
    BY <1>0, <2>1, <2>2, <2>3, <2>4, <2>5 DEF LifeOK, Quiet
<1>8. CASE SubscribeStreamEvents \/ \E k \in Channels : Consume(k)
  BY <1>1, <1>8, <1>0 DEF SubscribeStreamEvents, Consume, lifeVars, callerVars, handlerVars, LifeOK,
     InDisconnect, At
\* Steps of the handlers.
<1>9. ASSUME ~WgZero, UNCHANGED <<lifeVars, callerVars, chan>>,
             \A n \in Sessions : /\ reader'[n] = "panic" => reader[n] = "panic"
                                 /\ relay'[n] = "panic" => relay[n] = "panic"
      PROVE  LifeOK'
  BY <1>0, <1>9 DEF LifeOK, lifeVars, callerVars, Quiet, InDisconnect, At
<1>10. ASSUME NEW s \in Sessions,
              \/ ReaderStep(s) \/ ReaderExits(s) \/ RelayEvent(s) \/ RelayExits(s)
       PROVE  LifeOK'
  <2>1. ~WgZero /\ UNCHANGED <<lifeVars, callerVars, chan>>
    BY <1>10 DEF ReaderStep, TakeMessage, ReportMalformed, DeliverUpdate, AbandonUpdate,
       ReaderExits, RelayEvent, RelayExits, WgZero, outVars
  <2>2. \A k \in Channels : chan[k] # "closed"
    BY <1>0, <2>1 DEF LifeOK
  <2>3. reader[s] = "deliver" => chan[inHand[s][1].topic] # "closed"
    BY <2>2, HeldTyped
  <2>4. reader' = reader \/ \E l \in {"select", "deliver", "report", "done"} : ReaderGoto(s, l)
    BY <1>10, <2>2, <2>3 DEF ReaderStep, TakeMessage, ReportMalformed, DeliverUpdate, AbandonUpdate,
       ReaderExits, RelayEvent, RelayExits
  <2>5. \A n \in Sessions : reader'[n] = "panic" => reader[n] = "panic"
    BY <2>4 DEF ReaderGoto, TypeOK
  <2>6. \A n \in Sessions : relay'[n] = "panic" => relay[n] = "panic"
    BY <1>10, <2>2 DEF ReaderStep, TakeMessage, ReportMalformed, DeliverUpdate, AbandonUpdate,
       ReaderExits, RelayEvent, RelayExits, TypeOK
  <2> QED
    BY <1>9, <2>1, <2>5, <2>6
<1>11. ASSUME NEW s \in Sessions, NEW m \in Messages, Receive(s, m) PROVE LifeOK'
  BY <1>0, <1>1, <1>11 DEF Receive, lifeVars, outVars, callerVars, handlerVars, LifeOK, InDisconnect, At
<1>12. CASE UNCHANGED vars
  BY <1>0, <1>1, <1>12 DEF vars, lifeVars, outVars, callerVars, handlerVars, LifeOK, InDisconnect, At
<1> QED
  BY <1>3, <1>4, <1>5, <1>6, <1>7, <1>8, <1>10, <1>11, <1>12
  DEF Next, ConnectEnds, DisconnectStep, SubscribeStep

LEMMA LifeInvariant == Spec => [](TypeOK /\ HandOK /\ ChanOK /\ LifeOK)
BY InitType, StepType, StepHand, InitChan, StepChan, InitLife, StepLife, PTL DEF Spec

\* NoPanicInOneLife: no handler sends on a closed channel of the connector and no
\* Disconnect closes one again, for any number of callers.
THEOREM NoPanic == Spec => []NoPanicInOneLife
<1>1. LifeOK => NoPanicInOneLife
  BY DEF LifeOK, Quiet, NoPanicInOneLife
<1> QED
  BY <1>1, LifeInvariant, PTL

\* SubscribersReleased: Disconnect leaves no subscriber with an open channel.
THEOREM ReleasesSubscribers == Spec => []SubscribersReleased
<1>1. LifeOK => SubscribersReleased
  BY DEF LifeOK, InDisconnect, SubscribersReleased
<1> QED
  BY <1>1, LifeInvariant, PTL

-----------------------------------------------------------------------------
(* The flow of messages *)

\* Connect holds c.mu.
MutexOK ==
    /\ \A a, b \in Callers : At(a, "connect") /\ At(b, "connect") => a = b
    /\ \A a \in Callers : At(a, "connect") => ~connected

Untouched(s) == reader[s] \notin {"select", "report", "deliver"} /\ wsState[s] # "up" /\ queue[s] = <<>>

\* Until Disconnect only the current session moves messages.
FlowOK ==
    /\ MutexOK
    /\ connected => ws \in Sessions
    /\ ~ctxDone => /\ ~connected => accepted = <<>> /\ handed = <<>>
                   /\ \A s \in Sessions : (connected => s # ws) => Untouched(s)
    /\ InOrder

LEMMA InitFlow == Init => FlowOK
BY DEF Init, FlowOK, MutexOK, Untouched, InOrder, At

LEMMA StepMutex == MutexOK /\ TypeOK /\ [Next]_vars => MutexOK'
<1> SUFFICES ASSUME MutexOK, TypeOK, [Next]_vars PROVE MutexOK'
  OBVIOUS
<1> USE DEF MutexOK, At, Goto
<1>1. CASE UNCHANGED <<pc, connected>>
  BY <1>1
<1>2. ASSUME NEW a \in Callers, ConnectLock(a) PROVE MutexOK'
  BY <1>2 DEF ConnectLock, MuFree, lifeVars, TypeOK
<1>3. ASSUME NEW a \in Callers, ConnectEnds(a) PROVE MutexOK'
  <2>1. At(a, "connect") /\ Goto(a, "idle")
    BY <1>3 DEF ConnectEnds, ConnectRefused, ConnectDown, ConnectUp
  <2>2. \A b \in Callers : ~At(b, "connect")'
    BY <2>1 DEF TypeOK
  <2> QED
    BY <2>2
<1>4. ASSUME NEW a \in Callers, DisconnectLock(a) PROVE MutexOK'
  BY <1>4 DEF DisconnectLock, TypeOK
<1>5. ASSUME NEW a \in Callers, NEW l \in {"idle", "close", "wait", "closing", "register", "send", "panic"},
             Goto(a, l), UNCHANGED connected
      PROVE  MutexOK'
  BY <1>5 DEF TypeOK
<1>6. ASSUME NEW a \in Callers,
             \/ CloseWs(a) \/ WaitHandlers(a) \/ CloseChannels(a)
             \/ RegisterTicker(a) \/ SendSubscription(a) \/ \E t \in Topics : SubscribeCheck(a, t)
      PROVE  MutexOK'
  <2>1. UNCHANGED connected
    BY <1>6 DEF CloseWs, WaitHandlers, CloseChannels, RegisterTicker, SendSubscription, SubscribeCheck, lifeVars
  <2>2. \E l \in {"idle", "close", "wait", "closing", "register", "send", "panic"} : Goto(a, l)
    BY <1>6 DEF CloseWs, WaitHandlers, CloseChannels, RegisterTicker, SendSubscription, SubscribeCheck
  <2> QED
    BY <1>5, <2>1, <2>2
<1> HIDE DEF MutexOK, At, Goto
<1>7. ASSUME NEW s \in Sessions,
             \/ ReaderStep(s) \/ ReaderExits(s) \/ RelayEvent(s) \/ RelayExits(s)
             \/ \E m \in Messages : Receive(s, m)
      PROVE  MutexOK'
  BY <1>1, <1>7 DEF callerVars, lifeVars, ReaderStep, TakeMessage,
      ReportMalformed, DeliverUpdate, AbandonUpdate, ReaderExits, RelayEvent, RelayExits, Receive
<1>8. CASE UNCHANGED vars \/ SubscribeStreamEvents \/ \E k \in Channels : Consume(k)
  BY <1>1, <1>8 DEF SubscribeStreamEvents, Consume, vars, lifeVars, callerVars
<1> QED
  BY <1>2, <1>3, <1>4, <1>6, <1>7, <1>8 DEF Next, DisconnectStep, SubscribeStep

\* What sequences do when a message moves along.
LEMMA MoveOn ==
    ASSUME NEW h \in Seq(Messages), NEW q \in Seq(Messages), q # <<>>
    PROVE  /\ h \o <<>> \o q = h \o <<Head(q)>> \o Tail(q)
           /\ h \o <<>> \o q = (h \o <<Head(q)>>) \o <<>> \o Tail(q)
<1>1. Head(q) \in Messages /\ Tail(q) \in Seq(Messages) /\ <<>> \in Seq(Messages)
  BY EmptySeq, HeadTailProperties
<1>2. q = <<Head(q)>> \o Tail(q) /\ <<Head(q)>> \in Seq(Messages)
  <2>1. Len(q) \in Nat \ {0} /\ Len(Tail(q)) = Len(q) - 1
    BY EmptySeq, LenProperties, HeadTailProperties
  <2> QED
    BY <1>1, <2>1, HeadTailProperties, ConcatProperties
<1>3. h \o <<>> = h /\ (h \o <<Head(q)>>) \o <<>> = h \o <<Head(q)>>
  BY <1>1, <1>2, ConcatEmptySeq, ConcatProperties
<1>4. h \o (<<Head(q)>> \o Tail(q)) = (h \o <<Head(q)>>) \o Tail(q)
  BY <1>1, <1>2, ConcatAssociative
<1> QED
  BY <1>2, <1>3, <1>4

LEMMA SettleOn ==
    ASSUME NEW h \in Seq(Messages), NEW i \in Seq(Messages), NEW q \in Seq(Messages)
    PROVE  h \o i \o q = (h \o i) \o <<>> \o q
<1>1. h \o i \in Seq(Messages)
  BY ConcatProperties
<1> QED
  BY <1>1, ConcatEmptySeq

\* Outside Disconnect, where the invariant says nothing of the messages.
LEMMA FlowAfterDisconnect ==
    ASSUME MutexOK', connected' => ws' \in Sessions, ctxDone'
    PROVE  FlowOK'
BY DEF FlowOK, InOrder

\* Steps that move no message.
LEMMA FlowStutters ==
    ASSUME FlowOK, TypeOK, MutexOK', UNCHANGED <<connected, ctxDone, ws, queue, inHand, accepted, handed>>,
           \A s \in Sessions : Untouched(s) => reader'[s] = reader[s] /\ wsState'[s] # "up"
    PROVE  FlowOK'
<1>1. \A s \in Sessions : Untouched(s) => Untouched(s)'
  BY DEF Untouched
<1>2. InOrder' <=> InOrder
  BY DEF InOrder
<1> QED
  BY <1>1, <1>2 DEF FlowOK

\* Steps of a handler of the current session, before Disconnect.
LEMMA FlowMoves ==
    ASSUME FlowOK, TypeOK, HandOK, MutexOK', UNCHANGED <<lifeVars, wsState>>,
           NEW s \in Sessions, connected, ~ctxDone, s = ws, InOrder',
           \A n \in Sessions \ {s} : UNCHANGED <<reader[n], queue[n]>>
    PROVE  FlowOK'
<1>1. \A n \in Sessions : n # ws => Untouched(n)'
  BY DEF FlowOK, Untouched, lifeVars
<1>2. connected' /\ ~ctxDone' /\ ws' = ws
  BY DEF lifeVars
<1> QED
  BY <1>1, <1>2 DEF FlowOK

LEMMA StepTake ==
    ASSUME TypeOK, HandOK, FlowOK, MutexOK', NEW s \in Sessions, NEW from \in Sessions, TakeMessage(s, from)
    PROVE  FlowOK'
<1>0. UNCHANGED <<lifeVars, wsState, accepted>>
  BY DEF TakeMessage
<1>1. CASE ctxDone
  BY <1>0, <1>1, FlowAfterDisconnect DEF lifeVars, FlowOK
<1>2. CASE ~ctxDone
  <2>1. reader[s] = "select" /\ ~Untouched(s)
    BY DEF TakeMessage, Untouched
  <2>2. connected /\ s = ws
    BY <1>2, <2>1 DEF FlowOK
  <2>3. from = ws
    BY <2>2 DEF TakeMessage, Source, TypeOK, Sessions
  <2>4. /\ inHand[s] = <<>> /\ accepted = handed \o <<>> \o queue[s]
    BY <1>2, <2>1, <2>2 DEF HandOK, FlowOK, InOrder
  <2>5. /\ queue[s] # <<>> /\ queue[s] \in Seq(Messages) /\ handed \in Seq(Messages)
        /\ queue'[s] = Tail(queue[s])
        /\ \A n \in Sessions \ {s} : UNCHANGED <<reader[n], queue[n]>>
    BY <2>2, <2>3 DEF TakeMessage, ReaderGoto, TypeOK
  <2>6. \/ handed' = handed \o <<Head(queue[s])>> /\ inHand'[s] = <<>>
        \/ handed' = handed /\ inHand'[s] = <<Head(queue[s])>>
    BY <1>2, <2>2, <2>3, <2>4 DEF TakeMessage, HandOver, TypeOK
  <2>7. accepted = handed' \o inHand'[s] \o queue'[s]
    BY <2>4, <2>5, <2>6, MoveOn
  <2>8. InOrder'
    BY <1>0, <2>2, <2>7 DEF InOrder, lifeVars
  <2> QED
    BY <1>0, <1>2, <2>2, <2>5, <2>8, FlowMoves
<1> QED
  BY <1>1, <1>2

LEMMA StepSettle ==
    ASSUME TypeOK, HandOK, FlowOK, MutexOK', NEW s \in Sessions,
           ReportMalformed(s) \/ DeliverUpdate(s) \/ AbandonUpdate(s)
    PROVE  FlowOK'
<1>0. UNCHANGED <<lifeVars, wsVars>>
  BY DEF ReportMalformed, DeliverUpdate, AbandonUpdate
<1>1. CASE ctxDone
  BY <1>0, <1>1, FlowAfterDisconnect DEF lifeVars, FlowOK
<1>2. CASE ~ctxDone
  <2>1. ~Untouched(s) /\ Settle(s)
    BY <1>2 DEF ReportMalformed, DeliverUpdate, AbandonUpdate, Untouched, Released
  <2>2. connected /\ s = ws
    BY <1>2, <2>1 DEF FlowOK
  <2>3. accepted = handed \o inHand[s] \o queue[s]
    BY <1>2, <2>2 DEF FlowOK, InOrder
  <2>4. handed' = handed \o inHand[s] /\ inHand'[s] = <<>> /\ queue' = queue /\ accepted' = accepted
    BY <1>0, <1>2, <2>1 DEF Settle, HandOver, TypeOK, wsVars
  <2>5. accepted' = handed' \o inHand'[s] \o queue'[s]
    <3>1. handed \in Seq(Messages) /\ inHand[s] \in Seq(Messages) /\ queue[s] \in Seq(Messages)
      BY DEF TypeOK
    <3>2. handed \o inHand[s] \o queue[s] = (handed \o inHand[s]) \o <<>> \o queue[s]
      BY <3>1, SettleOn
    <3> QED
      BY <2>3, <2>4, <3>2
  <2>6. InOrder'
    BY <1>0, <2>2, <2>5 DEF InOrder, lifeVars
  <2>7. \A n \in Sessions \ {s} : UNCHANGED <<reader[n], queue[n]>>
    BY <2>4 DEF ReportMalformed, DeliverUpdate, AbandonUpdate, ReaderGoto, TypeOK
  <2> QED
    BY <1>0, <1>2, <2>2, <2>6, <2>7, FlowMoves DEF wsVars
<1> QED
  BY <1>1, <1>2

LEMMA StepReceive ==
    ASSUME TypeOK, HandOK, FlowOK, MutexOK', NEW s \in Sessions, NEW m \in Messages, Receive(s, m)
    PROVE  FlowOK'
<1>0. UNCHANGED <<lifeVars, wsState, handlerVars>>
  BY DEF Receive
<1>1. CASE ctxDone
  BY <1>0, <1>1, FlowAfterDisconnect DEF lifeVars, FlowOK
<1>2. CASE ~ctxDone
  <2>1. ~Untouched(s)
    BY DEF Receive, Untouched
  <2>2. connected /\ s = ws
    BY <1>2, <2>1 DEF FlowOK
  <2>3. accepted = handed \o inHand[s] \o queue[s]
    BY <1>2, <2>2 DEF FlowOK, InOrder
  <2>4. /\ accepted' = Append(accepted, m) /\ queue'[s] = Append(queue[s], m)
        /\ handed' = handed /\ inHand' = inHand
    BY <1>0, <1>2 DEF Receive, TypeOK, handlerVars
  <2>5. accepted' = handed' \o inHand'[s] \o queue'[s]
    <3>1. handed \in Seq(Messages) /\ inHand[s] \in Seq(Messages) /\ queue[s] \in Seq(Messages)
      BY DEF TypeOK
    <3>2. (handed \o inHand[s] \o queue[s]) \o <<m>> = handed \o inHand[s] \o (queue[s] \o <<m>>)
      <4> DEFINE l == <<m>>  hi == handed \o inHand[s]
      <4>1. l \in Seq(Messages) /\ hi \in Seq(Messages)
        BY <3>1, ConcatProperties
      <4> HIDE DEF l, hi
      <4>2. \A x, y, z \in Seq(Messages) : (x \o y) \o z = x \o (y \o z)
        BY ConcatAssociative
      <4>3. (hi \o queue[s]) \o l = hi \o (queue[s] \o l)
        BY <3>1, <4>1, <4>2
      <4> QED
        BY <4>3 DEF l, hi
    <3>3. Append(accepted, m) = accepted \o <<m>> /\ Append(queue[s], m) = queue[s] \o <<m>>
      BY <3>1, AppendIsConcat DEF TypeOK
    <3> QED
      BY <2>3, <2>4, <3>2, <3>3
  <2>6. InOrder'
    BY <1>0, <2>2, <2>5 DEF InOrder, lifeVars
  <2>7. \A n \in Sessions \ {s} : UNCHANGED <<reader[n], queue[n]>>
    BY <1>0 DEF Receive, TypeOK, handlerVars
  <2> QED
    BY <1>0, <1>2, <2>2, <2>6, <2>7, FlowMoves
<1> QED
  BY <1>1, <1>2

LEMMA StepConnectUp ==
    ASSUME TypeOK, HandOK, FlowOK, MutexOK', NEW a \in Callers, ConnectUp(a)
    PROVE  FlowOK'
<1>0. ws' = ws + 1 /\ ws + 1 \in Sessions /\ connected' /\ ctxDone' = ctxDone /\ ~connected
  BY DEF ConnectUp, TypeOK, Sessions, FlowOK, MutexOK
<1>1. CASE ctxDone
  BY <1>0, <1>1, FlowAfterDisconnect
<1>2. CASE ~ctxDone
  <2>1. /\ accepted' = <<>> /\ handed' = <<>>
        /\ \A s \in Sessions : Untouched(s)
    BY <1>0, <1>2 DEF FlowOK, ConnectUp
  <2>2. \A s \in Sessions : inHand'[s] = <<>> /\ queue'[s] = <<>>
    BY <2>1 DEF ConnectUp, HandOK, Untouched
  <2>3. \A s \in Sessions : s # ws' => Untouched(s)'
    BY <1>0, <2>1, <2>2 DEF ConnectUp, Untouched, TypeOK
  <2>4. <<>> \o <<>> \o <<>> = <<>>
    BY ConcatEmptySeq, EmptySeq
  <2>5. InOrder'
    BY <1>0, <2>1, <2>2, <2>4 DEF InOrder
  <2> QED
    BY <1>0, <2>1, <2>3, <2>5 DEF FlowOK
<1> QED
  BY <1>1, <1>2

LEMMA StepFlow == TypeOK /\ HandOK /\ FlowOK /\ [Next]_vars => FlowOK'
<1> SUFFICES ASSUME TypeOK, HandOK, FlowOK, [Next]_vars PROVE FlowOK'
  OBVIOUS
<1>0. MutexOK'
  BY StepMutex DEF FlowOK
<1>1. ASSUME NEW a \in Callers, ConnectDown(a) PROVE FlowOK'
  <2>1. /\ ws' = ws + 1 /\ ws + 1 \in Sessions /\ ~connected /\ ~connected'
        /\ UNCHANGED <<ctxDone, queue, reader, inHand, accepted, handed>>
    BY <1>1 DEF ConnectDown, TypeOK, Sessions, FlowOK, MutexOK, handlerVars
  <2>2. \A s \in Sessions : Untouched(s) => Untouched(s)'
    BY <1>1, <2>1 DEF ConnectDown, Untouched, TypeOK
  <2>3. InOrder'
    BY <2>1 DEF InOrder
  <2> QED
    BY <1>0, <2>1, <2>2, <2>3 DEF FlowOK
<1>2. ASSUME NEW a \in Callers, DisconnectLock(a) PROVE FlowOK'
  BY <1>0, <1>2, FlowAfterDisconnect DEF DisconnectLock
<1>3. ASSUME NEW a \in Callers, CloseWs(a) PROVE FlowOK'
  <2>1. \A s \in Sessions : wsState[s] # "up" => wsState'[s] # "up"
    BY <1>3 DEF CloseWs, TypeOK
  <2> QED
    BY <1>0, <1>3, <2>1, FlowStutters DEF CloseWs, lifeVars, handlerVars, Untouched
<1>4. ASSUME NEW a \in Callers,
             \/ ConnectLock(a) \/ ConnectRefused(a) \/ WaitHandlers(a) \/ CloseChannels(a)
             \/ RegisterTicker(a) \/ SendSubscription(a) \/ \E t \in Topics : SubscribeCheck(a, t)
      PROVE  FlowOK'
  BY <1>0, <1>4, FlowStutters
  DEF ConnectLock, ConnectRefused, WaitHandlers, CloseChannels, RegisterTicker, SendSubscription,
      SubscribeCheck, lifeVars, wsVars, handlerVars, Untouched
<1>5. ASSUME NEW s \in Sessions, RelayEvent(s) \/ RelayExits(s) PROVE FlowOK'
  BY <1>0, <1>5, FlowStutters DEF RelayEvent, RelayExits, lifeVars, wsVars, Untouched
<1>6. ASSUME NEW s \in Sessions, ReaderExits(s) PROVE FlowOK'
  <2>1. \A n \in Sessions : Untouched(n) => reader'[n] = reader[n]
    BY <1>6 DEF ReaderExits, ReaderGoto, Untouched, TypeOK
  <2> QED
    BY <1>0, <1>6, <2>1, FlowStutters DEF ReaderExits, lifeVars, wsVars, Untouched
<1>7. CASE UNCHANGED vars \/ SubscribeStreamEvents \/ \E k \in Channels : Consume(k)
  BY <1>0, <1>7, FlowStutters
  DEF SubscribeStreamEvents, Consume, vars, lifeVars, wsVars, handlerVars, Untouched
<1> QED
  BY <1>0, <1>1, <1>2, <1>3, <1>4, <1>5, <1>6, <1>7, StepTake, StepSettle, StepReceive, StepConnectUp
  DEF Next, ConnectEnds, DisconnectStep, SubscribeStep, ReaderStep

\* InOrder: until Disconnect every accepted message is with the subscribers, in
\* the handler's hand or waiting, in the order of its arrival.
THEOREM MessagesInOrder == Spec => []InOrder
<1>1. Spec => [](TypeOK /\ HandOK /\ FlowOK)
  BY InitType, StepType, StepHand, InitFlow, StepFlow, PTL DEF Spec
<1>2. FlowOK => InOrder
  BY DEF FlowOK
<1> QED
  BY <1>1, <1>2, PTL
=============================================================================
