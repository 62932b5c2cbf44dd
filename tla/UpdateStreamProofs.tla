--------------------------- MODULE UpdateStreamProofs ---------------------------
(***************************************************************************)
(* Connector implements UpdateStream, for any callers, symbols, capacities *)
(* and bounds.  What the handler holds, and what is left when Disconnect   *)
(* is over, complete the invariant of ConnectorProofs; then each step is   *)
(* mapped to a step of the abstract stream or to none.                     *)
(***************************************************************************)
EXTENDS ConnectorProofs

USE BoundsAreNatural, SymbolsAreNotFixed

-----------------------------------------------------------------------------
(* The message in the handler's hand *)

\* The handler delivers updates, for which there is a channel, and reports what
\* is malformed.
HeldOK ==
    \A s \in Sessions :
        /\ reader[s] = "deliver" => /\ inHand[s][1].form = "update"
                                    /\ chan[inHand[s][1].topic] # "none"
        /\ reader[s] = "report" => inHand[s][1].form = "malformed"

LEMMA InitHeld == Init => HeldOK
BY DEF Init, HeldOK

\* Every message in a queue has a channel.
LEMMA QueuedHasChannel ==
    ASSUME TypeOK, ChanOK, NEW s \in Sessions, queue[s] # <<>>
    PROVE  /\ Head(queue[s]) \in Messages /\ Head(queue[s]).topic \in Channels
           /\ chan[Head(queue[s]).topic] # "none"
<1> DEFINE q == queue[s]
<1>1. q \in Seq(Messages) /\ q # <<>>
  BY DEF TypeOK
<1>2. Head(q) = q[1] /\ 1 \in 1..Len(q) /\ Head(q) \in Messages
  BY <1>1, EmptySeq, LenProperties, HeadTailProperties
<1>3. Head(q).topic \in Topics
  BY <1>2 DEF Messages
<1>4. Head(q).topic \in Symbols => chan[Head(q).topic] # "none"
  BY <1>2 DEF ChanOK, TickerHasChannel
<1> QED
  BY <1>2, <1>3, <1>4, ChannelFacts DEF ChanOK, Topics

LEMMA StepHeld == TypeOK /\ HandOK /\ ChanOK /\ HeldOK /\ [Next]_vars => HeldOK'
<1> SUFFICES ASSUME TypeOK, HandOK, ChanOK, HeldOK, [Next]_vars PROVE HeldOK'
  OBVIOUS
<1>1. ASSUME NEW n \in Sessions, reader[n] = "deliver"
      PROVE  chan'[inHand[n][1].topic] # "none"
  <2>1. inHand[n][1].topic \in Channels
    BY <1>1, HeldTyped, ChannelFacts
  <2> QED
    BY <1>1, <2>1, ChannelsStay DEF HeldOK
<1>2. ASSUME NEW s \in Sessions, inHand'[s] = inHand[s] \/ reader'[s] \notin {"deliver", "report"},
             reader'[s] \in {reader[s], "none", "select", "done", "panic"},
             \A n \in Sessions \ {s} : UNCHANGED <<inHand[n], reader[n]>>
      PROVE  HeldOK'
  BY <1>1, <1>2 DEF HeldOK
<1>3. CASE UNCHANGED <<reader, inHand>>
  BY <1>1, <1>3 DEF HeldOK
<1>4. ASSUME NEW a \in Callers, ConnectUp(a) PROVE HeldOK'
  <2>1. ws + 1 \in Sessions /\ reader' = [reader EXCEPT ![ws + 1] = "select"] /\ inHand' = inHand
    BY <1>4 DEF ConnectUp, TypeOK, Sessions
  <2> QED
    BY <1>2, <2>1 DEF TypeOK
<1>5. ASSUME NEW s \in Sessions,
             ReportMalformed(s) \/ DeliverUpdate(s) \/ AbandonUpdate(s) \/ ReaderExits(s)
      PROVE  HeldOK'
  <2>1. \E l \in {"select", "panic", "done"} : reader' = [reader EXCEPT ![s] = l]
    BY <1>5 DEF ReportMalformed, DeliverUpdate, AbandonUpdate, ReaderExits, ReaderGoto
  <2>2. inHand' = inHand \/ inHand' = [inHand EXCEPT ![s] = <<>>]
    BY <1>5 DEF ReportMalformed, DeliverUpdate, AbandonUpdate, ReaderExits, Settle
  <2> QED
    BY <1>2, <2>1, <2>2 DEF TypeOK
<1>6. ASSUME NEW s \in Sessions, NEW from \in Sessions, TakeMessage(s, from) PROVE HeldOK'
  <2> DEFINE m == Head(queue[from])
  <2>1. m \in Messages /\ m.topic \in Channels /\ chan[m.topic] # "none" /\ chan' = chan
    BY <1>6, QueuedHasChannel DEF TakeMessage, outVars
  <2>2. m.form \in Forms
    BY <2>1 DEF Messages
  <2>3. CASE m.form = "empty"
    BY <1>3, <1>6, <2>3 DEF TakeMessage
  <2>4. CASE m.form # "empty"
    <3>1. /\ inHand' = [inHand EXCEPT ![s] = <<m>>]
          /\ reader' = [reader EXCEPT ![s] = IF m.form = "update" THEN "deliver" ELSE "report"]
      BY <1>6, <2>4 DEF TakeMessage, ReaderGoto
    <3> HIDE DEF m
    <3>2. inHand'[s][1] = m
      BY <3>1 DEF TypeOK
    <3>3. /\ reader'[s] = "deliver" => m.form = "update"
          /\ reader'[s] = "report" => m.form = "malformed"
      BY <2>2, <2>4, <3>1 DEF TypeOK, Forms
    <3>4. \A n \in Sessions \ {s} : UNCHANGED <<inHand[n], reader[n]>>
      BY <3>1 DEF TypeOK
    <3> QED
      BY <1>1, <2>1, <3>2, <3>3, <3>4 DEF HeldOK
  <2> QED
    BY <2>3, <2>4
<1> QED
  BY <1>3, <1>4, <1>5, <1>6
  DEF Next, vars, wsVars, outVars, callerVars, handlerVars, lifeVars, ConnectEnds,
      DisconnectStep, SubscribeStep, ReaderStep, ConnectLock, ConnectRefused, ConnectDown,
      DisconnectLock, CloseWs, WaitHandlers, CloseChannels, SubscribeCheck, RegisterTicker,
      SendSubscription, SubscribeStreamEvents, RelayEvent, RelayExits, Receive, Consume

-----------------------------------------------------------------------------
(* Before Connect and after Disconnect *)

\* The relay starts with Connect; only the client that Disconnect has yet to
\* close can still be up, and when Disconnect is over the channels are closed.
OverOK ==
    ~reused =>
      /\ ~ctxDone /\ ~connected => \A s \in Sessions : relay[s] # "select"
      /\ ctxDone => \A s \in Sessions : wsState[s] = "up" =>
            \E a \in Callers : At(a, "close") /\ local[a].ws = s
      /\ ctxDone /\ (\A a \in Callers : ~InDisconnect(a)) => chan["order"] = "closed"

\* Who subscribes has seen a client.
SendOK == \A a \in Callers : pc[a] \in {"register", "send"} => ws \in Sessions

LEMMA InitOver == Init => OverOK /\ SendOK
BY DEF Init, OverOK, SendOK

LEMMA ReusedStays == [Next]_vars => (reused => reused')
BY DEF Next, vars, wsVars, outVars, callerVars, handlerVars, lifeVars, ConnectEnds,
      DisconnectStep, SubscribeStep, ReaderStep, ConnectLock, ConnectRefused, ConnectDown,
      ConnectUp, DisconnectLock, CloseWs, WaitHandlers, CloseChannels, SubscribeCheck,
      RegisterTicker, SendSubscription, SubscribeStreamEvents, TakeMessage, ReportMalformed,
      DeliverUpdate, AbandonUpdate, ReaderExits, RelayEvent, RelayExits, Receive, Consume

LEMMA StepSend == TypeOK /\ FlowOK /\ SendOK /\ [Next]_vars => SendOK'
<1> SUFFICES ASSUME TypeOK, FlowOK, SendOK, [Next]_vars PROVE SendOK'
  OBVIOUS
<1> USE DEF SendOK, At, Goto
<1>1. CASE ws' = ws /\ \A b \in Callers : pc'[b] \in {"register", "send"}
                           => pc[b] \in {"register", "send"} \/ connected
  BY <1>1 DEF FlowOK
<1>2. ASSUME NEW a \in Callers, NEW l \in {"idle", "connect", "close", "wait", "closing",
                                          "register", "send", "panic"},
             Goto(a, l), ws' = ws,
             l \in {"register", "send"} => pc[a] \in {"register", "send"} \/ connected
      PROVE  SendOK'
  BY <1>1, <1>2 DEF TypeOK
<1>3. ASSUME NEW a \in Callers, ConnectDown(a) \/ ConnectUp(a) PROVE SendOK'
  <2>1. ws' \in Sessions
    BY <1>3 DEF ConnectDown, ConnectUp, TypeOK, Sessions
  <2> QED
    BY <2>1
<1>4. CASE UNCHANGED <<ws, pc>>
  BY <1>1, <1>4
<1> HIDE DEF SendOK, At, Goto
<1>5. ASSUME NEW a \in Callers,
             \/ ConnectLock(a) \/ ConnectRefused(a) \/ DisconnectLock(a) \/ CloseWs(a)
             \/ WaitHandlers(a) \/ CloseChannels(a)
      PROVE  SendOK'
  <2>1. ws' = ws /\ \E l \in {"idle", "connect", "close", "wait", "closing", "panic"} : Goto(a, l)
    BY <1>5 DEF ConnectLock, ConnectRefused, DisconnectLock, CloseWs, WaitHandlers,
                CloseChannels, lifeVars
  <2> QED
    BY <1>2, <2>1
<1>6. ASSUME NEW a \in Callers,
             RegisterTicker(a) \/ SendSubscription(a) \/ \E t \in Topics : SubscribeCheck(a, t)
      PROVE  SendOK'
  <2>1. ws' = ws /\ (At(a, "register") \/ At(a, "send") \/ connected)
    BY <1>6 DEF RegisterTicker, SendSubscription, SubscribeCheck, lifeVars
  <2>2. \E l \in {"idle", "register", "send"} : Goto(a, l)
    BY <1>6 DEF RegisterTicker, SendSubscription, SubscribeCheck
  <2> QED
    BY <1>2, <2>1, <2>2 DEF At
<1> QED
  BY <1>3, <1>4, <1>5, <1>6
  DEF Next, vars, wsVars, outVars, callerVars, handlerVars, lifeVars, ConnectEnds,
      DisconnectStep, SubscribeStep, ReaderStep, SubscribeStreamEvents, TakeMessage,
      ReportMalformed, DeliverUpdate, AbandonUpdate, ReaderExits, RelayEvent, RelayExits,
      Receive, Consume

LEMMA StepOver == TypeOK /\ HandOK /\ LifeOK /\ FlowOK /\ OverOK /\ [Next]_vars => OverOK'
<1> SUFFICES ASSUME TypeOK, HandOK, LifeOK, FlowOK, OverOK, [Next]_vars, ~reused'
             PROVE  OverOK'
  BY DEF OverOK
<1>0. ~reused
  BY ReusedStays
\* Steps that leave Disconnect where it is.
<1>1. ASSUME UNCHANGED <<connected, ctxDone, local>>,
             \A s \in Sessions : /\ relay'[s] = "select" => relay[s] = "select"
                                 /\ wsState'[s] = "up" => wsState[s] = "up",
             chan["order"] = "closed" => chan'["order"] = "closed",
             \A a \in Callers : /\ At(a, "close") => At(a, "close")'
                                /\ InDisconnect(a) => InDisconnect(a)'
      PROVE  OverOK'
  BY <1>0, <1>1 DEF OverOK
<1>2. chan["order"] = "closed" => chan'["order"] = "closed"
  BY ChannelsStay, ChannelFacts
<1>3. ASSUME NEW a \in Callers,
             \/ ConnectLock(a) \/ ConnectRefused(a) \/ ConnectDown(a)
             \/ RegisterTicker(a) \/ SendSubscription(a) \/ \E t \in Topics : SubscribeCheck(a, t)
      PROVE  OverOK'
  <2>1. /\ UNCHANGED <<connected, ctxDone, local, relay>>
        /\ ~InDisconnect(a) /\ ~At(a, "close")
        /\ \E l \in {"idle", "connect", "register", "send"} : Goto(a, l)
    BY <1>3 DEF ConnectLock, ConnectRefused, ConnectDown, RegisterTicker, SendSubscription,
                SubscribeCheck, lifeVars, handlerVars, InDisconnect, At
  <2>2. \A s \in Sessions : wsState'[s] = "up" => wsState[s] = "up"
    BY <1>3 DEF ConnectLock, ConnectRefused, ConnectDown, RegisterTicker, SendSubscription,
                SubscribeCheck, wsVars, TypeOK, Sessions
  <2>3. \A b \in Callers : /\ At(b, "close") => At(b, "close")'
                           /\ InDisconnect(b) => InDisconnect(b)'
    BY <2>1 DEF Goto, At, InDisconnect, TypeOK
  <2> QED
    BY <1>1, <1>2, <2>1, <2>2, <2>3
<1>4. ASSUME NEW a \in Callers, ConnectUp(a) PROVE OverOK'
  BY <1>4 DEF ConnectUp, OverOK
<1>5. ASSUME NEW a \in Callers, DisconnectLock(a) PROVE OverOK'
  <2>1. /\ ~ctxDone /\ ctxDone' /\ At(a, "close")' /\ local'[a].ws = ws /\ wsState' = wsState
    BY <1>0, <1>5 DEF DisconnectLock, LifeOK, Goto, At, TypeOK
  <2>2. \A s \in Sessions : wsState[s] = "up" => s = ws
    BY <1>5, <2>1 DEF DisconnectLock, FlowOK, Untouched
  <2>3. InDisconnect(a)'
    BY <2>1 DEF InDisconnect, At
  <2> QED
    BY <2>1, <2>2, <2>3 DEF OverOK
<1>6. ASSUME NEW a \in Callers, CloseWs(a) PROVE OverOK'
  <2>1. /\ UNCHANGED <<connected, ctxDone, local, relay>> /\ InDisconnect(a) /\ InDisconnect(a)'
        /\ At(a, "close") /\ wsState' = [wsState EXCEPT ![local[a].ws] = "closed"]
    BY <1>6 DEF CloseWs, lifeVars, handlerVars, InDisconnect, At, Goto, TypeOK
  <2>2. \A b \in Callers : At(b, "close") => b = a
    BY <1>0, <2>1 DEF LifeOK, InDisconnect, At
  <2>3. ctxDone /\ \A s \in Sessions : wsState'[s] # "up"
    BY <1>0, <2>1, <2>2 DEF OverOK, LifeOK, TypeOK
  <2> QED
    BY <2>1, <2>3 DEF OverOK
<1>7. ASSUME NEW a \in Callers, WaitHandlers(a) PROVE OverOK'
  <2>1. UNCHANGED <<connected, ctxDone, local, relay, wsState, chan>>
    BY <1>7 DEF WaitHandlers, lifeVars, handlerVars, wsVars, outVars
  <2>2. \A b \in Callers : /\ At(b, "close") => At(b, "close")'
                           /\ InDisconnect(b) => InDisconnect(b)'
    BY <1>7 DEF WaitHandlers, Goto, At, InDisconnect, TypeOK
  <2> QED
    BY <1>1, <2>1, <2>2
<1>8. ASSUME NEW a \in Callers, CloseChannels(a) PROVE OverOK'
  <2>1. /\ UNCHANGED <<connected, ctxDone, relay, wsState>> /\ InDisconnect(a) /\ At(a, "closing")
    BY <1>8 DEF CloseChannels, lifeVars, handlerVars, wsVars, InDisconnect, At
  <2>2. ctxDone /\ chan["order"] # "closed" /\ \A b \in Callers : At(b, "close") => b = a
    BY <1>0, <2>1, ChannelFacts DEF LifeOK, InDisconnect, At
  <2>3. chan'["order"] = "closed"
    BY <1>8, <2>2, ChannelFacts DEF CloseChannels
  <2>4. \A s \in Sessions : wsState[s] # "up"
    BY <1>0, <2>1, <2>2 DEF OverOK, At
  <2> QED
    BY <2>1, <2>2, <2>3, <2>4 DEF OverOK
<1>9. CASE UNCHANGED <<connected, ctxDone, local, wsState, pc, chan>>
           /\ \A s \in Sessions : relay'[s] = "select" => relay[s] = "select"
  BY <1>1, <1>9 DEF At, InDisconnect
<1>10. ASSUME NEW s \in Sessions,
              \/ ReaderStep(s) \/ ReaderExits(s) \/ RelayEvent(s) \/ RelayExits(s)
              \/ \E m \in Messages : Receive(s, m)
       PROVE  OverOK'
  <2>1. UNCHANGED <<connected, ctxDone, local, wsState, pc, chan>>
    BY <1>10 DEF wsVars, outVars, callerVars, lifeVars, ReaderStep, TakeMessage, ReportMalformed,
       DeliverUpdate, AbandonUpdate, ReaderExits, RelayEvent, RelayExits, Receive
  <2>2. \A n \in Sessions : relay'[n] = "select" => relay[n] = "select"
    BY <1>10 DEF handlerVars, ReaderStep, TakeMessage, ReportMalformed,
       DeliverUpdate, AbandonUpdate, ReaderExits, RelayEvent, RelayExits, Receive, TypeOK
  <2> QED
    BY <1>9, <2>1, <2>2
<1>11. CASE UNCHANGED vars \/ SubscribeStreamEvents \/ \E k \in Channels : Consume(k)
  BY <1>9, <1>11 DEF SubscribeStreamEvents, Consume, vars, wsVars, outVars, callerVars,
     lifeVars, handlerVars
<1> QED
  BY <1>3, <1>4, <1>5, <1>6, <1>7, <1>8, <1>10, <1>11
  DEF Next, ConnectEnds, DisconnectStep, SubscribeStep

-----------------------------------------------------------------------------
(* Each step is a step of the stream, or none *)

SInv ==
    /\ TypeOK /\ HandOK /\ ChanOK /\ LifeOK /\ FlowOK
    /\ HeldOK /\ OverOK /\ SendOK

StreamStep == [Stream!Next]_(Stream!vars)

\* How the phases of a life show.
LEMMA LifeFacts ==
    ASSUME LifeOK, ~reused
    PROVE  /\ Life = "up" <=> connected
           /\ Life = "fresh" <=> ~connected /\ ~ctxDone
           /\ Life = "closing" <=> ctxDone /\ \E a \in Callers : InDisconnect(a)
           /\ Life = "down" <=> ctxDone /\ \A a \in Callers : ~InDisconnect(a)
           /\ Life \in {"fresh", "up", "closing", "down"}
BY DEF Life, LifeOK

LEMMA LifeStays ==
    ASSUME ~reused, UNCHANGED <<reused, connected, ctxDone>>,
           \A a \in Callers : InDisconnect(a)' <=> InDisconnect(a)
    PROVE  Life' = Life
BY DEF Life

LEMMA LineStays ==
    ASSUME Life' = Life, Life = "up" => UNCHANGED <<ws, inHand, queue>>
    PROVE  Line' = Line
BY DEF Line

LEMMA ClosedStays ==
    ASSUME \A k \in Channels : chan'[k] = "closed" <=> chan[k] = "closed"
    PROVE  Closed' = Closed
BY DEF Closed

\* Handlers run only while the connector is up or closing, and find no channel
\* closed then.
LEMMA HandlersRun ==
    ASSUME SInv, ~reused, NEW s \in Sessions,
           reader[s] \in {"select", "report", "deliver"} \/ relay[s] = "select"
    PROVE  /\ Life \in {"up", "closing"}
           /\ \A k \in Channels : chan[k] # "closed"
<1>1. ~WgZero
  BY DEF WgZero
<1>2. \A k \in Channels : chan[k] # "closed"
  BY <1>1 DEF SInv, LifeOK
<1>3. Life # "down"
  BY <1>2, LifeFacts, ChannelFacts DEF SInv, OverOK
<1>4. ASSUME Life = "fresh" PROVE FALSE
  <2>1. ~connected /\ ~ctxDone
    BY <1>4, LifeFacts DEF SInv
  <2>2. Untouched(s) /\ relay[s] # "select"
    BY <2>1 DEF SInv, FlowOK, OverOK
  <2> QED
    BY <2>2 DEF Untouched
<1> QED
  BY <1>2, <1>3, <1>4, LifeFacts DEF SInv

\* While the connector is up only the current session moves messages.
LEMMA OnlyCurrent ==
    ASSUME SInv, ~reused, Life = "up", NEW s \in Sessions, ~Untouched(s)
    PROVE  s = ws /\ ~ctxDone /\ connected
<1>1. connected /\ ~ctxDone
  BY LifeFacts DEF SInv, LifeOK
<1> QED
  BY <1>1 DEF SInv, FlowOK

LEMMA ReusedMaps ==
    ASSUME SInv, [Next]_vars, reused
    PROVE  StreamStep
<1>1. Life = "undefined" /\ Life' = "undefined"
  BY ReusedStays DEF Life
<1> QED
  BY <1>1 DEF StreamStep, Stream!Next, Stream!Reuse

\* Steps that subscribers cannot see.
LEMMA QuietMaps ==
    ASSUME SInv, ~reused, NEW a \in Callers,
           \/ ConnectLock(a) \/ ConnectRefused(a) \/ ConnectDown(a) \/ CloseWs(a)
           \/ WaitHandlers(a) \/ RegisterTicker(a) \/ \E t \in Topics : SubscribeCheck(a, t)
    PROVE  StreamStep
<1>1. UNCHANGED <<reused, connected, ctxDone, promised, buf, given, inHand, queue>>
  BY DEF ConnectLock, ConnectRefused, ConnectDown, CloseWs, WaitHandlers, RegisterTicker,
         SubscribeCheck, lifeVars, wsVars, outVars, handlerVars
<1>2. \A b \in Callers : InDisconnect(b)' <=> InDisconnect(b)
  <2>1. \/ /\ At(a, "close") \/ At(a, "wait")
           /\ Goto(a, "wait") \/ Goto(a, "closing")
        \/ /\ ~InDisconnect(a)
           /\ \E l \in {"idle", "connect", "register", "send"} : Goto(a, l)
    BY DEF ConnectLock, ConnectRefused, ConnectDown, CloseWs, WaitHandlers, RegisterTicker,
           SubscribeCheck, InDisconnect, At
  <2> QED
    BY <2>1 DEF Goto, At, InDisconnect, SInv, TypeOK
<1>3. Life' = Life
  BY <1>1, <1>2, LifeStays
<1>4. Life = "up" => ws' = ws
  BY LifeFacts DEF ConnectLock, ConnectRefused, ConnectDown, CloseWs, WaitHandlers,
     RegisterTicker, SubscribeCheck, lifeVars, SInv, FlowOK, MutexOK
<1>5. Closed' = Closed
  BY ClosedStays DEF ConnectLock, ConnectRefused, ConnectDown, CloseWs, WaitHandlers,
     RegisterTicker, SubscribeCheck, outVars, SInv, TypeOK
<1> QED
  BY <1>1, <1>3, <1>4, <1>5, LineStays DEF StreamStep, Stream!vars

LEMMA ConnectUpMaps ==
    ASSUME SInv, ~reused, NEW a \in Callers, ConnectUp(a)
    PROVE  StreamStep
<1>0. ~connected /\ connected' /\ UNCHANGED <<ctxDone, promised, chan, buf, given, queue, inHand>>
  BY DEF ConnectUp, SInv, FlowOK, MutexOK, outVars
<1>1. CASE ctxDone
  <2>1. Life \in {"closing", "down"} /\ Life' = "undefined"
    BY <1>0, <1>1, LifeFacts DEF SInv, ConnectUp, Life
  <2> QED
    BY <2>1 DEF StreamStep, Stream!Next, Stream!Reuse
<1>2. CASE ~ctxDone
  <2>1. Life = "fresh" /\ Life' = "up"
    BY <1>0, <1>2 DEF ConnectUp, Life
  <2>2. ws' = ws + 1 /\ ws + 1 \in Sessions
    BY DEF ConnectUp, SInv, TypeOK, Sessions
  <2>3. Untouched(ws + 1)
    BY <1>0, <1>2, <2>2 DEF SInv, FlowOK
  <2>4. inHand[ws + 1] = <<>> /\ queue[ws + 1] = <<>>
    BY <2>2, <2>3 DEF Untouched, SInv, HandOK
  <2>5. <<>> \o <<>> = <<>>
    BY ConcatEmptySeq, EmptySeq
  <2>6. Line = <<>> /\ Line' = <<>>
    BY <1>0, <2>1, <2>2, <2>4, <2>5 DEF Line
  <2>7. Closed' = Closed
    BY <1>0, ClosedStays
  <2> QED
    BY <1>0, <2>1, <2>6, <2>7 DEF StreamStep, Stream!Next, Stream!Connect
<1> QED
  BY <1>1, <1>2

LEMMA DisconnectMaps ==
    ASSUME SInv, ~reused, NEW a \in Callers, DisconnectLock(a)
    PROVE  StreamStep
<1>1. /\ connected /\ ~connected' /\ ctxDone' /\ reused' = reused
      /\ promised' = given /\ UNCHANGED <<chan, buf, given>>
  BY DEF DisconnectLock, outVars
<1>2. InDisconnect(a)'
  BY DEF DisconnectLock, InDisconnect, Goto, SInv, TypeOK
<1>3. Life = "up" /\ Life' = "closing"
  BY <1>1, <1>2 DEF Life
<1>4. Line' = <<>>
  BY <1>3 DEF Line
<1>5. Closed' = Closed
  BY <1>1, ClosedStays
<1> QED
  BY <1>1, <1>3, <1>4, <1>5 DEF StreamStep, Stream!Next, Stream!Disconnect

LEMMA CloseChannelsMaps ==
    ASSUME SInv, ~reused, NEW a \in Callers, CloseChannels(a), LifeOK'
    PROVE  StreamStep
<1>1. /\ InDisconnect(a) /\ UNCHANGED <<reused, connected, ctxDone, promised, buf, given>>
      /\ \E l \in {"idle", "panic"} : Goto(a, l)
  BY DEF CloseChannels, InDisconnect, At, lifeVars
<1>2. Life = "closing"
  BY <1>1, LifeFacts DEF SInv, LifeOK
<1>3. \A b \in Callers : ~InDisconnect(b)'
  BY <1>1 DEF InDisconnect, Goto, SInv, TypeOK, LifeOK
<1>4. Life' = "down" /\ ~reused'
  BY <1>1, <1>2, <1>3 DEF Life
<1>5. promised' \subseteq Closed'
  <2>1. \A k \in promised' : chan'[k] = "closed"
    BY <1>3, <1>4 DEF LifeOK
  <2> QED
    BY <1>1, <2>1 DEF Closed, SInv, TypeOK
<1>6. Line = <<>> /\ Line' = <<>>
  BY <1>2, <1>4 DEF Line
<1> QED
  BY <1>1, <1>2, <1>4, <1>5, <1>6 DEF StreamStep, Stream!Next, Stream!Finish

LEMMA SubscriptionMaps ==
    ASSUME SInv, ~reused, NEW a \in Callers, SendSubscription(a)
    PROVE  StreamStep
<1>1. /\ UNCHANGED <<reused, connected, ctxDone, promised, ws, inHand, queue, chan, buf>>
      /\ At(a, "send") /\ Goto(a, "idle")
  BY DEF SendSubscription, lifeVars, handlerVars
<1>2. \A b \in Callers : InDisconnect(b)' <=> InDisconnect(b)
  BY <1>1 DEF At, Goto, InDisconnect, SInv, TypeOK
<1>3. Life' = Life /\ Line' = Line /\ Closed' = Closed
  BY <1>1, <1>2, LifeStays, LineStays, ClosedStays
<1>4. CASE given' = given
  BY <1>1, <1>3, <1>4 DEF StreamStep, Stream!vars
<1>5. CASE wsState[ws] = "up" /\ given' = given \cup {topic[a]}
  <2>1. ws \in Sessions /\ topic[a] \in Channels
    BY <1>1, ChannelFacts DEF At, SInv, SendOK, TypeOK
  <2>2. Life \in {"up", "closing"}
    <3>1. CASE ctxDone
      BY <1>5, <2>1, <3>1, LifeFacts DEF SInv, OverOK, At, InDisconnect
    <3>2. CASE ~ctxDone
      BY <1>5, <2>1, <3>2, LifeFacts DEF SInv, FlowOK, Untouched
    <3> QED
      BY <3>1, <3>2
  <2>3. Stream!Offer(topic[a])
    BY <1>1, <1>3, <1>5, <2>2 DEF Stream!Offer
  <2> QED
    BY <2>1, <2>3 DEF StreamStep, Stream!Next
<1> QED
  BY <1>4, <1>5 DEF SendSubscription

LEMMA EventsMap ==
    ASSUME SInv, ~reused, SubscribeStreamEvents
    PROVE  StreamStep
<1>1. /\ UNCHANGED <<reused, connected, ctxDone, promised, ws, inHand, queue, chan, buf, pc>>
      /\ given' = given \cup {"events"} /\ connected
  BY DEF SubscribeStreamEvents, lifeVars, handlerVars, wsVars, callerVars
<1>2. Life' = Life /\ Line' = Line /\ Closed' = Closed
  BY <1>1, LifeStays, LineStays, ClosedStays DEF InDisconnect
<1>3. Stream!Offer("events")
  BY <1>1, <1>2, LifeFacts DEF SInv, Stream!Offer
<1> QED
  BY <1>3, ChannelFacts DEF StreamStep, Stream!Next

LEMMA ConsumeMaps ==
    ASSUME SInv, ~reused, NEW k \in Channels, Consume(k)
    PROVE  StreamStep
<1>1. UNCHANGED <<reused, connected, ctxDone, promised, given, ws, inHand, queue, chan, pc>>
  BY DEF Consume, lifeVars, handlerVars, wsVars, callerVars
<1>2. Life' = Life /\ Line' = Line /\ Closed' = Closed
  BY <1>1, LifeStays, LineStays, ClosedStays DEF InDisconnect
<1>3. Stream!Consume(k)
  BY <1>1, <1>2 DEF Consume, Stream!Consume
<1> QED
  BY <1>3 DEF StreamStep, Stream!Next

-----------------------------------------------------------------------------
(* The handlers *)

LEMMA HandlerStill ==
    ASSUME ~reused, UNCHANGED <<lifeVars, chan, pc, given>>
    PROVE  /\ Life' = Life /\ Closed' = Closed
           /\ UNCHANGED <<promised, given, ws, connected, ctxDone>>
           /\ Life # "up" => Line' = Line
<1>1. Life' = Life
  BY LifeStays DEF lifeVars, InDisconnect
<1>2. Closed' = Closed
  BY ClosedStays
<1> QED
  BY <1>1, <1>2 DEF lifeVars, Line

\* What is seen of a sequence with a message in front.
LEMMA LineFacts ==
    ASSUME NEW q \in Seq(Messages)
    PROVE  /\ <<>> \o q = q
           /\ \A m \in Messages : /\ Head(<<m>> \o q) = m /\ Tail(<<m>> \o q) = q
                                  /\ <<m>> \o q # <<>>
           /\ q # <<>> => q = <<Head(q)>> \o Tail(q)
<1>1. ASSUME NEW m \in Messages
      PROVE  Head(<<m>> \o q) = m /\ Tail(<<m>> \o q) = q /\ <<m>> \o q # <<>>
  <2>1. /\ <<m>> \o q \in Seq(Messages) /\ Len(<<m>> \o q) = 1 + Len(q) /\ Len(q) \in Nat
        /\ \A i \in 1..(1 + Len(q)) : (<<m>> \o q)[i] = IF i <= 1 THEN m ELSE q[i - 1]
    BY ConcatProperties, LenProperties
  <2>2. <<m>> \o q # <<>>
    BY <2>1, EmptySeq
  <2>3. Head(<<m>> \o q) = m
    BY <2>1, <2>2, HeadTailProperties
  <2>4. /\ Tail(<<m>> \o q) \in Seq(Messages) /\ Len(Tail(<<m>> \o q)) = Len(q)
        /\ \A i \in 1..Len(q) : Tail(<<m>> \o q)[i] = q[i]
    BY <2>1, <2>2, HeadTailProperties
  <2>5. Tail(<<m>> \o q) = q
    BY <2>4, SeqEqual
  <2> QED
    BY <2>2, <2>3, <2>5
<1>2. <<>> \o q = q /\ (q # <<>> => q = <<Head(q)>> \o Tail(q))
  <2>1. q # <<>> => <<>> \o <<>> \o q = <<>> \o <<Head(q)>> \o Tail(q)
    BY MoveOn, EmptySeq
  <2>2. <<>> \o q = q
    BY ConcatEmptySeq
  <2>3. q # <<>> => <<Head(q)>> \in Seq(Messages)
    BY HeadTailProperties
  <2>4. <<>> \o <<>> = <<>> /\ \A l \in Seq(Messages) : <<>> \o l = l
    BY ConcatEmptySeq, EmptySeq
  <2> QED
    BY <2>1, <2>2, <2>3, <2>4
<1> QED
  BY <1>1, <1>2

\* A message that the handler takes stays at the head of the line, unless there
\* is nothing in it.
LEMMA TakeMaps ==
    ASSUME SInv, ~reused, NEW s \in Sessions, NEW from \in Sessions, TakeMessage(s, from)
    PROVE  StreamStep
<1>1. /\ Life' = Life /\ Closed' = Closed /\ (Life # "up" => Line' = Line)
      /\ UNCHANGED <<promised, given, buf, ws>>
  BY HandlerStill DEF TakeMessage, outVars, callerVars
<1>2. CASE Life # "up"
  BY <1>1, <1>2 DEF StreamStep, Stream!vars
<1>3. CASE Life = "up"
  <2>1. s = ws /\ from = ws
    BY <1>3, OnlyCurrent DEF TakeMessage, Source, Untouched, Sessions, SInv, TypeOK
  <2>2. inHand[s] = <<>> /\ queue[s] \in Seq(Messages) /\ queue[s] # <<>>
    BY <2>1 DEF TakeMessage, SInv, HandOK, TypeOK
  <2>3. Line = queue[s]
    BY <1>3, <2>1, <2>2, LineFacts DEF Line
  <2>4. /\ Tail(queue[s]) \in Seq(Messages) /\ queue'[s] = Tail(queue[s])
        /\ Head(queue[s]) \in Messages
    BY <2>1, <2>2, HeadTailProperties DEF TakeMessage, SInv, TypeOK
  <2>5. Line' = inHand'[s] \o Tail(queue[s])
    BY <1>1, <1>3, <2>1, <2>4 DEF Line
  <2>6. CASE Head(queue[s]).form = "empty"
    <3>1. inHand'[s] = <<>>
      BY <2>1, <2>2, <2>6 DEF TakeMessage
    <3>2. Line' = Tail(Line)
      BY <2>3, <2>4, <2>5, <3>1, LineFacts
    <3>3. Stream!Settle
      BY <1>1, <1>3, <2>2, <2>3, <2>6, <3>2 DEF Stream!Settle
    <3> QED
      BY <3>3 DEF StreamStep, Stream!Next
  <2>7. CASE Head(queue[s]).form # "empty"
    <3>1. inHand'[s] = <<Head(queue[s])>>
      BY <2>1, <2>7 DEF TakeMessage, SInv, TypeOK
    <3>2. Line' = Line
      BY <2>2, <2>3, <2>5, <3>1, LineFacts
    <3> QED
      BY <1>1, <3>2 DEF StreamStep, Stream!vars
  <2> QED
    BY <2>6, <2>7
<1> QED
  BY <1>2, <1>3

\* The message in hand is the head of the line.
LEMMA HeadInHand ==
    ASSUME SInv, ~reused, Life = "up", NEW s \in Sessions, reader[s] \in {"report", "deliver"},
           UNCHANGED <<ws, queue>>, Life' = Life, Settle(s)
    PROVE  /\ ~ctxDone /\ Line # <<>> /\ Head(Line) = inHand[s][1] /\ Line' = Tail(Line)
<1> DEFINE m == inHand[s][1]
<1>1. s = ws /\ ~ctxDone
  BY OnlyCurrent DEF Untouched
<1>2. m \in Messages /\ inHand[s] = <<m>> /\ queue[s] \in Seq(Messages)
  BY HeldTyped DEF SInv, TypeOK
<1>3. Line = <<m>> \o queue[s]
  BY <1>1, <1>2 DEF Line
<1>4. inHand'[s] = <<>>
  BY DEF Settle, SInv, TypeOK
<1>5. Line' = <<>> \o queue[s]
  BY <1>1, <1>4 DEF Line
<1> HIDE DEF m
<1> QED
  BY <1>1, <1>2, <1>3, <1>5, LineFacts DEF m

LEMMA PutFacts ==
    ASSUME NEW k, Sends(k)
    PROVE  Stream!Put(k)
BY DEF Sends, Stream!Put

LEMMA ReportMaps ==
    ASSUME SInv, ~reused, NEW s \in Sessions, ReportMalformed(s)
    PROVE  StreamStep
<1>1. /\ Life' = Life /\ Closed' = Closed /\ (Life # "up" => Line' = Line)
      /\ UNCHANGED <<promised, given, ws, queue>>
  BY HandlerStill DEF ReportMalformed, callerVars, wsVars
<1>2. /\ Life \in {"up", "closing"} /\ chan["events"] # "closed" /\ "events" \in Channels
      /\ reader[s] = "report" /\ Settle(s)
  BY HandlersRun, ChannelFacts DEF ReportMalformed
<1>3. Stream!Put("events") \/ (buf' = buf /\ (ctxDone \/ buf["events"] = ChanCap))
  BY <1>2, PutFacts DEF ReportMalformed
<1>4. CASE Life = "up"
  <2>1. ~ctxDone /\ Line # <<>> /\ Head(Line) = inHand[s][1] /\ Line' = Tail(Line)
    BY <1>1, <1>2, <1>4, HeadInHand
  <2>2. inHand[s][1].form = "malformed"
    BY <1>2 DEF SInv, HeldOK
  <2>3. Stream!Settle
    BY <1>1, <1>3, <1>4, <2>1, <2>2 DEF Stream!Settle
  <2> QED
    BY <2>3 DEF StreamStep, Stream!Next
<1>5. CASE Life = "closing"
  <2>1. CASE Stream!Put("events")
    <3>1. Stream!Straggle("events")
      BY <1>1, <1>5, <2>1 DEF Stream!Straggle
    <3> QED
      BY <1>2, <3>1 DEF StreamStep, Stream!Next
  <2>2. CASE buf' = buf
    BY <1>1, <1>5, <2>2 DEF StreamStep, Stream!vars
  <2> QED
    BY <1>3, <2>1, <2>2
<1> QED
  BY <1>2, <1>4, <1>5

\* An update has a channel, and no channel is closed while a handler runs.
LEMMA DeliverMaps ==
    ASSUME SInv, ~reused, NEW s \in Sessions, DeliverUpdate(s)
    PROVE  StreamStep
<1> DEFINE k == inHand[s][1].topic
<1>1. /\ Life' = Life /\ Closed' = Closed /\ (Life # "up" => Line' = Line)
      /\ UNCHANGED <<promised, given, ws, queue>>
  BY HandlerStill DEF DeliverUpdate, callerVars, wsVars
<1>2. reader[s] = "deliver" /\ Settle(s) /\ Life \in {"up", "closing"}
  BY HandlersRun DEF DeliverUpdate
<1>3. k \in Channels /\ chan[k] # "none" /\ inHand[s][1].form = "update"
  BY <1>2, HeldTyped, ChannelFacts DEF SInv, HeldOK
<1>4. chan[k] # "closed"
  BY <1>2, <1>3, HandlersRun
<1>5. Stream!Put(k)
  BY <1>3, <1>4, PutFacts DEF DeliverUpdate
<1>6. CASE Life = "up"
  <2>1. Line # <<>> /\ Head(Line) = inHand[s][1] /\ Line' = Tail(Line)
    BY <1>1, <1>2, <1>6, HeadInHand
  <2>2. Stream!Settle
    BY <1>1, <1>3, <1>5, <1>6, <2>1 DEF Stream!Settle
  <2> QED
    BY <2>2 DEF StreamStep, Stream!Next
<1>7. CASE Life = "closing"
  <2>1. Stream!Straggle(k)
    BY <1>1, <1>5, <1>7 DEF Stream!Straggle
  <2> QED
    BY <1>3, <2>1 DEF StreamStep, Stream!Next
<1> QED
  BY <1>2, <1>6, <1>7

\* An update is abandoned, and a loop left before its channel is closed, only
\* when the line was given up.
LEMMA LeaveMaps ==
    ASSUME SInv, ~reused, NEW s \in Sessions, AbandonUpdate(s) \/ ReaderExits(s) \/ RelayExits(s)
    PROVE  StreamStep
<1>1. /\ Life' = Life /\ Closed' = Closed /\ (Life # "up" => Line' = Line)
      /\ UNCHANGED <<promised, given, ws, queue, buf>>
  BY HandlerStill DEF AbandonUpdate, ReaderExits, RelayExits, callerVars, wsVars, outVars
<1>2. Life = "up" => inHand' = inHand
  BY LifeFacts DEF AbandonUpdate, ReaderExits, RelayExits, Released, SInv, LifeOK
<1>3. Line' = Line
  BY <1>1, <1>2, LineStays
<1> QED
  BY <1>1, <1>3 DEF StreamStep, Stream!vars

LEMMA RelayMaps ==
    ASSUME SInv, ~reused, NEW s \in Sessions, RelayEvent(s)
    PROVE  StreamStep
<1>1. Life' = Life /\ Closed' = Closed /\ UNCHANGED <<promised, given, ws, queue, inHand>>
  BY HandlerStill DEF RelayEvent, callerVars, wsVars
<1>2. Line' = Line
  BY <1>1, LineStays
<1>3. Life \in {"up", "closing"} /\ chan["events"] # "closed"
  BY HandlersRun, ChannelFacts DEF RelayEvent
<1>4. Stream!Put("events")
  BY <1>3, PutFacts DEF RelayEvent
<1>5. Stream!Event \/ Stream!Straggle("events")
  BY <1>1, <1>2, <1>3, <1>4 DEF Stream!Event, Stream!Straggle
<1> QED
  BY <1>5, ChannelFacts DEF StreamStep, Stream!Next

LEMMA ReceiveMaps ==
    ASSUME SInv, ~reused, NEW s \in Sessions, NEW m \in Messages, Receive(s, m)
    PROVE  StreamStep
<1>1. /\ Life' = Life /\ Closed' = Closed /\ (Life # "up" => Line' = Line)
      /\ UNCHANGED <<promised, given, buf, ws, inHand>>
  BY HandlerStill DEF Receive, outVars, callerVars, handlerVars
<1>2. CASE Life # "up"
  BY <1>1, <1>2 DEF StreamStep, Stream!vars
<1>3. CASE Life = "up"
  <2> DEFINE h == inHand[s]
             q == queue[s]
             l == <<m>>
  <2>1. s = ws
    BY <1>3, OnlyCurrent DEF Receive, Untouched
  <2>2. /\ h \in Seq(Messages) /\ q \in Seq(Messages) /\ l \in Seq(Messages)
        /\ Len(h) <= 1 /\ Len(q) < WsCap /\ queue'[s] = Append(q, m)
    BY DEF Receive, SInv, TypeOK
  <2>3. Line = h \o q /\ Line' = h \o Append(q, m)
    BY <1>1, <1>3, <2>1, <2>2 DEF Line
  <2>4. Append(q, m) = q \o l /\ Append(h \o q, m) = (h \o q) \o l
    BY <2>2, AppendIsConcat, ConcatProperties
  <2>5. Len(h \o q) = Len(h) + Len(q) /\ Len(h) \in Nat /\ Len(q) \in Nat
    BY <2>2, ConcatProperties, LenProperties
  <2> HIDE DEF h, q, l
  <2>6. \A x, y, z \in Seq(Messages) : (x \o y) \o z = x \o (y \o z)
    BY ConcatAssociative
  <2>7. Line' = Append(Line, m)
    BY <2>2, <2>3, <2>4, <2>6
  <2>8. Len(Line) <= WsCap
    BY <2>2, <2>3, <2>5
  <2>9. Stream!Accept(m)
    BY <1>1, <1>3, <2>7, <2>8 DEF Stream!Accept
  <2> QED
    BY <2>9 DEF StreamStep, Stream!Next
<1> QED
  BY <1>2, <1>3

LEMMA StepStreams == SInv /\ LifeOK' /\ [Next]_vars => StreamStep
<1> SUFFICES ASSUME SInv, LifeOK', [Next]_vars, ~reused PROVE StreamStep
  BY ReusedMaps
<1>1. ASSUME UNCHANGED vars PROVE StreamStep
  <2>1. UNCHANGED <<lifeVars, chan, pc, given, queue, inHand, buf>>
    BY <1>1 DEF vars, wsVars, outVars, callerVars, handlerVars
  <2>2. Life' = Life /\ Closed' = Closed /\ UNCHANGED <<promised, given, ws>>
    BY <2>1, HandlerStill
  <2> QED
    BY <2>1, <2>2, LineStays DEF StreamStep, Stream!vars
<1>2. ASSUME NEW a \in Callers,
             \/ ConnectLock(a) \/ ConnectEnds(a) \/ DisconnectLock(a) \/ DisconnectStep(a)
             \/ SubscribeStep(a) \/ \E t \in Topics : SubscribeCheck(a, t)
      PROVE  StreamStep
  BY <1>2, QuietMaps, ConnectUpMaps, DisconnectMaps, CloseChannelsMaps, SubscriptionMaps
  DEF ConnectEnds, DisconnectStep, SubscribeStep
<1>3. ASSUME NEW s \in Sessions,
             \/ ReaderStep(s) \/ ReaderExits(s) \/ RelayEvent(s) \/ RelayExits(s)
             \/ \E m \in Messages : Receive(s, m)
      PROVE  StreamStep
  BY <1>3, TakeMaps, ReportMaps, DeliverMaps, LeaveMaps, RelayMaps, ReceiveMaps DEF ReaderStep
<1> QED
  BY <1>1, <1>2, <1>3, EventsMap, ConsumeMaps DEF Next

LEMMA InitStream == Init => Stream!Init
<1> SUFFICES ASSUME Init PROVE Stream!Init
  OBVIOUS
<1>1. Life = "fresh"
  BY Zenon DEF Init, Life
<1>2. Line = <<>>
  BY <1>1 DEF Line
<1>3. Closed = {}
  BY DEF Init, Closed
<1> QED
  BY <1>1, <1>2, <1>3 DEF Init, Stream!Init

\* The connector implements UpdateStream, whatever its callers and subscribers
\* do in one life: messages are settled in the order of their arrival, an update
\* only by reaching its subscriber's channel; a slow subscriber makes the line
\* wait; what was given is closed when Disconnect ends, and nothing is sent
\* after that, although subscriptions, messages and handlers race with it.
THEOREM StreamsAreLines == Spec => ImplementsUpdateStream
<1>1. Init => SInv /\ Stream!Init
  BY InitType, InitChan, InitLife, InitFlow, InitHeld, InitOver, InitStream DEF SInv
<1>2. SInv /\ [Next]_vars => SInv'
  BY StepType, StepHand, StepChan, StepLife, StepFlow, StepHeld, StepOver, StepSend DEF SInv
<1>3. SInv /\ SInv' /\ [Next]_vars => [Stream!Next]_(Stream!vars)
  BY StepStreams DEF SInv, StreamStep
<1> QED
  BY <1>1, <1>2, <1>3, PTL DEF Spec, ImplementsUpdateStream, Stream!Spec
=============================================================================
