--------------------------- MODULE StreamLinkProofs ---------------------------
(***************************************************************************)
(* Proof that WebSocketClient implements StreamLink, for every set of      *)
(* callers, connections and topics.                                        *)
(***************************************************************************)
EXTENDS WebSocketClientProofs

USE DEF At, Goto, Hold, link

-----------------------------------------------------------------------------
(* What the refinement needs beside IInv: no topic counts as sent without a  *)
(* connection, and a topic in hand is remembered.                            *)

SentOK ==
    /\ ~connected => sent = {}
    /\ \A a \in Actors : pc[a] \in {"topics", "send"} => pending[a] \subseteq subscriptions

LEMMA SentLoss ==
    ASSUME TypeOK, PlacesOK, SocketsOK, HeldOK, TopicsOK, SentOK, NEW a \in Actors, LossStep(a)
    PROVE  SentOK'
<1>1. CASE Mark(a)
  BY <1>1, ActorFacts
  DEF TypeOK, PlacesOK, SocketsOK, HeldOK, TopicsOK, SentOK, Loops, Mark, Forget, IsCurrent
<1>2. CASE CloseSocket(a)
  BY <1>2, ActorFacts
  DEF TypeOK, PlacesOK, SocketsOK, HeldOK, TopicsOK, SentOK, Loops, CloseSocket, AfterClose, AfterLoss
<1>3. CASE PublishDisconnected(a)
  BY <1>3, ActorFacts
  DEF TypeOK, PlacesOK, SocketsOK, HeldOK, TopicsOK, SentOK, Loops, PublishDisconnected, PublishThen, AfterLoss
<1>4. CASE TriggerReconnect(a)
  BY <1>4, ActorFacts
  DEF TypeOK, PlacesOK, SocketsOK, HeldOK, TopicsOK, SentOK, Loops, TriggerReconnect, Offer, Rest
<1> QED
  BY <1>1, <1>2, <1>3, <1>4 DEF LossStep

LEMMA SentSend ==
    ASSUME TypeOK, PlacesOK, SocketsOK, HeldOK, TopicsOK, SentOK, NEW a \in Callers \cup {"reconnect"}, SendStep(a)
    PROVE  SentOK'
<1>1. CASE SendFails(a)
  BY <1>1, ActorFacts
  DEF TypeOK, PlacesOK, SocketsOK, HeldOK, TopicsOK, SentOK, Loops, SendFails, PublishThen
<1>2. ASSUME NEW t \in Topics, SendTopic(a, t) PROVE SentOK'
  BY <1>2, ActorFacts
  DEF TypeOK, PlacesOK, SocketsOK, HeldOK, TopicsOK, SentOK, Loops, SendTopic
<1> QED
  BY <1>1, <1>2 DEF SendStep

LEMMA SentCaller ==
    ASSUME TypeOK, PlacesOK, SocketsOK, HeldOK, TopicsOK, SentOK, NEW a \in Callers,
           ConnectCall(a) \/ CallerStep(a) \/ \E t \in Topics : SubscribeCall(a, t)
    PROVE  SentOK'
<1>1. CASE ConnectCall(a)
  BY <1>1, ActorFacts
  DEF TypeOK, PlacesOK, SocketsOK, HeldOK, TopicsOK, SentOK, Loops, ConnectCall
<1>2. CASE ConnectLock(a)
  BY <1>2, ActorFacts
  DEF TypeOK, PlacesOK, SocketsOK, HeldOK, TopicsOK, SentOK, Loops, ConnectLock
<1>3. CASE DialFails(a)
  BY <1>3, ActorFacts
  DEF TypeOK, PlacesOK, SocketsOK, HeldOK, TopicsOK, SentOK, Loops, DialFails
<1>4. CASE StartLoops(a)
  BY <1>4, ActorFacts
  DEF TypeOK, PlacesOK, SocketsOK, HeldOK, TopicsOK, SentOK, Loops, StartLoops
<1>5. CASE SubscribeLock(a)
  BY <1>5, ActorFacts
  DEF TypeOK, PlacesOK, SocketsOK, HeldOK, TopicsOK, SentOK, Loops, SubscribeLock
<1>6. ASSUME NEW c \in Conns, ConnectDialed(a, c) PROVE SentOK'
  BY <1>6, ActorFacts
  DEF TypeOK, PlacesOK, SocketsOK, HeldOK, TopicsOK, SentOK, Loops, ConnectDialed, Establish
<1>7. ASSUME NEW t \in Topics, SubscribeCall(a, t) PROVE SentOK'
  BY <1>7, ActorFacts
  DEF TypeOK, PlacesOK, SocketsOK, HeldOK, TopicsOK, SentOK, Loops, SubscribeCall
<1> QED
  BY <1>1, <1>2, <1>3, <1>4, <1>5, <1>6, <1>7, SentLoss, SentSend, ActorFacts DEF CallerStep

LEMMA SentReader ==
    ASSUME TypeOK, PlacesOK, SocketsOK, HeldOK, TopicsOK, SentOK, NEW c \in Conns, ReaderStep(c) \/ ReadFrame(c) \/ PeerBreaks(c)
    PROVE  SentOK'
<1>1. CASE ReadNext(c)
  BY <1>1, ActorFacts
  DEF TypeOK, PlacesOK, SocketsOK, HeldOK, TopicsOK, SentOK, Loops, ReadNext, ReaderExits
<1>2. CASE ReadFails(c)
  BY <1>2, ActorFacts
  DEF TypeOK, PlacesOK, SocketsOK, HeldOK, TopicsOK, SentOK, Loops, ReadFails, ReaderExits, PublishThen
<1>3. CASE ReadFrame(c)
  BY <1>3, ActorFacts
  DEF TypeOK, PlacesOK, SocketsOK, HeldOK, TopicsOK, SentOK, Loops, ReadFrame, ReaderExits
<1>4. CASE PeerBreaks(c)
  BY <1>4, ActorFacts
  DEF TypeOK, PlacesOK, SocketsOK, HeldOK, TopicsOK, SentOK, Loops, PeerBreaks
<1> QED
  BY <1>1, <1>2, <1>3, <1>4, SentLoss, ActorFacts DEF ReaderStep

LEMMA SentPing ==
    ASSUME TypeOK, PlacesOK, SocketsOK, HeldOK, TopicsOK, SentOK, PingTick \/ PingStep
    PROVE  SentOK'
<1>1. CASE PingTick
  BY <1>1, ActorFacts
  DEF TypeOK, PlacesOK, SocketsOK, HeldOK, TopicsOK, SentOK, Loops, PingTick, PublishThen
<1>2. CASE PingWritten
  BY <1>2, ActorFacts
  DEF TypeOK, PlacesOK, SocketsOK, HeldOK, TopicsOK, SentOK, Loops, PingWritten
<1>3. CASE PingFails
  BY <1>3, ActorFacts
  DEF TypeOK, PlacesOK, SocketsOK, HeldOK, TopicsOK, SentOK, Loops, PingFails, PublishThen
<1>4. CASE DropCurrent
  BY <1>4, ActorFacts
  DEF TypeOK, PlacesOK, SocketsOK, HeldOK, TopicsOK, SentOK, Loops, DropCurrent, Forget
<1>5. CASE LoopExits("ping")
  BY <1>5, ActorFacts
  DEF TypeOK, PlacesOK, SocketsOK, HeldOK, TopicsOK, SentOK, Loops, LoopExits
<1> QED
  BY <1>1, <1>2, <1>3, <1>4, <1>5, SentLoss, ActorFacts
     DEF PingStep

LEMMA SentReconnect ==
    ASSUME TypeOK, PlacesOK, SocketsOK, HeldOK, TopicsOK, SentOK, ReconnectStep
    PROVE  SentOK'
<1>1. CASE Wake
  BY <1>1, ActorFacts
  DEF TypeOK, PlacesOK, SocketsOK, HeldOK, TopicsOK, SentOK, Loops, Wake
<1>2. CASE TryReconnect
  BY <1>2, ActorFacts
  DEF TypeOK, PlacesOK, SocketsOK, HeldOK, TopicsOK, SentOK, Loops, TryReconnect
<1>3. CASE NextTopic
  BY <1>3, ActorFacts
  DEF TypeOK, PlacesOK, SocketsOK, HeldOK, TopicsOK, SentOK, Loops, NextTopic
<1>4. CASE ResubscribeTimeout
  BY <1>4, ActorFacts
  DEF TypeOK, PlacesOK, SocketsOK, HeldOK, TopicsOK, SentOK, Loops, ResubscribeTimeout
<1>5. CASE PublishReconnected
  BY <1>5, ActorFacts
  DEF TypeOK, PlacesOK, SocketsOK, HeldOK, TopicsOK, SentOK, Loops, PublishReconnected, PublishThen
<1>6. CASE Backoff
  BY <1>6, ActorFacts
  DEF TypeOK, PlacesOK, SocketsOK, HeldOK, TopicsOK, SentOK, Loops, Backoff
<1>7. CASE DialFails("reconnect")
  BY <1>7, ActorFacts
  DEF TypeOK, PlacesOK, SocketsOK, HeldOK, TopicsOK, SentOK, Loops, DialFails
<1>8. CASE LoopExits("reconnect")
  BY <1>8, ActorFacts
  DEF TypeOK, PlacesOK, SocketsOK, HeldOK, TopicsOK, SentOK, Loops, LoopExits
<1>9. ASSUME NEW c \in Conns, ReconnectDialed(c) PROVE SentOK'
  BY <1>9, ActorFacts
  DEF TypeOK, PlacesOK, SocketsOK, HeldOK, TopicsOK, SentOK, Loops, ReconnectDialed, Establish, Remembered
<1> QED
  BY <1>1, <1>2, <1>3, <1>4, <1>5, <1>6, <1>7, <1>8, <1>9,
     SentLoss, SentSend, ActorFacts DEF ReconnectStep

LEMMA SentClose ==
    ASSUME TypeOK, PlacesOK, SocketsOK, HeldOK, TopicsOK, SentOK, CloseCall \/ CloseStep
    PROVE  SentOK'
<1>1. CASE CloseCall
  BY <1>1, ActorFacts
  DEF TypeOK, PlacesOK, SocketsOK, HeldOK, TopicsOK, SentOK, Loops, CloseCall
<1>2. CASE CloseLock
  BY <1>2, ActorFacts
  DEF TypeOK, PlacesOK, SocketsOK, HeldOK, TopicsOK, SentOK, Loops, CloseLock, Forget
<1>3. CASE CloseChannels
  BY <1>3, ActorFacts
  DEF TypeOK, PlacesOK, SocketsOK, HeldOK, TopicsOK, SentOK, Loops, CloseChannels
<1> QED
  BY <1>1, <1>2, <1>3, SentLoss, ActorFacts DEF CloseStep

LEMMA SentStep ==
    ASSUME TypeOK, PlacesOK, SocketsOK, HeldOK, TopicsOK, SentOK, [Next]_vars
    PROVE  SentOK'
<1>1. CASE UNCHANGED vars
  BY <1>1 DEF vars, SentOK
<1>2. CASE Next
  BY <1>2, SentCaller, SentReader, SentPing, SentReconnect, SentClose
     DEF Next
<1> QED
  BY <1>1, <1>2

LEMMA InitSentOK == Init => SentOK
BY DEF Init, SentOK

LEMMA SentInductive == Spec => []SentOK
<1>1. IInv /\ SentOK /\ [Next]_vars => SentOK'
  BY SentStep DEF IInv
<1> QED
  BY <1>1, InitSentOK, Inductive, PTL DEF Spec

-----------------------------------------------------------------------------
(* Every step of the client is a step of StreamLink or leaves it alone.      *)

LinkStep == [Link!Next]_(Link!vars)

\* Steps that touch neither the link, nor the topics, nor Close.
Still == UNCHANGED <<connected, subscriptions, sent, shouldPublish, pc["closer"]>>

LEMMA StillStutters == ASSUME Still PROVE LinkStep
<1>1. Phase' = Phase
  BY DEF Still, Phase, ChansClosed, CtxDone
<1> QED
  BY <1>1 DEF Still, LinkStep, Link!vars

\* Invariants every step lemma below may use.
Known == TypeOK /\ PlacesOK /\ SocketsOK /\ HeldOK /\ LossOK /\ TopicsOK /\ SentOK

LEMMA PhaseKept == ASSUME pc'["closer"] = pc["closer"] PROVE Phase' = Phase
BY DEF Phase, ChansClosed, CtxDone

LEMMA LoseStep ==
    ASSUME NEW a \in Actors, connected, a \notin shouldPublish, Forget,
           shouldPublish' = shouldPublish \cup {a},
           UNCHANGED <<subscriptions, pc["closer"]>>
    PROVE  LinkStep
<1>1. Link!Lose(a)
  BY PhaseKept DEF Forget, Link!Lose
<1> QED
  BY <1>1 DEF LinkStep, Link!Next

LEMMA EstablishStep ==
    ASSUME Known, NEW a \in Actors, a # "closer", NEW c \in Conns, NEW next,
           At(a, "dial"), Establish(a, c, next), UNCHANGED <<subscriptions, shouldPublish>>
    PROVE  LinkStep
<1>1. ~connected
  BY DEF Known, SocketsOK
<1>2. pc'["closer"] = pc["closer"]
  BY ActorFacts DEF Known, TypeOK, Establish, Loops
<1>3. Link!Establish
  BY <1>1, <1>2, PhaseKept DEF Establish, Link!Establish
<1> QED
  BY <1>3 DEF LinkStep, Link!Next

LEMMA LossLinks ==
    ASSUME Known, NEW a \in Actors, LossStep(a)
    PROVE  LinkStep
<1>1. CASE Mark(a)
  <2>1. a # "closer" /\ a \notin shouldPublish /\ held[a] \in Conns
    BY <1>1 DEF Mark, Known, PlacesOK, LossOK, HeldOK
  <2>2. pc'["closer"] = pc["closer"]
    BY <1>1, <2>1 DEF Mark, Known, TypeOK
  <2>3. CASE IsCurrent(a)
    <3>1. connected
      BY <2>1, <2>3, ActorFacts DEF IsCurrent, Known, SocketsOK
    <3> QED
      BY <1>1, <2>1, <2>2, <2>3, <3>1, LoseStep DEF Mark
  <2>4. CASE ~IsCurrent(a)
    BY <1>1, <2>2, <2>4, StillStutters DEF Mark, Still
  <2> QED
    BY <2>3, <2>4
<1>2. CASE CloseSocket(a)
  <2>1. CASE a = "closer"
    <3>1. pc["closer"] = "close" /\ pc'["closer"] = "wait"
      BY <1>2, <2>1, ActorFacts DEF CloseSocket, AfterLoss, Known, TypeOK, PlacesOK
    <3>2. Phase' = Phase
      BY <3>1 DEF Phase, CtxDone, ChansClosed
    <3> QED
      BY <1>2, <3>2 DEF CloseSocket, LinkStep, Link!vars
  <2>2. CASE a # "closer"
    BY <1>2, <2>2, StillStutters, ActorFacts DEF CloseSocket, Still, Known, TypeOK
  <2> QED
    BY <2>1, <2>2
<1>3. CASE PublishDisconnected(a)
  <2>1. a # "closer" /\ a \in shouldPublish
    BY <1>3 DEF PublishDisconnected, Known, PlacesOK, LossOK
  <2>2. pc'["closer"] = pc["closer"]
    BY <1>3, <2>1, ActorFacts DEF PublishDisconnected, PublishThen, Known, TypeOK
  <2>3. Link!Announce(a)
    BY <1>3, <2>1, <2>2, PhaseKept DEF PublishDisconnected, Link!Announce
  <2> QED
    BY <2>3 DEF LinkStep, Link!Next
<1>4. CASE TriggerReconnect(a)
  <2>1. a # "closer"
    BY <1>4 DEF TriggerReconnect, Known, PlacesOK
  <2> QED
    BY <1>4, <2>1, StillStutters DEF TriggerReconnect, Still, Known, TypeOK
<1> QED
  BY <1>1, <1>2, <1>3, <1>4 DEF LossStep

LEMMA SendLinks ==
    ASSUME Known, NEW a \in Callers \cup {"reconnect"}, SendStep(a)
    PROVE  LinkStep
<1>1. a \in Actors /\ a # "closer"
  BY ActorFacts DEF Loops
<1>2. CASE SendFails(a)
  BY <1>1, <1>2, StillStutters, ActorFacts DEF SendFails, PublishThen, Still, Known, TypeOK
<1>3. ASSUME NEW t \in Topics, SendTopic(a, t) PROVE LinkStep
  <2>1. pc'["closer"] = pc["closer"]
    BY <1>1, <1>3, ActorFacts DEF SendTopic, Known, TypeOK
  <2>2. CASE held[a] = conn
    <3>1. connected /\ t \in subscriptions
      BY <1>1, <1>3, <2>2, ActorFacts DEF SendTopic, Known, HeldOK, SocketsOK, SentOK
    <3>2. Link!Send(t)
      BY <1>3, <2>1, <2>2, <3>1, PhaseKept DEF SendTopic, Link!Send
    <3> QED
      BY <3>2 DEF LinkStep, Link!Next
  <2>3. CASE held[a] # conn
    BY <1>3, <2>1, <2>3, StillStutters DEF SendTopic, Still
  <2> QED
    BY <2>2, <2>3
<1> QED
  BY <1>2, <1>3 DEF SendStep

LEMMA CallerLinks ==
    ASSUME Known, NEW a \in Callers,
           ConnectCall(a) \/ CallerStep(a) \/ \E t \in Topics : SubscribeCall(a, t)
    PROVE  LinkStep
<1> a \in Actors /\ a # "closer" /\ "closer" \in Actors
  BY ActorFacts DEF Loops
<1>1. CASE ConnectCall(a)
  BY <1>1, StillStutters DEF ConnectCall, Still, Known, TypeOK
<1>2. CASE ConnectLock(a)
  BY <1>2, StillStutters DEF ConnectLock, Still, Known, TypeOK
<1>3. CASE DialFails(a)
  BY <1>3, StillStutters DEF DialFails, Still, Known, TypeOK
<1>4. CASE StartLoops(a)
  BY <1>4, StillStutters DEF StartLoops, Still, Known, TypeOK
<1>5. CASE SubscribeLock(a)
  <2>1. PICK t \in Topics : pending[a] = {t}
    BY <1>5 DEF SubscribeLock, Known, TopicsOK
  <2>2. pc'["closer"] = pc["closer"]
    BY <1>5 DEF SubscribeLock, Known, TypeOK
  <2>3. Link!Remember(t)
    BY <1>5, <2>1, <2>2, PhaseKept DEF SubscribeLock, Link!Remember
  <2> QED
    BY <2>3 DEF LinkStep, Link!Next
<1>6. ASSUME NEW c \in Conns, ConnectDialed(a, c) PROVE LinkStep
  BY <1>6, EstablishStep DEF ConnectDialed
<1>7. ASSUME NEW t \in Topics, SubscribeCall(a, t) PROVE LinkStep
  BY <1>7, StillStutters DEF SubscribeCall, Still, Known, TypeOK
<1> QED
  BY <1>1, <1>2, <1>3, <1>4, <1>5, <1>6, <1>7, LossLinks, SendLinks DEF CallerStep

LEMMA ReaderLinks ==
    ASSUME Known, NEW c \in Conns, ReaderStep(c) \/ ReadFrame(c) \/ PeerBreaks(c)
    PROVE  LinkStep
<1> c \in Actors /\ c # "closer" /\ "closer" \in Actors
  BY ActorFacts DEF Loops
<1>1. CASE ReadNext(c)
  BY <1>1, StillStutters DEF ReadNext, ReaderExits, Still, Known, TypeOK
<1>2. CASE ReadFails(c)
  BY <1>2, StillStutters DEF ReadFails, ReaderExits, PublishThen, Still, Known, TypeOK
<1>3. CASE ReadFrame(c)
  BY <1>3, StillStutters DEF ReadFrame, ReaderExits, Still, Known, TypeOK
<1>4. CASE PeerBreaks(c)
  BY <1>4, StillStutters DEF PeerBreaks, Still
<1> QED
  BY <1>1, <1>2, <1>3, <1>4, LossLinks DEF ReaderStep

LEMMA PingLinks ==
    ASSUME Known, PingTick \/ PingStep
    PROVE  LinkStep
<1> "ping" \in Actors /\ "closer" \in Actors
  BY ActorFacts
<1>1. CASE PingTick
  BY <1>1, StillStutters DEF PingTick, PublishThen, Still, Known, TypeOK
<1>2. CASE PingWritten
  BY <1>2, StillStutters DEF PingWritten, Still, Known, TypeOK
<1>3. CASE PingFails
  BY <1>3, StillStutters DEF PingFails, PublishThen, Still, Known, TypeOK
<1>4. CASE DropCurrent
  <2>1. pc'["closer"] = pc["closer"]
    BY <1>4 DEF DropCurrent, Known, TypeOK
  <2>2. CASE connected
    <3>1. "ping" \notin shouldPublish
      BY <1>4 DEF DropCurrent, Known, LossOK
    <3> QED
      BY <1>4, <2>1, <2>2, <3>1, LoseStep DEF DropCurrent
  <2>3. CASE ~connected
    <3>1. conn = NoConn /\ sent = {} /\ connected = FALSE
      BY <2>3 DEF Known, TypeOK, SocketsOK, SentOK
    <3> QED
      BY <1>4, <2>1, <3>1, StillStutters DEF DropCurrent, Forget, Still
  <2> QED
    BY <2>2, <2>3
<1>5. CASE LoopExits("ping")
  BY <1>5, StillStutters DEF LoopExits, Still, Known, TypeOK
<1> QED
  BY <1>1, <1>2, <1>3, <1>4, <1>5, LossLinks DEF PingStep

LEMMA ReconnectLinks ==
    ASSUME Known, ReconnectStep
    PROVE  LinkStep
<1> "reconnect" \in Actors /\ "closer" \in Actors
  BY ActorFacts
<1>1. CASE Wake
  BY <1>1, StillStutters DEF Wake, Still, Known, TypeOK
<1>2. CASE TryReconnect
  BY <1>2, StillStutters DEF TryReconnect, Still, Known, TypeOK
<1>3. CASE NextTopic
  BY <1>3, StillStutters DEF NextTopic, Still, Known, TypeOK
<1>4. CASE ResubscribeTimeout
  BY <1>4, StillStutters DEF ResubscribeTimeout, Still, Known, TypeOK
<1>5. CASE PublishReconnected
  BY <1>5, StillStutters DEF PublishReconnected, PublishThen, Still, Known, TypeOK
<1>6. CASE Backoff
  BY <1>6, StillStutters DEF Backoff, Still, Known, TypeOK
<1>7. CASE DialFails("reconnect")
  BY <1>7, StillStutters DEF DialFails, Still, Known, TypeOK
<1>8. CASE LoopExits("reconnect")
  BY <1>8, StillStutters DEF LoopExits, Still, Known, TypeOK
<1>9. ASSUME NEW c \in Conns, ReconnectDialed(c) PROVE LinkStep
  BY <1>9, EstablishStep DEF ReconnectDialed
<1> QED
  BY <1>1, <1>2, <1>3, <1>4, <1>5, <1>6, <1>7, <1>8, <1>9, LossLinks, SendLinks
     DEF ReconnectStep

LEMMA CloseLinks ==
    ASSUME Known, ChannelsOK, CloseCall \/ CloseStep
    PROVE  LinkStep
<1> "closer" \in Actors
  BY ActorFacts
<1>1. CASE CloseCall
  <2>1. pc["closer"] = "idle" /\ pc'["closer"] = "lock"
    BY <1>1 DEF CloseCall, Known, TypeOK
  <2>2. Phase' = Phase
    BY <2>1 DEF Phase, CtxDone, ChansClosed
  <2> QED
    BY <1>1, <2>2 DEF CloseCall, LinkStep, Link!vars
<1>2. CASE CloseLock
  <2>1. pc["closer"] = "lock" /\ pc'["closer"] = "close"
    BY <1>2 DEF CloseLock, Known, TypeOK
  <2>2. Phase = "open" /\ Phase' = "closing"
    BY <2>1 DEF Phase, CtxDone, ChansClosed
  <2>3. Link!Shut
    BY <1>2, <2>2 DEF CloseLock, Forget, Link!Shut
  <2> QED
    BY <2>3 DEF LinkStep, Link!Next
<1>3. CASE CloseChannels
  <2>1. pc["closer"] = "wait" /\ pc'["closer"] = "done"
    BY <1>3 DEF CloseChannels, Known, TypeOK
  <2>2. Phase = "closing" /\ Phase' = "ended"
    BY <2>1 DEF Phase, CtxDone, ChansClosed
  <2>3. shouldPublish \cap (Conns \cup Loops) = {}
    BY <1>3 DEF CloseChannels, WgZero, Known, LossOK, PlacesOK, Loops
  <2>4. Link!End
    BY <1>3, <2>2, <2>3 DEF CloseChannels, Link!End
  <2> QED
    BY <2>4 DEF LinkStep, Link!Next
<1> QED
  BY <1>1, <1>2, <1>3, LossLinks DEF CloseStep

LEMMA StepLinks == IInv /\ SentOK /\ [Next]_vars => LinkStep
<1> SUFFICES ASSUME IInv, SentOK, [Next]_vars PROVE LinkStep
  OBVIOUS
<1>1. Known /\ ChannelsOK
  BY DEF IInv, Known
<1>2. CASE UNCHANGED vars
  BY <1>2, StillStutters DEF vars, Still
<1>3. CASE Next
  BY <1>1, <1>3, CallerLinks, ReaderLinks, PingLinks, ReconnectLinks, CloseLinks DEF Next
<1> QED
  BY <1>2, <1>3

\* The client implements StreamLink, whatever goroutines detect losses, call
\* Connect and Subscribe or close it: a connection is established only when
\* there is none, one party announces its loss, only remembered topics are sent
\* and only on it, and the channels close when none of the client's own
\* goroutines still has an announcement to make.
THEOREM Refinement == Spec => ImplementsStreamLink
<1>1. Init => Link!Init
  <2> SUFFICES ASSUME Init PROVE Link!Init
    OBVIOUS
  <2>1. pc["closer"] = "idle"
    BY ActorFacts DEF Init
  <2>2. Phase = "open"
    BY <2>1 DEF Phase, CtxDone, ChansClosed
  <2> QED
    BY <2>2 DEF Init, Link!Init
<1>2. IInv /\ SentOK /\ [Next]_vars => [Link!Next]_(Link!vars)
  BY StepLinks DEF LinkStep
<1> QED
  BY <1>1, <1>2, Inductive, SentInductive, PTL DEF Spec, ImplementsStreamLink, Link!Spec
=============================================================================
