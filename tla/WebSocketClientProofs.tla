------------------------ MODULE WebSocketClientProofs ------------------------
(***************************************************************************)
(* Proofs about WebSocketClient for every set of callers, connections and  *)
(* topics.                                                                 *)
(***************************************************************************)
EXTENDS WebSocketClient, TLAPS

USE DEF At, Goto, Hold, link

-----------------------------------------------------------------------------
(* Types *)

\* The names of the loops differ from callers and connections and from each
\* other: what assigning to one component of pc leaves alone.
LEMMA ActorFacts ==
    /\ "ping" \in Actors /\ "reconnect" \in Actors /\ "closer" \in Actors
    /\ \A a \in Callers : a \in Actors /\ a \notin Conns /\ a \notin Loops
    /\ \A c \in Conns : c \in Actors /\ c \notin Callers /\ c \notin Loops
    /\ NoConn \notin Conns
<1>1. "ping" \in Actors /\ "reconnect" \in Actors /\ "closer" \in Actors
  BY DEF Actors, Loops
<1>2. \A a \in Callers : a \in Actors /\ a \notin Conns /\ a \notin Loops
  BY ActorsAreDistinct DEF Actors
<1>3. \A c \in Conns : c \in Actors /\ c \notin Callers /\ c \notin Loops
  BY ActorsAreDistinct DEF Actors
<1> QED
  BY <1>1, <1>2, <1>3, ActorsAreDistinct

LEMMA TypeInit == Init => TypeOK
<1> SUFFICES ASSUME Init PROVE TypeOK
  OBVIOUS
<1>1. pc \in [Actors -> Labels]
  BY DEF Init, Labels
<1>2. held \in [Actors -> Conns \cup {NoConn}]
  BY DEF Init
<1>3. sock \in [Conns -> {"open", "broken", "closed"}]
  BY DEF Init
<1>4. pending \in [Actors -> SUBSET Topics]
  BY DEF Init
<1>5. reconnectCh \in 0..1
  BY DEF Init
<1>6. connected \in BOOLEAN /\ conn \in Conns \cup {NoConn}
  BY Zenon DEF Init
<1>7. /\ subscriptions \subseteq Topics /\ sent \subseteq Topics
      /\ missed \subseteq Topics /\ announced \subseteq Conns \cup {NoConn}
      /\ shouldPublish \subseteq Actors
  BY DEF Init
<1> QED
  BY <1>1, <1>2, <1>3, <1>4, <1>5, <1>6, <1>7 DEF TypeOK

\* Every step of the failure path, of whichever goroutine.
LEMMA TypeLoss ==
    ASSUME TypeOK, NEW a \in Actors, LossStep(a)
    PROVE  TypeOK'
<1>1. CASE Mark(a)
  <2>1. pc' \in [Actors -> Labels]
    BY <1>1 DEF TypeOK, Labels, Mark
  <2>2. CASE IsCurrent(a)
    BY <1>1, <2>1, <2>2 DEF TypeOK, Mark, Forget
  <2>3. CASE ~IsCurrent(a)
    BY <1>1, <2>1, <2>3 DEF TypeOK, Mark
  <2> QED
    BY <2>2, <2>3
<1>2. CASE CloseSocket(a)
  BY <1>2 DEF TypeOK, Labels, CloseSocket, AfterClose, AfterLoss
<1>3. CASE PublishDisconnected(a)
  BY <1>3 DEF TypeOK, Labels, PublishDisconnected, PublishThen, AfterLoss
<1>4. CASE TriggerReconnect(a)
  BY <1>4 DEF TypeOK, Labels, TriggerReconnect, Offer, Rest
<1> QED
  BY <1>1, <1>2, <1>3, <1>4 DEF LossStep

LEMMA TypeSend ==
    ASSUME TypeOK, NEW a \in Actors, SendStep(a)
    PROVE  TypeOK'
<1>1. CASE SendFails(a)
  BY <1>1 DEF TypeOK, Labels, SendFails, PublishThen
<1>2. ASSUME NEW t \in Topics, SendTopic(a, t) PROVE TypeOK'
  BY <1>2, ActorFacts DEF TypeOK, Labels, SendTopic
<1> QED
  BY <1>1, <1>2 DEF SendStep

LEMMA TypeCaller ==
    ASSUME TypeOK, NEW a \in Callers,
           ConnectCall(a) \/ CallerStep(a) \/ \E t \in Topics : SubscribeCall(a, t)
    PROVE  TypeOK'
<1>1. CASE ConnectCall(a)
  BY <1>1, ActorFacts DEF TypeOK, Labels, ConnectCall
<1>2. CASE ConnectLock(a)
  BY <1>2, ActorFacts DEF TypeOK, Labels, ConnectLock
<1>3. CASE DialFails(a)
  BY <1>3, ActorFacts DEF TypeOK, Labels, DialFails
<1>4. CASE StartLoops(a)
  BY <1>4, ActorFacts DEF TypeOK, Labels, StartLoops
<1>5. CASE SubscribeLock(a)
  BY <1>5, ActorFacts DEF TypeOK, Labels, SubscribeLock
<1>6. ASSUME NEW c \in Conns, ConnectDialed(a, c) PROVE TypeOK'
  BY <1>6, ActorFacts DEF TypeOK, Labels, ConnectDialed, Establish
<1>7. ASSUME NEW t \in Topics, SubscribeCall(a, t) PROVE TypeOK'
  BY <1>7, ActorFacts DEF TypeOK, Labels, SubscribeCall
<1> QED
  BY <1>1, <1>2, <1>3, <1>4, <1>5, <1>6, <1>7, TypeLoss, TypeSend, ActorFacts DEF CallerStep

LEMMA TypeReader ==
    ASSUME TypeOK, NEW c \in Conns, ReaderStep(c) \/ ReadFrame(c) \/ PeerBreaks(c)
    PROVE  TypeOK'
<1>1. CASE ReadNext(c)
  BY <1>1, ActorFacts DEF TypeOK, Labels, ReadNext, ReaderExits
<1>2. CASE ReadFails(c)
  BY <1>2, ActorFacts DEF TypeOK, Labels, ReadFails, ReaderExits, PublishThen
<1>3. CASE ReadFrame(c)
  BY <1>3, ActorFacts DEF TypeOK, Labels, ReadFrame, ReaderExits
<1>4. CASE PeerBreaks(c)
  BY <1>4 DEF TypeOK, PeerBreaks
<1> QED
  BY <1>1, <1>2, <1>3, <1>4, TypeLoss, ActorFacts DEF ReaderStep

LEMMA TypePing ==
    ASSUME TypeOK, PingTick \/ PingStep
    PROVE  TypeOK'
<1>1. CASE PingTick
  BY <1>1, ActorFacts DEF TypeOK, Labels, PingTick, PublishThen
<1>2. CASE PingWritten
  BY <1>2, ActorFacts DEF TypeOK, Labels, PingWritten
<1>3. CASE PingFails
  BY <1>3, ActorFacts DEF TypeOK, Labels, PingFails, PublishThen
<1>4. CASE DropCurrent
  BY <1>4, ActorFacts DEF TypeOK, Labels, DropCurrent, Forget
<1>5. CASE LoopExits("ping")
  BY <1>5, ActorFacts DEF TypeOK, Labels, LoopExits
<1> QED
  BY <1>1, <1>2, <1>3, <1>4, <1>5, TypeLoss, ActorFacts DEF PingStep

LEMMA TypeReconnect ==
    ASSUME TypeOK, ReconnectStep
    PROVE  TypeOK'
<1>1. CASE Wake
  BY <1>1, ActorFacts DEF TypeOK, Labels, Wake
<1>2. CASE TryReconnect
  BY <1>2, ActorFacts DEF TypeOK, Labels, TryReconnect
<1>3. CASE DialFails("reconnect")
  BY <1>3, ActorFacts DEF TypeOK, Labels, DialFails
<1>4. CASE NextTopic
  BY <1>4, ActorFacts DEF TypeOK, Labels, NextTopic
<1>5. CASE ResubscribeTimeout
  BY <1>5, ActorFacts DEF TypeOK, Labels, ResubscribeTimeout
<1>6. CASE PublishReconnected
  BY <1>6, ActorFacts DEF TypeOK, Labels, PublishReconnected, PublishThen
<1>7. CASE Backoff
  BY <1>7, ActorFacts DEF TypeOK, Labels, Backoff
<1>8. CASE LoopExits("reconnect")
  BY <1>8, ActorFacts DEF TypeOK, Labels, LoopExits
<1>9. ASSUME NEW c \in Conns, ReconnectDialed(c) PROVE TypeOK'
  BY <1>9, ActorFacts DEF TypeOK, Labels, ReconnectDialed, Establish, Remembered
<1> QED
  BY <1>1, <1>2, <1>3, <1>4, <1>5, <1>6, <1>7, <1>8, <1>9, TypeLoss, TypeSend,
     ActorFacts DEF ReconnectStep

LEMMA TypeClose ==
    ASSUME TypeOK, CloseCall \/ CloseStep
    PROVE  TypeOK'
<1>1. CASE CloseCall
  BY <1>1, ActorFacts DEF TypeOK, Labels, CloseCall
<1>2. CASE CloseLock
  BY <1>2, ActorFacts DEF TypeOK, Labels, CloseLock, Forget
<1>3. CASE CloseChannels
  BY <1>3, ActorFacts DEF TypeOK, Labels, CloseChannels
<1> QED
  BY <1>1, <1>2, <1>3, TypeLoss, ActorFacts DEF CloseStep

LEMMA TypeStep ==
    ASSUME TypeOK, [Next]_vars
    PROVE  TypeOK'
<1>1. CASE UNCHANGED vars
  BY <1>1 DEF TypeOK, vars
<1>2. CASE Next
  BY <1>2, TypeCaller, TypeReader, TypePing, TypeReconnect, TypeClose DEF Next
<1> QED
  BY <1>1, <1>2

-----------------------------------------------------------------------------
(* Where each goroutine can be *)

PlacesOK ==
    /\ \A a \in Callers :
          pc[a] \in {"idle", "connect", "dial", "loops", "subscribe", "send",
                    "mark", "close", "publish", "trigger", "panic"}
    /\ \A c \in Conns :
          pc[c] \in {"idle", "loop", "read", "mark", "close", "publish",
                    "trigger", "panic"}
    /\ pc["ping"] \in {"new", "select", "write", "drop", "close", "publish",
                      "trigger", "done", "panic"}
    /\ pc["reconnect"] \in {"new", "select", "try", "dial", "topics", "send",
                           "backoff", "mark", "close", "publish", "done", "panic"}
    /\ pc["closer"] \in {"idle", "lock", "close", "wait", "done"}
    /\ "closer" \notin shouldPublish

LEMMA PlacesLoss ==
    ASSUME TypeOK, PlacesOK, NEW a \in Actors, LossStep(a)
    PROVE  PlacesOK'
<1>1. CASE Mark(a)
  BY <1>1, ActorFacts DEF TypeOK, PlacesOK, Loops, Mark, Forget
<1>2. CASE CloseSocket(a)
  BY <1>2, ActorFacts DEF TypeOK, PlacesOK, Loops, CloseSocket, AfterClose, AfterLoss
<1>3. CASE PublishDisconnected(a)
  BY <1>3, ActorFacts DEF TypeOK, PlacesOK, Loops, PublishDisconnected, PublishThen, AfterLoss
<1>4. CASE TriggerReconnect(a)
  BY <1>4, ActorFacts DEF TypeOK, PlacesOK, Loops, TriggerReconnect, Offer, Rest
<1> QED
  BY <1>1, <1>2, <1>3, <1>4 DEF LossStep

LEMMA PlacesSend ==
    ASSUME TypeOK, PlacesOK, NEW a \in Callers \cup {"reconnect"}, SendStep(a)
    PROVE  PlacesOK'
<1>1. CASE SendFails(a)
  BY <1>1, ActorFacts DEF TypeOK, PlacesOK, Loops, SendFails, PublishThen
<1>2. ASSUME NEW t \in Topics, SendTopic(a, t) PROVE PlacesOK'
  BY <1>2, ActorFacts DEF TypeOK, PlacesOK, Loops, SendTopic
<1> QED
  BY <1>1, <1>2 DEF SendStep

LEMMA PlacesCaller ==
    ASSUME TypeOK, PlacesOK, NEW a \in Callers,
           ConnectCall(a) \/ CallerStep(a) \/ \E t \in Topics : SubscribeCall(a, t)
    PROVE  PlacesOK'
<1>1. CASE ConnectCall(a)
  BY <1>1, ActorFacts DEF TypeOK, PlacesOK, Loops, ConnectCall
<1>2. CASE ConnectLock(a)
  BY <1>2, ActorFacts DEF TypeOK, PlacesOK, Loops, ConnectLock
<1>3. CASE DialFails(a)
  BY <1>3, ActorFacts DEF TypeOK, PlacesOK, Loops, DialFails
<1>4. CASE StartLoops(a)
  BY <1>4, ActorFacts DEF TypeOK, PlacesOK, Loops, StartLoops
<1>5. CASE SubscribeLock(a)
  BY <1>5, ActorFacts DEF TypeOK, PlacesOK, Loops, SubscribeLock
<1>6. ASSUME NEW c \in Conns, ConnectDialed(a, c) PROVE PlacesOK'
  BY <1>6, ActorFacts DEF TypeOK, PlacesOK, Loops, ConnectDialed, Establish
<1>7. ASSUME NEW t \in Topics, SubscribeCall(a, t) PROVE PlacesOK'
  BY <1>7, ActorFacts DEF TypeOK, PlacesOK, Loops, SubscribeCall
<1> QED
  BY <1>1, <1>2, <1>3, <1>4, <1>5, <1>6, <1>7, PlacesLoss, PlacesSend, ActorFacts DEF CallerStep

LEMMA PlacesReader ==
    ASSUME TypeOK, PlacesOK, NEW c \in Conns, ReaderStep(c) \/ ReadFrame(c) \/ PeerBreaks(c)
    PROVE  PlacesOK'
<1>1. CASE ReadNext(c)
  BY <1>1, ActorFacts DEF TypeOK, PlacesOK, Loops, ReadNext, ReaderExits
<1>2. CASE ReadFails(c)
  BY <1>2, ActorFacts DEF TypeOK, PlacesOK, Loops, ReadFails, ReaderExits, PublishThen
<1>3. CASE ReadFrame(c)
  BY <1>3, ActorFacts DEF TypeOK, PlacesOK, Loops, ReadFrame, ReaderExits
<1>4. CASE PeerBreaks(c)
  BY <1>4, ActorFacts DEF TypeOK, PlacesOK, Loops, PeerBreaks
<1> QED
  BY <1>1, <1>2, <1>3, <1>4, PlacesLoss, ActorFacts DEF ReaderStep

LEMMA PlacesPing ==
    ASSUME TypeOK, PlacesOK, PingTick \/ PingStep
    PROVE  PlacesOK'
<1>1. CASE PingTick
  BY <1>1, ActorFacts DEF TypeOK, PlacesOK, Loops, PingTick, PublishThen
<1>2. CASE PingWritten
  BY <1>2, ActorFacts DEF TypeOK, PlacesOK, Loops, PingWritten
<1>3. CASE PingFails
  BY <1>3, ActorFacts DEF TypeOK, PlacesOK, Loops, PingFails, PublishThen
<1>4. CASE DropCurrent
  BY <1>4, ActorFacts DEF TypeOK, PlacesOK, Loops, DropCurrent, Forget
<1>5. CASE LoopExits("ping")
  BY <1>5, ActorFacts DEF TypeOK, PlacesOK, Loops, LoopExits
<1> QED
  BY <1>1, <1>2, <1>3, <1>4, <1>5, PlacesLoss, ActorFacts
     DEF PingStep

LEMMA PlacesReconnect ==
    ASSUME TypeOK, PlacesOK, ReconnectStep
    PROVE  PlacesOK'
<1>1. CASE Wake
  BY <1>1, ActorFacts DEF TypeOK, PlacesOK, Loops, Wake
<1>2. CASE TryReconnect
  BY <1>2, ActorFacts DEF TypeOK, PlacesOK, Loops, TryReconnect
<1>3. CASE NextTopic
  BY <1>3, ActorFacts DEF TypeOK, PlacesOK, Loops, NextTopic
<1>4. CASE ResubscribeTimeout
  BY <1>4, ActorFacts DEF TypeOK, PlacesOK, Loops, ResubscribeTimeout
<1>5. CASE PublishReconnected
  BY <1>5, ActorFacts DEF TypeOK, PlacesOK, Loops, PublishReconnected, PublishThen
<1>6. CASE Backoff
  BY <1>6, ActorFacts DEF TypeOK, PlacesOK, Loops, Backoff
<1>7. CASE DialFails("reconnect")
  BY <1>7, ActorFacts DEF TypeOK, PlacesOK, Loops, DialFails
<1>8. CASE LoopExits("reconnect")
  BY <1>8, ActorFacts DEF TypeOK, PlacesOK, Loops, LoopExits
<1>9. ASSUME NEW c \in Conns, ReconnectDialed(c) PROVE PlacesOK'
  BY <1>9, ActorFacts DEF TypeOK, PlacesOK, Loops, ReconnectDialed, Establish, Remembered
<1> QED
  BY <1>1, <1>2, <1>3, <1>4, <1>5, <1>6, <1>7, <1>8, <1>9,
     PlacesLoss, PlacesSend, ActorFacts DEF ReconnectStep

LEMMA PlacesClose ==
    ASSUME TypeOK, PlacesOK, CloseCall \/ CloseStep
    PROVE  PlacesOK'
<1>1. CASE CloseCall
  BY <1>1, ActorFacts DEF TypeOK, PlacesOK, Loops, CloseCall
<1>2. CASE CloseLock
  BY <1>2, ActorFacts DEF TypeOK, PlacesOK, Loops, CloseLock, Forget
<1>3. CASE CloseChannels
  BY <1>3, ActorFacts DEF TypeOK, PlacesOK, Loops, CloseChannels
<1> QED
  BY <1>1, <1>2, <1>3, PlacesLoss, ActorFacts DEF CloseStep


LEMMA PlacesStep ==
    ASSUME TypeOK, PlacesOK, [Next]_vars
    PROVE  PlacesOK'
<1>1. CASE UNCHANGED vars
  BY <1>1 DEF vars, PlacesOK
<1>2. CASE Next
  BY <1>2, PlacesCaller, PlacesReader, PlacesPing, PlacesReconnect, PlacesClose
     DEF Next
<1> QED
  BY <1>1, <1>2

-----------------------------------------------------------------------------
(* Publishing and the end of Close *)

\* Once the channels are closed, the goroutines the WaitGroup counts have
\* passed every place from which they publish.
ChannelsOK ==
    /\ LoopsNeverPanic
    /\ ChansClosed =>
          /\ \A c \in Conns : pc[c] \in {"idle", "loop"}
          /\ pc["ping"] \in {"new", "select", "done"}
          /\ pc["reconnect"] \in {"new", "select", "try", "dial", "backoff", "done"}


LEMMA ChannelsLoss ==
    ASSUME TypeOK, PlacesOK, ChannelsOK, NEW a \in Actors, LossStep(a)
    PROVE  ChannelsOK'
<1>1. CASE Mark(a)
  BY <1>1, ActorFacts DEF TypeOK, PlacesOK, ChannelsOK, LoopsNeverPanic, ChansClosed, CtxDone, WgZero, Loops, Mark, Forget
<1>2. CASE CloseSocket(a)
  BY <1>2, ActorFacts DEF TypeOK, PlacesOK, ChannelsOK, LoopsNeverPanic, ChansClosed, CtxDone, WgZero, Loops, CloseSocket, AfterClose, AfterLoss
<1>3. CASE PublishDisconnected(a)
  BY <1>3, ActorFacts DEF TypeOK, PlacesOK, ChannelsOK, LoopsNeverPanic, ChansClosed, CtxDone, WgZero, Loops, PublishDisconnected, PublishThen, AfterLoss
<1>4. CASE TriggerReconnect(a)
  BY <1>4, ActorFacts DEF TypeOK, PlacesOK, ChannelsOK, LoopsNeverPanic, ChansClosed, CtxDone, WgZero, Loops, TriggerReconnect, Offer, Rest
<1> QED
  BY <1>1, <1>2, <1>3, <1>4 DEF LossStep

LEMMA ChannelsSend ==
    ASSUME TypeOK, PlacesOK, ChannelsOK, NEW a \in Callers \cup {"reconnect"}, SendStep(a)
    PROVE  ChannelsOK'
<1>1. CASE SendFails(a)
  BY <1>1, ActorFacts DEF TypeOK, PlacesOK, ChannelsOK, LoopsNeverPanic, ChansClosed, CtxDone, WgZero, Loops, SendFails, PublishThen
<1>2. ASSUME NEW t \in Topics, SendTopic(a, t) PROVE ChannelsOK'
  BY <1>2, ActorFacts DEF TypeOK, PlacesOK, ChannelsOK, LoopsNeverPanic, ChansClosed, CtxDone, WgZero, Loops, SendTopic
<1> QED
  BY <1>1, <1>2 DEF SendStep

LEMMA ChannelsCaller ==
    ASSUME TypeOK, PlacesOK, ChannelsOK, NEW a \in Callers,
           ConnectCall(a) \/ CallerStep(a) \/ \E t \in Topics : SubscribeCall(a, t)
    PROVE  ChannelsOK'
<1>1. CASE ConnectCall(a)
  BY <1>1, ActorFacts DEF TypeOK, PlacesOK, ChannelsOK, LoopsNeverPanic, ChansClosed, CtxDone, WgZero, Loops, ConnectCall
<1>2. CASE ConnectLock(a)
  BY <1>2, ActorFacts DEF TypeOK, PlacesOK, ChannelsOK, LoopsNeverPanic, ChansClosed, CtxDone, WgZero, Loops, ConnectLock
<1>3. CASE DialFails(a)
  BY <1>3, ActorFacts DEF TypeOK, PlacesOK, ChannelsOK, LoopsNeverPanic, ChansClosed, CtxDone, WgZero, Loops, DialFails
<1>4. CASE StartLoops(a)
  BY <1>4, ActorFacts DEF TypeOK, PlacesOK, ChannelsOK, LoopsNeverPanic, ChansClosed, CtxDone, WgZero, Loops, StartLoops
<1>5. CASE SubscribeLock(a)
  BY <1>5, ActorFacts DEF TypeOK, PlacesOK, ChannelsOK, LoopsNeverPanic, ChansClosed, CtxDone, WgZero, Loops, SubscribeLock
<1>6. ASSUME NEW c \in Conns, ConnectDialed(a, c) PROVE ChannelsOK'
  BY <1>6, ActorFacts DEF TypeOK, PlacesOK, ChannelsOK, LoopsNeverPanic, ChansClosed, CtxDone, WgZero, Loops, ConnectDialed, Establish
<1>7. ASSUME NEW t \in Topics, SubscribeCall(a, t) PROVE ChannelsOK'
  BY <1>7, ActorFacts DEF TypeOK, PlacesOK, ChannelsOK, LoopsNeverPanic, ChansClosed, CtxDone, WgZero, Loops, SubscribeCall
<1> QED
  BY <1>1, <1>2, <1>3, <1>4, <1>5, <1>6, <1>7, ChannelsLoss, ChannelsSend, ActorFacts DEF CallerStep

LEMMA ChannelsReader ==
    ASSUME TypeOK, PlacesOK, ChannelsOK, NEW c \in Conns, ReaderStep(c) \/ ReadFrame(c) \/ PeerBreaks(c)
    PROVE  ChannelsOK'
<1>1. CASE ReadNext(c)
  BY <1>1, ActorFacts DEF TypeOK, PlacesOK, ChannelsOK, LoopsNeverPanic, ChansClosed, CtxDone, WgZero, Loops, ReadNext, ReaderExits
<1>2. CASE ReadFails(c)
  BY <1>2, ActorFacts DEF TypeOK, PlacesOK, ChannelsOK, LoopsNeverPanic, ChansClosed, CtxDone, WgZero, Loops, ReadFails, ReaderExits, PublishThen
<1>3. CASE ReadFrame(c)
  BY <1>3, ActorFacts DEF TypeOK, PlacesOK, ChannelsOK, LoopsNeverPanic, ChansClosed, CtxDone, WgZero, Loops, ReadFrame, ReaderExits
<1>4. CASE PeerBreaks(c)
  BY <1>4, ActorFacts DEF TypeOK, PlacesOK, ChannelsOK, LoopsNeverPanic, ChansClosed, CtxDone, WgZero, Loops, PeerBreaks
<1> QED
  BY <1>1, <1>2, <1>3, <1>4, ChannelsLoss, ActorFacts DEF ReaderStep

LEMMA ChannelsPing ==
    ASSUME TypeOK, PlacesOK, ChannelsOK, PingTick \/ PingStep
    PROVE  ChannelsOK'
<1>1. CASE PingTick
  BY <1>1, ActorFacts DEF TypeOK, PlacesOK, ChannelsOK, LoopsNeverPanic, ChansClosed, CtxDone, WgZero, Loops, PingTick, PublishThen
<1>2. CASE PingWritten
  BY <1>2, ActorFacts DEF TypeOK, PlacesOK, ChannelsOK, LoopsNeverPanic, ChansClosed, CtxDone, WgZero, Loops, PingWritten
<1>3. CASE PingFails
  BY <1>3, ActorFacts DEF TypeOK, PlacesOK, ChannelsOK, LoopsNeverPanic, ChansClosed, CtxDone, WgZero, Loops, PingFails, PublishThen
<1>4. CASE DropCurrent
  BY <1>4, ActorFacts DEF TypeOK, PlacesOK, ChannelsOK, LoopsNeverPanic, ChansClosed, CtxDone, WgZero, Loops, DropCurrent, Forget
<1>5. CASE LoopExits("ping")
  BY <1>5, ActorFacts DEF TypeOK, PlacesOK, ChannelsOK, LoopsNeverPanic, ChansClosed, CtxDone, WgZero, Loops, LoopExits
<1> QED
  BY <1>1, <1>2, <1>3, <1>4, <1>5, ChannelsLoss, ActorFacts
     DEF PingStep

LEMMA ChannelsReconnect ==
    ASSUME TypeOK, PlacesOK, ChannelsOK, ReconnectStep
    PROVE  ChannelsOK'
<1>1. CASE Wake
  BY <1>1, ActorFacts DEF TypeOK, PlacesOK, ChannelsOK, LoopsNeverPanic, ChansClosed, CtxDone, WgZero, Loops, Wake
<1>2. CASE TryReconnect
  BY <1>2, ActorFacts DEF TypeOK, PlacesOK, ChannelsOK, LoopsNeverPanic, ChansClosed, CtxDone, WgZero, Loops, TryReconnect
<1>3. CASE NextTopic
  BY <1>3, ActorFacts DEF TypeOK, PlacesOK, ChannelsOK, LoopsNeverPanic, ChansClosed, CtxDone, WgZero, Loops, NextTopic
<1>4. CASE ResubscribeTimeout
  BY <1>4, ActorFacts DEF TypeOK, PlacesOK, ChannelsOK, LoopsNeverPanic, ChansClosed, CtxDone, WgZero, Loops, ResubscribeTimeout
<1>5. CASE PublishReconnected
  BY <1>5, ActorFacts DEF TypeOK, PlacesOK, ChannelsOK, LoopsNeverPanic, ChansClosed, CtxDone, WgZero, Loops, PublishReconnected, PublishThen
<1>6. CASE Backoff
  BY <1>6, ActorFacts DEF TypeOK, PlacesOK, ChannelsOK, LoopsNeverPanic, ChansClosed, CtxDone, WgZero, Loops, Backoff
<1>7. CASE DialFails("reconnect")
  BY <1>7, ActorFacts DEF TypeOK, PlacesOK, ChannelsOK, LoopsNeverPanic, ChansClosed, CtxDone, WgZero, Loops, DialFails
<1>8. CASE LoopExits("reconnect")
  BY <1>8, ActorFacts DEF TypeOK, PlacesOK, ChannelsOK, LoopsNeverPanic, ChansClosed, CtxDone, WgZero, Loops, LoopExits
<1>9. ASSUME NEW c \in Conns, ReconnectDialed(c) PROVE ChannelsOK'
  BY <1>9, ActorFacts DEF TypeOK, PlacesOK, ChannelsOK, LoopsNeverPanic, ChansClosed, CtxDone, WgZero, Loops, ReconnectDialed, Establish, Remembered
<1> QED
  BY <1>1, <1>2, <1>3, <1>4, <1>5, <1>6, <1>7, <1>8, <1>9,
     ChannelsLoss, ChannelsSend, ActorFacts DEF ReconnectStep

LEMMA ChannelsClose ==
    ASSUME TypeOK, PlacesOK, ChannelsOK, CloseCall \/ CloseStep
    PROVE  ChannelsOK'
<1>1. CASE CloseCall
  BY <1>1, ActorFacts DEF TypeOK, PlacesOK, ChannelsOK, LoopsNeverPanic, ChansClosed, CtxDone, WgZero, Loops, CloseCall
<1>2. CASE CloseLock
  BY <1>2, ActorFacts DEF TypeOK, PlacesOK, ChannelsOK, LoopsNeverPanic, ChansClosed, CtxDone, WgZero, Loops, CloseLock, Forget
<1>3. CASE CloseChannels
  BY <1>3, ActorFacts DEF TypeOK, PlacesOK, ChannelsOK, LoopsNeverPanic, ChansClosed, CtxDone, WgZero, Loops, CloseChannels
<1> QED
  BY <1>1, <1>2, <1>3, ChannelsLoss, ActorFacts DEF CloseStep


LEMMA ChannelsStep ==
    ASSUME TypeOK, PlacesOK, ChannelsOK, [Next]_vars
    PROVE  ChannelsOK'
<1>1. CASE UNCHANGED vars
  BY <1>1 DEF vars, ChannelsOK, LoopsNeverPanic, ChansClosed
<1>2. CASE Next
  BY <1>2, ChannelsCaller, ChannelsReader, ChannelsPing, ChannelsReconnect, ChannelsClose
     DEF Next
<1> QED
  BY <1>1, <1>2



-----------------------------------------------------------------------------
(* The current connection and the open sockets *)

SocketsOK ==
    /\ connected <=> conn # NoConn
    /\ \A a \in Actors :
          At(a, "dial") => ~connected /\ \A b \in Actors : At(b, "dial") => a = b
    /\ SocketOwned


LEMMA SocketsLoss ==
    ASSUME TypeOK, PlacesOK, SocketsOK, NEW a \in Actors, LossStep(a)
    PROVE  SocketsOK'
<1>1. CASE Mark(a)
  BY <1>1, ActorFacts DEF TypeOK, PlacesOK, SocketsOK, SocketOwned, MuFree, Loops, Mark, Forget, IsCurrent
<1>2. CASE CloseSocket(a)
  BY <1>2, ActorFacts DEF TypeOK, PlacesOK, SocketsOK, SocketOwned, MuFree, Loops, CloseSocket, AfterClose, AfterLoss
<1>3. CASE PublishDisconnected(a)
  BY <1>3, ActorFacts DEF TypeOK, PlacesOK, SocketsOK, SocketOwned, MuFree, Loops, PublishDisconnected, PublishThen, AfterLoss
<1>4. CASE TriggerReconnect(a)
  BY <1>4, ActorFacts DEF TypeOK, PlacesOK, SocketsOK, SocketOwned, MuFree, Loops, TriggerReconnect, Offer, Rest
<1> QED
  BY <1>1, <1>2, <1>3, <1>4 DEF LossStep

LEMMA SocketsSend ==
    ASSUME TypeOK, PlacesOK, SocketsOK, NEW a \in Callers \cup {"reconnect"}, SendStep(a)
    PROVE  SocketsOK'
<1>1. CASE SendFails(a)
  BY <1>1, ActorFacts DEF TypeOK, PlacesOK, SocketsOK, SocketOwned, MuFree, Loops, SendFails, PublishThen
<1>2. ASSUME NEW t \in Topics, SendTopic(a, t) PROVE SocketsOK'
  BY <1>2, ActorFacts DEF TypeOK, PlacesOK, SocketsOK, SocketOwned, MuFree, Loops, SendTopic
<1> QED
  BY <1>1, <1>2 DEF SendStep

LEMMA SocketsCaller ==
    ASSUME TypeOK, PlacesOK, SocketsOK, NEW a \in Callers,
           ConnectCall(a) \/ CallerStep(a) \/ \E t \in Topics : SubscribeCall(a, t)
    PROVE  SocketsOK'
<1>1. CASE ConnectCall(a)
  BY <1>1, ActorFacts DEF TypeOK, PlacesOK, SocketsOK, SocketOwned, MuFree, Loops, ConnectCall
<1>2. CASE ConnectLock(a)
  BY <1>2, ActorFacts DEF TypeOK, PlacesOK, SocketsOK, SocketOwned, MuFree, Loops, ConnectLock
<1>3. CASE DialFails(a)
  BY <1>3, ActorFacts DEF TypeOK, PlacesOK, SocketsOK, SocketOwned, MuFree, Loops, DialFails
<1>4. CASE StartLoops(a)
  BY <1>4, ActorFacts DEF TypeOK, PlacesOK, SocketsOK, SocketOwned, MuFree, Loops, StartLoops
<1>5. CASE SubscribeLock(a)
  BY <1>5, ActorFacts DEF TypeOK, PlacesOK, SocketsOK, SocketOwned, MuFree, Loops, SubscribeLock
<1>6. ASSUME NEW c \in Conns, ConnectDialed(a, c) PROVE SocketsOK'
  BY <1>6, ActorFacts DEF TypeOK, PlacesOK, SocketsOK, SocketOwned, MuFree, Loops, ConnectDialed, Establish, Fresh
<1>7. ASSUME NEW t \in Topics, SubscribeCall(a, t) PROVE SocketsOK'
  BY <1>7, ActorFacts DEF TypeOK, PlacesOK, SocketsOK, SocketOwned, MuFree, Loops, SubscribeCall
<1> QED
  BY <1>1, <1>2, <1>3, <1>4, <1>5, <1>6, <1>7, SocketsLoss, SocketsSend, ActorFacts DEF CallerStep

LEMMA SocketsReader ==
    ASSUME TypeOK, PlacesOK, SocketsOK, NEW c \in Conns, ReaderStep(c) \/ ReadFrame(c) \/ PeerBreaks(c)
    PROVE  SocketsOK'
<1>1. CASE ReadNext(c)
  BY <1>1, ActorFacts DEF TypeOK, PlacesOK, SocketsOK, SocketOwned, MuFree, Loops, ReadNext, ReaderExits
<1>2. CASE ReadFails(c)
  BY <1>2, ActorFacts DEF TypeOK, PlacesOK, SocketsOK, SocketOwned, MuFree, Loops, ReadFails, ReaderExits, PublishThen
<1>3. CASE ReadFrame(c)
  BY <1>3, ActorFacts DEF TypeOK, PlacesOK, SocketsOK, SocketOwned, MuFree, Loops, ReadFrame, ReaderExits
<1>4. CASE PeerBreaks(c)
  BY <1>4, ActorFacts DEF TypeOK, PlacesOK, SocketsOK, SocketOwned, MuFree, Loops, PeerBreaks
<1> QED
  BY <1>1, <1>2, <1>3, <1>4, SocketsLoss, ActorFacts DEF ReaderStep

LEMMA SocketsPing ==
    ASSUME TypeOK, PlacesOK, SocketsOK, PingTick \/ PingStep
    PROVE  SocketsOK'
<1>1. CASE PingTick
  BY <1>1, ActorFacts DEF TypeOK, PlacesOK, SocketsOK, SocketOwned, MuFree, Loops, PingTick, PublishThen
<1>2. CASE PingWritten
  BY <1>2, ActorFacts DEF TypeOK, PlacesOK, SocketsOK, SocketOwned, MuFree, Loops, PingWritten
<1>3. CASE PingFails
  BY <1>3, ActorFacts DEF TypeOK, PlacesOK, SocketsOK, SocketOwned, MuFree, Loops, PingFails, PublishThen
<1>4. CASE DropCurrent
  BY <1>4, ActorFacts DEF TypeOK, PlacesOK, SocketsOK, SocketOwned, MuFree, Loops, DropCurrent, Forget
<1>5. CASE LoopExits("ping")
  BY <1>5, ActorFacts DEF TypeOK, PlacesOK, SocketsOK, SocketOwned, MuFree, Loops, LoopExits
<1> QED
  BY <1>1, <1>2, <1>3, <1>4, <1>5, SocketsLoss, ActorFacts
     DEF PingStep

LEMMA SocketsReconnect ==
    ASSUME TypeOK, PlacesOK, SocketsOK, ReconnectStep
    PROVE  SocketsOK'
<1>1. CASE Wake
  BY <1>1, ActorFacts DEF TypeOK, PlacesOK, SocketsOK, SocketOwned, MuFree, Loops, Wake
<1>2. CASE TryReconnect
  BY <1>2, ActorFacts DEF TypeOK, PlacesOK, SocketsOK, SocketOwned, MuFree, Loops, TryReconnect
<1>3. CASE NextTopic
  BY <1>3, ActorFacts DEF TypeOK, PlacesOK, SocketsOK, SocketOwned, MuFree, Loops, NextTopic
<1>4. CASE ResubscribeTimeout
  BY <1>4, ActorFacts DEF TypeOK, PlacesOK, SocketsOK, SocketOwned, MuFree, Loops, ResubscribeTimeout
<1>5. CASE PublishReconnected
  BY <1>5, ActorFacts DEF TypeOK, PlacesOK, SocketsOK, SocketOwned, MuFree, Loops, PublishReconnected, PublishThen
<1>6. CASE Backoff
  BY <1>6, ActorFacts DEF TypeOK, PlacesOK, SocketsOK, SocketOwned, MuFree, Loops, Backoff
<1>7. CASE DialFails("reconnect")
  BY <1>7, ActorFacts DEF TypeOK, PlacesOK, SocketsOK, SocketOwned, MuFree, Loops, DialFails
<1>8. CASE LoopExits("reconnect")
  BY <1>8, ActorFacts DEF TypeOK, PlacesOK, SocketsOK, SocketOwned, MuFree, Loops, LoopExits
<1>9. ASSUME NEW c \in Conns, ReconnectDialed(c) PROVE SocketsOK'
  BY <1>9, ActorFacts DEF TypeOK, PlacesOK, SocketsOK, SocketOwned, MuFree, Loops, ReconnectDialed, Establish, Remembered, Fresh
<1> QED
  BY <1>1, <1>2, <1>3, <1>4, <1>5, <1>6, <1>7, <1>8, <1>9,
     SocketsLoss, SocketsSend, ActorFacts DEF ReconnectStep

LEMMA SocketsClose ==
    ASSUME TypeOK, PlacesOK, SocketsOK, CloseCall \/ CloseStep
    PROVE  SocketsOK'
<1>1. CASE CloseCall
  BY <1>1, ActorFacts DEF TypeOK, PlacesOK, SocketsOK, SocketOwned, MuFree, Loops, CloseCall
<1>2. CASE CloseLock
  BY <1>2, ActorFacts DEF TypeOK, PlacesOK, SocketsOK, SocketOwned, MuFree, Loops, CloseLock, Forget
<1>3. CASE CloseChannels
  BY <1>3, ActorFacts DEF TypeOK, PlacesOK, SocketsOK, SocketOwned, MuFree, Loops, CloseChannels
<1> QED
  BY <1>1, <1>2, <1>3, SocketsLoss, ActorFacts DEF CloseStep


LEMMA SocketsStep ==
    ASSUME TypeOK, PlacesOK, SocketsOK, [Next]_vars
    PROVE  SocketsOK'
<1>1. CASE UNCHANGED vars
  BY <1>1 DEF vars, SocketsOK, SocketOwned
<1>2. CASE Next
  BY <1>2, SocketsCaller, SocketsReader, SocketsPing, SocketsReconnect, SocketsClose
     DEF Next
<1> QED
  BY <1>1, <1>2



-----------------------------------------------------------------------------
(* Wake-ups *)


LEMMA WakeupLoss ==
    ASSUME TypeOK, PlacesOK, WakeupPending, NEW a \in Actors, LossStep(a)
    PROVE  WakeupPending'
<1>1. CASE Mark(a)
  BY <1>1, ActorFacts DEF TypeOK, PlacesOK, WakeupPending, LoopsStarted, CtxDone, ChansClosed, Retrying, WillTrigger, Loops, Mark, Forget
<1>2. CASE CloseSocket(a)
  BY <1>2, ActorFacts DEF TypeOK, PlacesOK, WakeupPending, LoopsStarted, CtxDone, ChansClosed, Retrying, WillTrigger, Loops, CloseSocket, AfterClose, AfterLoss
<1>3. CASE PublishDisconnected(a)
  BY <1>3, ActorFacts DEF TypeOK, PlacesOK, WakeupPending, LoopsStarted, CtxDone, ChansClosed, Retrying, WillTrigger, Loops, PublishDisconnected, PublishThen, AfterLoss
<1>4. CASE TriggerReconnect(a)
  BY <1>4, ActorFacts DEF TypeOK, PlacesOK, WakeupPending, LoopsStarted, CtxDone, ChansClosed, Retrying, WillTrigger, Loops, TriggerReconnect, Offer, Rest
<1> QED
  BY <1>1, <1>2, <1>3, <1>4 DEF LossStep

LEMMA WakeupSend ==
    ASSUME TypeOK, PlacesOK, WakeupPending, NEW a \in Callers \cup {"reconnect"}, SendStep(a)
    PROVE  WakeupPending'
<1>1. CASE SendFails(a)
  BY <1>1, ActorFacts DEF TypeOK, PlacesOK, WakeupPending, LoopsStarted, CtxDone, ChansClosed, Retrying, WillTrigger, Loops, SendFails, PublishThen
<1>2. ASSUME NEW t \in Topics, SendTopic(a, t) PROVE WakeupPending'
  BY <1>2, ActorFacts DEF TypeOK, PlacesOK, WakeupPending, LoopsStarted, CtxDone, ChansClosed, Retrying, WillTrigger, Loops, SendTopic
<1> QED
  BY <1>1, <1>2 DEF SendStep

LEMMA WakeupCaller ==
    ASSUME TypeOK, PlacesOK, WakeupPending, NEW a \in Callers,
           ConnectCall(a) \/ CallerStep(a) \/ \E t \in Topics : SubscribeCall(a, t)
    PROVE  WakeupPending'
<1>1. CASE ConnectCall(a)
  BY <1>1, ActorFacts DEF TypeOK, PlacesOK, WakeupPending, LoopsStarted, CtxDone, ChansClosed, Retrying, WillTrigger, Loops, ConnectCall
<1>2. CASE ConnectLock(a)
  BY <1>2, ActorFacts DEF TypeOK, PlacesOK, WakeupPending, LoopsStarted, CtxDone, ChansClosed, Retrying, WillTrigger, Loops, ConnectLock
<1>3. CASE DialFails(a)
  BY <1>3, ActorFacts DEF TypeOK, PlacesOK, WakeupPending, LoopsStarted, CtxDone, ChansClosed, Retrying, WillTrigger, Loops, DialFails
<1>4. CASE StartLoops(a)
  BY <1>4, ActorFacts DEF TypeOK, PlacesOK, WakeupPending, LoopsStarted, CtxDone, ChansClosed, Retrying, WillTrigger, Loops, StartLoops
<1>5. CASE SubscribeLock(a)
  BY <1>5, ActorFacts DEF TypeOK, PlacesOK, WakeupPending, LoopsStarted, CtxDone, ChansClosed, Retrying, WillTrigger, Loops, SubscribeLock
<1>6. ASSUME NEW c \in Conns, ConnectDialed(a, c) PROVE WakeupPending'
  BY <1>6, ActorFacts DEF TypeOK, PlacesOK, WakeupPending, LoopsStarted, CtxDone, ChansClosed, Retrying, WillTrigger, Loops, ConnectDialed, Establish
<1>7. ASSUME NEW t \in Topics, SubscribeCall(a, t) PROVE WakeupPending'
  BY <1>7, ActorFacts DEF TypeOK, PlacesOK, WakeupPending, LoopsStarted, CtxDone, ChansClosed, Retrying, WillTrigger, Loops, SubscribeCall
<1> QED
  BY <1>1, <1>2, <1>3, <1>4, <1>5, <1>6, <1>7, WakeupLoss, WakeupSend, ActorFacts DEF CallerStep

LEMMA WakeupReader ==
    ASSUME TypeOK, PlacesOK, WakeupPending, NEW c \in Conns, ReaderStep(c) \/ ReadFrame(c) \/ PeerBreaks(c)
    PROVE  WakeupPending'
<1>1. CASE ReadNext(c)
  BY <1>1, ActorFacts DEF TypeOK, PlacesOK, WakeupPending, LoopsStarted, CtxDone, ChansClosed, Retrying, WillTrigger, Loops, ReadNext, ReaderExits
<1>2. CASE ReadFails(c)
  BY <1>2, ActorFacts DEF TypeOK, PlacesOK, WakeupPending, LoopsStarted, CtxDone, ChansClosed, Retrying, WillTrigger, Loops, ReadFails, ReaderExits, PublishThen
<1>3. CASE ReadFrame(c)
  BY <1>3, ActorFacts DEF TypeOK, PlacesOK, WakeupPending, LoopsStarted, CtxDone, ChansClosed, Retrying, WillTrigger, Loops, ReadFrame, ReaderExits
<1>4. CASE PeerBreaks(c)
  BY <1>4, ActorFacts DEF TypeOK, PlacesOK, WakeupPending, LoopsStarted, CtxDone, ChansClosed, Retrying, WillTrigger, Loops, PeerBreaks
<1> QED
  BY <1>1, <1>2, <1>3, <1>4, WakeupLoss, ActorFacts DEF ReaderStep

LEMMA WakeupPing ==
    ASSUME TypeOK, PlacesOK, WakeupPending, PingTick \/ PingStep
    PROVE  WakeupPending'
<1>1. CASE PingTick
  BY <1>1, ActorFacts DEF TypeOK, PlacesOK, WakeupPending, LoopsStarted, CtxDone, ChansClosed, Retrying, WillTrigger, Loops, PingTick, PublishThen
<1>2. CASE PingWritten
  BY <1>2, ActorFacts DEF TypeOK, PlacesOK, WakeupPending, LoopsStarted, CtxDone, ChansClosed, Retrying, WillTrigger, Loops, PingWritten
<1>3. CASE PingFails
  BY <1>3, ActorFacts DEF TypeOK, PlacesOK, WakeupPending, LoopsStarted, CtxDone, ChansClosed, Retrying, WillTrigger, Loops, PingFails, PublishThen
<1>4. CASE DropCurrent
  BY <1>4, ActorFacts DEF TypeOK, PlacesOK, WakeupPending, LoopsStarted, CtxDone, ChansClosed, Retrying, WillTrigger, Loops, DropCurrent, Forget
<1>5. CASE LoopExits("ping")
  BY <1>5, ActorFacts DEF TypeOK, PlacesOK, WakeupPending, LoopsStarted, CtxDone, ChansClosed, Retrying, WillTrigger, Loops, LoopExits
<1> QED
  BY <1>1, <1>2, <1>3, <1>4, <1>5, WakeupLoss, ActorFacts
     DEF PingStep

LEMMA WakeupReconnect ==
    ASSUME TypeOK, PlacesOK, WakeupPending, ReconnectStep
    PROVE  WakeupPending'
<1>1. CASE Wake
  BY <1>1, ActorFacts DEF TypeOK, PlacesOK, WakeupPending, LoopsStarted, CtxDone, ChansClosed, Retrying, WillTrigger, Loops, Wake
<1>2. CASE TryReconnect
  BY <1>2, ActorFacts DEF TypeOK, PlacesOK, WakeupPending, LoopsStarted, CtxDone, ChansClosed, Retrying, WillTrigger, Loops, TryReconnect
<1>3. CASE NextTopic
  BY <1>3, ActorFacts DEF TypeOK, PlacesOK, WakeupPending, LoopsStarted, CtxDone, ChansClosed, Retrying, WillTrigger, Loops, NextTopic
<1>4. CASE ResubscribeTimeout
  BY <1>4, ActorFacts DEF TypeOK, PlacesOK, WakeupPending, LoopsStarted, CtxDone, ChansClosed, Retrying, WillTrigger, Loops, ResubscribeTimeout
<1>5. CASE PublishReconnected
  BY <1>5, ActorFacts DEF TypeOK, PlacesOK, WakeupPending, LoopsStarted, CtxDone, ChansClosed, Retrying, WillTrigger, Loops, PublishReconnected, PublishThen
<1>6. CASE Backoff
  BY <1>6, ActorFacts DEF TypeOK, PlacesOK, WakeupPending, LoopsStarted, CtxDone, ChansClosed, Retrying, WillTrigger, Loops, Backoff
<1>7. CASE DialFails("reconnect")
  BY <1>7, ActorFacts DEF TypeOK, PlacesOK, WakeupPending, LoopsStarted, CtxDone, ChansClosed, Retrying, WillTrigger, Loops, DialFails
<1>8. CASE LoopExits("reconnect")
  BY <1>8, ActorFacts DEF TypeOK, PlacesOK, WakeupPending, LoopsStarted, CtxDone, ChansClosed, Retrying, WillTrigger, Loops, LoopExits
<1>9. ASSUME NEW c \in Conns, ReconnectDialed(c) PROVE WakeupPending'
  BY <1>9, ActorFacts DEF TypeOK, PlacesOK, WakeupPending, LoopsStarted, CtxDone, ChansClosed, Retrying, WillTrigger, Loops, ReconnectDialed, Establish, Remembered
<1> QED
  BY <1>1, <1>2, <1>3, <1>4, <1>5, <1>6, <1>7, <1>8, <1>9,
     WakeupLoss, WakeupSend, ActorFacts DEF ReconnectStep

LEMMA WakeupClose ==
    ASSUME TypeOK, PlacesOK, WakeupPending, CloseCall \/ CloseStep
    PROVE  WakeupPending'
<1>1. CASE CloseCall
  BY <1>1, ActorFacts DEF TypeOK, PlacesOK, WakeupPending, LoopsStarted, CtxDone, ChansClosed, Retrying, WillTrigger, Loops, CloseCall
<1>2. CASE CloseLock
  BY <1>2, ActorFacts DEF TypeOK, PlacesOK, WakeupPending, LoopsStarted, CtxDone, ChansClosed, Retrying, WillTrigger, Loops, CloseLock, Forget
<1>3. CASE CloseChannels
  BY <1>3, ActorFacts DEF TypeOK, PlacesOK, WakeupPending, LoopsStarted, CtxDone, ChansClosed, Retrying, WillTrigger, Loops, CloseChannels
<1> QED
  BY <1>1, <1>2, <1>3, WakeupLoss, ActorFacts DEF CloseStep


LEMMA WakeupStep ==
    ASSUME TypeOK, PlacesOK, WakeupPending, [Next]_vars
    PROVE  WakeupPending'
<1>1. CASE UNCHANGED vars
  BY <1>1 DEF vars, WakeupPending, LoopsStarted, CtxDone, Retrying, WillTrigger
<1>2. CASE Next
  BY <1>2, WakeupCaller, WakeupReader, WakeupPing, WakeupReconnect, WakeupClose
     DEF Next
<1> QED
  BY <1>1, <1>2



-----------------------------------------------------------------------------
(* Announcing a loss *)

\* What a goroutine holds where it is about to use or give up a connection.
HeldOK ==
    \A a \in Actors :
        pc[a] \in {"loop", "read", "topics", "send", "mark"} => held[a] \in Conns


LEMMA HeldLoss ==
    ASSUME TypeOK, PlacesOK, SocketsOK, HeldOK, NEW a \in Actors, LossStep(a)
    PROVE  HeldOK'
<1>1. CASE Mark(a)
  BY <1>1, ActorFacts DEF TypeOK, PlacesOK, SocketsOK, HeldOK, Loops, Mark, Forget
<1>2. CASE CloseSocket(a)
  BY <1>2, ActorFacts DEF TypeOK, PlacesOK, SocketsOK, HeldOK, Loops, CloseSocket, AfterClose, AfterLoss
<1>3. CASE PublishDisconnected(a)
  BY <1>3, ActorFacts DEF TypeOK, PlacesOK, SocketsOK, HeldOK, Loops, PublishDisconnected, PublishThen, AfterLoss
<1>4. CASE TriggerReconnect(a)
  BY <1>4, ActorFacts DEF TypeOK, PlacesOK, SocketsOK, HeldOK, Loops, TriggerReconnect, Offer, Rest
<1> QED
  BY <1>1, <1>2, <1>3, <1>4 DEF LossStep

LEMMA HeldSend ==
    ASSUME TypeOK, PlacesOK, SocketsOK, HeldOK, NEW a \in Callers \cup {"reconnect"}, SendStep(a)
    PROVE  HeldOK'
<1>1. CASE SendFails(a)
  BY <1>1, ActorFacts DEF TypeOK, PlacesOK, SocketsOK, HeldOK, Loops, SendFails, PublishThen
<1>2. ASSUME NEW t \in Topics, SendTopic(a, t) PROVE HeldOK'
  BY <1>2, ActorFacts DEF TypeOK, PlacesOK, SocketsOK, HeldOK, Loops, SendTopic
<1> QED
  BY <1>1, <1>2 DEF SendStep

LEMMA HeldCaller ==
    ASSUME TypeOK, PlacesOK, SocketsOK, HeldOK, NEW a \in Callers,
           ConnectCall(a) \/ CallerStep(a) \/ \E t \in Topics : SubscribeCall(a, t)
    PROVE  HeldOK'
<1>1. CASE ConnectCall(a)
  BY <1>1, ActorFacts DEF TypeOK, PlacesOK, SocketsOK, HeldOK, Loops, ConnectCall
<1>2. CASE ConnectLock(a)
  BY <1>2, ActorFacts DEF TypeOK, PlacesOK, SocketsOK, HeldOK, Loops, ConnectLock
<1>3. CASE DialFails(a)
  BY <1>3, ActorFacts DEF TypeOK, PlacesOK, SocketsOK, HeldOK, Loops, DialFails
<1>4. CASE StartLoops(a)
  BY <1>4, ActorFacts DEF TypeOK, PlacesOK, SocketsOK, HeldOK, Loops, StartLoops
<1>5. CASE SubscribeLock(a)
  BY <1>5, ActorFacts DEF TypeOK, PlacesOK, SocketsOK, HeldOK, Loops, SubscribeLock
<1>6. ASSUME NEW c \in Conns, ConnectDialed(a, c) PROVE HeldOK'
  BY <1>6, ActorFacts DEF TypeOK, PlacesOK, SocketsOK, HeldOK, Loops, ConnectDialed, Establish
<1>7. ASSUME NEW t \in Topics, SubscribeCall(a, t) PROVE HeldOK'
  BY <1>7, ActorFacts DEF TypeOK, PlacesOK, SocketsOK, HeldOK, Loops, SubscribeCall
<1> QED
  BY <1>1, <1>2, <1>3, <1>4, <1>5, <1>6, <1>7, HeldLoss, HeldSend, ActorFacts DEF CallerStep

LEMMA HeldReader ==
    ASSUME TypeOK, PlacesOK, SocketsOK, HeldOK, NEW c \in Conns, ReaderStep(c) \/ ReadFrame(c) \/ PeerBreaks(c)
    PROVE  HeldOK'
<1>1. CASE ReadNext(c)
  BY <1>1, ActorFacts DEF TypeOK, PlacesOK, SocketsOK, HeldOK, Loops, ReadNext, ReaderExits
<1>2. CASE ReadFails(c)
  BY <1>2, ActorFacts DEF TypeOK, PlacesOK, SocketsOK, HeldOK, Loops, ReadFails, ReaderExits, PublishThen
<1>3. CASE ReadFrame(c)
  BY <1>3, ActorFacts DEF TypeOK, PlacesOK, SocketsOK, HeldOK, Loops, ReadFrame, ReaderExits
<1>4. CASE PeerBreaks(c)
  BY <1>4, ActorFacts DEF TypeOK, PlacesOK, SocketsOK, HeldOK, Loops, PeerBreaks
<1> QED
  BY <1>1, <1>2, <1>3, <1>4, HeldLoss, ActorFacts DEF ReaderStep

LEMMA HeldPing ==
    ASSUME TypeOK, PlacesOK, SocketsOK, HeldOK, PingTick \/ PingStep
    PROVE  HeldOK'
<1>1. CASE PingTick
  BY <1>1, ActorFacts DEF TypeOK, PlacesOK, SocketsOK, HeldOK, Loops, PingTick, PublishThen
<1>2. CASE PingWritten
  BY <1>2, ActorFacts DEF TypeOK, PlacesOK, SocketsOK, HeldOK, Loops, PingWritten
<1>3. CASE PingFails
  BY <1>3, ActorFacts DEF TypeOK, PlacesOK, SocketsOK, HeldOK, Loops, PingFails, PublishThen
<1>4. CASE DropCurrent
  BY <1>4, ActorFacts DEF TypeOK, PlacesOK, SocketsOK, HeldOK, Loops, DropCurrent, Forget
<1>5. CASE LoopExits("ping")
  BY <1>5, ActorFacts DEF TypeOK, PlacesOK, SocketsOK, HeldOK, Loops, LoopExits
<1> QED
  BY <1>1, <1>2, <1>3, <1>4, <1>5, HeldLoss, ActorFacts
     DEF PingStep

LEMMA HeldReconnect ==
    ASSUME TypeOK, PlacesOK, SocketsOK, HeldOK, ReconnectStep
    PROVE  HeldOK'
<1>1. CASE Wake
  BY <1>1, ActorFacts DEF TypeOK, PlacesOK, SocketsOK, HeldOK, Loops, Wake
<1>2. CASE TryReconnect
  BY <1>2, ActorFacts DEF TypeOK, PlacesOK, SocketsOK, HeldOK, Loops, TryReconnect
<1>3. CASE NextTopic
  BY <1>3, ActorFacts DEF TypeOK, PlacesOK, SocketsOK, HeldOK, Loops, NextTopic
<1>4. CASE ResubscribeTimeout
  BY <1>4, ActorFacts DEF TypeOK, PlacesOK, SocketsOK, HeldOK, Loops, ResubscribeTimeout
<1>5. CASE PublishReconnected
  BY <1>5, ActorFacts DEF TypeOK, PlacesOK, SocketsOK, HeldOK, Loops, PublishReconnected, PublishThen
<1>6. CASE Backoff
  BY <1>6, ActorFacts DEF TypeOK, PlacesOK, SocketsOK, HeldOK, Loops, Backoff
<1>7. CASE DialFails("reconnect")
  BY <1>7, ActorFacts DEF TypeOK, PlacesOK, SocketsOK, HeldOK, Loops, DialFails
<1>8. CASE LoopExits("reconnect")
  BY <1>8, ActorFacts DEF TypeOK, PlacesOK, SocketsOK, HeldOK, Loops, LoopExits
<1>9. ASSUME NEW c \in Conns, ReconnectDialed(c) PROVE HeldOK'
  BY <1>9, ActorFacts DEF TypeOK, PlacesOK, SocketsOK, HeldOK, Loops, ReconnectDialed, Establish, Remembered
<1> QED
  BY <1>1, <1>2, <1>3, <1>4, <1>5, <1>6, <1>7, <1>8, <1>9,
     HeldLoss, HeldSend, ActorFacts DEF ReconnectStep

LEMMA HeldClose ==
    ASSUME TypeOK, PlacesOK, SocketsOK, HeldOK, CloseCall \/ CloseStep
    PROVE  HeldOK'
<1>1. CASE CloseCall
  BY <1>1, ActorFacts DEF TypeOK, PlacesOK, SocketsOK, HeldOK, Loops, CloseCall
<1>2. CASE CloseLock
  BY <1>2, ActorFacts DEF TypeOK, PlacesOK, SocketsOK, HeldOK, Loops, CloseLock, Forget
<1>3. CASE CloseChannels
  BY <1>3, ActorFacts DEF TypeOK, PlacesOK, SocketsOK, HeldOK, Loops, CloseChannels
<1> QED
  BY <1>1, <1>2, <1>3, HeldLoss, ActorFacts DEF CloseStep


LEMMA HeldStep ==
    ASSUME TypeOK, PlacesOK, SocketsOK, HeldOK, [Next]_vars
    PROVE  HeldOK'
<1>1. CASE UNCHANGED vars
  BY <1>1 DEF vars, HeldOK
<1>2. CASE Next
  BY <1>2, HeldCaller, HeldReader, HeldPing, HeldReconnect, HeldClose
     DEF Next
<1> QED
  BY <1>1, <1>2


\* A goroutine that has still to announce a loss is the only one to hold that
\* connection for it, and nobody has announced it.
LossOK ==
    /\ conn \notin announced \/ conn = NoConn
    /\ \A a \in Actors : At(a, "publish") => a \in shouldPublish
    /\ \A a \in shouldPublish :
          /\ pc[a] \in {"close", "publish"}
          /\ held[a] \in Conns \ (announced \cup {conn})
    /\ \A a, b \in shouldPublish : held[a] = held[b] => a = b

LEMMA LostLoss ==
    ASSUME TypeOK, PlacesOK, SocketsOK, HeldOK, LossOK, NEW a \in Actors, LossStep(a)
    PROVE  LossOK'
<1>1. CASE Mark(a)
  BY <1>1, ActorFacts DEF TypeOK, PlacesOK, SocketsOK, HeldOK, LossOK, Loops, Mark, Forget, IsCurrent
<1>2. CASE CloseSocket(a)
  BY <1>2, ActorFacts DEF TypeOK, PlacesOK, SocketsOK, HeldOK, LossOK, Loops, CloseSocket, AfterClose, AfterLoss
<1>3. CASE PublishDisconnected(a)
  BY <1>3, ActorFacts DEF TypeOK, PlacesOK, SocketsOK, HeldOK, LossOK, Loops, PublishDisconnected, PublishThen, AfterLoss
<1>4. CASE TriggerReconnect(a)
  BY <1>4, ActorFacts DEF TypeOK, PlacesOK, SocketsOK, HeldOK, LossOK, Loops, TriggerReconnect, Offer, Rest
<1> QED
  BY <1>1, <1>2, <1>3, <1>4 DEF LossStep

LEMMA LostSend ==
    ASSUME TypeOK, PlacesOK, SocketsOK, HeldOK, LossOK, NEW a \in Callers \cup {"reconnect"}, SendStep(a)
    PROVE  LossOK'
<1>1. CASE SendFails(a)
  BY <1>1, ActorFacts DEF TypeOK, PlacesOK, SocketsOK, HeldOK, LossOK, Loops, SendFails, PublishThen
<1>2. ASSUME NEW t \in Topics, SendTopic(a, t) PROVE LossOK'
  BY <1>2, ActorFacts DEF TypeOK, PlacesOK, SocketsOK, HeldOK, LossOK, Loops, SendTopic
<1> QED
  BY <1>1, <1>2 DEF SendStep

LEMMA LostCaller ==
    ASSUME TypeOK, PlacesOK, SocketsOK, HeldOK, LossOK, NEW a \in Callers,
           ConnectCall(a) \/ CallerStep(a) \/ \E t \in Topics : SubscribeCall(a, t)
    PROVE  LossOK'
<1>1. CASE ConnectCall(a)
  BY <1>1, ActorFacts DEF TypeOK, PlacesOK, SocketsOK, HeldOK, LossOK, Loops, ConnectCall
<1>2. CASE ConnectLock(a)
  BY <1>2, ActorFacts DEF TypeOK, PlacesOK, SocketsOK, HeldOK, LossOK, Loops, ConnectLock
<1>3. CASE DialFails(a)
  BY <1>3, ActorFacts DEF TypeOK, PlacesOK, SocketsOK, HeldOK, LossOK, Loops, DialFails
<1>4. CASE StartLoops(a)
  BY <1>4, ActorFacts DEF TypeOK, PlacesOK, SocketsOK, HeldOK, LossOK, Loops, StartLoops
<1>5. CASE SubscribeLock(a)
  BY <1>5, ActorFacts DEF TypeOK, PlacesOK, SocketsOK, HeldOK, LossOK, Loops, SubscribeLock
<1>6. ASSUME NEW c \in Conns, ConnectDialed(a, c) PROVE LossOK'
  BY <1>6, ActorFacts DEF TypeOK, PlacesOK, SocketsOK, HeldOK, LossOK, Loops, ConnectDialed, Establish, Fresh
<1>7. ASSUME NEW t \in Topics, SubscribeCall(a, t) PROVE LossOK'
  BY <1>7, ActorFacts DEF TypeOK, PlacesOK, SocketsOK, HeldOK, LossOK, Loops, SubscribeCall
<1> QED
  BY <1>1, <1>2, <1>3, <1>4, <1>5, <1>6, <1>7, LostLoss, LostSend, ActorFacts DEF CallerStep

LEMMA LostReader ==
    ASSUME TypeOK, PlacesOK, SocketsOK, HeldOK, LossOK, NEW c \in Conns, ReaderStep(c) \/ ReadFrame(c) \/ PeerBreaks(c)
    PROVE  LossOK'
<1>1. CASE ReadNext(c)
  BY <1>1, ActorFacts DEF TypeOK, PlacesOK, SocketsOK, HeldOK, LossOK, Loops, ReadNext, ReaderExits
<1>2. CASE ReadFails(c)
  BY <1>2, ActorFacts DEF TypeOK, PlacesOK, SocketsOK, HeldOK, LossOK, Loops, ReadFails, ReaderExits, PublishThen
<1>3. CASE ReadFrame(c)
  BY <1>3, ActorFacts DEF TypeOK, PlacesOK, SocketsOK, HeldOK, LossOK, Loops, ReadFrame, ReaderExits
<1>4. CASE PeerBreaks(c)
  BY <1>4, ActorFacts DEF TypeOK, PlacesOK, SocketsOK, HeldOK, LossOK, Loops, PeerBreaks
<1> QED
  BY <1>1, <1>2, <1>3, <1>4, LostLoss, ActorFacts DEF ReaderStep

LEMMA LostPing ==
    ASSUME TypeOK, PlacesOK, SocketsOK, HeldOK, LossOK, PingTick \/ PingStep
    PROVE  LossOK'
<1>1. CASE PingTick
  BY <1>1, ActorFacts DEF TypeOK, PlacesOK, SocketsOK, HeldOK, LossOK, Loops, PingTick, PublishThen
<1>2. CASE PingWritten
  BY <1>2, ActorFacts DEF TypeOK, PlacesOK, SocketsOK, HeldOK, LossOK, Loops, PingWritten
<1>3. CASE PingFails
  BY <1>3, ActorFacts DEF TypeOK, PlacesOK, SocketsOK, HeldOK, LossOK, Loops, PingFails, PublishThen
<1>4. CASE DropCurrent
  BY <1>4, ActorFacts DEF TypeOK, PlacesOK, SocketsOK, HeldOK, LossOK, Loops, DropCurrent, Forget
<1>5. CASE LoopExits("ping")
  BY <1>5, ActorFacts DEF TypeOK, PlacesOK, SocketsOK, HeldOK, LossOK, Loops, LoopExits
<1> QED
  BY <1>1, <1>2, <1>3, <1>4, <1>5, LostLoss, ActorFacts
     DEF PingStep

LEMMA LostReconnect ==
    ASSUME TypeOK, PlacesOK, SocketsOK, HeldOK, LossOK, ReconnectStep
    PROVE  LossOK'
<1>1. CASE Wake
  BY <1>1, ActorFacts DEF TypeOK, PlacesOK, SocketsOK, HeldOK, LossOK, Loops, Wake
<1>2. CASE TryReconnect
  BY <1>2, ActorFacts DEF TypeOK, PlacesOK, SocketsOK, HeldOK, LossOK, Loops, TryReconnect
<1>3. CASE NextTopic
  BY <1>3, ActorFacts DEF TypeOK, PlacesOK, SocketsOK, HeldOK, LossOK, Loops, NextTopic
<1>4. CASE ResubscribeTimeout
  BY <1>4, ActorFacts DEF TypeOK, PlacesOK, SocketsOK, HeldOK, LossOK, Loops, ResubscribeTimeout
<1>5. CASE PublishReconnected
  BY <1>5, ActorFacts DEF TypeOK, PlacesOK, SocketsOK, HeldOK, LossOK, Loops, PublishReconnected, PublishThen
<1>6. CASE Backoff
  BY <1>6, ActorFacts DEF TypeOK, PlacesOK, SocketsOK, HeldOK, LossOK, Loops, Backoff
<1>7. CASE DialFails("reconnect")
  BY <1>7, ActorFacts DEF TypeOK, PlacesOK, SocketsOK, HeldOK, LossOK, Loops, DialFails
<1>8. CASE LoopExits("reconnect")
  BY <1>8, ActorFacts DEF TypeOK, PlacesOK, SocketsOK, HeldOK, LossOK, Loops, LoopExits
<1>9. ASSUME NEW c \in Conns, ReconnectDialed(c) PROVE LossOK'
  BY <1>9, ActorFacts DEF TypeOK, PlacesOK, SocketsOK, HeldOK, LossOK, Loops, ReconnectDialed, Establish, Remembered, Fresh
<1> QED
  BY <1>1, <1>2, <1>3, <1>4, <1>5, <1>6, <1>7, <1>8, <1>9,
     LostLoss, LostSend, ActorFacts DEF ReconnectStep

LEMMA LostClose ==
    ASSUME TypeOK, PlacesOK, SocketsOK, HeldOK, LossOK, CloseCall \/ CloseStep
    PROVE  LossOK'
<1>1. CASE CloseCall
  BY <1>1, ActorFacts DEF TypeOK, PlacesOK, SocketsOK, HeldOK, LossOK, Loops, CloseCall
<1>2. CASE CloseLock
  BY <1>2, ActorFacts DEF TypeOK, PlacesOK, SocketsOK, HeldOK, LossOK, Loops, CloseLock, Forget
<1>3. CASE CloseChannels
  BY <1>3, ActorFacts DEF TypeOK, PlacesOK, SocketsOK, HeldOK, LossOK, Loops, CloseChannels
<1> QED
  BY <1>1, <1>2, <1>3, LostLoss, ActorFacts DEF CloseStep


LEMMA LostStep ==
    ASSUME TypeOK, PlacesOK, SocketsOK, HeldOK, LossOK, [Next]_vars
    PROVE  LossOK'
<1>1. CASE UNCHANGED vars
  BY <1>1 DEF vars, LossOK
<1>2. CASE Next
  BY <1>2, LostCaller, LostReader, LostPing, LostReconnect, LostClose
     DEF Next
<1> QED
  BY <1>1, <1>2

-----------------------------------------------------------------------------
(* Remembered topics *)

\* A caller sends one topic at a time.
TopicsOK ==
    /\ TopicCoverage
    /\ \A a \in Callers :
          pc[a] \in {"subscribe", "send"} => \E t \in Topics : pending[a] = {t}


LEMMA TopicLoss ==
    ASSUME TypeOK, PlacesOK, SocketsOK, TopicsOK, NEW a \in Actors, LossStep(a)
    PROVE  TopicsOK'
<1>1. CASE Mark(a)
  BY <1>1, ActorFacts DEF TypeOK, PlacesOK, SocketsOK, TopicsOK, TopicCoverage, InHand, CtxDone, Loops, Mark, Forget, IsCurrent
<1>2. CASE CloseSocket(a)
  BY <1>2, ActorFacts DEF TypeOK, PlacesOK, SocketsOK, TopicsOK, TopicCoverage, InHand, CtxDone, Loops, CloseSocket, AfterClose, AfterLoss
<1>3. CASE PublishDisconnected(a)
  BY <1>3, ActorFacts DEF TypeOK, PlacesOK, SocketsOK, TopicsOK, TopicCoverage, InHand, CtxDone, Loops, PublishDisconnected, PublishThen, AfterLoss
<1>4. CASE TriggerReconnect(a)
  BY <1>4, ActorFacts DEF TypeOK, PlacesOK, SocketsOK, TopicsOK, TopicCoverage, InHand, CtxDone, Loops, TriggerReconnect, Offer, Rest
<1> QED
  BY <1>1, <1>2, <1>3, <1>4 DEF LossStep

LEMMA TopicSend ==
    ASSUME TypeOK, PlacesOK, SocketsOK, TopicsOK, NEW a \in Callers \cup {"reconnect"}, SendStep(a)
    PROVE  TopicsOK'
<1>1. CASE SendFails(a)
  BY <1>1, ActorFacts DEF TypeOK, PlacesOK, SocketsOK, TopicsOK, TopicCoverage, InHand, CtxDone, Loops, SendFails, PublishThen, ChansClosed
<1>2. ASSUME NEW t \in Topics, SendTopic(a, t) PROVE TopicsOK'
  BY <1>2, ActorFacts DEF TypeOK, PlacesOK, SocketsOK, TopicsOK, TopicCoverage, InHand, CtxDone, Loops, SendTopic
<1> QED
  BY <1>1, <1>2 DEF SendStep

LEMMA TopicCaller ==
    ASSUME TypeOK, PlacesOK, SocketsOK, TopicsOK, NEW a \in Callers,
           ConnectCall(a) \/ CallerStep(a) \/ \E t \in Topics : SubscribeCall(a, t)
    PROVE  TopicsOK'
<1>1. CASE ConnectCall(a)
  BY <1>1, ActorFacts DEF TypeOK, PlacesOK, SocketsOK, TopicsOK, TopicCoverage, InHand, CtxDone, Loops, ConnectCall
<1>2. CASE ConnectLock(a)
  BY <1>2, ActorFacts DEF TypeOK, PlacesOK, SocketsOK, TopicsOK, TopicCoverage, InHand, CtxDone, Loops, ConnectLock
<1>3. CASE DialFails(a)
  BY <1>3, ActorFacts DEF TypeOK, PlacesOK, SocketsOK, TopicsOK, TopicCoverage, InHand, CtxDone, Loops, DialFails
<1>4. CASE StartLoops(a)
  BY <1>4, ActorFacts DEF TypeOK, PlacesOK, SocketsOK, TopicsOK, TopicCoverage, InHand, CtxDone, Loops, StartLoops
<1>5. CASE SubscribeLock(a)
  BY <1>5, ActorFacts DEF TypeOK, PlacesOK, SocketsOK, TopicsOK, TopicCoverage, InHand, CtxDone, Loops, SubscribeLock
<1>6. ASSUME NEW c \in Conns, ConnectDialed(a, c) PROVE TopicsOK'
  BY <1>6, ActorFacts DEF TypeOK, PlacesOK, SocketsOK, TopicsOK, TopicCoverage, InHand, CtxDone, Loops, ConnectDialed, Establish, Fresh
<1>7. ASSUME NEW t \in Topics, SubscribeCall(a, t) PROVE TopicsOK'
  BY <1>7, ActorFacts DEF TypeOK, PlacesOK, SocketsOK, TopicsOK, TopicCoverage, InHand, CtxDone, Loops, SubscribeCall
<1> QED
  BY <1>1, <1>2, <1>3, <1>4, <1>5, <1>6, <1>7, TopicLoss, TopicSend, ActorFacts DEF CallerStep

LEMMA TopicReader ==
    ASSUME TypeOK, PlacesOK, SocketsOK, TopicsOK, NEW c \in Conns, ReaderStep(c) \/ ReadFrame(c) \/ PeerBreaks(c)
    PROVE  TopicsOK'
<1>1. CASE ReadNext(c)
  BY <1>1, ActorFacts DEF TypeOK, PlacesOK, SocketsOK, TopicsOK, TopicCoverage, InHand, CtxDone, Loops, ReadNext, ReaderExits
<1>2. CASE ReadFails(c)
  BY <1>2, ActorFacts DEF TypeOK, PlacesOK, SocketsOK, TopicsOK, TopicCoverage, InHand, CtxDone, Loops, ReadFails, ReaderExits, PublishThen
<1>3. CASE ReadFrame(c)
  BY <1>3, ActorFacts DEF TypeOK, PlacesOK, SocketsOK, TopicsOK, TopicCoverage, InHand, CtxDone, Loops, ReadFrame, ReaderExits
<1>4. CASE PeerBreaks(c)
  BY <1>4, ActorFacts DEF TypeOK, PlacesOK, SocketsOK, TopicsOK, TopicCoverage, InHand, CtxDone, Loops, PeerBreaks
<1> QED
  BY <1>1, <1>2, <1>3, <1>4, TopicLoss, ActorFacts DEF ReaderStep

LEMMA TopicPing ==
    ASSUME TypeOK, PlacesOK, SocketsOK, TopicsOK, PingTick \/ PingStep
    PROVE  TopicsOK'
<1>1. CASE PingTick
  BY <1>1, ActorFacts DEF TypeOK, PlacesOK, SocketsOK, TopicsOK, TopicCoverage, InHand, CtxDone, Loops, PingTick, PublishThen
<1>2. CASE PingWritten
  BY <1>2, ActorFacts DEF TypeOK, PlacesOK, SocketsOK, TopicsOK, TopicCoverage, InHand, CtxDone, Loops, PingWritten
<1>3. CASE PingFails
  BY <1>3, ActorFacts DEF TypeOK, PlacesOK, SocketsOK, TopicsOK, TopicCoverage, InHand, CtxDone, Loops, PingFails, PublishThen
<1>4. CASE DropCurrent
  BY <1>4, ActorFacts DEF TypeOK, PlacesOK, SocketsOK, TopicsOK, TopicCoverage, InHand, CtxDone, Loops, DropCurrent, Forget
<1>5. CASE LoopExits("ping")
  BY <1>5, ActorFacts DEF TypeOK, PlacesOK, SocketsOK, TopicsOK, TopicCoverage, InHand, CtxDone, Loops, LoopExits
<1> QED
  BY <1>1, <1>2, <1>3, <1>4, <1>5, TopicLoss, ActorFacts
     DEF PingStep

LEMMA TopicReconnect ==
    ASSUME TypeOK, PlacesOK, SocketsOK, TopicsOK, ReconnectStep
    PROVE  TopicsOK'
<1>1. CASE Wake
  BY <1>1, ActorFacts DEF TypeOK, PlacesOK, SocketsOK, TopicsOK, TopicCoverage, InHand, CtxDone, Loops, Wake
<1>2. CASE TryReconnect
  BY <1>2, ActorFacts DEF TypeOK, PlacesOK, SocketsOK, TopicsOK, TopicCoverage, InHand, CtxDone, Loops, TryReconnect
<1>3. CASE NextTopic
  BY <1>3, ActorFacts DEF TypeOK, PlacesOK, SocketsOK, TopicsOK, TopicCoverage, InHand, CtxDone, Loops, NextTopic
<1>4. CASE ResubscribeTimeout
  BY <1>4, ActorFacts DEF TypeOK, PlacesOK, SocketsOK, TopicsOK, TopicCoverage, InHand, CtxDone, Loops, ResubscribeTimeout
<1>5. CASE PublishReconnected
  BY <1>5, ActorFacts DEF TypeOK, PlacesOK, SocketsOK, TopicsOK, TopicCoverage, InHand, CtxDone, Loops, PublishReconnected, PublishThen, ChansClosed
<1>6. CASE Backoff
  BY <1>6, ActorFacts DEF TypeOK, PlacesOK, SocketsOK, TopicsOK, TopicCoverage, InHand, CtxDone, Loops, Backoff
<1>7. CASE DialFails("reconnect")
  BY <1>7, ActorFacts DEF TypeOK, PlacesOK, SocketsOK, TopicsOK, TopicCoverage, InHand, CtxDone, Loops, DialFails
<1>8. CASE LoopExits("reconnect")
  BY <1>8, ActorFacts DEF TypeOK, PlacesOK, SocketsOK, TopicsOK, TopicCoverage, InHand, CtxDone, Loops, LoopExits
<1>9. ASSUME NEW c \in Conns, ReconnectDialed(c) PROVE TopicsOK'
  BY <1>9, ActorFacts DEF TypeOK, PlacesOK, SocketsOK, TopicsOK, TopicCoverage, InHand, CtxDone, Loops, ReconnectDialed, Establish, Remembered, Fresh
<1> QED
  BY <1>1, <1>2, <1>3, <1>4, <1>5, <1>6, <1>7, <1>8, <1>9,
     TopicLoss, TopicSend, ActorFacts DEF ReconnectStep

LEMMA TopicClose ==
    ASSUME TypeOK, PlacesOK, SocketsOK, TopicsOK, CloseCall \/ CloseStep
    PROVE  TopicsOK'
<1>1. CASE CloseCall
  BY <1>1, ActorFacts DEF TypeOK, PlacesOK, SocketsOK, TopicsOK, TopicCoverage, InHand, CtxDone, Loops, CloseCall
<1>2. CASE CloseLock
  BY <1>2, ActorFacts DEF TypeOK, PlacesOK, SocketsOK, TopicsOK, TopicCoverage, InHand, CtxDone, Loops, CloseLock, Forget
<1>3. CASE CloseChannels
  BY <1>3, ActorFacts DEF TypeOK, PlacesOK, SocketsOK, TopicsOK, TopicCoverage, InHand, CtxDone, Loops, CloseChannels
<1> QED
  BY <1>1, <1>2, <1>3, TopicLoss, ActorFacts DEF CloseStep


LEMMA TopicStep ==
    ASSUME TypeOK, PlacesOK, SocketsOK, TopicsOK, [Next]_vars
    PROVE  TopicsOK'
<1>1. CASE UNCHANGED vars
  BY <1>1 DEF vars, TopicsOK, TopicCoverage, InHand, CtxDone
<1>2. CASE Next
  BY <1>2, TopicCaller, TopicReader, TopicPing, TopicReconnect, TopicClose
     DEF Next
<1> QED
  BY <1>1, <1>2



-----------------------------------------------------------------------------
(* The inductive invariant and what follows from it *)

IInv ==
    /\ TypeOK /\ PlacesOK /\ ChannelsOK /\ SocketsOK /\ WakeupPending
    /\ HeldOK /\ LossOK /\ TopicsOK

LEMMA InitIInv == Init => IInv
<1> SUFFICES ASSUME Init PROVE IInv
  OBVIOUS
<1>1. TypeOK
  BY TypeInit
<1>2. PlacesOK
  BY ActorFacts DEF Init, PlacesOK, Loops
<1>3. ChannelsOK
  BY ActorFacts DEF Init, ChannelsOK, LoopsNeverPanic, ChansClosed
<1>4. SocketsOK
  <2>1. \A a \in Actors : ~At(a, "dial")
    BY DEF Init
  <2>2. connected = FALSE /\ conn = NoConn /\ \A c \in Conns : sock[c] = "closed"
    BY DEF Init
  <2> QED
    BY <2>1, <2>2 DEF SocketsOK, SocketOwned
<1>5. WakeupPending
  <2>1. ~LoopsStarted
    BY ActorFacts DEF Init, LoopsStarted
  <2> QED
    BY <2>1 DEF WakeupPending
<1>6. HeldOK
  BY DEF Init, HeldOK
<1>7. LossOK
  BY DEF Init, LossOK
<1>8. TopicsOK
  BY ActorFacts DEF Init, TopicsOK, TopicCoverage
<1> QED
  BY <1>1, <1>2, <1>3, <1>4, <1>5, <1>6, <1>7, <1>8 DEF IInv

LEMMA NextIInv == IInv /\ [Next]_vars => IInv'
<1> SUFFICES ASSUME IInv, [Next]_vars PROVE IInv'
  OBVIOUS
<1>1. /\ TypeOK /\ PlacesOK /\ ChannelsOK /\ SocketsOK /\ WakeupPending
      /\ HeldOK /\ LossOK /\ TopicsOK
  BY DEF IInv
<1>2. TypeOK' /\ PlacesOK' /\ ChannelsOK'
  BY <1>1, TypeStep, PlacesStep, ChannelsStep
<1>3. SocketsOK' /\ WakeupPending' /\ HeldOK'
  BY <1>1, SocketsStep, WakeupStep, HeldStep
<1>4. LossOK' /\ TopicsOK'
  BY <1>1, LostStep, TopicStep
<1> QED
  BY <1>2, <1>3, <1>4 DEF IInv

LEMMA Inductive == Spec => []IInv
BY InitIInv, NextIInv, PTL DEF Spec

\* Every reachable state of the client is well typed; in particular at most
\* one wake-up is ever buffered in reconnectCh.
THEOREM TypeInvariant == Spec => []TypeOK
<1>1. IInv => TypeOK
  BY DEF IInv
<1> QED
  BY <1>1, Inductive, PTL

\* No wake-up of the reconnect loop is lost, for any number of goroutines
\* failing on any number of connections at the same time: the single slot of
\* reconnectCh is enough.
THEOREM NoLostWakeup == Spec => []WakeupPending
<1>1. IInv => WakeupPending
  BY DEF IInv
<1> QED
  BY <1>1, Inductive, PTL

\* markDisconnected, disconnectCurrent, Close and the dials, in any order,
\* leave no open stream that neither is current nor is about to be closed.
THEOREM NoLeakedSocket == Spec => []SocketOwned
<1>1. IInv => SocketOwned
  BY DEF IInv, SocketsOK
<1> QED
  BY <1>1, Inductive, PTL

\* However many goroutines notice it, a lost connection is announced once.
THEOREM LossAnnouncedOnce == Spec => []AnnouncedOnce
<1>1. IInv => AnnouncedOnce
  BY DEF IInv, LossOK, AnnouncedOnce
<1> QED
  BY <1>1, Inductive, PTL

\* The WaitGroup keeps the loops and readers off the closed channels.
THEOREM LoopsSafeFromClose == Spec => []LoopsNeverPanic
<1>1. IInv => LoopsNeverPanic
  BY DEF IInv, ChannelsOK
<1> QED
  BY <1>1, Inductive, PTL

\* A topic remembered by Subscribe survives every reconnection.
THEOREM TopicsSurviveReconnects == Spec => []TopicCoverage
<1>1. IInv => TopicCoverage
  BY DEF IInv, TopicsOK
<1> QED
  BY <1>1, Inductive, PTL
=============================================================================
