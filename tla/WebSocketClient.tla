---------------------------- MODULE WebSocketClient ----------------------------
(***************************************************************************)
(* The private-stream client of src/bybit/websocket_client.go: one mutex,  *)
(* one current connection, a reader goroutine per connection, a ping loop, *)
(* a reconnect loop woken through a channel of capacity one, and the       *)
(* goroutines of the callers of Connect, Subscribe and Close.              *)
(*                                                                         *)
(* A section under ws.mu is one action, except that the mutex is held      *)
(* across a dial, which takes time: "dial" is a state of its own and       *)
(* MuFree its exclusion.  Everything done outside ws.mu (closing a socket, *)
(* publishing, waking the reconnect loop, writing a frame) is a separate   *)
(* action, since any other goroutine may run in between.                   *)
(***************************************************************************)
EXTENDS Naturals

CONSTANTS
    Callers,   \* goroutines of the application that call the public methods
    Conns,     \* connection objects; each also names its reader goroutine
    Topics,    \* subscription topics
    NoConn     \* the nil *websocket.Conn

Loops == {"ping", "reconnect", "closer"}

ASSUME ActorsAreDistinct ==
    /\ Callers \cap Conns = {}
    /\ Loops \cap (Callers \cup Conns) = {}
    /\ NoConn \notin Conns

Actors == Callers \cup Conns \cup Loops

VARIABLES
    conn,           \* ws.conn
    connected,      \* ws.connected
    sock,           \* the TCP stream below each connection object
    reconnectCh,    \* number of wake-ups buffered in ws.reconnectCh
    subscriptions,  \* ws.subscriptions
    pc,             \* where each goroutine is
    held,           \* the local variable conn of each goroutine
    shouldPublish,  \* goroutines whose local shouldPublish is true
    pending,        \* topics a goroutine still has to send
    \* History, read by no guard:
    sent,           \* topics written to the current connection
    missed,         \* topics remembered but not resent when Connect dialled it
    announced       \* connections whose loss was published as Disconnected

vars == <<conn, connected, sock, reconnectCh, subscriptions, pc, held,
          shouldPublish, pending, sent, missed, announced>>
\* The current connection and what is known of it.
link == <<conn, connected, sent, missed>>

Labels == {"idle", "connect", "dial", "loops", "subscribe", "send", "panic",
           "loop", "read", "new", "select", "write", "drop", "done",
           "try", "topics", "backoff", "lock", "wait",
           "mark", "close", "publish", "trigger"}

TypeOK ==
    /\ conn \in Conns \cup {NoConn}
    /\ connected \in BOOLEAN
    /\ sock \in [Conns -> {"open", "broken", "closed"}]
    /\ reconnectCh \in 0..1
    /\ subscriptions \subseteq Topics
    /\ pc \in [Actors -> Labels]
    /\ held \in [Actors -> Conns \cup {NoConn}]
    /\ shouldPublish \subseteq Actors
    /\ pending \in [Actors -> SUBSET Topics]
    /\ sent \subseteq Topics
    /\ missed \subseteq Topics
    /\ announced \subseteq Conns \cup {NoConn}

Init ==
    /\ conn = NoConn
    /\ connected = FALSE
    /\ sock = [c \in Conns |-> "closed"]
    /\ reconnectCh = 0
    /\ subscriptions = {}
    /\ pc = [a \in Actors |-> IF a \in {"ping", "reconnect"} THEN "new" ELSE "idle"]
    /\ held = [a \in Actors |-> NoConn]
    /\ shouldPublish = {}
    /\ pending = [a \in Actors |-> {}]
    /\ sent = {}
    /\ missed = {}
    /\ announced = {}

-----------------------------------------------------------------------------
\* Close cancels ws.ctx while it holds the mutex and closes both channels last.
CtxDone == pc["closer"] \in {"close", "wait", "done"}
ChansClosed == pc["closer"] = "done"

\* ws.mu is held across connectLocked; every other holder is a single action.
MuFree == \A a \in Actors : pc[a] # "dial"

At(a, label) == pc[a] = label
Goto(a, label) == pc' = [pc EXCEPT ![a] = label]
Hold(a, c) == held' = [held EXCEPT ![a] = c]

\* publishStreamEvent never blocks, but a send on a closed channel panics.  A
\* select with ctx.Done ready as well picks either case.
PublishThen(a, label) == Goto(a, label) \/ (ChansClosed /\ Goto(a, "panic"))

\* Variant, for mutation: the channel is larger than one.
OfferUnbounded(n) == n + 1

\* Sending on a channel of capacity one, with a default case.
Offer(n) == IF n = 0 THEN 1 ELSE n

Rest(a) == IF a = "ping" THEN "select" ELSE "idle"

\* Variant, for mutation: triggerReconnect is not called.
WithoutTrigger(a) == CASE a = "reconnect" -> "backoff"
                       [] a = "closer"    -> "wait"
                       [] OTHER           -> Rest(a)

\* What a goroutine does once its failed connection is closed and announced.
AfterLoss(a) == CASE a = "reconnect" -> "backoff"
                  [] a = "closer"    -> "wait"
                  [] OTHER           -> "trigger"

\* A connection object nothing refers to any more stands for a new one.
Fresh(c) == /\ sock[c] = "closed"
            /\ pc[c] = "idle"
            /\ conn # c
            /\ \A a \in Actors : held[a] # c

\* Variant, for mutation: connectLocked does not add its reader.
WgWithoutReaders == pc["ping"] \in {"new", "done"} /\ pc["reconnect"] \in {"new", "done"}

\* sync.WaitGroup counts the readers, the ping loop and the reconnect loop.
WgZero == /\ \A c \in Conns : pc[c] = "idle"
          /\ pc["ping"] \in {"new", "done"}
          /\ pc["reconnect"] \in {"new", "done"}

-----------------------------------------------------------------------------
(* Connect *)

ConnectCall(a) ==
    /\ At(a, "idle") /\ ~CtxDone
    /\ Goto(a, "connect")
    /\ UNCHANGED <<link, sock, reconnectCh, subscriptions, held, shouldPublish,
                   pending, announced>>

ConnectLock(a) ==
    /\ At(a, "connect") /\ MuFree
    /\ Goto(a, IF connected THEN "idle" ELSE "dial")
    /\ UNCHANGED <<link, sock, reconnectCh, subscriptions, held, shouldPublish,
                   pending, announced>>

\* connectLocked succeeds: dialled, authenticated, reader started.
Establish(a, c, next) ==
    /\ Fresh(c)
    /\ conn' = c
    /\ connected' = TRUE
    /\ sock' = [sock EXCEPT ![c] = "open"]
    /\ pc' = [pc EXCEPT ![a] = next, ![c] = "loop"]
    /\ sent' = {}
    /\ announced' = announced \ {c}

\* The dial runs under the caller's context, so cancelling ws.ctx does not
\* stop it; no remembered topic is sent.
ConnectDialed(a, c) ==
    /\ At(a, "dial")
    /\ Establish(a, c, "loops")
    /\ held' = [held EXCEPT ![c] = c]
    /\ missed' = subscriptions
    /\ UNCHANGED <<reconnectCh, subscriptions, shouldPublish, pending>>

\* The dial or the authentication fails, for Connect and the reconnect loop.
DialFails(a) ==
    /\ At(a, "dial")
    /\ Goto(a, IF a = "reconnect" THEN "backoff" ELSE "idle")
    /\ UNCHANGED <<link, sock, reconnectCh, subscriptions, held, shouldPublish,
                   pending, announced>>

StartLoops(a) ==
    /\ At(a, "loops")
    /\ pc' = [b \in Actors |->
                CASE b = a                                    -> "idle"
                  [] b \in {"ping", "reconnect"} /\ At(b, "new") -> "select"
                  [] OTHER                                    -> pc[b]]
    /\ UNCHANGED <<link, sock, reconnectCh, subscriptions, held, shouldPublish,
                   pending, announced>>

-----------------------------------------------------------------------------
(* Subscribe, and the writes the reconnect loop shares with it *)

SubscribeCall(a, t) ==
    /\ At(a, "idle") /\ ~CtxDone
    /\ Goto(a, "subscribe")
    /\ pending' = [pending EXCEPT ![a] = {t}]
    /\ UNCHANGED <<link, sock, reconnectCh, subscriptions, held, shouldPublish,
                   announced>>

SubscribeLock(a) ==
    /\ At(a, "subscribe") /\ MuFree
    /\ subscriptions' = subscriptions \cup pending[a]
    /\ \/ /\ connected
          /\ Goto(a, "send")
          /\ Hold(a, conn)
          /\ UNCHANGED pending
       \/ /\ ~connected
          /\ Goto(a, "idle")
          /\ pending' = [pending EXCEPT ![a] = {}]
          /\ UNCHANGED held
    /\ UNCHANGED <<link, sock, reconnectCh, shouldPublish, announced>>

\* The frame is handed to the socket; a broken one may still accept it.
SendTopic(a, t) ==
    /\ At(a, "send") /\ t \in pending[a]
    /\ sock[held[a]] # "closed"
    /\ sent' = IF held[a] = conn THEN sent \cup {t} ELSE sent
    /\ pending' = [pending EXCEPT ![a] = @ \ {t}]
    /\ \/ a = "reconnect" /\ Goto(a, "topics") /\ UNCHANGED held
       \/ a # "reconnect" /\ Goto(a, "idle") /\ Hold(a, NoConn)
    /\ UNCHANGED <<conn, connected, missed, announced, sock, reconnectCh,
                   subscriptions, shouldPublish>>

\* The write fails and a Gap is published.
SendFails(a) ==
    /\ At(a, "send")
    /\ sock[held[a]] # "open"
    /\ PublishThen(a, "mark")
    /\ pending' = [pending EXCEPT ![a] = {}]
    /\ UNCHANGED <<link, sock, reconnectCh, subscriptions, held, shouldPublish,
                   announced>>

-----------------------------------------------------------------------------
(* Losing a connection: markDisconnected, disconnectCurrent, Close *)

\* Variant, for mutation: no identity check.
AnyConnection(a) == TRUE

\* markDisconnected gives up the current connection only if it is the one
\* that failed.
IsCurrent(a) == conn = held[a]

Forget == conn' = NoConn /\ connected' = FALSE /\ sent' = {} /\ missed' = {}

Mark(a) ==
    /\ At(a, "mark") /\ MuFree
    /\ Goto(a, "close")
    /\ \/ IsCurrent(a) /\ Forget /\ shouldPublish' = shouldPublish \cup {a}
       \/ ~IsCurrent(a) /\ UNCHANGED <<link, shouldPublish>>
    /\ UNCHANGED <<sock, reconnectCh, subscriptions, held, pending, announced>>

\* disconnectCurrent gives up whatever connection is current by now.
DropCurrent ==
    /\ At("ping", "drop") /\ MuFree
    /\ Goto("ping", "close")
    /\ Hold("ping", conn)
    /\ shouldPublish' = IF connected \/ conn # NoConn
                        THEN shouldPublish \cup {"ping"} ELSE shouldPublish
    /\ Forget
    /\ UNCHANGED <<sock, reconnectCh, subscriptions, pending, announced>>

\* Variant, for mutation: the connection is only forgotten.
LeftOpen(a) == sock

AfterClose(a) == [c \in Conns |-> IF c = held[a] THEN "closed" ELSE sock[c]]

CloseSocket(a) ==
    /\ At(a, "close")
    /\ sock' = AfterClose(a)
    /\ \/ a \in shouldPublish /\ Goto(a, "publish") /\ UNCHANGED held
       \/ a \notin shouldPublish /\ Goto(a, AfterLoss(a)) /\ Hold(a, NoConn)
    /\ UNCHANGED <<link, reconnectCh, subscriptions, shouldPublish, pending,
                   announced>>

PublishDisconnected(a) ==
    /\ At(a, "publish")
    /\ PublishThen(a, AfterLoss(a))
    /\ Hold(a, NoConn)
    /\ shouldPublish' = shouldPublish \ {a}
    /\ announced' = announced \cup {held[a]}
    /\ UNCHANGED <<link, sock, reconnectCh, subscriptions, pending>>

TriggerReconnect(a) ==
    /\ At(a, "trigger")
    /\ Goto(a, Rest(a))
    /\ \/ reconnectCh' = Offer(reconnectCh)
       \/ CtxDone /\ UNCHANGED reconnectCh
    /\ UNCHANGED <<link, sock, subscriptions, held, shouldPublish, pending,
                   announced>>

-----------------------------------------------------------------------------
(* readLoop(c) *)

\* A reader that leaves its loop drops its reference.
ReaderExits(c) == Goto(c, "idle") /\ Hold(c, NoConn)

ReadNext(c) ==
    /\ At(c, "loop")
    /\ \/ ~CtxDone /\ Goto(c, "read") /\ UNCHANGED held
       \/ CtxDone /\ ReaderExits(c)
    /\ UNCHANGED <<link, sock, reconnectCh, subscriptions, shouldPublish,
                   pending, announced>>

\* A frame arrives and is routed or dropped without blocking; frames already
\* buffered are still read from a closed connection.  The reader then checks
\* ws.ctx and reads on: only the case where it leaves changes the state.
ReadFrame(c) ==
    /\ At(c, "read") /\ CtxDone
    /\ ReaderExits(c)
    /\ UNCHANGED <<link, sock, reconnectCh, subscriptions, shouldPublish,
                   pending, announced>>

ReadFails(c) ==
    /\ At(c, "read") /\ sock[c] # "open"
    /\ \/ ~CtxDone /\ PublishThen(c, "mark") /\ UNCHANGED held
       \/ CtxDone /\ ReaderExits(c)
    /\ UNCHANGED <<link, sock, reconnectCh, subscriptions, shouldPublish,
                   pending, announced>>

-----------------------------------------------------------------------------
(* pingLoop *)

\* The first tick comes 20 seconds after the loop starts, when ctx.Done has
\* long been served if Close was over: hence no tick after ChansClosed.
PingTick ==
    /\ At("ping", "select") /\ ~ChansClosed /\ MuFree
    /\ \/ connected /\ Goto("ping", "write") /\ Hold("ping", conn)
       \/ ~connected /\ PublishThen("ping", "drop") /\ UNCHANGED held
    /\ UNCHANGED <<link, sock, reconnectCh, subscriptions, shouldPublish,
                   pending, announced>>

PingWritten ==
    /\ At("ping", "write") /\ sock[held["ping"]] # "closed"
    /\ Goto("ping", "select") /\ Hold("ping", NoConn)
    /\ UNCHANGED <<link, sock, reconnectCh, subscriptions, shouldPublish,
                   pending, announced>>

PingFails ==
    /\ At("ping", "write") /\ sock[held["ping"]] # "open"
    /\ PublishThen("ping", "drop") /\ Hold("ping", NoConn)
    /\ UNCHANGED <<link, sock, reconnectCh, subscriptions, shouldPublish,
                   pending, announced>>

\* Both loops leave their select when ws.ctx is done.
LoopExits(a) ==
    /\ At(a, "select") /\ CtxDone
    /\ Goto(a, "done")
    /\ UNCHANGED <<link, sock, reconnectCh, subscriptions, held, shouldPublish,
                   pending, announced>>

-----------------------------------------------------------------------------
(* reconnectLoop *)

Wake ==
    /\ At("reconnect", "select") /\ reconnectCh > 0
    /\ reconnectCh' = reconnectCh - 1
    /\ Goto("reconnect", "try")
    /\ UNCHANGED <<link, sock, subscriptions, held, shouldPublish, pending,
                   announced>>

TryReconnect ==
    /\ At("reconnect", "try") /\ MuFree
    /\ Goto("reconnect", IF connected THEN "select" ELSE "dial")
    /\ UNCHANGED <<link, sock, reconnectCh, subscriptions, held, shouldPublish,
                   pending, announced>>

\* Variant, for mutation: nothing is resent.
NoTopics == {}

\* The topics a reconnection resends, read in the section that dialled.
Remembered == subscriptions

\* This dial runs under a context derived from ws.ctx.
ReconnectDialed(c) ==
    /\ At("reconnect", "dial") /\ ~CtxDone
    /\ Establish("reconnect", c, "topics")
    /\ held' = [held EXCEPT !["reconnect"] = c, ![c] = c]
    /\ pending' = [pending EXCEPT !["reconnect"] = Remembered]
    /\ missed' = {}
    /\ UNCHANGED <<reconnectCh, subscriptions, shouldPublish>>

NextTopic ==
    /\ At("reconnect", "topics") /\ pending["reconnect"] # {} /\ ~CtxDone
    /\ Goto("reconnect", "send")
    /\ UNCHANGED <<link, sock, reconnectCh, subscriptions, held, shouldPublish,
                   pending, announced>>

\* The 30 seconds of the attempt, dial included, are over, or ws.ctx is done.
ResubscribeTimeout ==
    /\ At("reconnect", "topics") /\ pending["reconnect"] # {}
    /\ Goto("reconnect", "mark")
    /\ pending' = [pending EXCEPT !["reconnect"] = {}]
    /\ UNCHANGED <<link, sock, reconnectCh, subscriptions, held, shouldPublish,
                   announced>>

PublishReconnected ==
    /\ At("reconnect", "topics") /\ pending["reconnect"] = {}
    /\ PublishThen("reconnect", "select") /\ Hold("reconnect", NoConn)
    /\ UNCHANGED <<link, sock, reconnectCh, subscriptions, shouldPublish,
                   pending, announced>>

\* The delay doubles up to a maximum and never runs out.
Backoff ==
    /\ At("reconnect", "backoff")
    /\ Goto("reconnect", IF CtxDone THEN "select" ELSE "try")
    /\ UNCHANGED <<link, sock, reconnectCh, subscriptions, held, shouldPublish,
                   pending, announced>>

-----------------------------------------------------------------------------
(* Close, whose body runs once *)

CloseCall ==
    /\ At("closer", "idle")
    /\ Goto("closer", "lock")
    /\ UNCHANGED <<link, sock, reconnectCh, subscriptions, held, shouldPublish,
                   pending, announced>>

CloseLock ==
    /\ At("closer", "lock") /\ MuFree
    /\ Goto("closer", "close")
    /\ Hold("closer", conn)
    /\ Forget
    /\ UNCHANGED <<sock, reconnectCh, subscriptions, shouldPublish, pending,
                   announced>>

CloseChannels ==
    /\ At("closer", "wait") /\ WgZero
    /\ Goto("closer", "done")
    /\ UNCHANGED <<link, sock, reconnectCh, subscriptions, held, shouldPublish,
                   pending, announced>>

-----------------------------------------------------------------------------
\* Environment: a connection dies (peer, network, an expired deadline).
PeerBreaks(c) ==
    /\ sock[c] = "open"
    /\ sock' = [sock EXCEPT ![c] = "broken"]
    /\ UNCHANGED <<link, reconnectCh, subscriptions, pc, held, shouldPublish,
                   pending, announced>>

LossStep(a) ==
    \/ Mark(a) \/ CloseSocket(a) \/ PublishDisconnected(a) \/ TriggerReconnect(a)

SendStep(a) == SendFails(a) \/ \E t \in Topics : SendTopic(a, t)

CallerStep(a) ==
    \/ ConnectLock(a) \/ DialFails(a) \/ StartLoops(a) \/ SubscribeLock(a)
    \/ SendStep(a) \/ LossStep(a)
    \/ \E c \in Conns : ConnectDialed(a, c)

ReaderStep(c) == ReadNext(c) \/ ReadFails(c) \/ LossStep(c)

PingStep ==
    PingWritten \/ PingFails \/ DropCurrent \/ LoopExits("ping") \/ LossStep("ping")

ReconnectStep ==
    \/ Wake \/ TryReconnect \/ DialFails("reconnect") \/ NextTopic
    \/ SendStep("reconnect") \/ ResubscribeTimeout \/ PublishReconnected
    \/ Backoff \/ LoopExits("reconnect") \/ LossStep("reconnect")
    \/ \E c \in Conns : ReconnectDialed(c)

CloseStep == CloseLock \/ LossStep("closer") \/ CloseChannels

Next ==
    \/ \E a \in Callers : ConnectCall(a) \/ CallerStep(a)
    \/ \E a \in Callers, t \in Topics : SubscribeCall(a, t)
    \/ \E c \in Conns : ReaderStep(c) \/ ReadFrame(c) \/ PeerBreaks(c)
    \/ PingTick \/ PingStep
    \/ ReconnectStep
    \/ CloseCall \/ CloseStep

Spec == Init /\ [][Next]_vars
-----------------------------------------------------------------------------
(* Safety *)

LoopsStarted == \/ ~At("reconnect", "new")
                \/ \E a \in Callers : At(a, "loops")

\* The reconnect loop is on its way to another attempt.
Retrying == pc["reconnect"] \in {"try", "dial", "mark", "close", "publish", "backoff"}

\* A goroutine that lost the connection has yet to wake the reconnect loop.
WillTrigger == \E a \in Actors : pc[a] \in {"close", "publish", "trigger"}

\* No lost wake-up: while the client is disconnected and not closed, the
\* reconnect loop is retrying, or a token waits in reconnectCh, or a goroutine
\* is about to put one there.  markDisconnected unlocks before its caller calls
\* triggerReconnect, which drops the token when one is already buffered.
WakeupPending ==
    LoopsStarted /\ ~connected /\ ~CtxDone
        => reconnectCh > 0 \/ Retrying \/ WillTrigger

\* No leaked socket: every stream that is not closed belongs to the current
\* connection or is about to be closed by a goroutine that took it out of
\* ws.conn (markDisconnected, disconnectCurrent and Close all unlock first).
SocketOwned ==
    \A c \in Conns :
        sock[c] # "closed" =>
            conn = c \/ \E a \in Actors : At(a, "close") /\ held[a] = c

\* The loss of one connection is announced at most once, although its reader,
\* the ping loop, a subscriber and the reconnect loop may all detect it.
AnnouncedOnce ==
    \A a \in Actors : At(a, "publish") => held[a] \notin announced

\* A goroutine is going to write topic t to the current connection, or has
\* failed to and is about to give the connection up.
InHand(t) ==
    \E a \in Callers \cup {"reconnect"} :
        /\ held[a] = conn
        /\ \/ pc[a] \in {"send", "topics"} /\ t \in pending[a]
           \/ At(a, "mark")

\* Every remembered topic reaches the connection that replaces a lost one,
\* whatever the order of Subscribe, the failure and the reconnection; the
\* topics Connect does not resend are set apart in missed.
TopicCoverage ==
    connected /\ ~CtxDone =>
        \A t \in subscriptions \ missed : t \in sent \/ InHand(t)

\* The goroutines the WaitGroup counts never publish on a closed channel:
\* Close waits for them before it closes messages and events.
LoopsNeverPanic ==
    \A a \in Conns \cup {"ping", "reconnect"} : ~At(a, "panic")

\* Contradicted by the code, see the runs that expect a violation.
\* No goroutine, the callers of the package included, panics.
NeverPanics == \A a \in Actors : ~At(a, "panic")

\* Contradicted by the code.  A topic remembered by Subscribe is on the current
\* connection or on its way there.
RememberedTopicsCovered ==
    connected /\ ~CtxDone => \A t \in subscriptions : t \in sent \/ InHand(t)

\* Contradicted by the code.  Once Close is over and no call is running, no
\* connection is left open.
CloseLeavesNothingOpen ==
    ChansClosed /\ (\A a \in Callers : At(a, "idle")) =>
        conn = NoConn /\ \A c \in Conns : sock[c] = "closed"

-----------------------------------------------------------------------------
(* Refinement *)

\* What StreamLink calls the phase, told from where Close is.
Phase == IF ChansClosed THEN "ended" ELSE IF CtxDone THEN "closing" ELSE "open"

Link == INSTANCE StreamLink WITH
            up <- connected, remembered <- subscriptions, live <- sent,
            owed <- shouldPublish, phase <- Phase,
            Announcers <- Actors, Counted <- Conns \cup Loops

\* The client, with its reconnections, late failures and racing callers, is a
\* StreamLink: a connection is established only when there is none, given up
\* by one party that then owes the announcement, carries only topics that are
\* remembered, and the channels close when no goroutine of its own owes one.
ImplementsStreamLink == Link!Spec

-----------------------------------------------------------------------------
(* Liveness.  Every goroutine keeps running.  SF rather than WF because a    *)
(* goroutine may wait for ws.mu, whose waiters sync.Mutex does not starve,   *)
(* and because a dead connection has finitely many buffered frames.  Two     *)
(* choices are fair as well: a select with several ready cases picks one at  *)
(* random, and the network does not refuse the reconnect loop for ever.      *)
(* Nothing is assumed of new calls, of the ping ticker or of PeerBreaks.     *)

Fairness ==
    /\ \A a \in Callers : SF_vars(CallerStep(a))
    /\ \A c \in Conns : SF_vars(ReaderStep(c))
    /\ SF_vars(PingStep) /\ SF_vars(ReconnectStep) /\ SF_vars(CloseStep)
    /\ SF_vars(LoopExits("ping"))
    /\ SF_vars(\E c \in Conns : ReconnectDialed(c))

FairSpec == Spec /\ Fairness

\* After an outage the client is connected again, unless it is closed.
LinkRecovers ==
    (~At("reconnect", "new") /\ ~connected) ~> (connected \/ CtxDone)

\* Close ends once called, whatever the loops and the peers are doing.
CloseCompletes == At("closer", "lock") ~> ChansClosed

\* A remembered topic is sent on the connection as long as it stays up.
TopicsReachTheLink ==
    \A t \in Topics :
        (connected /\ t \in subscriptions \ missed)
            ~> (CtxDone \/ ~connected \/ t \in sent)
=============================================================================
