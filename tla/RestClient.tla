------------------------------- MODULE RestClient -------------------------------
(***************************************************************************)
(* The REST calls of src/bybit: the facade's IsConnected check, doRequest  *)
(* behind the rate limiter, the exchange, and the decoding of its replies  *)
(* in orders.go, orders_extended.go, positions.go, positions_extended.go,  *)
(* balance.go, symbols.go and permissions.go.                              *)
(*                                                                         *)
(* A call is used once; a retry is another call under the same client      *)
(* order identifier.  The client neither retries nor numbers its requests: *)
(* one that the caller gave up may still reach the exchange later.  The    *)
(* limiter is abstracted to granting or refusing (RateLimiter models it).  *)
(***************************************************************************)
EXTENDS FiniteSets

CONSTANTS
    Calls,        \* calls of the application, overlapping at will
    Links,        \* client order identifiers
    Orders,       \* places in the exchange's book: bounds the orders placed
    Positions,    \* symbols with a position
    Coins,        \* coins of the wallet
    Instruments,  \* tradable symbols
    Key,          \* the API key
    None

Things == Orders \cup Positions \cup Coins \cup Instruments \cup {Key}

ASSUME KindsOfThings ==
    /\ None \notin Calls \cup Links \cup Things
    /\ Orders \cap (Positions \cup Coins \cup Instruments) = {}
    /\ Positions \cap (Coins \cup Instruments) = {}
    /\ Coins \cap Instruments = {}
    /\ Key \notin Orders \cup Positions \cup Coins \cup Instruments

\* What the exchange says of a thing.  "Zero" stands for an amount of zero;
\* "Other" for the words the code does not list.  An order may have such a word
\* while it is to come, and another, "OtherFinal", when it is over.
Unlisted == {"Other", "OtherFinal"}
OrderWords == {"Absent", "New", "PartiallyFilled", "Filled", "Cancelled", "Rejected"}
              \cup Unlisted
PositionWords == {"Zero", "Buy", "Sell"}
CoinWords == {"Zero", "Some"}
InstrumentWords == {"Trading", "Closed", "Delivering", "Other"}
KeyWords == {"ReadOnly", "NoTrade", "Trade"}
Words == OrderWords \cup PositionWords \cup CoinWords \cup InstrumentWords \cup KeyWords

WordsOf(x) == CASE x \in Orders    -> OrderWords
                [] x \in Positions -> PositionWords
                [] x \in Coins     -> CoinWords
                [] x = Key         -> KeyWords
                [] OTHER           -> InstrumentWords

\* What the client says of it.
Statuses == {"Pending", "Submitted", "Partial", "Filled", "Canceled", "Rejected",
             "Long", "Short", "Flat", "Some", "Zero",
             "Trading", "Suspended", "Maintenance", "Sufficient", "Insufficient"}

Requests ==
    [kind : {"create"}, of : Links]
    \cup [kind : {"cancel", "query"}, of : Orders]
    \cup [kind : {"position"}, of : Positions]
    \cup [kind : {"symbol"}, of : Instruments]
    \cup [kind : {"permissions"}, of : {Key}]
    \cup [kind : {"open", "positions", "balance", "refresh"}, of : {None}]

ASSUME NoneIsNoRequest == None \notin Requests

\* The things a request asks about.
Scope(r) == CASE r.kind \in {"create", "refresh"} -> {}
              [] r.kind = "open"                   -> Orders
              [] r.kind = "positions"              -> Positions
              [] r.kind = "balance"                -> Coins
              [] OTHER                             -> {r.of}

VARIABLES
    pc,         \* where each call is: new, wait, sent, back, done
    req,        \* what each call asks
    wire,       \* the HTTP exchange of each call: none, request, reply
    reply,      \* the body of the reply on the wire
    answer,     \* what each call returned
    world,      \* what the exchange would say of each thing now
    maker,      \* the call that placed an order, None for an older order
    link,       \* the orderLinkId the exchange keeps with an order
    \* History, read by no guard:
    seen        \* what was true of each thing in scope while a request ran

vars == <<pc, req, wire, reply, answer, world, maker, link, seen>>
exchange == <<world, maker, link>>

NoList == [x \in {} |-> None]
NoReply == [code |-> "none", list |-> NoList]
NoAnswer == [result |-> "none", list |-> NoList]
Unseen == [x \in Things |-> {}]

\* Which decimal of an element of a reply is malformed: none, the required
\* amount, or another.
Marks == {"no", "amount", "other"}

\* The replies and the answers there may be.
ReplyTyped(r) ==
    /\ r.code \in {"none", "ok", "refused"}
    /\ \A x \in DOMAIN r.list : x \in Things /\ r.list[x] \in [word : WordsOf(x), bad : Marks]
AnswerTyped(a) ==
    /\ a.result \in {"none", "ok", "unsent", "refused", "doubt", "absent", "malformed"}
    /\ \A x \in DOMAIN a.list : x \in Things /\ a.list[x] \in Statuses

TypeOK ==
    /\ pc \in [Calls -> {"new", "wait", "sent", "back", "done"}]
    /\ req \in [Calls -> Requests \cup {None}]
    /\ wire \in [Calls -> {"none", "request", "reply"}]
    /\ DOMAIN reply = Calls /\ DOMAIN answer = Calls
    /\ \A c \in Calls : ReplyTyped(reply[c]) /\ AnswerTyped(answer[c])
    /\ world \in [Things -> Words] /\ \A x \in Things : world[x] \in WordsOf(x)
    /\ maker \in [Orders -> Calls \cup {None}]
    /\ link \in [Orders -> Links \cup {None}]
    /\ seen \in [Calls -> [Things -> SUBSET Words]]

\* The account may hold orders, positions and coins from before.
Init ==
    /\ pc = [c \in Calls |-> "new"]
    /\ req = [c \in Calls |-> None]
    /\ wire = [c \in Calls |-> "none"]
    /\ reply = [c \in Calls |-> NoReply]
    /\ answer = [c \in Calls |-> NoAnswer]
    /\ \E ord \in [Orders -> OrderWords], pos \in [Positions -> PositionWords],
          coin \in [Coins -> CoinWords], ins \in [Instruments -> InstrumentWords],
          key \in KeyWords :
        world = [x \in Things |-> CASE x \in Orders    -> ord[x]
                                    [] x \in Positions -> pos[x]
                                    [] x \in Coins     -> coin[x]
                                    [] x = Key         -> key
                                    [] OTHER           -> ins[x]]
    /\ maker = [o \in Orders |-> None]
    /\ link = [o \in Orders |-> None]
    /\ seen = [c \in Calls |-> Unseen]

-----------------------------------------------------------------------------
(* Conversions *)

\* Variant, for mutation: an unlisted word is passed on.
UnmapWithoutDefault(s) ==
    CASE s = "New"             -> "Submitted"
      [] s = "PartiallyFilled" -> "Partial"
      [] s = "Filled"          -> "Filled"
      [] s = "Cancelled"       -> "Canceled"
      [] s = "Rejected"        -> "Rejected"
      [] OTHER                 -> s

\* Variant, for mutation: one final status is not listed.
UnmapWithoutRejected(s) ==
    CASE s = "New"             -> "Submitted"
      [] s = "PartiallyFilled" -> "Partial"
      [] s = "Filled"          -> "Filled"
      [] s = "Cancelled"       -> "Canceled"
      [] OTHER                 -> "Pending"

unmapOrderStatus(s) ==
    CASE s = "New"             -> "Submitted"
      [] s = "PartiallyFilled" -> "Partial"
      [] s = "Filled"          -> "Filled"
      [] s = "Cancelled"       -> "Canceled"
      [] s = "Rejected"        -> "Rejected"
      [] OTHER                 -> "Pending"

unmapPositionSide(s) ==
    CASE s = "Buy"  -> "Long"
      [] s = "Sell" -> "Short"
      [] OTHER      -> "Flat"

unmapSymbolStatus(s) ==
    CASE s = "Trading"    -> "Trading"
      [] s = "Delivering" -> "Maintenance"
      [] OTHER            -> "Suspended"

\* A key is sufficient if it is not read-only and lists a trade permission.
IsSufficientForTrading(s) == IF s = "Trade" THEN "Sufficient" ELSE "Insufficient"

Unmap(x, s) == CASE x \in Orders      -> unmapOrderStatus(s)
                 [] x \in Positions   -> unmapPositionSide(s)
                 [] x \in Instruments -> unmapSymbolStatus(s)
                 [] x = Key           -> IsSufficientForTrading(s)
                 [] OTHER             -> s

-----------------------------------------------------------------------------
(* What each method returns for the reply r to its request. *)

Ok(list) == [result |-> "ok", list |-> list]
Err(e) == [result |-> e, list |-> NoList]

\* What the decoder holds of an element: parseRequiredDecimal returns zero
\* beside its error, which must not be taken for the amount.
Parsed(x, e) == IF x \in Positions \cup Coins /\ e.bad = "amount" THEN "Zero" ELSE e.word

\* Variant, for mutation: errors of the decimal parser are ignored.
NoneBad(r) == {}

\* Elements with a malformed decimal, and those whose required one it is.
BadDecimals(r) == {x \in DOMAIN r.list : r.list[x].bad # "no"}
BadAmounts(r) == {x \in BadDecimals(r) : r.list[x].bad = "amount"}

NonZero(r) == {x \in DOMAIN r.list : Parsed(x, r.list[x]) # "Zero"}
Converted(r, kept) == Ok([x \in kept |-> Unmap(x, Parsed(x, r.list[x]))])

QueryOrder(r) ==
    IF DOMAIN r.list = {} THEN Err("absent")
    ELSE IF BadDecimals(r) # {} THEN Err("malformed")
    ELSE Converted(r, DOMAIN r.list)

\* Variant, for mutation: a partly filled order is not open.
OnlySubmitted == {"Submitted"}

OpenStatuses == {"Submitted", "Partial"}

\* Orders that are not active are dropped before their decimals are looked at.
GetOpenOrders(r) ==
    LET active == {x \in DOMAIN r.list : unmapOrderStatus(r.list[x].word) \in OpenStatuses}
    IN  IF BadDecimals(r) \cap active # {} THEN Err("malformed") ELSE Converted(r, active)

\* No position is a flat one.
GetPosition(p, r) ==
    IF DOMAIN r.list = {} THEN Ok([x \in {p} |-> "Flat"])
    ELSE IF BadDecimals(r) # {} THEN Err("malformed")
    ELSE Converted(r, DOMAIN r.list)

\* Flat positions are dropped once their size is known.
GetPositions(r) ==
    IF BadAmounts(r) \cup (BadDecimals(r) \cap NonZero(r)) # {} THEN Err("malformed")
    ELSE Converted(r, NonZero(r))

\* Zero balances are dropped when all three amounts are known.
GetBalance(r) ==
    IF BadDecimals(r) # {} THEN Err("malformed") ELSE Converted(r, NonZero(r))

GetSymbol(r) ==
    IF DOMAIN r.list = {} THEN Err("absent")
    ELSE IF BadDecimals(r) # {} THEN Err("malformed")
    ELSE Converted(r, DOMAIN r.list)

CheckPermissions(r) == Converted(r, DOMAIN r.list)

\* Variant, for mutation: retCode is not looked at.
AnyCode(r) == TRUE

\* Every method returns an error unless retCode is zero.  Of what SubmitOrder,
\* CancelOrder and RefreshSymbols then return the properties tell nothing apart.
Accepted(r) == r.code = "ok"

Decode(q, r) ==
    IF ~Accepted(r) THEN Err("refused")
    ELSE CASE q.kind \in {"create", "cancel", "refresh"} -> Ok(NoList)
           [] q.kind = "query"       -> QueryOrder(r)
           [] q.kind = "open"        -> GetOpenOrders(r)
           [] q.kind = "position"    -> GetPosition(q.of, r)
           [] q.kind = "positions"   -> GetPositions(r)
           [] q.kind = "balance"     -> GetBalance(r)
           [] q.kind = "permissions" -> CheckPermissions(r)
           [] OTHER                  -> GetSymbol(r)

-----------------------------------------------------------------------------
(* The client *)

Goto(c, label) == pc' = [pc EXCEPT ![c] = label]
Return(c, a) == Goto(c, "back") /\ answer' = [answer EXCEPT ![c] = a]

\* The facade's flag is the subject of Connector: it may be set or not when a
\* call looks at it, and a call past its check is not stopped by Disconnect.
\* CheckPermissions, which Connect calls, does not look at it.
Call(c, r) ==
    /\ pc[c] = "new"
    /\ Goto(c, "wait")
    /\ req' = [req EXCEPT ![c] = r]
    /\ UNCHANGED <<wire, reply, answer, exchange, seen>>

CallRefused(c, r) ==
    /\ pc[c] = "new" /\ r.kind # "permissions"
    /\ Return(c, Err("unsent"))
    /\ req' = [req EXCEPT ![c] = r]
    /\ UNCHANGED <<wire, reply, exchange, seen>>

\* doRequest: the limiter refuses, its context being done or itself stopped.
LimiterRefuses(c) ==
    /\ pc[c] = "wait"
    /\ Return(c, Err("unsent"))
    /\ UNCHANGED <<req, wire, reply, exchange, seen>>

LimiterGrants(c) ==
    /\ pc[c] = "wait"
    /\ Goto(c, "sent")
    /\ wire' = [wire EXCEPT ![c] = "request"]
    /\ seen' = [seen EXCEPT ![c] = [x \in Things |->
                    IF x \in Scope(req[c]) THEN {world[x]} ELSE {}]]
    /\ UNCHANGED <<req, reply, answer, exchange>>

\* Variant, for mutation: a failed exchange counts as a request never made.
AsUnsent == "unsent"

\* What an error of httpClient.Do, of io.ReadAll or of json.Unmarshal tells.
Unknown == "doubt"

\* The dial, the write, the read or the body fails, or time is up.  Whether
\* the exchange has got the request, or still will, is not known.
RequestFails(c) ==
    /\ pc[c] = "sent"
    /\ Return(c, Err(Unknown))
    /\ wire' = [wire EXCEPT ![c] = IF @ = "reply" THEN "none" ELSE @]
    /\ reply' = [reply EXCEPT ![c] = NoReply]
    /\ UNCHANGED <<req, exchange, seen>>

Receive(c) ==
    /\ pc[c] = "sent" /\ wire[c] = "reply"
    /\ Return(c, Decode(req[c], reply[c]))
    /\ wire' = [wire EXCEPT ![c] = "none"]
    /\ reply' = [reply EXCEPT ![c] = NoReply]
    /\ UNCHANGED <<req, exchange, seen>>

\* The caller has used the answer: only the outcome of an order is kept.
Finish(c) ==
    /\ pc[c] = "back"
    /\ Goto(c, "done")
    /\ answer' = [answer EXCEPT ![c] =
                    IF req[c].kind = "create" THEN @ ELSE NoAnswer]
    /\ req' = [req EXCEPT ![c] = IF @.kind = "create" \/ wire[c] = "request" THEN @ ELSE None]
    /\ seen' = [seen EXCEPT ![c] = Unseen]
    /\ UNCHANGED <<wire, reply, exchange>>

-----------------------------------------------------------------------------
(* The exchange, external.  It refuses an orderLinkId it knows, answers with *)
(* what is true when it handles the request, and changes as it likes.        *)

\* Variant, for mutation: the request carries no orderLinkId.
NoLink(r) == None

\* The orderLinkId of the request body.
OrderLinkId(r) == r.of

Active == {"New", "PartiallyFilled"}
Final == {"Filled", "Cancelled", "Rejected", "OtherFinal"}

\* The reply of a call whose caller has gone reaches nobody.
Respond(c, r) ==
    /\ wire' = [wire EXCEPT ![c] = IF pc[c] = "sent" THEN "reply" ELSE "none"]
    /\ reply' = [reply EXCEPT ![c] = IF pc[c] = "sent" THEN r ELSE @]
    /\ UNCHANGED <<pc, req, answer>>

Refuse(c) ==
    /\ wire[c] = "request"
    /\ Respond(c, [code |-> "refused", list |-> NoList])
    /\ UNCHANGED <<exchange, seen>>

\* Every running call is shown the world w.
Show(w) == seen' = [c \in Calls |-> [x \in Things |->
                        IF pc[c] = "sent" /\ x \in Scope(req[c])
                        THEN seen[c][x] \cup {w[x]} ELSE seen[c][x]]]

PlaceOrder(c, o) ==
    /\ wire[c] = "request" /\ req[c].kind = "create"
    /\ world[o] = "Absent" /\ maker[o] = None
    /\ OrderLinkId(req[c]) # None => \A p \in Orders : link[p] # OrderLinkId(req[c])
    /\ Respond(c, [code |-> "ok", list |-> NoList])
    /\ maker' = [maker EXCEPT ![o] = c]
    /\ link' = [link EXCEPT ![o] = OrderLinkId(req[c])]
    /\ \E s \in {"Other", "New", "Rejected"} : world' = [world EXCEPT ![o] = s]
    /\ Show(world')

\* The order will be cancelled, or filled before that.
TakeCancel(c) ==
    /\ wire[c] = "request" /\ req[c].kind = "cancel"
    /\ world[req[c].of] \in Active
    /\ Respond(c, [code |-> "ok", list |-> NoList])
    /\ UNCHANGED <<exchange, seen>>

\* Things of amount zero may be left out of a list.
List(c) ==
    /\ wire[c] = "request" /\ req[c].kind \notin {"create", "cancel"}
    /\ LET there == {x \in Scope(req[c]) : world[x] # "Absent"} IN
       \E S \in SUBSET there :
         /\ \A x \in there \ S : world[x] = "Zero"
         /\ \E bad \in [S -> Marks] :
              Respond(c, [code |-> "ok",
                          list |-> [x \in S |-> [word |-> world[x], bad |-> bad[x]]]])
    /\ UNCHANGED <<exchange, seen>>

OrderMoves(o) ==
    /\ \E s \in Active \cup Final :
         /\ \/ world[o] = "Other"
            \/ world[o] = "New" /\ s # "New"
            \/ world[o] = "PartiallyFilled" /\ s \in Final \ {"Rejected"}
         /\ world' = [world EXCEPT ![o] = s]
    /\ Show(world')
    /\ UNCHANGED <<pc, req, wire, reply, answer, maker, link>>

AccountMoves(x) ==
    /\ \E s \in WordsOf(x) \ {world[x]} : world' = [world EXCEPT ![x] = s]
    /\ Show(world')
    /\ UNCHANGED <<pc, req, wire, reply, answer, maker, link>>

ClientStep(c) ==
    \/ \E r \in Requests : Call(c, r) \/ CallRefused(c, r)
    \/ LimiterRefuses(c) \/ LimiterGrants(c)
    \/ RequestFails(c) \/ Receive(c) \/ Finish(c)

ExchangeStep(c) ==
    \/ Refuse(c) \/ TakeCancel(c) \/ List(c)
    \/ \E o \in Orders : PlaceOrder(c, o)

Next ==
    \/ \E c \in Calls : ClientStep(c) \/ ExchangeStep(c)
    \/ \E o \in Orders : OrderMoves(o)
    \/ \E x \in Things \ Orders : AccountMoves(x)

Spec == Init /\ [][Next]_vars
-----------------------------------------------------------------------------
(* Properties *)

\* Calls that have returned, and their answer is at hand.
Answers(kinds) == {c \in Calls : /\ pc[c] = "back" /\ req[c].kind \in kinds
                                 /\ answer[c].result = "ok"}

\* No ghost order: an order on the book was acknowledged, or its SubmitOrder
\* has yet to return, or returned an error that leaves the outcome open.  An
\* API error or an error before the request is sent means no order, however
\* late the exchange handles the request.
OrderKnown ==
    \A o \in Orders : maker[o] # None =>
        \/ pc[maker[o]] = "sent"
        \/ answer[maker[o]].result \in {"ok", "doubt"}

\* SubmitOrder returns an identifier only for an order on the book, and
\* CancelOrder succeeds only for an order that could be cancelled meanwhile.
AckIsReal ==
    /\ \A c \in Calls :
        req[c] # None /\ req[c].kind = "create" /\ answer[c].result = "ok"
            => \E o \in Orders : maker[o] = c
    /\ \A c \in Answers({"cancel"}) : seen[c][req[c].of] \cap Active # {}

\* One client order identifier, one order: retrying SubmitOrder after an error
\* that left the outcome open, the first request possibly still under way,
\* never places a second one.
NoDoubleOrder ==
    \A o, p \in Orders :
        maker[o] # None /\ maker[p] # None /\ req[maker[o]].of = req[maker[p]].of
            => o = p

\* GetOpenOrders leaves out no order that was active during the whole call,
\* whatever the other orders went through, and lists none that never was.  It
\* promises nothing of an order whose status mapping.go does not list.
OpenOrdersComplete ==
    \A c \in Answers({"open"}), o \in Orders :
        /\ seen[c][o] \subseteq Active => o \in DOMAIN answer[c].list
        /\ o \in DOMAIN answer[c].list => seen[c][o] \cap Active # {}

\* An order that QueryOrder or GetOpenOrders calls finished is, and is filled
\* just when it is called so; one called submitted or partly filled was active
\* when they were called.  "Pending" only tells that mapping.go does not list
\* its status: such an order may be over, and never be anything but "Pending".
OrderStatusTruthful ==
    \A c \in Answers({"open", "query"}) : \A o \in DOMAIN answer[c].list :
        LET said == answer[c].list[o] IN
          /\ said \in {"Filled", "Canceled", "Rejected"} =>
                world[o] \in Final /\ (said = "Filled" <=> world[o] = "Filled")
          /\ said \in OpenStatuses => seen[c][o] \cap Active # {}
          /\ said = "Pending" => seen[c][o] \cap Unlisted # {}

\* GetPosition, GetPositions, GetBalance, GetSymbol and CheckPermissions: a
\* position has the side it is said to have, an amount left out or flat was
\* zero, a symbol said to trade did, and a key said to suffice did, at some
\* moment of the call.
HoldingsTruthful ==
    /\ \A c \in Answers({"position", "positions", "balance"}) :
        \A x \in Scope(req[c]) :
            IF x \in DOMAIN answer[c].list
            THEN \E s \in seen[c][x] :
                    answer[c].list[x] = CASE s = "Buy" -> "Long" [] s = "Sell" -> "Short"
                                          [] s = "Zero" -> "Flat" [] OTHER -> s
            ELSE "Zero" \in seen[c][x]
    /\ \A c \in Answers({"symbol", "permissions"}) :
        LET said == answer[c].list[req[c].of]
            was  == seen[c][req[c].of]
        IN  (said = "Trading" => "Trading" \in was) /\ (said = "Sufficient" => "Trade" \in was)

-----------------------------------------------------------------------------
(* Refinement *)

\* What a request should be answered, in the words of mapping.go, by an
\* exchange whose account is w.
Reported(q, w) ==
    {x \in Scope(q) : CASE q.kind = "open"                     -> w[x] \in Active
                        [] q.kind \in {"positions", "balance"} -> w[x] # "Zero"
                        [] OTHER                               -> TRUE}
TrueAnswer(q, w) ==
    IF q.kind = "query" /\ w[q.of] = "Absent" THEN Err("absent")
    ELSE Ok([x \in Reported(q, w) |-> Unmap(x, w[x])])

\* The account as a reply tells it, and what the reply decides.
Listed(r) == [x \in Things |-> CASE x \in DOMAIN r.list -> r.list[x].word
                                 [] x \in Orders \ DOMAIN r.list -> "Absent"
                                 [] OTHER -> "Zero"]
Decision(q, r) ==
    IF r.code # "ok" THEN Err("no")
    ELSE IF q.kind \in {"create", "cancel"} THEN Ok(NoList)
    ELSE TrueAnswer(q, Listed(r))

\* What an answer lets the caller conclude.
Conclusion(a) ==
    CASE a.result \in {"unsent", "refused"}  -> Err("no")
      [] a.result \in {"doubt", "malformed"} -> Err("doubt")
      [] OTHER                               -> a

\* A call counts until its answer is used, a SubmitOrder for good.
Counts(c) == req[c] # None /\ (req[c].kind = "create" \/ pc[c] # "done")
Returned(c) == pc[c] \in {"back", "done"}

Asking == [c \in Calls |-> IF Counts(c) THEN req[c] ELSE None]
Decided == [c \in Calls |-> IF pc[c] = "sent" /\ wire[c] = "reply"
                            THEN Decision(req[c], reply[c]) ELSE NoAnswer]
Told == [c \in Calls |-> IF Counts(c) /\ Returned(c)
                         THEN Conclusion(answer[c]) ELSE NoAnswer]

Account == INSTANCE AtomicAccount
           WITH asks <- Asking, decided <- Decided, told <- Told

\* Every call that succeeds took effect, or saw the whole of its answer, at one
\* instant between its start and its return, however the account moved
\* meanwhile; "refused" and "not sent" are final; an order in doubt may still be
\* placed, but no second one under its identifier.
ImplementsAtomicAccount == Account!Spec
=============================================================================
