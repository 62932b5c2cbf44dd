----------------------------- MODULE RestClientProofs -----------------------------
(***************************************************************************)
(* Theorems about RestClient, for any calls, identifiers and things.  The  *)
(* invariant has four layers, each preserved with the help of those before *)
(* it: types, the progress of a call, the book of orders, and what replies *)
(* and answers say of what was seen.                                       *)
(***************************************************************************)
EXTENDS RestClient, TLAPS

USE KindsOfThings, NoneIsNoRequest

-----------------------------------------------------------------------------
(* What the requests and the decoders are *)

\* A request asks about things of its own kind.
LEMMA RequestFacts ==
    ASSUME NEW r \in Requests
    PROVE  /\ r.kind \in {"create", "cancel", "query", "position", "symbol",
                          "permissions", "open", "positions", "balance", "refresh"}
           /\ r.kind = "create" => r.of \in Links
           /\ r.kind \in {"cancel", "query"} => r.of \in Orders
           /\ r.kind = "position" => r.of \in Positions
           /\ r.kind = "symbol" => r.of \in Instruments
           /\ r.kind = "permissions" => r.of = Key
BY DEF Requests

LEMMA ScopeFacts ==
    ASSUME NEW r \in Requests
    PROVE  /\ Scope(r) \subseteq Things
           /\ r.kind \in {"create", "refresh"} => Scope(r) = {}
           /\ r.kind = "open" => Scope(r) = Orders
           /\ r.kind = "positions" => Scope(r) = Positions
           /\ r.kind = "balance" => Scope(r) = Coins
           /\ r.kind \in {"cancel", "query", "position", "symbol", "permissions"}
                => Scope(r) = {r.of}
BY RequestFacts DEF Scope, Things

LEMMA WordFacts ==
    ASSUME NEW x \in Things
    PROVE  /\ WordsOf(x) \subseteq Words
           /\ x \in Orders => WordsOf(x) = OrderWords
           /\ x \in Positions => WordsOf(x) = PositionWords
           /\ x \in Coins => WordsOf(x) = CoinWords
           /\ x \in Instruments => WordsOf(x) = InstrumentWords
           /\ x = Key => WordsOf(x) = KeyWords
BY DEF WordsOf, Words, Things

LEMMA UnmapFacts ==
    ASSUME NEW x \in Things, NEW s \in WordsOf(x)
    PROVE  /\ Unmap(x, s) \in Statuses
           /\ x \in Orders => Unmap(x, s) = unmapOrderStatus(s)
           /\ x \in Positions => Unmap(x, s) = unmapPositionSide(s)
           /\ x \in Coins => Unmap(x, s) = s
           /\ x \in Instruments => Unmap(x, s) = unmapSymbolStatus(s)
           /\ x = Key => Unmap(x, s) = IsSufficientForTrading(s)
<1> USE DEF Unmap, Statuses
<1>1. CASE x \in Orders
  BY <1>1, WordFacts DEF OrderWords, unmapOrderStatus
<1>2. CASE x \in Positions
  BY <1>2, WordFacts DEF PositionWords, unmapPositionSide
<1>3. CASE x \in Coins
  BY <1>3, WordFacts DEF CoinWords
<1>4. CASE x \in Instruments
  BY <1>4, WordFacts DEF InstrumentWords, unmapSymbolStatus
<1>5. CASE x = Key
  BY <1>5, WordFacts DEF KeyWords, IsSufficientForTrading
<1> QED
  BY <1>1, <1>2, <1>3, <1>4, <1>5 DEF Things

\* The decimal of an element counts as what it says unless it is malformed.
LEMMA ParsedFacts ==
    ASSUME NEW r, ReplyTyped(r), NEW x \in DOMAIN r.list
    PROVE  /\ Parsed(x, r.list[x]) \in WordsOf(x)
           /\ x \notin BadAmounts(r) => Parsed(x, r.list[x]) = r.list[x].word
<1> DEFINE e == r.list[x]
<1>1. x \in Things /\ e.word \in WordsOf(x) /\ e.bad \in Marks
  BY DEF ReplyTyped
<1>2. x \in Positions \cup Coins => "Zero" \in WordsOf(x)
  BY <1>1, WordFacts DEF PositionWords, CoinWords
<1> QED
  BY <1>1, <1>2 DEF Parsed, BadAmounts, BadDecimals

LEMMA ErrFacts ==
    ASSUME NEW e
    PROVE  Err(e).result = e /\ DOMAIN Err(e).list = {}
BY DEF Err, NoList

LEMMA ConvertedFacts ==
    ASSUME NEW r, ReplyTyped(r), NEW kept \in SUBSET DOMAIN r.list
    PROVE  /\ Converted(r, kept).result = "ok"
           /\ DOMAIN Converted(r, kept).list = kept
           /\ \A x \in kept : Converted(r, kept).list[x] = Unmap(x, Parsed(x, r.list[x]))
           /\ AnswerTyped(Converted(r, kept))
<1>1. \A x \in kept : x \in Things /\ Unmap(x, Parsed(x, r.list[x])) \in Statuses
  BY ParsedFacts, UnmapFacts DEF ReplyTyped
<1> QED
  BY <1>1 DEF Converted, Ok, AnswerTyped

LEMMA DecodeTyped ==
    ASSUME NEW q \in Requests, NEW r, ReplyTyped(r)
    PROVE  AnswerTyped(Decode(q, r))
<1> DEFINE L == DOMAIN r.list
<1>1. \A e \in {"refused", "absent", "malformed"} : AnswerTyped(Err(e))
  BY ErrFacts DEF AnswerTyped
<1>2. AnswerTyped(Ok(NoList))
  BY DEF Ok, NoList, AnswerTyped
<1>3. AnswerTyped(QueryOrder(r)) /\ AnswerTyped(GetSymbol(r)) /\ AnswerTyped(CheckPermissions(r))
  BY <1>1, ConvertedFacts DEF QueryOrder, GetSymbol, CheckPermissions
<1>4. AnswerTyped(GetOpenOrders(r))
  BY <1>1, ConvertedFacts DEF GetOpenOrders
<1>5. AnswerTyped(GetPositions(r)) /\ AnswerTyped(GetBalance(r))
  BY <1>1, ConvertedFacts DEF GetPositions, GetBalance, NonZero
<1>6. CASE q.kind = "position"
  <2>1. q.of \in Things
    BY <1>6, RequestFacts DEF Things
  <2>2. AnswerTyped(Ok([x \in {q.of} |-> "Flat"]))
    BY <2>1 DEF Ok, AnswerTyped, Statuses
  <2>3. AnswerTyped(GetPosition(q.of, r))
    BY <2>2, <1>1, ConvertedFacts DEF GetPosition
  <2> QED
    BY <1>1, <1>6, <2>3 DEF Decode
<1> QED
  BY <1>1, <1>2, <1>3, <1>4, <1>5, <1>6, RequestFacts DEF Decode

\* What a reply says of what was seen, and what the answers below say of it.
ReplyTrue(q, r, was) ==
    /\ q.kind = "cancel" => was[q.of] \cap Active # {}
    /\ q.kind \notin {"create", "cancel"} =>
        /\ DOMAIN r.list \subseteq Scope(q)
        /\ \A x \in DOMAIN r.list : r.list[x].word # "Absent" /\ r.list[x].word \in was[x]
        /\ \A x \in Scope(q) \ DOMAIN r.list : "Zero" \in was[x] \/ "Absent" \in was[x]

OpenTrue(a, was) ==
    \A o \in Orders : /\ was[o] \subseteq Active => o \in DOMAIN a.list
                      /\ o \in DOMAIN a.list => was[o] \cap Active # {}

StatusTrue(a, was) ==
    \A o \in DOMAIN a.list :
        /\ o \in Orders
        /\ a.list[o] = "Filled" => "Filled" \in was[o]
        /\ a.list[o] \in {"Canceled", "Rejected"} => was[o] \cap (Final \ {"Filled"}) # {}
        /\ a.list[o] \in OpenStatuses => was[o] \cap Active # {}
        /\ a.list[o] = "Pending" => was[o] \cap Unlisted # {}

AmountsTrue(q, a, was) ==
    \A x \in Scope(q) :
        IF x \in DOMAIN a.list
        THEN \E s \in was[x] :
                a.list[x] = CASE s = "Buy" -> "Long" [] s = "Sell" -> "Short"
                              [] s = "Zero" -> "Flat" [] OTHER -> s
        ELSE "Zero" \in was[x]

VerdictTrue(q, a, was) ==
    /\ a.list[q.of] = "Trading" => "Trading" \in was[q.of]
    /\ a.list[q.of] = "Sufficient" => "Trade" \in was[q.of]

AnswerTrue(q, a, was) ==
    a.result = "ok" =>
        /\ q.kind = "cancel" => was[q.of] \cap Active # {}
        /\ q.kind = "open" => OpenTrue(a, was)
        /\ q.kind \in {"open", "query"} => StatusTrue(a, was)
        /\ q.kind \in {"position", "positions", "balance"} => AmountsTrue(q, a, was)
        /\ q.kind \in {"symbol", "permissions"} => VerdictTrue(q, a, was)

\* What an order's status is mapped to, and from.
LEMMA StatusFacts ==
    ASSUME NEW s \in OrderWords
    PROVE  /\ unmapOrderStatus(s) \in OpenStatuses <=> s \in Active
           /\ unmapOrderStatus(s) = "Filled" <=> s = "Filled"
           /\ unmapOrderStatus(s) \in {"Canceled", "Rejected"} => s \in Final \ {"Filled"}
           /\ unmapOrderStatus(s) = "Pending" => s \in Unlisted \cup {"Absent"}
BY DEF OrderWords, Unlisted, unmapOrderStatus, OpenStatuses, Active, Final

\* A decoder that maps the words of a reply tells the truth.
LEMMA MappedTrue ==
    ASSUME NEW a, NEW r, NEW was,
           \A x \in DOMAIN a.list :
               /\ x \in Orders /\ r.list[x].word \in OrderWords /\ r.list[x].word \in was[x]
               /\ r.list[x].word # "Absent" /\ a.list[x] = unmapOrderStatus(r.list[x].word)
    PROVE  StatusTrue(a, was)
<1> SUFFICES ASSUME NEW o \in DOMAIN a.list
             PROVE  /\ o \in Orders
                    /\ a.list[o] = "Filled" => "Filled" \in was[o]
                    /\ a.list[o] \in {"Canceled", "Rejected"}
                           => was[o] \cap (Final \ {"Filled"}) # {}
                    /\ a.list[o] \in OpenStatuses => was[o] \cap Active # {}
                    /\ a.list[o] = "Pending" => was[o] \cap Unlisted # {}
  BY DEF StatusTrue
<1> QED
  BY StatusFacts

LEMMA DecodeOpen ==
    ASSUME NEW q \in Requests, q.kind = "open", NEW r, ReplyTyped(r), NEW was,
           ReplyTrue(q, r, was), GetOpenOrders(r).result = "ok"
    PROVE  OpenTrue(GetOpenOrders(r), was) /\ StatusTrue(GetOpenOrders(r), was)
<1> DEFINE active == {x \in DOMAIN r.list : unmapOrderStatus(r.list[x].word) \in OpenStatuses}
<1> DEFINE a == GetOpenOrders(r)
<1>1. DOMAIN r.list \subseteq Orders
  BY ScopeFacts DEF ReplyTrue
<1>2. \A x \in DOMAIN r.list : /\ r.list[x].word \in OrderWords /\ r.list[x].word \in was[x]
                               /\ Parsed(x, r.list[x]) = r.list[x].word
                               /\ r.list[x].word # "Absent"
  BY <1>1, WordFacts DEF ReplyTrue, ReplyTyped, Things, Parsed
<1>3. a = Converted(r, active)
  BY ErrFacts DEF GetOpenOrders
<1>4. DOMAIN a.list = active /\ \A x \in active : a.list[x] = unmapOrderStatus(r.list[x].word)
  BY <1>1, <1>2, <1>3, ConvertedFacts, UnmapFacts, WordFacts DEF Things
<1>5. \A x \in active : r.list[x].word \in Active
  BY <1>2, StatusFacts
<1>6. ASSUME NEW o \in Orders, was[o] \subseteq Active PROVE o \in active
  <2>1. o \in DOMAIN r.list
    BY <1>6, ScopeFacts DEF ReplyTrue, Active
  <2> QED
    BY <2>1, <1>2, <1>6, StatusFacts
<1>7. OpenTrue(a, was)
  BY <1>2, <1>4, <1>5, <1>6 DEF OpenTrue
<1>8. StatusTrue(a, was)
  <2>1. \A x \in DOMAIN a.list :
            /\ x \in Orders /\ r.list[x].word \in OrderWords /\ r.list[x].word \in was[x]
            /\ r.list[x].word # "Absent" /\ a.list[x] = unmapOrderStatus(r.list[x].word)
    BY <1>1, <1>2, <1>4
  <2> HIDE DEF a
  <2> QED
    BY <2>1, MappedTrue
<1> QED
  BY <1>7, <1>8

LEMMA DecodeQuery ==
    ASSUME NEW q \in Requests, q.kind = "query", NEW r, ReplyTyped(r), NEW was,
           ReplyTrue(q, r, was), QueryOrder(r).result = "ok"
    PROVE  StatusTrue(QueryOrder(r), was)
<1>1. DOMAIN r.list \subseteq Orders
  BY ScopeFacts, RequestFacts DEF ReplyTrue
<1>2. \A x \in DOMAIN r.list : /\ r.list[x].word \in OrderWords /\ r.list[x].word \in was[x]
                               /\ Parsed(x, r.list[x]) = r.list[x].word
                               /\ r.list[x].word # "Absent"
  BY <1>1, WordFacts DEF ReplyTrue, ReplyTyped, Things, Parsed
<1>3. QueryOrder(r) = Converted(r, DOMAIN r.list)
  BY ErrFacts DEF QueryOrder
<1>4. \A x \in DOMAIN r.list : QueryOrder(r).list[x] = unmapOrderStatus(r.list[x].word)
  BY <1>1, <1>2, <1>3, ConvertedFacts, UnmapFacts, WordFacts DEF Things
<1> QED
  <2> DEFINE a == QueryOrder(r)
  <2>1. DOMAIN a.list = DOMAIN r.list
    BY <1>3, ConvertedFacts
  <2>2. \A x \in DOMAIN a.list :
            /\ x \in Orders /\ r.list[x].word \in OrderWords /\ r.list[x].word \in was[x]
            /\ r.list[x].word # "Absent" /\ a.list[x] = unmapOrderStatus(r.list[x].word)
    BY <2>1, <1>1, <1>2, <1>4
  <2> HIDE DEF a
  <2>3. StatusTrue(a, was)
    BY <2>2, MappedTrue
  <2> QED
    BY <2>3 DEF a

LEMMA DecodeAmounts ==
    ASSUME NEW q \in Requests, q.kind \in {"position", "positions", "balance"},
           NEW r, ReplyTyped(r), NEW was, ReplyTrue(q, r, was),
           \A x \in Things : was[x] \subseteq WordsOf(x),
           Decode(q, r).result = "ok"
    PROVE  AmountsTrue(q, Decode(q, r), was)
<1> DEFINE L == DOMAIN r.list
<1> DEFINE a == Decode(q, r)
<1>1. Scope(q) \subseteq Positions \/ Scope(q) \subseteq Coins
  BY ScopeFacts, RequestFacts
<1>2. L \subseteq Scope(q)
  BY DEF ReplyTrue
<1>3. \A x \in L : /\ r.list[x].word \in WordsOf(x) /\ r.list[x].word \in was[x]
  BY DEF ReplyTrue, ReplyTyped
<1>4. \A x \in Scope(q) \ L : "Zero" \in was[x]
  <2>1. \A x \in Scope(q) : "Absent" \notin WordsOf(x) /\ x \in Things
    BY <1>1, WordFacts DEF PositionWords, CoinWords, Things
  <2> QED
    BY <2>1 DEF ReplyTrue
<1>5. \A x \in L :
        \/ /\ x \in Positions /\ WordsOf(x) = PositionWords
           /\ Unmap(x, r.list[x].word) = unmapPositionSide(r.list[x].word)
        \/ /\ x \in Coins /\ WordsOf(x) = CoinWords
           /\ Unmap(x, r.list[x].word) = r.list[x].word
  BY <1>1, <1>2, <1>3, WordFacts, UnmapFacts DEF Things
\* What is left of an answer after elements of amount zero were dropped.
<1>6. ASSUME NEW kept \in SUBSET L, a = Converted(r, kept),
             \A x \in kept : Parsed(x, r.list[x]) = r.list[x].word,
             \A x \in kept : x \in Coins => r.list[x].word # "Zero",
             \A x \in L \ kept : r.list[x].word = "Zero"
      PROVE  AmountsTrue(q, a, was)
  <2>1. DOMAIN a.list = kept /\ \A x \in kept : a.list[x] = Unmap(x, r.list[x].word)
    BY <1>6, ConvertedFacts
  <2>2. ASSUME NEW x \in kept
        PROVE  \E s \in was[x] :
                a.list[x] = CASE s = "Buy" -> "Long" [] s = "Sell" -> "Short"
                              [] s = "Zero" -> "Flat" [] OTHER -> s
    BY <1>3, <1>5, <1>6, <2>1 DEF PositionWords, CoinWords, unmapPositionSide
  <2> QED
    BY <2>1, <2>2, <1>2, <1>3, <1>4, <1>6 DEF AmountsTrue
<1>7. CASE q.kind = "position"
  <2>1. a = GetPosition(q.of, r) /\ Scope(q) = {q.of} /\ q.of \in Positions
    BY <1>7, ErrFacts, ScopeFacts, RequestFacts DEF Decode
  <2>2. CASE L = {}
    <3>1. a.list = [x \in {q.of} |-> "Flat"]
      BY <2>1, <2>2 DEF GetPosition, Ok
    <3> QED
      BY <2>1, <2>2, <3>1, <1>4 DEF AmountsTrue
  <2>3. CASE L # {}
    <3>1. a = Converted(r, L) /\ BadDecimals(r) = {}
      BY <2>1, <2>3, ErrFacts DEF GetPosition
    <3>2. \A x \in L : Parsed(x, r.list[x]) = r.list[x].word
      BY <3>1, ParsedFacts DEF BadAmounts
    <3> QED
      BY <3>1, <3>2, <2>1, <1>2, <1>6
  <2> QED
    BY <2>2, <2>3
<1>8. CASE q.kind = "positions"
  <2>1. a = Converted(r, NonZero(r)) /\ BadAmounts(r) = {}
    BY <1>8, ErrFacts DEF Decode, GetPositions
  <2>2. \A x \in L : Parsed(x, r.list[x]) = r.list[x].word
    BY <2>1, ParsedFacts
  <2>3. \A x \in L : x \in NonZero(r) <=> r.list[x].word # "Zero"
    BY <2>2 DEF NonZero
  <2> QED
    BY <2>1, <2>2, <2>3, <1>6 DEF NonZero
<1>9. CASE q.kind = "balance"
  <2>1. a = Converted(r, NonZero(r)) /\ BadDecimals(r) = {}
    BY <1>9, ErrFacts DEF Decode, GetBalance
  <2>2. \A x \in L : Parsed(x, r.list[x]) = r.list[x].word
    BY <2>1, ParsedFacts DEF BadAmounts
  <2>3. \A x \in L : x \in NonZero(r) <=> r.list[x].word # "Zero"
    BY <2>2 DEF NonZero
  <2> QED
    BY <2>1, <2>2, <2>3, <1>6 DEF NonZero
<1> QED
  BY <1>7, <1>8, <1>9

LEMMA DecodeVerdict ==
    ASSUME NEW q \in Requests, q.kind \in {"symbol", "permissions"},
           NEW r, ReplyTyped(r), NEW was, ReplyTrue(q, r, was),
           \A x \in Things : was[x] \subseteq WordsOf(x),
           Decode(q, r).result = "ok"
    PROVE  VerdictTrue(q, Decode(q, r), was)
<1> DEFINE L == DOMAIN r.list
<1> DEFINE a == Decode(q, r)
<1>1. /\ Scope(q) = {q.of} /\ q.of \in Things
      /\ q.of \notin Positions \cup Coins \cup Orders
      /\ WordsOf(q.of) \in {InstrumentWords, KeyWords}
  BY ScopeFacts, RequestFacts, WordFacts DEF Things
<1>2. q.of \in L
  BY <1>1 DEF ReplyTrue, InstrumentWords, KeyWords
<1>3. a = Converted(r, L)
  BY <1>2, ErrFacts DEF Decode, GetSymbol, CheckPermissions
<1>4. /\ a.list[q.of] = Unmap(q.of, r.list[q.of].word)
      /\ r.list[q.of].word \in was[q.of] /\ r.list[q.of].word \in WordsOf(q.of)
  BY <1>1, <1>2, <1>3, ConvertedFacts DEF Parsed, ReplyTrue, ReplyTyped
<1>5. CASE q.kind = "symbol"
  <2>1. q.of \in Instruments /\ q.of # Key
    BY <1>5, RequestFacts
  <2> QED
    BY <2>1, <1>1, <1>4, UnmapFacts, WordFacts
    DEF VerdictTrue, InstrumentWords, unmapSymbolStatus
<1>6. CASE q.kind = "permissions"
  <2>1. q.of = Key
    BY <1>6, RequestFacts
  <2> QED
    BY <2>1, <1>1, <1>4, UnmapFacts, WordFacts
    DEF VerdictTrue, KeyWords, IsSufficientForTrading
<1> QED
  BY <1>5, <1>6

\* Whatever a method returns is true of what was seen, if its reply is.
LEMMA DecodeTrue ==
    ASSUME NEW q \in Requests, NEW r, ReplyTyped(r), NEW was,
           Accepted(r) => ReplyTrue(q, r, was),
           \A x \in Things : was[x] \subseteq WordsOf(x)
    PROVE  AnswerTrue(q, Decode(q, r), was)
<1> SUFFICES ASSUME Decode(q, r).result = "ok" PROVE AnswerTrue(q, Decode(q, r), was)
  BY DEF AnswerTrue
<1>1. ReplyTrue(q, r, was)
  BY ErrFacts DEF Decode
<1>2. Accepted(r)
  BY ErrFacts DEF Decode
<1>3. q.kind = "open" => Decode(q, r) = GetOpenOrders(r)
  BY <1>2 DEF Decode
<1>4. q.kind = "query" => Decode(q, r) = QueryOrder(r)
  BY <1>2 DEF Decode
<1> QED
  BY <1>1, <1>3, <1>4, DecodeOpen, DecodeQuery, DecodeAmounts, DecodeVerdict
  DEF AnswerTrue, ReplyTrue

-----------------------------------------------------------------------------
(* Types *)

LEMMA ErrTyped ==
    /\ \A e \in {"unsent", "refused", "doubt"} : AnswerTyped(Err(e))
    /\ AnswerTyped(NoAnswer) /\ ReplyTyped(NoReply)
BY DEF AnswerTyped, ReplyTyped, Err, NoAnswer, NoReply, NoList

\* How far a call has come, and what its request, the wire and its answer are
\* there.  A create whose request is still under way when its caller has gone
\* left the caller in doubt.
Progress ==
    \A c \in Calls :
        /\ pc[c] = "new" => req[c] = None
        /\ pc[c] \in {"wait", "sent", "back"} => req[c] # None
        /\ pc[c] \in {"new", "wait"} => wire[c] = "none"
        /\ pc[c] = "sent" => wire[c] # "none"
        /\ pc[c] \in {"new", "wait", "sent"} => answer[c] = NoAnswer
        /\ wire[c] = "reply" => pc[c] = "sent"
        /\ wire[c] # "none" => req[c] # None
        /\ wire[c] = "request" /\ pc[c] \in {"back", "done"} /\ req[c].kind = "create"
             => answer[c].result = "doubt"

LEMMA InitType == Init => TypeOK
<1> SUFFICES ASSUME Init PROVE TypeOK
  OBVIOUS
<1>1. world \in [Things -> Words] /\ \A x \in Things : world[x] \in WordsOf(x)
  <2>1. PICK ord \in [Orders -> OrderWords], pos \in [Positions -> PositionWords],
             coin \in [Coins -> CoinWords], ins \in [Instruments -> InstrumentWords],
             key \in KeyWords :
        world = [x \in Things |-> CASE x \in Orders    -> ord[x]
                                    [] x \in Positions -> pos[x]
                                    [] x \in Coins     -> coin[x]
                                    [] x = Key         -> key
                                    [] OTHER           -> ins[x]]
    BY DEF Init
  <2>2. \A x \in Things : world[x] \in WordsOf(x)
    BY <2>1 DEF WordsOf, Things
  <2> QED
    BY <2>1, <2>2, WordFacts
<1>2. seen \in [Calls -> [Things -> SUBSET Words]]
  BY DEF Init, Unseen
<1>3. /\ DOMAIN reply = Calls /\ DOMAIN answer = Calls
      /\ \A c \in Calls : reply[c] = NoReply /\ answer[c] = NoAnswer
  BY DEF Init
<1> QED
  BY <1>1, <1>2, <1>3, ErrTyped DEF Init, TypeOK

\* Show only adds words that the things have.
LEMMA ShowTyped ==
    ASSUME TypeOK, NEW w \in [Things -> Words], Show(w)
    PROVE  seen' \in [Calls -> [Things -> SUBSET Words]]
BY DEF TypeOK, Show

LEMMA RespondTyped ==
    ASSUME TypeOK, NEW c \in Calls, NEW r, Respond(c, r), ReplyTyped(r)
    PROVE  /\ wire' \in [Calls -> {"none", "request", "reply"}]
           /\ DOMAIN reply' = Calls
           /\ \A d \in Calls : ReplyTyped(reply'[d])
BY DEF TypeOK, Respond

LEMMA StepType == TypeOK /\ Progress /\ [Next]_vars => TypeOK'
<1> SUFFICES ASSUME TypeOK, Progress, [Next]_vars PROVE TypeOK'
  OBVIOUS
<1> USE DEF TypeOK, exchange
<1>1. ASSUME NEW c \in Calls, NEW r \in Requests, Call(c, r) PROVE TypeOK'
  BY <1>1 DEF Call, Goto
<1>2. ASSUME NEW c \in Calls, NEW r \in Requests, CallRefused(c, r) PROVE TypeOK'
  BY <1>2, ErrTyped DEF CallRefused, Return, Goto
<1>3. ASSUME NEW c \in Calls, LimiterRefuses(c) PROVE TypeOK'
  BY <1>3, ErrTyped DEF LimiterRefuses, Return, Goto
<1>4. ASSUME NEW c \in Calls, LimiterGrants(c) PROVE TypeOK'
  <2>1. seen' \in [Calls -> [Things -> SUBSET Words]]
    BY <1>4 DEF LimiterGrants
  <2> QED
    BY <1>4, <2>1 DEF LimiterGrants, Goto
<1>5. ASSUME NEW c \in Calls, RequestFails(c) PROVE TypeOK'
  BY <1>5, ErrTyped DEF RequestFails, Return, Goto, Unknown, NoReply
<1>6. ASSUME NEW c \in Calls, Receive(c) PROVE TypeOK'
  <2>1. AnswerTyped(Decode(req[c], reply[c]))
    BY <1>6, DecodeTyped DEF Receive, Progress
  <2> QED
    BY <1>6, <2>1, ErrTyped DEF Receive, Return, Goto, NoReply
<1>7. ASSUME NEW c \in Calls, Finish(c) PROVE TypeOK'
  <2>1. seen' \in [Calls -> [Things -> SUBSET Words]]
    BY <1>7 DEF Finish, Unseen
  <2> QED
    BY <1>7, <2>1, ErrTyped DEF Finish, Goto
<1>8. ASSUME NEW c \in Calls, Refuse(c) PROVE TypeOK'
  <2>1. ReplyTyped([code |-> "refused", list |-> NoList])
    BY DEF ReplyTyped, NoList
  <2> QED
    BY <1>8, <2>1, RespondTyped DEF Refuse, Respond
<1>9. ASSUME NEW c \in Calls, TakeCancel(c) PROVE TypeOK'
  <2>1. ReplyTyped([code |-> "ok", list |-> NoList])
    BY DEF ReplyTyped, NoList
  <2> QED
    BY <1>9, <2>1, RespondTyped DEF TakeCancel, Respond
<1>10. ASSUME NEW c \in Calls, List(c) PROVE TypeOK'
  <2> DEFINE Body(S, bad) == [x \in S |-> [word |-> world[x], bad |-> bad[x]]]
  <2>1. PICK S \in SUBSET {x \in Scope(req[c]) : world[x] # "Absent"} :
            \E bad \in [S -> Marks] : Respond(c, [code |-> "ok", list |-> Body(S, bad)])
    BY <1>10 DEF List
  <2>0. PICK bad \in [S -> Marks] : Respond(c, [code |-> "ok", list |-> Body(S, bad)])
    BY <2>1
  <2>2. S \subseteq Things
    BY <1>10, ScopeFacts DEF List, Progress
  <2> DEFINE r == [code |-> "ok", list |-> Body(S, bad)]
  <2>3. ReplyTyped(r)
    BY <2>2, <2>0 DEF ReplyTyped
  <2> HIDE DEF r
  <2> QED
    BY <1>10, <2>0, <2>3, RespondTyped DEF List, Respond, r
<1>11. ASSUME NEW c \in Calls, NEW o \in Orders, PlaceOrder(c, o) PROVE TypeOK'
  <2> DEFINE r == [code |-> "ok", list |-> NoList]
  <2>1. Respond(c, r) /\ ReplyTyped(r)
    BY <1>11 DEF PlaceOrder, ReplyTyped, NoList
  <2>2. world' \in [Things -> Words] /\ \A x \in Things : world'[x] \in WordsOf(x)
    BY <1>11, WordFacts DEF PlaceOrder, OrderWords, Unlisted, Things
  <2>3. seen' \in [Calls -> [Things -> SUBSET Words]]
    BY <1>11, <2>2, ShowTyped DEF PlaceOrder
  <2>4. link' \in [Orders -> Links \cup {None}] /\ maker' \in [Orders -> Calls \cup {None}]
    BY <1>11, RequestFacts DEF PlaceOrder, OrderLinkId, Progress
  <2> HIDE DEF r
  <2> QED
    BY <2>1, <2>2, <2>3, <2>4, RespondTyped DEF Respond
<1>12. ASSUME NEW o \in Orders, OrderMoves(o) PROVE TypeOK'
  <2>1. world' \in [Things -> Words] /\ \A x \in Things : world'[x] \in WordsOf(x)
    BY <1>12, WordFacts DEF OrderMoves, OrderWords, Unlisted, Active, Final, Things
  <2> QED
    BY <1>12, <2>1, ShowTyped DEF OrderMoves
<1>13. ASSUME NEW x \in Things, AccountMoves(x) PROVE TypeOK'
  <2>1. world' \in [Things -> Words] /\ \A y \in Things : world'[y] \in WordsOf(y)
    BY <1>13, WordFacts DEF AccountMoves
  <2> QED
    BY <1>13, <2>1, ShowTyped DEF AccountMoves
<1>14. CASE UNCHANGED vars
  BY <1>14 DEF vars
<1> QED
  BY <1>1, <1>2, <1>3, <1>4, <1>5, <1>6, <1>7, <1>8, <1>9, <1>10, <1>11, <1>12, <1>13, <1>14
  DEF Next, ClientStep, ExchangeStep

-----------------------------------------------------------------------------
(* The progress of a call *)

LEMMA InitProgress == Init => Progress
BY DEF Init, Progress

LEMMA StepProgress == TypeOK /\ Progress /\ [Next]_vars => Progress'
<1> SUFFICES ASSUME TypeOK, Progress, [Next]_vars PROVE Progress'
  OBVIOUS
<1> USE DEF TypeOK, Progress, exchange
<1>1. ASSUME NEW c \in Calls, NEW r \in Requests, Call(c, r) PROVE Progress'
  BY <1>1 DEF Call, Goto
<1>2. ASSUME NEW c \in Calls, NEW r \in Requests, CallRefused(c, r) PROVE Progress'
  BY <1>2 DEF CallRefused, Return, Goto
<1>3. ASSUME NEW c \in Calls, LimiterRefuses(c) PROVE Progress'
  BY <1>3 DEF LimiterRefuses, Return, Goto
<1>4. ASSUME NEW c \in Calls, LimiterGrants(c) PROVE Progress'
  BY <1>4 DEF LimiterGrants, Goto
<1>5. ASSUME NEW c \in Calls, RequestFails(c) PROVE Progress'
  BY <1>5, ErrFacts DEF RequestFails, Return, Goto, Unknown
<1>6. ASSUME NEW c \in Calls, Receive(c) PROVE Progress'
  BY <1>6 DEF Receive, Return, Goto
<1>7. ASSUME NEW c \in Calls, Finish(c) PROVE Progress'
  BY <1>7 DEF Finish, Goto
<1>8. ASSUME NEW c \in Calls, NEW r, wire[c] = "request", Respond(c, r) PROVE Progress'
  BY <1>8 DEF Respond
<1>9. ASSUME NEW c \in Calls, ExchangeStep(c) PROVE Progress'
  <2>1. wire[c] = "request" /\ \E r : Respond(c, r)
    BY <1>9 DEF ExchangeStep, Refuse, TakeCancel, List, PlaceOrder
  <2> QED
    BY <2>1, <1>8
<1>10. CASE UNCHANGED <<pc, req, wire, answer>>
  BY <1>10
<1> QED
  BY <1>1, <1>2, <1>3, <1>4, <1>5, <1>6, <1>7, <1>9, <1>10
  DEF Next, ClientStep, OrderMoves, AccountMoves, vars

-----------------------------------------------------------------------------
(* The book of orders *)

\* An order on the book belongs to a SubmitOrder whose request was handled once,
\* under its own identifier, and that has been told so or is in doubt.
MadeOK ==
    \A o \in Orders : maker[o] # None =>
        /\ req[maker[o]] # None /\ req[maker[o]].kind = "create"
        /\ link[o] = req[maker[o]].of
        /\ pc[maker[o]] \in {"sent", "back", "done"} /\ wire[maker[o]] # "request"
        /\ pc[maker[o]] = "sent" => reply[maker[o]].code = "ok"
        /\ pc[maker[o]] \in {"back", "done"} => answer[maker[o]].result \in {"ok", "doubt"}

OneEach == \A o, p \in Orders : maker[o] # None /\ link[o] = link[p] => o = p

\* A SubmitOrder that was told "ok", or is about to be, has its order.
ToldOK ==
    \A c \in Calls :
        /\ req[c] # None /\ req[c].kind = "create"
        /\ answer[c].result = "ok" \/ (wire[c] = "reply" /\ reply[c].code = "ok")
        => \E o \in Orders : maker[o] = c

Book == MadeOK /\ OneEach /\ ToldOK

LEMMA InitBook == Init => Book
BY DEF Init, Book, MadeOK, OneEach, ToldOK

\* What SubmitOrder makes of the two replies there are.
LEMMA CreateFacts ==
    ASSUME NEW q \in Requests, q.kind = "create", NEW r
    PROVE  Decode(q, r).result = IF r.code = "ok" THEN "ok" ELSE "refused"
BY DEF Decode, Accepted, Ok, Err

LEMMA StepBook == TypeOK /\ Progress /\ Book /\ [Next]_vars => Book'
<1> SUFFICES ASSUME TypeOK, Progress, Book, [Next]_vars PROVE Book'
  OBVIOUS
<1> USE DEF TypeOK, Progress, Book, MadeOK, OneEach, ToldOK, exchange
<1>1. ASSUME NEW c \in Calls, NEW r \in Requests, Call(c, r) PROVE Book'
  BY <1>1 DEF Call, Goto, NoAnswer
<1>2. ASSUME NEW c \in Calls, NEW r \in Requests, CallRefused(c, r) PROVE Book'
  BY <1>2, ErrFacts DEF CallRefused, Return, Goto
<1>3. ASSUME NEW c \in Calls, LimiterRefuses(c) PROVE Book'
  BY <1>3, ErrFacts DEF LimiterRefuses, Return, Goto
<1>4. ASSUME NEW c \in Calls, LimiterGrants(c) PROVE Book'
  BY <1>4 DEF LimiterGrants, Goto
<1>5. ASSUME NEW c \in Calls, RequestFails(c) PROVE Book'
  BY <1>5, ErrFacts DEF RequestFails, Return, Goto, Unknown
<1>6. ASSUME NEW c \in Calls, Receive(c) PROVE Book'
  BY <1>6, CreateFacts DEF Receive, Return, Goto
<1>7. ASSUME NEW c \in Calls, Finish(c) PROVE Book'
  BY <1>7 DEF Finish, Goto, NoAnswer
<1>8. ASSUME NEW c \in Calls, Refuse(c) PROVE Book'
  BY <1>8 DEF Refuse, Respond
<1>9. ASSUME NEW c \in Calls, TakeCancel(c) PROVE Book'
  BY <1>9 DEF TakeCancel, Respond
<1>10. ASSUME NEW c \in Calls, NEW r, wire[c] = "request", req[c].kind # "create",
              Respond(c, r), UNCHANGED exchange
       PROVE  Book'
  BY <1>10 DEF Respond
<1>11. ASSUME NEW c \in Calls, List(c) PROVE Book'
  <2>1. \E r : Respond(c, r)
    BY <1>11 DEF List
  <2> QED
    BY <2>1, <1>10, <1>11 DEF List
<1>12. ASSUME NEW c \in Calls, NEW o \in Orders, PlaceOrder(c, o) PROVE Book'
  <2>1. /\ req[c] # None /\ req[c].kind = "create" /\ req[c].of \in Links
        /\ maker' = [maker EXCEPT ![o] = c] /\ link' = [link EXCEPT ![o] = req[c].of]
        /\ wire[c] = "request" /\ maker[o] = None /\ UNCHANGED <<pc, req, answer>>
        /\ Respond(c, [code |-> "ok", list |-> NoList])
        /\ \A p \in Orders : link[p] # req[c].of
    BY <1>12, RequestFacts DEF PlaceOrder, OrderLinkId, Respond
  <2>2. \A p \in Orders : maker[p] # c
    BY <2>1
  <2>3. MadeOK'
    BY <2>1, <2>2 DEF Respond
  <2>4. OneEach'
    BY <2>1
  <2>5. ToldOK'
    BY <2>1, <2>2 DEF Respond
  <2> QED
    BY <2>3, <2>4, <2>5
<1>13. CASE UNCHANGED <<pc, req, wire, reply, answer, maker, link>>
  BY <1>13
<1> QED
  BY <1>1, <1>2, <1>3, <1>4, <1>5, <1>6, <1>7, <1>8, <1>9, <1>11, <1>12, <1>13
  DEF Next, ClientStep, ExchangeStep, OrderMoves, AccountMoves, vars

-----------------------------------------------------------------------------
(* What was seen while a call ran *)

\* A call's history holds what is true now while it runs, and an order that was
\* seen in a final state is still in it.
SeenOK ==
    /\ \A c \in Calls, x \in Things : seen[c][x] \subseteq WordsOf(x)
    /\ \A c \in Calls : pc[c] = "sent" => \A x \in Scope(req[c]) : world[x] \in seen[c][x]
    /\ \A c \in Calls, o \in Orders : \A s \in seen[c][o] \cap Final : world[o] = s

\* Finality: no step changes the final state of an order.
LEMMA FinalStays ==
    ASSUME TypeOK, [Next]_vars, NEW o \in Orders, world[o] \in Final
    PROVE  world'[o] = world[o]
<1> USE DEF TypeOK, exchange
<1>1. ASSUME NEW c \in Calls, NEW p \in Orders, PlaceOrder(c, p) PROVE world'[o] = world[o]
  BY <1>1 DEF PlaceOrder, Final
<1>2. ASSUME NEW p \in Orders, OrderMoves(p) PROVE world'[o] = world[o]
  BY <1>2 DEF OrderMoves, Final, Active
<1>3. ASSUME NEW x \in Things \ Orders, AccountMoves(x) PROVE world'[o] = world[o]
  BY <1>3 DEF AccountMoves
<1>4. CASE UNCHANGED world
  BY <1>4
<1> QED
  BY <1>1, <1>2, <1>3, <1>4
  DEF Next, ClientStep, ExchangeStep, Call, CallRefused, LimiterRefuses, LimiterGrants,
      RequestFails, Receive, Finish, Refuse, TakeCancel, List, vars

LEMMA InitSeen == Init => SeenOK
<1> SUFFICES ASSUME Init PROVE SeenOK
  OBVIOUS
<1>1. \A c \in Calls, x \in Things : seen[c][x] = {}
  BY DEF Init, Unseen
<1> QED
  BY <1>1 DEF Init, SeenOK, Things

\* The world moves and every running call is shown it.
LEMMA ShowSeen ==
    ASSUME TypeOK, Progress, SeenOK, Show(world'), UNCHANGED <<pc, req>>,
           \A x \in Things : world'[x] \in WordsOf(x),
           \A o \in Orders : world[o] \in Final => world'[o] = world[o]
    PROVE  SeenOK' /\ \A c \in Calls, x \in Things : seen[c][x] \subseteq seen'[c][x]
<1> USE DEF TypeOK, Show
<1>1. \A c \in Calls, x \in Things :
        seen'[c][x] = IF pc[c] = "sent" /\ x \in Scope(req[c])
                      THEN seen[c][x] \cup {world'[x]} ELSE seen[c][x]
  OBVIOUS
<1>2. \A c \in Calls, x \in Things : seen'[c][x] \subseteq WordsOf(x)
  BY <1>1 DEF SeenOK
<1>3. \A c \in Calls : pc'[c] = "sent" => \A x \in Scope(req'[c]) : world'[x] \in seen'[c][x]
  BY <1>1, ScopeFacts DEF Progress
<1>4. ASSUME NEW c \in Calls, NEW o \in Orders, NEW s \in seen'[c][o] \cap Final
      PROVE  world'[o] = s
  BY <1>1, <1>4 DEF SeenOK, Things
<1> QED
  BY <1>1, <1>2, <1>3, <1>4 DEF SeenOK

LEMMA StepSeen == TypeOK /\ Progress /\ SeenOK /\ [Next]_vars => SeenOK'
<1> SUFFICES ASSUME TypeOK, Progress, SeenOK, [Next]_vars PROVE SeenOK'
  OBVIOUS
<1> USE DEF exchange
<1>0. \A o \in Orders : world[o] \in Final => world'[o] = world[o]
  BY FinalStays
<1>t. \A x \in Things : world'[x] \in WordsOf(x)
  BY StepType DEF TypeOK
<1>1. ASSUME NEW c \in Calls, NEW r \in Requests, Call(c, r) PROVE SeenOK'
  BY <1>1 DEF Call, Goto, SeenOK, TypeOK
<1>2. ASSUME NEW c \in Calls, NEW a, Return(c, a), UNCHANGED <<world, seen>>,
             \A d \in Calls \ {c} : req'[d] = req[d]
      PROVE  SeenOK'
  BY <1>2 DEF Return, Goto, SeenOK, TypeOK
<1>3. ASSUME NEW c \in Calls, LimiterGrants(c) PROVE SeenOK'
  <2>1. \A x \in Things : seen'[c][x] = IF x \in Scope(req[c]) THEN {world[x]} ELSE {}
    BY <1>3 DEF LimiterGrants, TypeOK
  <2>2. \A d \in Calls \ {c} : seen'[d] = seen[d]
    BY <1>3 DEF LimiterGrants, TypeOK
  <2>3. Scope(req[c]) \subseteq Things
    BY <1>3, ScopeFacts DEF LimiterGrants, Progress, TypeOK
  <2> QED
    BY <1>3, <2>1, <2>2, <2>3 DEF LimiterGrants, Goto, SeenOK, TypeOK, Things
<1>4. ASSUME NEW c \in Calls, Finish(c) PROVE SeenOK'
  <2>1. \A x \in Things : seen'[c][x] = {}
    BY <1>4 DEF Finish, TypeOK, Unseen
  <2>2. \A d \in Calls \ {c} : seen'[d] = seen[d]
    BY <1>4 DEF Finish, TypeOK
  <2> QED
    BY <1>4, <2>1, <2>2 DEF Finish, Goto, SeenOK, TypeOK, Things
<1>5. CASE UNCHANGED <<pc, req, world, seen>>
  BY <1>5 DEF SeenOK
<1>6. CASE Show(world') /\ UNCHANGED <<pc, req>>
  BY <1>6, <1>0, <1>t, ShowSeen
<1>7. ASSUME NEW c \in Calls, ClientStep(c) PROVE SeenOK'
  <2>1. ASSUME NEW r \in Requests, CallRefused(c, r) PROVE SeenOK'
    BY <2>1, <1>2 DEF CallRefused, TypeOK
  <2>2. CASE LimiterRefuses(c)
    BY <2>2, <1>2 DEF LimiterRefuses
  <2>3. CASE RequestFails(c)
    BY <2>3, <1>2 DEF RequestFails
  <2>4. CASE Receive(c)
    BY <2>4, <1>2 DEF Receive
  <2> QED
    BY <1>1, <1>3, <1>4, <1>7, <2>1, <2>2, <2>3, <2>4 DEF ClientStep
<1>8. ASSUME NEW c \in Calls, ExchangeStep(c) PROVE SeenOK'
  BY <1>5, <1>6, <1>8 DEF ExchangeStep, Refuse, TakeCancel, List, PlaceOrder, Respond
<1> QED
  BY <1>5, <1>6, <1>7, <1>8 DEF Next, OrderMoves, AccountMoves, vars

-----------------------------------------------------------------------------
(* What replies and answers say of it *)

RepliesTrue ==
    \A c \in Calls : wire[c] = "reply" /\ Accepted(reply[c])
        => ReplyTrue(req[c], reply[c], seen[c])
AnswersTrue ==
    \A c \in Calls : pc[c] = "back" => AnswerTrue(req[c], answer[c], seen[c])
Truth == RepliesTrue /\ AnswersTrue

LEMMA InitTruth == Init => Truth
BY DEF Init, Truth, RepliesTrue, AnswersTrue

\* A true reply stays true while more is seen.
LEMMA ReplyTrueGrows ==
    ASSUME NEW q \in Requests, NEW r, NEW was, NEW more, ReplyTrue(q, r, was),
           \A x \in Things : was[x] \subseteq more[x]
    PROVE  ReplyTrue(q, r, more)
<1>1. q.kind = "cancel" => more[q.of] \cap Active # {}
  BY RequestFacts DEF ReplyTrue, Things
<1>2. Scope(q) \subseteq Things
  BY ScopeFacts
<1> QED
  BY <1>1, <1>2 DEF ReplyTrue

LEMMA ErrTrue ==
    ASSUME NEW q, NEW e \in {"unsent", "doubt"}, NEW was
    PROVE  AnswerTrue(q, Err(e), was)
BY ErrFacts DEF AnswerTrue

\* Nothing happens to the calls but that more is seen.
LEMMA ShowTruth ==
    ASSUME TypeOK, Progress, SeenOK, Truth, Show(world'), UNCHANGED <<pc, req, answer>>,
           \A x \in Things : world'[x] \in WordsOf(x),
           \A o \in Orders : world[o] \in Final => world'[o] = world[o],
           NEW c \in Calls
    PROVE  /\ ReplyTrue(req[c], reply[c], seen[c]) /\ req[c] # None
                => ReplyTrue(req[c], reply[c], seen'[c])
           /\ pc'[c] = "back" => AnswerTrue(req'[c], answer'[c], seen'[c])
<1>1. \A x \in Things : seen[c][x] \subseteq seen'[c][x]
  BY ShowSeen
<1>2. pc[c] # "sent" => seen'[c] = seen[c]
  BY DEF TypeOK, Show
<1>3. req[c] # None => req[c] \in Requests
  BY DEF TypeOK
<1>4. ReplyTrue(req[c], reply[c], seen[c]) /\ req[c] # None
        => ReplyTrue(req[c], reply[c], seen'[c])
  BY <1>1, <1>3, ReplyTrueGrows
<1> QED
  BY <1>2, <1>4 DEF Truth, AnswersTrue

LEMMA StepTruth == TypeOK /\ Progress /\ SeenOK /\ Truth /\ [Next]_vars => Truth'
<1> SUFFICES ASSUME TypeOK, Progress, SeenOK, Truth, [Next]_vars PROVE Truth'
  OBVIOUS
<1> USE DEF exchange
<1>0. \A o \in Orders : world[o] \in Final => world'[o] = world[o]
  BY FinalStays
<1>t. \A x \in Things : world'[x] \in WordsOf(x)
  BY StepType DEF TypeOK
\* One call changes, the others neither get a reply nor return.
<1>1. ASSUME NEW c \in Calls,
             \A d \in Calls \ {c} : /\ pc'[d] = pc[d] /\ req'[d] = req[d] /\ wire'[d] = wire[d]
                                    /\ reply'[d] = reply[d] /\ answer'[d] = answer[d]
                                    /\ seen'[d] = seen[d],
             wire'[c] = "reply" /\ Accepted(reply'[c]) => ReplyTrue(req'[c], reply'[c], seen'[c]),
             pc'[c] = "back" => AnswerTrue(req'[c], answer'[c], seen'[c])
      PROVE  Truth'
  BY <1>1 DEF Truth, RepliesTrue, AnswersTrue, Accepted
<1>2. ASSUME NEW c \in Calls, NEW r \in Requests, Call(c, r) PROVE Truth'
  BY <1>2, <1>1 DEF Call, Goto, TypeOK, Progress
<1>3. ASSUME NEW c \in Calls, NEW r \in Requests, CallRefused(c, r) PROVE Truth'
  <2>1. wire'[c] = "none" /\ answer'[c] = Err("unsent") /\ UNCHANGED <<wire, reply, seen>>
    BY <1>3 DEF CallRefused, Return, TypeOK, Progress
  <2>2. AnswerTrue(req'[c], answer'[c], seen'[c])
    BY <2>1, ErrTrue
  <2> QED
    BY <1>3, <2>1, <2>2, <1>1 DEF CallRefused, Return, Goto, TypeOK
<1>4. ASSUME NEW c \in Calls, LimiterRefuses(c) PROVE Truth'
  BY <1>4, <1>1, ErrTrue DEF LimiterRefuses, Return, Goto, TypeOK, Progress
<1>5. ASSUME NEW c \in Calls, LimiterGrants(c) PROVE Truth'
  BY <1>5, <1>1 DEF LimiterGrants, Goto, TypeOK, Progress
<1>6. ASSUME NEW c \in Calls, RequestFails(c) PROVE Truth'
  BY <1>6, <1>1, ErrTrue DEF RequestFails, Return, Goto, Unknown, TypeOK, Progress
<1>7. ASSUME NEW c \in Calls, Receive(c) PROVE Truth'
  <2>1. req[c] \in Requests /\ ReplyTyped(reply[c])
    BY <1>7 DEF Receive, TypeOK, Progress
  <2>2. Accepted(reply[c]) => ReplyTrue(req[c], reply[c], seen[c])
    BY <1>7 DEF Receive, Truth, RepliesTrue
  <2>3. AnswerTrue(req[c], Decode(req[c], reply[c]), seen[c])
    BY <2>1, <2>2, DecodeTrue DEF SeenOK
  <2> QED
    BY <1>7, <2>3, <1>1 DEF Receive, Return, Goto, TypeOK
<1>8. ASSUME NEW c \in Calls, Finish(c) PROVE Truth'
  BY <1>8, <1>1 DEF Finish, Goto, TypeOK, Progress
\* The exchange replies, to a call that is waiting or to nobody.
<1>9. ASSUME NEW c \in Calls, NEW r, Respond(c, r), wire[c] = "request", UNCHANGED seen,
             pc[c] = "sent" /\ Accepted(r) => ReplyTrue(req[c], r, seen[c])
      PROVE  Truth'
  <2>1. pc[c] = "back" => AnswerTrue(req[c], answer[c], seen[c])
    BY DEF Truth, AnswersTrue
  <2> QED
    BY <1>9, <2>1, <1>1 DEF Respond, TypeOK
<1>10. ASSUME NEW c \in Calls, Refuse(c) PROVE Truth'
  BY <1>10, <1>9 DEF Refuse, Accepted
<1>11. ASSUME NEW c \in Calls, TakeCancel(c) PROVE Truth'
  <2>1. pc[c] = "sent" => ReplyTrue(req[c], [code |-> "ok", list |-> NoList], seen[c])
    <3>1. req[c] \in Requests /\ Scope(req[c]) = {req[c].of} /\ world[req[c].of] \in Active
      BY <1>11, ScopeFacts DEF TakeCancel, TypeOK, Progress
    <3> QED
      BY <1>11, <3>1 DEF TakeCancel, ReplyTrue, SeenOK
  <2> QED
    BY <1>11, <2>1, <1>9 DEF TakeCancel
<1>12. ASSUME NEW c \in Calls, List(c) PROVE Truth'
  <2> DEFINE there == {x \in Scope(req[c]) : world[x] # "Absent"}
  <2> DEFINE Body(S, bad) == [x \in S |-> [word |-> world[x], bad |-> bad[x]]]
  <2>1. PICK S \in SUBSET there :
            /\ \A x \in there \ S : world[x] = "Zero"
            /\ \E bad \in [S -> Marks] : Respond(c, [code |-> "ok", list |-> Body(S, bad)])
    BY <1>12 DEF List
  <2>2. PICK bad \in [S -> Marks] : Respond(c, [code |-> "ok", list |-> Body(S, bad)])
    BY <2>1
  <2>3. pc[c] = "sent" => ReplyTrue(req[c], [code |-> "ok", list |-> Body(S, bad)], seen[c])
    <3>1. pc[c] = "sent" => \A x \in Scope(req[c]) : world[x] \in seen[c][x]
      BY DEF SeenOK
    <3> QED
      BY <1>12, <2>1, <3>1 DEF List, ReplyTrue
  <2> QED
    BY <1>12, <2>2, <2>3, <1>9 DEF List
<1>13. ASSUME NEW c \in Calls, NEW o \in Orders, PlaceOrder(c, o) PROVE Truth'
  <2>1. /\ req[c].kind = "create" /\ Respond(c, [code |-> "ok", list |-> NoList])
        /\ Show(world') /\ UNCHANGED <<pc, req, answer>>
    BY <1>13 DEF PlaceOrder, Respond
  <2>2. ReplyTrue(req[c], reply'[c], seen'[c])
    BY <2>1 DEF ReplyTrue
  <2>3. \A d \in Calls \ {c} : wire'[d] = wire[d] /\ reply'[d] = reply[d]
    BY <2>1 DEF Respond, TypeOK
  <2>4. RepliesTrue'
    BY <2>1, <2>2, <2>3, <1>0, <1>t, ShowTruth DEF Truth, RepliesTrue, Progress
  <2>5. AnswersTrue'
    BY <2>1, <1>0, <1>t, ShowTruth DEF AnswersTrue
  <2> QED
    BY <2>4, <2>5 DEF Truth
<1>14. CASE Show(world') /\ UNCHANGED <<pc, req, wire, reply, answer>>
  <2>1. RepliesTrue'
    BY <1>14, <1>0, <1>t, ShowTruth DEF Truth, RepliesTrue, Progress
  <2>2. AnswersTrue'
    BY <1>14, <1>0, <1>t, ShowTruth DEF AnswersTrue
  <2> QED
    BY <2>1, <2>2 DEF Truth
<1>15. CASE UNCHANGED vars
  BY <1>15 DEF vars, Truth, RepliesTrue, AnswersTrue
<1> QED
  BY <1>2, <1>3, <1>4, <1>5, <1>6, <1>7, <1>8, <1>10, <1>11, <1>12, <1>13, <1>14, <1>15
  DEF Next, ClientStep, ExchangeStep, OrderMoves, AccountMoves

-----------------------------------------------------------------------------
(* The theorems *)

IInv == TypeOK /\ Progress /\ Book /\ SeenOK /\ Truth

LEMMA Inductive == Spec => []IInv
<1>1. Init => IInv
  BY InitType, InitProgress, InitBook, InitSeen, InitTruth DEF IInv
<1>2. IInv /\ [Next]_vars => IInv'
  BY StepType, StepProgress, StepBook, StepSeen, StepTruth DEF IInv
<1> QED
  BY <1>1, <1>2, PTL DEF Spec

\* Every variable has its type: no method returns a status that the contract does
\* not list, whatever words the exchange uses.
THEOREM TypeInvariant == Spec => []TypeOK
<1>1. IInv => TypeOK
  BY DEF IInv
<1> QED
  BY <1>1, Inductive, PTL

\* An order on the book was acknowledged, is about to be, or its SubmitOrder
\* returned an error that leaves the outcome open (doRequest, SubmitOrder).
THEOREM NoGhostOrder == Spec => []OrderKnown
<1>1. IInv => OrderKnown
  BY DEF IInv, Book, MadeOK, OrderKnown
<1> QED
  BY <1>1, Inductive, PTL

\* SubmitOrder succeeds only for an order on the book, CancelOrder only for one
\* that could be cancelled during the call (the retCode checks).
THEOREM AcknowledgementsAreReal == Spec => []AckIsReal
<1>1. IInv => AckIsReal
  <2> SUFFICES ASSUME IInv PROVE AckIsReal
    OBVIOUS
  <2>1. \A c \in Calls : req[c] # None /\ req[c].kind = "create" /\ answer[c].result = "ok"
            => \E o \in Orders : maker[o] = c
    BY DEF IInv, Book, ToldOK
  <2>2. \A c \in Answers({"cancel"}) : seen[c][req[c].of] \cap Active # {}
    BY DEF IInv, Truth, AnswersTrue, AnswerTrue, Answers
  <2> QED
    BY <2>1, <2>2 DEF AckIsReal
<1> QED
  BY <1>1, Inductive, PTL

\* SubmitOrder under one client order identifier places one order, however often
\* it is tried and however late the requests are handled.
THEOREM RetryIsSafe == Spec => []NoDoubleOrder
<1>1. IInv => NoDoubleOrder
  BY DEF IInv, Book, MadeOK, OneEach, NoDoubleOrder
<1> QED
  BY <1>1, Inductive, PTL

\* GetOpenOrders lists what was active all along and nothing that never was.
THEOREM OpenOrdersListed == Spec => []OpenOrdersComplete
<1>1. IInv => OpenOrdersComplete
  BY DEF IInv, Truth, AnswersTrue, AnswerTrue, OpenTrue, Answers, OpenOrdersComplete
<1> QED
  BY <1>1, Inductive, PTL

\* An order that a call reports finished is, and is filled just when it is
\* reported filled; one that it reports submitted or partly filled was active
\* during the call; "Pending" only tells that mapping.go does not list the status,
\* be it that of an order still to come or of one that is over.
THEOREM StatusesAreTrue == Spec => []OrderStatusTruthful
<1>1. IInv => OrderStatusTruthful
  <2> SUFFICES ASSUME IInv, NEW c \in Answers({"open", "query"}), NEW o \in DOMAIN answer[c].list
               PROVE  /\ answer[c].list[o] \in {"Filled", "Canceled", "Rejected"} =>
                           /\ world[o] \in Final
                           /\ answer[c].list[o] = "Filled" <=> world[o] = "Filled"
                      /\ answer[c].list[o] \in OpenStatuses => seen[c][o] \cap Active # {}
                      /\ answer[c].list[o] = "Pending" => seen[c][o] \cap Unlisted # {}
    BY DEF OrderStatusTruthful
  <2>1. StatusTrue(answer[c], seen[c]) /\ c \in Calls
    BY DEF IInv, Truth, AnswersTrue, AnswerTrue, Answers
  <2>2. o \in Orders /\ \A s \in seen[c][o] \cap Final : world[o] = s
    BY <2>1 DEF StatusTrue, IInv, SeenOK
  <2>3. "Filled" \in Final
    BY DEF Final
  <2> QED
    BY <2>1, <2>2, <2>3 DEF StatusTrue
<1> QED
  BY <1>1, Inductive, PTL

\* Positions, balances, instruments and the key are as they were at some moment of
\* the call: nothing malformed is read as zero, no error as an empty account.
THEOREM HoldingsAreTrue == Spec => []HoldingsTruthful
<1>1. IInv => HoldingsTruthful
  <2> SUFFICES ASSUME IInv PROVE HoldingsTruthful
    OBVIOUS
  <2>1. \A c \in Answers({"position", "positions", "balance"}) :
            AmountsTrue(req[c], answer[c], seen[c])
    BY DEF IInv, Truth, AnswersTrue, AnswerTrue, Answers
  <2>2. \A c \in Answers({"symbol", "permissions"}) : VerdictTrue(req[c], answer[c], seen[c])
    BY DEF IInv, Truth, AnswersTrue, AnswerTrue, Answers
  <2> QED
    BY <2>1, <2>2 DEF AmountsTrue, VerdictTrue, HoldingsTruthful
<1> QED
  BY <1>1, Inductive, PTL
=============================================================================
