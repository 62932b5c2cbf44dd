-------------------------- MODULE AtomicAccountProofs --------------------------
(***************************************************************************)
(* RestClient implements AtomicAccount, for any calls, identifiers and     *)
(* things.  First what a reply is and what the decoders make of it: the    *)
(* whole of the truth it tells, or nothing.  Then each step is mapped to a *)
(* step of the abstract account or to none.                                *)
(***************************************************************************)
EXTENDS RestClientProofs

USE KindsOfThings, NoneIsNoRequest

-----------------------------------------------------------------------------
(* What the decoders make of a reply *)

\* What the exchange lists, of what it was asked about.  It always has a symbol
\* and the key.
ReplyReal(q, r) ==
    r.code = "ok" /\ q.kind \notin {"create", "cancel"} =>
        /\ DOMAIN r.list \subseteq Scope(q)
        /\ \A x \in DOMAIN r.list : r.list[x].word # "Absent"
        /\ q.kind \in {"symbol", "permissions"} => q.of \in DOMAIN r.list

\* The words of a real reply and of the account it tells.
LEMMA ListedFacts ==
    ASSUME NEW r, ReplyTyped(r), NEW x \in Things
    PROVE  /\ x \in DOMAIN r.list => Listed(r)[x] = r.list[x].word /\ Listed(r)[x] \in WordsOf(x)
           /\ x \notin DOMAIN r.list => Listed(r)[x] = IF x \in Orders THEN "Absent" ELSE "Zero"
BY DEF Listed, ReplyTyped

\* A decoder that reports just the things that are to be reported, each by the
\* word the reply has for it, tells the truth.
LEMMA ConvertedExact ==
    ASSUME NEW q \in Requests, NEW r, ReplyTyped(r), NEW K \in SUBSET DOMAIN r.list,
           \A x \in K : Parsed(x, r.list[x]) = r.list[x].word,
           K = Reported(q, Listed(r)),
           q.kind = "query" => Listed(r)[q.of] # "Absent"
    PROVE  Converted(r, K) = TrueAnswer(q, Listed(r))
<1>1. \A x \in K : Unmap(x, Parsed(x, r.list[x])) = Unmap(x, Listed(r)[x])
  BY ListedFacts DEF ReplyTyped
<1>2. [x \in K |-> Unmap(x, Parsed(x, r.list[x]))] = [x \in K |-> Unmap(x, Listed(r)[x])]
  BY <1>1
<1>3. Converted(r, K) = Ok([x \in K |-> Unmap(x, Listed(r)[x])])
  BY <1>2 DEF Converted
<1> QED
  BY <1>3 DEF TrueAnswer

LEMMA ConclusionFacts ==
    /\ Conclusion(Err("refused")) = Err("no") /\ Conclusion(Err("unsent")) = Err("no")
    /\ Conclusion(Err("malformed")) = Err("doubt") /\ Conclusion(Err("doubt")) = Err("doubt")
    /\ Conclusion(Err("absent")) = Err("absent")
    /\ \A list : Conclusion(Ok(list)) = Ok(list)
BY DEF Conclusion, Ok, Err

\* What the decoders read is exact, or else doubted.
Exact(q, r) == Conclusion(Decode(q, r)) \in {Decision(q, r), Err("doubt")}

LEMMA ExactIf ==
    ASSUME NEW q \in Requests, NEW r, r.code = "ok", q.kind \notin {"create", "cancel"},
           \/ Decode(q, r) = Err("malformed")
           \/ Decode(q, r) = TrueAnswer(q, Listed(r))
    PROVE  Exact(q, r)
<1>1. Conclusion(TrueAnswer(q, Listed(r))) = TrueAnswer(q, Listed(r))
  BY ConclusionFacts DEF TrueAnswer
<1> QED
  BY <1>1, ConclusionFacts DEF Exact, Decision

LEMMA ExactOne ==
    ASSUME NEW q \in Requests, NEW r, ReplyTyped(r), ReplyReal(q, r), r.code = "ok",
           q.kind \in {"query", "position", "symbol", "permissions"}
    PROVE  Exact(q, r)
<1> DEFINE L == DOMAIN r.list
<1>1. Scope(q) = {q.of} /\ q.of \in Things
  BY ScopeFacts, RequestFacts DEF Things
<1>2. L \subseteq {q.of} /\ \A x \in L : r.list[x].word # "Absent"
  BY <1>1 DEF ReplyReal
<1>3. Reported(q, Listed(r)) = {q.of}
  BY <1>1 DEF Reported
<1>4. ASSUME q.of \in L, BadDecimals(r) = {} \/ q.kind = "permissions"
      PROVE  Converted(r, L) = TrueAnswer(q, Listed(r))
  <2>1. L = {q.of} /\ L \in SUBSET L
    BY <1>2, <1>4
  <2>2. Parsed(q.of, r.list[q.of]) = r.list[q.of].word
    <3>1. CASE BadDecimals(r) = {}
      BY <3>1, <1>4, ParsedFacts DEF BadAmounts
    <3>2. CASE q.kind = "permissions"
      BY <3>2, RequestFacts DEF Parsed
    <3> QED
      BY <1>4, <3>1, <3>2
  <2>3. Listed(r)[q.of] # "Absent"
    BY <1>1, <1>2, <1>4, ListedFacts
  <2> QED
    BY <2>1, <2>2, <2>3, <1>3, ConvertedExact
<1>5. CASE q.kind = "query"
  <2>1. Decode(q, r) = QueryOrder(r) /\ q.of \in Orders
    BY <1>5, RequestFacts DEF Decode, Accepted
  <2>2. CASE L = {}
    <3>1. Listed(r)[q.of] = "Absent"
      BY <1>1, <2>1, <2>2, ListedFacts
    <3> QED
      BY <1>5, <2>1, <2>2, <3>1, ExactIf DEF QueryOrder, TrueAnswer
  <2> QED
    BY <1>2, <1>4, <1>5, <2>1, <2>2, ExactIf DEF QueryOrder
<1>6. CASE q.kind = "position"
  <2>1. Decode(q, r) = GetPosition(q.of, r) /\ q.of \in Positions
    BY <1>6, RequestFacts DEF Decode, Accepted
  <2>2. CASE L = {}
    <3>1. Listed(r)[q.of] = "Zero"
      BY <1>1, <2>1, <2>2, ListedFacts
    <3>2. Unmap(q.of, "Zero") = "Flat"
      BY <2>1 DEF Unmap, unmapPositionSide
    <3>3. TrueAnswer(q, Listed(r)) = Ok([x \in {q.of} |-> Unmap(x, Listed(r)[x])])
      BY <1>3, <1>6 DEF TrueAnswer
    <3>4. [x \in {q.of} |-> Unmap(x, Listed(r)[x])] = [x \in {q.of} |-> "Flat"]
      BY <3>1, <3>2
    <3>5. GetPosition(q.of, r) = Ok([x \in {q.of} |-> "Flat"])
      BY <2>2 DEF GetPosition
    <3> QED
      BY <1>6, <2>1, <3>3, <3>4, <3>5, ExactIf
  <2> QED
    BY <1>2, <1>4, <1>6, <2>1, <2>2, ExactIf DEF GetPosition
<1>7. CASE q.kind = "symbol"
  <2>1. Decode(q, r) = GetSymbol(r) /\ q.of \in L
    BY <1>7 DEF Decode, Accepted, ReplyReal
  <2> QED
    BY <1>4, <1>7, <2>1, ExactIf DEF GetSymbol
<1>8. CASE q.kind = "permissions"
  <2>1. Decode(q, r) = CheckPermissions(r) /\ q.of \in L
    BY <1>8 DEF Decode, Accepted, ReplyReal
  <2> QED
    BY <1>4, <1>8, <2>1, ExactIf DEF CheckPermissions
<1> QED
  BY <1>5, <1>6, <1>7, <1>8

\* The statuses that GetOpenOrders keeps are those of active orders.
LEMMA OpenIsActive ==
    ASSUME NEW s \in OrderWords
    PROVE  unmapOrderStatus(s) \in OpenStatuses <=> s \in Active
BY DEF OrderWords, unmapOrderStatus, OpenStatuses, Active

LEMMA ExactOpen ==
    ASSUME NEW q \in Requests, NEW r, ReplyTyped(r), ReplyReal(q, r), r.code = "ok",
           q.kind = "open"
    PROVE  Exact(q, r)
<1> DEFINE K == {x \in DOMAIN r.list : unmapOrderStatus(r.list[x].word) \in OpenStatuses}
<1>1. Scope(q) = Orders /\ DOMAIN r.list \subseteq Orders /\ Orders \subseteq Things
  BY ScopeFacts DEF ReplyReal, Things
<1>2. \A x \in DOMAIN r.list : r.list[x].word \in OrderWords /\ Listed(r)[x] = r.list[x].word
  BY <1>1, ListedFacts, WordFacts
<1>3. \A x \in Orders \ DOMAIN r.list : Listed(r)[x] \notin Active
  BY <1>1, ListedFacts DEF Active
<1>4. K = Reported(q, Listed(r))
  BY <1>1, <1>2, <1>3, OpenIsActive DEF Reported
<1>5. \A x \in K : Parsed(x, r.list[x]) = r.list[x].word
  BY <1>1 DEF Parsed
<1>6. Converted(r, K) = TrueAnswer(q, Listed(r))
  BY <1>4, <1>5, ConvertedExact
<1>7. Decode(q, r) \in {Err("malformed"), Converted(r, K)}
  BY DEF Decode, Accepted, GetOpenOrders
<1> QED
  BY <1>6, <1>7, ExactIf

LEMMA ExactAmounts ==
    ASSUME NEW q \in Requests, NEW r, ReplyTyped(r), ReplyReal(q, r), r.code = "ok",
           q.kind \in {"positions", "balance"}
    PROVE  Exact(q, r)
<1> DEFINE K == NonZero(r)
<1>1. Scope(q) \subseteq Things \ Orders /\ DOMAIN r.list \subseteq Scope(q)
  BY ScopeFacts DEF ReplyReal, Things
<1>2. ASSUME BadAmounts(r) = {} PROVE Converted(r, K) = TrueAnswer(q, Listed(r))
  <2>1. \A x \in DOMAIN r.list : /\ Parsed(x, r.list[x]) = r.list[x].word
                                 /\ Listed(r)[x] = r.list[x].word
    BY <1>1, <1>2, ParsedFacts, ListedFacts
  <2>2. \A x \in Scope(q) \ DOMAIN r.list : Listed(r)[x] = "Zero"
    BY <1>1, ListedFacts
  <2>3. K = Reported(q, Listed(r))
    BY <1>1, <2>1, <2>2 DEF NonZero, Reported
  <2>4. K \in SUBSET DOMAIN r.list
    BY DEF NonZero
  <2> QED
    BY <2>1, <2>3, <2>4, ConvertedExact
<1>3. BadAmounts(r) \subseteq BadDecimals(r)
  BY DEF BadAmounts
<1>4. CASE q.kind = "positions"
  <2>1. Decode(q, r) = GetPositions(r)
    BY <1>4 DEF Decode, Accepted
  <2> QED
    BY <1>2, <1>4, <2>1, ExactIf DEF GetPositions
<1>5. CASE q.kind = "balance"
  <2>1. Decode(q, r) = GetBalance(r)
    BY <1>5 DEF Decode, Accepted
  <2> QED
    BY <1>2, <1>3, <1>5, <2>1, ExactIf DEF GetBalance
<1> QED
  BY <1>4, <1>5

\* Every method reports all that its reply tells, as it is, or an error that
\* leaves the caller in doubt: it never returns part of a reply.
LEMMA DecodeExact ==
    ASSUME NEW q \in Requests, NEW r, ReplyTyped(r), ReplyReal(q, r)
    PROVE  Exact(q, r)
<1>1. CASE r.code # "ok"
  BY <1>1, ConclusionFacts DEF Exact, Decode, Decision, Accepted
<1>2. CASE r.code = "ok" /\ q.kind \in {"create", "cancel"}
  <2>1. Decode(q, r) = Ok(NoList) /\ Decision(q, r) = Ok(NoList)
    BY <1>2 DEF Decode, Decision, Accepted
  <2> QED
    BY <2>1, ConclusionFacts DEF Exact
<1>3. CASE r.code = "ok" /\ q.kind = "refresh"
  <2>1. Reported(q, Listed(r)) = {}
    BY <1>3, ScopeFacts DEF Reported
  <2>2. TrueAnswer(q, Listed(r)) = Ok([x \in {} |-> Unmap(x, Listed(r)[x])])
    BY <1>3, <2>1 DEF TrueAnswer
  <2>3. [x \in {} |-> Unmap(x, Listed(r)[x])] = NoList
    BY DEF NoList
  <2>4. Decode(q, r) = Ok(NoList)
    BY <1>3 DEF Decode, Accepted
  <2> QED
    BY <1>3, <2>2, <2>3, <2>4, ExactIf
<1> QED
  BY <1>1, <1>2, <1>3, ExactOne, ExactOpen, ExactAmounts, RequestFacts

\* An answer is a function of what the account says of the things asked about.
LEMMA AnswerLocal ==
    ASSUME NEW q \in Requests, q.kind \notin {"create", "cancel"}, NEW w, NEW v,
           \A x \in Scope(q) : w[x] = v[x]
    PROVE  TrueAnswer(q, w) = TrueAnswer(q, v)
<1>1. Reported(q, w) = Reported(q, v)
  BY DEF Reported
<1>2. \A x \in Reported(q, w) : x \in Scope(q)
  BY DEF Reported
<1>3. [x \in Reported(q, w) |-> Unmap(x, w[x])] = [x \in Reported(q, v) |-> Unmap(x, v[x])]
  BY <1>1, <1>2
<1>4. q.kind = "query" => w[q.of] = v[q.of]
  BY ScopeFacts
<1> QED
  BY <1>3, <1>4 DEF TrueAnswer

-----------------------------------------------------------------------------
(* Replies are real, and a call that is back has an answer *)

RepliesReal == \A c \in Calls : wire[c] = "reply" => ReplyReal(req[c], reply[c])
Answered == \A c \in Calls : pc[c] = "back" => Conclusion(answer[c]).result # "none"

LEMMA InitReal == Init => RepliesReal /\ Answered
BY DEF Init, RepliesReal, Answered

LEMMA AnswersConclude ==
    ASSUME NEW q \in Requests, NEW r, Exact(q, r)
    PROVE  Conclusion(Decode(q, r)).result # "none"
<1>1. Decision(q, r).result # "none" /\ Err("doubt").result # "none"
  BY DEF Decision, TrueAnswer, Ok, Err
<1> QED
  BY <1>1 DEF Exact

\* A list of all that is not zero is a real reply, and tells the account.
LEMMA ListReal ==
    ASSUME TypeOK, NEW q \in Requests, q.kind \notin {"create", "cancel"},
           NEW S \in SUBSET {x \in Scope(q) : world[x] # "Absent"}, NEW bad,
           \A x \in {y \in Scope(q) : world[y] # "Absent"} \ S : world[x] = "Zero",
           NEW r, r = [code |-> "ok", list |-> [x \in S |-> [word |-> world[x], bad |-> bad[x]]]]
    PROVE  ReplyReal(q, r) /\ Decision(q, r) = TrueAnswer(q, world)
<1>1. r.code = "ok" /\ DOMAIN r.list = S /\ \A x \in S : r.list[x].word = world[x]
  OBVIOUS
<1>2. \A x \in Scope(q) : x \in Things /\ world[x] \in WordsOf(x)
  BY ScopeFacts DEF TypeOK
<1>3. \A x \in Scope(q) : /\ x \notin S => world[x] \in {"Absent", "Zero"}
                          /\ x \in Orders => world[x] # "Zero"
                          /\ x \notin Orders => world[x] # "Absent"
  BY <1>2, WordFacts
  DEF Things, OrderWords, Unlisted, PositionWords, CoinWords, InstrumentWords, KeyWords
<1>4. ASSUME q.kind \in {"symbol", "permissions"} PROVE q.of \in S
  <2>1. q.of \in Scope(q) /\ WordsOf(q.of) \in {InstrumentWords, KeyWords}
    BY <1>2, <1>4, ScopeFacts, RequestFacts, WordFacts
  <2> QED
    BY <1>2, <1>3, <2>1 DEF InstrumentWords, KeyWords
<1>5. \A x \in Scope(q) : Listed(r)[x] = world[x]
  BY <1>1, <1>2, <1>3 DEF Listed
<1>6. ReplyReal(q, r)
  BY <1>1, <1>4 DEF ReplyReal
<1> QED
  BY <1>1, <1>5, <1>6, AnswerLocal DEF Decision

\* The exchange's list decides a call with the truth about the account of now.
LEMMA ListDecides ==
    ASSUME TypeOK, Progress, NEW c \in Calls, List(c)
    PROVE  \E r : /\ Respond(c, r) /\ ReplyReal(req[c], r)
                  /\ Decision(req[c], r) = TrueAnswer(req[c], world)
<1> DEFINE there == {x \in Scope(req[c]) : world[x] # "Absent"}
           R(S, bad) == [code |-> "ok", list |-> [x \in S |-> [word |-> world[x], bad |-> bad[x]]]]
<1>1. req[c] \in Requests /\ req[c].kind \notin {"create", "cancel"}
  BY DEF List, Progress, TypeOK
<1>2. PICK S \in SUBSET there : /\ \A x \in there \ S : world[x] = "Zero"
                                /\ \E bad \in [S -> Marks] : Respond(c, R(S, bad))
  BY DEF List
<1>3. PICK bad \in [S -> Marks] : Respond(c, R(S, bad))
  BY <1>2
<1>4. /\ ReplyReal(req[c], R(S, bad))
      /\ Decision(req[c], R(S, bad)) = TrueAnswer(req[c], world)
  BY <1>1, <1>2, ListReal
<1> HIDE DEF R
<1> QED
  BY <1>3, <1>4

LEMMA StepReal == TypeOK /\ Progress /\ RepliesReal /\ Answered /\ [Next]_vars
                    => (RepliesReal /\ Answered)'
<1> SUFFICES ASSUME TypeOK, Progress, RepliesReal, Answered, [Next]_vars
             PROVE  (RepliesReal /\ Answered)'
  OBVIOUS
<1> USE DEF TypeOK, Progress, RepliesReal, Answered
<1>1. ASSUME NEW c \in Calls, NEW a, Return(c, a), Conclusion(a).result # "none",
             \A d \in Calls : wire'[d] = "reply" =>
                 d # c /\ wire[d] = "reply" /\ reply'[d] = reply[d],
             \A d \in Calls \ {c} : req'[d] = req[d]
      PROVE  (RepliesReal /\ Answered)'
  BY <1>1 DEF Return, Goto
<1>2. \A e \in {"unsent", "doubt"} : Conclusion(Err(e)).result # "none"
  BY ConclusionFacts, ErrFacts
<1>3. ASSUME NEW c \in Calls, NEW r \in Requests, Call(c, r) PROVE (RepliesReal /\ Answered)'
  BY <1>3 DEF Call, Goto
<1>4. ASSUME NEW c \in Calls, NEW r \in Requests, CallRefused(c, r)
      PROVE  (RepliesReal /\ Answered)'
  BY <1>1, <1>2, <1>4 DEF CallRefused
<1>5. ASSUME NEW c \in Calls, LimiterRefuses(c) PROVE (RepliesReal /\ Answered)'
  BY <1>1, <1>2, <1>5 DEF LimiterRefuses
<1>6. ASSUME NEW c \in Calls, LimiterGrants(c) PROVE (RepliesReal /\ Answered)'
  BY <1>6 DEF LimiterGrants, Goto
<1>7. ASSUME NEW c \in Calls, RequestFails(c) PROVE (RepliesReal /\ Answered)'
  BY <1>1, <1>2, <1>7 DEF RequestFails, Unknown
<1>8. ASSUME NEW c \in Calls, Receive(c) PROVE (RepliesReal /\ Answered)'
  <2>1. Conclusion(Decode(req[c], reply[c])).result # "none"
    BY <1>8, DecodeExact, AnswersConclude DEF Receive
  <2> QED
    BY <1>1, <1>8, <2>1 DEF Receive
<1>9. ASSUME NEW c \in Calls, Finish(c) PROVE (RepliesReal /\ Answered)'
  BY <1>9 DEF Finish, Goto
<1>10. ASSUME NEW c \in Calls, NEW r, Respond(c, r), ReplyReal(req[c], r)
       PROVE  (RepliesReal /\ Answered)'
  BY <1>10 DEF Respond
<1>11. ASSUME NEW c \in Calls, List(c) PROVE (RepliesReal /\ Answered)'
  <2>1. \E r : Respond(c, r) /\ ReplyReal(req[c], r)
    BY <1>11, ListDecides
  <2> QED
    BY <1>10, <2>1
<1>12. ASSUME NEW c \in Calls, ExchangeStep(c) PROVE (RepliesReal /\ Answered)'
  BY <1>10, <1>11, <1>12 DEF ExchangeStep, Refuse, TakeCancel, PlaceOrder, ReplyReal
<1>13. CASE UNCHANGED <<pc, req, wire, reply, answer>>
  BY <1>13
<1> QED
  BY <1>3, <1>4, <1>5, <1>6, <1>7, <1>8, <1>9, <1>12, <1>13
  DEF Next, ClientStep, OrderMoves, AccountMoves, vars

-----------------------------------------------------------------------------
(* Each step is a step of the account, or none *)

AInv == IInv /\ RepliesReal /\ Answered

AccountStep == [Account!Next]_(Account!vars)

\* What a call asks, what came of it and what it was told, now and after a step.
CallTold(c) ==
    /\ Asking[c] = IF Counts(c) THEN req[c] ELSE None
    /\ Decided[c] = IF pc[c] = "sent" /\ wire[c] = "reply"
                    THEN Decision(req[c], reply[c]) ELSE NoAnswer
    /\ Told[c] = IF Counts(c) /\ Returned(c) THEN Conclusion(answer[c]) ELSE NoAnswer

LEMMA CallFacts == ASSUME NEW c \in Calls PROVE CallTold(c) /\ CallTold(c)'
BY DEF CallTold, Asking, Decided, Told

\* A step of one call changes nothing for another.
OthersStill(c) ==
    \A d \in Calls \ {c} :
        /\ pc'[d] = pc[d] /\ req'[d] = req[d] /\ wire'[d] = wire[d]
        /\ reply'[d] = reply[d] /\ answer'[d] = answer[d]

LEMMA OnlyOne ==
    ASSUME NEW c \in Calls, OthersStill(c)
    PROVE  /\ Asking' = [Asking EXCEPT ![c] = Asking'[c]]
           /\ Decided' = [Decided EXCEPT ![c] = Decided'[c]]
           /\ Told' = [Told EXCEPT ![c] = Told'[c]]
           /\ Asking'[c] = Asking[c] => Asking' = Asking
           /\ Decided'[c] = Decided[c] => Decided' = Decided
           /\ Told'[c] = Told[c] => Told' = Told
<1>1. \A d \in Calls \ {c} : Counts(d)' = Counts(d) /\ Returned(d)' = Returned(d)
  BY DEF OthersStill, Counts, Returned
<1>2. \A d \in Calls \ {c} : Asking'[d] = Asking[d]
  BY <1>1 DEF OthersStill, Asking
<1>3. \A d \in Calls \ {c} : Decided'[d] = Decided[d]
  BY DEF OthersStill, Decided
<1>4. \A d \in Calls \ {c} : Told'[d] = Told[d]
  BY <1>1 DEF OthersStill, Told
<1>5. /\ Asking = [d \in Calls |-> Asking[d]] /\ Asking' = [d \in Calls |-> Asking'[d]]
      /\ Decided = [d \in Calls |-> Decided[d]] /\ Decided' = [d \in Calls |-> Decided'[d]]
      /\ Told = [d \in Calls |-> Told[d]] /\ Told' = [d \in Calls |-> Told'[d]]
  BY DEF Asking, Decided, Told
<1>6. Asking' = [Asking EXCEPT ![c] = Asking'[c]] /\ (Asking'[c] = Asking[c] => Asking' = Asking)
  BY <1>2, <1>5
<1>7. /\ Decided' = [Decided EXCEPT ![c] = Decided'[c]]
      /\ Decided'[c] = Decided[c] => Decided' = Decided
  BY <1>3, <1>5
<1>8. Told' = [Told EXCEPT ![c] = Told'[c]] /\ (Told'[c] = Told[c] => Told' = Told)
  BY <1>4, <1>5
<1> QED
  BY <1>6, <1>7, <1>8

\* The account's words for an answer are the client's.
LEMMA SaidFacts ==
    /\ Account!NotYet = NoAnswer /\ Account!Done = Ok(NoList)
    /\ Account!No = Err("no") /\ Account!Doubt = Err("doubt")
    /\ Account!Done # NoAnswer /\ Account!No # NoAnswer /\ Account!Doubt # NoAnswer
    /\ \A a : a.result # "none" => a # NoAnswer
BY DEF Account!NotYet, Account!Done, Account!No, Account!Doubt, Account!Said,
       Ok, Err, NoList, NoAnswer

LEMMA CallMaps ==
    ASSUME AInv, NEW c \in Calls, NEW r \in Requests, Call(c, r)
    PROVE  AccountStep
<1>1. OthersStill(c) /\ pc[c] = "new" /\ pc'[c] = "wait" /\ req[c] = None /\ req'[c] = r
  BY DEF Call, Goto, OthersStill, AInv, IInv, TypeOK, Progress
<1>2. Asking[c] = None /\ Asking'[c] = r
  BY <1>1, CallFacts DEF CallTold, Counts
<1>3. Decided'[c] = Decided[c] /\ Told'[c] = Told[c]
  BY <1>1, CallFacts DEF CallTold, Returned
<1>4. Account!Ask(c)
  BY <1>1, <1>2, <1>3, OnlyOne DEF Call, exchange, Account!Ask, Account!Asks
<1> QED
  BY <1>4 DEF AccountStep, Account!Next, Account!CallStep

LEMMA CallRefusedMaps ==
    ASSUME AInv, NEW c \in Calls, NEW r \in Requests, CallRefused(c, r)
    PROVE  AccountStep
<1>1. /\ OthersStill(c) /\ pc[c] = "new" /\ pc'[c] = "back" /\ req[c] = None /\ req'[c] = r
      /\ answer'[c] = Err("unsent")
  BY DEF CallRefused, Return, Goto, OthersStill, AInv, IInv, TypeOK, Progress
<1>2. Asking[c] = None /\ Asking'[c] = r
  BY <1>1, CallFacts DEF CallTold, Counts
<1>3. Decided'[c] = Decided[c] /\ Told'[c] = Err("no")
  BY <1>1, CallFacts, ConclusionFacts DEF CallTold, Returned, Counts
<1>4. Account!TurnAway(c)
  BY <1>1, <1>2, <1>3, OnlyOne, SaidFacts
  DEF CallRefused, exchange, Account!TurnAway, Account!Asks
<1> QED
  BY <1>4 DEF AccountStep, Account!Next, Account!CallStep

LEMMA LimiterRefusesMaps ==
    ASSUME AInv, NEW c \in Calls, LimiterRefuses(c)
    PROVE  AccountStep
<1>1. /\ OthersStill(c) /\ pc[c] = "wait" /\ pc'[c] = "back" /\ req[c] # None /\ req'[c] = req[c]
      /\ answer'[c] = Err("unsent")
  BY DEF LimiterRefuses, Return, Goto, OthersStill, AInv, IInv, TypeOK, Progress
<1>2. Asking[c] = req[c] /\ Asking'[c] = req[c]
  BY <1>1, CallFacts DEF CallTold, Counts
<1>3. Decided[c] = NoAnswer /\ Decided'[c] = NoAnswer /\ Told[c] = NoAnswer /\ Told'[c] = Err("no")
  BY <1>1, CallFacts, ConclusionFacts DEF CallTold, Returned, Counts
<1>4. Account!Return(c)
  BY <1>1, <1>2, <1>3, OnlyOne, SaidFacts DEF LimiterRefuses, exchange, Account!Return
<1> QED
  BY <1>4 DEF AccountStep, Account!Next, Account!CallStep

LEMMA LimiterGrantsMaps ==
    ASSUME AInv, NEW c \in Calls, LimiterGrants(c)
    PROVE  AccountStep
<1>1. /\ OthersStill(c) /\ pc[c] = "wait" /\ pc'[c] = "sent" /\ req'[c] = req[c]
      /\ wire'[c] = "request"
  BY DEF LimiterGrants, Goto, OthersStill, AInv, IInv, TypeOK, Progress
<1>2. Asking'[c] = Asking[c] /\ Decided'[c] = Decided[c] /\ Told'[c] = Told[c]
  BY <1>1, CallFacts DEF CallTold, Counts, Returned
<1> QED
  BY <1>1, <1>2, OnlyOne DEF LimiterGrants, exchange, AccountStep, Account!vars

LEMMA RequestFailsMaps ==
    ASSUME AInv, NEW c \in Calls, RequestFails(c)
    PROVE  AccountStep
<1>1. /\ OthersStill(c) /\ pc[c] = "sent" /\ pc'[c] = "back" /\ req[c] # None /\ req'[c] = req[c]
      /\ answer'[c] = Err("doubt")
  BY DEF RequestFails, Unknown, Return, Goto, OthersStill, AInv, IInv, TypeOK, Progress
<1>2. Asking[c] = req[c] /\ Asking'[c] = req[c]
  BY <1>1, CallFacts DEF CallTold, Counts
<1>3. Decided'[c] = NoAnswer /\ Told[c] = NoAnswer /\ Told'[c] = Err("doubt")
  BY <1>1, CallFacts, ConclusionFacts DEF CallTold, Returned, Counts
<1>4. Account!Return(c)
  BY <1>1, <1>2, <1>3, OnlyOne, SaidFacts DEF RequestFails, exchange, Account!Return
<1> QED
  BY <1>4 DEF AccountStep, Account!Next, Account!CallStep

\* The answer is the decision that the reply brings, or leaves doubt.
LEMMA ReceiveMaps ==
    ASSUME AInv, NEW c \in Calls, Receive(c)
    PROVE  AccountStep
<1>1. /\ OthersStill(c) /\ pc[c] = "sent" /\ pc'[c] = "back" /\ wire[c] = "reply"
      /\ req[c] \in Requests /\ req[c] # None /\ req'[c] = req[c]
      /\ answer'[c] = Decode(req[c], reply[c])
  BY DEF Receive, Return, Goto, OthersStill, AInv, IInv, TypeOK, Progress
<1>2. Asking[c] = req[c] /\ Asking'[c] = req[c]
  BY <1>1, CallFacts DEF CallTold, Counts
<1>3. /\ Decided[c] = Decision(req[c], reply[c]) /\ Decided'[c] = NoAnswer
      /\ Told[c] = NoAnswer /\ Told'[c] = Conclusion(Decode(req[c], reply[c]))
  BY <1>1, CallFacts DEF CallTold, Returned, Counts
<1>4. Told'[c] \in {Decided[c], Err("doubt")}
  BY <1>1, <1>3, DecodeExact DEF AInv, IInv, TypeOK, RepliesReal, Exact
<1>5. Decided[c] # NoAnswer
  BY <1>3, SaidFacts DEF Decision, TrueAnswer, Ok, Err
<1>6. Account!Return(c)
  BY <1>1, <1>2, <1>3, <1>4, <1>5, OnlyOne, SaidFacts DEF Receive, exchange, Account!Return
<1> QED
  BY <1>6 DEF AccountStep, Account!Next, Account!CallStep

LEMMA FinishMaps ==
    ASSUME AInv, NEW c \in Calls, Finish(c)
    PROVE  AccountStep
<1>1. /\ OthersStill(c) /\ pc[c] = "back" /\ pc'[c] = "done" /\ req[c] # None
      /\ Conclusion(answer[c]).result # "none"
  BY DEF Finish, Goto, OthersStill, AInv, IInv, TypeOK, Progress, Answered
<1>2. Asking[c] = req[c] /\ Decided[c] = NoAnswer /\ Decided'[c] = NoAnswer
  BY <1>1, CallFacts DEF CallTold, Counts
<1>3. CASE req[c].kind = "create"
  <2>1. req'[c] = req[c] /\ answer'[c] = answer[c]
    BY <1>3 DEF Finish, AInv, IInv, TypeOK
  <2>2. Asking'[c] = Asking[c] /\ Told'[c] = Told[c]
    BY <1>1, <1>3, <2>1, CallFacts DEF CallTold, Counts, Returned
  <2> QED
    BY <1>1, <1>2, <2>2, OnlyOne DEF Finish, exchange, AccountStep, Account!vars
<1>4. CASE req[c].kind # "create"
  <2>1. req'[c] \in {req[c], None}
    BY DEF Finish, AInv, IInv, TypeOK
  <2>2. Asking'[c] = None /\ Told'[c] = NoAnswer
    BY <1>1, <1>4, <2>1, CallFacts DEF CallTold, Counts
  <2>3. Told[c] # NoAnswer
    BY <1>1, CallFacts, SaidFacts DEF CallTold, Counts, Returned
  <2>4. Account!Forget(c)
    BY <1>1, <1>2, <1>4, <2>2, <2>3, OnlyOne, SaidFacts DEF Finish, exchange, Account!Forget
  <2> QED
    BY <2>4 DEF AccountStep, Account!Next, Account!CallStep
<1> QED
  BY <1>3, <1>4

\* The exchange handles a request: it decides the call, if that still waits.
LEMMA RespondMaps ==
    ASSUME AInv, NEW c \in Calls, wire[c] = "request", NEW r, Respond(c, r)
    PROVE  /\ OthersStill(c) /\ Asking' = Asking /\ Told' = Told
           /\ Decided[c] = NoAnswer
           /\ pc[c] # "sent" => Decided' = Decided
           /\ pc[c] = "sent" =>
                /\ Decided' = [Decided EXCEPT ![c] = Decision(req[c], r)]
                /\ Asking[c] = req[c] /\ req[c] # None
                /\ Account!Undecided(c)
<1>1. OthersStill(c) /\ UNCHANGED <<pc, req, answer>>
  BY DEF Respond, OthersStill, AInv, IInv, TypeOK
<1>2. Asking'[c] = Asking[c] /\ Told'[c] = Told[c] /\ Decided[c] = NoAnswer
  BY <1>1, CallFacts DEF CallTold, Counts, Returned
<1>3. ASSUME pc[c] # "sent" PROVE Decided'[c] = Decided[c]
  BY <1>1, <1>3, CallFacts DEF CallTold
<1>4. ASSUME pc[c] = "sent"
      PROVE  /\ Decided'[c] = Decision(req[c], r)
             /\ Asking[c] = req[c] /\ req[c] # None /\ Told[c] = NoAnswer
  <2>1. wire'[c] = "reply" /\ reply'[c] = r /\ req[c] # None
    BY <1>4 DEF Respond, AInv, IInv, TypeOK, Progress
  <2> QED
    BY <1>1, <1>4, <2>1, CallFacts DEF CallTold, Counts, Returned
<1> QED
  BY <1>1, <1>2, <1>3, <1>4, OnlyOne, SaidFacts DEF Account!Undecided

LEMMA RefuseMaps ==
    ASSUME AInv, NEW c \in Calls, Refuse(c)
    PROVE  AccountStep
<1> DEFINE r == [code |-> "refused", list |-> NoList]
<1>1. Decision(req[c], r) = Err("no")
  BY DEF Decision
<1> HIDE DEF r
<1>2. wire[c] = "request" /\ Respond(c, r) /\ UNCHANGED exchange
  BY DEF Refuse, r
<1>3. CASE pc[c] = "sent"
  <2>1. Account!Refuse(c)
    BY <1>1, <1>2, <1>3, RespondMaps, SaidFacts DEF exchange, Account!Refuse
  <2> QED
    BY <2>1 DEF AccountStep, Account!Next, Account!CallStep
<1>4. CASE pc[c] # "sent"
  BY <1>2, <1>4, RespondMaps DEF exchange, AccountStep, Account!vars
<1> QED
  BY <1>3, <1>4

LEMMA TakeCancelMaps ==
    ASSUME AInv, NEW c \in Calls, TakeCancel(c)
    PROVE  AccountStep
<1> DEFINE r == [code |-> "ok", list |-> NoList]
<1>1. Decision(req[c], r) = Ok(NoList)
  BY DEF Decision, TakeCancel
<1> HIDE DEF r
<1>2. wire[c] = "request" /\ Respond(c, r) /\ UNCHANGED exchange
  BY DEF TakeCancel, r
<1>3. CASE pc[c] = "sent"
  <2>1. Account!Cancel(c)
    BY <1>1, <1>2, <1>3, RespondMaps, SaidFacts
    DEF TakeCancel, Active, exchange, Account!Cancel, Account!Open
  <2> QED
    BY <2>1 DEF AccountStep, Account!Next, Account!CallStep
<1>4. CASE pc[c] # "sent"
  BY <1>2, <1>4, RespondMaps DEF exchange, AccountStep, Account!vars
<1> QED
  BY <1>3, <1>4

LEMMA ListMaps ==
    ASSUME AInv, NEW c \in Calls, List(c)
    PROVE  AccountStep
<1>1. PICK r : Respond(c, r) /\ Decision(req[c], r) = TrueAnswer(req[c], world)
  BY ListDecides DEF AInv, IInv
<1>2. /\ wire[c] = "request" /\ req[c].kind \notin {"create", "cancel"}
      /\ UNCHANGED exchange
  BY DEF List
<1>3. CASE pc[c] = "sent"
  <2>1. Account!Look(c)
    BY <1>1, <1>2, <1>3, RespondMaps DEF exchange, Account!Look
  <2> QED
    BY <2>1 DEF AccountStep, Account!Next, Account!CallStep
<1>4. CASE pc[c] # "sent"
  BY <1>1, <1>2, <1>4, RespondMaps DEF exchange, AccountStep, Account!vars
<1> QED
  BY <1>3, <1>4

\* An order may be placed for a call that waits, and for one in doubt.
LEMMA PlaceOrderMaps ==
    ASSUME AInv, NEW c \in Calls, NEW o \in Orders, PlaceOrder(c, o)
    PROVE  AccountStep
<1> DEFINE r == [code |-> "ok", list |-> NoList]
<1>1. Decision(req[c], r) = Ok(NoList)
  BY DEF Decision, PlaceOrder
<1> HIDE DEF r
<1>2. /\ wire[c] = "request" /\ Respond(c, r) /\ req[c] # None /\ req[c].kind = "create"
      /\ world[o] = "Absent" /\ maker[o] = None /\ maker' = [maker EXCEPT ![o] = c]
  BY DEF PlaceOrder, r, AInv, IInv, Progress
<1>3. Asking[c] = req[c]
  BY <1>2, CallFacts DEF CallTold, Counts
<1>4. \A p \in Orders : maker[p] # None => Asking[maker[p]].of # Asking[c].of
  <2>1. req[c].of \in Links /\ req[c].of # None
    BY <1>2, RequestFacts DEF AInv, IInv, TypeOK
  <2>2. ASSUME NEW p \in Orders, maker[p] # None PROVE Asking[maker[p]].of = link[p]
    BY <2>2, CallFacts DEF CallTold, Counts, AInv, IInv, TypeOK, Book, MadeOK
  <2> QED
    BY <1>3, <2>1, <2>2 DEF PlaceOrder, OrderLinkId
<1>5. Account!Becomes(o)
  BY DEF PlaceOrder, Account!Becomes, Words, OrderWords, Unlisted, AInv, IInv, TypeOK, Things
<1>6. CASE pc[c] = "sent"
  <2>1. Account!Place(c, o)
    BY <1>1, <1>2, <1>3, <1>4, <1>5, <1>6, RespondMaps, SaidFacts DEF Account!Place
  <2> QED
    BY <2>1 DEF AccountStep, Account!Next, Account!CallStep
<1>7. CASE pc[c] # "sent"
  <2>1. pc[c] \in {"back", "done"} /\ answer[c].result = "doubt"
    BY <1>2, <1>7 DEF AInv, IInv, TypeOK, Progress
  <2>2. Conclusion(answer[c]) = Account!Doubt
    BY <2>1, SaidFacts DEF Conclusion
  <2>3. Told[c] = Account!Doubt
    BY <1>2, <2>1, <2>2, CallFacts DEF CallTold, Counts, Returned
  <2>4. Account!Place(c, o)
    BY <1>2, <1>3, <1>4, <1>5, <1>7, <2>3, RespondMaps DEF Account!Place
  <2> QED
    BY <2>4 DEF AccountStep, Account!Next, Account!CallStep
<1> QED
  BY <1>6, <1>7

LEMMA StillCalls ==
    ASSUME UNCHANGED <<pc, req, wire, reply, answer>>
    PROVE  UNCHANGED <<Asking, Decided, Told>>
BY DEF Asking, Decided, Told, Counts, Returned

LEMMA MovesMap ==
    ASSUME AInv, NEW x \in Things,
           (x \in Orders /\ OrderMoves(x)) \/ (x \notin Orders /\ AccountMoves(x))
    PROVE  AccountStep
<1>1. UNCHANGED <<maker, Asking, Decided, Told>>
  BY StillCalls DEF OrderMoves, AccountMoves
<1>2. world \in [Things -> Words] /\ world[x] \in WordsOf(x)
  BY DEF AInv, IInv, TypeOK
<1>3. Account!Becomes(x) /\ (x \in Orders => world[x] \notin Account!Over \cup {"Absent"})
  <2>1. CASE x \in Orders /\ OrderMoves(x)
    BY <1>2, <2>1 DEF OrderMoves, Account!Becomes, Account!Over, Active, Final, Words, OrderWords,
                       Unlisted
  <2>2. CASE x \notin Orders /\ AccountMoves(x)
    <3>1. WordsOf(x) \subseteq Words \ {"Absent"}
      BY <2>2, WordFacts
      DEF Things, Words, PositionWords, CoinWords, InstrumentWords, KeyWords
    <3> QED
      BY <1>2, <2>2, <3>1 DEF AccountMoves, Account!Becomes
  <2> QED
    BY <2>1, <2>2
<1>4. Account!Move(x)
  BY <1>1, <1>3 DEF Account!Move
<1> QED
  BY <1>4 DEF AccountStep, Account!Next, Things

LEMMA StepMaps == AInv /\ [Next]_vars => AccountStep
<1>1. ASSUME AInv, UNCHANGED vars PROVE AccountStep
  BY <1>1, StillCalls DEF vars, AccountStep, Account!vars
<1>2. ASSUME AInv, NEW c \in Calls, ClientStep(c) PROVE AccountStep
  BY <1>2, CallMaps, CallRefusedMaps, LimiterRefusesMaps, LimiterGrantsMaps,
     RequestFailsMaps, ReceiveMaps, FinishMaps DEF ClientStep
<1>3. ASSUME AInv, NEW c \in Calls, ExchangeStep(c) PROVE AccountStep
  BY <1>3, RefuseMaps, TakeCancelMaps, ListMaps, PlaceOrderMaps DEF ExchangeStep
<1>4. Orders \subseteq Things
  BY DEF Things
<1> QED
  BY <1>1, <1>2, <1>3, <1>4, MovesMap DEF Next

LEMMA InitMaps == Init => Account!Init
<1> SUFFICES ASSUME Init PROVE Account!Init
  OBVIOUS
<1>1. \A c \in Calls : Asking[c] = None /\ Decided[c] = NoAnswer /\ Told[c] = NoAnswer
  BY CallFacts DEF CallTold, Init, Counts
<1>2. /\ Asking = [c \in Calls |-> None] /\ Decided = [c \in Calls |-> NoAnswer]
      /\ Told = [c \in Calls |-> NoAnswer]
  BY <1>1 DEF Asking, Decided, Told
<1>3. world \in [Things -> Words]
  BY InitType DEF TypeOK
<1> QED
  BY <1>2, <1>3, SaidFacts DEF Init, Account!Init

\* The client implements AtomicAccount, however many calls overlap, whatever
\* replies are lost or late and however the account moves: a call that succeeds
\* took effect or looked at the account at one instant between its start and
\* its return and reports that whole look; a call that was told "no" has and
\* will have no effect; a retry of an order in doubt never places another.
THEOREM CallsAreAtomic == Spec => ImplementsAtomicAccount
<1>1. Init => AInv /\ Account!Init
  BY InitType, InitProgress, InitBook, InitSeen, InitTruth, InitReal, InitMaps DEF AInv, IInv
<1>2. AInv /\ [Next]_vars => AInv'
  BY StepType, StepProgress, StepBook, StepSeen, StepTruth, StepReal DEF AInv, IInv
<1>3. AInv /\ [Next]_vars => [Account!Next]_(Account!vars)
  BY StepMaps DEF AccountStep
<1> QED
  BY <1>1, <1>2, <1>3, PTL DEF Spec, ImplementsAtomicAccount, Account!Spec
=============================================================================
