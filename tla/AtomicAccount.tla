----------------------------- MODULE AtomicAccount -----------------------------
(***************************************************************************)
(* The abstract specification of the REST calls, as their caller sees      *)
(* them: every call that succeeds took effect, or looked at the account,   *)
(* at one instant between its start and its return.  An error either says  *)
(* that there was no effect and will be none, or leaves the caller in      *)
(* doubt; in doubt about an order, it may ask again under the same         *)
(* identifier.  RestClient implements it.                                  *)
(***************************************************************************)

CONSTANTS
    Calls, Requests,
    Things, Words,   \* what the account holds, and what there is to say of it
    Orders,          \* those of the things that calls place
    None,
    TrueAnswer(_, _)      \* the answer to a request about an account

VARIABLES
    world,           \* the account
    maker,           \* the call that placed an order
    asks,            \* what each call asks
    decided,         \* what came of it, until the call returns
    told             \* what the call returned

vars == <<world, maker, asks, decided, told>>

Said(r) == [result |-> r, list |-> [x \in {} |-> None]]
NotYet == Said("none")
Done == Said("ok")
No == Said("no")
Doubt == Said("doubt")

Open == {"New", "PartiallyFilled"}
Over == {"Filled", "Cancelled", "Rejected", "OtherFinal"}

Init ==
    /\ world \in [Things -> Words]
    /\ maker = [o \in Orders |-> None]
    /\ asks = [c \in Calls |-> None]
    /\ decided = [c \in Calls |-> NotYet]
    /\ told = [c \in Calls |-> NotYet]

\* The call c asks something, and nothing changes for another call.
Asks(c) ==
    /\ asks[c] = None /\ asks'[c] \in Requests
    /\ asks' = [asks EXCEPT ![c] = asks'[c]]
    /\ UNCHANGED <<world, maker, decided>>

Ask(c) == Asks(c) /\ UNCHANGED told

\* The call fails at once.
TurnAway(c) == Asks(c) /\ told' = [told EXCEPT ![c] = No]

\* Only the thing x changes, to anything but "Absent".
Becomes(x) ==
    /\ world'[x] # world[x] /\ world'[x] \in Words \ {"Absent"}
    /\ world' = [world EXCEPT ![x] = world'[x]]

Undecided(c) == asks[c] # None /\ told[c] = NotYet /\ decided[c] = NotYet

Refuse(c) ==
    /\ Undecided(c)
    /\ decided' = [decided EXCEPT ![c] = No]
    /\ UNCHANGED <<world, maker, asks, told>>

\* One look at the account decides the whole answer.
Look(c) ==
    /\ Undecided(c) /\ asks[c].kind \notin {"create", "cancel"}
    /\ decided' = [decided EXCEPT ![c] = TrueAnswer(asks[c], world)]
    /\ UNCHANGED <<world, maker, asks, told>>

Cancel(c) ==
    /\ Undecided(c) /\ asks[c].kind = "cancel"
    /\ world[asks[c].of] \in Open
    /\ decided' = [decided EXCEPT ![c] = Done]
    /\ UNCHANGED <<world, maker, asks, told>>

\* One order for each identifier.  It may be placed after the call returned,
\* if it left its caller in doubt.
Place(c, o) ==
    /\ asks[c] # None /\ asks[c].kind = "create"
    /\ world[o] = "Absent" /\ maker[o] = None
    /\ \A p \in Orders : maker[p] # None => asks[maker[p]].of # asks[c].of
    /\ maker' = [maker EXCEPT ![o] = c]
    /\ Becomes(o)
    /\ \/ Undecided(c) /\ decided' = [decided EXCEPT ![c] = Done]
       \/ told[c] = Doubt /\ UNCHANGED decided
    /\ UNCHANGED <<asks, told>>

\* The account moves by itself; an order that is over stays so.
Move(x) ==
    /\ Becomes(x)
    /\ x \in Orders => world[x] \notin Over \cup {"Absent"}
    /\ UNCHANGED <<maker, asks, decided, told>>

Return(c) ==
    /\ asks[c] # None /\ told[c] = NotYet
    /\ \/ decided[c] # NotYet /\ told' = [told EXCEPT ![c] = decided[c]]
       \/ decided[c] = NotYet /\ told' = [told EXCEPT ![c] = No]
       \/ told' = [told EXCEPT ![c] = Doubt]
    /\ decided' = [decided EXCEPT ![c] = NotYet]
    /\ UNCHANGED <<world, maker, asks>>

\* What came of an order is remembered.
Forget(c) ==
    /\ told[c] # NotYet /\ asks[c].kind # "create"
    /\ asks' = [asks EXCEPT ![c] = None]
    /\ told' = [told EXCEPT ![c] = NotYet]
    /\ UNCHANGED <<world, maker, decided>>

CallStep(c) ==
    \/ Ask(c) \/ TurnAway(c) \/ Refuse(c) \/ Look(c) \/ Cancel(c)
    \/ \E o \in Orders : Place(c, o)
    \/ Return(c) \/ Forget(c)

Next ==
    \/ \E x \in Things : Move(x)
    \/ \E c \in Calls : CallStep(c)

Spec == Init /\ [][Next]_vars
=============================================================================
