------------------------------- MODULE StreamLink -------------------------------
(***************************************************************************)
(* The abstract specification of the client of websocket_client.go, as its *)
(* user sees it: a link that goes up and down, topics that are remembered  *)
(* for good and are sent only on a live connection, at most one party that *)
(* owes the announcement of a loss, and an end that waits for the client's *)
(* own goroutines.  WebSocketClient implements it.                         *)
(***************************************************************************)

CONSTANTS
    Topics,
    Announcers,  \* who may owe an announcement
    Counted      \* those among them that the end waits for

VARIABLES
    up,          \* there is a connection
    remembered,  \* topics that were subscribed
    live,        \* topics sent on the connection
    owed,        \* those who have yet to announce a loss
    phase        \* "open", "closing" or "ended"

vars == <<up, remembered, live, owed, phase>>

Init ==
    /\ up = FALSE
    /\ remembered = {} /\ live = {} /\ owed = {}
    /\ phase = "open"

\* A new connection carries no topic yet.  Closing does not exclude it: a
\* Connect that races with Close may still succeed.
Establish ==
    /\ ~up
    /\ up' = TRUE /\ live' = {}
    /\ UNCHANGED <<remembered, owed, phase>>

Remember(t) ==
    /\ remembered' = remembered \cup {t}
    /\ UNCHANGED <<up, live, owed, phase>>

Send(t) ==
    /\ up /\ t \in remembered
    /\ live' = live \cup {t}
    /\ UNCHANGED <<up, remembered, owed, phase>>

\* The connection is given up, and exactly one party will say so.
Lose(a) ==
    /\ up /\ a \notin owed
    /\ up' = FALSE /\ live' = {}
    /\ owed' = owed \cup {a}
    /\ UNCHANGED <<remembered, phase>>

\* The loss is announced, unless the events channel is full or closed.
Announce(a) ==
    /\ a \in owed
    /\ owed' = owed \ {a}
    /\ UNCHANGED <<up, remembered, live, phase>>

\* Closing gives the connection up without an announcement.
Shut ==
    /\ phase = "open"
    /\ phase' = "closing"
    /\ up' = FALSE /\ live' = {}
    /\ UNCHANGED <<remembered, owed>>

\* The event channel is closed once its own users are through with it.
End ==
    /\ phase = "closing"
    /\ owed \cap Counted = {}
    /\ phase' = "ended"
    /\ UNCHANGED <<up, remembered, live, owed>>

Next ==
    \/ Establish \/ Shut \/ End
    \/ \E t \in Topics : Remember(t) \/ Send(t)
    \/ \E a \in Announcers : Lose(a) \/ Announce(a)

Spec == Init /\ [][Next]_vars
=============================================================================
