--------------------------- MODULE MCWebSocketClient ---------------------------
(***************************************************************************)
(* Instances of WebSocketClient for TLC.                                   *)
(***************************************************************************)
EXTENDS WebSocketClient, FiniteSets, TLC

\* Callers, connection objects and topics are interchangeable: no definition
\* chooses one.  Safety runs only.
Symmetry == Permutations(Callers) \cup Permutations(Conns) \cup Permutations(Topics)

\* State bound of the safety run: two callers compete while the client is
\* open, and Close, at any moment, meets at most one of them in a call.
CloseMeetsOneCaller ==
    ~At("closer", "idle") => Cardinality({a \in Callers : ~At(a, "idle")}) <= 1

\* State bound of the recovery run: Close is not called.
StillOpen == At("closer", "idle")
=============================================================================
