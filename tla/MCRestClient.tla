----------------------------- MODULE MCRestClient -----------------------------
(***************************************************************************)
(* Instances of RestClient for TLC.                                        *)
(***************************************************************************)
EXTENDS RestClient, Naturals, TLC

\* Calls, identifiers and orders are interchangeable: no definition chooses one.
Symmetry == Permutations(Calls) \cup Permutations(Links) \cup Permutations(Orders)

\* State bound.  Only SubmitOrder writes to the exchange, so two reads cannot
\* disturb each other, and what an account read returns depends on no order:
\* any number of SubmitOrder runs beside one other call about orders, or one
\* call about the account runs alone, and then only what it asks about may
\* differ from the usual.  Which decimal of an order is malformed makes no
\* difference to its decoder, and two orders of an unlisted status are decoded
\* like one.
Others == {c \in Calls : req[c] # None /\ req[c].kind # "create"}
AboutAccount(c) == req[c].kind \in {"position", "positions", "balance", "symbol",
                                      "permissions", "refresh"}
Asked == UNION {Scope(req[c]) : c \in Others}
Usual(things) == \A x \in things : world[x] \in {"Zero", "Trading", "Trade", "Absent"}

OneReader ==
    /\ Cardinality(Others) <= 1
    /\ \A c \in Calls : \A x \in DOMAIN reply[c].list :
          x \in Orders => reply[c].list[x].bad # "amount"
    /\ Cardinality({o \in Orders : world[o] \in Unlisted}) <= 1
    /\ \/ /\ Usual(Things \ Orders)
          /\ \A c \in Others : ~AboutAccount(c)
       \/ /\ Usual(Orders)
          /\ \A c \in Calls : req[c] # None => AboutAccount(c)
          /\ Usual(Things \ Asked) \/ \A c \in Calls : pc[c] = "new"
=============================================================================
