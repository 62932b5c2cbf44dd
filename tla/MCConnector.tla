------------------------------- MODULE MCConnector -------------------------------
(***************************************************************************)
(* Instances of Connector for TLC.                                         *)
(***************************************************************************)
EXTENDS Connector, TLC

\* Safety runs only.
Symmetry == Permutations(Callers)

\* State bound of the safety run: one life of the connector, that is no
\* successful Connect after Disconnect.
OneLife == ~reused
=============================================================================
