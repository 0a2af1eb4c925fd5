-------------------------- MODULE MCOneShotPackets --------------------------
(***************************************************************************)
(* Messages of every length from none to one more than an update takes.    *)
(***************************************************************************)
EXTENDS OneShotPackets

CONSTANTS a, b

MCMessages == {<<>>, <<a>>, <<a, b>>, <<a, a, b>>, <<a, a, b, b>>}
=============================================================================
