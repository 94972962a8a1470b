----------------------------- MODULE MCRoundTrip -----------------------------
(***************************************************************************)
(* RoundTrip on the values of MCGraphs.                                    *)
(***************************************************************************)
EXTENDS RoundTrip, MCGraphs
=============================================================================
