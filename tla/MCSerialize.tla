----------------------------- MODULE MCSerialize -----------------------------
(***************************************************************************)
(* Serialize on the values of MCGraphs.                                    *)
(***************************************************************************)
EXTENDS Serialize, MCGraphs
=============================================================================
