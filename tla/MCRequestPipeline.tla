------------------------- MODULE MCRequestPipeline -------------------------
(***************************************************************************)
(* A small instance of RequestPipeline for TLC.                            *)
(***************************************************************************)
EXTENDS RequestPipeline

CONSTANTS k1, u1

MCKeys  == {k1}
MCOwner == [k \in MCKeys |-> u1]
=============================================================================
