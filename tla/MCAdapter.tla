----------------------------- MODULE MCAdapter ------------------------------
(***************************************************************************)
(* Any call, and feeds of up to three items.                               *)
(***************************************************************************)
EXTENDS Adapter
=============================================================================
