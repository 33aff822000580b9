--------------------------- MODULE MCResolveList ---------------------------
(***************************************************************************)
(* An int of two bits.                                                     *)
(***************************************************************************)
EXTENDS ResolveList

MCFirst == -2
=============================================================================
