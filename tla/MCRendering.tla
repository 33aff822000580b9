---------------------------- MODULE MCRendering ----------------------------
(***************************************************************************)
(* A project of each kind, one in a format that is not read yet, one       *)
(* without a view, one that asks for an odd height, and one with values    *)
(* of an unknown type.                                                     *)
(***************************************************************************)
EXTENDS Rendering

CONSTANTS pGrid, pTets, pTodo, pNoView, pOdd, pUntyped

MCDataOf == [p \in Projects |->
  IF p = pTets THEN "tets" ELSE IF p = pTodo THEN "todo" ELSE "grid"]

MCViewOf == [p \in Projects |->
  IF p = pTets THEN "tets" ELSE IF p = pNoView THEN "none" ELSE "grid"]
=============================================================================
