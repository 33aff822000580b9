----------------------------- MODULE MCViewport -----------------------------
(***************************************************************************)
(* Views with all parts and with some, of several heights: two of images,  *)
(* 0, a negative one, and one that is too large.  One project has no view. *)
(* MaxInt and MaxHeight are scaled down: TLC counts to 2^31.               *)
(***************************************************************************)
EXTENDS Viewport

CONSTANTS vFull, vSmall, vZero, vMinus, vHuge, vTransfer,
          pFull, pSmall, pMinus, pHuge, pTransfer, pNoView

MCHeightOf == [v \in Views |->
  CASE v = vSmall -> 300 [] v = vZero -> 0 [] v = vMinus -> -400 [] v = vHuge -> 4000
    [] OTHER -> NoHeight]

MCViewOf == [p \in Projects |->
  CASE p = pFull -> vFull [] p = pSmall -> vSmall [] p = pMinus -> vMinus
    [] p = pHuge -> vHuge [] p = pTransfer -> vTransfer [] OTHER -> NoView]

MCKindOf == [p \in Projects |-> IF p = pSmall THEN "tets" ELSE "grid"]
=============================================================================
