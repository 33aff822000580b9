----------------------------- MODULE MCDXServer -----------------------------
(***************************************************************************)
(* Two browsers; the first may connect twice, as with two tabs or after a  *)
(* page reload.                                                            *)
(***************************************************************************)
EXTENDS DXServer

CONSTANTS k1, k2, k3, s1, s2, s3, b1, b2

MCBrowserOf == [s \in {s1, s2, s3} |-> IF s = s3 THEN b2 ELSE b1]
MCKeySeq == <<k1, k2, k3>>
=============================================================================
