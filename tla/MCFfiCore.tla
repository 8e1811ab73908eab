----------------------------- MODULE MCFfiCore -----------------------------
(***************************************************************************)
(* FfiCore for TLC: three diagnostics, two of one length and one longer,   *)
(* so that a diagnostic may grow, shrink or change between the two calls   *)
(* of last_error().                                                        *)
(***************************************************************************)
EXTENDS FfiCore, TLC

CONSTANTS m1, m2, m3

MCMessages == {m1, m2, m3}
MCMessageLen == m1 :> 1 @@ m2 :> 1 @@ m3 :> 2
=============================================================================
