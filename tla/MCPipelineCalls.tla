-------------------------- MODULE MCPipelineCalls --------------------------
(***************************************************************************)
(* PipelineCalls for TLC: three keyings whose blobs fit the first buffer,  *)
(* overflow it, and overflow the retry's as well.                          *)
(***************************************************************************)
EXTENDS PipelineCalls, TLC

CONSTANTS v1, v2, v3

MCVersions == {v1, v2, v3}
MCSize == v1 :> 1 @@ v2 :> 2 @@ v3 :> 3
MCSymmetry == Permutations(Threads)
=============================================================================
