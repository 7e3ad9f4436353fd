----------------------------- MODULE MCSidecar -----------------------------
(***************************************************************************)
(* Instances of Sidecar for TLC: two jobs, so that one can wait behind the *)
(* other, and three handles, so that one can be running and one be queued  *)
(* while a stale one is still referred to.                                 *)
(***************************************************************************)
EXTENDS Sidecar

CONSTANTS j1, j2, h1, h2, h3

TwoJobs == {j1, j2}
ThreeHandles == {h1, h2, h3}
=============================================================================
