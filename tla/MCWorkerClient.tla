-------------------------- MODULE MCWorkerClient --------------------------
(***************************************************************************)
(* WorkerClient for TLC: a couple of progress events, and a process of the *)
(* SDK that may keep the pipes open.                                       *)
(***************************************************************************)
EXTENDS WorkerClient
=============================================================================
