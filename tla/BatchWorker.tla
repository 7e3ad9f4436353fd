---------------------------- MODULE BatchWorker ----------------------------
(***************************************************************************)
(* The batch queue of translation/batching.py: callers blocked in submit,  *)
(* the worker thread that drains the queue and has a whole batch handled,  *)
(* and shutdown, which may return while the worker is still busy.  Each    *)
(* caller has at most one request, which its name stands for.              *)
(***************************************************************************)
EXTENDS Integers, FiniteSets, SequencesExt

CONSTANTS
    Callers,
    MaxItems,   \* max_items
    MaxChars,   \* max_chars
    NoAnswer, Failed

ASSUME BatchAssumption ==
    /\ MaxItems \in Nat \ {0}
    /\ MaxChars \in Nat
    /\ NoAnswer # Failed

VARIABLES
    queue,      \* self._queue
    batch,      \* the batch being handled
    worker,     \* where the worker thread stands
    shut,       \* self._shutdown
    stopping,   \* where shutdown stands
    answer      \* result or error of each pending request

batchVars == <<queue, batch, worker, shut, stopping, answer>>

BatchInit ==
    /\ queue = <<>> /\ batch = <<>> /\ worker = "testing"
    /\ shut = FALSE /\ stopping = "no"
    /\ answer = [c \in Callers |-> NoAnswer]

\* Another worker, with a queue of its own.
Renew ==
    /\ queue' = <<>> /\ batch' = <<>> /\ worker' = "testing"
    /\ shut' = FALSE /\ stopping' = "no"
    /\ answer' = [c \in Callers |-> NoAnswer]

Tell(callers, what) == [c \in Callers |-> IF c \in callers THEN what ELSE answer[c]]

\* submit: the flag of shutdown is not looked at.
Submit(c) ==
    /\ queue' = Append(queue, c)
    /\ UNCHANGED <<batch, worker, shut, stopping, answer>>

(***************************************************************************)
(* The worker's loop: the test of the flag, a wait that always ends with   *)
(* the window, and a batch as long as the limits allow.                    *)
(***************************************************************************)
Test ==
    /\ worker = "testing"
    /\ worker' = IF shut THEN "exited" ELSE "waiting"
    /\ UNCHANGED <<queue, batch, shut, stopping, answer>>

\* The first request is taken whatever its size.
Fits(n, size) ==
    /\ n <= Len(queue) /\ n <= MaxItems
    /\ n = 1 \/ FoldSeq(LAMBDA c, sum : sum + size[c], 0, SubSeq(queue, 1, n)) <= MaxChars

\* _drain, and the start of _flush.
Flush(size) ==
    /\ worker = "waiting"
    /\ \E n \in 0..Len(queue) :
         /\ n = 0 \/ Fits(n, size)
         /\ ~Fits(n + 1, size)
         /\ queue' = SubSeq(queue, n + 1, Len(queue))
         /\ batch' = SubSeq(queue, 1, n)
         /\ worker' = IF n = 0 THEN "testing" ELSE "handling"
    /\ UNCHANGED <<shut, stopping, answer>>

\* The handler returned results for some of the requests: the others fail.
Deliver(results) ==
    /\ worker = "handling"
    /\ answer' = [c \in Callers |->
                    IF c \in DOMAIN results THEN results[c]
                    ELSE IF c \in ToSet(batch) THEN Failed ELSE answer[c]]
    /\ batch' = <<>> /\ worker' = "testing"
    /\ UNCHANGED <<queue, shut, stopping>>

\* The handler raised, or its response did not name exactly the requests.
HandlerRaises ==
    /\ worker = "handling"
    /\ answer' = Tell(ToSet(batch), Failed)
    /\ batch' = <<>> /\ worker' = "testing"
    /\ UNCHANGED <<queue, shut, stopping>>

(***************************************************************************)
(* shutdown: the flag, a join that gives up after a while, then an error   *)
(* for what the queue holds.                                               *)
(***************************************************************************)
Shutdown ==
    /\ stopping = "no"
    /\ shut' = TRUE /\ stopping' = "joining"
    /\ UNCHANGED <<queue, batch, worker, answer>>

\* Mutant: the queue is dropped and nobody is told.
WakeNobody ==
    /\ stopping = "joining"
    /\ stopping' = "done" /\ queue' = <<>>
    /\ UNCHANGED <<batch, worker, shut, answer>>

\* Whether or not the worker has left its loop by then.
WakeQueued ==
    /\ stopping = "joining"
    /\ stopping' = "done"
    /\ queue' = <<>> /\ answer' = Tell(ToSet(queue), Failed)
    /\ UNCHANGED <<batch, worker, shut>>
=============================================================================
