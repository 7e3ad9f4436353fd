------------------------------ MODULE Gateway ------------------------------
(***************************************************************************)
(* The translation gateway (translation/gateway.py): BabelDOC's threads    *)
(* call translate; each call looks in the segment cache                    *)
(* (translation/cache.py), has a miss translated by the translator or      *)
(* through the batch worker, validates what comes back, asks for repairs,  *)
(* and stores what is valid.  The cache outlives the gateway: the next one *)
(* may work with another model, glossary or context.                       *)
(*                                                                         *)
(* What a translator answers is open: any text, or an exception.           *)
(***************************************************************************)
EXTENDS BatchWorker, Validation

CONSTANTS
    Sources,      \* the segments that are translated
    Outputs,      \* the texts a translator answers
    Settings,     \* translator, model, effort, prompt, glossary and context
    MaxRepairs,   \* max_repair_attempts
    MaxGateways,  \* bound: gateways opened on one cache, one after the other
    NoText

ASSUME GatewayAssumption ==
    /\ Sources \subseteq Texts /\ Outputs \subseteq Texts
    /\ MaxRepairs \in Nat /\ MaxGateways \in Nat \ {0}

VARIABLES
    settings,   \* what this gateway was built with
    batching,   \* was it given a batch worker?
    opened,     \* gateways opened so far
    cacheOpen,  \* self._cache has its database
    closed,     \* close has returned
    cache,      \* the rows of the cache, by key
    phase,      \* where each caller's translate stands
    source,     \* the segment it was called with
    repairs,    \* repair turns it has asked for
    result      \* the text it holds, and in the end returns; or its error

gatewayVars == <<settings, batching, opened, cacheOpen, closed>>
callVars    == <<phase, source, repairs, result>>
vars        == <<batchVars, gatewayVars, cache, callVars>>

\* A text remembers the segment it was made for, and the settings.
Made(c, text) == [text |-> text, of |-> source[c], with |-> settings]
Results == [text : Outputs \cup Sources, of : Sources, with : Settings]

\* Mutant: the key covers the segment only.
MakeKeyOfText(segment, with) == [segment |-> segment, with |-> CHOOSE s \in Settings : TRUE]

\* make_key covers every input that affects the output.
MakeKey(segment, with) == [segment |-> segment, with |-> with]

Keys == [segment : Sources, with : Settings]
Key(c) == MakeKey(source[c], settings)

Init ==
    /\ BatchInit
    /\ settings \in Settings /\ batching \in BOOLEAN /\ cacheOpen \in BOOLEAN
    /\ closed = FALSE /\ opened = 1
    /\ cache = [k \in Keys |-> NoText]
    /\ phase = [c \in Callers |-> "idle"]
    /\ source \in [Callers -> Sources]
    /\ repairs = [c \in Callers |-> 0]
    /\ result = [c \in Callers |-> NoText]

-----------------------------------------------------------------------------
(***************************************************************************)
(* translate: a blank segment and a cached one return at once; the cache   *)
(* is not asked once it is closed.                                         *)
(***************************************************************************)
Move(c, to, what) ==
    /\ phase' = [phase EXCEPT ![c] = to]
    /\ result' = [result EXCEPT ![c] = what]

Called(c) == phase[c] = "idle"
Cached(c) == cacheOpen /\ cache[Key(c)] # NoText

ReturnBlank(c) ==
    /\ Called(c) /\ source[c].blank
    /\ Move(c, "done", Made(c, source[c]))
    /\ UNCHANGED <<batchVars, gatewayVars, cache, source, repairs>>

ReturnCached(c) ==
    /\ Called(c) /\ ~source[c].blank /\ Cached(c)
    /\ Move(c, "done", cache[Key(c)])
    /\ UNCHANGED <<batchVars, gatewayVars, cache, source, repairs>>

AskTranslator(c) ==
    /\ Called(c) /\ ~source[c].blank /\ ~Cached(c) /\ ~batching
    /\ Move(c, "translating", NoText)
    /\ UNCHANGED <<batchVars, gatewayVars, cache, source, repairs>>

AskBatch(c) ==
    /\ Called(c) /\ ~source[c].blank /\ ~Cached(c) /\ batching
    /\ Submit(c)
    /\ Move(c, "queued", NoText)
    /\ UNCHANGED <<gatewayVars, cache, source, repairs>>

\* Mutant: one repair more than is allowed.
CheckOnceMore(c, made) ==
    IF Valid(source[c], made.text)
      THEN Move(c, "storing", made) /\ UNCHANGED repairs
      ELSE IF repairs[c] <= MaxRepairs
        THEN /\ Move(c, "translating", NoText)
             /\ repairs' = [repairs EXCEPT ![c] = @ + 1]
        ELSE Move(c, "done", Failed) /\ UNCHANGED repairs

\* Mutant: the last repair is taken as it is.
CheckButLast(c, made) ==
    IF Valid(source[c], made.text) \/ repairs[c] = MaxRepairs
      THEN Move(c, "storing", made) /\ UNCHANGED repairs
      ELSE /\ Move(c, "translating", NoText)
           /\ repairs' = [repairs EXCEPT ![c] = @ + 1]

\* _validate_and_repair, on each text: a repair goes to the translator
\* itself, not through the batch.
Check(c, made) ==
    IF Valid(source[c], made.text)
      THEN Move(c, "storing", made) /\ UNCHANGED repairs
      ELSE IF repairs[c] < MaxRepairs
        THEN /\ Move(c, "translating", NoText)
             /\ repairs' = [repairs EXCEPT ![c] = @ + 1]
        ELSE Move(c, "done", Failed) /\ UNCHANGED repairs

TranslatorAnswers(c, text) ==
    /\ phase[c] = "translating"
    /\ Check(c, Made(c, text))
    /\ UNCHANGED <<batchVars, gatewayVars, cache, source>>

TranslatorRaises(c) ==
    /\ phase[c] = "translating"
    /\ Move(c, "done", Failed)
    /\ UNCHANGED <<batchVars, gatewayVars, cache, source, repairs>>

\* submit wakes up with a result or an error, or gives up.
Collect(c) ==
    /\ phase[c] = "queued" /\ answer[c] # NoAnswer
    /\ IF answer[c] = Failed
         THEN Move(c, "done", Failed) /\ UNCHANGED repairs
         ELSE Check(c, answer[c])
    /\ UNCHANGED <<batchVars, gatewayVars, cache, source>>

TimeOut(c) ==
    /\ phase[c] = "queued" /\ answer[c] = NoAnswer
    /\ Move(c, "done", Failed)
    /\ UNCHANGED <<batchVars, gatewayVars, cache, source, repairs>>

\* _store_cache, and the return: a closed cache takes nothing.
Store(c) ==
    /\ phase[c] = "storing"
    /\ cache' = IF cacheOpen THEN [cache EXCEPT ![Key(c)] = result[c]] ELSE cache
    /\ Move(c, "done", result[c])
    /\ UNCHANGED <<batchVars, gatewayVars, source, repairs>>

-----------------------------------------------------------------------------
(***************************************************************************)
(* The worker thread, whose handler may be given requests that have timed  *)
(* out, and the cache's own ends: a row grows older than the TTL, which    *)
(* get takes for a miss, or the cache is cleared.                          *)
(***************************************************************************)
WorkerSteps ==
    /\ batching
    /\ \/ Test
       \/ Flush([c \in Callers |-> source[c].chars])
    /\ UNCHANGED <<gatewayVars, cache, callVars>>

HandlerEnds ==
    /\ batching
    /\ \/ \E answered \in SUBSET ToSet(batch) : \E texts \in [answered -> Outputs] :
            Deliver([c \in answered |-> Made(c, texts[c])])
       \/ HandlerRaises
    /\ UNCHANGED <<gatewayVars, cache, callVars>>

Expire(k) ==
    /\ cache[k] # NoText
    /\ cache' = [cache EXCEPT ![k] = NoText]
    /\ UNCHANGED <<batchVars, gatewayVars, callVars>>

Clear ==
    /\ cacheOpen
    /\ cache' = [k \in Keys |-> NoText]
    /\ UNCHANGED <<batchVars, gatewayVars, callVars>>

(***************************************************************************)
(* close may come while calls are under way: BabelDOC's threads outlive a  *)
(* cancelled run.  The next gateway has callers of its own.                *)
(***************************************************************************)
BeginClose ==
    /\ batching /\ Shutdown
    /\ UNCHANGED <<gatewayVars, cache, callVars>>

JoinEnds ==
    /\ batching /\ WakeQueued
    /\ UNCHANGED <<gatewayVars, cache, callVars>>

\* The translator and the cache are closed.
Close ==
    /\ ~closed /\ (batching => stopping = "done")
    /\ closed' = TRUE /\ cacheOpen' = FALSE
    /\ UNCHANGED <<batchVars, settings, batching, opened, cache, callVars>>

Reopen ==
    /\ closed /\ opened < MaxGateways
    /\ \A c \in Callers : phase[c] \in {"idle", "done"}
    /\ Renew
    /\ settings' \in Settings /\ batching' \in BOOLEAN /\ cacheOpen' \in BOOLEAN
    /\ closed' = FALSE /\ opened' = opened + 1
    /\ phase' = [c \in Callers |-> "idle"]
    /\ source' \in [Callers -> Sources]
    /\ repairs' = [c \in Callers |-> 0]
    /\ result' = [c \in Callers |-> NoText]
    /\ UNCHANGED cache

-----------------------------------------------------------------------------
Translate(c) ==
    \/ ReturnBlank(c) \/ ReturnCached(c) \/ AskTranslator(c) \/ AskBatch(c)
    \/ Collect(c) \/ Store(c)

TranslatorEnds(c) ==
    \/ \E text \in Outputs : TranslatorAnswers(c, text)
    \/ TranslatorRaises(c)

Next ==
    \/ \E c \in Callers : Translate(c) \/ TranslatorEnds(c) \/ TimeOut(c)
    \/ WorkerSteps \/ HandlerEnds
    \/ \E k \in Keys : Expire(k)
    \/ Clear
    \/ BeginClose \/ JoinEnds \/ Close \/ Reopen

Spec == Init /\ [][Next]_vars

\* Threads run, turns end and the join gives up.  That the wait in submit
\* gives up too is left out: CallsEnd is to hold without it.
Fairness ==
    /\ \A c \in Callers :
         /\ WF_vars(Collect(c) \/ Store(c))
         /\ WF_vars(TranslatorEnds(c))
    /\ WF_vars(WorkerSteps) /\ WF_vars(HandlerEnds) /\ WF_vars(JoinEnds)

FairSpec == Spec /\ Fairness

-----------------------------------------------------------------------------
Phases == {"idle", "queued", "translating", "storing", "done"}

TypeOK ==
    /\ queue \in Seq(Callers) /\ batch \in Seq(Callers)
    /\ worker \in {"testing", "waiting", "handling", "exited"}
    /\ shut \in BOOLEAN /\ stopping \in {"no", "joining", "done"}
    /\ answer \in [Callers -> Results \cup {NoAnswer, Failed}]
    /\ settings \in Settings /\ opened \in 1..MaxGateways
    /\ {batching, cacheOpen, closed} \subseteq BOOLEAN
    /\ cache \in [Keys -> Results \cup {NoText}]
    /\ phase \in [Callers -> Phases] /\ source \in [Callers -> Sources]
    /\ repairs \in [Callers -> 0..MaxRepairs]
    /\ result \in [Callers -> Results \cup {NoText, Failed}]

(***************************************************************************)
(* A text that translate returns was made for the segment it was called    *)
(* with, under this gateway's settings, and is valid for it, whether it    *)
(* came from the translator, the batch, a repair or the cache ("an invalid *)
(* result must never reach BabelDOC's typesetting stage", validation.py).  *)
(***************************************************************************)
Returned(c) == phase[c] = "done" /\ result[c] # Failed

OnlyValidTexts ==
    \A c \in Callers : Returned(c) /\ ~source[c].blank =>
        /\ result[c].of = source[c] /\ result[c].with = settings
        /\ Valid(source[c], result[c].text)

(***************************************************************************)
(* A segment whose own tags do not pair never gets a translation: no       *)
(* output has its tokens and paired tags as well, so the call fails, for   *)
(* good, after every repair (gateway.py raises with retryable=False).      *)
(***************************************************************************)
TornSourcesFail ==
    \A c \in Callers :
        phase[c] = "done" /\ ~source[c].blank /\ TagBalanceErrors(source[c]) # {}
            => result[c] = Failed

(***************************************************************************)
(* Every call ends without the help of its time-out, through a shutdown    *)
(* that gives up on the worker and requests queued behind its back.  The   *)
(* exception is a request queued after the shutdown has emptied the queue. *)
(***************************************************************************)
Forgotten(c) ==
    phase[c] = "queued" /\ answer[c] = NoAnswer /\ stopping = "done" /\ c \notin ToSet(batch)

CallsEnd ==
    \A c \in Callers :
        phase[c] \notin {"idle", "done"} /\ ~Forgotten(c) ~> phase[c] = "done"
=============================================================================
