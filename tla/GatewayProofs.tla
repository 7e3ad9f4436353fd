--------------------------- MODULE GatewayProofs ---------------------------
(***************************************************************************)
(* Theorems about Gateway, for any segments, answers, settings, callers,   *)
(* batch limits and number of gateways on one cache.                       *)
(***************************************************************************)
EXTENDS Gateway, SequenceTheorems, TLAPS

-----------------------------------------------------------------------------
(***************************************************************************)
(* Validation: inventories that do not differ are equal, so a source whose *)
(* tags do not pair has no valid output.                                   *)
(***************************************************************************)
LEMMA SameInventories ==
    ASSUME NEW s \in Texts, NEW o \in Texts, CompareInventories(s.counts, o.counts) = {}
    PROVE  \A t \in Tokens : o.counts[t] = s.counts[t]
<1> SUFFICES ASSUME NEW t \in Tokens PROVE o.counts[t] = s.counts[t]
  OBVIOUS
<1>1. s.counts \in [Tokens -> Nat] /\ o.counts \in [Tokens -> Nat]
  BY DEF Texts
<1>2. s.counts[t] \in Nat /\ o.counts[t] \in Nat
  BY <1>1
<1>3. /\ ~(s.counts[t] > 0 /\ o.counts[t] = 0)
      /\ ~(s.counts[t] > 0 /\ o.counts[t] > 0 /\ o.counts[t] # s.counts[t])
      /\ ~(s.counts[t] = 0 /\ o.counts[t] > 0)
  BY DEF CompareInventories
<1>4. QED
  BY <1>2, <1>3

\* No text is valid for a segment whose tags do not pair.
LEMMA TornHasNoValidOutput ==
    ASSUME NEW s \in Texts, NEW o \in Texts, Valid(s, o)
    PROVE  TagBalanceErrors(s) = {}
<1>1. \A t \in Tokens : o.counts[t] = s.counts[t]
  BY SameInventories DEF Valid
<1>2. ASSUME NEW name \in Tags PROVE Balance(s, name) = Balance(o, name)
  <2>1. <<name, "open">> \in Tokens /\ <<name, "close">> \in Tokens
    BY DEF Tokens, Ends
  <2>2. QED
    BY <1>1, <2>1 DEF Balance
<1>3. \A name \in Tags : Balance(o, name) = 0
  BY DEF Valid, TagBalanceErrors
<1>4. QED
  BY <1>2, <1>3 DEF TagBalanceErrors

-----------------------------------------------------------------------------
(***************************************************************************)
(* What a caller gets is good because what the cache and the batch worker  *)
(* hold is: a row for the segment and the settings of its key, an answer   *)
(* for the segment and the settings of the caller, valid or not.           *)
(***************************************************************************)
Good(made, segment, with) ==
    /\ made \in Results /\ made.of = segment /\ made.with = with
    /\ Valid(segment, made.text)

CacheGood == \A k \in Keys : cache[k] # NoText => Good(cache[k], k.segment, k.with)

AnswersOwn ==
    \A c \in Callers : answer[c] \notin {NoAnswer, Failed} =>
        answer[c] \in Results /\ answer[c].of = source[c] /\ answer[c].with = settings

StoresGood == \A c \in Callers : phase[c] = "storing" => Good(result[c], source[c], settings)

ReturnsGood ==
    \A c \in Callers : Returned(c) /\ ~source[c].blank => Good(result[c], source[c], settings)

TextInv == TypeOK /\ CacheGood /\ AnswersOwn /\ StoresGood /\ ReturnsGood

\* Two parts of the state that most steps leave alone.
Held == <<settings, cache, answer, source>>

\* What a call makes was made under its own gateway's settings.
LEMMA MadeIsOwn ==
    ASSUME TypeOK, NEW c \in Callers, NEW text \in Outputs \cup Sources
    PROVE  /\ Made(c, text) \in Results /\ Made(c, text).text = text
           /\ Made(c, text).of = source[c] /\ Made(c, text).with = settings
BY DEF TypeOK, Made, Results

\* A call's key stands for its own segment and the present settings.
LEMMA KeyIsKey ==
    ASSUME TypeOK, NEW c \in Callers
    PROVE  Key(c) \in Keys /\ Key(c).segment = source[c] /\ Key(c).with = settings
BY DEF TypeOK, Key, MakeKey, Keys

\* A step of one caller that gives it a text to store or to return, or no text.
LEMMA MoveKeepsInv ==
    ASSUME TextInv, NEW c \in Callers, NEW to \in Phases, NEW what,
           Move(c, to, what), UNCHANGED <<settings, cache, answer, source>>,
           what \in Results \cup {NoText, Failed},
           to = "storing" => Good(what, source[c], settings),
           to = "done" => what = Failed \/ source[c].blank \/ Good(what, source[c], settings)
    PROVE  /\ phase' \in [Callers -> Phases]
           /\ result' \in [Callers -> Results \cup {NoText, Failed}]
           /\ CacheGood' /\ AnswersOwn' /\ StoresGood' /\ ReturnsGood'
<1> USE DEF TextInv
<1>1. phase' \in [Callers -> Phases] /\ result' \in [Callers -> Results \cup {NoText, Failed}]
  BY DEF Move, TypeOK
<1>2. CacheGood' /\ AnswersOwn'
  BY DEF CacheGood, AnswersOwn, Good, Keys, Results
<1>3. ASSUME NEW d \in Callers, d # c PROVE phase'[d] = phase[d] /\ result'[d] = result[d]
  BY <1>3 DEF Move, TypeOK
<1>4. phase'[c] = to /\ result'[c] = what
  BY DEF Move, TypeOK
<1>5. StoresGood'
  BY <1>3, <1>4 DEF StoresGood, Good, Results
<1>6. ReturnsGood'
  BY <1>3, <1>4 DEF ReturnsGood, Returned, Good, Results
<1>7. QED
  BY <1>1, <1>2, <1>5, <1>6

\* _validate_and_repair, on a text that was made for the caller.
LEMMA CheckKeepsInv ==
    ASSUME TextInv, NEW c \in Callers, NEW made \in Results,
           made.of = source[c], made.with = settings,
           Check(c, made), UNCHANGED <<settings, cache, answer, source>>
    PROVE  /\ phase' \in [Callers -> Phases]
           /\ result' \in [Callers -> Results \cup {NoText, Failed}]
           /\ CacheGood' /\ AnswersOwn' /\ StoresGood' /\ ReturnsGood'
           /\ repairs' \in [Callers -> 0..MaxRepairs]
<1>1. CASE Valid(source[c], made.text)
  <2>1. Good(made, source[c], settings)
    BY <1>1 DEF Good
  <2>2. Move(c, "storing", made) /\ repairs' = repairs
    BY <1>1 DEF Check
  <2>3. QED
    BY <2>1, <2>2, MoveKeepsInv DEF Phases, TextInv, TypeOK
<1>2. CASE ~Valid(source[c], made.text) /\ repairs[c] < MaxRepairs
  <2>1. Move(c, "translating", NoText) /\ repairs' = [repairs EXCEPT ![c] = @ + 1]
    BY <1>2 DEF Check
  <2>2. repairs \in [Callers -> 0..MaxRepairs] /\ MaxRepairs \in Nat
    BY GatewayAssumption DEF TextInv, TypeOK
  <2>3. repairs[c] + 1 \in 0..MaxRepairs
    BY <1>2, <2>2
  <2>4. repairs' \in [Callers -> 0..MaxRepairs]
    BY <2>1, <2>2, <2>3
  <2>5. QED
    BY <2>1, <2>4, MoveKeepsInv DEF Phases
<1>3. CASE ~Valid(source[c], made.text) /\ ~(repairs[c] < MaxRepairs)
  <2>1. Move(c, "done", Failed) /\ repairs' = repairs
    BY <1>3 DEF Check
  <2>2. QED
    BY <2>1, MoveKeepsInv DEF Phases, TextInv, TypeOK
<1>4. QED
  BY <1>1, <1>2, <1>3

\* The part of TypeOK that the callers' steps leave alone but for the queue.
LEMMA RestKept ==
    ASSUME TypeOK, queue' \in Seq(Callers),
           UNCHANGED <<batch, worker, shut, stopping, answer, gatewayVars, cache, source>>,
           phase' \in [Callers -> Phases],
           result' \in [Callers -> Results \cup {NoText, Failed}],
           repairs' \in [Callers -> 0..MaxRepairs]
    PROVE  TypeOK'
BY DEF TypeOK, gatewayVars, Results, Keys

\* A step of translate_request keeps the invariant.
LEMMA TranslateKeepsInv ==
    ASSUME TextInv, NEW c \in Callers, Translate(c)
    PROVE  TextInv'
<1> USE DEF batchVars, gatewayVars
<1>1. TypeOK /\ queue \in Seq(Callers) /\ repairs \in [Callers -> 0..MaxRepairs]
  BY DEF TextInv, TypeOK
<1>2. CASE ReturnBlank(c)
  <2>1. source[c] \in Sources
    BY <1>1 DEF TypeOK
  <2>2. Made(c, source[c]) \in Results
    BY <1>1, <2>1, MadeIsOwn
  <2>3. QED
    BY <1>1, <1>2, <2>2, MoveKeepsInv, RestKept DEF ReturnBlank, Phases, TextInv
<1>3. CASE ReturnCached(c)
  <2>1. Good(cache[Key(c)], source[c], settings)
    BY <1>1, <1>3, KeyIsKey DEF ReturnCached, Cached, TextInv, CacheGood
  <2>2. QED
    BY <1>1, <1>3, <2>1, MoveKeepsInv, RestKept DEF ReturnCached, Phases, TextInv, Good
<1>4. CASE AskTranslator(c)
  BY <1>1, <1>4, MoveKeepsInv, RestKept DEF AskTranslator, Phases, TextInv
<1>5. CASE AskBatch(c)
  <2>1. queue' \in Seq(Callers)
    BY <1>1, <1>5 DEF AskBatch, Submit
  <2>2. QED
    BY <1>1, <1>5, <2>1, MoveKeepsInv, RestKept DEF AskBatch, Submit, Phases, TextInv
<1>6. CASE Collect(c)
  <2>1. CASE answer[c] = Failed
    BY <1>1, <1>6, <2>1, MoveKeepsInv, RestKept DEF Collect, Phases, TextInv
  <2>2. CASE answer[c] # Failed
    <3>1. answer[c] \in Results /\ answer[c].of = source[c] /\ answer[c].with = settings
      BY <1>6, <2>2 DEF Collect, TextInv, AnswersOwn
    <3>2. QED
      BY <1>1, <1>6, <2>2, <3>1, CheckKeepsInv, RestKept DEF Collect, TextInv
  <2>3. QED
    BY <2>1, <2>2
<1>7. CASE Store(c)
  <2>1. Good(result[c], source[c], settings)
    BY <1>7 DEF Store, TextInv, StoresGood
  <2>2. cache \in [Keys -> Results \cup {NoText}] /\ Key(c) \in Keys
    BY <1>1, KeyIsKey DEF TypeOK
  <2>3. \A k \in Keys : cache'[k] = IF cacheOpen /\ k = Key(c) THEN result[c] ELSE cache[k]
    BY <1>7, <2>2 DEF Store
  <2>4. CacheGood' /\ cache' \in [Keys -> Results \cup {NoText}]
    <3>1. cache' \in [Keys -> Results \cup {NoText}]
      BY <1>7, <2>1, <2>2 DEF Store, Good
    <3>2. ASSUME NEW k \in Keys, cache'[k] # NoText PROVE Good(cache'[k], k.segment, k.with)
      BY <1>1, <2>1, <2>3, <3>2, KeyIsKey DEF TextInv, CacheGood
    <3>3. QED
      BY <3>1, <3>2 DEF CacheGood, Good, Results
  <2>5. /\ Move(c, "done", result[c])
        /\ UNCHANGED <<batchVars, gatewayVars, source, repairs>>
    BY <1>7 DEF Store
  <2>6. /\ phase' = [phase EXCEPT ![c] = "done"] /\ result' = [result EXCEPT ![c] = result[c]]
        /\ phase' \in [Callers -> Phases]
        /\ result' \in [Callers -> Results \cup {NoText, Failed}]
    BY <1>1, <2>1, <2>5 DEF Move, TypeOK, Phases, Good
  <2>7. TypeOK'
    BY <1>1, <2>4, <2>5, <2>6 DEF TypeOK, Results, Keys
  <2>8. AnswersOwn'
    BY <2>5 DEF TextInv, AnswersOwn, Results
  <2>9. ASSUME NEW d \in Callers
        PROVE  /\ result'[d] = result[d] /\ source'[d] = source[d] /\ settings' = settings
               /\ d # c => phase'[d] = phase[d]
               /\ phase'[c] = "done"
    BY <1>1, <2>5, <2>6 DEF TypeOK
  <2>10. StoresGood' /\ ReturnsGood'
    BY <2>1, <2>9 DEF TextInv, StoresGood, ReturnsGood, Returned, Good, Results
  <2>11. QED
    BY <2>4, <2>7, <2>8, <2>10 DEF TextInv
<1>8. QED
  BY <1>2, <1>3, <1>4, <1>5, <1>6, <1>7 DEF Translate

\* So does the end of a translation, or of the wait for one.
LEMMA TranslatorKeepsInv ==
    ASSUME TextInv, NEW c \in Callers, TranslatorEnds(c) \/ TimeOut(c)
    PROVE  TextInv'
<1> USE DEF batchVars, gatewayVars
<1>1. TypeOK /\ queue \in Seq(Callers) /\ repairs \in [Callers -> 0..MaxRepairs]
  BY DEF TextInv, TypeOK
<1>2. ASSUME NEW text \in Outputs, TranslatorAnswers(c, text)
      PROVE  TextInv'
  <2>1. /\ Made(c, text) \in Results
        /\ Made(c, text).of = source[c] /\ Made(c, text).with = settings
    BY <1>1, MadeIsOwn
  <2>2. QED
    BY <1>1, <1>2, <2>1, CheckKeepsInv, RestKept DEF TranslatorAnswers, TextInv
<1>3. CASE TranslatorRaises(c) \/ TimeOut(c)
  BY <1>1, <1>3, MoveKeepsInv, RestKept DEF TranslatorRaises, TimeOut, Phases, TextInv
<1>4. QED
  BY <1>2, <1>3 DEF TranslatorEnds

-----------------------------------------------------------------------------
\* The callers' part of the invariant, while the callers stand still.
LEMMA CallersKept ==
    ASSUME TextInv, UNCHANGED <<settings, callVars>>,
           CacheGood', AnswersOwn'
    PROVE  StoresGood' /\ ReturnsGood'
BY DEF TextInv, StoresGood, ReturnsGood, Returned, Good, Results, callVars

\* So does a step of the batch worker.
LEMMA WorkerKeepsInv ==
    ASSUME TextInv, WorkerSteps
    PROVE  TextInv'
<1>1. TypeOK /\ queue \in Seq(Callers)
  BY DEF TextInv, TypeOK
<1>2. /\ UNCHANGED <<shut, stopping, answer, gatewayVars, cache, callVars>>
      /\ queue' \in Seq(Callers) /\ batch' \in Seq(Callers)
      /\ worker' \in {"testing", "waiting", "handling", "exited"}
  <2>1. CASE Test
    BY <1>1, <2>1 DEF WorkerSteps, Test, TypeOK
  <2>2. CASE Flush([c \in Callers |-> source[c].chars])
    <3>1. PICK n \in 0..Len(queue) :
              /\ queue' = SubSeq(queue, n + 1, Len(queue))
              /\ batch' = SubSeq(queue, 1, n)
              /\ worker' = IF n = 0 THEN "testing" ELSE "handling"
      BY <2>2 DEF Flush
    <3>2. /\ \A i \in 1..n : i \in 1..Len(queue)
          /\ \A i \in (n + 1)..Len(queue) : i \in 1..Len(queue)
      BY <1>1
    <3>3. queue' \in Seq(Callers) /\ batch' \in Seq(Callers)
      BY <1>1, <3>1, <3>2, SubSeqProperties
    <3>4. QED
      BY <2>2, <3>1, <3>3 DEF WorkerSteps, Flush
  <2>3. QED
    BY <2>1, <2>2 DEF WorkerSteps
<1>3. TypeOK'
  BY <1>1, <1>2 DEF TypeOK, gatewayVars, callVars, Results, Keys
<1>4. CacheGood' /\ AnswersOwn'
  BY <1>2 DEF TextInv, CacheGood, AnswersOwn, Good, Results, Keys, gatewayVars, callVars
<1>5. QED
  BY <1>2, <1>3, <1>4, CallersKept DEF TextInv, gatewayVars

\* What the handler delivers was made for the callers it is delivered to.
LEMMA HandlerKeepsInv ==
    ASSUME TextInv, HandlerEnds
    PROVE  TextInv'
<1>1. TypeOK
  BY DEF TextInv
<1>2. /\ UNCHANGED <<shut, stopping, queue, gatewayVars, cache, callVars>>
      /\ batch' \in Seq(Callers) /\ worker' = "testing"
  <2>1. CASE HandlerRaises
    BY <2>1, EmptySeq DEF HandlerEnds, HandlerRaises
  <2>2. ASSUME NEW results, Deliver(results)
        PROVE  batch' = <<>> /\ worker' = "testing" /\ UNCHANGED <<queue, shut, stopping>>
    BY <2>2 DEF Deliver
  <2>3. QED
    BY <2>1, <2>2, EmptySeq DEF HandlerEnds
<1>3. \A c \in Callers : answer'[c] \in {answer[c], Failed} \cup
                              {Made(c, text) : text \in Outputs}
  <2>1. CASE HandlerRaises
    BY <2>1 DEF HandlerRaises, Tell
  <2>2. ASSUME NEW answered \in SUBSET ToSet(batch), NEW texts \in [answered -> Outputs],
               Deliver([c \in answered |-> Made(c, texts[c])])
        PROVE  \A c \in Callers : answer'[c] \in {answer[c], Failed} \cup
                              {Made(c, text) : text \in Outputs}
    <3> SUFFICES ASSUME NEW c \in Callers
                 PROVE  answer'[c] \in {answer[c], Failed} \cup {Made(c, text) : text \in Outputs}
      OBVIOUS
    <3> DEFINE results == [d \in answered |-> Made(d, texts[d])]
    <3>1. answer'[c] = IF c \in DOMAIN results THEN results[c]
                       ELSE IF c \in ToSet(batch) THEN Failed ELSE answer[c]
      BY <2>2 DEF Deliver
    <3>2. CASE c \in answered
      BY <3>1, <3>2
    <3>3. CASE c \notin answered
      BY <3>1, <3>3
    <3>4. QED
      BY <3>2, <3>3
  <2>3. QED
    BY <2>1, <2>2 DEF HandlerEnds
<1>4. \E f : answer' = [c \in Callers |-> f[c]]
  BY DEF HandlerEnds, Deliver, HandlerRaises, Tell
<1>5. \A c \in Callers : \A text \in Outputs :
          /\ Made(c, text) \in Results
          /\ Made(c, text).of = source[c] /\ Made(c, text).with = settings
  BY <1>1, MadeIsOwn
<1>6. \A c \in Callers : answer'[c] \in Results \cup {NoAnswer, Failed}
  BY <1>1, <1>3, <1>5 DEF TypeOK
<1>7. TypeOK'
  <2>1. answer' \in [Callers -> Results \cup {NoAnswer, Failed}]
    BY <1>4, <1>6
  <2>2. QED
    BY <1>1, <1>2, <2>1 DEF TypeOK, gatewayVars, callVars, Results, Keys
<1>8. AnswersOwn'
  <2>1. source' = source /\ settings' = settings
    BY <1>2 DEF gatewayVars, callVars
  <2>2. ASSUME NEW c \in Callers, answer'[c] \notin {NoAnswer, Failed}
        PROVE  /\ answer'[c] \in Results /\ answer'[c].of = source[c]
               /\ answer'[c].with = settings
    BY <1>3, <1>5, <2>2 DEF TextInv, AnswersOwn
  <2>3. QED
    BY <2>1, <2>2 DEF AnswersOwn, Results
<1>9. CacheGood'
  BY <1>2 DEF TextInv, CacheGood, Good, Results, Keys
<1>10. QED
  BY <1>2, <1>7, <1>8, <1>9, CallersKept DEF TextInv, gatewayVars

\* The cache forgets, and the gateway is closed.
LEMMA CloseKeepsInv ==
    ASSUME TextInv,
           (\E k \in Keys : Expire(k)) \/ Clear \/ BeginClose \/ JoinEnds \/ Close
    PROVE  TextInv'
<1> USE DEF batchVars, gatewayVars, callVars
<1>1. TypeOK
  BY DEF TextInv
<1>2. CASE (\E k \in Keys : Expire(k)) \/ Clear
  <2>1. /\ cache' \in [Keys -> Results \cup {NoText}]
        /\ \A k \in Keys : cache'[k] \in {cache[k], NoText}
        /\ UNCHANGED <<batchVars, gatewayVars, callVars>>
    BY <1>1, <1>2 DEF Expire, Clear, TypeOK
  <2>2. CacheGood'
    BY <2>1 DEF TextInv, CacheGood, Good, Results, Keys
  <2>3. AnswersOwn' /\ TypeOK'
    BY <1>1, <2>1 DEF TextInv, AnswersOwn, TypeOK, Results, Keys
  <2>4. QED
    BY <2>1, <2>2, <2>3, CallersKept DEF TextInv
<1>3. CASE BeginClose \/ JoinEnds
  <2>1. /\ answer' \in [Callers -> Results \cup {NoAnswer, Failed}]
        /\ \A c \in Callers : answer'[c] \in {answer[c], Failed}
        /\ shut' \in BOOLEAN /\ stopping' \in {"joining", "done"} /\ queue' \in Seq(Callers)
        /\ UNCHANGED <<batch, worker, gatewayVars, cache, callVars>>
    <3>1. CASE BeginClose
      BY <1>1, <3>1 DEF BeginClose, Shutdown, TypeOK
    <3>2. CASE JoinEnds
      BY <1>1, <3>2, EmptySeq DEF JoinEnds, WakeQueued, Tell, TypeOK
    <3>3. QED
      BY <1>3, <3>1, <3>2
  <2>2. CacheGood' /\ AnswersOwn'
    BY <2>1 DEF TextInv, CacheGood, AnswersOwn, Good, Results, Keys
  <2>3. TypeOK'
    BY <1>1, <2>1 DEF TypeOK, Results, Keys
  <2>4. QED
    BY <2>1, <2>2, <2>3, CallersKept DEF TextInv
<1>4. CASE Close
  <2>1. TypeOK'
    BY <1>1, <1>4 DEF Close, TypeOK, Results, Keys
  <2>2. CacheGood' /\ AnswersOwn'
    BY <1>4 DEF Close, TextInv, CacheGood, AnswersOwn, Good, Results, Keys
  <2>3. QED
    BY <1>4, <2>1, <2>2, CallersKept DEF Close, TextInv
<1>5. QED
  BY <1>2, <1>3, <1>4

\* Another gateway starts with the cache of the last, and nothing else.
LEMMA ReopenKeepsInv ==
    ASSUME TextInv, Reopen
    PROVE  TextInv'
<1>1. TypeOK /\ 0 \in 0..MaxRepairs /\ opened' \in 1..MaxGateways
  BY GatewayAssumption DEF TextInv, TypeOK, Reopen
<1>2. TypeOK'
  <2>1. /\ queue' \in Seq(Callers) /\ batch' \in Seq(Callers)
        /\ worker' = "testing" /\ shut' = FALSE /\ stopping' = "no"
        /\ answer' \in [Callers -> Results \cup {NoAnswer, Failed}]
    BY EmptySeq DEF Reopen, Renew
  <2>2. /\ settings' \in Settings /\ batching' \in BOOLEAN /\ cacheOpen' \in BOOLEAN
        /\ closed' = FALSE /\ cache' \in [Keys -> Results \cup {NoText}]
    BY <1>1 DEF Reopen, TypeOK
  <2>3. /\ phase' \in [Callers -> Phases] /\ source' \in [Callers -> Sources]
        /\ repairs' \in [Callers -> 0..MaxRepairs]
        /\ result' \in [Callers -> Results \cup {NoText, Failed}]
    BY <1>1 DEF Reopen, Phases
  <2>4. QED
    BY <1>1, <2>1, <2>2, <2>3 DEF TypeOK, Results, Keys
<1>3. CacheGood'
  BY DEF Reopen, TextInv, CacheGood, Good, Results, Keys
<1>4. AnswersOwn'
  BY DEF Reopen, Renew, AnswersOwn
<1>5. StoresGood' /\ ReturnsGood'
  BY DEF Reopen, StoresGood, ReturnsGood, Returned
<1>6. QED
  BY <1>2, <1>3, <1>4, <1>5 DEF TextInv

\* The invariant holds at the start.
LEMMA TextInvInit == Init => TextInv
<1> SUFFICES ASSUME Init PROVE TextInv
  OBVIOUS
<1>1. 0 \in 0..MaxRepairs /\ 1 \in 1..MaxGateways
  BY GatewayAssumption
<1>2. TypeOK
  <2>1. /\ queue \in Seq(Callers) /\ batch \in Seq(Callers)
        /\ worker = "testing" /\ shut = FALSE /\ stopping = "no"
        /\ answer \in [Callers -> Results \cup {NoAnswer, Failed}]
    BY EmptySeq DEF Init, BatchInit
  <2>2. /\ settings \in Settings /\ batching \in BOOLEAN /\ cacheOpen \in BOOLEAN
        /\ closed = FALSE /\ cache \in [Keys -> Results \cup {NoText}]
        /\ opened \in 1..MaxGateways
    BY <1>1 DEF Init
  <2>3. /\ phase \in [Callers -> Phases] /\ source \in [Callers -> Sources]
        /\ repairs \in [Callers -> 0..MaxRepairs]
        /\ result \in [Callers -> Results \cup {NoText, Failed}]
    BY <1>1 DEF Init, Phases
  <2>4. QED
    BY <2>1, <2>2, <2>3 DEF TypeOK
<1>3. QED
  BY <1>2 DEF Init, BatchInit, TextInv, CacheGood, AnswersOwn, StoresGood, ReturnsGood, Returned

\* Cached, returned and stored texts are valid for their key, always.
THEOREM TextInvariant == Spec => []TextInv
<1>1. ASSUME TextInv, [Next]_vars PROVE TextInv'
  <2>1. ASSUME NEW c \in Callers, Translate(c) \/ TranslatorEnds(c) \/ TimeOut(c)
        PROVE  TextInv'
    BY <1>1, <2>1, TranslateKeepsInv, TranslatorKeepsInv
  <2>2. CASE WorkerSteps \/ HandlerEnds
    BY <1>1, <2>2, WorkerKeepsInv, HandlerKeepsInv
  <2>3. CASE (\E k \in Keys : Expire(k)) \/ Clear \/ BeginClose \/ JoinEnds \/ Close
    BY <1>1, <2>3, CloseKeepsInv
  <2>4. CASE Reopen
    BY <1>1, <2>4, ReopenKeepsInv
  <2>5. CASE UNCHANGED vars
    BY <1>1, <2>5
    DEF TextInv, TypeOK, CacheGood, AnswersOwn, StoresGood, ReturnsGood, Returned, Good,
        Results, Keys, vars, batchVars, gatewayVars, callVars
  <2>6. QED
    BY <1>1, <2>1, <2>2, <2>3, <2>4, <2>5 DEF Next
<1>2. QED
  BY <1>1, TextInvInit, PTL DEF Spec

(***************************************************************************)
(* Every reachable state is well typed: no call asks for more repairs than *)
(* max_repair_attempts (_validate_and_repair).                             *)
(***************************************************************************)
THEOREM WellTyped == Spec => []TypeOK
<1>1. TextInv => TypeOK
  BY DEF TextInv
<1>2. QED
  BY <1>1, TextInvariant, PTL

(***************************************************************************)
(* What translate returns was made and is valid for the segment and the    *)
(* settings it was called with, whatever route it took and whatever the    *)
(* gateways before have left in the cache (translate_request).             *)
(***************************************************************************)
THEOREM ReturnsAreValid == Spec => []OnlyValidTexts
<1>1. TextInv => OnlyValidTexts
  BY DEF TextInv, ReturnsGood, OnlyValidTexts, Good
<1>2. QED
  BY <1>1, TextInvariant, PTL

(***************************************************************************)
(* A segment whose tags do not pair is never translated, whatever the      *)
(* tokens, the answers and the number of repairs (tag_balance_errors).     *)
(***************************************************************************)
THEOREM TornNeverTranslated == Spec => []TornSourcesFail
<1>1. ASSUME TextInv PROVE TornSourcesFail
  <2>1. SUFFICES ASSUME NEW c \in Callers, phase[c] = "done", ~source[c].blank,
                        TagBalanceErrors(source[c]) # {}, result[c] # Failed
                 PROVE  FALSE
    BY DEF TornSourcesFail
  <2>2. Good(result[c], source[c], settings)
    BY <1>1, <2>1 DEF TextInv, ReturnsGood, Returned
  <2>3. source[c] \in Texts /\ result[c].text \in Texts
    BY <1>1, <2>2, GatewayAssumption DEF TextInv, TypeOK, Good, Results
  <2>4. QED
    BY <2>1, <2>2, <2>3, TornHasNoValidOutput DEF Good
<1>2. QED
  BY <1>1, TextInvariant, PTL
=============================================================================
