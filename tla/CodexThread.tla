---------------------------- MODULE CodexThread ----------------------------
(***************************************************************************)
(* The Codex translators of one document (translators/codex_sdk.py): each  *)
(* attempt of a job builds one, which resumes the document's thread or     *)
(* starts another, primes it and keeps its id in the thread state          *)
(* (translation/thread_state.py).  BabelDOC's threads call translate; a    *)
(* lock serialises the turns, a counter decides when the thread is         *)
(* compacted, natively or by changing to a new thread.                     *)
(*                                                                         *)
(* The SDK is open: a call answers, answers badly or raises.               *)
(***************************************************************************)
EXTENDS Naturals, FiniteSets

CONSTANTS
    Translators,  \* CodexSdkTranslator objects, built one per attempt
    Callers,      \* the threads that call translate of one of them
    NoCaller,
    MaxThreads,   \* bound: threads started for the document
    MaxTurns,     \* max_turns_before_compact
    MaxContext,   \* bound: no turn is answered empty in a thread that holds so many
    Overlap       \* may two of them live at once? (two jobs of one stem)

ASSUME CodexAssumption ==
    /\ NoCaller \notin Callers
    /\ IsFiniteSet(Callers)
    /\ MaxThreads \in Nat /\ MaxTurns \in Nat /\ MaxContext \in Nat
    /\ Overlap \in BOOLEAN

VARIABLES
    state,      \* the document's file of the ThreadStateStore
    started,    \* how many threads were started: their ids are 1..started
    primed,     \* history: threads that have answered READY
    life,       \* where each translator stands
    thread,     \* self._thread
    former,     \* the thread to go back to when the new one is not primed
    found,      \* the state rotate has loaded
    lock,       \* who holds self._lock
    phase,      \* where each caller's translate stands
    turns,      \* self._turns_since_compact
    context,    \* history: the texts each thread has taken since it was compacted
    uncounted   \* history: those of them that the translator's counter left out

sdk  == <<started, primed, context>>
disk == <<state, sdk>>
self == <<life, thread, former, found, turns, uncounted>>
vars == <<disk, self, lock, phase>>

NoThread == 0
NoState == [thread |-> NoThread, generation |-> 0]

Live == {"resolving", "priming", "rotating", "saving", "up"}
Calls == {"idle", "compacting", "starting", "priming", "rotating", "saving", "turning", "counting"}

Init ==
    /\ state = NoState /\ started = 0 /\ primed = {}
    /\ life = [x \in Translators |-> "unborn"]
    /\ thread = [x \in Translators |-> NoThread]
    /\ former = [x \in Translators |-> NoThread]
    /\ found = [x \in Translators |-> NoState]
    /\ lock = [x \in Translators |-> NoCaller]
    /\ phase = [x \in Translators |-> [c \in Callers |-> "idle"]]
    /\ turns = [x \in Translators |-> 0]
    /\ context = [t \in 1..MaxThreads |-> 0]
    /\ uncounted = [x \in Translators |-> 0]

-----------------------------------------------------------------------------
(***************************************************************************)
(* The constructor: load, thread_resume or thread_start, prime, rotate.    *)
(***************************************************************************)
Becomes(x, to) == life' = [life EXCEPT ![x] = to]

\* Nothing of a translator outlives it but the file and what the SDK keeps.
Discard(x) ==
    /\ Becomes(x, "gone")
    /\ thread' = [thread EXCEPT ![x] = NoThread]
    /\ former' = [former EXCEPT ![x] = NoThread]
    /\ found' = [found EXCEPT ![x] = NoState]
    /\ turns' = [turns EXCEPT ![x] = 0]
    /\ uncounted' = [uncounted EXCEPT ![x] = 0]

Construct(x) ==
    /\ life[x] = "unborn"
    /\ Overlap \/ \A y \in Translators : life[y] \notin Live
    /\ Becomes(x, "resolving")
    /\ found' = [found EXCEPT ![x] = state]
    /\ UNCHANGED <<disk, thread, former, turns, uncounted, lock, phase>>

\* thread_start gives out a new id.
Start(x) ==
    /\ started < MaxThreads
    /\ started' = started + 1
    /\ thread' = [thread EXCEPT ![x] = started + 1]
    /\ UNCHANGED <<state, primed, context>>

\* The thread comes back with every turn it holds; the counter starts at 0.
ResumeThread(x) ==
    /\ life[x] = "resolving" /\ found[x] # NoState
    /\ thread' = [thread EXCEPT ![x] = found[x].thread]
    /\ uncounted' = [uncounted EXCEPT ![x] = context[found[x].thread]]
    /\ Becomes(x, "priming")
    /\ UNCHANGED <<disk, former, found, turns, lock, phase>>

StartThread(x) ==
    /\ life[x] = "resolving" /\ found[x] = NoState
    /\ Start(x)
    /\ Becomes(x, "priming")
    /\ UNCHANGED <<former, found, turns, uncounted, lock, phase>>

\* Mutant: the id is kept before the thread has answered.
PrimeThreadLater(x) ==
    /\ life[x] = "priming"
    /\ Becomes(x, "rotating")
    /\ UNCHANGED <<disk, thread, former, found, turns, uncounted, lock, phase>>

\* _prime_thread: the answer is READY.
PrimeThread(x) ==
    /\ life[x] = "priming"
    /\ primed' = primed \cup {thread[x]}
    /\ Becomes(x, "rotating")
    /\ UNCHANGED <<state, started, context, thread, former, found, turns, uncounted, lock, phase>>

\* rotate loads what is there to learn its generation.
LoadState(x) ==
    /\ life[x] = "rotating"
    /\ found' = [found EXCEPT ![x] = state]
    /\ Becomes(x, "saving")
    /\ UNCHANGED <<disk, thread, former, turns, uncounted, lock, phase>>

\* Mutant: every rotation starts over at generation 0.
NextStateReset(x) == [thread |-> thread[x], generation |-> 0]

NextState(x) ==
    [thread |-> thread[x],
     generation |-> IF found[x] = NoState THEN 0 ELSE found[x].generation + 1]

\* save writes another file and replaces the old one with it.
SaveState(x) ==
    /\ life[x] = "saving"
    /\ state' = NextState(x)
    /\ Becomes(x, "up")
    /\ found' = [found EXCEPT ![x] = NoState]
    /\ UNCHANGED <<sdk, thread, former, turns, uncounted, lock, phase>>

\* A step of the constructor raises; save may have replaced the file by then.
ConstructorRaises(x) ==
    /\ life[x] \in {"resolving", "priming", "rotating", "saving"}
    /\ Discard(x)
    /\ \/ UNCHANGED state
       \/ life[x] = "saving" /\ state' = NextState(x)
    /\ UNCHANGED <<sdk, lock, phase>>

\* close, or the end of the process, wherever its threads are.  close stops no
\* thread; one that went on after it would be a second translator (Overlap).
Vanish(x) ==
    /\ life[x] \in Live
    /\ Discard(x)
    /\ phase' = [phase EXCEPT ![x] = [c \in Callers |-> "idle"]]
    /\ lock' = [lock EXCEPT ![x] = NoCaller]
    /\ UNCHANGED disk

-----------------------------------------------------------------------------
(***************************************************************************)
(* translate: what is done with the lock held, in the caller that holds it.*)
(***************************************************************************)
Moves(x, c, to) == phase' = [phase EXCEPT ![x][c] = to]

Leaves(x, c, to) ==
    /\ Moves(x, c, to)
    /\ lock' = [lock EXCEPT ![x] = NoCaller]

In(x, c, where) == life[x] = "up" /\ phase[x][c] = where

\* Mutant: the comparison is off by one.
CompactDueLate(x) == MaxTurns > 0 /\ turns[x] > MaxTurns

CompactDue(x) == MaxTurns > 0 /\ turns[x] >= MaxTurns

\* Mutant: the lock is not taken.
EnterUnlocked(x, c) ==
    /\ In(x, c, "idle")
    /\ lock' = [lock EXCEPT ![x] = c]
    /\ Moves(x, c, IF CompactDue(x) THEN "compacting" ELSE "turning")
    /\ UNCHANGED <<disk, self>>

Enter(x, c) ==
    /\ In(x, c, "idle") /\ lock[x] = NoCaller
    /\ lock' = [lock EXCEPT ![x] = c]
    /\ Moves(x, c, IF CompactDue(x) THEN "compacting" ELSE "turning")
    /\ UNCHANGED <<disk, self>>

\* The SDK compacts the thread.
CompactNatively(x, c) ==
    /\ In(x, c, "compacting")
    /\ turns' = [turns EXCEPT ![x] = 0]
    /\ context' = [context EXCEPT ![thread[x]] = 0]
    /\ uncounted' = [uncounted EXCEPT ![x] = 0]
    /\ Moves(x, c, "turning")
    /\ UNCHANGED <<state, started, primed, life, thread, former, found, lock>>

\* It cannot, or raises: a new thread is to be built.
CompactFails(x, c) ==
    /\ In(x, c, "compacting")
    /\ Moves(x, c, "starting")
    /\ UNCHANGED <<disk, self, lock>>

RotateThread(x, c) ==
    /\ In(x, c, "starting")
    /\ Start(x)
    /\ former' = [former EXCEPT ![x] = thread[x]]
    /\ Moves(x, c, "priming")
    /\ UNCHANGED <<life, found, turns, uncounted, lock>>

PrimeNew(x, c) ==
    /\ In(x, c, "priming")
    /\ primed' = primed \cup {thread[x]}
    /\ uncounted' = [uncounted EXCEPT ![x] = 0]
    /\ former' = [former EXCEPT ![x] = NoThread]
    /\ Moves(x, c, "rotating")
    /\ UNCHANGED <<state, started, context, life, thread, found, turns, lock>>

\* Mutant: the new thread stays although it has not been primed.
PrimeNewFailsInPlace(x, c) ==
    /\ In(x, c, "priming")
    /\ Leaves(x, c, "idle")
    /\ UNCHANGED <<disk, self>>

\* Mutant: the exception leaves the lock held.
PrimeNewFailsLocked(x, c) ==
    /\ In(x, c, "priming")
    /\ thread' = [thread EXCEPT ![x] = former[x]]
    /\ Moves(x, c, "idle")
    /\ UNCHANGED <<disk, life, former, found, turns, uncounted, lock>>

\* Prime raises: the old thread is put back.
PrimeNewFails(x, c) ==
    /\ In(x, c, "priming")
    /\ thread' = [thread EXCEPT ![x] = former[x]]
    /\ former' = [former EXCEPT ![x] = NoThread]
    /\ Leaves(x, c, "idle")
    /\ UNCHANGED <<disk, life, found, turns, uncounted>>

LoadForRotate(x, c) ==
    /\ In(x, c, "rotating")
    /\ found' = [found EXCEPT ![x] = state]
    /\ Moves(x, c, "saving")
    /\ UNCHANGED <<disk, life, thread, former, turns, uncounted, lock>>

SaveRotated(x, c) ==
    /\ In(x, c, "saving")
    /\ state' = NextState(x)
    /\ found' = [found EXCEPT ![x] = NoState]
    /\ turns' = [turns EXCEPT ![x] = 0]
    /\ Moves(x, c, "turning")
    /\ UNCHANGED <<sdk, life, thread, former, uncounted, lock>>

\* The store raises: the new thread stays and the counter is not reset.
SaveFails(x, c) ==
    /\ In(x, c, "rotating") \/ In(x, c, "saving")
    /\ Leaves(x, c, "idle")
    /\ \/ UNCHANGED state
       \/ phase[x][c] = "saving" /\ state' = NextState(x)
    /\ found' = [found EXCEPT ![x] = NoState]
    /\ UNCHANGED <<sdk, life, thread, former, turns, uncounted>>

\* A turn that runs stays in the thread.
Grows(t) == context' = [context EXCEPT ![t] = @ + 1]

\* The turn has an answer.
Turn(x, c) ==
    /\ In(x, c, "turning")
    /\ Grows(thread[x])
    /\ Leaves(x, c, "counting")
    /\ UNCHANGED <<state, started, primed, self>>

\* The answer is empty, or the call raises when the turn has run: translate
\* raises, and the turn is never counted.
TurnBlank(x, c) ==
    /\ In(x, c, "turning") /\ context[thread[x]] < MaxContext
    /\ Grows(thread[x])
    /\ uncounted' = [uncounted EXCEPT ![x] = @ + 1]
    /\ Leaves(x, c, "idle")
    /\ UNCHANGED <<state, started, primed, life, thread, former, found, turns>>

\* thread_start raises, or the turn does before it has run.
TurnFails(x, c) ==
    /\ In(x, c, "starting") \/ In(x, c, "turning")
    /\ Leaves(x, c, "idle")
    /\ UNCHANGED <<disk, self>>

\* The lock is taken a second time, when it is free, to count the turn.
CountTurn(x, c) ==
    /\ In(x, c, "counting") /\ lock[x] = NoCaller
    /\ turns' = [turns EXCEPT ![x] = @ + 1]
    /\ Moves(x, c, "idle")
    /\ UNCHANGED <<disk, life, thread, former, found, uncounted, lock>>

-----------------------------------------------------------------------------
Building(x) ==
    \/ ResumeThread(x) \/ StartThread(x) \/ PrimeThread(x) \/ LoadState(x) \/ SaveState(x)
    \/ ConstructorRaises(x)

Holding(x, c) ==
    \/ CompactNatively(x, c) \/ CompactFails(x, c)
    \/ RotateThread(x, c) \/ PrimeNew(x, c) \/ PrimeNewFails(x, c)
    \/ LoadForRotate(x, c) \/ SaveRotated(x, c) \/ SaveFails(x, c)
    \/ Turn(x, c) \/ TurnBlank(x, c) \/ TurnFails(x, c)

Next ==
    \E x \in Translators :
        \/ Construct(x) \/ Building(x) \/ Vanish(x)
        \/ \E c \in Callers : Enter(x, c) \/ Holding(x, c) \/ CountTurn(x, c)

Spec == Init /\ [][Next]_vars

\* Calls of the SDK and of the store end, and a caller that waits for the
\* lock again and again gets it.
Fairness ==
    \A x \in Translators :
        /\ WF_vars(Building(x))
        /\ \A c \in Callers : WF_vars(Holding(x, c)) /\ SF_vars(CountTurn(x, c))

FairSpec == Spec /\ Fairness

-----------------------------------------------------------------------------
Ids    == 1..started
States == [thread : Ids \cup {NoThread}, generation : Nat]

TypeOK ==
    /\ state \in States /\ started \in 0..MaxThreads /\ primed \subseteq Ids
    /\ life \in [Translators -> {"unborn", "gone"} \cup Live]
    /\ thread \in [Translators -> Ids \cup {NoThread}]
    /\ former \in [Translators -> Ids \cup {NoThread}]
    /\ found \in [Translators -> States]
    /\ lock \in [Translators -> Callers \cup {NoCaller}]
    /\ phase \in [Translators -> [Callers -> Calls]]
    /\ turns \in [Translators -> Nat] /\ uncounted \in [Translators -> Nat]
    /\ context \in [1..MaxThreads -> Nat]
    /\ \A x \in Translators : \A c \in Callers :
         lock[x] = c <=> phase[x][c] \notin {"idle", "counting"}

(***************************************************************************)
(* The id on disk is the id of a thread that has been primed, through      *)
(* crashes, failed rotations and failed saves ("only saved after a         *)
(* successful prime", architecture.md on thread state).                    *)
(***************************************************************************)
SavedIsPrimed == state # NoState => state.thread \in primed

(***************************************************************************)
(* Text is translated in a primed thread: a rotation that fails puts the   *)
(* old one back (_rotate_thread_after_compact).                            *)
(***************************************************************************)
TurnsArePrimed ==
    \A x \in Translators : \A c \in Callers : In(x, c, "turning") => thread[x] \in primed

(***************************************************************************)
(* One turn at a time in a thread (ADR-009 in decisions.md): no two        *)
(* threads of a translator, and no two translators, are in a call of the   *)
(* SDK on the same thread.                                                 *)
(***************************************************************************)
Turning(x, t) ==
    {<<x, c>> : c \in {c \in Callers : thread[x] = t /\ phase[x][c] \in {"compacting", "priming", "turning"}}}
        \cup IF life[x] = "priming" /\ thread[x] = t THEN {<<x, NoCaller>>} ELSE {}

OneTurnPerThread ==
    \A t \in Ids : Cardinality(UNION {Turning(x, t) : x \in Translators}) <= 1

(***************************************************************************)
(* A translator compacts in time, although a turn is only counted when its *)
(* caller gets the lock back: the thread never holds more than the limit   *)
(* and one turn of each other caller, beyond the turns the counter leaves  *)
(* out by design, those of earlier attempts and those answered empty       *)
(* (_compact_if_needed).  Of these there may be any number.                *)
(***************************************************************************)
CountedTurnsBounded ==
    MaxTurns > 0 =>
        \A x \in Translators : life[x] = "up" =>
            context[thread[x]] <= uncounted[x] + MaxTurns + Cardinality(Callers) - 1

(***************************************************************************)
(* Each rotation is one generation further, whichever translator made the  *)
(* last one and however it ended (rotate).                                 *)
(***************************************************************************)
GenerationGrows ==
    [][ state' # state /\ state # NoState => state'.generation = state.generation + 1 ]_vars

(***************************************************************************)
(* A caller that has got as far as the lock returns or raises, or the      *)
(* translator is gone.                                                     *)
(***************************************************************************)
CallsReturn ==
    \A x \in Translators : \A c \in Callers : phase[x][c] # "idle" ~> phase[x][c] = "idle"
=============================================================================
