------------------------- MODULE CodexThreadProofs -------------------------
(***************************************************************************)
(* Theorems about CodexThread, for any number of translators, callers and  *)
(* threads and any limit of turns.                                         *)
(***************************************************************************)
EXTENDS CodexThread, FiniteSetTheorems, TLAPS

-----------------------------------------------------------------------------
(***************************************************************************)
(* The inductive invariant: where each translator stands says which of the *)
(* threads it knows have been primed.                                      *)
(***************************************************************************)
\* Only a translator that is up is called.
CalledWhenUp(x) == life[x] # "up" => \A c \in Callers : phase[x][c] = "idle"

\* What a translator has read from the file is a primed thread's.
FoundPrimed(x) == found[x] # NoState => found[x].thread \in primed

\* The thread it builds exists, and is primed once it is to be kept.
BuildPrimed(x) ==
    /\ life[x] = "priming" => thread[x] \in Ids
    /\ life[x] \in {"rotating", "saving"} => thread[x] \in primed

\* Its thread is primed, or one that exists is being primed and the former one is.
UpPrimed(x) ==
    life[x] = "up" =>
        IF \E c \in Callers : phase[x][c] = "priming"
        THEN thread[x] \in Ids /\ former[x] \in primed
        ELSE thread[x] \in primed

Primed(x) == CalledWhenUp(x) /\ FoundPrimed(x) /\ BuildPrimed(x) /\ UpPrimed(x)

PrimedInv == TypeOK /\ SavedIsPrimed /\ \A x \in Translators : Primed(x)

-----------------------------------------------------------------------------
(***************************************************************************)
(* What every step has in common.                                          *)
(***************************************************************************)
Step(x) ==
    \/ Construct(x) \/ Building(x) \/ Vanish(x)
    \/ \E c \in Callers : Enter(x, c) \/ Holding(x, c) \/ CountTurn(x, c)

\* A step of one translator leaves the others alone.
Kept(y) ==
    /\ life'[y] = life[y] /\ thread'[y] = thread[y] /\ former'[y] = former[y]
    /\ found'[y] = found[y] /\ lock'[y] = lock[y] /\ phase'[y] = phase[y]
    /\ turns'[y] = turns[y] /\ uncounted'[y] = uncounted[y]

\* Every step is a step of one translator.
LEMMA StepIsNext == Next => \E x \in Translators : Step(x)
BY DEF Next, Step

\* The variables of a translator only change in its own steps.
LEMMA OthersKept ==
    ASSUME TypeOK, NEW x \in Translators, Step(x), NEW y \in Translators, y # x
    PROVE  Kept(y)
<1> USE DEF TypeOK, Kept, self, sdk, disk, Becomes
<1>1. CASE Construct(x)
  BY <1>1 DEF Construct
<1>2. CASE Building(x)
  BY <1>2 DEF Building, ResumeThread, StartThread, PrimeThread, LoadState, SaveState,
              ConstructorRaises, Discard, Start
<1>3. CASE Vanish(x)
  BY <1>3 DEF Vanish, Discard
<1>4. ASSUME NEW c \in Callers, Enter(x, c) \/ Holding(x, c) \/ CountTurn(x, c)
      PROVE  Kept(y)
  <2> USE DEF Moves, Leaves
  <2>1. CASE Enter(x, c) \/ CountTurn(x, c)
    BY <2>1 DEF Enter, CountTurn
  <2>2. CASE \/ CompactNatively(x, c) \/ CompactFails(x, c) \/ RotateThread(x, c)
             \/ PrimeNew(x, c) \/ PrimeNewFails(x, c)
    BY <2>2 DEF CompactNatively, CompactFails, RotateThread, PrimeNew, PrimeNewFails, Start
  <2>3. CASE \/ LoadForRotate(x, c) \/ SaveRotated(x, c) \/ SaveFails(x, c)
             \/ Turn(x, c) \/ TurnBlank(x, c) \/ TurnFails(x, c)
    BY <2>3 DEF LoadForRotate, SaveRotated, SaveFails, Turn, TurnBlank, TurnFails
  <2>4. QED
    BY <1>4, <2>1, <2>2, <2>3 DEF Holding
<1>5. QED
  BY <1>1, <1>2, <1>3, <1>4 DEF Step

\* A step may start one thread and prime one; no id is ever taken back.
LEMMA IdsGrow ==
    ASSUME TypeOK, NEW x \in Translators, Step(x)
    PROVE  /\ started' \in 0..MaxThreads /\ Ids \subseteq Ids' /\ primed \subseteq primed'
           /\ started' # started => started' = started + 1 /\ started' \in Ids'
<1> USE DEF sdk, disk, Becomes
<1>0. started \in 0..MaxThreads /\ MaxThreads \in Nat
  BY CodexAssumption DEF TypeOK
<1>1. /\ primed \subseteq primed'
      /\ started' = started \/ (started' = started + 1 /\ started < MaxThreads)
  <2>1. CASE Construct(x) \/ Vanish(x)
    BY <2>1 DEF Construct, Vanish
  <2>2. CASE Building(x)
    BY <2>2 DEF Building, ResumeThread, StartThread, PrimeThread, LoadState, SaveState,
                ConstructorRaises, Discard, Start
  <2>3. ASSUME NEW c \in Callers, Enter(x, c) \/ Holding(x, c) \/ CountTurn(x, c)
        PROVE  <1>1!1 /\ <1>1!2
    BY <2>3 DEF Enter, CountTurn, Holding, CompactNatively, CompactFails, RotateThread, PrimeNew,
                PrimeNewFails, LoadForRotate, SaveRotated, SaveFails, Turn, TurnBlank, TurnFails, Start
  <2>4. QED
    BY <2>1, <2>2, <2>3 DEF Step
<1>2. QED
  BY <1>0, <1>1 DEF Ids

\* The state a rotation saves.
LEMMA NextStateTyped ==
    ASSUME TypeOK, NEW x \in Translators
    PROVE  NextState(x) \in States /\ NextState(x).thread = thread[x]
<1>1. found[x] \in States /\ thread[x] \in Ids \cup {NoThread}
  BY DEF TypeOK
<1>2. found[x].generation \in Nat
  BY <1>1 DEF States
<1>3. QED
  BY <1>1, <1>2 DEF NextState, States

\* The lock names the caller that is inside.
LEMMA HolderKept ==
    ASSUME TypeOK, NEW x \in Translators, NEW c \in Callers, NEW to \in Calls, Moves(x, c, to),
           \/ /\ lock[x] = NoCaller /\ phase[x][c] \in {"idle", "counting"}
              /\ IF to \in {"idle", "counting"} THEN lock' = lock ELSE lock' = [lock EXCEPT ![x] = c]
           \/ /\ phase[x][c] \notin {"idle", "counting"}
              /\ IF to \in {"idle", "counting"} THEN lock' = [lock EXCEPT ![x] = NoCaller] ELSE lock' = lock
    PROVE  /\ lock' \in [Translators -> Callers \cup {NoCaller}]
           /\ phase' \in [Translators -> [Callers -> Calls]]
           /\ \A y \in Translators : \A d \in Callers :
                lock'[y] = d <=> phase'[y][d] \notin {"idle", "counting"}
<1>0. /\ lock \in [Translators -> Callers \cup {NoCaller}]
      /\ phase \in [Translators -> [Callers -> Calls]]
      /\ \A y \in Translators : \A d \in Callers :
           lock[y] = d <=> phase[y][d] \notin {"idle", "counting"}
  BY DEF TypeOK
<1> USE <1>0, CodexAssumption DEF Moves
<1>1. /\ lock' \in [Translators -> Callers \cup {NoCaller}]
      /\ phase' \in [Translators -> [Callers -> Calls]]
  OBVIOUS
<1>2. ASSUME NEW y \in Translators, NEW d \in Callers
      PROVE  lock'[y] = d <=> phase'[y][d] \notin {"idle", "counting"}
  <2>1. CASE y # x
    BY <2>1
  <2>2. CASE y = x /\ d = c
    BY <2>2
  <2>3. CASE y = x /\ d # c
    BY <2>3
  <2>4. QED
    BY <2>1, <2>2, <2>3
<1>3. QED
  BY <1>1, <1>2

-----------------------------------------------------------------------------
(***************************************************************************)
(* The invariant holds at the start and is kept.                           *)
(***************************************************************************)
LEMMA InitPrimed == Init => PrimedInv
<1> SUFFICES ASSUME Init PROVE PrimedInv
  OBVIOUS
<1>1. NoState \in States /\ NoThread \in Ids \cup {NoThread}
  BY DEF States, NoState
<1>2. TypeOK
  BY <1>1, CodexAssumption DEF Init, TypeOK, Calls
<1>3. SavedIsPrimed /\ \A x \in Translators : Primed(x)
  BY DEF Init, SavedIsPrimed, Primed, CalledWhenUp, FoundPrimed, BuildPrimed, UpPrimed
<1>4. QED
  BY <1>2, <1>3 DEF PrimedInv

\* What holds of a translator survives the steps of another.
LEMMA OthersPrimed ==
    ASSUME PrimedInv, NEW x \in Translators, Step(x), NEW y \in Translators, y # x
    PROVE  Primed(y)'
<1>1. Primed(y) /\ Kept(y) /\ Ids \subseteq Ids' /\ primed \subseteq primed'
  BY OthersKept, IdsGrow DEF PrimedInv
<1>2. QED
  BY <1>1 DEF Primed, Kept, CalledWhenUp, FoundPrimed, BuildPrimed, UpPrimed

\* What the file may be replaced with keeps it a primed thread's.
LEMMA SavedAgain ==
    ASSUME PrimedInv, NEW x \in Translators, Step(x),
           state' = state \/ state' = NextState(x), state' # state => thread[x] \in primed
    PROVE  SavedIsPrimed'
BY NextStateTyped, IdsGrow DEF PrimedInv, SavedIsPrimed

\* The constructor and the end of a translator keep the types.
LEMMA BuildingKeepsTypes ==
    ASSUME PrimedInv, NEW x \in Translators, Construct(x) \/ Building(x) \/ Vanish(x)
    PROVE  TypeOK'
<1> USE DEF sdk, disk, Becomes, Live, NoThread
<1>1. /\ TypeOK /\ Primed(x) /\ SavedIsPrimed /\ Step(x)
      /\ NoState \in States' /\ NextState(x) \in States
  BY NextStateTyped DEF PrimedInv, Step, States, NoState
<1>2. /\ Ids \subseteq Ids' /\ primed \subseteq primed' /\ started' \in 0..MaxThreads
      /\ started' # started => started' = started + 1 /\ started' \in Ids'
      /\ States \subseteq States'
  BY <1>1, IdsGrow DEF States
<1> USE <1>1, <1>2
<1>3. thread' = thread => thread' \in [Translators -> Ids' \cup {NoThread}]
  BY DEF TypeOK
<1>4. former' = former => former' \in [Translators -> Ids' \cup {NoThread}]
  BY DEF TypeOK
<1>5. found' = found => found' \in [Translators -> States']
  BY DEF TypeOK
<1>6. state' = state => state' \in States'
  BY DEF TypeOK
<1> USE <1>3, <1>4, <1>5, <1>6
<1>7. CASE Construct(x)
  BY <1>7 DEF Construct, TypeOK
<1>8. CASE ResumeThread(x)
  <2>1. thread' \in [Translators -> Ids' \cup {NoThread}]
    <3>1. found[x].thread \in Ids'
      BY <1>8 DEF ResumeThread, Primed, FoundPrimed, TypeOK
    <3>2. QED
      BY <1>8, <3>1 DEF ResumeThread, TypeOK
  <2>2. uncounted' \in [Translators -> Nat]
    <3>1. found[x].thread \in Ids /\ started \in 0..MaxThreads
      BY <1>8 DEF ResumeThread, Primed, FoundPrimed, TypeOK
    <3>2. found[x].thread \in 1..MaxThreads
      BY <3>1, CodexAssumption DEF Ids
    <3>3. QED
      BY <1>8, <3>2 DEF ResumeThread, TypeOK
  <2>3. QED
    BY <1>8, <2>1, <2>2 DEF ResumeThread, TypeOK
<1>9. CASE StartThread(x)
  <2>1. thread' \in [Translators -> Ids' \cup {NoThread}]
    BY <1>9, CodexAssumption DEF StartThread, Start, TypeOK
  <2>2. primed' \subseteq Ids'
    BY <1>9 DEF StartThread, Start, TypeOK
  <2>3. QED
    BY <1>9, <2>1, <2>2 DEF StartThread, Start, TypeOK
<1>10. CASE PrimeThread(x)
  <2>1. primed' \subseteq Ids'
    BY <1>10 DEF PrimeThread, Primed, BuildPrimed, TypeOK
  <2>2. QED
    BY <1>10, <2>1 DEF PrimeThread, TypeOK
<1>11. CASE LoadState(x)
  BY <1>11 DEF LoadState, TypeOK
<1>12. CASE SaveState(x)
  <2>1. found' \in [Translators -> States'] /\ state' \in States'
    BY <1>12 DEF SaveState, TypeOK
  <2>2. QED
    BY <1>12, <2>1 DEF SaveState, TypeOK
<1>13. CASE ConstructorRaises(x) \/ Vanish(x)
  <2>0. Discard(x) /\ UNCHANGED <<started, primed>>
    BY <1>13 DEF ConstructorRaises, Vanish
  <2>1. /\ thread' \in [Translators -> Ids' \cup {NoThread}]
        /\ former' \in [Translators -> Ids' \cup {NoThread}]
        /\ found' \in [Translators -> States']
    BY <2>0 DEF Discard, TypeOK
  <2>2. /\ turns' \in [Translators -> Nat] /\ uncounted' \in [Translators -> Nat]
        /\ context' = context
        /\ life' \in [Translators -> {"unborn", "gone"} \cup Live]
    BY <1>13, <2>0 DEF Discard, ConstructorRaises, Vanish, TypeOK
  <2>3. state' \in States' /\ primed' \subseteq Ids'
    BY <1>13 DEF ConstructorRaises, Vanish, TypeOK
  <2>4. /\ phase' \in [Translators -> [Callers -> Calls]]
        /\ lock' \in [Translators -> Callers \cup {NoCaller}]
        /\ \A y \in Translators : \A c \in Callers :
             lock'[y] = c <=> phase'[y][c] \notin {"idle", "counting"}
    <3>1. CASE ConstructorRaises(x)
      BY <3>1 DEF ConstructorRaises, TypeOK
    <3>2. CASE Vanish(x)
      <4>1. /\ phase' \in [Translators -> [Callers -> Calls]]
            /\ lock' \in [Translators -> Callers \cup {NoCaller}]
            /\ lock'[x] = NoCaller /\ \A c \in Callers : phase'[x][c] = "idle"
        BY <3>2 DEF Vanish, Calls, TypeOK
      <4>2. ASSUME NEW y \in Translators
            PROVE  \A c \in Callers : lock'[y] = c <=> phase'[y][c] \notin {"idle", "counting"}
        <5>1. CASE y = x
          BY <4>1, <5>1, CodexAssumption
        <5>2. CASE y # x
          BY <3>2, <5>2 DEF Vanish, TypeOK
        <5>3. QED
          BY <5>1, <5>2
      <4>3. QED
        BY <4>1, <4>2
    <3>3. QED
      BY <1>13, <3>1, <3>2
  <2>5. QED
    BY <2>1, <2>2, <2>3, <2>4 DEF TypeOK
<1>14. QED
  BY <1>7, <1>8, <1>9, <1>10, <1>11, <1>12, <1>13 DEF Building

\* The constructor only keeps the id of a thread it has primed.
LEMMA BuildingKeepsPrimed ==
    ASSUME PrimedInv, NEW x \in Translators, Construct(x) \/ Building(x) \/ Vanish(x)
    PROVE  SavedIsPrimed' /\ Primed(x)'
<1> USE DEF sdk, disk, Becomes, Live
<1>1. TypeOK /\ Primed(x) /\ SavedIsPrimed /\ Step(x)
  BY DEF PrimedInv, Step
<1>2. /\ Ids \subseteq Ids' /\ primed \subseteq primed' /\ primed \subseteq Ids
      /\ started' # started => started' = started + 1 /\ started' \in Ids'
  BY <1>1, IdsGrow DEF TypeOK
<1>3. SavedIsPrimed'
  <2>1. state' = state \/ (state' = NextState(x) /\ life[x] = "saving")
    BY DEF Construct, Building, Vanish, ResumeThread, StartThread, PrimeThread, LoadState,
           SaveState, ConstructorRaises, Start
  <2>2. QED
    BY <1>1, <2>1, SavedAgain DEF Primed, BuildPrimed
<1>4. /\ DOMAIN life = Translators /\ DOMAIN thread = Translators /\ DOMAIN former = Translators
      /\ DOMAIN found = Translators /\ DOMAIN phase = Translators
  BY <1>1 DEF TypeOK
<1> USE <1>1, <1>2, <1>3, <1>4 DEF Primed, CalledWhenUp, FoundPrimed, BuildPrimed, UpPrimed
<1>5. CASE Construct(x)
  BY <1>5 DEF Construct, SavedIsPrimed
<1>6. CASE ResumeThread(x)
  BY <1>6 DEF ResumeThread
<1>7. CASE StartThread(x)
  BY <1>7 DEF StartThread, Start
<1>8. CASE PrimeThread(x)
  BY <1>8 DEF PrimeThread
<1>9. CASE LoadState(x)
  BY <1>9 DEF LoadState, SavedIsPrimed
<1>10. CASE SaveState(x)
  BY <1>10 DEF SaveState
<1>11. CASE ConstructorRaises(x)
  BY <1>11 DEF ConstructorRaises, Discard
<1>12. CASE Vanish(x)
  BY <1>12 DEF Vanish, Discard
<1>13. QED
  BY <1>3, <1>5, <1>6, <1>7, <1>8, <1>9, <1>10, <1>11, <1>12 DEF Building

\* translate keeps the types, and the lock names its holder.
LEMMA CallKeepsTypes ==
    ASSUME PrimedInv, NEW x \in Translators, NEW c \in Callers,
           Enter(x, c) \/ Holding(x, c) \/ CountTurn(x, c)
    PROVE  TypeOK'
<1> USE DEF sdk, disk, self, In, NoThread
<1>1. /\ TypeOK /\ Primed(x) /\ Step(x)
      /\ NoState \in States' /\ NextState(x) \in States
  BY NextStateTyped DEF PrimedInv, Step, States, NoState
<1>2. /\ Ids \subseteq Ids' /\ primed \subseteq primed' /\ started' \in 0..MaxThreads
      /\ started' # started => started' = started + 1 /\ started' \in Ids'
      /\ States \subseteq States'
  BY <1>1, IdsGrow DEF States
<1>3. /\ lock' \in [Translators -> Callers \cup {NoCaller}]
      /\ phase' \in [Translators -> [Callers -> Calls]]
      /\ \A y \in Translators : \A d \in Callers :
           lock'[y] = d <=> phase'[y][d] \notin {"idle", "counting"}
  <2> USE <1>1 DEF Leaves, Calls
  <2>1. CASE Enter(x, c)
    BY <2>1, HolderKept DEF Enter
  <2>2. CASE CompactNatively(x, c) \/ CompactFails(x, c)
    BY <2>2, HolderKept DEF CompactNatively, CompactFails
  <2>0. CASE RotateThread(x, c) \/ PrimeNew(x, c) \/ PrimeNewFails(x, c)
    BY <2>0, HolderKept DEF RotateThread, PrimeNew, PrimeNewFails
  <2>3. CASE \/ LoadForRotate(x, c) \/ SaveRotated(x, c) \/ SaveFails(x, c)
             \/ Turn(x, c) \/ TurnBlank(x, c) \/ TurnFails(x, c)
    BY <2>3, HolderKept DEF LoadForRotate, SaveRotated, SaveFails, Turn, TurnBlank, TurnFails
  <2>4. CASE CountTurn(x, c)
    BY <2>4, HolderKept DEF CountTurn
  <2>5. QED
    BY <2>0, <2>1, <2>2, <2>3, <2>4 DEF Holding
<1>4. /\ turns' \in [Translators -> Nat] /\ uncounted' \in [Translators -> Nat]
      /\ context' \in [1..MaxThreads -> Nat] /\ life' = life
  <2>1. /\ life' = life
        /\ \/ turns' = turns \/ turns' = [turns EXCEPT ![x] = 0]
           \/ turns' = [turns EXCEPT ![x] = @ + 1]
        /\ \/ uncounted' = uncounted \/ uncounted' = [uncounted EXCEPT ![x] = 0]
           \/ uncounted' = [uncounted EXCEPT ![x] = @ + 1]
        /\ \/ context' = context \/ context' = [context EXCEPT ![thread[x]] = 0]
           \/ context' = [context EXCEPT ![thread[x]] = @ + 1]
    BY DEF Enter, Holding, CompactNatively, CompactFails, RotateThread, PrimeNew, Start, Grows,
           PrimeNewFails, LoadForRotate, SaveRotated, SaveFails, Turn, TurnBlank, TurnFails, CountTurn
  <2>2. /\ turns \in [Translators -> Nat] /\ uncounted \in [Translators -> Nat]
        /\ context \in [1..MaxThreads -> Nat]
    BY <1>1 DEF TypeOK
  <2>3. turns' \in [Translators -> Nat]
    BY <2>1, <2>2
  <2>4. uncounted' \in [Translators -> Nat]
    BY <2>1, <2>2
  <2>5. context' \in [1..MaxThreads -> Nat]
    BY <2>1, <2>2
  <2>6. QED
    BY <2>1, <2>3, <2>4, <2>5
<1>5. /\ thread' \in [Translators -> Ids' \cup {NoThread}]
      /\ former' \in [Translators -> Ids' \cup {NoThread}]
  <2>1. thread \in [Translators -> Ids' \cup {NoThread}] /\ former \in [Translators -> Ids' \cup {NoThread}]
    BY <1>1, <1>2 DEF TypeOK
  <2>2. \/ thread' = thread /\ former' = former
        \/ thread' = [thread EXCEPT ![x] = started'] /\ former' = [former EXCEPT ![x] = thread[x]]
           /\ started' \in Ids'
        \/ thread' = [thread EXCEPT ![x] = former[x]] /\ former' = [former EXCEPT ![x] = NoThread]
        \/ thread' = thread /\ former' = [former EXCEPT ![x] = NoThread]
    <3>1. CASE RotateThread(x, c)
      <4>1. started' = started + 1 /\ started' # started
        BY <1>1, <3>1, CodexAssumption DEF RotateThread, Start, TypeOK
      <4>2. QED
        BY <1>2, <3>1, <4>1 DEF RotateThread, Start
    <3>2. CASE ~RotateThread(x, c)
      BY <3>2 DEF Enter, Holding, CompactNatively, CompactFails, PrimeNew,
              PrimeNewFails, LoadForRotate, SaveRotated, SaveFails, Turn, TurnBlank, TurnFails, CountTurn
    <3>3. QED
      BY <3>1, <3>2
  <2>3. QED
    BY <2>1, <2>2
<1>6. found' \in [Translators -> States'] /\ state' \in States'
  <2>1. state \in States' /\ found \in [Translators -> States'] /\ NextState(x) \in States'
    BY <1>1, <1>2 DEF TypeOK
  <2>2. /\ state' = state \/ state' = NextState(x)
        /\ \/ found' = found \/ found' = [found EXCEPT ![x] = NoState]
           \/ found' = [found EXCEPT ![x] = state]
    BY DEF Enter, Holding, CompactNatively, CompactFails, RotateThread, PrimeNew,
           PrimeNewFails, LoadForRotate, SaveRotated, SaveFails, Turn, TurnBlank, TurnFails, CountTurn, Start
  <2>3. QED
    BY <1>1, <2>1, <2>2
<1>7. primed' \subseteq Ids'
  <2>1. \/ primed' = primed
        \/ primed' = primed \cup {thread[x]} /\ thread[x] \in Ids
    <3>1. CASE PrimeNew(x, c)
      <4>1. life[x] = "up" /\ phase[x][c] = "priming"
        BY <3>1 DEF PrimeNew
      <4>2. thread[x] \in Ids
        BY <1>1, <4>1 DEF Primed, UpPrimed
      <4>3. QED
        BY <3>1, <4>2 DEF PrimeNew
    <3>2. CASE ~PrimeNew(x, c)
      BY <3>2 DEF Enter, Holding, CompactNatively, CompactFails, RotateThread,
             PrimeNewFails, LoadForRotate, SaveRotated, SaveFails, Turn, TurnBlank, TurnFails, CountTurn, Start
    <3>3. QED
      BY <3>1, <3>2
  <2>2. QED
    BY <1>1, <1>2, <2>1 DEF TypeOK
<1>8. QED
  BY <1>1, <1>2, <1>3, <1>4, <1>5, <1>6, <1>7 DEF TypeOK

\* The callers inside the lock are one caller.
LEMMA HolderAlone ==
    ASSUME TypeOK, NEW x \in Translators, NEW c \in Callers, NEW d \in Callers,
           phase[x][c] \notin {"idle", "counting"}, phase[x][d] \notin {"idle", "counting"}
    PROVE  c = d
BY DEF TypeOK

\* Outside of priming a translator that is up is on a primed thread.
LEMMA OnPrimed ==
    ASSUME PrimedInv, NEW x \in Translators, NEW c \in Callers, life[x] = "up",
           phase[x][c] \notin {"idle", "counting", "priming"}
    PROVE  thread[x] \in primed /\ \A d \in Callers : phase[x][d] # "priming"
<1>1. \A d \in Callers : phase[x][d] # "priming"
  BY HolderAlone DEF PrimedInv
<1>2. QED
  BY <1>1 DEF PrimedInv, Primed, UpPrimed

\* translate, rotations that fail included, ends on a primed thread.
LEMMA CallKeepsPrimed ==
    ASSUME PrimedInv, NEW x \in Translators, NEW c \in Callers,
           Enter(x, c) \/ Holding(x, c) \/ CountTurn(x, c)
    PROVE  SavedIsPrimed' /\ Primed(x)'
<1> USE DEF sdk, disk, self, In
<1>1. TypeOK /\ Primed(x) /\ SavedIsPrimed /\ Step(x)
  BY DEF PrimedInv, Step
<1>2. /\ life[x] = "up" /\ life' = life /\ primed \subseteq primed' /\ Ids \subseteq Ids'
      /\ DOMAIN thread = Translators /\ DOMAIN former = Translators /\ DOMAIN found = Translators
  BY <1>1, IdsGrow DEF TypeOK, Enter, Holding, CompactNatively, CompactFails, RotateThread, PrimeNew,
           PrimeNewFails, LoadForRotate, SaveRotated, SaveFails, Turn, TurnBlank, TurnFails, CountTurn
<1>3. \A d \in Callers : d # c => phase'[x][d] = phase[x][d]
  BY <1>1 DEF TypeOK, Moves, Leaves, Enter, Holding, CompactNatively, CompactFails, RotateThread,
           PrimeNew, PrimeNewFails, LoadForRotate, SaveRotated, SaveFails, Turn, TurnBlank, TurnFails, CountTurn
<1>4. ASSUME NEW to, Moves(x, c, to) PROVE phase'[x][c] = to
  BY <1>1, <1>4 DEF TypeOK, Moves
<1>5. SavedIsPrimed'
  <2>1. state' = state \/ (state' = NextState(x) /\ phase[x][c] = "saving")
    BY DEF Enter, Holding, CompactNatively, CompactFails, RotateThread, PrimeNew, Start,
           PrimeNewFails, LoadForRotate, SaveRotated, SaveFails, Turn, TurnBlank, TurnFails, CountTurn
  <2>2. QED
    BY <1>1, <1>2, <2>1, SavedAgain, OnPrimed
<1>6. FoundPrimed(x)'
  <2>1. found'[x] \in {found[x], NoState, state}
    BY <1>2 DEF Enter, Holding, CompactNatively, CompactFails, RotateThread, PrimeNew,
           PrimeNewFails, LoadForRotate, SaveRotated, SaveFails, Turn, TurnBlank, TurnFails, CountTurn
  <2>2. QED
    BY <1>1, <1>2, <2>1 DEF Primed, FoundPrimed, SavedIsPrimed
<1>7. UpPrimed(x)'
  <2>1. CASE RotateThread(x, c)
    <3>1. phase'[x][c] = "priming" /\ thread'[x] = started' /\ former'[x] = thread[x]
      BY <1>2, <1>4, <2>1 DEF RotateThread, Start
    <3>2. thread[x] \in primed
      BY <1>2, <2>1, OnPrimed DEF RotateThread
    <3>3. started' \in Ids'
      BY <1>1, <2>1, IdsGrow, CodexAssumption DEF RotateThread, Start, TypeOK
    <3>4. QED
      BY <1>2, <3>1, <3>2, <3>3 DEF UpPrimed
  <2>2. CASE PrimeNew(x, c)
    <3>1. phase'[x][c] = "rotating" /\ thread' = thread /\ thread[x] \in primed'
      BY <1>4, <2>2 DEF PrimeNew
    <3>2. \A d \in Callers : phase'[x][d] # "priming"
      BY <1>1, <1>3, <2>2, <3>1, HolderAlone DEF PrimeNew
    <3>3. QED
      BY <3>1, <3>2 DEF UpPrimed
  <2>3. CASE PrimeNewFails(x, c)
    <3>1. phase'[x][c] = "idle" /\ thread'[x] = former[x] /\ former[x] \in primed
      BY <1>1, <1>2, <1>4, <2>3 DEF PrimeNewFails, Leaves, Primed, UpPrimed
    <3>2. \A d \in Callers : phase'[x][d] # "priming"
      BY <1>1, <1>3, <2>3, <3>1, HolderAlone DEF PrimeNewFails
    <3>3. QED
      BY <1>2, <3>1, <3>2 DEF UpPrimed
  <2>4. CASE Enter(x, c) \/ CountTurn(x, c)
    <3>1. /\ thread' = thread /\ former' = former
          /\ phase[x][c] # "priming" /\ phase'[x][c] # "priming"
      BY <1>4, <2>4 DEF Enter, CountTurn
    <3>2. QED
      BY <1>1, <1>2, <1>3, <3>1 DEF Primed, UpPrimed
  <2>5. CASE \/ CompactNatively(x, c) \/ CompactFails(x, c)
             \/ LoadForRotate(x, c) \/ SaveRotated(x, c) \/ SaveFails(x, c)
             \/ Turn(x, c) \/ TurnBlank(x, c) \/ TurnFails(x, c)
    <3>1. /\ thread' = thread /\ former' = former
          /\ phase[x][c] # "priming" /\ phase'[x][c] # "priming"
      BY <1>4, <2>5 DEF CompactNatively, CompactFails, LoadForRotate, SaveRotated, SaveFails,
                        Turn, TurnBlank, TurnFails, Leaves
    <3>2. QED
      BY <1>1, <1>2, <1>3, <3>1 DEF Primed, UpPrimed
  <2>6. QED
    BY <2>1, <2>2, <2>3, <2>4, <2>5 DEF Holding
<1>8. CalledWhenUp(x)' /\ BuildPrimed(x)'
  BY <1>2 DEF CalledWhenUp, BuildPrimed
<1>9. QED
  BY <1>5, <1>6, <1>7, <1>8 DEF Primed

\* The threads translators know are primed where PrimedInv says so.
THEOREM ThreadInvariant == Spec => []PrimedInv
<1>1. ASSUME PrimedInv, [Next]_vars PROVE PrimedInv'
  <2>1. CASE Next
    <3>1. PICK x \in Translators : Step(x)
      BY <2>1, StepIsNext
    <3>2. TypeOK' /\ SavedIsPrimed' /\ Primed(x)'
      BY <1>1, <3>1, BuildingKeepsTypes, BuildingKeepsPrimed, CallKeepsTypes, CallKeepsPrimed DEF Step
    <3>3. QED
      BY <1>1, <3>1, <3>2, OthersPrimed DEF PrimedInv
  <2>2. CASE UNCHANGED vars
    BY <1>1, <2>2 DEF vars, sdk, disk, self, PrimedInv, TypeOK, Ids, States, SavedIsPrimed, Primed,
                      CalledWhenUp, FoundPrimed, BuildPrimed, UpPrimed
  <2>3. QED
    BY <1>1, <2>1, <2>2
<1>2. QED
  BY InitPrimed, <1>1, PTL DEF Spec

(***************************************************************************)
(* The variables keep their types, and the lock names its holder.          *)
(***************************************************************************)
THEOREM WellTyped == Spec => []TypeOK
<1>1. PrimedInv => TypeOK
  BY DEF PrimedInv
<1>2. QED
  BY <1>1, ThreadInvariant, PTL

(***************************************************************************)
(* Through crashes, failed rotations and failed saves, and with any number *)
(* of translators at once, the id on disk is a primed thread's.            *)
(***************************************************************************)
THEOREM SavedAlwaysPrimed == Spec => []SavedIsPrimed
<1>1. PrimedInv => SavedIsPrimed
  BY DEF PrimedInv
<1>2. QED
  BY <1>1, ThreadInvariant, PTL

(***************************************************************************)
(* Text is only translated in a thread that has been primed.               *)
(***************************************************************************)
THEOREM TurnsAlwaysPrimed == Spec => []TurnsArePrimed
<1>1. PrimedInv => TurnsArePrimed
  BY OnPrimed DEF TurnsArePrimed, In
<1>2. QED
  BY <1>1, ThreadInvariant, PTL

-----------------------------------------------------------------------------
(***************************************************************************)
(* One translator at a time: who is about to save has just read the file.  *)
(***************************************************************************)
OneLives == \A x, y \in Translators : life[x] \in Live /\ life[y] \in Live => x = y

Saving(x) == life[x] = "saving" \/ (life[x] = "up" /\ \E c \in Callers : phase[x][c] = "saving")

ReadCurrent == \A x \in Translators : Saving(x) => found[x] = state

AloneInv == PrimedInv /\ OneLives /\ ReadCurrent

\* What a step does to who lives and to what the saving translator has read.
LEMMA StepAlone ==
    ASSUME ~Overlap, AloneInv, NEW x \in Translators, Step(x)
    PROVE  /\ \A y \in Translators : y # x => life[y] \notin Live
           /\ state' # state => Saving(x) /\ state' = NextState(x)
           /\ Saving(x)' => found'[x] = state'
<1> USE DEF sdk, disk, self, Becomes, In
<1>1. TypeOK /\ PrimedInv
  BY DEF AloneInv, PrimedInv
<1>2. \A y \in Translators : y # x => life[y] \notin Live
  <2>1. CASE Construct(x)
    BY <2>1 DEF Construct
  <2>2. CASE ~Construct(x)
    <3>1. life[x] \in Live
      BY <2>2 DEF Step, Building, Vanish, ResumeThread, StartThread, PrimeThread, LoadState, SaveState,
             ConstructorRaises, Enter, Holding, CompactNatively, CompactFails, RotateThread, PrimeNew,
             PrimeNewFails, LoadForRotate, SaveRotated, SaveFails, Turn, TurnBlank, TurnFails, CountTurn, Live
    <3>2. QED
      BY <3>1 DEF AloneInv, OneLives
  <2>3. QED
    BY <2>1, <2>2
<1>3. state' # state => Saving(x) /\ state' = NextState(x)
  BY DEF Saving, Step, Construct, Building, Vanish, ResumeThread, StartThread, PrimeThread, LoadState,
         SaveState, ConstructorRaises, Enter, Holding, CompactNatively, CompactFails, RotateThread,
         PrimeNew, PrimeNewFails, LoadForRotate, SaveRotated, SaveFails, Turn, TurnBlank, TurnFails, CountTurn,
         Start
<1>4. Saving(x)' => found'[x] = state'
  <2>0. /\ DOMAIN life = Translators /\ DOMAIN found = Translators /\ DOMAIN phase = Translators
        /\ ReadCurrent /\ CalledWhenUp(x)
    BY <1>1 DEF TypeOK, AloneInv, PrimedInv, Primed
  <2>1. CASE Construct(x) \/ Building(x) \/ Vanish(x)
    <3>1. CASE LoadState(x)
      BY <2>0, <3>1 DEF LoadState
    <3>2. CASE SaveState(x)
      <4>1. life'[x] = "up" /\ phase' = phase /\ life[x] # "up"
        BY <2>0, <3>2 DEF SaveState
      <4>2. QED
        BY <2>0, <4>1 DEF Saving, CalledWhenUp
    <3>3. CASE ~LoadState(x) /\ ~SaveState(x)
      <4>1. life'[x] \notin {"saving", "up"}
        BY <2>0, <2>1, <3>3 DEF Construct, Building, Vanish, ResumeThread, StartThread, PrimeThread,
                                ConstructorRaises, Discard
      <4>2. QED
        BY <4>1 DEF Saving
    <3>4. QED
      BY <3>1, <3>2, <3>3
  <2>2. ASSUME NEW c \in Callers, Enter(x, c) \/ Holding(x, c) \/ CountTurn(x, c)
        PROVE  Saving(x)' => found'[x] = state'
    <3>1. /\ life[x] = "up" /\ life' = life
          /\ \A d \in Callers : d # c => phase'[x][d] = phase[x][d]
      BY <1>1, <2>2 DEF TypeOK, Moves, Leaves, Enter, Holding, CompactNatively, CompactFails,
           RotateThread, PrimeNew, PrimeNewFails, LoadForRotate, SaveRotated, SaveFails, Turn,
           TurnBlank, TurnFails, CountTurn
    <3>2. ASSUME NEW to, Moves(x, c, to) PROVE phase'[x][c] = to
      BY <1>1, <3>2 DEF TypeOK, Moves
    <3>3. CASE LoadForRotate(x, c)
      BY <2>0, <3>3 DEF LoadForRotate
    <3>4. CASE \/ CompactNatively(x, c) \/ CompactFails(x, c) \/ RotateThread(x, c)
               \/ PrimeNew(x, c) \/ PrimeNewFails(x, c)
      <4>1. phase'[x][c] # "saving" /\ phase[x][c] \notin {"idle", "counting", "saving"}
        BY <3>2, <3>4 DEF CompactNatively, CompactFails, RotateThread, PrimeNew, PrimeNewFails, Leaves
      <4>2. ~Saving(x)'
        BY <1>1, <3>1, <4>1, HolderAlone DEF Saving
      <4>3. QED
        BY <4>2
    <3>5. CASE SaveRotated(x, c) \/ SaveFails(x, c) \/ Turn(x, c) \/ TurnBlank(x, c) \/ TurnFails(x, c)
      <4>1. phase'[x][c] # "saving" /\ phase[x][c] \notin {"idle", "counting"}
        BY <3>2, <3>5 DEF SaveRotated, SaveFails, Turn, TurnBlank, TurnFails, Leaves
      <4>2. ~Saving(x)'
        BY <1>1, <3>1, <4>1, HolderAlone DEF Saving
      <4>3. QED
        BY <4>2
    <3>6. CASE Enter(x, c) \/ CountTurn(x, c)
      <4>1. phase'[x][c] # "saving" /\ found' = found /\ state' = state
        BY <3>2, <3>6 DEF Enter, CountTurn
      <4>2. QED
        BY <2>0, <3>1, <4>1 DEF Saving, ReadCurrent
    <3>7. QED
      BY <2>2, <3>3, <3>4, <3>5, <3>6 DEF Holding
  <2>3. QED
    BY <2>1, <2>2 DEF Step
<1>5. QED
  BY <1>2, <1>3, <1>4

\* One translator at a time is kept, and so is what it has read.
LEMMA StepKeepsAlone ==
    ASSUME ~Overlap, AloneInv, NEW x \in Translators, Step(x)
    PROVE  OneLives' /\ ReadCurrent'
<1>1. \A y \in Translators : y # x => Kept(y) /\ life[y] \notin Live
  BY StepAlone, OthersKept DEF AloneInv, PrimedInv
<1>2. OneLives'
  BY <1>1 DEF OneLives, Kept, Live
<1>3. ReadCurrent'
  BY <1>1, StepAlone DEF ReadCurrent, Saving, Kept, Live
<1>4. QED
  BY <1>2, <1>3

\* Without overlap, who is about to save has just read the file.
THEOREM AloneInvariant ==
    ASSUME ~Overlap
    PROVE  Spec => []AloneInv
<1>1. Init => OneLives /\ ReadCurrent
  BY DEF Init, OneLives, ReadCurrent, Saving, Live
<1>2. ASSUME AloneInv, PrimedInv', [Next]_vars PROVE AloneInv'
  <2>1. CASE Next
    BY <1>2, <2>1, StepIsNext, StepKeepsAlone DEF AloneInv
  <2>2. CASE UNCHANGED vars
    BY <1>2, <2>2 DEF vars, sdk, disk, self, AloneInv, OneLives, ReadCurrent, Saving
  <2>3. QED
    BY <1>2, <2>1, <2>2
<1>3. Init /\ PrimedInv => AloneInv
  BY <1>1 DEF AloneInv
<1>4. QED
  BY <1>2, <1>3, ThreadInvariant, PTL DEF Spec

(***************************************************************************)
(* Each rotation is one generation further, if two translators do not live *)
(* at once: with two, both may read the same generation.                   *)
(***************************************************************************)
THEOREM GenerationsGrow ==
    ASSUME ~Overlap
    PROVE  Spec => GenerationGrows
<1>1. ASSUME AloneInv, [Next]_vars
      PROVE  [state' # state /\ state # NoState => state'.generation = state.generation + 1]_vars
  <2>1. ASSUME Next, state' # state, state # NoState
        PROVE  state'.generation = state.generation + 1
    <3>1. PICK x \in Translators : Step(x)
      BY <2>1, StepIsNext
    <3>2. Saving(x) /\ state' = NextState(x)
      BY <1>1, <2>1, <3>1, StepAlone
    <3>3. found[x] = state
      BY <1>1, <3>2 DEF AloneInv, ReadCurrent
    <3>4. QED
      BY <2>1, <3>2, <3>3 DEF NextState
  <2>2. QED
    BY <1>1, <2>1
<1>2. QED
  BY <1>1, AloneInvariant, PTL DEF Spec, GenerationGrows

\* With one translator at a time, its lock keeps the turns apart.
LEMMA AloneTurns == ASSUME AloneInv PROVE OneTurnPerThread
<1> SUFFICES ASSUME NEW t \in Ids
             PROVE  Cardinality(UNION {Turning(x, t) : x \in Translators}) <= 1
  BY DEF OneTurnPerThread
<1> DEFINE All == UNION {Turning(x, t) : x \in Translators}
<1>1. ASSUME NEW x \in Translators, NEW e \in Turning(x, t)
      PROVE  /\ life[x] \in Live
             /\ \A f \in Turning(x, t) : f = e
  <2>1. TypeOK /\ CalledWhenUp(x)
    BY DEF AloneInv, PrimedInv, Primed
  <2>2. CASE life[x] = "priming"
    <3>1. \A c \in Callers : phase[x][c] = "idle"
      BY <2>1, <2>2 DEF CalledWhenUp
    <3>2. Turning(x, t) \subseteq {<<x, NoCaller>>}
      BY <3>1 DEF Turning
    <3>3. QED
      BY <2>2, <3>2 DEF Live
  <2>3. CASE life[x] # "priming"
    <3>1. \A f \in Turning(x, t) : \E c \in Callers :
             f = <<x, c>> /\ phase[x][c] \in {"compacting", "priming", "turning"}
      BY <2>3 DEF Turning
    <3>2. life[x] = "up"
      BY <2>1, <3>1 DEF CalledWhenUp
    <3>3. QED
      BY <2>1, <3>1, <3>2, HolderAlone DEF Live
  <2>4. QED
    BY <2>2, <2>3
<1>2. \A e, f \in All : e = f
  BY <1>1 DEF AloneInv, OneLives
<1>3. CASE All = {}
  BY <1>3, FS_EmptySet
<1>4. CASE All # {}
  <2>1. PICK e : All = {e}
    BY <1>2, <1>4
  <2>2. Cardinality({e}) = 1
    BY FS_Singleton
  <2>3. QED
    BY <2>1, <2>2
<1>5. QED
  BY <1>3, <1>4

\* No two turns run in one thread, if translators do not live at once.
THEOREM OneTurnAtATime ==
    ASSUME ~Overlap
    PROVE  Spec => []OneTurnPerThread
<1>1. AloneInv => OneTurnPerThread
  BY AloneTurns
<1>2. QED
  BY <1>1, AloneInvariant, PTL

-----------------------------------------------------------------------------
(***************************************************************************)
(* How far a thread can grow beyond what the counter leaves out: the turns *)
(* that are still to be counted are those of the callers about to do it.   *)
(***************************************************************************)
Counting(x) == {c \in Callers : phase[x][c] = "counting"}

\* The thread whose turns are counted, also while another one is primed.
Counted(x) == IF \E c \in Callers : phase[x][c] = "priming" THEN former[x] ELSE thread[x]

Holder(x) == life[x] \in {"priming", "rotating", "saving", "up"}

Grown(x) ==
    Holder(x) =>
        /\ context[Counted(x)] <= uncounted[x] + turns[x] + Cardinality(Counting(x))
        /\ context[Counted(x)] <= uncounted[x] + MaxTurns + Cardinality(Callers) - 1
        /\ \A c \in Callers : phase[x][c] = "turning" => turns[x] < MaxTurns
        /\ \A c \in Callers :
             phase[x][c] \in {"priming", "rotating", "saving"} => context[thread[x]] = 0

\* A thread that has not been started is empty.
Fresh == \A t \in 1..MaxThreads : t > started => context[t] = 0

GrownInv == AloneInv /\ Fresh /\ \A x \in Translators : Grown(x)

\* A caller that does not count leaves one place less for those that do.
LEMMA Sizes ==
    ASSUME NEW x \in Translators
    PROVE  /\ IsFiniteSet(Counting(x)) /\ Cardinality(Counting(x)) \in Nat
           /\ Cardinality(Callers) \in Nat
           /\ \A c \in Callers \ Counting(x) : Cardinality(Counting(x)) <= Cardinality(Callers) - 1
<1>1. IsFiniteSet(Callers) /\ Counting(x) \subseteq Callers
  BY CodexAssumption DEF Counting
<1>2. IsFiniteSet(Counting(x)) /\ Cardinality(Counting(x)) \in Nat /\ Cardinality(Callers) \in Nat
  BY <1>1, FS_Subset, FS_CardinalityType
<1>3. ASSUME NEW c \in Callers \ Counting(x)
      PROVE  Cardinality(Counting(x)) <= Cardinality(Callers) - 1
  <2>1. Counting(x) \subseteq Callers \ {c} /\ IsFiniteSet(Callers \ {c})
    BY <1>1, <1>3, FS_RemoveElement
  <2>2. Cardinality(Counting(x)) <= Cardinality(Callers \ {c})
    BY <2>1, FS_Subset
  <2>3. Cardinality(Callers \ {c}) = Cardinality(Callers) - 1
    BY <1>1, FS_RemoveElement
  <2>4. QED
    BY <2>2, <2>3
<1>4. QED
  BY <1>2, <1>3

\* The thread a translator holds is one that was started.
LEMMA HeldThreads ==
    ASSUME PrimedInv, NEW x \in Translators, Holder(x)
    PROVE  /\ thread[x] \in 1..MaxThreads /\ context[thread[x]] \in Nat
           /\ Counted(x) \in 1..MaxThreads /\ context[Counted(x)] \in Nat
           /\ turns[x] \in Nat /\ uncounted[x] \in Nat
<1>1. TypeOK /\ Primed(x) /\ primed \subseteq Ids /\ Ids \subseteq 1..MaxThreads
  BY CodexAssumption DEF PrimedInv, TypeOK, Ids
<1>2. thread[x] \in Ids /\ Counted(x) \in Ids
  BY <1>1 DEF Holder, Primed, CalledWhenUp, BuildPrimed, UpPrimed, Counted
<1>3. QED
  BY <1>1, <1>2 DEF TypeOK

\* Who is inside and not priming works on the thread that is counted.
LEMMA InsideCounted ==
    ASSUME PrimedInv, NEW x \in Translators, NEW c \in Callers, life[x] = "up",
           phase[x][c] \notin {"idle", "counting", "priming"}
    PROVE  Counted(x) = thread[x] /\ thread[x] \in Ids
BY OnPrimed DEF Counted, PrimedInv, TypeOK

\* The constructor and the end of a translator keep the bounds.
LEMMA BuildingKeepsGrown ==
    ASSUME GrownInv, MaxTurns > 0, NEW x \in Translators, Construct(x) \/ Building(x) \/ Vanish(x)
    PROVE  Grown(x)' /\ Fresh'
<1> USE DEF sdk, disk, Becomes
<1>1. Grown(x) /\ TypeOK /\ PrimedInv /\ Primed(x) /\ Fresh /\ Step(x)
  BY DEF GrownInv, AloneInv, PrimedInv, Step
<1>2. /\ context' = context /\ started' \in 0..MaxThreads /\ started' >= started
  <2>1. context' = context
    BY DEF Construct, Building, Vanish, ResumeThread, StartThread, PrimeThread, LoadState, SaveState,
           ConstructorRaises, Start
  <2>2. /\ started' \in 0..MaxThreads /\ started \in 0..MaxThreads
        /\ started' # started => started' = started + 1
    BY <1>1, IdsGrow DEF TypeOK
  <2>3. QED
    BY <2>1, <2>2, CodexAssumption
<1>3. Fresh'
  BY <1>1, <1>2 DEF Fresh, TypeOK
<1>4. CASE Construct(x) \/ ConstructorRaises(x) \/ Vanish(x)
  <2>1. ~Holder(x)'
    BY <1>1, <1>4 DEF Construct, ConstructorRaises, Vanish, Discard, Holder, TypeOK
  <2>2. QED
    BY <1>3, <2>1 DEF Grown
<1>5. CASE PrimeThread(x) \/ LoadState(x) \/ SaveState(x)
  <2>1. Holder(x) /\ UNCHANGED <<thread, former, phase, turns, uncounted, context>>
    BY <1>5, <1>2 DEF PrimeThread, LoadState, SaveState, Holder
  <2>2. QED
    BY <1>1, <1>3, <2>1 DEF Grown, Counted, Counting
<1>6. CASE ResumeThread(x) \/ StartThread(x)
  <2>1. /\ \A c \in Callers : phase'[x][c] = "idle"
        /\ turns' = turns /\ turns[x] \in Nat
    BY <1>1, <1>6 DEF ResumeThread, StartThread, Start, Primed, CalledWhenUp, TypeOK
  <2>2. context'[thread'[x]] <= uncounted'[x] /\ context'[thread'[x]] \in Nat /\ uncounted'[x] \in Nat
    <3>1. CASE ResumeThread(x)
      <4>1. found[x].thread \in 1..MaxThreads
        <5>1. found[x].thread \in Ids /\ started \in 0..MaxThreads
          BY <1>1, <3>1 DEF ResumeThread, Primed, FoundPrimed, TypeOK
        <5>2. QED
          BY <5>1, CodexAssumption DEF Ids
      <4>2. thread'[x] = found[x].thread /\ uncounted'[x] = context[found[x].thread]
        BY <1>1, <3>1 DEF ResumeThread, TypeOK
      <4>3. QED
        BY <1>1, <1>2, <4>1, <4>2 DEF TypeOK
    <3>2. CASE StartThread(x)
      <4>1. started + 1 \in 1..MaxThreads /\ context[started + 1] = 0
        BY <1>1, <3>2, CodexAssumption DEF StartThread, Start, Fresh, TypeOK
      <4>2. thread'[x] = started + 1 /\ uncounted'[x] \in Nat
        BY <1>1, <3>2 DEF StartThread, Start, TypeOK
      <4>3. QED
        BY <1>2, <4>1, <4>2
    <3>3. QED
      BY <1>6, <3>1, <3>2
  <2>3. Counted(x)' = thread'[x]
    BY <2>1 DEF Counted
  <2>4. Cardinality(Counting(x))' \in Nat /\ Cardinality(Callers) \in Nat
    <3>1. IsFiniteSet(Callers) /\ Counting(x)' \subseteq Callers
      BY CodexAssumption DEF Counting
    <3>2. QED
      BY <3>1, FS_Subset, FS_CardinalityType
  <2>5. QED
    BY <1>3, <2>1, <2>2, <2>3, <2>4, CodexAssumption DEF Grown
<1>7. QED
  BY <1>4, <1>5, <1>6 DEF Building

\* translate keeps the bounds, although turns are counted late.
LEMMA CallKeepsGrown ==
    ASSUME GrownInv, MaxTurns > 0, NEW x \in Translators, NEW c \in Callers,
           Enter(x, c) \/ Holding(x, c) \/ CountTurn(x, c)
    PROVE  Grown(x)'
<1> USE DEF sdk, disk, self, In
<1>0. /\ TypeOK /\ PrimedInv /\ Primed(x) /\ Grown(x) /\ Fresh /\ MaxTurns \in Nat
      /\ DOMAIN turns = Translators /\ DOMAIN uncounted = Translators
      /\ DOMAIN thread = Translators /\ DOMAIN former = Translators
      /\ context \in [1..MaxThreads -> Nat]
  BY CodexAssumption DEF GrownInv, AloneInv, PrimedInv, TypeOK
<1>1. /\ life[x] = "up" /\ Holder(x)
      /\ \A d \in Callers : d # c => phase'[x][d] = phase[x][d]
  BY <1>0 DEF TypeOK, Moves, Leaves, Enter, Holding, CompactNatively, CompactFails, RotateThread,
           PrimeNew, PrimeNewFails, LoadForRotate, SaveRotated, SaveFails, Turn, TurnBlank, TurnFails,
           CountTurn, Holder
<1>2. ASSUME NEW to, Moves(x, c, to) PROVE phase'[x][c] = to
  BY <1>0, <1>2 DEF TypeOK, Moves
<1>3. ASSUME phase[x][c] # "counting", phase'[x][c] # "counting" PROVE Counting(x)' = Counting(x)
  BY <1>1, <1>3 DEF Counting
<1>4. /\ IsFiniteSet(Counting(x)) /\ Cardinality(Counting(x)) \in Nat /\ Cardinality(Callers) \in Nat
      /\ c \notin Counting(x) => Cardinality(Counting(x)) <= Cardinality(Callers) - 1
  BY Sizes
<1>5. /\ thread[x] \in 1..MaxThreads /\ Counted(x) \in 1..MaxThreads
      /\ context[thread[x]] \in Nat /\ context[Counted(x)] \in Nat
      /\ turns[x] \in Nat /\ uncounted[x] \in Nat
  BY <1>0, <1>1, HeldThreads
<1>6. phase[x][c] \notin {"idle", "counting", "priming"} => Counted(x) = thread[x]
  BY <1>0, <1>1, InsideCounted
<1>7. phase[x][c] \notin {"idle", "counting"} =>
        \A d \in Callers : phase[x][d] \notin {"idle", "counting"} => d = c
  BY <1>0, HolderAlone
<1>8. ASSUME thread' = thread, former' = former,
             phase[x][c] # "priming", phase'[x][c] # "priming"
      PROVE  Counted(x)' = Counted(x)
  BY <1>1, <1>8 DEF Counted
<1>9. CASE \/ Enter(x, c) \/ CompactFails(x, c) \/ LoadForRotate(x, c) \/ SaveFails(x, c)
           \/ TurnFails(x, c)
  <2>1. /\ UNCHANGED <<context, turns, uncounted, thread, former>>
        /\ phase[x][c] \notin {"counting", "priming"} /\ phase'[x][c] \notin {"counting", "priming"}
        /\ phase'[x][c] = "turning" => turns[x] < MaxTurns
        /\ phase'[x][c] \in {"rotating", "saving"} => phase[x][c] \in {"rotating", "saving"}
    BY <1>0, <1>2, <1>5, <1>9 DEF Enter, CompactDue, CompactFails, LoadForRotate, SaveFails, TurnFails,
                            Leaves
  <2>2. Counting(x)' = Counting(x) /\ Counted(x)' = Counted(x)
    BY <1>3, <1>8, <2>1
  <2>3. QED
    BY <1>0, <1>1, <2>1, <2>2 DEF Grown
<1>10. CASE RotateThread(x, c)
  <2>1. /\ UNCHANGED <<context, turns, uncounted>>
        /\ thread'[x] = started + 1 /\ former'[x] = thread[x] /\ started < MaxThreads
        /\ phase[x][c] = "starting" /\ phase'[x][c] = "priming"
    BY <1>0, <1>2, <1>10 DEF RotateThread, Start
  <2>2. Counting(x)' = Counting(x) /\ Counted(x)' = Counted(x)
    BY <1>3, <1>6, <2>1 DEF Counted
  <2>3. context'[thread'[x]] = 0
    BY <1>0, <2>1, CodexAssumption DEF Fresh, TypeOK
  <2>4. \A d \in Callers : phase'[x][d] # "turning"
    BY <1>1, <1>7, <2>1
  <2>5. QED
    BY <1>0, <1>1, <2>1, <2>2, <2>3, <2>4 DEF Grown
<1>11. CASE PrimeNewFails(x, c)
  <2>1. /\ UNCHANGED <<context, turns, uncounted>> /\ thread'[x] = former[x]
        /\ phase[x][c] = "priming" /\ phase'[x][c] = "idle"
    BY <1>0, <1>2, <1>11 DEF PrimeNewFails, Leaves
  <2>2. \A d \in Callers : phase'[x][d] \in {"idle", "counting"}
    BY <1>1, <1>7, <2>1
  <2>3. Counting(x)' = Counting(x) /\ Counted(x)' = Counted(x)
    BY <1>3, <2>1, <2>2 DEF Counted
  <2>4. QED
    BY <1>0, <1>1, <2>1, <2>2, <2>3 DEF Grown
<1>12. CASE CompactNatively(x, c) \/ PrimeNew(x, c) \/ SaveRotated(x, c)
  <2>1. /\ phase[x][c] \notin {"idle", "counting"} /\ phase'[x][c] \notin {"counting", "priming"}
        /\ phase'[x][c] = "turning" => turns'[x] = 0
        /\ turns'[x] \in {0, turns[x]} /\ uncounted'[x] \in {0, uncounted[x]} /\ thread' = thread
    BY <1>0, <1>2, <1>12 DEF CompactNatively, PrimeNew, SaveRotated
  <2>2. context'[thread[x]] = 0
    <3>1. CASE CompactNatively(x, c)
      BY <1>0, <1>5, <3>1 DEF CompactNatively
    <3>2. CASE PrimeNew(x, c) \/ SaveRotated(x, c)
      BY <1>0, <1>1, <3>2 DEF PrimeNew, SaveRotated, Grown
    <3>3. QED
      BY <1>12, <3>1, <3>2
  <2>3. Counting(x)' = Counting(x)
    BY <1>3, <2>1
  <2>4. \A d \in Callers : phase'[x][d] = "turning" => d = c
    BY <1>1, <1>7, <2>1
  <2>5. Counted(x)' = thread[x]
    BY <1>1, <1>7, <2>1 DEF Counted
  <2>6. QED
    BY <1>0, <1>4, <1>5, <2>1, <2>2, <2>3, <2>4, <2>5 DEF Grown
<1>13. CASE Turn(x, c) \/ TurnBlank(x, c)
  <2>1. /\ context' = [context EXCEPT ![thread[x]] = @ + 1]
        /\ UNCHANGED <<turns, thread, former>>
        /\ phase[x][c] = "turning" /\ phase'[x][c] \in {"idle", "counting"}
    BY <1>0, <1>2, <1>13 DEF Turn, TurnBlank, Grows, Leaves
  <2>2. Counted(x)' = thread[x] /\ Counted(x) = thread[x] /\ c \notin Counting(x)
    BY <1>6, <1>8, <2>1 DEF Counting
  <2>3. context'[thread[x]] = context[thread[x]] + 1
    BY <1>0, <1>5, <2>1
  <2>4. turns[x] + 1 <= MaxTurns
    BY <1>0, <1>1, <1>5, <2>1 DEF Grown
  <2>5. \A d \in Callers : phase'[x][d] \notin {"turning", "priming", "rotating", "saving"}
    BY <1>1, <1>7, <2>1
  <2>6. CASE Turn(x, c)
    <3>1. uncounted' = uncounted /\ phase'[x][c] = "counting"
      BY <1>2, <2>6 DEF Turn, Leaves
    <3>2. Counting(x)' = Counting(x) \cup {c}
      BY <1>1, <3>1 DEF Counting
    <3>3. Cardinality(Counting(x))' = Cardinality(Counting(x)) + 1
      BY <1>4, <2>2, <3>2, FS_AddElement
    <3>4. context[thread[x]] + 1 <= uncounted[x] + MaxTurns + Cardinality(Callers) - 1
      BY <1>0, <1>1, <1>4, <1>5, <2>2, <2>4 DEF Grown
    <3>5. QED
      BY <1>0, <1>1, <1>4, <1>5, <2>1, <2>2, <2>3, <2>5, <3>1, <3>3, <3>4 DEF Grown
  <2>7. CASE TurnBlank(x, c)
    <3>1. uncounted'[x] = uncounted[x] + 1 /\ phase'[x][c] = "idle"
      BY <1>0, <1>2, <2>7 DEF TurnBlank, Leaves
    <3>2. Counting(x)' = Counting(x)
      BY <1>3, <2>1, <3>1
    <3>3. QED
      BY <1>0, <1>1, <1>4, <1>5, <2>1, <2>2, <2>3, <2>5, <3>1, <3>2 DEF Grown
  <2>8. QED
    BY <1>13, <2>6, <2>7
<1>14. CASE CountTurn(x, c)
  <2>1. /\ UNCHANGED <<context, uncounted, thread, former>>
        /\ turns'[x] = turns[x] + 1 /\ lock[x] = NoCaller
        /\ phase[x][c] = "counting" /\ phase'[x][c] = "idle"
    BY <1>0, <1>2, <1>14 DEF CountTurn
  <2>2. Counting(x)' = Counting(x) \ {c} /\ c \in Counting(x)
    BY <1>1, <2>1 DEF Counting
  <2>3. Cardinality(Counting(x))' = Cardinality(Counting(x)) - 1
    BY <1>4, <2>2, FS_RemoveElement
  <2>4. \A d \in Callers : phase'[x][d] \in {"idle", "counting"}
    BY <1>0, <1>1, <2>1, CodexAssumption DEF TypeOK
  <2>5. Counted(x)' = Counted(x)
    BY <1>8, <2>1
  <2>6. context[Counted(x)] <= uncounted[x] + turns'[x] + Cardinality(Counting(x))'
    <3>1. context[Counted(x)] <= uncounted[x] + turns[x] + Cardinality(Counting(x))
      BY <1>0, <1>1 DEF Grown
    <3>2. QED
      BY <1>4, <1>5, <2>1, <2>3, <3>1
  <2>7. QED
    BY <1>0, <1>1, <2>1, <2>4, <2>5, <2>6 DEF Grown
<1>15. QED
  BY <1>9, <1>10, <1>11, <1>12, <1>13, <1>14 DEF Holding

\* Only a thread that was started grows.
LEMMA CallKeepsFresh ==
    ASSUME GrownInv, NEW x \in Translators, NEW c \in Callers,
           Enter(x, c) \/ Holding(x, c) \/ CountTurn(x, c)
    PROVE  Fresh'
<1> USE DEF sdk, disk, self, In
<1>1. /\ TypeOK /\ PrimedInv /\ Fresh /\ Step(x) /\ life[x] = "up" /\ MaxThreads \in Nat
  BY CodexAssumption
  DEF GrownInv, AloneInv, PrimedInv, Step, Enter, Holding, CompactNatively, CompactFails,
      RotateThread, PrimeNew, PrimeNewFails, LoadForRotate, SaveRotated, SaveFails, Turn, TurnBlank,
      TurnFails, CountTurn
<1>2. started \in Nat /\ started' \in Nat /\ started' >= started
  <2>1. /\ started' \in 0..MaxThreads /\ started \in 0..MaxThreads
        /\ started' # started => started' = started + 1
    BY <1>1, IdsGrow DEF TypeOK
  <2>2. QED
    BY <1>1, <2>1
<1>3. thread[x] \in Ids \/ context' = context
  BY <1>1, InsideCounted
  DEF Enter, Holding, CompactNatively, CompactFails, RotateThread, PrimeNew, PrimeNewFails,
      LoadForRotate, SaveRotated, SaveFails, Turn, TurnBlank, TurnFails, CountTurn, Start
<1>4. \A t \in 1..MaxThreads : t # thread[x] => context'[t] = context[t]
  BY <1>1
  DEF TypeOK, Enter, Holding, CompactNatively, CompactFails, RotateThread, PrimeNew, PrimeNewFails,
      LoadForRotate, SaveRotated, SaveFails, Turn, TurnBlank, TurnFails, CountTurn, Start, Grows
<1>5. QED
  BY <1>1, <1>2, <1>3, <1>4 DEF Fresh, Ids

(***************************************************************************)
(* The turn counter may lag, since it is incremented after the lock has    *)
(* been given up, but never by more than the number of callers: beyond the *)
(* turns it leaves out by design, a thread stays within that of the limit, *)
(* if two translators do not use it at once (translate,                    *)
(* _compact_if_needed).                                                    *)
(***************************************************************************)
THEOREM CountedTurnsStayBounded ==
    ASSUME ~Overlap
    PROVE  Spec => []CountedTurnsBounded
<1>1. CASE MaxTurns > 0
  <2>1. Init /\ AloneInv => GrownInv
    BY DEF Init, GrownInv, Grown, Holder, Fresh
  <2>2. ASSUME GrownInv, AloneInv', [Next]_vars PROVE GrownInv'
    <3>1. CASE Next
      <4>1. PICK x \in Translators : Step(x)
        BY <3>1, StepIsNext
      <4>2. Grown(x)' /\ Fresh'
        BY <1>1, <2>2, <4>1, BuildingKeepsGrown, CallKeepsGrown, CallKeepsFresh DEF Step
      <4>3. ASSUME NEW y \in Translators, y # x PROVE Grown(y)'
        BY <2>2, <4>1, <4>3, OthersKept, StepAlone
        DEF GrownInv, AloneInv, PrimedInv, Kept, Grown, Holder, Live
      <4>4. QED
        BY <2>2, <4>2, <4>3 DEF GrownInv
    <3>2. CASE UNCHANGED vars
      BY <2>2, <3>2 DEF vars, sdk, disk, self, GrownInv, Grown, Holder, Counted, Counting, Fresh
    <3>3. QED
      BY <2>2, <3>1, <3>2
  <2>3. ASSUME GrownInv PROVE CountedTurnsBounded
    <3> SUFFICES ASSUME NEW x \in Translators, life[x] = "up"
                 PROVE  context[thread[x]] <= uncounted[x] + MaxTurns + Cardinality(Callers) - 1
      BY DEF CountedTurnsBounded
    <3>1. Grown(x) /\ Holder(x) /\ PrimedInv
      BY <2>3 DEF GrownInv, AloneInv, Holder
    <3>2. uncounted[x] \in Nat /\ MaxTurns \in Nat
      BY <3>1, HeldThreads, CodexAssumption
    <3>3. CASE \E c \in Callers : phase[x][c] = "priming"
      <4>1. PICK c \in Callers : phase[x][c] = "priming"
        BY <3>3
      <4>2. Cardinality(Callers) \in Nat /\ Cardinality(Callers) >= 1
        BY <4>1, CodexAssumption, FS_CardinalityType, FS_EmptySet
      <4>3. context[thread[x]] = 0
        BY <3>1, <4>1 DEF Grown
      <4>4. QED
        BY <3>2, <4>2, <4>3
    <3>4. CASE ~\E c \in Callers : phase[x][c] = "priming"
      BY <3>1, <3>4 DEF Grown, Counted
    <3>5. QED
      BY <3>3, <3>4
  <2>4. QED
    BY <2>1, <2>2, <2>3, AloneInvariant, PTL DEF Spec
<1>2. CASE ~(MaxTurns > 0)
  <2>1. CountedTurnsBounded
    BY <1>2 DEF CountedTurnsBounded
  <2>2. QED
    BY <2>1, PTL
<1>3. QED
  BY <1>1, <1>2
=============================================================================
