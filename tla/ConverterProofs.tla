-------------------------- MODULE ConverterProofs --------------------------
(***************************************************************************)
(* Which samples the converter's filters read, proved for every length of  *)
(* ring, kernel and delay line: the windows are those of a shift register. *)
(* The invariant says what every entry of every ring holds; a store and    *)
(* the wrap of the index keep it, and the windows follow.                  *)
(* A second one counts the samples between the loops, for every number of  *)
(* stages: no stage starves, and none finds a rest of the call before.     *)
(***************************************************************************)
EXTENDS Converter, TLAPS

\* How many pushes ago entry j was written, in a ring whose next entry is index.
Age(index, size, j) == IF j < index THEN index - 1 - j ELSE index - 1 - j + size

\* After n pushes, both copies of every entry hold what its age says.
Holds(ring, size, n) ==
  /\ ring = [queue |-> ring.queue, index |-> ring.index]
  /\ ring.index \in 0 .. size - 1
  /\ ring.queue \in [0 .. 2 * size - 1 -> Nat]
  /\ \A j \in 0 .. size - 1 :
       /\ ring.queue[j] = Latest(n, Age(ring.index, size, j))
       /\ ring.queue[j + size] = Latest(n, Age(ring.index, size, j))

\* The same for the delay line, which has one copy.
LineHolds(line, n) ==
  /\ line = [queue |-> line.queue, index |-> line.index]
  /\ line.index \in 0 .. QDelay - 1
  /\ line.queue \in [0 .. 15 -> Nat]
  /\ \A j \in 0 .. QDelay - 1 : line.queue[j] = Latest(n, Age(line.index, QDelay, j))

RingsHold ==
  /\ level \in Levels
  /\ stage \in Stage
  /\ pairs \in Nat
  /\ pushed \in [Stage -> Nat]
  /\ \A s \in Stage : pushed[s] % 2 = 0
  /\ Holds(fir, History, pairs)
  /\ LineHolds(delay, pairs)
  /\ DOMAIN stages = Stage
  /\ \A s \in Stage : Holds(stages[s], BufSize(s), pushed[s])

-----------------------------------------------------------------------------
(* Rings *)

LEMMA SilenceHolds == ASSUME NEW size \in Nat \ {0} PROVE Holds(Silence(size), size, 0)
BY DEF Holds, Silence, Latest, Age

\* A store keeps what the ring holds, one push later.
LEMMA StoreHolds ==
  ASSUME NEW size \in Nat \ {0}, NEW n \in Nat, NEW ring, Holds(ring, size, n)
  PROVE  Holds(Store(ring, size, n + 1), size, n + 1)
<1> DEFINE new == Store(ring, size, n + 1)
<1>1. /\ new = [queue |-> new.queue, index |-> new.index]
      /\ new.index = IF ring.index + 1 = size THEN 0 ELSE ring.index + 1
      /\ new.queue \in [0 .. 2 * size - 1 -> Nat]
      /\ \A j \in 0 .. 2 * size - 1 :
           new.queue[j] = IF j \in {ring.index, ring.index + size} THEN n + 1
                          ELSE ring.queue[j]
  BY DEF Store, Holds
<1> HIDE DEF new
<1>2. ring.index \in 0 .. size - 1 /\ new.index \in 0 .. size - 1
  BY <1>1 DEF Holds
<1>3. ASSUME NEW j \in 0 .. size - 1
      PROVE  /\ new.queue[j] = Latest(n + 1, Age(new.index, size, j))
             /\ new.queue[j + size] = Latest(n + 1, Age(new.index, size, j))
  <2>1. j \in 0 .. 2 * size - 1 /\ j + size \in 0 .. 2 * size - 1
    OBVIOUS
  <2>2. CASE j = ring.index
    <3>1. Age(new.index, size, j) = 0
      BY <1>1, <1>2, <2>2 DEF Age
    <3>2. new.queue[j] = n + 1 /\ new.queue[j + size] = n + 1
      BY <1>1, <2>1, <2>2
    <3> QED BY <3>1, <3>2 DEF Latest
  <2>3. CASE j # ring.index
    <3>1. Age(new.index, size, j) = Age(ring.index, size, j) + 1
      <4>1. new.index = IF ring.index + 1 = size THEN 0 ELSE ring.index + 1
        BY <1>1
      <4> QED BY <1>2, <2>3, <4>1 DEF Age
    <3>2. new.queue[j] = ring.queue[j] /\ new.queue[j + size] = ring.queue[j + size]
      <4>1. /\ j \notin {ring.index, ring.index + size}
            /\ j + size \notin {ring.index, ring.index + size}
        BY <1>2, <2>3
      <4> QED BY <1>1, <2>1, <4>1
    <3>3. Age(ring.index, size, j) \in Nat
      BY <1>2 DEF Age
    <3>4. /\ ring.queue[j] = Latest(n, Age(ring.index, size, j))
          /\ ring.queue[j + size] = Latest(n, Age(ring.index, size, j))
      BY DEF Holds
    <3> QED BY <3>1, <3>2, <3>3, <3>4 DEF Latest
  <2> QED BY <2>2, <2>3
<1> QED BY <1>1, <1>2, <1>3 DEF Holds, new

\* The entries that follow the newest, once around the ring, are the latest
\* pushes, the oldest first.
LEMMA EntriesAreLatest ==
  ASSUME NEW size \in Nat \ {0}, NEW n \in Nat, NEW ring, Holds(ring, size, n),
         NEW k \in 1 .. size
  PROVE  Store(ring, size, n + 1).queue[ring.index + k] = Latest(n + 1, size - k)
<1> DEFINE new == Store(ring, size, n + 1)
<1>1. /\ Holds(new, size, n + 1)
      /\ new.index = IF ring.index + 1 = size THEN 0 ELSE ring.index + 1
  BY StoreHolds DEF Store
<1> HIDE DEF new
<1>2. ring.index \in 0 .. size - 1
  BY DEF Holds
<1>3. CASE ring.index + k < size
  <2> DEFINE j == ring.index + k
  <2>1. j \in 0 .. size - 1 /\ Age(new.index, size, j) = size - k
    BY <1>1, <1>2, <1>3 DEF Age
  <2>2. new.queue[j] = Latest(n + 1, Age(new.index, size, j))
    <3> HIDE DEF j
    <3> QED BY <1>1, <2>1 DEF Holds
  <2>3. new.queue[ring.index + k] = Latest(n + 1, size - k)
    BY <2>1, <2>2
  <2> QED BY <2>3 DEF new
<1>4. CASE ring.index + k >= size
  <2> DEFINE j == ring.index + k - size
  <2>1. j \in 0 .. size - 1 /\ Age(new.index, size, j) = size - k
    BY <1>1, <1>2, <1>4 DEF Age
  <2>2. new.queue[j + size] = Latest(n + 1, Age(new.index, size, j))
    <3> HIDE DEF j
    <3> QED BY <1>1, <2>1 DEF Holds
  <2>3. j + size = ring.index + k
    BY <1>2
  <2>4. new.queue[ring.index + k] = Latest(n + 1, size - k)
    BY <2>1, <2>2, <2>3
  <2> QED BY <2>4 DEF new
<1> QED BY <1>2, <1>3, <1>4

\* So a FIR window read after a push is the latest Taps pushes.
LEMMA FirWindowIsLatest ==
  ASSUME NEW n \in Nat, NEW ring, Holds(ring, History, n), NEW i \in 0 .. Taps - 1
  PROVE  FirWindow(Store(ring, History, n + 1), ring.index, n + 1).value[i]
           = Latest(n + 1, Taps - 1 - i)
<1> DEFINE k == History - Taps + 1 + i
<1>1. k \in 1 .. History /\ History - k = Taps - 1 - i /\ History \in Nat \ {0}
  BY FirAssumption
<1>2. Store(ring, History, n + 1).queue[ring.index + k] = Latest(n + 1, History - k)
  BY <1>1, EntriesAreLatest
<1>3. ring.index + History - Taps + 1 + i = ring.index + k
  BY FirAssumption DEF Holds
<1> QED BY <1>1, <1>2, <1>3 DEF FirWindow

\* And a half-band window the latest inputs of its stage.
LEMMA StageWindowIsLatest ==
  ASSUME NEW s \in Stage, NEW n \in Nat, NEW ring, Holds(ring, BufSize(s), n),
         NEW k \in HalfBand(s)
  PROVE  StageWindow(Store(ring, BufSize(s), n + 1), s, ring.index, n + 1).value[k]
           = Latest(n + 1, BufSize(s) - k)
<1>1. BufSize(s) \in Nat \ {0} /\ k \in 1 .. BufSize(s)
  BY DEF BufSize, HalfBand
<1> QED BY <1>1, EntriesAreLatest DEF StageWindow

\* The delay line: what is taken is QDelay pushes old, and a push keeps it so.
LEMMA DelayedHolds ==
  ASSUME NEW n \in Nat, NEW line, LineHolds(line, n)
  PROVE  /\ line.queue[line.index] = Latest(n + 1, QDelay)
         /\ LineHolds(Delayed(line, n + 1), n + 1)
<1> DEFINE new == Delayed(line, n + 1)
<1>1. line.queue[line.index] = Latest(n + 1, QDelay)
  BY DelayAssumption DEF LineHolds, Latest, Age
<1>2. /\ new = [queue |-> new.queue, index |-> new.index]
      /\ new.index = IF line.index + 1 >= QDelay THEN 0 ELSE line.index + 1
      /\ new.queue \in [0 .. 15 -> Nat]
      /\ \A j \in 0 .. 15 : new.queue[j] = IF j = line.index THEN n + 1 ELSE line.queue[j]
  BY DelayAssumption DEF Delayed, LineHolds
<1> HIDE DEF new
<1>3. new.index \in 0 .. QDelay - 1
  BY <1>2, DelayAssumption DEF LineHolds
<1>4. ASSUME NEW j \in 0 .. QDelay - 1
      PROVE  new.queue[j] = Latest(n + 1, Age(new.index, QDelay, j))
  <2>1. j \in 0 .. 15
    BY DelayAssumption
  <2>2. CASE j = line.index
    BY <1>2, <2>1, <2>2, DelayAssumption DEF Age, Latest, LineHolds
  <2>3. CASE j # line.index
    <3>1. Age(new.index, QDelay, j) = Age(line.index, QDelay, j) + 1
      BY <1>2, <2>3, DelayAssumption DEF Age, LineHolds
    <3>2. new.queue[j] = Latest(n, Age(line.index, QDelay, j))
      BY <1>2, <2>1, <2>3 DEF LineHolds
    <3>3. Age(line.index, QDelay, j) \in Nat
      BY DelayAssumption DEF Age, LineHolds
    <3> QED BY <3>1, <3>2, <3>3 DEF Latest
  <2> QED BY <2>2, <2>3
<1> QED BY <1>1, <1>2, <1>3, <1>4 DEF LineHolds, new

-----------------------------------------------------------------------------
(* The converter *)

ReadsLatest == FirReadsLatest /\ QuadratureIsDelayed /\ StagesReadLatest

LEMMA InitHolds == Init => RingsHold /\ ReadsLatest
<1> SUFFICES ASSUME Init PROVE RingsHold /\ ReadsLatest
  OBVIOUS
<1>1. Holds(fir, History, pairs)
  BY SilenceHolds, FirAssumption DEF Init
<1>2. LineHolds(delay, pairs)
  BY DelayAssumption DEF Init, SilentLine, LineHolds, Latest, Age
<1>3. \A s \in Stage : Holds(stages[s], BufSize(s), pushed[s])
  <2>1. \A s \in Stage : BufSize(s) \in Nat \ {0}
    BY DEF BufSize
  <2> QED BY <2>1, SilenceHolds DEF Init, SilentStages
<1>4. stage \in Stage
  BY DEF Init, Stage
<1>5. ReadsLatest
  BY DEF Init, ReadsLatest, FirReadsLatest, QuadratureIsDelayed, StagesReadLatest
<1> QED BY <1>1, <1>2, <1>3, <1>4, <1>5 DEF RingsHold, Init, SilentStages

\* Which stage runs next.
LEMMA EnterKeepsStage ==
  ASSUME NEW s \in Stage, NEW full, NEW isA, Enter(s, full, isA)
  PROVE  stage' \in Stage
BY DEF Enter

\* Two pushes into the FIR ring and the delay line.
LEMMA ChunkHolds ==
  ASSUME RingsHold, ReadsLatest, Chunk
  PROVE  RingsHold' /\ ReadsLatest'
<1> DEFINE fir1 == Store(fir, History, pairs + 1)
           line1 == Delayed(delay, pairs + 1)
<1>1. /\ pairs \in Nat /\ pairs + 1 \in Nat /\ History \in Nat \ {0}
      /\ pairs + 1 + 1 = pairs + 2
  BY FirAssumption DEF RingsHold
<1>2. Holds(fir1, History, pairs + 1) /\ LineHolds(line1, pairs + 1)
  BY <1>1, StoreHolds, DelayedHolds DEF RingsHold
<1>3. /\ fir' = Store(fir1, History, pairs + 1 + 1)
      /\ delay' = Delayed(line1, pairs + 1 + 1)
      /\ pairs' = pairs + 1 + 1
  BY <1>1 DEF Chunk
<1>4. /\ firReads' = {FirWindow(fir1, fir.index, pairs + 1),
                      FirWindow(fir', fir1.index, pairs + 1 + 1)}
      /\ delayReads' = {[n |-> pairs + 1, value |-> delay.queue[delay.index]],
                        [n |-> pairs + 1 + 1, value |-> line1.queue[line1.index]]}
  BY <1>1 DEF Chunk
<1> HIDE DEF fir1, line1
<1>5. Holds(fir', History, pairs') /\ LineHolds(delay', pairs')
  BY <1>1, <1>2, <1>3, StoreHolds, DelayedHolds
<1>6. FirReadsLatest'
  <2>1. \A i \in 0 .. Taps - 1 :
          FirWindow(fir1, fir.index, pairs + 1).value[i] = Latest(pairs + 1, Taps - 1 - i)
    BY <1>1, FirWindowIsLatest DEF RingsHold, fir1
  <2>2. \A i \in 0 .. Taps - 1 :
          FirWindow(fir', fir1.index, pairs + 1 + 1).value[i]
            = Latest(pairs + 1 + 1, Taps - 1 - i)
    BY <1>1, <1>2, <1>3, FirWindowIsLatest
  <2>3. /\ FirWindow(fir1, fir.index, pairs + 1).n = pairs + 1
        /\ FirWindow(fir', fir1.index, pairs + 1 + 1).n = pairs + 1 + 1
    BY DEF FirWindow
  <2> QED BY <1>4, <2>1, <2>2, <2>3 DEF FirReadsLatest
<1>7. QuadratureIsDelayed'
  <2>1. delay.queue[delay.index] = Latest(pairs + 1, QDelay)
    BY <1>1, DelayedHolds DEF RingsHold
  <2>2. line1.queue[line1.index] = Latest(pairs + 1 + 1, QDelay)
    BY <1>1, <1>2, DelayedHolds
  <2> QED BY <1>4, <2>1, <2>2 DEF QuadratureIsDelayed
<1>8. UNCHANGED <<level, stages, pushed, stageReads>>
  BY DEF Chunk
<1>9. stage' \in Stage
  <2>1. 0 \in Stage
    BY DEF Stage
  <2> QED BY <2>1, EnterKeepsStage DEF Chunk, RingsHold
<1>10. RingsHold'
  BY <1>1, <1>3, <1>5, <1>8, <1>9 DEF RingsHold
<1>11. StagesReadLatest'
  BY <1>8 DEF StagesReadLatest, ReadsLatest
<1> QED BY <1>6, <1>7, <1>10, <1>11 DEF ReadsLatest

\* Four pushes into one stage.
LEMMA StageFourHolds ==
  ASSUME RingsHold, ReadsLatest, StageFour
  PROVE  RingsHold' /\ ReadsLatest'
<1> DEFINE n == pushed[stage]
           size == BufSize(stage)
           ring == stages[stage]
           ring1 == Store(ring, size, n + 1)
           ring2 == Store(ring1, size, n + 1 + 1)
           ring3 == Store(ring2, size, n + 1 + 1 + 1)
           ring4 == Store(ring3, size, n + 1 + 1 + 1 + 1)
<1>1. /\ stage \in Stage /\ n \in Nat /\ n % 2 = 0 /\ size \in Nat \ {0}
      /\ Holds(ring, size, n)
  BY DEF RingsHold, BufSize
<1>2. n + 1 + 1 = n + 2 /\ n + 1 + 1 + 1 = n + 3 /\ n + 1 + 1 + 1 + 1 = n + 4
  BY <1>1
<1>3. /\ stages' = [stages EXCEPT ![stage] = ring4]
      /\ pushed' = [pushed EXCEPT ![stage] = n + 1 + 1 + 1 + 1]
      /\ stageReads' = {StageWindow(ring2, stage, ring1.index, n + 1 + 1),
                        StageWindow(ring4, stage, ring3.index, n + 1 + 1 + 1 + 1)}
  BY <1>2 DEF StageFour
<1> HIDE DEF n, size, ring
<1>4. Holds(ring1, size, n + 1)
  BY <1>1, StoreHolds
<1> HIDE DEF ring1
<1>5. Holds(ring2, size, n + 1 + 1)
  BY <1>1, <1>4, StoreHolds
<1>6. \A k \in HalfBand(stage) :
        StageWindow(ring2, stage, ring1.index, n + 1 + 1).value[k]
          = Latest(n + 1 + 1, size - k)
  BY <1>1, <1>4, StageWindowIsLatest DEF size
<1> HIDE DEF ring2
<1>7. Holds(ring3, size, n + 1 + 1 + 1)
  BY <1>1, <1>5, StoreHolds
<1> HIDE DEF ring3
<1>8. Holds(ring4, size, n + 1 + 1 + 1 + 1)
  BY <1>1, <1>7, StoreHolds
<1>9. \A k \in HalfBand(stage) :
        StageWindow(ring4, stage, ring3.index, n + 1 + 1 + 1 + 1).value[k]
          = Latest(n + 1 + 1 + 1 + 1, size - k)
  BY <1>1, <1>7, StageWindowIsLatest DEF size
<1> HIDE DEF ring4
<1>10. StagesReadLatest'
  <2>1. (n + 1 + 1) % 2 = 0 /\ (n + 1 + 1 + 1 + 1) % 2 = 0
    BY <1>1
  <2> DEFINE first == StageWindow(ring2, stage, ring1.index, n + 1 + 1)
             last == StageWindow(ring4, stage, ring3.index, n + 1 + 1 + 1 + 1)
  <2>2. first.s = stage /\ first.n = n + 1 + 1
    BY DEF StageWindow
  <2>3. last.s = stage /\ last.n = n + 1 + 1 + 1 + 1
    BY DEF StageWindow
  <2> HIDE DEF first, last
  <2>4. /\ first.n % 2 = 0
        /\ \A k \in HalfBand(first.s) : first.value[k] = Latest(first.n, BufSize(first.s) - k)
    BY <1>6, <2>1, <2>2 DEF first, size
  <2>5. /\ last.n % 2 = 0
        /\ \A k \in HalfBand(last.s) : last.value[k] = Latest(last.n, BufSize(last.s) - k)
    BY <1>9, <2>1, <2>3 DEF last, size
  <2>6. stageReads' = {first, last}
    BY <1>3 DEF first, last
  <2> QED BY <2>4, <2>5, <2>6 DEF StagesReadLatest
<1>11. UNCHANGED <<level, pairs, fir, delay, firReads, delayReads>>
  BY DEF StageFour
<1>12. stage' \in Stage
  <2>1. stage < level - 1 => stage + 1 \in Stage
    BY LevelAssumption DEF RingsHold, Stage
  <2> QED BY <2>1, EnterKeepsStage DEF StageFour, RingsHold
<1>13. ASSUME NEW s \in Stage
       PROVE  /\ pushed'[s] \in Nat /\ pushed'[s] % 2 = 0
              /\ Holds(stages'[s], BufSize(s), pushed'[s])
  <2>1. CASE s = stage
    <3>1. stages'[s] = ring4 /\ pushed'[s] = n + 1 + 1 + 1 + 1
      BY <1>1, <1>3, <2>1 DEF RingsHold
    <3>2. n + 1 + 1 + 1 + 1 \in Nat /\ (n + 1 + 1 + 1 + 1) % 2 = 0
      BY <1>1
    <3> QED BY <1>8, <2>1, <3>1, <3>2 DEF size
  <2>2. CASE s # stage
    <3>1. stages'[s] = stages[s] /\ pushed'[s] = pushed[s]
      BY <1>3, <2>2 DEF RingsHold
    <3> QED BY <3>1 DEF RingsHold
  <2> QED BY <2>1, <2>2
<1>14. pushed' \in [Stage -> Nat] /\ DOMAIN stages' = Stage
  BY <1>1, <1>3 DEF RingsHold
<1>15. RingsHold'
  BY <1>11, <1>12, <1>13, <1>14 DEF RingsHold
<1>16. FirReadsLatest' /\ QuadratureIsDelayed'
  BY <1>11 DEF ReadsLatest, FirReadsLatest, QuadratureIsDelayed
<1> QED BY <1>10, <1>15, <1>16 DEF ReadsLatest

\* A call begins; the processor resets the converter.
LEMMA BeginHolds ==
  ASSUME RingsHold, ReadsLatest, NEW groups, Begin(groups)
  PROVE  RingsHold' /\ ReadsLatest'
BY DEF Begin, RingsHold, ReadsLatest, FirReadsLatest, QuadratureIsDelayed,
       StagesReadLatest

LEMMA ResetHolds ==
  ASSUME RingsHold, ReadsLatest, Reset
  PROVE  RingsHold' /\ ReadsLatest'
<1>1. Holds(fir', History, pairs')
  BY SilenceHolds, FirAssumption DEF Reset
<1>2. LineHolds(delay', pairs')
  BY DelayAssumption DEF Reset, SilentLine, LineHolds, Latest, Age
<1>3. \A s \in Stage : Holds(stages'[s], BufSize(s), pushed'[s])
  <2>1. \A s \in Stage : BufSize(s) \in Nat \ {0}
    BY DEF BufSize
  <2> QED BY <2>1, SilenceHolds DEF Reset, SilentStages
<1>4. stage' \in Stage
  BY DEF Reset, Stage
<1>5. ReadsLatest'
  BY DEF Reset, ReadsLatest, FirReadsLatest, QuadratureIsDelayed, StagesReadLatest
<1> QED BY <1>1, <1>2, <1>3, <1>4, <1>5 DEF RingsHold, Reset, SilentStages

LEMMA StepHolds ==
  RingsHold /\ ReadsLatest /\ [Next]_vars => RingsHold' /\ ReadsLatest'
<1> SUFFICES ASSUME RingsHold, ReadsLatest, [Next]_vars
             PROVE  RingsHold' /\ ReadsLatest'
  OBVIOUS
<1>1. CASE UNCHANGED vars
  BY <1>1 DEF vars, RingsHold, ReadsLatest, FirReadsLatest, QuadratureIsDelayed,
              StagesReadLatest
<1> QED BY <1>1, BeginHolds, ChunkHolds, StageFourHolds, ResetHolds DEF Next

\* The FIR reads the latest pushes, for every ring size and kernel length that
\* fits into it.
THEOREM FirWindowsAreLatest == Spec => []FirReadsLatest
<1>1. RingsHold /\ ReadsLatest => FirReadsLatest
  BY DEF ReadsLatest
<1> QED BY InitHolds, StepHolds, <1>1, PTL DEF Spec

\* The quadrature branch is late by the delay line's length, for every length.
THEOREM QuadratureDelay == Spec => []QuadratureIsDelayed
<1>1. RingsHold /\ ReadsLatest => QuadratureIsDelayed
  BY DEF ReadsLatest
<1> QED BY InitHolds, StepHolds, <1>1, PTL DEF Spec

\* Every decimation stage reads its latest inputs in the phase of the kernel,
\* for every set of decimations and every sequence of calls.
THEOREM StageWindowsAreLatest == Spec => []StagesReadLatest
<1>1. RingsHold /\ ReadsLatest => StagesReadLatest
  BY DEF ReadsLatest
<1> QED BY InitHolds, StepHolds, <1>1, PTL DEF Spec

-----------------------------------------------------------------------------
(* How many samples flow from loop to loop.  A call of g groups gives each    *)
(* stage whole fours, and the stages in use have taken the same pairs         *)
(* whenever no loop runs.                                                     *)

\* The iterations of stage s in a call of g groups.
Fours(g, s) == g * 2 ^ (level - 1 - s)

\* The buffer that the running stage reads, and the one that it writes.
Source == IF sourceIsA THEN scratch.a ELSE scratch.b
Target == IF sourceIsA THEN scratch.b ELSE scratch.a

BasebandFlow(g) ==
  /\ left \in 1 .. g * 2 ^ level
  /\ level > 0 => scratch.a = [halved |-> 0, len |-> 2 * (g * 2 ^ level - left)]
  /\ \A s \in Stage : s < level => pushed[s] * 2 ^ s = pairs - 2 * (g * 2 ^ level - left)

StageFlow(g) ==
  /\ stage < level
  /\ left \in 1 .. Fours(g, stage)
  /\ \A s \in Stage : s < stage => pushed[s] * 2 ^ s = pairs
  /\ (pushed[stage] + 4 * left) * 2 ^ stage = pairs
  /\ \A s \in Stage : stage < s /\ s < level =>
       pushed[s] * 2 ^ s = pairs - 2 * (g * 2 ^ level)
  /\ Source = [halved |-> stage, len |-> 4 * Fours(g, stage)]
  /\ stage < level - 1 =>
       Target = [halved |-> stage + 1, len |-> 2 * (Fours(g, stage) - left)]

Flow ==
  /\ at \in {"Idle", "Baseband", "Stage"}
  /\ left \in Nat
  /\ scratch \in [a : Scratch, b : Scratch]
  /\ sourceIsA \in BOOLEAN
  /\ \A s \in Stage : pushed[s] % 4 = 0 /\ (s >= level => pushed[s] = 0)
  /\ at = "Idle" => \A s \in Stage : s < level => pushed[s] * 2 ^ s = pairs
  /\ at = "Baseband" => \E g \in Nat : BasebandFlow(g)
  /\ at = "Stage" => \E g \in Nat : StageFlow(g)

LEMMA Powers ==
  /\ 2 ^ 0 = 1 /\ 2 ^ 1 = 2 /\ 2 ^ 2 = 4 /\ 2 ^ 3 = 8 /\ 2 ^ 4 = 16 /\ 2 ^ 5 = 32
  /\ 2 ^ 6 = 64
OBVIOUS

\* Each stage takes half the fours of the one before, and weighs twice as much.
LEMMA Halving ==
  /\ \A l \in 0 .. 6 : 2 ^ l \in Nat \ {0}
  /\ \A l \in 1 .. 6 : 2 ^ l = 2 * 2 ^ (l - 1)
  /\ \A l \in 2 .. 6 : \A s \in 0 .. 5 : s < l - 1 =>
       /\ 2 ^ (l - 1 - s) = 2 * 2 ^ (l - 2 - s)
       /\ 2 ^ (s + 1) = 2 * 2 ^ s
       /\ 2 ^ l = 4 * (2 ^ s * 2 ^ (l - 2 - s))
<1>1. \A l \in 0 .. 6 : l \in {0, 1, 2, 3, 4, 5, 6}
  OBVIOUS
<1>2. \A l \in 0 .. 6 : 2 ^ l \in Nat \ {0}
  <2> SUFFICES ASSUME NEW l \in 0 .. 6 PROVE 2 ^ l \in Nat \ {0}
    OBVIOUS
  <2>1. CASE l = 0
    BY <2>1, Powers
  <2>2. CASE l = 1
    BY <2>2, Powers
  <2>3. CASE l = 2
    BY <2>3, Powers
  <2>4. CASE l = 3
    BY <2>4, Powers
  <2>5. CASE l = 4
    BY <2>5, Powers
  <2>6. CASE l = 5
    BY <2>6, Powers
  <2>7. CASE l = 6
    BY <2>7, Powers
  <2> QED BY <1>1, <2>1, <2>2, <2>3, <2>4, <2>5, <2>6, <2>7
<1>3. \A l \in 1 .. 6 : 2 ^ l = 2 * 2 ^ (l - 1)
  <2> SUFFICES ASSUME NEW l \in 1 .. 6 PROVE 2 ^ l = 2 * 2 ^ (l - 1)
    OBVIOUS
  <2>1. CASE l = 1
    BY <2>1, Powers
  <2>2. CASE l = 2
    BY <2>2, Powers
  <2>3. CASE l = 3
    BY <2>3, Powers
  <2>4. CASE l = 4
    BY <2>4, Powers
  <2>5. CASE l = 5
    BY <2>5, Powers
  <2>6. CASE l = 6
    BY <2>6, Powers
  <2> QED BY <2>1, <2>2, <2>3, <2>4, <2>5, <2>6
<1>4. ASSUME NEW l \in 2 .. 6, NEW s \in 0 .. 5, s < l - 1
      PROVE  /\ 2 ^ (l - 1 - s) = 2 * 2 ^ (l - 2 - s)
             /\ 2 ^ (s + 1) = 2 * 2 ^ s
             /\ 2 ^ l = 4 * (2 ^ s * 2 ^ (l - 2 - s))
  <2>1. 2 ^ (l - 1 - s) = 2 * 2 ^ (l - 2 - s)
    <3>1. l - 1 - s \in 1 .. 6 /\ (l - 1 - s) - 1 = l - 2 - s
      BY <1>4
    <3> QED BY <3>1, <1>3
  <2>2. 2 ^ (s + 1) = 2 * 2 ^ s
    <3>1. s + 1 \in 1 .. 6 /\ (s + 1) - 1 = s
      BY <1>4
    <3> QED BY <3>1, <1>3
  <2>3. 2 ^ l = 4 * (2 ^ s * 2 ^ (l - 2 - s))
    <3>1. CASE s = 0
      <4>1. l \in 1 .. 6 /\ l - 1 \in 1 .. 6 /\ (l - 1) - 1 = l - 2 - s
        BY <3>1
      <4>2. 2 ^ l = 2 * 2 ^ (l - 1) /\ 2 ^ (l - 1) = 2 * 2 ^ (l - 2 - s)
        BY <4>1, <1>3
      <4>3. 2 ^ (l - 2 - s) \in Nat
        <5>1. l - 2 - s \in 0 .. 6
          BY <3>1
        <5> QED BY <5>1, <1>2
      <4>4. 2 ^ s = 1
        BY <3>1, Powers
      <4> HIDE <3>1
      <4> DEFINE q == 2 ^ (l - 2 - s)
      <4>5. 2 ^ l = 2 * (2 * q) /\ q \in Nat
        BY <4>2, <4>3
      <4> HIDE DEF q
      <4>6. 2 ^ l = 4 * (1 * q)
        BY <4>5
      <4> QED BY <4>4, <4>6 DEF q
    <3>2. CASE s = 1
      <4>1. CASE l = 3
        BY <3>2, <4>1, Powers
      <4>2. CASE l = 4
        BY <3>2, <4>2, Powers
      <4>3. CASE l = 5
        BY <3>2, <4>3, Powers
      <4>4. CASE l = 6
        BY <3>2, <4>4, Powers
      <4> QED BY <1>4, <3>2, <4>1, <4>2, <4>3, <4>4
    <3>3. CASE s = 2
      <4>1. CASE l = 4
        BY <3>3, <4>1, Powers
      <4>2. CASE l = 5
        BY <3>3, <4>2, Powers
      <4>3. CASE l = 6
        BY <3>3, <4>3, Powers
      <4> QED BY <1>4, <3>3, <4>1, <4>2, <4>3
    <3>4. CASE s = 3
      <4>1. CASE l = 5
        BY <3>4, <4>1, Powers
      <4>2. CASE l = 6
        BY <3>4, <4>2, Powers
      <4> QED BY <1>4, <3>4, <4>1, <4>2
    <3>5. CASE s = 4
      <4>1. l = 6
        BY <1>4, <3>5
      <4> QED BY <3>5, <4>1, Powers
    <3> QED BY <1>4, <3>1, <3>2, <3>3, <3>4, <3>5
  <2> QED BY <2>1, <2>2, <2>3
<1> QED BY <1>2, <1>3, <1>4

\* What a stage finds when the loop before it has filled its source.
LEMMA EnterFlow ==
  ASSUME NEW g \in Nat \ {0}, NEW s \in Stage, NEW full \in [a : Scratch, b : Scratch],
         NEW isA \in BOOLEAN, level \in 0 .. 6, s < level,
         (IF isA THEN full.a ELSE full.b) = [halved |-> s, len |-> 4 * Fours(g, s)],
         Enter(s, full, isA)
  PROVE  /\ at' = "Stage" /\ stage' = s /\ sourceIsA' = isA
         /\ left' = Fours(g, s) /\ Fours(g, s) \in Nat \ {0}
         /\ scratch' \in [a : Scratch, b : Scratch]
         /\ Source' = [halved |-> s, len |-> 4 * Fours(g, s)]
         /\ s < level - 1 => Target' = [halved |-> s + 1, len |-> 0]
<1>1. Fours(g, s) \in Nat \ {0}
  <2>1. level - 1 - s \in 0 .. 6
    BY DEF Stage
  <2>2. 2 ^ (level - 1 - s) \in Nat \ {0}
    BY <2>1, Halving
  <2> QED BY <2>2 DEF Fours
<1> HIDE DEF Fours
<1>2. (4 * Fours(g, s)) \div 4 = Fours(g, s)
  BY <1>1
<1>3. at' = "Stage" /\ stage' = s /\ sourceIsA' = isA /\ left' = Fours(g, s)
  BY <1>2 DEF Enter
<1>4. scratch' = IF s = level - 1 THEN full
                 ELSE IF isA THEN [full EXCEPT !.b = Empty(s + 1)]
                 ELSE [full EXCEPT !.a = Empty(s + 1)]
  BY DEF Enter
<1>5. s < level - 1 => Empty(s + 1) \in Scratch
  BY DEF Empty, Scratch, Stage
<1>6. scratch' \in [a : Scratch, b : Scratch]
  BY <1>4, <1>5 DEF Stage
<1>7. Source' = [halved |-> s, len |-> 4 * Fours(g, s)]
  BY <1>3, <1>4 DEF Source
<1>8. s < level - 1 => Target' = [halved |-> s + 1, len |-> 0]
  BY <1>3, <1>4 DEF Target, Empty, Stage
<1> QED BY <1>1, <1>3, <1>6, <1>7, <1>8

LEMMA StagePowers == \A s \in Stage : 2 ^ s \in Nat \ {0}
<1>1. \A s \in Stage : s \in 0 .. 6
  BY DEF Stage
<1>2. \A l \in 0 .. 6 : 2 ^ l \in Nat \ {0}
  BY Halving
<1> QED BY <1>1, <1>2, Zenon

LEMMA LevelFacts == RingsHold => level \in 0 .. 6 /\ 2 ^ level \in Nat \ {0}
BY LevelAssumption, Halving DEF RingsHold

LEMMA InitFlow == Init => Flow
<1> SUFFICES ASSUME Init PROVE Flow
  OBVIOUS
<1>1. \A s \in Stage : 2 ^ s \in Nat
  BY StagePowers
<1>2. \A s \in Stage : pushed[s] = 0
  BY DEF Init
<1>3. scratch \in [a : Scratch, b : Scratch]
  BY DEF Init, Scratch, Empty
<1> QED BY <1>1, <1>2, <1>3 DEF Init, Flow

LEMMA BeginFlow ==
  ASSUME RingsHold, Flow, NEW groups \in 1 .. MaxGroups, Begin(groups)
  PROVE  Flow'
<1>1. groups \in Nat \ {0}
  BY BoundAssumption
<1>2. /\ at = "Idle" /\ at' = "Baseband" /\ left' = groups * 2 ^ level
      /\ scratch' = IF level = 0 THEN scratch ELSE [scratch EXCEPT !.a = Empty(0)]
      /\ UNCHANGED <<level, pairs, pushed, sourceIsA>>
  BY DEF Begin, Chunks
<1>3. scratch' \in [a : Scratch, b : Scratch]
  BY <1>2 DEF Flow, Empty, Scratch
<1>4. level > 0 => scratch'.a = [halved |-> 0, len |-> 0]
  BY <1>2, LevelFacts DEF Flow, Empty
<1>5. groups * 2 ^ level \in Nat \ {0}
  BY <1>1, LevelFacts
<1>6. 2 * (groups * 2 ^ level - groups * 2 ^ level) = 0 /\ pairs - 0 = pairs
  BY <1>5 DEF RingsHold
<1>7. \A s \in Stage : s < level => pushed[s] * 2 ^ s = pairs
  BY <1>2 DEF Flow
<1>8. BasebandFlow(groups)'
  <2>1. left' \in 1 .. groups * 2 ^ level'
    BY <1>2, <1>5
  <2> QED BY <2>1, <1>2, <1>4, <1>6, <1>7 DEF BasebandFlow
<1> QED BY <1>1, <1>2, <1>3, <1>5, <1>8 DEF Flow

LEMMA ResetFlow ==
  ASSUME RingsHold, Flow, Reset
  PROVE  Flow'
<1>1. /\ at = "Idle" /\ at' = "Idle" /\ left' = left /\ sourceIsA' = TRUE
      /\ pairs' = 0 /\ scratch' = [a |-> Empty(0), b |-> Empty(0)]
      /\ \A s \in Stage : pushed'[s] = 0
  BY DEF Reset, Flow
<1>2. scratch' \in [a : Scratch, b : Scratch]
  BY <1>1 DEF Empty, Scratch
<1>3. \A s \in Stage : 2 ^ s \in Nat
  BY StagePowers
<1> QED BY <1>1, <1>2, <1>3 DEF Flow

\* Two pairs reach the first scratch buffer, or the output.
LEMMA ChunkFlow ==
  ASSUME RingsHold, Flow, Chunk
  PROVE  Flow'
<1> DEFINE full == IF level = 0 THEN scratch ELSE [scratch EXCEPT !.a.len = @ + 2]
<1>1. /\ at = "Baseband" /\ pairs' = pairs + 2 /\ level' = level /\ pushed' = pushed
      /\ \/ /\ left > 1 /\ left' = left - 1 /\ scratch' = full
            /\ UNCHANGED <<at, stage, sourceIsA>>
         \/ /\ left = 1 /\ level = 0
            /\ Leave
            /\ UNCHANGED <<stage, scratch, sourceIsA>>
         \/ /\ left = 1 /\ level > 0
            /\ Enter(0, full, TRUE)
  BY DEF Chunk
<1>2. PICK g \in Nat : BasebandFlow(g)
  BY <1>1 DEF Flow
<1>3. level \in 0 .. 6 /\ 2 ^ level \in Nat \ {0} /\ pairs \in Nat
  BY LevelFacts DEF RingsHold
<1> DEFINE total == g * 2 ^ level
<1>4. /\ total \in Nat /\ left \in 1 .. total
      /\ \A s \in Stage : s < level => pushed[s] * 2 ^ s = pairs - 2 * (total - left)
      /\ level > 0 => scratch.a = [halved |-> 0, len |-> 2 * (total - left)]
  BY <1>2, <1>3 DEF BasebandFlow
<1>5. g \in Nat \ {0}
  BY <1>3, <1>4
<1>6. total = g * 2 ^ level
  OBVIOUS
<1> HIDE DEF total
<1>7. /\ full \in [a : Scratch, b : Scratch]
      /\ level > 0 => full.a = [halved |-> 0, len |-> 2 * (total - (left - 1))]
  <2>1. scratch \in [a : Scratch, b : Scratch]
    BY DEF Flow
  <2>2. CASE level = 0
    BY <2>1, <2>2
  <2>3. CASE level > 0
    <3>1. full = [scratch EXCEPT !.a = [halved |-> 0, len |-> 2 * (total - left) + 2]]
      BY <1>4, <2>1, <2>3 DEF Scratch
    <3>2. 2 * (total - left) + 2 = 2 * (total - (left - 1)) /\ 2 * (total - left) + 2 \in Nat
      BY <1>4
    <3> QED BY <2>1, <3>1, <3>2 DEF Scratch
  <2> QED BY <1>3, <2>2, <2>3
<1> HIDE DEF full
<1>8. \A s \in Stage : s < level =>
        pushed'[s] * 2 ^ s = pairs' - 2 * (total - (left - 1))
  <2>1. pairs' - 2 * (total - (left - 1)) = pairs - 2 * (total - left)
    BY <1>1, <1>3, <1>4
  <2> QED BY <1>1, <1>4, <2>1
<1>9. \A s \in Stage : pushed'[s] % 4 = 0 /\ (s >= level' => pushed'[s] = 0)
  BY <1>1 DEF Flow
<1>10. CASE /\ left > 1 /\ left' = left - 1 /\ scratch' = full
            /\ UNCHANGED <<at, stage, sourceIsA>>
  <2>1. BasebandFlow(g)'
    <3>1. left' \in 1 .. g * 2 ^ level'
      BY <1>1, <1>4, <1>6, <1>10
    <3> QED BY <3>1, <1>1, <1>6, <1>7, <1>8, <1>10 DEF BasebandFlow
  <2> QED BY <2>1, <1>1, <1>4, <1>7, <1>9, <1>10 DEF Flow
<1>11. CASE /\ left = 1 /\ level = 0
            /\ Leave
            /\ UNCHANGED <<stage, scratch, sourceIsA>>
  BY <1>1, <1>9, <1>11 DEF Flow, Leave, Stage
<1>12. CASE left = 1 /\ level > 0 /\ Enter(0, full, TRUE)
  <2>1. 2 ^ level = 2 * 2 ^ (level - 1) /\ 2 ^ (level - 1) \in Nat /\ level - 1 - 0 = level - 1
    <3>1. level \in 1 .. 6 /\ level - 1 \in 0 .. 6 /\ level - 1 - 0 = level - 1
      BY <1>3, <1>12
    <3>2. 2 ^ level = 2 * 2 ^ (level - 1)
      BY <3>1, Halving
    <3>3. 2 ^ (level - 1) \in Nat \ {0}
      BY <3>1, Halving
    <3> QED BY <3>1, <3>2, <3>3
  <2>2. 2 * total = 4 * Fours(g, 0) /\ Fours(g, 0) \in Nat
    BY <1>5, <1>6, <2>1 DEF Fours
  <2>3. full.a = [halved |-> 0, len |-> 4 * Fours(g, 0)] /\ 0 \in Stage
    BY <1>4, <1>7, <1>12, <2>2 DEF Stage
  <2>4. /\ at' = "Stage" /\ stage' = 0 /\ sourceIsA' = TRUE
        /\ left' = Fours(g, 0) /\ Fours(g, 0) \in Nat \ {0}
        /\ scratch' \in [a : Scratch, b : Scratch]
        /\ Source' = [halved |-> 0, len |-> 4 * Fours(g, 0)]
        /\ 0 < level - 1 => Target' = [halved |-> 0 + 1, len |-> 0]
    BY <1>3, <1>5, <1>7, <1>12, <2>3, EnterFlow
  <2>5. \A s \in Stage : s < level => pushed'[s] * 2 ^ s = pairs' - 2 * total
    BY <1>4, <1>8, <1>12
  <2>6. (pushed'[0] + 4 * left') * 2 ^ 0 = pairs'
    <3>1. pushed'[0] * 2 ^ 0 = pairs' - 2 * total /\ pushed'[0] \in Nat
      BY <1>1, <1>12, <2>3, <2>5 DEF RingsHold
    <3> QED BY <1>1, <1>3, <1>4, <2>2, <2>4, <3>1, Powers
  <2>7. Fours(g, 0)' = Fours(g, 0)
    BY <1>1 DEF Fours
  <2>8. StageFlow(g)'
    BY <1>1, <1>6, <1>12, <2>4, <2>5, <2>6, <2>7 DEF StageFlow, Stage
  <2> QED BY <1>9, <2>4, <2>8 DEF Flow
<1> QED BY <1>1, <1>10, <1>11, <1>12

\* Four samples leave a stage's source and two reach its target.
LEMMA StageFourFlow ==
  ASSUME RingsHold, Flow, StageFour
  PROVE  Flow'
<1> DEFINE n == pushed[stage]
           full == IF stage = level - 1 THEN scratch
                   ELSE IF sourceIsA THEN [scratch EXCEPT !.b.len = @ + 2]
                   ELSE [scratch EXCEPT !.a.len = @ + 2]
<1>1. /\ at = "Stage" /\ pushed' = [pushed EXCEPT ![stage] = n + 4]
      /\ level' = level /\ pairs' = pairs
      /\ \/ /\ left > 1 /\ left' = left - 1 /\ scratch' = full
            /\ UNCHANGED <<at, stage, sourceIsA>>
         \/ /\ left = 1 /\ stage = level - 1
            /\ Leave
            /\ UNCHANGED <<stage, scratch, sourceIsA>>
         \/ /\ left = 1 /\ stage < level - 1
            /\ Enter(stage + 1, full, ~sourceIsA)
  BY DEF StageFour
<1>2. PICK g \in Nat : StageFlow(g)
  BY <1>1 DEF Flow
<1>3. /\ level \in 0 .. 6 /\ pairs \in Nat /\ stage \in Stage /\ pushed \in [Stage -> Nat]
      /\ n \in Nat /\ n % 4 = 0 /\ stage < level
  BY <1>2, LevelFacts DEF RingsHold, Flow, StageFlow
<1> DEFINE fours == Fours(g, stage)
<1>4. /\ left \in 1 .. fours
      /\ \A s \in Stage : s < stage => pushed[s] * 2 ^ s = pairs
      /\ (n + 4 * left) * 2 ^ stage = pairs
      /\ \A s \in Stage : stage < s /\ s < level =>
           pushed[s] * 2 ^ s = pairs - 2 * (g * 2 ^ level)
      /\ Source = [halved |-> stage, len |-> 4 * fours]
      /\ stage < level - 1 =>
           Target = [halved |-> stage + 1, len |-> 2 * (fours - left)]
  BY <1>2 DEF StageFlow
<1>5. fours \in Nat /\ g \in Nat \ {0}
  <2>1. level - 1 - stage \in 0 .. 6
    BY <1>3 DEF Stage
  <2>2. 2 ^ (level - 1 - stage) \in Nat \ {0}
    BY <2>1, Halving
  <2>3. fours \in Nat
    BY <2>2 DEF Fours
  <2>4. g # 0
    BY <1>4, <2>2 DEF Fours
  <2> QED BY <2>3, <2>4
<1> HIDE DEF fours
<1>6. \A s \in Stage : pushed'[s] % 4 = 0 /\ (s >= level' => pushed'[s] = 0)
  <2>1. (n + 4) % 4 = 0
    BY <1>3
  <2> SUFFICES ASSUME NEW s \in Stage
               PROVE  pushed'[s] % 4 = 0 /\ (s >= level => pushed'[s] = 0)
    BY <1>1
  <2>2. CASE s = stage
    <3>1. pushed'[s] = n + 4 /\ ~(s >= level)
      BY <1>1, <1>3, <2>2 DEF Stage
    <3> QED BY <2>1, <3>1
  <2>3. CASE s # stage
    <3>1. pushed'[s] = pushed[s]
      BY <1>1, <1>3, <2>3
    <3> QED BY <3>1 DEF Flow
  <2> QED BY <2>2, <2>3
<1>7. /\ pushed'[stage] = n + 4
      /\ \A s \in Stage : s # stage => pushed'[s] = pushed[s]
  BY <1>1, <1>3
<1> HIDE DEF n
<1>8. \A s \in Stage : s < stage => pushed'[s] * 2 ^ s = pairs
  <2> SUFFICES ASSUME NEW s \in Stage, s < stage PROVE pushed'[s] * 2 ^ s = pairs
    OBVIOUS
  <2>1. pushed'[s] = pushed[s]
    BY <1>3, <1>7 DEF Stage
  <2> QED BY <1>4, <2>1
<1>9. \A s \in Stage : stage < s /\ s < level =>
         pushed'[s] * 2 ^ s = pairs - 2 * (g * 2 ^ level)
  <2> SUFFICES ASSUME NEW s \in Stage, stage < s, s < level
               PROVE  pushed'[s] * 2 ^ s = pairs - 2 * (g * 2 ^ level)
    OBVIOUS
  <2>1. pushed'[s] = pushed[s]
    BY <1>3, <1>7 DEF Stage
  <2> QED BY <1>4, <2>1
<1>10. scratch \in [a : Scratch, b : Scratch] /\ sourceIsA \in BOOLEAN
  BY DEF Flow
<1>11. stage < level - 1 =>
        /\ full \in [a : Scratch, b : Scratch]
        /\ (IF sourceIsA THEN full.a ELSE full.b) = Source
        /\ (IF sourceIsA THEN full.b ELSE full.a)
             = [halved |-> stage + 1, len |-> 2 * (fours - (left - 1))]
  <2> SUFFICES ASSUME stage < level - 1
               PROVE  /\ full \in [a : Scratch, b : Scratch]
                      /\ (IF sourceIsA THEN full.a ELSE full.b) = Source
                      /\ (IF sourceIsA THEN full.b ELSE full.a)
                           = [halved |-> stage + 1, len |-> 2 * (fours - (left - 1))]
    OBVIOUS
  <2>1. Target = [halved |-> stage + 1, len |-> 2 * (fours - left)]
    BY <1>4
  <2>2. /\ 2 * (fours - left) + 2 = 2 * (fours - (left - 1))
        /\ 2 * (fours - left) + 2 \in Nat
    BY <1>4, <1>5
  <2>3. stage # level - 1 /\ stage + 1 \in 0 .. 5
    BY <1>3 DEF Stage
  <2> DEFINE filled == [halved |-> stage + 1, len |-> 2 * (fours - (left - 1))]
  <2>4. filled \in Scratch
    BY <2>2, <2>3 DEF Scratch
  <2>5. CASE sourceIsA
    <3>1. full = [scratch EXCEPT !.b = filled]
      BY <1>10, <2>1, <2>2, <2>3, <2>5 DEF Target, Scratch
    <3> QED BY <1>10, <2>4, <2>5, <3>1 DEF Source
  <2>6. CASE ~sourceIsA
    <3>1. full = [scratch EXCEPT !.a = filled]
      BY <1>10, <2>1, <2>2, <2>3, <2>6 DEF Target, Scratch
    <3> QED BY <1>10, <2>4, <2>6, <3>1 DEF Source
  <2> QED BY <2>5, <2>6
<1>12. stage = level - 1 => full = scratch
  OBVIOUS
<1> HIDE DEF full
<1>13. CASE /\ left > 1 /\ left' = left - 1 /\ scratch' = full
            /\ UNCHANGED <<at, stage, sourceIsA>>
  <2>1. left' \in 1 .. fours
    BY <1>4, <1>5, <1>13
  <2>2. \A s \in Stage : s < stage' => pushed'[s] * 2 ^ s = pairs'
    BY <1>1, <1>13, <1>8
  <2>3. (pushed'[stage'] + 4 * left') * 2 ^ stage' = pairs'
    <3>1. (n + 4) + 4 * (left - 1) = n + 4 * left
      BY <1>3, <1>4, <1>5
    <3> QED BY <1>1, <1>4, <1>7, <1>13, <3>1
  <2>4. \A s \in Stage : stage' < s /\ s < level' =>
          pushed'[s] * 2 ^ s = pairs' - 2 * (g * 2 ^ level')
    BY <1>1, <1>13, <1>9
  <2>5. /\ scratch' \in [a : Scratch, b : Scratch]
        /\ Source' = [halved |-> stage', len |-> 4 * fours]
        /\ stage' < level' - 1 =>
             Target' = [halved |-> stage' + 1, len |-> 2 * (fours - left')]
    <3>1. CASE stage < level - 1
      BY <1>1, <1>4, <1>11, <1>13, <3>1 DEF Source, Target
    <3>2. CASE stage = level - 1
      BY <1>1, <1>3, <1>4, <1>10, <1>12, <1>13, <3>2 DEF Source, Target
    <3> QED BY <1>3, <3>1, <3>2 DEF Stage
  <2>6. Fours(g, stage)' = fours
    BY <1>1, <1>13 DEF Fours, fours
  <2>7. StageFlow(g)'
    BY <1>1, <1>3, <1>13, <2>1, <2>2, <2>3, <2>4, <2>5, <2>6 DEF StageFlow
  <2> QED BY <1>1, <1>6, <1>10, <1>13, <2>1, <2>5, <2>7 DEF Flow
<1>14. CASE /\ left = 1 /\ stage = level - 1
            /\ Leave
            /\ UNCHANGED <<stage, scratch, sourceIsA>>
  <2>1. pushed'[stage] * 2 ^ stage = pairs'
    BY <1>1, <1>4, <1>7, <1>14
  <2>2. \A s \in Stage : s < level => pushed'[s] * 2 ^ s = pairs'
    <3> SUFFICES ASSUME NEW s \in Stage, s < level PROVE pushed'[s] * 2 ^ s = pairs'
      OBVIOUS
    <3>1. s = stage \/ s < stage
      BY <1>3, <1>14 DEF Stage
    <3> QED BY <1>1, <1>8, <2>1, <3>1
  <2> QED BY <1>1, <1>6, <1>10, <1>14, <2>2 DEF Flow, Leave
<1>15. CASE left = 1 /\ stage < level - 1 /\ Enter(stage + 1, full, ~sourceIsA)
  <2> DEFINE q == 2 ^ (level - 2 - stage)
             p == 2 ^ stage
  <2>1. /\ level \in 2 .. 6 /\ stage \in 0 .. 5 /\ stage + 1 \in Stage
        /\ level - 1 - (stage + 1) = level - 2 - stage /\ level - 2 - stage \in 0 .. 6
        /\ stage + 1 < level
    BY <1>3, <1>15 DEF Stage
  <2>2. /\ 2 ^ (level - 1 - stage) = 2 * q
        /\ 2 ^ (stage + 1) = 2 * p
        /\ 2 ^ level = 4 * (p * q)
    BY <1>15, <2>1, Halving
  <2>3. p \in Nat /\ q \in Nat
    BY <1>3, <2>1, Halving, StagePowers
  <2>4. Fours(g, stage + 1) = g * q /\ fours = g * (2 * q)
    BY <2>1, <2>2 DEF Fours, fours
  <2> HIDE DEF p, q
  <2>5. 2 * (fours - (1 - 1)) = 4 * Fours(g, stage + 1)
    BY <1>5, <2>3, <2>4
  <2>6. (IF ~sourceIsA THEN full.a ELSE full.b)
          = [halved |-> stage + 1, len |-> 4 * Fours(g, stage + 1)]
    BY <1>11, <1>15, <2>5
  <2>7. /\ at' = "Stage" /\ stage' = stage + 1 /\ sourceIsA' = ~sourceIsA
        /\ left' = Fours(g, stage + 1) /\ Fours(g, stage + 1) \in Nat \ {0}
        /\ scratch' \in [a : Scratch, b : Scratch]
        /\ Source' = [halved |-> stage + 1, len |-> 4 * Fours(g, stage + 1)]
        /\ stage + 1 < level - 1 =>
             Target' = [halved |-> (stage + 1) + 1, len |-> 0]
    <3>1. full \in [a : Scratch, b : Scratch] /\ (~sourceIsA) \in BOOLEAN
      BY <1>11, <1>15
    <3> HIDE DEF full
    <3> QED BY <1>3, <1>5, <1>15, <2>1, <2>6, <3>1, EnterFlow
  <2>8. \A s \in Stage : s < stage + 1 => pushed'[s] * 2 ^ s = pairs'
    <3>1. pushed'[stage] * 2 ^ stage = pairs'
      BY <1>1, <1>4, <1>7, <1>15
    <3> SUFFICES ASSUME NEW s \in Stage, s < stage + 1 PROVE pushed'[s] * 2 ^ s = pairs'
      OBVIOUS
    <3>2. s = stage \/ s < stage
      BY <1>3 DEF Stage
    <3> QED BY <1>1, <1>8, <3>1, <3>2
  <2>9. (pushed'[stage + 1] + 4 * left') * 2 ^ (stage + 1) = pairs'
    <3> DEFINE m == pushed[stage + 1]
    <3>1. pushed'[stage + 1] = m /\ m \in Nat
      BY <1>3, <1>7, <2>1
    <3>2. m * 2 ^ (stage + 1) = pairs - 2 * (g * 2 ^ level)
      BY <1>3, <1>4, <2>1
    <3> HIDE DEF m
    <3>3. m * (2 * p) = pairs - 2 * (g * (4 * (p * q)))
      BY <2>2, <3>2
    <3>4. (m + 4 * (g * q)) * (2 * p) = m * (2 * p) + 8 * (g * (p * q))
      BY <1>5, <2>3, <3>1
    <3>5. 2 * (g * (4 * (p * q))) = 8 * (g * (p * q)) /\ g * (p * q) \in Nat
      BY <1>5, <2>3
    <3>6. (m + 4 * (g * q)) * (2 * p) = pairs
      BY <1>3, <3>3, <3>4, <3>5
    <3> QED BY <1>1, <2>2, <2>4, <2>7, <3>1, <3>6
  <2>10. \A s \in Stage : stage + 1 < s /\ s < level =>
           pushed'[s] * 2 ^ s = pairs' - 2 * (g * 2 ^ level)
    <3> SUFFICES ASSUME NEW s \in Stage, stage + 1 < s, s < level
                 PROVE  pushed'[s] * 2 ^ s = pairs' - 2 * (g * 2 ^ level)
      OBVIOUS
    <3>1. stage < s
      BY <1>3 DEF Stage
    <3> QED BY <1>1, <1>9, <3>1
  <2>11. stage + 1 < level - 1 =>
           2 * (Fours(g, stage + 1) - left') = 0
    BY <2>7
  <2>12. Fours(g, stage)' = Fours(g, stage + 1)
    BY <1>1, <2>7 DEF Fours
  <2>13. StageFlow(g)'
    BY <1>1, <2>1, <2>7, <2>8, <2>9, <2>10, <2>11, <2>12 DEF StageFlow
  <2> QED BY <1>6, <2>7, <2>13 DEF Flow
<1> QED BY <1>1, <1>13, <1>14, <1>15

LEMMA FlowInvariance == Spec => [](RingsHold /\ ReadsLatest /\ Flow)
<1>1. Init => RingsHold /\ ReadsLatest /\ Flow
  BY InitHolds, InitFlow
<1>2. RingsHold /\ ReadsLatest /\ Flow /\ [Next]_vars => (RingsHold /\ ReadsLatest /\ Flow)'
  <2> SUFFICES ASSUME RingsHold, ReadsLatest, Flow, [Next]_vars
               PROVE  (RingsHold /\ ReadsLatest /\ Flow)'
    OBVIOUS
  <2>1. Flow'
    <3>1. CASE UNCHANGED vars
      BY <3>1 DEF vars, Flow, BasebandFlow, StageFlow, Source, Target, Fours
    <3> QED BY <3>1, BeginFlow, ChunkFlow, StageFourFlow, ResetFlow DEF Next
  <2> QED BY <2>1, StepHolds
<1> QED BY <1>1, <1>2, PTL DEF Spec

\* Between calls every stage has taken what the one before gave, in whole fours,
\* for every set of decimations and every sequence of calls.
THEOREM StagesStayInPhase == Spec => []StagesInPhase
<1>1. RingsHold /\ Flow => StagesInPhase
  <2> SUFFICES ASSUME RingsHold, Flow, at = "Idle", NEW s \in Stage
               PROVE  IF s < level THEN pushed[s] * 2 ^ s = pairs /\ pushed[s] % 4 = 0
                      ELSE pushed[s] = 0
    BY DEF StagesInPhase
  <2>1. level \in 0 .. 6 /\ s \in 0 .. 5
    BY LevelFacts DEF Stage
  <2>2. s < level => pushed[s] * 2 ^ s = pairs
    BY DEF Flow
  <2>3. pushed[s] % 4 = 0 /\ (s >= level => pushed[s] = 0)
    BY DEF Flow
  <2> QED BY <2>1, <2>2, <2>3
<1> QED BY FlowInvariance, <1>1, PTL

\* A stage reads all of the buffer that the loop before it wrote.
THEOREM ScratchTakesTurns == Spec => []ScratchInTurn
<1>1. RingsHold /\ Flow => ScratchInTurn
  <2> SUFFICES ASSUME RingsHold, Flow, at = "Stage"
               PROVE  Source.halved = stage /\ Source.len % 4 = 0
    BY DEF ScratchInTurn, Source
  <2>1. PICK g \in Nat : StageFlow(g)
    BY DEF Flow
  <2>2. level - 1 - stage \in 0 .. 6
    <3>1. level \in 0 .. 6
      BY LevelFacts
    <3>2. stage \in 0 .. 5
      BY DEF RingsHold, Stage
    <3>3. stage < level
      BY <2>1 DEF StageFlow
    <3> QED BY <3>1, <3>2, <3>3
  <2>3. Fours(g, stage) \in Nat
    <3>1. 2 ^ (level - 1 - stage) \in Nat \ {0}
      BY <2>2, Halving
    <3> QED BY <3>1 DEF Fours
  <2>4. Source = [halved |-> stage, len |-> 4 * Fours(g, stage)]
    BY <2>1 DEF StageFlow
  <2> HIDE DEF Fours, Source
  <2> QED BY <2>3, <2>4
<1> QED BY FlowInvariance, <1>1, PTL

\* The variables keep their types; indices stay within their rings.
THEOREM ConverterTypeCorrect == Spec => []TypeOK
<1>1. RingsHold /\ Flow => TypeOK
  <2> SUFFICES ASSUME RingsHold, Flow PROVE TypeOK
    OBVIOUS
  <2>1. at # "Idle" => left > 0
    BY DEF Flow, BasebandFlow, StageFlow
  <2> QED BY <2>1 DEF RingsHold, Flow, TypeOK, Holds, LineHolds
<1> QED BY FlowInvariance, <1>1, PTL
=============================================================================
