----------------------------- MODULE Converter -----------------------------
(***************************************************************************)
(* How the IQ converter moves samples (src/src/converter.rs): the FIR ring *)
(* that keeps its history twice so that a window never wraps, the Q delay  *)
(* line, the rings of the half-band decimation stages, and the two scratch *)
(* buffers that the stages read and write in turn.                         *)
(*                                                                         *)
(* A value is the number of its push, counted from 1, and 0 is the silence *)
(* that a ring starts with: what the filters compute is floating point and *)
(* left out, which samples they compute it from is what this module is     *)
(* about.  An action is one iteration of a loop of the code.               *)
(*                                                                         *)
(* A definition whose name ends in _ and a word is never part of the       *)
(* behaviour: it is the definition after it with one plausible slip.       *)
(***************************************************************************)
EXTENDS Integers

CONSTANTS History,    \* FIR_HISTORY_SIZE
          Taps,       \* length of fir_kernel
          QDelay,     \* Q_DELAY_LEN
          Levels,     \* numbers of decimation stages in use: the factor is 2^level
          MaxGroups,  \* bound of this model: groups converted by one call
          MaxPairs    \* bound of this model: I/Q pairs converted since a reset

ASSUME FirAssumption == History \in Nat /\ Taps \in 1 .. History
ASSUME DelayAssumption == QDelay \in 1 .. 16
ASSUME LevelAssumption == Levels \subseteq 0 .. 6
ASSUME BoundAssumption == MaxGroups \in Nat /\ MaxPairs \in Nat

Stage == 0 .. 5

VARIABLES
  level,       \* number of stages of the decimation in use
  at,          \* the loop that runs: "Idle", "Baseband" or "Stage"
  stage,       \* the decimation stage in that case
  left,        \* iterations left in that loop
  pairs,       \* I/Q pairs pushed since the reset
  fir,         \* fir_queue and fir_index
  delay,       \* delay_line and delay_index
  stages,      \* the decimation stages' queue_iq and fir_index
  pushed,      \* history: pairs pushed into each stage
  scratch,     \* scratch_a and scratch_b: how often halved, and how many pairs
  sourceIsA,   \* source_is_a
  firReads,    \* history: the windows that the last step's FIR read
  delayReads,  \* history: what the last step took from the delay line
  stageReads   \* history: the windows that the last step's stage read

vars == <<level, at, stage, left, pairs, fir, delay, stages, pushed, scratch,
          sourceIsA, firReads, delayReads, stageReads>>

-----------------------------------------------------------------------------
(* Rings *)

\* A ring of the given size whose contents are kept twice.
Silence(size) == [queue |-> [j \in 0 .. 2 * size - 1 |-> 0], index |-> 0]

\* The second copy is written at the wrong place.
Store_Near(ring, size, value) ==
  [queue |-> [j \in 0 .. 2 * size - 1 |->
                IF j \in {ring.index, size - 1} THEN value ELSE ring.queue[j]],
   index |-> IF ring.index + 1 = size THEN 0 ELSE ring.index + 1]

\* Store a value in both copies and advance; sizes are powers of two, and the
\* mask of the code wraps the index.
Store(ring, size, value) ==
  [queue |-> [j \in 0 .. 2 * size - 1 |->
                IF j \in {ring.index, ring.index + size} THEN value
                ELSE ring.queue[j]],
   index |-> IF ring.index + 1 = size THEN 0 ELSE ring.index + 1]

\* The window begins one entry late.
FirWindow_Late(ring, index, n) ==
  [n |-> n, value |-> [i \in 0 .. Taps - 1 |-> ring.queue[index + History - Taps + i]]]

\* push_fir: after the n-th push, at index, the kernel's taps read this window.
FirWindow(ring, index, n) ==
  [n |-> n, value |-> [i \in 0 .. Taps - 1 |-> ring.queue[index + History - Taps + 1 + i]]]

\* DecimationFilter::buf_size, and the entries past index that acc_hb33 and
\* acc_hb17 read: the odd taps, mirrored, and the middle one; the other taps of
\* the kernel are 0.
BufSize(s) == IF s < 3 THEN 32 ELSE 16

HalfBand(s) ==
  {k \in 1 .. BufSize(s) - 1 : k % 2 = 1 \/ k = BufSize(s) \div 2}

StageWindow(ring, s, index, n) ==
  [s |-> s, n |-> n, value |-> [k \in HalfBand(s) |-> ring.queue[index + k]]]

\* The index wraps one entry late.
Delayed_Late(line, value) ==
  [queue |-> [line.queue EXCEPT ![line.index] = value],
   index |-> IF line.index + 1 > QDelay THEN 0 ELSE line.index + 1]

\* push_delay: take the oldest of QDelay values and put a new one in its place.
Delayed(line, value) ==
  [queue |-> [line.queue EXCEPT ![line.index] = value],
   index |-> IF line.index + 1 >= QDelay THEN 0 ELSE line.index + 1]

Scratch == [halved : 0 .. 5, len : Nat]

Empty(halved) == [halved |-> halved, len |-> 0]

SilentLine == [queue |-> [j \in 0 .. 15 |-> 0], index |-> 0]

SilentStages == [s \in Stage |-> Silence(BufSize(s))]

\* Float32IqConverter::default.
Init ==
  /\ level \in Levels
  /\ at = "Idle" /\ stage = 0 /\ left = 0
  /\ pairs = 0
  /\ fir = Silence(History)
  /\ delay = SilentLine
  /\ stages = SilentStages
  /\ pushed = [s \in Stage |-> 0]
  /\ scratch = [a |-> Empty(0), b |-> Empty(0)]
  /\ sourceIsA = TRUE
  /\ firReads = {} /\ delayReads = {} /\ stageReads = {}

-----------------------------------------------------------------------------
(* One call of process_u16le_to_f32iq_slice *)

\* Four more raw samples, an incomplete group, go along.
Chunks_Unaligned(groups) == groups * 2 ^ level + 1

\* The chunks of four raw samples in a number of groups: a group is the least
\* input that gives every stage whole fours.
Chunks(groups) == groups * 2 ^ level

Begin(groups) ==
  /\ at = "Idle"
  /\ pairs + 2 * Chunks(groups) <= MaxPairs
  /\ at' = "Baseband"
  /\ left' = Chunks(groups)
  /\ scratch' = IF level = 0 THEN scratch ELSE [scratch EXCEPT !.a = Empty(0)]
  /\ UNCHANGED <<level, stage, pairs, fir, delay, stages, pushed, sourceIsA,
                 firReads, delayReads, stageReads>>

\* The stage reads what it reads from the same buffer as the one before.
Enter_Same(s, full, isA) ==
  /\ at' = "Stage" /\ stage' = s
  /\ sourceIsA' = TRUE
  /\ left' = full.a.len \div 4
  /\ scratch' = IF s = level - 1 THEN full ELSE [full EXCEPT !.b = Empty(s + 1)]

\* The loop of stage s over the scratch buffer that was written last, in fours;
\* all but the last stage write into the other one.
Enter(s, full, isA) ==
  /\ at' = "Stage" /\ stage' = s
  /\ sourceIsA' = isA
  /\ left' = (IF isA THEN full.a.len ELSE full.b.len) \div 4
  /\ scratch' = IF s = level - 1 THEN full
                ELSE IF isA THEN [full EXCEPT !.b = Empty(s + 1)]
                ELSE [full EXCEPT !.a = Empty(s + 1)]

Leave == at' = "Idle" /\ left' = 0

\* convert_adc_chunk: four raw samples, two pushes into each of FIR and delay.
Chunk ==
  LET fir1  == Store(fir, History, pairs + 1)
      line1 == Delayed(delay, pairs + 1)
      full  == IF level = 0 THEN scratch ELSE [scratch EXCEPT !.a.len = @ + 2]
  IN  /\ at = "Baseband"
      /\ pairs' = pairs + 2
      /\ fir' = Store(fir1, History, pairs + 2)
      /\ firReads' = {FirWindow(fir1, fir.index, pairs + 1),
                      FirWindow(fir', fir1.index, pairs + 2)}
      /\ delay' = Delayed(line1, pairs + 2)
      /\ delayReads' = {[n |-> pairs + 1, value |-> delay.queue[delay.index]],
                        [n |-> pairs + 2, value |-> line1.queue[line1.index]]}
      /\ \/ /\ left > 1
            /\ left' = left - 1
            /\ scratch' = full
            /\ UNCHANGED <<at, stage, sourceIsA>>
         \/ /\ left = 1 /\ level = 0
            /\ Leave
            /\ UNCHANGED <<stage, scratch, sourceIsA>>
         \/ /\ left = 1 /\ level > 0
            /\ Enter(0, full, TRUE)
      /\ UNCHANGED <<level, stages, pushed, stageReads>>

\* One iteration of process_hb33 or process_hb17: four stores, and a window
\* after the second and the fourth.
StageFour ==
  LET n     == pushed[stage]
      size  == BufSize(stage)
      ring1 == Store(stages[stage], size, n + 1)
      ring2 == Store(ring1, size, n + 2)
      ring3 == Store(ring2, size, n + 3)
      ring4 == Store(ring3, size, n + 4)
      full  == IF stage = level - 1 THEN scratch
               ELSE IF sourceIsA THEN [scratch EXCEPT !.b.len = @ + 2]
               ELSE [scratch EXCEPT !.a.len = @ + 2]
  IN  /\ at = "Stage"
      /\ stages' = [stages EXCEPT ![stage] = ring4]
      /\ pushed' = [pushed EXCEPT ![stage] = n + 4]
      /\ stageReads' = {StageWindow(ring2, stage, ring1.index, n + 2),
                        StageWindow(ring4, stage, ring3.index, n + 4)}
      /\ \/ /\ left > 1
            /\ left' = left - 1
            /\ scratch' = full
            /\ UNCHANGED <<at, stage, sourceIsA>>
         \/ /\ left = 1 /\ stage = level - 1
            /\ Leave
            /\ UNCHANGED <<stage, scratch, sourceIsA>>
         \/ /\ left = 1 /\ stage < level - 1
            /\ Enter(stage + 1, full, ~sourceIsA)
      /\ UNCHANGED <<level, pairs, fir, delay, firReads, delayReads>>

\* IqProcessor::reset, which comes with every change of the decimation.
Reset ==
  /\ at = "Idle"
  /\ level' \in Levels
  /\ pairs' = 0
  /\ fir' = Silence(History)
  /\ delay' = SilentLine
  /\ stages' = SilentStages
  /\ pushed' = [s \in Stage |-> 0]
  /\ scratch' = [a |-> Empty(0), b |-> Empty(0)]
  /\ sourceIsA' = TRUE
  /\ firReads' = {} /\ delayReads' = {} /\ stageReads' = {}
  /\ stage' = 0
  /\ UNCHANGED <<at, left>>

Next ==
  \/ \E groups \in 1 .. MaxGroups : Begin(groups)
  \/ Chunk \/ StageFour \/ Reset

Spec == Init /\ [][Next]_vars

-----------------------------------------------------------------------------
Ring(size) == [queue : [0 .. 2 * size - 1 -> Nat], index : 0 .. size - 1]

TypeOK ==
  /\ level \in Levels
  /\ at \in {"Idle", "Baseband", "Stage"}
  /\ stage \in Stage
  /\ left \in Nat /\ (at # "Idle" => left > 0)
  /\ pairs \in Nat
  /\ fir.index \in 0 .. History - 1
  /\ delay.index \in 0 .. QDelay - 1
  /\ \A s \in Stage : stages[s].index \in 0 .. BufSize(s) - 1 /\ pushed[s] \in Nat
  /\ scratch \in [a : Scratch, b : Scratch]
  /\ sourceIsA \in BOOLEAN

\* What a shift register gives age pushes after the newest of n.
Latest(n, age) == IF n > age THEN n - age ELSE 0

\* Every FIR window is the latest Taps pushes, in order, also where the ring
\* wraps (push_fir).
FirReadsLatest ==
  \A w \in firReads : \A i \in 0 .. Taps - 1 : w.value[i] = Latest(w.n, Taps - 1 - i)

\* The quadrature branch is delayed by QDelay pushes (push_delay).
QuadratureIsDelayed == \A r \in delayReads : r.value = Latest(r.n, QDelay)

\* Every window of a half-band stage is its latest inputs at the kernel's ages,
\* ending at an even one (process_hb33, acc_hb33 and their 17-tap twins).
StagesReadLatest ==
  \A w \in stageReads :
    /\ w.n % 2 = 0
    /\ \A k \in HalfBand(w.s) : w.value[k] = Latest(w.n, BufSize(w.s) - k)

\* Between calls every stage in use has taken exactly what the one before gave,
\* in whole fours: no call loses samples between stages, and none changes the
\* phase in which the next call finds them (the converter's doc comment).
StagesInPhase ==
  at = "Idle" =>
    \A s \in Stage :
      IF s < level THEN pushed[s] * 2 ^ s = pairs /\ pushed[s] % 4 = 0
      ELSE pushed[s] = 0

\* A stage reads the buffer that the loop before it wrote, all of it.
ScratchInTurn ==
  at = "Stage" =>
    LET source == IF sourceIsA THEN scratch.a ELSE scratch.b
    IN  source.halved = stage /\ source.len % 4 = 0
=============================================================================
