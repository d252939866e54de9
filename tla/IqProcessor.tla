---------------------------- MODULE IqProcessor ----------------------------
(***************************************************************************)
(* Reading converted samples (src/src/rx/processing.rs, the F32Iq half of  *)
(* src/src/rx/receiver.rs and the chunking of src/src/converter.rs): how a *)
(* sequence of reads of any length, odd ones included, cuts USB blocks     *)
(* into samples, across stops and changes of the decimation factor.        *)
(*                                                                         *)
(* A sample is identified by its position: the first of the 2 * decimation *)
(* raw ADC samples it is made of, counted from 1 along the capture.  The   *)
(* queue is seen from the processor: a block arrives when it is asked for. *)
(*                                                                         *)
(* A definition whose name ends in _ and a word is never part of the       *)
(* behaviour: it is the definition after it with one plausible slip.       *)
(***************************************************************************)
EXTENDS Integers, Sequences

CONSTANTS Decimations,  \* host decimation factors
          BlockLen,     \* raw samples in a block: DEFAULT_BUFFER_SIZE / 2
          MaxOut,       \* bound of this model: longest output slice
          Horizon       \* bound of this model: last position that is captured

ASSUME DecimationAssumption == Decimations \subseteq Nat \ {0} /\ 1 \in Decimations
ASSUME BlockLenAssumption ==
  BlockLen \in Nat \ {0} /\ \A d \in Decimations : BlockLen % (4 * d) = 0
ASSUME BoundAssumption == MaxOut \in Nat /\ Horizon \in Nat

VARIABLES
  wanted,      \* decimation in the session's receive settings
  running,     \* whether ReceiverState is Running
  want,        \* length of the output slice of the read in progress, 0 if none
  decimation,  \* decimation in the queue's settings
  block,       \* position of the current block's first raw sample, or None
  offset,      \* raw samples of the block already converted
  pending,     \* the carried sample, or None
  heard,       \* history: where the converter's filters heard up to, or None
  tick,        \* position of the next block
  got,         \* the last read's output
  due,         \* history: the next sample after those delivered, or None
  incomplete   \* history: whether a read met an incomplete conversion group

vars == <<wanted, running, want, decimation, block, offset, pending, heard,
          tick, got, due, incomplete>>

None == 0

Init ==
  /\ wanted \in Decimations
  /\ running = FALSE
  /\ want = 0
  /\ decimation = wanted
  /\ block = None /\ offset = 0 /\ pending = None /\ heard = None
  /\ tick = 1
  /\ got = <<>> /\ due = None
  /\ incomplete = FALSE

-----------------------------------------------------------------------------
(* What the processor and the converter compute *)

\* Only the carried sample is dropped; the filters keep what they heard.
Reset_Shallow ==
  /\ pending' = None
  /\ offset' = 0
  /\ due' = None
  /\ UNCHANGED heard

\* IqProcessor::reset: a new converter, no offset, nothing carried.
Reset ==
  /\ pending' = None
  /\ offset' = 0
  /\ heard' = None
  /\ due' = None

\* An odd rest of the output is rounded down to whole groups.
Requested_Down(room) == 2 * (room \div 2)

\* Two samples make one conversion group of every decimation stage: an odd
\* rest of the output is rounded up, and one sample carried.
Requested(room) == 2 * ((room + 1) \div 2)

\* The whole groups left in the block, in samples.
Available == 2 * ((BlockLen - offset) \div (4 * decimation))

\* The samples that one conversion produces.
Pairs(room) ==
  IF block = None \/ room = 0 THEN 0
  ELSE IF Available < Requested(room) THEN Available
  ELSE Requested(room)

\* Where n samples of a conversion begin.
Converted(n) == [k \in 1 .. n |-> block + offset + 2 * decimation * (k - 1)]

Carried == IF pending = None THEN <<>> ELSE <<pending>>

\* The carried sample goes with its block.
Carry_Lost(pairs, room, used) ==
  pending' = IF pairs > room /\ used < BlockLen THEN Converted(pairs)[pairs] ELSE None

\* The sample beyond an odd output is carried, also past the end of its block.
Carry(pairs, room, used) ==
  pending' = IF pairs > room THEN Converted(pairs)[pairs] ELSE None

\* The block goes and its offset stays.
UseUp_Forgetful(used) ==
  /\ offset' = used
  /\ block' = IF used = BlockLen THEN None ELSE block

\* The block stays after its last sample.
UseUp_Keep(used) ==
  /\ offset' = IF used = BlockLen THEN 0 ELSE used
  /\ UNCHANGED block

\* A block that is used up goes back to the endpoint.
UseUp(used) ==
  IF used = BlockLen THEN block' = None /\ offset' = 0
  ELSE offset' = used /\ UNCHANGED block

-----------------------------------------------------------------------------
(* The device handle, on another thread *)

ChangeDecimation ==
  /\ wanted' \in Decimations \ {wanted}
  /\ UNCHANGED <<running, want, decimation, block, offset, pending, heard, tick,
                 got, due, incomplete>>

-----------------------------------------------------------------------------
(* Start and stop *)

\* A restart keeps the queue or creates one; both have the settings of now.
Start ==
  /\ ~running
  /\ running' = TRUE
  /\ decimation' = wanted
  /\ Reset
  /\ UNCHANGED <<wanted, want, block, tick, got, incomplete>>

\* What was captured and not read is discarded: at least what was in flight.
Lose ==
  /\ block' = None
  /\ tick' = IF tick + BlockLen <= Horizon THEN tick + BlockLen ELSE tick

Stop ==
  /\ running /\ want = 0
  /\ running' = FALSE
  /\ Lose
  /\ Reset
  /\ UNCHANGED <<wanted, want, decimation, got, incomplete>>

-----------------------------------------------------------------------------
(* A read *)

\* begin_read: another decimation drops the rest of the block and all state.
AdoptDecimation ==
  IF decimation = wanted
  THEN UNCHANGED <<decimation, block, offset, pending, heard, due>>
  ELSE decimation' = wanted /\ block' = None /\ Reset

\* read() of n samples; an empty slice is answered at once.
ReadBegin(n) ==
  /\ running /\ want = 0
  /\ AdoptDecimation
  /\ want' = n
  /\ got' = <<>>
  /\ UNCHANGED <<wanted, running, tick, incomplete>>

\* The read waits only if nothing is left over.
Waits == want # 0 /\ block = None /\ pending = None

\* An awaited read begins again at each poll; a blocking one does not.
Poll ==
  /\ Waits
  /\ AdoptDecimation
  /\ UNCHANGED <<wanted, running, want, tick, got, incomplete>>

Fill ==
  /\ Waits
  /\ tick + BlockLen <= Horizon + 1
  /\ block' = tick
  /\ tick' = tick + BlockLen
  /\ UNCHANGED <<wanted, running, want, decimation, offset, pending, heard, got,
                 due, incomplete>>

\* A failed completion retires the queue and resets the processor.
FillFails ==
  /\ Waits
  /\ want' = 0
  /\ running' = FALSE
  /\ Lose
  /\ Reset
  /\ UNCHANGED <<wanted, decimation, got, incomplete>>

\* A timeout, or a dropped read.
Abandon ==
  /\ Waits
  /\ want' = 0
  /\ UNCHANGED <<wanted, running, decimation, block, offset, pending, heard,
                 tick, got, due, incomplete>>

\* process(): the carried sample, then one conversion.  What that leaves of the
\* output and of the block decides the rest of its loop: either is empty, or
\* the next conversion finds no whole group.
Process ==
  LET room  == want - Len(Carried)
      pairs == Pairs(room)
      used  == offset + pairs * 2 * decimation
      out   == Carried \o Converted(IF pairs < room THEN pairs ELSE room)
  IN  /\ want # 0 /\ ~Waits
      /\ want' = 0
      /\ IF block = None \/ pairs >= room \/ used = BlockLen
         THEN /\ got' = out
              /\ due' = out[Len(out)] + 2 * decimation
              /\ heard' = IF pairs = 0 THEN heard ELSE block + used
              /\ Carry(pairs, room, used)
              /\ UseUp(used)
              /\ UNCHANGED <<running, tick, incomplete>>
         ELSE /\ incomplete' = TRUE
              /\ running' = FALSE
              /\ Lose
              /\ Reset
              /\ UNCHANGED got
      /\ UNCHANGED <<wanted, decimation>>

Next ==
  \/ ChangeDecimation
  \/ Start \/ Stop
  \/ \E n \in 0 .. MaxOut : ReadBegin(n)
  \/ Poll \/ Fill \/ FillFails \/ Abandon \/ Process

Spec == Init /\ [][Next]_vars

-----------------------------------------------------------------------------
Position == 0 .. Horizon + 1

TypeOK ==
  /\ wanted \in Decimations /\ decimation \in Decimations
  /\ running \in BOOLEAN /\ incomplete \in BOOLEAN
  /\ want \in 0 .. MaxOut
  /\ block \in Position /\ pending \in Position /\ heard \in Position
  /\ tick \in Position /\ due \in Position
  /\ offset \in 0 .. BlockLen - 1
  /\ got \in Seq(Position) /\ Len(got) <= MaxOut

\* Reads deliver every sample once and in order, whatever their lengths: a read
\* goes on with the sample after the last one delivered, and without gaps, over
\* block boundaries and carried samples, until a stop, an error or another
\* decimation (IqProcessor::process).
ReadsContinue ==
  [][got' # got /\ got' # <<>> =>
       /\ due # None => got'[1] = due
       /\ \A k \in 1 .. Len(got') - 1 : got'[k + 1] = got'[k] + 2 * decimation]_vars

\* The converter's filters, which remember raw samples, never span a gap or mix
\* two decimations: what they hear next follows what they heard, or they are new
\* (IqProcessor::reset on every path that loses data).
FiltersHearNoGap ==
  heard # None => heard = IF block = None THEN tick ELSE block + offset

\* No read fails for an incomplete conversion group: blocks, and what is
\* consumed of them, are whole groups of every decimation (process_u16le).
GroupsComplete == ~incomplete

\* A read returns fewer samples than asked only when it has nothing left: its
\* block is used up and nothing is carried (README: a read returns buffered
\* samples or processes at most one new completion).
ShortReadLeavesNothing ==
  [][got' # <<>> /\ want # 0 /\ want' = 0 /\ Len(got') < want =>
       block' = None /\ pending' = None]_vars
=============================================================================
