------------------------------- MODULE RxQueue -------------------------------
(***************************************************************************)
(* The transfer queue of a receive stream from inside                      *)
(* (src/src/rx/queue.rs): its pool of buffers, the transfers in flight on  *)
(* the endpoint, the one current block, the submissions to discard after a *)
(* restart, and the statistics; with the receiver operations that drive it *)
(* (src/src/rx/receiver.rs) and the bulk endpoint it uses.                 *)
(*                                                                         *)
(* The receiver's lifecycle is the one of module Receiver, seen from one   *)
(* stream: phase stands for its ReceiverState together with the progress   *)
(* of a start.                                                             *)
(*                                                                         *)
(* A definition whose name ends in _ and a word is never part of the       *)
(* behaviour: it is the definition after it with one plausible slip.       *)
(***************************************************************************)
EXTENDS Naturals, Sequences

CONSTANTS Transfers,   \* RFONE_TRANSFER_COUNT
          Mode,        \* "RawAdc" or "F32Iq"
          CanCancel,   \* whether the backend cancels transfers (WebUSB does not)
          MayFail,     \* whether transfers may fail
          StatCap      \* bound of this model: counters stop at it

ASSUME TransfersAssumption == Transfers \in Nat \ {0}
ASSUME ModeAssumption == Mode \in {"RawAdc", "F32Iq"}
ASSUME CanCancelAssumption == CanCancel \in BOOLEAN
ASSUME MayFailAssumption == MayFail \in BOOLEAN
ASSUME StatCapAssumption == StatCap \in Nat

VARIABLES
  phase,        \* "None", "New", "NewRx", "Running", "Cleanup" or "Paused"
  hwOn,         \* whether the hardware's receiver is on
  spare,        \* number of allocated buffers not yet submitted
  flight,       \* transfers on the endpoint, oldest first
  current,      \* the block exposed to the application, if any
  initialized,  \* whether every buffer was submitted once
  discard,      \* discard_remaining
  waiting,      \* whether a read waits for a completion
  stats,        \* the queue's own StreamingStats
  total,        \* the stream's StreamingStats of queues already retired
  consumed      \* history: completions taken from the endpoint

vars == <<phase, hwOn, spare, flight, current, initialized, discard, waiting,
          stats, total, consumed>>

\* old (history): submitted before the latest pause.  got: what the completion
\* will say; "bad" is an error status or an unexpected length.
Transfer == [old : BOOLEAN, cancelled : BOOLEAN, got : {"nothing", "data", "bad"}]

Submitted == [old |-> FALSE, cancelled |-> FALSE, got |-> "nothing"]

\* The current block, with the age of the submission it came from.
Block == {"none", "fresh", "old"}

Counter == 0 .. StatCap

Stats == [received : Counter, processed : Counter, dropped : Counter,
          discarded : Counter]

NoStats == [received |-> 0, processed |-> 0, dropped |-> 0, discarded |-> 0]

\* Counters that reach the bound stay there, which keeps their inequalities.
Plus(m, n) == IF m + n < StatCap THEN m + n ELSE StatCap

\* StreamingStats::combined.
Combined(a, b) == [field \in DOMAIN a |-> Plus(a[field], b[field])]

Count(fields) == [f \in DOMAIN stats |-> IF f \in fields THEN Plus(stats[f], 1)
                                         ELSE stats[f]]

\* current_stats()
CurrentStats == IF phase = "None" THEN total ELSE Combined(total, stats)

Init ==
  /\ phase = "None"
  /\ hwOn = FALSE
  /\ spare = 0
  /\ flight = <<>>
  /\ current = "none"
  /\ initialized = FALSE
  /\ discard = 0
  /\ waiting = FALSE
  /\ stats = NoStats
  /\ total = NoStats
  /\ consumed = 0

-----------------------------------------------------------------------------
(* The queue's own operations *)

\* Queue::new on an endpoint without pending transfers.
New ==
  /\ spare' = Transfers
  /\ flight' = <<>>
  /\ current' = "none"
  /\ initialized' = FALSE
  /\ discard' = 0
  /\ stats' = NoStats

\* release_current: the current buffer goes back to the end of the endpoint.
Released == IF current = "none" THEN flight ELSE Append(flight, Submitted)

\* The submissions are counted before the current block is released.
Pause_Early ==
  /\ flight' = [i \in DOMAIN Released |->
                  [Released[i] EXCEPT !.old = TRUE, !.cancelled = CanCancel]]
  /\ discard' = Len(flight)
  /\ current' = "none"

\* Cancelled or not yet filled, the old transfers are trusted to be harmless.
Pause_Trusting ==
  /\ flight' = [i \in DOMAIN Released |->
                  [Released[i] EXCEPT !.old = TRUE, !.cancelled = CanCancel]]
  /\ discard' = 0
  /\ current' = "none"

\* pause: release the current block, then everything on the endpoint is to be
\* discarded, and is cancelled where the backend can.
Pause ==
  /\ flight' = [i \in DOMAIN Released |->
                  [Released[i] EXCEPT !.old = TRUE,
                                      !.cancelled = CanCancel]]
  /\ discard' = Len(Released)
  /\ current' = "none"

\* The statistics of the queue are lost with it.
Retire_Forgetful(final) ==
  /\ total' = total
  /\ stats' = NoStats
  /\ spare' = 0
  /\ flight' = <<>>
  /\ current' = "none"
  /\ initialized' = FALSE
  /\ discard' = 0

\* close and retire_stream: the queue goes, its statistics stay.
Retire(final) ==
  /\ total' = Combined(total, final)
  /\ stats' = NoStats
  /\ spare' = 0
  /\ flight' = <<>>
  /\ current' = "none"
  /\ initialized' = FALSE
  /\ discard' = 0

-----------------------------------------------------------------------------
(* Starting *)

\* A fresh start: the receiver is off, then the queue is created.
Create ==
  /\ phase = "None" /\ ~hwOn
  /\ phase' = "New"
  /\ New
  /\ UNCHANGED <<hwOn, waiting, total, consumed>>

\* The receiver-off command of a fresh start or of a stop without a queue.
TurnOff ==
  /\ phase = "None" /\ hwOn
  /\ hwOn' = FALSE
  /\ UNCHANGED <<phase, spare, flight, current, initialized, discard, waiting,
                 stats, total, consumed>>

\* The receiver-on command of a fresh start, or of a restart that keeps the
\* queue.  A failed one, and its receiver-off fallback, leave either mode.
TurnOn ==
  /\ phase = "New" \/ (phase = "Paused" /\ initialized)
  /\ \/ /\ hwOn' = TRUE
        /\ phase' = IF phase = "New" THEN "NewRx" ELSE "Running"
     \/ /\ hwOn' \in BOOLEAN
        /\ phase' = "Cleanup"
  /\ UNCHANGED <<spare, flight, current, initialized, discard, waiting, stats,
                 total, consumed>>

\* initialize: after clear_halt every buffer is submitted.
Initialize ==
  /\ phase = "NewRx"
  /\ flight' = flight \o [i \in 1 .. spare |-> Submitted]
  /\ spare' = 0
  /\ initialized' = TRUE
  /\ phase' = "Running"
  /\ UNCHANGED <<hwOn, current, discard, waiting, stats, total, consumed>>

\* clear_halt fails or the start is cancelled there.
InitializeFails ==
  /\ phase = "NewRx"
  /\ phase' = "Cleanup"
  /\ hwOn' \in BOOLEAN
  /\ UNCHANGED <<spare, flight, current, initialized, discard, waiting, stats,
                 total, consumed>>

-----------------------------------------------------------------------------
(* Stopping *)

StopBegin ==
  /\ phase = "Running" /\ ~waiting
  /\ phase' = "Cleanup"
  /\ UNCHANGED <<hwOn, spare, flight, current, initialized, discard, waiting,
                 stats, total, consumed>>

\* The receiver-off command of stop() succeeds, and the queue pauses.
StopOk ==
  /\ phase = "Cleanup"
  /\ phase' = "Paused"
  /\ hwOn' = FALSE
  /\ Pause
  /\ UNCHANGED <<spare, initialized, waiting, stats, total, consumed>>

\* It fails or is cancelled: nothing is paused, whether the receiver is off.
StopErr ==
  /\ phase = "Cleanup" /\ hwOn
  /\ hwOn' = FALSE
  /\ UNCHANGED <<phase, spare, flight, current, initialized, discard, waiting,
                 stats, total, consumed>>

\* A changed packing (which a raw read may notice while it waits), a start that
\* finds the queue unusable, or a close retires the queue.
RetireQueue ==
  /\ phase \in {"Running", "Paused", "Cleanup"}
  /\ waiting => Mode = "RawAdc"
  /\ phase' = "None"
  /\ waiting' = FALSE
  /\ Retire(stats)
  /\ UNCHANGED <<hwOn, consumed>>

-----------------------------------------------------------------------------
(* Reading *)

\* A raw block call returns the previous block to the endpoint and waits; an IQ
\* read waits only when it has no block.
ReadBegin ==
  /\ phase = "Running" /\ ~waiting
  /\ Mode = "F32Iq" => current = "none"
  /\ flight' = Released
  /\ current' = "none"
  /\ waiting' = TRUE
  /\ UNCHANGED <<phase, hwOn, spare, initialized, discard, stats, total, consumed>>

\* The IQ processor has used up the block.
BlockUsed ==
  /\ Mode = "F32Iq"
  /\ phase = "Running" /\ ~waiting /\ current # "none"
  /\ flight' = Released
  /\ current' = "none"
  /\ UNCHANGED <<phase, hwOn, spare, initialized, discard, waiting, stats, total,
                 consumed>>

\* discard_current: an IQ read finds another decimation and drops its block.
DiscardCurrent ==
  /\ Mode = "F32Iq"
  /\ phase = "Running" /\ ~waiting /\ current # "none"
  /\ stats' = Count({"dropped"})
  /\ flight' = Released
  /\ current' = "none"
  /\ UNCHANGED <<phase, hwOn, spare, initialized, discard, waiting, total, consumed>>

\* The loop does not check that something is left to discard.
Discard_Unchecked ==
  /\ discard' = discard - 1
  /\ stats' = Count({"received", "dropped", "discarded"})
  /\ flight' = Append(Tail(flight), Submitted)
  /\ UNCHANGED <<phase, spare, current, initialized, waiting, total>>

\* The buffer is not submitted again.
Discard_Leak ==
  /\ discard # 0
  /\ discard' = discard - 1
  /\ stats' = Count({"received", "dropped", "discarded"})
  /\ flight' = Tail(flight)
  /\ UNCHANGED <<phase, spare, current, initialized, waiting, total>>

\* A discarded buffer is not counted as dropped.
Discard_Miscount ==
  /\ discard # 0
  /\ discard' = discard - 1
  /\ stats' = Count({"received", "discarded"})
  /\ flight' = Append(Tail(flight), Submitted)
  /\ UNCHANGED <<phase, spare, current, initialized, waiting, total>>

\* The countdown never moves.
Discard_Forever ==
  /\ discard # 0
  /\ stats' = Count({"received", "dropped", "discarded"})
  /\ flight' = Append(Tail(flight), Submitted)
  /\ UNCHANGED <<phase, spare, current, initialized, discard, waiting, total>>

\* A completion that was in flight at the pause goes back to the endpoint.
Discard ==
  /\ discard # 0
  /\ discard' = discard - 1
  /\ stats' = Count({"received", "dropped", "discarded"})
  /\ flight' = Append(Tail(flight), Submitted)
  /\ UNCHANGED <<phase, spare, current, initialized, waiting, total>>

\* A usable completion becomes the current block.
Expose ==
  /\ discard = 0 /\ Head(flight).got = "data"
  /\ stats' = Count({"received", "processed"})
  /\ flight' = Tail(flight)
  /\ current' = IF Head(flight).old THEN "old" ELSE "fresh"
  /\ waiting' = FALSE
  /\ UNCHANGED <<phase, spare, initialized, discard, total>>

\* A failed completion closes the queue, and the read retires it.
Reject ==
  /\ discard = 0 /\ Head(flight).got = "bad"
  /\ Retire(Count({"received", "dropped"}))
  /\ waiting' = FALSE
  /\ phase' = "None"

\* accept() of the oldest transfer, once it is complete.
Accept ==
  /\ waiting
  /\ flight # <<>> /\ Head(flight).got # "nothing"
  /\ consumed' = Plus(consumed, 1)
  /\ Discard \/ Expose \/ Reject
  /\ UNCHANGED hwOn

\* A timeout, or a dropped read.
Abandon ==
  /\ waiting
  /\ waiting' = FALSE
  /\ UNCHANGED <<phase, hwOn, spare, flight, current, initialized, discard, stats,
                 total, consumed>>

-----------------------------------------------------------------------------
(* The endpoint: transfers complete in the order of their submission.  Data   *)
(* comes while the receiver is on; a cancelled transfer also completes        *)
(* without it.                                                                *)
Complete ==
  \E i \in DOMAIN flight :
    /\ flight[i].got = "nothing"
    /\ \A j \in 1 .. i - 1 : flight[j].got # "nothing"
    /\ \E got \in {"data", "bad"} :
         /\ got = "data" => hwOn
         /\ got = "bad" => flight[i].cancelled \/ MayFail
         /\ flight' = [flight EXCEPT ![i].got = got]
    /\ UNCHANGED <<phase, hwOn, spare, current, initialized, discard, waiting,
                   stats, total, consumed>>

Next ==
  \/ Create \/ TurnOff \/ TurnOn \/ Initialize \/ InitializeFails
  \/ StopBegin \/ StopOk \/ StopErr \/ RetireQueue
  \/ ReadBegin \/ BlockUsed \/ DiscardCurrent \/ Accept \/ Abandon
  \/ Complete

Spec == Init /\ [][Next]_vars

\* While a read waits it is polled on every completion, and a receiver that is
\* on keeps filling transfers.
Fairness == WF_vars(Accept) /\ WF_vars(Complete)

FairSpec == Spec /\ Fairness

-----------------------------------------------------------------------------
TypeOK ==
  /\ phase \in {"None", "New", "NewRx", "Running", "Cleanup", "Paused"}
  /\ hwOn \in BOOLEAN
  /\ spare \in 0 .. Transfers
  /\ flight \in Seq(Transfer)
  /\ current \in Block
  /\ initialized \in BOOLEAN
  /\ discard \in Nat
  /\ waiting \in BOOLEAN
  /\ stats \in Stats
  /\ total \in Stats
  /\ consumed \in Counter

Held == IF current = "none" THEN 0 ELSE 1

\* No buffer is lost or doubled: while the queue lives, the spare buffers, the
\* transfers in flight and the current block are the whole pool (new,
\* initialize, accept, release_current).
PoolConserved == phase # "None" => spare + Len(flight) + Held = Transfers

\* What remains to be discarded is exactly what was in flight at the pause, and
\* it is what completes next (pause and accept): never a fresh submission.
DiscardsAreOldest ==
  /\ discard <= Len(flight)
  /\ \A i \in DOMAIN flight : flight[i].old <=> i <= discard

\* No block from before a stop is exposed after it: README, a restarted stream
\* consumes every submission that was pending at stop before it exposes new data.
NoOldBlock == current # "old"

\* The counters as their documentation relates them: discards on restart are a
\* subset of the drops, every completion is counted once across all queues of
\* the stream, and each is processed or dropped (or both, when an IQ read drops
\* the rest of its block).
StatsConsistent ==
  /\ CurrentStats.discarded <= CurrentStats.dropped
  /\ CurrentStats.received = consumed
  /\ CurrentStats.received <= Plus(CurrentStats.processed, CurrentStats.dropped)

\* Statistics never go back, also when a queue is retired and replaced
\* (retire_stream accumulates what close returns).
StatsNeverDecrease ==
  [][\A f \in DOMAIN stats : CurrentStats'[f] >= CurrentStats[f]]_vars

\* A waiting read comes to an end while the receiver streams, whatever has to be
\* discarded first: it gets a fresh block or an error.
ReadEnds == waiting ~> ~waiting
=============================================================================
