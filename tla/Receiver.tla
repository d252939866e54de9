------------------------------ MODULE Receiver ------------------------------
(***************************************************************************)
(* The receive stream: its claim on the session, the receiver lifecycle,   *)
(* its transfer queue seen from outside, and every operation of RxStream   *)
(* (src/src/rx/receiver.rs, and RxStreamClaim in src/src/session.rs).      *)
(*                                                                         *)
(* A stream runs one operation at a time; pc says what it is waiting for.  *)
(* On native targets the stream and the device handle live on different    *)
(* threads, so a step of one may come between any two steps of the other,  *)
(* also where the code has no await: the two reads of the receive settings *)
(* that one start() makes are two steps here.                              *)
(***************************************************************************)
EXTENDS Session

VARIABLES
  pc,      \* what the stream of a slot is waiting for; "Free": no stream
  recv,    \* ReceiverState of the claim
  queue,   \* the stream's transfer queue, or NoQueue
  job      \* locals of the operation in progress

streamVars == <<pc, recv, queue, job>>

Starting == {"Decided", "StartOff", "StartRx", "StartInit", "StartFallback"}
CleaningUp == {"CleanupOff", "CleanupReady"}
Phase == {"Free", "Idle", "StopOff", "CloseOff", "Fill"} \cup Starting \cup CleaningUp

\* packed: the format the buffers were sized for.  seen is history, no step
\* depends on it: what happened since the queue took over its settings.  First
\* a call hands out a block of the packing the session has; after that, with the
\* queue at work and the receiver on, an update commits another packing.
Seen == {"Nothing", "Block", "PackingChange"}

Queue == [present : BOOLEAN, initialized : BOOLEAN, settings : Settings,
          packed : Packings, seen : Seen]

DefaultSettings == [packing |-> FALSE, decimation |-> 1]

NoQueue == [present |-> FALSE, initialized |-> FALSE,
            settings |-> DefaultSettings, packed |-> FALSE, seen |-> "Nothing"]

\* Queue::new sizes all its buffers for the packing of the given settings.
NewQueue(settings) == [present |-> TRUE, initialized |-> FALSE,
                       settings |-> settings, packed |-> settings.packing,
                       seen |-> "Nothing"]

\* fresh, settings: locals of start_pipeline.  next: where a successful start
\* returns to, its caller or the block call that restarts the queue.  direct:
\* a waiting read that looks at the settings again whenever it is polled.
Job == [fresh : BOOLEAN, settings : Settings, next : {"Idle", "Fill"},
        direct : BOOLEAN]

NoJob == [fresh |-> FALSE, settings |-> DefaultSettings, next |-> "Idle",
          direct |-> FALSE]

ReceiverInit ==
  /\ pc = [s \in Stream |-> "Free"]
  /\ recv = [s \in Stream |-> "Stopped"]
  /\ queue = [s \in Stream |-> NoQueue]
  /\ job = [s \in Stream |-> NoJob]

ReceiverTypeOK ==
  /\ pc \in [Stream -> Phase]
  /\ recv \in [Stream -> {"Stopped", "CleanupRequired", "Running"}]
  /\ queue \in [Stream -> Queue]
  /\ job \in [Stream -> Job]

-----------------------------------------------------------------------------
(* Helpers *)

GoTo(s, phase) == pc' = [pc EXCEPT ![s] = phase]
SetReceiver(s, state) == recv' = [recv EXCEPT ![s] = state]
SetQueue(s, q) == queue' = [queue EXCEPT ![s] = q]
SetJob(s, j) == job' = [job EXCEPT ![s] = j]

\* No change on the session's side but to the receiver mode of the hardware.
SessionIdleExceptRx ==
  UNCHANGED <<shared, receive, owners, handleVars, hwBias, reaper>>

SessionIdle == SessionIdleExceptRx /\ UNCHANGED hwRx

\* A stream's transfer that switches the receiver off or on.
Transfer(answer, mode) == hwRx' \in Settled(answer, hwRx, mode)

PackingChanged(s) ==
  /\ Mode = "RawAdc"
  /\ queue[s].present
  /\ queue[s].settings.packing # receive.packing

\* The slot is free again; its next stream starts from scratch.
Vacate(s, availability) ==
  /\ GiveUpClaim(s, availability)
  /\ GoTo(s, "Free")
  /\ SetReceiver(s, "Stopped")
  /\ SetQueue(s, NoQueue)
  /\ SetJob(s, NoJob)

\* A queue that has handed out a block works on, receiver on, while the packing
\* of its session changes.
OutrunByPacking(s) ==
  /\ hwRx = "On" /\ queue[s].present /\ queue[s].initialized
  /\ queue[s].seen = "Block" /\ receive'.packing # receive.packing

\* A committed update leaves the queues alone; only their history knows.
RecordPackingChange ==
  queue' = [s \in Stream |->
              [queue[s] EXCEPT !.seen =
                 IF OutrunByPacking(s) THEN "PackingChange" ELSE @]]

-----------------------------------------------------------------------------
(* Acquiring the stream *)

Acquire(s) ==
  /\ pc[s] = "Free"
  /\ AcquireClaim(s)
  /\ GoTo(s, "Idle")
  /\ UNCHANGED <<device, receive, handleVars, hardware, reaper, recv, queue, job>>

-----------------------------------------------------------------------------
(* start() *)

\* The whole settings are compared, not the packing alone.
StartBegin_Strict(s) ==
  /\ pc[s] = "Idle" /\ recv[s] = "Stopped"
  /\ SetReceiver(s, "CleanupRequired")
  /\ LET keep == /\ queue[s].present /\ queue[s].initialized
                 /\ queue[s].settings = receive
     IN  SetJob(s, [NoJob EXCEPT !.fresh = ~keep])
  /\ GoTo(s, "Decided")
  /\ SessionIdle /\ UNCHANGED queue

\* begin_start, and the first look at the receive settings: can the queue stay?
\* A running stream answers Ok and one that requires cleanup Busy.
StartBegin(s) ==
  /\ pc[s] = "Idle" /\ recv[s] = "Stopped"
  /\ SetReceiver(s, "CleanupRequired")
  /\ LET keep == /\ queue[s].present /\ queue[s].initialized
                 /\ queue[s].settings.packing = receive.packing
     IN  SetJob(s, [NoJob EXCEPT !.fresh = ~keep])
  /\ GoTo(s, "Decided")
  /\ SessionIdle /\ UNCHANGED queue

\* start_pipeline up to its first transfer: the second look at the settings.
StartPipeline(s) ==
  /\ pc[s] = "Decided"
  /\ SetJob(s, [job[s] EXCEPT !.settings = receive])
  /\ IF job[s].fresh
       THEN SetQueue(s, NoQueue) /\ GoTo(s, "StartOff")
       ELSE /\ SetQueue(s, [queue[s] EXCEPT !.settings = receive, !.seen = "Nothing"])
            /\ GoTo(s, "StartRx")
  /\ SessionIdle /\ UNCHANGED recv

\* A fresh start first turns the receiver off, then claims the endpoint and
\* allocates the queue; claiming may fail too.
StartOff(s, answer) ==
  /\ pc[s] = "StartOff"
  /\ Transfer(answer, "Off")
  /\ \/ /\ answer = "ok"
        /\ SetQueue(s, NewQueue(job[s].settings))
        /\ GoTo(s, "StartRx")
     \/ /\ MayFail
        /\ GoTo(s, "StartFallback")
        /\ UNCHANGED queue
  /\ SessionIdleExceptRx /\ UNCHANGED <<recv, job>>

\* The pipeline is up: the stream runs.
StartDone(s) ==
  /\ SetReceiver(s, "Running")
  /\ GoTo(s, job[s].next)
  /\ SetJob(s, NoJob)

\* The receiver-on command of a start, fresh or not.
StartRx(s, answer) ==
  /\ pc[s] = "StartRx"
  /\ Transfer(answer, "On")
  /\ \/ answer # "ok" /\ GoTo(s, "StartFallback") /\ UNCHANGED <<recv, job>>
     \/ answer = "ok" /\ job[s].fresh /\ GoTo(s, "StartInit") /\ UNCHANGED <<recv, job>>
     \/ answer = "ok" /\ ~job[s].fresh /\ StartDone(s)
  /\ SessionIdleExceptRx /\ UNCHANGED queue

\* Queue::initialize: clear the halt, then submit every buffer.
StartInit(s, answer) ==
  /\ pc[s] = "StartInit"
  /\ IF answer = "ok"
       THEN SetQueue(s, [queue[s] EXCEPT !.initialized = TRUE]) /\ StartDone(s)
       ELSE GoTo(s, "StartFallback") /\ UNCHANGED <<queue, recv, job>>
  /\ SessionIdle

\* A failed start turns the receiver off, and returns its own error whatever
\* that command answers; the stream still requires cleanup.
StartFallback(s, answer) ==
  /\ pc[s] = "StartFallback"
  /\ Transfer(answer, "Off")
  /\ GoTo(s, "Idle")
  /\ SetJob(s, NoJob)
  /\ SessionIdleExceptRx /\ UNCHANGED <<recv, queue>>

-----------------------------------------------------------------------------
(* stop() *)

\* The stream still says it runs while it is being stopped.
StopBegin_Late(s) ==
  /\ pc[s] = "Idle" /\ recv[s] # "Stopped"
  /\ GoTo(s, "StopOff")
  /\ SessionIdle /\ UNCHANGED <<recv, queue, job>>

\* A stream that may be receiving requires cleanup until the stop succeeds.
StopBegin(s) ==
  /\ pc[s] = "Idle" /\ recv[s] # "Stopped"
  /\ SetReceiver(s, "CleanupRequired")
  /\ GoTo(s, "StopOff")
  /\ SessionIdle /\ UNCHANGED <<queue, job>>

\* The answer of the command is not looked at.
StopOff_Unchecked(s, answer) ==
  /\ pc[s] = "StopOff"
  /\ Transfer(answer, "Off")
  /\ SetReceiver(s, "Stopped")
  /\ GoTo(s, "Idle")
  /\ SessionIdleExceptRx /\ UNCHANGED <<queue, job>>

\* The queue pauses only when the receiver is off.
StopOff(s, answer) ==
  /\ pc[s] = "StopOff"
  /\ Transfer(answer, "Off")
  /\ IF answer = "ok" THEN SetReceiver(s, "Stopped") ELSE UNCHANGED recv
  /\ GoTo(s, "Idle")
  /\ SessionIdleExceptRx /\ UNCHANGED <<queue, job>>

\* The future of a start, restart or stop is dropped while it waits; the stream
\* keeps the state it had before the transfer.
CancelControl(s) ==
  /\ \/ pc[s] \in {"StartOff", "StartFallback", "StopOff"}
        /\ Transfer("cancelled", "Off")
     \/ pc[s] = "StartRx" /\ Transfer("cancelled", "On")
     \/ pc[s] = "StartInit" /\ UNCHANGED hwRx
  /\ GoTo(s, "Idle")
  /\ SetJob(s, NoJob)
  /\ SessionIdleExceptRx /\ UNCHANGED <<recv, queue>>

-----------------------------------------------------------------------------
(* read() and next_block() *)

\* A raw block call that finds the packing changed recreates the queue first.
\* refresh_packing looks again; a call to which the change has been undone by
\* then is in the state that ReadBegin leads to.
RestartForPacking(s) ==
  /\ \/ pc[s] = "Idle"
     \/ pc[s] = "Fill" /\ job[s].direct
  /\ recv[s] = "Running" /\ PackingChanged(s)
  /\ SetReceiver(s, "CleanupRequired")
  /\ SetJob(s, [NoJob EXCEPT !.fresh = TRUE, !.next = "Fill"])
  /\ GoTo(s, "Decided")
  /\ SessionIdle /\ UNCHANGED queue

\* An IQ read takes over the decimation the session has now.
AdoptDecimation(s) ==
  IF Mode = "F32Iq"
    THEN SetQueue(s, [queue[s] EXCEPT !.settings.decimation = receive.decimation])
    ELSE UNCHANGED queue

\* A read begins to wait for a completion.  An awaited one is polled again and
\* then looks at the settings again; a blocking one does not.
ReadBegin(s) ==
  /\ pc[s] = "Idle"
  /\ recv[s] = "Running" /\ ~PackingChanged(s)
  /\ AdoptDecimation(s)
  /\ \E awaited \in BOOLEAN : SetJob(s, [NoJob EXCEPT !.direct = awaited])
  /\ GoTo(s, "Fill")
  /\ SessionIdle /\ UNCHANGED recv

ReadPoll(s) ==
  /\ pc[s] = "Fill" /\ job[s].direct
  /\ ~PackingChanged(s)
  /\ AdoptDecimation(s)
  /\ SessionIdle /\ UNCHANGED <<pc, recv, job>>

\* History: a block came out under the packing that the session has now.
AfterBlock(s) ==
  [queue[s] EXCEPT !.seen =
     IF @ = "Nothing" /\ ~PackingChanged(s) THEN "Block" ELSE @]

\* A usable completion is accepted: only if its length is the expected one.  A
\* call that timed out or was dropped leaves the same state.
ReadOk(s) ==
  /\ pc[s] = "Fill"
  /\ queue[s].packed = queue[s].settings.packing
  /\ SetQueue(s, AfterBlock(s))
  /\ GoTo(s, "Idle")
  /\ SetJob(s, NoJob)
  /\ SessionIdle /\ UNCHANGED recv

ReadAbandoned(s) ==
  /\ pc[s] = "Fill"
  /\ GoTo(s, "Idle")
  /\ SetJob(s, NoJob)
  /\ SessionIdle /\ UNCHANGED <<recv, queue>>

\* A failed completion, or one of the wrong length, retires the queue.
ReadErr(s) ==
  /\ pc[s] = "Fill"
  /\ MayFail \/ queue[s].packed # queue[s].settings.packing
  /\ SetQueue(s, NoQueue)
  /\ SetReceiver(s, "CleanupRequired")
  /\ GoTo(s, "Idle")
  /\ SetJob(s, NoJob)
  /\ SessionIdle

-----------------------------------------------------------------------------
(* close(), drop and cleanup *)

\* into_close_parts retires the queue; a stopped stream needs no command.
CloseStopped(s) ==
  /\ pc[s] = "Idle" /\ recv[s] = "Stopped"
  /\ Vacate(s, "Available")
  /\ UNCHANGED <<device, receive, handleVars, hardware, reaper>>

CloseBegin(s) ==
  /\ pc[s] = "Idle" /\ recv[s] # "Stopped"
  /\ SetQueue(s, NoQueue)
  /\ SetReceiver(s, "CleanupRequired")
  /\ GoTo(s, "CloseOff")
  /\ SessionIdle /\ UNCHANGED job

CloseOff(s) ==
  /\ pc[s] = "CloseOff"
  /\ Transfer("ok", "Off")
  /\ Vacate(s, "Available")
  /\ UNCHANGED <<device, receive, handleVars, hwBias, reaper>>

\* A failed or cancelled close drops the claim, which still needs cleanup.
CloseAbandoned(s) ==
  /\ pc[s] = "CloseOff"
  /\ Transfer("cancelled", "Off")
  /\ GoTo(s, "CleanupOff")
  /\ SessionIdleExceptRx /\ UNCHANGED <<recv, queue, job>>

\* The stream, or an unpolled close operation, is dropped: the queue goes first,
\* then the claim starts its cleanup.
Drop(s) ==
  /\ pc[s] = "Idle"
  /\ SetQueue(s, NoQueue)
  /\ IF recv[s] = "Stopped"
       THEN GoTo(s, "CleanupReady") /\ UNCHANGED recv
       ELSE GoTo(s, "CleanupOff") /\ SetReceiver(s, "CleanupRequired")
  /\ SessionIdle /\ UNCHANGED job

\* The owned cleanup resolves; the claim stays reserved if the receiver may
\* still be on.
CleanupOff(s, answer) ==
  /\ pc[s] = "CleanupOff"
  /\ Transfer(answer, "Off")
  /\ Vacate(s, IF answer = "ok" THEN "Available" ELSE "CleanupRequired")
  /\ UNCHANGED <<device, receive, handleVars, hwBias, reaper>>

CleanupReady(s) ==
  /\ pc[s] = "CleanupReady"
  /\ Vacate(s, "Available")
  /\ UNCHANGED <<device, receive, handleVars, hardware, reaper>>

CleanupStep(s) ==
  CleanupReady(s) \/ \E answer \in Answer : CleanupOff(s, answer)

StreamNext(s) ==
  \/ Acquire(s)
  \/ StartBegin(s) \/ StartPipeline(s)
  \/ StopBegin(s)
  \/ \E answer \in Answer :
       StartOff(s, answer) \/ StartRx(s, answer) \/ StartInit(s, answer)
         \/ StartFallback(s, answer) \/ StopOff(s, answer)
  \/ CancelControl(s)
  \/ RestartForPacking(s) \/ ReadBegin(s) \/ ReadPoll(s)
  \/ ReadOk(s) \/ ReadAbandoned(s) \/ ReadErr(s)
  \/ CloseStopped(s) \/ CloseBegin(s) \/ CloseOff(s) \/ CloseAbandoned(s)
  \/ Drop(s)
  \/ CleanupStep(s)
=============================================================================
