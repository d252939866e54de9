-------------------------- MODULE DriverRefinement --------------------------
(***************************************************************************)
(* The driver implements HardwareCustody, for any number of stream slots   *)
(* and whatever fails or is cancelled; and three properties of its steps.  *)
(* All rest on the invariant of DriverProofs.                              *)
(***************************************************************************)
EXTENDS DriverProofs

\* A stream's step of a stream that exists, or the step that creates it.
StreamSituation(s) ==
  \/ Acquire(s)
  \/ /\ claim = "Held" /\ owners \ {Handle} = {s} /\ device = "Open"
     /\ owners # {}

LEMMA StreamSituates ==
  ASSUME IInv, NEW s \in Stream, StreamNext(s)
  PROVE  StreamSituation(s)
<1>1. CASE Acquire(s)
  BY <1>1 DEF StreamSituation
<1>2. CASE pc[s] # "Free"
  BY <1>2, SoleStream DEF IInv, StreamSituation
<1>3. Acquire(s) \/ pc[s] # "Free"
  BY DEF StreamNext, StartBegin, StartPipeline, StopBegin, StartOff, StartRx, StartInit,
         StartFallback, StopOff, CancelControl, RestartForPacking, ReadBegin, ReadPoll,
         ReadOk, ReadAbandoned, ReadErr, CloseStopped, CloseBegin, CloseOff,
         CloseAbandoned, Drop, CleanupStep, CleanupOff, CleanupReady
<1> QED BY <1>1, <1>2, <1>3

\* Steps of a stream that leave the claim and the owners alone: all they change
\* outside the stream is the receiver mode.
Keeps(s) == SessionIdleExceptRx /\ hwRx' \in {hwRx, "Off", "On"}

\* Steps with which a stream lets go of its claim.
LetsGo(s) ==
  /\ \E availability \in {"Available", "CleanupRequired"} :
       /\ GiveUpClaim(s, availability)
       /\ availability = "Available" => hwRx' # "On"
  /\ hwRx' \in {hwRx, "Off"}
  /\ UNCHANGED <<device, handleVars, hwBias, reaper>>

LEMMA StreamStepKinds ==
  ASSUME IInv, NEW s \in Stream, StreamNext(s)
  PROVE  Acquire(s) \/ Keeps(s) \/ LetsGo(s)
<1> USE DEF Transfer, Settled
<1>1. CASE \/ StartBegin(s) \/ StartPipeline(s) \/ StopBegin(s)
           \/ CancelControl(s) \/ RestartForPacking(s) \/ ReadBegin(s)
           \/ ReadPoll(s) \/ ReadOk(s) \/ ReadAbandoned(s) \/ ReadErr(s)
           \/ CloseBegin(s) \/ CloseAbandoned(s) \/ Drop(s)
  BY <1>1 DEF Keeps, SessionIdle, StartBegin, StartPipeline, StopBegin, CancelControl,
         RestartForPacking, ReadBegin, ReadPoll, ReadOk, ReadAbandoned, ReadErr,
         CloseBegin, CloseAbandoned, Drop
<1>2. ASSUME NEW answer \in Answer,
             \/ StartOff(s, answer) \/ StartRx(s, answer) \/ StartInit(s, answer)
             \/ StartFallback(s, answer) \/ StopOff(s, answer)
      PROVE  Keeps(s)
  BY <1>2 DEF Keeps, SessionIdle, StartOff, StartRx, StartInit, StartFallback, StopOff
<1>3. CASE CloseStopped(s) \/ CleanupReady(s)
  <2>1. pc[s] # "Free" /\ recv[s] = "Stopped"
    BY <1>3 DEF CloseStopped, CleanupReady, IInv, Reception, StreamStage
  <2>2. owners \ {Handle} = {s} /\ claim = "Held"
    BY <2>1, SoleStream DEF IInv
  <2>3. hwRx # "On"
    BY <2>1, <2>2 DEF IInv, Reception, NoStrayReception
  <2> QED BY <1>3, <2>3 DEF LetsGo, CloseStopped, CleanupReady, Vacate, hardware
<1>4. CASE CloseOff(s)
  BY <1>4 DEF LetsGo, CloseOff, Vacate
<1>5. ASSUME NEW answer \in Answer, CleanupOff(s, answer)
      PROVE  LetsGo(s)
  BY <1>5 DEF LetsGo, CleanupOff, Vacate
<1> QED BY <1>1, <1>2, <1>3, <1>4, <1>5 DEF StreamNext, CleanupStep

-----------------------------------------------------------------------------
(* Action properties *)

LEMMA StrandedStep ==
  IInv /\ [Next]_vars =>
    (claim = "CleanupRequired" /\ claim' # claim => device' = "Closed")
<1> SUFFICES ASSUME IInv, [Next]_vars, claim = "CleanupRequired", claim' # claim
             PROVE  device' = "Closed"
  OBVIOUS
<1>1. CASE DeviceStep
  BY <1>1 DEF DeviceStep, DeviceNext, CommitUpdate, MetadataOk, MetadataErr, UpdateBegin,
     CommandOk, CommandErr, CancelApply, ShutdownBegin, CancelShutdown, ShutdownRx,
     ShutdownBias, DropHandle, SessionDropStep, SessionDrop, SessionDropRx,
     SessionDropBias, shared
<1>2. CASE \E s \in Stream : StreamNext(s)
  BY <1>2, StreamSituates DEF StreamSituation, Acquire, AcquireClaim
<1>3. CASE UNCHANGED vars
  BY <1>3 DEF vars, sessionVars
<1> QED BY <1>1, <1>2, <1>3 DEF Next, Finished

\* A stranded claim comes back only with a closed device (acquire, shutdown).
THEOREM StrandedClaimsStay == Spec => StrandedUntilClosed
BY StrandedStep, Invariance, PTL DEF Spec, StrandedUntilClosed

LEMMA TerminalStep ==
  IInv /\ [Next]_vars =>
    (device # "Open" \/ owners = {} =>
       /\ device # "Open" => device' # "Open"
       /\ hwRx' \in {hwRx, "Off"}
       /\ hwBias' \in {hwBias, "Off"})
<1> SUFFICES ASSUME IInv, [Next]_vars, device # "Open" \/ owners = {}
             PROVE  /\ device # "Open" => device' # "Open"
                    /\ hwRx' \in {hwRx, "Off"}
                    /\ hwBias' \in {hwBias, "Off"}
  OBVIOUS
<1>1. op \notin {"Metadata", "Apply"}
  BY DEF IInv, Ownership
<1>2. CASE DeviceStep
  BY <1>1, <1>2 DEF DeviceStep, DeviceNext, CommitUpdate, MetadataOk, MetadataErr,
     UpdateBegin, CommandOk, CommandErr, CancelApply, ShutdownBegin, BeginShutdown,
     CancelShutdown, ShutdownRx, ShutdownBias, DropHandle, SessionDropStep, SessionDrop,
     SessionDropRx, SessionDropBias, shared, hardware, Settled, IInv, Ownership
<1>3. CASE \E s \in Stream : StreamNext(s)
  BY <1>3, StreamSituates DEF StreamSituation, Acquire, AcquireClaim, IInv, Ownership
<1>4. CASE UNCHANGED vars
  BY <1>4 DEF vars, sessionVars
<1> QED BY <1>2, <1>3, <1>4 DEF Next, Finished

\* A shutdown that began and a final cleanup only switch things off.
THEOREM ShutdownIsTerminal == Spec => EndIsTerminal
BY TerminalStep, Invariance, PTL DEF Spec, EndIsTerminal

-----------------------------------------------------------------------------
(* Refinement *)

LEMMA InitRefines == Init => Abstract!Init
BY DEF Init, SessionInit, Abstract!Init, Custody

LEMMA StreamRefines ==
  ASSUME IInv, NEW s \in Stream, StreamNext(s)
  PROVE  [Abstract!Next]_(Abstract!vars)
<1> USE DEF Abstract!Next, Abstract!vars
<1>1. CASE Acquire(s)
  <2>1. /\ claim = "Available" /\ claim' = "Held" /\ device = "Open"
        /\ owners # {} /\ owners' # {} /\ UNCHANGED <<device, hwRx, hwBias>>
    BY <1>1 DEF Acquire, AcquireClaim, IInv, Ownership, hardware
  <2>2. Custody = "Unclaimed" /\ Custody' = "Claimed"
    BY <2>1 DEF Custody
  <2> QED BY <2>1, <2>2 DEF Abstract!Claim
<1>2. ASSUME ~Acquire(s)
      PROVE  /\ claim = "Held" /\ owners \ {Handle} = {s} /\ device = "Open"
             /\ owners # {} /\ Custody = "Claimed"
  BY <1>2, StreamSituates DEF StreamSituation, Custody
<1>3. CASE Keeps(s) /\ ~Acquire(s)
  <2>1. Custody' = Custody /\ hwBias' = hwBias
    BY <1>3 DEF Keeps, SessionIdleExceptRx, shared, Custody
  <2>2. hwRx' = hwRx \/ hwRx' \in {"On", "Off"}
    BY <1>3 DEF Keeps
  <2> QED BY <1>2, <1>3, <2>1, <2>2 DEF Abstract!Drive
<1>4. CASE LetsGo(s) /\ ~Acquire(s)
  <2>1. PICK availability \in {"Available", "CleanupRequired"} :
          /\ GiveUpClaim(s, availability)
          /\ availability = "Available" => hwRx' # "On"
    BY <1>4 DEF LetsGo
  <2>2. /\ claim' = availability /\ device' = "Open" /\ hwBias' = hwBias
        /\ hwRx' \in {hwRx, "Off"}
    BY <1>2, <1>4, <2>1 DEF LetsGo, GiveUpClaim
  <2>3. CASE owners' = {}
    <3>1. Custody' = "Abandoned"
      BY <2>2, <2>3 DEF Custody
    <3> QED BY <1>2, <1>4, <2>2, <3>1 DEF Abstract!Abandon, Abstract!OnlyOff
  <2>4. CASE owners' # {} /\ availability = "Available"
    <3>1. Custody' = "Unclaimed"
      BY <2>2, <2>4 DEF Custody
    <3> QED BY <1>2, <1>4, <2>1, <2>2, <2>4, <3>1 DEF Abstract!Release, Abstract!OnlyOff
  <2>5. CASE owners' # {} /\ availability = "CleanupRequired"
    <3>1. Custody' = "Stranded"
      BY <2>2, <2>5 DEF Custody
    <3> QED BY <1>2, <1>4, <2>2, <3>1 DEF Abstract!Strand, Abstract!OnlyOff
  <2> QED BY <2>3, <2>4, <2>5
<1> QED BY <1>1, <1>3, <1>4, StreamStepKinds

\* A step of the handle while the device is open and stays so.
LEMMA OpenRefines ==
  ASSUME IInv, DeviceNext \/ CommitUpdate,
         MetadataOk \/ UpdateBegin \/ CommandOk \/ CommitUpdate
           \/ (CommandErr /\ opened)
  PROVE  [Abstract!Next]_(Abstract!vars)
<1> USE DEF Abstract!Next, Abstract!vars, shared, hardware
<1>1. UNCHANGED <<device, claim, owners, hwRx>> /\ device = "Open" /\ owners # {}
  BY DEF MetadataOk, UpdateBegin, CommandOk, CommitUpdate, CommandErr, IInv, Ownership
<1>2. hwBias' = hwBias \/ hwBias' \in {"On", "Off"}
  BY DEF MetadataOk, UpdateBegin, CommandOk, CommitUpdate, CommandErr, AfterCommand,
         Settled
<1>3. Custody' = Custody
  BY <1>1 DEF Custody
<1>4. Custody \in {"Unclaimed", "Claimed", "Stranded"}
  BY <1>1 DEF Custody, IInv, TypeOK, SessionTypeOK
<1> QED BY <1>1, <1>2, <1>3, <1>4 DEF Abstract!Power

\* The handle starts to shut the device down, or tries again.
LEMMA BeginRefines ==
  ASSUME IInv, MetadataErr \/ (CommandErr /\ ~opened) \/ ShutdownBegin
  PROVE  [Abstract!Next]_(Abstract!vars)
<1> USE DEF Abstract!Next, Abstract!vars, shared, hardware
<1>1. /\ UNCHANGED <<claim, owners, hwRx>> /\ device' = "Closing" /\ owners # {}
      /\ claim # "Held"
  BY DEF MetadataErr, CommandErr, ShutdownBegin, BeginShutdown, IInv, Ownership
<1>2. /\ Custody' = "Ending"
      /\ device = "Open" => Custody \in {"Unclaimed", "Stranded"}
      /\ device = "Closing" => Custody = "Ending"
  BY <1>1 DEF Custody, IInv, TypeOK, SessionTypeOK
<1>3. CASE device = "Open"
  <2>1. hwBias' \in {hwBias, "On", "Off"}
    BY DEF MetadataErr, CommandErr, ShutdownBegin, AfterCommand, Settled
  <2> QED BY <1>1, <1>2, <1>3, <2>1 DEF Abstract!BeginEnd
<1>4. CASE device = "Closing"
  <2>1. hwBias' = hwBias
    BY <1>4 DEF MetadataErr, CommandErr, ShutdownBegin, IInv, Ownership
  <2> QED BY <1>1, <1>2, <1>4, <2>1
<1> QED BY <1>3, <1>4 DEF MetadataErr, CommandErr, ShutdownBegin, IInv, Ownership

\* The shutdown's own steps, finished or cancelled.
LEMMA ShutdownRefines ==
  ASSUME IInv,
         CancelShutdown \/ \E answer \in Answer : ShutdownRx(answer) \/ ShutdownBias(answer)
  PROVE  [Abstract!Next]_(Abstract!vars)
<1> USE DEF Abstract!Next, Abstract!vars, shared, hardware
<1>1. device = "Closing" /\ owners # {} /\ Custody = "Ending"
  BY DEF CancelShutdown, ShutdownRx, ShutdownBias, IInv, Ownership, Custody
<1>2. hwRx' \in {hwRx, "Off"} /\ hwBias' \in {hwBias, "Off"}
  BY DEF CancelShutdown, ShutdownRx, ShutdownBias, Settled
<1>3. CASE device' = "Closed"
  <2>1. hwRx' = "Off" /\ hwBias' = "Off"
    BY <1>1, <1>3 DEF CancelShutdown, ShutdownRx, ShutdownBias, Settled, IInv, Reception
  <2>2. Custody' = "Ended"
    BY <1>3 DEF Custody
  <2> QED BY <1>1, <1>2, <2>1, <2>2 DEF Abstract!End, Abstract!OnlyOff
<1>4. CASE device' # "Closed"
  <2>1. device' = "Closing"
    BY <1>1, <1>4 DEF CancelShutdown, ShutdownRx, ShutdownBias
  <2>2. Custody' \in {"Ending", "Abandoned"}
    BY <2>1 DEF Custody
  <2> QED BY <1>1, <1>2, <2>2 DEF Abstract!Quench, Abstract!Abandon, Abstract!OnlyOff
<1> QED BY <1>3, <1>4

\* The handle is dropped, or initialize() cancelled.
LEMMA DropRefines ==
  ASSUME IInv, DropHandle \/ CancelApply
  PROVE  [Abstract!Next]_(Abstract!vars)
<1> USE DEF Abstract!Next, Abstract!vars, shared, hardware
<1>1. UNCHANGED <<device, claim, hwRx>> /\ owners # {}
  BY DEF DropHandle, CancelApply, IInv, Ownership
<1>2. /\ hwBias' \in {hwBias, "On", "Off"}
      /\ device # "Open" => hwBias' = hwBias
  BY DEF DropHandle, CancelApply, AfterCommand, Settled, IInv, Ownership
<1>3. CASE owners' # {} \/ device = "Closed"
  <2>1. Custody' = Custody
    <3>1. device' = device /\ claim' = claim
      BY <1>1
    <3>2. claim \in {"Available", "Held", "CleanupRequired"}
      BY DEF IInv, TypeOK, SessionTypeOK
    <3>3. CASE device = "Closed"
      BY <3>1, <3>3 DEF Custody
    <3>4. CASE device # "Closed" /\ owners' # {}
      BY <1>1, <3>1, <3>2, <3>4 DEF Custody
    <3> QED BY <1>3, <3>1, <3>3, <3>4
  <2>2. device = "Open" => Custody \in {"Unclaimed", "Claimed", "Stranded"}
    BY <1>1 DEF Custody, IInv, TypeOK, SessionTypeOK
  <2> QED BY <1>1, <1>2, <2>1, <2>2 DEF Abstract!Power
<1>4. CASE owners' = {} /\ device # "Closed"
  <2>1. Custody' = "Abandoned"
    BY <1>1, <1>4 DEF Custody
  <2>2. /\ device = "Open" => Custody \in {"Unclaimed", "Claimed", "Stranded"}
        /\ device = "Closing" => Custody = "Ending"
    BY <1>1 DEF Custody, IInv, TypeOK, SessionTypeOK
  <2>3. device \in {"Open", "Closing"}
    BY <1>4 DEF IInv, TypeOK, SessionTypeOK
  <2> QED BY <1>1, <1>2, <2>1, <2>2, <2>3 DEF Abstract!Abandon, Abstract!OnlyOff
<1> QED BY <1>3, <1>4

\* The cleanup after the last owner.
LEMMA FinalRefines ==
  ASSUME IInv, SessionDropStep
  PROVE  [Abstract!Next]_(Abstract!vars)
<1> USE DEF Abstract!Next, Abstract!vars, shared, hardware
<1>1. UNCHANGED <<device, claim, owners>> /\ owners = {}
  BY DEF SessionDropStep, SessionDrop, SessionDropRx, SessionDropBias, IInv, Ownership
<1>2. hwRx' \in {hwRx, "Off"} /\ hwBias' \in {hwBias, "Off"}
  BY DEF SessionDropStep, SessionDrop, SessionDropRx, SessionDropBias, Settled
<1>3. Custody' = Custody /\ Custody \in {"Abandoned", "Ended"}
  BY <1>1 DEF Custody
<1>4. CASE Custody = "Abandoned"
  BY <1>2, <1>3, <1>4 DEF Abstract!Quench, Abstract!OnlyOff
<1>5. CASE Custody = "Ended"
  <2>1. hwRx = "Off" /\ hwBias = "Off"
    BY <1>1, <1>5 DEF Custody, IInv, Reception
  <2> QED BY <1>2, <1>3, <2>1
<1> QED BY <1>3, <1>4, <1>5

LEMMA StepRefines == IInv /\ [Next]_vars => [Abstract!Next]_(Abstract!vars)
<1> SUFFICES ASSUME IInv, [Next]_vars PROVE [Abstract!Next]_(Abstract!vars)
  OBVIOUS
<1>1. CASE DeviceStep
  BY <1>1, OpenRefines, BeginRefines, ShutdownRefines, DropRefines, FinalRefines
     DEF DeviceStep, DeviceNext
<1>2. CASE \E s \in Stream : StreamNext(s)
  BY <1>2, StreamRefines
<1>3. CASE UNCHANGED vars
  BY <1>3 DEF vars, sessionVars, Abstract!vars, Custody
<1> QED BY <1>1, <1>2, <1>3 DEF Next, Finished

\* The driver keeps what HardwareCustody promises about receiver and bias power.
THEOREM DriverImplementsCustody == Spec => ImplementsCustody
<1>1. Spec => Abstract!Init /\ [][Abstract!Next]_(Abstract!vars)
  BY InitRefines, StepRefines, Invariance, PTL DEF Spec
<1> QED BY <1>1 DEF ImplementsCustody, Abstract!Spec
-----------------------------------------------------------------------------
(* Restarts in IQ mode *)

\* A start keeps every queue that was initialized.
Decision(s) ==
  /\ queue[s].initialized => queue[s].present
  /\ pc[s] = "Decided" /\ queue[s].initialized => ~job[s].fresh

Decisions == \A s \in Stream : Decision(s)

\* Without packing, the two looks at the receive settings see no difference.
LEMMA NoPacking ==
  ASSUME Mode = "F32Iq", TypeOK, NEW s \in Stream
  PROVE  ~PackingChanged(s) /\ queue[s].settings.packing = receive.packing
<1>1. Packings = {FALSE}
  BY DEF Packings
<1>2. queue[s].settings.packing \in Packings /\ receive.packing \in Packings
  BY DEF TypeOK, SessionTypeOK, ReceiverTypeOK, Queue, Settings
<1> QED BY <1>1, <1>2 DEF PackingChanged

\* A stream's step is about its own slot.
LEMMA OtherSlots ==
  ASSUME TypeOK, NEW s \in Stream, StreamNext(s), NEW t \in Stream, t # s
  PROVE  pc'[t] = pc[t] /\ queue'[t] = queue[t] /\ job'[t] = job[t]
BY DEF TypeOK, ReceiverTypeOK, StreamNext, Acquire, StartBegin, StartPipeline, StopBegin,
       StartOff, StartRx, StartInit, StartFallback, StopOff, StartDone, CancelControl,
       RestartForPacking, ReadBegin, ReadPoll, ReadOk, ReadAbandoned, ReadErr,
       AdoptDecimation, CloseStopped, CloseBegin, CloseOff, CloseAbandoned, Drop,
       CleanupStep, CleanupOff, CleanupReady, Vacate, GoTo, SetReceiver, SetQueue, SetJob

LEMMA OwnDecision ==
  ASSUME Mode = "F32Iq", IInv, NEW s \in Stream, Decision(s), StreamNext(s)
  PROVE  /\ Decision(s)'
         /\ pc[s] = "Decided" /\ queue[s].initialized => queue'[s].initialized
<1>1. TypeOK
  BY DEF IInv
<1>2. /\ pc \in [Stream -> Phase] /\ queue \in [Stream -> Queue] /\ job \in [Stream -> Job]
      /\ queue[s] \in Queue
  BY <1>1 DEF TypeOK, ReceiverTypeOK
<1> USE DEF Decision, GoTo, SetReceiver, SetQueue, SetJob
<1>3. CASE StartBegin(s)
  <2>1. pc[s] = "Idle" /\ pc'[s] = "Decided" /\ queue' = queue
    BY <1>2, <1>3 DEF StartBegin
  <2>2. job'[s].fresh = ~(queue[s].present /\ queue[s].initialized
                            /\ queue[s].settings.packing = receive.packing)
    BY <1>2, <1>3 DEF StartBegin, NoJob
  <2> QED BY <1>1, <2>1, <2>2, NoPacking
<1>4. CASE StartPipeline(s)
  <2>1. pc[s] = "Decided" /\ pc'[s] \in {"StartOff", "StartRx"}
    BY <1>2, <1>4 DEF StartPipeline
  <2>2. CASE job[s].fresh
    BY <1>2, <1>4, <2>1, <2>2 DEF StartPipeline, NoQueue
  <2>3. CASE ~job[s].fresh
    <3>1. queue'[s] = [queue[s] EXCEPT !.settings = receive, !.seen = "Nothing"]
      BY <1>2, <1>4, <2>3 DEF StartPipeline
    <3>2. queue'[s].initialized = queue[s].initialized /\ queue'[s].present = queue[s].present
      BY <1>2, <3>1 DEF Queue
    <3> QED BY <2>1, <3>2
  <2> QED BY <2>2, <2>3
<1>5. CASE RestartForPacking(s)
  BY <1>1, <1>5, NoPacking DEF RestartForPacking
<1>6. CASE UNCHANGED queue /\ pc[s] # "Decided" /\ pc'[s] # "Decided"
  BY <1>6
<1>7. CASE queue'[s] = NoQueue /\ pc[s] # "Decided" /\ pc'[s] # "Decided"
  BY <1>7 DEF NoQueue
<1>8. /\ Acquire(s) \/ StopBegin(s) \/ CancelControl(s) \/ ReadAbandoned(s)
           \/ CloseAbandoned(s)
           => UNCHANGED queue /\ pc[s] # "Decided" /\ pc'[s] # "Decided"
  BY <1>2 DEF Acquire, StopBegin, CancelControl, ReadAbandoned, CloseAbandoned
<1>9. ReadErr(s) \/ CloseStopped(s) \/ CloseBegin(s) \/ CloseOff(s) \/ Drop(s) \/ CleanupStep(s)
        => queue'[s] = NoQueue /\ pc[s] # "Decided" /\ pc'[s] # "Decided"
  BY <1>2 DEF ReadErr, CloseStopped, CloseBegin, CloseOff, Drop, CleanupStep, CleanupOff,
         CleanupReady, Vacate
<1>10. CASE ReadBegin(s) \/ ReadPoll(s) \/ ReadOk(s)
  <2>1. pc[s] # "Decided" /\ pc'[s] # "Decided"
    BY <1>2, <1>10 DEF ReadBegin, ReadPoll, ReadOk
  <2>2. queue'[s].initialized = queue[s].initialized /\ queue'[s].present = queue[s].present
    BY <1>2, <1>10 DEF ReadBegin, ReadPoll, ReadOk, AdoptDecimation, AfterBlock, Queue
  <2> QED BY <2>1, <2>2
<1>11. ASSUME NEW answer \in Answer, StartOff(s, answer) \/ StartInit(s, answer)
       PROVE  /\ queue'[s].initialized => queue'[s].present
              /\ pc[s] # "Decided" /\ pc'[s] # "Decided"
  <2>1. CASE StartOff(s, answer)
    BY <1>2, <2>1 DEF StartOff, NewQueue, Queue
  <2>2. CASE StartInit(s, answer)
    <3>1. queue[s].present
      BY <2>2 DEF StartInit, IInv, Reception, StreamStage
    <3>2. job[s].next # "Decided"
      BY <1>2 DEF Job
    <3> QED BY <1>2, <2>2, <3>1, <3>2 DEF StartInit, StartDone, Queue
  <2> QED BY <1>11, <2>1, <2>2
<1>12. ASSUME NEW answer \in Answer,
              StartRx(s, answer) \/ StartFallback(s, answer) \/ StopOff(s, answer)
       PROVE  UNCHANGED queue /\ pc[s] # "Decided" /\ pc'[s] # "Decided"
  <2>1. job[s].next # "Decided"
    BY <1>2 DEF Job
  <2> QED BY <1>2, <1>12, <2>1 DEF StartRx, StartFallback, StopOff, StartDone
<1> QED BY <1>3, <1>4, <1>5, <1>6, <1>7, <1>8, <1>9, <1>10, <1>11, <1>12 DEF StreamNext

\* The handle's steps leave the queues as they are, but for what they remember
\* of a packing change.
LEMMA DeviceDecision ==
  ASSUME TypeOK, DeviceStep, NEW s \in Stream
  PROVE  /\ pc'[s] = pc[s] /\ job'[s] = job[s]
         /\ queue'[s].initialized = queue[s].initialized /\ queue'[s].present = queue[s].present
<1>1. queue[s] \in Queue
  BY DEF TypeOK, ReceiverTypeOK
<1>2. CASE UNCHANGED streamVars
  BY <1>2 DEF streamVars
<1>3. CASE RecordPackingChange /\ UNCHANGED <<pc, recv, job>>
  BY <1>1, <1>3 DEF RecordPackingChange, Queue
<1> QED BY <1>2, <1>3 DEF DeviceStep

\* The step of RestartKeepsQueue.
Keeping == \A s \in Stream : pc[s] = "Decided" /\ queue[s].initialized => queue'[s].initialized

LEMMA DecisionStep ==
  Mode = "F32Iq" /\ IInv /\ Decisions /\ [Next]_vars => Decisions' /\ Keeping
<1> SUFFICES ASSUME Mode = "F32Iq", IInv, Decisions, [Next]_vars PROVE Decisions' /\ Keeping
  OBVIOUS
<1>1. TypeOK
  BY DEF IInv
<1>2. CASE DeviceStep
  BY <1>1, <1>2, DeviceDecision DEF Decisions, Decision, Keeping
<1>3. ASSUME NEW s \in Stream, StreamNext(s), NEW t \in Stream
      PROVE  Decision(t)' /\ (pc[t] = "Decided" /\ queue[t].initialized => queue'[t].initialized)
  <2>1. CASE t = s
    BY <1>3, <2>1, OwnDecision DEF Decisions
  <2>2. CASE t # s
    BY <1>1, <1>3, <2>2, OtherSlots DEF Decisions, Decision
  <2> QED BY <2>1, <2>2
<1>4. CASE UNCHANGED vars
  BY <1>4 DEF vars, streamVars, Decisions, Decision, Keeping
<1> QED BY <1>2, <1>3, <1>4 DEF Next, Finished, Decisions, Keeping

\* In IQ mode a start after a stop keeps the queue, whatever the device handle
\* did to the configuration meanwhile (Receiver::start, start_pipeline).
THEOREM RestartsKeepQueue == ASSUME Mode = "F32Iq" PROVE Spec => RestartKeepsQueue
<1>1. Init => Decisions
  <2> SUFFICES ASSUME ReceiverInit, NEW s \in Stream PROVE Decision(s)
    BY DEF Init, Decisions
  <2>1. queue[s] = NoQueue /\ ~NoQueue.initialized
    BY DEF ReceiverInit, NoQueue
  <2> QED BY <2>1 DEF Decision
<1>2. Spec => [][Keeping]_vars
  <2>1. IInv /\ Decisions /\ [Next]_vars => Decisions' /\ Keeping
    BY DecisionStep
  <2> QED BY <1>1, <2>1, Invariance, PTL DEF Spec
<1> QED BY <1>2, PTL DEF RestartKeepsQueue, Keeping
=============================================================================
