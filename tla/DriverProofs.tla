---------------------------- MODULE DriverProofs ----------------------------
(***************************************************************************)
(* Theorems about the driver, for any number of stream slots, both sample  *)
(* modes, and with failing transfers or without.                           *)
(*                                                                         *)
(* None of the safety properties of Driver is inductive: what the claim    *)
(* says about the hardware depends on how far the operations of the handle *)
(* and of the stream have come.  IInv adds that, in two parts: who owns    *)
(* what (Ownership), and what each stage of an operation knows about the   *)
(* receiver (Reception).  The types come first.                            *)
(***************************************************************************)
EXTENDS Driver, TLAPS

(* Types *)
\* The updates a handle can ask for are updates.
LEMMA UpdatesType ==
  ASSUME config \in Config, receive \in Settings
  PROVE  Updates \subseteq Update
<1>1. Setup \in Command /\ \A on \in BOOLEAN : SetBias(on) \in Command
  BY DEF SetBias, Setup, Command
<1>2. \A c \in Config : Configure(c) \in Update
  <2> SUFFICES ASSUME NEW c \in Config PROVE Configure(c) \in Update
    OBVIOUS
  <2>1. <<Setup, Setup, SetBias(c.bias)>> \in Seq(Command)
    BY <1>1 DEF Config
  <2> QED BY <2>1 DEF Configure, Update, Config
<1>3. \A on \in BOOLEAN : SetBiasTee(on) \in Update
  <2> SUFFICES ASSUME NEW on \in BOOLEAN PROVE SetBiasTee(on) \in Update
    OBVIOUS
  <2>1. <<SetBias(on)>> \in Seq(Command)
    BY <1>1
  <2>2. [config EXCEPT !.bias = on] \in Config
    BY DEF Config
  <2> QED BY <2>1, <2>2 DEF SetBiasTee, Update
<1>4. <<Setup>> \in Seq(Command)
  BY <1>1
<1>5. SetRegister \in Update
  BY <1>4 DEF SetRegister, Update
<1>6. \A p \in Packings : SetPacking(p) \in Update
  <2> SUFFICES ASSUME NEW p \in Packings PROVE SetPacking(p) \in Update
    OBVIOUS
  <2>1. [receive EXCEPT !.packing = p] \in Settings
    BY DEF Settings
  <2>2. [config EXCEPT !.receive.packing = p] \in Config
    BY DEF Config, Settings
  <2> QED BY <1>4, <2>1, <2>2 DEF SetPacking, Update
<1>7. \A n \in Decimations : UpdateRate(n) \in Update
  <2> SUFFICES ASSUME NEW n \in Decimations PROVE UpdateRate(n) \in Update
    OBVIOUS
  <2>1. [receive EXCEPT !.decimation = n] \in Settings
    BY DEF Settings
  <2>2. [config EXCEPT !.receive.decimation = n] \in Config
    BY DEF Config, Settings
  <2> QED BY <1>4, <2>1, <2>2 DEF UpdateRate, Update
<1> QED BY <1>2, <1>3, <1>5, <1>6, <1>7 DEF Updates

LEMMA NoUpdateType ==
  ASSUME NEW c \in Config
  PROVE  NoUpdate(c) \in Update
<1>1. <<>> \in Seq(Command)
  OBVIOUS
<1> QED BY <1>1 DEF NoUpdate, Update

\* A bias register stays a switch whatever a command did to it.
LEMMA AfterCommandType ==
  ASSUME hwBias \in Switch, update \in Update, update.commands # <<>>,
         NEW answer, NEW value \in AfterCommand(answer, Head(update.commands))
  PROVE  value \in Switch
BY DEF AfterCommand, Settled, Switch

LEMMA SettledType ==
  ASSUME NEW old \in Switch, NEW new \in Switch, NEW answer,
         NEW value \in Settled(answer, old, new)
  PROVE  value \in Switch
BY DEF Settled

LEMMA SettingsType == DefaultSettings \in Settings /\ FALSE \in Packings /\ 1 \in Decimations
BY DecimationAssumption DEF DefaultSettings, Settings, Packings

LEMMA InitType == Init => TypeOK
<1> SUFFICES ASSUME Init PROVE TypeOK
  OBVIOUS
<1>1. SessionTypeOK
  <2>1. receive \in Settings
    BY SettingsType DEF Init, SessionInit, Settings
  <2>2. config \in Config
    BY DEF Init, SessionInit
  <2>3. update \in Update
    BY UpdatesType, <2>1, <2>2 DEF Init, SessionInit, Updates
  <2> QED BY <2>1, <2>2, <2>3 DEF Init, SessionInit, SessionTypeOK, Switch
<1>2. ReceiverTypeOK
  BY SettingsType DEF Init, ReceiverInit, ReceiverTypeOK, NoQueue, Queue, Seen, NoJob, Job, Phase
<1> QED BY <1>1, <1>2 DEF TypeOK

\* The device side, but for the commit.
LEMMA DeviceType ==
  ASSUME SessionTypeOK, DeviceNext
  PROVE  SessionTypeOK'
<1> USE DEF SessionTypeOK, shared, hardware, handleVars
<1>0. "Off" \in Switch /\ "On" \in Switch
  BY DEF Switch
<1>1. CASE MetadataOk
  BY <1>1 DEF MetadataOk
<1>2. CASE MetadataErr
  BY <1>2, NoUpdateType DEF MetadataErr, BeginShutdown
<1>3. CASE UpdateBegin
  BY <1>3, UpdatesType DEF UpdateBegin
<1>4. CASE CommandOk
  <2>1. hwBias' \in Switch
    BY <1>4, AfterCommandType DEF CommandOk
  <2>2. Tail(update.commands) \in Seq(Command)
    BY <1>4 DEF CommandOk, Update
  <2>3. update' \in Update
    BY <1>4, <2>2 DEF CommandOk, Update
  <2> QED BY <1>4, <2>1, <2>3 DEF CommandOk
<1>5. CASE CommandErr
  <2>1. hwBias' \in Switch
    BY <1>5, AfterCommandType DEF CommandErr
  <2> QED BY <1>5, <2>1, NoUpdateType DEF CommandErr, BeginShutdown
<1>6. CASE CancelApply
  <2>1. hwBias' \in Switch
    <3>1. CASE op = "Apply" /\ update.commands # <<>>
      BY <1>6, <3>1, AfterCommandType DEF CancelApply
    <3>2. CASE ~(op = "Apply" /\ update.commands # <<>>)
      BY <1>6, <3>2 DEF CancelApply
    <3> QED BY <3>1, <3>2
  <2> QED BY <1>6, <2>1, NoUpdateType DEF CancelApply, Return
<1>7. CASE ShutdownBegin
  BY <1>7 DEF ShutdownBegin, BeginShutdown
<1>8. CASE CancelShutdown
  BY <1>0, <1>8, SettledType DEF CancelShutdown, Return
<1>9. CASE \E answer \in Answer : ShutdownRx(answer) \/ ShutdownBias(answer)
  <2> PICK answer \in Answer : ShutdownRx(answer) \/ ShutdownBias(answer)
    BY <1>9
  <2>1. CASE ShutdownRx(answer)
    <3>1. hwRx' \in Switch
      BY <2>1, <1>0, SettledType DEF ShutdownRx
    <3> QED BY <2>1, <3>1 DEF ShutdownRx
  <2>2. CASE ShutdownBias(answer)
    <3>1. hwBias' \in Switch
      BY <2>2, <1>0, SettledType DEF ShutdownBias
    <3> QED BY <2>2, <3>1 DEF ShutdownBias, Return
  <2> QED BY <2>1, <2>2
<1>10. CASE DropHandle
  BY <1>10 DEF DropHandle
<1>11. CASE SessionDropStep
  <2>1. CASE SessionDrop
    BY <2>1 DEF SessionDrop
  <2>2. CASE \E answer \in Answer : SessionDropRx(answer) \/ SessionDropBias(answer)
    BY <2>2, <1>0, SettledType DEF SessionDropRx, SessionDropBias
  <2> QED BY <1>11, <2>1, <2>2 DEF SessionDropStep
<1> QED BY <1>1, <1>2, <1>3, <1>4, <1>5, <1>6, <1>7, <1>8, <1>9, <1>10, <1>11
        DEF DeviceNext

LEMMA CommitType ==
  ASSUME TypeOK, CommitUpdate, RecordPackingChange, UNCHANGED <<pc, recv, job>>
  PROVE  TypeOK'
<1> USE DEF TypeOK
<1>1. receive' \in Settings
  BY DEF CommitUpdate, SessionTypeOK, Update
<1>2. config' \in Config
  BY DEF CommitUpdate, SessionTypeOK, Update
<1>3. update' \in Update
  BY <1>2, NoUpdateType DEF CommitUpdate
<1>4. SessionTypeOK'
  BY <1>1, <1>2, <1>3 DEF CommitUpdate, SessionTypeOK, shared, hardware
<1>5. queue' \in [Stream -> Queue]
  BY DEF RecordPackingChange, ReceiverTypeOK, Queue, Seen
<1>6. ReceiverTypeOK'
  BY <1>5 DEF ReceiverTypeOK
<1> QED BY <1>4, <1>6

\* What a stream's step may do to the session's variables keeps their types.
LEMMA SessionIdleType ==
  ASSUME SessionTypeOK, SessionIdleExceptRx, hwRx' \in Switch
  PROVE  SessionTypeOK'
BY DEF SessionTypeOK, SessionIdleExceptRx, shared, handleVars

LEMMA VacateType ==
  ASSUME TypeOK, NEW s \in Stream,
         NEW availability \in {"Available", "CleanupRequired"},
         Vacate(s, availability), hwRx' \in Switch,
         UNCHANGED <<device, receive, handleVars, hwBias, reaper>>
  PROVE  TypeOK'
<1> USE DEF TypeOK
<1>1. SessionTypeOK'
  BY DEF SessionTypeOK, Vacate, GiveUpClaim, handleVars
<1>2. NoQueue \in Queue /\ NoJob \in Job
  BY SettingsType DEF NoQueue, Queue, Seen, NoJob, Job
<1>3. ReceiverTypeOK'
  BY <1>2 DEF ReceiverTypeOK, Vacate, GoTo, SetReceiver, SetQueue, SetJob, Phase
<1> QED BY <1>1, <1>3

\* One stream's step; the leaves differ in the stream variables they assign.
LEMMA StreamType ==
  ASSUME TypeOK, NEW s \in Stream, StreamNext(s)
  PROVE  TypeOK'
<1> USE DEF TypeOK
<1>1. /\ "Off" \in Switch /\ "On" \in Switch
      /\ hwRx \in Switch /\ receive \in Settings
  BY DEF Switch, SessionTypeOK
<1>2. NoQueue \in Queue /\ NoJob \in Job
  BY SettingsType DEF NoQueue, Queue, Seen, NoJob, Job
<1>3. ASSUME NEW answer, NEW mode \in {"Off", "On"}, Transfer(answer, mode)
      PROVE  hwRx' \in Switch
  BY <1>1, <1>3, SettledType DEF Transfer
<1>4. ASSUME SessionIdle PROVE SessionTypeOK'
  BY <1>1, <1>4, SessionIdleType DEF SessionIdle
<1> USE DEF GoTo, SetReceiver, SetQueue, SetJob
<1>5. CASE Acquire(s)
  BY <1>5 DEF Acquire, AcquireClaim, SessionTypeOK, ReceiverTypeOK, Phase,
              handleVars, hardware
<1>6. CASE StartBegin(s)
  <2>1. ReceiverTypeOK'
    BY <1>2, <1>6 DEF StartBegin, ReceiverTypeOK, Phase, Starting, Job
  <2> QED BY <1>4, <1>6, <2>1 DEF StartBegin
<1>7. CASE StartPipeline(s)
  <2>1. /\ [job[s] EXCEPT !.settings = receive] \in Job
        /\ [queue[s] EXCEPT !.settings = receive, !.seen = "Nothing"] \in Queue
    BY <1>1 DEF ReceiverTypeOK, Job, Queue, Seen
  <2>2. ReceiverTypeOK'
    BY <1>2, <1>7, <2>1 DEF StartPipeline, ReceiverTypeOK, Phase, Starting
  <2> QED BY <1>4, <1>7, <2>2 DEF StartPipeline
<1>8. CASE StopBegin(s)
  <2>1. ReceiverTypeOK'
    BY <1>8 DEF StopBegin, ReceiverTypeOK, Phase
  <2> QED BY <1>4, <1>8, <2>1 DEF StopBegin
<1>9. ASSUME NEW answer \in Answer, StartOff(s, answer) PROVE TypeOK'
  <2>1. NewQueue(job[s].settings) \in Queue
    BY DEF NewQueue, Queue, Seen, ReceiverTypeOK, Job, Settings
  <2>2. ReceiverTypeOK'
    BY <1>9, <2>1 DEF StartOff, ReceiverTypeOK, Phase, Starting
  <2> QED BY <1>3, <1>9, <2>2, SessionIdleType DEF StartOff
<1>done. ASSUME StartDone(s)
       PROVE  /\ pc' \in [Stream -> Phase] /\ job' \in [Stream -> Job]
              /\ recv' \in [Stream -> {"Stopped", "CleanupRequired", "Running"}]
  <2>1. job[s].next \in Phase
    BY DEF ReceiverTypeOK, Job, Phase
  <2> QED BY <1>2, <1>done, <2>1 DEF StartDone, ReceiverTypeOK
<1>phases. {"StartInit", "StartFallback"} \subseteq Phase
  BY DEF Phase, Starting
<1>10. ASSUME NEW answer \in Answer, StartRx(s, answer) PROVE TypeOK'
  <2>1. ReceiverTypeOK'
    BY <1>10, <1>done, <1>phases DEF StartRx, ReceiverTypeOK
  <2> QED BY <1>3, <1>10, <2>1, SessionIdleType DEF StartRx
<1>11. ASSUME NEW answer \in Answer, StartInit(s, answer) PROVE TypeOK'
  <2>1. [queue[s] EXCEPT !.initialized = TRUE] \in Queue
    BY DEF ReceiverTypeOK, Queue
  <2>2. ReceiverTypeOK'
    BY <1>11, <1>done, <1>phases, <2>1 DEF StartInit, ReceiverTypeOK
  <2> QED BY <1>4, <1>11, <2>2 DEF StartInit
<1>12. ASSUME NEW answer \in Answer, StartFallback(s, answer) PROVE TypeOK'
  <2>1. ReceiverTypeOK'
    BY <1>2, <1>12 DEF StartFallback, ReceiverTypeOK, Phase
  <2> QED BY <1>3, <1>12, <2>1, SessionIdleType DEF StartFallback
<1>13. ASSUME NEW answer \in Answer, StopOff(s, answer) PROVE TypeOK'
  <2>1. ReceiverTypeOK'
    BY <1>13 DEF StopOff, ReceiverTypeOK, Phase
  <2> QED BY <1>3, <1>13, <2>1, SessionIdleType DEF StopOff
<1>14. CASE CancelControl(s)
  <2>1. hwRx' \in Switch
    BY <1>1, <1>3, <1>14 DEF CancelControl
  <2>2. ReceiverTypeOK'
    BY <1>2, <1>14 DEF CancelControl, ReceiverTypeOK, Phase
  <2> QED BY <1>14, <2>1, <2>2, SessionIdleType DEF CancelControl
<1>15. CASE RestartForPacking(s)
  <2>1. [NoJob EXCEPT !.fresh = TRUE, !.next = "Fill"] \in Job
    BY <1>2 DEF Job
  <2>2. ReceiverTypeOK'
    BY <1>15, <2>1 DEF RestartForPacking, ReceiverTypeOK, Phase, Starting
  <2> QED BY <1>4, <1>15, <2>2 DEF RestartForPacking
<1>16. ASSUME AdoptDecimation(s) PROVE queue' \in [Stream -> Queue]
  <2>1. [queue[s] EXCEPT !.settings.decimation = receive.decimation] \in Queue
    BY <1>1 DEF ReceiverTypeOK, Queue, Settings
  <2> QED BY <1>16, <2>1 DEF AdoptDecimation, ReceiverTypeOK
<1>17. CASE ReadBegin(s)
  <2>1. \A awaited \in BOOLEAN : [NoJob EXCEPT !.direct = awaited] \in Job
    BY <1>2 DEF Job
  <2>2. ReceiverTypeOK'
    BY <1>16, <1>17, <2>1 DEF ReadBegin, ReceiverTypeOK, Phase
  <2> QED BY <1>4, <1>17, <2>2 DEF ReadBegin
<1>18. CASE ReadPoll(s)
  <2>1. ReceiverTypeOK'
    BY <1>16, <1>18 DEF ReadPoll, ReceiverTypeOK
  <2> QED BY <1>4, <1>18, <2>1 DEF ReadPoll
<1>19. CASE ReadOk(s) \/ ReadAbandoned(s) \/ ReadErr(s)
  <2>1. AfterBlock(s) \in Queue
    BY DEF AfterBlock, ReceiverTypeOK, Queue, Seen
  <2>2. ReceiverTypeOK'
    BY <1>2, <1>19, <2>1 DEF ReadOk, ReadAbandoned, ReadErr, ReceiverTypeOK, Phase
  <2> QED BY <1>4, <1>19, <2>2 DEF ReadOk, ReadAbandoned, ReadErr
<1>20. CASE CloseStopped(s)
  BY <1>1, <1>20, VacateType DEF CloseStopped, hardware
<1>21. CASE CloseBegin(s)
  <2>1. ReceiverTypeOK'
    BY <1>2, <1>21 DEF CloseBegin, ReceiverTypeOK, Phase
  <2> QED BY <1>4, <1>21, <2>1 DEF CloseBegin
<1>22. CASE CloseOff(s)
  BY <1>3, <1>22, VacateType DEF CloseOff
<1>23. CASE CloseAbandoned(s)
  <2>1. ReceiverTypeOK'
    BY <1>23 DEF CloseAbandoned, ReceiverTypeOK, Phase, CleaningUp
  <2> QED BY <1>3, <1>23, <2>1, SessionIdleType DEF CloseAbandoned
<1>24. CASE Drop(s)
  <2>1. ReceiverTypeOK'
    BY <1>2, <1>24 DEF Drop, ReceiverTypeOK, Phase, CleaningUp
  <2> QED BY <1>4, <1>24, <2>1 DEF Drop
<1>25. CASE CleanupReady(s)
  BY <1>1, <1>25, VacateType DEF CleanupReady, hardware
<1>26. ASSUME NEW answer \in Answer, CleanupOff(s, answer) PROVE TypeOK'
  BY <1>3, <1>26, VacateType DEF CleanupOff
<1> QED
  BY <1>5, <1>6, <1>7, <1>8, <1>9, <1>10, <1>11, <1>12, <1>13, <1>14, <1>15, <1>17,
     <1>18, <1>19, <1>20, <1>21, <1>22, <1>23, <1>24, <1>25, <1>26
  DEF StreamNext, CleanupStep

\* Every step keeps the types.
LEMMA NextType == TypeOK /\ [Next]_vars => TypeOK'
<1> SUFFICES ASSUME TypeOK, [Next]_vars PROVE TypeOK'
  OBVIOUS
<1>1. CASE DeviceStep
  <2>1. CASE DeviceNext /\ UNCHANGED streamVars
    BY <2>1, DeviceType DEF TypeOK, ReceiverTypeOK, streamVars
  <2>2. CASE CommitUpdate /\ RecordPackingChange /\ UNCHANGED <<pc, recv, job>>
    BY <2>2, CommitType
  <2> QED BY <1>1, <2>1, <2>2 DEF DeviceStep
<1>2. CASE \E s \in Stream : StreamNext(s)
  BY <1>2, StreamType
<1>3. CASE UNCHANGED vars
  BY <1>3 DEF vars, sessionVars, streamVars, TypeOK, SessionTypeOK, ReceiverTypeOK
<1> QED BY <1>1, <1>2, <1>3 DEF Next, Finished

\* TypeOK is an invariant: session.rs and receiver.rs keep every part of the
\* shared state, of the handle and of each stream within its type.
THEOREM TypeCorrect == Spec => []TypeOK
BY InitType, NextType, PTL DEF Spec

-----------------------------------------------------------------------------
(* The invariant *)

\* Who holds the session and the claim, and what the handle may be waiting for.
Ownership ==
  /\ \A s \in Stream : pc[s] = "Free" <=> s \notin owners
  /\ op = "Dropped" <=> Handle \notin owners
  /\ claim = "Held" => \E s \in Stream : owners \ {Handle} = {s}
  /\ claim # "Held" => owners \ {Handle} = {}
  /\ device # "Open" => claim # "Held"
  /\ op \in {"Metadata", "Apply"} => device = "Open"
  /\ op \in {"ShutdownRx", "ShutdownBias"} => device = "Closing"
  /\ ~opened => claim = "Available" /\ op # "Idle"
  /\ opened => op # "Metadata"
  /\ reaper # "Alive" => owners = {}

\* The stages of a stream's operation that leave its receiver in doubt.
Doubtful == Starting \cup {"StopOff", "CloseOff", "CleanupOff"}

\* What a stream knows about its receiver and its queue at every stage.
StreamStage(s) ==
  /\ pc[s] \in {"Free", "CleanupReady"} => recv[s] = "Stopped"
  /\ pc[s] \in Doubtful => recv[s] = "CleanupRequired"
  /\ pc[s] = "Fill" => recv[s] = "Running"
  /\ pc[s] \in {"Decided", "StartRx"} /\ ~job[s].fresh =>
       queue[s].present /\ queue[s].initialized
  /\ pc[s] = "StartOff" => job[s].fresh
  /\ pc[s] \in {"StartRx", "StartInit"} => queue[s].present
  /\ pc[s] = "StartInit" => hwRx = "On"
  /\ recv[s] = "Running" => hwRx = "On" /\ queue[s].present /\ queue[s].initialized

Reception ==
  /\ \A s \in Stream : StreamStage(s)
  /\ op = "ShutdownBias" /\ rxOff => hwRx = "Off"
  /\ NoStrayReception
  /\ device = "Closed" => hwRx = "Off" /\ hwBias = "Off" /\ claim = "Available"

IInv == TypeOK /\ Ownership /\ Reception

-----------------------------------------------------------------------------
(* Ownership *)

\* A stream's step that leaves the session alone, and its slot occupied.
LEMMA OwnershipKept ==
  ASSUME TypeOK, Ownership, NEW s \in Stream, SessionIdleExceptRx,
         pc[s] # "Free",
         pc' = pc \/ \E phase \in Phase \ {"Free"} : GoTo(s, phase)
  PROVE  Ownership'
<1>1. \A t \in Stream : pc'[t] = "Free" <=> pc[t] = "Free"
  BY DEF TypeOK, ReceiverTypeOK, GoTo
<1> QED BY <1>1 DEF Ownership, SessionIdleExceptRx, shared, handleVars

\* A stream that exists is the one owner beside the handle.
LEMMA SoleStream ==
  ASSUME TypeOK, Ownership, NEW s \in Stream, pc[s] # "Free"
  PROVE  claim = "Held" /\ owners \ {Handle} = {s} /\ device = "Open" /\ opened
<1>1. s \in owners \ {Handle}
  BY HandleAssumption DEF Ownership
<1>2. claim = "Held"
  BY <1>1 DEF Ownership
<1> QED BY <1>1, <1>2 DEF Ownership, TypeOK, SessionTypeOK

LEMMA VacateOwnership ==
  ASSUME TypeOK, Ownership, NEW s \in Stream, pc[s] # "Free",
         NEW availability \in {"Available", "CleanupRequired"},
         Vacate(s, availability), UNCHANGED <<device, handleVars, reaper>>
  PROVE  Ownership'
<1>1. claim = "Held" /\ owners \ {Handle} = {s} /\ device = "Open" /\ opened
  BY SoleStream
<1>2. owners' \ {Handle} = {} /\ (Handle \in owners' <=> Handle \in owners)
  BY <1>1, HandleAssumption DEF Vacate, GiveUpClaim
<1>3. \A t \in Stream : pc'[t] = "Free" <=> t \notin owners'
  BY <1>1 DEF Ownership, TypeOK, ReceiverTypeOK, Vacate, GiveUpClaim, GoTo
<1> QED BY <1>1, <1>2, <1>3
        DEF Ownership, Vacate, GiveUpClaim, handleVars, TypeOK, SessionTypeOK

LEMMA AcquireOwnership ==
  ASSUME TypeOK, Ownership, NEW s \in Stream, Acquire(s)
  PROVE  Ownership'
<1>1. owners \ {Handle} = {} /\ opened
  BY DEF Ownership, Acquire, AcquireClaim
<1>2. owners' \ {Handle} = {s} /\ (Handle \in owners' <=> Handle \in owners)
  BY <1>1, HandleAssumption DEF Acquire, AcquireClaim
<1>3. \A t \in Stream : pc'[t] = "Free" <=> t \notin owners'
  BY <1>1 DEF Ownership, TypeOK, ReceiverTypeOK, Acquire, AcquireClaim, GoTo
<1> QED BY <1>1, <1>2, <1>3
        DEF Ownership, Acquire, AcquireClaim, handleVars, hardware

LEMMA StreamOwnership ==
  ASSUME TypeOK, Ownership, NEW s \in Stream, StreamNext(s)
  PROVE  Ownership'
<1>1. CASE Acquire(s)
  BY <1>1, AcquireOwnership
<1>2. CASE CloseStopped(s) \/ CloseOff(s) \/ CleanupReady(s)
  BY <1>2, VacateOwnership DEF CloseStopped, CloseOff, CleanupReady
<1>3. CASE \E answer \in Answer : CleanupOff(s, answer)
  BY <1>3, VacateOwnership DEF CleanupOff
<1>4. CASE \/ StartBegin(s) \/ StartPipeline(s) \/ StopBegin(s)
           \/ CancelControl(s) \/ RestartForPacking(s) \/ ReadBegin(s)
           \/ ReadPoll(s) \/ ReadOk(s) \/ ReadAbandoned(s) \/ ReadErr(s)
           \/ CloseBegin(s) \/ CloseAbandoned(s) \/ Drop(s)
  <2>1. SessionIdleExceptRx /\ pc[s] # "Free"
    BY <1>4 DEF SessionIdle, StartBegin, StartPipeline, StopBegin, CancelControl,
         RestartForPacking, ReadBegin, ReadPoll, ReadOk, ReadAbandoned, ReadErr,
         CloseBegin, CloseAbandoned, Drop
  <2>2. pc' = pc \/ \E phase \in Phase \ {"Free"} : GoTo(s, phase)
    BY <1>4 DEF StartBegin, StartPipeline, StopBegin, CancelControl,
         RestartForPacking, ReadBegin, ReadPoll, ReadOk, ReadAbandoned, ReadErr,
         CloseBegin, CloseAbandoned, Drop, Phase, Starting, CleaningUp
  <2> QED BY <2>1, <2>2, OwnershipKept
<1>5. ASSUME NEW answer \in Answer,
             \/ StartOff(s, answer) \/ StartRx(s, answer) \/ StartInit(s, answer)
             \/ StartFallback(s, answer) \/ StopOff(s, answer)
      PROVE  Ownership'
  <2>1. SessionIdleExceptRx /\ pc[s] # "Free"
    BY <1>5 DEF SessionIdle, StartOff, StartRx, StartInit, StartFallback, StopOff
  <2>2. job[s].next \in Phase \ {"Free"}
    BY DEF TypeOK, ReceiverTypeOK, Job, Phase
  <2>3. \E phase \in Phase \ {"Free"} : GoTo(s, phase)
    BY <1>5, <2>2 DEF StartOff, StartRx, StartInit, StartFallback, StopOff, StartDone,
         Phase, Starting
  <2> QED BY <2>1, <2>3, OwnershipKept
<1> QED BY <1>1, <1>2, <1>3, <1>4, <1>5 DEF StreamNext, CleanupStep

\* The handle's operations: each conjunct follows from the phase of the handle.
LEMMA DeviceOwnership ==
  ASSUME TypeOK, Ownership, DeviceNext \/ CommitUpdate, UNCHANGED pc
  PROVE  Ownership'
<1> USE DEF Ownership, TypeOK, SessionTypeOK, shared, hardware, handleVars
<1>1. CASE MetadataOk
  BY <1>1 DEF MetadataOk
<1>2. CASE MetadataErr
  BY <1>2 DEF MetadataErr, BeginShutdown
<1>3. CASE UpdateBegin
  BY <1>3 DEF UpdateBegin
<1>4. CASE CommandOk
  BY <1>4 DEF CommandOk
<1>5. CASE CommandErr
  BY <1>5 DEF CommandErr, BeginShutdown
<1>6. CASE CommitUpdate
  BY <1>6 DEF CommitUpdate
<1>7. CASE ShutdownBegin
  BY <1>7 DEF ShutdownBegin, BeginShutdown
<1>8. ASSUME Return,
             \/ CancelApply \/ CancelShutdown
             \/ \E answer \in Answer : ShutdownBias(answer)
      PROVE  Ownership'
  <2>1. /\ owners' \ {Handle} = owners \ {Handle}
        /\ \A s \in Stream : s \in owners' <=> s \in owners
        /\ op' = "Dropped" <=> Handle \notin owners'
        /\ reaper = "Alive"
    BY <1>8, HandleAssumption DEF Return, CancelApply, CancelShutdown, ShutdownBias
  <2>2. /\ (op' = "Idle" /\ opened) \/ (op' = "Dropped" /\ ~opened)
        /\ UNCHANGED <<opened, reaper>>
    BY <1>8 DEF Return, CancelApply, CancelShutdown, ShutdownBias
  <2>3. \/ UNCHANGED <<device, claim>>
        \/ device' = "Closed" /\ claim' = "Available" /\ claim # "Held"
    BY <1>8 DEF CancelApply, CancelShutdown, ShutdownBias
  <2> QED BY <2>1, <2>2, <2>3
<1>9. CASE CancelApply \/ CancelShutdown \/ \E answer \in Answer : ShutdownBias(answer)
  BY <1>8, <1>9 DEF CancelApply, CancelShutdown, ShutdownBias
<1>10. CASE \E answer \in Answer : ShutdownRx(answer)
  BY <1>10 DEF ShutdownRx
<1>11. CASE DropHandle
  <2>1. /\ owners' \ {Handle} = owners \ {Handle}
        /\ \A s \in Stream : s \in owners' <=> s \in owners
    BY <1>11, HandleAssumption DEF DropHandle
  <2> QED BY <1>11, <2>1 DEF DropHandle
<1>12. CASE SessionDropStep
  BY <1>12 DEF SessionDropStep, SessionDrop, SessionDropRx, SessionDropBias
<1> QED BY <1>1, <1>2, <1>3, <1>4, <1>5, <1>6, <1>7, <1>9, <1>10, <1>11, <1>12
        DEF DeviceNext

LEMMA OwnershipStep == TypeOK /\ Ownership /\ [Next]_vars => Ownership'
<1> SUFFICES ASSUME TypeOK, Ownership, [Next]_vars PROVE Ownership'
  OBVIOUS
<1>1. CASE DeviceStep
  BY <1>1, DeviceOwnership DEF DeviceStep, streamVars
<1>2. CASE \E s \in Stream : StreamNext(s)
  BY <1>2, StreamOwnership
<1>3. CASE UNCHANGED vars
  BY <1>3 DEF vars, sessionVars, streamVars, Ownership
<1> QED BY <1>1, <1>2, <1>3 DEF Next, Finished

-----------------------------------------------------------------------------
(* Reception *)

\* While a stream exists, it alone accounts for the receiver: its own stage
\* is all there is to show after one of its steps.
LEMMA StageSuffices ==
  ASSUME IInv, NEW s \in Stream, pc[s] # "Free", SessionIdleExceptRx,
         \A t \in Stream \ {s} :
           pc'[t] = pc[t] /\ recv'[t] = recv[t] /\ queue'[t] = queue[t] /\ job'[t] = job[t],
         StreamStage(s)',
         hwRx' = "On" => recv'[s] # "Stopped"
  PROVE  Reception'
<1>1. claim = "Held" /\ owners \ {Handle} = {s} /\ device = "Open" /\ opened
  BY SoleStream DEF IInv
<1>2. \A t \in Stream \ {s} : pc[t] = "Free"
  BY <1>1, HandleAssumption DEF IInv, Ownership
<1>3. \A t \in Stream \ {s} : StreamStage(t)'
  BY <1>2 DEF IInv, Reception, StreamStage, Doubtful, Starting
<1>4. NoStrayReception'
  BY <1>1 DEF NoStrayReception, SessionIdleExceptRx
<1>5. (op = "ShutdownBias") = FALSE
  BY <1>1 DEF IInv, Ownership
<1> QED BY <1>1, <1>3, <1>4, <1>5
        DEF Reception, SessionIdleExceptRx, shared, handleVars

\* Outcomes of a receiver-off command.
LEMMA TransferOff ==
  ASSUME NEW answer, Transfer(answer, "Off")
  PROVE  (hwRx' = hwRx \/ hwRx' = "Off") /\ (answer = "ok" => hwRx' = "Off")
BY DEF Transfer, Settled

LEMMA TransferOn ==
  ASSUME Transfer("ok", "On")
  PROVE  hwRx' = "On"
BY DEF Transfer, Settled

LEMMA StartReception ==
  ASSUME IInv, NEW s \in Stream,
         \/ StartBegin(s) \/ StartPipeline(s) \/ RestartForPacking(s)
         \/ \E answer \in Answer :
              \/ StartOff(s, answer) \/ StartRx(s, answer)
              \/ StartInit(s, answer) \/ StartFallback(s, answer)
  PROVE  Reception'
<1>1. pc[s] # "Free" /\ SessionIdleExceptRx
  BY DEF StartBegin, StartPipeline, RestartForPacking, StartOff, StartRx, StartInit,
         StartFallback, SessionIdle
<1>2. /\ StreamStage(s)
      /\ pc \in [Stream -> Phase] /\ queue \in [Stream -> Queue] /\ job \in [Stream -> Job]
      /\ recv \in [Stream -> {"Stopped", "CleanupRequired", "Running"}]
  BY DEF IInv, Reception, TypeOK, ReceiverTypeOK
<1>3. \A t \in Stream \ {s} :
        pc'[t] = pc[t] /\ recv'[t] = recv[t] /\ queue'[t] = queue[t] /\ job'[t] = job[t]
  BY <1>2 DEF StartBegin, StartPipeline, RestartForPacking, StartOff, StartRx, StartInit,
         StartFallback, StartDone, GoTo, SetReceiver, SetQueue, SetJob
<1> USE <1>2 DEF StreamStage, Doubtful, Starting, GoTo, SetReceiver, SetQueue, SetJob,
                 SessionIdle
<1>4. CASE StartBegin(s) \/ RestartForPacking(s)
  <2>1. pc'[s] = "Decided" /\ recv'[s] = "CleanupRequired" /\ queue'[s] = queue[s]
    BY <1>4 DEF StartBegin, RestartForPacking
  <2>2. ~job'[s].fresh => queue[s].present /\ queue[s].initialized
    <3>1. CASE StartBegin(s)
      <4> DEFINE keep == /\ queue[s].present /\ queue[s].initialized
                         /\ queue[s].settings.packing = receive.packing
      <4>1. job'[s] = [NoJob EXCEPT !.fresh = ~keep]
        BY <3>1 DEF StartBegin
      <4>2. CASE keep
        BY <4>2
      <4>3. CASE ~keep
        BY <4>1, <4>3 DEF NoJob
      <4> QED BY <4>2, <4>3
    <3>2. CASE RestartForPacking(s)
      BY <3>2 DEF RestartForPacking, NoJob
    <3> QED BY <1>4, <3>1, <3>2
  <2>3. StreamStage(s)'
    BY <2>1, <2>2
  <2> QED BY <1>1, <1>3, <2>1, <2>3, StageSuffices
<1>5. CASE StartPipeline(s)
  <2>1. /\ pc'[s] = IF job[s].fresh THEN "StartOff" ELSE "StartRx"
        /\ recv'[s] = "CleanupRequired"
    BY <1>5 DEF StartPipeline
  <2>2. job'[s].fresh = job[s].fresh
    BY <1>5 DEF StartPipeline, Job
  <2>3. ~job[s].fresh => queue'[s].present /\ queue'[s].initialized
    <3> SUFFICES ASSUME ~job[s].fresh
                 PROVE  queue'[s].present /\ queue'[s].initialized
      OBVIOUS
    <3>1. queue'[s] = [queue[s] EXCEPT !.settings = receive, !.seen = "Nothing"]
      BY <1>5 DEF StartPipeline
    <3>2. queue[s].present /\ queue[s].initialized
      BY <1>5 DEF StartPipeline
    <3> QED BY <3>1, <3>2 DEF Queue
  <2>4. StreamStage(s)'
    BY <2>1, <2>2, <2>3
  <2> QED BY <1>1, <1>3, <2>1, <2>4, StageSuffices
<1>6. ASSUME NEW answer \in Answer, StartOff(s, answer) PROVE Reception'
  <2>1. /\ pc'[s] \in {"StartRx", "StartFallback"}
        /\ recv'[s] = "CleanupRequired"
        /\ job[s].fresh /\ job'[s] = job[s]
    BY <1>6 DEF StartOff
  <2>2. pc'[s] = "StartRx" => queue'[s].present
    BY <1>6 DEF StartOff, NewQueue
  <2>3. StreamStage(s)'
    BY <2>1, <2>2
  <2> QED BY <1>1, <1>3, <2>1, <2>3, StageSuffices
<1>7. ASSUME NEW answer \in Answer, StartRx(s, answer) PROVE Reception'
  <2>1. job[s].next \in {"Idle", "Fill"}
    BY DEF Job
  <2>2. StreamStage(s)' /\ recv'[s] # "Stopped"
    BY <1>7, <2>1, TransferOn DEF StartRx, StartDone
  <2> QED BY <1>1, <1>3, <2>2, StageSuffices
<1>8. ASSUME NEW answer \in Answer, StartInit(s, answer) PROVE Reception'
  <2>1. job[s].next \in {"Idle", "Fill"}
    BY DEF Job
  <2>2. CASE answer = "ok"
    <3>1. queue'[s].present /\ queue'[s].initialized /\ hwRx' = "On"
      BY <1>8, <2>2 DEF StartInit, Queue
    <3>2. pc'[s] \in {"Idle", "Fill"} /\ recv'[s] = "Running"
      BY <1>8, <2>1, <2>2 DEF StartInit, StartDone
    <3> QED BY <1>1, <1>3, <3>1, <3>2, StageSuffices
  <2>3. CASE answer # "ok"
    <3>1. StreamStage(s)' /\ recv'[s] # "Stopped"
      BY <1>8, <2>3 DEF StartInit
    <3> QED BY <1>1, <1>3, <3>1, StageSuffices
  <2> QED BY <2>2, <2>3
<1>9. ASSUME NEW answer \in Answer, StartFallback(s, answer) PROVE Reception'
  <2>1. StreamStage(s)' /\ recv'[s] # "Stopped"
    BY <1>9 DEF StartFallback
  <2> QED BY <1>1, <1>3, <2>1, StageSuffices
<1> QED BY <1>4, <1>5, <1>6, <1>7, <1>8, <1>9

LEMMA StopReception ==
  ASSUME IInv, NEW s \in Stream,
         \/ StopBegin(s) \/ CancelControl(s) \/ CloseBegin(s)
         \/ CloseAbandoned(s) \/ Drop(s)
         \/ \E answer \in Answer : StopOff(s, answer)
  PROVE  Reception'
<1>1. pc[s] # "Free" /\ SessionIdleExceptRx
  BY DEF StopBegin, CancelControl, CloseBegin, CloseAbandoned, Drop, StopOff, SessionIdle
<1>2. /\ StreamStage(s)
      /\ pc \in [Stream -> Phase] /\ queue \in [Stream -> Queue] /\ job \in [Stream -> Job]
      /\ recv \in [Stream -> {"Stopped", "CleanupRequired", "Running"}]
      /\ hwRx = "On" => recv[s] # "Stopped"
  <2>1. owners \ {Handle} = {s} /\ claim = "Held"
    BY <1>1, SoleStream DEF IInv
  <2> QED BY <2>1 DEF IInv, Reception, TypeOK, ReceiverTypeOK, NoStrayReception
<1>3. \A t \in Stream \ {s} :
        pc'[t] = pc[t] /\ recv'[t] = recv[t] /\ queue'[t] = queue[t] /\ job'[t] = job[t]
  BY <1>2 DEF StopBegin, CancelControl, CloseBegin, CloseAbandoned, Drop, StopOff,
         GoTo, SetReceiver, SetQueue, SetJob
<1> USE <1>2 DEF StreamStage, Doubtful, Starting, GoTo, SetReceiver, SetQueue, SetJob,
                 SessionIdle
<1>4. CASE StopBegin(s) \/ CloseBegin(s) \/ CloseAbandoned(s)
  <2>1. StreamStage(s)' /\ recv'[s] # "Stopped"
    BY <1>4 DEF StopBegin, CloseBegin, CloseAbandoned, NoQueue
  <2> QED BY <1>1, <1>3, <2>1, StageSuffices
<1>5. CASE CancelControl(s)
  <2>1. StreamStage(s)' /\ recv'[s] # "Stopped"
    BY <1>5 DEF CancelControl
  <2> QED BY <1>1, <1>3, <2>1, StageSuffices
<1>6. CASE Drop(s)
  <2>1. StreamStage(s)' /\ (hwRx' = "On" => recv'[s] # "Stopped")
    BY <1>6 DEF Drop, NoQueue
  <2> QED BY <1>1, <1>3, <2>1, StageSuffices
<1>7. ASSUME NEW answer \in Answer, StopOff(s, answer) PROVE Reception'
  <2>1. StreamStage(s)' /\ (hwRx' = "On" => recv'[s] # "Stopped")
    BY <1>7, TransferOff DEF StopOff
  <2> QED BY <1>1, <1>3, <2>1, StageSuffices
<1> QED BY <1>4, <1>5, <1>6, <1>7

LEMMA ReadReception ==
  ASSUME IInv, NEW s \in Stream,
         ReadBegin(s) \/ ReadPoll(s) \/ ReadOk(s) \/ ReadAbandoned(s) \/ ReadErr(s)
  PROVE  Reception'
<1>1. pc[s] # "Free" /\ SessionIdleExceptRx
  BY DEF ReadBegin, ReadPoll, ReadOk, ReadAbandoned, ReadErr, SessionIdle
<1>2. /\ StreamStage(s)
      /\ pc \in [Stream -> Phase] /\ queue \in [Stream -> Queue] /\ job \in [Stream -> Job]
      /\ recv \in [Stream -> {"Stopped", "CleanupRequired", "Running"}]
  BY DEF IInv, Reception, TypeOK, ReceiverTypeOK
<1>3. \A t \in Stream \ {s} :
        pc'[t] = pc[t] /\ recv'[t] = recv[t] /\ queue'[t] = queue[t] /\ job'[t] = job[t]
  BY <1>2 DEF ReadBegin, ReadPoll, ReadOk, ReadAbandoned, ReadErr, AdoptDecimation,
         GoTo, SetReceiver, SetQueue, SetJob
<1> USE <1>2 DEF StreamStage, Doubtful, Starting, GoTo, SetReceiver, SetQueue, SetJob,
                 SessionIdle
<1>4. ASSUME AdoptDecimation(s)
      PROVE  /\ queue'[s].present = queue[s].present
             /\ queue'[s].initialized = queue[s].initialized
  BY <1>4 DEF AdoptDecimation, Queue
<1>5. CASE ReadBegin(s) \/ ReadPoll(s)
  <2>1. StreamStage(s)' /\ recv'[s] # "Stopped"
    BY <1>4, <1>5 DEF ReadBegin, ReadPoll
  <2> QED BY <1>1, <1>3, <2>1, StageSuffices
<1>6. CASE ReadOk(s) \/ ReadAbandoned(s) \/ ReadErr(s)
  <2>1. StreamStage(s)' /\ recv'[s] # "Stopped"
    BY <1>6 DEF ReadOk, ReadAbandoned, ReadErr, AfterBlock, NoQueue, Queue
  <2> QED BY <1>1, <1>3, <2>1, StageSuffices
<1> QED BY <1>5, <1>6

LEMMA AcquireReception ==
  ASSUME IInv, NEW s \in Stream, Acquire(s)
  PROVE  Reception'
<1>1. /\ owners \ {Handle} = {} /\ Handle \in owners /\ device = "Open"
      /\ claim = "Available"
  BY DEF IInv, Ownership, Acquire, AcquireClaim
<1>2. hwRx # "On"
  BY <1>1 DEF IInv, Reception, NoStrayReception
<1>3. \A t \in Stream : StreamStage(t)'
  BY DEF IInv, Reception, TypeOK, ReceiverTypeOK, StreamStage, Doubtful, Starting,
         Acquire, GoTo, hardware
<1> QED BY <1>1, <1>2, <1>3
        DEF IInv, Ownership, Reception, NoStrayReception, Acquire, AcquireClaim,
            hardware, handleVars

\* A claim is given back with the receiver off, or stranded.
LEMMA VacateReception ==
  ASSUME IInv, NEW s \in Stream, pc[s] # "Free",
         NEW availability \in {"Available", "CleanupRequired"},
         Vacate(s, availability), UNCHANGED <<device, handleVars, hwBias, reaper>>,
         availability = "Available" => hwRx' # "On"
  PROVE  Reception'
<1>1. claim = "Held" /\ owners \ {Handle} = {s} /\ device = "Open" /\ opened
  BY SoleStream DEF IInv
<1>2. \A t \in Stream \ {s} : pc[t] = "Free"
  BY <1>1, HandleAssumption DEF IInv, Ownership
<1>3. \A t \in Stream : pc'[t] = "Free" /\ recv'[t] = "Stopped"
  BY <1>2 DEF IInv, Reception, StreamStage, TypeOK, ReceiverTypeOK, Vacate, GoTo,
              SetReceiver, SetQueue
<1>4. \A t \in Stream : StreamStage(t)'
  BY <1>3 DEF StreamStage, Doubtful, Starting
<1>5. NoStrayReception'
  BY <1>1 DEF NoStrayReception, Vacate, GiveUpClaim
<1>6. op # "ShutdownBias"
  BY <1>1 DEF IInv, Ownership
<1> QED BY <1>1, <1>4, <1>5, <1>6 DEF Reception, handleVars

LEMMA EndReception ==
  ASSUME IInv, NEW s \in Stream,
         CloseStopped(s) \/ CloseOff(s) \/ CleanupStep(s)
  PROVE  Reception'
<1>1. CASE CloseStopped(s) \/ CleanupReady(s)
  <2>1. pc[s] # "Free" /\ recv[s] = "Stopped"
    BY <1>1 DEF CloseStopped, CleanupReady, IInv, Reception, StreamStage
  <2>2. owners \ {Handle} = {s} /\ claim = "Held"
    BY <2>1, SoleStream DEF IInv
  <2>3. hwRx # "On"
    BY <2>1, <2>2 DEF IInv, Reception, NoStrayReception
  <2> QED BY <1>1, <2>1, <2>3, VacateReception DEF CloseStopped, CleanupReady, hardware
<1>2. CASE CloseOff(s)
  BY <1>2, TransferOff, VacateReception DEF CloseOff
<1>3. CASE \E answer \in Answer : CleanupOff(s, answer)
  BY <1>3, TransferOff, VacateReception DEF CleanupOff
<1> QED BY <1>1, <1>2, <1>3 DEF CleanupStep

\* The handle's side: no stream exists while a shutdown or a final cleanup
\* works on the hardware, and nothing else there touches the receiver.
LEMMA DeviceReception ==
  ASSUME IInv, DeviceNext \/ CommitUpdate,
         UNCHANGED <<pc, recv, job>>,
         \A s \in Stream :
           /\ queue'[s].present = queue[s].present
           /\ queue'[s].initialized = queue[s].initialized
  PROVE  Reception'
<1> USE DEF shared, hardware, handleVars
<1>1. ASSUME hwRx' = hwRx PROVE \A s \in Stream : StreamStage(s)'
  BY <1>1 DEF IInv, Reception, StreamStage
<1>2. ASSUME claim # "Held" \/ owners = {} PROVE \A s \in Stream : StreamStage(s)'
  <2>1. \A s \in Stream : pc[s] = "Free"
    BY <1>2, HandleAssumption DEF IInv, Ownership
  <2> QED BY <2>1 DEF IInv, Reception, StreamStage, Doubtful, Starting
<1>3. CASE MetadataOk \/ UpdateBegin \/ CommandOk \/ CommitUpdate
  <2>1. UNCHANGED <<device, claim, owners, hwRx, rxOff>> /\ op' # "ShutdownBias"
        /\ device # "Closed"
    BY <1>3 DEF MetadataOk, UpdateBegin, CommandOk, CommitUpdate, IInv, Ownership
  <2> QED BY <1>1, <2>1 DEF IInv, Reception, NoStrayReception
<1>4. CASE MetadataErr \/ CommandErr \/ ShutdownBegin
  <2>1. /\ UNCHANGED <<claim, owners, hwRx, rxOff>> /\ op' # "ShutdownBias"
        /\ device # "Closed" /\ device' # "Closed"
    BY <1>4 DEF MetadataErr, CommandErr, ShutdownBegin, BeginShutdown, IInv, Ownership
  <2> QED BY <1>1, <2>1 DEF IInv, Reception, NoStrayReception
<1>5. CASE CancelApply
  <2>1. /\ UNCHANGED <<device, claim, hwRx>> /\ op' # "ShutdownBias"
        /\ device # "Closed" /\ owners' \ {Handle} = owners \ {Handle}
    BY <1>5, HandleAssumption DEF CancelApply, Return, IInv, Ownership
  <2>2. owners = {} => owners' = {}
    BY <1>5 DEF CancelApply, Return
  <2> QED BY <1>1, <2>1, <2>2 DEF IInv, Reception, NoStrayReception
<1>6. CASE DropHandle
  <2>1. owners' \ {Handle} = owners \ {Handle} /\ (owners = {} => owners' = {})
    BY <1>6 DEF DropHandle
  <2> QED BY <1>1, <1>6, <2>1 DEF DropHandle, IInv, Reception, NoStrayReception
<1>7. CASE SessionDropStep
  <2>1. /\ owners = {} /\ UNCHANGED <<device, claim, owners, op, rxOff>>
        /\ hwRx' = hwRx \/ hwRx' = "Off"
        /\ hwBias' = hwBias \/ hwBias' = "Off"
    BY <1>7 DEF SessionDropStep, SessionDrop, SessionDropRx, SessionDropBias, Settled,
                IInv, Ownership
  <2> QED BY <1>2, <2>1 DEF IInv, Reception, NoStrayReception
<1>8. CASE \E answer \in Answer : ShutdownRx(answer)
  <2>1. /\ claim # "Held" /\ device = "Closing" /\ UNCHANGED <<device, claim, owners>>
        /\ hwRx' = hwRx \/ hwRx' = "Off"
        /\ rxOff' => hwRx' = "Off"
    BY <1>8 DEF ShutdownRx, Settled, IInv, Ownership
  <2> QED BY <1>2, <2>1 DEF IInv, Ownership, Reception, NoStrayReception
<1>9. ASSUME NEW answer \in Answer, ShutdownBias(answer) PROVE Reception'
  <2>1. /\ claim # "Held" /\ device = "Closing" /\ op' # "ShutdownBias"
        /\ UNCHANGED hwRx /\ owners \ {Handle} = {}
    BY <1>9 DEF ShutdownBias, Return, IInv, Ownership
  <2>2. CASE rxOff /\ answer = "ok"
    <3>1. hwRx' = "Off" /\ hwBias' = "Off" /\ claim' = "Available"
      BY <1>9, <2>1, <2>2 DEF ShutdownBias, Settled, IInv, Reception
    <3> QED BY <1>2, <2>1, <3>1 DEF Reception, NoStrayReception
  <2>3. CASE ~(rxOff /\ answer = "ok")
    <3>1. UNCHANGED <<device, claim>> /\ (owners = {} => owners' = {})
      BY <1>9, <2>3 DEF ShutdownBias, Return
    <3> QED BY <1>2, <2>1, <3>1 DEF IInv, Reception, NoStrayReception
  <2> QED BY <2>2, <2>3
<1>10. CASE CancelShutdown
  <2>1. /\ claim # "Held" /\ device = "Closing" /\ op' # "ShutdownBias"
        /\ UNCHANGED <<device, claim>> /\ owners \ {Handle} = {}
        /\ hwRx' = hwRx \/ hwRx' = "Off"
        /\ owners = {} => owners' = {}
    BY <1>10 DEF CancelShutdown, Return, Settled, IInv, Ownership
  <2> QED BY <1>2, <2>1 DEF IInv, Reception, NoStrayReception
<1> QED BY <1>3, <1>4, <1>5, <1>6, <1>7, <1>8, <1>9, <1>10 DEF DeviceNext

LEMMA ReceptionStep == IInv /\ [Next]_vars => Reception'
<1> SUFFICES ASSUME IInv, [Next]_vars PROVE Reception'
  OBVIOUS
<1>1. CASE DeviceNext /\ UNCHANGED streamVars
  BY <1>1, DeviceReception DEF streamVars
<1>2. CASE CommitUpdate /\ RecordPackingChange /\ UNCHANGED <<pc, recv, job>>
  <2>1. \A s \in Stream :
          /\ queue'[s].present = queue[s].present
          /\ queue'[s].initialized = queue[s].initialized
    <3> SUFFICES ASSUME NEW s \in Stream
                 PROVE  /\ queue'[s].present = queue[s].present
                        /\ queue'[s].initialized = queue[s].initialized
      OBVIOUS
    <3>1. /\ queue[s] \in Queue
          /\ queue'[s] = [queue[s] EXCEPT !.seen =
                            IF OutrunByPacking(s) THEN "PackingChange" ELSE @]
      BY <1>2 DEF RecordPackingChange, IInv, TypeOK, ReceiverTypeOK
    <3> QED BY <3>1 DEF Queue
  <2> QED BY <1>2, <2>1, DeviceReception
<1>3. CASE \E s \in Stream : StreamNext(s)
  BY <1>3, AcquireReception, StartReception, StopReception, ReadReception, EndReception
     DEF StreamNext
<1>4. CASE UNCHANGED vars
  BY <1>4 DEF vars, sessionVars, streamVars, IInv, Reception, StreamStage,
              NoStrayReception
<1> QED BY <1>1, <1>2, <1>3, <1>4 DEF Next, DeviceStep, Finished

-----------------------------------------------------------------------------
(* The invariant, and what follows from it *)

LEMMA InitInvariant == Init => IInv
<1> SUFFICES ASSUME Init PROVE IInv
  OBVIOUS
<1>1. TypeOK
  BY InitType
<1>2. Ownership
  BY HandleAssumption DEF Init, SessionInit, ReceiverInit, Ownership
<1>3. Reception
  BY DEF Init, SessionInit, ReceiverInit, Reception, StreamStage, Doubtful, Starting,
         NoStrayReception
<1> QED BY <1>1, <1>2, <1>3 DEF IInv

LEMMA NextInvariant == IInv /\ [Next]_vars => IInv'
BY NextType, OwnershipStep, ReceptionStep DEF IInv

\* The inductive invariant holds in every reachable state of the driver.
THEOREM Invariance == Spec => []IInv
BY InitInvariant, NextInvariant, PTL DEF Spec

\* The receiver claim is exclusive and never leaks (RxStreamClaim).
THEOREM ClaimIsExclusive == Spec => []ClaimMatchesOwner
<1>1. IInv => ClaimMatchesOwner
  BY DEF IInv, Ownership, ClaimMatchesOwner
<1> QED BY <1>1, Invariance, PTL

\* A stream that reports itself running receives (start_pipeline, begin_stop).
THEOREM RunningStreamsReceive == Spec => []RunningReceives
<1>1. IInv => RunningReceives
  BY DEF IInv, Reception, StreamStage, RunningReceives
<1> QED BY <1>1, Invariance, PTL

\* No receiver is left on that nobody answers for (cleanup, shutdown, drop).
THEOREM NoReceptionIsStray == Spec => []NoStrayReception
<1>1. IInv => NoStrayReception
  BY DEF IInv, Reception
<1> QED BY <1>1, Invariance, PTL

\* A device that shutdown closed is quiet for good (Session::shutdown).
THEOREM ClosedDeviceIsQuiet == Spec => []ClosedIsQuiet
<1>1. IInv => ClosedIsQuiet
  BY DEF IInv, Reception, ClosedIsQuiet
<1> QED BY <1>1, Invariance, PTL
-----------------------------------------------------------------------------
(* The snapshot *)

\* An update that is under way commits to the snapshot what it commits to the
\* session, or leaves the receive settings of both as they are.
Agreement ==
  /\ opened => config.receive = receive
  /\ op \in {"Metadata", "Apply"} =>
       IF update.commit = {} THEN opened /\ update.proposed.receive = config.receive
       ELSE update.commit = {update.proposed.receive}

\* Each setter proposes the same settings in both places (Device::update).
LEMMA UpdatesAgree ==
  ASSUME TypeOK, config.receive = receive, NEW u \in Updates
  PROVE  IF u.commit = {} THEN u.proposed.receive = config.receive
         ELSE u.commit = {u.proposed.receive}
<1>1. receive \in Settings /\ config \in Config
  BY DEF TypeOK, SessionTypeOK
<1>2. ASSUME NEW c \in Config, u = Configure(c)
      PROVE  u.commit = {u.proposed.receive}
  BY <1>2 DEF Configure
<1>3. ASSUME NEW on \in BOOLEAN, u = SetBiasTee(on)
      PROVE  u.commit = {} /\ u.proposed.receive = config.receive
  BY <1>1, <1>3 DEF SetBiasTee, Config
<1>4. ASSUME u = SetRegister
      PROVE  u.commit = {} /\ u.proposed.receive = config.receive
  BY <1>4 DEF SetRegister
<1>5. ASSUME NEW p \in Packings, u = SetPacking(p)
      PROVE  u.commit = {u.proposed.receive}
  BY <1>1, <1>5 DEF SetPacking, Config
<1>6. ASSUME NEW n \in Decimations, u = UpdateRate(n)
      PROVE  u.commit = {u.proposed.receive}
  BY <1>1, <1>6 DEF UpdateRate, Config
<1> QED BY <1>2, <1>3, <1>4, <1>5, <1>6 DEF Updates

LEMMA InitAgreement == Init => Agreement
BY DEF Init, SessionInit, Agreement, Configure

LEMMA AgreementStep == IInv /\ Agreement /\ [Next]_vars => Agreement'
<1> SUFFICES ASSUME IInv, Agreement, [Next]_vars PROVE Agreement'
  OBVIOUS
<1>1. TypeOK /\ Ownership
  BY DEF IInv
<1>2. CASE UpdateBegin
  <2>1. opened /\ config.receive = receive
    BY <1>1, <1>2 DEF UpdateBegin, Ownership, Agreement
  <2>2. update' \in Updates /\ UNCHANGED <<receive, config, opened>>
    BY <1>2 DEF UpdateBegin
  <2> QED BY <1>1, <2>1, <2>2, UpdatesAgree DEF Agreement
<1>3. CASE CommandOk
  <2>1. update'.commit = update.commit /\ update'.proposed = update.proposed
    BY <1>1, <1>3 DEF CommandOk, TypeOK, SessionTypeOK, Update
  <2> QED BY <1>3, <2>1 DEF CommandOk, Agreement
<1>4. CASE CommitUpdate
  <2>1. receive' = config'.receive
    BY <1>4 DEF CommitUpdate, Agreement
  <2> QED BY <1>4, <2>1 DEF CommitUpdate, Agreement
<1>5. CASE UNCHANGED <<receive, config, opened>> /\ op' \notin {"Metadata", "Apply"}
  BY <1>5 DEF Agreement
<1>6. CASE UNCHANGED <<receive, config, opened, op, update>>
  BY <1>6 DEF Agreement
<1>7. MetadataOk => Agreement'
  BY DEF MetadataOk, Agreement
<1>8. MetadataErr \/ CommandErr \/ CancelApply \/ ShutdownBegin \/ CancelShutdown \/ DropHandle =>
        UNCHANGED <<receive, config, opened>> /\ op' \notin {"Metadata", "Apply"}
  BY DEF MetadataErr, CommandErr, CancelApply, ShutdownBegin, CancelShutdown, DropHandle,
         BeginShutdown, Return
<1>9. (\E answer \in Answer : ShutdownRx(answer) \/ ShutdownBias(answer)) =>
        UNCHANGED <<receive, config, opened>> /\ op' \notin {"Metadata", "Apply"}
  BY DEF ShutdownRx, ShutdownBias, Return
<1>10. SessionDropStep => UNCHANGED <<receive, config, opened, op, update>>
  BY DEF SessionDropStep, SessionDrop, SessionDropRx, SessionDropBias, handleVars
<1>11. DeviceNext \/ CommitUpdate => Agreement'
  BY <1>2, <1>3, <1>4, <1>5, <1>6, <1>7, <1>8, <1>9, <1>10 DEF DeviceNext
<1>12. ASSUME NEW s \in Stream, StreamNext(s)
       PROVE  UNCHANGED <<receive, config, opened, op, update>>
  BY <1>12
     DEF StreamNext, Acquire, StartBegin, StartPipeline, StopBegin, StartOff, StartRx, StartInit,
         StartFallback, StopOff, CancelControl, RestartForPacking, ReadBegin, ReadPoll, ReadOk,
         ReadAbandoned, ReadErr, CloseStopped, CloseBegin, CloseOff, CloseAbandoned, Drop,
         CleanupStep, CleanupOff, CleanupReady, SessionIdle, SessionIdleExceptRx, handleVars
<1>13. UNCHANGED vars => UNCHANGED <<receive, config, opened, op, update>>
  BY DEF vars, sessionVars
<1> QED BY <1>6, <1>11, <1>12, <1>13 DEF Next, DeviceStep, Finished

\* Device::config() reports the receive settings that the streams use, after any
\* failed or cancelled update (apply_update, Session::apply).
THEOREM SnapshotAgreesWithSession == Spec => []SnapshotMatchesSession
<1>1. Agreement => SnapshotMatchesSession
  BY DEF Agreement, SnapshotMatchesSession
<1>2. Spec => []Agreement
  BY Invariance, InitAgreement, AgreementStep, PTL DEF Spec
<1> QED BY <1>1, <1>2, PTL

=============================================================================
