------------------------------- MODULE Driver -------------------------------
(***************************************************************************)
(* The device handle, its session and its receive stream together: every   *)
(* interleaving of the handle's operations (Session) with the stream's     *)
(* (Receiver) and with the cleanup that outlives both, and the properties  *)
(* of the whole.                                                           *)
(***************************************************************************)
EXTENDS Receiver

vars == <<sessionVars, streamVars>>

Init == SessionInit /\ ReceiverInit

DeviceStep ==
  \/ DeviceNext /\ UNCHANGED streamVars
  \/ CommitUpdate /\ RecordPackingChange /\ UNCHANGED <<pc, recv, job>>

\* Nobody is left and the final cleanup is over.
Finished == reaper = "Gone" /\ UNCHANGED vars

Next ==
  \/ DeviceStep
  \/ \E s \in Stream : StreamNext(s)
  \/ Finished

Spec == Init /\ [][Next]_vars

\* What runs without the application's help: a blocking drop runs to its end,
\* and a WebUSB drop spawns its task; every control transfer has a timeout.
Fairness ==
  /\ WF_vars(SessionDropStep /\ UNCHANGED streamVars)
  /\ \A s \in Stream : WF_vars(CleanupStep(s))

FairSpec == Spec /\ Fairness

TypeOK == SessionTypeOK /\ ReceiverTypeOK

-----------------------------------------------------------------------------
(* Safety *)

\* Session claims are exclusive and never leak: the claim is held exactly while
\* one stream exists, counting a close and a cleanup that are not over, and it
\* is held by no more than one (RxStreamClaim::acquire, release and cleanup).
ClaimMatchesOwner ==
  LET streams == owners \ {Handle}
  IN  IF claim = "Held" THEN \E s \in Stream : streams = {s}
      ELSE streams = {}

\* A stream that reports itself running does receive: the hardware's receiver
\* is on, and the queue exists and has its transfers submitted (start_pipeline
\* reports success last; stop and cleanup leave Running before they command).
RunningReceives ==
  \A s \in Stream :
    recv[s] = "Running" =>
      hwRx = "On" /\ queue[s].present /\ queue[s].initialized

\* Reception is never left on behind everyone's back: while the receiver is on
\* there is a stream that knows it must switch it off, or the claim is reserved
\* until a shutdown, or the shutdown or final cleanup is still to do.
NoStrayReception ==
  hwRx = "On" =>
    \/ \E s \in owners \ {Handle} : recv[s] # "Stopped" 
    \/ claim = "CleanupRequired" /\ device # "Closed"
    \/ owners = {} /\ device # "Closed"

\* A closed device is quiet and stays reserved for nobody: receiver and bias
\* power are off and the claim is free (shutdown commits Closed only when both
\* commands succeeded).
ClosedIsQuiet ==
  device = "Closed" => hwRx = "Off" /\ hwBias = "Off" /\ claim = "Available"

\* The snapshot that Device::config() returns and the receive settings that the
\* streams use are the same, whatever failed or was cancelled (apply_update).
SnapshotMatchesSession == opened => config.receive = receive

\* What a queue accepts is what its buffers were made for: the length that
\* accept() expects follows from the settings, the buffers from the packing the
\* queue was created with (README: packing changes recreate the queue).
BuffersMatchPacking ==
  \A s \in Stream :
    queue[s].present => queue[s].packed = queue[s].settings.packing

-----------------------------------------------------------------------------
(* Action properties *)

\* A claim that cleanup could not free comes back only with a device that a
\* later shutdown closed: no stream gets at a receiver that may still be on.
StrandedUntilClosed ==
  [][claim = "CleanupRequired" /\ claim' # claim => device' = "Closed"]_vars

\* Once a shutdown has begun or the last owner is gone, nothing is switched on
\* any more: shutdown is terminal (README), final cleanup only turns off.
EndIsTerminal ==
  [][device # "Open" \/ owners = {} =>
       /\ device # "Open" => device' # "Open"
       /\ hwRx' \in {hwRx, "Off"}
       /\ hwBias' \in {hwBias, "Off"}]_vars

\* A raw block call that takes its block from the queue as it is (no restart)
\* finds no packing change behind it: none was committed since the queue handed
\* out its last blocks, while it went on capturing (README: packing changes
\* recreate the queue; packing_changed compares the two values of now only).
NextBlockAdoptsPacking ==
  [][\A s \in Stream :
       pc[s] = "Idle" /\ pc'[s] = "Fill" => queue'[s].seen # "PackingChange"]_vars

\* In IQ mode a stop and a start keep the queue, whatever the configuration
\* did in between (README: the queue is retained across stop/start cycles).
RestartKeepsQueue ==
  [][\A s \in Stream :
       pc[s] = "Decided" /\ queue[s].initialized => queue'[s].initialized]_vars

-----------------------------------------------------------------------------
(* Refinement *)

Custody ==
  IF device = "Closed" THEN "Ended"
  ELSE IF owners = {} THEN "Abandoned"
  ELSE IF device = "Closing" THEN "Ending"
  ELSE CASE claim = "Available" -> "Unclaimed"
         [] claim = "Held" -> "Claimed"
         [] claim = "CleanupRequired" -> "Stranded"

Abstract == INSTANCE HardwareCustody
              WITH custody <- Custody, rx <- hwRx, bias <- hwBias

\* The driver keeps the promises of HardwareCustody about the receiver and the
\* bias power, in every interleaving and whatever fails.
ImplementsCustody == Abstract!Spec

-----------------------------------------------------------------------------
(* Liveness, under FairSpec *)

\* A dropped stream's claim does not stay held: its cleanup comes to an end,
\* and another stream can be claimed or the device be shut down.
CleanupEnds ==
  \A s \in Stream : pc[s] \in CleaningUp ~> claim # "Held"

\* The application holds neither the handle nor a stream; a cleanup may still
\* hold the session.
Abandoned ==
  op = "Dropped" /\ \A s \in Stream : pc[s] \in {"Free"} \cup CleaningUp

\* Once the application let go of everything, the cleanup of the stream and then
\* that of the session run to their end, also when every transfer fails: no
\* cleanup keeps the session alive (RxStreamClaim::drop, Session::drop).
FinalCleanupEnds == Abandoned ~> reaper = "Gone"

\* Once the application let go of everything, receiver and bias power end up off
\* if no transfer fails, also after a cancelled shutdown or a close cut short
\* (README: dropping the final owner runs hardware shutdown).
AbandonedEndsQuiet == Abandoned ~> hwRx = "Off" /\ hwBias = "Off"
=============================================================================
