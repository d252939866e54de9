------------------------------ MODULE Session ------------------------------
(***************************************************************************)
(* The hardware session that a device handle and its receive stream share  *)
(* (src/src/session.rs), with the operations of the device handle that     *)
(* drive it (src/src/device.rs): opening, configuration updates, explicit  *)
(* shutdown, dropping the handle, and the cleanup that runs when the last  *)
(* owner of the session is gone.                                           *)
(*                                                                         *)
(* Every action is the code between two awaits.  A control transfer is an  *)
(* action of its own: it answers "ok" and took effect, or it answers "err" *)
(* and may or may not have taken effect.  A cancelled transfer is like one *)
(* that failed, except that nobody sees the answer.  The control pipe is   *)
(* first in, first out, so a transfer has no effect after a later one was  *)
(* answered.                                                               *)
(*                                                                         *)
(* A definition whose name ends in _ and a word is never part of the       *)
(* behaviour: it is the definition after it with one plausible slip, and   *)
(* shows that some property would notice.                                  *)
(***************************************************************************)
EXTENDS Naturals, Sequences

CONSTANTS Stream,       \* slots for RxStream values; a slot is reused after it is free
          Handle,       \* the device handle, as an owner of the session
          Mode,         \* the sample mode M of Device<M>: "RawAdc" or "F32Iq"
          Decimations,  \* host decimation factors that the offered rates select
          MayFail       \* whether a transfer may answer with an error

ASSUME HandleAssumption == Handle \notin Stream
ASSUME ModeAssumption == Mode \in {"RawAdc", "F32Iq"}
ASSUME DecimationAssumption == Decimations \subseteq Nat /\ 1 \in Decimations
ASSUME MayFailAssumption == MayFail \in BOOLEAN

VARIABLES
  device,   \* DeviceLifecycle, under the session's mutex
  claim,    \* ClaimAvailability, under the same mutex
  receive,  \* ReceiveSettings, under a mutex of its own
  owners,   \* holders of an Arc<Session>
  config,   \* the public configuration snapshot of the device handle
  opened,   \* whether initialize() returned the session to its caller
  op,       \* what the device handle is waiting for
  update,   \* the configuration update in progress
  rxOff,    \* during a shutdown: whether turning off the receiver succeeded
  hwRx,     \* receiver mode of the hardware
  hwBias,   \* RF bias power of the hardware
  reaper    \* progress of Session::drop

shared     == <<device, claim>>
hardware   == <<hwRx, hwBias>>
handleVars == <<config, opened, op, update, rxOff>>
sessionVars == <<device, claim, receive, owners, config, opened, op, update,
                 rxOff, hwRx, hwBias, reaper>>

Packings == IF Mode = "RawAdc" THEN BOOLEAN ELSE {FALSE}

Settings == [packing : Packings, decimation : Decimations]

\* "Unknown" is what an earlier program may have left behind.
Switch == {"Off", "On", "Unknown"}

Config == [receive : Settings, bias : BOOLEAN]

\* A command of a configuration sequence either switches bias power or sets a
\* register whose value no property depends on (frequency, rate, port, gain,
\* packing).
Command == [reg : {"Setup"}] \cup [reg : {"Bias"}, on : BOOLEAN]

Setup      == [reg |-> "Setup"]
SetBias(on) == [reg |-> "Bias", on |-> on]

\* What Device::update passes on: the commands still to send, the receive
\* settings to commit (an Option: at most one) and the proposed configuration.
Update == [commands : Seq(Command), commit : SUBSET Settings, proposed : Config]

-----------------------------------------------------------------------------
(* Control transfers *)

Answer == IF MayFail THEN {"ok", "err"} ELSE {"ok"}

\* The values a register can have once a transfer that writes `new` is over.
Settled(answer, old, new) == IF answer = "ok" THEN {new} ELSE {old, new}

\* The effect of one command of a sequence on the bias register.
AfterCommand(answer, c) ==
  IF c.reg = "Bias"
    THEN Settled(answer, hwBias, IF c.on THEN "On" ELSE "Off")
    ELSE {hwBias}

-----------------------------------------------------------------------------
(* The updates a device handle can ask for *)

\* No update: nothing to send and nothing to commit.
NoUpdate(c) == [commands |-> <<>>, commit |-> {}, proposed |-> c]

Configure(c) == [commands |-> <<Setup, Setup, SetBias(c.bias)>>,
                 commit   |-> {c.receive},
                 proposed |-> c]

SetBiasTee(on) == [commands |-> <<SetBias(on)>>,
                   commit   |-> {},
                   proposed |-> [config EXCEPT !.bias = on]]

\* set_frequency_hz, set_rf_port and set_gain: no receive settings to commit.
SetRegister == [commands |-> <<Setup>>, commit |-> {}, proposed |-> config]

\* Raw samples are not decimated, which is taken for a factor of 0.
SetPacking_Zero(enabled) ==
  [commands |-> <<Setup>>,
   commit   |-> {[packing |-> enabled, decimation |-> 0]},
   proposed |-> [config EXCEPT !.receive.packing = enabled]]

\* set_packing, in raw mode only: the next settings, and one command.
SetPacking(enabled) ==
  LET settings == [receive EXCEPT !.packing = enabled]
  IN  [commands |-> <<Setup>>,
       commit   |-> {settings},
       proposed |-> [config EXCEPT !.receive.packing = enabled]]

\* set_sample_rate_hz and set_decimation_policy: the rate table selects n.
UpdateRate(n) ==
  LET settings == [receive EXCEPT !.decimation = n]
  IN  [commands |-> <<Setup>>,
       commit   |-> {settings},
       proposed |-> [config EXCEPT !.receive.decimation = n]]

Updates == {Configure(c) : c \in Config}
             \cup {SetBiasTee(on) : on \in BOOLEAN}
             \cup {SetRegister}
             \cup {SetPacking(p) : p \in Packings}
             \cup {UpdateRate(n) : n \in Decimations}

-----------------------------------------------------------------------------
SessionInit ==
  /\ device = "Open"
  /\ claim = "Available"
  /\ receive = [packing |-> FALSE, decimation |-> 1]
  /\ owners = {Handle}
  /\ config \in Config
  /\ opened = FALSE
  /\ op = "Metadata"
  /\ update = Configure(config)
  /\ rxOff = FALSE
  /\ hwRx = "Unknown"
  /\ hwBias = "Unknown"
  /\ reaper = "Alive"

\* begin_shutdown from Open without a held claim; the first transfer follows.
BeginShutdown ==
  /\ device' = "Closing"
  /\ op' = "ShutdownRx"

\* Where the handle stands when an operation is over: its caller has it back,
\* or initialize() failed or was cancelled and let go of the session.
Return ==
  /\ op' = IF opened THEN "Idle" ELSE "Dropped"
  /\ owners' = IF opened THEN owners ELSE owners \ {Handle}

\* device_info: three queries that change nothing; the whole is one step.
MetadataOk ==
  /\ op = "Metadata"
  /\ op' = "Apply"
  /\ UNCHANGED <<shared, receive, owners, config, opened, update, rxOff,
                 hardware, reaper>>

MetadataErr ==
  /\ op = "Metadata" /\ MayFail
  /\ BeginShutdown
  /\ update' = NoUpdate(config)
  /\ UNCHANGED <<claim, receive, owners, config, opened, rxOff, hardware,
                 reaper>>

\* ensure_open is forgotten.
UpdateBegin_Unchecked ==
  /\ op = "Idle"
  /\ op' = "Apply"
  /\ update' \in Updates
  /\ UNCHANGED <<shared, receive, owners, config, opened, rxOff, hardware,
                 reaper>>

\* The receive settings are committed before the commands are sent.
UpdateBegin_Eager ==
  /\ op = "Idle" /\ device = "Open"
  /\ op' = "Apply"
  /\ update' \in Updates
  /\ receive' = IF update'.commit = {} THEN receive
                ELSE CHOOSE settings \in update'.commit : TRUE
  /\ UNCHANGED <<shared, owners, config, opened, rxOff, hardware, reaper>>

\* An update starts when it is first polled, and only while the device is open.
UpdateBegin ==
  /\ op = "Idle" /\ device = "Open"
  /\ op' = "Apply"
  /\ update' \in Updates
  /\ UNCHANGED <<shared, receive, owners, config, opened, rxOff, hardware,
                 reaper>>

\* The next command of the sequence succeeds.
CommandOk ==
  /\ op = "Apply" /\ update.commands # <<>>
  /\ hwBias' \in AfterCommand("ok", Head(update.commands))
  /\ update' = [update EXCEPT !.commands = Tail(@)]
  /\ UNCHANGED <<shared, receive, owners, config, opened, op, rxOff, hwRx,
                 reaper>>

\* The next command fails: the sequence ends there and nothing is committed.
\* Inside initialize() the error leads to a shutdown.
CommandErr ==
  /\ op = "Apply" /\ update.commands # <<>> /\ MayFail
  /\ hwBias' \in AfterCommand("err", Head(update.commands))
  /\ IF opened
       THEN op' = "Idle" /\ UNCHANGED device
       ELSE BeginShutdown
  /\ update' = NoUpdate(config)
  /\ UNCHANGED <<claim, receive, owners, config, opened, rxOff, hwRx, reaper>>

\* The sequence is complete: the receive settings and the public snapshot are
\* committed by the same poll.
CommitUpdate ==
  /\ op = "Apply" /\ update.commands = <<>>
  /\ receive' = IF update.commit = {} THEN receive
                ELSE CHOOSE settings \in update.commit : TRUE
  /\ config' = update.proposed
  /\ update' = NoUpdate(config')
  /\ opened' = TRUE
  /\ op' = "Idle"
  /\ UNCHANGED <<shared, owners, rxOff, hardware, reaper>>

\* The future of initialize() or of an update is dropped while it waits.
CancelApply ==
  /\ op \in {"Metadata", "Apply"}
  /\ hwBias' \in IF op = "Apply" /\ update.commands # <<>>
                   THEN AfterCommand("cancelled", Head(update.commands))
                   ELSE {hwBias}
  /\ op = "Apply" => update.commands # <<>>
  /\ update' = NoUpdate(config)
  /\ Return
  /\ UNCHANGED <<shared, receive, config, opened, rxOff, hwRx, reaper>>

-----------------------------------------------------------------------------
(* Shutdown *)

\* The held claim is not looked at.
ShutdownBegin_Forced ==
  /\ op = "Idle"
  /\ device # "Closed"
  /\ BeginShutdown
  /\ UNCHANGED <<claim, receive, owners, config, opened, update, rxOff,
                 hardware, reaper>>

\* Device::shutdown; a held claim answers Busy and a closed device Ok, both
\* without a step.
ShutdownBegin ==
  /\ op = "Idle"
  /\ \/ device = "Open" /\ claim # "Held"
     \/ device = "Closing"
  /\ BeginShutdown
  /\ UNCHANGED <<claim, receive, owners, config, opened, update, rxOff,
                 hardware, reaper>>

\* The receiver-off command of shutdown_hardware; bias-off follows in any case.
ShutdownRx(answer) ==
  /\ op = "ShutdownRx"
  /\ hwRx' \in Settled(answer, hwRx, "Off")
  /\ rxOff' = (answer = "ok")
  /\ op' = "ShutdownBias"
  /\ UNCHANGED <<shared, receive, owners, config, opened, update, hwBias,
                 reaper>>

\* The result of the first command is dropped.
ShutdownBias_Careless(answer) ==
  /\ op = "ShutdownBias"
  /\ hwBias' \in Settled(answer, hwBias, "Off")
  /\ IF answer = "ok"
       THEN device' = "Closed" /\ claim' = "Available"
       ELSE UNCHANGED shared
  /\ Return
  /\ rxOff' = FALSE
  /\ UNCHANGED <<receive, config, opened, update, hwRx, reaper>>

\* The bias-off command; the device is closed if both commands succeeded.
ShutdownBias(answer) ==
  /\ op = "ShutdownBias"
  /\ hwBias' \in Settled(answer, hwBias, "Off")
  /\ IF rxOff /\ answer = "ok"
       THEN device' = "Closed" /\ claim' = "Available"
       ELSE UNCHANGED shared
  /\ Return
  /\ rxOff' = FALSE
  /\ UNCHANGED <<receive, config, opened, update, hwRx, reaper>>

\* The shutdown future is dropped while it waits for a transfer.
CancelShutdown ==
  /\ op \in {"ShutdownRx", "ShutdownBias"}
  /\ IF op = "ShutdownRx"
       THEN hwRx' \in Settled("cancelled", hwRx, "Off") /\ UNCHANGED hwBias
       ELSE hwBias' \in Settled("cancelled", hwBias, "Off") /\ UNCHANGED hwRx
  /\ Return
  /\ rxOff' = FALSE
  /\ UNCHANGED <<shared, receive, config, opened, update, reaper>>

-----------------------------------------------------------------------------
(* Dropping the handle, and Session::drop *)

DropHandle ==
  /\ op = "Idle"
  /\ op' = "Dropped"
  /\ owners' = owners \ {Handle}
  /\ UNCHANGED <<shared, receive, config, opened, update, rxOff, hardware,
                 reaper>>

\* A shutdown that was begun is taken for one that succeeded.
SessionDrop_Hasty ==
  /\ owners = {} /\ reaper = "Alive"
  /\ reaper' = IF device # "Open" THEN "Gone" ELSE "DropRx"
  /\ UNCHANGED <<shared, receive, owners, handleVars, hardware>>

\* The last Arc<Session> is gone.  A closed device needs nothing more.
SessionDrop ==
  /\ owners = {} /\ reaper = "Alive"
  /\ reaper' = IF device = "Closed" THEN "Gone" ELSE "DropRx"
  /\ UNCHANGED <<shared, receive, owners, handleVars, hardware>>

SessionDropRx(answer) ==
  /\ reaper = "DropRx"
  /\ hwRx' \in Settled(answer, hwRx, "Off")
  /\ reaper' = "DropBias"
  /\ UNCHANGED <<shared, receive, owners, handleVars, hwBias>>

SessionDropBias(answer) ==
  /\ reaper = "DropBias"
  /\ hwBias' \in Settled(answer, hwBias, "Off")
  /\ reaper' = "Gone"
  /\ UNCHANGED <<shared, receive, owners, handleVars, hwRx>>

SessionDropStep ==
  \/ SessionDrop
  \/ \E answer \in Answer : SessionDropRx(answer) \/ SessionDropBias(answer)

\* The device side, except the commit, whose effect on a stream's queue the
\* composed specification records.
DeviceNext ==
  \/ MetadataOk \/ MetadataErr
  \/ UpdateBegin \/ CommandOk \/ CommandErr \/ CancelApply
  \/ ShutdownBegin \/ CancelShutdown
  \/ \E answer \in Answer : ShutdownRx(answer) \/ ShutdownBias(answer)
  \/ DropHandle
  \/ SessionDropStep

-----------------------------------------------------------------------------
(* The claim, as streams use it (RxStreamClaim) *)

\* Only a held claim is refused.
AcquireClaim_Lax(s) ==
  /\ op = "Idle"
  /\ device = "Open" /\ claim # "Held"
  /\ claim' = "Held"
  /\ owners' = owners \cup {s}

\* acquire(): rx_stream() borrows the handle, so no handle operation is pending.
AcquireClaim(s) ==
  /\ op = "Idle"
  /\ device = "Open" /\ claim = "Available"
  /\ claim' = "Held"
  /\ owners' = owners \cup {s}

\* The claim is freed only on success, and otherwise stays as it is.
GiveUpClaim_Stuck(s, availability) ==
  /\ claim' = IF availability = "Available" THEN "Available" ELSE claim
  /\ owners' = owners \ {s}

\* A failed cleanup keeps its Arc.
GiveUpClaim_Leak(s, availability) ==
  /\ claim' = availability
  /\ owners' = IF availability = "Available" THEN owners \ {s} ELSE owners

\* A failed cleanup frees the claim like a successful one.
GiveUpClaim_Blind(s, availability) ==
  /\ claim' = "Available"
  /\ owners' = owners \ {s}

\* The stream lets go of the claim and of its Arc<Session>.
GiveUpClaim(s, availability) ==
  /\ claim' = availability
  /\ owners' = owners \ {s}

SessionTypeOK ==
  /\ device \in {"Open", "Closing", "Closed"}
  /\ claim \in {"Available", "Held", "CleanupRequired"}
  /\ receive \in Settings
  /\ owners \subseteq Stream \cup {Handle}
  /\ config \in Config
  /\ opened \in BOOLEAN
  /\ op \in {"Metadata", "Idle", "Apply", "ShutdownRx", "ShutdownBias", "Dropped"}
  /\ update \in Update
  /\ rxOff \in BOOLEAN
  /\ hwRx \in Switch
  /\ hwBias \in Switch
  /\ reaper \in {"Alive", "DropRx", "DropBias", "Gone"}
=============================================================================
