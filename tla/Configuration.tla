---------------------------- MODULE Configuration ----------------------------
(***************************************************************************)
(* The settings of a device in their three places: the registers of the    *)
(* radio, which cannot be read back; the settings of the receiver          *)
(* (Session::receive); and the snapshot that Device::config() reports.     *)
(* Opening and the setters of src/src/device.rs write them, command by     *)
(* command, as src/src/protocol.rs lists the commands.  Any command may be *)
(* refused by the firmware, fail, or be cancelled half way.                *)
(*                                                                         *)
(* Registers are numbers, as in the requests: a switch is 0 or 1.          *)
(*                                                                         *)
(* A definition whose name ends in _ and a word is the one after it with   *)
(* one plausible slip, and shows that some property would notice.          *)
(***************************************************************************)
EXTENDS Rfone

CONSTANTS Mode,         \* the sample modes in which a device is opened
          Frequencies,  \* frequencies that are asked for, valid or not
          Rates,        \* sample rates that are asked for
          Ports,        \* RF ports, as numbers
          Gains,        \* gain configurations that are asked for
          Requests,     \* what is asked for as a whole, by mode, valid or not
          MaxFaults     \* bound on the commands that are refused or lost

ASSUME ModeAssumption == Mode \subseteq {"RawAdc", "F32Iq"}
ASSUME FaultsAssumption == MaxFaults \in Nat
ASSUME ValuesAssumption == Frequencies \subseteq Nat /\ Rates \subseteq Nat /\ Ports \subseteq Nat
ASSUME GainsAssumption == Gains \subseteq GainSettings

VARIABLES
  mode,     \* the M of Device<M>
  stage,    \* whether a device is closed, being opened, idle or updated
  hw,       \* the registers of the radio
  config,   \* the snapshot; while opening, the configuration to apply
  receive,  \* ReceiveSettings of the session
  update,   \* the update in progress
  faults    \* commands refused or lost so far

vars == <<mode, stage, hw, config, receive, update, faults>>

Register == {"Frequency", "Rate", "Port", "LnaAgc", "LnaGain", "MixerAgc",
             "MixerGain", "VgaGain", "Packing", "Bias"}

\* A register as an earlier program, or the AGC, may have left it.
Unknown == -1

Bit(b) == IF b THEN 1 ELSE 0

-----------------------------------------------------------------------------
(* Configurations and updates *)

\* Policies can be chosen for IQ samples only, packing for raw ones only.
PoliciesOf(m) == IF m = "RawAdc" THEN {"LowBandwidth"} ELSE {"LowBandwidth", "HighDefinition"}
PackingsOf(m) == IF m = "RawAdc" THEN BOOLEAN ELSE {FALSE}

\* The values of the type Config<M>, valid or not.
Settings(m) ==
  [frequency : Nat, rate : Nat, policy : PoliciesOf(m), port : Nat,
   gain : GainSettings, packing : PackingsOf(m), bias : BOOLEAN]

ASSUME RequestsAssumption == \A m \in Mode : Requests[m] \subseteq Settings(m)

\* Config::standard, which is also the state of a handle not yet opened.
Standard == [frequency |-> 100000000, rate |-> 10000000, policy |-> "LowBandwidth", port |-> 0,
             gain |-> Stages(Manual(14), Manual(15), 6), packing |-> FALSE, bias |-> FALSE]

InitialReceive == [packing |-> FALSE, decimation |-> 1]

\* The Config values that a ConfigBuilder builds.
Configs(m) == {c \in Requests[m] : ValidConfig(m, c)}

Selected(m, c) == SampleRateConfig(m, c.policy, c.rate)

\* protocol::configuration: every register, whatever the mode.
Commands_SkipPacking(m, c) ==
  <<Write("Frequency", c.frequency)>>
    \o <<Write("Rate", (CHOOSE s \in Selected(m, c) : TRUE).param), Write("Port", c.port)>>
    \o GainPlan(c.gain)
    \o (IF m = "RawAdc" THEN <<Write("Packing", Bit(c.packing))>> ELSE <<>>)
    \o <<Write("Bias", Bit(c.bias))>>

Commands(m, c) ==
  <<Write("Frequency", c.frequency)>>
    \o <<Write("Rate", (CHOOSE s \in Selected(m, c) : TRUE).param), Write("Port", c.port)>>
    \o GainPlan(c.gain)
    \o <<Write("Packing", Bit(c.packing)), Write("Bias", Bit(c.bias))>>

Field == {"frequency", "rate", "port", "gain", "packing", "bias"}

\* An update: the fields it is about, the commands still to send, and the
\* configuration and the receive settings to commit.
NoUpdate == [fields |-> {}, commands |-> <<>>, proposed |-> Standard, receive |-> InitialReceive]

Configure(m, c) ==
  [fields   |-> Field,
   commands |-> Commands(m, c),
   proposed |-> c,
   receive  |-> [packing    |-> c.packing,
                 decimation |-> (CHOOSE s \in Selected(m, c) : TRUE).decimation]]

Change(field, proposed, commands) ==
  [fields |-> {field}, commands |-> commands, proposed |-> proposed, receive |-> receive]

SetFrequency(f) ==
  Change("frequency", [config EXCEPT !.frequency = f], <<Write("Frequency", f)>>)

SetPort(p) == Change("port", [config EXCEPT !.port = p], <<Write("Port", p)>>)

SetGain(g) == Change("gain", [config EXCEPT !.gain = g], GainPlan(g))

SetBiasTee(on) == Change("bias", [config EXCEPT !.bias = on], <<Write("Bias", Bit(on))>>)

SetPacking(on) ==
  [Change("packing", [config EXCEPT !.packing = on], <<Write("Packing", Bit(on))>>)
     EXCEPT !.receive = [receive EXCEPT !.packing = on]]

\* set_sample_rate_hz and set_decimation_policy, with the selected rate.
UpdateRate(c, s) ==
  [Change("rate", c, <<Write("Rate", s.param)>>)
     EXCEPT !.receive = [receive EXCEPT !.decimation = s.decimation]]

RateUpdates(c) == {UpdateRate(c, s) : s \in Selected(mode, c)}

\* What only one mode offers.
ModeUpdates ==
  IF mode = "RawAdc"
    THEN {SetPacking(on) : on \in BOOLEAN}
    ELSE UNION {RateUpdates([config EXCEPT !.policy = p]) : p \in PoliciesOf(mode)}

\* What the handle sends for a call.  An invalid argument is refused before
\* anything is sent; a Config was validated when it was built.
Updates ==
  {Configure(mode, c) : c \in Configs(mode)}
    \cup {SetFrequency(f) : f \in {f \in Frequencies : ValidFrequency(f)}}
    \cup (UNION {RateUpdates([config EXCEPT !.rate = r]) : r \in Rates})
    \cup {SetPort(p) : p \in Ports}
    \cup {SetGain(g) : g \in {g \in Gains : ValidGain(g)}}
    \cup {SetBiasTee(on) : on \in BOOLEAN}
    \cup ModeUpdates

-----------------------------------------------------------------------------
(* The radio *)

\* A stage whose AGC is on, or may be, has a gain nobody knows.
Tuned(h) ==
  [h EXCEPT !.LnaGain   = IF h.LnaAgc = 0 THEN @ ELSE Unknown,
            !.MixerGain = IF h.MixerAgc = 0 THEN @ ELSE Unknown]

After(h, c) == Tuned([h EXCEPT ![c.reg] = c.value])

\* The responses of the firmware: the first byte, and the registers then.
\* Only a rate and a port can be refused.
Responses(c) ==
  {[byte |-> 1, registers |-> After(hw, c)]}
    \cup (IF c.reg \in {"Rate", "Port"} THEN {[byte |-> 0, registers |-> hw]} ELSE {})

\* InRequest::validate
Accepted(c, byte) == c.reg \in {"Rate", "Port"} => byte = 1

-----------------------------------------------------------------------------
Init ==
  /\ mode \in Mode
  /\ stage = "Closed"
  /\ hw = [r \in Register |-> Unknown]
  /\ config = Standard
  /\ receive = InitialReceive
  /\ update = NoUpdate
  /\ faults = 0

\* DeviceBuilder::open, after the metadata: Session::new and configure.
Open(m, c) ==
  /\ stage = "Closed"
  /\ stage' = "Opening"
  /\ mode' = m
  /\ update' = Configure(m, c)
  /\ UNCHANGED <<hw, config, receive, faults>>

\* A call of a setter, at its first poll.
Update(u) ==
  /\ stage = "Idle"
  /\ stage' = "Updating"
  /\ update' = u
  /\ UNCHANGED <<mode, hw, config, receive, faults>>

\* The handle and its session are gone.
Discard ==
  /\ stage' = "Closed"
  /\ config' = Standard
  /\ receive' = InitialReceive
  /\ update' = NoUpdate

\* The registers after a cleanup, whose commands may be lost.
CleanedUp(h) == {h, [h EXCEPT !.Bias = 0]}

\* An update that ends early leaves the handle as it was; an opening that
\* ends early is undone.
GiveUp(registers) ==
  \/ /\ stage = "Updating"
     /\ stage' = "Idle"
     /\ hw' = registers
     /\ update' = NoUpdate
     /\ UNCHANGED <<config, receive>>
  \/ /\ stage = "Opening"
     /\ hw' \in CleanedUp(registers)
     /\ Discard

\* apply_update and Session::apply: the last response commits both copies.
Commit ==
  /\ stage' = "Idle"
  /\ config' = update.proposed
  /\ receive' = update.receive
  /\ update' = NoUpdate

Busy == stage \in {"Opening", "Updating"}

\* A response that the driver accepts; the next command is sent.
Answered ==
  /\ Busy
  /\ \E r \in Responses(Head(update.commands)) :
       /\ Accepted(Head(update.commands), r.byte)
       /\ hw' = r.registers
  /\ IF Len(update.commands) = 1
       THEN Commit
       ELSE /\ update' = [update EXCEPT !.commands = Tail(@)]
            /\ UNCHANGED <<stage, config, receive>>
  /\ UNCHANGED <<mode, faults>>

\* A response that says the firmware refuses.
Refused ==
  /\ Busy
  /\ faults < MaxFaults
  /\ \E r \in Responses(Head(update.commands)) :
       /\ ~Accepted(Head(update.commands), r.byte)
       /\ GiveUp(r.registers)
  /\ faults' = faults + 1
  /\ UNCHANGED mode

\* A transfer fails or times out, or the operation is cancelled while it
\* waits: the command may have arrived or not.
Lost ==
  /\ Busy
  /\ faults < MaxFaults
  /\ \E registers \in {hw, After(hw, Head(update.commands))} : GiveUp(registers)
  /\ faults' = faults + 1
  /\ UNCHANGED mode

\* Shutdown, the end of the last owner, or of the program.
Close ==
  /\ stage = "Idle"
  /\ hw' \in CleanedUp(hw)
  /\ Discard
  /\ UNCHANGED <<mode, faults>>

Next ==
  \/ \E m \in Mode : \E c \in Configs(m) : Open(m, c)
  \/ \E u \in Updates : Update(u)
  \/ Answered
  \/ Refused
  \/ Lost
  \/ Close

Spec == Init /\ [][Next]_vars

-----------------------------------------------------------------------------
(* Properties *)

\* A stage of the amplifier is as asked for: an AGC is on, or it is off and
\* the gain is that.
StageHolds(agc, gain, stageGain) ==
  IF stageGain.control = "Agc" THEN hw[agc] = 1
                               ELSE hw[agc] = 0 /\ hw[gain] = stageGain.value

\* The entry of a gain table for a preset, which counts from the lowest gain.
Entry(table, gain) == table[gain.plan][22 - gain.value]

GainHolds(gain) ==
  IF gain.plan = "Stages"
    THEN /\ StageHolds("LnaAgc", "LnaGain", gain.lna)
         /\ StageHolds("MixerAgc", "MixerGain", gain.mixer)
         /\ hw["VgaGain"] = gain.vga
    ELSE /\ StageHolds("LnaAgc", "LnaGain", Manual(Entry(LnaGains, gain)))
         /\ StageHolds("MixerAgc", "MixerGain", Manual(Entry(MixerGains, gain)))
         /\ hw["VgaGain"] = Entry(VgaGains, gain)

\* The firmware rates from which the host can make a rate.
Sources(rate) == {i \in 1..3 : FirmwareRates[i] \in {rate * d : d \in Factors}}

\* The samples come at the rate asked for: that of the firmware is the product
\* of the rate and the host's factor, and no other that the policy prefers
\* would do.
RateHolds ==
  /\ hw["Rate"] \in 0..2
  /\ LET i == hw["Rate"] + 1
     IN  IF mode = "RawAdc"
           THEN RawRates[i] = config.rate /\ receive.decimation = 1
           ELSE /\ FirmwareRates[i] = config.rate * receive.decimation
                /\ i \in Sources(config.rate)
                /\ \A j \in Sources(config.rate) :
                     IF config.policy = "LowBandwidth"
                       THEN FirmwareRates[j] >= FirmwareRates[i]
                       ELSE FirmwareRates[j] <= FirmwareRates[i]

\* Whether the radio and the receiver do what the snapshot says in a field.
Holds(field) ==
  \/ field = "frequency" /\ hw["Frequency"] = config.frequency
  \/ field = "rate" /\ RateHolds
  \/ field = "port" /\ hw["Port"] = config.port
  \/ field = "gain" /\ GainHolds(config.gain)
  \/ field = "packing" /\ hw["Packing"] = Bit(config.packing) /\ receive.packing = config.packing
  \/ field = "bias" /\ hw["Bias"] = Bit(config.bias)

IsOpen == stage \in {"Idle", "Updating"}

Wrong == {field \in Field : IsOpen /\ ~Holds(field)}

Promise == INSTANCE SettingsPromise WITH
  open     <- IsOpen,
  snapshot <- [frequency |-> config.frequency, rate |-> <<config.rate, config.policy>>,
               port |-> config.port, gain |-> config.gain,
               packing |-> config.packing, bias |-> config.bias],
  wrong    <- Wrong,
  touched  <- IF stage = "Updating" THEN update.fields ELSE {}

\* Device::config() is the configuration last successfully applied
\* (device.rs:101): an update that succeeds leaves radio and receiver as the
\* snapshot says in all it is about, whatever failed updates, an earlier
\* program or the AGC left there; one that fails changes nothing of the
\* snapshot and spoils at most what it is about; opening repairs everything.
ImplementsPromise == Promise!Spec

\* The snapshot always passes the validation of a configuration, though the
\* setters check their arguments one by one; so it can be configured again and
\* the expect() of protocol.rs:279 does not fail.
SnapshotIsValid == ValidConfig(mode, config) /\ Selected(mode, config) # {}

\* No command asks a stage of the radio for more than it has, whatever
\* combination of presets, stages and modes came before.
RegistersInRange ==
  /\ hw["Frequency"] = Unknown \/ ValidFrequency(hw["Frequency"])
  /\ hw["Rate"] \in {Unknown} \cup 0..2
  /\ hw["LnaGain"] \in {Unknown} \cup 0..MaxLna
  /\ hw["MixerGain"] \in {Unknown} \cup 0..MaxMixer
  /\ hw["VgaGain"] \in {Unknown} \cup 0..MaxVga

\* Values, and commands left exactly while an operation is busy.
TypeOK ==
  /\ mode \in Mode
  /\ stage \in {"Closed", "Opening", "Idle", "Updating"}
  /\ DOMAIN hw = Register
  /\ \A r \in {"LnaAgc", "MixerAgc", "Packing", "Bias"} : hw[r] \in {Unknown, 0, 1}
  /\ receive \in [packing : PackingsOf(mode), decimation : Factors]
  /\ faults \in 0..MaxFaults
  /\ Busy <=> update.commands # <<>>
  /\ Busy <=> update.fields # {}

=============================================================================
