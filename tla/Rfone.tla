-------------------------------- MODULE Rfone --------------------------------
(***************************************************************************)
(* What the driver knows of the RFOne: its rates, gain tables and limits   *)
(* (src/src/rfone.rs), which settings it accepts (src/src/config.rs), and  *)
(* how a sample rate and a gain become vendor commands                     *)
(* (src/src/protocol.rs).  Operators only; an Option is a set of at most   *)
(* one element.                                                            *)
(*                                                                         *)
(* A definition whose name ends in _ and a word is the one after it with   *)
(* one plausible slip, and shows that some property would notice.          *)
(***************************************************************************)
EXTENDS Integers, Sequences

\* The firmware's rates, in the order of its table, as IQ and as raw rates.
FirmwareRates == <<10000000, 5000000, 2500000>>
RawRates      == <<20000000, 10000000, 5000000>>

\* The effective rates offered for IQ samples.
IqRates == {10000000, 5000000, 2500000, 1250000, 625000, 312500, 156250, 78125}

Factors == {64, 32, 16, 8, 4, 2, 1}

MinFrequency == 24000000
MaxFrequency == 1800000000
MaxPreset == 21
MaxLna    == 14
MaxMixer  == 15
MaxVga    == 15

Offered(mode) == IF mode = "RawAdc" THEN {RawRates[i] : i \in 1..3} ELSE IqRates

-----------------------------------------------------------------------------
(* Sample rates *)

\* Any factor will do.
Candidates_AnyFactor(rate) == {i \in 1..3 : rate # 0 /\ FirmwareRates[i] % rate = 0}

\* The firmware rates that the host can decimate to a rate.  A rate of 0 has
\* none: the divisions are checked.
Candidates(rate) ==
  {i \in 1..3 : /\ rate # 0
                /\ FirmwareRates[i] % rate = 0
                /\ FirmwareRates[i] \div rate \in Factors}

\* The table is in descending order.
Preferred(policy, found) ==
  CHOOSE i \in found : \A j \in found :
    IF policy = "LowBandwidth" THEN FirmwareRates[i] <= FirmwareRates[j]
                               ELSE FirmwareRates[i] >= FirmwareRates[j]

\* Raw samples are not decimated, which is taken for a factor of 0.
SampleRateConfig_Zero(mode, policy, rate) ==
  IF mode = "RawAdc"
    THEN {[param |-> i - 1, decimation |-> 0] : i \in {j \in 1..3 : RawRates[j] = rate}}
    ELSE {[param |-> i - 1, decimation |-> FirmwareRates[i] \div rate] : i \in Candidates(rate)}

\* An Option of the parameter to send and the factor left to the host.
SampleRateConfig(mode, policy, rate) ==
  IF mode = "RawAdc"
    THEN {[param |-> i - 1, decimation |-> 1] : i \in {j \in 1..3 : RawRates[j] = rate}}
    ELSE LET found == Candidates(rate)
         IN  IF found = {} THEN {}
             ELSE LET i == Preferred(policy, found)
                  IN  {[param |-> i - 1, decimation |-> FirmwareRates[i] \div rate]}

-----------------------------------------------------------------------------
(* Gains *)

\* A gain configuration is a preset of a table or the setting of every stage.
Linearity(value)   == [plan |-> "Linearity", value |-> value]
Sensitivity(value) == [plan |-> "Sensitivity", value |-> value]
Stages(lna, mixer, vga) == [plan |-> "Stages", lna |-> lna, mixer |-> mixer, vga |-> vga]

Manual(value) == [control |-> "Manual", value |-> value]
Agc           == [control |-> "Agc"]

StageGains == [control : {"Manual"}, value : Nat] \cup [control : {"Agc"}]

\* The values of the type GainConfig, valid or not.
GainSettings ==
  [plan : {"Linearity", "Sensitivity"}, value : Nat]
    \cup [plan : {"Stages"}, lna : StageGains, mixer : StageGains, vga : Nat]

\* From the highest gain to the lowest.
VgaGains ==
  [Linearity   |-> <<13, 12, 11, 11, 11, 11, 11, 10, 10, 10, 10,
                     10, 10, 10, 10, 10, 9, 8, 7, 6, 5, 4>>,
   Sensitivity |-> <<13, 12, 11, 10, 9, 8, 7, 6, 5, 5, 5,
                     5, 5, 4, 4, 4, 4, 4, 4, 4, 4, 4>>]
MixerGains ==
  [Linearity   |-> <<12, 12, 11, 9, 8, 7, 6, 6, 5, 0, 0,
                     1, 0, 0, 2, 2, 1, 1, 1, 1, 0, 0>>,
   Sensitivity |-> <<12, 12, 12, 12, 11, 10, 10, 9, 9, 8, 7,
                     4, 4, 4, 3, 2, 2, 1, 0, 0, 0, 0>>]
LnaGains ==
  [Linearity   |-> <<14, 14, 14, 13, 12, 10, 9, 9, 8, 9, 8,
                     6, 5, 3, 1, 0, 0, 0, 0, 0, 0, 0>>,
   Sensitivity |-> <<14, 14, 14, 14, 14, 14, 14, 14, 14, 13, 12,
                     12, 9, 9, 8, 7, 6, 5, 3, 2, 1, 0>>]

\* reverse_gain_table_index, as an index of a sequence.
TableIndex(value) == 1 + MaxPreset - (IF value > MaxPreset THEN MaxPreset ELSE value)

\* A vendor request: the register it writes and the value.
Write(reg, value) == [reg |-> reg, value |-> value]

\* One stage with an AGC of its own.
StagePlan(agc, gain, stage) ==
  IF stage.control = "Manual" THEN <<Write(agc, 0), Write(gain, stage.value)>>
                              ELSE <<Write(agc, 1)>>

PresetPlan(table, index) ==
  <<Write("MixerAgc", 0), Write("LnaAgc", 0), Write("VgaGain", VgaGains[table][index]),
    Write("MixerGain", MixerGains[table][index]), Write("LnaGain", LnaGains[table][index])>>

GainPlan(gain) ==
  IF gain.plan = "Stages"
    THEN StagePlan("LnaAgc", "LnaGain", gain.lna)
           \o StagePlan("MixerAgc", "MixerGain", gain.mixer)
           \o <<Write("VgaGain", gain.vga)>>
    ELSE PresetPlan(gain.plan, TableIndex(gain.value))

-----------------------------------------------------------------------------
(* Validation *)

ValidFrequency(f) == f \in MinFrequency..MaxFrequency

\* The limits of all stages taken to be the same.
StageWithin_Uniform(stage, max) == stage.control = "Manual" => stage.value <= MaxMixer

StageWithin(stage, max) == stage.control = "Manual" => stage.value <= max

ValidGain(gain) ==
  IF gain.plan = "Stages" THEN /\ StageWithin(gain.lna, MaxLna)
                               /\ StageWithin(gain.mixer, MaxMixer)
                               /\ gain.vga <= MaxVga
                          ELSE gain.value <= MaxPreset

\* Config::validate
ValidConfig(mode, c) ==
  /\ ValidFrequency(c.frequency)
  /\ c.rate \in Offered(mode)
  /\ ValidGain(c.gain)

=============================================================================
