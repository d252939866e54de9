------------------------- MODULE ConfigurationProofs -------------------------
(***************************************************************************)
(* Theorems about Configuration, for any values that are asked for and any *)
(* number of faults: types, the snapshot is always valid, no register is   *)
(* written out of its range, and the promise of Device::config() is kept.  *)
(* They rest on what is shown first of the updates: a rate is served       *)
(* exactly if it is offered, and every update sends commands in range      *)
(* which make all that it proposes and no more.                            *)
(***************************************************************************)
EXTENDS Configuration, SequenceTheorems, TLAPS

(***************************************************************************)
(* Rates                                                                   *)
(***************************************************************************)

\* The table of the firmware is in descending order.
LEMMA RatesDescend ==
  /\ \A i \in 1..3 : FirmwareRates[i] \in Nat
  /\ \A i, j \in 1..3 : FirmwareRates[i] >= FirmwareRates[j] <=> i <= j
BY SMT DEF FirmwareRates

\* Of some firmware rates there is a best one.
LEMMA PreferredFound ==
  ASSUME NEW policy, NEW found \in SUBSET (1..3), found # {}
  PROVE  /\ Preferred(policy, found) \in found
         /\ \A j \in found :
              IF policy = "LowBandwidth"
                THEN FirmwareRates[Preferred(policy, found)] <= FirmwareRates[j]
                ELSE FirmwareRates[Preferred(policy, found)] >= FirmwareRates[j]
<1> DEFINE Best(i) == \A j \in found : IF policy = "LowBandwidth"
                                         THEN FirmwareRates[i] <= FirmwareRates[j]
                                         ELSE FirmwareRates[i] >= FirmwareRates[j]
<1>1. \A i, j \in found : (i <= j <=> FirmwareRates[i] >= FirmwareRates[j])
                            /\ (i >= j <=> FirmwareRates[i] <= FirmwareRates[j])
  BY RatesDescend
<1>2. \E i \in found : \A j \in found : i <= j
  <2>1. found \subseteq {1, 2, 3}
    OBVIOUS
  <2>2. CASE 1 \in found   BY <2>2
  <2>3. CASE 1 \notin found /\ 2 \in found   BY <2>1, <2>3
  <2>4. CASE 1 \notin found /\ 2 \notin found
    <3>1. found = {3}   BY <2>1, <2>4
    <3> QED  BY <3>1
  <2> QED  BY <2>2, <2>3, <2>4
<1>3. \E i \in found : \A j \in found : i >= j
  <2>1. found \subseteq {1, 2, 3}
    OBVIOUS
  <2>2. CASE 3 \in found   BY <2>2
  <2>3. CASE 3 \notin found /\ 2 \in found   BY <2>1, <2>3
  <2>4. CASE 3 \notin found /\ 2 \notin found
    <3>1. found = {1}   BY <2>1, <2>4
    <3> QED  BY <3>1
  <2> QED  BY <2>2, <2>3, <2>4
<1>4. \E i \in found : Best(i)
  <2>1. CASE policy = "LowBandwidth"   BY <1>1, <1>3, <2>1
  <2>2. CASE policy # "LowBandwidth"   BY <1>1, <1>2, <2>2
  <2> QED  BY <2>1, <2>2
<1> HIDE DEF Best
<1>5. LET i == CHOOSE i \in found : Best(i) IN i \in found /\ Best(i)
  BY <1>4
<1> QED  BY <1>5 DEF Preferred, Best

\* A rate that divides another with a given factor is the quotient.
LEMMA Quotient ==
  ASSUME NEW a \in Nat, NEW r \in Nat, r # 0, NEW d \in Nat
  PROVE  (a % r = 0 /\ a \div r = d) <=> a = r * d
OBVIOUS

\* The candidates for a rate are the firmware rates that a factor makes of it.
LEMMA CandidatesAreSources ==
  ASSUME NEW rate \in Nat, rate # 0
  PROVE  Candidates(rate) = Sources(rate)
<1> DEFINE a(i) == FirmwareRates[i]
<1>1. ASSUME NEW i \in 1..3
      PROVE  (a(i) % rate = 0 /\ a(i) \div rate \in Factors) <=> \E d \in Factors : a(i) = rate * d
  <2>1. Factors \subseteq Nat
    BY SMT DEF Factors
  <2>2. \A d \in Factors : (a(i) % rate = 0 /\ a(i) \div rate = d) <=> a(i) = rate * d
    BY <2>1, RatesDescend, Quotient
  <2> QED  BY <2>2
<1> QED  BY <1>1 DEF Candidates, Sources

\* Exactly the offered IQ rates can be decimated to.
LEMMA IqRatesHaveSources ==
  ASSUME NEW rate \in Nat
  PROVE  Sources(rate) # {} <=> rate \in IqRates
<1>1. ASSUME rate \in IqRates
      PROVE  Sources(rate) # {}
  <2> DEFINE Source(i) == \E d \in Factors : FirmwareRates[i] = rate * d
  <2>1. rate = 78125 \/ \E d \in Factors : 10000000 = rate * d
    BY SMT, <1>1 DEF IqRates, Factors
  <2>2. rate = 78125 => \E d \in Factors : 5000000 = rate * d
    BY SMT DEF Factors
  <2>3. FirmwareRates[1] = 10000000 /\ FirmwareRates[2] = 5000000
    BY SMT DEF FirmwareRates
  <2>4. 1 \in Sources(rate) \/ 2 \in Sources(rate)
    BY SMT, <2>1, <2>2, <2>3 DEF Sources
  <2> QED  BY <2>4
<1>2. ASSUME NEW i \in Sources(rate)
      PROVE  rate \in IqRates
  <2>1. PICK d \in Factors : FirmwareRates[i] = rate * d
    BY DEF Sources
  <2>2. FirmwareRates[i] \in {10000000, 5000000, 2500000}
    BY SMT DEF FirmwareRates, Sources
  <2>3. CASE d \in {1, 2, 4, 8}
    BY SMT, <2>1, <2>2, <2>3 DEF IqRates
  <2>4. CASE d \in {16, 32, 64}
    BY SMT, <2>1, <2>2, <2>4 DEF IqRates
  <2> QED  BY <2>1, <2>3, <2>4 DEF Factors
<1> QED  BY <1>1, <1>2

\* Whether a parameter and a factor make the samples that a configuration asks for.
RateServed(m, c, param, decimation) ==
  /\ param \in 0..2
  /\ LET i == param + 1
     IN  IF m = "RawAdc"
           THEN RawRates[i] = c.rate /\ decimation = 1
           ELSE /\ FirmwareRates[i] = c.rate * decimation
                /\ i \in Sources(c.rate)
                /\ \A j \in Sources(c.rate) :
                     IF c.policy = "LowBandwidth"
                       THEN FirmwareRates[j] >= FirmwareRates[i]
                       ELSE FirmwareRates[j] <= FirmwareRates[i]

\* A rate is selected exactly if the mode offers it, whatever the policy: the
\* table of effective rates and the search for a firmware rate agree.
THEOREM RateServedIffOffered ==
  ASSUME NEW m \in {"RawAdc", "F32Iq"}, NEW policy, NEW rate \in Nat
  PROVE  SampleRateConfig(m, policy, rate) # {} <=> rate \in Offered(m)
<1>1. CASE m = "RawAdc"
  <2>1. Offered(m) = {RawRates[i] : i \in 1..3}
    BY <1>1 DEF Offered
  <2>2. SampleRateConfig(m, policy, rate)
          = {[param |-> i - 1, decimation |-> 1] : i \in {j \in 1..3 : RawRates[j] = rate}}
    BY <1>1 DEF SampleRateConfig
  <2> QED  BY <2>1, <2>2
<1>2. CASE m = "F32Iq"
  <2>1. Candidates(rate) # {} <=> rate \in IqRates
    <3>1. CASE rate = 0   BY SMT, <3>1 DEF Candidates, IqRates
    <3>2. CASE rate # 0   BY <3>2, CandidatesAreSources, IqRatesHaveSources
    <3> QED  BY <3>1, <3>2
  <2>2. SampleRateConfig(m, policy, rate) # {} <=> Candidates(rate) # {}
    BY <1>2 DEF SampleRateConfig
  <2>3. Offered(m) = IqRates
    BY <1>2 DEF Offered
  <2> QED  BY <2>1, <2>2, <2>3
<1> QED  BY <1>1, <1>2

\* What is selected for a configuration serves it, with a factor of the host.
LEMMA SelectedServes ==
  ASSUME NEW m \in {"RawAdc", "F32Iq"}, NEW c, c.rate \in Nat,
         NEW s \in Selected(m, c)
  PROVE  /\ RateServed(m, c, s.param, s.decimation)
         /\ s.param \in 0..2
         /\ s.decimation \in Factors
<1>1. CASE m = "RawAdc"
  <2>1. PICK i \in 1..3 : RawRates[i] = c.rate /\ s = [param |-> i - 1, decimation |-> 1]
    BY <1>1 DEF Selected, SampleRateConfig
  <2>2. s.param + 1 = i /\ s.param \in 0..2 /\ s.decimation = 1
    BY <2>1
  <2> QED  BY <1>1, <2>1, <2>2 DEF RateServed, Factors
<1>2. CASE m = "F32Iq"
  <2> DEFINE i == Preferred(c.policy, Candidates(c.rate))
  <2>1. Candidates(c.rate) # {}
        /\ s = [param |-> i - 1, decimation |-> FirmwareRates[i] \div c.rate]
    BY <1>2 DEF Selected, SampleRateConfig
  <2>2. c.rate # 0
    BY <2>1 DEF Candidates
  <2>3. Candidates(c.rate) \in SUBSET (1..3) /\ Candidates(c.rate) = Sources(c.rate)
    BY <2>2, CandidatesAreSources DEF Sources
  <2>4. /\ i \in Candidates(c.rate)
        /\ \A j \in Candidates(c.rate) :
             IF c.policy = "LowBandwidth" THEN FirmwareRates[i] <= FirmwareRates[j]
                                          ELSE FirmwareRates[i] >= FirmwareRates[j]
    BY <2>1, <2>3, PreferredFound
  <2>5. i \in 1..3 /\ FirmwareRates[i] % c.rate = 0 /\ FirmwareRates[i] \div c.rate \in Factors
    BY <2>4 DEF Candidates
  <2> HIDE DEF i
  <2>6. s.param + 1 = i /\ s.param \in 0..2 /\ s.decimation = FirmwareRates[i] \div c.rate
    BY <2>1, <2>5
  <2>7. FirmwareRates[i] = c.rate * s.decimation
    <3>1. s.decimation \in Nat
      BY <2>5, <2>6 DEF Factors
    <3>2. FirmwareRates[i] \in Nat
      BY <2>5, RatesDescend
    <3>3. FirmwareRates[i] % c.rate = 0 /\ FirmwareRates[i] \div c.rate = s.decimation
      BY <2>5, <2>6
    <3> QED  BY <2>2, <3>1, <3>2, <3>3, Quotient
  <2>8. \A j \in Sources(c.rate) : IF c.policy = "LowBandwidth"
                                     THEN FirmwareRates[j] >= FirmwareRates[i]
                                     ELSE FirmwareRates[j] <= FirmwareRates[i]
    <3>1. \A j \in Sources(c.rate) : FirmwareRates[j] \in Nat
      BY RatesDescend DEF Sources
    <3> QED  BY <2>3, <2>4, <2>5, <3>1, RatesDescend
  <2> QED  BY <1>2, <2>3, <2>4, <2>5, <2>6, <2>7, <2>8 DEF RateServed
<1> QED  BY <1>1, <1>2

(***************************************************************************)
(* Commands                                                                *)
(***************************************************************************)

\* The values that a register takes.
InRange(r, v) ==
  /\ r = "Frequency" => ValidFrequency(v)
  /\ r = "Rate" => v \in 0..2
  /\ r = "LnaGain" => v <= MaxLna
  /\ r = "MixerGain" => v <= MaxMixer
  /\ r = "VgaGain" => v <= MaxVga
  /\ r \in {"LnaAgc", "MixerAgc", "Packing", "Bias"} => v \in {0, 1}

Command == {c \in [reg : Register, value : Nat] : InRange(c.reg, c.value)}

\* A request with a value in range.
LEMMA WriteIsCommand ==
  ASSUME NEW r \in Register, NEW v \in Nat, InRange(r, v)
  PROVE  Write(r, v) \in Command /\ Write(r, v).reg = r /\ Write(r, v).value = v
BY DEF Write, Command

\* An entry of a gain table is in the range of its stage.
LEMMA TablesInRange ==
  ASSUME NEW t \in {"Linearity", "Sensitivity"}, NEW i \in 1..22
  PROVE  /\ VgaGains[t][i] \in 0..MaxVga
         /\ MixerGains[t][i] \in 0..MaxMixer
         /\ LnaGains[t][i] \in 0..MaxLna
<1>1. CASE t = "Linearity"
  <2>1. VgaGains[t][i] \in 0..MaxVga   BY <1>1 DEF VgaGains, MaxVga
  <2>2. MixerGains[t][i] \in 0..MaxMixer   BY <1>1 DEF MixerGains, MaxMixer
  <2>3. LnaGains[t][i] \in 0..MaxLna   BY <1>1 DEF LnaGains, MaxLna
  <2> QED  BY <2>1, <2>2, <2>3
<1>2. CASE t = "Sensitivity"
  <2>1. VgaGains[t][i] \in 0..MaxVga   BY <1>2 DEF VgaGains, MaxVga
  <2>2. MixerGains[t][i] \in 0..MaxMixer   BY <1>2 DEF MixerGains, MaxMixer
  <2>3. LnaGains[t][i] \in 0..MaxLna   BY <1>2 DEF LnaGains, MaxLna
  <2> QED  BY <2>1, <2>2, <2>3
<1> QED  BY <1>1, <1>2

\* No command of a list writes to a register of R.
Avoids(commands, R) == \A k \in DOMAIN commands : commands[k].reg \notin R

\* The last command of a list that writes to a register of R is c.
Last(commands, R, c) ==
  \E k \in DOMAIN commands :
    /\ commands[k] = c
    /\ \A j \in DOMAIN commands : j > k => commands[j].reg \notin R

\* Two lists one after the other: what both avoid,
LEMMA AvoidsConcat ==
  ASSUME NEW s \in Seq(Command), NEW t \in Seq(Command), NEW R,
         Avoids(s, R), Avoids(t, R)
  PROVE  Avoids(s \o t, R)
BY ConcatProperties, LenProperties DEF Avoids

\* what the second ends with,
LEMMA LastInRight ==
  ASSUME NEW s \in Seq(Command), NEW t \in Seq(Command), NEW R, NEW c, Last(t, R, c)
  PROVE  Last(s \o t, R, c)
<1>1. PICK k \in DOMAIN t : t[k] = c /\ \A j \in DOMAIN t : j > k => t[j].reg \notin R
  BY DEF Last
<1>2. /\ s \o t \in Seq(Command) /\ Len(s \o t) = Len(s) + Len(t)
      /\ \A i \in 1..Len(s \o t) : (s \o t)[i] = IF i <= Len(s) THEN s[i] ELSE t[i - Len(s)]
  BY ConcatProperties
<1>3. k \in 1..Len(t) /\ Len(s) \in Nat /\ Len(t) \in Nat /\ DOMAIN t = 1..Len(t)
  BY LenProperties
<1>4. Len(s) + k \in DOMAIN (s \o t) /\ (s \o t)[Len(s) + k] = c
  BY <1>1, <1>2, <1>3, LenProperties
<1>5. \A j \in DOMAIN (s \o t) : j > Len(s) + k => (s \o t)[j].reg \notin R
  BY <1>1, <1>2, <1>3, LenProperties
<1> QED  BY <1>4, <1>5 DEF Last

\* and what the first ends with, if the second does not touch it.
LEMMA LastInLeft ==
  ASSUME NEW s \in Seq(Command), NEW t \in Seq(Command), NEW R, NEW c,
         Last(s, R, c), Avoids(t, R)
  PROVE  Last(s \o t, R, c)
<1>1. PICK k \in DOMAIN s : s[k] = c /\ \A j \in DOMAIN s : j > k => s[j].reg \notin R
  BY DEF Last
<1>2. /\ s \o t \in Seq(Command) /\ Len(s \o t) = Len(s) + Len(t)
      /\ \A i \in 1..Len(s \o t) : (s \o t)[i] = IF i <= Len(s) THEN s[i] ELSE t[i - Len(s)]
  BY ConcatProperties
<1>3. /\ k \in 1..Len(s) /\ Len(s) \in Nat /\ Len(t) \in Nat
      /\ DOMAIN s = 1..Len(s) /\ DOMAIN t = 1..Len(t)
  BY LenProperties
<1>4. k \in DOMAIN (s \o t) /\ (s \o t)[k] = c
  BY <1>1, <1>2, <1>3, LenProperties
<1>5. \A j \in DOMAIN (s \o t) : j > k => (s \o t)[j].reg \notin R
  <2> TAKE j \in DOMAIN (s \o t)
  <2>1. j \in 1..(Len(s) + Len(t))   BY <1>2, LenProperties
  <2>2. CASE j <= Len(s)   BY <1>1, <1>2, <1>3, <2>1, <2>2
  <2>3. CASE j > Len(s)   BY <1>2, <1>3, <2>1, <2>3 DEF Avoids
  <2> QED  BY <1>3, <2>1, <2>2, <2>3
<1> QED  BY <1>4, <1>5 DEF Last

\* What is left of a list after its first command.
LEMMA AfterTheFirst ==
  ASSUME NEW s \in Seq(Command), s # <<>>
  PROVE  /\ Head(s) \in Command /\ Tail(s) \in Seq(Command)
         /\ Tail(s) = <<>> <=> Len(s) = 1
         /\ \A R : Avoids(s, R) => Head(s).reg \notin R /\ Avoids(Tail(s), R)
         /\ \A R, c : Last(s, R, c) => (Head(s) = c /\ Avoids(Tail(s), R)) \/ Last(Tail(s), R, c)
<1>1. /\ Head(s) \in Command /\ Head(s) = s[1]
      /\ Tail(s) \in Seq(Command) /\ Len(Tail(s)) = Len(s) - 1
      /\ \A i \in 1..Len(Tail(s)) : Tail(s)[i] = s[i + 1]
      /\ Len(s) \in Nat /\ Len(s) >= 1
  BY HeadTailProperties, LenProperties, EmptySeq
<1>2. DOMAIN s = 1..Len(s) /\ DOMAIN Tail(s) = 1..(Len(s) - 1)
  BY <1>1, LenProperties
<1>3. Tail(s) = <<>> <=> Len(s) = 1
  <2>1. Tail(s) = <<>> <=> Len(Tail(s)) = 0
    BY <1>1, EmptySeq
  <2> QED  BY <1>1, <2>1
<1>4. ASSUME NEW R, Avoids(s, R)
      PROVE  Head(s).reg \notin R /\ Avoids(Tail(s), R)
  BY <1>1, <1>2, <1>4 DEF Avoids
<1>5. ASSUME NEW R, NEW c, Last(s, R, c)
      PROVE  (Head(s) = c /\ Avoids(Tail(s), R)) \/ Last(Tail(s), R, c)
  <2>1. PICK k \in 1..Len(s) : s[k] = c /\ \A j \in 1..Len(s) : j > k => s[j].reg \notin R
    BY <1>2, <1>5 DEF Last
  <2>2. CASE k = 1
    BY <1>1, <1>2, <2>1, <2>2 DEF Avoids
  <2>3. CASE k > 1
    <3>1. k - 1 \in DOMAIN Tail(s) /\ Tail(s)[k - 1] = c
      BY <1>1, <1>2, <2>1, <2>3
    <3>2. \A j \in DOMAIN Tail(s) : j > k - 1 => Tail(s)[j].reg \notin R
      BY <1>1, <1>2, <2>1, <2>3
    <3> QED  BY <3>1, <3>2 DEF Last
  <2> QED  BY <1>1, <2>1, <2>2, <2>3
<1> QED  BY <1>1, <1>3, <1>4, <1>5

(***************************************************************************)
(* Gains                                                                   *)
(***************************************************************************)

GainRegister == {"LnaAgc", "LnaGain", "MixerAgc", "MixerGain", "VgaGain"}

\* What a gain configuration asks of each stage.
Lna(gain)   == IF gain.plan = "Stages" THEN gain.lna ELSE Manual(Entry(LnaGains, gain))
Mixer(gain) == IF gain.plan = "Stages" THEN gain.mixer ELSE Manual(Entry(MixerGains, gain))
Vga(gain)   == IF gain.plan = "Stages" THEN gain.vga ELSE Entry(VgaGains, gain)

\* A list of commands ends with what is asked of a stage.
StageLast(s, agc, gain, stageGain) ==
  IF stageGain.control = "Agc"
    THEN Last(s, {agc}, Write(agc, 1))
    ELSE Last(s, {agc}, Write(agc, 0)) /\ Last(s, {agc, gain}, Write(gain, stageGain.value))

GainLast(s, gain) ==
  /\ StageLast(s, "LnaAgc", "LnaGain", Lna(gain))
  /\ StageLast(s, "MixerAgc", "MixerGain", Mixer(gain))
  /\ Last(s, {"VgaGain"}, Write("VgaGain", Vga(gain)))

\* The commands of one stage set it, and nothing else.
LEMMA StagePlanSets ==
  ASSUME NEW agc \in {"LnaAgc", "MixerAgc"}, NEW gain \in {"LnaGain", "MixerGain"},
         NEW stageGain \in StageGains,
         stageGain.control = "Manual" => InRange(gain, stageGain.value)
  PROVE  /\ StagePlan(agc, gain, stageGain) \in Seq(Command)
         /\ StageLast(StagePlan(agc, gain, stageGain), agc, gain, stageGain)
         /\ Avoids(StagePlan(agc, gain, stageGain), Register \ {agc, gain})
<1>1. {agc, gain} \subseteq Register /\ agc # gain
  BY DEF Register
<1>2. InRange(agc, 0) /\ InRange(agc, 1)
  BY DEF InRange
<1>3. CASE stageGain.control = "Manual"
  <2>1. stageGain.value \in Nat
    BY <1>3 DEF StageGains
  <2> DEFINE c == Write(agc, 0)
             d == Write(gain, stageGain.value)
  <2>2. c \in Command /\ c.reg = agc /\ d \in Command /\ d.reg = gain
    BY <1>1, <1>2, <1>3, <2>1, WriteIsCommand
  <2>3. StagePlan(agc, gain, stageGain) = <<c, d>>
    BY <1>3 DEF StagePlan
  <2>4. stageGain.control # "Agc"
    BY <1>3
  <2> HIDE DEF c, d
  <2>5. <<c, d>> \in Seq(Command)
    BY <2>2
  <2>6. Last(<<c, d>>, {agc}, c) /\ Last(<<c, d>>, {agc, gain}, d)
    BY <1>1, <2>2 DEF Last
  <2>7. Avoids(<<c, d>>, Register \ {agc, gain})
    BY <2>2 DEF Avoids
  <2> QED  BY <2>3, <2>4, <2>5, <2>6, <2>7 DEF StageLast, c, d
<1>4. CASE stageGain.control = "Agc"
  <2> DEFINE c == Write(agc, 1)
  <2>1. c \in Command /\ c.reg = agc
    BY <1>1, <1>2, WriteIsCommand
  <2>2. StagePlan(agc, gain, stageGain) = <<c>>
    BY <1>4 DEF StagePlan
  <2> HIDE DEF c
  <2>3. <<c>> \in Seq(Command) /\ Last(<<c>>, {agc}, c) /\ Avoids(<<c>>, Register \ {agc, gain})
    BY <2>1 DEF Last, Avoids
  <2> QED  BY <1>4, <2>2, <2>3 DEF StageLast, c
<1> QED  BY <1>3, <1>4 DEF StageGains

\* What avoids a stage leaves the last word on it to what comes before.
LEMMA StageLastConcat ==
  ASSUME NEW s \in Seq(Command), NEW t \in Seq(Command), NEW agc, NEW gain, NEW stageGain
  PROVE  /\ StageLast(t, agc, gain, stageGain) => StageLast(s \o t, agc, gain, stageGain)
         /\ StageLast(s, agc, gain, stageGain) /\ Avoids(t, {agc, gain})
              => StageLast(s \o t, agc, gain, stageGain)
<1>1. Avoids(t, {agc, gain}) => Avoids(t, {agc})
  BY DEF Avoids
<1> QED  BY <1>1, LastInLeft, LastInRight DEF StageLast

\* The commands of a gain configuration set every stage as asked, the AGC of a
\* stage before its gain, and nothing but stages.
LEMMA GainPlanSets ==
  ASSUME NEW gain \in GainSettings, ValidGain(gain)
  PROVE  /\ GainPlan(gain) \in Seq(Command)
         /\ GainPlan(gain) # <<>>
         /\ GainLast(GainPlan(gain), gain)
         /\ Avoids(GainPlan(gain), Register \ GainRegister)
<1>1. CASE gain.plan = "Stages"
  <2>1. /\ gain.lna \in StageGains /\ gain.mixer \in StageGains /\ gain.vga \in Nat
        /\ gain.lna.control = "Manual" => InRange("LnaGain", gain.lna.value)
        /\ gain.mixer.control = "Manual" => InRange("MixerGain", gain.mixer.value)
        /\ InRange("VgaGain", gain.vga)
    BY <1>1 DEF GainSettings, ValidGain, StageWithin, InRange
  <2> DEFINE l == StagePlan("LnaAgc", "LnaGain", gain.lna)
             m == StagePlan("MixerAgc", "MixerGain", gain.mixer)
             c == Write("VgaGain", gain.vga)
             v == <<c>>
  <2>2. /\ l \in Seq(Command)
        /\ StageLast(l, "LnaAgc", "LnaGain", gain.lna)
        /\ Avoids(l, Register \ {"LnaAgc", "LnaGain"})
    BY <2>1, StagePlanSets
  <2>3. /\ m \in Seq(Command)
        /\ StageLast(m, "MixerAgc", "MixerGain", gain.mixer)
        /\ Avoids(m, Register \ {"MixerAgc", "MixerGain"})
    BY <2>1, StagePlanSets
  <2>4. c \in Command /\ c.reg = "VgaGain"
    BY <2>1, WriteIsCommand DEF Register
  <2>5. GainPlan(gain) = (l \o m) \o v
    BY <1>1 DEF GainPlan
  <2>6. Lna(gain) = gain.lna /\ Mixer(gain) = gain.mixer /\ Vga(gain) = gain.vga
    BY <1>1 DEF Lna, Mixer, Vga
  <2> HIDE DEF l, m, c
  <2>7. v \in Seq(Command) /\ Last(v, {"VgaGain"}, c) /\ Avoids(v, Register \ {"VgaGain"})
    BY <2>4 DEF Last, Avoids
  <2>8. l \o m \in Seq(Command) /\ (l \o m) \o v \in Seq(Command) /\ Len((l \o m) \o v) # 0
    BY <2>2, <2>3, <2>7, ConcatProperties, LenProperties
  <2>9. Avoids(v, {"MixerAgc", "MixerGain"}) /\ Avoids(v, {"LnaAgc", "LnaGain"})
    BY <2>7 DEF Avoids, Register
  <2>10. Avoids(m, {"LnaAgc", "LnaGain"})
    BY <2>3 DEF Avoids, Register
  <2> HIDE DEF v
  <2>11. StageLast((l \o m) \o v, "LnaAgc", "LnaGain", gain.lna)
    BY <2>2, <2>3, <2>7, <2>8, <2>9, <2>10, StageLastConcat
  <2>12. StageLast((l \o m) \o v, "MixerAgc", "MixerGain", gain.mixer)
    BY <2>2, <2>3, <2>7, <2>8, <2>9, StageLastConcat
  <2>13. Last((l \o m) \o v, {"VgaGain"}, c)
    BY <2>7, <2>8, LastInRight
  <2>14. Avoids((l \o m) \o v, Register \ GainRegister)
    <3>1. /\ Avoids(l, Register \ GainRegister) /\ Avoids(m, Register \ GainRegister)
          /\ Avoids(v, Register \ GainRegister)
      BY <2>2, <2>3, <2>7 DEF Avoids, GainRegister
    <3> QED  BY <2>2, <2>3, <2>7, <2>8, <3>1, AvoidsConcat
  <2> QED  BY <2>5, <2>6, <2>8, <2>11, <2>12, <2>13, <2>14, EmptySeq DEF GainLast, c
<1>2. CASE gain.plan \in {"Linearity", "Sensitivity"}
  <2> DEFINE i == 22 - gain.value
             p == VgaGains[gain.plan][i]
             q == MixerGains[gain.plan][i]
             r == LnaGains[gain.plan][i]
  <2>1. gain.value \in 0..MaxPreset /\ gain.plan # "Stages"
    BY <1>2 DEF GainSettings, ValidGain
  <2>2. i \in 1..22 /\ TableIndex(gain.value) = i
    BY <2>1 DEF TableIndex, MaxPreset
  <2>3. p \in 0..MaxVga /\ q \in 0..MaxMixer /\ r \in 0..MaxLna
    BY <1>2, <2>2, TablesInRange
  <2> DEFINE c1 == Write("MixerAgc", 0)
             c2 == Write("LnaAgc", 0)
             c3 == Write("VgaGain", p)
             c4 == Write("MixerGain", q)
             c5 == Write("LnaGain", r)
  <2>4. GainPlan(gain) = <<c1, c2, c3, c4, c5>>
    BY <2>1, <2>2 DEF GainPlan, PresetPlan
  <2>5. Lna(gain) = Manual(r) /\ Mixer(gain) = Manual(q) /\ Vga(gain) = p
    BY <2>1 DEF Lna, Mixer, Vga, Entry
  <2> HIDE DEF i, p, q, r
  <2>6. /\ c1 \in Command /\ c1.reg = "MixerAgc" /\ c2 \in Command /\ c2.reg = "LnaAgc"
        /\ c3 \in Command /\ c3.reg = "VgaGain" /\ c4 \in Command /\ c4.reg = "MixerGain"
        /\ c5 \in Command /\ c5.reg = "LnaGain"
    BY <2>3, WriteIsCommand DEF Register, InRange, MaxVga, MaxMixer, MaxLna
  <2> DEFINE s == <<c1, c2, c3, c4, c5>>
  <2> HIDE DEF c1, c2, c3, c4, c5
  <2>7. s \in Seq(Command) /\ s # <<>>
    BY <2>6
  <2>8. Last(s, {"LnaAgc"}, c2) /\ Last(s, {"LnaAgc", "LnaGain"}, c5)
    BY <2>6 DEF Last
  <2>9. Last(s, {"MixerAgc"}, c1) /\ Last(s, {"MixerAgc", "MixerGain"}, c4)
    BY <2>6 DEF Last
  <2>10. Last(s, {"VgaGain"}, c3)
    BY <2>6 DEF Last
  <2>11. Avoids(s, Register \ GainRegister)
    BY <2>6 DEF Avoids, GainRegister
  <2>12. \A x : Manual(x).control # "Agc" /\ Manual(x).value = x
    BY DEF Manual
  <2>13. StageLast(s, "LnaAgc", "LnaGain", Manual(r))
    BY <2>8, <2>12 DEF StageLast, c2, c5
  <2>14. StageLast(s, "MixerAgc", "MixerGain", Manual(q))
    BY <2>9, <2>12 DEF StageLast, c1, c4
  <2> QED  BY <2>4, <2>5, <2>7, <2>10, <2>11, <2>13, <2>14 DEF GainLast, c3
<1> QED  BY <1>1, <1>2 DEF GainSettings

(***************************************************************************)
(* Updates                                                                 *)
(***************************************************************************)

ReceiveValues(m) == [packing : PackingsOf(m), decimation : Factors]

\* The registers hold v, or will after the commands of s.
Settled(h, s, R, c) == Last(s, R, c) \/ (Avoids(s, R) /\ h[c.reg] = c.value)

StageSettled(h, s, agc, gain, stageGain) ==
  IF stageGain.control = "Agc"
    THEN Settled(h, s, {agc}, Write(agc, 1))
    ELSE Settled(h, s, {agc}, Write(agc, 0))
           /\ Settled(h, s, {agc, gain}, Write(gain, stageGain.value))

GainSettled(h, s, gain) ==
  /\ StageSettled(h, s, "LnaAgc", "LnaGain", Lna(gain))
  /\ StageSettled(h, s, "MixerAgc", "MixerGain", Mixer(gain))
  /\ Settled(h, s, {"VgaGain"}, Write("VgaGain", Vga(gain)))

\* From registers h, the rest of an update's commands make what it proposes of
\* the fields it is about.
OnCourse(h, m, u) ==
  /\ "frequency" \in u.fields =>
       Settled(h, u.commands, {"Frequency"}, Write("Frequency", u.proposed.frequency))
  /\ "rate" \in u.fields =>
       \E param \in 0..2 : /\ Settled(h, u.commands, {"Rate"}, Write("Rate", param))
                           /\ RateServed(m, u.proposed, param, u.receive.decimation)
  /\ "port" \in u.fields =>
       Settled(h, u.commands, {"Port"}, Write("Port", u.proposed.port))
  /\ "gain" \in u.fields => GainSettled(h, u.commands, u.proposed.gain)
  /\ "packing" \in u.fields =>
       /\ Settled(h, u.commands, {"Packing"}, Write("Packing", Bit(u.proposed.packing)))
       /\ u.receive.packing = u.proposed.packing
  /\ "bias" \in u.fields =>
       Settled(h, u.commands, {"Bias"}, Write("Bias", Bit(u.proposed.bias)))

\* An update leaves the other fields alone.
KeepsTheRest(u) ==
  /\ "frequency" \notin u.fields => /\ Avoids(u.commands, {"Frequency"})
                                    /\ u.proposed.frequency = config.frequency
  /\ "rate" \notin u.fields => /\ Avoids(u.commands, {"Rate"})
                               /\ u.proposed.rate = config.rate
                               /\ u.proposed.policy = config.policy
                               /\ u.receive.decimation = receive.decimation
  /\ "port" \notin u.fields => /\ Avoids(u.commands, {"Port"})
                               /\ u.proposed.port = config.port
  /\ "gain" \notin u.fields => /\ Avoids(u.commands, GainRegister)
                               /\ u.proposed.gain = config.gain
  /\ "packing" \notin u.fields => /\ Avoids(u.commands, {"Packing"})
                                  /\ u.proposed.packing = config.packing
                                  /\ u.receive.packing = receive.packing
  /\ "bias" \notin u.fields => /\ Avoids(u.commands, {"Bias"})
                               /\ u.proposed.bias = config.bias

UpdateValues(m) ==
  [fields : SUBSET Field, commands : Seq(Command), proposed : Settings(m),
   receive : ReceiveValues(m)]

WellFormed(m, u) ==
  /\ u \in UpdateValues(m)
  /\ u.fields # {}
  /\ u.commands # <<>>
  /\ ValidConfig(m, u.proposed)

\* Whatever the registers hold, a list of commands that ends as it should sets them.
LEMMA GainLastSettles ==
  ASSUME NEW h, NEW s, NEW gain, GainLast(s, gain)
  PROVE  GainSettled(h, s, gain)
BY DEF GainLast, GainSettled, StageLast, StageSettled, Settled

\* A list of one command.
LEMMA OneCommand ==
  ASSUME NEW r \in Register, NEW v \in Nat, InRange(r, v)
  PROVE  /\ <<Write(r, v)>> \in Seq(Command) /\ <<Write(r, v)>> # <<>>
         /\ Last(<<Write(r, v)>>, {r}, Write(r, v))
         /\ Avoids(<<Write(r, v)>>, Register \ {r})
<1> DEFINE c == Write(r, v)
<1>1. c \in Command /\ c.reg = r
  BY WriteIsCommand
<1> HIDE DEF c
<1>2. <<c>> \in Seq(Command) /\ <<c>> # <<>> /\ Last(<<c>>, {r}, c) /\ Avoids(<<c>>, Register \ {r})
  BY <1>1 DEF Last, Avoids
<1> QED  BY <1>2 DEF c

\* A list that avoids some registers avoids any of them.
LEMMA AvoidsFewer ==
  ASSUME NEW s, NEW R, NEW Q, Avoids(s, R), Q \subseteq R
  PROVE  Avoids(s, Q)
BY DEF Avoids

\* A switch is 0 or 1.
LEMMA BitValues ==
  /\ Bit(TRUE) = 1 /\ Bit(FALSE) = 0
  /\ \A b \in BOOLEAN : Bit(b) \in Nat /\ Bit(b) \in {0, 1}
BY DEF Bit

\* The commands of a whole configuration set everything.
LEMMA CommandsSet ==
  ASSUME NEW m \in {"RawAdc", "F32Iq"}, NEW c \in Settings(m), ValidConfig(m, c),
         NEW s \in Selected(m, c), s = CHOOSE x \in Selected(m, c) : TRUE
  PROVE  /\ Commands(m, c) \in Seq(Command)
         /\ Commands(m, c) # <<>>
         /\ Last(Commands(m, c), {"Frequency"}, Write("Frequency", c.frequency))
         /\ Last(Commands(m, c), {"Rate"}, Write("Rate", s.param))
         /\ Last(Commands(m, c), {"Port"}, Write("Port", c.port))
         /\ GainLast(Commands(m, c), c.gain)
         /\ Last(Commands(m, c), {"Packing"}, Write("Packing", Bit(c.packing)))
         /\ Last(Commands(m, c), {"Bias"}, Write("Bias", Bit(c.bias)))
<1>1. /\ c.frequency \in Nat /\ c.rate \in Nat /\ c.port \in Nat /\ c.gain \in GainSettings
      /\ c.packing \in BOOLEAN /\ c.bias \in BOOLEAN
  BY DEF Settings, PackingsOf
<1> DEFINE f == Write("Frequency", c.frequency)
           r == Write("Rate", s.param)
           p == Write("Port", c.port)
           k == Write("Packing", Bit(c.packing))
           b == Write("Bias", Bit(c.bias))
           head == <<f>>
           middle == <<r, p>>
           plan == GainPlan(c.gain)
           tail == <<k, b>>
<1>2. Commands(m, c) = ((head \o middle) \o plan) \o tail
  BY DEF Commands
<1>3. /\ f \in Command /\ f.reg = "Frequency" /\ r \in Command /\ r.reg = "Rate"
      /\ p \in Command /\ p.reg = "Port" /\ k \in Command /\ k.reg = "Packing"
      /\ b \in Command /\ b.reg = "Bias"
  <2>1. s.param \in Nat /\ InRange("Rate", s.param)
    BY <1>1, SelectedServes DEF InRange
  <2>2. InRange("Frequency", c.frequency)
    BY DEF InRange, ValidConfig
  <2>3. InRange("Port", c.port)
    BY DEF InRange
  <2>4. InRange("Packing", Bit(c.packing)) /\ InRange("Bias", Bit(c.bias))
    BY <1>1, BitValues DEF InRange
  <2>5. {"Frequency", "Rate", "Port", "Packing", "Bias"} \subseteq Register
    BY DEF Register
  <2> QED  BY <1>1, <2>1, <2>2, <2>3, <2>4, <2>5, BitValues, WriteIsCommand
<1>4. /\ plan \in Seq(Command) /\ GainLast(plan, c.gain)
      /\ Avoids(plan, Register \ GainRegister)
  BY <1>1, GainPlanSets DEF ValidConfig
<1> HIDE DEF f, r, p, k, b, plan
<1>5. /\ head \in Seq(Command) /\ Last(head, {"Frequency"}, f)
  BY <1>3 DEF Last
<1>6. /\ middle \in Seq(Command) /\ Last(middle, {"Rate"}, r) /\ Last(middle, {"Port"}, p)
      /\ Avoids(middle, {"Frequency"})
  BY <1>3 DEF Last, Avoids
<1>7. /\ tail \in Seq(Command) /\ Last(tail, {"Packing"}, k) /\ Last(tail, {"Bias"}, b)
      /\ Avoids(tail, Register \ {"Packing", "Bias"}) /\ Len(tail) = 2
  BY <1>3 DEF Last, Avoids
<1> HIDE DEF head, middle, tail
<1> DEFINE start == head \o middle
           most  == start \o plan
           all   == most \o tail
<1>8. /\ start \in Seq(Command) /\ most \in Seq(Command) /\ all \in Seq(Command)
      /\ Len(all) # 0
  <2>1. start \in Seq(Command)
    BY <1>5, <1>6, ConcatProperties
  <2> HIDE DEF start
  <2>2. most \in Seq(Command)
    BY <1>4, <2>1, ConcatProperties
  <2> HIDE DEF most
  <2>3. all \in Seq(Command) /\ Len(all) = Len(most) + Len(tail)
    BY <1>7, <2>2, ConcatProperties
  <2>4. Len(most) \in Nat
    BY <2>2, LenProperties
  <2> QED  BY <1>7, <2>1, <2>2, <2>3, <2>4
<1>9. /\ Last(start, {"Frequency"}, f) /\ Last(start, {"Rate"}, r) /\ Last(start, {"Port"}, p)
  BY <1>5, <1>6, LastInLeft, LastInRight
<1> HIDE DEF start
<1>10. /\ Avoids(plan, {"Frequency"}) /\ Avoids(plan, {"Rate"}) /\ Avoids(plan, {"Port"})
  BY <1>4, AvoidsFewer DEF Register, GainRegister
<1>11. /\ Last(most, {"Frequency"}, f) /\ Last(most, {"Rate"}, r) /\ Last(most, {"Port"}, p)
  BY <1>4, <1>8, <1>9, <1>10, LastInLeft
<1>12. GainLast(most, c.gain)
  BY <1>4, <1>8, StageLastConcat, LastInRight DEF GainLast
<1> HIDE DEF most
<1>13. /\ Avoids(tail, {"Frequency"}) /\ Avoids(tail, {"Rate"}) /\ Avoids(tail, {"Port"})
       /\ Avoids(tail, {"LnaAgc", "LnaGain"}) /\ Avoids(tail, {"MixerAgc", "MixerGain"})
       /\ Avoids(tail, {"VgaGain"})
  BY <1>7, AvoidsFewer DEF Register
<1>14. /\ Last(all, {"Frequency"}, f) /\ Last(all, {"Rate"}, r) /\ Last(all, {"Port"}, p)
  BY <1>7, <1>8, <1>11, <1>13, LastInLeft
<1>15. GainLast(all, c.gain)
  BY <1>7, <1>8, <1>12, <1>13, StageLastConcat, LastInLeft DEF GainLast
<1>16. Last(all, {"Packing"}, k) /\ Last(all, {"Bias"}, b)
  BY <1>7, <1>8, LastInRight
<1> QED  BY <1>2, <1>8, <1>14, <1>15, <1>16, EmptySeq DEF start, most, f, r, p, k, b

\* A valid configuration has a rate that can be selected.
LEMMA ValidIsSelected ==
  ASSUME NEW m \in {"RawAdc", "F32Iq"}, NEW c \in Settings(m), ValidConfig(m, c)
  PROVE  Selected(m, c) # {}
<1>1. c.rate \in Nat /\ c.rate \in Offered(m)
  BY DEF Settings, ValidConfig
<1> QED  BY <1>1, RateServedIffOffered DEF Selected

\* A whole configuration makes what it proposes.
LEMMA ConfigureIsGood ==
  ASSUME NEW m \in {"RawAdc", "F32Iq"}, NEW c \in Settings(m), ValidConfig(m, c), NEW h
  PROVE  LET u == Configure(m, c)
         IN  WellFormed(m, u) /\ OnCourse(h, m, u) /\ KeepsTheRest(u)
<1> DEFINE s == CHOOSE x \in Selected(m, c) : TRUE
           u == Configure(m, c)
<1>1. s \in Selected(m, c)
  BY ValidIsSelected
<1>2. c.rate \in Nat /\ c.packing \in PackingsOf(m)
  BY DEF Settings
<1>3. RateServed(m, c, s.param, s.decimation) /\ s.param \in 0..2 /\ s.decimation \in Factors
  BY <1>1, <1>2, SelectedServes
<1>4. /\ u.fields = Field /\ u.commands = Commands(m, c) /\ u.proposed = c
      /\ u.receive = [packing |-> c.packing, decimation |-> s.decimation]
      /\ u = [fields |-> Field, commands |-> Commands(m, c), proposed |-> c, receive |-> u.receive]
  BY DEF Configure
<1>5. /\ Commands(m, c) \in Seq(Command)
      /\ Commands(m, c) # <<>>
      /\ Last(Commands(m, c), {"Frequency"}, Write("Frequency", c.frequency))
      /\ Last(Commands(m, c), {"Rate"}, Write("Rate", s.param))
      /\ Last(Commands(m, c), {"Port"}, Write("Port", c.port))
      /\ GainLast(Commands(m, c), c.gain)
      /\ Last(Commands(m, c), {"Packing"}, Write("Packing", Bit(c.packing)))
      /\ Last(Commands(m, c), {"Bias"}, Write("Bias", Bit(c.bias)))
  BY <1>1, CommandsSet
<1> HIDE DEF s, u
<1>6. u.receive.packing = c.packing /\ u.receive.decimation = s.decimation
  BY <1>4
<1>7. WellFormed(m, u)
  <2>1. u.receive \in ReceiveValues(m)
    BY <1>2, <1>3, <1>4 DEF ReceiveValues
  <2>2. u \in UpdateValues(m)
    BY <1>4, <1>5, <2>1 DEF UpdateValues
  <2>3. u.fields # {}
    BY <1>4 DEF Field
  <2> QED  BY <1>4, <1>5, <2>2, <2>3 DEF WellFormed
<1>8. OnCourse(h, m, u)
  <2>1. GainSettled(h, u.commands, u.proposed.gain)
    BY <1>4, <1>5, GainLastSettles
  <2>2. \E param \in 0..2 : /\ Settled(h, u.commands, {"Rate"}, Write("Rate", param))
                            /\ RateServed(m, u.proposed, param, u.receive.decimation)
    BY <1>3, <1>4, <1>5, <1>6 DEF Settled
  <2> QED  BY <1>4, <1>5, <1>6, <2>1, <2>2 DEF OnCourse, Settled
<1>9. KeepsTheRest(u)
  BY <1>4 DEF KeepsTheRest, Field
<1> QED  BY <1>7, <1>8, <1>9 DEF u

\* A state between updates: the snapshot is valid, and the receive settings
\* are those of the mode.
Settable ==
  /\ mode \in {"RawAdc", "F32Iq"}
  /\ config \in Settings(mode) /\ ValidConfig(mode, config)
  /\ receive \in ReceiveValues(mode)

Good(h, u) == WellFormed(mode, u) /\ OnCourse(h, mode, u) /\ KeepsTheRest(u)

\* So do a rate and a policy, which change the host's factor with the rate;
LEMMA RateUpdateIsGood ==
  ASSUME Settable, NEW h, NEW rate \in Nat, NEW policy \in PoliciesOf(mode),
         NEW c, c = [config EXCEPT !.rate = rate, !.policy = policy],
         NEW s \in Selected(mode, c)
  PROVE  Good(h, UpdateRate(c, s))
<1> DEFINE u == UpdateRate(c, s)
<1>1. c \in Settings(mode) /\ c.rate = rate /\ c.policy = policy
      /\ c.frequency = config.frequency /\ c.port = config.port /\ c.gain = config.gain
      /\ c.packing = config.packing /\ c.bias = config.bias
  BY DEF Settable, Settings
<1>2. RateServed(mode, c, s.param, s.decimation) /\ s.param \in 0..2 /\ s.decimation \in Factors
  BY <1>1, SelectedServes DEF Settable
<1>3. ValidConfig(mode, c)
  <2>1. Selected(mode, c) = SampleRateConfig(mode, policy, rate)
    BY <1>1 DEF Selected
  <2>2. rate \in Offered(mode)
    BY <2>1, RateServedIffOffered DEF Settable
  <2> QED  BY <1>1, <2>2 DEF Settable, ValidConfig
<1>4. /\ u = [fields |-> {"rate"}, commands |-> <<Write("Rate", s.param)>>, proposed |-> c,
              receive |-> [receive EXCEPT !.decimation = s.decimation]]
  BY DEF UpdateRate, Change
<1>5. /\ u.receive.packing = receive.packing /\ u.receive.decimation = s.decimation
      /\ u.receive \in ReceiveValues(mode)
  BY <1>2, <1>4 DEF ReceiveValues, Settable
<1>6. /\ u.commands \in Seq(Command) /\ u.commands # <<>>
      /\ Last(u.commands, {"Rate"}, Write("Rate", s.param))
      /\ Avoids(u.commands, Register \ {"Rate"})
  <2>1. "Rate" \in Register /\ s.param \in Nat /\ InRange("Rate", s.param)
    BY <1>2 DEF Register, InRange
  <2>2. u.commands = <<Write("Rate", s.param)>>
    BY <1>4
  <2> QED  BY <2>1, <2>2, OneCommand
<1>7. u.fields = {"rate"} /\ u.proposed = c
  BY <1>4
<1> HIDE DEF u
<1>8. WellFormed(mode, u)
  <2>1. u \in UpdateValues(mode)
    BY <1>1, <1>4, <1>5, <1>6 DEF UpdateValues, Field
  <2> QED  BY <1>3, <1>6, <1>7, <2>1 DEF WellFormed
<1>9. OnCourse(h, mode, u)
  BY <1>2, <1>5, <1>6, <1>7 DEF OnCourse, Settled
<1>10. KeepsTheRest(u)
  <2>1. /\ Avoids(u.commands, {"Frequency"}) /\ Avoids(u.commands, {"Port"})
        /\ Avoids(u.commands, GainRegister) /\ Avoids(u.commands, {"Packing"})
        /\ Avoids(u.commands, {"Bias"})
    BY <1>6, AvoidsFewer DEF Register, GainRegister
  <2> QED  BY <1>1, <1>5, <1>7, <2>1 DEF KeepsTheRest
<1> QED  BY <1>8, <1>9, <1>10 DEF Good, u

\* a frequency;
LEMMA SetFrequencyIsGood ==
  ASSUME Settable, NEW h, NEW f \in Nat, ValidFrequency(f)
  PROVE  Good(h, SetFrequency(f))
<1> DEFINE u == SetFrequency(f)
<1>1. /\ u = [fields |-> {"frequency"}, commands |-> <<Write("Frequency", f)>>,
              proposed |-> [config EXCEPT !.frequency = f], receive |-> receive]
  BY DEF SetFrequency, Change
<1>2. /\ u.proposed \in Settings(mode) /\ ValidConfig(mode, u.proposed)
      /\ u.proposed.frequency = f
      /\ u.proposed.rate = config.rate /\ u.proposed.policy = config.policy
      /\ u.proposed.port = config.port /\ u.proposed.gain = config.gain
      /\ u.proposed.packing = config.packing /\ u.proposed.bias = config.bias
  BY <1>1 DEF Settable, Settings, ValidConfig
<1>3. /\ u.commands \in Seq(Command) /\ u.commands # <<>>
      /\ Last(u.commands, {"Frequency"}, Write("Frequency", f))
      /\ Avoids(u.commands, Register \ {"Frequency"})
  <2>1. "Frequency" \in Register /\ InRange("Frequency", f)
    BY DEF Register, InRange
  <2>2. u.commands = <<Write("Frequency", f)>>
    BY <1>1
  <2> QED  BY <2>1, <2>2, OneCommand
<1>4. u.fields = {"frequency"} /\ u.receive = receive
  BY <1>1
<1> HIDE DEF u
<1>5. WellFormed(mode, u)
  <2>1. u \in UpdateValues(mode)
    BY <1>1, <1>2, <1>3 DEF UpdateValues, Field, Settable
  <2> QED  BY <1>2, <1>3, <1>4, <2>1 DEF WellFormed
<1>6. OnCourse(h, mode, u)
  BY <1>2, <1>3, <1>4 DEF OnCourse, Settled
<1>7. KeepsTheRest(u)
  <2>1. /\ Avoids(u.commands, {"Rate"}) /\ Avoids(u.commands, {"Port"})
        /\ Avoids(u.commands, GainRegister) /\ Avoids(u.commands, {"Packing"})
        /\ Avoids(u.commands, {"Bias"})
    BY <1>3, AvoidsFewer DEF Register, GainRegister
  <2> QED  BY <1>2, <1>4, <2>1 DEF KeepsTheRest
<1> QED  BY <1>5, <1>6, <1>7 DEF Good, u

\* a port;
LEMMA SetPortIsGood ==
  ASSUME Settable, NEW h, NEW p \in Nat
  PROVE  Good(h, SetPort(p))
<1> DEFINE u == SetPort(p)
<1>1. /\ u = [fields |-> {"port"}, commands |-> <<Write("Port", p)>>,
              proposed |-> [config EXCEPT !.port = p], receive |-> receive]
  BY DEF SetPort, Change
<1>2. /\ u.proposed \in Settings(mode) /\ ValidConfig(mode, u.proposed)
      /\ u.proposed.port = p
      /\ u.proposed.rate = config.rate /\ u.proposed.policy = config.policy
      /\ u.proposed.frequency = config.frequency /\ u.proposed.gain = config.gain
      /\ u.proposed.packing = config.packing /\ u.proposed.bias = config.bias
  BY <1>1 DEF Settable, Settings, ValidConfig
<1>3. /\ u.commands \in Seq(Command) /\ u.commands # <<>>
      /\ Last(u.commands, {"Port"}, Write("Port", p))
      /\ Avoids(u.commands, Register \ {"Port"})
  <2>1. "Port" \in Register /\ InRange("Port", p)
    BY DEF Register, InRange
  <2>2. u.commands = <<Write("Port", p)>>
    BY <1>1
  <2> QED  BY <2>1, <2>2, OneCommand
<1>4. u.fields = {"port"} /\ u.receive = receive
  BY <1>1
<1> HIDE DEF u
<1>5. WellFormed(mode, u)
  <2>1. u \in UpdateValues(mode)
    BY <1>1, <1>2, <1>3 DEF UpdateValues, Field, Settable
  <2> QED  BY <1>2, <1>3, <1>4, <2>1 DEF WellFormed
<1>6. OnCourse(h, mode, u)
  BY <1>2, <1>3, <1>4 DEF OnCourse, Settled
<1>7. KeepsTheRest(u)
  <2>1. /\ Avoids(u.commands, {"Rate"}) /\ Avoids(u.commands, {"Frequency"})
        /\ Avoids(u.commands, GainRegister) /\ Avoids(u.commands, {"Packing"})
        /\ Avoids(u.commands, {"Bias"})
    BY <1>3, AvoidsFewer DEF Register, GainRegister
  <2> QED  BY <1>2, <1>4, <2>1 DEF KeepsTheRest
<1> QED  BY <1>5, <1>6, <1>7 DEF Good, u

\* a gain, which is several commands;
LEMMA SetGainIsGood ==
  ASSUME Settable, NEW h, NEW g \in GainSettings, ValidGain(g)
  PROVE  Good(h, SetGain(g))
<1> DEFINE u == SetGain(g)
<1>1. /\ u = [fields |-> {"gain"}, commands |-> GainPlan(g),
              proposed |-> [config EXCEPT !.gain = g], receive |-> receive]
  BY DEF SetGain, Change
<1>2. /\ u.proposed \in Settings(mode) /\ ValidConfig(mode, u.proposed)
      /\ u.proposed.gain = g
      /\ u.proposed.rate = config.rate /\ u.proposed.policy = config.policy
      /\ u.proposed.frequency = config.frequency /\ u.proposed.port = config.port
      /\ u.proposed.packing = config.packing /\ u.proposed.bias = config.bias
  BY <1>1 DEF Settable, Settings, ValidConfig
<1>3. /\ u.commands \in Seq(Command) /\ u.commands # <<>>
      /\ GainLast(u.commands, g)
      /\ Avoids(u.commands, Register \ GainRegister)
  <2>1. u.commands = GainPlan(g)
    BY <1>1
  <2> HIDE DEF u
  <2> QED  BY <2>1, GainPlanSets
<1>4. u.fields = {"gain"} /\ u.receive = receive
  BY <1>1
<1> HIDE DEF u
<1>5. WellFormed(mode, u)
  <2>1. u \in UpdateValues(mode)
    BY <1>1, <1>2, <1>3 DEF UpdateValues, Field, Settable
  <2> QED  BY <1>2, <1>3, <1>4, <2>1 DEF WellFormed
<1>6. OnCourse(h, mode, u)
  BY <1>2, <1>3, <1>4, GainLastSettles DEF OnCourse
<1>7. KeepsTheRest(u)
  <2>1. /\ Avoids(u.commands, {"Rate"}) /\ Avoids(u.commands, {"Frequency"})
        /\ Avoids(u.commands, {"Port"}) /\ Avoids(u.commands, {"Packing"})
        /\ Avoids(u.commands, {"Bias"})
    BY <1>3, AvoidsFewer DEF Register, GainRegister
  <2> QED  BY <1>2, <1>4, <2>1 DEF KeepsTheRest
<1> QED  BY <1>5, <1>6, <1>7 DEF Good, u

\* bias power;
LEMMA SetBiasTeeIsGood ==
  ASSUME Settable, NEW h, NEW on \in BOOLEAN
  PROVE  Good(h, SetBiasTee(on))
<1> DEFINE u == SetBiasTee(on)
<1>1. /\ u = [fields |-> {"bias"}, commands |-> <<Write("Bias", Bit(on))>>,
              proposed |-> [config EXCEPT !.bias = on], receive |-> receive]
  BY DEF SetBiasTee, Change
<1>2. /\ u.proposed \in Settings(mode) /\ ValidConfig(mode, u.proposed)
      /\ u.proposed.bias = on
      /\ u.proposed.rate = config.rate /\ u.proposed.policy = config.policy
      /\ u.proposed.frequency = config.frequency /\ u.proposed.gain = config.gain
      /\ u.proposed.packing = config.packing /\ u.proposed.port = config.port
  BY <1>1 DEF Settable, Settings, ValidConfig
<1>3. /\ u.commands \in Seq(Command) /\ u.commands # <<>>
      /\ Last(u.commands, {"Bias"}, Write("Bias", Bit(on)))
      /\ Avoids(u.commands, Register \ {"Bias"})
  <2>1. "Bias" \in Register /\ Bit(on) \in Nat /\ InRange("Bias", Bit(on))
    BY BitValues DEF Register, InRange
  <2>2. u.commands = <<Write("Bias", Bit(on))>>
    BY <1>1
  <2> QED  BY <2>1, <2>2, OneCommand
<1>4. u.fields = {"bias"} /\ u.receive = receive
  BY <1>1
<1> HIDE DEF u
<1>5. WellFormed(mode, u)
  <2>1. u \in UpdateValues(mode)
    BY <1>1, <1>2, <1>3 DEF UpdateValues, Field, Settable
  <2> QED  BY <1>2, <1>3, <1>4, <2>1 DEF WellFormed
<1>6. OnCourse(h, mode, u)
  BY <1>2, <1>3, <1>4 DEF OnCourse, Settled
<1>7. KeepsTheRest(u)
  <2>1. /\ Avoids(u.commands, {"Rate"}) /\ Avoids(u.commands, {"Frequency"})
        /\ Avoids(u.commands, GainRegister) /\ Avoids(u.commands, {"Packing"})
        /\ Avoids(u.commands, {"Port"})
    BY <1>3, AvoidsFewer DEF Register, GainRegister
  <2> QED  BY <1>2, <1>4, <2>1 DEF KeepsTheRest
<1> QED  BY <1>5, <1>6, <1>7 DEF Good, u

\* and packing, which changes the receive settings with the register.
LEMMA SetPackingIsGood ==
  ASSUME Settable, mode = "RawAdc", NEW h, NEW on \in BOOLEAN
  PROVE  Good(h, SetPacking(on))
<1> DEFINE u == SetPacking(on)
<1>1. /\ u = [fields |-> {"packing"}, commands |-> <<Write("Packing", Bit(on))>>,
              proposed |-> [config EXCEPT !.packing = on],
              receive |-> [receive EXCEPT !.packing = on]]
  BY DEF SetPacking, Change
<1>2. /\ u.proposed \in Settings(mode) /\ ValidConfig(mode, u.proposed)
      /\ u.proposed.packing = on
      /\ u.proposed.rate = config.rate /\ u.proposed.policy = config.policy
      /\ u.proposed.frequency = config.frequency /\ u.proposed.gain = config.gain
      /\ u.proposed.bias = config.bias /\ u.proposed.port = config.port
  BY <1>1 DEF Settable, Settings, ValidConfig, PackingsOf
<1>3. /\ u.commands \in Seq(Command) /\ u.commands # <<>>
      /\ Last(u.commands, {"Packing"}, Write("Packing", Bit(on)))
      /\ Avoids(u.commands, Register \ {"Packing"})
  <2>1. "Packing" \in Register /\ Bit(on) \in Nat /\ InRange("Packing", Bit(on))
    BY BitValues DEF Register, InRange
  <2>2. u.commands = <<Write("Packing", Bit(on))>>
    BY <1>1
  <2> QED  BY <2>1, <2>2, OneCommand
<1>4. u.fields = {"packing"}
  BY <1>1
<1>5. /\ u.receive.packing = on /\ u.receive.decimation = receive.decimation
      /\ u.receive \in ReceiveValues(mode)
  BY <1>1 DEF Settable, ReceiveValues, PackingsOf
<1> HIDE DEF u
<1>6. WellFormed(mode, u)
  <2>1. u \in UpdateValues(mode)
    BY <1>1, <1>2, <1>3, <1>5 DEF UpdateValues, Field
  <2> QED  BY <1>2, <1>3, <1>4, <2>1 DEF WellFormed
<1>7. OnCourse(h, mode, u)
  BY <1>2, <1>3, <1>4, <1>5 DEF OnCourse, Settled
<1>8. KeepsTheRest(u)
  <2>1. /\ Avoids(u.commands, {"Rate"}) /\ Avoids(u.commands, {"Frequency"})
        /\ Avoids(u.commands, GainRegister) /\ Avoids(u.commands, {"Bias"})
        /\ Avoids(u.commands, {"Port"})
    BY <1>3, AvoidsFewer DEF Register, GainRegister
  <2> QED  BY <1>2, <1>4, <1>5, <2>1 DEF KeepsTheRest
<1> QED  BY <1>6, <1>7, <1>8 DEF Good, u

\* Whatever is called, the update that is sent is good: its commands are in
\* range, make what it proposes and no more, and its proposal is valid.
LEMMA UpdatesAreGood ==
  ASSUME Settable, mode \in Mode, NEW h, NEW u \in Updates
  PROVE  Good(h, u)
<1>1. config.rate \in Nat /\ config.policy \in PoliciesOf(mode)
  BY DEF Settable, Settings
<1>2. ASSUME NEW c \in Configs(mode), u = Configure(mode, c)
      PROVE  Good(h, u)
  BY <1>2, ConfigureIsGood, RequestsAssumption DEF Configs, Settable, Good
<1>3. ASSUME NEW r \in Rates, u \in RateUpdates([config EXCEPT !.rate = r])
      PROVE  Good(h, u)
  <2>1. [config EXCEPT !.rate = r] = [config EXCEPT !.rate = r, !.policy = config.policy]
    BY DEF Settable, Settings
  <2>2. r \in Nat
    BY ValuesAssumption
  <2> DEFINE c == [config EXCEPT !.rate = r]
  <2>3. PICK s \in Selected(mode, c) : u = UpdateRate(c, s)
    BY <1>3 DEF RateUpdates
  <2> HIDE DEF c
  <2>4. c = [config EXCEPT !.rate = r, !.policy = config.policy]
    BY <2>1 DEF c
  <2> QED  BY <1>1, <2>2, <2>3, <2>4, RateUpdateIsGood
<1>4. ASSUME NEW p \in PoliciesOf(mode), u \in RateUpdates([config EXCEPT !.policy = p])
      PROVE  Good(h, u)
  <2>1. [config EXCEPT !.policy = p] = [config EXCEPT !.rate = config.rate, !.policy = p]
    BY DEF Settable, Settings
  <2> DEFINE c == [config EXCEPT !.policy = p]
  <2>2. PICK s \in Selected(mode, c) : u = UpdateRate(c, s)
    BY <1>4 DEF RateUpdates
  <2> HIDE DEF c
  <2>3. c = [config EXCEPT !.rate = config.rate, !.policy = p]
    BY <2>1 DEF c
  <2> QED  BY <1>1, <2>2, <2>3, RateUpdateIsGood
<1>5. ASSUME NEW f \in Frequencies, ValidFrequency(f), u = SetFrequency(f)
      PROVE  Good(h, u)
  BY <1>5, SetFrequencyIsGood, ValuesAssumption
<1>6. ASSUME NEW p \in Ports, u = SetPort(p)
      PROVE  Good(h, u)
  BY <1>6, SetPortIsGood, ValuesAssumption
<1>7. ASSUME NEW g \in Gains, ValidGain(g), u = SetGain(g)
      PROVE  Good(h, u)
  BY <1>7, SetGainIsGood, GainsAssumption
<1>8. ASSUME NEW on \in BOOLEAN, u = SetBiasTee(on)
      PROVE  Good(h, u)
  BY <1>8, SetBiasTeeIsGood
<1>9. ASSUME NEW on \in BOOLEAN, mode = "RawAdc", u = SetPacking(on)
      PROVE  Good(h, u)
  BY <1>9, SetPackingIsGood
<1> QED  BY <1>2, <1>3, <1>4, <1>5, <1>6, <1>7, <1>8, <1>9 DEF Updates, ModeUpdates

(***************************************************************************)
(* The radio                                                               *)
(***************************************************************************)

RegisterValues == {h \in [Register -> Int] : \A r \in Register :
                     h[r] = Unknown \/ (h[r] \in Nat /\ InRange(r, h[r]))}

\* What a command does to each register: a gain is known only without AGC.
LEMMA AfterCommand ==
  ASSUME NEW h \in RegisterValues, NEW c \in Command
  PROVE  /\ After(h, c) \in RegisterValues
         /\ \A r \in Register \ {"LnaGain", "MixerGain"} :
              After(h, c)[r] = IF r = c.reg THEN c.value ELSE h[r]
         /\ After(h, c)["LnaGain"] = IF After(h, c)["LnaAgc"] # 0 THEN Unknown
                                     ELSE IF c.reg = "LnaGain" THEN c.value ELSE h["LnaGain"]
         /\ After(h, c)["MixerGain"] = IF After(h, c)["MixerAgc"] # 0 THEN Unknown
                                       ELSE IF c.reg = "MixerGain" THEN c.value ELSE h["MixerGain"]
<1> DEFINE g == [h EXCEPT ![c.reg] = c.value]
<1>1. c.reg \in Register /\ c.value \in Nat /\ InRange(c.reg, c.value)
  BY DEF Command
<1>2. h \in [Register -> Int]
  BY DEF RegisterValues
<1>3. g \in [Register -> Int] /\ \A r \in Register : g[r] = IF r = c.reg THEN c.value ELSE h[r]
  BY <1>1, <1>2
<1>4. After(h, c) = Tuned(g)
  BY DEF After
<1> HIDE DEF g
<1>5. {"LnaAgc", "LnaGain", "MixerAgc", "MixerGain"} \subseteq Register
  BY DEF Register
<1>6. /\ Tuned(g) \in [Register -> Int]
      /\ \A r \in Register \ {"LnaGain", "MixerGain"} : Tuned(g)[r] = g[r]
      /\ Tuned(g)["LnaGain"] = IF g["LnaAgc"] = 0 THEN g["LnaGain"] ELSE Unknown
      /\ Tuned(g)["MixerGain"] = IF g["MixerAgc"] = 0 THEN g["MixerGain"] ELSE Unknown
  <2> DEFINE x == IF g["LnaAgc"] = 0 THEN g["LnaGain"] ELSE Unknown
             y == IF g["MixerAgc"] = 0 THEN g["MixerGain"] ELSE Unknown
  <2>1. Tuned(g) = [g EXCEPT !["LnaGain"] = x, !["MixerGain"] = y]
    BY DEF Tuned
  <2>2. x \in Int /\ y \in Int
    BY <1>3, <1>5 DEF Unknown
  <2> HIDE DEF x, y
  <2>3. [g EXCEPT !["LnaGain"] = x, !["MixerGain"] = y]
          = [r \in Register |-> IF r = "LnaGain" THEN x ELSE IF r = "MixerGain" THEN y ELSE g[r]]
    BY <1>3, <1>5
  <2>4. Tuned(g) \in [Register -> Int]
    BY <1>3, <2>1, <2>2, <2>3
  <2>5. /\ \A r \in Register \ {"LnaGain", "MixerGain"} : Tuned(g)[r] = g[r]
        /\ Tuned(g)["LnaGain"] = x /\ Tuned(g)["MixerGain"] = y
    BY <1>5, <2>1, <2>3
  <2> QED  BY <2>4, <2>5 DEF x, y
<1>7. \A r \in Register : g[r] = Unknown \/ (g[r] \in Nat /\ InRange(r, g[r]))
  BY <1>1, <1>3 DEF RegisterValues
<1>8. Tuned(g) \in RegisterValues
  BY <1>5, <1>6, <1>7 DEF RegisterValues
<1> QED  BY <1>3, <1>4, <1>5, <1>6, <1>8

\* A response of the firmware leaves the registers, or is that of the command.
LEMMA ResponseEffect ==
  ASSUME NEW c, NEW r \in Responses(c)
  PROVE  /\ r.registers \in {hw, After(hw, c)}
         /\ Accepted(c, r.byte) => r.registers = After(hw, c)
BY DEF Responses, Accepted

\* A register other than the gains stays on course when a command is done.
LEMMA SettledStep ==
  ASSUME NEW h \in RegisterValues, NEW s \in Seq(Command), s # <<>>,
         NEW r \in Register \ {"LnaGain", "MixerGain"}, NEW v,
         Settled(h, s, {r}, Write(r, v))
  PROVE  Settled(After(h, Head(s)), Tail(s), {r}, Write(r, v))
<1> DEFINE c == Head(s)
           w == Write(r, v)
<1>1. w.reg = r /\ w.value = v
  BY DEF Write
<1>2. /\ c \in Command
      /\ Avoids(s, {r}) => c.reg # r /\ Avoids(Tail(s), {r})
      /\ Last(s, {r}, w) => (c = w /\ Avoids(Tail(s), {r})) \/ Last(Tail(s), {r}, w)
  BY AfterTheFirst
<1> HIDE DEF c, w
<1>3. After(h, c)[r] = IF r = c.reg THEN c.value ELSE h[r]
  BY <1>2, AfterCommand
<1> QED  BY <1>1, <1>2, <1>3 DEF Settled, c, w

\* So does a stage of the amplifier: if its gain is set, its AGC is off before.
LEMMA StageStep ==
  ASSUME NEW h \in RegisterValues, NEW s \in Seq(Command), s # <<>>,
         NEW agc, NEW gain, NEW stageGain,
         <<agc, gain>> \in {<<"LnaAgc", "LnaGain">>, <<"MixerAgc", "MixerGain">>},
         StageSettled(h, s, agc, gain, stageGain)
  PROVE  StageSettled(After(h, Head(s)), Tail(s), agc, gain, stageGain)
<1>1. /\ agc \in Register \ {"LnaGain", "MixerGain"} /\ gain \in Register /\ agc # gain
      /\ (agc = "LnaAgc" /\ gain = "LnaGain") \/ (agc = "MixerAgc" /\ gain = "MixerGain")
  BY DEF Register
<1>2. CASE stageGain.control = "Agc"
  BY <1>1, <1>2, SettledStep DEF StageSettled
<1>3. CASE stageGain.control # "Agc"
  <2> DEFINE c == Head(s)
             w == Write(gain, stageGain.value)
             a == Write(agc, 0)
             R == {agc, gain}
  <2>1. w.reg = gain /\ w.value = stageGain.value /\ a.reg = agc /\ a.value = 0
    BY DEF Write
  <2>2. Settled(h, s, {agc}, a) /\ Settled(h, s, R, w)
    BY <1>3 DEF StageSettled
  <2>3. Settled(After(h, c), Tail(s), {agc}, a)
    BY <1>1, <2>2, SettledStep
  <2>4. /\ c \in Command
        /\ Avoids(s, R) => c.reg \notin R /\ Avoids(Tail(s), R)
        /\ Last(s, R, w) => (c = w /\ Avoids(Tail(s), R)) \/ Last(Tail(s), R, w)
    BY AfterTheFirst
  <2> HIDE DEF c, w, a
  <2>5. After(h, c)[gain] = IF After(h, c)[agc] # 0 THEN Unknown
                            ELSE IF c.reg = gain THEN c.value ELSE h[gain]
    <3> DEFINE f == After(h, c)
    <3>1. /\ f["LnaGain"] = IF f["LnaAgc"] # 0 THEN Unknown
                            ELSE IF c.reg = "LnaGain" THEN c.value ELSE h["LnaGain"]
          /\ f["MixerGain"] = IF f["MixerAgc"] # 0 THEN Unknown
                              ELSE IF c.reg = "MixerGain" THEN c.value ELSE h["MixerGain"]
      BY <2>4, AfterCommand
    <3> HIDE DEF f
    <3>2. CASE agc = "LnaAgc" /\ gain = "LnaGain"
      BY <3>1, <3>2 DEF f
    <3>3. CASE agc = "MixerAgc" /\ gain = "MixerGain"
      BY <3>1, <3>3 DEF f
    <3> QED  BY <1>1, <3>2, <3>3
  <2>6. Avoids(Tail(s), R) => After(h, c)[agc] = 0
    <3>1. Avoids(Tail(s), R) => ~Last(Tail(s), {agc}, a)
      BY <2>1 DEF Avoids, Last
    <3> QED  BY <2>1, <2>3, <3>1 DEF Settled
  <2>7. Settled(After(h, c), Tail(s), R, w)
    <3>1. CASE Last(Tail(s), R, w)
      BY <3>1 DEF Settled
    <3>2. CASE c = w /\ Avoids(Tail(s), R)
      BY <2>1, <2>5, <2>6, <3>2 DEF Settled
    <3>3. CASE Avoids(s, R) /\ h[gain] = stageGain.value
      BY <2>1, <2>4, <2>5, <2>6, <3>3 DEF Settled
    <3> QED  BY <2>1, <2>2, <2>4, <3>1, <3>2, <3>3 DEF Settled
  <2> QED  BY <1>3, <2>3, <2>7 DEF StageSettled, c, w, a
<1> QED  BY <1>2, <1>3

\* With every command that is done, an update is still on course.
LEMMA CourseStep ==
  ASSUME NEW h \in RegisterValues, NEW m, NEW u, WellFormed(m, u), OnCourse(h, m, u)
  PROVE  OnCourse(After(h, Head(u.commands)), m, [u EXCEPT !.commands = Tail(@)])
<1> DEFINE g == After(h, Head(u.commands))
           v == [u EXCEPT !.commands = Tail(@)]
           s == u.commands
<1>1. s \in Seq(Command) /\ s # <<>>
  BY DEF WellFormed, UpdateValues
<1>2. /\ v.fields = u.fields /\ v.proposed = u.proposed /\ v.receive = u.receive
      /\ v.commands = Tail(s)
  BY DEF WellFormed, UpdateValues
<1>3. {"Frequency", "Rate", "Port", "VgaGain", "Packing", "Bias"}
        \subseteq Register \ {"LnaGain", "MixerGain"}
  BY DEF Register
<1>4. \A r \in {"Frequency", "Rate", "Port", "VgaGain", "Packing", "Bias"} : \A x :
        Settled(h, s, {r}, Write(r, x)) => Settled(g, Tail(s), {r}, Write(r, x))
  BY <1>1, <1>3, SettledStep
<1>5. \A gain : GainSettled(h, s, gain) => GainSettled(g, Tail(s), gain)
  BY <1>1, <1>4, StageStep DEF GainSettled
<1> HIDE DEF g, v
<1> QED  BY <1>2, <1>4, <1>5 DEF OnCourse, v, g

(***************************************************************************)
(* The inductive invariant                                                 *)
(***************************************************************************)

SettingsInv ==
  /\ mode \in Mode
  /\ stage \in {"Closed", "Opening", "Idle", "Updating"}
  /\ faults \in 0..MaxFaults
  /\ hw \in RegisterValues
  /\ Settable
  /\ ~IsOpen => config = Standard /\ receive = InitialReceive
  /\ IF Busy THEN Good(hw, update) ELSE update = NoUpdate
  /\ stage = "Opening" => update.fields = Field

\* Config::standard is a configuration of both modes.
LEMMA StandardIsValid ==
  ASSUME NEW m \in {"RawAdc", "F32Iq"}
  PROVE  /\ Standard \in Settings(m) /\ ValidConfig(m, Standard)
         /\ InitialReceive \in ReceiveValues(m)
<1>1. Standard.gain \in GainSettings
  <2> DEFINE l == Manual(14)
             x == Manual(15)
  <2>1. Standard.gain = Stages(l, x, 6)
    BY SMT DEF Standard
  <2>2. l \in StageGains /\ x \in StageGains
    BY DEF Manual, StageGains
  <2> HIDE DEF l, x
  <2> QED  BY <2>1, <2>2 DEF Stages, GainSettings
<1>2. ValidGain(Standard.gain)
  BY SMT DEF Standard, Stages, Manual, ValidGain, StageWithin, MaxLna, MaxMixer, MaxVga
<1>3. "LowBandwidth" \in PoliciesOf(m) /\ FALSE \in PackingsOf(m)
  BY DEF PoliciesOf, PackingsOf
<1>4. Standard \in Settings(m)
  <2> DEFINE f == 100000000
             r == 10000000
             g == Stages(Manual(14), Manual(15), 6)
  <2>1. Standard = [frequency |-> f, rate |-> r, policy |-> "LowBandwidth", port |-> 0,
                    gain |-> g, packing |-> FALSE, bias |-> FALSE]
    BY SMT DEF Standard
  <2>2. f \in Nat /\ r \in Nat
    BY SMT
  <2>3. g = Standard.gain
    BY SMT DEF Standard
  <2> HIDE DEF f, r, g
  <2> QED  BY <1>1, <1>3, <2>1, <2>2, <2>3 DEF Settings
<1>5. ValidFrequency(Standard.frequency)
  <2>1. Standard.frequency = 100000000
    BY SMT DEF Standard
  <2>2. /\ MinFrequency \in Int /\ MaxFrequency \in Int
        /\ MinFrequency <= 100000000 /\ 100000000 <= MaxFrequency
    BY SMT DEF MinFrequency, MaxFrequency
  <2> QED  BY SMT, <2>1, <2>2 DEF ValidFrequency
<1>6. Standard.rate \in Offered(m)
  <2>1. Standard.rate = 10000000
    BY SMT DEF Standard
  <2>2. RawRates[2] = 10000000
    BY SMT DEF RawRates
  <2>3. 10000000 \in IqRates
    BY SMT DEF IqRates
  <2> QED  BY SMT, <2>1, <2>2, <2>3 DEF Offered
<1>7. InitialReceive \in ReceiveValues(m)
  BY <1>3 DEF InitialReceive, ReceiveValues, Factors
<1> QED  BY <1>2, <1>4, <1>5, <1>6, <1>7 DEF ValidConfig

\* The registers after an update, or an opening, that ended early, or a close.
LEMMA CleanedUpValues ==
  ASSUME NEW h \in RegisterValues, NEW g \in CleanedUp(h)
  PROVE  g \in RegisterValues
<1>1. h \in [Register -> Int] /\ "Bias" \in Register
  BY DEF RegisterValues, Register
<1>2. InRange("Bias", 0)
  BY DEF InRange
<1> QED  BY <1>1, <1>2 DEF CleanedUp, RegisterValues

\* No register is known, and nothing is open.
LEMMA SettingsInit ==
  Init => SettingsInv
<1> SUFFICES ASSUME Init PROVE SettingsInv
  OBVIOUS
<1>1. hw \in RegisterValues
  BY DEF Init, RegisterValues, Unknown
<1>2. Settable
  BY StandardIsValid, ModeAssumption DEF Init, Settable
<1>3. faults \in 0..MaxFaults
  BY FaultsAssumption DEF Init
<1> QED  BY <1>1, <1>2, <1>3 DEF Init, SettingsInv, IsOpen, Busy

\* The command that an update waits for.
LEMMA HeadIsCommand ==
  ASSUME SettingsInv, Busy
  PROVE  /\ Good(hw, update) /\ update \in UpdateValues(mode)
         /\ update.commands \in Seq(Command) /\ update.commands # <<>>
         /\ Head(update.commands) \in Command
         /\ After(hw, Head(update.commands)) \in RegisterValues
         /\ update.proposed \in Settings(mode) /\ ValidConfig(mode, update.proposed)
         /\ update.receive \in ReceiveValues(mode)
<1>1. Good(hw, update) /\ hw \in RegisterValues
  BY DEF SettingsInv
<1>2. /\ update \in UpdateValues(mode)
      /\ update.commands \in Seq(Command) /\ update.commands # <<>>
      /\ update.proposed \in Settings(mode) /\ ValidConfig(mode, update.proposed)
      /\ update.receive \in ReceiveValues(mode)
  BY <1>1 DEF Good, WellFormed, UpdateValues
<1>3. Head(update.commands) \in Command
  BY <1>2, AfterTheFirst
<1> QED  BY <1>1, <1>2, <1>3, AfterCommand

\* A step that gives up keeps the invariant.
LEMMA GiveUpKeeps ==
  ASSUME SettingsInv, Busy, NEW registers \in RegisterValues, GiveUp(registers),
         mode' = mode, faults' \in 0..MaxFaults
  PROVE  SettingsInv'
<1>1. CASE stage = "Updating" /\ stage' = "Idle" /\ hw' = registers /\ update' = NoUpdate
           /\ UNCHANGED <<config, receive>>
  BY <1>1 DEF SettingsInv, Settable, IsOpen, Busy
<1>2. CASE hw' \in CleanedUp(registers) /\ Discard
  <2>1. hw' \in RegisterValues
    BY <1>2, CleanedUpValues
  <2>2. Settable'
    BY <1>2, StandardIsValid DEF SettingsInv, Settable, Discard
  <2> QED  BY <1>2, <2>1, <2>2 DEF SettingsInv, Discard, IsOpen, Busy
<1> QED  BY <1>1, <1>2 DEF GiveUp

\* Every step keeps the invariant; an answered command keeps the update on course.
LEMMA SettingsNext ==
  SettingsInv /\ [Next]_vars => SettingsInv'
<1> SUFFICES ASSUME SettingsInv, [Next]_vars PROVE SettingsInv'
  OBVIOUS
<1>1. ASSUME NEW m \in Mode, NEW c \in Configs(m), Open(m, c)
      PROVE  SettingsInv'
  <2>1. m \in {"RawAdc", "F32Iq"} /\ c \in Settings(m) /\ ValidConfig(m, c)
    BY ModeAssumption, RequestsAssumption DEF Configs
  <2>2. WellFormed(m, update') /\ OnCourse(hw, m, update') /\ KeepsTheRest(update')
    BY <1>1, <2>1, ConfigureIsGood DEF Open
  <2>3. Good(hw, update)'
    <3>1. mode' = m /\ hw' = hw /\ config' = config /\ receive' = receive
      BY <1>1 DEF Open
    <3>2. KeepsTheRest(update)'
      BY <2>2, <3>1 DEF KeepsTheRest
    <3> QED  BY <2>2, <3>1, <3>2 DEF Good
  <2>4. config = Standard /\ receive = InitialReceive
    BY <1>1 DEF Open, SettingsInv, IsOpen
  <2>5. Settable'
    BY <1>1, <2>1, <2>4, StandardIsValid DEF Open, Settable
  <2>6. update'.fields = Field
    BY <1>1 DEF Open, Configure
  <2> QED  BY <1>1, <2>3, <2>4, <2>5, <2>6 DEF Open, SettingsInv, IsOpen, Busy
<1>2. ASSUME NEW u \in Updates, Update(u)
      PROVE  SettingsInv'
  <2>1. Good(hw, u)
    BY UpdatesAreGood DEF SettingsInv
  <2>2. Good(hw, update)'
    BY <1>2, <2>1 DEF Update, Good, KeepsTheRest
  <2> QED  BY <1>2, <2>2 DEF Update, SettingsInv, Settable, IsOpen, Busy
<1>3. CASE Answered
  <2>1. Busy /\ mode' = mode /\ faults' = faults
    BY <1>3 DEF Answered
  <2> DEFINE c == Head(update.commands)
  <2>2. hw' = After(hw, c)
    BY <1>3, ResponseEffect DEF Answered
  <2>3. hw' \in RegisterValues
    BY <2>1, <2>2, HeadIsCommand
  <2>4. CASE Len(update.commands) = 1
    <3>1. Commit
      BY <1>3, <2>4 DEF Answered
    <3>2. Settable'
      BY <2>1, <3>1, HeadIsCommand DEF Commit, Settable, SettingsInv
    <3> QED  BY <2>1, <2>3, <3>1, <3>2 DEF Commit, SettingsInv, IsOpen, Busy
  <2>5. CASE Len(update.commands) # 1
    <3>1. update' = [update EXCEPT !.commands = Tail(@)] /\ UNCHANGED <<stage, config, receive>>
      BY <1>3, <2>5 DEF Answered
    <3>2. OnCourse(hw', mode, update')
      BY <2>1, <2>2, <3>1, HeadIsCommand, CourseStep DEF SettingsInv, Good
    <3>3. /\ update'.fields = update.fields /\ update'.proposed = update.proposed
          /\ update'.receive = update.receive /\ update'.commands = Tail(update.commands)
          /\ Tail(update.commands) \in Seq(Command) /\ Tail(update.commands) # <<>>
      BY <2>1, <2>5, <3>1, HeadIsCommand, AfterTheFirst DEF UpdateValues
    <3>4. WellFormed(mode, update')
      BY <2>1, <3>1, <3>3, HeadIsCommand DEF Good, WellFormed, UpdateValues
    <3>5. KeepsTheRest(update)'
      <4>1. \A R : Avoids(update.commands, R) => Avoids(Tail(update.commands), R)
        BY <2>1, HeadIsCommand, AfterTheFirst
      <4>2. KeepsTheRest(update)
        BY <2>1, HeadIsCommand DEF Good
      <4> QED  BY <3>1, <3>3, <4>1, <4>2 DEF KeepsTheRest
    <3> QED  BY <2>1, <2>3, <3>1, <3>2, <3>3, <3>4, <3>5 DEF SettingsInv, Settable, Good, IsOpen, Busy
  <2> QED  BY <2>4, <2>5
<1>4. CASE Refused
  <2>1. PICK r \in Responses(Head(update.commands)) : GiveUp(r.registers)
    BY <1>4 DEF Refused
  <2>2. Busy /\ mode' = mode /\ faults' = faults + 1 /\ faults < MaxFaults
    BY <1>4 DEF Refused
  <2>3. r.registers \in RegisterValues
    BY <2>2, HeadIsCommand, ResponseEffect DEF SettingsInv
  <2>4. faults' \in 0..MaxFaults
    BY <2>2, FaultsAssumption DEF SettingsInv
  <2> QED  BY <2>1, <2>2, <2>3, <2>4, GiveUpKeeps
<1>5. CASE Lost
  <2>1. PICK registers \in {hw, After(hw, Head(update.commands))} : GiveUp(registers)
    BY <1>5 DEF Lost
  <2>2. Busy /\ mode' = mode /\ faults' = faults + 1 /\ faults < MaxFaults
    BY <1>5 DEF Lost
  <2>3. registers \in RegisterValues
    BY <2>2, HeadIsCommand DEF SettingsInv
  <2>4. faults' \in 0..MaxFaults
    BY <2>2, FaultsAssumption DEF SettingsInv
  <2> QED  BY <2>1, <2>2, <2>3, <2>4, GiveUpKeeps
<1>6. CASE Close
  <2>1. hw' \in RegisterValues
    BY <1>6, CleanedUpValues DEF Close, SettingsInv
  <2>2. Settable'
    BY <1>6, StandardIsValid DEF Close, SettingsInv, Settable, Discard
  <2> QED  BY <1>6, <2>1, <2>2 DEF Close, Discard, SettingsInv, IsOpen, Busy
<1>7. CASE UNCHANGED vars
  BY <1>7 DEF vars, SettingsInv, Settable, Good, KeepsTheRest, IsOpen, Busy
<1> QED  BY <1>1, <1>2, <1>3, <1>4, <1>5, <1>6, <1>7 DEF Next

\* The snapshot, the receive settings and the update in progress are always
\* such that the update makes what it proposes (device.rs:487, protocol.rs:250).
THEOREM SettingsInvariant == Spec => []SettingsInv
<1> QED  BY SettingsInit, SettingsNext, PTL DEF Spec

(***************************************************************************)
(* Theorems                                                                *)
(***************************************************************************)

\* Values, and commands left exactly while an operation is busy.
THEOREM SettingsTypeCorrect == Spec => []TypeOK
<1>1. SettingsInv => TypeOK
  <2> SUFFICES ASSUME SettingsInv PROVE TypeOK
    OBVIOUS
  <2>1. DOMAIN hw = Register
    BY DEF SettingsInv, RegisterValues
  <2>2. \A r \in {"LnaAgc", "MixerAgc", "Packing", "Bias"} : hw[r] \in {Unknown, 0, 1}
    BY DEF SettingsInv, RegisterValues, Register, InRange
  <2>3. Busy => update.commands # <<>> /\ update.fields # {}
    BY DEF SettingsInv, Good, WellFormed
  <2>4. ~Busy => update.commands = <<>> /\ update.fields = {}
    BY DEF SettingsInv, NoUpdate
  <2> QED  BY <2>1, <2>2, <2>3, <2>4 DEF TypeOK, SettingsInv, Settable, ReceiveValues
<1> QED  BY <1>1, SettingsInvariant, PTL

\* The snapshot passes the validation of a configuration, though the setters
\* check one argument each and the rate depends on policy and mode; so
\* configuring it again finds a rate (the expect() of protocol.rs:279).
THEOREM SnapshotAlwaysValid == Spec => []SnapshotIsValid
<1>1. SettingsInv => SnapshotIsValid
  BY ValidIsSelected DEF SettingsInv, Settable, SnapshotIsValid
<1> QED  BY <1>1, SettingsInvariant, PTL

\* No command asks a stage of the radio for more than it has (config.rs:498,
\* protocol.rs:344), whatever was asked for, in whatever order, with whatever
\* failures in between.
THEOREM RegistersAlwaysInRange == Spec => []RegistersInRange
<1>1. SettingsInv => RegistersInRange
  <2> SUFFICES ASSUME SettingsInv PROVE RegistersInRange
    OBVIOUS
  <2>1. \A r \in Register : hw[r] = Unknown \/ (hw[r] \in Nat /\ InRange(r, hw[r]))
    BY DEF SettingsInv, RegisterValues
  <2>2. {"Frequency", "Rate", "LnaGain", "MixerGain", "VgaGain"} \subseteq Register
    BY DEF Register
  <2> QED  BY <2>1, <2>2 DEF RegistersInRange, InRange, MaxLna, MaxMixer, MaxVga
<1> QED  BY <1>1, SettingsInvariant, PTL

(***************************************************************************)
(* The promise of Device::config()                                         *)
(***************************************************************************)

\* What a step in the middle of an update leaves of a field that its command
\* is not about.  A gain that the AGC may have changed did not hold before.
LEMMA HoldsKept ==
  ASSUME hw \in RegisterValues, NEW c \in Command, hw' \in {hw, After(hw, c)}, mode' = mode
  PROVE  /\ c.reg # "Frequency" /\ config'.frequency = config.frequency
              => (Holds("frequency")' <=> Holds("frequency"))
         /\ c.reg # "Rate" /\ config'.rate = config.rate /\ config'.policy = config.policy
              /\ receive'.decimation = receive.decimation
              => (Holds("rate")' <=> Holds("rate"))
         /\ c.reg # "Port" /\ config'.port = config.port => (Holds("port")' <=> Holds("port"))
         /\ c.reg \notin GainRegister /\ config'.gain = config.gain
              => (Holds("gain")' <=> Holds("gain"))
         /\ c.reg # "Packing" /\ config'.packing = config.packing
              /\ receive'.packing = receive.packing
              => (Holds("packing")' <=> Holds("packing"))
         /\ c.reg # "Bias" /\ config'.bias = config.bias => (Holds("bias")' <=> Holds("bias"))
<1>1. \A r \in {"Frequency", "Rate", "Port", "LnaAgc", "MixerAgc", "VgaGain", "Packing", "Bias"} :
        r # c.reg => hw'[r] = hw[r]
  BY AfterCommand DEF Register
<1>2. CASE c.reg \notin GainRegister /\ config'.gain = config.gain
  <2>1. /\ hw'["LnaAgc"] = hw["LnaAgc"] /\ hw'["MixerAgc"] = hw["MixerAgc"]
        /\ hw'["VgaGain"] = hw["VgaGain"]
    BY <1>1, <1>2 DEF GainRegister
  <2>2. /\ hw["LnaAgc"] = 0 => hw'["LnaGain"] = hw["LnaGain"]
        /\ hw["MixerAgc"] = 0 => hw'["MixerGain"] = hw["MixerGain"]
    <3>1. CASE hw' = hw
      BY <3>1
    <3>2. CASE hw' = After(hw, c)
      <4>1. c.reg # "LnaGain" /\ c.reg # "MixerGain"
        BY <1>2 DEF GainRegister
      <4> QED  BY <2>1, <3>2, <4>1, AfterCommand
    <3> QED  BY <3>1, <3>2
  <2>3. \A g : StageHolds("LnaAgc", "LnaGain", g)' <=> StageHolds("LnaAgc", "LnaGain", g)
    BY <2>1, <2>2 DEF StageHolds
  <2>4. \A g : StageHolds("MixerAgc", "MixerGain", g)' <=> StageHolds("MixerAgc", "MixerGain", g)
    BY <2>1, <2>2 DEF StageHolds
  <2>5. GainHolds(config.gain)' <=> GainHolds(config.gain)
    BY <1>2, <2>1, <2>3, <2>4 DEF GainHolds
  <2> QED  BY <1>1, <1>2, <2>5 DEF Holds, RateHolds
<1>3. CASE ~(c.reg \notin GainRegister /\ config'.gain = config.gain)
  BY <1>1, <1>3 DEF Holds, RateHolds
<1> QED  BY <1>2, <1>3

\* With no command left, being on course is being there.
LEMMA SettledAtEnd ==
  ASSUME NEW h, NEW R, NEW r, NEW v, Settled(h, <<>>, R, Write(r, v))
  PROVE  h[r] = v
BY DEF Settled, Last, Write

\* The last response makes what the update proposed.
LEMMA CompletedHolds ==
  ASSUME SettingsInv, Busy, Len(update.commands) = 1, Commit,
         hw' = After(hw, Head(update.commands)), mode' = mode
  PROVE  \A f \in update.fields : Holds(f)'
<1> DEFINE h == After(hw, Head(update.commands))
           u == update
<1>1. OnCourse(h, mode, [u EXCEPT !.commands = <<>>])
  <2>1. Tail(update.commands) = <<>>
    BY HeadIsCommand, AfterTheFirst
  <2>2. OnCourse(h, mode, [u EXCEPT !.commands = Tail(@)])
    BY HeadIsCommand, CourseStep DEF SettingsInv, Good
  <2> QED  BY <2>1, <2>2
<1> DEFINE w == [u EXCEPT !.commands = <<>>]
<1>2. /\ w.fields = u.fields /\ w.proposed = u.proposed /\ w.receive = u.receive
      /\ w.commands = <<>>
  BY HeadIsCommand DEF UpdateValues
<1>3. config' = u.proposed /\ receive' = u.receive
  BY DEF Commit
<1>4. hw' = h
  OBVIOUS
<1> HIDE DEF h, w
<1>5. ASSUME "frequency" \in u.fields
      PROVE  Holds("frequency")'
  <2>1. h["Frequency"] = u.proposed.frequency
    BY <1>1, <1>2, <1>5, SettledAtEnd DEF OnCourse
  <2> QED  BY <1>3, <1>4, <2>1 DEF Holds
<1>6. ASSUME "rate" \in u.fields
      PROVE  Holds("rate")'
  <2>1. PICK param \in 0..2 : /\ Settled(h, <<>>, {"Rate"}, Write("Rate", param))
                              /\ RateServed(mode, u.proposed, param, u.receive.decimation)
    BY <1>1, <1>2, <1>6 DEF OnCourse
  <2>2. h["Rate"] = param
    BY <2>1, SettledAtEnd
  <2>3. RateHolds'
    BY <1>3, <1>4, <2>1, <2>2 DEF RateHolds, RateServed
  <2> QED  BY <2>3 DEF Holds
<1>7. ASSUME "port" \in u.fields
      PROVE  Holds("port")'
  <2>1. h["Port"] = u.proposed.port
    BY <1>1, <1>2, <1>7, SettledAtEnd DEF OnCourse
  <2> QED  BY <1>3, <1>4, <2>1 DEF Holds
<1>8. ASSUME "gain" \in u.fields
      PROVE  Holds("gain")'
  <2>1. GainSettled(h, <<>>, u.proposed.gain)
    BY <1>1, <1>2, <1>8 DEF OnCourse
  <2>2. StageHolds("LnaAgc", "LnaGain", Lna(config.gain))'
    BY <1>3, <1>4, <2>1, SettledAtEnd DEF GainSettled, StageSettled, StageHolds, Lna, Entry
  <2>3. StageHolds("MixerAgc", "MixerGain", Mixer(config.gain))'
    BY <1>3, <1>4, <2>1, SettledAtEnd DEF GainSettled, StageSettled, StageHolds, Mixer, Entry
  <2>4. hw'["VgaGain"] = Vga(config'.gain)
    BY <1>3, <1>4, <2>1, SettledAtEnd DEF GainSettled
  <2>5. GainHolds(config.gain)'
    BY <2>2, <2>3, <2>4 DEF GainHolds, Lna, Mixer, Vga
  <2> QED  BY <2>5 DEF Holds
<1>9. ASSUME "packing" \in u.fields
      PROVE  Holds("packing")'
  <2>1. h["Packing"] = Bit(u.proposed.packing) /\ u.receive.packing = u.proposed.packing
    BY <1>1, <1>2, <1>9, SettledAtEnd DEF OnCourse
  <2> QED  BY <1>3, <1>4, <2>1 DEF Holds
<1>10. ASSUME "bias" \in u.fields
      PROVE  Holds("bias")'
  <2>1. h["Bias"] = Bit(u.proposed.bias)
    BY <1>1, <1>2, <1>10, SettledAtEnd DEF OnCourse
  <2> QED  BY <1>3, <1>4, <2>1 DEF Holds
<1>11. u.fields \subseteq Field
  BY HeadIsCommand DEF UpdateValues
<1> QED
  <2> SUFFICES ASSUME NEW f \in u.fields PROVE Holds(f)'
    OBVIOUS
  <2>1. f \in {"frequency", "rate", "port", "gain", "packing", "bias"}
    BY <1>11 DEF Field
  <2> QED  BY <1>5, <1>6, <1>7, <1>8, <1>9, <1>10, <2>1

\* The fields that an update is not about are as right or wrong as before,
\* whether its command arrived or not and whether it is committed or not.
LEMMA OthersKept ==
  ASSUME SettingsInv, Busy, mode' = mode,
         hw' \in {hw, After(hw, Head(update.commands))},
         \/ config' = config /\ receive' = receive
         \/ config' = update.proposed /\ receive' = update.receive
  PROVE  \A f \in Field \ update.fields : Holds(f)' <=> Holds(f)
<1> DEFINE c == Head(update.commands)
<1>1. /\ update.commands \in Seq(Command) /\ update.commands # <<>>
      /\ c \in Command /\ hw \in RegisterValues /\ KeepsTheRest(update)
  BY HeadIsCommand DEF SettingsInv, Good
<1>2. \A R : Avoids(update.commands, R) => c.reg \notin R
  BY <1>1, AfterTheFirst
<1> HIDE DEF c
<1>3. hw' \in {hw, After(hw, c)}
  BY DEF c
<1>4. "frequency" \notin update.fields => (Holds("frequency")' <=> Holds("frequency"))
  <2>1. "frequency" \notin update.fields
          => c.reg # "Frequency" /\ config'.frequency = config.frequency
    BY <1>1, <1>2 DEF KeepsTheRest
  <2> QED  BY <1>1, <1>3, <2>1, HoldsKept
<1>5. "rate" \notin update.fields => (Holds("rate")' <=> Holds("rate"))
  <2>1. "rate" \notin update.fields
          => /\ c.reg # "Rate" /\ config'.rate = config.rate /\ config'.policy = config.policy
             /\ receive'.decimation = receive.decimation
    BY <1>1, <1>2 DEF KeepsTheRest
  <2> QED  BY <1>1, <1>3, <2>1, HoldsKept
<1>6. "port" \notin update.fields => (Holds("port")' <=> Holds("port"))
  <2>1. "port" \notin update.fields => c.reg # "Port" /\ config'.port = config.port
    BY <1>1, <1>2 DEF KeepsTheRest
  <2> QED  BY <1>1, <1>3, <2>1, HoldsKept
<1>7. "gain" \notin update.fields => (Holds("gain")' <=> Holds("gain"))
  <2>1. "gain" \notin update.fields => c.reg \notin GainRegister /\ config'.gain = config.gain
    BY <1>1, <1>2 DEF KeepsTheRest
  <2> QED  BY <1>1, <1>3, <2>1, HoldsKept
<1>8. "packing" \notin update.fields => (Holds("packing")' <=> Holds("packing"))
  <2>1. "packing" \notin update.fields
          => /\ c.reg # "Packing" /\ config'.packing = config.packing
             /\ receive'.packing = receive.packing
    BY <1>1, <1>2 DEF KeepsTheRest
  <2> QED  BY <1>1, <1>3, <2>1, HoldsKept
<1>9. "bias" \notin update.fields => (Holds("bias")' <=> Holds("bias"))
  <2>1. "bias" \notin update.fields => c.reg # "Bias" /\ config'.bias = config.bias
    BY <1>1, <1>2 DEF KeepsTheRest
  <2> QED  BY <1>1, <1>3, <2>1, HoldsKept
<1> QED
  <2> SUFFICES ASSUME NEW f \in Field \ update.fields PROVE Holds(f)' <=> Holds(f)
    OBVIOUS
  <2>1. f \in {"frequency", "rate", "port", "gain", "packing", "bias"}
    BY DEF Field
  <2> QED  BY <1>4, <1>5, <1>6, <1>7, <1>8, <1>9, <2>1

\* Before anything is opened nothing is promised.
LEMMA PromiseInit ==
  Init => Promise!Init
BY DEF Init, Promise!Init, IsOpen, Wrong

\* The last response succeeds, or opens; every other one writes.
LEMMA AnsweredKeepsPromise ==
  ASSUME SettingsInv, Answered
  PROVE  [Promise!Next]_(Promise!promiseVars)
<1>1. /\ Busy /\ mode' = mode /\ hw' = After(hw, Head(update.commands))
  BY ResponseEffect DEF Answered
<1>2. Good(hw, update) /\ update.fields # {} /\ update.fields \subseteq Field
  BY <1>1, HeadIsCommand DEF Good, WellFormed, UpdateValues
<1>3. CASE Len(update.commands) = 1
  <2>1. Commit
    BY <1>3 DEF Answered
  <2>2. \A f \in update.fields : Holds(f)'
    BY <1>1, <1>3, <2>1, CompletedHolds
  <2>3. \A f \in Field \ update.fields : Holds(f)' <=> Holds(f)
    BY <1>1, <2>1, OthersKept DEF Commit
  <2>4. IsOpen' /\ stage' = "Idle"
    BY <2>1 DEF Commit, IsOpen
  <2>5. CASE stage = "Opening"
    <3>1. update.fields = Field
      BY <2>5 DEF SettingsInv
    <3> QED  BY <2>2, <2>4, <2>5, <3>1 DEF Promise!Next, Promise!Open, Wrong, IsOpen
  <2>6. CASE stage = "Updating"
    <3>1. Wrong' = Wrong \ update.fields
      BY <1>2, <2>2, <2>3, <2>4, <2>6 DEF Wrong, IsOpen
    <3>2. Promise!Succeed
      <4>1. /\ "frequency" \notin update.fields => config'.frequency = config.frequency
            /\ "rate" \notin update.fields => config'.rate = config.rate
                                              /\ config'.policy = config.policy
            /\ "port" \notin update.fields => config'.port = config.port
            /\ "gain" \notin update.fields => config'.gain = config.gain
            /\ "packing" \notin update.fields => config'.packing = config.packing
            /\ "bias" \notin update.fields => config'.bias = config.bias
        BY <1>2, <2>1 DEF Good, KeepsTheRest, Commit
      <4> QED  BY <1>2, <2>4, <2>6, <3>1, <4>1 DEF Promise!Succeed, IsOpen, Field
    <3> QED  BY <3>2 DEF Promise!Next
  <2> QED  BY <1>1, <2>5, <2>6 DEF Busy
<1>4. CASE Len(update.commands) # 1
  <2>1. /\ update' = [update EXCEPT !.commands = Tail(@)] /\ UNCHANGED <<stage, config, receive>>
    BY <1>4 DEF Answered
  <2>2. update'.fields = update.fields
    BY <1>1, <2>1, HeadIsCommand DEF UpdateValues
  <2>3. \A f \in Field \ update.fields : Holds(f)' <=> Holds(f)
    BY <1>1, <2>1, OthersKept
  <2>4. CASE stage = "Opening"
    BY <2>1, <2>4 DEF Promise!promiseVars, Wrong, IsOpen
  <2>5. CASE stage = "Updating"
    <3>1. Promise!WrongOnlyIn(update.fields)
      BY <2>1, <2>3, <2>5 DEF Promise!WrongOnlyIn, Wrong, IsOpen
    <3>2. Promise!Write
      BY <2>1, <2>2, <2>5, <3>1 DEF Promise!Write, IsOpen
    <3> QED  BY <3>2 DEF Promise!Next
  <2> QED  BY <1>1, <2>4, <2>5 DEF Busy
<1> QED  BY <1>3, <1>4

\* An update that ends early gives up; an opening that does was never open.
LEMMA GiveUpKeepsPromise ==
  ASSUME SettingsInv, Busy, mode' = mode,
         NEW registers \in {hw, After(hw, Head(update.commands))}, GiveUp(registers)
  PROVE  [Promise!Next]_(Promise!promiseVars)
<1>1. update.fields # {}
  BY HeadIsCommand DEF Good, WellFormed
<1>2. CASE stage = "Updating" /\ stage' = "Idle" /\ hw' = registers /\ update' = NoUpdate
           /\ UNCHANGED <<config, receive>>
  <2>1. \A f \in Field \ update.fields : Holds(f)' <=> Holds(f)
    BY <1>2, OthersKept
  <2>2. Promise!WrongOnlyIn(update.fields)
    BY <1>2, <2>1 DEF Promise!WrongOnlyIn, Wrong, IsOpen
  <2>3. Promise!GiveUp
    BY <1>1, <1>2, <2>2 DEF Promise!GiveUp, IsOpen
  <2> QED  BY <2>3 DEF Promise!Next
<1>3. CASE stage = "Opening" /\ Discard
  <2>1. config = Standard
    BY <1>3 DEF SettingsInv, IsOpen
  <2> QED  BY <1>3, <2>1 DEF Discard, Promise!promiseVars, Wrong, IsOpen
<1> QED  BY <1>2, <1>3 DEF GiveUp

\* Every step is one of the promise, or changes nothing it speaks of.
LEMMA PromiseNext ==
  SettingsInv /\ [Next]_vars => [Promise!Next]_(Promise!promiseVars)
<1> SUFFICES ASSUME SettingsInv, [Next]_vars PROVE [Promise!Next]_(Promise!promiseVars)
  OBVIOUS
<1>1. ASSUME NEW m \in Mode, NEW c \in Configs(m), Open(m, c)
      PROVE  UNCHANGED Promise!promiseVars
  BY <1>1 DEF Open, Promise!promiseVars, Wrong, IsOpen
<1>2. ASSUME NEW u \in Updates, Update(u)
      PROVE  Promise!Begin
  <2>1. u.fields # {}
    BY UpdatesAreGood DEF SettingsInv, Good, WellFormed
  <2>2. \A f : Holds(f)' <=> Holds(f)
    BY <1>2 DEF Update, Holds, RateHolds, GainHolds, StageHolds
  <2>3. Wrong' = Wrong
    BY <1>2, <2>2 DEF Update, Wrong, IsOpen
  <2> QED  BY <1>2, <2>1, <2>3 DEF Update, Promise!Begin, IsOpen
<1>3. CASE Answered
  BY <1>3, AnsweredKeepsPromise
<1>4. CASE Refused
  BY <1>4, ResponseEffect, GiveUpKeepsPromise DEF Refused
<1>5. CASE Lost
  BY <1>5, GiveUpKeepsPromise DEF Lost
<1>6. CASE Close
  BY <1>6 DEF Close, Discard, Promise!Next, Promise!Close, Wrong, IsOpen
<1>7. CASE UNCHANGED vars
  <2>1. \A f : Holds(f)' <=> Holds(f)
    BY <1>7 DEF vars, Holds, RateHolds, GainHolds, StageHolds
  <2>2. Wrong' = Wrong
    BY <1>7, <2>1 DEF vars, Wrong, IsOpen
  <2> QED  BY <1>7, <2>2 DEF vars, Promise!promiseVars, IsOpen
<1> QED  BY <1>1, <1>2, <1>3, <1>4, <1>5, <1>6, <1>7 DEF Next, Promise!Next

\* Device::config() is the configuration last successfully applied
\* (device.rs:101): what an update succeeds with holds in radio and receiver,
\* what it fails with changes no report and spoils only its own fields, and
\* opening makes everything hold.
THEOREM ConfigurationImplementsPromise == Spec => ImplementsPromise
<1> QED  BY PromiseInit, PromiseNext, SettingsInvariant, PTL DEF Spec, ImplementsPromise, Promise!Spec

=============================================================================
