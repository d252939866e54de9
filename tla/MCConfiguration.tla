--------------------------- MODULE MCConfiguration ---------------------------
(***************************************************************************)
(* What is asked of a device, for TLC: values at and beyond the limits.    *)
(***************************************************************************)
EXTENDS Configuration

MCFrequencies == {23999999, 24000000}

\* 5 MHz can be made from two of the firmware rates, and is a raw rate too;
\* 1 MHz divides the firmware rates by factors that the host does not have.
MCRates == {0, 1000000, 5000000}

MCGains == {Linearity(21), Linearity(22),
            Stages(Agc, Manual(15), 15), Stages(Manual(15), Agc, 0)}

\* The rest of the values, valid and not, is asked for with whole configurations.
MCRequests ==
  LET Ask(frequency, rate, policy, gain, packing, bias) ==
        [frequency |-> frequency, rate |-> rate, policy |-> policy, port |-> 0,
         gain |-> gain, packing |-> packing, bias |-> bias]
  IN  [RawAdc |-> {Ask(24000000, 5000000, "LowBandwidth", Stages(Agc, Manual(15), 15), TRUE, TRUE),
                   Ask(24000000, 625000, "LowBandwidth", Linearity(21), FALSE, FALSE)},
       F32Iq  |-> {Ask(24000000, 625000, "HighDefinition", Sensitivity(0), FALSE, FALSE),
                   Ask(1800000000, 2500000, "LowBandwidth", Stages(Manual(14), Agc, 3), FALSE, TRUE),
                   Ask(1800000001, 5000000, "LowBandwidth", Linearity(21), FALSE, TRUE)}]

=============================================================================
