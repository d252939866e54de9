----------------------------- MODULE MCDiscovery -----------------------------
(***************************************************************************)
(* Devices for TLC: a radio without serial string, one whose string is in  *)
(* lower case, one as the firmware writes it, and two strangers, one of    *)
(* them behind the IDs of a radio.                                         *)
(***************************************************************************)
EXTENDS Discovery, Integers

MCUsb == [nameless |-> "1d50:60a1", lower |-> "38af:0001", upper |-> "38af:0001",
          stranger |-> "1d50:6089", disguised |-> "1d50:60a1"]

MCLabel == [nameless  |-> [form |-> "Absent"],
            lower     |-> [form |-> "Lower", serial |-> 10],
            upper     |-> [form |-> "Upper", serial |-> 10],
            stranger  |-> [form |-> "Upper", serial |-> 10],
            disguised |-> [form |-> "Invalid"]]

MCFirmware == [nameless |-> "HydraSDR", lower |-> "HydraSDR", upper |-> "HydraSDR",
               stranger |-> "Other", disguised |-> "Other"]

MCSelectors == {{}, {0}, {10}}

=============================================================================
