-------------------------- MODULE HardwareCustody --------------------------
(***************************************************************************)
(* What the driver promises about the hardware it holds, whatever the      *)
(* device handle, the streams, failing transfers and cancellations do:     *)
(*                                                                         *)
(*  - only the one holder of the receiver claim switches the receiver on;  *)
(*  - the claim is given back for the next stream only with the receiver   *)
(*    off; a receiver that could not be switched off strands the claim,    *)
(*    and then only a shutdown gets the hardware back;                     *)
(*  - a shutdown, and the cleanup of the last owner, only switch things    *)
(*    off, and the device is closed only when both are off.                *)
(***************************************************************************)
VARIABLES custody,  \* who is responsible for the hardware
          rx,       \* receiver: "Off", "On", or "Unknown" if never commanded
          bias      \* RF bias power, likewise

vars == <<custody, rx, bias>>

Init ==
  /\ custody = "Unclaimed"
  /\ rx = "Unknown"
  /\ bias = "Unknown"

\* A power register keeps its value or is switched off.
OnlyOff(register, next) == next \in {register, "Off"}

\* The open device: bias power follows the configuration, in any custody.
Power ==
  /\ custody \in {"Unclaimed", "Claimed", "Stranded"}
  /\ bias' \in {"On", "Off"}
  /\ UNCHANGED <<custody, rx>>

Claim ==
  /\ custody = "Unclaimed"
  /\ custody' = "Claimed"
  /\ UNCHANGED <<rx, bias>>

\* The holder of the claim drives the receiver.
Drive ==
  /\ custody = "Claimed"
  /\ rx' \in {"On", "Off"}
  /\ UNCHANGED <<custody, bias>>

\* The claim comes back, with the command that switched the receiver off or
\* after it.
Release ==
  /\ custody = "Claimed"
  /\ rx' # "On" /\ OnlyOff(rx, rx')
  /\ custody' = "Unclaimed"
  /\ UNCHANGED bias

Strand ==
  /\ custody = "Claimed"
  /\ OnlyOff(rx, rx')
  /\ custody' = "Stranded"
  /\ UNCHANGED bias

\* A shutdown begins, possibly while a last configuration command settles.
BeginEnd ==
  /\ custody \in {"Unclaimed", "Stranded"}
  /\ custody' = "Ending"
  /\ bias' \in {bias, "On", "Off"}
  /\ UNCHANGED rx

\* Everyone let go of an open device, or of one whose shutdown never succeeded.
Abandon ==
  /\ custody \in {"Unclaimed", "Claimed", "Stranded", "Ending"}
  /\ custody' = "Abandoned"
  /\ OnlyOff(rx, rx')
  /\ custody = "Ending" => OnlyOff(bias, bias')
  /\ custody # "Ending" => bias' \in {bias, "On", "Off"}

\* A shutdown, or the cleanup of the last owner, at work.
Quench ==
  /\ custody \in {"Ending", "Abandoned"}
  /\ OnlyOff(rx, rx') /\ OnlyOff(bias, bias')
  /\ UNCHANGED custody

\* The shutdown succeeded.
End ==
  /\ custody = "Ending"
  /\ OnlyOff(rx, rx') /\ OnlyOff(bias, bias')
  /\ rx' = "Off" /\ bias' = "Off"
  /\ custody' = "Ended"

Next ==
  Power \/ Claim \/ Drive \/ Release \/ Strand \/ BeginEnd \/ Abandon \/ Quench \/ End

Spec == Init /\ [][Next]_vars
=============================================================================
