--------------------------- MODULE SettingsPromise ---------------------------
(***************************************************************************)
(* What Device::config() promises (src/src/device.rs): the configuration   *)
(* last successfully applied.  An update changes the snapshot in the       *)
(* fields it is about and leaves none of them wrong, or it changes nothing *)
(* of the snapshot and can leave wrong only the fields it is about.        *)
(* Opening leaves nothing wrong, whatever the radio held before.           *)
(***************************************************************************)
CONSTANT Field

VARIABLES
  open,      \* whether there is a device handle that can be used
  snapshot,  \* what the handle reports, field by field
  wrong,     \* the fields whose report the radio or the receiver contradicts
  touched    \* the fields the update in progress is about

promiseVars == <<open, snapshot, wrong, touched>>

\* Only fields in F may turn wrong or right.
WrongOnlyIn(F) == wrong' \ F = wrong \ F

Init == ~open /\ wrong = {} /\ touched = {}

Open == ~open /\ open' /\ wrong' = {} /\ touched' = {}

Begin ==
  /\ open
  /\ touched = {} /\ touched' # {}
  /\ UNCHANGED <<open, snapshot, wrong>>

Write ==
  /\ UNCHANGED <<open, touched, snapshot>>
  /\ WrongOnlyIn(touched)

Succeed ==
  /\ touched # {} /\ touched' = {}
  /\ UNCHANGED open
  /\ \A f \in Field \ touched : snapshot'[f] = snapshot[f]
  /\ wrong' = wrong \ touched

GiveUp ==
  /\ touched # {} /\ touched' = {}
  /\ UNCHANGED <<open, snapshot>>
  /\ WrongOnlyIn(touched)

Close == open /\ ~open' /\ wrong' = {} /\ touched' = {}

Next == Open \/ Begin \/ Write \/ Succeed \/ GiveUp \/ Close

Spec == Init /\ [][Next]_promiseVars

=============================================================================
