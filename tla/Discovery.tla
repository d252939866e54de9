------------------------------ MODULE Discovery ------------------------------
(***************************************************************************)
(* Finding and opening a radio (src/src/discovery.rs, NusbTransport::open  *)
(* in src/src/usb/mod.rs, device_info in src/src/protocol.rs): the list of *)
(* USB devices, the selector, the permission a browser asks its user for,  *)
(* and the steps from a list entry to a claimed interface whose firmware   *)
(* was recognized, while devices come and go and another program wants     *)
(* them too.                                                               *)
(*                                                                         *)
(* A definition whose name ends in _ and a word is the one after it with   *)
(* one plausible slip, and shows that some property would notice.          *)
(***************************************************************************)
EXTENDS SequencesExt

CONSTANTS Device,    \* the devices that may be plugged in
          Usb,       \* their USB vendor and product IDs
          Label,     \* their USB serial strings
          Firmware,  \* what their firmware answers: "HydraSDR" or "Other"
          Sockets,   \* bound on the devices that are plugged in at a time
          Web,       \* whether this is WebUSB, where devices need a permission
          Selectors  \* what is asked for: an Option of a serial number

ASSUME WebAssumption == Web \in BOOLEAN

VARIABLES
  bus,       \* the devices that are plugged in, in the order they are listed
  granted,   \* the devices the browser lets the program see
  step,      \* what the program waits for
  selector,  \* what it asked for
  chosen,    \* the device it works on: an Option
  taken,     \* the devices whose interface another program has claimed
  assured    \* history: the selectors whose permission was granted, with a
             \* device that matched and was not unplugged since

vars == <<bus, granted, step, selector, chosen, taken, assured>>

UsbDeviceIds == {"1d50:60a1", "38af:0001"}

\* The driver's serial number of a device; 0 if its string is none or is not
\* what the firmware writes.
NormalizedSerial(label) == IF label.form \in {"Upper", "Lower"} THEN label.serial ELSE 0

MatchesDevice(d, s) ==
  /\ Usb[d] \in UsbDeviceIds
  /\ \A serial \in s : NormalizedSerial(Label[d]) = serial

\* Of the IDs and the serial string, as the browser compares them: digits are
\* in upper case.  There is no filter for a serial number of 0.
Offered(d, s) ==
  /\ Usb[d] \in UsbDeviceIds
  /\ \A serial \in s \ {0} : Label[d].form = "Upper" /\ Label[d].serial = serial

Visible(d) == Web => d \in granted

\* Where the first device that matches is listed; 0 if there is none.
Found(s) == SelectInSeq(bus, LAMBDA d : Visible(d) /\ MatchesDevice(d, s))

Init ==
  /\ bus = <<>>
  /\ granted = {}
  /\ step = "Idle"
  /\ selector = {}
  /\ chosen = {}
  /\ taken = {}
  /\ assured = {}

-----------------------------------------------------------------------------
(* The world *)

Plug(d) ==
  /\ d \notin ToSet(bus) /\ Len(bus) < Sockets
  /\ \E i \in 1..(Len(bus) + 1) : bus' = InsertAt(bus, i, d)
  /\ UNCHANGED <<granted, step, selector, chosen, taken, assured>>

\* Who held the device holds a device that is gone.
Unplug(d) ==
  /\ \E i \in DOMAIN bus : bus[i] = d /\ bus' = RemoveAt(bus, i)
  /\ taken' = taken \ {d}
  /\ assured' = {s \in assured : ~MatchesDevice(d, s)}
  /\ IF d \in chosen THEN step' = "Gone" ELSE UNCHANGED step
  /\ UNCHANGED <<granted, selector, chosen>>

\* Another program claims or releases an interface.
OtherClaims(d) ==
  /\ d \in ToSet(bus) \ taken
  /\ ~(d \in chosen /\ step \in {"BoardId", "Firmware", "Open"})
  /\ taken' = taken \cup {d}
  /\ UNCHANGED <<bus, granted, step, selector, chosen, assured>>

OtherReleases(d) ==
  /\ d \in taken
  /\ taken' = taken \ {d}
  /\ UNCHANGED <<bus, granted, step, selector, chosen, assured>>

-----------------------------------------------------------------------------
(* request_device_permission *)

Assure(s) == assured' = assured \cup {s}

\* A device that can be seen already will do.
PermissionKnown(s) ==
  /\ Web /\ step = "Idle"
  /\ Found(s) # 0
  /\ Assure(s)
  /\ UNCHANGED <<bus, granted, step, selector, chosen, taken>>

\* The browser asks its user.
Prompt(s) ==
  /\ Web /\ step = "Idle"
  /\ Found(s) = 0
  /\ step' = "Prompt"
  /\ selector' = s
  /\ UNCHANGED <<bus, granted, chosen, taken, assured>>

\* The user takes one of the devices offered; what was offered is enough.
Pick_Unchecked(d) ==
  /\ step = "Prompt"
  /\ d \in ToSet(bus) /\ Offered(d, selector)
  /\ granted' = granted \cup {d}
  /\ Assure(selector)
  /\ step' = "Idle"
  /\ UNCHANGED <<bus, selector, chosen, taken>>

\* The user takes one of the devices offered, which may still not be one that
\* was asked for.
Pick(d) ==
  /\ step = "Prompt"
  /\ d \in ToSet(bus) /\ Offered(d, selector)
  /\ granted' = granted \cup {d}
  /\ IF MatchesDevice(d, selector) THEN Assure(selector) ELSE UNCHANGED assured
  /\ step' = "Idle"
  /\ UNCHANGED <<bus, selector, chosen, taken>>

Dismiss ==
  /\ step = "Prompt"
  /\ step' = "Idle"
  /\ UNCHANGED <<bus, granted, selector, chosen, taken, assured>>

-----------------------------------------------------------------------------
(* NusbTransport::open and device_info *)

\* The first of the list that matches.
Select(s) ==
  /\ step = "Idle"
  /\ Found(s) # 0
  /\ selector' = s
  /\ chosen' = {bus[Found(s)]}
  /\ step' = "OpenUsb"
  /\ UNCHANGED <<bus, granted, taken, assured>>

\* No device: DeviceNotFound.
SelectFails(s) ==
  /\ step = "Idle"
  /\ Found(s) = 0
  /\ selector' = s
  /\ step' = "NotFound"
  /\ UNCHANGED <<bus, granted, chosen, taken, assured>>

\* A step that needs the device succeeds; it is the same device, and still there.
Advance(from, to) ==
  /\ step = from
  /\ step' = to
  /\ UNCHANGED <<bus, granted, selector, chosen, taken, assured>>

\* A backend that cannot select a configuration is no failure.
Opened == Advance("OpenUsb", "Configuration") \/ Advance("Configuration", "Claim")

ClaimInterface ==
  /\ chosen \cap taken = {}
  /\ Advance("Claim", "BoardId")

BoardRead == Advance("BoardId", "Firmware")

\* Any firmware will do.
FirmwareRead_Any == Advance("Firmware", "Open")

\* A firmware that does not begin with the expected prefix is no radio.
FirmwareRead ==
  /\ \A d \in chosen : Firmware[d] = "HydraSDR"
  /\ Advance("Firmware", "Open")

\* Any step may fail, and does when the device is gone; an open device may be
\* closed.  What was claimed is released.
End ==
  /\ step \notin {"Idle", "Prompt"}
  /\ step' = "Idle"
  /\ chosen' = {}
  /\ UNCHANGED <<bus, granted, selector, taken, assured>>

Next ==
  \/ \E d \in Device : Plug(d) \/ Unplug(d) \/ OtherClaims(d) \/ OtherReleases(d) \/ Pick(d)
  \/ \E s \in Selectors : PermissionKnown(s) \/ Prompt(s) \/ Select(s) \/ SelectFails(s)
  \/ Dismiss \/ Opened \/ ClaimInterface \/ BoardRead \/ FirmwareRead \/ End

Spec == Init /\ [][Next]_vars

-----------------------------------------------------------------------------
(* Properties *)

\* An open device is plugged in, one that was asked for, a radio whose firmware
\* is known, and nobody else's, however the bus changed since it was listed.
OpenIsWanted ==
  step = "Open" =>
    \A d \in chosen : /\ d \in ToSet(bus) \ taken
                      /\ MatchesDevice(d, selector)
                      /\ Firmware[d] = "HydraSDR"

\* A permission granted suffices (device.rs:84): until a device that matches is
\* unplugged, selecting does not fail for want of a visible device.
PermissionSuffices == step = "NotFound" => selector \notin assured

=============================================================================
