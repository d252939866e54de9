--------------------------- MODULE DiscoveryProofs ---------------------------
(***************************************************************************)
(* What is opened is what was asked for, and a permission suffices, proved *)
(* for any devices behind any IDs and labels, any number of sockets and    *)
(* any selectors, under WebUSB and elsewhere.                              *)
(***************************************************************************)
EXTENDS Discovery, Integers, TLAPS, SequenceTheorems, WellFoundedInduction

\* The steps in which an attempt to open works on a device that is there, and
\* those in which it has claimed that device.
Holding == {"OpenUsb", "Configuration", "Claim", "BoardId", "Firmware", "Open"}
Claimed == {"BoardId", "Firmware", "Open"}

OpenInv ==
  /\ step \in Holding =>
       \A d \in chosen : d \in ToSet(bus) /\ MatchesDevice(d, selector)
  /\ step \in Claimed => chosen \cap taken = {}
  /\ step = "Open" => \A d \in chosen : Firmware[d] = "HydraSDR"

\* While a permission counts there is a device that it is good for.
PermissionInv ==
  /\ \A s \in assured : \E d \in ToSet(bus) : Visible(d) /\ MatchesDevice(d, s)
  /\ step = "NotFound" => selector \notin assured

DiscoveryInv == bus \in Seq(Device) /\ OpenInv /\ PermissionInv

-----------------------------------------------------------------------------
(* The list of devices *)

LEMMA LeastNatural ==
  ASSUME NEW T, T \subseteq Nat, T # {}
  PROVE  \E n \in T : \A m \in T : n <= m
<1>1. PICK n \in T : \A m \in T : <<m, n>> \notin OpToRel(<, Nat)
  BY NatLessThanWellFounded, WFMin, Zenon
<1>2. \A m \in T : ~(m < n)
  BY <1>1 DEF OpToRel
<1> QED BY <1>2

\* select_nusb_device finds a device exactly if one is visible and matches, and
\* then one of those.
LEMMA FoundMatches ==
  ASSUME bus \in Seq(Device), NEW s
  PROVE  /\ Found(s) = 0 <=> \A d \in ToSet(bus) : ~(Visible(d) /\ MatchesDevice(d, s))
         /\ Found(s) # 0 => /\ bus[Found(s)] \in ToSet(bus)
                            /\ MatchesDevice(bus[Found(s)], s)
<1> DEFINE I == {i \in 1 .. Len(bus) : Visible(bus[i]) /\ MatchesDevice(bus[i], s)}
<1>1. DOMAIN bus = 1 .. Len(bus) /\ Len(bus) \in Nat
  BY LenProperties
<1>2. Found(s) = IF I # {} THEN Min(I) ELSE 0
  BY DEF Found, SelectInSeq
<1>3. I \subseteq Nat \ {0}
  BY <1>1
<1>4. I # {} => Min(I) \in I
  BY <1>3, LeastNatural DEF Min
<1>5. I = {} <=> \A d \in ToSet(bus) : ~(Visible(d) /\ MatchesDevice(d, s))
  BY <1>1 DEF ToSet
<1>6. \A i \in I : i # 0 /\ bus[i] \in ToSet(bus) /\ MatchesDevice(bus[i], s)
  BY <1>1, <1>3 DEF ToSet
<1> HIDE DEF I
<1> QED BY <1>2, <1>4, <1>5, <1>6

\* What is in either of two lists is in both together.
LEMMA JoinedLists ==
  ASSUME NEW l \in Seq(Device), NEW r \in Seq(Device)
  PROVE  l \o r \in Seq(Device) /\ ToSet(l) \subseteq ToSet(l \o r)
                                /\ ToSet(r) \subseteq ToSet(l \o r)
<1>1. /\ l \o r \in Seq(Device) /\ Len(l \o r) = Len(l) + Len(r)
      /\ \A k \in 1 .. Len(l) + Len(r) :
           (l \o r)[k] = IF k <= Len(l) THEN l[k] ELSE r[k - Len(l)]
  BY ConcatProperties
<1>2. /\ Len(l) \in Nat /\ DOMAIN l = 1 .. Len(l)
      /\ Len(r) \in Nat /\ DOMAIN r = 1 .. Len(r)
      /\ DOMAIN (l \o r) = 1 .. Len(l) + Len(r)
  BY <1>1, LenProperties
<1> DEFINE both == l \o r
<1> HIDE DEF both
<1>3. ASSUME NEW k \in DOMAIN l PROVE l[k] \in ToSet(both)
  <2>1. k \in DOMAIN both /\ both[k] = l[k]
    BY <1>1, <1>2 DEF both
  <2> QED BY <2>1 DEF ToSet
<1>4. ASSUME NEW k \in DOMAIN r PROVE r[k] \in ToSet(both)
  <2>1. /\ Len(l) + k \in 1 .. Len(l) + Len(r) /\ ~(Len(l) + k <= Len(l))
        /\ Len(l) + k - Len(l) = k
    BY <1>2
  <2>2. Len(l) + k \in DOMAIN both /\ both[Len(l) + k] = r[k]
    BY <1>1, <1>2, <2>1 DEF both
  <2> QED BY <2>2 DEF ToSet
<1> QED BY <1>1, <1>3, <1>4 DEF ToSet, both

\* What is listed before i or from j on is in the two parts of the list.
LEMMA SplitList ==
  ASSUME bus \in Seq(Device), NEW i \in 1 .. Len(bus) + 1, NEW j \in 1 .. Len(bus) + 1
  PROVE  LET left  == SubSeq(bus, 1, i - 1)
             right == SubSeq(bus, j, Len(bus))
         IN  /\ left \in Seq(Device) /\ right \in Seq(Device)
             /\ \A k \in DOMAIN bus : /\ k < i => bus[k] \in ToSet(left)
                                      /\ k >= j => bus[k] \in ToSet(right)
<1> DEFINE left == SubSeq(bus, 1, i - 1)
           right == SubSeq(bus, j, Len(bus))
<1>1. Len(bus) \in Nat /\ DOMAIN bus = 1 .. Len(bus)
  BY LenProperties
<1>2. /\ left \in Seq(Device) /\ Len(left) = i - 1
      /\ \A k \in 1 .. i - 1 : left[k] = bus[k]
  BY <1>1, SubSeqProperties
<1>3. /\ right \in Seq(Device) /\ Len(right) = Len(bus) - j + 1
      /\ \A k \in 1 .. Len(bus) - j + 1 : right[k] = bus[j + k - 1]
  BY <1>1, SubSeqProperties
<1>4. DOMAIN left = 1 .. i - 1 /\ DOMAIN right = 1 .. Len(bus) - j + 1
  BY <1>2, <1>3, LenProperties
<1> HIDE DEF left, right
<1>5. ASSUME NEW k \in DOMAIN bus, k < i PROVE bus[k] \in ToSet(left)
  <2>1. k \in DOMAIN left /\ left[k] = bus[k]
    BY <1>1, <1>2, <1>4, <1>5
  <2> QED BY <2>1 DEF ToSet
<1>6. ASSUME NEW k \in DOMAIN bus, k >= j PROVE bus[k] \in ToSet(right)
  <2>1. k - j + 1 \in 1 .. Len(bus) - j + 1 /\ j + (k - j + 1) - 1 = k
    BY <1>1, <1>6
  <2>2. k - j + 1 \in DOMAIN right /\ right[k - j + 1] = bus[k]
    BY <1>3, <1>4, <2>1
  <2> QED BY <2>2 DEF ToSet
<1> QED BY <1>2, <1>3, <1>5, <1>6 DEF left, right

\* A device that is plugged in comes between the others.
LEMMA PlugLists ==
  ASSUME bus \in Seq(Device), NEW d \in Device, Plug(d)
  PROVE  bus' \in Seq(Device) /\ ToSet(bus) \subseteq ToSet(bus')
<1>1. PICK i \in 1 .. (Len(bus) + 1) : bus' = InsertAt(bus, i, d)
  BY DEF Plug
<1>2. Len(bus) \in Nat /\ DOMAIN bus = 1 .. Len(bus)
  BY LenProperties
<1> DEFINE left == SubSeq(bus, 1, i - 1)
           right == SubSeq(bus, i, Len(bus))
<1>3. bus' = (left \o <<d>>) \o right
  BY <1>1 DEF InsertAt
<1>4. /\ left \in Seq(Device) /\ right \in Seq(Device)
      /\ \A k \in DOMAIN bus : /\ k < i => bus[k] \in ToSet(left)
                               /\ k >= i => bus[k] \in ToSet(right)
  BY SplitList
<1> HIDE DEF left, right
<1>5. left \o <<d>> \in Seq(Device) /\ ToSet(left) \subseteq ToSet(left \o <<d>>)
  <2>1. <<d>> \in Seq(Device)
    OBVIOUS
  <2> QED BY <1>4, <2>1, JoinedLists
<1>6. /\ bus' \in Seq(Device) /\ ToSet(left \o <<d>>) \subseteq ToSet(bus')
      /\ ToSet(right) \subseteq ToSet(bus')
  BY <1>3, <1>4, <1>5, JoinedLists
<1>7. \A k \in DOMAIN bus : bus[k] \in ToSet(left) \cup ToSet(right)
  BY <1>2, <1>4
<1> QED BY <1>5, <1>6, <1>7 DEF ToSet

\* A device that is unplugged goes, and the others stay.
LEMMA UnplugLists ==
  ASSUME bus \in Seq(Device), NEW d \in Device, Unplug(d)
  PROVE  bus' \in Seq(Device) /\ ToSet(bus) \ {d} \subseteq ToSet(bus')
<1>1. PICK i \in DOMAIN bus : bus[i] = d /\ bus' = RemoveAt(bus, i)
  BY DEF Unplug
<1>2. Len(bus) \in Nat /\ DOMAIN bus = 1 .. Len(bus)
  BY LenProperties
<1> DEFINE left == SubSeq(bus, 1, i - 1)
           right == SubSeq(bus, i + 1, Len(bus))
<1>3. bus' = left \o right
  BY <1>1 DEF RemoveAt
<1>4. i \in 1 .. Len(bus) + 1 /\ i + 1 \in 1 .. Len(bus) + 1
  BY <1>2
<1>5. /\ left \in Seq(Device) /\ right \in Seq(Device)
      /\ \A k \in DOMAIN bus : /\ k < i => bus[k] \in ToSet(left)
                               /\ k >= i + 1 => bus[k] \in ToSet(right)
  BY <1>4, SplitList
<1> HIDE DEF left, right
<1>6. /\ bus' \in Seq(Device) /\ ToSet(left) \subseteq ToSet(bus')
      /\ ToSet(right) \subseteq ToSet(bus')
  BY <1>3, <1>5, JoinedLists
<1>7. \A k \in DOMAIN bus : k # i => bus[k] \in ToSet(left) \cup ToSet(right)
  BY <1>2, <1>5
<1> QED BY <1>1, <1>6, <1>7 DEF ToSet

-----------------------------------------------------------------------------
(* One step *)

LEMMA InitDiscovery == Init => DiscoveryInv
<1> SUFFICES ASSUME Init PROVE DiscoveryInv
  OBVIOUS
<1>1. bus \in Seq(Device)
  BY EmptySeq DEF Init
<1> QED BY <1>1 DEF Init, DiscoveryInv, OpenInv, PermissionInv, Holding, Claimed

\* The bus and other programs never take away what was opened.
LEMMA WorldStep ==
  ASSUME DiscoveryInv, NEW d \in Device,
         Plug(d) \/ Unplug(d) \/ OtherClaims(d) \/ OtherReleases(d)
  PROVE  DiscoveryInv'
<1>1. CASE Plug(d)
  <2>1. bus' \in Seq(Device) /\ ToSet(bus) \subseteq ToSet(bus')
    BY <1>1, PlugLists DEF DiscoveryInv
  <2>2. UNCHANGED <<granted, step, selector, chosen, taken, assured>>
    BY <1>1 DEF Plug
  <2>3. OpenInv'
    BY <2>1, <2>2 DEF DiscoveryInv, OpenInv
  <2>4. PermissionInv'
    BY <2>1, <2>2 DEF DiscoveryInv, PermissionInv, Visible
  <2> QED BY <2>1, <2>3, <2>4 DEF DiscoveryInv
<1>2. CASE Unplug(d)
  <2>1. bus' \in Seq(Device) /\ ToSet(bus) \ {d} \subseteq ToSet(bus')
    BY <1>2, UnplugLists DEF DiscoveryInv
  <2>2. /\ taken' = taken \ {d} /\ assured' = {s \in assured : ~MatchesDevice(d, s)}
        /\ UNCHANGED <<granted, selector, chosen>>
        /\ IF d \in chosen THEN step' = "Gone" ELSE step' = step
    BY <1>2 DEF Unplug
  <2>3. OpenInv'
    <3>1. CASE d \in chosen
      BY <2>2, <3>1 DEF OpenInv, Holding, Claimed
    <3>2. CASE d \notin chosen
      BY <2>1, <2>2, <3>2 DEF DiscoveryInv, OpenInv
    <3> QED BY <3>1, <3>2
  <2>4. PermissionInv'
    <3>1. \A s \in assured' : \E e \in ToSet(bus') : Visible(e)' /\ MatchesDevice(e, s)
      <4> SUFFICES ASSUME NEW s \in assured'
                   PROVE  \E e \in ToSet(bus') : Visible(e)' /\ MatchesDevice(e, s)
        OBVIOUS
      <4>1. s \in assured /\ ~MatchesDevice(d, s)
        BY <2>2
      <4>2. PICK e \in ToSet(bus) : Visible(e) /\ MatchesDevice(e, s)
        BY <4>1 DEF DiscoveryInv, PermissionInv
      <4>3. e \in ToSet(bus') /\ Visible(e)'
        BY <2>1, <2>2, <4>1, <4>2 DEF Visible
      <4> QED BY <4>2, <4>3
    <3>2. step' = "NotFound" => selector' \notin assured'
      BY <2>2 DEF DiscoveryInv, PermissionInv
    <3> QED BY <3>1, <3>2 DEF PermissionInv
  <2> QED BY <2>1, <2>3, <2>4 DEF DiscoveryInv
<1>3. CASE OtherClaims(d) \/ OtherReleases(d)
  <2>1. UNCHANGED <<bus, granted, step, selector, chosen, assured>>
    BY <1>3 DEF OtherClaims, OtherReleases
  <2>2. step \in Claimed => chosen \cap taken' = {}
    BY <1>3 DEF OtherClaims, OtherReleases, Claimed, DiscoveryInv, OpenInv
  <2>3. OpenInv'
    BY <2>1, <2>2 DEF DiscoveryInv, OpenInv
  <2>4. PermissionInv'
    BY <2>1 DEF DiscoveryInv, PermissionInv, Visible
  <2> QED BY <2>1, <2>3, <2>4 DEF DiscoveryInv
<1> QED BY <1>1, <1>2, <1>3

\* A permission counts when a device that matches can be seen.
LEMMA PermissionStep ==
  ASSUME DiscoveryInv,
         \/ \E s \in Selectors : PermissionKnown(s) \/ Prompt(s)
         \/ \E d \in Device : Pick(d)
         \/ Dismiss
  PROVE  DiscoveryInv'
<1>1. bus' = bus /\ chosen' = chosen /\ taken' = taken /\ step' \in {"Idle", "Prompt"}
  BY DEF PermissionKnown, Prompt, Pick, Dismiss
<1>2. OpenInv'
  BY <1>1 DEF OpenInv, Holding, Claimed
<1>3. ASSUME NEW s \in assured'
      PROVE  \E e \in ToSet(bus) : Visible(e)' /\ MatchesDevice(e, s)
  <2>1. CASE s \in assured
    <3>1. granted \subseteq granted'
      BY DEF PermissionKnown, Prompt, Pick, Dismiss
    <3> QED BY <2>1, <3>1 DEF DiscoveryInv, PermissionInv, Visible
  <2>2. CASE s \notin assured
    <3>1. \/ PermissionKnown(s) \/ \E d \in Device : Pick(d) /\ MatchesDevice(d, s)
      BY <1>3, <2>2 DEF PermissionKnown, Prompt, Pick, Dismiss, Assure
    <3>2. CASE PermissionKnown(s)
      BY <3>2, FoundMatches DEF PermissionKnown, DiscoveryInv, Visible
    <3>3. CASE \E d \in Device : Pick(d) /\ MatchesDevice(d, s)
      BY <3>3 DEF Pick, Visible
    <3> QED BY <3>1, <3>2, <3>3
  <2> QED BY <2>1, <2>2
<1>4. PermissionInv'
  BY <1>1, <1>3 DEF PermissionInv
<1> QED BY <1>1, <1>2, <1>4 DEF DiscoveryInv

\* Opening goes from check to check with the device that was selected.
LEMMA OpenStep ==
  ASSUME DiscoveryInv,
         \/ \E s \in Selectors : Select(s) \/ SelectFails(s)
         \/ Opened \/ ClaimInterface \/ BoardRead \/ FirmwareRead \/ End
  PROVE  DiscoveryInv'
<1>1. UNCHANGED <<bus, granted, taken, assured>>
  BY DEF Select, SelectFails, Opened, ClaimInterface, BoardRead, FirmwareRead, End, Advance
<1>2. CASE \E s \in Selectors : Select(s)
  <2>1. PICK s \in Selectors : Select(s)
    BY <1>2
  <2>2. /\ Found(s) # 0 /\ selector' = s /\ chosen' = {bus[Found(s)]} /\ step' = "OpenUsb"
    BY <2>1 DEF Select
  <2>3. bus[Found(s)] \in ToSet(bus) /\ MatchesDevice(bus[Found(s)], s)
    BY <2>2, FoundMatches DEF DiscoveryInv
  <2>4. OpenInv'
    BY <1>1, <2>2, <2>3 DEF OpenInv, Claimed
  <2>5. PermissionInv'
    BY <1>1, <2>2 DEF DiscoveryInv, PermissionInv, Visible
  <2> QED BY <1>1, <2>4, <2>5 DEF DiscoveryInv
<1>3. CASE \E s \in Selectors : SelectFails(s)
  <2>1. PICK s \in Selectors : SelectFails(s)
    BY <1>3
  <2>2. Found(s) = 0 /\ selector' = s /\ step' = "NotFound"
    BY <2>1 DEF SelectFails
  <2>3. s \notin assured
    BY <2>2, FoundMatches DEF DiscoveryInv, PermissionInv
  <2>4. PermissionInv'
    BY <1>1, <2>2, <2>3 DEF DiscoveryInv, PermissionInv, Visible
  <2>5. OpenInv'
    BY <2>2 DEF OpenInv, Holding, Claimed
  <2> QED BY <1>1, <2>4, <2>5 DEF DiscoveryInv
<1>4. CASE Opened \/ ClaimInterface \/ BoardRead \/ FirmwareRead
  <2>1. UNCHANGED <<selector, chosen>> /\ step \in Holding /\ step' \in Holding
    BY <1>4 DEF Opened, ClaimInterface, BoardRead, FirmwareRead, Advance, Holding
  <2>2. /\ step' \in Claimed => step \in Claimed \/ chosen \cap taken = {}
        /\ step' = "Open" => \A d \in chosen : Firmware[d] = "HydraSDR"
    BY <1>4 DEF Opened, ClaimInterface, BoardRead, FirmwareRead, Advance, Claimed
  <2>3. OpenInv'
    BY <1>1, <2>1, <2>2 DEF DiscoveryInv, OpenInv
  <2>4. PermissionInv'
    BY <1>1, <2>1 DEF DiscoveryInv, PermissionInv, Visible, Holding
  <2> QED BY <1>1, <2>3, <2>4 DEF DiscoveryInv
<1>5. CASE End
  <2>1. step' = "Idle"
    BY <1>5 DEF End
  <2> QED BY <1>1, <2>1
          DEF DiscoveryInv, OpenInv, PermissionInv, Visible, Holding, Claimed
<1> QED BY <1>2, <1>3, <1>4, <1>5

LEMMA DiscoveryInvariance == Spec => []DiscoveryInv
<1>1. DiscoveryInv /\ [Next]_vars => DiscoveryInv'
  <2> SUFFICES ASSUME DiscoveryInv, [Next]_vars PROVE DiscoveryInv'
    OBVIOUS
  <2>1. CASE UNCHANGED vars
    BY <2>1 DEF vars, DiscoveryInv, OpenInv, PermissionInv, Visible
  <2> QED BY <2>1, WorldStep, PermissionStep, OpenStep DEF Next
<1> QED BY InitDiscovery, <1>1, PTL DEF Spec

\* However the bus changes and whoever else claims devices, a device that is open
\* is plugged in, was asked for, runs the radio's firmware and is nobody else's.
THEOREM OpenedIsWanted == Spec => []OpenIsWanted
<1>1. DiscoveryInv => OpenIsWanted
  BY DEF DiscoveryInv, OpenInv, OpenIsWanted, Holding, Claimed
<1> QED BY DiscoveryInvariance, <1>1, PTL

\* No selection fails for want of a device while a permission for one counts,
\* although the browser offers devices by other rules than the driver matches them.
THEOREM PermissionIsEnough == Spec => []PermissionSuffices
<1>1. DiscoveryInv => PermissionSuffices
  BY DEF DiscoveryInv, PermissionInv, PermissionSuffices
<1> QED BY DiscoveryInvariance, <1>1, PTL
=============================================================================
