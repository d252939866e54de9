-------------------------- MODULE IqProcessorProofs --------------------------
(***************************************************************************)
(* Theorems about IqProcessor, for any decimations, any block length that  *)
(* is a whole number of groups of each of them, and reads of any length:   *)
(* types, whole groups, no gap for the filters, and reads that deliver     *)
(* every sample once and in order.                                         *)
(***************************************************************************)
EXTENDS IqProcessor, SequenceTheorems, TLAPS

(***************************************************************************)
(* Groups                                                                  *)
(***************************************************************************)

\* Division with and without a rest.
LEMMA DivExact ==
  ASSUME NEW x \in Nat \ {0}, NEW n \in Nat
  PROVE  (x * n) \div x = n
OBVIOUS

LEMMA NoRest ==
  ASSUME NEW x \in Nat \ {0}, NEW n \in Nat, n % x = 0
  PROVE  \E k \in Nat : n = x * k
<1>1. n = x * (n \div x) + (n % x)
  OBVIOUS
<1>2. n \div x \in Nat
  OBVIOUS
<1> QED  BY <1>1, <1>2

\* Multiples of a group are ordered as their factors.
LEMMA Multiples ==
  ASSUME NEW x \in Nat \ {0}, NEW i \in Nat, NEW j \in Nat
  PROVE  /\ x * i \in Nat
         /\ x * (i + j) = x * i + x * j
         /\ i < j => x * i < x * j
         /\ i <= j => x * i <= x * j /\ x * j - x * i = x * (j - i)
OBVIOUS

(***************************************************************************)
(* The inductive invariant                                                 *)
(***************************************************************************)

\* The samples of the capture that one conversion group takes.
Group(d) == 4 * d

\* Where the next sample is converted from.
Here == IF block = None THEN tick ELSE block + offset

\* The block is the latest one, and whole groups of it were converted.
BlockInv ==
  /\ tick \in 1 .. Horizon + 1
  /\ block \in Nat
  /\ block # None => block + BlockLen = tick
  /\ block = None => offset = 0
  /\ \E g \in Nat : offset = Group(decimation) * g
  /\ offset < BlockLen

\* What is due is what is carried, or else the next to be converted; and the
\* filters heard everything before it.
StreamInv ==
  /\ pending \in Nat /\ due \in Nat /\ heard \in Nat
  /\ pending # None => due = pending /\ pending + 2 * decimation = Here
  /\ pending = None /\ due # None => due = Here
  /\ heard # None => heard = Here

IqInv ==
  /\ wanted \in Decimations /\ decimation \in Decimations
  /\ running \in BOOLEAN
  /\ want \in 0 .. MaxOut
  /\ BlockInv
  /\ StreamInv
  /\ incomplete = FALSE
  /\ got \in Seq(Position) /\ Len(got) <= MaxOut
  /\ want # 0 => got = <<>>

\* A block is a whole number of groups of any decimation.
LEMMA BlockGroups ==
  ASSUME NEW d \in Decimations
  PROVE  /\ d \in Nat \ {0} /\ Group(d) \in Nat \ {0} /\ BlockLen \in Nat \ {0}
         /\ \E b \in Nat : BlockLen = Group(d) * b
<1>1. d \in Nat \ {0} /\ BlockLen \in Nat \ {0} /\ BlockLen % (4 * d) = 0
  BY DecimationAssumption, BlockLenAssumption
<1>2. 4 * d \in Nat \ {0}
  BY <1>1
<1> QED  BY <1>1, <1>2, NoRest DEF Group

\* The read in Process: what is left of the output, what is converted for it,
\* and what is then used of the block.
Room  == want - Len(Carried)
Count == Pairs(Room)
Used  == offset + Count * 2 * decimation

LEMMA CarriedLength ==
  ASSUME IqInv
  PROVE  /\ Carried \in Seq(Nat)
         /\ pending = None => Carried = <<>> /\ Len(Carried) = 0
         /\ pending # None => Carried = <<pending>> /\ Len(Carried) = 1 /\ Carried[1] = pending
<1>1. pending \in Nat
  BY DEF IqInv, StreamInv
<1> QED  BY <1>1 DEF Carried

\* A conversion takes whole groups, no more than the block has; if it makes
\* fewer samples than asked for, the block is used up.
LEMMA ConversionFits ==
  ASSUME IqInv, want # 0
  PROVE  /\ Room \in Nat /\ Room <= want
         /\ Count \in Nat /\ Count <= Room + 1
         /\ Count * 2 * decimation \in Nat
         /\ \E g \in Nat : Used = Group(decimation) * g
         /\ Used \in Nat /\ Used <= BlockLen
         /\ block = None => Count = 0 /\ Used = 0
         /\ Room = 0 => Count = 0
         /\ block # None /\ Room # 0 => Count # 0
         /\ block # None /\ Count < Room => Used = BlockLen
<1>1. want \in Nat /\ want >= 1 /\ decimation \in Decimations /\ block \in Nat
      /\ (block = None => offset = 0) /\ offset < BlockLen
  BY BoundAssumption DEF IqInv, BlockInv
<1>2. Room \in Nat /\ Room <= want
  BY <1>1, CarriedLength DEF Room
<1> DEFINE x == Group(decimation)
<1>3. decimation \in Nat \ {0} /\ x \in Nat \ {0} /\ BlockLen \in Nat \ {0}
  BY <1>1, BlockGroups
<1>4. PICK b \in Nat : BlockLen = x * b
  BY <1>1, BlockGroups
<1>5. PICK g \in Nat : offset = x * g
  BY DEF IqInv, BlockInv
<1>6. x = 4 * decimation
  BY DEF Group
<1> HIDE DEF x
<1>7. g < b
  <2>1. b <= g => x * b <= x * g
    BY <1>3, <1>4, <1>5, Multiples
  <2>2. x * b \in Nat /\ x * g \in Nat
    BY <1>3, <1>4, <1>5, Multiples
  <2> QED  BY <1>1, <1>4, <1>5, <2>1, <2>2
<1>8. Available = 2 * (b - g)
  <2>1. BlockLen - offset = x * (b - g)
    BY <1>3, <1>4, <1>5, <1>7, Multiples
  <2>2. b - g \in Nat
    BY <1>7
  <2>3. (x * (b - g)) \div x = b - g
    BY <1>3, <2>2, DivExact
  <2> QED  BY <1>6, <2>1, <2>3 DEF Available
<1>9. \A n \in Nat : (2 * n) * 2 * decimation = x * n
  BY <1>3, <1>6
<1>10. \A n \in Nat : offset + x * n = x * (g + n)
  BY <1>3, <1>5, Multiples
<1>11. CASE block = None \/ Room = 0
  <2>1. Count = 0
    BY <1>11 DEF Count, Pairs
  <2>2. Count * 2 * decimation = 0
    BY <1>3, <2>1
  <2>3. Used = offset
    BY <1>3, <1>5, <2>2, Multiples DEF Used
  <2>4. x * g \in Nat
    BY <1>3, Multiples
  <2> QED  BY <1>1, <1>2, <1>3, <1>5, <1>11, <2>1, <2>2, <2>3, <2>4 DEF x
<1>12. CASE block # None /\ Room # 0
  <2>1. PICK n \in Nat : /\ Count = 2 * n /\ n # 0 /\ n <= b - g /\ 2 * n <= Room + 1
                         /\ (2 * n < Room => n = b - g)
    <3>1. Requested(Room) = 2 * ((Room + 1) \div 2)
      BY DEF Requested
    <3>2. CASE Available < Requested(Room)
      <4>1. Count = 2 * (b - g)
        BY <1>8, <1>12, <3>2 DEF Count, Pairs
      <4> QED  BY <1>2, <1>7, <1>8, <3>1, <3>2, <4>1
    <3>3. CASE ~(Available < Requested(Room))
      <4>1. Count = 2 * ((Room + 1) \div 2)
        BY <1>12, <3>1, <3>3 DEF Count, Pairs
      <4> DEFINE n == (Room + 1) \div 2
      <4>2. n \in Nat /\ n # 0 /\ 2 * n <= Room + 1 /\ ~(2 * n < Room)
        BY <1>2, <1>12
      <4>3. n <= b - g
        BY <1>7, <1>8, <3>1, <3>3, <4>2
      <4> HIDE DEF n
      <4> QED  BY <4>1, <4>2, <4>3 DEF n
    <3> QED  BY <3>2, <3>3
  <2>2. Count * 2 * decimation = x * n
    BY <1>9, <2>1
  <2>3. Used = x * (g + n)
    BY <1>10, <2>2 DEF Used
  <2>4. g + n \in Nat /\ g + n <= b /\ (2 * n < Room => g + n = b)
    BY <1>7, <2>1
  <2>5. x * (g + n) \in Nat /\ x * (g + n) <= x * b
    BY <1>3, <2>4, Multiples
  <2>6. x * n \in Nat
    BY <1>3, Multiples
  <2> QED  BY <1>2, <1>4, <1>12, <2>1, <2>2, <2>3, <2>4, <2>5, <2>6 DEF x
<1> QED  BY <1>1, <1>2, <1>11, <1>12

(***************************************************************************)
(* The output of a read                                                    *)
(***************************************************************************)

Taken == IF Count < Room THEN Count ELSE Room
Out   == Carried \o Converted(Taken)

\* The samples of a conversion are consecutive and lie in the block.
LEMMA ConvertedSamples ==
  ASSUME IqInv, want # 0, block # None, NEW n \in 0 .. Count
  PROVE  /\ Converted(n) \in Seq(Position) /\ Len(Converted(n)) = n
         /\ \A k \in 1 .. n : /\ Converted(n)[k] \in Nat
                              /\ Converted(n)[k] = block + offset + 2 * decimation * (k - 1)
         /\ n # 0 => Converted(n)[1] = Here
         /\ \A k \in 1 .. n - 1 : Converted(n)[k + 1] = Converted(n)[k] + 2 * decimation
         /\ n # 0 => Converted(n)[n] + 2 * decimation = block + offset + n * 2 * decimation
<1> DEFINE x == 2 * decimation
<1>1. /\ block \in Nat /\ offset \in Nat /\ tick \in 1 .. Horizon + 1 /\ Horizon \in Nat
      /\ block + BlockLen = tick /\ BlockLen \in Nat /\ decimation \in Decimations
  <2>1. \A g \in Nat : Group(decimation) * g \in Nat
    BY BlockGroups, Multiples DEF IqInv
  <2> QED  BY <2>1, BoundAssumption, BlockLenAssumption DEF IqInv, BlockInv
<1>2. x \in Nat \ {0}
  BY <1>1, BlockGroups
<1>3. Count \in Nat /\ Count * 2 * decimation = x * Count /\ offset + x * Count <= BlockLen
  <2>1. Count \in Nat /\ Used <= BlockLen
    BY ConversionFits
  <2>2. Count * 2 * decimation = x * Count
    BY <1>1, <2>1, BlockGroups
  <2> QED  BY <2>1, <2>2 DEF Used
<1>4. n \in Nat /\ n <= Count
  BY <1>3
<1>5. n * 2 * decimation = x * n
  BY <1>1, <1>4, BlockGroups
<1> HIDE DEF x
<1>6. \A k \in 1 .. n : /\ block + offset + x * (k - 1) \in Nat
                        /\ block + offset + x * (k - 1) <= Horizon + 1
                        /\ x * (k - 1) + x = x * k
  <2> SUFFICES ASSUME NEW k \in 1 .. n
               PROVE  /\ block + offset + x * (k - 1) \in Nat
                      /\ block + offset + x * (k - 1) <= Horizon + 1
                      /\ x * (k - 1) + x = x * k
    OBVIOUS
  <2>1. k - 1 \in Nat /\ k - 1 <= Count
    BY <1>3, <1>4
  <2>2. x * (k - 1) \in Nat /\ x * (k - 1) <= x * Count /\ x * Count \in Nat
    BY <1>2, <1>3, <2>1, Multiples
  <2>3. x * (k - 1) + x = x * k
    BY <1>2, <1>4
  <2> QED  BY <1>1, <1>3, <2>2, <2>3
<1>7. Converted(n) = [k \in 1 .. n |-> block + offset + x * (k - 1)]
  BY DEF Converted, x
<1>8. \A k \in 1 .. n : block + offset + x * (k - 1) \in Position
  BY <1>1, <1>6 DEF Position
<1>9. Converted(n) \in Seq(Position) /\ Len(Converted(n)) = n
  <2>1. Converted(n) \in [1 .. n -> Position]
    BY <1>7, <1>8
  <2> QED  BY <1>4, <2>1
<1>10. \A k \in 1 .. n : Converted(n)[k] = block + offset + x * (k - 1)
  BY <1>7
<1>11. n # 0 => Converted(n)[1] = Here
  <2>1. x * 0 = 0
    BY <1>2
  <2>2. n # 0 => 1 \in 1 .. n /\ 1 - 1 = 0
    BY <1>4
  <2> QED  BY <1>1, <1>10, <2>1, <2>2 DEF Here
<1>12. \A k \in 1 .. n - 1 : Converted(n)[k + 1] = Converted(n)[k] + x
  <2> SUFFICES ASSUME NEW k \in 1 .. n - 1
               PROVE  Converted(n)[k + 1] = Converted(n)[k] + x
    OBVIOUS
  <2>1. k \in 1 .. n /\ k + 1 \in 1 .. n /\ (k + 1) - 1 = k
    BY <1>4
  <2>2. x * (k - 1) + x = x * k /\ x * (k - 1) \in Nat
    BY <1>2, <1>6, <2>1, Multiples
  <2> QED  BY <1>1, <1>2, <1>10, <2>1, <2>2
<1>13. n # 0 => Converted(n)[n] + x = block + offset + x * n
  <2> SUFFICES ASSUME n # 0 PROVE Converted(n)[n] + x = block + offset + x * n
    OBVIOUS
  <2>1. n \in 1 .. n /\ x * (n - 1) + x = x * n /\ n - 1 \in Nat
    BY <1>4, <1>6
  <2>2. x * (n - 1) \in Nat
    BY <1>2, <2>1, Multiples
  <2> QED  BY <1>1, <1>2, <1>10, <2>1, <2>2
<1> QED  BY <1>5, <1>6, <1>9, <1>10, <1>11, <1>12, <1>13 DEF x

\* A read's output goes on with what was due, has no gap, and ends where the
\* next begins.
LEMMA OutputContinues ==
  ASSUME IqInv, want # 0, ~Waits
  PROVE  /\ Out \in Seq(Position) /\ Len(Out) \in 1 .. want
         /\ Len(Out) = Len(Carried) + Taken
         /\ due # None => Out[1] = due
         /\ \A k \in 1 .. Len(Out) - 1 : Out[k + 1] = Out[k] + 2 * decimation
         /\ Out[Len(Out)] + 2 * decimation
              = IF block = None THEN tick ELSE block + offset + Taken * 2 * decimation
         /\ Out[Len(Out)] + 2 * decimation \in Nat
<1>1. /\ Room \in Nat /\ Count \in Nat /\ Taken \in 0 .. Count /\ Taken <= Room
      /\ (block = None => Count = 0)
      /\ (block # None /\ Room # 0 => Taken # 0)
  BY ConversionFits DEF Taken
<1>2. /\ Carried \in Seq(Nat)
      /\ (pending = None => Carried = <<>> /\ Len(Carried) = 0)
      /\ (pending # None => Carried = <<pending>> /\ Len(Carried) = 1 /\ Carried[1] = pending)
  BY CarriedLength
<1>3. want \in Nat /\ want >= 1 /\ Room = want - Len(Carried)
  BY BoundAssumption DEF IqInv, Room
<1>4. /\ decimation \in Nat \ {0} /\ block \in Nat /\ offset \in Nat
      /\ tick \in 1 .. Horizon + 1 /\ Horizon \in Nat
      /\ (block = None => offset = 0) /\ (block # None => block + BlockLen = tick)
      /\ BlockLen \in Nat /\ offset < BlockLen
      /\ pending \in Nat /\ due \in Nat
  <2>1. \A g \in Nat : Group(decimation) * g \in Nat
    BY BlockGroups, Multiples DEF IqInv
  <2> QED  BY <2>1, BlockGroups, BoundAssumption, BlockLenAssumption DEF IqInv, BlockInv, StreamInv
<1>5. /\ (pending # None => due = pending /\ pending + 2 * decimation = Here)
      /\ (pending = None /\ due # None => due = Here)
  BY DEF IqInv, StreamInv
<1>6. Here \in 1 .. Horizon + 1
  BY <1>4 DEF Here, None
<1> DEFINE t == Converted(Taken)
           d == 2 * decimation
<1>7. CASE block = None
  <2>1. Taken = 0 /\ pending # None
    BY <1>1, <1>3, <1>7 DEF Waits
  <2>2. t = <<>>
    BY <2>1 DEF Converted
  <2>3. Out = <<pending>> /\ Len(Out) = 1 /\ Out[1] = pending
    <3>1. <<pending>> \o <<>> = <<pending>>
      BY <1>4, ConcatEmptySeq
    <3> QED  BY <1>2, <2>1, <2>2, <3>1 DEF Out
  <2>4. pending \in Position /\ pending + d = tick
    BY <1>4, <1>5, <1>6, <1>7, <2>1 DEF Position, Here
  <2>5. Out \in Seq(Position)
    BY <2>3, <2>4
  <2> QED  BY <1>2, <1>3, <1>4, <1>5, <1>7, <2>1, <2>3, <2>4, <2>5
<1>8. CASE block # None /\ pending = None
  <2>1. /\ t \in Seq(Position) /\ Len(t) = Taken
        /\ (Taken # 0 => t[1] = Here)
        /\ \A k \in 1 .. Taken - 1 : t[k + 1] = t[k] + d
        /\ (Taken # 0 => t[Taken] + d = block + offset + Taken * 2 * decimation)
        /\ \A k \in 1 .. Taken : t[k] \in Nat
    BY <1>1, <1>8, ConvertedSamples
  <2>2. Out = t
    <3>1. <<>> \o t = t
      BY <2>1, ConcatEmptySeq
    <3> QED  BY <1>2, <1>8, <3>1 DEF Out
  <2>3. Taken # 0 /\ Taken <= want /\ Taken \in Nat
    BY <1>1, <1>2, <1>3, <1>8
  <2>4. Taken \in 1 .. Taken /\ d \in Nat
    BY <1>4, <2>3
  <2> HIDE DEF t
  <2> QED  BY <1>2, <1>5, <1>8, <2>1, <2>2, <2>3, <2>4
<1>9. CASE block # None /\ pending # None
  <2>1. /\ t \in Seq(Position) /\ Len(t) = Taken
        /\ (Taken # 0 => t[1] = Here)
        /\ \A k \in 1 .. Taken - 1 : t[k + 1] = t[k] + d
        /\ (Taken # 0 => t[Taken] + d = block + offset + Taken * 2 * decimation)
        /\ \A k \in 1 .. Taken : t[k] \in Nat
    BY <1>1, <1>9, ConvertedSamples
  <2>2. pending \in Position /\ pending + d = Here
    BY <1>4, <1>5, <1>6, <1>9 DEF Position
  <2>3. <<pending>> \in Seq(Position) /\ Len(<<pending>>) = 1 /\ <<pending>>[1] = pending
    BY <2>2
  <2>4. Out = <<pending>> \o t
    BY <1>2, <1>9 DEF Out
  <2> HIDE DEF t
  <2>5. /\ Out \in Seq(Position) /\ Len(Out) = 1 + Taken
        /\ \A k \in 1 .. 1 + Taken : Out[k] = IF k <= 1 THEN <<pending>>[k] ELSE t[k - 1]
    BY <2>1, <2>3, <2>4, ConcatProperties
  <2>6. Taken \in Nat /\ 1 + Taken <= want
    <3>1. Len(Carried) = 1
      BY <1>2, <1>9
    <3>2. Taken \in Nat /\ Taken <= Room
      BY <1>1
    <3> QED  BY <1>3, <3>1, <3>2
  <2>7. Out[1] = pending /\ \A k \in 1 .. Taken : Out[k + 1] = t[k]
    BY <2>3, <2>5, <2>6
  <2>8. \A k \in 1 .. Len(Out) - 1 : Out[k + 1] = Out[k] + d
    <3> SUFFICES ASSUME NEW k \in 1 .. Taken PROVE Out[k + 1] = Out[k] + d
      BY <2>5, <2>6
    <3>1. CASE k = 1
      BY <2>1, <2>2, <2>6, <2>7, <3>1
    <3>2. CASE k > 1
      <4>1. k - 1 \in 1 .. Taken - 1 /\ (k - 1) + 1 = k
        BY <2>6, <3>2
      <4>2. Out[k] = t[k - 1] /\ Out[k + 1] = t[k]
        BY <2>6, <2>7, <4>1
      <4> QED  BY <2>1, <4>1, <4>2
    <3> QED  BY <3>1, <3>2
  <2>9. Out[Len(Out)] + d = block + offset + Taken * 2 * decimation
    <3>1. CASE Taken = 0
      BY <1>4, <1>9, <2>2, <2>5, <2>7, <3>1 DEF Here
    <3>2. CASE Taken # 0
      <4>1. Taken \in 1 .. Taken /\ Len(Out) = Taken + 1
        BY <2>5, <2>6, <3>2
      <4> QED  BY <2>1, <2>7, <3>2, <4>1
    <3> QED  BY <3>1, <3>2
  <2>10. Out[Len(Out)] \in Nat /\ d \in Nat
    <3>1. Len(Out) \in 1 .. Len(Out)
      BY <2>5, <2>6
    <3> QED  BY <1>4, <2>5, <3>1, ElementOfSeq DEF Position
  <2>11. Len(Out) \in 1 .. want /\ Len(Out) = Len(Carried) + Taken
    <3>1. Len(Carried) = 1
      BY <1>2, <1>9
    <3> QED  BY <1>3, <2>5, <2>6, <3>1
  <2>12. due # None => Out[1] = due
    BY <1>5, <1>9, <2>7
  <2>13. Out[Len(Out)] + d \in Nat
    BY <2>10
  <2> QED  BY <1>9, <2>5, <2>8, <2>9, <2>11, <2>12, <2>13
<1> QED  BY <1>7, <1>8, <1>9

\* A conversion never finds an incomplete group, so a read succeeds.
LEMMA ProcessSucceeds ==
  ASSUME IqInv, Process
  PROVE  /\ want # 0 /\ ~Waits /\ want' = 0
         /\ got' = Out
         /\ due' = Out[Len(Out)] + 2 * decimation
         /\ heard' = IF Count = 0 THEN heard ELSE block + Used
         /\ pending' = IF Count > Room THEN Converted(Count)[Count] ELSE None
         /\ UseUp(Used)
         /\ UNCHANGED <<running, tick, incomplete, wanted, decimation>>
<1>1. want # 0 /\ ~Waits
  BY DEF Process
<1>2. block = None \/ Count >= Room \/ Used = BlockLen
  BY <1>1, ConversionFits
<1> QED  BY <1>1, <1>2 DEF Process, Room, Count, Used, Taken, Out, Carry

(***************************************************************************)
(* Every step keeps the invariant                                          *)
(***************************************************************************)

LEMMA IqInit == Init => IqInv
<1> SUFFICES ASSUME Init PROVE IqInv
  OBVIOUS
<1>1. decimation \in Decimations /\ BlockLen \in Nat \ {0}
  BY BlockLenAssumption DEF Init
<1>2. BlockInv
  <2>1. Group(decimation) * 0 = 0
    BY <1>1, BlockGroups
  <2> QED  BY <1>1, <2>1, BoundAssumption DEF Init, BlockInv, None
<1>3. StreamInv
  BY DEF Init, StreamInv, None
<1>4. got \in Seq(Position) /\ Len(got) <= MaxOut
  <2>1. got = <<>> /\ Len(<<>>) = 0
    BY DEF Init
  <2> QED  BY <2>1, BoundAssumption, EmptySeq
<1>5. want \in 0 .. MaxOut
  BY BoundAssumption DEF Init
<1>6. wanted \in Decimations /\ running \in BOOLEAN /\ incomplete = FALSE
  BY DEF Init
<1> QED  BY <1>1, <1>2, <1>3, <1>4, <1>5, <1>6 DEF Init, IqInv

\* Nothing converted of no block, or of a block from its beginning.
LEMMA FreshBlock ==
  ASSUME IqInv, decimation' \in Decimations, offset' = 0, tick' \in 1 .. Horizon + 1,
         block' \in Nat, block' # None => block' + BlockLen = tick'
  PROVE  BlockInv'
<1>1. Group(decimation') * 0 = 0 /\ BlockLen \in Nat \ {0}
  BY BlockGroups
<1>2. \E g \in Nat : offset' = Group(decimation') * g
  BY <1>1
<1>3. offset' < BlockLen
  BY <1>1
<1> QED  BY <1>2, <1>3 DEF BlockInv

LEMMA ResetStream ==
  ASSUME Reset
  PROVE  StreamInv'
BY DEF Reset, StreamInv, None

LEMMA LoseBlock ==
  ASSUME IqInv, Lose
  PROVE  block' = None /\ tick' \in 1 .. Horizon + 1
<1>1. BlockLen \in Nat \ {0} /\ tick \in 1 .. Horizon + 1 /\ Horizon \in Nat
  BY BlockLenAssumption, BoundAssumption DEF IqInv, BlockInv
<1> QED  BY <1>1 DEF Lose

\* Taking over another decimation begins anew after the block.
LEMMA AdoptKeeps ==
  ASSUME IqInv, AdoptDecimation, wanted' = wanted, tick' = tick
  PROVE  decimation' \in Decimations /\ BlockInv' /\ StreamInv'
<1>1. CASE decimation = wanted
  BY <1>1 DEF AdoptDecimation, IqInv, BlockInv, StreamInv, Here, Group
<1>2. CASE decimation # wanted
  <2>1. decimation' \in Decimations /\ block' = None /\ Reset
    BY <1>2 DEF AdoptDecimation, IqInv
  <2>2. BlockInv'
    BY <2>1, FreshBlock DEF Reset, IqInv, BlockInv, None
  <2> QED  BY <2>1, <2>2, ResetStream
<1> QED  BY <1>1, <1>2

LEMMA ProcessKeeps ==
  ASSUME IqInv, Process
  PROVE  IqInv'
<1>1. /\ want # 0 /\ ~Waits /\ want' = 0
      /\ got' = Out
      /\ due' = Out[Len(Out)] + 2 * decimation
      /\ heard' = (IF Count = 0 THEN heard ELSE block + Used)
      /\ pending' = (IF Count > Room THEN Converted(Count)[Count] ELSE None)
      /\ UseUp(Used)
      /\ UNCHANGED <<running, tick, incomplete, wanted, decimation>>
  BY ProcessSucceeds
<1>2. /\ Room \in Nat /\ Count \in Nat /\ Count <= Room + 1
      /\ Used \in Nat /\ Used <= BlockLen
      /\ \E g \in Nat : Used = Group(decimation) * g
      /\ (block = None => Count = 0 /\ Used = 0)
      /\ Used = offset + Count * 2 * decimation
  BY <1>1, ConversionFits DEF Used
<1>3. /\ decimation \in Nat \ {0} /\ block \in Nat /\ tick \in 1 .. Horizon + 1 /\ Horizon \in Nat
      /\ (block # None => block + BlockLen = tick) /\ BlockLen \in Nat \ {0}
      /\ MaxOut \in Nat /\ want \in 0 .. MaxOut
      /\ pending \in Nat /\ due \in Nat /\ heard \in Nat
      /\ (heard # None => heard = Here)
      /\ (block = None => offset = 0) /\ offset < BlockLen
  BY BlockGroups, BoundAssumption, BlockLenAssumption DEF IqInv, BlockInv, StreamInv
<1>4. /\ Out \in Seq(Position) /\ Len(Out) \in 1 .. want
      /\ Out[Len(Out)] + 2 * decimation
           = (IF block = None THEN tick ELSE block + offset + Taken * 2 * decimation)
      /\ Out[Len(Out)] + 2 * decimation \in Nat
  BY <1>1, OutputContinues
<1>5. offset \in Nat
  <2>1. \A g \in Nat : Group(decimation) * g \in Nat
    BY BlockGroups, Multiples DEF IqInv
  <2> QED  BY <2>1 DEF IqInv, BlockInv
<1>6. BlockInv'
  <2>1. CASE Used = BlockLen
    <3>1. block' = None /\ offset' = 0
      BY <1>1, <2>1 DEF UseUp
    <3> QED  BY <1>1, <1>3, <3>1, FreshBlock DEF IqInv, None
  <2>2. CASE Used # BlockLen
    <3>1. block' = block /\ offset' = Used
      BY <1>1, <2>2 DEF UseUp
    <3>2. decimation' = decimation /\ Group(decimation') = Group(decimation)
      BY <1>1 DEF Group
    <3>3. \E g \in Nat : offset' = Group(decimation') * g
      BY <1>2, <3>1, <3>2
    <3>4. offset' < BlockLen
      BY <1>2, <1>3, <2>2, <3>1
    <3>5. block' = None => offset' = 0
      BY <1>2, <3>1
    <3> QED  BY <1>1, <1>3, <3>1, <3>3, <3>4, <3>5 DEF BlockInv
  <2> QED  BY <2>1, <2>2
<1>7. Here' = IF block = None THEN tick ELSE block + Used
  <2>1. CASE Used = BlockLen
    BY <1>1, <1>2, <1>3, <2>1 DEF UseUp, Here
  <2>2. CASE Used # BlockLen
    BY <1>1, <1>2, <1>3, <2>2 DEF UseUp, Here
  <2> QED  BY <2>1, <2>2
<1>8. Here' \in Nat
  BY <1>2, <1>3, <1>7
<1>9. heard' \in Nat /\ (heard' # None => heard' = Here')
  <2>1. CASE Count = 0
    <3>1. Used = offset
      BY <1>2, <1>3, <1>5, <2>1
    <3> QED  BY <1>1, <1>3, <1>7, <2>1, <3>1 DEF Here
  <2>2. CASE Count # 0
    BY <1>1, <1>2, <1>3, <1>7, <2>2
  <2> QED  BY <2>1, <2>2
<1>10. CASE Count > Room
  <2>1. block # None /\ Count \in 0 .. Count /\ Count # 0
    BY <1>2, <1>10
  <2>2. /\ Converted(Count)[Count] + 2 * decimation = block + offset + Count * 2 * decimation
        /\ Converted(Count)[Count] \in Nat
    <3>1. Count \in 1 .. Count
      BY <1>2, <2>1
    <3> QED  BY <1>1, <2>1, <3>1, ConvertedSamples
  <2>3. pending' = Converted(Count)[Count]
    BY <1>1, <1>10
  <2>4. Taken = Room /\ Count = Room + 1
    BY <1>2, <1>10 DEF Taken
  <2>5. Count * 2 * decimation = Taken * 2 * decimation + 2 * decimation
    BY <1>2, <1>3, <2>4
  <2>6. Taken * 2 * decimation \in Nat
    BY <1>2, <1>3, <2>4
  <2>7. Out[Len(Out)] + 2 * decimation = Converted(Count)[Count]
    BY <1>3, <1>4, <1>5, <2>1, <2>2, <2>5, <2>6
  <2>8. pending' + 2 * decimation = Here'
    BY <1>2, <1>3, <1>5, <1>7, <2>1, <2>2, <2>3
  <2>9. StreamInv'
    BY <1>1, <1>4, <1>9, <2>2, <2>3, <2>7, <2>8 DEF StreamInv
  <2> QED  BY <1>1, <1>3, <1>4, <1>6, <2>9 DEF IqInv, Position
<1>11. CASE ~(Count > Room)
  <2>1. pending' = None
    BY <1>1, <1>11
  <2>2. Taken = Count
    BY <1>2, <1>11 DEF Taken
  <2>3. due' = Here'
    BY <1>1, <1>2, <1>3, <1>4, <1>5, <1>7, <2>2
  <2>4. StreamInv'
    BY <1>1, <1>4, <1>9, <2>1, <2>3 DEF StreamInv, None
  <2> QED  BY <1>1, <1>3, <1>4, <1>6, <2>4 DEF IqInv, Position
<1> QED  BY <1>10, <1>11

LEMMA IqNext == IqInv /\ [Next]_vars => IqInv'
<1> SUFFICES ASSUME IqInv, [Next]_vars PROVE IqInv'
  OBVIOUS
<1>1. MaxOut \in Nat /\ Horizon \in Nat /\ BlockLen \in Nat \ {0} /\ 0 \in 0 .. MaxOut
  BY BoundAssumption, BlockLenAssumption
<1>2. CASE ChangeDecimation
  BY <1>2 DEF ChangeDecimation, IqInv, BlockInv, StreamInv, Here, Position
<1>3. CASE Start
  <2>1. BlockInv'
    BY <1>3, FreshBlock DEF Start, Reset, IqInv, BlockInv
  <2>2. StreamInv'
    BY <1>3, ResetStream DEF Start
  <2> QED  BY <1>3, <2>1, <2>2 DEF Start, IqInv, Position
<1>4. CASE Stop
  <2>1. BlockInv'
    <3>1. block' = None /\ tick' \in 1 .. Horizon + 1
      BY <1>4, LoseBlock DEF Stop
    <3>2. offset' = 0 /\ decimation' \in Decimations
      BY <1>4 DEF Stop, Reset, IqInv
    <3> QED  BY <3>1, <3>2, FreshBlock DEF None
  <2>2. StreamInv'
    BY <1>4, ResetStream DEF Stop
  <2> QED  BY <1>4, <2>1, <2>2 DEF Stop, IqInv, Position
<1>5. ASSUME NEW n \in 0 .. MaxOut, ReadBegin(n)
      PROVE  IqInv'
  <2>1. decimation' \in Decimations /\ BlockInv' /\ StreamInv'
    BY <1>5, AdoptKeeps DEF ReadBegin
  <2>2. got' \in Seq(Position) /\ Len(got') <= MaxOut
    <3>1. got' = <<>> /\ Len(<<>>) = 0
      BY <1>5 DEF ReadBegin
    <3> QED  BY <1>1, <3>1, EmptySeq
  <2> QED  BY <1>5, <2>1, <2>2 DEF ReadBegin, IqInv, Position
<1>6. CASE Poll
  <2>1. decimation' \in Decimations /\ BlockInv' /\ StreamInv'
    BY <1>6, AdoptKeeps DEF Poll
  <2> QED  BY <1>6, <2>1 DEF Poll, IqInv, Position
<1>7. CASE Fill
  <2>1. block = None /\ offset = 0 /\ tick \in 1 .. Horizon + 1
    BY <1>7 DEF Fill, Waits, IqInv, BlockInv
  <2>2. BlockInv'
    <3>1. tick' \in 1 .. Horizon + 1 /\ block' \in Nat /\ block' + BlockLen = tick'
      BY <1>1, <1>7, <2>1 DEF Fill
    <3>2. offset' = 0 /\ decimation' \in Decimations
      BY <1>7, <2>1 DEF Fill, IqInv
    <3> QED  BY <3>1, <3>2, FreshBlock
  <2>3. Here' = Here
    BY <1>7, <2>1 DEF Fill, Here, None
  <2>4. StreamInv'
    BY <1>7, <2>3 DEF Fill, StreamInv, IqInv
  <2> QED  BY <1>7, <2>2, <2>4 DEF Fill, IqInv, Position
<1>8. CASE FillFails
  <2>1. BlockInv'
    <3>1. block' = None /\ tick' \in 1 .. Horizon + 1
      BY <1>8, LoseBlock DEF FillFails
    <3>2. offset' = 0 /\ decimation' \in Decimations
      BY <1>8 DEF FillFails, Reset, IqInv
    <3> QED  BY <3>1, <3>2, FreshBlock DEF None
  <2>2. StreamInv'
    BY <1>8, ResetStream DEF FillFails
  <2> QED  BY <1>1, <1>8, <2>1, <2>2 DEF FillFails, IqInv, Position
<1>9. CASE Abandon
  BY <1>1, <1>9 DEF Abandon, IqInv, BlockInv, StreamInv, Here, Position
<1>10. CASE Process
  BY <1>10, ProcessKeeps
<1>11. CASE UNCHANGED vars
  BY <1>11 DEF vars, IqInv, BlockInv, StreamInv, Here, Position
<1> QED  BY <1>2, <1>3, <1>4, <1>5, <1>6, <1>7, <1>8, <1>9, <1>10, <1>11 DEF Next

(***************************************************************************)
(* The theorems                                                            *)
(***************************************************************************)

\* The invariant holds in every state (src/src/rx/processing.rs).
THEOREM IqInvariant == Spec => []IqInv
BY IqInit, IqNext, PTL DEF Spec

\* Nothing lies outside the capture.
LEMMA IqTypes == IqInv => TypeOK
<1> SUFFICES ASSUME IqInv PROVE TypeOK
  OBVIOUS
<1>1. /\ decimation \in Nat \ {0} /\ block \in Nat /\ tick \in 1 .. Horizon + 1 /\ Horizon \in Nat
      /\ (block # None => block + BlockLen = tick) /\ BlockLen \in Nat \ {0}
      /\ (block = None => offset = 0) /\ offset < BlockLen
  BY BlockGroups, BoundAssumption, BlockLenAssumption DEF IqInv, BlockInv
<1>2. offset \in Nat
  <2>1. \A g \in Nat : Group(decimation) * g \in Nat
    BY BlockGroups, Multiples DEF IqInv
  <2> QED  BY <2>1 DEF IqInv, BlockInv
<1>3. Here \in 0 .. Horizon + 1
  BY <1>1, <1>2 DEF Here
<1>4. /\ pending \in Nat /\ due \in Nat /\ heard \in Nat
      /\ (pending # None => due = pending /\ pending + 2 * decimation = Here)
      /\ (pending = None /\ due # None => due = Here)
      /\ (heard # None => heard = Here)
  BY DEF IqInv, StreamInv
<1>5. pending \in Position
  BY <1>1, <1>3, <1>4 DEF Position, None
<1>6. due \in Position /\ heard \in Position
  BY <1>1, <1>3, <1>4, <1>5 DEF Position, None
<1>7. block \in Position /\ tick \in Position /\ offset \in 0 .. BlockLen - 1
  BY <1>1, <1>2 DEF Position, None
<1> QED  BY <1>5, <1>6, <1>7 DEF IqInv, TypeOK

\* The types of the state of a read (IqProcessor, RxQueue's current block).
THEOREM IqTypeCorrect == Spec => []TypeOK
BY IqInvariant, IqTypes, PTL

\* No filter spans a gap: whatever loses data resets the converter, and a read
\* goes on where the last conversion ended (IqProcessor::reset, process).
THEOREM FiltersNeverHearGap == Spec => []FiltersHearNoGap
<1>1. IqInv => FiltersHearNoGap
  BY DEF IqInv, StreamInv, Here, FiltersHearNoGap
<1> QED  BY <1>1, IqInvariant, PTL

\* process_u16le never meets an incomplete conversion group: what is consumed
\* of a block is always whole groups.
THEOREM GroupsAlwaysComplete == Spec => []GroupsComplete
<1>1. IqInv => GroupsComplete
  BY DEF IqInv, GroupsComplete
<1> QED  BY <1>1, IqInvariant, PTL

\* The step of ReadsContinue, and that of ShortReadLeavesNothing.
GoesOn ==
  got' # got /\ got' # <<>> =>
    /\ due # None => got'[1] = due
    /\ \A k \in 1 .. Len(got') - 1 : got'[k + 1] = got'[k] + 2 * decimation
LeavesNothing ==
  got' # <<>> /\ want # 0 /\ want' = 0 /\ Len(got') < want => block' = None /\ pending' = None

\* Only process() delivers samples, and they go on where the last ones ended.
LEMMA StepGoesOn == IqInv /\ [Next]_vars => GoesOn
<1> SUFFICES ASSUME IqInv, [Next]_vars PROVE GoesOn
  OBVIOUS
<1>1. CASE Process
  <2>1. want # 0 /\ ~Waits /\ got' = Out
    BY <1>1, ProcessSucceeds
  <2> QED  BY <2>1, OutputContinues DEF GoesOn
<1>2. ASSUME NEW n \in 0 .. MaxOut, ReadBegin(n)
      PROVE  GoesOn
  BY <1>2 DEF ReadBegin, GoesOn
<1>3. CASE UNCHANGED got
  BY <1>3 DEF GoesOn
<1> QED  BY <1>1, <1>2, <1>3
         DEF Next, vars, ChangeDecimation, Start, Stop, Poll, Fill, FillFails, Abandon

\* Reads deliver every sample once and in order, whatever their lengths
\* (IqProcessor::process).
THEOREM ReadsAlwaysContinue == Spec => ReadsContinue
<1>1. Spec => [][GoesOn]_vars
  BY IqInvariant, StepGoesOn, PTL DEF Spec
<1> QED  BY <1>1, PTL DEF ReadsContinue, GoesOn

\* Only process() ends a read with samples, and short only of what it has.
LEMMA StepLeavesNothing == IqInv /\ [Next]_vars => LeavesNothing
<1> SUFFICES ASSUME IqInv, [Next]_vars PROVE LeavesNothing
  OBVIOUS
<1>1. CASE Process
  <2> SUFFICES ASSUME Len(got') < want PROVE block' = None /\ pending' = None
    BY DEF LeavesNothing
  <2>1. /\ want # 0 /\ ~Waits /\ got' = Out
        /\ pending' = (IF Count > Room THEN Converted(Count)[Count] ELSE None)
        /\ UseUp(Used)
    BY <1>1, ProcessSucceeds
  <2>2. /\ Room \in Nat /\ Count \in Nat /\ (block = None => Used = 0)
        /\ (block # None /\ Count < Room => Used = BlockLen)
    BY <2>1, ConversionFits
  <2>3. Count < Room
    <3>1. Len(Out) = Len(Carried) + Taken
      BY <2>1, OutputContinues
    <3>2. Len(Carried) \in Nat /\ want \in Nat /\ Room = want - Len(Carried)
      BY CarriedLength, BoundAssumption DEF IqInv, Room
    <3> QED  BY <2>1, <2>2, <3>1, <3>2 DEF Taken
  <2>4. pending' = None
    BY <2>1, <2>2, <2>3
  <2>5. block' = None
    <3>1. BlockLen # 0
      BY BlockLenAssumption
    <3> QED  BY <2>1, <2>2, <2>3, <3>1 DEF UseUp
  <2> QED  BY <2>4, <2>5
<1>2. CASE want # 0 /\ UNCHANGED got
  BY <1>2 DEF LeavesNothing, IqInv
<1>3. CASE want = 0
  BY <1>3 DEF LeavesNothing
<1>4. ChangeDecimation \/ Poll \/ Fill \/ FillFails \/ Abandon \/ UNCHANGED vars => UNCHANGED got
  BY DEF vars, ChangeDecimation, Poll, Fill, FillFails, Abandon
<1>5. Start => UNCHANGED got
  BY DEF Start
<1>6. \A n \in 0 .. MaxOut : Stop \/ ReadBegin(n) => want = 0
  BY DEF Stop, ReadBegin
<1>7. Stop => want = 0
  BY DEF Stop
<1> QED  BY <1>1, <1>2, <1>3, <1>4, <1>5, <1>6, <1>7 DEF Next

\* A read that returns fewer samples than asked has used up its block and the
\* carried sample (IqProcessor::process).
THEOREM ShortReadsLeaveNothing == Spec => ShortReadLeavesNothing
<1>1. Spec => [][LeavesNothing]_vars
  BY IqInvariant, StepLeavesNothing, PTL DEF Spec
<1> QED  BY <1>1, PTL DEF ShortReadLeavesNothing, LeavesNothing

=============================================================================
