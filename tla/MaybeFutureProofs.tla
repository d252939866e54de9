-------------------------- MODULE MaybeFutureProofs --------------------------
(***************************************************************************)
(* Proofs about MaybeFuture.tla, for every tree of combinators.            *)
(*                                                                         *)
(* Induction is by the least counterexample.  RecursionDefines says that a *)
(* recursion over numbers defines a function, and so Built and Waiting     *)
(* satisfy the equations that they are written as.  The invariant behind   *)
(* AwaitIsWait tells of every future on the path of a poll what the        *)
(* operation will have submitted when that one ends, and its value; the    *)
(* forecast for the whole operation is what waiting does, and no step      *)
(* changes it.                                                             *)
(***************************************************************************)
EXTENDS MaybeFuture, Integers, TLAPS, SequenceTheorems, WellFoundedInduction

-----------------------------------------------------------------------------
(* Induction and recursion over numbers *)

LEMMA LeastNatural ==
  ASSUME NEW T, T \subseteq Nat, T # {}
  PROVE  \E n \in T : \A m \in T : n <= m
<1>1. PICK n \in T : \A m \in T : <<m, n>> \notin OpToRel(<, Nat)
  BY NatLessThanWellFounded, WFMin, Zenon
<1>2. \A m \in T : ~(m < n)
  BY <1>1 DEF OpToRel
<1> QED BY <1>2

\* By D[f] the value at f of a function from S to R rests on its values at
\* smaller numbers.
Recursion(S, R, D) ==
  /\ S \subseteq Nat /\ R # {}
  /\ \A f \in S : \A w \in [S -> R] : D[f][w] \in R
  /\ \A f \in S : \A v, w \in [S -> R] :
       (\A g \in S : g < f => v[g] = w[g]) => D[f][v] = D[f][w]

\* A recursion defines a function.
LEMMA RecursionDefines ==
  ASSUME NEW S, NEW R, NEW D, Recursion(S, R, D)
  PROVE  \E w \in [S -> R] : \A f \in S : w[f] = D[f][w]
<1> USE DEF Recursion
<1> DEFINE Good(w, n) == w \in [S -> R] /\ \A f \in S : f < n => w[f] = D[f][w]
<1>1. ASSUME NEW n \in Nat, NEW v, NEW w, Good(v, n), Good(w, n),
             NEW h \in S, h < n
      PROVE  v[h] = w[h]
  <2>1. SUFFICES ASSUME v[h] # w[h] PROVE FALSE
    OBVIOUS
  <2> DEFINE T == {f \in S : f < n /\ v[f] # w[f]}
  <2>2. T \subseteq Nat /\ T # {}
    BY <1>1, <2>1
  <2>3. PICK f \in T : \A g \in T : f <= g
    BY <2>2, LeastNatural
  <2>4. \A g \in S : g < f => v[g] = w[g]
    BY <1>1, <2>3
  <2>5. D[f][v] = D[f][w]
    BY <1>1, <2>4
  <2> QED BY <1>1, <2>3, <2>5
<1>2. ASSUME NEW n \in Nat PROVE \E w : Good(w, n)
  <2>1. SUFFICES ASSUME ~\E w : Good(w, n) PROVE FALSE
    OBVIOUS
  <2> DEFINE T == {m \in Nat : ~\E w : Good(w, m)}
  <2>2. T \subseteq Nat /\ T # {}
    BY <2>1
  <2> HIDE DEF Good
  <2>3. PICK m \in T : \A k \in T : m <= k
    BY <2>2, LeastNatural
  <2>4. m # 0
    <3>1. PICK r : r \in R
      OBVIOUS
    <3>2. Good([f \in S |-> r], 0)
      BY <3>1 DEF Good
    <3> QED BY <2>3, <3>2
  <2>5. m - 1 \in Nat /\ m - 1 \notin T
    BY <2>3, <2>4
  <2>6. PICK w : Good(w, m - 1)
    BY <2>5
  <2> DEFINE u == [f \in S |-> IF f = m - 1 THEN D[f][w] ELSE w[f]]
  <2>7. w \in [S -> R] /\ u \in [S -> R]
    BY <2>6 DEF Good
  <2>8. \A f \in S : f < m => u[f] = D[f][u]
    <3> SUFFICES ASSUME NEW f \in S, f < m PROVE u[f] = D[f][u]
      OBVIOUS
    <3>1. \A g \in S : g < f => w[g] = u[g]
      BY <2>3
    <3>2. D[f][w] = D[f][u]
      BY <2>7, <3>1
    <3>3. CASE f = m - 1
      BY <3>2, <3>3
    <3>4. CASE f # m - 1
      <4>1. f \in Nat /\ m \in Nat
        BY <2>3
      <4>2. f < m - 1
        BY <3>4, <4>1
      <4>3. w[f] = D[f][w]
        BY <2>6, <4>2 DEF Good
      <4> QED BY <3>2, <3>4, <4>3
    <3> QED BY <3>3, <3>4
  <2>9. Good(u, m)
    BY <2>7, <2>8 DEF Good
  <2> QED BY <2>3, <2>9
<1> DEFINE Upto(f) == CHOOSE w : Good(w, f + 1)
           whole == [f \in S |-> Upto(f)[f]]
<1>3. \A f \in S : Good(Upto(f), f + 1)
  <2> SUFFICES ASSUME NEW f \in S PROVE Good(Upto(f), f + 1)
    OBVIOUS
  <2>1. f + 1 \in Nat
    OBVIOUS
  <2> HIDE DEF Good
  <2> QED BY <1>2, <2>1
<1> HIDE DEF Upto
<1>4. whole \in [S -> R]
  BY <1>3
<1>5. ASSUME NEW f \in S PROVE whole[f] = D[f][whole]
  <2>1. ASSUME NEW g \in S, g < f PROVE whole[g] = Upto(f)[g]
    <3>1. g + 1 \in Nat /\ g < g + 1 /\ Good(Upto(g), g + 1)
      BY <1>3
    <3>2. Good(Upto(f), g + 1)
      <4>1. \A h \in S : h < g + 1 => h < f + 1
        BY <2>1
      <4> QED BY <1>3, <4>1
    <3> HIDE DEF Good
    <3>3. Upto(g)[g] = Upto(f)[g]
      BY <1>1, <3>1, <3>2
    <3> QED BY <3>3
  <2>2. D[f][Upto(f)] = D[f][whole]
    BY <1>3, <1>4, <2>1
  <2>3. Upto(f)[f] = D[f][Upto(f)]
    <3>1. f \in Nat
      OBVIOUS
    <3>2. f < f + 1
      BY <3>1, SMT
    <3> QED BY <1>3, <3>2
  <2> QED BY <2>2, <2>3
<1> QED BY <1>4, <1>5

-----------------------------------------------------------------------------
(* Building and waiting *)

Combinators == {"Map", "Either", "AndThen", "ContinueWith", "Sequence"}

\* The parts of a combinator come before it.
LEMMA TreeShape ==
  ASSUME NEW f \in Future
  PROVE  /\ f \in Nat
         /\ Tree[f].op \in {"Ready", "Transfer"} \cup Combinators
         /\ Tree[f].op = "Ready" => Tree[f].value \in Results
         /\ Tree[f].op = "Transfer" => Tree[f].id \in Transfers
         /\ Tree[f].op \in Combinators => Tree[f].first \in Future /\ Tree[f].first < f
         /\ Tree[f].op = "Map" => \A v \in Results : Tree[f].to[v] \in Results
         /\ Tree[f].op \in {"AndThen", "ContinueWith", "Sequence"} =>
              \A v \in Results : Tree[f].next[v] \in Future /\ Tree[f].next[v] < f
         /\ Tree[f].op = "AndThen" => Tree[f].captured \in Future /\ Tree[f].captured < f
<1>1. f \in Nat /\ Tree[f] \in Leaf \cup Combinator(f)
  BY FutureAssumption
<1>2. CASE Tree[f] \in Leaf
  BY <1>1, <1>2 DEF Leaf, Combinators
<1>3. CASE Tree[f] \in Combinator(f)
  BY <1>1, <1>3 DEF Combinator, Combinators, Below
<1> QED BY <1>1, <1>2, <1>3

\* The body of Built.
BuildingOf(f, built) ==
  CASE Tree[f].op \in {"Ready", "Sequence"} -> <<>>
    [] Tree[f].op = "Transfer" -> <<Tree[f].id>>
    [] Tree[f].op = "AndThen"  -> built[Tree[f].first] \o built[Tree[f].captured]
    [] OTHER -> built[Tree[f].first]

LEMMA BuildingType ==
  ASSUME NEW f \in Future, NEW w, \A g \in Future : g < f => w[g] \in Seq(Transfers)
  PROVE  BuildingOf(f, w) \in Seq(Transfers)
<1>1. <<>> \in Seq(Transfers)
  BY EmptySeq
<1>2. Tree[f].op = "Transfer" => <<Tree[f].id>> \in Seq(Transfers)
  BY TreeShape
<1> QED BY <1>1, <1>2, TreeShape, ConcatProperties DEF BuildingOf, Combinators

LEMMA BuiltDefined ==
  /\ Built \in [Future -> Seq(Transfers)]
  /\ \A f \in Future : Built[f] = BuildingOf(f, Built)
<1> DEFINE R == Seq(Transfers)
           W == [Future -> R]
           D == [f \in Future |-> [w \in W |-> BuildingOf(f, w)]]
<1>1. \A f \in Future : \A w \in W : D[f][w] = BuildingOf(f, w)
  OBVIOUS
<1>2. ASSUME NEW f \in Future, NEW w \in W PROVE D[f][w] \in Seq(Transfers)
  BY <1>1, BuildingType
<1>3. ASSUME NEW f \in Future, NEW v \in W, NEW w \in W,
             \A g \in Future : g < f => v[g] = w[g]
      PROVE  D[f][v] = D[f][w]
  <2>1. BuildingOf(f, v) = BuildingOf(f, w)
    BY <1>3, TreeShape DEF BuildingOf, Combinators
  <2> QED BY <1>1, <2>1
<1>4. Future \subseteq Nat /\ Seq(Transfers) # {}
  BY FutureAssumption, EmptySeq
<1> HIDE DEF D
<1>5. \E w \in W : \A f \in Future : w[f] = D[f][w]
  <2>1. Future \subseteq Nat /\ R # {} /\ \A f \in Future : \A w \in W : D[f][w] \in R
    BY <1>2, <1>4
  <2>2. \A f \in Future : \A v, w \in W :
          (\A g \in Future : g < f => v[g] = w[g]) => D[f][v] = D[f][w]
    BY <1>3
  <2> HIDE DEF R
  <2>3. Recursion(Future, R, D)
    BY <2>1, <2>2 DEF Recursion
  <2> QED BY <2>3, RecursionDefines
<1>6. PICK w \in W : w = [f \in Future |-> BuildingOf(f, w)]
  BY <1>1, <1>5
<1>7. Built = [f \in Future |-> BuildingOf(f, Built)]
  BY <1>6, Zenon DEF Built, BuildingOf
<1> DEFINE T == {f \in Future : Built[f] \notin Seq(Transfers)}
<1>8. CASE T # {}
  <2>1. PICK f \in T : \A g \in T : f <= g
    BY <1>4, <1>8, LeastNatural
  <2>2. \A g \in Future : g < f => Built[g] \in Seq(Transfers)
    BY <1>4, <2>1
  <2> QED BY <1>7, <2>1, <2>2, BuildingType
<1> QED BY <1>7, <1>8

\* What waiting for something submits and returns.
Report == [submits : Seq(Transfers), value : Results]

LEMMA LateType ==
  ASSUME NEW f \in Future, Tree[f].op \in Combinators
  PROVE  BuiltLate(Tree[f]) \in Seq(Transfers)
BY EmptySeq, TreeShape, BuiltDefined DEF BuiltLate

LEMMA ThenWaitType ==
  ASSUME NEW f \in Future, Tree[f].op \in Combinators, NEW first \in Report,
         NEW waiting, \A g \in Future : g < f => waiting[g] \in Report
  PROVE  ThenWait(Tree[f], first, waiting) \in Report
<1> DEFINE next == Tree[f].next[first.value]
<1>1. first.submits \in Seq(Transfers) /\ first.value \in Results
  BY DEF Report
<1>2. CASE Tree[f].op = "Either" \/ (Tree[f].op \in {"AndThen", "Sequence"} /\ first.value = "Err")
  BY <1>2 DEF ThenWait
<1>3. CASE Tree[f].op = "Map"
  BY <1>1, <1>3, TreeShape DEF ThenWait, Report
<1>4. CASE /\ Tree[f].op \in {"AndThen", "ContinueWith", "Sequence"}
           /\ ~(Tree[f].op \in {"AndThen", "Sequence"} /\ first.value = "Err")
  <2>1. waiting[next] \in Report /\ Built[next] \in Seq(Transfers)
    BY <1>1, <1>4, TreeShape, BuiltDefined
  <2>2. first.submits \o Built[next] \o waiting[next].submits \in Seq(Transfers)
    BY <1>1, <2>1, ConcatProperties DEF Report
  <2>3. ThenWait(Tree[f], first, waiting)
          = [submits |-> first.submits \o Built[next] \o waiting[next].submits,
             value   |-> waiting[next].value]
    BY <1>4 DEF ThenWait
  <2> QED BY <2>1, <2>2, <2>3 DEF Report
<1> QED BY <1>2, <1>3, <1>4 DEF Combinators

\* Of the future after the first part, only what waiting for it does matters.
LEMMA ThenWaitRests ==
  ASSUME NEW f \in Future, Tree[f].op \in Combinators, NEW first \in Report,
         NEW v, NEW w, \A g \in Future : g < f => v[g] = w[g]
  PROVE  ThenWait(Tree[f], first, v) = ThenWait(Tree[f], first, w)
<1>1. first.value \in Results
  BY DEF Report
<1> QED BY <1>1, TreeShape DEF ThenWait, Combinators

\* What waiting for the first part of a combinator submits, with what is built
\* before it, and returns.
FirstWait(f, waiting) ==
  [submits |-> BuiltLate(Tree[f]) \o waiting[Tree[f].first].submits,
   value   |-> waiting[Tree[f].first].value]

\* The body of Waiting.
WaitingOf(f, waiting) ==
  CASE Tree[f].op = "Ready"    -> [submits |-> <<>>, value |-> Tree[f].value]
    [] Tree[f].op = "Transfer" -> [submits |-> <<>>, value |-> outcome[Tree[f].id]]
    [] OTHER -> ThenWait(Tree[f], FirstWait(f, waiting), waiting)

LEMMA FirstWaitType ==
  ASSUME NEW f \in Future, Tree[f].op \in Combinators,
         NEW waiting, \A g \in Future : g < f => waiting[g] \in Report
  PROVE  FirstWait(f, waiting) \in Report
<1>1. waiting[Tree[f].first] \in Report
  BY TreeShape
<1>2. BuiltLate(Tree[f]) \o waiting[Tree[f].first].submits \in Seq(Transfers)
  BY <1>1, LateType, ConcatProperties DEF Report
<1> QED BY <1>1, <1>2 DEF FirstWait, Report

LEMMA WaitingType ==
  ASSUME outcome \in [Transfers -> Results],
         NEW f \in Future, NEW w, \A g \in Future : g < f => w[g] \in Report
  PROVE  WaitingOf(f, w) \in Report
<1>1. CASE Tree[f].op = "Ready"
  BY <1>1, TreeShape, EmptySeq DEF WaitingOf, Report
<1>2. CASE Tree[f].op = "Transfer"
  BY <1>2, TreeShape, EmptySeq DEF WaitingOf, Report
<1>3. CASE Tree[f].op \in Combinators
  <2>1. WaitingOf(f, w) = ThenWait(Tree[f], FirstWait(f, w), w)
    BY <1>3 DEF WaitingOf, Combinators
  <2> QED BY <1>3, <2>1, FirstWaitType, ThenWaitType
<1> QED BY <1>1, <1>2, <1>3, TreeShape

LEMMA WaitingRests ==
  ASSUME NEW f \in Future, NEW v \in [Future -> Report], NEW w \in [Future -> Report],
         \A g \in Future : g < f => v[g] = w[g]
  PROVE  WaitingOf(f, v) = WaitingOf(f, w)
<1>1. CASE Tree[f].op \in {"Ready", "Transfer"}
  BY <1>1 DEF WaitingOf
<1>2. CASE Tree[f].op \in Combinators
  <2>1. FirstWait(f, v) = FirstWait(f, w)
    BY <1>2, TreeShape DEF FirstWait
  <2>2. FirstWait(f, v) \in Report
    BY <1>2, FirstWaitType
  <2>3. ThenWait(Tree[f], FirstWait(f, v), v) = ThenWait(Tree[f], FirstWait(f, v), w)
    BY <1>2, <2>2, ThenWaitRests
  <2> QED BY <1>2, <2>1, <2>3 DEF WaitingOf, Combinators
<1> QED BY <1>1, <1>2, TreeShape

LEMMA WaitingDefined ==
  ASSUME outcome \in [Transfers -> Results]
  PROVE  /\ Waiting \in [Future -> Report]
         /\ \A f \in Future : Waiting[f] = WaitingOf(f, Waiting)
<1> DEFINE W == [Future -> Report]
           D == [f \in Future |-> [w \in W |-> WaitingOf(f, w)]]
<1>1. \A f \in Future : \A w \in W : D[f][w] = WaitingOf(f, w)
  OBVIOUS
<1>2. \A f \in Future : \A w \in W : D[f][w] \in Report
  BY <1>1, WaitingType
<1>3. \A f \in Future : \A v, w \in W :
        (\A g \in Future : g < f => v[g] = w[g]) => D[f][v] = D[f][w]
  BY <1>1, WaitingRests
<1>4. Future \subseteq Nat /\ Report # {}
  <2>1. [submits |-> <<>>, value |-> "Ok"] \in Report
    BY EmptySeq, ResultsAssumption DEF Report
  <2> QED BY <2>1, FutureAssumption
<1> HIDE DEF D
<1>5. Recursion(Future, Report, D)
  BY <1>2, <1>3, <1>4 DEF Recursion
<1>6. PICK w \in W : w = [f \in Future |-> WaitingOf(f, w)]
  BY <1>1, <1>5, RecursionDefines
<1>7. Waiting = [f \in Future |-> WaitingOf(f, Waiting)]
  BY <1>6, Zenon DEF Waiting, WaitingOf, FirstWait
<1> DEFINE T == {f \in Future : Waiting[f] \notin Report}
<1>8. CASE T # {}
  <2>1. PICK f \in T : \A g \in T : f <= g
    BY <1>4, <1>8, LeastNatural
  <2>2. \A g \in Future : g < f => Waiting[g] \in Report
    BY <1>4, <2>1
  <2> QED BY <1>7, <2>1, <2>2, WaitingType
<1> QED BY <1>7, <1>8

-----------------------------------------------------------------------------
(* The path of a running poll *)

Frame == [future : Future, stage : {"Start", "First", "Second"}]

TypeInv ==
  /\ op \in Future
  /\ outcome \in [Transfers -> Results]
  /\ phase \in {"New", "Polled", "Done", "Dropped"}
  /\ live \in Seq(Frame)
  /\ at \in 0..Len(live)
  /\ answer \in Results \cup {"None", "Pending"}
  /\ submitted \in Seq(Transfers)

\* A value is always that of the last future of the path, and every future
\* before it is a combinator that holds the next.
PathInv ==
  /\ phase = "New" => at = 0
  /\ phase = "Dropped" => live = <<>> /\ answer = "None"
  /\ phase # "Dropped" => live # <<>>
  /\ phase = "Done" => at = 0 /\ Len(live) = 1 /\ answer \in Results
  /\ phase # "Done" /\ at = 0 => answer = "None"
  /\ phase # "Done" /\ answer \in Results => at = Len(live)
  /\ \A i \in 1..Len(live) :
       /\ i < Len(live) => live[i].stage # "Start" /\ Tree[live[i].future].op \in Combinators
       /\ i = Len(live) /\ answer \notin Results => live[i].stage = "Start"
       /\ live[i].stage = "Second" => Tree[live[i].future].op \in {"AndThen", "ContinueWith"}

\* A path is cut after k and grows anew.
LEMMA Regrown ==
  ASSUME NEW path \in Seq(Frame), NEW k \in 0..Len(path), NEW t \in Seq(Frame),
         NEW s, s = SubSeq(path, 1, k) \o t
  PROVE  /\ s \in Seq(Frame) /\ Len(s) = k + Len(t)
         /\ \A i \in 1..k : s[i] = path[i]
         /\ \A i \in 1..Len(t) : s[k + i] = t[i]
<1> DEFINE left == SubSeq(path, 1, k)
<1>1. Len(path) \in Nat /\ \A i \in 1..Len(path) : path[i] \in Frame
  BY LenProperties, ElementOfSeq
<1>2. left \in Seq(Frame) /\ Len(left) = k /\ \A i \in 1..k : left[i] = path[i]
  BY <1>1, SubSeqProperties
<1>3. Len(t) \in Nat
  BY LenProperties
<1> HIDE DEF left
<1>4. /\ s \in Seq(Frame) /\ Len(s) = Len(left) + Len(t)
      /\ \A i \in 1..Len(left) + Len(t) : s[i] = IF i <= Len(left) THEN left[i] ELSE t[i - Len(left)]
  <2>1. s = left \o t
    BY DEF left
  <2> QED BY <1>2, <2>1, ConcatProperties
<1>5. ASSUME NEW i \in 1..k PROVE s[i] = path[i]
  BY <1>2, <1>3, <1>4
<1>6. ASSUME NEW i \in 1..Len(t) PROVE s[k + i] = t[i]
  <2>1. k + i \in 1..k + Len(t) /\ ~(k + i <= k) /\ k + i - k = i
    BY <1>3
  <2> QED BY <1>2, <1>4, <2>1
<1> QED BY <1>2, <1>4, <1>5, <1>6

\* The path when it is only cut.
LEMMA Cut ==
  ASSUME live \in Seq(Frame), NEW k \in 0..Len(live), NEW s, s = SubSeq(live, 1, k)
  PROVE  s \in Seq(Frame) /\ Len(s) = k /\ \A i \in 1..k : s[i] = live[i]
<1>1. Len(live) \in Nat /\ \A i \in 1..Len(live) : live[i] \in Frame
  BY LenProperties, ElementOfSeq
<1> QED BY <1>1, SubSeqProperties

LEMMA FrameType ==
  ASSUME live \in Seq(Frame), NEW i \in 1..Len(live)
  PROVE  live[i] \in Frame /\ live[i].future \in Future
<1>1. live[i] \in Frame
  BY ElementOfSeq
<1> QED BY <1>1 DEF Frame

LEMMA InitPath == Init => TypeInv /\ PathInv
<1> SUFFICES ASSUME Init PROVE TypeInv /\ PathInv
  OBVIOUS
<1>1. op \in Future
  BY RootsAssumption DEF Init
<1>2. outcome \in [Transfers -> Results]
  BY OutcomesAssumption, ResultsAssumption DEF Init, OutcomesOf
<1>3. Unpolled(op) \in Frame
  BY <1>1 DEF Unpolled, Frame
<1>4. live \in Seq(Frame) /\ Len(live) = 1 /\ live[1] = Unpolled(op)
  BY <1>3 DEF Init
<1>5. submitted \in Seq(Transfers)
  BY <1>1, BuiltDefined DEF Init
<1>6. TypeInv
  BY <1>1, <1>2, <1>4, <1>5 DEF Init, TypeInv
<1>7. PathInv
  BY <1>4, ResultsAssumption DEF Init, PathInv, Unpolled
<1> QED BY <1>6, <1>7

\* Steps that leave the path alone.
LEMMA StandingStep ==
  ASSUME TypeInv, PathInv,
         \/ Poll \/ Descend \/ PollLeaf \/ ReturnPending \/ EndPoll
         \/ \E id \in Transfers : Complete(id)
  PROVE  TypeInv' /\ PathInv'
<1>1. UNCHANGED <<op, outcome, live, submitted>>
  BY DEF Poll, Descend, PollLeaf, ReturnPending, EndPoll, Complete
<1>2. Len(live) \in Nat
  BY LenProperties DEF TypeInv
<1>3. phase # "Dropped" => Len(live) \in Nat \ {0}
  BY EmptySeq DEF TypeInv, PathInv
<1>4. CASE Poll
  BY <1>1, <1>3, <1>4, ResultsAssumption DEF Poll, TypeInv, PathInv
<1>5. CASE Descend
  BY <1>1, <1>2, <1>5, ResultsAssumption DEF Descend, TypeInv, PathInv
<1>6. CASE PollLeaf
  <2>1. at \in 1..Len(live) /\ at = Len(live) /\ phase' = phase /\ at' = at /\ answer = "None"
    BY <1>2, <1>6 DEF PollLeaf, TypeInv
  <2>2. live[at].future \in Future
    BY <2>1, FrameType DEF TypeInv
  <2>3. answer' \in Results \cup {"Pending"}
    BY <1>6, <2>2, TreeShape DEF PollLeaf, Node, TypeInv
  <2>4. phase # "Done"
    BY <2>1, <1>2 DEF PathInv
  <2>5. TypeInv'
    BY <1>1, <2>1, <2>3 DEF TypeInv
  <2>6. answer \notin Results
    BY <2>1, ResultsAssumption
  <2>7. PathInv'
    BY <1>1, <1>2, <2>1, <2>3, <2>4, <2>6 DEF PathInv
  <2> QED BY <2>5, <2>7
<1>7. CASE ReturnPending
  BY <1>1, <1>2, <1>7, ResultsAssumption DEF ReturnPending, Returned, TypeInv, PathInv
<1>8. CASE EndPoll
  <2>1. at = 1 /\ at' = 0 /\ answer # "None" /\ phase # "Done" /\ phase # "Dropped"
    BY <1>8 DEF EndPoll, PathInv
  <2>2. CASE answer = "Pending"
    BY <1>1, <1>2, <1>8, <2>1, <2>2, ResultsAssumption DEF EndPoll, TypeInv, PathInv
  <2>3. CASE answer # "Pending"
    <3>1. answer \in Results /\ answer' = answer /\ phase' = "Done" /\ Len(live) = 1
      BY <1>8, <2>1, <2>3 DEF EndPoll, TypeInv, PathInv
    <3> QED BY <1>1, <1>2, <2>1, <3>1 DEF TypeInv, PathInv
  <2> QED BY <2>2, <2>3
<1>9. CASE \E id \in Transfers : Complete(id)
  BY <1>1, <1>9 DEF Complete, TypeInv, PathInv
<1> QED BY <1>4, <1>5, <1>6, <1>7, <1>8, <1>9

\* The path grows by the first part of its last future.
LEMMA BeginPath ==
  ASSUME TypeInv, PathInv, Begin
  PROVE  /\ at = Len(live) /\ at \in 1..Len(live) /\ answer = "None"
         /\ live[at].future \in Future /\ Tree[live[at].future].op \in Combinators
         /\ live' \in Seq(Frame) /\ Len(live') = at + 1
         /\ \A i \in 1..at - 1 : live'[i] = live[i]
         /\ live'[at] = [future |-> live[at].future, stage |-> "First"]
         /\ live'[at + 1] = Unpolled(Tree[live[at].future].first)
<1>1. Len(live) \in Nat
  BY LenProperties DEF TypeInv
<1>2. at = Len(live) /\ at \in 1..Len(live) /\ answer = "None"
  BY <1>1 DEF Begin, TypeInv
<1>3. live[at] \in Frame /\ live[at].future \in Future
  BY <1>2, FrameType DEF TypeInv
<1>4. Tree[live[at].future].op \in Combinators
  BY <1>3, TreeShape DEF Begin, Node
<1> DEFINE t == <<[live[at] EXCEPT !.stage = "First"], Unpolled(Node(at).first)>>
<1>5. [live[at] EXCEPT !.stage = "First"] = [future |-> live[at].future, stage |-> "First"]
  BY <1>3 DEF Frame
<1>6. Unpolled(Node(at).first) \in Frame
  BY <1>3, <1>4, TreeShape DEF Unpolled, Frame, Node
<1>7. /\ t \in Seq(Frame) /\ Len(t) = 2
      /\ t[1] = [future |-> live[at].future, stage |-> "First"]
      /\ t[2] = Unpolled(Tree[live[at].future].first)
  BY <1>3, <1>5, <1>6 DEF Frame, Node
<1>8. live' = SubSeq(live, 1, at - 1) \o t
  BY DEF Begin
<1>9. at - 1 \in 0..Len(live)
  BY <1>1, <1>2
<1> HIDE DEF t
<1>10. /\ live' \in Seq(Frame) /\ Len(live') = at - 1 + Len(t)
       /\ \A i \in 1..at - 1 : live'[i] = live[i]
       /\ \A i \in 1..Len(t) : live'[at - 1 + i] = t[i]
  <2>1. live \in Seq(Frame)
    BY DEF TypeInv
  <2>2. t \in Seq(Frame)
    BY <1>7
  <2> QED BY <1>8, <1>9, <2>1, <2>2, Regrown
<1>11. live'[at - 1 + 1] = t[1] /\ live'[at - 1 + 2] = t[2]
  BY <1>7, <1>10
<1>12. at - 1 + 1 = at /\ at - 1 + 2 = at + 1
  BY <1>1, <1>2
<1> QED BY <1>2, <1>3, <1>4, <1>7, <1>10, <1>11, <1>12

LEMMA BeginStep ==
  ASSUME TypeInv, PathInv, Begin
  PROVE  TypeInv' /\ PathInv'
<1>1. Len(live) \in Nat
  BY LenProperties DEF TypeInv
<1>2. submitted' \in Seq(Transfers)
  <2>1. BuiltLate(Node(at)) \in Seq(Transfers)
    BY BeginPath, LateType DEF Node
  <2> QED BY <2>1, ConcatProperties DEF Begin, TypeInv
<1>3. UNCHANGED <<op, outcome, phase, answer>> /\ at' = at + 1
  BY DEF Begin
<1>4. TypeInv'
  BY <1>1, <1>2, <1>3, BeginPath DEF TypeInv
<1>5. live' # <<>>
  BY <1>1, BeginPath, EmptySeq
<1>6. phase # "New" /\ phase # "Dropped" /\ phase # "Done"
  BY BeginPath, ResultsAssumption DEF PathInv
<1>7. ASSUME NEW i \in 1..Len(live')
      PROVE  /\ i < Len(live') => /\ live'[i].stage # "Start"
                                  /\ Tree[live'[i].future].op \in Combinators
             /\ i = Len(live') => live'[i].stage = "Start"
             /\ live'[i].stage = "Second" => Tree[live'[i].future].op \in {"AndThen", "ContinueWith"}
  <2>1. CASE i \in 1..at - 1
    <3>1. live'[i] = live[i] /\ i \in 1..Len(live) /\ i < Len(live) /\ i < Len(live')
      BY <1>1, <2>1, BeginPath
    <3> QED BY <3>1 DEF PathInv
  <2>2. CASE i = at
    BY <1>1, <2>2, BeginPath
  <2>3. CASE i = at + 1
    BY <1>1, <2>3, BeginPath DEF Unpolled
  <2> QED BY <1>1, <2>1, <2>2, <2>3, BeginPath
<1>8. answer' \notin Results /\ at' # 0
  BY <1>1, <1>3, BeginPath, ResultsAssumption
<1> QED BY <1>3, <1>4, <1>5, <1>6, <1>7, <1>8 DEF PathInv

\* The value of the last future is one for the combinator that holds it.
LEMMA ReturnedPath ==
  ASSUME TypeInv, PathInv, Returned, answer # "Pending"
  PROVE  /\ answer \in Results /\ phase \notin {"New", "Done", "Dropped"}
         /\ at = Len(live) /\ at - 1 \in 1..Len(live) /\ at \in Nat /\ at > 1
         /\ live[at - 1] \in Frame /\ live[at - 1].future \in Future
         /\ live[at - 1].stage # "Start" /\ Tree[live[at - 1].future].op \in Combinators
<1>1. Len(live) \in Nat
  BY LenProperties DEF TypeInv
<1>2. answer \in Results /\ at # 0 /\ at > 1 /\ at \in Nat
  BY <1>1 DEF Returned, TypeInv
<1>3. phase \notin {"New", "Done", "Dropped"}
  BY <1>2, ResultsAssumption DEF PathInv
<1>4. at = Len(live)
  BY <1>2, <1>3 DEF PathInv
<1>5. at - 1 \in 1..Len(live) /\ at - 1 < Len(live)
  BY <1>2, <1>4
<1> QED BY <1>2, <1>3, <1>4, <1>5, FrameType DEF PathInv, TypeInv

\* What a combinator goes on with, and what the path becomes.
LEMMA ContinuePath ==
  ASSUME TypeInv, PathInv, Continue
  PROVE  \E next \in Future :
           LET frame == live[at - 1]
               node  == Tree[frame.future]
           IN  /\ frame.stage = "First"
               /\ node.op \in {"AndThen", "ContinueWith", "Sequence"}
               /\ node.op \in {"AndThen", "Sequence"} => answer # "Err"
               /\ next = node.next[answer]
               /\ submitted' = submitted \o Built[next]
               /\ live' \in Seq(Frame)
               /\ \A i \in 1..at - 2 : live'[i] = live[i]
               /\ node.op = "Sequence" =>
                    Len(live') = at - 1 /\ live'[at - 1] = Unpolled(next)
               /\ node.op # "Sequence" =>
                    /\ Len(live') = at /\ live'[at] = Unpolled(next)
                    /\ live'[at - 1] = [future |-> frame.future, stage |-> "Second"]
<1> DEFINE frame == live[at - 1]
           node  == Tree[frame.future]
<1>1. Returned /\ answer # "Pending"
  BY DEF Continue
<1>2. PICK next \in OnwardFrom(frame, answer) :
        /\ live' = SubSeq(live, 1, at - 2) \o Going(frame, next)
        /\ submitted' = submitted \o Built[next]
  BY DEF Continue
<1>3. /\ frame.stage = "First" /\ frame \in Frame /\ frame.future \in Future
      /\ node.op \in {"AndThen", "ContinueWith", "Sequence"}
      /\ node.op \in {"AndThen", "Sequence"} => answer # "Err"
      /\ next = node.next[answer]
  BY <1>1, <1>2, ReturnedPath DEF OnwardFrom, Onward, Combinators
<1>4. next \in Future
  BY <1>1, <1>3, ReturnedPath, TreeShape
<1>5. Unpolled(next) \in Frame
  BY <1>4 DEF Unpolled, Frame
<1>6. at - 2 \in 0..Len(live) /\ at \in Nat /\ at - 2 + 1 = at - 1 /\ at - 2 + 2 = at
  BY <1>1, ReturnedPath
<1>7. CASE node.op = "Sequence"
  <2> DEFINE t == <<Unpolled(next)>>
  <2>1. t \in Seq(Frame) /\ Len(t) = 1 /\ t[1] = Unpolled(next)
    BY <1>5
  <2>2. live' = SubSeq(live, 1, at - 2) \o t
    BY <1>2, <1>7 DEF Going
  <2> HIDE DEF t
  <2>3. /\ live' \in Seq(Frame) /\ Len(live') = at - 2 + Len(t)
        /\ \A i \in 1..at - 2 : live'[i] = live[i]
        /\ \A i \in 1..Len(t) : live'[at - 2 + i] = t[i]
    <3>1. live \in Seq(Frame)
      BY DEF TypeInv
    <3>2. t \in Seq(Frame) /\ at - 2 \in 0..Len(live)
      BY <1>6, <2>1
    <3> QED BY <2>2, <3>1, <3>2, Regrown
  <2>4. live'[at - 2 + 1] = t[1]
    BY <2>1, <2>3
  <2> QED BY <1>2, <1>3, <1>4, <1>6, <1>7, <2>1, <2>3, <2>4
<1>8. CASE node.op # "Sequence"
  <2> DEFINE second == [future |-> frame.future, stage |-> "Second"]
             t == <<second, Unpolled(next)>>
  <2>1. second \in Frame /\ second = [frame EXCEPT !.stage = "Second"]
    BY <1>3 DEF Frame
  <2>2. t \in Seq(Frame) /\ Len(t) = 2 /\ t[1] = second /\ t[2] = Unpolled(next)
    BY <1>5, <2>1
  <2>3. live' = SubSeq(live, 1, at - 2) \o t
    BY <1>2, <1>8, <2>1 DEF Going
  <2> HIDE DEF t, second
  <2>4. /\ live' \in Seq(Frame) /\ Len(live') = at - 2 + Len(t)
        /\ \A i \in 1..at - 2 : live'[i] = live[i]
        /\ \A i \in 1..Len(t) : live'[at - 2 + i] = t[i]
    <3>1. live \in Seq(Frame)
      BY DEF TypeInv
    <3>2. t \in Seq(Frame) /\ at - 2 \in 0..Len(live)
      BY <1>6, <2>2
    <3> QED BY <2>3, <3>1, <3>2, Regrown
  <2>5. live'[at - 2 + 1] = t[1] /\ live'[at - 2 + 2] = t[2]
    BY <2>2, <2>4
  <2> QED BY <1>2, <1>3, <1>4, <1>6, <1>8, <2>2, <2>4, <2>5 DEF second
<1> QED BY <1>7, <1>8

LEMMA ContinueStep ==
  ASSUME TypeInv, PathInv, Continue
  PROVE  TypeInv' /\ PathInv'
<1>1. Returned /\ answer # "Pending"
  BY DEF Continue
<1>2. /\ at = Len(live) /\ at \in Nat /\ at > 1 /\ phase \notin {"New", "Done", "Dropped"}
      /\ live[at - 1].future \in Future
  BY <1>1, ReturnedPath
<1>3. UNCHANGED <<op, outcome, phase>> /\ at' = at - 1 /\ answer' = "None"
  BY DEF Continue
<1>4. PICK next \in Future :
        /\ Tree[live[at - 1].future].op \in {"AndThen", "ContinueWith", "Sequence"}
        /\ submitted' = submitted \o Built[next]
        /\ live' \in Seq(Frame)
        /\ \A i \in 1..at - 2 : live'[i] = live[i]
        /\ IF Tree[live[at - 1].future].op = "Sequence"
             THEN Len(live') = at - 1 /\ live'[at - 1] = Unpolled(next)
             ELSE /\ Len(live') = at /\ live'[at] = Unpolled(next)
                  /\ live'[at - 1] = [future |-> live[at - 1].future, stage |-> "Second"]
  BY ContinuePath
<1>5. submitted' \in Seq(Transfers)
  BY <1>4, BuiltDefined, ConcatProperties DEF TypeInv
<1>6. Len(live') \in Nat /\ Len(live') # 0 /\ at - 1 \in 1..Len(live')
  BY <1>2, <1>4
<1>7. TypeInv'
  BY <1>3, <1>4, <1>5, <1>6 DEF TypeInv
<1>8. live' # <<>>
  BY <1>6, EmptySeq
<1>9. ASSUME NEW i \in 1..Len(live')
      PROVE  /\ i < Len(live') => /\ live'[i].stage # "Start"
                                  /\ Tree[live'[i].future].op \in Combinators
             /\ i = Len(live') => live'[i].stage = "Start"
             /\ live'[i].stage = "Second" => Tree[live'[i].future].op \in {"AndThen", "ContinueWith"}
  <2>1. CASE i \in 1..at - 2
    <3>1. live'[i] = live[i] /\ i \in 1..Len(live) /\ i < Len(live) /\ i < Len(live')
      BY <1>2, <1>4, <2>1
    <3> QED BY <3>1 DEF PathInv
  <2>2. CASE i = at - 1
    <3>1. CASE Tree[live[at - 1].future].op = "Sequence"
      BY <1>4, <2>2, <3>1 DEF Unpolled
    <3>2. CASE Tree[live[at - 1].future].op # "Sequence"
      <4>1. /\ Tree[live[at - 1].future].op \in {"AndThen", "ContinueWith"}
            /\ Len(live') = at
            /\ live'[i] = [future |-> live[at - 1].future, stage |-> "Second"]
        BY <1>4, <2>2, <3>2
      <4>2. live'[i].stage = "Second" /\ live'[i].future = live[at - 1].future
        BY <4>1
      <4>3. i < Len(live')
        BY <1>2, <2>2, <4>1
      <4> QED BY <4>1, <4>2, <4>3 DEF Combinators
    <3> QED BY <3>1, <3>2
  <2>3. CASE i = at
    <3>1. Len(live') = at /\ live'[i] = Unpolled(next)
      BY <1>2, <1>4, <2>3
    <3> QED BY <2>3, <3>1 DEF Unpolled
  <2> QED BY <1>2, <1>4, <2>1, <2>2, <2>3
<1>10. answer' \notin Results /\ at' # 0
  BY <1>2, <1>3, ResultsAssumption
<1> QED BY <1>2, <1>3, <1>7, <1>8, <1>9, <1>10 DEF PathInv

\* The path loses its last future, whose value is now that of the one before.
LEMMA ReturnReadyPath ==
  ASSUME TypeInv, PathInv, ReturnReady
  PROVE  /\ live' \in Seq(Frame) /\ Len(live') = at - 1
         /\ \A i \in 1..at - 1 : live'[i] = live[i]
         /\ answer' = IF Tree[live[at - 1].future].op = "Map"
                        THEN Tree[live[at - 1].future].to[answer] ELSE answer
         /\ answer' \in Results
<1>1. Returned /\ answer # "Pending"
  BY DEF ReturnReady
<1>2. at - 1 \in 0..Len(live) /\ answer \in Results /\ live[at - 1].future \in Future
  BY <1>1, ReturnedPath
<1>3. live \in Seq(Frame) /\ live' = SubSeq(live, 1, at - 1)
  BY DEF ReturnReady, TypeInv
<1>4. live' \in Seq(Frame) /\ Len(live') = at - 1 /\ \A i \in 1..at - 1 : live'[i] = live[i]
  BY <1>2, <1>3, Cut
<1>5. answer' = IF Tree[live[at - 1].future].op = "Map"
                  THEN Tree[live[at - 1].future].to[answer] ELSE answer
  BY DEF ReturnReady, Node
<1> QED BY <1>2, <1>4, <1>5, TreeShape

LEMMA ReturnReadyStep ==
  ASSUME TypeInv, PathInv, ReturnReady
  PROVE  TypeInv' /\ PathInv'
<1>1. Returned /\ answer # "Pending"
  BY DEF ReturnReady
<1>2. at = Len(live) /\ at \in Nat /\ at > 1 /\ phase \notin {"New", "Done", "Dropped"}
  BY <1>1, ReturnedPath
<1>3. UNCHANGED <<op, outcome, phase, submitted>> /\ at' = at - 1
  BY DEF ReturnReady
<1>4. /\ live' \in Seq(Frame) /\ Len(live') = at - 1
      /\ \A i \in 1..at - 1 : live'[i] = live[i]
      /\ answer' \in Results
  BY ReturnReadyPath
<1>5. TypeInv'
  BY <1>2, <1>3, <1>4 DEF TypeInv
<1>6. live' # <<>>
  BY <1>2, <1>4, EmptySeq
<1>7. \A i \in 1..at - 1 : i \in 1..Len(live) /\ i < Len(live) /\ live'[i] = live[i]
  BY <1>2, <1>4
<1>8. at' # 0
  BY <1>2, <1>3
<1> QED BY <1>2, <1>3, <1>4, <1>5, <1>6, <1>7, <1>8 DEF PathInv

LEMMA DropStep ==
  ASSUME TypeInv, PathInv, Drop
  PROVE  TypeInv' /\ PathInv'
<1>1. UNCHANGED <<op, outcome, at, answer, submitted>> /\ live' = <<>> /\ phase' = "Dropped" /\ at = 0
  BY DEF Drop
<1>2. answer = "None"
  BY DEF Drop, PathInv
<1>3. live' \in Seq(Frame) /\ Len(live') = 0
  BY <1>1, EmptySeq
<1>4. TypeInv'
  BY <1>1, <1>2, <1>3 DEF TypeInv
<1>5. \A i \in 1..Len(live') : FALSE
  BY <1>3
<1> QED BY <1>1, <1>2, <1>4, <1>5, ResultsAssumption DEF PathInv

LEMMA PathStep == TypeInv /\ PathInv /\ [Next]_vars => TypeInv' /\ PathInv'
<1> SUFFICES ASSUME TypeInv, PathInv, [Next]_vars PROVE TypeInv' /\ PathInv'
  OBVIOUS
<1>1. CASE Begin
  BY <1>1, BeginStep
<1>2. CASE Continue
  BY <1>2, ContinueStep
<1>3. CASE ReturnReady
  BY <1>3, ReturnReadyStep
<1>4. CASE Drop
  BY <1>4, DropStep
<1>5. CASE UNCHANGED vars
  BY <1>5 DEF vars, TypeInv, PathInv
<1> QED BY <1>1, <1>2, <1>3, <1>4, <1>5, StandingStep DEF Next, Running, Ended

-----------------------------------------------------------------------------
(* Awaiting does what waiting does *)

\* What was submitted before, and then that.
After(before, report) == [submits |-> before \o report.submits, value |-> report.value]

LEMMA AfterType ==
  ASSUME NEW before \in Seq(Transfers), NEW report \in Report
  PROVE  After(before, report) \in Report
<1>1. before \o report.submits \in Seq(Transfers)
  BY ConcatProperties DEF Report
<1> QED BY <1>1 DEF After, Report

LEMMA AfterAfter ==
  ASSUME NEW before \in Seq(Transfers), NEW then \in Seq(Transfers), NEW report \in Report
  PROVE  After(before, After(then, report)) = After(before \o then, report)
<1>1. before \o (then \o report.submits) = (before \o then) \o report.submits
  BY ConcatAssociative DEF Report
<1> QED BY <1>1 DEF After

LEMMA ThreeLists ==
  \A a, b, c \in Seq(Transfers) : (a \o b) \o c = a \o (b \o c)
BY ConcatAssociative

LEMMA FourLists ==
  ASSUME NEW a \in Seq(Transfers), NEW b \in Seq(Transfers),
         NEW c \in Seq(Transfers), NEW d \in Seq(Transfers)
  PROVE  ((a \o b) \o c) \o d = a \o ((b \o c) \o d)
<1>1. (a \o b) \o c = a \o (b \o c)
  BY ThreeLists
<1>2. b \o c \in Seq(Transfers)
  BY ConcatProperties
<1>3. (a \o (b \o c)) \o d = a \o ((b \o c) \o d)
  BY <1>2, ThreeLists, Zenon
<1> QED BY <1>1, <1>3, Zenon

\* How a combinator goes on does not depend on what was submitted before.
LEMMA ThenWaitAfter ==
  ASSUME NEW f \in Future, Tree[f].op \in Combinators, NEW before \in Seq(Transfers),
         NEW first \in Report, NEW waiting \in [Future -> Report]
  PROVE  ThenWait(Tree[f], After(before, first), waiting)
           = After(before, ThenWait(Tree[f], first, waiting))
<1> DEFINE next == Tree[f].next[first.value]
<1>1. first.submits \in Seq(Transfers) /\ first.value \in Results
  BY DEF Report
<1>2. CASE Tree[f].op = "Either" \/ (Tree[f].op \in {"AndThen", "Sequence"} /\ first.value = "Err")
  BY <1>2 DEF ThenWait, After
<1>3. CASE Tree[f].op = "Map"
  BY <1>3 DEF ThenWait, After
<1>4. CASE /\ Tree[f].op \in {"AndThen", "ContinueWith", "Sequence"}
           /\ ~(Tree[f].op \in {"AndThen", "Sequence"} /\ first.value = "Err")
  <2>1. waiting[next].submits \in Seq(Transfers) /\ Built[next] \in Seq(Transfers)
    <3>1. next \in Future
      BY <1>1, <1>4, TreeShape
    <3>2. waiting[next] \in Report /\ Built[next] \in Seq(Transfers)
      BY <3>1, BuiltDefined
    <3> HIDE DEF next
    <3> QED BY <3>2 DEF Report
  <2>2. ((before \o first.submits) \o Built[next]) \o waiting[next].submits
          = before \o ((first.submits \o Built[next]) \o waiting[next].submits)
    <3>1. \A b, c, d \in Seq(Transfers) :
            ((before \o b) \o c) \o d = before \o ((b \o c) \o d)
      BY FourLists
    <3> HIDE DEF next
    <3> QED BY <1>1, <2>1, <3>1, Zenon
  <2> DEFINE mine == (first.submits \o Built[next]) \o waiting[next].submits
             all  == ((before \o first.submits) \o Built[next]) \o waiting[next].submits
  <2>3. ThenWait(Tree[f], first, waiting) = [submits |-> mine, value |-> waiting[next].value]
    BY <1>4 DEF ThenWait
  <2>4. /\ After(before, first).value = first.value
        /\ After(before, first).submits = before \o first.submits
    BY DEF After
  <2>5. ThenWait(Tree[f], After(before, first), waiting)
          = [submits |-> all, value |-> waiting[next].value]
    BY <1>4, <2>4 DEF ThenWait
  <2>6. all = before \o mine
    BY <2>2
  <2> HIDE DEF next, mine, all
  <2> QED BY <2>3, <2>5, <2>6 DEF After
<1> QED BY <1>2, <1>3, <1>4 DEF Combinators

\* One list of transfers begins another.
Begins(s, t) == \E u \in Seq(Transfers) : t = s \o u

LEMMA ThenWaitExtends ==
  ASSUME NEW f \in Future, Tree[f].op \in Combinators, NEW s \in Seq(Transfers),
         NEW first \in Report, Begins(s, first.submits), NEW waiting \in [Future -> Report]
  PROVE  Begins(s, ThenWait(Tree[f], first, waiting).submits)
<1>1. PICK u \in Seq(Transfers) : first.submits = s \o u
  BY DEF Begins
<1> DEFINE rest == [submits |-> u, value |-> first.value]
<1>2. rest \in Report /\ first = After(s, rest)
  BY <1>1 DEF Report, After
<1> HIDE DEF rest
<1>3. ThenWait(Tree[f], first, waiting) = After(s, ThenWait(Tree[f], rest, waiting))
  BY <1>2, ThenWaitAfter
<1>4. ThenWait(Tree[f], rest, waiting) \in Report
  BY <1>2, ThenWaitType
<1> DEFINE then == ThenWait(Tree[f], rest, waiting)
<1>5. then.submits \in Seq(Transfers)
  BY <1>4 DEF Report
<1>6. ThenWait(Tree[f], first, waiting).submits = s \o then.submits
  BY <1>3 DEF After
<1> QED BY <1>5, <1>6 DEF Begins

\* Waiting depends on the outcome only, which does not change.
LEMMA WaitingStands ==
  ASSUME outcome' = outcome
  PROVE  Waiting' = Waiting
BY DEF Waiting

\* What a combinator that holds a part will have done, given what that will.
Resume(frame, rest, waiting) ==
  IF frame.stage = "Second" THEN rest ELSE ThenWait(Tree[frame.future], rest, waiting)

\* e tells, of every future of a path, what the operation will have submitted
\* when it ends, and its value, if the last one ends with `rest`.
Foretells(e, path, rest, waiting) ==
  /\ e \in [1..Len(path) -> Report]
  /\ e[Len(path)] = rest
  /\ \A i \in 1..Len(path) - 1 : e[i] = Resume(path[i], e[i + 1], waiting)

\* With what the last future of the path ends.
Remaining ==
  IF answer \in Results
    THEN [submits |-> submitted, value |-> answer]
    ELSE After(submitted, Waiting[live[Len(live)].future])

\* At any time, what was done and what is left make up what waiting does.
AwaitInv ==
  /\ phase = "Dropped" => Begins(submitted, Wait(op).submits)
  /\ phase # "Dropped" => \E e : e[1] = Wait(op) /\ Foretells(e, live, Remaining, Waiting)

\* A first part is polled for the first time.
LEMMA ForetellsBegin ==
  ASSUME NEW p \in Seq(Frame), NEW q \in Seq(Frame), NEW n \in Nat \ {0},
         Len(p) = n, Len(q) = n + 1, \A i \in 1..n - 1 : q[i] = p[i], q[n].stage = "First",
         NEW rest \in Report, NEW more \in Report, NEW waiting,
         rest = ThenWait(Tree[q[n].future], more, waiting),
         NEW e, Foretells(e, p, rest, waiting)
  PROVE  \E d : d[1] = e[1] /\ Foretells(d, q, more, waiting)
<1> DEFINE d == [i \in 1..n + 1 |-> IF i = n + 1 THEN more ELSE e[i]]
<1>1. /\ e \in [1..n -> Report] /\ e[n] = rest
      /\ \A i \in 1..n - 1 : e[i] = Resume(p[i], e[i + 1], waiting)
  BY DEF Foretells
<1>2. d \in [1..n + 1 -> Report] /\ d[1] = e[1] /\ d[n + 1] = more /\ \A i \in 1..n : d[i] = e[i]
  BY <1>1
<1> HIDE DEF d
<1>3. ASSUME NEW i \in 1..n PROVE d[i] = Resume(q[i], d[i + 1], waiting)
  <2>1. CASE i = n
    BY <1>1, <1>2, <2>1 DEF Resume
  <2>2. CASE i # n
    <3>1. i \in 1..n - 1 /\ i + 1 \in 1..n
      BY <2>2
    <3>2. d[i] = e[i] /\ d[i + 1] = e[i + 1] /\ q[i] = p[i]
      BY <1>2, <3>1
    <3> QED BY <1>1, <3>1, <3>2
  <2> QED BY <2>1, <2>2
<1>4. \A i \in 1..n + 1 - 1 : d[i] = Resume(q[i], d[i + 1], waiting)
  BY <1>3
<1> QED BY <1>2, <1>4 DEF Foretells

\* A second part takes the place of the first.
LEMMA ForetellsSecond ==
  ASSUME NEW p \in Seq(Frame), NEW q \in Seq(Frame), NEW n \in Nat, n > 1,
         Len(p) = n, Len(q) = n, \A i \in 1..n - 2 : q[i] = p[i], q[n - 1].stage = "Second",
         NEW rest \in Report, NEW more \in Report, NEW waiting,
         more = Resume(p[n - 1], rest, waiting),
         NEW e, Foretells(e, p, rest, waiting)
  PROVE  \E d : d[1] = e[1] /\ Foretells(d, q, more, waiting)
<1> DEFINE d == [i \in 1..n |-> IF i = n THEN more ELSE e[i]]
<1>1. /\ e \in [1..n -> Report] /\ e[n] = rest
      /\ \A i \in 1..n - 1 : e[i] = Resume(p[i], e[i + 1], waiting)
  BY DEF Foretells
<1>2. d \in [1..n -> Report] /\ d[1] = e[1] /\ d[n] = more /\ \A i \in 1..n - 1 : d[i] = e[i]
  BY <1>1
<1> HIDE DEF d
<1>3. e[n - 1] = more
  <2>1. n - 1 \in 1..n - 1 /\ n - 1 + 1 = n
    OBVIOUS
  <2> QED BY <1>1, <2>1
<1>4. ASSUME NEW i \in 1..n - 1 PROVE d[i] = Resume(q[i], d[i + 1], waiting)
  <2>1. CASE i = n - 1
    <3>1. d[i] = more /\ d[i + 1] = more
      BY <1>2, <1>3, <2>1
    <3> QED BY <2>1, <3>1 DEF Resume
  <2>2. CASE i # n - 1
    <3>1. i \in 1..n - 2 /\ i + 1 \in 1..n - 1
      BY <2>2
    <3>2. d[i] = e[i] /\ d[i + 1] = e[i + 1] /\ q[i] = p[i]
      BY <1>2, <3>1
    <3> QED BY <1>1, <3>1, <3>2
  <2> QED BY <2>1, <2>2
<1> QED BY <1>2, <1>4 DEF Foretells

\* The last future has ended, and the one before it is now the last.
LEMMA ForetellsCut ==
  ASSUME NEW p \in Seq(Frame), NEW q \in Seq(Frame), NEW n \in Nat, n > 1,
         Len(p) = n, Len(q) = n - 1, \A i \in 1..n - 2 : q[i] = p[i],
         NEW rest \in Report, NEW more \in Report, NEW waiting,
         more = Resume(p[n - 1], rest, waiting),
         NEW e, Foretells(e, p, rest, waiting)
  PROVE  \E d : d[1] = e[1] /\ Foretells(d, q, more, waiting)
<1> DEFINE d == [i \in 1..n - 1 |-> e[i]]
<1>1. /\ e \in [1..n -> Report] /\ e[n] = rest
      /\ \A i \in 1..n - 1 : e[i] = Resume(p[i], e[i + 1], waiting)
  BY DEF Foretells
<1>2. d \in [1..n - 1 -> Report] /\ d[1] = e[1] /\ \A i \in 1..n - 1 : d[i] = e[i]
  BY <1>1
<1> HIDE DEF d
<1>3. e[n - 1] = more
  <2>1. n - 1 \in 1..n - 1 /\ n - 1 + 1 = n
    OBVIOUS
  <2> QED BY <1>1, <2>1
<1>4. ASSUME NEW i \in 1..n - 2 PROVE d[i] = Resume(q[i], d[i + 1], waiting)
  <2>1. i \in 1..n - 1 /\ i + 1 \in 1..n - 1
    OBVIOUS
  <2>2. d[i] = e[i] /\ d[i + 1] = e[i + 1] /\ q[i] = p[i]
    BY <1>2, <2>1
  <2> QED BY <1>1, <2>1, <2>2
<1>5. d[n - 1] = more
  BY <1>2, <1>3
<1>6. \A i \in 1..n - 1 - 1 : d[i] = Resume(q[i], d[i + 1], waiting)
  <2>1. n - 1 - 1 = n - 2
    OBVIOUS
  <2> QED BY <1>4, <2>1
<1>7. Foretells(d, q, more, waiting)
  BY <1>2, <1>5, <1>6 DEF Foretells
<1> QED BY <1>2, <1>7

LEMMA WaitType ==
  ASSUME TypeInv
  PROVE  /\ Waiting \in [Future -> Report] /\ \A f \in Future : Waiting[f] = WaitingOf(f, Waiting)
         /\ Wait(op) \in Report /\ Wait(op) = After(Built[op], Waiting[op])
<1>1. outcome \in [Transfers -> Results] /\ op \in Future
  BY DEF TypeInv
<1>2. Waiting \in [Future -> Report] /\ \A f \in Future : Waiting[f] = WaitingOf(f, Waiting)
  BY <1>1, WaitingDefined
<1>3. Waiting[op] \in Report /\ Built[op] \in Seq(Transfers)
  BY <1>1, <1>2, BuiltDefined
<1>4. Wait(op) = After(Built[op], Waiting[op])
  BY DEF Wait, After
<1> QED BY <1>2, <1>3, <1>4, AfterType

LEMMA RemainingType ==
  ASSUME TypeInv, PathInv, phase # "Dropped"
  PROVE  Remaining \in Report
<1>1. CASE answer \in Results
  BY <1>1 DEF Remaining, TypeInv, Report
<1>2. CASE answer \notin Results
  <2>1. Len(live) \in 1..Len(live)
    BY EmptySeq, LenProperties DEF TypeInv, PathInv
  <2>2. live[Len(live)].future \in Future
    BY <2>1, FrameType DEF TypeInv
  <2>3. Waiting[live[Len(live)].future] \in Report
    BY <2>2, WaitType
  <2>4. Remaining = After(submitted, Waiting[live[Len(live)].future])
    BY <1>2 DEF Remaining
  <2> QED BY <2>3, <2>4, AfterType DEF TypeInv
<1> QED BY <1>1, <1>2

LEMMA InitAwait == Init => AwaitInv
<1> SUFFICES ASSUME Init PROVE AwaitInv
  OBVIOUS
<1>1. TypeInv /\ phase = "New" /\ answer \notin Results
  BY InitPath, ResultsAssumption DEF Init
<1>2. Len(live) = 1 /\ live[Len(live)].future = op /\ submitted = Built[op]
  BY DEF Init, Unpolled
<1>3. Remaining = Wait(op) /\ Wait(op) \in Report
  BY <1>1, <1>2, WaitType DEF Remaining
<1> DEFINE e == [i \in 1..1 |-> Wait(op)]
<1>4. e \in [1..1 -> Report] /\ e[1] = Wait(op)
  BY <1>3
<1> HIDE DEF e
<1>5. Foretells(e, live, Remaining, Waiting)
  BY <1>2, <1>3, <1>4 DEF Foretells
<1> QED BY <1>1, <1>4, <1>5 DEF AwaitInv

\* What waiting would do does not change.
LEMMA WaitStands ==
  ASSUME op' = op, outcome' = outcome
  PROVE  Wait(op)' = Wait(op) /\ Waiting' = Waiting
<1>1. Waiting' = Waiting
  BY WaitingStands
<1> QED BY <1>1 DEF Wait

\* Steps that leave the path alone.
LEMMA AwaitStands ==
  ASSUME AwaitInv, UNCHANGED <<op, outcome, live>>, phase # "Dropped", phase' # "Dropped",
         Remaining' = Remaining
  PROVE  AwaitInv'
<1>1. Wait(op)' = Wait(op) /\ Waiting' = Waiting
  BY WaitStands
<1>2. PICK e : e[1] = Wait(op) /\ Foretells(e, live, Remaining, Waiting)
  BY DEF AwaitInv
<1>3. Foretells(e, live', Remaining', Waiting')
  BY <1>1, <1>2
<1> QED BY <1>1, <1>2, <1>3 DEF AwaitInv

LEMMA StandingAwait ==
  ASSUME TypeInv, PathInv, AwaitInv,
         \/ Poll \/ Descend \/ PollLeaf \/ ReturnPending \/ EndPoll
         \/ \E id \in Transfers : Complete(id)
  PROVE  AwaitInv'
<1>1. UNCHANGED <<op, outcome, live, submitted>>
  BY DEF Poll, Descend, PollLeaf, ReturnPending, EndPoll, Complete
<1>2. phase # "Dropped" /\ phase' # "Dropped"
  <2>1. Len(live) \in Nat /\ (phase = "Dropped" => at = 0)
    BY EmptySeq, LenProperties DEF TypeInv, PathInv
  <2> QED BY <2>1 DEF Poll, Descend, PollLeaf, ReturnPending, Returned, EndPoll, Complete
<1>3. Waiting' = Waiting
  BY <1>1, WaitingStands
<1>4. CASE \/ Poll \/ Descend \/ ReturnPending \/ EndPoll \/ \E id \in Transfers : Complete(id)
  <2>1. answer' \in Results <=> answer \in Results
    BY <1>4, ResultsAssumption DEF Poll, Descend, ReturnPending, EndPoll, Complete
  <2>2. answer \in Results => answer' = answer
    BY <1>4, ResultsAssumption DEF Poll, Descend, ReturnPending, EndPoll, Complete
  <2>3. Remaining' = Remaining
    BY <1>1, <1>3, <2>1, <2>2 DEF Remaining
  <2> QED BY <1>1, <1>2, <2>3, AwaitStands
<1>5. CASE PollLeaf
  <2> DEFINE f == live[Len(live)].future
  <2>1. at = Len(live) /\ at \in 1..Len(live) /\ answer \notin Results
    BY <1>5, LenProperties, ResultsAssumption DEF PollLeaf, TypeInv
  <2>2. f \in Future /\ Node(at) = Tree[f]
    BY <2>1, FrameType DEF TypeInv, Node
  <2>3. Remaining = After(submitted, Waiting[f]) /\ Waiting[f] = WaitingOf(f, Waiting)
    BY <2>1, <2>2, WaitType DEF Remaining
  <2>4. CASE answer' \in Results
    <3>1. /\ Tree[f].op \in {"Ready", "Transfer"}
          /\ Tree[f].op = "Ready" => answer' = Tree[f].value
          /\ Tree[f].op = "Transfer" => answer' = outcome[Tree[f].id]
      BY <1>5, <2>2, <2>4, ResultsAssumption DEF PollLeaf
    <3>2. WaitingOf(f, Waiting) = [submits |-> <<>>, value |-> answer']
      BY <3>1 DEF WaitingOf
    <3>3. submitted \o <<>> = submitted
      BY ConcatEmptySeq DEF TypeInv
    <3>4. Remaining = [submits |-> submitted, value |-> answer']
      BY <2>3, <3>2, <3>3 DEF After
    <3>5. Remaining' = [submits |-> submitted', value |-> answer']
      BY <2>4 DEF Remaining
    <3>6. Remaining' = Remaining
      BY <1>1, <3>4, <3>5
    <3> QED BY <1>1, <1>2, <3>6, AwaitStands
  <2>5. CASE answer' \notin Results
    <3>1. Remaining' = Remaining
      BY <1>1, <1>3, <2>1, <2>5 DEF Remaining
    <3> QED BY <1>1, <1>2, <3>1, AwaitStands
  <2> QED BY <2>4, <2>5
<1> QED BY <1>4, <1>5

LEMMA BeginAwait ==
  ASSUME TypeInv, PathInv, AwaitInv, Begin
  PROVE  AwaitInv'
<1> DEFINE f == live[at].future
           first == Tree[f].first
           more == After(submitted', Waiting[first])
<1>1. /\ at = Len(live) /\ at \in Nat \ {0} /\ answer = "None"
      /\ f \in Future /\ Tree[f].op \in Combinators /\ first \in Future
      /\ live' \in Seq(Frame) /\ Len(live') = at + 1
      /\ \A i \in 1..at - 1 : live'[i] = live[i]
      /\ live'[at] = [future |-> f, stage |-> "First"]
      /\ live'[at + 1] = Unpolled(first)
  <2>1. at \in Nat \ {0}
    BY BeginPath, LenProperties DEF TypeInv
  <2> QED BY <2>1, BeginPath, TreeShape
<1>2. UNCHANGED <<op, outcome, phase, answer>> /\ submitted' = submitted \o BuiltLate(Tree[f])
  BY DEF Begin, Node
<1>3. phase # "Dropped" /\ phase' # "Dropped"
  BY <1>1, <1>2, EmptySeq DEF PathInv
<1>4. Wait(op)' = Wait(op) /\ Waiting' = Waiting
  BY <1>2, WaitStands
<1>5. /\ Waiting \in [Future -> Report] /\ Waiting[first] \in Report
      /\ BuiltLate(Tree[f]) \in Seq(Transfers) /\ submitted \in Seq(Transfers)
  BY <1>1, WaitType, LateType DEF TypeInv
<1>6. more \in Report
  <2>1. submitted' \in Seq(Transfers)
    BY <1>2, <1>5, ConcatProperties
  <2> QED BY <1>5, <2>1, AfterType
<1>7. Remaining' = more
  BY <1>1, <1>2, <1>4, ResultsAssumption DEF Remaining, Unpolled
<1>8. Remaining = ThenWait(Tree[f], more, Waiting)
  <2>1. FirstWait(f, Waiting) = After(BuiltLate(Tree[f]), Waiting[first])
    BY DEF FirstWait, After
  <2>2. FirstWait(f, Waiting) \in Report
    BY <1>5, <2>1, AfterType
  <2>3. After(submitted, FirstWait(f, Waiting)) = more
    BY <1>2, <1>5, <2>1, AfterAfter
  <2>4. Waiting[f] = ThenWait(Tree[f], FirstWait(f, Waiting), Waiting)
    BY <1>1, WaitType DEF WaitingOf, Combinators
  <2>5. Remaining = After(submitted, Waiting[f])
    BY <1>1, ResultsAssumption DEF Remaining
  <2> HIDE DEF more
  <2> QED BY <1>1, <1>5, <2>2, <2>3, <2>4, <2>5, ThenWaitAfter
<1>9. PICK e : e[1] = Wait(op) /\ Foretells(e, live, Remaining, Waiting)
  BY <1>3 DEF AwaitInv
<1>10. Remaining \in Report /\ live \in Seq(Frame)
  BY <1>3, RemainingType DEF TypeInv
<1> HIDE DEF more
<1>11. live'[at].stage = "First" /\ live'[at].future = f
  BY <1>1
<1>12. \E d : d[1] = e[1] /\ Foretells(d, live', more, Waiting)
  BY <1>1, <1>6, <1>8, <1>9, <1>10, <1>11, ForetellsBegin
<1> QED BY <1>3, <1>4, <1>7, <1>9, <1>12 DEF AwaitInv

LEMMA ContinueAwait ==
  ASSUME TypeInv, PathInv, AwaitInv, Continue
  PROVE  AwaitInv'
<1> DEFINE frame == live[at - 1]
           node  == Tree[frame.future]
<1>1. Returned /\ answer # "Pending"
  BY DEF Continue
<1>2. /\ at = Len(live) /\ at \in Nat /\ at > 1 /\ phase \notin {"New", "Done", "Dropped"}
      /\ answer \in Results /\ frame.future \in Future
  BY <1>1, ReturnedPath
<1>3. UNCHANGED <<op, outcome, phase>> /\ at' = at - 1 /\ answer' = "None"
  BY DEF Continue
<1>4. PICK next \in Future :
        /\ frame.stage = "First"
        /\ node.op \in {"AndThen", "ContinueWith", "Sequence"}
        /\ node.op \in {"AndThen", "Sequence"} => answer # "Err"
        /\ next = node.next[answer]
        /\ submitted' = submitted \o Built[next]
        /\ live' \in Seq(Frame)
        /\ \A i \in 1..at - 2 : live'[i] = live[i]
        /\ node.op = "Sequence" =>
             Len(live') = at - 1 /\ live'[at - 1] = Unpolled(next)
        /\ node.op # "Sequence" =>
             /\ Len(live') = at /\ live'[at] = Unpolled(next)
             /\ live'[at - 1] = [future |-> frame.future, stage |-> "Second"]
  BY ContinuePath
<1>5. node.op = "Sequence" =>
        Len(live') = at - 1 /\ live'[at - 1] = Unpolled(next)
  BY <1>4, Zenon
<1>6. node.op # "Sequence" =>
        /\ Len(live') = at /\ live'[at] = Unpolled(next)
        /\ live'[at - 1] = [future |-> frame.future, stage |-> "Second"]
  BY <1>4, Zenon
<1>7. live' \in Seq(Frame) /\ \A i \in 1..at - 2 : live'[i] = live[i]
  BY <1>4, Zenon
<1> DEFINE more == After(submitted', Waiting[next])
<1>8. Wait(op)' = Wait(op) /\ Waiting' = Waiting
  BY <1>3, WaitStands
<1>9. Waiting \in [Future -> Report] /\ Waiting[next] \in Report
  BY WaitType
<1>10. more \in Report
  <2>1. submitted' \in Seq(Transfers)
    BY <1>4, BuiltDefined, ConcatProperties DEF TypeInv
  <2> QED BY <1>9, <2>1, AfterType
<1>11. Remaining' = more
  <2>1. live'[Len(live')].future = next
    BY <1>5, <1>6 DEF Unpolled
  <2> QED BY <1>3, <1>8, <2>1, ResultsAssumption DEF Remaining
<1>12. Remaining = [submits |-> submitted, value |-> answer]
  BY <1>2 DEF Remaining
<1>13. more = Resume(frame, Remaining, Waiting)
  <2>1. Resume(frame, Remaining, Waiting) = ThenWait(node, Remaining, Waiting)
    BY <1>4 DEF Resume
  <2>2. Remaining.value = answer /\ Remaining.submits = submitted
    BY <1>12
  <2>3. ThenWait(node, Remaining, Waiting)
          = [submits |-> submitted \o Built[next] \o Waiting[next].submits,
             value   |-> Waiting[next].value]
    BY <1>4, <2>2 DEF ThenWait
  <2> QED BY <1>4, <2>1, <2>3 DEF After
<1>14. PICK e : e[1] = Wait(op) /\ Foretells(e, live, Remaining, Waiting)
  BY <1>2 DEF AwaitInv
<1>15. Remaining \in Report /\ live \in Seq(Frame)
  BY <1>2, RemainingType DEF TypeInv
<1> HIDE DEF more
<1>16. CASE node.op = "Sequence"
  <2>1. Len(live') = at - 1
    BY <1>5, <1>16
  <2>2. \E d : d[1] = e[1] /\ Foretells(d, live', more, Waiting)
    BY <1>2, <1>7, <1>10, <1>13, <1>14, <1>15, <2>1, ForetellsCut
  <2> QED BY <1>2, <1>3, <1>8, <1>11, <1>14, <2>2 DEF AwaitInv
<1>17. CASE node.op # "Sequence"
  <2>1. Len(live') = at /\ live'[at - 1].stage = "Second"
    BY <1>6, <1>17
  <2>2. \E d : d[1] = e[1] /\ Foretells(d, live', more, Waiting)
    <3>1. at \in Nat /\ at > 1 /\ Len(live) = at
      BY <1>2
    <3>2. Foretells(e, live, Remaining, Waiting)
      BY <1>14
    <3> QED BY <1>7, <1>10, <1>13, <1>15, <2>1, <3>1, <3>2, ForetellsSecond
  <2> QED BY <1>2, <1>3, <1>8, <1>11, <1>14, <2>2 DEF AwaitInv
<1> QED BY <1>16, <1>17

LEMMA ReturnReadyAwait ==
  ASSUME TypeInv, PathInv, AwaitInv, ReturnReady
  PROVE  AwaitInv'
<1> DEFINE frame == live[at - 1]
           node  == Tree[frame.future]
           more  == [submits |-> submitted, value |-> answer']
<1>1. Returned /\ answer # "Pending" /\ OnwardFrom(frame, answer) = {}
  BY DEF ReturnReady
<1>2. /\ at = Len(live) /\ at \in Nat /\ at > 1 /\ phase \notin {"New", "Done", "Dropped"}
      /\ answer \in Results /\ frame \in Frame /\ frame.stage # "Start" /\ node.op \in Combinators
      /\ at - 1 \in 1..Len(live)
  BY <1>1, ReturnedPath
<1>3. UNCHANGED <<op, outcome, phase, submitted>>
  BY DEF ReturnReady
<1>4. /\ live' \in Seq(Frame) /\ Len(live') = at - 1
      /\ \A i \in 1..at - 1 : live'[i] = live[i]
      /\ answer' = IF node.op = "Map" THEN node.to[answer] ELSE answer
      /\ answer' \in Results
  BY ReturnReadyPath
<1>5. Wait(op)' = Wait(op) /\ Waiting' = Waiting
  BY <1>3, WaitStands
<1>6. more \in Report /\ Remaining' = more
  BY <1>3, <1>4 DEF Remaining, Report, TypeInv
<1>7. Remaining = [submits |-> submitted, value |-> answer]
  BY <1>2 DEF Remaining
<1>8. more = Resume(frame, Remaining, Waiting)
  <2>1. CASE frame.stage = "Second"
    <3>1. node.op # "Map"
      BY <1>2, <2>1 DEF PathInv
    <3> QED BY <1>4, <1>7, <2>1, <3>1 DEF Resume
  <2>2. CASE frame.stage # "Second"
    <3>1. Onward(node, answer) = {}
      BY <1>1, <1>2, <2>2 DEF OnwardFrom, Frame
    <3>2. \/ node.op \in {"Map", "Either"}
          \/ node.op \in {"AndThen", "Sequence"} /\ answer = "Err"
      BY <1>2, <3>1 DEF Onward, Combinators
    <3>3. Resume(frame, Remaining, Waiting) = ThenWait(node, Remaining, Waiting)
      BY <2>2 DEF Resume
    <3>4. Remaining.value = answer /\ Remaining.submits = submitted
      BY <1>7
    <3>5. CASE node.op = "Map"
      BY <1>4, <3>3, <3>4, <3>5 DEF ThenWait
    <3>6. CASE node.op # "Map"
      <4>1. ThenWait(node, Remaining, Waiting) = Remaining
        BY <3>2, <3>4, <3>6 DEF ThenWait
      <4> QED BY <1>4, <1>7, <3>3, <3>6, <4>1
    <3> QED BY <3>5, <3>6
  <2> QED BY <2>1, <2>2
<1>9. PICK e : e[1] = Wait(op) /\ Foretells(e, live, Remaining, Waiting)
  BY <1>2 DEF AwaitInv
<1>10. Remaining \in Report /\ live \in Seq(Frame)
  BY <1>2, RemainingType DEF TypeInv
<1> HIDE DEF more
<1>11. \A i \in 1..at - 2 : live'[i] = live[i]
  BY <1>2, <1>4
<1>12. \E d : d[1] = e[1] /\ Foretells(d, live', more, Waiting)
  BY <1>2, <1>4, <1>6, <1>8, <1>9, <1>10, <1>11, ForetellsCut
<1> QED BY <1>2, <1>3, <1>5, <1>6, <1>9, <1>12 DEF AwaitInv

\* What was submitted begins what the whole operation will have submitted.
LEMMA ForetellsExtends ==
  ASSUME TypeInv, PathInv, phase # "Dropped",
         NEW e, Foretells(e, live, Remaining, Waiting)
  PROVE  Begins(submitted, e[1].submits)
<1> DEFINE n == Len(live)
           T == {k \in 0..n - 1 : ~Begins(submitted, e[n - k].submits)}
<1>1. n \in Nat \ {0} /\ submitted \in Seq(Transfers)
  BY EmptySeq, LenProperties DEF TypeInv, PathInv
<1>2. /\ e \in [1..n -> Report] /\ e[n] = Remaining
      /\ \A i \in 1..n - 1 : e[i] = Resume(live[i], e[i + 1], Waiting)
  BY DEF Foretells
<1>3. Waiting \in [Future -> Report]
  BY WaitType
<1>4. Begins(submitted, Remaining.submits)
  <2>1. CASE answer \in Results
    <3>1. submitted = submitted \o <<>> /\ <<>> \in Seq(Transfers)
      BY <1>1, ConcatEmptySeq, EmptySeq
    <3>2. Remaining.submits = submitted
      BY <2>1 DEF Remaining
    <3> QED BY <3>1, <3>2 DEF Begins
  <2>2. CASE answer \notin Results
    <3>1. live[n].future \in Future
      BY <1>1, FrameType DEF TypeInv
    <3>2. Waiting[live[n].future].submits \in Seq(Transfers)
      BY <1>3, <3>1 DEF Report
    <3>3. Remaining.submits = submitted \o Waiting[live[n].future].submits
      BY <2>2 DEF Remaining, After
    <3> QED BY <3>2, <3>3 DEF Begins
  <2> QED BY <2>1, <2>2
<1>5. CASE T # {}
  <2>1. T \subseteq Nat
    BY <1>1
  <2> HIDE DEF T
  <2>2. PICK k \in T : \A j \in T : k <= j
    BY <1>5, <2>1, LeastNatural
  <2>3. k \in 0..n - 1 /\ ~Begins(submitted, e[n - k].submits)
    BY <2>2 DEF T
  <2>4. k # 0
    BY <1>1, <1>2, <1>4, <2>3
  <2>5. k - 1 \in 0..n - 1 /\ k - 1 \notin T
    BY <1>1, <2>2, <2>3, <2>4
  <2> DEFINE i == n - k
  <2>6. i \in 1..n - 1 /\ i + 1 = n - (k - 1) /\ i + 1 \in 1..n /\ i \in 1..n
    BY <1>1, <2>3, <2>4
  <2>7. Begins(submitted, e[i + 1].submits)
    BY <2>5, <2>6 DEF T
  <2>8. live[i].future \in Future /\ Tree[live[i].future].op \in Combinators
    <3>1. i < n
      BY <1>1, <2>6
    <3> QED BY <2>6, <3>1, FrameType DEF TypeInv, PathInv
  <2>9. e[i + 1] \in Report /\ e[i] = Resume(live[i], e[i + 1], Waiting)
    BY <1>2, <2>6
  <2> HIDE DEF i
  <2>10. Begins(submitted, e[i].submits)
    <3>1. CASE live[i].stage = "Second"
      BY <2>7, <2>9, <3>1 DEF Resume
    <3>2. CASE live[i].stage # "Second"
      <4>1. e[i] = ThenWait(Tree[live[i].future], e[i + 1], Waiting)
        BY <2>9, <3>2 DEF Resume
      <4> QED BY <1>1, <1>3, <2>7, <2>8, <2>9, <4>1, ThenWaitExtends
    <3> QED BY <3>1, <3>2
  <2> QED BY <2>3, <2>10 DEF i
<1>6. CASE T = {}
  <2>1. n - 1 \in 0..n - 1 /\ n - (n - 1) = 1
    BY <1>1
  <2> QED BY <1>6, <2>1
<1> QED BY <1>5, <1>6

LEMMA DropAwait ==
  ASSUME TypeInv, PathInv, AwaitInv, Drop
  PROVE  AwaitInv'
<1>1. UNCHANGED <<op, outcome, submitted>> /\ phase # "Dropped" /\ phase' = "Dropped"
  BY DEF Drop
<1>2. Wait(op)' = Wait(op)
  BY <1>1, WaitStands
<1>3. Begins(submitted, Wait(op).submits)
  BY <1>1, ForetellsExtends DEF AwaitInv
<1> QED BY <1>1, <1>2, <1>3 DEF AwaitInv

LEMMA AwaitStep == TypeInv /\ PathInv /\ AwaitInv /\ [Next]_vars => AwaitInv'
<1> SUFFICES ASSUME TypeInv, PathInv, AwaitInv, [Next]_vars PROVE AwaitInv'
  OBVIOUS
<1>1. CASE Begin
  BY <1>1, BeginAwait
<1>2. CASE Continue
  BY <1>2, ContinueAwait
<1>3. CASE ReturnReady
  BY <1>3, ReturnReadyAwait
<1>4. CASE Drop
  BY <1>4, DropAwait
<1>5. CASE UNCHANGED vars
  <2>1. UNCHANGED <<op, outcome, phase, live, answer, submitted>>
    BY <1>5 DEF vars
  <2>2. Wait(op)' = Wait(op) /\ Waiting' = Waiting
    BY <2>1, WaitStands
  <2>3. Remaining' = Remaining
    BY <2>1, <2>2 DEF Remaining
  <2>4. CASE phase = "Dropped"
    BY <2>1, <2>2, <2>4 DEF AwaitInv
  <2>5. CASE phase # "Dropped"
    BY <2>1, <2>3, <2>5, AwaitStands
  <2> QED BY <2>4, <2>5
<1> QED BY <1>1, <1>2, <1>3, <1>4, <1>5, StandingAwait DEF Next, Running, Ended

LEMMA BeginsIsPrefix ==
  ASSUME NEW s \in Seq(Transfers), NEW t, Begins(s, t)
  PROVE  IsPrefix(s, t)
<1>1. PICK u \in Seq(Transfers) : t = s \o u
  BY DEF Begins
<1>2. Len(s) \in Nat /\ Len(u) \in Nat /\ Len(t) = Len(s) + Len(u)
  BY <1>1, ConcatProperties, LenProperties
<1>3. SubSeq(t, 1, Len(s)) = SubSeq(s, 1, Len(s))
  <2>1. CASE Len(s) = 0
    <3>1. SubSeq(t, 1, 0) = <<>> /\ SubSeq(s, 1, 0) = <<>>
      BY SubSeqEmpty
    <3> QED BY <2>1, <3>1
  <2>2. CASE Len(s) # 0
    <3>1. 1 \in 1..Len(s) /\ Len(s) \in 1..Len(s)
      BY <1>2, <2>2
    <3>2. SubSeq(s \o u, 1, Len(s)) = SubSeq(s, 1, Len(s))
      BY <3>1, SubSeqOfConcat1
    <3> QED BY <1>1, <3>2
  <2> QED BY <2>1, <2>2
<1> QED BY <1>2, <1>3 DEF IsPrefix

LEMMA AwaitInvSuffices == TypeInv /\ PathInv /\ AwaitInv => AwaitIsWait
<1> SUFFICES ASSUME TypeInv, PathInv, AwaitInv PROVE AwaitIsWait
  OBVIOUS
<1>1. Begins(submitted, Wait(op).submits)
  BY ForetellsExtends DEF AwaitInv
<1>2. IsPrefix(submitted, Wait(op).submits)
  BY <1>1, BeginsIsPrefix DEF TypeInv
<1>3. ASSUME phase = "Done"
      PROVE  submitted = Wait(op).submits /\ answer = Wait(op).value
  <2>1. Len(live) = 1 /\ answer \in Results
    BY <1>3 DEF PathInv
  <2>2. PICK e : e[1] = Wait(op) /\ Foretells(e, live, Remaining, Waiting)
    BY <1>3 DEF AwaitInv
  <2>3. Wait(op) = [submits |-> submitted, value |-> answer]
    BY <2>1, <2>2 DEF Foretells, Remaining
  <2> QED BY <2>3
<1> QED BY <1>2, <1>3 DEF AwaitIsWait

\* Awaiting an operation does what waiting for it does (maybe_future.rs:1): the
\* same transfers, in the same order, and the same result, in every tree of
\* combinators, for every answer of the radio and every order of polls and
\* answers; a future that is dropped has done a beginning of it.
THEOREM AwaitingIsWaiting == Spec => []AwaitIsWait
<1>1. Init => TypeInv /\ PathInv /\ AwaitInv
  BY InitPath, InitAwait
<1>2. TypeInv /\ PathInv /\ AwaitInv /\ [Next]_vars => TypeInv' /\ PathInv' /\ AwaitInv'
  BY PathStep, AwaitStep
<1> QED BY <1>1, <1>2, AwaitInvSuffices, PTL DEF Spec

-----------------------------------------------------------------------------
(* One transfer at a time *)

\* When nothing is submitted ahead of its turn, building a future submits no
\* more than one transfer.
LEMMA BuiltShort ==
  ASSUME LazyConstruction
  PROVE  \A f \in Future : Built[f] = <<>> \/ \E id \in Transfers : Built[f] = <<id>>
<1> DEFINE Short(f) == Built[f] = <<>> \/ \E id \in Transfers : Built[f] = <<id>>
           T == {f \in Future : ~Short(f)}
<1>1. SUFFICES ASSUME T # {} PROVE FALSE
  OBVIOUS
<1>2. T \subseteq Nat
  BY FutureAssumption
<1>3. PICK f \in T : \A g \in T : f <= g
  BY <1>1, <1>2, LeastNatural
<1>4. f \in Future /\ ~Short(f) /\ \A g \in Future : g < f => Short(g)
  <2>1. f \in Nat /\ \A g \in Future : g \in Nat
    BY FutureAssumption
  <2> QED BY <1>3, <2>1
<1>5. Built[f] = BuildingOf(f, Built)
  BY <1>4, BuiltDefined
<1>6. CASE Tree[f].op \in {"Ready", "Sequence"}
  BY <1>4, <1>5, <1>6 DEF BuildingOf
<1>7. CASE Tree[f].op = "Transfer"
  BY <1>4, <1>5, <1>7, TreeShape DEF BuildingOf
<1>8. CASE Tree[f].op \in Combinators \ {"Sequence"}
  <2>1. Tree[f].first \in Future /\ Short(Tree[f].first)
    BY <1>4, <1>8, TreeShape
  <2>2. Built[f] = Built[Tree[f].first]
    <3>1. CASE Tree[f].op = "AndThen"
      <4>1. Built[f] = Built[Tree[f].first] \o <<>>
        BY <1>4, <1>5, <3>1 DEF BuildingOf, LazyConstruction
      <4>2. Built[Tree[f].first] \in Seq(Transfers)
        BY <2>1, BuiltDefined
      <4> QED BY <4>1, <4>2, ConcatEmptySeq
    <3>2. CASE Tree[f].op # "AndThen"
      BY <1>5, <1>8, <3>2 DEF BuildingOf, Combinators
    <3> QED BY <3>1, <3>2
  <2> QED BY <1>4, <2>1, <2>2
<1> QED BY <1>4, <1>6, <1>7, <1>8, TreeShape DEF Combinators

\* Everything that was submitted is answered.
Quiet == \A i \in 1..Len(submitted) : submitted[i] \in answered

\* Only the transfer submitted last may lack an answer, and then it is the
\* last future of the path, or its first part, that awaits it.
QuietInv ==
  /\ phase = "New" => submitted = <<>>
  /\ \A i \in 1..Len(submitted) - 1 : submitted[i] \in answered
  /\ phase \in {"New", "Polled"} /\ ~Quiet =>
       /\ answer \notin Results
       /\ Built[live[Len(live)].future] = <<submitted[Len(submitted)]>>

\* One future is built while everything is answered.
LEMMA QuietGrows ==
  ASSUME NEW s \in Seq(Transfers), NEW f \in Future, LazyConstruction,
         NEW A, \A i \in 1..Len(s) : s[i] \in A, NEW t, t = s \o Built[f]
  PROVE  /\ \A i \in 1..Len(t) - 1 : t[i] \in A
         /\ \/ \A i \in 1..Len(t) : t[i] \in A
            \/ Built[f] = <<t[Len(t)]>>
<1>1. CASE Built[f] = <<>>
  <2>1. t = s
    BY <1>1, ConcatEmptySeq
  <2>2. Len(s) \in Nat
    BY LenProperties
  <2> QED BY <2>1, <2>2
<1>2. ASSUME NEW id \in Transfers, Built[f] = <<id>>
      PROVE  /\ \A i \in 1..Len(t) - 1 : t[i] \in A
             /\ Built[f] = <<t[Len(t)]>>
  <2>1. t = Append(s, id)
    BY <1>2, AppendIsConcat
  <2>2. Len(s) \in Nat /\ Len(t) = Len(s) + 1 /\ t[Len(s) + 1] = id
        /\ \A i \in 1..Len(s) : t[i] = s[i]
    BY <2>1, AppendProperties, LenProperties
  <2>3. \A i \in 1..Len(t) - 1 : i \in 1..Len(s)
    BY <2>2
  <2> QED BY <1>2, <2>2, <2>3
<1> QED BY <1>1, <1>2, BuiltShort

LEMMA InitQuiet == LazyConstruction /\ Init => QuietInv
<1> SUFFICES ASSUME LazyConstruction, Init PROVE QuietInv
  OBVIOUS
<1>1. submitted = <<>> /\ Len(submitted) = 0
  BY DEF Init, LazyConstruction
<1> QED BY <1>1 DEF QuietInv, Quiet

\* Steps that submit nothing and keep the path.
LEMMA StandingQuiet ==
  ASSUME TypeInv, PathInv, QuietInv,
         \/ Poll \/ Descend \/ PollLeaf \/ ReturnPending \/ EndPoll
         \/ \E id \in Transfers : Complete(id)
  PROVE  QuietInv'
<1>1. UNCHANGED <<submitted, live>> /\ answered \subseteq answered'
  BY DEF Poll, Descend, PollLeaf, ReturnPending, EndPoll, Complete
<1>2. Quiet => Quiet'
  BY <1>1 DEF Quiet
<1>3. CASE PollLeaf
  <2> DEFINE f == live[Len(live)].future
  <2>1. at = Len(live) /\ at \in 1..Len(live) /\ phase # "New" /\ phase' = phase /\ answered' = answered
    BY <1>3, LenProperties DEF PollLeaf, TypeInv, PathInv
  <2>2. f \in Future /\ Node(at) = Tree[f] /\ Built[f] = BuildingOf(f, Built)
    BY <2>1, FrameType, BuiltDefined DEF TypeInv, Node
  <2>3. ASSUME phase = "Polled", ~Quiet PROVE answer' \notin Results
    <3>1. Built[f] = <<submitted[Len(submitted)]>>
      BY <2>3 DEF QuietInv
    <3>2. Tree[f].op = "Transfer" /\ Tree[f].id = submitted[Len(submitted)]
      BY <1>3, <2>2, <3>1 DEF PollLeaf, BuildingOf
    <3>3. submitted[Len(submitted)] \notin answered
      <4>1. Len(submitted) \in Nat
        BY LenProperties DEF TypeInv
      <4>2. PICK i \in 1..Len(submitted) : submitted[i] \notin answered
        BY <2>3 DEF Quiet
      <4>3. i \notin 1..Len(submitted) - 1
        BY <4>2 DEF QuietInv
      <4>4. i = Len(submitted)
        BY <4>1, <4>2, <4>3
      <4> QED BY <4>2, <4>4
    <3> QED BY <1>3, <2>2, <3>2, <3>3, ResultsAssumption DEF PollLeaf
  <2> QED BY <1>1, <2>1, <2>3 DEF QuietInv, Quiet
<1>4. CASE \/ Poll \/ Descend \/ ReturnPending \/ EndPoll \/ \E id \in Transfers : Complete(id)
  <2>1. phase' = "New" => phase = "New"
    BY <1>4 DEF Poll, Descend, ReturnPending, EndPoll, Complete
  <2>2. phase' \in {"New", "Polled"} => phase \in {"New", "Polled"}
    BY <1>4 DEF Poll, Descend, ReturnPending, EndPoll, Complete, PathInv
  <2>3. answer' \in Results => answer' = answer
    BY <1>4, ResultsAssumption DEF Poll, Descend, ReturnPending, EndPoll, Complete
  <2> QED BY <1>1, <1>2, <2>1, <2>2, <2>3 DEF QuietInv
<1> QED BY <1>3, <1>4

LEMMA BeginQuiet ==
  ASSUME TypeInv, PathInv, QuietInv, LazyConstruction, Begin
  PROVE  QuietInv'
<1> DEFINE f == live[at].future
           first == Tree[f].first
<1>1. /\ at = Len(live) /\ at \in Nat \ {0} /\ answer = "None"
      /\ f \in Future /\ Tree[f].op \in Combinators /\ first \in Future
      /\ Len(live') = at + 1 /\ live'[at + 1] = Unpolled(first)
  <2>1. at \in Nat \ {0}
    BY BeginPath, LenProperties DEF TypeInv
  <2> QED BY <2>1, BeginPath, TreeShape
<1>2. /\ UNCHANGED <<phase, answer, answered>>
      /\ submitted' = submitted \o BuiltLate(Tree[f])
      /\ live'[Len(live')].future = first
  BY <1>1 DEF Begin, Node, Unpolled
<1>3. phase = "Polled" /\ answer' \notin Results
  BY <1>1, <1>2, ResultsAssumption, EmptySeq DEF TypeInv, PathInv
<1>4. Built[f] = BuildingOf(f, Built) /\ Built[first] \in Seq(Transfers) /\ submitted \in Seq(Transfers)
  BY <1>1, BuiltDefined DEF TypeInv
<1>5. CASE Tree[f].op = "Sequence"
  <2>1. Quiet
    <3>1. Built[f] = <<>>
      BY <1>4, <1>5 DEF BuildingOf
    <3>2. \A x : <<x>> # <<>>
      OBVIOUS
    <3> QED BY <1>1, <1>3, <3>1, <3>2 DEF QuietInv
  <2>2. submitted' = submitted \o Built[first]
    BY <1>2, <1>5 DEF BuiltLate
  <2>3. \A i \in 1..Len(submitted) : submitted[i] \in answered
    BY <2>1 DEF Quiet
  <2>4. /\ \A i \in 1..Len(submitted') - 1 : submitted'[i] \in answered
        /\ \/ \A i \in 1..Len(submitted') : submitted'[i] \in answered
           \/ Built[first] = <<submitted'[Len(submitted')]>>
    BY <1>1, <1>4, <2>2, <2>3, QuietGrows
  <2> QED BY <1>2, <1>3, <2>4 DEF QuietInv, Quiet
<1>6. CASE Tree[f].op # "Sequence"
  <2>1. submitted' = submitted
    BY <1>2, <1>4, <1>6, ConcatEmptySeq DEF BuiltLate
  <2>2. Built[f] = Built[first]
    <3>1. CASE Tree[f].op = "AndThen"
      <4>1. Built[f] = Built[first] \o <<>>
        BY <1>1, <1>4, <3>1 DEF BuildingOf, LazyConstruction
      <4> QED BY <1>4, <4>1, ConcatEmptySeq
    <3>2. CASE Tree[f].op # "AndThen"
      BY <1>1, <1>4, <1>6, <3>2 DEF BuildingOf, Combinators
    <3> QED BY <3>1, <3>2
  <2>3. Quiet' <=> Quiet
    BY <1>2, <2>1 DEF Quiet
  <2> QED BY <1>1, <1>2, <1>3, <2>1, <2>2, <2>3 DEF QuietInv
<1> QED BY <1>5, <1>6

LEMMA ContinueQuiet ==
  ASSUME TypeInv, PathInv, QuietInv, LazyConstruction, Continue
  PROVE  QuietInv'
<1>1. Returned /\ answer # "Pending"
  BY DEF Continue
<1>2. answer \in Results /\ phase = "Polled" /\ at \in Nat /\ at > 1
  BY <1>1, ReturnedPath DEF TypeInv
<1>3. UNCHANGED <<phase, answered>> /\ answer' = "None"
  BY DEF Continue
<1>4. PICK next \in Future :
        /\ submitted' = submitted \o Built[next]
        /\ \/ Len(live') = at - 1 /\ live'[at - 1] = Unpolled(next)
           \/ Len(live') = at /\ live'[at] = Unpolled(next)
  BY ContinuePath
<1>5. live'[Len(live')].future = next
  BY <1>4 DEF Unpolled
<1>6. \A i \in 1..Len(submitted) : submitted[i] \in answered
  BY <1>2 DEF QuietInv, Quiet
<1>7. /\ \A i \in 1..Len(submitted') - 1 : submitted'[i] \in answered
      /\ \/ \A i \in 1..Len(submitted') : submitted'[i] \in answered
         \/ Built[next] = <<submitted'[Len(submitted')]>>
  <2>1. submitted \in Seq(Transfers) /\ submitted' = submitted \o Built[next]
    BY <1>4 DEF TypeInv
  <2> QED BY <1>6, <2>1, QuietGrows
<1> QED BY <1>2, <1>3, <1>5, <1>7, ResultsAssumption DEF QuietInv, Quiet

LEMMA QuietStep ==
  LazyConstruction /\ TypeInv /\ PathInv /\ QuietInv /\ [Next]_vars => QuietInv'
<1> SUFFICES ASSUME LazyConstruction, TypeInv, PathInv, QuietInv, [Next]_vars PROVE QuietInv'
  OBVIOUS
<1>1. CASE Begin
  BY <1>1, BeginQuiet
<1>2. CASE Continue
  BY <1>2, ContinueQuiet
<1>3. CASE ReturnReady
  <2>1. UNCHANGED <<phase, submitted, answered>> /\ Returned /\ answer # "Pending"
    BY <1>3 DEF ReturnReady
  <2>2. answer \in Results /\ phase = "Polled"
    BY <2>1, ReturnedPath DEF TypeInv
  <2>3. Quiet
    BY <2>2 DEF QuietInv
  <2> QED BY <2>1, <2>2, <2>3 DEF QuietInv, Quiet
<1>4. CASE Drop
  BY <1>4 DEF Drop, QuietInv
<1>5. CASE UNCHANGED vars
  BY <1>5 DEF vars, QuietInv, Quiet
<1> QED BY <1>1, <1>2, <1>3, <1>4, <1>5, StandingQuiet DEF Next, Running, Ended

\* As long as nothing is submitted ahead of its turn, as with the deferred
\* control transfers of usb/mod.rs:29, nothing is submitted before the first
\* poll, and nothing while an earlier transfer is not answered.
THEOREM OneTransferAtATime == LazyConstruction => (Spec => []OneAtATime)
<1> SUFFICES ASSUME LazyConstruction PROVE Spec => []OneAtATime
  OBVIOUS
<1>1. Init => TypeInv /\ PathInv /\ QuietInv
  BY InitPath, InitQuiet
<1>2. TypeInv /\ PathInv /\ QuietInv /\ [Next]_vars => TypeInv' /\ PathInv' /\ QuietInv'
  BY PathStep, QuietStep
<1>3. QuietInv => OneAtATime
  BY DEF QuietInv, OneAtATime
<1> QED BY <1>1, <1>2, <1>3, PTL DEF Spec

=============================================================================
