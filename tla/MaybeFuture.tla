----------------------------- MODULE MaybeFuture -----------------------------
(***************************************************************************)
(* The combinators of src/src/maybe_future.rs: an operation can be awaited *)
(* or waited for, and must do the same either way.  Awaiting is modelled   *)
(* call by call of poll(), down the tree of futures and back, with         *)
(* transfers that are answered at any time, spurious polls and a future    *)
(* that is dropped; waiting is the recursion that wait() is.               *)
(*                                                                         *)
(* A combinator holds either its first future or its second, never both,   *)
(* so what has been polled of a future and is alive is one path through    *)
(* the tree, kept in `live` from the whole operation downwards.  Futures   *)
(* are numbered, a part before the whole, so that the definitions by       *)
(* recursion end.                                                          *)
(*                                                                         *)
(* A definition whose name ends in _ and a word is the one after it with   *)
(* one plausible slip, and shows that some property would notice.          *)
(***************************************************************************)
EXTENDS Naturals, SequencesExt

CONSTANTS
  Results,    \* what futures return
  Transfers,  \* the transfers there are
  Outcomes,   \* what the radio may answer to each of them
  Future,     \* the futures there are
  Tree,       \* of each, whether it is a value, a transfer or a combinator, and its parts
  Roots       \* the operations that the driver runs

Below(f) == {part \in Future : part < f}

Leaf == [op : {"Ready"}, value : Results] \cup [op : {"Transfer"}, id : Transfers]

Combinator(f) ==
  [op : {"Map"}, first : Below(f), to : [Results -> Results]]
    \cup [op : {"Either"}, first : Below(f)]
    \cup [op : {"AndThen"}, first : Below(f), next : [Results -> Below(f)], captured : Below(f)]
    \cup [op : {"ContinueWith", "Sequence"}, first : Below(f), next : [Results -> Below(f)]]

ASSUME ResultsAssumption ==
  /\ "Ok" \in Results /\ "Err" \in Results
  /\ "None" \notin Results /\ "Pending" \notin Results

ASSUME OutcomesAssumption == \A id \in Transfers : Outcomes[id] \subseteq Results

ASSUME FutureAssumption ==
  /\ Future \subseteq Nat
  /\ \A f \in Future : Tree[f] \in Leaf \cup Combinator(f)

\* What is left of a list of commands is built when its turn comes.
ASSUME SequenceAssumption ==
  \A f \in Future : Tree[f].op = "Sequence" =>
    \A v \in Results : Tree[Tree[f].next[v]].op \in {"Sequence", "Ready"}

ASSUME RootsAssumption == Roots \subseteq Future

VARIABLES
  op,         \* the operation
  outcome,    \* what the radio will answer to each transfer
  phase,      \* whether the future is new, polled, done or dropped
  live,       \* the operation, what it holds, what that holds, ... as far as polled
  at,         \* how deep a running poll is in `live`; 0 if none is running
  answer,     \* what the poll at this depth has returned, if it has
  submitted,  \* the transfers submitted, in order
  answered,   \* those that were answered
  waker,      \* the transfers that know whom to wake
  woken       \* whether the executor was told to poll

vars == <<op, outcome, phase, live, at, answer, submitted, answered, waker, woken>>

TransfersOf[f \in Future] ==
  CASE Tree[f].op = "Ready"           -> {}
    [] Tree[f].op = "Transfer"        -> {Tree[f].id}
    [] Tree[f].op \in {"Map", "Either"} -> TransfersOf[Tree[f].first]
    [] OTHER -> UNION {TransfersOf[part] : part \in {Tree[f].first}
                                                     \cup {Tree[f].next[v] : v \in Results}}

\* What the radio may answer to those transfers; others are not asked.
OutcomesOf(asked) ==
  {[id \in Transfers |-> IF id \in asked THEN answers[id] ELSE "Ok"] :
     answers \in {a \in [asked -> UNION {Outcomes[id] : id \in asked}] :
                    \A id \in asked : a[id] \in Outcomes[id]}}

-----------------------------------------------------------------------------
(* Building and waiting *)

\* The transfers that building an operation submits: before a combinator its
\* first part is built, and what its continuation captures; a sequence, of data.
Built[f \in Future] ==
  CASE Tree[f].op \in {"Ready", "Sequence"} -> <<>>
    [] Tree[f].op = "Transfer" -> <<Tree[f].id>>
    [] Tree[f].op = "AndThen"  -> Built[Tree[f].first] \o Built[Tree[f].captured]
    [] OTHER -> Built[Tree[f].first]

\* What a combinator still has to build before its first part can be run.
BuiltLate(node) == IF node.op = "Sequence" THEN Built[node.first] ELSE <<>>

\* What wait() of a combinator has submitted, and returns, given that of its
\* first part; `waiting` is what wait() of a future that was built does.
ThenWait(node, first, waiting) ==
  CASE node.op = "Either" -> first
    [] node.op = "Map"    -> [submits |-> first.submits, value |-> node.to[first.value]]
    [] node.op \in {"AndThen", "Sequence"} /\ first.value = "Err" -> first
    [] OTHER -> LET next   == node.next[first.value]
                    second == waiting[next]
                IN  [submits |-> first.submits \o Built[next] \o second.submits,
                     value   |-> second.value]

\* wait() of a future that was built.
Waiting[f \in Future] ==
  CASE Tree[f].op = "Ready"    -> [submits |-> <<>>, value |-> Tree[f].value]
    [] Tree[f].op = "Transfer" -> [submits |-> <<>>, value |-> outcome[Tree[f].id]]
    [] OTHER -> LET first == Waiting[Tree[f].first]
                IN  ThenWait(Tree[f],
                             [submits |-> BuiltLate(Tree[f]) \o first.submits,
                              value   |-> first.value],
                             Waiting)

\* What building an operation and waiting for it submits, in order, and returns.
Wait(f) == [submits |-> Built[f] \o Waiting[f].submits, value |-> Waiting[f].value]

\* Nothing that is built ahead of its turn submits anything.
LazyConstruction ==
  /\ \A f \in Roots : Built[f] = <<>>
  /\ \A f \in Future : Tree[f].op = "AndThen" => Built[Tree[f].captured] = <<>>

-----------------------------------------------------------------------------
(* Polling *)

\* A future that was built; it is polled from the start.
Unpolled(f) == [future |-> f, stage |-> "Start"]

Node(depth) == Tree[live[depth].future]

Init ==
  /\ op \in Roots
  /\ outcome \in OutcomesOf(TransfersOf[op])
  /\ phase = "New"
  /\ live = <<Unpolled(op)>>
  /\ at = 0
  /\ answer = "None"
  /\ submitted = Built[op]
  /\ answered = {}
  /\ waker = {}
  /\ woken = FALSE

\* The executor polls: when it was woken, and whenever else it likes.
Poll ==
  /\ phase \in {"New", "Polled"}
  /\ at = 0
  /\ phase' = "Polled"
  /\ at' = 1
  /\ woken' = FALSE
  /\ UNCHANGED <<op, outcome, live, answer, submitted, answered, waker>>

\* A combinator polls the part it holds.
Descend ==
  /\ at # 0 /\ answer = "None"
  /\ at < Len(live)
  /\ at' = at + 1
  /\ UNCHANGED <<op, outcome, phase, live, answer, submitted, answered, waker, woken>>

\* A combinator polls its first part for the first time.
Begin ==
  /\ at # 0 /\ answer = "None"
  /\ at = Len(live) /\ Node(at).op \notin {"Ready", "Transfer"}
  /\ live' = SubSeq(live, 1, at - 1)
               \o <<[live[at] EXCEPT !.stage = "First"], Unpolled(Node(at).first)>>
  /\ submitted' = submitted \o BuiltLate(Node(at))
  /\ at' = at + 1
  /\ UNCHANGED <<op, outcome, phase, answer, answered, waker, woken>>

\* The future at the end of the path is polled: a transfer that was not
\* answered remembers the waker.
PollLeaf ==
  /\ at # 0 /\ answer = "None"
  /\ at = Len(live)
  /\ LET leaf == Node(at)
     IN  \/ /\ leaf.op = "Ready"
            /\ answer' = leaf.value
            /\ UNCHANGED waker
         \/ /\ leaf.op = "Transfer" /\ leaf.id \in answered
            /\ answer' = outcome[leaf.id]
            /\ UNCHANGED waker
         \/ /\ leaf.op = "Transfer" /\ leaf.id \notin answered
            /\ answer' = "Pending"
            /\ waker' = waker \cup {leaf.id}
  /\ UNCHANGED <<op, outcome, phase, live, at, submitted, answered, woken>>

Returned == at > 1 /\ answer # "None"

\* A part is pending, and so is the combinator.
ReturnPending ==
  /\ Returned /\ answer = "Pending"
  /\ at' = at - 1
  /\ UNCHANGED <<op, outcome, phase, live, answer, submitted, answered, waker, woken>>

\* What a combinator goes on with after its first part returned v, if it does;
\* a sequence goes on after an error, too.
Onward_Always(node, v) ==
  CASE node.op \in {"Map", "Either"}          -> {}
    [] node.op = "AndThen" /\ v = "Err"       -> {}
    [] OTHER                                  -> {node.next[v]}

\* What a combinator goes on with after its first part returned v, if it does.
Onward(node, v) ==
  CASE node.op \in {"Map", "Either"}                     -> {}
    [] node.op \in {"AndThen", "Sequence"} /\ v = "Err"  -> {}
    [] OTHER                                             -> {node.next[v]}

\* Only the first part has one.
OnwardFrom(frame, v) == IF frame.stage = "First" THEN Onward(Tree[frame.future], v) ELSE {}

\* A sequence is what is left of it; others hold their second part.
Going(frame, next) ==
  IF Tree[frame.future].op = "Sequence"
    THEN <<Unpolled(next)>>
    ELSE <<[frame EXCEPT !.stage = "Second"], Unpolled(next)>>

\* The continuation runs, and the poll returns: the second part gets its turn
\* at the next poll.
Continue_Later ==
  /\ Returned /\ answer # "Pending"
  /\ \E next \in OnwardFrom(live[at - 1], answer) :
       /\ live' = SubSeq(live, 1, at - 2) \o Going(live[at - 1], next)
       /\ submitted' = submitted \o Built[next]
  /\ at' = at - 1
  /\ answer' = "Pending"
  /\ UNCHANGED <<op, outcome, phase, answered, waker, woken>>

\* A part is ready: its continuation builds the next one, and the loop in
\* poll() polls that.
Continue ==
  /\ Returned /\ answer # "Pending"
  /\ \E next \in OnwardFrom(live[at - 1], answer) :
       /\ live' = SubSeq(live, 1, at - 2) \o Going(live[at - 1], next)
       /\ submitted' = submitted \o Built[next]
  /\ at' = at - 1
  /\ answer' = "None"
  /\ UNCHANGED <<op, outcome, phase, answered, waker, woken>>

\* The last part is ready, and so is the combinator.
ReturnReady ==
  /\ Returned /\ answer # "Pending"
  /\ OnwardFrom(live[at - 1], answer) = {}
  /\ at' = at - 1
  /\ live' = SubSeq(live, 1, at - 1)
  /\ answer' = IF Node(at - 1).op = "Map" THEN Node(at - 1).to[answer] ELSE answer
  /\ UNCHANGED <<op, outcome, phase, submitted, answered, waker, woken>>

\* The poll of the whole operation returns.
EndPoll ==
  /\ at = 1 /\ answer # "None"
  /\ at' = 0
  /\ IF answer = "Pending" THEN answer' = "None" /\ UNCHANGED phase
                           ELSE phase' = "Done" /\ UNCHANGED answer
  /\ UNCHANGED <<op, outcome, live, submitted, answered, waker, woken>>

Running == Descend \/ Begin \/ PollLeaf \/ ReturnPending \/ Continue \/ ReturnReady \/ EndPoll

\* The radio answers, or 500 ms have passed.
Complete(id) ==
  /\ id \in ToSet(submitted) \ answered
  /\ phase # "Dropped"
  /\ answered' = answered \cup {id}
  /\ waker' = waker \ {id}
  /\ woken' = (woken \/ id \in waker)
  /\ UNCHANGED <<op, outcome, phase, live, at, answer, submitted>>

\* The application drops the future between polls; what it holds goes with it.
Drop ==
  /\ phase \in {"New", "Polled"}
  /\ at = 0
  /\ phase' = "Dropped"
  /\ live' = <<>>
  /\ waker' = {}
  /\ woken' = FALSE
  /\ UNCHANGED <<op, outcome, at, answer, submitted, answered>>

Ended == phase \in {"Done", "Dropped"} /\ UNCHANGED vars

Next == Poll \/ Running \/ (\E id \in Transfers : Complete(id)) \/ Drop \/ Ended

Spec == Init /\ [][Next]_vars

\* The executor polls what was woken, a poll runs to its end, and every
\* transfer has a timeout.
FairSpec ==
  /\ Spec
  /\ WF_vars(woken /\ Poll)
  /\ WF_vars(Running)
  /\ WF_vars(\E id \in Transfers : Complete(id))

-----------------------------------------------------------------------------
(* Properties *)

\* Awaiting does what waiting does (maybe_future.rs:1): the same transfers, in
\* the same order, and the same result; dropped half way, a beginning of it.
AwaitIsWait ==
  /\ IsPrefix(submitted, Wait(op).submits)
  /\ phase = "Done" => submitted = Wait(op).submits /\ answer = Wait(op).value

\* Nothing is submitted before the first poll (usb/mod.rs:29), and nothing
\* while an earlier transfer is not answered, although operations are built
\* ahead and moved into continuations.
OneAtATime ==
  /\ phase = "New" => submitted = <<>>
  /\ \A i \in 1..(Len(submitted) - 1) : submitted[i] \in answered

\* An operation that was polled ends, however its transfers are answered,
\* unless it is dropped: whoever returns Pending has left a waker behind.
Completes == (phase = "Polled") ~> (phase \in {"Done", "Dropped"})

=============================================================================
