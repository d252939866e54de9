--------------------------- MODULE RxQueueProofs ---------------------------
(***************************************************************************)
(* The queue keeps its buffers and discards exactly what is old, proved    *)
(* for every number of transfers, in both sample modes, with and without   *)
(* cancellation and failures.                                              *)
(***************************************************************************)
EXTENDS RxQueue, TLAPS, SequenceTheorems

\* The transfers on the endpoint: the first old ones are from before the latest
\* pause and the others from after it.
Aged(transfers, old) ==
  /\ transfers \in Seq(Transfer)
  /\ old \in 0 .. Len(transfers)
  /\ \A i \in 1 .. Len(transfers) : transfers[i].old <=> i <= old

\* What the phases and the flags say about the queue.
Shape ==
  /\ spare \in Nat
  /\ current \in Block \ {"old"}
  /\ initialized \in BOOLEAN /\ waiting \in BOOLEAN
  /\ phase \in {"None", "New", "NewRx"} =>
       /\ flight = <<>> /\ current = "none" /\ discard = 0
       /\ ~waiting /\ ~initialized
  /\ waiting => phase = "Running" /\ current = "none"
  /\ initialized => spare = 0
  /\ phase = "Running" => initialized

QueueInv == Aged(flight, discard) /\ Shape /\ PoolConserved

-----------------------------------------------------------------------------
(* What happens to the transfers on the endpoint *)

LEMMA EmptyAged == Aged(<<>>, 0)
BY EmptySeq DEF Aged

\* A submission goes behind the old ones.
LEMMA SubmitAged ==
  ASSUME NEW transfers, NEW old, Aged(transfers, old)
  PROVE  /\ Aged(Append(transfers, Submitted), old)
         /\ Len(Append(transfers, Submitted)) = Len(transfers) + 1
<1>1. Submitted \in Transfer /\ ~Submitted.old
  BY DEF Submitted, Transfer
<1>2. /\ transfers \in Seq(Transfer)
      /\ Append(transfers, Submitted) \in Seq(Transfer)
      /\ Len(Append(transfers, Submitted)) = Len(transfers) + 1
  BY <1>1 DEF Aged
<1>3. ASSUME NEW i \in 1 .. Len(transfers) + 1
      PROVE  Append(transfers, Submitted)[i].old <=> i <= old
  <2>1. CASE i = Len(transfers) + 1
    BY <1>1, <1>2, <2>1 DEF Aged
  <2>2. CASE i # Len(transfers) + 1
    BY <1>2, <2>2 DEF Aged
  <2> QED BY <2>1, <2>2
<1> QED BY <1>2, <1>3 DEF Aged

\* The oldest transfer is old if any is, and the rest stays in order.
LEMMA TakeAged ==
  ASSUME NEW transfers, NEW old, Aged(transfers, old), transfers # <<>>
  PROVE  /\ Head(transfers) \in Transfer
         /\ Head(transfers).old <=> old # 0
         /\ Aged(Tail(transfers), IF old = 0 THEN 0 ELSE old - 1)
         /\ Len(Tail(transfers)) = Len(transfers) - 1
<1>1. /\ transfers \in Seq(Transfer)
      /\ Len(transfers) \in Nat \ {0}
      /\ Head(transfers) = transfers[1]
  BY EmptySeq DEF Aged
<1>2. /\ Head(transfers) \in Transfer
      /\ Tail(transfers) \in Seq(Transfer)
      /\ Len(Tail(transfers)) = Len(transfers) - 1
      /\ \A i \in 1 .. Len(Tail(transfers)) : Tail(transfers)[i] = transfers[i + 1]
  BY <1>1, HeadTailProperties
<1> QED BY <1>1, <1>2 DEF Aged

\* release_current submits or changes nothing.
LEMMA ReleasedAged ==
  ASSUME QueueInv
  PROVE  Aged(Released, discard) /\ Len(Released) = Len(flight) + Held
<1>1. Aged(flight, discard) /\ Len(flight) \in Nat
  BY LenProperties DEF QueueInv, Aged
<1>2. CASE current = "none"
  BY <1>1, <1>2 DEF Released, Held
<1>3. CASE current # "none"
  BY <1>1, <1>3, SubmitAged DEF Released, Held
<1> QED BY <1>2, <1>3

\* After a pause all that is on the endpoint is old.
LEMMA PauseAged ==
  ASSUME QueueInv, Pause
  PROVE  Aged(flight', discard') /\ Len(flight') = Len(flight) + Held
<1>1. /\ Released \in Seq(Transfer)
      /\ Len(Released) \in Nat
      /\ DOMAIN Released = 1 .. Len(Released)
      /\ Len(Released) = Len(flight) + Held
  BY ReleasedAged, LenProperties DEF Aged
<1>2. \A i \in 1 .. Len(Released) :
        /\ [Released[i] EXCEPT !.old = TRUE, !.cancelled = CanCancel] \in Transfer
        /\ [Released[i] EXCEPT !.old = TRUE, !.cancelled = CanCancel].old
  <2> SUFFICES ASSUME NEW i \in 1 .. Len(Released)
               PROVE  /\ [Released[i] EXCEPT !.old = TRUE, !.cancelled = CanCancel]
                           \in Transfer
                      /\ [Released[i] EXCEPT !.old = TRUE, !.cancelled = CanCancel].old
    OBVIOUS
  <2>1. Released[i] \in Transfer
    BY <1>1, ElementOfSeq
  <2> QED BY <2>1, CanCancelAssumption DEF Transfer
<1>3. flight' = [i \in 1 .. Len(Released) |->
                   [Released[i] EXCEPT !.old = TRUE, !.cancelled = CanCancel]]
  BY <1>1 DEF Pause
<1>4. flight' \in Seq(Transfer) /\ Len(flight') = Len(Released)
  <2>1. flight' \in [1 .. Len(Released) -> Transfer]
    BY <1>2, <1>3
  <2>2. flight' \in Seq(Transfer)
    BY <1>1, <2>1, SeqDef
  <2> QED BY <1>1, <2>1, <2>2, LenProperties
<1>5. discard' = Len(Released)
  BY DEF Pause
<1>6. \A i \in 1 .. Len(flight') : flight'[i].old
  BY <1>2, <1>3, <1>4
<1>7. discard' \in 0 .. Len(flight') /\ \A i \in 1 .. Len(flight') : i <= discard'
  BY <1>1, <1>4, <1>5
<1> QED BY <1>1, <1>4, <1>6, <1>7 DEF Aged

-----------------------------------------------------------------------------
(* One step *)

LEMMA InitQueueInv == Init => QueueInv
<1> SUFFICES ASSUME Init PROVE QueueInv
  OBVIOUS
<1>1. Aged(flight, discard)
  BY EmptyAged DEF Init
<1>2. Shape
  BY DEF Init, Shape, Block
<1>3. PoolConserved
  BY DEF Init, PoolConserved
<1> QED BY <1>1, <1>2, <1>3 DEF QueueInv

\* Steps that touch neither buffers nor the read.
LEMMA PhaseKeepsQueue ==
  ASSUME QueueInv, TurnOff \/ TurnOn \/ InitializeFails \/ StopBegin \/ StopErr
  PROVE  QueueInv'
<1>1. UNCHANGED <<spare, flight, current, initialized, discard, waiting>>
  BY DEF TurnOff, TurnOn, InitializeFails, StopBegin, StopErr
<1>2. Aged(flight', discard')
  BY <1>1 DEF QueueInv
<1>3. Shape'
  BY <1>1 DEF QueueInv, Shape, TurnOff, TurnOn, InitializeFails, StopBegin, StopErr
<1>4. PoolConserved'
  BY <1>1 DEF QueueInv, PoolConserved, Held, TurnOff, TurnOn, InitializeFails,
              StopBegin, StopErr
<1> QED BY <1>2, <1>3, <1>4 DEF QueueInv

LEMMA CreateKeepsQueue ==
  ASSUME QueueInv, Create
  PROVE  QueueInv'
<1>1. Aged(flight', discard')
  BY EmptyAged DEF Create, New
<1>2. Shape'
  BY TransfersAssumption DEF QueueInv, Shape, Create, New, Block
<1>3. PoolConserved'
  BY TransfersAssumption DEF PoolConserved, Held, Create, New
<1> QED BY <1>1, <1>2, <1>3 DEF QueueInv

\* Every spare buffer is submitted, and none of these submissions is old.
LEMMA InitializeKeepsQueue ==
  ASSUME QueueInv, Initialize
  PROVE  QueueInv'
<1> DEFINE new == [i \in 1 .. spare |-> Submitted]
<1>1. /\ phase = "NewRx" /\ phase' = "Running" /\ spare' = 0 /\ initialized' = TRUE
      /\ UNCHANGED <<current, discard, waiting>>
      /\ flight' = flight \o new
  BY DEF Initialize
<1>2. flight = <<>> /\ discard = 0 /\ current = "none" /\ ~waiting /\ spare \in Nat
  BY <1>1 DEF QueueInv, Shape
<1>3. new \in [1 .. spare -> Transfer]
  BY DEF Submitted, Transfer
<1>4. new \in Seq(Transfer)
  BY <1>2, <1>3, SeqDef
<1>5. Len(new) = spare
  BY <1>2, <1>3, <1>4, LenProperties
<1>6. flight' = new
  BY <1>1, <1>2, <1>4, ConcatEmptySeq
<1>7. \A i \in 1 .. Len(new) : ~new[i].old
  BY <1>5 DEF Submitted
<1> HIDE DEF new
<1>8. Aged(flight', discard')
  BY <1>1, <1>2, <1>4, <1>5, <1>6, <1>7 DEF Aged
<1>9. Shape'
  BY <1>1, <1>2 DEF QueueInv, Shape
<1>10. PoolConserved'
  BY <1>1, <1>2, <1>5, <1>6, LenProperties, EmptySeq
     DEF QueueInv, PoolConserved, Held
<1> QED BY <1>8, <1>9, <1>10 DEF QueueInv

LEMMA StopKeepsQueue ==
  ASSUME QueueInv, StopOk
  PROVE  QueueInv'
<1>1. Aged(flight', discard') /\ Len(flight') = Len(flight) + Held
  BY PauseAged DEF StopOk
<1>2. Shape'
  BY DEF QueueInv, Shape, StopOk, Pause, Block
<1>3. PoolConserved'
  <2>1. spare' = spare /\ current' = "none" /\ phase # "None"
    BY DEF StopOk, Pause
  <2>2. spare \in Nat /\ Len(flight) \in Nat
    BY LenProperties DEF QueueInv, Aged, Shape
  <2> QED BY <1>1, <2>1, <2>2 DEF QueueInv, PoolConserved, Held
<1> QED BY <1>1, <1>2, <1>3 DEF QueueInv

LEMMA RetireKeepsQueue ==
  ASSUME QueueInv, RetireQueue
  PROVE  QueueInv'
<1>1. Aged(flight', discard')
  BY EmptyAged DEF RetireQueue, Retire
<1>2. Shape'
  BY DEF QueueInv, Shape, RetireQueue, Retire, Block
<1>3. PoolConserved'
  BY DEF PoolConserved, RetireQueue
<1> QED BY <1>1, <1>2, <1>3 DEF QueueInv

\* The current block goes back to the endpoint.
LEMMA ReleaseKeepsQueue ==
  ASSUME QueueInv, ReadBegin \/ BlockUsed \/ DiscardCurrent
  PROVE  QueueInv'
<1>1. /\ flight' = Released /\ current' = "none" /\ phase = "Running"
      /\ UNCHANGED <<phase, spare, initialized, discard>>
      /\ waiting' \in BOOLEAN
  BY DEF ReadBegin, BlockUsed, DiscardCurrent, QueueInv, Shape
<1>2. Aged(flight', discard') /\ Len(flight') = Len(flight) + Held
  BY <1>1, ReleasedAged
<1>3. Shape'
  BY <1>1 DEF QueueInv, Shape, Block
<1>4. PoolConserved'
  <2>1. spare \in Nat /\ Len(flight) \in Nat
    BY LenProperties DEF QueueInv, Aged, Shape
  <2> QED BY <1>1, <1>2, <2>1 DEF QueueInv, PoolConserved, Held
<1> QED BY <1>2, <1>3, <1>4 DEF QueueInv

\* A completion is taken: sent back while old, exposed or rejected after.
LEMMA AcceptKeepsQueue ==
  ASSUME QueueInv, Accept
  PROVE  QueueInv'
<1>1. /\ flight # <<>> /\ waiting /\ phase = "Running" /\ current = "none"
      /\ initialized = TRUE /\ spare = 0
  BY DEF Accept, QueueInv, Shape
<1>2. /\ Aged(flight, discard) /\ discard \in Nat
      /\ flight \in Seq(Transfer) /\ Len(flight) \in Nat \ {0}
      /\ Len(flight) = Transfers
  BY <1>1, LenProperties, EmptySeq DEF QueueInv, Aged, PoolConserved, Held
<1>3. /\ Head(flight).old <=> discard # 0
      /\ Aged(Tail(flight), IF discard = 0 THEN 0 ELSE discard - 1)
      /\ Len(Tail(flight)) = Len(flight) - 1
  BY <1>1, <1>2, TakeAged
<1>4. CASE Discard
  <2>1. /\ discard # 0 /\ discard' = discard - 1
        /\ flight' = Append(Tail(flight), Submitted)
        /\ UNCHANGED <<phase, spare, current, initialized, waiting>>
    BY <1>4 DEF Discard
  <2>2. Aged(flight', discard') /\ Len(flight') = Len(Tail(flight)) + 1
    BY <1>3, <2>1, SubmitAged
  <2>3. Len(flight') = Transfers
    BY <1>2, <1>3, <2>2
  <2>4. /\ phase' = "Running" /\ current' = "none" /\ initialized' = TRUE
        /\ spare' = 0 /\ waiting' = TRUE
    BY <1>1, <2>1 DEF QueueInv, Shape
  <2>5. Shape'
    BY <2>4 DEF Shape, Block
  <2>6. PoolConserved'
    BY <2>3, <2>4, TransfersAssumption DEF PoolConserved, Held
  <2> QED BY <2>2, <2>5, <2>6 DEF QueueInv
<1>5. CASE Expose
  <2>1. /\ discard = 0 /\ discard' = 0 /\ flight' = Tail(flight)
        /\ current' = "fresh" /\ waiting' = FALSE
        /\ UNCHANGED <<phase, spare, initialized>>
    BY <1>3, <1>5 DEF Expose
  <2>2. /\ phase' = "Running" /\ initialized' = TRUE /\ spare' = 0
        /\ Len(flight') = Transfers - 1
    BY <1>1, <1>2, <1>3, <2>1
  <2>3. Shape'
    <3>1. spare' \in Nat /\ current' \in Block \ {"old"}
      BY <2>1, <2>2 DEF Block
    <3>2. phase' \notin {"None", "New", "NewRx"}
      BY <2>2
    <3>3. ~waiting' /\ waiting' \in BOOLEAN /\ initialized' \in BOOLEAN
      BY <2>1, <2>2
    <3> QED BY <2>2, <3>1, <3>2, <3>3 DEF Shape
  <2>4. PoolConserved'
    BY <2>1, <2>2, TransfersAssumption DEF PoolConserved, Held
  <2> QED BY <1>3, <2>1, <2>3, <2>4 DEF QueueInv
<1>6. CASE Reject
  <2>1. Aged(flight', discard')
    BY <1>6, EmptyAged DEF Reject, Retire
  <2>2. Shape' /\ PoolConserved'
    BY <1>6 DEF Reject, Retire, Shape, PoolConserved, Block
  <2> QED BY <2>1, <2>2 DEF QueueInv
<1> QED BY <1>4, <1>5, <1>6 DEF Accept

LEMMA AbandonKeepsQueue ==
  ASSUME QueueInv, Abandon
  PROVE  QueueInv'
<1>1. UNCHANGED <<phase, spare, flight, current, initialized, discard>> /\ waiting' = FALSE
  BY DEF Abandon
<1>2. Aged(flight', discard') /\ PoolConserved'
  BY <1>1 DEF QueueInv, PoolConserved, Held
<1>3. Shape'
  BY <1>1 DEF QueueInv, Shape
<1> QED BY <1>2, <1>3 DEF QueueInv

\* A completion changes what a transfer got, not its age.
LEMMA CompleteKeepsQueue ==
  ASSUME QueueInv, Complete
  PROVE  QueueInv'
<1>1. PICK i \in DOMAIN flight : \E got \in {"data", "bad"} :
        /\ flight' = [flight EXCEPT ![i].got = got]
        /\ UNCHANGED <<phase, spare, current, initialized, discard, waiting>>
  BY DEF Complete
<1>2. PICK got \in {"data", "bad"} : flight' = [flight EXCEPT ![i].got = got]
  BY <1>1
<1>3. flight \in Seq(Transfer) /\ Len(flight) \in Nat /\ DOMAIN flight = 1 .. Len(flight)
  BY LenProperties DEF QueueInv, Aged
<1> DEFINE done == [flight[i] EXCEPT !.got = got]
<1>4. done \in Transfer /\ done.old = flight[i].old
  <2>1. flight[i] \in Transfer
    BY <1>1, <1>3, ElementOfSeq
  <2> QED BY <2>1 DEF Transfer
<1>5. flight' = [flight EXCEPT ![i] = done]
  BY <1>2
<1> HIDE DEF done
<1>6. /\ flight' \in Seq(Transfer) /\ Len(flight') = Len(flight)
      /\ \A j \in 1 .. Len(flight) : flight'[j] = IF j = i THEN done ELSE flight[j]
  BY <1>1, <1>3, <1>4, <1>5, ExceptSeq
<1>7. UNCHANGED <<phase, spare, current, initialized, discard, waiting>>
  BY <1>1
<1>8. Aged(flight', discard')
  BY <1>3, <1>4, <1>6, <1>7 DEF QueueInv, Aged
<1>9. PoolConserved'
  BY <1>6, <1>7 DEF QueueInv, PoolConserved, Held
<1>10. Shape'
  <2>1. phase \in {"None", "New", "NewRx"} => FALSE
    BY <1>1, <1>3, EmptySeq DEF QueueInv, Shape
  <2> QED BY <1>7, <2>1 DEF QueueInv, Shape
<1> QED BY <1>8, <1>9, <1>10 DEF QueueInv

LEMMA StepQueueInv == QueueInv /\ [Next]_vars => QueueInv'
<1> SUFFICES ASSUME QueueInv, [Next]_vars PROVE QueueInv'
  OBVIOUS
<1>1. CASE UNCHANGED vars
  BY <1>1 DEF vars, QueueInv, Aged, Shape, PoolConserved, Held
<1> QED BY <1>1, PhaseKeepsQueue, CreateKeepsQueue, InitializeKeepsQueue, StopKeepsQueue,
           RetireKeepsQueue, ReleaseKeepsQueue, AcceptKeepsQueue, AbandonKeepsQueue,
           CompleteKeepsQueue
        DEF Next

LEMMA QueueInvariance == Spec => []QueueInv
BY InitQueueInv, StepQueueInv, PTL DEF Spec

\* No buffer of the pool is lost or doubled, for every number of transfers.
THEOREM PoolIsConserved == Spec => []PoolConserved
<1>1. QueueInv => PoolConserved
  BY DEF QueueInv
<1> QED BY QueueInvariance, <1>1, PTL

\* What a restart discards is what was in flight at the pause, and nothing else.
THEOREM OldestAreDiscarded == Spec => []DiscardsAreOldest
<1>1. QueueInv => DiscardsAreOldest
  <2> SUFFICES ASSUME QueueInv PROVE DiscardsAreOldest
    OBVIOUS
  <2>1. DOMAIN flight = 1 .. Len(flight) /\ Len(flight) \in Nat
    BY LenProperties DEF QueueInv, Aged
  <2> QED BY <2>1 DEF QueueInv, Aged, DiscardsAreOldest
<1> QED BY QueueInvariance, <1>1, PTL

\* No block captured before a stop is exposed after it, with or without
\* cancellation on the backend.
THEOREM NoOldBlockExposed == Spec => []NoOldBlock
<1>1. QueueInv => NoOldBlock
  BY DEF QueueInv, Shape, NoOldBlock
<1> QED BY QueueInvariance, <1>1, PTL

-----------------------------------------------------------------------------
(* The statistics: Grand is what the stream reports, across all its queues,  *)
(* and each step counts one event in it, or none.                            *)

Fields == {"received", "processed", "dropped", "discarded"}

Grand == Combined(total, stats)

Counted(s, fields) == [f \in Fields |-> IF f \in fields THEN Plus(s[f], 1) ELSE s[f]]

\* What a step may count: nothing, a dropped rest of a block, or a completion
\* that is exposed, rejected or discarded.
Events == {{}, {"dropped"}, {"received", "processed"}, {"received", "dropped"},
           {"received", "dropped", "discarded"}}

CountersOK ==
  /\ stats \in Stats /\ total \in Stats /\ consumed \in Counter
  /\ phase = "None" => stats = NoStats

Balanced ==
  /\ Grand.discarded <= Grand.dropped
  /\ Grand.received = consumed
  /\ Grand.received <= Plus(Grand.processed, Grand.dropped)

\* Saturating addition.
LEMMA PlusFacts ==
  /\ \A m, n \in Counter : Plus(m, n) \in Counter
  /\ \A m \in Counter : Plus(m, 0) = m /\ Plus(m, 1) >= m
  /\ \A m, n \in Counter : Plus(m, Plus(n, 1)) = Plus(Plus(m, n), 1)
BY StatCapAssumption DEF Plus, Counter

LEMMA StatsFields ==
  /\ NoStats \in Stats
  /\ \A s \in Stats : /\ DOMAIN s = Fields
                      /\ \A f \in Fields : s[f] \in Counter
                      /\ s = [f \in Fields |-> s[f]]
  /\ \A f \in Fields : NoStats[f] = 0
  /\ \A s : s = [f \in Fields |-> s[f]] /\ (\A f \in Fields : s[f] \in Counter)
            => s \in Stats
<1>1. NoStats \in Stats
  BY StatCapAssumption DEF NoStats, Stats, Counter
<1>2. \A s \in Stats : /\ DOMAIN s = Fields
                       /\ \A f \in Fields : s[f] \in Counter
                       /\ s = [f \in Fields |-> s[f]]
  BY DEF Stats, Fields
<1>3. \A f \in Fields : NoStats[f] = 0
  BY DEF NoStats, Fields
<1>4. \A s : s = [f \in Fields |-> s[f]] /\ (\A f \in Fields : s[f] \in Counter)
             => s \in Stats
  BY DEF Stats, Fields
<1> QED BY <1>1, <1>2, <1>3, <1>4

\* Retiring a queue moves its counters into the total and loses none.
LEMMA CombinedFacts ==
  ASSUME NEW a \in Stats, NEW b \in Stats
  PROVE  /\ Combined(a, b) = [f \in Fields |-> Plus(a[f], b[f])]
         /\ Combined(a, b) \in Stats
         /\ Combined(a, NoStats) = a
<1>1. Combined(a, b) = [f \in Fields |-> Plus(a[f], b[f])]
  BY StatsFields DEF Combined
<1>2. Combined(a, NoStats) = [f \in Fields |-> Plus(a[f], NoStats[f])]
  BY StatsFields DEF Combined
<1>3. \A f \in Fields : Plus(a[f], b[f]) \in Counter /\ Plus(a[f], NoStats[f]) = a[f]
  BY StatsFields, PlusFacts
<1>4. Combined(a, b) \in Stats
  BY <1>1, <1>3, StatsFields
<1>5. Combined(a, NoStats) = a
  BY <1>2, <1>3, StatsFields
<1> QED BY <1>1, <1>4, <1>5

LEMMA CountFacts ==
  ASSUME stats \in Stats, NEW fields
  PROVE  /\ Count(fields) = Counted(stats, fields)
         /\ Count(fields) \in Stats
<1>1. Count(fields) = Counted(stats, fields)
  BY StatsFields DEF Count, Counted
<1>2. \A f \in Fields : Counted(stats, fields)[f] \in Counter
  <2>1. 1 \in Counter \/ StatCap = 0
    BY StatCapAssumption DEF Counter
  <2> QED BY <2>1, StatsFields, StatCapAssumption DEF Counted, Plus, Counter
<1>3. Counted(stats, fields) \in Stats
  BY <1>2, StatsFields DEF Counted
<1> QED BY <1>1, <1>3

\* Counting in the queue is counting in the stream.
LEMMA CountsInGrand ==
  ASSUME CountersOK, NEW fields
  PROVE  Combined(total, Count(fields)) = Counted(Grand, fields)
<1>1. Combined(total, Count(fields))
        = [f \in Fields |-> Plus(total[f], Count(fields)[f])]
  BY CountFacts, CombinedFacts DEF CountersOK
<1>2. Grand = [f \in Fields |-> Plus(total[f], stats[f])]
  BY CombinedFacts DEF CountersOK, Grand
<1>3. \A f \in Fields : Count(fields)[f] = IF f \in fields THEN Plus(stats[f], 1)
                                           ELSE stats[f]
  BY CountFacts DEF CountersOK, Counted
<1>4. \A f \in Fields : Plus(total[f], Plus(stats[f], 1))
                          = Plus(Plus(total[f], stats[f]), 1)
  BY StatsFields, PlusFacts DEF CountersOK
<1> QED BY <1>1, <1>2, <1>3, <1>4 DEF Counted

\* A step counts one event, or none, in the stream's statistics.
CountsOne ==
  \E fields \in Events :
    /\ Grand' = Counted(Grand, fields)
    /\ consumed' = IF "received" \in fields THEN Plus(consumed, 1) ELSE consumed

\* Nothing is counted.
LEMMA Silent ==
  ASSUME CountersOK, Grand' = Grand, consumed' = consumed
  PROVE  CountsOne
<1>1. Grand = Counted(Grand, {})
  BY CombinedFacts DEF Grand, Counted, CountersOK
<1> QED BY <1>1 DEF CountsOne, Events

LEMMA AcceptCounts ==
  ASSUME CountersOK, QueueInv, Accept
  PROVE  CountersOK' /\ CountsOne
<1>1. consumed' = Plus(consumed, 1) /\ consumed' \in Counter
  BY StatCapAssumption DEF Accept, CountersOK, Plus, Counter
<1>2. phase = "Running"
  BY DEF Accept, QueueInv, Shape
<1>3. CASE Discard
  <2>1. stats' = Count({"received", "dropped", "discarded"}) /\ total' = total
        /\ phase' = phase
    BY <1>3 DEF Discard
  <2>2. CountersOK'
    BY <1>1, <1>2, <2>1, CountFacts DEF CountersOK
  <2>3. Grand' = Counted(Grand, {"received", "dropped", "discarded"})
    <3>1. Grand' = Combined(total, Count({"received", "dropped", "discarded"}))
      BY <2>1 DEF Grand, Combined
    <3> QED BY <3>1, CountsInGrand
  <2> QED BY <1>1, <2>2, <2>3 DEF CountsOne, Events
<1>4. CASE Expose
  <2>1. stats' = Count({"received", "processed"}) /\ total' = total /\ phase' = phase
    BY <1>4 DEF Expose
  <2>2. CountersOK'
    BY <1>1, <1>2, <2>1, CountFacts DEF CountersOK
  <2>3. Grand' = Counted(Grand, {"received", "processed"})
    <3>1. Grand' = Combined(total, Count({"received", "processed"}))
      BY <2>1 DEF Grand, Combined
    <3> QED BY <3>1, CountsInGrand
  <2> QED BY <1>1, <2>2, <2>3 DEF CountsOne, Events
<1>5. CASE Reject
  <2>1. /\ total' = Combined(total, Count({"received", "dropped"}))
        /\ stats' = NoStats
    BY <1>5 DEF Reject, Retire
  <2>2. total' \in Stats
    BY <2>1, CountFacts, CombinedFacts DEF CountersOK
  <2>3. CountersOK'
    BY <1>1, <2>1, <2>2, StatsFields DEF CountersOK
  <2>4. Grand' = Counted(Grand, {"received", "dropped"})
    <3>1. Grand' = total'
      BY <2>1, <2>2, CombinedFacts DEF Grand, Combined
    <3> QED BY <2>1, <3>1, CountsInGrand
  <2> QED BY <1>1, <2>3, <2>4 DEF CountsOne, Events
<1> QED BY <1>3, <1>4, <1>5 DEF Accept

LEMMA StepCounts ==
  ASSUME CountersOK, QueueInv, [Next]_vars
  PROVE  CountersOK' /\ CountsOne
<1>1. ASSUME UNCHANGED <<stats, total, consumed>>, phase' = "None" => phase = "None"
      PROVE  CountersOK' /\ CountsOne
  <2>1. Grand' = Grand
    BY <1>1 DEF Grand, Combined
  <2> QED BY <1>1, <2>1, Silent DEF CountersOK
<1>2. CASE \/ TurnOff \/ TurnOn \/ Initialize \/ InitializeFails \/ StopBegin
           \/ StopOk \/ StopErr \/ ReadBegin \/ BlockUsed \/ Abandon \/ Complete
           \/ UNCHANGED vars
  BY <1>1, <1>2 DEF TurnOff, TurnOn, Initialize, InitializeFails, StopBegin, StopOk,
                    StopErr, ReadBegin, BlockUsed, Abandon, Complete, vars
<1>3. CASE Create
  <2>1. UNCHANGED <<stats, total, consumed>> /\ phase = "None"
    BY <1>3 DEF Create, New, CountersOK
  <2> QED BY <2>1, <1>1
<1>4. CASE RetireQueue
  <2>1. /\ total' = Grand /\ stats' = NoStats /\ consumed' = consumed
    BY <1>4 DEF RetireQueue, Retire, Grand
  <2>2. total' \in Stats
    BY <2>1, CombinedFacts DEF CountersOK, Grand
  <2>3. Grand' = total'
    <3>1. Combined(total', NoStats) = total'
      BY <2>2, CombinedFacts
    <3> QED BY <2>1, <3>1 DEF Grand, Combined
  <2> QED BY <2>1, <2>2, <2>3, Silent, StatsFields DEF CountersOK
<1>5. CASE DiscardCurrent
  <2>1. /\ stats' = Count({"dropped"}) /\ total' = total /\ consumed' = consumed
        /\ phase' = phase /\ phase = "Running"
    BY <1>5 DEF DiscardCurrent
  <2>2. CountersOK'
    BY <2>1, CountFacts DEF CountersOK
  <2>3. Grand' = Counted(Grand, {"dropped"})
    <3>1. Grand' = Combined(total, Count({"dropped"}))
      BY <2>1 DEF Grand, Combined
    <3> QED BY <3>1, CountsInGrand
  <2> QED BY <2>1, <2>2, <2>3 DEF CountsOne, Events
<1> QED BY <1>2, <1>3, <1>4, <1>5, AcceptCounts DEF Next

\* The relations between the counters survive the count of any event, also at
\* the bound where counters stop.
LEMMA BalanceKept ==
  ASSUME CountersOK, Balanced, CountsOne
  PROVE  Balanced'
<1>1. PICK fields \in Events :
        /\ Grand' = Counted(Grand, fields)
        /\ consumed' = IF "received" \in fields THEN Plus(consumed, 1) ELSE consumed
  BY DEF CountsOne
<1>2. \A f \in Fields : Grand[f] \in Counter
  BY CombinedFacts, StatsFields DEF CountersOK, Grand
<1>3. /\ Grand'.received = IF "received" \in fields THEN Plus(Grand.received, 1)
                           ELSE Grand.received
      /\ Grand'.processed = IF "processed" \in fields THEN Plus(Grand.processed, 1)
                            ELSE Grand.processed
      /\ Grand'.dropped = IF "dropped" \in fields THEN Plus(Grand.dropped, 1)
                          ELSE Grand.dropped
      /\ Grand'.discarded = IF "discarded" \in fields THEN Plus(Grand.discarded, 1)
                            ELSE Grand.discarded
  BY <1>1 DEF Counted, Fields
<1>4. /\ Grand.received \in Counter /\ Grand.processed \in Counter
      /\ Grand.dropped \in Counter /\ Grand.discarded \in Counter
  BY <1>2 DEF Fields
<1>5. /\ "discarded" \in fields => "dropped" \in fields
      /\ "received" \in fields => "processed" \in fields \/ "dropped" \in fields
  BY DEF Events
<1>6. Grand'.received = consumed'
  BY <1>1, <1>3 DEF Balanced
<1>7. Grand'.discarded <= Grand'.dropped
  BY <1>3, <1>4, <1>5, StatCapAssumption DEF Balanced, Plus, Counter
<1>8. Grand'.received <= Plus(Grand'.processed, Grand'.dropped)
  BY <1>3, <1>4, <1>5, StatCapAssumption DEF Balanced, Plus, Counter
<1>9. Plus(Grand'.processed, Grand'.dropped) = Plus(Grand.processed, Grand.dropped)'
  BY DEF Plus
<1> QED BY <1>6, <1>7, <1>8, <1>9 DEF Balanced

StatsInv == CountersOK /\ Balanced

LEMMA InitStatsInv == Init => StatsInv
<1> SUFFICES ASSUME Init PROVE StatsInv
  OBVIOUS
<1>1. stats = NoStats /\ total = NoStats /\ consumed = 0
  BY DEF Init
<1>2. CountersOK
  BY <1>1, StatsFields, StatCapAssumption DEF CountersOK, Counter
<1>3. Grand = NoStats
  BY <1>1, <1>2, CombinedFacts DEF Grand, CountersOK
<1> QED BY <1>1, <1>2, <1>3, StatCapAssumption DEF StatsInv, Balanced, NoStats, Plus

LEMMA StatsInvariance == Spec => [](QueueInv /\ StatsInv)
<1>1. Init => QueueInv /\ StatsInv
  BY InitQueueInv, InitStatsInv
<1>2. QueueInv /\ StatsInv /\ [Next]_vars => (QueueInv /\ StatsInv)'
  BY StepQueueInv, StepCounts, BalanceKept DEF StatsInv
<1> QED BY <1>1, <1>2, PTL DEF Spec

\* What is reported is the sum over all queues of the stream, also when there is
\* no queue.
LEMMA ReportedIsGrand == CountersOK => CurrentStats = Grand
BY CombinedFacts DEF CountersOK, CurrentStats, Grand

\* Every completion is counted once across all queues of a stream, as processed
\* or dropped, and the discards of restarts are among the drops.
THEOREM StatsStayConsistent == Spec => []StatsConsistent
<1>1. StatsInv => StatsConsistent
  BY ReportedIsGrand DEF StatsInv, Balanced, StatsConsistent
<1> QED BY StatsInvariance, <1>1, PTL

\* No operation, and no retirement of a queue, takes a reported counter back.
THEOREM StatsOnlyGrow == Spec => StatsNeverDecrease
<1>1. QueueInv /\ StatsInv /\ [Next]_vars
        => [\A f \in DOMAIN stats : CurrentStats'[f] >= CurrentStats[f]]_vars
  <2> SUFFICES ASSUME QueueInv, StatsInv, [Next]_vars, NEW f \in DOMAIN stats
               PROVE  CurrentStats'[f] >= CurrentStats[f]
    OBVIOUS
  <2>1. f \in Fields /\ CountersOK /\ CountersOK' /\ CountsOne
    BY StepCounts, StatsFields DEF StatsInv, CountersOK
  <2>2. CurrentStats = Grand /\ CurrentStats' = Grand'
    <3>1. Combined(total', NoStats) = total'
      BY <2>1, CombinedFacts DEF CountersOK
    <3>2. CurrentStats' = Grand'
      BY <2>1, <3>1 DEF CountersOK, CurrentStats, Grand, Combined
    <3> QED BY <2>1, <3>2, ReportedIsGrand
  <2>3. Grand[f] \in Counter
    BY <2>1, CombinedFacts, StatsFields DEF CountersOK, Grand
  <2>4. PICK fields \in Events : Grand' = Counted(Grand, fields)
    BY <2>1 DEF CountsOne
  <2>5. Grand'[f] = IF f \in fields THEN Plus(Grand[f], 1) ELSE Grand[f]
    BY <2>1, <2>4 DEF Counted
  <2>6. Grand'[f] >= Grand[f]
    BY <2>3, <2>5, PlusFacts DEF Counter
  <2> QED BY <2>2, <2>6
<1> QED BY StatsInvariance, <1>1, PTL DEF Spec, StatsNeverDecrease

-----------------------------------------------------------------------------
(* Types *)

\* The part of TypeOK that neither invariant says.
Places ==
  /\ phase \in {"None", "New", "NewRx", "Running", "Cleanup", "Paused"}
  /\ hwOn \in BOOLEAN
  /\ spare \in 0 .. Transfers

LEMMA StepPlaces ==
  ASSUME Places, [Next]_vars
  PROVE  Places'
<1>1. CASE Create \/ RetireQueue \/ Initialize
  BY <1>1, TransfersAssumption
     DEF Places, Create, New, RetireQueue, Retire, Initialize
<1>2. CASE Accept
  <2>1. 0 \in 0 .. Transfers
    BY TransfersAssumption
  <2>2. hwOn' = hwOn /\ (Discard \/ Expose \/ Reject)
    BY <1>2 DEF Accept
  <2>3. \/ phase' = phase /\ spare' = spare
        \/ phase' = "None" /\ spare' = 0
    BY <2>2 DEF Discard, Expose, Reject, Retire
  <2> QED BY <2>1, <2>2, <2>3 DEF Places
<1>3. CASE \/ TurnOff \/ TurnOn \/ InitializeFails \/ StopBegin \/ StopOk \/ StopErr
  BY <1>3 DEF Places, TurnOff, TurnOn, InitializeFails, StopBegin, StopOk, StopErr
<1>4. CASE \/ ReadBegin \/ BlockUsed \/ DiscardCurrent \/ Abandon \/ Complete
           \/ UNCHANGED vars
  BY <1>4 DEF Places, ReadBegin, BlockUsed, DiscardCurrent, Abandon, Complete, vars
<1> QED BY <1>1, <1>2, <1>3, <1>4 DEF Next

\* The variables keep their types, for every number of transfers and every bound
\* of the counters.
THEOREM QueueTypeCorrect == Spec => []TypeOK
<1>1. Init => Places
  <2>1. 0 \in 0 .. Transfers
    BY TransfersAssumption
  <2> QED BY <2>1 DEF Init, Places
<1>2. Places /\ [Next]_vars => Places'
  BY StepPlaces
<1>3. QueueInv /\ StatsInv /\ Places => TypeOK
  <2> SUFFICES ASSUME QueueInv, StatsInv, Places PROVE TypeOK
    OBVIOUS
  <2>1. flight \in Seq(Transfer) /\ discard \in Nat
    BY LenProperties DEF QueueInv, Aged
  <2> QED BY <2>1 DEF QueueInv, Shape, StatsInv, CountersOK, Places, TypeOK, Block
<1> QED BY StatsInvariance, <1>1, <1>2, <1>3, PTL DEF Spec
=============================================================================
