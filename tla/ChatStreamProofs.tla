--------------------------- MODULE ChatStreamProofs ---------------------------
(***************************************************************************)
(* Proofs about ChatStream for any capacity of the queue and any number of *)
(* events.  The invariant that makes DoneMeansOver inductive is that the   *)
(* sentinel is in the queue only when the task that put it there is done.  *)
(***************************************************************************)
EXTENDS ChatStream, SequenceTheorems, TLAPS

StreamInv ==
    /\ TypeOK
    /\ phase = "preamble" => agent = "none"
    /\ agent # "done" => \A n \in 1..Len(queue) : queue[n] # End
    /\ phase \in {"last", "finishing", "ended"} => agent = "done"
    /\ dropped # {} => cancel
    /\ watcher = "stopped" => cancel \/ agent = "done"

LEMMA InitStreamInv == Init => StreamInv
<1> SUFFICES ASSUME Init PROVE StreamInv
  OBVIOUS
<1>1. <<>> \in Seq(Nat) /\ Len(<<>>) = 0 /\ 0 <= Capacity
  BY StreamAssumption
<1>2. TypeOK
  BY <1>1 DEF Init, TypeOK, Reading, Working
<1> QED BY <1>1, <1>2 DEF Init, StreamInv

\* emit keeps the types of the queue and of the events, adds no sentinel, and
\* a drop cancels the run.
LEMMA EmitFacts ==
    ASSUME StreamInv, Emit
    PROVE  /\ queue' \in Seq(Nat) /\ Len(queue') <= Capacity
           /\ sent' \in Nat /\ dropped' \subseteq Nat /\ cancel' \in BOOLEAN
           /\ agent # "done" => \A n \in 1..Len(queue') : queue'[n] # End
           /\ dropped' # {} => cancel'
           /\ cancel => cancel'
<1>0. queue \in Seq(Nat) /\ Len(queue) \in Nat /\ sent \in Nat /\ Capacity \in Nat
  BY StreamAssumption DEF StreamInv, TypeOK
<1>1. CASE Full
  <2>1. sent' = sent + 1 /\ dropped' = dropped \cup {sent + 1} /\ cancel' = TRUE /\ queue' = queue
    BY <1>1 DEF Emit
  <2>2. sent + 1 \in Nat
    BY <1>0
  <2> QED BY <2>1, <2>2 DEF StreamInv, TypeOK
<1>2. CASE ~Full
  <2>1. queue' = Append(queue, sent + 1) /\ dropped' = dropped /\ cancel' = cancel /\ sent' = sent + 1
    BY <1>2 DEF Emit
  <2>2. queue' \in Seq(Nat) /\ Len(queue') = Len(queue) + 1
        /\ \A n \in 1..Len(queue') : queue'[n] = IF n = Len(queue) + 1 THEN sent + 1 ELSE queue[n]
    BY <1>0, <2>1, AppendProperties
  <2>3. sent + 1 # End /\ Len(queue) < Capacity
    BY <1>0, <1>2 DEF End, Full
  <2> QED BY <1>0, <2>1, <2>2, <2>3 DEF StreamInv, TypeOK
<1> QED BY <1>1, <1>2

\* What is left of the queue when its first item was taken.
LEMMA TailFacts ==
    ASSUME NEW q \in Seq(Nat), q # <<>>
    PROVE  /\ Head(q) \in Nat /\ Tail(q) \in Seq(Nat) /\ Len(Tail(q)) = Len(q) - 1
           /\ Head(q) = q[1] /\ 1 \in 1..Len(q)
           /\ \A n \in 1..Len(Tail(q)) : Tail(q)[n] = q[n + 1] /\ n + 1 \in 1..Len(q)
BY HeadTailProperties, EmptySeq

\* Every step keeps the invariant.
LEMMA NextStreamInv == StreamInv /\ [Next]_vars => StreamInv'
<1> SUFFICES ASSUME StreamInv, [Next]_vars PROVE StreamInv'
  OBVIOUS
<1>0. TypeOK /\ Capacity \in Nat
  BY StreamAssumption DEF StreamInv
<1> USE <1>0 DEF runVars, Reading, Working
<1>1. CASE Work \/ Conclude \/ Raise
  <2>1. Emit /\ agent # "done" /\ agent' # "none" /\ sent + 1 \in Nat
    BY <1>1 DEF Work, Conclude, Raise, TypeOK
  <2>2. terminal' \in Nat /\ UNCHANGED <<client, phase, watcher, got>>
        /\ agent' \in {"running", "closing", "leaving"}
    BY <1>1, <2>1 DEF Work, Conclude, Raise, TypeOK
  <2>3. phase # "preamble" /\ phase \notin {"last", "finishing", "ended"}
    BY <1>1 DEF Work, Conclude, Raise, StreamInv
  <2>4. TypeOK'
    BY <2>1, <2>2, EmitFacts DEF TypeOK
  <2> QED BY <2>1, <2>2, <2>3, <2>4, EmitFacts DEF StreamInv
<1>2. CASE Boot \/ Block \/ Unblock \/ Leave
  <2>1. /\ UNCHANGED <<client, watcher, cancel, queue, sent, terminal, dropped, got>>
        /\ agent' \in Working
        /\ phase' = "streaming" \/ (phase' = phase /\ agent \in Working)
    BY <1>2 DEF Boot, Block, Unblock, Leave
  <2>2. agent \in Working => agent # "done"
    OBVIOUS
  <2>3. agent # "done"
    BY <1>2 DEF Boot, Block, Unblock, Leave, StreamInv
  <2>4. TypeOK'
    BY <2>1 DEF TypeOK
  <2> QED BY <2>1, <2>2, <2>3, <2>4 DEF StreamInv
<1>3. CASE PutSentinel
  <2>1. queue' \in Seq(Nat) /\ Len(queue') <= Capacity
    <3>1. CASE Full
      BY <1>3, <3>1 DEF PutSentinel, TypeOK
    <3>2. CASE ~Full
      BY <1>3, <3>2, AppendProperties DEF PutSentinel, Full, TypeOK, End
    <3> QED BY <3>1, <3>2
  <2> QED BY <1>3, <2>1 DEF PutSentinel, StreamInv, TypeOK
<1>4. CASE Take
  <2>1. queue \in Seq(Nat) /\ queue # <<>> /\ queue' = Tail(queue)
    BY <1>4 DEF Take, TypeOK
  <2>2. /\ Head(queue) \in Nat /\ Tail(queue) \in Seq(Nat) /\ Len(Tail(queue)) = Len(queue) - 1
        /\ Head(queue) = queue[1] /\ 1 \in 1..Len(queue)
        /\ \A n \in 1..Len(Tail(queue)) : Tail(queue)[n] = queue[n + 1] /\ n + 1 \in 1..Len(queue)
    BY <2>1, TailFacts
  <2>3. Len(queue') <= Capacity
    BY <2>1, <2>2 DEF TypeOK
  <2>4. CASE Head(queue) = End
    <3>1. agent = "done"
      BY <2>2, <2>4 DEF StreamInv
    <3> QED BY <1>4, <2>1, <2>2, <2>3, <2>4, <3>1 DEF Take, StreamInv, TypeOK
  <2>5. CASE Head(queue) # End
    <3>1. got' \in Seq(Nat) /\ phase' = "streaming" /\ UNCHANGED <<client, watcher, cancel, agent, sent, terminal, dropped>>
      <4>1. got \in Seq(Nat) /\ got' = Append(got, Head(queue))
        BY <1>4, <2>5 DEF Take, TypeOK
      <4>2. got' \in Seq(Nat)
        BY <2>2, <4>1, AppendProperties
      <4> QED BY <1>4, <2>5, <4>2 DEF Take
    <3> QED BY <2>1, <2>2, <2>3, <3>1 DEF StreamInv, TypeOK
  <2> QED BY <2>4, <2>5
<1>5. CASE IdleAfterRun \/ LastTimeout
  BY <1>5 DEF IdleAfterRun, LastTimeout, StreamInv, TypeOK
<1>6. CASE Finish
  BY <1>6 DEF Finish, StreamInv, TypeOK
<1>7. CASE CloseGenerator \/ Disconnect \/ Watch
  BY <1>7 DEF CloseGenerator, Disconnect, Watch, StreamInv, TypeOK
<1>8. CASE UNCHANGED vars
  BY <1>8 DEF vars, StreamInv, TypeOK
<1> QED
  BY <1>1, <1>2, <1>3, <1>4, <1>5, <1>6, <1>7, <1>8 DEF Next, AgentStep, StreamStep

\* The invariant of the stream holds in every reachable state.
THEOREM SpecStreamInv == Spec => []StreamInv
BY InitStreamInv, NextStreamInv, PTL DEF Spec

\* Type correctness, and the bound on the queue.
THEOREM SpecStreamTypeOK == Spec => []TypeOK
<1>1. StreamInv => TypeOK
  BY DEF StreamInv
<1> QED BY <1>1, SpecStreamInv, PTL

\* The generator leaves its loop only after the run is done: the code behind
\* the loop that cancels a run never finds one to cancel.
THEOREM SpecDoneMeansOver == Spec => []DoneMeansOver
<1>1. StreamInv => DoneMeansOver
  BY DEF StreamInv, DoneMeansOver
<1> QED BY <1>1, SpecStreamInv, PTL

\* A run that was not cancelled is watched for a disconnect until it is done.
THEOREM SpecRunStaysWatched == Spec => []RunStaysWatched
<1>1. StreamInv => RunStaysWatched
  BY DEF StreamInv, TypeOK, RunStaysWatched, Working
<1> QED BY <1>1, SpecStreamInv, PTL

\* An event is dropped only together with a cancellation of the run.
THEOREM SpecDropCancels == Spec => [](dropped # {} => cancel)
<1>1. StreamInv => (dropped # {} => cancel)
  BY DEF StreamInv
<1> QED BY <1>1, SpecStreamInv, PTL
-----------------------------------------------------------------------------
(* What became of every event.  got is the beginning of the emitted events  *)
(* that were not dropped and the queue goes on where it ends; Waiting       *)
(* counts the events in the queue.                                          *)
Waiting == IF \E n \in 1..Len(queue) : queue[n] = End THEN Len(queue) - 1 ELSE Len(queue)

InOrder ==
    /\ \A n \in 1..Len(queue) : queue[n] = End => n = Len(queue)
    /\ \A m, n \in 1..Len(got) : m < n => got[m] < got[n]
    /\ \A m, n \in 1..Len(queue) : m < n /\ queue[n] # End => queue[m] < queue[n]
    /\ \A m \in 1..Len(got), n \in 1..Len(queue) : queue[n] # End => got[m] < queue[n]

Accounted ==
    /\ \A n \in 1..Len(got) : got[n] \in 1..sent /\ got[n] \notin dropped
    /\ \A n \in 1..Len(queue) : queue[n] \in 0..sent /\ queue[n] \notin dropped
    /\ dropped \subseteq 1..sent
    /\ \A x \in 1..sent : \/ x \in dropped
                          \/ \E n \in 1..Len(got) : got[n] = x
                          \/ \E n \in 1..Len(queue) : queue[n] = x

Counted ==
    /\ dropped = {} => sent = Len(got) + Waiting
    /\ phase \in {"finishing", "ended"} => queue = <<>>
    /\ terminal \in 0..sent
    /\ agent \in {"closing", "leaving", "done"} => terminal \in 1..sent

DeliveryInv == InOrder /\ Accounted /\ Counted

\* Before the request.
LEMMA InitDeliveryInv == Init => DeliveryInv
<1> SUFFICES ASSUME Init PROVE DeliveryInv
  OBVIOUS
<1>1. Len(got) = 0 /\ Len(queue) = 0 /\ sent = 0 /\ dropped = {} /\ agent = "none" /\ phase = "preamble"
      /\ terminal = 0
  BY DEF Init
<1> QED
  BY <1>1 DEF DeliveryInv, InOrder, Accounted, Counted, Waiting

\* A sequence with one more item.
LEMMA AppendFacts ==
    ASSUME NEW q \in Seq(Nat), NEW x \in Nat
    PROVE  /\ Len(Append(q, x)) = Len(q) + 1 /\ Len(q) \in Nat
           /\ \A n \in 1..Len(q) : Append(q, x)[n] = q[n] /\ n \in 1..Len(Append(q, x))
           /\ Append(q, x)[Len(q) + 1] = x /\ Len(q) + 1 \in 1..Len(Append(q, x))
           /\ \A n \in 1..Len(Append(q, x)) : n \in 1..Len(q) \/ n = Len(q) + 1
BY AppendProperties

\* emit appends the event or drops it.
LEMMA EmitDelivery ==
    ASSUME StreamInv, DeliveryInv, Emit, UNCHANGED <<phase, got>>,
           agent \in Working, agent' # "none",
           agent' \in {"closing", "leaving", "done"} =>
               terminal' \in 1..(sent + 1),
           terminal' \in 0..(sent + 1)
    PROVE  DeliveryInv'
<1>0. /\ queue \in Seq(Nat) /\ got \in Seq(Nat) /\ Len(queue) \in Nat /\ Len(got) \in Nat
      /\ sent \in Nat /\ sent' = sent + 1 /\ Capacity \in Nat
  BY StreamAssumption DEF StreamInv, TypeOK, Emit
<1>1. agent # "done" /\ \A n \in 1..Len(queue) : queue[n] # End
  BY DEF StreamInv, Working
<1>2. phase' = phase /\ got' = got /\ phase \notin {"finishing", "ended"}
  BY <1>1 DEF StreamInv
<1>3. CASE Full
  <2>1. queue' = queue /\ dropped' = dropped \cup {sent + 1}
    BY <1>3 DEF Emit
  <2>2. InOrder'
    BY <1>2, <2>1 DEF DeliveryInv, InOrder
  <2>3. Accounted'
    <3>1. \A n \in 1..Len(got) : got[n] \in 1..(sent + 1) /\ got[n] \notin dropped \cup {sent + 1}
      BY <1>0 DEF DeliveryInv, Accounted
    <3>2. \A n \in 1..Len(queue) : queue[n] \in 0..(sent + 1) /\ queue[n] \notin dropped \cup {sent + 1}
      BY <1>0 DEF DeliveryInv, Accounted
    <3>3. dropped \cup {sent + 1} \subseteq 1..(sent + 1)
      BY <1>0 DEF DeliveryInv, Accounted
    <3>4. \A x \in 1..(sent + 1) : x \in 1..sent \/ x = sent + 1
      BY <1>0
    <3>5. \A x \in 1..(sent + 1) : \/ x \in dropped \cup {sent + 1}
                                   \/ \E n \in 1..Len(got) : got[n] = x
                                   \/ \E n \in 1..Len(queue) : queue[n] = x
      BY <3>4 DEF DeliveryInv, Accounted
    <3> QED
      BY <1>0, <1>2, <2>1, <3>1, <3>2, <3>3, <3>5 DEF Accounted
  <2>4. Counted'
    BY <1>0, <1>2, <2>1 DEF Counted
  <2> QED
    BY <2>2, <2>3, <2>4 DEF DeliveryInv
<1>4. CASE ~Full
  <2>1. queue' = Append(queue, sent + 1) /\ dropped' = dropped
    BY <1>4 DEF Emit
  <2>2. /\ Len(queue') = Len(queue) + 1
        /\ \A n \in 1..Len(queue) : queue'[n] = queue[n] /\ n \in 1..Len(queue')
        /\ queue'[Len(queue) + 1] = sent + 1 /\ Len(queue) + 1 \in 1..Len(queue')
        /\ \A n \in 1..Len(queue') : n \in 1..Len(queue) \/ n = Len(queue) + 1
    BY <1>0, <2>1, AppendFacts
  <2>3. ASSUME NEW n \in 1..Len(queue') PROVE queue'[n] # End
    <3>1. CASE n \in 1..Len(queue)
      BY <1>1, <2>2, <3>1
    <3>2. CASE n = Len(queue) + 1
      BY <1>0, <2>2, <3>2 DEF End
    <3> QED
      BY <2>2, <3>1, <3>2
  <2>4. InOrder'
    <3>1. \A n \in 1..Len(got) : got[n] < sent + 1
      BY <1>0 DEF DeliveryInv, Accounted
    <3>2. \A n \in 1..Len(queue) : queue[n] < sent + 1
      BY <1>0 DEF DeliveryInv, Accounted
    <3>3. ASSUME NEW m \in 1..Len(queue'), NEW n \in 1..Len(queue'), m < n
          PROVE queue'[m] < queue'[n]
      <4>1. m \in 1..Len(queue)
        BY <1>0, <2>2, <3>3
      <4>2. CASE n \in 1..Len(queue)
        BY <4>1, <4>2, <2>2, <1>1, <3>3 DEF DeliveryInv, InOrder
      <4>3. CASE n = Len(queue) + 1
        BY <4>1, <4>3, <2>2, <3>2
      <4> QED
        BY <4>2, <4>3, <2>2
    <3>4. \A m \in 1..Len(got), n \in 1..Len(queue') : got[m] < queue'[n]
      BY <1>1, <2>2, <3>1 DEF DeliveryInv, InOrder
    <3> QED
      BY <1>2, <2>3, <3>3, <3>4 DEF DeliveryInv, InOrder
  <2>5. Accounted'
    <3>1. \A n \in 1..Len(got) : got[n] \in 1..(sent + 1) /\ got[n] \notin dropped
      BY <1>0 DEF DeliveryInv, Accounted
    <3>2. \A n \in 1..Len(queue') : queue'[n] \in 0..(sent + 1) /\ queue'[n] \notin dropped
      BY <1>0, <2>2 DEF DeliveryInv, Accounted
    <3>3. \A x \in 1..(sent + 1) : x \in 1..sent \/ x = sent + 1
      BY <1>0
    <3>4. \A x \in 1..(sent + 1) : \/ x \in dropped
                                   \/ \E n \in 1..Len(got) : got[n] = x
                                   \/ \E n \in 1..Len(queue') : queue'[n] = x
      BY <2>2, <3>3 DEF DeliveryInv, Accounted
    <3>5. dropped \subseteq 1..(sent + 1)
      BY <1>0 DEF DeliveryInv, Accounted
    <3> QED
      BY <1>0, <1>2, <2>1, <3>1, <3>2, <3>4, <3>5 DEF Accounted
  <2>6. Counted'
    <3>1. Waiting = Len(queue) /\ Waiting' = Len(queue) + 1
      <4>1. ~\E n \in 1..Len(queue) : queue[n] = End
        BY <1>1
      <4>2. ~\E n \in 1..Len(queue') : queue'[n] = End
        BY <2>3
      <4> QED
        BY <4>1, <4>2, <2>2 DEF Waiting
    <3> DEFINE waits == Len(queue)
               told == Len(got)
    <3>2. dropped = {} => sent = told + waits
      BY <3>1 DEF DeliveryInv, Counted
    <3>3. told \in Nat /\ waits \in Nat /\ sent \in Nat /\ sent' = sent + 1
          /\ Waiting' = waits + 1 /\ Len(got') = told
      BY <1>0, <1>2, <3>1
    <3> HIDE DEF waits, told
    <3>4. dropped' = {} => sent' = Len(got') + Waiting'
      BY <2>1, <3>2, <3>3
    <3> QED
      BY <1>0, <1>2, <3>4 DEF Counted
  <2> QED
    BY <2>4, <2>5, <2>6 DEF DeliveryInv
<1> QED
  BY <1>3, <1>4

\* The sentinel is no event.
LEMMA SentinelDelivery == StreamInv /\ DeliveryInv /\ PutSentinel => DeliveryInv'
<1> SUFFICES ASSUME StreamInv, DeliveryInv, PutSentinel PROVE DeliveryInv'
  OBVIOUS
<1>0. /\ queue \in Seq(Nat) /\ got \in Seq(Nat) /\ Len(queue) \in Nat /\ Len(got) \in Nat
      /\ sent \in Nat /\ End \in Nat
  BY DEF StreamInv, TypeOK, End
<1>1. agent = "leaving" /\ agent' = "done" /\ \A n \in 1..Len(queue) : queue[n] # End
  BY DEF PutSentinel, StreamInv
<1>2. UNCHANGED <<phase, sent, terminal, dropped, got>> /\ phase \notin {"finishing", "ended"}
  BY <1>1 DEF PutSentinel, StreamInv
<1>3. CASE Full
  <2>1. queue' = queue
    BY <1>3 DEF PutSentinel
  <2> QED
    BY <1>1, <1>2, <2>1 DEF DeliveryInv, InOrder, Accounted, Counted, Waiting
<1>4. CASE ~Full
  <2>1. queue' = Append(queue, End)
    BY <1>4 DEF PutSentinel
  <2>2. /\ Len(queue') = Len(queue) + 1
        /\ \A n \in 1..Len(queue) : queue'[n] = queue[n] /\ n \in 1..Len(queue')
        /\ queue'[Len(queue) + 1] = End /\ Len(queue) + 1 \in 1..Len(queue')
        /\ \A n \in 1..Len(queue') : n \in 1..Len(queue) \/ n = Len(queue) + 1
    BY <1>0, <2>1, AppendFacts
  <2>3. \A n \in 1..Len(queue') : queue'[n] # End => n \in 1..Len(queue) /\ queue'[n] = queue[n]
    BY <2>2
  <2>4. InOrder'
    <3>1. \A n \in 1..Len(queue') : queue'[n] = End => n = Len(queue')
      BY <1>1, <2>2
    <3>2. ASSUME NEW m \in 1..Len(queue'), NEW n \in 1..Len(queue'), m < n, queue'[n] # End
          PROVE queue'[m] < queue'[n]
      <4>1. n \in 1..Len(queue) /\ m \in 1..Len(queue)
        BY <1>0, <2>2, <2>3, <3>2
      <4> QED
        BY <4>1, <1>1, <2>2, <3>2 DEF DeliveryInv, InOrder
    <3>3. \A m \in 1..Len(got), n \in 1..Len(queue') : queue'[n] # End => got[m] < queue'[n]
      BY <1>1, <2>3 DEF DeliveryInv, InOrder
    <3> QED
      BY <1>2, <3>1, <3>2, <3>3 DEF DeliveryInv, InOrder
  <2>5. Accounted'
    <3>1. End \in 0..sent /\ End \notin dropped
      BY <1>0 DEF DeliveryInv, Accounted, End
    <3>2. \A n \in 1..Len(queue') : queue'[n] \in 0..sent /\ queue'[n] \notin dropped
      BY <2>2, <3>1 DEF DeliveryInv, Accounted
    <3>3. \A x \in 1..sent : (\E n \in 1..Len(queue) : queue[n] = x)
                             => \E n \in 1..Len(queue') : queue'[n] = x
      BY <2>2
    <3> QED
      BY <1>2, <3>2, <3>3 DEF DeliveryInv, Accounted
  <2>6. Counted'
    <3>1. Waiting = Len(queue) /\ Waiting' = Len(queue)
      BY <1>0, <1>1, <2>2 DEF Waiting
    <3> QED
      BY <1>1, <1>2, <3>1 DEF DeliveryInv, Counted
  <2> QED
    BY <2>4, <2>5, <2>6 DEF DeliveryInv
<1> QED
  BY <1>3, <1>4

\* An item that is taken moves from the queue to the client.
LEMMA TakeDelivery == StreamInv /\ DeliveryInv /\ Take => DeliveryInv'
<1> SUFFICES ASSUME StreamInv, DeliveryInv, Take PROVE DeliveryInv'
  OBVIOUS
<1>0. /\ queue \in Seq(Nat) /\ queue # <<>> /\ queue' = Tail(queue)
      /\ got \in Seq(Nat) /\ Len(queue) \in Nat /\ Len(got) \in Nat /\ sent \in Nat
  BY DEF StreamInv, TypeOK, Take
<1>1. UNCHANGED <<sent, terminal, dropped, agent>>
  BY DEF Take, runVars
<1>2. /\ Len(queue') = Len(queue) - 1
      /\ Head(queue) = queue[1] /\ 1 \in 1..Len(queue) /\ Head(queue) \in Nat /\ queue' \in Seq(Nat)
      /\ \A n \in 1..Len(queue') : queue'[n] = queue[n + 1] /\ n + 1 \in 1..Len(queue)
      /\ \A n \in 1..Len(queue) : n = 1 \/ (n - 1 \in 1..Len(queue') /\ queue'[n - 1] = queue[n])
  <2>1. /\ Len(queue') = Len(queue) - 1 /\ Head(queue) = queue[1] /\ 1 \in 1..Len(queue)
        /\ Head(queue) \in Nat /\ queue' \in Seq(Nat)
        /\ \A n \in 1..Len(queue') : queue'[n] = queue[n + 1] /\ n + 1 \in 1..Len(queue)
    BY <1>0, TailFacts
  <2>2. ASSUME NEW n \in 1..Len(queue), n # 1
        PROVE n - 1 \in 1..Len(queue') /\ queue'[n - 1] = queue[n]
    <3>1. n - 1 \in 1..Len(queue') /\ n - 1 + 1 = n
      BY <1>0, <2>1, <2>2
    <3> QED
      BY <2>1, <3>1
  <2> QED
    BY <2>1, <2>2
<1>3. CASE Head(queue) = End
  <2>1. phase' = "finishing" /\ got' = got
    BY <1>3 DEF Take
  <2>2. Len(queue) = 1 /\ Len(queue') = 0
    <3>1. 1 = Len(queue)
      BY <1>2, <1>3 DEF DeliveryInv, InOrder
    <3>2. Len(queue') = 1 - 1
      BY <1>2, <3>1
    <3> QED
      BY <3>1, <3>2
  <2>3. queue' = <<>>
    BY <1>2, <2>2
  <2>4. InOrder'
    BY <2>1, <2>2 DEF DeliveryInv, InOrder
  <2>5. Accounted'
    <3>1. \A x \in 1..sent : ~\E n \in 1..Len(queue) : queue[n] = x
      BY <1>0, <1>2, <1>3, <2>2 DEF End
    <3> QED
      BY <1>1, <2>1, <2>2, <3>1 DEF DeliveryInv, Accounted
  <2>6. Counted'
    <3>1. Waiting = 0 /\ Waiting' = 0
      BY <1>2, <1>3, <2>2 DEF Waiting
    <3> QED
      BY <1>1, <2>1, <2>3, <3>1 DEF DeliveryInv, Counted
  <2> QED
    BY <2>4, <2>5, <2>6 DEF DeliveryInv
<1>4. CASE Head(queue) # End
  <2>1. phase' = "streaming" /\ got' = Append(got, queue[1])
    BY <1>2, <1>4 DEF Take
  <2>2. /\ Len(got') = Len(got) + 1
        /\ \A n \in 1..Len(got) : got'[n] = got[n] /\ n \in 1..Len(got')
        /\ got'[Len(got) + 1] = queue[1] /\ Len(got) + 1 \in 1..Len(got')
        /\ \A n \in 1..Len(got') : n \in 1..Len(got) \/ n = Len(got) + 1
    BY <1>0, <1>2, <2>1, AppendFacts
  <2>3. InOrder'
    <3>1. ASSUME NEW n \in 1..Len(queue'), queue'[n] = End
          PROVE n = Len(queue')
      <4>1. n + 1 = Len(queue)
        BY <1>2, <3>1 DEF DeliveryInv, InOrder
      <4> DEFINE rest == Len(queue')
                 all == Len(queue)
      <4>2. n \in 1..rest /\ n + 1 = all /\ all \in Nat /\ rest = all - 1
        BY <1>0, <1>2, <3>1, <4>1
      <4> HIDE DEF rest, all
      <4>3. n = rest
        BY ONLY <4>2
      <4> QED
        BY <4>3 DEF rest
    <3>2. ASSUME NEW m \in 1..Len(got'), NEW n \in 1..Len(got'), m < n
          PROVE got'[m] < got'[n]
      <4>1. m \in 1..Len(got)
        BY <1>0, <2>2, <3>2
      <4>2. CASE n \in 1..Len(got)
        BY <4>1, <4>2, <2>2, <3>2 DEF DeliveryInv, InOrder
      <4>3. CASE n = Len(got) + 1
        BY <4>1, <4>3, <1>2, <1>4, <2>2 DEF DeliveryInv, InOrder
      <4> QED
        BY <4>2, <4>3, <2>2
    <3>3. ASSUME NEW m \in 1..Len(queue'), NEW n \in 1..Len(queue'), m < n, queue'[n] # End
          PROVE queue'[m] < queue'[n]
      <4>1. m + 1 \in 1..Len(queue) /\ n + 1 \in 1..Len(queue) /\ m + 1 < n + 1
        BY <1>2, <3>3
      <4> QED
        BY <4>1, <1>2, <3>3 DEF DeliveryInv, InOrder
    <3>4. ASSUME NEW m \in 1..Len(got'), NEW n \in 1..Len(queue'), queue'[n] # End
          PROVE got'[m] < queue'[n]
      <4>1. n + 1 \in 1..Len(queue) /\ queue'[n] = queue[n + 1] /\ 1 < n + 1
        BY <1>0, <1>2
      <4>2. CASE m \in 1..Len(got)
        BY <4>1, <4>2, <2>2, <3>4 DEF DeliveryInv, InOrder
      <4>3. CASE m = Len(got) + 1
        BY <4>1, <4>3, <1>2, <2>2, <3>4 DEF DeliveryInv, InOrder
      <4> QED
        BY <4>2, <4>3, <2>2
    <3> QED
      BY <3>1, <3>2, <3>3, <3>4 DEF InOrder
  <2>4. Accounted'
    <3>1. queue[1] \in 1..sent /\ queue[1] \notin dropped
      BY <1>0, <1>2, <1>4 DEF DeliveryInv, Accounted, End
    <3>2. \A n \in 1..Len(got') : got'[n] \in 1..sent /\ got'[n] \notin dropped
      BY <2>2, <3>1 DEF DeliveryInv, Accounted
    <3>3. \A n \in 1..Len(queue') : queue'[n] \in 0..sent /\ queue'[n] \notin dropped
      BY <1>2 DEF DeliveryInv, Accounted
    <3>4. ASSUME NEW x \in 1..sent, NEW n \in 1..Len(queue), queue[n] = x
          PROVE \/ \E k \in 1..Len(got') : got'[k] = x
                \/ \E k \in 1..Len(queue') : queue'[k] = x
      BY <1>2, <2>2, <3>4
    <3>5. ASSUME NEW x \in 1..sent, NEW n \in 1..Len(got), got[n] = x
          PROVE \E k \in 1..Len(got') : got'[k] = x
      BY <2>2, <3>5
    <3>6. dropped \subseteq 1..sent
      BY DEF DeliveryInv, Accounted
    <3>7. ASSUME NEW x \in 1..sent
          PROVE \/ x \in dropped
                \/ \E n \in 1..Len(got') : got'[n] = x
                \/ \E n \in 1..Len(queue') : queue'[n] = x
      <4>1. \/ x \in dropped
            \/ \E n \in 1..Len(got) : got[n] = x
            \/ \E n \in 1..Len(queue) : queue[n] = x
        BY DEF DeliveryInv, Accounted
      <4> QED
        BY <3>4, <3>5, <4>1
    <3>8. sent' = sent /\ dropped' = dropped
      BY <1>1
    <3> QED
      BY <3>2, <3>3, <3>6, <3>7, <3>8 DEF Accounted
  <2>5. Counted'
    <3>1. (\E n \in 1..Len(queue) : queue[n] = End) <=> (\E n \in 1..Len(queue') : queue'[n] = End)
      <4>1. ASSUME NEW n \in 1..Len(queue), queue[n] = End
            PROVE  n - 1 \in 1..Len(queue') /\ queue'[n - 1] = End
        BY <1>2, <1>4, <4>1
      <4>2. ASSUME NEW n \in 1..Len(queue'), queue'[n] = End
            PROVE  n + 1 \in 1..Len(queue) /\ queue[n + 1] = End
        BY <1>2, <4>2
      <4> QED
        BY <4>1, <4>2
    <3>2. Len(queue') = Len(queue) - 1 /\ Len(queue) \in Nat
      BY <1>0, <1>2
    <3>3. Waiting' = Waiting - 1 /\ Waiting \in Int
      BY <3>1, <3>2 DEF Waiting
    <3>4. /\ sent' = sent /\ terminal' = terminal /\ agent' = agent /\ dropped' = dropped
          /\ phase' = "streaming" /\ Len(got') = Len(got) + 1
      BY <1>1, <2>1, <2>2
    <3> QED
      BY <1>0, <3>3, <3>4 DEF DeliveryInv, Counted
  <2> QED
    BY <2>3, <2>4, <2>5 DEF DeliveryInv
<1> QED
  BY <1>3, <1>4

\* Every step keeps account of the events.
LEMMA NextDeliveryInv == StreamInv /\ DeliveryInv /\ [Next]_vars => DeliveryInv'
<1> SUFFICES ASSUME StreamInv, DeliveryInv, [Next]_vars PROVE DeliveryInv'
  OBVIOUS
<1>0. sent \in Nat /\ TypeOK
  BY DEF StreamInv, TypeOK
<1>1. CASE Work
  <2>1. terminal' \in 0..(sent + 1)
    BY <1>0, <1>1 DEF Work, DeliveryInv, Counted
  <2> QED
    BY <1>1, <2>1, EmitDelivery DEF Work, Working
<1>2. CASE Conclude
  <2>1. terminal' \in 1..(sent + 1) /\ terminal' \in 0..(sent + 1)
    BY <1>0, <1>2 DEF Conclude
  <2> QED
    BY <1>2, <2>1, EmitDelivery DEF Conclude, Working
<1>3. CASE Raise
  <2>1. terminal \in 0..sent
    BY DEF DeliveryInv, Counted
  <2>2. terminal' = IF terminal = 0 THEN sent + 1 ELSE terminal
    BY <1>3 DEF Raise
  <2>3. terminal' \in 1..(sent + 1) /\ terminal' \in 0..(sent + 1)
    BY <1>0, <2>1, <2>2
  <2> QED
    BY <1>3, <2>3, EmitDelivery DEF Raise, Working
<1>4. CASE PutSentinel
  BY <1>4, SentinelDelivery
<1>5. CASE Take
  BY <1>5, TakeDelivery
<1>6. CASE Boot \/ Block \/ Unblock \/ Leave
  BY <1>6 DEF Boot, Block, Unblock, Leave, DeliveryInv, InOrder, Accounted, Counted, Waiting
<1>7. CASE IdleAfterRun \/ LastTimeout
  BY <1>7 DEF IdleAfterRun, LastTimeout, runVars, DeliveryInv, InOrder, Accounted, Counted, Waiting
<1>8. CASE Finish
  BY <1>8 DEF Finish, StreamInv, DeliveryInv, InOrder, Accounted, Counted, Waiting
<1>9. CASE CloseGenerator \/ Disconnect \/ Watch
  BY <1>9 DEF CloseGenerator, Disconnect, Watch, runVars, DeliveryInv, InOrder, Accounted, Counted, Waiting
<1>10. CASE UNCHANGED vars
  BY <1>10 DEF vars, DeliveryInv, InOrder, Accounted, Counted, Waiting
<1> QED
  BY <1>1, <1>2, <1>3, <1>4, <1>5, <1>6, <1>7, <1>8, <1>9, <1>10 DEF Next, AgentStep, StreamStep

\* The inductive invariant of the delivery of events.
THEOREM SpecDeliveryInv == Spec => []DeliveryInv
BY InitDeliveryInv, NextDeliveryInv, SpecStreamInv, PTL DEF Spec

\* Every event is written, waits or was dropped, one of them and in order.
THEOREM SpecNothingLostSilently == Spec => []NothingLostSilently
<1>1. StreamInv /\ DeliveryInv => NothingLostSilently
  <2> SUFFICES ASSUME StreamInv, DeliveryInv PROVE NothingLostSilently
    OBVIOUS
  <2>1. /\ got \in Seq(Nat) /\ queue \in Seq(Nat) /\ Len(got) \in Nat /\ Len(queue) \in Nat
        /\ DOMAIN got = 1..Len(got) /\ DOMAIN queue = 1..Len(queue)
    BY DEF StreamInv, TypeOK
  <2>2. Rising(got \o queue)
    <3> DEFINE all == got \o queue
    <3>1. /\ DOMAIN all = 1..(Len(got) + Len(queue))
          /\ \A n \in 1..(Len(got) + Len(queue)) :
                all[n] = IF n <= Len(got) THEN got[n] ELSE queue[n - Len(got)]
      BY <2>1
    <3> HIDE DEF all
    <3>2. ASSUME NEW m \in DOMAIN all, NEW n \in DOMAIN all, m < n, all[n] # End
          PROVE all[m] < all[n]
      <4>1. CASE n <= Len(got)
        <5>1. m \in 1..Len(got) /\ n \in 1..Len(got) /\ all[m] = got[m] /\ all[n] = got[n]
          BY <2>1, <3>1, <3>2, <4>1
        <5> QED
          BY <5>1, <3>2 DEF DeliveryInv, InOrder
      <4>2. CASE ~(n <= Len(got)) /\ m <= Len(got)
        <5>1. m \in 1..Len(got) /\ n - Len(got) \in 1..Len(queue)
              /\ all[m] = got[m] /\ all[n] = queue[n - Len(got)]
          BY <2>1, <3>1, <3>2, <4>2
        <5> QED
          BY <5>1, <3>2 DEF DeliveryInv, InOrder
      <4>3. CASE ~(n <= Len(got)) /\ ~(m <= Len(got))
        <5>1. m - Len(got) \in 1..Len(queue) /\ n - Len(got) \in 1..Len(queue)
              /\ all[m] = queue[m - Len(got)] /\ all[n] = queue[n - Len(got)]
              /\ m - Len(got) < n - Len(got)
          BY <2>1, <3>1, <3>2, <4>3
        <5> QED
          BY <5>1, <3>2 DEF DeliveryInv, InOrder
      <4> QED
        BY <4>1, <4>2, <4>3
    <3> QED
      BY <3>2 DEF Rising, all
  <2>3. 1..sent \subseteq Items(got) \cup Items(queue) \cup dropped
    BY <2>1 DEF DeliveryInv, Accounted, Items
  <2>4. dropped \cap (Items(got) \cup Items(queue)) = {}
    BY <2>1 DEF DeliveryInv, Accounted, Items
  <2> QED
    BY <2>2, <2>3, <2>4 DEF NothingLostSilently, StreamInv
<1> QED
  BY <1>1, SpecStreamInv, SpecDeliveryInv, PTL

\* A stream that ended without a drop told everything, its end included.
THEOREM SpecStreamComplete == Spec => []StreamComplete
<1>1. StreamInv /\ DeliveryInv => StreamComplete
  <2> SUFFICES ASSUME StreamInv, DeliveryInv, phase = "ended", dropped = {}
               PROVE Len(got) = sent /\ terminal \in 1..sent
    BY DEF StreamComplete
  <2>1. queue = <<>> /\ agent = "done" /\ terminal \in 1..sent /\ sent = Len(got) + Waiting
    BY DEF StreamInv, DeliveryInv, Counted
  <2>2. Len(queue) = 0 /\ Len(got) \in Nat
    BY <2>1 DEF StreamInv, TypeOK
  <2>3. Waiting = 0
    BY <2>2 DEF Waiting
  <2> QED
    BY <2>1, <2>2, <2>3
<1> QED
  BY <1>1, SpecStreamInv, SpecDeliveryInv, PTL
=============================================================================
