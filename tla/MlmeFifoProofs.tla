--------------------------- MODULE MlmeFifoProofs ---------------------------
(***************************************************************************)
(* The steps of the MLME queue are steps of MlmeFifo, as long as no        *)
(* request restarts the state machines: for every length of the ring and   *)
(* every number of contexts.                                               *)
(***************************************************************************)
EXTENDS MlmeQueueProofs, SequenceTheorems

USE LenAssumption, MsgAssumption

Element == [msg : Msg, ready : BOOLEAN]

\* What is in the queue was put there by somebody.
IntendedInv == \A i \in Window : intended[i] \in Msg

FifoInv == SteadyInv /\ IntendedInv

---------------------------------------------------------------------------
(* The abstract state, in terms of the ring *)

\* Places in the queue and slots of the window are the same thing.
LEMMA PlaceOfSlot ==
    ASSUME NEW h \in Slots, NEW n \in 0 .. MaxLen
    PROVE  /\ \A k \in 1 .. n : NthFrom(h, k - 1) \in WindowFrom(h, n)
           /\ \A i \in WindowFrom(h, n) : \E k \in 1 .. n : i = NthFrom(h, k - 1)
           /\ \A j, k \in 1 .. n : NthFrom(h, j - 1) = NthFrom(h, k - 1) => j = k
           /\ NthFrom(h, 0) = h
<1>1. \A k \in 1 .. n : NthFrom(h, k - 1) \in WindowFrom(h, n)
  BY DEF WindowFrom
<1>2. ASSUME NEW i \in WindowFrom(h, n)
      PROVE  \E k \in 1 .. n : i = NthFrom(h, k - 1)
  <2>1. PICK j \in 0 .. n - 1 : i = NthFrom(h, j)
    BY DEF WindowFrom
  <2>2. j + 1 \in 1 .. n /\ (j + 1) - 1 = j
    OBVIOUS
  <2> QED BY <2>1, <2>2
<1>3. \A j, k \in 1 .. n : NthFrom(h, j - 1) = NthFrom(h, k - 1) => j = k
  BY DEF NthFrom, Slots
<1>4. NthFrom(h, 0) = h
  BY DEF NthFrom, Slots
<1> QED BY <1>1, <1>2, <1>3, <1>4

AbstractView ==
    /\ FifoQueue \in Seq(Element) /\ Len(FifoQueue) = num
    /\ \A k \in 1 .. num : FifoQueue[k].msg = Message(k) /\ (FifoQueue[k].ready <=> Ready(k))
    /\ SomeoneServes => num > 0 /\ FifoServing = intended[head] /\ intended[head] \in Msg
    /\ ~SomeoneServes => FifoServing = NoMsg

\* The queue of MlmeFifo is the window, and what it serves is the head.
LEMMA AbstractState == FifoInv => AbstractView
<1> SUFFICES ASSUME FifoInv PROVE AbstractView
  OBVIOUS
<1> USE DEF FifoInv, SteadyInv, CounterInv, ElementInv
<1>1. head \in Slots /\ num \in 0 .. MaxLen /\ num \in Nat
  BY DEF TypeOK
<1>2. \A k \in 1 .. num : Message(k) \in Msg
  BY <1>1, PlaceOfSlot DEF IntendedInv, Window, Message
<1>3. FifoQueue \in [1 .. num -> Element]
  <2>1. \A k \in 1 .. num : Ready(k) \in BOOLEAN
    BY <1>1, PlaceOfSlot DEF Ready
  <2> QED BY <1>2, <2>1 DEF FifoQueue, Element
<1>4. FifoQueue \in Seq(Element)
  BY <1>1, <1>3, SeqDef
<1>5. Len(FifoQueue) = num
  <2>1. Len(FifoQueue) \in Nat /\ 1 .. Len(FifoQueue) = 1 .. num
    BY <1>3, <1>4, LenProperties
  <2> QED BY <1>1, <2>1
<1>6. \A k \in 1 .. num : FifoQueue[k].msg = Message(k) /\ (FifoQueue[k].ready <=> Ready(k))
  BY DEF FifoQueue
<1>7. ASSUME SomeoneServes
      PROVE  num > 0 /\ FifoServing = intended[head] /\ intended[head] \in Msg
  <2>1. Served1 \in Contexts /\ Serving(Served1)
    BY <1>7 DEF Served1, SomeoneServes
  <2>2. num > 0 /\ FifoServing = intended[head]
    BY <1>7, <2>1 DEF ServesWholeHead, FifoServing
  <2>3. head \in Window
    BY <2>2, HeadInWindow
  <2> QED BY <2>2, <2>3 DEF IntendedInv
<1>8. ~SomeoneServes => FifoServing = NoMsg
  BY DEF FifoServing
<1> QED BY <1>4, <1>5, <1>6, <1>7, <1>8 DEF AbstractView

\* ... before a step and after it.
LEMMA AbstractNextState == FifoInv' => AbstractView'
BY AbstractState, PTL

\* Queues with the same messages and flags are the same.
LEMMA QueueEqual ==
    ASSUME NEW q \in Seq(Element), NEW r \in Seq(Element), Len(q) = Len(r),
           \A k \in 1 .. Len(q) : q[k].msg = r[k].msg /\ (q[k].ready <=> r[k].ready)
    PROVE  q = r
<1>1. \A k \in 1 .. Len(q) : q[k] \in Element /\ r[k] \in Element
  BY ElementOfSeq
<1>2. \A a, b \in Element : a.msg = b.msg /\ (a.ready <=> b.ready) => a = b
  BY DEF Element
<1>3. \A k \in 1 .. Len(q) : q[k] = r[k]
  BY <1>1, <1>2
<1> QED BY <1>3, SeqEqual

---------------------------------------------------------------------------
(* The steps *)

\* What a step leaves alone if it is a stutter of MlmeFifo.
LEMMA FifoStutter ==
    ASSUME FifoInv, FifoInv', UNCHANGED <<num, head, intended>>,
           SomeoneServes' <=> SomeoneServes,
           \A k \in 1 .. num : Ready(k)' <=> Ready(k)
    PROVE  UNCHANGED Fifo!vars
<1>1. AbstractView /\ AbstractView'
  BY AbstractState, AbstractNextState
<1>2. \A k \in 1 .. num : Message(k)' = Message(k)
  BY DEF Message
<1>3. FifoQueue' = FifoQueue
  <2>1. /\ FifoQueue \in Seq(Element) /\ FifoQueue' \in Seq(Element)
        /\ Len(FifoQueue) = num /\ Len(FifoQueue') = num
    BY <1>1 DEF AbstractView
  <2>2. \A k \in 1 .. num : /\ FifoQueue'[k].msg = FifoQueue[k].msg
                            /\ FifoQueue'[k].ready <=> FifoQueue[k].ready
    BY <1>1, <1>2 DEF AbstractView
  <2> QED BY <2>1, <2>2, QueueEqual
<1>4. FifoServing' = FifoServing
  BY <1>1 DEF AbstractView
<1> QED BY <1>3, <1>4 DEF Fifo!vars

\* A slot is reserved: the message is accepted at the end of the queue.
LEMMA FifoReserve ==
    ASSUME FifoInv, FifoInv', NEW c \in Contexts, NEW m \in Msg, Reserve(c, m),
           num # MaxLen, elem' = elem
    PROVE  Fifo!Accept(m)
<1> USE DEF FifoInv, SteadyInv, CounterInv, ElementInv
<1>1. /\ num' = num + 1 /\ head' = head /\ Occupied' = Occupied
      /\ intended' = [intended EXCEPT ![tail] = m]
  BY DEF Reserve
<1>2. head \in Slots /\ num \in 0 .. MaxLen - 1 /\ tail = NthFrom(head, num) /\ tail \in Slots
  BY DEF TypeOK, RingConsistent
<1>3. tail \notin Window /\ ~Occupied[tail]
  <2>1. tail \notin Window
    BY <1>2, WindowGrows DEF Window
  <2> QED BY <1>2, <2>1 DEF FlagInv
<1>4. AbstractView /\ AbstractView'
  BY AbstractState, AbstractNextState
<1>5. SomeoneServes' <=> SomeoneServes
  BY DEF SomeoneServes, Serving
<1>6. \A k \in 1 .. num : /\ Message(k)' = Message(k)
                          /\ Ready(k)' <=> Ready(k)
  <2>1. \A k \in 1 .. num : NthFrom(head, k - 1) \in Window
    BY <1>2, PlaceOfSlot DEF Window
  <2> QED BY <1>1, <1>3, <1>5, <2>1 DEF Message, Ready, TypeOK
<1>7. ASSUME NEW k, k = num + 1 PROVE Message(k)' = m /\ ~Ready(k)'
  <2>1. k - 1 = num
    BY <1>2, <1>7
  <2>2. k = 1 => ~SomeoneServes
    BY <1>2, <1>4, <1>7 DEF AbstractView
  <2>3. NthFrom(head', k - 1) = tail
    BY <1>1, <1>2, <2>1
  <2>4. intended'[tail] = m /\ ~Occupied'[tail]
    BY <1>1, <1>2, <1>3 DEF TypeOK
  <2> QED BY <1>5, <2>2, <2>3, <2>4 DEF Message, Ready
<1> DEFINE new == [msg |-> m, ready |-> FALSE]
<1>8. FifoQueue' = Append(FifoQueue, new)
  <2>1. /\ FifoQueue \in Seq(Element) /\ FifoQueue' \in Seq(Element) /\ new \in Element
        /\ Len(FifoQueue) = num /\ Len(FifoQueue') = num + 1
    BY <1>1, <1>4 DEF AbstractView, Element
  <2>2. /\ Append(FifoQueue, new) \in Seq(Element)
        /\ Len(Append(FifoQueue, new)) = num + 1
        /\ \A k \in 1 .. num : Append(FifoQueue, new)[k] = FifoQueue[k]
        /\ Append(FifoQueue, new)[num + 1] = new
    BY <2>1, AppendProperties
  <2>3. /\ \A k \in 1 .. num : /\ FifoQueue[k].msg = Message(k)
                               /\ FifoQueue[k].ready <=> Ready(k)
        /\ \A k \in 1 .. num + 1 : /\ FifoQueue'[k].msg = Message(k)'
                                   /\ FifoQueue'[k].ready <=> Ready(k)'
    BY <1>1, <1>4 DEF AbstractView
  <2>4. \A k \in 1 .. num + 1 :
           /\ FifoQueue'[k].msg = Append(FifoQueue, new)[k].msg
           /\ FifoQueue'[k].ready <=> Append(FifoQueue, new)[k].ready
    <3>1. ASSUME NEW k \in 1 .. num
          PROVE  /\ FifoQueue'[k].msg = Append(FifoQueue, new)[k].msg
                 /\ FifoQueue'[k].ready <=> Append(FifoQueue, new)[k].ready
      <4>1. k \in 1 .. num + 1
        BY <1>2
      <4> QED BY <1>6, <2>2, <2>3, <4>1
    <3>2. ASSUME NEW k \in 1 .. num + 1, k = num + 1
          PROVE  /\ FifoQueue'[k].msg = Append(FifoQueue, new)[k].msg
                 /\ FifoQueue'[k].ready <=> Append(FifoQueue, new)[k].ready
      <4>1. FifoQueue'[k].msg = m /\ ~FifoQueue'[k].ready
        BY <1>7, <2>3, <3>2
      <4> QED BY <2>2, <3>2, <4>1
    <3>3. \A k \in 1 .. num + 1 : k \in 1 .. num \/ k = num + 1
      BY <1>2
    <3> QED BY <3>1, <3>2, <3>3
  <2> QED BY <2>1, <2>2, <2>4, QueueEqual
<1>9. FifoServing' = FifoServing
  <2>1. CASE SomeoneServes
    <3>1. num > 0 /\ head \in Window
      BY <1>4, <2>1, HeadInWindow DEF AbstractView
    <3>2. intended'[head'] = intended[head]
      BY <1>1, <1>3, <3>1 DEF TypeOK
    <3> QED BY <1>4, <1>5, <2>1, <3>2 DEF AbstractView
  <2>2. CASE ~SomeoneServes
    BY <1>4, <1>5, <2>2 DEF AbstractView
  <2> QED BY <2>1, <2>2
<1>10. Len(FifoQueue) < MaxLen
  BY <1>2, <1>4 DEF AbstractView
<1> QED BY <1>8, <1>9, <1>10 DEF Fifo!Accept

\* Enqueueing: a message is accepted, or a full queue stays as it is.
LEMMA FifoEnqueue ==
    ASSUME FifoInv, FifoInv', NEW c \in Contexts, Enqueue(c)
    PROVE  Fifo!Next \/ UNCHANGED Fifo!vars
<1>1. PICK m \in Msg : MlmeEnqueue(c, m) \/ MlmeEnqueueForRecv(c, m)
  BY DEF Enqueue
<1>2. Reserve(c, m) /\ elem' = elem
  BY <1>1 DEF MlmeEnqueue, MlmeEnqueueForRecv
<1>3. CASE num # MaxLen
  BY <1>2, <1>3, FifoReserve DEF Fifo!Next
<1>4. CASE num = MaxLen
  <2>1. UNCHANGED <<num, head, Occupied, intended>>
    BY <1>2, <1>4 DEF Reserve, ring, store
  <2>2. SomeoneServes' <=> SomeoneServes
    BY <1>2 DEF SomeoneServes, Serving
  <2>3. \A k \in 1 .. num : Ready(k)' <=> Ready(k)
    BY <2>1, <2>2 DEF Ready
  <2> QED BY <2>1, <2>2, <2>3, FifoStutter
<1> QED BY <1>3, <1>4

\* The flag of a slot is set: the message becomes ready.
LEMMA FifoPublish ==
    ASSUME FifoInv, FifoInv', NEW c \in Contexts, SetOccupied(c)
    PROVE  Fifo!Next
<1> USE DEF FifoInv, SteadyInv, CounterInv, ElementInv
<1>1. /\ UNCHANGED <<num, head, intended, elem>> /\ Writing(c)
      /\ Occupied' = [Occupied EXCEPT ![slot[c]] = TRUE]
  BY DEF SetOccupied, ring, Writing
<1>2. head \in Slots /\ num \in 0 .. MaxLen
  BY DEF TypeOK
<1>3. slot[c] \in Window /\ ~Occupied[slot[c]]
  BY <1>1 DEF WriterInv
<1>4. PICK i \in 1 .. num : slot[c] = NthFrom(head, i - 1)
  BY <1>2, <1>3, PlaceOfSlot DEF Window
<1>5. AbstractView /\ AbstractView'
  BY AbstractState, AbstractNextState
<1>6. SomeoneServes' <=> SomeoneServes
  BY <1>1 DEF SomeoneServes, Serving
<1>7. SomeoneServes => slot[c] # head
  BY <1>1 DEF ServesWholeHead, SomeoneServes
<1>8. ~Ready(i) /\ Ready(i)'
  <2>1. i = 1 => slot[c] = head
    BY <1>2, <1>4, PlaceOfSlot
  <2>2. Occupied'[slot[c]] /\ NthFrom(head', i - 1) = slot[c]
    <3>1. slot[c] \in Slots
      BY <1>2, <1>3, WindowInterval DEF Window
    <3> QED BY <1>1, <1>4, <3>1 DEF TypeOK
  <2> QED BY <1>3, <1>4, <1>7, <2>1, <2>2 DEF Ready
<1>9. \A k \in 1 .. num : /\ Message(k)' = Message(k)
                          /\ k # i => (Ready(k)' <=> Ready(k))
  <2>1. \A k \in 1 .. num : k # i => NthFrom(head, k - 1) # slot[c]
    BY <1>2, <1>4, PlaceOfSlot
  <2>2. \A k \in 1 .. num : NthFrom(head, k - 1) \in Slots
    BY <1>2, PlaceOfSlot, WindowInterval
  <2> QED BY <1>1, <1>6, <2>1, <2>2 DEF Message, Ready, TypeOK
<1> DEFINE done == [FifoQueue[i] EXCEPT !.ready = TRUE]
<1>10. FifoQueue' = [FifoQueue EXCEPT ![i].ready = TRUE]
  <2>1. /\ FifoQueue \in Seq(Element) /\ FifoQueue' \in Seq(Element)
        /\ Len(FifoQueue) = num /\ Len(FifoQueue') = num
        /\ \A k \in 1 .. num : /\ FifoQueue[k].msg = Message(k)
                               /\ FifoQueue[k].ready <=> Ready(k)
                               /\ FifoQueue'[k].msg = Message(k)'
                               /\ FifoQueue'[k].ready <=> Ready(k)'
    BY <1>1, <1>5 DEF AbstractView
  <2>2. FifoQueue[i] \in Element
    BY <2>1, ElementOfSeq
  <2>3. done \in Element /\ done.msg = FifoQueue[i].msg /\ done.ready
    BY <2>2 DEF Element
  <2>4. /\ [FifoQueue EXCEPT ![i] = done] \in Seq(Element)
        /\ Len([FifoQueue EXCEPT ![i] = done]) = num
        /\ \A k \in 1 .. num :
              [FifoQueue EXCEPT ![i] = done][k] = IF k = i THEN done ELSE FifoQueue[k]
    <3> HIDE DEF done
    <3> QED BY <2>1, <2>3, ExceptSeq
  <2>5. \A k \in 1 .. num :
           /\ FifoQueue'[k].msg = [FifoQueue EXCEPT ![i] = done][k].msg
           /\ FifoQueue'[k].ready <=> [FifoQueue EXCEPT ![i] = done][k].ready
    <3> HIDE DEF done
    <3> QED BY <1>8, <1>9, <2>1, <2>3, <2>4
  <2>6. FifoQueue' = [FifoQueue EXCEPT ![i] = done]
    <3> HIDE DEF done
    <3> QED BY <2>1, <2>4, <2>5, QueueEqual
  <2> QED BY <2>6
<1>11. FifoServing' = FifoServing
  BY <1>1, <1>5, <1>6 DEF AbstractView
<1>12. i \in DOMAIN FifoQueue /\ ~FifoQueue[i].ready
  BY <1>5, <1>8, LenProperties DEF AbstractView
<1>13. Fifo!Complete(i)
  BY <1>10, <1>11, <1>12 DEF Fifo!Complete
<1> QED BY <1>12, <1>13 DEF Fifo!Next

\* What else a sender does is not seen: the message is copied into a slot that is not
\* ready.
LEMMA FifoSender ==
    ASSUME FifoInv, FifoInv', NEW c \in Contexts,
           CopyElement(c) \/ PeriodicExec(c) \/ MlmeInit(c)
    PROVE  UNCHANGED Fifo!vars
<1>1. UNCHANGED <<num, head, intended, Occupied, elem>>
  BY DEF CopyElement, PeriodicExec, MlmeInit, ring, store, control
<1>2. SomeoneServes' <=> SomeoneServes
  BY <1>1 DEF SomeoneServes, Serving
<1>3. \A k \in 1 .. num : Ready(k)' <=> Ready(k)
  BY <1>1, <1>2 DEF Ready
<1> QED BY <1>1, <1>2, <1>3, FifoStutter

\* A context enters MlmeHandler and serves the head, or leaves again.
LEMMA FifoEnter ==
    ASSUME FifoInv, FifoInv', NEW c \in Contexts, EnterHandler(c)
    PROVE  Fifo!Next \/ UNCHANGED Fifo!vars
<1> USE DEF FifoInv, SteadyInv, CounterInv, ElementInv
<1>1. /\ UNCHANGED <<num, head, intended, Occupied>> /\ pc[c] = "call" /\ ~Serving(c)
  BY DEF EnterHandler, ring, store, RunnerInv, PlacesInv
<1>2. head \in Slots /\ num \in 0 .. MaxLen
  BY DEF TypeOK
<1>3. CASE ~Running /\ num > 0 /\ Occupied[head]
  <2>1. elem' = [elem EXCEPT ![c] = head]
    BY <1>3 DEF EnterHandler, TakeHead
  <2>2. ~SomeoneServes /\ SomeoneServes'
    <3>1. elem'[c] = head /\ head # NoSlot
      BY <1>2, <2>1 DEF TypeOK, Slots, NoSlot
    <3> QED BY <1>3, <3>1 DEF RunnerInv, OneRunner, SomeoneServes, Serving
  <2>3. AbstractView /\ AbstractView'
    BY AbstractState, AbstractNextState
  <2>4. 1 \in 1 .. num /\ Message(1) = intended[head] /\ Ready(1)
    BY <1>2, <1>3, PlaceOfSlot DEF Message, Ready
  <2>5. \A k \in 1 .. num : Message(k)' = Message(k) /\ (Ready(k)' <=> Ready(k))
    BY <1>1, <2>2, <2>4 DEF Message, Ready
  <2>6. FifoQueue' = FifoQueue
    <3>1. /\ FifoQueue \in Seq(Element) /\ FifoQueue' \in Seq(Element)
          /\ Len(FifoQueue) = num /\ Len(FifoQueue') = num
      BY <1>1, <2>3 DEF AbstractView
    <3>2. \A k \in 1 .. num : /\ FifoQueue'[k].msg = FifoQueue[k].msg
                              /\ FifoQueue'[k].ready <=> FifoQueue[k].ready
      BY <1>1, <2>3, <2>5 DEF AbstractView
    <3> QED BY <3>1, <3>2, QueueEqual
  <2>7. /\ FifoQueue # <<>> /\ Head(FifoQueue) = FifoQueue[1]
        /\ FifoQueue[1].msg = intended[head] /\ FifoQueue[1].ready
    BY <1>2, <2>3, <2>4, EmptySeq DEF AbstractView
  <2>8. FifoServing = NoMsg /\ FifoServing' = intended[head]
    BY <1>1, <2>2, <2>3 DEF AbstractView
  <2>9. Fifo!Begin
    BY <2>6, <2>7, <2>8 DEF Fifo!Begin, Fifo!HeadReady
  <2> QED BY <2>9 DEF Fifo!Next
<1>4. CASE Running \/ ~(num > 0 /\ Occupied[head])
  <2>1. elem' = [elem EXCEPT ![c] = NoSlot]
    BY <1>4 DEF EnterHandler, TakeHead, LeaveHandler
  <2>2. elem' = elem
    BY <1>1, <2>1 DEF TypeOK, Serving
  <2>3. SomeoneServes' <=> SomeoneServes
    BY <2>2 DEF SomeoneServes, Serving
  <2>4. \A k \in 1 .. num : Ready(k)' <=> Ready(k)
    BY <1>1, <2>3 DEF Ready
  <2> QED BY <1>1, <2>3, <2>4, FifoStutter
<1> QED BY <1>3, <1>4

\* The flag of the head is cleared while it is served: it stays ready.
LEMMA FifoRelease ==
    ASSUME FifoInv, FifoInv', NEW c \in Contexts, ReleaseElement(c)
    PROVE  UNCHANGED Fifo!vars
<1> USE DEF FifoInv, SteadyInv, CounterInv, ElementInv
<1>1. /\ UNCHANGED <<num, head, intended, elem>> /\ pc[c] \in {"serve", "release"}
      /\ Occupied' = [Occupied EXCEPT ![elem[c]] = FALSE]
  BY DEF ReleaseElement, ring
<1>2. Serving(c) /\ elem[c] = head /\ head \in Slots /\ num \in 0 .. MaxLen
  BY <1>1 DEF RunnerInv, PlacesInv, ServesWholeHead, TypeOK
<1>3. SomeoneServes /\ SomeoneServes'
  BY <1>1, <1>2 DEF SomeoneServes, Serving
<1>4. \A k \in 1 .. num : Ready(k)' <=> Ready(k)
  <2>1. \A k \in 1 .. num : k # 1 => NthFrom(head, k - 1) # head
    <3>1. ASSUME NEW k \in 1 .. num, NthFrom(head, k - 1) = head PROVE k = 1
      <4>1. 1 \in 1 .. num /\ NthFrom(head, 1 - 1) = head
        BY <1>2, <3>1, PlaceOfSlot
      <4> QED BY <1>2, <3>1, <4>1, PlaceOfSlot
    <3> QED BY <3>1
  <2>2. \A k \in 1 .. num : NthFrom(head, k - 1) \in Slots
    BY <1>2, PlaceOfSlot, WindowInterval
  <2> QED BY <1>1, <1>2, <1>3, <2>1, <2>2 DEF Ready, TypeOK
<1> QED BY <1>1, <1>3, <1>4, FifoStutter

\* The head is dequeued; the handler begins with the next message or leaves.
LEMMA FifoDequeue ==
    ASSUME FifoInv, FifoInv', NEW c \in Contexts, Dequeue(c)
    PROVE  Fifo!Leave
<1> USE DEF FifoInv, SteadyInv, CounterInv, ElementInv
<1>1. Serving(c) /\ pc[c] = "dequeue" /\ Occupied' = Occupied
  BY DEF Dequeue, RunnerInv, PlacesInv
<1>2. /\ num \in 1 .. MaxLen /\ head \in Slots /\ SomeoneServes
      /\ \A d \in Contexts : Serving(d) => d = c
  BY <1>1 DEF RunnerInv, OneRunner, ServesWholeHead, TypeOK, SomeoneServes
<1>3. /\ head' = NthFrom(head, 1) /\ num' = num - 1
      /\ intended' = [intended EXCEPT ![head] = NoMsg]
      /\ TakeHead(c, head', num')
  BY <1>2, ModStep DEF Dequeue
<1>4. AbstractView /\ AbstractView'
  BY AbstractState, AbstractNextState
<1>5. SomeoneServes' <=> num' > 0 /\ Occupied'[head']
  <2>1. \A d \in Contexts : d # c => ~Serving(d)'
    BY <1>2, <1>3 DEF TakeHead, LeaveHandler, TypeOK, Serving
  <2>2. CASE num' > 0 /\ Occupied[head']
    <3>1. elem'[c] = head' /\ head' # NoSlot
      BY <1>3, <2>2 DEF TakeHead, TypeOK, Slots, NoSlot
    <3> QED BY <1>1, <2>2, <3>1 DEF SomeoneServes, Serving
  <2>3. CASE ~(num' > 0 /\ Occupied[head'])
    <3>1. elem'[c] = NoSlot
      BY <1>3, <2>3 DEF TakeHead, LeaveHandler, TypeOK
    <3> QED BY <1>1, <2>1, <2>3, <3>1 DEF SomeoneServes, Serving
  <2> QED BY <2>2, <2>3
<1>6. ASSUME NEW k \in 1 .. num'
      PROVE  Message(k)' = Message(k + 1) /\ (Ready(k)' <=> Ready(k + 1))
  <2>1. k + 1 \in 1 .. num /\ k + 1 # 1 /\ (k + 1) - 1 = k /\ 1 \in 1 .. num
    BY <1>2, <1>3
  <2>2. NthFrom(head', k - 1) = NthFrom(head, k)
    BY <1>2, <1>3, <2>1 DEF NthFrom, Slots
  <2>3. NthFrom(head, k) # head
    BY <1>2, <2>1 DEF NthFrom, Slots
  <2>4. Message(k)' = Message(k + 1)
    BY <1>3, <2>1, <2>2, <2>3 DEF Message, TypeOK
  <2>5. k = 1 => head' = NthFrom(head', k - 1)
    BY <1>3, <2>1, <2>2
  <2>6. Ready(k)' <=> Occupied[NthFrom(head, k)]
    BY <1>1, <1>5, <2>2, <2>5 DEF Ready
  <2>7. Ready(k + 1) <=> Occupied[NthFrom(head, k)]
    BY <2>1 DEF Ready
  <2> QED BY <2>4, <2>6, <2>7
<1>7. /\ FifoQueue \in Seq(Element) /\ FifoQueue' \in Seq(Element)
      /\ Len(FifoQueue) = num /\ Len(FifoQueue') = num - 1 /\ FifoQueue # <<>>
  BY <1>2, <1>3, <1>4, EmptySeq DEF AbstractView
<1>8. FifoQueue' = Tail(FifoQueue)
  <2>1. /\ Tail(FifoQueue) \in Seq(Element) /\ Len(Tail(FifoQueue)) = num - 1
        /\ \A k \in 1 .. num - 1 : Tail(FifoQueue)[k] = FifoQueue[k + 1]
    BY <1>7, HeadTailProperties
  <2>2. \A k \in 1 .. num - 1 : k + 1 \in 1 .. num
    BY <1>2
  <2>3. \A k \in 1 .. num - 1 : /\ FifoQueue'[k].msg = Tail(FifoQueue)[k].msg
                                /\ FifoQueue'[k].ready <=> Tail(FifoQueue)[k].ready
    BY <1>3, <1>4, <1>6, <2>1, <2>2 DEF AbstractView
  <2> QED BY <1>7, <2>1, <2>3, QueueEqual
<1>9. FifoServing # NoMsg
  BY <1>2, <1>4 DEF AbstractView
<1>10. FifoServing' \in Fifo!ServedNext(FifoQueue')
  <2>1. CASE SomeoneServes'
    <3>1. 1 \in 1 .. num' /\ NthFrom(head', 1 - 1) = head' /\ head' \in Slots
      BY <1>2, <1>3, <1>5, <2>1, PlaceOfSlot DEF TypeOK
    <3>2. FifoQueue'[1].msg = intended'[head'] /\ FifoQueue'[1].ready
      BY <1>4, <2>1, <3>1 DEF AbstractView, Message, Ready
    <3>3. FifoQueue' # <<>> /\ Head(FifoQueue') = FifoQueue'[1]
      BY <1>3, <1>7, <3>1, EmptySeq
    <3>4. FifoServing' = intended'[head']
      BY <1>4, <2>1 DEF AbstractView
    <3> QED BY <3>2, <3>3, <3>4 DEF Fifo!ServedNext, Fifo!HeadReady
  <2>2. CASE ~SomeoneServes'
    BY <1>4, <2>2 DEF AbstractView, Fifo!ServedNext
  <2> QED BY <2>1, <2>2
<1> QED BY <1>8, <1>9, <1>10 DEF Fifo!Leave

---------------------------------------------------------------------------
(* The refinement *)

\* Only messages are put in, and what was put in stays.
LEMMA IntendedNext ==
    ASSUME FifoInv, [SteadyNext]_vars, SteadyInv'
    PROVE  IntendedInv'
<1> USE DEF FifoInv, SteadyInv, CounterInv, ElementInv
<1>1. CASE UNCHANGED <<num, head, intended>>
  BY <1>1 DEF IntendedInv, Window
<1>2. ASSUME NEW c \in Contexts, NEW m \in Msg, Reserve(c, m), num # MaxLen
      PROVE  IntendedInv'
  <2>1. num' = num + 1 /\ head' = head /\ intended' = [intended EXCEPT ![tail] = m]
    BY <1>2 DEF Reserve
  <2>2. Window' = Window \cup {tail} /\ tail \in Slots
    <3>1. head \in Slots /\ num \in 0 .. MaxLen - 1 /\ tail = NthFrom(head, num)
      BY <1>2 DEF TypeOK, RingConsistent
    <3> QED BY <2>1, <3>1, WindowGrows DEF Window
  <2> QED BY <2>1, <2>2 DEF IntendedInv, TypeOK
<1>3. ASSUME NEW c \in Contexts, Dequeue(c)
      PROVE  IntendedInv'
  <2>1. num \in 1 .. MaxLen /\ head \in Slots
    BY <1>3 DEF Dequeue, RunnerInv, PlacesInv, ServesWholeHead, TypeOK
  <2>2. /\ head' = NthFrom(head, 1) /\ num' = num - 1
        /\ intended' = [intended EXCEPT ![head] = NoMsg]
    BY <1>3, <2>1, ModStep DEF Dequeue
  <2>3. Window' = Window \ {head}
    BY <2>1, <2>2, WindowShrinks DEF Window
  <2> QED BY <2>2, <2>3 DEF IntendedInv, TypeOK
<1>4. ASSUME NEW c \in Contexts, NEW m \in Msg, MlmeEnqueue(c, m) \/ MlmeEnqueueForRecv(c, m)
      PROVE  IntendedInv'
  <2>1. Reserve(c, m)
    BY <1>4 DEF MlmeEnqueue, MlmeEnqueueForRecv
  <2>2. num = MaxLen => UNCHANGED <<num, head, intended>>
    BY <2>1 DEF Reserve, ring, store
  <2> QED BY <1>1, <1>2, <2>1, <2>2
<1>5. ASSUME NEW c \in Contexts,
             \/ CopyElement(c) \/ SetOccupied(c) \/ PeriodicExec(c) \/ MlmeInit(c)
             \/ EnterHandler(c) \/ ReleaseElement(c)
      PROVE  UNCHANGED <<num, head, intended>>
  BY <1>5 DEF CopyElement, SetOccupied, PeriodicExec, MlmeInit, EnterHandler,
              ReleaseElement, ring, store
<1>6. CASE UNCHANGED vars
  BY <1>1, <1>6 DEF vars, ring, store
<1> QED BY <1>1, <1>3, <1>4, <1>5, <1>6 DEF SteadyNext, Enqueue, Finish, HandlerStep

\* Every step of the queue is a step of MlmeFifo or changes nothing of it.
LEMMA FifoStep == FifoInv /\ FifoInv' /\ [SteadyNext]_vars => [Fifo!Next]_Fifo!vars
<1> SUFFICES ASSUME FifoInv, FifoInv', [SteadyNext]_vars
             PROVE  Fifo!Next \/ UNCHANGED Fifo!vars
  OBVIOUS
<1>1. CASE UNCHANGED vars
  <2>1. SomeoneServes' <=> SomeoneServes
    BY <1>1 DEF vars, control, SomeoneServes, Serving
  <2>2. \A k \in 1 .. num : Ready(k)' <=> Ready(k)
    BY <1>1, <2>1 DEF vars, ring, store, Ready
  <2> QED BY <1>1, <2>1, <2>2, FifoStutter DEF vars, ring, store
<1>2. ASSUME NEW c \in Contexts,
             Enqueue(c) \/ Finish(c) \/ PeriodicExec(c) \/ MlmeInit(c)
      PROVE  Fifo!Next \/ UNCHANGED Fifo!vars
  <2>1. CASE Enqueue(c)
    BY <2>1, FifoEnqueue
  <2>2. CASE SetOccupied(c)
    BY <2>2, FifoPublish
  <2>3. CASE CopyElement(c) \/ PeriodicExec(c) \/ MlmeInit(c)
    BY <2>3, FifoSender
  <2>4. CASE EnterHandler(c)
    BY <2>4, FifoEnter
  <2>5. CASE ReleaseElement(c)
    BY <2>5, FifoRelease
  <2>6. CASE Dequeue(c)
    BY <2>6, FifoDequeue DEF Fifo!Next
  <2> QED BY <1>2, <2>1, <2>2, <2>3, <2>4, <2>5, <2>6 DEF Finish, HandlerStep
<1> QED BY <1>1, <1>2 DEF SteadyNext

\* The empty ring is the empty queue.
LEMMA FifoStart == Init => FifoInv /\ Fifo!Init
<1> SUFFICES ASSUME Init PROVE FifoInv /\ Fifo!Init
  OBVIOUS
<1>1. SteadyInv
  BY CounterInit, RunnerInit, ElementInit DEF SteadyInv
<1>2. num = 0 /\ ~SomeoneServes
  BY DEF Init, SomeoneServes, Serving
<1>3. FifoInv
  BY <1>1, <1>2 DEF FifoInv, IntendedInv, Window, WindowFrom
<1>4. AbstractView
  BY <1>3, AbstractState
<1>5. FifoQueue = <<>> /\ FifoServing = NoMsg
  BY <1>2, <1>4, EmptySeq DEF AbstractView
<1> QED BY <1>3, <1>5 DEF Fifo!Init

\* While no request restarts the state machines, the ring with its flags, written outside
\* the lock, is a FIFO with one server: messages are accepted in order, become ready once
\* complete, are served whole, one at a time, and leave in order (mlme.c:4945-5183).  This
\* is the safety part of IsFifo.
THEOREM ImplementsFifo == SteadySpec => Fifo!Init /\ [][Fifo!Next]_Fifo!vars
<1>1. FifoInv /\ [SteadyNext]_vars => FifoInv'
  <2>1. FifoInv /\ [SteadyNext]_vars => SteadyInv'
    BY SteadyStep DEF FifoInv
  <2> QED BY <2>1, IntendedNext DEF FifoInv
<1> QED BY <1>1, FifoStart, FifoStep, PTL DEF SteadySpec
=============================================================================
