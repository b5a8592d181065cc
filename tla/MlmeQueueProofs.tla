-------------------------- MODULE MlmeQueueProofs --------------------------
(***************************************************************************)
(* Proofs about the MLME queue for every length of the ring, every set of  *)
(* messages and every number of timers and transmit contexts.              *)
(***************************************************************************)
EXTENDS MlmeQueueProps, TLAPS

USE LenAssumption

---------------------------------------------------------------------------
(* The arithmetic of the ring *)

\* MlmeDequeue moves Head with %: one step forward in the ring (mlme.c:5160).
LEMMA ModStep == \A h \in Slots : (h + 1) % MaxLen = NthFrom(h, 1)
BY DEF Slots, NthFrom

\* Dequeueing n elements moves Head n slots forward.
LEMMA ModFlush == \A h \in Slots, n \in 0 .. MaxLen : (h + n) % MaxLen = NthFrom(h, n)
BY DEF Slots, NthFrom

\* A window of n slots read as an interval that may wrap around.
LEMMA WindowInterval ==
    ASSUME NEW h \in Slots, NEW n \in 0 .. MaxLen, NEW i
    PROVE  i \in WindowFrom(h, n) <=>
              /\ i \in Slots
              /\ IF h + n <= MaxLen
                 THEN h <= i /\ i < h + n
                 ELSE h <= i \/ i < h + n - MaxLen
<1>1. ASSUME i \in WindowFrom(h, n)
      PROVE  /\ i \in Slots
             /\ IF h + n <= MaxLen
                THEN h <= i /\ i < h + n
                ELSE h <= i \/ i < h + n - MaxLen
  <2>1. PICK k \in 0 .. n - 1 : i = NthFrom(h, k)
    BY <1>1 DEF WindowFrom
  <2> QED BY <2>1 DEF NthFrom, Slots
<1>2. ASSUME i \in Slots,
             IF h + n <= MaxLen
             THEN h <= i /\ i < h + n
             ELSE h <= i \/ i < h + n - MaxLen
      PROVE  i \in WindowFrom(h, n)
  <2> DEFINE k == IF h <= i THEN i - h ELSE i - h + MaxLen
  <2>1. k \in 0 .. n - 1 /\ i = NthFrom(h, k)
    BY <1>2 DEF NthFrom, Slots
  <2> HIDE DEF k
  <2> QED BY <2>1 DEF WindowFrom
<1> QED BY <1>1, <1>2

\* Reserving a slot adds the slot at Tail to the window, which did not hold it.
LEMMA WindowGrows ==
    ASSUME NEW h \in Slots, NEW n \in 0 .. MaxLen - 1
    PROVE  /\ NthFrom(h, n) \in Slots
           /\ NthFrom(h, n) \notin WindowFrom(h, n)
           /\ WindowFrom(h, n + 1) = WindowFrom(h, n) \cup {NthFrom(h, n)}
<1>1. n \in 0 .. MaxLen /\ n + 1 \in 0 .. MaxLen
  OBVIOUS
<1>2. \A i : i \in WindowFrom(h, n) <=>
              /\ i \in Slots
              /\ IF h + n <= MaxLen
                 THEN h <= i /\ i < h + n
                 ELSE h <= i \/ i < h + n - MaxLen
  BY <1>1, WindowInterval
<1>3. \A i : i \in WindowFrom(h, n + 1) <=>
              /\ i \in Slots
              /\ IF h + (n + 1) <= MaxLen
                 THEN h <= i /\ i < h + (n + 1)
                 ELSE h <= i \/ i < h + (n + 1) - MaxLen
  BY <1>1, WindowInterval
<1>4. NthFrom(h, n) \in Slots
  BY DEF NthFrom, Slots
<1>5. NthFrom(h, n) \notin WindowFrom(h, n)
  BY <1>2 DEF NthFrom, Slots
<1>6. \A i \in Slots : i \in WindowFrom(h, n + 1) <=>
                       i \in WindowFrom(h, n) \/ i = NthFrom(h, n)
  BY <1>2, <1>3 DEF NthFrom, Slots
<1> QED BY <1>2, <1>3, <1>4, <1>5, <1>6

\* Dequeueing removes exactly the head from the window.
LEMMA WindowShrinks ==
    ASSUME NEW h \in Slots, NEW n \in 1 .. MaxLen
    PROVE  /\ NthFrom(h, 1) \in Slots
           /\ h \in WindowFrom(h, n)
           /\ WindowFrom(NthFrom(h, 1), n - 1) = WindowFrom(h, n) \ {h}
<1> DEFINE g == NthFrom(h, 1)
<1>1. g \in Slots /\ g = (IF h + 1 < MaxLen THEN h + 1 ELSE 0)
  BY DEF NthFrom, Slots
<1> HIDE DEF g
<1>2. n \in 0 .. MaxLen /\ n - 1 \in 0 .. MaxLen
  OBVIOUS
<1>3. \A i : i \in WindowFrom(h, n) <=>
              /\ i \in Slots
              /\ IF h + n <= MaxLen
                 THEN h <= i /\ i < h + n
                 ELSE h <= i \/ i < h + n - MaxLen
  BY <1>2, WindowInterval
<1>4. \A i : i \in WindowFrom(g, n - 1) <=>
              /\ i \in Slots
              /\ IF g + (n - 1) <= MaxLen
                 THEN g <= i /\ i < g + (n - 1)
                 ELSE g <= i \/ i < g + (n - 1) - MaxLen
  BY <1>1, <1>2, WindowInterval
<1>5. h \in WindowFrom(h, n)
  BY <1>3 DEF Slots
<1>6. \A i \in Slots : i \in WindowFrom(g, n - 1) <=> i \in WindowFrom(h, n) /\ i # h
  BY <1>1, <1>3, <1>4 DEF Slots
<1> QED BY <1>1, <1>3, <1>4, <1>5, <1>6 DEF g

---------------------------------------------------------------------------
(* Types, and the agreement of the three counters, through every operation *)

CounterInv == TypeOK /\ RingConsistent

\* The ring after MlmeQueueInit.
LEMMA CounterInit == Init => CounterInv
<1> SUFFICES ASSUME Init PROVE CounterInv
  OBVIOUS
<1>1. num \in 0 .. MaxLen /\ head \in Slots /\ tail \in Slots /\ RingConsistent
  BY DEF Init, RingConsistent, NthFrom, Slots
<1>2. TypeOK
  BY <1>1 DEF Init, TypeOK, PcValues
<1> QED BY <1>1, <1>2 DEF CounterInv

\* Reserve is the critical section of both forms of enqueueing.
LEMMA CounterReserve ==
    ASSUME CounterInv, NEW c \in Contexts, NEW m \in Msg, Reserve(c, m)
    PROVE  /\ num' \in 0 .. MaxLen /\ head' \in Slots /\ tail' \in Slots
           /\ RingConsistent'
           /\ Entry' \in [Slots -> Msg \cup {NoMsg}]
           /\ Occupied' \in [Slots -> BOOLEAN]
           /\ intended' \in [Slots -> Msg \cup {NoMsg}]
           /\ pc' \in [Contexts -> PcValues]
           /\ slot' \in [Contexts -> Slots \cup {NoSlot}]
           /\ arg' \in [Contexts -> Msg \cup {NoMsg}]
<1>1. CASE num = MaxLen
  BY <1>1 DEF Reserve, CounterInv, TypeOK, RingConsistent, Return, PcValues,
              ring, store, NthFrom
<1>2. CASE num # MaxLen
  <2>1. num' = num + 1 /\ head' = head /\ tail' = Advance(tail)
    BY <1>2 DEF Reserve
  <2>2. num' \in 0 .. MaxLen /\ head' \in Slots /\ tail' \in Slots /\ RingConsistent'
    BY <1>2, <2>1 DEF CounterInv, TypeOK, RingConsistent, Advance, NthFrom, Slots
  <2>3. /\ slot' = [slot EXCEPT ![c] = tail]
        /\ arg' = [arg EXCEPT ![c] = m]
        /\ intended' = [intended EXCEPT ![tail] = m]
        /\ pc' = [pc EXCEPT ![c] = "copy"]
        /\ UNCHANGED <<Entry, Occupied>>
    BY <1>2 DEF Reserve
  <2> QED BY <2>2, <2>3 DEF CounterInv, TypeOK, PcValues
<1> QED BY <1>1, <1>2

\* The loop test of MlmeHandler keeps the types, wherever the head is.
LEMMA TypeTakeHead ==
    ASSUME TypeOK, NEW c \in Contexts, NEW h \in Slots, NEW n, TakeHead(c, h, n)
    PROVE  /\ Running' \in BOOLEAN
           /\ elem' \in [Contexts -> Slots \cup {NoSlot}]
           /\ pc' \in [Contexts -> PcValues]
           /\ armed' \subseteq Timers
BY DEF TypeOK, TakeHead, LeaveHandler, PcValues, Timers

\* Both forms of enqueueing keep the counters consistent.
LEMMA CounterEnqueue ==
    ASSUME CounterInv, NEW c \in Contexts, Enqueue(c)
    PROVE  CounterInv'
<1>1. ASSUME NEW m \in Msg, MlmeEnqueue(c, m)
      PROVE  CounterInv'
  <2>1. Reserve(c, m) /\ armed' \subseteq armed /\ UNCHANGED <<elem, Running, phase>>
    BY <1>1 DEF MlmeEnqueue, Fire
  <2> QED BY <2>1, CounterReserve DEF CounterInv, TypeOK
<1>2. ASSUME NEW m \in Msg, MlmeEnqueueForRecv(c, m)
      PROVE  CounterInv'
  <2>1. Reserve(c, m) /\ UNCHANGED <<elem, Running, life>>
    BY <1>2 DEF MlmeEnqueueForRecv
  <2> QED BY <2>1, CounterReserve DEF CounterInv, TypeOK, life
<1> QED BY <1>1, <1>2 DEF Enqueue

\* So does each critical section of MlmeHandler.
LEMMA CounterHandler ==
    ASSUME CounterInv, NEW c \in Contexts, HandlerStep(c)
    PROVE  CounterInv'
<1> USE DEF CounterInv
<1>1. CASE EnterHandler(c)
  <2>1. UNCHANGED <<ring, store, slot, arg, phase>>
    BY <1>1 DEF EnterHandler
  <2>2. CASE Running
    <3>1. LeaveHandler(c) /\ UNCHANGED Running
      BY <1>1, <2>2 DEF EnterHandler
    <3> QED BY <2>1, <3>1 DEF TypeOK, RingConsistent, LeaveHandler, PcValues,
                              Timers, ring, store
  <2>3. CASE ~Running
    <3>1. TakeHead(c, head, num)
      BY <1>1, <2>3 DEF EnterHandler
    <3>2. head \in Slots
      BY DEF TypeOK
    <3> QED BY <2>1, <3>1, <3>2, TypeTakeHead DEF TypeOK, RingConsistent, ring, store
  <2> QED BY <2>2, <2>3
<1>2. CASE ReleaseElement(c)
  <2>1. armed' \subseteq Timers
    BY <1>2 DEF ReleaseElement, TypeOK, Timers
  <2>2. /\ Occupied' = [Occupied EXCEPT ![elem[c]] = FALSE]
        /\ pc' = [pc EXCEPT ![c] = "dequeue"]
        /\ UNCHANGED <<ring, Entry, intended, slot, arg, elem, Running, phase>>
    BY <1>2 DEF ReleaseElement
  <2> QED BY <2>1, <2>2 DEF TypeOK, RingConsistent, PcValues, ring
<1>3. CASE Dequeue(c)
  <2>1. UNCHANGED <<Entry, Occupied, slot, arg, phase>>
    BY <1>3 DEF Dequeue
  <2>2. CASE num = 0
    <3>1. UNCHANGED <<ring, intended>> /\ TakeHead(c, head, num)
      BY <1>3, <2>2 DEF Dequeue
    <3>2. head \in Slots
      BY DEF TypeOK
    <3> QED BY <2>1, <3>1, <3>2, TypeTakeHead DEF TypeOK, RingConsistent, ring
  <2>3. CASE num # 0
    <3> DEFINE h == (head + 1) % MaxLen
    <3>1. /\ head' = h /\ num' = num - 1 /\ tail' = tail
          /\ intended' = [intended EXCEPT ![head] = NoMsg]
          /\ TakeHead(c, h, num - 1)
      BY <1>3, <2>3 DEF Dequeue
    <3>2. h = NthFrom(head, 1) /\ h \in Slots
      BY ModStep DEF TypeOK, NthFrom, Slots
    <3> HIDE DEF h
    <3>3. RingConsistent' /\ num' \in 0 .. MaxLen
      BY <2>3, <3>1, <3>2 DEF TypeOK, RingConsistent, NthFrom, Slots
    <3> QED BY <2>1, <3>1, <3>2, <3>3, TypeTakeHead DEF TypeOK
  <2> QED BY <2>2, <2>3
<1> QED BY <1>1, <1>2, <1>3 DEF HandlerStep

\* So do the steps of a sender outside the lock, the periodic task and MlmeInit.
LEMMA CounterSender ==
    ASSUME CounterInv, NEW c \in Contexts,
           CopyElement(c) \/ SetOccupied(c) \/ PeriodicExec(c) \/ MlmeInit(c)
    PROVE  CounterInv'
<1> USE DEF CounterInv
<1>1. CASE CopyElement(c)
  <2>1. Entry' \in [Slots -> Msg \cup {NoMsg}]
    BY <1>1 DEF CopyElement, TypeOK
  <2> QED BY <1>1, <2>1 DEF CopyElement, TypeOK, RingConsistent, PcValues, ring, life
<1>2. CASE SetOccupied(c)
  BY <1>2 DEF SetOccupied, TypeOK, RingConsistent, PcValues, Return, ring, life
<1>3. CASE PeriodicExec(c)
  BY <1>3 DEF PeriodicExec, TypeOK, RingConsistent, PcValues, ring, store
<1>4. CASE MlmeInit(c)
  BY <1>4 DEF MlmeInit, TypeOK, RingConsistent, Timers, ring, store, control
<1> QED BY <1>1, <1>2, <1>3, <1>4

\* So does MlmeRestartStateMachine, whose flush moves Head up to Tail.
LEMMA CounterRestart ==
    ASSUME CounterInv, NEW c \in Contexts, RestartStep(c)
    PROVE  CounterInv'
<1> USE DEF CounterInv
<1>1. CASE RestartEnter(c)
  <2>1. Running' \in BOOLEAN /\ pc' \in [Contexts -> PcValues]
    BY <1>1 DEF RestartEnter, TypeOK, PcValues
  <2> QED BY <1>1, <2>1 DEF RestartEnter, TypeOK, RingConsistent, ring, store, life
<1>2. CASE RestartFlush(c)
  <2>1. /\ head' = NthFrom(head, num) /\ num' = 0 /\ tail' = tail
        /\ NthFrom(head, num) \in Slots
    <3>1. head \in Slots /\ num \in 0 .. MaxLen /\ tail' = tail /\ num' = 0
          /\ head' = (head + num) % MaxLen
      BY <1>2 DEF RestartFlush, TypeOK
    <3>2. NthFrom(head, num) \in Slots
      BY <3>1 DEF NthFrom, Slots
    <3> QED BY <3>1, <3>2, ModFlush
  <2>2. RingConsistent' /\ num' \in 0 .. MaxLen
    BY <2>1 DEF TypeOK, RingConsistent, NthFrom, Slots
  <2>3. Occupied' \in [Slots -> BOOLEAN] /\ intended' \in [Slots -> Msg \cup {NoMsg}]
    BY <1>2 DEF RestartFlush, TypeOK
  <2> QED BY <1>2, <2>1, <2>2, <2>3 DEF RestartFlush, TypeOK, PcValues, life
<1>3. CASE RestartCancelTimers(c)
  BY <1>3 DEF RestartCancelTimers, TypeOK, RingConsistent, PcValues, ring, store
<1>4. CASE RestartFinish(c)
  BY <1>4 DEF RestartFinish, TypeOK, RingConsistent, PcValues, ring, store, life
<1> QED BY <1>1, <1>2, <1>3, <1>4 DEF RestartStep

\* So does rt61_close: MlmeQueueDestroy resets the three counters together.
LEMMA CounterHalt ==
    ASSUME CounterInv, NEW c \in Contexts, HaltStep(c)
    PROVE  CounterInv'
<1> USE DEF CounterInv
<1>1. CASE HaltBegin(c)
  BY <1>1 DEF HaltBegin, TypeOK, RingConsistent, PcValues, ring, store
<1>2. CASE HaltCancelTimers(c)
  BY <1>2 DEF HaltCancelTimers, TypeOK, RingConsistent, PcValues, ring, store
<1>3. CASE MlmeQueueDestroy(c)
  <2>1. num' = 0 /\ head' = 0 /\ tail' = 0 /\ 0 \in Slots /\ RingConsistent'
    BY <1>3 DEF MlmeQueueDestroy, RingConsistent, NthFrom, Slots
  <2> QED BY <1>3, <2>1 DEF MlmeQueueDestroy, TypeOK, PcValues, store, life
<1>4. CASE KillRxTasklet(c)
  BY <1>4 DEF KillRxTasklet, TypeOK, RingConsistent, PcValues, ring, store
<1> QED BY <1>1, <1>2, <1>3, <1>4 DEF HaltStep

\* Every step of the specification keeps the counters consistent.
LEMMA CounterNext == CounterInv /\ [Next]_vars => CounterInv'
<1> SUFFICES ASSUME CounterInv, [Next]_vars PROVE CounterInv'
  OBVIOUS
<1>1. CASE UNCHANGED vars
  BY <1>1 DEF CounterInv, TypeOK, RingConsistent, vars, ring, store, control, life
<1>2. ASSUME NEW c \in Contexts,
             \/ Enqueue(c) \/ Finish(c) \/ PeriodicExec(c) \/ MlmeInit(c)
             \/ RestartStep(c) \/ HaltStep(c)
      PROVE  CounterInv'
  BY <1>2, CounterEnqueue, CounterSender, CounterHandler, CounterRestart,
     CounterHalt DEF Finish
<1> QED BY <1>1, <1>2 DEF Next, RestartNext, SteadyNext

\* Whatever the contexts do, with restarts and with the interface closed and
\* opened at any point, the ring's state keeps its types.
THEOREM TypeCorrect == Spec => []TypeOK
<1>1. CounterInv => TypeOK
  BY DEF CounterInv
<1> QED BY <1>1, CounterInit, CounterNext, PTL DEF Spec

\* ... and Num, Head and Tail always describe one window of the ring.
THEOREM CountersAgree == Spec => []RingConsistent
<1>1. CounterInv => RingConsistent
  BY DEF CounterInv
<1> QED BY <1>1, CounterInit, CounterNext, PTL DEF Spec

---------------------------------------------------------------------------
(* One runner at a time, through enqueueing, handling and restarts *)

Active(c) == Serving(c) \/ Resetting(c)

\* Where a context inside MlmeHandler can be.
PlacesInv ==
    /\ \A c \in Contexts : pc[c] \in {"serve", "release", "dequeue"} => Serving(c)
    /\ \A c \in Contexts : Serving(c) =>
           pc[c] \in {"serve", "copy", "publish", "release", "dequeue"}

\* Until the interface is opened nothing runs, so MlmeInit may reset Running.
DownIdle == phase = "down" => armed = {} /\ \A c \in Contexts : pc[c] = "idle"

RunnerInv == OneRunner /\ PlacesInv /\ DownIdle

\* At probe time nobody runs.
LEMMA RunnerInit == Init => RunnerInv
BY DEF Init, RunnerInv, OneRunner, PlacesInv, DownIdle, Serving, Resetting

\* A step of c that changes neither Running nor whether c is active.
LEMMA RunnerKept ==
    ASSUME TypeOK, RunnerInv, NEW c \in Contexts, NEW p \in PcValues,
           pc' = [pc EXCEPT ![c] = p], elem' = elem, Running' = Running,
           p \in {"flush", "cancel", "finish"} <=> Resetting(c),
           p \in {"serve", "release", "dequeue"} => Serving(c),
           Serving(c) => p \in {"serve", "copy", "publish", "release", "dequeue"}
    PROVE  OneRunner' /\ PlacesInv'
<1>1. \A d \in Contexts : Serving(d)' <=> Serving(d)
  BY DEF Serving
<1>2. \A d \in Contexts : Resetting(d)' <=> Resetting(d)
  BY DEF TypeOK, Resetting
<1>3. OneRunner'
  BY <1>1, <1>2 DEF RunnerInv, OneRunner
<1>4. PlacesInv'
  BY <1>1 DEF RunnerInv, PlacesInv, TypeOK
<1> QED BY <1>3, <1>4

\* The loop test, made by a context that is alone.
LEMMA RunnerTakeHead ==
    ASSUME TypeOK, RunnerInv, NEW c \in Contexts, NEW h \in Slots, NEW n,
           TakeHead(c, h, n),
           \A d \in Contexts : Active(d) => d = c,
           ~Resetting(c)
    PROVE  OneRunner' /\ PlacesInv'
<1>1. \A d \in Contexts : d # c => pc'[d] = pc[d] /\ elem'[d] = elem[d]
  BY DEF TakeHead, LeaveHandler, TypeOK
<1>2. \A d \in Contexts : d # c => ~Serving(d)' /\ ~Resetting(d)'
  BY <1>1 DEF Active, Serving, Resetting
<1>3. CASE n > 0 /\ Occupied[h]
  <2>1. Running' = TRUE /\ elem'[c] = h /\ pc'[c] = "serve" /\ h # NoSlot
    BY <1>3 DEF TakeHead, TypeOK, NoSlot, Slots
  <2>2. Serving(c)' /\ ~Resetting(c)'
    BY <2>1 DEF Serving, Resetting
  <2>3. OneRunner'
    BY <1>2, <2>1, <2>2 DEF OneRunner
  <2>4. PlacesInv'
    BY <1>1, <1>2, <2>1, <2>2 DEF PlacesInv, RunnerInv, Serving
  <2> QED BY <2>3, <2>4
<1>4. CASE ~(n > 0 /\ Occupied[h])
  <2>1. Running' = FALSE /\ elem'[c] = NoSlot /\ pc'[c] = "idle"
    BY <1>4 DEF TakeHead, LeaveHandler, TypeOK
  <2>2. ~Serving(c)' /\ ~Resetting(c)'
    BY <2>1 DEF Serving, Resetting
  <2>3. OneRunner'
    BY <1>2, <2>1, <2>2 DEF OneRunner
  <2>4. PlacesInv'
    BY <1>1, <1>2, <2>1, <2>2 DEF PlacesInv, RunnerInv, Serving
  <2> QED BY <2>3, <2>4
<1> QED BY <1>3, <1>4

\* Enqueueing makes no context active: a slot is reserved in the place it is in.
LEMMA RunnerEnqueue ==
    ASSUME TypeOK, RunnerInv, NEW c \in Contexts, Enqueue(c)
    PROVE  RunnerInv'
<1>1. PICK m \in Msg : MlmeEnqueue(c, m) \/ MlmeEnqueueForRecv(c, m)
  BY DEF Enqueue
<1>2. pc[c] \in {"serve", "request", "idle"} /\ phase # "down" /\ phase' = phase
  BY <1>1 DEF MlmeEnqueue, MlmeEnqueueForRecv, MayEnqueue, life, RunnerInv, DownIdle
<1>3. Reserve(c, m) /\ elem' = elem /\ Running' = Running
  BY <1>1 DEF MlmeEnqueue, MlmeEnqueueForRecv
<1>4. PICK p \in {"copy", Return(c)} : pc' = [pc EXCEPT ![c] = p]
  BY <1>3 DEF Reserve
<1>5. /\ p \in PcValues /\ p \notin {"flush", "cancel", "finish"} /\ ~Resetting(c)
      /\ p \in {"serve", "release", "dequeue"} => Serving(c)
      /\ Serving(c) => p \in {"serve", "copy", "publish", "release", "dequeue"}
  BY <1>2 DEF Return, PcValues, Resetting
<1>6. OneRunner' /\ PlacesInv'
  BY <1>3, <1>4, <1>5, RunnerKept
<1> QED BY <1>2, <1>6 DEF RunnerInv, DownIdle

\* Filling a slot and the round of the periodic task make no context active.
LEMMA RunnerSender ==
    ASSUME TypeOK, RunnerInv, NEW c \in Contexts,
           CopyElement(c) \/ SetOccupied(c) \/ PeriodicExec(c)
    PROVE  RunnerInv'
<1>1. /\ pc[c] \in {"copy", "publish"} \/ (pc[c] = "idle" /\ c \in armed)
      /\ phase' = phase /\ elem' = elem /\ Running' = Running
  BY DEF CopyElement, SetOccupied, PeriodicExec, life
<1>2. phase # "down"
  BY <1>1 DEF RunnerInv, DownIdle
<1>3. PICK p \in {"publish", Return(c), "call"} : pc' = [pc EXCEPT ![c] = p]
  BY DEF CopyElement, SetOccupied, PeriodicExec
<1>4. p = "call" /\ pc[c] # "idle" => ~Serving(c)
  BY <1>1, <1>3 DEF CopyElement, SetOccupied, PeriodicExec, Return, TypeOK
<1>5. /\ p \in PcValues /\ p \notin {"flush", "cancel", "finish"} /\ ~Resetting(c)
      /\ p \in {"serve", "release", "dequeue"} => Serving(c)
      /\ Serving(c) => p \in {"serve", "copy", "publish", "release", "dequeue"}
  BY <1>1, <1>3, <1>4 DEF Return, PcValues, Resetting, RunnerInv, PlacesInv
<1>6. OneRunner' /\ PlacesInv'
  BY <1>1, <1>3, <1>5, RunnerKept
<1> QED BY <1>1, <1>2, <1>6 DEF RunnerInv, DownIdle

\* MlmeHandler: who enters finds Running FALSE, so that nobody is active, and
\* who leaves was alone (mlme.c:5662-5731).
LEMMA RunnerHandler ==
    ASSUME TypeOK, RunnerInv, NEW c \in Contexts, HandlerStep(c)
    PROVE  RunnerInv'
<1>1. phase' = phase /\ pc[c] # "idle"
  BY DEF HandlerStep, EnterHandler, ReleaseElement, Dequeue
<1>2. phase # "down"
  BY <1>1 DEF RunnerInv, DownIdle
<1>3. CASE EnterHandler(c)
  <2>1. pc[c] = "call" /\ ~Serving(c) /\ ~Resetting(c)
    BY <1>3 DEF EnterHandler, RunnerInv, PlacesInv, Resetting
  <2>2. CASE Running
    <3>1. /\ pc' = [pc EXCEPT ![c] = "idle"] /\ Running' = Running
          /\ elem' = elem
      BY <1>3, <2>1, <2>2 DEF EnterHandler, LeaveHandler, TypeOK, Serving
    <3>2. OneRunner' /\ PlacesInv'
      BY <2>1, <3>1, RunnerKept DEF PcValues
    <3> QED BY <1>1, <1>2, <3>2 DEF RunnerInv, DownIdle
  <2>3. CASE ~Running
    <3>1. TakeHead(c, head, num) /\ head \in Slots
      BY <1>3, <2>3 DEF EnterHandler, TypeOK
    <3>2. \A d \in Contexts : ~Active(d)
      BY <2>3 DEF RunnerInv, OneRunner, Active
    <3>3. OneRunner' /\ PlacesInv'
      BY <2>1, <3>1, <3>2, RunnerTakeHead
    <3> QED BY <1>1, <1>2, <3>3 DEF RunnerInv, DownIdle
  <2> QED BY <2>2, <2>3
<1>4. CASE ReleaseElement(c)
  <2>1. /\ pc[c] \in {"serve", "release"}
        /\ pc' = [pc EXCEPT ![c] = "dequeue"] /\ elem' = elem /\ Running' = Running
    BY <1>4 DEF ReleaseElement
  <2>2. Serving(c) /\ ~Resetting(c)
    BY <2>1 DEF RunnerInv, PlacesInv, Resetting
  <2>3. OneRunner' /\ PlacesInv'
    BY <2>1, <2>2, RunnerKept DEF PcValues
  <2> QED BY <1>1, <1>2, <2>3 DEF RunnerInv, DownIdle
<1>5. CASE Dequeue(c)
  <2>1. pc[c] = "dequeue" /\ Serving(c) /\ ~Resetting(c)
    BY <1>5 DEF Dequeue, RunnerInv, PlacesInv, Resetting
  <2>2. \A d \in Contexts : Active(d) => d = c
    BY <2>1 DEF RunnerInv, OneRunner, Active
  <2>3. PICK h \in Slots, n \in {num, num - 1} : TakeHead(c, h, n)
    <3>1. head \in Slots /\ (head + 1) % MaxLen \in Slots
      BY ModStep DEF TypeOK, Slots, NthFrom
    <3> QED BY <1>5, <3>1 DEF Dequeue
  <2>4. OneRunner' /\ PlacesInv'
    BY <2>1, <2>2, <2>3, RunnerTakeHead
  <2> QED BY <1>1, <1>2, <2>4 DEF RunnerInv, DownIdle
<1> QED BY <1>3, <1>4, <1>5 DEF HandlerStep

\* MlmeInit resets Running when the interface has never been up: nobody is active.
LEMMA RunnerOpen ==
    ASSUME TypeOK, RunnerInv, NEW c \in Contexts, MlmeInit(c)
    PROVE  RunnerInv'
<1>1. /\ phase = "down" /\ phase' = "up" /\ Running' = FALSE
      /\ pc' = pc /\ elem' = elem
  BY DEF MlmeInit, control
<1>2. \A d \in Contexts : pc'[d] = "idle" /\ ~Serving(d)
  BY <1>1 DEF RunnerInv, DownIdle, PlacesInv
<1>3. \A d \in Contexts : ~Serving(d)' /\ ~Resetting(d)'
  BY <1>1, <1>2 DEF Serving, Resetting
<1> QED BY <1>1, <1>2, <1>3 DEF RunnerInv, OneRunner, PlacesInv, DownIdle

\* MlmeRestartStateMachine takes Running as a handler does and gives it back.
LEMMA RunnerRestart ==
    ASSUME TypeOK, RunnerInv, NEW c \in Contexts, RestartStep(c)
    PROVE  RunnerInv'
<1>1. elem' = elem /\ phase' = phase /\ phase # "down"
  <2>1. elem' = elem /\ phase' = phase /\ (phase = "up" \/ pc[c] # "idle")
    BY DEF RestartStep, RestartEnter, RestartFlush, RestartCancelTimers,
           RestartFinish, life
  <2> QED BY <2>1 DEF RunnerInv, DownIdle
<1>2. ~Serving(c)
  BY DEF RestartStep, RestartEnter, RestartFlush, RestartCancelTimers,
         RestartFinish, RunnerInv, PlacesInv
<1>3. CASE RestartEnter(c) /\ Running
  <2>1. pc' = [pc EXCEPT ![c] = "request"] /\ Running' = Running /\ ~Resetting(c)
    BY <1>3 DEF RestartEnter, Resetting
  <2>2. OneRunner' /\ PlacesInv'
    BY <1>1, <1>2, <2>1, RunnerKept DEF PcValues
  <2> QED BY <1>1, <2>2 DEF RunnerInv, DownIdle
<1>4. CASE RestartEnter(c) /\ ~Running
  <2>1. pc' = [pc EXCEPT ![c] = "flush"] /\ Running' = TRUE
    BY <1>4 DEF RestartEnter
  <2>2. \A d \in Contexts : ~Serving(d) /\ ~Resetting(d)
    BY <1>4 DEF RunnerInv, OneRunner
  <2>3. /\ \A d \in Contexts : ~Serving(d)'
        /\ \A d \in Contexts : Resetting(d)' <=> d = c
    BY <1>1, <2>1, <2>2 DEF Serving, Resetting, TypeOK
  <2>4. OneRunner'
    BY <2>1, <2>3 DEF OneRunner
  <2>5. PlacesInv'
    BY <2>1, <2>2, <2>3 DEF PlacesInv, RunnerInv, TypeOK
  <2> QED BY <1>1, <2>4, <2>5 DEF RunnerInv, DownIdle
<1>5. CASE RestartFlush(c) \/ RestartCancelTimers(c)
  <2>1. PICK p \in {"cancel", "finish"} :
           pc' = [pc EXCEPT ![c] = p] /\ Running' = Running /\ Resetting(c)
    BY <1>5 DEF RestartFlush, RestartCancelTimers, Resetting
  <2>2. OneRunner' /\ PlacesInv'
    BY <1>1, <1>2, <2>1, RunnerKept DEF PcValues
  <2> QED BY <1>1, <2>2 DEF RunnerInv, DownIdle
<1>6. CASE RestartFinish(c)
  <2>1. /\ Resetting(c) /\ Running' = FALSE
        /\ pc' = [pc EXCEPT ![c] = "request"]
    BY <1>6 DEF RestartFinish, Resetting
  <2>2. \A d \in Contexts : d # c => ~Serving(d) /\ ~Resetting(d)
    BY <2>1 DEF RunnerInv, OneRunner
  <2>3. \A d \in Contexts : ~Serving(d)' /\ ~Resetting(d)'
    BY <1>1, <1>2, <2>1, <2>2 DEF Serving, Resetting, TypeOK
  <2>4. OneRunner' /\ PlacesInv'
    BY <1>1, <2>1, <2>3 DEF OneRunner, PlacesInv, RunnerInv, TypeOK, Serving
  <2> QED BY <1>1, <2>4 DEF RunnerInv, DownIdle
<1> QED BY <1>3, <1>4, <1>5, <1>6 DEF RestartStep

\* Every step with the interface open keeps RunnerInv.
LEMMA RunnerNext == TypeOK /\ RunnerInv /\ [RestartNext]_vars => RunnerInv'
<1> SUFFICES ASSUME TypeOK, RunnerInv, [RestartNext]_vars PROVE RunnerInv'
  OBVIOUS
<1>1. CASE UNCHANGED vars
  BY <1>1 DEF RunnerInv, OneRunner, PlacesInv, DownIdle, Serving, Resetting,
              vars, control, life
<1>2. ASSUME NEW c \in Contexts,
             \/ Enqueue(c) \/ Finish(c) \/ PeriodicExec(c) \/ MlmeInit(c)
             \/ RestartStep(c)
      PROVE  RunnerInv'
  BY <1>2, RunnerEnqueue, RunnerSender, RunnerHandler, RunnerOpen,
     RunnerRestart DEF Finish
<1> QED BY <1>1, <1>2 DEF RestartNext, SteadyNext

\* As long as the interface stays open, at most one context runs the state
\* machines, and none runs while a request resets them (mlme.c:5645).
THEOREM OneRunnerAtATime == RestartSpec => []OneRunner
<1>1. RestartSpec => []TypeOK
  <2>1. CounterInv /\ [RestartNext]_vars => CounterInv'
    BY CounterNext DEF Next
  <2>2. CounterInv => TypeOK
    BY DEF CounterInv
  <2> QED BY <2>1, <2>2, CounterInit, PTL DEF RestartSpec
<1>2. RunnerInv => OneRunner
  BY DEF RunnerInv
<1> QED BY <1>1, <1>2, RunnerInit, RunnerNext, PTL DEF RestartSpec

---------------------------------------------------------------------------
(* No incomplete element is served, while no request restarts the machines *)

\* What a writer owns: one slot of the queue each, not flagged yet.
WriterInv ==
    /\ \A c \in Contexts : Writing(c) =>
           slot[c] \in Window /\ ~Occupied[slot[c]] /\ intended[slot[c]] = arg[c]
    /\ \A c \in Contexts : pc[c] = "publish" => Entry[slot[c]] = arg[c]
    /\ \A c, d \in Contexts :
           Writing(c) /\ Writing(d) /\ slot[c] = slot[d] => c = d

\* What the flag of a slot tells, with no reference to the writers.
FlagInv == \A i \in Slots : Occupied[i] => i \in Window /\ Entry[i] = intended[i]

\* The flag of the head stays set until the action of its message is over.
ServerInv ==
    \A c \in Contexts : Serving(c) => (Occupied[head] <=> pc[c] # "dequeue")

ElementInv == WriterInv /\ FlagInv /\ ServesWholeHead /\ ServerInv
SteadyInv == CounterInv /\ RunnerInv /\ ElementInv

\* No slot is flagged, and nobody writes or serves.
LEMMA ElementInit == Init => ElementInv
<1> SUFFICES ASSUME Init PROVE ElementInv
  OBVIOUS
<1>1. \A c \in Contexts : pc[c] = "idle" /\ ~Serving(c) /\ ~Writing(c)
  BY DEF Init, Serving, Writing
<1>2. \A i \in Slots : ~Occupied[i]
  BY DEF Init
<1> QED BY <1>1, <1>2 DEF ElementInv, WriterInv, FlagInv,
                          ServesWholeHead, ServerInv

\* A server stands on the head, which is in the queue.
LEMMA HeadInWindow ==
    ASSUME TypeOK, num > 0
    PROVE  head \in Window /\ head \in Slots /\ Window \subseteq Slots
<1>1. head \in Slots /\ num \in 1 .. MaxLen /\ num \in 0 .. MaxLen
  BY DEF TypeOK
<1>2. head \in WindowFrom(head, num)
  BY <1>1, WindowShrinks
<1>3. \A i \in WindowFrom(head, num) : i \in Slots
  BY <1>1, WindowInterval
<1> QED BY <1>1, <1>2, <1>3 DEF Window

\* A reserved slot was not in the window, hence not flagged and not written by
\* another sender, and it is not the head that is being served.
LEMMA ElementEnqueue ==
    ASSUME SteadyInv, NEW c \in Contexts, Enqueue(c)
    PROVE  ElementInv'
<1> USE DEF SteadyInv, CounterInv, ElementInv
<1>1. PICK m \in Msg : MlmeEnqueue(c, m) \/ MlmeEnqueueForRecv(c, m)
  BY DEF Enqueue
<1>2. /\ Reserve(c, m) /\ elem' = elem
      /\ pc[c] \in {"serve", "request", "idle"}
  BY <1>1 DEF MlmeEnqueue, MlmeEnqueueForRecv, MayEnqueue
<1>3. /\ ~Writing(c) /\ pc[c] # "dequeue"
      /\ Return(c) \in {"release", "idle", "call"}
  BY <1>2 DEF Writing, Return
<1>4. CASE num = MaxLen
  <2>1. /\ pc' = [pc EXCEPT ![c] = Return(c)]
        /\ UNCHANGED <<num, head, tail, Entry, Occupied, intended, slot, arg>>
    BY <1>2, <1>4 DEF Reserve, ring, store
  <2>2. \A d \in Contexts : (Writing(d)' <=> Writing(d)) /\ (Serving(d)' <=> Serving(d))
    BY <1>2, <1>3, <2>1 DEF Writing, Serving, TypeOK
  <2>3. \A d \in Contexts : /\ pc'[d] = "publish" <=> pc[d] = "publish"
                            /\ pc'[d] = "dequeue" <=> pc[d] = "dequeue"
    BY <1>2, <1>3, <2>1 DEF TypeOK
  <2>5. Window' = Window
    BY <2>1 DEF Window
  <2>6. WriterInv' /\ FlagInv'
    BY <2>1, <2>2, <2>3, <2>5 DEF WriterInv, FlagInv
  <2>7. ServesWholeHead' /\ ServerInv'
    BY <1>2, <2>1, <2>2, <2>3 DEF ServesWholeHead, ServerInv
  <2> QED BY <2>6, <2>7
<1>5. CASE num # MaxLen
  <2>1. /\ slot' = [slot EXCEPT ![c] = tail] /\ arg' = [arg EXCEPT ![c] = m]
        /\ intended' = [intended EXCEPT ![tail] = m]
        /\ num' = num + 1 /\ pc' = [pc EXCEPT ![c] = "copy"]
        /\ head' = head /\ Entry' = Entry /\ Occupied' = Occupied
    BY <1>2, <1>5 DEF Reserve
  <2>2. /\ tail \in Slots /\ tail \notin Window
        /\ Window' = Window \cup {tail}
    <3>1. head \in Slots /\ num \in 0 .. MaxLen - 1 /\ tail = NthFrom(head, num)
      BY <1>5 DEF TypeOK, RingConsistent
    <3> QED BY <2>1, <3>1, WindowGrows DEF Window
  <2>3. ~Occupied[tail]
    BY <2>2 DEF FlagInv
  <2>4. /\ \A d \in Contexts : Writing(d)' <=> Writing(d) \/ d = c
        /\ \A d \in Contexts : Serving(d)' <=> Serving(d)
        /\ \A d \in Contexts : d # c => /\ slot'[d] = slot[d] /\ arg'[d] = arg[d]
                                        /\ pc'[d] = pc[d]
        /\ slot'[c] = tail /\ arg'[c] = m /\ pc'[c] = "copy"
    BY <1>2, <2>1 DEF Writing, Serving, TypeOK
  <2>5. /\ \A i \in Window : intended'[i] = intended[i]
        /\ intended'[tail] = m
    BY <2>1, <2>2 DEF TypeOK
  <2>7. WriterInv'
    <3>1. \A d \in Contexts : Writing(d)' =>
             slot'[d] \in Window' /\ ~Occupied'[slot'[d]] /\ intended'[slot'[d]] = arg'[d]
      BY <2>1, <2>2, <2>3, <2>4, <2>5 DEF WriterInv
    <3>2. \A d \in Contexts : pc'[d] = "publish" => Entry'[slot'[d]] = arg'[d]
      BY <2>1, <2>4 DEF WriterInv
    <3>3. \A d \in Contexts : d # c /\ Writing(d) => slot[d] # tail
      BY <2>2 DEF WriterInv
    <3>4. \A d, e \in Contexts : Writing(d)' /\ Writing(e)' /\ slot'[d] = slot'[e] => d = e
      BY <2>4, <3>3 DEF WriterInv
    <3> QED BY <3>1, <3>2, <3>4 DEF WriterInv
  <2>8. FlagInv'
    BY <2>1, <2>2, <2>3, <2>5 DEF FlagInv
  <2>9. ServesWholeHead' /\ ServerInv'
    <3> SUFFICES ASSUME NEW d \in Contexts, Serving(d)'
                 PROVE  /\ num' > 0 /\ elem'[d] = head' /\ Entry'[head'] = intended'[head']
                        /\ \A e \in Contexts : Writing(e)' => slot'[e] # head'
                        /\ Occupied'[head'] <=> pc'[d] # "dequeue"
      BY DEF ServesWholeHead, ServerInv
    <3>1. Serving(d) /\ num > 0 /\ head \in Window
      BY <2>4, HeadInWindow DEF ServesWholeHead
    <3>2. num' > 0
      BY <2>1, <3>1 DEF TypeOK
    <3>3. head # tail
      BY <2>2, <3>1
    <3>4. pc'[d] = "dequeue" <=> pc[d] = "dequeue"
      BY <1>3, <2>4
    <3> QED BY <1>2, <2>1, <2>4, <2>5, <3>1, <3>2, <3>3, <3>4
            DEF ServesWholeHead, ServerInv
  <2> QED BY <2>7, <2>8, <2>9
<1> QED BY <1>4, <1>5

\* Copying and flagging touch only the slot the sender has reserved.
LEMMA ElementSender ==
    ASSUME SteadyInv, NEW c \in Contexts,
           CopyElement(c) \/ SetOccupied(c) \/ PeriodicExec(c) \/ MlmeInit(c)
    PROVE  ElementInv'
<1> USE DEF SteadyInv, CounterInv, ElementInv
<1>1. /\ UNCHANGED <<num, head, tail, intended, elem>> /\ Window' = Window
      /\ \A d \in Contexts : Serving(d)' <=> Serving(d)
  BY DEF CopyElement, SetOccupied, PeriodicExec, MlmeInit, ring, store, control,
         Window, Serving
<1>2. CASE CopyElement(c)
  <2>1. /\ Writing(c) /\ pc[c] = "copy" /\ pc' = [pc EXCEPT ![c] = "publish"]
        /\ Entry' = [Entry EXCEPT ![slot[c]] = arg[c]]
        /\ UNCHANGED <<Occupied, slot, arg>>
    BY <1>2 DEF CopyElement, Writing
  <2>2. /\ \A d \in Contexts : Writing(d)' <=> Writing(d)
        /\ \A d \in Contexts : d # c => pc'[d] = pc[d]
        /\ \A i \in Slots : i # slot[c] => Entry'[i] = Entry[i]
        /\ pc'[c] = "publish"
    BY <2>1 DEF Writing, TypeOK
  <2>3. slot[c] \in Window /\ ~Occupied[slot[c]]
    BY <2>1 DEF WriterInv
  <2>4. \A i \in Window : i \in Slots
    BY WindowInterval DEF Window, TypeOK
  <2>5. Entry'[slot[c]] = arg[c]
    BY <2>1, <2>3, <2>4 DEF TypeOK
  <2>6. WriterInv'
    <3>1. \A d \in Contexts : d # c /\ pc[d] = "publish" => Entry'[slot[d]] = arg[d]
      <4> SUFFICES ASSUME NEW d \in Contexts, d # c, pc[d] = "publish"
                   PROVE  Entry'[slot[d]] = arg[d]
        OBVIOUS
      <4>1. Writing(d) /\ slot[d] # slot[c] /\ slot[d] \in Slots
        BY <2>1, <2>4 DEF WriterInv, Writing
      <4> QED BY <2>2, <4>1 DEF WriterInv
    <3> QED BY <1>1, <2>1, <2>2, <2>5, <3>1 DEF WriterInv
  <2>7. FlagInv'
    BY <1>1, <2>1, <2>2, <2>3 DEF FlagInv
  <2>8. ServesWholeHead' /\ ServerInv'
    <3> SUFFICES ASSUME NEW d \in Contexts, Serving(d)
                 PROVE  /\ num' > 0 /\ elem'[d] = head' /\ Entry'[head'] = intended'[head']
                        /\ \A e \in Contexts : Writing(e)' => slot'[e] # head'
                        /\ Occupied'[head'] <=> pc'[d] # "dequeue"
      BY <1>1 DEF ServesWholeHead, ServerInv
    <3>1. slot[c] # head /\ head \in Slots
      BY <2>1 DEF ServesWholeHead, TypeOK
    <3>2. pc'[d] = "dequeue" <=> pc[d] = "dequeue"
      BY <2>1, <2>2
    <3> QED BY <1>1, <2>1, <2>2, <3>1, <3>2 DEF ServesWholeHead, ServerInv
  <2> QED BY <2>6, <2>7, <2>8
<1>3. CASE SetOccupied(c)
  <2>1. /\ Writing(c) /\ pc[c] = "publish" /\ pc' = [pc EXCEPT ![c] = Return(c)]
        /\ Occupied' = [Occupied EXCEPT ![slot[c]] = TRUE]
        /\ slot' = [slot EXCEPT ![c] = NoSlot] /\ arg' = [arg EXCEPT ![c] = NoMsg]
        /\ UNCHANGED Entry
    BY <1>3 DEF SetOccupied, Writing
  <2>2. /\ \A d \in Contexts : Writing(d)' <=> Writing(d) /\ d # c
        /\ \A d \in Contexts : d # c => /\ pc'[d] = pc[d] /\ slot'[d] = slot[d]
                                        /\ arg'[d] = arg[d]
        /\ pc'[c] # "publish" /\ pc'[c] # "dequeue"
    BY <2>1 DEF Writing, TypeOK, Return
  <2>3. /\ slot[c] \in Window /\ Entry[slot[c]] = intended[slot[c]]
        /\ \A d \in Contexts : d # c /\ Writing(d) => slot[d] # slot[c]
    BY <2>1 DEF WriterInv
  <2>4. \A i \in Window : i \in Slots
    BY WindowInterval DEF Window, TypeOK
  <2>5. \A i \in Slots : Occupied'[i] <=> Occupied[i] \/ i = slot[c]
    BY <2>1, <2>3, <2>4 DEF TypeOK
  <2>6. WriterInv'
    <3>1. \A d \in Contexts : Writing(d)' =>
             slot'[d] \in Window' /\ ~Occupied'[slot'[d]] /\ intended'[slot'[d]] = arg'[d]
      BY <1>1, <2>2, <2>3, <2>4, <2>5 DEF WriterInv
    <3> QED BY <2>1, <2>2, <3>1 DEF WriterInv
  <2>7. FlagInv'
    BY <1>1, <2>1, <2>3, <2>5 DEF FlagInv
  <2>8. ServesWholeHead' /\ ServerInv'
    <3> SUFFICES ASSUME NEW d \in Contexts, Serving(d)
                 PROVE  /\ num' > 0 /\ elem'[d] = head' /\ Entry'[head'] = intended'[head']
                        /\ \A e \in Contexts : Writing(e)' => slot'[e] # head'
                        /\ Occupied'[head'] <=> pc'[d] # "dequeue"
      BY <1>1 DEF ServesWholeHead, ServerInv
    <3>1. slot[c] # head /\ head \in Slots
      BY <2>1 DEF ServesWholeHead, TypeOK
    <3>2. pc'[d] = "dequeue" <=> pc[d] = "dequeue"
      BY <2>1, <2>2
    <3> QED BY <1>1, <2>1, <2>2, <2>5, <3>1, <3>2 DEF ServesWholeHead, ServerInv
  <2> QED BY <2>6, <2>7, <2>8
<1>4. CASE PeriodicExec(c) \/ MlmeInit(c)
  <2>1. /\ UNCHANGED <<Entry, Occupied, slot, arg>>
        /\ \A d \in Contexts : /\ Writing(d)' <=> Writing(d)
                               /\ pc'[d] = "publish" <=> pc[d] = "publish"
                               /\ pc'[d] = "dequeue" <=> pc[d] = "dequeue"
    BY <1>4 DEF PeriodicExec, MlmeInit, Writing, TypeOK, store, control
  <2> QED BY <1>1, <2>1 DEF WriterInv, FlagInv, ServesWholeHead, ServerInv
<1> QED BY <1>2, <1>3, <1>4

\* The loop test: the flag of the next head tells that it may be served.
LEMMA ElementTakeHead ==
    ASSUME TypeOK, TypeOK', NEW c \in Contexts, TakeHead(c, head', num'),
           \A d \in Contexts : d # c => ~Serving(d),
           ~Writing(c), WriterInv', FlagInv', UNCHANGED <<Occupied, slot>>
    PROVE  ServesWholeHead' /\ ServerInv'
<1>1. \A d \in Contexts : d # c => elem'[d] = elem[d]
  BY DEF TakeHead, LeaveHandler, TypeOK
<1>2. \A d \in Contexts : d # c => ~Serving(d)'
  BY <1>1 DEF Serving
<1>3. CASE num' > 0 /\ Occupied[head']
  <2>1. elem'[c] = head' /\ pc'[c] = "serve"
    BY <1>3 DEF TakeHead, TypeOK
  <2>2. Entry'[head'] = intended'[head']
    BY <1>3 DEF FlagInv, TypeOK
  <2>3. \A d \in Contexts : Writing(d)' => slot'[d] # head'
    BY <1>3 DEF WriterInv
  <2> QED BY <1>2, <1>3, <2>1, <2>2, <2>3 DEF ServesWholeHead, ServerInv
<1>4. CASE ~(num' > 0 /\ Occupied[head'])
  <2>1. elem'[c] = NoSlot
    BY <1>4 DEF TakeHead, LeaveHandler, TypeOK
  <2> QED BY <1>2, <2>1 DEF ServesWholeHead, ServerInv, Serving
<1> QED BY <1>3, <1>4

\* The handler clears the flag of the head, dequeues it, and looks at the next one.
LEMMA ElementHandler ==
    ASSUME SteadyInv, TypeOK', NEW c \in Contexts, HandlerStep(c)
    PROVE  ElementInv'
<1> USE DEF SteadyInv, CounterInv, ElementInv
<1>1. CASE EnterHandler(c)
  <2>1. /\ UNCHANGED <<num, head, tail, Entry, Occupied, intended, slot, arg>>
        /\ Window' = Window /\ pc[c] = "call" /\ ~Serving(c) /\ ~Writing(c)
    BY <1>1 DEF EnterHandler, ring, store, Window, RunnerInv, PlacesInv, Writing
  <2>2. /\ \A d \in Contexts : d # c => pc'[d] = pc[d] /\ elem'[d] = elem[d]
        /\ pc'[c] \in {"idle", "serve"}
    BY <1>1 DEF EnterHandler, TakeHead, LeaveHandler, TypeOK
  <2>3. \A d \in Contexts : /\ Writing(d)' <=> Writing(d)
                            /\ pc'[d] = "publish" <=> pc[d] = "publish"
    BY <2>1, <2>2 DEF Writing
  <2>4. WriterInv' /\ FlagInv'
    BY <2>1, <2>3 DEF WriterInv, FlagInv
  <2>5. CASE Running
    <3>1. elem'[c] = NoSlot
      BY <1>1, <2>5 DEF EnterHandler, LeaveHandler, TypeOK
    <3>2. \A d \in Contexts : Serving(d)' => d # c /\ Serving(d)
      BY <2>2, <3>1 DEF Serving
    <3>3. ServesWholeHead' /\ ServerInv'
      BY <2>1, <2>2, <2>3, <3>2 DEF ServesWholeHead, ServerInv
    <3> QED BY <2>4, <3>3
  <2>6. CASE ~Running
    <3>1. TakeHead(c, head', num')
      BY <1>1, <2>1, <2>6 DEF EnterHandler
    <3>2. \A d \in Contexts : ~Serving(d)
      BY <2>6 DEF RunnerInv, OneRunner
    <3> QED BY <2>1, <2>4, <3>1, <3>2, ElementTakeHead
  <2> QED BY <2>5, <2>6
<1>2. CASE ReleaseElement(c)
  <2>1. /\ pc[c] \in {"serve", "release"} /\ pc' = [pc EXCEPT ![c] = "dequeue"]
        /\ Occupied' = [Occupied EXCEPT ![elem[c]] = FALSE]
        /\ UNCHANGED <<num, head, tail, Entry, intended, slot, arg, elem>>
        /\ Window' = Window
    BY <1>2 DEF ReleaseElement, ring, Window
  <2>2. /\ Serving(c) /\ elem[c] = head /\ head \in Slots /\ num > 0
        /\ \A d \in Contexts : Serving(d) => d = c
    BY <2>1 DEF RunnerInv, PlacesInv, OneRunner, ServesWholeHead, TypeOK
  <2>3. /\ \A d \in Contexts : /\ Writing(d)' <=> Writing(d)
                               /\ pc'[d] = "publish" <=> pc[d] = "publish"
                               /\ Serving(d)' <=> Serving(d)
        /\ pc'[c] = "dequeue"
    BY <2>1 DEF Writing, Serving, TypeOK
  <2>4. \A i \in Slots : Occupied'[i] <=> Occupied[i] /\ i # head
    BY <2>1, <2>2 DEF TypeOK
  <2>5. \A i \in Window : i \in Slots
    BY WindowInterval DEF Window, TypeOK
  <2>6. WriterInv' /\ FlagInv'
    BY <2>1, <2>3, <2>4, <2>5 DEF WriterInv, FlagInv
  <2>7. ServesWholeHead' /\ ServerInv'
    BY <2>1, <2>2, <2>3, <2>4 DEF ServesWholeHead, ServerInv
  <2> QED BY <2>6, <2>7
<1>3. CASE Dequeue(c)
  <2>1. /\ pc[c] = "dequeue" /\ Serving(c) /\ ~Writing(c)
        /\ UNCHANGED <<Entry, Occupied, slot, arg>>
    BY <1>3 DEF Dequeue, RunnerInv, PlacesInv, Writing
  <2>2. /\ num > 0 /\ num \in 1 .. MaxLen /\ head \in Slots /\ ~Occupied[head]
        /\ \A d \in Contexts : Serving(d) => d = c
        /\ \A d \in Contexts : Writing(d) => slot[d] # head
    BY <2>1 DEF RunnerInv, OneRunner, ServesWholeHead, ServerInv, TypeOK
  <2>3. /\ head' = (head + 1) % MaxLen /\ num' = num - 1
        /\ intended' = [intended EXCEPT ![head] = NoMsg]
        /\ TakeHead(c, (head + 1) % MaxLen, num - 1)
    BY <1>3, <2>2 DEF Dequeue
  <2>4. Window' = Window \ {head}
    BY <2>2, <2>3, ModStep, WindowShrinks DEF Window
  <2>5. /\ \A d \in Contexts : d # c => pc'[d] = pc[d]
        /\ pc'[c] \in {"idle", "serve"}
    BY <2>3 DEF TakeHead, LeaveHandler, TypeOK
  <2>6. \A d \in Contexts : /\ Writing(d)' <=> Writing(d)
                            /\ pc'[d] = "publish" <=> pc[d] = "publish"
    BY <2>1, <2>5 DEF Writing
  <2>7. \A i : i # head => intended'[i] = intended[i]
    BY <2>3 DEF TypeOK
  <2>8. WriterInv'
    BY <2>1, <2>2, <2>4, <2>6, <2>7 DEF WriterInv
  <2>9. FlagInv'
    BY <2>1, <2>2, <2>4, <2>7 DEF FlagInv
  <2> QED BY <2>1, <2>2, <2>3, <2>8, <2>9, ElementTakeHead
<1> QED BY <1>1, <1>2, <1>3 DEF HandlerStep

\* The strengthened invariant is inductive as long as no request restarts the
\* machines.
LEMMA SteadyStep == SteadyInv /\ [SteadyNext]_vars => SteadyInv'
<1> SUFFICES ASSUME SteadyInv, [SteadyNext]_vars PROVE SteadyInv'
  OBVIOUS
<1>1. CounterInv' /\ TypeOK'
  BY CounterNext DEF SteadyInv, Next, RestartNext, CounterInv
<1>2. RunnerInv'
  BY RunnerNext DEF SteadyInv, RestartNext, CounterInv
<1>3. CASE UNCHANGED vars
  <2>1. ElementInv'
    BY <1>3 DEF SteadyInv, ElementInv, WriterInv, FlagInv, ServesWholeHead,
                ServerInv, Window, Serving, Writing, vars, ring, store, control
  <2> QED BY <1>1, <1>2, <2>1 DEF SteadyInv
<1>4. ASSUME NEW c \in Contexts,
             Enqueue(c) \/ Finish(c) \/ PeriodicExec(c) \/ MlmeInit(c)
      PROVE  ElementInv'
  BY <1>1, <1>4, ElementEnqueue, ElementSender, ElementHandler DEF Finish
<1> QED BY <1>1, <1>2, <1>3, <1>4 DEF SteadyNext, SteadyInv

\* ... so it always holds then.
LEMMA SteadyAlways == SteadySpec => []SteadyInv
<1>1. Init => SteadyInv
  BY CounterInit, RunnerInit, ElementInit DEF SteadyInv
<1> QED BY <1>1, SteadyStep, PTL DEF SteadySpec

\* While no request restarts the machines, the flag Occupied guards against
\* incomplete queue elements as mlme.c:4997 says: a flagged slot is in the
\* queue, no writer is at work on it, and it holds the message it was taken for.
THEOREM FlagGuardsElements == SteadySpec => []OccupiedMeansComplete
<1>1. SteadyInv => OccupiedMeansComplete
  BY DEF SteadyInv, ElementInv, FlagInv, WriterInv, OccupiedMeansComplete
<1> QED BY <1>1, SteadyAlways, PTL

\* ... so the handler, which works outside the lock, always works on the head
\* of the queue and on the whole of the message that was put there.
THEOREM WholeHeadServed == SteadySpec => []ServesWholeHead
<1>1. SteadyInv => ServesWholeHead
  BY DEF SteadyInv, ElementInv
<1> QED BY <1>1, SteadyAlways, PTL

---------------------------------------------------------------------------
(* No message is stranded, through restarts, without a transmit context *)

\* A slot of the queue is complete, or a writer or the handler is at work on it.
Covered(i) ==
    \/ Occupied[i]
    \/ \E c \in Contexts : Writing(c) /\ slot[c] = i
    \/ \E c \in Contexts : Serving(c) /\ elem[c] = i

SlotsCovered == \A i \in Window : Covered(i)

\* The handler stands on the head, also when stale writers are about.
ServesHead == \A c \in Contexts : Serving(c) => num > 0 /\ elem[c] = head

WakeInv == SlotsCovered /\ ServesHead /\ NoLostWakeup
RestartInv == CounterInv /\ RunnerInv /\ WakeInv

\* The queue is empty at first.
LEMMA WakeInit == Init => WakeInv
<1> SUFFICES ASSUME Init PROVE WakeInv
  OBVIOUS
<1>1. num = 0 /\ head \in Slots /\ \A c \in Contexts : ~Serving(c)
  BY DEF Init, Serving, Slots
<1>2. \A i : i \notin Window
  BY <1>1 DEF Window, WindowFrom
<1> QED BY <1>1, <1>2 DEF WakeInv, SlotsCovered, ServesHead, NoLostWakeup

\* Who enqueues becomes the writer of the new slot; who finds the queue full goes
\* on to MlmeHandler all the same.
LEMMA WakeEnqueue ==
    ASSUME Txs = {}, RestartInv, NEW c \in Contexts, Enqueue(c)
    PROVE  WakeInv'
<1> USE DEF RestartInv, CounterInv, WakeInv
<1>1. PICK m \in Msg : MlmeEnqueue(c, m) \/ MlmeEnqueueForRecv(c, m)
  BY DEF Enqueue
<1>2. /\ Reserve(c, m) /\ UNCHANGED <<elem, Running>> /\ ~Writing(c)
      /\ \A d \in Contexts : Serving(d)' <=> Serving(d)
  BY <1>1 DEF MlmeEnqueue, MlmeEnqueueForRecv, MayEnqueue, Writing, Serving
<1>3. CASE num = MaxLen
  <2>1. /\ pc' = [pc EXCEPT ![c] = Return(c)]
        /\ UNCHANGED <<num, head, Occupied, slot>> /\ Window' = Window
    BY <1>2, <1>3 DEF Reserve, ring, store, Window
  <2>2. /\ Return(c) = IF Serving(c) THEN "release" ELSE "call"
        /\ Serving(c) => Running
    BY DEF Return, RunnerInv, OneRunner
  <2>3. \A d \in Contexts : Writing(d) => Writing(d)'
    BY <1>2, <2>1 DEF Writing, TypeOK
  <2>4. SlotsCovered' /\ ServesHead'
    BY <1>2, <2>1, <2>3 DEF SlotsCovered, Covered, ServesHead
  <2>5. Running \/ pc'[c] = "call"
    BY <2>1, <2>2 DEF TypeOK
  <2>6. NoLostWakeup'
    BY <1>2, <2>5 DEF NoLostWakeup
  <2> QED BY <2>4, <2>6
<1>4. CASE num # MaxLen
  <2>1. /\ slot' = [slot EXCEPT ![c] = tail] /\ num' = num + 1
        /\ pc' = [pc EXCEPT ![c] = "copy"] /\ UNCHANGED <<head, Occupied>>
    BY <1>2, <1>4 DEF Reserve
  <2>2. Window' = Window \cup {tail}
    <3>1. head \in Slots /\ num \in 0 .. MaxLen - 1 /\ tail = NthFrom(head, num)
      BY <1>4 DEF TypeOK, RingConsistent
    <3> QED BY <2>1, <3>1, WindowGrows DEF Window
  <2>3. /\ Writing(c)' /\ slot'[c] = tail
        /\ \A d \in Contexts : Writing(d) => Writing(d)' /\ slot'[d] = slot[d]
    BY <1>2, <2>1 DEF Writing, TypeOK
  <2>4. SlotsCovered'
    BY <1>2, <2>1, <2>2, <2>3 DEF SlotsCovered, Covered
  <2>5. ServesHead'
    BY <1>2, <2>1 DEF ServesHead, TypeOK
  <2>6. NoLostWakeup'
    BY <2>3 DEF NoLostWakeup
  <2> QED BY <2>4, <2>5, <2>6
<1> QED BY <1>3, <1>4

\* A writer leaves a complete slot and goes on to MlmeHandler, or runs inside it.
LEMMA WakeSender ==
    ASSUME Txs = {}, RestartInv, NEW c \in Contexts,
           CopyElement(c) \/ SetOccupied(c) \/ PeriodicExec(c) \/ MlmeInit(c)
    PROVE  WakeInv'
<1> USE DEF RestartInv, CounterInv, WakeInv
<1>1. /\ UNCHANGED <<num, head, elem>> /\ Window' = Window
      /\ \A d \in Contexts : Serving(d)' <=> Serving(d)
  BY DEF CopyElement, SetOccupied, PeriodicExec, MlmeInit, ring, control, Window, Serving
<1>2. ServesHead'
  BY <1>1 DEF ServesHead
<1>3. CASE CopyElement(c)
  <2>1. /\ pc[c] = "copy" /\ pc' = [pc EXCEPT ![c] = "publish"]
        /\ UNCHANGED <<Occupied, slot, Running>>
    BY <1>3 DEF CopyElement
  <2>2. Writing(c)' /\ \A d \in Contexts : Writing(d) => Writing(d)'
    BY <2>1 DEF Writing, TypeOK
  <2>3. SlotsCovered' /\ NoLostWakeup'
    BY <1>1, <2>1, <2>2 DEF SlotsCovered, Covered, NoLostWakeup
  <2> QED BY <1>2, <2>3
<1>4. CASE SetOccupied(c)
  <2>1. /\ pc' = [pc EXCEPT ![c] = Return(c)] /\ slot' = [slot EXCEPT ![c] = NoSlot]
        /\ Occupied' = [Occupied EXCEPT ![slot[c]] = TRUE] /\ Running' = Running
    BY <1>4 DEF SetOccupied
  <2>2. \A d \in Contexts : d # c /\ Writing(d) => Writing(d)' /\ slot'[d] = slot[d]
    BY <2>1 DEF Writing, TypeOK
  <2>3. \A i \in Window : i \in Slots
    BY WindowInterval DEF Window, TypeOK
  <2>4. \A i \in Slots : Occupied'[i] <=> Occupied[i] \/ i = slot[c]
    BY <2>1 DEF TypeOK
  <2>5. SlotsCovered'
    BY <1>1, <2>2, <2>3, <2>4 DEF SlotsCovered, Covered
  <2>6. Running \/ pc'[c] = "call"
    BY <2>1 DEF Return, RunnerInv, OneRunner, TypeOK
  <2>7. NoLostWakeup'
    BY <2>1, <2>6 DEF NoLostWakeup
  <2> QED BY <1>2, <2>5, <2>7
<1>5. CASE PeriodicExec(c)
  <2>1. /\ pc[c] = "idle" /\ pc' = [pc EXCEPT ![c] = "call"]
        /\ UNCHANGED <<Occupied, slot>>
    BY <1>5 DEF PeriodicExec, store
  <2>2. pc'[c] = "call" /\ \A d \in Contexts : Writing(d) => Writing(d)'
    BY <2>1 DEF Writing, TypeOK
  <2>3. SlotsCovered' /\ NoLostWakeup'
    BY <1>1, <2>1, <2>2 DEF SlotsCovered, Covered, NoLostWakeup
  <2> QED BY <1>2, <2>3
<1>6. CASE MlmeInit(c)
  <2>1. phase = "down" /\ UNCHANGED <<Occupied, slot, pc>>
    BY <1>6 DEF MlmeInit, store, control
  <2>2. \A d \in Contexts : ~Serving(d) /\ ~Resetting(d) /\ pc[d] = "idle"
    BY <2>1 DEF RunnerInv, DownIdle, PlacesInv, Resetting
  <2>3. ~Running /\ num = 0
    BY <2>2 DEF RunnerInv, OneRunner, NoLostWakeup, Writing, TypeOK
  <2>4. SlotsCovered' /\ NoLostWakeup'
    BY <1>1, <2>1, <2>3 DEF SlotsCovered, Covered, NoLostWakeup, Writing
  <2> QED BY <1>2, <2>4
<1> QED BY <1>3, <1>4, <1>5, <1>6

\* The head after a step is in the queue after it.
LEMMA HeadNextInWindow == ASSUME TypeOK', num' > 0 PROVE head' \in Window'
<1>1. head' \in Slots /\ num' \in 1 .. MaxLen
  BY DEF TypeOK
<1> QED BY <1>1, WindowShrinks DEF Window

\* The loop test: the head is served, or is still being written, or nothing is left.
LEMMA WakeTakeHead ==
    ASSUME TypeOK, TypeOK', NEW c \in Contexts, TakeHead(c, head', num'),
           \A d \in Contexts : d # c => ~Serving(d),
           ~Writing(c), UNCHANGED <<Occupied, slot>>,
           \A i \in Window' : Occupied[i] \/ \E d \in Contexts : Writing(d) /\ slot[d] = i
    PROVE  WakeInv'
<1>1. \A d \in Contexts : d # c => pc'[d] = pc[d] /\ elem'[d] = elem[d]
  BY DEF TakeHead, LeaveHandler, TypeOK
<1>2. \A d \in Contexts : /\ d # c => ~Serving(d)'
                          /\ Writing(d) => Writing(d)'
  BY <1>1 DEF Serving, Writing
<1>3. SlotsCovered'
  BY <1>2 DEF SlotsCovered, Covered
<1>4. CASE num' > 0 /\ Occupied[head']
  <2>1. elem'[c] = head' /\ Running'
    BY <1>4 DEF TakeHead, TypeOK
  <2> QED BY <1>2, <1>3, <1>4, <2>1 DEF WakeInv, ServesHead, NoLostWakeup
<1>5. CASE ~(num' > 0 /\ Occupied[head'])
  <2>1. elem'[c] = NoSlot
    BY <1>5 DEF TakeHead, LeaveHandler, TypeOK
  <2>2. ServesHead'
    BY <1>2, <2>1 DEF ServesHead, Serving
  <2>3. ASSUME num' > 0 PROVE \E d \in Contexts : Writing(d)
    <3>1. head' \in Window'
      BY <2>3, HeadNextInWindow
    <3> QED BY <1>5, <2>3, <3>1
  <2>4. NoLostWakeup'
    BY <1>2, <2>3 DEF NoLostWakeup
  <2> QED BY <1>3, <2>2, <2>4 DEF WakeInv
<1> QED BY <1>4, <1>5

\* MlmeHandler looks at the head again before it gives Running back, and who finds
\* Running set leaves the queue to a handler that will look.
LEMMA WakeHandler ==
    ASSUME RestartInv, TypeOK', NEW c \in Contexts, HandlerStep(c)
    PROVE  WakeInv'
<1> USE DEF RestartInv, CounterInv, WakeInv
<1>1. CASE EnterHandler(c)
  <2>1. /\ UNCHANGED <<num, head, Occupied, slot>> /\ Window' = Window
        /\ pc[c] = "call" /\ ~Serving(c) /\ ~Writing(c)
    BY <1>1 DEF EnterHandler, ring, store, Window, RunnerInv, PlacesInv, Writing
  <2>2. CASE Running
    <3>1. /\ pc' = [pc EXCEPT ![c] = "idle"] /\ Running' /\ elem' = elem
      BY <1>1, <2>1, <2>2 DEF EnterHandler, LeaveHandler, TypeOK, Serving
    <3>2. \A d \in Contexts : /\ Writing(d) => Writing(d)'
                              /\ Serving(d)' <=> Serving(d)
      BY <2>1, <3>1 DEF Writing, Serving, TypeOK
    <3> QED BY <2>1, <3>1, <3>2 DEF SlotsCovered, Covered, ServesHead, NoLostWakeup
  <2>3. CASE ~Running
    <3>1. TakeHead(c, head', num') /\ \A d \in Contexts : ~Serving(d)
      BY <1>1, <2>1, <2>3 DEF EnterHandler, RunnerInv, OneRunner
    <3>2. \A i \in Window' : Occupied[i] \/ \E d \in Contexts : Writing(d) /\ slot[d] = i
      BY <2>1, <3>1 DEF SlotsCovered, Covered
    <3> QED BY <2>1, <3>1, <3>2, WakeTakeHead
  <2> QED BY <2>2, <2>3
<1>2. CASE ReleaseElement(c)
  <2>1. /\ pc[c] \in {"serve", "release"} /\ pc' = [pc EXCEPT ![c] = "dequeue"]
        /\ Occupied' = [Occupied EXCEPT ![elem[c]] = FALSE]
        /\ UNCHANGED <<num, head, slot, elem, Running>> /\ Window' = Window
    BY <1>2 DEF ReleaseElement, ring, Window
  <2>2. Serving(c) /\ Running
    BY <2>1 DEF RunnerInv, PlacesInv, OneRunner
  <2>3. \A d \in Contexts : /\ Writing(d) => Writing(d)'
                            /\ Serving(d)' <=> Serving(d)
    BY <2>1 DEF Writing, Serving, TypeOK
  <2>4. \A i \in Window : i \in Slots
    BY WindowInterval DEF Window, TypeOK
  <2>5. \A i \in Slots : i # elem[c] => Occupied'[i] = Occupied[i]
    BY <2>1 DEF TypeOK
  <2>6. SlotsCovered'
    BY <2>1, <2>2, <2>3, <2>4, <2>5 DEF SlotsCovered, Covered
  <2> QED BY <2>1, <2>2, <2>3, <2>6 DEF ServesHead, NoLostWakeup
<1>3. CASE Dequeue(c)
  <2>1. /\ Serving(c) /\ ~Writing(c) /\ UNCHANGED <<Occupied, slot>>
    BY <1>3 DEF Dequeue, RunnerInv, PlacesInv, Writing
  <2>2. /\ num \in 1 .. MaxLen /\ head \in Slots
        /\ \A d \in Contexts : Serving(d) => d = c /\ elem[d] = head
    BY <2>1 DEF RunnerInv, OneRunner, ServesHead, TypeOK
  <2>3. /\ head' = (head + 1) % MaxLen /\ num' = num - 1
        /\ TakeHead(c, head', num')
    BY <1>3, <2>2 DEF Dequeue
  <2>4. Window' = Window \ {head}
    BY <2>2, <2>3, ModStep, WindowShrinks DEF Window
  <2>5. \A i \in Window' : Occupied[i] \/ \E d \in Contexts : Writing(d) /\ slot[d] = i
    BY <2>2, <2>4 DEF SlotsCovered, Covered
  <2> QED BY <2>1, <2>2, <2>3, <2>5, WakeTakeHead
<1> QED BY <1>1, <1>2, <1>3 DEF HandlerStep

\* A restart empties the queue while no handler runs, and its caller goes on to
\* enqueue; what others put in meanwhile they will serve, or the caller.
LEMMA WakeRestart ==
    ASSUME RestartInv, NEW c \in Contexts, RestartStep(c)
    PROVE  WakeInv'
<1> USE DEF RestartInv, CounterInv, WakeInv
<1>1. /\ elem' = elem /\ slot' = slot /\ ~Writing(c)
      /\ \A d \in Contexts : Serving(d)' <=> Serving(d)
  BY DEF RestartStep, RestartEnter, RestartFlush, RestartCancelTimers, RestartFinish,
         Writing, Serving
<1>2. PICK p \in PcValues : pc' = [pc EXCEPT ![c] = p]
  BY DEF RestartStep, RestartEnter, RestartFlush, RestartCancelTimers, RestartFinish,
         PcValues
<1>3. \A d \in Contexts : Writing(d) => Writing(d)'
  BY <1>1, <1>2 DEF Writing, TypeOK
<1>4. Running' \/ pc'[c] = "request"
  <2>1. Resetting(c) => Running
    BY DEF RunnerInv, OneRunner
  <2> QED BY <2>1 DEF RestartStep, RestartEnter, RestartFlush, RestartCancelTimers,
                      RestartFinish, Resetting, TypeOK
<1>5. NoLostWakeup'
  BY <1>4 DEF NoLostWakeup
<1>6. CASE RestartFlush(c)
  <2>1. head' = (head + num) % MaxLen /\ num' = 0 /\ pc[c] = "flush"
    BY <1>6 DEF RestartFlush
  <2>2. \A i : i \notin Window'
    BY <2>1 DEF Window, WindowFrom
  <2>3. \A d \in Contexts : ~Serving(d)
    BY <2>1 DEF RunnerInv, OneRunner, PlacesInv, Resetting
  <2> QED BY <1>1, <1>5, <2>2, <2>3 DEF SlotsCovered, ServesHead
<1>7. CASE ~RestartFlush(c)
  <2>1. UNCHANGED <<num, head, Occupied>> /\ Window' = Window
    BY <1>7 DEF RestartStep, RestartEnter, RestartCancelTimers, RestartFinish, ring,
                store, Window
  <2> QED BY <1>1, <1>3, <1>5, <2>1 DEF SlotsCovered, Covered, ServesHead
<1> QED BY <1>6, <1>7

\* Every step with the interface open keeps RestartInv.
LEMMA RestartInvNext ==
    ASSUME Txs = {} PROVE RestartInv /\ [RestartNext]_vars => RestartInv'
<1> SUFFICES ASSUME RestartInv, [RestartNext]_vars PROVE RestartInv'
  OBVIOUS
<1>1. CounterInv' /\ TypeOK'
  BY CounterNext DEF RestartInv, Next, CounterInv
<1>2. RunnerInv'
  BY RunnerNext DEF RestartInv, CounterInv
<1>3. CASE UNCHANGED vars
  <2>1. WakeInv'
    BY <1>3 DEF RestartInv, WakeInv, SlotsCovered, Covered, ServesHead, NoLostWakeup,
                Window, Serving, Writing, vars, ring, store, control
  <2> QED BY <1>1, <1>2, <2>1 DEF RestartInv
<1>4. ASSUME NEW c \in Contexts,
             \/ Enqueue(c) \/ Finish(c) \/ PeriodicExec(c) \/ MlmeInit(c)
             \/ RestartStep(c)
      PROVE  WakeInv'
  BY <1>1, <1>4, WakeEnqueue, WakeSender, WakeHandler, WakeRestart DEF Finish
<1> QED BY <1>1, <1>2, <1>3, <1>4 DEF RestartNext, SteadyNext, RestartInv

\* As long as the interface stays open, and apart from transmit contexts, which
\* never call MlmeHandler (rtmp_data.c), no message is left in the queue without
\* a context that is on the way to it, whoever restarts the machines and
\* whatever the order in which slots are reserved and filled (mlme.c:5662).
THEOREM NobodyStranded ==
    ASSUME Txs = {} PROVE RestartSpec => []NoLostWakeup
<1>1. Init => RestartInv
  BY CounterInit, RunnerInit, WakeInit DEF RestartInv
<1>2. RestartInv /\ [RestartNext]_vars => RestartInv'
  BY RestartInvNext
<1>3. RestartInv => NoLostWakeup
  BY DEF RestartInv, WakeInv
<1> QED BY <1>1, <1>2, <1>3, PTL DEF RestartSpec
=============================================================================
