----------------------------- MODULE MlmeQueue -----------------------------
(***************************************************************************)
(* The message queue of the MLME (Module/mlme.c) and the contexts that use *)
(* it: the receive tasklet, the timer callbacks, the periodic task, the    *)
(* user's requests and the transmit path.                                  *)
(*                                                                         *)
(* The ring is filled in two parts.  A slot is RESERVED under Queue.Lock   *)
(* and FILLED outside it; the flag Occupied of the slot, set last, tells   *)
(* the handler that the element is complete.  The handler of the head runs *)
(* outside the lock as well, and the flag Mlme.Running keeps the others    *)
(* out.  One action here is one critical section of Queue.Lock, or one     *)
(* access to shared memory made without it.                                *)
(***************************************************************************)
EXTENDS Integers, FiniteSets

CONSTANTS
    MaxLen,            \* MAX_LEN_OF_MLME_QUEUE
    Msg,            \* contents of a queue element
    NoMsg,          \* content of a slot that was never written
    Rx,             \* the receive tasklet: MlmeEnqueueForRecv
    MlmeTimers,     \* callbacks of the one-shot MLME timers
    Periodic,       \* callback of Mlme.PeriodicTimer
    User,           \* the process that holds the rtnl lock
    Txs             \* transmit contexts: enqueue, never call MlmeHandler

Contexts == {Rx, Periodic, User} \cup MlmeTimers \cup Txs
Timers == MlmeTimers \cup {Periodic}
Slots == 0 .. MaxLen - 1
NoSlot == -1

ASSUME LenAssumption == MaxLen \in Nat \ {0}
ASSUME MsgAssumption == Msg # {} /\ NoMsg \notin Msg
ASSUME ContextAssumption ==
    /\ Rx # Periodic /\ Rx # User /\ Periodic # User
    /\ {Rx, Periodic, User} \cap (MlmeTimers \cup Txs) = {}
    /\ MlmeTimers \cap Txs = {}

VARIABLES
    num, head, tail,    \* the ring's counters, under Queue.Lock
    Entry,              \* content of each slot
    Occupied,           \* flag of each slot, written without the lock
    Running,            \* pAd->Mlme.Running, under Queue.Lock
    pc,                 \* where each context is
    slot,               \* the local variable Tail of MlmeEnqueue
    arg,                \* the message MlmeEnqueue was called with
    elem,               \* the local variable Elem of MlmeHandler
    armed,              \* timers that are pending
    phase,              \* the interface is up, closing or down
    intended            \* history: the message each queued slot was reserved for

ring == <<num, head, tail>>
store == <<Entry, Occupied, intended>>
control == <<pc, slot, arg, elem>>
life == <<armed, phase>>
vars == <<ring, store, Running, control, life>>

(***************************************************************************)
(* A context whose elem is a slot is inside MlmeHandler: it runs the       *)
(* action of one message, and may itself enqueue while it does.            *)
(***************************************************************************)
Serving(c) == elem[c] # NoSlot
Writing(c) == pc[c] \in {"copy", "publish"}

\* The k-th slot counted from slot h, and the n slots from h on.
NthFrom(h, k) == IF h + k < MaxLen THEN h + k ELSE h + k - MaxLen
WindowFrom(h, n) == {NthFrom(h, k) : k \in 0 .. n - 1}

\* The slots that are in the queue.
Window == WindowFrom(head, num)

PcValues == {"idle", "copy", "publish", "call", "serve", "release", "dequeue",
             "flush", "cancel", "finish", "request",
             "haltCancel", "destroy", "kill"}

TypeOK ==
    /\ num \in 0 .. MaxLen /\ head \in Slots /\ tail \in Slots
    /\ Entry \in [Slots -> Msg \cup {NoMsg}]
    /\ Occupied \in [Slots -> BOOLEAN]
    /\ intended \in [Slots -> Msg \cup {NoMsg}]
    /\ Running \in BOOLEAN
    /\ pc \in [Contexts -> PcValues]
    /\ slot \in [Contexts -> Slots \cup {NoSlot}]
    /\ arg \in [Contexts -> Msg \cup {NoMsg}]
    /\ elem \in [Contexts -> Slots \cup {NoSlot}]
    /\ armed \subseteq Timers
    /\ phase \in {"up", "halting", "down"}

\* MlmeQueueInit at probe time; the interface has not been opened yet.
Init ==
    /\ num = 0 /\ head = 0 /\ tail = 0
    /\ Entry = [i \in Slots |-> NoMsg]
    /\ Occupied = [i \in Slots |-> FALSE]
    /\ intended = [i \in Slots |-> NoMsg]
    /\ Running = FALSE
    /\ pc = [c \in Contexts |-> "idle"]
    /\ slot = [c \in Contexts |-> NoSlot]
    /\ arg = [c \in Contexts |-> NoMsg]
    /\ elem = [c \in Contexts |-> NoSlot]
    /\ armed = {}
    /\ phase = "down"

---------------------------------------------------------------------------
(* Enqueueing *)

\* fRTMP_ADAPTER_HALT_IN_PROGRESS: tested, but no statement of the driver sets it.
HaltInProgress == FALSE

\* Mutant of Advance: the wrap is tested before the increment.
AdvancePastEnd(i) == IF i = MaxLen THEN 0 ELSE i + 1

\* Queue->Tail++, reset to 0 when it reaches the length of the ring.
Advance(i) == IF i + 1 = MaxLen THEN 0 ELSE i + 1

\* Where a context goes on when MlmeEnqueue returns: back into the action it
\* runs, back to the transmit path, or on to its call of MlmeHandler.
Return(c) ==
    IF Serving(c) THEN "release" ELSE IF c \in Txs THEN "idle" ELSE "call"

\* Mutant of Reserve: the flag is set when the slot is reserved.
ReserveOccupied(c, m) ==
    /\ num < MaxLen
    /\ slot' = [slot EXCEPT ![c] = tail]
    /\ arg' = [arg EXCEPT ![c] = m]
    /\ intended' = [intended EXCEPT ![tail] = m]
    /\ Occupied' = [Occupied EXCEPT ![tail] = TRUE]
    /\ tail' = Advance(tail)
    /\ num' = num + 1
    /\ pc' = [pc EXCEPT ![c] = "copy"]
    /\ UNCHANGED <<head, Entry>>

\* The critical section of MlmeEnqueue.
Reserve(c, m) ==
    IF num = MaxLen
    THEN /\ pc' = [pc EXCEPT ![c] = Return(c)]
         /\ UNCHANGED <<ring, store, slot, arg>>
    ELSE /\ slot' = [slot EXCEPT ![c] = tail]
         /\ arg' = [arg EXCEPT ![c] = m]
         /\ intended' = [intended EXCEPT ![tail] = m]
         /\ tail' = Advance(tail)
         /\ num' = num + 1
         /\ pc' = [pc EXCEPT ![c] = "copy"]
         /\ UNCHANGED <<head, Entry, Occupied>>

\* A context may call MlmeEnqueue: a timer that fires, a process with a request,
\* a transmission, or the handler inside the action of a message.
MayEnqueue(c) ==
    \/ pc[c] = "serve"
    \/ c = User /\ pc[c] = "request"
    \/ c = User /\ pc[c] = "idle" /\ phase = "up"
    \/ c \in Timers /\ pc[c] = "idle" /\ c \in armed
    \/ c \in Txs /\ pc[c] = "idle" /\ phase # "down"

Fire(c) == IF pc[c] = "idle" THEN armed \ {c} ELSE armed

MlmeEnqueue(c, m) ==
    /\ MayEnqueue(c)
    /\ ~HaltInProgress
    /\ Reserve(c, m)
    /\ armed' = Fire(c)
    /\ UNCHANGED <<elem, Running, phase>>

\* The receive path does not test the halt flag.
MlmeEnqueueForRecv(c, m) ==
    /\ c = Rx /\ pc[c] = "idle" /\ phase # "down"
    /\ Reserve(c, m)
    /\ UNCHANGED <<elem, Running, life>>

\* The element is written outside the lock ...
CopyElement(c) ==
    /\ pc[c] = "copy"
    /\ Entry' = [Entry EXCEPT ![slot[c]] = arg[c]]
    /\ pc' = [pc EXCEPT ![c] = "publish"]
    /\ UNCHANGED <<ring, Occupied, intended, slot, arg, elem, Running, life>>

\* ... and its flag is set after the write barrier.
SetOccupied(c) ==
    /\ pc[c] = "publish"
    /\ Occupied' = [Occupied EXCEPT ![slot[c]] = TRUE]
    /\ pc' = [pc EXCEPT ![c] = Return(c)]
    /\ slot' = [slot EXCEPT ![c] = NoSlot]
    /\ arg' = [arg EXCEPT ![c] = NoMsg]
    /\ UNCHANGED <<ring, Entry, intended, elem, Running, life>>

\* The periodic task has nothing to enqueue in most rounds.  The radio is on: with
\* RADIO_OFF it would return at mlme.c:3398 and never add its timer again.
PeriodicExec(c) ==
    /\ c = Periodic /\ pc[c] = "idle" /\ c \in armed
    /\ pc' = [pc EXCEPT ![c] = "call"]
    /\ armed' = armed \ {c}
    /\ UNCHANGED <<ring, store, slot, arg, elem, Running, phase>>

---------------------------------------------------------------------------
(* MlmeHandler *)

\* Mutant of LeaveHandler: the periodic task does not add its timer again.
LeaveForGood(c) ==
    /\ pc' = [pc EXCEPT ![c] = "idle"]
    /\ elem' = [elem EXCEPT ![c] = NoSlot]
    /\ UNCHANGED armed

\* The context leaves MlmeHandler; the periodic task then re-arms its timer.
LeaveHandler(c) ==
    /\ pc' = [pc EXCEPT ![c] = "idle"]
    /\ elem' = [elem EXCEPT ![c] = NoSlot]
    /\ armed' = IF c = Periodic THEN armed \cup {c} ELSE armed

\* Mutant of TakeHead: the head is served whether it is complete or not.
TakeIncompleteHead(c, h, n) ==
    /\ Running' = (n > 0)
    /\ IF n > 0
       THEN /\ elem' = [elem EXCEPT ![c] = h]
            /\ pc' = [pc EXCEPT ![c] = "serve"]
            /\ UNCHANGED armed
       ELSE LeaveHandler(c)

\* The test of the loop, inside the lock, on a ring of n elements from h on.
TakeHead(c, h, n) ==
    IF n > 0 /\ Occupied[h]
    THEN /\ Running' = TRUE
         /\ elem' = [elem EXCEPT ![c] = h]
         /\ pc' = [pc EXCEPT ![c] = "serve"]
         /\ UNCHANGED armed
    ELSE /\ Running' = FALSE
         /\ LeaveHandler(c)

\* Mutant of EnterHandler: it does not look whether another handler runs.
EnterRegardless(c) ==
    /\ pc[c] = "call"
    /\ TakeHead(c, head, num)
    /\ UNCHANGED <<ring, store, slot, arg, phase>>

EnterHandler(c) ==
    /\ pc[c] = "call"
    /\ IF Running
       THEN LeaveHandler(c) /\ UNCHANGED Running
       ELSE TakeHead(c, head, num)
    /\ UNCHANGED <<ring, store, slot, arg, phase>>

\* The action of the message cancels and arms at most one timer each, and may
\* have enqueued one message; del_timer_sync waits for a callback that runs.
ReleaseElement(c) ==
    /\ pc[c] \in {"serve", "release"}
    /\ \E cancelled \in SUBSET MlmeTimers, started \in SUBSET MlmeTimers :
        /\ Cardinality(cancelled) <= 1 /\ Cardinality(started) <= 1
        /\ \A t \in cancelled : pc[t] = "idle"
        /\ armed' = (armed \ cancelled) \cup started
    /\ Occupied' = [Occupied EXCEPT ![elem[c]] = FALSE]
    /\ pc' = [pc EXCEPT ![c] = "dequeue"]
    /\ UNCHANGED <<ring, Entry, intended, slot, arg, elem, Running, phase>>

\* Mutant of Dequeue: one call of MlmeHandler serves one message.
DequeueOne(c) ==
    /\ pc[c] = "dequeue"
    /\ head' = (head + 1) % MaxLen
    /\ num' = num - 1
    /\ intended' = [intended EXCEPT ![head] = NoMsg]
    /\ Running' = FALSE
    /\ LeaveHandler(c)
    /\ UNCHANGED <<tail, Entry, Occupied, slot, arg, phase>>

\* MlmeDequeue and the next test of the loop, in one critical section.
Dequeue(c) ==
    /\ pc[c] = "dequeue"
    /\ IF num = 0
       THEN UNCHANGED <<ring, intended>> /\ TakeHead(c, head, num)
       ELSE /\ head' = (head + 1) % MaxLen
            /\ num' = num - 1
            /\ intended' = [intended EXCEPT ![head] = NoMsg]
            /\ UNCHANGED tail
            /\ TakeHead(c, (head + 1) % MaxLen, num - 1)
    /\ UNCHANGED <<Entry, Occupied, slot, arg, phase>>

HandlerStep(c) == EnterHandler(c) \/ ReleaseElement(c) \/ Dequeue(c)

---------------------------------------------------------------------------
(* MlmeRestartStateMachine, called by a request that finds CNTL busy *)

RestartEnter(c) ==
    /\ c = User /\ pc[c] = "idle" /\ phase = "up"
    /\ IF Running
       THEN pc' = [pc EXCEPT ![c] = "request"] /\ UNCHANGED Running
       ELSE pc' = [pc EXCEPT ![c] = "flush"] /\ Running' = TRUE
    /\ UNCHANGED <<ring, store, slot, arg, elem, life>>

\* Every element is dequeued and its flag cleared, whether it is filled or not.
RestartFlush(c) ==
    /\ pc[c] = "flush"
    /\ head' = (head + num) % MaxLen
    /\ num' = 0
    /\ Occupied' = [i \in Slots |-> Occupied[i] /\ i \notin Window]
    /\ intended' = [i \in Slots |-> IF i \in Window THEN NoMsg ELSE intended[i]]
    /\ pc' = [pc EXCEPT ![c] = "cancel"]
    /\ UNCHANGED <<tail, Entry, slot, arg, elem, Running, life>>

\* del_timer_sync on each of the one-shot timers, taken together.
RestartCancelTimers(c) ==
    /\ pc[c] = "cancel"
    /\ \A t \in MlmeTimers : pc[t] = "idle"
    /\ armed' = armed \ MlmeTimers
    /\ pc' = [pc EXCEPT ![c] = "finish"]
    /\ UNCHANGED <<ring, store, slot, arg, elem, Running, phase>>

\* The caller goes on to enqueue its request and to call MlmeHandler.
RestartFinish(c) ==
    /\ pc[c] = "finish"
    /\ Running' = FALSE
    /\ pc' = [pc EXCEPT ![c] = "request"]
    /\ UNCHANGED <<ring, store, slot, arg, elem, life>>

RestartStep(c) ==
    \/ RestartEnter(c) \/ RestartFlush(c)
    \/ RestartCancelTimers(c) \/ RestartFinish(c)

---------------------------------------------------------------------------
(* rt61_open and rt61_close: MlmeInit, MlmeHalt, tasklet_kill *)

MlmeInit(c) ==
    /\ c = User /\ pc[c] = "idle" /\ phase = "down"
    /\ Running' = FALSE
    /\ armed' = armed \cup {Periodic}
    /\ phase' = "up"
    /\ UNCHANGED <<ring, store, control>>

HaltBegin(c) ==
    /\ c = User /\ pc[c] = "idle" /\ phase = "up"
    /\ phase' = "halting"
    /\ pc' = [pc EXCEPT ![c] = "haltCancel"]
    /\ UNCHANGED <<ring, store, slot, arg, elem, Running, armed>>

\* del_timer_sync on every timer, taken together.
HaltCancelTimers(c) ==
    /\ pc[c] = "haltCancel"
    /\ \A t \in Timers : pc[t] = "idle"
    /\ armed' = {}
    /\ pc' = [pc EXCEPT ![c] = "destroy"]
    /\ UNCHANGED <<ring, store, slot, arg, elem, Running, phase>>

\* Mutant of MlmeQueueDestroy: Tail is forgotten.
DestroyKeepsTail(c) ==
    /\ pc[c] = "destroy"
    /\ num' = 0 /\ head' = 0
    /\ pc' = [pc EXCEPT ![c] = "kill"]
    /\ UNCHANGED <<tail, store, slot, arg, elem, Running, life>>

\* The counters are reset, the flags of the slots are not.
MlmeQueueDestroy(c) ==
    /\ pc[c] = "destroy"
    /\ num' = 0 /\ head' = 0 /\ tail' = 0
    /\ pc' = [pc EXCEPT ![c] = "kill"]
    /\ UNCHANGED <<store, slot, arg, elem, Running, life>>

\* tasklet_kill waits for the tasklet, after the queue has been destroyed.
KillRxTasklet(c) ==
    /\ pc[c] = "kill" /\ pc[Rx] = "idle"
    /\ phase' = "down"
    /\ pc' = [pc EXCEPT ![c] = "idle"]
    /\ UNCHANGED <<ring, store, slot, arg, elem, Running, armed>>

HaltStep(c) ==
    \/ HaltBegin(c) \/ HaltCancelTimers(c)
    \/ MlmeQueueDestroy(c) \/ KillRxTasklet(c)

---------------------------------------------------------------------------
Enqueue(c) == \E m \in Msg : MlmeEnqueue(c, m) \/ MlmeEnqueueForRecv(c, m)
Finish(c) == CopyElement(c) \/ SetOccupied(c) \/ HandlerStep(c)

\* The interface is up and no request finds the CNTL machine busy.
SteadyNext ==
    \E c \in Contexts : Enqueue(c) \/ Finish(c) \/ PeriodicExec(c) \/ MlmeInit(c)

\* Requests may restart the state machines.
RestartNext == SteadyNext \/ \E c \in Contexts : RestartStep(c)

\* The interface may be closed and opened again as well.
Next == RestartNext \/ \E c \in Contexts : HaltStep(c)

\* A context that has begun goes on; the periodic timer fires.
Fairness ==
    /\ \A c \in Contexts : WF_vars(Finish(c))
    /\ WF_vars(PeriodicExec(Periodic))

SteadySpec == Init /\ [][SteadyNext]_vars
FairSteadySpec == SteadySpec /\ Fairness
RestartSpec == Init /\ [][RestartNext]_vars
Spec == Init /\ [][Next]_vars
=============================================================================
