-------------------------- MODULE MlmeQueueProps --------------------------
(***************************************************************************)
(* The correctness properties of the MLME queue and its refinement of      *)
(* MlmeFifo.                                                               *)
(***************************************************************************)
EXTENDS MlmeQueue

\* The three counters describe one window of the ring: MlmeEnqueue moves Tail
\* by hand, MlmeDequeue moves Head with %, and a reset of any must agree.
RingConsistent == tail = NthFrom(head, num)

\* The guard of mlme.c:4997: a slot is flagged Occupied only while it is in the
\* queue, its writer is done, and its content is the message it was reserved for.
OccupiedMeansComplete ==
    \A i \in Slots : Occupied[i] =>
        /\ i \in Window
        /\ \A c \in Contexts : Writing(c) => slot[c] # i
        /\ Entry[i] = intended[i]

\* A handler works on the head of the queue, on the whole message, and nobody
\* overwrites it until the action is over.
ServesWholeHead ==
    \A c \in Contexts : Serving(c) =>
        /\ num > 0 /\ elem[c] = head
        /\ Entry[head] = intended[head]
        /\ \A d \in Contexts : Writing(d) => slot[d] # head

Resetting(c) == pc[c] \in {"flush", "cancel", "finish"}

\* "This task guarantee only one MlmeHandler will run" (mlme.c:5645), and no
\* handler runs while the state machines are reset.
OneRunner ==
    /\ \A c, d \in Contexts :
        (Serving(c) \/ Resetting(c)) /\ (Serving(d) \/ Resetting(d)) => c = d
    /\ Running <=> \E c \in Contexts : Serving(c) \/ Resetting(c)

\* A message left in the queue has somebody on the way to MlmeHandler: no
\* context that lost the race for Running strands what it has enqueued.
NoLostWakeup ==
    num > 0 /\ ~Running =>
        \E c \in Contexts : Writing(c) \/ pc[c] \in {"call", "request"}

\* The queue is a bounded FIFO with one server.  An element is ready once its
\* flag is set; the flag of the element that is served is cleared before it is
\* dequeued.
SomeoneServes == \E c \in Contexts : Serving(c)
Message(k) == intended[NthFrom(head, k - 1)]
Ready(k) == Occupied[NthFrom(head, k - 1)] \/ (k = 1 /\ SomeoneServes)

FifoQueue == [k \in 1 .. num |-> [msg |-> Message(k), ready |-> Ready(k)]]

Served1 == CHOOSE c \in Contexts : Serving(c)
FifoServing == IF SomeoneServes THEN Entry[elem[Served1]] ELSE NoMsg

Fifo == INSTANCE MlmeFifo WITH
    Capacity <- MaxLen, queue <- FifoQueue, serving <- FifoServing

IsFifo == Fifo!Spec
=============================================================================
