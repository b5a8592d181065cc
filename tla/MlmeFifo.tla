----------------------------- MODULE MlmeFifo -----------------------------
(***************************************************************************)
(* What the MLME queue promises its users: a bounded FIFO with one server. *)
(* A message is accepted in order, becomes ready when its sender has       *)
(* completed it, is served whole, and leaves when it has been served.      *)
(***************************************************************************)
EXTENDS Naturals, Sequences

CONSTANTS Capacity, Msg, NoMsg

VARIABLES
    queue,      \* the accepted messages that have not left, with a ready flag
    serving     \* the message being served, NoMsg when there is none

vars == <<queue, serving>>

Accepted == [msg : Msg, ready : BOOLEAN]
HeadReady(q) == q # <<>> /\ Head(q).ready
ServedNext(q) == IF HeadReady(q) THEN {NoMsg, Head(q).msg} ELSE {NoMsg}

Init == queue = <<>> /\ serving = NoMsg

Accept(m) ==
    /\ Len(queue) < Capacity
    /\ queue' = Append(queue, [msg |-> m, ready |-> FALSE])
    /\ UNCHANGED serving

Complete(i) ==
    /\ ~queue[i].ready
    /\ queue' = [queue EXCEPT ![i].ready = TRUE]
    /\ UNCHANGED serving

Begin ==
    /\ serving = NoMsg /\ HeadReady(queue)
    /\ serving' = Head(queue).msg
    /\ UNCHANGED queue

\* The server may go straight on to the next message.
Leave ==
    /\ serving # NoMsg
    /\ queue' = Tail(queue)
    /\ serving' \in ServedNext(queue')

Next ==
    \/ \E m \in Msg : Accept(m)
    \/ \E i \in DOMAIN queue : Complete(i)
    \/ Begin
    \/ Leave

\* Senders complete their messages, and the server never rests while the head
\* is ready.
Fairness ==
    /\ \A i \in 1 .. Capacity : WF_vars(i \in DOMAIN queue /\ Complete(i))
    /\ WF_vars(Begin)
    /\ WF_vars(Leave)

Spec == Init /\ [][Next]_vars /\ Fairness
=============================================================================
