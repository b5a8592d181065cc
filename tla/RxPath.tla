------------------------------- MODULE RxPath -------------------------------
(***************************************************************************)
(* The receive path (Module/rtmp_data.c): the RX ring, the interrupt       *)
(* handler that moves its buffers to RxQueue, and the tasklet that checks, *)
(* de-duplicates, reassembles and delivers the frames.                     *)
(*                                                                         *)
(* The interrupt handler and the tasklet share RxQueue only; a frame is    *)
(* one step of each.  The AP (external) numbers its MSDUs with a counter   *)
(* that wraps to 0, repeats a unicast frame whose acknowledgement it       *)
(* missed, and may send a beacon or a broadcast before it repeats.  It     *)
(* sends fewer MSDUs than there are numbers.                               *)
(*                                                                         *)
(* Left out: what an EAP success does to port and keys, and monitor mode.  *)
(***************************************************************************)
EXTENDS Integers, Sequences, FiniteSets

CONSTANTS
    RxRingSize,     \* RX_RING_SIZE
    SeqSpace,       \* sequence numbers: 4096
    FirstSeqs,      \* where the AP's counter may stand
    MaxMsdus,       \* bound: MSDUs of the AP
    MaxMsduFrags,   \* bound: fragments of an MSDU
    EapolTakers,    \* who takes EAPOL frames: "daemon" (WPA_Supplicant), "mlme" (WpaState in
                    \* use) or the "stack" like all others
    Tkip,           \* subset of BOOLEAN: whether the frames are encrypted with TKIP
    Broadcasts,     \* whether the AP sends broadcasts and beacons as well
    MaxRxQueue,     \* bound: frames in RxQueue when the AP sends
    MaxRxUpsets     \* bound: losses, repetitions, failed allocations, LinkDowns

ASSUME RxAssumption ==
    /\ RxRingSize \in Nat \ {0} /\ SeqSpace \in Nat \ {0}
    /\ FirstSeqs \subseteq 0 .. SeqSpace - 1 /\ MaxMsdus \in Nat /\ MaxMsdus < SeqSpace
    /\ EapolTakers \subseteq {"daemon", "mlme", "stack"} /\ Tkip \subseteq BOOLEAN
    /\ MaxMsduFrags \in Nat \ {0} /\ Broadcasts \in BOOLEAN
    /\ MaxRxQueue \in Nat /\ MaxRxUpsets \in Nat

VARIABLES
    rxRing,     \* cells: a frame (owner HOST) or NoFrame (owner NIC); CurRxIndex
    rxQueue,    \* pAd->RxQueue
    fragFrame,  \* pAd->FragFrame; msdu is what its skb holds
    tuple,      \* the AP's entry of pAd->TupleCache[]
    rxLink,     \* connected, MicErrCnt; who takes EAPOL, TKIP in use; oops: a NULL
                \* pointer was followed
    delivered,  \* MSDUs passed to the network stack
    buf,        \* how often each skb was released
    air,        \* the AP: its MSDU (the n-th), the fragment it sends, frames sent so far
    rxUpsets    \* what may still go wrong

rxVars == <<rxRing, rxQueue, fragFrame, tuple, rxLink, delivered, buf, air, rxUpsets>>

NoFrame == [id |-> 0, kind |-> "none", seq |-> 0, frag |-> 0, more |-> FALSE,
            retry |-> FALSE, mic |-> TRUE]
NoFragment == [skb |-> 0, seq |-> 0, last |-> 0, msdu |-> <<>>]
NoTuple == [seq |-> -1, frag |-> -1]
Skb == 1 .. MaxMsdus * MaxMsduFrags + MaxRxUpsets

\* Nothing runs after a NULL pointer was followed in the tasklet.
Alive == ~rxLink.oops

(***************************************************************************)
(* The NIC stores a frame in the next descriptor it owns, or loses it.     *)
(***************************************************************************)
Store(f) ==
    rxRing' = IF rxRing.cell[rxRing.nic].id # 0 THEN rxRing
              ELSE [rxRing EXCEPT !.cell[rxRing.nic] = f, !.nic = (@ + 1) % RxRingSize]

AirFrame(kind, frag, more, retry, mic) ==
    [id |-> air.sent + 1, kind |-> kind, seq |-> air.seq, frag |-> frag, more |-> more,
     retry |-> retry, mic |-> mic]

MaySend ==
    air.n <= MaxMsdus /\ air.sent < Cardinality(Skb) /\ Len(rxQueue) <= MaxRxQueue

MaybeEapol == IF rxLink.eapol = "stack" THEN {FALSE} ELSE BOOLEAN

\* The AP takes up its next MSDU.
NewMsdu(a) ==
    \E k \in 1 .. MaxMsduFrags, e \in MaybeEapol :
        air' = [a EXCEPT !.seq = (@ + 1) % SeqSpace, !.n = @ + 1, !.frag = 0, !.frags = k,
                         !.eapol = e, !.retry = FALSE]

\* A unicast fragment of the current MSDU; the AP goes on when it sees the acknowledgement.
ApSendsFragment ==
    \E heard, acked, mic \in BOOLEAN :
        LET last == air.frag = air.frags - 1
            f == AirFrame(IF air.eapol THEN "eapol" ELSE "data", air.frag, ~last, air.retry, mic)
            cost == (IF acked THEN 0 ELSE 1) + (IF mic THEN 0 ELSE 1)
            sent == [air EXCEPT !.sent = @ + 1]
        IN  /\ MaySend
            /\ acked \/ ~mic => heard
            /\ mic \/ rxLink.tkip
            /\ rxUpsets >= cost /\ rxUpsets' = rxUpsets - cost
            /\ IF heard THEN Store(f) ELSE UNCHANGED rxRing
            /\ \/ ~acked /\ air' = [sent EXCEPT !.retry = TRUE]
               \/ acked /\ ~last /\ air' = [sent EXCEPT !.retry = FALSE, !.frag = @ + 1]
               \/ acked /\ last /\ NewMsdu(sent)
    /\ UNCHANGED <<rxQueue, fragFrame, tuple, rxLink, delivered, buf>>

\* The AP gives an MSDU up.
ApGivesUpMsdu ==
    /\ air.retry /\ air.n <= MaxMsdus
    /\ NewMsdu(air)
    /\ UNCHANGED <<rxRing, rxQueue, fragFrame, tuple, rxLink, delivered, buf, rxUpsets>>

\* A beacon or a broadcast, with a sequence number no MSDU has, between two attempts; a
\* control frame that the filter of the chip lets through.
ApSendsOther ==
    /\ rxUpsets > 0 /\ rxUpsets' = rxUpsets - 1
    /\ MaySend
    /\ \E kind \in {"cntl"} \cup (IF Broadcasts THEN {"bcast", "mgmt"} ELSE {}) :
        Store([AirFrame(kind, 0, FALSE, FALSE, TRUE) EXCEPT !.seq = SeqSpace])
    /\ air' = [air EXCEPT !.sent = @ + 1]
    /\ UNCHANGED <<rxQueue, fragFrame, tuple, rxLink, delivered, buf>>

(***************************************************************************)
(* RTMPHandleRxDoneInterrupt for one descriptor: the buffer is replaced    *)
(* and queued.  Without a new buffer the frame is dropped; the buffer of a *)
(* control frame is neither queued nor released.                           *)
(***************************************************************************)
RxDoneInterrupt ==
    LET f == rxRing.cell[rxRing.cur]
    IN  /\ Alive /\ f.id # 0
        /\ rxRing' = [rxRing EXCEPT !.cell[rxRing.cur] = NoFrame,
                                    !.cur = (@ + 1) % RxRingSize]
        /\ \/ rxQueue' = (IF f.kind = "cntl" THEN rxQueue ELSE Append(rxQueue, f))
              /\ UNCHANGED rxUpsets
           \/ rxUpsets > 0 /\ rxUpsets' = rxUpsets - 1 /\ UNCHANGED rxQueue
        /\ UNCHANGED <<fragFrame, tuple, rxLink, delivered, buf, air>>

(***************************************************************************)
(* RTMPReportMicError: the chip found a wrong MIC, or RxNextFragment did.  *)
(* The second error counts when it comes after the window, not within it.  *)
(***************************************************************************)
ReportMicError(within) ==
    rxLink' = [rxLink EXCEPT
        !.micErrCnt = IF @ = 0 THEN 1 ELSE IF @ = 1 /\ ~within THEN 2 ELSE @]

\* RTMPApplyPacketFilter: countermeasures stop all but management frames.
Filtered(f) == f.kind # "mgmt" /\ rxLink.micErrCnt >= 2

Unicast(f) == f.kind \in {"data", "eapol"}

\* RTMPSearchTupleCache, looked at for a repeated unicast frame only.
Duplicate(f) == Unicast(f) /\ f.retry /\ tuple = [seq |-> f.seq, frag |-> f.frag]

\* RTMPUpdateTupleCache: for every frame.
UpdateTupleCache(f) == tuple' = [seq |-> f.seq, frag |-> f.frag]

FreeBuf(ids) == buf' = [i \in Skb |-> IF i \in ids THEN buf[i] + 1 ELSE buf[i]]
Deliver(msdu) == delivered' = Append(delivered, msdu)

\* Mutant of RxFirstFragment: the skb is released although it is kept.
ReleaseFirst(f) ==
    IF f.more
    THEN /\ fragFrame' = [skb |-> f.id, seq |-> f.seq, last |-> 0, msdu |-> <<f>>]
         /\ FreeBuf({f.id}) /\ UNCHANGED delivered
    ELSE Deliver(<<f>>) /\ UNCHANGED <<fragFrame, buf>>

(***************************************************************************)
(* RxFirstFragment: an MSDU of one fragment goes up, the first of several  *)
(* is kept; a buffer that is still there from another MSDU is forgotten.   *)
(***************************************************************************)
RxFirstFragment(f) ==
    IF f.more
    THEN /\ fragFrame' = [skb |-> f.id, seq |-> f.seq, last |-> 0, msdu |-> <<f>>]
         /\ UNCHANGED <<delivered, buf>>
    ELSE Deliver(<<f>>) /\ UNCHANGED <<fragFrame, buf>>

\* Mutant of Continues: the sequence number is not looked at.
ContinuesNumber(f) == f.frag = fragFrame.last + 1

\* The next fragment of the MSDU that is being put together.
Continues(f) == f.seq = fragFrame.seq /\ f.frag = fragFrame.last + 1

\* The fragment and what was put together before it are given up.
GiveUpMsdu(f) ==
    FreeBuf({f.id, fragFrame.skb} \ {0}) /\ fragFrame' = NoFragment /\ UNCHANGED delivered

\* Mutant of RxNextFragment: FragFrame is not reset when the MSDU is complete.
KeepAfterDelivery(f) ==
    /\ UNCHANGED rxLink
    /\ IF ~Continues(f) THEN GiveUpMsdu(f)
       ELSE LET msdu == Append(fragFrame.msdu, f)
            IN  /\ FreeBuf({f.id})
                /\ IF f.more
                   THEN fragFrame' = [fragFrame EXCEPT !.last = f.frag, !.msdu = msdu]
                        /\ UNCHANGED delivered
                   ELSE fragFrame' = [fragFrame EXCEPT !.skb = 0] /\ Deliver(msdu)

(***************************************************************************)
(* RxNextFragment: the fragment is appended to the buffer and released.    *)
(* Both are given up when it does not continue the MSDU or grows beyond    *)
(* MAX_FRAME_SIZE; the length is asked of a buffer that need not be there. *)
(* The MIC of a TKIP MSDU is computed over its last fragment alone, and    *)
(* never is the right one.                                                 *)
(***************************************************************************)
RxNextFragment(f) ==
    \/ (Continues(f) => fragFrame.skb # 0) /\ GiveUpMsdu(f) /\ UNCHANGED rxLink
    \/ /\ Continues(f) /\ fragFrame.skb = 0
       /\ rxLink' = [rxLink EXCEPT !.oops = TRUE] /\ UNCHANGED <<fragFrame, delivered, buf>>
    \/ /\ Continues(f) /\ fragFrame.skb # 0 /\ f.more
       /\ fragFrame' = [fragFrame EXCEPT !.last = f.frag, !.msdu = Append(@, f)]
       /\ FreeBuf({f.id}) /\ UNCHANGED <<delivered, rxLink>>
    \/ /\ Continues(f) /\ fragFrame.skb # 0 /\ ~f.more /\ ~rxLink.tkip
       /\ fragFrame' = NoFragment /\ Deliver(Append(fragFrame.msdu, f))
       /\ FreeBuf({f.id}) /\ UNCHANGED rxLink
    \/ /\ Continues(f) /\ fragFrame.skb # 0 /\ ~f.more /\ rxLink.tkip
       /\ GiveUpMsdu(f) /\ \E within \in BOOLEAN : ReportMicError(within)

\* The LLC/SNAP header of EAPOL: only a first fragment has it.
IsEapol(f) == f.kind = "eapol" /\ f.frag = 0

\* RxDataFrame: nothing without a link; EAPOL goes to the daemon at once, also the first of
\* several fragments, or to the MLME queue as a copy.
RxDataFrame(f) ==
    \/ ~rxLink.connected /\ FreeBuf({f.id}) /\ UNCHANGED <<fragFrame, delivered, rxLink>>
    \/ /\ rxLink.connected /\ f.kind = "bcast"
       /\ Deliver(<<f>>) /\ UNCHANGED <<fragFrame, buf, rxLink>>
    \/ /\ rxLink.connected /\ IsEapol(f) /\ rxLink.eapol = "daemon"
       /\ Deliver(<<f>>) /\ UNCHANGED <<fragFrame, buf, rxLink>>
    \/ /\ rxLink.connected /\ IsEapol(f) /\ rxLink.eapol = "mlme"
       /\ FreeBuf({f.id}) /\ UNCHANGED <<fragFrame, delivered, rxLink>>
    \/ /\ rxLink.connected /\ f.kind # "bcast" /\ (IsEapol(f) => rxLink.eapol = "stack")
       /\ IF f.frag = 0 THEN RxFirstFragment(f) /\ UNCHANGED rxLink ELSE RxNextFragment(f)

\* RxProcessFrameQueue: the next frame of RxQueue.
RxTasklet ==
    LET f == Head(rxQueue)
    IN  /\ Alive /\ rxQueue # <<>>
        /\ rxQueue' = Tail(rxQueue)
        /\ IF ~f.mic
           THEN /\ \E within \in BOOLEAN : ReportMicError(within)
                /\ FreeBuf({f.id}) /\ UNCHANGED <<fragFrame, tuple, delivered>>
           ELSE IF Filtered(f) \/ Duplicate(f)
           THEN FreeBuf({f.id}) /\ UNCHANGED <<fragFrame, tuple, delivered, rxLink>>
           ELSE /\ UpdateTupleCache(f)
                /\ IF f.kind = "mgmt"
                   THEN FreeBuf({f.id}) /\ UNCHANGED <<fragFrame, delivered, rxLink>>
                   ELSE RxDataFrame(f)
        /\ UNCHANGED <<rxRing, air, rxUpsets>>

\* LinkDown and LinkUp: the fragments, the tuple cache and RxQueue stay.
SwitchLink ==
    /\ Alive /\ rxUpsets > 0 /\ rxUpsets' = rxUpsets - 1
    /\ rxLink' = [rxLink EXCEPT !.connected = ~@,
                                !.micErrCnt = IF rxLink.connected THEN 0 ELSE @]
    /\ UNCHANGED <<rxRing, rxQueue, fragFrame, tuple, delivered, buf, air>>

\* rt61_close: the tasklet is killed and RxQueue emptied; FragFrame stays.
CloseRx ==
    /\ Alive /\ rxUpsets > 0 /\ rxUpsets' = rxUpsets - 1 /\ rxLink.connected
    /\ FreeBuf({rxQueue[i].id : i \in DOMAIN rxQueue})
    /\ rxQueue' = <<>>
    /\ rxRing' = [rxRing EXCEPT !.cell = [i \in DOMAIN @ |-> NoFrame], !.cur = 0, !.nic = 0]
    /\ rxLink' = [rxLink EXCEPT !.connected = FALSE, !.micErrCnt = 0]
    /\ UNCHANGED <<fragFrame, tuple, delivered, air>>

RxInit ==
    /\ rxRing = [cell |-> [i \in 0 .. RxRingSize - 1 |-> NoFrame], cur |-> 0, nic |-> 0]
    /\ rxQueue = <<>> /\ delivered = <<>>
    /\ fragFrame = NoFragment
    /\ tuple = NoTuple
    /\ \E taker \in EapolTakers, tkip \in Tkip :
        rxLink = [connected |-> TRUE, micErrCnt |-> 0, eapol |-> taker, tkip |-> tkip,
                  oops |-> FALSE]
    /\ buf = [i \in Skb |-> 0]
    /\ \E seq \in FirstSeqs, k \in 1 .. MaxMsduFrags, e \in MaybeEapol :
        air = [seq |-> seq, n |-> 1, frag |-> 0, frags |-> k, eapol |-> e, retry |-> FALSE,
               sent |-> 0]
    /\ rxUpsets = MaxRxUpsets

RxNext ==
    \/ ApSendsFragment \/ ApGivesUpMsdu \/ ApSendsOther
    \/ RxDoneInterrupt \/ RxTasklet \/ SwitchLink \/ CloseRx

RxSpec == RxInit /\ [][RxNext]_rxVars
=============================================================================
