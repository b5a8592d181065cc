------------------------------- MODULE TxPath -------------------------------
(***************************************************************************)
(* The transmit path (Module/rtmp_data.c): software queues per access      *)
(* category, one ring of descriptors per queue that the driver and the     *)
(* NIC own in turn, and the ring of management frames.                     *)
(*                                                                         *)
(* Three contexts run RTMPDeQueuePacket: hard_start_xmit, MlmeHandler (a   *)
(* scan that ends, a group message of WPA) and the interrupt handler.  On  *)
(* one processor the interrupt handler preempts the others, and            *)
(* hard_start_xmit, the periodic timer and the RX tasklet a MlmeHandler    *)
(* that an ioctl runs; on SMP they interleave.  TxRingLock is held while   *)
(* descriptors are written and reclaimed, so each such section is one      *)
(* step; it is NOT held while free descriptors are counted, nor between a  *)
(* protection frame and its data.                                          *)
(***************************************************************************)
EXTENDS Integers, Sequences, FiniteSets

CONSTANTS
    TxRingSize,     \* TX_RING_SIZE, MGMT_RING_SIZE
    MaxTxProcess,   \* MAX_TX_PROCESS
    MaxFrags,       \* fragments of a packet
    Protection,     \* fOP_STATUS_BG_PROTECTION_INUSED or RTS_PROTECTION_ENABLE
    Aggregation,    \* the values of fOP_STATUS_AGGREGATION_INUSED at the start
    TxSmp,          \* more than one processor
    MaxTxPackets,   \* bound: packets and management frames
    MaxTxUpsets     \* bound: how many kinds of upset happen in a behaviour

ASSUME TxRingAssumption == TxRingSize \in Nat /\ TxRingSize > 1
ASSUME TxCountAssumption == MaxTxProcess \in Nat \ {0} /\ MaxFrags \in Nat \ {0}
ASSUME TxSwitchAssumption == 
    Protection \in BOOLEAN /\ TxSmp \in BOOLEAN /\ Aggregation \subseteq BOOLEAN
ASSUME TxBoundAssumption == MaxTxPackets \in Nat /\ MaxTxUpsets \in Nat

Be == "AC_BE"
Queues == {Be, "AC_VO"}
Rings == Queues \cup {"MGMT"}
Contexts == {"xmit", "mlme", "isr"}

VARIABLES
    txSwQueue,  \* pAd->TxSwQueue[]
    txRing,     \* pAd->TxRing[], pAd->MgmtRing and the NIC's own position
    txCtx,      \* where each context is in RTMPDeQueuePacket
    txFlags,    \* scan in progress, radio off, port secured, aggregation in use,
                \* DMA-done pending
    freed,      \* how often each packet was released
    made,       \* packets handed to the driver so far
    txUpsets    \* what may still happen once

txVars == <<txSwQueue, txRing, txCtx, txFlags, freed, made, txUpsets>>

Upsets == {"null", "drop", "scan", "radio", "port"}
Ids == 1 .. MaxTxPackets
None == 0
FreeCell == [own |-> "HOST", wait |-> FALSE, skb |-> None, next |-> None, kind |-> "none"]
EmptyRing == [cell |-> [i \in 0 .. TxRingSize - 1 |-> FreeCell],
              cur |-> 0, done |-> 0, nic |-> 0, run |-> FALSE]
NoPacket == [id |-> None, frags |-> 1, eapol |-> FALSE]
IdleCtx == [pc |-> "idle", todo |-> <<>>, skb |-> NoPacket, next |-> NoPacket, n |-> 0]

Inc(i) == (i + 1) % TxRingSize

\* A descriptor the driver may write.
Usable(r) == r.cell[r.cur].own = "HOST" /\ ~r.cell[r.cur].wait

\* RTMPWriteTxDescriptor and INC_RING_INDEX.
Write(r, kind, skb) ==
    [r EXCEPT !.cell[r.cur] = [FreeCell EXCEPT
                                  !.own = "NIC", !.wait = TRUE, !.skb = skb, !.kind = kind],
              !.cur = Inc(r.cur)]

\* The descriptors RTMPFreeTXDRequest counts as free.
FreeNumber(r) ==
    LET n == TxRingSize + r.done - r.cur
    IN  IF r.cell[r.cur].wait THEN 0 ELSE IF n > TxRingSize THEN n - TxRingSize ELSE n

(***************************************************************************)
(* The fragments of a packet, all under one lock: the skb, and the one     *)
(* aggregated with it, are attached to the last one only.  A busy          *)
(* descriptor ends the loop half-way.                                      *)
(***************************************************************************)
At(r, i) == (r.cur + i) % TxRingSize

\* Mutant of Room: a descriptor the NIC gave back counts as free before it is reclaimed.
RoomUnreclaimed(r) == CHOOSE n \in 0 .. TxRingSize :
    /\ n = TxRingSize \/ r.cell[At(r, n)].own = "NIC"
    /\ \A i \in 0 .. n - 1 : r.cell[At(r, i)].own = "HOST"

Room(r) == CHOOSE n \in 0 .. TxRingSize :
    /\ n = TxRingSize \/ r.cell[At(r, n)].wait
    /\ \A i \in 0 .. n - 1 : ~r.cell[At(r, i)].wait

WriteFragments(r, p, next) ==
    LET fits == IF p.frags <= Room(r) THEN p.frags ELSE Room(r)
        fragment(i) == [own |-> "NIC", wait |-> TRUE,
                        skb |-> IF i = p.frags - 1 THEN p.id ELSE None,
                        next |-> IF i = p.frags - 1 THEN next.id ELSE None,
                        kind |-> IF p.eapol THEN "eapol" ELSE "data"]
    IN  [r EXCEPT !.cur = At(r, fits),
            !.cell = [c \in DOMAIN @ |->
                IF \E i \in 0 .. fits - 1 : At(r, i) = c
                THEN fragment(CHOOSE i \in 0 .. fits - 1 : At(r, i) = c) ELSE @[c]]]

(***************************************************************************)
(* Who may run: the interrupt handler preempts all, hard_start_xmit, a     *)
(* softirq, MlmeHandler.  What the timer or the RX tasklet does runs when  *)
(* MlmeHandler may, also in the middle of it.                              *)
(***************************************************************************)
Preempting == [isr |-> {}, xmit |-> {"isr"}, mlme |-> {"isr", "xmit"}]

MayRun(c) == TxSmp \/ \A d \in Preempting[c] : txCtx[d].pc = "idle"

\* At most once in a behaviour.
Upset(kind) == kind \in txUpsets /\ txUpsets' = txUpsets \ {kind}

Blocked == txFlags.scan \/ txFlags.radioOff

Become(c, x) == txCtx' = [txCtx EXCEPT ![c] = x]

\* RELEASE_NDIS_PACKET.
Release(ids) == freed' = [id \in Ids |-> IF id \in ids THEN freed[id] + 1 ELSE freed[id]]

\* The loop over the rings: the next queue, or the end of the handler.
NextQueue(c) ==
    LET rest == Tail(txCtx[c].todo)
    IN  IF rest = <<>> THEN IdleCtx ELSE [IdleCtx EXCEPT !.pc = "enter", !.todo = rest]

Enter(todo) == [IdleCtx EXCEPT !.pc = "enter", !.todo = todo]

AllQueues == <<Be, "AC_VO">>

(***************************************************************************)
(* rt61_hard_start_xmit and RTMPSendPacket: the packet is marked with the  *)
(* descriptors it needs and queued; then every queue is tried.             *)
(***************************************************************************)
HandOver(c, eapol) ==
    \E q \in Queues, n \in 1 .. MaxFrags :
        LET p == [id |-> made + 1, frags |-> n, eapol |-> eapol]
        IN  /\ (eapol \/ q # Be) => n = 1 /\ (eapol => q = Be)
            /\ made < MaxTxPackets
            /\ MayRun(c) /\ txCtx[c].pc = "idle"
            /\ made' = made + 1
            /\ txSwQueue' = [txSwQueue EXCEPT ![q] = Append(@, p)]
            /\ Become(c, Enter(AllQueues))
            /\ UNCHANGED <<txRing, txFlags, freed, txUpsets>>

HardStartXmit == \E eapol \in BOOLEAN : ~txFlags.radioOff /\ HandOver("xmit", eapol)

\* rt61_hard_start_xmit without a link.
DropUnlinked ==
    /\ made < MaxTxPackets /\ MayRun("xmit") /\ txCtx["xmit"].pc = "idle"
    /\ txFlags.radioOff
    /\ made' = made + 1
    /\ Release({made + 1})
    /\ UNCHANGED <<txSwQueue, txRing, txCtx, txFlags, txUpsets>>

\* RTMPToWirelessSta: message 2 of the group handshake.
SendGroupMsg2 == HandOver("mlme", TRUE)

(***************************************************************************)
(* RTMPDeQueuePacket.                                                      *)
(***************************************************************************)
CheckFlags(c) ==
    /\ MayRun(c) /\ txCtx[c].pc = "enter"
    /\ Become(c, IF Blocked THEN NextQueue(c) ELSE [txCtx[c] EXCEPT !.pc = "take"])
    /\ UNCHANGED <<txSwQueue, txRing, txFlags, freed, made, txUpsets>>

Take(c) ==
    LET q == Head(txCtx[c].todo)
        queue == txSwQueue[q]
    IN  /\ MayRun(c) /\ txCtx[c].pc = "take"
        /\ IF queue = <<>> \/ txCtx[c].n = MaxTxProcess
           THEN Become(c, NextQueue(c)) /\ UNCHANGED txSwQueue
           ELSE /\ txSwQueue' = [txSwQueue EXCEPT ![q] = Tail(@)]
                /\ Become(c, [txCtx[c] EXCEPT !.pc = "check", !.skb = Head(queue)])
        /\ UNCHANGED <<txRing, txFlags, freed, made, txUpsets>>

\* RTMPFreeTXDRequest, without the lock; a packet that does not fit goes back.
Check(c) ==
    LET q == Head(txCtx[c].todo)
    IN  /\ MayRun(c) /\ txCtx[c].pc = "check"
        /\ IF FreeNumber(txRing[q]) >= txCtx[c].skb.frags
           THEN Become(c, [txCtx[c] EXCEPT !.pc = "aggregate"]) /\ UNCHANGED txSwQueue
           ELSE /\ txSwQueue' = [txSwQueue EXCEPT ![q] = <<txCtx[c].skb>> \o @]
                /\ Become(c, NextQueue(c))
        /\ UNCHANGED <<txRing, txFlags, freed, made, txUpsets>>

\* Mutant of Refused: the port is not looked at.
RefuseNothing(p) == FALSE

(***************************************************************************)
(* RTMPHardTransmit up to the lock: the next packet of the queue is taken  *)
(* along when both can be aggregated; a packet is released because of      *)
(* radar, its size or a failed clone, or while the 802.1X port is closed   *)
(* (the packet taken along is not); the protection frame is written, or    *)
(* not, in a locked section of its own.                                    *)
(***************************************************************************)
Refused(p) == ~txFlags.secured /\ ~p.eapol

\* TxFrameIsAggregatible.
Aggregatible(p) == ~p.eapol

Aggregate(c) ==
    LET q == Head(txCtx[c].todo)
    IN  /\ MayRun(c) /\ txCtx[c].pc = "aggregate"
        /\ IF /\ txFlags.aggregation /\ txCtx[c].skb.frags = 1 /\ Aggregatible(txCtx[c].skb)
              /\ txSwQueue[q] # <<>> /\ Aggregatible(Head(txSwQueue[q]))
           THEN /\ txSwQueue' = [txSwQueue EXCEPT ![q] = Tail(@)]
                /\ Become(c, [txCtx[c] EXCEPT !.pc = "send", !.next = Head(txSwQueue[q])])
           ELSE Become(c, [txCtx[c] EXCEPT !.pc = "send"]) /\ UNCHANGED txSwQueue
        /\ UNCHANGED <<txRing, txFlags, freed, made, txUpsets>>

Drop(c) ==
    /\ MayRun(c) /\ txCtx[c].pc = "send"
    /\ \/ Refused(txCtx[c].skb) /\ UNCHANGED txUpsets
       \/ ~Refused(txCtx[c].skb) /\ Upset("drop")
    /\ Release({txCtx[c].skb.id})
    /\ Become(c, NextQueue(c))
    /\ UNCHANGED <<txSwQueue, txRing, txFlags, made>>

SendRTSCTSFrame(r) == IF Usable(r) THEN Write(r, "protect", None) ELSE r

Protect(c) ==
    /\ MayRun(c) /\ txCtx[c].pc = "send"
    /\ ~Refused(txCtx[c].skb)
    /\ txRing' = IF Protection
                 THEN [txRing EXCEPT ![Head(txCtx[c].todo)] = SendRTSCTSFrame(@)] ELSE txRing
    /\ Become(c, [txCtx[c] EXCEPT !.pc = "fragments"])
    /\ UNCHANGED <<txSwQueue, txFlags, freed, made, txUpsets>>

\* Mutant of Unsent: the packet is left.
LeaveUnsent(c) == {txCtx[c].next.id} \ {None}

\* What a transmission releases when the descriptors do not suffice.
Unsent(c) == {txCtx[c].skb.id, txCtx[c].next.id} \ {None}

\* The fragments are written and the ring is kicked, or the packet is released.
Transmit(c) ==
    LET q == Head(txCtx[c].todo)
        p == txCtx[c].skb
        fits == Room(txRing[q]) >= p.frags
    IN  /\ MayRun(c) /\ txCtx[c].pc = "fragments"
        /\ txRing' = [txRing EXCEPT
               ![q] = [WriteFragments(txRing[q], p, txCtx[c].next) EXCEPT !.run = @ \/ fits]]
        /\ IF fits
           THEN /\ Become(c, [txCtx[c] EXCEPT !.pc = "take", !.skb = NoPacket,
                                               !.next = NoPacket, !.n = @ + 1])
                /\ UNCHANGED freed
           ELSE Release(Unsent(c)) /\ Become(c, NextQueue(c))
        /\ UNCHANGED <<txSwQueue, txFlags, made, txUpsets>>

(***************************************************************************)
(* RTMPSendNullFrame, and a management frame: MiniportMMRequest with       *)
(* MlmeHardTransmit, which looks at the descriptor again under the lock.   *)
(* Both from the periodic timer as well.                                   *)
(***************************************************************************)
SendNullFrame ==
    /\ MayRun("mlme")
    /\ txFlags.secured /\ Upset("null")
    /\ Usable(txRing[Be])
    /\ txRing' = [txRing EXCEPT ![Be] = [Write(@, "null", None) EXCEPT !.run = TRUE]]
    /\ UNCHANGED <<txSwQueue, txCtx, txFlags, freed, made>>

MMRequest ==
    /\ MayRun("mlme")
    /\ made < MaxTxPackets /\ made' = made + 1
    /\ IF Usable(txRing["MGMT"])
       THEN /\ txRing' = [txRing EXCEPT !["MGMT"] =
                            [Write(@, "mgmt", made + 1) EXCEPT !.run = TRUE]]
            /\ UNCHANGED freed
       ELSE Release({made + 1}) /\ UNCHANGED txRing
    /\ UNCHANGED <<txSwQueue, txCtx, txFlags, txUpsets>>

(***************************************************************************)
(* The NIC (external) sends the frame of its position while the ring is    *)
(* kicked and hands the descriptor back.                                   *)
(***************************************************************************)
NicSends(q) ==
    LET r == txRing[q]
    IN  /\ r.run /\ r.cell[r.nic].own = "NIC"
        /\ txRing' = [txRing EXCEPT ![q].cell[r.nic].own = "HOST", ![q].nic = Inc(@)]
        /\ txFlags' = [txFlags EXCEPT !.dmaDone = @ \cup {q}]
        /\ UNCHANGED <<txSwQueue, txCtx, freed, made, txUpsets>>

(***************************************************************************)
(* RTMPFreeTXDUponTxDmaDone and its counterpart of the management ring.    *)
(***************************************************************************)
Sent(r) == {c \in DOMAIN r.cell : r.cell[c].wait /\ r.cell[c].own = "HOST"}

\* The positions the loop goes over: from NextTxDmaDoneIndex to a descriptor of the NIC.
DonePrefix(r) ==
    {(r.done + i) % TxRingSize : i \in
        {k \in 0 .. TxRingSize - 1 : \A j \in 0 .. k : (r.done + j) % TxRingSize \in Sent(r)}}

Skbs(r) == (UNION {{r.cell[c].skb, r.cell[c].next} : c \in DOMAIN r.cell}) \ {None}

Reclaim(r) ==
    LET cells == DonePrefix(r)
    IN  [r EXCEPT !.done = (@ + Cardinality(cells)) % TxRingSize,
                  !.cell = [c \in DOMAIN @ |-> IF c \in cells THEN FreeCell ELSE @[c]]]

\* The queues that are not empty, if one is.
Filled == IF txSwQueue[Be] = <<>> THEN <<"AC_VO">>
          ELSE IF txSwQueue["AC_VO"] = <<>> THEN <<Be>> ELSE AllQueues

\* The interrupt: every ring that is done is reclaimed, then the queues are tried.
DmaDoneInterrupt(q) ==
    /\ MayRun("isr") /\ txCtx["isr"].pc = "idle"
    /\ q \in txFlags.dmaDone
    /\ txFlags' = [txFlags EXCEPT !.dmaDone = @ \ {q}]
    /\ txRing' = [txRing EXCEPT ![q] = Reclaim(@)]
    /\ Release(Skbs(txRing[q]) \ Skbs(Reclaim(txRing[q])))
    /\ Become("isr", IF q = "MGMT" \/ \A x \in Queues : txSwQueue[x] = <<>>
                     THEN IdleCtx
                     ELSE Enter(Filled))
    /\ UNCHANGED <<txSwQueue, made, txUpsets>>

(***************************************************************************)
(* Suspend and resume around a scan: only the best-effort queue is tried   *)
(* when a scan ends.                                                       *)
(***************************************************************************)
Aborted == [q \in Rings |-> IF q = "MGMT" THEN txRing[q] ELSE [txRing[q] EXCEPT !.run = FALSE]]
Kicked == [q \in Rings |-> IF q = "MGMT" THEN txRing[q] ELSE [txRing[q] EXCEPT !.run = TRUE]]

SuspendMsduTransmission ==
    /\ MayRun("mlme") /\ txCtx["mlme"].pc = "idle"
    /\ ~txFlags.scan /\ ~txFlags.radioOff /\ Upset("scan")
    /\ txFlags' = [txFlags EXCEPT !.scan = TRUE]
    /\ txRing' = Aborted
    /\ UNCHANGED <<txSwQueue, txCtx, freed, made>>

ResumeMsduTransmission ==
    /\ MayRun("mlme") /\ txCtx["mlme"].pc = "idle"
    /\ txFlags.scan
    /\ txFlags' = [txFlags EXCEPT !.scan = FALSE]
    /\ Become("mlme", Enter(<<Be>>))
    /\ txRing' = Kicked
    /\ UNCHANGED <<txSwQueue, freed, made, txUpsets>>

(***************************************************************************)
(* MlmeRadioOff with LinkDown; MlmeRadioOn with RTMPRingCleanUp.  The link *)
(* comes back with the same AP, and aggregation with it.                   *)
(***************************************************************************)
MlmeRadioOff ==
    /\ MayRun("mlme") /\ txCtx["mlme"].pc = "idle"
    /\ ~txFlags.radioOff /\ ~txFlags.scan /\ Upset("radio")
    /\ txFlags' = [txFlags EXCEPT !.radioOff = TRUE, !.secured = FALSE]
    /\ txRing' = [q \in Rings |-> [txRing[q] EXCEPT !.run = FALSE]]
    /\ UNCHANGED <<txSwQueue, txCtx, freed, made>>

InQueue(q) == {txSwQueue[q][i].id : i \in DOMAIN txSwQueue[q]}

MlmeRadioOn ==
    /\ MayRun("mlme") /\ txCtx["mlme"].pc = "idle"
    /\ txFlags.radioOff
    /\ txRing' = [q \in Rings |-> EmptyRing]
    /\ txSwQueue' = [q \in Queues |-> <<>>]
    /\ Release((UNION {Skbs(txRing[q]) : q \in Rings}) \cup (UNION {InQueue(q) : q \in Queues}))
    /\ txFlags' = [txFlags EXCEPT !.radioOff = FALSE, !.dmaDone = {}]
    /\ UNCHANGED <<txCtx, made, txUpsets>>

\* The supplicant or, in the RX tasklet, an EAP success opens the port; LinkDown closes it,
\* also from the periodic timer.
SwitchPort ==
    /\ MayRun("mlme") /\ ~txFlags.radioOff
    /\ Upset("port")
    /\ txFlags' = [txFlags EXCEPT !.secured = ~@]
    /\ UNCHANGED <<txSwQueue, txRing, txCtx, freed, made>>

TxInit ==
    /\ txSwQueue = [q \in Queues |-> <<>>]
    /\ txRing = [q \in Rings |-> EmptyRing]
    /\ txCtx = [c \in Contexts |-> IdleCtx]
    /\ \E secured \in BOOLEAN, aggregation \in Aggregation :
        txFlags = [scan |-> FALSE, radioOff |-> FALSE, secured |-> secured,
                   aggregation |-> aggregation, dmaDone |-> {}]
    /\ freed = [id \in Ids |-> 0]
    /\ made = 0
    /\ txUpsets \in {u \in SUBSET Upsets : Cardinality(u) = MaxTxUpsets}

DeQueue(c) == CheckFlags(c) \/ Take(c) \/ Check(c) \/ Aggregate(c) \/ Drop(c) \/ Protect(c) \/ Transmit(c)

TxNext ==
    \/ HardStartXmit \/ DropUnlinked \/ SendGroupMsg2 \/ SendNullFrame \/ MMRequest
    \/ \E c \in Contexts : DeQueue(c)
    \/ \E q \in Rings : NicSends(q) \/ DmaDoneInterrupt(q)
    \/ SuspendMsduTransmission \/ ResumeMsduTransmission
    \/ MlmeRadioOff \/ MlmeRadioOn \/ SwitchPort

TxSpec == TxInit /\ [][TxNext]_txVars
=============================================================================
