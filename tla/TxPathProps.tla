---------------------------- MODULE TxPathProps ----------------------------
(***************************************************************************)
(* What the transmit path promises.                                        *)
(***************************************************************************)
EXTENDS TxPath

Held == {c \in Contexts : txCtx[c].skb # NoPacket}

Places(id) ==
    Cardinality({q \in Queues : id \in InQueue(q)})
    + Cardinality({q \in Rings : id \in Skbs(txRing[q])})
    + Cardinality({c \in Held : id \in {txCtx[c].skb.id, txCtx[c].next.id}})
    + freed[id]

\* Every packet is in at most one place: queued, in the hands of one context, attached
\* to one descriptor, or released once, whatever preempts RTMPDeQueuePacket between its
\* steps and however a transmission fails; without aggregation it is in exactly one.
PacketsConserved ==
    \A id \in 1 .. made : Places(id) <= 1 /\ (~txFlags.aggregation => Places(id) = 1)

\* "if HardTransmit returns FAIL, the skb buffer should already be released inside
\* RTMPHardTransmit" (rtmp_data.c:3826): no packet is lost.
NoPacketLost == \A id \in 1 .. made : Places(id) >= 1

\* The descriptors that wait for the DMA-done interrupt are those from NextTxDmaDoneIndex
\* up to CurTxIndex, so that RTMPFreeTXDUponTxDmaDone never meets a gap ("should never
\* reach here!!!!", rtmp_data.c:1606), with RTMPRingCleanUp and half-written packets.
Window(r) ==
    LET n == Cardinality({i \in DOMAIN r.cell : r.cell[i].wait})
    IN  /\ r.cur = (r.done + n) % TxRingSize
        /\ \A k \in 0 .. n - 1 : r.cell[(r.done + k) % TxRingSize].wait

RingWindow == \A q \in Rings : Window(txRing[q])

PlainWritten(q, i) == txRing'[q].cell[i].kind = "data" /\ txRing[q].cell[i].kind # "data"

\* The port is looked at long before the descriptors are written; still no packet of
\* hard_start_xmit or of the interrupt handler enters a ring in plain while the 802.1X
\* port is closed, although a timer may close it: what MlmeHandler sends alone may.
PlainDataNeedsOpenPort ==
    [][\A q \in Queues, i \in 0 .. TxRingSize - 1 :
        PlainWritten(q, i) => \/ txFlags.secured
                              \/ txCtx["mlme"].pc = "fragments" /\ txCtx'["mlme"].pc # "fragments"
      ]_txVars

\* Not so in the model, and in no run (what a preempted MlmeHandler sends): "WPA 802.1x
\* secured port control - drop all non-802.1x frame before port secured" (rtmp_data.c:3166).
PortControlled ==
    [][\A q \in Queues, i \in 0 .. TxRingSize - 1 : PlainWritten(q, i) => txFlags.secured]_txVars

\* Not so in the model, and in no run (a frame to protect needs one descriptor more):
\* a packet that reaches the locked section has its descriptors: "This should not happen
\* since caller guaranteed" (rtmp_data.c:3402).
CallerGuarantees ==
    \A c \in Contexts : txCtx[c].pc = "fragments" =>
        Room(txRing[Head(txCtx[c].todo)]) >= txCtx[c].skb.frags
=============================================================================
