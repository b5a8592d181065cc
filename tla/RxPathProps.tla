---------------------------- MODULE RxPathProps ----------------------------
(***************************************************************************)
(* What the receive path promises.                                         *)
(***************************************************************************)
EXTENDS RxPath

\* "All EAPoL frames have to pass to upper layer [...] TBD : process fragmented EAPol frames"
\* (rtmp_data.c:1010): the daemon is given the first fragment of such an MSDU.
FirstForDaemon(msdu) == rxLink.eapol = "daemon" /\ Len(msdu) = 1 /\ IsEapol(msdu[1])

\* What goes up is one MSDU: all its fragments, of one sequence number, in their order,
\* whichever fragments were lost, repeated, dropped for lack of a buffer or overtaken by
\* the first fragment of another MSDU.  Only the daemon may be given less.
DeliveredWhole ==
    \A k \in DOMAIN delivered :
        LET msdu == delivered[k]
        IN  \/ FirstForDaemon(msdu)
            \/ /\ \A i \in DOMAIN msdu : msdu[i].seq = msdu[1].seq /\ msdu[i].frag = i - 1
               /\ \A i \in DOMAIN msdu : msdu[i].more <=> i < Len(msdu)

\* A buffer is in one place at most and released once: RxFirstFragment keeps the skb that
\* the tasklet would release, RxNextFragment releases one that it copied from, and an
\* skb that went up is the stack's.
InUse(id) ==
    Cardinality({i \in DOMAIN rxRing.cell : rxRing.cell[i].id = id})
    + Cardinality({i \in DOMAIN rxQueue : rxQueue[i].id = id})
    + (IF fragFrame.skb = id THEN 1 ELSE 0)
    + Cardinality({k \in DOMAIN delivered : delivered[k][1].id = id}) + buf[id]

NoBufferTwice == \A id \in Skb : InUse(id) <= 1

\* A fragment that continues what FragFrame says finds a buffer with all the fragments
\* before it, whatever reset, completed or overtook the reassembly since; there is none
\* only for the second fragment of the MSDU numbered 0, which a zeroed FragFrame expects.
BufferWhenContinued ==
    \A i \in DOMAIN rxQueue :
        LET f == rxQueue[i]  msdu == fragFrame.msdu
        IN  f.frag > 0 /\ Continues(f) =>
                IF fragFrame.skb = 0 THEN f.seq = 0 /\ f.frag = 1
                ELSE /\ Len(msdu) = f.frag
                     /\ \A j \in 1 .. f.frag :
                            msdu[j].seq = f.seq /\ msdu[j].frag = j - 1 /\ msdu[j].more

\* Not so in the model, and in no run (MSDU number 0 fits a zeroed FragFrame): "Is fragment
\* not from the same sequence? [...] Reset re-assembly buffer" (rtmp_data.c:802): a fragment that comes when nothing is put together is
\* given up.
StrayFragmentGivenUp == ~rxLink.oops

\* Not so in the model, and in no run (the last fragment is compared): "Compare MIC value of
\* received MSDU" (rtmp_tkip.c:311): the countermeasures count frames with a wrong MIC only.
MicErrorsAreReal ==
    [][rxLink'.micErrCnt > rxLink.micErrCnt => ~Head(rxQueue).mic]_rxVars

\* Not so in the model, and in no run (broadcasts overwrite the cached entry):
\* "Check retry bit. If this bit is on, search the cache with SA & sequence as index, if
\* matched, discard this frame, otherwise, update cache.  This check only apply to
\* unicast data & management frames" (rtmp_data.c:573): a frame the AP repeats is
\* delivered once.
NoDuplicateDelivery ==
    \A j, k \in DOMAIN delivered :
        /\ Unicast(delivered[j][1]) /\ Unicast(delivered[k][1])
        /\ delivered[j][1].seq = delivered[k][1].seq
        => j = k
=============================================================================
