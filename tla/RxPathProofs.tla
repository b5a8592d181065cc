---------------------------- MODULE RxPathProofs ----------------------------
(***************************************************************************)
(* Proofs about the receive path, for a ring of any size and any number of *)
(* MSDUs, fragments, losses and repetitions.                               *)
(***************************************************************************)
EXTENDS RxPathProps, FiniteSetTheorems, SequenceTheorems, TLAPS

---------------------------------------------------------------------------
(* The frames and where they are *)

Cells == 0 .. RxRingSize - 1

\* A frame the chip received.  A broadcast is never one of several fragments.
RxFrame ==
    {f \in [id : Skb, kind : {"data", "eapol", "bcast", "mgmt", "cntl"}, seq : Nat,
            frag : Nat, more : BOOLEAN, retry : BOOLEAN, mic : BOOLEAN] :
        f.kind = "bcast" => f.frag = 0 /\ ~f.more}

\* What FragFrame may hold: the fragments of one MSDU from the first on, with more to come.
Started ==
    {g \in [skb : Skb, seq : Nat, last : Nat, msdu : Seq(RxFrame)] :
        /\ g.msdu # <<>> /\ g.last = Len(g.msdu) - 1 /\ g.skb = g.msdu[1].id
        /\ \A i \in 1 .. Len(g.msdu) :
            g.msdu[i].seq = g.seq /\ g.msdu[i].frag = i - 1 /\ g.msdu[i].more}

\* All fragments of one MSDU.
Whole(msdu) ==
    /\ msdu # <<>>
    /\ \A i \in 1 .. Len(msdu) : msdu[i].seq = msdu[1].seq /\ msdu[i].frag = i - 1
    /\ \A i \in 1 .. Len(msdu) : msdu[i].more <=> i < Len(msdu)

\* What may go up where EAPOL is taken by taker.
Proper(taker, msdu) ==
    Whole(msdu) \/ (taker = "daemon" /\ Len(msdu) = 1 /\ IsEapol(msdu[1]))

Air == [seq : Nat, n : Nat, frag : Nat, frags : Nat, eapol : BOOLEAN, retry : BOOLEAN, sent : Nat]

RingInv == rxRing \in [cell : [Cells -> RxFrame \cup {NoFrame}], cur : Cells, nic : Cells]
LinkInv == rxLink \in [connected : BOOLEAN, micErrCnt : Nat, eapol : {"daemon", "mlme", "stack"},
                       tkip : BOOLEAN, oops : BOOLEAN]
UpInv == /\ delivered \in Seq(Seq(RxFrame))
         /\ \A k \in 1 .. Len(delivered) : Proper(rxLink.eapol, delivered[k])

RxInv ==
    /\ RingInv /\ LinkInv /\ UpInv
    /\ rxQueue \in Seq(RxFrame)
    /\ fragFrame \in Started \cup {NoFragment}
    /\ buf \in [Skb -> Nat]
    /\ air \in Air

LEMMA CountOfSkb == IsFiniteSet(Skb) /\ \A n \in Nat : n < Cardinality(Skb) => n + 1 \in Skb
<1> DEFINE k == MaxMsdus * MaxMsduFrags + MaxRxUpsets
<1>1. MaxMsdus * MaxMsduFrags \in Nat
  BY RxAssumption
<1>2. k \in Nat
  BY <1>1, RxAssumption
<1>3. Skb = 1 .. k
  BY DEF Skb
<1> HIDE DEF k
<1>4. IsFiniteSet(Skb) /\ Cardinality(Skb) = k
  BY <1>2, <1>3, FS_Interval
<1> QED BY <1>2, <1>3, <1>4

LEMMA NoFrameIsNone == NoFrame \notin RxFrame /\ NoFrame.id = 0 /\ 0 \notin Skb
BY DEF NoFrame, RxFrame, Skb

LEMMA NextCell == \A c \in Cells : (c + 1) % RxRingSize \in Cells
BY RxAssumption DEF Cells

\* What the NIC stores.
LEMMA StoreType ==
    ASSUME RingInv, NEW f \in RxFrame, Store(f) PROVE RingInv'
BY NextCell DEF RingInv, Store

\* The frame on the air is new.
LEMMA AirFrameType ==
    ASSUME RxInv, MaySend, NEW kind \in {"data", "eapol", "bcast", "mgmt", "cntl"},
           NEW frag \in Nat, NEW more \in BOOLEAN, NEW retry \in BOOLEAN, NEW mic \in BOOLEAN,
           kind = "bcast" => frag = 0 /\ ~more
    PROVE  AirFrame(kind, frag, more, retry, mic) \in RxFrame
<1>1. air.sent + 1 \in Skb
  BY CountOfSkb DEF RxInv, Air, MaySend
<1>2. air.seq \in Nat
  BY DEF RxInv, Air
<1> QED BY <1>1, <1>2 DEF AirFrame, RxFrame

LEMMA NewMsduType ==
    ASSUME NEW a \in Air, NewMsdu(a)
    PROVE  air' \in Air /\ air'.sent = a.sent
<1>1. PICK k \in 1 .. MaxMsduFrags, e \in BOOLEAN :
        air' = [a EXCEPT !.seq = (@ + 1) % SeqSpace, !.n = @ + 1, !.frag = 0, !.frags = k,
                         !.eapol = e, !.retry = FALSE]
  BY DEF NewMsdu, MaybeEapol
<1>2. k \in Nat /\ e \in BOOLEAN /\ (a.seq + 1) % SeqSpace \in Nat /\ a.n + 1 \in Nat
  BY RxAssumption DEF Air
<1> DEFINE next == (a.seq + 1) % SeqSpace  count == a.n + 1  zero == 0  no == FALSE
<1>4. next \in Nat /\ count \in Nat /\ zero \in Nat /\ no \in BOOLEAN
  BY <1>2
<1>5. air' = [a EXCEPT !.seq = next, !.n = count, !.frag = zero, !.frags = k, !.eapol = e,
                       !.retry = no]
  BY <1>1
<1> HIDE DEF next, count, zero, no
<1> QED BY <1>2, <1>4, <1>5 DEF Air

LEMMA ApSendsFragmentType == ASSUME RxInv, ApSendsFragment PROVE RxInv'
<1>1. PICK heard \in BOOLEAN, acked \in BOOLEAN, mic \in BOOLEAN :
        LET last == air.frag = air.frags - 1
            f == AirFrame(IF air.eapol THEN "eapol" ELSE "data", air.frag, ~last, air.retry, mic)
            sent == [air EXCEPT !.sent = @ + 1]
        IN  /\ MaySend
            /\ IF heard THEN Store(f) ELSE UNCHANGED rxRing
            /\ \/ ~acked /\ air' = [sent EXCEPT !.retry = TRUE]
               \/ acked /\ ~last /\ air' = [sent EXCEPT !.retry = FALSE, !.frag = @ + 1]
               \/ acked /\ last /\ NewMsdu(sent)
  BY DEF ApSendsFragment
<1>2. UNCHANGED <<rxQueue, fragFrame, rxLink, delivered, buf>>
  BY DEF ApSendsFragment
<1> DEFINE kind == IF air.eapol THEN "eapol" ELSE "data"
           more == ~(air.frag = air.frags - 1)
           f == AirFrame(kind, air.frag, more, air.retry, mic)
           sent == [air EXCEPT !.sent = @ + 1]
<1>3. f \in RxFrame
  <2>1. kind \in {"data", "eapol"} /\ more \in BOOLEAN /\ air.frag \in Nat /\ air.retry \in BOOLEAN
    BY DEF RxInv, Air
  <2> HIDE DEF kind, more
  <2> QED BY <1>1, <2>1, AirFrameType
<1>4. RingInv'
  BY <1>1, <1>3, StoreType DEF RxInv, RingInv
<1>5. sent \in Air
  BY DEF RxInv, Air
<1>6. air' \in Air
  <2>1. CASE air' = [sent EXCEPT !.retry = TRUE]
    <3> HIDE DEF sent
    <3> QED BY <1>5, <2>1 DEF Air
  <2>2. CASE air' = [sent EXCEPT !.retry = FALSE, !.frag = @ + 1]
    <3> HIDE DEF sent
    <3>1. sent.frag + 1 \in Nat /\ FALSE \in BOOLEAN
      BY <1>5 DEF Air
    <3> QED BY <1>5, <2>2, <3>1 DEF Air
  <2>3. CASE NewMsdu(sent)
    BY <1>5, <2>3, NewMsduType
  <2> QED BY <1>1, <2>1, <2>2, <2>3
<1> QED BY <1>2, <1>4, <1>6 DEF RxInv, LinkInv, UpInv

LEMMA ApSendsOtherType == ASSUME RxInv, ApSendsOther PROVE RxInv'
<1>1. PICK kind \in {"cntl", "bcast", "mgmt"} :
        Store([AirFrame(kind, 0, FALSE, FALSE, TRUE) EXCEPT !.seq = SeqSpace])
  BY DEF ApSendsOther
<1>2. /\ UNCHANGED <<rxQueue, fragFrame, rxLink, delivered, buf>>
      /\ air' = [air EXCEPT !.sent = @ + 1] /\ MaySend
  BY DEF ApSendsOther
<1> DEFINE f == AirFrame(kind, 0, FALSE, FALSE, TRUE)
<1>3. f \in RxFrame
  BY <1>1, <1>2, AirFrameType
<1>4. [f EXCEPT !.seq = SeqSpace] \in RxFrame
  <2>1. SeqSpace \in Nat
    BY RxAssumption
  <2> HIDE DEF f
  <2> QED BY <1>3, <2>1 DEF RxFrame
<1>5. RingInv'
  BY <1>1, <1>4, StoreType DEF RxInv
<1>6. air' \in Air
  BY <1>2 DEF RxInv, Air
<1> QED BY <1>2, <1>5, <1>6 DEF RxInv, LinkInv, UpInv

LEMMA RxDoneInterruptType == ASSUME RxInv, RxDoneInterrupt PROVE RxInv'
<1> DEFINE f == rxRing.cell[rxRing.cur]
<1>1. f \in RxFrame
  BY NoFrameIsNone DEF RxInv, RingInv, RxDoneInterrupt
<1>2. RingInv'
  BY NextCell DEF RxInv, RingInv, RxDoneInterrupt
<1>3. rxQueue' \in Seq(RxFrame)
  BY <1>1 DEF RxDoneInterrupt, RxInv
<1> QED BY <1>2, <1>3 DEF RxDoneInterrupt, RxInv, LinkInv, UpInv

---------------------------------------------------------------------------
(* The tasklet *)

LEMMA FreeBufType == ASSUME buf \in [Skb -> Nat], NEW ids, FreeBuf(ids) PROVE buf' \in [Skb -> Nat]
BY DEF FreeBuf

\* An MSDU that is whole may go up, and what the daemon may be given.
LEMMA DeliverWhole ==
    ASSUME UpInv, NEW msdu \in Seq(RxFrame), Proper(rxLink.eapol, msdu),
           Deliver(msdu), rxLink'.eapol = rxLink.eapol
    PROVE  UpInv'
<1>1. /\ delivered' \in Seq(Seq(RxFrame)) /\ Len(delivered') = Len(delivered) + 1
      /\ \A k \in 1 .. Len(delivered') :
            delivered'[k] = IF k = Len(delivered) + 1 THEN msdu ELSE delivered[k]
  BY AppendProperties DEF Deliver, UpInv
<1> DEFINE taker == rxLink.eapol
<1>2. /\ Len(delivered) \in Nat
      /\ \A k \in 1 .. Len(delivered) : Proper(taker, delivered[k])
  BY LenProperties DEF UpInv
<1>3. \A k \in 1 .. Len(delivered') : Proper(taker, delivered'[k])
  <2> SUFFICES ASSUME NEW k \in 1 .. Len(delivered') PROVE Proper(taker, delivered'[k])
    OBVIOUS
  <2>1. CASE k = Len(delivered) + 1
    BY <1>1, <2>1
  <2>2. CASE k # Len(delivered) + 1
    <3>1. k \in 1 .. Len(delivered) /\ delivered'[k] = delivered[k]
      BY <1>1, <1>2, <2>2
    <3> QED BY <1>2, <3>1
  <2> QED BY <2>1, <2>2
<1>4. rxLink'.eapol = taker
  OBVIOUS
<1> QED BY <1>1, <1>3, <1>4 DEF UpInv

LEMMA SingleWhole ==
    ASSUME NEW f \in RxFrame, f.frag = 0, ~f.more
    PROVE  <<f>> \in Seq(RxFrame) /\ Whole(<<f>>)
BY DEF Whole

LEMMA FirstStarts ==
    ASSUME NEW f \in RxFrame, f.frag = 0, f.more
    PROVE  [skb |-> f.id, seq |-> f.seq, last |-> 0, msdu |-> <<f>>] \in Started
<1> DEFINE zero == 0  one == <<f>>
           g == [skb |-> f.id, seq |-> f.seq, last |-> zero, msdu |-> one]
<1>1. zero = 0 /\ one \in Seq(RxFrame) /\ Len(one) = 1 /\ one[1] = f /\ one # <<>>
  OBVIOUS
<1>2. f.id \in Skb /\ f.seq \in Nat
  BY DEF RxFrame
<1> HIDE DEF zero, one
<1>3. g \in [skb : Skb, seq : Nat, last : Nat, msdu : Seq(RxFrame)]
  BY <1>1, <1>2
<1>4. g.skb = f.id /\ g.seq = f.seq /\ g.last = 0 /\ g.msdu = one
  BY <1>1
<1> HIDE DEF g
<1>9. Len(g.msdu) = 1 /\ g.msdu[1] = f
  BY <1>1, <1>4
<1>6. \A i \in 1 .. Len(g.msdu) : i = 1 /\ g.msdu[i] = f
  BY <1>9
<1>7. g.msdu # <<>> /\ g.last = Len(g.msdu) - 1 /\ g.skb = g.msdu[1].id
  BY <1>1, <1>4
<1>8. \A i \in 1 .. Len(g.msdu) :
        g.msdu[i].seq = g.seq /\ g.msdu[i].frag = i - 1 /\ g.msdu[i].more
  BY <1>4, <1>6
<1>5. g \in Started
  BY <1>3, <1>7, <1>8 DEF Started
<1> QED BY <1>5 DEF g, zero, one

\* A fragment that continues extends what is in the buffer it finds.
LEMMA ContinuesStarted ==
    ASSUME fragFrame \in Started \cup {NoFragment}, fragFrame.skb # 0
    PROVE  fragFrame \in Started
BY DEF NoFragment

LEMMA ContinuesWell ==
    ASSUME fragFrame \in Started, NEW f \in RxFrame, Continues(f),
           NEW msdu, msdu = Append(fragFrame.msdu, f)
    PROVE  /\ msdu \in Seq(RxFrame) /\ msdu # <<>> /\ Len(msdu) = f.frag + 1
           /\ msdu[1] = fragFrame.msdu[1] /\ msdu[1].id = fragFrame.skb
           /\ ~f.more => Whole(msdu)
           /\ f.more => [fragFrame EXCEPT !.last = f.frag, !.msdu = msdu] \in Started
<1> DEFINE n == Len(fragFrame.msdu)
<1>1. /\ fragFrame.msdu \in Seq(RxFrame) /\ n \in Nat \ {0} /\ fragFrame.last = n - 1
      /\ fragFrame.skb = fragFrame.msdu[1].id
      /\ \A i \in 1 .. n : /\ fragFrame.msdu[i].seq = fragFrame.seq
                           /\ fragFrame.msdu[i].frag = i - 1 /\ fragFrame.msdu[i].more
  BY DEF Started
<1>2. /\ msdu \in Seq(RxFrame) /\ Len(msdu) = n + 1
      /\ \A i \in 1 .. n : msdu[i] = fragFrame.msdu[i]
      /\ msdu[n + 1] = f
  BY <1>1, AppendProperties
<1>3. f.frag = n /\ f.seq = fragFrame.seq
  BY <1>1 DEF Continues
<1>4. \A i \in 1 .. Len(msdu) : msdu[i].seq = fragFrame.seq /\ msdu[i].frag = i - 1
  BY <1>1, <1>2, <1>3
<1>5. \A i \in 1 .. n : msdu[i].more
  BY <1>1, <1>2
<1>6. msdu # <<>> /\ msdu[1] = fragFrame.msdu[1]
  BY <1>1, <1>2
<1>7. ASSUME ~f.more PROVE Whole(msdu)
  BY <1>1, <1>2, <1>4, <1>5, <1>6, <1>7 DEF Whole
<1>8. ASSUME f.more PROVE [fragFrame EXCEPT !.last = f.frag, !.msdu = msdu] \in Started
  <2> DEFINE g == [fragFrame EXCEPT !.last = f.frag, !.msdu = msdu]
  <2>1. g \in [skb : Skb, seq : Nat, last : Nat, msdu : Seq(RxFrame)]
    BY <1>1, <1>2, <1>3 DEF Started
  <2>2. g.skb = fragFrame.skb /\ g.seq = fragFrame.seq /\ g.last = f.frag /\ g.msdu = msdu
    BY DEF Started
  <2> HIDE DEF g
  <2>3. g.last = Len(g.msdu) - 1 /\ g.msdu # <<>> /\ g.skb = g.msdu[1].id
    BY <1>1, <1>2, <1>3, <1>6, <2>2
  <2>4. \A i \in 1 .. Len(g.msdu) :
            g.msdu[i].seq = g.seq /\ g.msdu[i].frag = i - 1 /\ g.msdu[i].more
    BY <1>1, <1>2, <1>4, <1>5, <1>8, <2>2
  <2>5. g \in Started
    BY <2>1, <2>3, <2>4 DEF Started
  <2> QED BY <2>5 DEF g
<1> QED BY <1>1, <1>2, <1>3, <1>6, <1>7, <1>8

\* What RxDataFrame may do with the frame at the head of the queue: it is released; it goes
\* up, whole or to the daemon; it is kept; it is released and what is kept released,
\* continued, or sent up; or it is nowhere, and nothing goes on.
Released(f) == FreeBuf({f.id}) /\ UNCHANGED <<fragFrame, delivered>>
SentUp(f) ==
    /\ (f.frag = 0 /\ ~f.more) \/ FirstForDaemon(<<f>>)
    /\ Deliver(<<f>>) /\ UNCHANGED <<fragFrame, buf>>
KeptFirst(f) ==
    /\ fragFrame' = [skb |-> f.id, seq |-> f.seq, last |-> 0, msdu |-> <<f>>]
    /\ f.frag = 0 /\ f.more /\ UNCHANGED <<delivered, buf>>
Continued(f) ==
    /\ Continues(f) /\ fragFrame.skb # 0 /\ f.more /\ FreeBuf({f.id}) /\ UNCHANGED delivered
    /\ fragFrame' = [fragFrame EXCEPT !.last = f.frag, !.msdu = Append(fragFrame.msdu, f)]
Completed(f) ==
    /\ Continues(f) /\ fragFrame.skb # 0 /\ ~f.more /\ FreeBuf({f.id})
    /\ fragFrame' = NoFragment /\ Deliver(Append(fragFrame.msdu, f))
Forgotten == UNCHANGED <<fragFrame, delivered, buf>>

Consumed(f) ==
    \/ Released(f) \/ SentUp(f) \/ KeptFirst(f) \/ GiveUpMsdu(f) \/ Continued(f)
    \/ Completed(f) \/ Forgotten

\* The link as a frame leaves it: MicErrCnt may have changed, and oops.
LinkKept == LinkInv' /\ rxLink'.eapol = rxLink.eapol

LEMMA MicErrorKept == ASSUME LinkInv, NEW within, ReportMicError(within) PROVE LinkKept
BY DEF LinkInv, LinkKept, ReportMicError

LEMMA DataFrameConsumed ==
    ASSUME RxInv, NEW f \in RxFrame, RxDataFrame(f) PROVE Consumed(f) /\ LinkKept
<1> USE DEF Consumed, Released, SentUp, KeptFirst, Continued, Completed, Forgotten
<1>0. f.more \in BOOLEAN /\ LinkInv
  BY DEF RxFrame, RxInv
<1>7. UNCHANGED rxLink => LinkKept
  BY <1>0 DEF LinkKept, LinkInv
<1>1. CASE ~rxLink.connected /\ FreeBuf({f.id}) /\ UNCHANGED <<fragFrame, delivered, rxLink>>
  BY <1>1, <1>7
<1>2. CASE f.kind = "bcast" /\ Deliver(<<f>>) /\ UNCHANGED <<fragFrame, buf, rxLink>>
  <2>1. f.frag = 0 /\ ~f.more
    BY <1>2 DEF RxFrame
  <2> QED BY <1>2, <1>7, <2>1
<1>3. CASE /\ IsEapol(f) /\ rxLink.eapol = "daemon"
           /\ Deliver(<<f>>) /\ UNCHANGED <<fragFrame, buf, rxLink>>
  <2>1. FirstForDaemon(<<f>>)
    BY <1>3 DEF FirstForDaemon
  <2> QED BY <1>3, <1>7, <2>1
<1>4. CASE FreeBuf({f.id}) /\ UNCHANGED <<fragFrame, delivered, rxLink>>
  BY <1>4, <1>7
<1>5. CASE f.frag = 0 /\ RxFirstFragment(f) /\ UNCHANGED rxLink
  BY <1>0, <1>5, <1>7 DEF RxFirstFragment
<1>6. CASE RxNextFragment(f)
  <2>1. CASE GiveUpMsdu(f) /\ UNCHANGED rxLink
    BY <1>7, <2>1
  <2>2. CASE GiveUpMsdu(f) /\ \E within \in BOOLEAN : ReportMicError(within)
    BY <1>0, <2>2, MicErrorKept
  <2>3. CASE rxLink' = [rxLink EXCEPT !.oops = TRUE] /\ UNCHANGED <<fragFrame, delivered, buf>>
    BY <1>0, <2>3 DEF LinkKept, LinkInv
  <2>4. CASE /\ Continues(f) /\ fragFrame.skb # 0 /\ f.more
             /\ fragFrame' = [fragFrame EXCEPT !.last = f.frag, !.msdu = Append(@, f)]
             /\ FreeBuf({f.id}) /\ UNCHANGED <<delivered, rxLink>>
    BY <1>7, <2>4
  <2>5. CASE /\ Continues(f) /\ fragFrame.skb # 0 /\ ~f.more
             /\ fragFrame' = NoFragment /\ Deliver(Append(fragFrame.msdu, f))
             /\ FreeBuf({f.id}) /\ UNCHANGED rxLink
    BY <1>7, <2>5
  <2> QED BY <1>6, <2>1, <2>2, <2>3, <2>4, <2>5 DEF RxNextFragment
<1> QED BY <1>1, <1>2, <1>3, <1>4, <1>5, <1>6 DEF RxDataFrame

LEMMA TaskletConsumes ==
    ASSUME RxInv, RxTasklet
    PROVE  /\ rxQueue # <<>> /\ Head(rxQueue) \in RxFrame /\ rxQueue' = Tail(rxQueue)
           /\ Consumed(Head(rxQueue)) /\ LinkKept /\ UNCHANGED <<rxRing, air>>
<1> DEFINE f == Head(rxQueue)
<1>1. rxQueue # <<>> /\ rxQueue' = Tail(rxQueue) /\ UNCHANGED <<rxRing, air>>
  BY DEF RxTasklet
<1>2. f \in RxFrame
  BY <1>1, HeadTailProperties DEF RxInv
<1>3. CASE ~f.mic
  <2>1. PICK within \in BOOLEAN : ReportMicError(within)
    BY <1>3 DEF RxTasklet
  <2>2. LinkKept
    BY <2>1, MicErrorKept DEF RxInv
  <2> QED BY <1>1, <1>2, <1>3, <2>2 DEF RxTasklet, Consumed, Released
<1>4. CASE f.mic /\ (Filtered(f) \/ Duplicate(f))
  BY <1>1, <1>2, <1>4 DEF RxTasklet, Consumed, Released, RxInv, LinkInv, LinkKept
<1>5. CASE f.mic /\ ~(Filtered(f) \/ Duplicate(f)) /\ f.kind = "mgmt"
  BY <1>1, <1>2, <1>5 DEF RxTasklet, Consumed, Released, RxInv, LinkInv, LinkKept
<1>6. CASE f.mic /\ ~(Filtered(f) \/ Duplicate(f)) /\ f.kind # "mgmt"
  <2>1. RxDataFrame(f)
    BY <1>6 DEF RxTasklet
  <2> QED BY <1>1, <1>2, <2>1, DataFrameConsumed
<1> QED BY <1>3, <1>4, <1>5, <1>6

LEMMA RxTaskletType == ASSUME RxInv, RxTasklet PROVE RxInv'
<1> DEFINE f == Head(rxQueue)
<1>1. /\ rxQueue # <<>> /\ f \in RxFrame /\ rxQueue' = Tail(rxQueue)
      /\ Consumed(f) /\ LinkKept /\ UNCHANGED <<rxRing, air>>
  BY TaskletConsumes
<1> HIDE DEF f
<1>2. rxQueue' \in Seq(RxFrame)
  BY <1>1, HeadTailProperties DEF RxInv
<1>3. buf' \in [Skb -> Nat] /\ fragFrame' \in Started \cup {NoFragment} /\ UpInv'
  <2> USE DEF RxInv
  <2>0. UNCHANGED delivered => UpInv'
    BY <1>1 DEF UpInv, LinkKept
  <2>1. CASE Released(f)
    BY <2>0, <2>1, FreeBufType DEF Released
  <2>2. CASE SentUp(f)
    <3>1. <<f>> \in Seq(RxFrame) /\ Proper(rxLink.eapol, <<f>>)
      BY <1>1, <2>2, SingleWhole DEF SentUp, Proper, FirstForDaemon
    <3> QED BY <1>1, <2>2, <3>1, DeliverWhole DEF SentUp, LinkKept
  <2>3. CASE KeptFirst(f)
    BY <1>1, <2>0, <2>3, FirstStarts DEF KeptFirst
  <2>4. CASE GiveUpMsdu(f)
    BY <2>0, <2>4, FreeBufType DEF GiveUpMsdu
  <2>5. CASE Continued(f)
    BY <1>1, <2>0, <2>5, FreeBufType, ContinuesStarted, ContinuesWell DEF Continued
  <2>6. CASE Completed(f)
    BY <1>1, <2>6, FreeBufType, ContinuesStarted, ContinuesWell, DeliverWhole DEF Completed,
       LinkKept, Proper
  <2>7. CASE Forgotten
    BY <2>0, <2>7 DEF Forgotten
  <2> QED BY <1>1, <2>1, <2>2, <2>3, <2>4, <2>5, <2>6, <2>7 DEF Consumed
<1> QED BY <1>1, <1>2, <1>3 DEF RxInv, RingInv, LinkKept

LEMMA CloseRxType == ASSUME RxInv, CloseRx PROVE RxInv'
<1>1. RingInv'
  <2>1. 0 \in Cells
    BY RxAssumption DEF Cells
  <2> QED BY <2>1 DEF CloseRx, RxInv, RingInv
<1>2. rxQueue' \in Seq(RxFrame) /\ UpInv' /\ UNCHANGED <<fragFrame, air>>
  BY DEF CloseRx, RxInv, UpInv, LinkInv
<1>4. LinkInv'
  BY DEF CloseRx, RxInv, LinkInv
<1>3. buf' \in [Skb -> Nat]
  BY FreeBufType DEF CloseRx, RxInv
<1> QED BY <1>1, <1>2, <1>3, <1>4 DEF RxInv

LEMMA RxInitInv == RxInit => RxInv
<1> SUFFICES ASSUME RxInit PROVE RxInv
  OBVIOUS
<1>1. RingInv
  <2>1. 0 \in Cells
    BY RxAssumption DEF Cells
  <2> QED BY <2>1 DEF RxInit, RingInv, Cells
<1>2. LinkInv /\ UpInv /\ rxQueue \in Seq(RxFrame) /\ fragFrame = NoFragment
  BY RxAssumption DEF RxInit, LinkInv, UpInv
<1>3. buf \in [Skb -> Nat] /\ air \in Air
  <2>1. PICK seq \in FirstSeqs, k \in 1 .. MaxMsduFrags, e \in BOOLEAN :
            air = [seq |-> seq, n |-> 1, frag |-> 0, frags |-> k, eapol |-> e, retry |-> FALSE,
                   sent |-> 0]
    BY DEF RxInit, MaybeEapol
  <2>2. seq \in Nat /\ k \in Nat
    BY RxAssumption
  <2> QED BY <2>1, <2>2 DEF RxInit, Air
<1> QED BY <1>1, <1>2, <1>3 DEF RxInv

LEMMA RxStep == RxInv /\ [RxNext]_rxVars => RxInv'
<1> SUFFICES ASSUME RxInv, [RxNext]_rxVars PROVE RxInv'
  OBVIOUS
<1>1. CASE ApGivesUpMsdu
  BY <1>1, NewMsduType DEF ApGivesUpMsdu, RxInv, RingInv, LinkInv, UpInv
<1>2. CASE SwitchLink
  BY <1>2 DEF SwitchLink, RxInv, RingInv, LinkInv, UpInv
<1>3. CASE UNCHANGED rxVars
  BY <1>3 DEF rxVars, RxInv, RingInv, LinkInv, UpInv
<1> QED BY <1>1, <1>2, <1>3, ApSendsFragmentType, ApSendsOtherType, RxDoneInterruptType,
          RxTaskletType, CloseRxType DEF RxNext

LEMMA RxWholeInv == RxInv => DeliveredWhole /\ BufferWhenContinued
<1> SUFFICES ASSUME RxInv PROVE DeliveredWhole /\ BufferWhenContinued
  OBVIOUS
<1>1. DeliveredWhole
  <2> SUFFICES ASSUME NEW k \in DOMAIN delivered, ~FirstForDaemon(delivered[k])
               PROVE  /\ \A i \in DOMAIN delivered[k] : /\ delivered[k][i].seq = delivered[k][1].seq
                                                        /\ delivered[k][i].frag = i - 1
                      /\ \A i \in DOMAIN delivered[k] :
                            delivered[k][i].more <=> i < Len(delivered[k])
    BY DEF DeliveredWhole
  <2>1. k \in 1 .. Len(delivered) /\ delivered[k] \in Seq(RxFrame)
    BY DEF RxInv, UpInv
  <2>2. Whole(delivered[k]) /\ DOMAIN delivered[k] = 1 .. Len(delivered[k])
    BY <2>1 DEF RxInv, UpInv, Proper, FirstForDaemon
  <2> QED BY <2>2 DEF Whole
<1>2. BufferWhenContinued
  <2> SUFFICES ASSUME NEW i \in DOMAIN rxQueue, Continues(rxQueue[i])
               PROVE  LET f == rxQueue[i]  msdu == fragFrame.msdu
                      IN  IF fragFrame.skb = 0 THEN f.seq = 0 /\ f.frag = 1
                          ELSE /\ Len(msdu) = f.frag
                               /\ \A j \in 1 .. f.frag :
                                    msdu[j].seq = f.seq /\ msdu[j].frag = j - 1 /\ msdu[j].more
    BY DEF BufferWhenContinued
  <2>1. rxQueue[i] \in RxFrame /\ fragFrame \in Started \cup {NoFragment}
    BY DEF RxInv
  <2>2. CASE fragFrame = NoFragment
    BY <2>1, <2>2 DEF Continues, NoFragment
  <2>3. CASE fragFrame \in Started
    <3>1. /\ fragFrame.skb # 0 /\ fragFrame.msdu \in Seq(RxFrame)
          /\ Len(fragFrame.msdu) = fragFrame.last + 1
          /\ \A j \in 1 .. Len(fragFrame.msdu) :
                /\ fragFrame.msdu[j].seq = fragFrame.seq
                /\ fragFrame.msdu[j].frag = j - 1 /\ fragFrame.msdu[j].more
      BY <2>3, NoFrameIsNone DEF Started
    <3> QED BY <3>1 DEF Continues
  <2> QED BY <2>1, <2>2, <2>3
<1> QED BY <1>1, <1>2

\* Whatever is lost, repeated, dropped or reordered with other traffic, and whenever the
\* link goes down or the interface closes, what goes up is all fragments of one MSDU;
\* the daemon alone may be given the first fragment of an EAPOL frame.
THEOREM WholeMsdusGoUp == RxSpec => []DeliveredWhole
<1> QED BY RxInitInv, RxStep, RxWholeInv, PTL DEF RxSpec

\* A fragment that RxNextFragment takes for the next one finds all fragments before it, for
\* any numbers the AP starts from; or it is the second fragment of the MSDU numbered 0.
THEOREM FragmentsFindABuffer == RxSpec => []BufferWhenContinued
<1> QED BY RxInitInv, RxStep, RxWholeInv, PTL DEF RxSpec

---------------------------------------------------------------------------
(* Where a buffer is *)

OnRing(id) == \E i \in Cells : rxRing.cell[i].id = id
Queued(id) == \E i \in 1 .. Len(rxQueue) : rxQueue[i].id = id
Held(id) == fragFrame.skb = id
WentUp(id) == \E k \in 1 .. Len(delivered) : delivered[k][1].id = id

\* In one place at most, and nowhere before the chip received it.
Apart(id) ==
    /\ OnRing(id) => ~Queued(id) /\ ~Held(id) /\ ~WentUp(id) /\ buf[id] = 0
    /\ Queued(id) => ~Held(id) /\ ~WentUp(id) /\ buf[id] = 0
    /\ Held(id) => ~WentUp(id) /\ buf[id] = 0
    /\ WentUp(id) => buf[id] = 0
    /\ buf[id] <= 1
    /\ id > air.sent => /\ ~OnRing(id) /\ ~Queued(id) /\ ~Held(id) /\ ~WentUp(id)
                       /\ buf[id] = 0

\* And once in that place.
RingOnce == \A i, j \in Cells :
    rxRing.cell[i].id = rxRing.cell[j].id /\ rxRing.cell[i].id # 0 => i = j
QueueOnce == \A i, j \in 1 .. Len(rxQueue) : rxQueue[i].id = rxQueue[j].id => i = j
UpOnce == \A j, k \in 1 .. Len(delivered) : delivered[j][1].id = delivered[k][1].id => j = k

BufInv == RingOnce /\ QueueOnce /\ UpOnce /\ \A id \in Skb : Apart(id)

LEMMA StoreOnce ==
    ASSUME RxInv, BufInv, NEW f \in RxFrame, f.id = air.sent + 1, Store(f)
    PROVE  RingOnce' /\ \A id \in Skb : OnRing(id)' => OnRing(id) \/ id = f.id
<1>1. f.id \in Skb /\ f.id > air.sent
  BY DEF RxFrame, RxInv, Air
<1>2. ~OnRing(f.id)
  BY <1>1 DEF BufInv, Apart
<1>3. rxRing \in [cell : [Cells -> RxFrame \cup {NoFrame}], cur : Cells, nic : Cells]
  BY DEF RxInv, RingInv
<1>4. CASE UNCHANGED rxRing
  BY <1>4 DEF BufInv, RingOnce, OnRing
<1>5. CASE rxRing'.cell = [rxRing.cell EXCEPT ![rxRing.nic] = f]
  BY <1>2, <1>3, <1>5 DEF BufInv, RingOnce, OnRing
<1> QED BY <1>3, <1>4, <1>5 DEF Store

LEMMA AirFrameId ==
    \A kind, frag, more, retry, mic :
        AirFrame(kind, frag, more, retry, mic).id = air.sent + 1
BY DEF AirFrame

\* A frame that is stored leaves all other buffers where they are.
LEMMA StoreApart ==
    ASSUME RxInv, BufInv, NEW f \in RxFrame, f.id = air.sent + 1,
           Store(f) \/ UNCHANGED rxRing, air' \in Air, air'.sent = air.sent + 1,
           UNCHANGED <<rxQueue, fragFrame, delivered, buf>>
    PROVE  BufInv'
<1>1. RingOnce' /\ \A id \in Skb : OnRing(id)' => OnRing(id) \/ id = f.id
  <2>1. CASE Store(f)
    BY <2>1, StoreOnce
  <2>2. CASE UNCHANGED rxRing
    BY <2>2 DEF BufInv, RingOnce, OnRing
  <2> QED BY <2>1, <2>2
<1>2. QueueOnce' /\ UpOnce'
  BY DEF BufInv, QueueOnce, UpOnce
<1>3. ASSUME NEW id \in Skb PROVE Apart(id)'
  <2>1. /\ Queued(id)' = Queued(id) /\ Held(id)' = Held(id) /\ WentUp(id)' = WentUp(id)
        /\ buf'[id] = buf[id]
    BY DEF Queued, Held, WentUp
  <2>2. Apart(id) /\ id \in Int /\ air.sent \in Nat
    BY <1>3 DEF BufInv, Skb, RxInv, Air
  <2> QED BY <1>1, <1>3, <2>1, <2>2 DEF Apart
<1> QED BY <1>1, <1>2, <1>3 DEF BufInv

LEMMA ApSendsFragmentApart == ASSUME RxInv, BufInv, ApSendsFragment PROVE BufInv'
<1>1. PICK heard \in BOOLEAN, acked \in BOOLEAN, mic \in BOOLEAN :
        LET last == air.frag = air.frags - 1
            f == AirFrame(IF air.eapol THEN "eapol" ELSE "data", air.frag, ~last, air.retry, mic)
            sent == [air EXCEPT !.sent = @ + 1]
        IN  /\ MaySend
            /\ IF heard THEN Store(f) ELSE UNCHANGED rxRing
            /\ \/ ~acked /\ air' = [sent EXCEPT !.retry = TRUE]
               \/ acked /\ ~last /\ air' = [sent EXCEPT !.retry = FALSE, !.frag = @ + 1]
               \/ acked /\ last /\ NewMsdu(sent)
  BY DEF ApSendsFragment
<1>2. UNCHANGED <<rxQueue, fragFrame, rxLink, delivered, buf>>
  BY DEF ApSendsFragment
<1> DEFINE kind == IF air.eapol THEN "eapol" ELSE "data"
           more == ~(air.frag = air.frags - 1)
           f == AirFrame(kind, air.frag, more, air.retry, mic)
           sent == [air EXCEPT !.sent = @ + 1]
<1>3. f \in RxFrame
  <2>1. kind \in {"data", "eapol"} /\ more \in BOOLEAN /\ air.frag \in Nat /\ air.retry \in BOOLEAN
    BY DEF RxInv, Air
  <2> HIDE DEF kind, more
  <2> QED BY <1>1, <2>1, AirFrameType
<1>4. sent \in Air /\ sent.sent = air.sent + 1
  BY DEF RxInv, Air
<1>5. air' \in Air
  BY ApSendsFragmentType DEF RxInv
<1>6. air'.sent = air.sent + 1
  <2> HIDE DEF sent
  <2>1. CASE air' = [sent EXCEPT !.retry = TRUE]
    BY <1>4, <2>1 DEF Air
  <2>2. CASE air' = [sent EXCEPT !.retry = FALSE, !.frag = @ + 1]
    BY <1>4, <2>2 DEF Air
  <2>3. CASE NewMsdu(sent)
    BY <1>4, <2>3, NewMsduType
  <2> QED BY <1>1, <2>1, <2>2, <2>3 DEF sent
<1>7. f.id = air.sent + 1
  BY AirFrameId
<1>8. Store(f) \/ UNCHANGED rxRing
  BY <1>1
<1> HIDE DEF f
<1> QED BY <1>2, <1>3, <1>5, <1>6, <1>7, <1>8, StoreApart

LEMMA ApSendsOtherApart == ASSUME RxInv, BufInv, ApSendsOther PROVE BufInv'
<1>1. PICK kind \in {"cntl", "bcast", "mgmt"} :
        Store([AirFrame(kind, 0, FALSE, FALSE, TRUE) EXCEPT !.seq = SeqSpace])
  BY DEF ApSendsOther
<1>2. /\ UNCHANGED <<rxQueue, fragFrame, rxLink, delivered, buf>>
      /\ air' = [air EXCEPT !.sent = @ + 1] /\ MaySend
  BY DEF ApSendsOther
<1> DEFINE f == AirFrame(kind, 0, FALSE, FALSE, TRUE)
           g == [f EXCEPT !.seq = SeqSpace]
<1>3. f \in RxFrame /\ f.id = air.sent + 1
  BY <1>1, <1>2, AirFrameType, AirFrameId
<1>4. g \in RxFrame /\ g.id = air.sent + 1
  <2>1. SeqSpace \in Nat
    BY RxAssumption
  <2> HIDE DEF f
  <2>2. g \in RxFrame
    BY <1>3, <2>1 DEF RxFrame
  <2>3. g.id = f.id
    BY <1>3 DEF RxFrame
  <2> QED BY <1>3, <2>2, <2>3
<1>5. air' \in Air /\ air'.sent = air.sent + 1
  <2> DEFINE sent == [air EXCEPT !.sent = @ + 1]
  <2>1. sent \in Air /\ sent.sent = air.sent + 1
    BY DEF RxInv, Air
  <2>2. air' = sent
    BY <1>2
  <2> HIDE DEF sent
  <2> QED BY <2>1, <2>2
<1>6. Store(g)
  BY <1>1
<1> HIDE DEF g
<1> QED BY <1>2, <1>4, <1>5, <1>6, StoreApart

\* A frame that joins a queue it is not in.
LEMMA AppendOnce ==
    ASSUME rxQueue \in Seq(RxFrame), QueueOnce, NEW f \in RxFrame, ~Queued(f.id),
           rxQueue' = Append(rxQueue, f)
    PROVE  QueueOnce' /\ \A id \in Skb : Queued(id)' => Queued(id) \/ id = f.id
<1>1. /\ Len(rxQueue) \in Nat /\ Len(rxQueue') = Len(rxQueue) + 1
      /\ \A k \in 1 .. Len(rxQueue) : rxQueue'[k] = rxQueue[k]
      /\ rxQueue'[Len(rxQueue) + 1] = f
  BY AppendProperties
<1> QED BY <1>1 DEF QueueOnce, Queued

LEMMA RxDoneInterruptApart == ASSUME RxInv, BufInv, RxDoneInterrupt PROVE BufInv'
<1> DEFINE f == rxRing.cell[rxRing.cur]
<1>1. f \in RxFrame /\ f.id # 0 /\ f.id \in Skb /\ OnRing(f.id)
  BY NoFrameIsNone DEF RxInv, RingInv, RxDoneInterrupt, RxFrame, OnRing
<1>2. rxRing \in [cell : [Cells -> RxFrame \cup {NoFrame}], cur : Cells, nic : Cells]
  BY DEF RxInv, RingInv
<1>3. rxRing'.cell = [rxRing.cell EXCEPT ![rxRing.cur] = NoFrame]
  BY <1>2 DEF RxDoneInterrupt
<1>4. RingOnce' /\ \A id \in Skb : OnRing(id)' => OnRing(id) /\ id # f.id
  BY <1>1, <1>2, <1>3, NoFrameIsNone DEF BufInv, RingOnce, OnRing
<1>5. UNCHANGED <<fragFrame, delivered, buf, air>>
  BY DEF RxDoneInterrupt
<1>6. rxQueue' = rxQueue \/ rxQueue' = Append(rxQueue, f)
  BY DEF RxDoneInterrupt
<1>7. ~Queued(f.id)
  BY <1>1 DEF BufInv, Apart
<1> HIDE DEF f
<1>8. QueueOnce' /\ \A id \in Skb : Queued(id)' => Queued(id) \/ id = f.id
  BY <1>1, <1>6, <1>7, AppendOnce DEF RxInv, BufInv, QueueOnce, Queued
<1>9. ASSUME NEW id \in Skb PROVE Apart(id)'
  <2>1. /\ Held(id)' = Held(id) /\ WentUp(id)' = WentUp(id) /\ buf'[id] = buf[id]
        /\ air' = air
    BY <1>5 DEF Held, WentUp
  <2>2. Apart(id) /\ Apart(f.id)
    BY <1>1, <1>9 DEF BufInv
  <2> QED BY <1>1, <1>4, <1>8, <1>9, <2>1, <2>2 DEF Apart
<1> QED BY <1>4, <1>5, <1>8, <1>9 DEF BufInv, UpOnce

LEMMA TailOnce ==
    ASSUME rxQueue \in Seq(RxFrame), QueueOnce, rxQueue # <<>>, rxQueue' = Tail(rxQueue)
    PROVE  /\ QueueOnce' /\ Queued(Head(rxQueue).id)
           /\ \A id \in Skb : Queued(id)' => Queued(id) /\ id # Head(rxQueue).id
<1>1. /\ Len(rxQueue) \in Nat \ {0} /\ Len(rxQueue') = Len(rxQueue) - 1
      /\ \A k \in 1 .. Len(rxQueue') : rxQueue'[k] = rxQueue[k + 1]
      /\ Head(rxQueue) = rxQueue[1]
  BY HeadTailProperties
<1> QED BY <1>1 DEF QueueOnce, Queued

LEMMA DeliverOnce ==
    ASSUME UpInv, UpOnce, NEW msdu \in Seq(RxFrame), ~WentUp(msdu[1].id), Deliver(msdu)
    PROVE  UpOnce' /\ \A id \in Skb : WentUp(id)' => WentUp(id) \/ id = msdu[1].id
<1>1. /\ Len(delivered) \in Nat /\ Len(delivered') = Len(delivered) + 1
      /\ \A k \in 1 .. Len(delivered) : delivered'[k] = delivered[k]
      /\ delivered'[Len(delivered) + 1] = msdu
  BY AppendProperties DEF Deliver, UpInv
<1> QED BY <1>1 DEF UpOnce, WentUp

LEMMA FreeBufEach ==
    ASSUME buf \in [Skb -> Nat], NEW ids, FreeBuf(ids), NEW id \in Skb
    PROVE  buf'[id] = IF id \in ids THEN buf[id] + 1 ELSE buf[id]
BY DEF FreeBuf

LEMMA RxTaskletApart == ASSUME RxInv, BufInv, RxTasklet PROVE BufInv'
<1> DEFINE f == Head(rxQueue)
<1>1. /\ rxQueue # <<>> /\ f \in RxFrame /\ rxQueue' = Tail(rxQueue)
      /\ Consumed(f) /\ UNCHANGED <<rxRing, air>>
  BY TaskletConsumes
<1>2. /\ QueueOnce' /\ Queued(f.id)
      /\ \A id \in Skb : Queued(id)' => Queued(id) /\ id # f.id
  BY <1>1, TailOnce DEF RxInv, BufInv
<1> HIDE DEF f
<1>3. f.id \in Skb /\ f.id # 0 /\ 0 \notin Skb
  BY <1>1, NoFrameIsNone DEF RxFrame
<1>4. RingOnce' /\ \A id \in Skb : OnRing(id)' = OnRing(id)
  BY <1>1 DEF BufInv, RingOnce, OnRing
<1>5. Apart(f.id) /\ ~WentUp(f.id) /\ ~Held(f.id) /\ ~OnRing(f.id) /\ buf[f.id] = 0
  BY <1>2, <1>3 DEF BufInv, Apart
<1>6. buf \in [Skb -> Nat] /\ UpInv
  BY DEF RxInv
\* It is enough to say what becomes of this frame and of the buffer that was kept.
<1>7. SUFFICES /\ UpOnce'
               /\ \A id \in Skb :
                    /\ buf'[id] = (IF id = f.id \/ Held(id) THEN 1 ELSE buf[id]) \/ buf'[id] = buf[id]
                    /\ Held(id)' => (Held(id) \/ id = f.id) /\ buf'[id] = buf[id]
                    /\ WentUp(id)' => /\ WentUp(id) \/ Held(id) \/ id = f.id
                                      /\ buf'[id] = buf[id] /\ ~Held(id)'
  <2>1. ASSUME NEW id \in Skb PROVE Apart(id)'
    <3>1. Apart(id) /\ air' = air /\ buf[id] \in Nat
      BY <1>1, <1>6, <2>1 DEF BufInv
    <3> QED BY <1>2, <1>3, <1>4, <1>5, <1>7, <2>1, <3>1 DEF Apart
  <2> QED BY <1>2, <1>4, <1>7, <2>1 DEF BufInv
<1>8. ASSUME UNCHANGED delivered PROVE UpOnce' /\ \A id \in Skb : WentUp(id)' = WentUp(id)
  BY <1>8 DEF BufInv, UpOnce, WentUp
<1>9. \A id \in Skb : Apart(id) /\ buf[id] \in Nat
  BY <1>6 DEF BufInv
<1>10. CASE Released(f)
  <2>1. \A id \in Skb : buf'[id] = IF id = f.id THEN buf[id] + 1 ELSE buf[id]
    BY <1>6, <1>10, FreeBufEach DEF Released
  <2>2. \A id \in Skb : Held(id)' = Held(id) /\ WentUp(id)' = WentUp(id)
    BY <1>8, <1>10 DEF Released, Held
  <2> QED BY <1>5, <1>8, <1>9, <1>10, <2>1, <2>2 DEF Released, Apart
<1>11. CASE SentUp(f)
  <2>1. <<f>> \in Seq(RxFrame) /\ <<f>>[1] = f
    BY <1>1
  <2>2. UpOnce' /\ \A id \in Skb : WentUp(id)' => WentUp(id) \/ id = f.id
    BY <1>5, <1>6, <1>11, <2>1, DeliverOnce DEF SentUp, BufInv
  <2>3. \A id \in Skb : Held(id)' = Held(id) /\ buf'[id] = buf[id]
    BY <1>11 DEF SentUp, Held
  <2> QED BY <1>5, <1>9, <2>2, <2>3 DEF Apart
<1>12. CASE KeptFirst(f)
  <2>1. \A id \in Skb : Held(id)' = (id = f.id)
    BY <1>12 DEF KeptFirst, Held
  <2>2. \A id \in Skb : buf'[id] = buf[id] /\ WentUp(id)' = WentUp(id)
    BY <1>8, <1>12 DEF KeptFirst
  <2> QED BY <1>5, <1>8, <1>9, <1>12, <2>1, <2>2 DEF KeptFirst, Apart
<1>13. CASE GiveUpMsdu(f)
  <2>1. \A id \in Skb : buf'[id] = IF id = f.id \/ Held(id) THEN buf[id] + 1 ELSE buf[id]
    BY <1>3, <1>6, <1>13, FreeBufEach DEF GiveUpMsdu, Held
  <2>2. \A id \in Skb : ~Held(id)' /\ WentUp(id)' = WentUp(id)
    BY <1>3, <1>8, <1>13 DEF GiveUpMsdu, Held, NoFragment
  <2> QED BY <1>5, <1>8, <1>9, <1>13, <2>1, <2>2 DEF GiveUpMsdu, Apart
<1>14. CASE Continued(f)
  <2>1. \A id \in Skb : buf'[id] = IF id = f.id THEN buf[id] + 1 ELSE buf[id]
    BY <1>6, <1>14, FreeBufEach DEF Continued
  <2>2. fragFrame'.skb = fragFrame.skb
    BY <1>14, ContinuesStarted DEF Continued, Started, RxInv
  <2>3. \A id \in Skb : Held(id)' = Held(id) /\ WentUp(id)' = WentUp(id)
    BY <1>8, <1>14, <2>2 DEF Continued, Held
  <2> QED BY <1>5, <1>8, <1>9, <1>14, <2>1, <2>3 DEF Continued, Apart
<1>15. CASE Completed(f)
  <2> DEFINE msdu == Append(fragFrame.msdu, f)
  <2>7. fragFrame \in Started /\ fragFrame.skb \in Skb
    BY <1>1, <1>15, ContinuesStarted DEF Completed, RxInv, Started
  <2>1. msdu \in Seq(RxFrame) /\ msdu[1].id = fragFrame.skb /\ fragFrame.skb \in Skb
    <3>1. Continues(f) /\ msdu = Append(fragFrame.msdu, f)
      BY <1>15 DEF Completed
    <3> HIDE DEF msdu
    <3>2. msdu \in Seq(RxFrame) /\ msdu[1].id = fragFrame.skb
      BY <1>1, <2>7, <3>1, ContinuesWell
    <3> QED BY <2>7, <3>2
  <2>2. ~WentUp(msdu[1].id)
    BY <1>9, <2>1 DEF Apart, Held
  <2>3. Deliver(msdu)
    BY <1>15 DEF Completed
  <2> HIDE DEF msdu
  <2>4. UpOnce' /\ \A id \in Skb : WentUp(id)' => WentUp(id) \/ Held(id)
    BY <1>6, <2>1, <2>2, <2>3, DeliverOnce DEF BufInv, Held
  <2>5. \A id \in Skb : buf'[id] = IF id = f.id THEN buf[id] + 1 ELSE buf[id]
    BY <1>6, <1>15, FreeBufEach DEF Completed
  <2>6. \A id \in Skb : ~Held(id)'
    BY <1>3, <1>15 DEF Completed, Held, NoFragment
  <2> QED BY <1>5, <1>9, <2>4, <2>5, <2>6 DEF Apart
<1>16. CASE Forgotten
  <2>1. \A id \in Skb : /\ buf'[id] = buf[id] /\ Held(id)' = Held(id)
                        /\ WentUp(id)' = WentUp(id)
    BY <1>8, <1>16 DEF Forgotten, Held
  <2> QED BY <1>8, <1>9, <1>16, <2>1 DEF Forgotten, Apart
<1> QED BY <1>1, <1>10, <1>11, <1>12, <1>13, <1>14, <1>15, <1>16 DEF Consumed

LEMMA CloseRxApart == ASSUME RxInv, BufInv, CloseRx PROVE BufInv'
<1>1. \A i \in Cells : rxRing'.cell[i] = NoFrame
  BY DEF CloseRx, RxInv, RingInv
<1>2. RingOnce' /\ \A id \in Skb : ~OnRing(id)'
  BY <1>1, NoFrameIsNone DEF RingOnce, OnRing
<1>3. rxQueue' = <<>> /\ UNCHANGED <<fragFrame, delivered, air>>
  BY DEF CloseRx
<1>4. QueueOnce' /\ UpOnce' /\ \A id \in Skb : ~Queued(id)'
  BY <1>3 DEF QueueOnce, Queued, UpOnce, BufInv
<1>5. ASSUME NEW id \in Skb PROVE Apart(id)'
  <2>1. buf'[id] = IF Queued(id) THEN buf[id] + 1 ELSE buf[id]
    <3> DEFINE ids == {rxQueue[i].id : i \in DOMAIN rxQueue}
    <3>1. FreeBuf(ids) /\ buf \in [Skb -> Nat] /\ DOMAIN rxQueue = 1 .. Len(rxQueue)
      BY DEF CloseRx, RxInv
    <3>2. id \in ids <=> Queued(id)
      BY <3>1 DEF Queued
    <3> HIDE DEF ids
    <3> QED BY <1>5, <3>1, <3>2, FreeBufEach
  <2>2. /\ Held(id)' = Held(id) /\ WentUp(id)' = WentUp(id)
        /\ air' = air
    BY <1>3 DEF Held, WentUp
  <2>3. Apart(id) /\ buf[id] \in Nat
    BY <1>5 DEF BufInv, RxInv
  <2> QED BY <1>2, <1>4, <1>5, <2>1, <2>2, <2>3 DEF Apart
<1> QED BY <1>2, <1>4, <1>5 DEF BufInv

\* Steps that move no buffer.
LEMMA SameApart ==
    ASSUME BufInv, UNCHANGED <<rxRing, rxQueue, fragFrame, delivered, buf>>,
           air'.sent = air.sent
    PROVE  BufInv'
<1>1. RingOnce' /\ QueueOnce' /\ UpOnce'
  BY DEF BufInv, RingOnce, QueueOnce, UpOnce
<1>2. ASSUME NEW id \in Skb PROVE Apart(id)'
  <2>1. /\ OnRing(id)' = OnRing(id) /\ Queued(id)' = Queued(id) /\ Held(id)' = Held(id)
        /\ WentUp(id)' = WentUp(id) /\ buf'[id] = buf[id]
    BY DEF OnRing, Queued, Held, WentUp
  <2> QED BY <1>2, <2>1 DEF Apart, BufInv
<1> QED BY <1>1, <1>2 DEF BufInv

LEMMA BufStep == RxInv /\ BufInv /\ [RxNext]_rxVars => BufInv'
<1> SUFFICES ASSUME RxInv, BufInv, [RxNext]_rxVars PROVE BufInv'
  OBVIOUS
<1>1. CASE ApGivesUpMsdu
  BY <1>1, NewMsduType, SameApart DEF ApGivesUpMsdu, RxInv
<1>2. CASE SwitchLink
  BY <1>2, SameApart DEF SwitchLink
<1>3. CASE UNCHANGED rxVars
  BY <1>3, SameApart DEF rxVars
<1> QED BY <1>1, <1>2, <1>3, ApSendsFragmentApart, ApSendsOtherApart, RxDoneInterruptApart,
          RxTaskletApart, CloseRxApart DEF RxNext

LEMMA BufInit == RxInit => BufInv
<1> SUFFICES ASSUME RxInit PROVE BufInv
  OBVIOUS
<1>1. \A i \in Cells : rxRing.cell[i] = NoFrame
  BY DEF RxInit, Cells
<1>2. rxQueue = <<>> /\ delivered = <<>> /\ fragFrame.skb = 0 /\ buf = [i \in Skb |-> 0]
  BY DEF RxInit, NoFragment
<1>3. RingOnce /\ QueueOnce /\ UpOnce
  BY <1>1, <1>2, NoFrameIsNone DEF RingOnce, QueueOnce, UpOnce
<1>4. ASSUME NEW id \in Skb
      PROVE  ~OnRing(id) /\ ~Queued(id) /\ ~Held(id) /\ ~WentUp(id) /\ buf[id] = 0
  BY <1>1, <1>2, <1>4, NoFrameIsNone DEF OnRing, Queued, Held, WentUp
<1> QED BY <1>3, <1>4 DEF BufInv, Apart

LEMMA AtMostOne ==
    ASSUME NEW S, \A x, y \in S : x = y
    PROVE  Cardinality(S) = IF S = {} THEN 0 ELSE 1
<1>1. CASE S = {}
  BY <1>1, FS_EmptySet
<1>2. CASE S # {}
  <2>1. PICK x \in S : TRUE
    BY <1>2
  <2>2. S = {x}
    BY <2>1
  <2> QED BY <2>2, FS_Singleton
<1> QED BY <1>1, <1>2

LEMMA BufTwice == RxInv /\ BufInv => NoBufferTwice
<1> SUFFICES ASSUME RxInv, BufInv, NEW id \in Skb PROVE InUse(id) <= 1
  BY DEF NoBufferTwice
<1> DEFINE ring == {i \in DOMAIN rxRing.cell : rxRing.cell[i].id = id}
           queue == {i \in DOMAIN rxQueue : rxQueue[i].id = id}
           up == {k \in DOMAIN delivered : delivered[k][1].id = id}
<1>1. /\ DOMAIN rxRing.cell = Cells /\ DOMAIN rxQueue = 1 .. Len(rxQueue)
      /\ DOMAIN delivered = 1 .. Len(delivered) /\ id # 0
  BY NoFrameIsNone DEF RxInv, RingInv, UpInv
<1>2. /\ ring # {} <=> OnRing(id)
      /\ queue # {} <=> Queued(id)
      /\ up # {} <=> WentUp(id)
  BY <1>1 DEF OnRing, Queued, WentUp
<1>3. /\ \A x, y \in ring : x = y
      /\ \A x, y \in queue : x = y
      /\ \A x, y \in up : x = y
  BY <1>1 DEF BufInv, RingOnce, QueueOnce, UpOnce
<1>4. InUse(id) = Cardinality(ring) + Cardinality(queue) + (IF Held(id) THEN 1 ELSE 0)
                  + Cardinality(up) + buf[id]
  BY DEF InUse, Held
<1> HIDE DEF ring, queue, up
<1>5. /\ Cardinality(ring) = IF OnRing(id) THEN 1 ELSE 0
      /\ Cardinality(queue) = IF Queued(id) THEN 1 ELSE 0
      /\ Cardinality(up) = IF WentUp(id) THEN 1 ELSE 0
  <2>1. Cardinality(ring) = IF ring = {} THEN 0 ELSE 1
    BY <1>3, AtMostOne
  <2>2. Cardinality(queue) = IF queue = {} THEN 0 ELSE 1
    BY <1>3, AtMostOne
  <2>3. Cardinality(up) = IF up = {} THEN 0 ELSE 1
    BY <1>3, AtMostOne
  <2> QED BY <1>2, <2>1, <2>2, <2>3
<1>6. buf[id] \in Nat /\ Apart(id)
  BY DEF RxInv, BufInv
<1> QED BY <1>4, <1>5, <1>6 DEF Apart

\* A buffer is on the ring, in RxQueue, in FragFrame, with the network stack or released,
\* and released once, whatever the order of interrupts, tasklet and close.
THEOREM BuffersAreInOnePlace == RxSpec => []NoBufferTwice
<1>1. RxInit => RxInv /\ BufInv
  BY RxInitInv, BufInit
<1>2. RxInv /\ BufInv /\ [RxNext]_rxVars => (RxInv /\ BufInv)'
  BY RxStep, BufStep
<1> QED BY <1>1, <1>2, BufTwice, PTL DEF RxSpec
=============================================================================
