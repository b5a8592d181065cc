---------------------------- MODULE TxPathProofs ----------------------------
(***************************************************************************)
(* Proofs about the transmit path, for rings of any size, packets of any   *)
(* number of fragments, on one processor and on SMP.                       *)
(***************************************************************************)
EXTENDS TxPathProps, FiniteSetTheorems, SequenceTheorems, TLAPS

---------------------------------------------------------------------------
(* Positions on a ring *)

Slots == 0 .. TxRingSize - 1

\* k descriptors after d, and how many descriptors after d slot c is.
Nth(d, k) == IF d + k < TxRingSize THEN d + k ELSE d + k - TxRingSize
Off(d, c) == IF c >= d THEN c - d ELSE c + TxRingSize - d

LEMMA ModNth ==
    \A d \in Slots, k \in 0 .. TxRingSize :
        (d + k) % TxRingSize = Nth(d, k) /\ Nth(d, k) \in Slots
BY TxRingAssumption DEF Slots, Nth

LEMMA OffNth ==
    /\ \A d, c \in Slots : Off(d, c) \in Slots /\ Nth(d, Off(d, c)) = c
    /\ \A d, k \in Slots : Off(d, Nth(d, k)) = k
    /\ \A d \in Slots : Nth(d, 0) = d /\ Nth(d, TxRingSize) = d
BY TxRingAssumption DEF Slots, Nth, Off

\* The window of n descriptors from d on has n elements.
LEMMA CountWindow ==
    ASSUME NEW d \in Slots, NEW n \in 0 .. TxRingSize
    PROVE  /\ IsFiniteSet({c \in Slots : Off(d, c) < n})
           /\ Cardinality({c \in Slots : Off(d, c) < n}) = n
<1> DEFINE W == {c \in Slots : Off(d, c) < n}
<1>1. CASE d + n <= TxRingSize
  <2>1. W = d .. d + n - 1
    BY <1>1, TxRingAssumption DEF Slots, Off
  <2>2. Cardinality(d .. d + n - 1) = n /\ IsFiniteSet(d .. d + n - 1)
    BY FS_Interval, TxRingAssumption DEF Slots
  <2> QED BY <2>1, <2>2
<1>2. CASE d + n > TxRingSize
  <2> DEFINE A == d .. TxRingSize - 1
             B == 0 .. d + n - TxRingSize - 1
  <2>1. W = A \cup B /\ A \cap B = {}
    BY <1>2, TxRingAssumption DEF Slots, Off
  <2>2. Cardinality(A) = TxRingSize - d /\ IsFiniteSet(A)
    BY FS_Interval, TxRingAssumption DEF Slots
  <2>3. Cardinality(B) = d + n - TxRingSize /\ IsFiniteSet(B)
    BY <1>2, FS_Interval, TxRingAssumption DEF Slots
  <2>4. IsFiniteSet(A \cup B)
        /\ Cardinality(A \cup B) = Cardinality(A) + Cardinality(B) - Cardinality(A \cap B)
    BY <2>2, <2>3, FS_Union
  <2>5. Cardinality(A \cap B) = 0
    BY <2>1, FS_EmptySet
  <2> HIDE DEF A, B, W
  <2>6. IsFiniteSet(W) /\ Cardinality(W) = n
    BY <2>1, <2>2, <2>3, <2>4, <2>5, TxRingAssumption DEF Slots
  <2> QED BY <2>6 DEF W
<1> QED BY <1>1, <1>2, TxRingAssumption DEF Slots

---------------------------------------------------------------------------
(* A ring *)

Id == Ids \cup {None}
Kinds == {"none", "protect", "null", "mgmt", "data", "eapol"}
Cell == [own : {"HOST", "NIC"}, wait : BOOLEAN, skb : Id, next : Id, kind : Kinds]
Ring == [cell : [Slots -> Cell], cur : Slots, done : Slots, nic : Slots, run : BOOLEAN]

\* n descriptors wait from done to cur; the NIC is through with the first m of them.  Only
\* a descriptor that waits holds buffers.
Divided(r, n, m) ==
    /\ n \in 0 .. TxRingSize /\ m \in 0 .. n
    /\ r.cur = Nth(r.done, n) /\ r.nic = Nth(r.done, m)
    /\ \A c \in Slots :
        /\ r.cell[c].wait <=> Off(r.done, c) < n
        /\ r.cell[c].own = "NIC" <=> m <= Off(r.done, c) /\ Off(r.done, c) < n
        /\ ~r.cell[c].wait => r.cell[c].skb = None /\ r.cell[c].next = None

GoodRing(r) == r \in Ring /\ \E n, m \in 0 .. TxRingSize : Divided(r, n, m)

LEMMA SkbsOf ==
    ASSUME NEW r \in Ring, NEW id
    PROVE  id \in Skbs(r) <=>
             id # None /\ \E c \in Slots : r.cell[c].skb = id \/ r.cell[c].next = id
<1> DEFINE S == {{r.cell[c].skb, r.cell[c].next} : c \in DOMAIN r.cell}
<1>1. DOMAIN r.cell = Slots
  BY DEF Ring
<1>2. id \in UNION S <=> \E c \in Slots : r.cell[c].skb = id \/ r.cell[c].next = id
  <2>1. id \in UNION S <=> \E x \in S : id \in x
    OBVIOUS
  <2>2. (\E x \in S : id \in x) <=> \E c \in DOMAIN r.cell : id \in {r.cell[c].skb, r.cell[c].next}
    OBVIOUS
  <2> QED BY <1>1, <2>1, <2>2
<1>3. id \in Skbs(r) <=> id # None /\ id \in UNION S
  BY DEF Skbs
<1> HIDE DEF S
<1> QED BY <1>2, <1>3

LEMMA FreeCellType == /\ FreeCell \in Cell /\ ~FreeCell.wait /\ FreeCell.own = "HOST"
                      /\ FreeCell.skb = None /\ FreeCell.next = None
BY DEF FreeCell, Cell, Id, Kinds

LEMMA EmptyRingGood == GoodRing(EmptyRing) /\ Skbs(EmptyRing) = {}
<1>1. EmptyRing \in Ring
  BY FreeCellType, TxRingAssumption DEF EmptyRing, Ring, Slots
<1>2. Divided(EmptyRing, 0, 0)
  BY FreeCellType, OffNth, TxRingAssumption DEF Divided, EmptyRing, Slots
<1>3. \A id : id \notin Skbs(EmptyRing)
  BY <1>1, SkbsOf, FreeCellType DEF EmptyRing, Slots
<1> QED BY <1>1, <1>2, <1>3, TxRingAssumption DEF GoodRing

\* The NIC is started or stopped.
LEMMA RunGood ==
    ASSUME NEW r, GoodRing(r), NEW b \in BOOLEAN
    PROVE  /\ GoodRing([r EXCEPT !.run = b])
           /\ Skbs([r EXCEPT !.run = b]) = Skbs(r)
           /\ [r EXCEPT !.run = b].cell = r.cell
<1> DEFINE s == [r EXCEPT !.run = b]
<1>1. s \in Ring /\ s.cell = r.cell /\ s.cur = r.cur /\ s.done = r.done /\ s.nic = r.nic
  BY DEF GoodRing, Ring
<1> HIDE DEF s
<1>2. PICK n \in 0 .. TxRingSize, m \in 0 .. TxRingSize : Divided(r, n, m)
  BY DEF GoodRing
<1>3. Divided(s, n, m)
  BY <1>1, <1>2 DEF Divided
<1>4. Skbs(s) = Skbs(r)
  BY <1>1 DEF Skbs
<1> QED BY <1>1, <1>3, <1>4 DEF GoodRing, s

LEMMA IncNth ==
    ASSUME NEW d \in Slots, NEW k \in 0 .. TxRingSize - 1
    PROVE  Inc(Nth(d, k)) = Nth(d, k + 1) /\ Nth(d, k + 1) \in Slots
BY TxRingAssumption DEF Inc, Nth, Slots

\* A single frame.
LEMMA WriteGood ==
    ASSUME NEW r, GoodRing(r), Usable(r), NEW kind \in Kinds, NEW skb \in Id
    PROVE  /\ GoodRing(Write(r, kind, skb))
           /\ Skbs(Write(r, kind, skb)) = Skbs(r) \cup ({skb} \ {None})
           /\ \A c \in Slots : Write(r, kind, skb).cell[c].kind \in {r.cell[c].kind, kind}
<1> DEFINE f == [FreeCell EXCEPT !.own = "NIC", !.wait = TRUE, !.skb = skb, !.kind = kind]
           w == Write(r, kind, skb)
<1>1. PICK n \in 0 .. TxRingSize, m \in 0 .. TxRingSize : Divided(r, n, m)
  BY DEF GoodRing
<1>2. r \in Ring
  BY DEF GoodRing
<1>3. f \in Cell /\ f.own = "NIC" /\ f.wait /\ f.skb = skb /\ f.next = None /\ f.kind = kind
  <2> DEFINE yes == TRUE  nic == "NIC"
  <2>1. f = [FreeCell EXCEPT !.own = nic, !.wait = yes, !.skb = skb, !.kind = kind]
    OBVIOUS
  <2>2. nic \in {"HOST", "NIC"} /\ yes \in BOOLEAN
    OBVIOUS
  <2>3. nic = "NIC" /\ yes = TRUE
    OBVIOUS
  <2> HIDE DEF f, yes, nic
  <2>4. f \in Cell
    BY <2>1, <2>2, FreeCellType DEF Cell
  <2>5. f.own = nic /\ f.wait = yes /\ f.skb = skb /\ f.next = FreeCell.next /\ f.kind = kind
    BY <2>1, FreeCellType DEF Cell
  <2> QED BY <2>3, <2>4, <2>5, FreeCellType
<1>4. n < TxRingSize
  <2> SUFFICES ASSUME n = TxRingSize PROVE FALSE
    BY TxRingAssumption
  <2>1. r.cur = r.done
    BY <1>1, <1>2, OffNth DEF Divided, Ring
  <2>2. r.cell[r.cur].wait
    BY <1>1, <1>2, <2>1, TxRingAssumption DEF Divided, Ring, Off, Slots
  <2> QED BY <2>2 DEF Usable
<1>5. w = [r EXCEPT !.cell[r.cur] = f, !.cur = Inc(r.cur)]
  BY DEF Write
<1>6. Inc(r.cur) = Nth(r.done, n + 1) /\ Inc(r.cur) \in Slots
  BY <1>1, <1>2, <1>4, IncNth, TxRingAssumption DEF Divided, Ring
<1> HIDE DEF f, w
<1>7. /\ w \in Ring /\ w.cur = Inc(r.cur) /\ w.done = r.done /\ w.nic = r.nic
      /\ \A c \in Slots : w.cell[c] = IF c = r.cur THEN f ELSE r.cell[c]
  BY <1>2, <1>3, <1>5, <1>6 DEF Ring
<1>8. r.cur \in Slots /\ Off(r.done, r.cur) = n
  BY <1>1, <1>2, <1>4, OffNth, TxRingAssumption DEF Divided, Ring, Slots
<1>9. \A c \in Slots : Off(r.done, c) = n => c = r.cur
  BY <1>1, <1>2, OffNth DEF Divided, Ring
<1>10. Divided(w, n + 1, m)
  <2>1. n + 1 \in 0 .. TxRingSize /\ m \in 0 .. n + 1
    BY <1>1, <1>4, TxRingAssumption DEF Divided
  <2>2. w.cur = Nth(w.done, n + 1) /\ w.nic = Nth(w.done, m)
    BY <1>1, <1>6, <1>7 DEF Divided
  <2>3. ASSUME NEW c \in Slots
        PROVE  /\ w.cell[c].wait <=> Off(w.done, c) < n + 1
               /\ w.cell[c].own = "NIC" <=> m <= Off(w.done, c) /\ Off(w.done, c) < n + 1
               /\ ~w.cell[c].wait => w.cell[c].skb = None /\ w.cell[c].next = None
    <3>1. Off(r.done, c) \in Slots
      BY <1>2, OffNth DEF Ring
    <3>2. CASE c = r.cur
      BY <1>1, <1>3, <1>7, <1>8, <3>2 DEF Divided
    <3>3. CASE c # r.cur
      <4>1. Off(r.done, c) # n /\ w.cell[c] = r.cell[c]
        BY <1>7, <1>9, <3>3
      <4>2. Off(r.done, c) < n + 1 <=> Off(r.done, c) < n
        BY <3>1, <4>1, TxRingAssumption DEF Slots
      <4> QED BY <1>1, <1>7, <4>1, <4>2 DEF Divided
    <3> QED BY <3>2, <3>3
  <2> QED BY <2>1, <2>2, <2>3 DEF Divided
<1>11. ASSUME NEW id PROVE id \in Skbs(w) <=> id \in Skbs(r) \cup ({skb} \ {None})
  <2>1. r.cell[r.cur].skb = None /\ r.cell[r.cur].next = None
    BY <1>1, <1>8 DEF Divided
  <2> QED BY <1>2, <1>3, <1>7, <1>8, <2>1, SkbsOf
<1>12. n + 1 \in 0 .. TxRingSize
  BY <1>4, TxRingAssumption
<1> QED BY <1>3, <1>7, <1>10, <1>11, <1>12 DEF GoodRing, w

\* The free descriptors are those after the window.
LEMMA RoomIs ==
    ASSUME NEW r \in Ring, NEW n \in 0 .. TxRingSize, NEW m, Divided(r, n, m)
    PROVE  Room(r) = TxRingSize - n
<1> DEFINE P(k) == /\ k = TxRingSize \/ r.cell[At(r, k)].wait
                   /\ \A i \in 0 .. k - 1 : ~r.cell[At(r, i)].wait
<1>1. r.done \in Slots /\ r.cur = Nth(r.done, n) /\ r.cur \in Slots
  BY DEF Divided, Ring
<1>2. \A c \in Slots : r.cell[c].wait <=> Off(r.done, c) < n
  BY DEF Divided
<1>3. \A i \in Slots : /\ At(r, i) \in Slots
                       /\ Off(r.done, At(r, i)) = IF n + i < TxRingSize THEN n + i
                                                 ELSE n + i - TxRingSize
  <2>1. \A i \in Slots : At(r, i) = Nth(r.cur, i) /\ Nth(r.cur, i) \in Slots
    BY <1>1, ModNth, TxRingAssumption DEF At, Slots
  <2>2. \A i \in Slots : Off(r.done, Nth(r.cur, i)) = IF n + i < TxRingSize THEN n + i
                                                     ELSE n + i - TxRingSize
    BY <1>1, TxRingAssumption DEF Nth, Off, Slots
  <2> QED BY <2>1, <2>2
<1>4. \A i \in Slots : r.cell[At(r, i)].wait <=> i >= TxRingSize - n
  BY <1>2, <1>3, TxRingAssumption DEF Slots
<1>5. P(TxRingSize - n)
  BY <1>4, TxRingAssumption DEF Slots
<1>6. ASSUME NEW k \in 0 .. TxRingSize, P(k) PROVE k = TxRingSize - n
  BY <1>4, <1>6, TxRingAssumption DEF Slots
<1>7. Room(r) = CHOOSE k \in 0 .. TxRingSize : P(k)
  BY DEF Room
<1>8. TxRingSize - n \in 0 .. TxRingSize
  BY TxRingAssumption
<1> HIDE DEF P
<1> QED BY <1>5, <1>6, <1>7, <1>8

LEMMA OffShift ==
    ASSUME NEW d \in Slots, NEW c \in Slots, NEW n \in 0 .. TxRingSize,
           NEW k \in 0 .. TxRingSize - n
    PROVE  /\ Off(Nth(d, n), c) < k <=> n <= Off(d, c) /\ Off(d, c) < n + k
           /\ n + k \in 0 .. TxRingSize /\ Nth(Nth(d, n), k) = Nth(d, n + k)
BY TxRingAssumption DEF Slots, Off, Nth

Packet == [id : Id, frags : Nat \ {0}, eapol : BOOLEAN]
KindOf(p) == IF p.eapol THEN "eapol" ELSE "data"

\* The fragments of a packet, or as many as there are descriptors for: the buffers are on
\* the ring when all of them are.
LEMMA FragmentsGood ==
    ASSUME NEW r, GoodRing(r), NEW p \in Packet, NEW next \in Packet
    PROVE  /\ GoodRing(WriteFragments(r, p, next))
           /\ Skbs(WriteFragments(r, p, next)) =
                IF Room(r) >= p.frags THEN Skbs(r) \cup ({p.id, next.id} \ {None}) ELSE Skbs(r)
           /\ \A c \in Slots :
                WriteFragments(r, p, next).cell[c].kind \in {r.cell[c].kind, KindOf(p)}
<1>1. PICK n \in 0 .. TxRingSize, m \in 0 .. TxRingSize : Divided(r, n, m)
  BY DEF GoodRing
<1>2. r \in Ring
  BY DEF GoodRing
<1>3. Room(r) = TxRingSize - n
  BY <1>1, <1>2, RoomIs
<1> DEFINE fits == IF p.frags <= Room(r) THEN p.frags ELSE Room(r)
           skb(i) == IF i = p.frags - 1 THEN p.id ELSE None
           nxt(i) == IF i = p.frags - 1 THEN next.id ELSE None
           F(i) == [own |-> "NIC", wait |-> TRUE, skb |-> skb(i), next |-> nxt(i),
                    kind |-> KindOf(p)]
           I(c) == Off(r.cur, c)
           w == WriteFragments(r, p, next)
<1>4. p.frags \in Nat \ {0} /\ p.id \in Id /\ next.id \in Id /\ p.eapol \in BOOLEAN
  BY DEF Packet
<1>5. fits \in 0 .. TxRingSize - n /\ (Room(r) >= p.frags <=> fits >= p.frags) /\ fits <= p.frags
      /\ fits \in 0 .. TxRingSize
  BY <1>3, <1>4, TxRingAssumption
<1>6. w = [r EXCEPT !.cur = At(r, fits),
             !.cell = [c \in DOMAIN @ |->
                IF \E i \in 0 .. fits - 1 : At(r, i) = c
                THEN F(CHOOSE i \in 0 .. fits - 1 : At(r, i) = c) ELSE @[c]]]
  BY DEF WriteFragments, KindOf
<1>7. \A i \in 0 .. TxRingSize : At(r, i) = Nth(r.cur, i) /\ Nth(r.cur, i) \in Slots
  BY <1>2, ModNth DEF At, Ring
<1>8. \A i \in Int : F(i) \in Cell
  <2> SUFFICES ASSUME NEW i \in Int PROVE F(i) \in Cell
    OBVIOUS
  <2> DEFINE yes == TRUE  nic == "NIC"  kind == KindOf(p)
  <2>1. skb(i) \in Id /\ nxt(i) \in Id
    BY <1>4 DEF Id
  <2>2. kind \in Kinds /\ nic \in {"HOST", "NIC"} /\ yes \in BOOLEAN
    BY DEF KindOf, Kinds
  <2>3. F(i) = [own |-> nic, wait |-> yes, skb |-> skb(i), next |-> nxt(i), kind |-> kind]
    OBVIOUS
  <2> HIDE DEF yes, nic, skb, nxt, kind, F
  <2> QED BY <2>1, <2>2, <2>3 DEF Cell
<1>9. \A i \in Int : /\ F(i).own = "NIC" /\ F(i).wait /\ F(i).skb = skb(i)
                     /\ F(i).next = nxt(i) /\ F(i).kind = KindOf(p)
  OBVIOUS
<1> HIDE DEF F, w
<1>10. \A c \in Slots : I(c) \in Slots /\ Nth(r.cur, I(c)) = c
  BY <1>2, OffNth DEF Ring
<1>11. ASSUME NEW c \in Slots
       PROVE  /\ (\E i \in 0 .. fits - 1 : At(r, i) = c) <=> I(c) < fits
              /\ I(c) < fits => (CHOOSE i \in 0 .. fits - 1 : At(r, i) = c) = I(c)
  <2> HIDE DEF fits
  <2>1. \A i \in 0 .. fits - 1 : At(r, i) = c <=> i = I(c)
    <3> SUFFICES ASSUME NEW i \in 0 .. fits - 1 PROVE At(r, i) = c <=> i = I(c)
      OBVIOUS
    <3>1. i \in Slots /\ i \in 0 .. TxRingSize
      BY <1>5, TxRingAssumption DEF Slots
    <3>2. At(r, i) = Nth(r.cur, i) /\ Off(r.cur, Nth(r.cur, i)) = i
      BY <1>2, <1>7, <3>1, OffNth DEF Ring
    <3> QED BY <1>10, <3>2
  <2>2. I(c) < fits <=> I(c) \in 0 .. fits - 1
    BY <1>5, <1>10 DEF Slots
  <2> QED BY <2>1, <2>2
<1> HIDE DEF fits, I
<1>12. \A c \in Slots : w.cell[c] = IF I(c) < fits THEN F(I(c)) ELSE r.cell[c]
  <2>1. DOMAIN r.cell = Slots
    BY <1>2 DEF Ring
  <2>2. w.cell = [c \in Slots |->
                IF \E i \in 0 .. fits - 1 : At(r, i) = c
                THEN F(CHOOSE i \in 0 .. fits - 1 : At(r, i) = c) ELSE r.cell[c]]
    BY <1>2, <1>6, <2>1 DEF Ring
  <2> QED BY <1>11, <2>2
<1>13. /\ w \in Ring /\ w.cur = Nth(r.cur, fits) /\ w.done = r.done /\ w.nic = r.nic
  <2>1. At(r, fits) = Nth(r.cur, fits) /\ Nth(r.cur, fits) \in Slots
    BY <1>5, <1>7
  <2> DEFINE g == [c \in DOMAIN r.cell |->
                IF \E i \in 0 .. fits - 1 : At(r, i) = c
                THEN F(CHOOSE i \in 0 .. fits - 1 : At(r, i) = c) ELSE r.cell[c]]
  <2>3. DOMAIN g = Slots
    BY <1>2 DEF Ring
  <2>4. w = [r EXCEPT !.cur = At(r, fits), !.cell = g]
    BY <1>6
  <2> HIDE DEF g
  <2>5. w.cell = g
    BY <1>2, <2>4 DEF Ring
  <2>6. g \in [Slots -> Cell]
    <3>1. ASSUME NEW c \in Slots PROVE g[c] \in Cell
      <4>1. r.cell[c] \in Cell
        BY <1>2 DEF Ring
      <4>3. I(c) \in Int
        BY <1>10 DEF Slots
      <4>2. g[c] = IF I(c) < fits THEN F(I(c)) ELSE r.cell[c]
        BY <1>12, <2>5
      <4> QED BY <1>8, <4>1, <4>2, <4>3
    <3>2. g = [c \in Slots |-> g[c]]
      BY <2>3 DEF g
    <3> QED BY <3>1, <3>2
  <2> QED BY <1>2, <2>1, <2>4, <2>6 DEF Ring
<1>14. /\ n + fits \in 0 .. TxRingSize /\ w.cur = Nth(w.done, n + fits)
       /\ \A c \in Slots : I(c) < fits <=> n <= Off(r.done, c) /\ Off(r.done, c) < n + fits
  BY <1>1, <1>2, <1>5, <1>13, OffShift DEF Divided, Ring, I
<1>15. Divided(w, n + fits, m)
  <2>1. m \in 0 .. n + fits /\ w.nic = Nth(w.done, m)
    BY <1>1, <1>5, <1>13 DEF Divided
  <2>2. ASSUME NEW c \in Slots
        PROVE  /\ w.cell[c].wait <=> Off(w.done, c) < n + fits
               /\ w.cell[c].own = "NIC" <=> m <= Off(w.done, c) /\ Off(w.done, c) < n + fits
               /\ ~w.cell[c].wait => w.cell[c].skb = None /\ w.cell[c].next = None
    <3>1. Off(r.done, c) \in Nat /\ I(c) \in Int
      BY <1>2, <1>10, OffNth DEF Ring, Slots
    <3>2. CASE I(c) < fits
      BY <1>1, <1>9, <1>12, <1>13, <1>14, <3>1, <3>2 DEF Divided
    <3>3. CASE ~(I(c) < fits)
      <4>1. w.cell[c] = r.cell[c] /\ (Off(r.done, c) < n + fits <=> Off(r.done, c) < n)
        BY <1>5, <1>12, <1>14, <3>1, <3>3
      <4> QED BY <1>1, <1>13, <4>1 DEF Divided
    <3> QED BY <3>2, <3>3
  <2> QED BY <1>14, <2>1, <2>2 DEF Divided
<1>16. \A c \in Slots : I(c) < fits => r.cell[c].skb = None /\ r.cell[c].next = None
  <2>1. \A c \in Slots : Off(r.done, c) \in Nat
    BY <1>2, OffNth DEF Ring, Slots
  <2> QED BY <1>1, <1>14, <2>1 DEF Divided
<1>17. ASSUME NEW id
       PROVE  id \in Skbs(w) <=>
                id \in Skbs(r) \/ (Room(r) >= p.frags /\ id # None /\ id \in {p.id, next.id})
  <2>1. id \in Skbs(w) <=> id # None /\ \E c \in Slots : w.cell[c].skb = id \/ w.cell[c].next = id
    BY <1>13, SkbsOf
  <2>2. id \in Skbs(r) <=> id # None /\ \E c \in Slots : r.cell[c].skb = id \/ r.cell[c].next = id
    BY <1>2, SkbsOf
  <2>3. \A c \in Slots : I(c) < fits =>
            w.cell[c].skb = skb(I(c)) /\ w.cell[c].next = nxt(I(c)) /\ I(c) \in Nat
    BY <1>9, <1>10, <1>12 DEF Slots
  <2>4. \A c \in Slots : ~(I(c) < fits) => w.cell[c] = r.cell[c]
    BY <1>12
  <2>5. ASSUME Room(r) >= p.frags
        PROVE  \E c \in Slots : I(c) < fits /\ I(c) = p.frags - 1
    <3>1. p.frags - 1 \in Slots /\ p.frags - 1 < fits
      BY <1>1, <1>4, <1>5, <2>5, TxRingAssumption DEF Slots
    <3>2. Nth(r.cur, p.frags - 1) \in Slots /\ I(Nth(r.cur, p.frags - 1)) = p.frags - 1
      <4> DEFINE k == p.frags - 1
      <4>1. k \in Slots /\ k \in 0 .. TxRingSize /\ r.cur \in Slots
        BY <1>2, <3>1, TxRingAssumption DEF Ring, Slots
      <4> HIDE DEF k
      <4>2. Nth(r.cur, k) \in Slots /\ Off(r.cur, Nth(r.cur, k)) = k
        BY <1>7, <4>1, OffNth
      <4> QED BY <4>2 DEF k, I
    <3> QED BY <3>1, <3>2
  <2>6. ASSUME ~(Room(r) >= p.frags), NEW c \in Slots, I(c) < fits
        PROVE  I(c) # p.frags - 1
    BY <1>4, <1>5, <1>10, <2>6 DEF Slots
  <2>7. CASE Room(r) >= p.frags
    BY <1>16, <2>1, <2>2, <2>3, <2>4, <2>5, <2>7
  <2>8. CASE ~(Room(r) >= p.frags)
    BY <1>16, <2>1, <2>2, <2>3, <2>4, <2>6, <2>8
  <2> QED BY <2>7, <2>8
<1>18. \A c \in Slots : w.cell[c].kind \in {r.cell[c].kind, KindOf(p)}
  BY <1>9, <1>10, <1>12 DEF Slots
<1>19. GoodRing(w)
  BY <1>1, <1>13, <1>14, <1>15 DEF GoodRing
<1>20. Skbs(w) = IF Room(r) >= p.frags THEN Skbs(r) \cup ({p.id, next.id} \ {None}) ELSE Skbs(r)
  BY <1>17
<1> QED BY <1>18, <1>19, <1>20 DEF w

\* The NIC hands the next descriptor back.
LEMMA NicGood ==
    ASSUME NEW r, GoodRing(r), r.cell[r.nic].own = "NIC",
           NEW w, w = [r EXCEPT !.cell[r.nic].own = "HOST", !.nic = Inc(@)]
    PROVE  /\ GoodRing(w) /\ Skbs(w) = Skbs(r)
           /\ \A c \in Slots : w.cell[c].kind = r.cell[c].kind
<1>1. PICK n \in 0 .. TxRingSize, m \in 0 .. TxRingSize : Divided(r, n, m)
  BY DEF GoodRing
<1>2. r \in Ring
  BY DEF GoodRing
<1>3. m < n /\ m < TxRingSize /\ r.nic \in Slots /\ Off(r.done, r.nic) = m
  <2>1. m # TxRingSize
    <3> SUFFICES ASSUME m = TxRingSize PROVE FALSE
      OBVIOUS
    <3>1. r.nic = r.done /\ Off(r.done, r.done) = 0
      BY <1>1, <1>2, OffNth DEF Divided, Ring, Off, Slots
    <3> QED BY <1>1, <1>2, <3>1, TxRingAssumption DEF Divided, Ring
  <2>2. r.nic \in Slots /\ Off(r.done, r.nic) = m
    BY <1>1, <1>2, <2>1, OffNth, TxRingAssumption DEF Divided, Ring, Slots
  <2> QED BY <1>1, <2>1, <2>2, TxRingAssumption DEF Divided
<1>4. Inc(r.nic) = Nth(r.done, m + 1) /\ Inc(r.nic) \in Slots
  BY <1>1, <1>2, <1>3, IncNth, TxRingAssumption DEF Divided, Ring
<1> DEFINE host == "HOST"
           f == [r.cell[r.nic] EXCEPT !.own = host]
<1>5. f \in Cell /\ f.own = "HOST" /\ f.wait = r.cell[r.nic].wait /\ f.skb = r.cell[r.nic].skb
      /\ f.next = r.cell[r.nic].next /\ f.kind = r.cell[r.nic].kind
  <2>1. host \in {"HOST", "NIC"} /\ host = "HOST" /\ r.cell[r.nic] \in Cell
    BY <1>2, <1>3 DEF Ring
  <2> HIDE DEF host
  <2> QED BY <2>1 DEF Cell
<1>6. w = [r EXCEPT !.cell[r.nic] = f, !.nic = Inc(r.nic)]
  BY <1>2 DEF Ring
<1> HIDE DEF f
<1>7. /\ w \in Ring /\ w.cur = r.cur /\ w.done = r.done /\ w.nic = Inc(r.nic)
      /\ \A c \in Slots : w.cell[c] = IF c = r.nic THEN f ELSE r.cell[c]
  <2> DEFINE g == [r.cell EXCEPT ![r.nic] = f]
  <2>1. g \in [Slots -> Cell] /\ \A c \in Slots : g[c] = IF c = r.nic THEN f ELSE r.cell[c]
    BY <1>2, <1>3, <1>5 DEF Ring
  <2>2. w = [r EXCEPT !.cell = g, !.nic = Inc(r.nic)]
    BY <1>2, <1>6 DEF Ring
  <2> HIDE DEF g
  <2>3. w \in Ring /\ w.cur = r.cur /\ w.done = r.done /\ w.nic = Inc(r.nic) /\ w.cell = g
    BY <1>2, <1>4, <2>1, <2>2 DEF Ring
  <2> QED BY <2>1, <2>3
<1>8. Divided(w, n, m + 1)
  <2>1. ASSUME NEW c \in Slots
        PROVE  /\ w.cell[c].wait <=> Off(w.done, c) < n
               /\ w.cell[c].own = "NIC" <=> m + 1 <= Off(w.done, c) /\ Off(w.done, c) < n
               /\ ~w.cell[c].wait => w.cell[c].skb = None /\ w.cell[c].next = None
    <3>1. Off(r.done, c) \in Nat
      BY <1>2, OffNth DEF Ring, Slots
    <3>2. CASE c = r.nic
      BY <1>1, <1>3, <1>5, <1>7, <3>2 DEF Divided
    <3>3. CASE c # r.nic
      <4>1. Off(r.done, c) # m
        BY <1>1, <1>2, <3>3, OffNth DEF Divided, Ring
      <4> QED BY <1>1, <1>7, <3>1, <3>3, <4>1 DEF Divided
    <3> QED BY <3>2, <3>3
  <2>2. m + 1 \in 0 .. n
    BY <1>1, <1>3
  <2> QED BY <1>1, <1>4, <1>7, <2>1, <2>2 DEF Divided
<1>9. ASSUME NEW id PROVE id \in Skbs(w) <=> id \in Skbs(r)
  <2>1. \A c \in Slots : w.cell[c].skb = r.cell[c].skb /\ w.cell[c].next = r.cell[c].next
    BY <1>5, <1>7
  <2>2. id \in Skbs(w) <=> id # None /\ \E c \in Slots : w.cell[c].skb = id \/ w.cell[c].next = id
    BY <1>7, SkbsOf
  <2>3. id \in Skbs(r) <=> id # None /\ \E c \in Slots : r.cell[c].skb = id \/ r.cell[c].next = id
    BY <1>2, SkbsOf
  <2> QED BY <2>1, <2>2, <2>3
<1>10. \A c \in Slots : w.cell[c].kind = r.cell[c].kind
  BY <1>5, <1>7
<1>11. m + 1 \in 0 .. TxRingSize
  BY <1>3, TxRingAssumption
<1> QED BY <1>7, <1>8, <1>9, <1>10, <1>11 DEF GoodRing

\* The interrupt reclaims what the NIC is through with.
LEMMA ReclaimGood ==
    ASSUME NEW r, GoodRing(r)
    PROVE  /\ GoodRing(Reclaim(r)) /\ Skbs(Reclaim(r)) \subseteq Skbs(r)
           /\ \A c \in Slots : Reclaim(r).cell[c].kind \in {r.cell[c].kind, "none"}
<1>1. PICK n \in 0 .. TxRingSize, m \in 0 .. TxRingSize : Divided(r, n, m)
  BY DEF GoodRing
<1>2. r \in Ring /\ DOMAIN r.cell = Slots
  BY DEF GoodRing, Ring
<1>3. \A c \in Slots : Off(r.done, c) \in Slots /\ Nth(r.done, Off(r.done, c)) = c
  BY <1>2, OffNth DEF Ring
<1>4. \A c \in Slots : c \in Sent(r) <=> Off(r.done, c) < m
  <2> SUFFICES ASSUME NEW c \in Slots PROVE c \in Sent(r) <=> Off(r.done, c) < m
    OBVIOUS
  <2>1. r.cell[c].own \in {"HOST", "NIC"}
    BY <1>2 DEF Ring, Cell
  <2>3. Off(r.done, c) \in Nat
    BY <1>3 DEF Slots
  <2>2. c \in Sent(r) <=> r.cell[c].wait /\ r.cell[c].own = "HOST"
    BY <1>2 DEF Sent
  <2> QED BY <1>1, <2>1, <2>2, <2>3 DEF Divided
<1> DEFINE done == {c \in Slots : Off(r.done, c) < m}
<1>5. DonePrefix(r) = done
  <2> DEFINE P == {k \in 0 .. TxRingSize - 1 :
                    \A j \in 0 .. k : (r.done + j) % TxRingSize \in Sent(r)}
  <2>1. \A j \in Slots : /\ (r.done + j) % TxRingSize = Nth(r.done, j)
                         /\ Nth(r.done, j) \in Slots /\ Off(r.done, Nth(r.done, j)) = j
    <3>1. r.done \in Slots
      BY <1>2 DEF Ring
    <3>2. Slots \subseteq 0 .. TxRingSize
      BY TxRingAssumption DEF Slots
    <3> QED BY <3>1, <3>2, ModNth, OffNth
  <2>2. \A j \in Slots : (r.done + j) % TxRingSize \in Sent(r) <=> j < m
    BY <1>4, <2>1
  <2>3. \A k \in Slots : k \in P <=> k < m
    BY <1>1, <2>2, TxRingAssumption DEF Slots
  <2>4. P \subseteq Slots
    BY DEF Slots
  <2>5. DonePrefix(r) = {(r.done + i) % TxRingSize : i \in P}
    BY DEF DonePrefix
  <2> HIDE DEF P
  <2>6. ASSUME NEW c PROVE c \in DonePrefix(r) <=> c \in done
    <3>1. ASSUME c \in DonePrefix(r) PROVE c \in done
      <4>1. PICK i \in P : c = (r.done + i) % TxRingSize
        BY <2>5, <3>1
      <4> QED BY <2>1, <2>3, <2>4, <4>1
    <3>2. ASSUME c \in done PROVE c \in DonePrefix(r)
      <4>1. Off(r.done, c) \in P /\ c = (r.done + Off(r.done, c)) % TxRingSize
        BY <1>3, <2>1, <2>3, <3>2
      <4> QED BY <2>5, <4>1
    <3> QED BY <3>1, <3>2
  <2> QED BY <2>6
<1>6. Cardinality(done) = m
  BY <1>2, CountWindow DEF Ring
<1> DEFINE w == Reclaim(r)
<1>7. (r.done + m) % TxRingSize = Nth(r.done, m) /\ Nth(r.done, m) \in Slots
  BY <1>2, ModNth DEF Ring
<1>8. w = [r EXCEPT !.done = Nth(r.done, m),
                    !.cell = [c \in Slots |-> IF c \in done THEN FreeCell ELSE r.cell[c]]]
  BY <1>2, <1>5, <1>6, <1>7 DEF Reclaim
<1> HIDE DEF w
<1>9. /\ w \in Ring /\ w.cur = r.cur /\ w.done = Nth(r.done, m) /\ w.nic = r.nic
      /\ \A c \in Slots : w.cell[c] = IF Off(r.done, c) < m THEN FreeCell ELSE r.cell[c]
  <2> DEFINE g == [c \in Slots |-> IF c \in done THEN FreeCell ELSE r.cell[c]]
  <2>1. g \in [Slots -> Cell]
    BY <1>2, FreeCellType DEF Ring
  <2>2. \A c \in Slots : g[c] = IF Off(r.done, c) < m THEN FreeCell ELSE r.cell[c]
    OBVIOUS
  <2> HIDE DEF g
  <2>3. w = [r EXCEPT !.done = Nth(r.done, m), !.cell = g]
    BY <1>8 DEF g
  <2>4. w \in Ring /\ w.cur = r.cur /\ w.done = Nth(r.done, m) /\ w.nic = r.nic /\ w.cell = g
    BY <1>2, <1>7, <2>1, <2>3 DEF Ring
  <2> QED BY <2>2, <2>4
<1>10. Divided(w, n - m, 0)
  <2>1. /\ n - m \in 0 .. TxRingSize /\ Nth(Nth(r.done, m), n - m) = Nth(r.done, n)
        /\ \A c \in Slots : Off(Nth(r.done, m), c) < n - m
                               <=> m <= Off(r.done, c) /\ Off(r.done, c) < n
    <3>1. /\ r.done \in Slots /\ n - m \in 0 .. TxRingSize - m /\ n - m \in 0 .. TxRingSize
          /\ m + (n - m) = n
      BY <1>1, <1>2, TxRingAssumption DEF Divided, Ring
    <3> DEFINE k == n - m
    <3> HIDE DEF k
    <3>2. /\ k \in 0 .. TxRingSize - m /\ k \in 0 .. TxRingSize /\ m + k = n
      BY <3>1 DEF k
    <3>3. /\ Nth(Nth(r.done, m), k) = Nth(r.done, m + k)
          /\ \A c \in Slots : Off(Nth(r.done, m), c) < k
                               <=> m <= Off(r.done, c) /\ Off(r.done, c) < m + k
      BY <3>1, <3>2, OffShift
    <3> QED BY <3>2, <3>3 DEF k
  <2>2. w.cur = Nth(w.done, n - m) /\ w.nic = Nth(w.done, 0) /\ 0 \in 0 .. n - m
    BY <1>1, <1>7, <1>9, <2>1, OffNth DEF Divided
  <2>3. ASSUME NEW c \in Slots
        PROVE  /\ w.cell[c].wait <=> Off(w.done, c) < n - m
               /\ w.cell[c].own = "NIC" <=> 0 <= Off(w.done, c) /\ Off(w.done, c) < n - m
               /\ ~w.cell[c].wait => w.cell[c].skb = None /\ w.cell[c].next = None
    <3>1. Off(r.done, c) \in Nat /\ Off(w.done, c) \in Nat
      BY <1>3, <1>7, <1>9, OffNth DEF Slots
    <3>2. CASE Off(r.done, c) < m
      BY <1>9, <2>1, <3>1, <3>2, FreeCellType
    <3>3. CASE ~(Off(r.done, c) < m)
      BY <1>1, <1>9, <2>1, <3>1, <3>3 DEF Divided
    <3> QED BY <3>2, <3>3
  <2> QED BY <2>1, <2>2, <2>3 DEF Divided
<1>11. ASSUME NEW id \in Skbs(w) PROVE id \in Skbs(r)
  BY <1>2, <1>9, <1>11, SkbsOf, FreeCellType
<1>12. \A c \in Slots : w.cell[c].kind \in {r.cell[c].kind, "none"}
  BY <1>9 DEF FreeCell
<1>13. n - m \in 0 .. TxRingSize /\ 0 \in 0 .. TxRingSize
  BY <1>1, TxRingAssumption DEF Divided
<1> QED BY <1>9, <1>10, <1>11, <1>12, <1>13 DEF GoodRing, w

---------------------------------------------------------------------------
(* Where a context is in RTMPDeQueuePacket *)

Sendable == {p \in Packet : p.id # None}
Pcs == {"idle", "enter", "take", "check", "aggregate", "send", "fragments"}
Ctx == [pc : Pcs, todo : Seq(Queues), skb : Packet, next : Packet, n : Nat]

\* What it holds: a packet from the queue to the ring, and the one taken along at the end.
GoodCtx(x) ==
    /\ x \in Ctx
    /\ x.pc # "idle" => x.todo # <<>>
    /\ x.skb = NoPacket <=> x.pc \in {"idle", "enter", "take"}
    /\ x.skb # NoPacket => x.skb.id # None
    /\ x.pc \notin {"send", "fragments"} => x.next = NoPacket
    /\ x.next # NoPacket => x.next.id # None

LEMMA NoPacketType == NoPacket \in Packet /\ NoPacket.id = None
BY DEF NoPacket, Packet, Id

LEMMA IdleGood == GoodCtx(IdleCtx) /\ IdleCtx.skb = NoPacket /\ IdleCtx.next = NoPacket
                  /\ IdleCtx.pc = "idle" /\ IdleCtx.n = 0
<1> DEFINE pc == "idle"  todo == <<>>
<1>1. pc \in Pcs /\ todo \in Seq(Queues) /\ pc = "idle"
  BY DEF Pcs
<1>2. IdleCtx = [pc |-> pc, todo |-> todo, skb |-> NoPacket, next |-> NoPacket, n |-> 0]
  BY DEF IdleCtx
<1> HIDE DEF pc, todo
<1>3. IdleCtx \in Ctx
  BY <1>1, <1>2, NoPacketType DEF Ctx
<1>4. /\ IdleCtx.pc = "idle" /\ IdleCtx.skb = NoPacket /\ IdleCtx.next = NoPacket
      /\ IdleCtx.n = 0
  BY <1>1, <1>2
<1> QED BY <1>3, <1>4 DEF GoodCtx

LEMMA EnterGood ==
    ASSUME NEW todo \in Seq(Queues), todo # <<>>
    PROVE  /\ GoodCtx(Enter(todo)) /\ Enter(todo).skb = NoPacket /\ Enter(todo).next = NoPacket
           /\ Enter(todo).pc = "enter"
<1> DEFINE pc == "enter"  x == Enter(todo)
<1>1. pc \in Pcs /\ pc = "enter"
  BY DEF Pcs
<1>2. x = [IdleCtx EXCEPT !.pc = pc, !.todo = todo]
  BY DEF Enter
<1> HIDE DEF pc, x
<1>3. /\ x \in Ctx /\ x.pc = pc /\ x.todo = todo /\ x.skb = IdleCtx.skb
      /\ x.next = IdleCtx.next
  BY <1>1, <1>2, IdleGood DEF Ctx, GoodCtx
<1> QED BY <1>1, <1>3, IdleGood DEF GoodCtx, x

LEMMA NextQueueGood ==
    ASSUME NEW c \in Contexts, GoodCtx(txCtx[c]), txCtx[c].pc # "idle"
    PROVE  /\ GoodCtx(NextQueue(c)) /\ NextQueue(c).skb = NoPacket
           /\ NextQueue(c).next = NoPacket /\ NextQueue(c).pc \in {"idle", "enter"}
<1> DEFINE rest == Tail(txCtx[c].todo)
<1>1. rest \in Seq(Queues)
  BY HeadTailProperties DEF GoodCtx, Ctx
<1>2. NextQueue(c) = IF rest = <<>> THEN IdleCtx ELSE Enter(rest)
  BY DEF NextQueue, Enter
<1> HIDE DEF rest
<1> QED BY <1>1, <1>2, IdleGood, EnterGood

LEMMA TodoQueue ==
    ASSUME NEW x, GoodCtx(x), x.pc # "idle"
    PROVE  Head(x.todo) \in Queues /\ Head(x.todo) \in Rings
BY HeadTailProperties DEF GoodCtx, Ctx, Rings

---------------------------------------------------------------------------
(* The state *)

Flags == [scan : BOOLEAN, radioOff : BOOLEAN, secured : BOOLEAN, aggregation : BOOLEAN,
          dmaDone : SUBSET Rings]

RingsInv == /\ txRing = [q \in Rings |-> txRing[q]]
            /\ \A q \in Rings : GoodRing(txRing[q])
CtxInv == /\ txCtx = [c \in Contexts |-> txCtx[c]]
          /\ \A c \in Contexts : GoodCtx(txCtx[c])
QueueInv == txSwQueue \in [Queues -> Seq(Sendable)]
RestInv == txFlags \in Flags /\ freed \in [Ids -> Nat] /\ made \in 0 .. MaxTxPackets
LoneInv == ~txFlags.aggregation => \A c \in Contexts : txCtx[c].next = NoPacket

TxInv == RingsInv /\ CtxInv /\ QueueInv /\ RestInv /\ LoneInv

LEMMA Become1 ==
    ASSUME CtxInv, NEW c \in Contexts, NEW x, GoodCtx(x), Become(c, x)
    PROVE  CtxInv' /\ \A d \in Contexts : txCtx'[d] = IF d = c THEN x ELSE txCtx[d]
<1>1. txCtx' = [txCtx EXCEPT ![c] = x]
  BY DEF Become
<1>2. DOMAIN txCtx = Contexts
  BY DEF CtxInv
<1>3. \A d \in Contexts : txCtx'[d] = IF d = c THEN x ELSE txCtx[d]
  BY <1>1, <1>2
<1>4. txCtx' = [d \in Contexts |-> txCtx'[d]]
  BY <1>1, <1>2
<1> QED BY <1>3, <1>4 DEF CtxInv

LEMMA LoneKept ==
    ASSUME LoneInv, UNCHANGED txFlags, NEW c \in Contexts, NEW x, x.next = NoPacket,
           \A d \in Contexts : txCtx'[d] = IF d = c THEN x ELSE txCtx[d]
    PROVE  LoneInv'
BY DEF LoneInv

LEMMA SetRing ==
    ASSUME RingsInv, NEW q \in Rings, NEW r, GoodRing(r), txRing' = [txRing EXCEPT ![q] = r]
    PROVE  RingsInv' /\ \A p \in Rings : txRing'[p] = IF p = q THEN r ELSE txRing[p]
<1>1. DOMAIN txRing = Rings
  BY DEF RingsInv
<1>2. \A p \in Rings : txRing'[p] = IF p = q THEN r ELSE txRing[p]
  BY <1>1
<1>3. txRing' = [p \in Rings |-> txRing'[p]]
  BY <1>1
<1> QED BY <1>2, <1>3 DEF RingsInv

LEMMA AllRings ==
    ASSUME NEW f, txRing' = [q \in Rings |-> f[q]], \A q \in Rings : GoodRing(f[q])
    PROVE  RingsInv'
BY DEF RingsInv

LEMMA ReleaseType == ASSUME freed \in [Ids -> Nat], NEW ids, Release(ids)
                     PROVE  /\ freed' \in [Ids -> Nat]
                            /\ \A id \in Ids : freed'[id] = IF id \in ids THEN freed[id] + 1 ELSE freed[id]
BY DEF Release

LEMMA AllQueuesType == /\ AllQueues \in Seq(Queues) /\ AllQueues # <<>>
                       /\ <<Be>> \in Seq(Queues) /\ <<Be>> # <<>>
                       /\ Filled \in Seq(Queues) /\ Filled # <<>>
<1> DEFINE vo == "AC_VO"
<1>1. Be \in Queues /\ vo \in Queues
  BY DEF Queues
<1>2. AllQueues = <<Be, vo>>
  BY DEF AllQueues
<1>3. Filled \in {<<vo>>, <<Be>>, <<Be, vo>>}
  BY DEF Filled, AllQueues
<1> HIDE DEF vo
<1>4. \A a \in Queues : <<a>> \in Seq(Queues) /\ <<a>> # <<>>
  OBVIOUS
<1>5. \A a, b \in Queues : <<a, b>> \in Seq(Queues) /\ <<a, b>> # <<>>
  OBVIOUS
<1>6. /\ <<vo>> \in Seq(Queues) /\ <<vo>> # <<>>
      /\ <<Be>> \in Seq(Queues) /\ <<Be>> # <<>>
      /\ <<Be, vo>> \in Seq(Queues) /\ <<Be, vo>> # <<>>
  BY <1>1, <1>4, <1>5
<1> QED BY <1>2, <1>3, <1>6

LEMMA HandOverType ==
    ASSUME TxInv, NEW c \in Contexts, NEW eapol \in BOOLEAN, HandOver(c, eapol) PROVE TxInv'
<1>1. PICK q \in Queues, n \in 1 .. MaxFrags :
        /\ made < MaxTxPackets /\ made' = made + 1
        /\ txSwQueue' = [txSwQueue EXCEPT ![q] =
                Append(@, [id |-> made + 1, frags |-> n, eapol |-> eapol])]
        /\ Become(c, Enter(AllQueues))
        /\ UNCHANGED <<txRing, txFlags, freed, txUpsets>>
  BY DEF HandOver
<1> DEFINE p == [id |-> made + 1, frags |-> n, eapol |-> eapol]
<1>2. p \in Sendable
  <2>1. made + 1 \in Ids /\ made + 1 # None
    BY <1>1, TxBoundAssumption DEF TxInv, RestInv, Ids, None
  <2>2. n \in Nat \ {0}
    BY TxCountAssumption
  <2> QED BY <2>1, <2>2 DEF Sendable, Packet, Id
<1> HIDE DEF p
<1>3. QueueInv'
  BY <1>1, <1>2, AppendProperties DEF TxInv, QueueInv, p
<1>4. CtxInv' /\ LoneInv'
  BY <1>1, EnterGood, AllQueuesType, Become1, LoneKept DEF TxInv
<1>5. RestInv'
  BY <1>1, TxBoundAssumption DEF TxInv, RestInv
<1> QED BY <1>1, <1>3, <1>4, <1>5 DEF TxInv, RingsInv

LEMMA DropUnlinkedType == ASSUME TxInv, DropUnlinked PROVE TxInv'
<1>1. RestInv'
  BY ReleaseType, TxBoundAssumption DEF TxInv, RestInv, DropUnlinked
<1> QED BY <1>1 DEF TxInv, DropUnlinked, RingsInv, CtxInv, QueueInv, LoneInv

LEMMA CheckFlagsType == ASSUME TxInv, NEW c \in Contexts, CheckFlags(c) PROVE TxInv'
<1>1. GoodCtx(txCtx[c]) /\ txCtx[c].pc = "enter"
  BY DEF TxInv, CtxInv, CheckFlags
<1>2. CASE Blocked
  <2>1. Become(c, NextQueue(c)) /\ UNCHANGED <<txSwQueue, txRing, txFlags, freed, made>>
    BY <1>2 DEF CheckFlags
  <2>2. CtxInv' /\ LoneInv'
    BY <1>1, <2>1, NextQueueGood, Become1, LoneKept DEF TxInv
  <2> QED BY <2>1, <2>2 DEF TxInv, RingsInv, QueueInv, RestInv
<1>3. CASE ~Blocked
  <2> DEFINE y == [txCtx[c] EXCEPT !.pc = "take"]
  <2>1. Become(c, y) /\ UNCHANGED <<txSwQueue, txRing, txFlags, freed, made>>
    BY <1>3 DEF CheckFlags
  <2>2. GoodCtx(y) /\ y.next = NoPacket
    <3>1. txCtx[c] \in Ctx /\ "take" \in Pcs
      BY <1>1 DEF GoodCtx, Pcs
    <3>2. /\ y \in Ctx /\ y.pc = "take" /\ y.todo = txCtx[c].todo /\ y.skb = txCtx[c].skb
          /\ y.next = txCtx[c].next
      BY <3>1 DEF Ctx
    <3> HIDE DEF y
    <3> QED BY <1>1, <3>2 DEF GoodCtx
  <2> HIDE DEF y
  <2>3. CtxInv' /\ LoneInv'
    BY <2>1, <2>2, Become1, LoneKept DEF TxInv
  <2> QED BY <2>1, <2>3 DEF TxInv, RingsInv, QueueInv, RestInv
<1> QED BY <1>2, <1>3

LEMMA TakeType == ASSUME TxInv, NEW c \in Contexts, Take(c) PROVE TxInv'
<1> DEFINE q == Head(txCtx[c].todo)
<1>1. GoodCtx(txCtx[c]) /\ txCtx[c].pc = "take" /\ q \in Queues
  BY TodoQueue DEF TxInv, CtxInv, Take
<1>2. UNCHANGED <<txRing, txFlags, freed, made>>
  BY DEF Take
<1>3. CASE Become(c, NextQueue(c)) /\ UNCHANGED txSwQueue
  <2>1. CtxInv' /\ LoneInv'
    BY <1>1, <1>2, <1>3, NextQueueGood, Become1, LoneKept DEF TxInv
  <2> QED BY <1>2, <1>3, <2>1 DEF TxInv, RingsInv, QueueInv, RestInv
<1>4. CASE /\ txSwQueue[q] # <<>> /\ txSwQueue' = [txSwQueue EXCEPT ![q] = Tail(@)]
           /\ Become(c, [txCtx[c] EXCEPT !.pc = "check", !.skb = Head(txSwQueue[q])])
  <2> DEFINE p == Head(txSwQueue[q])
             y == [txCtx[c] EXCEPT !.pc = "check", !.skb = p]
  <2>1. txSwQueue[q] \in Seq(Sendable)
    BY <1>1 DEF TxInv, QueueInv
  <2>2. p \in Sendable /\ Tail(txSwQueue[q]) \in Seq(Sendable)
    BY <1>4, <2>1, HeadTailProperties
  <2>3. GoodCtx(y) /\ y.next = NoPacket
    <3>1. txCtx[c] \in Ctx /\ "check" \in Pcs /\ p \in Packet /\ p # NoPacket /\ p.id # None
      BY <1>1, <2>2, NoPacketType DEF GoodCtx, Pcs, Sendable
    <3> HIDE DEF p
    <3>2. /\ y \in Ctx /\ y.pc = "check" /\ y.todo = txCtx[c].todo /\ y.skb = p
          /\ y.next = txCtx[c].next
      BY <3>1 DEF Ctx
    <3> HIDE DEF y
    <3> QED BY <1>1, <3>1, <3>2 DEF GoodCtx
  <2>4. Become(c, y)
    BY <1>4
  <2> HIDE DEF y
  <2>5. CtxInv' /\ LoneInv'
    BY <1>2, <2>3, <2>4, Become1, LoneKept DEF TxInv
  <2>6. QueueInv'
    BY <1>1, <1>4, <2>2 DEF TxInv, QueueInv
  <2> QED BY <1>2, <2>5, <2>6 DEF TxInv, RingsInv, RestInv
<1> QED BY <1>3, <1>4 DEF Take

LEMMA CheckType == ASSUME TxInv, NEW c \in Contexts, Check(c) PROVE TxInv'
<1> DEFINE q == Head(txCtx[c].todo)
<1>1. GoodCtx(txCtx[c]) /\ txCtx[c].pc = "check" /\ q \in Queues
  BY TodoQueue DEF TxInv, CtxInv, Check
<1>2. UNCHANGED <<txRing, txFlags, freed, made>>
  BY DEF Check
<1>3. txCtx[c].skb \in Sendable
  BY <1>1 DEF GoodCtx, Ctx, Sendable
<1>4. CASE Become(c, [txCtx[c] EXCEPT !.pc = "aggregate"]) /\ UNCHANGED txSwQueue
  <2> DEFINE y == [txCtx[c] EXCEPT !.pc = "aggregate"]
  <2>1. GoodCtx(y) /\ y.next = NoPacket
    <3>1. txCtx[c] \in Ctx /\ "aggregate" \in Pcs
      BY <1>1 DEF GoodCtx, Pcs
    <3>2. /\ y \in Ctx /\ y.pc = "aggregate" /\ y.todo = txCtx[c].todo
          /\ y.skb = txCtx[c].skb /\ y.next = txCtx[c].next
      BY <3>1 DEF Ctx
    <3> HIDE DEF y
    <3> QED BY <1>1, <3>2 DEF GoodCtx
  <2>2. Become(c, y)
    BY <1>4
  <2> HIDE DEF y
  <2>3. CtxInv' /\ LoneInv'
    BY <1>2, <2>1, <2>2, Become1, LoneKept DEF TxInv
  <2> QED BY <1>2, <1>4, <2>3 DEF TxInv, RingsInv, QueueInv, RestInv
<1>5. CASE /\ txSwQueue' = [txSwQueue EXCEPT ![q] = <<txCtx[c].skb>> \o @]
           /\ Become(c, NextQueue(c))
  <2>1. txSwQueue[q] \in Seq(Sendable) /\ <<txCtx[c].skb>> \in Seq(Sendable)
    BY <1>1, <1>3 DEF TxInv, QueueInv
  <2>2. <<txCtx[c].skb>> \o txSwQueue[q] \in Seq(Sendable)
    BY <2>1, ConcatProperties
  <2>3. QueueInv'
    BY <1>1, <1>5, <2>2 DEF TxInv, QueueInv
  <2>4. CtxInv' /\ LoneInv'
    BY <1>1, <1>2, <1>5, NextQueueGood, Become1, LoneKept DEF TxInv
  <2> QED BY <1>2, <2>3, <2>4 DEF TxInv, RingsInv, RestInv
<1> QED BY <1>4, <1>5 DEF Check

LEMMA AggregateType == ASSUME TxInv, NEW c \in Contexts, Aggregate(c) PROVE TxInv'
<1> DEFINE q == Head(txCtx[c].todo)
<1>1. GoodCtx(txCtx[c]) /\ txCtx[c].pc = "aggregate" /\ q \in Queues
  BY TodoQueue DEF TxInv, CtxInv, Aggregate
<1>2. UNCHANGED <<txRing, txFlags, freed, made>>
  BY DEF Aggregate
<1>3. CASE Become(c, [txCtx[c] EXCEPT !.pc = "send"]) /\ UNCHANGED txSwQueue
  <2> DEFINE y == [txCtx[c] EXCEPT !.pc = "send"]
  <2>1. GoodCtx(y) /\ y.next = NoPacket
    <3>1. txCtx[c] \in Ctx /\ "send" \in Pcs
      BY <1>1 DEF GoodCtx, Pcs
    <3>2. /\ y \in Ctx /\ y.pc = "send" /\ y.todo = txCtx[c].todo
          /\ y.skb = txCtx[c].skb /\ y.next = txCtx[c].next
      BY <3>1 DEF Ctx
    <3> HIDE DEF y
    <3> QED BY <1>1, <3>2 DEF GoodCtx
  <2>2. Become(c, y)
    BY <1>3
  <2> HIDE DEF y
  <2>3. CtxInv' /\ LoneInv'
    BY <1>2, <2>1, <2>2, Become1, LoneKept DEF TxInv
  <2> QED BY <1>2, <1>3, <2>3 DEF TxInv, RingsInv, QueueInv, RestInv
<1>4. CASE /\ txFlags.aggregation /\ txSwQueue[q] # <<>>
           /\ txSwQueue' = [txSwQueue EXCEPT ![q] = Tail(@)]
           /\ Become(c, [txCtx[c] EXCEPT !.pc = "send", !.next = Head(txSwQueue[q])])
  <2> DEFINE p == Head(txSwQueue[q])
             y == [txCtx[c] EXCEPT !.pc = "send", !.next = p]
  <2>1. txSwQueue[q] \in Seq(Sendable)
    BY <1>1 DEF TxInv, QueueInv
  <2>2. p \in Sendable /\ Tail(txSwQueue[q]) \in Seq(Sendable)
    BY <1>4, <2>1, HeadTailProperties
  <2>3. GoodCtx(y)
    <3>1. txCtx[c] \in Ctx /\ "send" \in Pcs /\ p \in Packet /\ p.id # None
      BY <1>1, <2>2 DEF GoodCtx, Pcs, Sendable
    <3> HIDE DEF p
    <3>2. /\ y \in Ctx /\ y.pc = "send" /\ y.todo = txCtx[c].todo /\ y.skb = txCtx[c].skb
          /\ y.next = p
      BY <3>1 DEF Ctx
    <3> HIDE DEF y
    <3> QED BY <1>1, <3>1, <3>2 DEF GoodCtx
  <2>4. Become(c, y)
    BY <1>4
  <2> HIDE DEF y
  <2>5. CtxInv' /\ LoneInv'
    BY <1>2, <1>4, <2>3, <2>4, Become1 DEF TxInv, LoneInv
  <2>6. QueueInv'
    BY <1>1, <1>4, <2>2 DEF TxInv, QueueInv
  <2> QED BY <1>2, <2>5, <2>6 DEF TxInv, RingsInv, RestInv
<1> QED BY <1>3, <1>4 DEF Aggregate

LEMMA DropType == ASSUME TxInv, NEW c \in Contexts, Drop(c) PROVE TxInv'
<1>1. /\ GoodCtx(txCtx[c]) /\ txCtx[c].pc = "send" /\ Become(c, NextQueue(c))
      /\ UNCHANGED <<txSwQueue, txRing, txFlags, made>>
  BY DEF TxInv, CtxInv, Drop
<1>2. freed' \in [Ids -> Nat]
  BY ReleaseType DEF Drop, TxInv, RestInv
<1>3. CtxInv' /\ LoneInv'
  BY <1>1, NextQueueGood, Become1, LoneKept DEF TxInv
<1> QED BY <1>1, <1>2, <1>3 DEF TxInv, RingsInv, QueueInv, RestInv

\* The protection frame holds no buffer.
LEMMA ProtectionGood ==
    ASSUME NEW r, GoodRing(r)
    PROVE  /\ GoodRing(SendRTSCTSFrame(r)) /\ Skbs(SendRTSCTSFrame(r)) = Skbs(r)
           /\ \A c \in Slots : SendRTSCTSFrame(r).cell[c].kind \in {r.cell[c].kind, "protect"}
<1>1. CASE Usable(r)
  <2>1. "protect" \in Kinds /\ None \in Id
    BY DEF Kinds, Id
  <2>2. SendRTSCTSFrame(r) = Write(r, "protect", None)
    BY <1>1 DEF SendRTSCTSFrame
  <2> QED BY <1>1, <2>1, <2>2, WriteGood
<1>2. CASE ~Usable(r)
  BY <1>2 DEF SendRTSCTSFrame
<1> QED BY <1>1, <1>2

LEMMA ProtectRing ==
    ASSUME TxInv, NEW c \in Contexts, Protect(c)
    PROVE  /\ RingsInv' /\ txCtx[c].pc = "send"
           /\ \A q \in Rings : Skbs(txRing'[q]) = Skbs(txRing[q])
           /\ \A q \in Rings, i \in Slots :
                txRing'[q].cell[i].kind \in {txRing[q].cell[i].kind, "protect"}
<1> DEFINE q == Head(txCtx[c].todo)
<1>1. GoodCtx(txCtx[c]) /\ txCtx[c].pc = "send" /\ q \in Rings
  BY TodoQueue DEF TxInv, CtxInv, Protect
<1>2. CASE Protection
  <2>1. txRing' = [txRing EXCEPT ![q] = SendRTSCTSFrame(txRing[q])]
    BY <1>2 DEF Protect
  <2>2. GoodRing(txRing[q]) /\ RingsInv
    BY <1>1 DEF TxInv, RingsInv
  <2> DEFINE w == SendRTSCTSFrame(txRing[q])
  <2> HIDE DEF q
  <2>3. /\ GoodRing(w) /\ Skbs(w) = Skbs(txRing[q])
        /\ \A c1 \in Slots : w.cell[c1].kind \in {txRing[q].cell[c1].kind, "protect"}
    BY <2>2, ProtectionGood
  <2>4. txRing' = [txRing EXCEPT ![q] = w]
    BY <2>1
  <2> HIDE DEF w
  <2>6. GoodRing(w) /\ q \in Rings /\ RingsInv
    BY <1>1, <2>2, <2>3
  <2>5. RingsInv' /\ \A p \in Rings : txRing'[p] = IF p = q THEN w ELSE txRing[p]
    BY <2>4, <2>6, SetRing
  <2> QED BY <1>1, <2>3, <2>5
<1>3. CASE ~Protection
  BY <1>1, <1>3 DEF Protect, TxInv, RingsInv
<1> QED BY <1>2, <1>3

LEMMA ProtectType == ASSUME TxInv, NEW c \in Contexts, Protect(c) PROVE TxInv'
<1> DEFINE y == [txCtx[c] EXCEPT !.pc = "fragments"]
<1>1. /\ GoodCtx(txCtx[c]) /\ txCtx[c].pc = "send" /\ Become(c, y)
      /\ UNCHANGED <<txSwQueue, txFlags, freed, made>>
  BY DEF TxInv, CtxInv, Protect
<1>2. GoodCtx(y) /\ y.next = txCtx[c].next
  <2>1. txCtx[c] \in Ctx /\ "fragments" \in Pcs
    BY <1>1 DEF GoodCtx, Pcs
  <2>2. /\ y \in Ctx /\ y.pc = "fragments" /\ y.todo = txCtx[c].todo
        /\ y.skb = txCtx[c].skb /\ y.next = txCtx[c].next
    BY <2>1 DEF Ctx
  <2> HIDE DEF y
  <2> QED BY <1>1, <2>2 DEF GoodCtx
<1> HIDE DEF y
<1>3. CtxInv' /\ \A d \in Contexts : txCtx'[d] = IF d = c THEN y ELSE txCtx[d]
  BY <1>1, <1>2, Become1 DEF TxInv
<1>4. LoneInv'
  BY <1>1, <1>2, <1>3 DEF TxInv, LoneInv
<1> QED BY <1>1, <1>3, <1>4, ProtectRing DEF TxInv, QueueInv, RestInv

\* What Transmit does to the ring.
LEMMA TransmitRing ==
    ASSUME TxInv, NEW c \in Contexts, Transmit(c)
    PROVE  LET q == Head(txCtx[c].todo)
               p == txCtx[c].skb
               fits == Room(txRing[q]) >= p.frags
           IN  /\ q \in Rings /\ RingsInv' /\ txCtx[c].pc = "fragments"
               /\ \A x \in Rings : Skbs(txRing'[x]) =
                    IF x = q /\ fits THEN Skbs(txRing[x]) \cup ({p.id, txCtx[c].next.id} \ {None})
                    ELSE Skbs(txRing[x])
               /\ \A x \in Rings, i \in Slots :
                    txRing'[x].cell[i].kind \in {txRing[x].cell[i].kind, KindOf(p)}
<1> DEFINE q == Head(txCtx[c].todo)
           p == txCtx[c].skb
           next == txCtx[c].next
           fits == Room(txRing[q]) >= p.frags
           v == WriteFragments(txRing[q], p, next)
           w == [v EXCEPT !.run = v.run \/ fits]
<1>1. GoodCtx(txCtx[c]) /\ txCtx[c].pc = "fragments" /\ q \in Rings
  BY TodoQueue DEF TxInv, CtxInv, Transmit
<1>2. p \in Packet /\ next \in Packet /\ GoodRing(txRing[q]) /\ RingsInv
  BY <1>1 DEF GoodCtx, Ctx, TxInv, RingsInv
<1>3. txRing' = [txRing EXCEPT ![q] = w]
  BY DEF Transmit
<1> HIDE DEF q, p, next, fits
<1>4. /\ GoodRing(v)
      /\ Skbs(v) = IF fits THEN Skbs(txRing[q]) \cup ({p.id, next.id} \ {None}) ELSE Skbs(txRing[q])
      /\ \A i \in Slots : v.cell[i].kind \in {txRing[q].cell[i].kind, KindOf(p)}
  BY <1>2, FragmentsGood DEF fits
<1>5. fits \in BOOLEAN /\ (v.run \/ fits) \in BOOLEAN
  BY <1>4 DEF fits
<1> HIDE DEF v
<1>6. GoodRing(w) /\ Skbs(w) = Skbs(v) /\ w.cell = v.cell
  BY <1>4, <1>5, RunGood
<1> HIDE DEF w
<1>7. RingsInv' /\ \A x \in Rings : txRing'[x] = IF x = q THEN w ELSE txRing[x]
  BY <1>1, <1>2, <1>3, <1>6, SetRing
<1>8. \A x \in Rings : Skbs(txRing'[x]) =
            IF x = q /\ fits THEN Skbs(txRing[x]) \cup ({p.id, next.id} \ {None}) ELSE Skbs(txRing[x])
  BY <1>4, <1>6, <1>7
<1>9. \A x \in Rings, i \in Slots :
            txRing'[x].cell[i].kind \in {txRing[x].cell[i].kind, KindOf(p)}
  BY <1>4, <1>6, <1>7
<1> QED BY <1>1, <1>7, <1>8, <1>9 DEF q, p, next, fits

LEMMA TransmitType == ASSUME TxInv, NEW c \in Contexts, Transmit(c) PROVE TxInv'
<1> DEFINE q == Head(txCtx[c].todo)
           fits == Room(txRing[q]) >= txCtx[c].skb.frags
           y == [txCtx[c] EXCEPT !.pc = "take", !.skb = NoPacket, !.next = NoPacket, !.n = @ + 1]
<1>1. GoodCtx(txCtx[c]) /\ txCtx[c].pc = "fragments"
  BY DEF TxInv, CtxInv, Transmit
<1>2. UNCHANGED <<txSwQueue, txFlags, made>> /\ RingsInv'
  BY TransmitRing DEF Transmit
<1>3. CASE fits
  <2>1. Become(c, y) /\ UNCHANGED freed
    BY <1>3 DEF Transmit
  <2>2. GoodCtx(y) /\ y.next = NoPacket
    <3>1. txCtx[c].n + 1 \in Nat /\ "take" \in Pcs
      BY <1>1 DEF GoodCtx, Ctx, Pcs
    <3>2. txCtx[c] \in Ctx
      BY <1>1 DEF GoodCtx
    <3> DEFINE pc == "take"  n == txCtx[c].n + 1
    <3>3. y = [txCtx[c] EXCEPT !.pc = pc, !.skb = NoPacket, !.next = NoPacket, !.n = n]
      OBVIOUS
    <3>4. pc \in Pcs /\ n \in Nat /\ pc = "take"
      BY <3>1
    <3> HIDE DEF y, pc, n
    <3>5. /\ y \in Ctx /\ y.pc = pc /\ y.skb = NoPacket /\ y.next = NoPacket
          /\ y.todo = txCtx[c].todo
      BY <3>2, <3>3, <3>4, NoPacketType DEF Ctx
    <3> QED BY <1>1, <3>4, <3>5 DEF GoodCtx
  <2> HIDE DEF y
  <2>3. CtxInv' /\ LoneInv'
    BY <1>2, <2>1, <2>2, Become1, LoneKept DEF TxInv
  <2> QED BY <1>2, <2>1, <2>3 DEF TxInv, QueueInv, RestInv
<1>4. CASE ~fits
  <2>1. Become(c, NextQueue(c)) /\ Release(Unsent(c))
    BY <1>4 DEF Transmit
  <2>2. CtxInv' /\ LoneInv'
    BY <1>1, <1>2, <2>1, NextQueueGood, Become1, LoneKept DEF TxInv
  <2>3. freed' \in [Ids -> Nat]
    BY <2>1, ReleaseType DEF TxInv, RestInv
  <2> QED BY <1>2, <2>2, <2>3 DEF TxInv, QueueInv, RestInv
<1> QED BY <1>3, <1>4

\* Frames that the MLME task writes itself.
LEMMA WriteRing ==
    ASSUME TxInv, NEW q \in Rings, Usable(txRing[q]), NEW kind \in Kinds, NEW id \in Id,
           txRing' = [txRing EXCEPT ![q] = [Write(txRing[q], kind, id) EXCEPT !.run = TRUE]]
    PROVE  /\ RingsInv'
           /\ \A x \in Rings :
                Skbs(txRing'[x]) = IF x = q THEN Skbs(txRing[x]) \cup ({id} \ {None})
                                   ELSE Skbs(txRing[x])
           /\ \A x \in Rings, i \in Slots :
                txRing'[x].cell[i].kind \in {txRing[x].cell[i].kind, kind}
<1> DEFINE v == Write(txRing[q], kind, id)
           w == [v EXCEPT !.run = TRUE]
<1>1. RingsInv /\ GoodRing(txRing[q])
  BY DEF TxInv, RingsInv
<1>2. /\ GoodRing(v) /\ Skbs(v) = Skbs(txRing[q]) \cup ({id} \ {None})
      /\ \A i \in Slots : v.cell[i].kind \in {txRing[q].cell[i].kind, kind}
  BY <1>1, WriteGood
<1> HIDE DEF v
<1>3. GoodRing(w) /\ Skbs(w) = Skbs(v) /\ w.cell = v.cell
  BY <1>2, RunGood
<1>4. txRing' = [txRing EXCEPT ![q] = w]
  BY DEF v
<1> HIDE DEF w
<1>5. RingsInv' /\ \A x \in Rings : txRing'[x] = IF x = q THEN w ELSE txRing[x]
  BY <1>1, <1>3, <1>4, SetRing
<1>6. \A x \in Rings :
        Skbs(txRing'[x]) = IF x = q THEN Skbs(txRing[x]) \cup ({id} \ {None}) ELSE Skbs(txRing[x])
  <2>1. Skbs(w) = Skbs(txRing[q]) \cup ({id} \ {None})
    BY <1>2, <1>3
  <2>2. ASSUME NEW x \in Rings
        PROVE  Skbs(txRing'[x]) = IF x = q THEN Skbs(txRing[x]) \cup ({id} \ {None})
                                  ELSE Skbs(txRing[x])
    <3>1. CASE x = q
      <4>1. txRing'[x] = w /\ txRing[x] = txRing[q]
        BY <1>5, <3>1
      <4> QED BY <2>1, <3>1, <4>1
    <3>2. CASE x # q
      <4>1. txRing'[x] = txRing[x]
        BY <1>5, <3>2
      <4> QED BY <3>2, <4>1
    <3> QED BY <3>1, <3>2
  <2> QED BY <2>2
<1>7. \A x \in Rings, i \in Slots : txRing'[x].cell[i].kind \in {txRing[x].cell[i].kind, kind}
  BY <1>2, <1>3, <1>5
<1> QED BY <1>5, <1>6, <1>7

LEMMA SendNullFrameRing ==
    ASSUME TxInv, SendNullFrame
    PROVE  /\ RingsInv' /\ \A x \in Rings : Skbs(txRing'[x]) = Skbs(txRing[x])
           /\ \A x \in Rings, i \in Slots :
                txRing'[x].cell[i].kind \in {txRing[x].cell[i].kind, "null"}
<1>1. Be \in Rings /\ "null" \in Kinds /\ None \in Id /\ Usable(txRing[Be])
  BY DEF Rings, Queues, Kinds, Id, SendNullFrame
<1>2. txRing' = [txRing EXCEPT ![Be] = [Write(txRing[Be], "null", None) EXCEPT !.run = TRUE]]
  BY <1>1 DEF SendNullFrame, TxInv, RingsInv
<1> DEFINE kind == "null"
<1>3. kind \in Kinds /\ txRing' = [txRing EXCEPT ![Be] = [Write(txRing[Be], kind, None) EXCEPT !.run = TRUE]]
  BY <1>1, <1>2
<1> HIDE DEF kind
<1>4. /\ RingsInv'
      /\ \A x \in Rings :
            Skbs(txRing'[x]) = IF x = Be THEN Skbs(txRing[x]) \cup ({None} \ {None})
                               ELSE Skbs(txRing[x])
      /\ \A x \in Rings, i \in Slots :
                txRing'[x].cell[i].kind \in {txRing[x].cell[i].kind, kind}
  BY <1>1, <1>3, WriteRing
<1>5. \A x \in Rings : Skbs(txRing'[x]) = Skbs(txRing[x])
  BY <1>4
<1> QED BY <1>4, <1>5 DEF kind

LEMMA SendNullFrameType == ASSUME TxInv, SendNullFrame PROVE TxInv'
BY SendNullFrameRing DEF SendNullFrame, TxInv, CtxInv, QueueInv, RestInv, LoneInv

LEMMA MMRequestRing ==
    ASSUME TxInv, MMRequest
    PROVE  /\ RingsInv' /\ made + 1 \in Ids /\ made' = made + 1
           /\ \/ /\ UNCHANGED freed
                 /\ \A x \in Rings :
                      Skbs(txRing'[x]) = IF x = "MGMT" THEN Skbs(txRing[x]) \cup {made + 1}
                                         ELSE Skbs(txRing[x])
              \/ UNCHANGED txRing /\ Release({made + 1})
           /\ \A x \in Rings, i \in Slots :
                txRing'[x].cell[i].kind \in {txRing[x].cell[i].kind, "mgmt"}
<1>1. made + 1 \in Ids /\ made' = made + 1 /\ made + 1 # None /\ made + 1 \in Id
  BY TxBoundAssumption DEF MMRequest, TxInv, RestInv, Ids, None, Id
<1>2. "MGMT" \in Rings /\ "mgmt" \in Kinds
  BY DEF Rings, Kinds
<1>3. CASE Usable(txRing["MGMT"])
  <2>1. /\ txRing' = [txRing EXCEPT !["MGMT"] =
                        [Write(txRing["MGMT"], "mgmt", made + 1) EXCEPT !.run = TRUE]]
        /\ UNCHANGED freed
    BY <1>2, <1>3 DEF MMRequest, TxInv, RingsInv
  <2> DEFINE n == made + 1  ring == "MGMT"  kind == "mgmt"
  <2>2. n \in Id /\ {n} \ {None} = {n}
    BY <1>1
  <2>3. /\ ring \in Rings /\ kind \in Kinds /\ Usable(txRing[ring])
        /\ txRing' = [txRing EXCEPT ![ring] = [Write(txRing[ring], kind, n) EXCEPT !.run = TRUE]]
    BY <1>2, <1>3, <2>1
  <2> HIDE DEF n, ring, kind
  <2>4. /\ RingsInv'
        /\ \A x \in Rings :
             Skbs(txRing'[x]) = IF x = ring THEN Skbs(txRing[x]) \cup ({n} \ {None})
                                ELSE Skbs(txRing[x])
        /\ \A x \in Rings, i \in Slots :
             txRing'[x].cell[i].kind \in {txRing[x].cell[i].kind, kind}
    BY <2>2, <2>3, WriteRing
  <2>5. \A x \in Rings :
             Skbs(txRing'[x]) = IF x = ring THEN Skbs(txRing[x]) \cup {n} ELSE Skbs(txRing[x])
    BY <2>2, <2>4
  <2> QED BY <1>1, <2>1, <2>4, <2>5 DEF n, ring, kind
<1>4. CASE ~Usable(txRing["MGMT"])
  BY <1>1, <1>4 DEF MMRequest, TxInv, RingsInv
<1> QED BY <1>3, <1>4

LEMMA MMRequestType == ASSUME TxInv, MMRequest PROVE TxInv'
<1>1. UNCHANGED <<txSwQueue, txCtx, txFlags>> /\ RingsInv'
  BY MMRequestRing DEF MMRequest
<1>2. made' \in 0 .. MaxTxPackets
  BY MMRequestRing DEF TxInv, RestInv, Ids
<1>3. freed' \in [Ids -> Nat]
  BY MMRequestRing, ReleaseType DEF TxInv, RestInv
<1> QED BY <1>1, <1>2, <1>3 DEF TxInv, CtxInv, QueueInv, RestInv, LoneInv

\* Steps on the rings that move no buffer, and leave what the frames are.
SameRings ==
    /\ RingsInv'
    /\ \A q \in Rings : Skbs(txRing'[q]) = Skbs(txRing[q])
    /\ \A q \in Rings, i \in Slots : txRing'[q].cell[i].kind = txRing[q].cell[i].kind

LEMMA NicSendsRing == ASSUME TxInv, NEW q \in Rings, NicSends(q) PROVE SameRings
<1> DEFINE r == txRing[q]
           w == [r EXCEPT !.cell[r.nic].own = "HOST", !.nic = Inc(@)]
<1>1. RingsInv /\ GoodRing(r) /\ r.cell[r.nic].own = "NIC"
  BY DEF TxInv, RingsInv, NicSends
<1>2. txRing' = [txRing EXCEPT ![q] = w]
  <2>1. txRing' = [txRing EXCEPT ![q].cell[r.nic].own = "HOST", ![q].nic = Inc(@)]
    BY DEF NicSends
  <2>2. txRing \in [Rings -> Ring]
    BY <1>1 DEF RingsInv, GoodRing
  <2> QED BY <2>1, <2>2 DEF Ring
<1>3. GoodRing(w) /\ Skbs(w) = Skbs(r) /\ \A c \in Slots : w.cell[c].kind = r.cell[c].kind
  BY <1>1, NicGood
<1> HIDE DEF w
<1>4. RingsInv' /\ \A x \in Rings : txRing'[x] = IF x = q THEN w ELSE txRing[x]
  <2>1. RingsInv /\ GoodRing(w) /\ txRing' = [txRing EXCEPT ![q] = w]
    BY <1>1, <1>2, <1>3
  <2> QED BY <2>1, SetRing
<1> QED BY <1>3, <1>4 DEF SameRings

LEMMA NicSendsType == ASSUME TxInv, NEW q \in Rings, NicSends(q) PROVE TxInv'
<1>1. RingsInv' /\ UNCHANGED <<txSwQueue, txCtx, freed, made>>
  BY NicSendsRing DEF SameRings, NicSends
<1>2. txFlags' = [txFlags EXCEPT !.dmaDone = @ \cup {q}] /\ txFlags \in Flags
  BY DEF NicSends, TxInv, RestInv
<1>3. txFlags' \in Flags /\ txFlags'.aggregation = txFlags.aggregation
  <2> DEFINE done == txFlags.dmaDone \cup {q}
  <2>1. done \in SUBSET Rings
    BY <1>2 DEF Flags
  <2>2. txFlags' = [txFlags EXCEPT !.dmaDone = done]
    BY <1>2
  <2> HIDE DEF done
  <2> QED BY <1>2, <2>1, <2>2 DEF Flags
<1> QED BY <1>1, <1>3 DEF TxInv, CtxInv, QueueInv, RestInv, LoneInv

LEMMA DmaDoneRing ==
    ASSUME TxInv, NEW q \in Rings, DmaDoneInterrupt(q)
    PROVE  /\ RingsInv'
           /\ \A x \in Rings : x # q => Skbs(txRing'[x]) = Skbs(txRing[x])
           /\ Skbs(txRing'[q]) \subseteq Skbs(txRing[q])
           /\ Release(Skbs(txRing[q]) \ Skbs(txRing'[q]))
           /\ \A x \in Rings, i \in Slots :
                txRing'[x].cell[i].kind \in {txRing[x].cell[i].kind, "none"}
<1> DEFINE w == Reclaim(txRing[q])
<1>1. RingsInv /\ GoodRing(txRing[q])
  BY DEF TxInv, RingsInv
<1>2. /\ GoodRing(w) /\ Skbs(w) \subseteq Skbs(txRing[q])
      /\ \A c \in Slots : w.cell[c].kind \in {txRing[q].cell[c].kind, "none"}
  BY <1>1, ReclaimGood
<1>3. txRing' = [txRing EXCEPT ![q] = w] /\ Release(Skbs(txRing[q]) \ Skbs(w))
  BY DEF DmaDoneInterrupt
<1> HIDE DEF w
<1>4. RingsInv' /\ \A x \in Rings : txRing'[x] = IF x = q THEN w ELSE txRing[x]
  <2>1. RingsInv /\ GoodRing(w) /\ txRing' = [txRing EXCEPT ![q] = w]
    BY <1>1, <1>2, <1>3
  <2> QED BY <2>1, SetRing
<1>5. txRing'[q] = w /\ \A x \in Rings : x # q => txRing'[x] = txRing[x]
  BY <1>4
<1>6. Skbs(txRing'[q]) \subseteq Skbs(txRing[q]) /\ Release(Skbs(txRing[q]) \ Skbs(txRing'[q]))
  BY <1>2, <1>3, <1>5
<1>7. \A x \in Rings, i \in Slots : txRing'[x].cell[i].kind \in {txRing[x].cell[i].kind, "none"}
  BY <1>2, <1>5
<1> QED BY <1>4, <1>5, <1>6, <1>7

LEMMA DmaDoneType == ASSUME TxInv, NEW q \in Rings, DmaDoneInterrupt(q) PROVE TxInv'
<1>1. RingsInv' /\ freed' \in [Ids -> Nat] /\ UNCHANGED <<txSwQueue, made>>
  BY DmaDoneRing, ReleaseType DEF DmaDoneInterrupt, TxInv, RestInv
<1>2. txFlags' = [txFlags EXCEPT !.dmaDone = @ \ {q}] /\ txFlags \in Flags
  BY DEF DmaDoneInterrupt, TxInv, RestInv
<1>3. txFlags' \in Flags /\ txFlags'.aggregation = txFlags.aggregation
  <2> DEFINE done == txFlags.dmaDone \ {q}
  <2>1. done \in SUBSET Rings
    BY <1>2 DEF Flags
  <2>2. txFlags' = [txFlags EXCEPT !.dmaDone = done]
    BY <1>2
  <2> HIDE DEF done
  <2> QED BY <1>2, <2>1, <2>2 DEF Flags
<1>4. PICK x \in {IdleCtx, Enter(Filled)} : Become("isr", x)
  BY DEF DmaDoneInterrupt
<1>5. GoodCtx(x) /\ x.next = NoPacket /\ "isr" \in Contexts
  BY <1>4, IdleGood, EnterGood, AllQueuesType DEF Contexts
<1>6. CtxInv' /\ \A d \in Contexts : txCtx'[d] = IF d = "isr" THEN x ELSE txCtx[d]
  BY <1>4, <1>5, Become1 DEF TxInv
<1>7. LoneInv'
  BY <1>3, <1>5, <1>6 DEF TxInv, LoneInv
<1> QED BY <1>1, <1>3, <1>6, <1>7 DEF TxInv, QueueInv, RestInv

\* The NIC is stopped and started on several rings at once.
LEMMA AllRun ==
    ASSUME TxInv, NEW S, NEW b \in BOOLEAN,
           txRing' = [q \in Rings |-> IF q \in S THEN txRing[q] ELSE [txRing[q] EXCEPT !.run = b]]
    PROVE  SameRings
<1>1. \A q \in Rings : GoodRing(txRing[q])
  BY DEF TxInv, RingsInv
<1>2. ASSUME NEW q \in Rings
      PROVE  /\ GoodRing(txRing'[q]) /\ Skbs(txRing'[q]) = Skbs(txRing[q])
             /\ txRing'[q].cell = txRing[q].cell
  <2>1. CASE q \in S
    BY <1>1, <2>1
  <2>2. CASE q \notin S
    <3>1. txRing'[q] = [txRing[q] EXCEPT !.run = b]
      BY <2>2
    <3> QED BY <1>1, <3>1, RunGood
  <2> QED BY <2>1, <2>2
<1>3. txRing' = [q \in Rings |-> txRing'[q]]
  OBVIOUS
<1> QED BY <1>2, <1>3 DEF SameRings, RingsInv

LEMMA SuspendType == ASSUME TxInv, SuspendMsduTransmission PROVE SameRings /\ TxInv'
<1>1. UNCHANGED <<txSwQueue, txCtx, freed, made>>
  BY DEF SuspendMsduTransmission
<1>2. SameRings
  <2>1. txRing' = [q \in Rings |-> IF q \in {"MGMT"} THEN txRing[q] ELSE [txRing[q] EXCEPT !.run = FALSE]]
    BY DEF SuspendMsduTransmission, Aborted
  <2> QED BY <2>1, AllRun
<1>3. txFlags' \in Flags /\ txFlags'.aggregation = txFlags.aggregation
  <2>1. txFlags' = [txFlags EXCEPT !.scan = TRUE] /\ txFlags \in Flags
    BY DEF SuspendMsduTransmission, TxInv, RestInv
  <2> QED BY <2>1 DEF Flags
<1> QED BY <1>1, <1>2, <1>3 DEF TxInv, CtxInv, QueueInv, RestInv, LoneInv, SameRings

LEMMA ResumeType == ASSUME TxInv, ResumeMsduTransmission PROVE SameRings /\ TxInv'
<1>1. UNCHANGED <<txSwQueue, freed, made>> /\ Become("mlme", Enter(<<Be>>))
  BY DEF ResumeMsduTransmission
<1>2. SameRings
  <2>1. txRing' = [q \in Rings |-> IF q \in {"MGMT"} THEN txRing[q] ELSE [txRing[q] EXCEPT !.run = TRUE]]
    BY DEF ResumeMsduTransmission, Kicked
  <2> QED BY <2>1, AllRun
<1>3. txFlags' \in Flags /\ txFlags'.aggregation = txFlags.aggregation
  <2>1. txFlags' = [txFlags EXCEPT !.scan = FALSE] /\ txFlags \in Flags
    BY DEF ResumeMsduTransmission, TxInv, RestInv
  <2> QED BY <2>1 DEF Flags
<1> DEFINE x == Enter(<<Be>>)
<1>4. GoodCtx(x) /\ x.next = NoPacket /\ "mlme" \in Contexts
  BY EnterGood, AllQueuesType DEF Contexts
<1> HIDE DEF x
<1>5. CtxInv' /\ \A d \in Contexts : txCtx'[d] = IF d = "mlme" THEN x ELSE txCtx[d]
  BY <1>1, <1>4, Become1 DEF TxInv, x
<1>6. LoneInv'
  BY <1>3, <1>4, <1>5 DEF TxInv, LoneInv
<1> QED BY <1>1, <1>2, <1>3, <1>5, <1>6 DEF TxInv, QueueInv, RestInv, SameRings

LEMMA RadioOffType == ASSUME TxInv, MlmeRadioOff PROVE SameRings /\ TxInv'
<1>1. UNCHANGED <<txSwQueue, txCtx, freed, made>>
  BY DEF MlmeRadioOff
<1>2. SameRings
  <2> DEFINE none == {}
  <2>1. txRing' = [q \in Rings |-> [txRing[q] EXCEPT !.run = FALSE]] /\ \A q \in Rings : q \notin none
    BY DEF MlmeRadioOff
  <2> HIDE DEF none
  <2>2. txRing' = [q \in Rings |-> IF q \in none THEN txRing[q] ELSE [txRing[q] EXCEPT !.run = FALSE]]
    BY <2>1
  <2> QED BY <2>2, AllRun
<1>3. txFlags' \in Flags /\ txFlags'.aggregation = txFlags.aggregation
  <2>1. txFlags' = [txFlags EXCEPT !.radioOff = TRUE, !.secured = FALSE] /\ txFlags \in Flags
    BY DEF MlmeRadioOff, TxInv, RestInv
  <2> DEFINE yes == TRUE  no == FALSE
  <2>2. txFlags' = [txFlags EXCEPT !.radioOff = yes, !.secured = no] /\ yes \in BOOLEAN /\ no \in BOOLEAN
    BY <2>1
  <2> HIDE DEF yes, no
  <2> QED BY <2>1, <2>2 DEF Flags
<1> QED BY <1>1, <1>2, <1>3 DEF TxInv, CtxInv, QueueInv, RestInv, LoneInv, SameRings

LEMMA RadioOnRing ==
    ASSUME TxInv, MlmeRadioOn
    PROVE  RingsInv' /\ \A q \in Rings : txRing'[q] = EmptyRing /\ Skbs(txRing'[q]) = {}
BY EmptyRingGood DEF MlmeRadioOn, RingsInv

LEMMA RadioOnType == ASSUME TxInv, MlmeRadioOn PROVE TxInv'
<1>1. RingsInv' /\ UNCHANGED <<txCtx, made>>
  BY RadioOnRing DEF MlmeRadioOn
<1>2. QueueInv'
  BY DEF MlmeRadioOn, QueueInv
<1>3. txFlags' \in Flags /\ txFlags'.aggregation = txFlags.aggregation
  <2> DEFINE no == FALSE  none == {}
  <2>1. txFlags' = [txFlags EXCEPT !.radioOff = no, !.dmaDone = none] /\ txFlags \in Flags
    BY DEF MlmeRadioOn, TxInv, RestInv
  <2>2. no \in BOOLEAN /\ none \in SUBSET Rings
    OBVIOUS
  <2> HIDE DEF no, none
  <2> QED BY <2>1, <2>2 DEF Flags
<1>4. freed' \in [Ids -> Nat]
  BY ReleaseType DEF MlmeRadioOn, TxInv, RestInv
<1> QED BY <1>1, <1>2, <1>3, <1>4 DEF TxInv, CtxInv, RestInv, LoneInv

LEMMA SwitchPortType == ASSUME TxInv, SwitchPort PROVE TxInv'
<1>1. txFlags' = [txFlags EXCEPT !.secured = ~@] /\ txFlags \in Flags
  BY DEF SwitchPort, TxInv, RestInv
<1>2. txFlags' \in Flags /\ txFlags'.aggregation = txFlags.aggregation
  <2> DEFINE not == ~txFlags.secured
  <2>1. not \in BOOLEAN /\ txFlags' = [txFlags EXCEPT !.secured = not]
    BY <1>1 DEF Flags
  <2> HIDE DEF not
  <2> QED BY <1>1, <2>1 DEF Flags
<1> QED BY <1>2 DEF SwitchPort, TxInv, RingsInv, CtxInv, QueueInv, RestInv, LoneInv

LEMMA TxInitInv == TxInit => TxInv
<1> SUFFICES ASSUME TxInit PROVE TxInv
  OBVIOUS
<1>1. RingsInv
  BY EmptyRingGood DEF TxInit, RingsInv
<1>2. CtxInv /\ LoneInv
  BY IdleGood DEF TxInit, CtxInv, LoneInv
<1>3. QueueInv /\ freed \in [Ids -> Nat] /\ made \in 0 .. MaxTxPackets
  BY TxBoundAssumption DEF TxInit, QueueInv
<1>4. txFlags \in Flags
  <2>1. PICK secured \in BOOLEAN, aggregation \in Aggregation :
            txFlags = [scan |-> FALSE, radioOff |-> FALSE, secured |-> secured,
                       aggregation |-> aggregation, dmaDone |-> {}]
    BY DEF TxInit
  <2> DEFINE no == FALSE  none == {}
  <2>2. /\ txFlags = [scan |-> no, radioOff |-> no, secured |-> secured,
                      aggregation |-> aggregation, dmaDone |-> none]
        /\ no \in BOOLEAN /\ none \in SUBSET Rings /\ aggregation \in BOOLEAN
    BY <2>1, TxSwitchAssumption
  <2> HIDE DEF no, none
  <2> QED BY <2>2 DEF Flags
<1> QED BY <1>1, <1>2, <1>3, <1>4 DEF TxInv, RestInv

LEMMA TxStep == TxInv /\ [TxNext]_txVars => TxInv'
<1> SUFFICES ASSUME TxInv, [TxNext]_txVars PROVE TxInv'
  OBVIOUS
<1>1. CASE HardStartXmit \/ SendGroupMsg2
  BY <1>1, HandOverType DEF HardStartXmit, SendGroupMsg2, Contexts
<1>2. CASE \E c \in Contexts : DeQueue(c)
  BY <1>2, CheckFlagsType, TakeType, CheckType, AggregateType, DropType, ProtectType,
     TransmitType DEF DeQueue
<1>3. CASE \E q \in Rings : NicSends(q) \/ DmaDoneInterrupt(q)
  BY <1>3, NicSendsType, DmaDoneType
<1>4. CASE UNCHANGED txVars
  BY <1>4 DEF txVars, TxInv, RingsInv, CtxInv, QueueInv, RestInv, LoneInv
<1> QED BY <1>1, <1>2, <1>3, <1>4, DropUnlinkedType, SendNullFrameType, MMRequestType,
          SuspendType, ResumeType, RadioOffType, RadioOnType, SwitchPortType DEF TxNext

LEMMA GoodWindow == ASSUME NEW r, GoodRing(r) PROVE Window(r)
<1>1. PICK n \in 0 .. TxRingSize, m \in 0 .. TxRingSize : Divided(r, n, m)
  BY DEF GoodRing
<1>2. r.done \in Slots /\ DOMAIN r.cell = Slots
  BY DEF GoodRing, Ring
<1>3. {i \in DOMAIN r.cell : r.cell[i].wait} = {c \in Slots : Off(r.done, c) < n}
  BY <1>1, <1>2 DEF Divided
<1>4. Cardinality({i \in DOMAIN r.cell : r.cell[i].wait}) = n
  BY <1>2, <1>3, CountWindow
<1>5. r.cur = (r.done + n) % TxRingSize
  BY <1>1, <1>2, ModNth DEF Divided
<1>6. ASSUME NEW k \in 0 .. n - 1 PROVE r.cell[(r.done + k) % TxRingSize].wait
  <2>1. k \in Slots /\ k \in 0 .. TxRingSize
    BY <1>1, TxRingAssumption DEF Slots
  <2>2. (r.done + k) % TxRingSize = Nth(r.done, k) /\ Nth(r.done, k) \in Slots
        /\ Off(r.done, Nth(r.done, k)) = k
    BY <1>2, <2>1, ModNth, OffNth
  <2>3. k < n
    OBVIOUS
  <2> QED BY <1>1, <2>2, <2>3 DEF Divided
<1> QED BY <1>4, <1>5, <1>6 DEF Window

\* On every ring, at any time, the descriptors that wait for the DMA-done interrupt are
\* those from NextTxDmaDoneIndex up to CurTxIndex: also on SMP, where the lock is not held
\* while descriptors are counted, and when a packet is written half.
THEOREM DescriptorsAreAWindow == TxSpec => []RingWindow
<1>1. TxInv => RingWindow
  BY GoodWindow DEF TxInv, RingsInv, RingWindow
<1> QED BY <1>1, TxInitInv, TxStep, PTL DEF TxSpec

---------------------------------------------------------------------------
(* The 802.1X port *)

\* What hard_start_xmit or the interrupt handler is about to write was let through, and
\* still would be.
PortInv == \A c \in {"xmit", "isr"} :
    txCtx[c].pc = "fragments" => txFlags.secured \/ txCtx[c].skb.eapol

LEMMA PortKept ==
    ASSUME TxInv, PortInv, txFlags'.secured = txFlags.secured, NEW c \in Contexts, NEW x,
           GoodCtx(x), Become(c, x),
           x.pc = "fragments" => txFlags.secured \/ x.skb.eapol
    PROVE  PortInv'
BY Become1 DEF TxInv, PortInv, Contexts

\* On one processor neither is in the middle of a packet when a timer switches the port.
LEMMA AllIdle ==
    ASSUME ~TxSmp, MayRun("mlme"), UNCHANGED txCtx
    PROVE  PortInv'
<1>1. \A c \in {"xmit", "isr"} : txCtx[c].pc = "idle"
  BY DEF MayRun, Preempting
<1>2. \A c \in {"xmit", "isr"} : txCtx'[c].pc # "fragments"
  BY <1>1
<1> QED BY <1>2 DEF PortInv

\* RTMPDeQueuePacket and the port.
LEMMA DeQueuePort ==
    ASSUME TxInv, PortInv, NEW c \in Contexts, DeQueue(c) PROVE PortInv'
<1> DEFINE x == txCtx'[c]
<1>1. UNCHANGED txFlags
  BY DEF DeQueue, CheckFlags, Take, Check, Aggregate, Drop, Protect, Transmit
<1>2. GoodCtx(txCtx[c]) /\ c \in DOMAIN txCtx
  BY DEF TxInv, CtxInv
<1>3. txCtx[c] \in Ctx
  BY <1>2 DEF GoodCtx
<1>4. TxInv'
  BY CheckFlagsType, TakeType, CheckType, AggregateType, DropType, ProtectType,
     TransmitType DEF DeQueue
<1>5. GoodCtx(x)
  BY <1>4 DEF TxInv, CtxInv
<1>6. CASE txCtx[c].pc # "idle" /\ Become(c, NextQueue(c))
  <2>1. GoodCtx(NextQueue(c)) /\ NextQueue(c).pc # "fragments"
    BY <1>2, <1>6, NextQueueGood
  <2> QED BY <1>1, <1>6, <2>1, PortKept
<1>7. CASE \E y : Become(c, y) /\ y.pc \in {"take", "check", "aggregate", "send"}
  <2>1. PICK y : Become(c, y) /\ y.pc \in {"take", "check", "aggregate", "send"}
    BY <1>7
  <2>2. x = y
    BY <1>2, <2>1 DEF Become
  <2> HIDE DEF x
  <2> QED BY <1>1, <1>5, <2>1, <2>2, PortKept
<1>8. CASE Protect(c)
  <2> DEFINE y == [txCtx[c] EXCEPT !.pc = "fragments"]
  <2>1. Become(c, y) /\ ~Refused(txCtx[c].skb)
    BY <1>8 DEF Protect
  <2>2. x = y /\ y.skb = txCtx[c].skb
    BY <1>2, <1>3, <2>1 DEF Become, Ctx
  <2> HIDE DEF y, x
  <2>3. txFlags.secured \/ y.skb.eapol
    BY <2>1, <2>2 DEF Refused
  <2> QED BY <1>1, <1>5, <2>1, <2>2, <2>3, PortKept
<1>9. CASE CheckFlags(c)
  <2>1. CASE ~Blocked
    <3>1. Become(c, [txCtx[c] EXCEPT !.pc = "take"])
      BY <1>9, <2>1 DEF CheckFlags
    <3>2. [txCtx[c] EXCEPT !.pc = "take"].pc = "take"
      BY <1>3 DEF Ctx
    <3> QED BY <1>7, <3>1, <3>2
  <2> QED BY <1>6, <1>9, <2>1 DEF CheckFlags
<1>10. CASE Take(c)
  <2>1. ASSUME NEW p PROVE [txCtx[c] EXCEPT !.pc = "check", !.skb = p].pc = "check"
    BY <1>3 DEF Ctx
  <2> QED BY <1>6, <1>7, <1>10, <2>1 DEF Take
<1>11. CASE Check(c)
  <2>1. [txCtx[c] EXCEPT !.pc = "aggregate"].pc = "aggregate"
    BY <1>3 DEF Ctx
  <2> QED BY <1>6, <1>7, <1>11, <2>1 DEF Check
<1>12. CASE Aggregate(c)
  <2>1. [txCtx[c] EXCEPT !.pc = "send"].pc = "send"
    BY <1>3 DEF Ctx
  <2>2. ASSUME NEW p PROVE [txCtx[c] EXCEPT !.pc = "send", !.next = p].pc = "send"
    BY <1>3 DEF Ctx
  <2> QED BY <1>7, <1>12, <2>1, <2>2 DEF Aggregate
<1>13. CASE Drop(c)
  BY <1>6, <1>13 DEF Drop
<1>14. CASE Transmit(c)
  <2>1. [txCtx[c] EXCEPT !.pc = "take", !.skb = NoPacket, !.next = NoPacket, !.n = @ + 1].pc
            = "take"
    BY <1>3 DEF Ctx
  <2> QED BY <1>6, <1>7, <1>14, <2>1 DEF Transmit
<1> QED BY <1>8, <1>9, <1>10, <1>11, <1>12, <1>13, <1>14 DEF DeQueue

LEMMA PortStep == ASSUME ~TxSmp, TxInv, PortInv, [TxNext]_txVars PROVE PortInv'
<1>1. CASE HardStartXmit \/ SendGroupMsg2
  <2>1. PICK c \in {"xmit", "mlme"} : Become(c, Enter(AllQueues)) /\ UNCHANGED txFlags
    BY <1>1 DEF HardStartXmit, SendGroupMsg2, HandOver
  <2>2. GoodCtx(Enter(AllQueues)) /\ Enter(AllQueues).pc # "fragments" /\ c \in Contexts
    BY EnterGood, AllQueuesType DEF Contexts
  <2> QED BY <2>1, <2>2, PortKept
<1>2. CASE \E c \in Contexts : DeQueue(c)
  BY <1>2, DeQueuePort
<1>3. CASE \E q \in Rings : NicSends(q)
  <2>1. txFlags'.secured = txFlags.secured /\ UNCHANGED txCtx
    BY <1>3 DEF NicSends, TxInv, RestInv, Flags
  <2> QED BY <2>1 DEF PortInv
<1>4. CASE \E q \in Rings : DmaDoneInterrupt(q)
  <2>1. PICK x \in {IdleCtx, Enter(Filled)} : Become("isr", x)
    BY <1>4 DEF DmaDoneInterrupt
  <2>2. GoodCtx(x) /\ x.pc # "fragments" /\ "isr" \in Contexts
    BY <2>1, IdleGood, EnterGood, AllQueuesType DEF Contexts
  <2>3. txFlags'.secured = txFlags.secured
    BY <1>4 DEF DmaDoneInterrupt, TxInv, RestInv, Flags
  <2> QED BY <2>1, <2>2, <2>3, PortKept
<1>5. CASE SuspendMsduTransmission \/ MlmeRadioOn
  <2>1. txFlags'.secured = txFlags.secured /\ UNCHANGED txCtx
    BY <1>5 DEF SuspendMsduTransmission, MlmeRadioOn, TxInv, RestInv, Flags
  <2> QED BY <2>1 DEF PortInv
<1>6. CASE ResumeMsduTransmission
  <2>1. txFlags'.secured = txFlags.secured /\ Become("mlme", Enter(<<Be>>))
    BY <1>6 DEF ResumeMsduTransmission, TxInv, RestInv, Flags
  <2>2. GoodCtx(Enter(<<Be>>)) /\ Enter(<<Be>>).pc # "fragments" /\ "mlme" \in Contexts
    BY EnterGood, AllQueuesType DEF Contexts
  <2> QED BY <2>1, <2>2, PortKept
<1>7. CASE MlmeRadioOff \/ SwitchPort
  BY <1>7, AllIdle DEF MlmeRadioOff, SwitchPort
<1>8. CASE DropUnlinked \/ SendNullFrame \/ MMRequest \/ UNCHANGED txVars
  BY <1>8 DEF DropUnlinked, SendNullFrame, MMRequest, txVars, PortInv
<1> QED BY <1>1, <1>2, <1>3, <1>4, <1>5, <1>6, <1>7, <1>8 DEF TxNext

LEMMA TransmitLeaves ==
    ASSUME TxInv, NEW c \in Contexts, Transmit(c) PROVE txCtx'[c].pc # "fragments"
<1>1. GoodCtx(txCtx[c]) /\ c \in DOMAIN txCtx
  BY DEF TxInv, CtxInv
<1>2. txCtx[c] \in Ctx /\ txCtx[c].pc # "idle"
  BY <1>1 DEF GoodCtx, Transmit
<1>3. CASE Become(c, NextQueue(c))
  <2>1. NextQueue(c).pc # "fragments"
    BY <1>1, <1>2, NextQueueGood
  <2> QED BY <1>1, <1>3, <2>1 DEF Become
<1>4. CASE Become(c, [txCtx[c] EXCEPT !.pc = "take", !.skb = NoPacket, !.next = NoPacket, !.n = @ + 1])
  <2> DEFINE y == [txCtx[c] EXCEPT !.pc = "take", !.skb = NoPacket, !.next = NoPacket, !.n = @ + 1]
  <2>1. y.pc = "take"
    BY <1>2 DEF Ctx
  <2> HIDE DEF y
  <2>2. txCtx'[c] = y
    BY <1>1, <1>4 DEF Become, y
  <2> QED BY <2>1, <2>2
<1> QED BY <1>3, <1>4 DEF Transmit

\* Plain data is written by Transmit only, and by a context that was let through or by
\* MlmeHandler.
LEMMA PlainStep ==
    ASSUME TxInv, PortInv, [TxNext]_txVars, NEW q \in Queues, NEW i \in Slots, PlainWritten(q, i)
    PROVE  \/ txFlags.secured
           \/ txCtx["mlme"].pc = "fragments" /\ txCtx'["mlme"].pc # "fragments"
<1>1. q \in Rings
  BY DEF Rings
<1>2. CASE \E c \in Contexts : Transmit(c)
  <2>1. PICK c \in Contexts : Transmit(c)
    BY <1>2
  <2>2. /\ txCtx[c].pc = "fragments"
        /\ txRing'[q].cell[i].kind \in {txRing[q].cell[i].kind, KindOf(txCtx[c].skb)}
    BY <1>1, <2>1, TransmitRing
  <2>3. ~txCtx[c].skb.eapol
    BY <2>2 DEF PlainWritten, KindOf
  <2>4. CASE c = "mlme"
    <3>1. txCtx'["mlme"].pc # "fragments"
      BY <2>1, <2>4, TransmitLeaves
    <3> QED BY <2>2, <2>4, <3>1
  <2>5. CASE c # "mlme"
    BY <2>2, <2>3, <2>5 DEF PortInv, Contexts
  <2> QED BY <2>4, <2>5
<1>3. CASE \E c \in Contexts : Protect(c)
  <2>1. txRing'[q].cell[i].kind \in {txRing[q].cell[i].kind, "protect"}
    BY <1>1, <1>3, ProtectRing
  <2> QED BY <2>1 DEF PlainWritten
<1>4. CASE SendNullFrame
  <2>1. txRing'[q].cell[i].kind \in {txRing[q].cell[i].kind, "null"}
    BY <1>1, <1>4, SendNullFrameRing
  <2> QED BY <2>1 DEF PlainWritten
<1>5. CASE MMRequest
  <2>1. txRing'[q].cell[i].kind \in {txRing[q].cell[i].kind, "mgmt"}
    BY <1>1, <1>5, MMRequestRing
  <2> QED BY <2>1 DEF PlainWritten
<1>6. CASE \E x \in Rings : DmaDoneInterrupt(x)
  <2>1. txRing'[q].cell[i].kind \in {txRing[q].cell[i].kind, "none"}
    BY <1>1, <1>6, DmaDoneRing
  <2> QED BY <2>1 DEF PlainWritten
<1>7. CASE \/ \E x \in Rings : NicSends(x)
           \/ SuspendMsduTransmission \/ ResumeMsduTransmission \/ MlmeRadioOff
  <2>1. SameRings
    BY <1>7, NicSendsRing, SuspendType, ResumeType, RadioOffType
  <2> QED BY <1>1, <2>1 DEF SameRings, PlainWritten
<1>8. CASE MlmeRadioOn
  <2>1. txRing'[q].cell[i].kind = "none"
    <3>1. EmptyRing.cell[i].kind = "none"
      BY DEF EmptyRing, FreeCell, Slots
    <3>2. txRing'[q] = EmptyRing
      BY <1>1, <1>8, RadioOnRing
    <3> QED BY <3>1, <3>2
  <2> QED BY <2>1 DEF PlainWritten
<1>9. CASE UNCHANGED txRing
  BY <1>9 DEF PlainWritten
<1>10. CASE HardStartXmit \/ SendGroupMsg2 \/ DropUnlinked \/ SwitchPort \/ UNCHANGED txVars
  BY <1>9, <1>10 DEF HardStartXmit, SendGroupMsg2, HandOver, DropUnlinked, SwitchPort, txVars
<1>11. CASE \E c \in Contexts : CheckFlags(c) \/ Take(c) \/ Check(c) \/ Aggregate(c) \/ Drop(c)
  BY <1>9, <1>11 DEF CheckFlags, Take, Check, Aggregate, Drop
<1> QED BY <1>2, <1>3, <1>4, <1>5, <1>6, <1>7, <1>8, <1>10, <1>11 DEF TxNext, DeQueue

\* On one processor no plain data of hard_start_xmit or of the interrupt handler enters a
\* ring while the 802.1X port is closed, although the port is looked at two steps before
\* the descriptors are written and a timer may close it: only what MlmeHandler sends may.
THEOREM NoPlainDataBehindAClosedPort == ASSUME ~TxSmp PROVE TxSpec => PlainDataNeedsOpenPort
<1>1. TxInit => PortInv
  BY IdleGood DEF TxInit, PortInv, Contexts
<1>2. TxInv /\ PortInv /\ [TxNext]_txVars => PortInv'
  BY PortStep
<1>3. TxInv /\ PortInv /\ [TxNext]_txVars =>
        [\A q \in Queues, i \in 0 .. TxRingSize - 1 :
            PlainWritten(q, i) =>
                \/ txFlags.secured
                \/ txCtx["mlme"].pc = "fragments" /\ txCtx'["mlme"].pc # "fragments"]_txVars
  BY PlainStep DEF Slots
<1> QED BY <1>1, <1>2, <1>3, TxInitInv, TxStep, PTL DEF TxSpec, PlainDataNeedsOpenPort

---------------------------------------------------------------------------
(* Where a packet is *)

\* The packet is on the list s, and is on it once.
On(s, id) == \E i \in DOMAIN s : s[i].id = id
OnceOn(s, id) == \A i, j \in DOMAIN s : s[i].id = id /\ s[j].id = id => i = j

LEMMA EmptyList == ASSUME NEW id PROVE ~On(<<>>, id) /\ OnceOn(<<>>, id)
BY EmptySeq DEF On, OnceOn

LEMMA AppendList ==
    ASSUME NEW s \in Seq(Sendable), NEW p \in Sendable, NEW id
    PROVE  /\ On(Append(s, p), id) <=> On(s, id) \/ p.id = id
           /\ OnceOn(s, id) /\ (p.id = id => ~On(s, id)) => OnceOn(Append(s, p), id)
<1> DEFINE t == Append(s, p)
<1>1. /\ Len(s) \in Nat /\ DOMAIN s = 1 .. Len(s) /\ DOMAIN t = 1 .. Len(s) + 1
      /\ \A i \in 1 .. Len(s) : t[i] = s[i]
      /\ t[Len(s) + 1] = p
  BY AppendProperties, LenProperties
<1> HIDE DEF t
<1>2. On(t, id) <=> On(s, id) \/ p.id = id
  BY <1>1 DEF On
<1>3. OnceOn(s, id) /\ (p.id = id => ~On(s, id)) => OnceOn(t, id)
  BY <1>1 DEF On, OnceOn
<1> QED BY <1>2, <1>3 DEF t

LEMMA TailList ==
    ASSUME NEW s \in Seq(Sendable), s # <<>>, NEW id
    PROVE  /\ On(s, id) <=> Head(s).id = id \/ On(Tail(s), id)
           /\ OnceOn(s, id) => OnceOn(Tail(s), id) /\ (Head(s).id = id => ~On(Tail(s), id))
<1> DEFINE t == Tail(s)
<1>1. /\ Len(s) \in Nat \ {0} /\ DOMAIN s = 1 .. Len(s) /\ DOMAIN t = 1 .. Len(s) - 1
      /\ Head(s) = s[1] /\ \A i \in 1 .. Len(s) - 1 : t[i] = s[i + 1]
  BY HeadTailProperties, LenProperties, EmptySeq
<1> HIDE DEF t
<1>2. On(s, id) <=> Head(s).id = id \/ On(t, id)
  <2>1. ASSUME On(s, id), s[1].id # id PROVE On(t, id)
    <3>1. PICK i \in 1 .. Len(s) : s[i].id = id
      BY <1>1, <2>1 DEF On
    <3>2. i - 1 \in 1 .. Len(s) - 1 /\ t[i - 1] = s[i]
      BY <1>1, <2>1, <3>1
    <3> QED BY <1>1, <3>1, <3>2 DEF On
  <2>2. ASSUME On(t, id) PROVE On(s, id)
    <3>1. PICK i \in 1 .. Len(s) - 1 : t[i].id = id
      BY <1>1, <2>2 DEF On
    <3>2. i + 1 \in 1 .. Len(s) /\ s[i + 1].id = id
      BY <1>1, <3>1
    <3> QED BY <1>1, <3>2 DEF On
  <2>3. ASSUME s[1].id = id PROVE On(s, id)
    BY <1>1, <2>3 DEF On
  <2> QED BY <1>1, <2>1, <2>2, <2>3
<1>3. ASSUME OnceOn(s, id) PROVE OnceOn(t, id) /\ (Head(s).id = id => ~On(t, id))
  <2>1. ASSUME NEW i \in 1 .. Len(s) - 1, NEW j \in 1 .. Len(s) - 1, t[i].id = id, t[j].id = id
        PROVE  i = j
    <3>1. /\ i + 1 \in 1 .. Len(s) /\ j + 1 \in 1 .. Len(s)
          /\ s[i + 1].id = id /\ s[j + 1].id = id
      BY <1>1, <2>1
    <3>2. i + 1 = j + 1
      BY <1>1, <1>3, <3>1 DEF OnceOn
    <3> QED BY <3>2
  <2>2. ASSUME s[1].id = id, NEW i \in 1 .. Len(s) - 1, t[i].id = id PROVE FALSE
    <3>1. i + 1 \in 1 .. Len(s) /\ 1 \in 1 .. Len(s) /\ s[i + 1].id = id
      BY <1>1, <2>2
    <3>2. i + 1 = 1
      BY <1>1, <1>3, <2>2, <3>1 DEF OnceOn
    <3> QED BY <3>2
  <2> QED BY <1>1, <2>1, <2>2 DEF On, OnceOn
<1> QED BY <1>2, <1>3 DEF t

LEMMA FrontList ==
    ASSUME NEW s \in Seq(Sendable), NEW p \in Sendable, NEW id
    PROVE  /\ On(<<p>> \o s, id) <=> On(s, id) \/ p.id = id
           /\ OnceOn(s, id) /\ (p.id = id => ~On(s, id)) => OnceOn(<<p>> \o s, id)
<1> DEFINE t == <<p>> \o s
<1>1. /\ <<p>> \in Seq(Sendable) /\ Len(<<p>>) = 1 /\ <<p>>[1] = p
  OBVIOUS
<1>2. /\ t \in Seq(Sendable) /\ Len(t) = 1 + Len(s)
      /\ \A i \in 1 .. 1 + Len(s) : t[i] = IF i <= 1 THEN <<p>>[i] ELSE s[i - 1]
  BY <1>1, ConcatProperties
<1>3. /\ Len(s) \in Nat /\ DOMAIN s = 1 .. Len(s) /\ DOMAIN t = 1 .. Len(s) + 1
  BY <1>2, LenProperties
<1> HIDE DEF t
<1>4. t[1] = p /\ \A i \in 1 .. Len(s) : t[i + 1] = s[i]
  BY <1>1, <1>2, <1>3
<1>5. t # <<>> /\ Head(t) = p
  BY <1>2, <1>3, <1>4, EmptySeq
<1>6. Tail(t) \in Seq(Sendable) /\ Len(Tail(t)) = Len(s)
      /\ \A i \in 1 .. Len(s) : Tail(t)[i] = s[i]
  BY <1>2, <1>3, <1>4, <1>5, HeadTailProperties
<1>7. On(t, id) <=> On(s, id) \/ p.id = id
  <2>1. ASSUME On(t, id), p.id # id PROVE On(s, id)
    <3>1. PICK i \in 1 .. Len(s) + 1 : t[i].id = id
      BY <1>3, <2>1 DEF On
    <3>2. i - 1 \in 1 .. Len(s) /\ s[i - 1].id = id
      BY <1>3, <1>4, <2>1, <3>1
    <3> QED BY <1>3, <3>2 DEF On
  <2>2. ASSUME On(s, id) PROVE On(t, id)
    <3>1. PICK i \in 1 .. Len(s) : s[i].id = id
      BY <1>3, <2>2 DEF On
    <3>2. i + 1 \in 1 .. Len(s) + 1 /\ t[i + 1].id = id
      BY <1>3, <1>4, <3>1
    <3> QED BY <1>3, <3>2 DEF On
  <2>3. ASSUME p.id = id PROVE On(t, id)
    <3>1. 1 \in 1 .. Len(s) + 1
      BY <1>3
    <3> QED BY <1>3, <1>4, <2>3, <3>1 DEF On
  <2> QED BY <2>1, <2>2, <2>3
<1>8. ASSUME OnceOn(s, id), p.id = id => ~On(s, id) PROVE OnceOn(t, id)
  <2>1. ASSUME NEW i \in 1 .. Len(s) + 1, NEW j \in 1 .. Len(s) + 1, t[i].id = id, t[j].id = id
        PROVE  i = j
    <3>1. CASE i = 1 /\ j = 1
      BY <3>1
    <3>2. CASE i # 1 /\ j # 1
      <4>1. /\ i - 1 \in 1 .. Len(s) /\ j - 1 \in 1 .. Len(s)
            /\ s[i - 1].id = id /\ s[j - 1].id = id
        BY <1>3, <1>4, <2>1, <3>2
      <4>2. i - 1 = j - 1
        BY <1>3, <1>8, <4>1 DEF OnceOn
      <4> QED BY <4>2
    <3>3. ASSUME i = 1, j # 1 PROVE FALSE
      <4>1. j - 1 \in 1 .. Len(s) /\ s[j - 1].id = id /\ p.id = id
        BY <1>3, <1>4, <2>1, <3>3
      <4> QED BY <1>3, <1>8, <4>1 DEF On
    <3>4. ASSUME i # 1, j = 1 PROVE FALSE
      <4>1. i - 1 \in 1 .. Len(s) /\ s[i - 1].id = id /\ p.id = id
        BY <1>3, <1>4, <2>1, <3>4
      <4> QED BY <1>3, <1>8, <4>1 DEF On
    <3> QED BY <3>1, <3>2, <3>3, <3>4
  <2> QED BY <1>3, <2>1 DEF OnceOn
<1> QED BY <1>7, <1>8 DEF t

\* The four kinds of place: a queue, a ring, the hands of a context, released.
Queued(q, id) == On(txSwQueue[q], id)
Ringed(q, id) == id \in Skbs(txRing[q])
Carried(c, id) == txCtx[c].skb.id = id \/ txCtx[c].next.id = id

Nowhere(id) ==
    /\ \A q \in Queues : ~Queued(q, id)
    /\ \A q \in Rings : ~Ringed(q, id)
    /\ \A c \in Contexts : ~Carried(c, id)
    /\ freed[id] = 0

\* At most one place, and once there.
OnePlace(id) ==
    /\ \A q \in Queues : OnceOn(txSwQueue[q], id)
    /\ \A q, p \in Queues : Queued(q, id) /\ Queued(p, id) => q = p
    /\ \A q, p \in Rings : Ringed(q, id) /\ Ringed(p, id) => q = p
    /\ \A c, d \in Contexts : Carried(c, id) /\ Carried(d, id) => c = d
    /\ freed[id] \in {0, 1}
    /\ \A q \in Queues, p \in Rings : ~(Queued(q, id) /\ Ringed(p, id))
    /\ \A q \in Queues, c \in Contexts : ~(Queued(q, id) /\ Carried(c, id))
    /\ \A q \in Rings, c \in Contexts : ~(Ringed(q, id) /\ Carried(c, id))
    /\ freed[id] = 1 => /\ \A q \in Queues : ~Queued(q, id)
                        /\ \A q \in Rings : ~Ringed(q, id)
                        /\ \A c \in Contexts : ~Carried(c, id)

\* A step that leaves a packet where it is.
SameQueues(id) == \A q \in Queues :
    (Queued(q, id)' <=> Queued(q, id)) /\ (OnceOn(txSwQueue[q], id) => OnceOn(txSwQueue[q], id)')
SameRing(id) == \A q \in Rings : Ringed(q, id)' <=> Ringed(q, id)
SameCtx(id) == \A c \in Contexts : Carried(c, id)' <=> Carried(c, id)

Stays(id) == SameQueues(id) /\ SameRing(id) /\ SameCtx(id) /\ freed'[id] = freed[id]

LEMMA Stay ==
    ASSUME NEW id, Stays(id)
    PROVE  (OnePlace(id) => OnePlace(id)') /\ (Nowhere(id)' <=> Nowhere(id))
<1> USE DEF Stays, SameQueues, SameRing, SameCtx
<1>1. Nowhere(id)' <=> Nowhere(id)
  BY DEF Nowhere
<1>2. OnePlace(id) => OnePlace(id)'
  BY DEF OnePlace
<1> QED BY <1>1, <1>2

\* A step that releases it.
LEMMA Freed ==
    ASSUME NEW id, freed'[id] = 1,
           \A q \in Queues : ~Queued(q, id)' /\ (OnceOn(txSwQueue[q], id))',
           \A q \in Rings : ~Ringed(q, id)', \A c \in Contexts : ~Carried(c, id)'
    PROVE  OnePlace(id)' /\ ~Nowhere(id)'
BY DEF OnePlace, Nowhere

\* A step that puts it on a queue.
LEMMA OnQueue ==
    ASSUME NEW id, NEW q \in Queues, freed'[id] = 0,
           \A x \in Queues : Queued(x, id)' <=> x = q,
           \A x \in Queues : (OnceOn(txSwQueue[x], id))',
           \A x \in Rings : ~Ringed(x, id)', \A c \in Contexts : ~Carried(c, id)'
    PROVE  OnePlace(id)' /\ ~Nowhere(id)'
<1>1. ~Nowhere(id)'
  BY DEF Nowhere
<1>2. \A x, y \in Queues : Queued(x, id)' /\ Queued(y, id)' => x = y
  OBVIOUS
<1>3. OnePlace(id)'
  BY <1>2 DEF OnePlace
<1> QED BY <1>1, <1>3

\* A step that gives it to a context.
LEMMA InHands ==
    ASSUME NEW id, NEW c \in Contexts, freed'[id] = 0,
           \A x \in Contexts : Carried(x, id)' <=> x = c,
           \A x \in Queues : ~Queued(x, id)' /\ (OnceOn(txSwQueue[x], id))',
           \A x \in Rings : ~Ringed(x, id)'
    PROVE  OnePlace(id)' /\ ~Nowhere(id)'
<1>1. ~Nowhere(id)'
  BY DEF Nowhere
<1>2. \A x, y \in Contexts : Carried(x, id)' /\ Carried(y, id)' => x = y
  OBVIOUS
<1>3. OnePlace(id)'
  BY <1>2 DEF OnePlace
<1> QED BY <1>1, <1>3

\* A step that attaches it to a descriptor.
LEMMA OnRing ==
    ASSUME NEW id, NEW q \in Rings, freed'[id] = 0,
           \A x \in Rings : Ringed(x, id)' <=> x = q,
           \A x \in Queues : ~Queued(x, id)' /\ (OnceOn(txSwQueue[x], id))',
           \A x \in Contexts : ~Carried(x, id)'
    PROVE  OnePlace(id)' /\ ~Nowhere(id)'
<1>1. ~Nowhere(id)'
  BY DEF Nowhere
<1>2. \A x, y \in Rings : Ringed(x, id)' /\ Ringed(y, id)' => x = y
  OBVIOUS
<1>3. OnePlace(id)'
  BY <1>2 DEF OnePlace
<1> QED BY <1>1, <1>3

\* What the invariant says of one packet.
Conserved(id) ==
    /\ OnePlace(id)
    /\ id > made => Nowhere(id)
    /\ id <= made /\ ~txFlags.aggregation => ~Nowhere(id)

LEMMA StaysConserved ==
    ASSUME NEW id, Conserved(id), Stays(id), made' = made,
           txFlags'.aggregation = txFlags.aggregation
    PROVE  Conserved(id)'
<1>1. (OnePlace(id) => OnePlace(id)') /\ (Nowhere(id)' <=> Nowhere(id))
  BY Stay
<1> QED BY <1>1 DEF Conserved

LEMMA IdReal == \A id \in Ids : id # None
BY DEF Ids, None

\* A context that waits or is between two packets carries none.
LEMMA EmptyHanded ==
    ASSUME NEW x, GoodCtx(x), x.pc \in {"idle", "enter", "take"}, NEW id \in Ids
    PROVE  x.skb.id # id /\ x.next.id # id
BY IdReal, NoPacketType DEF GoodCtx

LEMMA BecomeCarries ==
    ASSUME TxInv, NEW c \in Contexts, NEW x, GoodCtx(x), Become(c, x), NEW id \in Ids
    PROVE  /\ Carried(c, id)' <=> x.skb.id = id \/ x.next.id = id
           /\ \A d \in Contexts : d # c => (Carried(d, id)' <=> Carried(d, id))
<1>1. \A d \in Contexts : txCtx'[d] = IF d = c THEN x ELSE txCtx[d]
  BY Become1 DEF TxInv
<1> QED BY <1>1 DEF Carried

LEMMA SameHands ==
    ASSUME TxInv, NEW c \in Contexts, NEW x, GoodCtx(x), Become(c, x), NEW id \in Ids,
           x.skb.id = id \/ x.next.id = id <=> Carried(c, id)
    PROVE  SameCtx(id)
<1>1. /\ Carried(c, id)' <=> x.skb.id = id \/ x.next.id = id
      /\ \A d \in Contexts : d # c => (Carried(d, id)' <=> Carried(d, id))
  BY BecomeCarries
<1> QED BY <1>1 DEF SameCtx

\* Both before and after the step the context carries nothing.
LEMMA EmptyHands ==
    ASSUME TxInv, NEW c \in Contexts, txCtx[c].pc \in {"idle", "enter", "take"},
           NEW x, GoodCtx(x), x.pc \in {"idle", "enter", "take"}, Become(c, x), NEW id \in Ids
    PROVE  SameCtx(id)
<1>1. ~Carried(c, id)
  BY EmptyHanded DEF TxInv, CtxInv, Carried
<1>2. x.skb.id # id /\ x.next.id # id
  BY EmptyHanded
<1> QED BY <1>1, <1>2, SameHands

LEMMA SetQueue ==
    ASSUME TxInv, NEW q \in Queues, NEW s, txSwQueue' = [txSwQueue EXCEPT ![q] = s]
    PROVE  /\ \A x \in Queues : txSwQueue'[x] = IF x = q THEN s ELSE txSwQueue[x]
           /\ txSwQueue[q] \in Seq(Sendable)
BY DEF TxInv, QueueInv

\* A queue that gains or loses other packets only.
LEMMA SameOnQueue ==
    ASSUME TxInv, NEW q \in Queues, NEW s, txSwQueue' = [txSwQueue EXCEPT ![q] = s], NEW id,
           On(s, id) <=> On(txSwQueue[q], id), OnceOn(txSwQueue[q], id) => OnceOn(s, id)
    PROVE  SameQueues(id)
<1>1. \A x \in Queues : txSwQueue'[x] = IF x = q THEN s ELSE txSwQueue[x]
  BY SetQueue
<1>2. ASSUME NEW x \in Queues
      PROVE  /\ On(txSwQueue'[x], id) <=> On(txSwQueue[x], id)
             /\ OnceOn(txSwQueue[x], id) => OnceOn(txSwQueue'[x], id)
  <2>1. CASE x = q
    BY <1>1, <2>1
  <2>2. CASE x # q
    BY <1>1, <2>2
  <2> QED BY <2>1, <2>2
<1>3. \A x \in Queues : /\ Queued(x, id)' <=> On(txSwQueue'[x], id)
                        /\ Queued(x, id) <=> On(txSwQueue[x], id)
                        /\ OnceOn(txSwQueue[x], id)' <=> OnceOn(txSwQueue'[x], id)
  BY DEF Queued, On, OnceOn
<1> QED BY <1>2, <1>3 DEF SameQueues

LEMMA QueuesUnchanged == ASSUME UNCHANGED txSwQueue, NEW id PROVE SameQueues(id)
BY DEF SameQueues, Queued, On, OnceOn

LEMMA RingsUnchanged == ASSUME UNCHANGED txRing, NEW id PROVE SameRing(id)
BY DEF SameRing, Ringed, Skbs

LEMMA SkbsUnchanged ==
    ASSUME \A q \in Rings : Skbs(txRing'[q]) = Skbs(txRing[q]), NEW id PROVE SameRing(id)
<1>1. \A q \in Rings : Ringed(q, id)' <=> id \in Skbs(txRing'[q])
  BY DEF Ringed, Skbs
<1> QED BY <1>1 DEF SameRing, Ringed

LEMMA CtxUnchanged == ASSUME UNCHANGED txCtx, NEW id PROVE SameCtx(id)
BY DEF SameCtx, Carried

\* Between a queue and the hands of a context.
LEMMA QueuedNow ==
    ASSUME TxInv, NEW q \in Queues, NEW s, txSwQueue' = [txSwQueue EXCEPT ![q] = s], NEW id,
           OnceOn(s, id), \A x \in Queues : x # q => ~Queued(x, id) /\ OnceOn(txSwQueue[x], id)
    PROVE  /\ \A x \in Queues : Queued(x, id)' <=> x = q /\ On(s, id)
           /\ \A x \in Queues : OnceOn(txSwQueue[x], id)'
<1>1. \A x \in Queues : txSwQueue'[x] = IF x = q THEN s ELSE txSwQueue[x]
  BY SetQueue
<1>2. ASSUME NEW x \in Queues
      PROVE  /\ On(txSwQueue'[x], id) <=> x = q /\ On(s, id)
             /\ OnceOn(txSwQueue'[x], id)
  <2>1. CASE x = q
    BY <1>1, <2>1
  <2>2. CASE x # q
    BY <1>1, <2>2 DEF Queued
  <2> QED BY <2>1, <2>2
<1>3. \A x \in Queues : /\ Queued(x, id)' <=> On(txSwQueue'[x], id)
                        /\ OnceOn(txSwQueue[x], id)' <=> OnceOn(txSwQueue'[x], id)
  BY DEF Queued, On, OnceOn
<1> QED BY <1>2, <1>3

\* Every packet is conserved.
PlaceInv == \A id \in Ids : Conserved(id)

LEMMA HandOverPlace ==
    ASSUME TxInv, PlaceInv, NEW c \in Contexts, NEW eapol \in BOOLEAN, HandOver(c, eapol)
    PROVE  PlaceInv'
<1>1. PICK q \in Queues, n \in 1 .. MaxFrags :
        /\ made < MaxTxPackets /\ made' = made + 1 /\ txCtx[c].pc = "idle"
        /\ txSwQueue' = [txSwQueue EXCEPT ![q] =
                Append(@, [id |-> made + 1, frags |-> n, eapol |-> eapol])]
        /\ Become(c, Enter(AllQueues))
        /\ UNCHANGED <<txRing, txFlags, freed>>
  BY DEF HandOver
<1> DEFINE p == [id |-> made + 1, frags |-> n, eapol |-> eapol]
           s == Append(txSwQueue[q], p)
<1>2. p \in Sendable /\ p.id = made + 1 /\ made \in Nat
  <2>1. made + 1 \in Ids /\ made + 1 # None /\ made \in Nat
    BY <1>1, TxBoundAssumption DEF TxInv, RestInv, Ids, None
  <2>2. n \in Nat \ {0}
    BY TxCountAssumption
  <2> QED BY <2>1, <2>2 DEF Sendable, Packet, Id
<1>3. txSwQueue' = [txSwQueue EXCEPT ![q] = s] /\ txSwQueue[q] \in Seq(Sendable)
  BY <1>1 DEF TxInv, QueueInv
<1> HIDE DEF p
<1>4. SUFFICES ASSUME NEW id \in Ids PROVE Conserved(id)'
  BY DEF PlaceInv
<1>5. Conserved(id) /\ id \in Nat
  BY DEF PlaceInv, Ids
<1>6. SameCtx(id) /\ SameRing(id) /\ freed'[id] = freed[id]
  BY <1>1, EmptyHands, EnterGood, AllQueuesType, RingsUnchanged
<1>7. /\ On(s, id) <=> On(txSwQueue[q], id) \/ p.id = id
      /\ OnceOn(txSwQueue[q], id) /\ (p.id = id => ~On(txSwQueue[q], id)) => OnceOn(s, id)
  BY <1>2, <1>3, AppendList
<1> HIDE DEF s
<1>8. CASE id # made + 1
  <2>1. SameQueues(id)
    BY <1>2, <1>3, <1>7, <1>8, SameOnQueue
  <2>2. (OnePlace(id) => OnePlace(id)') /\ (Nowhere(id)' <=> Nowhere(id))
    BY <1>6, <2>1, Stay DEF Stays
  <2> QED BY <1>1, <1>2, <1>5, <1>8, <2>2 DEF Conserved
<1>9. CASE id = made + 1
  <2>1. Nowhere(id) /\ OnePlace(id)
    BY <1>2, <1>5, <1>9 DEF Conserved
  <2>2. On(s, id) /\ OnceOn(s, id)
    BY <1>2, <1>7, <1>9, <2>1 DEF Nowhere, OnePlace, Queued
  <2>3. /\ \A x \in Queues : Queued(x, id)' <=> x = q
        /\ \A x \in Queues : OnceOn(txSwQueue[x], id)'
    BY <1>3, <2>1, <2>2, QueuedNow DEF Nowhere, OnePlace
  <2>4. /\ \A x \in Rings : ~Ringed(x, id)'
        /\ \A d \in Contexts : ~Carried(d, id)'
        /\ freed'[id] = 0
    BY <1>6, <2>1 DEF SameCtx, SameRing, Nowhere
  <2>5. OnePlace(id)' /\ ~Nowhere(id)'
    BY <2>3, <2>4, OnQueue
  <2>6. ~(id > made')
    BY <1>1, <1>2, <1>9
  <2> QED BY <2>5, <2>6 DEF Conserved
<1> QED BY <1>8, <1>9

LEMMA DropUnlinkedPlace == ASSUME TxInv, PlaceInv, DropUnlinked PROVE PlaceInv'
<1>1. /\ made' = made + 1 /\ made \in Nat /\ Release({made + 1})
      /\ UNCHANGED <<txSwQueue, txRing, txCtx, txFlags>>
  BY TxBoundAssumption DEF DropUnlinked, TxInv, RestInv
<1>2. SUFFICES ASSUME NEW id \in Ids PROVE Conserved(id)'
  BY DEF PlaceInv
<1>3. Conserved(id) /\ id \in Nat
  BY DEF PlaceInv, Ids
<1>4. SameQueues(id) /\ SameRing(id) /\ SameCtx(id)
  BY <1>1, QueuesUnchanged, RingsUnchanged, CtxUnchanged
<1>5. freed'[id] = IF id = made + 1 THEN freed[id] + 1 ELSE freed[id]
  BY <1>1, ReleaseType DEF TxInv, RestInv
<1>6. CASE id # made + 1
  <2>1. (OnePlace(id) => OnePlace(id)') /\ (Nowhere(id)' <=> Nowhere(id))
    BY <1>4, <1>5, <1>6, Stay DEF Stays
  <2> QED BY <1>1, <1>3, <1>6, <2>1 DEF Conserved
<1>7. CASE id = made + 1
  <2>1. Nowhere(id) /\ OnePlace(id)
    BY <1>1, <1>3, <1>7 DEF Conserved
  <2>2. freed'[id] = 1
    BY <1>5, <1>7, <2>1 DEF Nowhere
  <2>3. OnePlace(id)' /\ ~Nowhere(id)'
    BY <1>4, <2>1, <2>2, Freed DEF Nowhere, OnePlace, SameQueues, SameRing, SameCtx
  <2>4. ~(id > made')
    BY <1>1, <1>7
  <2> QED BY <2>3, <2>4 DEF Conserved
<1> QED BY <1>6, <1>7

LEMMA CheckFlagsPlace ==
    ASSUME TxInv, PlaceInv, NEW c \in Contexts, CheckFlags(c) PROVE PlaceInv'
<1> DEFINE y == [txCtx[c] EXCEPT !.pc = "take"]
<1>1. /\ GoodCtx(txCtx[c]) /\ txCtx[c].pc = "enter"
      /\ UNCHANGED <<txSwQueue, txRing, txFlags, freed, made>>
      /\ Become(c, NextQueue(c)) \/ Become(c, y)
  BY DEF TxInv, CtxInv, CheckFlags
<1>2. SUFFICES ASSUME NEW id \in Ids PROVE SameCtx(id)
  BY <1>1, QueuesUnchanged, RingsUnchanged, StaysConserved DEF PlaceInv, Stays
<1>3. CASE Become(c, NextQueue(c))
  BY <1>1, <1>3, NextQueueGood, EmptyHands
<1>4. CASE Become(c, y)
  <2>1. GoodCtx(y) /\ y.pc = "take"
    <3>1. txCtx[c] \in Ctx /\ "take" \in Pcs
      BY <1>1 DEF GoodCtx, Pcs
    <3>2. /\ y \in Ctx /\ y.pc = "take" /\ y.todo = txCtx[c].todo /\ y.skb = txCtx[c].skb
          /\ y.next = txCtx[c].next
      BY <3>1 DEF Ctx
    <3> HIDE DEF y
    <3> QED BY <1>1, <3>2 DEF GoodCtx
  <2> HIDE DEF y
  <2> QED BY <1>1, <1>4, <2>1, EmptyHands
<1> QED BY <1>1, <1>3, <1>4

\* The step leaves the packets of the context as they are and changes only its position.
LEMMA StepsOn ==
    ASSUME TxInv, PlaceInv, NEW c \in Contexts, NEW x, GoodCtx(x), Become(c, x),
           x.skb = txCtx[c].skb, x.next = txCtx[c].next,
           UNCHANGED <<txSwQueue, txFlags, freed, made>>,
           \A q \in Rings : Skbs(txRing'[q]) = Skbs(txRing[q])
    PROVE  PlaceInv'
<1> SUFFICES ASSUME NEW id \in Ids PROVE SameCtx(id)
  BY QueuesUnchanged, SkbsUnchanged, StaysConserved DEF PlaceInv, Stays
<1> QED BY SameHands DEF Carried

LEMMA Moves ==
    ASSUME NEW id, Conserved(id), ~Nowhere(id), made' = made, OnePlace(id)', ~Nowhere(id)'
    PROVE  Conserved(id)'
BY DEF Conserved

LEMMA TakePlace == ASSUME TxInv, PlaceInv, NEW c \in Contexts, Take(c) PROVE PlaceInv'
<1> DEFINE q == Head(txCtx[c].todo)
<1>1. GoodCtx(txCtx[c]) /\ txCtx[c].pc = "take" /\ q \in Queues
  BY TodoQueue DEF TxInv, CtxInv, Take
<1>2. UNCHANGED <<txRing, txFlags, freed, made>>
  BY DEF Take
<1>3. CASE Become(c, NextQueue(c)) /\ UNCHANGED txSwQueue
  <2> SUFFICES ASSUME NEW id \in Ids PROVE SameCtx(id)
    BY <1>2, <1>3, QueuesUnchanged, RingsUnchanged, StaysConserved DEF PlaceInv, Stays
  <2> QED BY <1>1, <1>3, NextQueueGood, EmptyHands
<1>4. CASE /\ txSwQueue[q] # <<>> /\ txSwQueue' = [txSwQueue EXCEPT ![q] = Tail(@)]
           /\ Become(c, [txCtx[c] EXCEPT !.pc = "check", !.skb = Head(txSwQueue[q])])
  <2> DEFINE p == Head(txSwQueue[q])
             s == Tail(txSwQueue[q])
             y == [txCtx[c] EXCEPT !.pc = "check", !.skb = p]
  <2>1. txSwQueue[q] \in Seq(Sendable) /\ txSwQueue' = [txSwQueue EXCEPT ![q] = s]
    BY <1>1, <1>4 DEF TxInv, QueueInv
  <2>2. p \in Sendable
    BY <1>4, <2>1, HeadTailProperties
  <2>3. GoodCtx(y) /\ y.next = NoPacket /\ y.skb = p
    <3>1. txCtx[c] \in Ctx /\ "check" \in Pcs /\ p \in Packet /\ p # NoPacket /\ p.id # None
      BY <1>1, <2>2, NoPacketType DEF GoodCtx, Pcs, Sendable
    <3> HIDE DEF p
    <3>2. /\ y \in Ctx /\ y.pc = "check" /\ y.todo = txCtx[c].todo /\ y.skb = p
          /\ y.next = txCtx[c].next
      BY <3>1 DEF Ctx
    <3> HIDE DEF y
    <3> QED BY <1>1, <3>1, <3>2 DEF GoodCtx
  <2>4. Become(c, y)
    BY <1>4
  <2>5. SUFFICES ASSUME NEW id \in Ids PROVE Conserved(id)'
    BY DEF PlaceInv
  <2>6. Conserved(id) /\ ~Carried(c, id) /\ id # None
    BY <1>1, EmptyHanded, IdReal DEF PlaceInv, Carried
  <2>7. /\ On(txSwQueue[q], id) <=> p.id = id \/ On(s, id)
        /\ OnceOn(txSwQueue[q], id) => OnceOn(s, id) /\ (p.id = id => ~On(s, id))
    BY <1>4, <2>1, TailList
  <2> HIDE DEF p, s, y, q
  <2>8. SameRing(id) /\ freed'[id] = freed[id]
    BY <1>2, RingsUnchanged
  <2>9. CASE p.id = id
    <3>1. OnePlace(id) /\ Queued(q, id)
      BY <2>6, <2>7, <2>9 DEF Conserved, Queued
    <3>2. /\ OnceOn(s, id) /\ ~On(s, id) /\ ~Nowhere(id)
          /\ \A x \in Queues : x # q => ~Queued(x, id) /\ OnceOn(txSwQueue[x], id)
      BY <1>1, <2>7, <2>9, <3>1 DEF OnePlace, Nowhere
    <3>3. \A x \in Queues : ~Queued(x, id)' /\ (OnceOn(txSwQueue[x], id))'
      BY <1>1, <2>1, <3>2, QueuedNow
    <3>4. /\ \A x \in Rings : ~Ringed(x, id)'
          /\ \A d \in Contexts : ~Carried(d, id)
          /\ freed'[id] = 0
      BY <1>1, <2>8, <3>1 DEF OnePlace, SameRing
    <3>5. \A d \in Contexts : Carried(d, id)' <=> d = c
      BY <2>3, <2>4, <2>9, <3>4, BecomeCarries
    <3>6. OnePlace(id)' /\ ~Nowhere(id)'
      BY <3>3, <3>4, <3>5, InHands
    <3> QED BY <1>2, <2>6, <3>2, <3>6, Moves
  <2>10. CASE p.id # id
    <3>1. SameQueues(id)
      BY <1>1, <2>1, <2>7, <2>10, SameOnQueue
    <3>2. SameCtx(id)
      BY <2>3, <2>4, <2>6, <2>10, NoPacketType, SameHands
    <3> QED BY <1>2, <2>6, <2>8, <3>1, <3>2, StaysConserved DEF Stays
  <2> QED BY <2>9, <2>10
<1> QED BY <1>3, <1>4 DEF Take

LEMMA CheckPlace == ASSUME TxInv, PlaceInv, NEW c \in Contexts, Check(c) PROVE PlaceInv'
<1> DEFINE q == Head(txCtx[c].todo)
           p == txCtx[c].skb
           s == <<p>> \o txSwQueue[q]
<1>1. GoodCtx(txCtx[c]) /\ txCtx[c].pc = "check" /\ q \in Queues
  BY TodoQueue DEF TxInv, CtxInv, Check
<1>2. UNCHANGED <<txRing, txFlags, freed, made>>
  BY DEF Check
<1>3. p \in Sendable /\ txSwQueue[q] \in Seq(Sendable) /\ txCtx[c].next = NoPacket
  BY <1>1 DEF GoodCtx, Ctx, Sendable, TxInv, QueueInv
<1>4. CASE Become(c, [txCtx[c] EXCEPT !.pc = "aggregate"]) /\ UNCHANGED txSwQueue
  <2> DEFINE y == [txCtx[c] EXCEPT !.pc = "aggregate"]
  <2>1. GoodCtx(y) /\ y.next = txCtx[c].next /\ y.skb = txCtx[c].skb
    <3>1. txCtx[c] \in Ctx /\ "aggregate" \in Pcs
      BY <1>1 DEF GoodCtx, Pcs
    <3>2. /\ y \in Ctx /\ y.pc = "aggregate" /\ y.todo = txCtx[c].todo
          /\ y.skb = txCtx[c].skb /\ y.next = txCtx[c].next
      BY <3>1 DEF Ctx
    <3> HIDE DEF y
    <3> QED BY <1>1, <3>2 DEF GoodCtx
  <2>2. Become(c, y)
    BY <1>4
  <2> HIDE DEF y
  <2> QED BY <1>2, <1>4, <2>1, <2>2, StepsOn
<1>5. CASE txSwQueue' = [txSwQueue EXCEPT ![q] = s] /\ Become(c, NextQueue(c))
  <2>1. SUFFICES ASSUME NEW id \in Ids PROVE Conserved(id)'
    BY DEF PlaceInv
  <2>2. Conserved(id) /\ id # None /\ (Carried(c, id) <=> p.id = id)
    BY <1>3, IdReal, NoPacketType DEF PlaceInv, Carried
  <2>3. /\ On(s, id) <=> On(txSwQueue[q], id) \/ p.id = id
        /\ OnceOn(txSwQueue[q], id) /\ (p.id = id => ~On(txSwQueue[q], id)) => OnceOn(s, id)
    BY <1>3, FrontList
  <2>4. /\ GoodCtx(NextQueue(c)) /\ NextQueue(c).skb.id # id /\ NextQueue(c).next.id # id
    BY <1>1, <2>2, NextQueueGood, NoPacketType
  <2>5. SameRing(id) /\ freed'[id] = freed[id]
    BY <1>2, RingsUnchanged
  <2> HIDE DEF p, s, q
  <2>6. CASE p.id = id
    <3>1. OnePlace(id) /\ Carried(c, id) /\ ~Nowhere(id)
      BY <2>2, <2>6 DEF Conserved, Nowhere
    <3>2. /\ \A x \in Queues : ~Queued(x, id) /\ OnceOn(txSwQueue[x], id)
          /\ \A x \in Rings : ~Ringed(x, id)'
          /\ \A d \in Contexts : Carried(d, id) => d = c
          /\ freed'[id] = 0
      BY <2>5, <3>1 DEF OnePlace, SameRing
    <3>3. On(s, id) /\ OnceOn(s, id)
      BY <1>1, <2>3, <2>6, <3>2 DEF Queued
    <3>4. /\ \A x \in Queues : Queued(x, id)' <=> x = q
          /\ \A x \in Queues : (OnceOn(txSwQueue[x], id))'
      BY <1>1, <1>5, <3>2, <3>3, QueuedNow
    <3>5. \A d \in Contexts : ~Carried(d, id)'
      BY <1>5, <2>4, <3>2, BecomeCarries
    <3>6. OnePlace(id)' /\ ~Nowhere(id)'
      BY <1>1, <3>2, <3>4, <3>5, OnQueue
    <3> QED BY <1>2, <2>2, <3>1, <3>6, Moves
  <2>7. CASE p.id # id
    <3>1. SameQueues(id)
      BY <1>1, <1>5, <2>3, <2>7, SameOnQueue
    <3>2. SameCtx(id)
      BY <1>5, <2>2, <2>4, <2>7, SameHands
    <3> QED BY <1>2, <2>2, <2>5, <3>1, <3>2, StaysConserved DEF Stays
  <2> QED BY <2>6, <2>7
<1> QED BY <1>4, <1>5 DEF Check

LEMMA AggregatePlace == ASSUME TxInv, PlaceInv, NEW c \in Contexts, Aggregate(c) PROVE PlaceInv'
<1> DEFINE q == Head(txCtx[c].todo)
<1>1. GoodCtx(txCtx[c]) /\ txCtx[c].pc = "aggregate" /\ q \in Queues
  BY TodoQueue DEF TxInv, CtxInv, Aggregate
<1>2. UNCHANGED <<txRing, txFlags, freed, made>>
  BY DEF Aggregate
<1>3. CASE Become(c, [txCtx[c] EXCEPT !.pc = "send"]) /\ UNCHANGED txSwQueue
  <2> DEFINE y == [txCtx[c] EXCEPT !.pc = "send"]
  <2>1. GoodCtx(y) /\ y.next = txCtx[c].next /\ y.skb = txCtx[c].skb
    <3>1. txCtx[c] \in Ctx /\ "send" \in Pcs
      BY <1>1 DEF GoodCtx, Pcs
    <3>2. /\ y \in Ctx /\ y.pc = "send" /\ y.todo = txCtx[c].todo
          /\ y.skb = txCtx[c].skb /\ y.next = txCtx[c].next
      BY <3>1 DEF Ctx
    <3> HIDE DEF y
    <3> QED BY <1>1, <3>2 DEF GoodCtx
  <2>2. Become(c, y)
    BY <1>3
  <2> HIDE DEF y
  <2> QED BY <1>2, <1>3, <2>1, <2>2, StepsOn
<1>4. CASE /\ txSwQueue[q] # <<>>
           /\ txSwQueue' = [txSwQueue EXCEPT ![q] = Tail(@)]
           /\ Become(c, [txCtx[c] EXCEPT !.pc = "send", !.next = Head(txSwQueue[q])])
  <2> DEFINE p == Head(txSwQueue[q])
             s == Tail(txSwQueue[q])
             y == [txCtx[c] EXCEPT !.pc = "send", !.next = p]
  <2>1. txSwQueue[q] \in Seq(Sendable) /\ txSwQueue' = [txSwQueue EXCEPT ![q] = s]
    BY <1>1, <1>4 DEF TxInv, QueueInv
  <2>2. p \in Sendable
    BY <1>4, <2>1, HeadTailProperties
  <2>3. GoodCtx(y) /\ y.next = p /\ y.skb = txCtx[c].skb
    <3>1. txCtx[c] \in Ctx /\ "send" \in Pcs /\ p \in Packet /\ p.id # None
      BY <1>1, <2>2 DEF GoodCtx, Pcs, Sendable
    <3> HIDE DEF p
    <3>2. /\ y \in Ctx /\ y.pc = "send" /\ y.todo = txCtx[c].todo /\ y.skb = txCtx[c].skb
          /\ y.next = p
      BY <3>1 DEF Ctx
    <3> HIDE DEF y
    <3> QED BY <1>1, <3>1, <3>2 DEF GoodCtx
  <2>4. Become(c, y)
    BY <1>4
  <2>5. SUFFICES ASSUME NEW id \in Ids PROVE Conserved(id)'
    BY DEF PlaceInv
  <2>6. Conserved(id) /\ id # None /\ (Carried(c, id) <=> txCtx[c].skb.id = id)
    BY <1>1, IdReal, NoPacketType DEF PlaceInv, Carried, GoodCtx
  <2>7. /\ On(txSwQueue[q], id) <=> p.id = id \/ On(s, id)
        /\ OnceOn(txSwQueue[q], id) => OnceOn(s, id) /\ (p.id = id => ~On(s, id))
    BY <1>4, <2>1, TailList
  <2> HIDE DEF p, s, y, q
  <2>8. SameRing(id) /\ freed'[id] = freed[id]
    BY <1>2, RingsUnchanged
  <2>9. CASE p.id = id
    <3>1. OnePlace(id) /\ Queued(q, id)
      BY <2>6, <2>7, <2>9 DEF Conserved, Queued
    <3>2. /\ OnceOn(s, id) /\ ~On(s, id) /\ ~Nowhere(id)
          /\ \A x \in Queues : x # q => ~Queued(x, id) /\ OnceOn(txSwQueue[x], id)
      BY <1>1, <2>7, <2>9, <3>1 DEF OnePlace, Nowhere
    <3>3. \A x \in Queues : ~Queued(x, id)' /\ (OnceOn(txSwQueue[x], id))'
      BY <1>1, <2>1, <3>2, QueuedNow
    <3>4. /\ \A x \in Rings : ~Ringed(x, id)'
          /\ \A d \in Contexts : ~Carried(d, id)
          /\ freed'[id] = 0
      BY <1>1, <2>8, <3>1 DEF OnePlace, SameRing
    <3>5. \A d \in Contexts : Carried(d, id)' <=> d = c
      BY <2>3, <2>4, <2>9, <3>4, BecomeCarries
    <3>6. OnePlace(id)' /\ ~Nowhere(id)'
      BY <3>3, <3>4, <3>5, InHands
    <3> QED BY <1>2, <2>6, <3>2, <3>6, Moves
  <2>10. CASE p.id # id
    <3>1. SameQueues(id)
      BY <1>1, <2>1, <2>7, <2>10, SameOnQueue
    <3>2. SameCtx(id)
      BY <2>3, <2>4, <2>6, <2>10, SameHands
    <3> QED BY <1>2, <2>6, <2>8, <3>1, <3>2, StaysConserved DEF Stays
  <2> QED BY <2>9, <2>10
<1> QED BY <1>3, <1>4 DEF Aggregate

\* The packet in hand is released; the one taken along, which only aggregation has, is lost.
LEMMA DropPlace == ASSUME TxInv, PlaceInv, NEW c \in Contexts, Drop(c) PROVE PlaceInv'
<1> DEFINE p == txCtx[c].skb
           next == txCtx[c].next
<1>1. /\ GoodCtx(txCtx[c]) /\ txCtx[c].pc = "send" /\ Become(c, NextQueue(c))
      /\ Release({p.id})
      /\ UNCHANGED <<txSwQueue, txRing, txFlags, made>>
  BY DEF TxInv, CtxInv, Drop
<1>2. SUFFICES ASSUME NEW id \in Ids PROVE Conserved(id)'
  BY DEF PlaceInv
<1>3. Conserved(id) /\ id # None /\ (Carried(c, id) <=> p.id = id \/ next.id = id)
  BY IdReal DEF PlaceInv, Carried
<1>4. GoodCtx(NextQueue(c)) /\ NextQueue(c).skb.id # id /\ NextQueue(c).next.id # id
  BY <1>1, <1>3, NextQueueGood, NoPacketType
<1>5. SameQueues(id) /\ SameRing(id)
  BY <1>1, QueuesUnchanged, RingsUnchanged
<1>6. freed'[id] = IF id = p.id THEN freed[id] + 1 ELSE freed[id]
  BY <1>1, ReleaseType DEF TxInv, RestInv
<1>7. ~txFlags.aggregation => next.id # id
  BY <1>3, NoPacketType DEF TxInv, LoneInv
<1> HIDE DEF p, next
<1>8. CASE Carried(c, id)
  <2>1. OnePlace(id) /\ ~Nowhere(id)
    BY <1>3, <1>8 DEF Conserved, Nowhere
  <2>2. /\ \A x \in Queues : ~Queued(x, id)' /\ (OnceOn(txSwQueue[x], id))'
        /\ \A x \in Rings : ~Ringed(x, id)'
        /\ \A d \in Contexts : Carried(d, id) => d = c
        /\ freed[id] = 0
    BY <1>5, <1>8, <2>1 DEF OnePlace, SameRing, SameQueues
  <2>3. \A d \in Contexts : ~Carried(d, id)'
    BY <1>1, <1>4, <2>2, BecomeCarries
  <2>4. CASE id = p.id
    <3>1. freed'[id] = 1
      BY <1>6, <2>2, <2>4
    <3>2. OnePlace(id)' /\ ~Nowhere(id)'
      BY <2>2, <2>3, <3>1, Freed
    <3> QED BY <1>1, <1>3, <2>1, <3>2, Moves
  <2>5. CASE id # p.id
    <3>1. next.id = id /\ txFlags.aggregation /\ freed'[id] = 0
      BY <1>3, <1>6, <1>7, <1>8, <2>2, <2>5
    <3>2. OnePlace(id)' /\ ~(id > made)
      BY <1>3, <2>1, <2>2, <2>3, <3>1 DEF OnePlace, Conserved
    <3> QED BY <1>1, <3>1, <3>2 DEF Conserved
  <2> QED BY <2>4, <2>5
<1>9. CASE ~Carried(c, id)
  <2>1. SameCtx(id)
    BY <1>1, <1>4, <1>9, SameHands
  <2>2. freed'[id] = freed[id]
    BY <1>3, <1>6, <1>9
  <2> QED BY <1>1, <1>3, <1>5, <2>1, <2>2, StaysConserved DEF Stays
<1> QED BY <1>8, <1>9

LEMMA ProtectPlace == ASSUME TxInv, PlaceInv, NEW c \in Contexts, Protect(c) PROVE PlaceInv'
<1> DEFINE y == [txCtx[c] EXCEPT !.pc = "fragments"]
<1>1. /\ GoodCtx(txCtx[c]) /\ txCtx[c].pc = "send" /\ Become(c, y)
      /\ UNCHANGED <<txSwQueue, txFlags, freed, made>>
  BY DEF TxInv, CtxInv, Protect
<1>2. GoodCtx(y) /\ y.next = txCtx[c].next /\ y.skb = txCtx[c].skb
  <2>1. txCtx[c] \in Ctx /\ "fragments" \in Pcs
    BY <1>1 DEF GoodCtx, Pcs
  <2>2. /\ y \in Ctx /\ y.pc = "fragments" /\ y.todo = txCtx[c].todo
        /\ y.skb = txCtx[c].skb /\ y.next = txCtx[c].next
    BY <2>1 DEF Ctx
  <2> HIDE DEF y
  <2> QED BY <1>1, <2>2 DEF GoodCtx
<1> HIDE DEF y
<1> QED BY <1>1, <1>2, ProtectRing, StepsOn

LEMMA TransmitPlace == ASSUME TxInv, PlaceInv, NEW c \in Contexts, Transmit(c) PROVE PlaceInv'
<1> DEFINE q == Head(txCtx[c].todo)
           p == txCtx[c].skb
           next == txCtx[c].next
           fits == Room(txRing[q]) >= p.frags
           y == [txCtx[c] EXCEPT !.pc = "take", !.skb = NoPacket, !.next = NoPacket, !.n = @ + 1]
<1>1. GoodCtx(txCtx[c]) /\ txCtx[c].pc = "fragments" /\ c \in DOMAIN txCtx
  BY DEF TxInv, CtxInv, Transmit
<1>2. UNCHANGED <<txSwQueue, txFlags, made>> /\ q \in Rings
      /\ \A x \in Rings : Skbs(txRing'[x]) =
            IF x = q /\ fits THEN Skbs(txRing[x]) \cup ({p.id, next.id} \ {None})
            ELSE Skbs(txRing[x])
  BY TransmitRing DEF Transmit
<1>3. PICK x : Become(c, x) /\ x.pc \in {"idle", "enter", "take"}
  <2>1. NextQueue(c).pc \in {"idle", "enter", "take"}
    BY <1>1, NextQueueGood
  <2>2. y.pc = "take"
    BY <1>1 DEF GoodCtx, Ctx
  <2> QED BY <2>1, <2>2 DEF Transmit
<1>4. IF fits THEN UNCHANGED freed ELSE Release({p.id, next.id} \ {None})
  BY DEF Transmit, Unsent
<1>5. GoodCtx(x)
  <2>1. txCtx'[c] = x
    BY <1>1, <1>3 DEF Become
  <2>2. TxInv'
    BY TransmitType
  <2> QED BY <2>1, <2>2 DEF TxInv, CtxInv
<1>6. SUFFICES ASSUME NEW id \in Ids PROVE Conserved(id)'
  BY DEF PlaceInv
<1>7. Conserved(id) /\ id # None /\ (Carried(c, id) <=> p.id = id \/ next.id = id)
  BY IdReal DEF PlaceInv, Carried
<1>8. x.skb.id # id /\ x.next.id # id
  BY <1>3, <1>5, EmptyHanded
<1>9. SameQueues(id)
  BY <1>2, QueuesUnchanged
<1> HIDE DEF p, next, fits, q, y
<1>10. \A r \in Rings : Ringed(r, id)' <=> Ringed(r, id) \/ (r = q /\ fits /\ Carried(c, id))
  <2>1. \A r \in Rings : Ringed(r, id)' <=> id \in Skbs(txRing'[r])
    BY DEF Ringed, Skbs
  <2> QED BY <1>2, <1>7, <2>1 DEF Ringed
<1>11. freed'[id] = IF ~fits /\ Carried(c, id) THEN freed[id] + 1 ELSE freed[id]
  <2>1. CASE fits
    BY <1>4, <2>1
  <2>2. CASE ~fits
    <3>1. freed'[id] = IF id \in {p.id, next.id} \ {None} THEN freed[id] + 1 ELSE freed[id]
      BY <1>4, <2>2, ReleaseType DEF TxInv, RestInv
    <3> QED BY <1>7, <2>2, <3>1
  <2> QED BY <2>1, <2>2
<1>12. CASE Carried(c, id)
  <2>1. OnePlace(id) /\ ~Nowhere(id)
    BY <1>7, <1>12 DEF Conserved, Nowhere
  <2>2. /\ \A z \in Queues : ~Queued(z, id)' /\ (OnceOn(txSwQueue[z], id))'
        /\ \A z \in Rings : ~Ringed(z, id)
        /\ \A d \in Contexts : Carried(d, id) => d = c
        /\ freed[id] = 0
    BY <1>9, <1>12, <2>1 DEF OnePlace, SameQueues
  <2>3. \A d \in Contexts : ~Carried(d, id)'
    BY <1>3, <1>5, <1>8, <2>2, BecomeCarries
  <2>4. CASE fits
    <3>1. freed'[id] = 0 /\ \A z \in Rings : Ringed(z, id)' <=> z = q
      BY <1>10, <1>11, <1>12, <2>2, <2>4
    <3>2. OnePlace(id)' /\ ~Nowhere(id)'
      BY <1>2, <2>2, <2>3, <3>1, OnRing
    <3> QED BY <1>2, <1>7, <2>1, <3>2, Moves
  <2>5. CASE ~fits
    <3>1. freed'[id] = 1 /\ \A z \in Rings : ~Ringed(z, id)'
      BY <1>10, <1>11, <1>12, <2>2, <2>5
    <3>2. OnePlace(id)' /\ ~Nowhere(id)'
      BY <2>2, <2>3, <3>1, Freed
    <3> QED BY <1>2, <1>7, <2>1, <3>2, Moves
  <2> QED BY <2>4, <2>5
<1>13. CASE ~Carried(c, id)
  <2>1. SameCtx(id) /\ SameRing(id) /\ freed'[id] = freed[id]
    BY <1>3, <1>5, <1>8, <1>10, <1>11, <1>13, SameHands DEF SameRing
  <2> QED BY <1>2, <1>7, <1>9, <2>1, StaysConserved DEF Stays
<1> QED BY <1>12, <1>13

\* Steps that touch neither queues nor contexts nor what is released.
LEMMA RingsOnly ==
    ASSUME PlaceInv, UNCHANGED <<txSwQueue, txCtx, freed, made>>,
           txFlags'.aggregation = txFlags.aggregation,
           \A q \in Rings : Skbs(txRing'[q]) = Skbs(txRing[q])
    PROVE  PlaceInv'
BY QueuesUnchanged, SkbsUnchanged, CtxUnchanged, StaysConserved DEF PlaceInv, Stays

LEMMA MMRequestPlace == ASSUME TxInv, PlaceInv, MMRequest PROVE PlaceInv'
<1>1. UNCHANGED <<txSwQueue, txCtx, txFlags>> /\ made' = made + 1 /\ made \in Nat
      /\ "MGMT" \in Rings
  BY DEF MMRequest, TxInv, RestInv, Rings
<1>2. SUFFICES ASSUME NEW id \in Ids PROVE Conserved(id)'
  BY DEF PlaceInv
<1>3. Conserved(id) /\ id \in Nat /\ SameQueues(id) /\ SameCtx(id)
  BY <1>1, QueuesUnchanged, CtxUnchanged DEF PlaceInv, Ids
<1>4. \A x \in Rings : Ringed(x, id)' <=> id \in Skbs(txRing'[x])
  BY DEF Ringed, Skbs
<1>5. CASE id # made + 1
  <2>1. SameRing(id)
    BY <1>4, <1>5, MMRequestRing DEF SameRing, Ringed
  <2>2. freed'[id] = freed[id]
    BY <1>5, MMRequestRing, ReleaseType DEF TxInv, RestInv
  <2>3. (OnePlace(id) => OnePlace(id)') /\ (Nowhere(id)' <=> Nowhere(id))
    BY <1>3, <2>1, <2>2, Stay DEF Stays
  <2> QED BY <1>1, <1>3, <1>5, <2>3 DEF Conserved
<1>6. CASE id = made + 1
  <2>1. Nowhere(id) /\ OnePlace(id) /\ ~(id > made')
    BY <1>1, <1>3, <1>6 DEF Conserved
  <2>2. /\ \A x \in Queues : ~Queued(x, id)' /\ (OnceOn(txSwQueue[x], id))'
        /\ \A x \in Contexts : ~Carried(x, id)'
        /\ \A x \in Rings : ~Ringed(x, id)
        /\ freed[id] = 0
    BY <1>3, <2>1 DEF Nowhere, OnePlace, SameQueues, SameCtx
  <2>3. CASE /\ UNCHANGED freed
             /\ \A x \in Rings : Skbs(txRing'[x]) = IF x = "MGMT" THEN Skbs(txRing[x]) \cup {made + 1}
                                                    ELSE Skbs(txRing[x])
    <3> DEFINE mgmt == "MGMT"
    <3>1. \A x \in Rings : Skbs(txRing'[x]) = IF x = mgmt THEN Skbs(txRing[x]) \cup {made + 1}
                                              ELSE Skbs(txRing[x])
      BY <2>3
    <3>2. mgmt \in Rings /\ freed'[id] = 0
      BY <1>1, <2>2, <2>3
    <3> HIDE DEF mgmt
    <3>3. \A x \in Rings : Ringed(x, id)' <=> x = mgmt
      BY <1>4, <1>6, <2>2, <3>1 DEF Ringed
    <3>4. OnePlace(id)' /\ ~Nowhere(id)'
      BY <2>2, <3>2, <3>3, OnRing
    <3> QED BY <2>1, <3>4 DEF Conserved
  <2>4. CASE UNCHANGED txRing /\ Release({made + 1})
    <3>1. freed'[id] = 1
      BY <1>6, <2>2, <2>4, ReleaseType DEF TxInv, RestInv
    <3>2. \A x \in Rings : ~Ringed(x, id)'
      BY <2>2, <2>4, RingsUnchanged DEF SameRing
    <3>3. OnePlace(id)' /\ ~Nowhere(id)'
      BY <2>2, <3>1, <3>2, Freed
    <3> QED BY <2>1, <3>3 DEF Conserved
  <2> QED BY <2>3, <2>4, MMRequestRing
<1> QED BY <1>5, <1>6

\* The interrupt releases what it takes off the ring.
LEMMA DmaDonePlace ==
    ASSUME TxInv, PlaceInv, NEW q \in Rings, DmaDoneInterrupt(q) PROVE PlaceInv'
<1>1. UNCHANGED <<txSwQueue, made>> /\ txCtx["isr"].pc = "idle" /\ "isr" \in Contexts
      /\ txFlags'.aggregation = txFlags.aggregation
  BY DEF DmaDoneInterrupt, Contexts, TxInv, RestInv, Flags
<1>2. PICK x \in {IdleCtx, Enter(Filled)} : Become("isr", x)
  BY DEF DmaDoneInterrupt
<1>3. GoodCtx(x) /\ x.pc \in {"idle", "enter", "take"}
  BY <1>2, IdleGood, EnterGood, AllQueuesType
<1>4. SUFFICES ASSUME NEW id \in Ids PROVE Conserved(id)'
  BY DEF PlaceInv
<1>5. Conserved(id) /\ SameQueues(id)
  BY <1>1, QueuesUnchanged DEF PlaceInv
<1>6. SameCtx(id)
  <2> DEFINE isr == "isr"
  <2>1. isr \in Contexts /\ txCtx[isr].pc \in {"idle", "enter", "take"} /\ Become(isr, x)
    BY <1>1, <1>2
  <2> HIDE DEF isr
  <2> QED BY <1>3, <2>1, EmptyHands
<1>7. /\ \A z \in Rings : Ringed(z, id)' <=> id \in Skbs(txRing'[z])
      /\ \A z \in Rings : Ringed(z, id) <=> id \in Skbs(txRing[z])
  BY DEF Ringed, Skbs
<1>8. /\ \A z \in Rings : z # q => (Ringed(z, id)' <=> Ringed(z, id))
      /\ Ringed(q, id)' => Ringed(q, id)
      /\ freed'[id] = IF Ringed(q, id) /\ ~Ringed(q, id)' THEN freed[id] + 1 ELSE freed[id]
  <2> DEFINE old == Skbs(txRing[q])  new == Skbs(txRing'[q])
  <2>1. Release(old \ new) /\ new \subseteq old
        /\ \A z \in Rings : z # q => Skbs(txRing'[z]) = Skbs(txRing[z])
    BY DmaDoneRing
  <2>2. (Ringed(q, id)' <=> id \in new) /\ (Ringed(q, id) <=> id \in old)
    BY <1>7
  <2>3. \A z \in Rings : z # q => (Ringed(z, id)' <=> Ringed(z, id))
    BY <1>7, <2>1
  <2> HIDE DEF old, new
  <2>4. freed'[id] = IF id \in old \ new THEN freed[id] + 1 ELSE freed[id]
    BY <2>1, ReleaseType DEF TxInv, RestInv
  <2> QED BY <2>1, <2>2, <2>3, <2>4
<1>9. CASE Ringed(q, id) /\ ~Ringed(q, id)'
  <2>1. OnePlace(id) /\ ~Nowhere(id)
    BY <1>5, <1>9 DEF Conserved, Nowhere
  <2>2. /\ \A z \in Queues : ~Queued(z, id)' /\ (OnceOn(txSwQueue[z], id))'
        /\ \A z \in Contexts : ~Carried(z, id)'
        /\ \A z \in Rings : Ringed(z, id) => z = q
        /\ freed[id] = 0
    BY <1>5, <1>6, <1>9, <2>1 DEF OnePlace, SameQueues, SameCtx
  <2>3. freed'[id] = 1 /\ \A z \in Rings : ~Ringed(z, id)'
    BY <1>8, <1>9, <2>2
  <2>4. OnePlace(id)' /\ ~Nowhere(id)'
    BY <2>2, <2>3, Freed
  <2> QED BY <1>1, <1>5, <2>1, <2>4, Moves
<1>10. CASE ~(Ringed(q, id) /\ ~Ringed(q, id)')
  <2>1. SameRing(id) /\ freed'[id] = freed[id]
    BY <1>8, <1>10 DEF SameRing
  <2> QED BY <1>1, <1>5, <1>6, <2>1, StaysConserved DEF Stays
<1> QED BY <1>9, <1>10

\* RTMPRingCleanUp releases what is on the rings and the queues.
LEMMA RadioOnPlace == ASSUME TxInv, PlaceInv, MlmeRadioOn PROVE PlaceInv'
<1>1. /\ UNCHANGED <<txCtx, made>> /\ txFlags'.aggregation = txFlags.aggregation
      /\ \A q \in Queues : txSwQueue'[q] = <<>>
  BY DEF MlmeRadioOn, TxInv, RestInv, Flags
<1>2. SUFFICES ASSUME NEW id \in Ids PROVE Conserved(id)'
  BY DEF PlaceInv
<1>3. Conserved(id) /\ SameCtx(id)
  BY <1>1, CtxUnchanged DEF PlaceInv
<1>4. /\ \A q \in Queues : ~Queued(q, id)' /\ (OnceOn(txSwQueue[q], id))'
  <2>1. ~On(<<>>, id) /\ OnceOn(<<>>, id)
    BY EmptyList
  <2>2. \A q \in Queues : /\ Queued(q, id)' <=> On(txSwQueue'[q], id)
                          /\ (OnceOn(txSwQueue[q], id))' <=> OnceOn(txSwQueue'[q], id)
    BY DEF Queued, On, OnceOn
  <2> QED BY <1>1, <2>1, <2>2
<1>5. \A q \in Rings : ~Ringed(q, id)'
  <2>1. \A q \in Rings : Ringed(q, id)' <=> id \in Skbs(txRing'[q])
    BY DEF Ringed, Skbs
  <2> QED BY <2>1, RadioOnRing
<1> DEFINE Gone == (\E q \in Rings : Ringed(q, id)) \/ (\E q \in Queues : Queued(q, id))
<1>6. freed'[id] = IF Gone THEN freed[id] + 1 ELSE freed[id]
  <2> DEFINE A == UNION {Skbs(txRing[q]) : q \in Rings}
             B == UNION {InQueue(q) : q \in Queues}
  <2>1. Release(A \cup B)
    BY DEF MlmeRadioOn
  <2>2. id \in A <=> \E q \in Rings : Ringed(q, id)
    BY DEF Ringed
  <2>3. id \in B <=> \E q \in Queues : Queued(q, id)
    <3>1. \A q \in Queues : id \in InQueue(q) <=> Queued(q, id)
      BY DEF InQueue, Queued, On
    <3> QED BY <3>1
  <2> HIDE DEF A, B
  <2>4. freed'[id] = IF id \in A \cup B THEN freed[id] + 1 ELSE freed[id]
    BY <2>1, ReleaseType DEF TxInv, RestInv
  <2> QED BY <2>2, <2>3, <2>4
<1>7. CASE Gone
  <2>1. OnePlace(id) /\ ~Nowhere(id)
    BY <1>3, <1>7 DEF Conserved, Nowhere
  <2>2. freed[id] = 0 /\ \A c \in Contexts : ~Carried(c, id)
    BY <1>7, <2>1 DEF OnePlace
  <2>3. freed'[id] = 1 /\ \A c \in Contexts : ~Carried(c, id)'
    BY <1>3, <1>6, <1>7, <2>2 DEF SameCtx
  <2>4. OnePlace(id)' /\ ~Nowhere(id)'
    BY <1>4, <1>5, <2>3, Freed
  <2> QED BY <1>1, <1>3, <2>1, <2>4, Moves
<1>8. CASE ~Gone
  <2>1. freed'[id] = freed[id]
    BY <1>6, <1>8
  <2>2. SameQueues(id) /\ SameRing(id)
    BY <1>4, <1>5, <1>8 DEF SameQueues, SameRing
  <2> QED BY <1>1, <1>3, <2>1, <2>2, StaysConserved DEF Stays
<1> QED BY <1>7, <1>8

LEMMA ResumePlace == ASSUME TxInv, PlaceInv, ResumeMsduTransmission PROVE PlaceInv'
<1> DEFINE mlme == "mlme"  x == Enter(<<Be>>)
<1>1. /\ mlme \in Contexts /\ txCtx[mlme].pc \in {"idle", "enter", "take"} /\ Become(mlme, x)
      /\ UNCHANGED <<txSwQueue, freed, made>> /\ txFlags'.aggregation = txFlags.aggregation
  BY DEF ResumeMsduTransmission, Contexts, TxInv, RestInv, Flags
<1>2. GoodCtx(x) /\ x.pc \in {"idle", "enter", "take"}
  BY EnterGood, AllQueuesType
<1> HIDE DEF mlme, x
<1>3. \A q \in Rings : Skbs(txRing'[q]) = Skbs(txRing[q])
  BY ResumeType DEF SameRings
<1> SUFFICES ASSUME NEW id \in Ids PROVE Conserved(id)'
  BY DEF PlaceInv
<1>4. SameQueues(id) /\ SameRing(id) /\ SameCtx(id)
  BY <1>1, <1>2, <1>3, QueuesUnchanged, SkbsUnchanged, EmptyHands
<1> QED BY <1>1, <1>4, StaysConserved DEF PlaceInv, Stays

LEMMA PlaceInit == TxInit => PlaceInv
<1> SUFFICES ASSUME TxInit, NEW id \in Ids PROVE Conserved(id)
  BY DEF PlaceInv
<1>1. \A q \in Queues : ~Queued(q, id) /\ OnceOn(txSwQueue[q], id)
  BY EmptyList DEF TxInit, Queued
<1>2. \A q \in Rings : ~Ringed(q, id)
  BY EmptyRingGood DEF TxInit, Ringed
<1>3. \A c \in Contexts : ~Carried(c, id)
  BY IdleGood, NoPacketType, IdReal DEF TxInit, Carried
<1>4. freed[id] = 0 /\ ~(id <= made)
  BY DEF TxInit, Ids
<1> QED BY <1>1, <1>2, <1>3, <1>4 DEF Conserved, OnePlace, Nowhere

LEMMA PlaceStep == TxInv /\ PlaceInv /\ [TxNext]_txVars => PlaceInv'
<1> SUFFICES ASSUME TxInv, PlaceInv, [TxNext]_txVars PROVE PlaceInv'
  OBVIOUS
<1>1. CASE HardStartXmit \/ SendGroupMsg2
  BY <1>1, HandOverPlace DEF HardStartXmit, SendGroupMsg2, Contexts
<1>2. CASE \E c \in Contexts : DeQueue(c)
  BY <1>2, CheckFlagsPlace, TakePlace, CheckPlace, AggregatePlace, DropPlace, ProtectPlace,
     TransmitPlace DEF DeQueue
<1>3. CASE SendNullFrame
  BY <1>3, SendNullFrameRing, RingsOnly DEF SendNullFrame
<1>4. CASE \E q \in Rings : NicSends(q)
  <2>1. txFlags'.aggregation = txFlags.aggregation
    BY <1>4 DEF NicSends, TxInv, RestInv, Flags
  <2> QED BY <1>4, <2>1, NicSendsRing, RingsOnly DEF NicSends, SameRings
<1>5. CASE SuspendMsduTransmission \/ MlmeRadioOff
  <2>1. txFlags'.aggregation = txFlags.aggregation /\ UNCHANGED <<txSwQueue, txCtx, freed, made>>
    BY <1>5 DEF SuspendMsduTransmission, MlmeRadioOff, TxInv, RestInv, Flags
  <2> QED BY <1>5, <2>1, SuspendType, RadioOffType, RingsOnly DEF SameRings
<1>6. CASE SwitchPort
  <2>1. txFlags'.aggregation = txFlags.aggregation
    BY <1>6 DEF SwitchPort, TxInv, RestInv, Flags
  <2> QED BY <1>6, <2>1, RingsOnly DEF SwitchPort
<1>7. CASE UNCHANGED txVars
  BY <1>7, RingsOnly DEF txVars
<1>8. CASE \E q \in Rings : DmaDoneInterrupt(q)
  BY <1>8, DmaDonePlace
<1> QED BY <1>1, <1>2, <1>3, <1>4, <1>5, <1>6, <1>7, <1>8, DropUnlinkedPlace, MMRequestPlace,
          ResumePlace, RadioOnPlace DEF TxNext

LEMMA AtMostOne ==
    ASSUME NEW S, \A x, y \in S : x = y
    PROVE  Cardinality(S) = IF S = {} THEN 0 ELSE 1
<1>1. CASE S = {}
  BY <1>1, FS_EmptySet
<1>2. CASE S # {}
  <2>1. PICK x : x \in S
    BY <1>2
  <2>2. S = {x}
    BY <2>1
  <2> QED BY <1>2, <2>2, FS_Singleton
<1> QED BY <1>1, <1>2

\* The count of places is what the invariant says it is.
LEMMA CountPlaces ==
    ASSUME TxInv, NEW id \in Ids, OnePlace(id)
    PROVE  Places(id) = IF Nowhere(id) THEN 0 ELSE 1
<1> DEFINE Q == {q \in Queues : id \in InQueue(q)}
           R == {q \in Rings : id \in Skbs(txRing[q])}
           C == {c \in Held : id \in {txCtx[c].skb.id, txCtx[c].next.id}}
<1>1. \A q : q \in Q <=> q \in Queues /\ Queued(q, id)
  BY DEF InQueue, Queued, On
<1>2. \A q : q \in R <=> q \in Rings /\ Ringed(q, id)
  BY DEF Ringed
<1>3. \A c : c \in C <=> c \in Contexts /\ Carried(c, id)
  <2>1. \A c \in Contexts : Carried(c, id) => txCtx[c].skb # NoPacket
    BY IdReal, NoPacketType DEF Carried, TxInv, CtxInv, GoodCtx
  <2> QED BY <2>1 DEF Held, Carried
<1> HIDE DEF Q, R, C
<1>4. /\ Cardinality(Q) = IF Q = {} THEN 0 ELSE 1
      /\ Cardinality(R) = IF R = {} THEN 0 ELSE 1
      /\ Cardinality(C) = IF C = {} THEN 0 ELSE 1
  BY <1>1, <1>2, <1>3, AtMostOne DEF OnePlace
<1>5. /\ Q # {} => R = {} /\ C = {} /\ freed[id] = 0
      /\ R # {} => C = {} /\ freed[id] = 0
      /\ C # {} => freed[id] = 0
      /\ freed[id] \in {0, 1}
  BY <1>1, <1>2, <1>3 DEF OnePlace
<1>6. Nowhere(id) <=> Q = {} /\ R = {} /\ C = {} /\ freed[id] = 0
  BY <1>1, <1>2, <1>3 DEF Nowhere
<1>7. Places(id) = Cardinality(Q) + Cardinality(R) + Cardinality(C) + freed[id]
  BY DEF Places, Q, R, C
<1> QED BY <1>4, <1>5, <1>6, <1>7

\* Whatever preempts RTMPDeQueuePacket between its steps, on one processor and on SMP, no
\* packet is on a queue and a ring, in the hands of two contexts, or released twice or while
\* somebody holds it; and only aggregation can lose one.
THEOREM PacketsAreConserved == TxSpec => []PacketsConserved
<1>1. TxInv /\ PlaceInv => PacketsConserved
  <2> SUFFICES ASSUME TxInv, PlaceInv, NEW id \in 1 .. made
               PROVE  Places(id) <= 1 /\ (~txFlags.aggregation => Places(id) = 1)
    BY DEF PacketsConserved
  <2>1. id \in Ids /\ id <= made
    BY TxBoundAssumption DEF TxInv, RestInv, Ids
  <2>2. Conserved(id) /\ Places(id) = IF Nowhere(id) THEN 0 ELSE 1
    BY <2>1, CountPlaces DEF PlaceInv, Conserved
  <2> QED BY <2>1, <2>2 DEF Conserved
<1> QED BY <1>1, TxInitInv, TxStep, PlaceInit, PlaceStep, PTL DEF TxSpec
=============================================================================
