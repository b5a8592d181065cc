------------------------ MODULE WpaSupplicantProofs ------------------------
(***************************************************************************)
(* Proofs about the handshakes of WPA, for any number of faults, messages  *)
(* and renewals of the group key, whichever allocations may fail.          *)
(***************************************************************************)
EXTENDS WpaSupplicantProps, SequenceTheorems, TLAPS

---------------------------------------------------------------------------
(* Types *)

PairwiseKey == [a : Int, s : Int]
StaStates == {"NOTUSE", "START", "WAIT_MSG_3", "WAIT_GROUP", "FINISH"}
StaType ==
    [state : StaStates, secured : BOOLEAN, replay : Int, anonce : Int, snonce : Int,
     ptk : PairwiseKey, key : PairwiseKey, gtk : [{1, 2} -> Int]]
ApStates == {"idle", "msg1", "msg3", "group", "done"}
ApType ==
    [state : ApStates, rc : Int, tries : Int, anonce : Int,
     ptk : PairwiseKey, gtk : Int, renewed : BOOLEAN]
StaFrame ==
    [t : {"pair1", "pair3", "group1"}, rc : Int, anonce : Int, gtk : Int, mic : PairwiseKey]
ApFrame ==
    [t : {"pair2", "pair4", "group2"}, rc : Int, snonce : Int, mic : PairwiseKey,
     enc : PairwiseKey]

WpaType ==
    /\ sta \in StaType /\ ap \in ApType
    /\ link \in {"up", "down"}
    /\ toSta \in Seq(StaFrame) /\ toAp \in Seq(ApFrame)
    /\ nonces \in Int

---------------------------------------------------------------------------
(* Frames on their way *)

Frames(q) == {q[i] : i \in 1 .. Len(q)}

\* Associations in their order, and message 1 before the others of its association.
Later(f, g) == f.anonce <= g.anonce /\ (f.anonce = g.anonce /\ g.t = "pair1" => f.t = "pair1")
Ordered(q) == \A i, j \in 1 .. Len(q) : i < j => Later(q[i], q[j])

\* What leaves a queue came before the rest.
LEMMA FramesTail ==
    ASSUME NEW S, NEW q \in Seq(S), q # <<>>
    PROVE  /\ Tail(q) \in Seq(S) /\ Head(q) \in S
           /\ Head(q) \in Frames(q) /\ Frames(Tail(q)) \subseteq Frames(q)
           /\ Ordered(q) => Ordered(Tail(q)) /\ \A f \in Frames(Tail(q)) : Later(Head(q), f)
<1>1. /\ Tail(q) \in Seq(S) /\ Head(q) \in S /\ Len(q) \in Nat \ {0}
      /\ Len(Tail(q)) = Len(q) - 1 /\ Head(q) = q[1]
      /\ \A i \in 1 .. Len(q) - 1 : Tail(q)[i] = q[i + 1]
  BY HeadTailProperties, EmptySeq
<1>2. 1 \in 1 .. Len(q) /\ \A i \in 1 .. Len(q) - 1 : i + 1 \in 1 .. Len(q) /\ 1 < i + 1
  BY <1>1
<1>3. Head(q) \in Frames(q) /\ Frames(Tail(q)) \subseteq Frames(q)
  BY <1>1, <1>2 DEF Frames
<1>4. ASSUME Ordered(q)
      PROVE  Ordered(Tail(q)) /\ \A f \in Frames(Tail(q)) : Later(Head(q), f)
  <2>1. \A f \in Frames(Tail(q)) : Later(Head(q), f)
    BY <1>1, <1>2, <1>4 DEF Frames, Ordered
  <2>2. ASSUME NEW i \in 1 .. Len(q) - 1, NEW j \in 1 .. Len(q) - 1, i < j
        PROVE  Later(Tail(q)[i], Tail(q)[j])
    <3>1. i + 1 \in 1 .. Len(q) /\ j + 1 \in 1 .. Len(q) /\ i + 1 < j + 1
      BY <1>1, <2>2
    <3> QED BY <1>1, <1>4, <3>1 DEF Ordered
  <2> QED BY <1>1, <2>1, <2>2 DEF Ordered
<1> QED BY <1>1, <1>3, <1>4

\* A frame that comes after all others.
LEMMA FramesAppend ==
    ASSUME NEW S, NEW q \in Seq(S), NEW m \in S
    PROVE  /\ Append(q, m) \in Seq(S)
           /\ Frames(Append(q, m)) = Frames(q) \cup {m}
           /\ Ordered(q) /\ (\A f \in Frames(q) : Later(f, m)) => Ordered(Append(q, m))
<1>1. /\ Append(q, m) \in Seq(S) /\ Len(Append(q, m)) = Len(q) + 1 /\ Len(q) \in Nat
      /\ \A i \in 1 .. Len(q) : Append(q, m)[i] = q[i]
      /\ Append(q, m)[Len(q) + 1] = m
  BY AppendProperties, LenProperties
<1>2. \A i : i \in 1 .. Len(q) + 1 <=> i \in 1 .. Len(q) \/ i = Len(q) + 1
  BY <1>1
<1>3. Frames(Append(q, m)) = Frames(q) \cup {m}
  BY <1>1, <1>2 DEF Frames
<1>4. ASSUME Ordered(q), \A f \in Frames(q) : Later(f, m)
      PROVE  Ordered(Append(q, m))
  <2> SUFFICES ASSUME NEW i \in 1 .. Len(q) + 1, NEW j \in 1 .. Len(q) + 1, i < j
               PROVE  Later(Append(q, m)[i], Append(q, m)[j])
    BY <1>1 DEF Ordered
  <2>1. i \in 1 .. Len(q) /\ Append(q, m)[i] = q[i]
    <3>1. Len(q) \in Nat
      BY <1>1
    <3>2. i \in 1 .. Len(q)
      BY <3>1
    <3> QED BY <1>1, <3>2
  <2>2. CASE j \in 1 .. Len(q)
    BY <1>1, <1>4, <2>1, <2>2 DEF Ordered
  <2>3. CASE j = Len(q) + 1
    BY <1>1, <1>4, <2>1, <2>3 DEF Frames
  <2> QED BY <1>2, <2>2, <2>3
<1> QED BY <1>1, <1>3, <1>4

\* A queue with what one handler answers.
LEMMA FramesAnswer ==
    ASSUME NEW S, NEW q \in Seq(S), NEW out \in {<<>>} \cup {<<f>> : f \in S}
    PROVE  /\ q \o out \in Seq(S)
           /\ \A g \in Frames(q \o out) : g \in Frames(q) \/ out = <<g>>
<1>1. CASE out = <<>>
  BY <1>1, ConcatEmptySeq
<1>2. ASSUME NEW f \in S, out = <<f>>
      PROVE  /\ q \o out \in Seq(S)
             /\ \A g \in Frames(q \o out) : g \in Frames(q) \/ out = <<g>>
  <2>1. q \o out = Append(q, f)
    BY <1>2, AppendIsConcat
  <2>2. q \o out \in Seq(S) /\ Frames(q \o out) = Frames(q) \cup {f}
    BY <2>1, FramesAppend
  <2> QED BY <1>2, <2>2
<1> QED BY <1>1, <1>2

LEMMA NoFrames == Frames(<<>>) = {} /\ Ordered(<<>>)
BY DEF Frames, Ordered

---------------------------------------------------------------------------
(* The invariant *)

\* Of the association that is in progress.
Current(f) == f.anonce = ap.anonce

\* The nonces of the AP grow, and a PTK is never newer than the frames still to come.
SameAge ==
    /\ 0 <= ap.anonce /\ ap.anonce <= nonces /\ sta.ptk.a <= ap.anonce
    /\ \A f \in Frames(toSta) :
        /\ 1 <= f.anonce /\ f.anonce <= ap.anonce
        /\ sta.ptk.a = ap.anonce => Current(f)
    /\ link = "down" => ap.state = "idle" /\ Frames(toAp) = {}
    /\ link = "up" => 1 <= ap.anonce

\* What the MIC of message 3 and of a group message shows.
MicInv ==
    /\ \A f \in Frames(toSta) : f.t # "pair1" =>
        /\ f.mic.a = f.anonce
        /\ Current(f) => f.mic = ap.ptk /\ ap.state # "msg1"
    /\ ap.state \in {"msg3", "group", "done"} => ap.ptk.a = ap.anonce

\* From the moment the supplicant confirms the pairwise key nothing replaces it.
Confirmed ==
    \/ ap.state \in {"group", "done"}
    \/ \E f \in Frames(toAp) : f.t = "pair4" /\ f.mic.a = ap.anonce

KeyInv ==
    Confirmed =>
        /\ sta.key = ap.ptk \/ Renewed
        /\ sta.ptk = ap.ptk /\ ap.ptk.a = ap.anonce
        /\ ap.state # "msg1"
        /\ \A f \in Frames(toSta) : Current(f) /\ f.t # "pair1"

\* A group message of an earlier association finds the supplicant in START, and no
\* message 1 is left that could take it out of START first.
GroupInv ==
    \A f \in Frames(toSta) : f.t = "group1" =>
        /\ \A g \in Frames(toSta) : g.anonce <= f.anonce => g.t # "pair1"
        /\ Current(f) => ap.state \in {"group", "done", "idle"}
        /\ ~Current(f) \/ ap.state = "idle" => sta.state = "START"

\* With WPA2-PSK only a renewal sends a group message.
RenewInv ==
    /\ ap.renewed => ap.state \in {"group", "done", "idle"}
    /\ cfg.mode = "WPA2PSK" /\ ~ap.renewed =>
        ap.state # "group" /\ \A f \in Frames(toSta) : Current(f) => f.t # "group1"

HandshakeInv ==
    /\ WpaType /\ SameAge /\ MicInv /\ Ordered(toSta) /\ KeyInv /\ GroupInv /\ RenewInv

LEMMA HandshakeStart == WpaInit => HandshakeInv
<1> SUFFICES ASSUME WpaInit PROVE HandshakeInv
  OBVIOUS
<1>1. Frames(toSta) = {} /\ Frames(toAp) = {} /\ Ordered(toSta)
  BY NoFrames DEF WpaInit
<1>2. toSta \in Seq(StaFrame) /\ toAp \in Seq(ApFrame)
  BY DEF WpaInit
<1>3. WpaType
  BY <1>2 DEF WpaInit, WpaType, StaType, ApType, StaStates, ApStates,
              PairwiseKey, Junk, NoKey, Ptk, NoGtk
<1>4. SameAge
  BY <1>1 DEF WpaInit, SameAge, Junk, Ptk
<1>5. MicInv /\ KeyInv /\ GroupInv /\ RenewInv
  BY <1>1 DEF WpaInit, MicInv, KeyInv, GroupInv, RenewInv, Confirmed
<1> QED BY <1>1, <1>3, <1>4, <1>5 DEF HandshakeInv

---------------------------------------------------------------------------
(* What a handler of the supplicant does to the keys *)

\* Message 1 replaces the PTK and nothing else that is confirmed; only message 3 installs
\* the key, under the same PTK, with which message 4 is signed, except that the group
\* message of WPA2 overwrites it; and for WPA-PSK only a group message opens the port.
ActionEffect(m, s, out) ==
    /\ s \in StaType /\ out \in {<<>>} \cup {<<f>> : f \in ApFrame}
    /\ m.t = "pair1" =>
        /\ s.key = sta.key
        /\ s.ptk = sta.ptk \/ s.ptk.a \in {0, m.anonce}
        /\ \A f : out = <<f>> => f.t = "pair2"
    /\ m.t # "pair1" =>
        /\ s.ptk = sta.ptk
        /\ \/ s.key = sta.key /\ \A f : out = <<f>> => f.t # "pair4"
           \/ /\ m.t = "group1" /\ cfg.mode = "WPA2PSK"
              /\ \A f : out = <<f>> => f.t # "pair4"
           \/ /\ m.t = "pair3" /\ m.mic = sta.ptk /\ s.key = sta.ptk
              /\ \A f : out = <<f>> => f.t = "pair4" /\ f.mic = sta.ptk
    /\ cfg.mode = "WPAPSK" /\ ~sta.secured /\ s.secured =>
        m.t = "group1" /\ s.key = sta.key

\* In START a handler knows message 1 only.
Effect(m, s, out) ==
    /\ ActionEffect(m, s, out)
    /\ sta.state = "START" /\ m.t # "pair1" => s.state = "START" /\ s.key = sta.key
    /\ cfg.mode = "WPAPSK" /\ ~sta.secured /\ s.secured => sta.state # "START"

LEMMA KeyIdType == \A g \in Int : KeyId(g) \in {1, 2}
BY DEF KeyId

LEMMA AddGroupKeyEffect ==
    ASSUME NEW s \in StaType, NEW id \in {1, 2}, NEW g \in Int
    PROVE  /\ AddGroupKey(s, id, g) \in StaType
           /\ AddGroupKey(s, id, g).ptk = s.ptk /\ AddGroupKey(s, id, g).key = s.key
           /\ AddGroupKey(s, id, g).state = s.state
BY DEF AddGroupKey, StaType

LEMMA Msg1Effect ==
    ASSUME WpaType, NEW m \in StaFrame, NEW fail, m.t = "pair1"
    PROVE  ActionEffect(m, PairMsg1(m, fail).sta, PairMsg1(m, fail).out)
<1> DEFINE s == DrawKey(m, fail)
<1>1. s \in StaType /\ s.key = sta.key /\ s.ptk.a \in {0, m.anonce} /\ s.secured = sta.secured
  <2> DEFINE n == IF fail = "random" THEN sta.snonce ELSE nonces + 1
             k == IF fail = "prf" \/ link = "down" THEN Junk ELSE Ptk(m.anonce, n)
  <2>1. n \in Int /\ m.anonce \in Int /\ m.rc \in Int /\ sta \in StaType
    BY DEF WpaType, StaType, StaFrame
  <2>2. k \in PairwiseKey /\ k.a \in {0, m.anonce}
    <3> HIDE DEF n
    <3> QED BY <2>1 DEF PairwiseKey, Junk, Ptk
  <2>3. s = [sta EXCEPT !.replay = m.rc, !.anonce = m.anonce, !.snonce = n, !.ptk = k]
    BY DEF DrawKey
  <2> HIDE DEF s, n, k
  <2> QED BY <2>1, <2>2, <2>3 DEF StaType
<1>2. Msg2(m, s) \in ApFrame /\ Msg2(m, s).t = "pair2"
  BY <1>1 DEF WpaType, StaType, StaFrame, ApFrame, Msg2, PairwiseKey, NoKey, Ptk
<1>3. /\ PairMsg1(m, fail).sta \in {sta, s}
      /\ PairMsg1(m, fail).out \in {<<>>, <<Msg2(m, s)>>}
  BY DEF PairMsg1, Outcome
<1>4. PairMsg1(m, fail).out \in {<<>>} \cup {<<f>> : f \in ApFrame}
  BY <1>2, <1>3
<1>5. \A f : PairMsg1(m, fail).out = <<f>> => f.t = "pair2"
  BY <1>2, <1>3
<1> HIDE DEF s
<1> QED BY <1>1, <1>3, <1>4, <1>5 DEF ActionEffect, WpaType

LEMMA Msg3Effect ==
    ASSUME WpaType, NEW m \in StaFrame, NEW fail, m.t = "pair3"
    PROVE  ActionEffect(m, PairMsg3(m, fail).sta, PairMsg3(m, fail).out)
<1> DEFINE c == [sta EXCEPT !.replay = m.rc]
           p == IF cfg.mode = "WPA2PSK" THEN ParseKeyData(c, m, fail) ELSE c
           g == IF fail = "unwrap" /\ cfg.aes THEN JunkGtk ELSE m.gtk
<1>1. c \in StaType /\ c.ptk = sta.ptk /\ c.key = sta.key /\ c.secured = sta.secured
  BY DEF WpaType, StaType, StaFrame
<1>2. g \in Int /\ KeyId(m.gtk) \in {1, 2}
  BY KeyIdType DEF StaFrame, JunkGtk
<1>3. ParseKeyData(c, m, fail) \in {c, AddGroupKey(c, KeyId(m.gtk), g)}
  BY DEF ParseKeyData
<1>4. p \in StaType /\ p.ptk = sta.ptk /\ p.key = sta.key
      /\ (cfg.mode = "WPAPSK" => p.secured = sta.secured)
  <2> HIDE DEF c, g
  <2>1. CASE cfg.mode = "WPA2PSK"
    <3> DEFINE k == AddGroupKey(c, KeyId(m.gtk), g)
    <3>1. k \in StaType /\ k.ptk = sta.ptk /\ k.key = sta.key
      BY <1>1, <1>2, AddGroupKeyEffect
    <3>2. p \in {c, k}
      BY <1>3, <2>1
    <3> HIDE DEF k, p
    <3> QED BY <1>1, <2>1, <3>1, <3>2
  <2>2. CASE cfg.mode # "WPA2PSK"
    BY <1>1, <2>2
  <2> QED BY <2>1, <2>2
<1>5. Msg4(m) \in ApFrame /\ Msg4(m).t = "pair4" /\ Msg4(m).mic = sta.ptk
  BY DEF WpaType, StaType, StaFrame, ApFrame, Msg4, PairwiseKey, NoKey, Ptk
<1>6. \/ PairMsg3(m, fail).sta \in {sta, c, p} /\ PairMsg3(m, fail).out = <<>>
      \/ /\ PairMsg3(m, fail) = Outcome(AddPairwiseKey(p), <<Msg4(m)>>)
         /\ m.mic = sta.ptk
  BY DEF PairMsg3, Outcome, Genuine3
<1> HIDE DEF c, p
<1>7. CASE PairMsg3(m, fail).sta \in {sta, c, p} /\ PairMsg3(m, fail).out = <<>>
  <2>1. \A f : PairMsg3(m, fail).out # <<f>>
    BY <1>7
  <2> QED BY <1>1, <1>4, <1>7, <2>1 DEF ActionEffect, WpaType
<1>8. CASE PairMsg3(m, fail) = Outcome(AddPairwiseKey(p), <<Msg4(m)>>) /\ m.mic = sta.ptk
  <2>1. /\ AddPairwiseKey(p) \in StaType /\ AddPairwiseKey(p).ptk = sta.ptk
        /\ AddPairwiseKey(p).key = sta.ptk
        /\ (cfg.mode = "WPAPSK" => AddPairwiseKey(p).secured = sta.secured)
    BY <1>4 DEF AddPairwiseKey, StaType
  <2>2. PairMsg3(m, fail).sta = AddPairwiseKey(p) /\ PairMsg3(m, fail).out = <<Msg4(m)>>
    BY <1>8 DEF Outcome
  <2>3. \A f : <<Msg4(m)>> = <<f>> => f.t = "pair4" /\ f.mic = sta.ptk
    BY <1>5
  <2>4. <<Msg4(m)>> \in {<<f>> : f \in ApFrame}
    BY <1>5
  <2> QED BY <1>8, <2>1, <2>2, <2>3, <2>4 DEF ActionEffect
<1> QED BY <1>6, <1>7, <1>8

LEMMA AddGtkEffect ==
    ASSUME NEW c \in StaType, NEW m \in StaFrame, NEW fail
    PROVE  /\ AddGtk(c, m, fail) \in StaType /\ AddGtk(c, m, fail).ptk = c.ptk
           /\ cfg.mode = "WPA2PSK" \/ AddGtk(c, m, fail).key = c.key
<1> DEFINE g == IF fail = "unwrap" /\ cfg.aes THEN JunkGtk ELSE m.gtk
<1>1. g \in Int /\ KeyId(m.gtk) \in {1, 2}
  BY KeyIdType DEF StaFrame, JunkGtk
<1>2. CASE cfg.mode = "WPA2PSK"
  <2>1. AddGtk(c, m, fail) = [c EXCEPT !.key = Junk, !.secured = TRUE]
    BY <1>2 DEF AddGtk, AddGroupKeyAtZero
  <2>2. Junk \in PairwiseKey
    BY DEF Junk, Ptk, PairwiseKey
  <2> QED BY <1>2, <2>1, <2>2 DEF StaType
<1>3. CASE cfg.mode # "WPA2PSK"
  <2>1. AddGtk(c, m, fail) = AddGroupKey(c, KeyId(m.gtk), g)
    BY <1>3 DEF AddGtk
  <2> HIDE DEF g
  <2>2. /\ AddGroupKey(c, KeyId(m.gtk), g) \in StaType
        /\ AddGroupKey(c, KeyId(m.gtk), g).ptk = c.ptk
        /\ AddGroupKey(c, KeyId(m.gtk), g).key = c.key
    BY <1>1, AddGroupKeyEffect
  <2> QED BY <2>1, <2>2, Zenon
<1> QED BY <1>2, <1>3

LEMMA GroupEffect ==
    ASSUME WpaType, NEW m \in StaFrame, NEW fail, NEW key \in PairwiseKey, m.t = "group1"
    PROVE  ActionEffect(m, GroupMsg1(m, fail, key).sta, GroupMsg1(m, fail, key).out)
<1> DEFINE c == [sta EXCEPT !.replay = m.rc]
           d == AddGtk(c, m, fail)
<1>1. c \in StaType /\ c.ptk = sta.ptk /\ c.key = sta.key
  BY DEF WpaType, StaType, StaFrame
<1>2. d \in StaType /\ d.ptk = sta.ptk /\ (cfg.mode = "WPA2PSK" \/ d.key = sta.key)
  <2> HIDE DEF c
  <2> QED BY <1>1, AddGtkEffect
<1>3. GroupMsg2(m, key) \in ApFrame /\ GroupMsg2(m, key).t = "group2"
  BY DEF WpaType, StaType, StaFrame, ApFrame, GroupMsg2
<1>4. /\ GroupMsg1(m, fail, key).sta \in {sta, c, d}
      /\ GroupMsg1(m, fail, key).out \in {<<>>, <<GroupMsg2(m, key)>>}
  BY DEF GroupMsg1, Outcome
<1>5. GroupMsg1(m, fail, key).out \in {<<>>} \cup {<<f>> : f \in ApFrame}
  BY <1>3, <1>4
<1>6. \A f : GroupMsg1(m, fail, key).out = <<f>> => f.t # "pair4"
  BY <1>3, <1>4
<1> HIDE DEF c, d
<1> QED BY <1>1, <1>2, <1>4, <1>5, <1>6 DEF ActionEffect, WpaType

LEMMA HandlerEffect ==
    ASSUME WpaType, NEW m \in StaFrame, NEW fail, NEW key \in PairwiseKey
    PROVE  Effect(m, EAPOLKeyAction(m, fail, key).sta, EAPOLKeyAction(m, fail, key).out)
<1> DEFINE d == Action(m, fail, key)
           s == [d.sta EXCEPT !.state = NextState(m.t), !.secured = @ /\ ~Unsecures(m.t)]
<1>1. CASE ~Handled(m.t)
  <2>1. EAPOLKeyAction(m, fail, key).sta = sta /\ EAPOLKeyAction(m, fail, key).out = <<>>
    BY <1>1 DEF EAPOLKeyAction, Outcome
  <2>2. \A f : EAPOLKeyAction(m, fail, key).out # <<f>>
    BY <2>1
  <2> QED BY <2>1, <2>2 DEF Effect, ActionEffect, WpaType
<1>2. CASE Handled(m.t)
  <2>1. EAPOLKeyAction(m, fail, key).sta = s /\ EAPOLKeyAction(m, fail, key).out = d.out
    BY <1>2 DEF EAPOLKeyAction, Outcome
  <2>2. ActionEffect(m, d.sta, d.out)
    BY Msg1Effect, Msg3Effect, GroupEffect DEF Action, StaFrame
  <2>3. m.t # "pair1" => sta.state # "START"
    BY <1>2 DEF Handled
  <2> HIDE DEF d
  <2>4. s \in StaType /\ s.key = d.sta.key /\ s.ptk = d.sta.ptk /\ (s.secured => d.sta.secured)
    BY <2>2 DEF ActionEffect, StaType, StaStates, NextState
  <2> HIDE DEF s
  <2> QED BY <2>1, <2>2, <2>3, <2>4 DEF Effect, ActionEffect
<1> QED BY <1>1, <1>2
---------------------------------------------------------------------------
(* The steps *)

\* Frames that are taken or lost, and a user who sets the key again.
LEMMA Shrinks ==
    ASSUME HandshakeInv, cfg' = cfg, ap' = ap, link' = link, nonces' = nonces,
           sta' \in {sta, [sta EXCEPT !.state = "START"]},
           toSta' \in Seq(StaFrame), Frames(toSta)' \subseteq Frames(toSta), Ordered(toSta)',
           toAp' \in Seq(ApFrame), Frames(toAp)' \subseteq Frames(toAp)
    PROVE  HandshakeInv'
<1>1. /\ sta' \in StaType /\ sta'.key = sta.key /\ sta'.ptk = sta.ptk
      /\ sta.state = "START" => sta'.state = "START"
  BY DEF HandshakeInv, WpaType, StaType, StaStates
<1>2. WpaType'
  BY <1>1 DEF HandshakeInv, WpaType
<1>3. SameAge'
  BY <1>1 DEF HandshakeInv, SameAge, Current
<1>4. MicInv'
  BY DEF HandshakeInv, MicInv, Current
<1>5. KeyInv'
  BY <1>1 DEF HandshakeInv, KeyInv, Confirmed, Current, Renewed
<1>6. GroupInv' /\ RenewInv'
  BY <1>1 DEF HandshakeInv, GroupInv, RenewInv, Current
<1> QED BY <1>2, <1>3, <1>4, <1>5, <1>6 DEF HandshakeInv

LEMMA AddWpaKeeps == HandshakeInv /\ AddWpa => HandshakeInv'
BY Shrinks DEF HandshakeInv, WpaType, AddWpa

LEMMA LoseKeeps == HandshakeInv /\ Lose => HandshakeInv'
<1> SUFFICES ASSUME HandshakeInv, Lose PROVE HandshakeInv'
  OBVIOUS
<1> USE DEF HandshakeInv, WpaType
<1>1. CASE toSta # <<>> /\ toSta' = Tail(toSta) /\ UNCHANGED toAp
  <2>1. /\ Tail(toSta) \in Seq(StaFrame) /\ Frames(Tail(toSta)) \subseteq Frames(toSta)
        /\ Ordered(Tail(toSta))
    BY <1>1, FramesTail
  <2> QED BY <1>1, <2>1, Shrinks DEF Lose
<1>2. CASE toAp # <<>> /\ toAp' = Tail(toAp) /\ UNCHANGED toSta
  <2>1. Tail(toAp) \in Seq(ApFrame) /\ Frames(Tail(toAp)) \subseteq Frames(toAp)
    BY <1>2, FramesTail
  <2> QED BY <1>2, <2>1, Shrinks DEF Lose
<1> QED BY <1>1, <1>2 DEF Lose

LEMMA Restarted ==
    ASSUME NEW p \in StaType, NEW v \in StaStates, NEW r \in Int, NEW b \in BOOLEAN
    PROVE  LET s == [p EXCEPT !.state = v, !.replay = r, !.secured = b]
           IN  s \in StaType /\ s.ptk = p.ptk /\ s.state = v
BY DEF StaType

LEMMA RemoveAllKeysEffect ==
    ASSUME NEW s \in StaType
    PROVE  /\ RemoveAllKeys(s) \in StaType /\ RemoveAllKeys(s).ptk = s.ptk
           /\ RemoveAllKeys(s).state = s.state
<1> DEFINE g == [id \in {1, 2} |-> NoGtk]
<1>1. g \in [{1, 2} -> Int]
  BY DEF NoGtk
<1>2. NoKey \in PairwiseKey
  BY DEF NoKey, Ptk, PairwiseKey
<1>3. RemoveAllKeys(s) = [s EXCEPT !.key = NoKey, !.gtk = g]
  BY DEF RemoveAllKeys
<1> HIDE DEF g
<1> QED BY <1>1, <1>2, <1>3 DEF StaType

\* A link goes down: nothing is confirmed, and the supplicant starts again.
LEMMA LinkDownKeeps ==
    ASSUME HandshakeInv, NEW fromAp \in BOOLEAN, LinkDown(fromAp), nonces' = nonces, cfg' = cfg
    PROVE  HandshakeInv'
<1>1. /\ sta' \in StaType /\ sta'.ptk = sta.ptk /\ sta'.state = "START"
  <2> DEFINE s == [sta EXCEPT !.state = "START", !.replay = 0, !.secured = FALSE]
  <2>1. s \in StaType /\ s.ptk = sta.ptk /\ s.state = "START"
    <3>1. sta \in StaType
      BY DEF HandshakeInv, WpaType
    <3>2. "START" \in StaStates /\ 0 \in Int /\ FALSE \in BOOLEAN
      BY DEF StaStates
    <3> QED BY <3>1, <3>2, Restarted, Zenon
  <2>2. sta' \in {s, RemoveAllKeys(s)}
    BY DEF LinkDown
  <2> HIDE DEF s
  <2> QED BY <2>1, <2>2, RemoveAllKeysEffect
<1>2. /\ ap' \in ApType /\ ap'.state = "idle" /\ ap'.anonce = ap.anonce /\ ap'.ptk = ap.ptk
      /\ ap'.renewed = ap.renewed
  <2>1. ap \in ApType /\ ap' = [ap EXCEPT !.state = "idle"]
    BY DEF HandshakeInv, WpaType, LinkDown
  <2> QED BY <2>1 DEF ApType, ApStates
<1>3. /\ toSta' \in Seq(StaFrame) /\ Frames(toSta)' \subseteq Frames(toSta) /\ Ordered(toSta)'
      /\ toAp' \in Seq(ApFrame) /\ Frames(toAp)' = {}
  <2>1. toAp' = <<>> /\ toSta' \in {toSta, <<>>}
    BY DEF LinkDown
  <2>2. CASE toSta' = toSta
    BY <2>1, <2>2, NoFrames DEF HandshakeInv, WpaType
  <2>3. CASE toSta' = <<>>
    BY <2>1, <2>3, NoFrames
  <2> QED BY <2>1, <2>2, <2>3
<1>4. WpaType'
  BY <1>1, <1>2, <1>3 DEF HandshakeInv, WpaType, LinkDown
<1>5. SameAge'
  <2>1. link' = "down"
    BY DEF LinkDown
  <2> QED BY <1>1, <1>2, <1>3, <2>1 DEF HandshakeInv, SameAge, Current
<1>6. MicInv'
  BY <1>2, <1>3 DEF HandshakeInv, MicInv, Current
<1>7. KeyInv'
  BY <1>2, <1>3 DEF KeyInv, Confirmed
<1>8. GroupInv' /\ RenewInv'
  BY <1>1, <1>2, <1>3 DEF HandshakeInv, GroupInv, RenewInv, Current
<1> QED BY <1>3, <1>4, <1>5, <1>6, <1>7, <1>8 DEF HandshakeInv

LEMMA LoseLinkKeeps == HandshakeInv /\ LoseLink => HandshakeInv'
BY LinkDownKeeps DEF LoseLink

LEMMA ApGivesUpKeeps == HandshakeInv /\ ApGivesUp => HandshakeInv'
BY LinkDownKeeps DEF ApGivesUp

\* The frame that the authenticator sends in its state.
SentIn(a, f) ==
    /\ f \in StaFrame /\ f.anonce = a.anonce
    /\ \/ a.state = "msg1" /\ f.t = "pair1"
       \/ a.state = "msg3" /\ f.t = "pair3" /\ f.mic = a.ptk
       \/ a.state = "group" /\ f.t = "group1" /\ f.mic = a.ptk

LEMMA ApSendsEffect ==
    ASSUME HandshakeInv, NEW a \in ApType, a.state \in {"msg1", "msg3", "group"}, ApSends(a)
    PROVE  /\ ap' = a /\ toSta' \in Seq(StaFrame)
           /\ \E f \in StaFrame :
                /\ SentIn(a, f) /\ Frames(toSta)' = Frames(toSta) \cup {f}
                /\ (\A g \in Frames(toSta) : Later(g, f)) => Ordered(toSta)'
<1> DEFINE t == CASE a.state = "msg1" -> "pair1" [] a.state = "msg3" -> "pair3"
                  [] a.state = "group" -> "group1"
           m == PairFrame(a, t)
<1>1. ap' = a /\ toSta' = Append(toSta, m)
  BY DEF ApSends
<1>2. /\ a.state = "msg1" => t = "pair1"
      /\ a.state = "msg3" => t = "pair3"
      /\ a.state = "group" => t = "group1"
  OBVIOUS
<1> HIDE DEF t
<1>3. m \in StaFrame /\ m.anonce = a.anonce /\ m.t = t /\ (t # "pair1" => m.mic = a.ptk)
  BY <1>2 DEF PairFrame, StaFrame, ApType, PairwiseKey, NoKey, Ptk
<1> HIDE DEF m
<1>4. SentIn(a, m)
  BY <1>2, <1>3 DEF SentIn
<1>5. /\ toSta' \in Seq(StaFrame) /\ Frames(toSta)' = Frames(toSta) \cup {m}
      /\ (\A g \in Frames(toSta) : Later(g, m)) => Ordered(toSta)'
  BY <1>1, <1>3, FramesAppend DEF HandshakeInv, WpaType
<1> QED BY <1>1, <1>3, <1>4, <1>5

\* A new association: its frames are the only ones of their age.
LEMMA LinkUpKeeps == HandshakeInv /\ LinkUp => HandshakeInv'
<1> SUFFICES ASSUME HandshakeInv, LinkUp PROVE HandshakeInv'
  OBVIOUS
<1> DEFINE a == [ap EXCEPT !.state = "msg1", !.rc = 1, !.tries = 1, !.anonce = nonces + 1,
                           !.ptk = NoKey, !.renewed = FALSE]
<1>1. a \in ApType /\ a.state = "msg1" /\ a.anonce = nonces + 1 /\ ~a.renewed
  <2>1. ap \in ApType /\ nonces \in Int
    BY DEF HandshakeInv, WpaType
  <2>2. NoKey \in PairwiseKey
    BY DEF NoKey, Ptk, PairwiseKey
  <2> DEFINE n == nonces + 1
             one == 1
             no == FALSE
             k == [ap EXCEPT !.state = "msg1", !.rc = one, !.tries = one, !.anonce = n,
                             !.ptk = NoKey, !.renewed = no]
  <2>3. "msg1" \in ApStates
    BY DEF ApStates
  <2>4. n \in Int /\ one \in Int /\ no \in BOOLEAN /\ ~no
    BY <2>1
  <2>5. n = nonces + 1 /\ k = a
    OBVIOUS
  <2> HIDE DEF n, one, no
  <2>6. k \in ApType /\ k.state = "msg1" /\ k.anonce = n /\ ~k.renewed
    BY <2>1, <2>2, <2>3, <2>4 DEF ApType
  <2> HIDE DEF k, a
  <2> QED BY <2>5, <2>6
<1>2. ApSends(a)
  BY DEF LinkUp
<1> HIDE DEF a
<1>3. PICK f \in StaFrame :
        /\ SentIn(a, f) /\ Frames(toSta)' = Frames(toSta) \cup {f}
        /\ (\A g \in Frames(toSta) : Later(g, f)) => Ordered(toSta)'
  BY <1>1, <1>2, ApSendsEffect
<1>4. ap' = a /\ toSta' \in Seq(StaFrame)
  BY <1>1, <1>2, ApSendsEffect
<1>5. f.t = "pair1" /\ f.anonce = nonces + 1
  BY <1>1, <1>3 DEF SentIn
<1>6. /\ sta' \in StaType /\ sta'.ptk = sta.ptk /\ sta'.state = sta.state
  <2>1. sta \in StaType /\ sta' \in {sta, RemoveAllKeys(sta)}
    BY DEF HandshakeInv, WpaType, LinkUp
  <2> QED BY <2>1, RemoveAllKeysEffect
<1>7. nonces' = nonces + 1 /\ nonces \in Int /\ toAp' = toAp /\ link' = "up" /\ link = "down"
      /\ ap.anonce \in Int /\ sta.ptk.a \in Int
  BY DEF HandshakeInv, WpaType, LinkUp, ApType, StaType, PairwiseKey
<1>8. ap.state = "idle" /\ Frames(toAp) = {}
  BY <1>7 DEF HandshakeInv, SameAge
<1>9. \A g \in Frames(toSta) : g.anonce \in Int /\ 1 <= g.anonce /\ g.anonce <= nonces
  <2>1. \A g \in Frames(toSta) : g \in StaFrame
    BY DEF HandshakeInv, WpaType, Frames
  <2> QED BY <1>7, <2>1 DEF HandshakeInv, SameAge, StaFrame
<1>10. WpaType'
  BY <1>1, <1>4, <1>6, <1>7 DEF HandshakeInv, WpaType
<1>11. ap'.anonce = nonces + 1 /\ ap'.state = "msg1" /\ ~ap'.renewed
  BY <1>1, <1>4
<1>12. SameAge'
  BY <1>3, <1>5, <1>6, <1>7, <1>9, <1>11 DEF HandshakeInv, SameAge, Current
<1>13. MicInv'
  BY <1>3, <1>5, <1>7, <1>9, <1>11 DEF HandshakeInv, MicInv, Current
<1>14. Ordered(toSta)'
  BY <1>3, <1>5, <1>7, <1>9 DEF Later
<1>15. KeyInv'
  BY <1>7, <1>8, <1>11 DEF KeyInv, Confirmed
<1>16. GroupInv'
  BY <1>3, <1>5, <1>6, <1>7, <1>8, <1>9, <1>11 DEF HandshakeInv, GroupInv, Current
<1>17. RenewInv'
  BY <1>3, <1>5, <1>7, <1>9, <1>11 DEF RenewInv, Current
<1> QED BY <1>10, <1>12, <1>13, <1>14, <1>15, <1>16, <1>17 DEF HandshakeInv

\* The authenticator repeats its message, or goes on to the next.  Message 1 is repeated
\* only while there is nothing but message 1 of this association, and message 3 and the
\* group message are of the key that the next state is about.
LEMMA ApSendsKeeps ==
    ASSUME HandshakeInv, NEW a \in ApType, ApSends(a),
           a.anonce = ap.anonce, link' = link, link = "up",
           nonces' = nonces, sta' = sta, cfg' = cfg,
           toAp' \in Seq(ApFrame), Frames(toAp)' \subseteq Frames(toAp),
           a.renewed => a.state = "group",
           a.state = "group" => a.renewed \/ (cfg.mode # "WPA2PSK" /\ ~ap.renewed),
           \/ a.state = "msg1" /\ ap.state = "msg1" /\ a.ptk = ap.ptk
           \/ a.state = "msg3" /\ ap.state = "msg3" /\ a.ptk = ap.ptk
           \/ a.state = "msg3" /\ ap.state = "msg1" /\ a.ptk.a = ap.anonce
           \/ a.state = "group" /\ Confirmed /\ a.ptk = ap.ptk
    PROVE  HandshakeInv'
<1>1. a.state \in {"msg1", "msg3", "group"}
  OBVIOUS
<1>2. PICK f \in StaFrame :
        /\ SentIn(a, f) /\ Frames(toSta)' = Frames(toSta) \cup {f}
        /\ (\A g \in Frames(toSta) : Later(g, f)) => Ordered(toSta)'
  BY <1>1, ApSendsEffect
<1>3. ap' = a /\ toSta' \in Seq(StaFrame)
  BY <1>1, ApSendsEffect
<1>4. f.anonce = ap.anonce /\ ap'.anonce = ap.anonce
  BY <1>2, <1>3 DEF SentIn
<1>5. ap.anonce \in Int /\ nonces \in Int /\ (\A g \in Frames(toSta) : g.anonce \in Int)
  <2>1. \A g \in Frames(toSta) : g \in StaFrame
    BY DEF HandshakeInv, WpaType, Frames
  <2> QED BY <2>1 DEF HandshakeInv, WpaType, ApType, StaFrame
<1>6. WpaType'
  BY <1>3 DEF HandshakeInv, WpaType
<1>7. SameAge'
  <2>1. 1 <= ap.anonce
    BY DEF HandshakeInv, SameAge
  <2>2. link' # "down"
    OBVIOUS
  <2> QED BY <1>2, <1>4, <1>5, <2>1, <2>2 DEF HandshakeInv, SameAge, Current
<1>11. RenewInv'
  <2>1. f.t = "group1" => a.state = "group"
    BY <1>2 DEF SentIn
  <2>2. ap.renewed => a.state = "group"
    BY DEF HandshakeInv, RenewInv, Confirmed
  <2> QED BY <1>2, <1>3, <1>4, <2>1, <2>2 DEF HandshakeInv, RenewInv, Current
<1>8. CASE a.state = "msg1"
  <2>1. f.t = "pair1" /\ ap.state = "msg1" /\ ap'.state = "msg1"
    BY <1>2, <1>3, <1>8 DEF SentIn, Confirmed
  <2>2. ~Confirmed
    BY <2>1 DEF HandshakeInv, KeyInv
  <2>3. \A g \in Frames(toSta) : Current(g) => g.t = "pair1"
    BY <2>1 DEF HandshakeInv, MicInv
  <2>4. MicInv'
    BY <1>2, <1>3, <1>4, <1>8, <2>1, <2>3 DEF HandshakeInv, MicInv, Current
  <2>5. Ordered(toSta)'
    BY <1>2, <1>4, <2>1, <2>3 DEF HandshakeInv, SameAge, Later, Current
  <2>6. KeyInv'
    BY <1>4, <2>1, <2>2 DEF KeyInv, Confirmed
  <2>7. GroupInv'
    <3>1. \A g \in Frames(toSta) : g.t = "group1" => g.anonce < ap.anonce
      BY <1>5, <2>3 DEF HandshakeInv, SameAge, Current
    <3> QED BY <1>2, <1>4, <1>5, <2>1, <3>1 DEF HandshakeInv, GroupInv, Current
  <2> QED BY <1>6, <1>7, <1>11, <2>4, <2>5, <2>6, <2>7 DEF HandshakeInv
<1>9. CASE a.state = "msg3"
  <2>1. f.t = "pair3" /\ f.mic = a.ptk /\ ap'.state = "msg3" /\ ap'.ptk = a.ptk
    BY <1>2, <1>3, <1>9 DEF SentIn
  <2>2. a.ptk.a = ap.anonce
    BY <1>9 DEF HandshakeInv, MicInv
  <2>3. \/ a.ptk = ap.ptk
        \/ ap.state = "msg1" /\ ~Confirmed /\ \A g \in Frames(toSta) : Current(g) => g.t = "pair1"
    BY <1>9 DEF HandshakeInv, KeyInv, MicInv
  <2>4. MicInv'
    BY <1>2, <1>4, <2>1, <2>2, <2>3 DEF HandshakeInv, MicInv, Current
  <2>5. Ordered(toSta)'
    BY <1>2, <1>4, <2>1 DEF HandshakeInv, SameAge, Later
  <2>6. KeyInv'
    <3>1. Confirmed' => Confirmed /\ a.ptk = ap.ptk
      BY <1>4, <2>1, <2>3 DEF Confirmed
    <3>2. sta.key = ap.ptk \/ ~Confirmed
      BY <1>9 DEF HandshakeInv, KeyInv, RenewInv, Renewed
    <3> QED BY <1>2, <1>4, <2>1, <2>2, <3>1, <3>2 DEF HandshakeInv, KeyInv, Current
  <2>7. \A g \in Frames(toSta) : g.t = "group1" => ~Current(g)
    BY <1>9, <2>3 DEF HandshakeInv, GroupInv, Confirmed
  <2>8. GroupInv'
    BY <1>2, <1>4, <2>1, <2>7 DEF HandshakeInv, GroupInv, Current
  <2> QED BY <1>6, <1>7, <1>11, <2>4, <2>5, <2>6, <2>8 DEF HandshakeInv
<1>10. CASE a.state = "group"
  <2>1. f.t = "group1" /\ f.mic = a.ptk /\ ap'.state = "group" /\ ap'.ptk = ap.ptk
    BY <1>2, <1>3, <1>10 DEF SentIn
  <2>2. /\ sta.key = ap.ptk \/ Renewed
        /\ sta.ptk = ap.ptk /\ ap.ptk.a = ap.anonce
        /\ \A g \in Frames(toSta) : Current(g) /\ g.t # "pair1"
    BY <1>10 DEF HandshakeInv, KeyInv
  <2>7. Renewed => Renewed'
    BY <1>3, <1>10 DEF Renewed
  <2>3. MicInv'
    BY <1>2, <1>3, <1>4, <1>10, <2>1, <2>2 DEF HandshakeInv, MicInv, Current
  <2>4. Ordered(toSta)'
    BY <1>2, <1>4, <2>1 DEF HandshakeInv, SameAge, Later
  <2>5. KeyInv'
    BY <1>2, <1>4, <2>1, <2>2, <2>7 DEF KeyInv, Current
  <2>6. GroupInv'
    BY <1>2, <1>4, <2>1, <2>2 DEF GroupInv, Current
  <2> QED BY <1>6, <1>7, <1>11, <2>3, <2>4, <2>5, <2>6 DEF HandshakeInv
<1> QED BY <1>1, <1>8, <1>9, <1>10

\* The records that the authenticator goes on with.
LEMMA ApRecords ==
    ASSUME NEW p \in ApType, NEW v \in ApStates, NEW r \in Int, NEW t \in Int,
           NEW g \in Int, NEW k \in PairwiseKey
    PROVE  /\ [p EXCEPT !.rc = r, !.tries = t] \in ApType
           /\ [p EXCEPT !.state = v] \in ApType
           /\ [p EXCEPT !.state = v, !.rc = r, !.tries = t] \in ApType
           /\ [p EXCEPT !.state = v, !.rc = r, !.tries = t, !.gtk = g] \in ApType
           /\ [p EXCEPT !.state = v, !.rc = r, !.tries = t, !.ptk = k] \in ApType
BY DEF ApType

LEMMA ApTimeoutKeeps == HandshakeInv /\ ApTimeout => HandshakeInv'
<1> SUFFICES ASSUME HandshakeInv, ApTimeout PROVE HandshakeInv'
  OBVIOUS
<1> DEFINE r == ap.rc + 1
           t == ap.tries + 1
           a == [ap EXCEPT !.rc = r, !.tries = t]
<1>1. /\ ApSends(a) /\ UNCHANGED <<cfg, sta, link, toAp, nonces>>
      /\ ap.state \in {"msg1", "msg3", "group"}
  BY DEF ApTimeout
<1>2. ap \in ApType /\ r \in Int /\ t \in Int
  BY DEF HandshakeInv, WpaType, ApType
<1> HIDE DEF r, t
<1>3. /\ a \in ApType /\ a.state = ap.state /\ a.anonce = ap.anonce /\ a.ptk = ap.ptk
      /\ a.renewed = ap.renewed
  BY <1>2 DEF ApType
<1>4. link = "up"
  BY <1>1 DEF HandshakeInv, WpaType, SameAge
<1>5. toAp' \in Seq(ApFrame) /\ Frames(toAp)' \subseteq Frames(toAp)
  BY <1>1 DEF HandshakeInv, WpaType
<1>6. ap.state = "group" => Confirmed
  BY DEF Confirmed
<1>7. /\ ap.renewed /\ ap.state # "idle" => ap.state \in {"group", "done"}
      /\ ap.state = "group" => ap.renewed \/ cfg.mode # "WPA2PSK"
  BY DEF HandshakeInv, RenewInv
<1> HIDE DEF a
<1> QED BY <1>1, <1>3, <1>4, <1>5, <1>6, <1>7, ApSendsKeeps

LEMMA ApRekeysKeeps == HandshakeInv /\ ApRekeys => HandshakeInv'
<1> SUFFICES ASSUME HandshakeInv, ApRekeys PROVE HandshakeInv'
  OBVIOUS
<1> DEFINE r == ap.rc + 1
           g == ap.gtk + 1
           one == 1
           yes == TRUE
           a == [ap EXCEPT !.state = "group", !.rc = r, !.tries = one, !.gtk = g,
                           !.renewed = yes]
<1>1. /\ ap \in ApType /\ r \in Int /\ g \in Int /\ one \in Int /\ "group" \in ApStates
      /\ yes \in BOOLEAN /\ yes
  BY DEF HandshakeInv, WpaType, ApType, ApStates
<1>2. ApSends(a) /\ UNCHANGED <<cfg, sta, link, toAp, nonces>> /\ ap.state = "done"
  <2>1. a = [ApStep(ap, "group") EXCEPT !.gtk = @ + 1, !.renewed = TRUE]
    BY <1>1 DEF ApStep, ApType
  <2> QED BY <2>1 DEF ApRekeys
<1> HIDE DEF r, g, one, yes
<1>3. /\ a \in ApType /\ a.state = "group" /\ a.anonce = ap.anonce /\ a.ptk = ap.ptk
      /\ a.renewed
  BY <1>1 DEF ApType
<1>4. link = "up"
  BY <1>2 DEF HandshakeInv, WpaType, SameAge
<1>5. toAp' \in Seq(ApFrame) /\ Frames(toAp)' \subseteq Frames(toAp)
  BY <1>2 DEF HandshakeInv, WpaType
<1>6. Confirmed
  BY <1>2 DEF Confirmed
<1> HIDE DEF a
<1> QED BY <1>2, <1>3, <1>4, <1>5, <1>6, ApSendsKeeps

\* The authenticator is done: nothing but its state changes.
LEMMA ApDoneKeeps ==
    ASSUME HandshakeInv, Confirmed, ap' = [ap EXCEPT !.state = "done"], link = "up",
           UNCHANGED <<cfg, sta, link, nonces, toSta>>,
           toAp' \in Seq(ApFrame), Frames(toAp)' \subseteq Frames(toAp)
    PROVE  HandshakeInv'
<1>1. /\ ap' \in ApType /\ ap'.state = "done" /\ ap'.anonce = ap.anonce
      /\ ap'.ptk = ap.ptk /\ ap'.renewed = ap.renewed
  <2>1. ap \in ApType
    BY DEF HandshakeInv, WpaType
  <2> QED BY <2>1 DEF ApType, ApStates
<1>2. /\ sta.key = ap.ptk \/ Renewed
      /\ sta.ptk = ap.ptk /\ ap.ptk.a = ap.anonce
      /\ ap.state # "msg1"
      /\ \A g \in Frames(toSta) : Current(g) /\ g.t # "pair1"
  BY DEF HandshakeInv, KeyInv
<1>3. WpaType' /\ Ordered(toSta)'
  BY <1>1 DEF HandshakeInv, WpaType
<1>4. SameAge'
  BY <1>1 DEF HandshakeInv, SameAge, Current
<1>5. MicInv'
  BY <1>1, <1>2 DEF HandshakeInv, MicInv, Current
<1>6. KeyInv' /\ GroupInv'
  BY <1>1, <1>2 DEF KeyInv, GroupInv, Current, Renewed
<1>7. RenewInv'
  BY <1>1 DEF HandshakeInv, RenewInv, Current
<1> QED BY <1>3, <1>4, <1>5, <1>6, <1>7 DEF HandshakeInv

LEMMA ApReceiveKeeps == HandshakeInv /\ ApReceive => HandshakeInv'
<1> SUFFICES ASSUME HandshakeInv, ApReceive PROVE HandshakeInv'
  OBVIOUS
<1> DEFINE m == Head(toAp)
           r == ap.rc + 1
           one == 1
           k == Ptk(ap.anonce, m.snonce)
           a3 == [ap EXCEPT !.state = "msg3", !.rc = r, !.tries = one, !.ptk = k]
           ag == [ap EXCEPT !.state = "group", !.rc = r, !.tries = one]
<1>1. toAp # <<>> /\ toAp' = Tail(toAp) /\ UNCHANGED <<cfg, sta, link, nonces>>
  BY DEF ApReceive
<1>2. /\ m \in ApFrame /\ m \in Frames(toAp)
      /\ toAp' \in Seq(ApFrame) /\ Frames(toAp)' \subseteq Frames(toAp)
  BY <1>1, FramesTail DEF HandshakeInv, WpaType
<1>3. link = "up"
  BY <1>2 DEF HandshakeInv, WpaType, SameAge
<1>4. /\ ap \in ApType /\ r \in Int /\ one \in Int /\ k \in PairwiseKey /\ k.a = ap.anonce
      /\ "msg3" \in ApStates /\ "group" \in ApStates
  <2>1. ap \in ApType
    BY DEF HandshakeInv, WpaType
  <2>2. r \in Int /\ one \in Int /\ "msg3" \in ApStates /\ "group" \in ApStates
    BY <2>1 DEF ApType, ApStates
  <2>3. m.snonce \in Int /\ ap.anonce \in Int
    BY <1>2, <2>1 DEF ApFrame, ApType
  <2> HIDE DEF m
  <2>4. k \in PairwiseKey /\ k.a = ap.anonce
    BY <2>3 DEF PairwiseKey, Ptk
  <2> QED BY <2>1, <2>2, <2>4
<1>5. \/ ap.state = "msg1" /\ ApSends(a3)
      \/ /\ ap.state = "msg3" /\ m.t = "pair4" /\ m.mic = ap.ptk
         /\ \/ cfg.mode = "WPAPSK" /\ ApSends(ag)
            \/ ap' = [ap EXCEPT !.state = "done"] /\ UNCHANGED toSta
      \/ ap.state = "group" /\ ap' = [ap EXCEPT !.state = "done"] /\ UNCHANGED toSta
      \/ UNCHANGED <<ap, toSta>>
  <2>1. a3 = [ApStep(ap, "msg3") EXCEPT !.ptk = k]
    BY <1>4 DEF ApStep, ApType
  <2>2. ag = ApStep(ap, "group")
    BY DEF ApStep
  <2> HIDE DEF a3, ag, k, r, one
  <2>3. k = Ptk(ap.anonce, m.snonce)
    BY DEF k
  <2> QED BY <2>1, <2>2, <2>3 DEF ApReceive
<1> HIDE DEF m, r, one, k
<1>6. CASE ap.state = "msg1" /\ ApSends(a3)
  <2>1. /\ a3 \in ApType /\ a3.state = "msg3" /\ a3.anonce = ap.anonce /\ a3.ptk = k
        /\ a3.renewed = ap.renewed
    BY <1>4 DEF ApType
  <2>2. ~ap.renewed
    BY <1>6 DEF HandshakeInv, RenewInv
  <2> HIDE DEF a3
  <2> QED BY <1>1, <1>2, <1>3, <1>4, <1>6, <2>1, <2>2, ApSendsKeeps
<1>7. CASE /\ ap.state = "msg3" /\ m.t = "pair4" /\ m.mic = ap.ptk
           /\ \/ cfg.mode = "WPAPSK" /\ ApSends(ag)
              \/ ap' = [ap EXCEPT !.state = "done"] /\ UNCHANGED toSta
  <2>1. Confirmed
    BY <1>2, <1>7 DEF HandshakeInv, MicInv, Confirmed
  <2>2. /\ ag \in ApType /\ ag.state = "group" /\ ag.anonce = ap.anonce /\ ag.ptk = ap.ptk
        /\ ag.renewed = ap.renewed
    BY <1>4 DEF ApType
  <2>5. ~ap.renewed
    BY <1>7 DEF HandshakeInv, RenewInv
  <2> HIDE DEF ag
  <2>3. CASE cfg.mode = "WPAPSK" /\ ApSends(ag)
    BY <1>1, <1>2, <1>3, <2>1, <2>2, <2>3, <2>5, ApSendsKeeps
  <2>4. CASE ap' = [ap EXCEPT !.state = "done"] /\ UNCHANGED toSta
    BY <1>1, <1>2, <1>3, <2>1, <2>4, ApDoneKeeps
  <2> QED BY <1>7, <2>3, <2>4
<1>8. CASE ap.state = "group" /\ ap' = [ap EXCEPT !.state = "done"] /\ UNCHANGED toSta
  <2>1. Confirmed
    BY <1>8 DEF Confirmed
  <2> QED BY <1>1, <1>2, <1>3, <1>8, <2>1, ApDoneKeeps
<1>9. CASE UNCHANGED <<ap, toSta>>
  <2>1. toSta' \in Seq(StaFrame) /\ Ordered(toSta)'
    BY <1>9 DEF HandshakeInv, WpaType
  <2> QED BY <1>1, <1>2, <1>9, <2>1, Shrinks
<1> QED BY <1>5, <1>6, <1>7, <1>8, <1>9

LEMMA EncryptedWithType ==
    ASSUME WpaType, NEW m \in StaFrame, NEW fail, NEW key \in EncryptedWith(AddGtk(sta, m, fail))
    PROVE  key \in PairwiseKey
<1> DEFINE d == AddGtk(sta, m, fail)
<1>1. sta \in StaType /\ d \in StaType
  BY AddGtkEffect DEF WpaType
<1>2. key \in {sta.key, d.key}
  BY DEF EncryptedWith
<1> HIDE DEF d
<1> QED BY <1>1, <1>2 DEF StaType

\* What Receive does, in terms of its handler's effect.
LEMMA ReceiveEffect ==
    ASSUME HandshakeInv, Receive
    PROVE  \E m \in Frames(toSta), out \in {<<>>} \cup {<<f>> : f \in ApFrame} :
            /\ m \in StaFrame /\ Effect(m, sta', out)
            /\ toSta' \in Seq(StaFrame) /\ Frames(toSta)' \subseteq Frames(toSta) /\ Ordered(toSta)'
            /\ \A g \in Frames(toSta)' : Later(m, g)
            /\ toAp' \in Seq(ApFrame)
            /\ \A g \in Frames(toAp)' : g \in Frames(toAp) \/ (link = "up" /\ out = <<g>>)
            /\ nonces' \in {nonces, nonces + 1} /\ UNCHANGED <<cfg, link, ap>>
<1> DEFINE m == Head(toSta)
<1>1. toSta # <<>> /\ toSta' = Tail(toSta) /\ UNCHANGED <<cfg, link, ap>>
  BY DEF Receive
<1>2. /\ m \in StaFrame /\ m \in Frames(toSta)
      /\ toSta' \in Seq(StaFrame) /\ Frames(toSta)' \subseteq Frames(toSta) /\ Ordered(toSta)'
      /\ \A g \in Frames(toSta)' : Later(m, g)
  BY <1>1, FramesTail DEF HandshakeInv, WpaType
<1>3. PICK fail : \E key \in EncryptedWith(AddGtk(sta, m, fail)) :
        /\ sta' = EAPOLKeyAction(m, fail, key).sta
        /\ nonces' \in {nonces, nonces + 1}
        /\ toAp' = IF link = "down" THEN toAp ELSE toAp \o EAPOLKeyAction(m, fail, key).out
  BY DEF Receive
<1> HIDE DEF m
<1>9. PICK key \in EncryptedWith(AddGtk(sta, m, fail)) :
        /\ sta' = EAPOLKeyAction(m, fail, key).sta
        /\ nonces' \in {nonces, nonces + 1}
        /\ toAp' = IF link = "down" THEN toAp ELSE toAp \o EAPOLKeyAction(m, fail, key).out
  BY <1>3
<1>8. key \in PairwiseKey
  BY <1>2, <1>9, EncryptedWithType DEF HandshakeInv
<1> DEFINE out == EAPOLKeyAction(m, fail, key).out
<1>4. Effect(m, sta', out)
  BY <1>2, <1>8, <1>9, HandlerEffect DEF HandshakeInv
<1>5. out \in {<<>>} \cup {<<f>> : f \in ApFrame}
  BY <1>4 DEF Effect, ActionEffect
<1>6. toAp' = IF link = "down" THEN toAp ELSE toAp \o out
  BY <1>9
<1> HIDE DEF out
<1>7. /\ toAp' \in Seq(ApFrame)
      /\ \A g \in Frames(toAp)' : g \in Frames(toAp) \/ (link = "up" /\ out = <<g>>)
  <2>1. toAp \in Seq(ApFrame) /\ link \in {"up", "down"}
    BY DEF HandshakeInv, WpaType
  <2>2. CASE link = "down"
    <3>1. toAp' = toAp
      BY <1>6, <2>2
    <3>2. Frames(toAp)' = Frames(toAp)
      BY <3>1
    <3> QED BY <2>1, <3>1, <3>2
  <2>3. CASE link = "up"
    <3>1. toAp' = toAp \o out
      BY <1>6, <2>3
    <3>2. /\ toAp \o out \in Seq(ApFrame)
          /\ \A g \in Frames(toAp \o out) : g \in Frames(toAp) \/ out = <<g>>
      BY <1>5, <2>1, FramesAnswer
    <3>3. Frames(toAp)' = Frames(toAp \o out)
      BY <3>1
    <3> QED BY <2>3, <3>1, <3>2, <3>3
  <2> QED BY <2>1, <2>2, <2>3
<1> QED BY <1>1, <1>2, <1>4, <1>5, <1>7, <1>9

\* The supplicant takes a frame.  While the key is confirmed no message 1 is left, so the
\* PTK stays; a message 4 that confirms it goes out with the key that its MIC is made of,
\* and that is the authenticator's because message 3 was of the same association.
LEMMA ReceiveKeeps == HandshakeInv /\ Receive => HandshakeInv'
<1> SUFFICES ASSUME HandshakeInv, Receive PROVE HandshakeInv'
  OBVIOUS
<1>1. PICK m \in Frames(toSta), out \in {<<>>} \cup {<<f>> : f \in ApFrame} :
        /\ m \in StaFrame /\ Effect(m, sta', out)
        /\ toSta' \in Seq(StaFrame) /\ Frames(toSta)' \subseteq Frames(toSta) /\ Ordered(toSta)'
        /\ \A g \in Frames(toSta)' : Later(m, g)
        /\ toAp' \in Seq(ApFrame)
        /\ \A g \in Frames(toAp)' : g \in Frames(toAp) \/ (link = "up" /\ out = <<g>>)
        /\ nonces' \in {nonces, nonces + 1} /\ UNCHANGED <<cfg, link, ap>>
  BY ReceiveEffect
<1>2. /\ ap.anonce \in Int /\ nonces \in Int /\ sta.ptk.a \in Int /\ m.anonce \in Int
      /\ \A g \in Frames(toSta) : g.anonce \in Int
  <2>1. \A g \in Frames(toSta) : g \in StaFrame
    BY DEF HandshakeInv, WpaType, Frames
  <2> QED BY <2>1 DEF HandshakeInv, WpaType, ApType, StaType, StaFrame, PairwiseKey
<1>3. WpaType'
  BY <1>1, <1>2 DEF HandshakeInv, WpaType, Effect, ActionEffect
<1>4. 1 <= m.anonce /\ m.anonce <= ap.anonce
  BY DEF HandshakeInv, SameAge
<1>5. SameAge'
  <2>1. /\ sta'.ptk.a <= ap.anonce
        /\ sta'.ptk.a = ap.anonce => \A g \in Frames(toSta)' : Current(g)
    <3>1. CASE sta'.ptk = sta.ptk
      BY <1>1, <3>1 DEF HandshakeInv, SameAge
    <3>2. CASE sta'.ptk.a = 0
      <4>1. sta'.ptk.a <= ap.anonce /\ sta'.ptk.a # ap.anonce
        BY <1>2, <1>4, <3>2
      <4> QED BY <4>1
    <3>3. CASE sta'.ptk.a = m.anonce
      <4>1. \A g \in Frames(toSta)' : m.anonce <= g.anonce /\ g.anonce <= ap.anonce
        BY <1>1 DEF HandshakeInv, SameAge, Later
      <4>2. \A g \in Frames(toSta)' : g.anonce \in Int
        BY <1>1, <1>2
      <4>3. m.anonce = ap.anonce => \A g \in Frames(toSta)' : g.anonce = ap.anonce
        BY <1>2, <4>1, <4>2
      <4> QED BY <1>4, <3>3, <4>3 DEF Current
    <3> QED BY <1>1, <3>1, <3>2, <3>3 DEF Effect, ActionEffect
  <2>2. link = "down" => Frames(toAp)' = {}
    BY <1>1 DEF HandshakeInv, SameAge
  <2> QED BY <1>1, <1>2, <2>1, <2>2 DEF HandshakeInv, SameAge, Current
<1>6. MicInv'
  BY <1>1 DEF HandshakeInv, MicInv, Current
<1>7. KeyInv'
  <2>1. CASE Confirmed
    <3>1. sta'.ptk = ap.ptk
      BY <1>1, <2>1 DEF HandshakeInv, KeyInv, Effect, ActionEffect
    <3>2. sta'.key = ap.ptk \/ Renewed
      <4>1. CASE sta'.key = sta.key
        BY <2>1, <4>1 DEF HandshakeInv, KeyInv
      <4>2. CASE m.t = "pair3" /\ sta'.key = sta.ptk
        BY <2>1, <4>2 DEF HandshakeInv, KeyInv
      <4>3. CASE m.t = "group1" /\ cfg.mode = "WPA2PSK"
        BY <2>1, <4>3 DEF HandshakeInv, KeyInv, RenewInv, Renewed
      <4> QED BY <1>1, <2>1, <4>1, <4>2, <4>3 DEF HandshakeInv, KeyInv, Effect, ActionEffect
    <3> QED BY <1>1, <2>1, <3>1, <3>2 DEF HandshakeInv, KeyInv, Current, Renewed
  <2>2. CASE ~Confirmed /\ Confirmed'
    <3>1. PICK g \in Frames(toAp)' : g.t = "pair4" /\ g.mic.a = ap.anonce
      BY <1>1, <2>2 DEF Confirmed
    <3>2. out = <<g>>
      BY <1>1, <2>2, <3>1 DEF Confirmed
    <3>3. /\ m.t = "pair3" /\ m.mic = sta.ptk /\ g.mic = sta.ptk
          /\ sta'.key = sta.ptk /\ sta'.ptk = sta.ptk
      BY <1>1, <3>1, <3>2 DEF Effect, ActionEffect
    <3>4. Current(m) /\ \A f \in Frames(toSta) : Current(f)
      BY <3>1, <3>3 DEF HandshakeInv, SameAge
    <3>5. m.mic = ap.ptk /\ ap.state # "msg1"
      BY <3>3, <3>4 DEF HandshakeInv, MicInv
    <3>6. \A f \in Frames(toSta)' : Current(f) /\ f.t # "pair1"
      BY <1>1, <3>3, <3>4 DEF Later, Current
    <3> QED BY <1>1, <3>1, <3>3, <3>5, <3>6 DEF KeyInv, Current
  <2> QED BY <2>1, <2>2 DEF KeyInv
<1>8. GroupInv'
  <2> SUFFICES ASSUME NEW f \in Frames(toSta)', f.t = "group1"
               PROVE  /\ \A g \in Frames(toSta)' : g.anonce <= f.anonce => g.t # "pair1"
                      /\ Current(f)' => ap'.state \in {"group", "done", "idle"}
                      /\ ~Current(f)' \/ ap'.state = "idle" => sta'.state = "START"
    BY DEF GroupInv
  <2>1. /\ \A g \in Frames(toSta) : g.anonce <= f.anonce => g.t # "pair1"
        /\ Current(f) => ap.state \in {"group", "done", "idle"}
        /\ ~Current(f) \/ ap.state = "idle" => sta.state = "START"
    BY <1>1 DEF HandshakeInv, GroupInv
  <2>2. m.t # "pair1"
    BY <1>1, <2>1 DEF Later
  <2>3. sta.state = "START" => sta'.state = "START"
    BY <1>1, <2>2 DEF Effect, ActionEffect
  <2> QED BY <1>1, <2>1, <2>3 DEF Current
<1>9. RenewInv'
  BY <1>1 DEF HandshakeInv, RenewInv, Current
<1> QED BY <1>1, <1>3, <1>5, <1>6, <1>7, <1>8, <1>9 DEF HandshakeInv

---------------------------------------------------------------------------
(* The theorems *)

LEMMA HandshakeStep == HandshakeInv /\ [WpaNext]_wpaVars => HandshakeInv'
<1> SUFFICES ASSUME HandshakeInv, [WpaNext]_wpaVars PROVE HandshakeInv'
  OBVIOUS
<1>1. CASE UNCHANGED wpaVars
  BY <1>1 DEF wpaVars, HandshakeInv, WpaType, SameAge, MicInv, KeyInv, GroupInv, RenewInv,
              Confirmed, Current, Renewed
<1>2. CASE WpaNext
  BY <1>2, ReceiveKeeps, AddWpaKeeps, LoseLinkKeeps, LinkUpKeeps, ApReceiveKeeps,
     ApTimeoutKeeps, ApGivesUpKeeps, ApRekeysKeeps, LoseKeeps DEF WpaNext
<1> QED BY <1>1, <1>2

LEMMA HandshakeInvHolds == WpaSpec => []HandshakeInv
BY HandshakeStart, HandshakeStep, PTL DEF WpaSpec

\* Whatever is lost, repeated, late or out of memory: an authenticator that has finished
\* the handshake and the chip of the station use the same pairwise key, until a renewal of
\* WPA2-PSK overwrites the station's.
THEOREM SameKeyWhenDone == WpaSpec => []DoneMeansSameKey
<1>1. HandshakeInv => DoneMeansSameKey
  BY DEF HandshakeInv, KeyInv, Confirmed, DoneMeansSameKey
<1> QED BY <1>1, HandshakeInvHolds, PTL

\* The port opens on a group message, and one that finds the supplicant past START is of
\* the association in progress, whose pairwise key was confirmed before.
LEMMA PortStep ==
    HandshakeInv /\ [WpaNext]_wpaVars =>
        [cfg.mode = "WPAPSK" /\ ~sta.secured /\ sta'.secured => sta'.key = ap.ptk]_wpaVars
<1> SUFFICES ASSUME HandshakeInv, WpaNext, cfg.mode = "WPAPSK", ~sta.secured, sta'.secured
             PROVE  sta'.key = ap.ptk
  OBVIOUS
<1>1. CASE Receive
  <2>1. PICK m \in Frames(toSta) : \E out : Effect(m, sta', out)
    BY <1>1, ReceiveEffect
  <2>2. m.t = "group1" /\ sta.state # "START" /\ sta'.key = sta.key
    BY <2>1 DEF Effect, ActionEffect
  <2>3. Current(m) /\ ap.state \in {"group", "done"}
    BY <2>2 DEF HandshakeInv, GroupInv
  <2> QED BY <2>2, <2>3 DEF HandshakeInv, KeyInv, Confirmed, Renewed
<1>2. CASE ~Receive
  <2>1. sta'.secured \in {sta.secured, FALSE}
    <3>1. CASE LinkUp
      BY <3>1 DEF LinkUp, RemoveAllKeys, HandshakeInv, WpaType, StaType
    <3>2. CASE AddWpa
      BY <3>2 DEF AddWpa, HandshakeInv, WpaType, StaType
    <3>3. CASE LoseLink \/ ApGivesUp
      BY <3>3 DEF LoseLink, ApGivesUp, LinkDown, RemoveAllKeys, HandshakeInv, WpaType, StaType
    <3>4. CASE ApReceive \/ ApTimeout \/ ApRekeys \/ Lose
      BY <3>4 DEF ApReceive, ApTimeout, ApRekeys, Lose
    <3> QED BY <1>2, <3>1, <3>2, <3>3, <3>4 DEF WpaNext
  <2> QED BY <2>1
<1> QED BY <1>1, <1>2

THEOREM PortOpensAfterKey == WpaSpec => PortOpensEncrypted
BY HandshakeInvHolds, PortStep, PTL DEF WpaSpec, PortOpensEncrypted

---------------------------------------------------------------------------
(* The group key behind an open port *)

Held == sta.gtk[KeyId(ap.gtk)] = ap.gtk

\* The counters of one association grow, and its message 3 comes after every message 1.
Before(f, g) ==
    /\ f.anonce = g.anonce => f.rc < g.rc
    /\ g.t # "pair1" => f.t # "pair1"
Counted(q) == \A i, j \in 1 .. Len(q) : i < j => Before(q[i], q[j])

\* An answer to the last message shows that nothing else is on its way to the supplicant.
CountInv ==
    /\ Counted(toSta)
    /\ \A f \in Frames(toSta) : Current(f) => f.rc <= ap.rc
    /\ \A g \in Frames(toAp) : g.mic.a = ap.anonce =>
        /\ g.rc <= ap.rc
        /\ \A f \in Frames(toSta) : Current(f) /\ g.rc < f.rc
    /\ ap.state \in {"msg3", "group", "done"} => \A f \in Frames(toSta) : f.t # "pair1"
    /\ ap.state = "done" => Frames(toSta) = {}

\* What message 3 and a group message find: of an earlier association, the supplicant in
\* START; of this one, a supplicant that lacks the group key they bring.
KeyDataInv ==
    \A f \in Frames(toSta) : f.t # "pair1" =>
        /\ link = "down" \/ ~Current(f) => sta.state = "START"
        /\ link = "up" /\ Current(f) => f.gtk = ap.gtk

\* With WPA-PSK the group key is held when it is confirmed, with WPA2-PSK from the moment
\* the port opens until the key is renewed.
PortInv ==
    /\ link = "down" => ~sta.secured
    /\ ap.state = "group" =>
        \A g \in Frames(toAp) : g.t = "group2" /\ g.mic.a = ap.anonce /\ g.rc = ap.rc =>
            Held \/ Renewed
    /\ ap.state = "done" \/ (cfg.mode # "WPAPSK" /\ ap.state \in {"msg1", "msg3"}) =>
        (sta.secured => Held \/ Renewed)

OpenInv == HandshakeInv /\ CountInv /\ KeyDataInv /\ PortInv

LEMMA OpenStart == WpaInit => OpenInv
<1> SUFFICES ASSUME WpaInit PROVE OpenInv
  OBVIOUS
<1>1. Frames(toSta) = {} /\ Frames(toAp) = {} /\ toSta = <<>>
  BY NoFrames DEF WpaInit
<1>2. Counted(toSta)
  BY <1>1 DEF Counted
<1>3. CountInv /\ KeyDataInv /\ PortInv
  BY <1>1, <1>2 DEF WpaInit, CountInv, KeyDataInv, PortInv
<1> QED BY <1>3, HandshakeStart DEF OpenInv

LEMMA CountedTail ==
    ASSUME NEW S, NEW q \in Seq(S), q # <<>>, Counted(q)
    PROVE  Counted(Tail(q)) /\ \A f \in Frames(Tail(q)) : Before(Head(q), f)
<1>1. /\ Len(q) \in Nat \ {0} /\ Len(Tail(q)) = Len(q) - 1 /\ Head(q) = q[1]
      /\ \A i \in 1 .. Len(q) - 1 : Tail(q)[i] = q[i + 1]
  BY HeadTailProperties, EmptySeq
<1>2. 1 \in 1 .. Len(q) /\ \A i \in 1 .. Len(q) - 1 : i + 1 \in 1 .. Len(q) /\ 1 < i + 1
  BY <1>1
<1>3. \A f \in Frames(Tail(q)) : Before(Head(q), f)
  BY <1>1, <1>2 DEF Frames, Counted
<1>4. ASSUME NEW i \in 1 .. Len(q) - 1, NEW j \in 1 .. Len(q) - 1, i < j
      PROVE  Before(Tail(q)[i], Tail(q)[j])
  <2>1. i + 1 \in 1 .. Len(q) /\ j + 1 \in 1 .. Len(q) /\ i + 1 < j + 1
    BY <1>1, <1>4
  <2> QED BY <1>1, <2>1 DEF Counted
<1> QED BY <1>1, <1>3, <1>4 DEF Counted

LEMMA CountedAppend ==
    ASSUME NEW S, NEW q \in Seq(S), NEW m \in S, Counted(q), \A f \in Frames(q) : Before(f, m)
    PROVE  Counted(Append(q, m))
<1>1. /\ Len(Append(q, m)) = Len(q) + 1 /\ Len(q) \in Nat
      /\ \A i \in 1 .. Len(q) : Append(q, m)[i] = q[i]
      /\ Append(q, m)[Len(q) + 1] = m
  BY AppendProperties, LenProperties
<1> SUFFICES ASSUME NEW i \in 1 .. Len(q) + 1, NEW j \in 1 .. Len(q) + 1, i < j
             PROVE  Before(Append(q, m)[i], Append(q, m)[j])
  BY <1>1 DEF Counted
<1>2. i \in 1 .. Len(q) /\ (j \in 1 .. Len(q) \/ j = Len(q) + 1)
  <2>1. Len(q) \in Nat
    BY <1>1
  <2> QED BY <2>1
<1>3. CASE j \in 1 .. Len(q)
  BY <1>1, <1>2, <1>3 DEF Counted
<1>4. CASE j = Len(q) + 1
  BY <1>1, <1>2, <1>4 DEF Frames
<1> QED BY <1>2, <1>3, <1>4

\* Types of the fields that the invariant compares.
LEMMA FrameTypes ==
    ASSUME HandshakeInv
    PROVE  /\ ap.anonce \in Int /\ ap.rc \in Int /\ ap.gtk \in Int /\ nonces \in Int
           /\ sta \in StaType /\ ap \in ApType /\ ap.state \in ApStates
           /\ toSta \in Seq(StaFrame) /\ toAp \in Seq(ApFrame) /\ link \in {"up", "down"}
           /\ \A f \in Frames(toSta) : f \in StaFrame /\ f.anonce \in Int /\ f.rc \in Int
           /\ \A g \in Frames(toAp) : g \in ApFrame /\ g.rc \in Int /\ g.mic.a \in Int
<1>1. \A f \in Frames(toSta) : f \in StaFrame
  BY DEF HandshakeInv, WpaType, Frames
<1>2. \A g \in Frames(toAp) : g \in ApFrame
  BY DEF HandshakeInv, WpaType, Frames
<1> QED BY <1>1, <1>2 DEF HandshakeInv, WpaType, ApType, StaFrame, ApFrame, PairwiseKey

\* Without a failing unwrap a handler sets the group key that its message brings, or
\* leaves it; and it opens the port, or confirms the group key, only when it has set it, or
\* on a group message of WPA2.
Sets(m, s) ==
    m.t # "pair1" /\ sta.state # "START" /\ s.gtk = [sta.gtk EXCEPT ![KeyId(m.gtk)] = m.gtk]
AtZero(m) == m.t = "group1" /\ sta.state # "START" /\ cfg.mode = "WPA2PSK"
SetsGroupKey(m, s, out) ==
    /\ s.gtk = sta.gtk \/ Sets(m, s)
    /\ s.secured => sta.secured \/ Sets(m, s) \/ AtZero(m)
    /\ \A f : out = <<f>> =>
        /\ f.rc = m.rc /\ f.mic.a \in (IF m.t = "pair1" THEN {0, m.anonce} ELSE {m.mic.a})
        /\ f.t = "group2" => m.t = "group1" /\ (Sets(m, s) \/ AtZero(m))
    /\ s.state # "START" => sta.state # "START" \/ m.t = "pair1"

LEMMA AddGroupKeySets ==
    ASSUME NEW s \in StaType, NEW id \in {1, 2}, NEW g \in Int
    PROVE  AddGroupKey(s, id, g).gtk = [s.gtk EXCEPT ![id] = g]
BY DEF AddGroupKey, StaType

LEMMA Finished ==
    ASSUME NEW d \in StaType, NEW v, NEW b
    PROVE  LET s == [d EXCEPT !.state = v, !.secured = @ /\ b]
           IN  s.gtk = d.gtk /\ (s.secured => d.secured) /\ s.state = v
BY DEF StaType

LEMMA GroupKeyEffect ==
    ASSUME WpaType, NEW m \in StaFrame, NEW fail, NEW key \in PairwiseKey, fail # "unwrap"
    PROVE  SetsGroupKey(m, EAPOLKeyAction(m, fail, key).sta, EAPOLKeyAction(m, fail, key).out)
<1> DEFINE d == Action(m, fail, key)
           s == [d.sta EXCEPT !.state = NextState(m.t), !.secured = @ /\ ~Unsecures(m.t)]
           c == [sta EXCEPT !.replay = m.rc]
           k == AddGroupKey(c, KeyId(m.gtk), m.gtk)
<1>1. CASE ~Handled(m.t)
  <2>1. EAPOLKeyAction(m, fail, key).sta = sta /\ EAPOLKeyAction(m, fail, key).out = <<>>
    BY <1>1 DEF EAPOLKeyAction, Outcome
  <2>2. \A f : EAPOLKeyAction(m, fail, key).out # <<f>>
    BY <2>1
  <2> QED BY <2>1, <2>2 DEF SetsGroupKey
<1>2. CASE Handled(m.t)
  <2>1. EAPOLKeyAction(m, fail, key).sta = s /\ EAPOLKeyAction(m, fail, key).out = d.out
    BY <1>2 DEF EAPOLKeyAction, Outcome
  <2>2. d.sta \in StaType
    BY Msg1Effect, Msg3Effect, GroupEffect DEF Action, StaFrame, ActionEffect
  <2>3. m.t # "pair1" => sta.state # "START"
    BY <1>2 DEF Handled
  <2>4. /\ c \in StaType /\ c.gtk = sta.gtk /\ c.secured = sta.secured
        /\ k.gtk = [sta.gtk EXCEPT ![KeyId(m.gtk)] = m.gtk]
    <3>1. c \in StaType /\ c.gtk = sta.gtk /\ c.secured = sta.secured
      BY DEF WpaType, StaType, StaFrame
    <3>2. KeyId(m.gtk) \in {1, 2} /\ m.gtk \in Int
      BY KeyIdType DEF StaFrame
    <3> HIDE DEF c
    <3>3. k.gtk = [c.gtk EXCEPT ![KeyId(m.gtk)] = m.gtk]
      BY <3>1, <3>2, AddGroupKeySets
    <3> QED BY <3>1, <3>3
  <2>5. s.gtk = d.sta.gtk /\ (s.secured => d.sta.secured)
    BY <2>2, Finished
  <2> HIDE DEF s
  <2>6. CASE m.t = "pair1"
    <3> DEFINE w == DrawKey(m, fail)
    <3>1. d = PairMsg1(m, fail)
      BY <2>6 DEF Action
    <3>2. /\ w.gtk = sta.gtk /\ w.secured = sta.secured /\ w.ptk.a \in {0, m.anonce}
      BY DEF DrawKey, WpaType, StaType, Junk, Ptk
    <3>3. Msg2(m, w).rc = m.rc /\ Msg2(m, w).mic = w.ptk /\ Msg2(m, w).t = "pair2"
      BY DEF Msg2
    <3>4. d.sta \in {sta, w} /\ d.out \in {<<>>, <<Msg2(m, w)>>}
      BY <3>1 DEF PairMsg1, Outcome
    <3> HIDE DEF w, d
    <3>5. \A f : d.out = <<f>> => f = Msg2(m, w)
      BY <3>4
    <3> QED BY <2>1, <2>5, <2>6, <3>2, <3>3, <3>4, <3>5 DEF SetsGroupKey
  <2>7. CASE m.t = "pair3"
    <3> DEFINE p == IF cfg.mode = "WPA2PSK" THEN ParseKeyData(c, m, fail) ELSE c
    <3>1. d = PairMsg3(m, fail)
      BY <2>7 DEF Action
    <3>2. p \in {c, k}
      BY DEF ParseKeyData
    <3>3. Msg4(m).rc = m.rc /\ Msg4(m).mic = sta.ptk /\ Msg4(m).t = "pair4"
      BY DEF Msg4
    <3>4. \/ d.sta \in {sta, c, p} /\ d.out = <<>>
          \/ d = Outcome(AddPairwiseKey(p), <<Msg4(m)>>) /\ m.mic = sta.ptk
      BY <3>1 DEF PairMsg3, Outcome, Genuine3
    <3>5. AddPairwiseKey(p).gtk = p.gtk /\ AddPairwiseKey(p).secured = p.secured
      <4>1. k \in StaType
        BY <2>4, KeyIdType, AddGroupKeyEffect DEF StaFrame
      <4>2. p \in StaType
        BY <2>4, <3>2, <4>1
      <4> HIDE DEF p
      <4> QED BY <4>2 DEF AddPairwiseKey, StaType
    <3>6. Sets(m, s) <=> s.gtk = k.gtk
      BY <2>3, <2>4, <2>7 DEF Sets
    <3> HIDE DEF p, d, c, k
    <3>7. \A f : d.out = <<f>> => f = Msg4(m) /\ m.mic = sta.ptk
      BY <3>4 DEF Outcome
    <3>8. d.sta.gtk \in {sta.gtk, k.gtk} /\ (d.sta.secured => sta.secured \/ d.sta.gtk = k.gtk)
      BY <2>4, <3>2, <3>4, <3>5 DEF Outcome
    <3> QED BY <2>1, <2>3, <2>5, <2>7, <3>3, <3>6, <3>7, <3>8 DEF SetsGroupKey
  <2>8. CASE m.t = "group1"
    <3> DEFINE w == AddGtk(c, m, fail)
    <3>1. d = GroupMsg1(m, fail, key)
      BY <2>8 DEF Action
    <3>2. /\ GroupMsg2(m, key).rc = m.rc /\ GroupMsg2(m, key).mic = sta.ptk
          /\ GroupMsg2(m, key).t = "group2"
      BY DEF GroupMsg2
    <3>3. \/ d.sta \in {sta, c, w} /\ d.out = <<>>
          \/ d.sta = w /\ d.out \in {<<>>, <<GroupMsg2(m, key)>>} /\ m.mic = sta.ptk
      BY <3>1 DEF GroupMsg1, Outcome
    <3>4. Sets(m, s) <=> s.gtk = k.gtk
      BY <2>3, <2>4, <2>8 DEF Sets
    <3>5. IF cfg.mode = "WPA2PSK" THEN w.gtk = c.gtk ELSE w = k
      <4>1. cfg.mode = "WPA2PSK" => w = [c EXCEPT !.key = Junk, !.secured = TRUE]
        BY DEF AddGtk, AddGroupKeyAtZero
      <4>2. cfg.mode # "WPA2PSK" => w = k
        BY DEF AddGtk
      <4> HIDE DEF w, c, k
      <4> QED BY <2>4, <4>1, <4>2 DEF StaType
    <3>6. cfg.mode = "WPA2PSK" => AtZero(m)
      BY <2>3, <2>8 DEF AtZero
    <3> HIDE DEF d, c, k, w
    <3>7. \A f : d.out = <<f>> => f = GroupMsg2(m, key) /\ m.mic = sta.ptk /\ d.sta = w
      BY <3>3
    <3>8. CASE cfg.mode = "WPA2PSK"
      BY <2>1, <2>3, <2>4, <2>5, <2>8, <3>2, <3>3, <3>5, <3>6, <3>7, <3>8 DEF SetsGroupKey
    <3>9. CASE cfg.mode # "WPA2PSK"
      BY <2>1, <2>3, <2>4, <2>5, <2>8, <3>2, <3>3, <3>4, <3>5, <3>7, <3>9 DEF SetsGroupKey
    <3> QED BY <3>8, <3>9
  <2> QED BY <2>6, <2>7, <2>8 DEF StaFrame
<1> QED BY <1>1, <1>2

\* The user sets the key again.
LEMMA AddWpaKeepsOpen ==
    ASSUME OpenInv, AddWpa
    PROVE  CountInv' /\ KeyDataInv' /\ PortInv'
<1>1. /\ sta'.state = "START" /\ sta'.gtk = sta.gtk /\ sta'.secured = sta.secured
      /\ UNCHANGED <<cfg, link, ap, toSta, toAp>>
  BY FrameTypes DEF AddWpa, StaType, OpenInv
<1> QED BY <1>1 DEF OpenInv, CountInv, KeyDataInv, PortInv, Held, Renewed, Current

\* A frame is lost.
LEMMA LoseKeepsOpen ==
    ASSUME OpenInv, Lose
    PROVE  CountInv' /\ KeyDataInv' /\ PortInv'
<1>1. toSta \in Seq(StaFrame) /\ toAp \in Seq(ApFrame) /\ Counted(toSta)
  BY FrameTypes DEF OpenInv, CountInv
<1>2. /\ Counted(toSta)' /\ Frames(toSta)' \subseteq Frames(toSta)
      /\ Frames(toAp)' \subseteq Frames(toAp)
  <2>1. CASE toSta # <<>> /\ toSta' = Tail(toSta) /\ UNCHANGED toAp
    <3>1. Counted(Tail(toSta)) /\ Frames(Tail(toSta)) \subseteq Frames(toSta)
      BY <1>1, <2>1, CountedTail, FramesTail
    <3> QED BY <2>1, <3>1
  <2>2. CASE toAp # <<>> /\ toAp' = Tail(toAp) /\ UNCHANGED toSta
    <3>1. Frames(Tail(toAp)) \subseteq Frames(toAp)
      BY <1>1, <2>2, FramesTail
    <3> QED BY <1>1, <2>2, <3>1
  <2> QED BY <2>1, <2>2 DEF Lose
<1>3. UNCHANGED <<cfg, sta, link, ap>>
  BY DEF Lose
<1> QED BY <1>2, <1>3 DEF OpenInv, CountInv, KeyDataInv, PortInv, Held, Renewed, Current

\* A link goes down, and with it the port; the supplicant starts again.
LEMMA LinkDownKeepsOpen ==
    ASSUME OpenInv, NEW fromAp \in BOOLEAN, LinkDown(fromAp)
    PROVE  CountInv' /\ KeyDataInv' /\ PortInv'
<1>1. sta'.state = "START" /\ ~sta'.secured
  BY FrameTypes DEF LinkDown, RemoveAllKeys, StaType, OpenInv
<1>2. /\ ap'.state = "idle" /\ ap'.anonce = ap.anonce /\ ap'.rc = ap.rc
  BY FrameTypes DEF LinkDown, ApType, OpenInv
<1>3. Counted(toSta)' /\ Frames(toSta)' \subseteq Frames(toSta) /\ Frames(toAp)' = {}
  <2>1. toAp' = <<>> /\ toSta' \in {toSta, <<>>}
    BY DEF LinkDown
  <2>2. Counted(<<>>)
    BY DEF Counted
  <2> QED BY <2>1, <2>2, NoFrames DEF OpenInv, CountInv
<1>4. link' = "down"
  BY DEF LinkDown
<1> QED BY <1>1, <1>2, <1>3, <1>4 DEF OpenInv, CountInv, KeyDataInv, PortInv, Current

\* The authenticator sends a frame with a counter of its own.
SentFrame(a, f) ==
    /\ f \in StaFrame /\ f.anonce = a.anonce /\ f.rc = a.rc /\ f.gtk = a.gtk
    /\ f.t = "pair1" <=> a.state = "msg1"

LEMMA ApSendsCounted ==
    ASSUME OpenInv, NEW a \in ApType, a.state \in {"msg1", "msg3", "group"}, ApSends(a)
    PROVE  /\ ap' = a
           /\ \E f \in StaFrame :
                /\ SentFrame(a, f) /\ Frames(toSta)' = Frames(toSta) \cup {f}
                /\ (\A g \in Frames(toSta) : Before(g, f)) => Counted(toSta)'
<1> DEFINE t == CASE a.state = "msg1" -> "pair1" [] a.state = "msg3" -> "pair3"
                  [] a.state = "group" -> "group1"
           m == PairFrame(a, t)
<1>1. ap' = a /\ toSta' = Append(toSta, m)
  BY DEF ApSends
<1>2. t \in {"pair1", "pair3", "group1"} /\ (t = "pair1" <=> a.state = "msg1")
  OBVIOUS
<1> HIDE DEF t
<1>3. SentFrame(a, m)
  BY <1>2 DEF PairFrame, StaFrame, ApType, PairwiseKey, NoKey, Ptk, SentFrame
<1>4. m \in StaFrame
  BY <1>3 DEF SentFrame
<1> HIDE DEF m
<1>5. Frames(toSta)' = Frames(toSta) \cup {m}
  BY <1>1, <1>4, FramesAppend, FrameTypes DEF OpenInv
<1>6. (\A g \in Frames(toSta) : Before(g, m)) => Counted(toSta)'
  BY <1>1, <1>4, CountedAppend, FrameTypes DEF OpenInv, CountInv
<1> QED BY <1>1, <1>3, <1>4, <1>5, <1>6

LEMMA LinkUpKeepsOpen ==
    ASSUME OpenInv, LinkUp
    PROVE  CountInv' /\ KeyDataInv' /\ PortInv'
<1> DEFINE n == nonces + 1
           one == 1
           no == FALSE
           a == [ap EXCEPT !.state = "msg1", !.rc = one, !.tries = one, !.anonce = n,
                           !.ptk = NoKey, !.renewed = no]
<1>1. HandshakeInv
  BY DEF OpenInv
<1>2. n \in Int /\ one \in Int /\ no \in BOOLEAN /\ NoKey \in PairwiseKey /\ ap \in ApType /\ "msg1" \in ApStates
  BY <1>1, FrameTypes DEF NoKey, Ptk, PairwiseKey, ApStates
<1>3. ApSends(a)
  BY DEF LinkUp
<1>4. \A g \in Frames(toSta) : g.anonce < n
  BY <1>1, FrameTypes DEF HandshakeInv, SameAge
<1> HIDE DEF n, one, no
<1>5. /\ a \in ApType /\ a.state = "msg1" /\ a.anonce = n /\ a.rc = one
  BY <1>2 DEF ApType
<1> HIDE DEF a
<1>6. PICK f \in StaFrame :
        /\ SentFrame(a, f) /\ Frames(toSta)' = Frames(toSta) \cup {f}
        /\ (\A g \in Frames(toSta) : Before(g, f)) => Counted(toSta)'
  BY <1>3, <1>5, ApSendsCounted
<1>7. ap' = a
  BY <1>3, <1>5, ApSendsCounted
<1>8. f.t = "pair1" /\ f.anonce = n /\ f.rc = one
  BY <1>5, <1>6 DEF SentFrame
<1>9. \A g \in Frames(toSta) : g.anonce \in Int /\ g.anonce # n
  BY <1>1, <1>2, <1>4, FrameTypes
<1>10. /\ link = "down" /\ link' = "up" /\ toAp' = toAp
       /\ sta'.state = sta.state /\ sta'.secured = sta.secured
  BY <1>1, FrameTypes DEF LinkUp, RemoveAllKeys, StaType
<1>11. Frames(toAp)' = {} /\ ~sta.secured
  BY <1>1, <1>10 DEF HandshakeInv, SameAge, OpenInv, PortInv
<1>12. CountInv'
  <2>1. Counted(toSta)'
    BY <1>6, <1>8, <1>9 DEF Before
  <2>2. \A g \in Frames(toSta)' : Current(g)' => g.rc <= ap'.rc
    BY <1>2, <1>5, <1>6, <1>7, <1>8, <1>9 DEF Current
  <2> QED BY <1>5, <1>7, <1>11, <2>1, <2>2 DEF CountInv
<1>13. KeyDataInv'
  <2>1. \A g \in Frames(toSta)' : g.t # "pair1" => ~Current(g)' /\ sta'.state = "START"
    BY <1>5, <1>6, <1>7, <1>8, <1>9, <1>10 DEF OpenInv, KeyDataInv, Current
  <2> QED BY <2>1 DEF KeyDataInv
<1>14. PortInv'
  BY <1>5, <1>7, <1>10, <1>11 DEF PortInv
<1> QED BY <1>12, <1>13, <1>14

\* The authenticator sends again, or goes on once nothing else is on its way: what it sends
\* is newer than all there is, and no answer to it has been given.
LEMMA ApSendsKeepsOpen ==
    ASSUME OpenInv, NEW a \in ApType, ApSends(a), UNCHANGED <<cfg, sta, link>>, link = "up",
           a.anonce = ap.anonce, a.rc = ap.rc + 1,
           Frames(toAp)' \subseteq Frames(toAp),
           \/ a.state = ap.state /\ a.gtk = ap.gtk /\ ap.state \in {"msg1", "msg3", "group"}
           \/ /\ Frames(toSta) = {}
              /\ \/ a.state = "msg3" /\ ap.state = "msg1" /\ a.gtk = ap.gtk
                 \/ a.state = "group"
    PROVE  CountInv' /\ KeyDataInv' /\ PortInv'
<1>1. HandshakeInv
  BY DEF OpenInv
<1>2. a.state \in {"msg1", "msg3", "group"}
  OBVIOUS
<1>3. PICK f \in StaFrame :
        /\ SentFrame(a, f) /\ Frames(toSta)' = Frames(toSta) \cup {f}
        /\ (\A g \in Frames(toSta) : Before(g, f)) => Counted(toSta)'
  BY <1>2, ApSendsCounted
<1>4. ap' = a
  BY <1>2, ApSendsCounted
<1>5. /\ ap.rc \in Int /\ \A g \in Frames(toSta) : g.rc \in Int
      /\ \A g \in Frames(toAp) : g.rc \in Int
  BY <1>1, FrameTypes
<1>6. f.anonce = ap.anonce /\ f.rc = ap.rc + 1 /\ f.gtk = a.gtk /\ (f.t = "pair1" <=> a.state = "msg1")
  BY <1>3 DEF SentFrame
<1>7. \A g \in Frames(toSta) : (g.anonce = ap.anonce => g.rc <= ap.rc) /\ (a.state # "msg1" => g.t # "pair1")
  BY DEF OpenInv, CountInv, Current
<1>8. \A g \in Frames(toAp)' : g.mic.a = ap.anonce =>
        /\ g.rc <= ap.rc
        /\ \A h \in Frames(toSta) : Current(h) /\ g.rc < h.rc
  BY DEF OpenInv, CountInv
<1>9. CountInv'
  <2>1. \A g \in Frames(toSta) : Before(g, f)
    BY <1>5, <1>6, <1>7 DEF Before
  <2>2. \A g \in Frames(toSta)' : Current(g)' => g.rc <= ap'.rc
    BY <1>3, <1>4, <1>5, <1>6, <1>7 DEF Current
  <2>3. \A g \in Frames(toAp)' : g.mic.a = ap'.anonce =>
          /\ g.rc <= ap'.rc
          /\ \A h \in Frames(toSta)' : Current(h)' /\ g.rc < h.rc
    BY <1>3, <1>4, <1>5, <1>6, <1>8 DEF Current
  <2>4. a.state # "msg1" => \A g \in Frames(toSta)' : g.t # "pair1"
    BY <1>3, <1>6, <1>7
  <2> QED BY <1>2, <1>3, <1>4, <2>1, <2>2, <2>3, <2>4 DEF CountInv
<1>10. KeyDataInv'
  <2>1. \A g \in Frames(toSta) : g.t # "pair1" =>
          (~Current(g) => sta.state = "START") /\ (Current(g) => g.gtk = a.gtk)
    BY DEF OpenInv, KeyDataInv
  <2> QED BY <1>3, <1>4, <1>6, <2>1 DEF KeyDataInv, Current
<1>11. PortInv'
  <2>1. \A g \in Frames(toAp)' : g.mic.a = ap'.anonce => g.rc # ap'.rc
    BY <1>4, <1>5, <1>8
  <2>2. ap'.state \in {"msg1", "msg3"} => ap.state \in {"msg1", "msg3"} /\ ap'.gtk = ap.gtk
    BY <1>4
  <2>3. ap.state \in {"msg1", "msg3"} => ~Renewed
    BY <1>1 DEF HandshakeInv, RenewInv, Renewed
  <2> QED BY <1>2, <1>4, <2>1, <2>2, <2>3 DEF OpenInv, PortInv, Held
<1> QED BY <1>9, <1>10, <1>11

LEMMA ApTimeoutKeepsOpen ==
    ASSUME OpenInv, ApTimeout
    PROVE  CountInv' /\ KeyDataInv' /\ PortInv'
<1> DEFINE r == ap.rc + 1
           t == ap.tries + 1
           a == [ap EXCEPT !.rc = r, !.tries = t]
<1>1. HandshakeInv
  BY DEF OpenInv
<1>2. ap \in ApType /\ r \in Int /\ t \in Int /\ r = ap.rc + 1
  BY <1>1, FrameTypes DEF ApType
<1>3. ApSends(a) /\ UNCHANGED <<cfg, sta, link, toAp>> /\ ap.state \in {"msg1", "msg3", "group"}
  BY DEF ApTimeout
<1> HIDE DEF r, t
<1>4. /\ a \in ApType /\ a.state = ap.state /\ a.anonce = ap.anonce /\ a.gtk = ap.gtk
      /\ a.rc = r
  BY <1>2 DEF ApType
<1>5. link = "up"
  BY <1>1, <1>3 DEF HandshakeInv, WpaType, SameAge
<1>6. Frames(toAp)' \subseteq Frames(toAp)
  BY <1>3
<1> HIDE DEF a
<1> QED BY <1>2, <1>3, <1>4, <1>5, <1>6, ApSendsKeepsOpen

LEMMA ApRekeysKeepsOpen ==
    ASSUME OpenInv, ApRekeys
    PROVE  CountInv' /\ KeyDataInv' /\ PortInv'
<1> DEFINE r == ap.rc + 1
           g == ap.gtk + 1
           one == 1
           yes == TRUE
           a == [ap EXCEPT !.state = "group", !.rc = r, !.tries = one, !.gtk = g,
                           !.renewed = yes]
<1>1. HandshakeInv
  BY DEF OpenInv
<1>2. ap \in ApType /\ r \in Int /\ g \in Int /\ one \in Int /\ "group" \in ApStates
      /\ r = ap.rc + 1 /\ yes \in BOOLEAN
  BY <1>1, FrameTypes DEF ApType, ApStates
<1>3. ApSends(a) /\ UNCHANGED <<cfg, sta, link, toAp>> /\ ap.state = "done"
  <2>1. a = [ApStep(ap, "group") EXCEPT !.gtk = @ + 1, !.renewed = TRUE]
    BY <1>2 DEF ApStep, ApType
  <2> QED BY <2>1 DEF ApRekeys
<1> HIDE DEF r, g, one, yes
<1>4. /\ a \in ApType /\ a.state = "group" /\ a.anonce = ap.anonce /\ a.rc = r
  BY <1>2 DEF ApType
<1>5. link = "up"
  BY <1>1, <1>3 DEF HandshakeInv, WpaType, SameAge
<1>6. Frames(toAp)' \subseteq Frames(toAp) /\ Frames(toSta) = {}
  BY <1>3 DEF OpenInv, CountInv
<1> HIDE DEF a
<1> QED BY <1>2, <1>3, <1>4, <1>5, <1>6, ApSendsKeepsOpen

\* The authenticator is done: with WPA2-PSK after message 4, with WPA-PSK after the group
\* message was confirmed.
LEMMA ApDoneKeepsOpen ==
    ASSUME OpenInv, ap' = [ap EXCEPT !.state = "done"], UNCHANGED <<cfg, sta, link, toSta>>,
           link = "up", Frames(toAp)' \subseteq Frames(toAp), Frames(toSta) = {},
           sta.secured => Held \/ Renewed
    PROVE  CountInv' /\ KeyDataInv' /\ PortInv'
<1>1. /\ ap'.state = "done" /\ ap'.anonce = ap.anonce /\ ap'.rc = ap.rc /\ ap'.gtk = ap.gtk
      /\ ap'.renewed = ap.renewed
  BY FrameTypes DEF OpenInv, ApType
<1>2. Frames(toSta)' = {}
  OBVIOUS
<1>3. CountInv'
  BY <1>1, <1>2 DEF OpenInv, CountInv, Current
<1>4. KeyDataInv'
  BY <1>2 DEF KeyDataInv
<1>5. PortInv'
  BY <1>1 DEF OpenInv, PortInv, Held, Renewed
<1> QED BY <1>3, <1>4, <1>5

LEMMA ApReceiveKeepsOpen ==
    ASSUME OpenInv, ApReceive
    PROVE  CountInv' /\ KeyDataInv' /\ PortInv'
<1> DEFINE m == Head(toAp)
           r == ap.rc + 1
           one == 1
           k == Ptk(ap.anonce, m.snonce)
           a3 == [ap EXCEPT !.state = "msg3", !.rc = r, !.tries = one, !.ptk = k]
           ag == [ap EXCEPT !.state = "group", !.rc = r, !.tries = one]
<1>1. HandshakeInv
  BY DEF OpenInv
<1>2. toAp # <<>> /\ toAp' = Tail(toAp) /\ UNCHANGED <<cfg, sta, link>>
  BY DEF ApReceive
<1>3. /\ m \in ApFrame /\ m \in Frames(toAp) /\ Frames(toAp)' \subseteq Frames(toAp)
  BY <1>1, <1>2, FramesTail, FrameTypes
<1>4. link = "up"
  BY <1>1, <1>3 DEF HandshakeInv, WpaType, SameAge
<1>5. /\ ap \in ApType /\ r \in Int /\ one \in Int /\ k \in PairwiseKey /\ k.a = ap.anonce
      /\ "msg3" \in ApStates /\ "group" \in ApStates /\ r = ap.rc + 1
  <2>1. ap \in ApType /\ r \in Int /\ one \in Int
    BY <1>1, FrameTypes
  <2>2. m.snonce \in Int /\ ap.anonce \in Int
    BY <1>1, <1>3, FrameTypes DEF ApFrame
  <2> HIDE DEF m
  <2>3. k \in PairwiseKey /\ k.a = ap.anonce
    BY <2>2 DEF PairwiseKey, Ptk
  <2> QED BY <2>1, <2>3 DEF ApStates
<1>6. \/ ap.state = "msg1" /\ m.rc = ap.rc /\ m.mic = k /\ ApSends(a3)
      \/ /\ ap.state = "msg3" /\ m.rc = ap.rc /\ m.mic = ap.ptk
         /\ \/ ApSends(ag)
            \/ cfg.mode # "WPAPSK" /\ ap' = [ap EXCEPT !.state = "done"] /\ UNCHANGED toSta
      \/ /\ ap.state = "group" /\ m.t = "group2" /\ m.rc = ap.rc /\ m.mic = ap.ptk
         /\ ap' = [ap EXCEPT !.state = "done"] /\ UNCHANGED toSta
      \/ UNCHANGED <<ap, toSta>>
  <2>1. a3 = [ApStep(ap, "msg3") EXCEPT !.ptk = k]
    BY <1>5 DEF ApStep, ApType
  <2>2. ag = ApStep(ap, "group")
    BY DEF ApStep
  <2> HIDE DEF a3, ag, k, r, one
  <2>3. k = Ptk(ap.anonce, m.snonce)
    BY DEF k
  <2> QED BY <2>1, <2>2, <2>3 DEF ApReceive
<1> HIDE DEF m, r, one, k
<1>7. m.rc = ap.rc /\ m.mic.a = ap.anonce => Frames(toSta) = {}
  <2> SUFFICES ASSUME m.rc = ap.rc, m.mic.a = ap.anonce, NEW f \in Frames(toSta)
               PROVE  FALSE
    OBVIOUS
  <2>1. Current(f) /\ m.rc < f.rc /\ f.rc <= ap.rc
    BY <1>3 DEF OpenInv, CountInv
  <2>2. f.rc \in Int /\ ap.rc \in Int
    BY <1>1, FrameTypes
  <2> QED BY <2>1, <2>2
<1>8. ap.state \in {"msg3", "group"} => ap.ptk.a = ap.anonce
  BY <1>1 DEF HandshakeInv, MicInv
<1>9. CASE ap.state = "msg1" /\ m.rc = ap.rc /\ m.mic = k /\ ApSends(a3)
  <2>1. /\ a3 \in ApType /\ a3.state = "msg3" /\ a3.anonce = ap.anonce /\ a3.gtk = ap.gtk
        /\ a3.rc = r
    BY <1>5 DEF ApType
  <2> HIDE DEF a3
  <2> QED BY <1>2, <1>3, <1>4, <1>5, <1>7, <1>9, <2>1, ApSendsKeepsOpen
<1>10. CASE ap.state = "msg3" /\ m.rc = ap.rc /\ m.mic = ap.ptk /\ ApSends(ag)
  <2>1. ag \in ApType /\ ag.state = "group" /\ ag.anonce = ap.anonce /\ ag.rc = r
    BY <1>5 DEF ApType
  <2> HIDE DEF ag
  <2> QED BY <1>2, <1>3, <1>4, <1>5, <1>7, <1>8, <1>10, <2>1, ApSendsKeepsOpen
<1>11. CASE /\ ap.state = "msg3" /\ m.rc = ap.rc /\ m.mic = ap.ptk
            /\ cfg.mode # "WPAPSK" /\ ap' = [ap EXCEPT !.state = "done"] /\ UNCHANGED toSta
  <2>1. sta.secured => Held \/ Renewed
    BY <1>11 DEF OpenInv, PortInv
  <2> QED BY <1>2, <1>3, <1>4, <1>7, <1>8, <1>11, <2>1, ApDoneKeepsOpen
<1>12. CASE /\ ap.state = "group" /\ m.t = "group2" /\ m.rc = ap.rc /\ m.mic = ap.ptk
            /\ ap' = [ap EXCEPT !.state = "done"] /\ UNCHANGED toSta
  <2>1. Held \/ Renewed
    BY <1>3, <1>8, <1>12 DEF OpenInv, PortInv
  <2> QED BY <1>2, <1>3, <1>4, <1>7, <1>8, <1>12, <2>1, ApDoneKeepsOpen
<1>13. CASE UNCHANGED <<ap, toSta>>
  BY <1>2, <1>3, <1>13 DEF OpenInv, CountInv, KeyDataInv, PortInv, Held, Renewed, Current
<1> QED BY <1>6, <1>9, <1>10, <1>11, <1>12, <1>13

\* The supplicant takes a frame.  Of an earlier association it takes message 1 only; of
\* this one, the others bring the group key in use, so that it is held from then on.
LEMMA ReceiveKeepsOpen ==
    ASSUME OpenInv, Receive, "unwrap" \notin Failures
    PROVE  CountInv' /\ KeyDataInv' /\ PortInv'
<1> DEFINE m == Head(toSta)
<1>1. HandshakeInv
  BY DEF OpenInv
<1>2. toSta # <<>> /\ toSta' = Tail(toSta) /\ UNCHANGED <<cfg, link, ap>>
  BY DEF Receive
<1>3. /\ m \in StaFrame /\ m \in Frames(toSta) /\ Frames(toSta)' \subseteq Frames(toSta)
      /\ Counted(toSta)' /\ \A f \in Frames(toSta)' : Later(m, f) /\ Before(m, f)
  <2>1. toSta \in Seq(StaFrame) /\ Counted(toSta) /\ Ordered(toSta)
    BY <1>1, FrameTypes DEF OpenInv, CountInv, HandshakeInv
  <2> QED BY <1>2, <2>1, FramesTail, CountedTail
<1>17. PICK fail \in Failures \cup {"none"} : \E key \in EncryptedWith(AddGtk(sta, m, fail)) :
        /\ sta' = EAPOLKeyAction(m, fail, key).sta
        /\ toAp' = IF link = "down" THEN toAp ELSE toAp \o EAPOLKeyAction(m, fail, key).out
  BY DEF Receive
<1>4. PICK key \in EncryptedWith(AddGtk(sta, m, fail)) :
        /\ sta' = EAPOLKeyAction(m, fail, key).sta
        /\ toAp' = IF link = "down" THEN toAp ELSE toAp \o EAPOLKeyAction(m, fail, key).out
  BY <1>17
<1> HIDE DEF m
<1>15. key \in PairwiseKey
  BY <1>1, <1>3, <1>4, EncryptedWithType DEF HandshakeInv
<1> DEFINE out == EAPOLKeyAction(m, fail, key).out
<1>5. SetsGroupKey(m, sta', out)
  <2>1. WpaType /\ fail # "unwrap"
    BY <1>1 DEF HandshakeInv
  <2> QED BY <1>3, <1>4, <1>15, <2>1, GroupKeyEffect
<1>6. out \in {<<>>} \cup {<<f>> : f \in ApFrame}
  BY <1>1, <1>3, <1>15, HandlerEffect DEF HandshakeInv, Effect, ActionEffect
<1>7. toAp' = IF link = "down" THEN toAp ELSE toAp \o out
  BY <1>4
<1> HIDE DEF out
<1>8. \A g \in Frames(toAp)' : g \in Frames(toAp) \/ (link = "up" /\ out = <<g>>)
  <2>1. toAp \in Seq(ApFrame) /\ link \in {"up", "down"}
    BY <1>1, FrameTypes
  <2>2. \A g \in Frames(toAp \o out) : g \in Frames(toAp) \/ out = <<g>>
    BY <1>6, <2>1, FramesAnswer
  <2>3. CASE link = "down"
    <3>1. Frames(toAp)' = Frames(toAp)
      BY <1>7, <2>3
    <3> QED BY <3>1
  <2>4. CASE link = "up"
    <3>1. Frames(toAp)' = Frames(toAp \o out)
      BY <1>7, <2>4
    <3> QED BY <2>2, <2>4, <3>1
  <2> QED BY <2>1, <2>3, <2>4
<1>9. Sets(m, sta') => link = "up" /\ Current(m) /\ Held'
  <2> SUFFICES ASSUME Sets(m, sta') PROVE link = "up" /\ Current(m) /\ Held'
    OBVIOUS
  <2>1. link = "up" /\ Current(m) /\ m.gtk = ap.gtk
    BY <1>1, <1>3, FrameTypes DEF Sets, OpenInv, KeyDataInv
  <2>2. KeyId(ap.gtk) \in {1, 2} /\ sta.gtk \in [{1, 2} -> Int]
    BY <1>1, KeyIdType, FrameTypes DEF StaType
  <2>3. sta'.gtk = [sta.gtk EXCEPT ![KeyId(ap.gtk)] = ap.gtk]
    BY <2>1 DEF Sets
  <2> HIDE DEF m
  <2>4. sta'.gtk[KeyId(ap.gtk)] = ap.gtk
    BY <2>2, <2>3
  <2>5. ap' = ap
    BY <1>2
  <2> QED BY <2>1, <2>4, <2>5 DEF Held
<1>10. Held => Held'
  BY <1>2, <1>5, <1>9 DEF Held, SetsGroupKey
<1>16. AtZero(m) => link = "up" /\ Renewed /\ Renewed'
  <2> SUFFICES ASSUME AtZero(m) PROVE link = "up" /\ Renewed
    BY <1>2 DEF Renewed
  <2>1. link = "up" /\ Current(m)
    BY <1>1, <1>3, FrameTypes DEF AtZero, OpenInv, KeyDataInv
  <2> QED BY <1>1, <1>3, <2>1 DEF AtZero, HandshakeInv, RenewInv, Renewed
\* An answer under the key of this association is to a frame of it.
<1>11. ASSUME NEW g \in Frames(toAp)', g \notin Frames(toAp), g.mic.a = ap.anonce
       PROVE  Current(m) /\ g.rc = m.rc /\ (g.t = "group2" => Held' \/ Renewed')
  <2>1. link = "up" /\ out = <<g>>
    BY <1>8, <1>11
  <2>2. /\ g.rc = m.rc /\ g.mic.a \in (IF m.t = "pair1" THEN {0, m.anonce} ELSE {m.mic.a})
        /\ g.t = "group2" => m.t = "group1" /\ (Sets(m, sta') \/ AtZero(m))
    BY <1>5, <2>1 DEF SetsGroupKey
  <2>3. ap.anonce \in Int /\ 1 <= ap.anonce
    BY <1>1, <2>1, FrameTypes DEF HandshakeInv, SameAge
  <2>4. Current(m)
    <3>1. m.t # "pair1" => m.mic.a = m.anonce
      BY <1>1, <1>3 DEF HandshakeInv, MicInv
    <3>2. CASE m.t # "pair1"
      BY <1>11, <2>2, <2>3, <3>1, <3>2 DEF Current
    <3>3. CASE m.t = "pair1"
      BY <1>11, <2>2, <2>3, <3>3 DEF Current
    <3> QED BY <3>2, <3>3
  <2> QED BY <1>9, <1>16, <2>2, <2>4
<1>12. CountInv'
  <2>1. \A f \in Frames(toSta)' : Current(f)' => f.rc <= ap'.rc
    BY <1>2, <1>3 DEF OpenInv, CountInv, Current
  <2>2. ASSUME NEW g \in Frames(toAp)', g.mic.a = ap.anonce
        PROVE  g.rc <= ap.rc /\ \A f \in Frames(toSta)' : Current(f) /\ g.rc < f.rc
    <3>1. CASE g \in Frames(toAp)
      BY <1>3, <2>2, <3>1 DEF OpenInv, CountInv
    <3>2. CASE g \notin Frames(toAp)
      <4>1. Current(m) /\ g.rc = m.rc
        BY <1>11, <2>2, <3>2
      <4>2. m.rc <= ap.rc
        BY <1>3, <4>1 DEF OpenInv, CountInv
      <4>3. ASSUME NEW f \in Frames(toSta)'
            PROVE  Current(f) /\ m.rc < f.rc
        <5>1. m.anonce <= f.anonce /\ f.anonce <= ap.anonce /\ f.anonce \in Int /\ ap.anonce \in Int
          BY <1>1, <1>3, FrameTypes DEF HandshakeInv, SameAge, Later
        <5>2. f.anonce = ap.anonce
          BY <4>1, <5>1 DEF Current
        <5> QED BY <1>3, <4>1, <5>2 DEF Before, Current
      <4> QED BY <4>1, <4>2, <4>3
    <3> QED BY <3>1, <3>2
  <2>3. ap.state # "done"
    BY <1>3 DEF OpenInv, CountInv
  <2> QED BY <1>2, <1>3, <2>1, <2>2, <2>3 DEF OpenInv, CountInv, Current
<1>13. KeyDataInv'
  <2> SUFFICES ASSUME NEW f \in Frames(toSta)', f.t # "pair1"
               PROVE  /\ link' = "down" \/ ~Current(f)' => sta'.state = "START"
                      /\ link' = "up" /\ Current(f)' => f.gtk = ap'.gtk
    BY DEF KeyDataInv
  <2>1. m.t # "pair1" /\ f \in Frames(toSta)
    BY <1>3 DEF Before
  <2>2. sta.state = "START" => sta'.state = "START"
    BY <1>5, <2>1 DEF SetsGroupKey
  <2> QED BY <1>2, <2>1, <2>2 DEF OpenInv, KeyDataInv, Current
<1>14. PortInv'
  <2>1. link = "down" => ~sta'.secured
    BY <1>5, <1>9, <1>16 DEF OpenInv, PortInv, SetsGroupKey
  <2>2. sta'.secured => sta.secured \/ Held' \/ Renewed'
    BY <1>5, <1>9, <1>16 DEF SetsGroupKey
  <2>3. Renewed => Renewed'
    BY <1>2 DEF Renewed
  <2> QED BY <1>2, <1>10, <1>11, <2>1, <2>2, <2>3 DEF OpenInv, PortInv
<1> QED BY <1>12, <1>13, <1>14

LEMMA OpenStep ==
    ASSUME OpenInv, [WpaNext]_wpaVars, "unwrap" \notin Failures
    PROVE  OpenInv'
<1>1. HandshakeInv'
  BY HandshakeStep DEF OpenInv
<1>2. CASE UNCHANGED wpaVars
  BY <1>1, <1>2 DEF wpaVars, OpenInv, CountInv, KeyDataInv, PortInv, Held, Renewed, Current
<1>3. CASE WpaNext
  <2>1. LoseLink \/ ApGivesUp => \E fromAp \in BOOLEAN : LinkDown(fromAp)
    BY DEF LoseLink, ApGivesUp
  <2> QED BY <1>1, <1>3, <2>1, ReceiveKeepsOpen, AddWpaKeepsOpen, LinkDownKeepsOpen,
             LinkUpKeepsOpen, ApReceiveKeepsOpen, ApTimeoutKeepsOpen, ApRekeysKeepsOpen,
             LoseKeepsOpen DEF WpaNext, OpenInv
<1> QED BY <1>2, <1>3

\* An open port of a station whose authenticator is done has the group key in use, whatever
\* else fails, is lost or repeated, until the key of WPA2-PSK is renewed.  It needs that
\* AES_GTK_KEY_UNWRAP finds its memory: otherwise it returns without a word (wpa.c:984), and
\* what the buffer held is installed and confirmed.
THEOREM OpenPortHoldsTheGroupKey ==
    ASSUME "unwrap" \notin Failures
    PROVE  WpaSpec => []OpenPortHasGroupKey
<1>1. OpenInv /\ [WpaNext]_wpaVars => OpenInv'
  BY OpenStep
<1>2. OpenInv => OpenPortHasGroupKey
  BY DEF OpenInv, PortInv, Held, OpenPortHasGroupKey
<1> QED BY OpenStart, <1>1, <1>2, PTL DEF WpaSpec
=============================================================================
