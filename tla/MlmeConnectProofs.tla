------------------------- MODULE MlmeConnectProofs -------------------------
(***************************************************************************)
(* Proofs about the machines of the MLME, for any scenarios: whatever      *)
(* BSSs, candidates, channels and disturbances, and any number of          *)
(* requests, frames and contexts interleaved.                              *)
(***************************************************************************)
EXTENDS MlmeConnectProps, FiniteSetTheorems, SequenceTheorems, TLAPS

---------------------------------------------------------------------------
(* The scenario of a behaviour *)

Algs == {"open", "shared"}
AuxFields == [bssid : Addresses, type : {"infra", "adhoc", "any"}, alg : Algs]
TabFields == [nr : 0 .. NBss, entry : [0 .. NBss - 1 -> Bss \cup {NoBss}]]

LEMMA ScenarioFacts ==
    ASSUME scenario \in DOMAIN Scenarios
    PROVE  /\ NBss \in Nat \ {0} /\ Ibss \subseteq Bss /\ NoBss \notin Bss
           /\ NChannels \in Nat \ {0} /\ MaxOids \in Nat /\ Smp \in BOOLEAN
           /\ BssType \in {"infra", "adhoc"} /\ AuthMode \in {"open", "shared", "autoSwitch"}
           /\ \A s \in Tables : /\ Len(s) \in 0 .. NBss
                                /\ \A i \in 1 .. Len(s) : s[i] \in Bss
<1> DEFINE s == Scenarios[scenario]
<1>1. /\ IsFiniteSet(s.bss) /\ s.bss # {} /\ s.ibss \subseteq s.bss /\ NoBss \notin s.bss
      /\ s.channels \in Nat \ {0} /\ s.oids \in Nat /\ s.smp \in BOOLEAN
      /\ s.bssType \in {"infra", "adhoc"} /\ s.authMode \in {"open", "shared", "autoSwitch"}
      /\ s.tables \subseteq UNION {[1 .. n -> s.bss] : n \in 0 .. Cardinality(s.bss)}
  BY ScenarioAssumption
<1> HIDE DEF s
<1>2. Cardinality(s.bss) \in Nat \ {0}
  BY <1>1, FS_CardinalityType, FS_EmptySet
<1>3. ASSUME NEW l \in s.tables
      PROVE  Len(l) \in 0 .. Cardinality(s.bss) /\ \A i \in 1 .. Len(l) : l[i] \in s.bss
  <2>1. PICK n \in 0 .. Cardinality(s.bss) : l \in [1 .. n -> s.bss]
    BY <1>1
  <2>2. n \in Nat
    BY <1>2
  <2>3. l \in Seq(s.bss) /\ Len(l) = n
    BY <2>1, <2>2
  <2> QED BY <2>1, <2>3
<1> QED
  BY <1>1, <1>2, <1>3
  DEF s, NBss, Bss, Ibss, NChannels, MaxOids, Smp, BssType, AuthMode, Tables

LEMMA SameScenario ==
    ASSUME scenario' = scenario
    PROVE  /\ Bss' = Bss /\ NBss' = NBss /\ NChannels' = NChannels /\ MaxOids' = MaxOids
           /\ Addresses' = Addresses /\ Messages' = Messages /\ Requests' = Requests /\ Jobs' = Jobs
           /\ AuxFields' = AuxFields /\ TabFields' = TabFields
           /\ Disturbances' = Disturbances /\ Smp' = Smp
BY DEF Bss, NBss, NChannels, MaxOids, Addresses, Messages, Oids, Requests, Jobs, AuxFields, TabFields,
       Disturbances, Smp

\* The kinds of messages.
LEMMA MessageKinds ==
    ASSUME NEW m \in Messages
    PROVE  /\ m.t \in FrameTypes \cup {"OID_BSSID"} => m.x \in Bss
           /\ m.t \in FrameTypes \ {"BEACON"} => m.v \in {"ok", "fail"}
           /\ m.t = "JOIN_REQ" => m.x \in 0 .. NBss - 1
           /\ m.t \in {"AUTH_REQ", "ASSOC_REQ"} => m.x \in Addresses
           /\ m.t = "AUTH_REQ" => m.v \in Algs
BY DEF Messages, FrameTypes, PlainTypes, Confirms, Timeouts, Algs

LEMMA PlainMessage ==
    ASSUME NEW t \in PlainTypes, NEW v \in {"ok", "fail"}
    PROVE  Msg(t, NoBss, v) \in Messages /\ Msg(t, NoBss, v).t = t
BY DEF Messages, Msg

LEMMA RequestMessages ==
    /\ \A i \in 0 .. NBss - 1 : Msg("JOIN_REQ", i, "ok") \in Messages
    /\ \A a \in Addresses, v \in Algs : Msg("AUTH_REQ", a, v) \in Messages
    /\ \A a \in Addresses : Msg("ASSOC_REQ", a, "ok") \in Messages
    /\ \A t, x, v : Msg(t, x, v).t = t
BY DEF Messages, Msg, Algs

LEMMA PeerMessages ==
    Frames \subseteq Messages /\ Oids \subseteq Messages /\ Requests \subseteq Messages
<1>1. Frames \subseteq Messages
  BY DEF Frames, Messages, FrameTypes, If, Aps
<1>2. Oids \subseteq Messages
  BY DEF Oids, Messages, PlainTypes, Signal, Msg
<1>3. {Signal("ROAMING_REQ"), Signal("SCAN_REQ"), Signal("DISASSOC_REQ")} \subseteq Messages
  BY DEF Messages, PlainTypes, Signal, Msg
<1> QED BY <1>1, <1>2, <1>3 DEF Requests

---------------------------------------------------------------------------
(* The queue *)

\* What a handler posts: nothing, or one message.
Replies == {<<>>} \cup {<<x>> : x \in Messages}
Posts(r, t) == r # <<>> /\ r[1].t = t

\* Queue q2 is queue q without its head, and with reply r at its end.
Moved(q, q2, r) ==
    /\ Len(q2) = Len(q) - 1 + Len(r)
    /\ \A i \in 1 .. Len(q) - 1 : q2[i] = q[i + 1]
    /\ r # <<>> => q2[Len(q2)] = r[1]

LEMMA ReplyFacts ==
    ASSUME NEW r \in Replies
    PROVE  /\ r \in Seq(Messages)
           /\ (r = <<>> /\ Len(r) = 0) \/ (r # <<>> /\ Len(r) = 1 /\ r[1] \in Messages)
<1>1. CASE r = <<>>
  BY <1>1
<1>2. ASSUME NEW x \in Messages, r = <<x>>
      PROVE  r \in Seq(Messages) /\ r # <<>> /\ Len(r) = 1 /\ r[1] \in Messages
  BY <1>2
<1> QED BY <1>1, <1>2 DEF Replies

LEMMA OneReply ==
    /\ <<>> \in Replies /\ \A t : ~Posts(<<>>, t)
    /\ \A x \in Messages : /\ <<x>> \in Replies /\ <<x>> # <<>>
                           /\ \A t : Posts(<<x>>, t) <=> x.t = t
BY DEF Replies, Posts

LEMMA QueueServed ==
    ASSUME queue \in Seq(Messages), queue # <<>>, Len(queue) <= MaxLen,
           NEW r \in Replies, NEW c, NEW a, Serve(r, c, a)
    PROVE  /\ queue' \in Seq(Messages) /\ Len(queue') <= MaxLen
           /\ Lost \/ Lost' \/ Moved(queue, queue', r)
           /\ Lost => Lost'
<1>1. MaxLen \in Nat \ {0}
  BY AddressAssumption
<1>2. queue' = Tail(Put(queue, r))
  BY DEF Serve
<1>3. mishap \subseteq mishap' /\ Dropped(queue, r) \subseteq mishap'
  BY DEF Serve
<1>4. r \in Seq(Messages) /\ ((r = <<>> /\ Len(r) = 0) \/ (r # <<>> /\ Len(r) = 1))
  BY ReplyFacts
<1>5. CASE Len(queue) + Len(r) <= MaxLen
  <2> DEFINE q == queue \o r
  <2>1. q \in Seq(Messages) /\ Len(q) = Len(queue) + Len(r) /\ q # <<>>
    BY <1>4
  <2>2. /\ \A i \in 1 .. Len(queue) : q[i] = queue[i]
        /\ r # <<>> => q[Len(queue) + 1] = r[1]
    BY <1>4
  <2>3. queue' = Tail(q)
    BY <1>2, <1>5 DEF Put
  <2> HIDE DEF q
  <2>4. /\ Tail(q) \in Seq(Messages) /\ Len(Tail(q)) = Len(q) - 1
        /\ \A i \in 1 .. Len(q) - 1 : Tail(q)[i] = q[i + 1]
    BY <2>1
  <2>5. Len(queue) \in Nat \ {0}
    OBVIOUS
  <2> DEFINE n == Len(queue)
  <2>a. n \in Nat \ {0} /\ Len(r) \in {0, 1} /\ Len(q) = n + Len(r)
    BY <2>1, <2>5, <1>4
  <2> HIDE DEF n
  <2>b. \A i \in 1 .. n - 1 : i \in 1 .. Len(q) - 1 /\ i + 1 \in 1 .. n
    BY <2>a
  <2>c. \A i \in 1 .. n - 1 : Tail(q)[i] = queue[i + 1]
    BY <2>b, <2>4, <2>2 DEF n
  <2>d. Len(Tail(q)) = n - 1 + Len(r)
    BY <2>4, <2>a
  <2>e. r # <<>> => Tail(q)[Len(Tail(q))] = r[1]
    <3> SUFFICES ASSUME r # <<>> PROVE Tail(q)[Len(Tail(q))] = r[1]
      OBVIOUS
    <3>0. Len(r) = 1
      BY <1>4
    <3>1. Len(q) = n + 1 /\ Len(Tail(q)) = n /\ n \in 1 .. Len(q) - 1
      BY <3>0, <2>a, <2>d
    <3>2. Tail(q)[n] = q[n + 1]
      BY <3>1, <2>4
    <3> QED BY <3>1, <3>2, <2>2 DEF n
  <2>6. Moved(queue, queue', r)
    BY <2>c, <2>d, <2>e, <2>3 DEF Moved, n
  <2> QED BY <2>6, <2>1, <2>3, <2>4, <1>1, <1>3, <1>4, <1>5 DEF Lost
<1>6. CASE ~(Len(queue) + Len(r) <= MaxLen)
  <2>1. queue' = Tail(queue) /\ "lost" \in mishap'
    BY <1>2, <1>3, <1>6 DEF Put, Dropped
  <2>2. Tail(queue) \in Seq(Messages) /\ Len(Tail(queue)) = Len(queue) - 1
    OBVIOUS
  <2> QED BY <2>1, <2>2, <1>1 DEF Lost
<1> QED BY <1>5, <1>6

LEMMA QueueEntered ==
    ASSUME queue \in Seq(Messages), Len(queue) <= MaxLen, NEW x \in Messages, Enqueue(x)
    PROVE  /\ queue' \in Seq(Messages) /\ Len(queue') <= MaxLen
           /\ Lost \/ Lost' \/ queue' = Append(queue, x)
           /\ Lost => Lost'
           /\ mishap \subseteq mishap' /\ mishap' \subseteq mishap \cup {"lost"}
<1>1. MaxLen \in Nat \ {0}
  BY AddressAssumption
<1>2. queue \o <<x>> = Append(queue, x) /\ Len(<<x>>) = 1
  OBVIOUS
<1>3. queue' = (IF Len(queue) + 1 <= MaxLen THEN Append(queue, x) ELSE queue)
  BY <1>2 DEF Enqueue, Put
<1>4. mishap' = mishap \cup (IF Len(queue) + 1 <= MaxLen THEN {} ELSE {"lost"})
  BY <1>2 DEF Enqueue, Dropped
<1> QED BY <1>1, <1>3, <1>4 DEF Lost

\* The messages of a queue from which the head has gone.
LEMMA StaysQueued ==
    ASSUME NEW q \in Seq(Messages), q # <<>>, NEW q2 \in Seq(Messages), NEW r \in Replies,
           Moved(q, q2, r), NEW t
    PROVE  /\ Head(q).t # t /\ (\E k \in DOMAIN q : q[k].t = t)
                => \E k \in DOMAIN q2 : q2[k].t = t
           /\ Posts(r, t) => \E k \in DOMAIN q2 : q2[k].t = t
<1>1. Len(q) \in Nat \ {0} /\ Head(q) = q[1] /\ Len(q2) \in Nat
      /\ DOMAIN q = 1 .. Len(q) /\ DOMAIN q2 = 1 .. Len(q2)
  OBVIOUS
<1>2. (r = <<>> /\ Len(r) = 0) \/ (r # <<>> /\ Len(r) = 1)
  BY ReplyFacts
<1>3. ASSUME NEW k \in DOMAIN q, q[k].t = t, Head(q).t # t
      PROVE  \E j \in DOMAIN q2 : q2[j].t = t
  <2>1. k \in 2 .. Len(q)
    BY <1>1, <1>3
  <2>2. k - 1 \in 1 .. Len(q) - 1 /\ (k - 1) + 1 = k
    BY <2>1, <1>1
  <2>3. q2[k - 1] = q[k]
    BY <2>2 DEF Moved
  <2>4. k - 1 \in DOMAIN q2
    BY <2>2, <1>1, <1>2 DEF Moved
  <2> QED BY <2>3, <2>4, <1>3
<1>4. ASSUME Posts(r, t)
      PROVE  \E j \in DOMAIN q2 : q2[j].t = t
  BY <1>1, <1>2, <1>4 DEF Posts, Moved
<1> QED BY <1>3, <1>4

\* The messages of a queue at the end of which one has been put.
LEMMA StaysBefore ==
    ASSUME NEW q \in Seq(Messages), NEW x \in Messages, NEW t
    PROVE  /\ (\E k \in DOMAIN q : q[k].t = t) => \E k \in DOMAIN Append(q, x) : Append(q, x)[k].t = t
           /\ x.t = t => \E k \in DOMAIN Append(q, x) : Append(q, x)[k].t = t
<1> DEFINE q2 == Append(q, x)
<1>1. /\ Len(q) \in Nat /\ DOMAIN q = 1 .. Len(q) /\ DOMAIN q2 = 1 .. Len(q) + 1
      /\ \A i \in 1 .. Len(q) : q2[i] = q[i]
      /\ q2[Len(q) + 1] = x
  OBVIOUS
<1> HIDE DEF q2
<1>2. ASSUME NEW k \in DOMAIN q, q[k].t = t
      PROVE  \E j \in DOMAIN q2 : q2[j].t = t
  BY <1>1, <1>2
<1>3. ASSUME x.t = t
      PROVE  \E j \in DOMAIN q2 : q2[j].t = t
  <2>1. Len(q) + 1 \in DOMAIN q2 /\ q2[Len(q) + 1].t = t
    BY <1>1, <1>3
  <2> QED BY <2>1
<1> QED BY <1>2, <1>3 DEF q2

\* An answer to a request of type req is owed or has come: it is queued; or the request is,
\* and none of its group after it; or the machine works on it and none of its group is queued.
Owes(q, req, group, working, conf) ==
    \/ \E k \in DOMAIN q : q[k].t = conf
    \/ \E k \in DOMAIN q : /\ q[k].t = req
                           /\ \A j \in DOMAIN q : j > k => q[j].t \notin group
    \/ working /\ \A k \in DOMAIN q : q[k].t \notin group

LEMMA LastPosition ==
    ASSUME NEW n \in Nat \ {0}, NEW l \in {0, 1}, NEW i \in 1 .. n - 1 + l, i \notin 1 .. n - 1
    PROVE  l = 1 /\ i = n
OBVIOUS

\* The machine that serves the head may not forget a request.
LEMMA OwedWhenServed ==
    ASSUME NEW q \in Seq(Messages), q # <<>>, NEW q2 \in Seq(Messages), NEW r \in Replies,
           Moved(q, q2, r), NEW req, NEW group, NEW conf, NEW work, NEW work2,
           Owes(q, req, group, work, conf),
           Head(q).t # conf,
           Head(q).t = req => work2 \/ Posts(r, conf),
           Head(q).t \notin group /\ work => work2 \/ Posts(r, conf),
           \A t \in group : ~Posts(r, t)
    PROVE  Owes(q2, req, group, work2, conf)
<1>1. /\ Len(q) \in Nat \ {0} /\ Head(q) = q[1] /\ Len(q2) \in Nat
      /\ DOMAIN q = 1 .. Len(q) /\ DOMAIN q2 = 1 .. Len(q2)
  OBVIOUS
<1>2. (r = <<>> /\ Len(r) = 0) \/ (r # <<>> /\ Len(r) = 1)
  BY ReplyFacts
<1>3. /\ Len(q2) = Len(q) - 1 + Len(r)
      /\ \A i \in 1 .. Len(q) - 1 : q2[i] = q[i + 1]
      /\ r # <<>> => q2[Len(q2)] = r[1] /\ r[1].t \notin group
  BY DEF Moved, Posts
<1>4. \A j \in DOMAIN q2 : \/ j \in 1 .. Len(q) - 1 /\ q2[j] = q[j + 1]
                           \/ j = Len(q) /\ q2[j].t \notin group
  <2> SUFFICES ASSUME NEW j \in DOMAIN q2
               PROVE  \/ j \in 1 .. Len(q) - 1 /\ q2[j] = q[j + 1]
                      \/ j = Len(q) /\ q2[j].t \notin group
    OBVIOUS
  <2>1. CASE j \in 1 .. Len(q) - 1
    BY <2>1, <1>3
  <2>2. CASE j \notin 1 .. Len(q) - 1
    <3>1. Len(r) \in {0, 1} /\ Len(q2) = Len(q) - 1 + Len(r) /\ j \in 1 .. Len(q2)
      BY <1>1, <1>2, <1>3
    <3>b. Len(q) \in Nat \ {0} /\ j \in 1 .. Len(q) - 1 + Len(r)
      BY <3>1, <1>1
    <3>c. Len(r) = 1 /\ j = Len(q)
      BY LastPosition, <3>b, <3>1, <2>2
    <3>2. Len(r) = 1 /\ Len(q2) = Len(q) /\ j = Len(q)
      BY <3>c, <3>1, <1>1
    <3>3. r # <<>>
      BY <3>2, <1>2
    <3> QED BY <3>2, <3>3, <1>3
  <2> QED BY <2>1, <2>2
<1>5. CASE \E k \in DOMAIN q : q[k].t = conf
  BY <1>5, StaysQueued DEF Owes
<1>6. CASE Posts(r, conf)
  BY <1>6, StaysQueued DEF Owes
<1>7. ASSUME ~Posts(r, conf), NEW k \in DOMAIN q, q[k].t = req,
             \A j \in DOMAIN q : j > k => q[j].t \notin group
      PROVE  Owes(q2, req, group, work2, conf)
  <2>1. \A j \in DOMAIN q2 : j > k - 1 => q2[j].t \notin group
    BY <1>1, <1>4, <1>7
  <2>2. CASE k = 1
    <3>1. work2
      BY <2>2, <1>1, <1>7
    <3>2. \A j \in DOMAIN q2 : q2[j].t \notin group
      BY <2>1, <2>2, <1>1
    <3> QED BY <3>1, <3>2 DEF Owes
  <2>3. CASE k # 1
    <3>1. k - 1 \in 1 .. Len(q) - 1 /\ (k - 1) + 1 = k
      BY <2>3, <1>1
    <3>2. k - 1 \in DOMAIN q2 /\ q2[k - 1].t = req
      BY <3>1, <1>1, <1>2, <1>3, <1>7
    <3> QED BY <3>2, <2>1 DEF Owes
  <2> QED BY <2>2, <2>3
<1>8. ASSUME ~Posts(r, conf), work, \A k \in DOMAIN q : q[k].t \notin group
      PROVE  Owes(q2, req, group, work2, conf)
  <2>1. work2
    BY <1>1, <1>8
  <2>2. \A j \in DOMAIN q2 : q2[j].t \notin group
    BY <1>1, <1>4, <1>8
  <2> QED BY <2>1, <2>2 DEF Owes
<1> QED BY <1>5, <1>6, <1>7, <1>8 DEF Owes

LEMMA OwedWhenAsked ==
    ASSUME NEW q \in Seq(Messages), q # <<>>, NEW q2 \in Seq(Messages), NEW r \in Replies,
           Moved(q, q2, r), NEW req, NEW group, NEW conf, NEW work, Posts(r, req)
    PROVE  Owes(q2, req, group, work, conf)
<1>1. Len(q) \in Nat \ {0} /\ DOMAIN q2 = 1 .. Len(q2)
  OBVIOUS
<1>2. Len(r) = 1
  BY ReplyFacts DEF Posts
<1>3. Len(q2) = Len(q) /\ q2[Len(q2)].t = req
  BY <1>1, <1>2 DEF Moved, Posts
<1>4. Len(q2) \in DOMAIN q2 /\ \A j \in DOMAIN q2 : ~(j > Len(q2))
  BY <1>1, <1>3
<1> QED BY <1>3, <1>4 DEF Owes

LEMMA OwedWhenEntered ==
    ASSUME NEW q \in Seq(Messages), NEW x \in Messages,
           NEW req, NEW group, NEW conf, NEW work
    PROVE  /\ Owes(q, req, group, work, conf) /\ x.t \notin group
                => Owes(Append(q, x), req, group, work, conf)
           /\ x.t = req => Owes(Append(q, x), req, group, work, conf)
<1> DEFINE q2 == Append(q, x)
<1>1. /\ Len(q) \in Nat /\ DOMAIN q = 1 .. Len(q) /\ DOMAIN q2 = 1 .. Len(q) + 1
      /\ \A i \in 1 .. Len(q) : q2[i] = q[i]
      /\ q2[Len(q) + 1] = x
  OBVIOUS
<1> HIDE DEF q2
<1>2. ASSUME Owes(q, req, group, work, conf), x.t \notin group
      PROVE  Owes(q2, req, group, work, conf)
  <2>1. CASE \E k \in DOMAIN q : q[k].t = conf
    BY <2>1, <1>1 DEF Owes
  <2>2. ASSUME NEW k \in DOMAIN q, q[k].t = req, \A j \in DOMAIN q : j > k => q[j].t \notin group
        PROVE  Owes(q2, req, group, work, conf)
    <3>1. k \in DOMAIN q2 /\ q2[k].t = req
      BY <2>2, <1>1
    <3>2. \A j \in DOMAIN q2 : j > k => q2[j].t \notin group
      BY <2>2, <1>1, <1>2
    <3> QED BY <3>1, <3>2 DEF Owes
  <2>3. CASE work /\ \A k \in DOMAIN q : q[k].t \notin group
    <3>1. \A j \in DOMAIN q2 : q2[j].t \notin group
      BY <2>3, <1>1, <1>2
    <3> QED BY <3>1, <2>3 DEF Owes
  <2> QED BY <1>2, <2>1, <2>2, <2>3 DEF Owes
<1>3. ASSUME x.t = req
      PROVE  Owes(q2, req, group, work, conf)
  <2>1. Len(q) + 1 \in DOMAIN q2 /\ q2[Len(q) + 1].t = req
    BY <1>1, <1>3
  <2>2. \A j \in DOMAIN q2 : ~(j > Len(q) + 1)
    BY <1>1
  <2> QED BY <2>1, <2>2 DEF Owes
<1> QED BY <1>2, <1>3 DEF q2

---------------------------------------------------------------------------
(* What the machines promise when they serve a message *)

\* Timer t is the one that a machine waits with.
Waiting(t) ==
    \/ t = "beacon" /\ sync = "JOIN_WAIT_BEACON"
    \/ t = "scan" /\ sync = "SCAN_LISTEN"
    \/ t = "auth" /\ auth # "IDLE"
    \/ t = "assoc" /\ assoc = "WAIT_RSP"
    \/ t = "disassoc" /\ assoc = "DISASSOC_WAIT_RSP"

\* The requests of CNTL, those that go to the same machine, and the machine at work on one.
CntlRequests == SyncRequests \cup {"AUTH_REQ", "ASSOC_REQ", "DISASSOC_REQ"}
GroupOf(req) ==
    IF req \in SyncRequests THEN SyncRequests
    ELSE IF req = "AUTH_REQ" THEN {"AUTH_REQ"} ELSE {"ASSOC_REQ", "DISASSOC_REQ"}
Working(req) ==
    \/ req = "JOIN_REQ" /\ sync = "JOIN_WAIT_BEACON"
    \/ req = "SCAN_REQ" /\ sync = "SCAN_LISTEN"
    \/ req = "AUTH_REQ" /\ auth # "IDLE"
    \/ req = "ASSOC_REQ" /\ assoc = "WAIT_RSP"
    \/ req = "DISASSOC_REQ" /\ assoc = "DISASSOC_WAIT_RSP"

\* Message m is served with reply r, timers c cancelled and a added: no pending timer but
\* ScanTimer is added, and a machine that waits then has just added its timer, or it
\* waited before and neither cancelled its timer nor took its timeout.  What is posted
\* is neither a frame nor a request of the user.
UserTypes == {"OID_SSID", "OID_BSSID", "OID_SCAN", "OID_DISASSOC"}
Outside == FrameTypes \cup UserTypes \cup {"ROAMING_REQ"}
Served(m, r, c, a) ==
    /\ r \in Replies /\ Serve(r, c, a)
    /\ \A t \in Outside : ~Posts(r, t)
    /\ c \subseteq MachineTimers /\ a \subseteq MachineTimers
    /\ a \cap (armed \ c) \subseteq {"scan"}
    /\ \A t \in MachineTimers :
         Waiting(t)' => t \in a \/ (Waiting(t) /\ t \notin c /\ m.t # TimeoutOf[t])

\* Whoever serves m does not forget a request of CNTL: it confirms it or works on it, and
\* while it works on one it goes on or confirms it, unless another request comes.
Keeps(m, r, req) ==
    /\ m.t # ConfOf[req]
    /\ m.t = req => Working(req)' \/ Posts(r, ConfOf[req])
    /\ m.t \notin GroupOf(req) /\ Working(req) => Working(req)' \/ Posts(r, ConfOf[req])
    /\ \A t \in GroupOf(req) : ~Posts(r, t)

LEMMA TimeoutNames ==
    /\ TimeoutOf["beacon"] = "BEACON_TIMEOUT" /\ TimeoutOf["scan"] = "SCAN_TIMEOUT"
    /\ TimeoutOf["auth"] = "AUTH_TIMEOUT" /\ TimeoutOf["assoc"] = "ASSOC_TIMEOUT"
    /\ TimeoutOf["disassoc"] = "DISASSOC_TIMEOUT"
BY DEF TimeoutOf, MachineTimers

LEMMA ConfNames ==
    /\ ConfOf["SCAN_REQ"] = "SCAN_CONF" /\ ConfOf["JOIN_REQ"] = "JOIN_CONF"
    /\ ConfOf["START_REQ"] = "START_CONF" /\ ConfOf["ASSOC_REQ"] = "ASSOC_CONF"
    /\ ConfOf["DISASSOC_REQ"] = "DISASSOC_CONF" /\ ConfOf["AUTH_REQ"] = "AUTH_CONF"
BY DEF ConfOf

LEMMA ConfReply ==
    ASSUME NEW t \in Confirms, NEW v \in {"ok", "fail"}
    PROVE  /\ Conf(t, v) \in Replies
           /\ \A u : Posts(Conf(t, v), u) <=> u = t
<1>1. Msg(t, NoBss, v) \in Messages /\ Msg(t, NoBss, v).t = t
  BY PlainMessage DEF PlainTypes
<1> DEFINE x == Msg(t, NoBss, v)
<1> HIDE DEF x
<1>2. <<x>> \in Replies /\ \A u : Posts(<<x>>, u) <=> x.t = u
  BY <1>1, OneReply DEF x
<1> QED BY <1>1, <1>2 DEF Conf, x

\* A message of SYNC, served without a reply or with a confirmation.
LEMMA SyncServed ==
    ASSUME NEW m \in Messages, NEW r \in Replies, NEW c \in SUBSET MachineTimers,
           NEW a \in SUBSET MachineTimers,
           Serve(r, c, a), UNCHANGED <<auth, assoc>>,
           c \subseteq {"beacon", "scan"},
           a \cap (armed \ c) \subseteq {"scan"},
           sync' = "JOIN_WAIT_BEACON" =>
                \/ "beacon" \in a
                \/ sync = "JOIN_WAIT_BEACON" /\ "beacon" \notin c /\ m.t # "BEACON_TIMEOUT",
           sync' = "SCAN_LISTEN" =>
                \/ "scan" \in a
                \/ sync = "SCAN_LISTEN" /\ "scan" \notin c /\ m.t # "SCAN_TIMEOUT",
           m.t \in SyncRequests \cup {"BEACON", "BEACON_TIMEOUT", "SCAN_TIMEOUT"},
           \A t : Posts(r, t) => t \in Confirms,
           m.t = "JOIN_REQ" => sync' = "JOIN_WAIT_BEACON" \/ Posts(r, "JOIN_CONF"),
           m.t = "SCAN_REQ" => sync' = "SCAN_LISTEN" \/ Posts(r, "SCAN_CONF"),
           m.t = "START_REQ" => Posts(r, "START_CONF"),
           m.t \notin SyncRequests /\ sync = "JOIN_WAIT_BEACON" =>
                sync' = "JOIN_WAIT_BEACON" \/ Posts(r, "JOIN_CONF"),
           m.t \notin SyncRequests /\ sync = "SCAN_LISTEN" =>
                sync' = "SCAN_LISTEN" \/ Posts(r, "SCAN_CONF")
    PROVE  Served(m, r, c, a) /\ \A req \in CntlRequests : Keeps(m, r, req)
<1>1. Served(m, r, c, a)
  <2>1. \A t \in MachineTimers :
          Waiting(t)' => t \in a \/ (Waiting(t) /\ t \notin c /\ m.t # TimeoutOf[t])
    BY TimeoutNames DEF Waiting, MachineTimers, SyncRequests
  <2>2. \A t \in Outside : ~Posts(r, t)
    BY DEF Outside, UserTypes, FrameTypes, Confirms
  <2> QED BY <2>1, <2>2 DEF Served
<1>2. ASSUME NEW req \in CntlRequests
      PROVE  Keeps(m, r, req)
  <2>1. m.t # ConfOf[req]
    BY ConfNames DEF CntlRequests, SyncRequests
  <2>2. m.t = req => Working(req)' \/ Posts(r, ConfOf[req])
    BY ConfNames DEF CntlRequests, SyncRequests, Working
  <2>3. m.t \notin GroupOf(req) /\ Working(req) => Working(req)' \/ Posts(r, ConfOf[req])
    BY ConfNames DEF CntlRequests, SyncRequests, Working, GroupOf
  <2>4. \A t \in GroupOf(req) : ~Posts(r, t)
    BY DEF GroupOf, SyncRequests, Confirms
  <2> QED BY <2>1, <2>2, <2>3, <2>4 DEF Keeps
<1> QED BY <1>1, <1>2

LEMMA SyncStep ==
    ASSUME NEW m \in Messages, armed \subseteq MachineTimers, SyncMachine(m)
    PROVE  \E r, c, a : Served(m, r, c, a) /\ \A req \in CntlRequests : Keeps(m, r, req)
<1> DEFINE Goal == \E r, c, a : Served(m, r, c, a) /\ \A req \in CntlRequests : Keeps(m, r, req)
<1>a. UNCHANGED <<auth, assoc>>
  BY DEF SyncMachine
<1>n. <<>> \in Replies /\ \A t : ~Posts(<<>>, t)
  BY OneReply
<1>t. MachineTimers = {"beacon", "scan", "auth", "assoc", "disassoc"}
  BY DEF MachineTimers
<1> SUFFICES Goal
  OBVIOUS
<1>1. ASSUME NEW c \in SUBSET {"beacon", "scan"}, NEW d, ScanNextChannel(d, c),
             m.t \in {"SCAN_TIMEOUT", "SCAN_REQ"}, m.t = "SCAN_TIMEOUT" => sync = "SCAN_LISTEN"
      PROVE  Goal
  <2> HIDE DEF Goal
  <2>1. ASSUME NEW v \in {"ok", "fail"}, NEW a \in SUBSET {"scan"},
               Tell("SCAN_CONF", v, c, a), sync' = "IDLE"
        PROVE  Goal
    <3> DEFINE r == Conf("SCAN_CONF", v)
    <3>1. r \in Replies /\ (\A t : Posts(r, t) <=> t = "SCAN_CONF") /\ Serve(r, c, a)
      BY <2>1, ConfReply DEF Confirms, Tell
    <3> HIDE DEF r
    <3>2. Served(m, r, c, a) /\ \A req \in CntlRequests : Keeps(m, r, req)
      BY <3>1, <2>1, <1>1, <1>a, <1>t, SyncServed DEF SyncRequests, Confirms
    <3> QED BY <3>2 DEF Goal
  <2>2. ASSUME Serve(<<>>, c, {"scan"}), sync' = "SCAN_LISTEN"
        PROVE  Goal
    <3>1. Served(m, <<>>, c, {"scan"}) /\ \A req \in CntlRequests : Keeps(m, <<>>, req)
      BY <2>2, <1>1, <1>a, <1>t, <1>n, SyncServed DEF SyncRequests, Confirms
    <3> QED BY <3>1 DEF Goal
  <2> QED BY <1>1, <2>1, <2>2 DEF ScanNextChannel
<1>2. CASE ScanTimeoutAction(m)
  <2>1. {} \in SUBSET {"beacon", "scan"}
    OBVIOUS
  <2> QED BY <1>2, <1>1, <2>1 DEF ScanTimeoutAction
<1>3. CASE MlmeScanReqAction(m)
  BY <1>3, <1>1 DEF MlmeScanReqAction
<1>4. CASE MlmeJoinReqAction(m)
  <2> DEFINE c == {"scan", "beacon"} \cap armed
  <2>1. c \in SUBSET {"beacon", "scan"} /\ {"beacon"} \cap (armed \ c) = {} /\ Serve(<<>>, c, {"beacon"})
    BY <1>4 DEF MlmeJoinReqAction
  <2> HIDE DEF c
  <2>2. Served(m, <<>>, c, {"beacon"}) /\ \A req \in CntlRequests : Keeps(m, <<>>, req)
    BY <2>1, <1>4, <1>a, <1>t, <1>n, SyncServed DEF SyncRequests, Confirms, MlmeJoinReqAction
  <2> QED BY <2>2
<1>5. ASSUME NEW t \in {"START_CONF", "JOIN_CONF", "SCAN_CONF"}, NEW v \in {"ok", "fail"},
             NEW c \in SUBSET {"beacon", "scan"},
             Tell(t, v, c, {}), sync' = "IDLE", m.t \in SyncRequests \cup {"BEACON", "BEACON_TIMEOUT"},
             m.t \in SyncRequests => t = ConfOf[m.t],
             m.t \notin SyncRequests => t = "JOIN_CONF" /\ sync = "JOIN_WAIT_BEACON"
      PROVE  Goal
  <2> DEFINE r == Conf(t, v)
  <2>1. r \in Replies /\ (\A u : Posts(r, u) <=> u = t) /\ Serve(r, c, {})
    BY <1>5, ConfReply DEF Confirms, Tell
  <2> HIDE DEF r
  <2>2. Served(m, r, c, {}) /\ \A req \in CntlRequests : Keeps(m, r, req)
    BY <2>1, <1>5, <1>a, <1>t, SyncServed, ConfNames DEF SyncRequests, Confirms
  <2> QED BY <2>2
<1>6. CASE MlmeStartReqAction(m)
  <2>1. {"scan", "beacon"} \in SUBSET {"beacon", "scan"}
    OBVIOUS
  <2> QED BY <1>5, <1>6, <2>1, ConfNames DEF MlmeStartReqAction, SyncRequests
<1>7. CASE PeerBeaconAtJoinAction(m)
  BY <1>5, <1>7 DEF PeerBeaconAtJoinAction, SyncRequests
<1>8. CASE BeaconTimeoutAtJoinAction(m)
  BY <1>5, <1>8 DEF BeaconTimeoutAtJoinAction, SyncRequests
<1>9. CASE InvalidStateWhenSync(m)
  <2>1. ConfOf[m.t] \in {"START_CONF", "JOIN_CONF", "SCAN_CONF"}
    BY <1>9, ConfNames DEF InvalidStateWhenSync, SyncRequests
  <2>2. Tell(ConfOf[m.t], "fail", {}, {}) /\ sync' = "IDLE" /\ m.t \in SyncRequests
    BY <1>9 DEF InvalidStateWhenSync
  <2> QED BY <1>5, <2>1, <2>2
<1>10. CASE PeerBeacon(m) \/ SyncDrops(m)
  <2>1. Serve(<<>>, {}, {}) /\ sync' = sync
    BY <1>10 DEF PeerBeacon, SyncDrops, Consume
  <2>2. /\ m.t \in {"BEACON", "BEACON_TIMEOUT", "SCAN_TIMEOUT"}
        /\ sync = "JOIN_WAIT_BEACON" => m.t # "BEACON_TIMEOUT"
        /\ sync = "SCAN_LISTEN" => m.t # "SCAN_TIMEOUT"
    BY <1>10 DEF PeerBeacon, SyncDrops
  <2>3. Served(m, <<>>, {}, {}) /\ \A req \in CntlRequests : Keeps(m, <<>>, req)
    BY <2>1, <2>2, <1>a, <1>t, <1>n, SyncServed DEF SyncRequests, Confirms
  <2> QED BY <2>3
<1> QED
  BY <1>2, <1>3, <1>4, <1>6, <1>7, <1>8, <1>9, <1>10 DEF SyncMachine

\* A message of AUTH.
LEMMA AuthServed ==
    ASSUME NEW m \in Messages, NEW r \in Replies, NEW c \in SUBSET {"auth"},
           NEW a \in SUBSET {"auth"},
           Serve(r, c, a), UNCHANGED <<sync, assoc>>,
           a \cap (armed \ c) = {},
           auth' # "IDLE" => \/ "auth" \in a
                             \/ auth # "IDLE" /\ "auth" \notin c /\ m.t # "AUTH_TIMEOUT",
           m.t \in {"AUTH_REQ", "AUTH_SEQ2", "AUTH_SEQ4", "AUTH_TIMEOUT"},
           \A t : Posts(r, t) => t = "AUTH_CONF",
           m.t = "AUTH_REQ" \/ auth # "IDLE" => auth' # "IDLE" \/ Posts(r, "AUTH_CONF")
    PROVE  Served(m, r, c, a) /\ \A req \in CntlRequests : Keeps(m, r, req)
<1>1. Served(m, r, c, a)
  <2>1. \A t \in MachineTimers :
          Waiting(t)' => t \in a \/ (Waiting(t) /\ t \notin c /\ m.t # TimeoutOf[t])
    BY TimeoutNames DEF Waiting, MachineTimers
  <2>2. \A t \in Outside : ~Posts(r, t)
    BY DEF Outside, UserTypes, FrameTypes
  <2> QED BY <2>1, <2>2 DEF Served, MachineTimers
<1>2. ASSUME NEW req \in CntlRequests
      PROVE  Keeps(m, r, req)
  BY ConfNames DEF CntlRequests, SyncRequests, Working, GroupOf, Keeps
<1> QED BY <1>1, <1>2

LEMMA AuthStep ==
    ASSUME NEW m \in Messages, armed \subseteq MachineTimers, AuthMachine(m)
    PROVE  \E r, c, a : Served(m, r, c, a) /\ \A req \in CntlRequests : Keeps(m, r, req)
<1> DEFINE Goal == \E r, c, a : Served(m, r, c, a) /\ \A req \in CntlRequests : Keeps(m, r, req)
<1>a. UNCHANGED <<sync, assoc>>
  BY DEF AuthMachine
<1>n. <<>> \in Replies /\ \A t : ~Posts(<<>>, t)
  BY OneReply
<1> SUFFICES Goal
  OBVIOUS
<1>1. ASSUME NEW v \in {"ok", "fail"}, NEW c \in SUBSET {"auth"}, AuthDone(v, c),
             m.t \in {"AUTH_REQ", "AUTH_SEQ2", "AUTH_SEQ4", "AUTH_TIMEOUT"}
      PROVE  Goal
  <2> DEFINE r == Conf("AUTH_CONF", v)
  <2>1. r \in Replies /\ (\A u : Posts(r, u) <=> u = "AUTH_CONF") /\ Serve(r, c, {}) /\ auth' = "IDLE"
    BY <1>1, ConfReply DEF Confirms, Tell, AuthDone
  <2> HIDE DEF r
  <2>2. Served(m, r, c, {}) /\ \A req \in CntlRequests : Keeps(m, r, req)
    BY <2>1, <1>1, <1>a, AuthServed
  <2> QED BY <2>2
<1>2. ASSUME NEW c \in SUBSET {"auth"}, {"auth"} \cap (armed \ c) = {}, Serve(<<>>, c, {"auth"}),
             auth' # "IDLE", m.t \in {"AUTH_REQ", "AUTH_SEQ2"}
      PROVE  Goal
  <2>2. Served(m, <<>>, c, {"auth"}) /\ \A req \in CntlRequests : Keeps(m, <<>>, req)
    BY <1>2, <1>n, <1>a, AuthServed
  <2> QED BY <2>2
<1> HIDE DEF Goal
<1>3. CASE MlmeAuthReqAction(m)
  <2>1. {"auth"} \cap armed \in SUBSET {"auth"} /\ {} \in SUBSET {"auth"}
        /\ {"auth"} \cap (armed \ ({"auth"} \cap armed)) = {}
    OBVIOUS
  <2> QED BY <1>1, <1>2, <1>3, <2>1 DEF MlmeAuthReqAction
<1>4. CASE PeerAuthRspAtSeq2Action(m)
  <2>1. {"auth"} \in SUBSET {"auth"} /\ {"auth"} \cap (armed \ {"auth"}) = {}
    OBVIOUS
  <2> QED BY <1>1, <1>2, <1>4, <2>1 DEF PeerAuthRspAtSeq2Action
<1>5. CASE PeerAuthRspAtSeq4Action(m)
  <2>1. {"auth"} \in SUBSET {"auth"}
    OBVIOUS
  <2> QED BY <1>1, <1>5, <2>1, MessageKinds DEF PeerAuthRspAtSeq4Action, FrameTypes
<1>6. CASE AuthTimeoutAction(m) \/ InvalidStateWhenAuth(m)
  <2>1. {} \in SUBSET {"auth"}
    OBVIOUS
  <2> QED BY <1>1, <1>6, <2>1 DEF AuthTimeoutAction, InvalidStateWhenAuth
<1>7. CASE AuthDrops(m)
  <2>1. Serve(<<>>, {}, {}) /\ auth' = auth
    BY <1>7 DEF AuthDrops, Consume
  <2>2. m.t \in {"AUTH_SEQ2", "AUTH_SEQ4", "AUTH_TIMEOUT"}
        /\ (auth # "IDLE" => m.t # "AUTH_TIMEOUT")
    BY <1>7 DEF AuthDrops
  <2>3. Served(m, <<>>, {}, {}) /\ \A req \in CntlRequests : Keeps(m, <<>>, req)
    BY <2>1, <2>2, <1>a, <1>n, AuthServed
  <2> QED BY <2>3 DEF Goal
<1> QED BY <1>3, <1>4, <1>5, <1>6, <1>7 DEF AuthMachine

\* A message of ASSOC; a disassociation by the AP ends its wait and nobody is told.
LEMMA AssocServed ==
    ASSUME NEW m \in Messages, NEW r \in Replies, NEW c \in SUBSET {"assoc", "disassoc"},
           NEW a \in SUBSET {"assoc", "disassoc"},
           Serve(r, c, a), UNCHANGED <<sync, auth>>,
           a \cap (armed \ c) = {},
           assoc' = "WAIT_RSP" =>
                \/ "assoc" \in a
                \/ assoc = "WAIT_RSP" /\ "assoc" \notin c /\ m.t # "ASSOC_TIMEOUT",
           assoc' = "DISASSOC_WAIT_RSP" =>
                \/ "disassoc" \in a
                \/ assoc = "DISASSOC_WAIT_RSP" /\ "disassoc" \notin c /\ m.t # "DISASSOC_TIMEOUT",
           m.t \in {"ASSOC_REQ", "DISASSOC_REQ", "ASSOC_RSP", "PEER_DISASSOC", "ASSOC_TIMEOUT",
                    "DISASSOC_TIMEOUT"},
           \A t : Posts(r, t) => t \in {"ASSOC_CONF", "DISASSOC_CONF"},
           m.t = "ASSOC_REQ" => assoc' = "WAIT_RSP" \/ Posts(r, "ASSOC_CONF"),
           m.t = "DISASSOC_REQ" => assoc' = "DISASSOC_WAIT_RSP" \/ Posts(r, "DISASSOC_CONF"),
           m.t \in {"ASSOC_RSP", "ASSOC_TIMEOUT", "DISASSOC_TIMEOUT"} =>
                /\ assoc = "WAIT_RSP" => assoc' = assoc \/ Posts(r, "ASSOC_CONF")
                /\ assoc = "DISASSOC_WAIT_RSP" => assoc' = assoc \/ Posts(r, "DISASSOC_CONF")
    PROVE  /\ Served(m, r, c, a)
           /\ m.t # "PEER_DISASSOC" => \A req \in CntlRequests : Keeps(m, r, req)
<1>1. Served(m, r, c, a)
  <2>1. \A t \in MachineTimers :
          Waiting(t)' => t \in a \/ (Waiting(t) /\ t \notin c /\ m.t # TimeoutOf[t])
    BY TimeoutNames DEF Waiting, MachineTimers
  <2>2. \A t \in Outside : ~Posts(r, t)
    BY DEF Outside, UserTypes, FrameTypes
  <2> QED BY <2>1, <2>2 DEF Served, MachineTimers
<1>2. ASSUME NEW req \in CntlRequests, m.t # "PEER_DISASSOC"
      PROVE  Keeps(m, r, req)
  BY <1>2, ConfNames DEF CntlRequests, SyncRequests, Working, GroupOf, Keeps
<1> QED BY <1>1, <1>2

LEMMA AssocStep ==
    ASSUME NEW m \in Messages, armed \subseteq MachineTimers, AssocMachine(m),
           assoc \in {"IDLE", "WAIT_RSP", "DISASSOC_WAIT_RSP"}
    PROVE  \E r, c, a : /\ Served(m, r, c, a)
                        /\ m.t # "PEER_DISASSOC" => \A req \in CntlRequests : Keeps(m, r, req)
<1> DEFINE Goal == \E r, c, a :
                      /\ Served(m, r, c, a)
                      /\ m.t # "PEER_DISASSOC" => \A req \in CntlRequests : Keeps(m, r, req)
<1>a. UNCHANGED <<sync, auth>>
  BY DEF AssocMachine
<1>n. <<>> \in Replies /\ \A t : ~Posts(<<>>, t)
  BY OneReply
<1> SUFFICES Goal
  OBVIOUS
<1>1. ASSUME NEW t \in {"ASSOC_CONF", "DISASSOC_CONF"}, NEW v \in {"ok", "fail"},
             NEW c \in SUBSET {"assoc", "disassoc"}, AssocDone(t, v, c),
             \/ m.t \in {"ASSOC_REQ", "DISASSOC_REQ"} /\ t = ConfOf[m.t]
             \/ m.t \in {"ASSOC_RSP", "ASSOC_TIMEOUT"} /\ assoc = "WAIT_RSP" /\ t = "ASSOC_CONF"
             \/ m.t = "DISASSOC_TIMEOUT" /\ assoc = "DISASSOC_WAIT_RSP" /\ t = "DISASSOC_CONF"
      PROVE  Goal
  <2> DEFINE r == Conf(t, v)
  <2>1. r \in Replies /\ (\A u : Posts(r, u) <=> u = t) /\ Serve(r, c, {}) /\ assoc' = "IDLE"
    BY <1>1, ConfReply DEF Confirms, Tell, AssocDone
  <2> HIDE DEF r
  <2>2. Served(m, r, c, {}) /\ (m.t # "PEER_DISASSOC" => \A req \in CntlRequests : Keeps(m, r, req))
    BY <2>1, <1>1, <1>a, AssocServed, ConfNames
  <2> QED BY <2>2
<1>2. ASSUME NEW t \in {"assoc", "disassoc"}, Serve(<<>>, {t}, {t}),
             \/ m.t = "ASSOC_REQ" /\ t = "assoc" /\ assoc' = "WAIT_RSP"
             \/ m.t = "DISASSOC_REQ" /\ t = "disassoc" /\ assoc' = "DISASSOC_WAIT_RSP"
      PROVE  Goal
  <2> DEFINE c == {t}
  <2>1. c \in SUBSET {"assoc", "disassoc"} /\ c \cap (armed \ c) = {} /\ t \in c
    OBVIOUS
  <2> HIDE DEF c
  <2>2. Serve(<<>>, c, c)
    BY <1>2 DEF c
  <2>3. Served(m, <<>>, c, c)
        /\ (m.t # "PEER_DISASSOC" => \A req \in CntlRequests : Keeps(m, <<>>, req))
    BY <2>1, <2>2, <1>2, <1>n, <1>a, AssocServed
  <2> QED BY <2>3
<1>3. ASSUME Serve(<<>>, {}, {}), assoc' = assoc \/ (assoc' = "IDLE" /\ m.t = "PEER_DISASSOC"),
             \/ m.t \in {"PEER_DISASSOC", "ASSOC_RSP"}
             \/ m.t = "ASSOC_TIMEOUT" /\ assoc # "WAIT_RSP"
             \/ m.t = "DISASSOC_TIMEOUT" /\ assoc # "DISASSOC_WAIT_RSP"
      PROVE  Goal
  <2>1. Served(m, <<>>, {}, {})
        /\ (m.t # "PEER_DISASSOC" => \A req \in CntlRequests : Keeps(m, <<>>, req))
    BY <1>3, <1>n, <1>a, AssocServed
  <2> QED BY <2>1
<1> HIDE DEF Goal
<1>c. ConfOf["ASSOC_REQ"] = "ASSOC_CONF" /\ ConfOf["DISASSOC_REQ"] = "DISASSOC_CONF"
  BY ConfNames
<1>s. {} \in SUBSET {"assoc", "disassoc"} /\ {"assoc"} \in SUBSET {"assoc", "disassoc"}
  OBVIOUS
<1>4. CASE MlmeAssocReqAction(m)
  <2>1. m.t = "ASSOC_REQ"
    BY <1>4 DEF MlmeAssocReqAction
  <2>2. CASE Serve(<<>>, {"assoc"}, {"assoc"}) /\ assoc' = "WAIT_RSP"
    BY <2>1, <2>2, <1>2
  <2>3. CASE \E c \in SUBSET {"assoc", "disassoc"} : AssocDone("ASSOC_CONF", "fail", c)
    BY <2>1, <2>3, <1>1, <1>c
  <2> QED BY <1>4, <1>s, <2>2, <2>3 DEF MlmeAssocReqAction
<1>5. CASE MlmeDisassocReqAction(m)
  <2>1. m.t = "DISASSOC_REQ"
    BY <1>5 DEF MlmeDisassocReqAction
  <2>2. CASE Serve(<<>>, {"disassoc"}, {"disassoc"}) /\ assoc' = "DISASSOC_WAIT_RSP"
    BY <2>1, <2>2, <1>2
  <2>3. CASE AssocDone("DISASSOC_CONF", "fail", {})
    BY <2>1, <2>3, <1>1, <1>c, <1>s
  <2> QED BY <1>5, <2>2, <2>3 DEF MlmeDisassocReqAction
<1>6. CASE PeerAssocRspAction(m)
  <2>1. m.t = "ASSOC_RSP" /\ assoc = "WAIT_RSP" /\ AssocDone("ASSOC_CONF", m.v, {"assoc"})
    BY <1>6 DEF PeerAssocRspAction
  <2>2. m.v \in {"ok", "fail"}
    BY <2>1, MessageKinds DEF FrameTypes
  <2> QED BY <1>1, <1>s, <2>1, <2>2
<1>7. CASE PeerDisassocAction(m)
  BY <1>7, <1>3 DEF PeerDisassocAction, Consume
<1>8. CASE AssocTimeoutAction(m)
  BY <1>8, <1>1, <1>s DEF AssocTimeoutAction
<1>9. CASE DisassocTimeoutAction(m)
  BY <1>9, <1>1, <1>s DEF DisassocTimeoutAction
<1>10. CASE InvalidStateWhenAssoc(m)
  <2>1. m.t \in {"ASSOC_REQ", "DISASSOC_REQ"} /\ AssocDone(ConfOf[m.t], "fail", {})
    BY <1>10 DEF InvalidStateWhenAssoc
  <2>2. ConfOf[m.t] \in {"ASSOC_CONF", "DISASSOC_CONF"}
    BY <2>1, <1>c
  <2> QED BY <2>1, <2>2, <1>1, <1>s
<1>11. CASE AssocDrops(m)
  BY <1>11, <1>3 DEF AssocDrops, Consume
<1> QED
  BY <1>4, <1>5, <1>6, <1>7, <1>8, <1>9, <1>10, <1>11 DEF AssocMachine

LEMMA DeauthStep ==
    ASSUME NEW m \in Messages, PeerDeauthAction(m)
    PROVE  Served(m, <<>>, {}, {}) /\ \A req \in CntlRequests : Keeps(m, <<>>, req)
<1>1. m.t = "DEAUTH" /\ Serve(<<>>, {}, {}) /\ UNCHANGED <<sync, auth, assoc>>
  BY DEF PeerDeauthAction, Consume, machines
<1>2. <<>> \in Replies /\ \A t : ~Posts(<<>>, t)
  BY OneReply
<1>3. Served(m, <<>>, {}, {})
  BY <1>1, <1>2, TimeoutNames DEF Served, Waiting, MachineTimers
<1>4. ASSUME NEW req \in CntlRequests
      PROVE  Keeps(m, <<>>, req)
  BY <1>1, <1>2, ConfNames DEF Keeps, Working, GroupOf, CntlRequests, SyncRequests
<1> QED BY <1>3, <1>4

\* The request whose confirmation CNTL waits for.
RequestOf(state) ==
    CASE state = "WAIT_JOIN" -> "JOIN_REQ" [] state = "WAIT_START" -> "START_REQ"
      [] state \in {"WAIT_AUTH", "WAIT_AUTH2"} -> "AUTH_REQ"
      [] state = "WAIT_ASSOC" -> "ASSOC_REQ"
      [] state \in {"WAIT_DISASSOC", "WAIT_OID_DISASSOC"} -> "DISASSOC_REQ"
      [] state = "WAIT_OID_LIST_SCAN" -> "SCAN_REQ"

LEMMA RequestNames ==
    /\ RequestOf("WAIT_JOIN") = "JOIN_REQ" /\ RequestOf("WAIT_START") = "START_REQ"
    /\ RequestOf("WAIT_AUTH") = "AUTH_REQ" /\ RequestOf("WAIT_AUTH2") = "AUTH_REQ"
    /\ RequestOf("WAIT_ASSOC") = "ASSOC_REQ"
    /\ RequestOf("WAIT_DISASSOC") = "DISASSOC_REQ"
    /\ RequestOf("WAIT_OID_DISASSOC") = "DISASSOC_REQ"
    /\ RequestOf("WAIT_OID_LIST_SCAN") = "SCAN_REQ"
BY DEF RequestOf

\* CNTL goes to IDLE, or it posts a request and waits for the confirmation.
Asks == \E r \in Replies : /\ Serve(r, {}, {})
                           /\ \/ cntl' = "IDLE" /\ r = <<>>
                              \/ cntl' \in CntlStates \ {"IDLE"} /\ Posts(r, RequestOf(cntl'))

LEMMA AskFacts ==
    /\ Ask(<<>>, "IDLE") => Asks
    /\ \A state \in CntlStates \ {"IDLE"} : \A x \in Messages :
         Ask(<<x>>, state) /\ x.t = RequestOf(state) => Asks
<1>1. Ask(<<>>, "IDLE") => Asks
  BY OneReply DEF Ask, Asks
<1>2. ASSUME NEW state \in CntlStates \ {"IDLE"}, NEW x \in Messages,
             Ask(<<x>>, state), x.t = RequestOf(state)
      PROVE  Asks
  <2>1. <<x>> \in Replies /\ Posts(<<x>>, RequestOf(state))
    BY <1>2, OneReply
  <2>2. Serve(<<x>>, {}, {}) /\ cntl' = state
    BY <1>2 DEF Ask
  <2> QED BY <2>1, <2>2 DEF Asks
<1> QED BY <1>1, <1>2

LEMMA AskSignal ==
    ASSUME NEW t \in {"START_REQ", "SCAN_REQ", "DISASSOC_REQ"},
           NEW state \in CntlStates \ {"IDLE"}, t = RequestOf(state),
           Ask(<<Signal(t)>>, state)
    PROVE  Asks
<1>1. Signal(t) \in Messages /\ Signal(t).t = t
  BY PlainMessage DEF Signal, PlainTypes
<1> DEFINE x == Signal(t)
<1> HIDE DEF x
<1>2. Ask(<<x>>, state) /\ x \in Messages /\ x.t = RequestOf(state)
  BY <1>1 DEF x
<1> QED BY <1>2, AskFacts

LEMMA IterateAsks ==
    ASSUME NEW i \in Nat, NEW nr \in 0 .. NBss, NBss \in Nat, IterateOnBssTab(i, nr)
    PROVE  Asks
<1>1. CASE i < nr /\ Ask(<<Msg("JOIN_REQ", i, "ok")>>, "WAIT_JOIN")
  <2> DEFINE x == Msg("JOIN_REQ", i, "ok")
  <2>1. x \in Messages /\ x.t = "JOIN_REQ"
    BY <1>1, RequestMessages
  <2>2. Ask(<<x>>, "WAIT_JOIN")
    BY <1>1
  <2> HIDE DEF x
  <2> QED BY <2>1, <2>2, AskFacts, RequestNames DEF CntlStates
<1>2. CASE Ask(<<Signal("START_REQ")>>, "WAIT_START")
  <2>1. "WAIT_START" \in CntlStates \ {"IDLE"}
    BY DEF CntlStates
  <2> QED BY <1>2, <2>1, AskSignal, RequestNames
<1>3. CASE Ask(<<>>, "IDLE")
  BY <1>3, AskFacts
<1> QED BY <1>1, <1>2, <1>3 DEF IterateOnBssTab

LEMMA DisassociateAsks ==
    ASSUME NEW state \in {"WAIT_DISASSOC", "WAIT_OID_DISASSOC"}, Disassociate(state)
    PROVE  Asks
<1>1. state \in CntlStates \ {"IDLE"} /\ "DISASSOC_REQ" = RequestOf(state)
  BY RequestNames DEF CntlStates
<1> QED BY <1>1, AskSignal DEF Disassociate

---------------------------------------------------------------------------
(* Types *)

\* While CNTL tries a candidate, BssIdx is that of one: what makes BssIdx++ safe.
Trying == {"WAIT_JOIN", "WAIT_AUTH", "WAIT_AUTH2", "WAIT_ASSOC"}
TypeInv == TypeOK /\ (cntl \in Trying => bssIdx < tab.nr)

LEMMA Typed ==
    ASSUME TypeInv
    PROVE  /\ scenario \in DOMAIN Scenarios /\ NBss \in Nat \ {0}
           /\ queue \in Seq(Messages) /\ Len(queue) <= MaxLen
           /\ cntl \in CntlStates /\ armed \subseteq MachineTimers
           /\ aux \in AuxFields /\ tab \in TabFields /\ bssIdx \in 0 .. NBss
           /\ cntl \in Trying => bssIdx + 1 \in 0 .. NBss
           /\ aux.bssid \in Addresses /\ tab.nr \in 0 .. NBss
           /\ FirstAlg \in Algs
<1>1. /\ scenario \in DOMAIN Scenarios
      /\ queue \in Seq(Messages) /\ Len(queue) <= MaxLen
      /\ cntl \in CntlStates /\ armed \subseteq MachineTimers
      /\ aux \in AuxFields /\ tab \in TabFields /\ bssIdx \in 0 .. NBss
      /\ cntl \in Trying => bssIdx < tab.nr
  BY DEF TypeInv, TypeOK, AuxFields, TabFields, Algs
<1>2. NBss \in Nat \ {0}
  BY <1>1, ScenarioFacts
<1>3. aux.bssid \in Addresses /\ tab.nr \in 0 .. NBss
  BY <1>1 DEF AuxFields, TabFields
<1>4. FirstAlg \in Algs
  BY DEF FirstAlg, Algs
<1> QED BY <1>1, <1>2, <1>3, <1>4

LEMMA CntlStep ==
    ASSUME TypeInv, NEW m \in Messages, MlmeCntlMachinePerformAction(m)
    PROVE  \/ Asks
           \/ Consume /\ cntl' = cntl /\ m.t \in CntlTypes \ CntlAwaits[cntl]
<1>a. /\ NBss \in Nat \ {0} /\ 0 \in Nat /\ tab.nr \in 0 .. NBss /\ 0 \in 0 .. NBss - 1
      /\ aux.bssid \in Addresses /\ FirstAlg \in Algs /\ "open" \in Algs
      /\ bssIdx \in Nat
  BY Typed DEF Algs
<1>b. \A s \in Tables : Len(s) \in 0 .. NBss
  BY Typed, ScenarioFacts
<1>i. \A i \in Nat, nr \in 0 .. NBss : IterateOnBssTab(i, nr) => Asks
  BY <1>a, IterateAsks
<1>d. Disassociate("WAIT_DISASSOC") \/ Disassociate("WAIT_OID_DISASSOC") => Asks
  BY DisassociateAsks
<1>e. Ask(<<>>, "IDLE") => Asks
  BY AskFacts
<1>f. /\ "WAIT_OID_LIST_SCAN" \in CntlStates \ {"IDLE"} /\ "WAIT_START" \in CntlStates \ {"IDLE"}
      /\ "WAIT_JOIN" \in CntlStates \ {"IDLE"} /\ "WAIT_ASSOC" \in CntlStates \ {"IDLE"}
      /\ "WAIT_AUTH" \in CntlStates \ {"IDLE"} /\ "WAIT_AUTH2" \in CntlStates \ {"IDLE"}
  BY DEF CntlStates
<1>g. Ask(<<Signal("SCAN_REQ")>>, "WAIT_OID_LIST_SCAN") => Asks
  BY <1>f, AskSignal, RequestNames
<1>h. Ask(<<Signal("START_REQ")>>, "WAIT_START") => Asks
  BY <1>f, AskSignal, RequestNames
<1>n. TryNextBss => Asks
  <2> SUFFICES ASSUME TryNextBss PROVE Asks
    OBVIOUS
  <2>1. bssIdx + 1 \in Nat /\ IterateOnBssTab(bssIdx + 1, tab.nr)
    BY <1>a DEF TryNextBss
  <2> QED BY <2>1, <1>a, <1>i
<1>k. ASSUME NEW alg \in Algs, NEW state \in {"WAIT_AUTH", "WAIT_AUTH2"}, AskAuth(alg, state)
      PROVE  Asks
  <2> DEFINE x == Msg("AUTH_REQ", aux.bssid, alg)
  <2>1. x \in Messages /\ x.t = "AUTH_REQ"
    BY <1>a, RequestMessages
  <2>2. Ask(<<x>>, state)
    BY <1>k DEF AskAuth
  <2> HIDE DEF x
  <2> QED BY <2>1, <2>2, <1>f, AskFacts, RequestNames
<1>l. AskAssoc => Asks
  <2> SUFFICES ASSUME AskAssoc PROVE Asks
    OBVIOUS
  <2> DEFINE x == Msg("ASSOC_REQ", aux.bssid, "ok")
  <2>1. x \in Messages /\ x.t = "ASSOC_REQ"
    BY <1>a, RequestMessages
  <2>2. Ask(<<x>>, "WAIT_ASSOC")
    BY DEF AskAssoc
  <2> HIDE DEF x
  <2> QED BY <2>1, <2>2, <1>f, AskFacts, RequestNames
<1>1. CASE CntlOidSsidProc(m)
  BY <1>1, <1>a, <1>b, <1>i, <1>d, <1>e, <1>g DEF CntlOidSsidProc
<1>2. CASE CntlOidRTBssidProc(m)
  <2> DEFINE x == Msg("JOIN_REQ", 0, "ok")
  <2>1. x \in Messages /\ x.t = "JOIN_REQ"
    BY <1>a, RequestMessages
  <2>2. Ask(<<x>>, "WAIT_JOIN") => Asks
    <3> HIDE DEF x
    <3> QED BY <2>1, <1>f, AskFacts, RequestNames
  <2> QED BY <1>2, <2>2, <1>d, <1>e DEF CntlOidRTBssidProc
<1>3. CASE CntlOidScanProc(m)
  BY <1>3, <1>g DEF CntlOidScanProc
<1>4. CASE CntlIdleProc(m)
  BY <1>4, <1>a, <1>b, <1>i, <1>d DEF CntlIdleProc, CntlMlmeRoamingProc
<1>5. CASE CntlWaitDisassocProc(m)
  BY <1>5, <1>a, <1>i, <1>h DEF CntlWaitDisassocProc
<1>6. CASE CntlWaitOidDisassoc(m)
  BY <1>6, <1>e DEF CntlWaitOidDisassoc
<1>7. CASE CntlWaitJoinProc(m)
  BY <1>7, <1>a, <1>n, <1>k, <1>e DEF CntlWaitJoinProc
<1>8. CASE CntlWaitStartProc(m)
  BY <1>8, <1>e DEF CntlWaitStartProc
<1>9. CASE CntlWaitAuthProc(m)
  BY <1>9, <1>a, <1>k, <1>l DEF CntlWaitAuthProc
<1>10. CASE CntlWaitAuthProc2(m)
  BY <1>10, <1>a, <1>n, <1>k, <1>l DEF CntlWaitAuthProc2
<1>11. CASE CntlWaitAssocProc(m)
  BY <1>11, <1>n, <1>e DEF CntlWaitAssocProc
<1>12. CASE CntlWaitScan(m)
  BY <1>12, <1>e DEF CntlWaitScan
<1>13. CASE CntlDrops(m)
  BY <1>13 DEF CntlDrops
<1> QED
  BY <1>1, <1>2, <1>3, <1>4, <1>5, <1>6, <1>7, <1>8, <1>9, <1>10, <1>11, <1>12, <1>13
  DEF MlmeCntlMachinePerformAction

\* Every message is served by the promise above.
LEMMA DispatchServed ==
    ASSUME TypeInv, Dispatch
    PROVE  /\ queue # <<>> /\ Head(queue) \in Messages
           /\ \E r, c, a : Served(Head(queue), r, c, a)
<1> DEFINE m == Head(queue)
<1>1. queue # <<>> /\ m \in Messages
  BY Typed DEF Dispatch
<1>2. armed \subseteq MachineTimers /\ assoc \in {"IDLE", "WAIT_RSP", "DISASSOC_WAIT_RSP"}
  BY DEF TypeInv, TypeOK
<1>3. \/ MlmeCntlMachinePerformAction(m) \/ SyncMachine(m) \/ AuthMachine(m)
      \/ PeerDeauthAction(m) \/ AssocMachine(m)
  BY DEF Dispatch
<1> HIDE DEF m
<1>4. CASE MlmeCntlMachinePerformAction(m)
  <2>1. PICK r \in Replies : Serve(r, {}, {}) /\ \A t \in Outside : ~Posts(r, t)
    <3>1. <<>> \in Replies /\ \A t : ~Posts(<<>>, t)
      BY OneReply
    <3>2. CASE Consume
      BY <3>1, <3>2 DEF Consume
    <3>3. CASE Asks
      <4>1. PICK r \in Replies :
              /\ Serve(r, {}, {})
              /\ r = <<>> \/ (cntl' \in CntlStates \ {"IDLE"} /\ Posts(r, RequestOf(cntl')))
        BY <3>3 DEF Asks
      <4>2. \A s \in CntlStates \ {"IDLE"} : RequestOf(s) \notin Outside
        BY RequestNames DEF CntlStates, Outside, UserTypes, FrameTypes
      <4> QED BY <3>1, <4>1, <4>2 DEF Posts
    <3> QED BY <1>1, <1>4, <3>2, <3>3, CntlStep
  <2>2. UNCHANGED <<sync, auth, assoc>>
    BY <1>4 DEF MlmeCntlMachinePerformAction, machines
  <2>3. m.t \notin Timeouts
    BY <1>4 DEF MlmeCntlMachinePerformAction, CntlOidSsidProc, CntlOidRTBssidProc, CntlOidScanProc,
       CntlIdleProc, CntlMlmeRoamingProc, CntlWaitDisassocProc, CntlWaitOidDisassoc,
       CntlWaitJoinProc, CntlWaitStartProc, CntlWaitAuthProc, CntlWaitAuthProc2,
       CntlWaitAssocProc, CntlWaitScan, CntlDrops, CntlTypes, Confirms, Timeouts
  <2>4. Served(m, r, {}, {})
    BY <2>1, <2>2, <2>3, TimeoutNames DEF Served, Waiting, MachineTimers, Timeouts
  <2> QED BY <2>4, <1>1 DEF m
<1>5. CASE SyncMachine(m)
  BY <1>1, <1>2, <1>5, SyncStep DEF m
<1>6. CASE AuthMachine(m)
  BY <1>1, <1>2, <1>6, AuthStep DEF m
<1>7. CASE PeerDeauthAction(m)
  BY <1>1, <1>7, DeauthStep DEF m
<1>8. CASE AssocMachine(m)
  BY <1>1, <1>2, <1>8, AssocStep DEF m
<1> QED BY <1>3, <1>4, <1>5, <1>6, <1>7, <1>8

\* The queue, the timers and the record of mishaps after a message is served.
QueueOK == /\ queue \in Seq(Messages) /\ Len(queue) <= MaxLen
           /\ armed \subseteq MachineTimers
           /\ mishap \subseteq {"lost", "rearmed", "selfWait"}
MachinesOK == /\ sync \in {"IDLE", "JOIN_WAIT_BEACON", "SCAN_LISTEN"}
              /\ auth \in {"IDLE", "WAIT_SEQ2", "WAIT_SEQ4"}
              /\ assoc \in {"IDLE", "WAIT_RSP", "DISASSOC_WAIT_RSP"}
              /\ chan \in 0 .. NChannels
              /\ (sync = "SCAN_LISTEN") => chan > 0
TargetOK == /\ cntl \in CntlStates
            /\ aux \in AuxFields /\ tab \in TabFields /\ bssIdx \in 0 .. NBss
            /\ cntl \in Trying => bssIdx < tab.nr
NetOK == /\ link \in {"down", "infra", "adhoc"} /\ connected \in BOOLEAN
         /\ bssid \in Addresses /\ micErr \in BOOLEAN
SettingOK == blocked \in BOOLEAN /\ autoSsid \in BOOLEAN /\ suspended \in BOOLEAN
RequestsOK == job \in [Posters -> Jobs] /\ asked \in 0 .. MaxOids
HistoryOK == /\ authOk \in Bss \cup {NoBss} /\ assocOk \in Bss \cup {NoBss}
             /\ overruns \in 0 .. MaxOverruns
ContextOK == scenario \in DOMAIN Scenarios
             /\ runner \in {"none", "softirq", "user", "restart"} \cup MachineTimers

LEMMA TypeParts ==
    TypeInv <=> /\ ContextOK /\ QueueOK /\ MachinesOK /\ TargetOK /\ NetOK /\ SettingOK
                /\ RequestsOK /\ HistoryOK
BY DEF TypeInv, TypeOK, ContextOK, QueueOK, MachinesOK, TargetOK, NetOK, SettingOK, RequestsOK,
       HistoryOK, AuxFields, TabFields, Algs

LEMMA TypePartsNext ==
    ASSUME ContextOK', QueueOK', MachinesOK', TargetOK', NetOK', SettingOK', RequestsOK',
           HistoryOK'
    PROVE  TypeInv'
BY DEF TypeInv, TypeOK, ContextOK, QueueOK, MachinesOK, TargetOK, NetOK, SettingOK, RequestsOK,
       HistoryOK, AuxFields, TabFields, Algs

LEMMA QueueTyped ==
    ASSUME TypeInv, Dispatch
    PROVE  QueueOK' /\ mishap' \subseteq mishap \cup {"lost", "selfWait"}
<1>1. PICK r, c, a : Served(Head(queue), r, c, a)
  BY DispatchServed
<1>2. queue \in Seq(Messages) /\ queue # <<>> /\ Len(queue) <= MaxLen /\ armed \subseteq MachineTimers
      /\ mishap \subseteq {"lost", "rearmed", "selfWait"}
  BY DEF Dispatch, TypeInv, TypeOK
<1>3. r \in Replies /\ Serve(r, c, a) /\ a \subseteq MachineTimers /\ a \cap (armed \ c) \subseteq {"scan"}
  BY <1>1 DEF Served
<1>4. Messages' = Messages
  BY SameScenario DEF Dispatch
<1>5. queue' \in Seq(Messages') /\ Len(queue') <= MaxLen
  BY <1>2, <1>3, <1>4, QueueServed
<1>6. armed' \subseteq MachineTimers
  BY <1>2, <1>3 DEF Serve
<1>7. mishap' \subseteq mishap \cup {"lost", "selfWait"}
  BY <1>3 DEF Serve, Dropped
<1> QED BY <1>2, <1>5, <1>6, <1>7 DEF QueueOK

\* Fields of MlmeAux that a handler writes.
LEMMA AuxWritten ==
    ASSUME aux \in AuxFields
    PROVE  /\ aux.bssid \in Addresses /\ aux.alg \in Algs
           /\ \A t \in {"infra", "adhoc", "any"} : [aux EXCEPT !.type = t] \in AuxFields
           /\ \A b \in Addresses :
                /\ [aux EXCEPT !.bssid = b] \in AuxFields
                /\ \A t \in {"infra", "adhoc", "any"} :
                     [aux EXCEPT !.bssid = b, !.type = t] \in AuxFields
                /\ \A g \in Algs : [aux EXCEPT !.bssid = b, !.alg = g] \in AuxFields
BY DEF AuxFields

LEMMA TabWritten ==
    ASSUME scenario \in DOMAIN Scenarios, tab \in TabFields
    PROVE  /\ tab.nr \in 0 .. NBss
           /\ \A i \in 0 .. NBss - 1 : tab.entry[i] \in Bss \cup {NoBss}
           /\ \A b \in Bss : [nr |-> 1, entry |-> [tab.entry EXCEPT ![0] = b]] \in TabFields
           /\ \A b \in Bss : tab.nr # NBss =>
                [nr |-> tab.nr + 1, entry |-> [tab.entry EXCEPT ![tab.nr] = b]] \in TabFields
           /\ \A s \in Tables : Table(s) \in TabFields /\ Table(s).nr = Len(s)
<1>1. NBss \in Nat \ {0} /\ \A s \in Tables : /\ Len(s) \in 0 .. NBss
                                              /\ \A i \in 1 .. Len(s) : s[i] \in Bss
  BY ScenarioFacts
<1>2. ASSUME NEW s \in Tables
      PROVE  Table(s) \in TabFields /\ Table(s).nr = Len(s)
  <2>1. \A i \in 0 .. NBss - 1 : (IF i < Len(s) THEN s[i + 1] ELSE NoBss) \in Bss \cup {NoBss}
    BY <1>1
  <2> QED BY <1>1, <2>1 DEF Table, TabFields
<1>3. tab.nr \in 0 .. NBss /\ tab.entry \in [0 .. NBss - 1 -> Bss \cup {NoBss}]
  BY DEF TabFields
<1> QED BY <1>1, <1>2, <1>3 DEF TabFields

LEMMA SyncTyped ==
    ASSUME TypeInv, NEW m \in Messages, SyncMachine(m), scenario' = scenario
    PROVE  (MachinesOK /\ TargetOK /\ NetOK /\ SettingOK /\ HistoryOK)'
<1>1. /\ ContextOK /\ MachinesOK /\ TargetOK /\ NetOK /\ SettingOK /\ HistoryOK
  BY TypeParts
<1>2. /\ NBss \in Nat \ {0} /\ NChannels \in Nat \ {0} /\ Ibss \subseteq Bss
      /\ BssType \in {"infra", "adhoc"} /\ scenario \in DOMAIN Scenarios
  BY <1>1, ScenarioFacts DEF ContextOK
<1>3. /\ NBss' = NBss /\ NChannels' = NChannels /\ Bss' = Bss
      /\ Addresses' = Addresses /\ AuxFields' = AuxFields /\ TabFields' = TabFields
  BY SameScenario
<1>4. UNCHANGED <<cntl, auth, assoc, blocked, autoSsid, authOk, assocOk, overruns>>
  BY DEF SyncMachine, history, accepted
<1>5. /\ sync' \in {"IDLE", "JOIN_WAIT_BEACON", "SCAN_LISTEN"} /\ chan' \in 0 .. NChannels
      /\ (sync' = "SCAN_LISTEN") => chan' > 0
  <2>1. ASSUME NEW d \in 0 .. NChannels, NEW c, ScanNextChannel(d, c)
        PROVE  /\ sync' \in {"IDLE", "SCAN_LISTEN"} /\ chan' \in 0 .. NChannels
               /\ (sync' = "SCAN_LISTEN") => chan' > 0
    BY <2>1, <1>2 DEF ScanNextChannel
  <2>2. NextChannel(chan) \in 0 .. NChannels /\ 1 \in 0 .. NChannels
    BY <1>1, <1>2 DEF NextChannel, MachinesOK
  <2>3. CASE ScanTimeoutAction(m)
    BY <2>1, <2>2, <2>3 DEF ScanTimeoutAction
  <2>4. CASE MlmeScanReqAction(m)
    BY <2>1, <2>2, <2>4 DEF MlmeScanReqAction
  <2>5. CASE MlmeJoinReqAction(m) \/ MlmeStartReqAction(m) \/ PeerBeaconAtJoinAction(m)
             \/ BeaconTimeoutAtJoinAction(m) \/ PeerBeacon(m) \/ InvalidStateWhenSync(m)
             \/ SyncDrops(m)
    BY <2>5, <1>1, <1>2 DEF MlmeJoinReqAction, MlmeStartReqAction, PeerBeaconAtJoinAction,
       BeaconTimeoutAtJoinAction, PeerBeacon, InvalidStateWhenSync, SyncDrops, MachinesOK
  <2> QED BY <2>3, <2>4, <2>5 DEF SyncMachine
<1>6. aux' \in AuxFields /\ bssIdx' = bssIdx
  <2>1. aux \in AuxFields /\ \A b : TypeOf(b) \in {"infra", "adhoc", "any"}
    BY <1>1 DEF TargetOK, TypeOf
  <2>2. \A i \in 0 .. NBss - 1 : tab.entry[i] \in Addresses
    BY <1>1, <1>2, TabWritten DEF TargetOK, Addresses
  <2>3. NewIbss \in Addresses
    BY DEF Addresses
  <2>4. CASE MlmeJoinReqAction(m)
    <3>1. m.x \in 0 .. NBss - 1
      BY <2>4, MessageKinds DEF MlmeJoinReqAction
    <3> QED BY <2>4, <2>1, <2>2, <3>1, AuxWritten DEF MlmeJoinReqAction
  <2>5. CASE ~MlmeJoinReqAction(m)
    BY <2>1, <2>3, <2>5, AuxWritten DEF SyncMachine, ScanTimeoutAction, MlmeScanReqAction,
       MlmeStartReqAction, PeerBeaconAtJoinAction, BeaconTimeoutAtJoinAction, PeerBeacon,
       InvalidStateWhenSync, SyncDrops, target
  <2> QED BY <2>4, <2>5
<1>7. tab' \in TabFields /\ tab'.nr >= tab.nr
  <2>1. tab \in TabFields /\ tab.nr \in 0 .. NBss
    BY <1>1, <1>2, TabWritten DEF TargetOK
  <2>2. CASE PeerBeacon(m)
    <3>1. m.x \in Bss
      BY <2>2, MessageKinds DEF PeerBeacon, FrameTypes
    <3>2. \/ tab' = tab
          \/ tab.nr # NBss
             /\ tab' = [nr |-> tab.nr + 1, entry |-> [tab.entry EXCEPT ![tab.nr] = m.x]]
      BY <2>2 DEF PeerBeacon
    <3> QED BY <2>1, <3>1, <3>2, <1>2, TabWritten
  <2>3. CASE ~PeerBeacon(m)
    <3>1. tab' = tab
      BY <2>3 DEF SyncMachine, ScanTimeoutAction, MlmeScanReqAction, MlmeJoinReqAction,
         MlmeStartReqAction, PeerBeaconAtJoinAction, BeaconTimeoutAtJoinAction,
         InvalidStateWhenSync, SyncDrops, target
    <3> QED BY <2>1, <3>1
  <2> QED BY <2>2, <2>3
<1>8. /\ link' \in {"down", "infra", "adhoc"} /\ connected' \in BOOLEAN
      /\ bssid' \in Addresses /\ micErr' \in BOOLEAN
  <2>1. CASE PeerBeacon(m)
    <3>1. m.x \in Bss
      BY <2>1, MessageKinds DEF PeerBeacon, FrameTypes
    <3> QED BY <2>1, <3>1, <1>1 DEF PeerBeacon, LinkDown, NetOK, Addresses
  <2>2. CASE ~PeerBeacon(m)
    <3>1. UNCHANGED net
      BY <2>2 DEF SyncMachine, ScanTimeoutAction, MlmeScanReqAction, MlmeJoinReqAction,
         MlmeStartReqAction, PeerBeaconAtJoinAction, BeaconTimeoutAtJoinAction,
         InvalidStateWhenSync, SyncDrops
    <3> QED BY <3>1, <1>1 DEF net, NetOK
  <2> QED BY <2>1, <2>2
<1>9. suspended' \in BOOLEAN
  BY <1>1 DEF SyncMachine, ScanTimeoutAction, MlmeScanReqAction, MlmeJoinReqAction,
     MlmeStartReqAction, PeerBeaconAtJoinAction, BeaconTimeoutAtJoinAction, PeerBeacon,
     InvalidStateWhenSync, SyncDrops, SettingOK
<1>10. MachinesOK'
  BY <1>1, <1>3, <1>4, <1>5 DEF MachinesOK
<1>11. TargetOK'
  <2>1. cntl \in Trying => bssIdx < tab'.nr
    BY <1>1, <1>2, <1>7, <1>3, TabWritten DEF TargetOK, TabFields
  <2> QED BY <1>1, <1>3, <1>4, <1>6, <1>7, <2>1 DEF TargetOK
<1>12. NetOK' /\ SettingOK' /\ HistoryOK'
  BY <1>1, <1>3, <1>4, <1>8, <1>9 DEF NetOK, SettingOK, HistoryOK
<1> QED BY <1>10, <1>11, <1>12

LEMMA AuthTyped ==
    ASSUME TypeInv, NEW m \in Messages, AuthMachine(m), scenario' = scenario
    PROVE  (MachinesOK /\ TargetOK /\ NetOK /\ SettingOK /\ HistoryOK)'
<1>1. /\ ContextOK /\ MachinesOK /\ TargetOK /\ NetOK /\ SettingOK /\ HistoryOK
  BY TypeParts
<1>2. /\ NBss' = NBss /\ NChannels' = NChannels /\ Bss' = Bss
      /\ Addresses' = Addresses /\ AuxFields' = AuxFields /\ TabFields' = TabFields
  BY SameScenario
<1>3. /\ UNCHANGED <<cntl, sync, chan, assoc, tab, bssIdx, link, connected, bssid, micErr>>
      /\ UNCHANGED <<blocked, autoSsid, suspended>>
  BY DEF AuthMachine, net, setting
<1>4. auth' \in {"IDLE", "WAIT_SEQ2", "WAIT_SEQ4"}
  BY <1>1 DEF AuthMachine, MlmeAuthReqAction, PeerAuthRspAtSeq2Action, PeerAuthRspAtSeq4Action,
     AuthTimeoutAction, InvalidStateWhenAuth, AuthDrops, AuthDone, MachinesOK
<1>5. aux' \in AuxFields
  <2>1. aux \in AuxFields
    BY <1>1 DEF TargetOK
  <2>2. CASE MlmeAuthReqAction(m)
    <3>1. m.x \in Addresses /\ m.v \in Algs
      BY <2>2, MessageKinds DEF MlmeAuthReqAction
    <3>2. [aux EXCEPT !.bssid = m.x, !.alg = m.v] \in AuxFields
      BY <2>1, <3>1, AuxWritten
    <3>3. aux' = aux \/ aux' = [aux EXCEPT !.bssid = m.x, !.alg = m.v]
      BY <2>2 DEF MlmeAuthReqAction
    <3> QED BY <2>1, <3>2, <3>3
  <2>3. CASE ~MlmeAuthReqAction(m)
    BY <2>1, <2>3 DEF AuthMachine, PeerAuthRspAtSeq2Action, PeerAuthRspAtSeq4Action,
       AuthTimeoutAction, InvalidStateWhenAuth, AuthDrops
  <2> QED BY <2>2, <2>3
<1>6. authOk' \in Bss \cup {NoBss} /\ assocOk' \in Bss \cup {NoBss} /\ overruns' = overruns
  <2>1. m.t \in {"AUTH_SEQ2", "AUTH_SEQ4"} => m.x \in Bss
    BY MessageKinds DEF FrameTypes
  <2> QED
    BY <1>1, <2>1 DEF AuthMachine, MlmeAuthReqAction, PeerAuthRspAtSeq2Action,
       PeerAuthRspAtSeq4Action, AuthTimeoutAction, InvalidStateWhenAuth, AuthDrops, HistoryOK,
       history, accepted
<1> QED
  BY <1>1, <1>2, <1>3, <1>4, <1>5, <1>6
  DEF MachinesOK, TargetOK, NetOK, SettingOK, HistoryOK

LEMMA DeauthTyped ==
    ASSUME TypeInv, NEW m \in Messages, PeerDeauthAction(m), scenario' = scenario
    PROVE  (MachinesOK /\ TargetOK /\ NetOK /\ SettingOK /\ HistoryOK)'
<1>1. /\ ContextOK /\ MachinesOK /\ TargetOK /\ NetOK /\ SettingOK /\ HistoryOK
  BY TypeParts
<1>2. /\ NBss' = NBss /\ NChannels' = NChannels /\ Bss' = Bss
      /\ Addresses' = Addresses /\ AuxFields' = AuxFields /\ TabFields' = TabFields
  BY SameScenario
<1>3. UNCHANGED <<cntl, sync, chan, auth, assoc, aux, tab, bssIdx, blocked, autoSsid, suspended,
                  authOk, assocOk, overruns>>
  BY DEF PeerDeauthAction, machines, target, setting, history, accepted
<1>4. /\ link' \in {"down", "infra", "adhoc"} /\ connected' \in BOOLEAN
      /\ bssid' \in Addresses /\ micErr' \in BOOLEAN
  BY <1>1 DEF PeerDeauthAction, LinkDown, net, NetOK, Addresses
<1> QED
  BY <1>1, <1>2, <1>3, <1>4 DEF MachinesOK, TargetOK, NetOK, SettingOK, HistoryOK

LEMMA AssocTyped ==
    ASSUME TypeInv, NEW m \in Messages, AssocMachine(m), scenario' = scenario
    PROVE  (MachinesOK /\ TargetOK /\ NetOK /\ SettingOK /\ HistoryOK)'
<1>1. /\ ContextOK /\ MachinesOK /\ TargetOK /\ NetOK /\ SettingOK /\ HistoryOK
  BY TypeParts
<1>2. /\ NBss' = NBss /\ NChannels' = NChannels /\ Bss' = Bss
      /\ Addresses' = Addresses /\ AuxFields' = AuxFields /\ TabFields' = TabFields
  BY SameScenario
<1>3. UNCHANGED <<cntl, sync, auth, chan, tab, bssIdx, blocked, autoSsid, suspended>>
  BY DEF AssocMachine, setting
<1>4. assoc' \in {"IDLE", "WAIT_RSP", "DISASSOC_WAIT_RSP"}
  BY <1>1 DEF AssocMachine, MlmeAssocReqAction, MlmeDisassocReqAction, PeerAssocRspAction,
     PeerDisassocAction, AssocTimeoutAction, DisassocTimeoutAction, InvalidStateWhenAssoc,
     AssocDrops, AssocDone, MachinesOK
<1>5. aux' \in AuxFields
  <2>1. aux \in AuxFields
    BY <1>1 DEF TargetOK
  <2>2. CASE MlmeAssocReqAction(m)
    <3>1. m.x \in Addresses
      BY <2>2, MessageKinds DEF MlmeAssocReqAction
    <3> QED BY <2>1, <2>2, <3>1, AuxWritten DEF MlmeAssocReqAction
  <2>3. CASE ~MlmeAssocReqAction(m)
    BY <2>1, <2>3 DEF AssocMachine, MlmeDisassocReqAction, PeerAssocRspAction,
     PeerDisassocAction, AssocTimeoutAction, DisassocTimeoutAction, InvalidStateWhenAssoc, AssocDrops
  <2> QED BY <2>2, <2>3
<1>6. authOk' = authOk /\ assocOk' \in Bss \cup {NoBss} /\ overruns' = overruns
  <2>1. m.t = "ASSOC_RSP" => m.x \in Bss
    BY MessageKinds DEF FrameTypes
  <2> QED
    BY <1>1, <2>1 DEF AssocMachine, MlmeAssocReqAction, MlmeDisassocReqAction, PeerAssocRspAction,
       PeerDisassocAction, AssocTimeoutAction, DisassocTimeoutAction, InvalidStateWhenAssoc,
       AssocDrops, HistoryOK, history, accepted
<1>7. /\ link' \in {"down", "infra", "adhoc"} /\ connected' \in BOOLEAN
      /\ bssid' \in Addresses /\ micErr' \in BOOLEAN
  BY <1>1 DEF AssocMachine, MlmeAssocReqAction, MlmeDisassocReqAction, PeerAssocRspAction,
     PeerDisassocAction, AssocTimeoutAction, DisassocTimeoutAction, InvalidStateWhenAssoc,
     AssocDrops, LinkDown, net, NetOK, Addresses
<1> QED
  BY <1>1, <1>2, <1>3, <1>4, <1>5, <1>6, <1>7
  DEF MachinesOK, TargetOK, NetOK, SettingOK, HistoryOK

\* What CNTL makes of its candidates: it tries one only if BssIdx is that of one.
LEMMA CntlTarget ==
    ASSUME TypeInv, NEW m \in Messages, MlmeCntlMachinePerformAction(m)
    PROVE  /\ cntl' \in CntlStates
           /\ tab' \in TabFields /\ bssIdx' \in 0 .. NBss
           /\ cntl' \in Trying => bssIdx' < tab'.nr
<1> DEFINE Goal == /\ cntl' \in CntlStates
                   /\ tab' \in TabFields /\ bssIdx' \in 0 .. NBss
                   /\ cntl' \in Trying => bssIdx' < tab'.nr
<1>1. /\ NBss \in Nat \ {0} /\ 0 \in 0 .. NBss
      /\ tab \in TabFields /\ tab.nr \in 0 .. NBss /\ bssIdx \in 0 .. NBss
      /\ cntl \in CntlStates /\ (cntl \in Trying => bssIdx < tab.nr)
      /\ cntl \in Trying => bssIdx + 1 \in 0 .. NBss
  BY Typed DEF TypeInv
<1>2. \A s \in Tables : Table(s) \in TabFields /\ Table(s).nr = Len(s) /\ Len(s) \in 0 .. NBss
  BY Typed, TabWritten, ScenarioFacts
<1>3. \A i, nr : IterateOnBssTab(i, nr) =>
         \/ i < nr /\ cntl' = "WAIT_JOIN"
         \/ cntl' \in {"WAIT_START", "IDLE"}
  BY DEF IterateOnBssTab, Ask
<1>4. \A r, s : Ask(r, s) => cntl' = s
  BY DEF Ask
<1>5. \A s : Disassociate(s) => cntl' = s
  BY DEF Disassociate, Ask
<1>6. cntl \in Trying /\ TryNextBss => Goal
  BY <1>1, <1>3 DEF TryNextBss, CntlStates, Trying
<1>7. ASSUME NEW alg, NEW state \in {"WAIT_AUTH", "WAIT_AUTH2"}, cntl \in Trying, AskAuth(alg, state)
      PROVE  Goal
  BY <1>7, <1>1, <1>4 DEF AskAuth, target, CntlStates, Trying
<1>8. cntl \in Trying /\ AskAssoc => Goal
  BY <1>1, <1>4 DEF AskAssoc, target, CntlStates, Trying
<1>9. CASE CntlOidSsidProc(m)
  <2>1. PICK s \in Tables :
          /\ tab' = Table(s)
          /\ \/ cntl' \in {"WAIT_DISASSOC", "IDLE", "WAIT_OID_LIST_SCAN"} /\ bssIdx' = bssIdx
             \/ IterateOnBssTab(0, Len(s)) /\ bssIdx' = 0
    BY <1>9, <1>4, <1>5 DEF CntlOidSsidProc
  <2>2. tab' \in TabFields /\ tab'.nr = Len(s) /\ Len(s) \in 0 .. NBss
    BY <2>1, <1>2
  <2>3. CASE cntl' \in {"WAIT_DISASSOC", "IDLE", "WAIT_OID_LIST_SCAN"} /\ bssIdx' = bssIdx
    BY <2>2, <2>3, <1>1 DEF CntlStates, Trying
  <2>4. CASE IterateOnBssTab(0, Len(s)) /\ bssIdx' = 0
    BY <2>2, <2>4, <1>1, <1>3 DEF CntlStates, Trying
  <2> QED BY <2>1, <2>3, <2>4
<1>10. CASE CntlOidRTBssidProc(m)
  <2>1. CASE cntl' = "IDLE" /\ tab' = tab /\ bssIdx' = bssIdx
    BY <2>1, <1>1 DEF CntlStates, Trying
  <2>2. CASE /\ tab' = [nr |-> 1, entry |-> [tab.entry EXCEPT ![0] = m.x]] /\ bssIdx' = 0
             /\ cntl' \in {"IDLE", "WAIT_DISASSOC", "WAIT_JOIN"}
    <3>1. m.x \in Bss
      BY <1>10, MessageKinds DEF CntlOidRTBssidProc
    <3>2. tab' \in TabFields /\ tab'.nr = 1
      BY <2>2, <3>1, Typed, TabWritten
    <3> QED BY <2>2, <3>2, <1>1 DEF CntlStates, Trying
  <2> QED BY <1>10, <1>4, <1>5, <2>1, <2>2 DEF CntlOidRTBssidProc
<1>11. CASE CntlOidScanProc(m)
  BY <1>11, <1>1, <1>4 DEF CntlOidScanProc, target, CntlStates, Trying
<1>12. CASE CntlIdleProc(m)
  <2>1. CASE CntlMlmeRoamingProc(m)
    <3>1. PICK s \in Tables : tab' = Table(s) /\ IterateOnBssTab(0, Len(s)) /\ bssIdx' = 0
      BY <2>1 DEF CntlMlmeRoamingProc
    <3>2. tab' \in TabFields /\ tab'.nr = Len(s)
      BY <3>1, <1>2
    <3> QED BY <3>1, <3>2, <1>1, <1>3 DEF CntlStates, Trying
  <2>2. CASE cntl' = "WAIT_OID_DISASSOC" /\ UNCHANGED target
    BY <2>2, <1>1 DEF target, CntlStates, Trying
  <2> QED BY <1>12, <1>5, <2>1, <2>2 DEF CntlIdleProc
<1>13. CASE CntlWaitDisassocProc(m)
  <2>1. tab' = tab /\ \/ cntl' = "WAIT_START" /\ bssIdx' = bssIdx
                      \/ IterateOnBssTab(0, tab.nr) /\ bssIdx' = 0
    BY <1>13, <1>4 DEF CntlWaitDisassocProc
  <2> QED BY <2>1, <1>1, <1>3 DEF CntlStates, Trying
<1>14. CASE CntlWaitOidDisassoc(m)
  BY <1>14, <1>1, <1>4 DEF CntlWaitOidDisassoc, target, CntlStates, Trying
<1>15. CASE CntlWaitJoinProc(m)
  <2>1. cntl \in Trying
    BY <1>15 DEF CntlWaitJoinProc, Trying
  <2>2. CASE cntl' = "IDLE" /\ UNCHANGED target
    BY <2>2, <1>1 DEF target, CntlStates, Trying
  <2> QED BY <1>15, <1>4, <1>6, <1>7, <2>1, <2>2 DEF CntlWaitJoinProc
<1>16. CASE CntlWaitStartProc(m)
  BY <1>16, <1>1, <1>4 DEF CntlWaitStartProc, target, CntlStates, Trying
<1>17. CASE CntlWaitAuthProc(m)
  <2>1. cntl \in Trying
    BY <1>17 DEF CntlWaitAuthProc, Trying
  <2> QED BY <1>17, <1>7, <1>8, <2>1 DEF CntlWaitAuthProc
<1>18. CASE CntlWaitAuthProc2(m)
  <2>1. cntl \in Trying
    BY <1>18 DEF CntlWaitAuthProc2, Trying
  <2> QED BY <1>18, <1>6, <1>7, <1>8, <2>1 DEF CntlWaitAuthProc2
<1>19. CASE CntlWaitAssocProc(m)
  <2>1. cntl \in Trying
    BY <1>19 DEF CntlWaitAssocProc, Trying
  <2>2. CASE cntl' = "IDLE" /\ UNCHANGED target
    BY <2>2, <1>1 DEF target, CntlStates, Trying
  <2> QED BY <1>19, <1>4, <1>6, <2>1, <2>2 DEF CntlWaitAssocProc
<1>20. CASE CntlWaitScan(m)
  BY <1>20, <1>1, <1>4 DEF CntlWaitScan, target, CntlStates, Trying
<1>21. CASE CntlDrops(m)
  BY <1>21, <1>1 DEF CntlDrops, target
<1> QED
  BY <1>9, <1>10, <1>11, <1>12, <1>13, <1>14, <1>15, <1>16, <1>17, <1>18, <1>19, <1>20, <1>21
  DEF MlmeCntlMachinePerformAction

LEMMA CntlTyped ==
    ASSUME TypeInv, NEW m \in Messages, MlmeCntlMachinePerformAction(m), scenario' = scenario
    PROVE  (MachinesOK /\ TargetOK /\ NetOK /\ SettingOK /\ HistoryOK)'
<1>1. /\ ContextOK /\ MachinesOK /\ TargetOK /\ NetOK /\ SettingOK /\ HistoryOK
  BY TypeParts
<1>2. /\ NBss' = NBss /\ NChannels' = NChannels /\ Bss' = Bss
      /\ Addresses' = Addresses /\ AuxFields' = AuxFields /\ TabFields' = TabFields
  BY SameScenario
<1>3. UNCHANGED <<sync, auth, assoc, chan, blocked>>
  BY DEF MlmeCntlMachinePerformAction, machines
<1>4. HistoryOK'
  <2>1. authOk' \in Bss \cup {NoBss} /\ assocOk' \in Bss \cup {NoBss}
    BY <1>1 DEF MlmeCntlMachinePerformAction, HistoryOK, accepted
  <2>2. overruns' = overruns \/ (overruns < MaxOverruns /\ overruns' = overruns + 1)
    BY DEF MlmeCntlMachinePerformAction
  <2>3. overruns' \in 0 .. MaxOverruns
    BY <1>1, <2>2 DEF HistoryOK, MaxOverruns
  <2> QED BY <1>2, <2>1, <2>3 DEF HistoryOK
<1>5. aux' \in AuxFields
  <2>1. BssType \in {"infra", "adhoc", "any"} /\ NoBss \in Addresses /\ aux \in AuxFields
    BY <1>1, ScenarioFacts DEF ContextOK, TargetOK, Addresses
  <2>2. CASE CntlOidSsidProc(m)
    <3>1. [aux EXCEPT !.bssid = NoBss, !.type = BssType] \in AuxFields
      BY <2>1, AuxWritten
    <3> QED BY <2>2, <3>1 DEF CntlOidSsidProc
  <2>3. CASE CntlOidRTBssidProc(m)
    <3>1. m.x \in Addresses
      BY <2>3, MessageKinds DEF CntlOidRTBssidProc, Addresses
    <3>2. [aux EXCEPT !.bssid = m.x, !.type = BssType] \in AuxFields
      BY <2>1, <3>1, AuxWritten
    <3> QED BY <2>3, <3>2 DEF CntlOidRTBssidProc
  <2>4. CASE ~CntlOidSsidProc(m) /\ ~CntlOidRTBssidProc(m)
    <3>1. aux' = aux
      BY <2>4 DEF MlmeCntlMachinePerformAction, CntlOidScanProc, CntlIdleProc, CntlMlmeRoamingProc,
         CntlWaitDisassocProc, CntlWaitOidDisassoc, CntlWaitJoinProc, CntlWaitStartProc,
         CntlWaitAuthProc, CntlWaitAuthProc2, CntlWaitAssocProc, CntlWaitScan, CntlDrops,
         TryNextBss, AskAuth, AskAssoc, target
    <3> QED BY <2>1, <3>1
  <2> QED BY <2>2, <2>3, <2>4
<1>6. /\ link' \in {"down", "infra", "adhoc"} /\ connected' \in BOOLEAN
      /\ bssid' \in Addresses /\ micErr' \in BOOLEAN
  <2>1. aux.bssid \in Addresses /\ NoBss \in Addresses
    BY Typed DEF Addresses
  <2>2. UNCHANGED net \/ LinkDown \/ DropAdhoc \/ LinkUp("adhoc") \/ LinkUp("infra")
    BY DEF MlmeCntlMachinePerformAction, CntlOidSsidProc, CntlOidRTBssidProc, CntlOidScanProc,
       CntlIdleProc, CntlMlmeRoamingProc, CntlWaitDisassocProc, CntlWaitOidDisassoc,
       CntlWaitJoinProc, CntlWaitStartProc, CntlWaitAuthProc, CntlWaitAuthProc2,
       CntlWaitAssocProc, CntlWaitScan, CntlDrops, TryNextBss, AskAuth, AskAssoc
  <2> QED BY <2>1, <2>2, <1>1 DEF net, NetOK, LinkDown, DropAdhoc, LinkUp
<1>7. autoSsid' \in BOOLEAN /\ suspended' \in BOOLEAN
  BY <1>1 DEF SettingOK, MlmeCntlMachinePerformAction, CntlOidSsidProc, CntlOidRTBssidProc,
     CntlOidScanProc, CntlIdleProc, CntlMlmeRoamingProc, CntlWaitDisassocProc, CntlWaitOidDisassoc,
     CntlWaitJoinProc, CntlWaitStartProc, CntlWaitAuthProc, CntlWaitAuthProc2,
     CntlWaitAssocProc, CntlWaitScan, CntlDrops, TryNextBss, AskAuth, AskAssoc
<1>8. TargetOK'
  BY <1>2, <1>5, CntlTarget DEF TargetOK
<1> QED
  BY <1>1, <1>2, <1>3, <1>4, <1>6, <1>7, <1>8 DEF MachinesOK, NetOK, SettingOK, HistoryOK

Runners == {"none", "softirq", "user", "restart"} \cup MachineTimers
Notes == {"WAIT_OID_LIST_SCAN", "WAIT_DISASSOC"}

LEMMA JobFacts ==
    /\ NoJob \in Jobs
    /\ \A x \in Requests, s \in {"none", "call"} \cup Notes : [post |-> <<x>>, set |-> s] \in Jobs
    /\ \A j \in Jobs : /\ j.set \in {"none", "call"} \cup Notes
                       /\ j.post \in Seq(Requests) /\ Len(j.post) <= 1
                       /\ j.post # <<>> => Head(j.post) \in Requests
                       /\ [j EXCEPT !.post = <<>>] \in Jobs
<1>1. NoJob \in Jobs
  BY DEF NoJob, Jobs
<1>2. ASSUME NEW x \in Requests, NEW s \in {"none", "call"} \cup Notes
      PROVE  [post |-> <<x>>, set |-> s] \in Jobs
  <2>1. <<x>> \in Seq(Requests) /\ Len(<<x>>) <= 1
    OBVIOUS
  <2> QED BY <2>1 DEF Jobs, Notes
<1>3. ASSUME NEW j \in Jobs
      PROVE  /\ j.set \in {"none", "call"} \cup Notes
             /\ j.post \in Seq(Requests) /\ Len(j.post) <= 1
             /\ j.post # <<>> => Head(j.post) \in Requests
             /\ [j EXCEPT !.post = <<>>] \in Jobs
  <2>1. /\ j \in [post : Seq(Requests), set : {"none", "call"} \cup Notes]
        /\ Len(j.post) <= 1
    BY DEF Jobs, Notes
  <2>2. j.post \in Seq(Requests) /\ (j.post # <<>> => Head(j.post) \in Requests)
    BY <2>1
  <2>3. <<>> \in Seq(Requests) /\ Len(<<>>) <= 1
    OBVIOUS
  <2>4. [j EXCEPT !.post = <<>>] \in [post : Seq(Requests), set : {"none", "call"} \cup Notes]
        /\ [j EXCEPT !.post = <<>>].post = <<>>
    BY <2>1, <2>3
  <2>5. [j EXCEPT !.post = <<>>] \in Jobs
    BY <2>3, <2>4 DEF Jobs, Notes
  <2> QED BY <2>1, <2>2, <2>5
<1> QED BY <1>1, <1>2, <1>3

LEMMA EnqueueTyped ==
    ASSUME TypeInv, NEW x \in Messages, Enqueue(x)
    PROVE  /\ queue' \in Seq(Messages) /\ Len(queue') <= MaxLen
           /\ mishap' \subseteq {"lost", "rearmed", "selfWait"}
           /\ mishap' \subseteq mishap \cup {"lost"}
<1>1. queue \in Seq(Messages) /\ Len(queue) <= MaxLen /\ mishap \subseteq {"lost", "rearmed", "selfWait"}
  BY DEF TypeInv, TypeOK
<1>2. /\ queue' \in Seq(Messages) /\ Len(queue') <= MaxLen
      /\ mishap' \subseteq mishap \cup {"lost"}
  BY <1>1, QueueEntered
<1> QED BY <1>1, <1>2

LEMMA CallTyped ==
    ASSUME runner \in Runners, NEW r \in Runners, CallHandler(r)
    PROVE  runner' \in Runners
BY DEF CallHandler

LEMMA NotesTyped ==
    ASSUME TypeInv, NEW state \in {"none", "call"} \cup Notes, WriteCntl(state)
    PROVE  /\ cntl' \in CntlStates /\ (cntl' \in Trying => cntl' = cntl)
           /\ blocked' \in BOOLEAN
<1>1. cntl \in CntlStates /\ blocked \in BOOLEAN
  BY DEF TypeInv, TypeOK
<1> QED BY <1>1 DEF WriteCntl, CntlStates, Trying, Notes

LEMMA DecideTyped ==
    ASSUME TypeInv, NEW p \in Posters, NEW x \in Requests, NEW state \in {"none"} \cup Notes,
           Decide(p, x, state)
    PROVE  /\ queue' \in Seq(Messages) /\ Len(queue') <= MaxLen
           /\ mishap' \subseteq {"lost", "rearmed", "selfWait"}
           /\ mishap' \subseteq mishap \cup {"lost"}
           /\ runner' \in Runners
           /\ cntl' \in CntlStates /\ (cntl' \in Trying => cntl' = cntl)
           /\ blocked' \in BOOLEAN
           /\ job' \in [Posters -> Jobs]
<1>1. /\ queue \in Seq(Messages) /\ Len(queue) <= MaxLen
      /\ mishap \subseteq {"lost", "rearmed", "selfWait"}
      /\ runner \in Runners /\ cntl \in CntlStates /\ blocked \in BOOLEAN
      /\ job \in [Posters -> Jobs]
  BY DEF TypeInv, TypeOK, Runners
<1>2. x \in Messages
  BY PeerMessages
<1>3. CASE Smp
  <2>1. job' = [job EXCEPT ![p] = [post |-> <<x>>, set |-> state]]
        /\ UNCHANGED <<queue, runner, cntl, blocked, mishap>>
    BY <1>3 DEF Decide
  <2>2. [post |-> <<x>>, set |-> state] \in Jobs
    BY JobFacts
  <2> QED BY <1>1, <2>1, <2>2
<1>4. CASE ~Smp
  <2>1. /\ Enqueue(x) /\ WriteCntl(state) /\ job' = job
        /\ CallHandler("softirq") \/ UNCHANGED runner
    BY <1>4 DEF Decide
  <2>2. runner' \in Runners
    BY <2>1, <1>1, CallTyped DEF Runners
  <2> QED BY <1>1, <1>2, <2>1, <2>2, EnqueueTyped, NotesTyped
<1> QED BY <1>3, <1>4

LEMMA TypeInit == Init => TypeInv
<1> SUFFICES ASSUME Init PROVE TypeInv
  OBVIOUS
<1>1. scenario \in DOMAIN Scenarios
  BY DEF Init
<1>2. NBss \in Nat \ {0} /\ NChannels \in Nat \ {0} /\ MaxOids \in Nat
  BY <1>1, ScenarioFacts
<1>3. ContextOK /\ SettingOK /\ HistoryOK
  <2>1. 0 \in 0 .. MaxOverruns
    BY DEF MaxOverruns
  <2> QED BY <1>1, <2>1 DEF Init, ContextOK, SettingOK, HistoryOK
<1>8. MachinesOK
  BY <1>2 DEF Init, MachinesOK
<1>4. QueueOK
  BY AddressAssumption DEF Init, QueueOK
<1>5. NetOK
  BY DEF Init, NetOK, Addresses
<1>6. RequestsOK
  BY <1>2, JobFacts DEF Init, RequestsOK
<1>7. TargetOK
  <2>1. Table(<<>>) = [nr |-> 0, entry |-> [i \in 0 .. NBss - 1 |-> NoBss]]
    BY <1>2 DEF Table
  <2>2. Table(<<>>) \in TabFields
    BY <2>1, <1>2 DEF TabFields
  <2>3. [bssid |-> NoBss, type |-> "adhoc", alg |-> "open"] \in AuxFields
    BY DEF AuxFields, Addresses, Algs
  <2> QED BY <2>2, <2>3, <1>2 DEF Init, TargetOK, CntlStates, Trying
<1> QED BY <1>3, <1>4, <1>5, <1>6, <1>7, <1>8, TypeParts

LEMMA DispatchTyped == TypeInv /\ Dispatch => TypeInv'
<1> SUFFICES ASSUME TypeInv, Dispatch PROVE TypeInv'
  OBVIOUS
<1> DEFINE m == Head(queue)
<1>1. m \in Messages /\ scenario' = scenario
  BY DispatchServed DEF Dispatch
<1>2. \/ MlmeCntlMachinePerformAction(m) \/ SyncMachine(m) \/ AuthMachine(m)
      \/ PeerDeauthAction(m) \/ AssocMachine(m)
  BY DEF Dispatch
<1> HIDE DEF m
<1>3. (MachinesOK /\ TargetOK /\ NetOK /\ SettingOK /\ HistoryOK)'
  BY <1>1, <1>2, CntlTyped, SyncTyped, AuthTyped, DeauthTyped, AssocTyped
<1>4. QueueOK'
  BY QueueTyped
<1>5. (ContextOK /\ RequestsOK)'
  <2>1. ContextOK /\ RequestsOK
    BY TypeParts
  <2>2. Jobs' = Jobs /\ MaxOids' = MaxOids
    BY <1>1, SameScenario
  <2> QED BY <2>1, <2>2 DEF ContextOK, RequestsOK, Dispatch
<1> QED BY <1>3, <1>4, <1>5, TypePartsNext

\* What is left as it is stays typed.
LEMMA SameTyped ==
    ASSUME TypeInv, scenario' = scenario
    PROVE  /\ UNCHANGED machines => MachinesOK'
           /\ (UNCHANGED target /\ cntl' \in CntlStates /\ (cntl' \in Trying => cntl' = cntl)) => TargetOK'
           /\ UNCHANGED net => NetOK'
           /\ UNCHANGED setting => SettingOK'
           /\ UNCHANGED history => HistoryOK'
           /\ UNCHANGED <<queue, armed, mishap>> => QueueOK'
           /\ UNCHANGED <<job, asked>> => RequestsOK'
           /\ runner' \in Runners => ContextOK'
<1>1. /\ ContextOK /\ QueueOK /\ MachinesOK /\ TargetOK /\ NetOK /\ SettingOK /\ RequestsOK /\ HistoryOK
  BY TypeParts
<1>2. /\ Bss' = Bss /\ NBss' = NBss /\ NChannels' = NChannels /\ MaxOids' = MaxOids
      /\ Addresses' = Addresses /\ Messages' = Messages /\ Jobs' = Jobs
      /\ AuxFields' = AuxFields /\ TabFields' = TabFields
  BY SameScenario
<1>3. /\ UNCHANGED machines => MachinesOK'
      /\ (UNCHANGED target /\ cntl' \in CntlStates /\ (cntl' \in Trying => cntl' = cntl)) => TargetOK'
  BY <1>1, <1>2 DEF MachinesOK, machines, TargetOK, target
<1>4. /\ UNCHANGED net => NetOK'
      /\ UNCHANGED setting => SettingOK'
      /\ UNCHANGED history => HistoryOK'
  BY <1>1, <1>2 DEF NetOK, net, SettingOK, setting, HistoryOK, history, accepted
<1>5. /\ UNCHANGED <<queue, armed, mishap>> => QueueOK'
      /\ UNCHANGED <<job, asked>> => RequestsOK'
      /\ runner' \in Runners => ContextOK'
  BY <1>1, <1>2 DEF QueueOK, RequestsOK, ContextOK, Runners
<1> QED BY <1>3, <1>4, <1>5

LEMMA RestTyped ==
    ASSUME TypeInv, scenario' = scenario, UNCHANGED rest
    PROVE  MachinesOK' /\ TargetOK' /\ NetOK' /\ SettingOK' /\ HistoryOK'
<1>1. UNCHANGED <<cntl, machines, target, net, setting, history>>
  BY DEF rest
<1>2. cntl \in CntlStates
  BY Typed
<1> QED BY <1>1, <1>2, SameTyped

LEMMA QueueOKEntered ==
    ASSUME TypeInv, scenario' = scenario, NEW x \in Messages, Enqueue(x), armed' \subseteq armed
    PROVE  QueueOK'
<1>1. Messages' = Messages
  BY SameScenario
<1>2. armed \subseteq MachineTimers
  BY Typed
<1> QED BY <1>1, <1>2, EnqueueTyped DEF QueueOK

\* The handler entered and left, frames, timers and the calls of the user.
LEMMA ArrivalTyped ==
    ASSUME TypeInv,
           \/ EnterHandler \/ LeaveHandler \/ RestartReset \/ UserCall
           \/ \E x \in Frames : MlmeEnqueueForRecv(x)
           \/ \E t \in MachineTimers : Fire(t)
           \/ \E x \in Oids : UserRequest(x)
    PROVE  TypeInv'
<1>1. runner \in Runners /\ cntl \in CntlStates /\ job \in [Posters -> Jobs] /\ asked \in 0 .. MaxOids
      /\ armed \subseteq MachineTimers /\ scenario \in DOMAIN Scenarios
  BY DEF TypeInv, TypeOK, Runners
<1>2. scenario' = scenario
  BY DEF EnterHandler, LeaveHandler, RestartReset, UserCall, MlmeEnqueueForRecv, Fire, UserRequest
<1>3. /\ Messages' = Messages /\ Jobs' = Jobs /\ MaxOids' = MaxOids /\ NChannels' = NChannels
      /\ NBss' = NBss /\ Bss' = Bss
      /\ NChannels \in Nat \ {0} /\ MaxOids \in Nat /\ NoJob \in Jobs
  BY <1>1, <1>2, SameScenario, ScenarioFacts, JobFacts
<1>4. CASE EnterHandler \/ LeaveHandler
  <2>1. UNCHANGED <<queue, armed, mishap, job, asked, rest>> /\ runner' \in Runners
    BY <1>4 DEF EnterHandler, LeaveHandler, Runners
  <2> QED BY <2>1, <1>2, RestTyped, SameTyped, TypePartsNext
<1>5. CASE RestartReset
  <2>1. QueueOK'
    BY <1>5, <1>3, TypeParts DEF RestartReset, QueueOK
  <2>2. MachinesOK'
    BY <1>5, <1>3 DEF RestartReset, MachinesOK
  <2>3. TargetOK' /\ NetOK' /\ RequestsOK' /\ ContextOK'
    BY <1>5, <1>2, SameTyped DEF RestartReset, CntlStates, Trying, Runners
  <2>4. SettingOK' /\ HistoryOK'
    <3>1. 0 \in 0 .. MaxOverruns
      BY DEF MaxOverruns
    <3> QED BY <1>5, <1>3, <3>1, TypeParts DEF RestartReset, SettingOK, HistoryOK
  <2> QED BY <2>1, <2>2, <2>3, <2>4, TypePartsNext
<1>6. CASE UserCall
  <2>1. UNCHANGED <<queue, armed, mishap, asked, rest>> /\ runner' \in Runners
        /\ job' = [job EXCEPT !["user"] = NoJob]
    BY <1>6, <1>1 DEF UserCall, Runners
  <2>2. RequestsOK'
    BY <2>1, <1>1, <1>3 DEF RequestsOK
  <2> QED BY <2>1, <2>2, <1>2, RestTyped, SameTyped, TypePartsNext
<1>7. ASSUME NEW x \in Frames, MlmeEnqueueForRecv(x) PROVE TypeInv'
  <2>1. Enqueue(x) /\ CallHandler("softirq") /\ UNCHANGED <<asked, armed, job, rest>>
    BY <1>7 DEF MlmeEnqueueForRecv
  <2>2. x \in Messages
    BY PeerMessages
  <2>3. QueueOK'
    BY <2>1, <2>2, <1>2, QueueOKEntered
  <2>4. runner' \in Runners
    BY <2>1, <1>1, CallTyped DEF Runners
  <2> QED BY <2>1, <2>3, <2>4, <1>2, RestTyped, SameTyped, TypePartsNext
<1>8. ASSUME NEW t \in MachineTimers, Fire(t) PROVE TypeInv'
  <2> DEFINE x == Signal(TimeoutOf[t])
  <2>1. Enqueue(x) /\ armed' \subseteq armed /\ UNCHANGED <<asked, job, rest>>
        /\ (CallHandler(t) \/ CallHandler("softirq"))
    BY <1>8 DEF Fire
  <2>2. TimeoutOf[t] \in PlainTypes
    BY TimeoutNames DEF PlainTypes, Timeouts, MachineTimers
  <2>3. x \in Messages
    BY <2>2, PlainMessage DEF Signal
  <2> HIDE DEF x
  <2>4. QueueOK'
    BY <2>1, <2>3, <1>2, QueueOKEntered
  <2>5. runner' \in Runners
    BY <2>1, <1>1, CallTyped DEF Runners
  <2> QED BY <2>1, <2>4, <2>5, <1>2, RestTyped, SameTyped, TypePartsNext
<1>9. ASSUME NEW x \in Oids, UserRequest(x) PROVE TypeInv'
  <2>1. /\ asked < MaxOids /\ asked' = asked + 1
        /\ job' = [job EXCEPT !["user"] = [post |-> <<x>>, set |-> "call"]]
        /\ UNCHANGED <<armed, mishap, rest>>
        /\ \/ runner' = "restart" /\ queue' = <<>>
           \/ UNCHANGED <<runner, queue>>
    BY <1>9 DEF UserRequest
  <2>2. x \in Requests
    BY DEF Requests
  <2>3. [post |-> <<x>>, set |-> "call"] \in Jobs
    BY <2>2, JobFacts
  <2>4. RequestsOK'
    <3> DEFINE j == [post |-> <<x>>, set |-> "call"]
    <3>1. j \in Jobs /\ job' = [job EXCEPT !["user"] = j]
      BY <2>1, <2>3
    <3> HIDE DEF j
    <3>2. job' \in [Posters -> Jobs]
      BY <3>1, <1>1
    <3>3. asked' \in 0 .. MaxOids
      BY <2>1, <1>1, <1>3
    <3> QED BY <3>2, <3>3, <1>3 DEF RequestsOK
  <2>5. QueueOK'
    <3>1. MaxLen \in Nat /\ QueueOK /\ UNCHANGED <<armed, mishap>>
      BY <2>1, AddressAssumption, TypeParts
    <3>2. CASE queue' = <<>>
      BY <3>1, <3>2, <1>3 DEF QueueOK
    <3>3. CASE queue' = queue
      BY <3>1, <3>3, <1>3 DEF QueueOK
    <3> QED BY <2>1, <3>2, <3>3
  <2>6. runner' \in Runners
    BY <2>1, <1>1 DEF Runners
  <2> QED BY <2>1, <2>4, <2>5, <2>6, <1>2, RestTyped, SameTyped, TypePartsNext
<1> QED BY <1>4, <1>5, <1>6, <1>7, <1>8, <1>9

\* Who posts and notes, and the signals of the periodic task.
LEMMA PosterTyped ==
    ASSUME TypeInv,
           \/ \E p \in Posters : Post(p) \/ SetCntl(p)
           \/ \E p \in {"periodic", "tx"} : MicCountermeasure(p)
           \/ PeriodicExec \/ MicError
    PROVE  TypeInv'
<1>1. runner \in Runners /\ cntl \in CntlStates /\ job \in [Posters -> Jobs] /\ asked \in 0 .. MaxOids
      /\ scenario \in DOMAIN Scenarios
      /\ connected \in BOOLEAN /\ blocked \in BOOLEAN /\ autoSsid \in BOOLEAN
      /\ suspended \in BOOLEAN
      /\ link \in {"down", "infra", "adhoc"} /\ bssid \in Addresses
  BY DEF TypeInv, TypeOK, Runners
<1>2. scenario' = scenario
  BY DEF Post, SetCntl, MicCountermeasure, PeriodicExec, MicError, AutoRequest, AutoScan,
     LostBeacons, MlmeCheckForFastRoaming, Unblock
<1>3. /\ Messages' = Messages /\ Jobs' = Jobs /\ MaxOids' = MaxOids /\ Addresses' = Addresses
      /\ NoJob \in Jobs
  BY <1>2, SameScenario, JobFacts
<1>r. /\ Signal("OID_SSID") \in Requests /\ Signal("OID_SCAN") \in Requests
      /\ Signal("ROAMING_REQ") \in Requests /\ Signal("SCAN_REQ") \in Requests
      /\ Signal("DISASSOC_REQ") \in Requests
  BY DEF Requests, Oids
<1>4. ASSUME NEW p \in Posters, Post(p) PROVE TypeInv'
  <2> DEFINE x == Head(job[p].post)
  <2>1. /\ job[p].post # <<>> /\ Enqueue(x) /\ UNCHANGED <<asked, runner, armed, rest>>
        /\ job' = [job EXCEPT ![p] = IF job[p].set = "none" THEN NoJob ELSE [job[p] EXCEPT !.post = <<>>]]
    BY <1>4 DEF Post
  <2>2. x \in Messages
    BY <2>1, <1>1, JobFacts, PeerMessages
  <2>3. [job[p] EXCEPT !.post = <<>>] \in Jobs
    BY <1>1, JobFacts
  <2> HIDE DEF x
  <2>4. QueueOK'
    BY <2>1, <2>2, <1>2, QueueOKEntered
  <2>5. job' \in [Posters -> Jobs]
    BY <2>1, <2>3, <1>1, <1>3
  <2>6. RequestsOK'
    BY <2>1, <2>5, <1>1, <1>3 DEF RequestsOK
  <2> QED BY <2>1, <2>4, <2>6, <1>1, <1>2, RestTyped, SameTyped, TypePartsNext
<1>5. ASSUME NEW p \in Posters, SetCntl(p) PROVE TypeInv'
  <2>1. /\ WriteCntl(job[p].set) /\ job' = [job EXCEPT ![p] = NoJob]
        /\ UNCHANGED <<asked, queue, runner, machines, armed, target, net, autoSsid, suspended,
                       history, mishap>>
    BY <1>5 DEF SetCntl
  <2>2. job[p].set \in {"none", "call"} \cup Notes
    BY <1>1, JobFacts
  <2>3. cntl' \in CntlStates /\ (cntl' \in Trying => cntl' = cntl) /\ blocked' \in BOOLEAN
    BY <2>1, <2>2, NotesTyped
  <2>4. RequestsOK'
    BY <2>1, <1>1, <1>3 DEF RequestsOK
  <2>5. SettingOK'
    BY <2>1, <2>3, <1>1 DEF SettingOK
  <2> QED BY <2>1, <2>3, <2>4, <2>5, <1>1, <1>2, SameTyped, TypePartsNext
<1>6. ASSUME NEW p \in Posters, NEW x \in Requests, NEW state \in {"none"} \cup Notes,
             Decide(p, x, state),
             UNCHANGED <<asked, machines, armed, target, autoSsid, suspended, history>>,
             NetOK'
      PROVE  TypeInv'
  <2>1. /\ queue' \in Seq(Messages) /\ Len(queue') <= MaxLen
        /\ mishap' \subseteq {"lost", "rearmed", "selfWait"}
        /\ runner' \in Runners
        /\ cntl' \in CntlStates /\ (cntl' \in Trying => cntl' = cntl)
        /\ blocked' \in BOOLEAN
        /\ job' \in [Posters -> Jobs]
    BY <1>6, DecideTyped
  <2>2. QueueOK'
    BY <2>1, <1>3, <1>6, Typed DEF QueueOK
  <2>3. RequestsOK'
    BY <2>1, <1>1, <1>3, <1>6 DEF RequestsOK
  <2>4. SettingOK'
    BY <2>1, <1>1, <1>6 DEF SettingOK
  <2> QED BY <2>1, <2>2, <2>3, <2>4, <1>2, <1>6, SameTyped, TypePartsNext
<1>n. UNCHANGED net => NetOK'
  BY <1>2, SameTyped
<1>s. "none" \in {"none"} \cup Notes /\ "WAIT_OID_LIST_SCAN" \in {"none"} \cup Notes
      /\ "WAIT_DISASSOC" \in {"none"} \cup Notes /\ "periodic" \in Posters /\ "tx" \in Posters
  BY DEF Notes, Posters
<1>7. ASSUME NEW p \in {"periodic", "tx"}, MicCountermeasure(p) PROVE TypeInv'
  BY <1>6, <1>7, <1>r, <1>n, <1>s DEF MicCountermeasure
<1>8. CASE MicError
  <2>1. UNCHANGED <<asked, queue, runner, cntl, machines, armed, target, link, connected,
                    bssid, setting, job, history, mishap>> /\ micErr' = TRUE
    BY <1>8 DEF MicError
  <2>2. NetOK'
    BY <2>1, <1>1, <1>3 DEF NetOK
  <2> QED BY <2>1, <2>2, <1>1, <1>2, SameTyped, TypePartsNext
<1>9. ASSUME NEW x \in {Signal("OID_SSID"), Signal("OID_SCAN")}, AutoRequest(x) PROVE TypeInv'
  BY <1>6, <1>9, <1>r, <1>n, <1>s DEF AutoRequest
<1>10. CASE AutoScan
  BY <1>6, <1>10, <1>r, <1>n, <1>s DEF AutoScan
<1>11. CASE MlmeCheckForFastRoaming
  BY <1>6, <1>11, <1>r, <1>n, <1>s DEF MlmeCheckForFastRoaming
<1>12. CASE LostBeacons
  <2>1. NetOK'
    BY <1>12, <1>1, <1>3, TypeParts DEF LostBeacons, LinkDown, NetOK, Addresses
  <2>2. UNCHANGED <<asked, machines, armed, target, autoSsid, suspended, history>>
    BY <1>12 DEF LostBeacons
  <2>3. CASE Decide("periodic", Signal("OID_SSID"), "none")
    BY <1>6, <1>r, <1>s, <2>1, <2>2, <2>3
  <2>4. CASE UNCHANGED <<queue, runner, cntl, blocked, job, mishap>>
    <3>1. UNCHANGED setting
      BY <2>2, <2>4 DEF setting
    <3> QED BY <2>1, <2>2, <2>4, <3>1, <1>1, <1>2, SameTyped, TypePartsNext
  <2> QED BY <1>12, <2>3, <2>4 DEF LostBeacons
<1>13. CASE Unblock
  <2>1. UNCHANGED <<asked, queue, runner, cntl, machines, armed, target, net, autoSsid,
                    suspended, job, history, mishap>> /\ blocked' = FALSE
    BY <1>13 DEF Unblock
  <2>2. SettingOK'
    BY <2>1, <1>1 DEF SettingOK
  <2> QED BY <2>1, <2>2, <1>1, <1>2, SameTyped, TypePartsNext
<1> QED BY <1>4, <1>5, <1>7, <1>8, <1>9, <1>10, <1>11, <1>12, <1>13 DEF PeriodicExec

LEMMA TypeNext == TypeInv /\ [Next]_vars => TypeInv'
<1> SUFFICES ASSUME TypeInv, [Next]_vars PROVE TypeInv'
  OBVIOUS
<1>1. CASE UNCHANGED vars
  BY <1>1 DEF vars, machines, target, net, setting, history, accepted, TypeInv, TypeOK, Bss, Ibss, NBss,
     NChannels, MaxOids, Addresses, Messages, Oids, Requests, Jobs
<1>2. CASE Dispatch
  BY <1>2, DispatchTyped
<1>3. CASE Next /\ ~Dispatch
  BY <1>3, ArrivalTyped, PosterTyped DEF Next, Handler, Poster
<1> QED BY <1>1, <1>2, <1>3

\* Type correctness, and: while CNTL tries a candidate, BssIdx is that of a candidate of the
\* table (BssIdx++ in connect.c never runs past the table, whatever PeerBeacon adds to it,
\* and a request never replaces the table without BssIdx being set back).
THEOREM MlmeTypeCorrect == Spec => [](TypeOK /\ (cntl \in Trying => bssIdx < tab.nr))
<1>1. TypeInv => TypeOK /\ (cntl \in Trying => bssIdx < tab.nr)
  BY DEF TypeInv
<1> QED BY <1>1, TypeInit, TypeNext, PTL DEF Spec

---------------------------------------------------------------------------
(* What may happen between two messages *)

\* The state of CNTL is written with the request of which it notes that it waits.
Noted(x) == cntl' \in Notes /\ x.t = RequestOf(cntl')

\* A message is enqueued: by a peer, by a timer, or by a context that posts.
Enters ==
    \E x \in Messages :
        /\ Enqueue(x) /\ UNCHANGED <<sync, auth, assoc>>
        /\ \/ armed' = armed
           \/ \E t \in MachineTimers : armed' = armed \ {t} /\ x.t = TimeoutOf[t]
        /\ x.t = "PEER_DISASSOC" => "disassoc" \in Disturbances
        /\ \/ cntl' = cntl /\ x.t \notin CntlRequests
           \/ cntl' = cntl /\ \E p \in Posters : job[p].post # <<>> /\ x = Head(job[p].post)
           \/ Noted(x)

\* Nothing happens to the queue, the machines and their timers.
Rests ==
    /\ UNCHANGED <<queue, mishap, sync, auth, assoc, armed>>
    /\ cntl' = cntl \/ \E p \in Posters : SetCntl(p)

\* The machines are to be restarted.
Restarts == runner' = "restart" /\ queue' = <<>> /\ UNCHANGED mishap

LEMMA NotARequest ==
    /\ \A t \in FrameTypes \cup Timeouts : t \notin CntlRequests
    /\ \A t \in Timeouts : t # "PEER_DISASSOC"
    /\ \A t \in {"OID_SSID", "OID_SCAN", "OID_DISASSOC", "OID_BSSID", "ROAMING_REQ"} :
         t \notin CntlRequests /\ t # "PEER_DISASSOC"
BY DEF FrameTypes, Timeouts, CntlRequests, SyncRequests

LEMMA RequestTypes ==
    /\ \A x \in Oids : x.t \in {"OID_SSID", "OID_SCAN", "OID_DISASSOC", "OID_BSSID"}
    /\ \A x \in Requests : x.t # "PEER_DISASSOC"
    /\ Signal("OID_SSID").t = "OID_SSID" /\ Signal("OID_SCAN").t = "OID_SCAN"
    /\ Signal("ROAMING_REQ").t = "ROAMING_REQ" /\ Signal("SCAN_REQ").t = "SCAN_REQ"
    /\ Signal("DISASSOC_REQ").t = "DISASSOC_REQ"
BY DEF Requests, Oids, Signal, Msg

LEMMA FrameKinds ==
    ASSUME NEW x \in Frames
    PROVE  x.t \in FrameTypes /\ (x.t = "PEER_DISASSOC" => "disassoc" \in Disturbances)
BY DEF Frames, FrameTypes, If

LEMMA CallKinds ==
    ASSUME NEW r, CallHandler(r), r # "restart"
    PROVE  runner' = "restart" <=> runner = "restart"
BY DEF CallHandler

LEMMA DecideKinds ==
    ASSUME TypeInv, NEW p \in Posters, NEW x \in Requests, NEW state \in {"none"} \cup Notes,
           Decide(p, x, state), UNCHANGED <<sync, auth, assoc, armed>>,
           \/ state = "none" /\ x.t \notin CntlRequests
           \/ state \in Notes /\ x.t = RequestOf(state)
    PROVE  (Enters \/ Rests) /\ (runner = "restart" => runner' = "restart")
<1>1. x \in Messages /\ x.t # "PEER_DISASSOC"
  BY PeerMessages, RequestTypes
<1>2. CASE Smp
  BY <1>2 DEF Decide, Rests
<1>3. CASE ~Smp
  <2>1. Enqueue(x) /\ WriteCntl(state) /\ (CallHandler("softirq") \/ UNCHANGED runner)
    BY <1>3 DEF Decide
  <2>2. cntl' = cntl \/ Noted(x)
    BY <2>1 DEF WriteCntl, Noted, Notes, CntlStates
  <2>3. state = "none" => cntl' = cntl
    BY <2>1 DEF WriteCntl, CntlStates
  <2>4. state \in Notes => cntl' = state
    BY <2>1 DEF WriteCntl, CntlStates, Notes
  <2>5. (cntl' = cntl /\ x.t \notin CntlRequests) \/ Noted(x)
    BY <2>3, <2>4 DEF Noted
  <2>6. Enters
    BY <1>1, <2>1, <2>5 DEF Enters
  <2> QED BY <2>1, <2>6, CallKinds
<1> QED BY <1>2, <1>3

\* Every step that serves no message.
LEMMA OtherSteps ==
    ASSUME TypeInv, [Next]_vars, ~Dispatch
    PROVE  \/ RestartReset
           \/ Restarts
           \/ (Enters \/ Rests) /\ (runner = "restart" => runner' = "restart")
<1> DEFINE Goal == (Enters \/ Rests) /\ (runner = "restart" => runner' = "restart")
<1>r. /\ Signal("OID_SSID") \in Requests /\ Signal("OID_SCAN") \in Requests
      /\ Signal("ROAMING_REQ") \in Requests /\ Signal("SCAN_REQ") \in Requests
      /\ Signal("DISASSOC_REQ") \in Requests
  BY DEF Requests, Oids
<1>s. "none" \in {"none"} \cup Notes /\ "WAIT_OID_LIST_SCAN" \in Notes
      /\ "WAIT_DISASSOC" \in Notes /\ "periodic" \in Posters /\ "tx" \in Posters
  BY DEF Notes, Posters
<1>u. ASSUME UNCHANGED <<queue, mishap, cntl, sync, auth, assoc, armed>>,
             runner = "restart" => runner' = "restart"
      PROVE  Goal
  BY <1>u DEF Rests
<1>1. ASSUME UNCHANGED vars \/ EnterHandler \/ LeaveHandler \/ UserCall \/ MicError \/ Unblock PROVE Goal
  BY <1>1, <1>u DEF vars, machines, rest, EnterHandler, LeaveHandler, UserCall, MicError, Unblock
<1>2. ASSUME NEW x \in Frames, MlmeEnqueueForRecv(x) PROVE Goal
  <2>1. Enqueue(x) /\ CallHandler("softirq") /\ UNCHANGED <<armed, cntl, sync, auth, assoc>>
    BY <1>2 DEF MlmeEnqueueForRecv, rest, machines
  <2>2. x \in Messages /\ x.t \notin CntlRequests /\ (x.t = "PEER_DISASSOC" => "disassoc" \in Disturbances)
    BY PeerMessages, FrameKinds, NotARequest
  <2> QED BY <2>1, <2>2, CallKinds DEF Enters
<1>3. ASSUME NEW t \in MachineTimers, Fire(t) PROVE Goal
  <2> DEFINE x == Signal(TimeoutOf[t])
  <2>1. /\ Enqueue(x) /\ armed' = armed \ {t} /\ UNCHANGED <<cntl, sync, auth, assoc>>
        /\ (CallHandler(t) \/ CallHandler("softirq")) /\ t # "restart"
    BY <1>3 DEF Fire, rest, machines, MachineTimers
  <2>2. TimeoutOf[t] \in Timeouts
    BY TimeoutNames DEF Timeouts, MachineTimers
  <2>3. x \in Messages /\ x.t = TimeoutOf[t]
    BY <2>2, PlainMessage DEF Signal, PlainTypes
  <2> HIDE DEF x
  <2>4. x.t \notin CntlRequests /\ x.t # "PEER_DISASSOC"
    BY <2>2, <2>3, NotARequest
  <2> QED BY <2>1, <2>3, <2>4, CallKinds DEF Enters
<1>4. ASSUME NEW x \in Oids, UserRequest(x) PROVE Restarts \/ Goal
  <2>1. /\ UNCHANGED <<armed, mishap, cntl, sync, auth, assoc>>
        /\ \/ runner' = "restart" /\ queue' = <<>>
           \/ UNCHANGED <<runner, queue>>
    BY <1>4 DEF UserRequest, rest, machines
  <2> QED BY <2>1, <1>u DEF Restarts
<1>5. ASSUME NEW p \in Posters, Post(p) PROVE Goal
  <2>1. /\ Enqueue(Head(job[p].post)) /\ job[p].post # <<>>
        /\ UNCHANGED <<runner, armed, cntl, sync, auth, assoc>>
    BY <1>5 DEF Post, rest, machines
  <2>2. job[p] \in Jobs
    BY DEF TypeInv, TypeOK
  <2>3. Head(job[p].post) \in Messages /\ Head(job[p].post).t # "PEER_DISASSOC"
    BY <2>1, <2>2, JobFacts, PeerMessages, RequestTypes
  <2> QED BY <2>1, <2>3 DEF Enters
<1>6. ASSUME NEW p \in Posters, SetCntl(p) PROVE Goal
  <2>1. UNCHANGED <<queue, runner, mishap, sync, auth, assoc, armed>>
    BY <1>6 DEF SetCntl, machines
  <2> QED BY <2>1, <1>6 DEF Rests
<1>7. ASSUME NEW p \in {"periodic", "tx"}, MicCountermeasure(p) PROVE Goal
  <2>1. /\ Decide(p, Signal("DISASSOC_REQ"), "WAIT_DISASSOC")
        /\ UNCHANGED <<sync, auth, assoc, armed>>
    BY <1>7 DEF MicCountermeasure, machines
  <2> QED BY <2>1, <1>r, <1>s, RequestTypes, RequestNames, DecideKinds
<1>8. ASSUME NEW x \in {Signal("OID_SSID"), Signal("OID_SCAN")}, AutoRequest(x) PROVE Goal
  <2>1. Decide("periodic", x, "none") /\ UNCHANGED <<sync, auth, assoc, armed>>
    BY <1>8 DEF AutoRequest, machines
  <2>2. x \in Requests /\ x.t \notin CntlRequests
    BY <1>r, RequestTypes, NotARequest
  <2> QED BY <2>1, <2>2, <1>s, DecideKinds
<1>9. ASSUME Decide("periodic", Signal("SCAN_REQ"), "WAIT_OID_LIST_SCAN"),
             UNCHANGED <<sync, auth, assoc, armed>>
      PROVE  Goal
  BY <1>9, <1>r, <1>s, RequestTypes, RequestNames, DecideKinds
<1>10. ASSUME NEW t \in {"OID_SSID", "ROAMING_REQ"}, Decide("periodic", Signal(t), "none"),
              UNCHANGED <<sync, auth, assoc, armed>>
       PROVE  Goal
  <2>1. Signal(t) \in Requests /\ Signal(t).t = t /\ t \notin CntlRequests
    BY <1>r, RequestTypes, NotARequest
  <2> QED BY <2>1, <1>10, <1>s, DecideKinds
<1>11. ASSUME AutoScan PROVE Goal
  BY <1>9, <1>11 DEF AutoScan, machines
<1>12. ASSUME MlmeCheckForFastRoaming PROVE Goal
  BY <1>9, <1>10, <1>12 DEF MlmeCheckForFastRoaming, machines
<1>13. ASSUME LostBeacons PROVE Goal
  <2>1. UNCHANGED <<sync, auth, assoc, armed>>
    BY <1>13 DEF LostBeacons, machines
  <2>2. \/ Decide("periodic", Signal("OID_SSID"), "none")
        \/ UNCHANGED <<queue, runner, cntl, mishap>>
    BY <1>13 DEF LostBeacons
  <2> QED BY <2>1, <2>2, <1>10, <1>u
<1> HIDE DEF Goal
<1>14. PeriodicExec => Goal
  BY <1>1, <1>8, <1>11, <1>12, <1>13 DEF PeriodicExec
<1>15. ASSUME NEW p \in Posters, Poster(p) PROVE Goal
  BY <1>1, <1>5, <1>6, <1>15 DEF Poster
<1> QED
  <2>1. RestartReset \/ Restarts \/ Goal
    BY <1>1, <1>2, <1>3, <1>4, <1>7, <1>14, <1>15 DEF Next, Handler
  <2> QED BY <2>1 DEF Goal

---------------------------------------------------------------------------
(* The timers *)

LEMMA MishapsNext ==
    ASSUME TypeInv, [Next]_vars
    PROVE  mishap' \subseteq mishap \cup {"lost", "selfWait"} /\ (Lost => Lost')
<1>1. CASE Dispatch
  <2>1. PICK r, c, a : Served(Head(queue), r, c, a)
    BY <1>1, DispatchServed
  <2>2. mishap \subseteq mishap'
    BY <2>1 DEF Served, Serve
  <2> QED BY <1>1, <2>2, QueueTyped DEF Lost
<1>2. CASE ~Dispatch
  <2>1. RestartReset => mishap' = mishap
    BY DEF RestartReset
  <2>2. Enters => mishap \subseteq mishap' /\ mishap' \subseteq mishap \cup {"lost"}
    BY Typed, QueueEntered DEF Enters
  <2> QED BY <1>2, <2>1, <2>2, OtherSteps DEF Restarts, Rests, Lost
<1> QED BY <1>1, <1>2

\* add_timer is never called on BeaconTimer, AuthTimer, AssocTimer or DisassocTimer while it
\* is pending, however requests, answers, timeouts, restarts and rejections cross.
THEOREM NoTimerIsAddedTwice == Spec => []TimersAddedOnce
<1>1. Init => TimersAddedOnce
  BY DEF Init, TimersAddedOnce
<1>2. TypeInv /\ TimersAddedOnce /\ [Next]_vars => TimersAddedOnce'
  BY MishapsNext DEF TimersAddedOnce
<1> QED BY <1>1, <1>2, TypeInit, TypeNext, PTL DEF Spec

\* A machine that waits keeps its timer, or the timeout in the queue, through every step.
WatchInv == Lost \/ runner = "restart" \/ \A t \in MachineTimers : Waiting(t) => Watched(t)

LEMMA WatchNext == TypeInv /\ WatchInv /\ [Next]_vars => WatchInv'
<1> SUFFICES ASSUME TypeInv, WatchInv, [Next]_vars, ~Lost', runner' # "restart"
             PROVE  \A t \in MachineTimers : Waiting(t)' => Watched(t)'
  BY DEF WatchInv
<1>1. ~Lost
  BY MishapsNext
<1>2. queue \in Seq(Messages) /\ Len(queue) <= MaxLen
  BY Typed
<1>3. CASE Dispatch
  <2>1. PICK r, c, a : Served(Head(queue), r, c, a)
    BY <1>3, DispatchServed
  <2>2. r \in Replies /\ Serve(r, c, a) /\ queue # <<>>
    BY <1>3, <2>1 DEF Served, Dispatch
  <2>3. /\ queue' \in Seq(Messages) /\ Moved(queue, queue', r)
    BY <2>2, <1>1, <1>2, QueueServed
  <2>4. armed' = (armed \ c) \cup a /\ runner # "restart"
    BY <2>2, <1>3 DEF Serve, Dispatch
  <2> SUFFICES ASSUME NEW t \in MachineTimers, Waiting(t)' PROVE Watched(t)'
    OBVIOUS
  <2>5. t \in a \/ (Waiting(t) /\ t \notin c /\ Head(queue).t # TimeoutOf[t])
    BY <2>1 DEF Served
  <2>6. CASE t \in a
    BY <2>4, <2>6 DEF Watched
  <2>7. CASE t \in armed /\ t \notin c
    BY <2>4, <2>7 DEF Watched
  <2>8. CASE Queued(TimeoutOf[t]) /\ Head(queue).t # TimeoutOf[t]
    <3> DEFINE u == TimeoutOf[t]
    <3> HIDE DEF u
    <3>1. (\E k \in DOMAIN queue : queue[k].t = u) /\ Head(queue).t # u
      BY <2>8 DEF Queued, u
    <3>2. \E k \in DOMAIN queue' : queue'[k].t = u
      BY <3>1, <2>2, <2>3, <1>2, StaysQueued
    <3>3. Queued(TimeoutOf[t])'
      BY <3>2 DEF Queued, u, TimeoutOf
    <3> QED BY <3>3 DEF Watched
  <2>9. Waiting(t) => t \in armed \/ Queued(TimeoutOf[t])
    BY <1>1, <2>4 DEF WatchInv, Watched
  <2> QED BY <2>5, <2>6, <2>7, <2>8, <2>9
<1>4. CASE RestartReset
  BY <1>4 DEF RestartReset, Waiting
<1>5. CASE Enters /\ runner # "restart"
  <2>1. PICK x \in Messages :
          /\ Enqueue(x) /\ UNCHANGED <<sync, auth, assoc>>
          /\ \/ armed' = armed
             \/ \E t \in MachineTimers : armed' = armed \ {t} /\ x.t = TimeoutOf[t]
    BY <1>5 DEF Enters
  <2>2. queue' = Append(queue, x)
    BY <2>1, <1>1, <1>2, QueueEntered
  <2>3. \A u : (Queued(u) \/ x.t = u) => \E k \in DOMAIN queue' : queue'[k].t = u
    BY <2>2, <1>2, StaysBefore DEF Queued
  <2> SUFFICES ASSUME NEW t \in MachineTimers, Waiting(t)' PROVE Watched(t)'
    OBVIOUS
  <2>4. Waiting(t)
    BY <2>1 DEF Waiting
  <2>5. t \in armed \/ Queued(TimeoutOf[t])
    BY <2>4, <1>1, <1>5 DEF WatchInv, Watched
  <2>6. t \in armed' \/ x.t = TimeoutOf[t] \/ Queued(TimeoutOf[t])
    BY <2>1, <2>5
  <2> QED BY <2>3, <2>6 DEF Watched, Queued, TimeoutOf
<1>6. CASE Rests /\ runner # "restart"
  BY <1>1, <1>6 DEF WatchInv, Rests, Waiting, Watched, Queued
<1> QED
  BY <1>3, <1>4, <1>5, <1>6, OtherSteps DEF Restarts

\* A machine of the MLME that waits for a peer has its timer running, or the timeout is on its
\* way to it, as long as the queue loses no message and the machines are not being restarted:
\* no wait of SYNC, AUTH or ASSOC lasts for ever.
THEOREM NoMachineIsStranded == Spec => []WaitersAreWatched
<1>1. Init => WatchInv
  BY DEF Init, WatchInv, Waiting
<1>2. WatchInv => WaitersAreWatched
  BY DEF WatchInv, WaitersAreWatched, Waiting, MachineTimers
<1> QED BY <1>1, <1>2, WatchNext, TypeInit, TypeNext, PTL DEF Spec

---------------------------------------------------------------------------
(* The confirmations CNTL waits for *)

\* Three MIC errors, a disassociation in the queue, and what a context has decided to post
\* or to note, are only there if the scenario has them.
MicInv == micErr => "mic" \in Disturbances
PeerInv == "disassoc" \in Disturbances \/ \A k \in DOMAIN queue : queue[k].t # "PEER_DISASSOC"
JobInv ==
    NotesLate \/ \A p \in Posters : /\ job[p].set \notin Notes
                                    /\ job[p].post # <<>> => Head(job[p].post).t \notin CntlRequests

LEMMA ScenarioKept == TypeInv /\ [Next]_vars =>
                          scenario' = scenario /\ Disturbances' = Disturbances
                          /\ NotesLate' = NotesLate
<1> SUFFICES ASSUME TypeInv, [Next]_vars
             PROVE  scenario' = scenario /\ Disturbances' = Disturbances /\ NotesLate' = NotesLate
  OBVIOUS
<1>1. CASE Dispatch \/ EnterHandler \/ LeaveHandler \/ RestartReset \/ UNCHANGED vars
  BY <1>1 DEF Dispatch, EnterHandler, LeaveHandler, RestartReset, vars, Disturbances, NotesLate, Smp
<1>2. CASE \/ \E m \in Frames : MlmeEnqueueForRecv(m)
           \/ \E t \in MachineTimers : Fire(t)
           \/ \E m \in Oids : UserRequest(m)
  BY <1>2 DEF MlmeEnqueueForRecv, Fire, UserRequest, Disturbances, NotesLate, Smp
<1>3. CASE \E p \in Posters : Poster(p)
  BY <1>3 DEF Poster, Post, SetCntl, UserCall, Disturbances, NotesLate, Smp
<1>4. CASE \/ \E p \in {"periodic", "tx"} : MicCountermeasure(p)
           \/ PeriodicExec \/ MicError
  BY <1>4 DEF MicCountermeasure, PeriodicExec, MicError, AutoRequest, AutoScan,
     LostBeacons, MlmeCheckForFastRoaming, Unblock, Disturbances, NotesLate, Smp
<1> QED BY <1>1, <1>2, <1>3, <1>4 DEF Next, Handler

LEMMA MicNext == TypeInv /\ MicInv /\ [Next]_vars => MicInv'
<1> SUFFICES ASSUME TypeInv, MicInv, [Next]_vars PROVE MicInv'
  OBVIOUS
<1>1. Disturbances' = Disturbances
  BY ScenarioKept
<1>n. UNCHANGED net \/ LinkDown \/ DropAdhoc \/ LinkUp("adhoc") \/ LinkUp("infra")
        => micErr' = micErr \/ micErr' = FALSE
  BY DEF net, LinkDown, DropAdhoc, LinkUp
<1>2. CASE Dispatch
  <2> DEFINE m == Head(queue)
  <2>1. \/ MlmeCntlMachinePerformAction(m) \/ SyncMachine(m) \/ AuthMachine(m)
        \/ PeerDeauthAction(m) \/ AssocMachine(m)
    BY <1>2 DEF Dispatch
  <2> HIDE DEF m
  <2>2. CASE MlmeCntlMachinePerformAction(m)
    <3>1. UNCHANGED net \/ LinkDown \/ DropAdhoc \/ LinkUp("adhoc") \/ LinkUp("infra")
      BY <2>2 DEF MlmeCntlMachinePerformAction, CntlOidSsidProc, CntlOidRTBssidProc, CntlOidScanProc,
         CntlIdleProc, CntlMlmeRoamingProc, CntlWaitDisassocProc, CntlWaitOidDisassoc,
         CntlWaitJoinProc, CntlWaitStartProc, CntlWaitAuthProc, CntlWaitAuthProc2,
         CntlWaitAssocProc, CntlWaitScan, CntlDrops, TryNextBss, AskAuth, AskAssoc
    <3> QED BY <3>1, <1>1, <1>n DEF MicInv
  <2>3. CASE SyncMachine(m)
    <3>1. micErr' = micErr \/ micErr' = FALSE
      BY <2>3 DEF SyncMachine, ScanTimeoutAction, MlmeScanReqAction, MlmeJoinReqAction,
         MlmeStartReqAction, PeerBeaconAtJoinAction, BeaconTimeoutAtJoinAction, PeerBeacon,
         InvalidStateWhenSync, SyncDrops, LinkDown, net
    <3> QED BY <3>1, <1>1 DEF MicInv
  <2>4. CASE AuthMachine(m)
    BY <2>4, <1>1 DEF AuthMachine, net, MicInv
  <2>5. CASE PeerDeauthAction(m)
    BY <2>5, <1>1, <1>n DEF PeerDeauthAction, MicInv
  <2>6. CASE AssocMachine(m)
    <3>1. UNCHANGED net \/ LinkDown
      BY <2>6 DEF AssocMachine, MlmeAssocReqAction, MlmeDisassocReqAction, PeerAssocRspAction,
         PeerDisassocAction, AssocTimeoutAction, DisassocTimeoutAction, InvalidStateWhenAssoc,
         AssocDrops, net
    <3> QED BY <3>1, <1>1, <1>n DEF MicInv
  <2> QED BY <2>1, <2>2, <2>3, <2>4, <2>5, <2>6
<1>3. CASE \/ EnterHandler \/ LeaveHandler \/ RestartReset \/ UNCHANGED vars
           \/ \E m \in Frames : MlmeEnqueueForRecv(m)
           \/ \E t \in MachineTimers : Fire(t)
           \/ \E m \in Oids : UserRequest(m)
  BY <1>1, <1>3 DEF EnterHandler, LeaveHandler, RestartReset, vars, MlmeEnqueueForRecv, Fire,
     UserRequest, rest, net, MicInv
<1>4. CASE \E p \in Posters : Poster(p)
  BY <1>1, <1>4 DEF Poster, Post, SetCntl, UserCall, rest, net, MicInv
<1>5. CASE MicError
  BY <1>1, <1>5 DEF MicError, MicInv
<1>6. CASE (\E p \in {"periodic", "tx"} : MicCountermeasure(p)) \/ PeriodicExec
  BY <1>1, <1>6 DEF MicCountermeasure, PeriodicExec, AutoRequest, AutoScan, LostBeacons,
     MlmeCheckForFastRoaming, Unblock, LinkDown, net, MicInv
<1> QED BY <1>2, <1>3, <1>4, <1>5, <1>6 DEF Next, Handler

LEMMA PeerNext == TypeInv /\ PeerInv /\ [Next]_vars => PeerInv'
<1> SUFFICES ASSUME TypeInv, PeerInv, [Next]_vars, "disassoc" \notin Disturbances,
                    NEW j \in DOMAIN queue'
             PROVE  queue'[j].t # "PEER_DISASSOC"
  BY ScenarioKept DEF PeerInv
<1>1. \A k \in DOMAIN queue : queue[k].t # "PEER_DISASSOC"
  BY DEF PeerInv
<1>2. queue \in Seq(Messages) /\ Len(queue) <= MaxLen
  BY Typed
<1>3. CASE Dispatch
  <2>1. PICK r, c, a : Served(Head(queue), r, c, a)
    BY <1>3, DispatchServed
  <2>2. r \in Replies /\ Serve(r, c, a) /\ queue # <<>> /\ ~Posts(r, "PEER_DISASSOC")
    BY <1>3, <2>1 DEF Served, Dispatch, Outside, FrameTypes
  <2>3. queue' = Tail(Put(queue, r))
    BY <2>2 DEF Serve
  <2>4. r \in Seq(Messages) /\ ((r = <<>> /\ Len(r) = 0) \/ (r # <<>> /\ Len(r) = 1))
    BY <2>2, ReplyFacts
  <2>5. Put(queue, r) \in Seq(Messages) /\ Put(queue, r) # <<>>
    BY <2>2, <2>4, <1>2 DEF Put
  <2>6. \A k \in DOMAIN Put(queue, r) : Put(queue, r)[k].t # "PEER_DISASSOC"
    <3>1. CASE Put(queue, r) = queue
      BY <3>1, <1>1
    <3>2. CASE Put(queue, r) = queue \o r
      <4>1. \A k \in DOMAIN (queue \o r) :
              \/ k \in DOMAIN queue /\ (queue \o r)[k] = queue[k]
              \/ r # <<>> /\ (queue \o r)[k] = r[1]
        BY <1>2, <2>4
      <4> QED BY <3>2, <4>1, <1>1, <2>2 DEF Posts
    <3> QED BY <3>1, <3>2 DEF Put
  <2> DEFINE q == Put(queue, r)
  <2> HIDE DEF q
  <2>7. q \in Seq(Messages) /\ q # <<>> /\ \A k \in DOMAIN q : q[k].t # "PEER_DISASSOC"
    BY <2>5, <2>6 DEF q
  <2>8. j \in DOMAIN Tail(q)
    BY <2>3 DEF q
  <2>9. j + 1 \in DOMAIN q /\ Tail(q)[j] = q[j + 1]
    BY <2>7, <2>8
  <2> QED BY <2>3, <2>7, <2>9 DEF q
<1>4. CASE RestartReset \/ Rests
  BY <1>1, <1>4 DEF RestartReset, Rests
<1>5. CASE Enters
  <2>1. PICK x \in Messages : Enqueue(x) /\ x.t # "PEER_DISASSOC"
    BY <1>5 DEF Enters
  <2>2. queue' = queue \/ queue' = Append(queue, x)
    <3>1. queue \o <<x>> = Append(queue, x)
      BY <1>2
    <3> QED BY <2>1, <3>1 DEF Enqueue, Put
  <2>3. \A k \in DOMAIN Append(queue, x) :
          \/ k \in DOMAIN queue /\ Append(queue, x)[k] = queue[k]
          \/ Append(queue, x)[k] = x
    BY <1>2
  <2> QED BY <1>1, <2>1, <2>2, <2>3
<1>6. CASE Restarts
  BY <1>6 DEF Restarts
<1> QED BY <1>3, <1>4, <1>5, <1>6, OtherSteps

Quiet(j) == j.set \notin Notes /\ (j.post # <<>> => Head(j.post).t \notin CntlRequests)

LEMMA QuietJobs ==
    /\ Quiet(NoJob)
    /\ \A x \in Requests, s \in {"none", "call"} :
         x.t \notin CntlRequests => Quiet([post |-> <<x>>, set |-> s])
    /\ \A j \in Jobs : Quiet(j) => Quiet([j EXCEPT !.post = <<>>])
<1>1. Quiet(NoJob)
  BY DEF Quiet, NoJob, Notes
<1>2. ASSUME NEW x \in Requests, NEW s \in {"none", "call"}, x.t \notin CntlRequests
      PROVE  Quiet([post |-> <<x>>, set |-> s])
  <2>1. Head(<<x>>) = x
    OBVIOUS
  <2> QED BY <1>2, <2>1 DEF Quiet, Notes
<1>3. ASSUME NEW j \in Jobs, Quiet(j)
      PROVE  Quiet([j EXCEPT !.post = <<>>])
  BY <1>3 DEF Quiet, Jobs
<1> QED BY <1>1, <1>2, <1>3

LEMMA JobNext == TypeInv /\ MicInv /\ JobInv /\ [Next]_vars => JobInv'
<1> SUFFICES ASSUME TypeInv, MicInv, JobInv, [Next]_vars, ~NotesLate,
                    NEW q \in Posters
             PROVE  Quiet(job'[q])
  BY ScenarioKept DEF JobInv, Quiet
<1>1. job \in [Posters -> Jobs] /\ \A p \in Posters : Quiet(job[p])
  BY DEF TypeInv, TypeOK, JobInv, Quiet
<1>2. ASSUME NEW p \in Posters, NEW j, job' = [job EXCEPT ![p] = j], Quiet(j)
      PROVE  Quiet(job'[q])
  BY <1>1, <1>2
<1>s. job' = job => Quiet(job'[q])
  BY <1>1
<1>3. ASSUME NEW p \in {"periodic", "tx"}, NEW x \in Requests, x.t \notin CntlRequests,
             Decide(p, x, "none")
      PROVE  Quiet(job'[q])
  <2> DEFINE j == [post |-> <<x>>, set |-> "none"]
  <2>1. Quiet(j) /\ (job' = [job EXCEPT ![p] = j] \/ job' = job)
    BY <1>3, QuietJobs DEF Decide
  <2> HIDE DEF j
  <2>2. p \in Posters
    BY DEF Posters
  <2> QED BY <2>1, <2>2, <1>2, <1>s
<1>4. ASSUME ~Smp, NEW p, NEW x, NEW state, Decide(p, x, state)
      PROVE  Quiet(job'[q])
  BY <1>4, <1>s DEF Decide
<1>5. ~Smp \/ /\ "mic" \notin Disturbances /\ "autoScan" \notin Disturbances
              /\ "roamScan" \notin Disturbances
  BY DEF NotesLate
<1>r. /\ Signal("OID_SSID") \in Requests /\ Signal("OID_SCAN") \in Requests
      /\ Signal("ROAMING_REQ") \in Requests
      /\ Signal("OID_SSID").t \notin CntlRequests /\ Signal("OID_SCAN").t \notin CntlRequests
      /\ Signal("ROAMING_REQ").t \notin CntlRequests
  BY RequestTypes, NotARequest DEF Requests, Oids
<1>6. CASE \/ Dispatch \/ EnterHandler \/ LeaveHandler \/ RestartReset \/ UNCHANGED vars
           \/ \E m \in Frames : MlmeEnqueueForRecv(m)
           \/ \E t \in MachineTimers : Fire(t)
           \/ MicError \/ Unblock
  BY <1>s, <1>6 DEF Dispatch, EnterHandler, LeaveHandler, RestartReset, vars, MlmeEnqueueForRecv,
     Fire, MicError, Unblock
<1>7. ASSUME NEW x \in Oids, UserRequest(x) PROVE Quiet(job'[q])
  <2> DEFINE j == [post |-> <<x>>, set |-> "call"]
  <2>1. x \in Requests /\ x.t \notin CntlRequests /\ "user" \in Posters
    BY RequestTypes, NotARequest DEF Requests, Posters
  <2>2. Quiet(j) /\ job' = [job EXCEPT !["user"] = j]
    BY <1>7, <2>1, QuietJobs DEF UserRequest
  <2> HIDE DEF j
  <2> QED BY <2>1, <2>2, <1>2
<1>8. ASSUME NEW p \in Posters, Post(p) PROVE Quiet(job'[q])
  <2> DEFINE j == IF job[p].set = "none" THEN NoJob ELSE [job[p] EXCEPT !.post = <<>>]
  <2>1. Quiet([job[p] EXCEPT !.post = <<>>])
    BY <1>1, QuietJobs
  <2>2. Quiet(j)
    BY <2>1, QuietJobs
  <2>3. job' = [job EXCEPT ![p] = j]
    BY <1>8 DEF Post
  <2> HIDE DEF j
  <2> QED BY <2>2, <2>3, <1>2
<1>9. ASSUME NEW p \in Posters, SetCntl(p) \/ (p = "user" /\ UserCall) PROVE Quiet(job'[q])
  <2>1. job' = [job EXCEPT ![p] = NoJob]
    BY <1>9 DEF SetCntl, UserCall
  <2> QED BY <2>1, <1>2, QuietJobs
<1>10. ASSUME NEW p \in {"periodic", "tx"}, MicCountermeasure(p) PROVE Quiet(job'[q])
  BY <1>4, <1>5, <1>10 DEF MicCountermeasure, MicInv
<1>11. CASE AutoScan
  BY <1>4, <1>5, <1>11 DEF AutoScan
<1>12. CASE MlmeCheckForFastRoaming
  BY <1>3, <1>4, <1>5, <1>r, <1>12 DEF MlmeCheckForFastRoaming
<1>13. ASSUME NEW x \in {Signal("OID_SSID"), Signal("OID_SCAN")}, AutoRequest(x)
       PROVE  Quiet(job'[q])
  BY <1>3, <1>r, <1>13 DEF AutoRequest
<1>14. CASE LostBeacons
  BY <1>3, <1>s, <1>r, <1>14 DEF LostBeacons
<1>15. PeriodicExec => Quiet(job'[q])
  BY <1>6, <1>11, <1>12, <1>13, <1>14 DEF PeriodicExec
<1>16. ASSUME NEW p \in Posters, Poster(p) PROVE Quiet(job'[q])
  BY <1>8, <1>9, <1>16 DEF Poster
<1> QED
  BY <1>6, <1>7, <1>10, <1>15, <1>16 DEF Next, Handler

\* CNTL is idle, or it is owed an answer: its confirmation is queued; or its request is, and
\* no other one to the same machine after it; or the machine works on it and no other request
\* to that machine is queued.
Owed ==
    Owes(queue, RequestOf(cntl), GroupOf(RequestOf(cntl)), Working(RequestOf(cntl)),
         ConfOf[RequestOf(cntl)])
Exempt == Lost \/ runner = "restart" \/ "disassoc" \in Disturbances \/ NotesLate
AnswerInv == Exempt \/ cntl = "IDLE" \/ Owed

LEMMA RequestKinds ==
    ASSUME NEW state \in CntlStates \ {"IDLE"}
    PROVE  /\ RequestOf(state) \in CntlRequests
           /\ GroupOf(RequestOf(state)) \subseteq CntlRequests
           /\ CntlAwaits[state] = {ConfOf[RequestOf(state)]}
           /\ \A t \in CntlTypes : t \notin CntlRequests
<1>1. RequestOf(state) \in CntlRequests
  BY RequestNames DEF CntlStates, CntlRequests, SyncRequests
<1>2. GroupOf(RequestOf(state)) \subseteq CntlRequests
  BY DEF GroupOf, CntlRequests
<1>3. CntlAwaits[state] = {ConfOf[RequestOf(state)]}
  <2>1. CASE state \in {"WAIT_JOIN", "WAIT_START", "WAIT_ASSOC", "WAIT_OID_LIST_SCAN"}
    BY <2>1, RequestNames, ConfNames DEF CntlAwaits, CntlStates
  <2>2. CASE state \in {"WAIT_AUTH", "WAIT_AUTH2", "WAIT_DISASSOC", "WAIT_OID_DISASSOC"}
    BY <2>2, RequestNames, ConfNames DEF CntlAwaits, CntlStates
  <2> QED BY <2>1, <2>2 DEF CntlStates
<1>4. \A t \in CntlTypes : t \notin CntlRequests
  BY DEF CntlTypes, Confirms, CntlRequests, SyncRequests
<1> QED BY <1>1, <1>2, <1>3, <1>4

\* A machine keeps what it was asked for.
LEMMA OwedWhenKept ==
    ASSUME queue \in Seq(Messages), queue # <<>>, Len(queue) <= MaxLen, ~Lost, ~Lost',
           cntl \in CntlStates \ {"IDLE"}, cntl' = cntl, Owed,
           NEW r, NEW c, NEW a, Served(Head(queue), r, c, a),
           \A req \in CntlRequests : Keeps(Head(queue), r, req)
    PROVE  Owed'
<1> DEFINE req == RequestOf(cntl)
           group == GroupOf(req)
           conf == ConfOf[req]
           work == Working(req)
           work2 == Working(req)'
<1>1. r \in Replies /\ Serve(r, c, a)
  BY DEF Served
<1>2. queue' \in Seq(Messages) /\ Moved(queue, queue', r)
  BY <1>1, QueueServed
<1>3. Keeps(Head(queue), r, req)
  BY RequestKinds
<1>4. /\ Head(queue).t # conf
      /\ Head(queue).t = req => work2 \/ Posts(r, conf)
      /\ Head(queue).t \notin group /\ work => work2 \/ Posts(r, conf)
      /\ \A t \in group : ~Posts(r, t)
  BY <1>3 DEF Keeps
<1>5. Owes(queue, req, group, work, conf)
  BY DEF Owed
<1>6. Owed' <=> Owes(queue', req, group, work2, conf)
  BY DEF Owed
<1> HIDE DEF req, group, conf, work, work2
<1>7. Owes(queue', req, group, work2, conf)
  BY <1>1, <1>2, <1>4, <1>5, OwedWhenServed
<1> QED BY <1>6, <1>7

LEMMA CntlKeeps ==
    ASSUME TypeInv, queue # <<>>, ~Lost, ~Lost', cntl # "IDLE" => Owed, cntl' # "IDLE",
           MlmeCntlMachinePerformAction(Head(queue))
    PROVE  Owed'
<1>1. queue \in Seq(Messages) /\ Len(queue) <= MaxLen /\ cntl \in CntlStates
      /\ Head(queue) \in Messages
  BY Typed
<1>2. CASE Asks
  <2>1. PICK r \in Replies :
          /\ Serve(r, {}, {})
          /\ cntl' \in CntlStates \ {"IDLE"} /\ Posts(r, RequestOf(cntl'))
    BY <1>2 DEF Asks
  <2>2. queue' \in Seq(Messages) /\ Moved(queue, queue', r)
    BY <1>1, <2>1, QueueServed
  <2> DEFINE req == RequestOf(cntl')
             group == GroupOf(req)
             conf == ConfOf[req]
  <2>3. Owed' <=> Owes(queue', req, group, Working(RequestOf(cntl))', conf)
    BY DEF Owed
  <2>4. \A w : Owes(queue', req, group, w, conf)
    <3> HIDE DEF req, group, conf
    <3>1. Posts(r, req)
      BY <2>1 DEF req
    <3> QED BY <1>1, <2>1, <2>2, <3>1, OwedWhenAsked
  <2> QED BY <2>3, <2>4
<1>3. CASE Consume /\ cntl' = cntl /\ Head(queue).t \in CntlTypes \ CntlAwaits[cntl]
  <2>1. /\ Serve(<<>>, {}, {}) /\ UNCHANGED <<sync, auth, assoc>>
        /\ <<>> \in Replies /\ \A t : ~Posts(<<>>, t)
    BY <1>3, OneReply DEF Consume, MlmeCntlMachinePerformAction, machines
  <2>2. queue' \in Seq(Messages) /\ Moved(queue, queue', <<>>)
    BY <1>1, <2>1, QueueServed
  <2> DEFINE req == RequestOf(cntl)
             group == GroupOf(req)
             conf == ConfOf[req]
             work == Working(req)
  <2>3. /\ Head(queue).t # conf /\ Head(queue).t # req /\ req \in CntlRequests
    BY <1>1, <1>3, RequestKinds
  <2>4. Owes(queue, req, group, work, conf)
    BY <1>3 DEF Owed
  <2>5. Owed' <=> Owes(queue', req, group, work, conf)
    BY <1>3, <2>1 DEF Owed, Working
  <2> HIDE DEF req, group, conf, work
  <2>6. Owes(queue', req, group, work, conf)
    BY <1>1, <2>1, <2>2, <2>3, <2>4, OwedWhenServed
  <2> QED BY <2>5, <2>6
<1> QED BY <1>1, <1>2, <1>3, CntlStep

LEMMA AnswerNext ==
    TypeInv /\ MicInv /\ PeerInv /\ JobInv /\ AnswerInv /\ [Next]_vars => AnswerInv'
<1> SUFFICES ASSUME TypeInv, PeerInv, JobInv, AnswerInv, [Next]_vars,
                    ~Lost', runner' # "restart", "disassoc" \notin Disturbances, ~NotesLate,
                    cntl' # "IDLE"
             PROVE  Owed'
  BY ScenarioKept DEF AnswerInv, Exempt
<1>1. ~Lost /\ queue \in Seq(Messages) /\ Len(queue) <= MaxLen /\ cntl \in CntlStates
  BY MishapsNext, Typed
<1>2. runner # "restart" /\ cntl # "IDLE" => Owed
  BY <1>1 DEF AnswerInv, Exempt
<1>3. CASE Dispatch
  <2> DEFINE m == Head(queue)
  <2>1. queue # <<>> /\ m \in Messages /\ m.t # "PEER_DISASSOC" /\ runner # "restart"
        /\ (cntl # "IDLE" => Owed)
    <3>1. queue # <<>> /\ m = queue[1] /\ 1 \in DOMAIN queue /\ m \in Messages
      BY <1>1, <1>3 DEF Dispatch
    <3> QED BY <3>1, <1>2, <1>3 DEF Dispatch, PeerInv
  <2>2. \/ MlmeCntlMachinePerformAction(m) \/ SyncMachine(m) \/ AuthMachine(m)
        \/ PeerDeauthAction(m) \/ AssocMachine(m)
    BY <1>3 DEF Dispatch
  <2>3. armed \subseteq MachineTimers /\ assoc \in {"IDLE", "WAIT_RSP", "DISASSOC_WAIT_RSP"}
    BY DEF TypeInv, TypeOK
  <2>4. CASE MlmeCntlMachinePerformAction(m)
    BY <1>1, <2>1, <2>4, CntlKeeps
  <2>5. ASSUME NEW r, NEW c, NEW a, Served(m, r, c, a),
               \A req \in CntlRequests : Keeps(m, r, req), cntl' = cntl
        PROVE  Owed'
    BY <1>1, <2>1, <2>5, OwedWhenKept
  <2> HIDE DEF m
  <2>6. CASE SyncMachine(m)
    <3>1. cntl' = cntl
      BY <2>6 DEF SyncMachine
    <3> QED BY <2>1, <2>3, <2>5, <2>6, <3>1, SyncStep
  <2>7. CASE AuthMachine(m)
    <3>1. cntl' = cntl
      BY <2>7 DEF AuthMachine
    <3> QED BY <2>1, <2>3, <2>5, <2>7, <3>1, AuthStep
  <2>8. CASE PeerDeauthAction(m)
    <3>1. cntl' = cntl
      BY <2>8 DEF PeerDeauthAction
    <3> QED BY <2>1, <2>5, <2>8, <3>1, DeauthStep
  <2>9. CASE AssocMachine(m)
    <3>1. cntl' = cntl
      BY <2>9 DEF AssocMachine
    <3> QED BY <2>1, <2>3, <2>5, <2>9, <3>1, AssocStep
  <2> QED BY <2>2, <2>4, <2>6, <2>7, <2>8, <2>9
<1>4. CASE RestartReset
  BY <1>4 DEF RestartReset
<1>5. CASE Enters /\ runner # "restart"
  <2>1. PICK x \in Messages :
          /\ Enqueue(x) /\ UNCHANGED <<sync, auth, assoc>>
          /\ \/ cntl' = cntl /\ x.t \notin CntlRequests
             \/ cntl' = cntl /\ \E p \in Posters : job[p].post # <<>> /\ x = Head(job[p].post)
             \/ Noted(x)
    BY <1>5 DEF Enters
  <2>2. queue' = Append(queue, x)
    BY <2>1, <1>1, QueueEntered
  <2>3. (cntl' = cntl /\ x.t \notin CntlRequests) \/ Noted(x)
    BY <2>1 DEF JobInv
  <2>4. CASE cntl' = cntl /\ x.t \notin CntlRequests
    <3> DEFINE req == RequestOf(cntl)
               group == GroupOf(req)
               conf == ConfOf[req]
               work == Working(req)
    <3>1. Owes(queue, req, group, work, conf)
      BY <1>2, <1>5, <2>4 DEF Owed
    <3>2. x.t \notin group
      BY <1>1, <2>4, RequestKinds
    <3>3. Owed' <=> Owes(Append(queue, x), req, group, work, conf)
      BY <2>1, <2>2, <2>4 DEF Owed, Working
    <3> HIDE DEF req, group, conf, work
    <3>4. Owes(Append(queue, x), req, group, work, conf)
      BY <1>1, <3>1, <3>2, OwedWhenEntered
    <3> QED BY <3>3, <3>4
  <2>5. CASE Noted(x)
    <3> DEFINE req == RequestOf(cntl')
               group == GroupOf(req)
               conf == ConfOf[req]
    <3>1. Owed' <=> Owes(Append(queue, x), req, group, Working(RequestOf(cntl))', conf)
      BY <2>2 DEF Owed
    <3>2. x.t = req
      BY <2>5 DEF Noted
    <3>3. \A w : Owes(Append(queue, x), req, group, w, conf)
      <4> HIDE DEF req, group, conf
      <4> QED BY <1>1, <3>2, OwedWhenEntered
    <3> QED BY <3>1, <3>3
  <2> QED BY <2>3, <2>4, <2>5
<1>6. CASE Rests /\ runner # "restart"
  <2>1. cntl' = cntl
    <3>1. ASSUME NEW p \in Posters, SetCntl(p)
          PROVE  cntl' = cntl
      <4>1. job[p].set \in {"none", "call"}
        <5>1. job[p].set \in {"none", "call"} \cup Notes
          BY JobFacts DEF TypeInv, TypeOK
        <5> QED BY <5>1 DEF JobInv
      <4> QED BY <3>1, <4>1 DEF SetCntl, WriteCntl, CntlStates
    <3> QED BY <1>6, <3>1 DEF Rests
  <2> QED BY <1>2, <1>6, <2>1 DEF Rests, Owed, Working
<1> QED
  BY <1>3, <1>4, <1>5, <1>6, OtherSteps DEF Restarts

\* CNTL, which has no timer of its own, is never left waiting for a confirmation that nobody
\* owes it, whatever requests, frames, timeouts and restarts cross: as long as no message is
\* lost, no AP disassociates the station and no context on another CPU notes in CNTL that it
\* waits after its request may have been answered.
THEOREM CntlIsNeverForgotten == Spec => []CntlIsAnswered
<1>1. Init => MicInv /\ PeerInv /\ JobInv /\ AnswerInv
  <2> SUFFICES ASSUME Init PROVE MicInv /\ PeerInv /\ JobInv /\ AnswerInv
    OBVIOUS
  <2>1. JobInv
    BY QuietJobs DEF Init, JobInv, Quiet
  <2> QED BY <2>1 DEF Init, MicInv, PeerInv, AnswerInv
<1>2. AnswerInv => CntlIsAnswered
  <2> SUFFICES ASSUME AnswerInv, ~Exempt, cntl # "IDLE" PROVE CntlIsAnswered
    BY DEF Exempt, CntlIsAnswered, Answered
  <2>1. Owed
    BY DEF AnswerInv
  <2>2. Queued(RequestOf(cntl)) \/ Working(RequestOf(cntl)) \/ Queued(ConfOf[RequestOf(cntl)])
    BY <2>1 DEF Owed, Owes, Queued
  <2> QED BY <2>2, RequestNames, ConfNames DEF CntlIsAnswered, Answered, Working
<1> QED
  BY <1>1, <1>2, TypeInit, TypeNext, MicNext, PeerNext, JobNext, AnswerNext, PTL DEF Spec

---------------------------------------------------------------------------
(* One request at a time *)

\* "All "SET OID" related oerations happen in sequence, because no other SET OID will be
\* sent to this device until the the previous SET operation is complete"
\* (connect.c:302): a request that is served finds CNTL idle.
OidsInSequence ==
    queue # <<>> /\ runner \notin {"none", "restart"} => ~Overtakes(Head(queue))

\* An attempt of CNTL hands one token round: a request to a machine, or the machine at work
\* on it, or the confirmation.
Tokens == {"JOIN_REQ", "JOIN_CONF", "START_REQ", "START_CONF",
           "AUTH_REQ", "AUTH_CONF", "ASSOC_REQ", "ASSOC_CONF"}
Attempting == Trying \cup {"WAIT_START"}
Awaited(state, t) ==
    \/ state = "WAIT_JOIN" /\ t \in {"JOIN_REQ", "JOIN_CONF"}
    \/ state = "WAIT_START" /\ t \in {"START_REQ", "START_CONF"}
    \/ state \in {"WAIT_AUTH", "WAIT_AUTH2"} /\ t \in {"AUTH_REQ", "AUTH_CONF"}
    \/ state = "WAIT_ASSOC" /\ t \in {"ASSOC_REQ", "ASSOC_CONF"}
Busy == sync = "JOIN_WAIT_BEACON" \/ auth # "IDLE" \/ assoc = "WAIT_RSP"

\* A token in the queue belongs to the state of CNTL, a request is about the BSS that is
\* tried, and a confirmation tells of what that BSS answered.
Fits(x, state, b, a1, a2, bss) ==
    x.t \in Tokens =>
        /\ Awaited(state, x.t)
        /\ x.t \in {"AUTH_REQ", "ASSOC_REQ"} => x.x = b
        /\ x.t = "AUTH_CONF" /\ x.v = "ok" => a1 = b /\ b \in bss
        /\ x.t = "ASSOC_CONF" /\ x.v = "ok" => a2 = b
Token(x) == Fits(x, cntl, aux.bssid, authOk, assocOk, Bss)
AttemptOK ==
    /\ sync = "JOIN_WAIT_BEACON" => cntl = "WAIT_JOIN"
    /\ auth # "IDLE" => cntl \in {"WAIT_AUTH", "WAIT_AUTH2"}
    /\ assoc = "WAIT_RSP" => cntl = "WAIT_ASSOC"
    /\ cntl = "WAIT_ASSOC" => authOk = aux.bssid /\ aux.bssid \in Bss
NoToken == \A i \in DOMAIN queue : queue[i].t \notin Tokens
SeqInv ==
    /\ AttemptOK
    /\ \A i \in DOMAIN queue : Token(queue[i])
    /\ \A i, j \in DOMAIN queue : queue[i].t \in Tokens /\ queue[j].t \in Tokens => i = j
    /\ Busy \/ runner = "restart" => NoToken

\* No MIC countermeasures, no scans in order to roam, and no context that writes CNTL after
\* it has posted.
Orderly == ~NotesLate /\ Disturbances \cap {"mic", "roamScan"} = {}

\* After step, the same of x.
TokenNext(x) == Fits(x, cntl', aux'.bssid, authOk', assocOk', Bss')

LEMMA TokenNames ==
    /\ \A t : (\E s : Awaited(s, t)) => t \in Tokens
    /\ \A s : s \notin Attempting => \A t : ~Awaited(s, t)
    /\ \A s \in Attempting : \A t \in Tokens :
         Awaited(s, t) => /\ t = "JOIN_REQ" \/ t = "JOIN_CONF" <=> s = "WAIT_JOIN"
                          /\ t = "AUTH_REQ" \/ t = "AUTH_CONF" <=> s \in {"WAIT_AUTH", "WAIT_AUTH2"}
                          /\ t = "ASSOC_REQ" \/ t = "ASSOC_CONF" <=> s = "WAIT_ASSOC"
    /\ Attempting \subseteq CntlStates /\ "IDLE" \notin Attempting
BY DEF Awaited, Tokens, Attempting, Trying, CntlStates

\* What is in the queue once its head is served.
LEMMA ServedElements ==
    ASSUME queue \in Seq(Messages), queue # <<>>, NEW r \in Replies, NEW c, NEW a, Serve(r, c, a)
    PROVE  /\ queue' \in Seq(Messages)
           /\ \A i \in DOMAIN queue' :
                \/ i \in Nat /\ i + 1 \in DOMAIN queue /\ queue'[i] = queue[i + 1]
                \/ i = Len(queue) /\ r # <<>> /\ queue'[i] = r[1]
<1>1. queue' = Tail(Put(queue, r)) /\ Len(queue) \in Nat \ {0}
  BY DEF Serve
<1>2. r \in Seq(Messages) /\ ((r = <<>> /\ Len(r) = 0) \/ (r # <<>> /\ Len(r) = 1))
  BY ReplyFacts
<1>3. CASE Len(queue) + Len(r) <= MaxLen
  <2> DEFINE q == queue \o r
             n == Len(queue)
  <2>1. q \in Seq(Messages) /\ Len(q) = n + Len(r) /\ q # <<>>
    BY <1>2
  <2>2. /\ \A i \in 1 .. n : q[i] = queue[i]
        /\ r # <<>> => q[n + 1] = r[1]
    BY <1>2
  <2>3. queue' = Tail(q)
    BY <1>1, <1>3 DEF Put
  <2>4. DOMAIN queue = 1 .. n /\ n \in Nat \ {0}
    OBVIOUS
  <2> HIDE DEF q, n
  <2>5. /\ Tail(q) \in Seq(Messages) /\ DOMAIN Tail(q) = 1 .. Len(q) - 1
        /\ \A i \in 1 .. Len(q) - 1 : Tail(q)[i] = q[i + 1]
    BY <2>1
  <2>6. ASSUME NEW i \in DOMAIN Tail(q)
        PROVE  \/ i \in Nat /\ i + 1 \in DOMAIN queue /\ Tail(q)[i] = queue[i + 1]
               \/ i = n /\ r # <<>> /\ Tail(q)[i] = r[1]
    <3>1. i \in Nat /\ Tail(q)[i] = q[i + 1] /\ i \in 1 .. n + Len(r) - 1
      BY <2>1, <2>4, <2>5, <2>6
    <3>2. CASE i + 1 \in 1 .. n
      BY <3>1, <3>2, <2>2, <2>4
    <3>3. CASE i + 1 \notin 1 .. n
      <4>0. Len(r) \in {0, 1} /\ i \in 1 .. n - 1 + Len(r) /\ i \notin 1 .. n - 1
        BY <3>1, <3>3, <2>4, <1>2
      <4>1. i = n /\ Len(r) = 1
        BY <4>0, <2>4, LastPosition
      <4>2. i = n /\ r # <<>>
        BY <4>1, <1>2
      <4> QED BY <4>2, <3>1, <2>2
    <3> QED BY <3>2, <3>3
  <2> QED BY <2>3, <2>5, <2>6 DEF n
<1>4. CASE ~(Len(queue) + Len(r) <= MaxLen)
  <2>1. queue' = Tail(queue)
    BY <1>1, <1>4 DEF Put
  <2>2. /\ Tail(queue) \in Seq(Messages) /\ DOMAIN Tail(queue) = 1 .. Len(queue) - 1
        /\ DOMAIN queue = 1 .. Len(queue)
        /\ \A i \in 1 .. Len(queue) - 1 : Tail(queue)[i] = queue[i + 1]
    OBVIOUS
  <2>3. \A i \in 1 .. Len(queue) - 1 : i \in Nat /\ i + 1 \in 1 .. Len(queue)
    BY <1>1
  <2> QED BY <2>1, <2>2, <2>3
<1> QED BY <1>3, <1>4

\* Where the token is in the head, or with a machine, or CNTL is in no attempt, nothing behind
\* the head is a token.
LEMMA NoneBehind ==
    ASSUME queue \in Seq(Messages), queue # <<>>, SeqInv,
           Head(queue).t \in Tokens \/ Busy \/ cntl \notin Attempting
    PROVE  \A i \in DOMAIN queue : i # 1 => queue[i].t \notin Tokens
<1>1. Head(queue) = queue[1] /\ 1 \in DOMAIN queue
  OBVIOUS
<1>2. CASE Head(queue).t \in Tokens
  BY <1>1, <1>2 DEF SeqInv
<1>3. CASE Busy
  BY <1>3 DEF SeqInv, NoToken
<1>4. CASE cntl \notin Attempting
  BY <1>4, TokenNames DEF SeqInv, Token, Fits
<1> QED BY <1>2, <1>3, <1>4

\* The token moves.
LEMMA TokenMoves ==
    ASSUME queue \in Seq(Messages), queue # <<>>, SeqInv,
           runner # "restart", runner' = runner,
           Head(queue).t \in Tokens \/ Busy \/ cntl \notin Attempting,
           NEW r \in Replies, NEW c, NEW a, Serve(r, c, a),
           r # <<>> /\ r[1].t \in Tokens => TokenNext(r[1]) /\ ~Busy',
           AttemptOK'
    PROVE  SeqInv'
<1>1. \A i \in DOMAIN queue' :
        \/ i \in Nat /\ i + 1 \in DOMAIN queue /\ queue'[i] = queue[i + 1]
        \/ i = Len(queue) /\ r # <<>> /\ queue'[i] = r[1]
  BY ServedElements
<1>2. \A i \in DOMAIN queue : i # 1 => queue[i].t \notin Tokens
  BY NoneBehind
<1>3. \A i \in DOMAIN queue' :
        queue'[i].t \in Tokens => i = Len(queue) /\ r # <<>> /\ queue'[i] = r[1]
  <2> SUFFICES ASSUME NEW i \in DOMAIN queue', queue'[i].t \in Tokens,
                      i \in Nat, i + 1 \in DOMAIN queue, queue'[i] = queue[i + 1]
               PROVE  FALSE
    BY <1>1
  <2>1. i + 1 = 1
    BY <1>2
  <2>2. i = 0 /\ DOMAIN queue' = 1 .. Len(queue')
    BY <2>1, ServedElements
  <2> QED BY <2>2
<1>4. \A i \in DOMAIN queue' : Fits(queue'[i], cntl', aux'.bssid, authOk', assocOk', Bss')
  <2> SUFFICES ASSUME NEW i \in DOMAIN queue', queue'[i].t \in Tokens
               PROVE  Fits(queue'[i], cntl', aux'.bssid, authOk', assocOk', Bss')
    BY DEF Fits
  <2> QED BY <1>3 DEF TokenNext
<1>5. Busy' => \A i \in DOMAIN queue' : queue'[i].t \notin Tokens
  BY <1>3
<1> QED BY <1>3, <1>4, <1>5 DEF SeqInv, Token, NoToken

\* The token stays where it is.
LEMMA TokenStays ==
    ASSUME queue \in Seq(Messages), queue # <<>>, SeqInv,
           runner # "restart", runner' = runner,
           NEW r \in Replies, NEW c, NEW a, Serve(r, c, a),
           r # <<>> => r[1].t \notin Tokens,
           UNCHANGED <<cntl, authOk, assocOk>>, aux'.bssid = aux.bssid, Bss' = Bss,
           sync' = "JOIN_WAIT_BEACON" => sync = "JOIN_WAIT_BEACON",
           auth' # "IDLE" => auth # "IDLE",
           assoc' = "WAIT_RSP" => assoc = "WAIT_RSP"
    PROVE  SeqInv'
<1>1. \A i \in DOMAIN queue' :
        queue'[i].t \in Tokens => i \in Nat /\ i + 1 \in DOMAIN queue /\ queue'[i] = queue[i + 1]
  BY ServedElements
<1>2. AttemptOK'
  BY DEF SeqInv, AttemptOK
<1>3. \A i \in DOMAIN queue' : Fits(queue'[i], cntl', aux'.bssid, authOk', assocOk', Bss')
  <2> SUFFICES ASSUME NEW i \in DOMAIN queue', queue'[i].t \in Tokens
               PROVE  Fits(queue'[i], cntl', aux'.bssid, authOk', assocOk', Bss')
    BY DEF Fits
  <2>1. i + 1 \in DOMAIN queue /\ queue'[i] = queue[i + 1]
    BY <1>1
  <2>2. Fits(queue[i + 1], cntl, aux.bssid, authOk, assocOk, Bss)
    BY <2>1 DEF SeqInv, Token
  <2> QED BY <2>1, <2>2
<1>4. \A i, j \in DOMAIN queue' : queue'[i].t \in Tokens /\ queue'[j].t \in Tokens => i = j
  <2> SUFFICES ASSUME NEW i \in DOMAIN queue', NEW j \in DOMAIN queue',
                      queue'[i].t \in Tokens, queue'[j].t \in Tokens
               PROVE  i = j
    OBVIOUS
  <2>1. i + 1 = j + 1 /\ i \in Nat /\ j \in Nat
    BY <1>1 DEF SeqInv
  <2> QED BY <2>1
<1>5. Busy' => \A i \in DOMAIN queue' : queue'[i].t \notin Tokens
  BY <1>1 DEF Busy, SeqInv, NoToken
<1> QED BY <1>2, <1>3, <1>4, <1>5 DEF SeqInv, Token, NoToken

---------------------------------------------------------------------------

\* CNTL ends what it did, or it hands out a token, or a request for which there is none.
Hands ==
    \E r \in Replies :
        /\ Serve(r, {}, {})
        /\ r # <<>> /\ r[1].t \in Tokens => TokenNext(r[1])
        /\ cntl' = "WAIT_ASSOC" => authOk' = aux'.bssid /\ aux'.bssid \in Bss'

LEMMA HandsFacts ==
    /\ Ask(<<>>, "IDLE") => Hands
    /\ \A state \in CntlStates \ {"IDLE", "WAIT_ASSOC"} : \A x \in Messages :
         Ask(<<x>>, state) /\ (x.t \in Tokens => TokenNext(x)) => Hands
    /\ \A x \in Messages :
         Ask(<<x>>, "WAIT_ASSOC") /\ TokenNext(x) /\ authOk' = aux'.bssid /\ aux'.bssid \in Bss'
            => Hands
<1>1. Ask(<<>>, "IDLE") => Hands
  BY OneReply DEF Ask, Hands
<1>2. ASSUME NEW state, NEW x \in Messages, Ask(<<x>>, state), x.t \in Tokens => TokenNext(x),
             state = "WAIT_ASSOC" => authOk' = aux'.bssid /\ aux'.bssid \in Bss'
      PROVE  Hands
  <2>1. <<x>> \in Replies /\ <<x>>[1] = x
    BY OneReply
  <2>2. Serve(<<x>>, {}, {}) /\ cntl' = state
    BY <1>2 DEF Ask
  <2> QED BY <1>2, <2>1, <2>2 DEF Hands
<1> QED BY <1>1, <1>2

LEMMA HandsPlain ==
    ASSUME NEW t \in {"SCAN_REQ", "DISASSOC_REQ"}, NEW state \in CntlStates \ {"IDLE", "WAIT_ASSOC"},
           Ask(<<Signal(t)>>, state)
    PROVE  Hands
<1> DEFINE x == Signal(t)
<1>1. x \in Messages /\ x.t \notin Tokens
  BY PlainMessage DEF Signal, PlainTypes, Tokens
<1>2. Ask(<<x>>, state)
  OBVIOUS
<1> HIDE DEF x
<1> QED BY <1>1, <1>2, HandsFacts

LEMMA HandsIterate ==
    ASSUME NEW i \in Nat, NEW nr \in 0 .. NBss, NBss \in Nat, IterateOnBssTab(i, nr)
    PROVE  Hands
<1>1. CASE i < nr /\ Ask(<<Msg("JOIN_REQ", i, "ok")>>, "WAIT_JOIN")
  <2> DEFINE x == Msg("JOIN_REQ", i, "ok")
  <2>1. x \in Messages /\ x.t = "JOIN_REQ"
    BY <1>1, RequestMessages
  <2>2. Ask(<<x>>, "WAIT_JOIN") /\ cntl' = "WAIT_JOIN"
    BY <1>1 DEF Ask
  <2> HIDE DEF x
  <2>3. TokenNext(x)
    BY <2>1, <2>2 DEF TokenNext, Fits, Awaited
  <2> QED BY <2>1, <2>2, <2>3, HandsFacts DEF CntlStates
<1>2. CASE Ask(<<Signal("START_REQ")>>, "WAIT_START")
  <2> DEFINE x == Signal("START_REQ")
  <2>1. x \in Messages /\ x.t = "START_REQ"
    BY PlainMessage DEF Signal, PlainTypes
  <2>2. Ask(<<x>>, "WAIT_START") /\ cntl' = "WAIT_START"
    BY <1>2 DEF Ask
  <2> HIDE DEF x
  <2>3. TokenNext(x)
    BY <2>1, <2>2 DEF TokenNext, Fits, Awaited
  <2> QED BY <2>1, <2>2, <2>3, HandsFacts DEF CntlStates
<1>3. CASE Ask(<<>>, "IDLE")
  BY <1>3, HandsFacts
<1> QED BY <1>1, <1>2, <1>3 DEF IterateOnBssTab

LEMMA HandsAuth ==
    ASSUME aux.bssid \in Addresses, NEW alg \in Algs, NEW state \in {"WAIT_AUTH", "WAIT_AUTH2"},
           AskAuth(alg, state)
    PROVE  Hands
<1> DEFINE x == Msg("AUTH_REQ", aux.bssid, alg)
<1>1. x \in Messages /\ x.t = "AUTH_REQ" /\ x.x = aux.bssid
  BY RequestMessages DEF Msg
<1>2. Ask(<<x>>, state) /\ cntl' = state /\ aux' = aux
  BY DEF AskAuth, Ask, target
<1> HIDE DEF x
<1>3. TokenNext(x)
  BY <1>1, <1>2 DEF TokenNext, Fits, Awaited
<1> QED BY <1>1, <1>2, <1>3, HandsFacts DEF CntlStates

LEMMA HandsAssoc ==
    ASSUME aux.bssid \in Addresses, AskAssoc, authOk' = authOk, authOk = aux.bssid,
           aux.bssid \in Bss, Bss' = Bss
    PROVE  Hands
<1> DEFINE x == Msg("ASSOC_REQ", aux.bssid, "ok")
<1>1. x \in Messages /\ x.t = "ASSOC_REQ" /\ x.x = aux.bssid
  BY RequestMessages DEF Msg
<1>2. Ask(<<x>>, "WAIT_ASSOC") /\ cntl' = "WAIT_ASSOC" /\ aux' = aux
  BY DEF AskAssoc, Ask, target
<1> HIDE DEF x
<1>3. TokenNext(x)
  BY <1>1, <1>2 DEF TokenNext, Fits, Awaited
<1> QED BY <1>1, <1>2, <1>3, HandsFacts DEF CntlStates

LEMMA CntlHands ==
    ASSUME TypeInv, NEW m \in Messages, MlmeCntlMachinePerformAction(m), ~Overtakes(m),
           Token(m), Bss' = Bss
    PROVE  \/ Hands /\ (m.t \in Tokens \/ cntl \notin Attempting)
           \/ Consume /\ UNCHANGED <<cntl, aux>> /\ m.t \in CntlTypes
<1>a. /\ NBss \in Nat \ {0} /\ 0 \in Nat /\ tab.nr \in 0 .. NBss
      /\ aux.bssid \in Addresses /\ FirstAlg \in Algs /\ "open" \in Algs
      /\ bssIdx \in Nat
  BY Typed DEF Algs
<1>b. \A s \in Tables : Len(s) \in 0 .. NBss
  BY Typed, ScenarioFacts
<1>i. \A i \in Nat, nr \in 0 .. NBss : IterateOnBssTab(i, nr) => Hands
  BY <1>a, HandsIterate
<1>d. Disassociate("WAIT_DISASSOC") \/ Disassociate("WAIT_OID_DISASSOC") => Hands
  BY HandsPlain DEF Disassociate, CntlStates
<1>e. Ask(<<>>, "IDLE") => Hands
  BY HandsFacts
<1>g. Ask(<<Signal("SCAN_REQ")>>, "WAIT_OID_LIST_SCAN") => Hands
  BY HandsPlain DEF CntlStates
<1>h. Ask(<<Signal("START_REQ")>>, "WAIT_START") => Hands
  <2> SUFFICES ASSUME Ask(<<Signal("START_REQ")>>, "WAIT_START") PROVE Hands
    OBVIOUS
  <2> DEFINE x == Signal("START_REQ")
  <2>1. x \in Messages /\ x.t = "START_REQ"
    BY PlainMessage DEF Signal, PlainTypes
  <2>2. Ask(<<x>>, "WAIT_START") /\ cntl' = "WAIT_START"
    BY DEF Ask
  <2> HIDE DEF x
  <2>3. TokenNext(x)
    BY <2>1, <2>2 DEF TokenNext, Fits, Awaited
  <2> QED BY <2>1, <2>2, <2>3, HandsFacts DEF CntlStates
<1>n. TryNextBss => Hands
  <2> SUFFICES ASSUME TryNextBss PROVE Hands
    OBVIOUS
  <2>1. bssIdx + 1 \in Nat /\ IterateOnBssTab(bssIdx + 1, tab.nr)
    BY <1>a DEF TryNextBss
  <2> QED BY <2>1, <1>a, <1>i
<1>k. \A alg \in Algs : \A state \in {"WAIT_AUTH", "WAIT_AUTH2"} : AskAuth(alg, state) => Hands
  BY <1>a, HandsAuth
<1>l. ASSUME AskAssoc, m.t = "AUTH_CONF", m.v = "ok" PROVE Hands
  <2>1. authOk = aux.bssid /\ aux.bssid \in Bss
    BY <1>l DEF Token, Fits, Tokens
  <2>2. cntl' = "WAIT_ASSOC"
    BY <1>l DEF AskAssoc, Ask
  <2>3. authOk' = authOk
    BY <2>2 DEF MlmeCntlMachinePerformAction, accepted
  <2> QED BY <1>a, <1>l, <2>1, <2>3, HandsAssoc
<1>o. m.t \in {"OID_SSID", "OID_BSSID", "OID_SCAN"} => cntl = "IDLE"
  BY DEF Overtakes
<1>s. "IDLE" \notin Attempting /\ "WAIT_DISASSOC" \notin Attempting
      /\ "WAIT_OID_DISASSOC" \notin Attempting /\ "WAIT_OID_LIST_SCAN" \notin Attempting
  BY DEF Attempting, Trying
<1>t. {"JOIN_CONF", "START_CONF", "AUTH_CONF", "ASSOC_CONF"} \subseteq Tokens
  BY DEF Tokens
<1>1. CASE CntlOidSsidProc(m)
  BY <1>1, <1>a, <1>b, <1>i, <1>d, <1>e, <1>g, <1>o, <1>s DEF CntlOidSsidProc
<1>2. CASE CntlOidRTBssidProc(m)
  <2> DEFINE x == Msg("JOIN_REQ", 0, "ok")
  <2>1. x \in Messages /\ x.t = "JOIN_REQ"
    <3>1. 0 \in 0 .. NBss - 1
      BY <1>a
    <3> QED BY <3>1, RequestMessages
  <2>2. Ask(<<x>>, "WAIT_JOIN") => Hands
    <3> SUFFICES ASSUME Ask(<<x>>, "WAIT_JOIN") PROVE Hands
      OBVIOUS
    <3>1. cntl' = "WAIT_JOIN"
      BY DEF Ask
    <3> HIDE DEF x
    <3>2. TokenNext(x)
      BY <2>1, <3>1 DEF TokenNext, Fits, Awaited
    <3> QED BY <2>1, <3>2, HandsFacts DEF CntlStates
  <2>3. m.t = "OID_BSSID" /\ Hands
    BY <1>2, <2>2, <1>d, <1>e DEF CntlOidRTBssidProc
  <2> QED BY <2>3, <1>o, <1>s
<1>3. CASE CntlOidScanProc(m)
  BY <1>3, <1>g, <1>o, <1>s DEF CntlOidScanProc
<1>4. CASE CntlIdleProc(m)
  BY <1>4, <1>a, <1>b, <1>i, <1>d, <1>s DEF CntlIdleProc, CntlMlmeRoamingProc
<1>5. CASE CntlWaitDisassocProc(m)
  BY <1>5, <1>a, <1>i, <1>h, <1>s DEF CntlWaitDisassocProc
<1>6. CASE CntlWaitOidDisassoc(m)
  BY <1>6, <1>e, <1>s DEF CntlWaitOidDisassoc
<1>7. CASE CntlWaitJoinProc(m)
  BY <1>7, <1>a, <1>n, <1>k, <1>e, <1>t DEF CntlWaitJoinProc
<1>8. CASE CntlWaitStartProc(m)
  BY <1>8, <1>e, <1>t DEF CntlWaitStartProc
<1>9. CASE CntlWaitAuthProc(m)
  BY <1>9, <1>a, <1>k, <1>l, <1>t DEF CntlWaitAuthProc
<1>10. CASE CntlWaitAuthProc2(m)
  BY <1>10, <1>a, <1>n, <1>k, <1>l, <1>t DEF CntlWaitAuthProc2
<1>11. CASE CntlWaitAssocProc(m)
  BY <1>11, <1>n, <1>e, <1>t DEF CntlWaitAssocProc
<1>12. CASE CntlWaitScan(m)
  BY <1>12, <1>e, <1>s DEF CntlWaitScan
<1>13. CASE CntlDrops(m)
  BY <1>13 DEF CntlDrops, target
<1> QED
  BY <1>1, <1>2, <1>3, <1>4, <1>5, <1>6, <1>7, <1>8, <1>9, <1>10, <1>11, <1>12, <1>13
  DEF MlmeCntlMachinePerformAction

\* A message that is a token finds no machine at work.
LEMMA TokenAtHead ==
    ASSUME queue \in Seq(Messages), queue # <<>>, SeqInv
    PROVE  /\ Token(Head(queue)) /\ AttemptOK
           /\ Head(queue).t \in Tokens => ~Busy
<1>1. Head(queue) = queue[1] /\ 1 \in DOMAIN queue
  OBVIOUS
<1> QED BY <1>1 DEF SeqInv, NoToken

LEMMA CntlSeq ==
    ASSUME TypeInv, SeqInv, queue # <<>>, runner # "restart", runner' = runner, Bss' = Bss,
           ~Overtakes(Head(queue)), MlmeCntlMachinePerformAction(Head(queue))
    PROVE  SeqInv'
<1>1. queue \in Seq(Messages) /\ Head(queue) \in Messages
  BY Typed
<1>2. Token(Head(queue)) /\ AttemptOK /\ (Head(queue).t \in Tokens => ~Busy)
  BY <1>1, TokenAtHead
<1>3. UNCHANGED <<sync, auth, assoc>>
  BY DEF MlmeCntlMachinePerformAction, machines
<1>4. cntl \notin Attempting => ~Busy
  BY <1>2 DEF AttemptOK, Busy, Attempting, Trying
<1>5. CASE Hands /\ (Head(queue).t \in Tokens \/ cntl \notin Attempting)
  <2>1. PICK r \in Replies :
          /\ Serve(r, {}, {})
          /\ r # <<>> /\ r[1].t \in Tokens => TokenNext(r[1])
          /\ cntl' = "WAIT_ASSOC" => authOk' = aux'.bssid /\ aux'.bssid \in Bss'
    BY <1>5 DEF Hands
  <2>2. ~Busy /\ ~Busy'
    BY <1>2, <1>3, <1>4, <1>5 DEF Busy
  <2>3. AttemptOK'
    BY <2>1, <2>2 DEF AttemptOK, Busy
  <2> QED BY <1>1, <1>5, <2>1, <2>2, <2>3, TokenMoves
<1>6. CASE Consume /\ UNCHANGED <<cntl, aux>>
  <2>1. Serve(<<>>, {}, {}) /\ <<>> \in Replies
    BY <1>6, OneReply DEF Consume
  <2>2. CASE cntl = "IDLE"
    <3>1. cntl \notin Attempting
      BY <2>2, TokenNames
    <3>2. AttemptOK'
      BY <1>2, <1>3, <1>6, <2>2 DEF AttemptOK
    <3> QED BY <1>1, <2>1, <3>1, <3>2, TokenMoves
  <2>3. CASE cntl # "IDLE"
    <3>1. UNCHANGED <<authOk, assocOk>>
      BY <1>6, <2>3 DEF MlmeCntlMachinePerformAction, accepted
    <3> QED BY <1>1, <1>3, <1>6, <2>1, <3>1, TokenStays
  <2> QED BY <2>2, <2>3
<1> QED BY <1>1, <1>2, <1>5, <1>6, CntlHands

\* A confirmation.
LEMMA Confirmation ==
    ASSUME NEW t \in Confirms, NEW v \in {"ok", "fail"}
    PROVE  /\ Conf(t, v) \in Replies /\ Conf(t, v) # <<>>
           /\ Conf(t, v)[1].t = t /\ Conf(t, v)[1].v = v
<1>1. Msg(t, NoBss, v) \in Messages
  BY PlainMessage DEF PlainTypes
<1>2. Conf(t, v)[1] = Msg(t, NoBss, v)
  BY DEF Conf
<1>3. Msg(t, NoBss, v).t = t /\ Msg(t, NoBss, v).v = v
  BY DEF Msg
<1>4. Conf(t, v) # <<>>
  BY DEF Conf
<1> QED BY <1>1, <1>2, <1>3, <1>4 DEF Conf, Replies

LEMMA SyncSeq ==
    ASSUME TypeInv, SeqInv, queue # <<>>, runner # "restart", runner' = runner, Bss' = Bss,
           NEW m, m = Head(queue), SyncMachine(m)
    PROVE  SeqInv'
<1>1. queue \in Seq(Messages) /\ m \in Messages
  BY Typed
<1>2. Token(m) /\ AttemptOK /\ (m.t \in Tokens => ~Busy)
  BY <1>1, TokenAtHead
<1>3. UNCHANGED <<cntl, auth, assoc, authOk, assocOk>>
  BY DEF SyncMachine, history, accepted
<1>4. ASSUME NEW r \in Replies, NEW c, NEW a, Serve(r, c, a), r # <<>> => r[1].t \notin Tokens,
             aux'.bssid = aux.bssid, sync' = "JOIN_WAIT_BEACON" => sync = "JOIN_WAIT_BEACON"
      PROVE  SeqInv'
  BY <1>1, <1>3, <1>4, TokenStays
<1>5. ASSUME NEW t \in {"START_CONF", "JOIN_CONF"}, NEW v \in {"ok", "fail"}, NEW c,
             Tell(t, v, c, {}), Awaited(cntl, t), m.t \in Tokens \/ sync = "JOIN_WAIT_BEACON",
             sync' = "IDLE"
      PROVE  SeqInv'
  <2> DEFINE r == Conf(t, v)
  <2>1. r \in Replies /\ r # <<>> /\ r[1].t = t /\ Serve(r, c, {})
    BY <1>5, Confirmation DEF Confirms, Tell
  <2> HIDE DEF r
  <2>2. TokenNext(r[1])
    BY <2>1, <1>3, <1>5 DEF TokenNext, Fits
  <2>3. auth = "IDLE" /\ assoc # "WAIT_RSP" /\ cntl # "WAIT_ASSOC"
    BY <1>2, <1>5 DEF AttemptOK, Awaited
  <2>4. AttemptOK' /\ ~Busy'
    BY <1>3, <1>5, <2>3 DEF AttemptOK, Busy
  <2>5. m.t \in Tokens \/ Busy
    BY <1>5 DEF Busy
  <2> QED BY <1>1, <2>1, <2>2, <2>4, <2>5, TokenMoves
<1>n. <<>> \in Replies
  BY OneReply
<1>s. ASSUME NEW v \in {"ok", "fail"}
      PROVE  Conf("SCAN_CONF", v) \in Replies /\ Conf("SCAN_CONF", v)[1].t \notin Tokens
  BY <1>s, Confirmation DEF Confirms, Tokens
<1>6. ASSUME NEW c, NEW d, ScanNextChannel(d, c), aux'.bssid = aux.bssid
      PROVE  SeqInv'
  <2>1. ASSUME NEW v \in {"ok", "fail"}, NEW a, Tell("SCAN_CONF", v, c, a), sync' = "IDLE"
        PROVE  SeqInv'
    BY <1>4, <1>6, <1>s, <2>1 DEF Tell
  <2>2. ASSUME Serve(<<>>, c, {"scan"}), sync' = "SCAN_LISTEN"
        PROVE  SeqInv'
    BY <1>4, <1>6, <1>n, <2>2
  <2> QED BY <1>6, <2>1, <2>2 DEF ScanNextChannel
<1>7. CASE ScanTimeoutAction(m)
  BY <1>6, <1>7 DEF ScanTimeoutAction, target
<1>8. CASE MlmeScanReqAction(m)
  <2>1. aux'.bssid = aux.bssid
    BY <1>8, Typed DEF MlmeScanReqAction, AuxFields
  <2> QED BY <1>6, <1>8, <2>1 DEF MlmeScanReqAction
<1>9. CASE MlmeJoinReqAction(m)
  <2>1. m.t \in Tokens /\ cntl = "WAIT_JOIN"
    BY <1>2, <1>9 DEF MlmeJoinReqAction, Tokens, Token, Fits, Awaited
  <2>2. AttemptOK'
    BY <1>2, <1>3, <2>1 DEF AttemptOK, Busy
  <2>3. PICK c : Serve(<<>>, c, {"beacon"})
    BY <1>9 DEF MlmeJoinReqAction
  <2> QED BY <1>1, <1>n, <2>1, <2>2, <2>3, TokenMoves
<1>c. /\ m.t = "JOIN_REQ" => Awaited(cntl, "JOIN_CONF") /\ m.t \in Tokens
      /\ m.t = "START_REQ" => Awaited(cntl, "START_CONF") /\ m.t \in Tokens
      /\ sync = "JOIN_WAIT_BEACON" => Awaited(cntl, "JOIN_CONF")
  BY <1>2 DEF Token, Fits, Awaited, Tokens, AttemptOK
<1>10. CASE MlmeStartReqAction(m)
  BY <1>5, <1>10, <1>c DEF MlmeStartReqAction
<1>11. CASE PeerBeaconAtJoinAction(m) \/ BeaconTimeoutAtJoinAction(m)
  BY <1>5, <1>11, <1>c DEF PeerBeaconAtJoinAction, BeaconTimeoutAtJoinAction
<1>12. CASE InvalidStateWhenSync(m)
  <2>1. Tell(ConfOf[m.t], "fail", {}, {}) /\ sync' = "IDLE" /\ m.t \in SyncRequests /\ aux' = aux
    BY <1>12 DEF InvalidStateWhenSync, target
  <2>2. CASE m.t = "SCAN_REQ"
    BY <1>4, <1>s, <2>1, <2>2, ConfNames DEF Tell
  <2>3. CASE m.t \in {"JOIN_REQ", "START_REQ"}
    BY <1>5, <1>c, <2>1, <2>3, ConfNames
  <2> QED BY <2>1, <2>2, <2>3 DEF SyncRequests
<1>13. CASE PeerBeacon(m) \/ SyncDrops(m)
  <2>1. Serve(<<>>, {}, {}) /\ sync' = sync /\ aux' = aux
    BY <1>13 DEF PeerBeacon, SyncDrops, Consume, target
  <2> QED BY <1>4, <1>n, <2>1
<1> QED
  BY <1>7, <1>8, <1>9, <1>10, <1>11, <1>12, <1>13 DEF SyncMachine

LEMMA AuthSeq ==
    ASSUME TypeInv, SeqInv, queue # <<>>, runner # "restart", runner' = runner, Bss' = Bss,
           NEW m, m = Head(queue), AuthMachine(m)
    PROVE  SeqInv'
<1>1. queue \in Seq(Messages) /\ m \in Messages
  BY Typed
<1>2. Token(m) /\ AttemptOK /\ (m.t \in Tokens => ~Busy)
  BY <1>1, TokenAtHead
<1>3. UNCHANGED <<cntl, sync, assoc, assocOk>>
  BY DEF AuthMachine, MlmeAuthReqAction, PeerAuthRspAtSeq2Action, PeerAuthRspAtSeq4Action,
     AuthTimeoutAction, InvalidStateWhenAuth, AuthDrops, history, accepted
<1>4. auth # "IDLE" \/ m.t = "AUTH_REQ" =>
        /\ cntl \in {"WAIT_AUTH", "WAIT_AUTH2"} /\ Awaited(cntl, "AUTH_CONF")
        /\ m.t \in Tokens \/ Busy
        /\ sync # "JOIN_WAIT_BEACON" /\ assoc # "WAIT_RSP"
  BY <1>2 DEF Token, Fits, Awaited, Tokens, AttemptOK, Busy
<1>n. <<>> \in Replies
  BY OneReply
<1>5. ASSUME NEW v \in {"ok", "fail"}, NEW c, AuthDone(v, c), auth # "IDLE" \/ m.t = "AUTH_REQ",
             v = "ok" => authOk' = aux'.bssid /\ aux'.bssid \in Bss
      PROVE  SeqInv'
  <2> DEFINE r == Conf("AUTH_CONF", v)
  <2>1. /\ r \in Replies /\ r # <<>> /\ r[1].t = "AUTH_CONF" /\ r[1].v = v
        /\ Serve(r, c, {}) /\ auth' = "IDLE"
    BY <1>5, Confirmation DEF Confirms, Tell, AuthDone
  <2> HIDE DEF r
  <2>2. TokenNext(r[1])
    BY <2>1, <1>3, <1>4, <1>5 DEF TokenNext, Fits
  <2>3. AttemptOK' /\ ~Busy'
    BY <2>1, <1>3, <1>4, <1>5 DEF AttemptOK, Busy
  <2> QED BY <1>1, <1>4, <1>5, <2>1, <2>2, <2>3, TokenMoves
<1>6. ASSUME NEW c, Serve(<<>>, c, {"auth"}), auth # "IDLE" \/ m.t = "AUTH_REQ"
      PROVE  SeqInv'
  <2>1. AttemptOK'
    BY <1>3, <1>4, <1>6 DEF AttemptOK
  <2> QED BY <1>1, <1>4, <1>6, <1>n, <2>1, TokenMoves
<1>7. CASE MlmeAuthReqAction(m)
  BY <1>5, <1>6, <1>7 DEF MlmeAuthReqAction
<1>a. m.t \in {"AUTH_SEQ2", "AUTH_SEQ4"} => m.x \in Bss /\ m.v \in {"ok", "fail"}
  BY <1>1, MessageKinds DEF FrameTypes
<1>8. CASE PeerAuthRspAtSeq2Action(m)
  BY <1>5, <1>6, <1>8, <1>a DEF PeerAuthRspAtSeq2Action
<1>9. CASE PeerAuthRspAtSeq4Action(m)
  BY <1>5, <1>9, <1>a DEF PeerAuthRspAtSeq4Action
<1>10. CASE AuthTimeoutAction(m) \/ InvalidStateWhenAuth(m)
  BY <1>5, <1>10 DEF AuthTimeoutAction, InvalidStateWhenAuth
<1>11. CASE AuthDrops(m)
  <2>1. Serve(<<>>, {}, {}) /\ auth' = auth /\ aux' = aux /\ authOk' = authOk
    BY <1>11 DEF AuthDrops, Consume, history, accepted
  <2> QED BY <1>1, <1>3, <1>n, <2>1, TokenStays
<1> QED BY <1>7, <1>8, <1>9, <1>10, <1>11 DEF AuthMachine

LEMMA AssocSeq ==
    ASSUME TypeInv, SeqInv, queue # <<>>, runner # "restart", runner' = runner, Bss' = Bss,
           NEW m, m = Head(queue), AssocMachine(m)
    PROVE  SeqInv'
<1>1. queue \in Seq(Messages) /\ m \in Messages
  BY Typed
<1>2. Token(m) /\ AttemptOK /\ (m.t \in Tokens => ~Busy)
  BY <1>1, TokenAtHead
<1>3. UNCHANGED <<cntl, sync, auth, authOk>>
  BY DEF AssocMachine, MlmeAssocReqAction, MlmeDisassocReqAction, PeerAssocRspAction,
     PeerDisassocAction, AssocTimeoutAction, DisassocTimeoutAction, InvalidStateWhenAssoc,
     AssocDrops, history, accepted
<1>4. assoc = "WAIT_RSP" \/ m.t = "ASSOC_REQ" =>
        /\ cntl = "WAIT_ASSOC" /\ Awaited(cntl, "ASSOC_CONF")
        /\ m.t \in Tokens \/ Busy
        /\ sync # "JOIN_WAIT_BEACON" /\ auth = "IDLE"
        /\ authOk = aux.bssid /\ aux.bssid \in Bss
  BY <1>2 DEF Token, Fits, Awaited, Tokens, AttemptOK, Busy
<1>5. aux'.bssid = aux.bssid
  <2>1. m.t = "ASSOC_REQ" => m.x = aux.bssid
    BY <1>2 DEF Token, Fits, Tokens
  <2> QED
    BY <2>1, Typed DEF AuxFields, AssocMachine, MlmeAssocReqAction, MlmeDisassocReqAction,
       PeerAssocRspAction, PeerDisassocAction, AssocTimeoutAction, DisassocTimeoutAction,
       InvalidStateWhenAssoc, AssocDrops
<1>n. <<>> \in Replies
  BY OneReply
<1>6. ASSUME NEW v \in {"ok", "fail"}, NEW c, AssocDone("ASSOC_CONF", v, c),
             assoc = "WAIT_RSP" \/ m.t = "ASSOC_REQ", v = "ok" => assocOk' = aux.bssid
      PROVE  SeqInv'
  <2> DEFINE r == Conf("ASSOC_CONF", v)
  <2>1. /\ r \in Replies /\ r # <<>> /\ r[1].t = "ASSOC_CONF" /\ r[1].v = v
        /\ Serve(r, c, {}) /\ assoc' = "IDLE"
    BY <1>6, Confirmation DEF Confirms, Tell, AssocDone
  <2> HIDE DEF r
  <2>2. TokenNext(r[1])
    BY <2>1, <1>3, <1>4, <1>5, <1>6 DEF TokenNext, Fits
  <2>3. AttemptOK' /\ ~Busy'
    BY <2>1, <1>3, <1>4, <1>5, <1>6 DEF AttemptOK, Busy
  <2> QED BY <1>1, <1>4, <1>6, <2>1, <2>2, <2>3, TokenMoves
<1>7. ASSUME NEW r \in Replies, NEW c, NEW a, Serve(r, c, a), r # <<>> => r[1].t \notin Tokens,
             assocOk' = assocOk, assoc' = "WAIT_RSP" => assoc = "WAIT_RSP"
      PROVE  SeqInv'
  BY <1>1, <1>3, <1>5, <1>7, TokenStays
<1>8. ASSUME NEW v \in {"ok", "fail"}, NEW c, AssocDone("DISASSOC_CONF", v, c), assocOk' = assocOk
      PROVE  SeqInv'
  <2> DEFINE r == Conf("DISASSOC_CONF", v)
  <2>1. r \in Replies /\ r[1].t \notin Tokens /\ Serve(r, c, {}) /\ assoc' = "IDLE"
    BY <1>8, Confirmation DEF Confirms, Tell, AssocDone, Tokens
  <2> HIDE DEF r
  <2> QED BY <1>7, <1>8, <2>1
<1>9. CASE MlmeAssocReqAction(m)
  <2>1. assocOk' = assocOk /\ m.t = "ASSOC_REQ"
    BY <1>9 DEF MlmeAssocReqAction, history, accepted
  <2>2. CASE Serve(<<>>, {"assoc"}, {"assoc"}) /\ assoc' = "WAIT_RSP"
    <3>1. AttemptOK'
      BY <1>3, <1>4, <1>5, <2>1, <2>2 DEF AttemptOK
    <3> QED BY <1>1, <1>4, <1>n, <2>1, <2>2, <3>1, TokenMoves
  <2> QED BY <1>6, <1>9, <2>1, <2>2 DEF MlmeAssocReqAction
<1>10. CASE MlmeDisassocReqAction(m)
  <2>1. assocOk' = assocOk
    BY <1>10 DEF MlmeDisassocReqAction, history, accepted
  <2>2. CASE Serve(<<>>, {"disassoc"}, {"disassoc"}) /\ assoc' = "DISASSOC_WAIT_RSP"
    BY <1>7, <1>n, <2>1, <2>2
  <2> QED BY <1>8, <1>10, <2>1, <2>2 DEF MlmeDisassocReqAction
<1>11. CASE PeerAssocRspAction(m)
  <2>1. m.x \in Bss /\ m.v \in {"ok", "fail"}
    BY <1>1, <1>11, MessageKinds DEF FrameTypes, PeerAssocRspAction
  <2> QED BY <1>6, <1>11, <2>1 DEF PeerAssocRspAction
<1>12. CASE AssocTimeoutAction(m)
  BY <1>6, <1>12 DEF AssocTimeoutAction
<1>13. CASE DisassocTimeoutAction(m)
  <2>1. assocOk' = assocOk
    BY <1>13 DEF DisassocTimeoutAction, history, accepted
  <2> QED BY <1>8, <1>13, <2>1 DEF DisassocTimeoutAction
<1>14. CASE InvalidStateWhenAssoc(m)
  <2>1. assocOk' = assocOk /\ m.t \in {"ASSOC_REQ", "DISASSOC_REQ"}
        /\ AssocDone(ConfOf[m.t], "fail", {})
    BY <1>14 DEF InvalidStateWhenAssoc, history, accepted
  <2>2. CASE m.t = "ASSOC_REQ"
    BY <1>6, <2>1, <2>2, ConfNames
  <2>3. CASE m.t = "DISASSOC_REQ"
    BY <1>8, <2>1, <2>3, ConfNames
  <2> QED BY <2>1, <2>2, <2>3
<1>15. CASE PeerDisassocAction(m) \/ AssocDrops(m)
  <2>1. Serve(<<>>, {}, {}) /\ assocOk' = assocOk /\ (assoc' = assoc \/ assoc' = "IDLE")
    BY <1>15 DEF PeerDisassocAction, AssocDrops, Consume, history, accepted
  <2> QED BY <1>7, <1>n, <2>1
<1> QED
  BY <1>9, <1>10, <1>11, <1>12, <1>13, <1>14, <1>15 DEF AssocMachine

LEMMA DispatchSeq ==
    ASSUME TypeInv, SeqInv, OidsInSequence, Dispatch
    PROVE  SeqInv'
<1> DEFINE m == Head(queue)
<1>1. /\ queue # <<>> /\ runner # "restart" /\ runner' = runner /\ scenario' = scenario
      /\ ~Overtakes(m)
      /\ \/ MlmeCntlMachinePerformAction(m) \/ SyncMachine(m) \/ AuthMachine(m)
         \/ PeerDeauthAction(m) \/ AssocMachine(m)
  BY DEF Dispatch, OidsInSequence
<1>2. Bss' = Bss /\ queue \in Seq(Messages)
  BY <1>1, SameScenario, Typed
<1> HIDE DEF m
<1>3. CASE MlmeCntlMachinePerformAction(m)
  BY <1>1, <1>2, <1>3, CntlSeq DEF m
<1>4. CASE PeerDeauthAction(m)
  <2>1. /\ Serve(<<>>, {}, {}) /\ <<>> \in Replies
        /\ UNCHANGED <<cntl, sync, auth, assoc, aux, authOk, assocOk>>
    BY <1>4, OneReply DEF PeerDeauthAction, Consume, machines, target, history, accepted
  <2> QED BY <1>1, <1>2, <2>1, TokenStays
<1>5. CASE SyncMachine(m) \/ AuthMachine(m) \/ AssocMachine(m)
  BY <1>1, <1>2, <1>5, SyncSeq, AuthSeq, AssocSeq DEF m
<1> QED BY <1>1, <1>3, <1>4, <1>5

\* Between two messages: what is enqueued is no token, CNTL may start a scan from IDLE, and
\* only a restart stops the machines.
Between ==
    /\ UNCHANGED <<scenario, aux, authOk, assocOk, sync, auth, assoc>>
    /\ cntl' = cntl \/ (cntl = "IDLE" /\ cntl' = "WAIT_OID_LIST_SCAN")
    /\ queue' = queue \/ queue' = <<>> \/ \E x \in Messages : x.t \notin Tokens /\ Enqueue(x)
    /\ runner' = "restart" => runner = "restart" \/ queue' = <<>>
    /\ UNCHANGED <<link, bssid>> \/ link' = "down"

LEMMA NoTokens ==
    /\ \A x \in Requests : x \in Messages /\ x.t \notin Tokens
    /\ \A x \in Frames : x \in Messages /\ x.t \notin Tokens
    /\ \A t \in MachineTimers : /\ Signal(TimeoutOf[t]) \in Messages
                                /\ Signal(TimeoutOf[t]).t \notin Tokens
<1>1. \A x \in Requests : x.t \in {"OID_SSID", "OID_SCAN", "OID_DISASSOC", "OID_BSSID", "ROAMING_REQ",
                                   "SCAN_REQ", "DISASSOC_REQ"}
  BY DEF Requests, Oids, Signal, Msg
<1>2. \A x \in Requests : x.t \notin Tokens
  BY <1>1 DEF Tokens
<1>3. \A x \in Frames : x.t \notin Tokens
  BY FrameKinds DEF FrameTypes, Tokens
<1>4. ASSUME NEW t \in MachineTimers
      PROVE  Signal(TimeoutOf[t]) \in Messages /\ Signal(TimeoutOf[t]).t \notin Tokens
  <2>1. TimeoutOf[t] \in Timeouts
    BY TimeoutNames DEF Timeouts, MachineTimers
  <2>2. Signal(TimeoutOf[t]) \in Messages /\ Signal(TimeoutOf[t]).t = TimeoutOf[t]
    BY <2>1, PlainMessage DEF Signal, PlainTypes
  <2> QED BY <2>1, <2>2 DEF Timeouts, Tokens
<1> QED BY <1>2, <1>3, <1>4, PeerMessages

LEMMA DecideBetween ==
    ASSUME NEW p \in Posters, NEW x \in Requests, NEW state \in {"none", "WAIT_OID_LIST_SCAN"},
           Decide(p, x, state),
           UNCHANGED <<scenario, aux, authOk, assocOk, sync, auth, assoc>>,
           UNCHANGED <<link, bssid>> \/ link' = "down",
           state # "none" => cntl = "IDLE"
    PROVE  Between
<1>1. CASE Smp
  BY <1>1 DEF Decide, Between
<1>2. CASE ~Smp
  <2>1. Enqueue(x) /\ WriteCntl(state) /\ (CallHandler("softirq") \/ UNCHANGED runner)
    BY <1>2 DEF Decide
  <2>2. cntl' = cntl \/ (cntl = "IDLE" /\ cntl' = "WAIT_OID_LIST_SCAN")
    BY <2>1 DEF WriteCntl, CntlStates
  <2>3. runner' = "restart" => runner = "restart"
    BY <2>1 DEF CallHandler
  <2> QED BY <2>1, <2>2, <2>3, NoTokens DEF Between
<1> QED BY <1>1, <1>2

LEMMA BetweenSteps ==
    ASSUME TypeInv, MicInv, JobInv, Orderly, [Next]_vars, ~Dispatch
    PROVE  RestartReset \/ Between
<1>r. /\ Signal("OID_SSID") \in Requests /\ Signal("OID_SCAN") \in Requests
      /\ Signal("ROAMING_REQ") \in Requests /\ Signal("SCAN_REQ") \in Requests
  BY DEF Requests, Oids
<1>p. "periodic" \in Posters
  BY DEF Posters
<1>j. \A q \in Posters : job[q] \in Jobs /\ job[q].set \in {"none", "call"}
  <2> SUFFICES ASSUME NEW q \in Posters
               PROVE  job[q] \in Jobs /\ job[q].set \in {"none", "call"}
    OBVIOUS
  <2>1. job[q] \in Jobs
    BY DEF TypeInv, TypeOK
  <2>2. job[q].set \notin Notes
    BY DEF JobInv, Orderly
  <2> QED BY <2>1, <2>2, JobFacts
<1>1. UNCHANGED vars \/ EnterHandler \/ LeaveHandler \/ UserCall \/ MicError \/ Unblock => Between
  BY DEF vars, machines, target, net, history, accepted, rest, EnterHandler, LeaveHandler,
     UserCall, MicError, Unblock, Between
<1>2. ASSUME NEW x \in Frames, MlmeEnqueueForRecv(x) PROVE Between
  <2>1. x \in Messages /\ x.t \notin Tokens
    BY NoTokens
  <2> QED
    BY <1>2, <2>1 DEF MlmeEnqueueForRecv, CallHandler, machines, target, net, history, accepted, rest,
       Between
<1>3. ASSUME NEW t \in MachineTimers, Fire(t) PROVE Between
  <2> DEFINE x == Signal(TimeoutOf[t])
  <2>1. x \in Messages /\ x.t \notin Tokens /\ Enqueue(x)
    BY <1>3, NoTokens DEF Fire
  <2>2. runner' = "restart" => runner = "restart"
    BY <1>3 DEF Fire, CallHandler, MachineTimers
  <2> HIDE DEF x
  <2> QED BY <1>3, <2>1, <2>2 DEF Fire, machines, target, net, history, accepted, rest, Between
<1>4. ASSUME NEW x \in Oids, UserRequest(x) PROVE Between
  BY <1>4 DEF UserRequest, machines, target, net, history, accepted, rest, Between
<1>5. ASSUME NEW q \in Posters, Post(q) PROVE Between
  <2> DEFINE x == Head(job[q].post)
  <2>1. x \in Requests /\ Enqueue(x)
    BY <1>5, <1>j, JobFacts DEF Post
  <2> HIDE DEF x
  <2> QED
    BY <1>5, <2>1, NoTokens DEF Post, machines, target, net, history, accepted, rest, Between
<1>6. ASSUME NEW q \in Posters, SetCntl(q) PROVE Between
  <2>1. cntl' = cntl
    BY <1>6, <1>j DEF SetCntl, WriteCntl, CntlStates
  <2> QED
    BY <1>6, <2>1 DEF SetCntl, machines, target, net, history, accepted, Between
<1>7. ASSUME NEW q \in {"periodic", "tx"}, MicCountermeasure(q) PROVE Between
  BY <1>7 DEF MicCountermeasure, MicInv, Orderly
<1>8. ASSUME NEW x \in {Signal("OID_SSID"), Signal("OID_SCAN")}, AutoRequest(x) PROVE Between
  BY <1>8, <1>r, <1>p, DecideBetween DEF AutoRequest, machines, target, net, history, accepted
<1>9. AutoScan => Between
  BY <1>r, <1>p, DecideBetween DEF AutoScan, machines, target, net, history, accepted
<1>10. MlmeCheckForFastRoaming => Between
  BY <1>r, <1>p, DecideBetween
  DEF MlmeCheckForFastRoaming, Orderly, machines, target, net, history, accepted
<1>11. LostBeacons => Between
  <2> SUFFICES ASSUME LostBeacons PROVE Between
    OBVIOUS
  <2>1. /\ UNCHANGED <<scenario, aux, authOk, assocOk, sync, auth, assoc>>
        /\ UNCHANGED <<link, bssid>> \/ link' = "down"
    BY DEF LostBeacons, LinkDown, machines, target, history, accepted
  <2>2. \/ Decide("periodic", Signal("OID_SSID"), "none")
        \/ UNCHANGED <<queue, runner, cntl>>
    BY DEF LostBeacons
  <2>3. CASE Decide("periodic", Signal("OID_SSID"), "none")
    BY <2>1, <2>3, <1>r, <1>p, DecideBetween
  <2> QED BY <2>1, <2>2, <2>3 DEF Between
<1>12. PeriodicExec => Between
  BY <1>1, <1>8, <1>9, <1>10, <1>11 DEF PeriodicExec
<1>13. ASSUME NEW q \in Posters, Poster(q) PROVE Between
  BY <1>1, <1>5, <1>6, <1>13 DEF Poster
<1> QED
  BY <1>1, <1>2, <1>3, <1>4, <1>7, <1>12, <1>13 DEF Next, Handler

LEMMA SeqNext ==
    TypeInv /\ MicInv /\ JobInv /\ Orderly /\ OidsInSequence /\ SeqInv /\ [Next]_vars => SeqInv'
<1> SUFFICES ASSUME TypeInv, MicInv, JobInv, Orderly, OidsInSequence, SeqInv, [Next]_vars
             PROVE  SeqInv'
  OBVIOUS
<1>1. CASE Dispatch
  BY <1>1, DispatchSeq
<1>2. CASE RestartReset
  <2>1. /\ queue' = queue /\ cntl' = "IDLE" /\ sync' = "IDLE" /\ auth' = "IDLE" /\ assoc' = "IDLE"
        /\ runner = "restart"
    BY <1>2 DEF RestartReset
  <2> QED BY <2>1 DEF SeqInv, NoToken, AttemptOK, Busy, Token, Fits
<1>3. CASE Between
  <2>1. Bss' = Bss /\ UNCHANGED <<aux, authOk, assocOk, sync, auth, assoc>>
    BY <1>3, SameScenario DEF Between
  <2>2. queue \in Seq(Messages)
    BY Typed
  <2>3. \A i \in DOMAIN queue' :
          queue'[i].t \in Tokens => i \in DOMAIN queue /\ queue'[i] = queue[i]
    <3>1. CASE queue' = queue \/ queue' = <<>>
      BY <3>1
    <3>2. ASSUME NEW x \in Messages, x.t \notin Tokens, Enqueue(x)
          PROVE  \A i \in DOMAIN queue' :
                   queue'[i].t \in Tokens => i \in DOMAIN queue /\ queue'[i] = queue[i]
      <4>1. queue \o <<x>> = Append(queue, x)
        BY <2>2
      <4>2. queue' = queue \/ queue' = Append(queue, x)
        BY <3>2, <4>1 DEF Enqueue, Put
      <4>3. \A i \in DOMAIN Append(queue, x) :
              \/ i \in DOMAIN queue /\ Append(queue, x)[i] = queue[i]
              \/ Append(queue, x)[i] = x
        BY <2>2
      <4> QED BY <3>2, <4>2, <4>3
    <3> QED BY <1>3, <3>1, <3>2 DEF Between
  <2>4. \A i \in DOMAIN queue : Token(queue[i]) /\ (cntl = "IDLE" => queue[i].t \notin Tokens)
    BY TokenNames DEF SeqInv, Token, Fits
  <2>5. AttemptOK'
    BY <1>3, <2>1 DEF Between, SeqInv, AttemptOK
  <2>6. \A i \in DOMAIN queue' : Fits(queue'[i], cntl', aux'.bssid, authOk', assocOk', Bss')
    <3> SUFFICES ASSUME NEW i \in DOMAIN queue', queue'[i].t \in Tokens
                 PROVE  Fits(queue'[i], cntl', aux'.bssid, authOk', assocOk', Bss')
      BY DEF Fits
    <3>1. i \in DOMAIN queue /\ queue'[i] = queue[i] /\ cntl' = cntl
      BY <1>3, <2>3, <2>4 DEF Between
    <3>2. Fits(queue[i], cntl, aux.bssid, authOk, assocOk, Bss)
      BY <3>1, <2>4 DEF Token
    <3> QED BY <3>1, <3>2, <2>1
  <2>7. \A i, j \in DOMAIN queue' : queue'[i].t \in Tokens /\ queue'[j].t \in Tokens => i = j
    BY <2>3 DEF SeqInv
  <2>8. Busy' \/ runner' = "restart" => \A i \in DOMAIN queue' : queue'[i].t \notin Tokens
    BY <1>3, <2>1, <2>3 DEF Between, Busy, SeqInv, NoToken
  <2> QED BY <2>5, <2>6, <2>7, <2>8 DEF SeqInv, Token, NoToken
<1> QED BY <1>1, <1>2, <1>3, BetweenSteps

\* Where the link comes up.
LEMMA LinkStep ==
    ASSUME TypeInv, NEW m, m = Head(queue), Dispatch, LinkComesUp
    PROVE  /\ cntl = "WAIT_ASSOC" /\ m.t = "ASSOC_CONF" /\ m.v = "ok"
           /\ bssid' = aux.bssid
<1>1. /\ link' = "infra" /\ (link # "infra" \/ bssid' # bssid)
  BY DEF LinkComesUp
<1>2. CASE MlmeCntlMachinePerformAction(m)
  <2>1. UNCHANGED net \/ DropAdhoc \/ LinkDown \/ LinkUp("adhoc") => FALSE
    BY <1>1 DEF net, DropAdhoc, LinkDown, LinkUp
  <2>2. ~CntlOidSsidProc(m) /\ ~CntlOidRTBssidProc(m) /\ ~CntlOidScanProc(m)
    BY <2>1 DEF CntlOidSsidProc, CntlOidRTBssidProc, CntlOidScanProc
  <2>3. ~CntlIdleProc(m) /\ ~CntlWaitDisassocProc(m) /\ ~CntlWaitOidDisassoc(m) /\ ~CntlDrops(m)
    BY <2>1 DEF CntlIdleProc, CntlMlmeRoamingProc, CntlWaitDisassocProc, CntlWaitOidDisassoc, CntlDrops
  <2>4. ~CntlWaitJoinProc(m) /\ ~CntlWaitStartProc(m)
    BY <2>1 DEF CntlWaitJoinProc, CntlWaitStartProc, TryNextBss, AskAuth
  <2>5. ~CntlWaitAuthProc(m) /\ ~CntlWaitAuthProc2(m) /\ ~CntlWaitScan(m)
    BY <2>1 DEF CntlWaitAuthProc, CntlWaitAuthProc2, CntlWaitScan, TryNextBss, AskAuth, AskAssoc
  <2>6. CntlWaitAssocProc(m)
    BY <1>2, <2>2, <2>3, <2>4, <2>5 DEF MlmeCntlMachinePerformAction
  <2> QED BY <2>6, <2>1 DEF CntlWaitAssocProc, TryNextBss, LinkUp
<1>3. CASE SyncMachine(m)
  <2>1. UNCHANGED net \/ LinkDown => FALSE
    BY <1>1 DEF net, LinkDown
  <2>2. PeerBeacon(m) => FALSE
    BY <2>1, <1>1 DEF PeerBeacon
  <2> QED
    BY <1>3, <2>1, <2>2 DEF SyncMachine, ScanTimeoutAction, MlmeScanReqAction, MlmeJoinReqAction,
       MlmeStartReqAction, PeerBeaconAtJoinAction, BeaconTimeoutAtJoinAction, InvalidStateWhenSync,
       SyncDrops
<1>4. CASE AuthMachine(m) \/ PeerDeauthAction(m)
  BY <1>1, <1>4 DEF AuthMachine, PeerDeauthAction, LinkDown, net
<1>5. CASE AssocMachine(m)
  BY <1>1, <1>5 DEF AssocMachine, MlmeAssocReqAction, MlmeDisassocReqAction, PeerAssocRspAction,
     PeerDisassocAction, AssocTimeoutAction, DisassocTimeoutAction, InvalidStateWhenAssoc,
     AssocDrops, LinkDown, net
<1> QED BY <1>2, <1>3, <1>4, <1>5 DEF Dispatch

LEMMA EarnedStep ==
    TypeInv /\ MicInv /\ JobInv /\ Orderly /\ SeqInv /\ [Next]_vars => (LinkComesUp => Earned)
<1> SUFFICES ASSUME TypeInv, MicInv, JobInv, Orderly, SeqInv, [Next]_vars, LinkComesUp
             PROVE  Earned
  OBVIOUS
<1>1. CASE Dispatch
  <2> DEFINE m == Head(queue)
  <2>1. /\ cntl = "WAIT_ASSOC" /\ m.t = "ASSOC_CONF" /\ m.v = "ok" /\ bssid' = aux.bssid
    BY <1>1, LinkStep
  <2>2. queue \in Seq(Messages) /\ queue # <<>> /\ NoBss \notin Bss
    BY <1>1, Typed, ScenarioFacts DEF Dispatch
  <2>3. Token(m) /\ AttemptOK
    BY <2>2, TokenAtHead
  <2> HIDE DEF m
  <2>4. assocOk = aux.bssid /\ authOk = aux.bssid /\ aux.bssid \in Bss
    BY <2>1, <2>3 DEF Token, Fits, Tokens, AttemptOK
  <2> QED BY <2>1, <2>2, <2>4 DEF Earned
<1>2. CASE ~Dispatch
  <2>1. RestartReset => UNCHANGED <<link, bssid>>
    BY DEF RestartReset, net
  <2> QED BY <1>2, <2>1, BetweenSteps DEF LinkComesUp, Between
<1> QED BY <1>1, <1>2

\* If requests are served in sequence, as connect.c:302 expects, the link only comes up with an
\* AP that has accepted the last authentication and the last association: whatever frames,
\* timeouts, rejections, restarts and automatic scans cross, for any number of APs, requests
\* and queued frames.  Without MIC countermeasures and scans in order to roam, which
\* overwrite the state of CNTL in the middle of an attempt, too.
THEOREM LinkIsEarnedInSequence ==
    Spec /\ []OidsInSequence /\ Orderly => LinkUpIsEarned /\ [][LinkComesUp => Earned]_vars
<1>1. Init => MicInv /\ JobInv /\ SeqInv
  <2> SUFFICES ASSUME Init PROVE MicInv /\ JobInv /\ SeqInv
    OBVIOUS
  <2>1. JobInv
    BY QuietJobs DEF Init, JobInv, Quiet
  <2> QED
    BY <2>1 DEF Init, MicInv, SeqInv, AttemptOK, NoToken
<1>2. TypeInv /\ MicInv /\ JobInv /\ Orderly /\ SeqInv /\ [Next]_vars
        => [LinkComesUp => Earned]_vars
  BY EarnedStep
<1>3. [LinkComesUp => Earned]_vars => [LinkComesUp => Earned \/ overruns = MaxOverruns]_vars
  OBVIOUS
<1>4. TypeInv /\ Orderly /\ [Next]_vars => Orderly'
  <2> SUFFICES ASSUME TypeInv, Orderly, [Next]_vars PROVE Orderly'
    OBVIOUS
  <2>1. NotesLate' = NotesLate /\ Disturbances' = Disturbances
    BY ScenarioKept
  <2> QED BY <2>1 DEF Orderly
<1> QED
  BY <1>1, <1>2, <1>3, <1>4, TypeInit, TypeNext, MicNext, JobNext, SeqNext, PTL
  DEF Spec, LinkUpIsEarned

---------------------------------------------------------------------------
(* The user alone, on one CPU *)

\* Nobody but the user makes requests, and there is one CPU.
UserAlone ==
    ~Smp /\ Disturbances \cap {"auto", "autoScan", "noBeacon", "roam", "roamScan", "mic"} = {}

\* A request is decided, then queued, then served: CNTL is idle until then, and the next one
\* comes after the call of MlmeHandler.
Requested == \E i \in DOMAIN queue : queue[i].t \in UserTypes
OneRequest ==
    /\ \A i \in DOMAIN queue : queue[i].t # "ROAMING_REQ"
    /\ \A i, j \in DOMAIN queue : queue[i].t \in UserTypes /\ queue[j].t \in UserTypes => i = j
OnItsWay ==
    Requested =>
        /\ cntl = "IDLE" /\ runner # "restart" /\ job["user"].post = <<>>
        /\ runner = "none" => job["user"] # NoJob
Decided ==
    job["user"].post # <<>> =>
        /\ Head(job["user"].post).t \in UserTypes /\ job["user"].set = "call"
        /\ cntl = "IDLE" \/ runner = "restart"
OthersRest == micErr = FALSE /\ \A p \in {"periodic", "tx"} : job[p] = NoJob
AloneInv == UserAlone /\ OthersRest /\ OneRequest /\ OnItsWay /\ Decided

LEMMA AloneDispatch ==
    ASSUME TypeInv, AloneInv, Dispatch, UserAlone', micErr' = FALSE
    PROVE  AloneInv'
<1> DEFINE m == Head(queue)
<1>1. /\ queue \in Seq(Messages) /\ queue # <<>> /\ m \in Messages
      /\ runner \notin {"none", "restart"} /\ UNCHANGED <<runner, job>>
      /\ \/ MlmeCntlMachinePerformAction(m) \/ SyncMachine(m) \/ AuthMachine(m)
         \/ PeerDeauthAction(m) \/ AssocMachine(m)
  BY Typed DEF Dispatch
<1>2. PICK r \in Replies : \E c, a : Serve(r, c, a) /\ \A t \in Outside : ~Posts(r, t)
  BY DispatchServed DEF Served
<1>3. m = queue[1] /\ 1 \in DOMAIN queue
  BY <1>1
<1> HIDE DEF m
<1>4. \A i \in DOMAIN queue' :
        queue'[i].t \in UserTypes \cup {"ROAMING_REQ"} =>
            i \in Nat /\ i + 1 \in DOMAIN queue /\ queue'[i] = queue[i + 1]
  BY <1>1, <1>2, ServedElements DEF Posts, Outside
<1>5. \A i \in DOMAIN queue' : queue'[i].t # "ROAMING_REQ"
  BY <1>4 DEF AloneInv, OthersRest, OneRequest, OnItsWay, Decided
<1>6. ASSUME NEW i \in DOMAIN queue', NEW j \in DOMAIN queue',
             queue'[i].t \in UserTypes, queue'[j].t \in UserTypes
      PROVE  i = j
  <2>1. i + 1 = j + 1 /\ i \in Nat /\ j \in Nat
    BY <1>4, <1>6 DEF AloneInv, OthersRest, OneRequest, OnItsWay, Decided
  <2> QED BY <2>1
<1>7. CASE m.t \in UserTypes
  <2>1. ASSUME NEW i \in DOMAIN queue', queue'[i].t \in UserTypes
        PROVE  FALSE
    <3>1. i \in Nat /\ i + 1 = 1
      BY <1>3, <1>4, <1>7, <2>1 DEF AloneInv, OthersRest, OneRequest, OnItsWay, Decided
    <3>2. i = 0 /\ DOMAIN queue' = 1 .. Len(queue')
      BY <3>1, <1>1, <1>2, ServedElements
    <3> QED BY <3>2, <2>1
  <2>2. ~Requested'
    BY <2>1 DEF Requested
  <2>3. job["user"].post = <<>>
    BY <1>3, <1>7 DEF AloneInv, OthersRest, OneRequest, OnItsWay, Decided, Requested
  <2> QED BY <1>1, <1>5, <1>6, <2>2, <2>3 DEF AloneInv, OthersRest, OneRequest, OnItsWay, Decided
<1>8. CASE m.t \notin UserTypes
  <2>1. m.t # "ROAMING_REQ"
    BY <1>3 DEF AloneInv, OthersRest, OneRequest, OnItsWay, Decided
  <2>2. cntl = "IDLE" => cntl' = "IDLE"
    <3> SUFFICES ASSUME cntl = "IDLE" PROVE cntl' = "IDLE"
      OBVIOUS
    <3>1. CASE MlmeCntlMachinePerformAction(m)
      BY <1>8, <2>1, <3>1 DEF MlmeCntlMachinePerformAction, CntlOidSsidProc, CntlOidRTBssidProc,
         CntlOidScanProc, CntlIdleProc, CntlMlmeRoamingProc, CntlWaitDisassocProc,
         CntlWaitOidDisassoc, CntlWaitJoinProc, CntlWaitStartProc, CntlWaitAuthProc,
         CntlWaitAuthProc2, CntlWaitAssocProc, CntlWaitScan, CntlDrops, UserTypes
    <3>2. CASE SyncMachine(m) \/ AuthMachine(m) \/ PeerDeauthAction(m) \/ AssocMachine(m)
      BY <3>2 DEF SyncMachine, AuthMachine, PeerDeauthAction, AssocMachine
    <3> QED BY <1>1, <3>1, <3>2
  <2>3. Requested' => Requested
    BY <1>4 DEF Requested
  <2> QED BY <1>1, <1>5, <1>6, <2>2, <2>3 DEF AloneInv, OthersRest, OneRequest, OnItsWay, Decided
<1> QED BY <1>7, <1>8

\* A message that is no request comes in.
LEMMA AloneEnters ==
    ASSUME TypeInv, AloneInv, UserAlone', UNCHANGED <<cntl, job, micErr>>,
           NEW x \in Messages, x.t \notin UserTypes, x.t # "ROAMING_REQ", Enqueue(x),
           runner' = "restart" <=> runner = "restart", runner' = "none" => runner = "none"
    PROVE  AloneInv'
<1>1. queue \in Seq(Messages)
  BY Typed
<1>2. queue \o <<x>> = Append(queue, x)
  BY <1>1
<1>3. queue' = queue \/ queue' = Append(queue, x)
  BY <1>2 DEF Enqueue, Put
<1>4. \A i \in DOMAIN Append(queue, x) :
        \/ i \in DOMAIN queue /\ Append(queue, x)[i] = queue[i]
        \/ Append(queue, x)[i] = x
  BY <1>1
<1>5. \A i \in DOMAIN queue' :
        \/ i \in DOMAIN queue /\ queue'[i] = queue[i]
        \/ queue'[i] = x
  BY <1>3, <1>4
<1>6. Requested' => Requested
  BY <1>5 DEF Requested
<1>7. \A i \in DOMAIN queue' : queue'[i].t # "ROAMING_REQ"
  BY <1>5 DEF AloneInv, OthersRest, OneRequest, OnItsWay, Decided
<1>8. \A i, j \in DOMAIN queue' :
        queue'[i].t \in UserTypes /\ queue'[j].t \in UserTypes => i = j
  BY <1>5 DEF AloneInv, OthersRest, OneRequest, OnItsWay, Decided
<1> QED BY <1>6, <1>7, <1>8 DEF AloneInv, OthersRest, OneRequest, OnItsWay, Decided

LEMMA AlonePost ==
    ASSUME TypeInv, AloneInv, UserAlone', Post("user")
    PROVE  AloneInv'
<1> DEFINE x == Head(job["user"].post)
<1>1. /\ job["user"].post # <<>> /\ runner = "none" /\ Enqueue(x)
      /\ x.t \in UserTypes /\ job["user"].set = "call" /\ cntl = "IDLE" /\ ~Requested
  BY DEF Post, Process, AloneInv, Decided, OnItsWay, UserAlone
<1>2. /\ job \in [Posters -> Jobs] /\ queue \in Seq(Messages) /\ "user" \in Posters
  BY Typed DEF TypeInv, TypeOK, Posters
<1>3. /\ job' = [job EXCEPT !["user"] = [job["user"] EXCEPT !.post = <<>>]]
      /\ UNCHANGED <<runner, cntl, micErr>>
  BY <1>1 DEF Post, rest, net
<1>4. job["user"] \in [post : Seq(Requests),
                       set : {"none", "call", "WAIT_OID_LIST_SCAN", "WAIT_DISASSOC"}]
  BY <1>2 DEF Jobs
<1>5. job'["user"].post = <<>> /\ job'["user"].set = "call"
  BY <1>1, <1>2, <1>3, <1>4
<1>6. job'["user"] # NoJob
  BY <1>5 DEF NoJob
<1>7. \A p \in {"periodic", "tx"} : job'[p] = NoJob
  BY <1>2, <1>3 DEF AloneInv, OthersRest, OneRequest, OnItsWay, Decided, Posters
<1> HIDE DEF x
<1>9. queue \o <<x>> = Append(queue, x)
  BY <1>2
<1>10. queue' = queue \/ queue' = Append(queue, x)
  BY <1>1, <1>9 DEF Enqueue, Put
<1>11. \A i \in DOMAIN Append(queue, x) :
         \/ i \in DOMAIN queue /\ Append(queue, x)[i] = queue[i]
         \/ i = Len(queue) + 1 /\ Append(queue, x)[i] = x
  BY <1>2
<1>12. \A i \in DOMAIN queue' :
         \/ i \in DOMAIN queue /\ queue'[i] = queue[i]
         \/ i = Len(queue) + 1 /\ queue'[i] = x
  BY <1>10, <1>11
<1>13. \A i \in DOMAIN queue' : queue'[i].t # "ROAMING_REQ"
  BY <1>1, <1>12 DEF AloneInv, OthersRest, OneRequest, OnItsWay, Decided, UserTypes
<1>14. \A i \in DOMAIN queue' : queue'[i].t \in UserTypes => i = Len(queue) + 1
  BY <1>1, <1>12 DEF Requested
<1> QED BY <1>1, <1>3, <1>5, <1>6, <1>7, <1>13, <1>14 DEF AloneInv, OthersRest, OneRequest, OnItsWay, Decided

\* The contexts other than the user do nothing.
LEMMA NoOthers ==
    ASSUME AloneInv, TypeInv
    PROVE  /\ ~MicError /\ \A p \in {"periodic", "tx"} : ~Poster(p) /\ ~MicCountermeasure(p)
           /\ PeriodicExec => Unblock
<1>1. ~MicError
  BY DEF MicError, AloneInv, UserAlone
<1>2. ASSUME NEW p \in {"periodic", "tx"} PROVE ~Poster(p) /\ ~MicCountermeasure(p)
  BY DEF Poster, Post, SetCntl, MicCountermeasure, AloneInv, OthersRest, NoJob
<1>3. PeriodicExec => Unblock
  BY DEF PeriodicExec, AutoRequest, AutoScan, LostBeacons, MlmeCheckForFastRoaming, AloneInv, UserAlone
<1> QED BY <1>1, <1>2, <1>3

LEMMA AloneNext == TypeInv /\ MicInv /\ AloneInv /\ [Next]_vars => AloneInv'
<1> SUFFICES ASSUME TypeInv, MicInv, AloneInv, [Next]_vars PROVE AloneInv'
  OBVIOUS
<1>1. UserAlone' /\ micErr' = FALSE
  <2>1. scenario' = scenario /\ Disturbances' = Disturbances
    BY ScenarioKept
  <2>2. MicInv'
    BY MicNext
  <2> QED BY <2>1, <2>2 DEF AloneInv, OthersRest, OneRequest, OnItsWay, Decided, UserAlone, Smp, MicInv
<1>2. CASE Dispatch
  BY <1>1, <1>2, AloneDispatch
<1>3. CASE UNCHANGED vars \/ Unblock
  BY <1>1, <1>3 DEF vars, Unblock, AloneInv, OthersRest, OneRequest, OnItsWay, Decided, Requested
<1>4. CASE EnterHandler
  BY <1>1, <1>4 DEF EnterHandler, rest, AloneInv, OthersRest, OneRequest, OnItsWay, Decided, Requested
<1>5. CASE LeaveHandler
  <2>1. ~Requested' /\ \A i \in DOMAIN queue' : FALSE
    BY <1>5 DEF LeaveHandler, Requested
  <2> QED BY <1>1, <1>5, <2>1 DEF LeaveHandler, rest, AloneInv, OthersRest, OneRequest, OnItsWay, Decided
<1>6. CASE RestartReset
  <2>1. ~Requested /\ queue' = queue /\ job' = job /\ cntl' = "IDLE"
    BY <1>6 DEF RestartReset, AloneInv, OnItsWay
  <2>2. ~Requested'
    BY <2>1 DEF Requested
  <2> QED BY <1>1, <2>1, <2>2 DEF AloneInv, OthersRest, OneRequest, OnItsWay, Decided
<1>7. ASSUME NEW x \in Frames, MlmeEnqueueForRecv(x) PROVE AloneInv'
  <2>1. x \in Messages /\ x.t \notin UserTypes /\ x.t # "ROAMING_REQ"
    BY PeerMessages, FrameKinds DEF FrameTypes, UserTypes
  <2>2. /\ Enqueue(x) /\ UNCHANGED <<cntl, job, micErr>>
        /\ runner' = "restart" <=> runner = "restart"
        /\ runner' = "none" => runner = "none"
    BY <1>7 DEF MlmeEnqueueForRecv, CallHandler, rest, net
  <2> QED BY <1>1, <2>1, <2>2, AloneEnters
<1>8. ASSUME NEW t \in MachineTimers, Fire(t) PROVE AloneInv'
  <2> DEFINE x == Signal(TimeoutOf[t])
  <2>1. x \in Messages /\ x.t \in Timeouts
    <3>1. TimeoutOf[t] \in Timeouts
      BY TimeoutNames DEF Timeouts, MachineTimers
    <3> QED BY <3>1, PlainMessage DEF Signal, PlainTypes
  <2>2. /\ Enqueue(x) /\ UNCHANGED <<cntl, job, micErr>>
        /\ runner' = "restart" <=> runner = "restart"
        /\ runner' = "none" => runner = "none"
    BY <1>8 DEF Fire, CallHandler, rest, net, MachineTimers
  <2>3. x.t \notin UserTypes /\ x.t # "ROAMING_REQ"
    BY <2>1 DEF Timeouts, UserTypes
  <2> HIDE DEF x
  <2> QED BY <1>1, <2>1, <2>2, <2>3, AloneEnters
<1>9. ASSUME NEW x \in Oids, UserRequest(x) PROVE AloneInv'
  <2> DEFINE j == [post |-> <<x>>, set |-> "call"]
  <2>1. /\ runner = "none" /\ job["user"] = NoJob /\ job' = [job EXCEPT !["user"] = j]
        /\ UNCHANGED cntl
    BY <1>9 DEF UserRequest, Process, rest, AloneInv, UserAlone
  <2>2. job \in [Posters -> Jobs] /\ "user" \in Posters
    BY DEF TypeInv, TypeOK, Posters
  <2>3. j.post # <<>> /\ Head(j.post) = x /\ j.set = "call"
    OBVIOUS
  <2>x. x.t \in UserTypes
    BY RequestTypes DEF UserTypes
  <2> HIDE DEF j
  <2>4. job'["user"] = j /\ \A p \in {"periodic", "tx"} : job'[p] = NoJob
    BY <2>1, <2>2 DEF AloneInv, OthersRest, OneRequest, OnItsWay, Decided, Posters
  <2>5. ~Requested
    BY <2>1 DEF AloneInv, OthersRest, OneRequest, OnItsWay, Decided
  <2>6. \/ queue' = queue /\ runner' = "none" /\ cntl = "IDLE"
        \/ queue' = <<>> /\ runner' = "restart"
    BY <1>9, <2>1 DEF UserRequest
  <2>7. ~Requested'
    BY <2>5, <2>6 DEF Requested
  <2>8. \A i \in DOMAIN queue' : i \in DOMAIN queue /\ queue'[i] = queue[i]
    BY <2>6
  <2>9. /\ \A i \in DOMAIN queue' : queue'[i].t # "ROAMING_REQ"
        /\ \A i, k \in DOMAIN queue' :
             queue'[i].t \in UserTypes /\ queue'[k].t \in UserTypes => i = k
    BY <2>8 DEF AloneInv, OthersRest, OneRequest, OnItsWay, Decided
  <2> QED BY <1>1, <2>1, <2>3, <2>x, <2>4, <2>6, <2>7, <2>9 DEF AloneInv, OthersRest, OneRequest, OnItsWay, Decided
<1>10. CASE Post("user")
  BY <1>1, <1>10, AlonePost
<1>11. CASE UserCall
  <2>1. /\ runner = "none" /\ runner' = "user" /\ UNCHANGED <<queue, cntl>>
        /\ job' = [job EXCEPT !["user"] = NoJob]
    BY <1>11 DEF UserCall, Process, rest, AloneInv, UserAlone
  <2>2. job \in [Posters -> Jobs] /\ "user" \in Posters
    BY DEF TypeInv, TypeOK, Posters
  <2>3. job'["user"].post = <<>> /\ \A p \in {"periodic", "tx"} : job'[p] = NoJob
    BY <2>1, <2>2 DEF AloneInv, OthersRest, OneRequest, OnItsWay, Decided, Posters, NoJob
  <2>4. Requested' => Requested
    BY <2>1 DEF Requested
  <2> QED BY <1>1, <2>1, <2>3, <2>4 DEF AloneInv, OthersRest, OneRequest, OnItsWay, Decided
<1>12. ASSUME NEW p \in Posters, Poster(p) PROVE AloneInv'
  <2>1. p = "user"
    BY <1>12, NoOthers DEF Posters
  <2>2. ~SetCntl("user")
    BY DEF SetCntl
  <2> QED BY <1>10, <1>11, <1>12, <2>1, <2>2 DEF Poster
<1> QED
  BY <1>2, <1>3, <1>4, <1>5, <1>6, <1>7, <1>8, <1>9, <1>12, NoOthers DEF Next, Handler

\* On one CPU, and with the user alone making requests, the restart of a busy CNTL
\* (rtmp_info.c:2201) keeps them in sequence: every request that is served finds CNTL idle.
THEOREM UserAloneInSequence == Spec /\ UserAlone => []OidsInSequence
<1>1. Init /\ UserAlone => MicInv /\ AloneInv
  BY DEF Init, MicInv, AloneInv, OthersRest, OneRequest, OnItsWay, Decided, Requested, NoJob, Posters
<1>2. TypeInv /\ AloneInv => OidsInSequence
  <2> SUFFICES ASSUME TypeInv, AloneInv, queue # <<>>, Overtakes(Head(queue)) PROVE FALSE
    BY DEF OidsInSequence
  <2>1. Head(queue) = queue[1] /\ 1 \in DOMAIN queue
    BY Typed
  <2> QED BY <2>1 DEF AloneInv, OthersRest, OneRequest, OnItsWay, Decided, Requested, UserTypes, Overtakes
<1> QED BY <1>1, <1>2, TypeInit, TypeNext, MicNext, AloneNext, PTL DEF Spec

\* Then the link only comes up with an AP that has accepted the last authentication and the
\* last association.
THEOREM LinkIsEarnedUserAlone == Spec /\ UserAlone => [][LinkComesUp => Earned]_vars
<1>1. TypeInv /\ AloneInv => Orderly
  BY DEF AloneInv, OthersRest, OneRequest, OnItsWay, Decided, UserAlone, Orderly, NotesLate
<1>2. Init /\ UserAlone => MicInv /\ AloneInv
  BY DEF Init, MicInv, AloneInv, OthersRest, OneRequest, OnItsWay, Decided, Requested, NoJob, Posters
<1> QED
  BY <1>1, <1>2, TypeInit, TypeNext, MicNext, AloneNext, UserAloneInSequence,
     LinkIsEarnedInSequence, PTL DEF Spec


---------------------------------------------------------------------------
(* What is left of an association when CNTL leaves the network *)

\* No message is lost to the restart: no countermeasure is decided between its two halves.
QuietRestart == runner = "restart" => ~Queued("DISASSOC_REQ")

\* No context writes CNTL after it has posted, nobody scans in order to roam.
Prompt == ~NotesLate /\ "roamScan" \notin Disturbances

Leaving == {"WAIT_DISASSOC", "WAIT_OID_DISASSOC"}
Associating == {"ASSOC_REQ", "ASSOC_CONF"}
Exchanges == Associating \cup {"DISASSOC_REQ", "DISASSOC_CONF"}
Up == link = "infra" \/ micErr

Absent(q, t) == \A i \in DOMAIN q : q[i].t # t
Ahead(q, t, u) == \A i, j \in DOMAIN q : q[i].t = t /\ q[j].t = u => i < j
OneAtMost(q) == \A i, j \in DOMAIN q : q[i].t \in Associating /\ q[j].t \in Associating => i = j
NoSuccess(q) == \A i \in DOMAIN q : q[i].t = "ASSOC_CONF" => q[i].v # "ok"

\* There is one association at a time, and only while CNTL waits for it or leaves.
Alone(q, state, as) ==
    /\ OneAtMost(q)
    /\ as = "WAIT_RSP" \/ state \notin Leaving \cup {"WAIT_ASSOC"} =>
         Absent(q, "ASSOC_REQ") /\ Absent(q, "ASSOC_CONF")
    /\ as = "WAIT_RSP" => state \in Leaving \cup {"WAIT_ASSOC"}

\* While CNTL leaves, the association is over before the disassociation is confirmed: its
\* request is before any DISASSOC_REQ, which ends it, and its confirmation before any
\* DISASSOC_CONF.
OverBefore(q, state, as) ==
    state \in Leaving =>
        /\ Ahead(q, "ASSOC_REQ", "DISASSOC_REQ") /\ Ahead(q, "ASSOC_CONF", "DISASSOC_CONF")
        /\ as = "WAIT_RSP" => Absent(q, "DISASSOC_CONF")
        /\ \/ Absent(q, "ASSOC_REQ")
           \/ as # "DISASSOC_WAIT_RSP" /\ Absent(q, "DISASSOC_CONF")

\* While CNTL waits for an association, what is left of a disassociation is before it.
BegunAfter(q, state, as) ==
    state = "WAIT_ASSOC" =>
        /\ Ahead(q, "DISASSOC_REQ", "ASSOC_REQ") /\ Ahead(q, "DISASSOC_CONF", "ASSOC_CONF")
        /\ as = "WAIT_RSP" => Absent(q, "DISASSOC_REQ")
        /\ \/ Absent(q, "ASSOC_CONF")
           \/ as # "DISASSOC_WAIT_RSP" /\ Absent(q, "DISASSOC_REQ")

Ordered(q, state, as) == Alone(q, state, as) /\ OverBefore(q, state, as) /\ BegunAfter(q, state, as)

\* While associations are blocked, none is under way that CNTL waits for.
Refused == blocked /\ cntl = "WAIT_ASSOC" => assoc # "WAIT_RSP" /\ NoSuccess(queue)

\* A station that is linked and does not leave has no disassociation under way.
Settled ==
    Up /\ cntl \notin Leaving =>
        assoc # "DISASSOC_WAIT_RSP" /\ Absent(queue, "DISASSOC_REQ") /\ Absent(queue, "DISASSOC_CONF")

Emptied == runner = "restart" => \A t \in Exchanges \ {"DISASSOC_REQ"} : Absent(queue, t)
LeaveInv == Ordered(queue, cntl, assoc) /\ Refused /\ Settled /\ Emptied

\* Queue q2 is what is left of q behind its head, with the reply r.
Behind(q, t) == \A i \in DOMAIN q : i # 1 => q[i].t # t
Follows(q, q2, r) ==
    \A i \in DOMAIN q2 : \/ i \in Nat /\ i # 0 /\ i + 1 \in DOMAIN q /\ q2[i] = q[i + 1]
                         \/ i = Len(q) /\ r # <<>> /\ q2[i] = r[1]

LEMMA ServedFollows ==
    ASSUME queue \in Seq(Messages), queue # <<>>, NEW r \in Replies, NEW c, NEW a, Serve(r, c, a)
    PROVE  Follows(queue, queue', r)
<1>1. /\ queue' \in Seq(Messages)
      /\ \A i \in DOMAIN queue' :
           \/ i \in Nat /\ i + 1 \in DOMAIN queue /\ queue'[i] = queue[i + 1]
           \/ i = Len(queue) /\ r # <<>> /\ queue'[i] = r[1]
  BY ServedElements
<1>2. \A i \in DOMAIN queue' : i # 0
  BY <1>1
<1> QED BY <1>1, <1>2 DEF Follows

LEMMA FollowsAbsent ==
    ASSUME NEW q \in Seq(Messages), q # <<>>, NEW q2, NEW r, Follows(q, q2, r), NEW t,
           Behind(q, t), ~Posts(r, t)
    PROVE  Absent(q2, t)
<1> SUFFICES ASSUME NEW i \in DOMAIN q2 PROVE q2[i].t # t
  BY DEF Absent
<1>1. CASE i \in Nat /\ i # 0 /\ i + 1 \in DOMAIN q /\ q2[i] = q[i + 1]
  BY <1>1 DEF Behind
<1>2. CASE r # <<>> /\ q2[i] = r[1]
  BY <1>2 DEF Posts
<1> QED BY <1>1, <1>2 DEF Follows

LEMMA FollowsAhead ==
    ASSUME NEW q \in Seq(Messages), q # <<>>, NEW q2, NEW r, Follows(q, q2, r), NEW t, NEW u,
           Ahead(q, t, u), ~Posts(r, t)
    PROVE  Ahead(q2, t, u)
<1> SUFFICES ASSUME NEW i \in DOMAIN q2, NEW j \in DOMAIN q2, q2[i].t = t, q2[j].t = u
             PROVE  i < j
  BY DEF Ahead
<1>1. i \in Nat /\ i + 1 \in DOMAIN q /\ q2[i] = q[i + 1]
  BY DEF Follows, Posts
<1>2. DOMAIN q = 1 .. Len(q) /\ Len(q) \in Nat
  OBVIOUS
<1>3. CASE j \in Nat /\ j + 1 \in DOMAIN q /\ q2[j] = q[j + 1]
  <2>1. i + 1 < j + 1
    BY <1>1, <1>3 DEF Ahead
  <2> QED BY <2>1, <1>1, <1>3
<1>4. CASE j = Len(q)
  BY <1>1, <1>2, <1>4
<1> QED BY <1>3, <1>4 DEF Follows

LEMMA FollowsOne ==
    ASSUME NEW q \in Seq(Messages), q # <<>>, NEW q2, NEW r, Follows(q, q2, r)
    PROVE  /\ OneAtMost(q) /\ (\A t \in Associating : ~Posts(r, t)) => OneAtMost(q2)
           /\ (\A t \in Associating : Behind(q, t)) => OneAtMost(q2)
<1>1. ASSUME OneAtMost(q), \A t \in Associating : ~Posts(r, t)
      PROVE  OneAtMost(q2)
  <2> SUFFICES ASSUME NEW i \in DOMAIN q2, NEW j \in DOMAIN q2,
                      q2[i].t \in Associating, q2[j].t \in Associating
               PROVE  i = j
    BY DEF OneAtMost
  <2>1. /\ i \in Nat /\ i + 1 \in DOMAIN q /\ q2[i] = q[i + 1]
        /\ j \in Nat /\ j + 1 \in DOMAIN q /\ q2[j] = q[j + 1]
    BY <1>1 DEF Follows, Posts
  <2>2. i + 1 = j + 1
    BY <1>1, <2>1 DEF OneAtMost
  <2> QED BY <2>1, <2>2
<1>2. ASSUME \A t \in Associating : Behind(q, t)
      PROVE  OneAtMost(q2)
  <2>1. \A i \in DOMAIN q2 : q2[i].t \in Associating => i = Len(q)
    BY <1>2 DEF Follows, Behind
  <2> QED BY <2>1 DEF OneAtMost
<1> QED BY <1>1, <1>2

LEMMA FollowsNoSuccess ==
    ASSUME NEW q, NEW q2, NEW r, Follows(q, q2, r),
           NoSuccess(q) \/ Absent(q, "ASSOC_CONF") \/ Behind(q, "ASSOC_CONF"),
           Posts(r, "ASSOC_CONF") => r[1].v # "ok"
    PROVE  NoSuccess(q2)
BY DEF Follows, NoSuccess, Absent, Behind, Posts

\* The head, and what is not in the queue or not behind it.
LEMMA HeadFacts ==
    ASSUME NEW q \in Seq(Messages), q # <<>>
    PROVE  /\ \A t : Absent(q, t) => Behind(q, t) /\ Head(q).t # t
           /\ \A t, u : Ahead(q, t, u) /\ Head(q).t = u => Absent(q, t)
           /\ OneAtMost(q) /\ Head(q).t \in Associating => \A t \in Associating : Behind(q, t)
           /\ NoSuccess(q) /\ Head(q).t = "ASSOC_CONF" => Head(q).v # "ok"
<1>1. Head(q) = q[1] /\ 1 \in DOMAIN q /\ \A i \in DOMAIN q : i \in Nat /\ ~(i < 1)
  OBVIOUS
<1>2. \A t : Absent(q, t) => Behind(q, t) /\ Head(q).t # t
  BY <1>1 DEF Absent, Behind
<1>3. \A t, u : Ahead(q, t, u) /\ Head(q).t = u => Absent(q, t)
  BY <1>1 DEF Ahead, Absent
<1>4. OneAtMost(q) /\ Head(q).t \in Associating => \A t \in Associating : Behind(q, t)
  BY <1>1 DEF OneAtMost, Behind
<1>5. NoSuccess(q) /\ Head(q).t = "ASSOC_CONF" => Head(q).v # "ok"
  BY <1>1 DEF NoSuccess
<1> QED BY <1>2, <1>3, <1>4, <1>5

LEMMA AbsentAhead ==
    ASSUME NEW q, NEW t, NEW u, Absent(q, t) \/ Absent(q, u)
    PROVE  Ahead(q, t, u)
BY DEF Absent, Ahead

\* What AssocMachine does with a message, as far as the exchanges are concerned.
AssocMoves(m, r) ==
    \/ m.t = "ASSOC_REQ" /\ r = <<>> /\ assoc' = "WAIT_RSP" /\ ~blocked
    \/ m.t = "ASSOC_REQ" /\ Posts(r, "ASSOC_CONF") /\ r[1].v = "fail" /\ assoc' = "IDLE"
    \/ m.t = "DISASSOC_REQ" /\ r = <<>> /\ assoc' = "DISASSOC_WAIT_RSP"
    \/ m.t = "DISASSOC_REQ" /\ Posts(r, "DISASSOC_CONF") /\ assoc' = "IDLE"
    \/ /\ m.t \notin Exchanges /\ assoc = "WAIT_RSP" /\ assoc' = "IDLE"
       /\ Posts(r, "ASSOC_CONF")
    \/ /\ m.t \notin Exchanges /\ assoc = "DISASSOC_WAIT_RSP" /\ assoc' = "IDLE"
       /\ Posts(r, "DISASSOC_CONF")
    \/ m.t \notin Exchanges /\ r = <<>> /\ assoc' \in {assoc, "IDLE"}

LEMMA AssocKinds ==
    ASSUME NEW m \in Messages, AssocMachine(m)
    PROVE  \E r \in Replies : \E c, a : Serve(r, c, a) /\ AssocMoves(m, r)
<1> DEFINE Goal == \E r \in Replies : \E c, a : Serve(r, c, a) /\ AssocMoves(m, r)
<1> SUFFICES Goal
  OBVIOUS
<1>n. <<>> \in Replies
  BY OneReply
<1>1. ASSUME NEW t \in {"ASSOC_CONF", "DISASSOC_CONF"}, NEW v \in {"ok", "fail"}, NEW c,
             AssocDone(t, v, c),
             \/ m.t = "ASSOC_REQ" /\ t = "ASSOC_CONF" /\ v = "fail"
             \/ m.t = "DISASSOC_REQ" /\ t = "DISASSOC_CONF"
             \/ m.t \notin Exchanges /\ assoc = "WAIT_RSP" /\ t = "ASSOC_CONF"
             \/ m.t \notin Exchanges /\ assoc = "DISASSOC_WAIT_RSP" /\ t = "DISASSOC_CONF"
      PROVE  Goal
  <2> DEFINE r == Conf(t, v)
  <2>1. r \in Replies /\ Posts(r, t) /\ r[1].v = v /\ Serve(r, c, {}) /\ assoc' = "IDLE"
    BY <1>1, Confirmation DEF Confirms, Tell, AssocDone, Posts
  <2> HIDE DEF r
  <2>2. AssocMoves(m, r)
    BY <1>1, <2>1 DEF AssocMoves
  <2> QED BY <2>1, <2>2
<1>2. ASSUME NEW c, NEW a, Serve(<<>>, c, a), AssocMoves(m, <<>>) PROVE Goal
  BY <1>2, <1>n
<1> HIDE DEF Goal
<1>3. CASE MlmeAssocReqAction(m)
  <2>1. ASSUME Serve(<<>>, {"assoc"}, {"assoc"}), assoc' = "WAIT_RSP", ~blocked PROVE Goal
    <3>1. AssocMoves(m, <<>>)
      BY <1>3, <2>1 DEF AssocMoves, MlmeAssocReqAction
    <3> QED BY <2>1, <3>1, <1>2
  <2> QED BY <1>1, <1>3, <2>1 DEF MlmeAssocReqAction
<1>4. CASE MlmeDisassocReqAction(m)
  <2>1. ASSUME Serve(<<>>, {"disassoc"}, {"disassoc"}), assoc' = "DISASSOC_WAIT_RSP" PROVE Goal
    <3>1. AssocMoves(m, <<>>)
      BY <1>4, <2>1 DEF AssocMoves, MlmeDisassocReqAction
    <3> QED BY <2>1, <3>1, <1>2
  <2> QED BY <1>1, <1>4, <2>1 DEF MlmeDisassocReqAction
<1>5. CASE PeerAssocRspAction(m)
  <2>1. m.v \in {"ok", "fail"} /\ m.t \notin Exchanges
    BY <1>5, MessageKinds DEF FrameTypes, PeerAssocRspAction, Exchanges, Associating
  <2> QED BY <1>1, <1>5, <2>1 DEF PeerAssocRspAction
<1>6. CASE AssocTimeoutAction(m)
  BY <1>1, <1>6 DEF AssocTimeoutAction, Exchanges, Associating
<1>7. CASE DisassocTimeoutAction(m)
  BY <1>1, <1>7 DEF DisassocTimeoutAction, Exchanges, Associating
<1>8. CASE InvalidStateWhenAssoc(m)
  BY <1>1, <1>8, ConfNames DEF InvalidStateWhenAssoc
<1>9. CASE PeerDisassocAction(m) \/ AssocDrops(m)
  <2>1. Serve(<<>>, {}, {}) /\ assoc' \in {assoc, "IDLE"} /\ m.t \notin Exchanges
    BY <1>9 DEF PeerDisassocAction, AssocDrops, Consume, Exchanges, Associating
  <2>2. AssocMoves(m, <<>>)
    BY <2>1 DEF AssocMoves
  <2> QED BY <2>1, <2>2, <1>2
<1> QED BY <1>3, <1>4, <1>5, <1>6, <1>7, <1>8, <1>9 DEF AssocMachine

\* What CNTL does with a message that overtakes nothing.
Parts(m) ==
    /\ cntl \in Leaving =>
         m.t = "DISASSOC_CONF" /\ cntl' \notin Leaving /\ link' = "down" /\ micErr' = FALSE
    /\ cntl = "WAIT_ASSOC" => m.t = "ASSOC_CONF"
    /\ cntl' \in Leaving => cntl = "IDLE"
    /\ cntl' = "WAIT_ASSOC" => cntl \in {"WAIT_AUTH", "WAIT_AUTH2"}
    /\ Up' => Up \/ cntl = "WAIT_ASSOC"

LEMMA CntlParts ==
    ASSUME NEW m \in Messages, MlmeCntlMachinePerformAction(m), ~Overtakes(m), ~CntlDrops(m)
    PROVE  Parts(m)
<1>o. m.t \in {"OID_SSID", "OID_BSSID", "OID_SCAN"} => cntl = "IDLE"
  BY DEF Overtakes
<1>d. UNCHANGED net \/ DropAdhoc => (Up' => Up)
  BY DEF net, DropAdhoc, Up
<1>l. LinkDown => ~Up' /\ link' = "down" /\ micErr' = FALSE
  BY DEF LinkDown, Up
<1>i. \A i, nr : IterateOnBssTab(i, nr) => cntl' \in {"WAIT_JOIN", "WAIT_START", "IDLE"}
  BY DEF IterateOnBssTab, Ask
<1>t. TryNextBss => cntl' \in {"WAIT_JOIN", "WAIT_START", "IDLE"} /\ UNCHANGED net
  BY <1>i DEF TryNextBss, net
<1>k. \A alg, state : AskAuth(alg, state) => cntl' = state /\ UNCHANGED net
  BY DEF AskAuth, Ask, net
<1>s. AskAssoc => cntl' = "WAIT_ASSOC" /\ UNCHANGED net
  BY DEF AskAssoc, Ask, net
<1>1. CASE CntlOidSsidProc(m)
  <2>1. cntl = "IDLE" /\ (UNCHANGED net \/ DropAdhoc)
    BY <1>1, <1>o DEF CntlOidSsidProc
  <2>2. cntl' # "WAIT_ASSOC"
    BY <1>1, <1>i DEF CntlOidSsidProc, Disassociate, Ask
  <2> QED BY <2>1, <2>2, <1>d DEF Parts, Leaving
<1>2. CASE CntlOidRTBssidProc(m)
  <2>1. cntl = "IDLE" /\ (UNCHANGED net \/ DropAdhoc)
    BY <1>2, <1>o DEF CntlOidRTBssidProc
  <2>2. cntl' # "WAIT_ASSOC"
    BY <1>2 DEF CntlOidRTBssidProc, Disassociate, Ask
  <2> QED BY <2>1, <2>2, <1>d DEF Parts, Leaving
<1>3. CASE CntlOidScanProc(m)
  <2>1. cntl = "IDLE" /\ UNCHANGED net /\ cntl' # "WAIT_ASSOC"
    BY <1>3, <1>o DEF CntlOidScanProc, Ask
  <2> QED BY <2>1, <1>d DEF Parts, Leaving
<1>4. CASE CntlIdleProc(m)
  <2>1. cntl = "IDLE" /\ UNCHANGED net /\ cntl' # "WAIT_ASSOC"
    BY <1>4, <1>i DEF CntlIdleProc, CntlMlmeRoamingProc, Disassociate, Ask
  <2> QED BY <2>1, <1>d DEF Parts, Leaving
<1>5. CASE CntlWaitDisassocProc(m)
  <2>1. /\ cntl = "WAIT_DISASSOC" /\ m.t = "DISASSOC_CONF" /\ LinkDown
        /\ cntl' \in {"WAIT_JOIN", "WAIT_START", "IDLE"}
    BY <1>5, <1>i DEF CntlWaitDisassocProc, Ask
  <2> QED BY <2>1, <1>l DEF Parts, Leaving
<1>6. CASE CntlWaitOidDisassoc(m)
  <2>1. cntl = "WAIT_OID_DISASSOC" /\ m.t = "DISASSOC_CONF" /\ LinkDown /\ cntl' = "IDLE"
    BY <1>6 DEF CntlWaitOidDisassoc, Ask
  <2> QED BY <2>1, <1>l DEF Parts, Leaving
<1>7. CASE CntlWaitJoinProc(m)
  <2>1. cntl = "WAIT_JOIN" /\ (UNCHANGED net \/ LinkUp("adhoc"))
    BY <1>7, <1>t, <1>k DEF CntlWaitJoinProc
  <2>2. cntl' \in {"WAIT_JOIN", "WAIT_START", "WAIT_AUTH", "IDLE"}
    BY <1>7, <1>t, <1>k DEF CntlWaitJoinProc, Ask
  <2> QED BY <2>1, <2>2, <1>d DEF Parts, Leaving, LinkUp, Up
<1>8. CASE CntlWaitStartProc(m)
  <2>1. cntl = "WAIT_START" /\ (UNCHANGED net \/ LinkUp("adhoc")) /\ cntl' = "IDLE"
    BY <1>8 DEF CntlWaitStartProc, Ask
  <2> QED BY <2>1, <1>d DEF Parts, Leaving, LinkUp, Up
<1>9. CASE CntlWaitAuthProc(m)
  <2>1. cntl = "WAIT_AUTH" /\ UNCHANGED net /\ cntl' \in {"WAIT_AUTH2", "WAIT_ASSOC"}
    BY <1>9, <1>k, <1>s DEF CntlWaitAuthProc
  <2> QED BY <2>1, <1>d DEF Parts, Leaving
<1>10. CASE CntlWaitAuthProc2(m)
  <2>1. /\ cntl = "WAIT_AUTH2" /\ UNCHANGED net
        /\ cntl' \in {"WAIT_AUTH2", "WAIT_ASSOC", "WAIT_JOIN", "WAIT_START", "IDLE"}
    BY <1>10, <1>k, <1>s, <1>t DEF CntlWaitAuthProc2
  <2> QED BY <2>1, <1>d DEF Parts, Leaving
<1>11. CASE CntlWaitAssocProc(m)
  <2>1. /\ cntl = "WAIT_ASSOC" /\ m.t = "ASSOC_CONF"
        /\ cntl' \in {"WAIT_JOIN", "WAIT_START", "IDLE"}
    BY <1>11, <1>t DEF CntlWaitAssocProc, Ask
  <2> QED BY <2>1 DEF Parts, Leaving
<1>12. CASE CntlWaitScan(m)
  <2>1. cntl = "WAIT_OID_LIST_SCAN" /\ UNCHANGED net /\ cntl' = "IDLE"
    BY <1>12 DEF CntlWaitScan, Ask
  <2> QED BY <2>1, <1>d DEF Parts, Leaving
<1> QED
  BY <1>1, <1>2, <1>3, <1>4, <1>5, <1>6, <1>7, <1>8, <1>9, <1>10, <1>11, <1>12
  DEF MlmeCntlMachinePerformAction

\* A reply is of one type.
LEMMA OneType ==
    /\ \A r, t, u : Posts(r, t) /\ Posts(r, u) => t = u
    /\ \A t : ~Posts(<<>>, t)
    /\ Associating = {"ASSOC_REQ", "ASSOC_CONF"}
    /\ Exchanges = {"ASSOC_REQ", "ASSOC_CONF", "DISASSOC_REQ", "DISASSOC_CONF"}
BY DEF Posts, Associating, Exchanges

\* A message that is part of no exchange is served, and the reply is none either.
LEMMA OrderedAside ==
    ASSUME NEW q \in Seq(Messages), q # <<>>, NEW q2, NEW r, Follows(q, q2, r), NEW state,
           NEW as, NEW as2, Ordered(q, state, as), as2 = as \/ as2 = "IDLE",
           \A t \in Exchanges : ~Posts(r, t)
    PROVE  Ordered(q2, state, as2)
<1>1. \A t \in Exchanges : Absent(q, t) => Absent(q2, t)
  BY HeadFacts, FollowsAbsent
<1>2. \A t, u \in Exchanges : Ahead(q, t, u) => Ahead(q2, t, u)
  BY FollowsAhead
<1>3. OneAtMost(q) => OneAtMost(q2)
  BY FollowsOne, OneType
<1>4. Alone(q2, state, as2)
  BY <1>1, <1>3, OneType DEF Ordered, Alone
<1>5. OverBefore(q2, state, as2)
  BY <1>1, <1>2, OneType DEF Ordered, OverBefore
<1>6. BegunAfter(q2, state, as2)
  BY <1>1, <1>2, OneType DEF Ordered, BegunAfter
<1> QED BY <1>4, <1>5, <1>6 DEF Ordered

\* ASSOC serves a message.
LEMMA OrderedByAssoc ==
    ASSUME queue \in Seq(Messages), queue # <<>>, NEW r \in Replies,
           Follows(queue, queue', r), AssocMoves(Head(queue), r), cntl \in CntlStates,
           Ordered(queue, cntl, assoc)
    PROVE  Ordered(queue', cntl, assoc')
<1> DEFINE q == queue
           q2 == queue'
           h == Head(queue).t
<1>f. /\ q \in Seq(Messages) /\ q # <<>> /\ Follows(q, q2, r) /\ h = Head(q).t
      /\ Ordered(q, cntl, assoc)
  OBVIOUS
<1>m. \/ h = "ASSOC_REQ" /\ r = <<>> /\ assoc' = "WAIT_RSP"
      \/ h = "ASSOC_REQ" /\ Posts(r, "ASSOC_CONF") /\ assoc' = "IDLE"
      \/ h = "DISASSOC_REQ" /\ r = <<>> /\ assoc' = "DISASSOC_WAIT_RSP"
      \/ h = "DISASSOC_REQ" /\ Posts(r, "DISASSOC_CONF") /\ assoc' = "IDLE"
      \/ /\ h \notin Exchanges /\ assoc = "WAIT_RSP" /\ assoc' = "IDLE"
         /\ Posts(r, "ASSOC_CONF")
      \/ /\ h \notin Exchanges /\ assoc = "DISASSOC_WAIT_RSP" /\ assoc' = "IDLE"
         /\ Posts(r, "DISASSOC_CONF")
      \/ h \notin Exchanges /\ r = <<>> /\ assoc' \in {assoc, "IDLE"}
  BY DEF AssocMoves
<1> HIDE DEF q, q2, h
<1>1. \A t \in Exchanges : Behind(q, t) /\ ~Posts(r, t) => Absent(q2, t)
  BY <1>f, FollowsAbsent
<1>2. \A t \in Exchanges : Absent(q, t) => Behind(q, t) /\ h # t
  BY <1>f, HeadFacts
<1>3. \A t, u \in Exchanges : Ahead(q, t, u) /\ h = u => Absent(q, t)
  BY <1>f, HeadFacts
<1>4. \A t, u \in Exchanges : Ahead(q, t, u) /\ ~Posts(r, t) => Ahead(q2, t, u)
  BY <1>f, FollowsAhead
<1>5. \A t, u \in Exchanges : Absent(q2, t) \/ Absent(q2, u) => Ahead(q2, t, u)
  BY AbsentAhead
<1>6. /\ OneAtMost(q) /\ h \in Associating => Behind(q, "ASSOC_REQ") /\ Behind(q, "ASSOC_CONF")
      /\ OneAtMost(q) /\ ~Posts(r, "ASSOC_REQ") /\ ~Posts(r, "ASSOC_CONF") => OneAtMost(q2)
      /\ Behind(q, "ASSOC_REQ") /\ Behind(q, "ASSOC_CONF") => OneAtMost(q2)
  BY <1>f, HeadFacts, FollowsOne, OneType
<1>7. Alone(q, cntl, assoc) /\ OverBefore(q, cntl, assoc) /\ BegunAfter(q, cntl, assoc)
  BY <1>f DEF Ordered
<1>8. CASE h = "ASSOC_REQ" /\ r = <<>> /\ assoc' = "WAIT_RSP"
  <2>1. \A t : ~Posts(r, t)
    BY <1>8, OneType
  <2>2. Absent(q2, "ASSOC_REQ") /\ Absent(q2, "ASSOC_CONF") /\ OneAtMost(q2)
    BY <1>1, <1>6, <1>7, <1>8, <2>1, OneType DEF Alone
  <2>3. cntl \in Leaving \cup {"WAIT_ASSOC"}
    BY <1>2, <1>7, <1>8, OneType DEF Alone
  <2>4. Alone(q2, cntl, assoc')
    BY <1>8, <2>2, <2>3 DEF Alone
  <2>5. OverBefore(q2, cntl, assoc')
    BY <1>1, <1>2, <1>5, <1>7, <1>8, <2>1, <2>2, OneType DEF OverBefore
  <2>6. BegunAfter(q2, cntl, assoc')
    BY <1>1, <1>2, <1>3, <1>5, <1>7, <1>8, <2>1, <2>2, OneType DEF BegunAfter
  <2> QED BY <2>4, <2>5, <2>6 DEF Ordered, q2
<1>9. CASE h = "ASSOC_REQ" /\ Posts(r, "ASSOC_CONF") /\ assoc' = "IDLE"
  <2>1. \A t : Posts(r, t) => t = "ASSOC_CONF"
    BY <1>9, OneType
  <2>2. Absent(q2, "ASSOC_REQ") /\ OneAtMost(q2)
    BY <1>1, <1>6, <1>7, <1>9, <2>1, OneType DEF Alone
  <2>3. cntl \in Leaving \cup {"WAIT_ASSOC"}
    BY <1>2, <1>7, <1>9, OneType DEF Alone
  <2>4. Alone(q2, cntl, assoc')
    BY <1>9, <2>2, <2>3 DEF Alone
  <2>5. OverBefore(q2, cntl, assoc')
    BY <1>1, <1>2, <1>5, <1>7, <1>9, <2>1, <2>2, OneType DEF OverBefore
  <2>6. BegunAfter(q2, cntl, assoc')
    BY <1>1, <1>2, <1>3, <1>4, <1>5, <1>7, <1>9, <2>1, <2>2, OneType DEF BegunAfter
  <2> QED BY <2>4, <2>5, <2>6 DEF Ordered, q2
<1>10. CASE h = "DISASSOC_REQ" /\ r = <<>> /\ assoc' = "DISASSOC_WAIT_RSP"
  <2>1. \A t : ~Posts(r, t)
    BY <1>10, OneType
  <2>4. Alone(q2, cntl, assoc')
    BY <1>1, <1>2, <1>6, <1>7, <1>10, <2>1, OneType DEF Alone
  <2>5. OverBefore(q2, cntl, assoc')
    BY <1>1, <1>2, <1>3, <1>4, <1>7, <1>10, <2>1, OneType DEF OverBefore
  <2>6. BegunAfter(q2, cntl, assoc')
    BY <1>1, <1>2, <1>4, <1>7, <1>10, <2>1, OneType DEF BegunAfter
  <2> QED BY <2>4, <2>5, <2>6 DEF Ordered, q2
<1>11. CASE h = "DISASSOC_REQ" /\ Posts(r, "DISASSOC_CONF") /\ assoc' = "IDLE"
  <2>1. \A t : Posts(r, t) => t = "DISASSOC_CONF"
    BY <1>11, OneType
  <2>4. Alone(q2, cntl, assoc')
    BY <1>1, <1>2, <1>6, <1>7, <1>11, <2>1, OneType DEF Alone
  <2>5. OverBefore(q2, cntl, assoc')
    BY <1>1, <1>2, <1>3, <1>4, <1>7, <1>11, <2>1, OneType DEF OverBefore
  <2>6. BegunAfter(q2, cntl, assoc')
    BY <1>1, <1>2, <1>4, <1>5, <1>7, <1>11, <2>1, OneType DEF BegunAfter
  <2> QED BY <2>4, <2>5, <2>6 DEF Ordered, q2
<1>12. CASE /\ h \notin Exchanges /\ assoc = "WAIT_RSP" /\ assoc' = "IDLE"
            /\ Posts(r, "ASSOC_CONF")
  <2>1. \A t : Posts(r, t) => t = "ASSOC_CONF"
    BY <1>12, OneType
  <2>2. Absent(q2, "ASSOC_REQ") /\ OneAtMost(q2)
    BY <1>1, <1>2, <1>6, <1>7, <1>12, <2>1, OneType DEF Alone
  <2>3. cntl \in Leaving \cup {"WAIT_ASSOC"}
    BY <1>7, <1>12 DEF Alone
  <2>4. Alone(q2, cntl, assoc')
    BY <1>12, <2>2, <2>3 DEF Alone
  <2>5. OverBefore(q2, cntl, assoc')
    BY <1>1, <1>2, <1>5, <1>7, <1>12, <2>1, <2>2, OneType DEF OverBefore
  <2>6. BegunAfter(q2, cntl, assoc')
    BY <1>1, <1>2, <1>4, <1>5, <1>7, <1>12, <2>1, <2>2, OneType DEF BegunAfter
  <2> QED BY <2>4, <2>5, <2>6 DEF Ordered, q2
<1>13. CASE /\ h \notin Exchanges /\ assoc = "DISASSOC_WAIT_RSP" /\ assoc' = "IDLE"
            /\ Posts(r, "DISASSOC_CONF")
  <2>1. \A t : Posts(r, t) => t = "DISASSOC_CONF"
    BY <1>13, OneType
  <2>4. Alone(q2, cntl, assoc')
    BY <1>1, <1>2, <1>6, <1>7, <1>13, <2>1, OneType DEF Alone
  <2>5. OverBefore(q2, cntl, assoc')
    BY <1>1, <1>2, <1>4, <1>7, <1>13, <2>1, OneType DEF OverBefore
  <2>6. BegunAfter(q2, cntl, assoc')
    BY <1>1, <1>2, <1>4, <1>5, <1>7, <1>13, <2>1, OneType DEF BegunAfter
  <2> QED BY <2>4, <2>5, <2>6 DEF Ordered, q2
<1>14. CASE h \notin Exchanges /\ r = <<>> /\ assoc' \in {assoc, "IDLE"}
  <2>1. Ordered(q2, cntl, assoc')
    BY <1>f, <1>14, OrderedAside, OneType
  <2> QED BY <2>1 DEF q2
<1> QED BY <1>m, <1>8, <1>9, <1>10, <1>11, <1>12, <1>13, <1>14

\* A message posted behind a queue that holds none of its type is the last one.
LEMMA FollowsLast ==
    ASSUME NEW q \in Seq(Messages), q # <<>>, NEW q2, NEW r, Follows(q, q2, r), NEW t, NEW u,
           Behind(q, u), ~Posts(r, t)
    PROVE  Ahead(q2, t, u)
<1> SUFFICES ASSUME NEW i \in DOMAIN q2, NEW j \in DOMAIN q2, q2[i].t = t, q2[j].t = u
             PROVE  i < j
  BY DEF Ahead
<1>1. i \in Nat /\ i + 1 \in DOMAIN q
  BY DEF Follows, Posts
<1>2. j = Len(q)
  BY DEF Follows, Behind
<1>3. DOMAIN q = 1 .. Len(q) /\ Len(q) \in Nat
  OBVIOUS
<1> QED BY <1>1, <1>2, <1>3

\* CNTL goes on.
LEMMA OrderedByCntl ==
    ASSUME queue \in Seq(Messages), queue # <<>>, NEW r \in Replies,
           Follows(queue, queue', r), cntl \in CntlStates,
           \/ cntl' = "IDLE" /\ r = <<>>
           \/ cntl' \in CntlStates \ {"IDLE"} /\ Posts(r, RequestOf(cntl')),
           Parts(Head(queue)), assoc' = assoc, Ordered(queue, cntl, assoc)
    PROVE  Ordered(queue', cntl', assoc')
<1> DEFINE q == queue
           q2 == queue'
           h == Head(queue).t
<1>f. /\ q \in Seq(Messages) /\ q # <<>> /\ Follows(q, q2, r) /\ h = Head(q).t
      /\ Ordered(q, cntl, assoc)
  OBVIOUS
<1>p. /\ cntl \in Leaving => h = "DISASSOC_CONF" /\ cntl' \notin Leaving
      /\ cntl = "WAIT_ASSOC" => h = "ASSOC_CONF"
      /\ cntl' \in Leaving => cntl = "IDLE"
      /\ cntl' = "WAIT_ASSOC" => cntl \in {"WAIT_AUTH", "WAIT_AUTH2"}
  BY DEF Parts
<1>m. \/ cntl' \in Leaving /\ \A t : Posts(r, t) => t = "DISASSOC_REQ"
      \/ cntl' = "WAIT_ASSOC" /\ \A t : Posts(r, t) => t = "ASSOC_REQ"
      \/ cntl' \notin Leaving \cup {"WAIT_ASSOC"} /\ \A t \in Exchanges : ~Posts(r, t)
  <2>1. CASE cntl' = "IDLE" /\ r = <<>>
    BY <2>1, OneType DEF Leaving
  <2>2. CASE cntl' \in CntlStates \ {"IDLE"} /\ Posts(r, RequestOf(cntl'))
    BY <2>2, OneType, RequestNames DEF CntlStates, Leaving
  <2> QED BY <2>1, <2>2
<1> HIDE DEF q, q2, h
<1>1. \A t \in Exchanges : Behind(q, t) /\ ~Posts(r, t) => Absent(q2, t)
  BY <1>f, FollowsAbsent
<1>2. \A t \in Exchanges : Absent(q, t) => Behind(q, t) /\ h # t
  BY <1>f, HeadFacts
<1>3. \A t, u \in Exchanges : Ahead(q, t, u) /\ h = u => Absent(q, t)
  BY <1>f, HeadFacts
<1>4. \A t, u \in Exchanges : Behind(q, u) /\ ~Posts(r, t) => Ahead(q2, t, u)
  BY <1>f, FollowsLast
<1>5. \A t, u \in Exchanges : Absent(q2, t) \/ Absent(q2, u) => Ahead(q2, t, u)
  BY AbsentAhead
<1>6. /\ OneAtMost(q) /\ h \in Associating => Behind(q, "ASSOC_REQ") /\ Behind(q, "ASSOC_CONF")
      /\ Behind(q, "ASSOC_REQ") /\ Behind(q, "ASSOC_CONF") => OneAtMost(q2)
  BY <1>f, HeadFacts, FollowsOne, OneType
<1>7. Alone(q, cntl, assoc) /\ OverBefore(q, cntl, assoc) /\ BegunAfter(q, cntl, assoc)
  BY <1>f DEF Ordered
\* What the association that CNTL is done with leaves behind.
<1>8. /\ assoc # "WAIT_RSP" /\ Behind(q, "ASSOC_REQ") /\ Behind(q, "ASSOC_CONF")
  <2>1. CASE cntl \in Leaving
    BY <1>2, <1>3, <1>7, <1>p, <2>1, OneType DEF OverBefore
  <2>2. CASE cntl = "WAIT_ASSOC"
    BY <1>2, <1>6, <1>7, <1>p, <2>2, OneType DEF Alone
  <2>3. CASE cntl \notin Leaving \cup {"WAIT_ASSOC"}
    BY <1>2, <1>7, <2>3, OneType DEF Alone
  <2> QED BY <2>1, <2>2, <2>3
<1>9. OneAtMost(q2)
  BY <1>6, <1>8
<1>10. CASE cntl' = "WAIT_ASSOC" /\ \A t : Posts(r, t) => t = "ASSOC_REQ"
  <2>1. Absent(q2, "ASSOC_CONF") /\ Ahead(q2, "DISASSOC_REQ", "ASSOC_REQ")
    BY <1>1, <1>4, <1>8, <1>10, OneType
  <2>2. Ahead(q2, "DISASSOC_CONF", "ASSOC_CONF")
    BY <1>5, <2>1, OneType
  <2> QED BY <1>8, <1>9, <1>10, <2>1, <2>2 DEF Ordered, Alone, OverBefore, BegunAfter, Leaving, q2
<1>11. CASE cntl' \in Leaving /\ \A t : Posts(r, t) => t = "DISASSOC_REQ"
  <2>1. Absent(q2, "ASSOC_CONF") /\ Absent(q2, "ASSOC_REQ")
    BY <1>1, <1>8, <1>11, OneType
  <2>2. Ahead(q2, "ASSOC_CONF", "DISASSOC_CONF") /\ Ahead(q2, "ASSOC_REQ", "DISASSOC_REQ")
    BY <1>5, <2>1, OneType
  <2> QED BY <1>8, <1>9, <1>11, <2>1, <2>2 DEF Ordered, Alone, OverBefore, BegunAfter, Leaving, q2
<1>12. CASE cntl' \notin Leaving \cup {"WAIT_ASSOC"} /\ \A t \in Exchanges : ~Posts(r, t)
  <2>1. Absent(q2, "ASSOC_CONF") /\ Absent(q2, "ASSOC_REQ")
    BY <1>1, <1>8, <1>12, OneType
  <2> QED BY <1>8, <1>9, <1>12, <2>1 DEF Ordered, Alone, OverBefore, BegunAfter, q2
<1> QED BY <1>m, <1>10, <1>11, <1>12

\* The other machines have no part in the exchanges.
AsideReply(r) == \A t \in Exchanges : ~Posts(r, t)

LEMMA AsideConf ==
    ASSUME NEW t \in {"JOIN_CONF", "SCAN_CONF", "START_CONF", "AUTH_CONF"}, NEW v \in {"ok", "fail"}
    PROVE  Conf(t, v) \in Replies /\ AsideReply(Conf(t, v))
<1>1. t \in Confirms /\ t \notin Exchanges
  BY OneType DEF Confirms
<1>2. Conf(t, v) \in Replies /\ \A u : Posts(Conf(t, v), u) <=> u = t
  BY <1>1, ConfReply
<1> QED BY <1>1, <1>2 DEF AsideReply

LEMMA AsideSteps ==
    ASSUME NEW m \in Messages, SyncMachine(m) \/ AuthMachine(m) \/ PeerDeauthAction(m)
    PROVE  /\ \E r \in Replies : \E c, a : Serve(r, c, a) /\ AsideReply(r)
           /\ UNCHANGED <<cntl, assoc, blocked>> /\ (Up' => Up)
<1> DEFINE Goal == \E r \in Replies : \E c, a : Serve(r, c, a) /\ AsideReply(r)
<1>n. <<>> \in Replies /\ AsideReply(<<>>)
  BY OneReply DEF AsideReply
<1>q. ASSUME NEW c, NEW a, Serve(<<>>, c, a) PROVE Goal
  BY <1>n, <1>q
<1>1. ASSUME NEW t \in {"JOIN_CONF", "SCAN_CONF", "START_CONF", "AUTH_CONF"}, NEW v \in {"ok", "fail"},
             NEW c, NEW a, Tell(t, v, c, a)
      PROVE  Goal
  <2>1. Conf(t, v) \in Replies /\ AsideReply(Conf(t, v)) /\ Serve(Conf(t, v), c, a)
    BY <1>1, AsideConf DEF Tell
  <2> QED BY <2>1
<1>2. ASSUME NEW v \in {"ok", "fail"}, NEW c, AuthDone(v, c) PROVE Goal
  BY <1>1, <1>2 DEF AuthDone
<1> HIDE DEF Goal
<1>u. UNCHANGED net \/ LinkDown => (Up' => Up)
  BY DEF net, LinkDown, Up
<1>3. ASSUME NEW d, NEW c, ScanNextChannel(d, c) PROVE Goal
  BY <1>1, <1>3, <1>q DEF ScanNextChannel
<1>4. CASE SyncMachine(m)
  <2>1. UNCHANGED <<cntl, assoc, blocked>>
    BY <1>4 DEF SyncMachine
  <2>2. CASE PeerBeacon(m)
    <3>1. Goal
      BY <1>q, <2>2 DEF PeerBeacon, Consume
    <3>2. Up' => Up
      BY <1>u, <2>2 DEF PeerBeacon, Up
    <3> QED BY <2>1, <3>1, <3>2 DEF Goal
  <2>3. CASE InvalidStateWhenSync(m)
    <3>1. ConfOf[m.t] \in {"START_CONF", "JOIN_CONF", "SCAN_CONF"}
      BY <2>3, ConfNames DEF InvalidStateWhenSync, SyncRequests
    <3>2. Goal
      BY <1>1, <2>3, <3>1 DEF InvalidStateWhenSync
    <3> QED BY <1>u, <2>1, <2>3, <3>2 DEF InvalidStateWhenSync, Goal
  <2>4. CASE ScanTimeoutAction(m) \/ MlmeScanReqAction(m)
    <3>1. Goal
      BY <1>3, <2>4 DEF ScanTimeoutAction, MlmeScanReqAction
    <3> QED BY <1>u, <2>1, <2>4, <3>1 DEF ScanTimeoutAction, MlmeScanReqAction, Goal
  <2>5. CASE MlmeJoinReqAction(m) \/ SyncDrops(m)
    <3>1. Goal
      BY <1>q, <2>5 DEF MlmeJoinReqAction, SyncDrops, Consume
    <3> QED BY <1>u, <2>1, <2>5, <3>1 DEF MlmeJoinReqAction, SyncDrops, Goal
  <2>6. CASE MlmeStartReqAction(m) \/ PeerBeaconAtJoinAction(m) \/ BeaconTimeoutAtJoinAction(m)
    <3>1. Goal
      BY <1>1, <2>6 DEF MlmeStartReqAction, PeerBeaconAtJoinAction, BeaconTimeoutAtJoinAction
    <3> QED
      BY <1>u, <2>1, <2>6, <3>1
      DEF MlmeStartReqAction, PeerBeaconAtJoinAction, BeaconTimeoutAtJoinAction, Goal
  <2> QED BY <1>4, <2>2, <2>3, <2>4, <2>5, <2>6 DEF SyncMachine
<1>5. CASE AuthMachine(m)
  <2>1. UNCHANGED <<cntl, assoc, blocked, net>>
    BY <1>5 DEF AuthMachine, setting
  <2>2. m.t = "AUTH_SEQ4" => m.v \in {"ok", "fail"}
    BY MessageKinds DEF FrameTypes
  <2>3. Goal
    BY <1>2, <1>5, <1>q, <2>2 DEF AuthMachine, MlmeAuthReqAction, PeerAuthRspAtSeq2Action,
       PeerAuthRspAtSeq4Action, AuthTimeoutAction, InvalidStateWhenAuth, AuthDrops, Consume
  <2> QED BY <1>u, <2>1, <2>3 DEF Goal
<1>6. CASE PeerDeauthAction(m)
  <2>1. Goal /\ UNCHANGED <<cntl, assoc, blocked>> /\ (UNCHANGED net \/ LinkDown)
    BY <1>6, <1>q DEF PeerDeauthAction, Consume, machines, setting
  <2> QED BY <1>u, <2>1 DEF Goal
<1> QED BY <1>4, <1>5, <1>6

\* A message is served that is part of no exchange, or whose part in one is over.
LEMMA LeaveAside ==
    ASSUME queue \in Seq(Messages), queue # <<>>, NEW r \in Replies, NEW c, NEW a, Serve(r, c, a),
           AsideReply(r), UNCHANGED <<cntl, assoc, blocked>>, Up' => Up, runner' # "restart",
           LeaveInv
    PROVE  LeaveInv'
<1> DEFINE q == queue
           q2 == queue'
<1>1. q \in Seq(Messages) /\ q # <<>> /\ Follows(q, q2, r)
  BY ServedFollows
<1> HIDE DEF q, q2
<1>2. \A t \in Exchanges : Absent(q, t) => Absent(q2, t)
  BY <1>1, HeadFacts, FollowsAbsent DEF AsideReply
<1>3. NoSuccess(q) => NoSuccess(q2)
  BY <1>1, OneType, FollowsNoSuccess DEF AsideReply
<1>4. Ordered(q2, cntl', assoc')
  BY <1>1, OrderedAside DEF LeaveInv, AsideReply, q
<1>5. Refused'
  BY <1>3 DEF LeaveInv, Refused, q, q2
<1>6. Settled'
  BY <1>2, OneType DEF LeaveInv, Settled, q, q2
<1> QED BY <1>4, <1>5, <1>6 DEF LeaveInv, Emptied, q2

\* A message that CNTL does not await is dropped, and nothing else.
LEMMA OnlyDropped ==
    ASSUME NEW m, cntl \in CntlStates, MlmeCntlMachinePerformAction(m),
           m.t \in CntlTypes \ CntlAwaits[cntl]
    PROVE  CntlDrops(m)
<1>1. /\ CntlAwaits["IDLE"] = {"OID_DISASSOC", "ROAMING_REQ"}
      /\ CntlAwaits["WAIT_JOIN"] = {"JOIN_CONF"} /\ CntlAwaits["WAIT_START"] = {"START_CONF"}
      /\ CntlAwaits["WAIT_AUTH"] = {"AUTH_CONF"} /\ CntlAwaits["WAIT_AUTH2"] = {"AUTH_CONF"}
      /\ CntlAwaits["WAIT_ASSOC"] = {"ASSOC_CONF"}
      /\ CntlAwaits["WAIT_DISASSOC"] = {"DISASSOC_CONF"}
      /\ CntlAwaits["WAIT_OID_DISASSOC"] = {"DISASSOC_CONF"}
      /\ CntlAwaits["WAIT_OID_LIST_SCAN"] = {"SCAN_CONF"}
  BY DEF CntlAwaits, CntlStates
<1>2. ~CntlOidSsidProc(m) /\ ~CntlOidRTBssidProc(m) /\ ~CntlOidScanProc(m)
  BY DEF CntlOidSsidProc, CntlOidRTBssidProc, CntlOidScanProc, CntlTypes, Confirms
<1>3. ~CntlIdleProc(m) /\ ~CntlWaitDisassocProc(m) /\ ~CntlWaitOidDisassoc(m)
  BY <1>1 DEF CntlIdleProc, CntlMlmeRoamingProc, CntlWaitDisassocProc, CntlWaitOidDisassoc
<1>4. /\ ~CntlWaitJoinProc(m) /\ ~CntlWaitStartProc(m) /\ ~CntlWaitAuthProc(m)
      /\ ~CntlWaitAuthProc2(m) /\ ~CntlWaitAssocProc(m) /\ ~CntlWaitScan(m)
  BY <1>1 DEF CntlWaitJoinProc, CntlWaitStartProc, CntlWaitAuthProc, CntlWaitAuthProc2,
     CntlWaitAssocProc, CntlWaitScan
<1> QED BY <1>2, <1>3, <1>4 DEF MlmeCntlMachinePerformAction

LEMMA LeaveByCntl ==
    ASSUME TypeInv, LeaveInv, queue # <<>>, runner' # "restart", Head(queue) \in Messages,
           MlmeCntlMachinePerformAction(Head(queue)), ~Overtakes(Head(queue))
    PROVE  LeaveInv'
<1> DEFINE m == Head(queue)
           q == queue
           q2 == queue'
<1>1. /\ queue \in Seq(Messages) /\ cntl \in CntlStates
      /\ UNCHANGED <<assoc, blocked>>
  BY Typed DEF MlmeCntlMachinePerformAction, machines
<1>2. CASE CntlDrops(m)
  <2>1. Serve(<<>>, {}, {}) /\ cntl' = cntl /\ (Up' => Up)
    BY <1>2 DEF CntlDrops, Consume, net, Up
  <2>2. <<>> \in Replies /\ AsideReply(<<>>)
    BY OneReply DEF AsideReply
  <2> QED BY <1>1, <2>1, <2>2, LeaveAside
<1>3. CASE ~CntlDrops(m) /\ Asks
  <2>1. Parts(m)
    BY <1>3, CntlParts
  <2>2. PICK r \in Replies : /\ Serve(r, {}, {})
                             /\ \/ cntl' = "IDLE" /\ r = <<>>
                                \/ cntl' \in CntlStates \ {"IDLE"} /\ Posts(r, RequestOf(cntl'))
    BY <1>3 DEF Asks
  <2>3. q \in Seq(Messages) /\ q # <<>> /\ Follows(q, q2, r) /\ Ordered(q, cntl, assoc)
    BY <1>1, <2>2, ServedFollows DEF LeaveInv
  <2>4. Ordered(q2, cntl', assoc')
    BY <1>1, <2>1, <2>2, <2>3, OrderedByCntl
  <2>5. ~Posts(r, "ASSOC_CONF") /\ ~Posts(r, "DISASSOC_CONF")
        /\ (cntl' \notin Leaving => ~Posts(r, "DISASSOC_REQ"))
    <3>1. CASE cntl' = "IDLE" /\ r = <<>>
      BY <3>1, OneType
    <3>2. CASE cntl' \in CntlStates \ {"IDLE"} /\ Posts(r, RequestOf(cntl'))
      BY <3>2, OneType, RequestNames DEF CntlStates, Leaving
    <3> QED BY <2>2, <3>1, <3>2
  <2>6. /\ cntl \in Leaving => ~Up'
        /\ cntl = "WAIT_ASSOC" => m.t = "ASSOC_CONF"
        /\ cntl' = "WAIT_ASSOC" => cntl \in {"WAIT_AUTH", "WAIT_AUTH2"}
        /\ Up' => Up \/ cntl = "WAIT_ASSOC"
    BY <2>1 DEF Parts, Up
  <2> DEFINE h == m.t
  <2>h. h = Head(q).t
    OBVIOUS
  <2>i. Refused /\ Settled /\ Alone(q, cntl, assoc) /\ BegunAfter(q, cntl, assoc)
    BY DEF LeaveInv, Ordered
  <2> HIDE DEF q, q2, m, h
  <2>7. \A t \in Exchanges : Absent(q, t) /\ ~Posts(r, t) => Absent(q2, t)
    BY <2>3, HeadFacts, FollowsAbsent
  <2>8. /\ \A t \in Exchanges : Absent(q, t) => h # t
        /\ \A t, u \in Exchanges : Ahead(q, t, u) /\ h = u => Absent(q, t)
    BY <2>3, <2>h, HeadFacts
  <2>9. Refused'
    <3> SUFFICES ASSUME cntl' = "WAIT_ASSOC" PROVE assoc' # "WAIT_RSP" /\ NoSuccess(q2)
      BY DEF Refused, q2
    <3>1. cntl \notin Leaving \cup {"WAIT_ASSOC"}
      BY <2>6 DEF Leaving
    <3>2. Absent(q, "ASSOC_CONF") /\ assoc # "WAIT_RSP"
      BY <2>i, <3>1 DEF Alone
    <3> QED BY <1>1, <2>3, <2>5, <3>2, FollowsNoSuccess
  <2>10. Settled'
    <3> SUFFICES ASSUME Up', cntl' \notin Leaving
                 PROVE  /\ assoc' # "DISASSOC_WAIT_RSP"
                        /\ Absent(q2, "DISASSOC_REQ") /\ Absent(q2, "DISASSOC_CONF")
      BY DEF Settled, q2
    <3>1. cntl \notin Leaving
      BY <2>6
    <3>2. /\ assoc # "DISASSOC_WAIT_RSP"
          /\ Absent(q, "DISASSOC_REQ") /\ Absent(q, "DISASSOC_CONF")
      <4>1. CASE Up
        BY <2>i, <3>1, <4>1 DEF Settled, q
      <4>2. CASE cntl = "WAIT_ASSOC"
        <5>1. h = "ASSOC_CONF"
          BY <2>6, <4>2 DEF h
        <5>2. Ahead(q, "DISASSOC_CONF", "ASSOC_CONF")
              /\ (Absent(q, "ASSOC_CONF") \/ (assoc # "DISASSOC_WAIT_RSP" /\ Absent(q, "DISASSOC_REQ")))
          BY <2>i, <4>2 DEF BegunAfter
        <5> QED BY <2>8, <5>1, <5>2, OneType
      <4> QED BY <2>6, <4>1, <4>2
    <3> QED BY <1>1, <2>5, <2>7, <3>2, OneType
  <2> QED BY <2>4, <2>9, <2>10 DEF LeaveInv, Emptied, q2
<1> QED BY <1>1, <1>2, <1>3, CntlStep, OnlyDropped

LEMMA LeaveByAssoc ==
    ASSUME TypeInv, LeaveInv, queue # <<>>, runner' # "restart", Head(queue) \in Messages,
           AssocMachine(Head(queue))
    PROVE  LeaveInv'
<1> DEFINE m == Head(queue)
           q == queue
           q2 == queue'
<1>1. /\ queue \in Seq(Messages) /\ cntl \in CntlStates /\ UNCHANGED <<cntl, blocked>>
  BY Typed DEF AssocMachine, setting
<1>u. Up' => Up
  BY DEF AssocMachine, MlmeAssocReqAction, MlmeDisassocReqAction, PeerAssocRspAction,
     PeerDisassocAction, AssocTimeoutAction, DisassocTimeoutAction, InvalidStateWhenAssoc,
     AssocDrops, LinkDown, net, Up
<1>2. PICK r \in Replies : \E c, a : Serve(r, c, a) /\ AssocMoves(m, r)
  BY AssocKinds
<1>3. q \in Seq(Messages) /\ q # <<>> /\ Follows(q, q2, r) /\ Ordered(q, cntl, assoc)
  BY <1>1, <1>2, ServedFollows DEF LeaveInv
<1>4. Ordered(q2, cntl', assoc')
  <2>1. Ordered(queue', cntl, assoc')
    BY <1>1, <1>2, <1>3, OrderedByAssoc
  <2> QED BY <1>1, <2>1
<1>i. Refused /\ Settled
  BY DEF LeaveInv
<1>h. m.t = Head(q).t /\ AssocMoves(m, r)
  BY <1>2
<1> HIDE DEF q, q2, m
<1>5. \A t \in Exchanges : Absent(q, t) /\ ~Posts(r, t) => Absent(q2, t)
  BY <1>3, HeadFacts, FollowsAbsent
<1>6. \A t \in Exchanges : Absent(q, t) => m.t # t
  BY <1>3, <1>h, HeadFacts
<1>7. Refused'
  <2> SUFFICES ASSUME blocked, cntl = "WAIT_ASSOC" PROVE assoc' # "WAIT_RSP" /\ NoSuccess(q2)
    BY <1>1 DEF Refused, q2
  <2>1. assoc # "WAIT_RSP" /\ NoSuccess(q)
    BY <1>i DEF Refused, q
  <2>2. assoc' # "WAIT_RSP" /\ (Posts(r, "ASSOC_CONF") => r[1].v # "ok")
    BY <1>h, <2>1, OneType DEF AssocMoves
  <2> QED BY <1>3, <2>1, <2>2, FollowsNoSuccess
<1>8. Settled'
  <2> SUFFICES ASSUME Up', cntl \notin Leaving
               PROVE  /\ assoc' # "DISASSOC_WAIT_RSP"
                      /\ Absent(q2, "DISASSOC_REQ") /\ Absent(q2, "DISASSOC_CONF")
    BY <1>1 DEF Settled, q2
  <2>1. /\ assoc # "DISASSOC_WAIT_RSP"
        /\ Absent(q, "DISASSOC_REQ") /\ Absent(q, "DISASSOC_CONF")
    BY <1>i, <1>u DEF Settled, q
  <2>2. m.t # "DISASSOC_REQ"
    BY <1>6, <2>1, OneType
  <2>3. assoc' # "DISASSOC_WAIT_RSP" /\ ~Posts(r, "DISASSOC_REQ") /\ ~Posts(r, "DISASSOC_CONF")
    BY <1>h, <2>1, <2>2, OneType DEF AssocMoves
  <2> QED BY <1>5, <2>1, <2>3, OneType
<1> QED BY <1>4, <1>7, <1>8 DEF LeaveInv, Emptied, q2

LEMMA DispatchLeave ==
    ASSUME TypeInv, LeaveInv, OidsInSequence, Dispatch
    PROVE  LeaveInv'
<1> DEFINE m == Head(queue)
<1>1. /\ queue # <<>> /\ queue \in Seq(Messages) /\ m \in Messages /\ runner' # "restart"
      /\ ~Overtakes(m)
      /\ \/ MlmeCntlMachinePerformAction(m) \/ SyncMachine(m) \/ AuthMachine(m)
         \/ PeerDeauthAction(m) \/ AssocMachine(m)
  BY Typed, DispatchServed DEF Dispatch, OidsInSequence
<1>2. CASE MlmeCntlMachinePerformAction(m)
  BY <1>1, <1>2, LeaveByCntl
<1>3. CASE AssocMachine(m)
  BY <1>1, <1>3, LeaveByAssoc
<1>4. CASE SyncMachine(m) \/ AuthMachine(m) \/ PeerDeauthAction(m)
  <2>1. /\ \E r \in Replies : \E c, a : Serve(r, c, a) /\ AsideReply(r)
        /\ UNCHANGED <<cntl, assoc, blocked>> /\ (Up' => Up)
    BY <1>1, <1>4, AsideSteps
  <2> QED BY <1>1, <2>1, LeaveAside
<1> QED BY <1>1, <1>2, <1>3, <1>4

\* Between two messages: what is enqueued is part of no exchange, CNTL may start a scan from
\* IDLE, no link comes up and nothing is blocked ...
Quietly ==
    /\ assoc' = assoc /\ (blocked' => blocked) /\ (Up' => Up)
    /\ cntl' = cntl \/ (cntl = "IDLE" /\ cntl' = "WAIT_OID_LIST_SCAN")
    /\ queue' = queue \/ queue' = <<>> \/ \E x \in Messages : x.t \notin Exchanges /\ Enqueue(x)
    /\ runner' = "restart" => runner = "restart" \/ queue' = <<>>

\* ... or a station whose MIC failures count three leaves, whatever CNTL was doing.
Countermeasure ==
    /\ micErr /\ assoc' = assoc /\ cntl' = "WAIT_DISASSOC"
    /\ Enqueue(Signal("DISASSOC_REQ"))
    /\ runner' = "restart" => runner = "restart"

LEMMA NoParts ==
    /\ \A x \in Requests : x \in Messages /\ (x.t \notin CntlRequests => x.t \notin Exchanges)
    /\ \A x \in Frames : x \in Messages /\ x.t \notin Exchanges
    /\ \A t \in MachineTimers : /\ Signal(TimeoutOf[t]) \in Messages
                                /\ Signal(TimeoutOf[t]).t \notin Exchanges
    /\ \A t \in {"OID_SSID", "OID_SCAN", "ROAMING_REQ", "SCAN_REQ"} :
         Signal(t) \in Requests /\ Signal(t).t \notin Exchanges
<1>1. \A x \in Requests : x.t \in {"OID_SSID", "OID_SCAN", "OID_DISASSOC", "OID_BSSID", "ROAMING_REQ",
                                   "SCAN_REQ", "DISASSOC_REQ"}
  BY DEF Requests, Oids, Signal, Msg
<1>2. \A x \in Requests : x.t \notin CntlRequests => x.t \notin Exchanges
  BY <1>1, OneType DEF CntlRequests
<1>3. \A x \in Frames : x.t \notin Exchanges
  BY FrameKinds, OneType DEF FrameTypes
<1>4. ASSUME NEW t \in MachineTimers
      PROVE  Signal(TimeoutOf[t]) \in Messages /\ Signal(TimeoutOf[t]).t \notin Exchanges
  <2>1. TimeoutOf[t] \in Timeouts
    BY TimeoutNames DEF Timeouts, MachineTimers
  <2>2. Signal(TimeoutOf[t]) \in Messages /\ Signal(TimeoutOf[t]).t = TimeoutOf[t]
    BY <2>1, PlainMessage DEF Signal, PlainTypes
  <2> QED BY <2>1, <2>2, OneType DEF Timeouts
<1>5. \A t \in {"OID_SSID", "OID_SCAN", "ROAMING_REQ", "SCAN_REQ"} :
        Signal(t) \in Requests /\ Signal(t).t \notin Exchanges
  BY RequestTypes, OneType DEF Requests, Oids
<1> QED BY <1>2, <1>3, <1>4, <1>5, PeerMessages

LEMMA DecideQuietly ==
    ASSUME NEW p \in Posters, NEW x \in Requests, x.t \notin Exchanges,
           NEW state \in {"none", "WAIT_OID_LIST_SCAN"}, Decide(p, x, state),
           assoc' = assoc, Up' => Up, state # "none" => cntl = "IDLE"
    PROVE  Quietly
<1>1. CASE Smp
  BY <1>1 DEF Decide, Quietly
<1>2. CASE ~Smp
  <2>1. Enqueue(x) /\ WriteCntl(state) /\ (CallHandler("softirq") \/ UNCHANGED runner)
    BY <1>2 DEF Decide
  <2>2. /\ cntl' = cntl \/ (cntl = "IDLE" /\ cntl' = "WAIT_OID_LIST_SCAN")
        /\ blocked' => blocked
    BY <2>1 DEF WriteCntl, CntlStates
  <2>3. runner' = "restart" => runner = "restart"
    BY <2>1 DEF CallHandler
  <2> QED BY <2>1, <2>2, <2>3, NoParts DEF Quietly
<1> QED BY <1>1, <1>2

LEMMA QuietSteps ==
    ASSUME TypeInv, MicInv, JobInv, Prompt, [Next]_vars, ~Dispatch
    PROVE  RestartReset \/ Quietly \/ Countermeasure
<1>p. "periodic" \in Posters
  BY DEF Posters
<1>j. \A q \in Posters :
        /\ job[q] \in Jobs /\ job[q].set \in {"none", "call"}
        /\ job[q].post # <<>> => Head(job[q].post).t \notin CntlRequests
  <2> SUFFICES ASSUME NEW q \in Posters
               PROVE  /\ job[q] \in Jobs /\ job[q].set \in {"none", "call"}
                      /\ job[q].post # <<>> => Head(job[q].post).t \notin CntlRequests
    OBVIOUS
  <2>1. job[q] \in Jobs
    BY DEF TypeInv, TypeOK
  <2>2. job[q].set \notin Notes /\ (job[q].post # <<>> => Head(job[q].post).t \notin CntlRequests)
    BY DEF JobInv, Prompt
  <2> QED BY <2>1, <2>2, JobFacts
<1>n. UNCHANGED net => (Up' => Up)
  BY DEF net, Up
<1>1. UNCHANGED vars \/ EnterHandler \/ LeaveHandler \/ UserCall \/ MicError \/ Unblock => Quietly
  BY DEF vars, machines, net, setting, rest, EnterHandler, LeaveHandler, UserCall, MicError, Unblock,
     Quietly, Up
<1>2. ASSUME NEW x \in Frames, MlmeEnqueueForRecv(x) PROVE Quietly
  <2>1. x \in Messages /\ x.t \notin Exchanges
    BY NoParts
  <2> QED
    BY <1>2, <1>n, <2>1 DEF MlmeEnqueueForRecv, CallHandler, machines, setting, rest, Quietly
<1>3. ASSUME NEW t \in MachineTimers, Fire(t) PROVE Quietly
  <2> DEFINE x == Signal(TimeoutOf[t])
  <2>1. x \in Messages /\ x.t \notin Exchanges /\ Enqueue(x)
    BY <1>3, NoParts DEF Fire
  <2>2. runner' = "restart" => runner = "restart"
    BY <1>3 DEF Fire, CallHandler, MachineTimers
  <2> HIDE DEF x
  <2> QED BY <1>3, <1>n, <2>1, <2>2 DEF Fire, machines, setting, rest, Quietly
<1>4. ASSUME NEW x \in Oids, UserRequest(x) PROVE Quietly
  BY <1>4, <1>n DEF UserRequest, machines, setting, rest, Quietly
<1>5. ASSUME NEW q \in Posters, Post(q) PROVE Quietly
  <2> DEFINE x == Head(job[q].post)
  <2>1. x \in Requests /\ Enqueue(x) /\ x.t \notin CntlRequests
    BY <1>5, <1>j, JobFacts DEF Post
  <2> HIDE DEF x
  <2> QED
    BY <1>5, <1>n, <2>1, NoParts DEF Post, machines, setting, rest, Quietly
<1>6. ASSUME NEW q \in Posters, SetCntl(q) PROVE Quietly
  <2>1. cntl' = cntl /\ (blocked' => blocked)
    BY <1>6, <1>j DEF SetCntl, WriteCntl, CntlStates
  <2> QED
    BY <1>6, <1>n, <2>1 DEF SetCntl, machines, Quietly
<1>7. ASSUME NEW q \in {"periodic", "tx"}, MicCountermeasure(q) PROVE Countermeasure
  <2>1. ~Smp
    BY <1>7 DEF MicCountermeasure, MicInv, Prompt, NotesLate
  <2>2. /\ micErr /\ assoc' = assoc /\ Enqueue(Signal("DISASSOC_REQ")) /\ WriteCntl("WAIT_DISASSOC")
        /\ CallHandler("softirq") \/ UNCHANGED runner
    BY <1>7, <2>1 DEF MicCountermeasure, Decide, machines
  <2>3. cntl' = "WAIT_DISASSOC" /\ (runner' = "restart" => runner = "restart")
    BY <2>2 DEF WriteCntl, CntlStates, CallHandler
  <2> QED BY <2>2, <2>3 DEF Countermeasure
<1>8. ASSUME NEW x \in {Signal("OID_SSID"), Signal("OID_SCAN")}, AutoRequest(x) PROVE Quietly
  <2>1. x \in Requests /\ x.t \notin Exchanges
    BY NoParts
  <2> QED BY <1>8, <1>n, <1>p, <2>1, DecideQuietly DEF AutoRequest, machines
<1>9. AutoScan => Quietly
  BY <1>n, <1>p, NoParts, DecideQuietly DEF AutoScan, machines
<1>10. MlmeCheckForFastRoaming => Quietly
  BY <1>n, <1>p, NoParts, DecideQuietly DEF MlmeCheckForFastRoaming, Prompt, machines
<1>11. LostBeacons => Quietly
  <2> SUFFICES ASSUME LostBeacons PROVE Quietly
    OBVIOUS
  <2>1. assoc' = assoc /\ (Up' => Up)
    BY DEF LostBeacons, LinkDown, machines, Up
  <2>2. \/ Decide("periodic", Signal("OID_SSID"), "none")
        \/ UNCHANGED <<queue, runner, cntl, blocked>>
    BY DEF LostBeacons
  <2>3. CASE Decide("periodic", Signal("OID_SSID"), "none")
    BY <2>1, <2>3, <1>p, NoParts, DecideQuietly
  <2> QED BY <2>1, <2>2, <2>3 DEF Quietly
<1>12. PeriodicExec => Quietly
  BY <1>1, <1>8, <1>9, <1>10, <1>11 DEF PeriodicExec
<1>13. ASSUME NEW q \in Posters, Poster(q) PROVE Quietly
  BY <1>1, <1>5, <1>6, <1>13 DEF Poster
<1> QED
  BY <1>1, <1>2, <1>3, <1>4, <1>7, <1>12, <1>13 DEF Next, Handler

\* A queue that has gained nothing, or one message at its end.
LEMMA Entered ==
    ASSUME queue \in Seq(Messages), NEW x, x \in Messages, Enqueue(x)
    PROVE  \A i \in DOMAIN queue' :
             \/ i \in DOMAIN queue /\ queue'[i] = queue[i]
             \/ queue'[i] = x /\ \A k \in DOMAIN queue : k < i
<1>1. queue \o <<x>> = Append(queue, x)
  OBVIOUS
<1>2. queue' = queue \/ queue' = Append(queue, x)
  BY <1>1 DEF Enqueue, Put
<1>3. \A i \in DOMAIN Append(queue, x) :
        \/ i \in DOMAIN queue /\ Append(queue, x)[i] = queue[i]
        \/ Append(queue, x)[i] = x /\ i = Len(queue) + 1
  OBVIOUS
<1>4. \A k \in DOMAIN queue : k < Len(queue) + 1
  OBVIOUS
<1> QED BY <1>2, <1>3, <1>4

LEMMA LeaveQuietly ==
    ASSUME queue \in Seq(Messages), LeaveInv, Quietly
    PROVE  LeaveInv'
<1> DEFINE q == queue
           q2 == queue'
<1>1. \A i \in DOMAIN q2 : q2[i].t \in Exchanges => i \in DOMAIN q /\ q2[i] = q[i]
  <2>1. CASE queue' = queue \/ queue' = <<>>
    BY <2>1
  <2>2. ASSUME NEW x \in Messages, x.t \notin Exchanges, Enqueue(x)
        PROVE  \A i \in DOMAIN q2 : q2[i].t \in Exchanges => i \in DOMAIN q /\ q2[i] = q[i]
    BY <2>2, Entered
  <2> QED BY <2>1, <2>2 DEF Quietly
<1>2. /\ assoc' = assoc /\ (blocked' => blocked) /\ (Up' => Up)
      /\ cntl' = cntl \/ (cntl = "IDLE" /\ cntl' = "WAIT_OID_LIST_SCAN")
      /\ runner' = "restart" => runner = "restart" \/ queue' = <<>>
  BY DEF Quietly
<1>i. /\ Alone(q, cntl, assoc) /\ OverBefore(q, cntl, assoc) /\ BegunAfter(q, cntl, assoc)
      /\ Refused /\ Settled /\ Emptied
  BY DEF LeaveInv, Ordered
<1>e. q2 = <<>> => \A t : Absent(q2, t)
  BY DEF Absent
<1>r. /\ blocked /\ cntl = "WAIT_ASSOC" => assoc # "WAIT_RSP" /\ NoSuccess(q)
      /\ Up /\ cntl \notin Leaving =>
           assoc # "DISASSOC_WAIT_RSP" /\ Absent(q, "DISASSOC_REQ") /\ Absent(q, "DISASSOC_CONF")
      /\ runner = "restart" => \A t \in Exchanges \ {"DISASSOC_REQ"} : Absent(q, t)
  BY <1>i DEF Refused, Settled, Emptied
<1> HIDE DEF q, q2
<1>3. \A t \in Exchanges : Absent(q, t) => Absent(q2, t)
  BY <1>1 DEF Absent
<1>4. \A t, u \in Exchanges : Ahead(q, t, u) => Ahead(q2, t, u)
  BY <1>1 DEF Ahead
<1>5. /\ OneAtMost(q) => OneAtMost(q2)
      /\ NoSuccess(q) => NoSuccess(q2)
  BY <1>1, OneType DEF OneAtMost, NoSuccess
<1>6. Alone(q2, cntl', assoc')
  BY <1>2, <1>3, <1>5, <1>i, OneType DEF Alone, Leaving
<1>7. OverBefore(q2, cntl', assoc')
  BY <1>2, <1>3, <1>4, <1>i, OneType DEF OverBefore, Leaving
<1>8. BegunAfter(q2, cntl', assoc')
  BY <1>2, <1>3, <1>4, <1>i, OneType DEF BegunAfter
<1>9. Refused'
  BY <1>2, <1>5, <1>r DEF Refused, q2
<1>10. Settled'
  BY <1>2, <1>3, <1>r, OneType DEF Settled, Leaving, q2
<1>11. Emptied'
  BY <1>2, <1>3, <1>e, <1>r DEF Emptied, q2
<1> QED BY <1>6, <1>7, <1>8, <1>9, <1>10, <1>11 DEF LeaveInv, Ordered, q2

LEMMA LeaveCountermeasure ==
    ASSUME queue \in Seq(Messages), LeaveInv, Countermeasure
    PROVE  LeaveInv'
<1> DEFINE q == queue
           q2 == queue'
<1>1. \A i \in DOMAIN q2 :
        \/ i \in DOMAIN q /\ q2[i] = q[i]
        \/ q2[i].t = "DISASSOC_REQ" /\ \A k \in DOMAIN q : k < i
  <2>1. Signal("DISASSOC_REQ") \in Messages /\ Signal("DISASSOC_REQ").t = "DISASSOC_REQ"
    BY PlainMessage DEF Signal, PlainTypes
  <2> QED BY <2>1, Entered DEF Countermeasure
<1>2. /\ Up /\ assoc' = assoc /\ cntl' = "WAIT_DISASSOC"
      /\ runner' = "restart" => runner = "restart"
  BY DEF Countermeasure, Up
<1>i. /\ Alone(q, cntl, assoc) /\ OverBefore(q, cntl, assoc)
      /\ Refused /\ Settled /\ Emptied
  BY DEF LeaveInv, Ordered
<1>r. /\ Up /\ cntl \notin Leaving =>
           assoc # "DISASSOC_WAIT_RSP" /\ Absent(q, "DISASSOC_REQ") /\ Absent(q, "DISASSOC_CONF")
      /\ runner = "restart" => \A t \in Exchanges \ {"DISASSOC_REQ"} : Absent(q, t)
  BY <1>i DEF Settled, Emptied
<1> HIDE DEF q, q2
<1>3. \A t \in Exchanges : Absent(q, t) /\ t # "DISASSOC_REQ" => Absent(q2, t)
  BY <1>1 DEF Absent
<1>4. /\ Ahead(q, "ASSOC_REQ", "DISASSOC_REQ") => Ahead(q2, "ASSOC_REQ", "DISASSOC_REQ")
      /\ Ahead(q, "ASSOC_CONF", "DISASSOC_CONF") => Ahead(q2, "ASSOC_CONF", "DISASSOC_CONF")
  BY <1>1 DEF Ahead
<1>5. OneAtMost(q) => OneAtMost(q2)
  BY <1>1, OneType DEF OneAtMost
\* Nothing but the association that is interrupted is under way.
<1>6. /\ Ahead(q, "ASSOC_REQ", "DISASSOC_REQ") /\ Ahead(q, "ASSOC_CONF", "DISASSOC_CONF")
      /\ assoc = "WAIT_RSP" => Absent(q, "DISASSOC_CONF")
      /\ \/ Absent(q, "ASSOC_REQ")
         \/ assoc # "DISASSOC_WAIT_RSP" /\ Absent(q, "DISASSOC_CONF")
  <2>1. CASE cntl \in Leaving
    BY <1>i, <2>1 DEF OverBefore
  <2>2. CASE cntl \notin Leaving
    BY <1>2, <1>r, <2>2, AbsentAhead
  <2> QED BY <2>1, <2>2
<1>7. Alone(q2, cntl', assoc')
  BY <1>2, <1>3, <1>5, <1>i, OneType DEF Alone, Leaving
<1>8. OverBefore(q2, cntl', assoc')
  BY <1>2, <1>3, <1>4, <1>6, OneType DEF OverBefore
<1>9. BegunAfter(q2, cntl', assoc') /\ Refused' /\ Settled'
  BY <1>2 DEF BegunAfter, Refused, Settled, Leaving
<1>10. Emptied'
  BY <1>2, <1>3, <1>r DEF Emptied, q2
<1> QED BY <1>7, <1>8, <1>9, <1>10 DEF LeaveInv, Ordered, q2

LEMMA LeaveNext ==
    TypeInv /\ MicInv /\ JobInv /\ Prompt /\ OidsInSequence /\ QuietRestart /\ LeaveInv /\ [Next]_vars
        => LeaveInv'
<1> SUFFICES ASSUME TypeInv, MicInv, JobInv, Prompt, OidsInSequence, QuietRestart, LeaveInv,
                    [Next]_vars
             PROVE  LeaveInv'
  OBVIOUS
<1>1. queue \in Seq(Messages)
  BY Typed
<1>2. CASE Dispatch
  BY <1>2, DispatchLeave
<1>3. CASE RestartReset
  <2>1. /\ queue' = queue /\ cntl' = "IDLE" /\ assoc' = "IDLE" /\ runner = "restart"
        /\ runner' = "none"
    BY <1>3 DEF RestartReset
  <2>2. \A t \in Exchanges : Absent(queue, t)
    BY <2>1 DEF LeaveInv, Emptied, QuietRestart, Queued, Absent
  <2>3. OneAtMost(queue)
    BY <2>2, OneType DEF OneAtMost, Absent
  <2>4. Ordered(queue', cntl', assoc')
    BY <2>1, <2>2, <2>3, OneType DEF Ordered, Alone, OverBefore, BegunAfter, Leaving
  <2>5. Refused' /\ Settled' /\ Emptied'
    BY <2>1, <2>2, OneType DEF Refused, Settled, Emptied
  <2> QED BY <2>4, <2>5 DEF LeaveInv
<1>4. CASE Quietly
  BY <1>1, <1>4, LeaveQuietly
<1>5. CASE Countermeasure
  BY <1>1, <1>5, LeaveCountermeasure
<1> QED BY <1>2, <1>3, <1>4, <1>5, QuietSteps

\* Once MIC countermeasures block associations, none that was under way brings a link up: if
\* requests are served in sequence, whatever frames, timeouts, rejections and restarts cross,
\* and whenever in an attempt the countermeasures come.  The request to leave is put behind
\* whatever is left of the association it interrupts, so that this one is over before the
\* disassociation is confirmed and CNTL tries again.  It needs that contexts post without
\* delay and do not scan in order to roam, which overwrites the state of CNTL, and that no
\* countermeasure is decided between the two halves of a restart.
THEOREM NoLinkWhileBlockedInSequence ==
    Spec /\ []OidsInSequence /\ []QuietRestart /\ Prompt => []NoLinkWhileBlocked
<1>1. Init => MicInv /\ JobInv /\ LeaveInv
  <2> SUFFICES ASSUME Init PROVE MicInv /\ JobInv /\ LeaveInv
    OBVIOUS
  <2>1. JobInv
    BY QuietJobs DEF Init, JobInv, Quiet
  <2>2. queue = <<>> /\ cntl = "IDLE" /\ assoc = "IDLE"
    BY DEF Init
  <2>3. (\A t : Absent(queue, t)) /\ OneAtMost(queue)
    BY <2>2 DEF Absent, OneAtMost
  <2>4. LeaveInv
    BY <2>2, <2>3
    DEF LeaveInv, Ordered, Alone, OverBefore, BegunAfter, Refused, Settled, Emptied, Leaving
  <2> QED BY <2>1, <2>4 DEF Init, MicInv
<1>2. TypeInv /\ LeaveInv => NoLinkWhileBlocked
  <2> SUFFICES ASSUME TypeInv, LeaveInv, blocked, queue # <<>>, cntl = "WAIT_ASSOC"
               PROVE  Head(queue) # Msg("ASSOC_CONF", NoBss, "ok")
    BY DEF NoLinkWhileBlocked
  <2>1. NoSuccess(queue) /\ queue \in Seq(Messages)
    BY Typed DEF LeaveInv, Refused
  <2>2. Head(queue).t = "ASSOC_CONF" => Head(queue).v # "ok"
    BY <2>1, HeadFacts
  <2>3. Msg("ASSOC_CONF", NoBss, "ok").t = "ASSOC_CONF" /\ Msg("ASSOC_CONF", NoBss, "ok").v = "ok"
    BY DEF Msg
  <2> QED BY <2>2, <2>3
<1>3. TypeInv /\ Prompt /\ [Next]_vars => Prompt'
  <2> SUFFICES ASSUME TypeInv, Prompt, [Next]_vars PROVE Prompt'
    OBVIOUS
  <2>1. NotesLate' = NotesLate /\ Disturbances' = Disturbances
    BY ScenarioKept
  <2> QED BY <2>1 DEF Prompt
<1> QED
  BY <1>1, <1>2, <1>3, TypeInit, TypeNext, MicNext, JobNext, LeaveNext, PTL DEF Spec
=============================================================================
