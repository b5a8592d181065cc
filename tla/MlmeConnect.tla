---------------------------- MODULE MlmeConnect ----------------------------
(***************************************************************************)
(* The machines of the MLME that find, join, authenticate with and leave a *)
(* network: CNTL (connect.c), SYNC (sync.c), AUTH (auth.c), AUTH_RSP       *)
(* (auth_rsp.c) and ASSOC (assoc.c), with the contexts that talk to them   *)
(* through the MLME queue.                                                 *)
(*                                                                         *)
(* The queue is the FIFO that MlmeQueue implements.  One action dispatches *)
(* the head of the queue to the handler of its machine; between two        *)
(* dispatches frames arrive, timers fire, the user and the periodic task   *)
(* post requests, each of them on what it saw of CNTL some time before.    *)
(***************************************************************************)
EXTENDS Integers, Sequences, FiniteSets

CONSTANTS
    NoBss,          \* the zero address
    NewIbss,        \* the random BSSID of an IBSS the station starts
    MaxLen,         \* MAX_LEN_OF_MLME_QUEUE
    Scenarios       \* the environments to be considered, a sequence

(***************************************************************************)
(* A scenario:                                                             *)
(*   bss          the BSSs with the station's SSID                         *)
(*   ibss         those of them that are IBSSs                             *)
(*   bssType      PortCfg.BssType: "infra" or "adhoc"                      *)
(*   authMode     PortCfg.AuthMode: "open", "shared" or "autoSwitch"       *)
(*   tables       the candidate lists a site survey may give               *)
(*   channels     length of ChannelList                                    *)
(*   smp          there is a second CPU: del_timer_sync waits for          *)
(*                callbacks, and the contexts below are not atomic         *)
(*   disturbances which of the events below happen                         *)
(*   frames       bound: frames of peers in the queue at a time            *)
(*   oids         bound: requests of the user, in all                      *)
(*   backlog      bound: only handlers add to a longer queue, and to a     *)
(*                queue this long only timers and what was decided before  *)
(***************************************************************************)
\* The AP refuses, deauthenticates, disassociates or switches channel, beacons are
\* lost, the driver reconnects or scans by itself, roams or scans in order to roam, MIC
\* countermeasures, kmalloc fails.
AllDisturbances == {"refuse", "deauth", "disassoc", "channelSwitch", "noBeacon",
                    "auto", "autoScan", "roam", "roamScan", "mic", "noMemory"}

ASSUME AddressAssumption == NoBss # NewIbss /\ MaxLen \in Nat \ {0}
ASSUME ScenarioAssumption ==
    \A i \in DOMAIN Scenarios : LET s == Scenarios[i] IN
        /\ IsFiniteSet(s.bss) /\ s.bss # {} /\ s.ibss \subseteq s.bss
        /\ NoBss \notin s.bss /\ NewIbss \notin s.bss
        /\ s.bssType \in {"infra", "adhoc"}
        /\ s.authMode \in {"open", "shared", "autoSwitch"}
        /\ s.tables \subseteq UNION {[1 .. n -> s.bss] : n \in 0 .. Cardinality(s.bss)}
        /\ s.channels \in Nat \ {0}
        /\ s.smp \in BOOLEAN /\ s.disturbances \subseteq AllDisturbances
        /\ s.frames \in Nat /\ s.oids \in Nat /\ s.backlog \in Nat

VARIABLES
    scenario,       \* the environment, for the whole behaviour
    queue,          \* the MLME queue, its head being the message that is served
    runner,         \* who has set Mlme.Running
    cntl, sync, auth, assoc,    \* CurrState of the machines
    chan,           \* MlmeAux.Channel while SYNC scans, an index, else 0
    armed,          \* timers that are pending
    aux,            \* MlmeAux.Bssid, BssType and Alg
    tab,            \* MlmeAux.SsidBssTab: BssNr and BssEntry
    bssIdx,         \* MlmeAux.BssIdx
    link,           \* INFRA_ON, ADHOC_ON or neither
    connected,      \* MEDIA_STATE_CONNECTED
    bssid,          \* PortCfg.Bssid
    micErr,         \* PortCfg.MicErrCnt >= 3
    blocked,        \* PortCfg.bBlockAssoc
    autoSsid,       \* MlmeAux.AutoReconnectSsid is a valid SSID
    suspended,      \* BSS_SCAN_IN_PROGRESS: MSDU transmission is suspended
    job,            \* what a context has decided to post, not yet done
    asked,          \* requests the user has made
    authOk, assocOk,    \* history: the BSS that accepted us in this attempt of CNTL
    overruns,       \* history: requests served in the middle of an attempt
    mishap          \* history: a message lost, a pending timer other than ScanTimer
                    \* added again, a callback that waits for itself

machines == <<sync, auth, assoc, chan>>
target == <<aux, tab, bssIdx>>
net == <<link, connected, bssid, micErr>>
setting == <<blocked, autoSsid, suspended>>
accepted == <<authOk, assocOk>>
history == <<accepted, overruns>>
vars == <<scenario, queue, runner, cntl, machines, armed, target, net, setting,
          job, asked, history, mishap>>

Bss == Scenarios[scenario].bss
Ibss == Scenarios[scenario].ibss
BssType == Scenarios[scenario].bssType
AuthMode == Scenarios[scenario].authMode
Tables == Scenarios[scenario].tables
NChannels == Scenarios[scenario].channels
Smp == Scenarios[scenario].smp
Disturbances == Scenarios[scenario].disturbances
MaxFrames == Scenarios[scenario].frames
MaxOids == Scenarios[scenario].oids
MaxBacklog == Scenarios[scenario].backlog
NBss == Cardinality(Bss)

\* Bound: `overruns` counts up to this.
MaxOverruns == 2

MachineTimers == {"beacon", "scan", "auth", "assoc", "disassoc"}
Posters == {"user", "periodic", "tx"}

CntlStates == {"IDLE", "WAIT_JOIN", "WAIT_START", "WAIT_AUTH", "WAIT_AUTH2",
               "WAIT_ASSOC", "WAIT_DISASSOC", "WAIT_OID_DISASSOC",
               "WAIT_OID_LIST_SCAN"}

\* A message: its type, the BSS or the table index it is about, and a status.
Msg(t, x, v) == [t |-> t, x |-> x, v |-> v]
Signal(t) == Msg(t, NoBss, "ok")

Oids == {Signal("OID_SSID"), Signal("OID_SCAN"), Signal("OID_DISASSOC")}
            \cup [t : {"OID_BSSID"}, x : Bss, v : {"ok"}]
If(d, set) == IF d \in Disturbances THEN set ELSE {}
Aps == Bss \ Ibss
Frames ==
    [t : {"BEACON"}, x : Bss, v : {"ok"} \cup If("channelSwitch", {"switch"})]
    \cup [t : {"AUTH_SEQ2", "ASSOC_RSP"} \cup (IF AuthMode = "open" THEN {} ELSE {"AUTH_SEQ4"}),
          x : Aps, v : {"ok"} \cup If("refuse", {"fail"})]
    \cup [t : If("deauth", {"DEAUTH"}) \cup If("disassoc", {"PEER_DISASSOC"}), x : Aps, v : {"ok"}]
FrameTypes == {"BEACON", "AUTH_SEQ2", "AUTH_SEQ4", "ASSOC_RSP", "DEAUTH",
               "PEER_DISASSOC"}

TimeoutOf == [t \in MachineTimers |->
    CASE t = "beacon" -> "BEACON_TIMEOUT" [] t = "scan" -> "SCAN_TIMEOUT"
      [] t = "auth" -> "AUTH_TIMEOUT" [] t = "assoc" -> "ASSOC_TIMEOUT"
      [] t = "disassoc" -> "DISASSOC_TIMEOUT"]

Confirms == {"JOIN_CONF", "SCAN_CONF", "START_CONF", "AUTH_CONF", "ASSOC_CONF", "DISASSOC_CONF"}

\* What may be in the queue: JOIN_REQ names a candidate by its index, the requests to AUTH
\* and ASSOC may name an address that is not a BSS.
Addresses == Bss \cup {NoBss, NewIbss}
Timeouts == {"BEACON_TIMEOUT", "SCAN_TIMEOUT", "AUTH_TIMEOUT", "ASSOC_TIMEOUT", "DISASSOC_TIMEOUT"}
PlainTypes == {"OID_SSID", "OID_SCAN", "OID_DISASSOC", "ROAMING_REQ", "SCAN_REQ", "START_REQ",
               "DISASSOC_REQ"} \cup Confirms \cup Timeouts
Messages ==
    [t : PlainTypes, x : {NoBss}, v : {"ok", "fail"}]
    \cup [t : {"BEACON"}, x : Bss, v : {"ok", "switch"}]
    \cup [t : (FrameTypes \ {"BEACON"}) \cup {"OID_BSSID"}, x : Bss, v : {"ok", "fail"}]
    \cup [t : {"JOIN_REQ"}, x : 0 .. NBss - 1, v : {"ok"}]
    \cup [t : {"AUTH_REQ"}, x : Addresses, v : {"open", "shared"}]
    \cup [t : {"ASSOC_REQ"}, x : Addresses, v : {"ok"}]

Count(types) == Cardinality({k \in DOMAIN queue : queue[k].t \in types})

\* A job: a message to post, then a state to write into CNTL or a handler to call.
NoJob == [post |-> <<>>, set |-> "none"]
Requests == Oids \cup {Signal("ROAMING_REQ"), Signal("SCAN_REQ"), Signal("DISASSOC_REQ")}
Jobs == {j \in [post : Seq(Requests),
                set : {"none", "call", "WAIT_OID_LIST_SCAN", "WAIT_DISASSOC"}] :
             Len(j.post) <= 1}

TypeOf(b) == IF b \in Ibss \cup {NewIbss, NoBss} THEN "adhoc" ELSE "infra"

TypeOK ==
    /\ scenario \in DOMAIN Scenarios
    /\ queue \in Seq(Messages) /\ Len(queue) <= MaxLen
    /\ runner \in {"none", "softirq", "user", "restart"} \cup MachineTimers
    /\ cntl \in CntlStates
    /\ sync \in {"IDLE", "JOIN_WAIT_BEACON", "SCAN_LISTEN"}
    /\ auth \in {"IDLE", "WAIT_SEQ2", "WAIT_SEQ4"}
    /\ assoc \in {"IDLE", "WAIT_RSP", "DISASSOC_WAIT_RSP"}
    /\ chan \in 0 .. NChannels
    /\ (sync = "SCAN_LISTEN") => chan > 0
    /\ armed \subseteq MachineTimers
    /\ aux \in [bssid : Addresses, type : {"infra", "adhoc", "any"},
                alg : {"open", "shared"}]
    /\ tab \in [nr : 0 .. NBss, entry : [0 .. NBss - 1 -> Bss \cup {NoBss}]]
    /\ bssIdx \in 0 .. NBss
    /\ link \in {"down", "infra", "adhoc"} /\ connected \in BOOLEAN
    /\ bssid \in Addresses
    /\ micErr \in BOOLEAN /\ blocked \in BOOLEAN /\ autoSsid \in BOOLEAN
    /\ suspended \in BOOLEAN
    /\ job \in [Posters -> Jobs] /\ asked \in 0 .. MaxOids
    /\ authOk \in Bss \cup {NoBss} /\ assocOk \in Bss \cup {NoBss}
    /\ overruns \in 0 .. MaxOverruns
    /\ mishap \subseteq {"lost", "rearmed", "selfWait"}

\* A table that holds the candidates of list s; the rest is zeroed.
Table(s) == [nr |-> Len(s),
             entry |-> [i \in 0 .. NBss - 1 |-> IF i < Len(s) THEN s[i + 1] ELSE NoBss]]

\* The state after MlmeInit.
Init ==
    /\ scenario \in DOMAIN Scenarios
    /\ queue = <<>> /\ runner = "none"
    /\ cntl = "IDLE" /\ sync = "IDLE" /\ auth = "IDLE" /\ assoc = "IDLE"
    /\ chan = 0 /\ armed = {}
    /\ aux = [bssid |-> NoBss, type |-> "adhoc", alg |-> "open"]
    /\ tab = Table(<<>>) /\ bssIdx = 0
    /\ link = "down" /\ connected = FALSE /\ bssid = NoBss
    /\ micErr = FALSE /\ blocked = FALSE /\ autoSsid = FALSE /\ suspended = FALSE
    /\ job = [p \in Posters |-> NoJob] /\ asked = 0
    /\ authOk = NoBss /\ assocOk = NoBss /\ overruns = 0
    /\ mishap = {}

---------------------------------------------------------------------------
(* Serving one message *)

\* MlmeEnqueue and MlmeEnqueueForRecv drop the message when the queue is full.
Put(q, msgs) == IF Len(q) + Len(msgs) <= MaxLen THEN q \o msgs ELSE q
Dropped(q, msgs) == IF Len(q) + Len(msgs) <= MaxLen THEN {} ELSE {"lost"}

\* The handler of the head has posted at most one reply, cancelled timers and then
\* added others; MlmeDequeue follows.
Serve(reply, cancelled, added) ==
    /\ queue' = Tail(Put(queue, reply))
    /\ armed' = (armed \ cancelled) \cup added
    /\ mishap' = mishap \cup Dropped(queue, reply)
         \cup (IF added \cap (armed \ cancelled) \subseteq {"scan"} THEN {}
               ELSE {"rearmed"})
         \cup (IF runner \in cancelled THEN {"selfWait"} ELSE {})

Consume == Serve(<<>>, {}, {})

\* CNTL posts to another machine and waits; it has no timer of its own.
Ask(request, state) == Serve(request, {}, {}) /\ cntl' = state
Conf(t, v) == <<Msg(t, NoBss, v)>>

LinkDown ==
    /\ link' = "down" /\ bssid' = NoBss /\ micErr' = FALSE
    /\ connected' = (connected /\ link = "adhoc")

\* LinkDown, then the flag of the IBSS is cleared as well.
DropAdhoc ==
    IF link = "adhoc"
    THEN link' = "down" /\ bssid' = NoBss /\ micErr' = FALSE /\ connected' = FALSE
    ELSE UNCHANGED net

LinkUp(type) ==
    /\ link' = type /\ bssid' = aux.bssid
    /\ connected' = (connected \/ type = "infra")
    /\ UNCHANGED micErr

\* IterateOnBssTab with BssIdx = i, on a table of nr entries.
IterateOnBssTab(i, nr) ==
    \/ i < nr /\ Ask(<<Msg("JOIN_REQ", i, "ok")>>, "WAIT_JOIN")
    \/ i >= nr /\ BssType = "adhoc" /\ Ask(<<Signal("START_REQ")>>, "WAIT_START")
    \/ i >= nr /\ BssType # "adhoc" /\ Ask(<<>>, "IDLE")

---------------------------------------------------------------------------
(* CNTL: the requests, served in whatever state CNTL is *)

Disassociate(state) == Ask(<<Signal("DISASSOC_REQ")>>, state)

\* The table is rebuilt from the survey; the port may be unsecured or the
\* configuration changed, so that even the current BSS is left and joined again.
CntlOidSsidProc(m) ==
    /\ m.t = "OID_SSID"
    /\ \E s \in Tables :
        /\ tab' = Table(s)
        /\ IF connected /\ Len(s) > 0 /\ Table(s).entry[0] = bssid
           THEN /\ Disassociate("WAIT_DISASSOC") \/ Ask(<<>>, "IDLE")
                /\ UNCHANGED <<net, bssIdx>>
           ELSE IF link = "infra"
           THEN Disassociate("WAIT_DISASSOC") /\ UNCHANGED <<net, bssIdx>>
           ELSE /\ DropAdhoc
                /\ IF s = <<>> /\ BssType = "infra"
                   THEN /\ Ask(<<Signal("SCAN_REQ")>>, "WAIT_OID_LIST_SCAN")
                        /\ UNCHANGED bssIdx
                   ELSE IterateOnBssTab(0, Len(s)) /\ bssIdx' = 0
    /\ aux' = [aux EXCEPT !.bssid = NoBss, !.type = BssType]
    /\ autoSsid' = TRUE
    /\ UNCHANGED suspended

\* The BSS is looked up in ScanTab, which may not hold it.
CntlOidRTBssidProc(m) ==
    /\ m.t = "OID_BSSID"
    /\ aux' = [aux EXCEPT !.bssid = m.x, !.type = BssType]
    /\ UNCHANGED suspended
    /\ \/ Ask(<<>>, "IDLE") /\ UNCHANGED <<tab, bssIdx, net, autoSsid>>
       \/ /\ tab' = [nr |-> 1, entry |-> [tab.entry EXCEPT ![0] = m.x]]
          /\ bssIdx' = 0 /\ autoSsid' = TRUE
          /\ IF connected /\ bssid = m.x
             THEN Ask(<<>>, "IDLE") /\ UNCHANGED net
             ELSE IF link = "infra"
             THEN Disassociate("WAIT_DISASSOC") /\ UNCHANGED net
             ELSE DropAdhoc /\ Ask(<<Msg("JOIN_REQ", 0, "ok")>>, "WAIT_JOIN")

CntlOidScanProc(m) ==
    /\ m.t = "OID_SCAN"
    /\ Ask(<<Signal("SCAN_REQ")>>, "WAIT_OID_LIST_SCAN")
    /\ UNCHANGED <<target, net, autoSsid, suspended>>

---------------------------------------------------------------------------
(* CNTL: what it does in each state; other messages are dropped *)

CntlMlmeRoamingProc(m) ==
    /\ m.t = "ROAMING_REQ"
    /\ \E s \in Tables \ {<<>>} : tab' = Table(s) /\ IterateOnBssTab(0, Len(s))
    /\ bssIdx' = 0
    /\ UNCHANGED <<aux, net, autoSsid, suspended>>

CntlIdleProc(m) ==
    /\ cntl = "IDLE"
    /\ \/ CntlMlmeRoamingProc(m)
       \/ /\ m.t = "OID_DISASSOC"
          /\ Disassociate("WAIT_OID_DISASSOC")
          /\ autoSsid' = FALSE
          /\ UNCHANGED <<target, net, suspended>>

CntlWaitDisassocProc(m) ==
    /\ cntl = "WAIT_DISASSOC" /\ m.t = "DISASSOC_CONF"
    /\ LinkDown
    /\ IF tab.nr = 0 /\ BssType = "adhoc"
       THEN Ask(<<Signal("START_REQ")>>, "WAIT_START") /\ UNCHANGED bssIdx
       ELSE IterateOnBssTab(0, tab.nr) /\ bssIdx' = 0
    /\ UNCHANGED <<aux, tab, autoSsid, suspended>>

CntlWaitOidDisassoc(m) ==
    /\ cntl = "WAIT_OID_DISASSOC" /\ m.t = "DISASSOC_CONF"
    /\ LinkDown /\ Ask(<<>>, "IDLE")
    /\ UNCHANGED <<target, autoSsid, suspended>>

\* Mutant of TryNextBss: BssIdx is not advanced.
TrySameBss ==
    /\ IterateOnBssTab(bssIdx, tab.nr)
    /\ UNCHANGED <<target, net, autoSsid, suspended>>

\* BssIdx++ and the next candidate.
TryNextBss ==
    /\ bssIdx' = bssIdx + 1
    /\ IterateOnBssTab(bssIdx + 1, tab.nr)
    /\ UNCHANGED <<aux, tab, net, autoSsid, suspended>>

\* A shared key is tried first where it may be.
FirstAlg == IF AuthMode \in {"shared", "autoSwitch"} THEN "shared" ELSE "open"
AskAuth(alg, state) ==
    /\ Ask(<<Msg("AUTH_REQ", aux.bssid, alg)>>, state)
    /\ UNCHANGED <<target, net, autoSsid, suspended>>

CntlWaitJoinProc(m) ==
    /\ cntl = "WAIT_JOIN" /\ m.t = "JOIN_CONF"
    /\ \/ m.v # "ok" /\ TryNextBss
       \/ m.v = "ok" /\ aux.type # "adhoc" /\ AskAuth(FirstAlg, "WAIT_AUTH")
       \/ /\ m.v = "ok" /\ aux.type = "adhoc"
          /\ LinkUp("adhoc") /\ Ask(<<>>, "IDLE")
          /\ UNCHANGED <<target, autoSsid, suspended>>

CntlWaitStartProc(m) ==
    /\ cntl = "WAIT_START" /\ m.t = "START_CONF"
    /\ IF m.v = "ok" THEN LinkUp("adhoc") ELSE UNCHANGED net
    /\ Ask(<<>>, "IDLE")
    /\ UNCHANGED <<target, autoSsid, suspended>>

AskAssoc ==
    /\ Ask(<<Msg("ASSOC_REQ", aux.bssid, "ok")>>, "WAIT_ASSOC")
    /\ UNCHANGED <<target, net, autoSsid, suspended>>

\* Authentication is tried twice ...
CntlWaitAuthProc(m) ==
    /\ cntl = "WAIT_AUTH" /\ m.t = "AUTH_CONF"
    /\ IF m.v = "ok" THEN AskAssoc ELSE AskAuth(FirstAlg, "WAIT_AUTH2")

\* ... and once more without the key in the mode that switches.
CntlWaitAuthProc2(m) ==
    /\ cntl = "WAIT_AUTH2" /\ m.t = "AUTH_CONF"
    /\ \/ m.v = "ok" /\ AskAssoc
       \/ /\ m.v # "ok"
          /\ IF AuthMode = "autoSwitch" /\ aux.alg = "shared"
             THEN AskAuth("open", "WAIT_AUTH2")
             ELSE TryNextBss

CntlWaitAssocProc(m) ==
    /\ cntl = "WAIT_ASSOC" /\ m.t = "ASSOC_CONF"
    /\ \/ m.v # "ok" /\ TryNextBss
       \/ /\ m.v = "ok"
          /\ LinkUp("infra") /\ Ask(<<>>, "IDLE")
          /\ UNCHANGED <<target, autoSsid, suspended>>

CntlWaitScan(m) ==
    /\ cntl = "WAIT_OID_LIST_SCAN" /\ m.t = "SCAN_CONF"
    /\ suspended' = FALSE
    /\ Ask(<<>>, "IDLE")
    /\ UNCHANGED <<target, net, autoSsid>>

CntlTypes == {"OID_DISASSOC", "ROAMING_REQ"} \cup Confirms
CntlAwaits == [s \in CntlStates |->
    CASE s = "IDLE" -> {"OID_DISASSOC", "ROAMING_REQ"}
      [] s = "WAIT_JOIN" -> {"JOIN_CONF"} [] s = "WAIT_START" -> {"START_CONF"}
      [] s \in {"WAIT_AUTH", "WAIT_AUTH2"} -> {"AUTH_CONF"}
      [] s = "WAIT_ASSOC" -> {"ASSOC_CONF"}
      [] s \in {"WAIT_DISASSOC", "WAIT_OID_DISASSOC"} -> {"DISASSOC_CONF"}
      [] s = "WAIT_OID_LIST_SCAN" -> {"SCAN_CONF"}]
CntlDrops(m) ==
    /\ m.t \in CntlTypes \ CntlAwaits[cntl]
    /\ Consume
    /\ UNCHANGED <<cntl, target, net, autoSsid, suspended>>

\* A request of the user or of the driver ends whatever attempt CNTL is in.
Overtakes(m) == m.t \in {"OID_SSID", "OID_BSSID", "OID_SCAN"} /\ cntl # "IDLE"

MlmeCntlMachinePerformAction(m) ==
    /\ \/ CntlOidSsidProc(m) \/ CntlOidRTBssidProc(m) \/ CntlOidScanProc(m)
       \/ CntlIdleProc(m) \/ CntlWaitDisassocProc(m) \/ CntlWaitOidDisassoc(m)
       \/ CntlWaitJoinProc(m) \/ CntlWaitStartProc(m) \/ CntlWaitAuthProc(m)
       \/ CntlWaitAuthProc2(m) \/ CntlWaitAssocProc(m) \/ CntlWaitScan(m)
       \/ CntlDrops(m)
    /\ IF cntl' = "IDLE" THEN authOk' = NoBss /\ assocOk' = NoBss ELSE UNCHANGED accepted
    /\ overruns' = IF Overtakes(m) /\ overruns < MaxOverruns THEN overruns + 1 ELSE overruns
    /\ UNCHANGED <<machines, blocked>>

---------------------------------------------------------------------------
(* SYNC *)

Tell(t, v, cancelled, added) == Serve(Conf(t, v), cancelled, added)

\* ScanNextChannel on channel c, 0 being the end of the list; the probe request may
\* find no memory once the timer is set.
ScanNextChannel(c, cancelled) ==
    \/ /\ c = 0
       /\ Tell("SCAN_CONF", "ok", cancelled, {}) /\ sync' = "IDLE" /\ chan' = 0
    \/ /\ c # 0
       /\ Serve(<<>>, cancelled, {"scan"}) /\ sync' = "SCAN_LISTEN" /\ chan' = c
    \/ /\ c # 0 /\ "noMemory" \in Disturbances
       /\ Tell("SCAN_CONF", "fail", cancelled, {"scan"}) /\ sync' = "IDLE" /\ chan' = 0

\* Mutant of NextChannel: the end of ChannelList is not seen.
NextChannelPastEnd(c) == c + 1

NextChannel(c) == IF c < NChannels THEN c + 1 ELSE 0

ScanTimeoutAction(m) ==
    /\ m.t = "SCAN_TIMEOUT" /\ sync = "SCAN_LISTEN"
    /\ ScanNextChannel(NextChannel(chan), {})
    /\ UNCHANGED <<target, net, suspended>>

MlmeScanReqAction(m) ==
    /\ m.t = "SCAN_REQ" /\ sync = "IDLE"
    /\ ScanNextChannel(1, {"beacon", "scan"})
    /\ aux' = [aux EXCEPT !.type = "any"]
    /\ UNCHANGED <<tab, bssIdx, net>>
    /\ suspended' = TRUE

\* Mutant of MlmeJoinReqAction: a pending BeaconTimer is added again.
JoinWithoutCancel(m) ==
    /\ m.t = "JOIN_REQ" /\ sync = "IDLE"
    /\ LET b == tab.entry[m.x] IN
        aux' = [aux EXCEPT !.bssid = b, !.type = TypeOf(b)]
    /\ Serve(<<>>, {"scan"} \cap armed, {"beacon"})
    /\ sync' = "JOIN_WAIT_BEACON"
    /\ UNCHANGED <<tab, bssIdx, chan, net, suspended>>

\* Mutant of MlmeJoinReqAction: the timers are reset after BeaconTimer is added.
JoinCancelsLast(m) ==
    /\ m.t = "JOIN_REQ" /\ sync = "IDLE"
    /\ LET b == tab.entry[m.x] IN
        aux' = [aux EXCEPT !.bssid = b, !.type = TypeOf(b)]
    /\ Serve(<<>>, {"scan", "beacon"}, {})
    /\ sync' = "JOIN_WAIT_BEACON"
    /\ UNCHANGED <<tab, bssIdx, chan, net, suspended>>

\* The timers are cancelled only if they are pending.
MlmeJoinReqAction(m) ==
    /\ m.t = "JOIN_REQ" /\ sync = "IDLE"
    /\ LET b == tab.entry[m.x] IN
        aux' = [aux EXCEPT !.bssid = b, !.type = TypeOf(b)]
    /\ Serve(<<>>, {"scan", "beacon"} \cap armed, {"beacon"})
    /\ sync' = "JOIN_WAIT_BEACON"
    /\ UNCHANGED <<tab, bssIdx, chan, net, suspended>>

MlmeStartReqAction(m) ==
    /\ m.t = "START_REQ" /\ sync = "IDLE"
    /\ Tell("START_CONF", "ok", {"scan", "beacon"}, {})
    /\ aux' = [aux EXCEPT !.bssid = NewIbss, !.type = "adhoc"]
    /\ UNCHANGED <<sync, chan, tab, bssIdx, net, suspended>>

PeerBeaconAtJoinAction(m) ==
    /\ m.t = "BEACON" /\ sync = "JOIN_WAIT_BEACON" /\ m.x = aux.bssid
    /\ Tell("JOIN_CONF", "ok", {"beacon"}, {})
    /\ aux' = [aux EXCEPT !.type = TypeOf(m.x)]
    /\ sync' = "IDLE"
    /\ UNCHANGED <<chan, tab, bssIdx, net, suspended>>

BeaconTimeoutAtJoinAction(m) ==
    /\ m.t = "BEACON_TIMEOUT" /\ sync = "JOIN_WAIT_BEACON"
    /\ Tell("JOIN_CONF", "fail", {}, {})
    /\ sync' = "IDLE"
    /\ UNCHANGED <<chan, target, net, suspended>>

\* The beacon of a BSS with our SSID, while we are in a network: the table of
\* candidates is kept up; a channel switch takes the link down; another IBSS may
\* take us over; a peer of our IBSS connects it.
KnownBss(b) == \E i \in 0 .. tab.nr - 1 : tab.entry[i] = b
PeerBeacon(m) ==
    /\ m.t = "BEACON" /\ sync = "IDLE" /\ link # "down"
    /\ Consume
    /\ IF KnownBss(m.x) \/ tab.nr = NBss THEN UNCHANGED tab
       ELSE tab' = [nr |-> tab.nr + 1, entry |-> [tab.entry EXCEPT ![tab.nr] = m.x]]
    /\ \/ m.v = "switch" /\ LinkDown
       \/ /\ m.v = "ok"
          /\ bssid' \in IF link = "adhoc" /\ m.x \in Ibss THEN {bssid, m.x} ELSE {bssid}
          /\ connected' = (connected \/ (link = "adhoc" /\ m.x = bssid /\ m.x \in Ibss))
          /\ UNCHANGED <<link, micErr>>
    /\ UNCHANGED <<sync, chan, aux, bssIdx, suspended>>

SyncRequests == {"SCAN_REQ", "JOIN_REQ", "START_REQ"}
ConfOf == [SCAN_REQ |-> "SCAN_CONF", JOIN_REQ |-> "JOIN_CONF",
           START_REQ |-> "START_CONF", ASSOC_REQ |-> "ASSOC_CONF",
           DISASSOC_REQ |-> "DISASSOC_CONF", AUTH_REQ |-> "AUTH_CONF"]

\* Mutant of InvalidStateWhenSync: the machine is reset and nobody told.
ResetSyncSilently(m) ==
    /\ m.t \in SyncRequests /\ sync # "IDLE"
    /\ Consume
    /\ sync' = "IDLE" /\ chan' = 0
    /\ UNCHANGED <<target, net, suspended>>

\* A request that finds SYNC busy is rejected, and ends what SYNC was doing.
InvalidStateWhenSync(m) ==
    /\ m.t \in SyncRequests /\ sync # "IDLE"
    /\ Tell(ConfOf[m.t], "fail", {}, {})
    /\ sync' = "IDLE" /\ chan' = 0
    /\ UNCHANGED <<target, net, suspended>>

SyncDrops(m) ==
    /\ \/ m.t = "BEACON" /\ \/ sync = "IDLE" /\ link = "down"
                            \/ sync = "JOIN_WAIT_BEACON" /\ m.x # aux.bssid
                            \/ sync = "SCAN_LISTEN"
       \/ m.t = "BEACON_TIMEOUT" /\ sync # "JOIN_WAIT_BEACON"
       \/ m.t = "SCAN_TIMEOUT" /\ sync # "SCAN_LISTEN"
    /\ Consume
    /\ UNCHANGED <<sync, chan, target, net, suspended>>

SyncMachine(m) ==
    /\ \/ ScanTimeoutAction(m) \/ MlmeScanReqAction(m) \/ MlmeJoinReqAction(m)
       \/ MlmeStartReqAction(m) \/ PeerBeaconAtJoinAction(m)
       \/ BeaconTimeoutAtJoinAction(m) \/ PeerBeacon(m)
       \/ InvalidStateWhenSync(m) \/ SyncDrops(m)
    /\ UNCHANGED <<cntl, auth, assoc, blocked, autoSsid, history>>

---------------------------------------------------------------------------
(* AUTH *)

\* AUTH_CONF with its result, and the machine idle.
AuthDone(v, cancelled) ==
    /\ Tell("AUTH_CONF", v, cancelled, {}) /\ auth' = "IDLE"

MlmeAuthReqAction(m) ==
    /\ m.t = "AUTH_REQ" /\ auth = "IDLE"
    /\ \/ blocked /\ AuthDone("fail", {}) /\ UNCHANGED aux
       \/ /\ ~blocked
          /\ aux' = [aux EXCEPT !.bssid = m.x, !.alg = m.v]
          /\ \/ Serve(<<>>, {"auth"} \cap armed, {"auth"}) /\ auth' = "WAIT_SEQ2"
             \/ "noMemory" \in Disturbances /\ AuthDone("fail", {"auth"} \cap armed)
    /\ UNCHANGED history

\* Seq 2 from the BSS we asked: it accepts, refuses, or challenges us.
PeerAuthRspAtSeq2Action(m) ==
    /\ m.t = "AUTH_SEQ2" /\ auth = "WAIT_SEQ2" /\ m.x = aux.bssid
    /\ \/ m.v # "ok" /\ AuthDone("fail", {"auth"}) /\ UNCHANGED authOk
       \/ m.v = "ok" /\ aux.alg = "open" /\ AuthDone("ok", {"auth"}) /\ authOk' = m.x
       \/ /\ m.v = "ok" /\ aux.alg # "open"
          /\ \/ Serve(<<>>, {"auth"}, {"auth"}) /\ auth' = "WAIT_SEQ4"
             \/ "noMemory" \in Disturbances /\ AuthDone("fail", {"auth"})
          /\ UNCHANGED authOk
    /\ UNCHANGED <<aux, assocOk, overruns>>

PeerAuthRspAtSeq4Action(m) ==
    /\ m.t = "AUTH_SEQ4" /\ auth = "WAIT_SEQ4" /\ m.x = aux.bssid
    /\ AuthDone(m.v, {"auth"})
    /\ authOk' = IF m.v = "ok" THEN m.x ELSE authOk
    /\ UNCHANGED <<aux, assocOk, overruns>>

\* Mutant of AuthTimeoutAction: CNTL is not told.
AuthTimeoutQuiet(m) ==
    /\ m.t = "AUTH_TIMEOUT" /\ auth # "IDLE"
    /\ Consume /\ auth' = "IDLE"
    /\ UNCHANGED <<aux, history>>

AuthTimeoutAction(m) ==
    /\ m.t = "AUTH_TIMEOUT" /\ auth # "IDLE"
    /\ AuthDone("fail", {})
    /\ UNCHANGED <<aux, history>>

InvalidStateWhenAuth(m) ==
    /\ m.t = "AUTH_REQ" /\ auth # "IDLE"
    /\ AuthDone("fail", {})
    /\ UNCHANGED <<aux, history>>

AuthDrops(m) ==
    /\ \/ m.t = "AUTH_SEQ2" /\ ~(auth = "WAIT_SEQ2" /\ m.x = aux.bssid)
       \/ m.t = "AUTH_SEQ4" /\ ~(auth = "WAIT_SEQ4" /\ m.x = aux.bssid)
       \/ m.t = "AUTH_TIMEOUT" /\ auth = "IDLE"
    /\ Consume
    /\ UNCHANGED <<auth, aux, history>>

AuthMachine(m) ==
    /\ \/ MlmeAuthReqAction(m) \/ PeerAuthRspAtSeq2Action(m)
       \/ PeerAuthRspAtSeq4Action(m) \/ AuthTimeoutAction(m)
       \/ InvalidStateWhenAuth(m) \/ AuthDrops(m)
    /\ UNCHANGED <<cntl, sync, chan, assoc, tab, bssIdx, net, setting>>

\* AUTH_RSP has one message: the AP we are associated with sends us away.
PeerDeauthAction(m) ==
    /\ m.t = "DEAUTH"
    /\ Consume
    /\ IF link = "infra" /\ m.x = bssid THEN LinkDown ELSE UNCHANGED net
    /\ UNCHANGED <<cntl, machines, target, setting, history>>

---------------------------------------------------------------------------
(* ASSOC *)

AssocDone(t, v, cancelled) == Tell(t, v, cancelled, {}) /\ assoc' = "IDLE"

MlmeAssocReqAction(m) ==
    /\ m.t = "ASSOC_REQ" /\ assoc = "IDLE"
    /\ \/ blocked /\ AssocDone("ASSOC_CONF", "fail", {}) /\ UNCHANGED aux
       \/ /\ ~blocked
          /\ aux' = [aux EXCEPT !.bssid = m.x]
          /\ \/ Serve(<<>>, {"assoc"}, {"assoc"}) /\ assoc' = "WAIT_RSP"
             \/ "noMemory" \in Disturbances /\ AssocDone("ASSOC_CONF", "fail", {"assoc"})
    /\ UNCHANGED <<net, history>>

MlmeDisassocReqAction(m) ==
    /\ m.t = "DISASSOC_REQ" /\ assoc = "IDLE"
    /\ \/ Serve(<<>>, {"disassoc"}, {"disassoc"}) /\ assoc' = "DISASSOC_WAIT_RSP"
       \/ "noMemory" \in Disturbances /\ AssocDone("DISASSOC_CONF", "fail", {})
    /\ UNCHANGED <<aux, net, history>>

\* Mutant of PeerAssocRspAction: a response of any AP is taken.
AssocRspOfAnyAp(m) ==
    /\ m.t = "ASSOC_RSP" /\ assoc = "WAIT_RSP"
    /\ AssocDone("ASSOC_CONF", m.v, {"assoc"})
    /\ assocOk' = IF m.v = "ok" THEN m.x ELSE assocOk
    /\ UNCHANGED <<aux, net, authOk, overruns>>

PeerAssocRspAction(m) ==
    /\ m.t = "ASSOC_RSP" /\ assoc = "WAIT_RSP" /\ m.x = aux.bssid
    /\ AssocDone("ASSOC_CONF", m.v, {"assoc"})
    /\ assocOk' = IF m.v = "ok" THEN m.x ELSE assocOk
    /\ UNCHANGED <<aux, net, authOk, overruns>>

\* In every state of ASSOC; nobody is told what becomes of the exchange it ends.
PeerDisassocAction(m) ==
    /\ m.t = "PEER_DISASSOC"
    /\ Consume
    /\ IF link = "infra" /\ m.x = bssid
       THEN LinkDown /\ assoc' = "IDLE"
       ELSE UNCHANGED <<net, assoc>>
    /\ UNCHANGED <<aux, history>>

AssocTimeoutAction(m) ==
    /\ m.t = "ASSOC_TIMEOUT" /\ assoc = "WAIT_RSP"
    /\ AssocDone("ASSOC_CONF", "fail", {})
    /\ UNCHANGED <<aux, net, history>>

\* The timer set by MlmeDisassocReqAction: the AP does not answer.
DisassocTimeoutAction(m) ==
    /\ m.t = "DISASSOC_TIMEOUT" /\ assoc = "DISASSOC_WAIT_RSP"
    /\ AssocDone("DISASSOC_CONF", "ok", {})
    /\ UNCHANGED <<aux, net, history>>

InvalidStateWhenAssoc(m) ==
    /\ m.t \in {"ASSOC_REQ", "DISASSOC_REQ"} /\ assoc # "IDLE"
    /\ AssocDone(ConfOf[m.t], "fail", {})
    /\ UNCHANGED <<aux, net, history>>

AssocDrops(m) ==
    /\ \/ m.t = "ASSOC_RSP" /\ ~(assoc = "WAIT_RSP" /\ m.x = aux.bssid)
       \/ m.t = "ASSOC_TIMEOUT" /\ assoc # "WAIT_RSP"
       \/ m.t = "DISASSOC_TIMEOUT" /\ assoc # "DISASSOC_WAIT_RSP"
    /\ Consume
    /\ UNCHANGED <<assoc, aux, net, history>>

AssocMachine(m) ==
    /\ \/ MlmeAssocReqAction(m) \/ MlmeDisassocReqAction(m) \/ PeerAssocRspAction(m)
       \/ PeerDisassocAction(m) \/ AssocTimeoutAction(m) \/ DisassocTimeoutAction(m)
       \/ InvalidStateWhenAssoc(m) \/ AssocDrops(m)
    /\ UNCHANGED <<cntl, sync, auth, chan, tab, bssIdx, setting>>

---------------------------------------------------------------------------
(* MlmeHandler: its caller, and the dispatch of one message *)

Dispatch ==
    /\ runner \notin {"none", "restart"} /\ queue # <<>>
    /\ "selfWait" \notin mishap
    /\ LET m == Head(queue) IN
        \/ MlmeCntlMachinePerformAction(m) \/ SyncMachine(m) \/ AuthMachine(m)
        \/ PeerDeauthAction(m) \/ AssocMachine(m)
    /\ UNCHANGED <<scenario, asked, runner, job>>

rest == <<cntl, machines, target, net, setting, history>>

\* Without a second CPU, softirqs (receive, timers, periodic task, transmit) run to
\* their end, the handler they call included; the user's calls give way to them.
Softirq == Smp \/ runner \in {"none", "user", "restart"}
Process == Smp \/ runner = "none"

\* A context that has enqueued calls MlmeHandler, which serves the queue unless it
\* runs already; on another CPU the call comes later (EnterHandler).
CallHandler(r) ==
    \/ runner = "none" /\ runner' = r
    \/ (Smp \/ runner # "none") /\ UNCHANGED runner

EnterHandler ==
    /\ runner = "none" /\ queue # <<>>
    /\ runner' = "softirq"
    /\ UNCHANGED <<scenario, asked, queue, armed, job, mishap, rest>>

LeaveHandler ==
    /\ runner \notin {"none", "restart"} /\ queue = <<>>
    /\ runner' = "none"
    /\ UNCHANGED <<scenario, asked, queue, armed, job, mishap, rest>>

Enqueue(m) ==
    /\ queue' = Put(queue, <<m>>)
    /\ mishap' = mishap \cup Dropped(queue, <<m>>)

\* The receive path: what a peer sends, when it likes.
MlmeEnqueueForRecv(m) ==
    /\ Softirq
    /\ Count(FrameTypes) < MaxFrames /\ Len(queue) < MaxBacklog
    /\ Enqueue(m)
    /\ CallHandler("softirq")
    /\ UNCHANGED <<scenario, asked, armed, job, rest>>

\* A timer fires; its callback posts a message and calls MlmeHandler.
Fire(t) ==
    /\ Softirq /\ Len(queue) <= MaxBacklog
    /\ t \in armed
    /\ armed' = armed \ {t}
    /\ Enqueue(Signal(TimeoutOf[t]))
    /\ CallHandler(IF Smp THEN t ELSE "softirq")
    /\ UNCHANGED <<scenario, asked, job, rest>>

---------------------------------------------------------------------------
(* The contexts that make requests: they look at CNTL first and post later *)

\* Mutant of WriteCntl: associations are blocked, but CNTL goes on with its attempt.
BlockOnly(state) ==
    /\ cntl' = cntl
    /\ blocked' = (blocked \/ state = "WAIT_DISASSOC")

\* The state of CNTL is written after the message is in the queue; who counted
\* the MIC errors blocks associations as well.
WriteCntl(state) ==
    /\ cntl' = IF state \in CntlStates THEN state ELSE cntl
    /\ blocked' = (blocked \/ state = "WAIT_DISASSOC")

\* The periodic task calls MlmeHandler in the end, the transmit path does not.
Decide(p, request, state) ==
    /\ Softirq /\ job[p] = NoJob /\ Len(queue) < MaxBacklog
    /\ IF Smp
       THEN /\ job' = [job EXCEPT ![p] = [post |-> <<request>>, set |-> state]]
            /\ UNCHANGED <<queue, runner, cntl, blocked, mishap>>
       ELSE /\ Enqueue(request) /\ WriteCntl(state)
            /\ IF p = "periodic" THEN CallHandler("softirq") ELSE UNCHANGED runner
            /\ UNCHANGED job

\* A request of the user (iwconfig, iwpriv), one at a time.  If CNTL is busy the
\* machines are restarted, unless a handler runs.
UserRequest(m) ==
    /\ asked < MaxOids /\ Len(queue) < MaxBacklog
    /\ asked' = asked + 1
    /\ m.t = "OID_DISASSOC" => link = "infra"
    /\ Process /\ runner \notin {"user", "restart"}
    /\ job["user"] = NoJob
    /\ job' = [job EXCEPT !["user"] = [post |-> <<m>>, set |-> "call"]]
    /\ IF cntl # "IDLE" /\ runner = "none"
       THEN runner' = "restart" /\ queue' = <<>>
       ELSE UNCHANGED <<runner, queue>>
    /\ UNCHANGED <<scenario, armed, mishap, rest>>

\* Mutant of RestartReset: transmission is not resumed.
RestartKeepsSuspended ==
    /\ runner = "restart"
    /\ runner' = "none"
    /\ armed' = {}
    /\ cntl' = "IDLE" /\ sync' = "IDLE" /\ auth' = "IDLE" /\ assoc' = "IDLE"
    /\ chan' = 0
    /\ authOk' = NoBss /\ assocOk' = NoBss /\ overruns' = 0
    /\ UNCHANGED <<scenario, asked, queue, job, mishap, target, net, setting>>

\* The second half of MlmeRestartStateMachine.
RestartReset ==
    /\ runner = "restart"
    /\ runner' = "none"
    /\ armed' = {}
    /\ cntl' = "IDLE" /\ sync' = "IDLE" /\ auth' = "IDLE" /\ assoc' = "IDLE"
    /\ chan' = 0
    /\ suspended' = FALSE
    /\ authOk' = NoBss /\ assocOk' = NoBss /\ overruns' = 0
    /\ UNCHANGED <<scenario, asked, queue, job, mishap, target, net, blocked, autoSsid>>

Post(p) ==
    /\ job[p].post # <<>>
    /\ p = "user" => Process /\ runner # "restart"
    /\ Enqueue(Head(job[p].post))
    /\ job' = [job EXCEPT ![p] =
                IF @.set = "none" THEN NoJob ELSE [@ EXCEPT !.post = <<>>]]
    /\ UNCHANGED <<scenario, asked, runner, armed, rest>>

UserCall ==
    /\ Process
    /\ job["user"] = [post |-> <<>>, set |-> "call"]
    /\ job' = [job EXCEPT !["user"] = NoJob]
    /\ runner' = IF runner = "none" THEN "user" ELSE runner
    /\ UNCHANGED <<scenario, asked, queue, armed, mishap, rest>>

SetCntl(p) ==
    /\ p # "user" /\ job[p].post = <<>> /\ job[p].set # "none"
    /\ WriteCntl(job[p].set)
    /\ job' = [job EXCEPT ![p] = NoJob]
    /\ UNCHANGED <<scenario, asked, queue, runner, machines, armed, target, net, autoSsid,
                   suspended, history, mishap>>

\* MlmeAutoReconnectLastSSID and MlmeAutoScan, which the periodic task calls when
\* there is no link or the link is bad.
AutoRequest(m) ==
    /\ "auto" \in Disturbances /\ cntl = "IDLE" /\ autoSsid
    /\ m.t = "OID_SSID" \/ (m.t = "OID_SCAN" /\ link = "down")
    /\ link # "adhoc"
    /\ Decide("periodic", m, "none")
    /\ UNCHANGED <<scenario, asked, machines, armed, target, net, autoSsid, suspended, history>>

\* No link and nothing in ScanTab: SYNC is asked directly.
AutoScan ==
    /\ "autoScan" \in Disturbances /\ cntl = "IDLE" /\ autoSsid /\ link = "down"
    /\ Decide("periodic", Signal("SCAN_REQ"), "WAIT_OID_LIST_SCAN")
    /\ UNCHANGED <<scenario, asked, machines, armed, target, net, autoSsid, suspended, history>>

\* No beacon for too long.
LostBeacons ==
    /\ "noBeacon" \in Disturbances
    /\ Softirq /\ job["periodic"] = NoJob
    /\ \/ /\ link = "infra" /\ LinkDown
          /\ IF cntl = "IDLE" /\ autoSsid
             THEN Decide("periodic", Signal("OID_SSID"), "none")
             ELSE UNCHANGED <<queue, runner, cntl, blocked, job, mishap>>
       \/ /\ link = "adhoc" /\ connected' = FALSE
          /\ UNCHANGED <<link, bssid, micErr, queue, runner, cntl, blocked, job, mishap>>
    /\ UNCHANGED <<scenario, asked, machines, armed, target, autoSsid, suspended, history>>

\* Either a candidate is known, or a scan is due.
MlmeCheckForFastRoaming ==
    /\ link = "infra"
    /\ \/ /\ "roam" \in Disturbances /\ cntl = "IDLE"
          /\ Decide("periodic", Signal("ROAMING_REQ"), "none")
       \/ /\ "roamScan" \in Disturbances
          /\ Decide("periodic", Signal("SCAN_REQ"), "WAIT_OID_LIST_SCAN")
    /\ UNCHANGED <<scenario, asked, machines, armed, target, net, autoSsid, suspended, history>>

\* An EAPOL frame is sent after two MIC errors: MicErrCnt reaches three.  This
\* transmission, if it gets to its end, every later one, and the periodic task
\* then disassociate.
MicError ==
    /\ "mic" \in Disturbances /\ Softirq /\ link = "infra" /\ ~micErr
    /\ micErr' = TRUE
    /\ UNCHANGED <<scenario, asked, queue, runner, cntl, machines, armed, target, link, connected,
                   bssid, setting, job, history, mishap>>

MicCountermeasure(p) ==
    /\ micErr
    /\ p = "periodic" => link = "infra"
    /\ Decide(p, Signal("DISASSOC_REQ"), "WAIT_DISASSOC")
    /\ UNCHANGED <<scenario, asked, machines, armed, target, net, autoSsid, suspended, history>>

\* Sixty seconds later.
Unblock ==
    /\ Softirq /\ blocked /\ job["periodic"] = NoJob
    /\ blocked' = FALSE
    /\ UNCHANGED <<scenario, asked, queue, runner, cntl, machines, armed, target, net, autoSsid,
                   suspended, job, history, mishap>>

---------------------------------------------------------------------------
Handler == EnterHandler \/ Dispatch \/ LeaveHandler
Poster(p) == Post(p) \/ SetCntl(p) \/ (p = "user" /\ UserCall)

PeriodicExec ==
    \/ \E m \in {Signal("OID_SSID"), Signal("OID_SCAN")} : AutoRequest(m)
    \/ AutoScan \/ LostBeacons \/ MlmeCheckForFastRoaming \/ Unblock

Next ==
    \/ Handler \/ RestartReset
    \/ \E m \in Frames : MlmeEnqueueForRecv(m)
    \/ \E t \in MachineTimers : Fire(t)
    \/ \E m \in Oids : UserRequest(m)
    \/ \E p \in Posters : Poster(p)
    \/ \E p \in {"periodic", "tx"} : MicCountermeasure(p)
    \/ PeriodicExec \/ MicError

\* The handler runs to its end; timers and callers get the CPU between two softirqs,
\* again and again.
Fairness ==
    /\ WF_vars(Handler) /\ WF_vars(RestartReset)
    /\ \A t \in MachineTimers : SF_vars(Fire(t))
    /\ \A p \in Posters : SF_vars(Poster(p))

Spec == Init /\ [][Next]_vars
FairSpec == Spec /\ Fairness
=============================================================================
