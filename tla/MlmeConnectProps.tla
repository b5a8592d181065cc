------------------------- MODULE MlmeConnectProps -------------------------
(***************************************************************************)
(* What the machines of MlmeConnect owe each other and the user.           *)
(***************************************************************************)
EXTENDS MlmeConnect

Queued(t) == \E k \in DOMAIN queue : queue[k].t = t
Watched(t) == t \in armed \/ Queued(TimeoutOf[t])
Lost == "lost" \in mishap

\* A machine that waits for a peer has its timer running, or the timeout is on its
\* way: whatever order frames, requests, rejections and restarts come in, no wait
\* lasts for ever.
WaitersAreWatched ==
    \/ Lost \/ runner = "restart"
    \/ /\ sync = "JOIN_WAIT_BEACON" => Watched("beacon")
       /\ sync = "SCAN_LISTEN" => Watched("scan")
       /\ auth # "IDLE" => Watched("auth")
       /\ assoc = "WAIT_RSP" => Watched("assoc")
       /\ assoc = "DISASSOC_WAIT_RSP" => Watched("disassoc")

\* CNTL has no timer of its own: while it waits for a confirmation, the request is
\* queued, or the machine it asked is at work, or the confirmation is queued.  (Unless
\* the AP disassociates the station: PeerDisassocAction resets ASSOC and tells nobody,
\* assoc.c:1157; and unless a context on another CPU notes in CNTL that it waits, after
\* its request may have been answered: AutoScan, mlme.c:3190, and whoever scans in order
\* to roam or takes MIC countermeasures.)
NotesLate == Smp /\ Disturbances \cap {"autoScan", "roamScan", "mic"} # {}
Answered(state, request, working, conf) ==
    cntl = state => Queued(request) \/ working \/ Queued(conf)
CntlIsAnswered ==
    \/ Lost \/ runner = "restart" \/ "disassoc" \in Disturbances
    \/ NotesLate
    \/ /\ Answered("WAIT_JOIN", "JOIN_REQ", sync = "JOIN_WAIT_BEACON", "JOIN_CONF")
       /\ Answered("WAIT_START", "START_REQ", FALSE, "START_CONF")
       /\ Answered("WAIT_AUTH", "AUTH_REQ", auth # "IDLE", "AUTH_CONF")
       /\ Answered("WAIT_AUTH2", "AUTH_REQ", auth # "IDLE", "AUTH_CONF")
       /\ Answered("WAIT_ASSOC", "ASSOC_REQ", assoc = "WAIT_RSP", "ASSOC_CONF")
       /\ Answered("WAIT_DISASSOC", "DISASSOC_REQ",
                   assoc = "DISASSOC_WAIT_RSP", "DISASSOC_CONF")
       /\ Answered("WAIT_OID_DISASSOC", "DISASSOC_REQ",
                   assoc = "DISASSOC_WAIT_RSP", "DISASSOC_CONF")
       /\ Answered("WAIT_OID_LIST_SCAN", "SCAN_REQ",
                   sync = "SCAN_LISTEN", "SCAN_CONF")

\* The link comes up with an AP that has accepted our last authentication and our
\* last association, and never with another one, although a request that finds a handler
\* running is served in the middle of an attempt (rtmp_info.c:2201) and leaves stale
\* confirmations behind.  (Two such requests can bring it about.)
LinkComesUp == link' = "infra" /\ (link # "infra" \/ bssid' # bssid)
Earned == bssid' # NoBss /\ bssid' = authOk /\ bssid' = assocOk
LinkUpIsEarned == [][LinkComesUp => Earned \/ overruns = MaxOverruns]_vars

\* add_timer is never called on BeaconTimer, AuthTimer, AssocTimer or DisassocTimer
\* while it is pending, though timeouts, answers and new requests cross.  (ScanTimer
\* is: a stale SCAN_TIMEOUT moves the next scan on.)
TimersAddedOnce == "rearmed" \notin mishap

\* MIC countermeasures: once associations are blocked (bBlockAssoc), no successful
\* association of the attempt that was under way brings a link up, with the same exception.
NoLinkWhileBlocked ==
    overruns < MaxOverruns /\ blocked /\ queue # <<>> /\ cntl = "WAIT_ASSOC" =>
        Head(queue) # Msg("ASSOC_CONF", NoBss, "ok")

\* Whenever an attempt ends, in success or not, CNTL is idle again.
CntlReturns == []<>(cntl = "IDLE")

\* "Resume TxRing after SCANING complete.  We hope the out-of-service time won't be
\* too long" (connect.c:1075): data transmission, suspended for a scan, is resumed.
MsduResumed == suspended ~> ~suspended

\* "reset timer if caller isn't the timer function itself" (auth.c:132): nobody waits
\* for the callback it runs in.
NoSelfWait == "selfWait" \notin mishap
=============================================================================
