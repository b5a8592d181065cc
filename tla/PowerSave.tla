------------------------------ MODULE PowerSave ------------------------------
(***************************************************************************)
(* Power save in an infrastructure BSS (Module/mlme.c, sync.c,             *)
(* rtmp_data.c, rtmp_info.c): the PSM bit, the sleep of the PHY, and the   *)
(* access point, which keeps frames for a station it believes asleep.      *)
(*                                                                         *)
(* The access point knows what the last frame it heard says.  A beacon     *)
(* tells whether it keeps a frame; a PS-Poll fetches one.                  *)
(***************************************************************************)
EXTENDS Naturals, Sequences

CONSTANTS
    PsSecured,      \* is the port open (or no key needed)?
    MaxTxQueued,    \* descriptors of the rings
    MaxHeld,        \* frames the access point keeps
    MaxPsUpsets     \* scans, calls of the user and lost frames, together

ASSUME PsAssumption ==
    /\ PsSecured \in BOOLEAN
    /\ MaxTxQueued \in Nat \ {0} /\ MaxHeld \in Nat \ {0} /\ MaxPsUpsets \in Nat

VARIABLES
    cam,        \* WindowsPowerMode is Ndis802_11PowerModeCAM
    psm,        \* PortCfg.Psm: "active", "save"
    doze,       \* fOP_STATUS_DOZE: the PHY sleeps
    queued,     \* frames in the BE and MGMT rings: [kind, pm]
    apPsm,      \* what the access point believes
    kept,       \* frames it keeps
    psUpsets    \* scans, calls and losses so far

psVars == <<cam, psm, doze, queued, apPsm, kept, psUpsets>>

RingFull == Len(queued) = MaxTxQueued
Upset == psUpsets < MaxPsUpsets /\ psUpsets' = psUpsets + 1

\* RTMPSendNullFrame: nothing before the port is open, nothing into a full
\* ring, and the PHY is not woken up.
RTMPSendNullFrame(bit) ==
    queued' = IF PsSecured /\ ~RingFull THEN Append(queued, [kind |-> "null", pm |-> bit]) ELSE queued

\* The last second saw no frame that was sent.
MlmeCheckPsmChange ==
    /\ ~cam /\ psm = "active" /\ psm' = "save"
    /\ RTMPSendNullFrame("save")
    /\ UNCHANGED <<cam, doze, apPsm, kept, psUpsets>>

\* "keep AP alive": every tenth round of the periodic task.
PeriodicNullFrame ==
    /\ RTMPSendNullFrame(psm)
    /\ UNCHANGED <<cam, psm, doze, apPsm, kept, psUpsets>>

\* RTMPHardTransmit: an outgoing frame wakes the PHY and turns the bit off.
RTMPHardTransmit ==
    /\ Upset /\ ~RingFull
    /\ doze' = FALSE /\ psm' = "active"
    /\ queued' = Append(queued, [kind |-> "data", pm |-> "active"])
    /\ UNCHANGED <<cam, apPsm, kept>>

\* ScanNextChannel leaves power save; the access point is not told.
ScanNextChannel ==
    /\ Upset
    /\ doze' = FALSE /\ psm' = "active"
    /\ UNCHANGED <<cam, queued, apPsm, kept>>

\* Set_PSMode_Proc and OID_802_11_POWER_MODE.
SetPowerMode ==
    /\ Upset
    /\ \/ cam' = TRUE /\ psm' = "active"
       \/ cam' = FALSE /\ UNCHANGED psm
    /\ UNCHANGED <<doze, queued, apPsm, kept>>

\* Mutant of PeerBeacon: a waiting frame only keeps the PHY awake.
BeaconWithoutPoll ==
    /\ ~doze /\ psm = "save"
    /\ doze' = (queued = <<>> /\ ~(apPsm = "save" /\ kept > 0))
    /\ UNCHANGED <<cam, psm, queued, apPsm, kept, psUpsets>>

\* AsicSleepThenAutoWakeup, EnqueuePsPoll through MlmeHardTransmit.
PeerBeacon ==
    /\ ~doze /\ psm = "save"
    /\ CASE apPsm = "save" /\ kept > 0 ->
              /\ queued' = IF RingFull THEN queued ELSE Append(queued, [kind |-> "poll", pm |-> "save"])
              /\ UNCHANGED doze
         [] ~(apPsm = "save" /\ kept > 0) /\ queued # <<>> -> UNCHANGED <<queued, doze>>
         [] OTHER -> doze' \in BOOLEAN /\ UNCHANGED queued      \* awake for a broadcast
    /\ UNCHANGED <<cam, psm, apPsm, kept, psUpsets>>

\* RTMPHandleTwakeupInterrupt: AsicForceWakeup.
RTMPHandleTwakeupInterrupt ==
    /\ doze /\ doze' = FALSE
    /\ UNCHANGED <<cam, psm, queued, apPsm, kept, psUpsets>>

(***************************************************************************)
(* The chip sends while the PHY is awake; the access point.                *)
(***************************************************************************)
FrameHeard ==
    /\ ~doze /\ queued # <<>>
    /\ queued' = Tail(queued)
    /\ apPsm' = Head(queued).pm
    /\ kept' = CASE Head(queued).pm = "active" -> 0
                 [] Head(queued).kind = "poll" /\ kept > 0 -> kept - 1
                 [] OTHER -> kept
    /\ UNCHANGED <<cam, psm, doze, psUpsets>>

FrameLost ==
    /\ Upset /\ ~doze /\ queued # <<>>
    /\ queued' = Tail(queued)
    /\ UNCHANGED <<cam, psm, doze, apPsm, kept>>

ApKeepsFrame ==
    /\ apPsm = "save" /\ kept < MaxHeld /\ kept' = kept + 1
    /\ UNCHANGED <<cam, psm, doze, queued, apPsm, psUpsets>>

PsInit ==
    /\ cam \in BOOLEAN /\ psm = "active" /\ doze = FALSE
    /\ queued = <<>> /\ apPsm = "active" /\ kept = 0 /\ psUpsets = 0

PsNext ==
    \/ MlmeCheckPsmChange \/ PeriodicNullFrame \/ RTMPHardTransmit
    \/ ScanNextChannel \/ SetPowerMode \/ PeerBeacon \/ RTMPHandleTwakeupInterrupt
    \/ FrameHeard \/ FrameLost \/ ApKeepsFrame

PsSpec == PsInit /\ [][PsNext]_psVars

\* The wakeup timer, the beacons, the chip and the periodic task go on.
PsFairness ==
    /\ WF_psVars(RTMPHandleTwakeupInterrupt) /\ SF_psVars(PeerBeacon) /\ SF_psVars(FrameHeard)
    /\ WF_psVars(PeriodicNullFrame)

PsFairSpec == PsSpec /\ PsFairness
=============================================================================
