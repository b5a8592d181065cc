----------------------------- MODULE IbssMerge -----------------------------
(***************************************************************************)
(* Stations that started IBSSs with one SSID, each under a random BSSID,   *)
(* and the rule by which PeerBeacon (sync.c) collapses one IBSS into       *)
(* another.  The stations run this driver; the chip of each one sends its  *)
(* beacon, and a beacon waits in the MLME queue of the station that        *)
(* received it while that station and the sender may change their BSSIDs.  *)
(***************************************************************************)
EXTENDS Integers

CONSTANTS
    Station,
    NBytes,     \* length of a BSSID, ETH_ALEN
    Own         \* the random BSSID under which a station starts

ASSUME IbssAssumption ==
    /\ NBytes \in Nat \ {0}
    /\ Own \in [Station -> [1 .. NBytes -> 0 .. 255]]

VARIABLES
    bssid,      \* PortCfg.Bssid of each station
    heard       \* BSSIDs of the beacons in its MLME queue

vars == <<bssid, heard>>

Init ==
    /\ bssid = Own
    /\ heard = [s \in Station |-> {}]

\* Mutants of Bigger: the loop stops at the first byte; equal bytes count.
FirstByteBigger(a, b) == a[1] > b[1]
SomeByteNotSmaller(a, b) == \E i \in 1 .. NBytes : a[i] >= b[i]

\* The loop over the bytes of the two BSSIDs.
Bigger(a, b) == \E i \in 1 .. NBytes : a[i] > b[i]

\* The beacon of s reaches r, or is lost.
Hear(s, r) ==
    /\ s # r /\ bssid[s] \notin heard[r]
    /\ heard' = [heard EXCEPT ![r] = @ \cup {bssid[s]}]
    /\ UNCHANGED bssid

\* "Collapse into the ADHOC network which has bigger BSSID value."
PeerIbssBeacon(r, b) ==
    /\ b \in heard[r]
    /\ heard' = [heard EXCEPT ![r] = @ \ {b}]
    /\ bssid' = [bssid EXCEPT ![r] = IF b # @ /\ Bigger(b, @) THEN b ELSE @]

Next ==
    \/ \E s, r \in Station : Hear(s, r)
    \/ \E r, o \in Station : PeerIbssBeacon(r, Own[o])

\* Stations in range of each other go on hearing each other, and serve what they
\* have heard.
Fairness ==
    /\ \A s, r \in Station : WF_vars(Hear(s, r))
    /\ \A r, o \in Station : WF_vars(PeerIbssBeacon(r, Own[o]))

Spec == Init /\ [][Next]_vars
FairSpec == Spec /\ Fairness

---------------------------------------------------------------------------
\* The value of a BSSID as a number, most significant byte first.
Above(a, b) ==
    \E i \in 1 .. NBytes : a[i] > b[i] /\ \A j \in 1 .. i - 1 : a[j] = b[j]

\* "we should select the bssid with large value" (sync.c:1082): whatever beacons are
\* still queued, a station only ever moves to an IBSS with a bigger BSSID.
MergesUpwards ==
    [][\A r \in Station : bssid'[r] # bssid[r] => Above(bssid'[r], bssid[r])]_vars

\* Stations that hear each other end in one IBSS.
Converges == <>[](\A r, s \in Station : bssid[r] = bssid[s])
=============================================================================
