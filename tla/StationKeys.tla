----------------------------- MODULE StationKeys -----------------------------
(***************************************************************************)
(* The shared keys of the station (Module/rtmp_info.c, rtmp_main.c,        *)
(* sanity.c, rtmp_data.c, mlme.c).  A key is in up to three places: what   *)
(* the user wishes (DesireSharedKey), what the driver goes by when it      *)
(* sends (SharedKey), and the key table of the chip.  iwconfig, iwpriv,    *)
(* wpa_supplicant, a received EAP success and the link write some of them. *)
(*                                                                         *)
(* Every call is one action: they hold no lock, but each touches one entry *)
(* and the RTNL lock keeps most of them apart.                             *)
(***************************************************************************)
EXTENDS Naturals

CONSTANTS
    NKeys,          \* entries of the tables (SHARE_KEY_NUM)
    WepKeys,        \* keys of the user: [key, length]
    WpaKeys,        \* names of the keys a supplicant installs
    KeyScenarios    \* what is used: sets of "iwconfig", "off", "iwpriv", "wrongMode",
                    \* "supplicant", "reopen", "resume"

ASSUME KeyAssumption ==
    /\ NKeys \in Nat \ {0}
    /\ \A k \in WepKeys : DOMAIN k = {"key", "length"} /\ k.length \in 1 .. 13

VARIABLES
    keyUse,     \* one of KeyScenarios
    port,       \* PortCfg: AuthMode, WepStatus, DefaultKeyId, PortSecured, the 802.1X flags
    desired,    \* PortCfg.DesireSharedKey
    shared,     \* SharedKey
    asic,       \* SEC_CSR0, SEC_CSR1 and the key table
    wlan        \* the link: "up", "down", or "never" up before

keyVars == <<keyUse, port, desired, shared, asic, wlan>>

KeyIds == 0 .. NKeys - 1

\* AuthMode below WPA ("wep"), WPANone, or one of the others.
AuthModes == {"wep", "wpa", "wpaNone"}
WepStatuses == {"disabled", "WEP", "TKIP", "AES"}

NoKey == [len |-> 0, alg |-> "none", key |-> "zero"]
NoCell == [valid |-> FALSE, alg |-> "none", key |-> "zero"]

\* No entry of the key table is valid any more (MACRegTable).
NICInitializeAsic == [i \in KeyIds |-> NoCell]

AsicAddSharedKeyEntry(chip, i, entry) ==
    [chip EXCEPT ![i] = [valid |-> TRUE, alg |-> entry.alg, key |-> entry.key]]

\* What an entry holds that is not valid is not looked at.
AsicRemoveSharedKeyEntry(chip, i) == [chip EXCEPT ![i] = NoCell]

\* A key goes into SharedKey and into the chip, or out of both.
Install(i, entry) ==
    /\ shared' = [shared EXCEPT ![i] = entry]
    /\ asic' = AsicAddSharedKeyEntry(asic, i, entry)

Erase(i) ==
    /\ shared' = [shared EXCEPT ![i] = NoKey]
    /\ asic' = AsicRemoveSharedKeyEntry(asic, i)

\* SharedKey follows DesireSharedKey.
InstallDesired(i) == Install(i, desired[i])

WepEntry(k) == [len |-> k.length, alg |-> IF k.length = 5 THEN "WEP64" ELSE "WEP128", key |-> k.key]

(***************************************************************************)
(* RTMPHardTransmit, step 3: the key of a frame.                           *)
(***************************************************************************)
Frames == {"EAPOL", "unicast", "multicast"}
NoIndex == NKeys

KeyIdx(frame) ==
    CASE frame = "EAPOL" -> IF shared[0].alg # "none" /\ shared[0].len > 0 THEN 0 ELSE NoIndex
      [] frame # "EAPOL" /\ port.wep = "WEP" -> port.keyId
      [] frame # "EAPOL" /\ port.wep \in {"TKIP", "AES"} ->
            IF frame = "unicast" /\ shared[0].len > 0 THEN 0 ELSE port.keyId
      [] OTHER -> NoIndex

Protected(frame) == KeyIdx(frame) # NoIndex /\ shared[KeyIdx(frame)].len > 0

(***************************************************************************)
(* iwconfig key: rt_ioctl_siwencode.                                       *)
(***************************************************************************)
Encoding == [port EXCEPT !.auth = "wep", !.wep = "WEP"]

\* A short key is padded to 5 bytes but called a WEP128 key.
PaddedEntry(k) ==
    [len |-> IF k.length <= 5 THEN 5 ELSE 13, alg |-> IF k.length = 5 THEN "WEP64" ELSE "WEP128",
     key |-> k.key]

\* Mutant of SiwEncodeKey: SharedKey follows at once, the chip only for the current index.
EncodeSharedAtOnce(i, k) ==
    /\ port' = Encoding
    /\ desired' = [desired EXCEPT ![i] = PaddedEntry(k)]
    /\ shared' = [shared EXCEPT ![i] = PaddedEntry(k)]
    /\ asic' = IF i = port.keyId THEN AsicAddSharedKeyEntry(asic, i, PaddedEntry(k)) ELSE asic

\* A key, for an index or for the current one; only the current one is used at once.
SiwEncodeKey(i, k) ==
    /\ port' = Encoding
    /\ desired' = [desired EXCEPT ![i] = PaddedEntry(k)]
    /\ IF i = port.keyId THEN Install(i, PaddedEntry(k)) ELSE UNCHANGED <<shared, asic>>

\* No key but an index; without one the call fails when the modes have been set.
SiwEncodeIndex(i) ==
    /\ port' = [Encoding EXCEPT !.keyId = i]
    /\ InstallDesired(i)
    /\ UNCHANGED desired

SiwEncodeOn == port' = Encoding /\ UNCHANGED <<desired, shared, asic>>

\* "off" comes without a key: the wish becomes an empty key.
SiwEncodeOff(i) ==
    /\ "off" \in keyUse
    /\ port' = [port EXCEPT !.auth = "wep", !.wep = "disabled"]
    /\ desired' = [desired EXCEPT ![i] = [NoKey EXCEPT !.len = 5, !.alg = "WEP128"]]
    /\ UNCHANGED <<shared, asic>>

rt_ioctl_siwencode ==
    /\ "iwconfig" \in keyUse
    /\ \/ \E i \in KeyIds, k \in WepKeys : SiwEncodeKey(i, k)
       \/ \E i \in KeyIds : SiwEncodeIndex(i) \/ SiwEncodeOff(i)
       \/ SiwEncodeOn
    /\ UNCHANGED <<keyUse, wlan>>

(***************************************************************************)
(* iwpriv set.                                                             *)
(***************************************************************************)
Set_AuthMode_Proc(auth) ==
    port' = [port EXCEPT !.auth = auth, !.secured = FALSE] /\ UNCHANGED <<desired, shared, asic>>

Set_EncrypType_Proc(wep) ==
    /\ (port.auth = "wep") = (wep \in {"disabled", "WEP"})
    /\ port' = [port EXCEPT !.wep = wep]
    /\ UNCHANGED <<desired, shared, asic>>

Set_DefaultKeyID_Proc(i) ==
    port' = [port EXCEPT !.keyId = i] /\ UNCHANGED <<desired, shared, asic>>

\* Key1 to Key4: with a WPA mode SharedKey changes alone.
Set_Key_Proc(i, k) ==
    /\ port.wep = "WEP" /\ port.keyId = i /\ k.length \in {5, 13}
    /\ port.auth = "wep" \/ "wrongMode" \in keyUse
    /\ IF port.auth = "wep" THEN Install(i, WepEntry(k))
       ELSE shared' = [shared EXCEPT ![i] = WepEntry(k)] /\ UNCHANGED asic
    /\ UNCHANGED <<port, desired>>

IwprivSet ==
    /\ "iwpriv" \in keyUse
    /\ \/ \E auth \in AuthModes : Set_AuthMode_Proc(auth)
       \/ \E wep \in WepStatuses : Set_EncrypType_Proc(wep)
       \/ \E i \in KeyIds : Set_DefaultKeyID_Proc(i)
       \/ \E i \in KeyIds, k \in WepKeys : Set_Key_Proc(i, k)
    /\ UNCHANGED <<keyUse, wlan>>

(***************************************************************************)
(* wpa_supplicant: the OIDs of RTMPSetInformation.                         *)
(***************************************************************************)
OID_802_11_AUTHENTICATION_MODE(auth) == Set_AuthMode_Proc(auth)

OID_802_11_WEP_STATUS(wep) ==
    port' = [port EXCEPT !.wep = wep] /\ UNCHANGED <<desired, shared, asic>>

\* The algorithm of a WPA key: WepStatus, but for the group key of the AP.
Algs(pairwise) ==
    (IF port.wep \in {"TKIP", "AES"} THEN {port.wep} ELSE {"none"})
        \cup (IF port.auth = "wpa" /\ ~pairwise THEN {"TKIP", "AES"} ELSE {})

\* The pairwise key is entry 0.
RTMPWPAAddKeyProc(pairwise, i, key, tx) ==
    /\ port.auth # "wep"
    /\ pairwise => i = 0 /\ tx /\ port.auth = "wpa" /\ wlan = "up"
    /\ \E alg \in Algs(pairwise) :
        Install(i, [len |-> 32, alg |-> alg, key |-> key])
    /\ port' = [port EXCEPT !.keyId = IF tx /\ ~pairwise THEN i ELSE @,
                            !.secured = @ \/ ~pairwise]
    /\ UNCHANGED desired

\* OID_802_11_REMOVE_WEP; OID_802_11_REMOVE_KEY, whose pairwise keys are looked up by
\* the address they were added for.
RemoveKey(i) == Erase(i) /\ UNCHANGED <<port, desired>>

\* OID_802_11_ADD_KEY below WPA.
RTMPWPAWepKeySanity(i, k, tx) ==
    /\ port.auth = "wep" /\ k.length \in {5, 13}
    /\ Install(i, WepEntry(k))
    /\ port' = [port EXCEPT !.keyId = IF tx THEN i ELSE @, !.secured = TRUE]
    /\ UNCHANGED desired

\* A dynamic WEP key is only noted until the port is secured.
OID_802_11_ADD_WEP(i, k, tx) ==
    /\ IF port.secured
       THEN Install(i, WepEntry(k)) /\ UNCHANGED desired
       ELSE desired' = [desired EXCEPT ![i] = WepEntry(k)] /\ UNCHANGED <<shared, asic>>
    /\ port' = [port EXCEPT !.keyId = IF tx THEN i ELSE @]

\* Without 802.1X the key is static.
OID_802_11_SET_IEEE8021X(on) ==
    /\ port' = [port EXCEPT !.ieee8021x = on]
    /\ IF ~on /\ port.auth = "wep" /\ desired[port.keyId].len # 0 THEN InstallDesired(port.keyId)
       ELSE UNCHANGED <<shared, asic>>
    /\ UNCHANGED desired

OID_802_11_SET_IEEE8021X_REQUIRE_KEY(on) ==
    port' = [port EXCEPT !.requireKeys = on] /\ UNCHANGED <<desired, shared, asic>>

SupplicantSets ==
    /\ "supplicant" \in keyUse
    /\ \/ \E auth \in AuthModes : OID_802_11_AUTHENTICATION_MODE(auth)
       \/ \E wep \in WepStatuses : OID_802_11_WEP_STATUS(wep)
       \/ \E pairwise, tx \in BOOLEAN, i \in KeyIds, key \in WpaKeys :
            RTMPWPAAddKeyProc(pairwise, i, key, tx)
       \/ \E i \in KeyIds : RemoveKey(i)
       \/ \E i \in KeyIds, k \in WepKeys, tx \in BOOLEAN :
            RTMPWPAWepKeySanity(i, k, tx) \/ OID_802_11_ADD_WEP(i, k, tx)
       \/ \E on \in BOOLEAN :
            OID_802_11_SET_IEEE8021X(on) \/ OID_802_11_SET_IEEE8021X_REQUIRE_KEY(on)
    /\ UNCHANGED <<keyUse, wlan>>

\* RxDataFrame: after an EAP success the key noted is used, unless keys are to come.
EapSuccess ==
    /\ "supplicant" \in keyUse /\ port.ieee8021x /\ wlan = "up"
    /\ port' = [port EXCEPT !.secured = TRUE]
    /\ IF ~port.requireKeys /\ desired[port.keyId].len # 0 THEN InstallDesired(port.keyId)
       ELSE UNCHANGED <<shared, asic>>
    /\ UNCHANGED <<keyUse, desired, wlan>>

(***************************************************************************)
(* The link, and the chip's initialisation.                                *)
(***************************************************************************)
RTMPWPARemoveAllKeys ==
    IF port.auth = "wpaNone" THEN UNCHANGED <<shared, asic>>
    ELSE shared' = [i \in KeyIds |-> NoKey] /\ asic' = [i \in KeyIds |-> NoCell]

\* LinkUp, to the AP of the link before or to another one.
LinkUpKeys(sameAp) ==
    /\ wlan # "up" /\ (sameAp => wlan = "down")
    /\ wlan' = "up"
    /\ IF port.auth # "wep" /\ ~sameAp THEN RTMPWPARemoveAllKeys ELSE UNCHANGED <<shared, asic>>
    /\ UNCHANGED <<keyUse, port, desired>>

LinkDownKeys(fromAp) ==
    /\ wlan = "up"
    /\ wlan' = "down"
    /\ port' = [port EXCEPT !.secured = FALSE]
    /\ IF fromAp /\ port.auth # "wep" THEN RTMPWPARemoveAllKeys ELSE UNCHANGED <<shared, asic>>
    /\ UNCHANGED <<keyUse, desired>>

\* The chip forgets its keys: after a resume none comes back, after rt61_open a WEP key
\* does, from the user's wishes.
ChipRestarts ==
    /\ \/ "resume" \in keyUse /\ asic' = NICInitializeAsic
       \/ /\ "reopen" \in keyUse /\ wlan # "up"
          /\ asic' = IF port.wep # "WEP" THEN NICInitializeAsic
                     ELSE AsicAddSharedKeyEntry(NICInitializeAsic, port.keyId, desired[port.keyId])
    /\ UNCHANGED <<keyUse, port, desired, shared, wlan>>

KeyInit ==
    /\ keyUse \in KeyScenarios
    /\ port = [auth |-> "wep", wep |-> "disabled", keyId |-> 0, secured |-> FALSE,
               ieee8021x |-> FALSE, requireKeys |-> FALSE]
    /\ desired = [i \in KeyIds |-> NoKey] /\ shared = [i \in KeyIds |-> NoKey]
    /\ asic = [i \in KeyIds |-> NoCell]
    /\ wlan = "never"

KeyNext ==
    \/ rt_ioctl_siwencode \/ IwprivSet \/ SupplicantSets \/ EapSuccess
    \/ \E sameAp \in BOOLEAN : LinkUpKeys(sameAp)
    \/ \E fromAp \in BOOLEAN : LinkDownKeys(fromAp)
    \/ ChipRestarts

KeySpec == KeyInit /\ [][KeyNext]_keyVars
=============================================================================
