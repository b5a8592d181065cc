-------------------------- MODULE StationKeysProps --------------------------
(***************************************************************************)
(* What the key tables promise.                                            *)
(***************************************************************************)
EXTENDS StationKeys

\* EAPOL frames are sent in WPA modes and with 802.1X only.
SentNow == {f \in Frames : f = "EAPOL" => port.auth # "wep" \/ port.ieee8021x}

\* The driver decides with its own table that a frame is protected and with which key and
\* algorithm, the chip encrypts it with its table: whichever of iwconfig, iwpriv,
\* wpa_supplicant, EAP success, removal and link events wrote last, both hold the same.
ChipHasTheKey ==
    \A f \in SentNow : Protected(f) =>
        LET ours == shared[KeyIdx(f)]
            cell == asic[KeyIdx(f)]
        IN  cell.valid /\ cell.alg = ours.alg /\ cell.key = ours.key
=============================================================================
