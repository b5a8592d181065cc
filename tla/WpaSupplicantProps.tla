------------------------ MODULE WpaSupplicantProps ------------------------
(***************************************************************************)
(* What the two handshakes promise.                                        *)
(***************************************************************************)
EXTENDS WpaSupplicant

\* The group key of a WPA2 association was renewed: see RenewalUpdatesGtk.
Renewed == cfg.mode = "WPA2PSK" /\ ap.renewed

\* When the authenticator is done the supplicant holds its pairwise key, although every
\* message 1, repeated or late, replaces the PTK that the MIC of message 3 and the key of
\* message 4 are computed from, and with WPA-PSK through every renewal of the group key.
DoneMeansSameKey == ap.state = "done" => sta.key = ap.ptk \/ Renewed

\* An open 802.1X port of an authenticated station has the group key of the AP, whatever
\* allocation failed half-way through a handler and was answered by a repetition; with
\* WPA2-PSK, until that key is renewed.
OpenPortHasGroupKey ==
    ap.state = "done" /\ sta.secured => sta.gtk[KeyId(ap.gtk)] = ap.gtk \/ Renewed

\* Not so in the model for WPA2-PSK, and in no run (what the handler installs is no key, in
\* the pairwise key's entry): "7. Update GTK" (wpa.c:1862): an authenticator that is done
\* with the renewal of its group key finds that key in the station's chip, and its pairwise
\* key still there.
RenewalUpdatesGtk ==
    ap.state = "done" /\ ap.renewed => sta.gtk[KeyId(ap.gtk)] = ap.gtk /\ sta.key = ap.ptk

\* The port never opens for WPA-PSK before the pairwise key that the AP uses is in the
\* chip, though the group message's MIC is checked with PortCfg.PTK and not with that
\* key.
PortOpensEncrypted ==
    [][cfg.mode = "WPAPSK" /\ ~sta.secured /\ sta'.secured => sta'.key = ap.ptk]_wpaVars

\* Once losses, failures and resets end, the handshake is completed and the same keys
\* are in use: no counter, no nonce and no state of the supplicant rejects the
\* authenticator's repetitions for ever.  With WPA-PSK the port is open as well.  The
\* renewal of WPA2-PSK ends with a wrong key, or in a new association.
Completes ==
    <>[](/\ ap.state = "done" /\ (sta.key = ap.ptk \/ Renewed)
         /\ cfg.mode = "WPAPSK" => sta.secured)

\* Not so in the model, and in no run (a repeated message 3 closes the port again):
\* "All state has to be able to process message from previous state" (wpa.c:2041): a
\* message 3 that is repeated because message 4 was lost completes the handshake too.
RepeatedMsg3Completes == ap.state = "done" => sta.secured
=============================================================================
