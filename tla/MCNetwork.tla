----------------------------- MODULE MCNetwork -----------------------------
(* Small instances of what the driver knows of the networks around it: the     *)
(* tables of BSSs, the ciphers an element offers, the rate that the signal and *)
(* the errors allow.  A behaviour is one of one of the three; the variables of *)
(* the other two stay as they are.                                             *)
EXTENDS BssTableProps, BssCipherProps, RateSwitchProps

VARIABLE part

\* Three BSSs, one of which hides its SSID in its beacons and one altogether.
MCBeacons ==
    {[bssid |-> "A", chan |-> 1, ssid |-> "x", fits |-> TRUE, rssi |-> 1],
     [bssid |-> "A", chan |-> 1, ssid |-> NoSsid, fits |-> TRUE, rssi |-> 1],
     [bssid |-> "B", chan |-> 36, ssid |-> "x", fits |-> TRUE, rssi |-> 2],
     [bssid |-> "C", chan |-> 36, ssid |-> NoSsid, fits |-> FALSE, rssi |-> 3]}

\* 5 GHz and 2.4 GHz with three rates, an IBSS where CCK meets OFDM, one desired rate.
Network(ofdm, infra, low, high) ==
    [ofdmOnly |-> ofdm, infra |-> infra, lowest |-> low, highest |-> high, desired |-> 11,
     switching |-> TRUE]
MCNetworks ==
    {Network(TRUE, TRUE, 4, 6), Network(FALSE, TRUE, 1, 3), Network(FALSE, FALSE, 3, 6),
     [Network(FALSE, TRUE, 0, 11) EXCEPT !.desired = 3, !.switching = FALSE]}
MCDbms == {-80, -60}

NetworkInit ==
    /\ part \in {"tables", "ciphers", "rates"}
    /\ TblInit
    /\ IF part = "ciphers" THEN CipherInit
       ELSE cipherCase = [ies |-> <<OtherElement(TRUE), OtherElement(FALSE)>>,
                          privacy |-> FALSE, adhoc |-> FALSE]
    /\ RateInit
    /\ part # "rates" => net = (CHOOSE n \in Networks : TRUE) /\ txRate = StartRate(TRUE, -60)

NetworkNext ==
    \/ part = "tables" /\ TblNext /\ UNCHANGED <<part, cipherCase, rateVars>>
    \/ part = "rates" /\ RateNext /\ UNCHANGED <<part, tblVars, cipherCase>>

NetworkSpec == NetworkInit /\ [][NetworkNext]_<<part, tblVars, cipherCase, rateVars>>
=============================================================================
