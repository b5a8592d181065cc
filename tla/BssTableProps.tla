--------------------------- MODULE BssTableProps ---------------------------
(***************************************************************************)
(* What the tables of BSSs promise.                                        *)
(***************************************************************************)
EXTENDS BssTable

\* A BSS has one entry for each of its SSIDs, whatever order its hidden beacons and its
\* probe responses come in and whatever is deleted between them, or replaced at whatever
\* index (mlme.c:4338, 4544); unless its own entry is one a channel switch wrote a channel
\* into (sync.c:1059).
NoTwins ==
    \A i, j \in Used(scanTab) :
        LET e == scanTab.entry[i]
            f == scanTab.entry[j]
        IN  /\ e.bssid \notin aux.rewritten
            /\ e.bssid = f.bssid /\ Band(e.chan) = Band(f.chan) /\ e.ssid = f.ssid
            => i = j

\* Not so in the model, and in no run (BssOverlapNr may leave the table): "if we found the
\* desired AP then overwrite BSS Table" (mlme.c:4532): when a beacon of the desired AP has
\* been handled, the table has an entry of it.
DesiredApIsKept ==
    [][\A b \in Beacons : PeerBeaconAtScan(b) /\ MayReplace(b) =>
        \E i \in Used(scanTab') : scanTab'.entry[i].bssid = b.bssid]_tblVars

\* An entry that shows its SSID shows one that its BSS announced (mlme.c:4416).
ShownIsAnnounced ==
    \A i \in Used(scanTab) :
        LET e == scanTab.entry[i]
        IN  ~e.hidden => \E b \in Beacons : b.bssid = e.bssid /\ b.ssid = e.ssid

\* While the link is up, neither beacons of others in a full ScanTab nor a scan push the
\* entry of its BSS and SSID out: the group handshake looks it up there, by BSSID and band
\* (wpa.c:1063), whatever entries earlier channel switches have rewritten.
LinkEntryStays ==
    [][LET Known(t) == \E i \in Used(t) :
               LET e == t.entry[i]
               IN  e.bssid = link.bssid /\ Band(e.chan) = Band(link.chan) /\ e.ssid = link.ssid
       IN  /\ link.connected /\ link'.connected /\ link.ssid # NoSsid
           /\ Known(scanTab)
           => Known(scanTab')]_tblVars

\* The candidates of a request are all the entries that fit it, the strongest first.
CandidatesSorted ==
    \A ssid \in Ssids :
        LET t == BssTableSsidSort(ssid)
            fitting == {i \in Used(scanTab) : scanTab.entry[i].fits /\ scanTab.entry[i].ssid = ssid}
        IN  /\ t.nr = Cardinality(fitting)
            /\ \A e \in {scanTab.entry[i] : i \in fitting} :
                Cardinality({k \in Used(t) : t.entry[k] = e})
                    = Cardinality({i \in fitting : scanTab.entry[i] = e})
            /\ \A k \in Used(t), l \in Used(t) : k < l => t.entry[k].rssi >= t.entry[l].rssi
=============================================================================
