------------------------------ MODULE BssTable ------------------------------
(***************************************************************************)
(* The tables of known BSSs (Module/mlme.c): ScanTab, which beacons and    *)
(* probe responses fill, and SsidBssTab, the candidates of an attempt to   *)
(* connect, with the places of connect.c, sync.c and mlme.c that use them. *)
(*                                                                         *)
(* A table is an array whose entries beyond BssNr keep what they held: a   *)
(* new entry for a hidden BSS takes over the SSID it finds there.  What a  *)
(* BSS offers (BssCipher) is reduced to whether it fits the configuration. *)
(***************************************************************************)
EXTENDS Integers, Sequences, FiniteSets

CONSTANTS
    TableLen,   \* MAX_LEN_OF_BSS_TABLE
    OverlapSize, \* 256: BssOverlapNr is a UCHAR
    Beacons,    \* what is on the air: [bssid, chan, ssid, fits, rssi]; ssid may be NoSsid
    Ssids,      \* SSIDs the user asks for
    NewChannels, \* announced by the AP: IEEE 802.11h
    MaxRewritten \* how many BSSs have an entry rewritten by a channel switch, at most

NoSsid == "hidden"

ASSUME TableAssumption == TableLen \in Nat \ {0} /\ OverlapSize \in Nat /\ TableLen < OverlapSize
ASSUME BeaconAssumption ==
    /\ \A b \in Beacons : DOMAIN b = {"bssid", "chan", "ssid", "fits", "rssi"}
    /\ \A b \in Beacons : b.chan \in Nat /\ b.rssi \in Nat
    /\ NoSsid \notin Ssids /\ NewChannels \subseteq Nat

VARIABLES
    scanTab,    \* pAd->ScanTab
    ssidTab,    \* pAd->MlmeAux.SsidBssTab
    link,       \* connected, and PortCfg.Bssid, Ssid, Channel, LastRssi
    aux         \* MlmeAux.Bssid, MlmeAux.Ssid; the BSSs whose entry a channel switch rewrote

tblVars == <<scanTab, ssidTab, link, aux>>

NotFound == OverlapSize
NoBssid == "none"
NoEntry == [bssid |-> NoBssid, chan |-> 0, ssid |-> NoSsid, hidden |-> FALSE, fits |-> FALSE,
            rssi |-> 0]

Unlinked == [connected |-> FALSE, bssid |-> NoBssid, ssid |-> NoSsid, chan |-> 0, rssi |-> 0]

\* BssTableInit.
EmptyTable == [entry |-> [i \in 0 .. TableLen - 1 |-> NoEntry], nr |-> 0, overlap |-> 0]

Used(t) == 0 .. t.nr - 1
Band(chan) == chan <= 14

\* The first entry that satisfies Test, or BSS_NOT_FOUND.
FirstEntry(t, Test(_)) ==
    IF \E i \in Used(t) : Test(t.entry[i])
    THEN CHOOSE i \in Used(t) : Test(t.entry[i]) /\ \A j \in 0 .. i - 1 : ~Test(t.entry[j])
    ELSE NotFound

BssTableSearch(t, bssid, chan) ==
    LET Test(e) == e.bssid = bssid /\ Band(e.chan) = Band(chan) IN FirstEntry(t, Test)

BssSsidTableSearch(t, bssid, ssid, chan) ==
    LET Test(e) == e.bssid = bssid /\ Band(e.chan) = Band(chan) /\ e.ssid = ssid
    IN  FirstEntry(t, Test)

BssTableSearchWithSSID(t, bssid, ssid, chan) ==
    LET Test(e) == /\ e.bssid = bssid /\ Band(e.chan) = Band(chan)
                   /\ e.ssid = ssid \/ ssid = NoSsid \/ e.ssid = NoSsid
    IN  FirstEntry(t, Test)

\* Mutant of BssTableDeleteEntry: BssNr is not decremented.
DeleteKeepsNr(t, bssid, chan) ==
    LET Test(e) == e.bssid = bssid /\ e.chan = chan
        i == FirstEntry(t, Test)
    IN  IF i = NotFound THEN t
        ELSE [t EXCEPT !.entry = [k \in DOMAIN @ |-> IF k \in i .. t.nr - 2 THEN @[k + 1] ELSE @[k]]]

\* The entries behind the first one on exactly this channel move up; the last one stays.
BssTableDeleteEntry(t, bssid, chan) ==
    LET Test(e) == e.bssid = bssid /\ e.chan = chan
        i == FirstEntry(t, Test)
    IN  IF i = NotFound THEN t
        ELSE [t EXCEPT !.nr = @ - 1,
                       !.entry = [k \in DOMAIN @ |-> IF k \in i .. t.nr - 2 THEN @[k + 1] ELSE @[k]]]

\* Mutant of BssEntrySet: a hidden SSID is not marked.
SetAsShown(e, b, rssi) ==
    [bssid |-> b.bssid, chan |-> b.chan, hidden |-> FALSE,
     ssid |-> IF b.ssid = NoSsid THEN e.ssid ELSE b.ssid, fits |-> b.fits, rssi |-> rssi]

\* A hidden SSID leaves the one of the entry.
BssEntrySet(e, b, rssi) ==
    [bssid |-> b.bssid, chan |-> b.chan, hidden |-> b.ssid = NoSsid,
     ssid |-> IF b.ssid = NoSsid THEN e.ssid ELSE b.ssid, fits |-> b.fits, rssi |-> rssi]

PutEntry(t, i, b, rssi) == [t EXCEPT !.entry[i] = BssEntrySet(@, b, rssi)]

AddEntry(t, b, rssi) == [PutEntry(t, t.nr, b, rssi) EXCEPT !.nr = t.nr + 1]

\* Mutant of MayReplace: the link is not looked at.
ReplaceWhileLinked(b) == b.bssid = aux.bssid \/ b.ssid = aux.ssid

MayReplace(b) == ~link.connected /\ (b.bssid = aux.bssid \/ b.ssid = aux.ssid)

\* BssOverlapNr = (BssOverlapNr++) % MAX_LEN_OF_BSS_TABLE is undefined in C: the increment may
\* come first, last, or store what it has read.
NextOverlap(n) == {n % TableLen, (n % TableLen) + 1, (n + 1) % OverlapSize}

\* An index behind the table: what is written there is no entry.
Overwrite(t, b, rssi) == IF t.overlap < TableLen THEN PutEntry(t, t.overlap, b, rssi) ELSE t

BssTableSetEntry(t, b, rssi, next) ==
    LET i == BssTableSearchWithSSID(t, b.bssid, b.ssid, b.chan)
    IN  CASE i # NotFound -> [tab |-> PutEntry(t, i, b, rssi), idx |-> i]
          [] i = NotFound /\ t.nr < TableLen ->
                [tab |-> AddEntry(t, b, rssi), idx |-> t.nr]
          [] i = NotFound /\ t.nr = TableLen /\ MayReplace(b) ->
                [tab |-> [Overwrite(t, b, rssi) EXCEPT !.overlap = next], idx |-> t.overlap]
          [] OTHER -> [tab |-> t, idx |-> NotFound]

\* Mutant of Exchange: the weaker entry moves up.
ExchangeWeaker(s, i, j) ==
    IF s[j].rssi < s[i].rssi THEN [s EXCEPT ![i] = s[j], ![j] = s[i]] ELSE s

(***************************************************************************)
(* BssTableSortByRssi, an exchange sort of two loops: pass i exchanges the *)
(* entry at i with each stronger one behind it.  The last pass finds none. *)
(***************************************************************************)
Exchange(s, i, j) ==
    IF s[j].rssi > s[i].rssi THEN [s EXCEPT ![i] = s[j], ![j] = s[i]] ELSE s

SortPass(s, i) ==
    LET upTo[j \in 0 .. Len(s)] == IF j <= i THEN s ELSE Exchange(upTo[j - 1], i, j)
    IN  upTo[Len(s)]

SortByRssi(s) ==
    LET after[i \in 0 .. Len(s)] == IF i = 0 THEN s ELSE SortPass(after[i - 1], i)
    IN  after[Len(s)]

\* The candidates as a table.
TableOf(s) ==
    [EmptyTable EXCEPT !.nr = Len(s),
        !.entry = [k \in DOMAIN @ |-> IF k < Len(s) THEN SortByRssi(s)[k + 1] ELSE @[k]]]

\* The entries at these places, in the order of the table.
CopyEntries(t, places) ==
    LET upTo[i \in 0 .. t.nr] ==
            IF i = 0 THEN <<>>
            ELSE IF i - 1 \in places THEN Append(upTo[i - 1], t.entry[i - 1]) ELSE upTo[i - 1]
    IN  upTo[t.nr]

\* BssTableSsidSort: an empty SSID asks for any BSS that shows one.
BssTableSsidSort(ssid) ==
    LET Candidate(e) == e.fits /\ e.ssid # NoSsid /\ (ssid = NoSsid \/ e.ssid = ssid)
    IN  TableOf(CopyEntries(scanTab, {i \in Used(scanTab) : Candidate(scanTab.entry[i])}))

(***************************************************************************)
(* Scanning.  CntlOidScanProc keeps the BSS of the link.                   *)
(***************************************************************************)
CntlOidScan ==
    LET i == BssSsidTableSearch(scanTab, link.bssid, link.ssid, link.chan)
    IN  /\ scanTab' = IF link.connected /\ i # NotFound
                      THEN [EmptyTable EXCEPT !.entry[0] = scanTab.entry[i], !.nr = 1]
                      ELSE EmptyTable
        /\ UNCHANGED <<ssidTab, link, aux>>

PeerBeaconAtScan(b) ==
    LET i == BssTableSearch(scanTab, b.bssid, b.chan)
        old == IF i = NotFound THEN 0 ELSE scanTab.entry[i].rssi
        rssi == IF b.rssi > old THEN b.rssi ELSE old
    IN  /\ \E next \in NextOverlap(scanTab.overlap) :
            scanTab' = BssTableSetEntry(scanTab, b, rssi, next).tab
        /\ UNCHANGED <<ssidTab, link, aux>>

(***************************************************************************)
(* Requests: by SSID, by BSSID, and roaming to a stronger BSS.             *)
(***************************************************************************)
CntlOidSsid ==
    \E ssid \in Ssids \cup {NoSsid} :
        /\ aux' = [aux EXCEPT !.ssid = ssid, !.bssid = NoBssid]
        /\ ssidTab' = BssTableSsidSort(ssid)
        /\ UNCHANGED <<scanTab, link>>

CntlOidBssid ==
    \E i \in Used(scanTab) :
        LET e == scanTab.entry[i]
        IN  /\ i = BssTableSearch(scanTab, e.bssid, e.chan)
            /\ aux' = [aux EXCEPT !.bssid = e.bssid, !.ssid = e.ssid]
            /\ ssidTab' = [ssidTab EXCEPT !.nr = 1, !.entry[0] = e]
            /\ UNCHANGED <<scanTab, link>>

Roam ==
    LET Better(e) == /\ e.bssid # link.bssid /\ e.ssid = link.ssid
                     /\ e.rssi > link.rssi
        roamTab == CopyEntries(scanTab, {i \in Used(scanTab) : Better(scanTab.entry[i])})
    IN  /\ link.connected /\ roamTab # <<>>
        /\ ssidTab' = TableOf(roamTab)
        /\ UNCHANGED <<scanTab, link, aux>>

\* The link with a candidate comes up (MlmeConnect): a BSS associates for an SSID of its
\* own only.
LinkUp ==
    \E i \in Used(ssidTab) :
        LET e == ssidTab.entry[i]
        IN  /\ ~link.connected /\ aux.ssid \in {NoSsid, e.ssid}
            /\ link' = [connected |-> TRUE, bssid |-> e.bssid, chan |-> e.chan, rssi |-> e.rssi,
                        ssid |-> e.ssid]
            /\ aux' = [aux EXCEPT !.bssid = e.bssid]
            /\ UNCHANGED <<scanTab, ssidTab>>

LinkDown(tab, chan) ==
    /\ scanTab' = BssTableDeleteEntry(tab, link.bssid, chan)
    /\ link' = Unlinked

LoseLink == link.connected /\ LinkDown(scanTab, link.chan) /\ UNCHANGED <<ssidTab, aux>>

(***************************************************************************)
(* PeerBeacon, a link being up: SsidBssTab is kept for roaming, and        *)
(* nothing is replaced in it.  A channel switch is written into ScanTab,   *)
(* at the index of SsidBssTab.                                             *)
(***************************************************************************)
OwnBeacon(b) == b.bssid = link.bssid \/ b.ssid = link.ssid

Refresh(b) ==
    LET i == BssTableSearch(ssidTab, b.bssid, b.chan)
        r == IF i = NotFound THEN BssTableSetEntry(ssidTab, b, b.rssi, ssidTab.overlap)
             ELSE [tab |-> ssidTab, idx |-> i]
    IN  [r EXCEPT !.tab = IF r.idx = NotFound THEN @ ELSE [@ EXCEPT !.entry[r.idx].rssi = b.rssi]]

PeerBeacon ==
    \E b \in Beacons :
        LET r == Refresh(b)
        IN  /\ link.connected /\ OwnBeacon(b)
            /\ ssidTab' = r.tab
            /\ link' = IF b.bssid = link.bssid /\ r.idx # NotFound
                       THEN [link EXCEPT !.rssi = b.rssi] ELSE link
            /\ UNCHANGED <<scanTab, aux>>

SwitchChannel ==
    \E b \in Beacons, chan \in NewChannels :
        LET r == Refresh(b)
        IN  /\ link.connected /\ OwnBeacon(b) /\ b.chan # chan
            /\ Cardinality(aux.rewritten) < MaxRewritten
            /\ r.idx # NotFound
            /\ ssidTab' = r.tab
            /\ LinkDown([scanTab EXCEPT !.entry[r.idx].chan = chan], chan)
            /\ aux' = [aux EXCEPT !.rewritten = @ \cup {scanTab.entry[r.idx].bssid}]

TblInit ==
    /\ scanTab = EmptyTable
    /\ ssidTab = EmptyTable
    /\ link = Unlinked
    /\ aux = [bssid |-> NoBssid, ssid |-> NoSsid, rewritten |-> {}]

TblNext ==
    \/ CntlOidScan \/ (\E b \in Beacons : PeerBeaconAtScan(b)) \/ CntlOidSsid \/ CntlOidBssid \/ Roam
    \/ LinkUp \/ LoseLink \/ PeerBeacon \/ SwitchChannel

TblSpec == TblInit /\ [][TblNext]_tblVars
=============================================================================
