--------------------------- MODULE MCMlmeConnect ---------------------------
(* Small instances of MlmeConnect: one AP, two of them, an IBSS. *)
EXTENDS MlmeConnectProps

CONSTANTS ap1, ap2, peer, zero, fresh

OneAp ==
    [bss |-> {ap1}, ibss |-> {}, bssType |-> "infra", authMode |-> "open",
     tables |-> {<<>>, <<ap1>>}, channels |-> 1, smp |-> FALSE, disturbances |-> {},
     frames |-> 1, oids |-> 1, backlog |-> 2]

\* The user's requests while the AP refuses, goes away and comes back.
User == [OneAp EXCEPT !.authMode = "autoSwitch", !.channels = 2,
            !.disturbances = {"refuse", "deauth", "channelSwitch", "noBeacon", "noMemory",
                              "auto", "autoScan"}]

\* Fast roaming, MIC countermeasures and disassociations, two of them at a time.
RoamMic == [OneAp EXCEPT !.disturbances = {"roam", "mic"}]
RoamDisassoc == [OneAp EXCEPT !.disturbances = {"roam", "roamScan", "disassoc"}]
MicDisassoc == [OneAp EXCEPT !.disturbances = {"mic", "disassoc"}]

\* Two APs, the driver reconnecting by itself, two CPUs.
TwoAps == [OneAp EXCEPT !.bss = {ap1, ap2}, !.tables = {<<ap1, ap2>>}, !.smp = TRUE,
              !.disturbances = {"auto"}, !.oids = 2, !.backlog = 1]

\* An IBSS to be joined or started, two CPUs.
Adhoc == [OneAp EXCEPT !.bss = {peer}, !.ibss = {peer}, !.bssType = "adhoc",
             !.tables = {<<>>, <<peer>>}, !.smp = TRUE, !.disturbances = {"noBeacon"},
             !.oids = 3]

\* Scans the driver decides on, written to CNTL after SCAN_REQ is posted, two CPUs.
SmpScan == [OneAp EXCEPT !.smp = TRUE, !.backlog = 1,
               !.disturbances = {"autoScan", "roamScan", "noBeacon", "refuse"}]

SafetyScenarios == <<User, RoamMic, RoamDisassoc, MicDisassoc, TwoAps, Adhoc, SmpScan>>

ReturnScenarios ==
    <<[OneAp EXCEPT !.authMode = "autoSwitch", !.oids = 2, !.disturbances = {"refuse", "deauth"}]>>

SelfWaitScenarios == <<[Adhoc EXCEPT !.disturbances = {}, !.oids = 1]>>
=============================================================================
