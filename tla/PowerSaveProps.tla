---------------------------- MODULE PowerSaveProps ----------------------------
(***************************************************************************)
(* What power save promises.                                               *)
(***************************************************************************)
EXTENDS PowerSave

\* A frame the access point keeps is fetched, also when power save was left
\* without telling it: the station wakes, polls, or says that it is active
\* (PeerBeacon, EnqueuePsPoll, RTMPSendNullFrame, MlmeSetPsmBit).
KeptIsFetched == kept = MaxHeld ~> kept < MaxHeld

\* Not so in the model, and in no run (the rule is a comment without code):
\* "Psm change to PWR_SAVE, but AP not been informed yet, we better stay AWAKE"
\* (PeerBeacon).
AsleepMeansInformed == doze => apPsm = "save"

\* Not so in the model, and in no run (RTMPSendNullFrame does not wake the PHY):
\* "outgoing frame always wakeup PHY to prevent frame lost" (RTMPHardTransmit,
\* MlmeHardTransmit).
AwakeToSend == queued # <<>> => ~doze
=============================================================================
