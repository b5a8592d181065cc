----------------------------- MODULE ChipProofs -----------------------------
(***************************************************************************)
(* Proofs about the chip as the driver keeps it: the life of the adapter,  *)
(* for any set of steps that fail, and its keys, for any number of entries *)
(* and keys and whatever interfaces write them.                            *)
(***************************************************************************)
EXTENDS AdapterLifeProps, StationKeysProps, TLAPS

---------------------------------------------------------------------------
(* Interrupts *)

\* A step that may leave the interrupts off is followed by one that turns them on, or the
\* state machines are halted: also for calls while the interface is closed.
InterruptInv ==
    /\ InterruptsComeBack
    /\ call = "suspend" => asleep
    /\ asleep /\ call # "suspend" => "mlme" \notin flags
    /\ call \notin {"none", "suspend"} => ~up /\ ~asleep

Halts == "halt" \notin LifeFailures

LEMMA HaltStops == Halts /\ MlmeHalt => "mlme" \notin flags' /\ flags' \subseteq flags
BY DEF Halts, MlmeHalt

LEMMA InterruptStep == Halts /\ InterruptInv /\ [LifeNext]_lifeVars => InterruptInv'
<1> SUFFICES ASSUME Halts, InterruptInv, [LifeNext]_lifeVars PROVE InterruptInv'
  OBVIOUS
<1> USE DEF InterruptInv, InterruptsComeBack, NICEnableInterrupt, NICDisableInterrupt
<1>1. CASE rt61_pci_probe \/ rt61_pci_remove
  BY <1>1 DEF rt61_pci_probe, rt61_pci_remove
<1>2. CASE OpenStart \/ OpenIrq \/ OpenInit \/ OpenEnable
  BY <1>2 DEF OpenStart, OpenIrq, OpenInit, OpenEnable, MlmeInit
<1>3. CASE CloseStart \/ CloseMask \/ CloseIrq \/ CloseFree
  BY <1>3 DEF CloseStart, CloseMask, CloseIrq, CloseFree
<1>4. CASE SuspendStart \/ SuspendHalt
  BY <1>4, HaltStops DEF SuspendStart, SuspendHalt
<1>5. CASE rt61_pci_resume
  BY <1>5 DEF rt61_pci_resume, Callable, MlmeInit
<1>6. CASE RadioOff \/ RadioOn \/ rt_ioctl_siwmode
  BY <1>6 DEF RadioOff, RadioOn, rt_ioctl_siwmode
<1>7. CASE IsrEnter \/ IsrExit
  BY <1>7 DEF IsrEnter, IsrExit
<1>8. CASE PeriodicFires \/ AsicSetRxAnt \/ PeriodicEnds
  BY <1>8 DEF PeriodicFires, AsicSetRxAnt, PeriodicEnds
<1>9. CASE UNCHANGED lifeVars
  BY <1>9 DEF lifeVars
<1> QED BY <1>1, <1>2, <1>3, <1>4, <1>5, <1>6, <1>7, <1>8, <1>9 DEF LifeNext

\* Unless MlmeHalt finds no memory, the interrupts come back after every nesting of the
\* handler with open, close, suspend, resume and the radio switch, whatever else fails.
THEOREM InterruptsAlwaysComeBack ==
    ASSUME Halts
    PROVE  LifeSpec => []InterruptsComeBack
<1>1. LifeInit => InterruptInv
  BY DEF LifeInit, InterruptInv, InterruptsComeBack
<1>2. InterruptInv /\ [LifeNext]_lifeVars => InterruptInv'
  BY InterruptStep
<1>3. InterruptInv => InterruptsComeBack
  BY DEF InterruptInv
<1> QED BY <1>1, <1>2, <1>3, PTL DEF LifeSpec

---------------------------------------------------------------------------
(* What exists when *)

Calls == {"none", "open_irq", "open_init", "open_enable", "close_mask", "close_irq",
          "close_free", "suspend"}

\* The handler is registered; the rings are there a step longer at both ends.
Registered == up \/ call \in {"open_init", "open_enable", "close_mask", "close_irq"}
Opened == Registered \/ call \in {"open_irq", "close_free"}

HeldInv == /\ bound => held = Resources
           /\ ~bound => held = {}

CallInv ==
    /\ call \in Calls
    /\ up => call \in {"none", "suspend"}
    /\ asleep \/ call = "suspend" => up

RingInv ==
    /\ Opened => bound /\ dma = Pieces
    /\ refs = IF Opened THEN 1 ELSE 0

HandlerInv ==
    /\ irq <=> Registered
    /\ isr => irq
    /\ "inUse" \in flags <=> Registered /\ call # "open_init"

TimerInv ==
    /\ "mlme" \in flags => up \/ call = "open_enable"
    /\ periodic # "idle" => "mlme" \in flags

ReceiverInv == rxMac => up \/ call \in {"open_enable", "close_mask"}

LifeInv ==
    /\ HeldInv /\ CallInv /\ RingInv /\ HandlerInv /\ TimerInv /\ ReceiverInv

\* RTMPAllocDMAMemory backs out, whichever of these pieces fails.
BacksOut == LifeFailures \cap {"mgmt", "rxring"} = {}
NothingLost == lost = {} /\ (~Opened => dma = {})

LEMMA ProbeKeeps == LifeInv /\ rt61_pci_probe => LifeInv'
<1> SUFFICES ASSUME LifeInv, rt61_pci_probe PROVE LifeInv'
  OBVIOUS
<1>1. PICK step \in Failing(ProbeSteps) :
        /\ bound' = (step = "none")
        /\ held' = held \cup (AcquiredBefore(step) \ FreedFrom(Label(step)))
  BY DEF rt61_pci_probe
<1>2. held = {} /\ ~Opened /\ call = "none"
  BY DEF rt61_pci_probe, LifeInv, HeldInv, RingInv
<1>3. AcquiredBefore(step) \ FreedFrom(Label(step)) = IF step = "none" THEN Resources ELSE {}
  <2>1. step \in ProbeSteps \cup {"none"}
    BY DEF Failing
  <2> QED BY <2>1 DEF ProbeSteps, FirmwareSteps, Resources, AcquiredBefore, FreedFrom, Label
<1>4. HeldInv'
  BY <1>1, <1>2, <1>3 DEF HeldInv
<1>5. UNCHANGED <<ring, irq, isr, flags, chip, periodic, call, up, asleep>>
  BY DEF rt61_pci_probe
<1>6. RingInv'
  BY <1>2, <1>5 DEF LifeInv, RingInv, Opened, Registered, ring
<1> QED BY <1>4, <1>5, <1>6 DEF LifeInv, CallInv, HandlerInv, TimerInv, ReceiverInv,
           Registered, chip

LEMMA RemoveKeeps == LifeInv /\ rt61_pci_remove => LifeInv'
BY DEF rt61_pci_remove, LifeInv, HeldInv, CallInv, RingInv, HandlerInv, TimerInv, ReceiverInv,
       Opened, Registered, chip

LEMMA OpenKeeps ==
    LifeInv /\ (OpenStart \/ OpenIrq \/ OpenInit \/ OpenEnable) => LifeInv'
<1> USE DEF LifeInv, HeldInv, CallInv, RingInv, HandlerInv, TimerInv, ReceiverInv, Opened,
            Registered, Calls, chip, ring
<1>1. LifeInv /\ OpenStart => LifeInv'
  BY DEF OpenStart, DmaAfter
<1>2. LifeInv /\ OpenIrq => LifeInv'
  BY DEF OpenIrq, RTMPFreeDMAMemory, NICDisableInterrupt
<1>3. LifeInv /\ OpenInit => LifeInv'
  BY DEF OpenInit, NICInitializeAdapter, MlmeInit
<1>4. LifeInv /\ OpenEnable => LifeInv'
  BY DEF OpenEnable, NICEnableInterrupt
<1> QED BY <1>1, <1>2, <1>3, <1>4

LEMMA CloseKeeps ==
    Halts /\ LifeInv /\ (CloseStart \/ CloseMask \/ CloseIrq \/ CloseFree) => LifeInv'
<1> USE DEF LifeInv, HeldInv, CallInv, RingInv, HandlerInv, TimerInv, ReceiverInv, Opened,
            Registered, Calls, chip, ring
<1>1. Halts /\ LifeInv /\ CloseStart => LifeInv'
  BY DEF CloseStart, MlmeHalt, Halts
<1>2. LifeInv /\ CloseMask => LifeInv'
  BY DEF CloseMask, NICDisableInterrupt, NICIssueReset
<1>3. LifeInv /\ CloseIrq => LifeInv'
  BY DEF CloseIrq
<1>4. LifeInv /\ CloseFree => LifeInv'
  BY DEF CloseFree, RTMPFreeDMAMemory
<1> QED BY <1>1, <1>2, <1>3, <1>4

LEMMA CallsKeep ==
    /\ Halts /\ ~ClosedCalls /\ LifeInv
    /\ SuspendStart \/ SuspendHalt \/ rt61_pci_resume \/ RadioOff \/ RadioOn \/ rt_ioctl_siwmode
    => LifeInv'
<1> USE DEF LifeInv, HeldInv, CallInv, RingInv, HandlerInv, TimerInv, ReceiverInv, Opened,
            Registered, Calls, chip, ring, Callable
<1>1. ~ClosedCalls /\ LifeInv /\ SuspendStart => LifeInv'
  BY DEF SuspendStart, NICDisableInterrupt
<1>2. Halts /\ LifeInv /\ SuspendHalt => LifeInv'
  BY DEF SuspendHalt, MlmeHalt, Halts
<1>3. ~ClosedCalls /\ LifeInv /\ rt61_pci_resume => LifeInv'
  BY DEF rt61_pci_resume, NICInitializeAdapter, MlmeInit, NICEnableInterrupt
<1>4. ~ClosedCalls /\ LifeInv /\ (RadioOff \/ RadioOn \/ rt_ioctl_siwmode) => LifeInv'
  BY DEF RadioOff, RadioOn, rt_ioctl_siwmode
<1> QED BY <1>1, <1>2, <1>3, <1>4

LEMMA HandlersKeep ==
    LifeInv /\ (IsrEnter \/ IsrExit \/ PeriodicFires \/ AsicSetRxAnt \/ PeriodicEnds) => LifeInv'
BY DEF LifeInv, HeldInv, CallInv, RingInv, HandlerInv, TimerInv, ReceiverInv, Opened,
       Registered, Calls, chip, ring, NICDisableInterrupt, NICEnableInterrupt, 
       IsrEnter, IsrExit, PeriodicFires, AsicSetRxAnt, PeriodicEnds

LEMMA LifeStep == Halts /\ ~ClosedCalls /\ LifeInv /\ [LifeNext]_lifeVars => LifeInv'
<1>1. LifeInv /\ UNCHANGED lifeVars => LifeInv'
  BY DEF lifeVars, LifeInv, HeldInv, CallInv, RingInv, HandlerInv, TimerInv, ReceiverInv,
         Opened, Registered, chip, ring
<1> QED BY <1>1, ProbeKeeps, RemoveKeeps, OpenKeeps, CloseKeeps, CallsKeep, HandlersKeep
           DEF LifeNext

LEMMA LifeInvHolds ==
    ASSUME Halts, ~ClosedCalls
    PROVE  LifeSpec => []LifeInv
<1>1. LifeInit => LifeInv
  BY DEF LifeInit, LifeInv, HeldInv, CallInv, RingInv, HandlerInv, TimerInv, ReceiverInv,
         Opened, Registered, Calls
<1>2. LifeInv /\ [LifeNext]_lifeVars => LifeInv'
  BY LifeStep
<1> QED BY <1>1, <1>2, PTL DEF LifeSpec

\* As long as the interface is used while it is open and MlmeHalt finds its memory, the
\* rings outlive the handler and the receiver, whatever else fails.
THEOREM RingsOutliveListeners ==
    ASSUME Halts, ~ClosedCalls
    PROVE  LifeSpec => []RingsWhileListening
<1>1. LifeInv => RingsWhileListening
  BY DEF LifeInv, HeldInv, CallInv, RingInv, HandlerInv, ReceiverInv, Opened, Registered,
         RingsWhileListening, Resources
<1> QED BY <1>1, LifeInvHolds, PTL

LEMMA LostStep == BacksOut /\ LifeInv /\ NothingLost /\ [LifeNext]_lifeVars => NothingLost'
<1> SUFFICES ASSUME BacksOut, LifeInv, NothingLost, [LifeNext]_lifeVars PROVE NothingLost'
  OBVIOUS
<1> USE DEF NothingLost, Opened, Registered, ring
<1>1. CASE OpenStart
  BY <1>1 DEF OpenStart, DmaAfter, BacksOut, Failing, Pieces
<1>2. CASE OpenIrq \/ CloseFree
  BY <1>2 DEF OpenIrq, CloseFree, RTMPFreeDMAMemory
<1>3. CASE rt61_pci_remove
  BY <1>3 DEF rt61_pci_remove, LifeInv, RingInv
<1>4. CASE OpenInit \/ OpenEnable \/ CloseStart \/ CloseMask \/ CloseIrq
  BY <1>4 DEF OpenInit, OpenEnable, CloseStart, CloseMask, CloseIrq
<1>5. CASE SuspendStart \/ SuspendHalt \/ rt61_pci_resume \/ RadioOff \/ RadioOn \/ rt_ioctl_siwmode
  BY <1>5 DEF SuspendStart, SuspendHalt, rt61_pci_resume, RadioOff, RadioOn, rt_ioctl_siwmode,
              Callable, LifeInv, CallInv
<1>6. CASE rt61_pci_probe \/ IsrEnter \/ IsrExit \/ PeriodicFires \/ AsicSetRxAnt \/ PeriodicEnds
  BY <1>6 DEF rt61_pci_probe, IsrEnter, IsrExit, PeriodicFires, AsicSetRxAnt, PeriodicEnds
<1>7. CASE UNCHANGED lifeVars
  BY <1>7 DEF lifeVars
<1> QED BY <1>1, <1>2, <1>3, <1>4, <1>5, <1>6, <1>7 DEF LifeNext

\* Every other failure of probe, open and resume, alone or one after the other, is undone.
THEOREM NothingStaysBehind ==
    ASSUME Halts, BacksOut, ~ClosedCalls
    PROVE  LifeSpec => []NothingLeftBehind
<1>1. LifeInit => NothingLost
  BY DEF LifeInit, NothingLost
<1>2. LifeInv /\ NothingLost /\ [LifeNext]_lifeVars => NothingLost'
  BY LostStep
<1>3. LifeInv /\ NothingLost => NothingLeftBehind
  BY DEF LifeInv, HeldInv, RingInv, HandlerInv, TimerInv, Opened, Registered, NothingLost,
         NothingLeftBehind, Closed
<1> QED BY <1>1, <1>2, <1>3, LifeInvHolds, PTL DEF LifeSpec

---------------------------------------------------------------------------
(* The keys of driver and chip agree, as long as the chip is not restarted and no key
   is set through Key1 to Key4 in a WPA mode *)

\* Every key the driver has is in the chip, whether it is used now or not.
Mirrored ==
    \A i \in KeyIds : shared[i].len > 0 =>
        asic[i].valid /\ asic[i].alg = shared[i].alg /\ asic[i].key = shared[i].key

CipherAlgs == {"none", "WEP64", "WEP128", "TKIP", "AES"}
Keys == {"zero"} \cup {k.key : k \in WepKeys} \cup WpaKeys
Entry == [len : Nat, alg : CipherAlgs, key : Keys]
Cell == [valid : BOOLEAN, alg : CipherAlgs, key : Keys]
Port == [auth : AuthModes, wep : WepStatuses, keyId : KeyIds, secured : BOOLEAN,
         ieee8021x : BOOLEAN, requireKeys : BOOLEAN]

WishesOK == keyUse \in KeyScenarios /\ port \in Port /\ desired \in [KeyIds -> Entry]
TablesOK == shared \in [KeyIds -> Entry] /\ asic \in [KeyIds -> Cell]

KeyInv == WishesOK /\ TablesOK /\ Mirrored

\* What a call does to the two tables.
TablesMove ==
    \/ UNCHANGED <<shared, asic>>
    \/ \E i \in KeyIds, entry \in Entry : Install(i, entry)
    \/ \E i \in KeyIds : Erase(i)
    \/ RTMPWPARemoveAllKeys

\* The chip keeps its table, and no call writes one of the two only.
Undisturbed == \A s \in KeyScenarios : s \cap {"wrongMode", "reopen", "resume"} = {}

\* The entries made of a user's key.
LEMMA WepEntries ==
    ASSUME NEW k \in WepKeys
    PROVE  /\ WepEntry(k) \in Entry /\ PaddedEntry(k) \in Entry
           /\ NoKey \in Entry /\ NoCell \in Cell
<1>1. k.length \in Nat /\ k.key \in Keys
  BY KeyAssumption DEF Keys
<1>2. NoKey \in Entry /\ NoCell \in Cell
  BY DEF NoKey, NoCell, Entry, Cell, CipherAlgs, Keys
<1>3. WepEntry(k) \in Entry
  BY <1>1 DEF WepEntry, Entry, CipherAlgs
<1>4. PaddedEntry(k) \in Entry
  BY <1>1 DEF PaddedEntry, Entry, CipherAlgs
<1> QED
  BY <1>2, <1>3, <1>4

\* The empty entry and the empty cell.
LEMMA Empty == NoKey \in Entry /\ NoCell \in Cell
BY DEF NoKey, NoCell, Entry, Cell, CipherAlgs, Keys

\* The three ways to write the tables keep them alike.
LEMMA TablesStayAlike ==
    ASSUME TablesOK, Mirrored, TablesMove
    PROVE  TablesOK' /\ Mirrored'
<1>1. CASE UNCHANGED <<shared, asic>>
  BY <1>1 DEF TablesOK, Mirrored
<1>2. ASSUME NEW i \in KeyIds, NEW entry \in Entry, Install(i, entry)
      PROVE  TablesOK' /\ Mirrored'
  <2> DEFINE cell == [valid |-> TRUE, alg |-> entry.alg, key |-> entry.key]
  <2>1. cell \in Cell
    BY DEF Entry, Cell
  <2>2. shared' = [shared EXCEPT ![i] = entry] /\ asic' = [asic EXCEPT ![i] = cell]
    BY <1>2 DEF Install, AsicAddSharedKeyEntry
  <2>3. TablesOK'
    BY <2>1, <2>2 DEF TablesOK
  <2>4. \A j \in KeyIds \ {i} : shared'[j] = shared[j] /\ asic'[j] = asic[j]
    BY <2>2 DEF TablesOK
  <2>5. shared'[i] = entry /\ asic'[i] = cell
    BY <2>2 DEF TablesOK
  <2>6. Mirrored'
    BY <2>4, <2>5 DEF Mirrored
  <2> QED
    BY <2>3, <2>6
<1>3. ASSUME NEW i \in KeyIds, Erase(i)
      PROVE  TablesOK' /\ Mirrored'
  <2>1. shared' = [shared EXCEPT ![i] = NoKey] /\ asic' = [asic EXCEPT ![i] = NoCell]
    BY <1>3 DEF Erase, AsicRemoveSharedKeyEntry
  <2>2. TablesOK'
    BY <2>1, Empty DEF TablesOK
  <2>3. \A j \in KeyIds \ {i} : shared'[j] = shared[j] /\ asic'[j] = asic[j]
    BY <2>1 DEF TablesOK
  <2>4. shared'[i].len = 0
    BY <2>1 DEF TablesOK, NoKey
  <2>5. Mirrored'
    BY <2>3, <2>4 DEF Mirrored
  <2> QED
    BY <2>2, <2>5
<1>4. CASE RTMPWPARemoveAllKeys
  <2>1. CASE port.auth = "wpaNone"
    BY <1>1, <1>4, <2>1 DEF RTMPWPARemoveAllKeys
  <2>2. CASE port.auth # "wpaNone"
    <3>1. shared' = [i \in KeyIds |-> NoKey] /\ asic' = [i \in KeyIds |-> NoCell]
      BY <1>4, <2>2 DEF RTMPWPARemoveAllKeys
    <3> QED
      BY <3>1, Empty DEF TablesOK, Mirrored, NoKey
  <2> QED
    BY <2>1, <2>2
<1> QED
  BY <1>1, <1>2, <1>3, <1>4 DEF TablesMove

\* iwconfig.
LEMMA IwconfigMoves ==
    ASSUME WishesOK, rt_ioctl_siwencode
    PROVE  WishesOK' /\ TablesMove
<1>1. Encoding \in Port
  BY DEF WishesOK, Encoding, Port, AuthModes, WepStatuses
<1>2. ASSUME NEW i \in KeyIds, NEW k \in WepKeys, SiwEncodeKey(i, k)
      PROVE  WishesOK' /\ TablesMove
  BY <1>1, <1>2, WepEntries, rt_ioctl_siwencode
  DEF SiwEncodeKey, WishesOK, TablesMove, rt_ioctl_siwencode
<1>3. ASSUME NEW i \in KeyIds, SiwEncodeIndex(i)
      PROVE  WishesOK' /\ TablesMove
  <2>1. port' \in Port
    BY <1>1, <1>3 DEF SiwEncodeIndex, Port
  <2>2. desired[i] \in Entry /\ Install(i, desired[i])
    BY <1>3 DEF SiwEncodeIndex, InstallDesired, WishesOK
  <2> QED
    BY <1>3, <2>1, <2>2 DEF SiwEncodeIndex, WishesOK, TablesMove, rt_ioctl_siwencode
<1>4. ASSUME NEW i \in KeyIds, SiwEncodeOff(i)
      PROVE  WishesOK' /\ TablesMove
  <2>1. port' \in Port
    BY <1>4 DEF SiwEncodeOff, WishesOK, Port, AuthModes, WepStatuses
  <2>2. [NoKey EXCEPT !.len = 5, !.alg = "WEP128"] \in Entry
    BY DEF NoKey, Entry, CipherAlgs, Keys
  <2> QED
    BY <1>4, <2>1, <2>2 DEF SiwEncodeOff, WishesOK, TablesMove, rt_ioctl_siwencode
<1>5. CASE SiwEncodeOn
  BY <1>1, <1>5 DEF SiwEncodeOn, WishesOK, TablesMove, rt_ioctl_siwencode
<1> QED
  BY <1>2, <1>3, <1>4, <1>5 DEF rt_ioctl_siwencode

\* iwpriv; its keys go to both tables unless the mode is wrong for them.
LEMMA IwprivMoves ==
    ASSUME Undisturbed, WishesOK, IwprivSet
    PROVE  WishesOK' /\ TablesMove
<1>1. UNCHANGED keyUse
  BY DEF IwprivSet
<1>2. ASSUME NEW auth \in AuthModes, Set_AuthMode_Proc(auth)
      PROVE  WishesOK' /\ TablesMove
  BY <1>1, <1>2 DEF Set_AuthMode_Proc, WishesOK, TablesMove, Port
<1>3. ASSUME NEW wep \in WepStatuses, Set_EncrypType_Proc(wep)
      PROVE  WishesOK' /\ TablesMove
  BY <1>1, <1>3 DEF Set_EncrypType_Proc, WishesOK, TablesMove, Port
<1>4. ASSUME NEW i \in KeyIds, Set_DefaultKeyID_Proc(i)
      PROVE  WishesOK' /\ TablesMove
  BY <1>1, <1>4 DEF Set_DefaultKeyID_Proc, WishesOK, TablesMove, Port
<1>5. ASSUME NEW i \in KeyIds, NEW k \in WepKeys, Set_Key_Proc(i, k)
      PROVE  WishesOK' /\ TablesMove
  <2>1. "wrongMode" \notin keyUse
    BY DEF Undisturbed, WishesOK
  <2>2. Install(i, WepEntry(k)) /\ UNCHANGED <<port, desired>>
    BY <1>5, <2>1 DEF Set_Key_Proc
  <2> QED
    BY <1>1, <2>2, WepEntries DEF WishesOK, TablesMove
<1> QED
  BY <1>2, <1>3, <1>4, <1>5 DEF IwprivSet

\* wpa_supplicant and an EAP success.
LEMMA SupplicantMoves ==
    ASSUME WishesOK, SupplicantSets
    PROVE  WishesOK' /\ TablesMove
<1>1. UNCHANGED keyUse
  BY DEF SupplicantSets
<1>2. ASSUME NEW auth \in AuthModes, OID_802_11_AUTHENTICATION_MODE(auth)
      PROVE  WishesOK' /\ TablesMove
  BY <1>1, <1>2
  DEF OID_802_11_AUTHENTICATION_MODE, Set_AuthMode_Proc, WishesOK, TablesMove, Port
<1>3. ASSUME NEW wep \in WepStatuses, OID_802_11_WEP_STATUS(wep)
      PROVE  WishesOK' /\ TablesMove
  BY <1>1, <1>3 DEF OID_802_11_WEP_STATUS, WishesOK, TablesMove, Port
<1>4. ASSUME NEW pairwise \in BOOLEAN, NEW tx \in BOOLEAN, NEW i \in KeyIds, NEW key \in WpaKeys,
             RTMPWPAAddKeyProc(pairwise, i, key, tx)
      PROVE  WishesOK' /\ TablesMove
  <2>1. PICK alg \in Algs(pairwise) : Install(i, [len |-> 32, alg |-> alg, key |-> key])
    BY <1>4 DEF RTMPWPAAddKeyProc
  <2>2. [len |-> 32, alg |-> alg, key |-> key] \in Entry
    BY DEF Algs, Entry, CipherAlgs, Keys
  <2>3. port' \in Port /\ UNCHANGED desired
    BY <1>4 DEF RTMPWPAAddKeyProc, WishesOK, Port
  <2> QED
    BY <1>1, <2>1, <2>2, <2>3 DEF WishesOK, TablesMove
<1>5. ASSUME NEW i \in KeyIds, RemoveKey(i)
      PROVE  WishesOK' /\ TablesMove
  BY <1>1, <1>5 DEF RemoveKey, WishesOK, TablesMove
<1>6. ASSUME NEW i \in KeyIds, NEW k \in WepKeys, NEW tx \in BOOLEAN, RTMPWPAWepKeySanity(i, k, tx)
      PROVE  WishesOK' /\ TablesMove
  <2>1. port' \in Port /\ UNCHANGED desired /\ Install(i, WepEntry(k))
    BY <1>6 DEF RTMPWPAWepKeySanity, WishesOK, Port
  <2> QED
    BY <1>1, <2>1, WepEntries DEF WishesOK, TablesMove
<1>7. ASSUME NEW i \in KeyIds, NEW k \in WepKeys, NEW tx \in BOOLEAN, OID_802_11_ADD_WEP(i, k, tx)
      PROVE  WishesOK' /\ TablesMove
  <2>1. port' \in Port
    BY <1>7 DEF OID_802_11_ADD_WEP, WishesOK, Port
  <2>2. CASE port.secured
    BY <1>1, <1>7, <2>1, <2>2, WepEntries DEF OID_802_11_ADD_WEP, WishesOK, TablesMove
  <2>3. CASE ~port.secured
    BY <1>1, <1>7, <2>1, <2>3, WepEntries DEF OID_802_11_ADD_WEP, WishesOK, TablesMove
  <2> QED
    BY <2>2, <2>3
<1>8. ASSUME NEW on \in BOOLEAN, OID_802_11_SET_IEEE8021X(on)
      PROVE  WishesOK' /\ TablesMove
  <2>1. port' \in Port /\ UNCHANGED desired
    BY <1>8 DEF OID_802_11_SET_IEEE8021X, WishesOK, Port
  <2>2. port.keyId \in KeyIds /\ desired[port.keyId] \in Entry
    BY DEF WishesOK, Port
  <2>3. Install(port.keyId, desired[port.keyId]) \/ UNCHANGED <<shared, asic>>
    BY <1>8 DEF OID_802_11_SET_IEEE8021X, InstallDesired
  <2> QED
    BY <1>1, <2>1, <2>2, <2>3 DEF WishesOK, TablesMove
<1>9. ASSUME NEW on \in BOOLEAN, OID_802_11_SET_IEEE8021X_REQUIRE_KEY(on)
      PROVE  WishesOK' /\ TablesMove
  BY <1>1, <1>9 DEF OID_802_11_SET_IEEE8021X_REQUIRE_KEY, WishesOK, TablesMove, Port
<1> QED
  BY <1>2, <1>3, <1>4, <1>5, <1>6, <1>7, <1>8, <1>9 DEF SupplicantSets

LEMMA EapMoves ==
    ASSUME WishesOK, EapSuccess
    PROVE  WishesOK' /\ TablesMove
<1>1. port' \in Port /\ UNCHANGED <<keyUse, desired>>
  BY DEF EapSuccess, WishesOK, Port
<1>2. port.keyId \in KeyIds /\ desired[port.keyId] \in Entry
  BY DEF WishesOK, Port
<1>3. Install(port.keyId, desired[port.keyId]) \/ UNCHANGED <<shared, asic>>
  BY DEF EapSuccess, InstallDesired
<1> QED
  BY <1>1, <1>2, <1>3 DEF WishesOK, TablesMove

\* The link.
LEMMA LinkMoves ==
    ASSUME WishesOK,
           NEW same \in BOOLEAN, LinkUpKeys(same) \/ LinkDownKeys(same)
    PROVE  WishesOK' /\ TablesMove
<1>1. CASE LinkUpKeys(same)
  BY <1>1 DEF LinkUpKeys, WishesOK, TablesMove
<1>2. CASE LinkDownKeys(same)
  <2>1. port' \in Port
    BY <1>2 DEF LinkDownKeys, WishesOK, Port
  <2> QED
    BY <1>2, <2>1 DEF LinkDownKeys, WishesOK, TablesMove
<1> QED
  BY <1>1, <1>2

\* KeyInv holds first and after every step.
LEMMA KeyInvStep ==
    ASSUME Undisturbed, KeyInv, [KeyNext]_keyVars
    PROVE  KeyInv'
<1>1. WishesOK /\ TablesOK /\ Mirrored
  BY DEF KeyInv
<1>2. ASSUME WishesOK', TablesMove
      PROVE  KeyInv'
  BY <1>1, <1>2, TablesStayAlike DEF KeyInv
<1>3. CASE rt_ioctl_siwencode
  BY <1>1, <1>2, <1>3, IwconfigMoves
<1>4. CASE IwprivSet
  BY <1>1, <1>2, <1>4, IwprivMoves
<1>5. CASE SupplicantSets
  BY <1>1, <1>2, <1>5, SupplicantMoves
<1>6. CASE EapSuccess
  BY <1>1, <1>2, <1>6, EapMoves
<1>7. ASSUME NEW same \in BOOLEAN, LinkUpKeys(same) \/ LinkDownKeys(same)
      PROVE  KeyInv'
  BY <1>1, <1>2, <1>7, LinkMoves
<1>8. ~ChipRestarts
  BY <1>1 DEF ChipRestarts, Undisturbed, WishesOK
<1>9. CASE UNCHANGED keyVars
  <2>1. WishesOK' /\ TablesMove
    BY <1>1, <1>9 DEF keyVars, WishesOK, TablesMove
  <2> QED
    BY <1>2, <2>1
<1> QED
  BY <1>3, <1>4, <1>5, <1>6, <1>7, <1>8, <1>9 DEF KeyNext

LEMMA KeyInvFirst == KeyInit => KeyInv
<1> SUFFICES ASSUME KeyInit PROVE KeyInv
  OBVIOUS
<1>1. 0 \in KeyIds
  BY KeyAssumption DEF KeyIds
<1>2. WishesOK
  BY <1>1, Empty DEF KeyInit, WishesOK, Port, AuthModes, WepStatuses
<1>3. TablesOK
  BY Empty DEF KeyInit, TablesOK
<1>4. Mirrored
  BY DEF KeyInit, Mirrored, NoKey
<1> QED
  BY <1>2, <1>3, <1>4 DEF KeyInv

\* A protected frame has one of the entries.
LEMMA MirroredKeysFit == KeyInv => ChipHasTheKey
<1> SUFFICES ASSUME KeyInv, NEW f \in SentNow, Protected(f)
             PROVE  LET ours == shared[KeyIdx(f)]
                        cell == asic[KeyIdx(f)]
                    IN  cell.valid /\ cell.alg = ours.alg /\ cell.key = ours.key
  BY DEF ChipHasTheKey
<1>1. 0 \in KeyIds /\ port.keyId \in KeyIds
  BY KeyAssumption DEF KeyInv, WishesOK, Port, KeyIds
<1>2. KeyIdx(f) \in {0, port.keyId}
  BY DEF Protected, KeyIdx, SentNow, Frames
<1>3. shared[KeyIdx(f)].len > 0
  BY DEF Protected
<1> QED
  BY <1>1, <1>2, <1>3 DEF KeyInv, Mirrored

\* Whichever of iwconfig, iwpriv, wpa_supplicant, EAP success, removal and link events
\* wrote last, the chip encrypts a frame with the key the driver goes by
\* (RTMPHardTransmit, AsicAddSharedKeyEntry), for any number of entries and keys.
THEOREM ChipAgrees == Undisturbed => (KeySpec => []ChipHasTheKey)
<1> SUFFICES ASSUME Undisturbed
             PROVE  KeySpec => []ChipHasTheKey
  OBVIOUS
<1>1. KeyInv /\ [KeyNext]_keyVars => KeyInv'
  BY KeyInvStep
<1> QED
  BY <1>1, KeyInvFirst, MirroredKeysFit, PTL DEF KeySpec
=============================================================================
