--------------------------- MODULE WpaSupplicant ---------------------------
(***************************************************************************)
(* The driver's own WPA-PSK and WPA2-PSK supplicant (Module/wpa.c): the    *)
(* 4-way handshake that makes the pairwise key, the 2-way handshake that   *)
(* renews the group key, and the 802.1X port of the transmit path.         *)
(*                                                                         *)
(* A handler runs as one step: it is called by MlmeHandler, one message    *)
(* after the other.  The authenticator is external; it follows 802.11i: it *)
(* repeats an unanswered message with the next replay counter, accepts     *)
(* only an answer with the counter of its last message, and                *)
(* deauthenticates after MaxTries messages.  Frames stay in order (one     *)
(* transmit ring, one MLME queue) and may be lost; those that wait in the  *)
(* MLME queue outlive the link.                                            *)
(***************************************************************************)
EXTENDS Integers, Sequences

CONSTANTS
    Modes,          \* PortCfg.AuthMode: subset of {"WPAPSK", "WPA2PSK"}
    Failures,       \* allocations and look-ups that may fail in a handler
    MaxFaults,      \* bound: losses, failures, early timeouts, resets
    MaxTries,       \* how often the authenticator sends one message
    MaxRekeys       \* bound: renewals of the group key

FailureKinds == {"pool", "random", "prf", "out", "key", "skb", "scanTab", "unwrap"}

ASSUME ModesAssumption == Modes \subseteq {"WPAPSK", "WPA2PSK"}
ASSUME FailuresAssumption == Failures \subseteq FailureKinds
ASSUME BoundsAssumption ==
    MaxFaults \in Nat /\ MaxTries \in Nat \ {0} /\ MaxRekeys \in Nat

VARIABLES
    cfg,        \* AuthMode and whether WepStatus is Encryption3Enabled (AES)
    sta,        \* the supplicant's fields of PortCfg, and SharedKey[]
    link,       \* associated or not; Bssid is zero while it is "down"
    ap,         \* the authenticator (external); renewed: this association had ApRekeys
    toSta, toAp,    \* EAPOL-Key frames on their way
    nonces,     \* random numbers drawn so far
    faults      \* how many more faults will happen

wpaVars == <<cfg, sta, link, ap, toSta, toAp, nonces, faults>>

(***************************************************************************)
(* A pairwise transient key is known by the nonces it is made of.  Junk is *)
(* a key nobody shares: of a PRF without memory, or of a zero Bssid.       *)
(***************************************************************************)
Ptk(a, s) == [a |-> a, s |-> s]
Junk == Ptk(0, 0)
NoKey == Ptk(-1, -1)
JunkGtk == 0
NoGtk == -1

\* The AP alternates between group keys 1 and 2.
KeyId(g) == 1 + (g % 2)

(***************************************************************************)
(* RTMPWPAAddKeyProc.  Only a group key opens the 802.1X port.             *)
(***************************************************************************)
AddPairwiseKey(s) == [s EXCEPT !.key = s.ptk]
\* Mutant of AddGroupKey: the key index of the message is not looked at.
AddGroupKeyOne(s, id, g) == [s EXCEPT !.gtk[1] = g, !.secured = TRUE]

AddGroupKey(s, id, g) == [s EXCEPT !.gtk[id] = g, !.secured = TRUE]
\* Entry 0 of SharedKey[] is the pairwise key's; a group key may be written to it as well.
AddGroupKeyAtZero(s) == [s EXCEPT !.key = Junk, !.secured = TRUE]
RemoveAllKeys(s) == [s EXCEPT !.key = NoKey, !.gtk = [id \in {1, 2} |-> NoGtk]]

Outcome(s, out) == [sta |-> s, out |-> out]

(***************************************************************************)
(* WpaPairMsg1Action, Wpa2PairMsg1Action: whatever the replay counter is.  *)
(***************************************************************************)
DrawKey(m, fail) ==
    LET snonce == IF fail = "random" THEN sta.snonce ELSE nonces + 1
    IN  [sta EXCEPT !.replay = m.rc, !.anonce = m.anonce, !.snonce = snonce,
                    !.ptk = IF fail = "prf" \/ link = "down" THEN Junk ELSE Ptk(m.anonce, snonce)]

Msg2(m, s) == [t |-> "pair2", rc |-> m.rc, snonce |-> s.snonce, mic |-> s.ptk, enc |-> NoKey]

PairMsg1(m, fail) ==
    LET s == DrawKey(m, fail)
    IN  IF cfg.mode = "WPAPSK" /\ fail = "pool" THEN Outcome(sta, <<>>)
        ELSE Outcome(s, IF fail = "out" THEN <<>> ELSE <<Msg2(m, s)>>)

\* ParseKeyData: the group key that message 3 of WPA2 carries.
ParseKeyData(s, m, fail) ==
    IF fail = "scanTab" THEN s
    ELSE AddGroupKey(s, KeyId(m.gtk), IF fail = "unwrap" /\ cfg.aes THEN JunkGtk ELSE m.gtk)

(***************************************************************************)
(* WpaPairMsg3Action, Wpa2PairMsg3Action.  The key is installed before     *)
(* message 4 is handed to the management ring.                             *)
(***************************************************************************)
Genuine3(m, fail) ==
    ~(cfg.mode = "WPA2PSK" /\ fail = "pool") /\ m.mic = sta.ptk /\ m.rc > sta.replay

Msg4(m) == [t |-> "pair4", rc |-> m.rc, snonce |-> 0, mic |-> sta.ptk, enc |-> NoKey]

\* Mutant of PairMsg3: message 4 is sent although there was no memory to add the key.
AnswerWithoutKey(m, fail) ==
    LET counted == [sta EXCEPT !.replay = m.rc]
    IN  IF ~Genuine3(m, fail) THEN Outcome(sta, <<>>)
        ELSE IF m.anonce # sta.anonce THEN Outcome(counted, <<>>)
        ELSE IF fail = "key" THEN Outcome(counted, <<Msg4(m)>>)
        ELSE Outcome(AddPairwiseKey(counted), <<Msg4(m)>>)

PairMsg3(m, fail) ==
    LET counted == [sta EXCEPT !.replay = m.rc]
        parsed == IF cfg.mode = "WPA2PSK" THEN ParseKeyData(counted, m, fail) ELSE counted
    IN  IF ~Genuine3(m, fail) THEN Outcome(sta, <<>>)
        ELSE IF m.anonce # sta.anonce THEN Outcome(counted, <<>>)
        ELSE IF fail \in {"out", "key"} THEN Outcome(parsed, <<>>)
        ELSE Outcome(AddPairwiseKey(parsed), <<Msg4(m)>>)

(***************************************************************************)
(* WpaGroupMsg1Action.  The handler reads the message of WPA: the key id   *)
(* of KeyInfo, the first 32 bytes of the key data.  In the message of WPA2 *)
(* that id is reserved and zero, and the key data is a list of elements    *)
(* that nobody parses (the call of ParseKeyData is a comment): what is     *)
(* installed as group key 0 is no key, and replaces the pairwise key.      *)
(***************************************************************************)
AddGtk(s, m, fail) ==
    IF cfg.mode = "WPA2PSK" THEN AddGroupKeyAtZero(s)
    ELSE AddGroupKey(s, KeyId(m.gtk), IF fail = "unwrap" /\ cfg.aes THEN JunkGtk ELSE m.gtk)

\* Message 2 takes the data path and is encrypted by the chip: with AES after the group
\* key was installed; with TKIP that is done once the message is in the ring, before the
\* chip fetches it or after.
EncryptedWith(added) == IF cfg.aes THEN {added.key} ELSE {sta.key, added.key}

GroupMsg2(m, key) == [t |-> "group2", rc |-> m.rc, snonce |-> 0, mic |-> sta.ptk, enc |-> key]

GroupMsg1(m, fail, key) ==
    LET counted == [sta EXCEPT !.replay = m.rc]
        added == AddGtk(counted, m, fail)
    IN  IF fail = "pool" THEN Outcome(sta, <<>>)
        ELSE IF m.mic # sta.ptk \/ fail = "key" THEN Outcome(counted, <<>>)
        ELSE IF fail = "out" THEN Outcome(IF cfg.aes THEN added ELSE counted, <<>>)
        ELSE Outcome(added, IF fail = "skb" THEN <<>> ELSE <<GroupMsg2(m, key)>>)

(***************************************************************************)
(* WpaEAPOLKeyAction: the state advances whatever the action returned, and *)
(* the port is closed after the action, which may have opened it.          *)
(***************************************************************************)
Handled(t) ==
    \/ t = "pair1" /\ sta.state # "NOTUSE"
    \/ t = "pair3" /\ sta.state \in {"WAIT_MSG_3", "WAIT_GROUP", "FINISH"}
    \/ t = "group1" /\ sta.state \in {"WAIT_GROUP", "FINISH"}

Action(m, fail, key) ==
    CASE m.t = "pair1" -> PairMsg1(m, fail)
      [] m.t = "pair3" -> PairMsg3(m, fail)
      [] m.t = "group1" -> GroupMsg1(m, fail, key)

NextState(t) ==
    CASE t = "pair1" -> "WAIT_MSG_3" [] t = "pair3" -> "WAIT_GROUP" [] OTHER -> "FINISH"

\* Mutant of Unsecures: a group message closes the port as well.
UnsecuresAlways(t) == sta.state \in {"WAIT_GROUP", "FINISH"}

Unsecures(t) == t # "group1" /\ sta.state \in {"WAIT_GROUP", "FINISH"}

EAPOLKeyAction(m, fail, key) ==
    LET done == Action(m, fail, key)
    IN  IF Handled(m.t)
        THEN Outcome([done.sta EXCEPT !.state = NextState(m.t),
                                      !.secured = @ /\ ~Unsecures(m.t)], done.out)
        ELSE Outcome(sta, <<>>)

Cost(n) == faults >= n /\ faults' = faults - n

Receive ==
    /\ toSta # <<>>
    /\ toSta' = Tail(toSta)
    /\ \E fail \in Failures \cup {"none"} :
       \E key \in EncryptedWith(AddGtk(sta, Head(toSta), fail)) :
        LET done == EAPOLKeyAction(Head(toSta), fail, key)
        IN  /\ Cost(IF fail = "none" THEN 0 ELSE 1)
            /\ sta' = done.sta
            /\ nonces' = IF done.sta.snonce # sta.snonce THEN nonces + 1 ELSE nonces
            /\ toAp' = IF link = "down" THEN toAp ELSE toAp \o done.out
    /\ UNCHANGED <<cfg, link, ap>>

\* RT_OID_802_11_ADD_WPA: the user sets the same key again.
AddWpa ==
    /\ Cost(1)
    /\ sta' = [sta EXCEPT !.state = "START"]
    /\ UNCHANGED <<cfg, link, ap, toSta, toAp, nonces>>

(***************************************************************************)
(* LinkDown and LinkUp: what they do to the supplicant.  The keys survive  *)
(* a link that goes down without the AP and comes up with the same AP.     *)
(***************************************************************************)
LinkDown(fromAp) ==
    LET s == [sta EXCEPT !.state = "START", !.replay = 0, !.secured = FALSE]
    IN  /\ link = "up"
        /\ link' = "down"
        /\ sta' = IF fromAp THEN RemoveAllKeys(s) ELSE s
        /\ ap' = [ap EXCEPT !.state = "idle"]
        /\ toAp' = <<>>
        /\ toSta' \in {toSta, <<>>}

LoseLink ==
    /\ Cost(1)
    /\ LinkDown(FALSE)
    /\ UNCHANGED <<cfg, nonces>>

PairFrame(a, t) ==
    [t |-> t, rc |-> a.rc, anonce |-> a.anonce, gtk |-> a.gtk,
     mic |-> IF t = "pair1" THEN NoKey ELSE a.ptk]

\* The authenticator sends the message of its state.
ApSends(a) ==
    /\ ap' = a
    /\ toSta' = Append(toSta, PairFrame(a,
            CASE a.state = "msg1" -> "pair1" [] a.state = "msg3" -> "pair3"
              [] a.state = "group" -> "group1"))

LinkUp ==
    /\ link = "down"
    /\ link' = "up"
    /\ \E sameAp \in BOOLEAN : sta' = IF sameAp THEN sta ELSE RemoveAllKeys(sta)
    /\ nonces' = nonces + 1
    /\ ApSends([ap EXCEPT !.state = "msg1", !.rc = 1, !.tries = 1, !.anonce = nonces + 1,
                          !.ptk = NoKey, !.renewed = FALSE])
    /\ UNCHANGED <<cfg, toAp, faults>>

ApStep(a, s) == [a EXCEPT !.state = s, !.rc = @ + 1, !.tries = 1]

ApReceive ==
    LET m == Head(toAp)
        answered == m.rc = ap.rc /\ m.mic = ap.ptk
        ptk == Ptk(ap.anonce, m.snonce)
    IN  /\ toAp # <<>>
        /\ toAp' = Tail(toAp)
        /\ CASE ap.state = "msg1" /\ m.t = "pair2" /\ m.rc = ap.rc /\ m.mic = ptk ->
                    ApSends([ApStep(ap, "msg3") EXCEPT !.ptk = ptk])
             [] ap.state = "msg3" /\ m.t = "pair4" /\ answered ->
                    IF cfg.mode = "WPAPSK" THEN ApSends(ApStep(ap, "group"))
                    ELSE ap' = [ap EXCEPT !.state = "done"] /\ UNCHANGED toSta
             [] ap.state = "group" /\ m.t = "group2" /\ answered /\ m.enc = ap.ptk ->
                    ap' = [ap EXCEPT !.state = "done"] /\ UNCHANGED toSta
             [] OTHER -> UNCHANGED <<ap, toSta>>
        /\ UNCHANGED <<cfg, sta, link, nonces, faults>>

\* A timeout is early, and a fault, when the message or its answer is on its way.
Early == IF toSta \o toAp = <<>> THEN 0 ELSE 1

ApTimeout ==
    /\ ap.state \in {"msg1", "msg3", "group"} /\ ap.tries < MaxTries
    /\ Cost(Early)
    /\ ApSends([ap EXCEPT !.rc = @ + 1, !.tries = @ + 1])
    /\ UNCHANGED <<cfg, sta, link, toAp, nonces>>

ApGivesUp ==
    /\ ap.state \in {"msg1", "msg3", "group"} /\ ap.tries = MaxTries
    /\ Cost(Early)
    /\ LinkDown(TRUE)
    /\ UNCHANGED <<cfg, nonces>>

ApRekeys ==
    /\ ap.state = "done" /\ ap.gtk <= MaxRekeys
    /\ ApSends([ApStep(ap, "group") EXCEPT !.gtk = @ + 1, !.renewed = TRUE])
    /\ UNCHANGED <<cfg, sta, link, toAp, nonces, faults>>

Lose ==
    /\ Cost(1)
    /\ \/ toSta # <<>> /\ toSta' = Tail(toSta) /\ UNCHANGED toAp
       \/ toAp # <<>> /\ toAp' = Tail(toAp) /\ UNCHANGED toSta
    /\ UNCHANGED <<cfg, sta, link, ap, nonces>>

WpaInit ==
    /\ cfg \in [mode : Modes, aes : BOOLEAN]
    /\ sta = [state |-> "START", secured |-> FALSE, replay |-> 0, anonce |-> 0,
              snonce |-> 0, ptk |-> Junk, key |-> NoKey, gtk |-> [id \in {1, 2} |-> NoGtk]]
    /\ link = "down"
    /\ ap = [state |-> "idle", rc |-> 0, tries |-> 1, anonce |-> 0, ptk |-> NoKey, gtk |-> 1,
             renewed |-> FALSE]
    /\ toSta = <<>> /\ toAp = <<>>
    /\ nonces = 0
    /\ faults = MaxFaults

WpaNext ==
    \/ Receive \/ AddWpa \/ LoseLink \/ LinkUp
    \/ ApReceive \/ ApTimeout \/ ApGivesUp \/ ApRekeys \/ Lose

WpaSpec == WpaInit /\ [][WpaNext]_wpaVars

\* The tasklets run, the user's station reconnects, the authenticator's timer is due.
WpaFairness ==
    /\ WF_wpaVars(Receive) /\ WF_wpaVars(LinkUp)
    /\ WF_wpaVars(ApReceive) /\ WF_wpaVars(ApTimeout \/ ApGivesUp)

WpaFairSpec == WpaSpec /\ WpaFairness
=============================================================================
