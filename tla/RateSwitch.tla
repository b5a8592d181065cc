----------------------------- MODULE RateSwitch -----------------------------
(***************************************************************************)
(* Dynamic rate switching (Module/mlme.c): once a second the periodic task *)
(* judges the transmissions of that second and moves PortCfg.TxRate; after *)
(* a move upwards a timer looks once more; NULL frames sent at the next    *)
(* rate are judged by the TX-done interrupt (Module/rtmp_data.c).  Other   *)
(* NULL frames tell the AP the power mode, at PortCfg.TxRate as it is.     *)
(*                                                                         *)
(* A rate is its RATE_xxx number, 0 to 11; 4 and more are OFDM rates.  The *)
(* statistics of a second are inputs: how many frames (none, at most 15,   *)
(* more) and the percentage that needed a retry or failed.                 *)
(***************************************************************************)
EXTENDS Integers

CONSTANTS
    Networks,   \* [ofdmOnly, infra, lowest, highest: rates both sides support,
                \*  desired: the user's highest, switching: he allows more than one]
    Pers,       \* error percentages
    Dbms        \* signal strengths

Rates == 0 .. 11
Rate11 == 3
Rate6 == 4
Rate24 == 8
Ofdm == 4 .. 11
WorstBound == 3     \* DRS_TX_QUALITY_WORST_BOUND

ASSUME NetworkAssumption ==
    \A n \in Networks :
        /\ n.ofdmOnly \in BOOLEAN /\ n.infra \in BOOLEAN /\ n.switching \in BOOLEAN
        /\ n.highest \in Rates /\ n.lowest \in 0 .. n.highest /\ n.desired \in Rates
        /\ n.ofdmOnly => n.lowest \in Ofdm
ASSUME SampleAssumption == Pers \subseteq 0 .. 100 /\ Dbms \subseteq Int

VARIABLES
    net,        \* the BSS and the user's rates
    txRate,     \* PortCfg.TxRate
    drs,        \* pAd->DrsCounters: TxQuality, PER, LastSecTxRateChangeAction, noisy
    quick,      \* QuickResponeForRateUpTimerRunning
    probes,     \* rates at which a NULL frame of PTYPE_NULL_AT_HIGH_RATE is on its way
    clean       \* the environment: no errors from now on

rateVars == <<net, txRate, drs, quick, probes, clean>>

\* Indexed by rate: 1, 2, 5.5, 11, 6, 9, 12, 18, 24, 36, 48, 54 Mbps.
Table(list) == [r \in Rates |-> list[r + 1]]
Phy11BGNextRateDownward == Table(<<0, 0, 1, 2, 3, 4, 3, 6, 7, 8, 9, 10>>)
Phy11BGNextRateUpward == Table(<<1, 2, 3, 6, 5, 6, 7, 8, 9, 10, 11, 11>>)
Phy11ANextRateDownward == Table(<<4, 4, 4, 4, 4, 4, 5, 6, 7, 8, 9, 10>>)
Phy11ANextRateUpward == Table(<<5, 5, 5, 5, 5, 6, 7, 8, 9, 10, 11, 11>>)
RateUpPER == Table(<<40, 40, 35, 20, 20, 20, 20, 16, 10, 16, 10, 6>>)
RateDownPER == Table(<<50, 50, 45, 45, 35, 35, 35, 35, 25, 25, 25, 13>>)
RssiSafeLevelForTxRate == Table(<<-92, -91, -90, -87, -88, -86, -85, -83, -81, -78, -72, -71>>)

Highest(S) == CHOOSE r \in S : \A s \in S : s <= r
AtMost(r, bound) == IF r > bound THEN bound ELSE r

(***************************************************************************)
(* MlmeUpdateTxRates.  With one desired rate there is no switching.        *)
(***************************************************************************)
MaxTxRate == AtMost(net.highest, net.desired)
MinTxRate == net.lowest
Switching == net.switching

StartRate(linkUp, dbm) ==
    LET top == IF linkUp /\ MaxTxRate >= Rate24 THEN Rate24 ELSE MaxTxRate
    IN  IF ~Switching THEN MaxTxRate
        ELSE AtMost(IF dbm < -75 THEN Rate11 ELSE IF dbm < -70 THEN Rate24 ELSE top, MaxTxRate)

\* Mutant of RateOnAir: the rate as it is.
RateUnchecked(low) == IF low THEN 0 ELSE txRate

(***************************************************************************)
(* RTMPHardTransmit: DHCP and ARP frames ask for the lowest rate of the    *)
(* band, others for PortCfg.TxRate when they were queued; one below those  *)
(* of the BSS is raised.                                                   *)
(***************************************************************************)
RateOnAir(low) ==
    LET rate == IF low THEN IF net.ofdmOnly THEN Rate6 ELSE 0 ELSE txRate
    IN  IF rate < MinTxRate THEN MinTxRate ELSE rate

\* RTMPSendNullFrame raises nothing.  The periodic task calls it when power save begins and,
\* every ten seconds, when no beacon is heard, after it has chosen the rate.
NullFrameRate == txRate

NoHistory == [r \in Rates |-> 0]
FreshDrs == [quality |-> NoHistory, per |-> NoHistory, action |-> 0, noisy |-> FALSE]

NextUp(r) ==
    AtMost(IF net.ofdmOnly THEN Phy11ANextRateUpward[r] ELSE Phy11BGNextRateUpward[r], MaxTxRate)
NextDown(r) ==
    IF net.ofdmOnly THEN Phy11ANextRateDownward[r] ELSE Phy11BGNextRateDownward[r]

(***************************************************************************)
(* Few frames: the rate follows the signal.                                *)
(***************************************************************************)
RateForRssi(dbm) ==
    LET steps == {<<-65, 11>>, <<-66, 10>>, <<-70, 9>>, <<-74, 8>>, <<-77, 7>>, <<-79, 6>>}
        cck == {<<-82, 3>>, <<-84, 2>>, <<-85, 1>>}
        reached == {s[2] : s \in {s \in steps : dbm >= s[1]}}
        slow == {s[2] : s \in {s \in cck : dbm >= s[1]}} \cup {0}
    IN  IF reached # {} THEN Highest(reached)
        ELSE IF dbm >= -81 THEN IF net.ofdmOnly THEN 5 ELSE Rate11
        ELSE IF net.ofdmOnly THEN 4 ELSE Highest(slow)

\* Mutant of Better: debt is never paid back.
NeverBetter(q, r) == q

(***************************************************************************)
(* The judgement: quality is a debt between 0 and WorstBound.              *)
(***************************************************************************)
Better(q, r) == [q EXCEPT ![r] = IF @ > 0 THEN @ - 1 ELSE 0]

Judge(q, r, up, per) ==
    CASE per >= RateDownPER[r] -> [q EXCEPT ![r] = WorstBound]
      [] per < RateDownPER[r] /\ per <= RateUpPER[r] -> Better(Better(q, r), up)
      [] OTHER -> q

\* "Claim noisy environment": the last step down did not help.
ClaimsNoise(r, up, per) ==
    /\ up # r /\ drs.action = 2
    /\ per[r] < 75 /\ (per[r] > 20 \/ drs.noisy)
    /\ per[r] + 5 > per[up]

OneMoreUp(up) == AtMost(IF up + 1 \in {4, 5} THEN 6 ELSE up + 1, MaxTxRate)

\* "Leave noisy environment": the rate the signal supports.
JumpUpRate(dbm) ==
    AtMost(Highest({0} \cup {r \in 1 .. 11 : dbm > RssiSafeLevelForTxRate[r]}), MaxTxRate)

\* "Guarantee a minimum TX rate for each RSSI segment"; then the next rate down.
StepDown(dbm, down) ==
    LET segments == {<<-45, 10>>, <<-50, 9>>, <<-55, 8>>, <<-60, 7>>, <<-65, 6>>, <<-70, 5>>,
                     <<-75, 3>>}
        open == {s \in segments : dbm >= s[1] /\ down < s[2]}
        rate == (CHOOSE s \in open : \A o \in open : o[1] <= s[1])[2]
    IN  IF open = {} THEN down
        ELSE IF rate = 5 /\ ~net.ofdmOnly THEN Rate11 ELSE rate

(***************************************************************************)
(* What follows from a move from r: up clears all history and arms the     *)
(* timer, down clears that of the new rate.                                *)
(***************************************************************************)
Moved(r, rate, d) ==
    CASE rate > r -> [d EXCEPT !.quality = NoHistory, !.per = NoHistory, !.action = 1]
      [] rate < r -> [d EXCEPT !.quality[rate] = 0, !.per[rate] = 0, !.action = 2]
      [] OTHER -> [d EXCEPT !.action = 0]

MlmeDynamicTxRateSwitching(many, sample, dbm) ==
    LET r == txRate
        up == NextUp(r)
        down == NextDown(r)
        q == Judge(drs.quality, r, up, sample)
        per == [drs.per EXCEPT ![r] = sample]
        noise == ClaimsNoise(r, up, per)
        leaves == ~noise /\ drs.noisy /\ per[r] <= 12
        jump == leaves /\ JumpUpRate(dbm) > r
        rate == CASE noise -> OneMoreUp(up)
                  [] jump -> JumpUpRate(dbm)
                  [] ~noise /\ ~jump /\ q[r] >= WorstBound /\ r # down ->
                        AtMost(StepDown(dbm, down), MaxTxRate)
                  [] ~noise /\ ~jump /\ q[r] = 0 /\ q[up] = 0 -> up
                  [] OTHER -> r
        probe == /\ ~noise /\ ~jump /\ net.infra /\ up # r /\ up > Rate11
                 /\ sample < RateDownPER[r] /\ sample <= RateUpPER[r]
                 /\ q[r] <= 1 /\ q[up] <= 1
    IN  /\ IF ~Switching THEN UNCHANGED <<txRate, drs, quick, probes>>
           ELSE IF many
           THEN /\ txRate' = rate
                /\ drs' = Moved(r, rate, [drs EXCEPT !.quality = q, !.per = per,
                                                     !.noisy = (@ \/ noise) /\ ~leaves])
                /\ quick' = (quick \/ rate > r)
                /\ probes' = IF probe THEN probes \cup {up} ELSE probes
           ELSE /\ txRate' = AtMost(RateForRssi(dbm), MaxTxRate)
                /\ drs' = [drs EXCEPT !.quality = NoHistory, !.per = NoHistory]
                /\ UNCHANGED <<quick, probes>>
        /\ UNCHANGED <<net, clean>>

Periodic ==
    \E many \in BOOLEAN, sample \in Pers, dbm \in Dbms :
        /\ clean => many /\ sample = 0
        /\ MlmeDynamicTxRateSwitching(many, sample, dbm)

(***************************************************************************)
(* The timer after a move up: only down.                                   *)
(***************************************************************************)
StaQuickResponeForRateUpExec ==
    \E many \in BOOLEAN, sample \in Pers :
        LET per == IF many THEN sample ELSE 0
            q == IF many /\ sample >= RateDownPER[txRate]
                 THEN [drs.quality EXCEPT ![txRate] = WorstBound] ELSE drs.quality
            worst == q[txRate] >= WorstBound
            rate == IF worst THEN NextDown(txRate) ELSE txRate
        IN  /\ quick /\ quick' = FALSE
            /\ clean => sample = 0
            /\ txRate' = rate
            /\ drs' = LET d == [drs EXCEPT !.quality = q, !.per[txRate] = per]
                      IN  IF rate < txRate THEN Moved(txRate, rate, d) ELSE [d EXCEPT !.action = 0]
            /\ UNCHANGED <<net, probes, clean>>

\* Without a link or a frame the timer only ends.
QuickResponseIdle ==
    quick /\ quick' = FALSE /\ UNCHANGED <<net, txRate, drs, probes, clean>>

(***************************************************************************)
(* RTMPHandleTxDoneInterrupt for a NULL frame: the debt goes to the rate   *)
(* above the one in use now.                                               *)
(***************************************************************************)
TxDone(owes) ==
    \E r \in probes :
        LET up == Phy11BGNextRateUpward[txRate]
            debt == drs.quality[up] + owes
        IN  /\ clean => owes = 0
            /\ probes' \in {probes, probes \ {r}}
            /\ drs' = [drs EXCEPT !.quality[up] = AtMost(debt, WorstBound)]
            /\ UNCHANGED <<net, txRate, quick, clean>>

\* LinkUp, or a change of the rates in use; the counters are cleared by LinkUp only.
MlmeUpdateTxRates ==
    \E linkUp \in BOOLEAN, dbm \in Dbms :
        /\ ~clean
        /\ txRate' = StartRate(linkUp, dbm)
        /\ drs' = IF linkUp THEN FreshDrs ELSE drs
        /\ UNCHANGED <<net, quick, probes, clean>>

BecomeClean == ~clean /\ clean' = TRUE /\ UNCHANGED <<net, txRate, drs, quick, probes>>

RateInit ==
    /\ net \in Networks
    /\ \E dbm \in Dbms : txRate = StartRate(TRUE, dbm)
    /\ drs = FreshDrs
    /\ quick = FALSE /\ clean = FALSE
    /\ probes = {}

RateNext ==
    \/ Periodic \/ StaQuickResponeForRateUpExec \/ QuickResponseIdle
    \/ \E owes \in {0, 2, WorstBound} : TxDone(owes)
    \/ MlmeUpdateTxRates \/ BecomeClean

RateSpec == RateInit /\ [][RateNext]_rateVars

\* The periodic task runs every second and a frame that was sent is reported.
RateFairness == WF_rateVars(Periodic) /\ WF_rateVars(TxDone(0) /\ probes' # probes)

RateFairSpec == RateSpec /\ RateFairness
=============================================================================
