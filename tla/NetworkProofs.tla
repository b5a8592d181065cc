--------------------------- MODULE NetworkProofs ----------------------------
(***************************************************************************)
(* Proofs about the network a station belongs to: the rate it sends at,    *)
(* whatever rates station and BSS support, the IBSS it merges with,        *)
(* whatever stations meet, the table of the BSSs it knows, the candidates  *)
(* it chooses from the table, and the ciphers it reads from their elements.*)
(***************************************************************************)
EXTENDS RateSwitchProps, IbssMerge, BssTableProps, BssCipherProps, FiniteSetTheorems,
        FunctionTheorems, WellFoundedInduction, TLAPS

\* A non-empty set of naturals has a smallest element.
LEMMA Least ==
    ASSUME NEW T, T \subseteq Nat, T # {}
    PROVE  \E x \in T : \A y \in T : x <= y
<1> DEFINE R == OpToRel(<, Nat)
<1>1. IsWellFoundedOn(R, Nat)
  BY NatLessThanWellFounded
<1>2. \E x \in T : \A y \in T : ~ (<<y, x>> \in R)
  <2> HIDE DEF R
  <2> QED
    BY <1>1, WFMin
<1>3. PICK x \in T : \A y \in T : ~ (<<y, x>> \in R)
  BY <1>2
<1>4. \A y \in T : ~ (y < x)
  BY <1>3 DEF OpToRel
<1> QED
  BY <1>4

\* Induction up to n, of a set in place of a predicate.
LEMMA Induction ==
    ASSUME NEW n \in Nat, NEW T, 0 \in T, \A i \in 1 .. n : i - 1 \in T => i \in T
    PROVE  0 .. n \subseteq T
<1> DEFINE Out == (0 .. n) \ T
<1>1. Out \subseteq Nat
  OBVIOUS
<1>2. Out = {}
  <2> SUFFICES ASSUME Out # {} PROVE FALSE
    OBVIOUS
  <2>1. PICK k \in Out : \A j \in Out : k <= j
    <3> HIDE DEF Out
    <3> QED BY <1>1, Least
  <2>2. k \in 1 .. n /\ k - 1 \in 0 .. n
    OBVIOUS
  <2>3. k - 1 \in T
    BY <2>1, <2>2
  <2> QED BY <2>2, <2>3
<1> QED BY <1>2

\* f is the function on 0 .. n that starts at a and goes on by step.
Recurs(f, n, X, a, step) ==
    /\ f \in [0 .. n -> X] /\ f[0] = a
    /\ \A i \in 1 .. n : f[i] = step[i][f[i - 1]]

\* A recursive function on 0 .. n exists where the step stays within a set.
LEMMA Recursion ==
    ASSUME NEW n \in Nat, NEW X, NEW a \in X, NEW step \in [1 .. n -> [X -> X]]
    PROVE  \E f : Recurs(f, n, X, a, step)
<1> DEFINE Computes(f, k) == Recurs(f, k, X, a, step)
           T == {k \in 0 .. n : \E f : Computes(f, k)}
<1>1. 0 \in T
  <2> DEFINE h == [i \in 0 .. 0 |-> a]
  <2>1. Computes(h, 0)
    BY DEF Recurs
  <2> HIDE DEF h, Computes
  <2> QED BY <2>1
<1>2. ASSUME NEW k \in 1 .. n, k - 1 \in T PROVE k \in T
  <2>1. PICK f : Computes(f, k - 1)
    BY <1>2
  <2> DEFINE g == [i \in 0 .. k |-> IF i = k THEN step[k][f[k - 1]] ELSE f[i]]
  <2>2. step[k][f[k - 1]] \in X
    BY <2>1 DEF Recurs
  <2>3. g \in [0 .. k -> X] /\ g[0] = a
    BY <2>1, <2>2 DEF Recurs
  <2>4. ASSUME NEW i \in 1 .. k PROVE g[i] = step[i][g[i - 1]]
    <3>1. k \in Nat /\ i - 1 \in 0 .. k /\ i \in 0 .. k /\ i - 1 # k
      OBVIOUS
    <3>2. g[i - 1] = f[i - 1]
      BY <3>1
    <3>3. g[i] = IF i = k THEN step[k][f[k - 1]] ELSE f[i]
      BY <3>1
    <3>4. CASE i = k
      BY <3>2, <3>3, <3>4
    <3>5. CASE i # k
      <4>1. i \in 1 .. k - 1
        BY <3>1, <3>5
      <4> QED BY <2>1, <3>2, <3>3, <3>5, <4>1 DEF Recurs
    <3> QED BY <3>4, <3>5
  <2>5. Computes(g, k)
    BY <2>3, <2>4 DEF Recurs
  <2> HIDE DEF g, Computes
  <2> QED BY <2>5
<1>3. 0 .. n \subseteq T
  <2> HIDE DEF T
  <2> QED BY <1>1, <1>2, Induction
<1> QED BY <1>3

---------------------------------------------------------------------------
(* A frame leaves at a legal rate, whatever statistics, signals, probes and timers
   move PortCfg.TxRate *)

\* TxRate may leave the rates of the BSS, below only: then RTMPHardTransmit raises it.
WithinOrBelow == txRate <= MaxTxRate \/ txRate <= MinTxRate

RateInv == net \in Networks /\ txRate \in Rates /\ WithinOrBelow

\* The highest of a set of rates is one of them.
LEMMA HighestIsARate ==
    ASSUME NEW S, S \subseteq Rates, S # {}
    PROVE  Highest(S) \in S
<1> DEFINE T == {11 - s : s \in S}
<1>0. \A x \in S : x \in 0 .. 11
  BY DEF Rates
<1>1. T \subseteq Nat /\ T # {}
  BY <1>0
<1>2. PICK x \in T : \A y \in T : x <= y
  <2> HIDE DEF T
  <2> QED
    BY <1>1, Least
<1>3. PICK r \in S : x = 11 - r
  BY <1>2
<1>4. \A s \in S : s <= r
  <2> TAKE s \in S
  <2>1. x <= 11 - s
    BY <1>2
  <2> QED
    BY <2>1, <1>3 DEF Rates
<1> QED
  BY <1>4 DEF Highest

\* The tables map rates to rates; the way down leads down, or to the lowest OFDM rate.
LEMMA Neighbours ==
    ASSUME NEW r \in Rates
    PROVE  /\ Phy11BGNextRateUpward[r] \in Rates /\ Phy11ANextRateUpward[r] \in Rates
           /\ Phy11BGNextRateDownward[r] \in Rates /\ Phy11BGNextRateDownward[r] <= r
           /\ Phy11ANextRateDownward[r] \in Rates
           /\ Phy11ANextRateDownward[r] <= r \/ Phy11ANextRateDownward[r] = 4
<1>1. r \in {0, 1, 2, 3, 4, 5, 6, 7, 8, 9, 10, 11}
  BY DEF Rates
<1>2. Phy11BGNextRateUpward[r] \in Rates /\ Phy11ANextRateUpward[r] \in Rates
  BY <1>1 DEF Phy11BGNextRateUpward, Phy11ANextRateUpward, Table, Rates
<1>3. Phy11BGNextRateDownward[r] \in Rates /\ Phy11BGNextRateDownward[r] <= r
  BY <1>1 DEF Phy11BGNextRateDownward, Table, Rates
<1>4. /\ Phy11ANextRateDownward[r] \in Rates
      /\ Phy11ANextRateDownward[r] <= r \/ Phy11ANextRateDownward[r] = 4
  BY <1>1 DEF Phy11ANextRateDownward, Table, Rates
<1> QED
  BY <1>2, <1>3, <1>4

\* The bounds of a network.
LEMMA Bounds ==
    ASSUME net \in Networks
    PROVE  /\ MaxTxRate \in Rates /\ MinTxRate \in Rates
           /\ net.ofdmOnly \in BOOLEAN
           /\ net.ofdmOnly => MinTxRate \in Ofdm
BY NetworkAssumption DEF NetworkAssumption, MaxTxRate, MinTxRate, AtMost, Rates, Ofdm

\* What is cut at MaxTxRate is a rate within.
LEMMA Cut ==
    ASSUME net \in Networks, NEW r \in Nat
    PROVE  AtMost(r, MaxTxRate) \in Rates /\ AtMost(r, MaxTxRate) <= MaxTxRate
BY Bounds DEF AtMost, Rates

\* The rate for a signal.
LEMMA RssiGivesARate ==
    ASSUME NEW dbm \in Dbms
    PROVE  RateForRssi(dbm) \in Rates
<1> DEFINE steps == {<<-65, 11>>, <<-66, 10>>, <<-70, 9>>, <<-74, 8>>, <<-77, 7>>, <<-79, 6>>}
           cck == {<<-82, 3>>, <<-84, 2>>, <<-85, 1>>}
           reached == {s[2] : s \in {s \in steps : dbm >= s[1]}}
           slow == {s[2] : s \in {s \in cck : dbm >= s[1]}} \cup {0}
<1>1. reached \subseteq Rates
  BY DEF Rates
<1>2. slow \subseteq Rates /\ slow # {}
  BY DEF Rates
<1>3. reached # {} => Highest(reached) \in Rates
  <2> HIDE DEF reached
  <2> QED
    BY <1>1, HighestIsARate
<1>4. Highest(slow) \in Rates
  <2> HIDE DEF slow
  <2> QED
    BY <1>2, HighestIsARate
<1>5. RateForRssi(dbm) = IF reached # {} THEN Highest(reached)
                         ELSE IF dbm >= -81 THEN IF net.ofdmOnly THEN 5 ELSE Rate11
                         ELSE IF net.ofdmOnly THEN 4 ELSE Highest(slow)
  BY DEF RateForRssi
<1> HIDE DEF reached, slow
<1>6. 5 \in Rates /\ 4 \in Rates /\ Rate11 \in Rates
  BY DEF Rates, Rate11
<1> QED
  BY <1>3, <1>4, <1>5, <1>6

\* The rate the driver jumps to when it leaves a noisy environment.
LEMMA JumpGivesARate ==
    ASSUME net \in Networks, NEW dbm \in Dbms
    PROVE  JumpUpRate(dbm) \in Rates /\ JumpUpRate(dbm) <= MaxTxRate
<1> DEFINE S == {0} \cup {r \in 1 .. 11 : dbm > RssiSafeLevelForTxRate[r]}
<1>1. S \subseteq Rates /\ S # {}
  BY DEF Rates
<1>2. JumpUpRate(dbm) = AtMost(Highest(S), MaxTxRate)
  BY DEF JumpUpRate
<1> HIDE DEF S
<1>3. Highest(S) \in Rates
  BY <1>1, HighestIsARate
<1>4. Highest(S) \in Nat
  BY <1>3 DEF Rates
<1> QED
  BY <1>2, <1>4, Cut

\* The step down with the guarantee for each segment of the signal.
LEMMA StepDownGivesARate ==
    ASSUME NEW dbm \in Dbms, NEW down \in Rates
    PROVE  StepDown(dbm, down) \in Rates
<1> DEFINE segments == {<<-45, 10>>, <<-50, 9>>, <<-55, 8>>, <<-60, 7>>, <<-65, 6>>, <<-70, 5>>,
                        <<-75, 3>>}
           open == {s \in segments : dbm >= s[1] /\ down < s[2]}
           best == CHOOSE s \in open : \A o \in open : o[1] <= s[1]
           T == {0 - s[1] : s \in open}
<1>1. open \subseteq segments
  OBVIOUS
<1>2. \A s \in segments : s[1] \in Int /\ 0 - s[1] \in Nat /\ s[2] \in Rates
  BY DEF Rates
<1>3. StepDown(dbm, down) = IF open = {} THEN down
                            ELSE IF best[2] = 5 /\ ~net.ofdmOnly THEN Rate11 ELSE best[2]
  BY DEF StepDown
<1> HIDE DEF open, segments
<1>4. open # {} => best \in open
  <2> SUFFICES ASSUME open # {} PROVE best \in open
    OBVIOUS
  <2>1. T \subseteq Nat /\ T # {}
    BY <1>1, <1>2
  <2>2. PICK x \in T : \A y \in T : x <= y
    <3> HIDE DEF T
    <3> QED
      BY <2>1, Least
  <2>3. PICK s \in open : x = 0 - s[1]
    BY <2>2
  <2>4. \A o \in open : o[1] <= s[1]
    <3> TAKE o \in open
    <3>1. x <= 0 - o[1]
      BY <2>2
    <3>2. s[1] \in Int /\ o[1] \in Int
      BY <1>1, <1>2
    <3> QED
      BY <3>1, <3>2, <2>3
  <2> QED
    BY <2>4
<1>5. open # {} => best[2] \in Rates
  <2> HIDE DEF best
  <2> QED
    BY <1>1, <1>2, <1>4
<1>6. Rate11 \in Rates
  BY DEF Rates, Rate11
<1> HIDE DEF best
<1> QED
  BY <1>3, <1>5, <1>6

\* The rates the periodic task moves to are cut at MaxTxRate, or it does not move.
LEMMA PeriodicMoves ==
    ASSUME RateInv, NEW many \in BOOLEAN, NEW sample \in Pers, NEW dbm \in Dbms,
           MlmeDynamicTxRateSwitching(many, sample, dbm)
    PROVE  net' = net /\ \/ txRate' = txRate
                         \/ txRate' \in Rates /\ txRate' <= MaxTxRate
<1> DEFINE up == NextUp(txRate)
           down == NextDown(txRate)
<1>1. up \in Rates /\ up <= MaxTxRate
  <2>1. Phy11BGNextRateUpward[txRate] \in Nat /\ Phy11ANextRateUpward[txRate] \in Nat
    BY Neighbours DEF RateInv, Rates
  <2> QED
    BY <2>1, Cut DEF RateInv, NextUp
<1>2. down \in Rates
  BY Neighbours DEF RateInv, NextDown
<1>3. OneMoreUp(up) \in Rates /\ OneMoreUp(up) <= MaxTxRate
  <2>1. up + 1 \in Nat /\ 6 \in Nat
    BY <1>1 DEF Rates
  <2> HIDE DEF up
  <2> QED
    BY <2>1, Cut DEF RateInv, OneMoreUp
<1>4. JumpUpRate(dbm) \in Rates /\ JumpUpRate(dbm) <= MaxTxRate
  BY JumpGivesARate DEF RateInv
<1>5. /\ AtMost(StepDown(dbm, down), MaxTxRate) \in Rates
      /\ AtMost(StepDown(dbm, down), MaxTxRate) <= MaxTxRate
  <2> HIDE DEF down
  <2>1. StepDown(dbm, down) \in Nat
    BY <1>2, StepDownGivesARate DEF Rates
  <2> QED
    BY <2>1, Cut DEF RateInv
<1>6. /\ AtMost(RateForRssi(dbm), MaxTxRate) \in Rates
      /\ AtMost(RateForRssi(dbm), MaxTxRate) <= MaxTxRate
  <2>1. RateForRssi(dbm) \in Nat
    BY RssiGivesARate DEF Rates
  <2> QED
    BY <2>1, Cut DEF RateInv
<1>7. net' = net /\ txRate' \in {txRate, up, OneMoreUp(up), JumpUpRate(dbm),
                                 AtMost(StepDown(dbm, down), MaxTxRate),
                                 AtMost(RateForRssi(dbm), MaxTxRate)}
  BY DEF MlmeDynamicTxRateSwitching
<1> HIDE DEF up, down
<1> QED
  BY <1>1, <1>3, <1>4, <1>5, <1>6, <1>7

\* A move within the rates keeps the invariant.
LEMMA MoveWithin ==
    ASSUME RateInv, net' = net, txRate' \in Rates, txRate' <= MaxTxRate
    PROVE  RateInv'
BY DEF RateInv, WithinOrBelow, MaxTxRate

\* The rate MlmeUpdateTxRates starts with.
LEMMA StartWithin ==
    ASSUME net \in Networks, NEW linkUp \in BOOLEAN, NEW dbm \in Dbms
    PROVE  StartRate(linkUp, dbm) \in Rates /\ StartRate(linkUp, dbm) <= MaxTxRate
<1>1. MaxTxRate \in Rates /\ MaxTxRate \in Nat /\ Rate11 \in Nat /\ Rate24 \in Nat
  BY Bounds DEF Rates, Rate11, Rate24
<1>2. MaxTxRate <= MaxTxRate
  BY <1>1
<1> DEFINE top == IF linkUp /\ MaxTxRate >= Rate24 THEN Rate24 ELSE MaxTxRate
           first == IF dbm < -75 THEN Rate11 ELSE IF dbm < -70 THEN Rate24 ELSE top
<1>3. first \in Nat
  BY <1>1
<1>4. StartRate(linkUp, dbm) = IF ~Switching THEN MaxTxRate ELSE AtMost(first, MaxTxRate)
  BY DEF StartRate
<1> HIDE DEF first
<1> QED
  BY <1>1, <1>2, <1>3, <1>4, Cut

\* The quick-response timer goes down, or on 5 GHz from a CCK rate to the lowest OFDM one.
LEMMA TimerStaysWithinOrBelow ==
    ASSUME RateInv, StaQuickResponeForRateUpExec
    PROVE  RateInv'
<1>1. net' = net /\ txRate' \in {txRate, NextDown(txRate)}
  BY DEF StaQuickResponeForRateUpExec
<1>2. NextDown(txRate) \in Rates
  BY Neighbours DEF RateInv, NextDown
<1>3. NextDown(txRate) <= txRate \/ NextDown(txRate) <= MinTxRate
  <2>1. CASE net.ofdmOnly
    <3>1. MinTxRate \in Ofdm
      BY <2>1, Bounds DEF RateInv
    <3>2. Phy11ANextRateDownward[txRate] <= txRate \/ Phy11ANextRateDownward[txRate] = 4
      BY Neighbours DEF RateInv
    <3> QED
      BY <2>1, <3>1, <3>2 DEF NextDown, Ofdm
  <2>2. CASE ~net.ofdmOnly
    BY <2>2, Neighbours DEF NextDown, RateInv
  <2> QED
    BY <2>1, <2>2
<1>4. MaxTxRate \in Rates /\ MinTxRate \in Rates /\ MaxTxRate' = MaxTxRate /\ MinTxRate' = MinTxRate
  BY <1>1, Bounds DEF RateInv, MaxTxRate, MinTxRate
<1> QED
  BY <1>1, <1>2, <1>3, <1>4 DEF RateInv, WithinOrBelow, Rates

\* Every step keeps TxRate within the rates of the BSS or below them.
LEMMA RateStep == RateInv /\ [RateNext]_rateVars => RateInv'
<1> SUFFICES ASSUME RateInv, [RateNext]_rateVars PROVE RateInv'
  OBVIOUS
<1>1. CASE UNCHANGED <<net, txRate>>
  BY <1>1 DEF RateInv, WithinOrBelow, MaxTxRate, MinTxRate
<1>2. CASE Periodic
  <2>1. PICK many \in BOOLEAN, sample \in Pers, dbm \in Dbms :
               MlmeDynamicTxRateSwitching(many, sample, dbm)
    BY <1>2 DEF Periodic
  <2>2. net' = net /\ (txRate' = txRate \/ (txRate' \in Rates /\ txRate' <= MaxTxRate))
    BY <2>1, PeriodicMoves
  <2> QED
    BY <2>2, <1>1, MoveWithin
<1>3. CASE StaQuickResponeForRateUpExec
  BY <1>3, TimerStaysWithinOrBelow
<1>4. CASE MlmeUpdateTxRates
  <2>1. PICK linkUp \in BOOLEAN, dbm \in Dbms :
               txRate' = StartRate(linkUp, dbm) /\ net' = net
    BY <1>4 DEF MlmeUpdateTxRates
  <2>2. StartRate(linkUp, dbm) \in Rates /\ StartRate(linkUp, dbm) <= MaxTxRate
    BY StartWithin DEF RateInv
  <2> QED
    BY <2>1, <2>2, MoveWithin
<1>5. CASE QuickResponseIdle \/ BecomeClean \/ UNCHANGED rateVars
  BY <1>5, <1>1 DEF QuickResponseIdle, BecomeClean, rateVars
<1>6. ASSUME NEW owes \in {0, 2, WorstBound}, TxDone(owes) PROVE RateInv'
  BY <1>6, <1>1 DEF TxDone
<1> QED
  BY <1>2, <1>3, <1>4, <1>5, <1>6 DEF RateNext

\* The rates that are tried with NULL frames.
ProbesLegal == \A rate \in probes : rate \in Ofdm /\ rate <= MaxTxRate

\* A probe is an OFDM rate, cut at MaxTxRate.
LEMMA ProbesStep == RateInv /\ ProbesLegal /\ [RateNext]_rateVars => ProbesLegal'
<1> SUFFICES ASSUME RateInv, ProbesLegal, [RateNext]_rateVars PROVE ProbesLegal'
  OBVIOUS
<1>1. ASSUME net' = net, probes' \subseteq probes PROVE ProbesLegal'
  BY <1>1 DEF ProbesLegal, MaxTxRate
<1>2. CASE Periodic
  <2>1. PICK many \in BOOLEAN, sample \in Pers, dbm \in Dbms :
               MlmeDynamicTxRateSwitching(many, sample, dbm)
    BY <1>2 DEF Periodic
  <2> DEFINE up == NextUp(txRate)
  <2>2. net' = net /\ (probes' = probes \/ (probes' = probes \cup {up} /\ up > Rate11))
    BY <2>1 DEF MlmeDynamicTxRateSwitching
  <2>3. up \in Rates /\ up <= MaxTxRate
    <3>1. Phy11BGNextRateUpward[txRate] \in Nat /\ Phy11ANextRateUpward[txRate] \in Nat
      BY Neighbours DEF RateInv, Rates
    <3> QED
      BY <3>1, Cut DEF RateInv, NextUp
  <2> HIDE DEF up
  <2>4. up > Rate11 => up \in Ofdm
    BY <2>3 DEF Rates, Rate11, Ofdm
  <2> QED
    BY <2>2, <2>3, <2>4, <1>1 DEF ProbesLegal, MaxTxRate
<1>3. CASE StaQuickResponeForRateUpExec
  BY <1>3, <1>1 DEF StaQuickResponeForRateUpExec
<1>4. CASE MlmeUpdateTxRates
  BY <1>4, <1>1 DEF MlmeUpdateTxRates
<1>5. CASE QuickResponseIdle \/ BecomeClean \/ UNCHANGED rateVars
  BY <1>5, <1>1 DEF QuickResponseIdle, BecomeClean, rateVars
<1>6. ASSUME NEW owes \in {0, 2, WorstBound}, TxDone(owes) PROVE ProbesLegal'
  <2>1. net' = net /\ probes' \subseteq probes
    BY <1>6 DEF TxDone
  <2> QED
    BY <2>1, <1>1
<1> QED
  BY <1>2, <1>3, <1>4, <1>5, <1>6 DEF RateNext

\* Whatever moves PortCfg.TxRate, a data frame leaves at a rate of the band, at most at the
\* best common rate or the lowest of the BSS (the clamp of RTMPHardTransmit, rtmp_data.c:3038),
\* and a NULL frame that tries a rate at an OFDM rate of the BSS.
THEOREM OnAirAlways == RateSpec => []RateOnAirLegal
<1>1. RateInit => RateInv
  <2> SUFFICES ASSUME RateInit PROVE RateInv
    OBVIOUS
  <2>1. net \in Networks
    BY DEF RateInit
  <2>2. PICK dbm \in Dbms : txRate = StartRate(TRUE, dbm)
    BY DEF RateInit
  <2>3. StartRate(TRUE, dbm) \in Rates /\ StartRate(TRUE, dbm) <= MaxTxRate
    BY <2>1, StartWithin
  <2> QED
    BY <2>1, <2>2, <2>3 DEF RateInv, WithinOrBelow
<1>2. RateInv /\ ProbesLegal => RateOnAirLegal
  <2> SUFFICES ASSUME RateInv, ProbesLegal PROVE RateOnAirLegal
    OBVIOUS
  <2>1. /\ MaxTxRate \in Rates /\ MinTxRate \in Rates /\ txRate \in Rates
        /\ net.ofdmOnly => MinTxRate \in Ofdm
    BY Bounds DEF RateInv
  <2>2. RateOnAir(FALSE) <= MaxTxRate \/ RateOnAir(FALSE) = MinTxRate
    BY <2>1 DEF RateInv, WithinOrBelow, RateOnAir, Rates
  <2>3. net.ofdmOnly => RateOnAir(FALSE) \in Ofdm
    BY <2>1 DEF RateOnAir, Rates, Ofdm
  <2>4. RateOnAir(TRUE) = MinTxRate
    BY <2>1 DEF RateOnAir, Rates, Ofdm, Rate6
  <2> QED
    BY <2>1, <2>2, <2>3, <2>4 DEF RateOnAirLegal, ProbesLegal
<1>3. RateInit => ProbesLegal
  BY DEF RateInit, ProbesLegal
<1> QED
  BY <1>1, <1>2, <1>3, RateStep, ProbesStep, PTL DEF RateSpec

---------------------------------------------------------------------------
(* The BSSIDs of IBSSs *)

Bssids == {Own[s] : s \in Station}

\* Every BSSID in use, or on the air, is one with which a station started.
InUse ==
    /\ bssid \in [Station -> Bssids]
    /\ heard \in [Station -> SUBSET Bssids]

\* Whatever beacons are lost or delayed, no station ever adopts a BSSID that nobody
\* started with: PeerBeacon copies only the BSSID of the beacon (sync.c:1108).
THEOREM InUseAlways == Spec => []InUse
<1>1. Init => InUse
  BY IbssAssumption DEF Init, InUse, Bssids
<1>2. InUse /\ [Next]_vars => InUse'
  <2> SUFFICES ASSUME InUse, [Next]_vars PROVE InUse'
    OBVIOUS
  <2>1. ASSUME NEW s \in Station, NEW r \in Station, Hear(s, r) PROVE InUse'
    BY <2>1 DEF InUse, Hear
  <2>2. ASSUME NEW r \in Station, NEW o \in Station, PeerIbssBeacon(r, Own[o])
        PROVE InUse'
    BY <2>2 DEF InUse, PeerIbssBeacon, Bssids
  <2>3. CASE UNCHANGED vars
    BY <2>3 DEF InUse, vars
  <2> QED
    BY <2>1, <2>2, <2>3 DEF Next
<1> QED
  BY <1>1, <1>2, PTL DEF Spec

---------------------------------------------------------------------------
(* The tables of BSSs *)

Slots == 0 .. TableLen - 1
Overlaps == 0 .. OverlapSize - 1

\* What an entry holds comes from the air.
KnownBssids == {b.bssid : b \in Beacons} \cup {NoBssid}
ShownSsids == {b.ssid : b \in Beacons} \cup {NoSsid}
FitsOf == {b.fits : b \in Beacons} \cup {FALSE}

Entries == [bssid : KnownBssids, chan : Nat, ssid : ShownSsids, hidden : BOOLEAN, fits : FitsOf,
            rssi : Nat]

IsTable(t) == t \in [entry : [Slots -> Entries], nr : 0 .. TableLen, overlap : Overlaps]

\* The same BSS: the tables tell BSSIDs of the two bands apart.
SameBss(e, f) == e.bssid = f.bssid /\ Band(e.chan) = Band(f.chan)

\* A BSS, but for those in rest, has one entry for each SSID; while one of them is not known,
\* it has that one only.
Distinct(t, rest) ==
    \A i, j \in Used(t) :
        t.entry[i].bssid \notin rest /\ i # j /\ SameBss(t.entry[i], t.entry[j]) =>
            /\ t.entry[i].ssid # t.entry[j].ssid
            /\ t.entry[i].ssid # NoSsid

Announced(e) == ~e.hidden => \E b \in Beacons : b.bssid = e.bssid /\ b.ssid = e.ssid

AllAnnounced(t) == \A i \in Used(t) : Announced(t.entry[i])

LEMMA UsedSlots == ASSUME NEW t, IsTable(t) PROVE Used(t) \subseteq Slots /\ Used(t) \subseteq Nat
BY TableAssumption DEF IsTable, Used, Slots

LEMMA BeforeUsed ==
    ASSUME NEW t, IsTable(t), NEW x \in Used(t), NEW j \in 0 .. x - 1
    PROVE  j \in Used(t) /\ ~(x <= j)
BY TableAssumption DEF IsTable, Used

LEMMA EmptyIsTable == /\ IsTable(EmptyTable) /\ Used(EmptyTable) = {} /\ EmptyTable.nr = 0
                      /\ NoEntry \in Entries
<1>1. NoEntry \in Entries
  <2> DEFINE no == FALSE
  <2>1. NoBssid \in KnownBssids /\ NoSsid \in ShownSsids /\ no \in FitsOf /\ no \in BOOLEAN
    BY DEF KnownBssids, ShownSsids, FitsOf
  <2>2. NoEntry = [bssid |-> NoBssid, chan |-> 0, ssid |-> NoSsid, hidden |-> no, fits |-> no,
                   rssi |-> 0]
    BY DEF NoEntry
  <2> HIDE DEF no
  <2> QED BY <2>1, <2>2 DEF Entries
<1>2. EmptyTable = [entry |-> [i \in Slots |-> NoEntry], nr |-> 0, overlap |-> 0]
  BY DEF EmptyTable, Slots
<1> QED BY <1>1, <1>2, TableAssumption DEF IsTable, Used, Overlaps

\* The searches find the first entry that matches.
Hits(e, b) == /\ SameBss(e, b)
              /\ e.ssid = b.ssid \/ b.ssid = NoSsid \/ e.ssid = NoSsid

LEMMA SearchWithSSID ==
    ASSUME NEW t, IsTable(t), NEW b,
           NEW i, i = BssTableSearchWithSSID(t, b.bssid, b.ssid, b.chan)
    PROVE  \/ i = NotFound /\ \A j \in Used(t) : ~Hits(t.entry[j], b)
           \/ i # NotFound /\ i \in Used(t) /\ Hits(t.entry[i], b)
<1> DEFINE T == {j \in Used(t) : Hits(t.entry[j], b)}
<1>1. CASE T = {}
  <2>1. i = NotFound
    BY <1>1 DEF BssTableSearchWithSSID, FirstEntry, Hits, SameBss
  <2> QED BY <1>1, <2>1
<1>2. CASE T # {}
  <2>1. PICK x \in T : \A y \in T : x <= y
    BY <1>2, UsedSlots, Least
  <2>2. x \in Used(t) /\ \A j \in 0 .. x - 1 : ~Hits(t.entry[j], b)
    BY <2>1, BeforeUsed
  <2>3. i \in Used(t) /\ Hits(t.entry[i], b)
    BY <2>1, <2>2 DEF BssTableSearchWithSSID, FirstEntry, Hits, SameBss
  <2>4. i # NotFound
    BY <2>3, UsedSlots, TableAssumption DEF NotFound, Slots
  <2> QED BY <2>3, <2>4
<1> QED BY <1>1, <1>2

\* BssEntrySet and its two ways into a table.
LEMMA EntrySet ==
    ASSUME NEW e \in Entries, NEW b \in Beacons, NEW rssi \in Nat,
           NEW f, f = BssEntrySet(e, b, rssi)
    PROVE  /\ f \in Entries /\ f.bssid = b.bssid /\ f.chan = b.chan
           /\ f.hidden <=> b.ssid = NoSsid
           /\ f.ssid = IF b.ssid = NoSsid THEN e.ssid ELSE b.ssid
<1> DEFINE hidden == b.ssid = NoSsid
           ssid == IF b.ssid = NoSsid THEN e.ssid ELSE b.ssid
<1>1. f = [bssid |-> b.bssid, chan |-> b.chan, hidden |-> hidden, ssid |-> ssid,
           fits |-> b.fits, rssi |-> rssi]
  BY DEF BssEntrySet
<1>2. b.bssid \in KnownBssids /\ b.fits \in FitsOf /\ b.ssid \in ShownSsids /\ b.chan \in Nat
  BY BeaconAssumption DEF KnownBssids, FitsOf, ShownSsids
<1>3. hidden \in BOOLEAN /\ ssid \in ShownSsids
  BY <1>2 DEF Entries
<1> HIDE DEF hidden, ssid
<1>4. f \in Entries /\ f.bssid = b.bssid /\ f.chan = b.chan /\ f.hidden = hidden /\ f.ssid = ssid
  BY <1>1, <1>2, <1>3 DEF Entries
<1> QED BY <1>4 DEF hidden, ssid

\* What a beacon does to a table: nothing, or it renews the entry that matches it, takes the
\* next one, or, the table being full, the one at BssOverlapNr.
Renewed(u, t, b, i) == /\ i \in Used(t) /\ Hits(t.entry[i], b) /\ u.nr = t.nr
Added(u, t, b, i) == /\ i = t.nr /\ u.nr = t.nr + 1
                     /\ \A j \in Used(t) : ~Hits(t.entry[j], b)
Replaced(u, t, b, i) == /\ i \in Used(t) /\ u.nr = t.nr /\ MayReplace(b)
                        /\ \A j \in Used(t) : ~Hits(t.entry[j], b)

LEMMA SetEntry ==
    ASSUME NEW t, IsTable(t), NEW b \in Beacons, NEW rssi \in Nat, NEW next \in Overlaps,
           NEW u, u = BssTableSetEntry(t, b, rssi, next).tab
    PROVE  /\ IsTable(u)
           /\ \/ u.entry = t.entry /\ u.nr = t.nr
              \/ \E i \in Used(u) :
                    /\ \A k \in Slots : u.entry[k] = IF k = i THEN BssEntrySet(t.entry[i], b, rssi)
                                                     ELSE t.entry[k]
                    /\ Renewed(u, t, b, i) \/ Added(u, t, b, i) \/ Replaced(u, t, b, i)
<1> DEFINE i == BssTableSearchWithSSID(t, b.bssid, b.ssid, b.chan)
           e(k) == BssEntrySet(t.entry[k], b, rssi)
<1>1. /\ t.nr \in 0 .. TableLen /\ t.nr \in Nat /\ TableLen \in Nat /\ TableLen > 0
      /\ t.overlap \in Nat
  BY TableAssumption DEF IsTable, Overlaps
<1>2. \/ i = NotFound /\ \A j \in Used(t) : ~Hits(t.entry[j], b)
      \/ i # NotFound /\ i \in Used(t) /\ Hits(t.entry[i], b)
  BY SearchWithSSID
<1>3. \A k \in Slots : e(k) \in Entries
  BY EntrySet DEF IsTable
<1>4. \A k \in Slots : PutEntry(t, k, b, rssi) = [t EXCEPT !.entry[k] = e(k), !.nr = t.nr]
  <2> SUFFICES ASSUME NEW k \in Slots
               PROVE  PutEntry(t, k, b, rssi) = [t EXCEPT !.entry[k] = e(k), !.nr = t.nr]
    OBVIOUS
  <2>1. PutEntry(t, k, b, rssi) = [t EXCEPT !.entry[k] = e(k)]
    BY DEF PutEntry, IsTable
  <2> HIDE DEF e
  <2> QED BY <2>1, <1>3 DEF IsTable
<1> HIDE DEF i, e
<1>5. CASE i # NotFound
  <2>1. u = PutEntry(t, i, b, rssi) /\ i \in Used(t) /\ i \in Slots /\ Hits(t.entry[i], b)
    BY <1>2, <1>5, UsedSlots DEF BssTableSetEntry, i
  <2> DEFINE x == e(i)  n == t.nr
  <2>2. u = [t EXCEPT !.entry[i] = x, !.nr = n] /\ x \in Entries /\ n \in 0 .. TableLen
    BY <1>1, <1>3, <1>4, <2>1
  <2> HIDE DEF x, n
  <2>3. /\ IsTable(u) /\ u.nr = n
        /\ \A k \in Slots : u.entry[k] = IF k = i THEN x ELSE t.entry[k]
    BY <2>1, <2>2 DEF IsTable
  <2>4. i \in Used(u) /\ Renewed(u, t, b, i)
    BY <2>1, <2>3 DEF Used, Renewed, n
  <2> QED BY <2>3, <2>4 DEF e, x
<1>6. CASE i = NotFound /\ t.nr < TableLen
  <2> DEFINE n == t.nr
             v == PutEntry(t, n, b, rssi)
  <2>1. u = [v EXCEPT !.nr = n + 1]
    <3>1. u = AddEntry(t, b, rssi)
      BY <1>1, <1>6 DEF BssTableSetEntry, i
    <3> QED BY <3>1 DEF AddEntry
  <2>2. n \in Slots /\ n + 1 \in 0 .. TableLen /\ e(n) \in Entries /\ n \in 0 .. TableLen
    BY <1>1, <1>3, <1>6 DEF Slots
  <2> DEFINE x == e(n)
  <2>3. v = [t EXCEPT !.entry[n] = x, !.nr = n] /\ x \in Entries
    BY <1>4, <2>2
  <2> HIDE DEF v, x, n
  <2>4. /\ IsTable(v) /\ v.nr = n
        /\ \A k \in Slots : v.entry[k] = IF k = n THEN x ELSE t.entry[k]
    BY <2>2, <2>3 DEF IsTable
  <2>5. IsTable(u) /\ u.nr = n + 1 /\ u.entry = v.entry
    BY <2>1, <2>2, <2>4 DEF IsTable
  <2>6. n \in Used(u) /\ Added(u, t, b, n)
    BY <1>1, <1>2, <1>6, <2>5 DEF Used, Added, n
  <2> QED BY <2>4, <2>5, <2>6 DEF e, x
<1>7. CASE i = NotFound /\ t.nr = TableLen /\ MayReplace(b)
  <2> DEFINE z == t.overlap
             v == Overwrite(t, b, rssi)
  <2>1. u = [v EXCEPT !.overlap = next]
    BY <1>1, <1>7 DEF BssTableSetEntry, i
  <2>2. CASE z < TableLen
    <3>1. v = PutEntry(t, z, b, rssi)
      BY <2>2 DEF Overwrite
    <3>2. z \in Slots /\ z \in Used(t)
      BY <1>1, <1>7, <2>2 DEF Slots, Used
    <3> DEFINE x == e(z)  n == t.nr
    <3>3. v = [t EXCEPT !.entry[z] = x, !.nr = n] /\ x \in Entries /\ n \in 0 .. TableLen
      BY <1>1, <1>3, <1>4, <3>1, <3>2
    <3> HIDE DEF v, z, x, n
    <3>4. /\ IsTable(v) /\ v.nr = n
          /\ \A k \in Slots : v.entry[k] = IF k = z THEN x ELSE t.entry[k]
      BY <3>2, <3>3 DEF IsTable
    <3>5. IsTable(u) /\ u.nr = v.nr /\ u.entry = v.entry
      BY <2>1, <3>4 DEF IsTable
    <3>6. z \in Used(u) /\ Replaced(u, t, b, z)
      BY <1>2, <1>7, <3>2, <3>4, <3>5 DEF Used, Replaced, n
    <3> QED BY <3>4, <3>5, <3>6 DEF e, x
  <2>3. CASE ~(z < TableLen)
    <3>1. v = t
      BY <2>3 DEF Overwrite
    <3> HIDE DEF v
    <3>2. u = [t EXCEPT !.overlap = next]
      BY <2>1, <3>1
    <3>3. IsTable(u) /\ u.entry = t.entry /\ u.nr = t.nr
      BY <3>2 DEF IsTable
    <3> QED BY <3>3
  <2> QED BY <2>2, <2>3
<1>8. CASE i = NotFound /\ ~(t.nr < TableLen) /\ ~MayReplace(b)
  BY <1>1, <1>8 DEF BssTableSetEntry, i
<1> QED BY <1>1, <1>5, <1>6, <1>7, <1>8

LEMMA SetEntryDistinct ==
    ASSUME NEW t, IsTable(t), NEW rest, Distinct(t, rest), NEW b \in Beacons,
           NEW rssi \in Nat, NEW next \in Overlaps,
           NEW u, u = BssTableSetEntry(t, b, rssi, next).tab
    PROVE  Distinct(u, rest)
<1>1. IsTable(u) /\ Used(u) \subseteq Slots /\ Used(t) \subseteq Slots
  BY SetEntry, UsedSlots
<1>2. CASE u.entry = t.entry /\ u.nr = t.nr
  BY <1>2 DEF Distinct, Used
<1>3. ASSUME NEW i \in Used(u),
             \A k \in Slots : u.entry[k] = IF k = i THEN BssEntrySet(t.entry[i], b, rssi)
                                           ELSE t.entry[k],
             Renewed(u, t, b, i) \/ Added(u, t, b, i) \/ Replaced(u, t, b, i)
      PROVE  Distinct(u, rest)
  <2> DEFINE e == BssEntrySet(t.entry[i], b, rssi)
  <2>1. /\ SameBss(e, b) /\ e.ssid = IF b.ssid = NoSsid THEN t.entry[i].ssid ELSE b.ssid
        /\ u.entry[i] = e
    <3>1. t.entry[i] \in Entries
      BY <1>1 DEF IsTable
    <3>2. /\ e.bssid = b.bssid /\ e.chan = b.chan
          /\ e.ssid = IF b.ssid = NoSsid THEN t.entry[i].ssid ELSE b.ssid
      BY <3>1, EntrySet
    <3> QED BY <1>1, <1>3, <3>2 DEF SameBss
  <2>2. \A k \in Used(u) : k # i => k \in Used(t) /\ u.entry[k] = t.entry[k]
    <3>1. t.nr \in Nat
      BY TableAssumption DEF IsTable
    <3> QED BY <1>1, <1>3, <3>1 DEF Used, Renewed, Added, Replaced
  <2> HIDE DEF e
  <2>3. ASSUME NEW k \in Used(u), k # i, SameBss(u.entry[k], e), e.bssid \notin rest
        PROVE  u.entry[k].ssid # e.ssid /\ u.entry[k].ssid # NoSsid /\ e.ssid # NoSsid
    <3>1. k \in Used(t) /\ u.entry[k] = t.entry[k] /\ SameBss(t.entry[k], b)
      BY <2>1, <2>2, <2>3 DEF SameBss
    <3>2. CASE Renewed(u, t, b, i)
      <4>1. i \in Used(t) /\ Hits(t.entry[i], b) /\ SameBss(t.entry[k], t.entry[i])
        BY <3>1, <3>2 DEF Renewed, Hits, SameBss
      <4>2. /\ t.entry[k].ssid # t.entry[i].ssid /\ t.entry[k].ssid # NoSsid
            /\ t.entry[i].ssid # NoSsid
        BY <2>1, <2>3, <3>1, <4>1 DEF Distinct, SameBss
      <4> QED BY <2>1, <3>1, <4>1, <4>2 DEF Hits
    <3>3. CASE ~Renewed(u, t, b, i)
      <4>1. ~Hits(t.entry[k], b)
        BY <1>3, <3>1, <3>3 DEF Added, Replaced
      <4> QED BY <2>1, <3>1, <4>1 DEF Hits
    <3> QED BY <3>2, <3>3
  <2>4. \A k, j \in Used(u) :
        /\ k # i /\ j # i /\ k # j /\ u.entry[k].bssid \notin rest
        /\ SameBss(u.entry[k], u.entry[j])
        =>
            u.entry[k].ssid # u.entry[j].ssid /\ u.entry[k].ssid # NoSsid
    BY <2>2 DEF Distinct
  <2> QED BY <2>1, <2>3, <2>4 DEF Distinct, SameBss
<1> QED BY <1>2, <1>3, SetEntry

LEMMA SetEntryAnnounced ==
    ASSUME NEW t, IsTable(t), AllAnnounced(t), NEW b \in Beacons, NEW rssi \in Nat,
           NEW next \in Overlaps, NEW u, u = BssTableSetEntry(t, b, rssi, next).tab
    PROVE  AllAnnounced(u)
<1>1. IsTable(u) /\ Used(u) \subseteq Slots
  BY SetEntry, UsedSlots
<1>2. CASE u.entry = t.entry /\ u.nr = t.nr
  BY <1>2 DEF AllAnnounced, Used
<1>3. ASSUME NEW i \in Used(u),
             \A k \in Slots : u.entry[k] = IF k = i THEN BssEntrySet(t.entry[i], b, rssi)
                                           ELSE t.entry[k],
             Renewed(u, t, b, i) \/ Added(u, t, b, i) \/ Replaced(u, t, b, i)
      PROVE  AllAnnounced(u)
  <2>1. Announced(BssEntrySet(t.entry[i], b, rssi))
    <3> DEFINE e == BssEntrySet(t.entry[i], b, rssi)
    <3>1. t.entry[i] \in Entries
      BY <1>1 DEF IsTable
    <3>2. /\ e.bssid = b.bssid
          /\ e.hidden <=> b.ssid = NoSsid
          /\ e.ssid = IF b.ssid = NoSsid THEN t.entry[i].ssid ELSE b.ssid
      BY <3>1, EntrySet
    <3> HIDE DEF e
    <3>3. Announced(e)
      BY <3>2 DEF Announced
    <3> QED BY <3>3 DEF e
  <2>2. \A k \in Used(u) : k # i => k \in Used(t)
    <3>1. t.nr \in Nat
      BY TableAssumption DEF IsTable
    <3> QED BY <1>3, <3>1 DEF Used, Renewed, Added, Replaced
  <2> QED BY <1>1, <1>3, <2>1, <2>2 DEF AllAnnounced
<1> QED BY <1>2, <1>3, SetEntry

\* A table with some of the entries of another.
Part(u, t) ==
    \E s \in [Used(u) -> Used(t)] :
        /\ \A j, k \in Used(u) : s[j] = s[k] => j = k
        /\ \A k \in Used(u) : u.entry[k] = t.entry[s[k]]

LEMMA PartDistinct ==
    ASSUME NEW t, NEW u, Part(u, t)
    PROVE  /\ \A rest : Distinct(t, rest) => Distinct(u, rest)
           /\ AllAnnounced(t) => AllAnnounced(u)
<1>1. PICK s \in [Used(u) -> Used(t)] :
        /\ \A j, k \in Used(u) : s[j] = s[k] => j = k
        /\ \A k \in Used(u) : u.entry[k] = t.entry[s[k]]
  BY DEF Part
<1>2. \A k \in Used(u) : s[k] \in Used(t)
  OBVIOUS
<1> QED BY <1>1, <1>2 DEF Distinct, AllAnnounced

\* LinkDown takes an entry out.
Match(e, id, chan) == e.bssid = id /\ e.chan = chan

LEMMA DeleteIndex ==
    ASSUME NEW t, IsTable(t), NEW id, NEW chan,
           \E j \in Used(t) : Match(t.entry[j], id, chan)
    PROVE  \E i \in Used(t) : /\ Match(t.entry[i], id, chan)
                              /\ \A j \in 0 .. i - 1 : ~Match(t.entry[j], id, chan)
<1> DEFINE T == {j \in Used(t) : Match(t.entry[j], id, chan)}
<1>1. PICK x \in T : \A y \in T : x <= y
  BY UsedSlots, Least
<1>2. x \in Used(t) /\ \A j \in 0 .. x - 1 : ~Match(t.entry[j], id, chan)
  BY <1>1, BeforeUsed
<1> QED BY <1>1, <1>2

LEMMA Delete ==
    ASSUME NEW t, IsTable(t), NEW id, NEW chan, NEW u, u = BssTableDeleteEntry(t, id, chan)
    PROVE  IsTable(u) /\ Part(u, t)
<1> DEFINE i == CHOOSE i \in Used(t) : /\ Match(t.entry[i], id, chan)
                                       /\ \A j \in 0 .. i - 1 : ~Match(t.entry[j], id, chan)
<1>1. CASE \E j \in Used(t) : Match(t.entry[j], id, chan)
  <2>1. i \in Used(t) /\ i \in Slots /\ i # NotFound
    BY <1>1, DeleteIndex, UsedSlots, TableAssumption DEF NotFound, Slots
  <2>2. u = [t EXCEPT !.nr = @ - 1,
                !.entry = [k \in DOMAIN @ |-> IF k \in i .. t.nr - 2 THEN @[k + 1] ELSE @[k]]]
    BY <1>1, <2>1 DEF BssTableDeleteEntry, FirstEntry, Match
  <2> HIDE DEF i
  <2> DEFINE f == [k \in Slots |-> IF k \in i .. t.nr - 2 THEN t.entry[k + 1] ELSE t.entry[k]]
  <2>3. t.nr \in 1 .. TableLen /\ t.nr - 1 \in 0 .. TableLen /\ i \in 0 .. t.nr - 1
    BY <2>1, TableAssumption DEF IsTable, Used
  <2>4. f \in [Slots -> Entries]
    <3>1. \A k \in Slots : k \in i .. t.nr - 2 => k + 1 \in Slots
      BY <2>3, TableAssumption DEF Slots
    <3> QED BY <3>1 DEF IsTable
  <2>5. IsTable(u) /\ u.nr = t.nr - 1 /\ u.entry = f
    <3>1. DOMAIN t.entry = Slots
      BY DEF IsTable
    <3>2. u = [t EXCEPT !.nr = t.nr - 1, !.entry = f]
      BY <2>2, <3>1 DEF IsTable
    <3> HIDE DEF f
    <3> QED BY <2>3, <2>4, <3>2 DEF IsTable
  <2> DEFINE s == [k \in Used(u) |-> IF k < i THEN k ELSE k + 1]
  <2>6. \A k \in Used(u) : /\ k \in Slots /\ s[k] \in Used(t)
                           /\ f[k] = t.entry[s[k]]
    <3> SUFFICES ASSUME NEW k \in Used(u)
                 PROVE  k \in Slots /\ s[k] \in Used(t) /\ f[k] = t.entry[s[k]]
      OBVIOUS
    <3>1. k \in Slots /\ k \in 0 .. t.nr - 2 /\ k \in Nat
      BY <2>3, <2>5, TableAssumption DEF Used, Slots
    <3>2. CASE k < i
      <4>1. s[k] = k /\ k \notin i .. t.nr - 2
        BY <2>3, <3>1, <3>2
      <4> QED BY <2>3, <3>1, <4>1 DEF Used
    <3>3. CASE ~(k < i)
      <4>1. s[k] = k + 1 /\ k \in i .. t.nr - 2
        BY <2>3, <3>1, <3>3
      <4> QED BY <2>3, <3>1, <4>1 DEF Used
    <3> QED BY <3>2, <3>3
  <2>7. \A j, k \in Used(u) : s[j] = s[k] => j = k
    <3>1. Used(u) \subseteq Nat /\ i \in Nat
      BY <2>3, <2>5, UsedSlots
    <3> QED BY <3>1
  <2>8. s \in [Used(u) -> Used(t)] /\ \A k \in Used(u) : u.entry[k] = t.entry[s[k]]
    BY <2>5, <2>6
  <2> HIDE DEF s
  <2> QED BY <2>5, <2>7, <2>8 DEF Part
<1>2. CASE ~\E j \in Used(t) : Match(t.entry[j], id, chan)
  <2>1. u = t
    BY <1>2 DEF BssTableDeleteEntry, FirstEntry, Match
  <2> DEFINE s == [k \in Used(t) |-> k]
  <2>2. /\ s \in [Used(t) -> Used(t)] /\ \A j, k \in Used(t) : s[j] = s[k] => j = k
        /\ \A k \in Used(t) : t.entry[k] = t.entry[s[k]]
    OBVIOUS
  <2> HIDE DEF s
  <2> QED BY <2>1, <2>2 DEF Part
<1> QED BY <1>1, <1>2

\* A scan keeps the entry of the link.
LEMMA SearchSsid ==
    ASSUME NEW t, IsTable(t), NEW id, NEW ssid, NEW chan,
           NEW i, i = BssSsidTableSearch(t, id, ssid, chan)
    PROVE  LET Is(e) == e.bssid = id /\ Band(e.chan) = Band(chan) /\ e.ssid = ssid
           IN  \/ i = NotFound /\ \A j \in Used(t) : ~Is(t.entry[j])
               \/ i # NotFound /\ i \in Used(t) /\ Is(t.entry[i])
<1> DEFINE Is(e) == e.bssid = id /\ Band(e.chan) = Band(chan) /\ e.ssid = ssid
           T == {j \in Used(t) : Is(t.entry[j])}
<1>1. CASE T = {}
  BY <1>1 DEF BssSsidTableSearch, FirstEntry
<1>2. CASE T # {}
  <2>1. PICK x \in T : \A y \in T : x <= y
    BY <1>2, UsedSlots, Least
  <2>2. x \in Used(t) /\ \A j \in 0 .. x - 1 : ~Is(t.entry[j])
    BY <2>1, BeforeUsed
  <2>3. i \in Used(t) /\ Is(t.entry[i])
    BY <2>1, <2>2 DEF BssSsidTableSearch, FirstEntry
  <2>4. i # NotFound
    BY <2>3, UsedSlots, TableAssumption DEF NotFound, Slots
  <2> QED BY <2>3, <2>4
<1> QED BY <1>1, <1>2

Alone(e) == [EmptyTable EXCEPT !.entry[0] = e, !.nr = 1]

LEMMA One ==
    ASSUME NEW t, IsTable(t), NEW i \in Used(t), NEW u, u = Alone(t.entry[i])
    PROVE  IsTable(u) /\ Used(u) = {0} /\ u.entry[0] = t.entry[i] /\ Part(u, t)
<1> DEFINE e == t.entry[i]
<1>1. 0 \in Slots /\ 1 \in 0 .. TableLen /\ e \in Entries
  BY TableAssumption, UsedSlots DEF Slots, IsTable
<1>2. u = [EmptyTable EXCEPT !.entry[0] = e, !.nr = 1]
  BY DEF Alone
<1>3. IsTable(EmptyTable)
  BY EmptyIsTable
<1> HIDE DEF e
<1>4. IsTable(u) /\ u.nr = 1 /\ u.entry[0] = e
  <2> DEFINE z == 0  n == 1  base == EmptyTable
  <2>1. /\ base \in [entry : [Slots -> Entries], nr : 0 .. TableLen, overlap : Overlaps]
        /\ z \in Slots /\ n \in 0 .. TableLen /\ e \in Entries
        /\ u = [base EXCEPT !.entry[z] = e, !.nr = n]
    BY <1>1, <1>2, <1>3 DEF IsTable
  <2> HIDE DEF z, n, base
  <2>2. /\ u \in [entry : [Slots -> Entries], nr : 0 .. TableLen, overlap : Overlaps]
        /\ u.nr = n /\ u.entry[z] = e
    BY <2>1
  <2> QED BY <2>2 DEF IsTable, z, n
<1>5. Used(u) = {0}
  BY <1>4 DEF Used
<1> DEFINE s == [k \in {0} |-> i]
<1>6. /\ s \in [Used(u) -> Used(t)] /\ \A j, k \in Used(u) : s[j] = s[k] => j = k
      /\ \A k \in Used(u) : u.entry[k] = t.entry[s[k]]
  BY <1>4, <1>5 DEF e
<1> HIDE DEF s
<1> QED BY <1>4, <1>5, <1>6 DEF Part, e

LEMMA ScanKeeps ==
    ASSUME IsTable(scanTab), CntlOidScan PROVE IsTable(scanTab') /\ Part(scanTab', scanTab)
<1> DEFINE i == BssSsidTableSearch(scanTab, link.bssid, link.ssid, link.chan)
<1>1. CASE link.connected /\ i # NotFound
  <2>1. i \in Used(scanTab)
    BY <1>1, SearchSsid
  <2>2. scanTab' = Alone(scanTab.entry[i])
    BY <1>1 DEF CntlOidScan, Alone
  <2> HIDE DEF i
  <2> QED BY <2>1, <2>2, One
<1>2. CASE ~(link.connected /\ i # NotFound)
  <2>1. scanTab' = EmptyTable
    BY <1>2 DEF CntlOidScan
  <2> DEFINE u == EmptyTable  s == [k \in Used(u) |-> 0]
  <2>2. Used(u) = {}
    BY EmptyIsTable
  <2>3. /\ s \in [Used(u) -> Used(scanTab)] /\ \A j, k \in Used(u) : s[j] = s[k] => j = k
        /\ \A k \in Used(u) : u.entry[k] = scanTab.entry[s[k]]
    BY <2>2
  <2> HIDE DEF s
  <2> QED BY <2>1, <2>3, EmptyIsTable DEF Part
<1> QED BY <1>1, <1>2
LEMMA SearchBss ==
    ASSUME NEW t, IsTable(t), NEW id, NEW chan, NEW i, i = BssTableSearch(t, id, chan)
    PROVE  i = NotFound \/ i \in Used(t)
<1> DEFINE Is(e) == e.bssid = id /\ Band(e.chan) = Band(chan)
           T == {j \in Used(t) : Is(t.entry[j])}
<1>1. CASE T = {}
  BY <1>1 DEF BssTableSearch, FirstEntry
<1>2. CASE T # {}
  <2>1. PICK x \in T : \A y \in T : x <= y
    BY <1>2, UsedSlots, Least
  <2>2. x \in Used(t) /\ \A j \in 0 .. x - 1 : ~Is(t.entry[j])
    BY <2>1, BeforeUsed
  <2> QED BY <2>2 DEF BssTableSearch, FirstEntry
<1> QED BY <1>1, <1>2

\* Whatever the increment of BssOverlapNr does, it leaves a UCHAR.
LEMMA OverlapStays == ASSUME NEW n \in Overlaps, NEW m \in NextOverlap(n) PROVE m \in Overlaps
<1>1. /\ n \in Nat /\ TableLen \in Nat /\ TableLen > 0 /\ OverlapSize \in Nat
      /\ TableLen < OverlapSize
  BY TableAssumption DEF Overlaps
<1>2. n % TableLen \in 0 .. TableLen - 1 /\ (n + 1) % OverlapSize \in 0 .. OverlapSize - 1
  BY <1>1
<1>3. \/ m = n % TableLen \/ m = (n % TableLen) + 1
      \/ m = (n + 1) % OverlapSize
  BY DEF NextOverlap
<1> QED BY <1>1, <1>2, <1>3 DEF Overlaps

\* A scan stores a beacon with the stronger of its signals.
LEMMA Stronger ==
    ASSUME IsTable(scanTab), NEW b \in Beacons, PeerBeaconAtScan(b)
    PROVE  \E rssi \in Nat, next \in Overlaps :
                scanTab' = BssTableSetEntry(scanTab, b, rssi, next).tab
<1> DEFINE i == BssTableSearch(scanTab, b.bssid, b.chan)
           old == IF i = NotFound THEN 0 ELSE scanTab.entry[i].rssi
           rssi == IF b.rssi > old THEN b.rssi ELSE old
<1>1. PICK next \in NextOverlap(scanTab.overlap) :
            scanTab' = BssTableSetEntry(scanTab, b, rssi, next).tab
  BY DEF PeerBeaconAtScan
<1>2. next \in Overlaps
  BY OverlapStays DEF IsTable
<1>3. i = NotFound \/ i \in Slots
  BY SearchBss, UsedSlots
<1> HIDE DEF i
<1>4. \A k \in Slots : scanTab.entry[k].rssi \in Nat
  BY DEF IsTable, Entries
<1>5. b.rssi \in Nat /\ old \in Nat
  BY <1>3, <1>4, BeaconAssumption
<1> HIDE DEF old
<1>6. rssi \in Nat
  BY <1>5
<1> QED BY <1>1, <1>2, <1>6 DEF rssi

\* A channel switch writes the channel of some entry, or of none.
OnChannel(t, k, chan) == [t EXCEPT !.entry[k].chan = chan]

LEMMA Rechannel ==
    ASSUME NEW t, IsTable(t), NEW k, NEW chan \in Nat, NEW u, u = OnChannel(t, k, chan)
    PROVE  /\ IsTable(u)
           /\ AllAnnounced(t) => AllAnnounced(u)
           /\ \A rest : Distinct(t, rest) => Distinct(u, rest \cup {t.entry[k].bssid})
<1>1. CASE k \in Slots
  <2> DEFINE e == [t.entry[k] EXCEPT !.chan = chan]
  <2>1. t.entry[k] \in Entries
    BY <1>1 DEF IsTable
  <2>2. e \in Entries /\ e.bssid = t.entry[k].bssid /\ e.ssid = t.entry[k].ssid
        /\ e.hidden = t.entry[k].hidden
    BY <2>1 DEF Entries
  <2>3. u = [t EXCEPT !.entry[k] = e]
    BY <1>1 DEF IsTable, OnChannel
  <2> HIDE DEF e
  <2>4. IsTable(u) /\ u.nr = t.nr /\ \A j \in Slots : u.entry[j] = IF j = k THEN e ELSE t.entry[j]
    BY <1>1, <2>2, <2>3 DEF IsTable
  <2>5. Used(u) = Used(t) /\ Used(t) \subseteq Slots
    BY <2>4, UsedSlots DEF Used
  <2>6. Announced(t.entry[k]) => Announced(e)
    BY <2>2 DEF Announced
  <2>7. ASSUME NEW rest, Distinct(t, rest) PROVE Distinct(u, rest \cup {t.entry[k].bssid})
    <3>1. \A j \in Used(u) : u.entry[j].bssid # t.entry[k].bssid =>
                                  j \in Used(t) /\ u.entry[j] = t.entry[j]
      BY <2>2, <2>4, <2>5
    <3>2. \A i, j \in Used(u) : SameBss(u.entry[i], u.entry[j]) =>
                                     u.entry[i].bssid = u.entry[j].bssid
      BY DEF SameBss
    <3> QED BY <2>7, <3>1, <3>2 DEF Distinct
  <2> QED BY <2>4, <2>5, <2>6, <2>7 DEF AllAnnounced
<1>2. CASE k \notin Slots
  <2>1. u = t
    <3>1. [t.entry EXCEPT ![k].chan = chan] = t.entry
      BY <1>2 DEF IsTable
    <3>2. u = [t EXCEPT !.entry = [t.entry EXCEPT ![k].chan = chan]]
      BY DEF IsTable, OnChannel
    <3> QED BY <3>1, <3>2 DEF IsTable
  <2>2. \A rest : Distinct(t, rest) => Distinct(t, rest \cup {t.entry[k].bssid})
    BY DEF Distinct
  <2> QED BY <2>1, <2>2
<1> QED BY <1>1, <1>2

---------------------------------------------------------------------------
\* What every step keeps of ScanTab.  That a BSS with an entry for a hidden SSID has no other
\* one is what makes NoTwins inductive: such an entry takes over any SSID it hears.
TblInv ==
    /\ IsTable(scanTab)
    /\ aux = [bssid |-> aux.bssid, ssid |-> aux.ssid, rewritten |-> aux.rewritten]
    /\ AllAnnounced(scanTab)
    /\ Distinct(scanTab, aux.rewritten)

LEMMA TblInvInit == TblInit => TblInv
<1> SUFFICES ASSUME TblInit PROVE TblInv
  OBVIOUS
<1>1. IsTable(scanTab) /\ Used(scanTab) = {}
  BY EmptyIsTable DEF TblInit
<1>2. AllAnnounced(scanTab) /\ Distinct(scanTab, aux.rewritten)
  BY <1>1 DEF AllAnnounced, Distinct
<1>3. aux = [bssid |-> aux.bssid, ssid |-> aux.ssid, rewritten |-> aux.rewritten]
  BY DEF TblInit
<1> QED BY <1>1, <1>2, <1>3 DEF TblInv

LEMMA TblInvNext == TblInv /\ [TblNext]_tblVars => TblInv'
<1> SUFFICES ASSUME TblInv, [TblNext]_tblVars PROVE TblInv'
  OBVIOUS
<1> USE DEF TblInv
<1>1. CASE UNCHANGED tblVars
  BY <1>1 DEF tblVars, IsTable, AllAnnounced, Announced, Distinct, SameBss, Used
<1>2. CASE CntlOidScan
  <2>1. IsTable(scanTab') /\ Part(scanTab', scanTab) /\ aux' = aux
    BY <1>2, ScanKeeps DEF CntlOidScan
  <2>2. AllAnnounced(scanTab') /\ Distinct(scanTab', aux.rewritten)
    BY <2>1, PartDistinct
  <2> QED BY <2>1, <2>2
<1>3. ASSUME NEW b \in Beacons, PeerBeaconAtScan(b) PROVE TblInv'
  <2>1. PICK rssi \in Nat, next \in Overlaps :
                scanTab' = BssTableSetEntry(scanTab, b, rssi, next).tab
    BY <1>3, Stronger
  <2>2. IsTable(scanTab') /\ AllAnnounced(scanTab')
    BY <2>1, SetEntry, SetEntryAnnounced
  <2>3. Distinct(scanTab', aux.rewritten)
    BY <2>1, SetEntryDistinct
  <2>4. aux' = aux
    BY <1>3 DEF PeerBeaconAtScan
  <2> QED BY <2>2, <2>3, <2>4
<1>4. ASSUME scanTab' = scanTab, aux' = aux
      PROVE  TblInv'
  BY <1>4 DEF IsTable, AllAnnounced, Announced, Distinct, SameBss, Used
<1>5. ASSUME scanTab' = scanTab, NEW id, NEW ssid, aux' = [aux EXCEPT !.bssid = id, !.ssid = ssid]
      PROVE  TblInv'
  <2>1. aux' = [bssid |-> id, ssid |-> ssid, rewritten |-> aux.rewritten]
    BY <1>5
  <2> QED BY <1>5, <2>1 DEF IsTable, AllAnnounced, Announced, Distinct, SameBss, Used
<1>6. CASE CntlOidSsid
  <2>1. PICK ssid : aux' = [aux EXCEPT !.ssid = ssid, !.bssid = NoBssid]
    BY <1>6 DEF CntlOidSsid
  <2>2. aux' = [aux EXCEPT !.bssid = NoBssid, !.ssid = ssid]
    BY <2>1
  <2> QED BY <1>5, <1>6, <2>2 DEF CntlOidSsid
<1>7. CASE CntlOidBssid
  BY <1>5, <1>7 DEF CntlOidBssid
<1>8. CASE LinkUp
  <2>1. PICK id : aux' = [aux EXCEPT !.bssid = id]
    BY <1>8 DEF LinkUp
  <2>2. aux' = [aux EXCEPT !.bssid = id, !.ssid = aux.ssid]
    BY <2>1
  <2> QED BY <1>5, <1>8, <2>2 DEF LinkUp
<1>9. CASE Roam \/ PeerBeacon
  BY <1>4, <1>9 DEF Roam, PeerBeacon
<1>10. CASE LoseLink
  <2>1. scanTab' = BssTableDeleteEntry(scanTab, link.bssid, link.chan) /\ aux' = aux
    BY <1>10 DEF LoseLink, LinkDown
  <2>2. IsTable(scanTab') /\ Part(scanTab', scanTab)
    BY <2>1, Delete
  <2>3. AllAnnounced(scanTab') /\ Distinct(scanTab', aux.rewritten)
    BY <2>2, PartDistinct
  <2> QED BY <2>1, <2>2, <2>3
<1>11. CASE SwitchChannel
  <2>1. PICK b \in Beacons, chan \in NewChannels :
            /\ scanTab' = BssTableDeleteEntry([scanTab EXCEPT !.entry[Refresh(b).idx].chan = chan],
                                              link.bssid, chan)
            /\ aux' = [aux EXCEPT !.rewritten =
                            @ \cup {scanTab.entry[Refresh(b).idx].bssid}]
    BY <1>11 DEF SwitchChannel, LinkDown
  <2> DEFINE k == Refresh(b).idx
             u == OnChannel(scanTab, k, chan)
             r == aux.rewritten \cup {scanTab.entry[k].bssid}
  <2>2. chan \in Nat
    BY BeaconAssumption
  <2> HIDE DEF k
  <2>3. IsTable(u) /\ AllAnnounced(u) /\ Distinct(u, r)
    BY <2>2, Rechannel
  <2> HIDE DEF u, r
  <2>4. scanTab' = BssTableDeleteEntry(u, link.bssid, chan)
    BY <2>1 DEF u, k, OnChannel
  <2>5. IsTable(scanTab') /\ AllAnnounced(scanTab') /\ Distinct(scanTab', r)
    BY <2>3, <2>4, Delete, PartDistinct
  <2>6. aux' = [bssid |-> aux.bssid, ssid |-> aux.ssid, rewritten |-> r]
    BY <2>1 DEF k, r
  <2> QED BY <2>5, <2>6
<1> QED BY <1>1, <1>2, <1>3, <1>6, <1>7, <1>8, <1>9, <1>10, <1>11 DEF TblNext

\* Whatever order the hidden beacons, the probe responses, the scans and the ends of links
\* come in, and however many BSSs, SSIDs and places there are, ScanTab has one entry for each
\* SSID of a BSS (BssTableSearchWithSSID and BssTableSetEntry, mlme.c), wherever BssOverlapNr
\* points to; but for a BSS into whose entry a channel switch wrote.
THEOREM OneEntryForEachSsid == TblSpec => []NoTwins
<1>1. TblInv => NoTwins
  BY DEF TblInv, Distinct, SameBss, NoTwins
<1> QED BY TblInvInit, TblInvNext, <1>1, PTL DEF TblSpec

\* An SSID that ScanTab shows is one its BSS announced: an SSID that a place in the table held
\* before is never shown as the one of a BSS that hides its own (BssEntrySet, mlme.c).
THEOREM NoSsidIsInvented == TblSpec => []ShownIsAnnounced
<1>1. TblInv => ShownIsAnnounced
  BY DEF TblInv, AllAnnounced, Announced, ShownIsAnnounced
<1> QED BY TblInvInit, TblInvNext, <1>1, PTL DEF TblSpec

\* While the link is up, no beacon in a full ScanTab and no scan pushes the entry of its BSS
\* and SSID out: BssTableSetEntry replaces only without a link, and CntlOidScanProc keeps it.
THEOREM TheLinkStaysKnown == TblSpec => LinkEntryStays
<1> DEFINE Ours(e) == /\ e.bssid = link.bssid /\ Band(e.chan) = Band(link.chan)
                      /\ e.ssid = link.ssid
           Known(t) == \E i \in Used(t) : Ours(t.entry[i])
           Stays == link.connected /\ link'.connected /\ link.ssid # NoSsid
                    /\ Known(scanTab) => Known(scanTab')
<1>1. TblInv /\ [TblNext]_tblVars => Stays
  <2> SUFFICES ASSUME TblInv, [TblNext]_tblVars, link.connected, link'.connected,
                      link.ssid # NoSsid, Known(scanTab)
               PROVE  Known(scanTab')
    OBVIOUS
  <2>1. IsTable(scanTab)
    BY DEF TblInv
  <2>2. CASE scanTab' = scanTab
    BY <2>2
  <2>3. CASE CntlOidScan
    <3> DEFINE i == BssSsidTableSearch(scanTab, link.bssid, link.ssid, link.chan)
    <3>1. i # NotFound /\ i \in Used(scanTab) /\ Ours(scanTab.entry[i])
      BY <2>1, SearchSsid
    <3>2. scanTab' = Alone(scanTab.entry[i])
      BY <2>3, <3>1 DEF CntlOidScan, Alone
    <3> HIDE DEF i
    <3>3. Used(scanTab') = {0} /\ scanTab'.entry[0] = scanTab.entry[i]
      BY <2>1, <3>1, <3>2, One
    <3> QED BY <3>1, <3>3
  <2>4. ASSUME NEW b \in Beacons, PeerBeaconAtScan(b) PROVE Known(scanTab')
    <3>1. PICK rssi \in Nat, next \in Overlaps :
                scanTab' = BssTableSetEntry(scanTab, b, rssi, next).tab
      BY <2>1, <2>4, Stronger
    <3>2. PICK k \in Used(scanTab) : Ours(scanTab.entry[k])
      OBVIOUS
    <3> DEFINE u == scanTab'
    <3>3. u = BssTableSetEntry(scanTab, b, rssi, next).tab
      BY <3>1
    <3> HIDE DEF u
    <3>4. IsTable(u) /\ Used(u) \subseteq Slots /\ k \in Slots /\ scanTab.nr \in Nat
          /\ scanTab.entry[k] \in Entries
      <4>1. IsTable(u)
        BY <2>1, <3>3, SetEntry
      <4>2. k \in Slots /\ Used(u) \subseteq Slots
        BY <2>1, <4>1, UsedSlots
      <4> QED BY <2>1, <4>1, <4>2, TableAssumption DEF IsTable
    <3>5. ASSUME NEW i \in Used(u),
                 \A j \in Slots : u.entry[j] = IF j = i
                                               THEN BssEntrySet(scanTab.entry[i], b, rssi)
                                               ELSE scanTab.entry[j],
                 Renewed(u, scanTab, b, i) \/ Added(u, scanTab, b, i)
                     \/ Replaced(u, scanTab, b, i)
          PROVE  Known(u)
      <4>1. k \in Used(u)
        BY <3>4, <3>5 DEF Used, Renewed, Added, Replaced
      <4>2. CASE k # i
        BY <3>2, <3>4, <3>5, <4>1, <4>2
      <4>3. CASE k = i
        <5>1. Renewed(u, scanTab, b, i)
          BY <3>4, <3>5, <4>3 DEF Replaced, MayReplace, Added, Used
        <5> DEFINE e == BssEntrySet(scanTab.entry[k], b, rssi)
        <5>2. /\ e.bssid = b.bssid /\ e.chan = b.chan
              /\ e.ssid = IF b.ssid = NoSsid THEN scanTab.entry[k].ssid ELSE b.ssid
          BY <3>4, EntrySet
        <5>3. u.entry[k] = e
          BY <3>4, <3>5, <4>3
        <5> HIDE DEF e
        <5>4. Ours(e)
          BY <3>2, <4>3, <5>1, <5>2 DEF Renewed, Hits, SameBss
        <5> QED BY <4>1, <5>3, <5>4
      <4> QED BY <4>2, <4>3
    <3>6. ASSUME u.entry = scanTab.entry, u.nr = scanTab.nr PROVE Known(u)
      BY <3>2, <3>6 DEF Used
    <3>7. Known(u)
      BY <2>1, <3>3, <3>5, <3>6, SetEntry
    <3> QED BY <3>7 DEF u
  <2>5. CASE LinkUp
    BY <2>5 DEF LinkUp
  <2>6. CASE LoseLink \/ SwitchChannel
    <3>1. link' = Unlinked
      BY <2>6 DEF LoseLink, SwitchChannel, LinkDown
    <3>2. ~link'.connected
      BY <3>1 DEF Unlinked
    <3> QED BY <3>2
  <2> QED
    BY <2>2, <2>3, <2>4, <2>5, <2>6
    DEF TblNext, tblVars, CntlOidSsid, CntlOidBssid, Roam, PeerBeacon
<1>2. TblInv /\ [TblNext]_tblVars =>
        [LET Knows(t) == \E i \in Used(t) :
                 LET e == t.entry[i]
                 IN  e.bssid = link.bssid /\ Band(e.chan) = Band(link.chan) /\ e.ssid = link.ssid
         IN  /\ link.connected /\ link'.connected /\ link.ssid # NoSsid
             /\ Knows(scanTab)
             => Knows(scanTab')]_tblVars
  BY <1>1
<1> QED BY TblInvInit, TblInvNext, <1>2, PTL DEF TblSpec, LinkEntryStays

---------------------------------------------------------------------------
(* The candidates of a request *)

\* f is the course of pass i over s.
PassRun(f, n, S, s, i) ==
    /\ f \in [0 .. n -> [1 .. n -> S]] /\ SortPass(s, i) = f[n]
    /\ \A j \in 0 .. i : f[j] = s
    /\ \A j \in i + 1 .. n : f[j] = Exchange(f[j - 1], i, j)

LEMMA PassComputes ==
    ASSUME NEW n \in Nat, NEW S, NEW s \in [1 .. n -> S], Len(s) = n, NEW i \in 1 .. n
    PROVE  \E f : PassRun(f, n, S, s, i)
<1> DEFINE X == [1 .. n -> S]
           step == [j \in 1 .. n |-> [t \in X |-> IF j <= i THEN s ELSE Exchange(t, i, j)]]
           Def(g) == g = [j \in 0 .. n |-> IF j <= i THEN s ELSE Exchange(g[j - 1], i, j)]
           f == CHOOSE g : Def(g)
<1>1. ASSUME NEW t \in X, NEW j \in 1 .. n PROVE Exchange(t, i, j) \in X
  BY DEF Exchange
<1>2. step \in [1 .. n -> [X -> X]]
  BY <1>1
<1>3. PICK h \in [0 .. n -> X] : h[0] = s /\ \A j \in 1 .. n : h[j] = step[j][h[j - 1]]
  <2>1. s \in X
    OBVIOUS
  <2> HIDE DEF step, X
  <2>2. \E h : Recurs(h, n, X, s, step)
    BY <1>2, <2>1, Recursion
  <2> QED BY <2>2 DEF Recurs
<1>4. Def(h)
  <2>1. ASSUME NEW j \in 0 .. n
        PROVE  h[j] = IF j <= i THEN s ELSE Exchange(h[j - 1], i, j)
    <3>1. CASE j = 0
      BY <1>3, <3>1
    <3>2. CASE j # 0
      <4>1. j \in 1 .. n /\ h[j - 1] \in X
        BY <3>2
      <4> QED BY <1>3, <4>1
    <3> QED BY <3>1, <3>2
  <2> QED BY <2>1
<1>5. Def(f)
  BY <1>4
<1>6. SortPass(s, i) = f[n]
  BY DEF SortPass
<1> HIDE DEF f
<1>7. \A j \in 0 .. n : f[j] = IF j <= i THEN s ELSE Exchange(f[j - 1], i, j)
  BY <1>5
<1>8. f \in [0 .. n -> X]
  <2> DEFINE T == {j \in 0 .. n : f[j] \in X}
  <2>1. 0 \in T
    BY <1>7
  <2>2. ASSUME NEW j \in 1 .. n, j - 1 \in T PROVE j \in T
    <3>1. Exchange(f[j - 1], i, j) \in X
      BY <1>1, <2>2
    <3> QED BY <1>7, <3>1
  <2>3. 0 .. n \subseteq T
    <3> HIDE DEF T
    <3> QED BY <2>1, <2>2, Induction
  <2> QED BY <1>5, <2>3
<1>9. \A j \in 0 .. i : f[j] = s
  BY <1>7
<1>10. \A j \in i + 1 .. n : f[j] = Exchange(f[j - 1], i, j)
  BY <1>7
<1> QED BY <1>6, <1>8, <1>9, <1>10 DEF PassRun

\* A sequence is a function on 1 .. n.
LEMMA Length ==
    ASSUME NEW n \in Nat, NEW S, NEW s \in [1 .. n -> S]
    PROVE  s \in Seq(S) /\ Len(s) = n
OBVIOUS

\* t has the entries of s in some order.
Permuted(t, s, n) ==
    \E p \in Bijection(1 .. n, 1 .. n) : \A k \in 1 .. n : t[k] = s[p[k]]

LEMMA PermutedSame ==
    ASSUME NEW n \in Nat, NEW s
    PROVE  Permuted(s, s, n)
<1> DEFINE p == [k \in 1 .. n |-> k]
<1>1. p \in Bijection(1 .. n, 1 .. n)
  BY DEF Bijection, Injection, Surjection, IsInjective
<1>2. \A k \in 1 .. n : s[k] = s[p[k]]
  OBVIOUS
<1> QED BY <1>1, <1>2 DEF Permuted

LEMMA PermutedTwice ==
    ASSUME NEW n \in Nat, NEW s, NEW t, NEW u, Permuted(u, t, n), Permuted(t, s, n)
    PROVE  Permuted(u, s, n)
<1>1. PICK p \in Bijection(1 .. n, 1 .. n) : \A k \in 1 .. n : t[k] = s[p[k]]
  BY DEF Permuted
<1>2. PICK q \in Bijection(1 .. n, 1 .. n) : \A k \in 1 .. n : u[k] = t[q[k]]
  BY DEF Permuted
<1> DEFINE r == [k \in 1 .. n |-> p[q[k]]]
<1>3. r \in Bijection(1 .. n, 1 .. n)
  BY <1>1, <1>2, Fun_BijTransitive
<1>4. q \in [1 .. n -> 1 .. n]
  BY DEF Bijection, Injection
<1>5. \A k \in 1 .. n : u[k] = s[r[k]]
  BY <1>1, <1>2, <1>4
<1> HIDE DEF r
<1> QED BY <1>3, <1>5 DEF Permuted

LEMMA PermutedExchange ==
    ASSUME NEW n \in Nat, NEW S, NEW s \in [1 .. n -> S], NEW i \in 1 .. n, NEW j \in 1 .. n
    PROVE  Permuted(Exchange(s, i, j), s, n)
<1>1. CASE s[j].rssi > s[i].rssi
  <2> DEFINE p == [k \in 1 .. n |-> IF k = i THEN j ELSE IF k = j THEN i ELSE k]
             t == [s EXCEPT ![i] = s[j], ![j] = s[i]]
  <2>1. p \in Bijection(1 .. n, 1 .. n)
    <3>1. p \in [1 .. n -> 1 .. n]
      OBVIOUS
    <3>2. \A k, l \in 1 .. n : p[k] = p[l] => k = l
      OBVIOUS
    <3>3. \A k \in 1 .. n : p[p[k]] = k
      OBVIOUS
    <3> HIDE DEF p
    <3> QED BY <3>1, <3>2, <3>3 DEF Bijection, Injection, Surjection, IsInjective
  <2>2. \A k \in 1 .. n : t[k] = s[p[k]]
    OBVIOUS
  <2>3. Exchange(s, i, j) = t
    BY <1>1 DEF Exchange
  <2> HIDE DEF p, t
  <2> QED BY <2>1, <2>2, <2>3 DEF Permuted
<1>2. CASE ~(s[j].rssi > s[i].rssi)
  BY <1>2, PermutedSame DEF Exchange
<1> QED BY <1>1, <1>2

\* What pass i has done when it has compared the entry at i with those up to j.
PassDone(t, s, n, i, j) ==
    /\ Permuted(t, s, n)
    /\ \A k \in 1 .. i - 1 : t[k] = s[k]
    /\ \A k \in i .. n : \E m \in i .. n : t[k] = s[m]
    /\ \A k \in i .. j : t[i].rssi >= t[k].rssi

LEMMA PassStep ==
    ASSUME NEW n \in Nat, NEW S, \A e \in S : e.rssi \in Nat,
           NEW s \in [1 .. n -> S], NEW t \in [1 .. n -> S],
           NEW i \in 1 .. n, NEW j \in i + 1 .. n, PassDone(t, s, n, i, j - 1)
    PROVE  PassDone(Exchange(t, i, j), s, n, i, j)
<1> DEFINE u == Exchange(t, i, j)
<1>1. Permuted(u, s, n)
  <2>0. j \in 1 .. n
    OBVIOUS
  <2>1. Permuted(u, t, n)
    BY <2>0, PermutedExchange
  <2> HIDE DEF u
  <2> QED BY <2>1, PermutedTwice DEF PassDone
<1>2. j \in 1 .. n /\ i # j /\ i \in i .. n /\ j \in i .. n
  OBVIOUS
<1>3. \A k \in 1 .. n : u[k] = IF t[j].rssi > t[i].rssi
                               THEN IF k = i THEN t[j] ELSE IF k = j THEN t[i] ELSE t[k]
                               ELSE t[k]
  BY <1>2 DEF Exchange
<1> HIDE DEF u
<1>4. \A k \in 1 .. i - 1 : u[k] = s[k]
  <2> TAKE k \in 1 .. i - 1
  <2>1. k \in 1 .. n /\ k # i /\ k # j
    OBVIOUS
  <2> QED BY <1>3, <2>1 DEF PassDone
<1>5. \A k \in i .. n : \E m \in i .. n : u[k] = s[m]
  <2> TAKE k \in i .. n
  <2>1. k \in 1 .. n
    OBVIOUS
  <2>2. \E l \in i .. n : u[k] = t[l]
    BY <1>2, <1>3, <2>1
  <2> QED BY <2>2 DEF PassDone
<1>6. \A k \in i .. j : u[i].rssi >= u[k].rssi
  <2> TAKE k \in i .. j
  <2>1. k \in 1 .. n /\ (k # j => k \in i .. j - 1)
    OBVIOUS
  <2>2. t[i].rssi \in Nat /\ t[j].rssi \in Nat /\ t[k].rssi \in Nat
    BY <1>2, <2>1
  <2>3. k # j => t[i].rssi >= t[k].rssi
    BY <2>1 DEF PassDone
  <2> QED BY <1>2, <1>3, <2>1, <2>2, <2>3
<1> QED BY <1>1, <1>4, <1>5, <1>6 DEF PassDone, u

LEMMA Pass ==
    ASSUME NEW n \in Nat, NEW S, \A e \in S : e.rssi \in Nat, NEW s \in [1 .. n -> S],
           NEW i \in 1 .. n
    PROVE  SortPass(s, i) \in [1 .. n -> S] /\ PassDone(SortPass(s, i), s, n, i, n)
<1>0. PICK f : PassRun(f, n, S, s, i)
  <2>1. Len(s) = n
    BY Length
  <2> QED BY <2>1, PassComputes
<1>1. /\ f \in [0 .. n -> [1 .. n -> S]] /\ SortPass(s, i) = f[n]
      /\ \A j \in 0 .. i : f[j] = s
      /\ \A j \in i + 1 .. n : f[j] = Exchange(f[j - 1], i, j)
  BY <1>0 DEF PassRun
<1> DEFINE T == {j \in 0 .. n : PassDone(f[j], s, n, i, j)}
<1>2. ASSUME NEW j \in 0 .. i PROVE j \in T
  <2>1. Permuted(s, s, n)
    BY PermutedSame
  <2>2. PassDone(s, s, n, i, j)
    BY <2>1 DEF PassDone
  <2> QED BY <1>1, <2>2
<1>3. ASSUME NEW j \in 1 .. n, j - 1 \in T PROVE j \in T
  <2>1. CASE j <= i
    BY <1>2, <2>1
  <2>2. CASE j > i
    <3>1. j \in i + 1 .. n /\ f[j - 1] \in [1 .. n -> S]
      BY <1>1, <2>2
    <3>2. PassDone(Exchange(f[j - 1], i, j), s, n, i, j)
      BY <1>3, <3>1, PassStep
    <3> QED BY <1>1, <3>1, <3>2
  <2> QED BY <2>1, <2>2
<1>4. 0 \in T
  BY <1>2
<1>5. 0 .. n \subseteq T
  <2> HIDE DEF T
  <2> QED BY <1>3, <1>4, Induction
<1>6. n \in 0 .. n
  OBVIOUS
<1> QED BY <1>1, <1>5, <1>6

\* f is the course of the passes over s.
SortRun(f, n, S, s) ==
    /\ f \in [0 .. n -> [1 .. n -> S]] /\ SortByRssi(s) = f[n]
    /\ f[0] = s /\ \A i \in 1 .. n : f[i] = SortPass(f[i - 1], i)

LEMMA SortComputes ==
    ASSUME NEW n \in Nat, NEW S, \A e \in S : e.rssi \in Nat, NEW s \in [1 .. n -> S],
           Len(s) = n
    PROVE  \E f : SortRun(f, n, S, s)
<1> DEFINE X == [1 .. n -> S]
           step == [i \in 1 .. n |-> [t \in X |-> SortPass(t, i)]]
           Def(g) == g = [i \in 0 .. n |-> IF i = 0 THEN s ELSE SortPass(g[i - 1], i)]
           f == CHOOSE g : Def(g)
<1>1. ASSUME NEW t \in X, NEW i \in 1 .. n PROVE SortPass(t, i) \in X
  BY Pass
<1>2. step \in [1 .. n -> [X -> X]]
  BY <1>1
<1>3. PICK h \in [0 .. n -> X] : h[0] = s /\ \A i \in 1 .. n : h[i] = step[i][h[i - 1]]
  <2>1. s \in X
    OBVIOUS
  <2> HIDE DEF step, X
  <2>2. \E h : Recurs(h, n, X, s, step)
    BY <1>2, <2>1, Recursion
  <2> QED BY <2>2 DEF Recurs
<1>4. Def(h)
  <2>1. ASSUME NEW i \in 0 .. n
        PROVE  h[i] = IF i = 0 THEN s ELSE SortPass(h[i - 1], i)
    <3>1. CASE i = 0
      BY <1>3, <3>1
    <3>2. CASE i # 0
      <4>1. i \in 1 .. n /\ h[i - 1] \in X
        BY <3>2
      <4> QED BY <1>3, <4>1
    <3> QED BY <3>1, <3>2
  <2> QED BY <2>1
<1>5. Def(f)
  BY <1>4
<1>6. SortByRssi(s) = f[n]
  BY DEF SortByRssi
<1> HIDE DEF f
<1>7. f[0] = s /\ \A i \in 1 .. n : f[i] = SortPass(f[i - 1], i)
  BY <1>5
<1>8. f \in [0 .. n -> X]
  <2> DEFINE T == {i \in 0 .. n : f[i] \in X}
  <2>1. 0 \in T
    BY <1>7
  <2>2. ASSUME NEW i \in 1 .. n, i - 1 \in T PROVE i \in T
    <3>1. SortPass(f[i - 1], i) \in X
      BY <1>1, <2>2
    <3> QED BY <1>7, <3>1
  <2>3. 0 .. n \subseteq T
    <3> HIDE DEF T
    <3> QED BY <2>1, <2>2, Induction
  <2> QED BY <1>5, <2>3
<1> QED BY <1>6, <1>7, <1>8 DEF SortRun

\* The first i entries are in order, none behind them stronger.
SortedTo(t, s, n, i) ==
    /\ Permuted(t, s, n)
    /\ \A k \in 1 .. i : \A l \in k .. n : t[k].rssi >= t[l].rssi

LEMMA SortStep ==
    ASSUME NEW n \in Nat, NEW S, \A e \in S : e.rssi \in Nat, NEW s \in [1 .. n -> S],
           NEW t \in [1 .. n -> S], NEW i \in 1 .. n, SortedTo(t, s, n, i - 1)
    PROVE  SortedTo(SortPass(t, i), s, n, i)
<1> DEFINE u == SortPass(t, i)
<1>1. u \in [1 .. n -> S] /\ PassDone(u, t, n, i, n)
  BY Pass
<1> HIDE DEF u
<1>2. Permuted(u, s, n)
  BY <1>1, PermutedTwice DEF SortedTo, PassDone
<1>3. ASSUME NEW k \in 1 .. i, NEW l \in k .. n PROVE u[k].rssi >= u[l].rssi
  <2>1. CASE k = i
    BY <1>1, <2>1 DEF PassDone
  <2>2. CASE k # i
    <3>1. k \in 1 .. i - 1
      BY <2>2
    <3>2. \E m \in k .. n : u[l] = t[m]
      <4>1. CASE l < i
        <5>1. l \in 1 .. i - 1 /\ l \in k .. n
          BY <4>1
        <5> QED BY <1>1, <5>1 DEF PassDone
      <4>2. CASE ~(l < i)
        <5>1. l \in i .. n
          BY <4>2
        <5>2. PICK m \in i .. n : u[l] = t[m]
          BY <1>1, <5>1 DEF PassDone
        <5>3. m \in k .. n
          BY <3>1
        <5> QED BY <5>2, <5>3
      <4> QED BY <4>1, <4>2
    <3>3. u[k] = t[k]
      BY <1>1, <3>1 DEF PassDone
    <3> QED BY <3>1, <3>2, <3>3 DEF SortedTo
  <2> QED BY <2>1, <2>2
<1> QED BY <1>2, <1>3 DEF SortedTo, u

\* BssTableSortByRssi keeps the entries and puts the stronger before the weaker.
LEMMA Sort ==
    ASSUME NEW n \in Nat, NEW S, \A e \in S : e.rssi \in Nat, NEW s \in [1 .. n -> S]
    PROVE  /\ SortByRssi(s) \in [1 .. n -> S]
           /\ Permuted(SortByRssi(s), s, n)
           /\ \A k, l \in 1 .. n : k < l => SortByRssi(s)[k].rssi >= SortByRssi(s)[l].rssi
<1>0. PICK f : SortRun(f, n, S, s)
  <2>1. Len(s) = n
    BY Length
  <2> QED BY <2>1, SortComputes
<1>1. /\ f \in [0 .. n -> [1 .. n -> S]] /\ SortByRssi(s) = f[n]
      /\ f[0] = s /\ \A i \in 1 .. n : f[i] = SortPass(f[i - 1], i)
  BY <1>0 DEF SortRun
<1> DEFINE T == {i \in 0 .. n : SortedTo(f[i], s, n, i)}
<1>2. 0 \in T
  <2>1. Permuted(s, s, n)
    BY PermutedSame
  <2> QED BY <1>1, <2>1 DEF SortedTo
<1>3. ASSUME NEW i \in 1 .. n, i - 1 \in T PROVE i \in T
  <2>1. f[i - 1] \in [1 .. n -> S]
    BY <1>1
  <2>2. SortedTo(SortPass(f[i - 1], i), s, n, i)
    BY <1>3, <2>1, SortStep
  <2> QED BY <1>1, <2>2
<1>4. 0 .. n \subseteq T
  <2> HIDE DEF T
  <2> QED BY <1>2, <1>3, Induction
<1>5. SortedTo(f[n], s, n, n) /\ f[n] \in [1 .. n -> S]
  BY <1>1, <1>4
<1> QED BY <1>1, <1>5 DEF SortedTo


---------------------------------------------------------------------------
\* The places looked at when the loop of BssTableSsidSort gets to i.
Before(places, i) == {q \in places : q < i}

LEMMA BeforeGrows ==
    ASSUME NEW places \in SUBSET Nat, NEW i \in Nat \ {0}
    PROVE  Before(places, i) = IF i - 1 \in places THEN Before(places, i - 1) \cup {i - 1}
                               ELSE Before(places, i - 1)
<1>1. \A q \in Nat : q < i <=> (q < i - 1 \/ q = i - 1)
  OBVIOUS
<1>2. \A q : q \in Before(places, i) <=> q \in places /\ (q < i - 1 \/ q = i - 1)
  BY <1>1 DEF Before
<1> QED BY <1>2 DEF Before

LEMMA BeforeEnds ==
    ASSUME NEW n \in Nat, NEW places \in SUBSET (0 .. n - 1)
    PROVE  Before(places, n) = places /\ Before(places, 0) = {}
<1>1. \A q \in places : q < n /\ ~(q < 0)
  OBVIOUS
<1> QED BY <1>1 DEF Before

\* c has the entries of t at the places before i, one for each.
CopiedTo(c, t, places, i) ==
    \E p \in Bijection(1 .. Len(c), Before(places, i)) :
        \A k \in 1 .. Len(c) : c[k] = t.entry[p[k]]

LEMMA CopyStep ==
    ASSUME NEW t, NEW S, NEW c \in Seq(S), NEW i \in Nat \ {0}, NEW places \in SUBSET Nat,
           i - 1 \in places, t.entry[i - 1] \in S, CopiedTo(c, t, places, i - 1)
    PROVE  CopiedTo(Append(c, t.entry[i - 1]), t, places, i)
<1> DEFINE e == t.entry[i - 1]
           d == Append(c, e)
           A == Before(places, i - 1)
           B == Before(places, i)
           n == Len(c)
<1>1. PICK p \in Bijection(1 .. n, A) : \A k \in 1 .. n : c[k] = t.entry[p[k]]
  BY DEF CopiedTo
<1>2. /\ n \in Nat /\ Len(d) = n + 1 /\ d[n + 1] = e
      /\ \A k \in 1 .. n : d[k] = c[k]
  OBVIOUS
<1>3. B = A \cup {i - 1} /\ i - 1 \notin A
  BY BeforeGrows DEF Before
<1> DEFINE r == [k \in 1 .. n + 1 |-> IF k = n + 1 THEN i - 1 ELSE p[k]]
<1> HIDE DEF d, A, B, n, e
<1>4. r \in Bijection(1 .. n + 1, B)
  <2>1. /\ p \in [1 .. n -> A] /\ \A k, l \in 1 .. n : p[k] = p[l] => k = l
        /\ \A q \in A : \E k \in 1 .. n : p[k] = q
    BY <1>1 DEF Bijection, Injection, Surjection, IsInjective
  <2>2. \A k \in 1 .. n + 1 : k # n + 1 => k \in 1 .. n
    BY <1>2
  <2>3. r \in [1 .. n + 1 -> B]
    BY <1>3, <2>1, <2>2
  <2>4. \A k, l \in 1 .. n + 1 : r[k] = r[l] => k = l
    BY <1>3, <2>1, <2>2
  <2>5. \A q \in B : \E k \in 1 .. n + 1 : r[k] = q
    <3> TAKE q \in B
    <3>1. CASE q = i - 1
      BY <1>2, <3>1
    <3>2. CASE q # i - 1
      <4>1. PICK k \in 1 .. n : p[k] = q
        BY <1>3, <2>1, <3>2
      <4>2. k \in 1 .. n + 1 /\ k # n + 1
        BY <1>2
      <4> QED BY <4>1, <4>2
    <3> QED BY <3>1, <3>2
  <2> HIDE DEF r
  <2> QED BY <2>3, <2>4, <2>5 DEF Bijection, Injection, Surjection, IsInjective
<1>5. \A k \in 1 .. n + 1 : d[k] = t.entry[r[k]]
  <2> TAKE k \in 1 .. n + 1
  <2>1. CASE k = n + 1
    BY <1>2, <2>1 DEF e
  <2>2. CASE k # n + 1
    <3>1. k \in 1 .. n
      BY <1>2, <2>2
    <3> QED BY <1>1, <1>2, <2>2, <3>1
  <2> QED BY <2>1, <2>2
<1> HIDE DEF r
<1>6. \E x \in Bijection(1 .. Len(d), B) : \A k \in 1 .. Len(d) : d[k] = t.entry[x[k]]
  BY <1>2, <1>4, <1>5
<1> QED BY <1>6 DEF CopiedTo, B, d, e

CopyRun(f, n, S, t, places) ==
    /\ f \in [0 .. n -> Seq(S)] /\ CopyEntries(t, places) = f[n] /\ f[0] = <<>>
    /\ \A i \in 1 .. n : f[i] = IF i - 1 \in places THEN Append(f[i - 1], t.entry[i - 1])
                                ELSE f[i - 1]

LEMMA CopyComputes ==
    ASSUME NEW n \in Nat, NEW S, NEW t, t.nr = n, \A i \in 0 .. n - 1 : t.entry[i] \in S,
           NEW places
    PROVE  \E f : CopyRun(f, n, S, t, places)
<1> DEFINE X == Seq(S)
           Step(c, i) == IF i - 1 \in places THEN Append(c, t.entry[i - 1]) ELSE c
           step == [i \in 1 .. n |-> [c \in X |-> Step(c, i)]]
           Def(g) == g = [i \in 0 .. n |->
                             IF i = 0 THEN <<>>
                             ELSE IF i - 1 \in places THEN Append(g[i - 1], t.entry[i - 1])
                                  ELSE g[i - 1]]
           f == CHOOSE g : Def(g)
<1>1. ASSUME NEW c \in X, NEW i \in 1 .. n PROVE Step(c, i) \in X
  OBVIOUS
<1>2. step \in [1 .. n -> [X -> X]]
  <2> HIDE DEF Step
  <2> QED BY <1>1
<1>3. PICK h \in [0 .. n -> X] : h[0] = <<>> /\ \A i \in 1 .. n : h[i] = step[i][h[i - 1]]
  <2>1. <<>> \in X
    OBVIOUS
  <2> HIDE DEF step, X
  <2>2. \E h : Recurs(h, n, X, <<>>, step)
    BY <1>2, <2>1, Recursion
  <2> QED BY <2>2 DEF Recurs
<1>4. Def(h)
  <2>1. ASSUME NEW i \in 0 .. n
        PROVE  h[i] = IF i = 0 THEN <<>> ELSE Step(h[i - 1], i)
    <3>1. CASE i = 0
      BY <1>3, <3>1
    <3>2. CASE i # 0
      <4>1. i \in 1 .. n /\ h[i - 1] \in X
        BY <3>2
      <4> QED BY <1>3, <4>1
    <3> QED BY <3>1, <3>2
  <2> QED BY <2>1
<1>5. Def(f)
  BY <1>4
<1>6. CopyEntries(t, places) = f[n]
  BY DEF CopyEntries
<1> HIDE DEF f
<1>7. f[0] = <<>> /\ \A i \in 1 .. n : f[i] = Step(f[i - 1], i)
  <2>1. f = [i \in 0 .. n |-> IF i = 0 THEN <<>> ELSE Step(f[i - 1], i)]
    BY <1>5
  <2> HIDE DEF Step
  <2> QED BY <2>1
<1>8. f \in [0 .. n -> X]
  <2> DEFINE T == {i \in 0 .. n : f[i] \in X}
  <2>1. 0 \in T
    <3>1. f[0] \in X
      BY <1>7
    <3> QED BY <3>1
  <2>2. ASSUME NEW i \in 1 .. n, i - 1 \in T PROVE i \in T
    <3> HIDE DEF Step
    <3>1. Step(f[i - 1], i) \in X
      BY <1>1, <2>2
    <3> QED BY <1>7, <3>1
  <2>3. 0 .. n \subseteq T
    <3> HIDE DEF T
    <3> QED BY <2>1, <2>2, Induction
  <2> QED BY <1>5, <2>3
<1> QED BY <1>6, <1>7, <1>8 DEF CopyRun

\* BssTableSsidSort copies each entry of the places once.
LEMMA Copy ==
    ASSUME NEW n \in Nat, NEW S, NEW t, t.nr = n, \A i \in 0 .. n - 1 : t.entry[i] \in S,
           NEW places \in SUBSET (0 .. n - 1)
    PROVE  /\ CopyEntries(t, places) \in Seq(S)
           /\ CopiedTo(CopyEntries(t, places), t, places, n)
<1>0. PICK f : CopyRun(f, n, S, t, places)
  BY CopyComputes
<1>1. /\ f \in [0 .. n -> Seq(S)] /\ CopyEntries(t, places) = f[n] /\ f[0] = <<>>
      /\ \A i \in 1 .. n : f[i] = IF i - 1 \in places THEN Append(f[i - 1], t.entry[i - 1])
                                  ELSE f[i - 1]
  BY <1>0 DEF CopyRun
<1> DEFINE T == {i \in 0 .. n : CopiedTo(f[i], t, places, i)}
<1>2. 0 \in T
  <2>1. 1 .. Len(<<>>) = {} /\ Before(places, 0) = {}
    BY BeforeEnds
  <2> DEFINE p == [k \in {} |-> k]
  <2>2. p \in Bijection({}, {})
    BY DEF Bijection, Injection, Surjection, IsInjective
  <2> HIDE DEF p
  <2>3. CopiedTo(<<>>, t, places, 0)
    BY <2>1, <2>2 DEF CopiedTo
  <2> QED BY <1>1, <2>3
<1>3. ASSUME NEW i \in 1 .. n, i - 1 \in T PROVE i \in T
  <2>1. /\ f[i - 1] \in Seq(S) /\ CopiedTo(f[i - 1], t, places, i - 1)
        /\ t.entry[i - 1] \in S /\ i \in Nat \ {0} /\ places \in SUBSET Nat
    BY <1>1, <1>3
  <2>2. CASE i - 1 \in places
    <3>1. CopiedTo(Append(f[i - 1], t.entry[i - 1]), t, places, i)
      BY <2>1, <2>2, CopyStep
    <3>2. CopiedTo(f[i], t, places, i)
      BY <1>1, <2>2, <3>1
    <3> QED BY <3>2
  <2>3. CASE i - 1 \notin places
    <3>1. CopiedTo(f[i - 1], t, places, i)
      BY <2>1, <2>3, BeforeGrows DEF CopiedTo
    <3>2. CopiedTo(f[i], t, places, i)
      BY <1>1, <2>3, <3>1
    <3> QED BY <3>2
  <2> QED BY <2>2, <2>3
<1>4. 0 .. n \subseteq T
  <2> HIDE DEF T
  <2> QED BY <1>2, <1>3, Induction
<1> QED BY <1>1, <1>4
---------------------------------------------------------------------------
\* A bijection that keeps the entries carries over the places of an entry.
Rearranged(u, A, v, B) == \E p \in Bijection(A, B) : \A a \in A : u[a] = v[p[a]]
Times(u, A, e) == Cardinality({a \in A : u[a] = e})

LEMMA SameCount ==
    ASSUME NEW A, NEW B, IsFiniteSet(A), NEW u, NEW v, Rearranged(u, A, v, B), NEW e
    PROVE  Times(u, A, e) = Times(v, B, e)
<1>p. PICK p \in Bijection(A, B) : \A a \in A : u[a] = v[p[a]]
  BY DEF Rearranged
<1> DEFINE C == {a \in A : u[a] = e}
           D == {b \in B : v[b] = e}
           q == [a \in C |-> p[a]]
<1>1. /\ p \in [A -> B] /\ \A k, l \in A : p[k] = p[l] => k = l
      /\ \A b \in B : \E a \in A : p[a] = b
  BY DEF Bijection, Injection, Surjection, IsInjective
<1>2. q \in [C -> D] /\ \A k, l \in C : q[k] = q[l] => k = l
  BY <1>p, <1>1
<1>3. \A b \in D : \E a \in C : q[a] = b
  BY <1>p, <1>1
<1> HIDE DEF q
<1>4. q \in Bijection(C, D)
  BY <1>2, <1>3 DEF Bijection, Injection, Surjection, IsInjective
<1>5. IsFiniteSet(C)
  BY FS_Subset
<1> HIDE DEF C, D
<1>6. ExistsBijection(C, D)
  BY <1>4 DEF ExistsBijection
<1>7. Cardinality(D) = Cardinality(C)
  BY <1>5, <1>6, FS_Bijection
<1> QED BY <1>7 DEF C, D, Times

\* The places of a table are numbered from 0, those of a sequence from 1.
LEMMA Shift ==
    ASSUME NEW n \in Nat
    PROVE  [k \in 0 .. n - 1 |-> k + 1] \in Bijection(0 .. n - 1, 1 .. n)
<1> DEFINE p == [k \in 0 .. n - 1 |-> k + 1]
<1>1. p \in [0 .. n - 1 -> 1 .. n] /\ \A k, l \in 0 .. n - 1 : p[k] = p[l] => k = l
  OBVIOUS
<1>2. ASSUME NEW m \in 1 .. n PROVE \E k \in 0 .. n - 1 : p[k] = m
  <2>1. m - 1 \in 0 .. n - 1 /\ p[m - 1] = m
    OBVIOUS
  <2> QED BY <2>1
<1> HIDE DEF p
<1>3. p \in Bijection(0 .. n - 1, 1 .. n)
  BY <1>1, <1>2 DEF Bijection, Injection, Surjection, IsInjective
<1> QED BY <1>3 DEF p

LEMMA Sizes ==
    ASSUME NEW m \in Nat
    PROVE  /\ IsFiniteSet(1 .. m) /\ Cardinality(1 .. m) = m
           /\ IsFiniteSet(0 .. m - 1) /\ Cardinality(0 .. m - 1) = m
BY FS_Interval

LEMMA TableOfList ==
    ASSUME NEW l
    PROVE  /\ TableOf(l).nr = Len(l)
           /\ \A k \in Slots : k < Len(l) => TableOf(l).entry[k] = SortByRssi(l)[k + 1]
BY DEF TableOf, EmptyTable, Slots

\* The table of some places of a table: all their entries, the stronger ones first.
SortedCopy(u, t, places) ==
    /\ u.nr = Cardinality(places)
    /\ \A e : Cardinality({k \in Used(u) : u.entry[k] = e})
                  = Cardinality({i \in places : t.entry[i] = e})
    /\ \A k, l \in Used(u) : k < l => u.entry[k].rssi >= u.entry[l].rssi

LEMMA SortedTable ==
    ASSUME NEW t, IsTable(t), NEW places \in SUBSET Used(t)
    PROVE  SortedCopy(TableOf(CopyEntries(t, places)), t, places)
<1> DEFINE c == CopyEntries(t, places)
           n == Len(c)
           s == SortByRssi(c)
           u == TableOf(c)
<1>1. t.nr \in Nat /\ t.nr <= TableLen /\ Used(t) = 0 .. t.nr - 1
      /\ \A i \in 0 .. t.nr - 1 : t.entry[i] \in Entries
  BY TableAssumption DEF IsTable, Used, Slots
<1>2. c \in Seq(Entries) /\ CopiedTo(c, t, places, t.nr) /\ Before(places, t.nr) = places
  BY <1>1, Copy, BeforeEnds
<1> HIDE DEF c
<1>3. n \in Nat /\ c \in [1 .. n -> Entries]
  BY <1>2
<1>4. PICK p \in Bijection(1 .. n, places) : \A k \in 1 .. n : c[k] = t.entry[p[k]]
  BY <1>2 DEF CopiedTo
<1>5. IsFiniteSet(1 .. n) /\ Cardinality(1 .. n) = n
  BY <1>3, Sizes
<1>6. Cardinality(places) = n /\ n <= t.nr
  <2>1. ExistsBijection(1 .. n, places)
    BY <1>4 DEF ExistsBijection
  <2>2. Cardinality(places) = n
    BY <1>5, <2>1, FS_Bijection
  <2>3. IsFiniteSet(Used(t)) /\ Cardinality(Used(t)) = t.nr
    BY <1>1, Sizes
  <2>4. Cardinality(places) <= t.nr
    BY <2>3, FS_Subset
  <2> QED BY <2>2, <2>4
<1>7. \A e \in Entries : e.rssi \in Nat
  BY DEF Entries
<1>8. /\ s \in [1 .. n -> Entries] /\ Permuted(s, c, n)
      /\ \A k, l \in 1 .. n : k < l => s[k].rssi >= s[l].rssi
  <2> HIDE DEF n
  <2> QED BY <1>3, <1>7, Sort
<1> HIDE DEF s
<1>9. /\ u.nr = n /\ Used(u) = 0 .. n - 1
      /\ \A k \in 0 .. n - 1 : u.entry[k] = s[k + 1]
  <2>1. u.nr = n /\ \A k \in Slots : k < n => u.entry[k] = s[k + 1]
    BY TableOfList DEF s
  <2>2. \A k \in 0 .. n - 1 : k \in Slots /\ k < n
    BY <1>1, <1>3, <1>6, TableAssumption DEF Slots
  <2> QED BY <2>1, <2>2 DEF Used
<1> HIDE DEF u, n
<1>10. ASSUME NEW e
       PROVE  Cardinality({k \in Used(u) : u.entry[k] = e})
                  = Cardinality({i \in places : t.entry[i] = e})
  <2> DEFINE v == u.entry
             w == t.entry
             up == [k \in 0 .. n - 1 |-> k + 1]
  <2>1. up \in Bijection(0 .. n - 1, 1 .. n) /\ \A k \in 0 .. n - 1 : v[k] = s[up[k]]
    BY <1>3, <1>9, Shift
  <2>2. \A k \in 1 .. n : c[k] = w[p[k]]
    BY <1>4
  <2> HIDE DEF v, w, up
  <2>3. Rearranged(v, 0 .. n - 1, s, 1 .. n)
    BY <2>1 DEF Rearranged
  <2>4. Rearranged(s, 1 .. n, c, 1 .. n)
    BY <1>8 DEF Permuted, Rearranged
  <2>5. Rearranged(c, 1 .. n, w, places)
    BY <1>4, <2>2 DEF Rearranged
  <2>6. IsFiniteSet(0 .. n - 1) /\ IsFiniteSet(1 .. n)
    BY <1>3, Sizes
  <2>7. /\ Times(v, 0 .. n - 1, e) = Times(s, 1 .. n, e)
        /\ Times(s, 1 .. n, e) = Times(c, 1 .. n, e)
        /\ Times(c, 1 .. n, e) = Times(w, places, e)
    BY <2>3, <2>4, <2>5, <2>6, SameCount
  <2> QED BY <1>9, <2>7 DEF Times, v, w
<1>11. ASSUME NEW k \in Used(u), NEW l \in Used(u), k < l
       PROVE  u.entry[k].rssi >= u.entry[l].rssi
  <2>1. k + 1 \in 1 .. n /\ l + 1 \in 1 .. n /\ k + 1 < l + 1
    BY <1>3, <1>9, <1>11
  <2> QED BY <1>8, <1>9, <1>11, <2>1
<1> QED BY <1>3, <1>6, <1>9, <1>10, <1>11 DEF SortedCopy, u, c

\* The candidates of a request are all the entries of ScanTab that fit it, each as often as
\* ScanTab has it, and the stronger comes before the weaker: whatever the order, the number
\* and the signals of the entries (BssTableSsidSort and BssTableSortByRssi, mlme.c).
THEOREM CandidatesAreSorted == TblSpec => []CandidatesSorted
<1>1. TblInv => CandidatesSorted
  <2> SUFFICES ASSUME TblInv, NEW ssid \in Ssids
               PROVE  LET t == BssTableSsidSort(ssid)
                          fitting == {i \in Used(scanTab) :
                                         scanTab.entry[i].fits /\ scanTab.entry[i].ssid = ssid}
                      IN  /\ t.nr = Cardinality(fitting)
                          /\ \A e \in {scanTab.entry[i] : i \in fitting} :
                              Cardinality({k \in Used(t) : t.entry[k] = e})
                                  = Cardinality({i \in fitting : scanTab.entry[i] = e})
                          /\ \A k \in Used(t), l \in Used(t) :
                              k < l => t.entry[k].rssi >= t.entry[l].rssi
    BY DEF CandidatesSorted
  <2> DEFINE Candidate(e) == e.fits /\ e.ssid # NoSsid /\ (ssid = NoSsid \/ e.ssid = ssid)
             places == {i \in Used(scanTab) : Candidate(scanTab.entry[i])}
             fitting == {i \in Used(scanTab) :
                            scanTab.entry[i].fits /\ scanTab.entry[i].ssid = ssid}
             t == TableOf(CopyEntries(scanTab, places))
  <2>1. ssid # NoSsid
    BY BeaconAssumption
  <2>2. places = fitting
    BY <2>1
  <2>3. BssTableSsidSort(ssid) = t
    BY DEF BssTableSsidSort
  <2>4. IsTable(scanTab) /\ places \in SUBSET Used(scanTab)
    BY DEF TblInv
  <2> HIDE DEF places
  <2>5. SortedCopy(t, scanTab, places)
    BY <2>4, SortedTable
  <2> HIDE DEF t, fitting
  <2>6. SortedCopy(BssTableSsidSort(ssid), scanTab, fitting)
    BY <2>2, <2>3, <2>5
  <2>7. \A e : Cardinality({k \in Used(BssTableSsidSort(ssid)) :
                                 BssTableSsidSort(ssid).entry[k] = e})
                   = Cardinality({i \in fitting : scanTab.entry[i] = e})
    BY <2>6 DEF SortedCopy
  <2>8. /\ BssTableSsidSort(ssid).nr = Cardinality(fitting)
        /\ \A k, l \in Used(BssTableSsidSort(ssid)) :
             k < l => BssTableSsidSort(ssid).entry[k].rssi >= BssTableSsidSort(ssid).entry[l].rssi
    BY <2>6 DEF SortedCopy
  <2> QED BY <2>7, <2>8 DEF fitting
<1> QED BY TblInvInit, TblInvNext, <1>1, PTL DEF TblSpec
---------------------------------------------------------------------------
(* The ciphers of a BSS *)

\* g folds the sets of 1 .. n, each from its largest element down.
FoldsSets(g, n, X, a, step) ==
    /\ g \in [SUBSET (1 .. n) -> X]
    /\ \A s \in SUBSET (1 .. n) :
        g[s] = IF s = {} THEN a ELSE step[Max(s)][g[s \ {Max(s)}]]

LEMMA MaxIs ==
    ASSUME NEW n \in Nat, NEW s \in SUBSET (1 .. n), n \in s
    PROVE  Max(s) = n
<1>1. \A y \in s : n >= y
  OBVIOUS
<1>2. ASSUME NEW x \in s, \A y \in s : x >= y PROVE x = n
  BY <1>2
<1> QED BY <1>1, <1>2 DEF Max

LEMMA MaxIn ==
    ASSUME NEW n \in Nat, NEW s \in SUBSET (1 .. n), s # {}
    PROVE  Max(s) \in s
<1> DEFINE T == {n - x : x \in s}
<1>0. \A x \in s : x \in 1 .. n
  OBVIOUS
<1>1. T \subseteq Nat /\ T # {}
  <2>1. \A x \in s : n - x \in Nat
    BY <1>0
  <2>2. T # {}
    OBVIOUS
  <2> QED BY <2>1, <2>2
<1>2. PICK m \in T : \A y \in T : m <= y
  <2> HIDE DEF T
  <2> QED BY <1>1, Least
<1>3. PICK x \in s : m = n - x
  BY <1>2
<1>4. \A y \in s : n - y \in T
  OBVIOUS
<1>5. \A y \in s : x >= y
  BY <1>0, <1>2, <1>3, <1>4
<1> QED BY <1>5 DEF Max

\* The function by which MapThenFoldSet folds exists.
LEMMA SetRecursion ==
    ASSUME NEW n \in Nat, NEW X, NEW a \in X, NEW step \in [1 .. n -> [X -> X]]
    PROVE  \E g : FoldsSets(g, n, X, a, step)
<1> DEFINE T == {k \in 0 .. n : \E g : FoldsSets(g, k, X, a, step)}
<1>1. 0 \in T
  <2> DEFINE h == [s \in SUBSET (1 .. 0) |-> a]
  <2>1. \A s \in SUBSET (1 .. 0) : s = {}
    OBVIOUS
  <2>2. FoldsSets(h, 0, X, a, step)
    BY <2>1 DEF FoldsSets
  <2> HIDE DEF h
  <2> QED BY <2>2
<1>2. ASSUME NEW k \in 1 .. n, k - 1 \in T PROVE k \in T
  <2>1. PICK g : FoldsSets(g, k - 1, X, a, step)
    BY <1>2
  <2> DEFINE h == [s \in SUBSET (1 .. k) |-> IF k \in s THEN step[k][g[s \ {k}]] ELSE g[s]]
  <2>2. \A s \in SUBSET (1 .. k) : s \ {k} \in SUBSET (1 .. k - 1)
    OBVIOUS
  <2>3. \A s \in SUBSET (1 .. k) : k \notin s => s \in SUBSET (1 .. k - 1)
    OBVIOUS
  <2>4. h \in [SUBSET (1 .. k) -> X]
    BY <2>1, <2>2, <2>3 DEF FoldsSets
  <2>5. ASSUME NEW s \in SUBSET (1 .. k)
        PROVE  h[s] = IF s = {} THEN a ELSE step[Max(s)][h[s \ {Max(s)}]]
    <3>1. CASE k \in s
      <4>1. Max(s) = k
        BY <3>1, MaxIs
      <4>2. h[s \ {k}] = g[s \ {k}] /\ h[s] = step[k][g[s \ {k}]]
        BY <3>1
      <4> QED BY <3>1, <4>1, <4>2
    <3>2. CASE k \notin s
      <4>1. s \in SUBSET (1 .. k - 1)
        BY <2>3, <3>2
      <4>2. h[s] = g[s] /\ h[s \ {Max(s)}] = g[s \ {Max(s)}]
        BY <3>2
      <4> QED BY <2>1, <4>1, <4>2 DEF FoldsSets
    <3> QED BY <3>1, <3>2
  <2> HIDE DEF h
  <2>6. FoldsSets(h, k, X, a, step)
    BY <2>4, <2>5 DEF FoldsSets
  <2> QED BY <2>6
<1>3. 0 .. n \subseteq T
  <2> HIDE DEF T
  <2> QED BY <1>1, <1>2, Induction
<1> QED BY <1>3

Ciphers == {Wep, Disabled, Tkip, Aes}
Security == [group : Ciphers, pair : Ciphers, aux : Ciphers, mix : BOOLEAN]

LEMMA SuiteIsACipher == \A type : Suite(type) \in Ciphers
BY DEF Suite, Ciphers, Wep, Disabled, Tkip, Aes

LEMMA AddKeeps ==
    ASSUME NEW s \in Security, NEW type
    PROVE  /\ AddPairCipher(s, type) \in Security
           /\ AddPairCipher(s, type).group = s.group
           /\ AddPairCipher(s, type).mix = s.mix
           /\ AddPairCipher(s, type).pair = IF Suite(type) > s.pair THEN Suite(type) ELSE s.pair
           /\ AddPairCipher(s, type).aux = IF Suite(type) > s.pair THEN s.pair ELSE Suite(type)
BY SuiteIsACipher DEF AddPairCipher, Security

\* f is the course of the loop over the pairwise ciphers of an element.
PairsRun(f, n, s, pairs) ==
    /\ f \in [0 .. n -> Security] /\ FoldLeft(AddPairCipher, s, pairs) = f[n] /\ f[0] = s
    /\ \A i \in 1 .. n : f[i] = AddPairCipher(f[i - 1], pairs[i])

LEMMA PairsCompute ==
    ASSUME NEW n \in Nat, NEW pairs, DOMAIN pairs = 1 .. n, NEW s \in Security
    PROVE  \E f : PairsRun(f, n, s, pairs)
<1> DEFINE step == [i \in 1 .. n |-> [t \in Security |-> AddPairCipher(t, pairs[i])]]
           Def(g) == g = [z \in SUBSET (1 .. n) |->
                             IF z = {} THEN s
                             ELSE AddPairCipher(g[z \ {Max(z)}], pairs[Max(z)])]
           g == CHOOSE h : Def(h)
<1>1. step \in [1 .. n -> [Security -> Security]]
  BY AddKeeps
<1>2. PICK h : FoldsSets(h, n, Security, s, step)
  <2> HIDE DEF step
  <2> QED BY <1>1, SetRecursion
<1>3. Def(h)
  <2>1. ASSUME NEW z \in SUBSET (1 .. n)
        PROVE  h[z] = IF z = {} THEN s ELSE AddPairCipher(h[z \ {Max(z)}], pairs[Max(z)])
    <3>1. CASE z = {}
      BY <1>2, <3>1 DEF FoldsSets
    <3>2. CASE z # {}
      <4>1. Max(z) \in 1 .. n /\ h[z \ {Max(z)}] \in Security
        BY <1>2, <3>2, MaxIn DEF FoldsSets
      <4>2. h[z] = step[Max(z)][h[z \ {Max(z)}]]
        BY <1>2, <3>2 DEF FoldsSets
      <4> QED BY <3>2, <4>1, <4>2
    <3> QED BY <3>1, <3>2
  <2>2. h = [z \in SUBSET (1 .. n) |-> h[z]]
    BY <1>2 DEF FoldsSets
  <2> QED BY <2>1, <2>2
<1>4. Def(g)
  BY <1>3
<1>5. FoldLeft(AddPairCipher, s, pairs) = g[1 .. n]
  BY DEF FoldLeft, MapThenFoldSet
<1> HIDE DEF g
<1> DEFINE f == [i \in 0 .. n |-> g[1 .. i]]
<1>6. f[0] = s /\ f[n] = g[1 .. n]
  <2>1. 1 .. 0 = {} /\ {} \in SUBSET (1 .. n)
    OBVIOUS
  <2>2. g[{}] = s
    BY <1>4, <2>1
  <2> QED BY <2>1, <2>2
<1>7. ASSUME NEW i \in 1 .. n PROVE f[i] = AddPairCipher(f[i - 1], pairs[i])
  <2>0. i \in 1 .. i /\ i \in Nat
    OBVIOUS
  <2>1. 1 .. i \in SUBSET (1 .. n) /\ 1 .. i # {} /\ (1 .. i) \ {i} = 1 .. i - 1
    <3>1. \A x \in 1 .. i : x \in 1 .. n
      OBVIOUS
    <3>2. \A x : x \in (1 .. i) \ {i} <=> x \in 1 .. i - 1
      OBVIOUS
    <3> QED BY <2>0, <3>1, <3>2
  <2>2. Max(1 .. i) = i
    BY <2>0, MaxIs
  <2>3. g[1 .. i] = AddPairCipher(g[1 .. i - 1], pairs[i])
    BY <1>4, <2>1, <2>2
  <2> QED BY <2>3
<1> HIDE DEF f
<1>8. \A i \in 0 .. n : f[i] \in Security
  <2> DEFINE T == {i \in 0 .. n : f[i] \in Security}
  <2>1. 0 \in T
    BY <1>6
  <2>2. ASSUME NEW i \in 1 .. n, i - 1 \in T PROVE i \in T
    BY <1>7, <2>2, AddKeeps
  <2>3. 0 .. n \subseteq T
    <3> HIDE DEF T
    <3> QED BY <2>1, <2>2, Induction
  <2> QED BY <2>3
<1>9. f \in [0 .. n -> Security]
  BY <1>8 DEF f
<1> QED BY <1>5, <1>6, <1>7, <1>9 DEF PairsRun

CiphersOf(pairs) == {Suite(pairs[i]) : i \in DOMAIN pairs}

\* The two places hold ciphers of the element or what they held before, and none of the
\* element is stronger than the first.
LEMMA PairsKept ==
    ASSUME NEW n \in Nat, NEW pairs, DOMAIN pairs = 1 .. n, NEW s \in Security
    PROVE  LET r == FoldLeft(AddPairCipher, s, pairs)
           IN  /\ r \in Security /\ r.group = s.group /\ r.mix = s.mix
               /\ r.pair \in CiphersOf(pairs) \cup {s.pair, s.aux}
               /\ r.aux \in CiphersOf(pairs) \cup {s.pair, s.aux}
               /\ \A cipher \in CiphersOf(pairs) : r.pair >= cipher
<1>0. PICK f : PairsRun(f, n, s, pairs)
  BY PairsCompute
<1>1. /\ f \in [0 .. n -> Security] /\ FoldLeft(AddPairCipher, s, pairs) = f[n] /\ f[0] = s
      /\ \A i \in 1 .. n : f[i] = AddPairCipher(f[i - 1], pairs[i])
  BY <1>0 DEF PairsRun
<1> DEFINE L == CiphersOf(pairs)
           Good(r, i) == /\ r.group = s.group /\ r.mix = s.mix
                         /\ r.pair \in L \cup {s.pair, s.aux}
                         /\ r.aux \in L \cup {s.pair, s.aux}
                         /\ \A k \in 1 .. i : r.pair >= Suite(pairs[k])
           T == {i \in 0 .. n : Good(f[i], i)}
<1>2. 0 \in T
  BY <1>1
<1>3. ASSUME NEW i \in 1 .. n, i - 1 \in T PROVE i \in T
  <2> DEFINE r == f[i - 1]
             c == Suite(pairs[i])
  <2>1. r \in Security /\ Good(r, i - 1)
    BY <1>1, <1>3
  <2>2. f[i] = AddPairCipher(r, pairs[i])
    BY <1>1
  <2>3. /\ f[i].group = r.group /\ f[i].mix = r.mix
        /\ f[i].pair = IF c > r.pair THEN c ELSE r.pair
        /\ f[i].aux = IF c > r.pair THEN r.pair ELSE c
    BY <2>1, <2>2, AddKeeps
  <2>4. c \in L
    BY DEF CiphersOf
  <2>5. \A k \in 1 .. i : f[i].pair >= Suite(pairs[k])
    <3> TAKE k \in 1 .. i
    <3>1. r.pair \in Int /\ c \in Int /\ Suite(pairs[k]) \in Int
      BY <2>1, SuiteIsACipher DEF Security, Ciphers, Wep, Disabled, Tkip, Aes
    <3>2. k # i => r.pair >= Suite(pairs[k])
      <4>1. k # i => k \in 1 .. i - 1
        OBVIOUS
      <4> QED BY <2>1, <4>1
    <3> HIDE DEF r
    <3> QED BY <2>3, <3>1, <3>2
  <2> HIDE DEF r, c, L
  <2> QED BY <2>1, <2>3, <2>4, <2>5
<1>4. 0 .. n \subseteq T
  <2> HIDE DEF T
  <2> QED BY <1>2, <1>3, Induction
<1>5. Good(f[n], n)
  BY <1>4
<1> QED BY <1>1, <1>5 DEF CiphersOf

\* Both elements are parsed, in their order.
LEMMA TwoElements ==
    ASSUME NEW privacy, NEW adhoc, NEW e1, NEW e2
    PROVE  BssCipherParse(privacy, adhoc, <<e1, e2>>)
               = ParseElement(ParseElement(Unparsed(privacy, adhoc), e1), e2)
<1> DEFINE ies == <<e1, e2>>
           b == Unparsed(privacy, adhoc)
           Def(g) == g = [z \in SUBSET (DOMAIN ies) |->
                             IF z = {} THEN b ELSE ParseElement(g[z \ {Max(z)}], ies[Max(z)])]
           g == CHOOSE h : Def(h)
           h == [z \in SUBSET {1, 2} |->
                    IF z = {} THEN b
                    ELSE IF 2 \notin z THEN ParseElement(b, e1)
                    ELSE IF 1 \notin z THEN ParseElement(b, e2)
                    ELSE ParseElement(ParseElement(b, e1), e2)]
<1>1. DOMAIN ies = {1, 2} /\ ies[1] = e1 /\ ies[2] = e2 /\ {1, 2} = 1 .. 2 /\ {1} = 1 .. 1
  OBVIOUS
<1>2. \A z \in SUBSET {1, 2} : z = {} \/ z = {1} \/ z = {2} \/ z = {1, 2}
  OBVIOUS
<1>3. Max({1}) = 1 /\ Max({2}) = 2 /\ Max({1, 2}) = 2
  <2>1. {1} \in SUBSET (1 .. 1) /\ {2} \in SUBSET (1 .. 2) /\ {1, 2} \in SUBSET (1 .. 2)
    OBVIOUS
  <2> QED BY <2>1, MaxIs
<1>4. {1} \ {1} = {} /\ {2} \ {2} = {} /\ {1, 2} \ {2} = {1}
  OBVIOUS
<1>5. /\ h[{}] = b /\ h[{1}] = ParseElement(b, e1) /\ h[{2}] = ParseElement(b, e2)
      /\ h[{1, 2}] = ParseElement(ParseElement(b, e1), e2)
  OBVIOUS
<1>6. h = [z \in SUBSET {1, 2} |-> h[z]]
  OBVIOUS
<1> HIDE DEF h
<1>7. \A z \in SUBSET {1, 2} :
          h[z] = IF z = {} THEN b ELSE ParseElement(h[z \ {Max(z)}], ies[Max(z)])
  BY <1>1, <1>2, <1>3, <1>4, <1>5
<1>8. Def(h)
  <2>1. h = [z \in SUBSET {1, 2} |->
                IF z = {} THEN b ELSE ParseElement(h[z \ {Max(z)}], ies[Max(z)])]
    BY <1>6, <1>7
  <2> QED BY <1>1, <2>1
<1>9. Def(g)
  BY <1>8
<1>10. BssCipherParse(privacy, adhoc, ies) = g[DOMAIN ies]
  BY DEF BssCipherParse, FoldLeft, MapThenFoldSet
<1> HIDE DEF g
<1>11. g[{}] = b /\ g[{1}] = ParseElement(g[{}], e1) /\ g[{1, 2}] = ParseElement(g[{1}], e2)
  <2> DEFINE F(z) == IF z = {} THEN b ELSE ParseElement(g[z \ {Max(z)}], ies[Max(z)])
  <2>1. \A z \in SUBSET {1, 2} : g[z] = F(z)
    <3>1. g = [z \in SUBSET {1, 2} |-> F(z)]
      BY <1>1, <1>9
    <3> HIDE DEF F
    <3> QED BY <3>1
  <2>2. g[{}] = b
    BY <2>1
  <2>3. g[{1}] = ParseElement(g[{}], e1)
    BY <1>1, <1>3, <1>4, <2>1
  <2>4. g[{1, 2}] = ParseElement(g[{1}], e2)
    BY <1>1, <1>3, <1>4, <2>1
  <2> QED BY <2>2, <2>3, <2>4
<1> QED BY <1>1, <1>10, <1>11

\* Where an element lists two ciphers, both are kept, but for WEP.
LEMMA TwoPairs ==
    ASSUME NEW n \in 0 .. 2, NEW pairs, DOMAIN pairs = 1 .. n, NEW s \in Security,
           s.pair = Disabled, s.aux = Disabled
    PROVE  LET r == FoldLeft(AddPairCipher, s, pairs)
           IN  CiphersOf(pairs) \ {Wep} \subseteq {r.pair, r.aux}
<1>0. PICK f : PairsRun(f, n, s, pairs)
  BY PairsCompute
<1>1. /\ f \in [0 .. n -> Security] /\ FoldLeft(AddPairCipher, s, pairs) = f[n] /\ f[0] = s
      /\ \A i \in 1 .. n : f[i] = AddPairCipher(f[i - 1], pairs[i])
  BY <1>0 DEF PairsRun
<1>2. \A i \in 1 .. n :
          LET c == Suite(pairs[i])
          IN  /\ c \in Ciphers
              /\ f[i].pair = IF c > f[i - 1].pair THEN c ELSE f[i - 1].pair
              /\ f[i].aux = IF c > f[i - 1].pair THEN f[i - 1].pair ELSE c
  <2> TAKE i \in 1 .. n
  <2>1. f[i - 1] \in Security /\ f[i] = AddPairCipher(f[i - 1], pairs[i])
    BY <1>1
  <2> QED BY <2>1, AddKeeps, SuiteIsACipher
<1>3. CASE n = 0
  <2>1. CiphersOf(pairs) = {}
    BY <1>3 DEF CiphersOf
  <2> QED BY <2>1
<1>4. CASE n = 1
  <2> DEFINE c == Suite(pairs[1])
  <2>1. CiphersOf(pairs) = {c}
    BY <1>4 DEF CiphersOf
  <2>2. c \in Ciphers /\ f[1].pair = (IF c > f[0].pair THEN c ELSE f[0].pair)
        /\ f[1].aux = IF c > f[0].pair THEN f[0].pair ELSE c
    BY <1>2, <1>4
  <2> HIDE DEF c
  <2> QED BY <1>1, <1>4, <2>1, <2>2 DEF Ciphers, Wep, Disabled, Tkip, Aes
<1>5. CASE n = 2
  <2> DEFINE c == Suite(pairs[1])
             d == Suite(pairs[2])
  <2>1. CiphersOf(pairs) = {c, d}
    BY <1>5 DEF CiphersOf
  <2>2. c \in Ciphers /\ f[1].pair = (IF c > f[0].pair THEN c ELSE f[0].pair)
        /\ f[1].aux = IF c > f[0].pair THEN f[0].pair ELSE c
    BY <1>2, <1>5
  <2>3. d \in Ciphers /\ f[2].pair = (IF d > f[1].pair THEN d ELSE f[1].pair)
        /\ f[2].aux = IF d > f[1].pair THEN f[1].pair ELSE d
    BY <1>2, <1>5
  <2> HIDE DEF c, d
  <2> QED BY <1>1, <1>5, <2>1, <2>2, <2>3 DEF Ciphers, Wep, Disabled, Tkip, Aes
<1> QED BY <1>3, <1>4, <1>5

\* An entry of a BSS, its security being that of WPA and of WPA2 elements.
IsEntry(b) ==
    /\ b = [wep |-> b.wep, auth |-> b.auth, akms |-> b.akms, adhoc |-> b.adhoc, WPA |-> b.WPA,
            WPA2 |-> b.WPA2]
    /\ b.WPA \in Security /\ b.WPA2 \in Security
    /\ b.auth # "WPANone"

LEMMA AkmsKeep ==
    ASSUME NEW b, IsEntry(b), NEW ie
    PROVE  LET a == ParseAkms(b, ie)
           IN  IsEntry(a) /\ a.WPA = b.WPA /\ a.WPA2 = b.WPA2 /\ a.adhoc = b.adhoc
<1> DEFINE known == SelectSeq(ie.akms, LAMBDA akm : akm \in {1, 2})
           akms == b.akms \cup {AkmName(ie.eid, akm) : akm \in ToSet(known)}
           auth == IF known = <<>> THEN b.auth ELSE AkmName(ie.eid, Last(known))
<1>1. ParseAkms(b, ie) = [b EXCEPT !.akms = akms, !.auth = auth]
  BY DEF ParseAkms
<1>2. auth # "WPANone"
  BY DEF AkmName, IsEntry
<1> HIDE DEF akms, auth
<1> QED BY <1>1, <1>2 DEF IsEntry

GroupOf(s, ie) == IF Suite(ie.group) = Disabled THEN s.group ELSE Suite(ie.group)

LEMMA SuitesKept ==
    ASSUME NEW s \in Security, NEW n \in Nat, NEW ie, DOMAIN ie.pairs = 1 .. n
    PROVE  LET r == ParseSuites(s, ie)
           IN  /\ r \in Security /\ r.group = GroupOf(s, ie) /\ r.mix = s.mix
               /\ r.pair \in Listed(ie) \cup {s.pair, s.aux}
               /\ r.aux \in Listed(ie) \cup {s.pair, s.aux}
               /\ \A cipher \in Listed(ie) : r.pair >= cipher
               /\ n <= 2 /\ s.pair = Disabled /\ s.aux = Disabled
                      => Listed(ie) \ {Wep} \subseteq {r.pair, r.aux}
<1> DEFINE t == [s EXCEPT !.group = GroupOf(s, ie)]
           r == FoldLeft(AddPairCipher, t, ie.pairs)
<1>1. /\ t \in Security /\ t.group = GroupOf(s, ie) /\ t.mix = s.mix /\ t.pair = s.pair
      /\ t.aux = s.aux
  BY SuiteIsACipher DEF Security, GroupOf
<1>2. ParseSuites(s, ie) = r
  BY DEF ParseSuites, GroupOf
<1>3. Listed(ie) = CiphersOf(ie.pairs)
  BY DEF Listed, CiphersOf
<1> HIDE DEF t
<1>4. /\ r \in Security /\ r.group = t.group /\ r.mix = t.mix
      /\ r.pair \in CiphersOf(ie.pairs) \cup {t.pair, t.aux}
      /\ r.aux \in CiphersOf(ie.pairs) \cup {t.pair, t.aux}
      /\ \A cipher \in CiphersOf(ie.pairs) : r.pair >= cipher
  BY <1>1, PairsKept
<1>5. n <= 2 /\ t.pair = Disabled /\ t.aux = Disabled
          => CiphersOf(ie.pairs) \ {Wep} \subseteq {r.pair, r.aux}
  <2>1. n <= 2 => n \in 0 .. 2
    OBVIOUS
  <2> QED BY <1>1, <2>1, TwoPairs
<1> HIDE DEF r
<1> QED BY <1>1, <1>2, <1>3, <1>4, <1>5

Mixing(s) == [s EXCEPT !.mix = Mixed(s)]

LEMMA MixingKeeps ==
    ASSUME NEW s \in Security
    PROVE  /\ Mixing(s) \in Security
           /\ Mixing(s).group = s.group /\ Mixing(s).pair = s.pair /\ Mixing(s).aux = s.aux
           /\ Mixing(s).mix = Mixed(s)
<1>1. Mixed(s) \in BOOLEAN
  BY DEF Mixed, Security
<1> QED BY <1>1 DEF Mixing, Security

\* What an element does to an entry that is not one of an IBSS.
LEMMA Element1 ==
    ASSUME NEW b, IsEntry(b), b.adhoc = FALSE, NEW ie, NEW n \in Nat, DOMAIN ie.pairs = 1 .. n
    PROVE  LET c == ParseElement(b, ie)
               w == ParseSuites(b.WPA, ie)
               r == ParseSuites(b.WPA2, ie)
           IN  /\ IsEntry(c) /\ c.adhoc = FALSE
               /\ c.WPA = IF ie.ours /\ ie.eid = "WPA" THEN Mixing(w) ELSE b.WPA
               /\ c.WPA2 = IF ie.ours /\ ie.eid # "WPA"
                           THEN IF ie.akmOurs THEN Mixing(r) ELSE r ELSE b.WPA2
<1> DEFINE w == ParseSuites(b.WPA, ie)
           r == ParseSuites(b.WPA2, ie)
           a == ParseAkms(b, ie)
<1>1. w \in Security /\ r \in Security /\ b.WPA \in Security /\ b.WPA2 \in Security
  BY SuitesKept DEF IsEntry
<1>2. IsEntry(a) /\ a.WPA = b.WPA /\ a.WPA2 = b.WPA2 /\ a.adhoc = b.adhoc
  BY AkmsKeep
<1>3. Mixing(w) \in Security /\ Mixing(r) \in Security
  BY <1>1, MixingKeeps
<1>4. ParseElement(b, ie) =
          IF ~ie.ours THEN b
          ELSE IF ie.eid = "WPA" THEN [a EXCEPT !.wep = w.pair, !.WPA = Mixing(w)]
          ELSE IF ~ie.akmOurs THEN [b EXCEPT !.WPA2 = r]
          ELSE [a EXCEPT !.wep = r.pair, !.WPA2 = Mixing(r), !.auth = a.auth, !.WPA = a.WPA]
  BY DEF ParseElement, ParseWpa, ParseRsn, Mixing
<1> HIDE DEF w, r, a
<1>5. CASE ~ie.ours
  BY <1>4, <1>5
<1>6. CASE ie.ours /\ ie.eid = "WPA"
  BY <1>1, <1>2, <1>3, <1>4, <1>6 DEF IsEntry, w
<1>7. CASE ie.ours /\ ie.eid # "WPA" /\ ~ie.akmOurs
  BY <1>1, <1>2, <1>3, <1>4, <1>7 DEF IsEntry, r
<1>8. CASE ie.ours /\ ie.eid # "WPA" /\ ie.akmOurs
  BY <1>1, <1>2, <1>3, <1>4, <1>8 DEF IsEntry, r
<1> QED BY <1>5, <1>6, <1>7, <1>8

\* The elements of CipherInit: the first one lists ciphers, the second AES only.
LEMMA ListsOf ==
    ASSUME NEW e \in Element, NEW other
    PROVE  /\ \E n \in Nat : DOMAIN e.pairs = 1 .. n /\ Len(e.pairs) = n
           /\ Listed(e) # {} /\ Listed(e) \subseteq {Wep, Tkip, Aes}
           /\ DOMAIN OtherElement(other).pairs = 1 .. 1
           /\ Listed(OtherElement(other)) = {Aes}
<1>1. PICK n \in 0 .. MaxCiphers : e.pairs \in [1 .. n -> {1, 2, 4}]
  BY CipherAssumption DEF Element, SeqOf
<1>2. n \in Nat /\ e.pairs # <<>>
  BY <1>1, CipherAssumption DEF Element
<1>3. DOMAIN e.pairs = 1 .. n /\ Len(e.pairs) = n
  BY <1>1, <1>2
<1>4. n # 0
  <2> SUFFICES ASSUME n = 0 PROVE e.pairs = <<>>
    BY <1>2
  <2>1. e.pairs \in Seq({1, 2, 4}) /\ Len(e.pairs) = 0
    BY <1>1, <1>2, <1>3
  <2> QED BY <2>1
<1>5. Suite(e.pairs[1]) \in Listed(e)
  BY <1>2, <1>3, <1>4 DEF Listed
<1>6. \A i \in 1 .. n : Suite(e.pairs[i]) \in {Wep, Tkip, Aes}
  BY <1>1 DEF Suite
<1>7. Listed(e) \subseteq {Wep, Tkip, Aes}
  BY <1>3, <1>6 DEF Listed
<1>8. DOMAIN OtherElement(other).pairs = 1 .. 1 /\ OtherElement(other).pairs[1] = 4
  BY DEF OtherElement
<1>9. Listed(OtherElement(other)) = {Aes}
  <2>1. Suite(4) = Aes
    BY DEF Suite
  <2> QED BY <1>8, <2>1 DEF Listed
<1> QED BY <1>2, <1>3, <1>5, <1>7, <1>8, <1>9

\* What the entry holds when both elements are read.
FromFirst(e) ==
    LET s == ParseSuites(NoSecurity, e) IN IF e.eid = "RSN" /\ ~e.akmOurs THEN s ELSE Mixing(s)

LEMMA Offered ==
    ASSUME NEW e \in Element, NEW other \in BOOLEAN, NEW privacy, NEW adhoc, adhoc = FALSE
    PROVE  LET b == BssCipherParse(privacy, adhoc, <<e, OtherElement(other)>>)
               rsn == IF e.eid = "WPA" THEN NoSecurity ELSE FromFirst(e)
           IN  /\ NoSecurity \in Security /\ FromFirst(e) \in Security
               /\ b.WPA = IF e.eid = "WPA" THEN FromFirst(e) ELSE NoSecurity
               /\ b.WPA2 = IF other THEN Mixing(ParseSuites(rsn, OtherElement(other))) ELSE rsn
               /\ b.auth # "WPANone"
<1> DEFINE u == Unparsed(privacy, adhoc)
           o == OtherElement(other)
           c == ParseElement(u, e)
           rsn == IF e.eid = "WPA" THEN NoSecurity ELSE FromFirst(e)
<1>1. NoSecurity \in Security
  BY DEF NoSecurity, Security, Ciphers
<1>2. IsEntry(u) /\ u.adhoc = FALSE /\ u.WPA = NoSecurity /\ u.WPA2 = NoSecurity
  BY <1>1 DEF IsEntry, Unparsed
<1>3. PICK n \in Nat : DOMAIN e.pairs = 1 .. n
  BY ListsOf
<1>4. e.ours = TRUE /\ e.eid \in {"WPA", "RSN"} /\ e.akmOurs \in BOOLEAN
  BY DEF Element
<1>5. ParseSuites(NoSecurity, e) \in Security
  BY <1>1, <1>3, SuitesKept
<1>6. FromFirst(e) \in Security
  BY <1>5, MixingKeeps DEF FromFirst
<1> HIDE DEF u
<1>7. /\ IsEntry(c) /\ c.adhoc = FALSE
      /\ c.WPA = IF e.eid = "WPA" THEN FromFirst(e) ELSE NoSecurity
      /\ c.WPA2 = rsn
  BY <1>2, <1>3, <1>4, Element1 DEF FromFirst
<1>8. o.ours = other /\ o.eid = "RSN" /\ o.akmOurs = TRUE
  BY DEF OtherElement
<1>9. DOMAIN o.pairs = 1 .. 1
  BY ListsOf
<1> HIDE DEF c, o, rsn
<1>10. /\ ParseElement(c, o).WPA = c.WPA
       /\ ParseElement(c, o).WPA2 = IF other THEN Mixing(ParseSuites(c.WPA2, o)) ELSE c.WPA2
  BY <1>7, <1>8, <1>9, Element1
<1>11. BssCipherParse(privacy, adhoc, <<e, o>>)
           = ParseElement(ParseElement(Unparsed(privacy, adhoc), e), o)
  BY TwoElements
<1>12. BssCipherParse(privacy, adhoc, <<e, o>>) = ParseElement(c, o)
  BY <1>11 DEF c, u
<1>13. ParseElement(c, o).auth # "WPANone"
  BY <1>7, <1>8, <1>9, Element1 DEF IsEntry
<1> QED BY <1>1, <1>6, <1>7, <1>10, <1>12, <1>13 DEF rsn, o

\* What FromFirst holds of the element.
LEMMA First ==
    ASSUME NEW e \in Element
    PROVE  LET s == FromFirst(e)
           IN  /\ s \in Security
               /\ s.pair \in Listed(e) \cup {Disabled} /\ s.aux \in Listed(e) \cup {Disabled}
               /\ \A cipher \in Listed(e) : s.pair >= cipher
               /\ Len(e.pairs) <= 2 => Listed(e) \ {Wep} \subseteq {s.pair, s.aux}
               /\ s.mix = FALSE \/ s.group # s.pair
<1> DEFINE r == ParseSuites(NoSecurity, e)
<1>1. NoSecurity \in Security /\ NoSecurity.pair = Disabled /\ NoSecurity.aux = Disabled
      /\ NoSecurity.mix = FALSE
  BY DEF NoSecurity, Security, Ciphers
<1>2. PICK n \in Nat : DOMAIN e.pairs = 1 .. n /\ Len(e.pairs) = n
  BY ListsOf
<1> HIDE DEF r
<1>3. /\ r \in Security /\ r.mix = FALSE
      /\ r.pair \in Listed(e) \cup {Disabled} /\ r.aux \in Listed(e) \cup {Disabled}
      /\ \A cipher \in Listed(e) : r.pair >= cipher
      /\ Len(e.pairs) <= 2 => Listed(e) \ {Wep} \subseteq {r.pair, r.aux}
  BY <1>1, <1>2, SuitesKept DEF r
<1>4. Mixed(r) = (r.group # r.pair)
  BY <1>3 DEF Mixed
<1>5. /\ Mixing(r) \in Security /\ Mixing(r).pair = r.pair /\ Mixing(r).aux = r.aux
      /\ Mixing(r).mix = (r.group # r.pair) /\ Mixing(r).group = r.group
  BY <1>3, <1>4, MixingKeeps
<1>6. FromFirst(e) = r \/ FromFirst(e) = Mixing(r)
  BY DEF FromFirst, r
<1>7. CASE FromFirst(e) = r
  BY <1>3, <1>7
<1>8. CASE FromFirst(e) = Mixing(r)
  BY <1>3, <1>5, <1>8
<1> QED BY <1>6, <1>7, <1>8

\* An element that lists up to two pairwise ciphers has both of them kept, in either order and
\* with any group cipher, but for WEP (BssCipherParse, mlme.c).
THEOREM BothCiphersAreKept == CipherSpec => []PairCiphersKept
<1>1. CipherInit => PairCiphersKept
  <2> SUFFICES ASSUME CipherInit, ~cipherCase.adhoc, Len(cipherCase.ies[1].pairs) <= 2,
                      cipherCase.ies[1].eid = "RSN" => ~cipherCase.ies[2].ours
               PROVE  LET ie == cipherCase.ies[1]
                          s == IF ie.eid = "WPA" THEN Offers(cipherCase).WPA
                               ELSE Offers(cipherCase).WPA2
                      IN  Listed(ie) \ {Wep} \subseteq {s.pair, s.aux}
    BY DEF PairCiphersKept
  <2>1. PICK e \in Element, privacy \in BOOLEAN, adhoc \in BOOLEAN, other \in BOOLEAN :
            cipherCase = [ies |-> <<e, OtherElement(other)>>, privacy |-> privacy,
                          adhoc |-> adhoc]
    BY DEF CipherInit
  <2>0. adhoc = FALSE
    BY <2>1
  <2>2. adhoc = FALSE /\ cipherCase.ies[1] = e /\ cipherCase.ies[2] = OtherElement(other)
    BY <2>1
  <2> DEFINE b == BssCipherParse(privacy, adhoc, <<e, OtherElement(other)>>)
             s == IF e.eid = "WPA" THEN b.WPA ELSE b.WPA2
             rsn == IF e.eid = "WPA" THEN NoSecurity ELSE FromFirst(e)
  <2>3. Offers(cipherCase) = b
    BY <2>1, <2>2 DEF Offers
  <2>4. e.eid = "RSN" => other = FALSE
    BY <2>2 DEF OtherElement
  <2>5. e.eid \in {"WPA", "RSN"}
    BY DEF Element
  <2>6. s = FromFirst(e)
    <3>1. /\ NoSecurity \in Security /\ FromFirst(e) \in Security
          /\ b.WPA = IF e.eid = "WPA" THEN FromFirst(e) ELSE NoSecurity
          /\ b.WPA2 = IF other THEN Mixing(ParseSuites(rsn, OtherElement(other))) ELSE rsn
          /\ b.auth # "WPANone"
      BY <2>0, Offered
    <3> HIDE DEF b
    <3>2. CASE e.eid = "WPA"
      BY <3>1, <3>2
    <3>3. CASE e.eid = "RSN"
      <4>1. b.WPA2 = rsn
        BY <2>4, <3>1, <3>3
      <4> QED BY <3>3, <4>1
    <3> QED BY <2>5, <3>2, <3>3
  <2> HIDE DEF b
  <2>7. Listed(e) \ {Wep} \subseteq {s.pair, s.aux}
    BY <2>2, <2>6, First
  <2> QED BY <2>2, <2>3, <2>7
<1>2. PairCiphersKept /\ [FALSE]_cipherCase => PairCiphersKept'
  BY DEF PairCiphersKept, Offers
<1> QED BY <1>1, <1>2, PTL DEF CipherSpec

\* A cipher that passes the test is listed, as long as no listed one is weaker than the group
\* cipher.
LEMMA FittingIsListed ==
    ASSUME NEW s \in Security, NEW L, L # {}, L \subseteq {Wep, Tkip, Aes},
           s.pair \in L \cup {Disabled}, s.aux \in L \cup {Disabled},
           \A cipher \in L : s.pair >= cipher, s.mix = FALSE \/ s.group # s.pair,
           s.group \in {Tkip, Aes}, \A cipher \in L : cipher >= s.group,
           NEW wep \in {Tkip, Aes}, CipherFits(wep, s)
    PROVE  wep \in L
<1>1. wep >= s.group /\ (wep = Tkip => wep \in {s.pair, s.aux}) /\ (s.mix = FALSE => wep = s.group)
  BY DEF CipherFits, Security
<1>2. PICK c \in L : TRUE
  OBVIOUS
<1>3. s.group \in Nat /\ c \in Nat /\ s.pair \in Nat /\ s.pair >= c /\ c >= s.group
      /\ s.group >= 4 /\ wep \in {4, 6} /\ Disabled = 1 /\ L \subseteq {0, 4, 6}
  BY <1>2 DEF Wep, Disabled, Tkip, Aes, Security, Ciphers
<1>4. s.pair \in L
  BY <1>3
<1>5. CASE wep = Tkip
  BY <1>1, <1>3, <1>5 DEF Tkip
<1>6. CASE wep = Aes
  <2>1. s.pair \in {4, 6}
    BY <1>3, <1>4
  <2>2. s.pair = 6
    BY <1>1, <1>3, <1>6, <2>1 DEF Tkip, Aes
  <2> QED BY <1>4, <1>6, <2>2 DEF Aes
<1> QED BY <1>5, <1>6

\* A candidate that the station takes for its WPA mode and cipher lists that cipher: whatever
\* number of pairwise ciphers it lists, in whatever order, and though AES is not compared with
\* them (BssTableSsidSort, mlme.c).  The group cipher has to be TKIP or AES and none of the
\* pairwise ones weaker.
THEOREM CandidatesSpeakOurCipher == CipherSpec => []CandidateSpeaksOurCipher
<1>1. CipherInit => CandidateSpeaksOurCipher
  <2> SUFFICES ASSUME CipherInit, ~cipherCase.adhoc, NEW cfg \in Config, cfg.auth # "open",
                      Fits(cfg, Offers(cipherCase), FALSE)
               PROVE  LET b == Offers(cipherCase)
                          wpa == cfg.auth \in {"WPA", "WPAPSK"}
                          group == IF wpa THEN b.WPA.group ELSE b.WPA2.group
                          read == {ie \in ToSet(cipherCase.ies) :
                                      ie.ours /\ ie.eid = (IF wpa THEN "WPA" ELSE "RSN")}
                      IN  /\ group \in {Tkip, Aes}
                          /\ \A ie \in read : \A cipher \in Listed(ie) : cipher >= group
                          => \E ie \in read : cfg.wep \in Listed(ie)
    BY DEF CandidateSpeaksOurCipher
  <2>1. PICK e \in Element, privacy \in BOOLEAN, adhoc \in BOOLEAN, other \in BOOLEAN :
            cipherCase = [ies |-> <<e, OtherElement(other)>>, privacy |-> privacy,
                          adhoc |-> adhoc]
    BY DEF CipherInit
  <2> DEFINE o == OtherElement(other)
             b == BssCipherParse(privacy, adhoc, <<e, o>>)
             rsn == IF e.eid = "WPA" THEN NoSecurity ELSE FromFirst(e)
             wep == cfg.wep
  <2>2. Offers(cipherCase) = b /\ adhoc = FALSE
    BY <2>1 DEF Offers
  <2>3. /\ NoSecurity \in Security /\ FromFirst(e) \in Security
        /\ b.WPA = IF e.eid = "WPA" THEN FromFirst(e) ELSE NoSecurity
        /\ b.WPA2 = IF other THEN Mixing(ParseSuites(rsn, o)) ELSE rsn
        /\ b.auth # "WPANone"
    BY <2>2, Offered
  <2>4. /\ e.eid \in {"WPA", "RSN"} /\ e.ours = TRUE
        /\ o.eid = "RSN" /\ o.ours = other /\ o.group = 4
    BY DEF Element, OtherElement
  <2>5. ToSet(cipherCase.ies) = {e, o}
    <3>1. DOMAIN <<e, o>> = {1, 2} /\ <<e, o>>[1] = e /\ <<e, o>>[2] = o
      OBVIOUS
    <3> QED BY <2>1, <3>1 DEF ToSet
  <2>6. NoSecurity.group = Disabled /\ Disabled \notin {Tkip, Aes} /\ wep \in {Tkip, Aes}
    BY DEF NoSecurity, Disabled, Tkip, Aes, Config
  <2>7. /\ Listed(e) # {} /\ Listed(e) \subseteq {Wep, Tkip, Aes} /\ Listed(o) = {Aes}
        /\ DOMAIN o.pairs = 1 .. 1
    BY ListsOf
  <2> HIDE DEF b, o, wep
  <2>8. CASE cfg.auth \in {"WPA", "WPAPSK"}
    <3>1. CipherFits(wep, b.WPA)
      BY <2>2, <2>8 DEF Fits, wep
    <3> SUFFICES ASSUME b.WPA.group \in {Tkip, Aes},
                        \A ie \in {e, o} : ie.ours /\ ie.eid = "WPA" =>
                            \A cipher \in Listed(ie) : cipher >= b.WPA.group
                 PROVE  \E ie \in {e, o} : ie.ours /\ ie.eid = "WPA" /\ wep \in Listed(ie)
      BY <2>2, <2>5, <2>8 DEF wep
    <3>2. e.eid = "WPA" /\ b.WPA = FromFirst(e)
      BY <2>3, <2>6
    <3>3. wep \in Listed(e)
      BY <2>4, <2>6, <2>7, <3>1, <3>2, First, FittingIsListed
    <3> QED BY <2>4, <3>2, <3>3
  <2>9. CASE cfg.auth \in {"WPA2", "WPA2PSK"}
    <3>1. CipherFits(wep, b.WPA2)
      BY <2>2, <2>9 DEF Fits, wep
    <3> SUFFICES ASSUME b.WPA2.group \in {Tkip, Aes},
                        \A ie \in {e, o} : ie.ours /\ ie.eid = "RSN" =>
                            \A cipher \in Listed(ie) : cipher >= b.WPA2.group
                 PROVE  \E ie \in {e, o} : ie.ours /\ ie.eid = "RSN" /\ wep \in Listed(ie)
      BY <2>2, <2>5, <2>9 DEF wep
    <3>2. CASE other = FALSE
      <4>1. e.eid = "RSN" /\ b.WPA2 = FromFirst(e)
        BY <2>3, <2>4, <2>6, <3>2
      <4>2. wep \in Listed(e)
        BY <2>4, <2>6, <2>7, <3>1, <4>1, First, FittingIsListed
      <4> QED BY <2>4, <4>1, <4>2
    <3>3. CASE other = TRUE
      <4>1. ParseSuites(rsn, o) \in Security /\ ParseSuites(rsn, o).group = Aes
        <5>1. Suite(o.group) = Aes /\ Aes # Disabled
          BY <2>4 DEF Suite, Aes, Disabled
        <5>2. rsn \in Security
          BY <2>3
        <5> HIDE DEF rsn
        <5>3. PICK n \in Nat : n = 1
          OBVIOUS
        <5>4. DOMAIN o.pairs = 1 .. n
          BY <2>7, <5>3
        <5>5. ParseSuites(rsn, o) \in Security /\ ParseSuites(rsn, o).group = GroupOf(rsn, o)
          BY <5>2, <5>4, SuitesKept
        <5> QED BY <5>1, <5>5 DEF GroupOf
      <4>2. b.WPA2.group = Aes
        BY <2>3, <3>3, <4>1, MixingKeeps
      <4>3. wep = Aes
        BY <2>6, <3>1, <4>2 DEF CipherFits, Tkip, Aes
      <4> QED BY <2>4, <2>7, <3>3, <4>3
    <3> QED BY <3>2, <3>3
  <2>10. CASE cfg.auth = "WPANone"
    <3>1. b.auth = "WPANone"
      BY <2>2, <2>10 DEF Fits
    <3> QED BY <2>3, <3>1
  <2> QED BY <2>8, <2>9, <2>10 DEF Config
<1>2. CandidateSpeaksOurCipher /\ [FALSE]_cipherCase => CandidateSpeaksOurCipher'
  BY DEF CandidateSpeaksOurCipher, Offers
<1> QED BY <1>1, <1>2, PTL DEF CipherSpec
=============================================================================
