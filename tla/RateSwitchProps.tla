-------------------------- MODULE RateSwitchProps --------------------------
(***************************************************************************)
(* What rate switching promises.                                           *)
(***************************************************************************)
EXTENDS RateSwitch

\* A data frame leaves at a rate of the band, and at most at the best common rate or the
\* lowest of the BSS, whatever moves TxRate and though the driver starts with 11 Mbps on
\* 5 GHz at a weak signal (mlme.c:3812); so do the NULL frames that try the next rate.
RateOnAirLegal ==
    /\ \A low \in BOOLEAN :
        /\ RateOnAir(low) <= MaxTxRate \/ RateOnAir(low) = MinTxRate
        /\ net.ofdmOnly => RateOnAir(low) \in Ofdm
    /\ \A rate \in probes : rate \in Ofdm /\ rate <= MaxTxRate

\* Not so in the model, and in no run (RTMPSendNullFrame raises nothing): "Only OFDM support
\* on Channel > 14" (rtmp_data.c:3031), so the NULL frames with which the periodic task tells
\* the AP the power mode (mlme.c:2827, 3024) leave at OFDM rates too.
NullFramesInBand ==
    [][Periodic /\ net.infra /\ net.ofdmOnly => NullFrameRate' \in Ofdm]_rateVars

\* Once there are no errors any more, the rate climbs to the best common one and stays.
ClimbsToMax == []<>clean => <>[](Switching => txRate = MaxTxRate)
=============================================================================
