----------------------------- MODULE MCProgress -----------------------------
(* Small instances of four protocols that end: the handshakes of WPA, rate     *)
(* switching, power save, and the merging of IBSSs.  A behaviour is one of one *)
(* of the four; the variables of the others stay as they are.                  *)
EXTENDS WpaSupplicantProps, RateSwitchProps, PowerSaveProps, IbssMerge, TLC

CONSTANTS s1, s2, s3

VARIABLE part

\* In each byte, s1 is at most s2 and s2 at most s3.
Chain == (s1 :> <<1, 0>>) @@ (s2 :> <<1, 1>>) @@ (s3 :> <<1, 2>>)

\* 5 GHz with three rates, 2.4 GHz with three.
Network(ofdm, low, high) ==
    [ofdmOnly |-> ofdm, infra |-> TRUE, lowest |-> low, highest |-> high, desired |-> 11,
     switching |-> TRUE]
MCNetworks == {Network(TRUE, 4, 6), Network(FALSE, 0, 2)}
MCDbms == {-80, -60}

SomeCfg == cfg = [mode |-> CHOOSE m \in Modes : TRUE, aes |-> TRUE]
SomeRate == net = (CHOOSE n \in Networks : TRUE) /\ txRate = StartRate(TRUE, -60)

ProgressInit ==
    /\ part \in {"wpa", "rate", "power", "ibss"}
    /\ WpaInit /\ RateInit /\ PsInit /\ Init
    /\ part = "wpa" \/ SomeCfg
    /\ part = "rate" \/ SomeRate
    /\ part = "power" \/ ~cam

ProgressNext ==
    \/ part = "wpa" /\ WpaNext /\ UNCHANGED <<part, rateVars, psVars, vars>>
    \/ part = "rate" /\ RateNext /\ UNCHANGED <<part, wpaVars, psVars, vars>>
    \/ part = "power" /\ PsNext /\ UNCHANGED <<part, wpaVars, rateVars, vars>>
    \/ part = "ibss" /\ Next /\ UNCHANGED <<part, wpaVars, rateVars, psVars>>

\* The fairness of each protocol (WpaFairness, RateFairness, PsFairness, Fairness), as
\* far as it is the one that runs.
While(p, A) == part = p /\ A

ProgressSpec ==
    /\ ProgressInit
    /\ [][ProgressNext]_<<part, wpaVars, rateVars, psVars, vars>>
    /\ WF_wpaVars(While("wpa", Receive)) /\ WF_wpaVars(While("wpa", LinkUp))
    /\ WF_wpaVars(While("wpa", ApReceive)) /\ WF_wpaVars(While("wpa", ApTimeout \/ ApGivesUp))
    /\ WF_rateVars(While("rate", Periodic))
    /\ WF_rateVars(While("rate", TxDone(0) /\ probes' # probes))
    /\ WF_psVars(While("power", RTMPHandleTwakeupInterrupt))
    /\ WF_psVars(While("power", PeriodicNullFrame))
    /\ SF_psVars(While("power", PeerBeacon)) /\ SF_psVars(While("power", FrameHeard))
    /\ \A s, r \in Station : WF_vars(While("ibss", Hear(s, r)))
    /\ \A r, o \in Station : WF_vars(While("ibss", PeerIbssBeacon(r, Own[o])))

---------------------------------------------------------------------------
\* The handshakes are completed once losses, failures and resets end (WpaSupplicant).
HandshakeCompletes == part = "wpa" => Completes

\* Stations that hear each other end in one IBSS (IbssMerge).
IbssConverges == part = "ibss" => Converges
=============================================================================
