----------------------------- MODULE MCDataPath -----------------------------
(* Small instances of the transmit path, the receive path, the life of the     *)
(* adapter, whose rings they use, and the keys the frames are sent with.  A    *)
(* behaviour is one of the four; the variables of the others stay as they are. *)
EXTENDS TxPathProps, RxPathProps, AdapterLifeProps, StationKeysProps

VARIABLE part

\* A key of a length every interface takes, and one only iwconfig takes.
MCWepKeys == {[key |-> "a", length |-> 5], [key |-> "b", length |-> 3]}

\* Without what breaks the tables: iwconfig's or iwpriv's "off" or keys of iwpriv before
\* a restart of the chip, and Key1 to Key4 in a WPA mode.
MCKeyScenarios == {{"iwconfig", "reopen"}, {"iwconfig", "off", "iwpriv"}, {"iwpriv", "supplicant"}}

\* Aggregation where transmission stops and goes on; a port closed from the start where it
\* may be opened; TKIP with the MLME queue as the taker of EAPOL.
Combined ==
    /\ txFlags.aggregation => txUpsets \subseteq {"scan", "radio", "port"}
    /\ ~txFlags.secured => ~txFlags.aggregation /\ "port" \in txUpsets
    /\ rxLink.tkip => rxLink.eapol = "mlme"

\* One of the initial states of the transmit path, of the receive path, and of the keys.
SomeTx == /\ txFlags.secured /\ ~txFlags.aggregation
          /\ txUpsets = CHOOSE u \in SUBSET Upsets : Cardinality(u) = MaxTxUpsets
SomeRx == air.frags = 1 /\ ~air.eapol /\ rxLink.eapol = "daemon"
SomeKeyUse == keyUse = CHOOSE s \in KeyScenarios : TRUE

DataPathInit ==
    /\ part \in {"transmit", "receive", "adapter", "keys"}
    /\ TxInit /\ RxInit /\ LifeInit /\ KeyInit
    /\ Combined
    /\ part = "transmit" \/ SomeTx
    /\ part = "receive" \/ SomeRx
    /\ part = "keys" \/ SomeKeyUse

DataPathNext ==
    \/ part = "transmit" /\ TxNext /\ UNCHANGED <<part, rxVars, lifeVars, keyVars>>
    \/ part = "receive" /\ RxNext /\ UNCHANGED <<part, txVars, lifeVars, keyVars>>
    \/ part = "adapter" /\ LifeNext /\ UNCHANGED <<part, txVars, rxVars, keyVars>>
    \/ part = "keys" /\ KeyNext /\ UNCHANGED <<part, txVars, rxVars, lifeVars>>

DataPathSpec == DataPathInit /\ [][DataPathNext]_<<part, txVars, rxVars, lifeVars, keyVars>>
=============================================================================
