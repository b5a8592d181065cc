--------------------------- MODULE AdapterLifeProps ---------------------------
(***************************************************************************)
(* What the life cycle of the adapter promises.                            *)
(***************************************************************************)
EXTENDS AdapterLife

Closed == call = "none" /\ ~up

\* No failure and no order of calls leaves anything behind: an unbound driver
\* holds nothing, and a closed interface has no ring, no handler, no timer and
\* no reference to the module (the error labels of rt61_pci_probe and rt61_open,
\* rt61_close, MlmeHalt).
NothingLeftBehind ==
    /\ ~bound => held = {}
    /\ lost = {}
    /\ Closed => dma = {} /\ ~irq /\ refs = 0 /\ periodic = "idle"

\* The rings exist, and so does the adapter block, as long as the handler can
\* run or the chip can write a received frame (rt61_open, rt61_close,
\* MlmeRadioOn).
RingsWhileListening ==
    irq \/ isr \/ (rxDma /\ rxMac) => dma = Pieces /\ "adapter" \in held

\* Interrupts never stay off: while the interface is up and awake they are
\* enabled or the handler, which enables them at its end, is running
\* (rt61_do_irq, NICDisableInterrupt, NICEnableInterrupt).
InterruptsComeBack ==
    up /\ ~asleep /\ call = "none" /\ "mlme" \in flags => "active" \in flags \/ isr

\* Not so in the model, and in no run (MlmeRadioOn does not add the timer): the
\* comment of MlmePeriodicExec, "This routine is executed periodically": its
\* timer is armed or it is running while the interface is up and the radio on.
PeriodicKeepsRunning ==
    up /\ ~asleep /\ call = "none" /\ {"mlme"} = flags \cap {"mlme", "radioOff"} =>
        periodic # "idle"

\* Not so in the model, and in no run (nothing writes RX_CNTL_CSR after a resume):
\* "reactivate after software suspend" (rt61_pci_resume): the adapter receives
\* again.
ReceivesWhenUp ==
    up /\ ~asleep /\ call = "none" /\ {"mlme"} = flags \cap {"mlme", "radioOff"} =>
        rxDma
=============================================================================
