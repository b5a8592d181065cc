----------------------------- MODULE AdapterLife -----------------------------
(***************************************************************************)
(* The life of the adapter: probe and removal, open and close, suspend and *)
(* resume, the radio switch (Module/rtmp_main.c, rtmp_init.c, mlme.c),     *)
(* with the interrupt handler and the periodic timer on other CPUs.        *)
(*                                                                         *)
(* The calls of the kernel come one at a time; open and close are split    *)
(* where the interrupt handler or the timer can see the difference.  The   *)
(* interrupt line is shared: the handler may be called while registered.   *)
(***************************************************************************)
EXTENDS Naturals, FiniteSets

CONSTANTS
    LifeFailures,   \* the steps that may fail
    RadioSwitch,    \* does the user switch the radio?
    ClosedCalls     \* are suspend, the radio switch and iwconfig mode used while closed?

Resources == {"device", "regions", "map", "netdev", "adapter"}
\* NICLoadFirmware: the checks an image must pass.
FirmwareSteps == {"chip", "request", "size", "crc", "version", "mcu"}
ProbeSteps == Resources \cup FirmwareSteps \cup {"table", "register"}
Pieces == {"tx", "mgmt", "rxring", "buffers"}

ASSUME LifeAssumption ==
    /\ LifeFailures \subseteq ProbeSteps \cup Pieces \cup {"irq", "halt", "resume"}
    /\ RadioSwitch \in BOOLEAN /\ ClosedCalls \in BOOLEAN

VARIABLES
    held,       \* what probe has acquired
    bound,      \* register_netdev has succeeded
    dma,        \* what RTMPAllocDMAMemory has allocated
    lost,       \* pieces whose last pointer was overwritten
    refs,       \* references to the module
    irq,        \* rt61_do_irq is registered
    isr,        \* ... and running
    flags,      \* fRTMP_ADAPTER_xxx: "inUse", "active", "mlme", "radioOff"
    rxDma,      \* RX_CNTL_CSR: the DMA block receives
    rxMac,      \* TXRX_CSR0: the receiver is not disabled
    periodic,   \* PeriodicTimer: "idle", "pending", "running"
    call,       \* the step a call of the kernel has reached
    up,         \* the interface is up
    asleep      \* between suspend and resume

ring == <<dma, lost, refs>>
chip == <<rxDma, rxMac>>
lifeVars == <<held, bound, ring, irq, isr, flags, chip, periodic, call, up, asleep>>

NICDisableInterrupt(f) == f \ {"active"}
NICEnableInterrupt(f) == f \cup {"active"}
RTMPFreeDMAMemory == dma' = {} /\ UNCHANGED lost

\* NICInitializeAdapter: "still disable RX", and the receiver of the MAC on.
NICInitializeAdapter == rxDma' = FALSE /\ rxMac' = TRUE

\* "Disable Rx, register value supposed will remain after reset".
NICIssueReset == rxMac' = FALSE /\ UNCHANGED rxDma

Failing(steps) == (LifeFailures \cap steps) \cup {"none"}

(***************************************************************************)
(* rt61_pci_probe: the label it leaves through, and what that frees.       *)
(***************************************************************************)
Label(step) ==
    CASE step \in FirmwareSteps \cup {"register"} -> "err_adapter" [] step = "adapter" -> "err_free"
      [] step = "netdev" -> "err_unmap" [] step = "map" -> "err_release"
      [] step \in {"table", "regions"} -> "err_disable" [] OTHER -> "out"

FreedFrom(label) ==
    CASE label = "err_adapter" -> Resources [] label = "err_free" -> Resources \ {"adapter"}
      [] label = "err_unmap" -> {"map", "regions", "device"}
      [] label = "err_release" -> {"regions", "device"}
      [] label = "err_disable" -> {"device"} [] OTHER -> {}

AcquiredBefore(step) ==
    CASE step \in FirmwareSteps \cup {"register", "none"} -> Resources
      [] step = "adapter" -> Resources \ {"adapter"}
      [] step = "netdev" -> {"map", "regions", "device"}
      [] step = "map" -> {"regions", "device"}
      [] step \in {"table", "regions"} -> {"device"} [] OTHER -> {}

rt61_pci_probe ==
    /\ ~bound /\ call = "none"
    /\ \E step \in Failing(ProbeSteps) :
        /\ bound' = (step = "none")
        /\ held' = held \cup (AcquiredBefore(step) \ FreedFrom(Label(step)))
    /\ UNCHANGED <<ring, irq, isr, flags, chip, periodic, call, up, asleep>>

\* unregister_netdev has closed an interface that was up.
rt61_pci_remove ==
    /\ bound /\ call = "none" /\ ~up /\ ~asleep
    /\ bound' = FALSE
    /\ held' = held \ Resources
    /\ lost' = lost \cup dma /\ dma' = {}
    /\ flags' = {}          \* probe clears the adapter block
    /\ UNCHANGED <<refs, irq, isr, chip, periodic, call, up, asleep>>

(***************************************************************************)
(* rt61_open.  RTMPAllocDMAMemory backs out after a failed TX ring or      *)
(* buffer; the break after a failed MGMT or RX ring leaves the block that  *)
(* would.                                                                  *)
(***************************************************************************)
DmaAfter(piece) ==
    CASE piece = "none" -> Pieces [] piece = "rxring" -> {"tx", "mgmt"}
      [] piece = "mgmt" -> {"tx"} [] OTHER -> {}

\* MlmeInit adds PeriodicTimer once.
MlmeInit(f) ==
    /\ flags' = f \cup {"mlme"}
    /\ periodic' = IF "mlme" \in f THEN periodic ELSE "pending"

OpenStart ==
    /\ bound /\ call = "none" /\ ~up /\ ~asleep
    /\ \E piece \in Failing(Pieces) :
        /\ lost' = lost \cup dma
        /\ dma' = DmaAfter(piece)
        /\ IF piece = "none" THEN call' = "open_irq" /\ refs' = refs + 1
           ELSE UNCHANGED <<call, refs>>        \* module_put
    /\ UNCHANGED <<held, bound, irq, isr, flags, chip, periodic, up, asleep>>

\* A failed request_irq leaves by out_free_dma_memory.
OpenIrq ==
    /\ call = "open_irq"
    /\ flags' = NICDisableInterrupt(flags)
    /\ \/ /\ irq' = TRUE /\ call' = "open_init"
          /\ UNCHANGED ring
       \/ /\ "irq" \in LifeFailures
          /\ RTMPFreeDMAMemory /\ refs' = refs - 1 /\ call' = "none"
          /\ UNCHANGED irq
    /\ UNCHANGED <<held, bound, isr, chip, periodic, up, asleep>>

OpenInit ==
    /\ call = "open_init" /\ call' = "open_enable"
    /\ NICInitializeAdapter
    /\ MlmeInit(flags \cup {"inUse"})
    /\ UNCHANGED <<held, bound, ring, irq, isr, up, asleep>>

OpenEnable ==
    /\ call = "open_enable" /\ call' = "none"
    /\ flags' = NICEnableInterrupt(flags)
    /\ rxDma' = TRUE /\ rxMac' = TRUE
    /\ up' = TRUE
    /\ UNCHANGED <<held, bound, ring, irq, isr, periodic, asleep>>

(***************************************************************************)
(* MlmeHalt waits for a running timer; it does nothing when it finds no    *)
(* memory for the disassociation request.                                  *)
(***************************************************************************)
\* Mutant of MlmeHalt: the timer is left alone.
HaltKeepsTimer == flags' = flags \ {"mlme"} /\ UNCHANGED periodic

MlmeHalt ==
    \/ /\ "mlme" \notin flags \/ "halt" \in LifeFailures
       /\ UNCHANGED <<flags, periodic>>
    \/ /\ "mlme" \in flags /\ periodic # "running"
       /\ periodic' = "idle"
       /\ flags' = flags \ {"mlme"}

(***************************************************************************)
(* rt61_close.                                                             *)
(***************************************************************************)
CloseStart ==
    /\ call = "none" /\ up /\ ~asleep
    /\ up' = FALSE /\ call' = "close_mask"
    /\ MlmeHalt
    /\ UNCHANGED <<held, bound, ring, irq, isr, chip, asleep>>

CloseMask ==
    /\ call = "close_mask" /\ call' = "close_irq"
    /\ flags' = NICDisableInterrupt(flags)
    /\ NICIssueReset
    /\ UNCHANGED <<held, bound, ring, irq, isr, periodic, up, asleep>>

\* Mutant of CloseIrq: a handler that is running is not waited for.
FreeIrqAtOnce ==
    /\ call = "close_irq" /\ call' = "close_free"
    /\ IF "inUse" \in flags THEN irq' = FALSE /\ flags' = flags \ {"inUse"} ELSE UNCHANGED <<irq, flags>>
    /\ UNCHANGED <<held, bound, ring, isr, chip, periodic, up, asleep>>

\* free_irq waits for a handler that is running.
CloseIrq ==
    /\ call = "close_irq" /\ call' = "close_free"
    /\ ~isr
    /\ IF "inUse" \in flags THEN irq' = FALSE /\ flags' = flags \ {"inUse"} ELSE UNCHANGED <<irq, flags>>
    /\ UNCHANGED <<held, bound, ring, isr, chip, periodic, up, asleep>>

CloseFree ==
    /\ call = "close_free" /\ call' = "none"
    /\ RTMPFreeDMAMemory /\ refs' = refs - 1
    /\ UNCHANGED <<held, bound, irq, isr, flags, chip, periodic, up, asleep>>

(***************************************************************************)
(* Calls that may come while the interface is closed.                      *)
(***************************************************************************)
Callable == bound /\ call = "none" /\ (up \/ ClosedCalls)

SuspendStart ==
    /\ Callable /\ ~asleep /\ asleep' = TRUE
    /\ call' = "suspend"
    /\ flags' = NICDisableInterrupt(flags)
    /\ UNCHANGED <<held, bound, ring, irq, isr, chip, periodic, up>>

SuspendHalt ==
    /\ call = "suspend" /\ call' = "none"
    /\ MlmeHalt
    /\ UNCHANGED <<held, bound, ring, irq, isr, chip, up, asleep>>

rt61_pci_resume ==
    /\ Callable /\ asleep /\ asleep' = FALSE
    /\ \/ "resume" \in LifeFailures /\ UNCHANGED <<flags, chip, periodic>>
       \/ NICInitializeAdapter /\ MlmeInit(NICEnableInterrupt(flags))
    /\ UNCHANGED <<held, bound, ring, irq, isr, call, up>>

RadioOff ==
    /\ RadioSwitch /\ Callable /\ ~asleep /\ "radioOff" \notin flags
    /\ flags' = flags \cup {"radioOff"} /\ rxMac' = FALSE
    /\ UNCHANGED <<held, bound, ring, irq, isr, rxDma, periodic, call, up, asleep>>

RadioOn ==
    /\ Callable /\ ~asleep /\ "radioOff" \in flags
    /\ flags' = flags \ {"radioOff"} /\ rxDma' = TRUE /\ rxMac' = TRUE
    /\ UNCHANGED <<held, bound, ring, irq, isr, periodic, call, up, asleep>>

\* iwconfig mode ends with RTMPWriteTXRXCsr0(FALSE, TRUE).
rt_ioctl_siwmode ==
    /\ Callable /\ ~asleep /\ rxMac' = TRUE
    /\ UNCHANGED <<held, bound, ring, irq, isr, flags, rxDma, periodic, call, up, asleep>>

(***************************************************************************)
(* rt61_do_irq: it disables the interrupts it finds enabled and, at its    *)
(* end, enables those it finds disabled.                                   *)
(***************************************************************************)
IsrEnter ==
    /\ irq /\ ~isr /\ isr' = TRUE
    /\ flags' = IF {"inUse", "active"} \subseteq flags THEN NICDisableInterrupt(flags) ELSE flags
    /\ UNCHANGED <<held, bound, ring, irq, chip, periodic, call, up, asleep>>

\* Mutant of IsrExit: only a call that had work enables the interrupts again.
ExitIdle ==
    /\ isr /\ isr' = FALSE
    /\ flags' \in {flags, NICEnableInterrupt(flags)}
    /\ UNCHANGED <<held, bound, ring, irq, chip, periodic, call, up, asleep>>

IsrExit ==
    /\ isr /\ isr' = FALSE
    /\ flags' = NICEnableInterrupt(flags)
    /\ UNCHANGED <<held, bound, ring, irq, chip, periodic, call, up, asleep>>

(***************************************************************************)
(* MlmePeriodicExec: with the radio off it returns without adding the      *)
(* timer again.                                                            *)
(***************************************************************************)
PeriodicFires ==
    /\ periodic = "pending"
    /\ periodic' = IF "radioOff" \in flags THEN "idle" ELSE "running"
    /\ UNCHANGED <<held, bound, ring, irq, isr, flags, chip, call, up, asleep>>

\* AsicSetRxAnt stops the receiver and starts it.
AsicSetRxAnt ==
    /\ periodic = "running" /\ rxMac' = TRUE
    /\ UNCHANGED <<held, bound, ring, irq, isr, flags, rxDma, periodic, call, up, asleep>>

PeriodicEnds ==
    /\ periodic = "running" /\ periodic' = "pending"
    /\ UNCHANGED <<held, bound, ring, irq, isr, flags, chip, call, up, asleep>>

LifeInit ==
    /\ held = {} /\ bound = FALSE
    /\ dma = {} /\ lost = {} /\ refs = 0
    /\ irq = FALSE /\ isr = FALSE
    /\ flags = {} /\ rxDma = FALSE /\ rxMac = FALSE
    /\ periodic = "idle" /\ call = "none"
    /\ up = FALSE /\ asleep = FALSE

LifeNext ==
    \/ rt61_pci_probe \/ rt61_pci_remove
    \/ OpenStart \/ OpenIrq \/ OpenInit \/ OpenEnable
    \/ CloseStart \/ CloseMask \/ CloseIrq \/ CloseFree
    \/ SuspendStart \/ SuspendHalt \/ rt61_pci_resume
    \/ RadioOff \/ RadioOn \/ rt_ioctl_siwmode
    \/ IsrEnter \/ IsrExit \/ PeriodicFires \/ AsicSetRxAnt \/ PeriodicEnds

LifeSpec == LifeInit /\ [][LifeNext]_lifeVars
=============================================================================
