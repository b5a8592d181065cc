# Verification of the rt61 driver

TLA+ models of the legacy rt61 wireless driver (`Module/`), the TLC runs that
check them on small instances, and theorems checked with TLAPS. Line numbers refer
to the files of `src/Module/`.

## 1. The system

The driver runs a wireless station on a Ralink RT2561/RT2661 chip. Its core is the
MLME (`mlme.c`): a set of state machines that talk to each other, to the peers and
to the user through one message queue. Several contexts use the queue at once: the
receive tasklet, the callbacks of one-shot timers, the callback of the periodic
timer, processes that hold the RTNL lock (`iwconfig`, `iwpriv`, opening and closing
the interface), and the transmit path.

| Component | State | Operations | Interacts through |
|---|---|---|---|
| Message queue, `MlmeHandler` (`mlme.c`) | ring of elements, `Num/Head/Tail`, `Occupied` flags, `Running` | `MlmeEnqueue`, `MlmeEnqueueForRecv`, `MlmeHandler`, `MlmeRestartStateMachine`, `MlmeInit`, `MlmeHalt` | all contexts; `Queue.Lock` |
| CNTL (`connect.c`) | `CurrState`, `MlmeAux`, link flags | requests of the user, confirmations, `LinkUp`, `LinkDown` | queue; other contexts write `CurrState` |
| SYNC (`sync.c`) | `CurrState`, channel, `BeaconTimer`, `ScanTimer`, BSS tables | scan, join, start, beacons, channel switch, IBSS merging | queue, timers |
| AUTH, AUTH_RSP (`auth.c`, `auth_rsp.c`) | `CurrState`, `AuthTimer` | authentication, deauthentication | queue, timer |
| ASSOC (`assoc.c`) | `CurrState`, three timers | association, disassociation | queue, timers |
| Periodic task (`mlme.c`) | counters, `MicErrCnt`, `bBlockAssoc` | reconnection, scans, roaming, MIC countermeasures, rate and antenna tuning | posts, writes `CurrState`, calls `LinkDown` |
| User requests (`rtmp_info.c`) | `PortCfg` | about 150 settings and queries; five post to CNTL | queue, restart |
| WPA supplicant (`wpa.c`) | `WpaState`, nonces, replay counter, keys | 4-way and group handshake | queue, keys of the chip |
| Transmit path (`rtmp_data.c`) | packet queues, TX rings | send, DMA completion | locks, chip, `BSS_SCAN_IN_PROGRESS` |
| Receive path (`rtmp_data.c`) | RX ring, fragment buffer, tuple cache, MIC error count | filtering, reassembly, delivery | tasklet, queue |
| BSS tables (`mlme.c`) | `ScanTab`, `SsidBssTab`, indices into them | insert, overwrite, delete, sort, choose candidates | SYNC, CNTL, roaming, channel switch |
| Rate switching, antenna, BBP (`mlme.c`) | `TxRate`, per-rate quality, R17 | periodic and quick-response timers, TX-done interrupt | registers, transmit path |
| Power (`mlme.c`, `sync.c`) | `Psm`, `DOZE` | sleep, wake-up, PS-Poll | beacons, rings, the access point |
| Keys (`rtmp_info.c`, `mlme.c`) | `DesireSharedKey`, `SharedKey`, key table of the chip | set, add, remove, install | user, `wpa_supplicant`, link, chip |
| Life cycle (`rtmp_main.c`, `rtmp_init.c`) | what is allocated, flags, `PeriodicTimer` | probe, open, close, suspend, resume, remove, radio on and off, interrupts | kernel, chip |
| Initialisation, EEPROM, parsing, cryptography, debug files | - | sequential code | - |

What is hard in this code: an element of the queue is filled outside the lock;
a message is served in whatever context finds the queue idle, on the stack of a
timer callback too; timeouts cross the answers they time; requests are accepted
while an earlier one is at work; several contexts write CNTL's state without the
queue; requests that find CNTL busy throw everything away; opening and closing
the interface does not stop all contexts first. On the data path, an interrupt
preempts the transmission of a packet between its steps, rings are shared with the
chip, and a packet or buffer must be released once on every path of failure. The
handshakes, power save and IBSS merging are protocols with a peer that repeats,
gives up, or believes something else. `PROJECT.json` lists these hazards
with the line where each one bites.

What makes each component correct:
the queue - elements are served whole, once, in order, by one handler, and none is
stranded;
the machines - a machine that waits always has a running timer or a message that
will end the wait, CNTL always gets the confirmation it waits for, every attempt
ends, the link comes up only with an AP that accepted us;
the IBSS rule - stations move to bigger BSSIDs only and end in one IBSS;
the supplicant - the port opens with the keys of the access point only, and no loss or
failure leaves the handshake stuck;
the data path - a packet or buffer is in one place, released once; descriptors form
one window; what is delivered is one whole MSDU; no data leaves in the clear while the port is
closed (but for what a preempted `MlmeHandler` sends);
the tables - one entry per BSS, the link's entry stays, candidates are sorted and speak
our cipher;
rate and power - data frames leave at a legal rate, which climbs back once errors end;
kept frames are fetched;
keys - driver and chip hold the same key;
the life cycle - no failure leaves anything behind, rings outlive their users,
interrupts come back.

## 2. Modules

| Module | Models |
|---|---|
| `MlmeQueue` | the ring, `Running`, restart and life cycle: one critical section of `Queue.Lock`, or one unlocked access, per action |
| `MlmeFifo` | what the queue promises: a bounded FIFO with one server |
| `MlmeConnect` | CNTL, SYNC, AUTH, AUTH_RSP, ASSOC and the contexts that post to them |
| `IbssMerge` | the merging rule of `PeerBeacon` among several stations |
| `WpaSupplicant` | the 4-way and the group handshake (`wpa.c`) with an authenticator |
| `TxPath` | packet queues, TX rings, `RTMPDeQueuePacket`, `RTMPHardTransmit`, DMA completion |
| `RxPath` | RX ring, filters, MIC errors, duplicates, reassembly, delivery |
| `BssTable` | `ScanTab` and `SsidBssTab` with the code that uses them |
| `BssCipher` | ciphers read from WPA and RSN elements, and the candidate test |
| `RateSwitch` | `MlmeDynamicTxRateSwitching`, the quick-response timer, probes, the clamp, NULL frames |
| `PowerSave` | PSM bit, doze, TIM and PS-Poll, with the access point |
| `AdapterLife` | probe to remove with every failure, interrupt handler, periodic timer |
| `StationKeys` | shared keys in the wish, the driver and the chip |
| `...Props` | the properties of the module of that name (those of `IbssMerge` are in it) |
| `MlmeQueueProofs`, `MlmeFifoProofs` | theorems about the queue, and its refinement of `MlmeFifo` |
| `WpaSupplicantProofs`, `TxPathProofs`, `RxPathProofs` | theorems about the module of that name |
| `MlmeConnectProofs` | theorems about `MlmeConnect` |
| `ChipProofs` | theorems about `AdapterLife` and `StationKeys` |
| `NetworkProofs` | theorems about `RateSwitch`, `IbssMerge`, `BssTable` and `BssCipher` |
| `MCMlmeQueue`, `MCMlmeConnect`, `MCIbssMerge` | instances for TLC |
| `MCDataPath` | instance of `TxPath`, `RxPath`, `AdapterLife`, `StationKeys` |
| `MCNetwork` | instance of `BssTable`, `BssCipher`, `RateSwitch` |
| `MCProgress` | instance of `WpaSupplicant`, `RateSwitch`, `PowerSave`, `IbssMerge`, with fairness |

`MlmeConnect` stands on `MlmeQueue`: there the queue is refined to a FIFO with one
server, here a FIFO is what the machines use, and an action dispatches its head. The
other modules stand on what it provides: a handler of a message is one action.

The components of the last three instances meet in few places (a flag each), which
each module has as an input: a scan and a closed port in `TxPath`, the link in
`RxPath` and `StationKeys`, the length of the rings in `PowerSave`. Their instances
therefore do not multiply the state spaces: the variable `part` chooses one component
at the start, which then runs alone, and each property speaks of all of them.

### The queue

`num, head, tail`, `Entry`, `Occupied` and `Running` are the fields of `MLME_QUEUE`
and `Mlme`. `pc`, `slot`, `arg`, `elem` are the place and the local variables of
each context. `armed` holds the pending timers, `phase` where the interface is.
`intended` is a history variable: for which message a slot was reserved.

`Reserve` is the critical section of enqueueing, `CopyElement` and `SetOccupied` the
stores after it (a write barrier lies between them), `EnterHandler`, `ReleaseElement`
and `Dequeue` the parts of the loop of `MlmeHandler`. `RestartEnter` to `RestartFinish`
are `MlmeRestartStateMachine`, `HaltBegin` to `KillRxTasklet` `rt61_close`. The action
of a message may enqueue one more message (no action enqueues two) and touch one
timer. The `del_timer_sync` calls that follow each other in restart and halt are one
action, enabled when no callback runs.

Three specifications differ in what the environment does: `SteadySpec` has no
restarts, `RestartSpec` has them, `Spec` closes and opens the interface as well.

Left out: the early return of `MlmeHalt` when `kmalloc` fails, requests on a closed
interface (the callers test `INTERRUPT_IN_USE`), the size checks of enqueueing.

### The machines

`queue` has the message being served at its head, which leaves when its handler is
over, as `MlmeDequeue` does. `runner` is who set `Running`: it matters because
`del_timer_sync` called on the stack of a timer's own callback waits for itself.
`cntl`, `sync`, `auth`, `assoc` are the states of the machines (names shortened from
`rtmp_def.h`), `chan` the index of the channel being scanned, `aux`, `tab`, `bssIdx`
fields of `MlmeAux`, `link`, `connected`, `bssid`, `micErr`, `blocked`, `suspended`
the flags of the port. `job` holds what a context has decided to post on what it saw
of CNTL, and has not yet done. `authOk`, `assocOk`, `overruns` and `mishap` are
history variables.

Every handler is one action with all it does: the reply it posts, the timers it
cancels and adds, the fields it changes. A message no handler wants is dropped by
an action of its own (`CntlDrops`, `SyncDrops`, ...), so that every message is served
in every state.

`Smp = FALSE` is the machine with one CPU: receive, timers, periodic task and
transmission are softirqs, which run to their end, the handler included, and only
the user's calls give way. `Smp = TRUE` interleaves all of them, lets the decision of
a context and what it writes to CNTL afterwards fall apart, and makes
`del_timer_sync` wait.

`Disturbances` selects what may go wrong: the AP refuses, deauthenticates,
disassociates or announces a channel switch, beacons are lost, the driver
reconnects by itself, fast roaming, MIC countermeasures, `kmalloc` fails.

Abstractions: all BSSs of the model have the station's SSID; the candidates a survey
finds, and whether `ScanTab` holds a BSSID, are nondeterministic; sanity checks of
frames have been passed; the SSID of the user is valid; `CurrReqIsFromNdis` (logged
only), `LinkDownTimer` (its callback is empty) and probe frames are left out; the
radio is on. `REASSOC_REQ` has no sender that CNTL can reach, so that
`CNTL_WAIT_REASSOC` and `REASSOC_WAIT_RSP` are left out. `MLME_DEAUTH_REQ` has no
sender. The zero entry of a table is of type adhoc, `BSS_ADHOC` being 0. Requests of
the user are serialised by the RTNL lock.

### Scenarios of the machines

`Scenarios` is a list of networks; the first step chooses one. Each has what may go
wrong in it (`Disturbances`), the candidates a survey may give, the number of requests,
and whether the machine has two CPUs.

### IBSS merging

`bssid` is `PortCfg.Bssid` of each station, `heard` the beacons in its queue. The chip
sends beacons by itself with the BSSID in use (an external action, `Hear`), a queued
beacon may be old, and may be lost.

### WPA supplicant

`sta` holds the fields of `PortCfg` (`WpaState`, nonces, `ReplayCounter`, `PTK`, `PortSecured`)
and the installed keys, `ap` the authenticator, `toSta` and `toAp` the EAPOL frames between them.
`PairMsg1`, `PairMsg3` and `GroupMsg1` are the handlers of `wpa.c`. The last one reads a group
message as WPA lays it out; in one of WPA2 it finds key index 0 and a list of elements, and
`AddGroupKeyAtZero` writes the entry that holds the pairwise key (`SharedKey[0]`), with which the
chip encrypts the answer: with AES always, with TKIP if it fetches the frame late
(`EncryptedWith`). In all of them the parameter `fail` says which of their allocations or look-ups
fails, and the handler then goes on, or returns, where the code does. `AddWpa` is the user who
sets a key again, `LoseLink` and `LinkUp` the link. A PTK is known by its two nonces. The
authenticator is external: it repeats with the next counter, takes only the answer to its last
message, and gives up after `MaxTries`.

### Transmit path

`txSwQueue` and `txRing` are `TxSwQueue[]`, `TxRing[]` and `MgmtRing`; `txCtx` is where each of
three contexts is in `RTMPDeQueuePacket`: `rt61_hard_start_xmit`, `MlmeHandler` and the interrupt
handler. Its steps are what it does without letting go of a lock: `CheckFlags`, `Check` (the free
descriptors), `Take` (a packet, under the queue's lock), `Transmit` (`RTMPHardTransmit` up to the
ring: the port, aggregation, the protection frame), `WriteFragments` (under `TxRingLock`). With
`TxSmp = FALSE`, as in all runs, `Preempting` says who comes in between on one CPU: the interrupt
handler everywhere, and in a `MlmeHandler` that an ioctl runs (rtmp_info.c:2203; its actions run
outside the lock) every softirq: `rt61_hard_start_xmit`, and the periodic timer and the RX tasklet
with NULL frames, management frames and `LinkDown` (mlme.c:3045). A packet has the rate `TxRate`
had when it was queued (rtmp_data.c:2330), which `TxPath` leaves to `RateSwitch`. `freed` counts
the releases of each packet. `NicSends` is the chip, `DmaDoneInterrupt` the reclaiming with the
dequeueing that follows it. Scan, radio and port are flags set by other components.

### Receive path

`rxRing`, `rxQueue`, `fragFrame`, `tuple` are the ring, `RxQueue`, `FragFrame` and the entry of
`TupleCache` for the AP; `buf` counts releases. `RxDoneInterrupt` moves a buffer and
refills the ring, or fails to; `RxTasklet` is all the tasklet does with one frame. The
AP (external) fragments, repeats, loses and interleaves; its numbers wrap to 0 and may start
there, which is what a zeroed `FragFrame` holds. `rxLink.eapol` is who takes EAPOL frames: the
daemon of `WPA_Supplicant`, which gets every first fragment at once, the MLME queue, which gets
a copy, or the stack. `rxLink.oops` notes that the length of a buffer was asked which is not
there (rtmp_data.c:807); nothing runs afterwards. With TKIP the MIC of a reassembled
MSDU never matches, as it is computed over the last fragment. An MSDU that grows beyond
`MAX_FRAME_SIZE` is a choice. Left out: what an EAP success does to port and keys
(`StationKeys`, `TxPath` have it), monitor mode.

### BSS tables and ciphers

A table is an array whose entries beyond `BssNr` keep what they held, as in the code,
where a hidden BSS takes over the SSID it finds. `BssTableSetEntry` to
`BssTableSsidSort` are operators on a table; the actions are the handlers that call
them. `BssOverlapNr = (BssOverlapNr++) % MAX` (mlme.c:4555) is undefined; `NextOverlap` has three
outcomes: the index stays, advances before the modulus, or is stored by the increment after
the assignment, so that it may leave the table. An entry written behind the table is lost
(`Overwrite`); what else that memory held is not modelled. In
`BssCipher`, a case is a list of elements and `BssCipherParse` folds over it; ciphers have
the code's numbers, since the code compares them.

### Rate switching

Statistics of a second are inputs (few or many frames, an error percentage, a signal).
`txRate` is `PortCfg.TxRate`, `drs` is `DrsCounters`, `probes` the NULL frames sent at the
next rate. `RateOnAir` is the choice and the clamp of `RTMPHardTransmit`, for DHCP and ARP frames
and for others; `NullFrameRate` is what `RTMPSendNullFrame` sends at, which does not pass the clamp.
Tables of rates are the code's. `clean` marks the moment from which there
are no errors.

### Power save

`psm`, `doze`, `queued` are the PSM bit, the sleep of the PHY and the frames in the rings;
`apPsm` and `kept` are what the AP believes and keeps. `PeerBeacon` is what the connected
beacon handler does about the TIM; a NULL frame may be refused, stuck or lost.

### Life cycle

`held`, `dma`, `irq`, `refs`, `flags` are what is allocated or set; `call` is the step that a
call of the kernel has reached. `rt61_pci_probe` is one action with every label it may
leave through (nothing else runs before `register_netdev`); open, close and suspend are
split where the interrupt handler or the periodic timer can tell.

### Keys

`desired`, `shared`, `asic` are the three tables, `port` what decides which key a frame
takes. Each call of `iwconfig`, `iwpriv`, `wpa_supplicant`, EAP success and the link is one
action on all the tables it touches. `KeyScenarios` says which of them a behaviour uses.

## 3. Runs

Each run is a configuration; several ask their questions of one state space.

| Run | Result | Shows |
|---|---|---|
| `queue_steady` | holds | without restarts a flagged slot is complete, the handler serves whole heads, and the queue refines `MlmeFifo` with its liveness |
| `queue_restart` | holds | one runner at a time, no stranded message, with restarts |
| `queue_lifecycle` | holds | types and counters, with close and open |
| `queue_torn_element` | violated | a restart breaks the guard against incomplete elements (mlme.c:4997) |
| `connect_safety` | holds | CNTL is answered, waits are timed, timers are added once, the link is earned, and not while blocked |
| `connect_returns` | holds | every attempt ends, transmission is resumed |
| `connect_self_wait` | violated | a handler waits for the callback it runs in (sync.c:809, auth.c:132) |
| `ibss_up` | violated | a station moves to a smaller BSSID (sync.c:1096) |
| `data_path` | holds | packets, buffers, rings, resources and keys, see below |
| `network` | holds | tables, ciphers, candidates, the rate on the air |
| `progress` | holds | handshakes complete, the rate climbs, kept frames are fetched, IBSSs with comparable BSSIDs converge; with safety on the way |
| `tx_lost` | violated | a packet taken for aggregation is lost (rtmp_data.c:3180, 3823) |

### Queue

Five contexts at most: the receive tasklet, the periodic task, the user, one one-shot
timer and, in the first run, one transmitter. A ring of 2 is enough: the wrap, a full ring,
a bubble in front of a complete element and an empty ring all occur, and what differs
between slots is only the distance from the head; the proofs of section 4 hold for every
length. Two message contents tell an element from the one that was there before.

`queue_lifecycle` also reaches states that no property here forbids: a timer armed
after `MlmeHalt` has cancelled it (rtmp_main.c:712), messages accepted while `MlmeHalt`
runs (the halt flag tested at mlme.c:4960 is never set), and two handlers at once after
close and open (`MlmeInit` resets `Running`, mlme.c:5500).

### Machines

`connect_safety` has seven scenarios: `User` (one AP with every kind of answer, the user's
request and the driver's own, two channels, automatic choice of the authentication),
`RoamMic`, `RoamDisassoc`, `MicDisassoc` (fast roaming, MIC countermeasures and
disassociations, two at a time), `TwoAps` (two candidates, two requests and the driver's
own, two CPUs), `Adhoc` (an IBSS, three requests, two CPUs) and `SmpScan` (the scans the
driver decides on, two CPUs).

Bounds: one frame of a peer in the queue at a time, 1 to 3 requests of the user in all
(as many as it takes for a request to find the leftovers of another), other contexts add
only to a short queue (`backlog`), timers and replies always. The ring has 6 places, more
than these leave room for, so that a message is lost only by overflow the code is
exposed to; `CntlIsAnswered` and `WaitersAreWatched` exclude the states after a loss, of
which the code says itself that it "may corrupt MLME". A machine handles one exchange
at a time, and the crossing of an exchange with the one before it needs one stale
message: that is what the bounds leave room for.

A request that finds a handler running is served in the middle of an attempt; `overruns`
counts them since the machines were last restarted, up to 2 (`MaxOverruns`). `LinkUpIsEarned` and
`NoLinkWhileBlocked` are stated for one of them. Two can break the first: with two
frames in the queue and two CPUs, 32 steps lead to a link with an AP whose confirmation is of
an attempt overtaken twice. Section 4 says what holds for any number of requests.

Some disturbances are left out where a property is false and no comment of the code says
it should hold: with a disassociation by the AP in the middle of an association, CNTL
waits for ever (assoc.c:1157), until a request restarts the machines; with two CPUs, a
context that scans by itself, scans in order to roam or takes MIC countermeasures may
write CNTL after its request was answered (mlme.c:3190, mlme.c:2350, mlme.c:3016,
rtmp_data.c:3758), so that `CntlIsAnswered` exempts these on SMP (`NotesLate`): `SmpScan`,
where the other properties are checked;
`TimersAddedOnce` excludes `ScanTimer`, which a stale timeout adds while it is pending;
`MsduResumed` is false with MIC countermeasures, which overwrite CNTL during a scan so
that the `SCAN_CONF` which resumes transmission is dropped (connect.c:1074). `NoSelfWait`
is checked in `connect_self_wait` only; the other scenarios with two CPUs stop where it
is violated and go on everywhere else.

The comments expect three more things the code does not do: requests in sequence (connect.c:302;
with two CPUs a request may find the handler that is about to serve another one, so that nothing
is restarted and both are served), fast roaming that looks at CNTL before it scans (mlme.c:2338),
and a disassociation request that is served in every state (the table at assoc.c:74). The model
does what the code does.

### Data path

`data_path` checks `TxPath` with rings of 3 descriptors, two queues and the management
ring, two packets or frames of up to two fragments, protection frames, and any two kinds of
upset (a dropped packet, a NULL frame, a scan, the radio, the port). Aggregation goes with scan,
radio and port, a port closed from the start with the upset that opens it. Three descriptors
let a packet with protection fill the ring, find it nearly full, and wrap. `PlainDataNeedsOpenPort` leaves out the packet that `MlmeHandler` itself
sends. `RxPath` has a ring of 2, two MSDUs of up to two fragments, the second one with number
0, broadcasts, EAPOL for the daemon or the MLME, TKIP with the latter, and two upsets: enough
for a fragment to meet the one of another MSDU or a zeroed `FragFrame`, and for a full
ring. `DeliveredWhole` allows the daemon a first fragment, as the comment at rtmp_data.c:1012
does; `BufferWhenContinued` leaves out the second fragment of MSDU 0. In `AdapterLife`
every step of probe, open and resume may fail but the two allocations `RTMPAllocDMAMemory` does
not back out of and the one of `MlmeHalt`, which section 4 names. `StationKeys` has two entries,
two user's keys (one of a length only `iwconfig` takes) and one of a supplicant, and three
scenarios: `iwconfig` with the interface opened again, `iwconfig` with "off" and `iwpriv`,
`iwpriv` and a supplicant.

Left out, because properties are false there and no comment promises them:
keys of `iwpriv` or of a supplicant after the interface is opened again, "key off" and
an open, and any keys after a resume (the chip has forgotten them, only the wish of the
current WEP index comes back); `Key1` to `Key4` in a WPA mode (rtmp_info.c:964); radio
and mode switched while the interface is closed (`ClosedCalls`), where the receiver is
started without a ring.

### Network

`BssTable` has tables of 2, three BSSs of which one hides its SSID in some beacons and one in all,
two bands and a channel switch: a full table, an overwritten entry, a hidden BSS that finds an old
SSID, twins, and an index of what to overwrite that leaves the table (`OverlapSize` stands for the
range of `BssOverlapNr`) are in reach. One BSS may have its entry rewritten by a channel switch,
which `NoTwins` exempts. `BssCipher` takes every WPA or RSN element with up to three pairwise
ciphers, followed by an RSN element of WPA2-PSK or of another version. `RateSwitch` has four
networks (5 GHz and 2.4 GHz with three rates, an IBSS whose rates are CCK and OFDM, one desired
rate), two percentages on either side of all thresholds and two signals.

### Progress

One handshake of each mode with three faults (losses, failures, early timeouts, resets) and one
renewal of the group key; faults are finite, so that every behaviour ends with a fault-free
suffix. What the properties say of keys ends, for WPA2-PSK, with the first renewal, which installs
none (`Renewed`, and `RenewalUpdatesGtk` below). Networks with three rates, on either band: a debt
of a rate, its neighbour and noise all occur. Two frames kept by the AP, three upsets. Three
stations with comparable BSSIDs.

### Properties that are false, and in no run

They stand in the `...Props` modules with the comment they come from. The four violated runs
report contradictions of code and comment. The first six below contradict a comment as plainly,
and are why `data_path`, `network` and `progress` claim no more than they do; TLC finds each
violated with the configuration of that run and the property in place of the others.
Of the others the comment is a note of intent, or the effect is left to the peer or the user:

- `PortControlled`: a `MlmeHandler` that an ioctl runs (rtmp_info.c:2203) resumes transmission and
  has looked at the port (rtmp_data.c:3166) when the periodic timer closes it (mlme.c:3045); the
  packet enters the ring all the same.
- `StrayFragmentGivenUp`: a second fragment of the MSDU with number 0 fits a zeroed `FragFrame`, and
  the length of a buffer is read whose pointer is NULL (rtmp_data.c:807).
- `MicErrorsAreReal`: `RxNextFragment` compares the MIC of the last fragment, not of the MSDU it has
  put together (rtmp_data.c:845, rtmp_tkip.c:311); an intact MSDU counts as a MIC error.
- `NullFramesInBand`: on 5 GHz with a weak signal the first rate is a CCK rate (mlme.c:3812), and
  NULL frames (mlme.c:2827, 3024) do not pass the clamp (rtmp_data.c:3031).
- `DesiredApIsKept`: if the increment of mlme.c:4555 is stored last, the desired AP is written behind
  the end of a full table (mlme.c:4532).
- `RenewalUpdatesGtk`: a WPA2 group message has no key index in `KeyInfo` and a list of elements as
  key data; the handler takes index 0 and the first bytes (wpa.c:1738, 1862; the call of
  `ParseKeyData` at wpa.c:1764 is a comment), over the pairwise key in `SharedKey[0]`.
- `RepeatedMsg3Completes`: with WPA2 a message 3 repeated because message 4 was lost closes
  the port, and no message opens it before the group key is renewed (wpa.c:2068).
- `AsleepMeansInformed`, `AwakeToSend`: the rule at sync.c:1276 has no code, and a NULL frame
  does not wake the chip; `KeptIsFetched` holds all the same.
- `NoDuplicateDelivery`: one cached entry per sender, which broadcasts overwrite.
- `CallerGuarantees`: the count of descriptors leaves out the protection frame; the packet
  is kept, with its first fragments sent.
- `PeriodicKeepsRunning`: after radio off and on nobody adds the periodic timer (mlme.c:3398).
- `ReceivesWhenUp`: after a resume nobody starts the receiver (rtmp_init.c:1298).

### Deadlock

Deadlock is checked in the runs of the queue, in `connect_returns` and in the other runs of
the machines and the IBSS but `connect_safety`, where a handler that waits for its own
callback really stops (the finding of `connect_self_wait`). In `data_path`, `tx_lost`,
`network` and `progress` the bounded environment comes to its end.

### Fairness

Queue: a context that has begun to enqueue or to serve goes on (weak fairness of its
steps) - callbacks and tasklets are not suspended for ever; the periodic timer is
armed again and fires. That a message of the transmit path is served rests on the
periodic task, which calls `MlmeHandler` every round.

Machines: the handler and the restart go on (weak fairness); a pending timer fires
and a caller gets the CPU between two softirqs (strong fairness: on one CPU they
are disabled while a handler runs, again and again). Nothing is assumed of frames
or users.

Handshakes: the station's queue is served (`Receive`), the driver reconnects after a lost
link (`LinkUp`: the periodic task of `MlmeConnect`), and the authenticator serves its
answers and timers, as 802.11i has it. Rate: the periodic task runs and a frame that was
sent is reported by the TX-done interrupt. Power save: the wake-up interrupt comes, the
periodic task sends its NULL frame (every tenth round), and, strongly fair since the PHY
sleeps in between, beacons and the station's frames are heard again and again. IBSS:
stations in range hear each other again and again and serve their queues. Nothing is
assumed of losses, failures, users or traffic.

## 4. Proofs

`MlmeQueueProofs`, from `LenAssumption`, `MsgAssumption` and `ContextAssumption` only (a
ring of at least one slot, distinct contexts):

- `TypeCorrect`, `CountersAgree` (`Spec`): by `CounterInv`, types and ring together,
  since `Advance`, `%` and the flush agree only for counters in range. The lemmas
  `WindowInterval`, `WindowGrows`, `WindowShrinks` describe what reserving and
  dequeueing do to the set of slots in the queue.
- `OneRunnerAtATime` (`RestartSpec`): `OneRunner` is an equivalence, `Running` iff somebody
  is active; it is inductive with `PlacesInv` (a context inside the handler has an
  element, and the converse) and `DownIdle` (nobody is active before the interface
  was opened, so that the reset in `MlmeInit` is harmless). Under `Spec` it is false.
- `FlagGuardsElements`, `WholeHeadServed` (`SteadySpec`): `SteadyInv` adds that two writers
  have different slots, all in the window, that the slot of a writer is not flagged,
  that a flagged slot holds what it was reserved for, and that the slot of the server
  is the head. Under `RestartSpec` they are false.
- `NobodyStranded` (`RestartSpec`, if no transmit context enqueues): `NoLostWakeup`. Every slot
  of the window is complete, being written or being served (`SlotsCovered`), and who serves
  is at the head (`ServesHead`): a handler stops early only at a slot whose writer has yet
  to call it. The hypothesis is needed: the transmit path enqueues without calling the
  handler, and the periodic task fetches what it leaves.

`MlmeFifoProofs`, from the same assumptions: `ImplementsFifo` (`SteadySpec`), that the initial
state and every step of the queue are those of `MlmeFifo`, or a stutter. The mapping reads
the window as a sequence, so that the lemmas `PlaceOfSlot` and `QueueEqual` turn steps of
slots and counters into `Append` and `Tail`. The invariant is `SteadyInv`, and that every slot
of the window was reserved for a message (`IntendedInv`). Fairness stays with TLC.

`WpaSupplicantProofs`, from no assumption: `SameKeyWhenDone` and `PortOpensAfterKey`
(`WpaSpec`), for any number of losses, failed allocations, repetitions, resets and renewals;
the first one, like `OpenPortHoldsTheGroupKey`, only until a group key of WPA2-PSK is renewed,
after which they are false.
The properties compare keys; that they hold depends on what is still on its way. The
invariant (`HandshakeInv`) says that the frames are ordered by association, and message 1
before the others of its own (`Ordered`); that the PTK is never newer than a frame to come
(`SameAge`); that a MIC under the PTK shows the association of its frame (`MicInv`); that from
the first message 4 no message 1 is left that could replace the PTK (`KeyInv`); and that a
group message of an earlier association finds the supplicant in `START`, which only a
message 1 leaves, and none is before it (`GroupInv`). `HandlerEffect` says once what the
handlers, with all their failures, do to keys, port and answers.
`OpenPortHoldsTheGroupKey` (`OpenPortHasGroupKey`) adds that counters grow along the queues, so
that an answer to the last message shows that nothing else is on its way to the supplicant
(`CountInv`); that message 3 and group messages find the supplicant in `START` if they are of an
earlier association, and bring the group key in use otherwise (`KeyDataInv`); and that the key
they bring is held when they have been confirmed (`PortInv`). Its hypothesis is that
`AES_GTK_KEY_UNWRAP` finds its memory: it returns nothing (wpa.c:984), and what the buffer held is
installed and confirmed. A scan table without the entry (`"scanTab"`) is among the failures
it covers.

`MlmeConnectProofs`, from `AddressAssumption` and `ScenarioAssumption` only, thus for any
networks, disturbances and bounds, on one processor and on SMP:

- `MlmeTypeCorrect` (`TypeOK`), together with the fact that while CNTL tries candidates
  `BssIdx` is an entry of the table: types alone would let it run one past the end, where
  the next `JOIN_REQ` would name no candidate.
- `NoTimerIsAddedTwice` (`TimersAddedOnce`) and `NoMachineIsStranded` (`WaitersAreWatched`).
  Every handler is shown to keep one promise (`Served`): it adds no timer that is pending but
  `ScanTimer`; a machine that waits afterwards has just added its timer, or waited before,
  keeps the timer and was not called for its timeout; what it posts is no frame and no request
  of the user. Restarts,
  timers, contexts and lost messages are treated once for all handlers (`OtherSteps`).
- `CntlIsNeverForgotten` (`CntlIsAnswered`), which is not inductive: another message of its
  group (the requests to one machine) may reach the machine after the request, be rejected and
  reset it, so that the answer never comes. `AnswerInv` says of what CNTL waits for (`Owes`) that
  the confirmation is queued; or the request, with none of its group behind it; or the machine
  is at work and none of the group is queued. It needs
  `MicInv`, `PeerInv` (which messages the scenario allows at all) and `JobInv` (what a context
  may still note in CNTL). That a handler confirms a request or goes on working on it is
  `Keeps`.
- `LinkIsEarnedInSequence` (`LinkUpIsEarned`, and without its bound on `overruns`): the link only
  comes up with the AP that accepted the last authentication and the last association. The
  invariant `SeqInv` says that an attempt of CNTL hands one token round: a request, or the
  machine at work on it, or the confirmation, never two of them; the token belongs to the state of
  CNTL, a request names the BSS that is tried, and a confirmation of success is of that BSS.
  It has two hypotheses. `OidsInSequence`, what connect.c:302 expects: a request that
  overtakes would bring in a second token. `Orderly`: no
  MIC countermeasures and no scans in order to roam, which write CNTL in the middle of an attempt
  and leave its token behind, and no context that notes in CNTL late (`NotesLate`).
- `UserAloneInSequence` (`OidsInSequence`) and `LinkIsEarnedUserAlone`: on one CPU, and if only
  the user makes requests, both hypotheses hold and so does the conclusion. `AloneInv`
  follows a request from the decision through the queue: CNTL is idle until it is
  served, since a busy CNTL is restarted, and the next one is decided after the call of
  `MlmeHandler`. A driver that reconnects by itself breaks this: the periodic task may
  queue its request behind one of the user that is not yet served.
- `NoLinkWhileBlockedInSequence` (`NoLinkWhileBlocked`, which needs no bound on `overruns`
  then). MIC countermeasures take CNTL out of whatever it does and put a `DISASSOC_REQ` into the
  queue; the association they interrupt is still under way. `LeaveInv` says why it is over
  before CNTL tries the next AP: while CNTL leaves, the `ASSOC_REQ` is before any
  `DISASSOC_REQ`, which ends what ASSOC does, and the `ASSOC_CONF` before any `DISASSOC_CONF`
  (`OverBefore`); what is left of a disassociation is before the request of the next
  association (`BegunAfter`), so that no old `DISASSOC_CONF` lets CNTL go too soon the next time;
  there is one association at a time (`Alone`); and a station that is linked has no disassociation
  under way (`Settled`). An association that begins while they are blocked is refused by
  `MlmeAssocReqAction` (`Refused`). Its hypotheses: `OidsInSequence`, as above; `Prompt`, that no
  context notes in CNTL late or scans to roam, so that CNTL is written together with the
  request; and `QuietRestart`, that no countermeasure is decided between the two halves
  of `MlmeRestartStateMachine`, since the restart would forget that CNTL leaves.

`TxPathProofs`, from the assumptions of `TxPath` (rings of at least two descriptors):

- `DescriptorsAreAWindow` (`RingWindow`): every ring is a window of waiting descriptors from
  `done` to `cur`, in arithmetic modulo the ring, kept by writing some fragments, by reclaiming
  a prefix, and by aborting the rings. `TxInv` has the types besides.
- `NoPlainDataBehindAClosedPort` (`PlainDataNeedsOpenPort`), if there is one processor: whoever
  closes the port needs `rt61_hard_start_xmit` and the interrupt handler to be idle (`PortInv`), so
  that what these two have checked is still true when they write. `MlmeHandler` is preempted by the
  timer that closes it: its packet is the one the property leaves out. On
  SMP a handler on another processor may close the port for any of them.
- `PacketsAreConserved` (`PacketsConserved`), on one processor and on SMP. `PlaceInv` says of
  every packet where it is: on one queue, at one descriptor, with one context (as the packet
  taken or the one to be aggregated), released, or, only with aggregation, nowhere; the places
  are counted by the cardinality of five sets, and each step moves one packet between two.

`RxPathProofs`, from `RxAssumption`: `WholeMsdusGoUp` and `FragmentsFindABuffer` rest on what
`FragFrame` holds being zero, or a beginning of one MSDU, its number and the next fragment expected
being those recorded (`Started`), for any range of sequence numbers and any start in it; with
a zeroed `FragFrame` only the second fragment of MSDU 0 seems to continue, and the code does not
survive it (`Alive`); `BuffersAreInOnePlace` (`NoBufferTwice`) on each buffer being
at one of ring, queue, `FragFrame`, stack and pool, at one index there.

`ChipProofs`: from no assumption, `InterruptsAlwaysComeBack`, `RingsOutliveListeners` and
`NothingStaysBehind`. Each has the hypothesis that the code needs: `MlmeHalt` finds its memory
(`Halts`; it returns without doing anything otherwise, mlme.c:5586), the interface is called
only while it is open (`~ClosedCalls`), and the two allocations `RTMPAllocDMAMemory` does not
back out of succeed (`BacksOut`). `LifeInv` relates, for each step of open, close, suspend and
resume, what is held, registered and enabled.

From `KeyAssumption`, `ChipAgrees`: `ChipHasTheKey` always holds if no scenario restarts the
chip or sets a key in a mode it is not meant for. `ChipHasTheKey` speaks of the key in use,
which may change; the invariant (`Mirrored`) is that every entry with a key agrees with its
cell, and the lemma `TablesStayAlike` that the four ways of writing the tables keep it, so
that each call has to be shown to be one of them only.

`NetworkProofs`:

- From `NetworkAssumption`, `OnAirAlways`, that `RateOnAirLegal` always holds: for data frames,
  and for the NULL frames that try the next rate. The NULL frames of the periodic task do not pass
  the clamp (`NullFramesInBand`). `TxRate` itself may be illegal: it starts with 11 Mbps on 5 GHz,
  and the quick-response timer goes down without a bound. The invariant says that this is only
  ever below the rates of the BSS (`WithinOrBelow`: at most the highest common rate, or at most
  the lowest), which every move keeps since moves up and jumps are cut at `MaxTxRate` (lemma
  `Cut`) and the tables lead down, or on 5 GHz to the lowest OFDM rate (`Neighbours`); the clamp
  does the rest. `HighestIsARate` and `StepDownGivesARate` show that the choices of the model are
  rates.
- From `IbssAssumption`, `InUseAlways`: no station uses a BSSID with which none started.
- From `TableAssumption` and `BeaconAssumption`, `OneEntryForEachSsid` (`NoTwins`),
  `NoSsidIsInvented` (`ShownIsAnnounced`) and `TheLinkStaysKnown` (`LinkEntryStays`). `NoTwins` is
  not inductive: an entry whose SSID is not known takes over any SSID. `Distinct` adds that
  such an entry is the only one of its BSS; it holds because the search that comes before
  an entry is added would have found the other (`SearchWithSSID`). `SetEntry` says once that
  a beacon renews the entry it fits, takes the next place, or, without a link, that at
  `BssOverlapNr`, wherever the undefined increment has left it. `NoTwins` leaves out the BSSs whose
  entry a channel switch wrote (sync.c:1059).

- From `TableAssumption` and `BeaconAssumption`, `CandidatesAreSorted` (`CandidatesSorted`): the
  candidates of a request are all the entries that fit it, each once, the strongest first, for any
  table length. `Copy` follows the first loop of `BssTableSsidSort`, which keeps the fitting entries
  in their order; `Pass` and `Sort` the exchanges of `BssTableSortByRssi`, whose every pass leaves the
  strongest of what is left in place; each exchange permutes (`Permuted`), so that no entry is lost or
  doubled (`SameCount`).
- From `CipherAssumption`, `BothCiphersAreKept` (`PairCiphersKept`) and `CandidatesSpeakOurCipher`
  (`CandidateSpeaksOurCipher`). `PairsKept` says what the fold over the pairwise ciphers of an
  element leaves: as `PairCipher` a cipher no listed one exceeds, and in both places only ciphers
  that were listed or held before. For a list of at most two, `TwoPairs`: both have a place, in
  either order, but WEP, which `AddPairCipher` may lose. `TwoElements` unfolds the parse of an entry
  into its two elements, in their order. `FittingIsListed` is the argument of the second theorem,
  for a list of any length: with a group cipher of TKIP or AES, and no listed cipher weaker than
  it, a cipher of ours that passes `CipherFits` is one the element lists.

These three are about loops, that is, functions defined by recursion, and the library's induction
takes a predicate as a parameter. The lemma `Induction` does not: it is about the set of the numbers
for which something holds, and follows from there being a least number outside it (`Least`, from
`WFMin`). `Recursion` shows by it that a function defined by recursion exists and obeys its equation,
`SetRecursion` the same of a fold over positions.

Only model-checked: `LinkUpIsEarned` while one request overtakes, and `NoLinkWhileBlocked` outside
the hypotheses above (one overtaking request, countermeasures on SMP or in the middle of a
restart), which depend on which stale confirmations of overlapping attempts may meet: the run has
one such remnant at a time, and no scan in order to roam together with MIC countermeasures; the
properties are claimed for no more than that. Also `MergesUpwards`, checked for BSSIDs that are
comparable byte by byte, which random ones seldom are; for others it is false (`ibss_up`). And all
liveness, with it the fairness of the refinement of `MlmeFifo`, which TLAPS does not treat; so the
four properties under fairness of `progress`, `CntlReturns`, `MsduResumed` and `IsFifo` as a whole
stay with TLC.

## 5. Not modelled

- Radar detection and the channel list: pulse counts of a register and a list filled from
  constant tables, in sequential code.
- Antenna diversity, TX power and BBP tuning: they write registers by values of registers,
  and no other component reads them. (The bounds of R17 grow by 0x10 at each open on boards
  with an external LNA, in a byte: rtmp_main.c:644.)
- APSD and the QoS parameters, apart from the queues; AMSDU of Ralink's own peers.
- Hardware initialisation, EEPROM and the configuration file; only the steps that may fail
  are in `AdapterLife`.
- Frame parsing: the models take frames that passed it, and the handlers of parsed
  elements start from their values.
- Cryptographic primitives: arithmetic on buffers, best checked with test vectors; a key is
  a name, a MIC is made with a key.
- Most queries and settings of `rtmp_info.c`: they read or write configuration fields.
- Headers, the debug file system, packaging.
- `LinkDown` in the periodic task in the middle of a handler, on another CPU or one an ioctl runs
  (mlme.c:3045): handlers are whole actions of `MlmeConnect`; `TxPath` has it for the port.
  `pAd->Sequence` without a lock (rtmp_data.c:3243): its effect is a repeated number at the
  receiver.

## 6. What could follow

A weaker hypothesis than `Orderly` for `LinkIsEarnedInSequence`. Two CPUs in `TxPath`, where
its locks are to be told apart.
