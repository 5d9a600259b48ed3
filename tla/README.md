# TLA+ models of bl_iot_sdk-components

This directory models in TLA+ the Wi-Fi host side of the SDK (command manager,
manager, scan table, transmit path), its RAM-sync transport and its bloop
scheduler, checks the models with TLC and proves with TLAPS every safety property of
them that the runs check. Source paths are relative to the repository; `wifi/` stands for `src/network/wifi_manager/bl60x_wifi_driver/`.

1. [The system](#1-the-system)
2. [Modules and the code they model](#2-modules-and-the-code-they-model)
3. [Runs](#3-runs)
4. [Bounds, fairness, deadlock](#4-bounds-fairness-deadlock)
5. [Proofs](#5-proofs)
6. [Findings](#6-findings)
7. [Behaviour that is modelled but not claimed](#7-behaviour-that-is-modelled-but-not-claimed)
8. [What is not modelled, and the plan](#8-what-is-not-modelled-and-the-plan)

## 1. The system

The repository is the component tree of a Wi-Fi/BLE SoC SDK. Most of it is
third-party code (lwIP, mbedTLS, wpa_supplicant, the BLE, Thread and Matter
stacks, littlefs, cJSON, AWS IoT), register access or generated tables. The part
with the SDK's own concurrent logic is the Wi-Fi host side; after it come a few
services of its own (RAM-sync transport, netbus, event loops, OTA).

```
 applications, netbus, CLI
      |  wifi_mgmr_ext.c / wifi_mgmr_api.c: post a message or set a pending bit
      v
 Wi-Fi manager task (wifi_mgmr.c, stateMachine.c, wifi_mgmr_profile.c)
      |  bl_main_*, bl_send_*: blocking requests         ^ indications, beacons
      v                                                  | (wifi_mgmr_event.c)
 command manager (bl_cmds.c) -- one-slot mailbox (ipc_host.c) -- firmware
      ^                                                  |
      +--- bottom half: acknowledgements, confirmations -+
 lwIP thread: bl_output -> station queues (bl_tx.c) -> descriptors (ipc_host.c) -> firmware
      firmware -> confirmations, flow control, link indications (bl_rx.c) -> station table
 lwIP thread: netif_status_callback -> pending bits;  timer task: IP timeout, retry, denoise
```

| component | state | operations | what is hard | what makes it correct |
|---|---|---|---|---|
| command manager, mailbox (`bl_cmds.c`, `ipc_host.c`, `bl_send_msg`) | list of commands, flags per command, event group per command, mailbox owner, heap | queue, push, acknowledge, confirm, wake, free | a push outside the mutex; a confirmation before the acknowledgement; callers that free what handlers still use; a full list | one owner of the mailbox, FIFO, every deferred command is pushed, no pointer to freed memory, every call returns |
| Wi-Fi manager (`wifi_mgmr.c`, `stateMachine.c`, profiles) | state, bounded queue, pending bits, profiles, two timers, hint counter, interfaces | one handler per message, `handle_pending_task`, two timer callbacks | requests, indications, timers and DHCP race; messages dropped at a full queue; bits that forget their order | state agrees with the firmware, timers with the state, profiles with the connection, addresses with the link; pending requests are served |
| scan table (`wifi_mgmr_scan_beacon_save`, `wifi_mgmr_scan_ap`) | array of items, channel limit, hidden-name filter, 32-bit clock | save, look up, country code, filter | full table, wrap of the clock, readers without the mutex | sorted, no duplicates, keeps the best recent beacons |
| TX path (`bl_tx.c`, descriptors of `ipc_host.c`) | packet lists and flow control per station and interface, trigger bits, descriptor lists | look up, queue, flush, confirm, hand back, release, purge | TCP/IP task against Wi-Fi task; links that go down under queued packets; descriptors that run out | every packet in one place, no descriptor or trigger lost, flow control ends, packets are sent or given up |
| RX path, callbacks (`bl_rx.c`, `bl_msg_rx.c`) | callback table, station table, links | link up and down, dispatch | four indications keep three records of one fact | links, entries and counters agree |
| RAM-sync transport (`src/stage/tpsync`) | slots, sequence numbers and acknowledgements shared by two nodes over SPI, two queues each | push, fill, DMA, copy, acknowledge, reset | no lock between tasks and DMA; a reset in mid-transfer | messages arrive whole, once, in order, and do arrive |
| netbus manager (`src/stage/netbus_mgmr`) | message queue, Wi-Fi event state | command handlers | client of the manager's API | commands are answered |
| bloop scheduler (`src/sys/bloop`) | event maps in two stages, ascending timer list, queue of LED triggers | raise, wait, copy, handle, register, re-arm | interrupts between the stages; waits that must end; a clock that wraps | no event or wake-up lost, timers in order, events handled |
| yloop (`src/stage/yloop`) | timers, poll sets | post, dispatch | removal during dispatch | events are served |
| OTA, partition table (`src/sys/blota`, `src/sys/blmtd`, `hal_boot2.c`) | two slots, a persistent table with ages | start, write, finish | power loss between two writes | a bootable image at all times |
| DHCP server (`src/network/lwip_dhcpd`) | lease table | discover, request, release | exhausted pool | no address is given twice |

`PROJECT.json` lists every component with its status, and under `hazards` what
can go wrong in this code at which line and which property would show it.

## 2. Modules and the code they model

| module | models | kind |
|---|---|---|
| `CmdMgr` | `wifi/bl_cmds.c`, the message half of `wifi/ipc_host.c` and `wifi/bl_irqs.c`, `bl_send_msg` | core |
| `CmdMgrProofs` | theorems about the list and the mailbox of `CmdMgr` | proofs |
| `CmdMgrCfmProofs` | theorems about its confirmations, callers and memory | proofs |
| `WifiMgmr` | `wifi/wifi_mgmr.c`, `stateMachine.c`, `wifi_mgmr_profile.c`, `wifi_netif.c`, the posting side of `wifi_mgmr_api.c`, `wifi_mgmr_event.c`, `wifi_mgmr_ext.c`, `wifi.c`, the end of a link in `bl_rx.c` | core |
| `WifiMgmrProofs` | theorems about `WifiMgmr` | proofs |
| `ScanTable` | `wifi_mgmr_scan_beacon_save`, country code, filter, `wifi_mgmr_scan_ap` | component |
| `ScanSet` | what `ScanTable` promises (abstract specification) | abstract |
| `ScanTableProofs` | theorems about `ScanTable` and its sort | proofs |
| `TxPath` | `wifi/bl_tx.c`, the descriptor lists of `wifi/ipc_host.c`, the link indications of `wifi/bl_rx.c`, `bl_main_event_handle` | component |
| `TxPathProofs` | theorems about `TxPath` | proofs |
| `RamSync` | `src/stage/tpsync/ramsync_upper/ramsync_upper.c`, `desc_buf/desc_buf.c` | component |
| `RamChannel` | what `RamSync` promises (abstract specification) | abstract |
| `RamSyncProofs` | theorems about `RamSync` | proofs |
| `Bloop` | `src/sys/bloop/bloop/src/bloop_base.c`, `looprt.c`, `loopset_led.c` | component |
| `BloopProofs` | theorems about the events of `Bloop` | proofs |
| `BloopTimerProofs` | theorems about its timers and types | proofs |
| `MCCmdMgr`, `MCWifiMgmr`, `MCScanTable`, `MCTxPath`, `MCRamSync`, `MCBloop` | instances for TLC | |

`PROJECT.json` maps each definition to its source lines. A definition whose name
ends in `_Something` and whose comment says "Mutant" is a plausible bug: it is
used only to see that a property notices it.

### CmdMgr

A task in `bl_send_msg` allocates a command and its message, appends the command
to the list under the mutex (`cmd_mgr_queue`) and, outside the mutex, pushes the
message into the mailbox (`push`) and frees it (`free_a2e_msg`) - unless the last
command of the list still waits for its acknowledgement or its push. In that case
the command is deferred (`WAIT_PUSH`) and the acknowledgement handler pushes it
(`cmd_mgr_llind`). A blocking caller then sleeps on the command's event group
(`test_nonblock`, `wake`); a non-blocking one returns (`no_wait`).

Every section under the mutex is one action; everything else is a step of its own.
`ipc_host_msgack_handler` reads and clears the mailbox owner before it calls
`cmd_mgr_llind`, hence the variable `acking`. Heap cells are explicit (`cmdHeap`,
`msgHeap`), and a command's fields stay readable after it is freed, so a stale
pointer reads whatever the cell holds by then. The firmware is the environment:
it takes a message, acknowledges it, and sends the confirmations it owes, those
of one identifier in order and others in any order, before or after the host has
handled the acknowledgement. `cmd_mgr_queue_full` and `bl_send_msg_nomem` are the
two `-ENOMEM` paths, with the leak the first one has.

A message is its command; parameters and confirmation payloads are left out.
Tokens are unique while fewer than 2^32 commands are alive, so token equality is
identity. `RWNX_CMD_TIMEOUT` plays no part: the wait is for ever.

### WifiMgmr

One manager step handles one message: guard, exit action, action, entry action,
new state. Whatever the other tasks do meanwhile only appends to the queue and
sets bits, so it commutes with the step. `handle_pending_task` is a loop of
separate steps after each message, since other tasks may set bits between them.

| model | code |
|---|---|
| `state` | `wifiMgmr.m.currentState`; the parent states Global and ConnectedIP are the guards that hold in several states |
| `mq`, `Post`, `wifi_mgmr_event_notify` | the message queue; posting does not wait, a full queue drops the message |
| `pending` | `pending_task`: CONNECT, SCAN, IP_UPDATE, IP_GOT |
| `profiles`, `active`, `retryMsg`, `ttl` | `profiles[]`, `profile_active_index`, `stateDisconnect_data.profile_msg`, `ap_info_ttl_curr` |
| `retryTimer`, `ipTimer`, `triggers` | the two one-shot timers, and the delayed actions of the denoise hack |
| `fw`, `target` | the firmware's station (external): off, joining, up, leaving; gone while `bl_rx_sm_disconnect_ind` has posted the end of the link and not yet reset the address |
| `fwVif`, `staIdx`, `apIdx`, `ap` | the firmware's interface indices and `vif_table` |
| `addr`, `dhcp`, `ipv4` | lwIP's address and DHCP client (external), `wlan_sta.ipv4` |
| `calls`, `lost`, `stray` | history, read by no action of the code |

A link ends in two steps of the driver: `cb_disconnect_ind` posts IND_DISCONNECT, then
`rx_sm_disconnect_ind` (`wifi/bl_rx.c:774-778`) resets the address, which reports
IP_UPDATE like any loss of an address. The manager and DHCP may act between the two. Setting
the link down has no state of its own: the DHCP client goes on until the manager stops it,
and may still bind an address.

Requests the manager only passes on to the driver (power saving, raw frames,
channel, configuration, temperature) change none of this and are the one action
`forward`; events no guard accepts are `ignore`.

### ScanTable and ScanSet

`wifi_mgmr_scan_beacon_save` runs under a mutex and is one step: delete old and
forbidden items, find the same access point, a free slot or the weakest item,
store, bubble sort. The sort is the code's, pass by pass and pair by pair (two
recursive functions, one for each loop).
`wifi_mgmr_scan_ap` takes two steps and no mutex: find the index, use it. The
clock is unbounded in `now`; the code sees `now % ClockMod`, and ages are
unsigned differences.

`ScanSet` has no slots, order or wrap: a set of entries, the best recent beacon
of each access point, at most `Capacity`. The refinement maps an item to an entry
whose time is `now - Age(item)`, which recovers the true time across the wrap.

### TxPath

`bl_output` runs in the TCP/IP task and takes two steps: look up the station and
fill in the header without a lock, then queue the packet and set the trigger bit in
a critical section. Everything else runs in the Wi-Fi task, where the firmware's own
events (completions, releases, link indications; `pc = "fw"`) alternate with
`bl_main_event_handle`: confirm completed packets one by one (`bl_tx_cfm`), sample
the trigger bits (`sample_trigger`), walk the stations (`flush_sta`). Packets of the
TCP/IP task arrive between any two of these steps.

| model | code |
|---|---|
| `is_used`, `sta_addr`, `vif_idx`, `fc_ps`, `waiting_list`, `pending_list` | `sta_table[i]` |
| `links_num`, `fixed_sta_idx`, `fc_chan` | `vif_table[v]` |
| `sta_trigger`, `trigger_pending`, `trig` | `tx_cntrl_sta_trigger`, `tx_cntrl_sta_trigger_pending`, the local `sta_trigger` |
| `sta_id`, `repush`, `ref` | `bl_txhdr` of a packet, and the driver's reference on its pbuf |
| `list_free`, `list_ongoing`, `list_cfm` | the descriptor lists of `ipc_host_env` |
| `irq` | `bl_irq_handler` was called, or the TXCFM interrupt is raised |
| `fw_ps`, `fw_chan` | releases the firmware owes (external) |
| `stale` | history: packets held when their link went down |

The status word of a confirmation is a set of bits, of which the firmware uses five
combinations. The firmware is not in the repository; the model assumes of it what
the host code relies on: it hands back for power save only packets of a linked peer
and no group packets, releases what it held back after the host has handled the
packets it handed back, names one interface per release, and gives a station entry
to a new peer only when it holds no packet of the old one. Forwarding between two
stations of the AP re-enters `bl_output` from the Wi-Fi task and is not modelled.

### RamSync and RamChannel

One direction between two nodes; the other direction is the same with roles swapped,
and the two share nothing but the acknowledgement `rseq`, which travels in the other
direction's slots (`ack`). The tx task fills a slot in three steps (message, number,
checksum), the DMA copies slot after slot in three (header, payload, checksum), the
rx task copies a slot in three and judges it. A copy of a payload that is being
replaced may be a mixture (`Read`, message 0). A checksum is the pair it was computed
over, so CRC-32 collisions are left out. The callback after each slot wakes the rx
task only if some slot has the number after `rseq`. `uramsync_reset` is the reset of
both nodes: the tasks pass `first_point`, slots, numbers, semaphores and cache are
cleared, the queues kept.

`RamChannel` has a queue to whose front a message may still be pushed, and a line of
bounded length on which messages neither overtake, repeat nor change; a reset cuts
off the end of the line. The line is what left `tx_desc` and was not yet popped.

### Bloop

Events are raised by tasks below the looper (`bloop_evt_set_async`, then
`xTaskNotifyGive` as a step of its own) or by interrupts at any time outside critical
sections. The looper copies the bitmap of marked tasks (`copy_evt`), waits or not
(`idle`, `ulTaskNotifyTake`), moves due timers aside (`timer_is_up` and
`timer_is_up_store`, the two halves of a read-modify-write outside a critical
section), re-arms them (`timer_dued_clean`), takes the event map of the highest
marked task (`evt_handle`), lets its handler run (`waiting_queue_handle`,
`handler_evt`) and unmarks the task. Ticks are numbers modulo `ClockMod`; `Diff` is
the code's signed difference. `owed` is a history: events raised and not yet given to
a handler. The looper's priority is in the guard `Blocked`: other tasks move only
while it waits.

## 3. Runs

| run | cfg | result |
|---|---|---|
| `cmd_blocking` | `MCCmdMgr_blocking.cfg` | passes |
| `cmd_full` | `MCCmdMgr_full.cfg` | passes |
| `mgmr_sta` | `MCWifiMgmr_sta.cfg` | passes |
| `mgmr_ip` | `MCWifiMgmr_ip.cfg` | passes |
| `mgmr_live` | `MCWifiMgmr_live.cfg` | passes |
| `scan_table` | `MCScanTable_table.cfg` | passes |
| `tx_safe` | `MCTxPath_safe.cfg` | passes |
| `tx_live` | `MCTxPath_live.cfg` | passes |
| `ramsync` | `MCRamSync.cfg` | passes |
| `bloop` | `MCBloop.cfg` | passes |
| `cmd_nonblock` | `MCCmdMgr_nonblock.cfg` | violation, see [Findings](#6-findings) |
| `tx_remote` | `MCTxPath_remote.cfg` | violation, see [Findings](#6-findings) |

Run one with `tlc -workers 2 -config MCCmdMgr_full.cfg MCCmdMgr`.

**cmd_blocking** - three tasks send blocking requests, two of which may wait for
the same confirmation (power saving and denoise both wait for
`MM_SET_PS_MODE_CFM`). `MailboxExclusive`: the assertion of `ipc_host_msg_push`
never fires and no two writers race. `DeferredHasPusher`: a deferred command always has somebody who will push
it. `CfmAnswersItsCmd`: matching by identifier alone gives each confirmation to
the command it answers. `NoDanglingCmd`, `WokenIsFinished`, `QuietHeapIsEmpty`: memory. `PushedInOrder`: the firmware sees
requests in the order in which they were queued. `CallReturns`: every call
returns.

**cmd_full** - two tasks, blocking and non-blocking requests, more cells than
places in the list: the list fills with commands nobody waits for and the heap
runs out. `BlockingCallerOwnsCmd`: the pointers of blocking callers stay valid. (That
the limit holds is part of the proved `TypeOK`.)

**mgmr_sta** - every request except addresses and denoise, with two networks whose
hints differ, against joins that fail, links that break and a queue of three.
`StateFollowsFw`: the manager's state and the firmware's station differ only while
the indication that reconciles them is queued. `TimersMatchState`: no timer
outlives its state. `NeverStranded`: something always leads out of Disconnect.
`RetryUsesDefault`: what the timer task prepared, the profile and the countdown of its
hint (`TtlFresh`), is still right when the manager uses it. `VifIntactUnlessStray`: the interfaces the manager relies on
exist. `StateFollowsFw` and `NeverStranded` are stated for behaviours in which no
internal message was dropped at the full queue (`lost`); the drops themselves are
in the model.

**mgmr_ip** - static addresses set and unset and denoising switched while DHCP
binds and loses leases and the address is reset with the link. `EndsWithLink` (no address,
DHCP client or denoising outlives what it belongs to), `IPYesHasAddress`, `WakeupNotLost`
(a bit is never left unseen, although the wake-up that follows it may be dropped).
`IPYesHasAddress`: a manager in IPYes that is not about to disconnect for a pending connect
has an address, or IP_UPDATE is set, or the link has ended and IND_DISCONNECT is queued (or
was dropped). The last case is real: with IP_GOT pending in IPNo the reset's IP_UPDATE is
served first, and IP_GOT then enters IPYes with nothing.

**mgmr_live** - connect, disconnect, idle and disable requests. `PendingConnectServed`: a
connect request that had to wait is carried out, unless an internal message was dropped or
an application makes the manager idle (section 7). `Reconnects`: a disconnected station
joins again, unless an internal message was dropped or a request to give up is queued
(IDLE, DISABLE), by an application or by the manager with auto-reconnect off.

**scan_table** - four access points (two of one name, one hidden) compete for
three slots while the clock wraps and the country changes. `WellFormed`: the array is
sorted, free of duplicates, and the first match is the strongest (`Ranked`,
`FindsStrongest`). `ImplementsScanSet`: the refinement.

**tx_safe** - two packets for any destination, one descriptor, three station entries.
`OnePlace`: a packet is in exactly one list while the driver holds its reference and
in none afterwards, so it is released and confirmed once; free, ongoing and confirmed
descriptors add up (`DescAccounted`). `TriggerNotLost`: between two events, a packet
that may be sent is announced by a bit with an interrupt, or by a deferred bit with
packets in flight; whoever is held back is someone the firmware still has to release
(`FcReleasable`). `LinksMatch`: `links_num`, `fixed_sta_idx` and `is_used` tell
the same story after any sequence of indications. `PurgeNotLost`: what is queued on an
entry that has gone down, also by a `bl_output` that looked it up before, is announced in
the same way; excepted are an entry that went down in power save and one that the station
has left for another (section 7).

**tx_live** - `Delivered`: a packet for the access point or a group is sent or given
up unless its link goes down.

**ramsync** - three messages through two slots, with one reset at any moment.
`NoOverwrite`: a message that was not passed on is still whole in a slot. `ChannelSpec`:
the refinement of `RamChannel`. `Arrives`: once the application stops, everything it pushed and no
reset took back reaches the other side.

**bloop** - two LEDs with periods of one and two ticks, two tasks and interrupts.
`EventNotLost`: an event that was raised and not given to its handler is in a map and
its task is marked, and a queued trigger has such an event on its way
(`TriggerAnnounced`). `WakeupNotLost`: a waiting looper is owed a notification for every
marked task and wakes with the first timer. `PicksSomething`: the highest bit is asked
for only when there is one. `TimersAscend`: the list is in order across the wrap and no
timer is in two lists. `KeepsBlinking`: a triggered LED's timer is never dropped and fires
again and again. `EventHandled`: no event stays owed for ever.

## 4. Bounds, fairness, deadlock

- `CmdMgr`: three tasks are needed for an acknowledged, an in-flight and a
  deferred command at once, each with a live caller; two commands that wait for
  one identifier and two deferred commands in a row also occur. `MaxQueued` is 2
  in `cmd_full` (8 in the code) so that a list of two tasks' commands fills up.
  The proofs cover every value. Symmetry is used only in `cmd_full`, which has no
  temporal property.
- `WifiMgmr`: `MqCount` is 3 (10 in the code), the smallest queue in which a
  request, an indication and an internal message meet; a shorter queue overflows
  earlier, so dropped messages are over- rather than under-represented.
  `MaxCalls` bounds what the applications do, not what the firmware, the timers
  or DHCP do; three calls suffice for a connection, a connect that is pending
  behind it, and a third request in the middle. `MaxTriggers` is 2, the second
  chain of denoise triggers; a third would do what the second does. `mgmr_live` has one
  network, a queue of two and four calls: a connection, a connect pending behind it, the
  request that makes the manager idle, and a connect that finds the bit still set.
- `ScanTable`: three slots for four access points force replacement; the clock
  (modulo 8) starts at 6 and wraps at 8, with a limit of 1, so items are deleted
  on both sides of the wrap. `MaxTime - Start \in 0 .. ClockMod - 1` (an assumption)
  means no item is a whole turn of the 49-day counter old.
- `TxPath`: two packets and one descriptor (`NX_TXDESC_CNT0` in the code) are enough
  for one packet in flight, one waiting and the descriptor gone; three entries hold
  the access point, a station and the group station at once, and let a station come back on
  another entry while packets are queued on the one it left; `tx_live` has two, since
  `Delivered` says nothing of packets whose link went down.
  `MaxRepush` is 1 (3 in the code): a packet is handed back and, the second time,
  dropped. Each packet is sent once; packets are symmetric in `tx_safe`.
- `RamSync`: two slots and a transmit queue of two as in the code, a receive queue of
  one (two in the code) so that it fills; three messages reuse a slot. `SeqMax` is 7,
  never reached: `NoWrapAssumption`. The proofs cover every value.
- `Bloop`: the LED's task and one above it; a clock of 7 ticks wraps again and again;
  `MaxLate` is 1, the delay with which the looper is scheduled. `Led` is 0 instead of
  1, since nothing below it is said to be served. Two events besides the LED's.

Fairness. `CmdMgr!Fairness`: ready tasks run (FreeRTOS schedules them), the
firmware takes each message and in the end confirms the oldest request, the
bottom half runs when its interrupt is raised. Nothing obliges a task to call.
`WifiMgmr!FairSpec`: the manager runs, one-shot timers expire, and the firmware
ends a join and a disconnection it was asked for. It is not assumed that a join
succeeds, that a link breaks or that DHCP answers.
`TxPath!FairSpec`: both tasks run; the firmware completes what it was given and gives
the releases it owes - strongly fair, since its event loop is entered again and again
but does not stay where these are possible. `RamSync!FairSpec`: the tasks run, the
cyclic DMA never stops and the receiving application keeps popping. `Bloop!FairSpec`:
time passes, the looper runs, and tasks below it get to run between its activities
(strongly fair, because each activity disables them).

Deadlock is checked for `CmdMgr`, `TxPath`, `RamSync` and `Bloop`. It is not for `WifiMgmr`, where a manager
nobody calls waits at its queue, and for `ScanTable`, whose clock is bounded.

## 5. Proofs

Every invariant a run checks is also a theorem for every value of the constants; so are the
action property `PushedInOrder` and the refinements `ChannelSpec` and `ImplementsScanSet`. Each inductive invariant was checked by TLC on the instance of a run first.

### CmdMgr: the list and the mailbox

`CmdMgrProofs` proves for any number of tasks, requests and cells and any list
length, from `ConstantsAssumption` alone (a positive `MaxQueued`, and null values
distinct from real ones):

| theorem of `CmdMgrProofs` | statement |
|---|---|
| `Invariance` | `Spec => []IInv` |
| `TypeCorrect` | `Spec => []TypeOK`; `queue_sz` counts the list and stays within the limit |
| `MailboxIsExclusive` | `Spec => []MailboxExclusive` |
| `AckAlwaysFinds` | `Spec => []AckFinds` |
| `DeferredIsServed` | `Spec => []DeferredHasPusher` |
| `NoDangling` | `Spec => []NoDanglingCmd` |
| `PushesAreInOrder` | `Spec => PushedInOrder`, an action property |

None of the properties is inductive by itself. `MailboxExclusive`, for example,
needs to know that a caller in `push` is the only unacknowledged command of the
list, which follows from how `MustDefer` looks at the last element only. The
strengthening `IInv` is the shape of the list:

> acknowledged commands, then at most one unacknowledged command, then deferred
> ones; deferred ones exist only behind an unacknowledged one (`ListOrder`). The
> unacknowledged command is exactly the one being pushed, in the mailbox or held
> by the acknowledgement handler (`InFlightIsUnacked`). Those three places
> exclude one another (`MailboxExclusive`), the interrupts match the mailbox
> (`Interrupts`), and listed commands are allocated and not yet completed
> (`ListIsLive`).

It explains why looking at the last command suffices for deferring, why the walk
of `cmd_mgr_llind`, which stops at the first deferred command, always passes the
acknowledged one first, and why the first deferred command may take the mailbox.
There is one lemma per action (`QueueStep`, `PushStep`, `MailboxStep`,
`LlindStep`, `MsgindStep`; `ReturnStep` for those that leave the list alone).
`LlindView` describes the list as the acknowledgement handler sees it,
`CompleteProps` what unlinking a command does, `RemoveAtProps` the sequence
operator behind it.

### CmdMgr: confirmations, callers, memory

`CmdMgrCfmProofs` rests on `IInv` and adds three invariants relative to it.

| theorem of `CmdMgrCfmProofs` | statement |
|---|---|
| `ConfirmationsInOrder` | `Spec => []CfmOrder` |
| `CfmReachesItsCmd` | `Spec => []CfmAnswersItsCmd` |
| `WokenWhenFinished` | `Spec => []WokenIsFinished` |
| `CommandsOwned` | `Spec => []BlockingOwned` |
| `BlockingCallerSafe` | `Spec => []BlockingCallerOwnsCmd` |
| `NothingLeaks` | `BlockingOnly` implies `Spec => []QuietHeapIsEmpty` |

`cmd_mgr_msgind` has only an identifier to go by, and two commands may wait for the same
one. It finds the right one because the order of the list and the order in which the
firmware owes its confirmations agree (`CfmOrder`): each confirmation owed answers a listed
command that was taken and still waits, later ones answer later commands, and a command
that waits without being owed anything has not been taken yet and stands behind all that
were. A command is *untaken* while it is deferred or in flight with no acknowledgement
raised or being handled. `CfmCallerStep` and `RemoveAtMap` carry this through the steps
that leave the list alone or unlink a command.

`BlockingOwned`: a blocking call's command is allocated, does not carry NONBLOCK, and is no
other blocking call's; only commands with NONBLOCK are freed by their completion.
`HeapOwned`: every allocated command is that of a task inside `bl_send_msg`, every message
waits in the list or for its pusher. The last needs `BlockingOnly`: all requests are
blocking, and there are no more tasks than `MaxQueued`. Then the list has room whenever a
task calls (`NeverFull`: each listed command has a task of its own, and the caller is none
of them), and the path that leaks is never taken. Both halves are needed: a NONBLOCK
command outlives its call, and a call rejected at a full list leaks its message. In the
code only `bl_send_me_rate_config_req` is NONBLOCK.

### WifiMgmr

`WifiMgmrProofs` proves for any profiles, static addresses, operations, queue length and
number of calls, from the assumptions of `WifiMgmr`:

| theorem of `WifiMgmrProofs` | statement |
|---|---|
| `Inductive` | `Spec => []IInv` |
| `Types` | `Spec => []TypeOK`; the queue keeps within `WIFI_MGMR_MQ_MSG_COUNT` |
| `Follows` | `Spec => []StateFollowsFw` |
| `Timely` | `Spec => []TimersMatchState` |
| `NotStranded` | `Spec => []NeverStranded` |
| `RetriesDefault` | `Spec => []RetryUsesDefault` |
| `Interfaces` | `Spec => []VifIntactUnlessStray` |
| `Ends` | `Spec => []EndsWithLink` |
| `Wakes` | `Spec => []WakeupNotLost` |
| `HasAddress` | `~ShortLease => (Spec => []IPYesHasAddress)` |

`StateFollowsFw` says that the difference between the manager's state and the firmware's
station is in the queue. To be inductive it must say what is in the queue (`Lag`): in each
state the firmware is in one of a few states, each with no indication queued, one, or a
connection followed by its end, or an indication was dropped. The lemmas on queues
(`TailQueue`, `TailIndications`, and those on posting) say how taking and posting a message
moves between these. `RetryFirst` orders the queue: a RECONNECT is never behind the end of a
connection, since the timer that posts one runs only in Disconnect and the firmware then
has nothing to end; so a station that has just been disconnected finds no reconnect of an
older disconnection. The end of a link counts as queued from the moment it is posted, before
the address is reset (`fw` gone). `ProfilesSet` gives a profile wherever one is needed; `VifSound` adds
to `VifIntact` that the station's interface is the only one of its kind. An invariant of its
own, `AddrSound`, says that a reported address is the present one, or one that was reset
with its link, or the report is dropped before the next message (`GotIsFresh`), and that
IPYes without an address means IP_UPDATE is set or the link has ended (`YesIsTold`); by
`Lag` the end is then queued or was dropped. It holds only if no lease ends before its
report is handled (`ShortLease`, see section 7).

### TxPath

`TxPathProofs` proves for any number of station entries, packets, descriptors and
hand-backs, from the assumptions of `TxPath`:

| theorem of `TxPathProofs` | statement |
|---|---|
| `Inductive` | `Spec => []IInv` |
| `Types` | `Spec => []TypeOK` |
| `OneList` | `Spec => []OnePlace` |
| `NoLostTrigger` | `Spec => []TriggerNotLost` |
| `LinksCounted` | `Spec => []LinksMatch` |
| `Purges` | `Spec => []PurgeNotLost` |

Two arguments meet. *Packets*: the lists have no packet in common or twice, the lists of a
station only its own (`Apart`), and what they hold together is what is referenced
(`Referenced`); so the number of places of a packet is its reference. *Triggers*:
`TriggerNotLost` speaks of the moments between two events; `Announced` says for every
place inside `bl_main_event_handle` how the Wi-Fi task will still come to an entry with
something to send. Where the descriptors have run out the trigger is deferred to a
confirmation, which is to come because the descriptors add up (`DescAccounted`) and
confirmations raise an interrupt (`CfmRaised`). Where flow control holds the entry back,
the firmware owes a release (`FcReleasable`, `Owed` for the packets handed back and not yet
handled), and the release reaches the entry because `LinksMatch` and `GroupFixed` say which
entry it names. An entry that is linked anew has nothing old to send (`LiveOrStale`). What
an entry has to send (`ToSend`) includes all that is queued on it once it has gone down, and
an interface without a link is never off channel (`DownOpen`), so `Purges` is the same
argument.
`LinksCounted` counts with cardinalities of finite sets.

### RamSync

`RamSyncProofs` proves for any number of slots, queue lengths, messages and resets,
from `ConstantsAssumption` (positive sizes) and `NoWrapAssumption` (fewer messages than
numbers):

| theorem of `RamSyncProofs` | statement |
|---|---|
| `Inductive` | `Spec => []IInv` |
| `TypeCorrect` | `Spec => []TypeOK` |
| `ArriveInOrder` | `Spec => []InOrder` |
| `NeverOverwritten` | `Spec => []NoOverwrite` |
| `AcksAreHonest` | `Spec => []AckHonest` |
| `Refinement` | `Spec => ChannelSpec` |

The argument: message number `k` since the last reset is element `base + k` of the
history `log` (`Counts`). Whatever the DMA and the rx task copy in whatever mixture, a
checksum is always one the tx task computed, so it names a number and *the* message of
that number (`Checksums`); a copy that agrees with its checksum and has the number after
`rseq` is therefore the next message (`CacheTrue`), which is `InOrder`. A slot is reused
only when its number is at most an acknowledgement seen, and acknowledgements seen are
at most `rseq` (`AckHonest`), so every number between `rseq` and `tx_seq` keeps its slot
(`NoOverwrite`; `Filling` for the slot being filled). Since these numbers are in
different slots there are at most `NSlot` of them - a finite-set argument, a function from
numbers to slots is injective - which bounds the line in the refinement: `NSlot` on the
wire and `RxDescNum` in the queue. `Refinement` then maps `tx_fill` to `Commit`,
`uramsync_rx_pop` to `Arrive`, `uramsync_reset` to `Reset`, and everything between to
stuttering.

### Bloop: events

`BloopProofs` proves for any number of tasks, callers, timers and events, from
`ConstantsAssumption` (used here: the LED's task gets no events from interrupts):

| theorem of `BloopProofs` | statement |
|---|---|
| `Inductive` | `Spec => []Inv` |
| `NoEventLost` | `Spec => []EventNotLost` |
| `NoWakeupLost` | `Spec => []WakeupNotLost` |

An owed event is still in the *asynchronous* map, because taking the map is what gives
it to its handler; and its task is marked by a mark that outlives the running handler:
one in the asynchronous bitmap, or one in the synchronous bitmap that is not the mark
the handler is about to clear (`OwedPending`). That is what could go wrong when an
interrupt raises an event while its handler runs. `bloop_evt_set_sync` reads and writes
the LED's map in two steps; nobody changes it in between (`StoreSafe`), since callers run
below the looper and interrupts raise other tasks' events. On its way to sleep the looper
has copied every mark, and a later one comes with a notification or a caller that is about
to give it; the end of the wait is the target of the first timer, which a caller that
configures a timer cannot change because that timer is in no list (`Resting`). That the
list is a list of timers needs that registering one finds a least position (`MinIn`,
`RegisteredSeq`).

### Bloop: timers

`BloopTimerProofs` proves for any number of timers, any periods and any clock, from
`ConstantsAssumption`: twice a period plus twice the lateness is less than the range of the
clock (2^32 ticks), and a timer is late by at most `MaxLate` (a guard of `tick`).

| theorem of `BloopTimerProofs` | statement |
|---|---|
| `TimerInductive` | `Spec => []TimerInv` |
| `Typed` | `Spec => []TypeOK` |
| `NeverPicksNothing` | `Spec => []PicksSomething` |
| `TimersInOrder` | `Spec => []TimersAscend` |
| `NoTimerDropped` | `Spec => [][Configured \subseteq Configured']_vars`, half of `KeepsBlinking` |

Signed differences of a clock that wraps are no order in general. They are one among values
near each other: each timer in a list has between `-MaxLate` and its period left
(`InTime`), and two such timers compare as the ticks they have left (`OrderIs`, from
`DiffIs`, `DiffUnique` and `DiffSub`). Only by this does putting a timer before the first
one that is not earlier keep the list ascending (`RegisteredAt`, `InsertAscends`), and it
is why a queued trigger may be registered long after it was configured. A repeating timer
gets its period back as the difference of its two stamps, the rest of `InTime`.
`PicksSomething` follows from `Picks`: `_bloop_wait` skips its wait with no task marked when
the first timer is up; time that passes until the timers are handled only makes it later,
the comparison there has its operands swapped and still agrees (`DiffFlip`), and the timer
marks the LED's task. `TypeOK` needs `Picks` in turn, since the highest of no tasks is
anything. That no timer is twice in the lists is a counting argument over their
concatenation (`OnceConcat`, `OnceCounts`).

### ScanTable

`ScanTableProofs` proves for any number of slots, access points, strengths, channels and
countries, from `ScanAssumption`. Its one restriction is that a behaviour lasts less than a
turn of the counter (2^32 ms, 49 days): after a whole turn without any beacon an item would
look new again, in the code as in the model.

| theorem of `ScanTableProofs` | statement |
|---|---|
| `SortSorts` | `Sort(items)` has the same items, and each slot is `Above` the later ones |
| `TableWellFormed` | `Spec => []WellFormed` |
| `TableRefines` | `Spec => ImplementsScanSet` |

What a loop computes for any number of rounds is an induction. The library's induction
theorems cannot be used, but well-foundedness of `<` on the naturals can, since it speaks of
sets: every set of naturals has a least element (`LeastNat`), so a set that holds 0 and each
number with its predecessor holds all up to the bound (`UpTo`), and a recursion up to a bound
has a solution (`Recursion`), which is what makes the functions in `BubblePass` and `Sort`
the ones their equations describe (`PassIs`, `SortIs`).

The sort: a comparison carries the lowest item seen so far one slot on (`Lowest`,
`SwapStep`), so that pass `i` puts the lowest of the first `Slots - i + 1` into its place and
leaves the `Settled` slots behind it alone (`PassSettles`); the bound of the inner loop is
exactly what this needs. Each swap keeps the items and access points unique (`Alike`,
`SwapAlike`). `Weakest` exists for the same reason a loop over the slots finds it
(`WeakestIs`): `Weaker` is an order although its second part compares raw stamps.

The table: `TypeOK /\ Ranked` is inductive, since a beacon is stored over its own access
point, in a free slot, or over the weakest (`StoredIs`), and none of these makes an access
point appear twice; `FindsStrongest` follows (`RankedFinds`).

The refinement needs `Aged` in addition: no item is older than the system, so that a tick
adds exactly one to its age across the wrap (`AgeStep`, from `ModStep`) and leaves its
abstract time alone (`TickStep`). Cleaning leaves the live entries (`CleanedLive`), sorting
none other (`AlikeEntries`), and the three ways of storing are `Refresh`, `Add` and
`Replace` (`HearStep`); that the set is full exactly when no slot is free counts entries by
slots and needs unique access points (`EntriesCount`, `EntriesRoom`).

### Only model-checked

The liveness properties `CallReturns`, `PendingConnectServed`, `Reconnects`, `Delivered`,
`Arrives`, `EventHandled` and the second half of `KeepsBlinking`: the
prover does not do fairness.

## 6. Findings

Each is a run that TLC refutes, with the line of the code or comment it
contradicts quoted in `PROJECT.json`.

- `cmd_nonblock` / `CallerOwnsCmd`: a NONBLOCK command is freed by its
  acknowledgement while the task that sent it still reads `cmd->a2e_msg`,
  `cmd->flags` and `cmd->result` without the mutex (`wifi/bl_cmds.c:135-161`).
- `tx_remote` / `RemoteDelivered`: a release of the AP's stations from power save
  triggers them but does not clear their `fc_ps` (`wifi/bl_tx.c:122`, compare 109), and
  the flush skips a triggered station that is still held back: its packets stay queued
  while it stays linked. A release of the channel triggers only the group station.

## 7. Behaviour that is modelled but not claimed

- A dropped internal message may leave the manager in Connecting or Disconnect
  for ever; nothing repeats it.
- A lease lost before the manager has handled its arrival leaves it in IPYes
  without an address, since IP_UPDATE is always served before IP_GOT.
  `ShortLease = FALSE` excludes this in the runs that check `IPYesHasAddress`. The reset
  of the address at the end of a link does the same; there IND_DISCONNECT ends it.
- IDLE or DISABLE in Disconnect deletes the retry timer (`wifi/wifi_mgmr.c:1515`), the only
  thing that clears a pending connect. The bit stays set, and the next connection is ended
  once more for the forgotten request.
- The IP timeout may be queued just before the address arrives and ends a
  connection that has its address; auto-reconnect repairs it.
- A denoise trigger queued behind the application's "off" turns denoising on
  again.
- DISABLE in Disconnect gives up at once and does not set the flag.
- A beacon saved between the two steps of `wifi_mgmr_scan_ap` moves items: the
  item returned may be another network's. The code has a FIXME there.
- The tie-break between equally weak items compares raw counters and prefers the
  newer one across a wrap; `ScanSet` leaves the choice open.
- "set profiles[1] inactive" makes `profiles[1]` the active index
  (`wifi/wifi_mgmr_profile.c:158`), so a station may take `use_dhcp` from another
  network's profile.
- A connect request handled in Disconnect does not cancel an older pending one, and the
  station ends on the older network (`wifi/wifi_mgmr.c:758`).
- Stopping an access point that does not run removes the firmware's interface 0, which
  may be the station's (`wifi/wifi_mgmr.c:631`); `VifIntactUnlessStray` excludes it.
- A beacon weaker than the stored one does not renew `timestamp_lastseen`
  (`wifi/wifi_mgmr.c:258`), so an access point that is still heard is deleted as old.
- A packet looked up before a link went down may be queued on an entry that by then is
  another peer's, or be sent to a station whose address an entry of the access point
  still carries (the skip at `wifi/bl_tx.c:163` compares with two indices that are
  -1): that a unicast packet leaves on its own interface is not claimed.
- A link that goes down leaves `fc_ps` set: packets of a peer in power save stay queued
  until the entry is used again.
- A packet queued on an entry the station has left for another stays there if the flush
  finds the interface off channel: its trigger is forgotten (`wifi/bl_tx.c:475`), and the
  release triggers only `fixed_sta_idx` (`wifi/bl_tx.c:111`).
- An event of a bloop task below the LED's may wait for ever while a timer's period is
  no longer than a turn of the loop.
- A call rejected with `-ENOMEM` leaks its message; `QuietHeapIsEmpty` is checked
  where no call is rejected.

## 8. What is not modelled, and the plan

Not modelled by choice: third-party stacks, register access, formatting and
command-line code, and the request builders of `bl_msg_tx.c`, which differ only
in data. In the modelled files: the diagnose TLV lists, the status code of the
last indication, scan parameters, channel switches and client lists of the access
point, and the payload of every message.

In `bl_tx.c` the bounce buffers of BL808 and BL606P, `bl_main_apm_sta_delete`, which
clears a station entry and its lists in the manager's task, and forwarding within the
AP; in `tpsync` the handshake of the reset, a node that restarts alone, the low-level
SPI code and the allocator; in `bloop` the start-up, registration of handlers, the
messages, `looprt_evt_schedule` and the loopsets other than the LED's. Nothing sets a bit
of `bitmap_msg`, so the comparison of the highest event with the highest message
(`bloop_base.c:332`) always takes the event, as long as clz(0) yields 32.

Seen in that code while reading it, and outside what the models can show:
`looprt_evt_schedule` changes the timer list from the caller's task without a lock
(`looprt.c:74`; only test commands call it); `bloop_handler_register` looks for a free
slot at one index only (`bloop_base.c:67`); a reset signalled between the reset task's
`status = RUNNING` and its `vTaskSuspend` is forgotten (`ramsync_upper.c:209`);
`desc_push_*` leaks its copy when the queue stays full (`desc_buf.c:128`); the length
passed on to the receiver includes the eight bytes of `len` and `seq`
(`ramsync_upper.c:761`); the numbers' comparison at `ramsync_upper.c:602` fails when
they wrap.

Planned, in this order:

1. `WifiMgmr`: the status code (a stale code hides the state from `wifi_mgmr_state_get`).
2. `ScanReq`: scan requests and completions, the pending scan and
   `wifi_mgmr_all_ap_scan`, whose callers wait for one global semaphore.
3. `Ota` (`src/sys/blota`, `hal_boot2.c`): power loss between the writes of an update.
4. `Netbus` as a client of `WifiMgmr`; yloop; the DHCP server's leases.
