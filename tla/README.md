# A TLA+ verification of rvvm-hal

rvvm-hal is a bare-metal hardware abstraction layer for RISC-V guests of the
RVVM virtual machine: it boots the harts, takes traps, drives the PLIC, the
timer and PCI devices (network, NVMe, display, sound, input) and hands an
application a small C API. There is no operating system under it, so what is
hard is what the hardware does between two instructions: another hart's store
buffer, a trap, a device that writes to memory, a controller that answers late.

This directory holds TLA+ models of the parts where that matters, TLC
configurations that check them on small instances, and TLAPS proofs for
instances of every size. `PROJECT.json` is the index: components, runs, mutants,
the map from definitions to source lines, findings, hazards and theorems. Paths
such as `src/src/smp.c` are relative to the directory that holds this one.

    tlc -workers 2 -config MCIrq.cfg MCIrq      one run
    tlapm SmpProofs.tla                         the proofs of one module

## 1. Inventory

Each part: the state it keeps, its operations, who it interacts with, what is
hard about it, and what makes it correct.

| Part (source) | State | Operations | Hard behaviour | Correct when |
|---|---|---|---|---|
| Boot and SMP (`smp.c`, `start.S`, `start_s.S`) | `smp_entry_fn/arg/running` per hart, `hart_count`, msip | `_start`, park loop, `smp_init`, `smp_start`, `smp_wait`, `smp_is_running` | three plain stores read by another hart under RVWMO; an IPI that arrives before or during `wfi`; M-mode and SBI bring-up differ | an entry runs exactly once, with its own argument, results visible before idle; every wait returns |
| Atomics and spin lock (`atomic.h`, `mutex.h`) | lock word, each hart's LR reservation | `mutex_lock`, `trylock`, `unlock`, `holder` | LR/SC failures, give-up after 32, a trap between LR and SC | mutual exclusion; a contender gets in |
| Panic (`panic.c`) | re-entry guard | `panic`, fatal trap | several harts panic at once; a fault in the dump; the message goes out ahead of the guard | one dump at most; a hart that panicked never runs on |
| External interrupts (`irq.c`, `trap.S`, PLIC calls of both backends) | `irq_handlers`, PLIC enable, priority, threshold, claim | `irq_init`, `irq_register`, `irq_enable_source`, ..., the claim loop | registration is two stores at any time, the PLIC keeps state over a reset of the guest, the loop drains while devices raise | every claim completed; no handler runs with another's context; no interrupt lost, but where section 3 says so |
| Local interrupts and time (`irq.c`, `time.c`) | `status.IE`, the MTIE/MSIE bits, the comparator, two handler slots | timer and IPI registration, `time_busy_until` | a wait that uses the timer as an alarm clock with interrupts masked, against traps of the same timer | returns; leaves interrupts as they were; no trap of its own |
| Platform backends (`plat_m_clint.c`, `plat_s_sbi.c`) | base addresses, shadow of the comparator (SBI) | IPI, timer, bring-up, PLIC | the two implement one contract (`plat.h`) with different instructions | both give the callers above what they rely on |
| Ethernet (`eth_rtl8169.c`) | two descriptor rings in memory shared with the device, `rx_head`, `tx_head`, IMR/ISR | `eth_recv`, `eth_send`, `eth_irq_attach`, handler | OWN bits; poll-to-interrupt switch; ack before drain | frames delivered once, in order, none stranded once the handler is attached; sent in order |
| lwIP glue (`net.c`) | the netif | `net_poll`, output callback | drain loop over `eth_recv` | as Ethernet |
| NVMe (`nvme.c`) | I/O queue pair, head, tail, phase, PRP list pages | `nvme_init`, `nvme_read`, `nvme_write`, `submit_and_wait`, `setup_prp` | phase bit, ring wrap, list chaining, a poll that gives up before the controller answers | the count returned was transferred; PRPs describe the buffer; the list stays inside its pages |
| Virtqueues (`virtio.c`) | descriptor free list, avail and used rings, `last_used` | setup, push, pop, alloc, free | 16-bit indices, device concurrency | every descriptor has one owner |
| Virtio GPU and input (`virtio_gpu.c`, `virtio_input.c`) | one command in flight; event buffers | init, present, `gpu_cmd_sync`; refill, poll | the popped id is ignored; a poll without a limit; buffers posted again while events arrive | the answer belongs to the command; no event lost |
| Audio (`audio*.c`, `hda.c`) | CORB and RIRB indices; the edge queue, the speaker's level, the PCM ring and its write position | `audio_init`, `audio_beep`, verbs; `audio_edge_open`, `_set`, `_advance`, `_close` | a response that comes too late, a host that plays at its own pace, frames shorter than a sample or longer than the ring | nothing unplayed is overwritten; the samples have the levels asked for |
| Graphics (`gfx.c`, `bochs.c`, `gfx_text.c`) | `g->vram`, the Bochs draw pointer and `Y_OFFSET`; what the host shows | `gfx_init`, `gfx_init_fdt`, `gfx_enable_double_buffer`, `gfx_flip`, `gfx_present`, drawing | the display looks at any moment; three copies of "which page" | the host sees whole frames once double buffering is on |
| HID and I2C (`hid.c`, `i2c.c`) | `prev_keys`, `prev_mod`; the interrupt binding | `hid_kb_init`, `hid_kb_poll`, `hid_kb_irq_attach`; bus transfers | a transfer fails part of the way; reports queue up in the device; the interrupt handler and the program may poll the same keyboard | press and release callbacks add up to the keys that are down |
| User interface (`ui.c`) | the wiring, `uart_esc_state`, the caller's menu | `ui_menu_run`, `ui_confirm`, `ui_message`, `ui_pick_file`, key decoding | bytes of one key over several polls, two inputs, two outputs | the user chooses what is shown; keys arrive once, in order |
| FatFs block layer (`fatfs_disk.c`) | `fs_disk`, FatFs's volume | `fs_mount`, `fs_unmount`, `disk_read`, `disk_write`, `disk_ioctl`, `get_fattime` | transfers of several batches that fail in the middle; the calendar | FatFs is told what happened; a file has the day's date |
| PCI (`pci.c`) | none | `pci_find_device_nth`, `pci_setup_bars`, `pci_find_capability`, `pci_msi_configure` | gaps, bridges, 64-bit BARs, cyclic lists | what is reported is what the machine has |
| Device tree (`fdt.c`, and the walks in `virtio.c` and `smp.c`) | none | walks and property look-ups | byte offsets over padded names and payloads | agrees with the tree |
| RTC (`rtc.c`) | base address | `rtc_now_ns` | the clock runs on between two reads | one moment, not two halves |
| UART, fw_cfg, CFI flash, C runtime | registers | short sequences | the CFI poll | - |

`PROJECT.json` "hazards" lists the places where these bite, each at its line,
with the properties that cover it or the reason there is none.

How the parts interact: `smp_start` calls the backend's IPI; `trap.S` saves
registers and calls `trap_dispatch`, which branches to the timer slot, the IPI
slot, the PLIC loop or `panic`; a PLIC handler may be the Ethernet handler,
which calls `eth_recv` just as the program does; `time_busy_until` uses the
timer registers the dispatcher uses; NVMe polls and takes no interrupt. FatFs
reaches NVMe through `fatfs_disk.c` and the clock through `get_fattime`; a menu
draws through `gfx` and polls the UART and the keyboard in turn; drivers find
their device through PCI or the device tree.

## 2. Modules and the code they stand for

### Smp, SmpAbs: boot, park loop and hand-over

`SmpAbs` is what `smp.h` promises: per hart `idle`, `posted`, `running`, and a
job that goes through them once. `Smp` is the code. A hart is at a `pc`:
`BootPrimary` and `BootSecondary` are `_start` (the boot hart zeroes BSS; a hart
without a stack parks for good, `oob`), `ParkWake`, `ParkClear`, `DispatchLoad`,
`DispatchEntry`, `DispatchFence`, `DispatchIdle` are the park loop with one
action per memory access that another hart can see. `SmpInit...`, `SmpStart...`,
`IpiSend`, `SmpWait...` are the boot hart's calls, `api` saying how far one has
come. Both backends are in one model: `mode` is chosen at the start, M-mode
harts run `_start` at reset, SBI harts wait until `SmpInitBringup` starts them.

Memory is weak. Each hart has a store buffer `sb[c]` with one slot per location
and `Drain(c)` writes any slot at any time, so stores to different locations
reach memory in any order (RVWMO without a fence); `Fence(c)` is enabled when the
buffer is empty, `Load` reads the own buffer first. A second store to the same
location overwrites the slot, which loses only intermediate values nobody else
has seen. Loads are performed in program order. `__smp_secondary_dispatch` has no
fence between seeing the wake-up and loading `fn` and `arg`, so the results
hold for harts that do not perform loads early; on others `NoTornPair` would need
that fence as well.

A job is its own `fn` and `arg` (number `j` stands for the pair), so a torn pair
shows as two different numbers. "out" is the memory the entry writes.

### Mutex, Panic, Sync: lock, panic, and both on the same harts

`Mutex` has one action per `lr.w`, `sc.w`, branch and store of
`atomic_cas_u32`, `mutex_lock`, `mutex_trylock` and `mutex_unlock`. An `sc.w`
may fail for no reason; a write by another hart ends a reservation. `Panic` is the entry paths
(`hal_panic`, a fatal trap, a fault inside the message or the dump), the message, which
goes out ahead of the guard, the guard swap and the dump. The swap is an `atomic_cas_u32`, which gives
up after 32 failed `sc.w`: then the hart halts without a dump, and there may be none at
all. What each hart has sent to the UART, message and chunks of the dump, is `wire`.
`Sync` composes them: a hart may panic at any lock instruction, and its lock
stays held.

### Irq: the external-interrupt path

The handler table, the PLIC (enable bits, priorities, threshold, gateway
pending, claimed), the status and `mie` bits, the program's calls in any order
and the trap as steps `TrapEnter`, `HandleClaim`, `HandleFn`,
`HandleComplete`, `HandleDone`. `irq_register` is two stores (`fn`, `ctx`); it may
replace or remove any handler at any time, and a trap may come in between. The PLIC is external and modelled as RVVM's: level
sources, highest priority first, a claim clears pending, a completion lets the
gateway look again. It starts in any state a previous payload can have left:
any enables, priorities, threshold, lines and pending sources, and any sources claimed and not
completed (`left`).
The PLIC halves of the two backends are the same code up to the context number
and base, so the map cites either.

### Timer: local interrupts and `time_busy_until`

One hart, one action per CSR or comparator access of `time_busy_until`, the
timer and software branches of `trap_dispatch`, and a program that registers
handlers, sets deadlines, enables and disables, and waits, in any order. Times
are abstracted to what the code tells apart: `cmp` is `never`, `future`, `past`
or `busy` (the wait's own deadline), `elapsed` says that the wait's deadline has
passed.

### Eth: rings of the RTL8169

`eth_recv` in four steps (load flags, copy, re-arm, head), in the thread or in
the handler (`Contexts`), `eth_send` in three, the ISR read-and-ack, the attach
sequence. The device (external) fills and empties descriptors between any two
accesses. `NetPoll` is the consumer's drain loop. Frames and packets are
numbers in arrival order, so order and loss are visible.

### Prp, Nvme, Disk: PRP lists, the I/O queue pair, and the block layer

`Prp` is `setup_prp` as functions over the list area: entries of `ListPages`
pages of `ListEntries` each, the last of a full page a link to the next; it also
has the reference definition (what pages a command touches, by walking the list as a
controller does). `Nvme` is `nvme_rw` and `submit_and_wait`: `IoCmd` (cap, fill the
entry), `SetupPrp`, `Ring`, `PollHit` with `CqTake` and `StatusOf`,
`PollTimeout`; the controller (external) fetches and completes commands in any
order. The admin queue runs the same `submit_and_wait` and appears as
`NvmeInit` in one step. `Disk` puts `fatfs_disk.c` on top: mounts that may fail,
unmounts, and FatFs's block calls, each one call of the driver; firmware may
also call the driver directly (`DirectCall`). `want` and `res` are what FatFs
asked for and was told.

### Virtq, Virtio: the virtqueue and its two drivers

`Virtq` is `virtio.c`: the free list threaded through `desc[].next`
(`AllocDesc`, `FreeDesc`), the two rings with free-running indices modulo
`IdxMod` (for 2^16), set-up, and the device (external), which takes chains in
order once it has been notified and returns them in any order. `Virtio` is
`virtio_input.c` and `virtio_gpu.c` on top of it; which driver runs is the
device id of the slot that `virtio_find_fdt` found. `PushEntry` and `PushIndex`
are the two stores of `virtq_avail_push` around its fence. The GPU's `stage` is
the command of `virtio_gpu_init_fdt` (1 to 4) or of `virtio_gpu_present` (5, 6)
under way; `Returns` is what they do with its result. The program may initialise
again at any time between calls.

### Hda, Audio: verbs, and the speaker

`Hda` sends verbs through the CORB and polls the RIRB, at most so many times;
the codec (external) answers when it likes. A verb is its number, a response the
number of the verb it answers, so a mix-up shows. `Audio` is `audio_edge.c` and
`audio_pcm.c`: level changes at the emulator's clock (`EdgeSet`), and
`audio_edge_advance` as `AdvanceShort`, `AdvanceCall`, `AdvanceWait`,
`RenderSample` and `RenderDone`, one step per sample stored, while the stream
(external, `Play`) reads the ring. `wave` records which level was asked for at
each time.

### Gfx, Hid, Ui: the surface, the keyboard, and menus on both

A surface in `Gfx` is two pages of two halves each; drawing a frame takes a step
per half and the host may look in between (`Visible`). What kind of surface the
machine has is chosen at the start, and an initialisation may be refused whatever it has,
by the Bochs display after `gfx_bd` has been written (`BochsFails`). `Hid` is the I2C keyboard: the device queues
reports, a poll fetches one, reports the differences, or fails on the bus with or without
having consumed the report. The program's poll is three steps, `PollFetch`,
`PollTell` (the callbacks) and `PollKeep` (`prev_keys`), between which the interrupt
handler may poll the same keyboard (`IrqPoll`). Nothing in `ui.c` or `hid.c`
keeps a program from giving its menus a keyboard whose interrupt it has attached; the
constant `PollsAttached` says whether it does. The callbacks of one poll are one step, and
so is the transfer: an interrupt inside it, with two transactions mixed up on the bus, shows as
a transfer that fails. `Ui` is `ui.c` over both and the UART: the decoder
byte by byte, `ui_poll_key` as two steps (`PollUart`, `PollHid`), rendering as one
step per output, and `HandleKey`. All dialogs are menus, as in the code. The program
draws frames between dialogs.

### Fdt, Pci, Clock, Discovery: algorithms

`Fdt` walks a structure block as `fdt_find_compatible`, `fdt_find_node_named`,
`virtio_find_fdt` and `count_cpu_nodes` do, one token a step. A block says which
token stands at which byte offset; `BlobOK` is the devicetree format: tokens are
aligned and follow each other without gap or overlap, and a node's properties stand
behind its name, in order. `MCDiscovery` makes the blocks from trees.
`PropFrom` is the loop of `fdt_node_prop`, by recursion over the offset. `Pci` has
the scan, `pci_setup_bars`, the capability walk and MSI set-up. A machine is what
answers at each place of the ECAM window, counted in functions (`MachineOK`: function 0
is there if any other is, and says so; bridges lead to higher buses, one to each);
`ScanFrom` is `scan_bus` from a place on, with the recursion behind a bridge. `Clock`
is `rtc_now_ns` and `get_fattime` against a calendar that counts days one by one.
The references they are checked against are written from the tree, the set of
functions of the machine and the calendar, not from the code. `Discovery` runs
one of the three in a behaviour; they share no state. Recursion is by recursive
functions, so that the modules can be proved about.

## 3. Runs

| Run | Instance | Distinct states | Shows |
|---|---|---|---|
| `smp_timer_eth` | *hand-over:* 4 harts, 3 with a stack, 3 jobs, both backends | 54,442 in all | torn pairs, lost wakes, results before idle, every wait returns, refinement of `SmpAbs` |
| | *local interrupts:* one hart, any program | | IE restored, IPIs kept, the wait returns and never traps on its deadline, ticks until the first wait |
| | *Ethernet:* rings of 3, 4 frames, 4 packets | | nothing lost, duplicated or reordered; all delivered but those in the ring when `eth_irq_attach` clears ISR; all sent |
| `sync` | 2 harts, 2 retries | 130,284 | mutual exclusion, progress of contenders unless a hart panicked, one dump at most, in order, no return from panic |
| `irq` | 2 sources, priorities 0 to 2, a handler or none for each, 2 events, every leftover PLIC state | 838,225 | claims completed but those left over; handler and context mixed only on a live source under registration; traps return; interrupts are serviced but those of sources left claimed |
| `nvme` | queues of 2, 5 commands, lists of 2 pages of 3, one timeout | 703,051 | what the driver and the block layer report is what was transferred, PRP lists, which batches leave the list area, calls return unless one did |
| `virtio` | a queue of 3, indices modulo 6, 8 commands, 4 events, 2 initialisations | 1,052,808 | one owner per descriptor, keys once and in order, a trusted answer is the command's own, commands return |
| `audio_discovery` | *sound:* a ring of 3, 3 samples per 4 cycles, a queue of 2 changes, 7 verbs, one timeout | 7,946,670 in all | which verb a response belongs to, nothing overwritten, the wave as asked for |
| | *discovery:* trees of up to 5 nodes, machines of up to 3 buses, all capability lists of 3 slots, every day from 1970 to 2108 | | walks, scans, BARs, capabilities and dates against their references |
| `ui` | menus of up to 3 items, 4 inputs (keys, key changes, frames, set-ups) in any mixture, one bus fault | 8,777,227 | whole frames, key callbacks (`PollsAttached` false), menus that show what they choose, the decoder |

`smp_timer_eth` and `audio_discovery` put parts that share no state side by side. `about`
is chosen at the start and only that part moves; the others stay in their initial
state, or, for `Smp`, in one in which no hart has been started, where nothing that fairness asks
for is enabled. Each part is checked as in a run of its own: the mutants of every part
are found under the common configuration.

Why the bounds suffice. Hand-over: two working secondaries make interference between
targets possible, the third job makes one hart run twice (a stale pair or flag
from the first round would show), hart 3 takes the path of a hart without a stack.
`sync`: reservations are broken by one other hart, two retries reach both
"retry" and "give up". `irq`: two sources have an order; priorities 0, 1, 2 are
"off", equal and higher than another; a handler that comes, goes and comes again makes a mixed pair
(its function and the context NULL) possible, and the theorem has any number of handlers.
Local interrupts have no bound. Ethernet: four frames and four packets go round a ring of three and
meet the wrap in both contexts; a full ring drops the fourth. `nvme`: five commands wrap both queues of two twice, so the phase
bit flips both ways; lists of three entries reach one page, an exactly full page, a chain
a split transfer, and the one that starts inside a page and overruns the list. `virtio`: three descriptors can come back in every order,
which scrambles the free list; eight commands wrap the GPU's indices, and the
first re-posting round those of the keyboard's available ring; a second
initialisation meets what the first left behind. Sound: the ring goes round more
than once, three samples for four cycles make frames of no sample, of one and of more
than the ring takes, two changes fill the queue, and seven verbs with a RIRB of three
wrap it. `ui`: three items with every set of disabled ones and every cursor, two
set-ups of the surface, frames before and after a menu, a fault between two
reports; `MaxInputs` bounds their sum, not each of them. Discovery: names and properties
of every length modulo four, properties a child has and its parent lacks, every
capability list there is over three slots with a hop budget of three, as 48 is for
48 slots; the days cover 1970 to 2108 whole, with leap years and the century 2100 and both
clamps. The proofs below remove the bounds from the safety properties of every run.

Deadlock is checked in `irq`. The others may stop: harts
that have all panicked, bounded frames, commands and inputs that are used up, or a
search that is over.

Each property has a mutant in `PROJECT.json`: a definition changed as a plausible
bug would change it (a fence dropped, a swap of two stores, a reset left out, an index
that does not wrap), under which TLC finds the property violated. The mutants
stand next to the definitions they vary.

### Fairness, and why the code justifies it

* Hand-over: the boot hart and every secondary keep executing, store buffers drain
  (RVWMO requires stores to become visible), entries return. Calls are not fair:
  the program need not make them.
* `sync`: harts keep executing; an LR/SC loop of the constrained form succeeds
  eventually (strong fairness of the successful `sc.w`, the ISA's guarantee for
  the loop in `atomic.h`). A hart that panicked gets none.
* `irq`: the hart takes enabled traps and finishes steps; the gateway forwards a
  raised line. Devices need not raise.
* Local interrupts: strong fairness of the wait's steps (a hart gets instructions done
  between two interrupts) and of taking a trap whose interrupt is enabled and
  pending again and again; weak fairness of the dispatcher and of time passing.
* Ethernet: handler and thread steps, and the device's transmitter. Frames need not
  arrive.
* `nvme`: driver and controller steps. A poll need not give up, and FatFs need
  not call.
* `virtio`: driver steps, the device reading a ring it was notified of, the GPU
  answering. Keys, polls and presents need not come.

### Findings

Five runs are expected to fail: what the code does contradicts a comment or a
header of the repository. Quotations and lines are in `PROJECT.json`.

| Run | Property | What happens |
|---|---|---|
| `eth_poll` | `DeliveredInOrder` | `eth_recv` in the thread and in the handler both move `rx_head`; a frame is delivered twice |
| `eth_stale` | `ReadyFramesDelivered` | frames in the ring when `eth_irq_attach` clears ISR wait for another frame |
| `nvme_timeout` | `DoneIsTransferred` | after a timeout the late completion answers the next command, whose blocks are then counted as transferred while they are not |
| `nvme_prp` | `PrpInBounds` | a batch of `NVME_MAX_SINGLE_TRANSFER` from a buffer that starts inside a page overwrites `bar0` and `num_lbas` behind `n->prp_list` |
| `ui_attached` | `KeysAddUp` | a menu polls a keyboard whose interrupt is attached; the older report overwrites `prev_keys` and a key stays down |

The passing runs state what does hold beside each: `NothingLostOrReordered`,
`AllDelivered`, `SectorsAsReported`, `OverrunIsUnaligned` and `KeysAddUp`, each with its
exception in the formula or in the constant.

Five more statements of the repository are written as definitions beside the property
that does hold. TLC refutes each, with the configuration of the run named and that one
property in place of the run's:

* `DumpUnbroken` (run `sync`; `OneDump` holds): a hart that panics second "skips the printing
  and just halts — keeps the on-wire dump readable" (`src/src/panic.c:21-22`), but
  its message goes out ahead of the guard and lands inside the first one's dump.
* `ReplacesHandler` (run `irq`, with `Regs = 2`; `NoTornHandler` holds): `irq_register`
  "Replaces any prior handler" (`src/include/irq.h:45-46`), but a trap between its two stores
  calls the new function with the old handler's context.
* `AnyEnabledDelivers` (run `irq`; `Serviced` holds): "so any registered+enabled IRQ
  delivers" (`src/include/irq.h:57`), but `irq_init` completes nothing, so a source the previous
  stage had claimed never does.
* `AnswerIsOwn` (run `audio_discovery`; `AnswersLag` holds): "send a codec verb, get the
  response" (`src/include/hda.h:8`), but after a timeout every verb gets its predecessor's.
* `HighHalfNext` (run `audio_discovery`; `BarsAsDeclared`, a part of `FoundOnBus`, holds): "the high
  half lives in bar[i+1]" (`src/include/pci.h:18`), but both halves go into `bar[i]`.

Differences without a property, found while modelling:

* SMP: `smp_start` refuses hart 0 ("primary is us", `src/src/smp.c:117`) and not
  the boot hart, while "the boot hart need not be hart 0 under SBI in principle"
  (`src/src/start_s.S:61-62`). Entered on hart 1, `smp_start(1)` is accepted,
  nobody runs it, and `smp_wait(1)` never returns: `WaitReturns` fails in run
  `smp_timer_eth` with `Boot = 1` and `Modes = {"s_sbi"}`.
  `include/plat.h:61-63` has the secondary acknowledge after it reads its
  `smp_cmd` slot, the park loop clears the pending bit before.
* Lock: `atomic_load_u32` is a bare `lr.w`, "a clean acquire-load on RVA"
  (`src/include/atomic.h:40`). In an interrupt handler (`mutex_holder`) between
  the `lr.w` and the `sc.w` of the CAS it interrupted, it renews a reservation
  that another hart's write had ended, and two harts hold the lock. `Mutex` has
  `mutex_holder` in thread code only.
* Time: `time_busy_until` leaves the comparator at never and the timer interrupt
  off (`src/src/time.c:57-58`), which stops a periodic tick although "registered
  handler owns the deadline" (`src/src/irq.c:178-181`; `TickUntilBusy` states the
  exception).
* Interrupts: `include/irq.h:56` gives priority 1 as the default after
  `irq_init`; the code writes 0, and 1 when the source is enabled.
* Virtqueue: `virtq_used_pop` has its fence before the load of `used->idx`, where the
  comment (`src/src/virtio.c:174-176`) speaks of an acquire, which would come after it.
* NVMe: `include/nvme.h:83-85` says partial results are not possible, `nvme_read`
  returns what was done before an error.
* Audio: `corb[]` has 64 entries and `corb_wp` counts to 256 (`src/src/hda.c:60-61`;
  "64 entries", `src/src/hda.c:20`): the 64th verb is stored behind the array. The
  model keeps as many words as the index reaches. A full edge queue is to "track
  the 'final' level" (`src/src/audio_edge.c:83-84`), but the next
  `audio_edge_advance` replays the queued events after it and ends on an older
  level; a frame dropped because the host stalls loses its last level as well.
  `WaveAsAsked` excepts both (`lost`). The overflow path says "Drop oldest"
  (`src/src/audio_edge.c:122`) and leaves out the newest samples.
* Graphics: `render_gfx` ends with `gfx_text_render` (`src/src/ui.c:235`) and
  neither presents nor flips, so on virtio-gpu and on a double-buffered Bochs
  display the menu is not shown while `ui_menu_run` waits, against "each frame
  draws to *both* outputs" (`src/include/ui.h:15`); `ChoosesWhatIsShown` is stated
  for the other surfaces. On virtio-gpu every `gfx_rect` presents at once, so a
  frame drawn with it is shown in pieces although "the host display only ever
  sees whole frames" (`src/include/gfx.h`, `gfx_enable_double_buffer`);
  `WholeFrames` excepts it (`piecemeal`).
* User interface: `ui_confirm` is to return true "on Y / Enter" and `ui_message`
  to end on "any key" (`src/include/ui.h:77-81`); both are menus, which know
  neither Y nor any key. A lone Esc is recognised by the byte after it, which is
  swallowed (`TerminalKeysInOrder` excepts it).
* Device tree: the comment of `fdt_next_node` has the caller pass
  `prev_offset + 4` (`src/src/fdt.c:73`), which points into the node's name.
* FAT dates: `fatfs_disk.c:204-206` says that `get_fattime` is never called with
  `FF_FS_NORTC=1`; `ffconf.h` has 0. Years after 2107 keep month and day, so
  2108-02-29 becomes a day 2107 does not have.
* PCI: `pci.h` describes BAR sizing; `pci.c` reads the BARs as they are.

## 4. Proofs

Theorems hold for every value of the constants under the named assumptions; TLC
evaluates them in the runs. `SmpAssumption`, `MutexAssumption`, `IrqAssumption`,
`EthAssumption`, `NvmeAssumption`, `PrpAssumption`, `VirtqAssumption`,
`VirtioAssumption`, `UiAssumption`, `GfxAssumption`, `HidAssumption`,
`HdaAssumption`, `AudioAssumption`, `FdtAssumption`, `PciAssumption` and
`ClockAssumption` say that
sizes are positive, rings have two entries or more, the boot hart has a stack, the
CORB's index ranges as far as the RIRB's (256 and 256), and so on; `TermKeysAssumption` says that the names of the arrow and letter keys are
not those of the bytes. `FdtAssumption` is `BlobOK` of every structure block,
`PciAssumption` is `MachineOK` of every machine and at most as many capability slots
as hops (48 and 48: `pci.c:138`, and the 192 bytes behind the header), and
`ClockAssumption` has the count of days begin in 1970. Each inductive invariant was first checked by TLC.

* `SmpProofs` (`Invariance`): `IInv` says that every hart is in one of six
  situations of the hand-over, `Free`, `Launching`, `Latched`, `Loading`,
  `Returned`, `Retiring`, each relating the hart's `pc`, the latch, memory, the
  two store buffers and the history; `BufferInv` says who may have which store
  pending (a secondary only its own flag and output), `CallInv` what the boot
  hart's call has reached. A torn pair is excluded only because a wake-up implies that both
  stores had drained, which is the fence before the IPI. From it:
  `TypeCorrect`, `NoTornPairHolds`, `IdleMeansDoneHolds`, `WakeNotLostHolds`, and
  `RefinesSmpAbs`: under the mapping of `Smp`, the first state is one of `SmpAbs`
  and every step is one of its steps or a stutter. The IPI of `smp_start` is
  `Queue`, the secondary's load of the pair is `Run`, the draining of the idle
  flag is `Finish`; `IInv` supplies that no other step changes what the mapping
  shows. The fairness half of `ImplementsSmpAbs` is left to TLC.
* `SyncDiscoveryProofs`, the lock (`MutexInvariance`): a hart with a live reservation and a
  compare that succeeded has seen the current value (`ReservationFresh`), and the
  word names the owner. From it: `MutexTypeCorrect`, `MutualExclusionHolds`,
  `HolderIsOwnerHolds`. A step of `Sync` is a lock step of a hart that has not
  panicked or leaves the lock alone, so `MutualExclusionWithPanics` follows.
  `DumpInv` says that at most one hart dumps, that the parts on the wire are its own and
  the one before its next is among them, and what each hart has not sent yet (`Fresh`):
  `OneDumpHolds`, messages included.
* `SyncDiscoveryProofs`, what a program learns of its machine (`DiscoveryInvariance`).
  * The device tree (`FdtInv`): `off` is always the offset of a token, and no
    node the query means is behind the walk, or as many cpus as were counted.
    A step leads from a token to the next (`StepOver`), and no token lies between
    (`Advances`). `FromBody`, by the last property for which it would fail: from
    each of a node's properties on, `fdt_node_prop` gives the first with the name.
    From it: `FoundInTreeHolds`.
  * The scan (`FoundInOrder`: the driver has the first functions of the scan's list).
    `ScanVisits`, by the last place for which it would fail: the scan from a place lists,
    once each, the functions from there on its bus, and what is behind them
    (`Region`). What is behind a bridge and what comes after it have nothing in common,
    because a second way to a bus would need a second bridge (`RegionsDisjoint`).
    From bus 0 this is the least closed set of buses: `FunctionsFoundHolds`.
  * BARs: a word is passed over if and only if no BAR starts there
    (`PassedOverValue`): `BarsAsDeclaredHolds`. Capabilities: the walk stays in every
    closed set of slots, and the slots of the first 48 hops form one, since the walk is
    over or has come back to a slot by then, by counting (`LastHop`, `WalkedClosed`):
    `CapabilitiesFoundHolds`. The three make `FoundOnBusHolds`.
  * The clock (`ClockInv`: the calendar's date has the number of the day the clock
    shows, in a numbering by years that begin in March, and the halves read are
    those of one moment). `YearFromDay` shows that the division by 365 with its three
    corrections gives the year of every day of an era, leap days and centuries too;
    `CivilOfDay` that the arithmetic inverts the numbering: `StampIsTodayHolds`.
* `IrqEthProofs`, external interrupts (`IrqInvariance`): `EnableInv` (after `irq_init` the
  enable bits are those the program asked for, and interrupts are on, and the
  dispatcher runs, only after that), `ClaimInv` (what the dispatcher claims is never what
  was left claimed) and `TableInv` (an entry is torn only while
  `irq_register` works on it) give `IrqTypeCorrect`,
  `EveryClaimCompletedHolds`, `NoTornHandlerHolds` and the action property
  `EnableMakesDeliverableHolds`. No run checks the type invariants and that last
  one: the theorems do, for every instance.
* `TimerProofs` (`TimerInvariance`): `StatusInv` says what `status.IE` is at each
  place of a trap and of the wait, `BusyDeadline` that the wait's deadline is in
  the comparator only while interrupts are masked. From it: `IEAsAskedHolds`,
  `IpiNotLostHolds`, `BusyNeverTrapsHolds`.
* `IrqEthProofs`, ethernet: the OWN bits split each ring into two arcs. `TxRing`: from the
  device's position on lie exactly the unsent frames, in order, and `TxHead` is
  just behind them, less one while `eth_send` is between setting OWN and advancing.
  From it: `SentInOrderHolds`. `RxRing`: from where the next drain looks lie the
  waiting frames, in order, then the device's descriptors, and the device is at
  the first of those; `RxCall` says how far `eth_recv` has come with the slot at
  `rx_head`. This needs one receiver at a time (`OneReceiver`), so
  `NothingLostOrReorderedHolds` and `DeliveredInOrderHolds` assume
  `~PollAfterAttach`, a program that does not poll once the handler is attached;
  `eth_poll` is the run without it.
* `VirtioProofs`. GPU (`GpuInv`): commands go out one at a time and always with
  descriptors 0 and 1, because freeing them restores the list (`GpuFree`,
  `GpuTaken`), and the chain is in the available ring, with the device or in the used
  ring, in which case `rsp_buf` answers this command (`GpuWhere`):
  `TrustedWasDoneHolds`. Input (`InputInv`): there is a list `fl` through `next`
  from `free_head`, of `num_free` different descriptors, and these, the one in hand, the
  entries of both rings and the device's share no descriptor (`Owned`); both rings
  are free of repetitions although the indices wrap: `OneOwnerHolds`. Keys
  (`KeysInv`): a running count `cut` over the buffers coming says which accepted key
  each of them holds, and none of them is with the device, which could overwrite it:
  `KeysInOrderHolds`.
* `UiProofs`. `SurfaceInv`: `g->vram`, `gfx_bd` and `Y_OFFSET` agree
  (`PointersAgree`), and the page in the middle of a frame is the one being drawn
  (`PagesWhole`): `WholeFramesHolds`. `MenuInv` (the cursor is on an enabled item
  unless there is none) and `ScreensInv` (once rendered, the screens show it):
  `ChoosesWhatIsShownHolds`. `KeyboardInv` (the newest report says which keys are
  down, unless it went astray, and while the program's poll is between its callbacks and
  `prev_keys` no handler polls): `KeysAddUpHolds`, which assumes `~PollsAttached`;
  `ui_attached` is the run without it. `TerminalInv` (the bytes waiting
  and the escape state are the rest of the keys owed, cut at key boundaries):
  `TerminalKeysInOrderHolds`.
* `DiskProofs`. `DriverInv` is the driver's own state: the SQE at hand describes the
  next batch of the call. `QueueInv`: until a poll has given up, at most one
  command is under way, and it is rung, fetched or answered (`Rung`, `Fetched`, `Answered`); the phase
  bits of the completion queue are those of the lap on one side of the
  controller's position and the complement on the other (`Phases`), so the driver
  never takes an old completion. With `ResInv`: `SectorsAsReportedHolds`.
  `LoopAt` says which entries `setup_prp` has written after `k` list pages and `r`
  entries of the next, the last slot of each full page being the chain entry;
  walking such a list gives the pages of the buffer: `PrpDescribesBufferHolds`, for
  every buffer. `NeededBound` and `PosBound` bound the entries of a list and the places they
  go to: one more than fits only when the batch starts inside a page and ends beyond
  `MaxTransfer` blocks from that page's start: `OverrunIsUnalignedHolds`.
  From then on `bar0` is not the controller's (`Bar0Lost`), no doorbell is heard, and what the controller
  does (`Unheard`) cannot be mistaken for an answer.

* `AudioProofs`. `VerbInv`: for some `a`, the codec has answered `a` verbs; the verbs
  after them lie in the CORB and the responses not yet taken in the RIRB, both in
  order (`CodecAt`), so that the next response is always the one to the verb after
  the last answered call's: `AnswersLagHolds`. `StreamInv`: the writer is `f` places
  ahead of the stream, and the samples not yet played are the `written - heard`
  places right behind the writer, numbered consecutively; while a frame is rendered
  its rest fits before the sentinel slot (`FilledTo`). A stream that runs dry makes
  `f` jump from 0 to the whole ring, which is sound because then nothing waits:
  `NothingOverwrittenHolds`. `WaveInv`: at each time from `total_samples` on the wave
  has the level of the last queued change that falls on or before it (`AskedAt`), and
  the samples in the ring are for times the clock has passed. The stretch that fills
  a sample last is then unique (`RenderedAsAsked`), which makes the CHOOSE of
  `RenderedLevel` determinate; the events need not be known to be sorted:
  `WaveAsAskedHolds`.

What a recursive function computes for every input (the free list reached from
`free_head`, the keys among the buffers coming, the bus scan, the lookup of a property)
is proved from the least or the last counterexample: `SmallestOf` and `LargestOf` give
the ends of a set of naturals, and take no operator as the library's induction
theorems do. That such a function exists at all is proved the same way
(`ScanExists`, `FindsExists`), from the fact that its equation looks only ahead.

Only model-checked:

* all liveness properties and the fairness half of `ImplementsSmpAbs`: fairness
  and ENABLED are outside the prover's reach;
* that the flattening of a tree in `MCDiscovery` satisfies `BlobOK`: it is a RECURSIVE
  operator over data, and TLC evaluates the assumption on every tree of the run.

## 5. Not modelled, and why

Rectangles, fonts, string routines, formatting and the UART's output are pure data
or pure I/O; so are fw_cfg and the CFI flash, whose command sequences have no second
party but a poll. The clamps of `gfx_rect` and `virtio_gpu_present` add 32-bit
numbers that may wrap; no caller here passes such a rectangle. lwIP, FatFs and
picolibc are vendored. Base-address discovery from the device tree is abstracted to its
result in the drivers' modules. The split of the second of a day into hours,
minutes and seconds is left out of `Clock`, the bytes of an I2C transfer of `Hid`, keys
beyond six in a report, scrolling of the text grid, and programs that drive
`audio_pcm` without the edge layer. Register save and restore in
`trap.S` is one step: the hart is in the trap afterwards. Statistics counters of the
interrupt path are left out. Load-load reordering is left out as said in section 2; the
read-modify-write and 64-bit atomics are single instructions. Handlers service
their device and neither register others nor reconfigure the PLIC. Once `nvme_t`'s `bar0` is
overwritten, what the stray doorbells and the overwritten `num_lbas` do is left out.
The command-register write that ends `pci_setup_bars` is left out of `Pci`. The examples are programs on top of
the layer.

## 6. Plan

1. Done: every module of section 2, and the proofs of section 4.
2. Done: `Fdt`, `Pci` and `Clock` with recursive functions, so that every safety
   invariant a run checks is proved.
3. Worth adding: the fence of `smp.c:155`, if a build for harts that perform loads
   early is to be supported, and the 64th verb of `hda.c:61`, both listed as hazards
   without a property.
