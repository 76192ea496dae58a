# HyperPod in TLA+

HyperPod is a small virtual machine manager in Rust: it boots one Linux guest
on one virtual CPU, under KVM on Linux or WHPX on Windows, and re-tunes its
own CPU quota while the guest runs. This directory holds specifications of
its parts, the TLC models that check them and the TLAPS proofs about them.
Source paths below are relative to `hyperpod/src/`.

Check a model with `tlc -config X.cfg M` (table in "Runs") and a proof module
with `tlapm M.tla`.

## 1. Inventory

| Part (source) | State it keeps | Operations | Talks to |
|---|---|---|---|
| Scaling monitor (`scaling/mod.rs`) | `cpu_shares`, `shutdown` (atomics), the policy | `run_loop`, `tick` | probe and sink (calls), the main thread (`shutdown`) |
| Probes and sinks (`scaling/probes.rs`) | last CPU times, cgroup directory, job handle | `load_normalized`, `set_shares` | the host OS |
| Token bucket (`vmm/common/device/throttle.rs`) | capacity, rate, tokens, last refill, behind a mutex | `try_consume`, `set_rate`, `set_capacity`, `capacity`, `rate` | I/O threads, a controller |
| Virtqueue walker (`vmm/common/device/mmio.rs`) | `ready`, `last_avail_idx`, queue addresses | `DescriptorChain::pop` | the guest's driver, through guest RAM |
| VirtIO-MMIO registers (`vmm/common/device/mmio.rs`) | selectors, feature words, queues behind mutexes | `read32`, `write32` | the guest's driver |
| VM lifecycle (`vmm/linux/vm.rs`, `vmm/windows/vm.rs`, `partition.rs`, `commands/start.rs`) | partition or VM, mapping, RAM, vCPU, monitor pool | `run_vm`, `start_scaling`, destructors | the hypervisor, the monitor |
| Run loop and serial console (`vm.rs` of both back ends, `vmm/common/serial.rs`) | RIP and RAX on WHPX, nothing on KVM | exit arms, `Serial::read`, `Serial::write` | the hypervisor, stdout |
| Guest RAM, boot tables, ELF loader (`vmm/common/ram.rs`, `boot.rs`, `elf.rs`) | guest memory | `write_slice`, `write_gdt`, `setup_page_tables`, `write_cmdline`, `write_zero_page`, `load` | `run_vm` |
| Storage (`vmm/common/storage/*`) | one open file and its position behind a mutex, the sector count | `detect_format`, `open`, `read_sector`, `write_sector`, `flush` | the host's files, I/O threads |
| Configuration (`config.rs`) | the validated limits | `load`, `validate` | `start` |
| CLI, `status`, stub platform | none | | |

What is hard in it, and what would make each part correct:

- *Monitor.* Every call to the host can fail between reading `cpu_shares` and
  storing it, and the stop request arrives anywhere in a tick. Correct: what
  it believes is what the OS enforces, it moves in quarter steps inside the
  policy, it reaches the bound the load asks for, and it stops.
- *Token bucket.* The clock is read before the lock, so a stale sample meets a
  bucket another caller refilled; divisions drop fractions, casts truncate;
  callers sleep and retry; rate and capacity change under them. Correct: it
  neither exceeds its rate nor starves its callers.
- *Virtqueue.* Two actors on one memory, with separate loads, two indices
  that wrap, and chains the driver may get wrong. Correct: it is a queue.
- *Registers.* One selector for all queues, addresses in halves, words written
  in any order, queues configured again, resets that clear nothing, drivers
  that know nothing of the last one. Correct: the device ends up with what the
  present driver meant, and a ring fits its queue.
- *Probes.* A reading is a difference to a stored snapshot, snapshots fail,
  and no time at all reads as idle. Correct: the quota follows what the host
  did.
- *Lifecycle.* A dozen fallible steps with an early return each, and a thread
  nobody joins. Correct: memory outlives its mapping, a failed start leaves
  the host alone, no monitor goes unasked to stop, and none that hangs keeps
  the process.
- *Configuration.* Limits that later code divides, multiplies and subtracts
  without looking again. Correct: what it accepts is what the rest assumes.
- *Run loop.* An access is served in one call and retired in another that can
  fail or be cancelled in between. Correct: output once and in order, and no
  access for ever.
- *Boot memory.* A dozen writes at fixed addresses and a kernel that brings
  its own, and a size in bytes computed twice. Correct: nothing overwritten,
  nothing outside RAM, and as much RAM as configured.
- *Storage.* A file position shared by threads, partial transfers, errors
  with the lock held, and a path that may name another file at each open.
  Correct: a device of atomic sectors inside its file.

`PROJECT.json` lists every hazard at its line with the properties aimed at it.

## 2. Modules

| Module | Models | Abstract or composed |
|---|---|---|
| `ScalingMonitor` | the monitor thread, the stop request, the host | |
| `LoadProbe` | what the monitor is told of the host, on Linux and on Windows | |
| `VmLifecycle` | one `hyperpod start` from configuration to process end | composes `ScalingMonitor` and `LoadProbe` (`INSTANCE`) with the main thread |
| `TokenBucket` | the bucket, its callers and its controller | |
| `RequestQueue` | a queue of requests | abstract specification of `VirtQueue` |
| `VirtQueue` | `pop` load by load beside the driver | implements `RequestQueue` |
| `VirtioMmio` | feature words, queue registers and a driver that uses them | |
| `BlockDevice` | a device of atomic sectors | abstract specification of `SectorFile` |
| `SectorFile` | `read_sector` and `write_sector` of concurrent callers | implements `BlockDevice` |
| `RootfsOpen` | detection, dispatch and the back ends' own checks | establishes what `SectorFile` assumes |
| `VcpuLoop` | both run loops, the serial port, a guest | |
| `Configuration` | what `HyperPodFile::load` accepts | used by `BootMemory` |
| `BootMemory` | a configuration, the allocation of guest RAM, all writes to it before the vCPU starts | establishes what `ScalingMonitor` assumes |
| `ScalingMonitorProofs`, `VmLifecycleProofs`, `TokenBucketProofs`, `VirtQueueProofs`, `VirtioMmioProofs`, `VcpuLoopProofs`, `BootMemoryProofs` | theorems about the module each is named for | |
| `StorageProofs` | theorems about `RootfsOpen` and `SectorFile`, and that the first establishes what the second assumes | extends both, so their definitions have different names |

`MC*` modules extend a module for TLC, with symmetry sets and enumerated
inputs. Operators marked *Faulty* in the comments are not part of any
specification: each is the named definition with a plausible mistake, and the
property it is meant for fails when it takes that definition's place.

### How state and actions correspond to the code

**ScalingMonitor.** `pc` is the position in `run_loop`/`tick`; an action ends
where another thread or the host could be noticed: the first `set_shares`
(`ApplyFloor`), the loop test (`CheckShutdown`), the probe and the decision
(`Probe`), `set_shares` (`Apply`), the store (`Publish`), the sleep (`Wake`).
A load is the side of the two thresholds it falls on. Ports of the arithmetic
(`StepUp`, `StepDown`, `NextShares`) are exact, and so is the sinks' clamp.
`Kill` is the end of the process, which takes the detached thread along.

**LoadProbe.** The Windows probe's stored snapshot and the host's CPU times are
one difference, `since`, which `*last = now` sets to zero (`SampleWindows`); a
snapshot that fails touches neither. `Reading` compares 1 - didle/dtotal with
the thresholds without dividing. `past` and `window` are history: what the
host really did. The Linux probe reads an average of which nothing is assumed.

**VmLifecycle.** `Plan` is the sequence of fallible calls in `start::run` and
`run_vm` of the back end for `os`: `LinuxPlan` or `WindowsPlan`, which differ
in the machinery (`/dev/kvm`, the VM and its TSS address, or a partition and
its properties). `held` is the
stack of locals with a destructor, dropped newest first; the job handle of the
Windows sink moves into the monitor when it is spawned. A step of the monitor
is an action of the instance, except that `tick` asks the probe first
(`ReadLoad`) and uses the answer later (`UseLoad`). The exits the run loop
serves leave this state alone and stutter; `VcpuLoop` models them.

**TokenBucket.** Each method is one action because it holds the mutex to its
end, except that `try_consume` samples the clock first (`Ask`, `Retry`) and
consumes later (`Grant`, `Refuse`). `Earned`, `Filled` and `Wait` are the
integer arithmetic of `refill` and `try_consume_at`, with `as u64` a `%
WordSize`. `granted`, `spilled` and `refused` are history variables.

**VirtQueue.** `FindRequest`, `TakeSlot`, `Follow`, `Finish` and `Malformed`
are the loads and exits of `pop`. A descriptor is abstracted to its link.
`mapped` says how much of the ring lies in guest RAM, so that `?` of either
load is taken. The driver keeps to the protocol (it owns a descriptor until it
is completed) but may link chains that loop or leave the table.
`Pending` and `InHand` map this memory to `RequestQueue`: each entry between
the two indices stands for the chain linked up from its head, or for a
malformed request if there is none.

**VirtioMmio.** A register access is one step: both back ends run one vCPU.
A register holds zero, a size, or the half a plan puts there, so that a half
left from another plan shows. `Reset` is a write of 0 to STATUS: the device
keeps all but the status, the driver forgets all but perhaps its queues (a
driver that resets and then takes its queues down, or another kernel that
finds them ready). The driver is external, keeps to the protocol and takes its
freedom: any order, selectors in between, teardown and new plans. It writes
every feature word before FEATURES_OK and leaves a queue alone that reads as
ready.

**SectorFile.** `holder` is the mutex, `pos` the file's position, `pc` the
position in the call. A sector moves in two halves, standing for the system
calls of `read_exact` and `write_all`; each can fail. `RawBackend` and
`VhdFixedBackend` have the same code here and differ in what lies behind the
payload. `flush` calls `File::flush`, which does nothing: no action.

**RootfsOpen.** Each action is one opening of the path, and `Replace` may put
another file there between two. An image is a record of what the code looks
at. `original_size + FOOTER_LEN` wraps at `Word`, as in the release build; a
debug build panics instead.

**VcpuLoop.** A guest is a straight program of the instructions that exit.
KVM retires an instruction when it is entered again (`VcpuRuns`); WHPX leaves
it to the loop (`SetRegisters`). Cancelled runs, failing runs, failing
`set_registers` and a failing stdout are actions or disjuncts. Of a string
output KVM hands over the bytes, WHPX's loop takes RAX instead (`HeadOfData`),
and `Serial::write` shows the first byte of either (`ToConsole`). That WHPX
reports the length of an instruction right is taken for granted.

**Configuration** and **BootMemory.** `Valid` is `validate`; every refusal ends
the start. `AllocateRam` is `GuestRam::new` with its checked product;
`MemBytes` is the product `run_vm` computes again without a check. Memory is
the log of ranges written, at the real addresses, with `write_slice`'s bounds
check and the early return at the first that does not fit. Values written are
left out, except the memory map. The steps of `run_vm` between these that
touch no guest memory are in `VmLifecycle`.

## 3. Runs

| Run (config) | Bounds | States | What it shows |
|---|---|---|---|
| `monitor` (`MCScalingMonitor.cfg`) | shares 1..24 | 10 thousand | `BelievedIsEnforced`, `QuarterSteps`, `AtMostOneLateCall`; `BurstReachesCeiling`, `IdleReturnsToFloor`, `ShutdownStopsMonitor` |
| `lifecycle` (`MCVmLifecycle.cfg`) | both systems, shares 6..8, two polls of five units of CPU time between good readings | 430 thousand | `RamOutlivesMapping`, `FailedStartLeavesQuota`, `NoOrphanMonitor`, `StepsFollowHost`; the monitor in the process is the one specified (`ImplementsMonitor`); `StartEnds` |
| `bucket` (`MCTokenBucket.cfg`) | 2 callers, 6 ticks of a third of a second, 2 rates, 2 capacities, words of 8 | 6 million | `NeverFasterThanHighestRate`, `AtLeastHalfLowestRate`, `BoundedRetries` |
| `queue` (`MCVirtQueue.cfg`) | 3 descriptors, index modulo 6 | 800 thousand | `TakesOnlyPosted`, `ChainsDisjoint`, `ImplementsQueue` |
| `mmio` (`MCVirtioMmio.cfg`) | 2 queues of up to 2 entries, 2 plans, 1 address each, 2 words of 1 bit, any number of resets | 3 million | `ReadyQueueIsWhole`, `FeaturesAsAccepted`, `NeverOversized` |
| `disk` (`MCSectorFile.cfg`) | 2 callers, 2 sectors and a footer | 60 thousand | `TransfersAtOwnSector`, `FooterUntouched`, `ImplementsDevice`, `MutexComesFree` |
| `rootfs` (`MCRootfsOpen.cfg`) | files of up to 4 sectors, sector of 2, words of 16 | 1 million | `SectorsInsideFile` (with its one exception), `FixedIsFixed`, `NothingForeign` (its type invariant is `OpenTypeOK`) |
| `vcpu` (`MCVcpuLoop.cfg`) | all guests of up to 4 exits, both back ends | 80 thousand | `ConsoleIsOutput`, `GuestEndsLoop` |
| `boot` (`MCBootMemory.cfg`) | 60 configurations; 1, 2, 4 MiB, overflow at 16; up to 2 segments; 4 command lines | 70 thousand | `NothingOverwritten`, `MemoryMapIsRam`; in `TypeOK`, what validation promises the rest |
| `monitor_floor`, `bucket_polled`, `queue_reset` | as small as shows it | | disagreements, section 6 |

Every passing run but `lifecycle`, whose composed state `ImplementsMonitor`
ties to a specification with one, also checks the module's `TypeOK`.

*Why the bounds are enough.* The monitor's range of 24 has both regimes, the
real quarter and the rounded-up single share, on both sides. The bucket's
clock is long enough for the longest chain of refusals (three) to come about
and for a refill the cast truncates. The queue's index wraps while a request
is pending, with chains of one, two and three descriptors and both kinds of
malformed ones; two of them can be served while a third is walked. Two callers
are enough to break a shared position, and a third only waits. A rootfs of
four sectors has room for a footer too long by one, by part of a sector, and
for the wrap. A guest of four exits can put any exit before and after an
output. The boot addresses are the real ones, and sizes sit on both sides of
each edge: 1 MiB, the end of RAM, the start of high memory; a segment may be
empty; the word that overflows is a constant, because the real one is beyond TLC's integers. Shares
6..8 let the monitor step up and down in the lifecycle, whose question is when
it steps and not how far; two polls of CPU time are what a failed snapshot
adds up, in chunks on and beside both thresholds. One address of two halves is
enough to mix halves, and the size makes three registers.

`CHECK_DEADLOCK FALSE` stands where the system stops: the monitor ends, the
clock is bounded, the guest ends, a file is served or rejected, the vCPU is
ready.

### Fairness

- Monitor: weak fairness of the monitor thread's own steps. The OS schedules
  it and `thread::sleep` returns. Nothing is assumed of the host, of the
  guest's end, or of the process's end.
- Disk: weak fairness of each caller's steps. A thread that has the mutex is
  scheduled and its system calls return. A waiter may be overtaken for ever,
  as `std::sync::Mutex` allows, so only the mutex is claimed to come free.
- Run loop: weak fairness of the loop's own code, strong fairness of entering
  the guest. Cancelled runs alternate with real ones; they do not go on for
  ever.
- Lifecycle: weak fairness of the main thread's steps outside the guest. Its
  calls return. Nothing is assumed of the guest, of the host, or of the
  monitor, whose calls may hang: `StartEnds` says that this keeps nobody.
- All other specifications are safety only and assume none.

## 4. Proofs

TLAPS checks eight proof modules without gaps. Each has a named invariant, since
the properties themselves are not inductive. Those of the bucket's retries, the
queue, the boot memory and the run loop were checked with TLC, as invariants of
their modules' runs, before they were proved.

**ScalingMonitorProofs** assumes `PolicyAssumption`: both limits lie in
1..10000 and in order, as `HyperPodFile::validate` ensures (and `Unset` is not
a number). The safety properties are not inductive: nothing in them says what
a thread between two reads knows. `MonitorInv` strengthens them with
`TickKnows` (between `Probe` and `Publish`, `target` is a quarter step away
from `cpu_shares`) and `LateBudget` (a monitor that may still call the OS in
this pass has made no late call yet). The lemmas on `StepUp` and `StepDown` (they stay in the policy and
move by a quarter or one share) carry the arithmetic. From it follow
`MonitorTypeCorrect`, `MonitorBelief`, `MonitorLateCall` and
`MonitorQuarterSteps`, for every policy.

**TokenBucketProofs** assumes `BucketAssumption` only: any callers, any
natural rates (zero included), capacities that fit a word, any clock.
`TypeOK` is inductive once `at` of a sampled caller is known not to lie in the
future, which is part of it. `GeneratedStep` says that every step either leaves
generation and `last_refill` alone or is one refill, which adds exactly
`Earned`. With the bounds of integer division it gives `BucketUpperRate`
(never faster than the highest rate) and `BucketLowerRate` (never below half
of the lowest one: a refill drops less than one token and earns at least one).
`BucketBoundedRetries` needs two more things. `ClockFits` says that the clock
stays below the largest word, 2^64 nanoseconds or 584 years: without it a cast
could truncate a wait or a refill. `RetryInv` says what a refused caller is
short of and when it asks again: after the first refusal, all that is missing
and no earlier than the wait for it; after a later one, a single token and no
earlier than one or two waits for one. `OneWait` and `TwoWaits` are the
arithmetic: a wait rounded down earns all it was for but one token, and two
waits for one token earn it. So the third wait is the last, for every request,
rate of at most a token a tick, and interleaving in which the caller counts as
undisturbed.

**VirtQueueProofs** assumes `RingAssumption`: a positive queue size that
divides the range of the index and is smaller than it, as virtio's powers of
two are. What the properties speak of, the chains the driver posted, is not in
the state: once linked they are links in a table. `QueueInv` therefore says
that there are chains, one for each entry from `last_avail_idx` to `avail_idx`
(and the one prepared but not published), one in hand if `pop` is walking, which
together with those being served are disjoint, lie in `owned`, and are linked
as the driver meant. The entries number `Ahead`, computed modulo the index's
range; that they do not overtake the ring (`HeadsFit`) is a pigeonhole: heads of
disjoint chains are different descriptors, and there are as many as slots. From
it follow `QueueTypeCorrect`, `QueueTakesOnlyPosted` and
`QueueChainsDisjoint`, which counts what `pop` has walked among the chains, but
lets that one repeat itself: a looped chain does until the bound of the loop
refuses it. For the refinement, `OneChain` shows that two chains
linked from one head are the same, so that `Request`, a CHOOSE over the table,
is a function of the links; with it `QueueImplements` takes each step to one of
`RequestQueue`: publishing posts, taking the slot takes, and finishing or
failing answers. An induction along a chain is replaced by the library's
well-founded order on the naturals: `Least` gives the first place at which two
chains would differ.

**VmLifecycleProofs** assumes `ProbeAssumption` (CPU times come in natural
numbers, and time that passes is more than none) and, where quotas are
compared, `PolicyAssumption`. `LifeInv` says what the position in the plan
implies: RAM is the older of RAM and machine on the stack of locals
(`RamFirst`), the sink is on top of it when the monitor is spawned, and the
monitor is asked to stop between the last guest instruction and the first
destructor. It gives `LifeRamOutlivesMapping`, `LifeFailedStartLeavesQuota` and
`LifeNoOrphanMonitor` for both systems, and `LifeImplementsMonitor`: every step
of the process is a step of `ScalingMonitor` or a stutter, and the process only
ends once `shutdown` is set or no monitor was spawned. `HostInv` adds what a
tick in flight knows of the host: the stored snapshot and the history agree, a
reading that is used covers `window`, and only the very first window may be
empty, when the quota is at the floor and cannot fall. Hence
`LifeStepsFollowHost`, for every policy and any chunks of CPU time.

**StorageProofs** follows an image from its path to its sectors. Opening
assumes `SizeAssumption` (a positive sector size, lengths and sizes that fit a
word). `Admitted` says that what is served passed the checks of its own
backend at the last opening, whatever the earlier ones saw; with the division
of a whole number of sectors it gives `RootfsTypeCorrect`,
`RootfsSectorsInside` and `RootfsFixedIsFixed`. The code does not keep every
payload in its file (section 6), so `SectorsInsideFile` names the one exception
and claims all the rest: a size whose sum with the footer's length wraps is, as
whole sectors go, `LargestPayload` and no other (`WholeSectorsRoom`).
`SameFile` says that the three openings of a file nobody replaces agree, which
gives `RootfsNothingForeign` for every name: raw under a name that says raw,
what the file holds under the others.
Serving assumes `FileAssumption`: at least one sector, and no more than the
file has (`FileHolds`). `RootfsFitsFile` shows that of every image that open
serves, with the same exception; for that one nothing is claimed of the
serving. `FileInv` is mutual
exclusion (`Exclusive`), that a call in progress has a request, and that the
position of the caller inside is the one its request and its progress say. It
gives `FileTypeCorrect`, `FileTransfersAtOwnSector` and
`FileFooterUntouched`. `HalvesMoved` adds what the halves already moved are;
from it `FileImplementsDevice` shows the refinement of `BlockDevice` step by
step: a write takes effect when its first half is down, and the rest of the
call is a stutter unless it fails.

**VcpuLoopProofs** assumes `LoopAssumption`: guests of any kinds of access, of
any length. The property alone is not inductive: it allows the byte of the
access at `rip` to be shown or not, and the next step needs to know which.
`LoopInv` says it: the access is done where it was served and not yet retired
(`Served`: in `registers` on WHPX, in `enter` with its exit kept on KVM), and
only a loop that has returned leaves both possible. `Position` says which exit
the loop can be looking at. `ShownByte`, `RefusedByte` and `NothingShown` are
what one instruction adds to the console: a byte at its end, a loss, or
nothing. `Retired` moves on, or asks again where nothing was written, which is
why a repeated poll or an exit KVM does not know never shows a byte twice.
`ConsoleIsOutput` is stated as order and content (increasing instructions, and
exactly the set to be shown), which is equality with the sequence and needs no
recursion over the program. It covers every guest and says what a string shows
on each back end (`Visible`). Hence `LoopTypeCorrect` and
`LoopConsoleIsOutput`.

**VirtioMmioProofs** assumes `MmioAssumption`. `QueueKnows` ties each register
of a queue to the plan of the driver that wrote it and gives
`MmioReadyQueueIsWhole` and `MmioNeverOversized`, for any number of queues,
rings and plans. `AnsweredWords` ties the feature words to the words the
present driver has written since its reset; `MmioFeaturesAsAccepted` assumes
the two words the device has (section 6).

**BootMemoryProofs** assumes `BootAssumption`: configurations as TOML gives
them, kernels that are sequences of any number of segments of any natural
addresses and sizes, and any size from 2 MiB on at which a product overflows.
`BootInv` keeps every range that was written in the area of its artefact, at
each step the areas of the steps before it (`Artefacts`, `Extents`), and says
what was decided on the way: the size of RAM, that it did not overflow, the
memory map. `JoinLemma` carries the proof: what is apart, followed by what is
apart in an area of its own, is apart. `WriteLemma` covers the early return in
the middle of a sequence of writes. Hence `BootTypeCorrect`,
`BootNothingOverwritten` and `BootMemoryMapIsRam`. The invariant also found a
mistake in an earlier form of the last property, which asked for a memory map
entry around an empty segment at 1 MiB in 1 MiB of RAM.

**Only model-checked** are the liveness properties `BurstReachesCeiling`,
`IdleReturnsToFloor`, `ShutdownStopsMonitor`, `StartEnds`, `MutexComesFree` and
`GuestEndsLoop`: the prover has no rules for fairness. Every invariant, action
property and refinement that a run checks is also proved.

The theorems about `ScalingMonitor` use no fairness, only its first state and
its steps. These are what `LifeImplementsMonitor` shows of the process, so they
hold of the monitor inside `hyperpod start` as well; this last inference is not
itself checked, since the prover cannot cite the theorems of an instance.

## 5. Plan

Done, in this order: monitor, bucket, queue, lifecycle, disk, rootfs, run
loop, registers, boot memory, probes, configuration, resets and sizes of the
registers; proofs for the monitor, the bucket, the registers, the disk, the
rootfs and the lifecycle; proofs for the queue with its refinement, the
bucket's retries and the boot memory; proofs for the run loop, and the link
between opening an image and serving it.

Next: a model of the registers and `pop` together, once the source connects
them. Today no caller does.

All modules are free of `RECURSIVE` operators so that they can be proved about.

## 6. Where the code disagrees with its own documentation

Checked by a run that TLC must find violated:

- `monitor_floor` (`SinkSeesARealValue`, `scaling/mod.rs:69`). The comment
  says the initial floor is applied "so the sink sees a real value". The
  result of that call is dropped, and a tick that wants no change returns
  before the sink. One failed first write, and an idle host never gets the
  floor.
- `bucket_polled` (`SteadyRate`, `throttle.rs:95`). The rate is documented as
  "the steady-state token generation rate". Each refill drops the fraction it
  could not credit, so a polled bucket runs below it, down to half.
- `queue_reset` (`TakesOnlyPosted`, `mmio.rs:148`). A write of 0 to Status
  stores the status only. `last_avail_idx` survives a reset, and `pop` then
  takes entries nobody posted, though it "returns `Ok(None)` if no new
  requests are pending".

Seen while modelling, part of what a property says or excluded by a constant
or premise, and refuted by no run:

- A VHD or VHDX named `.raw`, `.img` or `.ext4` is served as raw
  (`storage/mod.rs:43`); the README says "then verified by magic".
  `NothingForeign` says what holds of each name, these included.
- A fixed VHD whose footer claims 2^64 - 512 bytes wraps the sum with the
  footer's own length in `storage/vhd.rs:61` and is accepted by a release
  build, although "the footer is untouched". `SectorsInsideFile` names it as
  the one exception and shows that there is no other.
- A wait is rounded down (`throttle.rs:80`), so a caller that sleeps exactly
  the "minimum" wait may be refused again, at most twice more
  (`BoundedRetries`).
- `set_rate` does not refill first (`throttle.rs:50`): time already passed is
  paid at the new rate. The bounds of the bucket allow for it.
- `Serial::write` shows one byte of a string output (`serial.rs:30`), and on
  WHPX not even one of its own, since the loop passes RAX
  (`windows/vm.rs:139`). `ConsoleIsOutput` says so.
- A queue that is left ready across a reset keeps the configuration of the
  driver before (`mmio.rs:148`). `ReadyQueueIsWhole` asks for one driver's
  configuration as a whole, not for the present driver's.
- A kernel linked below 1 MiB would be loaded over the boot tables, and nothing
  checks it (`linux/vm.rs:61`). `NothingOverwritten` assumes `HighKernel`.
- A driver that negotiates a third feature word overwrites the second
  (`mmio.rs:136`). `Banks` is {0, 1} in the run.
- The task state segment in the GDT (`boot.rs:40`) is not the one in the
  vCPU, which `windows/vm.rs:214` says it mirrors. Register values are not
  modelled.
- `detect_format` "errors only on I/O failure" but rejects a `.vhd` for its
  content (`storage/mod.rs:79`).

## 7. Not modelled

- Command line, `status` and the stub platform: no state.
- TOML parsing, `/proc` parsing and the Win32 calls themselves: I/O and
  libraries, seen as values, successes and failures.
- `interrupt_status`, `config` and `config_generation` of the MMIO device:
  nothing in the source sets them.
- Durability: `flush` does nothing and nothing calls it.
- The GPU policy and `max_ram` beyond their validation: nothing uses them.
- What a quota does to the host, and the cgroup weight that stays behind when
  the process ends: nothing in the source restores it.
- A machine that runs out of memory in the Rust runtime (`elf.rs:70` allocates
  the zeros of a segment before the range is checked): the process aborts.
- Register values, page-table contents and ELF header fields: data that no
  property here tells apart.
