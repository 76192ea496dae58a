---------------------------- MODULE VmLifecycle ----------------------------
(***************************************************************************)
(* One `hyperpod start`, from the configuration to the end of the process: *)
(* the main thread sets the machine up step by step, runs the guest,       *)
(* asks the scaling monitor to stop and unwinds, while the monitor runs on *)
(* its own thread and reads the host's load through its probe.             *)
(* Source: hyperpod/src/commands/start.rs, vmm/linux/vm.rs (KVM),          *)
(* vmm/windows/vm.rs and partition.rs (WHPX), scaling/probes.rs.           *)
(*                                                                         *)
(* Every step can fail and return early; what was acquired is dropped in   *)
(* reverse order, as Rust drops locals.  The exits run_loop serves leave   *)
(* this state alone and are stuttering steps here.  A process killed from  *)
(* outside stops in one of these states.                                   *)
(***************************************************************************)
EXTENDS Naturals, Sequences

CONSTANTS
  MinShares, MaxShares, Unset,   \* see ScalingMonitor
  Chunks, MaxUnits               \* see LoadProbe

ASSUME ProbeAssumption ==
  /\ \A c \in Chunks : c.idle \in Nat /\ c.busy \in Nat /\ c.idle + c.busy > 0
  /\ MaxUnits \in Nat

VARIABLES
  main,      \* the main thread: "setup", "run", "store", "unwind", "done"
  step,      \* the steps of Plan that have succeeded
  held,      \* the resources main owns, oldest first
  mapped,    \* guest RAM is mapped into a machine that exists
  outcome,   \* "none" until a result is known, then "ok" or "err"
  pc, cpu_shares, shutdown, target, quota, load, sinkUp, lateCalls,
  os, since, sampled, past, window

monitorVars == <<pc, cpu_shares, shutdown, target, quota, load, sinkUp, lateCalls>>
mainVars == <<main, step, held, mapped, outcome>>
probeOnlyVars == <<os, since, sampled, past, window>>
vars == <<mainVars, monitorVars, probeOnlyVars>>

Monitor == INSTANCE ScalingMonitor
Probe == INSTANCE LoadProbe

-----------------------------------------------------------------------------
\* The fallible steps of start::run and of each run_vm, in their order.  They
\* end with start_scaling, which opens probe and sink, builds the pool and
\* spawns the monitor.

LinuxPlan ==
  <<"config", "format", "rootfs", "ram", "kvm", "vm", "tss",
    "map", "boot", "kernel", "vcpu", "registers", "probe", "sink", "pool">>

WindowsPlan ==
  <<"config", "format", "rootfs", "ram", "partition", "properties",
    "map", "boot", "kernel", "vcpu", "registers", "probe", "sink", "pool">>

\* Faulty Plan: the monitor is started before the machine is complete.
EagerPlan ==
  LET plan == IF os = "linux" THEN LinuxPlan ELSE WindowsPlan
      n == Len(plan)
  IN SubSeq(plan, 1, n - 8) \o SubSeq(plan, n - 2, n) \o SubSeq(plan, n - 7, n - 3)

\* Faulty Plan: the machine is created before the memory it will map.
MachineFirstPlan ==
  LET plan == IF os = "linux" THEN LinuxPlan ELSE WindowsPlan
      n == Len(plan)
  IN SubSeq(plan, 1, 3) \o SubSeq(plan, 5, n - 8) \o <<"ram">> \o SubSeq(plan, n - 7, n)

Plan == IF os = "linux" THEN LinuxPlan ELSE WindowsPlan

\* The steps that leave a value with a destructor.  WHPX deletes the virtual
\* processor with its partition.
Resources ==
  {"rootfs", "ram"} \cup
  (IF os = "linux" THEN {"kvm", "vm", "vcpu", "pool"} ELSE {"partition", "sink", "pool"})

\* What keeps the mapping: the VM and vCPU descriptors, or the partition.
Machine == {"vm", "vcpu", "partition"}

Holds(stack, things) == \E i \in DOMAIN stack : stack[i] \in things

Passed(s) == \E i \in 1..step : Plan[i] = s

\* The monitor thread was spawned (the last thing start_scaling does).
Spawned == Passed("pool")

Init ==
  /\ main = "setup"
  /\ step = 0
  /\ held = << >>
  /\ mapped = FALSE
  /\ outcome = "none"
  /\ Monitor!Init
  /\ Probe!Init

-----------------------------------------------------------------------------

\* Probe and sink, the newest values then, move into the monitor's closure
\* when it is spawned; only the job handle has a destructor.
Acquired(s) ==
  LET kept == IF s = "pool" /\ os = "windows" THEN SubSeq(held, 1, Len(held) - 1) ELSE held
  IN IF s \in Resources THEN Append(kept, s) ELSE kept

SetupStep ==
  /\ main = "setup"
  /\ step' = step + 1
  /\ held' = Acquired(Plan[step'])
  /\ mapped' = (mapped \/ Plan[step'] = "map")
  /\ main' = IF step' = Len(Plan) THEN "run" ELSE "setup"
  /\ UNCHANGED <<outcome, monitorVars, probeOnlyVars>>

\* `?`: the step returned an error, and so does run_vm.
SetupFails ==
  /\ main = "setup"
  /\ main' = "unwind"
  /\ outcome' = "err"
  /\ UNCHANGED <<step, held, mapped, monitorVars, probeOnlyVars>>

\* Faulty GuestStops: an error of the vCPU leaves run_vm at once.
GuestStopsOrReturns ==
  /\ main = "run"
  /\ outcome' \in {"ok", "err"}
  /\ main' = IF outcome' = "ok" THEN "store" ELSE "unwind"
  /\ UNCHANGED <<step, held, mapped, monitorVars, probeOnlyVars>>

\* The run loop ends: the guest halted or shut down, or a vCPU call failed.
GuestStops ==
  /\ main = "run"
  /\ outcome' \in {"ok", "err"}
  /\ main' = "store"
  /\ UNCHANGED <<step, held, mapped, monitorVars, probeOnlyVars>>

\* scaling.state.shutdown.store(true).
StoreShutdown ==
  /\ main = "store"
  /\ main' = "unwind"
  /\ Monitor!RequestShutdown
  /\ UNCHANGED <<step, held, mapped, outcome, probeOnlyVars>>

\* Faulty Drop: dropping the pool waits for the monitor.
DropJoins ==
  /\ main = "unwind"
  /\ held # << >>
  /\ held[Len(held)] = "pool" => pc \in Monitor!Stopped
  /\ held' = SubSeq(held, 1, Len(held) - 1)
  /\ mapped' = (mapped /\ Holds(held', Machine))
  /\ UNCHANGED <<main, step, outcome, monitorVars, probeOnlyVars>>

\* Locals are dropped, newest first.  Dropping the pool does not wait for the
\* monitor; dropping the last handle of the machine removes the mapping.
Drop ==
  /\ main = "unwind"
  /\ held # << >>
  /\ held' = SubSeq(held, 1, Len(held) - 1)
  /\ mapped' = (mapped /\ Holds(held', Machine))
  /\ UNCHANGED <<main, step, outcome, monitorVars, probeOnlyVars>>

\* main returns and the process ends, with any thread that is left.
Exit ==
  /\ main = "unwind"
  /\ held = << >>
  /\ main' = "done"
  /\ pc' = IF Spawned /\ pc \notin Monitor!Stopped THEN "killed" ELSE pc
  /\ UNCHANGED <<step, held, mapped, outcome, cpu_shares, shutdown, target, quota,
                 load, sinkUp, lateCalls, probeOnlyVars>>

\* The main thread outside the guest.
MainStep == SetupStep \/ SetupFails \/ StoreShutdown \/ Drop \/ Exit

Alive == Spawned /\ main # "done"

\* The first half of tick's call to the probe.
ReadLoad ==
  /\ Alive
  /\ pc = "probe"
  /\ Probe!Sample
  /\ UNCHANGED <<mainVars, pc, cpu_shares, shutdown, target, quota, sinkUp, lateCalls>>

\* tick with the reading it got.
UseLoad ==
  /\ Alive
  /\ sampled
  /\ Monitor!Probe
  /\ sampled' = FALSE
  /\ UNCHANGED <<mainVars, os, since, past, window>>

\* thread::sleep(500 ms) has returned: the host's CPU times moved on.
WakeUp ==
  /\ Alive
  /\ os = "windows" => past # Probe!None
  /\ Monitor!Wake
  /\ UNCHANGED <<mainVars, probeOnlyVars>>

\* The other steps of the monitor thread.
MonitorRuns ==
  /\ Alive
  /\ Monitor!ApplyFloor \/ Monitor!CheckShutdown \/ Monitor!Apply \/ Monitor!Publish
  /\ UNCHANGED <<mainVars, probeOnlyVars>>

\* The OS starts or stops accepting quotas.
SinkChanges ==
  /\ sinkUp' = ~sinkUp
  /\ UNCHANGED <<mainVars, probeOnlyVars, pc, cpu_shares, shutdown, target, quota,
                 load, lateCalls>>

\* CPU time passes, once the probe has its first snapshot.
HostWorks ==
  /\ Passed("probe") /\ main # "done"
  /\ Probe!TimePasses
  /\ UNCHANGED <<mainVars, monitorVars>>

Next ==
  \/ MainStep \/ GuestStops
  \/ ReadLoad \/ UseLoad \/ WakeUp \/ MonitorRuns
  \/ SinkChanges \/ HostWorks

\* The main thread is scheduled and the calls it makes return.  Nothing is
\* assumed of the guest, of the host, or of the monitor, whose calls may hang.
Fairness == WF_vars(MainStep)

Spec == Init /\ [][Next]_vars /\ Fairness

-----------------------------------------------------------------------------

(***************************************************************************)
(* "`ram` lives for the entire run, so userspace_addr stays valid" (the    *)
(* SAFETY comment in linux/vm.rs): whichever step failed and however far   *)
(* the unwinding is, guest RAM is not freed while the machine maps it.     *)
(***************************************************************************)
RamOutlivesMapping == mapped => Holds(held, {"ram"})

(***************************************************************************)
(* A start that fails leaves the host alone: no quota was written unless   *)
(* the guest got to run.                                                   *)
(***************************************************************************)
FailedStartLeavesQuota == quota # Unset => step = Len(Plan)

(***************************************************************************)
(* run_vm never returns with a monitor nobody asked to stop, whether the   *)
(* guest halted or a vCPU call failed.                                     *)
(***************************************************************************)
NoOrphanMonitor == Spawned /\ main \in {"unwind", "done"} => shutdown

(***************************************************************************)
(* "system-wide busy fraction since last sample" (README): on Windows a    *)
(* tick changes the quota only for what the host did since the last good   *)
(* reading, at least 80% busy to raise it and at most 20% to lower it,     *)
(* also after snapshots that failed.  A reading over no time at all, which *)
(* counts as idle, lowers nothing: only the first can be one.              *)
(***************************************************************************)
StepsFollowHost ==
  os = "windows" /\ pc \in {"apply", "publish"} =>
    /\ target # cpu_shares => window # Probe!None
    /\ target > cpu_shares => 5 * window.busy >= 4 * Probe!Units(window)
    /\ target < cpu_shares => 5 * window.busy <= Probe!Units(window)

(***************************************************************************)
(* A start gets to its guest or ends, and a run whose guest has stopped    *)
(* ends, even if the monitor hangs in a call to the host: nothing in the   *)
(* main thread waits for it.                                               *)
(***************************************************************************)
StartEnds == main # "run" ~> main \in {"run", "done"}

(***************************************************************************)
(* The monitor inside a running hyperpod behaves as ScalingMonitor says,   *)
(* so what is shown there holds here: it is asked to stop at most once,    *)
(* and the process takes it down only after it was asked.                  *)
(***************************************************************************)
ImplementsMonitor == Monitor!Init /\ [][Monitor!Next]_monitorVars

=============================================================================
