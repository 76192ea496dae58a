--------------------------- MODULE ScalingMonitor ---------------------------
(***************************************************************************)
(* The burst-scaling monitor: one worker of a rayon pool that polls the    *)
(* host load and moves the VMM's CPU quota between the configured floor    *)
(* and ceiling, and the main thread that asks it to stop.                  *)
(* Source: hyperpod/src/scaling/mod.rs and scaling/probes.rs.              *)
(*                                                                         *)
(* The host is the environment: it decides what the load probe reports and *)
(* whether the OS accepts a new quota.  A load is abstracted to the side   *)
(* of the two thresholds it falls on, because tick() asks nothing else.    *)
(***************************************************************************)
EXTENDS Integers

CONSTANTS
  MinShares,   \* policy.min_cpu_shares
  MaxShares,   \* policy.max_cpu_shares
  Unset        \* the quota before HyperPod ever wrote one

\* The range both sinks clamp to (cpu.weight and CpuRate, 1..=10_000).
ShareRange == 1..10000

\* What HyperPodFile::validate has established before a policy is built.
ASSUME PolicyAssumption ==
  /\ MinShares \in ShareRange
  /\ MaxShares \in ShareRange
  /\ MinShares <= MaxShares
  /\ Unset \notin Int

VARIABLES
  pc,          \* where the monitor thread is in run_loop / tick
  cpu_shares,  \* MonitorState.cpu_shares
  shutdown,    \* MonitorState.shutdown
  target,      \* the local `next` of a tick that is about to change the quota
  quota,       \* the quota the OS enforces
  load,        \* host: the class of the load, or a failing probe
  sinkUp,      \* host: whether the OS accepts a new quota now
  lateCalls    \* history: quota changes attempted after the shutdown store
               \* (0, 1, or 2 for more than one)

vars == <<pc, cpu_shares, shutdown, target, quota, load, sinkUp, lateCalls>>

Policy == MinShares..MaxShares

\* "high": at or above high_load_threshold; "low": at or below
\* low_load_threshold; "failed": load_normalized returned an error.
Loads == {"high", "mid", "low", "failed"}

Stopped == {"stopped", "killed"}

AtLeastOne(n) == IF n < 1 THEN 1 ELSE n
AtMost(n, limit) == IF n > limit THEN limit ELSE n
NotBelow(n, limit) == IF n < limit THEN limit ELSE n

\* Faulty StepUp: steps by a quarter of the ceiling and is never capped.
StepUpUncapped(current) == current + AtLeastOne(MaxShares \div 4)

\* Faulty StepUp: half of the headroom instead of a quarter.
StepUpByHalf(current) ==
  AtMost(current + AtLeastOne((MaxShares - current) \div 2), MaxShares)

\* Faulty StepUp: the rounded quarter may be zero.
StepUpStalls(current) ==
  AtMost(current + (MaxShares - current) \div 4, MaxShares)

\* A quarter of the headroom up, at least one share.
StepUp(current) ==
  AtMost(current + AtLeastOne((MaxShares - current) \div 4), MaxShares)

\* Faulty StepDown: the rounded quarter may be zero.
StepDownStalls(current) ==
  NotBelow(current - (current - MinShares) \div 4, MinShares)

\* A quarter of the slack down, at least one share.
StepDown(current) ==
  NotBelow(current - AtLeastOne((current - MinShares) \div 4), MinShares)

\* The quota a tick wants, given the load it read and the shares in force.
NextShares(l, current) ==
  IF l = "high" /\ current < MaxShares THEN StepUp(current)
  ELSE IF l = "low" /\ current > MinShares THEN StepDown(current)
  ELSE current

\* shares.clamp(1, 10_000)
Clamp(shares) == NotBelow(AtMost(shares, 10000), 1)

-----------------------------------------------------------------------------

Init ==
  /\ pc = "start"
  /\ cpu_shares = MinShares
  /\ shutdown = FALSE
  /\ target = MinShares
  /\ quota = Unset
  /\ load \in Loads
  /\ sinkUp \in BOOLEAN
  /\ lateCalls = 0

\* set_shares: the OS takes the clamped value or the call fails and the
\* quota in force stays.
SetShares(shares) ==
  /\ quota' = IF sinkUp THEN Clamp(shares) ELSE quota
  /\ lateCalls' = IF shutdown THEN AtMost(lateCalls + 1, 2) ELSE lateCalls

\* The worker picks the job up; the result of the first set_shares is dropped.
ApplyFloor ==
  /\ pc = "start"
  /\ SetShares(MinShares)
  /\ pc' = "check"
  /\ UNCHANGED <<cpu_shares, shutdown, target, load, sinkUp>>

\* Faulty CheckShutdown: the loop never looks at the flag.
CheckNothing ==
  /\ pc = "check"
  /\ pc' = "probe"
  /\ UNCHANGED <<cpu_shares, shutdown, target, quota, load, sinkUp, lateCalls>>

\* The test of the while loop.
CheckShutdown ==
  /\ pc = "check"
  /\ pc' = IF shutdown THEN "stopped" ELSE "probe"
  /\ UNCHANGED <<cpu_shares, shutdown, target, quota, load, sinkUp, lateCalls>>

\* First half of tick: read the load, decide; a failed probe and a quota
\* that needs no change return early.
Probe ==
  /\ pc = "probe"
  /\ LET wanted == IF load = "failed" THEN cpu_shares
                   ELSE NextShares(load, cpu_shares)
     IN IF wanted = cpu_shares
        THEN pc' = "sleep" /\ UNCHANGED target
        ELSE pc' = "apply" /\ target' = wanted
  /\ UNCHANGED <<cpu_shares, shutdown, quota, load, sinkUp, lateCalls>>

\* Faulty Apply: the error of set_shares is dropped, as run_loop drops it.
ApplyDropsError ==
  /\ pc = "apply"
  /\ SetShares(target)
  /\ pc' = "publish"
  /\ UNCHANGED <<cpu_shares, shutdown, target, load, sinkUp>>

\* Second half of tick: hand the quota to the OS; an error returns early.
Apply ==
  /\ pc = "apply"
  /\ SetShares(target)
  /\ pc' = IF sinkUp THEN "publish" ELSE "sleep"
  /\ UNCHANGED <<cpu_shares, shutdown, target, load, sinkUp>>

\* The quota is in force: remember it.
Publish ==
  /\ pc = "publish"
  /\ cpu_shares' = target
  /\ pc' = "sleep"
  /\ UNCHANGED <<shutdown, target, quota, load, sinkUp, lateCalls>>

\* thread::sleep(poll_interval) returns.
Wake ==
  /\ pc = "sleep"
  /\ pc' = "check"
  /\ UNCHANGED <<cpu_shares, shutdown, target, quota, load, sinkUp, lateCalls>>

MonitorStep ==
  ApplyFloor \/ CheckShutdown \/ Probe \/ Apply \/ Publish \/ Wake

\* The main thread's store once the vCPU loop has ended.
RequestShutdown ==
  /\ ~shutdown
  /\ shutdown' = TRUE
  /\ UNCHANGED <<pc, cpu_shares, target, quota, load, sinkUp, lateCalls>>

\* Dropping the pool does not join its threads: when main returns, the
\* process ends and the monitor with it, wherever it is.
Kill ==
  /\ shutdown
  /\ pc \notin Stopped
  /\ pc' = "killed"
  /\ UNCHANGED <<cpu_shares, shutdown, target, quota, load, sinkUp, lateCalls>>

\* The host's load changes, or the OS starts or stops accepting quotas.
HostChange ==
  /\ load' \in Loads
  /\ sinkUp' \in BOOLEAN
  /\ UNCHANGED <<pc, cpu_shares, shutdown, target, quota, lateCalls>>

Next == MonitorStep \/ RequestShutdown \/ Kill \/ HostChange

\* The OS schedules the monitor thread; nothing is assumed of the host, of
\* the guest that ends the run, or of the moment the process goes away.
Fairness == WF_vars(MonitorStep)

Spec == Init /\ [][Next]_vars /\ Fairness

-----------------------------------------------------------------------------

TypeOK ==
  /\ pc \in {"start", "check", "probe", "apply", "publish", "sleep"} \cup Stopped
  /\ cpu_shares \in Policy
  /\ shutdown \in BOOLEAN
  /\ target \in Policy
  /\ quota \in Policy \cup {Unset}
  /\ load \in Loads
  /\ sinkUp \in BOOLEAN
  /\ lateCalls \in 0..2

(***************************************************************************)
(* The number the monitor believes in is the one the OS enforces: except   *)
(* between the sink call and the store that follows it, a quota HyperPod   *)
(* wrote equals cpu_shares, whatever calls failed in between (tick stores  *)
(* only after set_shares succeeded, and stores the value it wrote).        *)
(***************************************************************************)
BelievedIsEnforced ==
  /\ pc \notin {"publish", "killed"} /\ quota # Unset => quota = cpu_shares
  /\ pc = "publish" => quota = target

(***************************************************************************)
(* Once main has stored the shutdown flag, the monitor touches the host's  *)
(* quota at most once more: the call of a tick already past the loop test, *)
(* or the floor of a worker the pool started late.                         *)
(***************************************************************************)
AtMostOneLateCall == lateCalls <= 1

\* One share, or at most a quarter of the way to the bound moved to.
QuarterStep(from, to) ==
  \/ to = from + 1
  \/ to = from - 1
  \/ to > from /\ 4 * (to - from) <= MaxShares - from
  \/ to < from /\ 4 * (from - to) <= from - MinShares

(***************************************************************************)
(* One tick never moves the believed quota by more than a quarter of the   *)
(* distance to the bound it moves to (or by the single share that keeps it *)
(* moving): the README's 25% steps, whatever happened between the read of  *)
(* cpu_shares in tick and the store that ends it.                          *)
(***************************************************************************)
QuarterSteps ==
  [][cpu_shares' # cpu_shares => QuarterStep(cpu_shares, cpu_shares')]_vars

(***************************************************************************)
(* A burst that lasts gets the whole ceiling: if the load stays high and   *)
(* the OS accepts quotas, the enforced quota reaches MaxShares and stays.  *)
(***************************************************************************)
BurstReachesCeiling ==
  <>[](load = "high" /\ sinkUp /\ ~shutdown) => <>[](quota = MaxShares)

(***************************************************************************)
(* An idle host gets the quota back: if the load stays low and the OS      *)
(* accepts quotas, the believed quota settles on the floor.                *)
(***************************************************************************)
IdleReturnsToFloor ==
  <>[](load = "low" /\ sinkUp /\ ~shutdown) => <>[](cpu_shares = MinShares)

(***************************************************************************)
(* A stop request is honoured: the monitor thread ends, wherever the       *)
(* request found it.                                                       *)
(***************************************************************************)
ShutdownStopsMonitor == shutdown ~> pc \in Stopped

(***************************************************************************)
(* "Apply initial floor so the sink sees a real value" (scaling/mod.rs):   *)
(* with a sink that works and a probe that answers from some moment on,    *)
(* the OS gets a quota from HyperPod sooner or later.  It need not: the    *)
(* first set_shares drops its error, and a tick that wants no change       *)
(* returns before it calls the sink.                                       *)
(***************************************************************************)
SinkSeesARealValue ==
  <>[](sinkUp /\ load # "failed" /\ ~shutdown) => <>(quota # Unset)

=============================================================================
