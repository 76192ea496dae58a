----------------------------- MODULE LoadProbe -----------------------------
(***************************************************************************)
(* What the scaling monitor is told about the host.                        *)
(* Source: hyperpod/src/scaling/probes.rs, ProcLoadProbe (Linux) and       *)
(* GetSystemTimesProbe (Windows).                                          *)
(*                                                                         *)
(* The Windows probe reports the busy fraction of the time between two     *)
(* snapshots of the host's CPU times.  Only their differences matter, so   *)
(* the model keeps the host's counters less the stored snapshot.  The      *)
(* Linux probe reads an average the kernel keeps, of which nothing is      *)
(* assumed.  Thresholds are those of ScalingPolicy::from_limits.           *)
(***************************************************************************)
EXTENDS Naturals

CONSTANTS
  Chunks,     \* CPU time the host may spend at a stretch: idle and busy units
  MaxUnits    \* bound: units that pass between two readings

VARIABLES
  os,        \* "linux" or "windows"
  since,     \* the host's CPU times less `last`
  load,      \* the side of the thresholds of the last reading, or "failed"
  sampled,   \* load_normalized has returned, and tick has not used it yet
  past,      \* history: what the host did since the last good reading
  window     \* history: what the host did in the time `load` stands for

probeVars == <<os, since, load, sampled, past, window>>

Loads == {"high", "mid", "low", "failed"}

None == [idle |-> 0, busy |-> 0]
Plus(s, t) == [idle |-> s.idle + t.idle, busy |-> s.busy + t.busy]
Units(s) == s.idle + s.busy

\* Faulty FirstSnapshot: last starts as zero, and the host has been busy.
SinceBoot == [idle |-> 0, busy |-> 5]

\* GetSystemTimesProbe::new takes the first snapshot.
FirstSnapshot == None

Init ==
  /\ os \in {"linux", "windows"}
  /\ since = FirstSnapshot /\ past = None /\ window = None
  /\ load = "low"
  /\ sampled = FALSE

-----------------------------------------------------------------------------

\* The snapshot's total: kernel time, which contains idle time, and user time.
Total(s) == s.idle + s.busy

\* 1 - didle/dtotal against 0.80 and 0.20; no time at all reads as 0.0.
Reading(s) ==
  IF Total(s) = 0 THEN "low"
  ELSE IF 5 * (Total(s) - s.idle) >= 4 * Total(s) THEN "high"
  ELSE IF 5 * (Total(s) - s.idle) <= Total(s) THEN "low"
  ELSE "mid"

\* GetSystemTimes fails before `last` is touched, or gives the fraction.
SampleWindows ==
  \/ /\ load' = "failed"
     /\ UNCHANGED <<since, past, window>>
  \/ /\ load' = Reading(since)
     /\ since' = None   \* *last = now
     /\ window' = past
     /\ past' = None

\* /proc/loadavg: unreadable, or whatever the last minute looked like.
SampleLinux ==
  /\ load' \in Loads
  /\ UNCHANGED <<since, past, window>>

\* LoadProbe::load_normalized
Sample ==
  /\ ~sampled
  /\ sampled' = TRUE
  /\ CASE os = "windows" -> SampleWindows
       [] os = "linux" -> SampleLinux
  /\ UNCHANGED os

\* The host's CPUs work or idle.
TimePasses ==
  /\ os = "windows"
  /\ \E c \in Chunks :
       /\ Units(past) + Units(c) <= MaxUnits
       /\ since' = Plus(since, c)
       /\ past' = Plus(past, c)
  /\ UNCHANGED <<os, load, sampled, window>>

=============================================================================
