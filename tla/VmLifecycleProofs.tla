-------------------------- MODULE VmLifecycleProofs --------------------------
(***************************************************************************)
(* Proofs, for every policy and every host, of the safety properties of    *)
(* VmLifecycle and of its refinement of ScalingMonitor.  LifeInv says what *)
(* the position in the plan and in the program implies for the stack of    *)
(* locals; HostInv says what a tick in flight knows of the host.           *)
(***************************************************************************)
EXTENDS VmLifecycle, SequenceTheorems, TLAPS

Names ==
  {"config", "format", "rootfs", "ram", "kvm", "vm", "tss", "partition", "properties",
   "map", "boot", "kernel", "vcpu", "registers", "probe", "sink", "pool"}

LEMMA LengthLemma ==
  ASSUME os \in {"linux", "windows"}
  PROVE  Len(Plan) = IF os = "linux" THEN 15 ELSE 14
BY DEF Plan, LinuxPlan, WindowsPlan

\* Where the steps of the plan are that the properties are about.
LEMMA PlanLemma ==
  ASSUME os \in {"linux", "windows"}, NEW i \in 1..Len(Plan)
  PROVE  /\ Plan[i] \in Names
         /\ Plan[i] = "ram" <=> i = 4
         /\ Plan[i] \in Machine \cap Resources <=>
              IF os = "linux" THEN i \in {6, 11} ELSE i = 5
         /\ Plan[i] = "map" <=> i = Len(Plan) - 7
         /\ Plan[i] = "sink" <=> i = Len(Plan) - 1
         /\ Plan[i] = "pool" <=> i = Len(Plan)
<1>1. CASE os = "linux"
  <2>1. Plan = LinuxPlan /\ Len(Plan) = 15
    BY <1>1, LengthLemma DEF Plan
  <2> QED BY <1>1, <2>1 DEF LinuxPlan, Names, Machine, Resources
<1>2. CASE os = "windows"
  <2>1. Plan = WindowsPlan /\ Len(Plan) = 14
    BY <1>2, LengthLemma DEF Plan
  <2> QED BY <1>2, <2>1 DEF WindowsPlan, Names, Machine, Resources
<1> QED BY <1>1, <1>2

-----------------------------------------------------------------------------
\* Stacks of resources.

\* Nothing that maps guest RAM is older than guest RAM.
RamFirst(stack) ==
  \A i \in 1..Len(stack) : stack[i] \in Machine => \E j \in 1..(i - 1) : stack[j] = "ram"

LEMMA HoldsLemma ==
  ASSUME NEW s \in Seq(Names), NEW T
  PROVE  Holds(s, T) <=> \E i \in 1..Len(s) : s[i] \in T
BY DEF Holds

LEMMA MachineOnRam ==
  ASSUME NEW s \in Seq(Names), RamFirst(s), Holds(s, Machine)
  PROVE  Holds(s, {"ram"})
<1>1. PICK i \in 1..Len(s) : s[i] \in Machine
  BY HoldsLemma
<1>2. PICK j \in 1..(i - 1) : s[j] = "ram"
  BY <1>1 DEF RamFirst
<1>3. Len(s) \in Nat /\ j \in 1..Len(s)
  BY <1>1, <1>2
<1> QED BY <1>2, <1>3, HoldsLemma

LEMMA PushLemma ==
  ASSUME NEW s \in Seq(Names), NEW r \in Names
  PROVE  /\ Append(s, r) \in Seq(Names)
         /\ Append(s, r)[Len(Append(s, r))] = r /\ Append(s, r) # << >>
         /\ \A T : Holds(Append(s, r), T) <=> Holds(s, T) \/ r \in T
         /\ RamFirst(s) /\ (r \in Machine => Holds(s, {"ram"})) => RamFirst(Append(s, r))
<1> DEFINE a == Append(s, r)
<1>1. /\ a \in Seq(Names) /\ a # << >> /\ Len(s) \in Nat /\ Len(a) = Len(s) + 1
      /\ \A i \in 1..Len(s) : a[i] = s[i]
      /\ a[Len(a)] = r
  BY AppendProperties
<1> HIDE DEF a
<1>2. ASSUME NEW T PROVE Holds(a, T) <=> Holds(s, T) \/ r \in T
  <2>1. Holds(a, T) <=> \E i \in 1..Len(a) : a[i] \in T
    BY <1>1, HoldsLemma
  <2>2. Holds(s, T) <=> \E i \in 1..Len(s) : s[i] \in T
    BY HoldsLemma
  <2> QED BY <1>1, <2>1, <2>2
<1>3. ASSUME RamFirst(s), r \in Machine => Holds(s, {"ram"}) PROVE RamFirst(a)
  <2> SUFFICES ASSUME NEW i \in 1..Len(a), a[i] \in Machine
               PROVE  \E j \in 1..(i - 1) : a[j] = "ram"
    BY DEF RamFirst
  <2>1. CASE i \in 1..Len(s)
    <3>1. PICK j \in 1..(i - 1) : s[j] = "ram"
      BY <1>1, <1>3, <2>1 DEF RamFirst
    <3> QED BY <1>1, <2>1, <3>1
  <2>2. CASE i = Len(s) + 1
    <3>1. PICK j \in 1..Len(s) : s[j] = "ram"
      BY <1>1, <1>3, <2>2, HoldsLemma
    <3> QED BY <1>1, <2>2, <3>1
  <2> QED BY <1>1, <2>1, <2>2
<1> QED BY <1>1, <1>2, <1>3 DEF a

LEMMA PopLemma ==
  ASSUME NEW s \in Seq(Names), s # << >>
  PROVE  LET f == SubSeq(s, 1, Len(s) - 1)
         IN /\ f \in Seq(Names)
            /\ RamFirst(s) => RamFirst(f)
            /\ \A T : Holds(s, T) /\ s[Len(s)] \notin T => Holds(f, T)
<1> DEFINE f == SubSeq(s, 1, Len(s) - 1)
<1>1. Len(s) \in Nat \ {0} /\ \A i \in 1..Len(s) : s[i] \in Names
  BY EmptySeq
<1>2. /\ f \in Seq(Names) /\ Len(f) = Len(s) - 1
      /\ \A i \in 1..Len(f) : f[i] = s[i]
  <2> DEFINE n == Len(s) - 1
  <2>1. 1 \in Int /\ n \in Nat /\ \A i \in 1..n : s[i] \in Names
    BY <1>1
  <2> HIDE DEF n
  <2>2. /\ SubSeq(s, 1, n) \in Seq(Names)
        /\ Len(SubSeq(s, 1, n)) = IF 1 <= n THEN n - 1 + 1 ELSE 0
        /\ \A i \in 1..(n - 1 + 1) : SubSeq(s, 1, n)[i] = s[1 + i - 1]
    BY <2>1, SubSeqProperties
  <2>3. /\ Len(SubSeq(s, 1, n)) = n
        /\ \A i \in 1..n : SubSeq(s, 1, n)[i] = s[i]
    BY <2>1, <2>2
  <2> QED BY <2>2, <2>3 DEF n
<1> HIDE DEF f
<1>3. ASSUME RamFirst(s) PROVE RamFirst(f)
  BY <1>1, <1>2, <1>3 DEF RamFirst
<1>4. ASSUME NEW T, Holds(s, T), s[Len(s)] \notin T PROVE Holds(f, T)
  <2>1. PICK i \in 1..Len(s) : s[i] \in T
    BY <1>4, HoldsLemma
  <2>2. i \in 1..Len(f)
    BY <1>1, <1>2, <1>4, <2>1
  <2> QED BY <1>2, <2>1, <2>2, HoldsLemma
<1> QED BY <1>2, <1>3, <1>4 DEF f
-----------------------------------------------------------------------------
\* The main thread.

MachineSteps == IF os = "linux" THEN 6 ELSE 5   \* until a machine exists

\* The main thread's state has its type, and the machine part comes before
\* the rest of the plan.
MainTypeOK ==
  /\ main \in {"setup", "run", "store", "unwind", "done"}
  /\ os \in {"linux", "windows"}
  /\ step \in 0..Len(Plan)
  /\ held \in Seq(Names)
  /\ mapped \in BOOLEAN /\ shutdown \in BOOLEAN

\* How far the plan is, and when the monitor was asked to stop.
Progress ==
  /\ main = "setup" => step < Len(Plan)
  /\ main \in {"run", "store"} => step = Len(Plan)
  /\ main \in {"setup", "run", "store"} => ~shutdown
  /\ main \in {"unwind", "done"} /\ step = Len(Plan) => shutdown

\* What the stack of locals holds at each step of the setup.
StackKnows ==
  /\ RamFirst(held)
  /\ mapped => Holds(held, Machine)
  /\ main = "setup" =>
       /\ step >= 4 => Holds(held, {"ram"})
       /\ step >= MachineSteps => Holds(held, Machine)
       /\ os = "windows" /\ step = Len(Plan) - 1 => held # << >> /\ held[Len(held)] = "sink"

LifeInv == MainTypeOK /\ Progress /\ StackKnows /\ FailedStartLeavesQuota

\* Spawning the monitor is the last step of every plan.
LEMMA SpawnedLemma ==
  ASSUME os \in {"linux", "windows"}, step \in 0..Len(Plan)
  PROVE  Spawned <=> step = Len(Plan)
<1>1. Len(Plan) \in {14, 15}
  BY LengthLemma
<1>2. \A i \in 1..step : Plan[i] = "pool" <=> i = Len(Plan)
  BY <1>1, PlanLemma
<1> QED BY <1>1, <1>2 DEF Spawned, Passed

LEMMA LifeInit == Init => LifeInv
<1> SUFFICES ASSUME Init PROVE LifeInv OBVIOUS
<1>1. os \in {"linux", "windows"} /\ shutdown = FALSE /\ quota = Unset
  BY DEF Init, Monitor!Init, Probe!Init
<1>2. Len(Plan) \in {14, 15}
  BY <1>1, LengthLemma
<1>3. held \in Seq(Names) /\ Len(held) = 0
  BY EmptySeq DEF Init
<1>4. main = "setup" /\ step = 0 /\ ~mapped /\ mapped \in BOOLEAN
  BY DEF Init
<1>5. MainTypeOK
  <2>1. shutdown \in BOOLEAN
    BY <1>1
  <2> QED BY <1>1, <1>2, <1>3, <1>4, <2>1 DEF MainTypeOK
<1>6. Progress /\ FailedStartLeavesQuota
  <2>1. step < Len(Plan) /\ step # Len(Plan)
    <3>1. step = 0
      BY <1>4
    <3> QED BY <1>2, <3>1
  <2>2. ~shutdown
    BY <1>1, Zenon
  <2> QED BY <1>1, <1>4, <2>1, <2>2 DEF Progress, FailedStartLeavesQuota
<1>7. StackKnows
  <2>1. RamFirst(held)
    BY <1>3 DEF RamFirst
  <2>2. ~(step >= 4) /\ ~(step >= MachineSteps) /\ step # Len(Plan) - 1
    BY <1>1, <1>2, <1>4 DEF MachineSteps
  <2> QED BY <1>4, <2>1, <2>2 DEF StackKnows
<1> QED BY <1>5, <1>6, <1>7 DEF LifeInv

\* What main's next value does to the stack.
LEMMA AcquireLemma ==
  ASSUME LifeInv, main = "setup"
  PROVE  LET r == Plan[step + 1]
             h == Acquired(r)
         IN /\ h \in Seq(Names) /\ RamFirst(h)
            /\ \A T : Holds(held, T) /\ "sink" \notin T => Holds(h, T)
            /\ r \in Resources => h # << >> /\ h[Len(h)] = r /\ \A T : r \in T => Holds(h, T)
<1> DEFINE r == Plan[step + 1]
           kept == IF r = "pool" /\ os = "windows" THEN SubSeq(held, 1, Len(held) - 1) ELSE held
<1> USE DEF LifeInv
<1>1. step \in Nat /\ step + 1 \in 1..Len(Plan) /\ Len(Plan) \in {14, 15}
  BY LengthLemma DEF MainTypeOK, Progress
<1>2. /\ r \in Names
      /\ r = "pool" <=> step + 1 = Len(Plan)
      /\ r \in Machine /\ r \in Resources => step >= 4
  <2>1. os \in {"linux", "windows"} /\ step + 1 \in 1..Len(Plan)
    BY <1>1 DEF MainTypeOK
  <2>2. /\ r \in Names
        /\ r = "pool" <=> step + 1 = Len(Plan)
        /\ r \in Machine \cap Resources <=>
             IF os = "linux" THEN step + 1 \in {6, 11} ELSE step + 1 = 5
    BY <2>1, PlanLemma
  <2> HIDE DEF r
  <2> QED BY <1>1, <2>2
<1>3. /\ kept \in Seq(Names) /\ RamFirst(kept)
      /\ \A T : Holds(held, T) /\ "sink" \notin T => Holds(kept, T)
  <2>1. CASE r = "pool" /\ os = "windows"
    <3>1. held # << >> /\ held[Len(held)] = "sink" /\ held \in Seq(Names) /\ RamFirst(held)
      BY <1>1, <1>2, <2>1 DEF StackKnows, MainTypeOK
    <3> QED BY <2>1, <3>1, PopLemma
  <2>2. CASE ~(r = "pool" /\ os = "windows")
    BY <2>2 DEF StackKnows, MainTypeOK
  <2> QED BY <2>1, <2>2
<1>4. Acquired(r) = IF r \in Resources THEN Append(kept, r) ELSE kept
  BY DEF Acquired
<1>5. r \in Machine /\ r \in Resources => Holds(kept, {"ram"})
  BY <1>2, <1>3 DEF StackKnows
<1> HIDE DEF r, kept
<1>6. CASE r \in Resources
  BY <1>2, <1>3, <1>4, <1>5, <1>6, PushLemma DEF r
<1>7. CASE r \notin Resources
  BY <1>3, <1>4, <1>7 DEF r
<1> QED BY <1>6, <1>7

\* The steps of the other threads leave the main thread's state alone, and
\* only a spawned monitor writes a quota.
LEMMA OthersStep ==
  ASSUME LifeInv, UNCHANGED <<mainVars, os, shutdown>>,
         quota' = quota \/ Spawned
  PROVE  LifeInv'
<1> USE DEF LifeInv
<1>1. Plan' = Plan
  BY DEF Plan
<1>2. MainTypeOK' /\ Progress' /\ StackKnows'
  BY <1>1 DEF MainTypeOK, Progress, StackKnows, RamFirst, Holds, MachineSteps, mainVars
<1>3. FailedStartLeavesQuota'
  BY <1>1, SpawnedLemma DEF MainTypeOK, FailedStartLeavesQuota, mainVars
<1> QED BY <1>2, <1>3

LEMMA SetupLemma ==
  ASSUME LifeInv, SetupStep
  PROVE  LifeInv'
<1> DEFINE r == Plan[step + 1]
<1> USE DEF LifeInv
<1>1. /\ main = "setup" /\ step' = step + 1
      /\ held' = Acquired(Plan[step']) /\ mapped' = (mapped \/ Plan[step'] = "map")
      /\ main' = IF step' = Len(Plan) THEN "run" ELSE "setup"
      /\ UNCHANGED <<os, shutdown, quota>> /\ Plan' = Plan /\ MachineSteps' = MachineSteps
  BY DEF SetupStep, monitorVars, probeOnlyVars, Plan, MachineSteps
<1>2. /\ os \in {"linux", "windows"} /\ step \in Nat /\ step + 1 \in 1..Len(Plan)
      /\ Len(Plan) = IF os = "linux" THEN 15 ELSE 14
  BY <1>1, LengthLemma DEF MainTypeOK, Progress
<1>3. /\ held' \in Seq(Names) /\ RamFirst(held')
      /\ \A T : Holds(held, T) /\ "sink" \notin T => Holds(held', T)
      /\ r \in Resources => held' # << >> /\ held'[Len(held')] = r /\ \A T : r \in T => Holds(held', T)
  BY <1>1, AcquireLemma
<1>4. /\ r = "ram" <=> step + 1 = 4
      /\ r \in Machine \cap Resources <=>
           IF os = "linux" THEN step + 1 \in {6, 11} ELSE step + 1 = 5
      /\ r = "map" <=> step + 1 = Len(Plan) - 7
      /\ r = "sink" <=> step + 1 = Len(Plan) - 1
  BY <1>2, PlanLemma
<1> HIDE DEF r
<1>5. step' >= 4 => Holds(held', {"ram"})
  <2>1. CASE step >= 4
    BY <1>1, <1>3, <2>1 DEF StackKnows
  <2>2. CASE step + 1 = 4
    BY <1>3, <1>4, <2>2 DEF Resources
  <2> QED BY <1>1, <1>2, <2>1, <2>2
<1>6. step' >= MachineSteps => Holds(held', Machine)
  <2>1. CASE step >= MachineSteps
    BY <1>1, <1>3, <2>1 DEF StackKnows, Machine
  <2>2. CASE step + 1 = MachineSteps
    BY <1>2, <1>3, <1>4, <2>2 DEF MachineSteps
  <2> QED BY <1>1, <1>2, <2>1, <2>2 DEF MachineSteps
<1>7. mapped' => Holds(held', Machine)
  <2>1. CASE mapped
    BY <1>3, <2>1 DEF StackKnows, Machine
  <2>2. CASE r = "map"
    BY <1>1, <1>2, <1>4, <1>6, <2>2 DEF MachineSteps
  <2> QED BY <1>1, <2>1, <2>2 DEF r
<1>8. os = "windows" /\ step' = Len(Plan) - 1 => held' # << >> /\ held'[Len(held')] = "sink"
  BY <1>1, <1>2, <1>3, <1>4 DEF Resources
<1>9. StackKnows'
  <2>1. RamFirst(held)'
    BY <1>3 DEF RamFirst
  <2> QED BY <1>1, <1>5, <1>6, <1>7, <1>8, <2>1 DEF StackKnows, Holds
<1>10. MainTypeOK'
  BY <1>1, <1>2, <1>3 DEF MainTypeOK
<1>11. Progress'
  BY <1>1, <1>2 DEF Progress
<1>12. FailedStartLeavesQuota'
  BY <1>1, <1>2 DEF FailedStartLeavesQuota
<1> QED BY <1>9, <1>10, <1>11, <1>12

LEMMA DropLemma ==
  ASSUME LifeInv, Drop
  PROVE  LifeInv'
<1> USE DEF LifeInv
<1>1. /\ main = "unwind" /\ held # << >>
      /\ held' = SubSeq(held, 1, Len(held) - 1)
      /\ mapped' = (mapped /\ Holds(held', Machine))
      /\ UNCHANGED <<main, step, os, shutdown, quota>> /\ Plan' = Plan
  BY DEF Drop, monitorVars, probeOnlyVars, Plan
<1>2. held' \in Seq(Names) /\ RamFirst(held')
  BY <1>1, PopLemma DEF MainTypeOK, StackKnows
<1>3. StackKnows'
  <2>1. RamFirst(held)'
    BY <1>2 DEF RamFirst
  <2> QED BY <1>1, <2>1 DEF StackKnows, Holds
<1>4. MainTypeOK'
  BY <1>1, <1>2 DEF MainTypeOK
<1> QED BY <1>1, <1>3, <1>4 DEF Progress, FailedStartLeavesQuota

\* Steps of the main thread that touch neither the stack nor the plan.
LEMMA MainMovesLemma ==
  ASSUME LifeInv, UNCHANGED <<step, held, mapped, os, quota>>,
         \/ main = "setup" /\ main' = "unwind" /\ shutdown' = shutdown
         \/ main = "run" /\ main' = "store" /\ shutdown' = shutdown
         \/ main = "store" /\ main' = "unwind" /\ shutdown'
         \/ main = "unwind" /\ main' = "done" /\ shutdown' = shutdown
  PROVE  LifeInv'
<1> USE DEF LifeInv
<1>1. Plan' = Plan
  BY DEF Plan
<1>2. MainTypeOK'
  BY <1>1 DEF MainTypeOK
<1>3. Progress'
  BY <1>1, LengthLemma DEF MainTypeOK, Progress
<1>4. StackKnows'
  BY DEF StackKnows, RamFirst, Holds
<1>5. FailedStartLeavesQuota'
  BY <1>1 DEF FailedStartLeavesQuota
<1> QED BY <1>2, <1>3, <1>4, <1>5

LEMMA LifeStep == LifeInv /\ [Next]_vars => LifeInv'
<1> SUFFICES ASSUME LifeInv, [Next]_vars PROVE LifeInv' OBVIOUS
<1>1. CASE SetupStep
  BY <1>1, SetupLemma
<1>2. CASE Drop
  BY <1>2, DropLemma
<1>3. CASE SetupFails
  BY <1>3, MainMovesLemma DEF SetupFails, monitorVars, probeOnlyVars
<1>4. CASE GuestStops
  BY <1>4, MainMovesLemma DEF GuestStops, monitorVars, probeOnlyVars
<1>5. CASE StoreShutdown
  BY <1>5, MainMovesLemma DEF StoreShutdown, Monitor!RequestShutdown, probeOnlyVars
<1>6. CASE Exit
  BY <1>6, MainMovesLemma DEF Exit, probeOnlyVars
<1>7. CASE ReadLoad
  BY <1>7, OthersStep DEF ReadLoad, Probe!Sample
<1>8. CASE UseLoad
  BY <1>8, OthersStep DEF UseLoad, Monitor!Probe
<1>9. CASE WakeUp
  BY <1>9, OthersStep DEF WakeUp, Monitor!Wake, probeOnlyVars
<1>10. CASE MonitorRuns
  BY <1>10, OthersStep DEF MonitorRuns, Alive, probeOnlyVars, Monitor!ApplyFloor,
     Monitor!CheckShutdown, Monitor!Apply, Monitor!Publish
<1>11. CASE SinkChanges
  BY <1>11, OthersStep DEF SinkChanges, probeOnlyVars
<1>12. CASE HostWorks
  BY <1>12, OthersStep DEF HostWorks, Probe!TimePasses, monitorVars
<1>13. CASE UNCHANGED vars
  BY <1>13, OthersStep DEF vars, monitorVars, probeOnlyVars
<1> QED BY <1>1, <1>2, <1>3, <1>4, <1>5, <1>6, <1>7, <1>8, <1>9, <1>10, <1>11, <1>12, <1>13
        DEF Next, MainStep

LEMMA LifeInvariant == Spec => []LifeInv
BY LifeInit, LifeStep, PTL DEF Spec

\* Guest RAM is not freed while a machine maps it, whichever step failed.
THEOREM LifeRamOutlivesMapping == Spec => []RamOutlivesMapping
<1>1. LifeInv => RamOutlivesMapping
  BY MachineOnRam DEF LifeInv, MainTypeOK, StackKnows, RamOutlivesMapping
<1> QED BY <1>1, LifeInvariant, PTL

\* A start that fails has written no quota.
THEOREM LifeFailedStartLeavesQuota == Spec => []FailedStartLeavesQuota
BY LifeInvariant, PTL DEF LifeInv

\* No start returns with a monitor nobody asked to stop.
THEOREM LifeNoOrphanMonitor == Spec => []NoOrphanMonitor
<1>1. LifeInv => NoOrphanMonitor
  BY SpawnedLemma DEF LifeInv, MainTypeOK, Progress, NoOrphanMonitor
<1> QED BY <1>1, LifeInvariant, PTL

-----------------------------------------------------------------------------
\* The monitor in the process is the one specified.

HostTypeOK == os \in {"linux", "windows"} /\ load \in Monitor!Loads /\ sinkUp \in BOOLEAN

LEMMA HostTypeStep == HostTypeOK /\ [Next]_vars => HostTypeOK'
<1> SUFFICES ASSUME HostTypeOK, [Next]_vars PROVE HostTypeOK' OBVIOUS
<1> USE DEF HostTypeOK
<1>1. CASE UNCHANGED <<os, load, sinkUp>>
  BY <1>1
<1>2. CASE ReadLoad
  <2>1. os' = os /\ sinkUp' = sinkUp /\ (Probe!SampleWindows \/ Probe!SampleLinux)
    BY <1>2 DEF ReadLoad, Probe!Sample
  <2>2. \A s : Probe!Reading(s) \in Monitor!Loads
    BY DEF Probe!Reading, Monitor!Loads
  <2> QED BY <2>1, <2>2 DEF Probe!SampleWindows, Probe!SampleLinux, Probe!Loads, Monitor!Loads
<1>3. CASE SinkChanges
  BY <1>3 DEF SinkChanges, probeOnlyVars
<1>4. CASE UseLoad \/ WakeUp \/ MonitorRuns
  BY <1>1, <1>4 DEF UseLoad, WakeUp, MonitorRuns, Monitor!Probe, Monitor!Wake, Monitor!ApplyFloor,
     Monitor!CheckShutdown, Monitor!Apply, Monitor!Publish, probeOnlyVars
<1>5. CASE MainStep \/ GuestStops \/ HostWorks \/ UNCHANGED vars
  BY <1>1, <1>5 DEF MainStep, SetupStep, SetupFails, GuestStops, StoreShutdown, Drop, Exit, HostWorks,
     Probe!TimePasses, Monitor!RequestShutdown, monitorVars, probeOnlyVars, vars
<1> QED BY <1>2, <1>3, <1>4, <1>5 DEF Next

LEMMA MonitorRefined == LifeInv /\ HostTypeOK /\ HostTypeOK' /\ [Next]_vars => [Monitor!Next]_monitorVars
<1> SUFFICES ASSUME LifeInv, HostTypeOK, HostTypeOK', [Next]_vars PROVE Monitor!Next \/ UNCHANGED monitorVars OBVIOUS
<1>1. CASE SetupStep \/ SetupFails \/ GuestStops \/ Drop \/ HostWorks
  BY <1>1 DEF SetupStep, SetupFails, GuestStops, Drop, HostWorks
<1>2. CASE StoreShutdown
  BY <1>2 DEF StoreShutdown, Monitor!Next
<1>3. CASE Exit
  <2>1. Spawned => shutdown
    BY <1>3, SpawnedLemma DEF LifeInv, MainTypeOK, Progress, Exit
  <2>2. CASE Spawned /\ pc \notin Monitor!Stopped
    BY <1>3, <2>1, <2>2 DEF Exit, Monitor!Kill, Monitor!Next
  <2>3. CASE ~(Spawned /\ pc \notin Monitor!Stopped)
    BY <1>3, <2>3 DEF Exit, monitorVars
  <2> QED BY <2>2, <2>3
<1>4. CASE ReadLoad
  BY <1>4 DEF ReadLoad, HostTypeOK, Monitor!HostChange, Monitor!Next
<1>5. CASE UseLoad \/ WakeUp \/ MonitorRuns
  BY <1>5 DEF UseLoad, WakeUp, MonitorRuns, Monitor!Next, Monitor!MonitorStep
<1>6. CASE SinkChanges
  BY <1>6 DEF SinkChanges, HostTypeOK, Monitor!HostChange, Monitor!Next
<1>7. CASE UNCHANGED vars
  BY <1>7 DEF vars
<1> QED BY <1>1, <1>2, <1>3, <1>4, <1>5, <1>6, <1>7 DEF Next, MainStep

\* The monitor behaves as ScalingMonitor says until the process takes it down,
\* and that happens only after it was asked to stop.
THEOREM LifeImplementsMonitor == Spec => ImplementsMonitor
<1>1. Init => Monitor!Init /\ HostTypeOK
  BY DEF Init, Monitor!Init, Probe!Init, HostTypeOK
<1> QED BY <1>1, MonitorRefined, HostTypeStep, LifeInvariant, PTL DEF Spec, ImplementsMonitor

-----------------------------------------------------------------------------
\* What a tick knows of the host.  On Windows the stored snapshot and the
\* history agree; a reading that is used was taken of `window`; and the time it
\* covers is none only before the first step.

Spans == [idle : Nat, busy : Nat]
Shares == MinShares..MaxShares

SnapshotKnows ==
  os = "windows" => since = past /\ past \in Spans /\ window \in Spans

\* A reading over no time can only ask for less than the floor.
Backed == window # Probe!None \/ cpu_shares = MinShares

TickKnows ==
  /\ cpu_shares \in Shares
  /\ sampled => pc \in {"probe", "killed"}
  /\ pc = "start" => cpu_shares = MinShares
  /\ pc \in {"apply", "publish"} =>
       target = Monitor!NextShares(load, cpu_shares) /\ target # cpu_shares
  /\ os = "windows" =>
       /\ ~sampled /\ pc \in {"check", "probe"} => past # Probe!None \/ cpu_shares = MinShares
       /\ (sampled /\ load # "failed") \/ pc \in {"apply", "publish"} =>
            load = Probe!Reading(window) /\ Backed

HostInv == os \in {"linux", "windows"} /\ SnapshotKnows /\ TickKnows

\* A tick steps up only for a high load and down only for a low one, and
\* stays in the policy.
LEMMA NextLemma ==
  ASSUME Monitor!PolicyAssumption, NEW c \in Shares, NEW l
  PROVE  LET n == Monitor!NextShares(l, c)
         IN /\ n \in Shares
            /\ n > c => l = "high"
            /\ n < c => l = "low" /\ c > MinShares
<1>1. MinShares \in Int /\ MaxShares \in Int /\ c \in Int /\ MinShares <= c /\ c <= MaxShares
  BY DEF Monitor!PolicyAssumption, Monitor!ShareRange, Shares
<1> DEFINE up == (MaxShares - c) \div 4
           down == (c - MinShares) \div 4
<1>2. up \in Int /\ up >= 0 /\ 4 * up <= MaxShares - c
      /\ down \in Int /\ down >= 0 /\ 4 * down <= c - MinShares
  BY <1>1
<1>3. Monitor!StepUp(c) = Monitor!AtMost(c + Monitor!AtLeastOne(up), MaxShares)
      /\ Monitor!StepDown(c) = Monitor!NotBelow(c - Monitor!AtLeastOne(down), MinShares)
  BY DEF Monitor!StepUp, Monitor!StepDown
<1> HIDE DEF up, down
<1>4. c < MaxShares => Monitor!StepUp(c) \in Shares /\ Monitor!StepUp(c) > c
  BY <1>1, <1>2, <1>3 DEF Monitor!AtMost, Monitor!AtLeastOne, Shares
<1>5. c > MinShares => Monitor!StepDown(c) \in Shares /\ Monitor!StepDown(c) < c
  BY <1>1, <1>2, <1>3 DEF Monitor!NotBelow, Monitor!AtLeastOne, Shares
<1>6. CASE l = "high" /\ c < MaxShares
  BY <1>1, <1>4, <1>6 DEF Monitor!NextShares, Shares
<1>7. CASE ~(l = "high" /\ c < MaxShares) /\ l = "low" /\ c > MinShares
  BY <1>1, <1>5, <1>7 DEF Monitor!NextShares, Shares
<1>8. CASE ~(l = "high" /\ c < MaxShares) /\ ~(l = "low" /\ c > MinShares)
  <2>1. Monitor!NextShares(l, c) = c
    BY <1>8 DEF Monitor!NextShares
  <2> QED BY <1>1, <2>1
<1> QED BY <1>6, <1>7, <1>8

LEMMA HostInit == Monitor!PolicyAssumption /\ Init => HostInv
<1> SUFFICES ASSUME Monitor!PolicyAssumption, Init PROVE HostInv OBVIOUS
<1>1. /\ os \in {"linux", "windows"} /\ since = past /\ window = past /\ past = Probe!None
      /\ pc = "start" /\ cpu_shares = MinShares
  BY DEF Init, Monitor!Init, Probe!Init, Probe!FirstSnapshot
<1>2. ~sampled
  BY Zenon DEF Init, Probe!Init
<1>3. Probe!None \in Spans
  BY DEF Probe!None, Spans
<1>4. MinShares \in Shares
  BY DEF Monitor!PolicyAssumption, Monitor!ShareRange, Shares
<1> QED BY <1>1, <1>2, <1>3, <1>4 DEF HostInv, SnapshotKnows, TickKnows

\* CPU time passes, and there is some then.
LEMMA TimeLemma ==
  ASSUME HostInv, HostWorks
  PROVE  HostInv'
<1> USE DEF HostInv
<1>1. os = "windows" /\ UNCHANGED <<os, load, sampled, window, monitorVars>>
  BY DEF HostWorks, Probe!TimePasses, monitorVars
<1>2. PICK c \in Chunks : since' = Probe!Plus(since, c) /\ past' = Probe!Plus(past, c)
  BY DEF HostWorks, Probe!TimePasses
<1>3. c.idle \in Nat /\ c.busy \in Nat /\ c.idle + c.busy > 0
  BY ProbeAssumption
<1>4. past \in Spans /\ since = past
  BY <1>1 DEF SnapshotKnows
<1>5. past' = [idle |-> past.idle + c.idle, busy |-> past.busy + c.busy] /\ since' = past'
  BY <1>2, <1>4 DEF Probe!Plus
<1>6. past' \in Spans /\ past' # Probe!None
  <2>1. past.idle \in Nat /\ past.busy \in Nat
    BY <1>4 DEF Spans
  <2>2. past.idle + c.idle \in Nat /\ past.busy + c.busy \in Nat
        /\ ~(past.idle + c.idle = 0 /\ past.busy + c.busy = 0)
    BY <1>3, <2>1
  <2> QED BY <1>5, <2>2 DEF Spans, Probe!None
<1>7. SnapshotKnows'
  BY <1>1, <1>5, <1>6 DEF SnapshotKnows
<1>8. TickKnows'
  BY <1>1, <1>6 DEF TickKnows, Backed, monitorVars
<1> QED BY <1>1, <1>7, <1>8

\* The probe answers: with a failure, or for the time since the last answer.
LEMMA ReadLemma ==
  ASSUME HostInv, ReadLoad
  PROVE  HostInv'
<1> USE DEF HostInv
<1>1. /\ pc = "probe" /\ ~sampled /\ sampled'
      /\ UNCHANGED <<os, pc, cpu_shares, target>>
      /\ \/ os = "windows" /\ Probe!SampleWindows
         \/ os = "linux" /\ Probe!SampleLinux
  BY DEF ReadLoad, Probe!Sample
<1>2. CASE os = "linux"
  BY <1>1, <1>2 DEF SnapshotKnows, TickKnows
<1>3. CASE os = "windows" /\ load' = "failed" /\ UNCHANGED <<since, past, window>>
  BY <1>1, <1>3 DEF SnapshotKnows, TickKnows
<1>4. CASE os = "windows" /\ load' = Probe!Reading(since) /\ since' = Probe!None
           /\ window' = past /\ past' = Probe!None
  <2>1. since = past /\ past \in Spans /\ Probe!None \in Spans
    BY <1>4 DEF SnapshotKnows, Probe!None, Spans
  <2>2. SnapshotKnows'
    BY <1>1, <1>4, <2>1 DEF SnapshotKnows
  <2>3. past # Probe!None \/ cpu_shares = MinShares
    BY <1>1, <1>4 DEF TickKnows
  <2>4. load' = Probe!Reading(window') /\ Backed'
    BY <1>1, <1>4, <2>1, <2>3 DEF Backed
  <2>5. TickKnows'
    BY <1>1, <2>4 DEF TickKnows
  <2> QED BY <1>1, <2>2, <2>5
<1> QED BY <1>1, <1>2, <1>3, <1>4 DEF Probe!SampleWindows

LEMMA HostStep ==
  ASSUME Monitor!PolicyAssumption, HostInv, [Next]_vars
  PROVE  HostInv'
<1> USE DEF HostInv
<1>1. ASSUME UNCHANGED <<os, since, past, window>> PROVE SnapshotKnows'
  BY <1>1 DEF SnapshotKnows
<1>2. CASE ReadLoad
  BY <1>2, ReadLemma
<1>3. CASE HostWorks
  BY <1>3, TimeLemma
<1>4. CASE UseLoad
  <2>1. /\ pc = "probe" /\ sampled /\ ~sampled' /\ pc' \in {"sleep", "apply"}
        /\ UNCHANGED <<os, since, past, window, load, cpu_shares>>
        /\ pc' = "apply" => /\ load # "failed" /\ target' = Monitor!NextShares(load, cpu_shares)
                            /\ target' # cpu_shares
    BY <1>4 DEF UseLoad, Monitor!Probe
  <2>2. TickKnows'
    BY <2>1 DEF TickKnows, Backed
  <2> QED BY <1>1, <2>1, <2>2
<1>5. CASE WakeUp
  <2>1. /\ pc = "sleep" /\ pc' = "check" /\ (os = "windows" => past # Probe!None)
        /\ UNCHANGED <<os, since, past, window, load, sampled, cpu_shares>>
    BY <1>5 DEF WakeUp, Monitor!Wake, probeOnlyVars
  <2>2. TickKnows'
    BY <2>1 DEF TickKnows
  <2> QED BY <1>1, <2>1, <2>2
<1>6. CASE MonitorRuns
  <2>1. UNCHANGED <<os, since, past, window, load, sampled>>
    BY <1>6 DEF MonitorRuns, Monitor!ApplyFloor, Monitor!CheckShutdown, Monitor!Apply,
                Monitor!Publish, probeOnlyVars
  <2>2. CASE Monitor!ApplyFloor
    <3>1. pc = "start" /\ pc' = "check" /\ UNCHANGED cpu_shares
      BY <2>2 DEF Monitor!ApplyFloor
    <3>2. ~sampled /\ cpu_shares = MinShares
      BY <3>1 DEF TickKnows
    <3> QED BY <1>1, <2>1, <3>1, <3>2 DEF TickKnows
  <2>3. CASE Monitor!CheckShutdown
    <3>1. pc = "check" /\ pc' \in {"stopped", "probe"} /\ UNCHANGED cpu_shares
      BY <2>3 DEF Monitor!CheckShutdown
    <3> QED BY <1>1, <2>1, <3>1 DEF TickKnows
  <2>4. CASE Monitor!Apply
    <3>1. pc = "apply" /\ pc' \in {"publish", "sleep"} /\ UNCHANGED <<cpu_shares, target>>
      BY <2>4 DEF Monitor!Apply
    <3> QED BY <1>1, <2>1, <3>1 DEF TickKnows, Backed
  <2>5. CASE Monitor!Publish
    <3>1. pc = "publish" /\ pc' = "sleep" /\ cpu_shares' = target
      BY <2>5 DEF Monitor!Publish
    <3>2. target \in Shares
      BY <3>1, NextLemma DEF TickKnows
    <3> QED BY <1>1, <2>1, <3>1, <3>2 DEF TickKnows
  <2> QED BY <1>1, <1>6, <2>1, <2>2, <2>3, <2>4, <2>5 DEF MonitorRuns
<1>7. CASE Exit
  <2>1. pc' \in {"killed", pc} /\ UNCHANGED <<probeOnlyVars, load, cpu_shares, target>>
    BY <1>7 DEF Exit
  <2>2. TickKnows'
    BY <2>1 DEF TickKnows, Backed, probeOnlyVars
  <2> QED BY <1>1, <2>1, <2>2 DEF probeOnlyVars
<1>8. CASE SetupStep \/ SetupFails \/ GuestStops \/ StoreShutdown \/ Drop \/ SinkChanges \/ UNCHANGED vars
  <2>1. UNCHANGED <<probeOnlyVars, load, pc, cpu_shares, target>>
    BY <1>8 DEF SetupStep, SetupFails, GuestStops, StoreShutdown, Monitor!RequestShutdown, Drop,
                SinkChanges, monitorVars, vars
  <2>2. TickKnows'
    BY <2>1 DEF TickKnows, Backed, probeOnlyVars
  <2> QED BY <1>1, <2>1, <2>2 DEF probeOnlyVars
<1> QED BY <1>2, <1>3, <1>4, <1>5, <1>6, <1>7, <1>8 DEF Next, MainStep

\* A tick changes the quota only for what the host did, for every validated
\* policy and whatever passes between two snapshots, good or failed.
THEOREM LifeStepsFollowHost ==
  ASSUME Monitor!PolicyAssumption
  PROVE  Spec => []StepsFollowHost
<1>1. HostInv => StepsFollowHost
  <2> SUFFICES ASSUME HostInv, os = "windows", pc \in {"apply", "publish"}
               PROVE  /\ target # cpu_shares => window # Probe!None
                      /\ target > cpu_shares => 5 * window.busy >= 4 * Probe!Units(window)
                      /\ target < cpu_shares => 5 * window.busy <= Probe!Units(window)
    BY DEF StepsFollowHost
  <2>1. /\ cpu_shares \in Shares /\ target = Monitor!NextShares(load, cpu_shares)
        /\ target # cpu_shares /\ load = Probe!Reading(window) /\ Backed
    BY DEF HostInv, TickKnows
  <2>2. /\ target \in Shares
        /\ target > cpu_shares => load = "high"
        /\ target < cpu_shares => load = "low" /\ cpu_shares > MinShares
    BY <2>1, NextLemma
  <2>3. window \in Spans
    BY DEF HostInv, SnapshotKnows
  <2>4. window.idle \in Nat /\ window.busy \in Nat
        /\ (window.idle = 0 /\ window.busy = 0 => window = Probe!None)
    BY <2>3 DEF Spans, Probe!None
  <2>5. cpu_shares \in Int /\ target \in Int /\ MinShares \in Int
    BY <2>1, <2>2 DEF Shares, Monitor!PolicyAssumption, Monitor!ShareRange
  <2>6. target > cpu_shares => window # Probe!None
    <3>1. Probe!Reading(Probe!None) = "low"
      BY DEF Probe!Reading, Probe!Total, Probe!None
    <3> QED BY <2>1, <2>2, <3>1
  <2>7. target < cpu_shares => window # Probe!None
    BY <2>1, <2>2, <2>5 DEF Backed
  <2>8. target > cpu_shares => 5 * window.busy >= 4 * Probe!Units(window)
    BY <2>1, <2>2, <2>4 DEF Probe!Reading, Probe!Total, Probe!Units
  <2>9. target < cpu_shares => 5 * window.busy <= Probe!Units(window)
    BY <2>1, <2>2, <2>4 DEF Probe!Reading, Probe!Total, Probe!Units
  <2> QED BY <2>1, <2>5, <2>6, <2>7, <2>8, <2>9
<1> QED BY <1>1, HostInit, HostStep, PTL DEF Spec

=============================================================================
