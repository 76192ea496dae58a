------------------------ MODULE ScalingMonitorProofs ------------------------
(***************************************************************************)
(* Proofs, for every policy HyperPodFile::validate accepts, of the safety  *)
(* properties of ScalingMonitor.  MonitorInv is the inductive invariant:   *)
(* it adds to the properties what each point of tick() knows of the quota  *)
(* and when a call counted as late may still be made.                      *)
(***************************************************************************)
EXTENDS ScalingMonitor, TLAPS

\* What the thread's position tells: before the floor nothing was written,
\* and a target about to be applied or published is one step away.
TickKnows ==
  /\ pc = "start" => quota = Unset /\ cpu_shares = MinShares
  /\ pc \in {"apply", "publish"} => QuarterStep(cpu_shares, target)

\* Before the request no call is late; after it, a monitor that may still
\* call the OS in this pass has not made a late call yet.
LateBudget ==
  /\ ~shutdown => lateCalls = 0
  /\ pc \in {"start", "probe", "apply"} => lateCalls = 0

MonitorInv ==
  TypeOK /\ BelievedIsEnforced /\ TickKnows /\ LateBudget /\ AtMostOneLateCall

\* A step up stays in the policy's range, moves, and is at most a quarter of
\* the headroom unless it is one share (tick's first branch).
LEMMA StepUpLemma ==
  ASSUME NEW c \in Policy, c < MaxShares
  PROVE  /\ StepUp(c) \in Policy
         /\ StepUp(c) > c
         /\ QuarterStep(c, StepUp(c))
<1> DEFINE q == (MaxShares - c) \div 4
<1>1. /\ MinShares \in Int /\ MaxShares \in Int /\ c \in Int
      /\ MinShares <= c /\ MaxShares - c > 0
  BY PolicyAssumption DEF Policy, ShareRange
<1>2. q \in Int /\ 4 * q <= MaxShares - c /\ q >= 0
  BY <1>1
<1>3. AtLeastOne(q) \in Int /\ AtLeastOne(q) >= 1 /\ AtLeastOne(q) <= MaxShares - c
      /\ (AtLeastOne(q) = 1 \/ AtLeastOne(q) = q)
  <2> HIDE DEF q
  <2> QED BY <1>1, <1>2 DEF AtLeastOne
<1>4. StepUp(c) = c + AtLeastOne(q)
  <2>1. StepUp(c) = AtMost(c + AtLeastOne(q), MaxShares)
    BY DEF StepUp
  <2> HIDE DEF q
  <2> QED BY <1>1, <1>3, <2>1 DEF AtMost
<1> HIDE DEF q
<1> QED BY <1>1, <1>2, <1>3, <1>4 DEF Policy, QuarterStep

\* The same of a step down (tick's second branch).
LEMMA StepDownLemma ==
  ASSUME NEW c \in Policy, c > MinShares
  PROVE  /\ StepDown(c) \in Policy
         /\ StepDown(c) < c
         /\ QuarterStep(c, StepDown(c))
<1> DEFINE q == (c - MinShares) \div 4
<1>1. /\ MinShares \in Int /\ MaxShares \in Int /\ c \in Int
      /\ c <= MaxShares /\ c - MinShares > 0
  BY PolicyAssumption DEF Policy, ShareRange
<1>2. q \in Int /\ 4 * q <= c - MinShares /\ q >= 0
  BY <1>1
<1>3. AtLeastOne(q) \in Int /\ AtLeastOne(q) >= 1 /\ AtLeastOne(q) <= c - MinShares
      /\ (AtLeastOne(q) = 1 \/ AtLeastOne(q) = q)
  <2> HIDE DEF q
  <2> QED BY <1>1, <1>2 DEF AtLeastOne
<1>4. StepDown(c) = c - AtLeastOne(q)
  <2>1. StepDown(c) = NotBelow(c - AtLeastOne(q), MinShares)
    BY DEF StepDown
  <2> HIDE DEF q
  <2> QED BY <1>1, <1>3, <2>1 DEF NotBelow
<1> HIDE DEF q
<1> QED BY <1>1, <1>2, <1>3, <1>4 DEF Policy, QuarterStep

\* A quota inside a validated policy passes the sinks' clamp unchanged.
LEMMA ClampKeepsPolicy ==
  ASSUME NEW s \in Policy
  PROVE  Clamp(s) = s
BY PolicyAssumption DEF Policy, ShareRange, Clamp, NotBelow, AtMost

\* The quotas HyperPod writes are numbers; the host's own is not.
LEMMA UnsetNotPolicy == Unset \notin Policy
BY PolicyAssumption DEF Policy, ShareRange

\* What NextShares may return: the shares in force, or a quarter step.
LEMMA NextSharesLemma ==
  ASSUME NEW c \in Policy, NEW l \in Loads
  PROVE  /\ NextShares(l, c) \in Policy
         /\ NextShares(l, c) # c => QuarterStep(c, NextShares(l, c))
<1>1. CASE l = "high" /\ c < MaxShares
  <2>1. NextShares(l, c) = StepUp(c)
    BY <1>1 DEF NextShares
  <2> QED BY <1>1, <2>1, StepUpLemma
<1>2. CASE ~(l = "high" /\ c < MaxShares) /\ l = "low" /\ c > MinShares
  <2>1. NextShares(l, c) = StepDown(c)
    BY <1>2 DEF NextShares
  <2> QED BY <1>2, <2>1, StepDownLemma
<1>3. CASE ~(l = "high" /\ c < MaxShares) /\ ~(l = "low" /\ c > MinShares)
  BY <1>3 DEF NextShares
<1> QED BY <1>1, <1>2, <1>3

LEMMA MonitorInit == Init => MonitorInv
<1> SUFFICES ASSUME Init PROVE MonitorInv
  OBVIOUS
<1>1. MinShares \in Policy
  BY PolicyAssumption DEF Policy, ShareRange
<1>2. TypeOK
  <2>1. lateCalls \in 0..2
    BY DEF Init
  <2> QED BY <1>1, <2>1, Zenon DEF Init, TypeOK
<1>3. BelievedIsEnforced /\ TickKnows
  BY DEF Init, BelievedIsEnforced, TickKnows
<1>4. LateBudget /\ AtMostOneLateCall
  BY DEF Init, LateBudget, AtMostOneLateCall
<1> QED BY <1>2, <1>3, <1>4 DEF MonitorInv

\* One step per action; Apply is the one that moves the quota, Publish the
\* one that makes the belief agree with it.
LEMMA MonitorStepInv == MonitorInv /\ [Next]_vars => MonitorInv'
<1> SUFFICES ASSUME MonitorInv, [Next]_vars PROVE MonitorInv'
  OBVIOUS
<1> USE DEF MonitorInv, Stopped
<1>0. MinShares \in Policy
  BY PolicyAssumption DEF Policy, ShareRange
<1>1. CASE ApplyFloor
  <2> USE <1>1 DEF ApplyFloor, SetShares
  <2>1. TypeOK'
    BY <1>0, ClampKeepsPolicy DEF TypeOK, LateBudget, AtMost
  <2>2. BelievedIsEnforced'
    BY <1>0, ClampKeepsPolicy DEF BelievedIsEnforced, TickKnows
  <2>3. TickKnows' /\ LateBudget' /\ AtMostOneLateCall'
    BY DEF TickKnows, LateBudget, AtMostOneLateCall, AtMost
  <2> QED BY <2>1, <2>2, <2>3
<1>2. CASE CheckShutdown
  BY <1>2 DEF CheckShutdown, TypeOK, BelievedIsEnforced, TickKnows, LateBudget,
     AtMostOneLateCall
<1>3. CASE Probe
  <2> USE <1>3 DEF Probe
  <2>1. /\ target' \in Policy
        /\ pc' = "apply" => QuarterStep(cpu_shares, target')
        /\ pc' \in {"sleep", "apply"}
    BY NextSharesLemma DEF TypeOK
  <2>2. TypeOK'
    BY <2>1 DEF TypeOK
  <2>3. BelievedIsEnforced' /\ TickKnows' /\ LateBudget' /\ AtMostOneLateCall'
    BY <2>1 DEF BelievedIsEnforced, TickKnows, LateBudget, AtMostOneLateCall
  <2> QED BY <2>2, <2>3
<1>4. CASE Apply
  <2> USE <1>4 DEF Apply, SetShares
  <2>1. Clamp(target) = target
    BY ClampKeepsPolicy DEF TypeOK
  <2>2. TypeOK'
    BY <2>1 DEF TypeOK, LateBudget, AtMost
  <2>3. BelievedIsEnforced'
    BY <2>1 DEF BelievedIsEnforced
  <2>4. TickKnows' /\ LateBudget' /\ AtMostOneLateCall'
    BY DEF TickKnows, LateBudget, AtMostOneLateCall, AtMost
  <2> QED BY <2>2, <2>3, <2>4
<1>5. CASE Publish
  BY <1>5 DEF Publish, TypeOK, BelievedIsEnforced, TickKnows, LateBudget,
     AtMostOneLateCall
<1>6. CASE Wake
  BY <1>6 DEF Wake, TypeOK, BelievedIsEnforced, TickKnows, LateBudget,
     AtMostOneLateCall
<1>7. CASE RequestShutdown
  BY <1>7 DEF RequestShutdown, TypeOK, BelievedIsEnforced, TickKnows, LateBudget,
     AtMostOneLateCall
<1>8. CASE Kill
  BY <1>8 DEF Kill, TypeOK, BelievedIsEnforced, TickKnows, LateBudget,
     AtMostOneLateCall
<1>9. CASE HostChange
  BY <1>9 DEF HostChange, TypeOK, BelievedIsEnforced, TickKnows, LateBudget,
     AtMostOneLateCall
<1>10. CASE UNCHANGED vars
  BY <1>10 DEF vars, TypeOK, BelievedIsEnforced, TickKnows, LateBudget,
     AtMostOneLateCall
<1> QED
  BY <1>1, <1>2, <1>3, <1>4, <1>5, <1>6, <1>7, <1>8, <1>9, <1>10
  DEF Next, MonitorStep

LEMMA MonitorInvariant == Spec => []MonitorInv
BY MonitorInit, MonitorStepInv, PTL DEF Spec

\* Type correctness: the believed, wanted and enforced quotas never leave the
\* policy, so tick's unsigned subtractions cannot wrap.
THEOREM MonitorTypeCorrect == Spec => []TypeOK
<1>1. MonitorInv => TypeOK
  BY DEF MonitorInv
<1> QED BY <1>1, MonitorInvariant, PTL

\* The quota cpu_shares reports is the one the OS enforces, for every policy
\* and whatever the probe and the sink do (tick stores after set_shares).
THEOREM MonitorBelief == Spec => []BelievedIsEnforced
<1>1. MonitorInv => BelievedIsEnforced
  BY DEF MonitorInv
<1> QED BY <1>1, MonitorInvariant, PTL

\* At most one call reaches the sink after the shutdown store (run_loop tests
\* the flag between any two of them).
THEOREM MonitorLateCall == Spec => []AtMostOneLateCall
<1>1. MonitorInv => AtMostOneLateCall
  BY DEF MonitorInv
<1> QED BY <1>1, MonitorInvariant, PTL

\* Every change of cpu_shares is a quarter step of tick.
THEOREM MonitorQuarterSteps == Spec => QuarterSteps
<1>1. MonitorInv /\ [Next]_vars
        => [cpu_shares' # cpu_shares => QuarterStep(cpu_shares, cpu_shares')]_vars
  BY DEF MonitorInv, TickKnows, Next, MonitorStep, ApplyFloor, CheckShutdown, Probe,
     Apply, Publish, Wake, RequestShutdown, Kill, HostChange, vars
<1> QED BY <1>1, MonitorInvariant, PTL DEF Spec, QuarterSteps

=============================================================================
