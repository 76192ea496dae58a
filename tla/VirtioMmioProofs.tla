-------------------------- MODULE VirtioMmioProofs --------------------------
(***************************************************************************)
(* Proofs, for every number of queues, sizes, addresses and feature bits,  *)
(* of the safety properties of VirtioMmio.  None is inductive: QueueKnows  *)
(* says what a queue half configured already holds, AnsweredWords what the *)
(* device holds of a negotiation half done.                                *)
(***************************************************************************)
EXTENDS VirtioMmio, TLAPS

\* What is known of a queue at any point of its configuration: the plan fits
\* it, what is written is what was planned, and a ready queue has all of it.
QueueKnows(q) ==
  /\ plan[q] # NoPlan => plan[q][2] <= queue[q].size_max
  /\ plan[q] = NoPlan => written[q] = {} /\ ~queue[q].ready
  /\ \A r \in written[q] : queue[q].reg[r] = Content(plan[q], r)
  /\ queue[q].ready => \A r \in Registers : queue[q].reg[r] = Content(plan[q], r)

QueuesInv == TypeOK /\ \A q \in Queues : QueueKnows(q)

\* What the driver read and accepted was offered; a word it has written since
\* the reset is in the device; FEATURES_OK comes after all of them.
AnsweredWords ==
  /\ \A b \in Banks : banks[b] \subseteq offered[b] /\ accepted[b] \subseteq offered[b]
  /\ \A b \in answered : driver_features[b] = accepted[b]
  /\ status = "features ok" => answered = Banks

\* What a configuration puts into a register is a value a register holds.
LEMMA ContentLemma ==
  ASSUME NEW c \in Configurations, NEW r \in Registers
  PROVE  Content(c, r) \in Values
<1>1. c[1] \in Plans /\ c[2] \in 1..MaxSize
  BY DEF Configurations
<1> QED BY <1>1 DEF Content, Values

\* A configuration is a pair, the absence of one is not.
LEMMA PlanLemma ==
  ASSUME NEW p \in Plans, NEW n \in 1..MaxSize
  PROVE  /\ <<p, n>> \in Configurations
         /\ <<p, n>> # NoPlan
BY DEF Configurations, NoPlan

\* The maximum read through the selector is that of the selected queue.
LEMMA SizeLemma ==
  ASSUME TypeOK, NEW n \in SizeMaxes \ {0}
  PROVE  n \in 1..MaxSize /\ n = queue[queue_sel].size_max
<1>1. queue_sel \in Queues /\ n = queue[queue_sel].size_max /\ n # 0
  BY DEF SizeMaxes, Selected
<1>2. queue[queue_sel] \in [size_max : 0..MaxSize, ready : BOOLEAN, reg : [Registers -> Values]]
  BY <1>1 DEF TypeOK
<1>3. n \in 0..MaxSize
  BY <1>1, <1>2
<1> QED BY <1>1, <1>3, MmioAssumption

\* The initial states satisfy the type invariant, and every step keeps it.
LEMMA TypeInit == Init => TypeOK
<1> SUFFICES ASSUME Init PROVE TypeOK OBVIOUS
<1>1. PICK sizes \in [Queues -> 0..MaxSize] :
        queue = [q \in Queues |->
          [size_max |-> sizes[q], ready |-> FALSE, reg |-> [r \in Registers |-> Zero]]]
  BY DEF Init
<1>2. Zero \in Values
  BY DEF Values
<1>3. queue \in [Queues -> [size_max : 0..MaxSize, ready : BOOLEAN, reg : [Registers -> Values]]]
  BY <1>1, <1>2
<1> QED BY <1>3, MmioAssumption DEF Init, TypeOK

LEMMA TypeStep == TypeOK /\ [Next]_vars => TypeOK'
<1> SUFFICES ASSUME TypeOK, [Next]_vars PROVE TypeOK' OBVIOUS
<1> USE DEF TypeOK
<1>1. CASE Acknowledge
  BY <1>1 DEF Acknowledge, configuration, selectors
<1>2. ASSUME NEW b \in Banks, SelectOffered(b) PROVE TypeOK'
  BY <1>2 DEF SelectOffered, configuration
<1>3. ASSUME NEW b \in Banks, SelectAccepted(b) PROVE TypeOK'
  BY <1>3 DEF SelectAccepted, configuration
<1>4. CASE ReadOffered
  BY <1>4 DEF ReadOffered, configuration, selectors
<1>5. ASSUME NEW bits \in SUBSET Bits, WriteAccepted(bits) PROVE TypeOK'
  BY <1>5 DEF WriteAccepted, AcceptedWord, configuration, selectors
<1>6. CASE FeaturesOk
  BY <1>6 DEF FeaturesOk, configuration, selectors
<1>7. ASSUME NEW q \in Queues \cup {NoQueue}, SelectQueue(q) PROVE TypeOK'
  BY <1>7 DEF SelectQueue, negotiation, selectors
<1>8. CASE TearDown
  BY <1>8 DEF TearDown, negotiation, selectors
<1>9. CASE ReadQueue
  <2>1. PICK p \in Plans, n \in SizeMaxes \ {0} :
          plan' = [q \in Queues |-> IF q \in Selected THEN <<p, n>> ELSE plan[q]]
    BY <1>9 DEF ReadQueue
  <2>2. n \in 1..MaxSize
    BY SizeLemma
  <2>3. <<p, n>> \in Configurations
    BY <2>2, PlanLemma
  <2>4. plan' \in [Queues -> Configurations \cup {NoPlan}]
    BY <2>1, <2>3
  <2>5. written' \in [Queues -> SUBSET Registers]
    BY <1>9 DEF ReadQueue
  <2> QED BY <1>9, <2>4, <2>5 DEF ReadQueue, negotiation, selectors
<1>10. CASE SetReady
  BY <1>10 DEF SetReady, negotiation, selectors
<1>11. ASSUME NEW r \in Registers, WriteRegister(r) PROVE TypeOK'
  <2>1. ASSUME NEW q \in Selected PROVE Content(plan[q], r) \in Values
    <3>1. plan[q] \in Configurations
      BY <1>11 DEF WriteRegister, Selected
    <3> QED BY <3>1, ContentLemma
  <2>2. queue' \in [Queues -> [size_max : 0..MaxSize, ready : BOOLEAN, reg : [Registers -> Values]]]
    BY <1>11, <2>1 DEF WriteRegister, Stored
  <2>3. written' \in [Queues -> SUBSET Registers]
    BY <1>11 DEF WriteRegister
  <2> QED BY <1>11, <2>2, <2>3 DEF WriteRegister, negotiation, selectors
<1>12. CASE Reset
  <2>1. plan' \in [Queues -> Configurations \cup {NoPlan}]
    BY <1>12 DEF Reset
  <2> QED BY <1>12, <2>1 DEF Reset, selectors
<1>13. CASE UNCHANGED vars
  BY <1>13 DEF vars, negotiation, configuration, selectors
<1> QED
  BY <1>1, <1>2, <1>3, <1>4, <1>5, <1>6, <1>7, <1>8, <1>9, <1>10, <1>11, <1>12, <1>13
  DEF Next, Negotiate, Configure

\* The type invariant: registers hold zero, a size or a half of a plan.
THEOREM MmioTypeCorrect == Spec => []TypeOK
BY TypeInit, TypeStep, PTL DEF Spec

\* A step that changes neither a queue nor what its driver knows of it.
LEMMA QueueUntouched ==
  ASSUME NEW q \in Queues, QueueKnows(q),
         queue'[q] = queue[q], plan'[q] = plan[q], written'[q] = written[q]
  PROVE  QueueKnows(q)'
BY DEF QueueKnows

\* Every step keeps what is known of a queue.
LEMMA QueueStep ==
  ASSUME QueuesInv, [Next]_vars, NEW q \in Queues
  PROVE  QueueKnows(q)'
<1> USE DEF QueuesInv
<1>1. CASE Negotiate \/ UNCHANGED vars
  <2>1. UNCHANGED configuration
    BY <1>1 DEF Negotiate, Acknowledge, SelectOffered, SelectAccepted, ReadOffered,
                WriteAccepted, FeaturesOk, vars
  <2> QED BY <2>1, QueueUntouched DEF configuration
<1>2. ASSUME NEW s \in Queues \cup {NoQueue}, SelectQueue(s) PROVE QueueKnows(q)'
  BY <1>2, QueueUntouched DEF SelectQueue
<1>3. CASE TearDown
  <2>1. CASE q # queue_sel
    BY <1>3, <2>1, QueueUntouched DEF TearDown, TypeOK
  <2>2. CASE q = queue_sel
    <3>1. plan'[q] = NoPlan /\ written'[q] = {} /\ ~queue'[q].ready
      BY <1>3, <2>2 DEF TearDown, TypeOK
    <3> QED BY <3>1 DEF QueueKnows
  <2> QED BY <2>1, <2>2
<1>4. CASE ReadQueue
  <2>1. CASE q # queue_sel
    BY <1>4, <2>1, QueueUntouched DEF ReadQueue, Selected
  <2>2. CASE q = queue_sel
    <3>1. q \in Selected
      BY <2>2 DEF Selected
    <3>2. PICK p \in Plans, n \in SizeMaxes \ {0} :
            plan' = [c \in Queues |-> IF c \in Selected THEN <<p, n>> ELSE plan[c]]
      BY <1>4 DEF ReadQueue
    <3>3. n \in 1..MaxSize /\ n = queue[q].size_max
      BY <2>2, SizeLemma
    <3>4. plan'[q] = <<p, n>> /\ <<p, n>> # NoPlan
      BY <3>1, <3>2, <3>3, PlanLemma
    <3>5. written'[q] = {} /\ queue'[q] = queue[q] /\ ~queue[q].ready
      BY <1>4, <3>1 DEF ReadQueue
    <3> QED BY <3>3, <3>4, <3>5 DEF QueueKnows
  <2> QED BY <2>1, <2>2
<1>5. CASE SetReady
  <2>1. CASE q # queue_sel
    BY <1>5, <2>1, QueueUntouched DEF SetReady, TypeOK
  <2>2. CASE q = queue_sel
    <3>1. /\ plan'[q] = plan[q] /\ written'[q] = written[q]
          /\ queue'[q].reg = queue[q].reg /\ queue'[q].size_max = queue[q].size_max
          /\ written[q] = Registers
      BY <1>5, <2>2 DEF SetReady, TypeOK
    <3>2. plan[q] # NoPlan
      <4>1. Size \in Registers
        BY DEF Registers
      <4> QED BY <3>1, <4>1 DEF QueueKnows
    <3> QED BY <3>1, <3>2 DEF QueueKnows
  <2> QED BY <2>1, <2>2
<1>6. ASSUME NEW r \in Registers, WriteRegister(r) PROVE QueueKnows(q)'
  <2>1. CASE q # queue_sel
    BY <1>6, <2>1, QueueUntouched DEF WriteRegister, Selected
  <2>2. CASE q = queue_sel
    <3>1. q \in Selected /\ plan[q] # NoPlan /\ ~queue[q].ready
      BY <1>6, <2>2 DEF WriteRegister, Selected
    <3>2. /\ queue'[q] = [queue[q] EXCEPT !.reg = Stored(queue[q].reg, r, Content(plan[q], r))]
          /\ written'[q] = written[q] \cup {r}
          /\ plan'[q] = plan[q]
      BY <1>6, <3>1 DEF WriteRegister
    <3>3. /\ queue'[q].size_max = queue[q].size_max /\ ~queue'[q].ready
          /\ queue'[q].reg = [queue[q].reg EXCEPT ![r] = Content(plan[q], r)]
      <4>1. queue[q] \in [size_max : 0..MaxSize, ready : BOOLEAN, reg : [Registers -> Values]]
        BY DEF TypeOK
      <4>2. /\ queue'[q].size_max = queue[q].size_max /\ queue'[q].ready = queue[q].ready
            /\ queue'[q].reg = Stored(queue[q].reg, r, Content(plan[q], r))
        BY <3>2, <4>1
      <4> QED BY <3>1, <4>2 DEF Stored
    <3>4. ASSUME NEW s \in written'[q] PROVE queue'[q].reg[s] = Content(plan[q], s)
      <4>1. queue[q] \in [size_max : 0..MaxSize, ready : BOOLEAN, reg : [Registers -> Values]]
            /\ written[q] \subseteq Registers
        BY DEF TypeOK
      <4>2. queue[q].reg \in [Registers -> Values]
        BY <4>1
      <4>3. CASE s = r
        BY <3>3, <4>2, <4>3
      <4>4. CASE s # r
        <5>1. s \in written[q] /\ s \in Registers
          BY <3>2, <4>1, <4>4
        <5>2. queue'[q].reg[s] = queue[q].reg[s]
          BY <3>3, <4>2, <4>4, <5>1
        <5> QED BY <5>1, <5>2 DEF QueueKnows
      <4> QED BY <4>3, <4>4
    <3> QED BY <3>1, <3>2, <3>3, <3>4 DEF QueueKnows
  <2> QED BY <2>1, <2>2
<1>7. CASE Reset
  <2>1. queue' = queue /\ written'[q] = {}
        /\ plan'[q] = IF queue[q].ready THEN plan[q] ELSE NoPlan
    BY <1>7 DEF Reset
  <2>2. CASE queue[q].ready
    BY <2>1, <2>2 DEF QueueKnows
  <2>3. CASE ~queue[q].ready
    BY <2>1, <2>3 DEF QueueKnows
  <2> QED BY <2>2, <2>3
<1> QED BY <1>1, <1>2, <1>3, <1>4, <1>5, <1>6, <1>7 DEF Next, Configure

LEMMA QueuesInvariant == Spec => []QueuesInv
<1>1. Init => QueuesInv
  <2> SUFFICES ASSUME Init, NEW q \in Queues PROVE QueueKnows(q)
    BY TypeInit DEF QueuesInv
  <2> QED BY DEF Init, QueueKnows
<1>2. QueuesInv /\ [Next]_vars => QueuesInv'
  <2> SUFFICES ASSUME QueuesInv, [Next]_vars PROVE QueuesInv' OBVIOUS
  <2>1. TypeOK'
    BY TypeStep DEF QueuesInv
  <2>2. \A q \in Queues : QueueKnows(q)'
    BY QueueStep
  <2> QED BY <2>1, <2>2 DEF QueuesInv
<1> QED BY <1>1, <1>2, PTL DEF Spec

\* A ready queue has exactly the configuration one driver planned, for any
\* number of queues, rings and plans.
THEOREM MmioReadyQueueIsWhole == Spec => []ReadyQueueIsWhole
<1>1. QueuesInv => ReadyQueueIsWhole
  BY DEF QueuesInv, QueueKnows, ReadyQueueIsWhole
<1> QED BY <1>1, QueuesInvariant, PTL

\* And at least one entry, at most as many as the device has for it.
THEOREM MmioNeverOversized == Spec => []NeverOversized
<1>1. QueuesInv => NeverOversized
  <2> SUFFICES ASSUME QueuesInv, NEW q \in Queues, queue[q].ready
               PROVE \E n \in 1..queue[q].size_max : queue[q].reg[Size] = Sized(n)
    BY DEF NeverOversized
  <2>1. plan[q] \in Configurations /\ plan[q][2] <= queue[q].size_max
    BY DEF QueuesInv, QueueKnows, TypeOK
  <2>2. plan[q][2] \in 1..queue[q].size_max
    <3>1. plan[q][2] \in 1..MaxSize
      BY <2>1 DEF Configurations
    <3>2. queue[q] \in [size_max : 0..MaxSize, ready : BOOLEAN, reg : [Registers -> Values]]
      BY DEF QueuesInv, TypeOK
    <3>3. queue[q].size_max \in 0..MaxSize
      BY <3>2
    <3> QED BY <2>1, <3>1, <3>3, MmioAssumption
  <2>3. queue[q].reg[Size] = Sized(plan[q][2])
    BY DEF QueuesInv, QueueKnows, Content, Registers
  <2> QED BY <2>2, <2>3
<1> QED BY <1>1, QueuesInvariant, PTL

\* The device has what the present driver accepted, for any feature bits, if
\* the driver negotiates the two words the device has.
THEOREM MmioFeaturesAsAccepted ==
  ASSUME Banks = {0, 1}
  PROVE  Spec => []FeaturesAsAccepted
<1> DEFINE Inv == TypeOK /\ AnsweredWords
<1>1. Init => Inv
  BY TypeInit DEF Init, AnsweredWords
<1>2. Inv /\ [Next]_vars => Inv'
  <2> SUFFICES ASSUME Inv, [Next]_vars PROVE AnsweredWords'
    BY TypeStep
  <2> USE DEF AnsweredWords, TypeOK
  <2>1. CASE Acknowledge
    BY <2>1 DEF Acknowledge
  <2>2. ASSUME NEW b \in Banks, SelectOffered(b) \/ SelectAccepted(b) PROVE AnsweredWords'
    BY <2>2 DEF SelectOffered, SelectAccepted
  <2>3. CASE ReadOffered
    BY <2>3 DEF ReadOffered
  <2>4. ASSUME NEW bits \in SUBSET Bits, WriteAccepted(bits), status = "driver" PROVE AnsweredWords'
    <3>1. AcceptedWord = driver_features_sel
      BY DEF AcceptedWord
    <3>2. /\ driver_features' = [driver_features EXCEPT ![driver_features_sel] = bits]
          /\ accepted' = [accepted EXCEPT ![driver_features_sel] = bits]
          /\ answered' = answered \cup {driver_features_sel}
          /\ UNCHANGED <<offered, banks, status>> /\ bits \subseteq banks[driver_features_sel]
      BY <2>4, <3>1 DEF WriteAccepted
    <3>3. \A b \in Banks : banks'[b] \subseteq offered'[b] /\ accepted'[b] \subseteq offered'[b]
      BY <3>2
    <3>4. \A b \in answered' : driver_features'[b] = accepted'[b]
      BY <3>2
    <3> QED BY <2>4, <3>2, <3>3, <3>4
  <2>5. CASE FeaturesOk
    BY <2>5 DEF FeaturesOk
  <2>6. CASE Configure \/ UNCHANGED vars
    <3>1. UNCHANGED negotiation
      BY <2>6 DEF Configure, SelectQueue, TearDown, ReadQueue, SetReady, WriteRegister, vars
    <3> QED BY <3>1 DEF negotiation
  <2>7. CASE Reset
    BY <2>7 DEF Reset
  <2> QED BY <2>1, <2>2, <2>3, <2>4, <2>5, <2>6, <2>7 DEF Next, Negotiate
<1>3. Inv => FeaturesAsAccepted
  BY DEF AnsweredWords, TypeOK, FeaturesAsAccepted
<1> QED BY <1>1, <1>2, <1>3, PTL DEF Spec

=============================================================================
