----------------------------- MODULE VirtioMmio -----------------------------
(***************************************************************************)
(* The register file of a VirtIO-MMIO device, written by guest drivers     *)
(* that negotiate features, then configure queues through one selector and *)
(* half-word registers, tear them down and configure them again, and reset *)
(* the device at any point; the next driver need not know what the one     *)
(* before it had done.                                                     *)
(* Source: hyperpod/src/vmm/common/device/mmio.rs, impl VirtioMmio.        *)
(*                                                                         *)
(* A queue register access reads the selector and then locks the queue.    *)
(* Both back ends run one vCPU, so no other access comes in between and    *)
(* an access is one step.  The driver is external; it keeps to the         *)
(* protocol, in any order the protocol leaves open.  Nothing in the code   *)
(* sets interrupt_status, config or config_generation, or looks at a bit   *)
(* of status: INTERRUPT_ACK, the configuration space, DRIVER_OK and        *)
(* QUEUE_NOTIFY, which only tells its caller, change nothing modelled.     *)
(***************************************************************************)
EXTENDS Naturals

CONSTANTS
  Queues,     \* the device's queues
  NoQueue,    \* a selector past the last one
  Rings,      \* a queue's addresses: descriptors, available and used ring
  Plans,      \* the addresses a driver may give a queue
  MaxSize,    \* bound: the largest queue the device has
  Bits,       \* the feature bits of a word
  Banks       \* the feature words the driver negotiates

ASSUME MmioAssumption ==
  /\ {0, 1} \subseteq Banks /\ Banks \subseteq Nat
  /\ NoQueue \notin Queues
  /\ MaxSize \in Nat

Halves == {"low", "high"}
Size == <<"queue", "size">>
Registers == {Size} \cup (Rings \X Halves)

\* What a register holds: zero, a size, or what plan p puts there.
Zero == <<"zero">>
Sized(n) == <<"size", n>>
Planned(p, r) == <<p, r>>
Values ==
  {Zero} \cup {Sized(n) : n \in 1..MaxSize} \cup {Planned(p, r) : p \in Plans, r \in Registers}

\* A driver's configuration of a queue: its addresses and how many entries.
NoPlan == << >>
Configurations == Plans \X (1..MaxSize)
Content(c, r) == IF r = Size THEN Sized(c[2]) ELSE Planned(c[1], r)

VARIABLES
  offered,               \* device_features, as two words
  status,                \* STATUS: "reset", "driver", "features ok"
  device_features_sel, driver_features_sel, driver_features, queue_sel,
  queue,                 \* VirtQueue: size_max, ready, size and addresses
  banks,                 \* driver: what it has read of each feature word
  accepted,              \* driver: the bits it has written
  answered,              \* driver: the words it has written
  mine,                  \* driver: the queues it made ready
  plan,                  \* the configuration each queue is being given, or has
  written                \* driver: the registers it has written so far

selectors == <<device_features_sel, driver_features_sel>>
negotiation ==
  <<offered, status, selectors, driver_features, banks, accepted, answered>>
configuration == <<queue_sel, queue, mine, plan, written>>
vars == <<negotiation, configuration>>

\* VirtioMmio::new, and a driver that has done nothing yet.
Init ==
  /\ offered \in [{0, 1} -> SUBSET Bits]
  /\ status = "reset"
  /\ device_features_sel = 0 /\ driver_features_sel = 0
  /\ driver_features = [b \in {0, 1} |-> {}]
  /\ queue_sel \in Queues
  /\ \E sizes \in [Queues -> 0..MaxSize] :
       queue = [q \in Queues |->
         [size_max |-> sizes[q], ready |-> FALSE, reg |-> [r \in Registers |-> Zero]]]
  /\ banks = [b \in Banks |-> {}]
  /\ accepted = [b \in Banks |-> {}] /\ answered = {}
  /\ mine = {}
  /\ plan = [q \in Queues |-> NoPlan]
  /\ written = [q \in Queues |-> {}]

-----------------------------------------------------------------------------
\* Feature negotiation.

\* STATUS is set to ACKNOWLEDGE and DRIVER.
Acknowledge ==
  /\ status = "reset"
  /\ status' = "driver"
  /\ UNCHANGED <<offered, selectors, driver_features, banks, accepted, answered, configuration>>

SelectOffered(b) ==
  /\ device_features_sel' = b
  /\ UNCHANGED <<offered, status, driver_features_sel, driver_features, banks, accepted,
                 answered, configuration>>

\* DEVICE_FEATURES reads as zero beyond the second word.
ReadOffered ==
  /\ banks' = [banks EXCEPT ![device_features_sel] =
                 IF device_features_sel \in {0, 1} THEN offered[device_features_sel] ELSE {}]
  /\ UNCHANGED <<offered, status, selectors, driver_features, accepted, answered, configuration>>

SelectAccepted(b) ==
  /\ driver_features_sel' = b
  /\ UNCHANGED <<offered, status, device_features_sel, driver_features, banks, accepted,
                 answered, configuration>>

\* Faulty AcceptedWord: the other selector is used.
AcceptedWordBySel == IF device_features_sel = 0 THEN 0 ELSE 1

\* DRIVER_FEATURES writes the low word for selector 0, else the high word.
AcceptedWord == IF driver_features_sel = 0 THEN 0 ELSE 1

\* The driver accepts some of the bits it was offered.
WriteAccepted(bits) ==
  /\ bits \subseteq banks[driver_features_sel]
  /\ driver_features' = [driver_features EXCEPT ![AcceptedWord] = bits]
  /\ accepted' = [accepted EXCEPT ![driver_features_sel] = bits]
  /\ answered' = answered \cup {driver_features_sel}
  /\ UNCHANGED <<offered, status, selectors, banks, configuration>>

\* STATUS with FEATURES_OK, once every word is written; it reads back as set.
FeaturesOk ==
  /\ answered = Banks
  /\ status' = "features ok"
  /\ UNCHANGED <<offered, selectors, driver_features, banks, accepted, answered, configuration>>

Negotiate ==
  \/ Acknowledge
  \/ /\ status = "driver"
     /\ \/ \E b \in Banks : SelectOffered(b) \/ SelectAccepted(b)
        \/ ReadOffered
        \/ \E bits \in SUBSET Bits : WriteAccepted(bits)
        \/ FeaturesOk

-----------------------------------------------------------------------------
\* Queue configuration.

SelectQueue(q) ==
  /\ queue_sel' = q
  /\ UNCHANGED <<negotiation, queue, mine, plan, written>>

\* mutate_selected_queue drops the write when there is no such queue, and
\* selected_queue has nothing to read: the register is zero.
Selected == {queue_sel} \cap Queues

\* Faulty SizeMaxes: one maximum for all queues.
SizeMaxesOfAll == {queue[q].size_max : q \in Queues}

SizeMaxes == {queue[q].size_max : q \in Selected}

\* The driver reads QUEUE_READY and QUEUE_NUM_MAX and plans the queue, which
\* it leaves alone if it is in use, not there, or has no room.
ReadQueue ==
  /\ \A q \in Selected : ~queue[q].ready
  /\ \E p \in Plans, n \in SizeMaxes \ {0} :
       plan' = [q \in Queues |-> IF q \in Selected THEN <<p, n>> ELSE plan[q]]
  /\ written' = [q \in Queues |-> IF q \in Selected THEN {} ELSE written[q]]
  /\ UNCHANGED <<negotiation, queue_sel, queue, mine>>

\* Faulty Stored: a half is stored as the whole address.
StoredAlone(regs, r, value) ==
  [s \in Registers |-> IF s = r THEN value ELSE IF s[1] = r[1] THEN Zero ELSE regs[s]]

\* Faulty Stored: the old half is not masked out before the new one is or-ed in.
StoredOr(regs, r, value) ==
  [regs EXCEPT ![r] = IF @ = Zero THEN value ELSE <<"or", @, value>>]

\* A size, or half of an address, leaving the other half as it is.
Stored(regs, r, value) == [regs EXCEPT ![r] = value]

\* QUEUE_NUM, QUEUE_DESC_LOW, ...: a register of the selected queue, which the
\* driver knows to be free, or of one that is not there.
WriteRegister(r) ==
  /\ \A q \in Selected : plan[q] # NoPlan /\ ~queue[q].ready
  /\ queue' = [q \in Queues |->
       IF q \in Selected THEN [queue[q] EXCEPT !.reg = Stored(@, r, Content(plan[q], r))]
       ELSE queue[q]]
  /\ written' = [q \in Queues |-> IF q \in Selected THEN written[q] \cup {r} ELSE written[q]]
  /\ UNCHANGED <<negotiation, queue_sel, mine, plan>>

\* QUEUE_READY, once the whole configuration is written.
SetReady ==
  /\ queue_sel \in Queues /\ written[queue_sel] = Registers
  /\ queue' = [queue EXCEPT ![queue_sel].ready = TRUE]
  /\ mine' = mine \cup {queue_sel}
  /\ UNCHANGED <<negotiation, queue_sel, plan, written>>

\* The driver takes its queue down.
TearDown ==
  /\ queue_sel \in mine
  /\ queue' = [queue EXCEPT ![queue_sel].ready = FALSE]
  /\ mine' = mine \ {queue_sel}
  /\ plan' = [plan EXCEPT ![queue_sel] = NoPlan]
  /\ written' = [written EXCEPT ![queue_sel] = {}]
  /\ UNCHANGED <<negotiation, queue_sel>>

Configure ==
  \/ \E q \in Queues \cup {NoQueue} : SelectQueue(q)
  \/ TearDown
  \/ /\ status = "features ok"
     /\ \/ ReadQueue \/ SetReady
        \/ \E r \in Registers : WriteRegister(r)

\* STATUS = 0: the device stores it and keeps the rest.  The driver starts
\* over; it still knows its queues, or is another one that does not.
Reset ==
  /\ status # "reset"
  /\ status' = "reset"
  /\ mine' \in {mine, {}}
  /\ plan' = [q \in Queues |-> IF queue[q].ready THEN plan[q] ELSE NoPlan]
  /\ banks' = [b \in Banks |-> {}]
  /\ accepted' = [b \in Banks |-> {}] /\ answered' = {}
  /\ written' = [q \in Queues |-> {}]
  /\ UNCHANGED <<offered, selectors, driver_features, queue_sel, queue>>

Next == Negotiate \/ Configure \/ Reset

Spec == Init /\ [][Next]_vars

-----------------------------------------------------------------------------

TypeOK ==
  /\ offered \in [{0, 1} -> SUBSET Bits] /\ driver_features \in [{0, 1} -> SUBSET Bits]
  /\ status \in {"reset", "driver", "features ok"}
  /\ device_features_sel \in Banks /\ driver_features_sel \in Banks
  /\ queue_sel \in Queues \cup {NoQueue}
  /\ queue \in [Queues -> [size_max : 0..MaxSize, ready : BOOLEAN, reg : [Registers -> Values]]]
  /\ banks \in [Banks -> SUBSET Bits] /\ accepted \in [Banks -> SUBSET Bits]
  /\ answered \subseteq Banks /\ mine \subseteq Queues
  /\ plan \in [Queues -> Configurations \cup {NoPlan}] /\ written \in [Queues -> SUBSET Registers]

(***************************************************************************)
(* "feature-bit negotiation" (README): in whatever order a driver selects, *)
(* reads and writes the words, once it has set FEATURES_OK the device has  *)
(* exactly the bits it accepted, all of which were offered, and none that  *)
(* a driver before a reset had accepted, though a reset clears none.       *)
(***************************************************************************)
FeaturesAsAccepted ==
  status = "features ok" =>
    \A b \in {0, 1} : driver_features[b] = accepted[b] /\ driver_features[b] \subseteq offered[b]

(***************************************************************************)
(* The device never finds a queue ready with anything but the one whole    *)
(* configuration its driver gave it: no half of an address is left from an *)
(* earlier one, from before a reset, or lost with its other half, whatever *)
(* is selected and written in between, and no write goes to another queue. *)
(***************************************************************************)
ReadyQueueIsWhole ==
  \A q \in Queues : queue[q].ready =>
    \A r \in Registers : queue[q].reg[r] = Content(plan[q], r)

(***************************************************************************)
(* No queue is ready with more entries than the device has for it, nor     *)
(* with none, though write32 stores any QUEUE_NUM: the maximum the driver  *)
(* reads through the selector is that of the queue it then configures.     *)
(***************************************************************************)
NeverOversized ==
  \A q \in Queues : queue[q].ready =>
    \E n \in 1..queue[q].size_max : queue[q].reg[Size] = Sized(n)

=============================================================================
