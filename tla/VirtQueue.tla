------------------------------ MODULE VirtQueue ------------------------------
(***************************************************************************)
(* The device's side of a split virtqueue: DescriptorChain::pop takes the  *)
(* next head from the available ring and walks its descriptors, while the  *)
(* guest's driver writes the same memory.                                  *)
(* Source: hyperpod/src/vmm/common/device/mmio.rs.                         *)
(*                                                                         *)
(* pop reads guest RAM in separate loads, so reading the index, reading    *)
(* the slot and reading each descriptor are steps of their own.  The queue *)
(* is behind a mutex, so there is one pop at a time.  The driver is        *)
(* external: it follows the virtio protocol, but the chains it links need  *)
(* not be well formed.  A descriptor is abstracted to its link; an index   *)
(* outside the table stands for every index whose check or read fails.     *)
(***************************************************************************)
EXTENDS Integers, Sequences

CONSTANTS
  N,         \* VirtQueue.size
  IdxMod     \* 2^16: the free-running indices are u16

\* Queue sizes are powers of two below 2^16 (virtio), so a slot survives the
\* wrap of the index and a full ring is not an empty one.
ASSUME RingAssumption ==
  /\ N \in Nat \ {0} /\ IdxMod \in Nat
  /\ IdxMod > N /\ IdxMod % N = 0

Table == 0..(N - 1)
Beyond == N          \* an index outside the table
Idx == 0..(IdxMod - 1)

VARIABLES
  desc, ring, avail_idx,   \* guest RAM: descriptor table and available ring
  mapped,                  \* how much of the ring lies in guest RAM
  ready, last_avail_idx,   \* VirtQueue
  pc, head, idx, chain,    \* pop: position, head_index, idx, descriptors
  answer,                  \* what the last pop returned
  prepared,                \* driver: a slot is written, the index not yet
  owned,                   \* driver: descriptors handed over, not given back
  serving                  \* chains popped and not completed

memory == <<desc, ring, avail_idx, mapped>>
driver == <<prepared, owned>>
vars == <<memory, ready, last_avail_idx, pc, head, idx, chain, answer, driver, serving>>

\* Never a chain: a chain is not empty and stays in the table.
NoRequest == << >>
Failed == <<Beyond>>

Elements(s) == {s[i] : i \in DOMAIN s}

\* The sequences of distinct descriptors: what a driver may link up.
Links == {s \in UNION {[1..k -> Table] : k \in 1..N} :
            \A i, j \in DOMAIN s : s[i] = s[j] => i = j}

Init ==
  /\ desc = [d \in Table |-> [next |-> 0, more |-> FALSE]]
  /\ ring = [s \in Table |-> 0]
  /\ avail_idx = 0
  /\ mapped \in {"all", "index", "none"}
  /\ ready = FALSE
  /\ last_avail_idx = 0
  /\ pc = "idle" /\ head = 0 /\ idx = 0 /\ chain = << >>
  /\ answer = NoRequest
  /\ prepared = FALSE
  /\ owned = {}
  /\ serving = {}

-----------------------------------------------------------------------------
\* The driver.

\* QueueReady is written once the rings are set up.  It takes the queue's
\* lock, so it is not written during a pop.
Enable ==
  /\ pc = "idle" /\ ~ready
  /\ ready' = TRUE
  /\ UNCHANGED <<memory, last_avail_idx, pc, head, idx, chain, answer, driver, serving>>

\* A chain of free descriptors is linked and its head put in the next slot;
\* a malformed one runs out of the table or back to its own head.
Prepare(s, ending) ==
  /\ ready /\ ~prepared
  /\ Elements(s) \cap owned = {}
  /\ LET last == Len(s)
         link(i) ==
           IF i < last THEN [next |-> s[i + 1], more |-> TRUE]
           ELSE CASE ending = "end"    -> [next |-> 0, more |-> FALSE]
                  [] ending = "beyond" -> [next |-> Beyond, more |-> TRUE]
                  [] ending = "loop"   -> [next |-> s[1], more |-> TRUE]
     IN desc' = [d \in Table |-> IF d \in Elements(s)
                                 THEN link(CHOOSE i \in DOMAIN s : s[i] = d)
                                 ELSE desc[d]]
  /\ ring' = [ring EXCEPT ![avail_idx % N] = s[1]]
  /\ owned' = owned \cup Elements(s)
  /\ prepared' = TRUE
  /\ UNCHANGED <<avail_idx, mapped, ready, last_avail_idx, pc, head, idx, chain, answer, serving>>

Publish ==
  /\ prepared
  /\ avail_idx' = (avail_idx + 1) % IdxMod
  /\ prepared' = FALSE
  /\ UNCHANGED <<desc, ring, mapped, ready, last_avail_idx, pc, head, idx, chain, answer, owned, serving>>

-----------------------------------------------------------------------------
\* The device: pop, and the completion of what it returned.

\* pop returns r.
Return(r) ==
  /\ answer' = r
  /\ pc' = "idle"
  /\ head' = 0 /\ idx' = 0 /\ chain' = << >>

NothingPending ==
  /\ pc = "idle"
  /\ ready => mapped # "none" /\ avail_idx = last_avail_idx
  /\ Return(NoRequest)
  /\ UNCHANGED <<memory, ready, last_avail_idx, driver, serving>>

\* Faulty FindRequest: the index is not compared.
FindAnyRequest ==
  /\ pc = "idle"
  /\ ready /\ mapped # "none"
  /\ pc' = "slot"
  /\ UNCHANGED <<memory, ready, last_avail_idx, head, idx, chain, answer, driver, serving>>

FindRequest ==
  /\ pc = "idle"
  /\ ready /\ mapped # "none"
  /\ avail_idx # last_avail_idx
  /\ pc' = "slot"
  /\ UNCHANGED <<memory, ready, last_avail_idx, head, idx, chain, answer, driver, serving>>

\* The ring's index, or the slot, is not in guest RAM: nothing was consumed.
Unreadable ==
  /\ \/ pc = "idle" /\ ready /\ mapped = "none"
     \/ pc = "slot" /\ mapped = "index"
  /\ Return(Failed)
  /\ UNCHANGED <<memory, ready, last_avail_idx, driver, serving>>

\* Faulty TakeSlot: the entry is read and not consumed.
TakeSlotAgain ==
  /\ pc = "slot" /\ mapped = "all"
  /\ head' = ring[last_avail_idx % N]
  /\ idx' = head'
  /\ pc' = "walk"
  /\ UNCHANGED <<memory, ready, last_avail_idx, chain, answer, driver, serving>>

\* The head is read and the entry consumed, before the chain is walked.
TakeSlot ==
  /\ pc = "slot" /\ mapped = "all"
  /\ head' = ring[last_avail_idx % N]
  /\ idx' = head'
  /\ last_avail_idx' = (last_avail_idx + 1) % IdxMod
  /\ pc' = "walk"
  /\ UNCHANGED <<memory, ready, chain, answer, driver, serving>>

\* Faulty Inside: a chain may be longer than the queue.
InsideTable == idx # Beyond

\* The loop's bound and the range check of pop hold.
Inside == Len(chain) < N /\ idx # Beyond

\* One descriptor that is not the last.
Follow ==
  /\ pc = "walk" /\ Inside
  /\ desc[idx].more
  /\ chain' = Append(chain, idx)
  /\ idx' = desc[idx].next
  /\ UNCHANGED <<memory, ready, last_avail_idx, pc, head, answer, driver, serving>>

\* The last one: Ok(Some(chain)).
Finish ==
  /\ pc = "walk" /\ Inside
  /\ ~desc[idx].more
  /\ Return(Append(chain, idx))
  /\ serving' = serving \cup {Append(chain, idx)}
  /\ UNCHANGED <<memory, ready, last_avail_idx, driver>>

\* Faulty Malformed: the entry is given back, to be tried again.
MalformedRetried ==
  /\ pc = "walk" /\ ~Inside
  /\ last_avail_idx' = (last_avail_idx - 1) % IdxMod
  /\ Return(Failed)
  /\ UNCHANGED <<memory, ready, driver, serving>>

\* An index out of range, or a chain longer than the queue.
Malformed ==
  /\ pc = "walk" /\ ~Inside
  /\ Return(Failed)
  /\ UNCHANGED <<memory, ready, last_avail_idx, driver, serving>>

\* The device is done with a chain and the driver may use its descriptors
\* again (the used ring is not written by the code yet).
Complete(c) ==
  /\ serving' = serving \ {c}
  /\ owned' = owned \ Elements(c)
  /\ UNCHANGED <<memory, ready, last_avail_idx, pc, head, idx, chain, answer, prepared>>

Pop ==
  NothingPending \/ FindRequest \/ Unreadable \/ TakeSlot \/ Follow \/ Finish \/ Malformed

Next ==
  \/ Enable
  \/ \E s \in Links, ending \in {"end", "beyond", "loop"} : Prepare(s, ending)
  \/ Publish
  \/ Pop
  \/ \E c \in serving : Complete(c)

Spec == Init /\ [][Next]_vars

\* The driver resets the device (Status = 0) and sets the queue up afresh: the
\* rings start at index 0 and every descriptor is its own again.  The write
\* stores the status; no register reaches last_avail_idx.
Reset ==
  /\ pc = "idle" /\ ready
  /\ desc' = [d \in Table |-> [next |-> 0, more |-> FALSE]]
  /\ ring' = [s \in Table |-> 0]
  /\ avail_idx' = 0
  /\ prepared' = FALSE
  /\ owned' = {}
  /\ serving' = {}
  /\ UNCHANGED <<mapped, ready, last_avail_idx, pc, head, idx, chain, answer>>

SpecWithReset == Init /\ [][Next \/ Reset]_vars

-----------------------------------------------------------------------------

TypeOK ==
  /\ desc \in [Table -> [next : Table \cup {Beyond}, more : BOOLEAN]]
  /\ ring \in [Table -> Table]
  /\ avail_idx \in Idx /\ last_avail_idx \in Idx
  /\ mapped \in {"all", "index", "none"}
  /\ ready \in BOOLEAN /\ prepared \in BOOLEAN
  /\ pc \in {"idle", "slot", "walk"}
  /\ head \in Table /\ idx \in Table \cup {Beyond}
  /\ Elements(chain) \subseteq Table /\ Len(chain) <= N
  /\ answer \in Links \cup {NoRequest, Failed}
  /\ owned \subseteq Table
  /\ serving \subseteq Links

(***************************************************************************)
(* pop takes a head only if the driver handed it over and has not got it   *)
(* back: "returns Ok(None) if no new requests are pending".                *)
(***************************************************************************)
TakesOnlyPosted == pc = "walk" => head \in owned /\ Elements(chain) \subseteq owned

\* A sequence names no descriptor twice.
Distinct(s) == \A i, j \in DOMAIN s : s[i] = s[j] => i = j

(***************************************************************************)
(* No descriptor is in two chains the device works on, nor twice in one it *)
(* serves: two requests never share a buffer, however pops, posts and      *)
(* completions interleave and wherever the indices wrap.  The chain being  *)
(* walked, as far as it has been walked, counts as one it works on; that   *)
(* one may repeat itself until the bound of the loop refuses it.           *)
(***************************************************************************)
ChainsDisjoint ==
  /\ \A c \in serving : Distinct(c)
  /\ \A c, d \in serving : c # d => Elements(c) \cap Elements(d) = {}
  /\ pc = "walk" => \A c \in serving : ({head} \cup Elements(chain)) \cap Elements(c) = {}

-----------------------------------------------------------------------------
\* The queue of requests this memory stands for.

\* s is linked up from its first descriptor to a last one.
Linked(s) ==
  \A i \in DOMAIN s :
    IF i = Len(s) THEN ~desc[s[i]].more
    ELSE desc[s[i]].more /\ desc[s[i]].next = s[i + 1]

\* The request a head stands for: the one chain that starts there, or a
\* malformed one if there is none.
Request(h) ==
  LET whole == {s \in Links : s[1] = h /\ Linked(s)}
  IN IF whole = {} THEN Failed ELSE CHOOSE s \in whole : TRUE

\* How many entries the driver is ahead, where the i-th of them is, and the
\* requests that wait and that pop has taken.
Ahead == (avail_idx - last_avail_idx) % IdxMod
Slot(i) == (last_avail_idx + i - 1) % N

Pending == [i \in 1..Ahead |-> Request(ring[Slot(i)])]
InHand == IF pc = "walk" THEN Request(head) ELSE NoRequest

Queue == INSTANCE RequestQueue WITH
  Requests <- Links,
  Depth <- N,
  pending <- Pending,
  inHand <- InHand

(***************************************************************************)
(* pop implements a queue of requests: each posted request is answered     *)
(* once, in order, with the chain as the driver linked it, and a malformed *)
(* one costs its own entry and no other.                                   *)
(***************************************************************************)
ImplementsQueue == Queue!Spec

=============================================================================
