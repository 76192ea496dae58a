-------------------------- MODULE VirtQueueProofs --------------------------
(***************************************************************************)
(* Proofs, for every queue size and width of the index, that what pop      *)
(* takes was posted, that no two chains share a descriptor, and that pop   *)
(* implements RequestQueue.                                                *)
(*                                                                         *)
(* The chains the driver posted are not part of the state: the invariant   *)
(* says that there are some, one for each entry of the ring that is        *)
(* pending, and one for the request in hand, that own their descriptors.   *)
(***************************************************************************)
EXTENDS VirtQueue, FiniteSetTheorems, SequenceTheorems, WellFoundedInduction, TLAPS

-----------------------------------------------------------------------------
\* Arithmetic of a ring.

LEMMA DivMod ==
  ASSUME NEW x \in Int, NEW n \in Nat \ {0}
  PROVE  x \div n \in Int /\ x % n \in 0..(n - 1) /\ x = n * (x \div n) + (x % n)
<1>1. x \div n \in Int
  OBVIOUS
<1>2. x % n \in 0..(n - 1)
  OBVIOUS
<1>3. x = n * (x \div n) + (x % n)
  OBVIOUS
<1> QED BY <1>1, <1>2, <1>3

LEMMA ModIs ==
  ASSUME NEW n \in Nat \ {0}, NEW q \in Int, NEW r \in 0..(n - 1)
  PROVE  (n * q + r) % n = r
<1> DEFINE x == n * q + r
           p == x \div n
           s == x % n
<1>1. x \in Int /\ p \in Int /\ s \in 0..(n - 1) /\ x = n * p + s
  BY DivMod
<1> HIDE DEF p, s
<1>2. n * (p - q) = n * p - n * q /\ n * q \in Int /\ n * p \in Int
  BY <1>1
<1>3. n * (p - q) = r - s
  BY <1>1, <1>2
<1>4. CASE p > q
  <2>1. n * (p - q) >= n
    BY <1>1, <1>4
  <2> QED BY <1>1, <1>3, <2>1
<1>5. CASE p < q
  <2>1. n * (p - q) <= -n
    BY <1>1, <1>5
  <2> QED BY <1>1, <1>3, <2>1
<1>6. CASE p = q
  <2>1. r = s
    BY <1>1, <1>6
  <2> QED BY <2>1 DEF s
<1> QED BY <1>1, <1>4, <1>5, <1>6

LEMMA SmallMod ==
  ASSUME NEW n \in Nat \ {0}, NEW x \in Int
  PROVE  /\ 0 <= x /\ x < n => x % n = x
         /\ -n <= x /\ x < 0 => x % n = x + n
         /\ n <= x /\ x < 2 * n => x % n = x - n
<1>1. CASE 0 <= x /\ x < n
  BY <1>1
<1>2. CASE -n <= x /\ x < 0
  BY <1>2
<1>3. CASE n <= x /\ x < 2 * n
  BY <1>3
<1> QED BY <1>1, <1>2, <1>3

LEMMA IndexStep ==
  ASSUME NEW n \in Nat \ {0}, NEW x \in 0..(n - 1)
  PROVE  (x + 1) % n = IF x + 1 = n THEN 0 ELSE x + 1
<1> DEFINE y == x + 1
<1>1. y \in Int /\ 0 <= y /\ (y < n \/ y = n) /\ n < 2 * n
  OBVIOUS
<1> HIDE DEF y
<1>2. y < n => y % n = y
  BY <1>1, SmallMod
<1>3. y = n => y % n = 0
  <2>1. y = n => y % n = y - n
    BY <1>1, SmallMod
  <2> QED BY <1>1, <2>1
<1>4. y % n = IF y = n THEN 0 ELSE y
  BY <1>1, <1>2, <1>3
<1> QED BY <1>4 DEF y

\* Fewer than n steps apart, two counters are at different places of a ring.
LEMMA RingDistinct ==
  ASSUME NEW n \in Nat \ {0}, NEW x \in Int, NEW y \in Int, x < y, y < x + n
  PROVE  x % n # y % n
<1> SUFFICES ASSUME x % n = y % n PROVE FALSE
  OBVIOUS
<1>1. /\ x \div n \in Int /\ x = n * (x \div n) + (x % n)
      /\ y \div n \in Int /\ y = n * (y \div n) + (y % n)
  BY DivMod
<1> DEFINE p == x \div n
           q == y \div n
<1>2. p \in Int /\ q \in Int /\ y - x = n * q - n * p
  BY <1>1, DivMod
<1> HIDE DEF p, q
<1>3. y - x = n * (q - p)
  BY <1>2
<1>4. q - p <= 0 => n * (q - p) <= 0
  BY <1>2
<1>5. q - p >= 1 => n * (q - p) >= n
  BY <1>2
<1> QED BY <1>2, <1>3, <1>4, <1>5

LEMMA WrapKeepsPlace ==
  ASSUME NEW x \in Int, NEW n \in Nat \ {0}, NEW m \in Nat, m % n = 0
  PROVE  (x + m) % n = x % n
<1>1. m \div n \in Int /\ m = n * (m \div n) /\ x \div n \in Int
      /\ x = n * (x \div n) + (x % n) /\ x % n \in 0..(n - 1)
  BY DivMod
<1> DEFINE p == m \div n
           q == x \div n
           r == x % n
<1> HIDE DEF p, q, r
<1>2. x + m = n * (p + q) + r /\ p + q \in Int /\ r \in 0..(n - 1)
  BY <1>1 DEF p, q, r
<1>3. (x + m) % n = r
  BY <1>2, ModIs
<1> QED BY <1>3 DEF r

LEMMA UpTo ==
  ASSUME NEW n \in Nat, NEW i \in 1..n
  PROVE  i < n \/ i = n
OBVIOUS

-----------------------------------------------------------------------------
\* The inductive invariant.

Disjoint(s, t) == Elements(s) \cap Elements(t) = {}

\* s is linked up in the descriptor table, as a driver leaves it: from one of
\* its descriptors to the next, and at the end out of it or back to its head.
Runs(s) ==
  \A i \in DOMAIN s :
    IF i < Len(s) THEN desc[s[i]].more /\ desc[s[i]].next = s[i + 1]
    ELSE desc[s[i]].more => desc[s[i]].next \in {Beyond, s[1]}

\* p are the chains posted, oldest first, one more if a slot is prepared.
Entries(p) ==
  /\ Len(p) = Ahead + (IF prepared THEN 1 ELSE 0)
  /\ \A i \in DOMAIN p : p[i][1] = ring[Slot(i)] /\ Runs(p[i]) /\ Elements(p[i]) \subseteq owned
  /\ \A i, j \in DOMAIN p : i # j => Disjoint(p[i], p[j])

\* The chains being served share nothing, with each other or with p.
Served(p) ==
  /\ \A c \in serving : Elements(c) \subseteq owned /\ \A i \in DOMAIN p : Disjoint(c, p[i])
  /\ \A c, d \in serving : c # d => Disjoint(c, d)

\* pop is somewhere along w, or past its end because w has none.
Along(w) ==
  \/ /\ Len(chain) < Len(w) /\ idx = w[Len(chain) + 1]
     /\ \A i \in 1..Len(chain) : chain[i] = w[i]
  \/ /\ desc[w[Len(w)]].more
     /\ Elements(chain) \subseteq Elements(w)
     /\ idx = Beyond \/ (desc[w[Len(w)]].next = w[1] /\ idx \in Elements(w))

\* w is the chain in hand.
Hand(p, w) ==
  pc = "walk" =>
    /\ w[1] = head /\ Runs(w) /\ Elements(w) \subseteq owned /\ Along(w)
    /\ \A i \in DOMAIN p : Disjoint(w, p[i])
    /\ \A c \in serving : Disjoint(w, c)

\* What the position in pop and the queue's switch imply.
Position ==
  /\ chain \in Seq(Table)
  /\ pc # "walk" => chain = << >>
  /\ pc = "slot" => Ahead > 0
  /\ ~ready => Ahead = 0 /\ ~prepared

QueueInv ==
  /\ TypeOK /\ Position
  /\ \E p \in Seq(Links), w \in Links : Entries(p) /\ Served(p) /\ Hand(p, w)

\* A linked up sequence is a non-empty sequence without repetition.
LEMMA LinksLemma ==
  ASSUME NEW s \in Links
  PROVE  /\ s \in Seq(Table) /\ Len(s) \in 1..N /\ DOMAIN s = 1..Len(s)
         /\ \A i \in 1..Len(s) : s[i] \in Table
         /\ \A i, j \in 1..Len(s) : s[i] = s[j] => i = j
         /\ Elements(s) \subseteq Table
         /\ \A i \in 1..Len(s) : s[i] \in Elements(s)
         /\ \A d \in Elements(s) : \E i \in 1..Len(s) : d = s[i]
<1>1. PICK k \in 1..N : s \in [1..k -> Table]
  BY DEF Links
<1>2. k \in Nat /\ Len(s) = k /\ DOMAIN s = 1..k
  BY <1>1, RingAssumption
<1>3. s \in Seq(Table)
  BY <1>1, <1>2, SeqDef
<1>4. \A i, j \in 1..Len(s) : s[i] = s[j] => i = j
  BY <1>2 DEF Links
<1> QED BY <1>1, <1>2, <1>3, <1>4 DEF Elements

\* Chains that share nothing are no more than there are descriptors.
LEMMA HeadsFit ==
  ASSUME NEW p \in Seq(Links), \A i, j \in DOMAIN p : i # j => Disjoint(p[i], p[j])
  PROVE  Len(p) <= N
<1> DEFINE f == [i \in 1..Len(p) |-> p[i][1]]
<1>1. Len(p) \in Nat /\ DOMAIN p = 1..Len(p) /\ \A i \in 1..Len(p) : p[i] \in Links
  BY LenProperties
<1>2. \A i \in 1..Len(p) : p[i][1] \in Table /\ p[i][1] \in Elements(p[i])
  <2> TAKE i \in 1..Len(p)
  <2>1. p[i] \in Links
    BY <1>1
  <2>2. 1 \in 1..Len(p[i])
    BY <2>1, LinksLemma
  <2> QED BY <2>1, <2>2, LinksLemma
<1>3. f \in [1..Len(p) -> Table]
  BY <1>2
<1>4. \A i, j \in 1..Len(p) : f[i] = f[j] => i = j
  BY <1>1, <1>2 DEF Disjoint
<1>5. /\ IsFiniteSet(1..Len(p)) /\ Cardinality(1..Len(p)) = Len(p)
      /\ IsFiniteSet(Table) /\ Cardinality(Table) = N
  <2>1. IsFiniteSet(1..Len(p)) /\ Cardinality(1..Len(p)) = Len(p)
    BY <1>1, FS_Interval
  <2>2. N \in Nat \ {0} /\ 0 \in Int /\ N - 1 \in Int
    BY RingAssumption
  <2>3. IsFiniteSet(0..(N - 1)) /\ Cardinality(0..(N - 1)) = N
    BY <2>2, FS_Interval
  <2> QED BY <2>1, <2>3 DEF Table
<1> SUFFICES ASSUME ~(Len(p) <= N) PROVE FALSE
  OBVIOUS
<1>6. Cardinality(Table) < Cardinality(1..Len(p))
  BY <1>1, <1>5, RingAssumption
<1> HIDE DEF f
<1>7. \E x, y \in 1..Len(p) : x # y /\ f[x] = f[y]
  BY <1>3, <1>5, <1>6, FS_PigeonHole
<1> QED BY <1>4, <1>7

\* The ring of N entries and its indices.
LEMMA IndexLemma ==
  ASSUME TypeOK
  PROVE  /\ N \in Nat \ {0} /\ IdxMod \in Nat \ {0} /\ 2 * N <= IdxMod
         /\ avail_idx \in 0..(IdxMod - 1) /\ last_avail_idx \in 0..(IdxMod - 1)
         /\ Ahead \in 0..(IdxMod - 1)
         /\ Ahead = IF avail_idx >= last_avail_idx THEN avail_idx - last_avail_idx
                     ELSE avail_idx - last_avail_idx + IdxMod
         /\ \A i \in Int : Slot(i) \in Table
<1>1. N \in Nat \ {0} /\ IdxMod \in Nat \ {0} /\ IdxMod > N /\ IdxMod % N = 0
  BY RingAssumption
<1>2. IdxMod # N * 1 /\ IdxMod # N * 0 /\ IdxMod = N * (IdxMod \div N) /\ IdxMod \div N \in Int
  BY <1>1, DivMod
<1>3. 2 * N <= IdxMod
  <2> DEFINE q == IdxMod \div N
  <2>1. q \in Int /\ IdxMod = N * q
    BY <1>2
  <2> HIDE DEF q
  <2>2. q <= 1 => N * q <= N
    BY <1>1, <2>1
  <2>3. q >= 2 => N * q >= 2 * N
    BY <1>1, <2>1
  <2> QED BY <1>1, <2>1, <2>2, <2>3
<1>4. avail_idx \in 0..(IdxMod - 1) /\ last_avail_idx \in 0..(IdxMod - 1)
  BY DEF TypeOK, Idx
<1>5. Ahead = IF avail_idx >= last_avail_idx THEN avail_idx - last_avail_idx
              ELSE avail_idx - last_avail_idx + IdxMod
  <2> DEFINE d == avail_idx - last_avail_idx
  <2>1. d \in Int /\ -IdxMod <= d /\ d < IdxMod
    BY <1>1, <1>4
  <2>2. Ahead = d % IdxMod
    BY DEF Ahead
  <2>3. d >= 0 => Ahead = d
    BY <1>1, <2>1, <2>2, SmallMod
  <2>4. d < 0 => Ahead = d + IdxMod
    BY <1>1, <2>1, <2>2, SmallMod
  <2> QED BY <1>4, <2>3, <2>4
<1>6. \A i \in Int : Slot(i) \in Table
  <2> TAKE i \in Int
  <2>1. last_avail_idx + i - 1 \in Int
    BY <1>4
  <2> QED BY <1>1, <2>1, DivMod DEF Slot, Table
<1> QED BY <1>1, <1>3, <1>4, <1>5, <1>6

\* The slot after the pending ones is the one the driver writes next, and it
\* is none of theirs.
LEMMA NextSlot ==
  ASSUME TypeOK, Ahead < N
  PROVE  /\ Slot(Ahead + 1) = avail_idx % N
         /\ \A i \in 1..Ahead : Slot(i) # avail_idx % N
<1>1. Slot(Ahead + 1) = avail_idx % N
  <2>1. Slot(Ahead + 1) = (last_avail_idx + Ahead) % N
    <3>1. last_avail_idx + (Ahead + 1) - 1 = last_avail_idx + Ahead
      BY IndexLemma
    <3> QED BY <3>1 DEF Slot
  <2>2. CASE avail_idx >= last_avail_idx
    <3>1. last_avail_idx + Ahead = avail_idx
      BY <2>2, IndexLemma
    <3> QED BY <2>1, <3>1
  <2>3. CASE avail_idx < last_avail_idx
    <3>1. last_avail_idx + Ahead = avail_idx + IdxMod
      BY <2>3, IndexLemma
    <3>2. (avail_idx + IdxMod) % N = avail_idx % N
      BY IndexLemma, RingAssumption, WrapKeepsPlace
    <3> QED BY <2>1, <3>1, <3>2
  <2> QED BY <2>2, <2>3, IndexLemma
<1>2. ASSUME NEW i \in 1..Ahead PROVE Slot(i) # Slot(Ahead + 1)
  <2> DEFINE x == last_avail_idx + i - 1
             y == last_avail_idx + (Ahead + 1) - 1
  <2>1. x \in Int /\ y \in Int /\ x < y /\ y < x + N
    BY IndexLemma
  <2>2. Slot(i) = x % N /\ Slot(Ahead + 1) = y % N
    BY DEF Slot
  <2> HIDE DEF x, y
  <2> QED BY <2>1, <2>2, RingDistinct, IndexLemma
<1> QED BY <1>1, <1>2

\* The driver makes one entry more pending.
LEMMA OneMore ==
  ASSUME TypeOK, Ahead < N, avail_idx' = (avail_idx + 1) % IdxMod, UNCHANGED last_avail_idx
  PROVE  avail_idx' \in Idx /\ Ahead' = Ahead + 1 /\ \A i \in Int : Slot(i)' = Slot(i)
<1>1. avail_idx' = IF avail_idx + 1 = IdxMod THEN 0 ELSE avail_idx + 1
  BY IndexLemma, IndexStep
<1>2. avail_idx' \in 0..(IdxMod - 1)
  BY <1>1, IndexLemma
<1> DEFINE d == avail_idx' - last_avail_idx
<1>3. Ahead' = d % IdxMod
  BY DEF Ahead
<1>4. d \in Int /\ (d = Ahead + 1 \/ d = Ahead + 1 - IdxMod)
  BY <1>1, IndexLemma
<1>5. Ahead + 1 \in Int /\ 0 <= Ahead + 1 /\ Ahead + 1 < IdxMod
  BY IndexLemma
<1> HIDE DEF d
<1>6. Ahead' = Ahead + 1
  BY <1>3, <1>4, <1>5, IndexLemma, SmallMod
<1> QED BY <1>2, <1>6 DEF Idx, Slot

\* pop takes one: the rest move up by one place.
LEMMA OneLess ==
  ASSUME TypeOK, Ahead > 0, last_avail_idx' = (last_avail_idx + 1) % IdxMod, UNCHANGED avail_idx
  PROVE  /\ last_avail_idx' \in Idx /\ Ahead' = Ahead - 1
         /\ \A i \in Int : Slot(i)' = Slot(i + 1)
<1>1. last_avail_idx' = IF last_avail_idx + 1 = IdxMod THEN 0 ELSE last_avail_idx + 1
  BY IndexLemma, IndexStep
<1>2. last_avail_idx' \in 0..(IdxMod - 1)
  BY <1>1, IndexLemma
<1> DEFINE d == avail_idx - last_avail_idx'
<1>3. Ahead' = d % IdxMod
  BY DEF Ahead
<1>4. d \in Int /\ (d = Ahead - 1 \/ d = Ahead - 1 - IdxMod \/ d = Ahead - 1 + IdxMod)
  BY <1>1, IndexLemma
<1>5. Ahead - 1 \in Int /\ 0 <= Ahead - 1 /\ Ahead - 1 < IdxMod
  BY IndexLemma
<1> HIDE DEF d
<1>6. Ahead' = Ahead - 1
  BY <1>3, <1>4, <1>5, IndexLemma, SmallMod
<1>7. ASSUME NEW i \in Int PROVE Slot(i)' = Slot(i + 1)
  <2>1. Slot(i + 1) = (last_avail_idx + i) % N
    <3>1. last_avail_idx + (i + 1) - 1 = last_avail_idx + i
      BY IndexLemma
    <3> QED BY <3>1 DEF Slot
  <2>2. Slot(i)' = (last_avail_idx' + i - 1) % N
    BY DEF Slot
  <2>3. CASE last_avail_idx' = last_avail_idx + 1
    <3>1. last_avail_idx' + i - 1 = last_avail_idx + i
      BY <2>3, IndexLemma
    <3> QED BY <2>1, <2>2, <3>1
  <2>4. CASE last_avail_idx' = 0 /\ last_avail_idx + 1 = IdxMod
    <3>1. i - 1 \in Int /\ last_avail_idx + i = (i - 1) + IdxMod /\ last_avail_idx' + i - 1 = i - 1
      BY <2>4, IndexLemma
    <3>2. ((i - 1) + IdxMod) % N = (i - 1) % N
      BY <3>1, IndexLemma, RingAssumption, WrapKeepsPlace
    <3> QED BY <2>1, <2>2, <3>1, <3>2
  <2> QED BY <1>1, <2>3, <2>4
<1> QED BY <1>2, <1>6, <1>7 DEF Idx

-----------------------------------------------------------------------------
\* The steps.

Descriptors == [next : Table \cup {Beyond}, more : BOOLEAN]

\* Where the table is not written, what was linked up stays so.
LEMMA RunsKept ==
  ASSUME NEW s \in Links, Runs(s), \A d \in Elements(s) : desc'[d] = desc[d]
  PROVE  Runs(s)'
BY LinksLemma DEF Runs

\* What the driver writes for s: all of its descriptors and no other.
LEMMA PrepareLemma ==
  ASSUME TypeOK, NEW s \in Links, NEW ending \in {"end", "beyond", "loop"}, Prepare(s, ending)
  PROVE  /\ desc' \in [Table -> Descriptors]
         /\ \A d \in Table : d \notin Elements(s) => desc'[d] = desc[d]
         /\ Runs(s)'
<1> DEFINE last == Len(s)
           link(i) ==
             IF i < last THEN [next |-> s[i + 1], more |-> TRUE]
             ELSE CASE ending = "end"    -> [next |-> 0, more |-> FALSE]
                    [] ending = "beyond" -> [next |-> Beyond, more |-> TRUE]
                    [] ending = "loop"   -> [next |-> s[1], more |-> TRUE]
           at(d) == CHOOSE i \in DOMAIN s : s[i] = d
<1>1. desc' = [d \in Table |-> IF d \in Elements(s) THEN link(at(d)) ELSE desc[d]]
  BY DEF Prepare
<1>2. \A i \in 1..last : at(s[i]) = i
  BY LinksLemma
<1>3. \A d \in Elements(s) : \E i \in 1..last : d = s[i]
  BY LinksLemma
<1>4. \A i \in 1..last : s[i] \in Table /\ s[i] \in Elements(s)
  BY LinksLemma
<1>5. last \in Nat /\ last >= 1 /\ DOMAIN s = 1..last /\ 0 \in Table
  BY LinksLemma, RingAssumption DEF Table
<1>6. \A i \in 1..last : i < last => link(i) = [next |-> s[i + 1], more |-> TRUE] /\ s[i + 1] \in Table
  BY <1>4, <1>5
<1>7. link(last) \in {[next |-> 0, more |-> FALSE], [next |-> Beyond, more |-> TRUE],
                      [next |-> s[1], more |-> TRUE]}
  <2>1. CASE ending = "end"
    BY <1>5, <2>1
  <2>2. CASE ending = "beyond"
    BY <1>5, <2>2
  <2>3. CASE ending = "loop"
    BY <1>5, <2>3
  <2> QED BY <2>1, <2>2, <2>3
<1> HIDE DEF link, at, last
<1>8. \A i \in 1..last : link(i) \in Descriptors
  <2>1. \A a \in Table \cup {Beyond} :
           [next |-> a, more |-> TRUE] \in Descriptors /\ [next |-> a, more |-> FALSE] \in Descriptors
    BY DEF Descriptors
  <2> TAKE i \in 1..last
  <2>2. CASE i < last
    <3>1. s[i + 1] \in Table \cup {Beyond}
      BY <1>6, <2>2
    <3> QED BY <1>6, <2>1, <2>2, <3>1
  <2>3. CASE i = last
    <3>1. 0 \in Table \cup {Beyond} /\ s[1] \in Table \cup {Beyond} /\ Beyond \in Table \cup {Beyond}
      BY <1>4, <1>5
    <3> QED BY <1>7, <2>1, <2>3, <3>1
  <2> QED BY <1>5, <2>2, <2>3
<1>9. \A i \in 1..last : desc'[s[i]] = link(i)
  BY <1>1, <1>2, <1>4
<1>10. desc \in [Table -> Descriptors]
  BY DEF TypeOK, Descriptors
<1>11. \A d \in Table : desc'[d] \in Descriptors
  <2> TAKE d \in Table
  <2>1. CASE d \in Elements(s)
    BY <1>3, <1>8, <1>9, <2>1
  <2>2. CASE d \notin Elements(s)
    BY <1>1, <1>10, <2>2
  <2> QED BY <2>1, <2>2
<1>12. desc' \in [Table -> Descriptors]
  BY <1>1, <1>11
<1>13. Runs(s)'
  <2> SUFFICES ASSUME NEW i \in 1..last
               PROVE  IF i < last THEN desc'[s[i]].more /\ desc'[s[i]].next = s[i + 1]
                      ELSE desc'[s[i]].more => desc'[s[i]].next \in {Beyond, s[1]}
    BY <1>5 DEF Runs, last
  <2>1. CASE i < last
    BY <1>6, <1>9, <2>1
  <2>2. CASE i = last
    BY <1>5, <1>7, <1>9, <2>2
  <2> QED BY <1>5, <2>1, <2>2
<1> QED BY <1>1, <1>12, <1>13

\* Parts of the invariant that a step leaves alone.
LEMMA EntriesFrame ==
  ASSUME NEW p, UNCHANGED <<desc, ring, avail_idx, last_avail_idx, prepared, owned>>, Entries(p)
  PROVE  Entries(p)'
BY DEF Entries, Ahead, Slot, Runs

LEMMA ServedFrame ==
  ASSUME NEW p, UNCHANGED <<serving, owned>>, Served(p)
  PROVE  Served(p)'
BY DEF Served

LEMMA HandFrame ==
  ASSUME NEW p, NEW w, UNCHANGED <<desc, head, idx, chain, pc, serving, owned>>, Hand(p, w)
  PROVE  Hand(p, w)'
BY DEF Hand, Runs, Along

\* All but the position of pop survives a step that leaves memory, indices and
\* the driver alone.
LEMMA PopFrame ==
  ASSUME NEW p \in Seq(Links), NEW w \in Links,
         UNCHANGED <<memory, last_avail_idx, ready, driver, serving>>,
         Entries(p), Served(p), Hand(p, w)', TypeOK', Position'
  PROVE  QueueInv'
BY EntriesFrame, ServedFrame DEF QueueInv, memory, driver

LEMMA EnableStep == QueueInv /\ Enable => QueueInv'
<1> SUFFICES ASSUME QueueInv, Enable PROVE QueueInv'
  OBVIOUS
<1>1. PICK p \in Seq(Links), w \in Links : Entries(p) /\ Served(p) /\ Hand(p, w)
  BY DEF QueueInv
<1>2. TypeOK' /\ Position'
  BY DEF QueueInv, TypeOK, Position, Enable, memory, driver, Ahead
<1>3. Entries(p)' /\ Served(p)' /\ Hand(p, w)'
  BY <1>1, EntriesFrame, ServedFrame, HandFrame DEF Enable, memory, driver
<1> QED BY <1>2, <1>3 DEF QueueInv

\* A chain of free descriptors shares nothing with those posted, and since
\* there are at most N such, it finds the ring with room for it.
LEMMA RoomLemma ==
  ASSUME TypeOK, ~prepared, NEW p \in Seq(Links), Entries(p),
         NEW s \in Links, Elements(s) \cap owned = {},
         NEW q, q = Append(p, s)
  PROVE  /\ Len(p) = Ahead /\ Len(p) < N
         /\ \A i, j \in DOMAIN q : i # j => Disjoint(q[i], q[j])
<1> DEFINE n == Len(p)
<1>1. n = Ahead /\ n \in Nat /\ DOMAIN p = 1..n
  BY IndexLemma, LenProperties DEF Entries
<1>2. /\ q \in Seq(Links) /\ Len(q) = n + 1 /\ DOMAIN q = 1..(n + 1)
      /\ (\A i \in 1..n : q[i] = p[i]) /\ q[n + 1] = s
  <2>1. q \in Seq(Links) /\ Len(q) = n + 1 /\ (\A i \in 1..n : q[i] = p[i]) /\ q[n + 1] = s
    BY AppendProperties
  <2> QED BY <2>1, LenProperties
<1> HIDE DEF n
<1>3. \A i \in 1..n : /\ Elements(p[i]) \subseteq owned
                      /\ \A j \in 1..n : i # j => Disjoint(p[i], p[j])
  BY <1>1 DEF Entries
<1>4. \A i, j \in 1..(n + 1) : i # j => Disjoint(q[i], q[j])
  <2> TAKE i, j \in 1..(n + 1)
  <2>1. CASE i \in 1..n /\ j \in 1..n
    BY <1>2, <1>3, <2>1
  <2>2. CASE i = n + 1 /\ j \in 1..n
    BY <1>2, <1>3, <2>2 DEF Disjoint
  <2>3. CASE i \in 1..n /\ j = n + 1
    BY <1>2, <1>3, <2>3 DEF Disjoint
  <2> QED BY <1>1, <2>1, <2>2, <2>3
<1>5. n < N
  BY <1>1, <1>2, <1>4, HeadsFit, RingAssumption
<1> QED BY <1>1, <1>2, <1>4, <1>5 DEF n

LEMMA PrepareStep ==
  ASSUME QueueInv, NEW s \in Links, NEW ending \in {"end", "beyond", "loop"}, Prepare(s, ending)
  PROVE  QueueInv'
<1>1. PICK p \in Seq(Links), w \in Links : Entries(p) /\ Served(p) /\ Hand(p, w)
  BY DEF QueueInv
<1> DEFINE q == Append(p, s)
           n == Len(p)
<1>2. /\ TypeOK /\ Position /\ ready /\ ~prepared /\ prepared' /\ Elements(s) \cap owned = {}
      /\ ring' = [ring EXCEPT ![avail_idx % N] = s[1]] /\ owned' = owned \cup Elements(s)
      /\ UNCHANGED <<avail_idx, mapped, ready, last_avail_idx, pc, head, idx, chain, answer, serving>>
  BY DEF QueueInv, Prepare
<1>3. /\ n = Ahead /\ n \in Nat /\ DOMAIN p = 1..n
      /\ q \in Seq(Links) /\ Len(q) = n + 1 /\ DOMAIN q = 1..(n + 1)
      /\ \A i \in 1..n : q[i] = p[i] /\ p[i] \in Links
      /\ q[n + 1] = s
  <2>1. n = Ahead
    BY <1>1, <1>2, IndexLemma DEF Entries
  <2>2. q \in Seq(Links) /\ Len(q) = n + 1 /\ (\A i \in 1..n : q[i] = p[i]) /\ q[n + 1] = s
    BY AppendProperties
  <2> QED BY <2>1, <2>2, LenProperties
<1> HIDE DEF q, n
<1>4. \A i \in 1..n : /\ p[i][1] = ring[Slot(i)] /\ Runs(p[i])
                      /\ Elements(p[i]) \subseteq owned
                      /\ \A j \in 1..n : i # j => Disjoint(p[i], p[j])
  BY <1>1, <1>3 DEF Entries
<1>5. \A i, j \in 1..(n + 1) : i # j => Disjoint(q[i], q[j])
  BY <1>1, <1>2, <1>3, RoomLemma DEF q
<1>6. n < N
  BY <1>1, <1>2, RoomLemma DEF n
<1>7. /\ desc' \in [Table -> Descriptors] /\ Runs(s)'
      /\ \A d \in Table : d \notin Elements(s) => desc'[d] = desc[d]
  BY <1>2, PrepareLemma
<1>8. Slot(n + 1) = avail_idx % N /\ \A i \in 1..n : Slot(i) # avail_idx % N
  BY <1>2, <1>3, <1>6, NextSlot
<1>9. /\ ring \in [Table -> Table] /\ s[1] \in Table /\ avail_idx % N \in Table
      /\ \A i \in 1..n : Slot(i) \in Table
  <2>1. 1 \in 1..Len(s)
    BY LinksLemma
  <2>2. s[1] \in Table
    BY <2>1, LinksLemma
  <2>3. \A i \in Int : Slot(i) \in Table
    BY <1>2, IndexLemma
  <2>4. n + 1 \in Int /\ \A i \in 1..n : i \in Int
    BY <1>3
  <2> QED BY <1>2, <1>8, <2>2, <2>3, <2>4 DEF TypeOK
<1>10. TypeOK'
  <2>1. ring' \in [Table -> Table]
    BY <1>2, <1>9
  <2>2. owned' \subseteq Table
    BY <1>2, LinksLemma DEF TypeOK
  <2> QED BY <1>2, <1>7, <2>1, <2>2 DEF TypeOK, Descriptors
<1>11. Position'
  BY <1>2 DEF Position, Ahead
<1>12. \A c \in Links : Runs(c) /\ Elements(c) \subseteq owned => Runs(c)'
  BY <1>2, <1>7, RunsKept, LinksLemma
<1>13. Entries(q)'
  <2>1. Len(q) = Ahead' + 1
    BY <1>2, <1>3 DEF Ahead
  <2>2. ASSUME NEW i \in 1..(n + 1)
        PROVE  q[i][1] = ring'[Slot(i)'] /\ Runs(q[i])' /\ Elements(q[i]) \subseteq owned'
    <3>1. Slot(i)' = Slot(i)
      BY <1>2 DEF Slot
    <3>2. CASE i \in 1..n
      BY <1>2, <1>3, <1>4, <1>8, <1>9, <1>12, <3>1, <3>2
    <3>3. CASE i = n + 1
      BY <1>2, <1>3, <1>7, <1>8, <1>9, <3>1, <3>3
    <3> QED BY <1>3, <3>2, <3>3
  <2> QED BY <1>2, <1>3, <1>5, <2>1, <2>2 DEF Entries
<1>14. Served(q)'
  <2>1. ASSUME NEW c \in serving, NEW i \in 1..(n + 1) PROVE Disjoint(c, q[i])
    <3>1. CASE i \in 1..n
      BY <1>1, <1>3, <3>1 DEF Served
    <3>2. CASE i = n + 1
      BY <1>1, <1>2, <1>3, <3>2 DEF Served, Disjoint
    <3> QED BY <1>3, <3>1, <3>2
  <2> QED BY <1>1, <1>2, <1>3, <2>1 DEF Served
<1>15. Hand(q, w)'
  <2> SUFFICES ASSUME pc = "walk" PROVE Hand(q, w)'
    BY <1>2 DEF Hand
  <2>1. /\ w[1] = head /\ Runs(w) /\ Elements(w) \subseteq owned /\ Along(w)
        /\ \A i \in 1..n : Disjoint(w, p[i])
        /\ \A c \in serving : Disjoint(w, c)
    BY <1>1, <1>3 DEF Hand
  <2>2. ASSUME NEW i \in 1..(n + 1) PROVE Disjoint(w, q[i])
    <3>1. CASE i \in 1..n
      BY <1>3, <2>1, <3>1
    <3>2. CASE i = n + 1
      BY <1>2, <1>3, <2>1, <3>2 DEF Disjoint
    <3> QED BY <1>3, <3>1, <3>2
  <2>3. Along(w)'
    <3>1. Len(w) \in 1..Len(w) /\ w[Len(w)] \in Elements(w) /\ w[Len(w)] \in Table
      BY LinksLemma
    <3>2. desc'[w[Len(w)]] = desc[w[Len(w)]]
      BY <1>2, <1>7, <2>1, <3>1
    <3> QED BY <1>2, <2>1, <3>2 DEF Along
  <2> QED BY <1>2, <1>3, <1>12, <2>1, <2>2, <2>3 DEF Hand
<1> QED BY <1>3, <1>10, <1>11, <1>13, <1>14, <1>15 DEF QueueInv

LEMMA PublishStep == QueueInv /\ Publish => QueueInv'
<1> SUFFICES ASSUME QueueInv, Publish PROVE QueueInv'
  OBVIOUS
<1>1. PICK p \in Seq(Links), w \in Links : Entries(p) /\ Served(p) /\ Hand(p, w)
  BY DEF QueueInv
<1>2. /\ TypeOK /\ Position /\ prepared /\ ~prepared'
      /\ avail_idx' = (avail_idx + 1) % IdxMod
      /\ UNCHANGED <<desc, ring, mapped, ready, last_avail_idx, pc, head, idx, chain, answer, owned, serving>>
  BY DEF QueueInv, Publish
<1>3. Len(p) = Ahead + 1 /\ Len(p) <= N
  BY <1>1, <1>2, HeadsFit DEF Entries
<1>4. avail_idx' \in Idx /\ Ahead' = Ahead + 1 /\ \A i \in Int : Slot(i)' = Slot(i)
  <2>1. Ahead < N
    BY <1>2, <1>3, IndexLemma
  <2> QED BY <1>2, <2>1, OneMore
<1>5. TypeOK'
  <2>1. prepared' \in BOOLEAN
    BY DEF Publish
  <2> QED BY <1>2, <1>4, <2>1 DEF TypeOK
<1>6. Position'
  <2>1. ready /\ Ahead' > 0
    BY <1>2, <1>4, IndexLemma DEF Position
  <2> QED BY <1>2, <2>1 DEF Position
<1>7. Entries(p)'
  <2>1. DOMAIN p = 1..Len(p) /\ Len(p) \in Nat
    BY LenProperties
  <2>2. \A i \in DOMAIN p : Slot(i)' = Slot(i)
    BY <1>4, <2>1
  <2>3. Len(p) = Ahead' + 0
    BY <1>2, <1>3, <1>4, IndexLemma
  <2> QED BY <1>1, <1>2, <2>2, <2>3 DEF Entries, Runs
<1>8. Served(p)' /\ Hand(p, w)'
  BY <1>1, <1>2, ServedFrame, HandFrame
<1> QED BY <1>5, <1>6, <1>7, <1>8 DEF QueueInv

\* pop looks, or gives up before it has taken an entry.
LEMMA LookStep ==
  QueueInv /\ (NothingPending \/ FindRequest \/ Unreadable) => QueueInv'
<1> SUFFICES ASSUME QueueInv, NothingPending \/ FindRequest \/ Unreadable PROVE QueueInv'
  OBVIOUS
<1>1. PICK p \in Seq(Links), w \in Links : Entries(p) /\ Served(p) /\ Hand(p, w)
  BY DEF QueueInv
<1>2. /\ TypeOK /\ Position /\ pc \in {"idle", "slot"}
      /\ UNCHANGED <<memory, last_avail_idx, ready, driver, serving>>
  BY DEF QueueInv, NothingPending, FindRequest, Unreadable
<1>3. chain = << >> /\ 0 \in Table /\ << >> \in Seq(Table) /\ Len(<< >>) = 0 /\ Elements(<< >>) = {}
  BY <1>2, RingAssumption, EmptySeq DEF Position, Table, Elements
<1>4. CASE NothingPending \/ Unreadable
  <2>1. /\ pc' = "idle" /\ head' = 0 /\ idx' = 0 /\ chain' = << >>
        /\ answer' \in {NoRequest, Failed}
    BY <1>4 DEF NothingPending, Unreadable, Return
  <2>2. TypeOK'
    BY <1>2, <1>3, <2>1, RingAssumption DEF TypeOK, memory, driver
  <2>3. Position' /\ Hand(p, w)'
    BY <1>2, <1>3, <2>1 DEF Position, Hand, Ahead, memory, driver
  <2> QED BY <1>1, <1>2, <2>2, <2>3, PopFrame
<1>5. CASE FindRequest
  <2>1. /\ pc = "idle" /\ ready /\ avail_idx # last_avail_idx /\ pc' = "slot"
        /\ UNCHANGED <<head, idx, chain, answer>>
    BY <1>5 DEF FindRequest
  <2>2. TypeOK'
    BY <1>2, <2>1 DEF TypeOK, memory, driver
  <2>3. Ahead > 0
    BY <1>2, <2>1, IndexLemma
  <2>4. Position' /\ Hand(p, w)'
    BY <1>2, <1>3, <2>1, <2>3 DEF Position, Hand, Ahead, memory, driver
  <2> QED BY <1>1, <1>2, <2>2, <2>4, PopFrame
<1> QED BY <1>4, <1>5

\* The oldest of the pending chains comes in hand.
LEMMA TakeStep == QueueInv /\ TakeSlot => QueueInv'
<1> SUFFICES ASSUME QueueInv, TakeSlot PROVE QueueInv'
  OBVIOUS
<1>1. PICK p \in Seq(Links), w \in Links : Entries(p) /\ Served(p) /\ Hand(p, w)
  BY DEF QueueInv
<1> DEFINE q == Tail(p)
           v == p[1]
           n == Len(p)
<1>2. /\ TypeOK /\ Position /\ pc = "slot" /\ chain = << >> /\ Ahead > 0
      /\ head' = ring[last_avail_idx % N] /\ idx' = head' /\ pc' = "walk"
      /\ last_avail_idx' = (last_avail_idx + 1) % IdxMod
      /\ UNCHANGED <<desc, ring, avail_idx, mapped, ready, chain, answer, prepared, owned, serving>>
  BY DEF QueueInv, TakeSlot, Position, memory, driver
<1>3. /\ last_avail_idx' \in Idx /\ Ahead' = Ahead - 1
      /\ \A i \in Int : Slot(i)' = Slot(i + 1)
  BY <1>2, OneLess
<1>4. n = Ahead + (IF prepared THEN 1 ELSE 0) /\ n \in Nat /\ n > 0 /\ DOMAIN p = 1..n
  BY <1>1, <1>2, IndexLemma, LenProperties DEF Entries
<1>5. /\ \A i \in 1..n : p[i] \in Links
      /\ q \in Seq(Links) /\ Len(q) = n - 1 /\ DOMAIN q = 1..(n - 1)
      /\ \A i \in 1..(n - 1) : q[i] = p[i + 1]
  <2>1. p # << >> /\ \A i \in 1..n : p[i] \in Links
    BY <1>4, EmptySeq, ElementOfSeq
  <2>2. q \in Seq(Links) /\ Len(q) = n - 1 /\ \A i \in 1..Len(q) : q[i] = p[i + 1]
    BY <2>1, HeadTailProperties
  <2> QED BY <2>1, <2>2, LenProperties
<1>6. \A i \in 1..n : /\ p[i][1] = ring[Slot(i)] /\ Runs(p[i])
                      /\ Elements(p[i]) \subseteq owned
                      /\ \A j \in 1..n : i # j => Disjoint(p[i], p[j])
                      /\ \A c \in serving : Disjoint(c, p[i])
  BY <1>1, <1>4 DEF Entries, Served
<1> HIDE DEF q, n
<1>7. 1 \in 1..n /\ v \in Links /\ \A i \in 1..(n - 1) : i + 1 \in 1..n /\ i + 1 # 1 /\ i \in Int
  BY <1>4, <1>5
<1>8. head' = v[1] /\ v[1] \in Table /\ Len(v) \in 1..N
  <2>1. Slot(1) = last_avail_idx % N
    <3>1. last_avail_idx + 1 - 1 = last_avail_idx
      BY <1>2, IndexLemma
    <3> QED BY <3>1 DEF Slot
  <2>2. 1 \in 1..Len(v)
    BY <1>7, LinksLemma
  <2> QED BY <1>2, <1>6, <1>7, <2>1, <2>2, LinksLemma
<1>9. TypeOK'
  BY <1>2, <1>3, <1>8 DEF TypeOK
<1>10. Position'
  <2>1. ready
    BY <1>2, IndexLemma DEF Position
  <2> QED BY <1>2, <2>1 DEF Position
<1>11. Entries(q)'
  <2>1. Len(q) = Ahead' + (IF prepared THEN 1 ELSE 0)
    <3> DEFINE k == IF prepared THEN 1 ELSE 0
    <3>1. k \in {0, 1}
      OBVIOUS
    <3>2. n = Ahead + k /\ Ahead' = Ahead - 1 /\ Len(q) = n - 1 /\ n \in Nat /\ Ahead \in Int
      BY <1>2, <1>3, <1>4, <1>5, IndexLemma
    <3> HIDE DEF k, q, n
    <3>3. Len(q) = Ahead' + k
      BY <3>1, <3>2
    <3> QED BY <3>3 DEF k
  <2>2. ASSUME NEW i \in 1..(n - 1)
        PROVE  /\ q[i][1] = ring[Slot(i)'] /\ Runs(q[i]) /\ Elements(q[i]) \subseteq owned
               /\ \A j \in 1..(n - 1) : i # j => Disjoint(q[i], q[j])
    <3>1. Slot(i)' = Slot(i + 1) /\ q[i] = p[i + 1] /\ i + 1 \in 1..n
      BY <1>3, <1>5, <1>7
    <3>2. \A j \in 1..(n - 1) : q[j] = p[j + 1] /\ j + 1 \in 1..n /\ (i # j => i + 1 # j + 1)
      BY <1>5, <1>7
    <3> QED BY <1>6, <3>1, <3>2
  <2> QED BY <1>2, <1>5, <2>1, <2>2 DEF Entries, Runs
<1>12. Served(q)'
  <2>1. \A c \in serving, i \in 1..(n - 1) : Disjoint(c, q[i])
    BY <1>5, <1>6, <1>7
  <2> QED BY <1>1, <1>2, <1>5, <2>1 DEF Served
<1>13. Hand(q, v)'
  <2>1. Along(v)'
    <3>1. Len(chain) = 0
      BY <1>2, EmptySeq
    <3> QED BY <1>2, <1>8, <3>1 DEF Along
  <2>2. \A i \in 1..(n - 1) : Disjoint(v, q[i])
    BY <1>5, <1>6, <1>7
  <2>3. \A c \in serving : Disjoint(v, c)
    BY <1>6, <1>7 DEF Disjoint
  <2> QED BY <1>2, <1>5, <1>6, <1>7, <1>8, <2>1, <2>2, <2>3 DEF Hand, Runs
<1> QED BY <1>5, <1>7, <1>9, <1>10, <1>11, <1>12, <1>13 DEF QueueInv

\* What pop finds at the descriptor it is at.
LEMMA WalkLemma ==
  ASSUME TypeOK, Position, NEW w \in Links, Runs(w), Along(w), Inside
  PROVE  /\ idx \in Table /\ idx \in Elements(w) /\ Elements(chain) \subseteq Elements(w)
         /\ ~desc[idx].more => Append(chain, idx) = w
<1>1. /\ chain \in Seq(Table) /\ Len(chain) \in Nat /\ Len(chain) < N /\ idx \in Table
      /\ DOMAIN chain = 1..Len(chain)
  BY LenProperties DEF TypeOK, Position, Inside
<1>2. CASE /\ Len(chain) < Len(w) /\ idx = w[Len(chain) + 1]
           /\ \A i \in 1..Len(chain) : chain[i] = w[i]
  <2>1. Len(w) \in Nat /\ DOMAIN w = 1..Len(w) /\ Len(chain) + 1 \in 1..Len(w)
    BY <1>1, <1>2, LinksLemma
  <2>2. idx \in Elements(w) /\ Elements(chain) \subseteq Elements(w)
    <3>1. \A i \in 1..Len(chain) : i \in 1..Len(w) /\ chain[i] \in Elements(w)
      BY <1>1, <1>2, <2>1, LinksLemma
    <3> QED BY <1>1, <1>2, <2>1, <3>1, LinksLemma DEF Elements
  <2>3. ASSUME ~desc[idx].more PROVE Append(chain, idx) = w
    <3>1. Len(chain) + 1 = Len(w)
      <4>1. \A i \in 1..Len(w) : i < Len(w) => desc[w[i]].more
        BY <2>1 DEF Runs
      <4>2. ~(Len(chain) + 1 < Len(w))
        BY <1>2, <2>1, <2>3, <4>1, Zenon
      <4> QED BY <2>1, <4>2, UpTo, Zenon
    <3> DEFINE a == Append(chain, idx)
    <3>2. /\ a \in Seq(Table) /\ Len(a) = Len(chain) + 1 /\ a[Len(chain) + 1] = idx
          /\ \A i \in 1..Len(chain) : a[i] = chain[i]
      BY <1>1, AppendProperties
    <3> HIDE DEF a
    <3>3. \A i \in 1..Len(a) : a[i] = w[i]
      BY <1>1, <1>2, <3>2
    <3>4. w \in Seq(Table) /\ Len(a) = Len(w)
      BY <3>1, <3>2, LinksLemma
    <3>5. a = w
      BY <3>2, <3>3, <3>4, SeqEqual
    <3> QED BY <3>5 DEF a
  <2> QED BY <1>1, <2>2, <2>3
<1>3. CASE /\ desc[w[Len(w)]].more
           /\ Elements(chain) \subseteq Elements(w)
           /\ idx = Beyond \/ (desc[w[Len(w)]].next = w[1] /\ idx \in Elements(w))
  <2>1. idx \in Elements(w)
    BY <1>3 DEF Inside
  <2>2. PICK i \in 1..Len(w) : idx = w[i]
    BY <2>1, LinksLemma
  <2>3. desc[idx].more
    <3>1. Len(w) \in Nat /\ DOMAIN w = 1..Len(w) /\ (i < Len(w) \/ i = Len(w))
      BY LinksLemma
    <3> QED BY <1>3, <2>2, <3>1 DEF Runs
  <2> QED BY <1>1, <1>3, <2>1, <2>3
<1> QED BY <1>2, <1>3 DEF Along

LEMMA FollowStep == QueueInv /\ Follow => QueueInv'
<1> SUFFICES ASSUME QueueInv, Follow PROVE QueueInv'
  OBVIOUS
<1>1. PICK p \in Seq(Links), w \in Links : Entries(p) /\ Served(p) /\ Hand(p, w)
  BY DEF QueueInv
<1>2. /\ TypeOK /\ Position /\ pc = "walk" /\ Inside /\ desc[idx].more
      /\ chain' = Append(chain, idx) /\ idx' = desc[idx].next
      /\ UNCHANGED <<pc, head, answer>>
      /\ UNCHANGED <<memory, last_avail_idx, ready, driver, serving>>
  BY DEF QueueInv, Follow
<1>3. /\ w[1] = head /\ Runs(w) /\ Elements(w) \subseteq owned /\ Along(w)
      /\ \A i \in DOMAIN p : Disjoint(w, p[i])
      /\ \A c \in serving : Disjoint(w, c)
  BY <1>1, <1>2 DEF Hand
<1>4. idx \in Table /\ idx \in Elements(w) /\ Elements(chain) \subseteq Elements(w)
  BY <1>2, <1>3, WalkLemma
<1>5. /\ chain \in Seq(Table) /\ Len(chain) \in Nat /\ Len(chain) < N
      /\ chain' \in Seq(Table) /\ Len(chain') = Len(chain) + 1
      /\ DOMAIN chain = 1..Len(chain) /\ DOMAIN chain' = 1..(Len(chain) + 1)
      /\ \A i \in 1..Len(chain) : chain'[i] = chain[i]
      /\ chain'[Len(chain) + 1] = idx
  <2>1. chain \in Seq(Table) /\ Len(chain) < N
    BY <1>2 DEF Position, Inside
  <2> QED BY <1>2, <1>4, <2>1, AppendProperties, LenProperties
<1>6. Elements(chain') = Elements(chain) \cup {idx}
  <2>1. \A i \in 1..(Len(chain) + 1) : i \in 1..Len(chain) \/ i = Len(chain) + 1
    BY <1>5
  <2>2. Len(chain) + 1 \in 1..(Len(chain) + 1) /\ \A i \in 1..Len(chain) : i \in 1..(Len(chain) + 1)
    BY <1>5
  <2> QED BY <1>5, <2>1, <2>2 DEF Elements
<1>7. Along(w)'
  <2>1. Len(w) \in Nat /\ Len(w) >= 1 /\ DOMAIN w = 1..Len(w) /\ UNCHANGED desc
    BY <1>2, LinksLemma DEF memory
  <2>2. ASSUME NEW i \in 1..Len(w), idx = w[i], i = Len(w)
        PROVE  Along(w)'
    <3>1. desc[w[Len(w)]].more /\ desc[w[Len(w)]].next \in {Beyond, w[1]}
      BY <1>2, <1>3, <2>1, <2>2 DEF Runs
    <3>2. w[1] \in Elements(w)
      BY <2>1, LinksLemma
    <3> QED BY <1>2, <1>4, <1>6, <2>1, <2>2, <3>1, <3>2 DEF Along
  <2>3. CASE /\ Len(chain) < Len(w) /\ idx = w[Len(chain) + 1]
             /\ \A i \in 1..Len(chain) : chain[i] = w[i]
    <3>1. Len(chain) + 1 \in 1..Len(w)
      BY <1>5, <2>1, <2>3
    <3>2. CASE Len(chain) + 1 < Len(w)
      <4>1. idx' = w[Len(chain') + 1]
        <5>1. desc[w[Len(chain) + 1]].next = w[Len(chain) + 1 + 1]
          BY <1>3, <2>1, <3>1, <3>2 DEF Runs
        <5> QED BY <1>2, <1>5, <2>3, <5>1
      <4>2. \A i \in 1..Len(chain') : chain'[i] = w[i]
        BY <1>5, <2>3
      <4> QED BY <1>5, <3>2, <4>1, <4>2 DEF Along
    <3>3. CASE Len(chain) + 1 = Len(w)
      BY <2>2, <2>3, <3>1, <3>3
    <3>4. Len(chain) + 1 < Len(w) \/ Len(chain) + 1 = Len(w)
      BY <2>1, <3>1, UpTo, Zenon
    <3> QED BY <3>2, <3>3, <3>4, Zenon
  <2>4. CASE /\ desc[w[Len(w)]].more
             /\ Elements(chain) \subseteq Elements(w)
             /\ idx = Beyond \/ (desc[w[Len(w)]].next = w[1] /\ idx \in Elements(w))
    <3>1. PICK i \in 1..Len(w) : idx = w[i]
      BY <1>4, LinksLemma
    <3>2. CASE i = Len(w)
      BY <2>2, <3>1, <3>2
    <3>3. CASE i < Len(w)
      <4>1. i + 1 \in 1..Len(w) /\ desc[w[i]].next = w[i + 1]
        BY <1>3, <2>1, <3>3 DEF Runs
      <4>2. idx' \in Elements(w)
        BY <1>2, <3>1, <4>1, LinksLemma
      <4>3. desc[w[Len(w)]].next = w[1]
        BY <1>2, <2>4 DEF Inside
      <4> QED BY <1>4, <1>6, <2>1, <2>4, <4>2, <4>3 DEF Along
    <3>4. i < Len(w) \/ i = Len(w)
      BY <2>1, UpTo, Zenon
    <3> QED BY <3>2, <3>3, <3>4, Zenon
  <2> QED BY <1>3, <2>3, <2>4 DEF Along
<1>8. Hand(p, w)'
  BY <1>2, <1>3, <1>7 DEF Hand, Runs, memory, driver
<1>9. TypeOK'
  <2>1. idx' \in Table \cup {Beyond}
    BY <1>2, <1>4 DEF TypeOK
  <2>2. Len(chain') <= N
    BY <1>5, RingAssumption
  <2>3. Elements(chain') \subseteq Table
    BY <1>2, <1>4, <1>6 DEF TypeOK
  <2> QED BY <1>2, <2>1, <2>2, <2>3 DEF TypeOK, memory, driver
<1>10. Position'
  BY <1>2, <1>5 DEF Position, Ahead, memory, driver
<1> QED BY <1>1, <1>2, <1>8, <1>9, <1>10, PopFrame

LEMMA FinishStep == QueueInv /\ Finish => QueueInv'
<1> SUFFICES ASSUME QueueInv, Finish PROVE QueueInv'
  OBVIOUS
<1>1. PICK p \in Seq(Links), w \in Links : Entries(p) /\ Served(p) /\ Hand(p, w)
  BY DEF QueueInv
<1>2. /\ TypeOK /\ Position /\ pc = "walk" /\ Inside /\ ~desc[idx].more
      /\ answer' = Append(chain, idx) /\ serving' = serving \cup {Append(chain, idx)}
      /\ pc' = "idle" /\ head' = 0 /\ idx' = 0 /\ chain' = << >>
      /\ UNCHANGED <<memory, last_avail_idx, ready, driver>>
  BY DEF QueueInv, Finish, Return
<1>3. /\ Runs(w) /\ Elements(w) \subseteq owned /\ Along(w)
      /\ \A i \in DOMAIN p : Disjoint(w, p[i])
      /\ \A c \in serving : Disjoint(w, c)
  BY <1>1, <1>2 DEF Hand
<1>4. Append(chain, idx) = w
  BY <1>2, <1>3, WalkLemma
<1>5. << >> \in Seq(Table) /\ Len(<< >>) = 0 /\ Elements(<< >>) = {} /\ 0 \in Table
  BY RingAssumption, EmptySeq DEF Table, Elements
<1>6. TypeOK'
  BY <1>2, <1>4, <1>5, RingAssumption DEF TypeOK, memory, driver
<1>7. Position' /\ Hand(p, w)'
  BY <1>2, <1>5 DEF Position, Hand, Ahead, memory, driver
<1>8. Entries(p)'
  BY <1>1, <1>2, EntriesFrame DEF memory, driver
<1>9. Served(p)'
  <2>1. UNCHANGED owned
    BY <1>2 DEF driver
  <2>2. \A c \in serving : Disjoint(c, w)
    BY <1>3 DEF Disjoint
  <2> QED BY <1>1, <1>2, <1>3, <1>4, <2>1, <2>2 DEF Served
<1> QED BY <1>6, <1>7, <1>8, <1>9 DEF QueueInv

LEMMA MalformedStep == QueueInv /\ Malformed => QueueInv'
<1> SUFFICES ASSUME QueueInv, Malformed PROVE QueueInv'
  OBVIOUS
<1>1. PICK p \in Seq(Links), w \in Links : Entries(p) /\ Served(p) /\ Hand(p, w)
  BY DEF QueueInv
<1>2. /\ TypeOK /\ Position /\ answer' = Failed
      /\ pc' = "idle" /\ head' = 0 /\ idx' = 0 /\ chain' = << >>
      /\ UNCHANGED <<memory, last_avail_idx, ready, driver, serving>>
  BY DEF QueueInv, Malformed, Return
<1>3. << >> \in Seq(Table) /\ Len(<< >>) = 0 /\ Elements(<< >>) = {} /\ 0 \in Table
  BY RingAssumption, EmptySeq DEF Table, Elements
<1>4. TypeOK'
  BY <1>2, <1>3, RingAssumption DEF TypeOK, memory, driver
<1>5. Position' /\ Hand(p, w)'
  BY <1>2, <1>3 DEF Position, Hand, Ahead, memory, driver
<1> QED BY <1>1, <1>2, <1>4, <1>5, PopFrame

LEMMA CompleteStep ==
  ASSUME QueueInv, NEW s \in serving, Complete(s)
  PROVE  QueueInv'
<1>1. PICK p \in Seq(Links), w \in Links : Entries(p) /\ Served(p) /\ Hand(p, w)
  BY DEF QueueInv
<1>2. /\ TypeOK /\ Position /\ serving' = serving \ {s} /\ owned' = owned \ Elements(s)
      /\ UNCHANGED <<desc, ring, avail_idx, mapped, ready, last_avail_idx, pc, head, idx, chain, answer, prepared>>
  BY DEF QueueInv, Complete, memory
<1>3. TypeOK' /\ Position'
  BY <1>2 DEF TypeOK, Position, Ahead
<1>4. Entries(p)'
  <2>1. \A i \in DOMAIN p : Elements(p[i]) \subseteq owned'
    BY <1>1, <1>2 DEF Entries, Served, Disjoint
  <2> QED BY <1>1, <1>2, <2>1 DEF Entries, Ahead, Slot, Runs
<1>5. Served(p)'
  <2>1. \A c \in serving' : Elements(c) \subseteq owned'
    BY <1>1, <1>2 DEF Served, Disjoint
  <2> QED BY <1>1, <1>2, <2>1 DEF Served
<1>6. Hand(p, w)'
  <2>1. pc = "walk" => Elements(w) \subseteq owned'
    BY <1>1, <1>2 DEF Hand, Disjoint
  <2> QED BY <1>1, <1>2, <2>1 DEF Hand, Runs, Along
<1> QED BY <1>3, <1>4, <1>5, <1>6 DEF QueueInv

LEMMA QueueInit == Init => QueueInv
<1> SUFFICES ASSUME Init PROVE QueueInv
  OBVIOUS
<1>1. /\ desc = [d \in Table |-> [next |-> 0, more |-> FALSE]]
      /\ ring = [s \in Table |-> 0]
      /\ avail_idx = 0 /\ last_avail_idx = 0 /\ mapped \in {"all", "index", "none"}
      /\ pc = "idle" /\ head = 0 /\ idx = 0 /\ chain = << >> /\ answer = NoRequest
      /\ owned = {} /\ serving = {}
      /\ ready = FALSE /\ prepared = FALSE
  BY DEF Init
<1>2. /\ 0 \in Table /\ 0 \in Idx /\ N \in Nat
      /\ << >> \in Seq(Table) /\ Len(<< >>) = 0 /\ Elements(<< >>) = {}
  BY RingAssumption, EmptySeq DEF Table, Idx, Elements
<1>3. desc \in [Table -> [next : Table \cup {Beyond}, more : BOOLEAN]]
  BY <1>1, <1>2
<1>4. ring \in [Table -> Table]
  BY <1>1, <1>2
<1>5. TypeOK
  BY <1>1, <1>2, <1>3, <1>4 DEF TypeOK
<1>6. Ahead = 0
  BY <1>1, <1>5, IndexLemma
<1>7. Position
  BY <1>1, <1>2, <1>6 DEF Position
<1>8. << >> \in Seq(Links) /\ DOMAIN << >> = {}
  BY EmptySeq
<1>9. Entries(<< >>) /\ Served(<< >>)
  BY <1>1, <1>2, <1>6, <1>8 DEF Entries, Served
<1>10. \E w \in Links : TRUE
  <2> DEFINE s == [i \in 1..1 |-> 0]
  <2>1. s \in [1..1 -> Table] /\ 1 \in 1..N
    BY <1>2, RingAssumption
  <2>2. \A i, j \in DOMAIN s : s[i] = s[j] => i = j
    OBVIOUS
  <2> HIDE DEF s
  <2>3. s \in Links
    BY <2>1, <2>2 DEF Links
  <2> QED BY <2>3
<1>11. PICK w \in Links : TRUE
  BY <1>10
<1>12. Hand(<< >>, w)
  BY <1>1 DEF Hand
<1> QED BY <1>5, <1>7, <1>8, <1>9, <1>12 DEF QueueInv

LEMMA QueueStep == QueueInv /\ [Next]_vars => QueueInv'
<1> SUFFICES ASSUME QueueInv, [Next]_vars PROVE QueueInv'
  OBVIOUS
<1>1. CASE UNCHANGED vars
  <2>1. PICK p \in Seq(Links), w \in Links : Entries(p) /\ Served(p) /\ Hand(p, w)
    BY DEF QueueInv
  <2>2. TypeOK' /\ Position'
    BY <1>1 DEF QueueInv, TypeOK, Position, Ahead, vars, memory, driver
  <2>3. Hand(p, w)' /\ UNCHANGED <<memory, last_avail_idx, ready, driver, serving>>
    BY <1>1, <2>1, HandFrame DEF vars, memory, driver
  <2> QED BY <2>1, <2>2, <2>3, PopFrame
<1>2. CASE Pop
  BY <1>2, LookStep, TakeStep, FollowStep, FinishStep, MalformedStep DEF Pop
<1> QED BY <1>1, <1>2, EnableStep, PrepareStep, PublishStep, CompleteStep DEF Next

LEMMA QueueInvariant == Spec => []QueueInv
BY QueueInit, QueueStep, PTL DEF Spec

\* The type invariant: what pop returns and what is being served are linked
\* up chains of the table, for every queue size and width of the index.
THEOREM QueueTypeCorrect == Spec => []TypeOK
BY QueueInvariant, PTL DEF QueueInv

\* pop works only on descriptors the driver handed over and has not got back.
THEOREM QueueTakesOnlyPosted == Spec => []TakesOnlyPosted
<1>1. QueueInv => TakesOnlyPosted
  <2> SUFFICES ASSUME QueueInv, pc = "walk"
               PROVE  head \in owned /\ Elements(chain) \subseteq owned
    BY DEF TakesOnlyPosted
  <2>1. PICK w \in Links : w[1] = head /\ Elements(w) \subseteq owned /\ Along(w)
    BY DEF QueueInv, Hand
  <2>2. /\ 1 \in 1..Len(w) /\ Len(w) \in Nat
        /\ \A i \in 1..Len(w) : w[i] \in Elements(w)
    BY LinksLemma
  <2>3. Elements(chain) \subseteq Elements(w)
    <3>1. DOMAIN chain = 1..Len(chain) /\ Len(chain) \in Nat
      BY LenProperties DEF QueueInv, Position
    <3> QED BY <2>1, <2>2, <3>1 DEF Along, Elements
  <2> QED BY <2>1, <2>2, <2>3
<1> QED BY <1>1, QueueInvariant, PTL

\* No descriptor is in two chains being served, nor twice in one of them, nor
\* in one of them and in what pop has walked of the one in hand.
THEOREM QueueChainsDisjoint == Spec => []ChainsDisjoint
<1>1. QueueInv => ChainsDisjoint
  <2> SUFFICES ASSUME QueueInv PROVE ChainsDisjoint
    OBVIOUS
  <2>1. PICK p \in Seq(Links), w \in Links : Served(p) /\ Hand(p, w)
    BY DEF QueueInv
  <2>2. ASSUME NEW c \in serving PROVE Distinct(c)
    BY DEF QueueInv, TypeOK, Links, Distinct
  <2>3. ASSUME NEW c \in serving, NEW d \in serving, c # d
        PROVE  Elements(c) \cap Elements(d) = {}
    BY <2>1, <2>3 DEF Served, Disjoint
  <2>4. ASSUME pc = "walk", NEW c \in serving
        PROVE  ({head} \cup Elements(chain)) \cap Elements(c) = {}
    <3>1. w[1] = head /\ Along(w) /\ Elements(c) \cap Elements(w) = {}
      BY <2>1, <2>4 DEF Hand, Disjoint
    <3>2. head \in Elements(w) /\ Elements(chain) \subseteq Elements(w)
      <4>1. /\ 1 \in 1..Len(w) /\ Len(w) \in Nat
            /\ \A i \in 1..Len(w) : w[i] \in Elements(w)
        BY LinksLemma
      <4>2. DOMAIN chain = 1..Len(chain) /\ Len(chain) \in Nat
        BY <2>4, LenProperties DEF QueueInv, Position
      <4>3. Elements(chain) \subseteq Elements(w)
        BY <3>1, <4>1, <4>2 DEF Along, Elements
      <4> QED BY <3>1, <4>1, <4>3
    <3> QED BY <3>1, <3>2
  <2> QED BY <2>2, <2>3, <2>4 DEF ChainsDisjoint
<1> QED BY <1>1, QueueInvariant, PTL

-----------------------------------------------------------------------------
\* The requests a queue stands for.

\* A set of naturals has a least element: the library's well-founded order
\* stands in for induction.
LEMMA Least ==
  ASSUME NEW T \in SUBSET Nat, T # {}
  PROVE  \E m \in T : \A k \in T : m <= k
<1> DEFINE R == OpToRel(<, Nat)
<1>1. \A x, y \in Nat : x < y => <<x, y>> \in R
  BY DEF OpToRel
<1>2. IsWellFoundedOn(R, Nat)
  BY NatLessThanWellFounded
<1> HIDE DEF R
<1>3. \E x \in T : \A y \in T : ~(<<y, x>> \in R)
  BY <1>2, WFMin, Zenon
<1>4. PICK m \in T : \A y \in T : ~(<<y, m>> \in R)
  BY <1>3
<1>5. ASSUME NEW k \in T PROVE m <= k
  <2>1. k \in Nat /\ m \in Nat
    OBVIOUS
  <2>2. ~(k < m)
    BY <1>1, <1>4, <2>1, Zenon
  <2> QED BY <2>1, <2>2
<1> QED BY <1>5

\* What a driver that linked up s asked for.
Meant(s) == IF desc[s[Len(s)]].more THEN Failed ELSE s

\* A whole chain that starts where s does is s: the first place at which they
\* part would be a descriptor with two successors, or a last one that is not.
LEMMA OneChain ==
  ASSUME NEW s \in Links, Runs(s), NEW t \in Links, Linked(t), t[1] = s[1]
  PROVE  t = s /\ ~desc[s[Len(s)]].more
<1> DEFINE m == Len(s)
           n == Len(t)
<1>1. /\ m \in Nat /\ m >= 1 /\ DOMAIN s = 1..m /\ s \in Seq(Table)
      /\ n \in Nat /\ n >= 1 /\ DOMAIN t = 1..n /\ t \in Seq(Table)
      /\ \A i \in 1..n : t[i] \in Table
      /\ \A i, j \in 1..n : t[i] = t[j] => i = j
  BY LinksLemma
<1>2. \A i \in 1..m : i < m => desc[s[i]].more /\ desc[s[i]].next = s[i + 1]
  BY <1>1 DEF Runs
<1>3. desc[s[m]].more => desc[s[m]].next \in {Beyond, s[1]}
  BY <1>1 DEF Runs
<1>4. \A i \in 1..n : IF i = n THEN ~desc[t[i]].more
                      ELSE desc[t[i]].more /\ desc[t[i]].next = t[i + 1]
  BY <1>1 DEF Linked
<1> HIDE DEF m, n
<1> DEFINE Part == {i \in 1..m : ~(i <= n /\ t[i] = s[i])}
<1>5. Part = {}
  <2> SUFFICES ASSUME Part # {} PROVE FALSE
    OBVIOUS
  <2>1. Part \in SUBSET Nat
    BY <1>1
  <2>2. PICK k \in Part : \A j \in Part : k <= j
    BY <2>1, Least
  <2> DEFINE i == k - 1
  <2>3. k \in 1..m /\ k # 1
    BY <1>1
  <2>4. i \in 1..m /\ i < m /\ i + 1 = k /\ i \notin Part
    BY <1>1, <2>2, <2>3
  <2>5. i \in 1..n /\ t[i] = s[i]
    BY <1>1, <2>4
  <2> HIDE DEF i
  <2>6. desc[t[i]].more /\ desc[t[i]].next = s[k]
    BY <1>2, <2>4, <2>5
  <2>7. i # n
    BY <1>4, <2>5, <2>6, Zenon
  <2>8. t[k] = s[k]
    BY <1>4, <2>4, <2>5, <2>6, <2>7
  <2>9. k <= n
    BY <1>1, <2>4, <2>5, <2>7
  <2> QED BY <2>2, <2>8, <2>9
<1>6. \A i \in 1..m : i <= n /\ t[i] = s[i]
  BY <1>5
<1> HIDE DEF Part
<1>7. m \in 1..m /\ m \in 1..n /\ t[m] = s[m]
  BY <1>1, <1>6
<1>8. m = n
  <2> SUFFICES ASSUME m # n PROVE FALSE
    OBVIOUS
  <2>1. desc[s[m]].more /\ desc[s[m]].next = t[m + 1]
    BY <1>4, <1>7
  <2>2. m + 1 \in 1..n /\ m + 1 # 1 /\ 1 \in 1..n
    BY <1>1, <1>7
  <2>3. t[m + 1] \in Table /\ t[m + 1] # t[1]
    BY <1>1, <2>2
  <2>4. t[m + 1] # Beyond
    BY <2>3, RingAssumption DEF Table, Beyond
  <2> QED BY <1>3, <2>1, <2>3, <2>4
<1>9. t = s
  <2>1. Len(t) = Len(s) /\ \A i \in 1..Len(t) : t[i] = s[i]
    BY <1>6, <1>8 DEF m, n
  <2> QED BY <1>1, <2>1, SeqEqual
<1>10. ~desc[s[m]].more
  BY <1>4, <1>7, <1>8
<1> QED BY <1>9, <1>10 DEF m

\* So a head stands for what its driver meant.
HeadsStand == \A s \in Links : Runs(s) => Request(s[1]) = Meant(s)

LEMMA RequestLemma == HeadsStand
<1> SUFFICES ASSUME NEW s \in Links, Runs(s) PROVE Request(s[1]) = Meant(s)
  BY DEF HeadsStand
<1> DEFINE whole == {t \in Links : t[1] = s[1] /\ Linked(t)}
<1>1. \A t \in whole : t = s /\ ~desc[s[Len(s)]].more
  BY OneChain
<1>2. CASE desc[s[Len(s)]].more
  <2>1. whole = {}
    BY <1>1, <1>2
  <2> QED BY <1>2, <2>1 DEF Request, Meant
<1>3. CASE ~desc[s[Len(s)]].more
  <2>1. Linked(s)
    <3>1. Len(s) \in Nat /\ DOMAIN s = 1..Len(s)
      BY LinksLemma
    <3>2. \A i \in 1..Len(s) : i < Len(s) \/ i = Len(s)
      BY <3>1, UpTo
    <3>3. \A i \in 1..Len(s) : i # Len(s) => desc[s[i]].more /\ desc[s[i]].next = s[i + 1]
      BY <3>1, <3>2 DEF Runs
    <3> QED BY <1>3, <3>1, <3>3 DEF Linked
  <2>2. whole = {s}
    BY <1>1, <2>1
  <2> HIDE DEF whole
  <2>3. (CHOOSE t \in whole : TRUE) = s /\ whole # {}
    BY <2>2
  <2> QED BY <1>3, <2>3 DEF Request, Meant, whole
<1> QED BY <1>2, <1>3

\* A request is a chain or a malformed one, and never the absence of one.
LEMMA RequestIsOne ==
  ASSUME NEW h
  PROVE  Request(h) \in Links \cup {Failed} /\ Request(h) # NoRequest
<1>1. Request(h) \in Links \cup {Failed}
  BY DEF Request
<1>2. \A r \in Links \cup {Failed} : Len(r) >= 1
  BY LinksLemma DEF Failed
<1>3. Len(NoRequest) = 0
  BY DEF NoRequest
<1>4. Request(h) # NoRequest
  <2>1. Len(Request(h)) >= 1
    BY <1>1, <1>2
  <2> QED BY <1>3, <2>1
<1> QED BY <1>1, <1>4

LEMMA PendingLemma ==
  ASSUME TypeOK
  PROVE  /\ Ahead \in Nat /\ Len(Pending) = Ahead
         /\ Pending \in Seq(Links \cup {Failed})
         /\ \A i \in 1..Ahead : Pending[i] = Request(ring[Slot(i)])
<1>1. Ahead \in Nat
  BY IndexLemma
<1>2. Pending \in [1..Ahead -> Links \cup {Failed}]
  BY RequestIsOne DEF Pending
<1>3. Pending \in Seq(Links \cup {Failed})
  BY <1>1, <1>2, SeqDef
<1>4. Len(Pending) = Ahead
  <2>1. DOMAIN Pending = 1..Ahead /\ DOMAIN Pending = 1..Len(Pending) /\ Len(Pending) \in Nat
    BY <1>2, <1>3, LenProperties
  <2> QED BY <1>1, <2>1
<1> QED BY <1>1, <1>3, <1>4 DEF Pending

LEMMA PendingFrame ==
  ASSUME UNCHANGED <<desc, ring, avail_idx, last_avail_idx>>
  PROVE  UNCHANGED Pending
BY DEF Pending, Ahead, Slot, Request, Linked
-----------------------------------------------------------------------------
\* Each step of the queue is one of RequestQueue, or a stutter.

\* What the driver prepares is not yet posted, and touches nothing that is.
LEMMA PrepareStutters ==
  ASSUME QueueInv, NEW s \in Links, NEW ending \in {"end", "beyond", "loop"}, Prepare(s, ending)
  PROVE  UNCHANGED <<Pending, InHand, answer>>
<1>1. PICK p \in Seq(Links), w \in Links : Entries(p) /\ Served(p) /\ Hand(p, w)
  BY DEF QueueInv
<1>2. /\ TypeOK /\ ~prepared /\ Elements(s) \cap owned = {}
      /\ ring' = [ring EXCEPT ![avail_idx % N] = s[1]]
      /\ UNCHANGED <<avail_idx, last_avail_idx, pc, head, answer>>
  BY DEF QueueInv, Prepare
<1>3. Len(p) = Ahead /\ Ahead < N
  BY <1>1, <1>2, RoomLemma
<1>4. \A c \in Links : Runs(c) /\ Elements(c) \subseteq owned => Request(c[1])' = Request(c[1])
  <2> SUFFICES ASSUME NEW c \in Links, Runs(c), Elements(c) \subseteq owned
               PROVE  Request(c[1])' = Request(c[1])
    OBVIOUS
  <2>1. \A d \in Elements(c) : desc'[d] = desc[d]
    BY <1>2, PrepareLemma, LinksLemma
  <2>2. Runs(c)'
    BY <2>1, RunsKept
  <2>3. HeadsStand'
    BY RequestLemma, PTL
  <2>4. Request(c[1])' = Meant(c)'
    BY <2>2, <2>3 DEF HeadsStand
  <2>5. Meant(c)' = Meant(c)
    <3>1. Len(c) \in 1..Len(c)
      BY LinksLemma
    <3>2. desc'[c[Len(c)]] = desc[c[Len(c)]]
      BY <2>1, <3>1, LinksLemma
    <3> QED BY <3>2 DEF Meant
  <2> QED BY <2>4, <2>5, RequestLemma DEF HeadsStand
<1>5. UNCHANGED Pending
  <2>1. ASSUME NEW i \in 1..Ahead PROVE Request(ring[Slot(i)])' = Request(ring[Slot(i)])
    <3>1. /\ p[i] \in Links /\ p[i][1] = ring[Slot(i)]
          /\ Runs(p[i]) /\ Elements(p[i]) \subseteq owned
      BY <1>1, <1>3, LenProperties, ElementOfSeq DEF Entries
    <3>2. Slot(i) # avail_idx % N /\ Slot(i)' = Slot(i)
      BY <1>2, <1>3, NextSlot DEF Slot
    <3>3. ring'[Slot(i)'] = ring[Slot(i)]
      <4>1. ring \in [Table -> Table] /\ Slot(i) \in Table
        BY <1>2, IndexLemma DEF TypeOK
      <4> QED BY <1>2, <3>2, <4>1
    <3>4. Request(ring[Slot(i)])' = Request(p[i][1])'
      BY <3>1, <3>3 DEF Request, Linked
    <3> QED BY <1>4, <3>1, <3>4
  <2>2. Ahead' = Ahead
    BY <1>2 DEF Ahead
  <2> QED BY <2>1, <2>2 DEF Pending
<1>6. UNCHANGED InHand
  <2>1. CASE pc = "walk"
    <3>1. w[1] = head /\ Runs(w) /\ Elements(w) \subseteq owned
      BY <1>1, <2>1 DEF Hand
    <3>2. Request(head)' = Request(w[1])'
      BY <1>2, <3>1 DEF Request, Linked
    <3> QED BY <1>2, <1>4, <3>1, <3>2 DEF InHand
  <2>2. CASE pc # "walk"
    BY <1>2, <2>2 DEF InHand
  <2> QED BY <2>1, <2>2
<1> QED BY <1>2, <1>5, <1>6

LEMMA PublishPosts == QueueInv /\ Publish /\ TypeOK' => Queue!Post
<1> SUFFICES ASSUME QueueInv, Publish, TypeOK' PROVE Queue!Post
  OBVIOUS
<1>1. PICK p \in Seq(Links) : Entries(p)
  BY DEF QueueInv
<1>2. /\ TypeOK /\ prepared /\ avail_idx' = (avail_idx + 1) % IdxMod
      /\ UNCHANGED <<desc, ring, last_avail_idx, pc, head, answer>>
  BY DEF QueueInv, Publish
<1>3. Ahead < N
  <2>1. Len(p) = Ahead + 1 /\ Len(p) <= N
    BY <1>1, <1>2, HeadsFit DEF Entries
  <2> QED BY <1>2, <2>1, IndexLemma
<1>4. Ahead' = Ahead + 1 /\ \A i \in Int : Slot(i)' = Slot(i)
  BY <1>2, <1>3, OneMore
<1>5. /\ Ahead \in Nat /\ Len(Pending) = Ahead /\ Pending \in Seq(Links \cup {Failed})
      /\ \A i \in 1..Ahead : Pending[i] = Request(ring[Slot(i)])
  BY <1>2, PendingLemma
<1>6. Pending' = [i \in 1..(Ahead + 1) |-> Request(ring[Slot(i)])]
  <2>1. \A i \in 1..(Ahead + 1) : Request(ring[Slot(i)])' = Request(ring[Slot(i)])
    <3> TAKE i \in 1..(Ahead + 1)
    <3>1. i \in Int
      BY <1>5
    <3>2. ring'[Slot(i)'] = ring[Slot(i)]
      BY <1>2, <1>4, <3>1
    <3> QED BY <1>2, <3>2 DEF Request, Linked
  <2> QED BY <1>4, <2>1 DEF Pending
<1>7. Pending' \in Seq(Links \cup {Failed}) /\ Len(Pending') = Ahead + 1
  <2>1. Pending' \in [1..(Ahead + 1) -> Links \cup {Failed}] /\ Ahead + 1 \in Nat
    BY <1>5, <1>6, RequestIsOne
  <2>2. Pending' \in Seq(Links \cup {Failed})
    BY <2>1, SeqDef
  <2>3. DOMAIN Pending' = 1..Len(Pending') /\ Len(Pending') \in Nat
    BY <2>2, LenProperties
  <2> QED BY <2>1, <2>2, <2>3
<1>8. \A i \in 1..Ahead : Pending'[i] = Pending[i]
  BY <1>5, <1>6
<1> DEFINE q == Pending'
           t == SubSeq(q, 1, Ahead)
<1>9. t = Pending
  <2>1. \A i \in 1..Ahead : q[i] \in Links \cup {Failed}
    BY <1>5, <1>7, ElementOfSeq
  <2>2. 1 \in Int /\ Ahead \in Int
    BY <1>5
  <2> HIDE DEF q
  <2>3. /\ t \in Seq(Links \cup {Failed})
        /\ Len(t) = IF 1 <= Ahead THEN Ahead - 1 + 1 ELSE 0
        /\ \A i \in 1..(Ahead - 1 + 1) : t[i] = q[1 + i - 1]
    BY <2>1, <2>2, SubSeqProperties
  <2> HIDE DEF t
  <2>4. Len(t) = Ahead /\ \A i \in 1..Ahead : t[i] = q[i]
    BY <1>5, <2>3
  <2>5. \A i \in 1..Len(t) : t[i] = Pending[i]
    BY <1>8, <2>4 DEF q
  <2> QED BY <1>5, <2>3, <2>4, <2>5, SeqEqual
<1>10. Pending'[Ahead + 1] \in Links \cup {Failed}
  <2>1. Ahead + 1 \in 1..(Ahead + 1)
    BY <1>5
  <2> QED BY <1>6, <2>1, RequestIsOne
<1>11. UNCHANGED <<answer, InHand>>
  BY <1>2 DEF InHand, Request, Linked
<1> QED BY <1>3, <1>5, <1>7, <1>9, <1>10, <1>11 DEF Queue!Post

LEMMA TakeTakes == QueueInv /\ TakeSlot => Queue!Take
<1> SUFFICES ASSUME QueueInv, TakeSlot PROVE Queue!Take
  OBVIOUS
<1>1. /\ TypeOK /\ pc = "slot" /\ Ahead > 0
      /\ head' = ring[last_avail_idx % N] /\ pc' = "walk"
      /\ last_avail_idx' = (last_avail_idx + 1) % IdxMod
      /\ UNCHANGED <<desc, ring, avail_idx, answer>>
  BY DEF QueueInv, TakeSlot, Position, memory
<1>2. Ahead' = Ahead - 1 /\ \A i \in Int : Slot(i)' = Slot(i + 1)
  BY <1>1, OneLess
<1>3. /\ Ahead \in Nat /\ Len(Pending) = Ahead /\ Pending \in Seq(Links \cup {Failed})
      /\ \A i \in 1..Ahead : Pending[i] = Request(ring[Slot(i)])
  BY <1>1, PendingLemma
<1>4. InHand = NoRequest
  BY <1>1 DEF InHand
<1>5. Pending # << >>
  BY <1>1, <1>3, EmptySeq
<1>6. InHand' = Head(Pending)
  <2>1. last_avail_idx + 1 - 1 = last_avail_idx
    BY <1>1, IndexLemma
  <2>2. Slot(1) = last_avail_idx % N
    BY <2>1 DEF Slot
  <2>3. Head(Pending) = Request(ring[Slot(1)])
    <3>1. 1 \in 1..Ahead /\ Head(Pending) = Pending[1]
      BY <1>1, <1>3
    <3> QED BY <1>3, <3>1
  <2>4. InHand' = Request(head)'
    BY <1>1 DEF InHand
  <2>5. Request(head)' = Request(ring[Slot(1)])
    <3>1. head' = ring[Slot(1)] /\ UNCHANGED desc
      BY <1>1, <2>2
    <3> QED BY <3>1 DEF Request, Linked
  <2> QED BY <2>3, <2>4, <2>5
<1>7. Pending' = Tail(Pending)
  <2> DEFINE t == Tail(Pending)
  <2>1. /\ t \in Seq(Links \cup {Failed}) /\ Len(t) = Ahead - 1
        /\ \A i \in 1..(Ahead - 1) : t[i] = Pending[i + 1]
    BY <1>3, <1>5, HeadTailProperties
  <2> HIDE DEF t
  <2>2. t = [i \in 1..(Ahead - 1) |-> t[i]]
    <3>1. DOMAIN t = 1..(Ahead - 1) /\ t \in [1..Len(t) -> Links \cup {Failed}]
      BY <2>1, LenProperties
    <3> QED BY <2>1, <3>1
  <2>3. \A i \in 1..(Ahead - 1) : t[i] = Request(ring[Slot(i)])'
    <3> TAKE i \in 1..(Ahead - 1)
    <3>1. i \in Int /\ i + 1 \in 1..Ahead
      BY <1>3
    <3>2. t[i] = Request(ring[Slot(i + 1)])
      BY <1>3, <2>1, <3>1
    <3>3. Slot(i)' = Slot(i + 1)
      BY <1>2, <3>1
    <3> QED BY <1>1, <3>2, <3>3 DEF Request, Linked
  <2>4. Pending' = [i \in 1..(Ahead - 1) |-> Request(ring[Slot(i)])']
    BY <1>2 DEF Pending
  <2> QED BY <2>2, <2>3, <2>4 DEF t
<1> QED BY <1>1, <1>4, <1>5, <1>6, <1>7 DEF Queue!Take

\* The answer is the chain as its driver meant it.
LEMMA AnswerAnswers == QueueInv /\ (Finish \/ Malformed) => Queue!Answer
<1> SUFFICES ASSUME QueueInv, Finish \/ Malformed PROVE Queue!Answer
  OBVIOUS
<1>1. PICK p \in Seq(Links), w \in Links : Entries(p) /\ Served(p) /\ Hand(p, w)
  BY DEF QueueInv
<1>2. /\ TypeOK /\ Position /\ pc = "walk" /\ pc' = "idle"
      /\ UNCHANGED <<desc, ring, avail_idx, last_avail_idx>>
  BY DEF QueueInv, Finish, Malformed, Return, memory
<1>3. w[1] = head /\ Runs(w) /\ Along(w)
  BY <1>1, <1>2 DEF Hand
<1>4. InHand = Meant(w) /\ InHand' = NoRequest /\ UNCHANGED Pending
  BY <1>2, <1>3, RequestLemma, PendingFrame DEF InHand, HeadsStand
<1>5. InHand # NoRequest
  BY <1>2, RequestIsOne DEF InHand
<1>6. answer' = Meant(w)
  <2>1. CASE Finish
    <3>1. Inside /\ ~desc[idx].more /\ answer' = Append(chain, idx)
      BY <2>1 DEF Finish, Return
    <3>2. Append(chain, idx) = w /\ idx \in Table
      BY <1>2, <1>3, <3>1, WalkLemma
    <3>3. w[Len(w)] = idx
      <4>1. /\ Len(Append(chain, idx)) = Len(chain) + 1
            /\ Append(chain, idx)[Len(chain) + 1] = idx
        BY <1>2, <3>2, AppendProperties DEF Position
      <4> QED BY <3>2, <4>1
    <3> QED BY <3>1, <3>2, <3>3 DEF Meant
  <2>2. CASE Malformed
    <3>1. ~Inside /\ answer' = Failed
      BY <2>2 DEF Malformed, Return
    <3>2. desc[w[Len(w)]].more
      <4> SUFFICES ASSUME Len(chain) < Len(w), idx = w[Len(chain) + 1] PROVE FALSE
        BY <1>3 DEF Along
      <4>1. /\ Len(chain) \in Nat /\ Len(w) \in 1..N
            /\ \A i \in 1..Len(w) : w[i] \in Table
        BY <1>2, LinksLemma, LenProperties DEF Position
      <4>2. Len(chain) < N /\ Len(chain) + 1 \in 1..Len(w)
        BY <4>1, RingAssumption
      <4>3. idx \in Table
        BY <4>1, <4>2
      <4>4. idx # Beyond
        BY <4>3, RingAssumption DEF Table, Beyond
      <4> QED BY <3>1, <4>2, <4>4 DEF Inside
    <3> QED BY <3>1, <3>2 DEF Meant
  <2> QED BY <2>1, <2>2
<1> QED BY <1>4, <1>5, <1>6 DEF Queue!Answer

LEMMA NoneAnswered == QueueInv /\ NothingPending => Queue!AnswerNone
<1> SUFFICES ASSUME QueueInv, NothingPending PROVE Queue!AnswerNone
  OBVIOUS
<1>1. /\ TypeOK /\ Position /\ pc = "idle" /\ pc' = "idle" /\ answer' = NoRequest
      /\ ready => avail_idx = last_avail_idx
      /\ UNCHANGED <<desc, ring, avail_idx, last_avail_idx>>
  BY DEF QueueInv, NothingPending, Return, memory
<1>2. Ahead = 0
  BY <1>1, IndexLemma DEF Position
<1>3. Pending = << >>
  BY <1>1, <1>2, PendingLemma, EmptySeq
<1>4. InHand = NoRequest /\ InHand' = NoRequest /\ UNCHANGED Pending
  BY <1>1, PendingFrame DEF InHand
<1> QED BY <1>1, <1>3, <1>4 DEF Queue!AnswerNone

LEMMA UnreadableAnswered == Unreadable => Queue!AnswerUnreadable
<1> SUFFICES ASSUME Unreadable PROVE Queue!AnswerUnreadable
  OBVIOUS
<1>1. /\ pc # "walk" /\ pc' = "idle" /\ answer' = Failed
      /\ UNCHANGED <<desc, ring, avail_idx, last_avail_idx>>
  BY DEF Unreadable, Return, memory
<1>2. InHand = NoRequest /\ InHand' = NoRequest /\ UNCHANGED Pending
  BY <1>1, PendingFrame DEF InHand
<1> QED BY <1>1, <1>2 DEF Queue!AnswerUnreadable

\* The rest of the steps are the queue's own business.
LEMMA OthersStutter ==
  ASSUME Enable \/ FindRequest \/ Follow \/ (\E c \in serving : Complete(c)) \/ UNCHANGED vars
  PROVE  UNCHANGED <<Pending, InHand, answer>>
<1>1. /\ UNCHANGED <<desc, ring, avail_idx, last_avail_idx, head, answer>>
      /\ (pc = "walk") = (pc' = "walk")
  BY DEF Enable, FindRequest, Follow, Complete, vars, memory
<1> QED BY <1>1, PendingFrame DEF InHand, Request, Linked

LEMMA QueueRefinesInit == Init => Queue!Init
<1> SUFFICES ASSUME Init PROVE Queue!Init
  OBVIOUS
<1>1. TypeOK
  BY QueueInit DEF QueueInv
<1>2. avail_idx = 0 /\ last_avail_idx = 0 /\ pc = "idle" /\ answer = NoRequest
  BY DEF Init
<1>3. Ahead = 0
  BY <1>1, <1>2, IndexLemma
<1>4. Pending = << >>
  BY <1>1, <1>3, PendingLemma, EmptySeq
<1> QED BY <1>2, <1>4 DEF Queue!Init, InHand

LEMMA QueueRefinesStep ==
  QueueInv /\ QueueInv' /\ [Next]_vars => [Queue!Next]_<<Pending, InHand, answer>>
<1> SUFFICES ASSUME QueueInv, QueueInv', [Next]_vars
             PROVE  Queue!Next \/ UNCHANGED <<Pending, InHand, answer>>
  OBVIOUS
<1>1. CASE Enable \/ FindRequest \/ Follow \/ (\E c \in serving : Complete(c)) \/ UNCHANGED vars
  BY <1>1, OthersStutter
<1>2. CASE \E s \in Links, ending \in {"end", "beyond", "loop"} : Prepare(s, ending)
  BY <1>2, PrepareStutters
<1>3. CASE Publish
  BY <1>3, PublishPosts DEF QueueInv, Queue!Next
<1>4. CASE TakeSlot \/ Finish \/ Malformed \/ NothingPending \/ Unreadable
  BY <1>4, TakeTakes, AnswerAnswers, NoneAnswered, UnreadableAnswered DEF Queue!Next
<1> QED BY <1>1, <1>2, <1>3, <1>4 DEF Next, Pop

\* pop implements the queue of requests: for every ring, each posted request
\* is answered once, in order, with the chain as its driver linked it up.
THEOREM QueueImplements == Spec => ImplementsQueue
BY QueueInvariant, QueueRefinesInit, QueueRefinesStep, PTL DEF Spec, ImplementsQueue, Queue!Spec

=============================================================================
