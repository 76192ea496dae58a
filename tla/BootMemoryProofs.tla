-------------------------- MODULE BootMemoryProofs --------------------------
(***************************************************************************)
(* Proofs, for every configuration, every ELF kernel of any number of      *)
(* segments and any size at which a product overflows, that what run_vm    *)
(* puts into guest RAM stays inside it, that nothing covers what was put   *)
(* there before, and that the memory map is right.                         *)
(*                                                                         *)
(* The invariant keeps every range that was written in the area of the     *)
(* artefact it belongs to: what is written next has an area of its own.    *)
(***************************************************************************)
EXTENDS BootMemory, SequenceTheorems, WellFoundedInduction, TLAPS

-----------------------------------------------------------------------------
\* Sequences of ranges.

Ranges == [from : Nat, to : Nat]

\* What no write refuses: ranges that end where they begin or after it.
Sound(s) == s \in Seq(Ranges) /\ \A i \in DOMAIN s : s[i].from <= s[i].to

\* No range of s covers one before it.
Apart(s) == \A i, j \in DOMAIN s : i < j => ~Overlap(s[i], s[j])

\* Each range of s is part of one of the areas.
Inside(s, areas) ==
  \A i \in DOMAIN s : \E a \in areas : a.from <= s[i].from /\ s[i].to <= a.to

\* Nothing of one area is in another.
Separate(areas, others) ==
  \A a \in areas, b \in others : a.to <= b.from \/ b.to <= a.from

LEMMA SpanLemma ==
  ASSUME NEW a \in Nat, NEW n \in Nat
  PROVE  /\ Span(a, n) \in Ranges /\ Span(a, n).from = a /\ Span(a, n).to = a + n
         /\ Span(a, n).from <= Span(a, n).to
BY DEF Span, Ranges

LEMMA SeqLemma ==
  ASSUME NEW s \in Seq(Ranges)
  PROVE  /\ Len(s) \in Nat /\ DOMAIN s = 1..Len(s)
         /\ \A i \in 1..Len(s) : s[i] \in Ranges /\ s[i].from \in Nat /\ s[i].to \in Nat
<1>1. Len(s) \in Nat /\ DOMAIN s = 1..Len(s)
  BY LenProperties
<1>2. \A i \in 1..Len(s) : s[i] \in Ranges
  BY ElementOfSeq
<1> QED BY <1>1, <1>2 DEF Ranges

LEMMA OneRange ==
  ASSUME NEW r \in Ranges, r.from <= r.to, NEW a, a.from <= r.from, r.to <= a.to
  PROVE  Sound(<<r>>) /\ Apart(<<r>>) /\ Inside(<<r>>, {a})
<1> DEFINE s == <<r>>
<1>1. s \in Seq(Ranges) /\ DOMAIN s = 1..1 /\ s[1] = r
  OBVIOUS
<1> HIDE DEF s
<1>2. \A i \in 1..1 : i = 1
  OBVIOUS
<1>3. Sound(s) /\ Inside(s, {a})
  BY <1>1, <1>2 DEF Sound, Inside
<1>4. Apart(s)
  BY <1>1 DEF Apart
<1> QED BY <1>3, <1>4 DEF s

\* Where the element i of a concatenation comes from.
LEMMA JoinedFrom ==
  ASSUME NEW s \in Seq(Ranges), NEW t \in Seq(Ranges)
  PROVE  /\ s \o t \in Seq(Ranges) /\ DOMAIN (s \o t) = 1..(Len(s) + Len(t))
         /\ \A i \in 1..(Len(s) + Len(t)) :
              \/ i \in 1..Len(s) /\ (s \o t)[i] = s[i]
              \/ i - Len(s) \in 1..Len(t) /\ (s \o t)[i] = t[i - Len(s)]
<1>1. Len(s) \in Nat /\ Len(t) \in Nat
  BY SeqLemma
<1>2. /\ s \o t \in Seq(Ranges) /\ Len(s \o t) = Len(s) + Len(t)
      /\ \A i \in 1..(Len(s) + Len(t)) :
           (s \o t)[i] = IF i <= Len(s) THEN s[i] ELSE t[i - Len(s)]
  BY ConcatProperties
<1>3. DOMAIN (s \o t) = 1..(Len(s) + Len(t))
  BY <1>2, SeqLemma
<1> QED BY <1>1, <1>2, <1>3

\* Two sequences in separate areas are apart one after the other.
LEMMA JoinLemma ==
  ASSUME NEW s, NEW t, Sound(s), Sound(t),
         NEW A \in SUBSET Ranges, NEW B \in SUBSET Ranges, Inside(s, A), Inside(t, B)
  PROVE  /\ Sound(s \o t) /\ Inside(s \o t, A \cup B)
         /\ Apart(s) /\ Apart(t) /\ Separate(A, B) => Apart(s \o t)
<1> DEFINE u == s \o t
           m == Len(s)
           n == Len(t)
<1>1. /\ s \in Seq(Ranges) /\ t \in Seq(Ranges) /\ m \in Nat /\ n \in Nat
      /\ DOMAIN s = 1..m /\ DOMAIN t = 1..n
  BY SeqLemma DEF Sound
<1>2. /\ u \in Seq(Ranges) /\ DOMAIN u = 1..(m + n)
      /\ \A i \in 1..(m + n) : \/ i \in 1..m /\ u[i] = s[i]
                               \/ i - m \in 1..n /\ u[i] = t[i - m]
  BY <1>1, JoinedFrom
<1> HIDE DEF u, m, n
<1>3. Sound(u)
  BY <1>1, <1>2 DEF Sound
<1>4. Inside(u, A \cup B)
  BY <1>1, <1>2 DEF Inside
<1>5. ASSUME Apart(s), Apart(t), Separate(A, B) PROVE Apart(u)
  <2> SUFFICES ASSUME NEW i \in 1..(m + n), NEW j \in 1..(m + n), i < j
               PROVE  ~Overlap(u[i], u[j])
    BY <1>2 DEF Apart
  <2>1. CASE i \in 1..m /\ u[i] = s[i] /\ j \in 1..m /\ u[j] = s[j]
    BY <1>1, <1>5, <2>1 DEF Apart
  <2>2. CASE i - m \in 1..n /\ u[i] = t[i - m] /\ j - m \in 1..n /\ u[j] = t[j - m]
    <3>1. i - m < j - m
      BY <1>1
    <3> QED BY <1>1, <1>5, <2>2, <3>1 DEF Apart
  <2>3. CASE i \in 1..m /\ u[i] = s[i] /\ j - m \in 1..n /\ u[j] = t[j - m]
    <3>1. PICK a \in A : a.from <= u[i].from /\ u[i].to <= a.to
      BY <1>1, <2>3 DEF Inside
    <3>2. PICK b \in B : b.from <= u[j].from /\ u[j].to <= b.to
      BY <1>1, <2>3 DEF Inside
    <3>3. /\ u[i].from \in Nat /\ u[i].to \in Nat /\ u[j].from \in Nat /\ u[j].to \in Nat
          /\ a.from \in Nat /\ a.to \in Nat /\ b.from \in Nat /\ b.to \in Nat
      BY <1>2, SeqLemma DEF Ranges
    <3>4. a.to <= b.from \/ b.to <= a.from
      BY <1>5 DEF Separate
    <3> QED BY <3>1, <3>2, <3>3, <3>4 DEF Overlap
  <2>4. ~(i - m \in 1..n /\ j \in 1..m)
    BY <1>1
  <2> QED BY <1>2, <2>1, <2>2, <2>3, <2>4
<1> QED BY <1>3, <1>4, <1>5 DEF u

LEMMA InsideMore ==
  ASSUME NEW s, NEW A, NEW B, Inside(s, A), A \subseteq B
  PROVE  Inside(s, B)
BY DEF Inside

\* A set of naturals has a least element.
LEMMA Least ==
  ASSUME NEW T \in SUBSET Nat, T # {}
  PROVE  \E m \in T : \A k \in T : m <= k
<1> DEFINE R == OpToRel(<, Nat)
<1>1. \A x, y \in Nat : x < y => <<x, y>> \in R
  BY DEF OpToRel
<1>2. IsWellFoundedOn(R, Nat)
  BY NatLessThanWellFounded
<1> HIDE DEF R
<1>3. \E x \in T : \A y \in T : ~(<<y, x>> \in R)
  BY <1>2, WFMin, Zenon
<1>4. PICK m \in T : \A y \in T : ~(<<y, m>> \in R)
  BY <1>3
<1>5. ASSUME NEW k \in T PROVE m <= k
  <2>1. k \in Nat /\ m \in Nat
    OBVIOUS
  <2>2. ~(k < m)
    BY <1>1, <1>4, <2>1, Zenon
  <2> QED BY <2>1, <2>2
<1> QED BY <1>5

\* What write_slice leaves: all of the ranges, or the ones before the first
\* that does not fit.
LEMMA WriteLemma ==
  ASSUME NEW ranges, NEW next, Sound(log), Sound(ranges), Write(ranges, next),
         \A i \in DOMAIN log : Fits(log[i])
  PROVE  /\ \/ /\ pc' = next /\ log' = log \o ranges
               /\ \A i \in DOMAIN ranges : Fits(ranges[i])
            \/ pc' = "err"
         /\ Sound(log')
         /\ \A i \in DOMAIN log' : Fits(log'[i])
<1> DEFINE bad == {i \in DOMAIN ranges : ~Fits(ranges[i])}
           first == CHOOSE i \in bad : \A j \in bad : i <= j
<1>1. /\ ranges \in Seq(Ranges) /\ log \in Seq(Ranges)
      /\ Len(ranges) \in Nat /\ DOMAIN ranges = 1..Len(ranges)
      /\ Len(log) \in Nat /\ DOMAIN log = 1..Len(log)
  BY SeqLemma DEF Sound
<1>2. ASSUME NEW t, Sound(t), \A i \in DOMAIN t : Fits(t[i])
      PROVE  Sound(log \o t) /\ \A i \in DOMAIN (log \o t) : Fits((log \o t)[i])
  <2> DEFINE u == log \o t
  <2>1. t \in Seq(Ranges) /\ DOMAIN t = 1..Len(t)
    BY <1>2, SeqLemma DEF Sound
  <2>2. /\ u \in Seq(Ranges) /\ DOMAIN u = 1..(Len(log) + Len(t))
        /\ \A i \in 1..(Len(log) + Len(t)) :
             \/ i \in 1..Len(log) /\ u[i] = log[i]
             \/ i - Len(log) \in 1..Len(t) /\ u[i] = t[i - Len(log)]
    BY <1>1, <2>1, JoinedFrom
  <2> HIDE DEF u
  <2>3. Sound(u) /\ \A i \in DOMAIN u : Fits(u[i])
    BY <1>1, <1>2, <2>1, <2>2 DEF Sound
  <2> QED BY <2>3 DEF u
<1>3. CASE bad = {}
  <2>1. pc' = next /\ log' = log \o ranges
    BY <1>3 DEF Write
  <2>2. \A i \in DOMAIN ranges : Fits(ranges[i])
    BY <1>3
  <2> QED BY <1>2, <2>1, <2>2
<1>4. CASE bad # {}
  <2> DEFINE t == SubSeq(ranges, 1, first - 1)
  <2>1. pc' = "err" /\ log' = log \o t
    BY <1>4 DEF Write
  <2>2. first \in bad /\ \A j \in bad : first <= j
    <3>1. bad \in SUBSET Nat
      BY <1>1
    <3>2. \E i \in bad : \A j \in bad : i <= j
      BY <1>4, <3>1, Least
    <3> HIDE DEF bad
    <3> QED BY <3>2
  <2>3. first \in 1..Len(ranges)
    BY <1>1, <2>2
  <2>4. \A i \in 1..(first - 1) : i \in 1..Len(ranges) /\ i \notin bad
    BY <1>1, <2>2, <2>3
  <2>5. \A i \in 1..(first - 1) : /\ Fits(ranges[i]) /\ ranges[i] \in Ranges
                                  /\ ranges[i].from <= ranges[i].to
    BY <1>1, <2>4, SeqLemma DEF Sound
  <2> HIDE DEF first, bad
  <2>6. first - 1 \in Int /\ 1 \in Int /\ first - 1 >= 0
    BY <1>1, <2>3
  <2>7. /\ t \in Seq(Ranges) /\ Len(t) = IF 1 <= first - 1 THEN first - 1 - 1 + 1 ELSE 0
        /\ \A i \in 1..(first - 1 - 1 + 1) : t[i] = ranges[1 + i - 1]
    BY <2>5, <2>6, SubSeqProperties
  <2> HIDE DEF t
  <2>8. DOMAIN t = 1..(first - 1) /\ \A i \in 1..(first - 1) : t[i] = ranges[i]
    <3>1. Len(t) = first - 1 /\ first - 1 - 1 + 1 = first - 1
      BY <2>6, <2>7
    <3> QED BY <2>6, <2>7, <3>1, SeqLemma
  <2>9. Sound(t) /\ \A i \in DOMAIN t : Fits(t[i])
    BY <2>5, <2>7, <2>8 DEF Sound
  <2> QED BY <1>2, <2>1, <2>9
<1> QED BY <1>3, <1>4

LEMMA Widen ==
  ASSUME NEW s, Sound(s), NEW A \in SUBSET Ranges, Inside(s, A), NEW b \in Ranges,
         \A a \in A : b.from <= a.from /\ a.to <= b.to
  PROVE  Inside(s, {b})
<1> SUFFICES ASSUME NEW i \in DOMAIN s
             PROVE  b.from <= s[i].from /\ s[i].to <= b.to
  BY DEF Inside
<1>1. PICK a \in A : a.from <= s[i].from /\ s[i].to <= a.to
  BY DEF Inside
<1>2. /\ s[i].from \in Nat /\ s[i].to \in Nat
      /\ a.from \in Nat /\ a.to \in Nat /\ b.from \in Nat /\ b.to \in Nat
  BY SeqLemma DEF Sound, Ranges
<1>3. b.from <= a.from /\ a.to <= b.to
  OBVIOUS
<1> QED BY <1>1, <1>2, <1>3

-----------------------------------------------------------------------------
\* Where each artefact goes.

GdtArea == Span(GDT, \h28)
TableArea == Span(PML4, 3 * \h1000)
CmdlineArea == Span(Cmdline, config.cmdline.len + 1)
PageArea == Span(ZeroPage, \h1000)

LEMMA GdtLemma ==
  Sound(GdtRanges) /\ Apart(GdtRanges) /\ Inside(GdtRanges, {GdtArea})
<1> DEFINE s == GdtRanges
<1>1. /\ s \in Seq(Ranges) /\ DOMAIN s = 1..2
      /\ s[1].from = \h500 /\ s[1].to = \h520 /\ s[2].from = \h520 /\ s[2].to = \h528
  BY DEF GdtRanges, Span, Ranges, GDT, IDT
<1>2. GdtArea.from = \h500 /\ GdtArea.to = \h528
  BY DEF GdtArea, Span, GDT
<1>3. \A i \in 1..2 : i = 1 \/ i = 2
  OBVIOUS
<1> HIDE DEF s
<1>4. Sound(s) /\ Inside(s, {GdtArea})
  BY <1>1, <1>2, <1>3 DEF Sound, Inside
<1>5. Apart(s)
  BY <1>1, <1>3 DEF Apart, Overlap
<1> QED BY <1>4, <1>5 DEF s

LEMMA TableLemma ==
  Sound(TableRanges) /\ Apart(TableRanges) /\ Inside(TableRanges, {TableArea})
<1> DEFINE s == TableRanges
<1>1. /\ s \in Seq(Ranges) /\ DOMAIN s = 1..3
      /\ s[1].from = \h9000 /\ s[1].to = \h9008 /\ s[2].from = \ha000 /\ s[2].to = \ha008
      /\ s[3].from = \hb000 /\ s[3].to = \hc000
  BY DEF TableRanges, Span, Ranges, PML4, PDPTE, PDE
<1>2. TableArea.from = \h9000 /\ TableArea.to = \hc000
  BY DEF TableArea, Span, PML4
<1>3. \A i \in 1..3 : i = 1 \/ i = 2 \/ i = 3
  OBVIOUS
<1> HIDE DEF s
<1>4. Sound(s) /\ Inside(s, {TableArea})
  BY <1>1, <1>2, <1>3 DEF Sound, Inside
<1>5. Apart(s)
  BY <1>1, <1>3 DEF Apart, Overlap
<1> QED BY <1>4, <1>5 DEF s

LEMMA CmdlineLemma ==
  ASSUME config.cmdline.len \in Nat
  PROVE  Sound(CmdlineRanges) /\ Apart(CmdlineRanges) /\ Inside(CmdlineRanges, {CmdlineArea})
<1> DEFINE s == CmdlineRanges
           n == config.cmdline.len
<1>1. /\ s \in Seq(Ranges) /\ DOMAIN s = 1..2
      /\ s[1].from = \h20000 /\ s[1].to = \h20000 + n
      /\ s[2].from = \h20000 + n /\ s[2].to = \h20000 + n + 1
  BY DEF CmdlineRanges, Span, Ranges, Cmdline
<1>2. CmdlineArea.from = \h20000 /\ CmdlineArea.to = \h20000 + n + 1
  BY DEF CmdlineArea, Span, Cmdline
<1>3. \A i \in 1..2 : i = 1 \/ i = 2
  OBVIOUS
<1>4. n \in Nat
  OBVIOUS
<1> HIDE DEF s, n
<1>5. Sound(s) /\ Inside(s, {CmdlineArea})
  BY <1>1, <1>2, <1>3, <1>4 DEF Sound, Inside
<1>6. Apart(s)
  BY <1>1, <1>3, <1>4 DEF Apart, Overlap
<1> QED BY <1>5, <1>6 DEF s

HeaderArea == Span(ZeroPage + \h1fe, \h3e)
MapArea == Span(ZeroPage + \h2d0, 20)
CountArea == Span(ZeroPage + \h1e8, 1)

LEMMA HeaderLemma ==
  Sound(HeaderRanges) /\ Apart(HeaderRanges) /\ Inside(HeaderRanges, {HeaderArea})
<1> DEFINE s == HeaderRanges
<1>1. s \in Seq(Ranges) /\ DOMAIN s = 1..7
  BY DEF HeaderRanges, Span, Ranges, ZeroPage
<1>2. /\ s[1].from = \h71fe /\ s[1].to = \h7200 /\ s[2].from = \h7202 /\ s[2].to = \h7206
      /\ s[3].from = \h7206 /\ s[3].to = \h7208 /\ s[4].from = \h7210 /\ s[4].to = \h7211
      /\ s[5].from = \h7230 /\ s[5].to = \h7234 /\ s[6].from = \h7228 /\ s[6].to = \h722c
      /\ s[7].from = \h7238 /\ s[7].to = \h723c
  BY DEF HeaderRanges, Span, ZeroPage
<1>3. HeaderArea.from = \h71fe /\ HeaderArea.to = \h723c
  BY DEF HeaderArea, Span, ZeroPage
<1>4. \A i \in 1..7 : i = 1 \/ i = 2 \/ i = 3 \/ i = 4 \/ i = 5 \/ i = 6 \/ i = 7
  OBVIOUS
<1> HIDE DEF s
<1>5. Sound(s) /\ Inside(s, {HeaderArea})
  <2>1. \A i \in 1..7 : \h71fe <= s[i].from /\ s[i].from <= s[i].to /\ s[i].to <= \h723c
    BY <1>2, <1>4
  <2> QED BY <1>1, <1>3, <2>1 DEF Sound, Inside
<1>6. Apart(s)
  BY <1>1, <1>2, <1>4 DEF Apart, Overlap
<1> QED BY <1>5, <1>6 DEF s

LEMMA PageLemma ==
  LET s == HeaderRanges \o MapRanges \o CountRanges
  IN  Sound(s) /\ Apart(s) /\ Inside(s, {PageArea})
<1> DEFINE s == HeaderRanges \o MapRanges
           t == s \o CountRanges
<1>1. /\ HeaderArea \in Ranges /\ HeaderArea.from = \h71fe /\ HeaderArea.to = \h723c
      /\ MapArea \in Ranges /\ MapArea.from = \h72d0 /\ MapArea.to = \h72e4
      /\ CountArea \in Ranges /\ CountArea.from = \h71e8 /\ CountArea.to = \h71e9
      /\ PageArea \in Ranges /\ PageArea.from = \h7000 /\ PageArea.to = \h8000
  BY DEF HeaderArea, MapArea, CountArea, PageArea, Span, Ranges, ZeroPage
<1>2. Sound(MapRanges) /\ Apart(MapRanges) /\ Inside(MapRanges, {MapArea})
  <2>1. CASE MemBytes > HighMemory
    <3>1. MapRanges = <<MapArea>>
      BY <2>1 DEF MapRanges, MapArea
    <3>2. Sound(<<MapArea>>) /\ Apart(<<MapArea>>) /\ Inside(<<MapArea>>, {MapArea})
      BY <1>1, OneRange
    <3> QED BY <3>1, <3>2
  <2>2. CASE ~(MemBytes > HighMemory)
    <3>1. MapRanges = << >>
      BY <2>2 DEF MapRanges
    <3> QED BY <3>1 DEF Sound, Apart, Inside
  <2> QED BY <2>1, <2>2
<1>3. Sound(CountRanges) /\ Apart(CountRanges) /\ Inside(CountRanges, {CountArea})
  <2>1. CountRanges = <<CountArea>>
    BY DEF CountRanges, CountArea
  <2>2. Sound(<<CountArea>>) /\ Apart(<<CountArea>>) /\ Inside(<<CountArea>>, {CountArea})
    BY <1>1, OneRange
  <2> QED BY <2>1, <2>2
<1>4. Sound(s) /\ Apart(s) /\ Inside(s, {HeaderArea, MapArea})
  <2>1. Separate({HeaderArea}, {MapArea})
    BY <1>1 DEF Separate
  <2>2. {HeaderArea} \in SUBSET Ranges /\ {MapArea} \in SUBSET Ranges
    BY <1>1
  <2>3. Sound(s) /\ Apart(s) /\ Inside(s, {HeaderArea} \cup {MapArea})
    BY <1>2, <2>1, <2>2, HeaderLemma, JoinLemma
  <2>4. {HeaderArea} \cup {MapArea} = {HeaderArea, MapArea}
    OBVIOUS
  <2> QED BY <2>3, <2>4
<1> HIDE DEF s
<1>5. Sound(t) /\ Apart(t) /\ Inside(t, {HeaderArea, MapArea} \cup {CountArea})
  <2>1. Separate({HeaderArea, MapArea}, {CountArea})
    BY <1>1 DEF Separate
  <2>2. {HeaderArea, MapArea} \in SUBSET Ranges /\ {CountArea} \in SUBSET Ranges
    BY <1>1
  <2> QED BY <1>3, <1>4, <2>1, <2>2, JoinLemma
<1> HIDE DEF t
<1>6. Inside(t, {PageArea})
  <2>1. {HeaderArea, MapArea} \cup {CountArea} \in SUBSET Ranges
    BY <1>1
  <2>2. \A a \in {HeaderArea, MapArea} \cup {CountArea} :
          PageArea.from <= a.from /\ a.to <= PageArea.to
    BY <1>1
  <2> QED BY <1>1, <1>5, <2>1, <2>2, Widen
<1>7. Sound(t) /\ Apart(t) /\ Inside(t, {PageArea})
  BY <1>5, <1>6
<1> QED BY <1>7 DEF s, t

\* The memory a segment takes.
Room(s) == Span(s.paddr, IF s.memsz > s.filesz THEN s.memsz ELSE s.filesz)

LEMMA SegmentLemma ==
  ASSUME NEW s \in Segment
  PROVE  /\ Room(s) \in Ranges /\ Room(s).from = s.paddr
         /\ LET r == SegmentRanges(s)
            IN  /\ Sound(r) /\ Apart(r) /\ Inside(r, {Room(s)})
                /\ (\A i \in DOMAIN r : Fits(r[i])) => Room(s).to <= ram
<1> DEFINE r == SegmentRanges(s)
<1>1. s.paddr \in Nat /\ s.filesz \in Nat /\ s.memsz \in Nat
  BY DEF Segment
<1>2. Room(s) \in Ranges /\ Room(s).from = s.paddr
  BY <1>1 DEF Room, Span, Ranges
<1>3. Sound(r) /\ Apart(r) /\ Inside(r, {Room(s)})
      /\ ((\A i \in DOMAIN r : Fits(r[i])) => Room(s).to <= ram)
  <2>1. CASE s.memsz > s.filesz
    <3>1. r = <<Span(s.paddr, s.filesz), ZeroFill(s)>>
      BY <2>1 DEF SegmentRanges
    <3>2. /\ Span(s.paddr, s.filesz) \in Ranges /\ ZeroFill(s) \in Ranges
          /\ Span(s.paddr, s.filesz).from = s.paddr
          /\ Span(s.paddr, s.filesz).to = s.paddr + s.filesz
          /\ ZeroFill(s).from = s.paddr + s.filesz /\ ZeroFill(s).to = s.paddr + s.memsz
      BY <1>1, <2>1 DEF ZeroFill, Span, Ranges
    <3>3. Room(s).to = s.paddr + s.memsz
      BY <2>1 DEF Room, Span
    <3>4. /\ r \in Seq(Ranges) /\ DOMAIN r = 1..2
          /\ r[1] = Span(s.paddr, s.filesz) /\ r[2] = ZeroFill(s)
      BY <3>1, <3>2
    <3>5. /\ r[1].from = s.paddr /\ r[1].to = s.paddr + s.filesz
          /\ r[2].from = s.paddr + s.filesz /\ r[2].to = s.paddr + s.memsz
      BY <3>2, <3>4
    <3>6. \A i \in 1..2 : i = 1 \/ i = 2
      OBVIOUS
    <3> HIDE DEF r
    <3>7. Sound(r) /\ Inside(r, {Room(s)})
      BY <1>1, <1>2, <2>1, <3>3, <3>4, <3>5, <3>6 DEF Sound, Inside
    <3>8. Apart(r)
      BY <1>1, <2>1, <3>4, <3>5, <3>6 DEF Apart, Overlap
    <3>9. (\A i \in DOMAIN r : Fits(r[i])) => Room(s).to <= ram
      <4>1. 2 \in DOMAIN r
        BY <3>4
      <4> QED BY <3>3, <3>5, <4>1 DEF Fits
    <3> QED BY <3>7, <3>8, <3>9
  <2>2. CASE ~(s.memsz > s.filesz)
    <3>1. r = <<Room(s)>>
      BY <2>2 DEF SegmentRanges, Room
    <3>2. Room(s).from <= Room(s).to
      BY <1>1, <2>2 DEF Room, Span
    <3>3. Sound(<<Room(s)>>) /\ Apart(<<Room(s)>>) /\ Inside(<<Room(s)>>, {Room(s)})
      BY <1>1, <1>2, <3>2, OneRange DEF Ranges
    <3>4. 1 \in DOMAIN r /\ r[1] = Room(s)
      BY <3>1
    <3>5. (\A i \in DOMAIN r : Fits(r[i])) => Room(s).to <= ram
      BY <3>4 DEF Fits
    <3> QED BY <3>1, <3>3, <3>5
  <2> QED BY <2>1, <2>2
<1> QED BY <1>2, <1>3

-----------------------------------------------------------------------------
\* The invariant.

\* The areas of the artefacts that are in memory at step p.
Artefacts(p) ==
  IF p \in {"config", "ram", "gdt", "err"} THEN {}
  ELSE IF p = "tables" THEN {GdtArea}
  ELSE IF p = "cmdline" THEN {GdtArea, TableArea}
  ELSE IF p = "zero page" THEN {GdtArea, TableArea, CmdlineArea}
  ELSE {GdtArea, TableArea, CmdlineArea, PageArea}

\* And those of the segments before segment n.
Extents(n) == {Extent(i) : i \in 1..(n - 1)}

Written == Artefacts(pc) \cup Extents(segment)

\* The kernel and command line of which nothing is covered.
Linked == HighKernel /\ Cmdline + config.cmdline.len < HighMemory

LogInv == Sound(log) /\ \A i \in DOMAIN log : Fits(log[i])

\* What was done by each step.
OrderInv ==
  /\ pc \in {"config", "ram", "gdt"} => log = << >>
  /\ pc \in Steps \ {"kernel", "registers"} => kernel = << >> /\ segment = 1
  /\ pc \in {"registers", "ready"} => segment = Len(kernel) + 1
  /\ pc \notin {"config", "ram", "err"} => ram = config.min_ram * MiB /\ config.min_ram < UsizeMiB
  /\ pc \in {"file", "kernel", "registers", "ready"} =>
       e820 = IF MemBytes > HighMemory THEN {HighRam} ELSE {}

PlaceInv ==
  pc # "err" =>
    /\ \A i \in 1..(segment - 1) : Extent(i).to <= ram
    /\ Inside(log, Written)
    /\ Linked => Apart(log)

BootInv == TypeOK /\ LogInv /\ OrderInv /\ PlaceInv

LEMMA ConfigLemma ==
  ASSUME TypeOK
  PROVE  /\ IsConfig(config) /\ config.cmdline.len \in Nat /\ config.min_ram \in Nat
         /\ UsizeMiB \in Nat /\ UsizeMiB # 0
<1>1. IsConfig(config)
  BY BootAssumption DEF TypeOK
<1>2. config.cmdline \in [len : Nat, blank : BOOLEAN] /\ config.min_ram \in Nat
  BY <1>1 DEF IsConfig
<1>3. config.cmdline.len \in Nat
  BY <1>2
<1> QED BY <1>1, <1>2, <1>3, BootAssumption

LEMMA KernelLemma ==
  ASSUME TypeOK
  PROVE  /\ kernel \in Seq(Segment) /\ Len(kernel) \in Nat /\ DOMAIN kernel = 1..Len(kernel)
         /\ segment \in 1..(Len(kernel) + 1)
         /\ \A i \in DOMAIN kernel :
              /\ kernel[i] \in Segment /\ Extent(i) = Room(kernel[i])
              /\ Extent(i) \in Ranges /\ Extent(i).from = kernel[i].paddr
<1>1. kernel \in Seq(Segment)
  <2>1. CASE kernel = << >>
    BY <2>1
  <2>2. CASE kernel \in Kernels
    BY <2>2, BootAssumption
  <2> QED BY <2>1, <2>2 DEF TypeOK
<1>2. Len(kernel) \in Nat /\ DOMAIN kernel = 1..Len(kernel)
  BY <1>1, LenProperties
<1>3. ASSUME NEW i \in DOMAIN kernel
      PROVE  /\ kernel[i] \in Segment /\ Extent(i) = Room(kernel[i])
             /\ Extent(i) \in Ranges /\ Extent(i).from = kernel[i].paddr
  <2>1. kernel[i] \in Segment
    BY <1>1, <1>2, ElementOfSeq
  <2>2. Extent(i) = Room(kernel[i])
    BY DEF Extent, Room
  <2>3. Room(kernel[i]) \in Ranges /\ Room(kernel[i]).from = kernel[i].paddr
    BY <2>1, SegmentLemma
  <2> QED BY <2>1, <2>2, <2>3
<1>4. segment \in 1..(Len(kernel) + 1)
  BY DEF TypeOK
<1> QED BY <1>1, <1>2, <1>3, <1>4

LEMMA AreaLemma ==
  ASSUME TypeOK
  PROVE  /\ GdtArea \in Ranges /\ GdtArea.from = \h500 /\ GdtArea.to = \h528
         /\ TableArea \in Ranges /\ TableArea.from = \h9000 /\ TableArea.to = \hc000
         /\ CmdlineArea \in Ranges /\ CmdlineArea.from = \h20000
         /\ CmdlineArea.to = \h20000 + config.cmdline.len + 1
         /\ PageArea \in Ranges /\ PageArea.from = \h7000 /\ PageArea.to = \h8000
<1>1. config.cmdline.len \in Nat
  BY ConfigLemma
<1>2. GdtArea \in Ranges /\ GdtArea.from = \h500 /\ GdtArea.to = \h528
  BY DEF GdtArea, Span, Ranges, GDT
<1>3. TableArea \in Ranges /\ TableArea.from = \h9000 /\ TableArea.to = \hc000
  BY DEF TableArea, Span, Ranges, PML4
<1>4. PageArea \in Ranges /\ PageArea.from = \h7000 /\ PageArea.to = \h8000
  BY DEF PageArea, Span, Ranges, ZeroPage
<1>5. /\ CmdlineArea \in Ranges /\ CmdlineArea.from = \h20000
      /\ CmdlineArea.to = \h20000 + config.cmdline.len + 1
  BY <1>1 DEF CmdlineArea, Span, Ranges, Cmdline
<1> QED BY <1>2, <1>3, <1>4, <1>5

LEMMA WrittenLemma ==
  ASSUME TypeOK, NEW p
  PROVE  /\ Artefacts(p) \subseteq {GdtArea, TableArea, CmdlineArea, PageArea}
         /\ Artefacts(p) \in SUBSET Ranges
         /\ Extents(segment) \in SUBSET Ranges
         /\ Written \in SUBSET Ranges
<1>1. \A q : Artefacts(q) \subseteq {GdtArea, TableArea, CmdlineArea, PageArea}
  BY DEF Artefacts
<1>2. {GdtArea, TableArea, CmdlineArea, PageArea} \in SUBSET Ranges
  BY AreaLemma
<1>3. Extents(segment) \in SUBSET Ranges
  <2>1. \A i \in 1..(segment - 1) : i \in DOMAIN kernel
    BY KernelLemma
  <2> QED BY <2>1, KernelLemma DEF Extents
<1>4. \A q : Artefacts(q) \in SUBSET Ranges
  BY <1>1, <1>2
<1> QED BY <1>1, <1>3, <1>4 DEF Written

\* The size run_vm computes again is the size of RAM.
LEMMA SameSize ==
  ASSUME TypeOK, ram = config.min_ram * MiB, config.min_ram < UsizeMiB
  PROVE  MemBytes = ram
<1>1. config.min_ram \in Nat /\ UsizeMiB \in Nat /\ UsizeMiB # 0
  BY ConfigLemma
<1>2. config.min_ram % UsizeMiB = config.min_ram
  BY <1>1
<1> QED BY <1>2 DEF MemBytes

LEMMA ValidSuits ==
  ASSUME NEW c, IsConfig(c), Valid(c)
  PROVE  Suits(c)
<1>1. c.min_ram \in Nat /\ c.min_cpu_shares \in Nat /\ c.max_cpu_shares \in Nat
  BY DEF IsConfig
<1>2. /\ c.min_ram # 0 /\ c.min_cpu_shares # 0 /\ c.max_cpu_shares >= c.min_cpu_shares
      /\ ~(c.min_cpu_shares > ShareLimit \/ c.max_cpu_shares > ShareLimit)
  BY DEF Valid, SharesInRange
<1> QED BY <1>1, <1>2 DEF Suits, ShareLimit

\* A step that writes ranges of an area of their own.
LEMMA WriteStep ==
  ASSUME BootInv, pc # "err", NEW ranges, NEW next, NEW B \in SUBSET Ranges,
         Sound(ranges), Apart(ranges), Inside(ranges, B),
         Write(ranges, next), UNCHANGED setting
  PROVE  /\ LogInv'
         /\ \/ /\ pc' = next
               /\ \A i \in DOMAIN ranges : Fits(ranges[i])
               /\ Inside(log', Written \cup B)
               /\ Linked /\ Separate(Written, B) => Apart(log')
            \/ pc' = "err"
<1>1. Sound(log) /\ \A i \in DOMAIN log : Fits(log[i])
  BY DEF BootInv, LogInv
<1>2. /\ \/ /\ pc' = next /\ log' = log \o ranges
            /\ \A i \in DOMAIN ranges : Fits(ranges[i])
         \/ pc' = "err"
      /\ Sound(log')
      /\ \A i \in DOMAIN log' : Fits(log'[i])
  BY <1>1, WriteLemma
<1>3. LogInv'
  BY <1>2 DEF LogInv, Sound, Fits, setting
<1>4. Inside(log, Written) /\ (Linked => Apart(log)) /\ Written \in SUBSET Ranges
  BY WrittenLemma DEF BootInv, PlaceInv
<1>5. CASE pc' = next /\ log' = log \o ranges /\ \A i \in DOMAIN ranges : Fits(ranges[i])
  <2>1. /\ Inside(log \o ranges, Written \cup B)
        /\ Apart(log) /\ Apart(ranges) /\ Separate(Written, B) => Apart(log \o ranges)
    BY <1>1, <1>4, JoinLemma
  <2> QED BY <1>3, <1>4, <1>5, <2>1
<1> QED BY <1>2, <1>3, <1>5

-----------------------------------------------------------------------------
\* The steps.

LEMMA SameAreas ==
  ASSUME UNCHANGED setting
  PROVE  /\ Written' = Artefacts(pc') \cup Extents(segment')
         /\ Linked' <=> Linked
         /\ \A i : Extent(i)' = Extent(i)
         /\ MemBytes' = MemBytes /\ HighRam' = HighRam
<1>1. config' = config /\ ram' = ram /\ kernel' = kernel
  BY DEF setting
<1>2. \A i : Extent(i)' = Extent(i)
  BY <1>1 DEF Extent
<1>3. Linked' <=> Linked
  BY <1>1, <1>2 DEF Linked, HighKernel
<1>4. MemBytes' = MemBytes /\ HighRam' = HighRam
  BY <1>1 DEF MemBytes, HighRam
<1>5. Written' = Artefacts(pc') \cup Extents(segment')
  <2>1. Extents(segment)' = Extents(segment')
    BY <1>2 DEF Extents
  <2>2. /\ GdtArea' = GdtArea /\ TableArea' = TableArea /\ PageArea' = PageArea
        /\ CmdlineArea' = CmdlineArea
    BY <1>1 DEF GdtArea, TableArea, CmdlineArea, PageArea
  <2>3. Artefacts(pc)' = Artefacts(pc')
    BY <2>2 DEF Artefacts
  <2> QED BY <2>1, <2>3 DEF Written
<1> QED BY <1>2, <1>3, <1>4, <1>5

LEMMA NoneBefore ==
  ASSUME NEW n, n = 1
  PROVE  1..(n - 1) = {}
OBVIOUS

LEMMA InRam ==
  ASSUME NEW s, NEW size, Sound(s), \A i \in DOMAIN s : s[i].to <= size
  PROVE  \A i \in DOMAIN s : 0 <= s[i].from /\ s[i].from <= s[i].to /\ s[i].to <= size
BY SeqLemma DEF Sound

\* A step that was refused keeps what there is.
LEMMA Refused ==
  ASSUME BootInv, pc' = "err", LogInv', UNCHANGED <<config, kernel, ram>>,
         segment' \in 1..(Len(kernel) + 1)
  PROVE  BootInv'
<1>1. OrderInv' /\ PlaceInv'
  BY DEF OrderInv, PlaceInv, Steps
<1>2. TypeOK'
  <2>1. \A i \in DOMAIN log' : 0 <= log'[i].from /\ log'[i].from <= log'[i].to /\ log'[i].to <= ram'
    <3>1. Sound(log') /\ \A i \in DOMAIN log' : log'[i].to <= ram'
      BY DEF LogInv, Fits, Sound
    <3> QED BY <3>1, InRam
  <2> QED BY <2>1 DEF BootInv, TypeOK
<1> QED BY <1>1, <1>2 DEF BootInv

\* The first five steps put each artefact into an area that is free.
LEMMA ArtefactStep ==
  ASSUME BootInv, NEW ranges, NEW next \in {"tables", "cmdline", "zero page", "file"},
         NEW area \in Ranges, pc \in {"gdt", "tables", "cmdline", "zero page"},
         Sound(ranges), Apart(ranges), Inside(ranges, {area}),
         Separate(Artefacts(pc), {area}), Artefacts(pc) \cup {area} \subseteq Artefacts(next),
         Write(ranges, next), UNCHANGED <<setting, segment>>,
         next = "file" => e820' = IF MemBytes > HighMemory THEN {HighRam} ELSE {}
  PROVE  BootInv'
<1>1. UNCHANGED setting /\ segment' = segment
  OBVIOUS
<1>2. config' = config /\ ram' = ram /\ kernel' = kernel
  BY DEF setting
<1>3. /\ LogInv'
      /\ \/ /\ pc' = next
            /\ Inside(log', Written \cup {area})
            /\ Linked /\ Separate(Written, {area}) => Apart(log')
         \/ pc' = "err"
  <2>1. pc # "err" /\ {area} \in SUBSET Ranges
    OBVIOUS
  <2> QED BY <1>1, <2>1, WriteStep
<1>4. TypeOK /\ OrderInv /\ PlaceInv
  BY DEF BootInv
<1>5. segment' \in 1..(Len(kernel) + 1)
  BY <1>1, <1>4 DEF TypeOK
<1>6. CASE pc' = "err"
  BY <1>2, <1>3, <1>5, <1>6, Refused
<1>7. CASE pc' = next /\ pc' # "err"
  <2>1. kernel = << >> /\ segment = 1 /\ ram = config.min_ram * MiB /\ config.min_ram < UsizeMiB
    BY <1>4 DEF OrderInv, Steps
  <2>2. Written = Artefacts(pc) /\ Written' = Artefacts(next)
    <3>2. Extents(segment) = {}
      BY <2>1, NoneBefore DEF Extents
    <3>3. Written' = Artefacts(pc') \cup Extents(segment')
      BY <1>1, SameAreas
    <3> QED BY <1>1, <1>7, <3>2, <3>3 DEF Written
  <2>3. 1..(segment' - 1) = {}
    BY <1>1, <2>1, NoneBefore
  <2>4. PlaceInv'
    <3>1. Inside(log', Written')
      <4>1. Written \cup {area} \subseteq Written'
        BY <2>2
      <4> QED BY <1>3, <1>7, <4>1, InsideMore
    <3>2. Linked' => Apart(log')
      BY <1>1, <1>3, <1>7, <2>2, SameAreas
    <3> QED BY <2>3, <3>1, <3>2 DEF PlaceInv, Apart, Inside, Overlap
  <2>5. OrderInv'
    <3>1. pc' \in {"tables", "cmdline", "zero page", "file"}
      BY <1>7
    <3>2. pc' = "file" => e820' = IF MemBytes' > HighMemory THEN {HighRam'} ELSE {}
      BY <1>1, <1>7, SameAreas
    <3> QED BY <1>1, <1>2, <2>1, <3>1, <3>2 DEF OrderInv, Steps
  <2>6. TypeOK'
    <3>1. \A i \in DOMAIN log' : 0 <= log'[i].from /\ log'[i].from <= log'[i].to /\ log'[i].to <= ram'
      <4>1. Sound(log') /\ \A i \in DOMAIN log' : log'[i].to <= ram'
        BY <1>3 DEF LogInv, Fits, Sound
      <4> QED BY <4>1, InRam
    <3>2. pc \notin {"config", "err"} /\ pc' \in Steps
      BY <1>7 DEF Steps
    <3> QED BY <1>1, <1>2, <1>4, <3>1, <3>2 DEF TypeOK, Suits
  <2> QED BY <1>3, <2>4, <2>5, <2>6 DEF BootInv
<1> QED BY <1>3, <1>6, <1>7

LEMMA GdtStep == BootInv /\ WriteGdt => BootInv'
<1> SUFFICES ASSUME BootInv, WriteGdt PROVE BootInv'
  OBVIOUS
<1>1. pc = "gdt" /\ Write(GdtRanges, "tables") /\ UNCHANGED <<setting, segment>>
  BY DEF WriteGdt
<1>2. Artefacts(pc) = {} /\ Artefacts("tables") = {GdtArea}
  BY <1>1 DEF Artefacts
<1>3. GdtArea \in Ranges /\ Separate(Artefacts(pc), {GdtArea})
  BY <1>2, AreaLemma DEF Separate, BootInv
<1> QED BY <1>1, <1>2, <1>3, GdtLemma, ArtefactStep

LEMMA TablesStep == BootInv /\ SetupPageTables => BootInv'
<1> SUFFICES ASSUME BootInv, SetupPageTables PROVE BootInv'
  OBVIOUS
<1>1. pc = "tables" /\ Write(TableRanges, "cmdline") /\ UNCHANGED <<setting, segment>>
  BY DEF SetupPageTables
<1>2. Artefacts(pc) = {GdtArea} /\ Artefacts("cmdline") = {GdtArea, TableArea}
  BY <1>1 DEF Artefacts
<1>3. TableArea \in Ranges /\ Separate(Artefacts(pc), {TableArea})
  BY <1>2, AreaLemma DEF Separate, BootInv
<1> QED BY <1>1, <1>2, <1>3, TableLemma, ArtefactStep

LEMMA CmdlineStep == BootInv /\ WriteCmdline => BootInv'
<1> SUFFICES ASSUME BootInv, WriteCmdline PROVE BootInv'
  OBVIOUS
<1>1. pc = "cmdline" /\ Write(CmdlineRanges, "zero page") /\ UNCHANGED <<setting, segment>>
  BY DEF WriteCmdline
<1>2. /\ Artefacts(pc) = {GdtArea, TableArea}
      /\ Artefacts("zero page") = {GdtArea, TableArea, CmdlineArea}
  BY <1>1 DEF Artefacts
<1>3. TypeOK /\ config.cmdline.len \in Nat
  BY ConfigLemma DEF BootInv
<1>4. CmdlineArea \in Ranges /\ Separate(Artefacts(pc), {CmdlineArea})
  <2>1. GdtArea.to <= CmdlineArea.from /\ TableArea.to <= CmdlineArea.from
    BY <1>3, AreaLemma
  <2>2. CmdlineArea \in Ranges
    BY <1>3, AreaLemma
  <2> QED BY <1>2, <2>1, <2>2 DEF Separate
<1> QED BY <1>1, <1>2, <1>3, <1>4, CmdlineLemma, ArtefactStep

LEMMA PageStep == BootInv /\ WriteZeroPage => BootInv'
<1> SUFFICES ASSUME BootInv, WriteZeroPage PROVE BootInv'
  OBVIOUS
<1> DEFINE s == HeaderRanges \o MapRanges \o CountRanges
<1>1. /\ pc = "zero page" /\ Write(s, "file") /\ UNCHANGED <<setting, segment>>
      /\ e820' = IF MemBytes > HighMemory THEN {HighRam} ELSE {}
  BY DEF WriteZeroPage
<1>2. /\ Artefacts(pc) = {GdtArea, TableArea, CmdlineArea}
      /\ Artefacts("file") = {GdtArea, TableArea, CmdlineArea, PageArea}
  BY <1>1 DEF Artefacts
<1>3. PageArea \in Ranges /\ Separate(Artefacts(pc), {PageArea})
  BY <1>2, AreaLemma DEF Separate, BootInv
<1>4. Sound(s) /\ Apart(s) /\ Inside(s, {PageArea})
  BY PageLemma
<1> HIDE DEF s
<1> QED BY <1>1, <1>2, <1>3, <1>4, ArtefactStep

LEMMA ConfigStep == BootInv /\ LoadConfig => BootInv'
<1> SUFFICES ASSUME BootInv, LoadConfig PROVE BootInv'
  OBVIOUS
<1>1. /\ pc = "config" /\ pc' = IF Valid(config) THEN "ram" ELSE "err"
      /\ UNCHANGED setting /\ segment' = segment /\ log' = log /\ e820' = e820
  BY DEF LoadConfig
<1>2. config' = config /\ ram' = ram /\ kernel' = kernel
  BY <1>1 DEF setting
<1>3. TypeOK /\ log = << >> /\ kernel = << >> /\ segment = 1
  BY <1>1 DEF BootInv, OrderInv, Steps
<1>4. pc' \notin {"config", "err"} => Suits(config)
  BY <1>1, <1>3, ConfigLemma, ValidSuits
<1>5. TypeOK'
  BY <1>1, <1>2, <1>3, <1>4 DEF TypeOK, Suits, Steps
<1>6. LogInv'
  BY <1>1, <1>2, <1>3 DEF BootInv, LogInv, Sound, Fits
<1>7. OrderInv'
  BY <1>1, <1>2, <1>3 DEF OrderInv
<1>8. PlaceInv'
  <2>1. 1..(segment' - 1) = {} /\ log' = << >>
    BY <1>1, <1>3, NoneBefore
  <2> QED BY <2>1 DEF PlaceInv, Inside, Apart
<1> QED BY <1>5, <1>6, <1>7, <1>8 DEF BootInv

LEMMA RamStep == BootInv /\ AllocateRam => BootInv'
<1> SUFFICES ASSUME BootInv, AllocateRam PROVE BootInv'
  OBVIOUS
<1>1. /\ pc = "ram" /\ config' = config /\ kernel' = kernel
      /\ segment' = segment /\ log' = log /\ e820' = e820
  BY DEF AllocateRam
<1>2. TypeOK /\ log = << >> /\ kernel = << >> /\ segment = 1
  BY <1>1 DEF BootInv, OrderInv, Steps
<1>3. \/ /\ pc' = "gdt" /\ ram' = config.min_ram * MiB /\ config.min_ram < UsizeMiB
      \/ pc' = "err" /\ ram' = ram
  BY DEF AllocateRam, RamSize
<1>4. ram' \in Nat
  <2>1. config.min_ram \in Nat /\ ram \in Nat /\ MiB \in Nat
    BY <1>2, ConfigLemma DEF TypeOK, MiB
  <2>2. \A a, b \in Nat : a * b \in Nat
    OBVIOUS
  <2> QED BY <1>3, <2>1, <2>2
<1>5. Suits(config)
  BY <1>1, <1>2 DEF TypeOK
<1>6. TypeOK'
  <2>1. config' \in Configs /\ kernel' \in Kernels \cup {<< >>} /\ segment' \in 1..(Len(kernel') + 1)
    BY <1>1, <1>2 DEF TypeOK
  <2>2. pc' \in Steps \cup {"ready", "err"} /\ Suits(config)'
    BY <1>1, <1>3, <1>5 DEF Steps, Suits
  <2>3. DOMAIN log' = {}
    BY <1>1, <1>2
  <2> QED BY <1>4, <2>1, <2>2, <2>3 DEF TypeOK
<1>7. LogInv'
  BY <1>1, <1>2 DEF BootInv, LogInv, Sound, Fits
<1>8. OrderInv'
  BY <1>1, <1>2, <1>3 DEF OrderInv
<1>9. PlaceInv'
  <2>1. 1..(segment' - 1) = {} /\ log' = << >>
    BY <1>1, <1>2, NoneBefore
  <2> QED BY <2>1 DEF PlaceInv, Inside, Apart
<1> QED BY <1>6, <1>7, <1>8, <1>9 DEF BootInv

LEMMA FileStep == BootInv /\ ReadKernel => BootInv'
<1> SUFFICES ASSUME BootInv, ReadKernel PROVE BootInv'
  OBVIOUS
<1>1. /\ pc = "file" /\ config' = config /\ ram' = ram
      /\ segment' = segment /\ log' = log /\ e820' = e820
      /\ \/ kernel' \in Kernels /\ pc' = "kernel"
         \/ pc' = "err" /\ kernel' = kernel
  BY DEF ReadKernel
<1>2. /\ TypeOK /\ kernel = << >> /\ segment = 1
      /\ ram = config.min_ram * MiB /\ config.min_ram < UsizeMiB
      /\ e820 = IF MemBytes > HighMemory THEN {HighRam} ELSE {}
  BY <1>1 DEF BootInv, OrderInv, Steps
<1>3. LogInv'
  BY <1>1 DEF BootInv, LogInv, Sound, Fits
<1>4. CASE pc' = "err"
  <2>1. segment' \in 1..(Len(kernel) + 1) /\ kernel' = kernel
    BY <1>1, <1>2, <1>4 DEF TypeOK
  <2> QED BY <1>1, <1>3, <1>4, <2>1, Refused
<1>5. CASE kernel' \in Kernels /\ pc' = "kernel"
  <2>1. segment' \in 1..(Len(kernel') + 1)
    <3>1. kernel' \in Seq(Segment)
      BY <1>5, BootAssumption
    <3>2. Len(kernel') \in Nat
      BY <3>1, LenProperties
    <3> QED BY <1>1, <1>2, <3>2
  <2>2. TypeOK'
    BY <1>1, <1>2, <1>5, <2>1 DEF TypeOK, Suits, Steps
  <2>3. OrderInv'
    <3>1. MemBytes' = MemBytes /\ HighRam' = HighRam
      BY <1>1 DEF MemBytes, HighRam
    <3> QED BY <1>1, <1>2, <1>5, <3>1 DEF OrderInv, Steps
  <2>4. PlaceInv'
    <3>1. 1..(segment - 1) = {} /\ 1..(segment' - 1) = {}
      BY <1>1, <1>2, NoneBefore
    <3>2. Written = Artefacts("file") /\ Written' = Artefacts("file")
      <4>1. Extents(segment) = {} /\ Extents(segment)' = {}
        BY <3>1 DEF Extents
      <4>2. /\ GdtArea' = GdtArea /\ TableArea' = TableArea /\ PageArea' = PageArea
            /\ CmdlineArea' = CmdlineArea
        BY <1>1 DEF GdtArea, TableArea, CmdlineArea, PageArea
      <4>3. Artefacts(pc)' = Artefacts("file")
        BY <1>5, <4>2 DEF Artefacts
      <4> QED BY <1>1, <4>1, <4>3 DEF Written
    <3>3. Inside(log, Written) /\ (Linked' => Apart(log))
      <4>1. HighKernel
        <5>1. DOMAIN kernel = {}
          BY <1>2
        <5> QED BY <5>1 DEF HighKernel
      <4>2. Linked' => Linked
        BY <1>1, <4>1 DEF Linked
      <4> QED BY <1>1, <4>2 DEF BootInv, PlaceInv
    <3> QED BY <1>1, <3>1, <3>2, <3>3 DEF PlaceInv, Inside, Apart, Overlap
  <2> QED BY <1>3, <2>2, <2>3, <2>4 DEF BootInv
<1> QED BY <1>1, <1>4, <1>5

LEMMA SegmentStep == BootInv /\ LoadSegment => BootInv'
<1> SUFFICES ASSUME BootInv, LoadSegment PROVE BootInv'
  OBVIOUS
<1> DEFINE s == kernel[segment]
           area == Extent(segment)
<1>1. /\ pc = "kernel" /\ segment \in DOMAIN kernel
      /\ Write(SegmentRanges(s), "kernel") /\ segment' = segment + 1
      /\ UNCHANGED setting /\ e820' = e820
  BY DEF LoadSegment
<1>2. config' = config /\ ram' = ram /\ kernel' = kernel
  BY <1>1 DEF setting
<1>3. TypeOK /\ OrderInv /\ PlaceInv
  BY DEF BootInv
<1>4. /\ s \in Segment /\ area = Room(s) /\ area \in Ranges /\ area.from = s.paddr
      /\ Len(kernel) \in Nat /\ DOMAIN kernel = 1..Len(kernel)
      /\ \A i \in DOMAIN kernel : Extent(i) \in Ranges /\ Extent(i).from = kernel[i].paddr
  BY <1>1, <1>3, KernelLemma
<1> HIDE DEF s, area
<1>5. /\ Sound(SegmentRanges(s)) /\ Apart(SegmentRanges(s)) /\ Inside(SegmentRanges(s), {area})
      /\ (\A i \in DOMAIN SegmentRanges(s) : Fits(SegmentRanges(s)[i])) => area.to <= ram
  BY <1>4, SegmentLemma
<1>6. /\ LogInv'
      /\ \/ /\ pc' = "kernel" /\ area.to <= ram
            /\ Inside(log', Written \cup {area})
            /\ Linked /\ Separate(Written, {area}) => Apart(log')
         \/ pc' = "err"
  <2>1. pc # "err" /\ {area} \in SUBSET Ranges
    BY <1>1, <1>4
  <2> QED BY <1>1, <1>5, <2>1, WriteStep
<1>7. segment' \in 1..(Len(kernel) + 1)
  BY <1>1, <1>4
<1>8. CASE pc' = "err"
  BY <1>2, <1>6, <1>7, <1>8, Refused
<1>9. CASE pc' = "kernel"
  <2>1. \A i \in 1..(segment' - 1) : i \in 1..(segment - 1) \/ i = segment
    BY <1>1, <1>4
  <2>2. Written' = Written \cup {area}
    <3>1. Written' = Artefacts("kernel") \cup Extents(segment + 1)
      BY <1>1, <1>9, SameAreas
    <3>2. Extents(segment + 1) = Extents(segment) \cup {area}
      <4>1. segment \in Nat /\ segment >= 1
        BY <1>1, <1>4
      <4>2. 1..(segment + 1 - 1) = 1..(segment - 1) \cup {segment}
        BY <4>1
      <4> QED BY <4>2 DEF Extents, area
    <3> QED BY <1>1, <3>1, <3>2 DEF Written
  <2>3. PlaceInv'
    <3>1. \A i \in 1..(segment' - 1) : Extent(i)'.to <= ram'
      <4>1. \A i \in 1..(segment - 1) : Extent(i).to <= ram
        BY <1>1, <1>3 DEF PlaceInv
      <4>2. Extent(segment).to <= ram
        BY <1>6, <1>9 DEF area
      <4>3. \A i : Extent(i)' = Extent(i)
        BY <1>1, SameAreas
      <4> QED BY <1>2, <2>1, <4>1, <4>2, <4>3
    <3>2. Inside(log', Written')
      BY <1>6, <1>9, <2>2
    <3>3. ASSUME Linked PROVE Separate(Written, {area})
      <4>1. /\ area.from >= \h100000
            /\ \A i \in 1..(segment - 1) : ~Overlap(Extent(i), area)
        <5>1. \A i \in 1..(segment - 1) : i \in DOMAIN kernel /\ i # segment
          BY <1>1, <1>4
        <5> QED BY <1>1, <1>4, <3>3, <5>1 DEF Linked, HighKernel, HighMemory, area
      <4>2. \A a \in Artefacts(pc) : a.to <= area.from
        <5>1. config.cmdline.len \in Nat /\ \h20000 + config.cmdline.len < \h100000
          BY <1>3, <3>3, ConfigLemma DEF Linked, Cmdline, HighMemory
        <5>2. /\ GdtArea.to <= area.from /\ TableArea.to <= area.from
              /\ CmdlineArea.to <= area.from /\ PageArea.to <= area.from
          <6>1. area.from \in Nat
            BY <1>4 DEF Ranges
          <6> QED BY <1>3, <4>1, <5>1, <6>1, AreaLemma
        <5> QED BY <1>3, <5>2, WrittenLemma
      <4>3. \A a \in Extents(segment) : a.to <= area.from \/ area.to <= a.from
        <5> SUFFICES ASSUME NEW i \in 1..(segment - 1)
                     PROVE  Extent(i).to <= area.from \/ area.to <= Extent(i).from
          BY DEF Extents
        <5>1. i \in DOMAIN kernel
          BY <1>1, <1>4
        <5>2. Extent(i) \in Ranges /\ ~Overlap(Extent(i), area)
          BY <1>4, <4>1, <5>1
        <5> QED BY <1>4, <5>2 DEF Overlap, Ranges
      <4> QED BY <4>2, <4>3 DEF Written, Separate
    <3>4. Linked' => Apart(log')
      BY <1>1, <1>6, <1>9, <3>3, SameAreas
    <3> QED BY <3>1, <3>2, <3>4 DEF PlaceInv, Inside, Apart, Overlap
  <2>4. OrderInv'
    <3>1. MemBytes' = MemBytes /\ HighRam' = HighRam
      BY <1>1, SameAreas
    <3> QED BY <1>1, <1>2, <1>3, <1>9, <3>1 DEF OrderInv, Steps
  <2>5. TypeOK'
    <3>1. \A i \in DOMAIN log' : 0 <= log'[i].from /\ log'[i].from <= log'[i].to /\ log'[i].to <= ram'
      <4>1. Sound(log') /\ \A i \in DOMAIN log' : log'[i].to <= ram'
        BY <1>6 DEF LogInv, Fits, Sound
      <4> QED BY <4>1, InRam
    <3> QED BY <1>1, <1>2, <1>3, <1>7, <1>9, <3>1 DEF TypeOK, Suits
  <2> QED BY <1>6, <2>3, <2>4, <2>5 DEF BootInv
<1> QED BY <1>6, <1>8, <1>9

\* The three steps that write nothing after the kernel's file is read.
LEMMA LastSteps ==
  BootInv /\ (LoadFails \/ Loaded \/ SetRegisters) => BootInv'
<1> SUFFICES ASSUME BootInv, LoadFails \/ Loaded \/ SetRegisters PROVE BootInv'
  OBVIOUS
<1>1. /\ UNCHANGED setting /\ segment' = segment /\ log' = log /\ e820' = e820
      /\ pc \in {"kernel", "registers"}
      /\ \/ pc' = "err"
         \/ pc' \in {"registers", "ready"} /\ (pc = "kernel" => segment = Len(kernel) + 1)
  BY DEF LoadFails, Loaded, SetRegisters
<1>2. config' = config /\ ram' = ram /\ kernel' = kernel
  BY <1>1 DEF setting
<1>3. TypeOK /\ OrderInv /\ PlaceInv /\ LogInv
  BY DEF BootInv
<1>4. LogInv'
  BY <1>1, <1>2, <1>3 DEF LogInv, Sound, Fits
<1>5. CASE pc' = "err"
  <2>1. segment' \in 1..(Len(kernel) + 1)
    BY <1>1, <1>3 DEF TypeOK
  <2> QED BY <1>2, <1>4, <1>5, <2>1, Refused
<1>6. CASE pc' \in {"registers", "ready"} /\ (pc = "kernel" => segment = Len(kernel) + 1)
  <2>1. TypeOK'
    BY <1>1, <1>2, <1>3, <1>6 DEF TypeOK, Suits, Steps
  <2>2. OrderInv'
    <3>1. MemBytes' = MemBytes /\ HighRam' = HighRam
      BY <1>1, SameAreas
    <3>2. segment' = Len(kernel') + 1
      BY <1>1, <1>2, <1>3, <1>6 DEF OrderInv
    <3> QED BY <1>1, <1>2, <1>3, <1>6, <3>1, <3>2 DEF OrderInv, Steps
  <2>3. PlaceInv'
    <3>1. Written' = Written
      <4>1. Artefacts(pc') = Artefacts(pc)
        BY <1>1, <1>6 DEF Artefacts
      <4> QED BY <1>1, <4>1, SameAreas DEF Written
    <3>2. (Linked' <=> Linked) /\ \A i : Extent(i)' = Extent(i)
      BY <1>1, SameAreas
    <3>3. /\ \A i \in 1..(segment - 1) : Extent(i).to <= ram
          /\ Inside(log, Written) /\ (Linked => Apart(log))
      BY <1>1, <1>3 DEF PlaceInv
    <3> QED BY <1>1, <1>2, <3>1, <3>2, <3>3 DEF PlaceInv, Inside, Apart, Overlap
  <2> QED BY <1>4, <2>1, <2>2, <2>3 DEF BootInv
<1> QED BY <1>1, <1>5, <1>6

LEMMA BootInitially == Init => BootInv
<1> SUFFICES ASSUME Init PROVE BootInv
  OBVIOUS
<1>1. /\ config \in Configs /\ ram = 0 /\ kernel = << >> /\ pc = "config"
      /\ segment = 1 /\ log = << >>
  BY DEF Init
<1>2. DOMAIN log = {} /\ log \in Seq(Ranges) /\ 1..(segment - 1) = {}
  BY <1>1, NoneBefore
<1>3. TypeOK
  BY <1>1, <1>2 DEF TypeOK, Steps
<1>4. LogInv
  BY <1>2 DEF LogInv, Sound
<1>5. OrderInv
  BY <1>1 DEF OrderInv
<1>6. PlaceInv
  BY <1>2 DEF PlaceInv, Inside, Apart
<1> QED BY <1>3, <1>4, <1>5, <1>6 DEF BootInv

LEMMA BootStep == BootInv /\ [Next]_vars => BootInv'
<1> SUFFICES ASSUME BootInv, [Next]_vars PROVE BootInv'
  OBVIOUS
<1>1. CASE UNCHANGED vars
  <2>1. /\ UNCHANGED setting /\ config' = config /\ ram' = ram /\ kernel' = kernel
        /\ pc' = pc /\ segment' = segment /\ log' = log /\ e820' = e820
    BY <1>1 DEF vars, setting
  <2>2. TypeOK /\ LogInv /\ OrderInv /\ PlaceInv
    BY DEF BootInv
  <2>3. TypeOK' /\ LogInv'
    BY <2>1, <2>2 DEF TypeOK, Suits, LogInv, Sound, Fits
  <2>4. OrderInv'
    <3>1. MemBytes' = MemBytes /\ HighRam' = HighRam
      BY <2>1, SameAreas
    <3> QED BY <2>1, <2>2, <3>1 DEF OrderInv
  <2>5. PlaceInv'
    <3>1. Written' = Written
      BY <2>1, SameAreas DEF Written
    <3>2. (Linked' <=> Linked) /\ \A i : Extent(i)' = Extent(i)
      BY <2>1, SameAreas
    <3> QED BY <2>1, <2>2, <3>1, <3>2 DEF PlaceInv, Inside, Apart, Overlap
  <2> QED BY <2>3, <2>4, <2>5 DEF BootInv
<1>2. CASE Next
  BY <1>2, ConfigStep, RamStep, GdtStep, TablesStep, CmdlineStep, PageStep, FileStep,
     SegmentStep, LastSteps DEF Next
<1> QED BY <1>1, <1>2

LEMMA BootInvariant == Spec => []BootInv
BY BootInitially, BootStep, PTL DEF Spec

-----------------------------------------------------------------------------
\* The theorems.

(***************************************************************************)
(* Whatever the configuration and the kernel, a configuration that was     *)
(* accepted suits the other components, and write_slice keeps every range  *)
(* inside guest RAM, those before a refusal included.                      *)
(***************************************************************************)
THEOREM BootTypeCorrect == Spec => []TypeOK
<1>1. BootInv => TypeOK
  BY DEF BootInv
<1> QED BY <1>1, BootInvariant, PTL

(***************************************************************************)
(* When the vCPU is about to run, nothing that run_vm put into memory was  *)
(* covered by a later write, nor is any of it where the stack grows: for   *)
(* every kernel of which the segments are above 1 MiB and apart, and every *)
(* command line that ends below 1 MiB.                                     *)
(***************************************************************************)
THEOREM BootNothingOverwritten == Spec => []NothingOverwritten
<1>1. BootInv => NothingOverwritten
  <2> SUFFICES ASSUME BootInv, pc = "ready", HighKernel,
                      Cmdline + config.cmdline.len < HighMemory
               PROVE  /\ \A i \in DOMAIN log : ~Overlap(log[i], Stack)
                      /\ \A i, j \in DOMAIN log : i < j => ~Overlap(log[i], log[j])
    BY DEF NothingOverwritten
  <2>1. TypeOK /\ Sound(log) /\ Inside(log, Written) /\ Apart(log)
    BY DEF BootInv, LogInv, PlaceInv, Linked
  <2>2. ASSUME NEW a \in Written
        PROVE  a \in Ranges /\ (a.to <= \h8000 \/ \h8ff0 <= a.from)
    <3>1. a \in Ranges
      BY <2>1, WrittenLemma
    <3>2. CASE a \in Artefacts(pc)
      <4>1. a \in {GdtArea, TableArea, CmdlineArea, PageArea}
        BY <2>1, <3>2, WrittenLemma
      <4> QED BY <2>1, <3>1, <4>1, AreaLemma
    <3>3. CASE a \in Extents(segment)
      <4>1. PICK i \in 1..(segment - 1) : a = Extent(i)
        BY <3>3 DEF Extents
      <4>2. i \in DOMAIN kernel
        BY <2>1, KernelLemma
      <4>3. Extent(i).from = kernel[i].paddr /\ kernel[i].paddr >= \h100000
        BY <2>1, <4>2, KernelLemma DEF HighKernel, HighMemory
      <4> QED BY <3>1, <4>1, <4>3 DEF Ranges
    <3> QED BY <3>1, <3>2, <3>3 DEF Written
  <2>3. Stack.from = \h8000 /\ Stack.to = \h8ff0
    BY DEF Stack, Span, StackPointer
  <2>4. ASSUME NEW i \in DOMAIN log PROVE ~Overlap(log[i], Stack)
    <3>1. PICK a \in Written : a.from <= log[i].from /\ log[i].to <= a.to
      BY <2>1 DEF Inside
    <3>2. log[i].from \in Nat /\ log[i].to \in Nat
      BY <2>1, SeqLemma DEF Sound
    <3>3. a.from \in Nat /\ a.to \in Nat /\ (a.to <= \h8000 \/ \h8ff0 <= a.from)
      BY <2>2 DEF Ranges
    <3> QED BY <2>3, <3>1, <3>2, <3>3 DEF Overlap
  <2> QED BY <2>1, <2>4 DEF Apart
<1> QED BY <1>1, BootInvariant, PTL

\* A product of whole MiB is that number of them.
LEMMA WholeMiB ==
  ASSUME NEW n \in Nat
  PROVE  (n * MiB) \div MiB = n /\ (n * MiB) % MiB = 0
BY DEF MiB

(***************************************************************************)
(* A guest that starts has exactly the RAM it was configured with, though  *)
(* the size is computed twice and checked once, and its memory map is part *)
(* of that RAM and holds every segment of a kernel linked to high memory.  *)
(***************************************************************************)
THEOREM BootMemoryMapIsRam == Spec => []MemoryMapIsRam
<1>1. BootInv => MemoryMapIsRam
  <2> SUFFICES ASSUME BootInv, pc = "ready"
               PROVE  /\ ram \div MiB = config.min_ram /\ ram % MiB = 0
                      /\ \A r \in e820 : r.to <= ram
                      /\ HighKernel =>
                           \A i \in DOMAIN kernel : Extent(i).from < Extent(i).to =>
                             \E r \in e820 : r.from <= Extent(i).from /\ Extent(i).to <= r.to
    BY DEF MemoryMapIsRam
  <2>1. /\ TypeOK /\ segment = Len(kernel) + 1
        /\ ram = config.min_ram * MiB /\ config.min_ram < UsizeMiB
        /\ e820 = IF MemBytes > HighMemory THEN {HighRam} ELSE {}
        /\ \A i \in 1..(segment - 1) : Extent(i).to <= ram
    BY DEF BootInv, OrderInv, PlaceInv
  <2>2. ram \div MiB = config.min_ram /\ ram % MiB = 0
    BY <2>1, WholeMiB, ConfigLemma
  <2>3. MemBytes = ram /\ ram \in Nat
    BY <2>1, SameSize DEF TypeOK
  <2>4. HighRam.from = \h100000 /\ HighRam.to = ram
    BY <2>3 DEF HighRam, Span, HighMemory
  <2>5. \A r \in e820 : r.to <= ram
    BY <2>1, <2>3, <2>4
  <2>6. ASSUME HighKernel, NEW i \in DOMAIN kernel, Extent(i).from < Extent(i).to
        PROVE  \E r \in e820 : r.from <= Extent(i).from /\ Extent(i).to <= r.to
    <3>1. /\ Extent(i) \in Ranges /\ Extent(i).from = kernel[i].paddr
          /\ Len(kernel) \in Nat /\ DOMAIN kernel = 1..Len(kernel)
      BY <2>1, KernelLemma
    <3>2. Extent(i).from >= \h100000
      BY <2>6, <3>1 DEF HighKernel, HighMemory
    <3>3. Extent(i).to <= ram
      BY <2>1, <3>1
    <3>4. Extent(i).from \in Nat /\ Extent(i).to \in Nat
      BY <3>1 DEF Ranges
    <3>5. MemBytes > HighMemory
      BY <2>3, <2>6, <3>2, <3>3, <3>4 DEF HighMemory
    <3>6. HighRam \in e820
      BY <2>1, <3>5
    <3> QED BY <2>4, <3>2, <3>3, <3>6
  <2> QED BY <2>2, <2>5, <2>6
<1> QED BY <1>1, BootInvariant, PTL

=============================================================================
