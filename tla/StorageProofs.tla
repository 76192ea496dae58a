---------------------------- MODULE StorageProofs ----------------------------
(***************************************************************************)
(* Proofs about storage, in the order of a start: what a rootfs is opened  *)
(* as (RootfsOpen), and how an open image is served to several threads     *)
(* (SectorFile), down to the refinement of BlockDevice.  Between the two,  *)
(* RootfsFitsFile shows that open establishes what SectorFile assumes.   *)
(***************************************************************************)
EXTENDS SectorFile, RootfsOpen, TLAPS

-----------------------------------------------------------------------------
\* Opening a rootfs, for every sector size, word and set of lengths.  Admitted
\* says that what the backend checked is what it has open; SameFile, that both
\* detections of a file that stays in place agree.

\* A served file passed the checks of its format, whatever was detected.
Admitted ==
  /\ phase = "backend" => fmt \in {"Raw", "VhdFixed"}
  /\ Served =>
       /\ (fmt = "Raw" /\ RawAccepts(opened)) \/ (fmt = "VhdFixed" /\ VhdAccepts(opened))
       /\ sectors = PayloadSectors(opened)

ServedInv == OpenTypeOK /\ Admitted

\* What detect_format makes of a file that is not rejected.
Verdict ==
  IF ext = "raw" THEN "Raw"
  ELSE IF ext = "vhdx" \/ (ext = "other" /\ image.vhdx) THEN "Vhdx"
  ELSE IF ext = "other" /\ image.footer = "none" THEN "Raw"
  ELSE IF image.footer = "fixed" THEN "VhdFixed" ELSE "VhdDynamic"

\* While nobody replaces the file, both detections say the same of it.
SameFile ==
  ~replaced =>
    /\ phase = "classify" =>
         ext = "vhd" \/ (ext = "other" /\ ~image.vhdx /\ image.footer # "none")
    /\ by = "open" => shown = Verdict
    /\ phase \in {"backend", "served"} => by = "open" /\ fmt = Verdict
    /\ Served => opened = image

\* A whole number of sectors is that many sectors long.
LEMMA WholeSectors ==
  ASSUME NEW n \in Nat, n % Sector = 0
  PROVE  n \div Sector \in Nat /\ (n \div Sector) * Sector = n
<1>1. Sector \in Nat \ {0}
  BY SizeAssumption
<1>2. n \div Sector \in Nat /\ n = Sector * (n \div Sector) + (n % Sector)
  BY <1>1
<1> QED BY <1>1, <1>2

LEMMA ImageLemma ==
  ASSUME NEW f \in Images
  PROVE  f.len \in 0..(Word - 1) /\ f.size \in 0..(Word - 1)
<1>1. f \in [vhdx : BOOLEAN, footer : Footers, size : OriginalSizes \cup {0}, len : Lengths]
  BY DEF Images
<1>2. f.len \in Lengths /\ f.size \in OriginalSizes \cup {0}
  BY <1>1
<1>3. f.len \in 0..(Word - 1)
  BY <1>2, SizeAssumption
<1>4. 0 \in 0..(Word - 1)
  BY <1>3, SizeAssumption
<1> QED BY <1>2, <1>3, <1>4, SizeAssumption

\* Accepted sizes are whole, so that no sector is cut.
LEMMA AdmittedLemma ==
  ASSUME NEW f \in Images,
         (fmt = "Raw" /\ RawAccepts(f)) \/ (fmt = "VhdFixed" /\ VhdAccepts(f))
  PROVE  PayloadSectors(f) \in Nat /\ PayloadSectors(f) * Sector = Payload(f) /\ Payload(f) \in 0..(Word - 1)
<1>1. Payload(f) \in 0..(Word - 1) /\ Payload(f) % Sector = 0
  BY ImageLemma DEF Payload, RawAccepts, VhdAccepts
<1>2. Payload(f) \in Nat
  BY <1>1, SizeAssumption
<1> QED BY <1>1, <1>2, WholeSectors DEF PayloadSectors

\* A whole number of sectors below a word, and not its last one, leaves room
\* for one sector more.
LEMMA WholeSectorsRoom ==
  ASSUME NEW n \in 0..(Word - 1), n % Sector = 0, n # Word - Sector
  PROVE  n + Sector < Word
<1> DEFINE q == n \div Sector
           w == Word \div Sector
<1>1. Sector \in Nat \ {0} /\ Word \in Nat /\ n \in Nat /\ n < Word
  BY SizeAssumption
<1>2. q \in Nat /\ q * Sector = n
  BY <1>1, WholeSectors
<1>3. w \in Nat /\ w * Sector = Word
  BY <1>1, SizeAssumption, WholeSectors
<1> HIDE DEF q, w
<1>4. q < w
  <2> SUFFICES ASSUME w <= q PROVE FALSE
    BY <1>2, <1>3
  <2>1. w * Sector <= q * Sector
    BY <1>1, <1>2, <1>3
  <2> QED BY <1>1, <1>2, <1>3, <2>1
<1>5. (q + 1) * Sector <= w * Sector /\ (q + 1) * Sector = (q * Sector) + Sector
  BY <1>1, <1>2, <1>3, <1>4
<1>6. n + Sector <= Word
  BY <1>1, <1>2, <1>3, <1>5
<1> QED BY <1>1, <1>6

LEMMA ServedInit == OpenInit => ServedInv
<1> SUFFICES ASSUME OpenInit PROVE ServedInv OBVIOUS
<1>1. image.len \in 0..(Word - 1)
  BY ImageLemma DEF OpenInit
<1>2. sectors \in Nat /\ sectors * Sector < Word
  BY <1>1, SizeAssumption DEF OpenInit
<1> QED BY <1>2 DEF OpenInit, ServedInv, OpenTypeOK, Admitted, Served

LEMMA ServedStep == ServedInv /\ [OpenNext]_openVars => ServedInv'
<1> SUFFICES ASSUME ServedInv, [OpenNext]_openVars PROVE ServedInv' OBVIOUS
<1> USE DEF ServedInv
<1>1. ASSUME NEW f \in Formats, Detected(f), phase \in {"detect", "classify"} PROVE ServedInv'
  BY <1>1 DEF Detected, OpenTypeOK, Admitted, Served
<1>2. ASSUME NEW l \in {"classify", "rejected"}, Goto(l) PROVE ServedInv'
  BY <1>2 DEF Goto, OpenTypeOK, Admitted, Served
<1>3. CASE ByExtension \/ ByContent \/ Classify
  <2>1. phase \in {"detect", "classify"}
    BY <1>3 DEF ByExtension, ByContent, Classify
  <2>2. (\E f \in Formats : Detected(f)) \/ Goto("classify") \/ Goto("rejected")
    BY <1>3 DEF ByExtension, ByContent, Classify, Formats
  <2> QED BY <1>1, <1>2, <2>1, <2>2
<1>4. CASE OpenBackend
  <2>1. (fmt = "Raw" /\ RawAccepts(image)) \/ (fmt = "VhdFixed" /\ VhdAccepts(image))
    BY <1>4 DEF OpenBackend, BackendAccepts, Admitted
  <2>2. image \in Images
    BY DEF OpenTypeOK
  <2>3. PayloadSectors(image) \in Nat /\ PayloadSectors(image) * Sector < Word
    BY <2>1, <2>2, AdmittedLemma, SizeAssumption
  <2>4. OpenTypeOK'
    BY <1>4, <2>2, <2>3 DEF OpenBackend, OpenTypeOK
  <2>5. Admitted'
    BY <1>4, <2>1 DEF OpenBackend, Admitted, Served, PayloadSectors, Payload
  <2> QED BY <2>4, <2>5
<1>5. CASE BackendRejects \/ IoError
  BY <1>2, <1>5 DEF BackendRejects, IoError
<1>6. CASE Replace
  BY <1>6 DEF Replace, OpenTypeOK, Admitted, Served, PayloadSectors, Payload
<1>7. CASE UNCHANGED openVars
  BY <1>7 DEF openVars, OpenTypeOK, Admitted, Served, PayloadSectors, Payload
<1> QED BY <1>3, <1>4, <1>5, <1>6, <1>7 DEF OpenNext

LEMMA ServedInvariant == OpenSpec => []ServedInv
BY ServedInit, ServedStep, PTL DEF OpenSpec

\* The type invariant: the bytes of all sectors fit a word.
THEOREM RootfsTypeCorrect == OpenSpec => []OpenTypeOK
BY ServedInvariant, PTL DEF ServedInv

\* Every sector of a served image lies in its file, before a footer, unless the
\* footer claims the one size whose sum with the footer's length wraps to zero:
\* for every sector size and word, and every file.
THEOREM RootfsSectorsInside == OpenSpec => []SectorsInsideFile
<1>1. ServedInv => SectorsInsideFile
  <2> SUFFICES ASSUME ServedInv, Served, ~(fmt = "VhdFixed" /\ opened.size = LargestPayload)
               PROVE sectors * Sector + (IF fmt = "Raw" THEN 0 ELSE Sector) <= opened.len
    BY DEF SectorsInsideFile, PayloadBeforeFooter
  <2>1. opened \in Images /\ sectors = PayloadSectors(opened)
    BY DEF ServedInv, OpenTypeOK, Admitted
  <2>2. (fmt = "Raw" /\ RawAccepts(opened)) \/ (fmt = "VhdFixed" /\ VhdAccepts(opened))
    BY DEF ServedInv, Admitted
  <2>3. sectors * Sector = Payload(opened)
    BY <2>1, <2>2, AdmittedLemma
  <2>4. CASE fmt = "Raw"
    BY <2>1, <2>3, <2>4, ImageLemma DEF Payload
  <2>5. CASE fmt = "VhdFixed" /\ VhdAccepts(opened)
    <3>1. opened.size \in Nat /\ opened.len \in Nat /\ opened.size + Sector < Word
      <4>1. opened.size \in 0..(Word - 1) /\ opened.len \in Nat /\ opened.size % Sector = 0
        BY <2>1, <2>5, ImageLemma, SizeAssumption DEF VhdAccepts
      <4>2. opened.size # Word - Sector
        BY <2>5 DEF LargestPayload
      <4> QED BY <4>1, <4>2, WholeSectorsRoom
    <3>2. (opened.size + Sector) % Word = opened.size + Sector
      BY <3>1, SizeAssumption
    <3>3. opened.size + Sector <= opened.len
      BY <2>5, <3>2 DEF VhdAccepts, FooterFits
    <3> QED BY <2>3, <2>5, <3>3 DEF Payload
  <2> QED BY <2>2, <2>4, <2>5
<1> QED BY <1>1, ServedInvariant, PTL

LEMMA WholeSectorsFit ==
  ASSUME NEW n \in Nat, NEW len \in Nat, n * Sector <= len
  PROVE  n <= len \div Sector /\ len \div Sector \in Nat
<1>1. Sector \in Nat \ {0}
  BY SizeAssumption
<1> DEFINE q == len \div Sector
<1>2. q \in Nat /\ len < Sector * q + Sector
  BY <1>1
<1> HIDE DEF q
<1>3. n <= q
  <2> SUFFICES ASSUME n >= q + 1 PROVE FALSE
    BY <1>2
  <2>1. n * Sector >= (q + 1) * Sector /\ (q + 1) * Sector = Sector * q + Sector
    BY <1>1, <1>2
  <2>2. n * Sector \in Nat /\ Sector * q + Sector \in Nat
    BY <1>1, <1>2
  <2> QED BY <1>2, <2>1, <2>2
<1> QED BY <1>2, <1>3 DEF q

\* What SectorFile assumes of its sectors and its file holds of every image
\* that open serves, but the fixed VHD whose footer claims LargestPayload.
THEOREM RootfsFitsFile ==
  OpenSpec => [](Served => \/ FileHolds(sectors, opened.len \div Sector)
                           \/ fmt = "VhdFixed" /\ opened.size = LargestPayload)
<1>1. ASSUME ServedInv, SectorsInsideFile, Served, ~(fmt = "VhdFixed" /\ opened.size = LargestPayload)
      PROVE  FileHolds(sectors, opened.len \div Sector)
  <2>1. opened \in Images /\ sectors = PayloadSectors(opened) /\ sectors \in Nat
    BY <1>1 DEF ServedInv, OpenTypeOK, Admitted
  <2>2. (fmt = "Raw" /\ RawAccepts(opened)) \/ (fmt = "VhdFixed" /\ VhdAccepts(opened))
    BY <1>1 DEF ServedInv, Admitted
  <2>3. opened.len \in Nat /\ Sector \in Nat
    BY <2>1, ImageLemma, SizeAssumption
  <2>4. sectors * Sector = Payload(opened)
    BY <2>1, <2>2, AdmittedLemma
  <2>5. sectors # 0
    <3>1. Payload(opened) # 0
      BY <2>2 DEF Payload, RawAccepts, VhdAccepts
    <3> QED BY <2>3, <2>4, <3>1
  <2>6. sectors * Sector <= opened.len
    <3>1. sectors * Sector \in Nat
      BY <2>1, <2>3
    <3> QED BY <1>1, <2>3, <3>1 DEF SectorsInsideFile, PayloadBeforeFooter
  <2> QED BY <2>1, <2>3, <2>5, <2>6, WholeSectorsFit DEF FileHolds
<1> QED BY <1>1, ServedInvariant, RootfsSectorsInside, PTL

\* What is served as a fixed VHD is one, whatever was put in its place.
THEOREM RootfsFixedIsFixed == OpenSpec => []FixedIsFixed
<1>1. ServedInv => FixedIsFixed
  BY DEF ServedInv, Admitted, VhdAccepts, FixedIsFixed
<1> QED BY <1>1, ServedInvariant, PTL

LEMMA SameFileStep == OpenTypeOK /\ SameFile /\ [OpenNext]_openVars => SameFile'
<1> SUFFICES ASSUME OpenTypeOK, SameFile, [OpenNext]_openVars, ~replaced' PROVE SameFile'
  BY DEF SameFile
<1> USE DEF SameFile
<1>1. CASE Replace
  BY <1>1 DEF Replace
<1>2. CASE UNCHANGED openVars
  BY <1>2 DEF openVars, Verdict, Served
<1>3. CASE UNCHANGED <<ext, image, replaced>>
  <2>1. Verdict' = Verdict /\ ~replaced
    BY <1>3 DEF Verdict
  <2>2. ASSUME NEW f \in Formats, f = Verdict, Detected(f) PROVE SameFile'
    BY <2>1, <2>2 DEF Detected, Served, OpenTypeOK
  <2>3. CASE ByExtension
    <3>1. ext = "raw" => Verdict = "Raw"
      BY DEF Verdict
    <3>2. ext = "vhdx" => Verdict = "Vhdx"
      BY DEF Verdict
    <3>3. CASE ext = "vhd"
      BY <2>1, <2>3, <3>3 DEF ByExtension, Goto, Served
    <3> QED BY <2>2, <2>3, <3>1, <3>2, <3>3 DEF ByExtension, Formats
  <2>4. CASE ByContent
    <3>1. image.vhdx /\ ext = "other" => Verdict = "Vhdx"
      BY DEF Verdict
    <3>2. ~image.vhdx /\ ext = "other" /\ image.footer = "none" => Verdict = "Raw"
      BY DEF Verdict
    <3>3. CASE Goto("classify")
      BY <2>1, <2>4, <3>3 DEF ByContent, Goto, Detected, Served, Formats
    <3> QED BY <2>2, <2>4, <3>1, <3>2, <3>3 DEF ByContent, Formats
  <2>5. CASE Classify
    <3>1. Verdict = IF image.footer = "fixed" THEN "VhdFixed" ELSE "VhdDynamic"
      BY <2>1, <2>5 DEF Classify, Verdict
    <3> QED BY <2>1, <2>2, <2>5, <3>1 DEF Classify, Goto, Served, Formats
  <2>6. CASE OpenBackend
    BY <2>1, <2>6 DEF OpenBackend, Served
  <2>7. CASE BackendRejects \/ IoError
    BY <2>1, <2>7 DEF BackendRejects, IoError, Goto, Served
  <2> QED BY <1>1, <1>2, <2>3, <2>4, <2>5, <2>6, <2>7 DEF OpenNext
<1> QED BY <1>1, <1>2, <1>3
    DEF OpenNext, ByExtension, ByContent, Classify, OpenBackend, BackendRejects, IoError, Goto, Detected

\* A file that nobody replaces is served as what was printed: raw under a name
\* that says raw, and as what it holds under every other.
THEOREM RootfsNothingForeign == OpenSpec => []NothingForeign
<1>1. OpenInit => SameFile
  BY DEF OpenInit, SameFile, Served
<1>2. ServedInv /\ SameFile => NothingForeign
  <2> SUFFICES ASSUME ServedInv, SameFile, Served, ~replaced
               PROVE shown = fmt /\ IF ext = "raw" THEN fmt = "Raw" ELSE ServedAsItIs
    BY DEF NothingForeign
  <2>1. fmt = Verdict /\ shown = fmt /\ opened = image
    BY DEF SameFile, Served
  <2>2. fmt \in {"Raw", "VhdFixed"} /\ ext \in Extensions
    BY DEF ServedInv, Admitted, OpenTypeOK
  <2>5. CASE ext = "raw"
    BY <2>1, <2>5 DEF Verdict
  <2>3. CASE ext # "raw" /\ fmt = "Raw"
    <3>1. ext = "other" /\ ~image.vhdx /\ image.footer = "none"
      BY <2>1, <2>3 DEF Verdict
    <3> QED BY <2>1, <2>3, <3>1 DEF ServedAsItIs
  <2>4. CASE ext # "raw" /\ fmt = "VhdFixed"
    BY <2>1, <2>4 DEF ServedInv, Admitted, VhdAccepts, ServedAsItIs
  <2> QED BY <2>1, <2>2, <2>3, <2>4, <2>5
<1> QED BY <1>1, <1>2, SameFileStep, ServedInvariant, PTL DEF OpenSpec, ServedInv

-----------------------------------------------------------------------------
\* Serving an image, for any callers, sectors and data.  FileInv adds to the
\* properties that exactly the caller past Lock has the mutex, and that a
\* caller has a request while its call runs; HalvesMoved says what a call half
\* done has moved.

USE DEF FileHolds

\* Where a caller has the mutex.
Inside(c) == pc[c] \in {"locked", "first", "second", "over"}

\* The mutex, as the code uses it, excludes, and is given back.
Exclusive == \A c \in Callers : Inside(c) <=> holder = c

\* A caller has a request from the call to the return.
HasRequest == \A c \in Callers : IF pc[c] = "idle" THEN op[c] = NoRequest ELSE op[c] \in Requests

FileInv == TypeOK /\ Exclusive /\ HasRequest /\ TransfersAtOwnSector /\ FooterUntouched

\* A request names one of the sectors, and a write some data.
LEMMA RequestLemma ==
  ASSUME NEW r \in Requests
  PROVE  r[2] \in Sectors /\ (r[1] = "write" => r[3] \in Data)
<1>1. CASE \E s \in Sectors : r = ReadOf(s)
  BY <1>1 DEF ReadOf
<1>2. CASE \E s \in Sectors, d \in Data : r = WriteOf(s, d)
  BY <1>2 DEF WriteOf
<1> QED BY <1>1, <1>2 DEF Requests

\* Both halves of a sector are units of the file, before the footer.
LEMMA UnitLemma ==
  ASSUME NEW s \in Sectors
  PROVE  /\ 2 * s \in Units /\ 2 * s < 2 * SectorCount
         /\ 2 * s + 1 \in Units /\ 2 * s + 1 < 2 * SectorCount
BY FileAssumption DEF Sectors, Units

LEMMA FileInit == Init => FileInv
<1> SUFFICES ASSUME Init PROVE FileInv OBVIOUS
<1>1. TypeOK
  BY FileAssumption DEF Init, TypeOK, Pieces, Nothing
<1>2. Exclusive /\ HasRequest /\ TransfersAtOwnSector
  BY FileAssumption DEF Init, Exclusive, Inside, HasRequest, TransfersAtOwnSector
<1>3. FooterUntouched
  BY FileAssumption DEF Init, FooterUntouched, Units
<1> QED BY <1>1, <1>2, <1>3 DEF FileInv

\* A transfer is within the file, before its footer, and moves the position
\* to where the next one of the same call must be.
LEMMA TransferLemma ==
  ASSUME FileInv, NEW c \in Callers, Transfer(c)
  PROVE  /\ holder = c /\ op[c] \in Requests
         /\ pos \in Units /\ pos < 2 * SectorCount
         /\ pc[c] = "first" => pos = 2 * op[c][2]
         /\ pc[c] = "second" => pos = 2 * op[c][2] + 1
<1>1. holder = c /\ op[c] \in Requests
  BY DEF Transfer, FileInv, Exclusive, Inside, HasRequest
<1>2. /\ pc[c] = "first" => pos = 2 * op[c][2]
      /\ pc[c] = "second" => pos = 2 * op[c][2] + 1
  BY DEF FileInv, TransfersAtOwnSector
<1>3. op[c][2] \in Sectors
  BY <1>1, RequestLemma
<1>4. pc[c] = "first" \/ pc[c] = "second"
  BY DEF Transfer
<1> QED BY <1>1, <1>2, <1>3, <1>4, UnitLemma

LEMMA FileStep == FileInv /\ [Next]_vars => FileInv'
<1> SUFFICES ASSUME FileInv, [Next]_vars PROVE FileInv' OBVIOUS
<1> USE DEF FileInv
<1>1. ASSUME NEW c \in Callers, NEW r \in {ReadOf(s) : s \in 0..SectorCount}
                 \cup {WriteOf(s, d) : s \in 0..SectorCount, d \in Data}, Call(c, r)
      PROVE  FileInv'
  <2>1. r \in Requests
    <3>1. r[2] \in 0..SectorCount /\ r[2] < SectorCount
      BY <1>1 DEF Call, InRange, ReadOf, WriteOf
    <3>2. r[2] \in Sectors
      BY <3>1, FileAssumption DEF Sectors
    <3>3. CASE \E s \in 0..SectorCount : r = ReadOf(s)
      BY <3>2, <3>3 DEF ReadOf, Requests
    <3>4. CASE \E s \in 0..SectorCount, d \in Data : r = WriteOf(s, d)
      BY <3>2, <3>4 DEF WriteOf, Requests
    <3> QED BY <1>1, <3>3, <3>4
  <2>2. /\ pc' = [pc EXCEPT ![c] = "called"] /\ op' = [op EXCEPT ![c] = r]
        /\ pc[c] = "idle" /\ UNCHANGED <<file, pos, holder, buf, answer>>
    BY <1>1 DEF Call
  <2>3. TypeOK'
    BY <2>1, <2>2 DEF TypeOK
  <2>4. Exclusive' /\ HasRequest' /\ TransfersAtOwnSector'
    BY <2>1, <2>2 DEF TypeOK, Exclusive, Inside, HasRequest, TransfersAtOwnSector
  <2> QED BY <2>2, <2>3, <2>4 DEF FooterUntouched
<1>2. ASSUME NEW c \in Callers, Refuse(c) PROVE FileInv'
  <2>1. answer' = [answer EXCEPT ![c] = Error] /\ UNCHANGED <<file, pos, holder, pc, op, buf>>
    BY <1>2 DEF Refuse
  <2>2. TypeOK'
    BY <2>1 DEF TypeOK
  <2> QED BY <2>1, <2>2 DEF Exclusive, Inside, HasRequest, TransfersAtOwnSector, FooterUntouched
<1>3. ASSUME NEW c \in Callers, Lock(c) PROVE FileInv'
  <2>1. TypeOK'
    BY <1>3 DEF Lock, TypeOK
  <2>2. Exclusive'
    <3>1. \A d \in Callers : ~Inside(d)
      BY <1>3, FileAssumption DEF Lock, Exclusive
    <3> QED BY <1>3, <3>1 DEF Lock, Exclusive, Inside, TypeOK
  <2>3. HasRequest' /\ TransfersAtOwnSector' /\ FooterUntouched'
    BY <1>3 DEF Lock, HasRequest, TransfersAtOwnSector, FooterUntouched, TypeOK
  <2> QED BY <2>1, <2>2, <2>3
<1>4. ASSUME NEW c \in Callers, Seek(c) PROVE FileInv'
  <2>1. op[c] \in Requests /\ holder = c
    BY <1>4 DEF Seek, HasRequest, Exclusive, Inside
  <2>2. op[c][2] \in Sectors
    BY <2>1, RequestLemma
  <2>3. pos' \in 0..(2 * FileSectors)
    BY <1>4, <2>2, FileAssumption DEF Seek, Sectors
  <2>4. TypeOK'
    BY <1>4, <2>3 DEF Seek, TypeOK
  <2>5. TransfersAtOwnSector'
    <3>1. \A d \in Callers \ {c} : pc[d] \notin {"first", "second"}
      BY <2>1 DEF Exclusive, Inside
    <3> QED BY <1>4, <3>1 DEF Seek, TransfersAtOwnSector, TypeOK
  <2>6. Exclusive' /\ HasRequest' /\ FooterUntouched'
    BY <1>4 DEF Seek, Exclusive, Inside, HasRequest, FooterUntouched, TypeOK
  <2> QED BY <2>4, <2>5, <2>6
<1>5. ASSUME NEW c \in Callers, Transfer(c) PROVE FileInv'
  <2>1. /\ holder = c /\ op[c] \in Requests
        /\ pos \in Units /\ pos < 2 * SectorCount
        /\ pc[c] = "first" => pos = 2 * op[c][2]
        /\ pc[c] = "second" => pos = 2 * op[c][2] + 1
    BY <1>5, TransferLemma
  <2>2. /\ pos' = pos + 1
        /\ pc' = [pc EXCEPT ![c] = IF pc[c] = "first" THEN "second" ELSE "over"]
        /\ pc[c] \in {"first", "second"}
        /\ UNCHANGED <<holder, op, answer>>
    BY <1>5 DEF Transfer
  <2>3. /\ file' \in [Units -> Pieces] /\ FooterUntouched'
        /\ buf' \in [Callers -> Pieces \X Pieces]
    <3>1. CASE Writes(c)
      <4>1. op[c][3] \in Data
        BY <2>1, <3>1, RequestLemma DEF Writes
      <4>2. file' = [file EXCEPT ![pos] = op[c][3]] /\ buf' = buf
        BY <1>5, <3>1 DEF Transfer
      <4>3. \A u \in Units : u >= 2 * SectorCount => u # pos
        BY <2>1, FileAssumption DEF Units
      <4> QED BY <2>1, <4>1, <4>2, <4>3 DEF TypeOK, Pieces, FooterUntouched
    <3>2. CASE ~Writes(c)
      <4>1. file' = file
            /\ buf' = [buf EXCEPT ![c][IF pc[c] = "first" THEN 1 ELSE 2] = file[pos]]
        BY <1>5, <3>2 DEF Transfer
      <4>2. file[pos] \in Pieces
        BY <2>1 DEF TypeOK
      <4>3. buf[c] \in Pieces \X Pieces
        BY DEF TypeOK
      <4>4. [buf[c] EXCEPT ![1] = file[pos]] \in Pieces \X Pieces
            /\ [buf[c] EXCEPT ![2] = file[pos]] \in Pieces \X Pieces
        BY <4>2, <4>3
      <4> QED BY <4>1, <4>4 DEF TypeOK, FooterUntouched
    <3> QED BY <3>1, <3>2
  <2>4. pos' \in 0..(2 * FileSectors)
    BY <2>1, <2>2, FileAssumption DEF Units
  <2>5. TypeOK'
    BY <2>2, <2>3, <2>4 DEF TypeOK
  <2>6. TransfersAtOwnSector'
    <3>1. \A d \in Callers \ {c} : pc[d] \notin {"first", "second"}
      BY <2>1 DEF Exclusive, Inside
    <3> QED BY <2>1, <2>2, <3>1 DEF TransfersAtOwnSector, TypeOK
  <2>7. Exclusive' /\ HasRequest'
    BY <2>1, <2>2 DEF Exclusive, Inside, HasRequest, TypeOK
  <2> QED BY <2>3, <2>5, <2>6, <2>7
<1>6. ASSUME NEW c \in Callers, NEW a \in {Done, Error} \cup (Pieces \X Pieces),
             Return(c, a), Inside(c), UNCHANGED <<file, pos>>
      PROVE  FileInv'
  <2>1. holder = c
    BY <1>6 DEF Exclusive
  <2>2. /\ answer' = [answer EXCEPT ![c] = a] /\ pc' = [pc EXCEPT ![c] = "idle"]
        /\ op' = [op EXCEPT ![c] = NoRequest] /\ buf' = [buf EXCEPT ![c] = Nothing]
        /\ holder' = Nobody
    BY <1>6, <2>1 DEF Return
  <2>3. TypeOK'
    BY <1>6, <2>2 DEF TypeOK, Nothing, Pieces
  <2>4. Exclusive'
    <3>1. \A d \in Callers \ {c} : ~Inside(d)
      BY <2>1 DEF Exclusive
    <3> QED BY <2>2, <3>1, FileAssumption DEF Exclusive, Inside, TypeOK
  <2>5. HasRequest' /\ TransfersAtOwnSector' /\ FooterUntouched'
    BY <1>6, <2>2 DEF HasRequest, TransfersAtOwnSector, FooterUntouched, TypeOK
  <2> QED BY <2>3, <2>4, <2>5
<1>7. ASSUME NEW c \in Callers, Finish(c) PROVE FileInv'
  <2>1. PICK a \in {Done, Error} \cup (Pieces \X Pieces) : Return(c, a)
    BY <1>7 DEF Finish, TypeOK
  <2> QED BY <1>6, <1>7, <2>1 DEF Finish, Inside
<1>8. ASSUME NEW c \in Callers, Fail(c) PROVE FileInv'
  BY <1>6, <1>8 DEF Fail, Inside
<1>9. CASE UNCHANGED vars
  BY <1>9 DEF vars, TypeOK, Exclusive, Inside, HasRequest, TransfersAtOwnSector, FooterUntouched
<1> QED BY <1>1, <1>2, <1>3, <1>4, <1>5, <1>7, <1>8, <1>9 DEF Next, CallerStep

LEMMA FileInvariant == Spec => []FileInv
BY FileInit, FileStep, PTL DEF Spec

\* The type invariant: the position stays inside the file.
THEOREM FileTypeCorrect == Spec => []TypeOK
BY FileInvariant, PTL DEF FileInv

\* Every transfer is at its caller's sector, for any number of callers and
\* sectors: the mutex covers the seek and the transfers of one call.
THEOREM FileTransfersAtOwnSector == Spec => []TransfersAtOwnSector
BY FileInvariant, PTL DEF FileInv

\* Nothing after the payload is ever written, for any sizes.
THEOREM FileFooterUntouched == Spec => []FooterUntouched
BY FileInvariant, PTL DEF FileInv

-----------------------------------------------------------------------------
\* The block device.  HalvesMoved says what a call half done has moved; with
\* FileInv it is inductive, and every step is one of the device or stutters.

FirstMoved(c) ==
  IF Writes(c) THEN file[2 * op[c][2]] = op[c][3] ELSE buf[c][1] = file[2 * op[c][2]]

SecondMoved(c) ==
  IF Writes(c) THEN file[2 * op[c][2] + 1] = op[c][3] ELSE buf[c][2] = file[2 * op[c][2] + 1]

HalvesMoved ==
  \A c \in Callers :
    /\ pc[c] \in {"second", "over"} => FirstMoved(c)
    /\ pc[c] = "over" => SecondMoved(c)

DeviceInv == FileInv /\ HalvesMoved

\* While one caller transfers, no other has moved anything.
LEMMA AloneLemma ==
  ASSUME FileInv, NEW c \in Callers, holder = c, NEW d \in Callers, d # c
  PROVE  pc[d] \in {"idle", "called"}
BY DEF FileInv, Exclusive, Inside, TypeOK

LEMMA HalvesStep ==
  ASSUME DeviceInv, [Next]_vars, NEW d \in Callers
  PROVE  /\ pc'[d] \in {"second", "over"} => FirstMoved(d)'
         /\ pc'[d] = "over" => SecondMoved(d)'
<1> DEFINE Goal == /\ pc'[d] \in {"second", "over"} => FirstMoved(d)'
                   /\ pc'[d] = "over" => SecondMoved(d)'
<1> SUFFICES Goal OBVIOUS
<1> USE DEF DeviceInv, FileInv, HalvesMoved
<1>1. CASE /\ UNCHANGED file
           /\ pc'[d] \in {"second", "over"} =>
                pc'[d] = pc[d] /\ op'[d] = op[d] /\ buf'[d] = buf[d]
  BY <1>1 DEF FirstMoved, SecondMoved, Writes
<1>2. ASSUME NEW c \in Callers, Transfer(c) PROVE Goal
  <2>1. /\ holder = c /\ op[c] \in Requests
        /\ pos \in Units /\ pos < 2 * SectorCount
        /\ pc[c] = "first" => pos = 2 * op[c][2]
        /\ pc[c] = "second" => pos = 2 * op[c][2] + 1
    BY <1>2, TransferLemma
  <2>2. CASE d # c
    <3>1. pc[d] \in {"idle", "called"}
      BY <2>1, <2>2, AloneLemma
    <3>2. pc'[d] = pc[d]
      BY <1>2, <2>2 DEF Transfer, TypeOK
    <3> QED BY <3>1, <3>2
  <2>3. CASE d = c
    <3>1. op' = op /\ op[c][2] \in Nat
      BY <1>2, <2>1, RequestLemma, FileAssumption DEF Transfer, Sectors
    <3>2. /\ pc[c] \in {"first", "second"}
          /\ pc'[c] = IF pc[c] = "first" THEN "second" ELSE "over"
      BY <1>2 DEF Transfer, TypeOK
    <3>3. CASE Writes(c)
      <4>1. file' = [file EXCEPT ![pos] = op[c][3]]
        BY <1>2, <3>3 DEF Transfer
      <4>2. file'[pos] = op[c][3] /\ \A u \in Units \ {pos} : file'[u] = file[u]
        BY <2>1, <4>1 DEF TypeOK
      <4>3. 2 * op[c][2] \in Units /\ 2 * op[c][2] # 2 * op[c][2] + 1
        BY <2>1, <3>1, RequestLemma, UnitLemma
      <4> QED BY <2>1, <2>3, <3>1, <3>2, <3>3, <4>2, <4>3 DEF FirstMoved, SecondMoved, Writes
    <3>4. CASE ~Writes(c)
      <4>1. file' = file
            /\ buf' = [buf EXCEPT ![c][IF pc[c] = "first" THEN 1 ELSE 2] = file[pos]]
        BY <1>2, <3>4 DEF Transfer
      <4>2. buf[c] \in Pieces \X Pieces
        BY DEF TypeOK
      <4>3. CASE pc[c] = "first"
        <5>1. buf'[c] = [buf[c] EXCEPT ![1] = file[pos]]
          BY <4>1, <4>3 DEF TypeOK
        <5>2. buf'[c][1] = file[pos]
          BY <4>2, <5>1
        <5> QED BY <2>1, <2>3, <3>1, <3>2, <3>4, <4>1, <4>3, <5>2 DEF FirstMoved, Writes
      <4>4. CASE pc[c] = "second"
        <5>1. buf'[c] = [buf[c] EXCEPT ![2] = file[pos]]
          BY <4>1, <4>4 DEF TypeOK
        <5>2. buf'[c][2] = file[pos] /\ buf'[c][1] = buf[c][1]
          BY <4>2, <5>1
        <5> QED BY <2>1, <2>3, <3>1, <3>2, <3>4, <4>1, <4>4, <5>2 DEF FirstMoved, SecondMoved, Writes
      <4> QED BY <3>2, <4>3, <4>4
    <3> QED BY <3>3, <3>4
  <2> QED BY <2>2, <2>3
<1>3. ASSUME NEW c \in Callers, NEW r, Call(c, r) PROVE Goal
  BY <1>1, <1>3 DEF Call, TypeOK
<1>4. ASSUME NEW c \in Callers, Refuse(c) \/ Lock(c) \/ Seek(c) \/ Finish(c) \/ Fail(c) PROVE Goal
  BY <1>1, <1>4 DEF Refuse, Lock, Seek, Finish, Fail, Return, TypeOK
<1>5. CASE UNCHANGED vars
  BY <1>1, <1>5 DEF vars
<1> QED BY <1>2, <1>3, <1>4, <1>5 DEF Next, CallerStep

LEMMA DeviceInvariant == Spec => []DeviceInv
<1>1. Init => DeviceInv
  BY FileInit DEF DeviceInv, HalvesMoved, Init
<1>2. DeviceInv /\ [Next]_vars => DeviceInv'
  <2> SUFFICES ASSUME DeviceInv, [Next]_vars PROVE DeviceInv' OBVIOUS
  <2>1. FileInv'
    BY FileStep DEF DeviceInv
  <2>2. HalvesMoved'
    BY HalvesStep DEF HalvesMoved
  <2> QED BY <2>1, <2>2 DEF DeviceInv
<1> QED BY <1>1, <1>2, PTL DEF Spec

\* Only the holder of the mutex has begun to write.
LEMMA BegunLemma ==
  ASSUME FileInv, NEW c \in Callers
  PROVE  Begun(c) => holder = c
BY DEF FileInv, Exclusive, Inside, Begun

\* A step that keeps the file and who writes what is seen by nobody.
LEMMA SeenLemma ==
  ASSUME file' = file, \A s \in Sectors : ~Writing(s) /\ ~Writing(s)'
  PROVE  Seen' = Seen
BY DEF Seen

LEMMA DeviceInit == Init => Device!Init
<1> SUFFICES ASSUME Init PROVE Device!Init OBVIOUS
<1>1. ASSUME NEW s \in Sectors PROVE Seen[s] \in Pieces \X Pieces
  <2>1. ~Writing(s)
    BY DEF Init, Writing
  <2>2. file[2 * s] = Blank /\ file[2 * s + 1] = Blank
    BY UnitLemma DEF Init
  <2> QED BY <2>1, <2>2 DEF Seen, Pieces
<1>2. Seen \in [Sectors -> Pieces \X Pieces]
  BY <1>1 DEF Seen
<1>3. {c \in Callers : Begun(c)} = {}
  BY DEF Init, Begun
<1> QED BY <1>2, <1>3 DEF Init, Device!Init

\* What a transfer does to the device: the first half of a write is the write,
\* all others are stutters.
LEMMA TransferStep ==
  ASSUME DeviceInv, DeviceInv', NEW c \in Callers, Transfer(c)
  PROVE  Device!WriteSector(c) \/ UNCHANGED Device!vars
<1> USE DEF DeviceInv
<1>1. /\ holder = c /\ op[c] \in Requests
      /\ pos \in Units /\ pos < 2 * SectorCount
      /\ pc[c] = "first" => pos = 2 * op[c][2]
      /\ pc[c] = "second" => pos = 2 * op[c][2] + 1
  BY TransferLemma
<1>2. /\ pc[c] \in {"first", "second"} /\ pc' \in [Callers -> {"idle", "called", "locked", "first", "second", "over"}]
      /\ pc' = [pc EXCEPT ![c] = IF pc[c] = "first" THEN "second" ELSE "over"]
      /\ UNCHANGED <<holder, op, answer>>
  BY DEF Transfer, FileInv, TypeOK
<1>3. op[c][2] \in Sectors /\ holder # Nobody
  BY <1>1, RequestLemma, FileAssumption
<1>4. pc'[c] = IF pc[c] = "first" THEN "second" ELSE "over"
  BY <1>2 DEF FileInv, TypeOK
<1>5. \A d \in Callers \ {c} : ~Begun(d) /\ ~Begun(d)'
  BY <1>1, <1>2, BegunLemma DEF FileInv, Exclusive, Inside, Begun, Writes
<1>6. CASE ~Writes(c)
  <2>1. file' = file
    BY <1>6 DEF Transfer
  <2>2. ~Begun(c) /\ ~Begun(c)'
    BY <1>2, <1>6 DEF Begun, Writes
  <2>3. Seen' = Seen
    BY <1>1, <1>2, <2>1, <2>2, SeenLemma DEF Writing
  <2>4. {d \in Callers : Begun(d)}' = {d \in Callers : Begun(d)}
    BY <1>5, <2>2
  <2> QED BY <1>2, <2>3, <2>4 DEF Device!vars
<1>7. CASE Writes(c)
  <2>1. /\ Begun(c)' /\ (Begun(c) <=> pc[c] = "second")
        /\ \A s \in Sectors : Writing(s)' <=> s = op[c][2]
        /\ \A s \in Sectors : Writing(s) <=> pc[c] = "second" /\ s = op[c][2]
    BY <1>1, <1>2, <1>3, <1>4, <1>7 DEF Begun, Writes, Writing
  <2>2. file' = [file EXCEPT ![pos] = op[c][3]]
    BY <1>7 DEF Transfer
  <2>3. ASSUME NEW s \in Sectors, s # op[c][2] PROVE Seen'[s] = Seen[s]
    <3>1. pos # 2 * s /\ pos # 2 * s + 1 /\ 2 * s \in Units /\ 2 * s + 1 \in Units
      BY <1>1, <1>2, <1>3, <2>3, UnitLemma, FileAssumption DEF Sectors
    <3>2. file'[2 * s] = file[2 * s] /\ file'[2 * s + 1] = file[2 * s + 1]
      BY <2>2, <3>1 DEF FileInv, TypeOK
    <3> QED BY <2>1, <2>3, <3>2 DEF Seen
  <2>4. Seen'[op[c][2]] = <<op[c][3], op[c][3]>>
    BY <1>1, <1>2, <1>3, <2>1 DEF Seen
  <2>5. CASE pc[c] = "first"
    <3>1. op[c] = WriteOf(op[c][2], op[c][3]) /\ op[c][3] \in Data
      BY <1>1, <1>7 DEF Requests, ReadOf, WriteOf, Writes
    <3>2. Seen' = [Seen EXCEPT ![op[c][2]] = <<op[c][3], op[c][3]>>]
      BY <1>3, <2>3, <2>4 DEF Seen
    <3>3. {d \in Callers : Begun(d)}' = {d \in Callers : Begun(d)} \cup {c}
      BY <1>5, <2>1
    <3>4. c \notin {d \in Callers : Begun(d)}
      BY <2>1, <2>5
    <3> QED BY <1>2, <1>3, <3>1, <3>2, <3>3, <3>4 DEF Device!WriteSector
  <2>6. CASE pc[c] = "second"
    <3>1. Seen[op[c][2]] = <<op[c][3], op[c][3]>>
      BY <1>1, <1>3, <2>1, <2>6 DEF Seen
    <3>2. Seen' = Seen
      BY <2>3, <2>4, <3>1 DEF Seen
    <3>3. {d \in Callers : Begun(d)}' = {d \in Callers : Begun(d)}
      BY <1>5, <2>1, <2>6
    <3> QED BY <1>2, <3>2, <3>3 DEF Device!vars
  <2> QED BY <1>2, <2>5, <2>6
<1> QED BY <1>6, <1>7

LEMMA FinishStep ==
  ASSUME DeviceInv, NEW c \in Callers, Finish(c)
  PROVE  Device!ReadSector(c) \/ Device!WriteReturns(c)
<1> USE DEF DeviceInv
<1>1. /\ holder = c /\ op[c] \in Requests /\ op[c][2] \in Sectors /\ pc[c] = "over"
  BY RequestLemma DEF Finish, FileInv, Exclusive, Inside, HasRequest
<1>2. /\ answer' = [answer EXCEPT ![c] = IF Writes(c) THEN Done ELSE buf[c]]
      /\ op' = [op EXCEPT ![c] = NoRequest] /\ pc' = [pc EXCEPT ![c] = "idle"]
      /\ holder' = Nobody /\ file' = file
  BY <1>1 DEF Finish, Return
<1>3. \A d \in Callers \ {c} : ~Begun(d) /\ ~Begun(d)'
  BY <1>1, <1>2, BegunLemma DEF FileInv, TypeOK, Begun, Writes
<1>4. ~Begun(c)' /\ (Begun(c) <=> Writes(c))
  BY <1>1, <1>2 DEF FileInv, TypeOK, Begun
<1>5. \A s \in Sectors : Writing(s) <=> Writes(c) /\ s = op[c][2]
  BY <1>1, <1>4, FileAssumption DEF Writing
<1>6. \A s \in Sectors : ~Writing(s)'
  BY <1>2 DEF Writing
<1>7. FirstMoved(c) /\ SecondMoved(c)
  BY <1>1 DEF HalvesMoved
<1>8. Seen' = Seen
  <2>1. ASSUME NEW s \in Sectors PROVE Seen'[s] = Seen[s]
    <3>1. CASE Writing(s)
      <4>1. s = op[c][2] /\ Writes(c)
        BY <1>5, <3>1
      <4>2. file[2 * s] = op[c][3] /\ file[2 * s + 1] = op[c][3]
        BY <1>7, <4>1 DEF FirstMoved, SecondMoved
      <4> QED BY <1>1, <1>2, <1>6, <3>1, <4>2 DEF Seen
    <3>2. CASE ~Writing(s)
      BY <1>2, <1>6, <3>2 DEF Seen
    <3> QED BY <3>1, <3>2
  <2> QED BY <2>1 DEF Seen
<1>9. {d \in Callers : Begun(d)}' = {d \in Callers : Begun(d)} \ {c}
  BY <1>3, <1>4
<1>10. CASE Writes(c)
  <2>1. c \in {d \in Callers : Begun(d)}
    BY <1>4, <1>10
  <2> QED BY <1>2, <1>8, <1>9, <1>10, <2>1 DEF Device!WriteReturns, Device!Return
<1>11. CASE ~Writes(c)
  <2>1. op[c] = ReadOf(op[c][2])
    BY <1>1, <1>11 DEF Requests, ReadOf, WriteOf, Writes
  <2>2. Seen[op[c][2]] = buf[c]
    <3>1. buf[c] \in Pieces \X Pieces
      BY DEF FileInv, TypeOK
    <3>2. buf[c] = <<file[2 * op[c][2]], file[2 * op[c][2] + 1]>>
      BY <1>7, <1>11, <3>1 DEF FirstMoved, SecondMoved
    <3> QED BY <1>1, <1>5, <1>11, <3>2 DEF Seen
  <2>3. {d \in Callers : Begun(d)}' = {d \in Callers : Begun(d)}
    BY <1>4, <1>9, <1>11
  <2> QED BY <1>1, <1>2, <1>8, <1>11, <2>1, <2>2, <2>3 DEF Device!ReadSector, Device!Return
<1> QED BY <1>10, <1>11

LEMMA FailStep ==
  ASSUME DeviceInv, NEW c \in Callers, Fail(c)
  PROVE  Device!Fail(c)
<1> USE DEF DeviceInv
<1>1. /\ holder = c /\ op[c] \in Requests /\ op[c][2] \in Sectors /\ pc[c] \in {"locked", "first", "second"}
  BY RequestLemma DEF Fail, FileInv, Exclusive, Inside, HasRequest
<1>2. /\ answer' = [answer EXCEPT ![c] = Error]
      /\ op' = [op EXCEPT ![c] = NoRequest] /\ pc' = [pc EXCEPT ![c] = "idle"]
      /\ holder' = Nobody /\ file' = file
  BY <1>1 DEF Fail, Return
<1>3. \A d \in Callers \ {c} : ~Begun(d) /\ ~Begun(d)'
  BY <1>1, <1>2, BegunLemma DEF FileInv, TypeOK, Begun, Writes
<1>4. ~Begun(c)'
  BY <1>2 DEF FileInv, TypeOK, Begun
<1>5. \A s \in Sectors : Writing(s) <=> Begun(c) /\ s = op[c][2]
  BY <1>1, FileAssumption DEF Writing
<1>6. \A s \in Sectors : ~Writing(s)'
  BY <1>2 DEF Writing
<1>7. {d \in Callers : Begun(d)}' = {d \in Callers : Begun(d)} \ {c}
  BY <1>3, <1>4
<1>8. op[c] # NoRequest
  BY <1>1 DEF Requests, ReadOf, WriteOf, NoRequest
<1>9. ASSUME NEW s \in Sectors, ~Writing(s) PROVE Seen'[s] = Seen[s]
  BY <1>2, <1>6, <1>9 DEF Seen
<1>10. CASE ~Begun(c)
  <2>1. Seen' = Seen
    BY <1>5, <1>9, <1>10 DEF Seen
  <2> QED BY <1>2, <1>7, <1>8, <2>1 DEF Device!Fail, Device!Return
<1>11. CASE Begun(c)
  <2>1. op[c] = WriteOf(op[c][2], op[c][3]) /\ op[c][3] \in Data
    BY <1>1, <1>11 DEF Requests, ReadOf, WriteOf, Writes, Begun
  <2> DEFINE junk == <<file[2 * op[c][2]], file[2 * op[c][2] + 1]>>
  <2>2. junk \in Pieces \X Pieces
    BY <1>1, UnitLemma DEF FileInv, TypeOK
  <2>3. Seen'[op[c][2]] = junk
    BY <1>1, <1>2, <1>6 DEF Seen
  <2> HIDE DEF junk
  <2>4. Seen' = [Seen EXCEPT ![op[c][2]] = junk]
    <3>1. \A s \in Sectors : s # op[c][2] => Seen'[s] = Seen[s]
      BY <1>5, <1>9
    <3> QED BY <1>1, <2>3, <3>1 DEF Seen
  <2>5. c \in {d \in Callers : Begun(d)}
    BY <1>11
  <2> QED BY <1>1, <1>2, <1>7, <1>8, <2>1, <2>2, <2>4, <2>5 DEF Device!Fail, Device!Return
<1> QED BY <1>10, <1>11

LEMMA DeviceStep == DeviceInv /\ DeviceInv' /\ [Next]_vars => [Device!Next]_(Device!vars)
<1> SUFFICES ASSUME DeviceInv, DeviceInv', [Next]_vars PROVE [Device!Next]_(Device!vars) OBVIOUS
<1> USE DEF DeviceInv
<1>1. ASSUME NEW c \in Callers, NEW r \in {ReadOf(s) : s \in 0..SectorCount}
                 \cup {WriteOf(s, d) : s \in 0..SectorCount, d \in Data}, Call(c, r)
      PROVE  Device!Call(c)
  <2>1. /\ pc[c] = "idle" /\ op[c] = NoRequest
        /\ op' = [op EXCEPT ![c] = r] /\ pc' = [pc EXCEPT ![c] = "called"]
        /\ UNCHANGED <<file, holder, answer>>
    BY <1>1 DEF Call, FileInv, HasRequest
  <2>2. \A d \in Callers : Begun(d)' <=> Begun(d)
    BY <2>1 DEF FileInv, TypeOK, Begun, Writes
  <2>3. holder # c
    BY <2>1 DEF FileInv, Exclusive, Inside
  <2>4. Seen' = Seen
    <3>1. holder \in Callers \cup {Nobody} /\ (holder \in Callers => op'[holder] = op[holder])
      BY <2>1, <2>3 DEF FileInv, TypeOK
    <3>2. \A s \in Sectors : Writing(s)' <=> Writing(s)
      BY <2>1, <2>2, <3>1 DEF Writing
    <3>3. \A s \in Sectors : Writing(s) => op'[holder] = op[holder]
      BY <3>1 DEF Writing
    <3> QED BY <2>1, <3>2, <3>3 DEF Seen
  <2>5. {d \in Callers : Begun(d)}' = {d \in Callers : Begun(d)}
    BY <2>2
  <2>6. op[c] = NoRequest /\ UNCHANGED <<Seen, {d \in Callers : Begun(d)}, answer>>
    BY <2>1, <2>4, <2>5
  <2>7. r[2] < SectorCount
    BY <1>1 DEF Call, InRange
  <2>8. Device!Ask(c, r)
    BY <2>1, <2>6 DEF Device!Ask
  <2>9. CASE \E s \in 0..SectorCount : r = ReadOf(s)
    <3>1. PICK s \in 0..SectorCount : r = ReadOf(s)
      BY <2>9
    <3>2. s \in Sectors
      BY <2>7, <3>1, FileAssumption DEF ReadOf, Sectors
    <3> QED BY <2>8, <3>1, <3>2 DEF Device!Call
  <2>10. CASE \E s \in 0..SectorCount, d \in Data : r = WriteOf(s, d)
    <3>1. PICK s \in 0..SectorCount, d \in Data : r = WriteOf(s, d)
      BY <2>10
    <3>2. s \in Sectors
      BY <2>7, <3>1, FileAssumption DEF WriteOf, Sectors
    <3> QED BY <2>8, <3>1, <3>2 DEF Device!Call
  <2> QED BY <2>9, <2>10
<1>2. ASSUME NEW c \in Callers, Refuse(c) PROVE Device!Refuse(c)
  <2>1. op[c] = NoRequest /\ UNCHANGED <<file, pc, holder, op>>
    BY <1>2 DEF Refuse, FileInv, HasRequest
  <2>2. Seen' = Seen /\ {d \in Callers : Begun(d)}' = {d \in Callers : Begun(d)}
    BY <2>1 DEF Seen, Writing, Begun, Writes
  <2> QED BY <1>2, <2>1, <2>2 DEF Refuse, Device!Refuse
<1>3. ASSUME NEW c \in Callers, Lock(c) \/ Seek(c) PROVE UNCHANGED Device!vars
  <2>1. /\ UNCHANGED <<file, op, answer>> /\ holder' = c
        /\ pc[c] \in {"called", "locked"} /\ pc'[c] \in {"locked", "first"}
        /\ \A d \in Callers \ {c} : pc'[d] = pc[d]
        /\ holder \in {c, Nobody}
    BY <1>3 DEF Lock, Seek, FileInv, TypeOK, Exclusive, Inside
  <2>2. \A d \in Callers : Begun(d)' <=> Begun(d)
    BY <2>1 DEF Begun, Writes
  <2>3. ~Begun(c) /\ ~Begun(c)'
    BY <2>1 DEF Begun
  <2>4. Seen' = Seen
    BY <2>1, <2>3, SeenLemma DEF Writing
  <2>5. {d \in Callers : Begun(d)}' = {d \in Callers : Begun(d)}
    BY <2>2
  <2> QED BY <2>1, <2>4, <2>5 DEF Device!vars
<1>4. CASE UNCHANGED vars
  <2>1. Seen' = Seen /\ {d \in Callers : Begun(d)}' = {d \in Callers : Begun(d)}
    BY <1>4 DEF vars, Seen, Writing, Begun, Writes
  <2> QED BY <1>4, <2>1 DEF vars, Device!vars
<1> QED BY <1>1, <1>2, <1>3, <1>4, TransferStep, FinishStep, FailStep
        DEF Next, CallerStep, Device!Next

\* A shared file is a block device of atomic sectors, for any number of
\* callers and sectors: the mutex makes each call look as if it happened at
\* one instant, and a write that fails spoils its own sector only.
THEOREM FileImplementsDevice == Spec => ImplementsDevice
BY DeviceInit, DeviceStep, DeviceInvariant, PTL DEF Spec, ImplementsDevice

==============================================================================
