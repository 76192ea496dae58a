--------------------------- MODULE VcpuLoopProofs ---------------------------
(***************************************************************************)
(* Proofs, for guests of any length and make-up on either back end, that   *)
(* the console shows each output stdout took once and in order.            *)
(*                                                                         *)
(* The invariant says whether the access at rip was already served: on     *)
(* KVM while its exit is kept for the next run, on WHPX between showing a  *)
(* byte and moving RIP.  A run that fails there leaves either state.       *)
(***************************************************************************)
EXTENDS VcpuLoop, SequenceTheorems, TLAPS

\* A guest is a sequence of accesses and an ending.
LEMMA ProgramLemma ==
  ASSUME NEW p \in Programs
  PROVE  /\ Len(p) \in Nat \ {0} /\ DOMAIN p = 1..Len(p)
         /\ \A i \in 1..Len(p) : p[i] \in Accesses \cup Endings
         /\ \A i \in 1..Len(p) : p[i] \in Accesses => i + 1 \in 1..Len(p)
<1> DEFINE bodies == UNION {[1..k -> Kinds] : k \in 0..MaxBody}
<1>1. PICK body \in bodies, end \in Endings : p = Append(body, end)
  BY DEF Programs
<1>2. PICK k \in 0..MaxBody : body \in [1..k -> Kinds]
  OBVIOUS
<1>3. k \in Nat /\ Kinds \subseteq Accesses
  BY LoopAssumption
<1> HIDE DEF bodies
<1>4. body \in Seq(Accesses) /\ Len(body) = k
  <2>1. body \in [1..k -> Accesses]
    BY <1>2, <1>3
  <2> QED BY <1>3, <2>1
<1>5. /\ Len(p) = k + 1 /\ DOMAIN p = 1..(k + 1)
      /\ \A i \in 1..k : p[i] \in Accesses
      /\ p[k + 1] \in Endings
  BY <1>1, <1>3, <1>4
<1>6. Accesses \cap Endings = {}
  BY DEF Accesses, Endings
<1>7. \A i \in 1..(k + 1) : i \in 1..k \/ i = k + 1
  BY <1>3
<1>8. \A i \in 1..(k + 1) : p[i] \in Accesses => i \in 1..k
  BY <1>5, <1>6, <1>7
<1> QED BY <1>3, <1>5, <1>7, <1>8

-----------------------------------------------------------------------------
\* What the console shows.

Writes == {"out", "outs"}

\* What Serial::write shows of the first n instructions of program p on back
\* end b, if stdout refuses what the instructions in l send.
Shown(b, p, l, n) ==
  {<<i, HeadOfData(b, p[i])>> : i \in {j \in 1..n \ l : p[j] \in Writes}}

\* That is what console c shows.
Shows(b, p, l, c, n) ==
  /\ l \subseteq {j \in 1..n : p[j] \in Writes}
  /\ c \in Seq(Nat \X {Stray, 1}) /\ InOrder(c)
  /\ {c[i] : i \in DOMAIN c} = Shown(b, p, l, n)

\* An instruction that writes nothing shows nothing.
LEMMA NothingShown ==
  ASSUME NEW b, NEW p, NEW l, NEW c, NEW n \in Nat \ {0}, p[n] \notin Writes
  PROVE  Shows(b, p, l, c, n) <=> Shows(b, p, l, c, n - 1)
<1>1. {j \in 1..n : p[j] \in Writes} = {j \in 1..(n - 1) : p[j] \in Writes}
  <2>1. \A j \in 1..n : j \in 1..(n - 1) \/ j = n
    OBVIOUS
  <2>2. \A j \in 1..(n - 1) : j \in 1..n
    OBVIOUS
  <2> QED BY <2>1, <2>2
<1>2. Shown(b, p, l, n) = Shown(b, p, l, n - 1)
  <2>1. {j \in 1..n \ l : p[j] \in Writes} = {j \in 1..(n - 1) \ l : p[j] \in Writes}
    BY <1>1
  <2> QED BY <2>1 DEF Shown
<1> QED BY <1>1, <1>2 DEF Shows

\* Output that stdout refuses.
LEMMA RefusedByte ==
  ASSUME NEW b, NEW p, NEW l, NEW c, NEW n \in Nat \ {0},
         p[n] \in Writes, Shows(b, p, l, c, n - 1)
  PROVE  Shows(b, p, l \cup {n}, c, n)
<1>1. \A j \in 1..n : j \in 1..(n - 1) \/ j = n
  OBVIOUS
<1>2. \A j \in 1..(n - 1) : j \in 1..n /\ j # n
  OBVIOUS
<1>3. l \subseteq {j \in 1..(n - 1) : p[j] \in Writes}
  BY DEF Shows
<1>4. l \cup {n} \subseteq {j \in 1..n : p[j] \in Writes}
  BY <1>2, <1>3
<1>5. 1..n \ (l \cup {n}) = 1..(n - 1) \ l
  BY <1>1, <1>2
<1>6. Shown(b, p, l \cup {n}, n) = Shown(b, p, l, n - 1)
  BY <1>5 DEF Shown
<1> QED BY <1>4, <1>6 DEF Shows

\* Output that it shows.
LEMMA ShownByte ==
  ASSUME NEW b, NEW p, NEW l, NEW c, NEW n \in Nat \ {0}, NEW k,
         p[n] \in Writes, k = HeadOfData(b, p[n]), Shows(b, p, l, c, n - 1)
  PROVE  Shows(b, p, l, c \o <<<<n, k>>>>, n)
<1> DEFINE d == c \o <<<<n, k>>>>
           m == Len(c)
<1>1. /\ c \in Seq(Nat \X {Stray, 1}) /\ InOrder(c)
      /\ l \subseteq {j \in 1..(n - 1) : p[j] \in Writes}
      /\ {c[i] : i \in DOMAIN c} = Shown(b, p, l, n - 1)
  BY DEF Shows
<1>2. \A j \in 1..n : j \in 1..(n - 1) \/ j = n
  OBVIOUS
<1>3. \A j \in 1..(n - 1) : j \in 1..n /\ j < n
  OBVIOUS
<1>4. n \in 1..n /\ n \notin l
  <2>1. ~(n \in 1..(n - 1))
    OBVIOUS
  <2> QED BY <1>1, <2>1
<1>5. m \in Nat /\ DOMAIN c = 1..m
  BY <1>1, LenProperties
<1>6. /\ d \in Seq(Nat \X {Stray, 1}) /\ DOMAIN d = 1..(m + 1) /\ d[m + 1] = <<n, k>>
      /\ \A i \in 1..m : d[i] = c[i]
  <2>1. <<<<n, k>>>> \in Seq(Nat \X {Stray, 1}) /\ Len(<<<<n, k>>>>) = 1 /\ <<<<n, k>>>>[1] = <<n, k>>
    BY DEF HeadOfData
  <2> DEFINE e == <<<<n, k>>>>
  <2> HIDE DEF e
  <2>2. /\ c \o e \in Seq(Nat \X {Stray, 1}) /\ Len(c \o e) = m + 1
        /\ \A i \in 1..(m + 1) : (c \o e)[i] = IF i <= m THEN c[i] ELSE e[i - m]
    BY <1>1, <2>1, ConcatProperties DEF e
  <2>3. DOMAIN (c \o e) = 1..(m + 1)
    BY <2>2, LenProperties
  <2>4. (c \o e)[m + 1] = <<n, k>> /\ \A i \in 1..m : (c \o e)[i] = c[i]
    <3>1. m + 1 \in 1..(m + 1) /\ ~(m + 1 <= m) /\ (m + 1) - m = 1
      BY <1>5
    <3>2. \A i \in 1..m : i \in 1..(m + 1) /\ i <= m
      BY <1>5
    <3> QED BY <2>1, <2>2, <3>1, <3>2 DEF e
  <2> QED BY <2>2, <2>3, <2>4 DEF e
<1> HIDE DEF d, m
<1>7. \A i \in 1..(m + 1) : i \in 1..m \/ i = m + 1
  BY <1>5
<1>8. \A i \in 1..m : i \in 1..(m + 1) /\ c[i][1] \in 1..(n - 1)
  <2> TAKE i \in 1..m
  <2>1. c[i] \in Shown(b, p, l, n - 1)
    BY <1>1, <1>5
  <2>2. PICK j \in 1..(n - 1) : c[i] = <<j, HeadOfData(b, p[j])>>
    BY <2>1 DEF Shown
  <2> QED BY <1>5, <2>2
<1>9. InOrder(d)
  <2> SUFFICES ASSUME NEW i \in 1..(m + 1), NEW j \in 1..(m + 1), i < j
               PROVE  d[i][1] < d[j][1]
    BY <1>6 DEF InOrder
  <2>1. i \in 1..m /\ d[i] = c[i]
    BY <1>5, <1>6
  <2>2. CASE j \in 1..m
    BY <1>1, <1>5, <1>6, <2>1, <2>2 DEF InOrder
  <2>3. CASE j = m + 1
    <3>1. d[j][1] = n
      BY <1>6, <2>3
    <3> QED BY <1>3, <1>8, <2>1, <3>1
  <2> QED BY <1>7, <2>2, <2>3
<1>10. {d[i] : i \in DOMAIN d} = Shown(b, p, l, n)
  <2>1. {d[i] : i \in DOMAIN d} = {c[i] : i \in DOMAIN c} \cup {<<n, k>>}
    <3>1. \A i \in DOMAIN c : i \in DOMAIN d /\ d[i] = c[i]
      BY <1>5, <1>6, <1>8
    <3>2. \A i \in DOMAIN d : (i \in DOMAIN c /\ d[i] = c[i]) \/ d[i] = <<n, k>>
      BY <1>5, <1>6, <1>7
    <3>3. m + 1 \in DOMAIN d
      BY <1>5, <1>6
    <3> QED BY <1>6, <3>1, <3>2, <3>3
  <2>2. {j \in 1..n \ l : p[j] \in Writes} = {j \in 1..(n - 1) \ l : p[j] \in Writes} \cup {n}
    BY <1>2, <1>3, <1>4
  <2>3. Shown(b, p, l, n) = Shown(b, p, l, n - 1) \cup {<<n, k>>}
    BY <2>2 DEF Shown
  <2> QED BY <1>1, <2>1, <2>3
<1>11. l \subseteq {j \in 1..n : p[j] \in Writes}
  BY <1>1, <1>3
<1>12. Shows(b, p, l, d, n)
  BY <1>6, <1>9, <1>10, <1>11 DEF Shows
<1> QED BY <1>12 DEF d

-----------------------------------------------------------------------------
\* The invariant.

\* The access at rip was served and is not retired.
Served == pc = "registers" \/ (pc = "enter" /\ backend = "kvm" /\ exit # "none")

\* What the position in the loop implies of the exit.
Position ==
  /\ pc = "handle" => exit = program[rip] \/ (exit = "canceled" /\ backend = "whpx")
  /\ pc = "registers" => backend = "whpx" /\ exit = program[rip] /\ exit \in Accesses
  /\ pc = "enter" /\ backend = "kvm" =>
       exit = "none" \/ (exit = program[rip] /\ exit \notin {"hlt", "shutdown"})

Shows1(n) == Shows(backend, program, lost, console, n)

LoopInv ==
  /\ TypeOK /\ Position
  /\ IF pc \in {"ok", "err"} THEN Shows1(rip - 1) \/ Shows1(rip)
     ELSE Shows1(IF Served THEN rip ELSE rip - 1)

-----------------------------------------------------------------------------
\* The steps.

\* An instruction of the guest; an access has another one after it.
LEMMA AtRip ==
  ASSUME TypeOK
  PROVE  /\ rip \in Nat \ {0} /\ rip - 1 + 1 = rip
         /\ program[rip] \in Accesses \cup Endings
         /\ program[rip] \in Accesses => rip + 1 \in DOMAIN program /\ (rip + 1) - 1 = rip
<1>1. program \in Programs /\ rip \in DOMAIN program
  BY DEF TypeOK
<1>2. rip \in 1..Len(program) /\ Len(program) \in Nat
  BY <1>1, ProgramLemma
<1> QED BY <1>1, <1>2, ProgramLemma

\* The guest goes on behind what was served, or asks again.
LEMMA Retired ==
  ASSUME TypeOK, Shows1(rip), program[rip] \notin {"hlt", "shutdown"}
  PROVE  After(rip, input) \in DOMAIN program /\ Shows1(After(rip, input) - 1)
<1>1. CASE program[rip] = "odd" \/ (program[rip] = "poll" /\ input # "ready")
  <2>1. After(rip, input) = rip /\ program[rip] \notin Writes
    BY <1>1 DEF After, Writes
  <2> QED BY <2>1, AtRip, NothingShown DEF TypeOK, Shows1
<1>2. CASE ~(program[rip] = "odd" \/ (program[rip] = "poll" /\ input # "ready"))
  <2>1. After(rip, input) = rip + 1
    BY <1>2 DEF After
  <2>2. program[rip] \in Accesses
    BY <1>2, AtRip DEF Endings
  <2> QED BY <2>1, <2>2, AtRip
<1> QED BY <1>1, <1>2

LEMMA LoopInit == Init => LoopInv
<1> SUFFICES ASSUME Init PROVE LoopInv OBVIOUS
<1>1. program \in Programs /\ rip = 1 /\ 1 \in DOMAIN program
  BY ProgramLemma DEF Init
<1>2. TypeOK /\ Position
  BY <1>1 DEF Init, TypeOK, Position
<1>3. ~Served /\ pc = "enter"
  BY DEF Init, Served
<1>4. Shows1(rip - 1)
  <2>1. 1..(1 - 1) = {} /\ 1 - 1 = 0
    OBVIOUS
  <2>2. Shown(backend, program, {}, 0) = {}
    BY <2>1 DEF Shown
  <2>3. << >> \in Seq(Nat \X {Stray, 1}) /\ DOMAIN << >> = {}
    OBVIOUS
  <2>4. Shows(backend, program, {}, << >>, 0)
    BY <2>2, <2>3 DEF Shows, InOrder
  <2> QED BY <1>1, <2>1, <2>4 DEF Init, Shows1
<1> QED BY <1>2, <1>3, <1>4 DEF LoopInv

LEMMA VcpuRunsStep == LoopInv /\ VcpuRuns => LoopInv'
<1> SUFFICES ASSUME LoopInv, VcpuRuns PROVE LoopInv' OBVIOUS
<1>1. rip' \in DOMAIN program /\ Shows1(rip' - 1)
  <2>1. CASE backend = "kvm" /\ exit # "none"
    <3>1. Served /\ Shows1(rip)
      BY <2>1 DEF VcpuRuns, LoopInv, Served
    <3>2. program[rip] \notin {"hlt", "shutdown"}
      BY <2>1 DEF VcpuRuns, LoopInv, Position
    <3> QED BY <2>1, <3>1, <3>2, Retired DEF VcpuRuns, LoopInv
  <2>2. CASE ~(backend = "kvm" /\ exit # "none")
    BY <2>2 DEF VcpuRuns, LoopInv, Served, TypeOK
  <2> QED BY <2>1, <2>2
<1>2. program[rip'] \in Accesses \cup Endings
  BY <1>1, ProgramLemma DEF LoopInv, TypeOK
<1>3. TypeOK'
  BY <1>1, <1>2 DEF VcpuRuns, LoopInv, TypeOK
<1>4. Position' /\ ~Served' /\ pc' = "handle"
  BY DEF VcpuRuns, Position, Served
<1>5. Shows1(rip - 1)'
  BY <1>1 DEF VcpuRuns, Shows1
<1> QED BY <1>3, <1>4, <1>5 DEF LoopInv

\* A step that leaves guest and console alone keeps what is shown.
LEMMA SameOutput ==
  ASSUME LoopInv, UNCHANGED <<backend, program, rip, console, lost>>, TypeOK', Position',
         \/ pc' \in {"ok", "err"} /\ pc \notin {"ok", "err"}
         \/ pc' \in {"enter", "handle", "registers"} /\ pc \notin {"ok", "err"} /\ Served' = Served
         \/ pc' \in {"enter", "registers"} /\ pc = "handle" /\ program[rip] \notin Writes
  PROVE  LoopInv'
<1>1. Shows1(rip)' = Shows1(rip) /\ Shows1(rip - 1)' = Shows1(rip - 1)
  BY DEF Shows1
<1>2. CASE pc' \in {"ok", "err"} /\ pc \notin {"ok", "err"}
  BY <1>1, <1>2 DEF LoopInv
<1>3. CASE pc' \in {"enter", "handle", "registers"} /\ pc \notin {"ok", "err"} /\ Served' = Served
  BY <1>1, <1>3 DEF LoopInv
<1>4. CASE pc' \in {"enter", "registers"} /\ pc = "handle" /\ program[rip] \notin Writes
  <2>1. Shows1(rip) /\ Shows1(rip - 1)
    <3>1. Shows1(rip - 1)
      BY <1>4 DEF LoopInv, Served
    <3> QED BY <1>4, <3>1, AtRip, NothingShown DEF LoopInv, Shows1
  <2> QED BY <1>1, <1>4, <2>1 DEF LoopInv
<1> QED BY <1>2, <1>3, <1>4

\* Serial::write shows the byte, or loses it.
LEMMA SerialWriteStep == LoopInv /\ SerialWrite => LoopInv'
<1> SUFFICES ASSUME LoopInv, SerialWrite PROVE LoopInv' OBVIOUS
<1>1. /\ rip \in Nat \ {0} /\ rip \in DOMAIN program
      /\ program[rip] \in Writes /\ program[rip] = exit /\ Shows1(rip - 1)
  BY AtRip DEF LoopInv, TypeOK, Position, SerialWrite, Served, Writes
<1>2. Shows1(rip)'
  <2>1. CASE console' = console \o ToConsole /\ UNCHANGED lost
    BY <1>1, <2>1, ShownByte DEF SerialWrite, ToConsole, Shows1
  <2>2. CASE lost' = lost \cup {rip} /\ UNCHANGED console
    BY <1>1, <2>2, RefusedByte DEF SerialWrite, Shows1
  <2> QED BY <2>1, <2>2 DEF SerialWrite
<1>3. /\ lost' \subseteq DOMAIN program
      /\ \A i \in DOMAIN console' : console'[i][1] \in DOMAIN program
  <2>1. \A j \in 1..rip : j \in DOMAIN program
    BY <1>1, ProgramLemma DEF LoopInv, TypeOK
  <2>2. lost' \subseteq 1..rip /\ \A i \in DOMAIN console' : console'[i] \in Shown(backend, program, lost', rip)
    BY <1>2 DEF Shows1, Shows, SerialWrite
  <2>3. \A x \in Shown(backend, program, lost', rip) : x[1] \in 1..rip
    BY DEF Shown
  <2> QED BY <2>1, <2>2, <2>3
<1>4. TypeOK' /\ Position' /\ Served' /\ pc' \in {"enter", "registers"}
  <2>1. pc' = IF backend = "whpx" THEN "registers" ELSE "enter"
    BY DEF SerialWrite, AfterAccess
  <2>2. backend \in {"kvm", "whpx"} /\ UNCHANGED <<backend, program, rip, exit, input>>
    BY DEF LoopInv, TypeOK, SerialWrite
  <2>3. exit \in {"out", "outs"}
    BY DEF SerialWrite
  <2>4. TypeOK'
    BY <1>3, <2>1, <2>2 DEF LoopInv, TypeOK
  <2>5. Position' /\ Served'
    BY <1>1, <2>1, <2>2, <2>3 DEF Position, Served, Accesses
  <2> QED BY <2>1, <2>4, <2>5
<1> QED BY <1>2, <1>4 DEF LoopInv

\* Reads, and accesses to what nobody emulates.
LEMMA AccessStep == LoopInv /\ (SerialRead \/ Ignored) => LoopInv'
<1> SUFFICES ASSUME LoopInv, SerialRead \/ Ignored PROVE LoopInv' OBVIOUS
<1>1. /\ pc = "handle" /\ exit = program[rip] /\ exit \in Accesses \ Writes
      /\ UNCHANGED <<backend, program, rip, exit, console, lost>>
      /\ pc' = IF backend = "whpx" THEN "registers" ELSE "enter"
      /\ backend \in {"kvm", "whpx"} /\ input' \in {"ready", "zero"}
  BY DEF LoopInv, Position, TypeOK, SerialRead, Ignored, AfterAccess, Accesses, Writes, LineStatus
<1>2. TypeOK'
  BY <1>1 DEF LoopInv, TypeOK
<1>3. Position'
  BY <1>1 DEF Position, Accesses
<1> QED BY <1>1, <1>2, <1>3, SameOutput

LEMMA UnknownExitStep == LoopInv /\ UnknownExit => LoopInv'
<1> SUFFICES ASSUME LoopInv, UnknownExit PROVE LoopInv' OBVIOUS
<1>1. /\ pc = "handle" /\ program[rip] = "odd" /\ exit = "odd" /\ program[rip] \notin Writes
      /\ UNCHANGED <<backend, program, rip, exit, input, console, lost>>
      /\ pc' = IF backend = "whpx" THEN "ok" ELSE "enter"
  BY DEF LoopInv, Position, UnknownExit, Writes
<1>2. TypeOK' /\ Position'
  BY <1>1 DEF LoopInv, TypeOK, Position
<1> QED BY <1>1, <1>2, SameOutput

\* A run that was canceled served nothing.
LEMMA CanceledStep == LoopInv /\ (Canceled \/ Again) => LoopInv'
<1> SUFFICES ASSUME LoopInv, Canceled \/ Again PROVE LoopInv' OBVIOUS
<1>1. /\ pc \in {"enter", "handle"} /\ pc' \in {"enter", "handle"} /\ backend = "whpx"
      /\ exit' = "canceled" /\ UNCHANGED <<backend, program, rip, input, console, lost>>
  BY AtRip DEF LoopInv, Position, Canceled, Again, Accesses, Endings
<1>2. TypeOK' /\ Position'
  BY <1>1 DEF LoopInv, TypeOK, Position
<1>3. Served' = Served
  BY <1>1 DEF Served
<1> QED BY <1>1, <1>2, <1>3, SameOutput

\* The loop returns.
LEMMA ReturnStep == LoopInv /\ (RunFails \/ GuestEnds \/ SetRegistersFails) => LoopInv'
<1> SUFFICES ASSUME LoopInv, RunFails \/ GuestEnds \/ SetRegistersFails PROVE LoopInv' OBVIOUS
<1>1. /\ pc \in {"enter", "handle", "registers"} /\ pc' \in {"ok", "err"}
      /\ UNCHANGED <<backend, program, rip, exit, input, console, lost>>
  BY DEF RunFails, GuestEnds, SetRegistersFails
<1>2. TypeOK' /\ Position'
  BY <1>1 DEF LoopInv, TypeOK, Position
<1> QED BY <1>1, <1>2, SameOutput

\* set_registers: what was served is retired.
LEMMA SetRegistersStep == LoopInv /\ SetRegisters => LoopInv'
<1> SUFFICES ASSUME LoopInv, SetRegisters PROVE LoopInv' OBVIOUS
<1>1. Shows1(rip) /\ program[rip] \in Accesses /\ backend = "whpx"
  BY DEF LoopInv, Position, Served, SetRegisters
<1>2. After(rip, input) \in DOMAIN program /\ Shows1(After(rip, input) - 1)
  BY <1>1, Retired DEF LoopInv, Accesses
<1>3. TypeOK' /\ Position' /\ ~Served' /\ pc' = "enter"
  BY <1>1, <1>2 DEF LoopInv, TypeOK, Position, Served, SetRegisters
<1>4. Shows1(rip - 1)'
  BY <1>2 DEF SetRegisters, Shows1
<1> QED BY <1>3, <1>4 DEF LoopInv

LEMMA LoopStep == LoopInv /\ [Next]_vars => LoopInv'
<1> SUFFICES ASSUME LoopInv, [Next]_vars PROVE LoopInv' OBVIOUS
<1>1. CASE UNCHANGED vars
  <2>1. TypeOK' /\ Position' /\ (Served' <=> Served) /\ (Shows1(rip)' <=> Shows1(rip))
        /\ (Shows1(rip - 1)' <=> Shows1(rip - 1))
    BY <1>1 DEF vars, LoopInv, TypeOK, Position, Served, Shows1
  <2> QED BY <1>1, <2>1 DEF vars, LoopInv
<1> QED BY <1>1, VcpuRunsStep, SerialWriteStep, AccessStep, UnknownExitStep, CanceledStep,
           ReturnStep, SetRegistersStep DEF Next, Handle

LEMMA LoopInvariant == Spec => []LoopInv
BY LoopInit, LoopStep, PTL DEF Spec

\* The type invariant: the guest stays within its program, for programs of any
\* length.
THEOREM LoopTypeCorrect == Spec => []TypeOK
<1>1. LoopInv => TypeOK
  BY DEF LoopInv
<1> QED BY <1>1, LoopInvariant, PTL

\* For guests of any length and make-up on either back end, and any failures:
\* the console shows each output stdout took once and in order, a plain one as
\* its byte and a string as the byte that heads the data the loop is given.
THEOREM LoopConsoleIsOutput == Spec => []ConsoleIsOutput
<1>1. ASSUME NEW n PROVE Sent(n) = Shown(backend, program, lost, n)
  BY DEF Sent, Visible, Shown, HeadOfData, Writes
<1>2. LoopInv => ConsoleIsOutput
  <2> SUFFICES ASSUME LoopInv PROVE ConsoleIsOutput
    OBVIOUS
  <2>1. Shows1(rip - 1) \/ Shows1(rip)
    BY DEF LoopInv
  <2> QED BY <1>1, <2>1 DEF Shows1, Shows, ConsoleIsOutput
<1> QED BY <1>2, LoopInvariant, PTL

=============================================================================
