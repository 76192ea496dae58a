------------------------------ MODULE VcpuLoop ------------------------------
(***************************************************************************)
(* The run loop of the virtual CPU, which serves the guest's exits, and    *)
(* the serial console behind it, for both back ends.                       *)
(* Source: hyperpod/src/vmm/linux/vm.rs (run_vm's loop, KVM),              *)
(* vmm/windows/vm.rs (run_loop, WHPX) and vmm/common/serial.rs.            *)
(*                                                                         *)
(* The guest is a straight program of the instructions that exit; what it  *)
(* does in between is not seen.  KVM retires an instruction when it is     *)
(* entered again; WHPX leaves it to the loop to move RIP, in a call that   *)
(* may fail after the access was served.                                   *)
(***************************************************************************)
EXTENDS Naturals, Sequences

CONSTANTS
  Kinds,     \* the instructions guests are made of
  MaxBody    \* how many of them come before the last

\* out, outs: one byte, two bytes (a string instruction) to the transmitter;
\* reg: a write to another serial register; poll: read the line status until
\* the transmitter is ready; in: another serial register is read; pio, mmio:
\* a device nobody emulates.
Accesses == {"out", "outs", "reg", "poll", "in", "pio", "mmio"}

\* hlt, shutdown: the guest ends; odd: an exit the loop does not know.
Endings == {"hlt", "shutdown", "odd"}

ASSUME LoopAssumption ==
  Kinds \subseteq Accesses /\ MaxBody \in Nat

Programs == {Append(body, end) : body \in UNION {[1..k -> Kinds] : k \in 0..MaxBody}, end \in Endings}

VARIABLES
  backend,   \* "kvm" or "whpx"
  program,   \* the guest
  rip,       \* the instruction it is at
  exit,      \* the exit being served, "none" or "canceled"
  input,     \* what an IN has got: "ready" for THRE | TEMT, or "zero"
  pc,        \* "enter", "handle", "registers", or the loop's result: "ok", "err"
  console,   \* what stdout shows: <<instruction, the byte's place in its data>>
  lost       \* the instructions whose output stdout refused

vars == <<backend, program, rip, exit, input, pc, console, lost>>

Init ==
  /\ backend \in {"kvm", "whpx"}
  /\ program \in Programs
  /\ rip = 1 /\ exit = "none" /\ input = "zero"
  /\ pc = "enter"
  /\ console = << >> /\ lost = {}

\* Where the guest is once instruction i is retired.
After(i, value) ==
  IF program[i] = "odd" \/ (program[i] = "poll" /\ value # "ready") THEN i ELSE i + 1

-----------------------------------------------------------------------------
\* The hypervisor.

\* The guest runs to its next exit; KVM first retires the instruction served.
VcpuRuns ==
  /\ pc = "enter"
  /\ rip' = IF backend = "kvm" /\ exit # "none" THEN After(rip, input) ELSE rip
  /\ exit' = program[rip']
  /\ input' = "zero"
  /\ pc' = "handle"
  /\ UNCHANGED <<backend, program, console, lost>>

\* KVM_RUN or WHvRunVirtualProcessor fails; KVM_RUN also when a signal comes.
RunFails ==
  /\ pc = "enter"
  /\ pc' = "err"
  /\ UNCHANGED <<backend, program, rip, exit, input, console, lost>>

\* WHPX comes back without an exit of the guest (None, Canceled).
Canceled ==
  /\ pc = "enter" /\ backend = "whpx"
  /\ exit' = "canceled"
  /\ pc' = "handle"
  /\ UNCHANGED <<backend, program, rip, input, console, lost>>

-----------------------------------------------------------------------------
\* The loop.

\* The access is served; WHPX still has to be told where to go on.
AfterAccess == pc' = IF backend = "whpx" THEN "registers" ELSE "enter"

\* A byte that is none of those the guest sent.
Stray == 0

\* The byte at the head of the data an access of kind k hands over on back end
\* b: KVM hands over what was sent; WHPX's loop takes RAX, where the byte of a
\* plain OUT is, but not a string's, whose bytes are in memory.
HeadOfData(b, k) == IF b = "whpx" /\ k = "outs" THEN Stray ELSE 1

\* Serial::write shows the first byte of data.
ToConsole == <<<<rip, HeadOfData(backend, exit)>>>>

\* Serial::write; an error of stdout is dropped.
SerialWrite ==
  /\ pc = "handle" /\ exit \in {"out", "outs"}
  /\ \/ console' = console \o ToConsole /\ UNCHANGED lost
     \/ lost' = lost \cup {rip} /\ UNCHANGED console
  /\ AfterAccess
  /\ UNCHANGED <<backend, program, rip, exit, input>>

\* Faulty LineStatus: the status register reads as every other one.
LineStatusZero == "zero"

\* Serial::read of the line status register.
LineStatus == "ready"

SerialRead ==
  /\ pc = "handle" /\ exit \in {"poll", "in"}
  /\ input' = IF exit = "poll" THEN LineStatus ELSE "zero"
  /\ AfterAccess
  /\ UNCHANGED <<backend, program, rip, exit, console, lost>>

\* Accesses that are logged only, and writes to other serial registers.
Ignored ==
  /\ pc = "handle" /\ exit \in {"reg", "pio", "mmio"}
  /\ AfterAccess
  /\ UNCHANGED <<backend, program, rip, exit, input, console, lost>>

Again ==
  /\ pc = "handle" /\ exit = "canceled"
  /\ pc' = "enter"
  /\ UNCHANGED <<backend, program, rip, exit, input, console, lost>>

GuestEnds ==
  /\ pc = "handle" /\ exit \in {"hlt", "shutdown"}
  /\ pc' = "ok"
  /\ UNCHANGED <<backend, program, rip, exit, input, console, lost>>

\* An exit of no arm: WHPX's loop returns Ok, KVM's logs it and runs on.
UnknownExit ==
  /\ pc = "handle" /\ exit = "odd"
  /\ pc' = IF backend = "whpx" THEN "ok" ELSE "enter"
  /\ UNCHANGED <<backend, program, rip, exit, input, console, lost>>

\* Faulty SetRegisters: RIP stays where the access was.
SetRegistersWithoutRip ==
  /\ pc = "registers"
  /\ pc' = "enter"
  /\ UNCHANGED <<backend, program, rip, exit, input, console, lost>>

\* Faulty SetRegisters: one instruction too far.
SetRegistersTwice ==
  /\ pc = "registers"
  /\ rip' = After(rip, input) + 1
  /\ pc' = "enter"
  /\ UNCHANGED <<backend, program, exit, input, console, lost>>

\* set_registers: the instruction is retired, with the value it read.
SetRegisters ==
  /\ pc = "registers"
  /\ rip' = After(rip, input)
  /\ pc' = "enter"
  /\ UNCHANGED <<backend, program, exit, input, console, lost>>

SetRegistersFails ==
  /\ pc = "registers"
  /\ pc' = "err"
  /\ UNCHANGED <<backend, program, rip, exit, input, console, lost>>

Handle == SerialWrite \/ SerialRead \/ Ignored \/ Again \/ GuestEnds \/ UnknownExit

Next ==
  VcpuRuns \/ RunFails \/ Canceled \/ Handle \/ SetRegisters \/ SetRegistersFails

\* The loop's own steps are one thread's.  Runs may be canceled, but not for
\* ever: the guest gets to its next exit again and again if it is let in.
Fairness == SF_vars(VcpuRuns) /\ WF_vars(Handle) /\ WF_vars(SetRegisters)

Spec == Init /\ [][Next]_vars /\ Fairness

-----------------------------------------------------------------------------

TypeOK ==
  /\ backend \in {"kvm", "whpx"}
  /\ program \in Programs
  /\ rip \in DOMAIN program
  /\ exit \in Accesses \cup Endings \cup {"none", "canceled"}
  /\ input \in {"ready", "zero"}
  /\ pc \in {"enter", "handle", "registers", "ok", "err"}
  /\ \A i \in DOMAIN console : console[i][1] \in DOMAIN program
  /\ lost \subseteq DOMAIN program

\* What the console has to show of output i: its first byte, and of a string
\* on WHPX one that is not its own.
Visible(i) == IF backend = "whpx" /\ program[i] = "outs" THEN Stray ELSE 1

\* That of the first n instructions, as far as stdout took it.
Sent(n) == {<<i, Visible(i)>> : i \in {j \in 1..n \ lost : program[j] \in {"out", "outs"}}}

InOrder(s) == \A i, j \in DOMAIN s : i < j => s[i][1] < s[j][1]

(***************************************************************************)
(* "serial PIO -> host stdout" (README): the console shows each output     *)
(* stdout took once and in order, across cancelled runs, failures and the  *)
(* step in which WHPX has shown a byte and not yet moved RIP.  What it     *)
(* shows of a plain output is its byte; of a string, only the first byte   *)
(* on KVM, and on WHPX none of it but the low byte of RAX in its place.    *)
(***************************************************************************)
ConsoleIsOutput ==
  /\ InOrder(console)
  /\ {console[i] : i \in DOMAIN console} \in {Sent(rip - 1), Sent(rip)}

(***************************************************************************)
(* A guest that ends, ends the loop: it is never made to execute the same  *)
(* access for ever, and one that waits for the transmitter finds it ready. *)
(* (An exit KVM's loop does not know is retried without end.)              *)
(***************************************************************************)
GuestEndsLoop ==
  (backend = "kvm" => program[Len(program)] # "odd") => <>(pc \in {"ok", "err"})

=============================================================================
