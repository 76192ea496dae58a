----------------------------- MODULE BootMemory -----------------------------
(***************************************************************************)
(* What run_vm puts into guest RAM before the virtual CPU starts, where,   *)
(* and in which order: boot tables, command line, boot_params, the kernel; *)
(* from a configuration that may be wrong, into memory there may not be.   *)
(* Source: hyperpod/src/vmm/common/boot.rs, elf.rs, ram.rs, and run_vm of  *)
(* linux/vm.rs and windows/vm.rs.  Its other steps are in VmLifecycle.     *)
(*                                                                         *)
(* Memory is the log of the ranges written; a later range covers an        *)
(* earlier one where they overlap.  Addresses are the real ones.           *)
(***************************************************************************)
EXTENDS Integers, Sequences, Configuration

CONSTANTS
  Configs,        \* the configurations that may be given
  Kernels,        \* the PT_LOAD segments of the ELF files that may be given
  UsizeMiB        \* the MiB at which a size in bytes overflows usize

MiB == 1048576

\* A PT_LOAD program header, and whether its bytes are in the file.
Segment == [paddr : Nat, filesz : Nat, memsz : Nat, inFile : BOOLEAN]

ASSUME BootAssumption ==
  /\ \A c \in Configs : IsConfig(c)
  /\ Kernels \subseteq Seq(Segment)
  /\ UsizeMiB \in Nat \ {0, 1}

GDT == \h500
IDT == \h520
ZeroPage == \h7000
StackPointer == \h8ff0
PML4 == \h9000
PDPTE == \ha000
PDE == \hb000
Cmdline == \h20000
HighMemory == \h100000

VARIABLES
  config,    \* HyperPodFile
  ram,       \* the size of guest RAM in bytes, once allocated
  kernel,    \* the segments of the kernel, once its file is read
  pc,        \* the next step, or "ready", "err"
  segment,   \* the program header elf::load is at
  log,       \* the ranges written, oldest first
  e820       \* the memory map in boot_params: a set of ranges

setting == <<config, ram, kernel>>
vars == <<setting, pc, segment, log, e820>>

Steps == {"config", "ram", "gdt", "tables", "cmdline", "zero page", "file", "kernel", "registers"}

Span(from, len) == [from |-> from, to |-> from + len]
Overlap(r, s) == r.from < s.to /\ s.from < r.to

Init ==
  /\ config \in Configs
  /\ ram = 0
  /\ kernel = << >>
  /\ pc = "config"
  /\ segment = 1
  /\ log = << >>
  /\ e820 = {}

-----------------------------------------------------------------------------

\* HyperPodFile::load.
LoadConfig ==
  /\ pc = "config"
  /\ pc' = IF Valid(config) THEN "ram" ELSE "err"
  /\ UNCHANGED <<setting, segment, log, e820>>

\* Faulty RamSize: the product wraps around.
RamSizeWrapped(mib) == {(mib % UsizeMiB) * MiB}

\* checked_mul: no size if the product overflows.
RamSize(mib) == IF mib < UsizeMiB THEN {mib * MiB} ELSE {}

\* GuestRam::new: no size, no memory, or zeroed memory of that size.
AllocateRam ==
  /\ pc = "ram"
  /\ \/ \E size \in RamSize(config.min_ram) : ram' = size /\ pc' = "gdt"
     \/ pc' = "err" /\ UNCHANGED ram
  /\ UNCHANGED <<config, kernel, segment, log, e820>>

\* Faulty Fits: only the start is compared.
StartFits(r) == r.from < ram

\* GuestRam::write_slice refuses what ends outside RAM.
Fits(r) == r.to <= ram

\* The ranges are written in order; at the first that does not fit, `?`
\* returns with the ones before it written.
Write(ranges, next) ==
  LET bad == {i \in DOMAIN ranges : ~Fits(ranges[i])}
      first == CHOOSE i \in bad : \A j \in bad : i <= j
  IN IF bad = {}
     THEN log' = log \o ranges /\ pc' = next
     ELSE log' = log \o SubSeq(ranges, 1, first - 1) /\ pc' = "err"

\* write_gdt and write_idt.
GdtRanges == <<Span(GDT, 4 * 8), Span(IDT, 8)>>

WriteGdt ==
  /\ pc = "gdt"
  /\ Write(GdtRanges, "tables")
  /\ UNCHANGED <<setting, segment, e820>>

TableRanges == <<Span(PML4, 8), Span(PDPTE, 8), Span(PDE, 512 * 8)>>

SetupPageTables ==
  /\ pc = "tables"
  /\ Write(TableRanges, "cmdline")
  /\ UNCHANGED <<setting, segment, e820>>

\* The command line and its terminating zero.
CmdlineRanges == <<Span(Cmdline, config.cmdline.len), Span(Cmdline + config.cmdline.len, 1)>>

WriteCmdline ==
  /\ pc = "cmdline"
  /\ Write(CmdlineRanges, "zero page")
  /\ UNCHANGED <<setting, segment, e820>>

\* run_vm computes the size again: min_ram * 1024 * 1024, unchecked.
MemBytes == (config.min_ram % UsizeMiB) * MiB

\* Faulty HighRam: the entry's length is all of RAM.
HighRamTooLong == Span(HighMemory, MemBytes)

\* The memory map's entry: RAM from 1 MiB on.
HighRam == Span(HighMemory, MemBytes - HighMemory)

\* boot_params: the header fields, the map and the number of its entries.
HeaderRanges ==
  <<Span(ZeroPage + \h1fe, 2), Span(ZeroPage + \h202, 4), Span(ZeroPage + \h206, 2),
    Span(ZeroPage + \h210, 1), Span(ZeroPage + \h230, 4), Span(ZeroPage + \h228, 4),
    Span(ZeroPage + \h238, 4)>>
MapRanges == IF MemBytes > HighMemory THEN <<Span(ZeroPage + \h2d0, 20)>> ELSE << >>
CountRanges == <<Span(ZeroPage + \h1e8, 1)>>

WriteZeroPage ==
  /\ pc = "zero page"
  /\ Write(HeaderRanges \o MapRanges \o CountRanges, "file")
  /\ e820' = IF MemBytes > HighMemory THEN {HighRam} ELSE {}
  /\ UNCHANGED <<setting, segment>>

\* elf::load reads the file, if it can and its header is that of a kernel.
ReadKernel ==
  /\ pc = "file"
  /\ \/ kernel' \in Kernels /\ pc' = "kernel"
     \/ pc' = "err" /\ UNCHANGED kernel
  /\ UNCHANGED <<config, ram, segment, log, e820>>

\* Faulty ZeroFill: the zeros start with the segment.
ZeroFillAll(s) == Span(s.paddr, s.memsz)

\* The part of a segment that is not in the file.
ZeroFill(s) == Span(s.paddr + s.filesz, s.memsz - s.filesz)

SegmentRanges(s) ==
  IF s.memsz > s.filesz THEN <<Span(s.paddr, s.filesz), ZeroFill(s)>>
  ELSE <<Span(s.paddr, s.filesz)>>

LoadSegment ==
  /\ pc = "kernel" /\ segment \in DOMAIN kernel
  /\ kernel[segment].inFile
  /\ Write(SegmentRanges(kernel[segment]), "kernel")
  /\ segment' = segment + 1
  /\ UNCHANGED <<setting, e820>>

\* A segment's bytes are not in the file, or no header is a PT_LOAD.
LoadFails ==
  /\ pc = "kernel"
  /\ \/ segment \in DOMAIN kernel /\ ~kernel[segment].inFile
     \/ kernel = << >>
  /\ pc' = "err"
  /\ UNCHANGED <<setting, segment, log, e820>>

Loaded ==
  /\ pc = "kernel" /\ kernel # << >> /\ segment = Len(kernel) + 1
  /\ pc' = "registers"
  /\ UNCHANGED <<setting, segment, log, e820>>

\* Both back ends then set the vCPU's registers, which can fail.
SetRegisters ==
  /\ pc = "registers"
  /\ pc' \in {"ready", "err"}
  /\ UNCHANGED <<setting, segment, log, e820>>

Next ==
  \/ LoadConfig \/ AllocateRam
  \/ WriteGdt \/ SetupPageTables \/ WriteCmdline \/ WriteZeroPage
  \/ ReadKernel \/ LoadSegment \/ LoadFails \/ Loaded \/ SetRegisters

Spec == Init /\ [][Next]_vars

-----------------------------------------------------------------------------

\* What the other components take for granted of a configuration: some RAM,
\* and the policy ScalingMonitor assumes, of which the sinks clamp nothing.
Suits(c) ==
  /\ c.min_ram >= 1
  /\ 1 <= c.min_cpu_shares /\ c.min_cpu_shares <= c.max_cpu_shares
  /\ c.max_cpu_shares <= ShareLimit

(***************************************************************************)
(* The type invariant: past validation a configuration suits the other     *)
(* components, and no write reaches outside RAM, whichever was refused.    *)
(***************************************************************************)
TypeOK ==
  /\ config \in Configs /\ ram \in Nat
  /\ kernel \in Kernels \cup {<< >>}
  /\ pc \in Steps \cup {"ready", "err"}
  /\ pc \notin {"config", "err"} => Suits(config)
  /\ segment \in 1..(Len(kernel) + 1)
  /\ \A i \in DOMAIN log : 0 <= log[i].from /\ log[i].from <= log[i].to /\ log[i].to <= ram

\* The ranges of segment i once loaded.
Extent(i) ==
  Span(kernel[i].paddr, IF kernel[i].memsz > kernel[i].filesz THEN kernel[i].memsz ELSE kernel[i].filesz)

\* What vmlinux files look like: segments from 1 MiB on that do not overlap.
HighKernel ==
  \A i \in DOMAIN kernel :
    /\ kernel[i].paddr >= HighMemory
    /\ \A j \in DOMAIN kernel : i # j => ~Overlap(Extent(i), Extent(j))

\* The page below the stack pointer.
Stack == Span(\h8000, StackPointer - \h8000)

(***************************************************************************)
(* A guest starts with everything that was put into its memory: no write   *)
(* covers an earlier one, nor the stack, for a kernel linked to high       *)
(* memory and a command line that ends below it.  (Nothing in the code     *)
(* checks the two conditions.)                                             *)
(***************************************************************************)
NothingOverwritten ==
  pc = "ready" /\ HighKernel /\ Cmdline + config.cmdline.len < HighMemory =>
    \A i \in DOMAIN log :
      /\ ~Overlap(log[i], Stack)
      /\ \A j \in DOMAIN log : i < j => ~Overlap(log[i], log[j])

(***************************************************************************)
(* A guest that starts has the min_ram MiB it was configured with (a size  *)
(* that overflows ends the start), and the memory map, whose size run_vm   *)
(* computes again without a check, tells it of RAM it has and no other,    *)
(* and of all the memory its kernel was loaded to (an empty segment has    *)
(* none).                                                                  *)
(***************************************************************************)
MemoryMapIsRam ==
  pc = "ready" =>
    /\ ram \div MiB = config.min_ram /\ ram % MiB = 0
    /\ \A r \in e820 : r.to <= ram
    /\ HighKernel => \A i \in DOMAIN kernel : Extent(i).from < Extent(i).to =>
         \E r \in e820 : r.from <= Extent(i).from /\ Extent(i).to <= r.to

=============================================================================
