---------------------------- MODULE MCBootMemory ----------------------------
EXTENDS BootMemory

\* Segments in low memory, at 1 MiB and above it, with and without zero fill,
\* one that ends with 2 MiB of RAM, one past it, one not in its file, and an
\* empty one.
Segments ==
  [paddr : {\h9000, HighMemory, HighMemory + \h40000},
   filesz : {0, \h1000, \h40000}, memsz : {\h1000, MiB - \h40000, MiB},
   inFile : {TRUE}]
  \cup {[paddr |-> HighMemory, filesz |-> \h1000, memsz |-> \h1000, inFile |-> FALSE],
        [paddr |-> HighMemory, filesz |-> 0, memsz |-> 0, inFile |-> TRUE]}

MCKernels == {<< >>} \cup {<<s>> : s \in Segments} \cup {<<s, t>> : s, t \in Segments}

\* Up to and onto the last byte below 1 MiB; past it; short or all blank.
Cmdlines ==
  [len : {40, HighMemory - Cmdline - 1, HighMemory - Cmdline, HighMemory}, blank : {FALSE}]

Credits(m, c, d) == [mode |-> m, credits_per_second |-> c, max_credits |-> d]

Config(mib, line, minShares, maxShares) ==
  [kernel_path |-> "file", rootfs_path |-> "file", cmdline |-> line,
   min_ram |-> mib, max_ram |-> 20, min_cpu_shares |-> minShares,
   max_cpu_shares |-> maxShares, gpu |-> Credits("none", 0, 0)]

Short == [len |-> 40, blank |-> FALSE]

Base == Config(2, Short, 100, 200)

\* RAM of 1 to 4 MiB, and what cannot be had, with each command line; then,
\* one at a time, everything validate looks at.
MCConfigs ==
  {Config(r, l, 100, 200) : r \in {1, 2, 4, 16, 18}, l \in Cmdlines}
  \cup {Config(2, Short, lo, hi) : lo, hi \in {0, 1, 10000, 10001}}
  \cup {[Base EXCEPT !.kernel_path = p, !.rootfs_path = q] : p, q \in Paths}
  \cup {[Base EXCEPT !.min_ram = r, !.max_ram = s] : r, s \in {0, 1, 2}}
  \cup {[Base EXCEPT !.cmdline = [len |-> n, blank |-> TRUE]] : n \in {0, 2}}
  \cup {[Base EXCEPT !.gpu = Credits("full", 0, 0)]}
  \cup {[Base EXCEPT !.gpu = Credits("credits", c, d)] : c, d \in {0, 1}}
=============================================================================
