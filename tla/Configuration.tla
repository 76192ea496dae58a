--------------------------- MODULE Configuration ---------------------------
(***************************************************************************)
(* HyperPod.toml as HyperPodFile::load accepts it.                         *)
(* Source: hyperpod/src/config.rs.                                         *)
(*                                                                         *)
(* A configuration is a record.  A path is what it names; the command line *)
(* its length and whether it is all white space; a GPU policy its numbers, *)
(* none of which is used after validation, nor is max_ram.                 *)
(***************************************************************************)
EXTENDS Naturals

\* The largest weight of cgroup v2, and of CpuRate.
ShareLimit == 10000

Paths == {"file", "directory", "missing"}

\* What toml::from_str with deny_unknown_fields gives.
IsConfig(c) ==
  /\ c.kernel_path \in Paths /\ c.rootfs_path \in Paths
  /\ c.cmdline \in [len : Nat, blank : BOOLEAN]
  /\ c.cmdline.len = 0 => c.cmdline.blank
  /\ c.min_ram \in Nat /\ c.max_ram \in Nat
  /\ c.min_cpu_shares \in Nat /\ c.max_cpu_shares \in Nat
  /\ c.gpu \in [mode : {"none", "full", "credits"}, credits_per_second : Nat, max_credits : Nat]

\* ensure_file_exists follows links and takes regular files.
FileExists(path) == path = "file"

\* Faulty SharesInRange: both must be out of range to be refused.
SharesNotBothOut(c) == ~(c.min_cpu_shares > ShareLimit /\ c.max_cpu_shares > ShareLimit)

SharesInRange(c) == ~(c.min_cpu_shares > ShareLimit \/ c.max_cpu_shares > ShareLimit)

\* HyperPodFile::validate.  Every check that fails ends the start, so their
\* order is left out.
Valid(c) ==
  /\ FileExists(c.kernel_path) /\ FileExists(c.rootfs_path)
  /\ ~c.cmdline.blank
  /\ c.min_ram # 0 /\ c.max_ram >= c.min_ram
  /\ c.min_cpu_shares # 0 /\ c.max_cpu_shares >= c.min_cpu_shares
  /\ SharesInRange(c)
  /\ c.gpu.mode = "credits" => c.gpu.credits_per_second # 0 /\ c.gpu.max_credits # 0

=============================================================================
