\* Kernels of up to two segments, low and high, in 1, 2 and 4 MiB of RAM, and
\* configurations that are refused; sizes of 16 MiB and more overflow.
CONSTANTS
  Configs <- MCConfigs
  Kernels <- MCKernels
  UsizeMiB = 16
SPECIFICATION Spec
INVARIANTS TypeOK NothingOverwritten MemoryMapIsRam
CHECK_DEADLOCK FALSE
