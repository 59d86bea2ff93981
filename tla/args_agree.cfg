SPECIFICATION Spec
CONSTANTS
  Aggregates <- MCAggregates
  MaxStack = 20
  Abis = {"sysv", "win64", "arm64", "apple64", "riscv64", "cdecl", "std", "fast_ms", "fast_gnu", "this_ms", "atpcs", "eabi", "armhf", "ppc32", "ppc32_darwin", "ppc64", "ppc64_elf2", "o32", "o32_soft", "n64", "n64_soft", "sparc", "sparc64"}
INVARIANTS TypeOK Agree NothingOverwritten CleanedUp ReturnAgrees ClassesRight
CHECK_DEADLOCK FALSE
