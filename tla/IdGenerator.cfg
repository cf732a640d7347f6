\* As many ids as the kernel gets before one comes again.
CONSTANTS
  Seed   <- KernelSeed
  MaxIds = 1302
SPECIFICATION Spec
INVARIANT IdsDiffer
CHECK_DEADLOCK FALSE
