\* The builder loads the kernel and two servers into domains of 22 to 32
\* frames (22 is the least the largest image needs); the kernel sets up
\* two tasks (one of them HARDWARE) and the two
\* servers, then the process manager forks into the two free user slots
\* and gives the children their maps.  The model ends there: exit and exec,
\* which would free and reuse the slots, are not in the repository.
SPECIFICATION BootSpec
CONSTANTS
  NrPages = {22, 24, 25, 31, 32}
  Images <- MCBootImages
  PAGE_SIZE = 64
  ENTRY_SIZE = 4
  CLICK_SIZE = 16
  K_CHMEM = TRUE
  NR_GDT_MF = 2
  PROCESS_MAX = 16
  XEN_DESC_PFNS = 76
  FIXED_SHARED_INFO = 32
  KERNEL_STACK_PAGES = 2
  MSI_SIZE = 40
  NR_TASKS = 2
  NR_BOOT_PROCS = 4
  NR_PROCS = 4
  SYS_PROC <- MCSysProc
  HARDWARE <- MCHardware
  TASK_STACK = 8
  BYTE_GRAN_MAX = 63
  ADDR_MOD = 4096
  CS_INDEX = 6
  ES_INDEX = 4
  GDT_ENTRIES_PER_PROC = 3
  INTR_PRIVILEGE = 1
  TASK_PRIVILEGE = 2
  USER_PRIVILEGE = 3
INVARIANT BuilderSegmentsFit
INVARIANT AddressSpaceConsistent
INVARIANT PageTablesReadOnly
INVARIANT UserSegmentsConfined
INVARIANT RunsOnOwnDescriptors
CHECK_DEADLOCK FALSE
