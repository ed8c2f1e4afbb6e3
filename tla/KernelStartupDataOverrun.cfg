\* The builder loads the kernel and two servers into domains of 20 to 32
\* frames; the kernel sets up two tasks (one of them HARDWARE) and the two
\* servers; the separate I&D server's data segment starts inside a page.
SPECIFICATION BootSpec
CONSTANTS
  NrPages = {20, 24, 28, 32}
  Images <- MCMisalignedImages
  PAGE_SIZE = 64
  ENTRY_SIZE = 4
  CLICK_SIZE = 16
  K_CHMEM = TRUE
  NR_GDT_MF = 2
  PROCESS_MAX = 16
  XEN_DESC_PFNS = 76
  FIXED_SHARED_INFO = 32
  KERNEL_STACK_PAGES = 2
  MSI_SIZE = 40
  NR_TASKS = 2
  NR_BOOT_PROCS = 4
  NR_PROCS = 4
  SYS_PROC <- MCSysProc
  HARDWARE <- MCHardware
  TASK_STACK = 8
  BYTE_GRAN_MAX = 63
  ADDR_MOD = 4096
  CS_INDEX = 6
  ES_INDEX = 4
  GDT_ENTRIES_PER_PROC = 3
  INTR_PRIVILEGE = 1
  TASK_PRIVILEGE = 2
  USER_PRIVILEGE = 3
INVARIANT UserSegmentsConfined
CHECK_DEADLOCK FALSE
