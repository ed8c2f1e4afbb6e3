---------------------------- MODULE KernelStartup ----------------------------
(***************************************************************************)
(* The kernel's start-up in the domain the builder made: xen_prot_init and *)
(* the descriptor code of src/kernel/protect.c, and main() of              *)
(* src/kernel/main.c, which reads the process headers the builder left in  *)
(* the start info, builds each boot process's memory map in clicks and     *)
(* installs its code and data descriptors with hypervisor_update_descriptor.*)
(*                                                                         *)
(* The module extends DomainBuilder: the kernel starts once the builder    *)
(* has launched the domain, and reads the builder's procheaders.  The      *)
(* boot image table image[] (table.c, not in this repository) is taken to  *)
(* list the kernel tasks first, so boot process i has process number      *)
(* i - NR_TASKS.  Descriptors are records; the x86 layout (limit split     *)
(* over two fields, access bits) is abstracted to base, limit, granularity,*)
(* privilege and kind.  Widths are scaled with the builder's page: the     *)
(* limit field holds ADDR_MOD \div PAGE_SIZE values, as the 20-bit field   *)
(* of 4 KB pages spans the 4 GB address space.                             *)
(***************************************************************************)
EXTENDS DomainBuilder

CONSTANTS
  NR_TASKS,             \* kernel tasks, with negative process numbers
  NR_BOOT_PROCS,        \* entries of the boot image table image[]
  SYS_PROC,             \* SYS_PROC[i]: image[i].flags has SYS_PROC
  NR_PROCS,             \* user slots of the process table
  HARDWARE,             \* process number of the HARDWARE task (never runs)
  TASK_STACK,           \* ip->stksize of the kernel tasks but HARDWARE (0)
  CS_INDEX, ES_INDEX,   \* the kernel's GDT slots
  GDT_ENTRIES_PER_PROC, \* GDT slots per process-table entry
  TASK_PRIVILEGE, USER_PRIVILEGE

(* xenasm.h: Xen reserves GDT entries 256 .. 295.                          *)
FIRST_RESERVED_GDT_ENTRY == 256
NR_RESERVED_GDT_ENTRIES == 40
FIRST_AVAILABLE_GDT_ENTRY == FIRST_RESERVED_GDT_ENTRY + NR_RESERVED_GDT_ENTRIES

Slots == -NR_TASKS .. NR_PROCS - 1
REG_SIZE == 4                    \* sizeof(reg_t)
ZeroHeader == [text |-> 0, data |-> 0, bss |-> 0, total |-> 0, sep |-> FALSE,
               entry |-> 0, syms |-> 0]
NoSeg == [phys |-> 0, len |-> 0, vir |-> 0]

(* sdesc: the base, and the size made a limit (0 means the whole address  *)
(* space); a limit above BYTE_GRAN_MAX is kept in pages.                   *)
sdesc(segd, base, size) ==
  LET lim == (size - 1) % ADDR_MOD IN
  [segd EXCEPT !.base = base % ADDR_MOD,
               !.limit = IF lim > BYTE_GRAN_MAX THEN lim \div PAGE_SIZE ELSE lim,
               !.g = lim > BYTE_GRAN_MAX]

(* init_codeseg and init_dataseg: the size fields, then the access byte.  *)
init_codeseg(base, size, privilege) ==
  [sdesc(NullDesc, base, size) EXCEPT !.dpl = privilege, !.code = TRUE]
init_dataseg(base, size, privilege) ==
  [sdesc(NullDesc, base, size) EXCEPT !.dpl = privilege, !.code = FALSE]

(* The header main() reads: the builder's copy in the start info, which   *)
(* xc_minix_build zeroed before loading, so a slot past the image is all   *)
(* zero.                                                                   *)
Header(k) == IF k < Len(procheaders) THEN procheaders[k + 1] ELSE ZeroHeader

(* Mutant: servers are numbered from the first header.                     *)
HdrIndexFromZero(i) == IF i < NR_TASKS THEN 0 ELSE i - NR_TASKS

(* The a.out header of boot process i: the kernel's for the tasks, the     *)
(* (1 + i - NR_TASKS)-th for servers, drivers and INIT.                    *)
HdrIndex(i) == IF i < NR_TASKS THEN 0 ELSE 1 + i - NR_TASKS

VARIABLES
  kphase,  \* "boot", "prot" after xen_prot_init, "main" in main()'s loop, "run"
  kgdt,    \* the GDT as the kernel set it: slot -> descriptor
  proc,    \* the process table: slot -> [rts, sys, cs_idx, ds_idx, extra_idx, T, D, S, cs, ds, sp]
  mi,      \* main()'s loop index i
  ktsb     \* main()'s kernel task stack base

kvars == <<kphase, kgdt, proc, mi, ktsb>>

GdtSlots == {CS_INDEX, ES_INDEX} \cup
            (FIRST_AVAILABLE_GDT_ENTRY ..
               FIRST_AVAILABLE_GDT_ENTRY + Cardinality(Slots) * GDT_ENTRIES_PER_PROC - 1)

(* The process table and the GDT are static and start zeroed: no flags.   *)
KernelInit ==
  /\ kphase = "boot"
  /\ kgdt = [x \in GdtSlots |-> NullDesc]
  /\ proc = [s \in Slots |-> [rts |-> {}, sys |-> FALSE, cs_idx |-> 0, ds_idx |-> 0,
                              extra_idx |-> 0, T |-> NoSeg, D |-> NoSeg, S |-> NoSeg,
                              cs |-> 0, ds |-> 0, sp |-> 0]]
  /\ mi = 0 /\ ktsb = 0

(* xen_prot_init: the kernel's code segment and the flat ES, and three    *)
(* GDT slots for each process-table entry from FIRST_AVAILABLE_GDT_ENTRY.  *)
(* kinfo.code_base and code_size are the kernel's text as loaded.          *)
xen_prot_init ==
  LET kcs == procs[KERNEL + 1].cs
      ksize == Header(0).text
      slot(s) == FIRST_AVAILABLE_GDT_ENTRY + (s + NR_TASKS) * GDT_ENTRIES_PER_PROC
  IN
  /\ phase = "running" /\ kphase = "boot"
  /\ kgdt' = [kgdt EXCEPT ![CS_INDEX] = init_codeseg(kcs, ksize, INTR_PRIVILEGE),
                          ![ES_INDEX] = init_dataseg(0, 0, TASK_PRIVILEGE)]
  /\ proc' = [s \in Slots |-> [proc[s] EXCEPT !.cs_idx = slot(s), !.ds_idx = slot(s) + 1,
                                              !.extra_idx = slot(s) + 2]]
  /\ kphase' = "prot"
  /\ UNCHANGED <<mi, ktsb>>

(* main() starts by marking every process-table slot SLOT_FREE.            *)
MainStart ==
  /\ kphase = "prot"
  /\ proc' = [s \in Slots |-> [proc[s] EXCEPT !.rts = {"SLOT_FREE"}]]
  /\ kphase' = "main"
  /\ UNCHANGED <<kgdt, mi, ktsb>>

(* alloc_segments: the code and data descriptors of process nr from its   *)
(* memory map, at task or user privilege (0 bytes, i.e. 4 GB, for the      *)
(* kernel's tasks; the code segment is the data segment for common I&D),   *)
(* written to its GDT slots, and its selectors.                            *)
alloc_segments(nr, rp) ==
  LET kern == nr < 0
      data_bytes == IF kern THEN 0 ELSE (rp.S.vir + rp.S.len) * CLICK_SIZE
      code_bytes == IF kern THEN 0 ELSE IF rp.T.len = 0 THEN data_bytes ELSE rp.T.len * CLICK_SIZE
      privilege == IF kern THEN TASK_PRIVILEGE ELSE USER_PRIVILEGE
  IN [gdt |-> [kgdt EXCEPT
                 ![rp.cs_idx] = init_codeseg(rp.T.phys * CLICK_SIZE, code_bytes, privilege),
                 ![rp.ds_idx] = init_dataseg(rp.D.phys * CLICK_SIZE, data_bytes, privilege)],
      rp |-> [rp EXCEPT !.cs = rp.cs_idx * 8 + privilege, !.ds = rp.ds_idx * 8 + privilege]]

(* One pass of main()'s loop over the boot image: the privilege structure *)
(* (SYS_PROC from the image table), the memory map in clicks from the      *)
(* header (text_clicks 0 for common I&D, the stack inside the data         *)
(* segment), the initial stack pointer (the task stacks in turn; a word    *)
(* below the top of the data segment for the others), the process made     *)
(* ready (HARDWARE never: NO_MAP), and alloc_segments.  The image table   *)
(* lists IDLE before HARDWARE, and HARDWARE's stack size is 0.             *)
MainProc ==
  LET i == mi
      nr == i - NR_TASKS
      kern == nr < 0
      h == Header(HdrIndex(i))
      text_base == h.syms \div CLICK_SIZE
      text_clicks == IF h.sep THEN CeilDiv(h.text, CLICK_SIZE) ELSE 0
      data_clicks == CeilDiv(h.total, CLICK_SIZE)
      stksize == IF nr = HARDWARE THEN 0 ELSE TASK_STACK
      rp == proc[nr]
      S == [rp.S EXCEPT !.phys = text_base + text_clicks + data_clicks, !.vir = data_clicks]
      set == [rp EXCEPT !.sys = SYS_PROC[i],
                        !.T = [@ EXCEPT !.phys = text_base, !.len = text_clicks],
                        !.D = [@ EXCEPT !.phys = text_base + text_clicks, !.len = data_clicks],
                        !.S = S,
                        !.sp = IF kern THEN ktsb + stksize
                               ELSE ((S.vir + S.len) * CLICK_SIZE - REG_SIZE) % ADDR_MOD,
                        !.rts = IF nr = HARDWARE THEN {"NO_MAP"} ELSE {}]
      seg == alloc_segments(nr, set)
  IN
  /\ kphase = "main" /\ i < NR_BOOT_PROCS
  /\ kgdt' = seg.gdt
  /\ proc' = [proc EXCEPT ![nr] = seg.rp]
  /\ ktsb' = IF kern THEN ktsb + stksize ELSE ktsb
  /\ mi' = i + 1
  /\ UNCHANGED kphase

(* Every boot process is set up: main() returns to restart().              *)
MainDone ==
  /\ kphase = "main" /\ mi = NR_BOOT_PROCS
  /\ kphase' = "run"
  /\ UNCHANGED <<kgdt, proc, mi, ktsb>>

IsEmpty(s) == "SLOT_FREE" \in proc[s].rts

(* Mutant: the child is not held back with NO_MAP.                         *)
ForkFlagsRunnable(rts) == rts \ {"SIGNALED", "SIG_PENDING", "P_STOP"}

(* The child's flags: the parent's, with NO_MAP and without the signal and *)
(* trace flags.                                                            *)
ForkFlags(rts) == (rts \cup {"NO_MAP"}) \ {"SIGNALED", "SIG_PENDING", "P_STOP"}

(* do_fork (SYS_FORK from the process manager): parent p must be in use   *)
(* and slot c empty (EINVAL otherwise, with nothing changed); the child is *)
(* a copy of the parent that keeps its own GDT slots, held back with       *)
(* NO_MAP, and without privileges (NO_PRIV) if the parent is a system      *)
(* process.                                                                *)
DoFork(p, c) ==
  LET rpp == proc[p]
      child == [rpp EXCEPT !.cs_idx = proc[c].cs_idx, !.ds_idx = proc[c].ds_idx,
                           !.extra_idx = proc[c].extra_idx,
                           !.rts = ForkFlags(rpp.rts) \cup (IF rpp.sys THEN {"NO_PRIV"} ELSE {}),
                           !.sys = FALSE]
  IN
  /\ kphase = "run" /\ ~IsEmpty(p) /\ IsEmpty(c)
  /\ proc' = [proc EXCEPT ![c] = child]
  /\ UNCHANGED <<kphase, kgdt, mi, ktsb>>

(* SYS_NEWMAP for a forked child: the process manager gives it its memory  *)
(* map, and do_newmap (outside this repository) runs alloc_segments and    *)
(* clears NO_MAP.  The new map's location is the process manager's; it is  *)
(* kept here, since only the descriptors' slots matter after a fork.       *)
Newmap(c) ==
  LET seg == alloc_segments(c, proc[c]) IN
  /\ kphase = "run" /\ "NO_MAP" \in proc[c].rts /\ ~IsEmpty(c) /\ c >= 0
  /\ kgdt' = seg.gdt
  /\ proc' = [proc EXCEPT ![c] = [seg.rp EXCEPT !.rts = @ \ {"NO_MAP"}]]
  /\ UNCHANGED <<kphase, mi, ktsb>>

UserSlots == 0 .. NR_PROCS - 1

KernelNext ==
  \/ xen_prot_init \/ MainStart \/ MainProc \/ MainDone
  \/ \E p, c \in UserSlots : DoFork(p, c)
  \/ \E c \in UserSlots : Newmap(c)

(* The builder runs to the launch, then the kernel starts.                 *)
BootInit == Init /\ KernelInit
BootNext == (Next /\ UNCHANGED kvars) \/ (KernelNext /\ UNCHANGED vars)
BootSpec == BootInit /\ [][BootNext]_<<vars, kvars>>
-----------------------------------------------------------------------------
(* The last byte a descriptor gives access to, as the CPU reads it.        *)
SegEnd(d) == d.base + (IF d.g THEN d.limit * PAGE_SIZE + PAGE_SIZE - 1 ELSE d.limit)

(* The descriptors setup_gdt leaves the kernel: its code segment covers    *)
(* the kernel's text and, after build_seg's rounding to pages, still ends  *)
(* below fmem_vaddr, so no memory handed out later is in it; its data      *)
(* segment, which the kernel never rewrites (xen_prot_init leaves          *)
(* DS_INDEX alone), spans the whole address space from the kernel's ds.    *)
BuilderSegmentsFit ==
  phase \in {"launch", "running"} =>
    LET k == procs[KERNEL + 1] IN
    /\ gdt.cs.base = k.cs /\ k.cs + procheaders[1].text - 1 <= SegEnd(gdt.cs)
    /\ SegEnd(gdt.cs) < pfn_to_vaddr(fmem_pfn)
    /\ gdt.ds.base = k.ds /\ SegEnd(gdt.ds) - gdt.ds.base = ADDR_MOD - 1

(* Every boot process main() has set up runs on its own descriptors: its  *)
(* cs selects a code and its ds a data descriptor, both at its privilege.  *)
(* A server's segments (alloc_segments from main()'s click map of the      *)
(* header the builder wrote) lie inside the frames the builder copied that *)
(* program into, and its initial stack word lies inside its data segment:  *)
(* a server can reach no other process's memory.                           *)
UserSegmentsConfined ==
  \A i \in 0 .. mi - 1 :
    LET nr == i - NR_TASKS
        rp == proc[nr]
        cs == kgdt[rp.cs \div 8]
        ds == kgdt[rp.ds \div 8]
        priv == IF nr < 0 THEN TASK_PRIVILEGE ELSE USER_PRIVILEGE
        j == 1 + nr
    IN /\ cs.code /\ ~ds.code
       /\ cs.dpl = priv /\ ds.dpl = priv /\ rp.cs % 8 = priv /\ rp.ds % 8 = priv
       /\ nr >= 0 =>
            /\ j < Len(procheaders)
            /\ LET lo == procheaders[j + 1].syms
                   hi == lo + CopyFrames(proc_size_in_memory(procheaders[j + 1])) * PAGE_SIZE
               IN /\ \A d \in {cs, ds} : lo <= d.base /\ SegEnd(d) < hi
                  /\ ds.base + rp.sp + REG_SIZE - 1 <= SegEnd(ds)

(* Every process the scheduler may run (no flag in p_rts_flags) runs on    *)
(* its own GDT slots, and they describe its own memory map: a child of      *)
(* do_fork, which copied the parent's cs and ds selectors with the parent's *)
(* proc entry, is held back until SYS_NEWMAP reloads them, so no child      *)
(* ever runs in its parent's segments.                                     *)
RunsOnOwnDescriptors ==
  \A s \in Slots :
    LET rp == proc[s] IN
    kphase = "run" /\ rp.rts = {} =>
      /\ rp.cs \div 8 = rp.cs_idx /\ rp.ds \div 8 = rp.ds_idx
      /\ kgdt[rp.cs_idx].base = (rp.T.phys * CLICK_SIZE) % ADDR_MOD
      /\ kgdt[rp.ds_idx].base = (rp.D.phys * CLICK_SIZE) % ADDR_MOD
=============================================================================
