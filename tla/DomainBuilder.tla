---------------------------- MODULE DomainBuilder ----------------------------
(***************************************************************************)
(* The domain builder of src/minixbuilder/xc_minix_build.c: the one-shot   *)
(* loader that lays out a new Minix domain's memory before it boots.       *)
(* xc_minix_build loads the boot image's processes into the domain's page  *)
(* frames (load_minix_image), builds the GDT frames, page directory, page  *)
(* tables and physical-to-machine list (setup_page_table), writes the      *)
(* start info (setup_start_info), fills in the kernel's segments           *)
(* (setup_gdt) and launches the domain.  Every step takes the next unused  *)
(* frame of pages[] through pg_alloc.                                      *)
(*                                                                         *)
(* The builder is sequential; each of its functions is one action.  Sizes  *)
(* are scaled down: PAGE_SIZE and the click size keep the 4 : 1 ratio of   *)
(* 4 kB pages and 1 kB clicks, and a page table has PAGE_SIZE /            *)
(* ENTRY_SIZE entries.  The machine frame of pfn p (pages[p], filled by    *)
(* get_pfn_list) is Mfn(p).  Page-table entries are a frame and the set of *)
(* their flag bits.  The error paths (a failed mapping or MMU update) only *)
(* abandon the build and are left out.                                     *)
(***************************************************************************)
EXTENDS Integers, Sequences, FiniteSets, FiniteSetsExt

CONSTANTS
  NrPages,            \* the domain sizes, in frames, that are built
  Images,             \* the boot images: sequences of a.out headers
  PAGE_SIZE,          \* bytes per page
  ENTRY_SIZE,         \* sizeof(l1_pgentry_t)
  CLICK_SIZE,         \* the click size read from the kernel's header
  K_CHMEM,            \* the kernel's flags have K_CHMEM
  NR_GDT_MF,          \* frames of the GDT
  PROCESS_MAX,        \* processes an image may hold
  XEN_DESC_PFNS,      \* XEN_DESC_LIMIT >> PAGE_SHIFT
  FIXED_SHARED_INFO,  \* the shared info page's pfn, FIXED_SHARED_INFO >> PAGE_SHIFT
  KERNEL_STACK_PAGES, \* pages between the start info and free memory
  MSI_SIZE,           \* sizeof(minix_start_info_t)
  BYTE_GRAN_MAX,      \* largest limit with byte granularity
  ADDR_MOD,           \* 2^32, scaled: unsigned long wraps here
  INTR_PRIVILEGE      \* the kernel's privilege level

ENTRIES == PAGE_SIZE \div ENTRY_SIZE
KERNEL == 0
Mfn(p) == 1000 + p
SharedInfoFrame == 999          \* get_shared_info_frame
CeilDiv(a, b) == (a + b - 1) \div b
align(x, a) == CeilDiv(x, a) * a

(* The protection bits of xc_minix_build.c.                                *)
L1_PROT == {"PRESENT", "RW", "ACCESSED"}
L2_PROT == {"PRESENT", "RW", "ACCESSED", "DIRTY", "USER"}
NoEntry == [frame |-> 0, flags |-> {}]

(* A segment descriptor: the x86 layout (limit split over two fields,      *)
(* access bits) abstracted to base, limit, granularity, privilege, kind.   *)
NullDesc == [base |-> 0, limit |-> 0, g |-> FALSE, dpl |-> 0, code |-> FALSE]

(* Mutant: the page-granular limit is rounded up, not truncated.           *)
build_seg_round_up(base, size) ==
  LET lim == (size - 1) % ADDR_MOD IN
  [NullDesc EXCEPT !.base = base % ADDR_MOD,
                   !.limit = IF lim > BYTE_GRAN_MAX THEN CeilDiv(lim, PAGE_SIZE) ELSE lim,
                   !.g = lim > BYTE_GRAN_MAX]

(* build_seg: the base, and --size made a limit in unsigned long (0 means  *)
(* 4 GB); a limit above BYTE_GRAN_MAX is shifted down to pages and the     *)
(* granularity bit set.  The access byte is left to the caller.            *)
build_seg(base, size) ==
  LET lim == (size - 1) % ADDR_MOD IN
  [NullDesc EXCEPT !.base = base % ADDR_MOD,
                   !.limit = IF lim > BYTE_GRAN_MAX THEN lim \div PAGE_SIZE ELSE lim,
                   !.g = lim > BYTE_GRAN_MAX]

(* pfn_to_vaddr and vaddr_to_pfn with VIRT_ADDR_START 0, in bytes.        *)
pfn_to_vaddr(pfn) == pfn * PAGE_SIZE
vaddr_to_pfn(vaddr) == vaddr \div PAGE_SIZE

(* proc_size_in_memory: text, data, bss and (with K_CHMEM) the stack gap,  *)
(* each rounded up to a click.                                             *)
proc_size_in_memory(hdr) ==
  LET gap == hdr.total - (hdr.data + hdr.bss) - (IF hdr.sep THEN 0 ELSE hdr.text)
      stack_size == IF K_CHMEM THEN gap ELSE 0
  IN align(hdr.text, CLICK_SIZE) + align(hdr.data, CLICK_SIZE)
       + align(hdr.bss, CLICK_SIZE) + align(stack_size, CLICK_SIZE)

(* copy_to_domain_memory takes one frame per PAGE_SIZE bytes, or part.     *)
CopyFrames(size) == CeilDiv(size, PAGE_SIZE)

VARIABLES
  phase,         \* the builder step next to run
  nr_pages,      \* msi.start_info.nr_pages
  image,         \* the headers of the image being loaded
  pg_alloc,      \* the next frame of pages[] to use
  next,          \* load_minix_image's loop index i
  procs,         \* process_list: [cs, ds, end, syms, entry]
  procheaders,   \* setup_info.procheaders: the headers, a_syms set to the base
  owner,         \* what each frame taken from pages[] was used for
  nr_pt_frames,  \* msi.start_info.nr_pt_frames
  first_gdt_pfn, \* first frame of the GDT
  pt_base,       \* pfn of the page directory (start_info.pt_base)
  pg_dir,        \* the page directory: slot -> entry
  pg_tab,        \* the page tables: pfn of the table -> slot -> entry
  mfn_list,      \* the physical-to-machine list the kernel is given
  m2p,           \* Xen's machine-to-physical table, as the builder set it
  upcall_mask,   \* vcpu_data[0].evtchn_upcall_mask in shared info
  msi_pfn,       \* setup_info.msi_vaddr as a pfn
  fmem_pfn,      \* setup_info.fmem_vaddr as a pfn
  gdt,           \* the GDT frame's CS_INDEX and DS_INDEX descriptors
  ctxt           \* the initial registers: eip and esp

vars == <<phase, nr_pages, image, pg_alloc, next, procs, procheaders, owner, nr_pt_frames,
          first_gdt_pfn, pt_base, pg_dir, pg_tab, mfn_list, m2p, upcall_mask,
          msi_pfn, fmem_pfn, gdt, ctxt>>

(* Frames lo .. lo + k - 1 taken for use u.                                *)
Take(own, lo, k, u) == [p \in DOMAIN own \cup (lo .. lo + k - 1) |->
                          IF p \in lo .. lo + k - 1 THEN u ELSE own[p]]

Init ==
  /\ phase = "load"
  /\ nr_pages \in NrPages
  /\ image \in Images
  /\ pg_alloc = 0 /\ next = 0 /\ procs = <<>> /\ procheaders = <<>>
  /\ owner = [p \in {} |-> "none"]
  /\ nr_pt_frames = 0 /\ first_gdt_pfn = 0 /\ pt_base = 0
  /\ pg_dir = [s \in 0 .. ENTRIES - 1 |-> NoEntry]
  /\ pg_tab = [p \in {} |-> [s \in 0 .. ENTRIES - 1 |-> NoEntry]]
  /\ mfn_list = <<>> /\ m2p = [m \in {} |-> 0]
  /\ upcall_mask = FALSE
  /\ msi_pfn = 0 /\ fmem_pfn = 0
  /\ gdt = [cs |-> NullDesc, ds |-> NullDesc]
  /\ ctxt = [eip |-> 0, esp |-> 0]

Put(f, x, v) == [y \in DOMAIN f \cup {x} |-> IF y = x THEN v ELSE f[y]]

(* One pass of load_minix_image's loop: the header of process i (selected, *)
(* with a good magic number and for the 386), its text, data and bss read  *)
(* into a buffer of proc_size_in_memory bytes and copied to the domain     *)
(* from frame pg_alloc on; cs and ds are the text and data starts and      *)
(* a_syms is set to the base.                                              *)
LoadProcess ==
  LET hdr == image[next + 1]
      size_in_mem == proc_size_in_memory(hdr)
      base == pfn_to_vaddr(pg_alloc)
      data_offset == align(hdr.text, CLICK_SIZE)
  IN
  /\ phase = "load" /\ next < Len(image) /\ next < PROCESS_MAX
  /\ procs' = Append(procs, [cs |-> base, ds |-> base + data_offset,
                             end |-> base + hdr.total, syms |-> base,
                             entry |-> hdr.entry])
  /\ procheaders' = Append(procheaders, [hdr EXCEPT !.syms = base])
  /\ pg_alloc' = pg_alloc + CopyFrames(size_in_mem)
  /\ owner' = Take(owner, pg_alloc, CopyFrames(size_in_mem), "image")
  /\ next' = next + 1
  /\ UNCHANGED <<phase, nr_pages, image, nr_pt_frames, first_gdt_pfn, pt_base,
                 pg_dir, pg_tab, mfn_list, m2p, upcall_mask, msi_pfn, fmem_pfn,
                 gdt, ctxt>>

(* The loop ends at the end of the image file: load_minix_image returns 0. *)
LoadDone ==
  /\ phase = "load" /\ next = Len(image)
  /\ phase' = "pt"
  /\ UNCHANGED <<nr_pages, image, pg_alloc, next, procs, procheaders, owner, nr_pt_frames,
                 first_gdt_pfn, pt_base, pg_dir, pg_tab, mfn_list, m2p,
                 upcall_mask, msi_pfn, fmem_pfn, gdt, ctxt>>

(* The frames the page tables take: one for the directory, the L1 tables   *)
(* for nr_pages entries, and one more (the shared info's table).           *)
NrPtFramesNoShared(n) == 1 + CeilDiv(ENTRY_SIZE * n, PAGE_SIZE)
NrPtFrames(n) == 1 + CeilDiv(ENTRY_SIZE * n, PAGE_SIZE) + 1

(* The flags of the entry mapping frame i: L1_PROT, USER from the first    *)
(* non-kernel frame on, and RW cleared on the page-table frames (counted   *)
(* from the directory) and the GDT frames.                                 *)
L1Flags(i, fnk, first_pg_alloc, nr_pt, gdt0) ==
  LET ro == \/ i >= first_pg_alloc /\ i < first_pg_alloc + nr_pt
            \/ i >= gdt0 /\ i <= gdt0 + NR_GDT_MF
  IN (L1_PROT \cup (IF i >= fnk THEN {"USER"} ELSE {})) \ (IF ro THEN {"RW"} ELSE {})

EmptyTable == [s \in 0 .. ENTRIES - 1 |-> NoEntry]

(* With va_start 0, pg_tab_entry is page aligned (NULL at first, then one  *)
(* past a full table) exactly when i is a multiple of ENTRIES: frame i     *)
(* then takes a new table, and l1_table_offset puts frame i at i % ENTRIES *)
(* of the current table.                                                   *)
NewTable(i) == i % ENTRIES = 0
TablesTaken(n) == Cardinality({i \in 0 .. n - 1 : NewTable(i)})
TableOf(i) == Cardinality({k \in 0 .. i : NewTable(k)}) - 1

(* Mutant: pg_dir_entry is not advanced after a table is entered.          *)
DirSlotNoAdvance(j) == 0

(* The directory slot *pg_dir_entry++ gives the j-th table taken:          *)
(* pg_dir_entry starts at l2_table_offset(va_start) = 0.                   *)
DirSlot(j) == j

(* setup_page_table's loop over the domain's frames, i from 0 to n - 1:    *)
(* the tables taken from frame tab0 on and entered in the directory in     *)
(* turn (a slot written twice keeps the later table), and the entry        *)
(* mapping frame i with its L1Flags.                                       *)
MapLoop(tab0, ctx) ==
  LET n == ctx.n
      T == TablesTaken(n)
      e(i) == [frame |-> Mfn(i), flags |-> L1Flags(i, ctx.fnk, ctx.first, ctx.nr_pt, ctx.gdt0)]
      writers(s) == {j \in 0 .. T - 1 : DirSlot(j) = s}
  IN [alloc |-> tab0 + T,
      dir |-> [s \in 0 .. ENTRIES - 1 |->
                 IF writers(s) = {} THEN NoEntry
                 ELSE [frame |-> Mfn(tab0 + Max(writers(s))), flags |-> L2_PROT]],
      tabs |-> [t \in tab0 .. tab0 + T - 1 |->
                  [s \in 0 .. ENTRIES - 1 |->
                     IF \E i \in 0 .. n - 1 : TableOf(i) = t - tab0 /\ i % ENTRIES = s
                     THEN e(CHOOSE i \in 0 .. n - 1 : TableOf(i) = t - tab0 /\ i % ENTRIES = s)
                     ELSE NoEntry]]]

(* The physical-to-machine list: the domain's frames, then the shared info *)
(* frame up to 40 pages past FIXED_SHARED_INFO, then zero.                 *)
P2mEntry(i, n) ==
  IF i < n THEN Mfn(i)
  ELSE IF i <= FIXED_SHARED_INFO + 40 THEN SharedInfoFrame ELSE 0

(* setup_page_table: the GDT frames, the page directory, the tables of the *)
(* one-to-one map, the shared info's table (its directory entry with       *)
(* USER), the directory pinned as an L2 table, then the                    *)
(* physical-to-machine list, one frame to start and one more each time a   *)
(* frame of it fills, with Xen's machine-to-physical entries updated to    *)
(* match.                                                                  *)
SetupPageTable ==
  LET n == nr_pages
      gdt0 == pg_alloc
      first_pg_alloc == pg_alloc + NR_GDT_MF
      nr_pt == NrPtFrames(n)
      fnk == IF Len(procs) > KERNEL + 1 THEN vaddr_to_pfn(procs[KERNEL + 2].syms) ELSE 0
      lp == MapLoop(first_pg_alloc + 1, [n |-> n, fnk |-> fnk, first |-> first_pg_alloc,
                             nr_pt |-> nr_pt, gdt0 |-> gdt0])
      sh_tab == lp.alloc
      sh_slot == FIXED_SHARED_INFO \div ENTRIES
      p2m0 == sh_tab + 1
      p2m_frames == 1 + XEN_DESC_PFNS \div ENTRIES
      tabs == Put(lp.tabs, sh_tab,
                  [EmptyTable EXCEPT ![FIXED_SHARED_INFO % ENTRIES] =
                     [frame |-> SharedInfoFrame, flags |-> L1_PROT]])
      shared_m2p == IF n < XEN_DESC_PFNS /\ n <= FIXED_SHARED_INFO + 40
                    THEN {SharedInfoFrame} ELSE {}
  IN
  /\ phase = "pt"
  /\ nr_pt_frames' = nr_pt
  /\ first_gdt_pfn' = gdt0
  /\ pt_base' = first_pg_alloc
  /\ pg_dir' = [lp.dir EXCEPT ![sh_slot] =
                  [frame |-> Mfn(sh_tab), flags |-> L2_PROT \cup {"USER"}]]
  /\ pg_tab' = tabs
  /\ mfn_list' = [i \in 0 .. XEN_DESC_PFNS - 1 |-> P2mEntry(i, n)]
  /\ m2p' = [m \in {Mfn(i) : i \in 0 .. n - 1} \cup shared_m2p |->
               IF m = SharedInfoFrame THEN FIXED_SHARED_INFO ELSE m - 1000]
  /\ pg_alloc' = p2m0 + p2m_frames
  /\ owner' = Take(Take(Take(Take(owner, gdt0, NR_GDT_MF, "gdt"),
                                first_pg_alloc, 1, "pgdir"),
                           first_pg_alloc + 1, sh_tab - first_pg_alloc, "pgtab"),
                   p2m0, p2m_frames, "p2m")
  /\ phase' = "startinfo"
  /\ UNCHANGED <<nr_pages, image, next, procs, procheaders, upcall_mask, msi_pfn, fmem_pfn, gdt, ctxt>>

(* setup_start_info: the shared info page starts empty with upcalls        *)
(* masked; the start info is copied from frame pg_alloc on, and free       *)
(* memory starts KERNEL_STACK_PAGES past it.                               *)
SetupStartInfo ==
  /\ phase = "startinfo"
  /\ upcall_mask' = TRUE
  /\ msi_pfn' = pg_alloc
  /\ fmem_pfn' = pg_alloc + KERNEL_STACK_PAGES
  /\ pg_alloc' = pg_alloc + CopyFrames(MSI_SIZE)
  /\ owner' = Take(owner, pg_alloc, CopyFrames(MSI_SIZE), "msi")
  /\ phase' = "gdt"
  /\ UNCHANGED <<nr_pages, image, next, procs, procheaders, nr_pt_frames, first_gdt_pfn,
                 pt_base, pg_dir, pg_tab, mfn_list, m2p, gdt, ctxt>>

(* setup_gdt, in the first GDT frame: the kernel's code segment from its   *)
(* cs with size fmem_vaddr - cs - 1, its data segment from its ds with     *)
(* size 0 (4 GB), both at INTR_PRIVILEGE.                                  *)
SetupGdt ==
  LET k == procs[KERNEL + 1] IN
  /\ phase = "gdt"
  /\ gdt' = [cs |-> [build_seg(k.cs, pfn_to_vaddr(fmem_pfn) - k.cs - 1)
                       EXCEPT !.dpl = INTR_PRIVILEGE, !.code = TRUE],
             ds |-> [build_seg(k.ds, 0) EXCEPT !.dpl = INTR_PRIVILEGE]]
  /\ phase' = "launch"
  /\ UNCHANGED <<nr_pages, image, pg_alloc, next, procs, procheaders, owner, nr_pt_frames,
                 first_gdt_pfn, pt_base, pg_dir, pg_tab, mfn_list, m2p,
                 upcall_mask, msi_pfn, fmem_pfn, ctxt>>

(* xc_minix_build's launch: eip at the kernel's entry, the stack above the *)
(* start info, and DOM0_BUILDDOMAIN with the page directory as pt_base.    *)
Launch ==
  /\ phase = "launch"
  /\ ctxt' = [eip |-> procs[KERNEL + 1].cs + procs[KERNEL + 1].entry,
              esp |-> pfn_to_vaddr(msi_pfn) + KERNEL_STACK_PAGES * PAGE_SIZE]
  /\ phase' = "running"
  /\ UNCHANGED <<nr_pages, image, pg_alloc, next, procs, procheaders, owner, nr_pt_frames,
                 first_gdt_pfn, pt_base, pg_dir, pg_tab, mfn_list, m2p,
                 upcall_mask, msi_pfn, fmem_pfn, gdt>>

Next == LoadProcess \/ LoadDone \/ SetupPageTable \/ SetupStartInfo \/ SetupGdt \/ Launch

Spec == Init /\ [][Next]_vars
-----------------------------------------------------------------------------
Built == phase \in {"startinfo", "gdt", "launch", "running"}

(* The entry that maps the frame at virtual page v, through the directory. *)
Pte(v) ==
  LET d == pg_dir[v \div ENTRIES] IN
  IF d.frame - 1000 \in DOMAIN pg_tab THEN pg_tab[d.frame - 1000][v % ENTRIES] ELSE NoEntry

(* Xen pins the directory as an L2 table only if no frame of a page table  *)
(* or of the GDT is mapped writable, and the kernel needs every other      *)
(* frame writable: the range setup_page_table computes from nr_pt_frames   *)
(* must be exactly the frames its loop and the shared info's table took.   *)
PageTablesReadOnly ==
  Built =>
    \A p \in 0 .. nr_pages - 1 :
      ("RW" \notin Pte(p).flags) <=> (p \in DOMAIN owner /\ owner[p] \in {"gdt", "pgdir", "pgtab"})

(* The three views of the domain's memory agree: the page tables map each  *)
(* page one to one onto its frame, the kernel's physical-to-machine list   *)
(* and Xen's machine-to-physical table translate the same way, and the     *)
(* shared info page is mapped at FIXED_SHARED_INFO.                        *)
AddressSpaceConsistent ==
  Built =>
    /\ \A p \in 0 .. nr_pages - 1 :
         /\ Pte(p).frame = Mfn(p) /\ "PRESENT" \in Pte(p).flags
         /\ mfn_list[p] = Mfn(p) /\ m2p[Mfn(p)] = p
    /\ Pte(FIXED_SHARED_INFO).frame = SharedInfoFrame
=============================================================================
