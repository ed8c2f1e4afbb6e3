# TLA+ models of the Minix guest for Xen

This directory holds TLA+ models of the Xen-specific parts of this Minix
port, and the TLC configurations that check them. The parts modelled are:

- the event-channel multiplexer;
- the control interface;
- the console driver;
- the block front end's start-up, composed with the control interface;
- the hypercall proxy;
- the domain builder that loads the guest.

Every definition is translated from the C source under `src/`.
`PROJECT.json` lists:

- the source lines of every definition (`map`);
- the runs, and the mutants that show each property can fail;
- the findings and the hazards.

To check a run, use `tlc -workers 2 -config <cfg> <module>` in this
directory.

## The system and how its parts interact

- **Xen and the domain controller** are outside the repository. They are
  modelled only by what the shared-page comments of `xen.h` say they do,
  and by the discipline of the control ring.
- **Event channels** (`src/kernel/evtchn.c`):
  - Xen sets a port's PENDING bit, its selector bit and
    `evtchn_upcall_pending`, then makes an upcall.
  - `do_hypervisor_callback` scans the pending, unmasked ports and runs each
    port's IRQ handler.
  - The binding tables map ports, VIRQs and IRQs to one another.
  - Process context holds callbacks off with `lock`/`unlock` and the
    save/restore variants.
- **Control interface** (`src/kernel/ctrl_if.c`):
  - Two sub-rings live in a shared page: tx (guest to controller) and rx
    (controller to guest).
  - The CTRLIF task handles them. The control port's handler notifies it
    with HARD_INT.
  - CTRLIF delivers each rx message to the driver registered for its type.
    When the driver is not waiting, the message goes to a deferred queue.
    The queue is drained only on the next HARD_INT or unregister.
- **Block front end** (`src/drivers/xenvbd/xenvbd.c`):
  - `x_init` places the block ring on the first page boundary inside
    `blk_ring_buf` and asks the kernel (`sys_getvtom`) for its machine
    frame, panicking if that fails.
  - It then registers the driver for CMSG_BLKIF_FE and sends its status UP
    to the controller with a blocking send to CTRLIF.
  - `main` prints, then enters `driver_task`'s receive loop.
  - A control message reaches it as HARD_INT and goes to `x_hw_int`, which
    only prints. The transfer hooks are compiled out.
- **Console** (`src/drivers/tty/xencons.c`):
  - The TTY writes into `obuf` and flushes it to CTRLIF with a blocking
    send.
  - Console messages from CTRLIF fill `ibuf`.
  - Function-key sequences are trapped before they reach `ibuf`.
  - Kernel messages are copied from the kernel's ring.
- **Hypercall proxy** (`src/kernel/xen.c`):
  - Kernel tasks run in ring 2 and reach Xen through one static multicall
    entry, `xen_proxy_op`.
  - The entry is executed by a ring-1 trap handler, `do_xen_proxy_op`.
  - Event-channel notification and the forced callback in `unlock`
    (`xen.h` 346) both go through it.
- **Domain builder** (`src/minixbuilder/xc_minix_build.c`): a dom0 tool that
  runs before the guest. It does the following, in order:
  - loads the boot image's processes into the domain's frames;
  - builds the page tables, the physical-to-machine list and Xen's
    machine-to-physical entries;
  - writes the start info and the GDT;
  - launches the domain.
- **Kernel start-up** (`src/kernel/protect.c`, `src/kernel/main.c`,
  `src/kernel/system/do_fork.c`): runs first in the launched domain.
  - `xen_prot_init` gives each process-table slot three GDT slots past
    Xen's reserved entries.
  - `main()` reads each boot process's a.out header from the start info the
    builder wrote, makes its memory map in clicks, and installs its code and
    data descriptors (`alloc_segments`, `sdesc`).
  - Later, `do_fork` copies a parent's process entry into a free slot and
    holds the child back with `NO_MAP` until `SYS_NEWMAP` reloads its
    descriptors.

## Modules

| module | models | instantiated by |
|---|---|---|
| `ControlIf` | control ring, receiver registry, deferred queue, CTRLIF task | `MCControlIf`, `BlockFrontEnd` |
| `TxChannel` | the bounded FIFO channel the tx sub-ring promises (abstract) | `BlockFrontEnd` (refinement) |
| `BlockFrontEnd` | `x_init`, `main`'s print, `x_hw_int`, composed with `ControlIf` through `INSTANCE` | `MCBlockFrontEnd` |
| `EvtchnDispatch` | shared pending/mask/selector bits, Xen's raise and upcall, the callback step by step, handler status, callback guard | `MCEvtchnDispatch` |
| `EvtchnBinding` | `evtchn_to_irq`, `virq_to_irq`, `irq_to_evtchn`, `irq_bindcount`, bind/unbind of VIRQs and ports, Xen's port table | the cfgs directly |
| `XenFuncKey` | `fkey_map`, `xen_func_key` and the byte loop of `xencons_interrupt` (pure operators) | used by `XenConsole` |
| `XenConsole` | `ibuf`/`obuf`, every TTY hook, flush, console messages, `do_xen_diagnostics`, `do_xen_kmess` | `MCXenConsole` |
| `XenProxy` | `xen_proxy_op`, the proxied hypercalls field by field, `do_xen_proxy_op`, preemption of ring-2 tasks | `MCXenProxy` |
| `DomainBuilder` | `load_minix_image`, `setup_page_table`, `setup_start_info`, `setup_gdt`, the launch in `xc_minix_build` | `MCKernelStartup` (through `KernelStartup`) |
| `KernelStartup` | `xen_prot_init`, `sdesc`, `init_codeseg`/`init_dataseg`, `alloc_segments`, `main()`'s process-table set-up, `do_fork`, `SYS_NEWMAP`; extends `DomainBuilder` | `MCKernelStartup` |

### ControlIf

- **Shared ring counters** keep the code's names: `tx_req_prod`,
  `tx_resp_prod`, `rx_req_prod` and `rx_resp_prod`.
  - The counters only grow, and a slot is `counter % CONTROL_RING_SIZE`.
  - The deferred counters wrap at 32 bits in the code. They are stored less
    a common multiple of the ring size (`Rebase`), which changes no
    comparison or slot.
- **CTRLIF handlers:** each `case` of `ctrl_if_task` is one action, run to
  completion. CTRLIF is a single Minix task that handles one message at a
  time.
  - The actions are `DoHardInt`, `RegisterReceiver`, `UnregisterReceiver`,
    `SendMessageNoblock`, `SendMessageBlock` and `SendResponse`.
  - `SendBlockRetry` is one more turn of `send_block`'s retry loop.
  - The tasklets' loops and the deferred drain are RECURSIVE operators over
    the guest's state.
- **Environment:** the controller (`CtlReadTx`, `CtlRespondTx`, `CtlSendRx`,
  `CtlReadRxResp`) and the drivers (`ReceiverWaits`).
  - `lock_send` fails with ENOTREADY unless the receiver waits in `receive`.
  - `CtlRespondTx` and `CtlSendRx` notify the guest. The notification ends
    in `ctrl_if_interrupt`, which sets the pending HARD_INT for CTRLIF
    (`hard_int`). Its `in_cif_interrupt` guard never fires, because upcalls
    do not nest. The guest's own notification of the controller
    (`ctrl_if_notify_controller`) follows every publish in the same step.
    The controller reads whatever has been published, so that notification
    adds no behaviour.
  - The drivers leave the flags word of CTRLIF_REG_HND uninitialised. The
    constant `RegFlags` lets it take either value.
- **Messages** are `[type, id]`, with the id a sequence number. Payloads are
  left out.

### TxChannel and BlockFrontEnd

- **`TxChannel`** is what the tx sub-ring promises: `Send` appends while
  fewer than `Capacity` messages are queued, `Receive` takes the head, and
  whatever is queued is eventually taken.
- **`BlockFrontEnd`** instantiates `ControlIf` as `CI` and adds `blk_pc`,
  the block driver's place in its start-up:
  - `BlkRingSetup(res)` is `x_init`'s start: `res` is what `sys_getvtom`
    returns (the system task that serves GET_VTOM is not in the
    repository). Anything but OK ends in `panic`, and the driver never
    registers. `BlkRingAddr(buf)` is the ring address computed from the
    buffer's link address. It is a pure operator, checked over
    `BufAddrs` by `BlkRingInBuffer`.
  - `BlkRegister` and `BlkSendStatus` are `x_init`'s two sendrecs to CTRLIF.
    Each is one `CI` action; when the ring is full, the driver stays in
    `status_wait` until `SendBlockRetry` sends its status.
  - `BlkPrint` is `main`'s `printf`, flushed by `kputc`. Then the driver is
    in `driver_task`, and only then does its `ReceiverWaits` step run.
  - Every other `ControlIf` action is wrapped under its own name with
    `blk_pc` unchanged. The other drivers use the other types and
    receivers. `OthersMaySend` keeps one of `MaxTx` messages for the block
    driver's status.
- **Refinement:** `TxChan` maps `tx_req_prod` to `sent`, the unread slots
  from `ctl_tx_cons` to `tx_req_prod` to `chan`, and `ctl_got` to
  `received`. `TxRefinesChannel` is `TxChan!Spec`, checked as a property.

### EvtchnDispatch

- **Ports** are grouped in words of `WordBits` bits, so the two-level scan is
  kept with 3 ports over 2 words.
- **The callback** is one action per step of its loops: `CbXchg` swaps the
  selector, `CbSel` and `CbWord` pick bits lowest first, then `CbHandler`,
  `CbEnd`, `CbEndCheck` and `CbReturn`. Xen may raise ports between any two
  of these steps.
- **`ack_irq` and `disable_irq`** are operators, as in the code. `CbWord`
  acknowledges a bound port with `ack_irq`: mask it, then clear PENDING.
  `DisableIrqHandler` masks with `disable_irq`. Both return early for an
  IRQ with no port.
- **Process context** changes handler status (`AddIrqHandler`,
  `ClearIrqHandler`, `EnableIrqHandler`, `DisableIrqHandler`).
  - It opens and closes critical sections with `Lock`, `Unlock`,
    `DisableSave`, `EnableSave` and `Restore`.
  - An upcall may interrupt it between any two steps.
  - Unmasking with an upcall pending forces a callback (`ForceCallback`).
- **The binding** is a constant here. Binding and unbinding are modelled in
  `EvtchnBinding`.
- **History:** `owed` records a port's edge that a handler must still see.

### EvtchnBinding

- **Clients** bind and unbind VIRQs and interdomain ports in any order. The
  history `binds_v`/`binds_e` counts what each client holds.
- **Xen's `bind_virq` and `close`** are part of the actions that call them.
- **`irq_bindcount`** is unsigned and is kept modulo `BindMod`.
- **Undefined behaviour:** `unbind_virq_from_irq` reads `virq_to_irq[irq]`
  with `irq` uninitialised. The value read is a nondeterministic choice among
  the entries of all VIRQs. A bound VIRQ's entry is its IRQ; an unbound
  one's is -1, and then every later access is out of bounds (`oob`).
  Nothing in the repository calls `unbind_virq_from_irq`. The only VIRQ
  bind, in `init_events` (`evtchn.c` 166-170), is under `#if 0`.

### XenFuncKey and XenConsole

- **`XenFuncKey`** models `xen_func_key` and the byte loop as operators.
  - `XenConsole` uses it through an `INSTANCE` for each console message.
  - No run checks the loop on its own. The console run's messages must store
    at most one byte each, to stay clear of the room check found by
    `console_input_overflow`. Among function-key messages, that leaves only
    a key alone.
- **Hook actions:** `XenconsWrite`, `XenconsEcho`, `XenconsRead`,
  `XenconsIcancel`, `XenconsOcancel`, `Kputc`, `DoXenDiagnostics`,
  `DoXenKmess` and `XenconsInterrupt`.
  - Each is one action: the TTY is one Minix process.
  - The flush is a blocking send to CTRLIF, so it is part of the hook that
    flushes. That CTRLIF then queues the message is checked in `ControlIf`.
- **Pointers:** `ihead`, `itail`, `ohead` and `otail` are offsets into the
  buffers.
- **`out_process`** is Minix's `tty.c`, which is not in this repository. It
  is modelled from its contract:
  - with OPOST|ONLCR, `\n` becomes `\r\n` when two places remain;
  - output stops after a `\n`;
  - other bytes pass through.
- **Bounds:** `MaxOps` bounds the number of hooks.

### XenProxy

- **Tasks** run one proxied function at a time. `WriteField` stores one
  field of the entry; then the function traps (`do_xen_proxy_op`) and reads
  the return value (`Return`).
- **Data abstraction:**
  - an argument that is the caller's own data is the caller's name;
  - Xen's return value is the request it executed.
- **Preemption:**
  - `Preempt(u)`: an upcall in the running task readies a higher-priority
    task, which runs when the callback returns.
  - `Block`: the task that was preempted resumes when the other blocks.
  - `Dispatch(u)`: another task is picked when nothing is preempted.
- **The assumption:** the clock task can preempt the control-interface task.
  Their priorities are set in Minix's `table.c`, which is not in this
  repository.

### DomainBuilder

- **Frames:** the domain's frame `p` has machine frame `Mfn(p)`.
  - `owner` records what each frame taken from `pages[]` was used for.
  - `pg_dir`, `pg_tab`, `mfn_list` and `m2p` are the tables the builder
    writes.
- **Actions:** one per builder step — `LoadProcess` (one pass of the image
  loop), `LoadDone`, `SetupPageTable`, `SetupStartInfo`, `SetupGdt` and
  `Launch`.
- **`SetupGdt`** encodes both descriptors with `build_seg`, which turns a
  size into a limit (`--size`, so 0 means 4 GB). A limit above
  `BYTE_GRAN_MAX` is kept in pages. `NullDesc` and the descriptor record
  are shared with `KernelStartup`, because the kernel updates the same
  GDT frames.
- **`SetupPageTable`** is the whole function.
  - Its frame loop is given in closed form (`NewTable`, `TableOf`,
    `DirSlot`, `MapLoop`). With `va_start` 0, `pg_tab_entry` is page aligned
    exactly when `i` is a multiple of the entries per table.
- **Scaled sizes:** the sizes are scaled down and their ratios kept.
  - A page is 64 bytes of 4-byte entries, so 16 entries per table.
  - A click is 16 bytes, which keeps the 4:1 ratio of page to click.
  - There are 76 physical-to-machine entries.
  - `FIXED_SHARED_INFO` is page 32, in directory slot 2.
  - The code's literal 40-page slack in the physical-to-machine loop is
    kept.
- **Error paths:** the map and copy calls that can fail (`goto error_out`)
  are not modelled. They abandon the build and leave no domain behind.

### KernelStartup

- **Composition:** the module extends `DomainBuilder`. The builder's steps
  leave the kernel's variables unchanged. The kernel's steps start once the
  domain is launched and leave the builder's variables unchanged.
  - `procheaders` (added to `DomainBuilder`) is the header array the builder
    writes into the start info, with `a_syms` set to the load address.
  - A slot past the image reads as a zero header, because the builder zeroes
    the start info first.
- **State:** `kgdt` (GDT slot to descriptor), `proc` (the process table: flags
  `rts` as a set, `sys`, the three GDT indices, the `T`/`D`/`S` memory map,
  the `cs`/`ds` selectors, `sp`), and `main()`'s `i` and `ktsb`.
- **Actions:**
  - `xen_prot_init`;
  - `MainStart` (every slot `SLOT_FREE`), `MainProc` (one pass of the boot
    loop, `alloc_segments` included), `MainDone` (the return to
    `restart()`);
  - `DoFork(p, c)` and `Newmap(c)`.
- **Descriptors:** descriptors are records of base, limit, granularity,
  privilege and kind. The x86 bit layout is left out.
  - `SegEnd` is the last byte the CPU allows.
  - Sizes are scaled with the builder's 64-byte page. The limit field holds
    64 pages of 64 bytes (4096 addresses), as 2^20 pages of 4 KB span 4 GB.
    `BYTE_GRAN_MAX` is 63.
- **Assumptions from `table.c`** (not in this repository):
  - `image[]` lists the kernel tasks first, so boot process `i` is process
    `i - NR_TASKS`. IDLE precedes HARDWARE, and HARDWARE's stack size is 0.
  - All entries but the last (INIT) are `SYS_PROC`.
- **`Newmap`:** `do_newmap` is not in the repository. It is modelled from
  `alloc_segments`, which the code says `do_newmap` calls. The process
  manager's choice of the child's new map is not modelled. The child keeps
  the copied map, since the property is about whose GDT slots it runs on.

## Runs

| run | cfg | expect | checks |
|---|---|---|---|
| ctrlif_tx | BlockFrontEndTx.cfg (`MCBlockFrontEnd`) | pass | `TxRefinesChannel`, `SendBlockReturns`, `BlkReachesLoop` |
| ctrlif_rx | BlockFrontEndRx.cfg (`MCBlockFrontEnd`) | pass | `TypeOK`, `BlkRingInBuffer`, `NoMessageLost`, `DeliveredInOrder`, `RxRequestsConsumed` |
| ctrlif_blocking_lost | ControlIfBlockingLost.cfg | violation | `NoMessageLost` |
| ctrlif_deferred_stranded | BlockFrontEndStranded.cfg (`MCBlockFrontEnd`) | violation | `RequestsDelivered` |
| evtchn_dispatch | EvtchnDispatch.cfg | pass | `TypeOK`, `NoStrandedEvent`, `CallbacksHeldOff`, `NoEventLost` |
| evtchn_binding | EvtchnBinding.cfg | pass | `TypeOK`, `TablesConsistent`, `BindCountsMatch` |
| evtchn_binding_uninit | EvtchnBindingUninit.cfg | violation | `BindCountsMatch` |
| console | XenConsole.cfg | pass | `TypeOK`, `OutputOrdered`, `InputIntact`, `KmessShownOnce` |
| console_input_overflow | XenConsoleInputOverflow.cfg | violation | `InputIntact` |
| xenproxy_slot_race | XenProxySlotRace.cfg | violation | `ProxyCallOwnResult` |
| kernel_startup | KernelStartup.cfg | pass | `BuilderSegmentsFit`, `AddressSpaceConsistent`, `PageTablesReadOnly`, `UserSegmentsConfined`, `RunsOnOwnDescriptors` |
| kernel_data_overrun | KernelStartupDataOverrun.cfg | violation | `UserSegmentsConfined` |

### What the passing runs show

- **ctrlif_tx** (the block driver starting up among other drivers):
  - The tx sub-ring implements `TxChannel`: the controller reads the
    messages in the order sent, none overwritten, and eventually all.
    TX_FULL is computed from the guest's lagging private counter and never
    lets a send reuse an unread slot.
  - A task spinning in `send_block` always gets out.
  - The block driver reaches its receive loop, although CTRLIF handles no
    HARD_INT while it retries the driver's status send.
- **ctrlif_rx** (the block driver starting up beside another driver): with
  non-blocking registrations, no rx request is lost, each receiver sees its
  requests in order across deferral and redelivery (a CMSG_BLKIF_FE request
  that arrives during `x_init` included), and every request is eventually
  consumed from the rx ring. Here `sys_getvtom` may also fail, so the block
  driver may panic before it registers: its requests are then dropped for
  want of an owner, and nothing else changes. `BlkRingInBuffer` shows that
  the ring page is page aligned and inside `blk_ring_buf`, both for an
  aligned buffer (the ring is its second page) and for one a byte either
  side of a boundary.
- Both ctrlif runs check the composition, so every `ControlIf` action runs
  beside the block driver. `MCControlIf` is kept for ctrlif_blocking_lost,
  where blocking registrations of any driver are in play.
- **evtchn_dispatch:**
  - At every idle point, a bound port that is pending and unmasked still has
    its selector bit and upcall flag set. This is what the clear-before-scan
    order and the re-check in `enable_irq`/`end_irq` are for.
  - No callback runs inside a closed section, nested ones included.
  - Every edge owed to an enabled handler is handled.
- **evtchn_binding:** any balanced sequence of binds and unbinds keeps the
  three tables mutually inverse and each IRQ's count equal to the binds
  held.
- **console:**
  - Output reaches CTRLIF in order, with nothing repeated.
  - Single-byte input is never overwritten.
  - Every kernel message byte is printed once.
- **kernel_startup:** the builder loads three images of a kernel and two
  servers into domains of five sizes from 22 to 32 frames. The kernel then
  sets up two tasks and two servers and forks into the two free user slots.
  - Builder: the page-table and GDT frames are exactly the frames mapped
    read-only. Xen refuses to pin the directory otherwise, and the kernel
    needs every other frame writable.
  - Builder: the page tables, the physical-to-machine list and Xen's
    machine-to-physical entries agree, and the shared info page is mapped.
  - Builder: `setup_gdt` gives the kernel a code segment from its `cs` to
    `fmem_vaddr - 2`. `build_seg` truncates it to whole pages, so it covers
    the kernel's text and ends below free memory. The data segment of size
    0 spans all 4096 scaled addresses from the kernel's `ds`. The kernel
    never rewrites `DS_INDEX`, so this is its data segment as it runs.
  - Every boot process's `cs` and `ds` select a code and a data descriptor
    of its own privilege: ring 2 for tasks, ring 3 for servers.
  - A server's segments lie inside the frames the builder copied its program
    into, and its initial stack word lies inside its data segment. This ties
    `hdrindex`, the click arithmetic and `sdesc`'s rounding to the
    builder's layout.
  - A process with no flags (one that may run) uses its own GDT slots, and
    they hold its own map. A forked child has the parent's selectors until
    `SYS_NEWMAP`, and `NO_MAP` keeps it from running until then.

### What the violation runs show

Each violation run is a finding in `PROJECT.json`.

- **ctrlif_blocking_lost:** a message of a type registered for blocking
  context is copied to `ctrl_if_rxmsg_deferred[dp++]`. `dp` is a local copy
  that is never written back (`ctrl_if.c` 183), so the message is lost.
- **ctrlif_deferred_stranded:** the controller answers the block driver's
  status with a CMSG_BLKIF_FE request while the driver is still printing in
  `main`. `ctrl_if_deliver_message` defers it (`ctrl_if.c` 95). The
  deferred queue is drained only by the next HARD_INT or unregister
  (`ctrl_if.c` 223), and none comes, so the request is never delivered
  although the driver waits in `receive`. The spec promises delivery after
  "a subsequent drain()" and never says that one happens (a spec gap).
- **evtchn_binding_uninit:** `unbind_virq_from_irq` indexes with the
  uninitialised `irq` (`evtchn.c` 220). In the trace a client binds VIRQ 0
  and unbinds it. The garbage index selects VIRQ 1, which is unbound, so
  `irq` is -1. The tables are accessed at -1, and VIRQ 0 stays bound with
  count 1 although no client holds it. The defect is latent, because
  nothing in the repository calls `unbind_virq_from_irq`.
- **console_input_overflow:** `xencons_interrupt` checks the free room once,
  before its loop (`xencons.c` 378). A two-byte message arriving with one
  byte free overwrites unread input.
- **xenproxy_slot_race:** the proxy entry is filled without a lock
  (`xen.c` 152). The sequence is:
  1. The control-interface task is preempted after filling it for
     `notify_evtchn`.
  2. The clock task's `unlock()` forces a callback through
     `hypervisor_xen_version`.
  3. The control-interface task traps, and Xen runs `xen_version`.
  4. The event is never sent.

- **kernel_data_overrun:** a separate-I&D server with 20 bytes of text and
  80 bytes of `a_total` is loaded into two 64-byte frames.
  - Its data segment starts at the third click, inside the first frame.
  - 80 bytes exceed `BYTE_GRAN_MAX`, so `sdesc` (`protect.c` 98) makes the
    limit page-granular. The segment then ends a whole page after its start.
  - The end lies 32 bytes into the next program's frames.
  - Byte granularity, or a page-aligned start, would keep it inside.

### Reading the code without a run

These defects were found by reading the code. No run checks them.

- **Deferred-queue overflow:** `ctrl_if_deliver_message` pushes onto the
  deferred queue with no room check (`ctrl_if.c` 95), so the oldest
  deferred message is overwritten. The spec says the new one is dropped and
  counted. The ctrlif_rx run keeps no more requests outstanding than the
  queue holds. With `MaxMsgs` 3 and a busy receiver, `NoMessageLost` fails.

- **Frames past the domain:** `copy_to_domain_memory` and
  `setup_page_table` take `pages[(*pg_alloc)++]` (`xc_minix_build.c` 527)
  and never compare `pg_alloc` with `nr_pages`.
  - The largest image of `MCKernelStartup` needs 22 frames. In a domain of
    20 or 21 frames the builder reads past the end of `pages[]`.
  - The domain size comes from the tool's caller, so this is a misuse, not
    a path the repository takes.
  - No property checks it. The code has no check that a model could find
    wrong, so an invariant over the frames taken would only restate the
    run's bounds. The kernel_startup run keeps to domains large enough.

- **Shifted function keys:** the `len` of the shifted entries of `fkey_map`
  (`xencons.c` 77-100) is shorter than their initialisers, so SF1-SF12
  cannot be trapped as their sequences are sent.
- **Extra unbind:** unbinding an interdomain port more often than it was
  bound reaches `irq_bindcount` at 0. It then indexes the IRQ tables with
  -1.
  - `EvtchnBinding` keeps this path behind the constant `ExtraUnbind`.
  - It is a misuse by a client. No driver in the repository does it.
- **Responses on the rx ring:** `ctrl_if_rx_tasklet` already advances
  `rx_resp_prod` past every request it consumes (`ctrl_if.c` 189).
  - A driver's `CTRLIF_SEND_RESPONSE` (`ctrl_if_send_response`, 292-298) then
    writes into the slot of the next request and advances `rx_resp_prod`
    once more.
  - If the controller has already sent that request, it is overwritten
    unread. Otherwise the controller sees one slot more free than there is.
  - Checking the two sub-rings together finds this at once (a request, then
    a response). No driver in the repository sends a response. So the tx
    run, which fires `SendResponse`, does not check `NoMessageLost`, and the
    rx run, which does, sends no response.

### Bounds, and why they are enough

- **ControlIf:** a ring of two slots makes every wrap, full and empty case
  occur within a few messages. Two receivers and two types let one message
  be deferred while another is delivered.
- **BlockFrontEnd:**
  - `MaxTx` 3 over a two-slot ring lets the block driver's status find the
    ring full, so `status_wait` and the retry are reached.
  - One other type and receiver compete with the block driver. `MaxMsgs` 1
    is enough for the controller's answer to be deferred.
  - `BufAddrs` is {0, 1, 4095, 4096, 4097, 8191, 8192, 8193}: aligned
    addresses and a byte either side of a 4096-byte boundary. An address
    in the top two pages of the 32-bit space is out of TLC's integer
    range. The sum `buf + PAGE_SIZE` cannot wrap there anyway, because the
    buffer's two pages lie below 2^32.
  - ctrlif_tx and ctrlif_deferred_stranded give `sys_getvtom` only OK. A
    driver that panics never reaches its loop, so `BlkReachesLoop` is about
    a start-up whose kernel call succeeds. ctrlif_rx takes both results.
- **EvtchnDispatch:**
  - 3 ports over 2 words make both levels of the scan and a bit past the
    first word occur.
  - One unbound port exercises the unbound paths.
  - `MaxNest` 2 allows a nested section.
- **EvtchnBinding:**
  - `BindMod` 4 with `MaxBinds` 3 brings the count next to its wrap.
  - Two IRQs make the IRQ table fill, the panic case included.
- **XenConsole:**
  - 3-byte rings wrap within two writes.
  - The messages include a function key and a byte of input.
  - The writes include a `\n` that needs two places.
- **XenProxy:** one call per task is enough for the race. The clock task's
  single call is the one that preempts.
- **DomainBuilder:**
  - `NrPages` {22, 24, 25, 31, 32} fills the second L1 table partly and
    exactly (32). 22 frames is the least the largest image needs.
  - The loader's frames, the GDT and the tables then fall at different
    offsets within a table.
  - The shared-info page (32, directory slot 2) lies just past every domain
    size, where the code needs it to be (hazard at `xc_minix_build.c` 559).
  - The 76-entry physical-to-machine list spans several frames.
- **KernelStartup:**
  - The three images give servers of both I&D kinds. Their data segments
    need byte and page granularity. Some fill their last frame exactly, and
    one is a single click with no data.
  - The kernel's image table has two servers, so every image has two.
    An image shorter than the table is a build error (the kernel would
    read a zeroed header and give a server a 4 GB segment). `table.c` and
    the image are built together, so no run has one.
  - `NR_PROCS` 4 leaves two free user slots. Two slots are enough for a
    fork by a system server (`NO_PRIV`), a fork by INIT, and a fork of a
    child that has not had its new map.

## Fairness

- **ControlIf:**
  - Weak fairness on `DoHardInt` and `SendBlockRetry`: CTRLIF runs whenever
    it has a message.
  - Weak fairness on the controller's reads and answers: the ring
    discipline requires it.
  - Weak fairness on each receiver's return to `receive`: drivers go back to
    their receive loop.
  - New requests from drivers and from the controller are not fair.
- **BlockFrontEnd:** `ControlIf`'s fairness, and weak fairness on the block
  driver's start-up steps: it is a ready task until it blocks in `receive`.
- **EvtchnDispatch:**
  - Weak fairness on the callback's steps and on Xen's upcall: an upcall
    runs once the mask is clear.
  - Strong fairness on `Unlock`, `Restore` and `EnableIrqCheck`: process
    context closes every section it opens and finishes `enable_irq`. Upcalls
    may keep interrupting it, so only strong fairness is justified.
- **Other modules:** safety only. No fairness is assumed.

## Not modelled

- **Builder front end** (`xc_minix_build`'s xenstore reads and the dom0
  tool): pure I/O.
- **Block front end, partly** (`xenvbd.c`): the transfer, open, ioctl and
  geometry hooks are under `#if 0` and only print. They change no state.
  The machine frame `sys_getvtom` writes into `blk_ring` is not kept,
  because nothing reads it: the event-channel connection after it is not
  written yet.
- **Nested `lock()`/`unlock()`** (`xen.h` 346): both are plain
  disable/enable of callbacks. The only user in the repository,
  `xen_proxy_int_lock`, is never called. The callers that could nest
  them (Minix's `proc.c` and `clock.c`) are not in the repository, so
  `EvtchnDispatch` takes `lock()` only outermost.
- **Kernel start-up, partly:**
  - `exception.c` and `main()`'s shutdown path are diagnostics and output.
  - Scheduling, quanta and the privilege structures beyond `SYS_PROC` are
    left out.
  - Xen's own checks in `hypervisor_update_descriptor` are left out.
- **Xen interface headers:** numbers, layouts and macros. They are modelled
  where they are used.
- **Data:** payloads, strings and register values are abstracted to small
  sets.
