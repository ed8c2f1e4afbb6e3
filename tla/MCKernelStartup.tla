--------------------------- MODULE MCKernelStartup ---------------------------
(* Boot images of the kernel and two servers, in bytes of the scaled       *)
(* 64-byte page and 16-byte click.  The servers are of separate and common *)
(* I&D, with data segments of byte granularity (up to BYTE_GRAN_MAX) and   *)
(* of page granularity.                                                    *)
EXTENDS KernelStartup

Prog(t, d, b, tot, sep) == [text |-> t, data |-> d, bss |-> b, total |-> tot,
                            sep |-> sep, entry |-> 0, syms |-> 0]
MCHardware == -1
(* image[]: the tasks and the first server are system processes; the last *)
(* entry, INIT, is not.                                                    *)
MCSysProc == [i \in 0 .. 3 |-> i < 3]
KernelProg == Prog(64, 20, 12, 100, TRUE)

(* A separate I&D server of byte granularity; common I&D servers that     *)
(* fill their last frame exactly, of byte and of page granularity; a       *)
(* separate I&D server of page granularity whose text fills whole pages;   *)
(* a server of one click with no data.                                     *)
MCBootImages ==
  { << KernelProg, Prog(20, 8, 0, 40, TRUE), Prog(32, 16, 0, 64, FALSE) >>,
    << KernelProg, Prog(48, 32, 40, 160, FALSE), Prog(64, 40, 0, 100, TRUE) >>,
    << KernelProg, Prog(20, 8, 4, 60, FALSE), Prog(16, 0, 0, 16, TRUE) >> }

(* A separate I&D server whose data segment needs page granularity and     *)
(* starts inside a page.                                                   *)
MCMisalignedImages ==
  { << KernelProg, Prog(20, 40, 0, 80, TRUE), Prog(20, 8, 0, 40, TRUE) >> }
=============================================================================
