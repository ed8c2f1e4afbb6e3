--------------------------- MODULE MCBlockFrontEnd ---------------------------
(* Model-checking instance of BlockFrontEnd.  The constants are given in   *)
(* the .cfg files: types and receivers are model values, CMSG_BLKIF_FE and *)
(* DRVR_PROC_NR are one of each, the bounds are per run (see README).  No  *)
(* symmetry is declared because the runs check liveness.                   *)
EXTENDS BlockFrontEnd

(* sys_getvtom's results: OK (0), or an error (EFAULT, -14) that makes x_init panic. *)
MCVtomAll == {0, -14}

(* Only OK: the start-up liveness of BlkReachesLoop assumes the call works. *)
MCVtomOK == {0}

(* Link addresses of blk_ring_buf (PAGE_SIZE 4096): page aligned, and one *)
(* byte before and after a boundary.                                       *)
MCBufAddrs == {0, 1, 4095, 4096, 4097, 8191, 8192, 8193}

=============================================================================
