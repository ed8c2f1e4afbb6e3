----------------------------- MODULE MCXenProxy -----------------------------
(* Two ring-2 tasks: the control-interface task, which notifies the        *)
(* controller (notify_evtchn) and yields in send_block, and the clock      *)
(* task, whose unlock() forces a callback through hypervisor_xen_version   *)
(* when an upcall is pending.                                              *)
EXTENDS XenProxy, TLC

CONSTANTS ctrlif, clock

(* The clock task runs in the highest queue (TASK_Q); the control-        *)
(* interface task is placed below it.                                      *)
MCPriority == (ctrlif :> 1) @@ (clock :> 0)

MCIssues == (ctrlif :> {"event_channel_op", "yield"}) @@ (clock :> {"xen_version"})
=============================================================================
