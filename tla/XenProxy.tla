------------------------------ MODULE XenProxy ------------------------------
(***************************************************************************)
(* The hypercall proxy of src/kernel/xen.c.  Kernel tasks run in ring 2    *)
(* and cannot trap into Xen themselves: a proxied hypercall writes its     *)
(* operation and arguments into the one static multicall entry            *)
(* xen_proxy_op, traps to ring 1 with xen_proxy_int, whose handler         *)
(* do_xen_proxy_op performs the hypercall and stores its value in the one  *)
(* static xen_proxy_op_ret, and then returns xen_proxy_op_ret.             *)
(*                                                                         *)
(* The slot is written one field at a time and nothing locks it.  Event    *)
(* callbacks are enabled in task code, and an upcall whose handler makes a *)
(* higher-priority ring-2 task ready switches to that task when the        *)
(* callback returns; the preempted task resumes when the other one blocks. *)
(* The callback itself runs in ring 1 and calls xen_op directly, so only   *)
(* the tasks touch the slot.                                               *)
(*                                                                         *)
(* Data is abstracted: an argument that is the caller's own data (the      *)
(* physical address of its evtchn_op_t, string or descriptor) is the       *)
(* caller's name, and the value Xen returns is the request it executed.    *)
(***************************************************************************)
EXTENDS Integers, Sequences

CONSTANTS
  Tasks,      \* the ring-2 kernel tasks that make proxied hypercalls
  Issues,     \* Issues[t]: the proxied functions task t calls
  Priority,   \* Priority[t]: t's scheduling queue; lower runs first
  MaxCalls    \* bound: proxied calls per task

(* The fields of the multicall entry the proxy functions write: op and     *)
(* args[0..2] (xen_proxy_op.args has 7 words; no proxied call sets more    *)
(* than three).                                                            *)
Fields == 0 .. 3
Unset == "unset"

(* The fields each proxied function writes, in the order it writes them:   *)
(* field 0 is xen_proxy_op.op, field i + 1 is xen_proxy_op.args[i].        *)
hypervisor_console_write(t) ==
  <<"console_io", "CONSOLEIO_write", <<"length", t>>, <<"string", t>>>>
hypervisor_update_descriptor(t) ==
  <<"update_descriptor", <<"ma", t>>, <<"word1", t>>, <<"word2", t>>>>
hypervisor_event_channel_op(t) == <<"event_channel_op", <<"op", t>>>>
hypervisor_xen_version(t) == <<"xen_version", 0>>
hypervisor_shutdown(t) == <<"sched_op", "SCHEDOP_shutdown">>
hypervisor_yield(t) == <<"sched_op", "SCHEDOP_yield">>

Request(f, t) ==
  CASE f = "console_write"     -> hypervisor_console_write(t)
    [] f = "update_descriptor" -> hypervisor_update_descriptor(t)
    [] f = "event_channel_op"  -> hypervisor_event_channel_op(t)
    [] f = "xen_version"       -> hypervisor_xen_version(t)
    [] f = "shutdown"          -> hypervisor_shutdown(t)
    [] f = "yield"             -> hypervisor_yield(t)

(* What Xen executes for an entry: the op and the arguments the op reads;  *)
(* words past them are left over from earlier calls and ignored.           *)
Executed(slot) ==
  LET n == CASE slot[0] = "console_io"        -> 3
             [] slot[0] = "update_descriptor" -> 3
             [] slot[0] \in {"event_channel_op", "xen_version", "sched_op"} -> 1
             [] OTHER -> 0
  IN [i \in 1 .. n + 1 |-> slot[i - 1]]

VARIABLES
  xen_proxy_op,      \* the static multicall entry: Fields -> value
  xen_proxy_op_ret,  \* the static return value
  pc,                \* pc[t]: "idle", "write", "trap" or "return"
  call,              \* call[t]: the function task t is in
  written,           \* written[t]: how many fields task t has written
  running,           \* the ring-2 task on the CPU
  preempted,         \* the tasks preempted by upcalls, most recent last
  ncalls,            \* ncalls[t]: calls task t has begun
  results            \* history: [task, call, ret] of every completed call

vars == <<xen_proxy_op, xen_proxy_op_ret, pc, call, written, running,
          preempted, ncalls, results>>

Init ==
  /\ xen_proxy_op = [i \in Fields |-> Unset]
  /\ xen_proxy_op_ret = Unset
  /\ pc = [t \in Tasks |-> "idle"]
  /\ call = [t \in Tasks |-> "none"]
  /\ written = [t \in Tasks |-> 0]
  /\ running \in Tasks
  /\ preempted = <<>>
  /\ ncalls = [t \in Tasks |-> 0]
  /\ results = <<>>

(* The running task enters a proxied function: current_ring() is not      *)
(* RING1.                                                                  *)
Begin(f) ==
  LET t == running IN
  /\ pc[t] = "idle" /\ ncalls[t] < MaxCalls
  /\ pc' = [pc EXCEPT ![t] = "write"]
  /\ call' = [call EXCEPT ![t] = f]
  /\ written' = [written EXCEPT ![t] = 0]
  /\ ncalls' = [ncalls EXCEPT ![t] = @ + 1]
  /\ UNCHANGED <<xen_proxy_op, xen_proxy_op_ret, running, preempted, results>>

(* One assignment to xen_proxy_op.op or xen_proxy_op.args[i].              *)
WriteField ==
  LET t == running
      req == Request(call[t], t)
  IN
  /\ pc[t] = "write"
  /\ xen_proxy_op' = [xen_proxy_op EXCEPT ![written[t]] = req[written[t] + 1]]
  /\ written' = [written EXCEPT ![t] = @ + 1]
  /\ pc' = [pc EXCEPT ![t] = IF written[t] + 1 = Len(req) THEN "trap" ELSE "write"]
  /\ UNCHANGED <<xen_proxy_op_ret, call, running, preempted, ncalls, results>>

(* xen_proxy_int traps to ring 1, and do_xen_proxy_op performs the         *)
(* hypercall the entry holds and stores its value.                         *)
do_xen_proxy_op ==
  LET t == running IN
  /\ pc[t] = "trap"
  /\ xen_proxy_op_ret' = Executed(xen_proxy_op)
  /\ pc' = [pc EXCEPT ![t] = "return"]
  /\ UNCHANGED <<xen_proxy_op, call, written, running, preempted, ncalls, results>>

(* return xen_proxy_op_ret.                                                *)
Return ==
  LET t == running IN
  /\ pc[t] = "return"
  /\ results' = Append(results, [task |-> t, call |-> call[t], ret |-> xen_proxy_op_ret])
  /\ pc' = [pc EXCEPT ![t] = "idle"]
  /\ call' = [call EXCEPT ![t] = "none"]
  /\ UNCHANGED <<xen_proxy_op, xen_proxy_op_ret, written, running, preempted, ncalls>>

(* An upcall arrives in the running task and its handler readies a         *)
(* higher-priority task u that is waiting; u runs when the callback        *)
(* returns.                                                                *)
Preempt(u) ==
  /\ Priority[u] < Priority[running] /\ pc[u] = "idle"
  /\ u \notin {preempted[i] : i \in DOMAIN preempted}
  /\ preempted' = Append(preempted, running)
  /\ running' = u
  /\ UNCHANGED <<xen_proxy_op, xen_proxy_op_ret, pc, call, written, ncalls, results>>

(* The running task blocks between calls: the task it preempted resumes.   *)
Block ==
  /\ pc[running] = "idle" /\ preempted # <<>>
  /\ running' = preempted[Len(preempted)]
  /\ preempted' = SubSeq(preempted, 1, Len(preempted) - 1)
  /\ UNCHANGED <<xen_proxy_op, xen_proxy_op_ret, pc, call, written, ncalls, results>>

(* The running task blocks between calls and nothing is preempted: another *)
(* waiting task is picked.                                                 *)
Dispatch(u) ==
  /\ pc[running] = "idle" /\ preempted = <<>>
  /\ u # running /\ ncalls[u] < MaxCalls
  /\ running' = u
  /\ UNCHANGED <<xen_proxy_op, xen_proxy_op_ret, pc, call, written, preempted, ncalls, results>>

(* Every task has made its calls and returned.                             *)
Finished ==
  /\ \A t \in Tasks : pc[t] = "idle" /\ ncalls[t] = MaxCalls
  /\ UNCHANGED vars

Next ==
  \/ \E f \in Issues[running] : Begin(f)
  \/ WriteField
  \/ do_xen_proxy_op
  \/ Return
  \/ \E u \in Tasks : Preempt(u)
  \/ Block
  \/ \E u \in Tasks : Dispatch(u)
  \/ Finished

Spec == Init /\ [][Next]_vars
-----------------------------------------------------------------------------
(* A proxied hypercall performs the caller's own request and returns its   *)
(* value: the comment of xen.c promises that ring-2 tasks can make Xen     *)
(* calls through the proxy, so a task that calls notify_evtchn must have   *)
(* sent the event.                                                         *)
ProxyCallOwnResult ==
  \A i \in DOMAIN results :
    results[i].ret = Executed([k \in Fields |->
                        IF k < Len(Request(results[i].call, results[i].task))
                        THEN Request(results[i].call, results[i].task)[k + 1]
                        ELSE Unset])
=============================================================================
