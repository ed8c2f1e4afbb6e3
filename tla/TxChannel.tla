------------------------------ MODULE TxChannel ------------------------------
(***************************************************************************)
(* What the tx sub-ring of the control interface promises the drivers that *)
(* send through it (spec.md, send_noblock and send_block): a bounded       *)
(* first-in first-out channel from the guest to the domain controller.     *)
(* A send is possible only while fewer than Capacity messages are in the   *)
(* channel; the controller takes them from its head, none lost, repeated   *)
(* or reordered.  Messages are named by their position in the send order.  *)
(* ControlIf is shown to implement this module (TxRefinesChannel).         *)
(***************************************************************************)
EXTENDS Naturals, Sequences

CONSTANTS
  Capacity,  \* messages the channel holds
  MaxSent    \* bound on the messages sent

VARIABLES
  sent,      \* how many messages the guest has sent
  chan,      \* the messages sent and not yet taken, oldest first
  received   \* the messages the controller has taken, in order

chanVars == <<sent, chan, received>>

Init ==
  /\ sent = 0
  /\ chan = <<>>
  /\ received = <<>>

(* The guest puts the next message at the tail.                            *)
Send ==
  /\ sent < MaxSent
  /\ Len(chan) < Capacity
  /\ chan' = Append(chan, sent)
  /\ sent' = sent + 1
  /\ UNCHANGED received

(* The controller takes the message at the head.                           *)
Receive ==
  /\ chan # <<>>
  /\ received' = Append(received, Head(chan))
  /\ chan' = Tail(chan)
  /\ UNCHANGED sent

Next == Send \/ Receive

(* Whatever is in the channel is eventually taken; sending is optional.    *)
Spec == Init /\ [][Next]_chanVars /\ WF_chanVars(Receive)

=============================================================================
