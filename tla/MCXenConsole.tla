---------------------------- MODULE MCXenConsole ----------------------------
EXTENDS XenConsole

(* Console input: single characters and the F1 sequence.                   *)
MCInMsgs == {<<97>>, <<98>>, <<27, 79, 80>>}
(* Console input with a two-character message as well.                     *)
MCInMsgsLong == MCInMsgs \cup {<<97, 98>>}
(* A line, and three plain bytes (longer than the buffer's free run).      *)
MCWrites == {<<97, 10>>, <<97, 98, 97>>}
(* A line whose newline falls on the last free byte of obuf, and four     *)
(* plain bytes, one more than obuf holds.                                  *)
MCPrints == {<<97, 97, 10>>, <<97, 97, 97, 98>>}
=============================================================================
