----------------------------- MODULE XenFuncKey -----------------------------
(***************************************************************************)
(* The function-key trap of the Xen console (src/drivers/tty/xencons.c):   *)
(* the table fkey_map, xen_func_key, and the byte loop of                  *)
(* xencons_interrupt that calls it.  A console message is a sequence of    *)
(* bytes; code index i is msg[i + 1] here.                                 *)
(*                                                                         *)
(* The module is a pure algorithm: operators only, used by XenConsole for  *)
(* each console message.                                                   *)
(***************************************************************************)
EXTENDS Integers, Sequences

ESC == 27

(* fkey_map: key, len, and the codes as initialised (NR_CODES entries,     *)
(* zero-filled past the initialiser).                                      *)
Entry(k, l, c) == [fkey |-> k, len |-> l, codes |-> c]
fkey_map == <<
  Entry("F1", 3, <<27, 79, 80>>),           Entry("F2", 3, <<27, 79, 81>>),
  Entry("F3", 3, <<27, 79, 82>>),           Entry("F4", 3, <<27, 79, 83>>),
  Entry("F5", 5, <<27, 91, 49, 53, 126>>),  Entry("F6", 5, <<27, 91, 49, 55, 126>>),
  Entry("F7", 5, <<27, 91, 49, 56, 126>>),  Entry("F8", 5, <<27, 91, 49, 57, 126>>),
  Entry("F9", 5, <<27, 91, 50, 48, 126>>),  Entry("F10", 5, <<27, 91, 50, 49, 126>>),
  Entry("F11", 5, <<27, 91, 50, 51, 126>>), Entry("F12", 5, <<27, 91, 50, 53, 126>>),
  Entry("SF1", 3, <<27, 79, 50, 80>>),      Entry("SF2", 3, <<27, 79, 50, 81>>),
  Entry("SF3", 3, <<27, 79, 50, 82>>),      Entry("SF4", 3, <<27, 79, 50, 83>>),
  Entry("SF5", 5, <<27, 91, 49, 53, 59, 50, 126>>),
  Entry("SF6", 5, <<27, 91, 49, 55, 59, 50, 126>>),
  Entry("SF7", 5, <<27, 91, 49, 56, 59, 50, 126>>),
  Entry("SF8", 5, <<27, 91, 49, 57, 59, 50, 126>>),
  Entry("SF9", 5, <<27, 91, 50, 48, 59, 50, 126>>),
  Entry("SF10", 5, <<27, 91, 50, 49, 59, 50, 126>>),
  Entry("SF11", 5, <<27, 91, 50, 51, 59, 50, 126>>),
  Entry("SF12", 5, <<27, 91, 50, 53, 59, 50, 126>>) >>
NR_FMAPPINGS == Len(fkey_map)
FKeys == {fkey_map[j].fkey : j \in 1 .. 12}
SFKeys == {fkey_map[j].fkey : j \in 13 .. 24}
NoKey == 0

(* The mapping matches when exactly len bytes remain at index and each     *)
(* equals its code.                                                        *)
Matches(msg, index, m) ==
  /\ Len(msg) - index = m.len
  /\ \A s \in 0 .. m.len - 1 : msg[index + s + 1] = m.codes[s + 1]

(* The for loop over fkey_map: the first mapping that matches, or NoKey.   *)
RECURSIVE ScanMap(_, _, _)
ScanMap(msg, index, i) ==
  IF i > NR_FMAPPINGS THEN NoKey
  ELSE IF Matches(msg, index, fkey_map[i]) THEN i
  ELSE ScanMap(msg, index, i + 1)

(* xen_func_key: only a message whose first byte is ESC is scanned.  Every *)
(* key of the table is observable, so a match returns TRUE (the observer   *)
(* count and notify are the caller's business here).                       *)
xen_func_key(msg, index) == IF msg[1] # ESC THEN NoKey ELSE ScanMap(msg, index, 1)

(* xencons_interrupt's loop from byte i: the bytes stored in the input     *)
(* buffer and the keys trapped, in order.  After a match i becomes         *)
(* index + len and the loop's i++ moves one further.                       *)
RECURSIVE Interpret(_, _)
Interpret(msg, i) ==
  IF i >= Len(msg) THEN <<>>
  ELSE LET j == xen_func_key(msg, i) IN
       IF j # NoKey
       THEN <<[key |-> fkey_map[j].fkey]>> \o Interpret(msg, i + fkey_map[j].len + 1)
       ELSE <<[byte |-> msg[i + 1]]>> \o Interpret(msg, i + 1)

=============================================================================
