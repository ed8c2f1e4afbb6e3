----------------------------- MODULE XenConsole -----------------------------
(***************************************************************************)
(* The Xen console driver, src/drivers/tty/xencons.c: the circular input   *)
(* and output buffers of xenconsole, the TTY hooks that fill and drain     *)
(* them, the console messages CTRLIF delivers, and the flush to CTRLIF.    *)
(*                                                                         *)
(* The TTY is one Minix process: every hook runs to completion, so each is *)
(* one action.  The pointers ihead/itail/ohead/otail are kept as offsets   *)
(* into ibuf/obuf.  A flush is a sendrec to CTRLIF with CTRLIF_SEND_BLOCK, *)
(* which returns once CTRLIF has queued the message (ControlIf checks that *)
(* it does); the bytes sent are appended to sent.                          *)
(*                                                                         *)
(* out_process belongs to Minix's tty.c, outside this repository: with     *)
(* OPOST|ONLCR it writes a '\n' as "\r\n" when two output places remain,   *)
(* stops after a '\n' either way, and passes other bytes through.          *)
(***************************************************************************)
EXTENDS Integers, SequencesExt

FK == INSTANCE XenFuncKey

CONSTANTS
  XEN_BUFFER_SIZE,  \* ibuf and obuf size
  M9_CTRL_MSG,      \* bytes a control message carries
  KMESS_BUF_SIZE,   \* size of the kernel's message ring
  InMsgs,           \* console messages the controller may send
  Writes,           \* byte strings a process may write to the console
  Prints,           \* byte strings the TTY's own printf / a diagnostics call print
  OutBytes,         \* bytes echoed or printed by the kernel
  MaxOps            \* bound on the number of hooks and messages handled

NL == 10
CR == 13
B == XEN_BUFFER_SIZE

VARIABLES
  obuf, ohead, otail, ocount,   \* output buffering
  ibuf, ihead, itail, icount,   \* input buffering
  tty_events,                   \* xenconsole.tty->tty_events
  fkey_events,                  \* fkey_obs / sfkey_obs events counts
  kmess, prev_next,             \* the kernel's message ring; do_xen_kmess's static
  sent,                         \* bytes sent to CTRLIF by flushes, in order
  expected,                     \* history: the bytes the console should show
  typed, consumed,              \* history: bytes stored as input / passed to in_process
  kprinted, kshown,             \* history: kernel bytes printed / handed to putk
  ops

vars == <<obuf, ohead, otail, ocount, ibuf, ihead, itail, icount, tty_events,
          fkey_events, kmess, prev_next, sent, expected, typed, consumed,
          kprinted, kshown, ops>>
out == <<obuf, ohead, otail, ocount, sent>>
in == <<ibuf, ihead, itail, icount, tty_events, fkey_events, typed, consumed>>
kern == <<kmess, prev_next, kprinted, kshown>>

(* xencons_init: both queues empty, heads and tails at the buffer start.   *)
Init ==
  /\ obuf = [x \in 0 .. B - 1 |-> 0] /\ ohead = 0 /\ otail = 0 /\ ocount = 0
  /\ ibuf = [x \in 0 .. B - 1 |-> 0] /\ ihead = 0 /\ itail = 0 /\ icount = 0
  /\ tty_events = 0
  /\ fkey_events = [k \in FK!FKeys \cup FK!SFKeys |-> 0]
  /\ kmess = [km_buf |-> [x \in 0 .. KMESS_BUF_SIZE - 1 |-> 0], km_next |-> 0, km_size |-> 0]
  /\ prev_next = 0
  /\ sent = <<>> /\ expected = <<>> /\ typed = <<>> /\ consumed = <<>>
  /\ kprinted = <<>> /\ kshown = <<>>
  /\ ops = 0

(* Offsets: n bytes of a ring from offset t; a string written from offset *)
(* h, wrapping at bufend; a pointer moved to or past bufend is wrapped.    *)
RingGet(buf, t, n) == [k \in 1 .. n |-> buf[(t + k - 1) % B]]
RingPut(buf, h, s) ==
  [x \in DOMAIN buf |-> LET k == ((x - h) % B) + 1 IN IF k <= Len(s) THEN s[k] ELSE buf[x]]
WrapPastEnd(p) == IF p > B THEN p - B ELSE p
Wrap(p) == IF p >= B THEN p - B ELSE p

(* out_process (tty.c): [in |-> bytes consumed, out |-> bytes produced].   *)
RECURSIVE OutProcess(_, _)
OutProcess(s, oct) ==
  IF s = <<>> THEN [in |-> 0, out |-> <<>>]
  ELSE IF Head(s) = NL
       THEN IF oct >= 2 THEN [in |-> 1, out |-> <<CR, NL>>] ELSE [in |-> 0, out |-> <<>>]
  ELSE LET r == OutProcess(Tail(s), oct - 1)
       IN [in |-> r.in + 1, out |-> <<Head(s)>> \o r.out]

(* The output side within one hook, as a record o of obuf, ohead, otail,   *)
(* ocount and sent.                                                        *)
OutRec == [obuf |-> obuf, ohead |-> ohead, otail |-> otail, ocount |-> ocount, sent |-> sent]
SetOut(o) ==
  /\ obuf' = o.obuf /\ ohead' = o.ohead /\ otail' = o.otail /\ ocount' = o.ocount
  /\ sent' = o.sent

(* Mutant: the message is filled from ohead rather than otail.           *)
RECURSIVE FlushFromHead(_)
FlushFromHead(o) ==
  IF o.ocount <= 0 THEN o
  ELSE LET count == Min({o.ocount, B - o.otail, M9_CTRL_MSG}) IN
       IF count = 0 THEN o
       ELSE FlushFromHead([o EXCEPT !.sent = @ \o RingGet(o.obuf, o.ohead, count),
                                    !.ocount = @ - count,
                                    !.otail = Wrap(@ + count)])

(* xencons_flush: send obuf from otail in messages of at most M9_CTRL_MSG  *)
(* bytes, never across bufend, until ocount is 0.                          *)
RECURSIVE Flush(_)
Flush(o) ==
  IF o.ocount <= 0 THEN o
  ELSE LET count == Min({o.ocount, B - o.otail, M9_CTRL_MSG}) IN
       IF count = 0 THEN o
       ELSE Flush([o EXCEPT !.sent = @ \o RingGet(o.obuf, o.otail, count),
                            !.ocount = @ - count,
                            !.otail = Wrap(@ + count)])

(* xencons_putk: a full buffer is flushed first; the byte is stored at     *)
(* ohead and out_process is given one byte and the free room.             *)
RECURSIVE Putk(_, _)
Putk(o, c) ==
  IF B - o.ocount = 0 THEN Putk(Flush(o), c)
  ELSE LET r == OutProcess(<<c>>, B - o.ocount) IN
       [o EXCEPT !.obuf = RingPut(RingPut(@, o.ohead, <<c>>), o.ohead, r.out),
                 !.ocount = @ + Len(r.out),
                 !.ohead = Wrap(@ + Len(r.out))]

RECURSIVE PutkAll(_, _)
PutkAll(o, s) == IF s = <<>> THEN o ELSE PutkAll(Putk(o, Head(s)), Tail(s))

(* The bytes the console should show for s: '\n' as "\r\n" (ONLCR).       *)
RECURSIVE Expand(_)
Expand(s) ==
  IF s = <<>> THEN <<>>
  ELSE (IF Head(s) = NL THEN <<CR, NL>> ELSE <<Head(s)>>) \o Expand(Tail(s))

-----------------------------------------------------------------------------
(* xencons_write's loop: take what fits before bufend, copy it to ohead,   *)
(* let out_process consume it, flush, and go on until the write is done or *)
(* nothing fits or is consumed.  Returns the output record and the bytes   *)
(* of w left.                                                              *)
RECURSIVE WriteLoop(_, _)
WriteLoop(o, w) ==
  LET ocnt == B - o.ocount
      count == Min({B - o.ohead, ocnt, Len(w)})
      chunk == SubSeq(w, 1, count)
      r == OutProcess(chunk, ocnt)
      copied == [o EXCEPT !.obuf = RingPut(@, o.ohead, chunk)] IN
  IF count = 0 THEN [o |-> o, left |-> w]
  ELSE IF r.in = 0 THEN [o |-> copied, left |-> w]
  ELSE WriteLoop(Flush([copied EXCEPT !.obuf = RingPut(@, o.ohead, r.out),
                                      !.ocount = @ + Len(r.out),
                                      !.ohead = Wrap(@ + Len(r.out))]),
                 SubSeq(w, r.in + 1, Len(w)))

(* A request from outside the driver: bounded by MaxOps.                   *)
Step == ops < MaxOps /\ ops' = ops + 1

(* xencons_write (try = 0) for a process writing w: the caller is told the *)
(* whole count, or EIO when bytes are left over.                           *)
XenconsWrite(w) ==
  /\ Step
  /\ LET res == WriteLoop(OutRec, w) IN
     /\ SetOut(res.o)
     /\ expected' = IF res.left = <<>> THEN expected \o Expand(w) ELSE expected
  /\ UNCHANGED <<in, kern>>

(* xencons_echo: putk and flush.                                           *)
XenconsEcho(c) ==
  /\ Step
  /\ SetOut(Flush(Putk(OutRec, c)))
  /\ expected' = expected \o Expand(<<c>>)
  /\ UNCHANGED <<in, kern>>

(* The TTY's printf: kputc of each byte, then kputc(END_OF_KMESS), which   *)
(* flushes.  (kputc's copy into the TTY's own kmess is never read here.)   *)
Kputc(s) ==
  /\ Step
  /\ SetOut(Flush(PutkAll(OutRec, s)))
  /\ expected' = expected \o Expand(s)
  /\ UNCHANGED <<in, kern>>

(* do_xen_diagnostics: the server's string in chunks of XEN_BUFFER_SIZE,   *)
(* each copied in (sys_vircopy may fail: EFAULT ends the loop), put and    *)
(* flushed.  nok is the number of chunks copied.                           *)
RECURSIVE Chunks(_)
Chunks(s) == IF s = <<>> THEN <<>>
             ELSE LET n == Min({Len(s), B}) IN <<SubSeq(s, 1, n)>> \o Chunks(SubSeq(s, n + 1, Len(s)))
RECURSIVE DiagLoop(_, _)
DiagLoop(o, cs) == IF cs = <<>> THEN o ELSE DiagLoop(Flush(PutkAll(o, Head(cs))), Tail(cs))
DoXenDiagnostics(s) ==
  /\ Step
  /\ \E nok \in 0 .. Len(Chunks(s)) :
       LET cs == SubSeq(Chunks(s), 1, nok) IN
       /\ SetOut(DiagLoop(OutRec, cs))
       /\ expected' = expected \o Expand(FlattenSeq(cs))
  /\ UNCHANGED <<in, kern>>

(* xencons_ocancel: pending output is dropped (and no longer expected).    *)
XenconsOcancel ==
  /\ ocount' = 0 /\ otail' = ohead
  /\ expected' = SubSeq(expected, 1, Len(expected) - ocount)
  /\ UNCHANGED <<obuf, ohead, sent, in, kern, ops>>

-----------------------------------------------------------------------------
(* Input: the part of the state xencons_interrupt changes, as a record.    *)
InRec == [ibuf |-> ibuf, ihead |-> ihead, icount |-> icount, tty_events |-> tty_events,
          fkey_events |-> fkey_events, typed |-> typed]

(* The loop of xencons_interrupt over the events xen_func_key makes of the *)
(* message: a byte is stored at ihead with no room check, a trapped key    *)
(* counts an event for its observer (whose notify is left out).           *)
RECURSIVE StoreIn(_, _)
StoreIn(r, evs) ==
  IF evs = <<>> THEN r
  ELSE LET e == Head(evs) IN
       StoreIn(IF "byte" \in DOMAIN e
               THEN [r EXCEPT !.ibuf = [@ EXCEPT ![r.ihead] = e.byte],
                              !.ihead = Wrap(@ + 1),
                              !.icount = @ + 1,
                              !.tty_events = IF r.icount + 1 > 0 THEN 1 ELSE @,
                              !.typed = @ \o <<e.byte>>]
               ELSE [r EXCEPT !.fkey_events[e.key] = @ + 1],
               Tail(evs))

(* xencons_interrupt: CTRLIF hands the TTY a console message m with its   *)
(* subtype.  It is discarded if the input buffer is full or the subtype is *)
(* not CMSG_CONSOLE_DATA.                                                  *)
XenconsInterrupt(m, subtype) ==
  /\ Step
  /\ IF icount >= B \/ subtype # "data"
     THEN UNCHANGED in
     ELSE LET r == StoreIn(InRec, FK!Interpret(m, 0)) IN
          /\ ibuf' = r.ibuf /\ ihead' = r.ihead /\ icount' = r.icount
          /\ tty_events' = r.tty_events /\ fkey_events' = r.fkey_events /\ typed' = r.typed
          /\ UNCHANGED <<itail, consumed>>
  /\ UNCHANGED <<out, expected, kern>>

(* Mutant: itail is not advanced past the bytes in_process took.          *)
XenconsReadNoAdvance ==
  /\ \E n \in 0 .. icount :
       /\ consumed' = consumed \o RingGet(ibuf, itail, n)
       /\ icount' = icount - n
       /\ itail' = itail
  /\ UNCHANGED <<ibuf, ihead, tty_events, fkey_events, typed, out, expected, kern, ops>>

(* xencons_read (try = 0): in_process takes n of the icount bytes from     *)
(* itail (the TTY's own input queue may take fewer than offered).          *)
XenconsRead ==
  /\ \E n \in 0 .. icount :
       /\ consumed' = consumed \o RingGet(ibuf, itail, n)
       /\ icount' = icount - n
       /\ itail' = Wrap(itail + n)
  /\ UNCHANGED <<ibuf, ihead, tty_events, fkey_events, typed, out, expected, kern, ops>>

(* xencons_icancel: waiting input is dropped (counted as consumed).        *)
XenconsIcancel ==
  /\ icount' = 0 /\ itail' = ihead
  /\ consumed' = consumed \o RingGet(ibuf, itail, icount)
  /\ UNCHANGED <<ibuf, ihead, tty_events, fkey_events, typed, out, expected, kern, ops>>

-----------------------------------------------------------------------------
(* The kernel's kputc into its message ring (the environment).  The kernel *)
(* prints fewer than KMESS_BUF_SIZE bytes between two do_xen_kmess calls,  *)
(* the condition under which do_xen_kmess's comment says it works.        *)
KernelPrint(c) ==
  /\ Step
  /\ Len(kprinted) - Len(kshown) < KMESS_BUF_SIZE - 1
  /\ kmess' = [kmess EXCEPT !.km_buf[kmess.km_next] = c,
                            !.km_size = IF @ < KMESS_BUF_SIZE THEN @ + 1 ELSE @,
                            !.km_next = (@ + 1) % KMESS_BUF_SIZE]
  /\ kprinted' = kprinted \o <<c>>
  /\ UNCHANGED <<out, in, expected, prev_next, kshown>>

(* do_xen_kmess: print the bytes from the previous next up to km_next,     *)
(* flush, and remember km_next.                                            *)
NewKmess(k, p) ==
  LET bytes == ((k.km_next + KMESS_BUF_SIZE) - p) % KMESS_BUF_SIZE
  IN [j \in 1 .. bytes |-> k.km_buf[(p + j - 1) % KMESS_BUF_SIZE]]
(* Mutant: prev_next is not stored.                                       *)
DoXenKmessNoUpdate ==
  /\ LET new == IF kmess.km_size > 0 THEN NewKmess(kmess, prev_next) ELSE <<>> IN
     /\ IF kmess.km_size > 0 THEN SetOut(Flush(PutkAll(OutRec, new))) ELSE UNCHANGED out
     /\ expected' = expected \o Expand(new)
     /\ kshown' = kshown \o new
  /\ prev_next' = prev_next
  /\ UNCHANGED <<in, kmess, kprinted, ops>>

DoXenKmess ==
  /\ LET new == IF kmess.km_size > 0 THEN NewKmess(kmess, prev_next) ELSE <<>> IN
     /\ IF kmess.km_size > 0 THEN SetOut(Flush(PutkAll(OutRec, new))) ELSE UNCHANGED out
     /\ expected' = expected \o Expand(new)
     /\ kshown' = kshown \o new
  /\ prev_next' = kmess.km_next
  /\ UNCHANGED <<in, kmess, kprinted, ops>>

Next ==
  \/ \E w \in Writes : XenconsWrite(w)
  \/ \E c \in OutBytes : XenconsEcho(c) \/ KernelPrint(c)
  \/ \E s \in Prints : Kputc(s) \/ DoXenDiagnostics(s)
  \/ XenconsOcancel
  \/ \E m \in InMsgs, subtype \in {"data", "other"} : XenconsInterrupt(m, subtype)
  \/ XenconsRead
  \/ XenconsIcancel
  \/ DoXenKmess

Spec == Init /\ [][Next]_vars

-----------------------------------------------------------------------------
TypeOK ==
  /\ obuf \in [0 .. B - 1 -> 0 .. 255] /\ ibuf \in [0 .. B - 1 -> 0 .. 255]
  /\ {ohead, otail, ihead, itail} \subseteq 0 .. B - 1
  /\ ocount \in 0 .. B /\ icount \in 0 .. B
  /\ prev_next \in 0 .. KMESS_BUF_SIZE - 1
  /\ ops \in 0 .. MaxOps

(* s is t with some elements removed: a greedy left-to-right match of s   *)
(* against t reaches the end of s.                                        *)
IsSubsequence(s, t) ==
  LET matched[k \in 0 .. Len(t)] ==
        IF k = 0 THEN 0
        ELSE LET j == matched[k - 1] IN
             IF j < Len(s) /\ s[j + 1] = t[k] THEN j + 1 ELSE j
  IN matched[Len(t)] = Len(s)

(* What the controller has received, followed by what obuf still holds,    *)
(* is what the hooks were given (after ONLCR), in order, with nothing      *)
(* repeated or invented: flushes never cross bufend wrongly, and putk and  *)
(* write never overwrite bytes that have not been sent.                    *)
OutputOrdered == IsSubsequence(sent \o RingGet(obuf, otail, ocount), expected)

(* The bytes stored as input are the bytes read or cancelled followed by   *)
(* those still in ibuf, in order, and ibuf never holds more than its size: *)
(* xencons_interrupt never overwrites unread input.                        *)
InputIntact == consumed \o RingGet(ibuf, itail, icount) = typed /\ icount <= B

(* do_xen_kmess hands every kernel byte to putk once and in order: what    *)
(* it has shown is a prefix of what the kernel printed, all of it once     *)
(* prev_next has caught up with km_next.                                   *)
KmessShownOnce ==
  /\ IsPrefix(kshown, kprinted)
  /\ prev_next = kmess.km_next => kshown = kprinted
=============================================================================
