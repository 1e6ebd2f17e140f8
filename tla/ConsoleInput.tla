---------------------------- MODULE ConsoleInput -----------------------------
(***************************************************************************)
(* The input half of console.rs with console/kbd.rs and the line editor of *)
(* shell.rs: interrupt handlers put bytes into RAW_IN, the task            *)
(* handle_raw_input decodes them into IN, the shell edits its command line *)
(* with them. Both queues are Channels, as SyncQueue implements them, and  *)
(* both drop what does not fit.                                            *)
(***************************************************************************)
EXTENDS AnsiDecoder

CONSTANTS Keystrokes,     \* the raw inputs of a key or of a burst of serial bytes
          RawCapacity,    \* of RAW_IN
          Capacity,       \* of IN, here INPUT
          MaxKeystrokes   \* bound: keystrokes

VARIABLES wire,  \* the raw inputs that have not interrupted yet, of each port
          RAW_IN, INPUT,
          com1, ctrl,         \* the decoders: com1_decoder, and the set of lctrl and rctrl
          commandBuf, cursor, \* of the shell; the cursor counts from 0
          handled, consumed, lost, count \* history
vars == <<wire, RAW_IN, INPUT, com1, ctrl, commandBuf, cursor, handled, consumed, lost, count>>

Ports == {"com1", "kbd"}
Char(c) == [op |-> "Char", c |-> c]
Init ==
    /\ wire = [port \in Ports |-> <<>>] /\ RAW_IN = <<>> /\ INPUT = <<>> /\ com1 = InitState /\ ctrl = {}
    /\ commandBuf = <<>> /\ cursor = 0
    /\ handled = <<>> /\ consumed = <<>> /\ lost = FALSE /\ count = 0

\* A key is pressed, or bytes arrive at the serial port.
Stroke(k) ==
    /\ wire[k[1].port] = <<>> /\ count < MaxKeystrokes
    /\ wire' = [wire EXCEPT ![k[1].port] = k] /\ count' = count + 1
    /\ UNCHANGED <<RAW_IN, INPUT, com1, ctrl, commandBuf, cursor, handled, consumed, lost>>

\* accept_raw_input, from an interrupt handler: a full queue drops the byte.
AcceptRawInput(port) ==
    /\ wire[port] # <<>>
    /\ wire' = [wire EXCEPT ![port] = Tail(@)]
    /\ RAW_IN' = IF Len(RAW_IN) < RawCapacity THEN Append(RAW_IN, Head(wire[port])) ELSE RAW_IN
    /\ lost' = (lost \/ Len(RAW_IN) = RawCapacity)
    /\ UNCHANGED <<INPUT, com1, ctrl, commandBuf, cursor, handled, consumed, count>>

\* kbd::Decoder::add; pc_keyboard has made an event of the byte: the key code, whether
\* it went down, and what it stands for (nothing, a raw key or a character).
RawKeys == {"Insert", "Home", "End", "PageUp", "PageDown", "ArrowUp", "ArrowDown", "ArrowLeft", "ArrowRight"}
Kbd(held, e) ==
    LET now == IF e.code \in {"lctrl", "rctrl"}
               THEN IF e.down THEN held \cup {e.code} ELSE held \ {e.code}
               ELSE held
        input == CASE e.key \in RawKeys -> <<[op |-> e.key]>>
                   [] IsPlain(e.key) -> <<[op |-> IF now = {} THEN "Char" ELSE "Ctrl", c |-> e.key]>>
                   [] OTHER -> <<>>
    IN [ctrl |-> now, input |-> input]

\* TryFrom<DecodeResult> for Input
ToInput(r) ==
    CASE r.op = "Just" -> <<Char(r.c)>>
      [] r.op = "CursorUp" /\ r.n = 1 -> <<[op |-> "ArrowUp"]>>
      [] r.op = "CursorDown" /\ r.n = 1 -> <<[op |-> "ArrowDown"]>>
      [] r.op = "CursorForward" /\ r.n = 1 -> <<[op |-> "ArrowRight"]>>
      [] r.op = "CursorBack" /\ r.n = 1 -> <<[op |-> "ArrowLeft"]>>
      [] r.op = "CursorPreviousLine" /\ r.n = 1 -> <<[op |-> "End"]>>
      [] r.op = "CursorPosition" /\ r.n = 1 /\ r.m = 1 -> <<[op |-> "Home"]>>
      [] r.op = "Delete" -> <<Char("del")>>
      [] r.op = "PgUp" -> <<[op |-> "PageUp"]>>
      [] r.op = "PgDn" -> <<[op |-> "PageDown"]>>
      [] r.op \in {"Home", "Insert", "End"} -> <<[op |-> r.op]>>
      [] OTHER -> <<>>
Inputs(results) == FlattenSeq([i \in DOMAIN results |-> ToInput(results[i])])

\* One turn of handle_raw_input: DEL and CR do not go through the decoder, and bytes
\* above 0x7e are not handled.
IsDecoded(b) == b.port = "com1" /\ b.c \notin {"del", "cr", "high"}
HandleRawInput ==
    /\ RAW_IN # <<>> /\ com1 # Panicked
    /\ LET b == Head(RAW_IN)
           input == CASE b.port = "kbd" -> Kbd(ctrl, b).input
                      [] b.c = "del" -> <<Char("bs")>>
                      [] b.c = "cr" -> <<Char("lf")>>
                      [] IsDecoded(b) -> Inputs(AddChar(com1, b.c).out)
                      [] OTHER -> <<>>
       IN /\ RAW_IN' = Tail(RAW_IN)
          /\ ctrl' = IF b.port = "kbd" THEN Kbd(ctrl, b).ctrl ELSE ctrl
          /\ com1' = IF IsDecoded(b) THEN AddChar(com1, b.c).st ELSE com1
          /\ INPUT' = IF Len(INPUT) < Capacity THEN INPUT \o input ELSE INPUT
          /\ lost' = (lost \/ (input # <<>> /\ Len(INPUT) = Capacity))
          /\ handled' = Append(handled, b)
    /\ UNCHANGED <<wire, commandBuf, cursor, consumed, count>>

\* The match of the shell's loop on an input: the command line and the cursor after it.
EditWith(last, i) ==
    LET at == cursor
        Cut(n) == SubSeq(commandBuf, 1, n) \o SubSeq(commandBuf, n + 2, Len(commandBuf))
        Line(s, n) == commandBuf' = s /\ cursor' = n
    IN CASE i = Char("lf") -> Line(<<>>, 0)
         [] i = Char("bs") /\ 0 < at -> Line(Cut(at - 1), at - 1)
         [] i = Char("del") /\ at < Len(commandBuf) -> Line(Cut(at), at)
         [] i.op = "Char" /\ i.c \in Printable ->
                Line(SubSeq(commandBuf, 1, at) \o <<i.c>> \o SubSeq(commandBuf, at + 1, Len(commandBuf)), at + 1)
         [] i.op = "Home" -> Line(commandBuf, 0)
         [] i.op = "End" -> Line(commandBuf, Len(commandBuf))
         [] i.op = "ArrowLeft" /\ 0 < at -> Line(commandBuf, at - 1)
         [] i.op = "ArrowRight" /\ at < last -> Line(commandBuf, at + 1)
         [] OTHER -> Line(commandBuf, at)

\* Mutant: the cursor may step past the end of the line.
EditPastEnd(i) == EditWith(Len(commandBuf) + 1, i)

Edit(i) == EditWith(Len(commandBuf), i)

\* A turn of the shell, the command of a finished line included.
ShellInput ==
    /\ INPUT # <<>>
    /\ INPUT' = Tail(INPUT) /\ Edit(Head(INPUT))
    /\ consumed' = Append(consumed, Head(INPUT))
    /\ UNCHANGED <<wire, RAW_IN, com1, ctrl, handled, lost, count>>

Next ==
    \/ \E k \in Keystrokes : Stroke(k)
    \/ \E port \in Ports : AcceptRawInput(port)
    \/ HandleRawInput \/ ShellInput
Spec == Init /\ [][Next]_vars
-----------------------------------------------------------------------------
\* What the bytes of h stand for: a byte of the serial port by all decoded bytes up to
\* it, a key by the control keys whose last event before it was a press.
Stands(h, k) ==
    LET b == h[k]
        Events(code) == {j \in 1..k : h[j].port = "kbd" /\ h[j].code = code}
        held == {code \in {"lctrl", "rctrl"} : Events(code) # {} /\ h[Max(Events(code))].down}
        serial == SelectSeq(SubSeq(h, 1, k), IsDecoded)
    IN CASE b.port = "kbd" -> Kbd(held, b).input
         [] b.c = "del" -> <<Char("bs")>>
         [] b.c = "cr" -> <<Char("lf")>>
         [] IsDecoded(b) -> Inputs(Produced([i \in DOMAIN serial |-> serial[i].c], Len(serial)))
         [] OTHER -> <<>>

\* The command line as the texts on the left and on the right of the cursor.
EditZipper(z, i) ==
    CASE i = Char("lf") -> [l |-> <<>>, r |-> <<>>]
      [] i = Char("bs") /\ z.l # <<>> -> [z EXCEPT !.l = Front(@)]
      [] i = Char("del") /\ z.r # <<>> -> [z EXCEPT !.r = Tail(@)]
      [] i.op = "Char" /\ i.c \in Printable -> [z EXCEPT !.l = Append(@, i.c)]
      [] i.op = "Home" -> [l |-> <<>>, r |-> z.l \o z.r]
      [] i.op = "End" -> [l |-> z.l \o z.r, r |-> <<>>]
      [] i.op = "ArrowLeft" /\ z.l # <<>> -> [l |-> Front(z.l), r |-> <<Last(z.l)>> \o z.r]
      [] i.op = "ArrowRight" /\ z.r # <<>> -> [l |-> Append(z.l, Head(z.r)), r |-> Tail(z.r)]
      [] OTHER -> z

\* What is typed is what the shell gets: unless a full queue dropped a byte or an input,
\* the inputs in IN and at the shell are what all the bytes handled so far stand for,
\* in order, whatever keys interleave with the bytes of an escape sequence. And the
\* shell's line and index are always those of an editor that keeps the text on both
\* sides of the cursor, so that no edit is out of bounds.
TypedIsEdited ==
    /\ lost \/ com1 = Panicked
       \/ consumed \o INPUT = FlattenSeq([k \in DOMAIN handled |-> Stands(handled, k)])
    /\ LET z == FoldLeft(EditZipper, [l |-> <<>>, r |-> <<>>], consumed)
       IN commandBuf = z.l \o z.r /\ cursor = Len(z.l)
=============================================================================
