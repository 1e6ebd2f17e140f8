------------------------------ MODULE Terminal -------------------------------
(***************************************************************************)
(* console/screen.rs on graphics/text_buffer.rs: decoded output moves a    *)
(* cursor over a grid of characters; a render, which comes between any two *)
(* characters, redraws only what the two levels of render_diff cover (the  *)
(* lines of the buffer, the characters of a line). Rows and columns count  *)
(* from 0, as in the code. A glyph is the character it shows.              *)
(***************************************************************************)
EXTENDS Integers, Sequences, FiniteSetsExt

CONSTANTS Width, Height, Glyphs,
          Bits, \* of the integers: u32 and i32 are 2^Bits values
          MaxOutput, \* bound: characters and escape sequences of the output
          EscapeSequences \* the escape sequences of the output: [op, n, m] and [op, sgrs], as AnsiDecoder makes them

\* 2^31 with 32 bits.
Half == 2^(Bits - 1)

\* The grid is not empty, and the parameters of an escape sequence are u32.
ASSUME TerminalAssumption ==
    /\ Width \in Nat \ {0} /\ Height \in Nat \ {0} /\ Half \in Nat
    /\ \A es \in EscapeSequences :
          /\ es.op \in {"CursorUp", "CursorDown", "CursorForward", "CursorBack", "CursorNextLine",
                        "CursorPreviousLine", "CursorHorizontalAbsolute"} => es.n \in Nat
          /\ es.op \in {"CursorPosition", "HorizontalVerticalPosition"} => es.n \in Nat /\ es.m \in Nat

VARIABLES lines,   \* VecDeque<Line>: [chars, buf, diff], buf being the line's rendered glyphs
          diff,    \* lines to be drawn on the frame buffer, << >> or <<first, end>>
          cursor,  \* <<x, y>>; x = Width after the last column was written
          fb,      \* what the frame buffer shows
          pen,     \* fg, bg and font_style of Screen
          halted,  \* an arithmetic overflow has stopped the kernel
          fed      \* characters and escape sequences so far
screen == <<lines, diff, cursor, fb, pen, halted, fed>>

Newline == "newline"
Cols == 0..(Width - 1)
Rows == 0..(Height - 1)
Clamp(n, last) == IF n < 0 THEN 0 ELSE IF n > last THEN last ELSE n

Glyph(c, p) == [c |-> c, fg |-> p.fg, bg |-> p.bg, bold |-> p.bold]
Void == [c |-> "void", fg |-> [color |-> "white"], bg |-> [color |-> "black"], bold |-> FALSE]

\* extend_render_diff
Extend(d, first, end) ==
    IF d = <<>> THEN <<first, end>> ELSE <<Min({d[1], first}), Max({d[2], end})>>
In(i, d) == d # <<>> /\ d[1] <= i /\ i < d[2]

\* Line::put and Line::erase: the new characters, and which of them differ.
Update(l, new) ==
    LET changed == {j \in Cols : new[j] # l.chars[j]}
    IN [l EXCEPT !.chars = new,
                 !.diff = IF changed = {} THEN l.diff ELSE Extend(l.diff, Min(changed), Max(changed) + 1)]
EraseLine(l, bg, S) ==
    Update(l, [j \in Cols |-> IF j \in S THEN [l.chars[j] EXCEPT !.c = "space", !.bg = bg] ELSE l.chars[j]])

\* MonospaceTextBuffer::erase
Erase(beforeLines, beforeChars, afterChars, afterLines) ==
    LET x == cursor[1]
        y == cursor[2]
        Part(i) == IF i < y THEN (IF beforeLines THEN Cols ELSE {})
                   ELSE IF i > y THEN (IF afterLines THEN Cols ELSE {})
                   ELSE (IF beforeChars THEN 0 ELSE x)..(IF afterChars THEN Width ELSE x)
        new == [i \in Rows |-> EraseLine(lines[i], pen.bg, Part(i))]
        changed == {i \in Rows : new[i].chars # lines[i].chars}
    IN /\ lines' = new
       /\ diff' = IF changed = {} THEN diff ELSE Extend(diff, Min(changed), Max(changed) + 1)

\* MonospaceTextBuffer::next_line; `marked` is the new render_diff when the lines move up.
NextLineMarking(marked) ==
    IF cursor[2] + 1 >= Height
    THEN [lines |-> [i \in Rows |-> IF i = Height - 1 THEN EraseLine(lines[0], pen.bg, Cols) ELSE lines[i + 1]],
          diff |-> marked, cursor |-> <<0, Height - 1>>]
    ELSE [lines |-> lines, diff |-> diff, cursor |-> <<0, cursor[2] + 1>>]

\* Mutant: only the line that came in is drawn again.
NextLineLast == NextLineMarking(<<Height - 1, Height>>)

NextLine == NextLineMarking(<<0, Height>>)

\* MonospaceTextBuffer::put, without the line feed, at a cursor inside the line.
PutAt(t, c) ==
    LET x == t.cursor[1]
        y == t.cursor[2]
        new == Update(t.lines[y], [t.lines[y].chars EXCEPT ![x] = Glyph(c, pen)])
    IN /\ lines' = [t.lines EXCEPT ![y] = new]
       /\ diff' = IF new.chars # t.lines[y].chars THEN Extend(t.diff, y, y + 1) ELSE t.diff
       /\ cursor' = <<x + 1, y>>

InitScreen ==
    /\ lines = [i \in Rows |-> [chars |-> [j \in Cols |-> Void], buf |-> [j \in Cols |-> Void], diff |-> <<>>]]
    /\ diff = <<>> /\ cursor = <<0, 0>>
    /\ fb = [i \in Rows |-> [j \in Cols |-> [Void EXCEPT !.c = "firmware"]]]
    /\ pen = [fg |-> [color |-> "default"], bg |-> [color |-> "default"], bold |-> FALSE]
    /\ halted = FALSE /\ fed = 0

Feeds == ~halted /\ fed < MaxOutput /\ fed' = fed + 1

PutChar(c) ==
    /\ Feeds
    /\ IF c = Newline THEN lines' = NextLine.lines /\ diff' = NextLine.diff /\ cursor' = NextLine.cursor
       ELSE PutAt(IF cursor[1] < Width THEN [lines |-> lines, diff |-> diff, cursor |-> cursor] ELSE NextLine, c)
    /\ UNCHANGED <<fb, pen, halted>>

\* `n as i32`, and the outcome of a checked operation on i32: out of range, it panics.
AsI32(n) == IF n >= Half THEN n - 2 * Half ELSE n
Fits(k) == -Half <= k /\ k < Half

\* move_cursor by the signed numbers dx and dy.
MoveCursor(dx, dy) ==
    IF Fits(dx) /\ Fits(dy) /\ Fits(cursor[1] + dx) /\ Fits(cursor[2] + dy)
    THEN /\ cursor' = <<Clamp(cursor[1] + dx, Width - 1), Clamp(cursor[2] + dy, Height - 1)>>
         /\ UNCHANGED <<lines, diff, pen, halted>>
    ELSE halted' = TRUE /\ UNCHANGED <<lines, diff, cursor, pen>>

\* set_cursor to one-based coordinates; `n - 1` of zero panics.
SetCursor(x, y) ==
    IF x > 0 /\ y > 0
    THEN cursor' = <<Clamp(x - 1, Width - 1), Clamp(y - 1, Height - 1)>> /\ UNCHANGED <<lines, diff, pen, halted>>
    ELSE halted' = TRUE /\ UNCHANGED <<lines, diff, cursor, pen>>

\* Color::brighter and dimmer
Shade(color, from, to) ==
    IF color.color = "named" /\ color.variation = from THEN [color EXCEPT !.variation = to] ELSE color
Brighter(color) == Shade(color, "Dimmer", "Brighter")
Dimmer(color) == Shade(color, "Brighter", "Dimmer")

\* Screen::handle_sgr
Sgr(p, s) ==
    CASE s.op = "Reset" -> [fg |-> [color |-> "default"], bg |-> [color |-> "default"], bold |-> FALSE]
      [] s.op = "Bold" -> [p EXCEPT !.bold = TRUE, !.fg = Brighter(p.fg)]
      [] s.op \in {"Faint", "ResetBoldFaint"} -> [p EXCEPT !.bold = FALSE, !.fg = Dimmer(p.fg)]
      [] s.op = "Fg" -> [p EXCEPT !.fg = IF p.bold THEN Brighter(s.to) ELSE Dimmer(s.to)]
      [] s.op = "Bg" -> [p EXCEPT !.bg = s.to]
      [] OTHER -> p
SgrAll(p, sgrs) ==
    LET after[k \in 0..Len(sgrs)] == IF k = 0 THEN p ELSE Sgr(after[k - 1], sgrs[k])
    IN after[Len(sgrs)]

\* The three erasures of a display and of a line; other numbers do nothing.
EraseBy(op, n) ==
    /\ IF n > 2 THEN UNCHANGED <<lines, diff>>
       ELSE Erase(op = "EraseInDisplay" /\ n > 0, n > 0, n # 1, op = "EraseInDisplay" /\ n # 1)
    /\ UNCHANGED <<cursor, pen, halted>>

\* Screen::handle_escape_sequence
HandleEscapeSequence(es) ==
    /\ Feeds
    /\ CASE es.op = "CursorUp" -> MoveCursor(0, -AsI32(es.n))
         [] es.op = "CursorDown" -> MoveCursor(0, AsI32(es.n))
         [] es.op = "CursorForward" -> MoveCursor(AsI32(es.n), 0)
         [] es.op = "CursorBack" -> MoveCursor(-AsI32(es.n), 0)
         [] es.op = "CursorNextLine" -> MoveCursor(-Half, AsI32(es.n))
         [] es.op = "CursorPreviousLine" -> MoveCursor(-Half, -AsI32(es.n))
         [] es.op = "CursorHorizontalAbsolute" -> SetCursor(es.n, cursor[2] + 1)
         [] es.op \in {"CursorPosition", "HorizontalVerticalPosition"} -> SetCursor(es.m, es.n)
         [] es.op \in {"EraseInDisplay", "EraseInLine"} -> EraseBy(es.op, es.n)
         [] es.op = "Sgr" -> pen' = SgrAll(pen, es.sgrs) /\ UNCHANGED <<lines, diff, cursor, halted>>
         [] OTHER -> UNCHANGED <<lines, diff, cursor, pen, halted>>
    /\ UNCHANGED fb

\* Line::render and MonospaceTextBuffer::render
Drawn(l) == [l EXCEPT !.buf = [j \in Cols |-> IF In(j, l.diff) THEN l.chars[j] ELSE l.buf[j]], !.diff = <<>>]
Render ==
    /\ ~halted /\ diff # <<>>
    /\ lines' = [i \in Rows |-> IF In(i, diff) THEN Drawn(lines[i]) ELSE lines[i]]
    /\ fb' = [i \in Rows |-> IF In(i, diff) THEN lines'[i].buf ELSE fb[i]]
    /\ diff' = <<>>
    /\ UNCHANGED <<cursor, pen, halted, fed>>

NextScreen ==
    \/ \E c \in Glyphs \cup {Newline} : PutChar(c)
    \/ \E es \in EscapeSequences : HandleEscapeSequence(es)
    \/ Render

SpecScreen == InitScreen /\ [][NextScreen]_screen
-----------------------------------------------------------------------------
\* Nothing is left stale on the screen: a position of the frame buffer that does not show
\* its character, once it was written or erased, is in the render_diff of the text
\* buffer, and its line either has the right glyph in its own buffer or the column in
\* its own render_diff; so the next render shows every character, however writes, erasures, scrolls and renders
\* interleave. The cursor stays on the grid, past the last column at most.
NoStaleGlyph ==
    /\ cursor[1] \in 0..Width /\ cursor[2] \in Rows
    /\ \A i \in Rows, j \in Cols :
          LET g == lines[i].chars[j]
          IN /\ fb[i][j] = g \/ g = Void \/ In(i, diff)
             /\ lines[i].buf[j] = g \/ In(j, lines[i].diff)

\* The lines and the two levels of render_diff keep their shape.
Marks == {<<>>} \cup (Nat \X Nat)
IsLine(l) ==
    /\ l = [chars |-> l.chars, buf |-> l.buf, diff |-> l.diff]
    /\ l.chars = [j \in Cols |-> l.chars[j]] /\ l.diff \in Marks
ScreenTypes ==
    /\ lines = [i \in Rows |-> lines[i]] /\ \A i \in Rows : IsLine(lines[i])
    /\ diff \in Marks

ScreenInv == ScreenTypes /\ NoStaleGlyph
=============================================================================
