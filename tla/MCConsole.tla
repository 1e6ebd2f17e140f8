------------------------------ MODULE MCConsole ------------------------------
(***************************************************************************)
(* The console for TLC: a behaviour is about one of its parts, the screen, *)
(* the output task, or the input from the interrupts to the shell's line.  *)
(* The parts share no variable.                                            *)
(***************************************************************************)
EXTENDS Terminal

CONSTANTS MaxU32, Printable
CONSTANTS Writers, ChunkSize, OutCapacity, RenderInterval, MaxTicks, MaxStrings
CONSTANTS RawCapacity, InCapacity, MaxKeystrokes

Red == [color |-> "named", name |-> "red", variation |-> "Dimmer"]
\* Every operation; Half and 2 * Half - 1 are the numbers that i32 cannot hold.
MCSequences ==
    {[op |-> op, n |-> n] : op \in {"CursorUp", "CursorBack"}, n \in {1, 8}} \cup
    {[op |-> op, n |-> n] : op \in {"CursorDown", "CursorForward"}, n \in {1, 7, 15}} \cup
    {[op |-> op, n |-> 1] : op \in {"CursorNextLine", "CursorPreviousLine"}} \cup
    {[op |-> "CursorHorizontalAbsolute", n |-> n] : n \in {0, 1, 15}} \cup
    {[op |-> "CursorPosition", n |-> 2, m |-> 2]} \cup
    {[op |-> op, n |-> n] : op \in {"EraseInDisplay", "EraseInLine"}, n \in 0..3} \cup
    {[op |-> "Home"], [op |-> "Sgr", sgrs |-> <<[op |-> "Bold"], [op |-> "Fg", to |-> Red]>>]} \cup
    {[op |-> "Sgr", sgrs |-> <<s>>] : s \in {[op |-> "Reset"], [op |-> "Bold"], [op |-> "Faint"],
                                             [op |-> "Fg", to |-> Red], [op |-> "Bg", to |-> Red]}}

MCByteLen(c) == IF c = "e-acute" THEN 2 ELSE 1
\* The escape sequences of the shell and more: cut short, malformed, with every kind of
\* parameter, and a number above MaxU32.
MCStrings ==
    {<<"esc", "[", "3", "0", ";", "4", "7", "m">>,
     <<"esc", "[", "3", "8", ";", "5", ";", "2", "5", "5", "m">>,
     <<"esc", "[", "4", "8", ";", "5", ";", "2", "5", "6", "m">>,
     <<"x", "e-acute", "esc", "[", "H">>,
     <<"esc", "[", "2", "J", "esc", "[", "G">>,
     <<"esc", "[", "9", ";", ";", "7", ";", "1", "m">>,
     <<"esc", "esc", "[", "2", "[", "x">>,
     <<"esc", "[">>,
     <<"1", "m">>,
     <<"esc", "[", "9", "9", "9", "A">>}
VARIABLES OutReady, OUT, rest, pc, t, next, deadline, ticks, decoder, shown, received, written, by, count
Output == INSTANCE ConsoleOutput WITH Capacity <- OutCapacity, Strings <- MCStrings, ByteLen <- MCByteLen

Serial(s) == [i \in DOMAIN s |-> [port |-> "com1", c |-> s[i]]]
Key(code, down, key) == <<[port |-> "kbd", code |-> code, down |-> down, key |-> key]>>
\* Characters and line editing keys of both ports, a control key, and bytes that
\* are not handled or leave a sequence open.
MCKeystrokes ==
    {Serial(<<"a">>), Serial(<<"a", "esc", "[", "D">>), Serial(<<"esc", "[", "3", "~">>), Serial(<<"del">>),
     Serial(<<"cr">>), Serial(<<"esc", "high">>),
     Key("lctrl", TRUE, "none"), Key("lctrl", FALSE, "none"), Key("b", TRUE, "b"),
     Key("right", TRUE, "ArrowRight"), Key("home", TRUE, "Home"), Key("end", TRUE, "End")}
VARIABLES wire, RAW_IN, INPUT, com1, ctrl, commandBuf, place, handled, consumed, lost, strokes
Line == INSTANCE ConsoleInput WITH Capacity <- InCapacity, Keystrokes <- MCKeystrokes, cursor <- place,
            count <- strokes
-----------------------------------------------------------------------------
VARIABLE part
Idle == "idle"
OfOutput ==
    <<OutReady, OUT, rest, pc, t, next, deadline, ticks, decoder, shown, received, written, by, count>>
OfLine == <<wire, RAW_IN, INPUT, com1, ctrl, commandBuf, place, handled, consumed, lost, strokes>>
NoOutput ==
    /\ OutReady = Idle /\ OUT = Idle /\ rest = Idle /\ pc = Idle /\ t = Idle /\ next = Idle
    /\ deadline = Idle /\ ticks = Idle /\ decoder = Idle /\ shown = Idle /\ received = Idle
    /\ written = Idle /\ by = Idle /\ count = Idle
NoLine ==
    /\ wire = Idle /\ RAW_IN = Idle /\ INPUT = Idle /\ com1 = Idle /\ ctrl = Idle /\ commandBuf = Idle
    /\ place = Idle /\ handled = Idle /\ consumed = Idle /\ lost = Idle /\ strokes = Idle

MCInit ==
    /\ InitScreen
    /\ \/ part = "screen" /\ NoOutput /\ NoLine
       \/ part = "output" /\ Output!Init /\ NoLine
       \/ part = "input" /\ Line!Init /\ NoOutput
MCNext ==
    \/ part = "screen" /\ NextScreen /\ UNCHANGED <<part, OfOutput, OfLine>>
    \/ part = "output" /\ Output!Next /\ UNCHANGED <<part, screen, OfLine>>
    \/ part = "input" /\ Line!Next /\ UNCHANGED <<part, screen, OfOutput>>
MCSpec == MCInit /\ [][MCNext]_<<part, screen, OfOutput, OfLine>>

\* However the strings are cut into chunks and the chunks interleave, nothing of a task's text is
\* lost, the screen is given what the characters stand for, and handle_output never waits for less than the time to its next render.
OutputExact == part = "output" => Output!OutputExact

\* Unless a full queue dropped something, the shell's line is what was typed and edited on both ports.
TypedIsEdited == part = "input" => Line!TypedIsEdited
=============================================================================
