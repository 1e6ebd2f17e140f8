----------------------------- MODULE AnsiDecoder -----------------------------
(***************************************************************************)
(* console/ansi.rs: the decoder of escape sequences, one character at a    *)
(* time, and what the characters received so far stand for. A character is *)
(* a string; an Option<u32> is << >> or <<n>>.                             *)
(***************************************************************************)
EXTENDS Integers, Sequences, FiniteSets, SequencesExt, FiniteSetsExt

CONSTANTS MaxU32,    \* the largest u32
          Printable  \* the characters ' '..='~' in use

Digit == [c \in {"0", "1", "2", "3", "4", "5", "6", "7", "8", "9"} |->
            CHOOSE d \in 0..9 : ToString(d) = c]
IsDigit(c) == c \in DOMAIN Digit
Or(n, default) == IF n = <<>> THEN default ELSE n[1]

Err == [op |-> "Err"]
Named(i, variation) ==
    [color |-> "named", variation |-> variation,
     name |-> <<"black", "red", "green", "yellow", "blue", "magenta", "cyan", "white">>[i + 1]]
Default == [color |-> "default"]

\* Color::from_256; not a colour above 255.
From256(n) ==
    CASE n \in 0..7 -> Named(n, "Dimmer")
      [] n \in 8..15 -> Named(n - 8, "ForceBrighter")
      [] n \in 16..231 -> [color |-> "rgb", n |-> n - 16]
      [] n \in 232..255 -> [color |-> "gray", n |-> n - 232]
      [] OTHER -> Err

\* Sgr::from_param
Style(n) == <<"", "", "Italic", "Underline", "Blinking", "", "Inverse", "Hidden", "Strikethrough">>[n]
FromParam(n) ==
    CASE n = 0 -> [op |-> "Reset"]
      [] n = 1 -> [op |-> "Bold"]
      [] n = 2 -> [op |-> "Faint"]
      [] n = 22 -> [op |-> "ResetBoldFaint"]
      [] n \in (3..9) \ {6} -> [op |-> Style(n), on |-> TRUE]
      [] n \in (23..29) \ {26} -> [op |-> Style(n - 20), on |-> FALSE]
      [] n \in 30..37 -> [op |-> "Fg", to |-> Named(n - 30, "Dimmer")]
      [] n \in 40..47 -> [op |-> "Bg", to |-> Named(n - 40, "ForceDimmer")]
      [] n \in 90..97 -> [op |-> "Fg", to |-> Named(n - 90, "ForceBrighter")]
      [] n \in 100..107 -> [op |-> "Bg", to |-> Named(n - 100, "ForceBrighter")]
      [] n = 39 -> [op |-> "Fg", to |-> Default]
      [] n = 49 -> [op |-> "Bg", to |-> Default]
      [] OTHER -> Err

\* EscapeSequence::from_sgr_params: Sgr, Sgr2 and Sgr3 are one to three sgrs.
Sgrs(s) == IF Err \in Range(s) THEN Err ELSE [op |-> "Sgr", sgrs |-> s]
FromSgrParams(n, m, l) ==
    CASE n \in {38, 48} /\ m = <<5>> /\ l # <<>> ->
            IF From256(l[1]) = Err THEN Err
            ELSE Sgrs(<<[op |-> IF n = 38 THEN "Fg" ELSE "Bg", to |-> From256(l[1])]>>)
      [] OTHER -> IF m = <<>> /\ l # <<>> THEN Err
                  ELSE Sgrs(<<FromParam(n)>> \o [i \in DOMAIN m |-> FromParam(m[i])]
                                             \o [i \in DOMAIN l |-> FromParam(l[i])])

\* EscapeSequence::from_csi
Motions == [A |-> "CursorUp", B |-> "CursorDown", C |-> "CursorForward", D |-> "CursorBack",
            E |-> "CursorNextLine", F |-> "CursorPreviousLine", G |-> "CursorHorizontalAbsolute"]
Positions == [H |-> "CursorPosition", f |-> "HorizontalVerticalPosition"]
Erasures == [J |-> "EraseInDisplay", K |-> "EraseInLine"]
Keys == <<"Home", "Insert", "Delete", "End", "PgUp", "PgDn", "Home", "End">>
FromCsi(n, m, l, c) ==
    CASE c \in DOMAIN Motions -> [op |-> Motions[c], n |-> Or(n, 1)]
      [] c \in DOMAIN Positions -> [op |-> Positions[c], n |-> Or(n, 1), m |-> Or(m, 1)]
      [] c \in DOMAIN Erasures -> [op |-> Erasures[c], n |-> Or(n, 0)]
      [] c = "m" -> FromSgrParams(Or(n, 0), m, l)
      [] c = "~" /\ Or(n, 0) \in DOMAIN Keys -> [op |-> Keys[n[1]]]
      [] OTHER -> Err

\* State: Csi, Csi2 and Csi3 are "Csi" with one to three parameters. A parameter that
\* overflows panics.
State(k, params) == [k |-> k, params |-> params]
InitState == State("Init", <<>>)
Panicked == State("Panicked", <<>>)
Just(c) == [op |-> "Just", c |-> c]
IsPlain(c) == c \in Printable \cup {"bs", "ht", "lf", "del"}

Continue(st) == [st |-> st, out |-> <<>>]
Complete(result) == [st |-> InitState, out |-> <<result>>]
FromInit(c) ==
    IF c = "esc" THEN Continue(State("Esc", <<>>))
    ELSE IF IsPlain(c) THEN Complete(Just(c)) ELSE Continue(InitState)

\* The third parameter is overwritten by a fourth.
NextParam(params) == IF Len(params) < 3 THEN Append(params, <<>>) ELSE [params EXCEPT ![3] = <<>>]
WithDigit(params, d) ==
    LET n == 10 * Or(Last(params), 0) + d
    IN IF n > MaxU32 THEN Panicked ELSE State("Csi", [params EXCEPT ![Len(params)] = <<n>>])
ParamAt(params, i) == IF i \in DOMAIN params THEN params[i] ELSE <<>>

\* Decoder::add_char; incomplete is what incomplete_state makes of the character that
\* does not go on with the sequence.
AddCharWith(incomplete, st, c) ==
    CASE st.k = "Panicked" -> Continue(st)
      [] st.k = "Init" -> FromInit(c)
      [] st.k = "Esc" -> IF c = "[" THEN Continue(State("Csi", <<<<>>>>)) ELSE incomplete
      [] st.k = "Csi" /\ IsDigit(c) -> Continue(WithDigit(st.params, Digit[c]))
      [] st.k = "Csi" /\ c = ";" -> Continue(State("Csi", NextParam(st.params)))
      [] OTHER -> LET es == FromCsi(ParamAt(st.params, 1), ParamAt(st.params, 2), ParamAt(st.params, 3), c)
                  IN IF es = Err THEN incomplete ELSE Complete(es)

\* Mutant: the character that ends a malformed sequence is swallowed with it.
AddCharSwallowing(st, c) == AddCharWith(Continue(InitState), st, c)

AddChar(st, c) == AddCharWith(FromInit(c), st, c)
-----------------------------------------------------------------------------
\* The meaning of the characters s, without a state: every ESC starts a sequence afresh,
\* which covers the characters up to the first that does not go on with it.
Digits(s) == MapThenSumSet(LAMBDA i : Digit[s[i]] * 10^(Len(s) - i), DOMAIN s)
Field(body, p) ==
    LET next == {i \in (p + 1)..Len(body) : body[i] = ";"} \cup {Len(body) + 1}
        digits == SubSeq(body, p + 1, Min(next) - 1)
    IN IF digits = <<>> THEN <<>> ELSE <<Digits(digits)>>
Meaning(body, c) ==
    LET cuts == {i \in DOMAIN body : body[i] = ";"}
    IN FromCsi(Field(body, 0),
               IF cuts = {} THEN <<>> ELSE Field(body, Min(cuts)),
               IF Cardinality(cuts) < 2 THEN <<>> ELSE Field(body, Max(cuts)), c)

\* What the k-th character produces: nothing, itself, or the sequence it ends.
Produced(s, k) ==
    LET c == s[k]
        escs == {j \in 1..(k - 1) : s[j] = "esc"}
        plain == IF IsPlain(c) THEN <<Just(c)>> ELSE <<>>
    IN IF escs = {} THEN plain
       ELSE LET body == SubSeq(s, Max(escs) + 2, k - 1)
                csi == s[Max(escs) + 1] = "["
                open == \A i \in DOMAIN body : IsDigit(body[i]) \/ body[i] = ";"
            IN CASE k = Max(escs) + 1 -> IF csi THEN <<>> ELSE plain
                 [] csi /\ open /\ (IsDigit(c) \/ c = ";") -> <<>>
                 [] csi /\ open /\ Meaning(body, c) # Err -> <<Meaning(body, c)>>
                 [] OTHER -> plain
Expected(s) == FlattenSeq([k \in DOMAIN s |-> Produced(s, k)])

\* Some number in s is too large for a parameter.
TooLarge(s) ==
    \E i, j \in DOMAIN s : /\ i <= j /\ \A k \in i..j : IsDigit(s[k])
                           /\ Digits(SubSeq(s, i, j)) > MaxU32
=============================================================================
