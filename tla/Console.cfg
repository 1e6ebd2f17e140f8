CONSTANTS
    Width = 2
    Height = 2
    Glyphs = {"x"}
    Bits = 4
    MaxOutput = 6
    EscapeSequences <- MCSequences
    MaxU32 = 300
    Printable = {"0", "1", "2", "3", "4", "5", "6", "7", "8", "9", ";", "[", "A", "D", "G", "H", "J", "a", "b", "m", "x", "~"}
    Writers = {w1, w2}
    ChunkSize = 4
    OutCapacity = 2
    RenderInterval = 2
    MaxTicks = 3
    MaxStrings = 2
    RawCapacity = 2
    InCapacity = 2
    MaxKeystrokes = 3
SPECIFICATION MCSpec
\* The output, the ticks and the keystrokes are bounded, and an overflow ends the kernel.
CHECK_DEADLOCK FALSE
INVARIANTS NoStaleGlyph OutputExact TypedIsEdited
