---------------------------- MODULE DirEntryNames ----------------------------
(***************************************************************************)
(* fs/fat/dir_entry.rs and DirIter::next: how a file name becomes a        *)
(* sequence of 32-byte directory entries and is found again by the         *)
(* iterator over them. A name is typed run by run, its entries are written *)
(* behind whatever the directory holds, and the iterator reads slot by     *)
(* slot. Characters are their codes (one UTF-16 unit each); the sizes are  *)
(* those of the format.                                                    *)
(***************************************************************************)
EXTENDS Integers, Sequences, SequencesExt

CONSTANTS Chars, Runs, MaxRuns, \* names are at most MaxRuns runs of one character
          Stems,                \* what a name starts from
          Settings              \* [before, old]: entries already in the directory, none of a
                                \* file, and the SFN entry to be named (a new one, or mv's)

VARIABLES name, runs,
          slots,   \* the raw directory: a sequence of 32-byte entries
          first,   \* the slot of the new name's first entry
          given,   \* the SFN entry the name was given to
          phase,   \* "typing", "reading", "refused" or "done"
          reader, start, pos,  \* LfnReader, (sc, sn) and (ec, en) of DirIter::next
          found
vars == <<name, runs, slots, first, given, phase, reader, start, pos, found>>

Space == 32
Dot == 46
Repeat(c, n) == [i \in 1..n |-> c]
Bit(n, b) == (n \div b) % 2 = 1

\* u16::to_le_bytes and u32::to_le_bytes, and back.
ToLE(n, k) == [i \in 1..k |-> (n \div 256^(i - 1)) % 256]
FromLE(b) == FoldLeft(LAMBDA acc, x : acc * 256 + x, 0, Reverse(b))

IsLower(c) == c \in 97..122
IsUpper(c) == c \in 65..90
Upper(c) == IF IsLower(c) THEN c - 32 ELSE c
IsSfnCompatibleChar(c) ==
    \/ c \in 48..57 \/ IsUpper(c) \/ IsLower(c)
    \/ c \in {33, 35, 36, 37, 38, 39, 40, 41, 45, 64, 94, 95, 96, 123, 125, 126}
IsLfnCompatibleChar(c) == c \notin {92, 47, 58, 42, 63, 34, 60, 62, 124}

Padded(s, n) == [i \in 1..n |-> IF i <= Len(s) THEN Upper(s[i]) ELSE Space]
Has(s, P(_)) == \E i \in 1..Len(s) : P(s[i])

\* SfnEntry::set_name and set_or_generate_name. (base.len() counts bytes, but a
\* character of several bytes is refused anyway.)
SetOrGenerateNameFrom(nm, old, reset) ==
    LET dot == SelectInSeq(nm, LAMBDA c : c = Dot)
        base == IF dot = 0 THEN nm ELSE SubSeq(nm, 1, dot - 1)
        ext == IF dot = 0 THEN <<>> ELSE SubSeq(nm, dot + 1, Len(nm))
        ok == /\ Len(base) \in 1..8 /\ (dot # 0 => Len(ext) \in 1..3)
              /\ ~Has(base \o ext, LAMBDA c : ~IsSfnCompatibleChar(c))
              /\ ~(Has(base, IsLower) /\ Has(base, IsUpper))
              /\ ~(Has(ext, IsLower) /\ Has(ext, IsUpper))
        Case(s, bit) == IF Has(s, IsLower) \/ (~reset /\ Bit(old.ntRes, bit)) THEN bit ELSE 0
    IN IF ok
       THEN [ok |-> TRUE, sfn |-> [old EXCEPT !.name = Padded(base, 8) \o Padded(ext, 3),
                                              !.ntRes = Case(base, 8) + Case(ext, 16)]]
       ELSE [ok |-> FALSE, sfn |-> [old EXCEPT !.name = Padded(SelectSeq(nm, IsSfnCompatibleChar), 11)]]

\* Mutant: a renamed file keeps the case of its old name.
KeepingCase(nm, old) == SetOrGenerateNameFrom(nm, old, FALSE)

SetOrGenerateName(nm, old) == SetOrGenerateNameFrom(nm, old, TRUE)

\* SfnEntry::name
ShownName(sfn) ==
    LET Put(s, lower) ==
            LET end == SelectInSeq(s, LAMBDA c : c = Space)
                t == IF end = 0 THEN s ELSE SubSeq(s, 1, end - 1)
            IN [i \in 1..Len(t) |-> IF IsUpper(t[i]) /\ lower THEN t[i] + 32
                                    ELSE IF t[i] \in 33..126 THEN t[i] ELSE 65533]
    IN Put(SubSeq(sfn.name, 1, 8), Bit(sfn.ntRes, 8))
       \o (IF sfn.name[9] # Space THEN <<Dot>> ELSE <<>>)
       \o Put(SubSeq(sfn.name, 9, 11), Bit(sfn.ntRes, 16))

Checksum(sfn) == FoldLeft(LAMBDA sum, c : ((sum \div 2) + ((sum * 128) % 256) + c) % 256, 0, sfn.name)

\* DirEntry::lfn_sequence; << >> is None.
LfnSequence(nm, old) ==
    LET set == SetOrGenerateName(nm, old)
        chk == Checksum(set.sfn)
        pad == (13 - (Len(nm) % 13)) % 13
        buf == nm \o [i \in 1..pad |-> IF i = 1 THEN 0 ELSE 65535]
        n == Len(buf) \div 13
        Lfn(i) == LET order == n - i + 1
                  IN [kind |-> "Lfn", ord |-> order + (IF i = 1 THEN 64 ELSE 0),
                      units |-> SubSeq(buf, (order - 1) * 13 + 1, order * 13),
                      chksum |-> chk]
    IN IF set.ok THEN <<set.sfn>>
       ELSE IF Has(nm, LAMBDA c : ~IsLfnCompatibleChar(c)) \/ 255 < Len(nm) THEN <<>>
       ELSE [i \in 1..n |-> Lfn(i)] \o <<set.sfn>>

\* Into<[u8; 32]> for SfnEntry, LfnEntry and DirEntry. The dates are zero: nothing here
\* sets them.
SfnToBytes(e) ==
    e.name \o <<e.attr, e.ntRes>> \o Repeat(0, 7) \o ToLE(e.cluster \div 65536, 2) \o Repeat(0, 4)
    \o ToLE(e.cluster % 65536, 2) \o ToLE(e.size, 4)
LfnToBytes(e) ==
    LET Units(i, j) == FlattenSeq([k \in 1..(j - i + 1) |-> ToLE(e.units[i + k - 1], 2)])
    IN <<e.ord>> \o Units(1, 5) \o <<15, 0, e.chksum>> \o Units(6, 11) \o <<0, 0>> \o Units(12, 13)
ToBytes(e) ==
    CASE e.kind = "UnusedTerminal" -> Repeat(0, 32)
      [] e.kind = "Unused" -> <<229>> \o Repeat(0, 31)
      [] e.kind = "Lfn" -> LfnToBytes(e)
      [] e.kind = "Sfn" -> SfnToBytes(e)

\* TryFrom<[u8; 32]> for SfnEntry and LfnEntry, From<[u8; 32]> for DirEntry.
SfnFromBytes(b) ==
    LET Unit(k) == FromLE(SubSeq(b, k, k + 1))
    IN [kind |-> "Sfn", name |-> SubSeq(b, 1, 11), attr |-> b[12], ntRes |-> b[13],
        cluster |-> Unit(27) + 65536 * Unit(21), size |-> FromLE(SubSeq(b, 29, 32))]
LfnFromBytes(b) ==
    LET At(i) == IF i <= 5 THEN 2 * i ELSE IF i <= 11 THEN 2 * i + 3 ELSE 2 * i + 5
    IN [kind |-> "Lfn", ord |-> b[1], units |-> [i \in 1..13 |-> FromLE(SubSeq(b, At(i), At(i) + 1))],
        chksum |-> b[14]]
FromBytes(b) ==
    IF b[1] = 229 THEN [kind |-> "Unused"]
    ELSE IF b[1] = 0 THEN [kind |-> "UnusedTerminal"]
    ELSE IF b[12] % 64 = 15 THEN LfnFromBytes(b) ELSE SfnFromBytes(b)

IsVolumeId(e) == Bit(e.attr, 8)
Order(e) == IF Bit(e.ord, 64) THEN e.ord - 64 ELSE e.ord
IsLastEntry(e) == Bit(e.ord, 64) /\ Order(e) \in 1..20

InitReader == [kind |-> "Init"]

\* LfnReader::read: the result and the reader after it. buf holds the parts read so far.
Read(r, e) ==
    LET Extended(order, chk, rest) ==
            [kind |-> "Incomplete",
             reader |-> [kind |-> "Seq", chksum |-> chk, order |-> order - 1, buf |-> e.units \o rest]]
        Unpadded(b) == LET c == CHOOSE k \in 0..Len(b) : /\ k = 0 \/ b[k] # 65535
                                                         /\ \A j \in (k + 1)..Len(b) : b[j] = 65535
                       IN IF c > 0 /\ b[c] = 0 THEN SubSeq(b, 1, c - 1) ELSE SubSeq(b, 1, c)
    IN IF r.kind = "Init"
       THEN IF e.kind = "Lfn" /\ IsLastEntry(e) THEN Extended(Order(e), e.chksum, <<>>)
            ELSE IF e.kind = "Lfn" THEN [kind |-> "Broken"]
            ELSE IF e.kind = "Sfn" /\ ~IsVolumeId(e) THEN [kind |-> "Complete", name |-> ShownName(e)]
            ELSE [kind |-> "Meta"]
       ELSE IF e.kind = "Lfn" /\ r.order = Order(e) /\ r.chksum = e.chksum
            THEN Extended(r.order, r.chksum, r.buf)
       ELSE IF e.kind = "Sfn" /\ r.order = 0 /\ r.chksum = Checksum(e)
            THEN [kind |-> "Complete", name |-> Unpadded(r.buf)]
       ELSE [kind |-> "Broken"]

NoFile == [name |-> <<>>, start |-> 0, last |-> 0, sfn |-> [kind |-> "UnusedTerminal"]]

Init ==
    /\ name \in Stems /\ runs = (IF name = <<>> THEN 0 ELSE MaxRuns - 1)
    /\ slots = <<>> /\ first = 0 /\ given = NoFile.sfn
    /\ phase = "typing" /\ reader = InitReader /\ start = 1 /\ pos = 1 /\ found = NoFile

Type(c, n) ==
    /\ phase = "typing" /\ runs < MaxRuns
    /\ name' = name \o Repeat(c, n) /\ runs' = runs + 1
    /\ UNCHANGED <<slots, first, given, phase, reader, start, pos, found>>

\* create_file or mv: the entries follow what is there, a terminal follows them.
Write(before, old) ==
    /\ phase = "typing"
    /\ LET entries == LfnSequence(name, old)
           all == before \o entries \o <<[kind |-> "UnusedTerminal"]>>
       IN IF entries = <<>>
          THEN phase' = "refused" /\ UNCHANGED <<slots, first, given>>
          ELSE /\ phase' = "reading"
               /\ slots' = [i \in 1..Len(all) |-> ToBytes(all[i])]
               /\ first' = Len(before) + 1 /\ given' = old
    /\ UNCHANGED <<name, runs, reader, start, pos, found>>

\* One turn of the loop of DirIter::next.
Step ==
    /\ phase = "reading" /\ pos <= Len(slots)
    /\ LET e == FromBytes(slots[pos])
           r == Read(reader, e)
           Again == reader' = InitReader /\ start' = pos + 1 /\ pos' = pos + 1 /\ UNCHANGED <<phase, found>>
       IN CASE r.kind = "Meta" /\ e.kind = "UnusedTerminal" ->
                   phase' = "done" /\ UNCHANGED <<reader, start, pos, found>>
            [] r.kind = "Meta" /\ e.kind # "UnusedTerminal" -> Again
            [] r.kind = "Incomplete" ->
                   reader' = r.reader /\ pos' = pos + 1 /\ UNCHANGED <<start, phase, found>>
            [] r.kind = "Broken" ->
                   reader' = InitReader /\ start' = pos /\ UNCHANGED <<pos, phase, found>>
            [] r.kind = "Complete" ->
                   IF r.name \in {<<Dot>>, <<Dot, Dot>>} THEN Again
                   ELSE /\ found' = [name |-> r.name, start |-> start, last |-> pos, sfn |-> e]
                        /\ phase' = "done" /\ UNCHANGED <<reader, start, pos>>
    /\ UNCHANGED <<name, runs, slots, first, given>>

Next ==
    \/ \E c \in Chars, n \in Runs : Type(c, n)
    \/ \E s \in Settings : Write(s.before, s.old)
    \/ Step

Spec == Init /\ [][Next]_vars
-----------------------------------------------------------------------------
\* A name that lfn_sequence accepts is read back by the directory iterator as the same
\* characters, case included, on the entry that has the cluster, size and attributes it
\* was given to, at the slots its entries were written to, whatever unfinished sequence,
\* deleted entry or volume label precedes it; only "." and ".." are passed over.
NameReadBack ==
    phase = "done" =>
        IF name \in {<<Dot>>, <<Dot, Dot>>} THEN found = NoFile
        ELSE /\ found.name = name
             /\ found.start = first /\ found.last = Len(slots) - 1
             /\ found.sfn.cluster = given.cluster /\ found.sfn.size = given.size
             /\ found.sfn.attr = given.attr
=============================================================================
