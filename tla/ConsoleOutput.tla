---------------------------- MODULE ConsoleOutput ----------------------------
(***************************************************************************)
(* The output half of console.rs: tasks write strings, which write_str     *)
(* cuts into chunks for the queue OUT; the task handle_output takes them,  *)
(* decodes them for the screen and renders it at intervals. OUT is a       *)
(* Channel, as SyncQueue implements it; Terminal is the screen.            *)
(***************************************************************************)
EXTENDS AnsiDecoder

CONSTANTS Writers, Strings,
          ByteLen(_),      \* str: the bytes of a character in UTF-8
          ChunkSize,       \* OUT_CHUNK_SIZE
          Capacity,        \* of OUT
          RenderInterval,  \* in ticks
          MaxTicks,        \* bound: ticks
          MaxStrings       \* bound: strings written

VARIABLES OutReady, OUT, rest,    \* rest[w]: what write_str of w has still to enqueue
          pc, t, next, deadline,  \* handle_output: place, t, next_render_ticks, end of its wait
          ticks, decoder, shown,  \* shown: what the screen was given
          received, written, by,  \* history: the chunks dequeued, the text each task gave to
          count                   \* write_str, the task of each chunk enqueued; strings written
history == <<received, written, by, count>>
vars == <<OutReady, OUT, rest, pc, t, next, deadline, ticks, decoder, shown, history>>

Init ==
    /\ OutReady = FALSE /\ OUT = <<>> /\ rest = [w \in Writers |-> <<>>]
    /\ pc = "start" /\ t = 0 /\ next = 0 /\ deadline = 0 /\ ticks = 0
    /\ decoder = InitState /\ shown = <<>> /\ received = <<>>
    /\ written = [w \in Writers |-> <<>>] /\ by = <<>> /\ count = 0

\* write_str: nothing is printed before handle_output has started.
WriteStr(w, s) ==
    /\ rest[w] = <<>> /\ count < MaxStrings
    /\ rest' = [rest EXCEPT ![w] = IF OutReady THEN s ELSE <<>>]
    /\ written' = [written EXCEPT ![w] = @ \o rest'[w]] /\ count' = count + 1
    /\ UNCHANGED <<OutReady, OUT, pc, t, next, deadline, ticks, decoder, shown, received, by>>

\* The loop of write_str: as many whole characters as fit into a chunk, enqueued when
\* OUT has room for it.
Bytes(s) == MapThenSumSet(LAMBDA i : ByteLen(s[i]), DOMAIN s)
ChunkLen(s) == Max({n \in 0..Len(s) : Bytes(SubSeq(s, 1, n)) <= ChunkSize})
EnqueueChunk(w) ==
    /\ rest[w] # <<>> /\ Len(OUT) < Capacity
    /\ OUT' = Append(OUT, SubSeq(rest[w], 1, ChunkLen(rest[w])))
    /\ rest' = [rest EXCEPT ![w] = SubSeq(@, ChunkLen(@) + 1, Len(@))]
    /\ by' = Append(by, w)
    /\ UNCHANGED <<OutReady, pc, t, next, deadline, ticks, decoder, shown, received, written, count>>

\* handle_output up to its loop.
Start ==
    /\ pc = "start"
    /\ OutReady' = TRUE /\ pc' = "loop"
    /\ UNCHANGED <<OUT, rest, t, next, deadline, ticks, decoder, shown, history>>

\* The head of the loop: render if it is time, else wait for what is left.
Turn ==
    /\ pc = "loop"
    /\ t' = ticks
    /\ pc' = IF next <= ticks THEN "render" ELSE "wait"
    /\ deadline' = IF next <= ticks THEN deadline ELSE ticks + (next - ticks)
    /\ UNCHANGED <<OutReady, OUT, rest, next, ticks, decoder, shown, history>>

\* The end of a render, which takes time: the next one is set from a second reading of
\* the clock, the wait from the first.
RenderedFrom(now) ==
    /\ pc = "render"
    /\ next' = now + RenderInterval
    /\ deadline' = ticks + (next' - t) /\ pc' = "wait"
    /\ UNCHANGED <<OutReady, OUT, rest, t, ticks, decoder, shown, history>>
Rendered == RenderedFrom(ticks)

\* dequeue_timeout and the loop over the characters of the chunk, which a panic of the
\* decoder ends for good.
Feed(d, chunk) ==
    FoldLeft(LAMBDA acc, c : LET r == AddChar(acc.st, c) IN [st |-> r.st, out |-> acc.out \o r.out],
             [st |-> d, out |-> <<>>], chunk)
Dequeue ==
    /\ pc = "wait" /\ OUT # <<>>
    /\ OUT' = Tail(OUT) /\ received' = Append(received, Head(OUT))
    /\ LET r == Feed(decoder, Head(OUT)) IN decoder' = r.st /\ shown' = shown \o r.out
    /\ pc' = IF decoder' = Panicked THEN "panicked" ELSE "loop"
    /\ UNCHANGED <<OutReady, rest, t, next, deadline, ticks, written, by, count>>

\* None: the time is over, or the wait ended early. A release may be of a chunk that was
\* taken already, and a chunk behind one that is still being written cannot be taken.
DequeueNone ==
    /\ pc = "wait" /\ pc' = "loop"
    /\ UNCHANGED <<OutReady, OUT, rest, t, next, deadline, ticks, decoder, shown, history>>

Tick == ticks < MaxTicks /\ ticks' = ticks + 1
        /\ UNCHANGED <<OutReady, OUT, rest, pc, t, next, deadline, decoder, shown, history>>

Next ==
    \/ \E w \in Writers, s \in Strings : WriteStr(w, s)
    \/ \E w \in Writers : EnqueueChunk(w)
    \/ Start \/ Turn \/ Rendered \/ Dequeue \/ DequeueNone \/ Tick
Spec == Init /\ [][Next]_vars
-----------------------------------------------------------------------------
\* What was enqueued of task w's text.
Sent(w) == FlattenSeq([i \in DOMAIN (received \o OUT) |-> IF by[i] = w THEN (received \o OUT)[i] ELSE <<>>])

\* Nothing of what a task gives to write_str is lost, repeated or out of order: it is in the
\* task's chunks and in what is still to be cut, whoever else's chunks are in between.
\* However the strings are cut and the chunks interleave, the decoder of handle_output
\* gives the screen exactly what the characters stand for, read as one text, and stops
\* only at a number that is too large. No chunk is empty or too long, and every wait of
\* the loop is for a positive time that ends no earlier than the next render is due,
\* though it is computed from a tick read before the last one.
OutputExact ==
    /\ \A w \in Writers : Sent(w) \o rest[w] = written[w]
    /\ \E text \in {FlattenSeq(received)} :
          IF decoder = Panicked THEN TooLarge(text) ELSE shown = Expected(text)
    /\ \A i \in DOMAIN OUT : Bytes(OUT[i]) \in 1..ChunkSize
    /\ pc = "wait" => next > t /\ deadline >= next
=============================================================================
