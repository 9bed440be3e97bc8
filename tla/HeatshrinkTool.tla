--------------------------- MODULE HeatshrinkTool ---------------------------
(***************************************************************************)
(* lib/heatshrink/heatshrink.c: a file goes through encode() and what came *)
(* out through decode(), each reading, sinking, polling and finishing in   *)
(* pieces of its own sizes.  io_handle only gathers bytes and is left out. *)
(***************************************************************************)
EXTENDS Integers, Sequences, FiniteSetsExt

CONSTANTS WindowBits, LookaheadBits, PushBits, GetBits,
          Files,   \* contents to be packed
          Sizes    \* what a read answers, room of a poll, input buffer of the decoder

VARIABLES hse, hsd, oi,
          file,      \* the file encode reads
          sizes,     \* of Sizes
          step,      \* where the loops of encode and decode are
          rest,      \* what the program has not read of its input
          data,      \* what it has read and not sunk
          atEnd,     \* the last read was empty
          packed,    \* what encode wrote
          unpacked   \* what decode wrote

vars == <<hse, hsd, oi, file, sizes, step, rest, data, atEnd, packed, unpacked>>

Enc == INSTANCE HeatshrinkEncoder
Dec == INSTANCE HeatshrinkDecoder

Init ==
  /\ file \in Files /\ sizes \in Sizes
  /\ hse = Enc!Fresh /\ hsd = Dec!Fresh(sizes.buffer) /\ oi = Enc!NoPoll
  /\ step = "encode: read" /\ rest = file
  /\ data = <<>> /\ atEnd = FALSE /\ packed = <<>> /\ unpacked = <<>>

\* handle_read, and handle_drop of what it answered.
Read(next) ==
  /\ LET n == Min({sizes.read, Len(rest)})
     IN data' = SubSeq(rest, 1, n) /\ rest' = SubSeq(rest, n + 1, Len(rest))
  /\ atEnd' = (rest = <<>>)
  /\ step' = next
  /\ UNCHANGED <<hse, hsd, oi, file, sizes, packed, unpacked>>

EncRead == step = "encode: read" /\ Read("encode: sink")

\* encoder_sink_read.
EncSink ==
  /\ step = "encode: sink"
  /\ IF atEnd THEN UNCHANGED <<hse, oi, data>>
     ELSE Enc!Sink(data) /\ data' = SubSeq(data, Enc!Taken(Len(data)) + 1, Len(data))
  /\ step' = "encode: poll"
  /\ UNCHANGED <<hsd, file, sizes, rest, atEnd, packed, unpacked>>

EncPoll ==
  /\ step = "encode: poll"
  /\ Enc!Poll(sizes.room)
  /\ step' = "encode: polling"
  /\ UNCHANGED <<hsd, file, sizes, rest, data, atEnd, packed, unpacked>>

EncStep ==
  /\ step = "encode: polling" /\ Enc!Step
  /\ UNCHANGED <<hsd, file, sizes, step, rest, data, atEnd, packed, unpacked>>

EncPolled ==
  /\ step = "encode: polling" /\ oi.res # "busy"
  /\ packed' = packed \o oi.buf
  /\ step' = IF oi.res = "MORE" THEN "encode: poll"
             ELSE IF atEnd /\ oi.buf = <<>> THEN "encode: finish"
             ELSE IF data # <<>> THEN "encode: sink" ELSE "encode: read"
  /\ UNCHANGED <<hse, hsd, oi, file, sizes, rest, data, atEnd, unpacked>>

EncFinish ==
  /\ step = "encode: finish"
  /\ Enc!Finish
  /\ step' = IF Enc!FinishDone THEN "decode: read" ELSE "encode: read"
  /\ rest' = IF Enc!FinishDone THEN packed ELSE rest
  /\ UNCHANGED <<hsd, file, sizes, data, atEnd, packed, unpacked>>

\* decode ends, or calls heatshrink_decoder_finish for ever.
DecRead ==
  /\ step = "decode: read"
  /\ IF rest # <<>> THEN Read("decode: sink")
     ELSE IF Dec!FinishDone THEN Read("end") ELSE Read("decode: read")

\* decoder_sink_read.
DecSink ==
  /\ step = "decode: sink"
  /\ Dec!Sink(data)
  /\ data' = SubSeq(data, Dec!Taken(Len(data)) + 1, Len(data))
  /\ step' = "decode: poll"
  /\ UNCHANGED <<hse, file, sizes, rest, atEnd, packed, unpacked>>

DecPoll ==
  /\ step = "decode: poll"
  /\ Dec!Poll(sizes.room)
  /\ step' = "decode: polling"
  /\ UNCHANGED <<hse, file, sizes, rest, data, atEnd, packed, unpacked>>

DecStep ==
  /\ step = "decode: polling" /\ Dec!Step
  /\ UNCHANGED <<hse, file, sizes, step, rest, data, atEnd, packed, unpacked>>

DecPolled ==
  /\ step = "decode: polling" /\ oi.res # "busy"
  /\ unpacked' = unpacked \o oi.buf
  /\ step' = IF oi.res = "MORE" THEN "decode: poll"
             ELSE IF data # <<>> THEN "decode: sink" ELSE "decode: read"
  /\ UNCHANGED <<hse, hsd, oi, file, sizes, rest, data, atEnd, packed>>

Next ==
  \/ EncRead \/ EncSink \/ EncPoll \/ EncStep \/ EncPolled \/ EncFinish
  \/ DecRead \/ DecSink \/ DecPoll \/ DecStep \/ DecPolled

Spec == Init /\ [][Next]_vars /\ WF_vars(Next)
-----------------------------------------------------------------------------
\* What decode writes is the file that encode read, as far as it has come, and
\* all of it at the end: whatever repeats in the file, wherever the window, the
\* reads and the polls of either program begin and end, and whatever the zero
\* bits behind the last token look like.  With nothing left to read, decode finds
\* the decoder finished and does not ask for ever.
RoundTrip ==
  /\ step = "decode: read" /\ rest = <<>> => Dec!FinishDone
  /\ \A i \in DOMAIN unpacked : i <= Len(file) /\ unpacked[i] = file[i]
  /\ step = "end" => unpacked = file
=============================================================================
