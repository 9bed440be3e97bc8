------------------------- MODULE HeatshrinkDecoder --------------------------
(***************************************************************************)
(* lib/heatshrink/heatshrink_decoder.c: the decompressor.  Bytes of its    *)
(* input are strings of eight bits.  bit_index is the number of bits left  *)
(* of current_byte, here the length of bits.                               *)
(***************************************************************************)
EXTENDS BitStrings

CONSTANTS WindowBits,      \* window_sz2
          LookaheadBits,   \* lookahead_sz2
          GetBits          \* bits of a number that are read at a time (8)

VARIABLES hsd,   \* the heatshrink_decoder
          oi     \* the poll in progress: its output, the room for it, what it answers

vars == <<hsd, oi>>

WindowSize == Pow2[WindowBits]

\* input is the whole input buffer, input_index how much of it was taken.
Fresh(size) ==
  [input |-> <<>>, input_index |-> 0, size |-> size, bits |-> <<>>, state |-> "EMPTY",
   window |-> [i \in 0 .. WindowSize - 1 |-> 0], head_index |-> 0,
   output_index |-> 0, output_count |-> 0]

NoPoll == [buf |-> <<>>, size |-> 0, res |-> "EMPTY"]

Room == oi.size - Len(oi.buf)
Polling(state) == oi.res = "busy" /\ hsd.state = state

\* heatshrink_decoder_sink takes what fits behind the input, taken or not.
Taken(n) == LET rem == hsd.size - Len(hsd.input) IN IF rem < n THEN rem ELSE n

Sink(data) ==
  /\ oi.res # "busy"
  /\ hsd' = IF Taken(Len(data)) = 0 THEN hsd
            ELSE [hsd EXCEPT !.input = @ \o SubSeq(data, 1, Taken(Len(data))),
                             !.state = IF @ = "EMPTY" THEN "INPUT_AVAILABLE" ELSE @]
  /\ UNCHANGED oi

\* heatshrink_decoder_poll with room for n bytes.
Poll(n) ==
  /\ oi.res # "busy"
  /\ oi' = [buf |-> <<>>, size |-> n, res |-> "busy"]
  /\ UNCHANGED hsd

\* heatshrink_decoder_finish answers HSDR_FINISH_DONE: zero bits of the last byte
\* look like the beginning of a back reference.
FinishDone ==
  \/ hsd.state = "EMPTY"
  \/ /\ hsd.state \in {"BACKREF_INDEX_MSB", "BACKREF_INDEX_LSB", "BACKREF_COUNT_MSB",
                       "BACKREF_COUNT_LSB", "YIELD_LITERAL"}
     /\ hsd.input = <<>>
-----------------------------------------------------------------------------
\* Mutated form: bits are asked for when the last byte does not have them.
HasBitsLate(n) == hsd.input # <<>> \/ hsd.bits # <<>>

\* get_bits gives up at once unless it can have n bits.
HasBits(n) == hsd.input # <<>> \/ Len(hsd.bits) >= n

\* The next n bits (at most eight), with a byte of the input if they need one.
Pulled(n) ==
  IF Len(hsd.bits) >= n \/ hsd.input = <<>> THEN hsd.bits
  ELSE hsd.bits \o hsd.input[hsd.input_index + 1]

NextBits(n) == IF Len(Pulled(n)) < n THEN Pulled(n) ELSE SubSeq(Pulled(n), 1, n)

\* hsd with n bits taken; the input buffer is emptied with its last byte.
Popped(n) ==
  LET left == SubSeq(Pulled(n), n + 1, Len(Pulled(n)))
      last == hsd.input_index + 1 = Len(hsd.input)
  IN IF Len(hsd.bits) >= n \/ hsd.input = <<>> THEN [hsd EXCEPT !.bits = left]
     ELSE [hsd EXCEPT !.bits = left, !.input = IF last THEN <<>> ELSE @,
                      !.input_index = IF last THEN 0 ELSE @ + 1]

\* No progress: the poll answers by whether its output is full.
Stuck ==
  /\ oi' = [oi EXCEPT !.res = IF Room = 0 THEN "MORE" ELSE "EMPTY"]
  /\ UNCHANGED hsd

st_input_available ==
  /\ Polling("INPUT_AVAILABLE")
  /\ hsd' = [Popped(1) EXCEPT
               !.state = IF NextBits(1) = <<1>> THEN "YIELD_LITERAL"
                         ELSE IF WindowBits > GetBits THEN "BACKREF_INDEX_MSB"
                         ELSE "BACKREF_INDEX_LSB",
               !.output_index = IF NextBits(1) = <<0>> /\ WindowBits <= GetBits THEN 0 ELSE @]
  /\ UNCHANGED oi

\* A byte goes to the output and to the window.
Emitted(h, c) ==
  [h EXCEPT !.window[h.head_index] = c, !.head_index = (@ + 1) % WindowSize]

st_yield_literal ==
  /\ Polling("YIELD_LITERAL")
  /\ IF Room = 0 \/ ~HasBits(8) THEN Stuck
     ELSE LET c == Number(NextBits(8))
          IN /\ hsd' = [Emitted(Popped(8), c) EXCEPT !.state = "CHECK_FOR_MORE_INPUT"]
             /\ oi' = [oi EXCEPT !.buf = Append(@, c)]

\* One half of a number: what becomes of hsd, or nothing without the bits.
Take(n, h) == IF ~HasBits(n) THEN Stuck ELSE hsd' = h /\ UNCHANGED oi

LsbBits(n) == IF n < GetBits THEN n ELSE GetBits

st_backref_index_msb ==
  LET n == WindowBits - GetBits
  IN /\ Polling("BACKREF_INDEX_MSB")
     /\ Take(n, [Popped(n) EXCEPT !.output_index = Number(NextBits(n)) * Pow2[GetBits],
                                  !.state = "BACKREF_INDEX_LSB"])

st_backref_index_lsb ==
  LET n == LsbBits(WindowBits)
  IN /\ Polling("BACKREF_INDEX_LSB")
     /\ Take(n, [Popped(n) EXCEPT !.output_index = @ + Number(NextBits(n)) + 1,
                                  !.output_count = 0,
                                  !.state = IF LookaheadBits > GetBits
                                            THEN "BACKREF_COUNT_MSB" ELSE "BACKREF_COUNT_LSB"])

st_backref_count_msb ==
  LET n == LookaheadBits - GetBits
  IN /\ Polling("BACKREF_COUNT_MSB")
     /\ Take(n, [Popped(n) EXCEPT !.output_count = Number(NextBits(n)) * Pow2[GetBits],
                                  !.state = "BACKREF_COUNT_LSB"])

st_backref_count_lsb ==
  LET n == LsbBits(LookaheadBits)
  IN /\ Polling("BACKREF_COUNT_LSB")
     /\ Take(n, [Popped(n) EXCEPT !.output_count = @ + Number(NextBits(n)) + 1,
                                  !.state = "YIELD_BACKREF"])

\* The byte output_index back, one at a time: it may be one of this reference.
st_yield_backref ==
  /\ Polling("YIELD_BACKREF")
  /\ IF Room = 0 THEN Stuck
     ELSE LET c == hsd.window[(hsd.head_index - hsd.output_index) % WindowSize]
          IN /\ hsd' = [Emitted(hsd, c) EXCEPT
                          !.output_count = @ - 1,
                          !.state = IF hsd.output_count = 1 THEN "CHECK_FOR_MORE_INPUT" ELSE @]
             /\ oi' = [oi EXCEPT !.buf = Append(@, c)]

st_check_for_input ==
  /\ Polling("CHECK_FOR_MORE_INPUT")
  /\ hsd' = [hsd EXCEPT !.state = IF hsd.input = <<>> THEN "EMPTY" ELSE "INPUT_AVAILABLE"]
  /\ UNCHANGED oi

PollEmpty ==
  /\ Polling("EMPTY")
  /\ oi' = [oi EXCEPT !.res = "EMPTY"]
  /\ UNCHANGED hsd

Step ==
  \/ st_input_available \/ st_yield_literal
  \/ st_backref_index_msb \/ st_backref_index_lsb
  \/ st_backref_count_msb \/ st_backref_count_lsb
  \/ st_yield_backref \/ st_check_for_input \/ PollEmpty
=============================================================================
