------------------------- MODULE HeatshrinkEncoder --------------------------
(***************************************************************************)
(* lib/heatshrink/heatshrink_encoder.c: the LZSS compressor.  The callers  *)
(* sink bytes, poll for output and say when the input is finished; a poll  *)
(* goes through the st_ functions until it runs out of input or of room.   *)
(* Bytes of the output are strings of eight bits.                          *)
(***************************************************************************)
EXTENDS FiniteSetsExt, BitStrings

CONSTANTS WindowBits,      \* window_sz2
          LookaheadBits,   \* lookahead_sz2
          PushBits         \* bits push_bits takes at a time (8)

VARIABLES hse,   \* the heatshrink_encoder
          oi     \* the poll in progress: its output, the room for it, what it answers

vars == <<hse, oi>>

WindowSize == Pow2[WindowBits]      \* also the size and the offset of the input
LookaheadSize == Pow2[LookaheadBits]

\* outgoing is outgoing_bits and their count, bits is current_byte up to bit_index.
Fresh ==
  [buffer |-> [i \in 0 .. 2 * WindowSize - 1 |-> 0], input_size |-> 0, state |-> "NOT_FULL",
   match_scan_index |-> 0, match_length |-> 0, match_pos |-> 0,
   flags |-> {}, outgoing |-> <<>>, bits |-> <<>>]

NoPoll == [buf |-> <<>>, size |-> 0, res |-> "EMPTY"]

Finishing == "IS_FINISHING" \in hse.flags

Polling(state) == oi.res = "busy" /\ hse.state = state
CanTakeByte == Len(oi.buf) < oi.size

\* Room for more input; the caller's data from index sunk on.
Taken(n) == LET rem == WindowSize - hse.input_size IN IF rem < n THEN rem ELSE n

\* heatshrink_encoder_sink, which is an error in any other state.
Sink(data) ==
  /\ oi.res # "busy" /\ ~Finishing /\ hse.state = "NOT_FULL"
  /\ LET n == Taken(Len(data))
         at == WindowSize + hse.input_size
     IN hse' = [hse EXCEPT
          !.buffer = [i \in DOMAIN @ |-> IF i \in at .. at + n - 1 THEN data[i - at + 1] ELSE @[i]],
          !.input_size = @ + n,
          !.state = IF hse.input_size + n = WindowSize THEN "FILLED" ELSE @]
  /\ UNCHANGED oi

\* heatshrink_encoder_poll with room for n bytes.
Poll(n) ==
  /\ oi.res # "busy" /\ n > 0
  /\ oi' = [buf |-> <<>>, size |-> n, res |-> "busy"]
  /\ UNCHANGED hse

\* heatshrink_encoder_finish answers HSER_FINISH_DONE.
FinishDone == hse.state = "DONE"

Finish ==
  /\ oi.res # "busy"
  /\ hse' = [hse EXCEPT !.flags = @ \cup {"IS_FINISHING"},
                        !.state = IF @ = "NOT_FULL" THEN "FILLED" ELSE @]
  /\ UNCHANGED oi
-----------------------------------------------------------------------------
Goto(state) == hse' = [hse EXCEPT !.state = state]

\* do_indexing chains the occurrences of every byte; the chain is Candidates.
st_filled == Polling("FILLED") /\ Goto("SEARCH") /\ UNCHANGED oi

ScanEnd == WindowSize + hse.match_scan_index

\* Where the search stops: the last window, of a partial backlog only what was
\* input, without a backlog only the input.
Start ==
  CASE "BACKLOG_IS_FILLED" \in hse.flags -> ScanEnd - WindowSize + 1
    [] hse.flags \cap {"BACKLOG_IS_FILLED", "BACKLOG_IS_PARTIAL"} = {"BACKLOG_IS_PARTIAL"} ->
         Max({ScanEnd - WindowSize + 1, LookaheadSize})
    [] OTHER -> WindowSize

MaxPossible == Min({LookaheadSize, hse.input_size - hse.match_scan_index})

\* Bytes from p on that repeat at the scan, at most MaxPossible.
Repeats(p) ==
  LET ends == {n \in 1 .. MaxPossible - 1 : hse.buffer[p + n] # hse.buffer[ScanEnd + n]}
  IN IF ends = {} THEN MaxPossible ELSE Min(ends)

Candidates == {p \in Start .. ScanEnd - 1 : hse.buffer[p] = hse.buffer[ScanEnd]}

\* find_longest_match: the longest, of several the latest, and not below the
\* break-even point of three bytes.
LongestMatch == Max({Repeats(p) : p \in Candidates} \cup {0})
BestPosition == Max({p \in Candidates : Repeats(p) = LongestMatch})

Exhausted ==
  hse.match_scan_index >= hse.input_size - (IF Finishing THEN 0 ELSE LookaheadSize)

st_step_search ==
  /\ Polling("SEARCH")
  /\ \/ Exhausted /\ Goto("SAVE_BACKLOG")
     \/ /\ ~Exhausted /\ LongestMatch < 3
        /\ hse' = [hse EXCEPT !.match_scan_index = @ + 1, !.match_length = 0,
                              !.flags = @ \cup {"HAS_LITERAL"}, !.state = "YIELD_TAG_BIT"]
     \/ /\ ~Exhausted /\ LongestMatch >= 3
        /\ hse' = [hse EXCEPT !.match_pos = ScanEnd - BestPosition,
                              !.match_length = LongestMatch, !.state = "YIELD_TAG_BIT"]
  /\ UNCHANGED oi

\* push_bits: what of the bits makes a whole byte goes out, the rest stays.
Push(bits, h) ==
  LET all == hse.bits \o bits
  IN /\ hse' = [h EXCEPT !.bits = IF Len(all) < 8 THEN all ELSE SubSeq(all, 9, Len(all))]
     /\ oi' = [oi EXCEPT !.buf = IF Len(all) < 8 THEN @ ELSE Append(@, SubSeq(all, 1, 8))]

st_yield_tag_bit ==
  /\ Polling("YIELD_TAG_BIT") /\ CanTakeByte
  /\ IF hse.match_length = 0
     THEN Push(<<1>>, [hse EXCEPT !.state = "YIELD_LITERAL"])
     ELSE Push(<<0>>, [hse EXCEPT !.state = "YIELD_BR_INDEX",
                                  !.outgoing = Bits(hse.match_pos - 1, WindowBits)])

AfterLiteral ==
  IF "ON_FINAL_LITERAL" \in hse.flags THEN "FLUSH_BITS"
  ELSE IF hse.match_length > 0 THEN "YIELD_TAG_BIT" ELSE "SEARCH"

st_yield_literal ==
  /\ Polling("YIELD_LITERAL") /\ CanTakeByte
  /\ Push(Bits(hse.buffer[WindowSize + hse.match_scan_index - 1], 8),
          [hse EXCEPT !.flags = @ \ {"HAS_LITERAL"}, !.state = AfterLiteral])

\* push_outgoing_bits, at most PushBits at a time.
PushOutgoing ==
  LET n == Min({PushBits, Len(hse.outgoing)})
  IN Push(SubSeq(hse.outgoing, 1, n),
          [hse EXCEPT !.outgoing = SubSeq(@, n + 1, Len(@))])

st_yield_br_index ==
  /\ Polling("YIELD_BR_INDEX") /\ CanTakeByte
  /\ IF hse.outgoing # <<>> THEN PushOutgoing
     ELSE /\ hse' = [hse EXCEPT !.outgoing = Bits(hse.match_length - 1, LookaheadBits),
                                !.state = "YIELD_BR_LENGTH"]
          /\ UNCHANGED oi

st_yield_br_length ==
  /\ Polling("YIELD_BR_LENGTH") /\ CanTakeByte
  /\ IF hse.outgoing # <<>> THEN PushOutgoing
     ELSE /\ hse' = [hse EXCEPT !.match_scan_index = @ + hse.match_length,
                                !.match_length = 0, !.state = "SEARCH"]
          /\ UNCHANGED oi

\* save_backlog: what was scanned becomes the window in front of the input.
SaveBacklog ==
  LET msi == hse.match_scan_index
  IN hse' = [hse EXCEPT
       !.buffer = [i \in DOMAIN @ |->
                     IF i < 2 * WindowSize - msi THEN @[i + msi] ELSE @[i]],
       !.flags = @ \cup (IF "BACKLOG_IS_PARTIAL" \in @
                         THEN {"BACKLOG_IS_FILLED"} ELSE {"BACKLOG_IS_PARTIAL"}),
       !.match_scan_index = 0, !.input_size = @ - msi, !.state = "NOT_FULL"]

st_save_backlog ==
  /\ Polling("SAVE_BACKLOG")
  /\ IF ~Finishing THEN SaveBacklog
     ELSE IF "HAS_LITERAL" \in hse.flags
     THEN hse' = [hse EXCEPT !.flags = @ \cup {"ON_FINAL_LITERAL"}, !.state = "YIELD_TAG_BIT"]
     ELSE Goto("FLUSH_BITS")
  /\ UNCHANGED oi

\* HSES_FLUSH_BITS falls through to the answer of HSES_DONE, flushed or not.
st_flush_bit_buffer ==
  /\ Polling("FLUSH_BITS")
  /\ hse' = [hse EXCEPT !.state =
               IF hse.bits = <<>> \/ CanTakeByte THEN "DONE" ELSE "FLUSH_BITS"]
  /\ oi' = [oi EXCEPT !.res = "EMPTY",
              !.buf = IF hse.bits = <<>> \/ ~CanTakeByte THEN @
                      ELSE Append(@, [i \in 1 .. 8 |->
                             IF i <= Len(hse.bits) THEN hse.bits[i] ELSE 0])]

PollEmpty ==
  /\ Polling("NOT_FULL") \/ Polling("DONE")
  /\ oi' = [oi EXCEPT !.res = "EMPTY"]
  /\ UNCHANGED hse

PollMore ==
  /\ \/ Polling("YIELD_TAG_BIT") \/ Polling("YIELD_LITERAL")
     \/ Polling("YIELD_BR_INDEX") \/ Polling("YIELD_BR_LENGTH")
  /\ ~CanTakeByte
  /\ oi' = [oi EXCEPT !.res = "MORE"]
  /\ UNCHANGED hse

Step ==
  \/ st_filled \/ st_step_search \/ st_yield_tag_bit \/ st_yield_literal
  \/ st_yield_br_index \/ st_yield_br_length \/ st_save_backlog
  \/ st_flush_bit_buffer \/ PollEmpty \/ PollMore
=============================================================================
