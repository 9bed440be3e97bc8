------------------------------ MODULE RingBuf -------------------------------
(***************************************************************************)
(* mqtt/ringbuf.c: the byte ring under the MQTT message queue.  The three  *)
(* pointers of the C structure are offsets from p_o here.                  *)
(***************************************************************************)
EXTENDS Integers, Sequences

CONSTANTS U8,         \* the bytes callers store
          BlockSize   \* the size handed to RINGBUF_Init

\* RINGBUF_Init refuses a buffer of fewer than two bytes.
ASSUME BlockAssumption == BlockSize \in Nat /\ BlockSize >= 2

\* QUEUE_Init hands the ring a zeroed block.
ASSUME ByteAssumption == 0 \in U8

VARIABLES mem,        \* the block p_o points to
          p_r,        \* read offset
          p_w,        \* write offset
          fill_cnt,   \* slots in use
          reply       \* return value of the last call (and the byte it got)

ringVars == <<mem, p_r, p_w, fill_cnt, reply>>

Slot == 0 .. BlockSize - 1

\* "rollback if write pointer go pass the physical boundary"
Advance(p) == IF p + 1 >= BlockSize THEN 0 ELSE p + 1

RINGBUF_Init ==
  /\ mem = [s \in Slot |-> 0]
  /\ p_r = 0
  /\ p_w = 0
  /\ fill_cnt = 0
  /\ reply = [op |-> "init", ret |-> 0]

\* Mutated form: a full ring overwrites instead of refusing.
PutOverwrites(c) ==
  /\ fill_cnt' = IF fill_cnt < BlockSize THEN fill_cnt + 1 ELSE fill_cnt
  /\ mem' = [mem EXCEPT ![p_w] = c]
  /\ p_w' = Advance(p_w)
  /\ reply' = [op |-> "put", ret |-> 0]
  /\ UNCHANGED p_r

RINGBUF_Put(c) ==
  \/ /\ fill_cnt >= BlockSize
     /\ reply' = [op |-> "put", ret |-> -1]
     /\ UNCHANGED <<mem, p_r, p_w, fill_cnt>>
  \/ /\ fill_cnt < BlockSize
     /\ fill_cnt' = fill_cnt + 1
     /\ mem' = [mem EXCEPT ![p_w] = c]
     /\ p_w' = Advance(p_w)
     /\ reply' = [op |-> "put", ret |-> 0]
     /\ UNCHANGED p_r

RINGBUF_Get ==
  \/ /\ fill_cnt <= 0
     /\ reply' = [op |-> "get", ret |-> -1]
     /\ UNCHANGED <<mem, p_r, p_w, fill_cnt>>
  \/ /\ fill_cnt > 0
     /\ fill_cnt' = fill_cnt - 1
     /\ reply' = [op |-> "get", ret |-> 0, c |-> mem[p_r]]
     /\ p_r' = Advance(p_r)
     /\ UNCHANGED <<mem, p_w>>

RingNext == RINGBUF_Get \/ \E c \in U8 : RINGBUF_Put(c)

RingSpec == RINGBUF_Init /\ [][RingNext]_ringVars
-----------------------------------------------------------------------------
\* The offset p + n, once round the block.
Wrap(x) == IF x >= BlockSize THEN x - BlockSize ELSE x

\* The ring's pointers stay inside the block and its count inside its size.
RingTypeOK ==
  /\ mem \in [Slot -> U8]
  /\ p_r \in Slot
  /\ p_w \in Slot
  /\ fill_cnt \in 0 .. BlockSize

\* The two pointers and the fill count are three views of one queue: the
\* write pointer is always fill_cnt slots ahead of the read pointer, round the
\* end of the block.  A ring that loses step here hands stale bytes to
\* RINGBUF_Get or overwrites unread ones.
PointersAgree == p_w = Wrap(p_r + fill_cnt)

\* The unread bytes, oldest first.
Contents == [i \in 1 .. fill_cnt |-> mem[Wrap(p_r + i - 1)]]

Fifo == INSTANCE ByteFifo WITH items <- Contents, Byte <- U8, Size <- BlockSize

\* The ring implements the bounded first-in first-out queue its users rely on:
\* every Put is refused or appended, every Get answers the oldest byte.
ImplementsFifo == Fifo!Spec
=============================================================================
