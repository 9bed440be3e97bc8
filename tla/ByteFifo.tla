------------------------------ MODULE ByteFifo ------------------------------
(***************************************************************************)
(* What a RINGBUF promises to its users: a first-in first-out queue of at  *)
(* most Size bytes, whose operations never block and answer -1 instead of  *)
(* overwriting or inventing a byte.  RingBuf implements it, which          *)
(* MqttDataProofs proves, and FrameQueue is written against it.            *)
(***************************************************************************)
EXTENDS Integers, Sequences

CONSTANTS Byte,     \* the values a slot can hold
          Size      \* the capacity of the queue

VARIABLES items,    \* the bytes stored, oldest first
          reply     \* what the last call returned

fifoVars == <<items, reply>>

PutReply(ret)    == [op |-> "put", ret |-> ret]
GetReply(ret, c) == [op |-> "get", ret |-> ret, c |-> c]

Init == /\ items = << >>
        /\ reply = [op |-> "init", ret |-> 0]

Put(c) ==
  \/ /\ Len(items) < Size
     /\ items' = Append(items, c)
     /\ reply' = PutReply(0)
  \/ /\ Len(items) >= Size
     /\ reply' = PutReply(-1)
     /\ UNCHANGED items

Get ==
  \/ /\ items # << >>
     /\ items' = Tail(items)
     /\ reply' = GetReply(0, Head(items))
  \/ /\ items = << >>
     /\ reply' = [op |-> "get", ret |-> -1]
     /\ UNCHANGED items

Next == Get \/ \E c \in Byte : Put(c)

Spec == Init /\ [][Next]_fifoVars
=============================================================================
