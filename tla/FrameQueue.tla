----------------------------- MODULE FrameQueue -----------------------------
(***************************************************************************)
(* mqtt/proto.c and mqtt/queue.c: messages framed into a byte ring with    *)
(* 7E ... 7F and 7D escapes, and the loop of MQTT_Publish/MQTT_Subscribe   *)
(* that discards the oldest message until the new one fits.  One step is   *)
(* one RINGBUF_Put or RINGBUF_Get, so the loops of PROTO_AddRb and         *)
(* PROTO_ParseRb are steps of this module, not recursive definitions; no   *)
(* other caller runs between them (the firmware has one thread).           *)
(***************************************************************************)
EXTENDS Integers, Sequences, FiniteSets

CONSTANTS Size,       \* QUEUE_BUFFER_SIZE
          MaxLen,     \* MQTT_BUF_SIZE, the buffer of every QUEUE_Gets
          Packets     \* the messages callers queue

Byte == 0 .. 255

ASSUME SizeAssumption == Size \in Nat /\ Size >= 2

\* mqtt_msg.c builds every message in a buffer of MQTT_BUF_SIZE bytes.
ASSUME PacketAssumption ==
  /\ MaxLen \in Nat
  /\ \A p \in Packets : p \in Seq(Byte) /\ Len(p) <= MaxLen

BEGIN == 126
END   == 127
ESC   == 125
Special == {BEGIN, END, ESC}

\* Mutated form: an escaped byte is stored as it is.
FlipNot(b) == b

\* value ^ 0x20
Flip(b) == IF (b \div 32) % 2 = 1 THEN b - 32 ELSE b + 32

VARIABLES ring,     \* the bytes in the ring
          io,       \* return value of the last RINGBUF call
          pc,       \* the loop that is running, "idle" between calls
          call,     \* "publish", "reply" or "task"
          packet,   \* the message being queued
          todo,     \* its bytes not yet in the ring
          parser,   \* the PROTO_PARSER on PROTO_ParseRb's stack
          result,   \* what the last completed call returned
          stored,   \* history: messages wholly in the ring, oldest first
          dropped   \* history: messages the last MQTT_Publish discarded

vars == <<ring, io, pc, call, packet, todo, parser, result, stored, dropped>>

Ring == INSTANCE ByteFifo WITH items <- ring, reply <- io
MQ   == INSTANCE MsgQueue WITH msgs <- stored

\* PROTO_Init leaves isBegin as the stack had it.
Garbage == "uninitialised"
FreshParser == [isBegin |-> Garbage, isEsc |-> FALSE, buf |-> << >>]

Init ==
  /\ Ring!Init
  /\ pc = "idle" /\ call = "task"
  /\ packet = << >> /\ todo = << >>
  /\ parser = FreshParser
  /\ result = MQ!Reply("init", TRUE, << >>)
  /\ stored = << >> /\ dropped = << >>

\* A call ends: its caller sees ok and, for QUEUE_Gets, the bytes.
Return(ok, data) ==
  /\ pc' = "idle"
  /\ result' = MQ!Reply(call, ok, data)

QUEUE_Puts(caller, p) ==
  /\ pc = "idle"
  /\ pc' = "begin" /\ call' = caller
  /\ packet' = p /\ todo' = p
  /\ dropped' = << >>
  /\ UNCHANGED <<ring, io, parser, result, stored>>

\* MQTT_Task calls QUEUE_Gets only when QUEUE_IsEmpty says there are bytes.
QUEUE_Gets ==
  /\ pc = "idle"
  /\ ring # << >>
  /\ pc' = "parse" /\ call' = "task"
  /\ parser' = FreshParser
  /\ UNCHANGED <<ring, io, packet, todo, result, stored, dropped>>

\* The ring refused a byte: the frame stays truncated in the ring.  A
\* publisher goes on to discard the oldest message, a reply gives up.
PutsFailed ==
  \/ /\ call = "reply"
     /\ Return(FALSE, packet)
     /\ UNCHANGED parser
  \/ /\ call = "publish"
     /\ pc' = "parse"
     /\ parser' = FreshParser
     /\ UNCHANGED result

\* One RINGBUF_Put of PROTO_AddRb that is not the last.
AddByte(b, next, rest) ==
  /\ Ring!Put(b)
  /\ \/ /\ io'.ret = 0
        /\ pc' = next
        /\ todo' = rest
        /\ UNCHANGED <<parser, result>>
     \/ /\ io'.ret = -1
        /\ PutsFailed
        /\ UNCHANGED todo
  /\ UNCHANGED <<call, packet, stored, dropped>>

AddBegin == pc = "begin" /\ AddByte(BEGIN, "body", todo)

AddPlain ==
  /\ pc = "body" /\ todo # << >>
  /\ Head(todo) \notin Special
  /\ AddByte(Head(todo), "body", Tail(todo))

AddEscape ==
  /\ pc = "body" /\ todo # << >>
  /\ Head(todo) \in Special
  /\ AddByte(ESC, "escaped", todo)

AddEscaped == pc = "escaped" /\ AddByte(Flip(Head(todo)), "body", Tail(todo))

AddEnd ==
  /\ pc = "body" /\ todo = << >>
  /\ Ring!Put(END)
  /\ \/ /\ io'.ret = 0
        /\ Return(TRUE, packet)
        /\ stored' = Append(stored, packet)
        /\ UNCHANGED parser
     \/ /\ io'.ret = -1
        /\ PutsFailed
        /\ UNCHANGED stored
  /\ UNCHANGED <<call, packet, todo, dropped>>

\* PROTO_ParseByte on a data byte, once inside a frame.
DataByte(b) ==
  [parser EXCEPT !.isEsc = FALSE,
                 !.buf = IF Len(@) < MaxLen
                         THEN Append(@, IF parser.isEsc THEN Flip(b) ELSE b)
                         ELSE @]

\* The parsers PROTO_ParseByte may leave after a byte other than 7F: a test of
\* an uninitialised isBegin goes either way.
ParsedTo(b) ==
  CASE b = ESC   -> {[parser EXCEPT !.isEsc = TRUE]}
    [] b = BEGIN -> {[isBegin |-> "yes", isEsc |-> FALSE, buf |-> << >>]}
    [] OTHER     -> (IF parser.isBegin # "yes" THEN {parser} ELSE {})
                      \cup (IF parser.isBegin # "no" THEN {DataByte(b)} ELSE {})

ParseByte ==
  /\ pc = "parse" /\ ring # << >>
  /\ Head(ring) # END
  /\ Ring!Get
  /\ parser' \in ParsedTo(Head(ring))
  /\ UNCHANGED <<pc, call, packet, todo, result, stored, dropped>>

\* Mutated form: the publisher goes on discarding.
KeepDiscarding == pc' = "parse" /\ todo' = packet

\* The while of MQTT_Publish comes round to QUEUE_Puts.
RetryPuts == pc' = "begin" /\ todo' = packet

\* 7F completes a message: MQTT_Task gets it, MQTT_Publish discards it and
\* tries QUEUE_Puts again.
ParseEnd ==
  /\ pc = "parse" /\ ring # << >>
  /\ Head(ring) = END
  /\ Ring!Get
  /\ stored' = IF stored = << >> THEN << >> ELSE Tail(stored)
  /\ \/ /\ call = "task"
        /\ Return(TRUE, parser.buf)
        /\ UNCHANGED <<todo, dropped>>
     \/ /\ call = "publish"
        /\ RetryPuts
        /\ dropped' = Append(dropped, parser.buf)
        /\ UNCHANGED result
  /\ parser' = [parser EXCEPT !.isBegin = "no"]
  /\ UNCHANGED <<call, packet>>

\* Mutated form: MQTT_Publish without its "Serious buffer error" exit.
RetryWhenDry ==
  \/ call = "task" /\ Return(FALSE, << >>) /\ UNCHANGED todo
  \/ call = "publish" /\ RetryPuts /\ UNCHANGED result

\* QUEUE_Gets returned -1: MQTT_Publish reports its "Serious buffer error" and
\* returns FALSE.
NothingLeft ==
  /\ Return(FALSE, IF call = "task" THEN << >> ELSE packet)
  /\ UNCHANGED todo

\* The ring ran out before a 7F.
ParseDry ==
  /\ pc = "parse" /\ ring = << >>
  /\ Ring!Get
  /\ NothingLeft
  /\ UNCHANGED <<call, packet, parser, stored, dropped>>

\* One iteration of the loop that is running.
Loop == \/ AddBegin \/ AddPlain \/ AddEscape \/ AddEscaped \/ AddEnd
        \/ ParseByte \/ ParseEnd \/ ParseDry

\* A new call from mqtt.c.
Call == QUEUE_Gets \/ \E p \in Packets, c \in {"publish", "reply"} : QUEUE_Puts(c, p)

Next == Loop \/ Call

\* A call, once made, runs to its end: the processor is not taken away.
Spec == Init /\ [][Next]_vars /\ WF_vars(Loop)
-----------------------------------------------------------------------------
(* Properties.                                                             *)

Parser == [isBegin : {"no", "yes", Garbage}, isEsc : BOOLEAN, buf : Seq(Byte)]

TypeOK ==
  /\ ring \in Seq(Byte)
  /\ Len(ring) <= Size
  /\ pc \in {"idle", "begin", "body", "escaped", "parse"}
  /\ call \in {"publish", "reply", "task"}
  /\ pc \in {"begin", "body", "escaped"} => call \in {"publish", "reply"}
  /\ pc = "parse" => call \in {"publish", "task"}
  /\ pc = "escaped" => todo # << >> /\ Head(todo) \in Special
  /\ packet \in Seq(Byte)
  /\ todo \in Seq(Byte)
  /\ parser \in Parser

\* PROTO_ParseByte tests parser->isBegin, which PROTO_Init never sets.  The
\* test is harmless only because every QUEUE_Gets starts on a 7E, even when
\* earlier calls left truncated frames behind or discarded some.
GarbageNeverRead ==
  pc = "parse" /\ parser.isBegin = Garbage /\ ring # << >> => ring[1] = BEGIN

\* Whatever mix of truncated and whole frames the ring holds, the client sees
\* a queue of whole messages: each comes out once, complete and in order, a
\* refused reply disturbs nothing, and MQTT_Publish returns FALSE only after
\* everything older is gone.
ImplementsMsgQueue == MQ!Spec

\* Bytes a message takes in the ring.
FrameLen(p) ==
  2 + Len(p) + Cardinality({i \in 1 .. Len(p) : p[i] \in Special})

\* What QUEUE_Puts costs a full queue: MQTT_Publish discards more than one
\* message, or fails after discarding some, only if the frame it could not
\* place was longer than one it had just discarded (the truncated frame it
\* leaves fills the room each discarded message gives back).
LossNeedsLongerFrame ==
  pc = "idle" /\ result.call = "publish" =>
    /\ Len(dropped) > 1 =>
         \E i \in 1 .. Len(dropped) - 1 : FrameLen(dropped[i]) < FrameLen(packet)
    /\ ~result.ok /\ dropped # << >> =>
         FrameLen(dropped[Len(dropped)]) < FrameLen(packet)

\* The loop in MQTT_Publish ends, even for a frame longer than the ring: a
\* callback that loops for ever is killed by the watchdog.
EveryCallReturns == pc # "idle" ~> pc = "idle"
=============================================================================
