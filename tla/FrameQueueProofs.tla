-------------------------- MODULE FrameQueueProofs --------------------------
(***************************************************************************)
(* Theorems about mqtt/proto.c and mqtt/queue.c for every ring size, every *)
(* buffer length and every set of messages.                                *)
(***************************************************************************)
EXTENDS FrameQueue, SequenceTheorems, FiniteSetTheorems, TLAPS

\* A 7F is followed by nothing or by the 7E of the next frame.
BeginFollowsEnd ==
  \A i \in 1 .. Len(ring) - 1 : ring[i] = END => ring[i + 1] = BEGIN

\* The oldest byte is a 7E unless a frame is being taken apart.
StartsWithBegin ==
  ring # << >> /\ (pc = "parse" => parser.isBegin = Garbage) => ring[1] = BEGIN

\* A frame being added is open: its last byte is in the ring and is no 7F.
FrameIsOpen ==
  pc \in {"body", "escaped"} => ring # << >> /\ ring[Len(ring)] # END

IInv == TypeOK /\ BeginFollowsEnd /\ StartsWithBegin /\ FrameIsOpen

LEMMA FlipSpecial ==
  ASSUME NEW b \in Special
  PROVE  Flip(b) \in Byte /\ Flip(b) \notin Special
  BY DEF Special, BEGIN, END, ESC, Flip, Byte

LEMMA FlipByte ==
  ASSUME NEW b \in Byte
  PROVE  Flip(b) \in Byte
<1>1. CASE (b \div 32) % 2 = 1
  <2>1. b >= 32
    BY <1>1 DEF Byte
  <2>2. QED
    BY <1>1, <2>1 DEF Byte, Flip
<1>2. CASE (b \div 32) % 2 # 1
  <2>1. b < 224
    BY <1>2 DEF Byte
  <2>2. QED
    BY <1>2, <2>1 DEF Byte, Flip
<1>3. QED
  BY <1>1, <1>2

LEMMA InitIInv == Init => IInv
  BY SizeAssumption
  DEF Init, Ring!Init, IInv, TypeOK, BeginFollowsEnd, StartsWithBegin,
      FrameIsOpen, Parser, FreshParser, Garbage, Byte

\* What a RINGBUF_Put does to the shape of the ring.
LEMMA PutKeepsShape ==
  ASSUME IInv, NEW b \in Byte, Ring!Put(b),
         b = BEGIN \/ (ring # << >> /\ ring[Len(ring)] # END)
  PROVE  /\ ring' \in Seq(Byte) /\ Len(ring') <= Size
         /\ BeginFollowsEnd'
         /\ ring # << >> => ring'[1] = ring[1]
         /\ io'.ret = 0 => /\ ring' # << >>
                           /\ ring'[Len(ring')] = b
                           /\ ring = << >> => ring'[1] = b
         /\ io'.ret = -1 => ring' = ring
<1> USE SizeAssumption DEF IInv, TypeOK
<1>1. CASE Len(ring) < Size /\ ring' = Append(ring, b) /\ io' = Ring!PutReply(0)
  <2>1. /\ ring' \in Seq(Byte)
        /\ Len(ring') = Len(ring) + 1
        /\ ring'[Len(ring')] = b
        /\ \A i \in 1 .. Len(ring) : ring'[i] = ring[i]
    BY <1>1
  <2>2. BeginFollowsEnd'
    <3> SUFFICES ASSUME NEW i \in 1 .. Len(ring') - 1, ring'[i] = END
                 PROVE  ring'[i + 1] = BEGIN
      BY DEF BeginFollowsEnd
    <3>1. CASE i = Len(ring)
      BY <2>1, <3>1
    <3>2. CASE i \in 1 .. Len(ring) - 1
      BY <2>1, <3>2 DEF BeginFollowsEnd
    <3>3. i = Len(ring) \/ i \in 1 .. Len(ring) - 1
      BY <2>1
    <3>4. QED
      BY <3>1, <3>2, <3>3
  <2>3. io'.ret = 0
    BY <1>1 DEF Ring!PutReply
  <2>4. QED
    BY <1>1, <2>1, <2>2, <2>3
<1>2. CASE Len(ring) >= Size /\ ring' = ring /\ io' = Ring!PutReply(-1)
  BY <1>2 DEF Ring!PutReply, BeginFollowsEnd
<1>3. QED
  BY <1>1, <1>2 DEF Ring!Put

\* What a RINGBUF_Get of an occupied ring does to its shape.
LEMMA GetKeepsShape ==
  ASSUME IInv, Ring!Get, ring # << >>
  PROVE  /\ ring' = Tail(ring)
         /\ ring' \in Seq(Byte) /\ Len(ring') <= Size
         /\ BeginFollowsEnd'
         /\ ring[1] = END /\ ring' # << >> => ring'[1] = BEGIN
<1> USE SizeAssumption DEF IInv, TypeOK
<1>1. ring' = Tail(ring)
  BY DEF Ring!Get
<1>2. /\ ring' \in Seq(Byte)
      /\ Len(ring') = Len(ring) - 1
      /\ \A i \in 1 .. Len(ring') : ring'[i] = ring[i + 1]
  BY <1>1, HeadTailProperties
<1>3. BeginFollowsEnd'
  <2> SUFFICES ASSUME NEW i \in 1 .. Len(ring') - 1, ring'[i] = END
               PROVE  ring'[i + 1] = BEGIN
    BY DEF BeginFollowsEnd
  <2>1. ring[i + 1] = END /\ i + 1 \in 1 .. Len(ring) - 1
    BY <1>2
  <2>2. ring[(i + 1) + 1] = BEGIN
    BY <2>1 DEF BeginFollowsEnd
  <2>3. QED
    BY <1>2, <2>2
<1>4. ASSUME ring[1] = END, ring' # << >>
      PROVE  ring'[1] = BEGIN
  <2>1. 1 \in 1 .. Len(ring) - 1
    BY <1>2, <1>4
  <2>2. QED
    BY <1>2, <1>4, <2>1 DEF BeginFollowsEnd
<1>5. QED
  BY <1>1, <1>2, <1>3, <1>4

LEMMA FreshParserOK == FreshParser \in Parser /\ FreshParser.isBegin = Garbage
  BY EmptySeq DEF FreshParser, Parser, Garbage

\* Every way PROTO_AddRb goes on after a byte keeps the invariant.
LEMMA AddByteKeepsIInv ==
  ASSUME IInv, NEW b \in Byte, NEW next \in {"body", "escaped"}, NEW rest \in Seq(Byte),
         AddByte(b, next, rest), pc \in {"begin", "body", "escaped"},
         b = BEGIN \/ (ring # << >> /\ ring[Len(ring)] # END),
         b # END,
         next = "escaped" => rest # << >> /\ Head(rest) \in Special
  PROVE  IInv'
<1>1. /\ ring' \in Seq(Byte) /\ Len(ring') <= Size
      /\ BeginFollowsEnd'
      /\ ring # << >> => ring'[1] = ring[1]
      /\ io'.ret = 0 => /\ ring' # << >>
                        /\ ring'[Len(ring')] = b
                        /\ ring = << >> => ring'[1] = b
      /\ io'.ret = -1 => ring' = ring
  BY PutKeepsShape DEF AddByte
<1>2. ring # << >> => ring[1] = BEGIN
  BY DEF IInv, StartsWithBegin
<1>3. CASE io'.ret = 0 /\ pc' = next /\ todo' = rest /\ UNCHANGED <<parser, result>>
  BY <1>1, <1>2, <1>3
  DEF IInv, TypeOK, StartsWithBegin, FrameIsOpen, AddByte
<1>4. CASE io'.ret = -1 /\ PutsFailed /\ UNCHANGED todo
  BY <1>1, <1>2, <1>4, FreshParserOK
  DEF IInv, TypeOK, StartsWithBegin, FrameIsOpen, AddByte, PutsFailed, Return
<1>5. QED
  BY <1>3, <1>4 DEF AddByte

LEMMA ParsedToOK ==
  ASSUME IInv, ring # << >>, NEW p \in ParsedTo(ring[1])
  PROVE  p \in Parser
<1> USE DEF IInv, TypeOK
<1>1. ring[1] \in Byte /\ parser \in Parser
  OBVIOUS
<1>2. /\ parser.isBegin \in {"no", "yes", Garbage}
      /\ parser.isEsc \in BOOLEAN
      /\ parser.buf \in Seq(Byte)
  BY <1>1 DEF Parser
<1>3. CASE ring[1] = ESC
  <2>1. p = [parser EXCEPT !.isEsc = TRUE]
    BY <1>3 DEF ParsedTo, BEGIN, ESC
  <2>2. QED
    BY <1>1, <1>2, <2>1 DEF Parser
<1>4. CASE ring[1] = BEGIN
  <2>1. p = [isBegin |-> "yes", isEsc |-> FALSE, buf |-> << >>]
    BY <1>4 DEF ParsedTo, BEGIN, ESC
  <2>2. QED
    BY <2>1, EmptySeq DEF Parser
<1>5. CASE ring[1] \notin {ESC, BEGIN}
  <2>1. (IF parser.isEsc THEN Flip(ring[1]) ELSE ring[1]) \in Byte
    BY <1>1, FlipByte
  <2>2. Append(parser.buf, IF parser.isEsc THEN Flip(ring[1]) ELSE ring[1])
          \in Seq(Byte)
    BY <1>2, <2>1
  <2>3. DataByte(ring[1]) \in Parser
    BY <1>1, <1>2, <2>2 DEF Parser, DataByte
  <2>4. p \in {parser, DataByte(ring[1])}
    BY <1>5 DEF ParsedTo
  <2>5. QED
    BY <1>1, <2>3, <2>4
<1>6. QED
  BY <1>3, <1>4, <1>5

\* A 7E is the only byte a fresh parser meets, and it initialises isBegin.
LEMMA ParseByteSyncs ==
  ASSUME IInv, ring # << >>, pc = "parse", NEW p \in ParsedTo(ring[1])
  PROVE  p.isBegin # Garbage
<1>1. CASE parser.isBegin = Garbage
  <2>1. ring[1] = BEGIN
    BY <1>1 DEF IInv, StartsWithBegin
  <2>2. QED
    BY <2>1 DEF ParsedTo, BEGIN, ESC, Garbage
<1>2. CASE parser.isBegin # Garbage
  <2>1. parser \in Parser
    BY DEF IInv, TypeOK
  <2>2. CASE ring[1] = ESC
    <3>1. p = [parser EXCEPT !.isEsc = TRUE]
      BY <2>2 DEF ParsedTo, BEGIN, ESC
    <3>2. QED
      BY <1>2, <2>1, <3>1 DEF Parser
  <2>3. CASE ring[1] = BEGIN
    BY <2>3 DEF ParsedTo, BEGIN, ESC, Garbage
  <2>4. CASE ring[1] \notin {ESC, BEGIN}
    <3>1. p \in {parser, DataByte(ring[1])}
      BY <2>4 DEF ParsedTo
    <3>2. DataByte(ring[1]).isBegin = parser.isBegin
      BY <2>1 DEF DataByte, Parser
    <3>3. QED
      BY <1>2, <3>1, <3>2
  <2>5. QED
    BY <2>2, <2>3, <2>4
<1>3. QED
  BY <1>1, <1>2

LEMMA NextIInv == IInv /\ [Next]_vars => IInv'
<1> SUFFICES ASSUME IInv, [Next]_vars
             PROVE  IInv'
  OBVIOUS
<1>0. TypeOK
  BY DEF IInv
<1>1. CASE AddBegin
  <2>1. BEGIN \in Byte /\ BEGIN # END /\ todo \in Seq(Byte)
    BY <1>0 DEF BEGIN, END, Byte, TypeOK
  <2>2. QED
    BY <1>1, <2>1, AddByteKeepsIInv DEF AddBegin
<1>2. CASE AddPlain
  <2>1. /\ Head(todo) \in Byte /\ Tail(todo) \in Seq(Byte)
        /\ Head(todo) # END
    BY <1>0, <1>2 DEF AddPlain, TypeOK, Special
  <2>2. ring # << >> /\ ring[Len(ring)] # END
    BY <1>2 DEF AddPlain, IInv, FrameIsOpen
  <2>3. QED
    BY <1>2, <2>1, <2>2, AddByteKeepsIInv DEF AddPlain
<1>3. CASE AddEscape
  <2>1. ESC \in Byte /\ ESC # END /\ todo \in Seq(Byte)
    BY <1>0 DEF ESC, END, Byte, TypeOK
  <2>2. ring # << >> /\ ring[Len(ring)] # END
    BY <1>3 DEF AddEscape, IInv, FrameIsOpen
  <2>3. QED
    BY <1>3, <2>1, <2>2, AddByteKeepsIInv DEF AddEscape
<1>4. CASE AddEscaped
  <2>1. todo # << >> /\ Head(todo) \in Special
    BY <1>0, <1>4 DEF AddEscaped, TypeOK
  <2>2. /\ Flip(Head(todo)) \in Byte /\ Flip(Head(todo)) # END
        /\ Tail(todo) \in Seq(Byte)
    BY <1>0, <2>1, FlipSpecial DEF TypeOK, Special
  <2>3. ring # << >> /\ ring[Len(ring)] # END
    BY <1>4 DEF AddEscaped, IInv, FrameIsOpen
  <2>4. QED
    BY <1>4, <2>2, <2>3, AddByteKeepsIInv DEF AddEscaped
<1>5. CASE AddEnd
  <2>1. END \in Byte
    BY DEF END, Byte
  <2>2. ring # << >> /\ ring[Len(ring)] # END
    BY <1>5 DEF AddEnd, IInv, FrameIsOpen
  <2>3. /\ ring' \in Seq(Byte) /\ Len(ring') <= Size
        /\ BeginFollowsEnd'
        /\ ring'[1] = ring[1]
    BY <1>5, <2>1, <2>2, PutKeepsShape DEF AddEnd
  <2>4. ring[1] = BEGIN
    BY <1>5, <2>2 DEF AddEnd, IInv, StartsWithBegin
  <2>5. CASE Return(TRUE, packet) /\ UNCHANGED parser
    BY <1>0, <1>5, <2>3, <2>4, <2>5
    DEF AddEnd, Return, IInv, TypeOK, StartsWithBegin, FrameIsOpen
  <2>6. CASE PutsFailed
    BY <1>0, <1>5, <2>3, <2>4, <2>6, FreshParserOK
    DEF AddEnd, Return, PutsFailed, IInv, TypeOK, StartsWithBegin, FrameIsOpen
  <2>7. QED
    BY <1>5, <2>5, <2>6 DEF AddEnd
<1>6. CASE ParseByte
  <2>1. /\ ring # << >> /\ pc = "parse" /\ pc' = "parse"
        /\ Head(ring) = ring[1]
    BY <1>0, <1>6 DEF ParseByte, TypeOK
  <2>2. /\ ring' \in Seq(Byte) /\ Len(ring') <= Size
        /\ BeginFollowsEnd'
    BY <1>6, <2>1, GetKeepsShape DEF ParseByte
  <2>3. parser' \in Parser /\ parser'.isBegin # Garbage
    BY <1>6, <2>1, ParsedToOK, ParseByteSyncs DEF ParseByte
  <2>4. QED
    BY <1>0, <1>6, <2>1, <2>2, <2>3
    DEF ParseByte, IInv, TypeOK, StartsWithBegin, FrameIsOpen
<1>7. CASE ParseEnd
  <2>1. ring # << >> /\ ring[1] = END
    BY <1>0, <1>7 DEF ParseEnd, TypeOK
  <2>2. /\ ring' \in Seq(Byte) /\ Len(ring') <= Size
        /\ BeginFollowsEnd'
        /\ ring' # << >> => ring'[1] = BEGIN
    BY <1>7, <2>1, GetKeepsShape DEF ParseEnd
  <2>3. parser' \in Parser
    BY <1>0, <1>7 DEF ParseEnd, TypeOK, Parser
  <2>4. CASE call = "task" /\ Return(TRUE, parser.buf) /\ UNCHANGED <<todo, dropped>>
    BY <1>0, <1>7, <2>2, <2>3, <2>4
    DEF ParseEnd, Return, IInv, TypeOK, StartsWithBegin, FrameIsOpen
  <2>5. CASE call = "publish" /\ RetryPuts
    BY <1>0, <1>7, <2>2, <2>3, <2>5
    DEF ParseEnd, RetryPuts, IInv, TypeOK, StartsWithBegin, FrameIsOpen
  <2>6. QED
    BY <1>7, <2>4, <2>5 DEF ParseEnd
<1>8. CASE ParseDry
  <2>1. ring' = ring /\ ring = << >>
    BY <1>8 DEF ParseDry, Ring!Get
  <2>2. QED
    BY <1>0, <1>8, <2>1
    DEF ParseDry, NothingLeft, Return, IInv, TypeOK, BeginFollowsEnd, StartsWithBegin, FrameIsOpen
<1>9. CASE QUEUE_Gets
  BY <1>0, <1>9, FreshParserOK
  DEF QUEUE_Gets, IInv, TypeOK, BeginFollowsEnd, StartsWithBegin, FrameIsOpen
<1>10. ASSUME NEW p \in Packets, NEW c \in {"publish", "reply"}, QUEUE_Puts(c, p)
       PROVE  IInv'
  <2>1. p \in Seq(Byte)
    BY PacketAssumption
  <2>2. QED
    BY <1>0, <1>10, <2>1
    DEF QUEUE_Puts, IInv, TypeOK, BeginFollowsEnd, StartsWithBegin, FrameIsOpen
<1>11. CASE UNCHANGED vars
  BY <1>0, <1>11
  DEF vars, IInv, TypeOK, BeginFollowsEnd, StartsWithBegin, FrameIsOpen
<1>12. QED
  BY <1>1, <1>2, <1>3, <1>4, <1>5, <1>6, <1>7, <1>8, <1>9, <1>10, <1>11
  DEF Next, Loop, Call

\* The queue's variables keep their types for every message set and ring size.
THEOREM TypeCorrect == Spec => []TypeOK
<1>1. IInv => TypeOK
  BY DEF IInv
<1>2. QED
  BY InitIInv, NextIInv, <1>1, PTL DEF Spec

\* PROTO_ParseByte never consults the isBegin that PROTO_Init leaves
\* uninitialised: every QUEUE_Gets of a non-empty ring starts on a 7E, whatever
\* truncated frames failed calls have left in it.
THEOREM ParserNeverReadsGarbage == Spec => []GarbageNeverRead
<1>1. IInv => GarbageNeverRead
  BY DEF IInv, StartsWithBegin, GarbageNeverRead
<1>2. QED
  BY InitIInv, NextIInv, <1>1, PTL DEF Spec

(***************************************************************************)
(* What discarding costs.  The room a discarded frame gave back is never   *)
(* less than that frame, and a frame that fails again has used it up.      *)
(***************************************************************************)

\* The positions of the bytes that need an escape, and the bytes a message's
\* body takes in the ring.
Escaped(p) == {i \in 1 .. Len(p) : p[i] \in Special}
Cost(p) == FrameLen(p) - 2

LEMMA EscapedFinite ==
  ASSUME NEW p \in Seq(Byte)
  PROVE  /\ IsFiniteSet(Escaped(p)) /\ Cardinality(Escaped(p)) \in Nat
         /\ Cost(p) = Len(p) + Cardinality(Escaped(p)) /\ Cost(p) \in Nat
         /\ FrameLen(p) = 2 + Cost(p)
<1>1. IsFiniteSet(1 .. Len(p)) /\ Escaped(p) \in SUBSET (1 .. Len(p))
  BY FS_Interval DEF Escaped
<1>2. IsFiniteSet(Escaped(p)) /\ Cardinality(Escaped(p)) \in Nat
  BY <1>1, FS_Subset, FS_CardinalityType
<1> QED
  BY <1>2 DEF Cost, FrameLen, Escaped

LEMMA CostEmpty ==
  ASSUME NEW p \in Seq(Byte), p = << >>
  PROVE  Cost(p) = 0
<1>1. Len(p) = 0 /\ Escaped(p) = {}
  BY DEF Escaped
<1>2. Cardinality({}) = 0
  BY FS_EmptySet
<1>3. Cost(p) = Len(p) + Cardinality(Escaped(p))
  BY EscapedFinite
<1>4. Cost(p) = 0 + 0
  BY <1>1, <1>2, <1>3, Zenon
<1> QED
  BY <1>4

\* A byte at the end costs one more, or two.
LEMMA CostAppend ==
  ASSUME NEW p \in Seq(Byte), NEW b \in Byte
  PROVE  Cost(Append(p, b)) = Cost(p) + (IF b \in Special THEN 2 ELSE 1)
<1> DEFINE q == Append(p, b)
<1>1. /\ q \in Seq(Byte) /\ Len(q) = Len(p) + 1 /\ q[Len(p) + 1] = b
      /\ \A i \in 1 .. Len(p) : q[i] = p[i]
  OBVIOUS
<1>2. Len(p) \in Nat
  OBVIOUS
<1> HIDE DEF q
<1>3. Escaped(q) = IF b \in Special THEN Escaped(p) \cup {Len(p) + 1} ELSE Escaped(p)
  BY <1>1, <1>2 DEF Escaped
<1>4. Len(p) + 1 \notin Escaped(p)
  BY <1>2 DEF Escaped
<1>5. IsFiniteSet(Escaped(p)) /\ Cardinality(Escaped(p)) \in Nat
  BY EscapedFinite
<1>6. Cardinality(Escaped(q)) = Cardinality(Escaped(p)) + (IF b \in Special THEN 1 ELSE 0)
  <2>1. Cardinality(Escaped(p) \cup {Len(p) + 1}) = Cardinality(Escaped(p)) + 1
    BY <1>4, <1>5, FS_AddElement
  <2> QED
    BY <1>3, <1>5, <2>1
<1>7. Cost(p) = Len(p) + Cardinality(Escaped(p)) /\ Cost(q) = Len(q) + Cardinality(Escaped(q))
  BY <1>1, EscapedFinite
<1>8. Cost(q) = Cost(p) + (IF b \in Special THEN 2 ELSE 1)
  BY <1>1, <1>2, <1>5, <1>6, <1>7
<1> QED
  BY <1>8 DEF q

\* A byte at the front too.
LEMMA CostTail ==
  ASSUME NEW p \in Seq(Byte), p # << >>
  PROVE  Cost(p) = Cost(Tail(p)) + (IF Head(p) \in Special THEN 2 ELSE 1)
<1> DEFINE t == Tail(p)
           S == Escaped(t)
           T == Escaped(p) \ {1}
           f == [i \in S |-> i + 1]
<1>1. /\ t \in Seq(Byte) /\ Len(t) = Len(p) - 1 /\ Head(p) = p[1]
      /\ \A i \in 1 .. Len(t) : t[i] = p[i + 1]
      /\ Len(p) \in Nat \ {0}
  BY HeadTailProperties
<1>2. /\ IsFiniteSet(S) /\ Cardinality(S) \in Nat /\ Cost(t) = Len(t) + Cardinality(S)
      /\ IsFiniteSet(Escaped(p)) /\ Cardinality(Escaped(p)) \in Nat
      /\ Cost(p) = Len(p) + Cardinality(Escaped(p))
  BY <1>1, EscapedFinite
<1>3. f \in Bijection(S, T)
  <2> HIDE DEF t
  <2>1. \A i \in S : i + 1 \in T
    BY <1>1 DEF Escaped
  <2>2. \A j \in T : j - 1 \in S /\ j \in Int
    BY <1>1 DEF Escaped
  <2>3. S \subseteq Int
    BY DEF Escaped
  <2>4. f \in Injection(S, T)
    BY <2>1, <2>3 DEF Injection, IsInjective
  <2>5. f \in Surjection(S, T)
    <3>1. f \in [S -> T]
      BY <2>1
    <3>2. ASSUME NEW j \in T PROVE \E i \in S : f[i] = j
      <4>1. j - 1 \in S /\ f[j - 1] = j
        BY <2>2, <2>3
      <4> QED
        BY <4>1
    <3> QED
      BY <3>1, <3>2 DEF Surjection
  <2> QED
    BY <2>4, <2>5 DEF Bijection
<1>4. Cardinality(T) = Cardinality(S)
  <2>1. ExistsBijection(S, T)
    BY <1>3 DEF ExistsBijection
  <2> QED
    BY <2>1, <1>2, FS_Bijection
<1>5. 1 \in Escaped(p) <=> Head(p) \in Special
  BY <1>1 DEF Escaped
<1>6. Cardinality(Escaped(p)) = Cardinality(T) + (IF Head(p) \in Special THEN 1 ELSE 0)
  <2>1. Cardinality(T) = IF 1 \in Escaped(p) THEN Cardinality(Escaped(p)) - 1
                         ELSE Cardinality(Escaped(p))
    BY <1>2, FS_RemoveElement
  <2> QED
    BY <1>2, <1>5, <2>1
<1> HIDE DEF t, S
<1>7. Cost(p) = Cost(t) + (IF Head(p) \in Special THEN 2 ELSE 1)
  BY <1>1, <1>2, <1>4, <1>6
<1> QED
  BY <1>7 DEF t

Adding == pc \in {"begin", "body", "escaped"}
LastDropped == dropped[Len(dropped)]

\* Bytes of the frame being added that are in the ring.
InRing ==
  IF pc = "begin" THEN 0
  ELSE Cost(packet) - Cost(todo) + (IF pc = "escaped" THEN 2 ELSE 1)

\* Bytes that the frame being taken apart has given back, at least.
GivenBack ==
  IF parser.isBegin = "yes" THEN 1 + Cost(parser.buf) + (IF parser.isEsc THEN 1 ELSE 0) ELSE 0

\* A frame is added again into no less room than the last one discarded took.
RoomOfLast ==
  Adding /\ dropped # << >> => Len(ring) + FrameLen(LastDropped) <= Size + InRing

\* A frame is discarded from a ring that was full, for one longer than the last.
FullBefore ==
  pc = "parse" =>
    /\ Len(ring) + GivenBack <= Size
    /\ dropped # << >> => FrameLen(LastDropped) < FrameLen(packet)

\* The first of the frames discarded was too short, if there are more.
FirstTooShort ==
  Len(dropped) > 1 =>
    \E i \in 1 .. Len(dropped) - 1 : FrameLen(dropped[i]) < FrameLen(packet)

LossInv ==
  /\ dropped \in Seq(Seq(Byte))
  /\ pc = "begin" => todo = packet
  /\ pc = "parse" => parser.isBegin # "no"
  /\ call = "publish" /\ pc # "idle" => RoomOfLast /\ FullBefore /\ FirstTooShort
  /\ LossNeedsLongerFrame

LEMMA InitLoss == Init => LossInv
<1> SUFFICES ASSUME Init PROVE LossInv
  OBVIOUS
<1>1. pc = "idle" /\ dropped = << >> /\ result.call = "init"
  BY DEF Init, MQ!Reply
<1>2. dropped \in Seq(Seq(Byte))
  BY <1>1, EmptySeq
<1> QED
  BY <1>1, <1>2 DEF LossInv, LossNeedsLongerFrame

\* A byte goes into the ring, or the ring was full.
LEMMA PutOrFull ==
  ASSUME TypeOK, NEW b \in Byte, Ring!Put(b)
  PROVE  \/ io'.ret = 0 /\ Len(ring') = Len(ring) + 1
         \/ io'.ret = -1 /\ ring' = ring /\ Len(ring) = Size
  BY SizeAssumption DEF TypeOK, Ring!Put, Ring!PutReply

\* The types of what the invariant adds up.
LEMMA LossTypes ==
  ASSUME TypeOK, LossInv
  PROVE  /\ Len(ring) \in Nat /\ Len(ring) <= Size /\ Size \in Nat
         /\ Cost(packet) \in Nat /\ FrameLen(packet) = 2 + Cost(packet)
         /\ Cost(todo) \in Nat /\ Cost(parser.buf) \in Nat
         /\ FrameLen(parser.buf) = 2 + Cost(parser.buf)
         /\ dropped # << >> => FrameLen(LastDropped) \in Nat
<1>1. packet \in Seq(Byte) /\ todo \in Seq(Byte) /\ parser.buf \in Seq(Byte)
  BY DEF TypeOK, Parser
<1>2. dropped # << >> => LastDropped \in Seq(Byte)
  BY DEF LossInv, LastDropped
<1>3. dropped # << >> => FrameLen(LastDropped) \in Nat
  <2> SUFFICES ASSUME dropped # << >> PROVE FrameLen(LastDropped) \in Nat
    OBVIOUS
  <2>1. FrameLen(LastDropped) = 2 + Cost(LastDropped) /\ Cost(LastDropped) \in Nat
    BY <1>2, EscapedFinite
  <2> QED
    BY <2>1
<1>4. /\ Cost(packet) \in Nat /\ FrameLen(packet) = 2 + Cost(packet)
      /\ Cost(todo) \in Nat /\ Cost(parser.buf) \in Nat
      /\ FrameLen(parser.buf) = 2 + Cost(parser.buf)
  BY <1>1, EscapedFinite
<1>5. Len(ring) \in Nat /\ Len(ring) <= Size /\ Size \in Nat
  BY SizeAssumption DEF TypeOK
<1> QED
  BY <1>3, <1>4, <1>5

\* The parser that a publisher starts with, with nothing given back yet
LEMMA FreshGivesNothing == FreshParser.isBegin # "yes" /\ FreshParser.isBegin # "no"
  BY DEF FreshParser, Garbage

\* PROTO_AddRb refused a byte, in a full ring.
LEMMA FailedKeepsLoss ==
  ASSUME TypeOK, LossInv, Adding, PutsFailed, ring' = ring, Len(ring) = Size,
         InRing \in Int, InRing < FrameLen(packet), UNCHANGED <<call, packet, dropped>>
  PROVE  LossInv'
<1>1. CASE call = "reply" /\ Return(FALSE, packet)
  BY <1>1 DEF Return, MQ!Reply, LossInv, LossNeedsLongerFrame
<1>2. CASE call = "publish" /\ pc' = "parse" /\ parser' = FreshParser
  <2>1. GivenBack' = 0
    BY <1>2, FreshGivesNothing DEF GivenBack
  <2>2. dropped # << >> => FrameLen(LastDropped) < FrameLen(packet)
    BY <1>2, LossTypes DEF LossInv, RoomOfLast, Adding
  <2>3. FullBefore'
    BY <2>1, <2>2, LossTypes DEF FullBefore, LastDropped
  <2>4. ~Adding' /\ pc # "idle"
    BY <1>2 DEF Adding
  <2> QED
    BY <1>2, <2>3, <2>4, FreshGivesNothing
    DEF LossInv, RoomOfLast, FirstTooShort, LossNeedsLongerFrame
<1> QED
  BY <1>1, <1>2 DEF PutsFailed

\* A byte that is not the last
LEMMA AddByteKeepsLoss ==
  ASSUME TypeOK, LossInv, Adding, NEW b \in Byte, NEW next \in {"body", "escaped"},
         NEW rest, AddByte(b, next, rest), Cost(rest) \in Nat,
         Cost(packet) - Cost(rest) + (IF next = "escaped" THEN 2 ELSE 1) = InRing + 1,
         InRing \in Int, InRing < FrameLen(packet)
  PROVE  LossInv'
<1>1. CASE /\ io'.ret = 0 /\ Len(ring') = Len(ring) + 1
           /\ pc' = next /\ todo' = rest /\ UNCHANGED <<parser, result>>
  <2>1. UNCHANGED <<call, packet, dropped>>
    BY DEF AddByte
  <2>2. InRing' = InRing + 1
    BY <1>1, <2>1 DEF InRing, Cost, FrameLen
  <2>3. call = "publish" => RoomOfLast'
    <3> SUFFICES ASSUME Adding', dropped' # << >>,
                        call = "publish"
                 PROVE  Len(ring') + FrameLen(LastDropped)' <= Size + InRing'
      BY DEF RoomOfLast
    <3>1. dropped # << >> /\ FrameLen(LastDropped)' = FrameLen(LastDropped)
      BY <2>1 DEF LastDropped, FrameLen
    <3>2. Len(ring) \in Nat /\ Size \in Nat /\ FrameLen(LastDropped) \in Nat
      BY <3>1, LossTypes
    <3>3. Len(ring) + FrameLen(LastDropped) <= Size + InRing
      BY <3>1 DEF LossInv, RoomOfLast, Adding
    <3> QED
      BY <1>1, <2>2, <3>1, <3>2, <3>3
  <2> QED
    BY <1>1, <2>1, <2>3
    DEF LossInv, Adding, FullBefore, FirstTooShort, LossNeedsLongerFrame
<1>2. CASE io'.ret = -1 /\ PutsFailed /\ ring' = ring /\ Len(ring) = Size
  BY <1>2, FailedKeepsLoss DEF AddByte
<1> QED
  <2>1. Ring!Put(b)
    BY DEF AddByte
  <2>2. \/ io'.ret = 0 /\ Len(ring') = Len(ring) + 1
        \/ io'.ret = -1 /\ ring' = ring /\ Len(ring) = Size
    BY <2>1, PutOrFull
  <2> QED
    BY <1>1, <1>2, <2>2 DEF AddByte

\* Bytes of the frame that are in the ring, while there are more to come
LEMMA InRingBounds ==
  ASSUME TypeOK, LossInv, Adding
  PROVE  InRing \in Int /\ InRing < FrameLen(packet)
<1>1. CASE pc = "escaped"
  <2>1. todo \in Seq(Byte) /\ todo # << >> /\ Head(todo) \in Special /\ Tail(todo) \in Seq(Byte)
    BY <1>1 DEF TypeOK
  <2>2. Cost(todo) = Cost(Tail(todo)) + 2 /\ Cost(Tail(todo)) \in Nat
    BY <2>1, CostTail, EscapedFinite
  <2> QED
    BY <1>1, <2>2, LossTypes DEF InRing
<1>2. CASE pc \in {"begin", "body"}
  BY <1>2, LossTypes DEF InRing
<1> QED
  BY <1>1, <1>2 DEF Adding

LEMMA TodoCost ==
  ASSUME TypeOK, todo # << >>
  PROVE  /\ Head(todo) \in Byte /\ Tail(todo) \in Seq(Byte) /\ Cost(Tail(todo)) \in Nat
         /\ Cost(todo) = Cost(Tail(todo)) + (IF Head(todo) \in Special THEN 2 ELSE 1)
<1>1. todo \in Seq(Byte)
  BY DEF TypeOK
<1>2. Head(todo) \in Byte /\ Tail(todo) \in Seq(Byte)
  BY <1>1, HeadTailProperties
<1> QED
  BY <1>1, <1>2, CostTail, EscapedFinite

\* A byte that the parser takes gives back what it costs, or more.
LEMMA ParsedGivesBack ==
  ASSUME IInv, LossInv, pc = "parse", ring # << >>, ring[1] # END,
         NEW p \in ParsedTo(ring[1])
  PROVE  /\ p.isBegin = "yes" /\ p.buf \in Seq(Byte)
         /\ 1 + Cost(p.buf) + (IF p.isEsc THEN 1 ELSE 0) <= GivenBack + 1
<1>1. /\ TypeOK /\ ring[1] \in Byte /\ p \in Parser /\ parser \in Parser
      /\ p.isBegin # Garbage /\ parser.isBegin \in {"yes", Garbage}
  BY ParsedToOK, ParseByteSyncs DEF IInv, TypeOK, LossInv, Parser
<1>2. p.buf \in Seq(Byte) /\ Cost(p.buf) \in Nat /\ Cost(parser.buf) \in Nat
  BY <1>1, EscapedFinite DEF Parser
<1>3. GivenBack \in Nat
  BY <1>2 DEF GivenBack
<1>4. CASE ring[1] = BEGIN
  <2>1. p = [isBegin |-> "yes", isEsc |-> FALSE, buf |-> << >>]
    BY <1>4 DEF ParsedTo, BEGIN, ESC
  <2>2. p.isBegin = "yes" /\ ~p.isEsc /\ p.buf = << >>
    BY <2>1
  <2>3. Cost(p.buf) = 0
    BY <1>2, <2>2, CostEmpty
  <2> QED
    BY <1>2, <1>3, <2>2, <2>3
<1>5. CASE ring[1] # BEGIN
  <2>1. parser.isBegin = "yes"
    BY <1>1, <1>5 DEF IInv, StartsWithBegin
  <2>2. GivenBack = 1 + Cost(parser.buf) + (IF parser.isEsc THEN 1 ELSE 0)
    BY <2>1 DEF GivenBack
  <2>3. CASE ring[1] = ESC
    <3>1. p = [parser EXCEPT !.isEsc = TRUE]
      BY <2>3 DEF ParsedTo, BEGIN, ESC
    <3>2. p.isBegin = "yes" /\ p.isEsc /\ p.buf = parser.buf
      BY <1>1, <2>1, <3>1 DEF Parser
    <3> QED
      BY <1>2, <2>2, <3>2
  <2>4. CASE ring[1] # ESC
    <3> DEFINE c == IF parser.isEsc THEN Flip(ring[1]) ELSE ring[1]
    <3>1. p = DataByte(ring[1])
      BY <1>5, <2>1, <2>4 DEF ParsedTo
    <3>2. c \in Byte /\ (c \in Special => parser.isEsc)
      BY <1>1, <1>5, <2>4, FlipByte DEF Special
    <3>3. /\ p.isBegin = "yes" /\ ~p.isEsc
          /\ p.buf = IF Len(parser.buf) < MaxLen THEN Append(parser.buf, c) ELSE parser.buf
      BY <1>1, <2>1, <3>1 DEF DataByte, Parser
    <3>4. parser.buf \in Seq(Byte)
      BY <1>1 DEF Parser
    <3>5. Cost(Append(parser.buf, c)) = Cost(parser.buf) + (IF c \in Special THEN 2 ELSE 1)
      BY <3>2, <3>4, CostAppend
    <3> HIDE DEF c
    <3>6. Cost(p.buf) <= Cost(parser.buf) + (IF parser.isEsc THEN 2 ELSE 1)
      BY <1>2, <3>2, <3>3, <3>5
    <3> QED
      BY <1>2, <2>2, <3>3, <3>6
  <2> QED
    BY <2>3, <2>4
<1> QED
  BY <1>4, <1>5

LEMMA LossStep == IInv /\ LossInv /\ [Next]_vars => LossInv'
<1> SUFFICES ASSUME IInv, LossInv, [Next]_vars
             PROVE  LossInv'
  OBVIOUS
<1>0. TypeOK
  BY DEF IInv
<1>1. CASE AddBegin
  <2>1. Adding /\ InRing = 0 /\ BEGIN \in Byte
    BY <1>1 DEF AddBegin, Adding, InRing, BEGIN, Byte
  <2>2. todo = packet /\ Cost(packet) \in Nat /\ AddByte(BEGIN, "body", todo)
    BY <1>0, <1>1, LossTypes DEF AddBegin, LossInv
  <2>3. Cost(packet) - Cost(todo) + 1 = InRing + 1
    BY <2>1, <2>2
  <2>4. InRing \in Int /\ InRing < FrameLen(packet)
    BY <1>0, <2>1, InRingBounds
  <2> QED
    BY <1>0, <2>1, <2>2, <2>3, <2>4, AddByteKeepsLoss
<1>2. CASE AddPlain
  <2>1. Adding /\ InRing = Cost(packet) - Cost(todo) + 1
    BY <1>2 DEF AddPlain, Adding, InRing
  <2>2. /\ Head(todo) \in Byte /\ Cost(Tail(todo)) \in Nat
        /\ Cost(todo) = Cost(Tail(todo)) + 1
    BY <1>0, <1>2, TodoCost DEF AddPlain
  <2>3. Cost(packet) - Cost(Tail(todo)) + 1 = InRing + 1
    BY <1>0, <2>1, <2>2, LossTypes
  <2>4. InRing \in Int /\ InRing < FrameLen(packet)
    BY <1>0, <2>1, InRingBounds
  <2>5. AddByte(Head(todo), "body", Tail(todo))
    BY <1>2 DEF AddPlain
  <2> QED
    BY <1>0, <2>1, <2>2, <2>3, <2>4, <2>5, AddByteKeepsLoss
<1>3. CASE AddEscape
  <2>1. Adding /\ InRing = Cost(packet) - Cost(todo) + 1 /\ ESC \in Byte
    BY <1>3 DEF AddEscape, Adding, InRing, ESC, Byte
  <2>2. Cost(packet) - Cost(todo) + 2 = InRing + 1
    BY <1>0, <2>1, LossTypes
  <2>3. InRing \in Int /\ InRing < FrameLen(packet) /\ Cost(todo) \in Nat
    BY <1>0, <2>1, InRingBounds, LossTypes
  <2>4. AddByte(ESC, "escaped", todo)
    BY <1>3 DEF AddEscape
  <2> QED
    BY <1>0, <2>1, <2>2, <2>3, <2>4, AddByteKeepsLoss
<1>4. CASE AddEscaped
  <2>1. Adding /\ InRing = Cost(packet) - Cost(todo) + 2
    BY <1>4 DEF AddEscaped, Adding, InRing
  <2>2. /\ Flip(Head(todo)) \in Byte /\ Cost(Tail(todo)) \in Nat
        /\ Cost(todo) = Cost(Tail(todo)) + 2
    BY <1>0, <1>4, TodoCost, FlipByte DEF AddEscaped, TypeOK
  <2>3. Cost(packet) - Cost(Tail(todo)) + 1 = InRing + 1
    BY <1>0, <2>1, <2>2, LossTypes
  <2>4. InRing \in Int /\ InRing < FrameLen(packet)
    BY <1>0, <2>1, InRingBounds
  <2>5. AddByte(Flip(Head(todo)), "body", Tail(todo))
    BY <1>4 DEF AddEscaped
  <2> QED
    BY <1>0, <2>1, <2>2, <2>3, <2>4, <2>5, AddByteKeepsLoss
<1>5. CASE AddEnd
  <2>1. Adding /\ END \in Byte /\ Ring!Put(END) /\ UNCHANGED <<call, packet, dropped>>
    BY <1>5 DEF AddEnd, Adding, END, Byte
  <2>2. CASE /\ io'.ret = 0 /\ Return(TRUE, packet)
    <3>1. result'.ok /\ pc' = "idle" /\ pc # "idle" /\ (result'.call = call)
      BY <1>5, <2>2 DEF Return, MQ!Reply, AddEnd
    <3>2. call = "publish" => FirstTooShort
      BY <3>1 DEF LossInv
    <3> QED
      BY <2>1, <3>1, <3>2 DEF LossInv, FirstTooShort, LossNeedsLongerFrame
  <2>3. CASE io'.ret = -1 /\ PutsFailed
    <3>1. ring' = ring /\ Len(ring) = Size
      BY <1>0, <2>1, <2>3, PutOrFull
    <3>2. InRing \in Int /\ InRing < FrameLen(packet)
      BY <1>0, <2>1, InRingBounds
    <3> QED
      BY <1>0, <2>1, <2>3, <3>1, <3>2, FailedKeepsLoss
  <2> QED
    BY <1>5, <2>2, <2>3 DEF AddEnd
<1>6. CASE ParseByte
  <2>1. /\ pc = "parse" /\ pc' = "parse" /\ ring # << >> /\ ring[1] # END /\ Head(ring) = ring[1]
        /\ UNCHANGED <<call, packet, dropped, result>>
    BY <1>0, <1>6 DEF ParseByte, TypeOK
  <2>2. Len(ring') = Len(ring) - 1
    BY <1>0, <1>6, <2>1, HeadTailProperties DEF ParseByte, Ring!Get, TypeOK
  <2>3. /\ parser'.isBegin = "yes" /\ parser'.buf \in Seq(Byte)
        /\ 1 + Cost(parser'.buf) + (IF parser'.isEsc THEN 1 ELSE 0) <= GivenBack + 1
    BY <1>6, <2>1, ParsedGivesBack DEF ParseByte
  <2>4. GivenBack' = 1 + Cost(parser'.buf) + (IF parser'.isEsc THEN 1 ELSE 0)
    BY <2>3 DEF GivenBack, Cost, FrameLen
  <2>5. GivenBack \in Nat /\ Cost(parser'.buf) \in Nat /\ Len(ring) \in Nat /\ Size \in Nat
    BY <1>0, <2>3, LossTypes, EscapedFinite DEF GivenBack
  <2>6. GivenBack' \in Nat /\ GivenBack' <= GivenBack + 1
    BY <2>3, <2>4, <2>5
  <2>7. call = "publish" => Len(ring') + GivenBack' <= Size
    BY <2>1, <2>2, <2>5, <2>6 DEF LossInv, FullBefore
  <2> QED
    BY <2>1, <2>3, <2>7
    DEF LossInv, RoomOfLast, Adding, FullBefore, FirstTooShort, LastDropped,
        LossNeedsLongerFrame
<1>7. CASE ParseEnd
  <2>1. pc = "parse" /\ ring # << >> /\ ring[1] = END /\ UNCHANGED <<call, packet>>
    BY <1>0, <1>7 DEF ParseEnd, TypeOK
  <2>2. Len(ring') = Len(ring) - 1
    BY <1>0, <1>7, <2>1, HeadTailProperties DEF ParseEnd, Ring!Get, TypeOK
  <2>3. parser.isBegin = "yes"
    BY <1>0, <2>1 DEF IInv, StartsWithBegin, LossInv, TypeOK, Parser, BEGIN, END
  <2>4. CASE call = "task" /\ Return(TRUE, parser.buf) /\ UNCHANGED <<todo, dropped>>
    BY <2>1, <2>4 DEF Return, MQ!Reply, LossInv, LossNeedsLongerFrame
  <2>5. CASE call = "publish" /\ RetryPuts /\ dropped' = Append(dropped, parser.buf)
    <3>1. /\ dropped \in Seq(Seq(Byte)) /\ parser.buf \in Seq(Byte)
          /\ dropped' \in Seq(Seq(Byte)) /\ Len(dropped') = Len(dropped) + 1
          /\ LastDropped' = parser.buf /\ dropped' # << >> /\ Len(dropped) \in Nat
          /\ \A i \in 1 .. Len(dropped) : dropped'[i] = dropped[i]
      <4>1. dropped \in Seq(Seq(Byte)) /\ parser.buf \in Seq(Byte)
        BY <1>0 DEF LossInv, TypeOK, Parser
      <4>2. dropped' = Append(dropped, parser.buf)
        BY <2>5
      <4> QED
        BY <4>1, <4>2, AppendProperties DEF LastDropped
    <3>2. pc' = "begin" /\ todo' = packet' /\ InRing' = 0
      BY <2>1, <2>5 DEF RetryPuts, InRing
    <3>3. Len(ring) + GivenBack <= Size
      BY <2>1, <2>5 DEF LossInv, FullBefore
    <3>4. GivenBack >= 1 + Cost(parser.buf) /\ GivenBack \in Nat
      BY <1>0, <2>3, LossTypes DEF GivenBack
    <3>5. FrameLen(LastDropped)' = FrameLen(parser.buf)
      BY <3>1 DEF FrameLen
    <3>6. Len(ring') + FrameLen(LastDropped)' <= Size + InRing'
      BY <1>0, <2>2, <3>2, <3>3, <3>4, <3>5, LossTypes
    <3>7. FirstTooShort'
      <4> SUFFICES ASSUME Len(dropped') > 1
                   PROVE  \E i \in 1 .. Len(dropped') - 1 : FrameLen(dropped'[i]) < FrameLen(packet)
        BY <2>1 DEF FirstTooShort, FrameLen
      <4>1. dropped # << >>
        BY <3>1
      <4>2. FrameLen(LastDropped) < FrameLen(packet)
        BY <2>1, <2>5, <4>1 DEF LossInv, FullBefore
      <4>3. Len(dropped) \in 1 .. Len(dropped') - 1 /\ dropped'[Len(dropped)] = LastDropped
        BY <3>1, <4>1 DEF LastDropped
      <4> QED
        BY <4>2, <4>3
    <3> QED
      BY <2>1, <2>5, <3>1, <3>2, <3>6, <3>7
      DEF LossInv, RoomOfLast, FullBefore, LossNeedsLongerFrame
  <2> QED
    BY <1>7, <2>4, <2>5 DEF ParseEnd
<1>8. CASE ParseDry
  <2>1. /\ pc = "parse" /\ pc' = "idle" /\ result'.call = call
        /\ UNCHANGED <<call, packet, dropped>>
    BY <1>8 DEF ParseDry, NothingLeft, Return, MQ!Reply
  <2>2. call = "publish" => FirstTooShort /\ FullBefore
    BY <2>1 DEF LossInv
  <2> QED
    BY <2>1, <2>2 DEF LossInv, FirstTooShort, FullBefore, LastDropped, LossNeedsLongerFrame
<1>9. CASE QUEUE_Gets
  BY <1>9, FreshGivesNothing DEF QUEUE_Gets, LossInv, LossNeedsLongerFrame
<1>10. ASSUME NEW p \in Packets, NEW c \in {"publish", "reply"}, QUEUE_Puts(c, p)
       PROVE  LossInv'
  <2>1. dropped' = << >> /\ pc' = "begin" /\ todo' = packet' /\ dropped' \in Seq(Seq(Byte)) /\ Len(dropped') = 0
    BY <1>10, EmptySeq DEF QUEUE_Puts
  <2> QED
    BY <2>1 DEF LossInv, RoomOfLast, FullBefore, FirstTooShort, LossNeedsLongerFrame
<1>11. CASE UNCHANGED vars
  BY <1>11
  DEF vars, LossInv, RoomOfLast, Adding, InRing, FullBefore, GivenBack, FirstTooShort,
      LastDropped, LossNeedsLongerFrame, Cost, FrameLen
<1>12. QED
  BY <1>1, <1>2, <1>3, <1>4, <1>5, <1>6, <1>7, <1>8, <1>9, <1>10, <1>11
  DEF Next, Loop, Call

\* MQTT_Publish discards more than one message, or fails after discarding some, only
\* for a frame longer than one of those, for every ring size and set of messages.
THEOREM OnlyLongerFramesCost == Spec => []LossNeedsLongerFrame
<1>1. LossInv => LossNeedsLongerFrame
  BY DEF LossInv
<1>2. QED
  BY InitIInv, NextIInv, InitLoss, LossStep, <1>1, PTL DEF Spec

(***************************************************************************)
(* Refinement: FrameQueue implements MsgQueue, with the messages stored as *)
(* its queue.  The invariant says where in the ring each of them stands,   *)
(* by functions from the numbers of messages, and of a message's bytes, to *)
(* places in the ring; Nat and Int, so that no domain has to be kept.      *)
(***************************************************************************)

Places == [Nat -> Int]
Ends(s) == {i \in 1 .. Len(s) : s[i] = END}

\* The bytes j + 1 .. n of m end at the places g; an escape in front of the ring's
\* first byte is gone already.
Spelt(s, m, g, j, n) ==
  /\ \A i, l \in j .. n : i < l => g[i] < g[l]
  /\ g[n] <= Len(s)
  /\ \A i \in j + 1 .. n :
       /\ g[i] >= 1
       /\ \/ m[i] \notin Special /\ g[i] = g[i - 1] + 1 /\ s[g[i]] = m[i]
          \/ /\ m[i] \in Special /\ g[i] = g[i - 1] + 2 /\ s[g[i]] = Flip(m[i])
             /\ g[i - 1] >= 0 => s[g[i] - 1] = ESC

\* The frame of m, begun behind the place p, ends at e.
Whole(s, m, p, e) ==
  \E g \in Places :
    /\ g[0] > p /\ s[g[0]] = BEGIN
    /\ Spelt(s, m, g, 0, Len(m)) /\ g[Len(m)] = e - 1

\* The parser prs has j bytes of m, and the rest of its frame ends at e.
Begun(prs, s, m, e) ==
  \E g \in Places, j \in 0 .. Len(m) :
    /\ prs.isBegin = "yes" /\ prs.buf = SubSeq(m, 1, j)
    /\ g[j] = IF prs.isEsc THEN -1 ELSE 0
    /\ prs.isEsc => j < Len(m) /\ m[j + 1] \in Special
    /\ Spelt(s, m, g, j, Len(m)) /\ g[Len(m)] = e - 1

\* The messages end where the ring has a 7F, in order.
Apart(s, msgs, e) ==
  /\ Ends(s) = {e[k] : k \in 1 .. Len(msgs)}
  /\ \A k, l \in 1 .. Len(msgs) : k < l => e[k] < e[l]

Before(e, k) == IF k = 1 THEN 0 ELSE e[k - 1]

\* Each of them has its frame in the ring, but for the one that is taken apart.
Stands(s, msgs, prs, parsing, e) ==
  /\ Apart(s, msgs, e)
  /\ \A k \in 1 .. Len(msgs) :
       \/ Whole(s, msgs[k], Before(e, k), e[k])
       \/ k = 1 /\ parsing /\ Begun(prs, s, msgs[k], e[k])

\* The frame being added has n bytes of m, and stands behind all of them.
Partial(s, m, n, escaped) ==
  \E g \in Places :
    /\ g[0] >= 1 /\ s[g[0]] = BEGIN /\ \A i \in Ends(s) : i < g[0]
    /\ Spelt(s, m, g, 0, n)
    /\ \/ ~escaped /\ g[n] = Len(s)
       \/ escaped /\ g[n] = Len(s) - 1 /\ s[Len(s)] = ESC

Done == Len(packet) - Len(todo)
TodoIsRest ==
  /\ Len(todo) <= Len(packet)
  /\ \A i \in 1 .. Len(todo) : todo[i] = packet[Done + i]

QueueInv ==
  /\ stored \in Seq(Packets)
  /\ Adding \/ (pc = "parse" /\ call = "publish") => packet \in Packets
  /\ Adding => TodoIsRest
  /\ pc = "begin" => Len(todo) = Len(packet)
  /\ pc \in {"body", "escaped"} => Partial(ring, packet, Done, pc = "escaped")
  /\ \E e \in Places : Stands(ring, stored, parser, pc = "parse", e)

\* value ^ 0x20, twice
LEMMA FlipTwice ==
  ASSUME NEW b \in Special
  PROVE  Flip(Flip(b)) = b
  BY DEF Special, BEGIN, END, ESC, Flip

LEMMA PacketType ==
  ASSUME NEW m \in Packets
  PROVE  m \in Seq(Byte) /\ Len(m) \in Nat /\ Len(m) <= MaxLen
  BY PacketAssumption

\* A byte more, or less, of the same frame
LEMMA SpeltLater ==
  ASSUME NEW s, NEW m, NEW g \in Places, NEW j \in Nat, NEW n \in Nat, j < n,
         Spelt(s, m, g, j, n)
  PROVE  Spelt(s, m, g, j + 1, n)
  BY DEF Spelt

\* The ring grows at its end.
LEMMA SpeltAppend ==
  ASSUME NEW s \in Seq(Byte), NEW b \in Byte, NEW m, NEW g \in Places, NEW j \in Nat,
         NEW n \in Nat, j <= n, Spelt(s, m, g, j, n)
  PROVE  Spelt(Append(s, b), m, g, j, n)
<1> DEFINE t == Append(s, b)
<1>1. Len(t) = Len(s) + 1 /\ Len(s) \in Nat /\ \A i \in 1 .. Len(s) : t[i] = s[i]
  OBVIOUS
<1> HIDE DEF t
<1>2. g[n] <= Len(t)
  BY <1>1 DEF Spelt, Places
<1>3. ASSUME NEW i \in j + 1 .. n
      PROVE  /\ g[i] >= 1
             /\ \/ m[i] \notin Special /\ g[i] = g[i - 1] + 1 /\ t[g[i]] = m[i]
                \/ /\ m[i] \in Special /\ g[i] = g[i - 1] + 2 /\ t[g[i]] = Flip(m[i])
                   /\ g[i - 1] >= 0 => t[g[i] - 1] = ESC
  <2>1. i \in Nat /\ i - 1 \in Nat /\ n \in j .. n /\ i \in j .. n
    BY <1>3
  <2>2. g[i] \in Int /\ g[i - 1] \in Int /\ g[n] \in Int
    BY <2>1 DEF Places
  <2>3. g[i] <= g[n] /\ g[n] <= Len(s) /\ g[i] >= 1
    BY <1>3, <2>1, <2>2 DEF Spelt
  <2>4. t[g[i]] = s[g[i]]
    BY <1>1, <2>2, <2>3
  <2>5. g[i] = g[i - 1] + 2 /\ g[i - 1] >= 0 => t[g[i] - 1] = s[g[i] - 1]
    BY <1>1, <2>2, <2>3
  <2> QED
    BY <1>3, <2>3, <2>4, <2>5 DEF Spelt
<1>4. \A i, l \in j .. n : i < l => g[i] < g[l]
  BY DEF Spelt
<1>5. Spelt(t, m, g, j, n)
  BY <1>2, <1>3, <1>4 DEF Spelt
<1> QED
  BY <1>5 DEF t

\* The ring's first byte goes, and is none of those.
LEMMA SpeltShift ==
  ASSUME NEW s \in Seq(Byte), s # << >>, NEW m, NEW g \in Places, NEW j \in Nat,
         NEW n \in Nat, j <= n, Spelt(s, m, g, j, n),
         \A i \in j + 1 .. n : g[i] >= 2
  PROVE  Spelt(Tail(s), m, [i \in Nat |-> g[i] - 1], j, n)
<1> DEFINE t == Tail(s)
           h == [i \in Nat |-> g[i] - 1]
<1>1. Len(t) = Len(s) - 1 /\ Len(s) \in Nat /\ \A i \in 1 .. Len(s) - 1 : t[i] = s[i + 1]
  BY HeadTailProperties
<1>2. \A i \in Nat : h[i] = g[i] - 1 /\ g[i] \in Int
  BY DEF Places
<1> HIDE DEF t, h
<1>3. h[n] <= Len(t)
  BY <1>1, <1>2 DEF Spelt
<1>4. \A i, l \in j .. n : i < l => h[i] < h[l]
  <2> SUFFICES ASSUME NEW i \in j .. n, NEW l \in j .. n, i < l
               PROVE  h[i] < h[l]
    OBVIOUS
  <2>1. i \in Nat /\ l \in Nat /\ g[i] < g[l]
    BY DEF Spelt
  <2> QED
    BY <1>2, <2>1
<1>5. ASSUME NEW i \in j + 1 .. n
      PROVE  /\ h[i] >= 1
             /\ \/ m[i] \notin Special /\ h[i] = h[i - 1] + 1 /\ t[h[i]] = m[i]
                \/ /\ m[i] \in Special /\ h[i] = h[i - 1] + 2 /\ t[h[i]] = Flip(m[i])
                   /\ h[i - 1] >= 0 => t[h[i] - 1] = ESC
  <2>1. i \in Nat /\ i - 1 \in Nat /\ n \in j .. n /\ i \in j .. n
    BY <1>5
  <2>2. /\ g[i] \in Int /\ g[i - 1] \in Int /\ g[n] \in Int
        /\ h[i] = g[i] - 1 /\ h[i - 1] = g[i - 1] - 1
    BY <1>2, <2>1
  <2>3. g[i] <= g[n] /\ g[n] <= Len(s) /\ g[i] >= 2
    BY <1>5, <2>1, <2>2 DEF Spelt
  <2>4. t[h[i]] = s[g[i]]
    BY <1>1, <2>2, <2>3
  <2>5. ASSUME h[i] = h[i - 1] + 2, h[i - 1] >= 0 PROVE t[h[i] - 1] = s[g[i] - 1]
    <3>1. g[i] - 2 \in 1 .. Len(s) - 1
      BY <1>1, <2>2, <2>3, <2>5
    <3>2. t[g[i] - 2] = s[(g[i] - 2) + 1]
      BY <1>1, <3>1
    <3>3. (g[i] - 2) + 1 = g[i] - 1 /\ h[i] - 1 = g[i] - 2
      BY <2>2
    <3> QED
      BY <3>2, <3>3
  <2>6. CASE m[i] \notin Special /\ g[i] = g[i - 1] + 1 /\ s[g[i]] = m[i]
    BY <2>2, <2>3, <2>4, <2>6
  <2>7. CASE /\ m[i] \in Special /\ g[i] = g[i - 1] + 2 /\ s[g[i]] = Flip(m[i])
             /\ g[i - 1] >= 0 => s[g[i] - 1] = ESC
    BY <2>2, <2>3, <2>4, <2>5, <2>7
  <2> QED
    BY <1>5, <2>6, <2>7 DEF Spelt
<1>6. Spelt(t, m, h, j, n)
  BY <1>3, <1>4, <1>5 DEF Spelt
<1> QED
  BY <1>6 DEF t, h

\* A frame stays whole when the ring grows ...
LEMMA WholeAppend ==
  ASSUME NEW s \in Seq(Byte), NEW b \in Byte, NEW m \in Packets, NEW p \in Nat,
         NEW e \in Int, Whole(s, m, p, e)
  PROVE  Whole(Append(s, b), m, p, e)
<1>1. PICK g \in Places :
        /\ g[0] > p /\ s[g[0]] = BEGIN
        /\ Spelt(s, m, g, 0, Len(m)) /\ g[Len(m)] = e - 1
  BY DEF Whole
<1>2. Len(m) \in Nat
  BY PacketType
<1>3. Spelt(Append(s, b), m, g, 0, Len(m))
  BY <1>1, <1>2, SpeltAppend
<1>4. g[0] \in 1 .. Len(s)
  <2>1. g[0] \in Int /\ g[Len(m)] \in Int
    BY <1>2 DEF Places
  <2>2. g[0] <= g[Len(m)] /\ g[Len(m)] <= Len(s)
    BY <1>1, <1>2, <2>1 DEF Spelt
  <2> QED
    BY <1>1, <2>1, <2>2
<1>5. Append(s, b)[g[0]] = BEGIN
  BY <1>1, <1>4
<1> QED
  BY <1>1, <1>3, <1>5 DEF Whole

\* ... and when it loses its first byte.
LEMMA WholeShift ==
  ASSUME NEW s \in Seq(Byte), s # << >>, NEW m \in Packets, NEW p \in Nat, p >= 1,
         NEW e \in Int, Whole(s, m, p, e)
  PROVE  Whole(Tail(s), m, p - 1, e - 1)
<1>1. PICK g \in Places :
        /\ g[0] > p /\ s[g[0]] = BEGIN
        /\ Spelt(s, m, g, 0, Len(m)) /\ g[Len(m)] = e - 1
  BY DEF Whole
<1> DEFINE h == [i \in Nat |-> g[i] - 1]
<1>2. Len(m) \in Nat /\ g[0] \in Int /\ g[Len(m)] \in Int
  BY PacketType DEF Places
<1>3. g[0] >= 2 /\ g[0] - 1 > p - 1
  BY <1>1, <1>2
<1>4. \A i \in 1 .. Len(m) : g[i] >= 2
  <2> SUFFICES ASSUME NEW i \in 1 .. Len(m) PROVE g[i] >= 2
    OBVIOUS
  <2>1. g[i] \in Int /\ i \in 0 .. Len(m) /\ 0 \in 0 .. Len(m) /\ 0 < i
    BY <1>2 DEF Places
  <2>2. g[0] < g[i]
    BY <1>1, <2>1 DEF Spelt
  <2> QED
    BY <1>2, <1>3, <2>1, <2>2
<1>5. Spelt(Tail(s), m, h, 0, Len(m))
  BY <1>1, <1>2, <1>4, SpeltShift
<1>6. g[0] <= Len(s)
  <2>1. g[0] <= g[Len(m)] /\ g[Len(m)] <= Len(s)
    BY <1>1, <1>2 DEF Spelt
  <2> QED
    BY <1>2, <2>1
<1>7. Tail(s)[g[0] - 1] = BEGIN
  <2>1. \A i \in 1 .. Len(s) - 1 : Tail(s)[i] = s[i + 1]
    BY HeadTailProperties
  <2>2. g[0] - 1 \in 1 .. Len(s) - 1
    BY <1>2, <1>3, <1>6
  <2> QED
    BY <1>1, <1>2, <2>1, <2>2
<1>8. h \in Places /\ h[0] = g[0] - 1 /\ h[Len(m)] = e - 2
  BY <1>1, <1>2 DEF Places
<1> HIDE DEF h
<1>9. h[0] > p - 1 /\ h[Len(m)] = (e - 1) - 1
  BY <1>3, <1>8
<1>10. Tail(s)[h[0]] = BEGIN
  BY <1>7, <1>8, Zenon
<1> QED
  BY <1>5, <1>8, <1>9, <1>10 DEF Whole

LEMMA EndsAppend ==
  ASSUME NEW s \in Seq(Byte), NEW b \in Byte
  PROVE  Ends(Append(s, b)) = IF b = END THEN Ends(s) \cup {Len(s) + 1} ELSE Ends(s)
<1> DEFINE t == Append(s, b)
<1>1. /\ Len(t) = Len(s) + 1 /\ Len(s) \in Nat /\ t[Len(s) + 1] = b
      /\ \A i \in 1 .. Len(s) : t[i] = s[i]
  OBVIOUS
<1> HIDE DEF t
<1>2. Ends(t) = IF b = END THEN Ends(s) \cup {Len(s) + 1} ELSE Ends(s)
  BY <1>1 DEF Ends
<1> QED
  BY <1>2 DEF t

LEMMA EndsTail ==
  ASSUME NEW s \in Seq(Byte), s # << >>, NEW i \in Int
  PROVE  i \in Ends(Tail(s)) <=> i >= 1 /\ i + 1 \in Ends(s)
<1>1. Len(Tail(s)) = Len(s) - 1 /\ Len(s) \in Nat /\ \A k \in 1 .. Len(s) - 1 : Tail(s)[k] = s[k + 1]
  BY HeadTailProperties
<1> QED
  BY <1>1 DEF Ends

\* Where the k-th message ends, and the one before it
LEMMA EndPlaces ==
  ASSUME NEW s \in Seq(Byte), NEW msgs \in Seq(Packets), NEW e \in Places, Apart(s, msgs, e),
         NEW k \in 1 .. Len(msgs)
  PROVE  /\ e[k] \in 1 .. Len(s) /\ s[e[k]] = END
         /\ Before(e, k) \in Nat /\ k \in Nat /\ msgs[k] \in Packets
         /\ k > 1 => e[k - 1] \in 1 .. Len(s) /\ Before(e, k) = e[k - 1] /\ e[k - 1] < e[k]
<1>1. \A l \in 1 .. Len(msgs) : e[l] \in 1 .. Len(s) /\ s[e[l]] = END
  BY DEF Apart, Ends
<1>2. k \in Nat /\ Len(msgs) \in Nat /\ msgs[k] \in Packets
  OBVIOUS
<1>3. k > 1 => k - 1 \in 1 .. Len(msgs)
  BY <1>2
<1>4. k > 1 => e[k - 1] \in 1 .. Len(s) /\ Before(e, k) = e[k - 1] /\ e[k - 1] < e[k]
  BY <1>1, <1>2, <1>3 DEF Before, Apart
<1>5. Before(e, k) \in Nat
  BY <1>2, <1>4 DEF Before
<1> QED
  BY <1>1, <1>2, <1>4, <1>5

\* Outside PROTO_ParseRb every frame is whole, whatever the parser is left with.
LEMMA StandsForAny ==
  ASSUME NEW s, NEW msgs, NEW prs, NEW e, Stands(s, msgs, prs, FALSE, e), NEW q, NEW parsing
  PROVE  Stands(s, msgs, q, parsing, e)
  BY DEF Stands

\* A byte of a frame being added leaves the messages as they are.
LEMMA StandsAppend ==
  ASSUME NEW s \in Seq(Byte), NEW msgs \in Seq(Packets), NEW prs, NEW e \in Places,
         Stands(s, msgs, prs, FALSE, e), NEW b \in Byte, b # END
  PROVE  Stands(Append(s, b), msgs, prs, FALSE, e)
<1>1. Apart(Append(s, b), msgs, e)
  <2>1. Ends(Append(s, b)) = Ends(s)
    BY EndsAppend
  <2> QED
    BY <2>1 DEF Stands, Apart
<1>2. ASSUME NEW k \in 1 .. Len(msgs)
      PROVE  Whole(Append(s, b), msgs[k], Before(e, k), e[k])
  <2>1. Whole(s, msgs[k], Before(e, k), e[k]) /\ Apart(s, msgs, e)
    BY DEF Stands
  <2>2. e[k] \in Int /\ Before(e, k) \in Nat /\ msgs[k] \in Packets
    BY <2>1, EndPlaces
  <2> QED
    BY <2>1, <2>2, WholeAppend
<1> QED
  BY <1>1, <1>2 DEF Stands

\* A frame is complete, and so a message more is stored.
LEMMA StandsEnd ==
  ASSUME NEW s \in Seq(Byte), NEW msgs \in Seq(Packets), NEW prs, NEW e \in Places,
         Stands(s, msgs, prs, FALSE, e), NEW m \in Packets, Partial(s, m, Len(m), FALSE)
  PROVE  \E f \in Places : Stands(Append(s, END), Append(msgs, m), prs, FALSE, f)
<1>1. END \in Byte /\ Len(s) \in Nat /\ Len(m) \in Nat
  BY PacketType DEF END, Byte
<1>2. PICK g \in Places :
        /\ g[0] >= 1 /\ s[g[0]] = BEGIN /\ \A i \in Ends(s) : i < g[0]
        /\ Spelt(s, m, g, 0, Len(m)) /\ g[Len(m)] = Len(s)
  BY DEF Partial
<1> DEFINE n == Len(msgs)
           f == [e EXCEPT ![n + 1] = Len(s) + 1]
           t == Append(s, END)
           more == Append(msgs, m)
<1>3. /\ n \in Nat /\ Len(more) = n + 1 /\ more[n + 1] = m
      /\ \A k \in 1 .. n : more[k] = msgs[k]
  OBVIOUS
<1>4. f \in Places /\ f[n + 1] = Len(s) + 1 /\ \A k \in 1 .. n : f[k] = e[k]
  BY <1>1, <1>3 DEF Places
<1>5. Apart(s, msgs, e)
  BY DEF Stands
<1>6. \A k \in 1 .. n : e[k] \in 1 .. Len(s) /\ Before(e, k) \in Nat /\ msgs[k] \in Packets
  BY <1>5, EndPlaces
<1>7. \A k \in 1 .. n : Before(f, k) = Before(e, k)
  BY <1>3, <1>4 DEF Before
<1>8. Before(f, n + 1) = IF n = 0 THEN 0 ELSE e[n]
  BY <1>3, <1>4 DEF Before
<1>9. Ends(t) = Ends(s) \cup {Len(s) + 1}
  BY <1>1, EndsAppend
<1>10. Ends(s) = {e[k] : k \in 1 .. n} /\ \A k, l \in 1 .. n : k < l => e[k] < e[l]
  BY <1>5 DEF Apart
<1>11. \A k \in 1 .. n : Whole(t, msgs[k], Before(e, k), e[k])
  <2> SUFFICES ASSUME NEW k \in 1 .. n PROVE Whole(t, msgs[k], Before(e, k), e[k])
    OBVIOUS
  <2>1. Whole(s, msgs[k], Before(e, k), e[k])
    BY DEF Stands
  <2>2. Before(e, k) \in Nat /\ e[k] \in Int /\ msgs[k] \in Packets
    BY <1>6
  <2> QED
    BY <1>1, <2>1, <2>2, WholeAppend
<1>12. Spelt(t, m, g, 0, Len(m))
  BY <1>1, <1>2, SpeltAppend
<1>13. g[0] \in 1 .. Len(s) /\ t[g[0]] = BEGIN
  <2>1. g[0] \in Int /\ g[Len(m)] \in Int
    BY <1>1 DEF Places
  <2>2. g[0] <= g[Len(m)]
    BY <1>1, <1>2, <2>1 DEF Spelt
  <2> QED
    BY <1>1, <1>2, <2>1, <2>2
<1> HIDE DEF f, n, t, more
<1>14. Apart(t, more, f)
  <2>1. {f[k] : k \in 1 .. n + 1} = {e[k] : k \in 1 .. n} \cup {Len(s) + 1}
    BY <1>3, <1>4
  <2>2. ASSUME NEW k \in 1 .. n + 1, NEW l \in 1 .. n + 1, k < l
        PROVE  f[k] < f[l]
    <3>1. k \in 1 .. n /\ f[k] = e[k] /\ e[k] \in 1 .. Len(s)
      BY <1>3, <1>4, <1>6, <2>2
    <3>2. CASE l = n + 1
      BY <1>1, <1>4, <3>1, <3>2
    <3>3. CASE l \in 1 .. n
      BY <1>4, <1>10, <2>2, <3>1, <3>3
    <3> QED
      BY <1>3, <3>2, <3>3
  <2> QED
    BY <1>3, <1>9, <1>10, <2>1, <2>2 DEF Apart
<1>15. Whole(t, m, Before(f, n + 1), f[n + 1])
  <2>1. g[0] > Before(f, n + 1)
    <3>1. n # 0 => e[n] \in Ends(s)
      BY <1>3, <1>10
    <3> QED
      BY <1>2, <1>8, <1>13, <3>1
  <2>2. g[Len(m)] = f[n + 1] - 1
    BY <1>1, <1>2, <1>4
  <2> QED
    BY <1>12, <1>13, <2>1, <2>2 DEF Whole
<1>16. ASSUME NEW k \in 1 .. n + 1
       PROVE  Whole(t, more[k], Before(f, k), f[k])
  <2>1. CASE k = n + 1
    BY <1>3, <1>15, <2>1
  <2>2. CASE k \in 1 .. n
    <3>1. more[k] = msgs[k] /\ Before(f, k) = Before(e, k) /\ f[k] = e[k]
      BY <1>3, <1>4, <1>7, <2>2
    <3> QED
      BY <1>11, <2>2, <3>1
  <2> QED
    BY <1>3, <2>1, <2>2
<1>17. Stands(t, more, prs, FALSE, f)
  BY <1>3, <1>14, <1>16 DEF Stands
<1> QED
  BY <1>4, <1>17 DEF t, more

\* A byte more of the message
LEMMA SubSeqMore ==
  ASSUME NEW m \in Seq(Byte), NEW j \in Nat, j < Len(m)
  PROVE  /\ Len(SubSeq(m, 1, j)) = j
         /\ Append(SubSeq(m, 1, j), m[j + 1]) = SubSeq(m, 1, j + 1)
<1> DEFINE a == SubSeq(m, 1, j)
           b == SubSeq(m, 1, j + 1)
<1>1. Len(m) \in Nat /\ \A i \in 1 .. Len(m) : m[i] \in Byte
  OBVIOUS
<1>2. a \in Seq(Byte) /\ Len(a) = j /\ \A i \in 1 .. j : a[i] = m[i]
  <2>1. \A i \in 1 .. j : m[i] \in Byte
    BY <1>1
  <2> QED
    BY <2>1, SubSeqProperties
<1>3. b \in Seq(Byte) /\ Len(b) = j + 1 /\ \A i \in 1 .. j + 1 : b[i] = m[i]
  <2>1. \A i \in 1 .. j + 1 : m[i] \in Byte
    BY <1>1
  <2> QED
    BY <2>1, SubSeqProperties
<1>4. m[j + 1] \in Byte
  BY <1>1
<1> HIDE DEF a, b
<1>5. Append(a, m[j + 1]) = b
  <2>1. /\ Append(a, m[j + 1]) \in Seq(Byte) /\ Len(Append(a, m[j + 1])) = Len(b)
        /\ \A i \in 1 .. Len(Append(a, m[j + 1])) : Append(a, m[j + 1])[i] = b[i]
    BY <1>2, <1>3, <1>4
  <2> QED
    BY <1>3, <2>1, SeqEqual
<1> QED
  BY <1>2, <1>5 DEF a, b

\* The parser takes a byte of a message that is not its last.
LEMMA BegunByte ==
  ASSUME parser \in Parser, NEW s \in Seq(Byte), s # << >>, s[1] # END,
         NEW m \in Packets, NEW e \in Int, s[e] = END, Begun(parser, s, m, e), NEW q \in ParsedTo(s[1])
  PROVE  Begun(q, Tail(s), m, e - 1)
<1>1. PICK g \in Places, j \in 0 .. Len(m) :
        /\ parser.isBegin = "yes" /\ parser.buf = SubSeq(m, 1, j)
        /\ g[j] = IF parser.isEsc THEN -1 ELSE 0
        /\ parser.isEsc => j < Len(m) /\ m[j + 1] \in Special
        /\ Spelt(s, m, g, j, Len(m)) /\ g[Len(m)] = e - 1
  BY DEF Begun
<1>2. /\ m \in Seq(Byte) /\ Len(m) \in Nat /\ Len(m) <= MaxLen /\ MaxLen \in Nat
      /\ j \in Nat /\ j <= Len(m)
      /\ parser.isEsc \in BOOLEAN /\ parser.buf \in Seq(Byte) /\ s[1] \in Byte
  BY PacketType, PacketAssumption DEF Parser
<1>3. \A i \in Nat : g[i] \in Int
  BY DEF Places
<1> DEFINE h == [i \in Nat |-> g[i] - 1]
<1>4. h \in Places /\ \A i \in Nat : h[i] = g[i] - 1
  BY <1>3 DEF Places
<1>5. \A i, l \in j .. Len(m) : i < l => g[i] < g[l]
  BY <1>1 DEF Spelt
<1> HIDE DEF h
<1>6. CASE s[1] = ESC /\ j < Len(m) /\ ~parser.isEsc /\ g[j + 1] = 2 /\ m[j + 1] \in Special
  <2>1. q = [parser EXCEPT !.isEsc = TRUE]
    BY <1>6 DEF ParsedTo, BEGIN, ESC
  <2>2. q.isEsc = TRUE /\ q.isBegin = "yes" /\ q.buf = SubSeq(m, 1, j)
    BY <1>1, <2>1 DEF Parser
  <2>3. ASSUME NEW i \in j + 1 .. Len(m) PROVE g[i] >= 2
    <3>1. i = j + 1 \/ (i > j + 1 /\ g[j + 1] < g[i])
      BY <1>2, <1>5, <1>6
    <3> QED
      BY <1>2, <1>3, <1>6, <3>1
  <2>4. Spelt(Tail(s), m, h, j, Len(m))
    BY <1>1, <1>2, <2>3, SpeltShift DEF h
  <2>5. h[j] = -1 /\ h[Len(m)] = (e - 1) - 1
    BY <1>1, <1>2, <1>4, <1>6
  <2> QED
    BY <1>2, <1>4, <1>6, <2>2, <2>4, <2>5 DEF Begun
<1>7. CASE /\ j < Len(m) /\ g[j + 1] = 1 /\ s[1] \notin Special
           /\ m[j + 1] = IF parser.isEsc THEN Flip(s[1]) ELSE s[1]
  <2>1. q = DataByte(s[1])
    BY <1>1, <1>7 DEF ParsedTo, Special
  <2>2. Len(parser.buf) = j /\ Append(parser.buf, m[j + 1]) = SubSeq(m, 1, j + 1)
    BY <1>1, <1>2, <1>7, SubSeqMore
  <2>3. q.isEsc = FALSE /\ q.isBegin = "yes" /\ q.buf = SubSeq(m, 1, j + 1)
    <3>1. Len(parser.buf) < MaxLen
      BY <1>2, <1>7, <2>2
    <3>2. q = [parser EXCEPT !.isEsc = FALSE, !.buf = Append(parser.buf, m[j + 1])]
      BY <1>7, <2>1, <3>1 DEF Parser, DataByte
    <3> QED
      BY <1>1, <2>2, <3>2 DEF Parser
  <2>4. ASSUME NEW i \in (j + 1) + 1 .. Len(m) PROVE g[i] >= 2
    <3>1. g[j + 1] < g[i]
      BY <1>2, <1>5, <1>7
    <3> QED
      BY <1>2, <1>3, <1>7, <3>1
  <2>5. Spelt(s, m, g, j + 1, Len(m))
    BY <1>1, <1>2, <1>7, SpeltLater
  <2>6. Spelt(Tail(s), m, h, j + 1, Len(m))
    BY <1>2, <1>7, <2>4, <2>5, SpeltShift DEF h
  <2>7. h[j + 1] = 0 /\ h[Len(m)] = (e - 1) - 1 /\ j + 1 \in 0 .. Len(m)
    BY <1>1, <1>2, <1>4, <1>7
  <2> QED
    BY <1>4, <2>3, <2>6, <2>7 DEF Begun
<1>8. j < Len(m)
  <2> SUFFICES ASSUME j = Len(m) PROVE FALSE
    BY <1>2
  <2>1. ~parser.isEsc /\ e = 1
    BY <1>1, <1>2
  <2> QED
    BY <2>1
<1>9. /\ g[j + 1] >= 1
      /\ \/ m[j + 1] \notin Special /\ g[j + 1] = g[j] + 1 /\ s[g[j + 1]] = m[j + 1]
         \/ /\ m[j + 1] \in Special /\ g[j + 1] = g[j] + 2 /\ s[g[j + 1]] = Flip(m[j + 1])
            /\ g[j] >= 0 => s[g[j + 1] - 1] = ESC
  <2>1. j + 1 \in j + 1 .. Len(m) /\ (j + 1) - 1 = j
    BY <1>2, <1>8
  <2> QED
    BY <1>1, <2>1 DEF Spelt
<1>10. CASE m[j + 1] \notin Special
  <2>1. ~parser.isEsc /\ g[j + 1] = 1
    BY <1>1, <1>9, <1>10
  <2> QED
    BY <1>7, <1>8, <1>9, <1>10, <2>1
<1>11. CASE m[j + 1] \in Special /\ parser.isEsc
  <2>1. g[j + 1] = 1 /\ s[1] = Flip(m[j + 1])
    BY <1>1, <1>9, <1>11
  <2>2. s[1] \notin Special /\ Flip(s[1]) = m[j + 1]
    BY <1>11, <2>1, FlipSpecial, FlipTwice
  <2> QED
    BY <1>7, <1>8, <1>11, <2>1, <2>2
<1>12. CASE m[j + 1] \in Special /\ ~parser.isEsc
  <2>1. g[j + 1] = 2 /\ s[1] = ESC
    BY <1>1, <1>9, <1>12
  <2> QED
    BY <1>6, <1>8, <1>12, <2>1
<1> QED
  BY <1>2, <1>10, <1>11, <1>12

\* PROTO_ParseByte takes a byte that is no 7F: every message stays, and the oldest may
\* be in the parser in part.
LEMMA StandsByte ==
  ASSUME parser \in Parser, NEW s \in Seq(Byte), s # << >>, s[1] # END,
         NEW msgs \in Seq(Packets), NEW e \in Places, Stands(s, msgs, parser, TRUE, e),
         NEW q \in ParsedTo(s[1])
  PROVE  Stands(Tail(s), msgs, q, TRUE, [k \in Nat |-> e[k] - 1])
<1> DEFINE f == [k \in Nat |-> e[k] - 1]
           t == Tail(s)
           n == Len(msgs)
<1>1. Apart(s, msgs, e)
  BY DEF Stands
<1>2. \A k \in 1 .. n : /\ e[k] \in 1 .. Len(s) /\ s[e[k]] = END /\ msgs[k] \in Packets /\ k \in Nat
                        /\ k > 1 => e[k - 1] \in 1 .. Len(s) /\ Before(e, k) = e[k - 1]
  BY <1>1, EndPlaces
<1>3. n \in Nat /\ \A k \in 1 .. n : f[k] = e[k] - 1
  OBVIOUS
<1>4. \A k \in 1 .. n : Before(f, k) = IF k = 1 THEN 0 ELSE e[k - 1] - 1
  BY <1>3 DEF Before
<1> HIDE DEF f
<1>5. Apart(t, msgs, f)
  <2>1. Ends(s) = {e[k] : k \in 1 .. n}
    BY <1>1 DEF Apart
  <2>2. \A i \in Int : i \in Ends(t) <=> i >= 1 /\ i + 1 \in Ends(s)
    BY EndsTail
  <2>3. Ends(t) \subseteq Int
    BY DEF Ends
  <2>4. \A k \in 1 .. n : e[k] > 1
    BY <1>2
  <2>5. \A i \in Ends(t) : \E k \in 1 .. n : i = f[k]
    <3> SUFFICES ASSUME NEW i \in Ends(t) PROVE \E k \in 1 .. n : i = f[k]
      OBVIOUS
    <3>1. PICK k \in 1 .. n : i + 1 = e[k]
      BY <2>1, <2>2, <2>3
    <3>2. i \in Int /\ e[k] \in Int /\ f[k] = e[k] - 1
      BY <1>2, <1>3, <2>3
    <3> QED
      BY <3>1, <3>2
  <2>6. \A k \in 1 .. n : f[k] \in Ends(t)
    <3> SUFFICES ASSUME NEW k \in 1 .. n PROVE f[k] \in Ends(t)
      OBVIOUS
    <3>1. e[k] \in Int /\ f[k] = e[k] - 1 /\ f[k] + 1 = e[k] /\ f[k] >= 1 /\ f[k] \in Int
      BY <1>2, <1>3, <2>4
    <3> QED
      BY <2>1, <2>2, <3>1
  <2>7. Ends(t) = {f[k] : k \in 1 .. n}
    BY <2>5, <2>6
  <2>8. \A k, l \in 1 .. n : k < l => f[k] < f[l]
    BY <1>1, <1>2, <1>3 DEF Apart
  <2> QED
    BY <2>7, <2>8 DEF Apart
<1>6. ASSUME NEW k \in 1 .. n, k > 1
      PROVE  Whole(t, msgs[k], Before(f, k), f[k])
  <2>1. Whole(s, msgs[k], e[k - 1], e[k]) /\ e[k - 1] \in 1 .. Len(s)
    BY <1>2, <1>6 DEF Stands
  <2>2. e[k - 1] \in Nat /\ e[k - 1] >= 1 /\ e[k] \in Int /\ msgs[k] \in Packets
    BY <1>2, <2>1
  <2>3. Whole(t, msgs[k], e[k - 1] - 1, e[k] - 1)
    BY <2>1, <2>2, WholeShift
  <2> QED
    BY <1>3, <1>4, <1>6, <2>3
<1>7. ASSUME n >= 1
      PROVE  \/ Whole(t, msgs[1], Before(f, 1), f[1])
             \/ Begun(q, t, msgs[1], f[1])
  <2> DEFINE m == msgs[1]
  <2>1. /\ m \in Packets /\ Len(m) \in Nat /\ e[1] \in Int /\ s[e[1]] = END
        /\ f[1] = e[1] - 1 /\ Before(f, 1) = 0 /\ Before(e, 1) = 0
        /\ Whole(s, m, Before(e, 1), e[1]) \/ Begun(parser, s, m, e[1])
    <3>1. 1 \in 1 .. n
      BY <1>3, <1>7
    <3> QED
      BY <1>2, <1>3, <1>4, <3>1, PacketType DEF Stands, Before
  <2> HIDE DEF m
  <2>2. CASE Whole(s, m, 0, e[1])
    <3>1. PICK g \in Places :
            /\ g[0] > 0 /\ s[g[0]] = BEGIN
            /\ Spelt(s, m, g, 0, Len(m)) /\ g[Len(m)] = e[1] - 1
      BY <2>2 DEF Whole
    <3>2. CASE g[0] > 1
      <4>1. Whole(s, m, 1, e[1])
        BY <3>1, <3>2 DEF Whole
      <4> QED
        BY <2>1, <4>1, WholeShift DEF m
    <3>3. CASE g[0] = 1
      <4>1. q = [isBegin |-> "yes", isEsc |-> FALSE, buf |-> << >>]
        BY <3>1, <3>3 DEF ParsedTo, BEGIN, ESC
      <4> DEFINE h == [i \in Nat |-> g[i] - 1]
      <4>2. \A i \in 1 .. Len(m) : g[i] >= 2
        <5> SUFFICES ASSUME NEW i \in 1 .. Len(m) PROVE g[i] >= 2
          OBVIOUS
        <5>1. g[i] \in Int /\ i \in 0 .. Len(m) /\ 0 \in 0 .. Len(m) /\ 0 < i
          BY <2>1 DEF Places
        <5>2. g[0] < g[i]
          BY <3>1, <5>1 DEF Spelt
        <5> QED
          BY <3>3, <5>1, <5>2
      <4>3. Spelt(t, m, h, 0, Len(m))
        <5>1. Len(m) \in Nat /\ 0 <= Len(m)
          BY <2>1
        <5>2. Spelt(s, m, g, 0, Len(m))
          BY <3>1
        <5> QED
          BY <4>2, <5>1, <5>2, SpeltShift
      <4>4. h \in Places /\ h[0] = 0 /\ h[Len(m)] = (e[1] - 1) - 1
        BY <2>1, <3>1, <3>3 DEF Places
      <4>5. SubSeq(m, 1, 0) = << >> /\ 0 \in 0 .. Len(m)
        BY <2>1, SubSeqEmpty
      <4> HIDE DEF h
      <4>6. Begun(q, t, m, e[1] - 1)
        BY <4>1, <4>3, <4>4, <4>5 DEF Begun
      <4> QED
        BY <2>1, <4>6 DEF m
    <3>4. g[0] = 1 \/ g[0] > 1
      BY <3>1 DEF Places
    <3> QED
      BY <3>2, <3>3, <3>4
  <2>3. CASE Begun(parser, s, m, e[1])
    BY <2>1, <2>3, BegunByte DEF m
  <2> QED
    BY <2>1, <2>2, <2>3
<1> QED
  BY <1>3, <1>5, <1>6, <1>7 DEF Stands, f

\* A 7F completes the oldest message, and the parser has all of it.
LEMMA StandsLast ==
  ASSUME NEW s \in Seq(Byte), s # << >>, s[1] = END, NEW prs, NEW msgs \in Seq(Packets),
         NEW e \in Places, Stands(s, msgs, prs, TRUE, e), NEW q
  PROVE  /\ msgs # << >> /\ prs.buf = Head(msgs)
         /\ \E f \in Places : Stands(Tail(s), Tail(msgs), q, FALSE, f)
<1> DEFINE f == [k \in Nat |-> e[k + 1] - 1]
           t == Tail(s)
           n == Len(msgs)
<1>1. Apart(s, msgs, e)
  BY DEF Stands
<1>2. \A k \in 1 .. n : /\ e[k] \in 1 .. Len(s) /\ s[e[k]] = END /\ msgs[k] \in Packets /\ k \in Nat
                        /\ k > 1 => e[k - 1] \in 1 .. Len(s) /\ Before(e, k) = e[k - 1]
  BY <1>1, EndPlaces
<1>3. n \in Nat /\ Len(s) \in Nat
  OBVIOUS
<1>4. f \in Places /\ \A k \in Nat : f[k] = e[k + 1] - 1
  BY DEF Places
<1> HIDE DEF f
<1>5. n >= 1 /\ e[1] = 1
  <2>1. 1 \in Ends(s)
    BY <1>3 DEF Ends
  <2>2. PICK k \in 1 .. n : e[k] = 1
    BY <1>1, <2>1 DEF Apart
  <2>3. k > 1 => e[1] < e[k] /\ e[1] \in 1 .. Len(s)
    BY <1>1, <1>2, <1>3 DEF Apart
  <2> QED
    BY <1>3, <2>2, <2>3
<1> DEFINE m == msgs[1]
<1>6. m \in Packets /\ m \in Seq(Byte) /\ Len(m) \in Nat
  BY <1>2, <1>3, <1>5, PacketType
<1>7. msgs # << >> /\ Head(msgs) = m
  BY <1>3, <1>5
<1> HIDE DEF m
<1>8. ~ Whole(s, m, 0, 1)
  <2> SUFFICES ASSUME NEW g \in Places, g[0] > 0, Spelt(s, m, g, 0, Len(m)), g[Len(m)] = 1 - 1
               PROVE  FALSE
    BY DEF Whole
  <2>1. g[0] \in Int /\ g[Len(m)] \in Int
    BY <1>6 DEF Places
  <2>2. Len(m) > 0 => g[0] < g[Len(m)]
    BY <1>6 DEF Spelt
  <2> QED
    BY <1>6, <2>1, <2>2
<1>9. prs.buf = m
  <2>1. Begun(prs, s, m, 1)
    <3>1. 1 \in 1 .. n /\ Before(e, 1) = 0
      BY <1>3, <1>5 DEF Before
    <3> QED
      BY <1>5, <1>8, <3>1 DEF Stands, m
  <2>2. PICK g \in Places, j \in 0 .. Len(m) :
          /\ prs.buf = SubSeq(m, 1, j)
          /\ Spelt(s, m, g, j, Len(m)) /\ g[Len(m)] = 1 - 1
    BY <2>1 DEF Begun
  <2>3. j = Len(m)
    <3> SUFFICES ASSUME j < Len(m) PROVE FALSE
      BY <1>6
    <3>1. Len(m) \in j + 1 .. Len(m)
      BY <1>6
    <3>2. g[Len(m)] >= 1
      BY <2>2, <3>1 DEF Spelt
    <3> QED
      BY <2>2, <3>2
  <2> QED
    BY <1>6, <2>2, <2>3, SubSeqFull
<1> DEFINE rest == Tail(msgs)
<1>10. rest \in Seq(Packets) /\ Len(rest) = n - 1 /\ \A k \in 1 .. n - 1 : rest[k] = msgs[k + 1]
  BY <1>7, HeadTailProperties
<1> HIDE DEF rest, n
<1>11. Apart(t, rest, f)
  <2>1. Ends(s) = {e[k] : k \in 1 .. n} /\ \A k, l \in 1 .. n : k < l => e[k] < e[l]
    BY <1>1 DEF Apart, n
  <2>2. \A i \in Int : i \in Ends(t) <=> i >= 1 /\ i + 1 \in Ends(s)
    BY EndsTail
  <2>3. Ends(t) \subseteq Int
    BY DEF Ends
  <2>4. ASSUME NEW i \in Ends(t) PROVE \E k \in 1 .. n - 1 : i = f[k]
    <3>1. PICK k \in 1 .. n : i + 1 = e[k]
      BY <2>1, <2>2, <2>3
    <3>2. i \in Int /\ i >= 1 /\ e[k] \in Int
      BY <1>2, <2>2, <2>3 DEF n
    <3>3. k > 1
      BY <1>3, <1>5, <3>1, <3>2
    <3>4. k - 1 \in 1 .. n - 1 /\ k - 1 \in Nat /\ (k - 1) + 1 = k
      BY <1>3, <3>3
    <3>5. f[k - 1] = e[k] - 1
      BY <1>4, <3>4
    <3> QED
      BY <3>1, <3>2, <3>4, <3>5
  <2>5. ASSUME NEW k \in 1 .. n - 1 PROVE f[k] \in Ends(t) /\ f[k] = e[k + 1] - 1 /\ e[k + 1] \in Int
    <3>1. k + 1 \in 1 .. n /\ 1 \in 1 .. n /\ 1 < k + 1 /\ k \in Nat
      BY <1>3
    <3>2. e[k + 1] > 1 /\ e[k + 1] \in Int /\ e[k + 1] \in Ends(s)
      BY <1>2, <1>5, <2>1, <3>1 DEF n
    <3>3. f[k] = e[k + 1] - 1
      BY <1>4, <3>1
    <3>4. f[k] \in Int /\ f[k] >= 1 /\ f[k] + 1 = e[k + 1]
      BY <3>2, <3>3
    <3> QED
      BY <2>2, <3>2, <3>3, <3>4
  <2>6. Ends(t) = {f[k] : k \in 1 .. n - 1}
    BY <2>4, <2>5
  <2>7. ASSUME NEW k \in 1 .. n - 1, NEW l \in 1 .. n - 1, k < l PROVE f[k] < f[l]
    <3>1. k + 1 \in 1 .. n /\ l + 1 \in 1 .. n /\ k + 1 < l + 1
      BY <1>3, <2>7
    <3>2. e[k + 1] < e[l + 1]
      BY <2>1, <3>1
    <3> QED
      BY <2>5, <3>2
  <2> QED
    BY <1>10, <2>6, <2>7 DEF Apart
<1>12. ASSUME NEW k \in 1 .. n - 1
       PROVE  Whole(t, rest[k], Before(f, k), f[k])
  <2>1. k + 1 \in 1 .. n /\ k \in 1 .. n /\ k + 1 > 1 /\ (k + 1) - 1 = k /\ k + 1 # 1 /\ k \in Nat
    BY <1>3
  <2>2. Whole(s, msgs[k + 1], Before(e, k + 1), e[k + 1]) /\ Before(e, k + 1) = e[k]
    BY <1>2, <2>1 DEF Stands, n
  <2>3. e[k] \in Nat /\ e[k] >= 1 /\ e[k + 1] \in Int /\ msgs[k + 1] \in Packets
    BY <1>2, <2>1 DEF n
  <2>4. Whole(t, msgs[k + 1], e[k] - 1, e[k + 1] - 1)
    BY <2>2, <2>3, WholeShift
  <2>5. f[k] = e[k + 1] - 1
    BY <1>4, <2>1
  <2>6. Before(f, k) = e[k] - 1
    <3>1. CASE k = 1
      BY <1>5, <3>1 DEF Before
    <3>2. CASE k # 1
      <4>1. k - 1 \in Nat /\ (k - 1) + 1 = k
        BY <2>1, <3>2
      <4>2. f[k - 1] = e[k] - 1
        BY <1>4, <4>1
      <4> QED
        BY <3>2, <4>2 DEF Before
    <3> QED
      BY <3>1, <3>2
  <2> QED
    BY <1>10, <2>4, <2>5, <2>6
<1>13. Stands(t, rest, q, FALSE, f)
  BY <1>10, <1>11, <1>12 DEF Stands
<1> QED
  BY <1>4, <1>7, <1>9, <1>13 DEF t, rest

\* An empty ring holds no message.
LEMMA NoneStands ==
  ASSUME NEW msgs \in Seq(Packets), NEW e, NEW prs, NEW parsing,
         Stands(<< >>, msgs, prs, parsing, e)
  PROVE  msgs = << >>
<1>1. Ends(<< >>) = {e[k] : k \in 1 .. Len(msgs)}
  BY DEF Stands, Apart
<1>2. Ends(<< >>) = {}
  BY DEF Ends
<1>3. Len(msgs) \in Nat /\ (Len(msgs) = 0 <=> msgs = << >>)
  OBVIOUS
<1>4. ASSUME Len(msgs) > 0 PROVE FALSE
  <2>1. 1 \in 1 .. Len(msgs)
    BY <1>3, <1>4
  <2>2. e[1] \in Ends(<< >>)
    BY <1>1, <2>1
  <2> QED
    BY <1>2, <2>2
<1> QED
  BY <1>3, <1>4

\* A byte of the message is in the ring, whole or as the two bytes of an escape.
LEMMA SpeltMore ==
  ASSUME NEW s \in Seq(Byte), NEW b \in Byte, NEW m, NEW g \in Places, NEW n \in Nat,
         Spelt(s, m, g, 0, n),
         \/ m[n + 1] \notin Special /\ b = m[n + 1] /\ g[n] = Len(s)
         \/ m[n + 1] \in Special /\ b = Flip(m[n + 1]) /\ g[n] = Len(s) - 1 /\ s[Len(s)] = ESC,
         g[0] >= 1
  PROVE  \E h \in Places : /\ h[0] = g[0] /\ h[n + 1] = Len(s) + 1
                           /\ Spelt(Append(s, b), m, h, 0, n + 1)
<1> DEFINE h == [g EXCEPT ![n + 1] = Len(s) + 1]
           t == Append(s, b)
<1>1. /\ Len(s) \in Nat /\ Len(t) = Len(s) + 1 /\ t[Len(s) + 1] = b
      /\ \A i \in 1 .. Len(s) : t[i] = s[i]
  OBVIOUS
<1>2. h \in Places /\ h[n + 1] = Len(s) + 1 /\ \A i \in 0 .. n : h[i] = g[i] /\ g[i] \in Int
  BY <1>1 DEF Places
<1>3. Spelt(t, m, g, 0, n)
  BY SpeltAppend
<1>4. \A i \in 0 .. n : 1 <= g[i] /\ g[i] <= g[n] /\ g[n] <= Len(s)
  <2> SUFFICES ASSUME NEW i \in 0 .. n PROVE 1 <= g[i] /\ g[i] <= g[n] /\ g[n] <= Len(s)
    OBVIOUS
  <2>1. i > 0 => g[0] < g[i]
    BY DEF Spelt
  <2>2. i < n => g[i] < g[n]
    BY DEF Spelt
  <2>3. g[n] <= Len(s)
    BY DEF Spelt
  <2> QED
    BY <1>2, <2>1, <2>2, <2>3
<1> HIDE DEF h, t
<1>5. ASSUME NEW i \in 0 .. n + 1, NEW l \in 0 .. n + 1, i < l
      PROVE  h[i] < h[l]
  <2>1. i \in 0 .. n /\ h[i] = g[i] /\ g[i] \in Int
    BY <1>2, <1>5
  <2>2. CASE l = n + 1
    BY <1>1, <1>2, <1>4, <2>1, <2>2
  <2>3. CASE l \in 0 .. n
    <3>1. g[i] < g[l]
      BY <1>3, <1>5, <2>1, <2>3 DEF Spelt
    <3> QED
      BY <1>2, <2>1, <2>3, <3>1
  <2> QED
    BY <2>2, <2>3
<1>6. ASSUME NEW i \in 0 + 1 .. n + 1
      PROVE  /\ h[i] >= 1
             /\ \/ m[i] \notin Special /\ h[i] = h[i - 1] + 1 /\ t[h[i]] = m[i]
                \/ /\ m[i] \in Special /\ h[i] = h[i - 1] + 2 /\ t[h[i]] = Flip(m[i])
                   /\ h[i - 1] >= 0 => t[h[i] - 1] = ESC
  <2>1. CASE i = n + 1
    <3>1. /\ h[i] = Len(s) + 1 /\ i - 1 = n /\ h[n] = g[n] /\ g[n] \in Int
          /\ t[h[i]] = b /\ m[i] = m[n + 1] /\ h[i - 1] = g[n]
      BY <1>1, <1>2, <2>1
    <3>2. CASE m[n + 1] \notin Special /\ b = m[n + 1] /\ g[n] = Len(s)
      BY <1>1, <3>1, <3>2
    <3>3. CASE m[n + 1] \in Special /\ b = Flip(m[n + 1]) /\ g[n] = Len(s) - 1 /\ s[Len(s)] = ESC
      <4>1. Len(s) \in 1 .. Len(s)
        BY <1>1, <1>4, <3>3
      <4>2. t[Len(s)] = ESC /\ h[i] - 1 = Len(s)
        BY <1>1, <3>1, <3>3, <4>1
      <4>3. t[h[i] - 1] = ESC
        BY <4>2
      <4>4. h[i] >= 1 /\ h[i] = h[i - 1] + 2
        BY <1>1, <3>1, <3>3
      <4>5. m[i] \in Special /\ t[h[i]] = Flip(m[i])
        BY <3>1, <3>3
      <4> QED
        BY <4>3, <4>4, <4>5
    <3> QED
      BY <3>2, <3>3
  <2>2. CASE i \in 0 + 1 .. n
    <3>1. i \in 0 .. n /\ i - 1 \in 0 .. n
      BY <2>2
    <3>2. h[i] = g[i] /\ h[i - 1] = g[i - 1]
      BY <1>2, <3>1
    <3>3. /\ g[i] >= 1
          /\ \/ m[i] \notin Special /\ g[i] = g[i - 1] + 1 /\ t[g[i]] = m[i]
             \/ /\ m[i] \in Special /\ g[i] = g[i - 1] + 2 /\ t[g[i]] = Flip(m[i])
                /\ g[i - 1] >= 0 => t[g[i] - 1] = ESC
      BY <1>3, <2>2 DEF Spelt
    <3> QED
      BY <3>2, <3>3
  <2> QED
    BY <2>1, <2>2
<1>7. Spelt(t, m, h, 0, n + 1)
  BY <1>1, <1>2, <1>5, <1>6 DEF Spelt
<1> QED
  BY <1>2, <1>7 DEF t

\* The bytes a frame being added goes through
LEMMA PartialBegin ==
  ASSUME NEW s \in Seq(Byte), NEW m
  PROVE  Partial(Append(s, BEGIN), m, 0, FALSE)
<1> DEFINE g == [i \in Nat |-> Len(s) + 1]
           t == Append(s, BEGIN)
<1>1. Len(s) \in Nat /\ Len(t) = Len(s) + 1 /\ t[Len(s) + 1] = BEGIN /\ BEGIN \in Byte
  BY DEF BEGIN, Byte
<1>2. g \in Places /\ g[0] = Len(s) + 1
  BY <1>1 DEF Places
<1>3. Ends(t) = Ends(s)
  BY <1>1, EndsAppend DEF BEGIN, END
<1>4. \A i \in Ends(s) : i < Len(s) + 1
  BY <1>1 DEF Ends
<1> HIDE DEF g, t
<1>5. Spelt(t, m, g, 0, 0)
  BY <1>1, <1>2 DEF Spelt
<1>6. g[0] >= 1 /\ t[g[0]] = BEGIN /\ \A i \in Ends(t) : i < g[0]
  BY <1>1, <1>2, <1>3, <1>4
<1> QED
  BY <1>1, <1>2, <1>5, <1>6 DEF Partial, t

LEMMA PartialByte ==
  ASSUME NEW s \in Seq(Byte), NEW m, NEW n \in Nat, NEW b \in Byte, b # END, NEW escaped,
         Partial(s, m, n, escaped),
         \/ ~escaped /\ m[n + 1] \notin Special /\ b = m[n + 1]
         \/ escaped /\ m[n + 1] \in Special /\ b = Flip(m[n + 1])
  PROVE  Partial(Append(s, b), m, n + 1, FALSE)
<1>1. PICK g \in Places :
        /\ g[0] >= 1 /\ s[g[0]] = BEGIN /\ \A i \in Ends(s) : i < g[0]
        /\ Spelt(s, m, g, 0, n)
        /\ \/ ~escaped /\ g[n] = Len(s)
           \/ escaped /\ g[n] = Len(s) - 1 /\ s[Len(s)] = ESC
  BY DEF Partial
<1>2. PICK h \in Places : /\ h[0] = g[0] /\ h[n + 1] = Len(s) + 1
                          /\ Spelt(Append(s, b), m, h, 0, n + 1)
  BY <1>1, SpeltMore
<1>3. g[0] \in 1 .. Len(s)
  <2>1. g[0] \in Int /\ g[n] \in Int /\ g[n] <= Len(s)
    BY <1>1 DEF Places, Spelt
  <2>2. n > 0 => g[0] < g[n]
    BY <1>1 DEF Spelt
  <2> QED
    BY <1>1, <2>1, <2>2
<1>4. Append(s, b)[g[0]] = BEGIN /\ Ends(Append(s, b)) = Ends(s) /\ Len(Append(s, b)) = Len(s) + 1
  BY <1>1, <1>3, EndsAppend
<1>5. Append(s, b)[h[0]] = BEGIN
  BY <1>2, <1>4
<1> QED
  BY <1>1, <1>2, <1>4, <1>5 DEF Partial

LEMMA PartialEscape ==
  ASSUME NEW s \in Seq(Byte), NEW m, NEW n \in Nat, Partial(s, m, n, FALSE)
  PROVE  Partial(Append(s, ESC), m, n, TRUE)
<1>1. PICK g \in Places :
        /\ g[0] >= 1 /\ s[g[0]] = BEGIN /\ \A i \in Ends(s) : i < g[0]
        /\ Spelt(s, m, g, 0, n) /\ g[n] = Len(s)
  BY DEF Partial
<1>2. g[0] \in 1 .. Len(s)
  <2>1. g[0] \in Int /\ g[n] \in Int
    BY <1>1 DEF Places
  <2>2. n > 0 => g[0] < g[n]
    BY <1>1 DEF Spelt
  <2> QED
    BY <1>1, <2>1, <2>2
<1>3. ESC \in Byte /\ ESC # END
  BY DEF ESC, END, Byte
<1>4. /\ Append(s, ESC)[g[0]] = BEGIN /\ Ends(Append(s, ESC)) = Ends(s)
      /\ Len(Append(s, ESC)) = Len(s) + 1 /\ Append(s, ESC)[Len(s) + 1] = ESC /\ Len(s) \in Nat
  BY <1>1, <1>2, <1>3, EndsAppend
<1>5. Spelt(Append(s, ESC), m, g, 0, n)
  BY <1>1, <1>3, SpeltAppend
<1>6. g[n] = Len(Append(s, ESC)) - 1 /\ Append(s, ESC)[Len(Append(s, ESC))] = ESC
  BY <1>1, <1>4
<1> QED
  BY <1>1, <1>4, <1>5, <1>6 DEF Partial

Mapped == [MQ!Next]_(MQ!queueVars)

\* rest is what a step leaves of the packet.
IsRest(rest) ==
  /\ Len(rest) <= Len(packet)
  /\ \A i \in 1 .. Len(rest) : rest[i] = packet[Len(packet) - Len(rest) + i]

\* A RINGBUF_Put that the ring refuses ends a reply, and a stored message gives way to
\* a publication.
LEMMA FailedRefines ==
  ASSUME TypeOK, QueueInv, Adding, PutsFailed, UNCHANGED <<ring, call, packet, stored>>
  PROVE  QueueInv' /\ Mapped
<1>1. packet \in Packets
  BY DEF QueueInv
<1>2. PICK e \in Places : Stands(ring, stored, parser, pc = "parse", e)
  BY DEF QueueInv
<1>3. (pc = "parse") = FALSE
  BY DEF Adding
<1>4. Stands(ring, stored, parser', pc' = "parse", e)
  <2>1. Stands(ring, stored, parser, FALSE, e)
    BY <1>2, <1>3
  <2> QED
    BY <2>1, StandsForAny
<1>5. Stands(ring, stored, parser, pc = "parse", e)'
  BY <1>4
<1>6. pc' \in {"idle", "parse"}
  BY DEF PutsFailed, Return
<1>7. QueueInv'
  BY <1>1, <1>5, <1>6 DEF QueueInv, Adding
<1>8. CASE call = "reply" /\ Return(FALSE, packet)
  <2>1. MQ!RefuseReply(packet)
    BY <1>8 DEF Return, MQ!RefuseReply
  <2> QED
    BY <1>1, <1>7, <2>1 DEF Mapped, MQ!Next
<1>9. CASE UNCHANGED result
  BY <1>7, <1>9 DEF Mapped, MQ!queueVars
<1> QED
  BY <1>8, <1>9 DEF PutsFailed

\* A byte that is not the last stores nothing.
LEMMA AddByteRefines ==
  ASSUME TypeOK, QueueInv, Adding, NEW b \in Byte, b # END, NEW next \in {"body", "escaped"},
         NEW rest, IsRest(rest), AddByte(b, next, rest),
         Partial(Append(ring, b), packet, Len(packet) - Len(rest), next = "escaped")
  PROVE  QueueInv' /\ Mapped
<1>1. CASE ring' = Append(ring, b) /\ pc' = next /\ todo' = rest /\ UNCHANGED <<call, packet, stored, result>>
  <2>1. PICK e \in Places : Stands(ring, stored, parser, pc = "parse", e)
    BY DEF QueueInv
  <2>2. Stands(Append(ring, b), stored, parser, FALSE, e)
    <3>1. (pc = "parse") = FALSE
      BY DEF Adding
    <3>2. Stands(ring, stored, parser, FALSE, e) /\ stored \in Seq(Packets) /\ ring \in Seq(Byte)
      BY <2>1, <3>1 DEF QueueInv, TypeOK
    <3> QED
      BY <3>2, StandsAppend
  <2>3. Stands(ring, stored, parser, pc = "parse", e)'
    <3>1. Stands(ring', stored', parser', pc' = "parse", e)
      BY <1>1, <2>2, StandsForAny
    <3> QED
      BY <3>1
  <2>4. Partial(ring, packet, Done, pc = "escaped")'
    <3>1. Partial(ring', packet', Done', pc' = "escaped")
      BY <1>1 DEF Done
    <3> QED
      BY <3>1
  <2>5. TodoIsRest' /\ packet' \in Packets /\ stored' \in Seq(Packets) /\ pc' # "begin"
    BY <1>1 DEF TodoIsRest, IsRest, Done, QueueInv
  <2>6. QueueInv'
    BY <2>3, <2>4, <2>5 DEF QueueInv
  <2> QED
    BY <1>1, <2>6 DEF Mapped, MQ!queueVars
<1>2. CASE ring' = ring /\ PutsFailed /\ UNCHANGED <<call, packet, stored>>
  BY <1>2, FailedRefines
<1> QED
  BY <1>1, <1>2 DEF AddByte, Ring!Put, Ring!PutReply

\* Between calls, and while bytes are added, every message is whole in the ring.
LEMMA RestOfTodo ==
  ASSUME TypeOK, QueueInv, Adding
  PROVE  /\ packet \in Packets /\ Len(packet) \in Nat /\ Len(todo) \in Nat /\ Done \in Nat
         /\ IsRest(todo)
         /\ todo # << >> => /\ Head(todo) = packet[Done + 1] /\ Head(todo) \in Byte
                            /\ Len(packet) - Len(Tail(todo)) = Done + 1 /\ IsRest(Tail(todo))
<1>1. /\ packet \in Packets /\ Len(packet) \in Nat /\ todo \in Seq(Byte) /\ Len(todo) \in Nat
      /\ Len(todo) <= Len(packet) /\ \A i \in 1 .. Len(todo) : todo[i] = packet[Done + i]
  BY PacketType DEF QueueInv, TypeOK, TodoIsRest
<1>2. Done \in Nat /\ IsRest(todo)
  BY <1>1 DEF Done, IsRest
<1>3. ASSUME todo # << >>
      PROVE  /\ Head(todo) = packet[Done + 1] /\ Head(todo) \in Byte
             /\ Len(packet) - Len(Tail(todo)) = Done + 1 /\ IsRest(Tail(todo))
  <2> DEFINE rest == Tail(todo)
  <2>1. /\ Len(rest) = Len(todo) - 1 /\ Head(todo) = todo[1] /\ Head(todo) \in Byte
        /\ \A i \in 1 .. Len(todo) - 1 : rest[i] = todo[i + 1]
    BY <1>1, <1>3, HeadTailProperties
  <2>2. 1 \in 1 .. Len(todo)
    BY <1>1, <1>3
  <2> HIDE DEF rest
  <2>3. Done = Len(packet) - Len(todo) /\ Len(packet) - Len(rest) = Done + 1
    BY <1>1, <2>1 DEF Done
  <2>4. ASSUME NEW i \in 1 .. Len(rest)
        PROVE  rest[i] = packet[Len(packet) - Len(rest) + i]
    <3>1. i + 1 \in 1 .. Len(todo) /\ i \in 1 .. Len(todo) - 1
      BY <1>1, <2>1
    <3>2. rest[i] = packet[Done + (i + 1)]
      BY <1>1, <2>1, <3>1
    <3>3. Done + (i + 1) = Len(packet) - Len(rest) + i
      BY <1>1, <1>2, <2>1, <2>3, <3>1
    <3> QED
      BY <3>2, <3>3
  <2>5. Head(todo) = packet[Done + 1]
    BY <1>1, <2>1, <2>2
  <2>6. IsRest(rest)
    BY <1>1, <2>1, <2>4 DEF IsRest
  <2> QED
    BY <2>1, <2>3, <2>5, <2>6 DEF rest
<1> QED
  BY <1>1, <1>2, <1>3

LEMMA InitQueue == Init => QueueInv /\ MQ!Init
<1> SUFFICES ASSUME Init PROVE QueueInv /\ MQ!Init
  OBVIOUS
<1>1. /\ ring = << >> /\ pc = "idle" /\ stored = << >> /\ MQ!Init
  BY DEF Init, Ring!Init, MQ!Init
<1>2. Stands(<< >>, << >>, parser, pc = "parse", [k \in Nat |-> 0])
  BY DEF Stands, Apart, Ends
<1>3. [k \in Nat |-> 0] \in Places
  BY DEF Places
<1> QED
  BY <1>1, <1>2, <1>3 DEF QueueInv, Adding

LEMMA QueueStep == IInv /\ QueueInv /\ [Next]_vars => QueueInv' /\ Mapped
<1> SUFFICES ASSUME IInv, QueueInv, [Next]_vars PROVE QueueInv' /\ Mapped
  OBVIOUS
<1>0. TypeOK
  BY DEF IInv
<1>1. CASE AddBegin
  <2>1. pc = "begin" /\ Adding /\ BEGIN \in Byte /\ BEGIN # END
    BY <1>1 DEF AddBegin, Adding, BEGIN, END, Byte
  <2>2. IsRest(todo) /\ Len(packet) - Len(todo) = 0
    <3>1. IsRest(todo) /\ Len(packet) \in Nat
      BY <1>0, <2>1, RestOfTodo
    <3>2. Len(todo) = Len(packet)
      BY <2>1 DEF QueueInv
    <3> QED
      BY <3>1, <3>2
  <2>3. Partial(Append(ring, BEGIN), packet, Len(packet) - Len(todo), "body" = "escaped")
    BY <1>0, <2>2, PartialBegin DEF TypeOK
  <2> QED
    BY <1>0, <1>1, <2>1, <2>2, <2>3, AddByteRefines DEF AddBegin
<1>2. CASE AddPlain
  <2>1. /\ pc = "body" /\ Adding /\ todo # << >> /\ Head(todo) \notin Special /\ Head(todo) # END
        /\ AddByte(Head(todo), "body", Tail(todo))
    BY <1>2 DEF AddPlain, Adding, Special
  <2>2. /\ Head(todo) = packet[Done + 1] /\ Head(todo) \in Byte /\ Done \in Nat
        /\ Len(packet) - Len(Tail(todo)) = Done + 1 /\ IsRest(Tail(todo))
    BY <1>0, <2>1, RestOfTodo
  <2>3. Partial(ring, packet, Done, FALSE) /\ ring \in Seq(Byte)
    BY <1>0, <2>1 DEF QueueInv, TypeOK
  <2>4. Partial(Append(ring, Head(todo)), packet, Done + 1, FALSE)
    BY <2>1, <2>2, <2>3, PartialByte
  <2>5. Partial(Append(ring, Head(todo)), packet, Len(packet) - Len(Tail(todo)), "body" = "escaped")
    BY <2>2, <2>4
  <2> QED
    BY <1>0, <2>1, <2>2, <2>5, AddByteRefines
<1>3. CASE AddEscape
  <2>1. /\ pc = "body" /\ Adding /\ ESC \in Byte /\ ESC # END /\ AddByte(ESC, "escaped", todo)
    BY <1>3 DEF AddEscape, Adding, ESC, END, Byte
  <2>2. IsRest(todo) /\ Done \in Nat
    BY <1>0, <2>1, RestOfTodo
  <2>3. Partial(ring, packet, Done, FALSE) /\ ring \in Seq(Byte)
    BY <1>0, <2>1 DEF QueueInv, TypeOK
  <2>4. Partial(Append(ring, ESC), packet, Done, TRUE)
    BY <2>2, <2>3, PartialEscape
  <2>5. Partial(Append(ring, ESC), packet, Len(packet) - Len(todo), "escaped" = "escaped")
    BY <2>4 DEF Done
  <2> QED
    BY <1>0, <2>1, <2>2, <2>5, AddByteRefines
<1>4. CASE AddEscaped
  <2>1. /\ pc = "escaped" /\ Adding /\ todo # << >> /\ Head(todo) \in Special
        /\ AddByte(Flip(Head(todo)), "body", Tail(todo))
    BY <1>0, <1>4 DEF AddEscaped, Adding, TypeOK
  <2>2. /\ Head(todo) = packet[Done + 1] /\ Head(todo) \in Byte /\ Done \in Nat
        /\ Len(packet) - Len(Tail(todo)) = Done + 1 /\ IsRest(Tail(todo))
    BY <1>0, <2>1, RestOfTodo
  <2>3. Partial(ring, packet, Done, TRUE) /\ ring \in Seq(Byte)
    BY <1>0, <2>1 DEF QueueInv, TypeOK
  <2>4. Flip(Head(todo)) \in Byte /\ Flip(Head(todo)) # END
    BY <2>1, FlipSpecial DEF Special
  <2>5. Partial(Append(ring, Flip(Head(todo))), packet, Done + 1, FALSE)
    BY <2>1, <2>2, <2>3, <2>4, PartialByte
  <2>6. Partial(Append(ring, Flip(Head(todo))), packet, Len(packet) - Len(Tail(todo)), "body" = "escaped")
    BY <2>2, <2>5
  <2> QED
    BY <1>0, <2>1, <2>2, <2>4, <2>6, AddByteRefines
<1>5. CASE AddEnd
  <2>1. pc = "body" /\ todo = << >> /\ Adding /\ ring \in Seq(Byte) /\ stored \in Seq(Packets)
    BY <1>0, <1>5 DEF AddEnd, Adding, TypeOK, QueueInv
  <2>2. CASE /\ ring' = Append(ring, END) /\ Return(TRUE, packet)
             /\ stored' = Append(stored, packet) /\ UNCHANGED <<call, packet, parser, todo>>
    <3>1. packet \in Packets /\ Done = Len(packet)
      BY <1>0, <2>1, RestOfTodo DEF Done
    <3>2. PICK e \in Places : Stands(ring, stored, parser, FALSE, e)
      <4>1. (pc = "parse") = FALSE
        BY <2>1
      <4> QED
        BY <4>1 DEF QueueInv
    <3>3. Partial(ring, packet, Len(packet), FALSE)
      <4>1. (pc = "escaped") = FALSE
        BY <2>1
      <4> QED
        BY <2>1, <3>1, <4>1 DEF QueueInv
    <3>4. PICK f \in Places : Stands(Append(ring, END), Append(stored, packet), parser, FALSE, f)
      BY <2>1, <3>1, <3>2, <3>3, StandsEnd
    <3>5. Stands(ring, stored, parser, pc = "parse", f)'
      <4>1. Stands(ring', stored', parser', pc' = "parse", f)
        BY <2>2, <3>4, StandsForAny
      <4> QED
        BY <4>1
    <3>6. stored' \in Seq(Packets) /\ pc' = "idle"
      BY <2>1, <2>2, <3>1 DEF Return
    <3>7. QueueInv'
      BY <3>5, <3>6 DEF QueueInv, Adding
    <3>8. call \in {"publish", "reply"} /\ MQ!Accept(call, packet)
      BY <1>0, <2>1, <2>2 DEF TypeOK, Adding, Return, MQ!Accept
    <3> QED
      BY <3>1, <3>7, <3>8 DEF Mapped, MQ!Next
  <2>3. CASE ring' = ring /\ PutsFailed /\ UNCHANGED <<call, packet, stored>>
    BY <1>0, <2>1, <2>3, FailedRefines
  <2>4. /\ \/ ring' = Append(ring, END) /\ io' = Ring!PutReply(0)
           \/ ring' = ring /\ io' = Ring!PutReply(-1)
        /\ \/ io'.ret = 0 /\ Return(TRUE, packet) /\ stored' = Append(stored, packet) /\ parser' = parser
           \/ io'.ret = -1 /\ PutsFailed /\ stored' = stored
        /\ call' = call /\ packet' = packet /\ todo' = todo
    BY <1>5 DEF AddEnd, Ring!Put
  <2>5. Ring!PutReply(0).ret = 0 /\ Ring!PutReply(-1).ret = -1
    BY DEF Ring!PutReply
  <2>6. CASE ring' = Append(ring, END) /\ io' = Ring!PutReply(0)
    <3>1. io'.ret = 0 /\ io'.ret # -1
      BY <2>5, <2>6
    <3> QED
      BY <2>2, <2>4, <2>6, <3>1
  <2>7. CASE ring' = ring /\ io' = Ring!PutReply(-1)
    <3>1. io'.ret = -1 /\ io'.ret # 0
      BY <2>5, <2>7
    <3> QED
      BY <2>3, <2>4, <2>7, <3>1
  <2> QED
    BY <2>4, <2>6, <2>7
<1>6. CASE ParseByte
  <2>1. /\ pc = "parse" /\ ring # << >> /\ ring[1] # END /\ ring' = Tail(ring)
        /\ parser' \in ParsedTo(ring[1]) /\ UNCHANGED <<pc, call, packet, todo, result, stored>>
        /\ ring \in Seq(Byte) /\ stored \in Seq(Packets) /\ parser \in Parser
    BY <1>0, <1>6 DEF ParseByte, Ring!Get, TypeOK, QueueInv
  <2>2. PICK e \in Places : Stands(ring, stored, parser, TRUE, e)
    <3>1. (pc = "parse") = TRUE
      BY <2>1
    <3> QED
      BY <3>1 DEF QueueInv
  <2> DEFINE f == [k \in Nat |-> e[k] - 1]
  <2>3. Stands(Tail(ring), stored, parser', TRUE, f)
    BY <2>1, <2>2, StandsByte
  <2>4. f \in Places
    BY DEF Places
  <2> HIDE DEF f
  <2>5. Stands(ring, stored, parser, pc = "parse", f)'
    <3>1. (pc' = "parse") = TRUE
      BY <2>1
    <3>2. Stands(ring', stored', parser', pc' = "parse", f)
      BY <2>1, <2>3, <3>1
    <3> QED
      BY <3>2
  <2>6. QueueInv'
    BY <2>1, <2>4, <2>5 DEF QueueInv, Adding
  <2> QED
    BY <2>1, <2>6 DEF Mapped, MQ!queueVars
<1>7. CASE ParseEnd
  <2>1. /\ pc = "parse" /\ ring # << >> /\ ring[1] = END /\ ring' = Tail(ring)
        /\ UNCHANGED <<call, packet>>
        /\ ring \in Seq(Byte) /\ stored \in Seq(Packets)
    BY <1>0, <1>7 DEF ParseEnd, Ring!Get, TypeOK, QueueInv
  <2>2. PICK e \in Places : Stands(ring, stored, parser, TRUE, e)
    <3>1. (pc = "parse") = TRUE
      BY <2>1
    <3> QED
      BY <3>1 DEF QueueInv
  <2>3. stored # << >> /\ parser.buf = Head(stored)
    BY <2>1, <2>2, StandsLast
  <2>4. PICK f \in Places : Stands(Tail(ring), Tail(stored), parser, FALSE, f)
    BY <2>1, <2>2, StandsLast
  <2>5. stored' = Tail(stored) /\ stored' \in Seq(Packets)
    BY <1>7, <2>1, <2>3, HeadTailProperties DEF ParseEnd
  <2>6. Stands(ring, stored, parser, pc = "parse", f)'
    <3>1. Stands(ring', stored', parser', pc' = "parse", f)
      BY <2>1, <2>4, <2>5, StandsForAny
    <3> QED
      BY <3>1
  <2>7. CASE call = "task" /\ Return(TRUE, parser.buf)
    <3>1. QueueInv'
      BY <2>5, <2>6, <2>7 DEF QueueInv, Adding, Return
    <3>2. MQ!Take
      BY <2>3, <2>5, <2>7 DEF Return, MQ!Take
    <3> QED
      BY <3>1, <3>2 DEF Mapped, MQ!Next
  <2>8. CASE call = "publish" /\ RetryPuts /\ UNCHANGED result
    <3>1. packet \in Packets /\ packet' = packet /\ pc' = "begin" /\ todo' = packet
      BY <2>1, <2>8 DEF QueueInv, RetryPuts
    <3>2. TodoIsRest' /\ Len(todo') = Len(packet')
      <4>1. Len(packet) \in Nat
        BY <3>1, PacketType
      <4> QED
        BY <3>1, <4>1 DEF TodoIsRest, Done
    <3>3. QueueInv'
      BY <2>5, <2>6, <3>1, <3>2 DEF QueueInv
    <3>4. MQ!DropOldest
      BY <2>3, <2>5, <2>8 DEF MQ!DropOldest
    <3> QED
      BY <3>3, <3>4 DEF Mapped, MQ!Next
  <2> QED
    BY <1>7, <2>7, <2>8 DEF ParseEnd
<1>8. CASE ParseDry
  <2>1. /\ pc = "parse" /\ ring = << >> /\ ring' = ring /\ NothingLeft
        /\ UNCHANGED <<call, packet, parser, stored>>
        /\ stored \in Seq(Packets) /\ call \in {"publish", "task"}
    BY <1>0, <1>8 DEF ParseDry, Ring!Get, TypeOK, QueueInv
  <2>2. PICK e \in Places : Stands(<< >>, stored, parser, pc = "parse", e)
    BY <2>1 DEF QueueInv
  <2>3. stored = << >>
    BY <2>1, <2>2, NoneStands
  <2>4. Stands(<< >>, << >>, parser', pc' = "parse", e)
    BY DEF Stands, Apart, Ends
  <2>5. Stands(ring, stored, parser, pc = "parse", e)'
    <3>1. Stands(ring', stored', parser', pc' = "parse", e)
      BY <2>1, <2>3, <2>4
    <3> QED
      BY <3>1
  <2>6. QueueInv'
    BY <2>1, <2>5 DEF QueueInv, Adding, NothingLeft, Return
  <2>7. CASE call = "task"
    <3>1. MQ!Take
      BY <2>1, <2>3, <2>7 DEF NothingLeft, Return, MQ!Take
    <3> QED
      BY <2>6, <3>1 DEF Mapped, MQ!Next
  <2>8. CASE call = "publish"
    <3>1. packet \in Packets /\ MQ!RefusePublish(packet)
      BY <2>1, <2>3, <2>8 DEF NothingLeft, Return, MQ!RefusePublish, QueueInv
    <3> QED
      BY <2>6, <3>1 DEF Mapped, MQ!Next
  <2> QED
    BY <2>1, <2>7, <2>8
<1>9. CASE /\ pc = "idle" /\ pc' # "idle" /\ UNCHANGED <<ring, stored, result>>
           /\ pc' \in {"begin", "parse"}
           /\ pc' = "parse" => call' = "task"
           /\ pc' = "begin" => packet' \in Packets /\ todo' = packet'
  <2>1. PICK e \in Places : Stands(ring, stored, parser, FALSE, e)
    <3>1. (pc = "parse") = FALSE
      BY <1>9
    <3> QED
      BY <3>1 DEF QueueInv
  <2>2. Stands(ring, stored, parser, pc = "parse", e)'
    <3>1. Stands(ring', stored', parser', pc' = "parse", e)
      BY <1>9, <2>1, StandsForAny
    <3> QED
      BY <3>1
  <2>3. pc' = "begin" => TodoIsRest'
    <3>1. pc' = "begin" => Len(packet') \in Nat
      BY <1>9, PacketType
    <3> QED
      BY <1>9, <3>1 DEF TodoIsRest, Done
  <2>4. QueueInv'
    BY <1>9, <2>2, <2>3 DEF QueueInv, Adding
  <2> QED
    BY <1>9, <2>4 DEF Mapped, MQ!queueVars
<1>10. CASE UNCHANGED vars
  <2>1. PICK e \in Places : Stands(ring, stored, parser, pc = "parse", e)
    BY DEF QueueInv
  <2>2. Stands(ring, stored, parser, pc = "parse", e)'
    <3>1. Stands(ring', stored', parser', pc' = "parse", e)
      BY <1>10, <2>1 DEF vars
    <3> QED
      BY <3>1
  <2>3. Partial(ring, packet, Done, pc = "escaped") => Partial(ring, packet, Done, pc = "escaped")'
    BY <1>10 DEF vars, Done
  <2>4. QueueInv'
    BY <1>10, <2>2, <2>3 DEF vars, QueueInv, Adding, TodoIsRest, Done
  <2> QED
    BY <1>10, <2>4 DEF vars, Mapped, MQ!queueVars
<1>11. CASE QUEUE_Gets
  BY <1>9, <1>11 DEF QUEUE_Gets
<1>12. ASSUME NEW p \in Packets, NEW c \in {"publish", "reply"}, QUEUE_Puts(c, p)
       PROVE  QueueInv' /\ Mapped
  BY <1>9, <1>12 DEF QUEUE_Puts
<1>13. QED
  BY <1>1, <1>2, <1>3, <1>4, <1>5, <1>6, <1>7, <1>8, <1>10, <1>11, <1>12
  DEF Next, Loop, Call

\* The framed ring keeps the queue's promises for every ring size, buffer length and
\* set of messages: each message comes out once, complete and in order, and is lost
\* only to a publication that discards the oldest.
THEOREM FramesAreMessages == Spec => ImplementsMsgQueue
<1>1. Init => IInv /\ QueueInv /\ MQ!Init
  BY InitIInv, InitQueue
<1>2. IInv /\ QueueInv /\ [Next]_vars => IInv' /\ QueueInv' /\ [MQ!Next]_(MQ!queueVars)
  BY NextIInv, QueueStep DEF Mapped
<1>3. QED
  BY <1>1, <1>2, PTL DEF Spec, ImplementsMsgQueue, MQ!Spec
=============================================================================
