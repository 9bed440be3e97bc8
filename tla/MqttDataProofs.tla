-------------------------- MODULE MqttDataProofs ---------------------------
(***************************************************************************)
(* Theorems about the data structures of the MQTT client: mqtt/ringbuf.c   *)
(* for every block size and byte set, and mqtt/mqtt_msg.c with the receive *)
(* callback's loop for every topic, payload and buffer of up to 16384      *)
(* bytes.                                                                  *)
(***************************************************************************)
EXTENDS MqttData, SequenceTheorems, TLAPS

\* Everything the refinement needs: typing and the pointers in step.
IInv == RingTypeOK /\ PointersAgree

LEMMA WrapInSlot ==
  ASSUME NEW x \in 0 .. 2 * BlockSize - 1
  PROVE  Wrap(x) \in Slot
  BY BlockAssumption DEF Wrap, Slot

LEMMA AdvanceInSlot ==
  ASSUME NEW p \in Slot
  PROVE  Advance(p) \in Slot /\ Advance(p) = Wrap(p + 1)
  BY BlockAssumption DEF Advance, Wrap, Slot

LEMMA InitIInv == RINGBUF_Init => IInv
  BY BlockAssumption, ByteAssumption
  DEF RINGBUF_Init, IInv, RingTypeOK, PointersAgree, Slot, Wrap

LEMMA NextIInv == IInv /\ [RingNext]_ringVars => IInv'
<1> SUFFICES ASSUME IInv, [RingNext]_ringVars
             PROVE  IInv'
  OBVIOUS
<1> USE BlockAssumption DEF IInv, RingTypeOK, PointersAgree, Slot
<1>1. CASE RINGBUF_Get
  BY <1>1 DEF RINGBUF_Get, Advance, Wrap
<1>2. ASSUME NEW c \in U8, RINGBUF_Put(c)
      PROVE  IInv'
  BY <1>2 DEF RINGBUF_Put, Advance, Wrap
<1>3. CASE UNCHANGED ringVars
  BY <1>3 DEF ringVars, Wrap
<1>4. QED
  BY <1>1, <1>2, <1>3 DEF RingNext

\* Every ring built by RINGBUF_Init keeps its offsets inside the block and its
\* fill count inside the size, whatever calls its users make.
THEOREM TypeCorrect == RingSpec => []RingTypeOK
<1>1. IInv => RingTypeOK
  BY DEF IInv
<1>2. QED
  BY InitIInv, NextIInv, <1>1, PTL DEF RingSpec

\* The write pointer is fill_cnt slots ahead of the read pointer in every
\* reachable state, so a Put never lands on an unread byte and a Get never
\* answers a stale one.
THEOREM PointersStayInStep == RingSpec => []PointersAgree
<1>1. IInv => PointersAgree
  BY DEF IInv
<1>2. QED
  BY InitIInv, NextIInv, <1>1, PTL DEF RingSpec
-----------------------------------------------------------------------------
(* Refinement: the ring implements ByteFifo under items <- Contents.       *)

LEMMA ContentsIsSeq ==
  ASSUME IInv
  PROVE  /\ Contents \in Seq(U8)
         /\ Len(Contents) = fill_cnt
         /\ DOMAIN Contents = 1 .. fill_cnt
<1>1. \A i \in 1 .. fill_cnt : Wrap(p_r + i - 1) \in Slot
  BY BlockAssumption DEF IInv, RingTypeOK, Wrap, Slot
<1>2. Contents \in [1 .. fill_cnt -> U8]
  BY <1>1 DEF Contents, IInv, RingTypeOK
<1>3. fill_cnt \in Nat
  BY BlockAssumption DEF IInv, RingTypeOK
<1>4. QED
  BY <1>2, <1>3

LEMMA PutAppends ==
  ASSUME IInv, IInv', NEW c \in U8, RINGBUF_Put(c), fill_cnt < BlockSize
  PROVE  Contents' = Append(Contents, c)
<1> USE BlockAssumption DEF IInv, RingTypeOK, Slot
<1>1. /\ fill_cnt' = fill_cnt + 1
      /\ mem' = [mem EXCEPT ![p_w] = c]
      /\ p_r' = p_r
  BY DEF RINGBUF_Put
<1>2. Contents' = [i \in 1 .. fill_cnt + 1 |-> mem'[Wrap(p_r + i - 1)]]
  BY <1>1 DEF Contents, Wrap
<1>3. Append(Contents, c) \in Seq(U8) /\ Len(Append(Contents, c)) = fill_cnt + 1
  BY ContentsIsSeq
<1>4. ASSUME NEW i \in 1 .. fill_cnt + 1
      PROVE  mem'[Wrap(p_r + i - 1)] = Append(Contents, c)[i]
  <2>1. CASE i = fill_cnt + 1
    <3>1. Wrap(p_r + i - 1) = p_w
      BY <2>1 DEF PointersAgree
    <3>2. mem'[p_w] = c
      BY <1>1
    <3>3. Append(Contents, c)[i] = c
      BY <2>1, ContentsIsSeq
    <3>4. QED
      BY <3>1, <3>2, <3>3
  <2>2. CASE i \in 1 .. fill_cnt
    <3>1. Wrap(p_r + i - 1) \in Slot /\ Wrap(p_r + i - 1) # p_w
      BY <2>2 DEF Wrap, PointersAgree
    <3>2. mem'[Wrap(p_r + i - 1)] = mem[Wrap(p_r + i - 1)]
      BY <3>1, <1>1
    <3>3. Append(Contents, c)[i] = Contents[i]
      BY <2>2, ContentsIsSeq
    <3>4. QED
      BY <2>2, <3>2, <3>3 DEF Contents
  <2>3. i = fill_cnt + 1 \/ i \in 1 .. fill_cnt
    OBVIOUS
  <2>4. QED
    BY <2>1, <2>2, <2>3
<1>5. QED
  BY <1>2, <1>3, <1>4

LEMMA GetTakesHead ==
  ASSUME IInv, RINGBUF_Get, fill_cnt > 0
  PROVE  /\ Contents' = Tail(Contents)
         /\ reply' = [op |-> "get", ret |-> 0, c |-> Head(Contents)]
<1> USE BlockAssumption DEF IInv, RingTypeOK, Slot
<1>1. /\ fill_cnt' = fill_cnt - 1
      /\ mem' = mem
      /\ p_r' = Advance(p_r)
      /\ reply' = [op |-> "get", ret |-> 0, c |-> mem[p_r]]
  BY DEF RINGBUF_Get
<1>2. Head(Contents) = mem[p_r]
  BY ContentsIsSeq DEF Contents, Wrap
<1>3. Contents' = [i \in 1 .. fill_cnt - 1 |-> mem[Wrap(Advance(p_r) + i - 1)]]
  BY <1>1 DEF Contents, Wrap
<1>4. Tail(Contents) \in Seq(U8) /\ Len(Tail(Contents)) = fill_cnt - 1
  BY ContentsIsSeq
<1>5. ASSUME NEW i \in 1 .. fill_cnt - 1
      PROVE  mem[Wrap(Advance(p_r) + i - 1)] = Tail(Contents)[i]
  <2>1. Tail(Contents)[i] = Contents[i + 1]
    BY ContentsIsSeq
  <2>2. Wrap(Advance(p_r) + i - 1) = Wrap(p_r + (i + 1) - 1)
    BY DEF Advance, Wrap
  <2>3. QED
    BY <2>1, <2>2 DEF Contents
<1>6. Contents' = Tail(Contents)
  <2>1. /\ Contents' \in Seq(U8)
        /\ Len(Contents') = fill_cnt - 1
    BY <1>3, <1>4, <1>5
  <2>2. \A i \in 1 .. Len(Contents') : Contents'[i] = Tail(Contents)[i]
    BY <1>3, <1>5, <2>1
  <2>3. QED
    BY <1>4, <2>1, <2>2, SeqEqual
<1>7. QED
  BY <1>1, <1>2, <1>6

LEMMA InitRefines == RINGBUF_Init => Fifo!Init
<1> SUFFICES ASSUME RINGBUF_Init
             PROVE  Contents = << >> /\ reply = [op |-> "init", ret |-> 0]
  BY DEF Fifo!Init
<1>1. Contents = [i \in 1 .. 0 |-> mem[Wrap(p_r + i - 1)]]
  BY DEF RINGBUF_Init, Contents
<1>2. Contents = << >>
  BY InitIInv, ContentsIsSeq, <1>1 DEF RINGBUF_Init
<1>3. QED
  BY <1>2 DEF RINGBUF_Init

LEMMA NextRefines == IInv /\ IInv' /\ [RingNext]_ringVars => [Fifo!Next]_(Fifo!fifoVars)
<1> SUFFICES ASSUME IInv, IInv', [RingNext]_ringVars
             PROVE  Fifo!Next \/ UNCHANGED <<Contents, reply>>
  BY DEF Fifo!fifoVars
<1> USE DEF Fifo!Next, Fifo!Put, Fifo!Get, Fifo!PutReply, Fifo!GetReply
<1>0. fill_cnt \in Nat /\ BlockSize \in Nat
  BY BlockAssumption DEF IInv, RingTypeOK
<1>1. CASE RINGBUF_Get
  <2>1. CASE fill_cnt > 0
    BY <1>1, <2>1, <1>0, GetTakesHead, ContentsIsSeq
  <2>2. CASE fill_cnt <= 0
    <3>1. Contents = << >>
      BY <2>2, <1>0, ContentsIsSeq
    <3>2. UNCHANGED <<mem, p_r, fill_cnt>> /\ reply' = [op |-> "get", ret |-> -1]
      BY <1>1, <2>2, <1>0 DEF RINGBUF_Get
    <3>3. Contents' = Contents
      BY <3>2 DEF Contents, Wrap
    <3>4. QED
      BY <3>1, <3>2, <3>3
  <2>3. QED
    BY <2>1, <2>2, <1>0
<1>2. ASSUME NEW c \in U8, RINGBUF_Put(c)
      PROVE  Fifo!Put(c)
  <2>1. CASE fill_cnt < BlockSize
    <3>1. reply' = [op |-> "put", ret |-> 0]
      BY <1>2, <2>1, <1>0 DEF RINGBUF_Put
    <3>2. QED
      BY <1>2, <2>1, <3>1, PutAppends, ContentsIsSeq
  <2>2. CASE fill_cnt >= BlockSize
    <3>1. UNCHANGED <<mem, p_r, fill_cnt>> /\ reply' = [op |-> "put", ret |-> -1]
      BY <1>2, <2>2, <1>0 DEF RINGBUF_Put
    <3>2. Contents' = Contents
      BY <3>1 DEF Contents, Wrap
    <3>3. QED
      BY <2>2, <3>1, <3>2, ContentsIsSeq
  <2>3. QED
    BY <2>1, <2>2, <1>0
<1>3. CASE UNCHANGED ringVars
  BY <1>3 DEF ringVars, Contents, Wrap
<1>4. QED
  BY <1>1, <1>2, <1>3 DEF RingNext

\* RINGBUF_Put and RINGBUF_Get implement the bounded FIFO for every size: no
\* byte is lost, duplicated, reordered or overwritten between the two.
THEOREM RingImplementsFifo == RingSpec => ImplementsFifo
  BY InitIInv, NextIInv, InitRefines, NextRefines, PTL
  DEF RingSpec, ImplementsFifo, Fifo!Spec
-----------------------------------------------------------------------------
(* MqttMsg: a message as it is built, byte by byte, and as it is read.     *)

LEMMA TwoBytesWide == uint16_t \subseteq Nat
  BY DEF uint16_t

LEMMA LeastIs ==
  ASSUME NEW S, NEW n \in S, n \in Int, \A m \in S : n <= m /\ m \in Int
  PROVE  M!Min(S) = n
<1>1. \A x \in S : (\A y \in S : x <= y) => x = n
  OBVIOUS
<1>2. M!Min(S) \in S /\ \A y \in S : M!Min(S) <= y
  BY DEF M!Min
<1> QED
  BY <1>1, <1>2

\* Where a length field of one byte, or of two, ends
LEMMA LastIs ==
  ASSUME NEW b \in Seq(Int), NEW n \in {1, 2}, n < Len(b),
         b[n + 1] < 128, n = 2 => b[2] >= 128
  PROVE  M!LastOfLength(b, Len(b)) = n
<1> DEFINE ends == {i \in 1 .. Len(b) - 1 : b[i + 1] < 128}
<1>1. n \in ends
  OBVIOUS
<1>2. \A m \in ends : n <= m /\ m \in Int
  OBVIOUS
<1>3. M!LastOfLength(b, Len(b)) = IF ends = {} THEN Len(b) - 1 ELSE M!Min(ends)
  BY DEF M!LastOfLength
<1> HIDE DEF ends
<1>4. M!Min(ends) = n
  BY <1>1, <1>2, LeastIs
<1> QED
  BY <1>1, <1>3, <1>4

LEMMA SevenBitsIs ==
  ASSUME NEW b \in Seq(Int), NEW n \in {1, 2}, n < Len(b)
  PROVE  M!SevenBits(b, n) = IF n = 1 THEN b[2] % 128 ELSE (b[2] % 128) + 128 * (b[3] % 128)
<1> DEFINE Rec(f) == f = [i \in 1 .. n + 1 |-> IF i > n THEN 0 ELSE (b[i + 1] % 128) + 128 * f[i + 1]]
           v == CHOOSE f : Rec(f)
<1>1. M!SevenBits(b, n) = v[1]
  BY DEF M!SevenBits
<1>2. \E f : Rec(f)
  <2> DEFINE top == (b[n + 1] % 128) + 128 * 0
             w == [i \in 1 .. n + 1 |-> IF i > n THEN 0
                                        ELSE IF i = n THEN top
                                        ELSE (b[i + 1] % 128) + 128 * top]
  <2>1. ASSUME NEW i \in 1 .. n + 1
        PROVE  w[i] = IF i > n THEN 0 ELSE (b[i + 1] % 128) + 128 * w[i + 1]
    <3>1. CASE i > n
      BY <3>1
    <3>2. CASE i = n
      <4>1. w[n + 1] = 0 /\ w[n] = top
        OBVIOUS
      <4> HIDE DEF w
      <4> QED
        BY <3>2, <4>1
    <3>3. CASE i < n
      <4>1. i + 1 = n /\ w[n] = top /\ w[i] = (b[i + 1] % 128) + 128 * top
        BY <3>3
      <4> HIDE DEF w, top
      <4> QED
        BY <3>3, <4>1
    <3> QED
      BY <3>1, <3>2, <3>3
  <2>2. w = [i \in 1 .. n + 1 |-> w[i]]
    OBVIOUS
  <2> HIDE DEF w
  <2>3. Rec(w)
    BY <2>1, <2>2
  <2> QED
    BY <2>3
<1>3. Rec(v)
  BY <1>2
<1> HIDE DEF v
<1>4. \A i \in 1 .. n + 1 : v[i] = IF i > n THEN 0 ELSE (b[i + 1] % 128) + 128 * v[i + 1]
  BY <1>3
<1> HIDE DEF Rec
<1>5. v[n + 1] = 0
  BY <1>4
<1>6. CASE n = 1
  <2>1. v[1] = (b[2] % 128) + 128 * v[2]
    BY <1>4, <1>6
  <2> QED
    BY <1>1, <1>5, <1>6, <2>1
<1>7. CASE n = 2
  <2>1. v[1] = (b[2] % 128) + 128 * v[2] /\ v[2] = (b[3] % 128) + 128 * v[3]
    BY <1>4, <1>7
  <2>2. v[2] = b[3] % 128
    BY <1>5, <1>7, <2>1
  <2> QED
    BY <1>1, <1>7, <2>1, <2>2
<1> QED
  BY <1>6, <1>7

\* How many bytes the length takes
SizeOfLength(n) == IF n > 127 THEN 2 ELSE 1

\* What fini_message writes as the length of up to 16383 bytes is read as that.
LEMMA LengthIsRead ==
  ASSUME NEW b \in Seq(Int), NEW n \in Nat, n < 16384, SizeOfLength(n) < Len(b),
         IF n > 127 THEN b[2] = 128 + (n % 128) /\ b[3] = (n \div 128) % 256 ELSE b[2] = n
  PROVE  M!LengthField(b, Len(b)) = [next |-> SizeOfLength(n) + 1, value |-> n]
<1> DEFINE k == SizeOfLength(n)
<1>1. k \in {1, 2} /\ k < Len(b)
  BY DEF SizeOfLength
<1>2. CASE n > 127
  <2>1. k = 2
    BY <1>2 DEF SizeOfLength
  <2>2. n % 128 \in 0 .. 127 /\ n \div 128 \in 0 .. 127 /\ n = 128 * (n \div 128) + (n % 128)
    OBVIOUS
  <2> DEFINE lo == n % 128
             hi == n \div 128
  <2>3. b[2] = 128 + lo /\ b[3] = hi % 256 /\ lo \in 0 .. 127 /\ hi \in 0 .. 127 /\ n = 128 * hi + lo
    BY <1>2, <2>2
  <2> HIDE DEF lo, hi
  <2>4. hi % 256 = hi /\ hi % 128 = hi /\ (128 + lo) % 128 = lo
    BY <2>3
  <2>5. b[3] < 128 /\ b[2] >= 128 /\ (b[2] % 128) + 128 * (b[3] % 128) = n
    BY <2>3, <2>4
  <2>6. M!LastOfLength(b, Len(b)) = 2
    BY <1>1, <2>1, <2>5, LastIs
  <2>7. M!SevenBits(b, 2) = n
    BY <1>1, <2>1, <2>5, SevenBitsIs
  <2> QED
    BY <2>1, <2>6, <2>7 DEF M!LengthField
<1>3. CASE n <= 127
  <2>1. k = 1 /\ b[2] = n /\ n % 128 = n
    BY <1>3 DEF SizeOfLength
  <2>2. M!LastOfLength(b, Len(b)) = 1
    BY <1>1, <1>3, <2>1, LastIs
  <2>3. M!SevenBits(b, 1) = n
    BY <1>1, <2>1, SevenBitsIs
  <2> QED
    BY <2>1, <2>2, <2>3 DEF M!LengthField
<1> QED
  BY <1>2, <1>3

\* The bytes of s stand in b behind the at-th.
Holds(b, at, s) == \A j \in 1 .. Len(s) : b[at + j] = s[j]

LEMMA BytesAreRead ==
  ASSUME NEW b \in Seq(Int), NEW at \in Nat, NEW s \in Seq(Int), at + Len(s) <= Len(b),
         Holds(b, at, s)
  PROVE  M!Bytes(b, at, Len(s)) = s
<1> DEFINE n == Len(s)
           c == SubSeq(b, at + 1, at + n)
<1>1. n \in Nat /\ at + n <= Len(b)
  OBVIOUS
<1> HIDE DEF n
<1>2. Len(c) = n /\ c \in Seq(Int)
  BY <1>1
<1>3. \A j \in 1 .. n : c[j] = b[at + j]
  BY <1>1
<1>4. \A j \in 1 .. n : c[j] = s[j]
  BY <1>3 DEF Holds, n
<1> HIDE DEF c
<1>5. c = s
  BY <1>2, <1>4, SeqEqual DEF n
<1> QED
  BY <1>5 DEF M!Bytes, c, n

\* A publication at the start of b: its header h, and its parts, behind a length
\* field that ends at m.
Published(b, m, t, q, id, d) ==
  /\ b[m + 1] = Len(t) \div 256 /\ b[m + 2] = Len(t) % 256
  /\ Holds(b, m + 2, t)
  /\ q > 0 => /\ b[m + 2 + Len(t) + 1] = id \div 256
              /\ b[m + 2 + Len(t) + 2] = id % 256
  /\ Holds(b, m + 2 + Len(t) + (IF q > 0 THEN 2 ELSE 0), d)

IdSize(q) == IF q > 0 THEN 2 ELSE 0
BodySize(t, q, d) == 2 + Len(t) + IdSize(q) + Len(d)

\* All of it is in b, and the length field covers it.
Standing(b, m, t, q, id, d) ==
  /\ b \in Seq(Int) /\ m \in {2, 3} /\ t \in Seq(Nat) \ {<< >>} /\ q \in 0 .. 2 /\ id \in Nat
  /\ d \in Seq(Nat) /\ m + BodySize(t, q, d) <= Len(b)
  /\ M!LengthField(b, Len(b)) = [next |-> m, value |-> BodySize(t, q, d)]
  /\ M!GetQos(b) = q /\ Published(b, m, t, q, id, d)

\* The readers find it.
ReadFrom(b, m, t, q, id, d) ==
  /\ M!mqtt_get_total_length(b, Len(b)) = m + BodySize(t, q, d)
  /\ M!mqtt_get_publish_topic(b, Len(b)) = t
  /\ d # << >> \/ q = 0 \/ m + BodySize(t, q, d) < Len(b) =>
       M!mqtt_get_publish_data(b, Len(b)) = d
  /\ m + 2 + Len(t) + IdSize(q) < Len(b) =>
       M!PublishId(b, Len(b)) = IF q > 0 THEN id ELSE 0

\* The readers find what was put in, whatever stands behind.
LEMMA PublicationIsRead ==
  ASSUME NEW b, NEW m, NEW t, NEW q, NEW id, NEW d, Standing(b, m, t, q, id, d)
  PROVE  ReadFrom(b, m, t, q, id, d)
<1>0. /\ b \in Seq(Int) /\ m \in {2, 3} /\ t \in Seq(Nat) \ {<< >>} /\ q \in 0 .. 2 /\ id \in Nat
      /\ d \in Seq(Nat) /\ m + BodySize(t, q, d) <= Len(b)
      /\ M!LengthField(b, Len(b)) = [next |-> m, value |-> BodySize(t, q, d)]
      /\ M!GetQos(b) = q /\ Published(b, m, t, q, id, d)
  BY DEF Standing
<1> DEFINE l == Len(t)
           e == Len(d)
           n == Len(b)
           i == m + 2 + l
           z == IdSize(q)
           total == m + BodySize(t, q, d)
<1>1. /\ l \in Nat \ {0} /\ e \in Nat /\ n \in Nat /\ z \in {0, 2} /\ i \in Nat
      /\ total = i + z + e /\ total <= n
      /\ (e = 0 <=> d = << >>) /\ (z = 0 <=> q = 0) /\ (q > 0 <=> q # 0)
  <2>1. l \in Nat \ {0} /\ e \in Nat /\ n \in Nat /\ (e = 0 <=> d = << >>)
    BY <1>0
  <2> HIDE DEF l, e, n
  <2> QED
    BY <1>0, <2>1 DEF IdSize, BodySize, l, e, n
<1>2. 256 * b[m + 1] + b[m + 2] = l
  <2>1. b[m + 1] = l \div 256 /\ b[m + 2] = l % 256
    BY <1>0 DEF Published
  <2> HIDE DEF l
  <2> QED
    BY <1>1, <2>1
<1>3. M!Topic(b, n) = [found |-> TRUE, at |-> m + 2, len |-> l]
  <2>1. ~(m + 2 >= n)
    BY <1>0, <1>1
  <2>2. M!LengthField(b, n).next = m
    BY <1>0
  <2> HIDE DEF l, n
  <2> QED
    BY <1>2, <2>1, <2>2 DEF M!Topic
<1>4. M!mqtt_get_total_length(b, n) = total
  <2> DEFINE v == BodySize(t, q, d)
  <2>1. M!LengthField(b, n) = [next |-> m, value |-> v] /\ total = m + v
    BY <1>0
  <2>2. v \in Nat
    BY <1>1 DEF BodySize
  <2> HIDE DEF n, v, total
  <2> QED
    BY <1>0, <2>1, <2>2 DEF M!mqtt_get_total_length
<1>5. M!mqtt_get_publish_topic(b, n) = t
  <2>1. M!Bytes(b, m + 2, l) = t
    <3>1. Holds(b, m + 2, t) /\ t \in Seq(Int) /\ m + 2 \in Nat
      BY <1>0 DEF Published
    <3>2. m + 2 + Len(t) <= Len(b)
      BY <1>1
    <3> QED
      BY <1>0, <3>1, <3>2, BytesAreRead
  <2> HIDE DEF l, n
  <2> QED
    BY <1>0, <1>1, <1>3, <2>1 DEF M!mqtt_get_publish_topic
<1>6. M!DataAt(b, n) = i + z
  <2> HIDE DEF l, n
  <2> QED
    BY <1>0, <1>1, <1>3 DEF M!DataAt, IdSize
<1>7. ASSUME d # << >> \/ q = 0 \/ total < n
      PROVE  M!mqtt_get_publish_data(b, n) = d
  <2>1. M!Bytes(b, i + z, e) = d
    <3>1. Holds(b, m + 2 + Len(t) + (IF q > 0 THEN 2 ELSE 0), d)
      BY <1>0 DEF Published
    <3>0. Holds(b, i + z, d) /\ d \in Seq(Int) /\ i + z \in Nat
      BY <1>0, <1>1, <3>1 DEF IdSize
    <3>2. i + z + Len(d) <= Len(b)
      BY <1>1
    <3> QED
      BY <1>0, <3>0, <3>2, BytesAreRead
  <2>2. CASE i >= n
    <3>1. e = 0
      BY <1>1, <2>2
    <3>2. M!Topic(b, n).found /\ M!Topic(b, n).at + M!Topic(b, n).len >= n /\ d = << >>
      BY <1>1, <1>3, <2>2, <3>1
    <3> HIDE DEF l, n
    <3> QED
      BY <3>2 DEF M!mqtt_get_publish_data
  <2>3. CASE i < n
    <3>1. ~(q > 0 /\ i + z >= n) /\ ~(total < i + z)
      BY <1>1, <1>7, <2>3
    <3>2. total - (i + z) = e
      BY <1>1
    <3> HIDE DEF l, n, e, total
    <3> QED
      BY <1>0, <1>1, <1>3, <1>4, <1>6, <2>1, <2>3, <3>1, <3>2 DEF M!mqtt_get_publish_data
  <2> QED
    BY <1>1, <2>2, <2>3
<1>8. ASSUME i + z < n PROVE M!PublishId(b, n) = IF q > 0 THEN id ELSE 0
  <2>1. CASE q = 0
    BY <1>0, <1>1, <1>3, <1>8, <2>1 DEF M!PublishId
  <2>2. CASE q > 0
    <3>1. b[i + 1] = id \div 256 /\ b[i + 2] = id % 256
      BY <1>0, <2>2 DEF Published
    <3>2. 256 * b[i + 1] + b[i + 2] = id
      BY <1>0, <3>1
    <3>3. ~(i >= n) /\ ~(i + 2 >= n)
      BY <1>1, <1>8, <2>2 DEF IdSize
    <3> HIDE DEF l, n
    <3> QED
      BY <1>0, <1>1, <1>3, <2>2, <3>2, <3>3 DEF M!PublishId
  <2> QED
    BY <1>0, <1>1, <2>1, <2>2
<1> QED
  BY <1>4, <1>5, <1>7, <1>8 DEF ReadFrom

\* Two and three strings behind each other
LEMMA TwoJoined ==
  ASSUME NEW u \in Seq(Int), NEW v \in Seq(Int)
  PROVE  /\ u \o v \in Seq(Int) /\ Len(u \o v) = Len(u) + Len(v)
         /\ Len(u) \in Nat /\ Len(v) \in Nat
         /\ \A j \in 1 .. Len(u) : (u \o v)[j] = u[j]
         /\ \A j \in 1 .. Len(v) : (u \o v)[Len(u) + j] = v[j]
<1>1. u \o v \in Seq(Int) /\ Len(u \o v) = Len(u) + Len(v)
  OBVIOUS
<1>2. \A j \in 1 .. Len(u) : (u \o v)[j] = u[j]
  OBVIOUS
<1>3. \A j \in 1 .. Len(v) : (u \o v)[Len(u) + j] = v[j]
  OBVIOUS
<1> QED
  BY <1>1, <1>2, <1>3

LEMMA Joined ==
  ASSUME NEW u \in Seq(Int), NEW v \in Seq(Int), NEW w \in Seq(Int)
  PROVE  /\ u \o v \o w \in Seq(Int)
         /\ Len(u \o v \o w) = Len(u) + Len(v) + Len(w)
         /\ \A j \in 1 .. Len(u) : (u \o v \o w)[j] = u[j]
         /\ \A j \in 1 .. Len(v) : (u \o v \o w)[Len(u) + j] = v[j]
         /\ \A j \in 1 .. Len(w) : (u \o v \o w)[Len(u) + Len(v) + j] = w[j]
<1> DEFINE x == u \o v
           y == x \o w
<1>1. /\ x \in Seq(Int) /\ Len(x) = Len(u) + Len(v)
      /\ Len(u) \in Nat /\ Len(v) \in Nat
      /\ \A j \in 1 .. Len(u) : x[j] = u[j]
      /\ \A j \in 1 .. Len(v) : x[Len(u) + j] = v[j]
  BY TwoJoined
<1> HIDE DEF x
<1>2. /\ y \in Seq(Int) /\ Len(y) = Len(x) + Len(w) /\ Len(w) \in Nat
      /\ \A j \in 1 .. Len(x) : y[j] = x[j]
      /\ \A j \in 1 .. Len(w) : y[Len(x) + j] = w[j]
  <2>1. x \in Seq(Int)
    BY <1>1
  <2> QED
    BY <2>1, TwoJoined
<1> HIDE DEF y
<1>3. \A j \in 1 .. Len(u) : y[j] = u[j]
  BY <1>1, <1>2
<1>4. \A j \in 1 .. Len(v) : y[Len(u) + j] = v[j]
  <2> SUFFICES ASSUME NEW j \in 1 .. Len(v) PROVE y[Len(u) + j] = v[j]
    OBVIOUS
  <2>1. Len(u) + j \in 1 .. Len(x) /\ x[Len(u) + j] = v[j]
    BY <1>1
  <2> QED
    BY <1>2, <2>1
<1>5. \A j \in 1 .. Len(w) : y[Len(u) + Len(v) + j] = w[j]
  BY <1>1, <1>2
<1>6. y \in Seq(Int) /\ Len(y) = Len(u) + Len(v) + Len(w)
  BY <1>1, <1>2
<1> QED
  BY <1>3, <1>4, <1>5, <1>6 DEF x, y

LEMMA PairIs ==
  ASSUME NEW i \in Int, NEW j \in Int
  PROVE  <<i, j>> \in Seq(Int) /\ Len(<<i, j>>) = 2 /\ <<i, j>>[1] = i /\ <<i, j>>[2] = j
  OBVIOUS

\* A message: its header, its length, and its body
Message(h, body) == <<h>> \o M!Remaining(Len(body)) \o body

\* The length field of b says n.
SaysLength(b, n) ==
  IF n > 127 THEN b[2] = 128 + (n % 128) /\ b[3] = (n \div 128) % 256 ELSE b[2] = n

LEMMA FrameIs ==
  ASSUME NEW h \in Int, NEW body \in Seq(Int)
  PROVE  /\ Message(h, body) \in Seq(Int)
         /\ Len(Message(h, body)) = 1 + SizeOfLength(Len(body)) + Len(body)
         /\ Message(h, body)[1] = h
         /\ SaysLength(Message(h, body), Len(body))
         /\ Holds(Message(h, body), 1 + SizeOfLength(Len(body)), body)
<1> DEFINE f == Message(h, body)
           n == Len(body)
<1> DEFINE u == <<h>>
           r == M!Remaining(n)
<1>1. u \in Seq(Int) /\ Len(u) = 1 /\ u[1] = h /\ n \in Nat
  OBVIOUS
<1>2. r \in Seq(Int) /\ Len(r) = SizeOfLength(n)
      /\ IF n > 127 THEN r[1] = 128 + (n % 128) /\ r[2] = (n \div 128) % 256 ELSE r[1] = n
  <2>1. CASE n > 127
    <3> DEFINE i == 128 + (n % 128)
               j == (n \div 128) % 256
    <3>1. r = <<i, j>> /\ SizeOfLength(n) = 2
      BY <2>1 DEF M!Remaining, SizeOfLength
    <3>2. i \in Int /\ j \in Int
      BY <1>1
    <3> HIDE DEF i, j, r
    <3>3. r \in Seq(Int) /\ Len(r) = 2 /\ r[1] = i /\ r[2] = j
      BY <3>1, <3>2, PairIs
    <3> QED
      BY <2>1, <3>1, <3>3 DEF i, j
  <2>2. CASE ~(n > 127)
    <3>1. r = <<n>> /\ SizeOfLength(n) = 1
      BY <2>2 DEF M!Remaining, SizeOfLength
    <3> HIDE DEF r
    <3> QED
      BY <1>1, <2>2, <3>1
  <2> QED
    BY <2>1, <2>2
<1>3. SizeOfLength(n) \in {1, 2} /\ (n > 127 <=> SizeOfLength(n) = 2)
  BY <1>1 DEF SizeOfLength
<1>4. f = u \o r \o body
  BY DEF Message
<1> HIDE DEF u, r, f
<1>5. /\ f \in Seq(Int) /\ Len(f) = 1 + SizeOfLength(n) + n
      /\ \A j \in 1 .. Len(u) : f[j] = u[j]
      /\ Holds(f, Len(u), r) /\ Holds(f, Len(u) + Len(r), body)
  <2>1. u \in Seq(Int) /\ r \in Seq(Int) /\ body \in Seq(Int)
    BY <1>1, <1>2
  <2> DEFINE g == u \o r \o body
  <2>2. /\ g \in Seq(Int) /\ Len(g) = Len(u) + Len(r) + Len(body)
        /\ \A j \in 1 .. Len(u) : g[j] = u[j]
        /\ \A j \in 1 .. Len(r) : g[Len(u) + j] = r[j]
        /\ \A j \in 1 .. Len(body) : g[Len(u) + Len(r) + j] = body[j]
    BY <2>1, Joined
  <2>3. f = g
    BY <1>4
  <2> HIDE DEF g
  <2> QED
    BY <1>1, <1>2, <2>2, <2>3 DEF Holds
<1>6. f[1] = h
  BY <1>1, <1>5
<1>7. \A j \in 1 .. SizeOfLength(n) : f[1 + j] = r[j]
  BY <1>1, <1>2, <1>5 DEF Holds
<1>8. f[2] = r[1] /\ (n > 127 => f[3] = r[2])
  <2>1. f[1 + 1] = r[1] /\ (n > 127 => f[1 + 2] = r[2])
    BY <1>3, <1>7
  <2> QED
    BY <2>1
<1>9. Holds(f, 1 + SizeOfLength(n), body)
  BY <1>1, <1>2, <1>5
<1> QED
  BY <1>1, <1>2, <1>5, <1>6, <1>8, <1>9 DEF SaysLength, f

\* The body of a publication
LEMMA StringIs ==
  ASSUME NEW t \in Seq(Nat)
  PROVE  /\ M!String(t) \in Seq(Int) /\ Len(M!String(t)) = 2 + Len(t)
         /\ M!String(t)[1] = Len(t) \div 256 /\ M!String(t)[2] = Len(t) % 256
         /\ Holds(M!String(t), 2, t)
<1> DEFINE c == <<Len(t) \div 256, Len(t) % 256>>
<1>1. c \in Seq(Int) /\ Len(c) = 2 /\ c[1] = Len(t) \div 256 /\ c[2] = Len(t) % 256
  BY PairIs
<1>2. t \in Seq(Int) /\ Len(t) \in Nat
  OBVIOUS
<1>3. M!String(t) = c \o t
  BY DEF M!String, M!TwoBytes
<1> HIDE DEF c
<1> DEFINE s == c \o t
<1>5. /\ s \in Seq(Int) /\ Len(s) = 2 + Len(t)
      /\ (\A j \in 1 .. Len(c) : s[j] = c[j]) /\ Holds(s, 2, t)
  <2>1. /\ s \in Seq(Int) /\ Len(s) = Len(c) + Len(t)
        /\ (\A j \in 1 .. Len(c) : s[j] = c[j])
        /\ \A j \in 1 .. Len(t) : s[Len(c) + j] = t[j]
    BY <1>1, <1>2, TwoJoined
  <2> HIDE DEF s
  <2> QED
    BY <1>1, <2>1 DEF Holds
<1> HIDE DEF s
<1>6. s[1] = c[1] /\ s[2] = c[2]
  BY <1>1, <1>5
<1> QED
  BY <1>1, <1>3, <1>5, <1>6 DEF s

PublicationBody(t, q, id, d) ==
  M!String(t) \o (IF q > 0 THEN M!TwoBytes(id) ELSE << >>) \o d

LEMMA BodyIs ==
  ASSUME NEW t \in Seq(Nat), NEW q \in 0 .. 2, NEW id \in Nat, NEW d \in Seq(Nat)
  PROVE  /\ PublicationBody(t, q, id, d) \in Seq(Int)
         /\ Len(PublicationBody(t, q, id, d)) = BodySize(t, q, d)
         /\ Published(PublicationBody(t, q, id, d), 0, t, q, id, d)
<1> DEFINE body == PublicationBody(t, q, id, d)
           u == M!String(t)
           v == IF q > 0 THEN M!TwoBytes(id) ELSE << >>
<1>1. u \in Seq(Int) /\ Len(u) = 2 + Len(t) /\ Len(t) \in Nat
  BY StringIs
<1>2. u[1] = Len(t) \div 256 /\ u[2] = Len(t) % 256 /\ Holds(u, 2, t)
  BY StringIs
<1>3. v \in Seq(Int) /\ Len(v) = IdSize(q) /\ (q > 0 => v[1] = id \div 256 /\ v[2] = id % 256)
  <2>1. CASE q > 0
    <3>1. id \div 256 \in Int /\ id % 256 \in Int /\ v = <<id \div 256, id % 256>>
      BY <2>1 DEF M!TwoBytes
    <3> HIDE DEF v
    <3> QED
      BY <2>1, <3>1, PairIs DEF IdSize
  <2>2. CASE q = 0
    <3>1. v = << >> /\ IdSize(q) = 0
      BY <2>2 DEF IdSize
    <3> HIDE DEF v
    <3> QED
      BY <2>2, <3>1
  <2> QED
    BY <2>1, <2>2
<1>4. d \in Seq(Int) /\ Len(d) \in Nat /\ IdSize(q) \in {0, 2} /\ (q > 0 => IdSize(q) = 2)
  BY DEF IdSize
<1>5. body = u \o v \o d
  BY DEF PublicationBody
<1> HIDE DEF u, v, body
<1>6. /\ body \in Seq(Int) /\ Len(body) = Len(u) + Len(v) + Len(d)
      /\ \A j \in 1 .. Len(u) : body[j] = u[j]
      /\ Holds(body, Len(u), v) /\ Holds(body, Len(u) + Len(v), d)
  <2>1. u \in Seq(Int) /\ v \in Seq(Int) /\ d \in Seq(Int)
    BY <1>1, <1>3, <1>4
  <2> DEFINE g == u \o v \o d
  <2>2. /\ g \in Seq(Int) /\ Len(g) = Len(u) + Len(v) + Len(d)
        /\ \A j \in 1 .. Len(u) : g[j] = u[j]
        /\ \A j \in 1 .. Len(v) : g[Len(u) + j] = v[j]
        /\ \A j \in 1 .. Len(d) : g[Len(u) + Len(v) + j] = d[j]
    BY <2>1, Joined
  <2>3. body = g
    BY <1>5
  <2> HIDE DEF g
  <2> QED
    BY <2>2, <2>3 DEF Holds
<1>7. Len(body) = BodySize(t, q, d)
  BY <1>1, <1>3, <1>4, <1>6 DEF BodySize
<1>8. body[1] = u[1] /\ body[2] = u[2]
  BY <1>1, <1>6
<1>9. Holds(body, 2, t)
  <2> SUFFICES ASSUME NEW j \in 1 .. Len(t) PROVE body[2 + j] = t[j]
    BY DEF Holds
  <2>1. u[2 + j] = t[j]
    BY <1>2 DEF Holds
  <2>2. 2 + j \in 1 .. Len(u)
    BY <1>1
  <2> QED
    BY <1>6, <2>1, <2>2
<1>10. q > 0 => body[2 + Len(t) + 1] = v[1] /\ body[2 + Len(t) + 2] = v[2]
  <2>1. q > 0 => 1 \in 1 .. Len(v) /\ 2 \in 1 .. Len(v)
    BY <1>3, <1>4
  <2>2. \A j \in 1 .. Len(v) : body[2 + Len(t) + j] = v[j]
    BY <1>1, <1>6 DEF Holds
  <2> QED
    BY <2>1, <2>2
<1>11. Holds(body, 2 + Len(t) + (IF q > 0 THEN 2 ELSE 0), d)
  BY <1>1, <1>3, <1>6 DEF IdSize
<1>12. Published(body, 0, t, q, id, d)
  BY <1>2, <1>3, <1>8, <1>9, <1>10, <1>11 DEF Published
<1> QED
  BY <1>6, <1>7, <1>12 DEF body

\* A message at the start of b, whatever stands behind it
Starts(b, f) == Len(f) <= Len(b) /\ \A j \in 1 .. Len(f) : b[j] = f[j]

LEMMA LengthOfMessage ==
  ASSUME NEW h \in Int, NEW body \in Seq(Int), Len(body) < 16384,
         NEW b \in Seq(Int), Starts(b, Message(h, body))
  PROVE  /\ M!LengthField(b, Len(b)) = [next |-> SizeOfLength(Len(body)) + 1, value |-> Len(body)]
         /\ b[1] = h /\ Holds(b, 1 + SizeOfLength(Len(body)), body)
<1> DEFINE f == Message(h, body)
           n == Len(body)
<1>1. /\ f \in Seq(Int) /\ n \in Nat /\ Len(f) = 1 + SizeOfLength(n) + n /\ f[1] = h
      /\ SaysLength(f, n)
      /\ Holds(f, 1 + SizeOfLength(n), body)
  BY FrameIs
<1> HIDE DEF f
<1>2. Len(f) <= Len(b) /\ (\A j \in 1 .. Len(f) : b[j] = f[j]) /\ Len(b) \in Nat
  BY DEF Starts, f
<1>3. SizeOfLength(n) \in {1, 2} /\ (n > 127 => SizeOfLength(n) = 2) /\ (n > 127 => n >= 1)
  BY <1>1 DEF SizeOfLength
<1>4. b[1] = h /\ b[2] = f[2] /\ (n > 127 => b[3] = f[3])
  <2>1. 1 \in 1 .. Len(f) /\ 2 \in 1 .. Len(f) /\ (n > 127 => 3 \in 1 .. Len(f))
    BY <1>1, <1>3
  <2>2. b[1] = f[1] /\ b[2] = f[2] /\ (n > 127 => b[3] = f[3])
    BY <1>2, <2>1
  <2> QED
    BY <1>1, <2>2
<1>5. SizeOfLength(n) < Len(b)
  BY <1>1, <1>2, <1>3
<1>6. M!LengthField(b, Len(b)) = [next |-> SizeOfLength(n) + 1, value |-> n]
  <2>1. IF n > 127 THEN b[2] = 128 + (n % 128) /\ b[3] = (n \div 128) % 256 ELSE b[2] = n
    BY <1>1, <1>4 DEF SaysLength
  <2> QED
    BY <1>1, <1>5, <2>1, LengthIsRead
<1>7. Holds(b, 1 + SizeOfLength(n), body)
  <2> SUFFICES ASSUME NEW j \in 1 .. Len(body)
               PROVE  b[1 + SizeOfLength(n) + j] = body[j]
    BY DEF Holds
  <2>1. 1 + SizeOfLength(n) + j \in 1 .. Len(f)
    BY <1>1, <1>3
  <2>2. f[1 + SizeOfLength(n) + j] = body[j]
    BY <1>1 DEF Holds
  <2> QED
    BY <1>2, <2>1, <2>2
<1> QED
  BY <1>1, <1>4, <1>6, <1>7

\* The two bits that mqtt_get_qos takes
QosBits(h) == (h % 8) \div 2

\* A publication is read from where it stands.
LEMMA FrameIsRead ==
  ASSUME NEW h \in Int, NEW t \in Seq(Nat), NEW q \in 0 .. 2, NEW id \in Nat, NEW d \in Seq(Nat),
         t # << >>, QosBits(h) = q, BodySize(t, q, d) < 16384,
         NEW body \in Seq(Int), Len(body) = BodySize(t, q, d), Published(body, 0, t, q, id, d),
         NEW f \in Seq(Int), f = Message(h, body), NEW b \in Seq(Int), Starts(b, f)
  PROVE  /\ M!mqtt_get_total_length(b, Len(b)) = Len(f)
         /\ M!mqtt_get_publish_topic(b, Len(b)) = t
         /\ d # << >> \/ q = 0 \/ Len(f) < Len(b) => M!mqtt_get_publish_data(b, Len(b)) = d
         /\ d # << >> \/ Len(f) < Len(b) => M!PublishId(b, Len(b)) = IF q > 0 THEN id ELSE 0
         /\ M!GetQos(b) = q /\ b[1] = h
<1> DEFINE n == BodySize(t, q, d)
           m == 1 + SizeOfLength(n)
           z == IdSize(q)
<1>1. body \in Seq(Int) /\ Len(body) = n /\ Published(body, 0, t, q, id, d)
  OBVIOUS
<1>2. n = 2 + Len(t) + z + Len(d) /\ Len(t) \in Nat /\ Len(d) \in Nat /\ z \in {0, 2} /\ n \in Nat
      /\ (Len(d) = 0 <=> d = << >>) /\ (q > 0 => z = 2) /\ z = (IF q > 0 THEN 2 ELSE 0)
  BY DEF BodySize, IdSize
<1>3. f = Message(h, body) /\ n < 16384
  OBVIOUS
<1> HIDE DEF n
<1>4. /\ M!LengthField(b, Len(b)) = [next |-> SizeOfLength(n) + 1, value |-> n]
      /\ b[1] = h /\ Holds(b, 1 + SizeOfLength(n), body)
      /\ Len(f) = 1 + SizeOfLength(n) + n
  BY <1>1, <1>3, LengthOfMessage, FrameIs
<1>5. m \in {2, 3} /\ SizeOfLength(n) + 1 = m
  BY DEF SizeOfLength
<1>6. M!GetQos(b) = q
  BY <1>4 DEF M!GetQos, QosBits
<1>7. Len(f) <= Len(b) /\ Len(b) \in Nat
  BY DEF Starts
<1>8. \A j \in 1 .. n : b[m + j] = body[j]
  BY <1>1, <1>4 DEF Holds
<1> HIDE DEF m, z
<1>9. /\ body[1] = Len(t) \div 256 /\ body[2] = Len(t) % 256
      /\ \A j \in 1 .. Len(t) : body[2 + j] = t[j]
      /\ q > 0 => body[2 + Len(t) + 1] = id \div 256 /\ body[2 + Len(t) + 2] = id % 256
      /\ \A j \in 1 .. Len(d) : body[2 + Len(t) + z + j] = d[j]
  <2>1. body[0 + 1] = Len(t) \div 256 /\ body[0 + 2] = Len(t) % 256
    BY <1>1 DEF Published
  <2>2. \A j \in 1 .. Len(t) : body[0 + 2 + j] = t[j]
    BY <1>1 DEF Published, Holds
  <2>3. q > 0 => body[0 + 2 + Len(t) + 1] = id \div 256 /\ body[0 + 2 + Len(t) + 2] = id % 256
    BY <1>1 DEF Published
  <2>4. \A j \in 1 .. Len(d) : body[0 + 2 + Len(t) + z + j] = d[j]
    BY <1>1, <1>2 DEF Published, Holds
  <2> QED
    BY <1>2, <2>1, <2>2, <2>3, <2>4
<1>10. Published(b, m, t, q, id, d)
  <2>1. b[m + 1] = body[1] /\ b[m + 2] = body[2]
    BY <1>2, <1>8
  <2>2. Holds(b, m + 2, t)
    <3> SUFFICES ASSUME NEW j \in 1 .. Len(t) PROVE b[m + 2 + j] = t[j]
      BY DEF Holds
    <3>1. 2 + j \in 1 .. n
      BY <1>2
    <3>2. b[m + (2 + j)] = body[2 + j]
      BY <1>8, <3>1
    <3>3. m + (2 + j) = m + 2 + j
      BY <1>5
    <3> QED
      BY <1>9, <3>2, <3>3
  <2>3. q > 0 => /\ b[m + 2 + Len(t) + 1] = id \div 256
                 /\ b[m + 2 + Len(t) + 2] = id % 256
    <3> SUFFICES ASSUME q > 0
                 PROVE  b[m + 2 + Len(t) + 1] = id \div 256 /\ b[m + 2 + Len(t) + 2] = id % 256
      OBVIOUS
    <3>1. 2 + Len(t) + 1 \in 1 .. n /\ 2 + Len(t) + 2 \in 1 .. n
      BY <1>2
    <3>2. b[m + (2 + Len(t) + 1)] = body[2 + Len(t) + 1] /\ b[m + (2 + Len(t) + 2)] = body[2 + Len(t) + 2]
      BY <1>8, <3>1
    <3>3. m + (2 + Len(t) + 1) = m + 2 + Len(t) + 1 /\ m + (2 + Len(t) + 2) = m + 2 + Len(t) + 2
      BY <1>2, <1>5
    <3> QED
      BY <1>9, <3>2, <3>3
  <2>4. Holds(b, m + 2 + Len(t) + (IF q > 0 THEN 2 ELSE 0), d)
    <3> SUFFICES ASSUME NEW j \in 1 .. Len(d) PROVE b[m + 2 + Len(t) + z + j] = d[j]
      BY <1>2 DEF Holds
    <3>1. 2 + Len(t) + z + j \in 1 .. n
      BY <1>2
    <3>2. b[m + (2 + Len(t) + z + j)] = body[2 + Len(t) + z + j]
      BY <1>8, <3>1
    <3>3. m + (2 + Len(t) + z + j) = m + 2 + Len(t) + z + j
      BY <1>2, <1>5
    <3> QED
      BY <1>9, <3>2, <3>3
  <2> QED
    BY <1>9, <2>1, <2>2, <2>3, <2>4 DEF Published
<1>11. m + n <= Len(b) /\ Len(f) = m + n
  <2>1. Len(f) = m + n
    BY <1>4, <1>5 DEF m
  <2> QED
    BY <1>7, <2>1
<1>12. ReadFrom(b, m, t, q, id, d)
  <2>1. m + BodySize(t, q, d) <= Len(b)
        /\ M!LengthField(b, Len(b)) = [next |-> m, value |-> BodySize(t, q, d)]
    BY <1>4, <1>5, <1>11 DEF n
  <2>2. m \in {2, 3} /\ M!GetQos(b) = q /\ Published(b, m, t, q, id, d)
    BY <1>5, <1>6, <1>10
  <2>3. Standing(b, m, t, q, id, d)
    BY <2>1, <2>2 DEF Standing
  <2> QED
    BY <2>3, PublicationIsRead
<1>13. d # << >> \/ Len(f) < Len(b) => m + 2 + Len(t) + z < Len(b)
  BY <1>2, <1>5, <1>7, <1>11
<1> QED
  <2>1. m + BodySize(t, q, d) = Len(f)
    BY <1>11 DEF n
  <2>2. d # << >> \/ Len(f) < Len(b) => m + 2 + Len(t) + IdSize(q) < Len(b)
    BY <1>13 DEF z
  <2> QED
    BY <1>4, <1>6, <1>12, <2>1, <2>2 DEF ReadFrom

\* A frame of a publication, and what is read of it at the start of b
FramedAs(f, h, t, q, id, d) ==
  /\ h \in Int /\ QosBits(h) = q /\ t \in Seq(Nat) \ {<< >>} /\ q \in 0 .. 2 /\ id \in Nat
  /\ d \in Seq(Nat) /\ BodySize(t, q, d) < 16384
  /\ f = Message(h, PublicationBody(t, q, id, d))

FrameRead(b, f, h, t, q, id, d) ==
  /\ M!mqtt_get_total_length(b, Len(b)) = Len(f)
  /\ M!mqtt_get_publish_topic(b, Len(b)) = t
  /\ d # << >> \/ q = 0 \/ Len(f) < Len(b) => M!mqtt_get_publish_data(b, Len(b)) = d
  /\ d # << >> \/ Len(f) < Len(b) => M!PublishId(b, Len(b)) = IF q > 0 THEN id ELSE 0
  /\ M!GetQos(b) = q /\ b[1] = h

LEMMA PublicationFrameIsRead ==
  ASSUME NEW b, NEW f, NEW h, NEW t, NEW q, NEW id, NEW d,
         FramedAs(f, h, t, q, id, d), b \in Seq(Int), Starts(b, f)
  PROVE  FrameRead(b, f, h, t, q, id, d)
<1> DEFINE body == PublicationBody(t, q, id, d)
<1>0. t \in Seq(Nat) /\ q \in 0 .. 2 /\ id \in Nat /\ d \in Seq(Nat)
  BY DEF FramedAs
<1>1. h \in Int /\ t # << >> /\ QosBits(h) = q /\ BodySize(t, q, d) < 16384 /\ f = Message(h, body)
  BY DEF FramedAs
<1>2. body \in Seq(Int) /\ Len(body) = BodySize(t, q, d) /\ Published(body, 0, t, q, id, d)
  BY <1>0, BodyIs
<1> HIDE DEF body
<1>3. f \in Seq(Int)
  BY <1>1, <1>2, FrameIs
<1>4. QED
  BY <1>0, <1>1, <1>2, <1>3, FrameIsRead DEF FrameRead

\* A message that was built, and what is read of its start
Finished(m, body, type, qos, retain) ==
  /\ body \in Seq(Int) /\ type \in 0 .. 15 /\ qos \in 0 .. 2 /\ retain \in 0 .. 1
  /\ m = M!Fini(body, type, qos, retain) /\ m # << >>

LEMMA HeaderIs ==
  ASSUME NEW type \in 0 .. 15, NEW qos \in 0 .. 2, NEW retain \in 0 .. 1
  PROVE  /\ M!Header(type, 0, qos, retain) \in Int
         /\ M!Header(type, 0, qos, retain) \div 16 = type
         /\ QosBits(M!Header(type, 0, qos, retain)) = qos
<1>1. qos % 4 = qos /\ retain % 2 = retain
  OBVIOUS
<1>2. M!Header(type, 0, qos, retain) = 16 * type + 2 * qos + retain
  BY <1>1 DEF M!Header
<1>3. (16 * type + 2 * qos + retain) \div 16 = type
  OBVIOUS
<1>4. (16 * type + 2 * qos + retain) % 8 = 2 * qos + retain
  OBVIOUS
<1>5. (2 * qos + retain) \div 2 = qos
  OBVIOUS
<1> QED
  BY <1>2, <1>3, <1>4, <1>5 DEF QosBits

LEMMA FinishedIs ==
  ASSUME NEW m, NEW body, NEW type, NEW qos, NEW retain, Finished(m, body, type, qos, retain)
  PROVE  /\ m = Message(M!Header(type, 0, qos, retain), body) /\ m \in Seq(Int)
         /\ Len(body) \in Nat /\ Len(body) < 16384
<1>1. /\ body \in Seq(Int) /\ type \in 0 .. 15 /\ qos \in 0 .. 2 /\ retain \in 0 .. 1
      /\ m = M!Fini(body, type, qos, retain) /\ m # << >>
  BY DEF Finished
<1>2. M!Fits(body) /\ m = Message(M!Header(type, 0, qos, retain), body)
  BY <1>1 DEF M!Fini, Message
<1>3. Len(body) \in Nat /\ Len(body) < 16384
  BY <1>1, <1>2, MessageAssumption, TwoBytesWide DEF M!Fits, M!MAX_FIXED_HEADER_SIZE
<1>4. M!Header(type, 0, qos, retain) \in Int
  BY <1>1, HeaderIs
<1>5. m \in Seq(Int)
  BY <1>1, <1>2, <1>4, FrameIs
<1> QED
  BY <1>2, <1>3, <1>5

\* The id in the first two bytes of a body
BeginsWith(body, id) ==
  Len(body) >= 2 /\ Len(body) < 128 /\ body[1] = id \div 256 /\ body[2] = id % 256

\* What the readers say of a message that is no publication
SaysOf(m, type) ==
  M!GetType(m) = type /\ M!mqtt_get_total_length(m, Len(m)) = Len(m)

LEMMA FinishedReads ==
  ASSUME NEW m, NEW body, NEW type, NEW qos, NEW retain, Finished(m, body, type, qos, retain)
  PROVE  SaysOf(m, type)
<1> DEFINE h == M!Header(type, 0, qos, retain)
           n == Len(body)
<1>1. /\ body \in Seq(Int) /\ type \in 0 .. 15 /\ qos \in 0 .. 2 /\ retain \in 0 .. 1
  BY DEF Finished
<1>2. m = Message(h, body) /\ m \in Seq(Int) /\ n \in Nat /\ n < 16384
  BY FinishedIs
<1>3. h \in Int /\ h \div 16 = type
  BY <1>1, HeaderIs
<1> HIDE DEF h
<1>4. Len(Message(h, body)) \in Nat
  BY <1>2
<1>5. Starts(m, Message(h, body))
  BY <1>2, <1>4 DEF Starts
<1>6. /\ M!LengthField(m, Len(m)) = [next |-> SizeOfLength(n) + 1, value |-> n]
      /\ m[1] = h
  BY <1>1, <1>2, <1>3, <1>5, LengthOfMessage
<1>7. Len(m) = 1 + SizeOfLength(n) + n /\ SizeOfLength(n) \in {1, 2}
  BY <1>1, <1>2, <1>3, FrameIs DEF SizeOfLength
<1>8. M!mqtt_get_total_length(m, Len(m)) = Len(m)
  <2> HIDE DEF n
  <2> QED
    BY <1>2, <1>6, <1>7 DEF M!mqtt_get_total_length
<1>9. M!GetType(m) = type
  BY <1>3, <1>6 DEF M!GetType
<1> QED
  BY <1>8, <1>9 DEF SaysOf

LEMMA IdIsRead ==
  ASSUME NEW m, NEW body, NEW type, NEW qos, NEW retain, NEW id,
         Finished(m, body, type, qos, retain),
         type \in {4, 5, 6, 7, 8}, id \in Nat, BeginsWith(body, id)
  PROVE  M!mqtt_get_id(m, Len(m)) = id
<1> DEFINE h == M!Header(type, 0, qos, retain)
           n == Len(body)
<1>1. /\ body \in Seq(Int) /\ type \in 0 .. 15 /\ qos \in 0 .. 2 /\ retain \in 0 .. 1
  BY DEF Finished
<1>2. m = Message(h, body) /\ m \in Seq(Int)
  BY FinishedIs
<1>3. h \in Int
  BY <1>1, HeaderIs
<1>4. n \in 2 .. 127 /\ body[1] = id \div 256 /\ body[2] = id % 256
  <2>1. n \in Nat /\ n >= 2 /\ n < 128
    BY <1>1 DEF BeginsWith
  <2>2. body[1] = id \div 256 /\ body[2] = id % 256
    BY DEF BeginsWith
  <2> HIDE DEF n
  <2> QED
    BY <2>1, <2>2
<1> HIDE DEF h, n
<1>5. /\ Len(m) = 1 + SizeOfLength(n) + n /\ SizeOfLength(n) = 1
      /\ SaysLength(m, n) /\ Holds(m, 1 + SizeOfLength(n), body)
  <2> DEFINE g == Message(h, body)
  <2>1. Len(g) = 1 + SizeOfLength(n) + n /\ SaysLength(g, n) /\ Holds(g, 1 + SizeOfLength(n), body)
    BY <1>1, <1>3, FrameIs DEF n
  <2>2. SizeOfLength(n) = 1
    BY <1>4 DEF SizeOfLength
  <2>3. m = g
    BY <1>2
  <2> HIDE DEF g
  <2> QED
    BY <2>1, <2>2, <2>3
<1>6. m[2] = n /\ Len(m) = n + 2
  BY <1>4, <1>5 DEF SaysLength
<1>7. m[2 + 1] = body[1] /\ m[2 + 2] = body[2]
  BY <1>4, <1>5 DEF Holds, n
<1>8. 256 * m[3] + m[4] = id
  BY <1>4, <1>7
<1>9. M!GetType(m) = type
  BY FinishedReads DEF SaysOf
<1>10. Len(m) >= 4 /\ m[2] < 128
  BY <1>4, <1>6
<1> QED
  BY <1>8, <1>9, <1>10 DEF M!mqtt_get_id, M!Type


\* MessageReadsBack of message m and request r
ReadsBack(m, r) ==
  m # << >> /\ r # M!NoRequest =>
    /\ SaysOf(m, M!Type[r.op])
    /\ r.op = "publish" =>
         /\ M!mqtt_get_publish_topic(m, Len(m)) = r.what.topic
         /\ r.what.data # << >> \/ r.what.qos = 0 =>
              M!mqtt_get_publish_data(m, Len(m)) = r.what.data
         /\ M!GetQos(m) = r.what.qos
         /\ r.what.data # << >> => M!mqtt_get_id(m, Len(m)) = r.id
    /\ r.op \in {"subscribe", "puback", "pubrec", "pubrel", "pubcomp"} /\ Len(r.body) < 128 =>
         M!mqtt_get_id(m, Len(m)) = r.id

LEMMA ReadsBackIs == MessageReadsBack' <=> ReadsBack(message', request')
  BY DEF ReadsBack, SaysOf, MessageReadsBack, M!MessageReadsBack

LEMMA IdOfBody ==
  ASSUME NEW id \in Nat
  PROVE  /\ M!TwoBytes(id) \in Seq(Int) /\ Len(M!TwoBytes(id)) = 2
         /\ M!TwoBytes(id)[1] = id \div 256 /\ M!TwoBytes(id)[2] = id % 256
  BY PairIs DEF M!TwoBytes

LEMMA NextIdIs ==
  ASSUME message_id \in Nat
  PROVE  M!NextId \in Nat
  BY MessageAssumption, TwoBytesWide DEF M!NextId

TypeCode(op) == M!Type[op]

LEMMA TypesAre ==
  /\ TypeCode("publish") = 3 /\ TypeCode("connect") = 1
  /\ TypeCode("subscribe") = 8 /\ TypeCode("unsubscribe") = 10
  /\ TypeCode("puback") = 4 /\ TypeCode("pubrec") = 5 /\ TypeCode("pubrel") = 6
  /\ TypeCode("pubcomp") = 7 /\ TypeCode("pingreq") = 12 /\ TypeCode("pingresp") = 13
  /\ TypeCode("disconnect") = 14
  BY DEF TypeCode, M!Type

\* A message that is no publication
LEMMA PlainReadsBack ==
  ASSUME NEW m, NEW r, NEW qos \in 0 .. 2, r.op # "publish", TypeCode(r.op) \in 0 .. 15,
         r.body \in Seq(Int), m = M!Fini(r.body, TypeCode(r.op), qos, 0),
         r.op \in {"subscribe", "puback", "pubrec", "pubrel", "pubcomp"} /\ Len(r.body) < 128 =>
           r.id \in Nat /\ BeginsWith(r.body, r.id)
  PROVE  ReadsBack(m, r)
<1> SUFFICES ASSUME m # << >>
             PROVE  ReadsBack(m, r)
  BY DEF ReadsBack
<1>1. Finished(m, r.body, TypeCode(r.op), qos, 0)
  BY DEF Finished
<1>2. SaysOf(m, M!Type[r.op])
  BY <1>1, FinishedReads DEF TypeCode
<1>3. ASSUME r.op \in {"subscribe", "puback", "pubrec", "pubrel", "pubcomp"}, Len(r.body) < 128
      PROVE  M!mqtt_get_id(m, Len(m)) = r.id
  <2>1. r.id \in Nat /\ BeginsWith(r.body, r.id)
    BY <1>3
  <2>2. TypeCode(r.op) \in {4, 5, 6, 7, 8}
    BY <1>3, TypesAre
  <2> QED
    BY <1>1, <2>1, <2>2, IdIsRead
<1> QED
  BY <1>2, <1>3 DEF ReadsBack

LEMMA PublishReadsBack ==
  ASSUME message_id \in Nat, M!mqtt_msg_publish
  PROVE  message_id' \in Nat /\ MessageReadsBack'
<1>1. PICK p \in Publishes :
        LET id == IF p.qos > 0 THEN M!NextId ELSE 0
            body == M!String(p.topic) \o (IF p.qos > 0 THEN M!TwoBytes(id) ELSE << >>) \o p.data
        IN /\ message_id' = IF p.qos > 0 /\ p.topic # << >> /\ M!Fits(M!String(p.topic))
                            THEN id ELSE message_id
           /\ message' = IF p.topic = << >> THEN << >>
                         ELSE M!Fini(body, M!Type.publish, p.qos, p.retain)
           /\ request' = [op |-> "publish", body |-> body, what |-> p, id |-> id]
  BY DEF M!mqtt_msg_publish
<1> DEFINE t == p.topic
           q == p.qos
           d == p.data
           id == IF q > 0 THEN M!NextId ELSE 0
           body == PublicationBody(t, q, id, d)
           h == M!Header(3, 0, q, p.retain)
<1>2. t \in Seq(Nat) /\ d \in Seq(Nat) /\ q \in 0 .. 2 /\ p.retain \in 0 .. 1
  BY <1>1, MessageAssumption, TwoBytesWide
<1>3. id \in Nat /\ (q = 0 => id = 0) /\ id = IF q > 0 THEN id ELSE 0
  BY <1>2, NextIdIs
<1>4. /\ message_id' \in {id, message_id}
      /\ message' = IF t = << >> THEN << >> ELSE M!Fini(body, 3, q, p.retain)
      /\ request' = [op |-> "publish", body |-> body, what |-> p, id |-> id]
  BY <1>1 DEF PublicationBody, M!Type
<1> HIDE DEF t, q, d, id, body, h
<1>5. ASSUME message' # << >>
      PROVE  ReadsBack(message', request')
  <2> DEFINE m == message'
  <2>1. t # << >> /\ m = M!Fini(body, 3, q, p.retain) /\ m # << >>
    BY <1>4, <1>5
  <2>2. body \in Seq(Int) /\ Len(body) = BodySize(t, q, d)
    BY <1>2, <1>3, BodyIs DEF body
  <2>3. Finished(m, body, 3, q, p.retain)
    BY <1>2, <2>1, <2>2 DEF Finished
  <2>4. m = Message(h, body) /\ m \in Seq(Int) /\ Len(body) < 16384
    BY <2>3, FinishedIs DEF h
  <2>5. h \in Int /\ QosBits(h) = q
    <3>1. 3 \in 0 .. 15
      OBVIOUS
    <3>2. M!Header(3, 0, q, p.retain) \in Int /\ QosBits(M!Header(3, 0, q, p.retain)) = q
      BY <1>2, <3>1, HeaderIs
    <3> QED
      BY <3>2 DEF h
  <2>6. FramedAs(m, h, t, q, id, d)
    BY <1>2, <1>3, <2>1, <2>2, <2>4, <2>5 DEF FramedAs, body
  <2> HIDE DEF m
  <2>7. Len(m) \in Nat
    BY <2>4
  <2>8. Starts(m, m)
    BY <2>7 DEF Starts
  <2>9. FrameRead(m, m, h, t, q, id, d)
    BY <2>4, <2>6, <2>8, PublicationFrameIsRead
  <2>10. SaysOf(m, 3)
    BY <2>3, FinishedReads
  <2>11. /\ M!mqtt_get_publish_topic(m, Len(m)) = t
         /\ d # << >> \/ q = 0 => M!mqtt_get_publish_data(m, Len(m)) = d
         /\ M!GetQos(m) = q
         /\ d # << >> => M!PublishId(m, Len(m)) = id
    BY <1>3, <2>9 DEF FrameRead
  <2>12. M!mqtt_get_id(m, Len(m)) = M!PublishId(m, Len(m))
    BY <2>10 DEF SaysOf, M!mqtt_get_id, M!Type
  <2>13. SaysOf(m, M!Type["publish"])
    BY <2>10, TypesAre DEF TypeCode
  <2>14. /\ request'.op = "publish" /\ request'.what.topic = t /\ request'.what.data = d
         /\ request'.what.qos = q /\ request'.id = id
    BY <1>4 DEF t, d, q
  <2>15. ReadsBack(m, request')
    BY <2>11, <2>12, <2>13, <2>14 DEF ReadsBack
  <2> QED
    BY <2>15 DEF m
<1>6. ReadsBack(message', request')
  BY <1>5 DEF ReadsBack
<1>7. message_id' \in Nat
  BY <1>3, <1>4
<1> QED
  BY <1>6, <1>7, ReadsBackIs

LEMMA SubscribeReadsBack ==
  ASSUME message_id \in Nat, M!mqtt_msg_subscribe
  PROVE  message_id' \in Nat /\ MessageReadsBack'
<1> DEFINE id == M!NextId
<1>1. PICK op \in {"subscribe", "unsubscribe"}, topic \in Topics, qos \in 0 .. 2 :
        LET body == M!TwoBytes(M!NextId) \o M!String(topic)
                    \o (IF op = "subscribe" THEN <<qos>> ELSE << >>)
        IN /\ message_id' = IF topic = << >> THEN message_id ELSE M!NextId
           /\ message' = IF topic = << >> THEN << >> ELSE M!Fini(body, M!Type[op], 1, 0)
           /\ request' = [op |-> op, body |-> body, what |-> [topic |-> topic], id |-> M!NextId]
  BY DEF M!mqtt_msg_subscribe
<1> DEFINE u == M!TwoBytes(id)
           v == M!String(topic)
           w == IF op = "subscribe" THEN <<qos>> ELSE << >>
           body == u \o v \o w
<1>2. id \in Nat
  BY NextIdIs
<1>3. /\ message_id' \in {id, message_id}
      /\ message' = << >> \/ message' = M!Fini(body, TypeCode(op), 1, 0)
      /\ request' = [op |-> op, body |-> body, what |-> [topic |-> topic], id |-> id]
  BY <1>1 DEF TypeCode
<1> HIDE DEF id
<1>4. u \in Seq(Int) /\ Len(u) = 2 /\ u[1] = id \div 256 /\ u[2] = id % 256
  BY <1>2, IdOfBody
<1>5. v \in Seq(Int) /\ w \in Seq(Int)
  <2>1. topic \in Seq(Nat)
    BY MessageAssumption, TwoBytesWide
  <2> QED
    BY <2>1, StringIs
<1> HIDE DEF u, v, w
<1>6. /\ body \in Seq(Int) /\ body[1] = u[1] /\ body[2] = u[2]
      /\ Len(body) >= 2
  <2>1. /\ body \in Seq(Int) /\ Len(body) = Len(u) + Len(v) + Len(w)
        /\ \A j \in 1 .. Len(u) : body[j] = u[j]
    BY <1>4, <1>5, Joined
  <2>2. Len(v) \in Nat /\ Len(w) \in Nat
    BY <1>5
  <2> HIDE DEF body
  <2> QED
    BY <1>4, <2>1, <2>2
<1> HIDE DEF body
<1>7. Len(body) < 128 => BeginsWith(body, id)
  <2>1. body[1] = id \div 256 /\ body[2] = id % 256
    <3>1. \A a, c : body[1] = a /\ a = c => body[1] = c
      OBVIOUS
    <3>2. \A a, c : body[2] = a /\ a = c => body[2] = c
      OBVIOUS
    <3> QED
      BY <1>4, <1>6, <3>1, <3>2, Zenon
  <2> QED
    BY <1>6, <2>1 DEF BeginsWith
<1>8. ReadsBack(message', request')
  <2>1. CASE message' = << >>
    BY <2>1 DEF ReadsBack
  <2>2. CASE message' = M!Fini(body, TypeCode(op), 1, 0)
    <3> DEFINE m == message'
               r == request'
    <3>1. r.op = op /\ r.body = body /\ r.id = id
      BY <1>3
    <3>2. TypeCode(op) \in 0 .. 15 /\ op # "publish" /\ 1 \in 0 .. 2
      BY TypesAre
    <3>3. m = M!Fini(r.body, TypeCode(r.op), 1, 0)
      BY <2>2, <3>1
    <3> HIDE DEF m, r
    <3>4. ReadsBack(m, r)
      BY <1>2, <1>6, <1>7, <3>1, <3>2, <3>3, PlainReadsBack
    <3> QED
      BY <3>4 DEF m, r
  <2> QED
    BY <1>3, <2>1, <2>2
<1> QED
  BY <1>2, <1>3, <1>8, ReadsBackIs

LEMMA AcknowledgementReadsBack ==
  ASSUME message_id \in Nat, M!mqtt_msg_puback
  PROVE  message_id' \in Nat /\ MessageReadsBack'
<1>1. PICK op \in {"puback", "pubrec", "pubrel", "pubcomp"}, own \in Acknowledged :
        /\ message' = M!Acknowledgement(op, own)
        /\ message_id' = IF own = 0 THEN M!NextId ELSE message_id
        /\ request' = LET i == IF own = 0 THEN M!NextId ELSE own
                      IN [op |-> op, body |-> M!TwoBytes(i), what |-> [topic |-> << >>], id |-> i]
  BY DEF M!mqtt_msg_puback
<1> DEFINE id == IF own = 0 THEN M!NextId ELSE own
           body == M!TwoBytes(id)
           qos == IF op = "pubrel" THEN 1 ELSE 0
           m == message'
           r == request'
<1>2. id \in Nat /\ message_id' \in Nat
  BY <1>1, NextIdIs, MessageAssumption, TwoBytesWide
<1>3. m = M!Fini(body, TypeCode(op), qos, 0)
  BY <1>1 DEF M!Acknowledgement, TypeCode
<1>4. r.op = op /\ r.body = body /\ r.id = id
  BY <1>1
<1> HIDE DEF id
<1>5. body \in Seq(Int) /\ Len(body) = 2 /\ body[1] = id \div 256 /\ body[2] = id % 256
  BY <1>2, IdOfBody
<1>6. TypeCode(op) \in 0 .. 15 /\ op # "publish" /\ qos \in 0 .. 2
  BY TypesAre
<1> HIDE DEF body, qos, m, r
<1>7. BeginsWith(body, id)
  BY <1>5 DEF BeginsWith
<1>8. m = M!Fini(r.body, TypeCode(r.op), qos, 0)
  BY <1>3, <1>4
<1>9. ReadsBack(m, r)
  BY <1>2, <1>4, <1>5, <1>6, <1>7, <1>8, PlainReadsBack
<1> QED
  BY <1>2, <1>9, ReadsBackIs DEF m, r

LEMMA PingReadsBack ==
  ASSUME message_id \in Nat, M!mqtt_msg_pingreq
  PROVE  message_id' \in Nat /\ MessageReadsBack'
<1>1. PICK op \in {"pingreq", "pingresp", "disconnect"} :
        /\ message' = M!Fini(<< >>, M!Type[op], 0, 0)
        /\ request' = [op |-> op, body |-> << >>, what |-> [topic |-> << >>], id |-> 0]
        /\ message_id' = message_id
  BY DEF M!mqtt_msg_pingreq
<1> DEFINE m == message'
           r == request'
<1>2. r.op = op /\ r.body = << >> /\ m = M!Fini(r.body, TypeCode(r.op), 0, 0)
  BY <1>1 DEF TypeCode
<1>3. TypeCode(r.op) \in 0 .. 15 /\ r.op # "publish" /\ r.body \in Seq(Int) /\ 0 \in 0 .. 2
      /\ r.op \notin {"subscribe", "puback", "pubrec", "pubrel", "pubcomp"}
  BY <1>2, TypesAre
<1>4. message_id' \in Nat
  BY <1>1
<1> HIDE DEF m, r
<1>5. ReadsBack(m, r)
  BY <1>2, <1>3, PlainReadsBack
<1> QED
  BY <1>4, <1>5, ReadsBackIs DEF m, r

LEMMA ConnectBodyIs ==
  ASSUME NEW info \in Infos
  PROVE  M!ConnectBody(info) \in Seq(Int)
<1>0. /\ info.client_id \in Seq(Nat) /\ info.username \in Seq(Nat) /\ info.password \in Seq(Nat)
      /\ info.will_topic \in Seq(Nat) /\ info.will_message \in Seq(Nat) /\ info.keepalive \in Nat
      /\ info.will_qos \in 0 .. 2 /\ info.will_retain \in 0 .. 1 /\ info.clean_session \in 0 .. 1
  <2>1. info \in [client_id : Seq(Nat), username : Seq(Nat), password : Seq(Nat),
                  will_topic : Seq(Nat), will_message : Seq(Nat),
                  keepalive : uint16_t, will_qos : 0 .. 2, will_retain : 0 .. 1,
                  clean_session : 0 .. 1]
    BY MessageAssumption
  <2>2. info.keepalive \in uint16_t
    BY <2>1
  <2> QED
    BY <2>1, <2>2, TwoBytesWide
<1>1. <<77, 81, 73, 115, 100, 112>> \in Seq(Nat)
  OBVIOUS
<1> DEFINE name == M!String(<<77, 81, 73, 115, 100, 112>>)
           flags == <<3, M!ConnectFlags(info)>>
           keep == M!TwoBytes(info.keepalive)
           client == M!String(info.client_id)
           will == IF info.will_topic = << >> THEN << >>
                   ELSE M!String(info.will_topic) \o M!String(info.will_message)
           user == M!IfAny(info.username)
           pass == M!IfAny(info.password)
<1>2. name \in Seq(Int)
  BY <1>1, StringIs
<1>3. flags \in Seq(Int)
  <2>1. M!ConnectFlags(info) \in Int
    <3> DEFINE a == IF info.username # << >> THEN 128 ELSE 0
               b == IF info.password # << >> THEN 64 ELSE 0
               c == IF info.will_topic # << >>
                    THEN 4 + 32 * info.will_retain + 8 * info.will_qos ELSE 0
               e == 2 * info.clean_session
    <3>1. a \in Int /\ b \in Int
      OBVIOUS
    <3>2. c \in Int /\ e \in Int
      BY <1>0
    <3>3. M!ConnectFlags(info) = a + b + c + e
      BY DEF M!ConnectFlags
    <3> HIDE DEF a, b, c, e
    <3> QED
      BY <3>1, <3>2, <3>3
  <2> QED
    BY <2>1
<1>4. keep \in Seq(Int)
  BY <1>0, IdOfBody
<1>5. client \in Seq(Int)
  BY <1>0, StringIs
<1>6. will \in Seq(Int)
  <2>1. M!String(info.will_topic) \in Seq(Int) /\ M!String(info.will_message) \in Seq(Int)
    BY <1>0, StringIs
  <2> QED
    BY <2>1
<1>7. user \in Seq(Int)
  <2>1. M!String(info.username) \in Seq(Int)
    BY <1>0, StringIs
  <2> QED
    BY <2>1 DEF M!IfAny
<1>8. pass \in Seq(Int)
  <2>1. M!String(info.password) \in Seq(Int)
    BY <1>0, StringIs
  <2> QED
    BY <2>1 DEF M!IfAny
<1>9. M!ConnectBody(info) = name \o flags \o keep \o client \o will \o user \o pass
  BY DEF M!ConnectBody
<1> HIDE DEF name, flags, keep, client, will, user, pass
<1> QED
  BY <1>2, <1>3, <1>4, <1>5, <1>6, <1>7, <1>8, <1>9

LEMMA ConnectReadsBack ==
  ASSUME M!mqtt_msg_connect
  PROVE  message_id' \in Nat /\ MessageReadsBack'
<1>1. PICK info \in Infos :
        /\ message' = IF info.client_id = << >> THEN << >>
                      ELSE M!Fini(M!ConnectBody(info), M!Type.connect, 0, 0)
        /\ request' = [op |-> "connect", body |-> M!ConnectBody(info),
                       what |-> [topic |-> info.client_id], id |-> 0]
        /\ message_id' = 0
  BY DEF M!mqtt_msg_connect
<1> DEFINE m == message'
           r == request'
           body == M!ConnectBody(info)
<1>2. r.op = "connect" /\ r.body = body
      /\ (m = << >> \/ m = M!Fini(body, TypeCode("connect"), 0, 0))
  BY <1>1 DEF TypeCode
<1>3. body \in Seq(Int)
  BY ConnectBodyIs
<1>4. message_id' \in Nat
  BY <1>1
<1> HIDE DEF m, r, body
<1>5. TypeCode(r.op) \in 0 .. 15 /\ r.op # "publish" /\ r.body \in Seq(Int) /\ 0 \in 0 .. 2
      /\ r.op \notin {"subscribe", "puback", "pubrec", "pubrel", "pubcomp"}
  BY <1>2, <1>3, TypesAre
<1>6. ReadsBack(m, r)
  <2>1. CASE m = << >>
    BY <2>1 DEF ReadsBack
  <2>2. CASE m = M!Fini(r.body, TypeCode(r.op), 0, 0)
    BY <1>5, <2>2, PlainReadsBack
  <2> QED
    BY <1>2, <2>1, <2>2
<1> QED
  BY <1>4, <1>6, ReadsBackIs DEF m, r


LEMMA MessagesStep ==
  ASSUME message_id \in Nat, MessageReadsBack, [M!Next]_msgVars
  PROVE  message_id' \in Nat /\ MessageReadsBack'
<1>1. CASE M!mqtt_msg_publish
  BY <1>1, PublishReadsBack
<1>2. CASE M!mqtt_msg_subscribe
  BY <1>2, SubscribeReadsBack
<1>3. CASE M!mqtt_msg_puback
  BY <1>3, AcknowledgementReadsBack
<1>4. CASE M!mqtt_msg_pingreq
  BY <1>4, PingReadsBack
<1>5. CASE M!mqtt_msg_connect
  BY <1>5, ConnectReadsBack
<1>6. CASE M!Receive
  <2>1. message' = << >> /\ message_id' = message_id
    BY <1>6 DEF M!Receive
  <2> QED
    BY <2>1, ReadsBackIs DEF ReadsBack
<1>7. CASE M!ReadPacket
  <2>1. request' = M!NoRequest /\ (message_id' = message_id \/ message_id' = M!NextId)
    BY <1>7 DEF M!ReadPacket
  <2> QED
    BY <2>1, NextIdIs, ReadsBackIs DEF ReadsBack
<1>8. CASE UNCHANGED msgVars
  <2>1. message' = message /\ request' = request /\ message_id' = message_id
    BY <1>8 DEF msgVars
  <2>2. ReadsBack(message, request)
    BY DEF ReadsBack, SaysOf, MessageReadsBack, M!MessageReadsBack
  <2> QED
    BY <2>1, <2>2, ReadsBackIs
<1> QED
  BY <1>1, <1>2, <1>3, <1>4, <1>5, <1>6, <1>7, <1>8 DEF M!Next

\* For every buffer of up to 16384 bytes and every topic, payload and quality of
\* service: what mqtt_msg_publish and its kin build, fini_message's length field
\* included, is read back by mqtt_get_total_length and the other readers as what it
\* was to say.
THEOREM MessagesReadBack == MessagesSpec => []MessageReadsBack
<1>1. M!Init => message_id \in Nat /\ MessageReadsBack
  BY DEF M!Init, MessageReadsBack, M!MessageReadsBack
<1>2. (message_id \in Nat /\ MessageReadsBack) /\ [M!Next]_msgVars
        => (message_id \in Nat /\ MessageReadsBack)'
  BY MessagesStep
<1> QED
  BY <1>1, <1>2, PTL DEF MessagesSpec
-----------------------------------------------------------------------------
(* A segment is the publications of the broker that are not delivered yet,  *)
(* one frame behind the other; e says where each ends.                      *)

CutAt(e, s, first, ps) ==
  /\ e \in [first .. Len(ps) -> Nat] /\ e[first] = 0 /\ e[Len(ps)] = Len(s)
  /\ \A i, k \in first .. Len(ps) : i < k => e[i] < e[k]
  /\ \A k \in first + 1 .. Len(ps) :
       e[k] = e[k - 1] + Len(M!Framed(ps[k])) /\ Holds(s, e[k - 1], M!Framed(ps[k]))

\* What was handed to mqttDataCb is what was sent.
Delivers(ds, ps) ==
  \A k \in 1 .. Len(ds) :
    /\ ds[k].topic = ps[k].topic
    /\ ps[k].data # << >> \/ ps[k].qos = 0 \/ k < Len(ps) => ds[k].data = ps[k].data

\* The j-th reply is to the asks[j]-th publication; each that asks has one.
Answers(asks, rs, n, ps) ==
  /\ asks \in [1 .. Len(rs) -> 1 .. n]
  /\ {asks[j] : j \in 1 .. Len(rs)} = {k \in 1 .. n : ps[k].qos > 0}
  /\ \A i, j \in 1 .. Len(rs) : i < j => asks[i] < asks[j]
  /\ \A j \in 1 .. Len(rs) : rs[j] = ps[asks[j]].id

IsSequence(s) == \E S : s \in Seq(S)

SegmentInv ==
  /\ segment \in Seq(Int) /\ (segment = << >> \/ Len(segment) < BufferLength)
  /\ incoming \in Seq(Incoming) /\ IsSequence(delivered) /\ IsSequence(replies)
  /\ Len(delivered) <= Len(incoming)
  /\ \E e : CutAt(e, segment, Len(delivered), incoming)
  /\ Delivers(delivered, incoming)
  /\ \E asks : Answers(asks, replies, Len(delivered), incoming)

LEMMA AppendedIs ==
  ASSUME NEW s, IsSequence(s), NEW x
  PROVE  /\ IsSequence(Append(s, x)) /\ Len(s) \in Nat /\ Len(Append(s, x)) = Len(s) + 1
         /\ \A j \in 1 .. Len(s) : Append(s, x)[j] = s[j]
         /\ Append(s, x)[Len(s) + 1] = x
<1>1. PICK S : s \in Seq(S)
  BY DEF IsSequence
<1>2. s \in Seq(S \cup {x})
  <2>1. s \in [1 .. Len(s) -> S] /\ Len(s) \in Nat
    BY <1>1
  <2>2. s \in [1 .. Len(s) -> S \cup {x}]
    BY <2>1
  <2> QED
    BY <2>1, <2>2
<1>3. Append(s, x) \in Seq(S \cup {x}) /\ Len(s) \in Nat /\ Len(Append(s, x)) = Len(s) + 1
  BY <1>2
<1>4. \A j \in 1 .. Len(s) : Append(s, x)[j] = s[j]
  BY <1>2
<1>5. Append(s, x)[Len(s) + 1] = x
  BY <1>2
<1> QED
  BY <1>3, <1>4, <1>5 DEF IsSequence

LEMMA EmptyIsSequence == IsSequence(<< >>) /\ Len(<< >>) = 0
<1>1. << >> \in Seq({})
  OBVIOUS
<1> QED
  BY <1>1 DEF IsSequence

\* Nothing received, nothing delivered
LEMMA NothingIs ==
  /\ CutAt([k \in 0 .. 0 |-> 0], << >>, 0, << >>)
  /\ Delivers(<< >>, << >>)
  /\ \A ps : Answers(<< >>, << >>, 0, ps) /\ Delivers(<< >>, ps)
<1>1. CutAt([k \in 0 .. 0 |-> 0], << >>, 0, << >>)
  BY DEF CutAt
<1>2. \A ps : Delivers(<< >>, ps)
  BY DEF Delivers
<1>3. ASSUME NEW ps PROVE Answers(<< >>, << >>, 0, ps)
  <2>1. << >> \in [1 .. 0 -> 1 .. 0]
    OBVIOUS
  <2> QED
    BY <2>1 DEF Answers
<1> QED
  BY <1>1, <1>2, <1>3

LEMMA FramedIs ==
  ASSUME NEW p \in Incoming
  PROVE  /\ M!Framed(p) \in Seq(Int) /\ Len(M!Framed(p)) \in Nat /\ Len(M!Framed(p)) > 0
         /\ Len(M!Framed(p)) < 16384 =>
              FramedAs(M!Framed(p), M!Header(3, 0, p.qos, 0), p.topic, p.qos, p.id, p.data)
<1> DEFINE t == p.topic
           q == p.qos
           id == p.id
           d == p.data
           h == M!Header(3, 0, q, 0)
           body == PublicationBody(t, q, id, d)
           f == Message(h, body)
<1>1. t \in Seq(Nat) \ {<< >>} /\ d \in Seq(Nat) /\ q \in 0 .. 2 /\ id \in Nat
  <2>1. p \in [topic : Seq(Nat) \ {<< >>}, data : Seq(Nat), qos : 0 .. 2, id : uint16_t]
    BY MessageAssumption
  <2>2. id \in uint16_t
    BY <2>1
  <2> QED
    BY <2>1, <2>2, TwoBytesWide
<1>2. M!Framed(p) = f
  BY DEF M!Framed, Message, PublicationBody, M!Type
<1> HIDE DEF t, q, id, d, h, body, f
<1>3. body \in Seq(Int) /\ Len(body) = BodySize(t, q, d)
  BY <1>1, BodyIs DEF body
<1>4. h \in Int /\ QosBits(h) = q
  <2>1. 3 \in 0 .. 15 /\ 0 \in 0 .. 1
    OBVIOUS
  <2>2. M!Header(3, 0, q, 0) \in Int /\ QosBits(M!Header(3, 0, q, 0)) = q
    BY <1>1, <2>1, HeaderIs
  <2> QED
    BY <2>2 DEF h
<1>5. f \in Seq(Int) /\ Len(f) = 1 + SizeOfLength(Len(body)) + Len(body) /\ Len(body) \in Nat
  BY <1>3, <1>4, FrameIs DEF f
<1>6. Len(f) \in Nat /\ Len(f) > 0 /\ (Len(f) < 16384 => BodySize(t, q, d) < 16384)
  BY <1>3, <1>5 DEF SizeOfLength
<1>7. Len(f) < 16384 => FramedAs(f, h, t, q, id, d)
  BY <1>1, <1>4, <1>6 DEF FramedAs, f, body
<1> QED
  BY <1>2, <1>5, <1>6, <1>7 DEF t, q, id, d, h

LEMMA NothingKeeps ==
  ASSUME segment' = << >>, incoming' = << >>, delivered' = << >>, replies' = << >>
  PROVE  SegmentInv'
<1>1. CutAt([k \in 0 .. 0 |-> 0], segment', Len(delivered'), incoming')
  BY NothingIs, EmptyIsSequence
<1>2. Delivers(delivered', incoming') /\ Answers(<< >>, replies', Len(delivered'), incoming')
  BY NothingIs, EmptyIsSequence
<1>3. segment' \in Seq(Int) /\ incoming' \in Seq(Incoming) /\ Len(delivered') <= Len(incoming')
  OBVIOUS
<1> QED
  BY <1>1, <1>2, <1>3, EmptyIsSequence DEF SegmentInv

\* A publication more at the end of a segment none of which is delivered
LEMMA CutGrows ==
  ASSUME NEW s \in Seq(Int), NEW ps \in Seq(Incoming), NEW p \in Incoming, NEW e,
         CutAt(e, s, 0, ps)
  PROVE  \E c : CutAt(c, s \o M!Framed(p), 0, Append(ps, p))
<1> DEFINE f == M!Framed(p)
           x == s \o f
           qs == Append(ps, p)
           n == Len(ps)
           c == [k \in 0 .. n + 1 |-> IF k = n + 1 THEN Len(s) + Len(f) ELSE e[k]]
<1>1. f \in Seq(Int) /\ Len(f) \in Nat /\ Len(f) > 0
  BY FramedIs
<1>2. n \in Nat /\ Len(qs) = n + 1 /\ qs[n + 1] = p /\ \A k \in 1 .. n : qs[k] = ps[k]
  OBVIOUS
<1>3. /\ e \in [0 .. n -> Nat] /\ e[0] = 0 /\ e[n] = Len(s)
      /\ \A i, k \in 0 .. n : i < k => e[i] < e[k]
      /\ \A k \in 1 .. n : e[k] = e[k - 1] + Len(M!Framed(ps[k]))
                           /\ Holds(s, e[k - 1], M!Framed(ps[k]))
  BY DEF CutAt
<1> HIDE DEF f
<1>4. /\ x \in Seq(Int) /\ Len(x) = Len(s) + Len(f) /\ Len(s) \in Nat
      /\ \A j \in 1 .. Len(s) : x[j] = s[j]
      /\ \A j \in 1 .. Len(f) : x[Len(s) + j] = f[j]
  BY <1>1, TwoJoined
<1> HIDE DEF x, qs, n
<1>5. c \in [0 .. n + 1 -> Nat] /\ c[n + 1] = Len(s) + Len(f) /\ \A k \in 0 .. n : c[k] = e[k]
  BY <1>1, <1>2, <1>3, <1>4
<1> HIDE DEF c
<1>6. c[0] = 0 /\ c[n + 1] = Len(x)
  BY <1>2, <1>3, <1>4, <1>5
<1>7. \A k \in 0 .. n : e[k] \in Nat /\ e[k] <= Len(s)
  <2> SUFFICES ASSUME NEW k \in 0 .. n
               PROVE  e[k] \in Nat /\ e[k] <= Len(s)
    OBVIOUS
  <2>1. k = n \/ e[k] < e[n]
    BY <1>2, <1>3
  <2>2. e[k] \in Nat /\ e[n] = Len(s) /\ Len(s) \in Nat
    BY <1>3, <1>4
  <2> QED
    BY <2>1, <2>2
<1>11. ASSUME NEW i \in 0 .. n + 1, NEW k \in 0 .. n + 1, i < k
       PROVE  c[i] < c[k]
  <2>1. i \in 0 .. n /\ c[i] = e[i]
    BY <1>2, <1>5, <1>11
  <2>2. CASE k = n + 1
    BY <1>1, <1>4, <1>5, <1>7, <2>1, <2>2
  <2>3. CASE k \in 0 .. n
    BY <1>3, <1>5, <1>11, <2>1, <2>3
  <2> QED
    BY <1>2, <2>2, <2>3
<1>8. ASSUME NEW k \in 1 .. n + 1
      PROVE  c[k] = c[k - 1] + Len(M!Framed(qs[k])) /\ Holds(x, c[k - 1], M!Framed(qs[k]))
  <2>1. CASE k = n + 1
    <3>1. qs[k] = p /\ c[k] = Len(s) + Len(f) /\ c[k - 1] = Len(s)
      <4>1. k - 1 = n /\ n \in 0 .. n
        BY <1>2, <2>1
      <4> QED
        BY <1>2, <1>3, <1>5, <2>1, <4>1
    <3>2. Holds(x, Len(s), f)
      BY <1>4 DEF Holds
    <3> QED
      BY <3>1, <3>2 DEF f
  <2>2. CASE k \in 1 .. n
    <3> DEFINE g == M!Framed(ps[k])
    <3>1. k \in 0 .. n /\ k - 1 \in 0 .. n
      BY <1>2, <2>2
    <3>2. qs[k] = ps[k] /\ c[k] = e[k] /\ c[k - 1] = e[k - 1]
      BY <1>2, <1>5, <2>2, <3>1
    <3>3. e[k] = e[k - 1] + Len(g) /\ Holds(s, e[k - 1], g)
      BY <1>3, <2>2
    <3>4. e[k] <= Len(s) /\ e[k] \in Nat /\ e[k - 1] \in Nat
      BY <1>7, <3>1
    <3>0. Len(g) \in Nat
      <4>1. ps[k] \in Incoming
        BY <2>2 DEF n
      <4> QED
        BY <4>1, FramedIs
    <3> HIDE DEF g
    <3>5. Holds(x, e[k - 1], g)
      <4> SUFFICES ASSUME NEW j \in 1 .. Len(g)
                   PROVE  x[e[k - 1] + j] = g[j]
        BY DEF Holds
      <4>1. e[k - 1] + j \in 1 .. Len(s)
        <5> DEFINE a == e[k - 1]
                   z == Len(g)
        <5>1. a + z <= Len(s) /\ a \in Nat /\ z \in Nat /\ Len(s) \in Nat /\ j \in 1 .. z
          BY <1>4, <3>0, <3>3, <3>4
        <5> HIDE DEF a, z
        <5>2. a + j \in 1 .. Len(s)
          BY <5>1
        <5> QED
          BY <5>2 DEF a
      <4>2. s[e[k - 1] + j] = g[j]
        BY <3>3 DEF Holds
      <4> QED
        BY <1>4, <4>1, <4>2
    <3>6. M!Framed(qs[k]) = g
      BY <3>2 DEF g
    <3> QED
      BY <3>2, <3>3, <3>5, <3>6
  <2> QED
    BY <1>2, <2>1, <2>2
<1>9. Len(qs) = n + 1
  BY <1>2
<1>10. CutAt(c, x, 0, qs)
  BY <1>5, <1>6, <1>8, <1>9, <1>11 DEF CutAt
<1> QED
  BY <1>10 DEF x, qs, f

LEMMA ReceiveKeeps ==
  ASSUME SegmentInv, M!Receive
  PROVE  SegmentInv'
<1>1. PICK p \in Incoming :
        /\ segment' = segment \o M!Framed(p)
        /\ Len(segment') < BufferLength
        /\ IF segment = << >> THEN incoming' = <<p>>
           ELSE delivered = << >> /\ incoming' = Append(incoming, p)
        /\ delivered' = << >> /\ replies' = << >>
  BY DEF M!Receive
<1>2. PICK ps \in Seq(Incoming) :
        (\E e : CutAt(e, segment, 0, ps)) /\ incoming' = Append(ps, p)
  <2>1. CASE segment = << >>
    <3>1. CutAt([k \in 0 .. 0 |-> 0], segment, 0, << >>)
      BY <2>1, NothingIs
    <3>2. << >> \in Seq(Incoming) /\ incoming' = Append(<< >>, p)
      BY <1>1, <2>1
    <3> QED
      BY <3>1, <3>2
  <2>2. CASE segment # << >>
    <3>1. Len(delivered) = 0
      BY <1>1, <2>2, EmptyIsSequence
    <3> QED
      BY <1>1, <2>2, <3>1 DEF SegmentInv
  <2> QED
    BY <2>1, <2>2
<1>3. segment \in Seq(Int) /\ M!Framed(p) \in Seq(Int)
  BY FramedIs DEF SegmentInv
<1>4. \E c : CutAt(c, segment', 0, incoming')
  BY <1>1, <1>2, <1>3, CutGrows
<1>5. segment' \in Seq(Int) /\ incoming' \in Seq(Incoming)
  BY <1>1, <1>2, <1>3
<1>6. Len(delivered') = 0 /\ IsSequence(delivered') /\ IsSequence(replies') /\ Len(incoming') \in Nat
  BY <1>1, <1>5, EmptyIsSequence
<1>7. Delivers(delivered', incoming') /\ Answers(<< >>, replies', Len(delivered'), incoming')
  BY <1>1, <1>6, NothingIs
<1>8. /\ Len(delivered') <= Len(incoming')
      /\ \E c : CutAt(c, segment', Len(delivered'), incoming')
      /\ \E asks : Answers(asks, replies', Len(delivered'), incoming')
  BY <1>4, <1>6, <1>7
<1> QED
  BY <1>1, <1>5, <1>6, <1>7, <1>8 DEF SegmentInv

\* The first frame taken off
LEMMA CutShrinks ==
  ASSUME NEW s \in Seq(Int), NEW ps \in Seq(Incoming), NEW first \in Nat, first < Len(ps), NEW e,
         CutAt(e, s, first, ps)
  PROVE  /\ ps[first + 1] \in Incoming /\ Starts(s, M!Framed(ps[first + 1])) /\ s # << >>
         /\ (first + 1 < Len(ps) <=> Len(M!Framed(ps[first + 1])) < Len(s))
         /\ \E c : CutAt(c, IF Len(M!Framed(ps[first + 1])) < Len(s)
                            THEN SubSeq(s, Len(M!Framed(ps[first + 1])) + 1, Len(s)) ELSE << >>,
                         first + 1, ps)
<1> DEFINE n == Len(ps)
           g == M!Framed(ps[first + 1])
           w == Len(g)
           x == IF w < Len(s) THEN SubSeq(s, w + 1, Len(s)) ELSE << >>
           c == [k \in first + 1 .. n |-> e[k] - w]
<1>1. n \in Nat /\ first + 1 \in 1 .. n /\ first \in Nat /\ ps[first + 1] \in Incoming /\ Len(s) \in Nat
  OBVIOUS
<1>2. g \in Seq(Int) /\ w \in Nat /\ w > 0
  BY <1>1, FramedIs
<1>3. /\ e \in [first .. n -> Nat] /\ e[first] = 0 /\ e[n] = Len(s)
      /\ \A i, k \in first .. n : i < k => e[i] < e[k]
      /\ \A k \in first + 1 .. n : e[k] = e[k - 1] + Len(M!Framed(ps[k]))
                                   /\ Holds(s, e[k - 1], M!Framed(ps[k]))
  BY DEF CutAt
<1>4. e[first + 1] = w /\ Holds(s, 0, g)
  <2>1. first + 1 \in first + 1 .. n /\ (first + 1) - 1 = first
    BY <1>1
  <2>2. e[first + 1] = e[first] + w /\ Holds(s, e[first], g)
    BY <1>3, <2>1
  <2> HIDE DEF g, w
  <2> QED
    BY <1>2, <1>3, <2>2
<1> HIDE DEF w, n, g
<1>5. w <= Len(s) /\ (first + 1 < n <=> w < Len(s))
  <2>1. first + 1 \in first .. n
    BY <1>1
  <2>2. CASE first + 1 < n
    <3>1. n \in first .. n
      BY <1>1
    <3>2. e[first + 1] < e[n]
      BY <1>3, <2>1, <2>2, <3>1
    <3>3. w < Len(s)
      BY <1>3, <1>4, <3>2
    <3> QED
      BY <1>1, <1>2, <2>2, <3>3
  <2>3. CASE first + 1 = n
    BY <1>1, <1>3, <1>4, <2>1, <2>3
  <2> QED
    BY <1>1, <2>2, <2>3
<1>6. Starts(s, g)
  BY <1>1, <1>4, <1>5 DEF Starts, Holds, w
<1>7. s # << >>
  <2>1. Len(s) > 0
    BY <1>1, <1>2, <1>5
  <2> QED
    BY <2>1
<1>8. x \in Seq(Int) /\ Len(x) = Len(s) - w /\ \A j \in 1 .. Len(s) - w : x[j] = s[w + j]
  <2>1. CASE w < Len(s)
    BY <1>1, <1>2, <2>1
  <2>2. CASE w = Len(s)
    BY <1>1, <1>2, <2>2
  <2> QED
    BY <1>1, <1>2, <1>5, <2>1, <2>2
<1> HIDE DEF x
<1>9. \A k \in first + 1 .. n : e[k] \in Nat /\ e[k] >= w
  <2> SUFFICES ASSUME NEW k \in first + 1 .. n
               PROVE  e[k] \in Nat /\ e[k] >= w
    OBVIOUS
  <2>1. k \in first .. n /\ first + 1 \in first .. n
    BY <1>1
  <2>2. e[k] \in Nat /\ (k = first + 1 \/ e[first + 1] < e[k])
    BY <1>1, <1>3, <2>1
  <2> QED
    BY <1>2, <1>4, <2>2
<1>10. c \in [first + 1 .. n -> Nat] /\ \A k \in first + 1 .. n : c[k] = e[k] - w
  <2>1. \A k \in first + 1 .. n : e[k] - w \in Nat
    BY <1>2, <1>9
  <2> QED
    BY <2>1
<1> HIDE DEF c
<1>11. c[first + 1] = 0 /\ c[n] = Len(x)
  <2>1. first + 1 \in first + 1 .. n /\ n \in first + 1 .. n
    BY <1>1
  <2>2. c[first + 1] = e[first + 1] - w /\ c[n] = e[n] - w
    BY <1>10, <2>1
  <2> QED
    BY <1>1, <1>2, <1>3, <1>4, <1>8, <2>2
<1>12. ASSUME NEW i \in first + 1 .. n, NEW k \in first + 1 .. n, i < k
       PROVE  c[i] < c[k]
  <2>1. e[i] < e[k]
    BY <1>1, <1>3, <1>12
  <2> QED
    BY <1>2, <1>9, <1>10, <2>1
<1>13. ASSUME NEW k \in first + 2 .. n
       PROVE  c[k] = c[k - 1] + Len(M!Framed(ps[k])) /\ Holds(x, c[k - 1], M!Framed(ps[k]))
  <2> DEFINE f == M!Framed(ps[k])
             a == e[k - 1]
             z == Len(f)
  <2>1. k \in first + 1 .. n /\ k - 1 \in first + 1 .. n
    BY <1>1
  <2>2. ps[k] \in Incoming
    BY <1>1, <2>1 DEF n
  <2>3. f \in Seq(Int) /\ z \in Nat
    BY <2>2, FramedIs
  <2>4. e[k] = a + z /\ Holds(s, a, f)
    BY <1>3, <2>1
  <2>5. a \in Nat /\ a >= w /\ c[k] = e[k] - w /\ c[k - 1] = a - w
    BY <1>9, <1>10, <2>1
  <2>6. a + z <= Len(s)
    <3>1. k = n \/ e[k] < e[n]
      BY <1>1, <1>3, <2>1
    <3>2. e[k] \in Nat /\ e[n] = Len(s)
      BY <1>3, <1>9, <2>1
    <3> HIDE DEF a, z
    <3> QED
      BY <1>1, <2>4, <3>1, <3>2
  <2> HIDE DEF f, a, z
  <2>7. c[k] = c[k - 1] + z
    BY <1>2, <2>3, <2>4, <2>5
  <2>8. Holds(x, a - w, f)
    <3> SUFFICES ASSUME NEW j \in 1 .. Len(f)
                 PROVE  x[a - w + j] = f[j]
      BY DEF Holds
    <3>0. j \in 1 .. z
      BY DEF z
    <3>1. a - w + j \in 1 .. Len(s) - w
      BY <1>1, <1>2, <2>3, <2>5, <2>6, <3>0
    <3>2. x[a - w + j] = s[w + (a - w + j)] /\ w + (a - w + j) = a + j
      <4>1. x[a - w + j] = s[w + (a - w + j)]
        BY <1>8, <3>1
      <4>2. w + (a - w + j) = a + j
        BY <1>2, <2>3, <2>5, <3>0
      <4> QED
        BY <4>1, <4>2
    <3>3. s[a + j] = f[j]
      BY <2>4 DEF Holds
    <3> QED
      BY <3>2, <3>3
  <2> QED
    BY <2>5, <2>7, <2>8 DEF f, z
<1>14. CutAt(c, x, first + 1, ps)
  <2>1. c \in [first + 1 .. Len(ps) -> Nat] /\ c[first + 1] = 0 /\ c[Len(ps)] = Len(x)
    BY <1>10, <1>11 DEF n
  <2>2. \A i, k \in first + 1 .. Len(ps) : i < k => c[i] < c[k]
    BY <1>12 DEF n
  <2>3. first + 1 + 1 = first + 2
    OBVIOUS
  <2>4. \A k \in first + 1 + 1 .. Len(ps) :
          c[k] = c[k - 1] + Len(M!Framed(ps[k])) /\ Holds(x, c[k - 1], M!Framed(ps[k]))
    BY <1>13, <2>3 DEF n
  <2> QED
    BY <2>1, <2>2, <2>4 DEF CutAt
<1>15. \E y : CutAt(y, x, first + 1, ps)
  BY <1>14
<1> QED
  BY <1>1, <1>5, <1>6, <1>7, <1>15 DEF x, w, g, n

\* A delivery more
LEMMA DeliveryGrows ==
  ASSUME NEW ds, IsSequence(ds), NEW ps, NEW x, Delivers(ds, ps), Len(ds) < Len(ps),
         x.topic = ps[Len(ds) + 1].topic,
         ps[Len(ds) + 1].data # << >> \/ ps[Len(ds) + 1].qos = 0 \/ Len(ds) + 1 < Len(ps)
           => x.data = ps[Len(ds) + 1].data
  PROVE  Delivers(Append(ds, x), ps)
<1> DEFINE n == Len(ds)
           es == Append(ds, x)
<1>1. n \in Nat /\ Len(es) = n + 1 /\ (\A j \in 1 .. n : es[j] = ds[j]) /\ es[n + 1] = x
  BY AppendedIs
<1>2. \A k \in 1 .. n :
        /\ ds[k].topic = ps[k].topic
        /\ ps[k].data # << >> \/ ps[k].qos = 0 \/ k < Len(ps) => ds[k].data = ps[k].data
  BY DEF Delivers
<1>3. x.topic = ps[n + 1].topic
      /\ (ps[n + 1].data # << >> \/ ps[n + 1].qos = 0 \/ n + 1 < Len(ps) => x.data = ps[n + 1].data)
  OBVIOUS
<1> HIDE DEF n, es
<1>4. ASSUME NEW k \in 1 .. n + 1
      PROVE  /\ es[k].topic = ps[k].topic
             /\ ps[k].data # << >> \/ ps[k].qos = 0 \/ k < Len(ps) => es[k].data = ps[k].data
  <2>1. CASE k = n + 1
    BY <1>1, <1>3, <2>1
  <2>2. CASE k \in 1 .. n
    BY <1>1, <1>2, <2>2
  <2> QED
    BY <1>1, <2>1, <2>2
<1> QED
  BY <1>1, <1>4 DEF Delivers, es

\* A publication more that asks for no reply, and one that gets it
LEMMA AnswersStay ==
  ASSUME NEW asks, NEW rs, NEW n \in Nat, NEW ps, IsSequence(rs), Answers(asks, rs, n, ps),
         ~(ps[n + 1].qos > 0)
  PROVE  Answers(asks, rs, n + 1, ps)
<1>1. {k \in 1 .. n + 1 : ps[k].qos > 0} = {k \in 1 .. n : ps[k].qos > 0}
  <2>1. \A k : k \in 1 .. n + 1 <=> k \in 1 .. n \/ k = n + 1
    OBVIOUS
  <2> QED
    BY <2>1, Zenon
<1>2. asks \in [1 .. Len(rs) -> 1 .. n + 1]
  BY DEF Answers
<1> QED
  BY <1>1, <1>2 DEF Answers

LEMMA AnswersGrow ==
  ASSUME NEW asks, NEW rs, NEW n \in Nat, NEW ps, IsSequence(rs), Answers(asks, rs, n, ps),
         ps[n + 1].qos > 0
  PROVE  \E a : Answers(a, Append(rs, ps[n + 1].id), n + 1, ps)
<1> DEFINE l == Len(rs)
           qs == Append(rs, ps[n + 1].id)
           a == [j \in 1 .. l + 1 |-> IF j = l + 1 THEN n + 1 ELSE asks[j]]
<1>1. /\ IsSequence(qs) /\ l \in Nat /\ Len(qs) = l + 1 /\ (\A j \in 1 .. l : qs[j] = rs[j])
      /\ qs[l + 1] = ps[n + 1].id
  BY AppendedIs
<1>2. /\ asks \in [1 .. l -> 1 .. n]
      /\ {asks[j] : j \in 1 .. l} = {k \in 1 .. n : ps[k].qos > 0}
      /\ \A i, j \in 1 .. l : i < j => asks[i] < asks[j]
      /\ \A j \in 1 .. l : rs[j] = ps[asks[j]].id
  BY DEF Answers
<1> HIDE DEF l, qs
<1>3. a[l + 1] = n + 1 /\ \A j \in 1 .. l : a[j] = asks[j]
  BY <1>1
<1>4. a \in [1 .. l + 1 -> 1 .. n + 1]
  <2>1. ASSUME NEW j \in 1 .. l + 1, j # l + 1 PROVE asks[j] \in 1 .. n + 1
    <3>1. j \in 1 .. l
      BY <1>1, <2>1
    <3> QED
      BY <1>2, <3>1
  <2> QED
    BY <2>1
<1> HIDE DEF a
<1>5. \A j : j \in 1 .. l + 1 <=> j \in 1 .. l \/ j = l + 1
  BY <1>1
<1>6. \A k : k \in 1 .. n + 1 <=> k \in 1 .. n \/ k = n + 1
  OBVIOUS
<1>7. {a[j] : j \in 1 .. l + 1} = {k \in 1 .. n + 1 : ps[k].qos > 0}
  <2>1. {a[j] : j \in 1 .. l + 1} = {a[j] : j \in 1 .. l} \cup {a[l + 1]}
    BY <1>5, Zenon
  <2>2. {a[j] : j \in 1 .. l} = {asks[j] : j \in 1 .. l}
    BY <1>3, Zenon
  <2>3. {k \in 1 .. n + 1 : ps[k].qos > 0} = {k \in 1 .. n : ps[k].qos > 0} \cup {n + 1}
    BY <1>6, Zenon
  <2> QED
    BY <1>2, <1>3, <2>1, <2>2, <2>3
<1>8. ASSUME NEW i \in 1 .. l + 1, NEW j \in 1 .. l + 1, i < j
      PROVE  a[i] < a[j]
  <2>1. i \in 1 .. l /\ a[i] = asks[i] /\ asks[i] \in 1 .. n
    BY <1>1, <1>2, <1>3, <1>8
  <2>2. CASE j = l + 1
    BY <1>3, <2>1, <2>2
  <2>3. CASE j \in 1 .. l
    BY <1>2, <1>3, <1>8, <2>1, <2>3
  <2> QED
    BY <1>5, <2>2, <2>3
<1>9. ASSUME NEW j \in 1 .. l + 1
      PROVE  qs[j] = ps[a[j]].id
  <2>1. CASE j = l + 1
    BY <1>1, <1>3, <2>1
  <2>2. CASE j \in 1 .. l
    BY <1>1, <1>2, <1>3, <2>2
  <2> QED
    BY <1>5, <2>1, <2>2
<1>10. Answers(a, qs, n + 1, ps)
  BY <1>1, <1>4, <1>7, <1>8, <1>9 DEF Answers
<1> QED
  BY <1>10 DEF qs

\* The whole of in_buffer starts with what the segment starts with.
LEMMA InBufferIs ==
  ASSUME segment \in Seq(Int), Len(segment) < BufferLength, NEW f, Starts(segment, f),
         Len(f) \in Nat
  PROVE  /\ M!InBuffer \in Seq(Int) /\ Len(M!InBuffer) = BufferLength
         /\ Starts(M!InBuffer, f) /\ Len(f) < Len(M!InBuffer)
<1> DEFINE b == M!InBuffer
<1>1. BufferLength \in Nat /\ Len(segment) \in Nat
  BY MessageAssumption, TwoBytesWide
<1>2. b = [i \in 1 .. BufferLength |-> IF i <= Len(segment) THEN segment[i] ELSE 0]
  BY DEF M!InBuffer
<1>3. \A i \in 1 .. BufferLength : (IF i <= Len(segment) THEN segment[i] ELSE 0) \in Int
  BY <1>1
<1>4. b \in [1 .. BufferLength -> Int]
  BY <1>2, <1>3
<1>5. b \in Seq(Int) /\ Len(b) = BufferLength
  BY <1>1, <1>4
<1>6. Len(f) <= Len(segment) /\ \A j \in 1 .. Len(f) : segment[j] = f[j]
  BY DEF Starts
<1>7. ASSUME NEW j \in 1 .. Len(f) PROVE b[j] = f[j]
  <2>1. j \in 1 .. BufferLength /\ j <= Len(segment) /\ segment[j] = f[j]
    BY <1>1, <1>6
  <2> QED
    BY <1>2, <2>1
<1> HIDE DEF b
<1>8. Len(f) <= Len(b) /\ Len(f) < Len(b)
  BY <1>1, <1>5, <1>6
<1>9. Starts(b, f)
  BY <1>7, <1>8 DEF Starts
<1> QED
  BY <1>5, <1>8, <1>9 DEF b

LEMMA ReadKeeps ==
  ASSUME SegmentInv, M!ReadPacket
  PROVE  SegmentInv'
<1> DEFINE qos == M!GetQos(segment)
           id == M!mqtt_get_id(M!InBuffer, BufferLength)
           n == Len(delivered)
           x == [topic |-> M!mqtt_get_publish_topic(segment, Len(segment)),
                 data |-> M!mqtt_get_publish_data(segment, Len(segment))]
<1>1. /\ segment # << >> /\ M!GetType(segment) = 3
      /\ delivered' = Append(delivered, x)
      /\ segment' = M!Rest(segment)
      /\ replies' = IF qos = 0 THEN replies ELSE Append(replies, id)
      /\ incoming' = incoming
  BY DEF M!ReadPacket, M!Type
<1>2. /\ segment \in Seq(Int) /\ Len(segment) < BufferLength
      /\ incoming \in Seq(Incoming) /\ IsSequence(delivered) /\ IsSequence(replies)
      /\ n <= Len(incoming) /\ Len(incoming) \in Nat
      /\ Delivers(delivered, incoming)
  BY <1>1 DEF SegmentInv
<1>3. n \in Nat
  BY <1>2, AppendedIs
<1>4. PICK e : CutAt(e, segment, n, incoming)
  BY DEF SegmentInv
<1>5. PICK asks : Answers(asks, replies, n, incoming)
  BY DEF SegmentInv
<1>6. n < Len(incoming)
  <2> SUFFICES ASSUME n = Len(incoming) PROVE FALSE
    BY <1>2, <1>3
  <2>1. Len(segment) = 0
    BY <1>4 DEF CutAt
  <2> QED
    BY <1>1, <1>2, <2>1
<1> DEFINE p == incoming[n + 1]
           f == M!Framed(p)
           rest == IF Len(f) < Len(segment) THEN SubSeq(segment, Len(f) + 1, Len(segment)) ELSE << >>
<1>7. /\ p \in Incoming /\ Starts(segment, f) /\ (n + 1 < Len(incoming) <=> Len(f) < Len(segment))
      /\ \E c : CutAt(c, rest, n + 1, incoming)
  BY <1>2, <1>3, <1>4, <1>6, CutShrinks
<1> DEFINE h == M!Header(3, 0, p.qos, 0)
<1>8. FramedAs(f, h, p.topic, p.qos, p.id, p.data) /\ f \in Seq(Int) /\ Len(f) \in Nat
  <2>1. Len(f) \in Nat /\ f \in Seq(Int)
    BY <1>7, FramedIs
  <2>2. Len(f) <= Len(segment)
    BY <1>7 DEF Starts
  <2>3. Len(f) < 16384
    <3> DEFINE l == Len(f)
    <3>1. Len(segment) \in Nat /\ BufferLength \in Nat /\ BufferLength <= 16384
      BY <1>2, MessageAssumption, TwoBytesWide
    <3>2. l \in Nat /\ l <= Len(segment)
      BY <2>1, <2>2
    <3> HIDE DEF l
    <3>3. l < 16384
      BY <1>2, <3>1, <3>2
    <3> QED
      BY <3>3 DEF l
  <2>4. FramedAs(f, h, p.topic, p.qos, p.id, p.data)
    BY <1>7, <2>3, FramedIs
  <2> QED
    BY <2>1, <2>4
<1> HIDE DEF f, h, p
<1>9. FrameRead(segment, f, h, p.topic, p.qos, p.id, p.data)
  BY <1>2, <1>7, <1>8, PublicationFrameIsRead
<1>10. /\ M!InBuffer \in Seq(Int) /\ Len(M!InBuffer) = BufferLength
       /\ Starts(M!InBuffer, f) /\ Len(f) < Len(M!InBuffer)
  BY <1>2, <1>7, <1>8, InBufferIs
<1>11. FrameRead(M!InBuffer, f, h, p.topic, p.qos, p.id, p.data)
  BY <1>8, <1>10, PublicationFrameIsRead
<1>12. p.qos \in 0 .. 2 /\ qos = p.qos
  BY <1>8, <1>9 DEF FramedAs, FrameRead
<1>13. p.qos > 0 => id = p.id
  <2>1. h \div 16 = 3
    <3>1. 3 \in 0 .. 15 /\ 0 \in 0 .. 1
      OBVIOUS
    <3> QED
      BY <1>12, <3>1, HeaderIs DEF h
  <2>2. M!GetType(M!InBuffer) = 3
    BY <1>11, <2>1 DEF FrameRead, M!GetType
  <2>3. M!mqtt_get_id(M!InBuffer, BufferLength) = M!PublishId(M!InBuffer, BufferLength)
    BY <2>2 DEF M!mqtt_get_id, M!Type
  <2>4. p.qos > 0 => M!PublishId(M!InBuffer, BufferLength) = p.id
    BY <1>10, <1>11 DEF FrameRead
  <2> QED
    BY <2>3, <2>4
<1>14. segment' = rest
  <2>1. M!mqtt_get_total_length(segment, Len(segment)) = Len(f)
    BY <1>9 DEF FrameRead
  <2> QED
    BY <1>1, <2>1 DEF M!Rest
<1>15. x.topic = p.topic
       /\ (p.data # << >> \/ p.qos = 0 \/ n + 1 < Len(incoming) => x.data = p.data)
  BY <1>7, <1>9 DEF FrameRead
<1> HIDE DEF x, qos, id, rest
<1>16. Delivers(delivered', incoming')
  <2>1. p = incoming[Len(delivered) + 1] /\ Len(delivered) < Len(incoming)
    BY <1>6 DEF p
  <2> QED
    BY <1>1, <1>2, <1>15, <2>1, DeliveryGrows
<1>17. IsSequence(delivered') /\ Len(delivered') = n + 1
  BY <1>1, <1>2, AppendedIs
<1>18. IsSequence(replies') /\ \E a : Answers(a, replies', n + 1, incoming)
  <2>1. CASE p.qos > 0
    <3>1. replies' = Append(replies, p.id)
      BY <1>1, <1>12, <1>13, <2>1
    <3>2. \E a : Answers(a, Append(replies, p.id), n + 1, incoming)
      BY <1>2, <1>3, <1>5, <2>1, AnswersGrow DEF p
    <3> QED
      BY <1>2, <3>1, <3>2, AppendedIs
  <2>2. CASE ~(p.qos > 0)
    <3>1. replies' = replies
      BY <1>1, <1>12, <2>2
    <3>2. Answers(asks, replies, n + 1, incoming)
      BY <1>2, <1>3, <1>5, <2>2, AnswersStay DEF p
    <3> QED
      BY <1>2, <3>1, <3>2
  <2> QED
    BY <2>1, <2>2
<1>19. rest \in Seq(Int) /\ (rest = << >> \/ Len(rest) < BufferLength)
  <2> DEFINE l == Len(f)
             s == segment
  <2>1. s \in Seq(Int) /\ l \in Nat /\ Len(s) < BufferLength /\ BufferLength \in Nat /\ Len(s) \in Nat
        /\ rest = IF l < Len(s) THEN SubSeq(s, l + 1, Len(s)) ELSE << >>
    BY <1>2, <1>8, MessageAssumption, TwoBytesWide DEF rest
  <2> HIDE DEF l, s
  <2>2. CASE l < Len(s)
    <3>1. SubSeq(s, l + 1, Len(s)) \in Seq(Int) /\ Len(SubSeq(s, l + 1, Len(s))) = Len(s) - l
      BY <2>1, <2>2
    <3> QED
      BY <2>1, <2>2, <3>1
  <2>3. CASE ~(l < Len(s))
    BY <2>1, <2>3
  <2> QED
    BY <2>2, <2>3
<1>20. \E c : CutAt(c, segment', Len(delivered'), incoming')
  <2>1. \E c : CutAt(c, rest, n + 1, incoming)
    BY <1>7 DEF rest
  <2> QED
    BY <1>1, <1>14, <1>17, <2>1
<1>21. Len(delivered') <= Len(incoming') /\ incoming' \in Seq(Incoming)
  BY <1>1, <1>2, <1>3, <1>6, <1>17
<1>22. \E a : Answers(a, replies', Len(delivered'), incoming')
  BY <1>1, <1>17, <1>18
<1> QED
  BY <1>14, <1>16, <1>17, <1>18, <1>19, <1>20, <1>21, <1>22 DEF SegmentInv

LEMMA SegmentStep == SegmentInv /\ [M!Next]_msgVars => SegmentInv'
<1> SUFFICES ASSUME SegmentInv, [M!Next]_msgVars
             PROVE  SegmentInv'
  OBVIOUS
<1>1. ASSUME M!Building PROVE SegmentInv'
  <2>1. segment' = << >> /\ incoming' = << >> /\ delivered' = << >> /\ replies' = << >>
    BY <1>1 DEF M!Building
  <2> QED
    BY <2>1, NothingKeeps
<1>2. CASE M!mqtt_msg_publish \/ M!mqtt_msg_subscribe \/ M!mqtt_msg_puback
           \/ M!mqtt_msg_pingreq \/ M!mqtt_msg_connect
  <2>1. M!Building
    BY <1>2 DEF M!mqtt_msg_publish, M!mqtt_msg_subscribe, M!mqtt_msg_puback,
                M!mqtt_msg_pingreq, M!mqtt_msg_connect
  <2> QED
    BY <1>1, <2>1
<1>3. CASE M!Receive
  BY <1>3, ReceiveKeeps
<1>4. CASE M!ReadPacket
  BY <1>4, ReadKeeps
<1>5. CASE UNCHANGED msgVars
  BY <1>5 DEF msgVars, SegmentInv
<1> QED
  BY <1>2, <1>3, <1>4, <1>5 DEF M!Next

\* With nothing left of the segment, all of it has been delivered and answered.
LEMMA SegmentInvSuffices == SegmentInv => PublicationsDelivered
<1> SUFFICES ASSUME SegmentInv, segment = << >>
             PROVE  /\ Len(delivered) = Len(incoming)
                    /\ \A k \in DOMAIN delivered :
                         /\ delivered[k].topic = incoming[k].topic
                         /\ incoming[k].data # << >> \/ incoming[k].qos = 0 \/ k < Len(incoming) =>
                              delivered[k].data = incoming[k].data
                    /\ \E asks \in [DOMAIN replies -> DOMAIN incoming] :
                         /\ {asks[j] : j \in DOMAIN replies}
                              = {k \in DOMAIN incoming : incoming[k].qos > 0}
                         /\ \A i, j \in DOMAIN replies : i < j => asks[i] < asks[j]
                         /\ \A j \in DOMAIN replies : replies[j] = incoming[asks[j]].id
  BY DEF PublicationsDelivered, M!PublicationsDelivered
<1> DEFINE n == Len(incoming)
           d == Len(delivered)
<1>1. /\ IsSequence(delivered) /\ IsSequence(replies) /\ d <= n
      /\ Delivers(delivered, incoming) /\ incoming \in Seq(Incoming)
  BY DEF SegmentInv
<1>2. PICK e : CutAt(e, segment, d, incoming)
  BY DEF SegmentInv
<1>3. PICK asks : Answers(asks, replies, d, incoming)
  BY DEF SegmentInv
<1>4. d \in Nat /\ DOMAIN delivered = 1 .. d
  <2>1. PICK S : delivered \in Seq(S)
    BY <1>1 DEF IsSequence
  <2> QED
    BY <2>1
<1>5. DOMAIN replies = 1 .. Len(replies)
  <2>1. PICK S : replies \in Seq(S)
    BY <1>1 DEF IsSequence
  <2> QED
    BY <2>1
<1>6. n \in Nat /\ DOMAIN incoming = 1 .. n
  BY <1>1
<1>7. d = n
  <2>0. d \in Nat /\ n \in Nat /\ d <= n
    BY <1>1, <1>4, <1>6
  <2> SUFFICES ASSUME d < n PROVE FALSE
    <3> HIDE DEF d, n
    <3> QED
      BY <2>0
  <2>1. e[d] = 0 /\ e[n] = 0 /\ \A i, k \in d .. n : i < k => e[i] < e[k]
    BY <1>2, EmptyIsSequence DEF CutAt
  <2>2. d \in d .. n /\ n \in d .. n
    BY <1>4, <1>6
  <2>3. e[d] < e[n]
    BY <2>1, <2>2
  <2> QED
    BY <2>1, <2>3
<1> HIDE DEF n, d
<1>8. \A k \in DOMAIN delivered :
        /\ delivered[k].topic = incoming[k].topic
        /\ incoming[k].data # << >> \/ incoming[k].qos = 0 \/ k < Len(incoming) =>
             delivered[k].data = incoming[k].data
  BY <1>1, <1>4 DEF Delivers, d
<1>9. /\ asks \in [DOMAIN replies -> DOMAIN incoming]
      /\ {asks[j] : j \in DOMAIN replies} = {k \in DOMAIN incoming : incoming[k].qos > 0}
      /\ \A i, j \in DOMAIN replies : i < j => asks[i] < asks[j]
      /\ \A j \in DOMAIN replies : replies[j] = incoming[asks[j]].id
  BY <1>3, <1>5, <1>6, <1>7 DEF Answers
<1> QED
  BY <1>7, <1>8, <1>9 DEF d, n

\* For every size of in_buffer and every run of publications that one segment
\* holds: READPACKET hands each to mqttDataCb with its own topic and payload, the
\* one payload mqtt_get_publish_data returns NULL for excepted, and answers those
\* that ask for it, in order, each with its own id.
THEOREM SegmentsAreDelivered == MessagesSpec => []PublicationsDelivered
<1>1. M!Init => SegmentInv
  <2> SUFFICES ASSUME M!Init PROVE SegmentInv
    OBVIOUS
  <2>1. segment = << >> /\ incoming = << >> /\ delivered = << >> /\ replies = << >>
    BY DEF M!Init
  <2>2. CutAt([k \in 0 .. 0 |-> 0], segment, Len(delivered), incoming)
    BY <2>1, NothingIs, EmptyIsSequence
  <2>3. Delivers(delivered, incoming) /\ Answers(<< >>, replies, Len(delivered), incoming)
    BY <2>1, NothingIs, EmptyIsSequence
  <2>4. segment \in Seq(Int) /\ incoming \in Seq(Incoming) /\ Len(delivered) <= Len(incoming)
    BY <2>1
  <2> QED
    BY <2>1, <2>2, <2>3, <2>4, EmptyIsSequence DEF SegmentInv
<1> QED
  BY <1>1, SegmentStep, SegmentInvSuffices, PTL DEF MessagesSpec
=============================================================================
