-------------------------- MODULE HttpdConnProofs --------------------------
(* One connection of the web server, for any requests, in any segments, and  *)
(* any sizes of the buffers: its types, with the bounds of the backlog and   *)
(* of the POST buffer; that nothing it produces is lost or overtaken; and    *)
(* that each response is framed.                                             *)
EXTENDS HttpdConn, FiniteSetTheorems, SequenceTheorems, TLAPS

-----------------------------------------------------------------------------
(* FlattenSeq.  What its recursion computes is shown by induction over sets  *)
(* of numbers, from the well-foundedness of finite sets.                     *)

LEMMA LeastNumber ==
  ASSUME NEW T \in SUBSET Nat, T # {}
  PROVE  \E n \in T : \A m \in T : n <= m
<1> DEFINE Below == {0 .. n : n \in T}
           R == StrictSubsetOrdering(Nat)
           F == FiniteSubsetsOf(Nat)
<1>1. Below \subseteq F /\ Below # {}
  <2> SUFFICES ASSUME NEW n \in T PROVE 0 .. n \in SUBSET Nat /\ IsFiniteSet(0 .. n)
    BY DEF FiniteSubsetsOf
  <2> QED
    BY FS_Interval
<1>2. IsWellFoundedOn(R, F)
  BY FS_StrictSubsetOrderingWellFounded
<1>3. \E x \in Below : \A y \in Below : ~ (<<y, x>> \in R)
  <2> HIDE DEF Below, R, F
  <2> QED
    BY <1>1, <1>2, WFMin
<1>4. PICK n \in T : \A m \in T : ~ (<<0 .. m, 0 .. n>> \in R)
  BY <1>3
<1>5. ASSUME NEW m \in T, m < n PROVE FALSE
  <2>1. 0 .. m \subseteq 0 .. n /\ n \in 0 .. n /\ n \notin 0 .. m
    BY <1>5
  <2>2. <<0 .. m, 0 .. n>> \in R
    BY <2>1 DEF StrictSubsetOrdering
  <2> QED
    BY <2>2, <1>4
<1> QED
  BY <1>5

LEMMA NumbersByInduction ==
  ASSUME NEW T \in SUBSET Nat, 0 \in T, \A n \in T : n + 1 \in T
  PROVE  T = Nat
<1> SUFFICES ASSUME Nat \ T # {} PROVE FALSE
  OBVIOUS
<1>1. PICK n \in Nat \ T : \A m \in Nat \ T : n <= m
  BY LeastNumber
<1>2. n # 0 /\ n - 1 \in Nat
  BY <1>1
<1>3. n - 1 \in T
  BY <1>1, <1>2
<1> QED
  BY <1>1, <1>2, <1>3

\* f holds what FlattenSeq has put together after each of the sequences.
Flattens(seqs, f) ==
  f = [i \in 1 .. Len(seqs) |-> IF i = 1 THEN seqs[i] ELSE f[i - 1] \o seqs[i]]

LEMMA FlattenIs ==
  ASSUME NEW seqs, Len(seqs) # 0
  PROVE  FlattenSeq(seqs) = (CHOOSE f : Flattens(seqs, f))[Len(seqs)]
BY DEF FlattenSeq, Flattens

LEMMA FlattensAt ==
  ASSUME NEW s, NEW f, Flattens(s, f), NEW i \in 1 .. Len(s)
  PROVE  f[i] = IF i = 1 THEN s[i] ELSE f[i - 1] \o s[i]
<1> DEFINE h == [j \in 1 .. Len(s) |-> IF j = 1 THEN s[j] ELSE f[j - 1] \o s[j]]
<1>1. f = h
  BY DEF Flattens
<1>2. h[i] = IF i = 1 THEN s[i] ELSE f[i - 1] \o s[i]
  OBVIOUS
<1> HIDE DEF h
<1> QED
  BY <1>1, <1>2

SameUpTo(s, t, n) ==
  /\ n \in 1 .. Len(s) /\ n \in 1 .. Len(t) /\ Len(s) \in Nat /\ Len(t) \in Nat
  /\ \A i \in 1 .. n : s[i] = t[i]

LEMMA FlattensAgree ==
  ASSUME NEW s, NEW t, NEW f, NEW g, NEW n,
         Flattens(s, f), Flattens(t, g), SameUpTo(s, t, n)
  PROVE  f[n] = g[n]
<1> USE DEF SameUpTo
<1> DEFINE T == {m \in Nat : m \in 1 .. n => f[m] = g[m]}
<1>1. 0 \in T
  OBVIOUS
<1>2. ASSUME NEW m \in T PROVE m + 1 \in T
  <2>1. CASE m + 1 \notin 1 .. n
    BY <2>1
  <2>2. CASE m + 1 \in 1 .. n
    <3>0. m + 1 \in 1 .. Len(s) /\ m + 1 \in 1 .. Len(t)
      BY <2>2
    <3>1. f[m + 1] = IF m + 1 = 1 THEN s[m + 1] ELSE f[m + 1 - 1] \o s[m + 1]
      BY <3>0, FlattensAt
    <3>2. g[m + 1] = IF m + 1 = 1 THEN t[m + 1] ELSE g[m + 1 - 1] \o t[m + 1]
      BY <3>0, FlattensAt
    <3>3. m + 1 - 1 = m /\ (m + 1 # 1 => m \in 1 .. n)
      BY <2>2
    <3> QED
      BY <2>2, <3>1, <3>2, <3>3
  <2> QED
    BY <2>1, <2>2
<1>3. T = Nat
  <2> HIDE DEF T
  <2>1. T \in SUBSET Nat
    BY DEF T
  <2> QED
    BY <1>1, <1>2, <2>1, NumbersByInduction
<1> QED
  BY <1>3

\* There is such an f.
LEMMA FlattensExists ==
  ASSUME NEW S
  PROVE  \A seqs \in Seq(S) : \E f : Flattens(seqs, f)
<1> DEFINE T == {n \in Nat : \A seqs \in Seq(S) : Len(seqs) = n => \E f : Flattens(seqs, f)}
<1>1. 0 \in T
  <2> SUFFICES ASSUME NEW seqs \in Seq(S), Len(seqs) = 0 PROVE \E f : Flattens(seqs, f)
    OBVIOUS
  <2>1. Flattens(seqs, [i \in 1 .. 0 |-> 0])
    BY DEF Flattens
  <2> QED
    BY <2>1
<1>2. ASSUME NEW n \in T PROVE n + 1 \in T
  <2> SUFFICES ASSUME NEW seqs \in Seq(S), Len(seqs) = n + 1 PROVE \E f : Flattens(seqs, f)
    OBVIOUS
  <2> DEFINE s == [i \in 1 .. n |-> seqs[i]]
  <2>1. s \in Seq(S) /\ Len(s) = n
    OBVIOUS
  <2>2. PICK f : Flattens(s, f)
    BY <2>1
  <2> DEFINE g == [i \in 1 .. n + 1 |->
                     IF i = 1 THEN seqs[i] ELSE IF i = n + 1 THEN f[n] \o seqs[i] ELSE f[i]]
  <2>3. ASSUME NEW i \in 1 .. n PROVE f[i] = IF i = 1 THEN seqs[i] ELSE f[i - 1] \o seqs[i]
    <3>1. f[i] = IF i = 1 THEN s[i] ELSE f[i - 1] \o s[i]
      BY <2>1, <2>2 DEF Flattens
    <3> QED
      BY <3>1
  <2>4. ASSUME NEW i \in 1 .. n + 1 PROVE g[i] = IF i = 1 THEN seqs[i] ELSE g[i - 1] \o seqs[i]
    <3>1. CASE i = 1
      BY <3>1
    <3>2. CASE i # 1
      <4>1. i - 1 \in 1 .. n /\ i - 1 \in 1 .. n + 1
        BY <3>2
      <4>2. g[i - 1] = f[i - 1]
        <5>1. CASE i - 1 = 1
          <6>1. g[i - 1] = seqs[1] /\ f[i - 1] = seqs[1]
            BY <2>3, <4>1, <5>1
          <6> QED
            BY <6>1
        <5>2. CASE i - 1 # 1
          BY <4>1, <5>2
        <5> QED
          BY <5>1, <5>2
      <4>3. CASE i = n + 1
        <5>1. i - 1 = n
          BY <4>3
        <5>2. g[i] = f[n] \o seqs[i]
          BY <3>2, <4>3
        <5> QED
          BY <3>2, <4>2, <5>1, <5>2
      <4>4. CASE i # n + 1
        <5>1. g[i] = f[i] /\ i \in 1 .. n
          BY <3>2, <4>4
        <5>2. f[i] = f[i - 1] \o seqs[i]
          BY <2>3, <3>2, <5>1
        <5> QED
          BY <3>2, <4>2, <5>1, <5>2
      <4> QED
        BY <4>3, <4>4
    <3> QED
      BY <3>1, <3>2
  <2>5. g = [i \in 1 .. n + 1 |-> g[i]]
    OBVIOUS
  <2> HIDE DEF g
  <2>6. Flattens(seqs, g)
    BY <2>4, <2>5 DEF Flattens
  <2> QED
    BY <2>6
<1>3. T = Nat
  <2> HIDE DEF T
  <2>1. T \in SUBSET Nat
    BY DEF T
  <2> QED
    BY <1>1, <1>2, <2>1, NumbersByInduction
<1> QED
  BY <1>3

LEMMA FlattenMade ==
  ASSUME NEW S, NEW seqs \in Seq(S), Len(seqs) # 0
  PROVE  \E f : Flattens(seqs, f) /\ FlattenSeq(seqs) = f[Len(seqs)]
<1>1. \E f : Flattens(seqs, f)
  BY FlattensExists
<1>2. Flattens(seqs, CHOOSE f : Flattens(seqs, f))
  BY <1>1
<1> QED
  BY <1>2, FlattenIs

LEMMA FlattenNone == FlattenSeq(<< >>) = << >>
BY DEF FlattenSeq

LEMMA LastApart ==
  ASSUME NEW S, NEW s \in Seq(S), NEW n \in Nat, Len(s) = n + 1
  PROVE  \E r \in Seq(S), x \in S : s = Append(r, x) /\ Len(r) = n
<1> DEFINE r == [i \in 1 .. n |-> s[i]]
<1>1. r \in Seq(S) /\ Len(r) = n /\ s[n + 1] \in S
  OBVIOUS
<1>2. s = Append(r, s[n + 1])
  OBVIOUS
<1> HIDE DEF r
<1> QED
  BY <1>1, <1>2

LEMMA FlattenAppend ==
  ASSUME NEW S, NEW seqs \in Seq(Seq(S)), NEW p \in Seq(S)
  PROVE  FlattenSeq(Append(seqs, p)) = FlattenSeq(seqs) \o p
<1> DEFINE t == Append(seqs, p)
           n == Len(seqs)
<1>1. t \in Seq(Seq(S)) /\ Len(t) = n + 1 /\ t[n + 1] = p /\ n \in Nat
  OBVIOUS
<1>2. \A i \in 1 .. n : seqs[i] = t[i]
  OBVIOUS
<1>0. seqs = << >> <=> n = 0
  OBVIOUS
<1> HIDE DEF t
<1>3. PICK g : Flattens(t, g) /\ FlattenSeq(t) = g[Len(t)]
  <2> HIDE DEF n
  <2> QED
    BY <1>1, FlattenMade
<1>4. g[n + 1] = IF n + 1 = 1 THEN t[n + 1] ELSE g[n + 1 - 1] \o t[n + 1]
  <2>1. n + 1 \in 1 .. Len(t)
    BY <1>1
  <2>2. \A i \in 1 .. Len(t) : g[i] = IF i = 1 THEN t[i] ELSE g[i - 1] \o t[i]
    BY <1>3, FlattensAt
  <2> DEFINE k == n + 1
  <2>3. k \in 1 .. Len(t)
    BY <2>1
  <2> HIDE DEF k
  <2>4. g[k] = IF k = 1 THEN t[k] ELSE g[k - 1] \o t[k]
    BY <2>3, <2>2
  <2> QED
    BY <2>4 DEF k
<1>5. CASE seqs = << >>
  <2>1. FlattenSeq(t) = p
    BY <1>1, <1>3, <1>4, <1>5
  <2>2. << >> \o p = p
    OBVIOUS
  <2> QED
    BY <1>5, <2>1, <2>2, FlattenNone DEF t
<1>6. CASE seqs # << >>
  <2>1. PICK f : Flattens(seqs, f) /\ FlattenSeq(seqs) = f[Len(seqs)]
    BY <1>0, <1>6, FlattenMade
  <2>2. SameUpTo(seqs, t, n)
    BY <1>0, <1>6, <1>1, <1>2 DEF SameUpTo
  <2>3. f[n] = g[n]
    <3> HIDE DEF n
    <3> QED
      BY <1>3, <2>1, <2>2, FlattensAgree
  <2>4. f[n] = g[n] /\ n + 1 # 1 /\ n + 1 - 1 = n
    BY <1>0, <1>6, <2>3, <1>1
  <2>5. FlattenSeq(t) = g[n] \o p
    BY <1>1, <1>3, <1>4, <2>4
  <2> QED
    BY <2>1, <2>4, <2>5 DEF t
<1> QED
  BY <1>5, <1>6

LEMMA FlattenType ==
  ASSUME NEW S
  PROVE  \A seqs \in Seq(Seq(S)) : FlattenSeq(seqs) \in Seq(S)
<1> DEFINE T == {n \in Nat : \A seqs \in Seq(Seq(S)) : Len(seqs) = n => FlattenSeq(seqs) \in Seq(S)}
<1>1. 0 \in T
  <2> SUFFICES ASSUME NEW seqs \in Seq(Seq(S)), Len(seqs) = 0 PROVE FlattenSeq(seqs) \in Seq(S)
    OBVIOUS
  <2>1. seqs = << >>
    OBVIOUS
  <2>2. << >> \in Seq(S)
    OBVIOUS
  <2> QED
    BY <2>1, <2>2, FlattenNone
<1>2. ASSUME NEW n \in T PROVE n + 1 \in T
  <2> SUFFICES ASSUME NEW seqs \in Seq(Seq(S)), Len(seqs) = n + 1 PROVE FlattenSeq(seqs) \in Seq(S)
    OBVIOUS
  <2>1. PICK r \in Seq(Seq(S)), x \in Seq(S) : seqs = Append(r, x) /\ Len(r) = n
    BY LastApart
  <2>2. FlattenSeq(r) \in Seq(S)
    BY <2>1
  <2>3. FlattenSeq(seqs) = FlattenSeq(r) \o x
    BY <2>1, FlattenAppend
  <2> QED
    BY <2>2, <2>3
<1>3. T = Nat
  <2> HIDE DEF T
  <2>1. T \in SUBSET Nat
    BY DEF T
  <2> QED
    BY <1>1, <1>2, <2>1, NumbersByInduction
<1> QED
  BY <1>3

LEMMA FlattenTail ==
  ASSUME NEW S
  PROVE  \A seqs \in Seq(Seq(S)) :
           seqs # << >> => FlattenSeq(seqs) = Head(seqs) \o FlattenSeq(Tail(seqs))
<1> DEFINE P(seqs) == FlattenSeq(seqs) = Head(seqs) \o FlattenSeq(Tail(seqs))
           T == {n \in Nat : \A seqs \in Seq(Seq(S)) : Len(seqs) = n /\ seqs # << >> => P(seqs)}
<1>1. 0 \in T
  OBVIOUS
<1>2. ASSUME NEW n \in T PROVE n + 1 \in T
  <2> SUFFICES ASSUME NEW seqs \in Seq(Seq(S)), Len(seqs) = n + 1 PROVE P(seqs)
    OBVIOUS
  <2>1. PICK r \in Seq(Seq(S)), x \in Seq(S) : seqs = Append(r, x) /\ Len(r) = n
    BY LastApart
  <2>2. FlattenSeq(seqs) = FlattenSeq(r) \o x
    BY <2>1, FlattenAppend
  <2>3. CASE r = << >>
    <3>1. Head(seqs) = x /\ Tail(seqs) = << >> /\ << >> \o x = x /\ x \o << >> = x
      BY <2>1, <2>3
    <3> QED
      BY <2>2, <2>3, <3>1, FlattenNone
  <2>4. CASE r # << >>
    <3>1. Head(seqs) = Head(r) /\ Tail(seqs) = Append(Tail(r), x)
      BY <2>1, <2>4
    <3>2. Head(r) \in Seq(S) /\ Tail(r) \in Seq(Seq(S))
      BY <2>4
    <3>3. P(r)
      BY <2>1, <2>4
    <3>4. FlattenSeq(Tail(r)) \in Seq(S)
      BY <3>2, FlattenType
    <3>5. FlattenSeq(Append(Tail(r), x)) = FlattenSeq(Tail(r)) \o x
      BY <3>2, FlattenAppend
    <3> DEFINE h == Head(r)
               b == FlattenSeq(Tail(r))
    <3>6. (h \o b) \o x = h \o (b \o x)
      <4> HIDE DEF h, b
      <4>1. h \in Seq(S) /\ b \in Seq(S)
        BY <3>2, <3>4 DEF h, b
      <4> QED
        BY <4>1
    <3> QED
      BY <2>2, <3>1, <3>3, <3>5, <3>6
  <2> QED
    BY <2>3, <2>4
<1>3. T = Nat
  <2> HIDE DEF T
  <2>1. T \in SUBSET Nat
    BY DEF T
  <2> QED
    BY <1>1, <1>2, <2>1, NumbersByInduction
<1> QED
  <2> SUFFICES ASSUME NEW seqs \in Seq(Seq(S)), seqs # << >> PROVE P(seqs)
    OBVIOUS
  <2>1. Len(seqs) \in T
    BY <1>3
  <2> QED
    BY <2>1
-----------------------------------------------------------------------------
(* Types.                                                                  *)

ItemType == [kind : {"head", "body", "crlf"}, request : RequestType]

LEMMA ItemsType ==
  ASSUME NEW rs \in Seq(RequestType)
  PROVE  Items(rs) \in Seq(ItemType)
<1> DEFINE piece(rq) == <<Item("head", rq)>> \o [b \in 1 .. rq.body |-> Item("body", rq)]
                          \o (IF rq.crlf THEN <<Item("crlf", rq)>> ELSE << >>)
           pieces == [i \in DOMAIN rs |-> piece(rs[i])]
<1>1. ASSUME NEW rq \in RequestType PROVE piece(rq) \in Seq(ItemType)
  <2> DEFINE h == <<Item("head", rq)>>
             b == [j \in 1 .. rq.body |-> Item("body", rq)]
             e == IF rq.crlf THEN <<Item("crlf", rq)>> ELSE << >>
  <2>1. \A k \in {"head", "body", "crlf"} : Item(k, rq) \in ItemType
    BY DEF ItemType, Item
  <2>2. h \in Seq(ItemType)
    BY <2>1
  <2>3. b \in Seq(ItemType)
    <3>1. rq.body \in Nat
      BY DEF RequestType
    <3> QED
      BY <2>1, <3>1
  <2>4. e \in Seq(ItemType)
    <3>1. << >> \in Seq(ItemType) /\ <<Item("crlf", rq)>> \in Seq(ItemType)
      BY <2>1
    <3> QED
      BY <3>1
  <2> HIDE DEF h, b, e
  <2>5. (h \o b) \o e \in Seq(ItemType)
    BY <2>2, <2>3, <2>4
  <2> QED
    BY <2>5 DEF h, b, e
<1>2. pieces \in Seq(Seq(ItemType))
  <2> HIDE DEF piece
  <2>1. \A i \in DOMAIN rs : piece(rs[i]) \in Seq(ItemType)
    BY <1>1
  <2>2. DOMAIN rs = 1 .. Len(rs) /\ Len(rs) \in Nat
    OBVIOUS
  <2> QED
    BY <2>1, <2>2
<1>3. Items(rs) = FlattenSeq(pieces)
  BY DEF Items
<1> HIDE DEF pieces
<1> QED
  BY <1>2, <1>3, FlattenType

\* The types of what output has, and of the rest.
OutputOK ==
  /\ sendBuff \in Seq(Marks) /\ wire \in Seq(Marks) /\ produced \in Seq(Marks)
  /\ backlog \in Seq(Seq(Marks)) /\ Size(backlog) <= MaxBacklog
  /\ inflight \in BOOLEAN /\ dropped \in BOOLEAN

FlagsOK ==
  /\ cgi \in BOOLEAN /\ junk \in BOOLEAN /\ url \in BOOLEAN
  /\ early \in BOOLEAN /\ mute \in BOOLEAN
  /\ chunked \in BOOLEAN /\ sendingBody \in BOOLEAN /\ disconAfterSent \in BOOLEAN

CountsOK ==
  /\ link \in {"open", "closing", "closed"}
  /\ recv \in {"no", "first", "byte", "call", "sent"}
  /\ len \in Nat \cup {-1} /\ received \in Nat
  /\ buffLen \in 0 .. MaxPost
  /\ calls \in Nat /\ asked \in Nat
  /\ toSend \in Seq(ItemType)

LEMMA TypeParts == TypeOK <=> CountsOK /\ FlagsOK /\ OutputOK
BY DEF TypeOK, CountsOK, FlagsOK, OutputOK, ItemType

LEMMA TypePartsNext == TypeOK' <=> CountsOK' /\ FlagsOK' /\ OutputOK'
BY DEF TypeOK, CountsOK, FlagsOK, OutputOK, ItemType

\* The POST buffer is full only while its CGI is about to be called.
PostInv == IF recv = "call" THEN buffLen <= MaxPost ELSE buffLen < MaxPost
-----------------------------------------------------------------------------
(* Output.                                                                 *)

\* Nothing is lost or overtaken.
Whole == wire \o FlattenSeq(backlog) \o sendBuff = produced
Waiting == ~inflight => backlog = << >>

LEMMA JoinAssociative ==
  ASSUME NEW S, NEW a \in Seq(S), NEW b \in Seq(S), NEW c \in Seq(S)
  PROVE  (a \o b) \o c = a \o (b \o c) /\ a \o << >> = a /\ << >> \o a = a /\ a \o b \in Seq(S)
OBVIOUS

LEMMA MarkSeqs == << >> \in Seq(Marks) /\ << >> \in Seq(Seq(Marks))
OBVIOUS

LEMMA HandOverOutput ==
  ASSUME OutputOK, Waiting, NEW packet \in Seq(Marks), HandOver(packet)
  PROVE  /\ wire' \in Seq(Marks) /\ backlog' \in Seq(Seq(Marks)) /\ Size(backlog') <= MaxBacklog
         /\ inflight' \in BOOLEAN /\ dropped' \in BOOLEAN
         /\ Waiting'
         /\ ~dropped' => ~dropped /\ wire' \o FlattenSeq(backlog') = wire \o FlattenSeq(backlog) \o packet
<1> DEFINE f == FlattenSeq(backlog)
<1>0. f \in Seq(Marks) /\ wire \in Seq(Marks)
  BY FlattenType DEF OutputOK
<1>1. CASE packet = << >>
  <2>1. UNCHANGED <<backlog, inflight, wire, dropped>>
    BY <1>1 DEF HandOver
  <2>2. wire \o f \o << >> = wire \o f
    <3> HIDE DEF f
    <3> QED
      BY <1>0, JoinAssociative
  <2> QED
    BY <1>1, <2>1, <2>2 DEF OutputOK, Waiting
<1>2. CASE packet # << >> /\ inflight
  <2>1. UNCHANGED <<inflight, wire>> /\ Refused(packet)
    BY <1>2 DEF HandOver
  <2>2. CASE Size(backlog) + Len(packet) > MaxBacklog
    <3>1. dropped' = TRUE /\ backlog' = backlog
      BY <2>1, <2>2 DEF Refused
    <3> QED
      BY <1>2, <2>1, <3>1 DEF OutputOK, Waiting
  <2>3. CASE ~ (Size(backlog) + Len(packet) > MaxBacklog)
    <3>1. dropped' = dropped /\ backlog' = Append(backlog, packet)
      BY <2>1, <2>3 DEF Refused
    <3>2. backlog' \in Seq(Seq(Marks))
      BY <3>1 DEF OutputOK
    <3>3. FlattenSeq(backlog') = f \o packet
      BY <3>1, FlattenAppend DEF OutputOK
    <3>4. wire' \o FlattenSeq(backlog') = wire \o f \o packet
      <4> HIDE DEF f
      <4>1. (wire \o f) \o packet = wire \o (f \o packet)
        BY <1>0, JoinAssociative
      <4> QED
        BY <2>1, <3>3, <4>1
    <3>5. Size(backlog') <= MaxBacklog
      <4>1. Len(f \o packet) = Len(f) + Len(packet) /\ Len(f) \in Nat /\ Len(packet) \in Nat
        <5> HIDE DEF f
        <5> QED
          BY <1>0
      <4>2. Size(backlog') = Len(f) + Len(packet) /\ Size(backlog) = Len(f)
        BY <3>3, <4>1 DEF Size
      <4> DEFINE l == Len(f)
                 m == Len(packet)
                 z == Size(backlog)
                 y == Size(backlog')
      <4>3. y = l + m /\ z = l /\ l \in Nat /\ m \in Nat /\ ~ (z + m > MaxBacklog)
        BY <2>3, <4>1, <4>2
      <4>4. y <= MaxBacklog
        <5> HIDE DEF l, m, z, y
        <5> QED
          BY <4>3, LimitAssumption
      <4> QED
        BY <4>4
    <3> QED
      BY <1>2, <2>1, <3>1, <3>2, <3>4, <3>5 DEF OutputOK, Waiting
  <2> QED
    BY <2>2, <2>3
<1>3. CASE packet # << >> /\ ~inflight
  <2>1. inflight' = TRUE /\ wire' = wire \o packet /\ backlog' = backlog /\ dropped' = dropped
    BY <1>3 DEF HandOver
  <2>2. backlog = << >>
    BY <1>3 DEF Waiting
  <2>3. f = << >>
    BY <2>2, FlattenNone
  <2>4. wire' \o f = wire \o f \o packet
    <3>1. wire \o packet \in Seq(Marks)
      BY <1>0, JoinAssociative
    <3>2. (wire \o packet) \o << >> = wire \o packet /\ wire \o << >> = wire
      BY <1>0, <3>1, JoinAssociative
    <3> HIDE DEF f
    <3> QED
      BY <2>1, <2>3, <3>2
  <2>5. wire' \in Seq(Marks)
    BY <1>0, <2>1, JoinAssociative
  <2> QED
    BY <2>1, <2>4, <2>5 DEF OutputOK, Waiting
<1> QED
  BY <1>1, <1>2, <1>3

LEMMA EmitOutput ==
  ASSUME OutputOK, Waiting, NEW out \in Seq(Marks), NEW flush \in BOOLEAN, Emit(out, flush)
  PROVE  /\ OutputOK' /\ Waiting'
         /\ flush => sendBuff' = << >>
         /\ produced' = produced \o out
         /\ dropped => dropped'
         /\ Whole /\ ~dropped' => Whole'
<1> DEFINE f == FlattenSeq(backlog)
           s == sendBuff
           w == wire
<1>0. f \in Seq(Marks) /\ w \in Seq(Marks) /\ s \in Seq(Marks) /\ produced \in Seq(Marks)
  BY FlattenType DEF OutputOK
<1>1. produced' = produced \o out /\ produced' \in Seq(Marks)
  BY <1>0, JoinAssociative DEF Emit
<1>2. w \o f \in Seq(Marks) /\ s \o out \in Seq(Marks)
  <2> HIDE DEF f, s, w
  <2> QED
    BY <1>0, JoinAssociative
<1>3. (w \o f \o s) \o out = (w \o f) \o (s \o out)
  <2> HIDE DEF f, s, w
  <2> QED
    BY <1>0, <1>2, JoinAssociative
<1>4. CASE flush
  <2>1. HandOver(s \o out) /\ sendBuff' = << >>
    BY <1>4 DEF Emit
  <2>2. /\ wire' \in Seq(Marks) /\ backlog' \in Seq(Seq(Marks)) /\ Size(backlog') <= MaxBacklog
        /\ inflight' \in BOOLEAN /\ dropped' \in BOOLEAN
        /\ Waiting'
        /\ ~dropped' => ~dropped /\ wire' \o FlattenSeq(backlog') = w \o f \o (s \o out)
    <3> DEFINE packet == s \o out
    <3>1. packet \in Seq(Marks) /\ HandOver(packet)
      BY <1>2, <2>1
    <3> HIDE DEF packet
    <3>2. /\ wire' \in Seq(Marks) /\ backlog' \in Seq(Seq(Marks)) /\ Size(backlog') <= MaxBacklog
          /\ inflight' \in BOOLEAN /\ dropped' \in BOOLEAN
          /\ Waiting'
          /\ ~dropped' => ~dropped /\ wire' \o FlattenSeq(backlog') = w \o f \o packet
      BY <3>1, HandOverOutput
    <3> QED
      BY <3>2 DEF packet
  <2>3. OutputOK'
    BY <1>1, <2>1, <2>2, MarkSeqs DEF OutputOK
  <2>4. ASSUME Whole, ~dropped' PROVE Whole'
    <3> DEFINE u == wire' \o FlattenSeq(backlog')
    <3>1. u \in Seq(Marks) /\ u = w \o f \o (s \o out)
      <4>1. FlattenSeq(backlog') \in Seq(Marks)
        BY <2>2, FlattenType
      <4> QED
        BY <2>2, <2>4, <4>1, JoinAssociative
    <3>2. u \o << >> = u
      <4> HIDE DEF u
      <4> QED
        BY <3>1, JoinAssociative
    <3>3. w \o f \o s = produced
      BY <2>4 DEF Whole
    <3>4. u \o sendBuff' = produced'
      <4> HIDE DEF u, f, s, w
      <4> QED
        BY <1>1, <1>3, <2>1, <3>1, <3>2, <3>3
    <3> QED
      BY <3>4 DEF Whole
  <2>5. dropped => dropped'
    BY <2>2
  <2> QED
    BY <1>1, <2>1, <2>2, <2>3, <2>4, <2>5
<1>5. CASE ~flush
  <2>1. sendBuff' = s \o out /\ UNCHANGED <<backlog, inflight, wire, dropped>>
    BY <1>5 DEF Emit
  <2>2. OutputOK' /\ Waiting'
    BY <1>1, <1>2, <2>1 DEF OutputOK, Waiting
  <2>3. ASSUME Whole PROVE Whole'
    <3>1. w \o f \o s = produced
      BY <2>3 DEF Whole
    <3>2. w \o f \o sendBuff' = produced'
      <4> HIDE DEF f, s, w
      <4> QED
        BY <1>1, <1>3, <2>1, <3>1
    <3>3. wire' = w /\ FlattenSeq(backlog') = f
      BY <2>1
    <3> QED
      BY <3>2, <3>3 DEF Whole
  <2> QED
    BY <1>1, <1>5, <2>1, <2>2, <2>3
<1> QED
  BY <1>4, <1>5
-----------------------------------------------------------------------------
(* A call of a CGI function.                                               *)

StreamInv ==
  /\ link # "closed" /\ ~dropped => Whole
  /\ recv = "no" => sendBuff = << >>
  /\ Waiting

LEMMA OutcomesType ==
  ASSUME NEW complete \in BOOLEAN, NEW o \in Outcomes(complete)
  PROVE  o.out \in Seq(Marks) /\ o.done \in BOOLEAN
<1>1. /\ << >> \in Seq(Marks) /\ <<"head">> \in Seq(Marks) /\ <<"data">> \in Seq(Marks)
      /\ <<"head", "data">> \in Seq(Marks)
  BY DEF Marks
<1>2. PICK out \in {<< >>, <<"head">>, <<"data">>, <<"head", "data">>}, done \in BOOLEAN : o = Call(out, done)
  <2>1. CASE ~complete
    BY <2>1 DEF Outcomes
  <2>2. CASE complete /\ cgi /\ sendingBody
    BY <2>2 DEF Outcomes
  <2>3. CASE complete /\ ~(cgi /\ sendingBody)
    BY <2>3 DEF Outcomes
  <2> QED
    BY <2>1, <2>2, <2>3
<1>3. o.out = out /\ o.done = done
  BY <1>2 DEF Call
<1> QED
  BY <1>1, <1>3

LEMMA TerminatorType ==
  ASSUME NEW b \in BOOLEAN
  PROVE  Terminator(b) \in Seq(Marks)
<1>1. << >> \in Seq(Marks) /\ <<"end">> \in Seq(Marks)
  BY DEF Marks
<1> QED
  BY <1>1 DEF Terminator

\* The ways a call can end: with the last of a chunked response, with the last of
\* another one, or with more to come.
Ended(out, done, made, flush) ==
  /\ Emit(made, flush)
  /\ \/ /\ done /\ chunked /\ flush = TRUE
        /\ made = out \o Terminator(BodyAfter(out))
        /\ cgi' = FALSE /\ ReadyForNext
     \/ /\ done /\ ~chunked /\ flush = (recv = "sent")
        /\ made = out
        /\ cgi' = FALSE /\ disconAfterSent' = TRUE
        /\ sendingBody' = BodyAfter(out)
        /\ UNCHANGED <<len, received, chunked>>
     \/ /\ ~done /\ flush = (recv = "sent" \/ ~cgi)
        /\ made = out
        /\ cgi' = TRUE
        /\ sendingBody' = BodyAfter(out)
        /\ UNCHANGED <<len, received, chunked, disconAfterSent>>

LEMMA CallEnds ==
  ASSUME FlagsOK, CountsOK, RunCgi
  PROVE  \E o \in Outcomes(received >= len) : \E made \in Seq(Marks), flush \in BOOLEAN :
           /\ o.out \in Seq(Marks) /\ o.done \in BOOLEAN
           /\ early' = (early \/ (o.done /\ received < len))
           /\ mute' = (mute \/ (o.done /\ o.out = << >>))
           /\ Ended(o.out, o.done, made, flush)
<1>1. PICK o \in Outcomes(received >= len) :
         /\ early' = (early \/ (o.done /\ received < len))
         /\ mute' = (mute \/ (o.done /\ o.out = << >>))
         /\ IF o.done THEN CgiIsDone(o.out) ELSE CgiHasMore(o.out)
  BY DEF RunCgi
<1>2. o.out \in Seq(Marks) /\ o.done \in BOOLEAN
  <2>1. (received >= len) \in BOOLEAN
    OBVIOUS
  <2> QED
    BY <2>1, OutcomesType
<1>3. BodyAfter(o.out) \in BOOLEAN
  BY DEF BodyAfter
<1> DEFINE end == o.out \o Terminator(BodyAfter(o.out))
<1>4. end \in Seq(Marks)
  <2>1. Terminator(BodyAfter(o.out)) \in Seq(Marks)
    BY <1>3, TerminatorType
  <2> QED
    BY <1>2, <2>1, JoinAssociative
<1>5. CASE o.done /\ chunked
  <2>1. CgiIsDone(o.out)
    BY <1>1, <1>5
  <2>2. Ended(o.out, o.done, end, TRUE)
    BY <1>5, <2>1 DEF CgiIsDone, Ended
  <2> HIDE DEF end
  <2> QED
    BY <1>1, <1>2, <1>4, <2>2
<1>6. CASE o.done /\ ~chunked
  <2>1. CgiIsDone(o.out)
    BY <1>1, <1>6
  <2>2. Ended(o.out, o.done, o.out, recv = "sent")
    BY <1>6, <2>1 DEF CgiIsDone, Ended
  <2>3. (recv = "sent") \in BOOLEAN
    OBVIOUS
  <2> QED
    BY <1>1, <1>2, <2>2, <2>3
<1>7. CASE ~o.done
  <2>1. CgiHasMore(o.out)
    BY <1>1, <1>7
  <2>2. Ended(o.out, o.done, o.out, recv = "sent" \/ ~cgi)
    BY <1>7, <2>1 DEF CgiHasMore, Remembered, Ended
  <2>3. (recv = "sent" \/ ~cgi) \in BOOLEAN
    OBVIOUS
  <2> QED
    BY <1>1, <1>2, <2>2, <2>3
<1> QED
  BY <1>2, <1>5, <1>6, <1>7

LEMMA CallKeepsStream ==
  ASSUME FlagsOK, CountsOK, OutputOK, Waiting, RunCgi
  PROVE  /\ OutputOK' /\ Waiting'
         /\ recv = "sent" => sendBuff' = << >>
         /\ dropped => dropped'
         /\ Whole /\ ~dropped' => Whole'
         /\ len' \in Nat \cup {-1} /\ received' \in Nat /\ calls' \in Nat
         /\ cgi' \in BOOLEAN /\ chunked' \in BOOLEAN /\ sendingBody' \in BOOLEAN
         /\ disconAfterSent' \in BOOLEAN /\ early' \in BOOLEAN /\ mute' \in BOOLEAN
<1>1. PICK o \in Outcomes(received >= len), made \in Seq(Marks), flush \in BOOLEAN :
         /\ o.out \in Seq(Marks) /\ o.done \in BOOLEAN
         /\ early' = (early \/ (o.done /\ received < len))
         /\ mute' = (mute \/ (o.done /\ o.out = << >>))
         /\ Ended(o.out, o.done, made, flush)
  BY CallEnds
<1>2. Emit(made, flush)
  BY <1>1 DEF Ended
<1>3. /\ OutputOK' /\ Waiting'
      /\ flush => sendBuff' = << >>
      /\ dropped => dropped'
      /\ Whole /\ ~dropped' => Whole'
  BY <1>2, EmitOutput
<1>4. recv = "sent" => flush
  BY <1>1 DEF Ended
<1>5. calls' \in Nat
  BY DEF RunCgi, CountsOK
<1>6. len' \in Nat \cup {-1} /\ received' \in Nat
  <2>1. (len' = -1 /\ received' = 0) \/ UNCHANGED <<len, received>>
    BY <1>1 DEF Ended, ReadyForNext
  <2> QED
    BY <2>1 DEF CountsOK
<1>7. early' \in BOOLEAN /\ mute' \in BOOLEAN
  BY <1>1
<1>8. /\ cgi' \in BOOLEAN /\ chunked' \in BOOLEAN /\ sendingBody' \in BOOLEAN
      /\ disconAfterSent' \in BOOLEAN
  <2>1. BodyAfter(o.out) \in BOOLEAN
    BY DEF BodyAfter
  <2> QED
    BY <1>1, <2>1 DEF Ended, FlagsOK, ReadyForNext
<1> QED
  BY <1>3, <1>4, <1>5, <1>6, <1>7, <1>8
-----------------------------------------------------------------------------
(* Type correctness, and the stream.                                       *)

ConnInv == CountsOK /\ FlagsOK /\ OutputOK /\ PostInv /\ StreamInv

LEMMA ConnInit == Init => ConnInv
<1> SUFFICES ASSUME Init PROVE ConnInv
  OBVIOUS
<1>1. PICK rs \in Requests : toSend = Items(rs)
  BY DEF Init
<1>2. toSend \in Seq(ItemType)
  BY <1>1, RequestAssumption, ItemsType
<1>3. CountsOK /\ PostInv
  BY <1>2, LimitAssumption DEF Init, CountsOK, PostInv
<1>4. FlagsOK
  BY DEF Init, FlagsOK
<1>5. backlog = << >> /\ wire = << >> /\ sendBuff = << >> /\ produced = << >> /\ recv = "no"
      /\ inflight = FALSE /\ dropped = FALSE
  BY DEF Init
<1>6. FlattenSeq(backlog) = << >>
  BY <1>5, FlattenNone
<1>7. Size(backlog) = 0
  <2>1. Len(<< >>) = 0
    OBVIOUS
  <2> QED
    BY <1>6, <2>1 DEF Size
<1>8. OutputOK
  <2>1. sendBuff \in Seq(Marks) /\ wire \in Seq(Marks) /\ produced \in Seq(Marks) /\ backlog \in Seq(Seq(Marks))
    BY <1>5, MarkSeqs
  <2>2. Size(backlog) <= MaxBacklog
    BY <1>7, LimitAssumption
  <2>3. inflight \in BOOLEAN /\ dropped \in BOOLEAN
    BY <1>5
  <2> QED
    BY <2>1, <2>2, <2>3 DEF OutputOK
<1>9. wire \o FlattenSeq(backlog) \o sendBuff = produced
  <2>1. << >> \o << >> = << >>
    OBVIOUS
  <2> QED
    BY <1>5, <1>6, <2>1
<1> QED
  BY <1>3, <1>4, <1>5, <1>8, <1>9 DEF ConnInv, StreamInv, Whole, Waiting

LEMMA SendTail ==
  ASSUME NEW s \in Seq(ItemType), s # << >>
  PROVE  Tail(s) \in Seq(ItemType) /\ Head(s) \in ItemType
OBVIOUS

LEMMA ConnReceiving ==
  ASSUME ConnInv, RecvBegin \/ RecvHead \/ RecvPost \/ RecvStray
  PROVE  ConnInv'
<1> USE DEF ConnInv, MaySend, Receiving
<1>0. toSend \in Seq(ItemType) /\ (toSend # << >> => Tail(toSend) \in Seq(ItemType) /\ Head(toSend) \in ItemType)
  BY SendTail DEF CountsOK
<1>1. CASE RecvBegin
  <2>1. UNCHANGED <<link, backlog, inflight, wire, produced, dropped>> /\ sendBuff' = << >>
        /\ sendBuff = << >> /\ recv' # "no"
    BY <1>1 DEF RecvBegin, StreamInv
  <2>2. OutputOK' /\ StreamInv'
    BY <2>1 DEF OutputOK, StreamInv, Whole, Waiting
  <2>3. CountsOK' /\ PostInv'
    BY <1>1 DEF RecvBegin, CountsOK, PostInv, parser
  <2>4. FlagsOK'
    BY <1>1 DEF RecvBegin, FlagsOK, parser, flags
  <2> QED
    BY <2>2, <2>3, <2>4
<1>2. CASE RecvHead
  <2>1. UNCHANGED output /\ UNCHANGED link /\ recv # "no" /\ recv' # "no"
    BY <1>2 DEF RecvHead
  <2>2. OutputOK' /\ StreamInv'
    BY <2>1 DEF OutputOK, StreamInv, Whole, Waiting, output
  <2>3. Head(toSend).request \in RequestType
    BY <1>0, <1>2 DEF RecvHead, ItemType
  <2>4. Head(toSend).request.body \in Nat /\ Head(toSend).request.chunked \in BOOLEAN
    BY <2>3 DEF RequestType
  <2>5. CountsOK' /\ PostInv'
    <3> DEFINE body == Head(toSend).request.body
    <3>1. len' = body /\ body \in Nat /\ asked' = asked + 1 /\ toSend' = Tail(toSend) /\ UNCHANGED <<link, received, buffLen, calls>>
          /\ recv' \in {"call", "byte"} /\ recv # "call" /\ toSend # << >>
      BY <1>2, <2>4 DEF RecvHead
    <3> HIDE DEF body
    <3> QED
      BY <1>0, <3>1, LimitAssumption DEF CountsOK, PostInv
  <2>6. FlagsOK'
    <3>1. /\ url' = ~junk /\ junk' = FALSE /\ chunked' = (~junk /\ Head(toSend).request.chunked)
          /\ UNCHANGED <<cgi, sendingBody, disconAfterSent, early, mute>>
      BY <1>2 DEF RecvHead
    <3> QED
      BY <2>4, <3>1, Zenon DEF FlagsOK
  <2> QED
    BY <2>2, <2>5, <2>6
<1>3. CASE RecvPost
  <2>1. UNCHANGED output /\ UNCHANGED link /\ recv # "no" /\ recv' # "no"
    BY <1>3 DEF RecvPost
  <2>2. OutputOK' /\ StreamInv'
    BY <2>1 DEF OutputOK, StreamInv, Whole, Waiting, output
  <2>3. CountsOK' /\ PostInv'
    <3>1. toSend' \in Seq(ItemType) /\ UNCHANGED <<link, asked, len, calls>> /\ recv # "call"
          /\ received' = received + 1 /\ buffLen' = buffLen + 1
          /\ recv' = (IF PartComplete THEN "call" ELSE "byte")
      BY <1>0, <1>3 DEF RecvPost
    <3>2. buffLen < MaxPost
      BY <3>1 DEF PostInv
    <3>3. ~PartComplete => buffLen' < MaxPost
      BY <3>1, <3>2, LimitAssumption DEF PartComplete, CountsOK
    <3> QED
      BY <3>1, <3>2, <3>3, LimitAssumption DEF CountsOK, PostInv
  <2>4. FlagsOK'
    BY <1>3 DEF RecvPost, FlagsOK, flags
  <2> QED
    BY <2>2, <2>3, <2>4
<1>4. CASE RecvStray
  <2>1. UNCHANGED output /\ UNCHANGED link /\ recv # "no" /\ recv' # "no"
    BY <1>4 DEF RecvStray
  <2>2. OutputOK' /\ StreamInv'
    BY <2>1 DEF OutputOK, StreamInv, Whole, Waiting, output
  <2>3. CountsOK' /\ PostInv'
    BY <1>0, <1>4 DEF RecvStray, CountsOK, PostInv
  <2>4. FlagsOK'
    <3>1. /\ junk' = (junk \/ (len < 0 /\ Head(toSend).kind = "body"))
          /\ UNCHANGED <<url, cgi, flags, early, mute>>
      BY <1>4 DEF RecvStray
    <3>2. junk' \in BOOLEAN
      BY <3>1 DEF FlagsOK
    <3> QED
      BY <3>1, <3>2 DEF FlagsOK, flags
  <2> QED
    BY <2>2, <2>3, <2>4
<1> QED
  BY <1>1, <1>2, <1>3, <1>4

LEMMA ConnCalling ==
  ASSUME ConnInv, RecvEnd \/ RecvCall \/ SentCall
  PROVE  ConnInv'
<1> USE DEF ConnInv
<1>0. Waiting
  BY DEF StreamInv
<1>1. CASE RecvEnd
  <2>1. Emit(<< >>, TRUE) /\ UNCHANGED <<link, toSend, asked, parser, cgi, calls, flags, early, mute>>
        /\ recv = "byte" /\ recv' = "no"
    BY <1>1 DEF RecvEnd
  <2>2. << >> \in Seq(Marks) /\ TRUE \in BOOLEAN
    BY MarkSeqs
  <2>3. OutputOK' /\ Waiting' /\ sendBuff' = << >> /\ (dropped => dropped') /\ (Whole /\ ~dropped' => Whole')
    BY <1>0, <2>1, <2>2, EmitOutput
  <2>4. StreamInv'
    BY <2>1, <2>3 DEF StreamInv
  <2>5. CountsOK' /\ PostInv'
    BY <2>1 DEF CountsOK, PostInv, parser
  <2>6. FlagsOK'
    BY <2>1 DEF FlagsOK, parser, flags
  <2> QED
    BY <2>3, <2>4, <2>5, <2>6
<1>2. CASE RecvCall
  <2>1. recv = "call" /\ recv' = "byte" /\ buffLen' = 0 /\ UNCHANGED <<link, toSend, asked, junk, url>>
    BY <1>2 DEF RecvCall
  <2>2. CASE RunCgi
    <3>1. CountsOK' /\ PostInv'
      BY <1>0, <2>1, <2>2, CallKeepsStream, LimitAssumption DEF CountsOK, PostInv
    <3>2. FlagsOK'
      BY <1>0, <2>1, <2>2, CallKeepsStream DEF FlagsOK
    <3>3. OutputOK' /\ Waiting' /\ (dropped => dropped') /\ (Whole /\ ~dropped' => Whole')
      BY <1>0, <2>2, CallKeepsStream
    <3>4. StreamInv'
      BY <2>1, <3>3 DEF StreamInv
    <3> QED
      BY <3>1, <3>2, <3>3, <3>4
  <2>3. CASE UNCHANGED <<len, received, cgi, calls, flags, output, early, mute>>
    <3>1. CountsOK' /\ PostInv'
      BY <2>1, <2>3, LimitAssumption DEF CountsOK, PostInv
    <3>2. FlagsOK'
      BY <2>1, <2>3 DEF FlagsOK, flags
    <3>3. OutputOK' /\ StreamInv'
      BY <2>1, <2>3 DEF OutputOK, StreamInv, Whole, Waiting, output
    <3> QED
      BY <3>1, <3>2, <3>3
  <2> QED
    BY <1>2, <2>2, <2>3 DEF RecvCall
<1>3. CASE SentCall
  <2>1. recv = "sent" /\ recv' = "no" /\ RunCgi /\ UNCHANGED <<link, toSend, asked, junk, url>>
        /\ (buffLen' = buffLen \/ buffLen' = 0)
    BY <1>3 DEF SentCall
  <2>2. CountsOK' /\ PostInv'
    BY <1>0, <2>1, CallKeepsStream, LimitAssumption DEF CountsOK, PostInv
  <2>3. FlagsOK'
    BY <1>0, <2>1, CallKeepsStream DEF FlagsOK
  <2>4. OutputOK' /\ Waiting' /\ sendBuff' = << >> /\ (dropped => dropped') /\ (Whole /\ ~dropped' => Whole')
    BY <1>0, <2>1, CallKeepsStream
  <2>5. StreamInv'
    BY <2>1, <2>4 DEF StreamInv
  <2> QED
    BY <2>2, <2>3, <2>4, <2>5
<1> QED
  BY <1>1, <1>2, <1>3

LEMMA FlattenSize ==
  ASSUME NEW seqs \in Seq(Seq(Marks)), seqs # << >>
  PROVE  /\ FlattenSeq(seqs) = Head(seqs) \o FlattenSeq(Tail(seqs))
         /\ Head(seqs) \in Seq(Marks) /\ Tail(seqs) \in Seq(Seq(Marks))
         /\ FlattenSeq(Tail(seqs)) \in Seq(Marks)
         /\ Size(Tail(seqs)) <= Size(seqs)
<1>1. FlattenSeq(seqs) = Head(seqs) \o FlattenSeq(Tail(seqs))
  BY FlattenTail
<1>2. Head(seqs) \in Seq(Marks) /\ Tail(seqs) \in Seq(Seq(Marks))
  OBVIOUS
<1>3. FlattenSeq(Tail(seqs)) \in Seq(Marks)
  BY <1>2, FlattenType
<1> DEFINE h == Head(seqs)
           t == FlattenSeq(Tail(seqs))
<1>4. Len(h \o t) = Len(h) + Len(t) /\ Len(h) \in Nat /\ Len(t) \in Nat
  <2>1. h \in Seq(Marks) /\ t \in Seq(Marks)
    BY <1>2, <1>3
  <2> HIDE DEF h, t
  <2> QED
    BY <2>1
<1>5. Size(seqs) = Len(h \o t) /\ Size(Tail(seqs)) = Len(t)
  BY <1>1 DEF Size
<1>6. Size(Tail(seqs)) <= Size(seqs)
  <2> HIDE DEF h, t
  <2> QED
    BY <1>4, <1>5
<1> QED
  BY <1>1, <1>2, <1>3, <1>6

LEMMA ConnSending ==
  ASSUME ConnInv, SentBacklog \/ SentClose \/ SentIdle \/ SentMore \/ httpdDisconCb
  PROVE  ConnInv'
<1> USE DEF ConnInv
<1>1. CASE SentBacklog
  <2>1. /\ recv = "no" /\ inflight /\ backlog # << >>
        /\ wire' = wire \o Head(backlog) /\ UNCHANGED inflight /\ backlog' = Tail(backlog)
        /\ UNCHANGED <<link, toSend, asked, recv, parser, cgi, calls, flags, sendBuff, produced,
                       dropped, early, mute>>
    BY <1>1 DEF SentBacklog, SendBacklog
  <2> DEFINE h == Head(backlog)
             t == FlattenSeq(Tail(backlog))
             w == wire
  <2>2. /\ FlattenSeq(backlog) = h \o t
        /\ h \in Seq(Marks) /\ Tail(backlog) \in Seq(Seq(Marks)) /\ t \in Seq(Marks)
        /\ Size(Tail(backlog)) <= Size(backlog)
    BY <2>1, FlattenSize DEF OutputOK
  <2>3. w \in Seq(Marks)
    BY DEF OutputOK
  <2>4. (w \o h) \o t = w \o (h \o t) /\ w \o h \in Seq(Marks)
    <3> HIDE DEF h, t, w
    <3> QED
      BY <2>2, <2>3, JoinAssociative
  <2>5. Whole => Whole'
    <3> SUFFICES ASSUME Whole PROVE Whole'
      OBVIOUS
    <3>1. wire' \o FlattenSeq(backlog') = w \o FlattenSeq(backlog)
      BY <2>1, <2>2, <2>4
    <3> QED
      BY <2>1, <3>1 DEF Whole
  <2>6. Size(backlog') <= MaxBacklog
    <3> DEFINE z == Size(backlog)
               y == Size(Tail(backlog))
    <3>1. z \in Nat /\ y \in Nat
      <4>1. FlattenSeq(backlog) \in Seq(Marks) /\ t \in Seq(Marks)
        BY <2>2, FlattenType DEF OutputOK
      <4> QED
        BY <4>1 DEF Size
    <3>2. y <= z /\ z <= MaxBacklog
      BY <2>2 DEF OutputOK
    <3>3. y <= MaxBacklog
      <4> HIDE DEF y, z
      <4> QED
        BY <3>1, <3>2, LimitAssumption
    <3> QED
      BY <2>1, <3>3
  <2>7. OutputOK'
    BY <2>1, <2>2, <2>4, <2>6 DEF OutputOK
  <2>8. StreamInv'
    BY <2>1, <2>5 DEF StreamInv, Waiting
  <2>9. CountsOK' /\ PostInv'
    BY <2>1 DEF CountsOK, PostInv, parser
  <2>10. FlagsOK'
    BY <2>1 DEF FlagsOK, parser, flags
  <2> QED
    BY <2>7, <2>8, <2>9, <2>10
<1>2. CASE SentClose \/ SentIdle
  <2>1. /\ recv = "no" /\ inflight /\ backlog = << >> /\ inflight' = FALSE
        /\ link' \in {link, "closing"} /\ (link' # "closed" => link # "closed")
        /\ UNCHANGED <<toSend, asked, recv, parser, cgi, calls, flags, sendBuff, backlog, wire, produced,
                       dropped, early, mute>>
    BY <1>2 DEF SentClose, SentIdle, BacklogSent
  <2>2. OutputOK' /\ StreamInv'
    BY <2>1 DEF OutputOK, StreamInv, Whole, Waiting
  <2>3. CountsOK' /\ PostInv'
    BY <2>1 DEF CountsOK, PostInv, parser
  <2>4. FlagsOK'
    BY <2>1 DEF FlagsOK, parser, flags
  <2> QED
    BY <2>2, <2>3, <2>4
<1>3. CASE SentMore
  <2>1. /\ recv = "no" /\ backlog = << >> /\ inflight' = FALSE /\ recv' = "sent" /\ sendBuff' = << >>
        /\ UNCHANGED <<link, toSend, asked, parser, cgi, calls, flags, backlog, wire, produced,
                       dropped, early, mute>>
    BY <1>3 DEF SentMore, BacklogSent
  <2>2. sendBuff = << >>
    BY <2>1 DEF StreamInv
  <2>3. OutputOK' /\ StreamInv'
    BY <2>1, <2>2 DEF OutputOK, StreamInv, Whole, Waiting
  <2>4. CountsOK' /\ PostInv'
    BY <2>1 DEF CountsOK, PostInv, parser
  <2>5. FlagsOK'
    BY <2>1 DEF FlagsOK, parser, flags
  <2> QED
    BY <2>3, <2>4, <2>5
<1>4. CASE httpdDisconCb
  <2>1. /\ recv = "no" /\ link' = "closed" /\ cgi' = FALSE /\ backlog' = << >> /\ inflight' = FALSE
        /\ toSend' = << >> /\ sendBuff' = << >>
        /\ UNCHANGED <<asked, recv, parser, calls, flags, wire, produced, dropped, early, mute>>
    BY <1>4 DEF httpdDisconCb
  <2>2. Size(backlog') = 0
    <3>1. Len(<< >>) = 0
      OBVIOUS
    <3> QED
      BY <2>1, <3>1, FlattenNone DEF Size
  <2>3. OutputOK' /\ StreamInv'
    <3>1. Size(backlog') <= MaxBacklog
      BY <2>2, LimitAssumption
    <3>2. backlog' \in Seq(Seq(Marks)) /\ sendBuff' \in Seq(Marks) /\ inflight' \in BOOLEAN
      BY <2>1, MarkSeqs
    <3> QED
      BY <2>1, <3>1, <3>2 DEF OutputOK, StreamInv, Waiting
  <2>4. CountsOK' /\ PostInv'
    <3>1. toSend' \in Seq(ItemType)
      <4>1. << >> \in Seq(ItemType)
        OBVIOUS
      <4> QED
        BY <2>1, <4>1
    <3> QED
      BY <2>1, <3>1 DEF CountsOK, PostInv, parser
  <2>5. FlagsOK'
    BY <2>1 DEF FlagsOK, parser, flags
  <2> QED
    BY <2>3, <2>4, <2>5
<1> QED
  BY <1>1, <1>2, <1>3, <1>4

LEMMA ConnStutter == ConnInv /\ UNCHANGED vars => ConnInv'
BY DEF ConnInv, CountsOK, FlagsOK, OutputOK, PostInv, StreamInv, Whole, Waiting, vars, parser, flags, output

LEMMA ConnStep == ConnInv /\ [Next]_vars => ConnInv'
<1> SUFFICES ASSUME ConnInv, [Next]_vars PROVE ConnInv'
  OBVIOUS
<1>1. CASE UNCHANGED vars
  BY <1>1, ConnStutter
<1>2. CASE RecvBegin \/ RecvHead \/ RecvPost \/ RecvStray
  BY <1>2, ConnReceiving
<1>3. CASE RecvEnd \/ RecvCall \/ SentCall
  BY <1>3, ConnCalling
<1>4. CASE SentBacklog \/ SentClose \/ SentIdle \/ SentMore \/ httpdDisconCb
  BY <1>4, ConnSending
<1> QED
  BY <1>1, <1>2, <1>3, <1>4 DEF Next, httpdRecvCb, httpdSentCb

\* The state of a connection is of its types: the backlog stays within
\* MAX_BACKLOG_SIZE and the POST buffer within its size, whatever comes in
\* whatever segments and whatever the CGI functions answer.
THEOREM TypeCorrect == Spec => []TypeOK
<1>1. ConnInv => TypeOK
  BY TypeParts DEF ConnInv
<1> QED
  BY <1>1, ConnInit, ConnStep, PTL DEF Spec

\* What the socket got, what waits in the backlog and what the callback has yet
\* to flush are, in this order, what the server produced (httpdFlushSendBuffer
\* and httpdSentCb), unless the backlog overflowed.
THEOREM StreamIsIntact == Spec => []StreamIntact
<1>1. ConnInv => StreamIntact
  BY DEF ConnInv, StreamInv, Whole, StreamIntact
<1> QED
  BY <1>1, ConnInit, ConnStep, PTL DEF Spec
-----------------------------------------------------------------------------
(* Framing.                                                                *)

LastMark(p) == IF p = << >> THEN "end" ELSE p[Len(p)]

Framed(p) ==
  \A i \in DOMAIN p :
    CASE p[i] = "head" -> i = 1 \/ p[i - 1] = "end"
      [] p[i] = "data" -> i > 1 /\ p[i - 1] \in {"head", "data"}
      [] p[i] = "end"  -> i > 1 /\ p[i - 1] \in {"head", "data"}

\* The mark that may come after a response, and the ones within it.
MayFollow(last, mark) ==
  IF last = "end" THEN mark = "head" ELSE mark \in {"data", "end"}

LEMMA FramedAppend ==
  ASSUME NEW p \in Seq(Marks), NEW x \in Marks, Framed(p), MayFollow(LastMark(p), x)
  PROVE  Framed(Append(p, x)) /\ LastMark(Append(p, x)) = x /\ Append(p, x) \in Seq(Marks)
<1> DEFINE q == Append(p, x)
           n == Len(p)
<1>1. q \in Seq(Marks) /\ Len(q) = n + 1 /\ q # << >> /\ n \in Nat /\ q[n + 1] = x /\ DOMAIN q = 1 .. n + 1
      /\ DOMAIN p = 1 .. n
  OBVIOUS
<1>2. \A i \in 1 .. n : q[i] = p[i]
  OBVIOUS
<1>3. p = << >> <=> n = 0
  OBVIOUS
<1>4. n # 0 => p[n] \in Marks
  <2> HIDE DEF q
  <2> QED
    BY <1>1
<1> HIDE DEF q
<1>5. LastMark(q) = x
  BY <1>1 DEF LastMark
<1>6. n # 0 => LastMark(p) = q[n]
  <2>1. n # 0 => n \in 1 .. n
    BY <1>1
  <2> QED
    BY <1>2, <1>3, <2>1 DEF LastMark
<1>7. ASSUME NEW i \in DOMAIN q
      PROVE  CASE q[i] = "head" -> i = 1 \/ q[i - 1] = "end"
               [] q[i] = "data" -> i > 1 /\ q[i - 1] \in {"head", "data"}
               [] q[i] = "end"  -> i > 1 /\ q[i - 1] \in {"head", "data"}
  <2>1. CASE i \in 1 .. n
    <3>1. (CASE p[i] = "head" -> i = 1 \/ p[i - 1] = "end"
             [] p[i] = "data" -> i > 1 /\ p[i - 1] \in {"head", "data"}
             [] p[i] = "end"  -> i > 1 /\ p[i - 1] \in {"head", "data"})
      BY <1>1, <2>1 DEF Framed
    <3>2. i # 1 => i - 1 \in 1 .. n
      <4> HIDE DEF n
      <4> QED
        BY <1>1, <2>1
    <3>3. q[i] = p[i] /\ (i # 1 => q[i - 1] = p[i - 1]) /\ i \in Int /\ (i > 1 => i # 1) /\ p[i] \in Marks
      <4>1. q[i] = p[i]
        BY <1>2, <2>1
      <4>2. i # 1 => q[i - 1] = p[i - 1]
        BY <1>2, <3>2
      <4>3. i \in Int /\ (i > 1 => i # 1)
        BY <2>1
      <4>4. p[i] \in Marks
        BY <1>1, <2>1
      <4> QED
        BY <4>1, <4>2, <4>3, <4>4
    <3>4. CASE p[i] = "head"
      BY <3>1, <3>3, <3>4
    <3>5. CASE p[i] \in {"data", "end"}
      <4>1. i > 1 /\ p[i - 1] \in {"head", "data"}
        BY <3>1, <3>5
      <4> QED
        BY <4>1, <3>3, <3>5
    <3> QED
      BY <3>3, <3>4, <3>5 DEF Marks
  <2>2. CASE i = n + 1
    <3>1. q[i] = x
      BY <1>1, <2>2
    <3>2. CASE n = 0
      <4>1. LastMark(p) = "end"
        BY <1>3, <3>2 DEF LastMark
      <4>2. x = "head" /\ i = 1
        BY <2>2, <3>2, <4>1 DEF MayFollow
      <4> QED
        BY <3>1, <4>2
    <3>3. CASE n # 0
      <4> DEFINE k == q[n]
      <4>1. k \in Marks /\ k = LastMark(p)
        BY <1>2, <1>4, <1>6, <3>3
      <4>2. i - 1 = n /\ i > 1
        <5> HIDE DEF n
        <5> QED
          BY <1>1, <2>2, <3>3
      <4>3. q[i - 1] = k
        BY <4>2
      <4>4. MayFollow(k, x)
        BY <4>1
      <4> HIDE DEF k
      <4>5. CASE k = "end"
        BY <3>1, <4>3, <4>4, <4>5 DEF MayFollow
      <4>6. CASE k # "end"
        <5>1. k \in {"head", "data"} /\ x \in {"data", "end"}
          BY <4>1, <4>4, <4>6 DEF MayFollow, Marks
        <5> QED
          BY <3>1, <4>2, <4>3, <5>1
      <4> QED
        BY <4>5, <4>6
    <3> QED
      BY <3>2, <3>3
  <2>3. i \in 1 .. n \/ i = n + 1
    <3> HIDE DEF n
    <3> QED
      BY <1>1
  <2> QED
    BY <2>1, <2>2, <2>3
<1>8. Framed(q)
  BY <1>7 DEF Framed
<1> QED
  BY <1>1, <1>5, <1>8 DEF q

\* What is produced in one go.
LEMMA FramedJoin ==
  ASSUME NEW p \in Seq(Marks), Framed(p)
  PROVE  /\ p \o << >> = p
         /\ \A x \in Marks : MayFollow(LastMark(p), x) =>
              Framed(p \o <<x>>) /\ LastMark(p \o <<x>>) = x
         /\ \A x, y \in Marks : MayFollow(LastMark(p), x) /\ MayFollow(x, y) =>
              Framed(p \o <<x, y>>) /\ LastMark(p \o <<x, y>>) = y
<1>1. ASSUME NEW x \in Marks, MayFollow(LastMark(p), x)
      PROVE  Framed(p \o <<x>>) /\ LastMark(p \o <<x>>) = x /\ p \o <<x>> \in Seq(Marks)
  <2>1. p \o <<x>> = Append(p, x)
    OBVIOUS
  <2> QED
    BY <1>1, <2>1, FramedAppend
<1>2. ASSUME NEW x \in Marks, NEW y \in Marks, MayFollow(LastMark(p), x), MayFollow(x, y)
      PROVE  Framed(p \o <<x, y>>) /\ LastMark(p \o <<x, y>>) = y /\ p \o <<x, y>> \in Seq(Marks)
  <2> DEFINE q == p \o <<x>>
  <2>1. q \in Seq(Marks) /\ Framed(q) /\ LastMark(q) = x
    BY <1>1, <1>2
  <2>2. p \o <<x, y>> = Append(q, y)
    OBVIOUS
  <2> HIDE DEF q
  <2> QED
    BY <1>2, <2>1, <2>2, FramedAppend
<1>3. p \o << >> = p
  OBVIOUS
<1> QED
  BY <1>1, <1>2, <1>3

Streaming == cgi /\ sendingBody

\* Why a response keeps its frame, while no CGI answers early and no client of
\* HTTP/1.0 sends bytes behind its POST: every call finds its request there, a CGI
\* that has sent its head is called until the end, and only then a head is read.
InStep ==
  /\ Framed(produced)
  /\ len < 0 => ~cgi /\ ~sendingBody /\ ~chunked
  /\ recv = "call" => len >= 0
  /\ recv = "sent" => cgi
  /\ recv \in {"call", "sent"} => ~disconAfterSent
  /\ disconAfterSent => ~chunked /\ ~cgi /\ len >= 0 /\ received >= len
  /\ Streaming => received >= len
  /\ sendingBody /\ link # "closed" => cgi \/ disconAfterSent
  /\ link # "closed" =>
       IF Streaming THEN LastMark(produced) \in {"head", "data"}
       ELSE disconAfterSent \/ LastMark(produced) = "end"

Excused == early \/ (Overrun /\ ~chunked)

FrameInv ==
  /\ link = "closed" => recv = "no" /\ ~inflight
  /\ Excused \/ InStep

LEMMA OutIsFramed ==
  ASSUME OutputOK, FlagsOK, NEW o \in Outcomes(TRUE), Framed(produced), sendingBody => cgi,
         sendingBody \/ o.out # << >>,
         IF sendingBody THEN LastMark(produced) \in {"head", "data"} ELSE LastMark(produced) = "end"
  PROVE  /\ BodyAfter(o.out)
         /\ Framed(produced \o o.out) /\ LastMark(produced \o o.out) \in {"head", "data"}
         /\ Framed(produced \o (o.out \o Terminator(TRUE)))
         /\ LastMark(produced \o (o.out \o Terminator(TRUE))) = "end"
<1> DEFINE p == produced
           l == LastMark(produced)
           q == p \o o.out
<1>0. p \in Seq(Marks) /\ Framed(p) /\ o.out \in Seq(Marks)
  BY OutcomesType DEF OutputOK
<1>1. "head" \in Marks /\ "data" \in Marks /\ "end" \in Marks
  BY DEF Marks
<1>2. BodyAfter(o.out) /\ Framed(q) /\ LastMark(q) \in {"head", "data"}
  <2>1. CASE sendingBody
    <3>1. o.out \in {<<"data">>, << >>} /\ BodyAfter(o.out)
      BY <2>1 DEF Outcomes, Call, BodyAfter
    <3>2. l \in {"head", "data"} /\ MayFollow(l, "data")
      BY <2>1 DEF MayFollow
    <3>3. p \o << >> = p /\ Framed(p \o <<"data">>) /\ LastMark(p \o <<"data">>) = "data"
      BY <1>0, <1>1, <3>2, FramedJoin
    <3> QED
      BY <1>0, <3>1, <3>2, <3>3
  <2>2. CASE ~sendingBody
    <3>1. o.out \in {<<"head">>, <<"head", "data">>}
      BY <2>2 DEF Outcomes, Call
    <3>2. MayFollow(l, "head") /\ MayFollow("head", "data")
      BY <2>2 DEF MayFollow
    <3>3. BodyAfter(o.out)
      BY <3>1 DEF BodyAfter, Range
    <3>4. Framed(p \o <<"head">>) /\ LastMark(p \o <<"head">>) = "head"
      BY <1>0, <1>1, <3>2, FramedJoin
    <3>5. Framed(p \o <<"head", "data">>) /\ LastMark(p \o <<"head", "data">>) = "data"
      BY <1>0, <1>1, <3>2, FramedJoin
    <3> QED
      BY <3>1, <3>3, <3>4, <3>5
  <2> QED
    BY <2>1, <2>2 DEF FlagsOK
<1>3. q \in Seq(Marks)
  BY <1>0, JoinAssociative
<1>4. Framed(q \o <<"end">>) /\ LastMark(q \o <<"end">>) = "end"
  <2> HIDE DEF q
  <2>1. MayFollow(LastMark(q), "end")
    BY <1>2 DEF MayFollow
  <2> QED
    BY <1>1, <1>2, <1>3, <2>1, FramedJoin
<1>5. q \o <<"end">> = p \o (o.out \o <<"end">>)
  <2> DEFINE r == o.out
             e == <<"end">>
  <2>1. e \in Seq(Marks) /\ r \in Seq(Marks)
    BY <1>0, <1>1
  <2>2. (p \o r) \o e = p \o (r \o e)
    <3> HIDE DEF p, r, e
    <3> QED
      BY <1>0, <2>1, JoinAssociative
  <2> QED
    BY <2>2
<1> QED
  BY <1>2, <1>4, <1>5 DEF Terminator

LEMMA CallKeepsFrame ==
  ASSUME ConnInv, InStep, ~early, link # "closed", link' = link, len >= 0, ~disconAfterSent,
         recv' \in {"byte", "no"}, RunCgi
  PROVE  early' \/ InStep'
<1> USE DEF ConnInv
<1>1. PICK o \in Outcomes(received >= len), made \in Seq(Marks), flush \in BOOLEAN :
         /\ o.out \in Seq(Marks) /\ o.done \in BOOLEAN
         /\ early' = (early \/ (o.done /\ received < len))
         /\ mute' = (mute \/ (o.done /\ o.out = << >>))
         /\ Ended(o.out, o.done, made, flush)
  BY CallEnds
<1>2. produced' = produced \o made
  BY <1>1 DEF Ended, Emit
<1>3. sendingBody => cgi
  BY DEF InStep
<1>4. len \in Int /\ received \in Int
  BY DEF CountsOK
<1>5. CASE received < len
  <2>1. o \in Outcomes(FALSE)
    <3>1. (received >= len) = FALSE
      BY <1>4, <1>5
    <3> QED
      BY <3>1
  <2>2. ~sendingBody
    BY <1>3, <1>4, <1>5 DEF InStep, Streaming
  <2>3. o.done \/ o.out = << >>
    BY <2>1 DEF Outcomes, Call
  <2>4. CASE o.done
    BY <1>1, <1>5, <2>4
  <2>5. CASE ~o.done
    <3>1. o.out = << >> /\ made = << >>
      BY <1>1, <2>3, <2>5 DEF Ended
    <3>2. produced' = produced
      BY <1>2, <3>1, JoinAssociative DEF OutputOK
    <3>3. ~BodyAfter(<< >>)
      BY <2>2 DEF BodyAfter, Range
    <3>4. cgi' = TRUE /\ ~sendingBody' /\ UNCHANGED <<len, received, chunked, disconAfterSent>>
      BY <1>1, <2>5, <3>1, <3>3 DEF Ended
    <3> QED
      BY <1>4, <2>2, <3>2, <3>4 DEF InStep, Streaming
  <2> QED
    BY <1>1, <2>4, <2>5
<1>6. CASE received >= len
  <2>1. o \in Outcomes(TRUE)
    <3>1. (received >= len) = TRUE
      BY <1>4, <1>6
    <3> QED
      BY <3>1
  <2>2. IF sendingBody THEN LastMark(produced) \in {"head", "data"} ELSE LastMark(produced) = "end"
    BY <1>3 DEF InStep, Streaming
  <2> SUFFICES ASSUME sendingBody \/ o.out # << >> PROVE early' \/ InStep'
    <3> SUFFICES ASSUME ~sendingBody, o.out = << >> PROVE InStep'
      OBVIOUS
    <3>1. o.done
      <4>1. <<"head">> # << >> /\ <<"head", "data">> # << >>
        OBVIOUS
      <4>2. \/ \E out \in {<<"head">>, <<"head", "data">>}, done \in BOOLEAN : o = Call(out, done)
            \/ o = Call(<< >>, TRUE)
        BY <2>1, Zenon DEF Outcomes
      <4>3. ASSUME NEW out \in {<<"head">>, <<"head", "data">>}, NEW done \in BOOLEAN,
                   o = Call(out, done)
            PROVE  FALSE
        <5>1. o.out = out
          BY <4>3 DEF Call
        <5> QED
          BY <4>1, <5>1
      <4>4. o = Call(<< >>, TRUE)
        BY <4>2, <4>3
      <4> QED
        BY <4>4 DEF Call
    <3>2. BodyAfter(o.out) = FALSE
      BY DEF BodyAfter, Range
    <3>3. made = << >>
      <4>1. Terminator(FALSE) = << >> /\ << >> \o << >> = << >>
        BY DEF Terminator
      <4>2. made = o.out \/ made = o.out \o Terminator(FALSE)
        BY <1>1, <3>2 DEF Ended
      <4> QED
        BY <4>1, <4>2
    <3>4. produced' = produced
      BY <1>2, <3>3, JoinAssociative DEF OutputOK
    <3>5. Framed(produced') /\ LastMark(produced') = "end"
      BY <2>2, <3>4 DEF InStep
    <3>6. CASE chunked
      <4>1. cgi' = FALSE /\ len' = -1 /\ received' = 0 /\ chunked' = FALSE /\ sendingBody' = FALSE
            /\ disconAfterSent' = FALSE
        BY <1>1, <3>1, <3>6 DEF Ended, ReadyForNext
      <4> QED
        BY <3>5, <4>1 DEF InStep, Streaming
    <3>7. CASE ~chunked
      <4>1. cgi' = FALSE /\ disconAfterSent' = TRUE /\ ~sendingBody'
            /\ UNCHANGED <<len, received, chunked>>
        BY <1>1, <3>1, <3>2, <3>7 DEF Ended
      <4> QED
        BY <1>4, <1>6, <3>5, <3>7, <4>1 DEF InStep, Streaming
    <3> QED
      BY <3>6, <3>7
  <2>3. /\ BodyAfter(o.out)
        /\ Framed(produced \o o.out) /\ LastMark(produced \o o.out) \in {"head", "data"}
        /\ Framed(produced \o (o.out \o Terminator(TRUE)))
        /\ LastMark(produced \o (o.out \o Terminator(TRUE))) = "end"
    BY <1>3, <2>1, <2>2, OutIsFramed DEF InStep
  <2>4. BodyAfter(o.out) = TRUE
    BY <2>3 DEF BodyAfter
  <2>5. CASE o.done /\ chunked
    <3>1. made = o.out \o Terminator(TRUE)
      BY <1>1, <2>4, <2>5 DEF Ended
    <3>2. Framed(produced') /\ LastMark(produced') = "end"
      BY <1>2, <2>3, <3>1
    <3>3. cgi' = FALSE /\ len' = -1 /\ received' = 0 /\ chunked' = FALSE /\ sendingBody' = FALSE
          /\ disconAfterSent' = FALSE
      BY <1>1, <2>5 DEF Ended, ReadyForNext
    <3> QED
      BY <3>2, <3>3 DEF InStep, Streaming
  <2>6. CASE o.done /\ ~chunked
    <3>1. Framed(produced') /\ LastMark(produced') \in {"head", "data"}
      BY <1>1, <1>2, <2>3, <2>6 DEF Ended
    <3>2. cgi' = FALSE /\ disconAfterSent' = TRUE /\ UNCHANGED <<len, received, chunked>>
      BY <1>1, <2>6 DEF Ended
    <3> QED
      BY <1>4, <1>6, <2>6, <3>1, <3>2 DEF InStep, Streaming
  <2>7. CASE ~o.done
    <3>1. Framed(produced') /\ LastMark(produced') \in {"head", "data"}
      BY <1>1, <1>2, <2>3, <2>7 DEF Ended
    <3>2. cgi' = TRUE /\ sendingBody' = TRUE /\ UNCHANGED <<len, received, chunked, disconAfterSent>>
      BY <1>1, <2>4, <2>7 DEF Ended
    <3> QED
      BY <1>4, <1>6, <3>1, <3>2 DEF InStep, Streaming
  <2> QED
    BY <1>1, <2>5, <2>6, <2>7 DEF FlagsOK
<1> QED
  BY <1>4, <1>5, <1>6

\* What a call leaves excused.
LEMMA CallStaysExcused ==
  ASSUME ConnInv, Excused, RunCgi
  PROVE  Excused'
<1> USE DEF ConnInv
<1>1. PICK o \in Outcomes(received >= len), made \in Seq(Marks), flush \in BOOLEAN :
         /\ o.out \in Seq(Marks) /\ o.done \in BOOLEAN
         /\ early' = (early \/ (o.done /\ received < len))
         /\ mute' = (mute \/ (o.done /\ o.out = << >>))
         /\ Ended(o.out, o.done, made, flush)
  BY CallEnds
<1>2. CASE early
  BY <1>1, <1>2 DEF Excused
<1>3. CASE Overrun /\ ~chunked
  <2>1. UNCHANGED <<len, received, chunked>>
    BY <1>1, <1>3 DEF Ended
  <2> QED
    BY <1>3, <2>1 DEF Excused, Overrun
<1> QED
  BY <1>2, <1>3 DEF Excused

LEMMA FrameReceiving ==
  ASSUME ConnInv, FrameInv, RecvBegin \/ RecvHead \/ RecvPost \/ RecvStray
  PROVE  FrameInv'
<1> USE DEF ConnInv, MaySend, Receiving
<1>0. len \in Int /\ received \in Nat /\ (len < 0 => len = -1)
  BY DEF CountsOK
<1>1. CASE RecvBegin
  <2>1. UNCHANGED <<link, inflight, len, received, cgi, chunked, sendingBody, disconAfterSent,
                    produced, early>> /\ recv' = "first" /\ link = "open"
    BY <1>1 DEF RecvBegin, parser, flags
  <2> QED
    BY <2>1 DEF FrameInv, Excused, Overrun, InStep, Streaming
<1>2. CASE RecvHead
  <2>1. /\ UNCHANGED <<link, inflight, received, cgi, sendingBody, disconAfterSent, produced, early>>
        /\ len < 0 /\ recv' \in {"call", "byte"} /\ recv # "no"
        /\ len' = Head(toSend).request.body
    BY <1>2 DEF RecvHead, output
  <2>2. len' >= 0 /\ len' \in Int
    <3>1. Head(toSend) \in ItemType
      BY <1>2, SendTail DEF RecvHead, CountsOK
    <3>2. Head(toSend).request.body \in Nat
      BY <3>1 DEF ItemType, RequestType
    <3> QED
      BY <2>1, <3>2
  <2>3. CASE early
    BY <2>1, <2>3 DEF FrameInv, Excused
  <2>4. CASE ~early
    <3>1. ~Overrun
      BY <1>0, <2>1 DEF Overrun
    <3>2. InStep
      BY <2>4, <3>1 DEF FrameInv, Excused
    <3>3. ~cgi /\ ~sendingBody /\ ~disconAfterSent
      BY <1>0, <2>1, <3>2 DEF InStep
    <3>4. InStep'
      BY <1>0, <2>1, <2>2, <3>2, <3>3 DEF InStep, Streaming
    <3> QED
      BY <2>1, <3>4 DEF FrameInv
  <2> QED
    BY <2>3, <2>4
<1>3. CASE RecvPost
  <2>1. /\ UNCHANGED <<link, inflight, len, cgi, chunked, sendingBody, disconAfterSent, produced, early>>
        /\ len > 0 /\ recv' \in {"call", "byte"} /\ recv # "no" /\ received' = received + 1
    BY <1>3 DEF RecvPost, output, flags
  <2>2. Excused => Excused'
    BY <1>0, <2>1 DEF Excused, Overrun
  <2>3. ASSUME InStep PROVE Excused' \/ InStep'
    <3>1. CASE disconAfterSent
      <4>1. ~chunked /\ received >= len
        BY <2>3, <3>1 DEF InStep
      <4> QED
        BY <1>0, <2>1, <4>1 DEF Excused, Overrun
    <3>2. CASE ~disconAfterSent
      BY <1>0, <2>1, <2>3, <3>2 DEF InStep, Streaming
    <3> QED
      BY <3>1, <3>2
  <2> QED
    BY <2>1, <2>2, <2>3 DEF FrameInv
<1>4. CASE RecvStray
  <2>1. /\ UNCHANGED <<link, inflight, len, received, cgi, chunked, sendingBody, disconAfterSent,
                       produced, early>>
        /\ recv' = "byte" /\ recv # "no"
    BY <1>4 DEF RecvStray, output, flags
  <2> QED
    BY <2>1 DEF FrameInv, Excused, Overrun, InStep, Streaming
<1> QED
  BY <1>1, <1>2, <1>3, <1>4

LEMMA FrameCalling ==
  ASSUME ConnInv, FrameInv, RecvEnd \/ RecvCall \/ SentCall
  PROVE  FrameInv'
<1> USE DEF ConnInv
<1>0. len \in Int /\ (len < 0 => len = -1)
  BY DEF CountsOK
<1>1. CASE RecvEnd
  <2>1. /\ UNCHANGED <<link, len, received, cgi, chunked, sendingBody, disconAfterSent, early>>
        /\ recv = "byte" /\ recv' = "no" /\ produced' = produced \o << >>
    BY <1>1 DEF RecvEnd, Emit, parser, flags
  <2>2. produced' = produced
    BY <2>1, JoinAssociative DEF OutputOK
  <2>3. link # "closed"
    BY <2>1 DEF FrameInv
  <2> QED
    BY <2>1, <2>2, <2>3 DEF FrameInv, Excused, Overrun, InStep, Streaming
<1>2. CASE RecvCall
  <2>1. recv = "call" /\ recv' = "byte" /\ link' = link
    BY <1>2 DEF RecvCall
  <2>2. link # "closed"
    BY <2>1 DEF FrameInv
  <2>3. CASE RunCgi
    <3>1. CASE Excused
      BY <2>1, <2>2, <2>3, <3>1, CallStaysExcused DEF FrameInv
    <3>2. CASE ~Excused
      <4>1. InStep /\ ~early
        BY <3>2 DEF FrameInv, Excused
      <4>2. len >= 0 /\ ~disconAfterSent
        BY <2>1, <4>1 DEF InStep
      <4>3. early' \/ InStep'
        BY <2>1, <2>2, <2>3, <4>1, <4>2, CallKeepsFrame
      <4> QED
        BY <2>1, <2>2, <4>3 DEF FrameInv, Excused
    <3> QED
      BY <3>1, <3>2
  <2>4. CASE UNCHANGED <<len, received, cgi, calls, flags, output, early, mute>>
    BY <2>1, <2>2, <2>4 DEF FrameInv, Excused, Overrun, InStep, Streaming, flags, output
  <2> QED
    BY <1>2, <2>3, <2>4 DEF RecvCall
<1>3. CASE SentCall
  <2>1. recv = "sent" /\ recv' = "no" /\ link' = link /\ RunCgi
    BY <1>3 DEF SentCall
  <2>2. link # "closed"
    BY <2>1 DEF FrameInv
  <2>3. CASE Excused
    BY <2>1, <2>2, <2>3, CallStaysExcused DEF FrameInv
  <2>4. CASE ~Excused
    <3>1. InStep /\ ~early
      BY <2>4 DEF FrameInv, Excused
    <3>2. len >= 0 /\ ~disconAfterSent
      BY <1>0, <2>1, <3>1 DEF InStep
    <3>3. early' \/ InStep'
      BY <2>1, <2>2, <3>1, <3>2, CallKeepsFrame
    <3> QED
      BY <2>1, <2>2, <3>3 DEF FrameInv, Excused
  <2> QED
    BY <2>3, <2>4
<1> QED
  BY <1>1, <1>2, <1>3

LEMMA FrameSending ==
  ASSUME ConnInv, FrameInv, SentBacklog \/ SentClose \/ SentIdle \/ SentMore \/ httpdDisconCb
  PROVE  FrameInv'
<1> USE DEF ConnInv
<1>1. CASE SentBacklog \/ SentClose \/ SentIdle
  <2>1. /\ UNCHANGED <<recv, len, received, cgi, chunked, sendingBody, disconAfterSent, produced, early>>
        /\ inflight /\ link' \in {link, "closing"}
    BY <1>1 DEF SentBacklog, SendBacklog, SentClose, SentIdle, parser, flags
  <2>2. link # "closed"
    BY <2>1 DEF FrameInv
  <2> QED
    BY <2>1, <2>2 DEF FrameInv, Excused, Overrun, InStep, Streaming
<1>2. CASE SentMore
  <2>1. /\ UNCHANGED <<link, len, received, cgi, chunked, sendingBody, disconAfterSent, produced, early>>
        /\ inflight /\ recv' = "sent" /\ ~disconAfterSent /\ cgi
    BY <1>2 DEF SentMore, parser, flags
  <2>2. link # "closed"
    BY <2>1 DEF FrameInv
  <2> QED
    BY <2>1, <2>2 DEF FrameInv, Excused, Overrun, InStep, Streaming
<1>3. CASE httpdDisconCb
  <2>1. /\ UNCHANGED <<recv, len, received, chunked, sendingBody, disconAfterSent, produced, early>>
        /\ recv = "no" /\ link' = "closed" /\ cgi' = FALSE /\ inflight' = FALSE
    BY <1>3 DEF httpdDisconCb, parser, flags
  <2> QED
    BY <2>1 DEF FrameInv, Excused, Overrun, InStep, Streaming
<1> QED
  BY <1>1, <1>2, <1>3

LEMMA FrameInit == Init => FrameInv
<1> SUFFICES ASSUME Init PROVE FrameInv
  OBVIOUS
<1>1. /\ link = "open" /\ recv = "no" /\ len = -1 /\ cgi = FALSE /\ chunked = FALSE
      /\ sendingBody = FALSE /\ disconAfterSent = FALSE /\ produced = << >>
  BY DEF Init
<1>2. Framed(produced) /\ LastMark(produced) = "end"
  BY <1>1 DEF Framed, LastMark
<1> QED
  BY <1>1, <1>2 DEF FrameInv, InStep, Streaming

LEMMA FrameStutter == FrameInv /\ UNCHANGED vars => FrameInv'
BY DEF FrameInv, Excused, Overrun, InStep, Streaming, vars, parser, flags, output

LEMMA FrameStep == ConnInv /\ FrameInv /\ [Next]_vars => FrameInv'
<1> SUFFICES ASSUME ConnInv, FrameInv, [Next]_vars PROVE FrameInv'
  OBVIOUS
<1>1. CASE UNCHANGED vars
  BY <1>1, FrameStutter
<1>2. CASE RecvBegin \/ RecvHead \/ RecvPost \/ RecvStray
  BY <1>2, FrameReceiving
<1>3. CASE RecvEnd \/ RecvCall \/ SentCall
  BY <1>3, FrameCalling
<1>4. CASE SentBacklog \/ SentClose \/ SentIdle \/ SentMore \/ httpdDisconCb
  BY <1>4, FrameSending
<1> QED
  BY <1>1, <1>2, <1>3, <1>4 DEF Next, httpdRecvCb, httpdSentCb

\* Every response the server produces is a head, then its body, and, chunked,
\* exactly one end, and the next starts only behind it, however the requests are
\* cut and whichever callback calls the CGI: unless a CGI answered before its POST
\* was complete, or a client sent more than the POST it announced.
THEOREM ResponsesAreFramed == Spec => []WellFramed
<1>1. ConnInv /\ FrameInv => WellFramed
  BY DEF FrameInv, Excused, InStep, Framed, WellFramed
<1> QED
  BY <1>1, ConnInit, ConnStep, FrameInit, FrameStep, PTL DEF Spec
=============================================================================
