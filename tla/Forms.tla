-------------------------------- MODULE Forms --------------------------------
(* The form fields of a request (libesphttpd/core/httpd.c): httpdFindArg     *)
(* looks a name up in a line of name=value pairs and httpdUrlDecode undoes   *)
(* the browser's encoding, into a buffer of limited room.  A line is a       *)
(* sequence of characters; hexadecimal digits are the characters "0" .. "F".  *)
EXTENDS Integers, SequencesExt

CONSTANTS
  Names,     \* of fields
  Values,    \* that users type
  Pairs,     \* bound: how many a form has
  Rooms      \* sizes of buffers

VARIABLES form, arg, room, buff

vars == <<form, arg, room, buff>>

NotFound == <<"-1">>
Unread == <<"?">>

\* The escapes of the characters that have a meaning in a line.
Escapes == [c \in {"&", "=", "%", "+"} |->
  CASE c = "&" -> <<"2", "6">> [] c = "=" -> <<"3", "D">>
    [] c = "%" -> <<"2", "5">> [] c = "+" -> <<"2", "B">>]

\* httpdHexVal of both digits.
Escaped(high, low) == CHOOSE c \in DOMAIN Escapes : Escapes[c] = <<high, low>>

\* What httpdUrlDecode has given; esced is 1 after a "%" and 2 after its first
\* digit, which high keeps.
State(ret, esced, high) == [ret |-> ret, esced |-> esced, high |-> high]

\* One round of its loop.
Decode(st, c) ==
  IF st.esced = 1 THEN State(st.ret, 2, c)
  ELSE IF st.esced = 2 THEN State(Append(st.ret, Escaped(st.high, c)), 0, st.high)
  ELSE IF c = "%" THEN State(st.ret, 1, st.high)
  ELSE State(Append(st.ret, IF c = "+" THEN " " ELSE c), 0, st.high)

\* The rounds, one for each character while there is room.
Decoding(val, retLen) ==
  LET at[s \in 0 .. Len(val)] ==
        IF s = 0 THEN State(<<>>, 0, "0")
        ELSE IF Len(at[s - 1].ret) < retLen THEN Decode(at[s - 1], val[s])
        ELSE at[s - 1]
  IN at

httpdUrlDecode(val, retLen) == Decoding(val, retLen)[Len(val)].ret

\* strstr(p, "&"): where it is, or the end of the line.
AmpAt(line, p) == Min({i \in p .. Len(line) : line[i] = "&"} \cup {Len(line) + 1})

\* Where httpdFindArg looks for the name: p at the start, then after each "&".
FieldStarts(line) == {p \in 1 .. Len(line) : p = 1 \/ line[p - 1] = "&"}

\* A mutant: the name need only begin the field.
BeginsAt(line, p, name) ==
  p + Len(name) <= Len(line) /\ SubSeq(line, p, p + Len(name) - 1) = name
FieldAt(line, p, name) ==
  /\ p + Len(name) <= Len(line) /\ SubSeq(line, p, p + Len(name) - 1) = name
  /\ line[p + Len(name)] = "="

httpdFindArg(line, name, buffLen) ==
  LET at == {p \in FieldStarts(line) : FieldAt(line, p, name)} IN
  IF at = {} THEN NotFound
  ELSE LET p == Min(at) + Len(name) + 1
       IN httpdUrlDecode(SubSeq(line, p, AmpAt(line, p) - 1), buffLen)
-----------------------------------------------------------------------------
\* How a browser writes a character, a value, a field and a form.
Written(c) ==
  IF c = " " THEN <<"+">>
  ELSE IF c \in DOMAIN Escapes THEN <<"%", Escapes[c][1], Escapes[c][2]>>
  ELSE <<c>>

Encoded(value) == FlattenSeq([i \in 1 .. Len(value) |-> Written(value[i])])

Field(i, pair) ==
  (IF i = 1 THEN <<>> ELSE <<"&">>) \o pair.name \o <<"=">> \o Encoded(pair.value)

Line(pairs) == FlattenSeq([i \in 1 .. Len(pairs) |-> Field(i, pairs[i])])

Init ==
  /\ form \in UNION {[1 .. n -> [name : Names, value : Values]] : n \in 0 .. Pairs}
  /\ arg \in Names /\ room \in Rooms /\ buff = Unread

\* A CGI reads a field.
Read ==
  /\ buff = Unread
  /\ buff' = httpdFindArg(Line(form), arg, room)
  /\ UNCHANGED <<form, arg, room>>

\* It has read it.
HasRead == buff # Unread /\ UNCHANGED vars

Next == Read \/ HasRead
-----------------------------------------------------------------------------
\* What a CGI finds for a name is what was typed into the first field of that
\* name, as much of it as has room, whatever characters it is made of and even
\* if one name begins another (libesphttpd/core/httpd.c:146-197).
FieldReadsBack ==
  LET at == {i \in DOMAIN form : form[i].name = arg} IN
  buff # Unread =>
    buff = IF at = {} THEN NotFound
           ELSE LET v == form[Min(at)].value
                IN SubSeq(v, 1, IF Len(v) < room THEN Len(v) ELSE room)
=============================================================================
