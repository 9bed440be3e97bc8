------------------------------- MODULE EspFs --------------------------------
(***************************************************************************)
(* The read-only file system of the web pages, from end to end:            *)
(* espfs/mkespfsimage/main.c packs files into an image, espfs/espfs.c      *)
(* finds and reads them in flash, core/httpdespfs.c sends them, as they    *)
(* are (cgiEspFsHook) or with tokens filled in (cgiEspFsTemplate).  Bytes  *)
(* are numbers; a header is one item that takes HeaderSize bytes.  zlib is  *)
(* external: what it makes of a file is given with the file.               *)
(***************************************************************************)
LOCAL INSTANCE Integers
LOCAL INSTANCE Sequences
LOCAL INSTANCE FiniteSetsExt
LOCAL INSTANCE SequencesExt
LOCAL INSTANCE Functions
LOCAL INSTANCE BitStrings

CONSTANTS WindowBits, LookaheadBits, PushBits, GetBits,
          Archives,   \* lists of files [path, data, zipped]; zipped is <<>> when the
                      \* extension is none of gzipExtensions
          Requests,   \* [url, cgi, accepts]: accepts is what strstr finds
          BufferLen,  \* input buffer of the decoder, and ebuff (16)
          ReadLen,    \* bytes a CGI reads at a time (1024)
          TokenMax    \* longest token (63)

VARIABLES hse, hsd, oi,
          files,    \* the archive
          todo,     \* files mkespfsimage has still to handle
          step,     \* where mkespfsimage is, and then the server
          inp,      \* input of compressHeatshrink not sunk yet
          out,      \* its output behind the byte of parameters
          heads,    \* the image: headers by their offset
          bytes,    \* the image: everything else, 0 where a header is
          request,  \* the request being answered
          fh,       \* the open EspFsFile
          buff,     \* what this call of espFsRead has read
          token,    \* tpd->token up to tokenPos, or NoToken (tokenPos is -1)
          status,   \* status of the answer, 0 when there is none
          sent      \* what the answer's body says, text and tokens

packer == <<files, todo, inp, out, heads, bytes>>
server == <<request, fh, buff, token, status, sent>>
vars == <<hse, hsd, oi, step, packer, server>>

Enc == INSTANCE HeatshrinkEncoder
Dec == INSTANCE HeatshrinkDecoder

HeaderSize == 16
Percent == 37
NoFile == [at |-> -1]
NoToken == <<-1>>
NoRequest == [url |-> <<>>, cgi |-> "none", accepts |-> FALSE]

Init ==
  /\ files \in Archives /\ todo = files
  /\ hse = Enc!Fresh /\ hsd = Dec!Fresh(BufferLen) /\ oi = Enc!NoPoll
  /\ step = "file" /\ inp = <<>> /\ out = <<>>
  /\ heads = <<>> /\ bytes = <<>>
  /\ request = NoRequest /\ fh = NoFile /\ buff = <<>>
  /\ token = NoToken /\ status = 0 /\ sent = <<>>
-----------------------------------------------------------------------------
(* mkespfsimage.                                                            *)

File == Head(todo)
Size == Len(File.data)
Gzips == File.zipped # <<>>

\* The next name of the list; what is not to be gzipped goes through heatshrink.
TakeFile ==
  /\ step = "file" /\ todo # <<>>
  /\ hse' = Enc!Fresh
  /\ inp' = File.data /\ out' = <<>>
  /\ step' = IF Gzips THEN "write" ELSE "sink"
  /\ UNCHANGED <<hsd, oi, files, todo, heads, bytes, server>>

CompressSink ==
  /\ step = "sink"
  /\ IF inp = <<>> THEN UNCHANGED <<hse, oi>> ELSE Enc!Sink(inp)
  /\ inp' = SubSeq(inp, Enc!Taken(Len(inp)) + 1, Len(inp))
  /\ step' = IF inp # <<>> /\ inp' = <<>> THEN "finish" ELSE "poll"
  /\ UNCHANGED <<hsd, files, todo, out, heads, bytes, server>>

CompressFinish ==
  /\ step = "finish" /\ Enc!Finish
  /\ step' = "poll"
  /\ UNCHANGED <<hsd, packer, server>>

\* The output has room for twice the file; without room the poll is an error,
\* which ends the inner loop.
OutRoom == 2 * Size - 1 - Len(out)

CompressPoll ==
  /\ step = "poll"
  /\ IF OutRoom <= 0
     THEN UNCHANGED <<hse, oi>> /\ step' = IF inp = <<>> THEN "write" ELSE "sink"
     ELSE Enc!Poll(OutRoom) /\ step' = "polling"
  /\ UNCHANGED <<hsd, packer, server>>

CompressStep ==
  /\ step = "polling" /\ Enc!Step
  /\ UNCHANGED <<hsd, step, packer, server>>

CompressPolled ==
  /\ step = "polling" /\ oi.res # "busy"
  /\ out' = out \o [i \in DOMAIN oi.buf |-> Number(oi.buf[i])]
  /\ step' = IF oi.res = "MORE" THEN "poll" ELSE IF inp = <<>> THEN "write" ELSE "sink"
  /\ UNCHANGED <<hse, hsd, oi, files, todo, inp, heads, bytes, server>>

\* What goes into the image: as compressed, unless that made it longer.
Stored ==
  LET packed == IF Gzips THEN File.zipped ELSE <<16 * WindowBits + LookaheadBits>> \o out
  IN IF Len(packed) > Size THEN [compression |-> "none", gzip |-> FALSE, data |-> File.data]
     ELSE IF Gzips THEN [compression |-> "none", gzip |-> TRUE, data |-> packed]
     ELSE [compression |-> "heatshrink", gzip |-> FALSE, data |-> packed]

RoundUp(n) == 4 * ((n + 3) \div 4)
Zeros(n) == [i \in 1 .. n |-> 0]
Padded(s) == s \o Zeros(RoundUp(Len(s)) - Len(s))

\* Strips "./" or "/".
RealName(path) ==
  LET name == IF path[1] = 46 THEN Tail(path) ELSE path
  IN IF name[1] = 47 THEN Tail(name) ELSE name

\* handleFile, which ends with a division by the size: of an empty file it kills the
\* program or not, as the machine has it.
WriteFile ==
  /\ step = "write"
  /\ LET name == RealName(File.path) \o <<0>>
     IN /\ heads' = heads @@ (Len(bytes) :>
              [last |-> FALSE, gzip |-> Stored.gzip, compression |-> Stored.compression,
               nameLen |-> RoundUp(Len(name)), comp |-> Len(Stored.data), decomp |-> Size])
        /\ bytes' = bytes \o Zeros(HeaderSize) \o Padded(name) \o Padded(Stored.data)
  /\ todo' = Tail(todo)
  /\ step' \in {"file"} \cup (IF Size = 0 THEN {"killed"} ELSE {})
  /\ UNCHANGED <<hse, hsd, oi, files, inp, out, server>>

finishArchive ==
  /\ step = "file" /\ todo = <<>>
  /\ heads' = heads @@ (Len(bytes) :>
       [last |-> TRUE, gzip |-> FALSE, compression |-> "none", nameLen |-> 0, comp |-> 0,
        decomp |-> 0])
  /\ bytes' = bytes \o Zeros(HeaderSize)
  /\ step' = "idle"
  /\ UNCHANGED <<hse, hsd, oi, files, todo, inp, out, server>>

Pack ==
  \/ TakeFile \/ CompressSink \/ CompressFinish \/ CompressPoll \/ CompressStep
  \/ CompressPolled \/ WriteFile \/ finishArchive
-----------------------------------------------------------------------------
(* espfs.c, called by a CGI function.                                       *)

\* The first call of the CGI: espFsOpen starts at the front of the image.
Ask ==
  /\ step = "idle"
  /\ request' \in Requests
  /\ fh' = [at |-> 0]
  /\ buff' = <<>> /\ token' = NoToken /\ status' = 0 /\ sent' = <<>>
  /\ step' = "open"
  /\ UNCHANGED <<hse, hsd, oi, packer>>

At(p, n) == [i \in 1 .. n |-> bytes[p + i]]

\* Without the slashes in front.
Sought ==
  LET rest == {i \in DOMAIN request.url : request.url[i] # 47}
  IN IF rest = {} THEN <<>> ELSE SubSeq(request.url, Min(rest), Len(request.url))

Named(p, name) == \A i \in 1 .. Len(name) + 1 : bytes[p + i] = (name \o <<0>>)[i]

\* Mutated form: the next header is looked for right behind the file.
AfterFile(p, h) == p + HeaderSize + h.nameLen + h.comp

\* Offset of the next header.
Behind(p, h) == RoundUp(p + HeaderSize + h.nameLen + h.comp)

Header == heads[fh.at]
Close == fh' = NoFile

\* The answer to an opened file, or an end without one.
Opened ==
  IF Header.gzip /\ (request.cgi = "template" \/ ~request.accepts)
  THEN /\ status' = IF request.cgi = "template" THEN 404 ELSE 501
       /\ Close /\ step' = "idle" /\ UNCHANGED hsd
  ELSE LET start == fh.at + HeaderSize + Header.nameLen
           skip == IF Header.compression = "heatshrink" THEN 1 ELSE 0
       IN /\ fh' = [at |-> fh.at, posStart |-> start, posComp |-> start + skip,
                    posDecomp |-> 0, drained |-> FALSE]
          /\ hsd' = Dec!Fresh(BufferLen)
          /\ status' = 200 /\ step' = "cgi"

\* One header of espFsOpen's walk.
espFsOpen ==
  /\ step = "open"
  /\ IF fh.at \notin DOMAIN heads \/ Header.last
     THEN status' = 404 /\ Close /\ step' = "idle" /\ UNCHANGED hsd
     ELSE IF Named(fh.at + HeaderSize, Sought) THEN Opened
     ELSE fh' = [at |-> Behind(fh.at, Header)] /\ UNCHANGED <<hsd, status, step>>
  /\ UNCHANGED <<hse, oi, packer, request, buff, token, sent>>

\* The next call of the CGI, which reads; or the connection is gone and it cleans up.
CallCgi ==
  /\ step = "cgi"
  /\ buff' = <<>>
  /\ \/ step' = "read" /\ UNCHANGED fh
     \/ step' = "idle" /\ Close
  /\ status' = IF step' = "read" THEN status ELSE 0
  /\ UNCHANGED <<hse, hsd, oi, packer, request, token, sent>>

Left == Header.comp - (fh.posComp - fh.posStart)

espFsReadPlain ==
  /\ step = "read" /\ Header.compression = "none"
  /\ LET n == Min({ReadLen, Left})
     IN buff' = At(fh.posComp, n) /\ fh' = [fh EXCEPT !.posComp = @ + n, !.posDecomp = @ + n]
  /\ step' = "got"
  /\ UNCHANGED <<hse, hsd, oi, packer, request, token, status, sent>>

\* One round of the loop: feeds the decoder, until nothing is left ...
espFsReadFeed ==
  /\ step = "read" /\ Header.compression = "heatshrink"
  /\ IF buff = <<>> /\ fh.posDecomp = Header.decomp
     THEN step' = "got" /\ UNCHANGED <<hsd, oi, fh>>
     ELSE LET n == Min({Left, BufferLen})
              data == [i \in 1 .. n |-> Bits(bytes[fh.posComp + i], 8)]
          IN /\ IF n > 0 THEN Dec!Sink(data) ELSE UNCHANGED <<hsd, oi>>
             /\ fh' = [fh EXCEPT !.posComp = @ + (IF n > 0 THEN Dec!Taken(n) ELSE 0),
                                 !.drained = (Left = 0)]
             /\ step' = "decode"
  /\ UNCHANGED <<hse, packer, request, buff, token, status, sent>>

espFsReadPoll ==
  /\ step = "decode" /\ Dec!Poll(ReadLen - Len(buff))
  /\ step' = "decoding"
  /\ UNCHANGED <<hse, packer, server>>

espFsReadStep ==
  /\ step = "decoding" /\ Dec!Step
  /\ UNCHANGED <<hse, step, packer, server>>

\* Mutated form: the loop ends only when the buffer is full.
PolledTillFull == Len(buff) + Len(oi.buf) = ReadLen

\* espFsRead returns when the buffer is full, or after a round with nothing to feed.
PolledAll == fh.drained \/ Len(buff) + Len(oi.buf) = ReadLen

\* ... and takes what it has decoded.
espFsReadPolled ==
  /\ step = "decoding" /\ oi.res # "busy"
  /\ buff' = buff \o oi.buf
  /\ fh' = [fh EXCEPT !.posDecomp = @ + Len(oi.buf)]
  /\ step' = IF PolledAll THEN "got" ELSE "read"
  /\ UNCHANGED <<hse, hsd, oi, packer, request, token, status, sent>>
-----------------------------------------------------------------------------
(* httpdespfs.c, when espFsRead has returned.                               *)

Text(s) == [i \in DOMAIN s |-> <<"text", s[i]>>]

\* A character of the template: what is sent so far, the token being collected.
Scanned(acc, c) ==
  IF acc.token = NoToken
  THEN IF c = Percent THEN [acc EXCEPT !.token = <<>>]
       ELSE [acc EXCEPT !.sent = @ \o Text(<<c>>)]
  ELSE IF c # Percent
  THEN [acc EXCEPT !.token = IF Len(@) < TokenMax THEN Append(@, c) ELSE @]
  ELSE [sent |-> Append(acc.sent, IF acc.token = <<>> THEN <<"text", Percent>>
                                  ELSE <<"token", acc.token>>),
        token |-> NoToken]

\* Mutated form: a token ends with the part it begins in.
ScannedAnew == FoldLeft(Scanned, [sent |-> sent, token |-> NoToken], buff)

\* The template's state after the part in buff.
ScannedPart == FoldLeft(Scanned, [sent |-> sent, token |-> token], buff)

CgiGot ==
  /\ step = "got"
  /\ IF request.cgi = "hook"
     THEN sent' = sent \o Text(buff) /\ UNCHANGED token
     ELSE sent' = ScannedPart.sent /\ token' = ScannedPart.token
  /\ IF Len(buff) = ReadLen THEN step' = "cgi" /\ UNCHANGED fh
     ELSE step' = "idle" /\ Close
  /\ UNCHANGED <<hse, hsd, oi, packer, request, buff, status>>

Serve ==
  \/ espFsOpen \/ espFsReadPlain \/ espFsReadFeed \/ espFsReadPoll \/ espFsReadStep
  \/ espFsReadPolled \/ CgiGot

Next == Pack \/ Ask \/ CallCgi \/ Serve

Spec == Init /\ [][Next]_vars /\ WF_vars(Pack \/ CallCgi \/ Serve)
-----------------------------------------------------------------------------
\* The file of the archive that a request names, by its number, or 0.
Wanted ==
  LET named == {k \in DOMAIN files : RealName(files[k].path) = Sought}
  IN IF named = {} THEN 0 ELSE Min(named)

\* A template split at its percent signs: every second part is a token, the
\* last one only if a sign ends it; an empty one stands for the sign.
Expansion(s) ==
  LET signs == SelectSeq([i \in DOMAIN s |-> i], LAMBDA i : s[i] = Percent)
      marks == <<0>> \o signs \o <<Len(s) + 1>>
      Part(k) == SubSeq(s, marks[k] + 1, marks[k + 1] - 1)
      parts == [k \in 1 .. Len(marks) - 1 |->
                 IF k % 2 = 1 THEN Text(Part(k))
                 ELSE IF k = Len(marks) - 1 THEN <<>>
                 ELSE IF Part(k) = <<>> THEN Text(<<Percent>>)
                 ELSE <<<<"token", SubSeq(Part(k), 1, Min({TokenMax, Len(Part(k))}))>>>>]
  IN FlattenSeq(parts)

Answered == step = "idle" /\ status # 0

\* A file that was packed is found by its name and sent whole, in whatever parts it
\* is sunk, compressed, read and decompressed, with or without compression and at
\* any place in the image; any other name is not found.
ServedWhole ==
  Answered /\ request.cgi = "hook" =>
    IF Wanted = 0 THEN status = 404
    ELSE \/ status = 200 /\ sent = Text(files[Wanted].data)
         \/ /\ Len(files[Wanted].zipped) \in 1 .. Len(files[Wanted].data)
            /\ \/ status = 200 /\ request.accepts /\ sent = Text(files[Wanted].zipped)
               \/ status = 501 /\ ~request.accepts /\ sent = <<>>

\* A template comes out the same wherever the reads cut it: a token, an escaped
\* sign or the text between may begin in one part and end in a later one.
TemplateWhole ==
  Answered /\ request.cgi = "template" /\ status = 200 =>
    Wanted # 0 /\ sent = Expansion(files[Wanted].data)

\* Packing and answering come to an end, unless an empty file kills mkespfsimage:
\* compressHeatshrink runs out of input, the walk over the headers meets the last
\* one, and espFsRead never waits for what will not come.
ServingEnds == (step # "idle") ~> (step \in {"idle", "killed"})
=============================================================================
