---------------------------- MODULE MCFlashImages ----------------------------
(* What goes into the flash, one of three at a time: an upload, with pages   *)
(* of three bytes, sectors of two pages and two sectors for each firmware,   *)
(* a header of three bytes and parts of five; a file through heatshrink and  *)
(* back; the image of an archive, from mkespfsimage to the browser, with     *)
(* reads of four bytes.  The compressor has a window of 16 bytes and matches *)
(* of up to 8, and pushes and pulls numbers in pieces as it does where they  *)
(* are longer than a byte.                                                   *)
EXTENDS Images

Post(k, l1, l2, tag, l) ==
  [kind |-> k, len1 |-> l1, len2 |-> l2, ours |-> tag, len |-> l]

\* Pairs that are whole, cut short, too long behind, of another device or larger
\* than their place; single images up to a byte too large; something else.
MCBodies ==
  {Post("ota", a, b, TRUE, 3 + a + b) : a, b \in 0 .. 14} \cup
  {Post("ota", a, 4, TRUE, 5 + a) : a \in {0, 4, 11}} \cup
  {Post("ota", 4, a, TRUE, 9 + a) : a \in {0, 4, 11}} \cup
  {Post("ota", 4, 4, FALSE, 11)} \cup
  {Post(k, 0, 0, TRUE, l) : k \in {"image", "espfs"}, l \in 0 .. 13} \cup
  {Post("other", 0, 0, TRUE, l) : l \in {0, 6}}
-----------------------------------------------------------------------------
\* Letters, and patterns that repeat within the window, over it and not at all.
Same(n) == [i \in 1 .. n |-> 97]
Cycle(n) == [i \in 1 .. n |-> 97 + (i % 3)]
Squares(n) == [i \in 1 .. n |-> 97 + ((i * i) % 7)]
Mixture(n) == [i \in 1 .. n |-> IF i % 17 < 9 THEN i % 17 ELSE (7 * i) % 11]

MCFiles ==
  [1 .. 5 -> {0, 97}] \cup {<<>>, Same(40), Cycle(45), Squares(40), Mixture(48)}

MCSizes == [read : {1, 7, 16}, room : {1, 2, 64}, buffer : {1, 16}]

-----------------------------------------------------------------------------
VARIABLES encoder, decoder, poll, files, todo, at, inp, out, heads, bytes,
          request, fh, buff, token, status, sent

\* Tokens in a text, signs only, and what compresses.
Template(n) == [i \in 1 .. n |-> IF i % 5 = 0 THEN 37 ELSE 97 + (i % 2)]
Signs(n) == [i \in 1 .. n |-> 37]

MCContents ==
  {<<>>, Same(1), Cycle(7), Same(20), Cycle(28), Template(16), Template(23), Signs(8), Squares(19)}

Page(path, content, zipped) == [path |-> path, data |-> content, zipped |-> zipped]
DotSlashA == <<46, 47, 97>>
SlashA == <<47, 97>>
Bbbb == <<98, 98, 98, 98>>
C == <<99>>

\* "./a" and "bbbb" of any contents; gzipped ones, one of them not shorter for it.
MCArchives ==
  {<<Page(DotSlashA, c, <<>>), Page(Bbbb, d, <<>>)>> : c, d \in MCContents}
  \cup {<<Page(SlashA, Cycle(7), Same(5)), Page(Bbbb, Cycle(3), Same(5)),
          Page(C, Same(37), <<>>)>>}

MCRequests ==
  [url : {<<47>>, SlashA, <<47>> \o Bbbb, <<47, 47>> \o C}, cgi : {"hook", "template"},
   accepts : BOOLEAN]

E == INSTANCE EspFs WITH
  hse <- encoder, hsd <- decoder, oi <- poll, step <- at,
  Archives <- MCArchives, Requests <- MCRequests, BufferLen <- 3, ReadLen <- 4, TokenMax <- 3

imageVars == <<encoder, decoder, poll, files, todo, at, inp, out, heads, bytes,
               request, fh, buff, token, status, sent>>
-----------------------------------------------------------------------------
\* Which of the three is looked at.
VARIABLE part

MCInit ==
  /\ part \in {"upload", "tool", "image"}
  /\ IF part = "upload" THEN TRUE ELSE running = 0 /\ body = Post("other", 0, 0, TRUE, 0)
  /\ IF part = "tool" THEN TRUE
     ELSE file = <<>> /\ sizes = [read |-> 1, room |-> 1, buffer |-> 1]
  /\ IF part = "image" THEN TRUE
     ELSE files = <<Page(DotSlashA, <<>>, <<>>), Page(Bbbb, <<>>, <<>>)>>
  /\ Init /\ H!Init /\ E!Init

Tool == part = "tool" /\ H!Next /\ UNCHANGED <<vars, imageVars, part>>
Image(A) == part = "image" /\ A /\ UNCHANGED <<vars, toolVars, part>>

\* A program of the host that has ended.
Exited ==
  /\ (part = "tool" /\ step = "end") \/ (part = "image" /\ at = "killed")
  /\ UNCHANGED <<vars, toolVars, imageVars, part>>

MCNext ==
  \/ part = "upload" /\ Next /\ UNCHANGED <<toolVars, imageVars, part>>
  \/ Tool \/ Image(E!Next) \/ Exited

MCVars == <<vars, toolVars, imageVars, part>>

MCSpec ==
  /\ MCInit /\ [][MCNext]_MCVars
  /\ WF_MCVars(Tool) /\ WF_MCVars(Image(E!Pack \/ E!CallCgi \/ E!Serve))

ServedWhole == E!ServedWhole
TemplateWhole == E!TemplateWhole
ServingEnds == part = "image" => E!ServingEnds
=============================================================================
