------------------------------- MODULE Images --------------------------------
(***************************************************************************)
(* What goes into the flash, side by side: an upload (cgiflash.c), and a   *)
(* file that heatshrink packs and unpacks.                                 *)
(***************************************************************************)
EXTENDS FlashUpload

CONSTANTS WindowBits, LookaheadBits, PushBits, GetBits, Files, Sizes

\* Bytes, which go out and are taken in eight bits at a time or less.  The encoder
\* also accepts two bits of lookahead with a window of four, where its shortest back
\* reference is of seven bits, and as many as the window has, where it takes
\* nothing in once it is full.
ASSUME HeatshrinkAssumption ==
  /\ WindowBits \in 4 .. 15 /\ LookaheadBits \in 2 .. WindowBits - 1
  /\ WindowBits + LookaheadBits >= 7
  /\ PushBits \in 1 .. 8 /\ GetBits \in 1 .. 8 /\ WindowBits - GetBits <= 8
  /\ Files \subseteq Seq(0 .. 255)
  /\ \A s \in Sizes : s.read \in Nat \ {0} /\ s.room \in Nat \ {0} /\ s.buffer \in Nat \ {0}

VARIABLES hse, hsd, oi, file, sizes, step, rest, data, atEnd, packed, unpacked

H == INSTANCE HeatshrinkTool

toolVars == <<hse, hsd, oi, file, sizes, step, rest, data, atEnd, packed, unpacked>>
ToolSpec == H!Init /\ [][H!Next]_toolVars
RoundTrip == H!RoundTrip
=============================================================================
