---------------------------- MODULE ImagesProofs -----------------------------
(***************************************************************************)
(* Theorems about the images, for all sizes and all contents.              *)
(*                                                                         *)
(* Of an upload the invariant says how far it has come: so many bytes in   *)
(* flash, so many in the page, so many to go, and that the rest of a       *)
(* sector that was entered is erased.                                      *)
(*                                                                         *)
(* Of heatshrink it says that what is packed is a string of bits that      *)
(* falls into tokens, each of which stands for the next bytes of the file, *)
(* that the encoder has said so much of a token, that the windows on both  *)
(* sides hold what came before, and that the decoder is at or within the   *)
(* token of the byte that it puts out next.                                *)
(***************************************************************************)
EXTENDS Images, FiniteSetTheorems, SequenceTheorems, WellFoundedInduction, TLAPS

\* The image's bytes that are in flash, while pages are written
InFlash == (address - Target.base) * PageLen

\* The target's pages before n are in flash.
StoredBefore(n) ==
  \A k \in 0 .. FwPages - 1 :
    k < n /\ k * PageLen < Target.size => flash[Target.base + k] = PageOf(k)

\* Once a sector is entered, its pages from address on are erased.
SectorErased ==
  \/ AtSector
  \/ \E s \in Nat : /\ s % SectorPages = 0
                    /\ s < address /\ address < s + SectorPages
                    /\ \A p \in Pages : p >= address /\ p < s + SectorPages
                                          => flash[p] = Erased

\* Before the first turn
Starting ==
  st = "START" => /\ pageData = << >> /\ skip = 0 /\ dataLen = received
                  /\ received = AtMost(BuffLen, body.len)

\* What was recognised is what the build takes, and a single image fits.
Recognised ==
  st \in {"WRITE", "SKIP", "DONE"} =>
    /\ Type = "FW" => body.kind \in {"ota", "image"}
    /\ body.kind = "ota" => Type = "FW"
    /\ body.kind # "ota" => Target.size <= FwSize /\ skip = 0 /\ st # "SKIP"

\* In the image: what is in flash, in the page, and to come
Counted ==
  st = "WRITE" =>
    /\ address >= Target.base /\ Len(pageData) < PageLen
    /\ len > 0 \/ address = Target.base
    /\ InFlash + Len(pageData) + len = Target.size
    /\ Position = Target.first + InFlash + Len(pageData)
    /\ skip # 0 => running = 2

\* Its bytes, in the page and in flash
Gathered ==
  st = "WRITE" =>
    /\ \A i \in 1 .. Len(pageData) :
         pageData[i] = Target.first + InFlash + i - 1
    /\ StoredBefore(address - Target.base)
    /\ SectorErased

\* Before user2.bin of a pair, or behind its user1.bin
Skipping ==
  st = "SKIP" =>
    \/ /\ running = 1 /\ address = Target.base /\ pageData = << >>
       /\ len = Target.size /\ Position + skip = Target.first
    \/ running = 2 /\ len = 0 /\ StoredBefore(FwPages)

\* A complete upload is in flash, and nothing is answered before.
Ending ==
  /\ st # "none" => answer = "none"
  /\ st = "DONE" => StoredBefore(FwPages)

\* Only a recognised upload touches the flash, and only its place.
Touching ==
  Type = "FW" /\ (body.kind = "ota" => Target.size <= FwSize) =>
    \A p \in Pages :
      flash[p] # Old => /\ body.kind \in {"ota", "image"}
                        /\ p >= Target.base /\ p < Target.base + FwPages

\* Of an acceptable body everything is accounted for.
Account ==
  Acceptable =>
    /\ st # "ERROR" /\ answer # "error"
    /\ st \in {"WRITE", "SKIP"} => Position + len + skip = body.len
    /\ st = "WRITE" => len > 0
    /\ st = "SKIP" => len + skip > 0

IInv == /\ TypeOK /\ Starting /\ Recognised /\ Counted /\ Gathered /\ Skipping
        /\ Ending /\ Touching /\ Account /\ ImageStored

USE UploadAssumption DEF Body
-----------------------------------------------------------------------------
(* Arithmetic of pages and sectors.                                        *)

LEMMA OneMore == ASSUME NEW n \in Int, NEW c \in Int PROVE (n + 1) * c = n * c + c
OBVIOUS

LEMMA LessByFactor ==
  ASSUME NEW m \in Int, NEW n \in Int, NEW c \in Nat \ {0}, m * c < n * c
  PROVE  m < n
OBVIOUS

LEMMA FactorBound ==
  ASSUME NEW m \in Int, NEW n \in Int, NEW c \in Nat \ {0}, m < n
  PROVE  m * c + c <= n * c
OBVIOUS

LEMMA DivMod ==
  ASSUME NEW a \in Nat, NEW c \in Nat \ {0}
  PROVE  /\ a = (a \div c) * c + (a % c)
         /\ a \div c \in Nat /\ a % c \in 0 .. c - 1
<1>1. a = (a \div c) * c + (a % c) /\ a \div c \in Nat
  OBVIOUS
<1>2. a % c \in 0 .. c - 1
  OBVIOUS
<1>3. QED
  BY <1>1, <1>2

\* A multiple leaves no remainder.
LEMMA NoRemainder ==
  ASSUME NEW q \in Nat, NEW c \in Nat \ {0}
  PROVE  (q * c) % c = 0
<1> DEFINE d == (q * c) \div c
           r == (q * c) % c
<1>1. q * c \in Nat
  OBVIOUS
<1>2. q * c = d * c + r /\ d \in Nat /\ r \in 0 .. c - 1
  BY <1>1, DivMod
<1> HIDE DEF d, r
<1>3. ~(d < q)
  <2>1. SUFFICES ASSUME d < q PROVE FALSE
    OBVIOUS
  <2>2. d * c + c <= q * c
    BY <1>2, <2>1, FactorBound
  <2>3. QED
    BY <1>2, <2>2
<1>4. ~(q < d)
  <2>1. SUFFICES ASSUME q < d PROVE FALSE
    OBVIOUS
  <2>2. q * c + c <= d * c
    BY <1>2, <2>1, FactorBound
  <2>3. QED
    BY <1>2, <2>2
<1>5. r = 0
  BY <1>2, <1>3, <1>4
<1>6. QED
  BY <1>5 DEF r

\* From one sector's first page to the next one's
LEMMA NextSector ==
  ASSUME NEW a \in Nat, NEW c \in Nat \ {0}, a % c = 0
  PROVE  (a + c) % c = 0
<1> DEFINE q == a \div c
<1>1. a = q * c + (a % c) /\ q \in Nat
  BY DivMod
<1> HIDE DEF q
<1>2. a + c = (q + 1) * c
  BY <1>1, OneMore
<1>3. ((q + 1) * c) % c = 0
  BY <1>1, NoRemainder
<1>4. QED
  BY <1>2, <1>3

\* Between the first pages of two sectors lies a whole one.
LEMMA WholeSectors ==
  ASSUME NEW a \in Nat, NEW b \in Nat, NEW c \in Nat \ {0},
         a % c = 0, b % c = 0, a < b
  PROVE  a + c <= b
<1> DEFINE q == a \div c
           r == b \div c
<1>1. a = q * c + (a % c) /\ q \in Nat
  BY DivMod
<1>2. b = r * c + (b % c) /\ r \in Nat
  BY DivMod
<1> HIDE DEF q, r
<1>3. q * c < r * c
  BY <1>1, <1>2
<1>4. q < r
  BY <1>1, <1>2, <1>3, LessByFactor
<1>5. QED
  BY <1>1, <1>2, <1>4, FactorBound
-----------------------------------------------------------------------------
(* The target.                                                             *)

LEMMA TargetType ==
  ASSUME TypeOK
  PROVE  /\ Target.base \in Nat /\ Target.first \in Nat /\ Target.size \in Nat
         /\ Target.base % SectorPages = 0
         /\ Target.base + FwPages <= FlashPages
         /\ Target.base = 0 \/ Target.base = Fw2Page
<1>1. 0 % SectorPages = 0
  OBVIOUS
<1>2. QED
  BY <1>1 DEF TypeOK, Target

\* It is fixed during an upload, and so is what depends on it.
LEMMA TargetKept ==
  ASSUME running' = running, body' = body
  PROVE  /\ Target' = Target /\ Type' = Type /\ Acceptable' = Acceptable
         /\ \A k : PageOf(k)' = PageOf(k)
BY DEF Target, Type, Acceptable, PageOf

\* What is stored stays while nothing is written.
LEMMA StoredKept ==
  ASSUME running' = running, body' = body, flash' = flash, NEW n \in Int,
         StoredBefore(n)
  PROVE  StoredBefore(n)'
BY TargetKept DEF StoredBefore

\* The end of a sector, a firmware's place included
LEMMA PlaceEndsWithSector ==
  ASSUME TypeOK
  PROVE  (Target.base + FwPages) % SectorPages = 0
<1> DEFINE q == Target.base \div SectorPages
           r == FwPages \div SectorPages
<1>1. /\ Target.base = q * SectorPages + (Target.base % SectorPages)
      /\ q \in Nat /\ Target.base % SectorPages = 0
  BY TargetType, DivMod
<1>2. /\ FwPages = r * SectorPages + (FwPages % SectorPages)
      /\ r \in Nat
  BY DivMod
<1> HIDE DEF q, r
<1>3. Target.base + FwPages = (q + r) * SectorPages
  <2>1. Target.base = q * SectorPages /\ FwPages = r * SectorPages
    <3>1. q * SectorPages \in Nat /\ r * SectorPages \in Nat
      BY <1>1, <1>2
    <3>2. QED
      BY <1>1, <1>2, <3>1
  <2>2. (q + r) * SectorPages = q * SectorPages + r * SectorPages
    BY <1>1, <1>2
  <2>3. QED
    BY <2>1, <2>2
<1>4. ((q + r) * SectorPages) % SectorPages = 0
  <2>1. q + r \in Nat
    BY <1>1, <1>2
  <2>2. QED
    BY <2>1, NoRemainder
<1>5. QED
  BY <1>3, <1>4

LEMMA FwSizeType == FwSize \in Nat
BY DEF FwSize

\* Nothing of the image is in flash yet, and the page is empty.
LEMMA Untouched ==
  ASSUME TypeOK, address = Target.base
  PROVE  InFlash = 0 /\ StoredBefore(address - Target.base) /\ SectorErased
BY TargetType DEF InFlash, StoredBefore, SectorErased, AtSector

\* An empty image is in flash.
LEMMA EmptyStored ==
  ASSUME TypeOK, Target.size = 0
  PROVE  StoredBefore(FwPages)
<1>1. \A k \in 0 .. FwPages - 1 : k * PageLen >= 0
  OBVIOUS
<1>2. QED
  BY <1>1 DEF StoredBefore
-----------------------------------------------------------------------------
(* Calls of the CGI.                                                       *)

LEMMA InitHolds == Init => IInv
BY DEF Init, IInv, TypeOK, Starting, Recognised, Counted, Gathered, Skipping,
   Ending, Touching, Account, ImageStored, Old

LEMMA FirstPartStep == ASSUME IInv, NEW b \in Bodies, FirstPart(b) PROVE IInv'
BY DEF IInv, FirstPart, TypeOK, Starting, Recognised, Counted, Gathered,
   Skipping, Ending, Touching, Account, ImageStored, Old, AtMost

LEMMA ResetStep == IInv /\ resetTimerCb => IInv'
BY DEF IInv, resetTimerCb, TypeOK, Starting, Recognised, Counted, Gathered,
   Skipping, Ending, Touching, Account, ImageStored, Old, Type

\* Between two parts no header can still be awaited.
LEMMA NextPartStep == IInv /\ NextPart => IInv'
<1> SUFFICES ASSUME IInv, NextPart PROVE IInv'
  OBVIOUS
<1> USE DEF IInv, NextPart, Between
<1>1. Target' = Target /\ Type' = Type /\ Acceptable' = Acceptable
      /\ \A k : PageOf(k)' = PageOf(k)
  BY TargetKept
<1>2. TypeOK'
  BY DEF TypeOK, AtMost
<1>3. Position' = Position
  BY DEF Position, TypeOK, AtMost
<1>4. st # "START"
  BY DEF Starting, TypeOK, AtMost
<1>5. InFlash' = InFlash
  BY <1>1 DEF InFlash
<1>6. \A n \in Int : StoredBefore(n) => StoredBefore(n)'
  BY StoredKept
<1>7. Gathered'
  BY <1>1, <1>5, <1>6, TargetType DEF Gathered, SectorErased, AtSector, TypeOK
<1>8. Skipping' /\ Ending' /\ ImageStored'
  BY <1>1, <1>3, <1>6 DEF Skipping, Ending, ImageStored
<1>9. QED
  BY <1>1, <1>2, <1>3, <1>4, <1>5, <1>7, <1>8
  DEF Starting, Recognised, Counted, Touching, Account

LEMMA AbortedStep == IInv /\ Aborted => IInv'
<1> SUFFICES ASSUME IInv, Aborted PROVE IInv'
  OBVIOUS
<1>1. Target' = Target /\ Type' = Type /\ Acceptable' = Acceptable
  BY TargetKept DEF Aborted
<1>2. QED
  BY <1>1 DEF IInv, Aborted, Between, TypeOK, Starting, Recognised, Counted,
     Gathered, Skipping, Ending, Touching, Account, ImageStored

\* What is answered: all was counted, and a complete image is in flash.
LEMMA RespondStep == IInv /\ Respond => IInv'
<1> SUFFICES ASSUME IInv, Respond PROVE IInv'
  OBVIOUS
<1> USE DEF IInv, Respond, Complete
<1>1. Target' = Target /\ Type' = Type /\ Acceptable' = Acceptable
      /\ \A k : PageOf(k)' = PageOf(k)
  BY TargetKept
<1>2. TypeOK'
  BY DEF TypeOK
<1>3. ASSUME Acceptable PROVE st = "DONE"
  <2>1. body.len > 0
    BY <1>3 DEF Acceptable, TypeOK
  <2>2. st # "START"
    BY <2>1 DEF Starting
  <2>3. Position = body.len
    BY DEF Position, TypeOK
  <2>4. st \notin {"WRITE", "SKIP"}
    BY <1>3, <2>3 DEF Account, TypeOK
  <2>5. QED
    BY <1>3, <2>2, <2>4 DEF Account, TypeOK
<1>4. answer' = "stored" => StoredBefore(FwPages)'
  BY StoredKept DEF Ending
<1>5. ImageStored'
  BY <1>4 DEF ImageStored, StoredBefore
<1>6. Account'
  BY <1>1, <1>3 DEF Account
<1>7. QED
  BY <1>1, <1>2, <1>5, <1>6 DEF Starting, Recognised, Counted, Gathered,
     Skipping, Ending, Touching
-----------------------------------------------------------------------------
(* Turns of the loop.                                                      *)

\* An error: only for a body that is not what was asked for.
LEMMA FailStep ==
  ASSUME IInv, Looping("START"), Fail, ~Acceptable
  PROVE  IInv'
<1>1. Target' = Target /\ Type' = Type /\ Acceptable' = Acceptable
  BY TargetKept DEF Fail
<1>2. QED
  BY <1>1 DEF IInv, Looping, Fail, TypeOK, Starting, Recognised, Counted,
     Gathered, Skipping, Ending, Touching, Account, ImageStored

LEMMA IgnoreStep == IInv /\ Ignore => IInv'
<1> SUFFICES ASSUME IInv, Ignore PROVE IInv'
  OBVIOUS
<1> USE DEF IInv, Ignore
<1>1. Target' = Target /\ Type' = Type /\ Acceptable' = Acceptable
  BY TargetKept
<1>2. answer = "none" /\ Ending'
  BY StoredKept DEF Ending
<1>3. QED
  BY <1>1, <1>2 DEF TypeOK, Starting, Recognised, Counted, Gathered, Skipping,
     Touching, Account, ImageStored

\* An image goes to the start of its place.
LEMMA StartImageStep ==
  ASSUME IInv, Looping("START"), StartImage,
         Type = "FW" => body.kind = "image", Type # "FW" => body.kind = "espfs"
  PROVE  IInv'
<1> USE DEF IInv, Looping
<1>1. CASE body.len > FwSize
  <2>1. Fail
    BY <1>1 DEF StartImage
  <2>2. ~Acceptable
    BY <1>1, FwSizeType DEF Acceptable, TypeOK, Type
  <2>3. QED
    BY <2>1, <2>2, FailStep
<1>2. CASE ~(body.len > FwSize)
  <2> /\ len' = body.len /\ address' = 0 /\ st' = "WRITE"
      /\ UNCHANGED <<running, body, received, dataLen, skip, pageData, flash,
                     answer>>
    BY <1>2 DEF StartImage
  <2>1. Target' = Target /\ Type' = Type /\ Acceptable' = Acceptable
    BY TargetKept
  <2>2. Target = [base |-> 0, first |-> 0, size |-> body.len]
    BY DEF Target, Type
  <2>3. TypeOK' /\ Position' = 0
    BY DEF TypeOK, Position, Starting
  <2>4. InFlash' = 0 /\ StoredBefore(address - Target.base)' /\ SectorErased'
    BY <2>1, <2>2, <2>3 DEF InFlash, StoredBefore, SectorErased, AtSector
  <2>5. Recognised'
    BY <1>2, <2>1, <2>2, FwSizeType DEF Recognised, Starting, TypeOK
  <2>6. Counted' /\ Gathered'
    BY <2>1, <2>2, <2>3, <2>4, FwSizeType DEF Counted, Gathered, Starting, TypeOK
  <2>7. Account'
    BY <2>1, <2>3 DEF Account, Starting, Acceptable, TypeOK
  <2>8. QED
    BY <2>1, <2>3, <2>5, <2>6, <2>7
    DEF Starting, Skipping, Ending, Touching, ImageStored
<1>3. QED
  BY <1>1, <1>2

\* A pair: the other firmware's bytes come first or last.
LEMMA StartOtaStep ==
  ASSUME IInv, Looping("START"), StartOta, Type = "FW", body.kind = "ota"
  PROVE  IInv'
<1> USE DEF IInv, Looping
<1>1. CASE ~body.ours \/ body.len > 2 * FwSize + HeaderLen
  <2>1. Fail
    BY <1>1 DEF StartOta
  <2>2. ~Acceptable
    BY <1>1, FwSizeType DEF Acceptable, TypeOK
  <2>3. QED
    BY <2>1, <2>2, FailStep
<1>2. CASE ~(~body.ours \/ body.len > 2 * FwSize + HeaderLen)
  <2>1. /\ dataLen' = dataLen - HeaderLen
        /\ UNCHANGED <<running, body, received, pageData, flash, answer>>
    BY <1>2 DEF StartOta, BehindHeader
  <2>2. Target' = Target /\ Type' = Type /\ Acceptable' = Acceptable
    BY <2>1, TargetKept
  <2>3. body.len >= HeaderLen /\ received >= HeaderLen /\ received \in Nat
        /\ dataLen = received /\ pageData = << >>
    BY DEF TypeOK, Starting, AtMost
  <2>4. dataLen' \in 0 .. received' /\ Position' = HeaderLen
    BY <2>1, <2>3 DEF Position
  <2>5. CASE running = 2
    <3>1. len' = body.len1 /\ skip' = body.len2 /\ st' = "WRITE" /\ address' = 0
      BY <1>2, <2>5 DEF StartOta, FlashesFirst
    <3>2. Target = [base |-> 0, first |-> HeaderLen, size |-> body.len1]
      BY <2>5 DEF Target
    <3>3. TypeOK'
      BY <2>1, <2>4, <3>1 DEF TypeOK
    <3>4. InFlash' = 0 /\ StoredBefore(address - Target.base)' /\ SectorErased'
      BY <2>2, <3>1, <3>2, <3>3
      DEF InFlash, StoredBefore, SectorErased, AtSector
    <3>5. Counted' /\ Gathered'
      BY <2>1, <2>2, <2>3, <2>4, <2>5, <3>1, <3>2, <3>4, <3>3
      DEF Counted, Gathered, TypeOK
    <3>6. Account'
      BY <2>1, <2>2, <2>4, <3>1, <3>3 DEF Account, Acceptable, TypeOK
    <3>7. QED
      BY <2>1, <2>2, <3>1, <3>3, <3>5, <3>6
      DEF Starting, Recognised, Skipping, Ending, Touching, ImageStored
  <2>6. CASE running # 2
    <3>1. /\ len' = body.len2 /\ skip' = body.len1 /\ st' = "SKIP"
          /\ address' = Fw2Page
      BY <1>2, <2>6 DEF StartOta, FlashesFirst
    <3>2. Target = [base |-> Fw2Page, first |-> HeaderLen + body.len1,
                    size |-> body.len2]
      BY <2>6 DEF Target
    <3>3. TypeOK'
      BY <2>1, <2>4, <3>1 DEF TypeOK
    <3>4. running = 1
      BY <2>6 DEF TypeOK, Type
    <3>5. Skipping'
      BY <2>1, <2>2, <2>3, <2>4, <3>1, <3>2, <3>3, <3>4 DEF Skipping
    <3>6. Account'
      BY <2>1, <2>2, <2>4, <3>1, <3>3 DEF Account, Acceptable, TypeOK
    <3>7. QED
      BY <2>1, <2>2, <3>1, <3>3, <3>5, <3>6
      DEF Starting, Recognised, Counted, Gathered, Ending, Touching, ImageStored
  <2>7. QED
    BY <2>5, <2>6
<1>3. QED
  BY <1>1, <1>2

LEMMA StartStep == IInv /\ Start => IInv'
<1> SUFFICES ASSUME IInv, Start PROVE IInv'
  OBVIOUS
<1>1. CASE Type = "FW" /\ body.kind = "ota"
  BY <1>1, StartOtaStep DEF Start
<1>2. CASE Type = "FW" /\ body.kind = "image"
  BY <1>2, StartImageStep DEF Start
<1>3. CASE Type = "ESPFS" /\ body.kind = "espfs"
  BY <1>3, StartImageStep DEF Start
<1>4. CASE ~ \/ Type = "FW" /\ body.kind \in {"ota", "image"}
             \/ Type = "ESPFS" /\ body.kind = "espfs"
  <2>1. Fail
    BY <1>4 DEF Start
  <2>2. ~Acceptable
    BY <1>4 DEF Acceptable, Type
  <2>3. QED
    BY <2>1, <2>2, FailStep DEF Start
<1>5. QED
  BY <1>1, <1>2, <1>3, <1>4 DEF Type

\* The other firmware's bytes
LEMMA SkipStep == IInv /\ Skip => IInv'
<1> SUFFICES ASSUME IInv, Skip PROVE IInv'
  OBVIOUS
<1> USE DEF IInv, Looping
<1>1. /\ st = "SKIP" /\ dataLen > 0
      /\ UNCHANGED <<running, body, received, address, len, pageData, flash,
                     answer>>
  BY DEF Skip
<1>2. Target' = Target /\ Type' = Type /\ Acceptable' = Acceptable
  BY <1>1, TargetKept
<1>3. StoredBefore(FwPages) => StoredBefore(FwPages)'
  BY <1>1, StoredKept
<1>4. CASE SkipsAll
  <2>1. skip' = skip - dataLen /\ dataLen' = 0 /\ st' = "SKIP" /\ skip' > 0
    BY <1>1, <1>4 DEF Skip, SkipsAll, TypeOK
  <2>2. TypeOK'
    BY <1>1, <2>1 DEF TypeOK
  <2>3. Position' + skip' = Position + skip
    BY <1>1, <2>1 DEF Position, TypeOK
  <2>4. Skipping'
    BY <1>1, <1>2, <1>3, <2>1, <2>3 DEF Skipping
  <2>5. Account'
    <3>1. Position \in Int /\ Position' \in Int /\ len \in Nat /\ skip \in Nat
      BY <2>2 DEF Position, TypeOK
    <3>2. Acceptable => Position + len + skip = body.len /\ answer # "error"
      BY <1>1 DEF Account
    <3>3. QED
      BY <1>1, <1>2, <2>1, <2>3, <3>1, <3>2 DEF Account
  <2>6. QED
    BY <1>1, <1>2, <2>1, <2>2, <2>4, <2>5
    DEF Starting, Recognised, Counted, Gathered, Ending, Touching, ImageStored
<1>5. CASE ~SkipsAll
  <2>1. /\ skip' = 0 /\ dataLen' = dataLen - skip
        /\ st' = IF len # 0 THEN "WRITE" ELSE "DONE"
    BY <1>1, <1>5 DEF Skip
  <2>2. TypeOK'
    BY <1>1, <1>5, <2>1 DEF TypeOK, SkipsAll
  <2>3. Position' = Position + skip
    BY <1>1, <2>1 DEF Position, TypeOK
  <2>4. ASSUME len # 0 PROVE Counted' /\ Gathered'
    <3>1. /\ running = 1 /\ address = Target.base /\ pageData = << >>
          /\ len = Target.size /\ Position + skip = Target.first
      BY <1>1, <2>4 DEF Skipping
    <3>2. InFlash' = 0 /\ StoredBefore(address - Target.base)' /\ SectorErased'
      <4>1. InFlash = 0 /\ StoredBefore(address - Target.base) /\ SectorErased
        BY <3>1, Untouched
      <4>2. QED
        BY <1>1, <1>2, <4>1, StoredKept, <2>2, TargetType
        DEF InFlash, SectorErased, AtSector, TypeOK
    <3>3. Counted'
      BY <1>1, <1>2, <2>1, <2>3, <3>1, <3>2, TargetType DEF Counted
    <3>4. Gathered'
      BY <1>1, <2>4, <3>1, <3>2 DEF Gathered
    <3>5. QED
      BY <3>3, <3>4
  <2>5. len = 0 => StoredBefore(FwPages)'
    BY <1>1, <1>3, EmptyStored DEF Skipping
  <2>6. Account'
    <3>1. Position \in Int /\ Position' \in Int /\ len \in Nat /\ skip \in Nat
      BY <2>2 DEF Position, TypeOK
    <3>2. Acceptable => Position + len + skip = body.len /\ answer # "error"
      BY <1>1 DEF Account
    <3>3. QED
      BY <1>1, <1>2, <2>1, <2>3, <3>1, <3>2 DEF Account
  <2>7. QED
    BY <1>1, <1>2, <2>1, <2>2, <2>4, <2>5, <2>6
    DEF Starting, Recognised, Counted, Gathered, Skipping, Ending, Touching,
        ImageStored
<1>6. QED
  BY <1>4, <1>5

\* What a turn of the page loop adds to the page
LEMMA Filling ==
  ASSUME IInv, st = "WRITE", NEW n \in Nat
  PROVE  /\ Filled(n) \in Seq(Nat) /\ Len(Filled(n)) = Len(pageData) + n
         /\ \A i \in 1 .. Len(pageData) + n :
              Filled(n)[i] = Target.first + InFlash + i - 1
<1> DEFINE new == [i \in 1 .. n |-> Position + i - 1]
<1>1. Position \in Nat /\ pageData \in Seq(Nat)
  BY DEF IInv, TypeOK, Position
<1>2. new \in Seq(Nat) /\ Len(new) = n /\ Filled(n) = pageData \o new
  <2>1. \A i \in 1 .. n : Position + i - 1 \in Nat
    BY <1>1
  <2>2. new \in [1 .. n -> Nat]
    BY <2>1
  <2>3. new \in Seq(Nat) /\ Len(new) = n
    BY <2>2
  <2>4. QED
    BY <2>3 DEF Filled
<1> HIDE DEF new
<1>3. Filled(n) \in Seq(Nat) /\ Len(Filled(n)) = Len(pageData) + n
  BY <1>1, <1>2, ConcatProperties
<1>4. Position = Target.first + InFlash + Len(pageData)
  BY DEF IInv, Counted
<1>5. InFlash \in Int /\ Target.first \in Nat
  BY TargetType DEF IInv, TypeOK, InFlash
<1>6. ASSUME NEW i \in 1 .. Len(pageData) + n
      PROVE  Filled(n)[i] = Target.first + InFlash + i - 1
  <2>1. CASE i <= Len(pageData)
    <3>1. Filled(n)[i] = pageData[i]
      BY <1>1, <1>2, <2>1
    <3>2. i \in 1 .. Len(pageData)
      BY <1>1, <2>1
    <3>3. QED
      BY <3>1, <3>2 DEF IInv, Gathered
  <2>2. CASE ~(i <= Len(pageData))
    <3>1. Filled(n)[i] = new[i - Len(pageData)]
      BY <1>1, <1>2, <2>2
    <3>2. i - Len(pageData) \in 1 .. n
      BY <1>1, <2>2
    <3>3. new[i - Len(pageData)] = Position + (i - Len(pageData)) - 1
      BY <3>2 DEF new
    <3>4. QED
      BY <1>1, <1>4, <1>5, <3>1, <3>3
  <2>3. QED
    BY <2>1, <2>2
<1>7. QED
  BY <1>3, <1>6

LEMMA GatherStep == IInv /\ Gather => IInv'
<1> SUFFICES ASSUME IInv, Gather PROVE IInv'
  OBVIOUS
<1>1. /\ TypeOK /\ st = "WRITE" /\ st' = "WRITE" /\ dataLen > 0
      /\ dataLen < PageLeft /\ pageData' = Filled(dataLen)
      /\ len' = len - dataLen /\ dataLen' = 0
      /\ UNCHANGED <<running, body, received, address, skip, flash, answer>>
  BY DEF Gather, Looping, IInv
<1>2. Target' = Target /\ Type' = Type /\ Acceptable' = Acceptable
  BY <1>1, TargetKept
<1>3. dataLen \in Nat /\ received \in Nat /\ len \in Nat /\ Len(pageData) \in Nat
  BY <1>1 DEF TypeOK
<1>4. dataLen < len /\ Len(pageData) + dataLen < PageLen
  BY <1>1, <1>3 DEF PageLeft, AtMost
<1>5. /\ pageData' \in Seq(Nat) /\ Len(pageData') = Len(pageData) + dataLen
      /\ \A i \in 1 .. Len(pageData') :
           pageData'[i] = Target.first + InFlash + i - 1
  BY <1>1, <1>3, Filling
<1>6. TypeOK'
  BY <1>1, <1>3, <1>4, <1>5 DEF TypeOK
<1>7. InFlash' = InFlash /\ InFlash \in Int
  BY <1>1, <1>2, TargetType DEF InFlash, TypeOK
<1>8. Position' = Position + dataLen /\ Position \in Int
  BY <1>1, <1>3 DEF Position
<1>9. Counted'
  <2>1. /\ address >= Target.base
        /\ InFlash + Len(pageData) + len = Target.size
        /\ Position = Target.first + InFlash + Len(pageData)
        /\ skip # 0 => running = 2
    BY <1>1 DEF IInv, Counted
  <2>2. Target.first \in Nat /\ Target.size \in Nat /\ len' > 0
    BY <1>1, <1>3, <1>4, TargetType
  <2>3. /\ InFlash + Len(pageData') + len' = Target.size
        /\ Position' = Target.first + InFlash + Len(pageData')
    BY <1>1, <1>3, <1>5, <1>7, <1>8, <2>1, <2>2
  <2>4. Len(pageData') < PageLen
    BY <1>4, <1>5
  <2>5. QED
    BY <1>1, <1>2, <1>7, <2>1, <2>2, <2>3, <2>4 DEF Counted
<1>10. Gathered'
  <2>1. StoredBefore(address - Target.base)'
    BY <1>1, <1>2, StoredKept, TargetType DEF IInv, Gathered, TypeOK
  <2>2. SectorErased'
    <3>1. SectorErased
      BY <1>1 DEF IInv, Gathered
    <3>2. address' = address /\ flash' = flash
      BY <1>1
    <3>3. QED
      BY <3>1, <3>2 DEF SectorErased, AtSector
  <2>3. QED
    BY <1>2, <1>5, <1>7, <2>1, <2>2 DEF Gathered
<1>11. Account'
  <2>1. Acceptable => Position + len + skip = body.len /\ answer # "error"
    BY <1>1 DEF IInv, Account
  <2>2. skip \in Nat
    BY <1>1 DEF TypeOK
  <2>3. QED
    BY <1>1, <1>2, <1>3, <1>4, <1>8, <2>1, <2>2 DEF Account
<1>12. QED
  BY <1>1, <1>2, <1>6, <1>9, <1>10, <1>11
  DEF IInv, Starting, Recognised, Skipping, Ending, Touching, ImageStored
-----------------------------------------------------------------------------
(* The page loop's other turn: what it takes from the part, what it makes   *)
(* of the flash, and what is to come.                                       *)

\* The address is in the target's place, as long as that is large enough.
LEMMA AddressInPlace ==
  ASSUME IInv, st = "WRITE", Target.size <= FwSize
  PROVE  address < Target.base + FwPages
<1>1. /\ address \in Nat /\ len \in Nat /\ Len(pageData) \in Nat
      /\ Target.base \in Nat
  BY TargetType DEF IInv, TypeOK
<1>2. CASE address = Target.base
  BY <1>1, <1>2
<1>3. CASE address # Target.base
  <2>1. len > 0 /\ InFlash + Len(pageData) + len = Target.size
    BY <1>3 DEF IInv, Counted
  <2>2. (address - Target.base) * PageLen \in Int /\ FwPages * PageLen \in Int
    BY <1>1
  <2>3. (address - Target.base) * PageLen < FwPages * PageLen
    BY <1>1, <2>1, <2>2, TargetType DEF InFlash, FwSize, IInv
  <2>4. address - Target.base \in Int
    BY <1>1
  <2>5. address - Target.base < FwPages
    BY <2>3, <2>4, LessByFactor
  <2>6. QED
    BY <1>1, <2>5
<1>4. QED
  BY <1>2, <1>3

\* At address nothing has been written since its sector was erased.
LEMMA AddressErased ==
  ASSUME IInv, st = "WRITE", address \in Pages
  PROVE  AfterErase[address] = Erased
<1>1. address \in Nat /\ flash \in [Pages -> Seq(Int)]
  BY DEF IInv, TypeOK
<1>2. CASE AtSector
  BY <1>1, <1>2 DEF AfterErase
<1>3. CASE ~AtSector
  <2>1. PICK s \in Nat : /\ s < address /\ address < s + SectorPages
                         /\ \A p \in Pages : p >= address /\ p < s + SectorPages
                                               => flash[p] = Erased
    BY <1>3 DEF IInv, Gathered, SectorErased
  <2>2. flash[address] = Erased
    BY <1>1, <2>1
  <2>3. QED
    BY <1>3, <2>2 DEF AfterErase
<1>4. QED
  BY <1>2, <1>3

\* Numbers of a turn that writes: it takes PageLeft bytes, which fill the page
\* or end the image.
LEMMA PageNumbers ==
  ASSUME IInv, WritePage
  PROVE  /\ PageLeft \in Nat /\ PageLeft <= len /\ PageLeft <= dataLen
         /\ Len(pageData) + PageLeft = AtMost(PageLen, Target.size - InFlash)
         /\ len' = len - PageLeft /\ len' \in Nat
         /\ len' # 0 => Len(pageData) + PageLeft = PageLen
         /\ InFlash \in Int /\ InFlash' = InFlash + PageLen
         /\ Position' = Position + PageLeft /\ Position \in Int
<1>1. /\ len \in Nat /\ Len(pageData) \in Nat /\ Len(pageData) < PageLen
      /\ dataLen \in Nat /\ received \in Nat
      /\ address \in Nat /\ Target.base \in Nat /\ Target.size \in Nat
  BY TargetType DEF IInv, TypeOK, Counted, WritePage, Looping
<1>2. /\ PageLeft \in Nat /\ PageLeft <= len
      /\ len - PageLeft # 0 => Len(pageData) + PageLeft = PageLen
      /\ Len(pageData) + PageLeft = AtMost(PageLen, Len(pageData) + len)
  BY <1>1 DEF PageLeft, AtMost
<1>3. InFlash \in Int /\ Target.size - InFlash = Len(pageData) + len
  BY <1>1 DEF IInv, Counted, WritePage, Looping, InFlash
<1>4. InFlash' = InFlash + PageLen
  <2>1. Target' = Target /\ address' = address + 1
    BY TargetKept DEF WritePage
  <2>2. address - Target.base \in Int
    BY <1>1
  <2>3. ((address - Target.base) + 1) * PageLen
          = (address - Target.base) * PageLen + PageLen
    BY <2>2, OneMore
  <2>4. address' - Target'.base = (address - Target.base) + 1
    BY <1>1, <2>1
  <2>5. InFlash' = (address' - Target'.base) * PageLen
    BY Zenon DEF InFlash
  <2>6. InFlash' = ((address - Target.base) + 1) * PageLen
    BY <2>4, <2>5, Zenon
  <2>7. QED
    BY <2>3, <2>6 DEF InFlash
<1>5. PageLeft <= dataLen /\ len' = len - PageLeft /\ len' \in Nat
  BY <1>1, <1>2 DEF WritePage
<1>6. Position' = Position + PageLeft /\ Position \in Int
  BY <1>1, <1>2 DEF WritePage, Position
<1>7. QED
  BY <1>2, <1>3, <1>4, <1>5, <1>6

\* The page that is written is the target's next one.
LEMMA PageIsNext ==
  ASSUME IInv, WritePage
  PROVE  Filled(PageLeft) = PageOf(address - Target.base)
<1> DEFINE m == Len(pageData) + PageLeft
           e == [i \in 1 .. m |-> Target.first + InFlash + i - 1]
<1>1. st = "WRITE" /\ PageLeft \in Nat
  BY PageNumbers DEF WritePage, Looping
<1>2. /\ Filled(PageLeft) \in Seq(Nat) /\ Len(Filled(PageLeft)) = m
      /\ \A i \in 1 .. m : Filled(PageLeft)[i] = Target.first + InFlash + i - 1
  BY <1>1, Filling
<1>3. m = AtMost(PageLen, Target.size - InFlash)
  BY PageNumbers
<1>4. PageOf(address - Target.base) = e
  BY <1>3 DEF PageOf, InFlash
<1>5. Filled(PageLeft) = [i \in 1 .. m |-> Filled(PageLeft)[i]]
  BY <1>2
<1> HIDE DEF m
<1>6. Filled(PageLeft) = e
  BY <1>2, <1>5
<1>7. QED
  BY <1>4, <1>6

\* The flash after it: the page, the rest of a new sector erased, else as before
LEMMA FlashAfter ==
  ASSUME IInv, WritePage
  PROVE  /\ flash' \in [Pages -> Seq(Int)]
         /\ address \in Pages => flash'[address] = PageOf(address - Target.base)
         /\ \A p \in Pages : p # address =>
              flash'[p] = IF AtSector /\ p \in address .. address + SectorPages - 1
                          THEN Erased ELSE flash[p]
<1>1. flash' = [AfterErase EXCEPT ![address] = Written(@, Filled(PageLeft))]
  BY DEF WritePage
<1>2. /\ flash \in [Pages -> Seq(Int)] /\ AfterErase \in [Pages -> Seq(Int)]
      /\ \A p \in Pages :
           AfterErase[p] = IF AtSector /\ p \in address .. address + SectorPages - 1
                           THEN Erased ELSE flash[p]
  BY DEF IInv, TypeOK, AfterErase, Erased
<1>3. ASSUME address \in Pages
      PROVE  Written(AfterErase[address], Filled(PageLeft)) = Filled(PageLeft)
  BY <1>3, AddressErased DEF Written, WritePage, Looping
<1>4. Filled(PageLeft) \in Seq(Int)
  <2>1. Filled(PageLeft) \in Seq(Nat)
    BY PageNumbers, Filling DEF WritePage, Looping
  <2>2. QED
    BY <2>1, Nat \subseteq Int, SeqMonotonic
<1>5. flash' \in [Pages -> Seq(Int)]
  BY <1>1, <1>2, <1>3, <1>4
<1>6. QED
  BY <1>1, <1>2, <1>3, <1>5, PageIsNext

\* One more page is in flash.
LEMMA OneMoreStored ==
  ASSUME IInv, WritePage
  PROVE  StoredBefore(address - Target.base)'
<1>1. /\ address \in Nat /\ Target.base \in Nat
      /\ Target.base + FwPages <= FlashPages
      /\ StoredBefore(address - Target.base)
  BY TargetType DEF IInv, TypeOK, Gathered, WritePage, Looping
<1>2. Target' = Target /\ \A k : PageOf(k)' = PageOf(k)
  BY TargetKept DEF WritePage
<1>3. ASSUME NEW k \in 0 .. FwPages - 1, k < address - Target.base + 1,
             k * PageLen < Target.size
      PROVE  flash'[Target.base + k] = PageOf(k)
  <2>1. Target.base + k \in Pages
    BY <1>1 DEF Pages
  <2>2. CASE k = address - Target.base
    <3>1. Target.base + k = address
      BY <1>1, <2>2
    <3>2. QED
      BY <2>1, <2>2, <3>1, FlashAfter
  <2>3. CASE k # address - Target.base
    <3>1. k < address - Target.base /\ Target.base + k < address
      BY <1>1, <1>3, <2>3
    <3>2. flash'[Target.base + k] = flash[Target.base + k]
      <4>1. /\ Target.base + k # address
            /\ Target.base + k \notin address .. address + SectorPages - 1
        BY <1>1, <3>1
      <4>2. QED
        BY <2>1, <4>1, FlashAfter
    <3>3. QED
      BY <1>1, <1>3, <3>1, <3>2 DEF StoredBefore
  <2>4. QED
    BY <2>2, <2>3
<1>4. QED
  <2>1. address' = address + 1
    BY DEF WritePage
  <2>2. SUFFICES ASSUME NEW k \in 0 .. FwPages - 1,
                        k < address' - Target'.base, k * PageLen < Target'.size
                 PROVE  flash'[Target'.base + k] = PageOf(k)'
    BY DEF StoredBefore
  <2>3. k < address - Target.base + 1 /\ k * PageLen < Target.size
    BY <1>1, <1>2, <2>1, <2>2
  <2>4. flash'[Target.base + k] = PageOf(k)
    BY <1>3, <2>3
  <2>5. QED
    BY <1>2, <2>4

\* Of a sector that has been entered, the pages to come are erased.
LEMMA SectorErasedAfter == ASSUME IInv, WritePage PROVE SectorErased'
<1>1. address \in Nat /\ address' = address + 1
  BY DEF IInv, TypeOK, WritePage
<1>2. ASSUME NEW s \in Nat, s % SectorPages = 0,
             s <= address, address < s + SectorPages,
             \A p \in Pages : p >= address' /\ p < s + SectorPages
                                => flash'[p] = Erased
      PROVE  SectorErased'
  <2>1. CASE address' = s + SectorPages
    <3>1. address' % SectorPages = 0
      BY <1>2, <2>1, NextSector
    <3>2. QED
      BY <3>1 DEF SectorErased, AtSector
  <2>2. CASE address' # s + SectorPages
    <3>1. s < address' /\ address' < s + SectorPages
      BY <1>1, <1>2, <2>2
    <3>2. QED
      BY <1>2, <3>1 DEF SectorErased
  <2>3. QED
    BY <2>1, <2>2
<1>3. CASE AtSector
  <2>1. \A p \in Pages : p >= address' /\ p < address + SectorPages
                           => flash'[p] = Erased
    BY <1>1, <1>3, FlashAfter DEF Pages
  <2>2. address % SectorPages = 0 /\ address <= address
        /\ address < address + SectorPages
    BY <1>1, <1>3 DEF AtSector
  <2>3. QED
    BY <1>1, <1>2, <2>1, <2>2
<1>4. CASE ~AtSector
  <2>1. PICK s \in Nat : /\ s % SectorPages = 0
                         /\ s < address /\ address < s + SectorPages
                         /\ \A p \in Pages : p >= address /\ p < s + SectorPages
                                               => flash[p] = Erased
    BY <1>4 DEF IInv, Gathered, SectorErased, WritePage, Looping
  <2>2. ASSUME NEW p \in Pages, p >= address', p < s + SectorPages
        PROVE  flash'[p] = Erased
    <3>1. p >= address /\ p # address
      BY <1>1, <2>2 DEF Pages
    <3>2. flash'[p] = flash[p]
      BY <1>4, <3>1, FlashAfter
    <3>3. QED
      BY <2>1, <2>2, <3>1, <3>2
  <2>3. s % SectorPages = 0 /\ s <= address /\ address < s + SectorPages
    BY <1>1, <2>1
  <2>4. QED
    BY <1>2, <2>2, <2>3
<1>5. QED
  BY <1>3, <1>4

\* A sector that is entered lies wholly in the place.
LEMMA TouchingAfter == ASSUME IInv, WritePage PROVE Touching'
<1>1. Target' = Target /\ Type' = Type /\ body' = body
  BY TargetKept DEF WritePage
<1>2. SUFFICES ASSUME Type = "FW", body.kind = "ota" => Target.size <= FwSize,
                      NEW p \in Pages, flash'[p] # Old
               PROVE  /\ body.kind \in {"ota", "image"}
                      /\ p >= Target.base /\ p < Target.base + FwPages
  BY <1>1 DEF Touching
<1>3. body.kind \in {"ota", "image"} /\ Target.size <= FwSize
  BY <1>2 DEF IInv, Recognised, WritePage, Looping
<1>4. /\ address \in Nat /\ address >= Target.base
      /\ address < Target.base + FwPages
      /\ Target.base \in Nat
  BY <1>3, AddressInPlace, TargetType
  DEF IInv, TypeOK, Counted, WritePage, Looping
<1>5. CASE p = address
  BY <1>3, <1>4, <1>5
<1>6. CASE AtSector /\ p \in address .. address + SectorPages - 1
  <2>1. Target.base + FwPages \in Nat /\ address % SectorPages = 0
        /\ (Target.base + FwPages) % SectorPages = 0
    BY <1>4, <1>6, PlaceEndsWithSector DEF AtSector, IInv
  <2>2. address + SectorPages <= Target.base + FwPages
    BY <1>4, <2>1, WholeSectors
  <2>3. QED
    BY <1>3, <1>4, <1>6, <2>1, <2>2 DEF Pages
<1>7. CASE p # address /\ ~(AtSector /\ p \in address .. address + SectorPages - 1)
  <2>1. flash[p] # Old
    BY <1>2, <1>7, FlashAfter
  <2>2. QED
    BY <1>2, <2>1 DEF IInv, Touching
<1>8. QED
  BY <1>5, <1>6, <1>7

LEMMA WritePageStep == IInv /\ WritePage => IInv'
<1> SUFFICES ASSUME IInv, WritePage PROVE IInv'
  OBVIOUS
<1>1. /\ TypeOK /\ st = "WRITE" /\ pageData' = << >> /\ address' = address + 1
      /\ dataLen' = dataLen - PageLeft
      /\ st' = IF len' # 0 THEN "WRITE" ELSE IF skip # 0 THEN "SKIP" ELSE "DONE"
      /\ UNCHANGED <<running, body, received, skip, answer>>
  BY DEF WritePage, Looping, IInv
<1>2. Target' = Target /\ Type' = Type /\ Acceptable' = Acceptable
      /\ \A k : PageOf(k)' = PageOf(k)
  BY <1>1, TargetKept
<1>3. /\ PageLeft \in Nat /\ PageLeft <= len /\ PageLeft <= dataLen
      /\ Len(pageData) + PageLeft = AtMost(PageLen, Target.size - InFlash)
      /\ len' = len - PageLeft /\ len' \in Nat /\ len \in Nat /\ skip \in Nat
      /\ len' # 0 => Len(pageData) + PageLeft = PageLen
      /\ InFlash \in Int /\ InFlash' = InFlash + PageLen
      /\ Position' = Position + PageLeft /\ Position \in Int
  BY <1>1, PageNumbers DEF TypeOK
<1>4. TypeOK'
  BY <1>1, <1>3, FlashAfter DEF TypeOK
<1>5. /\ address \in Nat /\ Len(pageData) \in Nat /\ address >= Target.base
      /\ InFlash + Len(pageData) + len = Target.size
      /\ Position = Target.first + InFlash + Len(pageData)
      /\ skip # 0 => running = 2
      /\ Target.base \in Nat /\ Target.first \in Nat /\ Target.size \in Nat
  BY <1>1, TargetType DEF IInv, Counted, TypeOK
<1>6. Counted'
  <2>1. SUFFICES ASSUME len' # 0
                 PROVE  /\ InFlash' + 0 + len' = Target.size
                        /\ Position' = Target.first + InFlash' + 0
                        /\ address' >= Target.base
    BY <1>1, <1>2, <1>3, <1>5 DEF Counted
  <2>2. Len(pageData) + PageLeft = PageLen
    BY <1>3, <2>1
  <2>3. InFlash' + 0 + len' = Target.size
    BY <1>3, <1>5, <2>2
  <2>4. Position' = Target.first + InFlash' + 0
    <3>1. Position' = Target.first + InFlash + (Len(pageData) + PageLeft)
      BY <1>3, <1>5
    <3>2. QED
      BY <1>3, <1>5, <2>2, <3>1
  <2>5. QED
    BY <1>1, <1>5, <2>3, <2>4
<1>7. Gathered'
  BY <1>1, OneMoreStored, SectorErasedAfter DEF Gathered
<1>8. ASSUME len' = 0 PROVE StoredBefore(FwPages)'
  <2>1. Target.size <= InFlash'
    BY <1>3, <1>5, <1>8 DEF AtMost
  <2>2. InFlash' = (address' - Target.base) * PageLen
    BY <1>2, Zenon DEF InFlash
  <2>3. ASSUME NEW k \in 0 .. FwPages - 1, k * PageLen < Target.size
        PROVE  k < address' - Target.base
    <3>1. k * PageLen < InFlash'
      <4>1. k * PageLen \in Int
        OBVIOUS
      <4>2. QED
        BY <1>3, <1>5, <2>1, <2>3, <4>1
    <3>2. k * PageLen < (address' - Target.base) * PageLen
      BY <2>2, <3>1, Zenon
    <3>3. address' - Target.base \in Int
      BY <1>1, <1>5
    <3>4. QED
      BY <3>2, <3>3, LessByFactor
  <2>4. StoredBefore(address - Target.base)'
    BY OneMoreStored
  <2>5. QED
    BY <1>2, <2>3, <2>4 DEF StoredBefore
<1>9. Skipping' /\ Ending'
  BY <1>1, <1>3, <1>5, <1>8 DEF Skipping, Ending, IInv
<1>10. Recognised'
  BY <1>1, <1>2 DEF IInv, Recognised
<1>11. Account'
  <2>1. Acceptable => Position + len + skip = body.len /\ answer # "error"
    BY <1>1 DEF IInv, Account
  <2>2. QED
    BY <1>1, <1>2, <1>3, <2>1 DEF Account
<1>12. ImageStored'
  BY <1>1 DEF IInv, Ending, ImageStored
<1>13. Starting'
  BY <1>1 DEF Starting
<1>14. QED
  BY <1>4, <1>6, <1>7, <1>9, <1>10, <1>11, <1>12, <1>13, TouchingAfter DEF IInv
-----------------------------------------------------------------------------
(* The theorems.                                                           *)

LEMMA StepHolds == IInv /\ [Next]_vars => IInv'
<1> SUFFICES ASSUME IInv, [Next]_vars PROVE IInv'
  OBVIOUS
<1>1. CASE UNCHANGED vars
  <2>1. /\ Target' = Target /\ Type' = Type /\ Acceptable' = Acceptable
        /\ \A k : PageOf(k)' = PageOf(k)
    BY <1>1, TargetKept DEF vars
  <2>2. TypeOK' /\ Starting' /\ Recognised' /\ Touching'
    BY <1>1, <2>1
    DEF vars, IInv, TypeOK, Starting, Recognised, Touching
  <2>3. Position' = Position /\ InFlash' = InFlash /\ SectorErased' = SectorErased
    BY <1>1, <2>1 DEF vars, Position, InFlash, SectorErased, AtSector
  <2>4. Counted' /\ Account'
    BY <1>1, <2>1, <2>3 DEF vars, IInv, Counted, Account
  <2>5. \A n : StoredBefore(n)' = StoredBefore(n)
    BY <1>1, <2>1 DEF vars, StoredBefore
  <2>6. Gathered' /\ Skipping' /\ Ending' /\ ImageStored'
    BY <1>1, <2>1, <2>3, <2>5
    DEF vars, IInv, Gathered, Skipping, Ending, ImageStored
  <2>7. QED
    BY <2>2, <2>4, <2>6 DEF IInv
<1>2. QED
  BY <1>1, FirstPartStep, NextPartStep, AbortedStep, RespondStep, StartStep,
     SkipStep, GatherStep, WritePageStep, IgnoreStep, ResetStep
  DEF Next, cgiUploadFirmware

LEMMA Invariance == Spec => []IInv
BY InitHolds, StepHolds, PTL DEF Spec

\* Every state's counters, page and flash have their types.
THEOREM TypeCorrect == Spec => []TypeOK
BY Invariance, PTL DEF IInv

\* An upload that is answered with success is in flash byte for byte, however
\* its body was cut into parts.
THEOREM ImageIsStored == Spec => []ImageStored
BY Invariance, PTL DEF IInv

\* A body that is what the page asks for is never refused.
THEOREM GoodBodyIsStored == Spec => []GoodIsStored
<1>1. IInv => GoodIsStored
  BY DEF IInv, Account, GoodIsStored
<1>2. QED
  BY <1>1, Invariance, PTL

\* Of the firmware that runs no page is erased or written, except by a single
\* image while user1 runs and by an image too large for its place.
THEOREM RunningIsSpared == Spec => []RunningSpared
<1>1. ASSUME IInv PROVE RunningSpared
  <2>1. SUFFICES ASSUME Type = "FW", body.kind = "ota" => Target.size <= FwSize,
                        ~(body.kind = "image" /\ running = 1),
                        NEW p \in RunningPages, flash[p] # Old
                 PROVE  FALSE
    BY DEF RunningSpared
  <2>2. p \in Pages /\ running \in {1, 2}
    BY <1>1, <2>1 DEF RunningPages, Pages, IInv, TypeOK, Type
  <2>3. /\ body.kind \in {"ota", "image"}
        /\ p >= Target.base /\ p < Target.base + FwPages
    BY <1>1, <2>1, <2>2 DEF IInv, Touching
  <2>4. QED
    BY <2>1, <2>2, <2>3 DEF RunningPages, Target
<1>2. QED
  BY <1>1, Invariance, PTL
-----------------------------------------------------------------------------
(* Numbers and their bits.                                                  *)

HIDE UploadAssumption

P2 == H!Enc!Pow2

\* A set of natural numbers that is not empty has a least one.
LEMMA LeastNumber ==
  ASSUME NEW T \in SUBSET Nat, T # {}
  PROVE  \E n \in T : \A m \in T : n <= m
<1> DEFINE Below == {0 .. n : n \in T}
           R == StrictSubsetOrdering(Nat)
           F == FiniteSubsetsOf(Nat)
<1>1. Below \subseteq F /\ Below # {}
  <2> SUFFICES ASSUME NEW n \in T PROVE 0 .. n \in SUBSET Nat /\ IsFiniteSet(0 .. n)
    BY DEF FiniteSubsetsOf
  <2> QED
    BY FS_Interval
<1>2. IsWellFoundedOn(R, F)
  BY FS_StrictSubsetOrderingWellFounded
<1>3. \E x \in Below : \A y \in Below : ~ (<<y, x>> \in R)
  <2> HIDE DEF Below, R, F
  <2> QED
    BY <1>1, <1>2, WFMin
<1>4. PICK n \in T : \A m \in T : ~ (<<0 .. m, 0 .. n>> \in R)
  BY <1>3
<1>5. ASSUME NEW m \in T, m < n PROVE FALSE
  <2>1. 0 .. m \subseteq 0 .. n /\ n \in 0 .. n /\ n \notin 0 .. m
    BY <1>5
  <2>2. <<0 .. m, 0 .. n>> \in R
    BY <2>1 DEF StrictSubsetOrdering
  <2> QED
    BY <2>2, <1>4
<1> QED
  BY <1>5

\* What holds of 0, and of n + 1 when it holds of n
LEMMA UpFromZero ==
  ASSUME NEW T, 0 \in T, \A n \in Nat : n \in T => n + 1 \in T
  PROVE  \A n \in Nat : n \in T
<1> SUFFICES ASSUME Nat \ T # {} PROVE FALSE
  OBVIOUS
<1>1. PICK n \in Nat \ T : \A m \in Nat \ T : n <= m
  BY LeastNumber
<1>2. n # 0 /\ n - 1 \in Nat
  BY <1>1
<1>3. n - 1 \in T
  BY <1>1, <1>2
<1>4. (n - 1) + 1 \in T
  BY <1>2, <1>3
<1> QED
  BY <1>1, <1>4

\* The encoder and the decoder mean the same by Pow2.
LEMMA SamePow2 == H!Enc!Pow2 = H!Dec!Pow2
BY DEF H!Enc!Pow2, H!Dec!Pow2

\* The powers of 2 up to n
Powers(f, n) ==
  f = [i \in 0 .. n |-> IF i = 0 THEN 1 ELSE 2 * f[i - 1]]

\* Up to every n, a function holds the powers of two.
LEMMA PowersExist == \A n \in Nat : \E f : Powers(f, n)
<1> DEFINE T == {n \in Nat : \E f : Powers(f, n)}
<1>1. 0 \in T
  <2>1. Powers([i \in 0 .. 0 |-> 1], 0)
    BY DEF Powers
  <2> QED
    BY <2>1
<1>2. ASSUME NEW n \in Nat, n \in T PROVE n + 1 \in T
  <2>1. PICK f : Powers(f, n)
    BY <1>2
  <2> DEFINE g == [i \in 0 .. n + 1 |-> IF i = n + 1 THEN 2 * f[n] ELSE f[i]]
  <2>2. ASSUME NEW i \in 0 .. n + 1
        PROVE  g[i] = IF i = 0 THEN 1 ELSE 2 * g[i - 1]
    <3>1. \A j \in 0 .. n : f[j] = IF j = 0 THEN 1 ELSE 2 * f[j - 1]
      BY <2>1 DEF Powers
    <3> QED
      BY <3>1
  <2>3. g = [i \in 0 .. n + 1 |-> IF i = 0 THEN 1 ELSE 2 * g[i - 1]]
    BY <2>2
  <2>4. Powers(g, n + 1)
    BY <2>3, Zenon DEF Powers
  <2> QED
    BY <2>4
<1> HIDE DEF T
<1>3. \A n \in Nat : n \in T
  BY <1>1, <1>2, UpFromZero
<1> QED
  BY <1>3 DEF T

\* Two such functions agree as far as both go.
LEMMA PowersUnique ==
  ASSUME NEW f, NEW g, NEW n \in Nat, NEW m \in Nat, Powers(f, n), Powers(g, m)
  PROVE  \A i \in Nat : i <= n /\ i <= m => f[i] = g[i]
<1> DEFINE T == {i \in Nat : i <= n /\ i <= m => f[i] = g[i]}
<1>1. /\ \A i \in 0 .. n : f[i] = IF i = 0 THEN 1 ELSE 2 * f[i - 1]
      /\ \A i \in 0 .. m : g[i] = IF i = 0 THEN 1 ELSE 2 * g[i - 1]
  BY DEF Powers
<1>2. 0 \in T
  BY <1>1
<1>3. ASSUME NEW i \in Nat, i \in T PROVE i + 1 \in T
  BY <1>1, <1>3
<1> HIDE DEF T
<1>4. \A i \in Nat : i \in T
  BY <1>2, <1>3, UpFromZero
<1> QED
  BY <1>4 DEF T

\* So the recursive function is what its definition says,
LEMMA Pow2Def == P2 = [n \in Nat |-> IF n = 0 THEN 1 ELSE 2 * P2[n - 1]]
<1> DEFINE fs == [n \in Nat |-> CHOOSE f : Powers(f, n)]
           g == [n \in Nat |-> fs[n][n]]
<1>1. \A n \in Nat : Powers(fs[n], n)
  BY PowersExist
<1>2. ASSUME NEW n \in Nat
      PROVE  g[n] = IF n = 0 THEN 1 ELSE 2 * g[n - 1]
  <2>1. \A i \in 0 .. n : fs[n][i] = IF i = 0 THEN 1 ELSE 2 * fs[n][i - 1]
    <3>1. Powers(fs[n], n)
      BY <1>1
    <3> HIDE DEF fs
    <3> QED
      BY <3>1 DEF Powers
  <2>2. CASE n = 0
    <3> HIDE DEF fs
    <3> QED
      BY <2>1, <2>2
  <2>3. CASE n # 0
    <3>1. n - 1 \in Nat /\ Powers(fs[n], n) /\ Powers(fs[n - 1], n - 1)
      BY <2>3, <1>1
    <3> HIDE DEF fs
    <3>2. fs[n][n - 1] = fs[n - 1][n - 1]
      BY <3>1, PowersUnique
    <3> QED
      BY <2>1, <2>3, <3>2
  <2> QED
    BY <2>2, <2>3
<1>3. g = [n \in Nat |-> IF n = 0 THEN 1 ELSE 2 * g[n - 1]]
  <2> HIDE DEF fs
  <2> QED
    BY <1>2
<1> HIDE DEF g
<1> QED
  BY <1>3 DEF P2, H!Enc!Pow2

\* which gives one power from the one before.
LEMMA Pow2Next ==
  /\ P2[0] = 1
  /\ \A n \in Nat : P2[n + 1] = 2 * P2[n]
BY Pow2Def

\* Powers of two are positive numbers,
LEMMA Pow2Type == \A n \in Nat : P2[n] \in Nat /\ P2[n] > 0
<1> DEFINE T == {n \in Nat : P2[n] \in Nat /\ P2[n] > 0}
<1>1. 0 \in T
  BY Pow2Next
<1>2. ASSUME NEW n \in Nat, n \in T PROVE n + 1 \in T
  BY <1>2, Pow2Next
<1> HIDE DEF T
<1>3. \A n \in Nat : n \in T
  BY <1>1, <1>2, UpFromZero
<1> QED
  BY <1>3 DEF T

\* the power of a sum is the product of the powers,
LEMMA Pow2Sum == ASSUME NEW a \in Nat PROVE \A b \in Nat : P2[a + b] = P2[a] * P2[b]
<1> DEFINE T == {b \in Nat : P2[a + b] = P2[a] * P2[b]}
<1>1. 0 \in T
  BY Pow2Next, Pow2Type
<1>2. ASSUME NEW b \in Nat, b \in T PROVE b + 1 \in T
  <2>1. P2[a + b + 1] = 2 * P2[a + b] /\ P2[b + 1] = 2 * P2[b]
    <3>1. a + b \in Nat
      OBVIOUS
    <3> QED
      BY <3>1, Pow2Next
  <2>2. P2[a + b] = P2[a] * P2[b]
    BY <1>2
  <2>3. \A x, y \in Nat : 2 * (x * y) = x * (2 * y)
    OBVIOUS
  <2>4. P2[a] \in Nat /\ P2[b] \in Nat
    BY Pow2Type
  <2>5. P2[a + (b + 1)] = P2[a] * P2[b + 1]
    <3>1. a + (b + 1) = a + b + 1
      OBVIOUS
    <3> QED
      BY <2>1, <2>2, <2>3, <2>4, <3>1
  <2> QED
    BY <2>5
<1> HIDE DEF T
<1>3. \A b \in Nat : b \in T
  BY <1>1, <1>2, UpFromZero
<1> QED
  BY <1>3 DEF T

\* and they grow.
LEMMA Pow2Grows == ASSUME NEW a \in Nat, NEW b \in Nat, a <= b PROVE P2[a] <= P2[b]
<1>1. b - a \in Nat /\ b = a + (b - a)
  OBVIOUS
<1>2. P2[b] = P2[a] * P2[b - a]
  BY <1>1, Pow2Sum
<1>3. \A x, y \in Nat : y > 0 => x <= x * y
  OBVIOUS
<1> QED
  BY <1>1, <1>2, <1>3, Pow2Type

\* A number is its quotient and its remainder,
LEMMA Division ==
  ASSUME NEW n \in Nat, NEW d \in Nat \ {0}
  PROVE  \E q, r \in Nat : q = n \div d /\ r = n % d /\ r < d /\ n = d * q + r
<1> DEFINE q == n \div d
           r == n % d
<1>1. n = q * d + (n % d) /\ q \in Nat
  BY DivMod
<1>2. r \in 0 .. d - 1
  BY DivMod
<1>3. r \in Nat /\ r < d
  BY <1>2
<1>4. n = q * d + r
  BY <1>1
<1> HIDE DEF q, r
<1>5. q * d = d * q
  BY <1>1
<1>6. n = d * q + r
  BY <1>4, <1>5
<1> QED
  BY <1>1, <1>3, <1>6 DEF q, r

\* and is divided in no other way.
LEMMA Quotient ==
  ASSUME NEW n \in Nat, NEW d \in Nat \ {0}, NEW b \in Nat, NEW t \in Nat,
         t < d, n = d * b + t
  PROVE  n \div d = b /\ n % d = t
<1>1. n \div d \in Nat /\ n % d \in Nat /\ n % d < d /\ n = d * (n \div d) + (n % d)
  BY Division
<1>2. \A x, y \in Nat : x < y => d * x + d <= d * y
  <2> SUFFICES ASSUME NEW x \in Nat, NEW y \in Nat, x < y PROVE d * x + d <= d * y
    OBVIOUS
  <2>1. x + 1 <= y
    OBVIOUS
  <2>2. d * (x + 1) <= d * y
    BY <2>1
  <2> QED
    BY <2>2
<1>3. d * b \in Nat /\ d * (n \div d) \in Nat
  BY <1>1
<1>4. ~ (n \div d < b)
  BY <1>1, <1>2, <1>3
<1>5. ~ (b < n \div d)
  BY <1>1, <1>2, <1>3
<1> QED
  BY <1>1, <1>4, <1>5

\* To divide by p and then by q is to divide by their product.
LEMMA DivDiv ==
  ASSUME NEW n \in Nat, NEW p \in Nat \ {0}, NEW q \in Nat \ {0}
  PROVE  (n \div p) \div q = n \div (p * q)
<1>1. PICK a, r \in Nat : a = n \div p /\ r = n % p /\ r < p /\ n = p * a + r
  BY Division
<1>2. PICK b, s \in Nat : b = a \div q /\ s = a % q /\ s < q /\ a = q * b + s
  BY Division
<1>3. p * a = (p * q) * b + p * s
  <2>1. p * (q * b + s) = p * (q * b) + p * s
    BY <1>2
  <2>2. p * (q * b) = (p * q) * b
    BY <1>2
  <2> QED
    BY <1>2, <2>1, <2>2
<1>4. p * s + r < p * q
  <2>1. s + 1 <= q
    BY <1>2
  <2>2. p * (s + 1) <= p * q
    BY <1>2, <2>1
  <2>3. p * (s + 1) = p * s + p
    BY <1>2
  <2>4. p * s \in Nat /\ p * q \in Nat
    BY <1>2
  <2> QED
    BY <1>1, <2>2, <2>3, <2>4
<1>5. p * q \in Nat /\ p * q > 0 /\ p * s + r \in Nat /\ (p * q) * b \in Nat /\ p * s \in Nat
  BY <1>1, <1>2
<1>6. n = (p * q) * b + (p * s + r)
  BY <1>1, <1>3, <1>5
<1>7. n \div (p * q) = b
  <2>1. PICK d \in Nat \ {0}, t \in Nat : d = p * q /\ t = p * s + r
    BY <1>5
  <2>2. t < d /\ n = d * b + t
    BY <1>4, <1>6, <2>1
  <2> QED
    BY <2>1, <2>2, Quotient
<1> QED
  BY <1>1, <1>2, <1>7

\* Of x, the m lowest bits of q
IsBits(x, q, m) ==
  Len(x) = m /\ \A i \in 1 .. m : x[i] = (q \div P2[m - i]) % 2

\* What get_bits puts together of m bits of q is q (heatshrink_decoder.c:304-350).
LEMMA NumberOfBits ==
  ASSUME NEW q \in Nat, NEW m \in Nat, q < P2[m], NEW x, IsBits(x, q, m)
  PROVE  H!Dec!Number(x) = q
<1> DEFINE g == [i \in 0 .. m |-> q \div P2[m - i]]
<1>1. \A i \in 0 .. m : g[i] \in Nat
  BY Pow2Type
<1>2. g[0] = 0
  BY Pow2Type
<1>3. ASSUME NEW i \in 1 .. m PROVE g[i] = 2 * g[i - 1] + x[i]
  <2>1. m - i \in Nat /\ m - (i - 1) = m - i + 1
    OBVIOUS
  <2>2. P2[m - (i - 1)] = P2[m - i] * 2
    BY <2>1, Pow2Next, Pow2Type
  <2>3. (q \div P2[m - i]) \div 2 = q \div (P2[m - i] * 2)
    BY <2>1, DivDiv, Pow2Type
  <2>4. g[i - 1] = g[i] \div 2
    BY <2>2, <2>3
  <2>5. x[i] = g[i] % 2
    BY DEF IsBits
  <2>6. g[i] \in Nat
    BY <1>1
  <2> HIDE DEF g
  <2> QED
    BY <2>4, <2>5, <2>6
<1>4. g[m] = q
  BY Pow2Next
<1> DEFINE Rec(h) == h = [i \in 0 .. m |-> IF i = 0 THEN 0 ELSE 2 * h[i - 1] + x[i]]
<1>5. Rec(g)
  <2>1. \A i \in 0 .. m : g[i] = IF i = 0 THEN 0 ELSE 2 * g[i - 1] + x[i]
    <3> HIDE DEF g
    <3> QED
      BY <1>2, <1>3
  <2> QED
    BY <2>1
<1> HIDE DEF g
<1>6. PICK h : Rec(h) /\ H!Dec!Number(x) = h[m]
  <2>1. Len(x) = m
    BY DEF IsBits
  <2>2. \E h : h = [i \in 0 .. Len(x) |-> IF i = 0 THEN 0 ELSE 2 * h[i - 1] + x[i]]
               /\ H!Dec!Number(x) = h[Len(x)]
    <3>1. \E h : h = [i \in 0 .. Len(x) |-> IF i = 0 THEN 0 ELSE 2 * h[i - 1] + x[i]]
      BY <1>5, <2>1
    <3> QED
      BY <3>1 DEF H!Dec!Number
  <2> QED
    BY <2>1, <2>2
<1> DEFINE T == {i \in Nat : i <= m => h[i] = g[i]}
<1>7. \A i \in 0 .. m : h[i] = IF i = 0 THEN 0 ELSE 2 * h[i - 1] + x[i]
  BY <1>6
<1> HIDE DEF Rec
<1>8. 0 \in T
  BY <1>2, <1>7
<1>9. ASSUME NEW i \in Nat, i \in T PROVE i + 1 \in T
  <2> SUFFICES ASSUME i + 1 <= m PROVE h[i + 1] = g[i + 1]
    OBVIOUS
  <2>1. h[i] = g[i]
    BY <1>9
  <2>2. i + 1 \in 1 .. m /\ (i + 1) - 1 = i /\ i + 1 # 0
    OBVIOUS
  <2>3. h[i + 1] = 2 * h[(i + 1) - 1] + x[i + 1]
    BY <1>7, <2>2
  <2>4. g[i + 1] = 2 * g[(i + 1) - 1] + x[i + 1]
    BY <1>3, <2>2
  <2> QED
    BY <2>1, <2>2, <2>3, <2>4
<1> HIDE DEF T
<1>10. \A i \in Nat : i \in T
  BY <1>8, <1>9, UpFromZero
<1>11. h[m] = g[m]
  BY <1>10 DEF T
<1> QED
  BY <1>4, <1>6, <1>11

\* A number that comes in two parts: the bits above the g lowest, and those
LEMMA HighBits ==
  ASSUME NEW q \in Nat, NEW m \in Nat, NEW g \in Nat, g <= m, q < P2[m],
         NEW x, Len(x) = m - g, \A i \in 1 .. m - g : x[i] = (q \div P2[m - i]) % 2
  PROVE  H!Dec!Number(x) = q \div P2[g]
<1>1. m - g \in Nat /\ m = g + (m - g)
  OBVIOUS
<1>2. PICK p \in Nat \ {0} : p = P2[g]
  BY Pow2Type
<1>3. PICK d \in Nat \ {0} : d = P2[m - g]
  BY <1>1, Pow2Type
<1>4. PICK b, t \in Nat : b = q \div p /\ t = q % p /\ t < p /\ q = p * b + t
  BY Division
<1>5. b < d
  <2>1. q < p * d
    BY <1>1, <1>2, <1>3, Pow2Sum
  <2>2. \A x1, x2, x3 \in Nat : x2 >= x3 => x1 * x2 >= x1 * x3
    OBVIOUS
  <2>3. ASSUME b >= d PROVE FALSE
    <3>1. p * b >= p * d
      BY <2>2, <2>3
    <3>2. p * b \in Nat /\ p * d \in Nat
      OBVIOUS
    <3> QED
      BY <1>4, <2>1, <3>1, <3>2
  <2> QED
    BY <2>3
<1>6. ASSUME NEW i \in 1 .. m - g
      PROVE  x[i] = (b \div P2[m - g - i]) % 2
  <2>1. m - g - i \in Nat /\ m - i = g + (m - g - i)
    OBVIOUS
  <2>2. PICK e \in Nat \ {0} : e = P2[m - g - i]
    BY <2>1, Pow2Type
  <2>3. P2[m - i] = p * e
    BY <1>2, <2>1, <2>2, Pow2Sum
  <2>4. b \div e = q \div (p * e)
    BY <1>4, DivDiv
  <2> QED
    BY <1>4, <2>2, <2>3, <2>4
<1>7. IsBits(x, b, m - g)
  BY <1>6 DEF IsBits
<1>8. H!Dec!Number(x) = b
  BY <1>1, <1>3, <1>5, <1>7, NumberOfBits
<1> QED
  BY <1>2, <1>4, <1>8

\* The number of the g low bits of q is q modulo the power,
LEMMA LowBits ==
  ASSUME NEW q \in Nat, NEW g \in Nat,
         NEW x, Len(x) = g, \A i \in 1 .. g : x[i] = (q \div P2[g - i]) % 2
  PROVE  H!Dec!Number(x) = q % P2[g]
<1>1. PICK p \in Nat \ {0} : p = P2[g]
  BY Pow2Type
<1>2. PICK h, r \in Nat : h = q \div p /\ r = q % p /\ r < p /\ q = p * h + r
  BY Division
<1>3. ASSUME NEW i \in 1 .. g PROVE x[i] = (r \div P2[g - i]) % 2
  <2>1. g - i \in Nat /\ i - 1 \in Nat /\ i \in Nat /\ g = g - i + i /\ i = (i - 1) + 1
    OBVIOUS
  <2>2. PICK a \in Nat \ {0} : a = P2[g - i]
    BY <2>1, Pow2Type
  <2>3. PICK c \in Nat : c = P2[i - 1]
    BY <2>1, Pow2Type
  <2>4. p = a * (2 * c)
    <3>1. P2[g] = a * P2[i]
      BY <2>1, <2>2, Pow2Sum
    <3>2. P2[i] = 2 * c
      BY <2>1, <2>3, Pow2Next
    <3> QED
      BY <1>1, <3>1, <3>2
  <2>5. PICK e, t \in Nat : e = r \div a /\ t = r % a /\ t < a /\ r = a * e + t
    BY Division
  <2>6. PICK k, b \in Nat : k = c * h /\ b = 2 * k + e
    <3>1. \A y, z \in Nat : y * z \in Nat
      OBVIOUS
    <3> QED
      BY <3>1
  <2>7. q = a * b + t
    <3>1. \A x1, x2, x3 \in Nat : (x1 * (2 * x2)) * x3 = x1 * (2 * (x2 * x3))
      OBVIOUS
    <3>2. p * h = a * (2 * k)
      BY <2>4, <2>6, <3>1
    <3>3. \A x1, x2, x3 \in Nat : x1 * (x2 + x3) = x1 * x2 + x1 * x3
      OBVIOUS
    <3>4. a * b = a * (2 * k) + a * e
      BY <2>6, <3>3
    <3>5. PICK y, z \in Nat : y = a * (2 * k) /\ z = a * e
      <4>1. a * (2 * k) \in Nat /\ a * e \in Nat
        OBVIOUS
      <4> QED
        BY <4>1
    <3>6. q = y + r
      BY <1>2, <3>2, <3>5
    <3>7. r = z + t
      BY <2>5, <3>5
    <3>8. a * b = y + z
      BY <3>4, <3>5
    <3> QED
      BY <3>6, <3>7, <3>8
  <2>8. q \div a = b
    BY <2>5, <2>7, Quotient
  <2>9. b % 2 = e % 2
    <3>1. \A y, z \in Nat : (2 * y + z) % 2 = z % 2
      OBVIOUS
    <3> QED
      BY <2>6, <3>1
  <2> QED
    BY <2>2, <2>5, <2>8, <2>9
<1>4. IsBits(x, r, g)
  BY <1>3 DEF IsBits
<1>5. H!Dec!Number(x) = r
  BY <1>1, <1>2, <1>4, NumberOfBits
<1> QED
  BY <1>1, <1>2, <1>5

\* and with the upper part it is q.
LEMMA WholeOfParts ==
  ASSUME NEW q \in Nat, NEW g \in Nat
  PROVE  (q \div P2[g]) * P2[g] + (q % P2[g]) = q
<1>1. PICK p \in Nat \ {0} : p = P2[g]
  BY Pow2Type
<1> QED
  BY <1>1, DivMod

-----------------------------------------------------------------------------
(* The stream of bits, and the tokens that a file is coded as.              *)

\* Bytes that are strings of eight bits
Octets == {x \in Seq(Int) : Len(x) = 8}

\* The bits of whole bytes and then of p
Flat(B, p) ==
  [k \in Nat |-> IF k < 8 * Len(B) THEN B[(k \div 8) + 1][(k % 8) + 1]
                 ELSE p[k - 8 * Len(B) + 1]]

BitCount(B, p) == 8 * Len(B) + Len(p)

\* What push_bits does to both
Pushed(B, p, x, B2, p2) ==
  LET all == p \o x
  IN /\ B2 = IF Len(all) < 8 THEN B ELSE Append(B, SubSeq(all, 1, 8))
     /\ p2 = IF Len(all) < 8 THEN all ELSE SubSeq(all, 9, Len(all))

\* What is behind the first n elements of a sequence
LEMMA TailOf ==
  ASSUME NEW A, NEW x \in Seq(A), NEW n \in 0 .. Len(x)
  PROVE  /\ SubSeq(x, n + 1, Len(x)) \in Seq(A) /\ Len(SubSeq(x, n + 1, Len(x))) = Len(x) - n
         /\ \A j \in 1 .. Len(x) - n : SubSeq(x, n + 1, Len(x))[j] = x[n + j]
OBVIOUS

\* Bit i of byte b is found where Flat looks for it.
LEMMA InOctet ==
  \A b \in Nat : \A i \in 0 .. 7 : (8 * b + i) \div 8 = b /\ (8 * b + i) % 8 = i
OBVIOUS

\* Where a bit is
LEMMA FlatAt ==
  ASSUME NEW B \in Seq(Octets), NEW p \in Seq(Int)
  PROVE  /\ \A k \in Nat : k < 8 * Len(B) => Flat(B, p)[k] = B[(k \div 8) + 1][(k % 8) + 1]
         /\ \A b \in Nat, j \in 1 .. 8 : b < Len(B) => Flat(B, p)[8 * b + j - 1] = B[b + 1][j]
         /\ \A j \in 1 .. Len(p) : Flat(B, p)[8 * Len(B) + j - 1] = p[j]
<1>1. Len(B) \in Nat /\ Len(p) \in Nat
  OBVIOUS
<1>2. \A k \in Nat : k < 8 * Len(B) => Flat(B, p)[k] = B[(k \div 8) + 1][(k % 8) + 1]
  BY DEF Flat
<1>3. ASSUME NEW b \in Nat, NEW j \in 1 .. 8, b < Len(B)
      PROVE  Flat(B, p)[8 * b + j - 1] = B[b + 1][j]
  <2>1. PICK k \in Nat : k = 8 * b + (j - 1)
    OBVIOUS
  <2>2. j - 1 \in 0 .. 7
    OBVIOUS
  <2>3. k \div 8 = b /\ k % 8 = j - 1
    BY <2>1, <2>2, InOctet
  <2>4. k < 8 * Len(B)
    BY <1>1, <1>3, <2>1
  <2>5. (k \div 8) + 1 = b + 1 /\ (k % 8) + 1 = j /\ 8 * b + j - 1 = k
    BY <2>1, <2>3
  <2>6. Flat(B, p)[k] = B[(k \div 8) + 1][(k % 8) + 1]
    BY <1>2, <2>4
  <2> QED
    BY <2>5, <2>6
<1>4. ASSUME NEW j \in 1 .. Len(p)
      PROVE  Flat(B, p)[8 * Len(B) + j - 1] = p[j]
  <2>1. PICK k \in Nat : k = 8 * Len(B) + j - 1
    <3>1. 8 * Len(B) + j - 1 \in Nat
      BY <1>1
    <3> QED
      BY <3>1
  <2>2. ~ (k < 8 * Len(B)) /\ k - 8 * Len(B) + 1 = j
    BY <1>1, <2>1
  <2>3. Flat(B, p)[k] = p[k - 8 * Len(B) + 1]
    BY <2>2 DEF Flat
  <2> QED
    BY <2>1, <2>2, <2>3
<1> QED
  BY <1>2, <1>3, <1>4

\* Pushing up to eight bits appends them to the stream and changes none before.
LEMMA PushedBits ==
  ASSUME NEW B \in Seq(Octets), NEW p \in Seq(Int), Len(p) < 8,
         NEW x \in Seq(Int), Len(x) <= 8, NEW B2, NEW p2, Pushed(B, p, x, B2, p2)
  PROVE  /\ B2 \in Seq(Octets) /\ p2 \in Seq(Int) /\ Len(p2) < 8
         /\ BitCount(B2, p2) = BitCount(B, p) + Len(x)
         /\ \A k \in Nat : k < BitCount(B, p) => Flat(B2, p2)[k] = Flat(B, p)[k]
         /\ \A j \in 1 .. Len(x) : Flat(B2, p2)[BitCount(B, p) + j - 1] = x[j]
<1> DEFINE all == p \o x
<1>1. /\ all \in Seq(Int) /\ Len(all) = Len(p) + Len(x)
      /\ \A j \in 1 .. Len(p) : all[j] = p[j]
      /\ \A j \in 1 .. Len(x) : all[Len(p) + j] = x[j]
  OBVIOUS
<1>2. Len(p) \in Nat /\ Len(x) \in Nat /\ Len(B) \in Nat
  OBVIOUS
<1>3. /\ B2 = IF Len(all) < 8 THEN B ELSE Append(B, SubSeq(all, 1, 8))
      /\ p2 = IF Len(all) < 8 THEN all ELSE SubSeq(all, 9, Len(all))
  BY DEF Pushed
<1> HIDE DEF all
<1>6. ASSUME /\ \A j \in 1 .. Len(all) : Flat(B2, p2)[8 * Len(B) + j - 1] = all[j]
             /\ \A k \in Nat : k < 8 * Len(B) => Flat(B2, p2)[k] = Flat(B, p)[k]
      PROVE  /\ \A k \in Nat : k < BitCount(B, p) => Flat(B2, p2)[k] = Flat(B, p)[k]
             /\ \A j \in 1 .. Len(x) : Flat(B2, p2)[BitCount(B, p) + j - 1] = x[j]
  <2>1. ASSUME NEW k \in Nat, ~ (k < 8 * Len(B)), k < BitCount(B, p)
        PROVE  Flat(B2, p2)[k] = Flat(B, p)[k]
    <3>1. PICK j \in 1 .. Len(p) : k = 8 * Len(B) + j - 1
      <4>1. k - 8 * Len(B) + 1 \in 1 .. Len(p)
        BY <1>2, <2>1 DEF BitCount
      <4>2. k = 8 * Len(B) + (k - 8 * Len(B) + 1) - 1
        BY <1>2
      <4> QED
        BY <4>1, <4>2
    <3>2. j \in 1 .. Len(all)
      BY <1>1, <1>2
    <3>3. Flat(B2, p2)[k] = all[j]
      BY <1>6, <3>1, <3>2
    <3>4. Flat(B, p)[k] = p[j]
      BY <3>1, FlatAt
    <3> QED
      BY <1>1, <3>3, <3>4
  <2>2. ASSUME NEW j \in 1 .. Len(x)
        PROVE  Flat(B2, p2)[BitCount(B, p) + j - 1] = x[j]
    <3>1. PICK i \in 1 .. Len(all) : i = Len(p) + j
      BY <1>1, <1>2
    <3>2. Flat(B2, p2)[8 * Len(B) + i - 1] = all[i]
      BY <1>6
    <3>3. BitCount(B, p) + j - 1 = 8 * Len(B) + i - 1
      BY <1>2, <3>1 DEF BitCount
    <3> QED
      BY <1>1, <3>1, <3>2, <3>3
  <2> QED
    BY <1>6, <2>1, <2>2
<1>4. CASE Len(all) < 8
  <2>1. B2 = B /\ p2 = all
    BY <1>3, <1>4
  <2>2. BitCount(B2, p2) = BitCount(B, p) + Len(x)
    <3>1. Len(B2) = Len(B) /\ Len(p2) = Len(p) + Len(x)
      BY <1>1, <2>1
    <3> QED
      BY <1>2, <3>1 DEF BitCount
  <2>3. ASSUME NEW j \in 1 .. Len(all)
        PROVE  Flat(B2, p2)[8 * Len(B) + j - 1] = all[j]
    BY <1>1, <2>1, FlatAt
  <2>4. ASSUME NEW k \in Nat, k < 8 * Len(B) PROVE Flat(B2, p2)[k] = Flat(B, p)[k]
    BY <1>1, <2>1, <2>4, FlatAt
  <2> QED
    BY <1>1, <1>4, <1>6, <2>1, <2>2, <2>3, <2>4
<1>5. CASE ~ (Len(all) < 8)
  <2>1. B2 = Append(B, SubSeq(all, 1, 8)) /\ p2 = SubSeq(all, 9, Len(all))
    BY <1>3, <1>5
  <2>2. /\ SubSeq(all, 1, 8) \in Octets
        /\ \A j \in 1 .. 8 : SubSeq(all, 1, 8)[j] = all[j]
    BY <1>1, <1>2, <1>5 DEF Octets
  <2>3. /\ p2 \in Seq(Int) /\ Len(p2) = Len(all) - 8
        /\ \A j \in 1 .. Len(all) - 8 : p2[j] = all[8 + j]
    <3>1. 8 \in 0 .. Len(all) /\ 8 + 1 = 9
      BY <1>1, <1>2, <1>5
    <3>2. /\ SubSeq(all, 8 + 1, Len(all)) \in Seq(Int)
          /\ Len(SubSeq(all, 8 + 1, Len(all))) = Len(all) - 8
          /\ \A j \in 1 .. Len(all) - 8 : SubSeq(all, 8 + 1, Len(all))[j] = all[8 + j]
      BY <1>1, <3>1, TailOf
    <3> QED
      BY <2>1, <3>1, <3>2
  <2>4. /\ B2 \in Seq(Octets) /\ Len(B2) = Len(B) + 1
        /\ \A i \in 1 .. Len(B) : B2[i] = B[i]
        /\ \A j \in 1 .. 8 : B2[Len(B) + 1][j] = all[j]
    BY <1>2, <2>1, <2>2
  <2>5. BitCount(B2, p2) = BitCount(B, p) + Len(x) /\ Len(p2) < 8
    BY <1>1, <1>2, <2>3, <2>4 DEF BitCount
  <2>6. ASSUME NEW k \in Nat, k < 8 * Len(B)
        PROVE  Flat(B2, p2)[k] = Flat(B, p)[k]
    <3>1. (k \div 8) + 1 \in 1 .. Len(B)
      BY <1>2, <2>6
    <3>2. k < 8 * Len(B2)
      BY <1>2, <2>4, <2>6
    <3> QED
      BY <2>4, <2>6, <3>1, <3>2 DEF Flat
  <2>7. ASSUME NEW j \in 1 .. Len(all)
        PROVE  Flat(B2, p2)[8 * Len(B) + j - 1] = all[j]
    <3>1. CASE j <= 8
      <4>1. j \in 1 .. 8 /\ Len(B) < Len(B2)
        BY <1>2, <2>4, <3>1
      <4>2. Flat(B2, p2)[8 * Len(B) + j - 1] = B2[Len(B) + 1][j]
        BY <1>2, <2>3, <2>4, <4>1, FlatAt
      <4> QED
        BY <2>4, <4>1, <4>2
    <3>2. CASE j > 8
      <4>1. PICK i \in 1 .. Len(p2) : j = 8 + i
        <5>1. j - 8 \in 1 .. Len(p2) /\ j = 8 + (j - 8)
          BY <1>1, <1>2, <2>3, <3>2
        <5> QED
          BY <5>1
      <4>2. Flat(B2, p2)[8 * Len(B2) + i - 1] = p2[i]
        BY <2>3, <2>4, FlatAt
      <4>3. 8 * Len(B2) + i - 1 = 8 * Len(B) + j - 1
        BY <1>2, <2>4, <4>1
      <4> QED
        BY <2>3, <4>1, <4>2, <4>3
    <3> QED
      BY <3>1, <3>2
  <2> QED
    BY <1>6, <2>3, <2>4, <2>5, <2>6, <2>7
<1> QED
  BY <1>4, <1>5
-----------------------------------------------------------------------------
Window == P2[WindowBits]
Ahead == P2[LookaheadBits]
RefLen == 1 + WindowBits + LookaheadBits

\* The bits of a byte, and of a reference q bytes back of m bytes
LiteralBits(c) == [j \in 1 .. 9 |-> IF j = 1 THEN 1 ELSE (c \div P2[9 - j]) % 2]
ReferenceBits(q, m) ==
  [j \in 1 .. RefLen |->
     IF j = 1 THEN 0
     ELSE IF j <= 1 + WindowBits THEN ((q - 1) \div P2[1 + WindowBits - j]) % 2
     ELSE ((m - 1) \div P2[RefLen - j]) % 2]

\* From a on, the first k bits are those of x.
Begins(S, a, x, k) == \A j \in 1 .. k : S[a + j - 1] = x[j]

\* A token of the bits from t[1] to u[1], for the bytes of the file from t[2] to u[2]
LiteralToken(F, S, t, u) ==
  /\ t[2] < Len(F) /\ u = <<t[1] + 9, t[2] + 1>>
  /\ Begins(S, t[1], LiteralBits(F[t[2] + 1]), 9)

Repeated(F, f, q, m) ==
  /\ q \in 1 .. Window /\ m \in 1 .. Ahead /\ q <= f /\ f + m <= Len(F)
  /\ \A i \in f + 1 .. f + m : F[i] = F[i - q]

ReferenceToken(F, S, t, u, q, m) ==
  /\ Repeated(F, t[2], q, m) /\ u = <<t[1] + RefLen, t[2] + m>>
  /\ Begins(S, t[1], ReferenceBits(q, m), RefLen)

Token(F, S, t, u) == LiteralToken(F, S, t, u) \/ \E q, m : ReferenceToken(F, S, t, u, q, m)

\* The n first bits are tokens for the f first bytes; T is where tokens begin and end.
Boundaries(F, S, T, n, f) ==
  /\ T \in SUBSET (Nat \X Nat) /\ <<0, 0>> \in T /\ <<n, f>> \in T
  /\ \A t \in T : t[1] <= n /\ (t = <<n, f>> \/ \E u \in T : Token(F, S, t, u))

Coded(F, S, n, f) == \E T : Boundaries(F, S, T, n, f)

\* The same, and then the first k bits of x
Said(F, S, n, f, x, k) == k <= n /\ Coded(F, S, n - k, f) /\ Begins(S, n - k, x, k)

Agree(S, S2, n) == \A k \in Nat : k < n => S2[k] = S[k]

\* The sizes that HeatshrinkAssumption gives
LEMMA BitsType ==
  /\ WindowBits \in Nat /\ LookaheadBits \in Nat /\ RefLen \in Nat /\ RefLen >= 8
  /\ Window \in Nat /\ Ahead \in Nat /\ Window >= 16 /\ Ahead >= 4
  /\ 2 * Ahead <= Window
<1>1. WindowBits \in Nat /\ LookaheadBits \in Nat /\ RefLen \in Nat /\ RefLen >= 8
      /\ 4 <= WindowBits /\ 2 <= LookaheadBits /\ LookaheadBits + 1 <= WindowBits
  BY HeatshrinkAssumption DEF RefLen
<1>2. P2[0] = 1 /\ P2[1] = 2 /\ P2[2] = 4 /\ P2[3] = 8 /\ P2[4] = 16
  <2>1. P2[0] = 1
    BY Pow2Next
  <2>2. P2[0 + 1] = 2
    BY <2>1, Pow2Next
  <2>3. P2[1 + 1] = 4
    BY <2>2, Pow2Next
  <2>4. P2[2 + 1] = 8
    BY <2>3, Pow2Next
  <2>5. P2[3 + 1] = 16
    BY <2>4, Pow2Next
  <2> QED
    BY <2>1, <2>2, <2>3, <2>4, <2>5
<1>3. P2[4] <= P2[WindowBits] /\ P2[2] <= P2[LookaheadBits]
  BY <1>1, Pow2Grows
<1>4. P2[LookaheadBits + 1] = 2 * P2[LookaheadBits]
  BY <1>1, Pow2Next
<1>5. P2[LookaheadBits + 1] <= P2[WindowBits]
  <2>1. LookaheadBits + 1 \in Nat
    BY <1>1
  <2> QED
    BY <1>1, <2>1, Pow2Grows
<1>6. P2[WindowBits] \in Nat /\ P2[LookaheadBits] \in Nat
  BY <1>1, Pow2Type
<1> QED
  BY <1>1, <1>2, <1>3, <1>4, <1>5, <1>6 DEF Window, Ahead

\* A token has eight bits at least.
LEMMA TokenGrows ==
  ASSUME NEW F, NEW S, NEW t \in Nat \X Nat, NEW u, Token(F, S, t, u)
  PROVE  u[1] \in Nat /\ u[1] >= t[1] + 8
BY BitsType DEF Token, LiteralToken, ReferenceToken

\* A token that ends by n is one of every stream that agrees up to n,
LEMMA TokenKept ==
  ASSUME NEW F, NEW S, NEW S2, NEW n \in Nat, Agree(S, S2, n),
         NEW t \in Nat \X Nat, NEW u, u[1] <= n, Token(F, S, t, u)
  PROVE  Token(F, S2, t, u)
<1>1. ASSUME NEW x, NEW k \in Nat, t[1] + k <= n, Begins(S, t[1], x, k)
      PROVE  Begins(S2, t[1], x, k)
  BY <1>1 DEF Begins, Agree
<1>2. CASE LiteralToken(F, S, t, u)
  <2>1. t[1] + 9 <= n
    BY <1>2 DEF LiteralToken
  <2> QED
    BY <1>1, <1>2, <2>1 DEF LiteralToken, Token
<1>3. ASSUME NEW q, NEW m, ReferenceToken(F, S, t, u, q, m) PROVE ReferenceToken(F, S2, t, u, q, m)
  <2>1. t[1] + RefLen <= n
    BY <1>3 DEF ReferenceToken
  <2> QED
    BY <1>1, <1>3, <2>1, BitsType DEF ReferenceToken
<1> QED
  BY <1>2, <1>3 DEF Token

\* and so is all that the first n bits code.
LEMMA CodedKept ==
  ASSUME NEW F, NEW S, NEW S2, NEW n \in Nat, NEW f, Coded(F, S, n, f), Agree(S, S2, n)
  PROVE  Coded(F, S2, n, f)
<1>1. PICK T : Boundaries(F, S, T, n, f)
  BY DEF Coded
<1>2. ASSUME NEW t \in T, t # <<n, f>> PROVE \E u \in T : Token(F, S2, t, u)
  <2>1. PICK u \in T : Token(F, S, t, u)
    BY <1>1, <1>2 DEF Boundaries
  <2>2. t \in Nat \X Nat /\ u[1] <= n
    BY <1>1 DEF Boundaries
  <2> QED
    BY <2>1, <2>2, TokenKept
<1>3. Boundaries(F, S2, T, n, f)
  BY <1>1, <1>2 DEF Boundaries
<1> QED
  BY <1>3 DEF Coded

\* No bits code nothing.
LEMMA NothingCoded == \A F, S : Coded(F, S, 0, 0)
<1> TAKE F, S
<1>1. Boundaries(F, S, {<<0, 0>>}, 0, 0)
  BY DEF Boundaries
<1> QED
  BY <1>1 DEF Coded

\* Before the first bit of a token, what is coded is coded.
LEMMA SaidNothing ==
  ASSUME NEW F, NEW S, NEW n \in Nat, NEW f, NEW x
  PROVE  Coded(F, S, n, f) <=> Said(F, S, n, f, x, 0)
BY DEF Said, Begins

\* d more bits of a token are said.
LEMMA SaidMore ==
  ASSUME NEW F, NEW S, NEW S2, NEW n \in Nat, NEW f, NEW x, NEW k \in Nat, NEW d \in Nat,
         Said(F, S, n, f, x, k), Agree(S, S2, n), \A j \in 1 .. d : S2[n + j - 1] = x[k + j]
  PROVE  Said(F, S2, n + d, f, x, k + d)
<1>1. k <= n /\ Coded(F, S, n - k, f) /\ Begins(S, n - k, x, k) /\ n - k \in Nat
  BY DEF Said
<1>2. Agree(S, S2, n - k)
  BY <1>1 DEF Agree
<1>3. Coded(F, S2, n - k, f)
  BY <1>1, <1>2, CodedKept
<1>4. (n + d) - (k + d) = n - k /\ k + d <= n + d
  BY <1>1
<1>5. ASSUME NEW j \in 1 .. k + d PROVE S2[n - k + j - 1] = x[j]
  <2>1. CASE j <= k
    <3>1. S[n - k + j - 1] = x[j]
      BY <1>1, <2>1 DEF Begins
    <3>2. n - k + j - 1 \in Nat /\ n - k + j - 1 < n
      BY <1>1, <2>1
    <3> QED
      BY <3>1, <3>2 DEF Agree
  <2>2. CASE j > k
    <3>1. j - k \in 1 .. d /\ k + (j - k) = j /\ n + (j - k) - 1 = n - k + j - 1
      BY <2>2
    <3> QED
      BY <3>1
  <2> QED
    BY <2>1, <2>2
<1> QED
  BY <1>3, <1>4, <1>5 DEF Said, Begins

\* A token more
LEMMA TokenAdded ==
  ASSUME NEW F, NEW S, NEW a \in Nat, NEW n \in Nat, NEW f \in Nat, NEW g \in Nat, a <= n,
         Coded(F, S, a, f), Token(F, S, <<a, f>>, <<n, g>>)
  PROVE  Coded(F, S, n, g)
<1>1. PICK T : Boundaries(F, S, T, a, f)
  BY DEF Coded
<1> DEFINE U == T \cup {<<n, g>>}
<1>2. U \in SUBSET (Nat \X Nat) /\ <<0, 0>> \in U /\ <<n, g>> \in U
  BY <1>1 DEF Boundaries
<1>3. ASSUME NEW t \in U PROVE t[1] <= n /\ (t = <<n, g>> \/ \E u \in U : Token(F, S, t, u))
  <2>1. CASE t \in T
    <3>1. t \in Nat \X Nat /\ t[1] <= a /\ (t = <<a, f>> \/ \E u \in T : Token(F, S, t, u))
      BY <1>1, <2>1 DEF Boundaries
    <3> QED
      BY <3>1
  <2>2. CASE t = <<n, g>>
    BY <2>2
  <2> QED
    BY <2>1, <2>2
<1>4. Boundaries(F, S, U, n, g)
  <2> HIDE DEF U
  <2> QED
    BY <1>2, <1>3 DEF Boundaries
<1> QED
  BY <1>4 DEF Coded

\* A literal is complete with nine bits,
LEMMA SaidLiteral ==
  ASSUME NEW F, NEW S, NEW n \in Nat, NEW f \in Nat, f < Len(F),
         Said(F, S, n, f, LiteralBits(F[f + 1]), 9)
  PROVE  Coded(F, S, n, f + 1)
<1>1. n - 9 \in Nat /\ Coded(F, S, n - 9, f) /\ Begins(S, n - 9, LiteralBits(F[f + 1]), 9)
  BY DEF Said
<1>2. LiteralToken(F, S, <<n - 9, f>>, <<n, f + 1>>)
  BY <1>1 DEF LiteralToken
<1>3. Token(F, S, <<n - 9, f>>, <<n, f + 1>>)
  BY <1>2 DEF Token
<1> QED
  BY <1>1, <1>3, TokenAdded

\* a back reference with RefLen.
LEMMA SaidReference ==
  ASSUME NEW F, NEW S, NEW n \in Nat, NEW f \in Nat, NEW q, NEW m \in Nat, Repeated(F, f, q, m),
         Said(F, S, n, f, ReferenceBits(q, m), RefLen)
  PROVE  Coded(F, S, n, f + m)
<1>1. n - RefLen \in Nat /\ Coded(F, S, n - RefLen, f)
      /\ Begins(S, n - RefLen, ReferenceBits(q, m), RefLen)
  BY BitsType DEF Said
<1>2. ReferenceToken(F, S, <<n - RefLen, f>>, <<n, f + m>>, q, m)
  BY <1>1, BitsType DEF ReferenceToken
<1>3. Token(F, S, <<n - RefLen, f>>, <<n, f + m>>)
  BY <1>2 DEF Token
<1> QED
  BY <1>1, <1>3, BitsType, TokenAdded

-----------------------------------------------------------------------------
(* The encoder: h has been given s bytes of F, and B has come out.          *)

EncFields ==
  {"buffer", "input_size", "state", "match_scan_index", "match_length", "match_pos",
   "flags", "outgoing", "bits"}

EncType(h) ==
  /\ DOMAIN h = EncFields
  /\ h.buffer \in [0 .. 2 * Window - 1 -> Int]
  /\ h.input_size \in 0 .. Window /\ h.match_scan_index \in 0 .. h.input_size
  /\ h.match_length \in Nat /\ h.match_pos \in Nat
  /\ h.outgoing \in Seq(Int) /\ h.bits \in Seq(Int) /\ Len(h.bits) < 8

\* The bytes before the input, and before the scan
Base(h, s) == s - h.input_size
Scan(h, s) == Base(h, s) + h.match_scan_index

\* What of the file is in the buffer
EncWindow(F, h, s) ==
  /\ Base(h, s) >= 0
  /\ \A i \in 0 .. 2 * Window - 1 :
       i >= Window - Base(h, s) /\ i < Window + h.input_size
         => h.buffer[i] = F[Base(h, s) + i - Window + 1]

Ends(h) == "IS_FINISHING" \in h.flags

EncFlags(F, h, s) ==
  /\ "ON_FINAL_LITERAL" \notin h.flags
  /\ "HAS_LITERAL" \in h.flags =>
       h.state \in {"YIELD_TAG_BIT", "YIELD_LITERAL"} /\ h.match_length = 0
  /\ "BACKLOG_IS_PARTIAL" \in h.flags => Base(h, s) >= Window - Ahead
  /\ "BACKLOG_IS_FILLED" \in h.flags => Base(h, s) >= Window
  /\ Ends(h) => s = Len(F)
  /\ h.state = "NOT_FULL" => ~ Ends(h) /\ h.match_scan_index = 0
  /\ h.state # "NOT_FULL" /\ ~ Ends(h) => h.input_size = Window
  /\ h.state \in {"FLUSH_BITS", "DONE"} => Ends(h) /\ h.match_scan_index = h.input_size
  /\ h.state = "SAVE_BACKLOG" =>
       h.match_scan_index >= h.input_size - (IF Ends(h) THEN 0 ELSE Ahead)

Matched(F, h, s) ==
  /\ h.match_scan_index + h.match_length <= h.input_size
  /\ Repeated(F, Scan(h, s), h.match_pos, h.match_length)

\* Of the first e bits of a reference, outgoing is still to come.
Saying(F, h, B, s, e) ==
  LET x == ReferenceBits(h.match_pos, h.match_length)
      k == e - Len(h.outgoing)
  IN /\ Matched(F, h, s) /\ k \in Nat
     /\ Said(F, Flat(B, h.bits), BitCount(B, h.bits), Scan(h, s), x, k)
     /\ \A j \in 1 .. Len(h.outgoing) : h.outgoing[j] = x[k + j]

EncCode(F, h, B, s) ==
  LET S == Flat(B, h.bits)
      n == BitCount(B, h.bits)
      f == Scan(h, s)
  IN /\ h.state \in {"NOT_FULL", "FILLED", "SEARCH", "SAVE_BACKLOG", "FLUSH_BITS"} =>
          Coded(F, S, n, f)
     /\ h.state = "YIELD_TAG_BIT" /\ h.match_length = 0 =>
          h.match_scan_index > 0 /\ Coded(F, S, n, f - 1)
     /\ h.state = "YIELD_TAG_BIT" /\ h.match_length # 0 =>
          Coded(F, S, n, f) /\ Matched(F, h, s)
     /\ h.state = "YIELD_LITERAL" =>
          /\ h.match_scan_index > 0 /\ h.match_length = 0
          /\ Said(F, S, n, f - 1, LiteralBits(F[f]), 1)
     /\ h.state = "YIELD_BR_INDEX" => Saying(F, h, B, s, 1 + WindowBits)
     /\ h.state = "YIELD_BR_LENGTH" => Saying(F, h, B, s, RefLen)
     /\ h.state = "DONE" =>
          \E m \in Nat : /\ m <= 8 * Len(B) /\ 8 * Len(B) <= m + 7
                         /\ Coded(F, Flat(B, << >>), m, f)

EncOk(F, h, B, s) ==
  /\ F \in Seq(0 .. 255) /\ B \in Seq(Octets) /\ s \in 0 .. Len(F)
  /\ EncType(h) /\ EncWindow(F, h, s) /\ EncFlags(F, h, s) /\ EncCode(F, h, B, s)
-----------------------------------------------------------------------------
(* The decoder: of B the first c bytes are taken, and o bytes have come out. *)

DecFields ==
  {"input", "input_index", "size", "bits", "state", "window", "head_index",
   "output_index", "output_count"}

Unread(h) == Len(h.input) - h.input_index

DecType(h) ==
  /\ DOMAIN h = DecFields
  /\ h.input \in Seq(Octets) /\ h.input_index \in Nat
  /\ IF h.input = << >> THEN h.input_index = 0 ELSE h.input_index < Len(h.input)
  /\ h.size \in Nat /\ h.bits \in Seq(Int) /\ Len(h.bits) < 8
  /\ h.window \in [0 .. Window - 1 -> Int] /\ h.head_index \in Nat
  /\ h.output_index \in Nat /\ h.output_count \in Nat

\* The bits that are left of the last byte taken, and the bytes that are not taken
DecInput(h, B, c) ==
  /\ c \in Nat /\ c + Unread(h) <= Len(B) /\ Len(h.bits) <= 8 * c
  /\ \A j \in 1 .. Unread(h) : h.input[h.input_index + j] = B[c + j]
  /\ \A j \in 1 .. Len(h.bits) : h.bits[j] = Flat(B, << >>)[8 * c - Len(h.bits) + j - 1]

DecWindow(F, h, o) ==
  /\ o \in 0 .. Len(F) /\ h.head_index = o % Window
  /\ \A i \in 1 .. o : i > o - Window => h.window[(i - 1) % Window] = F[i]

\* The upper of two parts of a number of w bits
Upper(v, w) == IF w > GetBits THEN (v \div P2[GetBits]) * P2[GetBits] ELSE 0
LowLen(w) == IF w > GetBits THEN GetBits ELSE w

\* Within the reference from t on: p bits are taken.
InReference(h, t, q, m, p, o) ==
  \/ /\ h.state = "BACKREF_INDEX_MSB" /\ WindowBits > GetBits
     /\ p = t[1] + 1 /\ o = t[2]
  \/ /\ h.state = "BACKREF_INDEX_LSB" /\ h.output_index = Upper(q - 1, WindowBits)
     /\ p = t[1] + 1 + WindowBits - LowLen(WindowBits) /\ o = t[2]
  \/ /\ h.state = "BACKREF_COUNT_MSB" /\ LookaheadBits > GetBits
     /\ h.output_index = q /\ p = t[1] + 1 + WindowBits /\ o = t[2]
  \/ /\ h.state = "BACKREF_COUNT_LSB" /\ h.output_index = q
     /\ h.output_count = Upper(m - 1, LookaheadBits)
     /\ p = t[1] + RefLen - LowLen(LookaheadBits) /\ o = t[2]
  \/ /\ h.state = "YIELD_BACKREF" /\ h.output_index = q /\ h.output_count > 0
     /\ p = t[1] + RefLen /\ t[2] <= o /\ o + h.output_count = t[2] + m

\* Between two tokens, or in one
DecPlace(F, h, S, T, p, o) ==
  \/ h.state \in {"EMPTY", "INPUT_AVAILABLE", "CHECK_FOR_MORE_INPUT"} /\ <<p, o>> \in T
  \/ /\ h.state = "YIELD_LITERAL"
     /\ \E t, u \in T : t = <<p - 1, o>> /\ LiteralToken(F, S, t, u)
  \/ \E t, u \in T : \E q, m : ReferenceToken(F, S, t, u, q, m) /\ InReference(h, t, q, m, p, o)

DecOk(F, h, B, c, o) ==
  /\ F \in Seq(0 .. 255) /\ B \in Seq(Octets)
  /\ DecType(h) /\ DecInput(h, B, c) /\ DecWindow(F, h, o)
  /\ h.state = "EMPTY" => h.input = << >>
  /\ h.state = "INPUT_AVAILABLE" => h.input # << >>
  /\ \E T : \E n \in Nat :
       /\ n <= 8 * Len(B) /\ 8 * Len(B) <= n + 7
       /\ Boundaries(F, Flat(B, << >>), T, n, Len(F))
       /\ DecPlace(F, h, Flat(B, << >>), T, 8 * c - Len(h.bits), o)

\* The decoder waits for input.
Idle(h) ==
  /\ h.input = << >>
  /\ \/ h.state = "EMPTY"
     \/ h.state = "YIELD_LITERAL"
     \/ h.state = "BACKREF_INDEX_MSB" /\ Len(h.bits) < WindowBits - GetBits
     \/ h.state = "BACKREF_INDEX_LSB" /\ Len(h.bits) < LowLen(WindowBits)
     \/ h.state = "BACKREF_COUNT_MSB" /\ Len(h.bits) < LookaheadBits - GetBits
     \/ h.state = "BACKREF_COUNT_LSB" /\ Len(h.bits) < LowLen(LookaheadBits)
-----------------------------------------------------------------------------
(* The tool                                                                 *)

EncSteps ==
  {"encode: read", "encode: sink", "encode: poll", "encode: polling", "encode: finish"}

\* What has come out of the encoder, and how much of the file has gone in
PutOut == IF step = "encode: polling" THEN packed \o oi.buf ELSE packed
Sunk == Len(file) - Len(rest) - Len(data)

EncPolls ==
  step = "encode: polling" =>
    /\ DOMAIN oi = {"buf", "size", "res"} /\ oi.buf \in Seq(Octets)
    /\ oi.size \in Nat /\ oi.size > 0 /\ oi.res \in {"busy", "MORE", "EMPTY"}
    /\ oi.res = "EMPTY" /\ oi.buf = << >> => hse.state \in {"NOT_FULL", "DONE"}

\* What is left to be read, and what is read
EncFeed ==
  /\ rest \in Seq(Int) /\ data \in Seq(Int) /\ Len(rest) + Len(data) <= Len(file)
  /\ \A i \in 1 .. Len(rest) : rest[i] = file[Len(file) - Len(rest) + i]
  /\ \A i \in 1 .. Len(data) : data[i] = file[Sunk + i]
  /\ atEnd => rest = << >> /\ data = << >>
  /\ step = "encode: read" => data = << >>
  /\ step = "encode: finish" => atEnd /\ hse.state \in {"NOT_FULL", "DONE"}

Encoding ==
  step \in EncSteps =>
    /\ packed \in Seq(Octets) /\ EncPolls /\ EncFeed
    /\ EncOk(file, hse, PutOut, Sunk)
    /\ hsd = H!Dec!Fresh(sizes.buffer) /\ unpacked = << >>

DecSteps == {"decode: read", "decode: sink", "decode: poll", "decode: polling", "end"}

\* What has come out of the decoder, and how much it has taken in
GotOut == IF step = "decode: polling" THEN unpacked \o oi.buf ELSE unpacked
TakenIn == Len(packed) - Len(rest) - Len(data) - Unread(hsd)

DecPolls ==
  step = "decode: polling" =>
    /\ DOMAIN oi = {"buf", "size", "res"} /\ oi.buf \in Seq(Int)
    /\ oi.size \in Nat /\ oi.res \in {"busy", "MORE", "EMPTY"}
    /\ oi.res = "EMPTY" => Idle(hsd)

DecFeed ==
  /\ rest \in Seq(Octets) /\ data \in Seq(Octets)
  /\ Len(rest) + Len(data) <= Len(packed)
  /\ \A i \in 1 .. Len(rest) : rest[i] = packed[Len(packed) - Len(rest) + i]
  /\ \A i \in 1 .. Len(data) : data[i] = packed[Len(packed) - Len(rest) - Len(data) + i]
  /\ step \in {"decode: read", "end"} => data = << >> /\ Idle(hsd)
  /\ step = "end" => rest = << >>

Decoding ==
  step \in DecSteps =>
    /\ packed \in Seq(Octets) /\ DecPolls /\ DecFeed
    /\ unpacked \in Seq(Int) /\ \A i \in 1 .. Len(GotOut) : GotOut[i] = file[i]
    /\ DecOk(file, hsd, packed, TakenIn, Len(GotOut)) /\ Len(hsd.input) <= hsd.size

ToolInv ==
  /\ file \in Files /\ sizes \in Sizes /\ step \in EncSteps \cup DecSteps
  /\ Encoding /\ Decoding

-----------------------------------------------------------------------------
\* Sizes of encoder and decoder are those of this module.
LEMMA SizesAre ==
  /\ H!Enc!WindowSize = Window /\ H!Enc!LookaheadSize = Ahead /\ H!Dec!WindowSize = Window
  /\ H!Enc!Pow2 = P2 /\ H!Dec!Pow2 = P2
BY SamePow2 DEF H!Enc!WindowSize, H!Enc!LookaheadSize, H!Dec!WindowSize, Window, Ahead, P2

\* The output grows behind what was written before.
OiType(o, A) ==
  /\ DOMAIN o = {"buf", "size", "res"} /\ o.buf \in Seq(A) /\ o.size \in Nat

\* The fields that push_bits leaves alone
NotBits(h2, h) ==
  /\ DOMAIN h2 = EncFields
  /\ h2.buffer = h.buffer /\ h2.input_size = h.input_size /\ h2.state = h.state
  /\ h2.match_scan_index = h.match_scan_index /\ h2.match_length = h.match_length
  /\ h2.match_pos = h.match_pos /\ h2.flags = h.flags /\ h2.outgoing = h.outgoing

\* The stream goes on with x.
GoesOn(B, p, B2, p2, x) ==
  /\ B2 \in Seq(Octets) /\ p2 \in Seq(Int) /\ Len(p2) < 8
  /\ BitCount(B2, p2) = BitCount(B, p) + Len(x)
  /\ Agree(Flat(B, p), Flat(B2, p2), BitCount(B, p))
  /\ \A j \in 1 .. Len(x) : Flat(B2, p2)[BitCount(B, p) + j - 1] = x[j]

\* Eight bits are a byte.
LEMMA FirstEight ==
  ASSUME NEW x \in Seq(Int), Len(x) >= 8
  PROVE  SubSeq(x, 1, 8) \in Octets
<1>1. Len(SubSeq(x, 1, 8)) = 8
  OBVIOUS
<1>2. SubSeq(x, 1, 8) \in Seq(Int)
  <2>1. \A i \in 1 .. 8 : x[i] \in Int
    OBVIOUS
  <2> QED
    BY <2>1, SubSeqProperties
<1> QED
  BY <1>1, <1>2 DEF Octets

\* push_bits appends to the stream of what is out and what is held (heatshrink_encoder.c:587-613).
LEMMA PushStep ==
  ASSUME EncType(hse), OiType(oi, Octets), NEW x \in Seq(Int), Len(x) <= 8,
         NEW h, DOMAIN h = EncFields, NEW b \in Seq(Octets), H!Enc!Push(x, h)
  PROVE  /\ NotBits(hse', h)
         /\ OiType(oi, Octets)' /\ oi'.size = oi.size /\ oi'.res = oi.res
         /\ oi.buf # << >> => oi'.buf # << >>
         /\ GoesOn(b \o oi.buf, hse.bits, b \o oi'.buf, hse'.bits, x)
<1> DEFINE all == hse.bits \o x
           p2 == IF Len(all) < 8 THEN all ELSE SubSeq(all, 9, Len(all))
           o2 == IF Len(all) < 8 THEN oi.buf ELSE Append(oi.buf, SubSeq(all, 1, 8))
<1>1. hse' = [h EXCEPT !.bits = p2] /\ oi' = [oi EXCEPT !.buf = o2]
  BY DEF H!Enc!Push, OiType
<1>2. hse.bits \in Seq(Int) /\ Len(hse.bits) < 8 /\ oi.buf \in Seq(Octets)
  BY DEF EncType, OiType
<1>3. all \in Seq(Int) /\ Len(all) \in Nat
  BY <1>2
<1>4. Len(all) >= 8 => SubSeq(all, 1, 8) \in Octets
  <2> HIDE DEF all
  <2> QED
    BY <1>3, FirstEight
<1>5. o2 \in Seq(Octets) /\ (oi.buf # << >> => o2 # << >>)
  <2> HIDE DEF all
  <2>1. CASE Len(all) < 8
    BY <1>2, <2>1
  <2>2. CASE ~ (Len(all) < 8)
    <3>1. PICK c \in Octets : c = SubSeq(all, 1, 8)
      <4>1. Len(all) >= 8
        BY <1>3, <2>2
      <4> QED
        BY <1>4, <4>1
    <3>2. o2 = Append(oi.buf, c)
      BY <2>2, <3>1
    <3> HIDE DEF o2
    <3> QED
      BY <1>2, <3>2
  <2> QED
    BY <2>1, <2>2
<1>6. b \o o2 = IF Len(all) < 8 THEN b \o oi.buf
                ELSE Append(b \o oi.buf, SubSeq(all, 1, 8))
  <2> HIDE DEF all
  <2>1. CASE Len(all) < 8
    BY <2>1
  <2>2. CASE ~ (Len(all) < 8)
    <3>1. PICK c \in Octets : c = SubSeq(all, 1, 8)
      <4>1. Len(all) >= 8
        BY <1>3, <2>2
      <4> QED
        BY <1>4, <4>1
    <3>2. b \o Append(oi.buf, c) = Append(b \o oi.buf, c)
      BY <1>2
    <3> QED
      BY <2>2, <3>1, <3>2
  <2> QED
    BY <2>1, <2>2
<1>7. Pushed(b \o oi.buf, hse.bits, x, b \o o2, p2)
  BY <1>6 DEF Pushed
<1>8. b \o oi.buf \in Seq(Octets)
  BY <1>2
<1> HIDE DEF all, p2, o2
<1>9. GoesOn(b \o oi.buf, hse.bits, b \o o2, p2, x)
  <2>1. PICK B, B2 : B = b \o oi.buf /\ B2 = b \o o2
    OBVIOUS
  <2>2. B \in Seq(Octets) /\ Pushed(B, hse.bits, x, B2, p2)
    BY <1>7, <1>8, <2>1
  <2>3. hse.bits \in Seq(Int) /\ Len(hse.bits) < 8
    BY <1>2
  <2>4. GoesOn(B, hse.bits, B2, p2, x)
    BY <2>2, <2>3, PushedBits DEF GoesOn, Agree
  <2> QED
    BY <2>1, <2>4
<1>10. /\ NotBits(hse', h) /\ hse'.bits = p2
  BY <1>1 DEF NotBits, EncFields
<1>11. OiType(oi', Octets) /\ oi'.size = oi.size /\ oi'.res = oi.res /\ oi'.buf = o2
  BY <1>1, <1>5 DEF OiType
<1> QED
  BY <1>5, <1>9, <1>10, <1>11 DEF OiType
-----------------------------------------------------------------------------
(* The search *)

\* A bounded set of numbers has a greatest one.
LEMMA GreatestOf ==
  ASSUME NEW n \in Nat, NEW T \in SUBSET (0 .. n), T # {}
  PROVE  \E m \in T : \A k \in T : m >= k
<1> DEFINE U == {k \in Nat : \E m \in T : k = n - m}
<1>1. PICK m \in T : TRUE
  OBVIOUS
<1>2. n - m \in U /\ U \in SUBSET Nat
  OBVIOUS
<1>3. PICK k \in U : \A j \in U : k <= j
  <2> HIDE DEF U
  <2> QED
    BY <1>2, LeastNumber
<1>4. PICK g \in T : k = n - g
  BY <1>3
<1>5. ASSUME NEW j \in T PROVE g >= j
  <2>1. n - j \in U
    OBVIOUS
  <2>2. k <= n - j
    BY <1>3, <2>1
  <2> QED
    BY <1>4, <2>2
<1> QED
  BY <1>5

\* What Max takes of such a set
LEMMA MaxOf ==
  ASSUME NEW n \in Nat, NEW T \in SUBSET (0 .. n), T # {}
  PROVE  H!Enc!Max(T) \in T /\ \A k \in T : H!Enc!Max(T) >= k
BY GreatestOf DEF H!Enc!Max

\* What Min takes of a set of numbers
LEMMA MinOf ==
  ASSUME NEW T \in SUBSET Nat, T # {}
  PROVE  H!Enc!Min(T) \in T /\ \A k \in T : H!Enc!Min(T) <= k
BY LeastNumber DEF H!Enc!Min

\* Max of two numbers
LEMMA MaxOfTwo ==
  ASSUME NEW a \in Nat, NEW b \in Nat
  PROVE  H!Enc!Max({a, b}) \in Nat /\ H!Enc!Max({a, b}) >= a /\ H!Enc!Max({a, b}) >= b
<1>1. {a, b} \in SUBSET (0 .. a + b) /\ {a, b} # {} /\ a + b \in Nat
  OBVIOUS
<1> QED
  BY <1>1, MaxOf

\* Min of two numbers
LEMMA MinOfTwo ==
  ASSUME NEW a \in Nat, NEW b \in Nat
  PROVE  /\ H!Enc!Min({a, b}) \in {a, b} /\ H!Enc!Min({a, b}) \in Nat
         /\ H!Enc!Min({a, b}) <= a /\ H!Enc!Min({a, b}) <= b
<1>1. {a, b} \in SUBSET Nat /\ {a, b} # {}
  OBVIOUS
<1> QED
  BY <1>1, MinOf

\* What repeats at p, and for how long
LEMMA RepeatsSo ==
  ASSUME NEW e \in Nat, e > 0, H!Enc!MaxPossible = e, NEW p
  PROVE  /\ H!Enc!Repeats(p) \in 1 .. e
         /\ \A n \in 1 .. H!Enc!Repeats(p) - 1 :
              hse.buffer[p + n] = hse.buffer[H!Enc!ScanEnd + n]
<1> DEFINE ends == {n \in 1 .. e - 1 : hse.buffer[p + n] # hse.buffer[H!Enc!ScanEnd + n]}
<1>1. H!Enc!Repeats(p) = IF ends = {} THEN e ELSE H!Enc!Min(ends)
  BY DEF H!Enc!Repeats
<1>2. CASE ends = {}
  BY <1>1, <1>2
<1>3. CASE ends # {}
  <2>1. ends \in SUBSET Nat
    OBVIOUS
  <2>2. H!Enc!Min(ends) \in ends /\ \A k \in ends : H!Enc!Min(ends) <= k
    <3> HIDE DEF ends
    <3> QED
      BY <1>3, <2>1, MinOf
  <2>3. PICK r \in 1 .. e - 1 : r = H!Enc!Min(ends) /\ \A k \in ends : r <= k
    BY <2>2
  <2>4. H!Enc!Repeats(p) = r
    BY <1>1, <1>3, <2>3
  <2>5. ASSUME NEW n \in 1 .. r - 1 PROVE hse.buffer[p + n] = hse.buffer[H!Enc!ScanEnd + n]
    <3>1. n \in 1 .. e - 1 /\ ~ (r <= n)
      OBVIOUS
    <3>2. n \notin ends
      BY <2>3, <3>1
    <3> QED
      BY <3>1, <3>2
  <2> QED
    BY <2>4, <2>5
<1> QED
  BY <1>2, <1>3

\* The best position repeats the scan for as long as was found.
LEMMA BestRepeats ==
  ASSUME NEW e \in Nat, e > 0, H!Enc!MaxPossible = e, H!Enc!Start \in Nat,
         H!Enc!ScanEnd \in Nat, H!Enc!LongestMatch >= 3
  PROVE  /\ H!Enc!LongestMatch \in 1 .. e
         /\ H!Enc!BestPosition \in H!Enc!Start .. H!Enc!ScanEnd - 1
         /\ \A n \in 0 .. H!Enc!LongestMatch - 1 :
              hse.buffer[H!Enc!BestPosition + n] = hse.buffer[H!Enc!ScanEnd + n]
<1> DEFINE C == H!Enc!Candidates
           R == {H!Enc!Repeats(p) : p \in C} \cup {0}
<1>1. C \in SUBSET (0 .. H!Enc!ScanEnd)
  BY DEF H!Enc!Candidates
<1>2. R \in SUBSET (0 .. e) /\ R # {}
  BY RepeatsSo
<1>3. H!Enc!LongestMatch = H!Enc!Max(R)
  BY DEF H!Enc!LongestMatch
<1>4. H!Enc!Max(R) \in R
  <2> HIDE DEF R
  <2> QED
    BY <1>2, MaxOf
<1>5. PICK p \in C : H!Enc!Repeats(p) = H!Enc!LongestMatch
  <2>1. H!Enc!LongestMatch \in R /\ H!Enc!LongestMatch # 0
    <3>1. H!Enc!LongestMatch \in 0 .. e
      <4> HIDE DEF R
      <4> QED
        BY <1>2, <1>3, <1>4
    <3>2. H!Enc!LongestMatch # 0
      BY <3>1
    <3> HIDE DEF R
    <3> QED
      BY <1>3, <1>4, <3>2
  <2> HIDE DEF C
  <2> QED
    BY <2>1
<1> DEFINE Q == {c \in C : H!Enc!Repeats(c) = H!Enc!LongestMatch}
<1>6. Q \in SUBSET (0 .. H!Enc!ScanEnd) /\ Q # {}
  BY <1>1, <1>5
<1>7. H!Enc!BestPosition = H!Enc!Max(Q)
  BY DEF H!Enc!BestPosition
<1>8. H!Enc!BestPosition \in Q
  <2> HIDE DEF Q
  <2> QED
    BY <1>6, <1>7, MaxOf
<1>9. PICK b \in C : b = H!Enc!BestPosition /\ H!Enc!Repeats(b) = H!Enc!LongestMatch
  BY <1>8
<1>10. /\ b \in H!Enc!Start .. H!Enc!ScanEnd - 1
       /\ hse.buffer[b] = hse.buffer[H!Enc!ScanEnd]
  BY DEF H!Enc!Candidates
<1>11. /\ H!Enc!LongestMatch \in 1 .. e
       /\ \A n \in 1 .. H!Enc!LongestMatch - 1 :
            hse.buffer[b + n] = hse.buffer[H!Enc!ScanEnd + n]
  BY <1>9, RepeatsSo
<1>12. ASSUME NEW n \in 0 .. H!Enc!LongestMatch - 1
       PROVE  hse.buffer[b + n] = hse.buffer[H!Enc!ScanEnd + n]
  <2>1. CASE n = 0
    BY <1>10, <2>1
  <2>2. CASE n # 0
    <3>1. n \in 1 .. H!Enc!LongestMatch - 1
      BY <1>11, <2>2
    <3> QED
      BY <1>11, <3>1
  <2> QED
    BY <2>1, <2>2
<1> QED
  BY <1>9, <1>10, <1>11, <1>12

-----------------------------------------------------------------------------
\* Where the scan is in the file
LEMMA ScanPlace ==
  ASSUME NEW F, NEW B, NEW s, EncOk(F, hse, B, s)
  PROVE  /\ Base(hse, s) \in Nat /\ Scan(hse, s) \in Nat
         /\ Scan(hse, s) = Base(hse, s) + hse.match_scan_index
         /\ s = Base(hse, s) + hse.input_size /\ s \in Nat /\ s <= Len(F)
         /\ hse.input_size \in Nat /\ hse.match_scan_index \in Nat
         /\ hse.input_size <= Window /\ hse.match_scan_index <= hse.input_size
<1>1. hse.input_size \in 0 .. Window /\ hse.match_scan_index \in 0 .. hse.input_size
  BY DEF EncOk, EncType
<1>2. s \in 0 .. Len(F) /\ F \in Seq(0 .. 255) /\ Base(hse, s) >= 0
  BY DEF EncOk, EncWindow
<1>3. Len(F) \in Nat
  BY <1>2
<1>4. Base(hse, s) = s - hse.input_size /\ Scan(hse, s) = Base(hse, s) + hse.match_scan_index
  BY DEF Base, Scan
<1> QED
  BY <1>1, <1>2, <1>3, <1>4, BitsType

\* Where the search begins, the bytes are the file's, and no more than a window back.
LEMMA StartPlace ==
  ASSUME NEW F, NEW B, NEW s, EncOk(F, hse, B, s)
  PROVE  /\ H!Enc!Start \in Nat /\ H!Enc!Start >= hse.match_scan_index
         /\ H!Enc!Start >= Window - Base(hse, s)
         /\ H!Enc!ScanEnd = Window + hse.match_scan_index /\ H!Enc!ScanEnd \in Nat
<1>1. H!Enc!ScanEnd = Window + hse.match_scan_index
  BY SizesAre DEF H!Enc!ScanEnd
<1>2. H!Enc!ScanEnd - Window + 1 = hse.match_scan_index + 1 /\ H!Enc!ScanEnd \in Nat
  BY <1>1, ScanPlace, BitsType
<1>6. Base(hse, s) \in Nat /\ hse.match_scan_index \in Nat /\ hse.match_scan_index <= Window
      /\ Window \in Nat /\ Ahead \in Nat
  BY ScanPlace, BitsType
<1>3. CASE "BACKLOG_IS_FILLED" \in hse.flags
  <2>1. H!Enc!Start = hse.match_scan_index + 1
    BY <1>2, <1>3, SizesAre DEF H!Enc!Start
  <2>2. Base(hse, s) >= Window
    BY <1>3 DEF EncOk, EncFlags
  <2> QED
    BY <1>1, <1>2, <1>6, <2>1, <2>2
<1>4. CASE "BACKLOG_IS_FILLED" \notin hse.flags /\ "BACKLOG_IS_PARTIAL" \in hse.flags
  <2>1. H!Enc!Start = H!Enc!Max({hse.match_scan_index + 1, Ahead})
    <3>1. hse.flags \cap {"BACKLOG_IS_FILLED", "BACKLOG_IS_PARTIAL"} = {"BACKLOG_IS_PARTIAL"}
      BY <1>4
    <3> QED
      BY <1>2, <1>4, <3>1, SizesAre DEF H!Enc!Start
  <2>2. Base(hse, s) >= Window - Ahead
    BY <1>4 DEF EncOk, EncFlags
  <2>3. /\ H!Enc!Start \in Nat /\ H!Enc!Start >= hse.match_scan_index + 1
        /\ H!Enc!Start >= Ahead
    <3>1. hse.match_scan_index + 1 \in Nat
      BY ScanPlace
    <3> QED
      BY <2>1, <3>1, BitsType, MaxOfTwo
  <2> QED
    BY <1>1, <1>2, <1>6, <2>2, <2>3
<1>5. CASE "BACKLOG_IS_FILLED" \notin hse.flags /\ "BACKLOG_IS_PARTIAL" \notin hse.flags
  <2>1. hse.flags \cap {"BACKLOG_IS_FILLED", "BACKLOG_IS_PARTIAL"} # {"BACKLOG_IS_PARTIAL"}
    BY <1>5
  <2>2. H!Enc!Start = Window
    BY <1>5, <2>1, SizesAre DEF H!Enc!Start
  <2> QED
    BY <1>1, <1>2, <1>6, <2>2
<1> QED
  BY <1>3, <1>4, <1>5

\* What the search finds is earlier in the file.
LEMMA MatchFound ==
  ASSUME NEW F, NEW B, NEW s, EncOk(F, hse, B, s), hse.match_scan_index < hse.input_size,
         H!Enc!LongestMatch >= 3
  PROVE  LET q == H!Enc!ScanEnd - H!Enc!BestPosition
             m == H!Enc!LongestMatch
         IN /\ q \in Nat /\ m \in Nat /\ m # 0
            /\ hse.match_scan_index + m <= hse.input_size
            /\ Repeated(F, Scan(hse, s), q, m)
<1>1. PICK w, d, b, f, k, z, l \in Nat :
        /\ w = Window /\ d = Ahead /\ b = Base(hse, s) /\ f = Scan(hse, s)
        /\ k = hse.match_scan_index /\ z = hse.input_size /\ l = Len(F)
  <2>1. F \in Seq(0 .. 255)
    BY DEF EncOk
  <2>2. Len(F) \in Nat
    BY <2>1
  <2>3. /\ Base(hse, s) \in Nat /\ Scan(hse, s) \in Nat
        /\ hse.input_size \in Nat /\ hse.match_scan_index \in Nat
    BY ScanPlace
  <2> QED
    BY <2>2, <2>3, BitsType
<1>13. f = b + k /\ k < z /\ z <= w /\ b + z <= l
  BY <1>1, ScanPlace
<1>2. PICK a, g \in Nat : a = H!Enc!Start /\ g = H!Enc!ScanEnd
  BY StartPlace
<1>14. g = w + k /\ a >= k /\ a >= w - b
  BY <1>1, <1>2, StartPlace
<1>3. PICK e \in Nat : e = H!Enc!MaxPossible /\ e > 0 /\ e <= d /\ e <= z - k
  <2>4. d > 0
    BY <1>1, BitsType
  <2>1. H!Enc!MaxPossible = H!Enc!Min({d, z - k})
    BY <1>1, SizesAre DEF H!Enc!MaxPossible
  <2>2. PICK r \in Nat : r = z - k /\ r > 0
    <3>1. z - k \in Nat /\ z - k > 0
      BY <1>13
    <3> QED
      BY <3>1
  <2>3. /\ H!Enc!Min({d, r}) \in {d, r} /\ H!Enc!Min({d, r}) \in Nat
        /\ H!Enc!Min({d, r}) <= d /\ H!Enc!Min({d, r}) <= r
    BY MinOfTwo
  <2> QED
    BY <2>1, <2>2, <2>3, <2>4
<1>4. /\ H!Enc!LongestMatch \in 1 .. e
      /\ H!Enc!BestPosition \in a .. g - 1
      /\ \A n \in 0 .. H!Enc!LongestMatch - 1 :
           hse.buffer[H!Enc!BestPosition + n] = hse.buffer[g + n]
  BY <1>2, <1>3, BestRepeats
<1>5. PICK m \in Nat : m = H!Enc!LongestMatch /\ m > 0 /\ m <= e
  BY <1>4
<1>6. PICK c \in Nat : c = H!Enc!BestPosition /\ a <= c /\ c < g
  BY <1>4
<1>7. \A n \in 0 .. m - 1 : hse.buffer[c + n] = hse.buffer[g + n]
  BY <1>4, <1>5, <1>6
<1>8. PICK q \in Nat : q = g - c /\ q > 0 /\ q <= w /\ q <= f
  <2>1. g - c \in Nat /\ g - c > 0 /\ g - c <= w /\ g - c <= f
    BY <1>13, <1>14, <1>6
  <2> QED
    BY <2>1
<1>9. ASSUME NEW i \in f + 1 .. f + m
      PROVE  F[i] = F[i - q]
  <2>1. PICK n \in Nat : n < m /\ i = f + 1 + n
    <3>1. i - f - 1 \in Nat /\ i - f - 1 < m /\ i = f + 1 + (i - f - 1)
      OBVIOUS
    <3> QED
      BY <3>1
  <2>2. \A j \in 0 .. 2 * w - 1 :
          j >= w - b /\ j < w + z => hse.buffer[j] = F[b + j - w + 1]
    BY <1>1 DEF EncOk, EncWindow
  <2>3. hse.buffer[g + n] = F[i]
    <3>1. /\ g + n \in 0 .. 2 * w - 1 /\ g + n >= w - b /\ g + n < w + z
          /\ b + (g + n) - w + 1 = i
      BY <1>13, <1>14, <1>3, <1>5, <2>1
    <3> QED
      BY <2>2, <3>1
  <2>4. hse.buffer[c + n] = F[i - q]
    <3>1. /\ c + n \in 0 .. 2 * w - 1 /\ c + n >= w - b /\ c + n < w + z
          /\ b + (c + n) - w + 1 = i - q
      BY <1>13, <1>14, <1>3, <1>5, <1>6, <1>8, <2>1
    <3> QED
      BY <2>2, <3>1
  <2>5. n \in 0 .. m - 1
    BY <2>1
  <2> QED
    BY <1>7, <2>3, <2>4, <2>5
<1>10. Repeated(F, f, q, m)
  <2>1. q \in 1 .. w /\ m \in 1 .. d /\ q <= f /\ f + m <= l
    BY <1>13, <1>3, <1>5, <1>8
  <2> QED
    BY <1>1, <1>9, <2>1 DEF Repeated
<1>11. k + m <= z
  BY <1>3, <1>5
<1>12. H!Enc!ScanEnd - H!Enc!BestPosition = q
  BY <1>2, <1>6, <1>8
<1> QED
  BY <1>1, <1>5, <1>10, <1>11, <1>12

-----------------------------------------------------------------------------
(* The steps of the encoder                                                 *)

\* Neither the window nor the input changes.
BufferKept(h2, h) ==
  /\ DOMAIN h2 = EncFields /\ h2.buffer = h.buffer /\ h2.input_size = h.input_size
  /\ h2.match_scan_index \in 0 .. h.input_size
  /\ h2.match_length \in Nat /\ h2.match_pos \in Nat
  /\ h2.outgoing \in Seq(Int) /\ h2.bits \in Seq(Int) /\ Len(h2.bits) < 8

\* A step that leaves buffer and sizes alone keeps their types and the window.
LEMMA EncTypeKept ==
  ASSUME NEW F, NEW h, NEW h2, NEW s, EncType(h), EncWindow(F, h, s), BufferKept(h2, h)
  PROVE  EncType(h2) /\ EncWindow(F, h2, s) /\ Base(h2, s) = Base(h, s)
<1>1. Base(h2, s) = Base(h, s)
  BY DEF BufferKept, Base
<1>2. EncType(h2)
  BY DEF BufferKept, EncType
<1>3. EncWindow(F, h2, s)
  BY <1>1 DEF BufferKept, EncWindow
<1> QED
  BY <1>1, <1>2, <1>3

\* A full buffer is searched (heatshrink_encoder.c:222-225).
LEMMA FilledStep ==
  ASSUME NEW F, NEW B, NEW s, EncOk(F, hse, B, s), H!Enc!st_filled
  PROVE  EncOk(F, hse', B, s) /\ oi' = oi
<1>1. DOMAIN hse = EncFields /\ EncType(hse) /\ EncWindow(F, hse, s)
      /\ EncFlags(F, hse, s) /\ EncCode(F, hse, B, s)
  BY DEF EncOk, EncType
<1>2. hse.state = "FILLED" /\ hse' = [hse EXCEPT !.state = "SEARCH"] /\ oi' = oi
  BY DEF H!Enc!st_filled, H!Enc!Polling, H!Enc!Goto
<1>3. /\ DOMAIN hse' = EncFields /\ hse'.buffer = hse.buffer
      /\ hse'.input_size = hse.input_size /\ hse'.match_scan_index = hse.match_scan_index
      /\ hse'.match_length = hse.match_length /\ hse'.match_pos = hse.match_pos
      /\ hse'.outgoing = hse.outgoing /\ hse'.bits = hse.bits /\ hse'.flags = hse.flags
      /\ hse'.state = "SEARCH"
  BY <1>1, <1>2 DEF EncFields
<1>4. BufferKept(hse', hse)
  BY <1>1, <1>3 DEF BufferKept, EncType
<1>5. EncType(hse') /\ EncWindow(F, hse', s) /\ Base(hse', s) = Base(hse, s)
  BY <1>1, <1>4, EncTypeKept
<1>6. EncFlags(F, hse', s)
  BY <1>1, <1>2, <1>3, <1>5 DEF EncFlags, Ends
<1>7. EncCode(F, hse', B, s)
  <2>1. Scan(hse', s) = Scan(hse, s)
    BY <1>3, <1>5 DEF Scan
  <2> QED
    BY <1>1, <1>2, <1>3, <2>1 DEF EncCode
<1> QED
  BY <1>2, <1>5, <1>6, <1>7 DEF EncOk

\* A search ends the input, or finds a literal or a match (heatshrink_encoder.c:268-319).
LEMMA SearchStep ==
  ASSUME NEW F, NEW B, NEW s, EncOk(F, hse, B, s), H!Enc!st_step_search
  PROVE  EncOk(F, hse', B, s) /\ oi' = oi
<1>1. DOMAIN hse = EncFields /\ EncType(hse) /\ EncWindow(F, hse, s)
      /\ EncFlags(F, hse, s) /\ EncCode(F, hse, B, s)
  BY DEF EncOk, EncType
<1>2. hse.state = "SEARCH" /\ oi' = oi
  BY DEF H!Enc!st_step_search, H!Enc!Polling
<1>3. "HAS_LITERAL" \notin hse.flags /\ "ON_FINAL_LITERAL" \notin hse.flags
      /\ (~ Ends(hse) => hse.input_size = Window)
      /\ Coded(F, Flat(B, hse.bits), BitCount(B, hse.bits), Scan(hse, s))
  BY <1>1, <1>2 DEF EncFlags, EncCode
<1>4. /\ hse.input_size \in Nat /\ hse.match_scan_index \in Nat
      /\ hse.match_scan_index <= hse.input_size
      /\ Scan(hse, s) = Base(hse, s) + hse.match_scan_index /\ Base(hse, s) \in Nat
  BY ScanPlace
<1>5. H!Enc!Exhausted <=>
        hse.match_scan_index >= hse.input_size - (IF Ends(hse) THEN 0 ELSE Ahead)
  BY SizesAre DEF H!Enc!Exhausted, H!Enc!Finishing, Ends
<1>6. CASE H!Enc!Exhausted /\ H!Enc!Goto("SAVE_BACKLOG")
  <2>1. hse' = [hse EXCEPT !.state = "SAVE_BACKLOG"]
    BY <1>6 DEF H!Enc!Goto
  <2>2. /\ DOMAIN hse' = EncFields /\ hse'.buffer = hse.buffer
        /\ hse'.input_size = hse.input_size /\ hse'.match_scan_index = hse.match_scan_index
        /\ hse'.match_length = hse.match_length /\ hse'.match_pos = hse.match_pos
        /\ hse'.outgoing = hse.outgoing /\ hse'.bits = hse.bits /\ hse'.flags = hse.flags
        /\ hse'.state = "SAVE_BACKLOG"
    BY <1>1, <2>1 DEF EncFields
  <2>3. BufferKept(hse', hse)
    BY <1>1, <2>2 DEF BufferKept, EncType
  <2>4. EncType(hse') /\ EncWindow(F, hse', s) /\ Base(hse', s) = Base(hse, s)
    BY <1>1, <2>3, EncTypeKept
  <2>5. EncFlags(F, hse', s)
    BY <1>1, <1>2, <1>5, <1>6, <2>2, <2>4 DEF EncFlags, Ends
  <2>6. EncCode(F, hse', B, s)
    <3>1. Scan(hse', s) = Scan(hse, s)
      BY <2>2, <2>4 DEF Scan
    <3> QED
      BY <1>3, <2>2, <3>1 DEF EncCode
  <2> QED
    BY <1>2, <2>4, <2>5, <2>6 DEF EncOk
<1>7. ASSUME ~ H!Enc!Exhausted PROVE hse.match_scan_index < hse.input_size
  BY <1>4, <1>5, <1>7, BitsType
<1>8. CASE /\ ~ H!Enc!Exhausted
           /\ hse' = [hse EXCEPT !.match_scan_index = @ + 1, !.match_length = 0,
                                 !.flags = @ \cup {"HAS_LITERAL"}, !.state = "YIELD_TAG_BIT"]
  <2>2. /\ DOMAIN hse' = EncFields /\ hse'.buffer = hse.buffer
        /\ hse'.input_size = hse.input_size
        /\ hse'.match_scan_index = hse.match_scan_index + 1
        /\ hse'.match_length = 0 /\ hse'.match_pos = hse.match_pos
        /\ hse'.outgoing = hse.outgoing /\ hse'.bits = hse.bits
        /\ hse'.flags = hse.flags \cup {"HAS_LITERAL"}
        /\ hse'.state = "YIELD_TAG_BIT"
    BY <1>1, <1>8 DEF EncFields
  <2>3. BufferKept(hse', hse)
    <3>1. hse.match_scan_index + 1 \in 0 .. hse.input_size
      BY <1>4, <1>7, <1>8
    <3> QED
      BY <1>1, <2>2, <3>1 DEF BufferKept, EncType
  <2>4. EncType(hse') /\ EncWindow(F, hse', s) /\ Base(hse', s) = Base(hse, s)
    BY <1>1, <2>3, EncTypeKept
  <2>5. EncFlags(F, hse', s)
    BY <1>1, <1>2, <2>2, <2>4 DEF EncFlags, Ends
  <2>6. EncCode(F, hse', B, s)
    <3>1. Scan(hse', s) - 1 = Scan(hse, s)
      BY <1>4, <2>2, <2>4 DEF Scan
    <3>2. hse'.match_scan_index > 0
      BY <1>4, <2>2
    <3> QED
      BY <1>3, <2>2, <3>1, <3>2 DEF EncCode
  <2> QED
    BY <1>2, <2>4, <2>5, <2>6 DEF EncOk
<1>9. CASE /\ ~ H!Enc!Exhausted /\ H!Enc!LongestMatch >= 3
           /\ hse' = [hse EXCEPT !.match_pos = H!Enc!ScanEnd - H!Enc!BestPosition,
                                 !.match_length = H!Enc!LongestMatch, !.state = "YIELD_TAG_BIT"]
  <2>1. PICK q, m \in Nat :
          /\ q = H!Enc!ScanEnd - H!Enc!BestPosition /\ m = H!Enc!LongestMatch
          /\ m # 0 /\ hse.match_scan_index + m <= hse.input_size
          /\ Repeated(F, Scan(hse, s), q, m)
    BY <1>7, <1>9, MatchFound
  <2>2. /\ DOMAIN hse' = EncFields /\ hse'.buffer = hse.buffer
        /\ hse'.input_size = hse.input_size
        /\ hse'.match_scan_index = hse.match_scan_index
        /\ hse'.match_length = m /\ hse'.match_pos = q
        /\ hse'.outgoing = hse.outgoing /\ hse'.bits = hse.bits
        /\ hse'.flags = hse.flags
        /\ hse'.state = "YIELD_TAG_BIT"
    BY <1>1, <1>9, <2>1 DEF EncFields
  <2>3. BufferKept(hse', hse)
    BY <1>1, <2>1, <2>2 DEF BufferKept, EncType
  <2>4. EncType(hse') /\ EncWindow(F, hse', s) /\ Base(hse', s) = Base(hse, s)
    BY <1>1, <2>3, EncTypeKept
  <2>5. EncFlags(F, hse', s)
    BY <1>1, <1>2, <1>3, <2>2, <2>4 DEF EncFlags, Ends
  <2>6. EncCode(F, hse', B, s)
    <3>1. Scan(hse', s) = Scan(hse, s)
      BY <2>2, <2>4 DEF Scan
    <3>2. Matched(F, hse', s)
      BY <2>1, <2>2, <3>1 DEF Matched
    <3> QED
      BY <1>3, <2>1, <2>2, <3>1, <3>2 DEF EncCode
  <2> QED
    BY <1>2, <2>4, <2>5, <2>6 DEF EncOk
<1> QED
  BY <1>6, <1>8, <1>9 DEF H!Enc!st_step_search

\* The buffer is shifted by what was scanned (heatshrink_encoder.c:382-396).
LEMMA BacklogStep ==
  ASSUME NEW F, NEW B, NEW s, EncOk(F, hse, B, s), H!Enc!st_save_backlog
  PROVE  EncOk(F, hse', B, s) /\ oi' = oi
<1>1. DOMAIN hse = EncFields /\ EncType(hse) /\ EncWindow(F, hse, s)
      /\ EncFlags(F, hse, s) /\ EncCode(F, hse, B, s)
  BY DEF EncOk, EncType
<1>2. hse.state = "SAVE_BACKLOG" /\ oi' = oi
  BY DEF H!Enc!st_save_backlog, H!Enc!Polling
<1>3. "HAS_LITERAL" \notin hse.flags /\ "ON_FINAL_LITERAL" \notin hse.flags
      /\ hse.match_scan_index >= hse.input_size - (IF Ends(hse) THEN 0 ELSE Ahead)
      /\ (~ Ends(hse) => hse.input_size = Window)
      /\ Coded(F, Flat(B, hse.bits), BitCount(B, hse.bits), Scan(hse, s))
  BY <1>1, <1>2 DEF EncFlags, EncCode
<1>4. PICK w, d, b, k, z \in Nat :
        /\ w = Window /\ d = Ahead /\ b = Base(hse, s)
        /\ k = hse.match_scan_index /\ z = hse.input_size
  BY ScanPlace, BitsType
<1>5. k <= z /\ z <= w /\ 2 * d <= w /\ s = b + z /\ Scan(hse, s) = b + k /\ s \in Nat
  BY <1>4, ScanPlace, BitsType
<1>6. CASE Ends(hse)
  <2>1. hse' = [hse EXCEPT !.state = "FLUSH_BITS"]
    BY <1>3, <1>6 DEF H!Enc!st_save_backlog, H!Enc!Finishing, Ends, H!Enc!Goto
  <2>2. /\ DOMAIN hse' = EncFields /\ hse'.buffer = hse.buffer
        /\ hse'.input_size = hse.input_size /\ hse'.match_scan_index = hse.match_scan_index
        /\ hse'.match_length = hse.match_length /\ hse'.match_pos = hse.match_pos
        /\ hse'.outgoing = hse.outgoing /\ hse'.bits = hse.bits /\ hse'.flags = hse.flags
        /\ hse'.state = "FLUSH_BITS"
    BY <1>1, <2>1 DEF EncFields
  <2>3. BufferKept(hse', hse)
    BY <1>1, <2>2 DEF BufferKept, EncType
  <2>4. EncType(hse') /\ EncWindow(F, hse', s) /\ Base(hse', s) = Base(hse, s)
    BY <1>1, <2>3, EncTypeKept
  <2>5. hse.match_scan_index = hse.input_size
    BY <1>3, <1>4, <1>5, <1>6
  <2>6. EncFlags(F, hse', s)
    BY <1>1, <1>3, <1>6, <2>2, <2>4, <2>5 DEF EncFlags, Ends
  <2>7. EncCode(F, hse', B, s)
    <3>1. Scan(hse', s) = Scan(hse, s)
      BY <2>2, <2>4 DEF Scan
    <3> QED
      BY <1>3, <2>2, <3>1 DEF EncCode
  <2> QED
    BY <1>2, <2>4, <2>6, <2>7 DEF EncOk
<1>7. CASE ~ Ends(hse)
  <2>1. H!Enc!SaveBacklog
    BY <1>7 DEF H!Enc!st_save_backlog, H!Enc!Finishing, Ends
  <2> DEFINE buf2 == [i \in DOMAIN hse.buffer |->
                        IF i < 2 * w - k THEN hse.buffer[i + k] ELSE hse.buffer[i]]
             flags2 == hse.flags \cup (IF "BACKLOG_IS_PARTIAL" \in hse.flags
                                       THEN {"BACKLOG_IS_FILLED"} ELSE {"BACKLOG_IS_PARTIAL"})
  <2>2. hse' = [hse EXCEPT !.buffer = buf2, !.flags = flags2, !.match_scan_index = 0,
                           !.input_size = z - k, !.state = "NOT_FULL"]
    BY <1>1, <1>4, <2>1, SizesAre DEF H!Enc!SaveBacklog, EncFields
  <2>3. /\ DOMAIN hse' = EncFields /\ hse'.buffer = buf2
        /\ hse'.input_size = z - k /\ hse'.match_scan_index = 0
        /\ hse'.match_length = hse.match_length /\ hse'.match_pos = hse.match_pos
        /\ hse'.outgoing = hse.outgoing /\ hse'.bits = hse.bits /\ hse'.flags = flags2
        /\ hse'.state = "NOT_FULL"
    BY <1>1, <2>2 DEF EncFields
  <2>4. z = w /\ k >= w - d
    BY <1>3, <1>4, <1>5, <1>7
  <2>5. hse.buffer \in [0 .. 2 * w - 1 -> Int] /\ DOMAIN hse.buffer = 0 .. 2 * w - 1
    BY <1>1, <1>4 DEF EncType
  <2>6. buf2 \in [0 .. 2 * w - 1 -> Int]
    <3>1. ASSUME NEW i \in 0 .. 2 * w - 1, i < 2 * w - k PROVE i + k \in 0 .. 2 * w - 1
      BY <3>1
    <3> QED
      BY <2>5, <3>1
  <2>7. Base(hse', s) = b + k
    BY <1>5, <2>3 DEF Base
  <2>8. EncType(hse')
    <3>1. z - k \in 0 .. w /\ 0 \in 0 .. z - k
      BY <1>5
    <3> HIDE DEF buf2, flags2
    <3> QED
      BY <1>1, <1>4, <2>3, <2>6, <3>1 DEF EncType
  <2>9. EncWindow(F, hse', s)
    <3>1. \A i \in 0 .. 2 * w - 1 :
            i >= w - b /\ i < w + z => hse.buffer[i] = F[b + i - w + 1]
      BY <1>1, <1>4 DEF EncWindow
    <3>2. ASSUME NEW i \in 0 .. 2 * w - 1, i >= w - (b + k), i < w + (z - k)
          PROVE  buf2[i] = F[(b + k) + i - w + 1]
      <4>1. i < 2 * w - k
        BY <1>5, <3>2
      <4>2. buf2[i] = hse.buffer[i + k]
        BY <2>5, <4>1
      <4>3. i + k \in 0 .. 2 * w - 1 /\ i + k >= w - b /\ i + k < w + z
        BY <1>5, <3>2
      <4>4. b + (i + k) - w + 1 = (b + k) + i - w + 1
        OBVIOUS
      <4>5. hse.buffer[i + k] = F[b + (i + k) - w + 1]
        BY <3>1, <4>3
      <4> QED
        BY <4>2, <4>4, <4>5
    <3>3. b + k >= 0
      OBVIOUS
    <3> HIDE DEF buf2, flags2
    <3> QED
      BY <1>4, <2>3, <2>7, <3>2, <3>3 DEF EncWindow
  <2>10. EncFlags(F, hse', s)
    <3>1. "BACKLOG_IS_PARTIAL" \in hse.flags => b >= w - d
      BY <1>1, <1>4 DEF EncFlags
    <3>2. "BACKLOG_IS_PARTIAL" \in flags2 => b + k >= w - d
      BY <1>5, <2>4
    <3>3. "BACKLOG_IS_FILLED" \in hse.flags => b >= w
      BY <1>1, <1>4 DEF EncFlags
    <3>4. "BACKLOG_IS_FILLED" \in flags2 => b + k >= w
      BY <1>5, <2>4, <3>1, <3>3
    <3>5. "ON_FINAL_LITERAL" \notin flags2 /\ "HAS_LITERAL" \notin flags2
          /\ "IS_FINISHING" \notin flags2
      BY <1>3, <1>7 DEF Ends
    <3> HIDE DEF buf2, flags2
    <3> QED
      BY <1>4, <2>3, <2>7, <3>2, <3>4, <3>5 DEF EncFlags, Ends
  <2>11. EncCode(F, hse', B, s)
    <3>1. Scan(hse', s) = b + k
      BY <2>3, <2>7 DEF Scan
    <3> HIDE DEF buf2, flags2
    <3> QED
      BY <1>3, <1>5, <2>3, <3>1 DEF EncCode
  <2> QED
    BY <1>2, <2>8, <2>9, <2>10, <2>11 DEF EncOk
<1> QED
  BY <1>6, <1>7

-----------------------------------------------------------------------------
(* The encoder's output                                                     *)

\* The bits of a number, the highest first
LEMMA BitsAre ==
  ASSUME NEW v \in Nat, NEW w \in Nat
  PROVE  /\ H!Enc!Bits(v, w) \in Seq(Int) /\ Len(H!Enc!Bits(v, w)) = w
         /\ \A j \in 1 .. w : H!Enc!Bits(v, w)[j] = (v \div P2[w - j]) % 2
<1>1. H!Enc!Bits(v, w) = [i \in 1 .. w |-> (v \div P2[w - i]) % 2]
  BY SizesAre DEF H!Enc!Bits
<1>2. ASSUME NEW i \in 1 .. w PROVE (v \div P2[w - i]) % 2 \in Int
  <2>1. PICK p \in Nat \ {0} : p = P2[w - i]
    <3>1. w - i \in Nat
      OBVIOUS
    <3> QED
      BY <3>1, Pow2Type
  <2>2. (v \div p) % 2 \in Int
    BY Division
  <2> QED
    BY <2>1, <2>2
<1> QED
  BY <1>1, <1>2

\* More of x is said.
LEMMA SaysMore ==
  ASSUME NEW F, NEW B, NEW p, NEW B2, NEW p2, NEW y \in Seq(Int), GoesOn(B, p, B2, p2, y),
         BitCount(B, p) \in Nat, NEW f, NEW x, NEW k \in Nat,
         Said(F, Flat(B, p), BitCount(B, p), f, x, k),
         \A j \in 1 .. Len(y) : y[j] = x[k + j]
  PROVE  Said(F, Flat(B2, p2), BitCount(B2, p2), f, x, k + Len(y))
<1>1. PICK n, d \in Nat : n = BitCount(B, p) /\ d = Len(y)
  OBVIOUS
<1>2. BitCount(B2, p2) = n + d /\ Agree(Flat(B, p), Flat(B2, p2), n)
      /\ \A j \in 1 .. d : Flat(B2, p2)[n + j - 1] = x[k + j]
  BY <1>1 DEF GoesOn
<1>3. Said(F, Flat(B, p), n, f, x, k)
  BY <1>1
<1>4. Said(F, Flat(B2, p2), n + d, f, x, k + d)
  BY <1>2, <1>3, SaidMore
<1> QED
  BY <1>1, <1>2, <1>4

\* The bits of a stream are counted by a number,
LEMMA CountType ==
  ASSUME NEW B \in Seq(Octets), NEW p \in Seq(Int)
  PROVE  BitCount(B, p) \in Nat
<1>1. Len(B) \in Nat /\ Len(p) \in Nat
  OBVIOUS
<1>2. PICK m, n \in Nat : m = Len(B) /\ n = Len(p)
  BY <1>1
<1>3. 8 * m + n \in Nat
  OBVIOUS
<1> QED
  BY <1>2, <1>3 DEF BitCount

\* in particular those of an encoder.
LEMMA BitCountType ==
  ASSUME NEW F, NEW h, NEW B, NEW s, EncOk(F, h, B, s)
  PROVE  BitCount(B, h.bits) \in Nat
BY CountType DEF EncOk, EncType

\* One bit goes out.
LEMMA PushOne ==
  ASSUME EncType(hse), OiType(oi, Octets), NEW v \in Int,
         NEW h, DOMAIN h = EncFields, NEW b \in Seq(Octets), H!Enc!Push(<<v>>, h)
  PROVE  /\ NotBits(hse', h)
         /\ OiType(oi, Octets)' /\ oi'.size = oi.size /\ oi'.res = oi.res
         /\ GoesOn(b \o oi.buf, hse.bits, b \o oi'.buf, hse'.bits, <<v>>)
<1>1. <<v>> \in Seq(Int) /\ Len(<<v>>) <= 8
  OBVIOUS
<1>2. \E y \in Seq(Int) : y = <<v>> /\ Len(y) <= 8
  BY <1>1
<1>3. PICK y \in Seq(Int) : y = <<v>> /\ Len(y) <= 8
  BY <1>2
<1>4. H!Enc!Push(y, h)
  BY <1>3
<1>5. /\ NotBits(hse', h)
      /\ OiType(oi, Octets)' /\ oi'.size = oi.size /\ oi'.res = oi.res
      /\ GoesOn(b \o oi.buf, hse.bits, b \o oi'.buf, hse'.bits, y)
  BY <1>3, <1>4, PushStep
<1> QED
  BY <1>3, <1>5

\* What makes up Saying, in parts
LEMMA SayingIs ==
  ASSUME NEW F, NEW h, NEW B, NEW s, NEW e, NEW x, NEW k \in Nat,
         x = ReferenceBits(h.match_pos, h.match_length), e - Len(h.outgoing) = k,
         Matched(F, h, s), Said(F, Flat(B, h.bits), BitCount(B, h.bits), Scan(h, s), x, k),
         \A j \in 1 .. Len(h.outgoing) : h.outgoing[j] = x[k + j]
  PROVE  Saying(F, h, B, s, e)
BY DEF Saying

\* A tag bit goes out (heatshrink_encoder.c:321-336).
LEMMA TagStep ==
  ASSUME NEW F, NEW b \in Seq(Octets), NEW s, EncOk(F, hse, b \o oi.buf, s),
         OiType(oi, Octets), H!Enc!st_yield_tag_bit
  PROVE  /\ EncOk(F, hse', b \o oi'.buf, s)
         /\ OiType(oi, Octets)' /\ oi'.size = oi.size /\ oi'.res = oi.res
<1> DEFINE B == b \o oi.buf
           B2 == b \o oi'.buf
<1>1. DOMAIN hse = EncFields /\ EncType(hse) /\ EncWindow(F, hse, s)
      /\ EncFlags(F, hse, s) /\ EncCode(F, hse, B, s)
  BY DEF EncOk, EncType
<1>2. hse.state = "YIELD_TAG_BIT"
  BY DEF H!Enc!st_yield_tag_bit, H!Enc!Polling
<1>3. BitCount(B, hse.bits) \in Nat
  BY BitCountType
<1>4. CASE hse.match_length = 0
  <2> DEFINE h == [hse EXCEPT !.state = "YIELD_LITERAL"]
  <2>1. H!Enc!Push(<<1>>, h)
    BY <1>4 DEF H!Enc!st_yield_tag_bit
  <2>2. <<1>> \in Seq(Int) /\ Len(<<1>>) = 1 /\ <<1>>[1] = 1 /\ DOMAIN h = EncFields
    BY <1>1
  <2>3. /\ NotBits(hse', h)
        /\ OiType(oi, Octets)' /\ oi'.size = oi.size /\ oi'.res = oi.res
        /\ GoesOn(B, hse.bits, B2, hse'.bits, <<1>>)
    <3> HIDE DEF h
    <3> QED
      BY <1>1, <2>1, <2>2, PushOne
  <2>4. /\ DOMAIN hse' = EncFields /\ hse'.buffer = hse.buffer
        /\ hse'.input_size = hse.input_size /\ hse'.match_scan_index = hse.match_scan_index
        /\ hse'.match_length = hse.match_length /\ hse'.match_pos = hse.match_pos
        /\ hse'.outgoing = hse.outgoing /\ hse'.flags = hse.flags
        /\ hse'.state = "YIELD_LITERAL"
    BY <1>1, <2>3 DEF NotBits, EncFields
  <2>5. B2 \in Seq(Octets) /\ hse'.bits \in Seq(Int) /\ Len(hse'.bits) < 8
    BY <2>3 DEF GoesOn
  <2>6. BufferKept(hse', hse)
    BY <1>1, <2>4, <2>5 DEF BufferKept, EncType
  <2>7. EncType(hse') /\ EncWindow(F, hse', s) /\ Base(hse', s) = Base(hse, s)
    BY <1>1, <2>6, EncTypeKept
  <2>8. EncFlags(F, hse', s)
    BY <1>1, <1>2, <2>4, <2>7 DEF EncFlags, Ends
  <2>9. Scan(hse', s) = Scan(hse, s)
    BY <2>4, <2>7 DEF Scan
  <2> DEFINE f == Scan(hse, s)
             x == LiteralBits(F[f])
  <2>10. hse.match_scan_index > 0 /\ Coded(F, Flat(B, hse.bits), BitCount(B, hse.bits), f - 1)
    BY <1>1, <1>2, <1>4 DEF EncCode
  <2>11. Said(F, Flat(B, hse.bits), BitCount(B, hse.bits), f - 1, x, 0)
    BY <1>3, <2>10, SaidNothing
  <2>12. x[1] = 1
    BY DEF LiteralBits
  <2>13. Said(F, Flat(B2, hse'.bits), BitCount(B2, hse'.bits), f - 1, x, 1)
    <3>1. \A j \in 1 .. Len(<<1>>) : <<1>>[j] = x[0 + j]
      BY <2>2, <2>12
    <3> HIDE DEF x, f, B, B2
    <3>2. Said(F, Flat(B2, hse'.bits), BitCount(B2, hse'.bits), f - 1, x, 0 + Len(<<1>>))
      BY <1>3, <2>2, <2>3, <2>11, <3>1, SaysMore
    <3> QED
      BY <2>2, <3>2
  <2>14. EncCode(F, hse', B2, s)
    BY <1>4, <2>4, <2>9, <2>10, <2>13 DEF EncCode
  <2> QED
    BY <2>3, <2>5, <2>7, <2>8, <2>14 DEF EncOk
<1>5. CASE hse.match_length # 0
  <2> DEFINE out == H!Enc!Bits(hse.match_pos - 1, WindowBits)
             h == [hse EXCEPT !.state = "YIELD_BR_INDEX", !.outgoing = out]
  <2>1. H!Enc!Push(<<0>>, h)
    BY <1>5 DEF H!Enc!st_yield_tag_bit
  <2>2. <<0>> \in Seq(Int) /\ Len(<<0>>) = 1 /\ <<0>>[1] = 0 /\ DOMAIN h = EncFields
    BY <1>1
  <2>3. /\ NotBits(hse', h)
        /\ OiType(oi, Octets)' /\ oi'.size = oi.size /\ oi'.res = oi.res
        /\ GoesOn(B, hse.bits, B2, hse'.bits, <<0>>)
    <3> HIDE DEF h
    <3> QED
      BY <1>1, <2>1, <2>2, PushOne
  <2>4. /\ DOMAIN hse' = EncFields /\ hse'.buffer = hse.buffer
        /\ hse'.input_size = hse.input_size /\ hse'.match_scan_index = hse.match_scan_index
        /\ hse'.match_length = hse.match_length /\ hse'.match_pos = hse.match_pos
        /\ hse'.outgoing = out /\ hse'.flags = hse.flags
        /\ hse'.state = "YIELD_BR_INDEX"
    BY <1>1, <2>3 DEF NotBits, EncFields
  <2>5. B2 \in Seq(Octets) /\ hse'.bits \in Seq(Int) /\ Len(hse'.bits) < 8
    BY <2>3 DEF GoesOn
  <2>6. Matched(F, hse, s) /\ Coded(F, Flat(B, hse.bits), BitCount(B, hse.bits), Scan(hse, s))
    BY <1>1, <1>2, <1>5 DEF EncCode
  <2>7. hse.match_pos - 1 \in Nat
    BY <2>6, BitsType DEF Matched, Repeated
  <2>8. /\ out \in Seq(Int) /\ Len(out) = WindowBits
        /\ \A j \in 1 .. WindowBits :
             out[j] = ((hse.match_pos - 1) \div P2[WindowBits - j]) % 2
    BY <2>7, BitsAre, BitsType
  <2> HIDE DEF out
  <2>9. BufferKept(hse', hse)
    BY <1>1, <2>4, <2>5, <2>8 DEF BufferKept, EncType
  <2>10. EncType(hse') /\ EncWindow(F, hse', s) /\ Base(hse', s) = Base(hse, s)
    BY <1>1, <2>9, EncTypeKept
  <2>11. EncFlags(F, hse', s)
    BY <1>1, <1>2, <1>5, <2>4, <2>10 DEF EncFlags, Ends
  <2>12. Scan(hse', s) = Scan(hse, s)
    BY <2>4, <2>10 DEF Scan
  <2> DEFINE f == Scan(hse, s)
             x == ReferenceBits(hse.match_pos, hse.match_length)
  <2>13. Said(F, Flat(B, hse.bits), BitCount(B, hse.bits), f, x, 0)
    BY <1>3, <2>6, SaidNothing
  <2>14. x[1] = 0
    BY BitsType DEF ReferenceBits
  <2>15. Said(F, Flat(B2, hse'.bits), BitCount(B2, hse'.bits), f, x, 1)
    <3>1. \A j \in 1 .. Len(<<0>>) : <<0>>[j] = x[0 + j]
      BY <2>2, <2>14
    <3> HIDE DEF x, f, B, B2
    <3>2. Said(F, Flat(B2, hse'.bits), BitCount(B2, hse'.bits), f, x, 0 + Len(<<0>>))
      BY <1>3, <2>2, <2>3, <2>13, <3>1, SaysMore
    <3> QED
      BY <2>2, <3>2
  <2>16. \A j \in 1 .. Len(out) : out[j] = x[1 + j]
    <3>1. ASSUME NEW j \in 1 .. WindowBits PROVE out[j] = x[1 + j]
      <4>1. 1 + j \in 1 .. RefLen /\ 1 + j # 1 /\ 1 + j <= 1 + WindowBits
            /\ 1 + WindowBits - (1 + j) = WindowBits - j
        BY BitsType DEF RefLen
      <4>2. x[1 + j] = ((hse.match_pos - 1) \div P2[WindowBits - j]) % 2
        BY <4>1 DEF ReferenceBits
      <4> QED
        BY <2>8, <4>2
    <3> QED
      BY <2>8, <3>1
  <2>17. Matched(F, hse', s)
    BY <2>4, <2>6, <2>12 DEF Matched
  <2>18. Saying(F, hse', B2, s, 1 + WindowBits)
    <3>1. (1 + WindowBits) - Len(out) = 1
      BY <2>8, BitsType
    <3>2. ReferenceBits(hse'.match_pos, hse'.match_length) = x
      BY <2>4
    <3> HIDE DEF B2, x, f
    <3>3. (1 + WindowBits) - Len(hse'.outgoing) = 1
      BY <2>4, <3>1
    <3>4. Said(F, Flat(B2, hse'.bits), BitCount(B2, hse'.bits), Scan(hse', s), x, 1)
      BY <2>12, <2>15 DEF f
    <3>5. \A j \in 1 .. Len(hse'.outgoing) : hse'.outgoing[j] = x[1 + j]
      BY <2>4, <2>16
    <3>6. 1 \in Nat
      OBVIOUS
    <3> QED
      BY <2>17, <3>2, <3>3, <3>4, <3>5, <3>6, SayingIs
  <2>19. EncCode(F, hse', B2, s)
    BY <2>4, <2>18 DEF EncCode
  <2> QED
    BY <2>3, <2>5, <2>10, <2>11, <2>19 DEF EncOk
<1> QED
  BY <1>4, <1>5

\* Bytes are numbers,
LEMMA ByteIsNat == \A v \in 0 .. 255 : v \in Nat
OBVIOUS

\* and so are the elements of a file.
LEMMA ByteOf ==
  ASSUME NEW F \in Seq(0 .. 255), NEW i \in Nat, i > 0, i <= Len(F)
  PROVE  F[i] \in Nat
<1>1. i \in 1 .. Len(F)
  OBVIOUS
<1>2. F[i] \in 0 .. 255
  BY <1>1, ElementOfSeq
<1> QED
  BY <1>2, ByteIsNat, Zenon

\* A literal goes out (heatshrink_encoder.c:338-348).
LEMMA LiteralStep ==
  ASSUME NEW F, NEW b \in Seq(Octets), NEW s, EncOk(F, hse, b \o oi.buf, s),
         OiType(oi, Octets), H!Enc!st_yield_literal
  PROVE  /\ EncOk(F, hse', b \o oi'.buf, s)
         /\ OiType(oi, Octets)' /\ oi'.size = oi.size /\ oi'.res = oi.res
<1> DEFINE B == b \o oi.buf
           B2 == b \o oi'.buf
           f == Scan(hse, s)
           c == hse.buffer[Window + hse.match_scan_index - 1]
           y == H!Enc!Bits(c, 8)
           x == LiteralBits(F[f])
           h == [hse EXCEPT !.flags = @ \ {"HAS_LITERAL"}, !.state = "SEARCH"]
<1>1. DOMAIN hse = EncFields /\ EncType(hse) /\ EncWindow(F, hse, s)
      /\ EncFlags(F, hse, s) /\ EncCode(F, hse, B, s) /\ F \in Seq(0 .. 255)
  BY DEF EncOk, EncType
<1>2. hse.state = "YIELD_LITERAL"
  BY DEF H!Enc!st_yield_literal, H!Enc!Polling
<1>3. BitCount(B, hse.bits) \in Nat
  BY BitCountType
<1>4. /\ hse.match_scan_index > 0 /\ hse.match_length = 0
      /\ Said(F, Flat(B, hse.bits), BitCount(B, hse.bits), f - 1, x, 1)
  BY <1>1, <1>2 DEF EncCode
<1>5. f \in Nat /\ f - 1 \in Nat /\ f <= Len(F) /\ c = F[f] /\ c \in Nat
  <2>1. PICK w, a, k, z \in Nat : /\ w = Window /\ a = Base(hse, s)
                                  /\ k = hse.match_scan_index /\ z = hse.input_size
    BY ScanPlace, BitsType
  <2>2. k > 0 /\ k <= z /\ z <= w /\ f = a + k /\ s = a + z /\ s <= Len(F)
    BY <1>4, <2>1, ScanPlace
  <2>3. \A i \in 0 .. 2 * w - 1 :
          i >= w - a /\ i < w + z => hse.buffer[i] = F[a + i - w + 1]
    BY <1>1, <2>1 DEF EncWindow
  <2>4. w + k - 1 \in 0 .. 2 * w - 1 /\ w + k - 1 >= w - a /\ w + k - 1 < w + z
        /\ a + (w + k - 1) - w + 1 = a + k
    BY <2>2
  <2>5. c = F[f]
    BY <2>1, <2>2, <2>3, <2>4
  <2>6. Len(F) \in Nat /\ f \in Nat /\ f >= 1 /\ f <= Len(F)
    <3>1. Len(F) \in Nat
      BY <1>1
    <3> HIDE DEF f
    <3> QED
      BY <2>2, <3>1
  <2> HIDE DEF f, c
  <2>7. F[f] \in Nat
    BY <1>1, <2>6, ByteOf
  <2>8. f - 1 \in Nat
    BY <2>6
  <2> QED
    BY <2>5, <2>6, <2>7, <2>8
<1>6. H!Enc!Push(y, h)
  <2>1. H!Enc!AfterLiteral = "SEARCH"
    BY <1>1, <1>4 DEF H!Enc!AfterLiteral, EncFlags
  <2> QED
    BY <2>1, SizesAre DEF H!Enc!st_yield_literal
<1>7. /\ y \in Seq(Int) /\ Len(y) = 8
      /\ \A j \in 1 .. 8 : y[j] = (c \div P2[8 - j]) % 2
  <2> HIDE DEF c
  <2>1. 8 \in Nat /\ c \in Nat
    BY <1>5
  <2> QED
    BY <2>1, BitsAre
<1> HIDE DEF y, c
<1>8. DOMAIN h = EncFields
  BY <1>1
<1>9. /\ NotBits(hse', h)
      /\ OiType(oi, Octets)' /\ oi'.size = oi.size /\ oi'.res = oi.res
      /\ GoesOn(B, hse.bits, B2, hse'.bits, y)
  <2> HIDE DEF h
  <2>1. y \in Seq(Int) /\ Len(y) <= 8
    BY <1>7
  <2> QED
    BY <1>1, <1>6, <1>8, <2>1, PushStep
<1>10. /\ DOMAIN hse' = EncFields /\ hse'.buffer = hse.buffer
       /\ hse'.input_size = hse.input_size /\ hse'.match_scan_index = hse.match_scan_index
       /\ hse'.match_length = hse.match_length /\ hse'.match_pos = hse.match_pos
       /\ hse'.outgoing = hse.outgoing /\ hse'.flags = hse.flags \ {"HAS_LITERAL"}
       /\ hse'.state = "SEARCH"
  BY <1>1, <1>9 DEF NotBits, EncFields
<1>11. B2 \in Seq(Octets) /\ hse'.bits \in Seq(Int) /\ Len(hse'.bits) < 8
  BY <1>9 DEF GoesOn
<1>12. BufferKept(hse', hse)
  BY <1>1, <1>10, <1>11 DEF BufferKept, EncType
<1>13. EncType(hse') /\ EncWindow(F, hse', s) /\ Base(hse', s) = Base(hse, s)
  BY <1>1, <1>12, EncTypeKept
<1>14. EncFlags(F, hse', s)
  BY <1>1, <1>2, <1>10, <1>13 DEF EncFlags, Ends
<1>15. Scan(hse', s) = f
  BY <1>10, <1>13 DEF Scan
<1>16. \A j \in 1 .. Len(y) : y[j] = x[1 + j]
  <2>1. ASSUME NEW j \in 1 .. 8 PROVE y[j] = x[1 + j]
    <3>1. 1 + j \in 1 .. 9 /\ 1 + j # 1 /\ 9 - (1 + j) = 8 - j
      OBVIOUS
    <3>2. x[1 + j] = (F[f] \div P2[8 - j]) % 2
      BY <3>1 DEF LiteralBits
    <3> QED
      BY <1>5, <1>7, <3>2
  <2> QED
    BY <1>7, <2>1
<1>17. Said(F, Flat(B2, hse'.bits), BitCount(B2, hse'.bits), f - 1, x, 9)
  <2> HIDE DEF x, f, B, B2
  <2>1. Said(F, Flat(B2, hse'.bits), BitCount(B2, hse'.bits), f - 1, x, 1 + Len(y))
    BY <1>3, <1>4, <1>7, <1>9, <1>16, SaysMore
  <2> QED
    BY <1>7, <2>1
<1>18. Coded(F, Flat(B2, hse'.bits), BitCount(B2, hse'.bits), f)
  <2>1. BitCount(B2, hse'.bits) \in Nat
    <3> HIDE DEF B2
    <3> QED
      BY <1>11, CountType
  <2>2. PICK g \in Nat : g = f - 1 /\ g < Len(F) /\ g + 1 = f
    <3>1. Len(F) \in Nat
      BY <1>1
    <3> QED
      BY <1>5, <3>1
  <2>3. Said(F, Flat(B2, hse'.bits), BitCount(B2, hse'.bits), g, LiteralBits(F[g + 1]), 9)
    BY <1>17, <2>2
  <2>4. Coded(F, Flat(B2, hse'.bits), BitCount(B2, hse'.bits), g + 1)
    BY <2>1, <2>2, <2>3, SaidLiteral
  <2> QED
    BY <2>2, <2>4
<1>19. EncCode(F, hse', B2, s)
  BY <1>10, <1>15, <1>18 DEF EncCode
<1> QED
  BY <1>1, <1>9, <1>11, <1>13, <1>14, <1>19 DEF EncOk

-----------------------------------------------------------------------------
\* Only a reference's own fields change.
RestKept(h2, h) ==
  /\ DOMAIN h2 = EncFields /\ h2.buffer = h.buffer /\ h2.input_size = h.input_size
  /\ h2.match_scan_index = h.match_scan_index /\ h2.match_length = h.match_length
  /\ h2.match_pos = h.match_pos /\ h2.flags = h.flags
  /\ h2.outgoing \in Seq(Int) /\ h2.bits \in Seq(Int) /\ Len(h2.bits) < 8

\* A step on the bits that go out keeps window, base and scan.
LEMMA RestKeptOk ==
  ASSUME NEW F, NEW h, NEW h2, NEW s, EncType(h), EncWindow(F, h, s), RestKept(h2, h)
  PROVE  EncType(h2) /\ EncWindow(F, h2, s) /\ Base(h2, s) = Base(h, s) /\ Scan(h2, s) = Scan(h, s)
<1>1. BufferKept(h2, h)
  BY DEF RestKept, BufferKept, EncType
<1>2. EncType(h2) /\ EncWindow(F, h2, s) /\ Base(h2, s) = Base(h, s)
  BY <1>1, EncTypeKept
<1> QED
  BY <1>2 DEF RestKept, Scan

\* push_outgoing_bits says the next bits of a back reference (heatshrink_encoder.c:566-585).
LEMMA OutgoingSays ==
  ASSUME NEW F, NEW b \in Seq(Octets), NEW s, EncOk(F, hse, b \o oi.buf, s),
         OiType(oi, Octets), NEW e \in Nat, Saying(F, hse, b \o oi.buf, s, e),
         hse.outgoing # << >>, H!Enc!PushOutgoing
  PROVE  /\ RestKept(hse', hse) /\ hse'.state = hse.state
         /\ b \o oi'.buf \in Seq(Octets)
         /\ Saying(F, hse', b \o oi'.buf, s, e)
         /\ OiType(oi, Octets)' /\ oi'.size = oi.size /\ oi'.res = oi.res
<1> DEFINE B == b \o oi.buf
           B2 == b \o oi'.buf
           n == H!Enc!Min({PushBits, Len(hse.outgoing)})
           y == SubSeq(hse.outgoing, 1, n)
           left == SubSeq(hse.outgoing, n + 1, Len(hse.outgoing))
           h == [hse EXCEPT !.outgoing = left]
           x == ReferenceBits(hse.match_pos, hse.match_length)
           k == e - Len(hse.outgoing)
<1>1. DOMAIN hse = EncFields /\ EncType(hse) /\ EncWindow(F, hse, s)
  BY DEF EncOk, EncType
<1>2. hse.outgoing \in Seq(Int) /\ Len(hse.outgoing) \in Nat /\ PushBits \in Nat /\ PushBits <= 8
  BY <1>1, HeatshrinkAssumption DEF EncType
<1>3. n \in Nat /\ n <= Len(hse.outgoing) /\ n <= 8
  <2>1. /\ n \in Nat /\ n <= PushBits /\ n <= Len(hse.outgoing)
    BY <1>2, MinOfTwo
  <2> HIDE DEF n
  <2> QED
    BY <1>2, <2>1
<1>4. H!Enc!Push(y, h)
  BY <1>1 DEF H!Enc!PushOutgoing, EncFields
<1> HIDE DEF n
<1>5. /\ y \in Seq(Int) /\ Len(y) = n
      /\ \A j \in 1 .. n : y[j] = hse.outgoing[j]
  <2>1. PICK o \in Seq(Int) : o = hse.outgoing /\ n <= Len(o)
    BY <1>2, <1>3
  <2>2. Len(o) \in Nat
    OBVIOUS
  <2>3. Len(SubSeq(o, 1, n)) = n /\ \A j \in 1 .. n : SubSeq(o, 1, n)[j] = o[j]
    BY <1>3, <2>1, <2>2
  <2>4. \A j \in 1 .. n : o[j] \in Int
    BY <1>3, <2>1, <2>2
  <2>5. SubSeq(o, 1, n) \in Seq(Int)
    BY <1>3, <2>1, <2>2, <2>4, SubSeqProperties
  <2> QED
    BY <2>1, <2>3, <2>5
<1>6. /\ left \in Seq(Int) /\ Len(left) = Len(hse.outgoing) - n
      /\ \A j \in 1 .. Len(hse.outgoing) - n : left[j] = hse.outgoing[n + j]
  <2>1. PICK o \in Seq(Int) : o = hse.outgoing /\ n \in 0 .. Len(o)
    BY <1>2, <1>3
  <2> QED
    BY <2>1, TailOf
<1> HIDE DEF y, left
<1>7. DOMAIN h = EncFields
  BY <1>1
<1>8. /\ NotBits(hse', h)
      /\ OiType(oi, Octets)' /\ oi'.size = oi.size /\ oi'.res = oi.res
      /\ GoesOn(B, hse.bits, B2, hse'.bits, y)
  <2> HIDE DEF h
  <2>1. y \in Seq(Int) /\ Len(y) <= 8
    BY <1>3, <1>5
  <2> QED
    BY <1>1, <1>4, <1>7, <2>1, PushStep
<1>9. B2 \in Seq(Octets) /\ hse'.bits \in Seq(Int) /\ Len(hse'.bits) < 8
  BY <1>8 DEF GoesOn
<1>10. hse'.outgoing = left /\ hse'.state = hse.state
  BY <1>1, <1>8 DEF NotBits, EncFields
<1>11. RestKept(hse', hse)
  BY <1>1, <1>6, <1>8, <1>9, <1>10 DEF RestKept, NotBits, EncFields
<1>12. Scan(hse', s) = Scan(hse, s)
  BY <1>1, <1>11, RestKeptOk
<1>13. /\ Matched(F, hse, s) /\ k \in Nat
       /\ Said(F, Flat(B, hse.bits), BitCount(B, hse.bits), Scan(hse, s), x, k)
       /\ \A j \in 1 .. Len(hse.outgoing) : hse.outgoing[j] = x[k + j]
  BY DEF Saying
<1> HIDE DEF x
<1>14. PICK l, i \in Nat : l = Len(hse.outgoing) /\ i = k /\ n <= l /\ e - l = i
  BY <1>2, <1>3, <1>13
<1>15. \A j \in 1 .. Len(y) : y[j] = x[i + j]
  <2>1. ASSUME NEW j \in 1 .. n PROVE y[j] = x[i + j]
    <3>1. j \in 1 .. l
      BY <1>3, <1>14
    <3>2. hse.outgoing[j] = x[i + j]
      BY <1>13, <1>14, <3>1
    <3> QED
      BY <1>5, <3>2
  <2> QED
    BY <1>5, <2>1
<1>16. BitCount(B, hse.bits) \in Nat
  BY BitCountType
<1> HIDE DEF k
<1>17. Said(F, Flat(B2, hse'.bits), BitCount(B2, hse'.bits), Scan(hse', s), x, i + n)
  <2> HIDE DEF B, B2
  <2>1. Said(F, Flat(B, hse.bits), BitCount(B, hse.bits), Scan(hse, s), x, i)
    BY <1>13, <1>14
  <2>2. Said(F, Flat(B2, hse'.bits), BitCount(B2, hse'.bits), Scan(hse, s), x, i + Len(y))
    BY <1>5, <1>8, <1>15, <1>16, <2>1, SaysMore
  <2> QED
    BY <1>5, <1>12, <2>2
<1>18. Len(hse'.outgoing) = l - n /\ e - (l - n) = i + n /\ i + n \in Nat
  BY <1>3, <1>6, <1>10, <1>14
<1>19. \A j \in 1 .. Len(hse'.outgoing) : hse'.outgoing[j] = x[(i + n) + j]
  <2>1. ASSUME NEW j \in 1 .. l - n PROVE left[j] = x[(i + n) + j]
    <3>1. n + j \in 1 .. l /\ i + (n + j) = (i + n) + j
      BY <1>3, <1>14
    <3>2. hse.outgoing[n + j] = x[i + (n + j)]
      BY <1>13, <1>14, <3>1
    <3>3. left[j] = hse.outgoing[n + j]
      BY <1>6, <1>14
    <3> QED
      BY <3>1, <3>2, <3>3
  <2> QED
    BY <1>10, <1>18, <2>1
<1>20. Matched(F, hse', s)
  BY <1>11, <1>12, <1>13 DEF Matched, RestKept
<1>21. Saying(F, hse', B2, s, e)
  <2> HIDE DEF B2
  <2>1. ReferenceBits(hse'.match_pos, hse'.match_length) = x
    BY <1>11 DEF RestKept, x
  <2>2. e - Len(hse'.outgoing) = i + n /\ i + n \in Nat
    BY <1>18
  <2> QED
    BY <1>17, <1>19, <1>20, <2>1, <2>2, SayingIs
<1> QED
  BY <1>8, <1>9, <1>10, <1>11, <1>21

\* The position goes out, a part at a time (heatshrink_encoder.c:350-364).
LEMMA IndexStep ==
  ASSUME NEW F, NEW b \in Seq(Octets), NEW s, EncOk(F, hse, b \o oi.buf, s),
         OiType(oi, Octets), H!Enc!st_yield_br_index
  PROVE  /\ EncOk(F, hse', b \o oi'.buf, s)
         /\ OiType(oi, Octets)' /\ oi'.size = oi.size /\ oi'.res = oi.res
<1> DEFINE B == b \o oi.buf
           B2 == b \o oi'.buf
<1>1. DOMAIN hse = EncFields /\ EncType(hse) /\ EncWindow(F, hse, s) /\ F \in Seq(0 .. 255)
      /\ EncFlags(F, hse, s) /\ EncCode(F, hse, B, s) /\ B \in Seq(Octets) /\ s \in 0 .. Len(F)
  BY DEF EncOk, EncType
<1>2. hse.state = "YIELD_BR_INDEX"
  BY DEF H!Enc!st_yield_br_index, H!Enc!Polling
<1>3. Saying(F, hse, B, s, 1 + WindowBits)
  BY <1>1, <1>2 DEF EncCode
<1>4. CASE hse.outgoing # << >>
  <2>1. H!Enc!PushOutgoing
    BY <1>4 DEF H!Enc!st_yield_br_index
  <2>2. 1 + WindowBits \in Nat
    BY BitsType
  <2>3. /\ RestKept(hse', hse) /\ hse'.state = hse.state
        /\ B2 \in Seq(Octets)
        /\ Saying(F, hse', B2, s, 1 + WindowBits)
        /\ OiType(oi, Octets)' /\ oi'.size = oi.size /\ oi'.res = oi.res
    BY <1>3, <1>4, <2>1, <2>2, OutgoingSays
  <2>4. /\ EncType(hse') /\ EncWindow(F, hse', s) /\ Base(hse', s) = Base(hse, s)
    <3>1. EncType(hse) /\ EncWindow(F, hse, s) /\ RestKept(hse', hse)
      BY <1>1, <2>3
    <3> QED
      BY <3>1, RestKeptOk
  <2>5. EncFlags(F, hse', s)
    BY <1>1, <1>2, <2>3, <2>4 DEF EncFlags, Ends, RestKept
  <2>6. EncCode(F, hse', B2, s)
    BY <1>2, <2>3 DEF EncCode
  <2> QED
    BY <1>1, <2>3, <2>4, <2>5, <2>6 DEF EncOk
<1>5. CASE hse.outgoing = << >>
  <2> DEFINE out == H!Enc!Bits(hse.match_length - 1, LookaheadBits)
             x == ReferenceBits(hse.match_pos, hse.match_length)
  <2>1. hse' = [hse EXCEPT !.outgoing = out, !.state = "YIELD_BR_LENGTH"] /\ oi' = oi
    BY <1>1, <1>5 DEF H!Enc!st_yield_br_index, EncFields
  <2>2. Matched(F, hse, s) /\ Len(hse.outgoing) = 0
    BY <1>3, <1>5 DEF Saying
  <2>3. hse.match_length - 1 \in Nat
    BY <2>2, BitsType DEF Matched, Repeated
  <2>4. /\ out \in Seq(Int) /\ Len(out) = LookaheadBits
        /\ \A j \in 1 .. LookaheadBits :
             out[j] = ((hse.match_length - 1) \div P2[LookaheadBits - j]) % 2
    BY <2>3, BitsAre, BitsType
  <2> HIDE DEF out
  <2>5. /\ DOMAIN hse' = EncFields /\ hse'.buffer = hse.buffer
        /\ hse'.input_size = hse.input_size /\ hse'.match_scan_index = hse.match_scan_index
        /\ hse'.match_length = hse.match_length /\ hse'.match_pos = hse.match_pos
        /\ hse'.outgoing = out /\ hse'.flags = hse.flags /\ hse'.bits = hse.bits
        /\ hse'.state = "YIELD_BR_LENGTH"
    BY <1>1, <2>1 DEF EncFields
  <2>6. RestKept(hse', hse)
    BY <1>1, <2>4, <2>5 DEF RestKept, EncType
  <2>7. /\ EncType(hse') /\ EncWindow(F, hse', s) /\ Base(hse', s) = Base(hse, s)
        /\ Scan(hse', s) = Scan(hse, s)
    BY <1>1, <2>6, RestKeptOk
  <2>8. EncFlags(F, hse', s)
    BY <1>1, <1>2, <2>5, <2>7 DEF EncFlags, Ends
  <2>9. PICK w, l \in Nat : w = WindowBits /\ l = LookaheadBits
    BY BitsType
  <2>10. Said(F, Flat(B, hse.bits), BitCount(B, hse.bits), Scan(hse, s), x, 1 + w)
    <3>1. (1 + w) - Len(hse.outgoing) = 1 + w
      BY <2>2
    <3> HIDE DEF x, B
    <3> QED
      BY <1>3, <2>9, <3>1 DEF Saying, x
  <2>11. \A j \in 1 .. Len(out) : out[j] = x[(1 + w) + j]
    <3>1. ASSUME NEW j \in 1 .. l PROVE out[j] = x[(1 + w) + j]
      <4>1. RefLen = 1 + w + l
        BY <2>9 DEF RefLen
      <4>2. /\ (1 + w) + j \in 1 .. RefLen /\ (1 + w) + j # 1 /\ ~ ((1 + w) + j <= 1 + w)
            /\ RefLen - ((1 + w) + j) = l - j
        BY <4>1
      <4>3. x[(1 + w) + j] = ((hse.match_length - 1) \div P2[RefLen - ((1 + w) + j)]) % 2
        BY <2>9, <4>2 DEF ReferenceBits
      <4>4. out[j] = ((hse.match_length - 1) \div P2[l - j]) % 2
        BY <2>4, <2>9
      <4> QED
        BY <4>2, <4>3, <4>4
    <3> QED
      BY <2>4, <2>9, <3>1
  <2>12. Matched(F, hse', s)
    BY <2>2, <2>5, <2>7 DEF Matched
  <2>13. Saying(F, hse', B, s, RefLen)
    <3>1. ReferenceBits(hse'.match_pos, hse'.match_length) = x
      BY <2>5
    <3>2. RefLen - Len(hse'.outgoing) = 1 + w /\ 1 + w \in Nat
      <4>1. RefLen = 1 + w + l /\ Len(hse'.outgoing) = l
        BY <2>4, <2>5, <2>9 DEF RefLen
      <4> QED
        BY <4>1
    <3> HIDE DEF x, B
    <3>3. Said(F, Flat(B, hse'.bits), BitCount(B, hse'.bits), Scan(hse', s), x, 1 + w)
      BY <2>5, <2>7, <2>10
    <3>4. \A j \in 1 .. Len(hse'.outgoing) : hse'.outgoing[j] = x[(1 + w) + j]
      BY <2>5, <2>11
    <3> QED
      BY <2>12, <3>1, <3>2, <3>3, <3>4, SayingIs
  <2>14. EncCode(F, hse', B, s)
    BY <2>5, <2>13 DEF EncCode
  <2> QED
    BY <1>1, <2>1, <2>7, <2>8, <2>14 DEF EncOk
<1> QED
  BY <1>4, <1>5

\* The length goes out, and the scan moves on (heatshrink_encoder.c:366-380).
LEMMA LengthStep ==
  ASSUME NEW F, NEW b \in Seq(Octets), NEW s, EncOk(F, hse, b \o oi.buf, s),
         OiType(oi, Octets), H!Enc!st_yield_br_length
  PROVE  /\ EncOk(F, hse', b \o oi'.buf, s)
         /\ OiType(oi, Octets)' /\ oi'.size = oi.size /\ oi'.res = oi.res
<1> DEFINE B == b \o oi.buf
           B2 == b \o oi'.buf
<1>1. DOMAIN hse = EncFields /\ EncType(hse) /\ EncWindow(F, hse, s) /\ F \in Seq(0 .. 255)
      /\ EncFlags(F, hse, s) /\ EncCode(F, hse, B, s) /\ B \in Seq(Octets) /\ s \in 0 .. Len(F)
  BY DEF EncOk, EncType
<1>2. hse.state = "YIELD_BR_LENGTH"
  BY DEF H!Enc!st_yield_br_length, H!Enc!Polling
<1>3. Saying(F, hse, B, s, RefLen)
  BY <1>1, <1>2 DEF EncCode
<1>4. CASE hse.outgoing # << >>
  <2>1. H!Enc!PushOutgoing
    BY <1>4 DEF H!Enc!st_yield_br_length
  <2>2. RefLen \in Nat
    BY BitsType
  <2>3. /\ RestKept(hse', hse) /\ hse'.state = hse.state
        /\ B2 \in Seq(Octets)
        /\ Saying(F, hse', B2, s, RefLen)
        /\ OiType(oi, Octets)' /\ oi'.size = oi.size /\ oi'.res = oi.res
    BY <1>3, <1>4, <2>1, <2>2, OutgoingSays
  <2>4. /\ EncType(hse') /\ EncWindow(F, hse', s) /\ Base(hse', s) = Base(hse, s)
    BY <1>1, <2>3, RestKeptOk
  <2>5. EncFlags(F, hse', s)
    BY <1>1, <1>2, <2>3, <2>4 DEF EncFlags, Ends, RestKept
  <2>6. EncCode(F, hse', B2, s)
    BY <1>2, <2>3 DEF EncCode
  <2> QED
    BY <1>1, <2>3, <2>4, <2>5, <2>6 DEF EncOk
<1>5. CASE hse.outgoing = << >>
  <2> DEFINE x == ReferenceBits(hse.match_pos, hse.match_length)
  <2>1. hse' = [hse EXCEPT !.match_scan_index = @ + hse.match_length, !.match_length = 0,
                           !.state = "SEARCH"] /\ oi' = oi
    BY <1>1, <1>5 DEF H!Enc!st_yield_br_length
  <2>2. Matched(F, hse, s) /\ Len(hse.outgoing) = 0
    BY <1>3, <1>5 DEF Saying
  <2>3. PICK f, k, m, z \in Nat :
          /\ f = Scan(hse, s) /\ k = hse.match_scan_index
          /\ m = hse.match_length /\ z = hse.input_size
    BY <1>1, ScanPlace DEF EncType
  <2>4. k + m <= z /\ Repeated(F, f, hse.match_pos, m)
    BY <2>2, <2>3 DEF Matched
  <2>5. Said(F, Flat(B, hse.bits), BitCount(B, hse.bits), f, x, RefLen)
    <3>1. RefLen - Len(hse.outgoing) = RefLen
      BY <2>2, BitsType
    <3> HIDE DEF x, B
    <3> QED
      BY <1>3, <2>3, <3>1 DEF Saying, x
  <2>6. BitCount(B, hse.bits) \in Nat
    BY BitCountType
  <2>7. Coded(F, Flat(B, hse.bits), BitCount(B, hse.bits), f + m)
    <3> HIDE DEF B
    <3>1. x = ReferenceBits(hse.match_pos, m)
      BY <2>3
    <3> QED
      BY <2>4, <2>5, <2>6, <3>1, SaidReference
  <2>8. /\ DOMAIN hse' = EncFields /\ hse'.buffer = hse.buffer
        /\ hse'.input_size = hse.input_size /\ hse'.match_scan_index = k + m
        /\ hse'.match_length = 0 /\ hse'.match_pos = hse.match_pos
        /\ hse'.outgoing = hse.outgoing /\ hse'.flags = hse.flags /\ hse'.bits = hse.bits
        /\ hse'.state = "SEARCH"
    BY <1>1, <2>1, <2>3 DEF EncFields
  <2>9. BufferKept(hse', hse)
    <3>1. k + m \in 0 .. z
      BY <2>4
    <3> QED
      BY <1>1, <2>3, <2>8, <3>1 DEF BufferKept, EncType
  <2>10. EncType(hse') /\ EncWindow(F, hse', s) /\ Base(hse', s) = Base(hse, s)
    <3>1. EncType(hse) /\ EncWindow(F, hse, s)
      BY <1>1
    <3> QED
      BY <2>9, <3>1, EncTypeKept
  <2>11. Scan(hse', s) = f + m
    <3>1. PICK a \in Nat : a = Base(hse, s)
      BY ScanPlace
    <3>2. Scan(hse', s) = a + (k + m) /\ f = a + k
      BY <2>3, <2>8, <2>10, <3>1 DEF Scan
    <3> QED
      BY <3>2
  <2>12. EncFlags(F, hse', s)
    BY <1>1, <1>2, <2>8, <2>10 DEF EncFlags, Ends
  <2>13. EncCode(F, hse', B, s)
    BY <2>7, <2>8, <2>11 DEF EncCode
  <2> QED
    BY <1>1, <2>1, <2>10, <2>12, <2>13 DEF EncOk
<1> QED
  BY <1>4, <1>5

-----------------------------------------------------------------------------
\* The last bits go out with zero bits behind them.
LEMMA Padded ==
  ASSUME NEW B \in Seq(Octets), NEW p \in Seq(Int), Len(p) < 8
  PROVE  LET c == [i \in 1 .. 8 |-> IF i <= Len(p) THEN p[i] ELSE 0]
         IN /\ c \in Octets /\ Append(B, c) \in Seq(Octets) /\ Len(Append(B, c)) = Len(B) + 1
            /\ Agree(Flat(B, p), Flat(Append(B, c), << >>), BitCount(B, p))
<1> DEFINE c == [i \in 1 .. 8 |-> IF i <= Len(p) THEN p[i] ELSE 0]
           B2 == Append(B, c)
<1>1. PICK m, n \in Nat : m = Len(B) /\ n = Len(p) /\ n < 8
  <2>1. Len(B) \in Nat /\ Len(p) \in Nat
    OBVIOUS
  <2> QED
    BY <2>1
<1>2. c \in Octets /\ Len(c) = 8
  <2>1. \A i \in 1 .. n : p[i] \in Int
    BY <1>1
  <2>2. c \in Seq(Int) /\ Len(c) = 8
    BY <1>1, <2>1
  <2> QED
    BY <2>2 DEF Octets
<1>3. \A i \in 1 .. n : c[i] = p[i]
  BY <1>1
<1> HIDE DEF c
<1>4. B2 \in Seq(Octets) /\ Len(B2) = m + 1 /\ (\A i \in 1 .. m : B2[i] = B[i]) /\ B2[m + 1] = c
  BY <1>1, <1>2
<1>5. BitCount(B, p) = 8 * m + n
  BY <1>1 DEF BitCount
<1> HIDE DEF B2
<1>6. << >> \in Seq(Int)
  OBVIOUS
<1>7. ASSUME NEW k \in Nat, k < 8 * m + n PROVE Flat(B2, << >>)[k] = Flat(B, p)[k]
  <2>1. CASE k < 8 * m
    <3>1. (k \div 8) + 1 \in 1 .. m
      BY <2>1
    <3>2. k < 8 * Len(B2) /\ k < 8 * Len(B)
      BY <1>1, <1>4, <2>1
    <3>3. Flat(B2, << >>)[k] = B2[(k \div 8) + 1][(k % 8) + 1]
      BY <1>4, <1>6, <3>2, FlatAt
    <3>4. Flat(B, p)[k] = B[(k \div 8) + 1][(k % 8) + 1]
      BY <3>2, FlatAt
    <3> QED
      BY <1>4, <3>1, <3>3, <3>4
  <2>2. CASE ~ (k < 8 * m)
    <3>1. PICK j \in Nat : j = k - 8 * m + 1 /\ j > 0 /\ j <= n /\ k = 8 * m + j - 1
      <4>1. k - 8 * m + 1 \in Nat /\ k - 8 * m + 1 > 0 /\ k - 8 * m + 1 <= n
            /\ k = 8 * m + (k - 8 * m + 1) - 1
        BY <1>7, <2>2
      <4> QED
        BY <4>1
    <3>2. j \in 1 .. 8 /\ j \in 1 .. n /\ m < m + 1
      <4>1. n < 8 /\ j > 0 /\ j <= n
        BY <1>1, <3>1
      <4> QED
        BY <4>1
    <3>3. Flat(B2, << >>)[8 * m + j - 1] = B2[m + 1][j]
      BY <1>4, <1>6, <3>2, FlatAt
    <3>4. Flat(B, p)[8 * m + j - 1] = p[j]
      BY <1>1, <3>2, FlatAt
    <3> QED
      BY <1>3, <1>4, <3>1, <3>2, <3>3, <3>4
  <2> QED
    BY <2>1, <2>2
<1>8. Agree(Flat(B, p), Flat(B2, << >>), BitCount(B, p))
  BY <1>5, <1>7 DEF Agree
<1> QED
  BY <1>1, <1>2, <1>4, <1>8 DEF B2, c

\* The last bits go out, with zeros behind them (heatshrink_encoder.c:398-411).
LEMMA FlushStep ==
  ASSUME NEW F, NEW b \in Seq(Octets), NEW s, EncOk(F, hse, b \o oi.buf, s),
         OiType(oi, Octets), oi.size > 0, H!Enc!st_flush_bit_buffer
  PROVE  /\ EncOk(F, hse', b \o oi'.buf, s)
         /\ OiType(oi, Octets)' /\ oi'.size = oi.size /\ oi'.res = "EMPTY"
         /\ oi'.buf = << >> => hse'.state = "DONE"
<1> DEFINE B == b \o oi.buf
           c == [i \in 1 .. 8 |-> IF i <= Len(hse.bits) THEN hse.bits[i] ELSE 0]
           full == ~ H!Enc!CanTakeByte
           o2 == IF hse.bits = << >> \/ full THEN oi.buf ELSE Append(oi.buf, c)
           s2 == IF hse.bits = << >> \/ ~ full THEN "DONE" ELSE "FLUSH_BITS"
<1>1. DOMAIN hse = EncFields /\ EncType(hse) /\ EncWindow(F, hse, s) /\ F \in Seq(0 .. 255)
      /\ EncFlags(F, hse, s) /\ EncCode(F, hse, B, s) /\ B \in Seq(Octets) /\ s \in 0 .. Len(F)
  BY DEF EncOk, EncType
<1>2. hse.state = "FLUSH_BITS"
  BY DEF H!Enc!st_flush_bit_buffer, H!Enc!Polling
<1>3. hse' = [hse EXCEPT !.state = s2] /\ oi' = [oi EXCEPT !.res = "EMPTY", !.buf = o2]
  BY DEF H!Enc!st_flush_bit_buffer, OiType
<1>4. hse.bits \in Seq(Int) /\ Len(hse.bits) < 8 /\ oi.buf \in Seq(Octets)
  BY <1>1 DEF EncType, OiType
<1>5. c \in Octets
  <2> HIDE DEF B
  <2>1. B \in Seq(Octets) /\ hse.bits \in Seq(Int) /\ Len(hse.bits) < 8
    BY <1>1, <1>4
  <2> QED
    BY <2>1, Padded
<1> HIDE DEF c
<1>6. o2 \in Seq(Octets)
  BY <1>4, <1>5
<1>7. full => oi.buf # << >>
  BY <1>4 DEF H!Enc!CanTakeByte, OiType
<1>8. o2 = << >> => s2 = "DONE"
  BY <1>7
<1>9. /\ DOMAIN hse' = EncFields /\ hse'.buffer = hse.buffer
      /\ hse'.input_size = hse.input_size /\ hse'.match_scan_index = hse.match_scan_index
      /\ hse'.match_length = hse.match_length /\ hse'.match_pos = hse.match_pos
      /\ hse'.outgoing = hse.outgoing /\ hse'.flags = hse.flags /\ hse'.bits = hse.bits
      /\ hse'.state = s2
  BY <1>1, <1>3 DEF EncFields
<1>10. OiType(oi, Octets)' /\ oi'.size = oi.size /\ oi'.res = "EMPTY" /\ oi'.buf = o2
  BY <1>3, <1>6 DEF OiType
<1>11. BufferKept(hse', hse)
  BY <1>1, <1>9 DEF BufferKept, EncType
<1>12. EncType(hse') /\ EncWindow(F, hse', s) /\ Base(hse', s) = Base(hse, s)
  <2>1. EncType(hse) /\ EncWindow(F, hse, s)
    BY <1>1
  <2> QED
    BY <1>11, <2>1, EncTypeKept
<1>13. s2 \in {"DONE", "FLUSH_BITS"}
  OBVIOUS
<1>14. EncFlags(F, hse', s)
  <2> HIDE DEF s2
  <2> QED
    BY <1>1, <1>2, <1>9, <1>12, <1>13 DEF EncFlags, Ends
<1>15. Scan(hse', s) = Scan(hse, s)
  BY <1>9, <1>12 DEF Scan
<1>16. Coded(F, Flat(B, hse.bits), BitCount(B, hse.bits), Scan(hse, s))
  BY <1>1, <1>2 DEF EncCode
<1>17. PICK m, n \in Nat : m = Len(B) /\ n = Len(hse.bits) /\ n < 8
  <2>1. Len(B) \in Nat /\ Len(hse.bits) \in Nat
    BY <1>1, <1>4
  <2> QED
    BY <1>4, <2>1
<1>18. BitCount(B, hse.bits) = 8 * m + n
  BY <1>17 DEF BitCount
<1>19. EncCode(F, hse', b \o o2, s) /\ b \o o2 \in Seq(Octets)
  <2>1. CASE hse.bits = << >>
    <3>1. o2 = oi.buf /\ s2 = "DONE" /\ n = 0 /\ b \o o2 = B
      BY <1>17, <2>1
    <3>2. Coded(F, Flat(B, << >>), 8 * m, Scan(hse', s))
      <4>1. 8 * m + n = 8 * m
        BY <3>1
      <4> QED
        BY <1>15, <1>16, <1>18, <2>1, <4>1
    <3>3. 8 * m \in Nat /\ 8 * m <= 8 * Len(B) /\ 8 * Len(B) <= (8 * m) + 7
      BY <1>17
    <3> HIDE DEF B, o2, s2
    <3> QED
      BY <1>1, <1>9, <3>1, <3>2, <3>3 DEF EncCode
  <2>2. CASE hse.bits # << >> /\ full
    <3>1. o2 = oi.buf /\ s2 = "FLUSH_BITS" /\ b \o o2 = B
      BY <2>2
    <3> HIDE DEF B, o2, s2
    <3> QED
      BY <1>1, <1>9, <1>15, <1>16, <3>1 DEF EncCode
  <2>3. CASE hse.bits # << >> /\ ~ full
    <3>1. o2 = Append(oi.buf, c) /\ s2 = "DONE" /\ n # 0
      BY <1>4, <1>17, <2>3
    <3>2. b \o o2 = Append(B, c)
      BY <1>4, <1>5, <3>1
    <3>3. /\ Append(B, c) \in Seq(Octets) /\ Len(Append(B, c)) = m + 1
          /\ Agree(Flat(B, hse.bits), Flat(Append(B, c), << >>), BitCount(B, hse.bits))
      <4> HIDE DEF B
      <4> QED
        BY <1>1, <1>4, <1>17, Padded DEF c
    <3>4. Coded(F, Flat(Append(B, c), << >>), 8 * m + n, Scan(hse', s))
      <4> HIDE DEF B
      <4>1. 8 * m + n \in Nat
        OBVIOUS
      <4> QED
        BY <1>15, <1>16, <1>18, <3>3, <4>1, CodedKept
    <3>5. 8 * m + n \in Nat /\ 8 * m + n <= 8 * (m + 1) /\ 8 * (m + 1) <= (8 * m + n) + 7
      <4>1. n # 0 /\ n < 8
        BY <1>17, <3>1
      <4> QED
        BY <4>1
    <3> HIDE DEF B, o2, s2
    <3> QED
      BY <1>9, <3>1, <3>2, <3>3, <3>4, <3>5 DEF EncCode
  <2> QED
    BY <2>1, <2>2, <2>3
<1> HIDE DEF o2, s2
<1> QED
  BY <1>1, <1>8, <1>9, <1>10, <1>12, <1>14, <1>19 DEF EncOk

\* What a poll does, step by step
LEMMA EncStepKept ==
  ASSUME NEW F, NEW b \in Seq(Octets), NEW s, EncOk(F, hse, b \o oi.buf, s),
         OiType(oi, Octets), oi.size > 0, oi.res = "busy", H!Enc!Step
  PROVE  /\ EncOk(F, hse', b \o oi'.buf, s)
         /\ OiType(oi, Octets)' /\ oi'.size > 0 /\ oi'.res \in {"busy", "MORE", "EMPTY"}
         /\ oi'.res = "EMPTY" /\ oi'.buf = << >> => hse'.state \in {"NOT_FULL", "DONE"}
<1>1. CASE H!Enc!st_filled
  <2>1. EncOk(F, hse', b \o oi.buf, s) /\ oi' = oi
    BY <1>1, FilledStep
  <2> QED
    BY <2>1
<1>2. CASE H!Enc!st_step_search
  <2>1. EncOk(F, hse', b \o oi.buf, s) /\ oi' = oi
    BY <1>2, SearchStep
  <2> QED
    BY <2>1
<1>3. CASE H!Enc!st_save_backlog
  <2>1. EncOk(F, hse', b \o oi.buf, s) /\ oi' = oi
    BY <1>3, BacklogStep
  <2> QED
    BY <2>1
<1>4. CASE H!Enc!st_yield_tag_bit
  BY <1>4, TagStep
<1>5. CASE H!Enc!st_yield_literal
  BY <1>5, LiteralStep
<1>6. CASE H!Enc!st_yield_br_index
  BY <1>6, IndexStep
<1>7. CASE H!Enc!st_yield_br_length
  BY <1>7, LengthStep
<1>8. CASE H!Enc!st_flush_bit_buffer
  BY <1>8, FlushStep
<1>9. CASE H!Enc!PollEmpty
  <2>1. hse' = hse /\ oi' = [oi EXCEPT !.res = "EMPTY"] /\ hse.state \in {"NOT_FULL", "DONE"}
    BY <1>9 DEF H!Enc!PollEmpty, H!Enc!Polling
  <2>2. OiType(oi, Octets)' /\ oi'.size = oi.size /\ oi'.res = "EMPTY" /\ oi'.buf = oi.buf
    BY <2>1 DEF OiType
  <2> QED
    BY <2>1, <2>2
<1>10. CASE H!Enc!PollMore
  <2>1. hse' = hse /\ oi' = [oi EXCEPT !.res = "MORE"]
    BY <1>10 DEF H!Enc!PollMore
  <2>2. OiType(oi, Octets)' /\ oi'.size = oi.size /\ oi'.res = "MORE" /\ oi'.buf = oi.buf
    BY <2>1 DEF OiType
  <2> QED
    BY <2>1, <2>2
<1> QED
  BY <1>1, <1>2, <1>3, <1>4, <1>5, <1>6, <1>7, <1>8, <1>9, <1>10 DEF H!Enc!Step

-----------------------------------------------------------------------------
(* The tool's steps while it packs.                                         *)

\* The first n elements of a sequence
LEMMA HeadOf ==
  ASSUME NEW A, NEW x \in Seq(A), NEW n \in 0 .. Len(x)
  PROVE  /\ SubSeq(x, 1, n) \in Seq(A) /\ Len(SubSeq(x, 1, n)) = n
         /\ \A j \in 1 .. n : SubSeq(x, 1, n)[j] = x[j]
<1>1. Len(x) \in Nat
  OBVIOUS
<1>2. Len(SubSeq(x, 1, n)) = n /\ \A j \in 1 .. n : SubSeq(x, 1, n)[j] = x[j]
  BY <1>1
<1>3. \A j \in 1 .. n : x[j] \in A
  BY <1>1
<1>4. SubSeq(x, 1, n) \in Seq(A)
  BY <1>1, <1>3, SubSeqProperties
<1> QED
  BY <1>2, <1>4

\* A read answers at least a byte, while there is one.
LEMMA ReadStep ==
  ASSUME NEW A, rest \in Seq(A), sizes.read \in Nat \ {0}, NEW next, H!Read(next)
  PROVE  /\ data' \in Seq(A) /\ rest' \in Seq(A) /\ Len(rest') + Len(data') = Len(rest)
         /\ \A i \in 1 .. Len(data') : data'[i] = rest[i]
         /\ \A i \in 1 .. Len(rest') : rest'[i] = rest[Len(data') + i]
         /\ Len(rest) > 0 => Len(data') > 0
         /\ atEnd' = (rest = << >>) /\ step' = next
         /\ UNCHANGED <<hse, hsd, oi, file, sizes, packed, unpacked>>
<1> DEFINE n == H!Min({sizes.read, Len(rest)})
<1>1. data' = SubSeq(rest, 1, n) /\ rest' = SubSeq(rest, n + 1, Len(rest))
      /\ atEnd' = (rest = << >>) /\ step' = next
      /\ UNCHANGED <<hse, hsd, oi, file, sizes, packed, unpacked>>
  BY DEF H!Read
<1>2. PICK r \in Seq(A), l, z \in Nat : r = rest /\ l = Len(r) /\ z = sizes.read /\ z > 0
  <2>1. Len(rest) \in Nat
    OBVIOUS
  <2> QED
    BY <2>1
<1>3. n \in 0 .. l /\ (l > 0 => n > 0)
  <2>1. {z, l} \in SUBSET Nat /\ {z, l} # {}
    OBVIOUS
  <2>2. H!Min({z, l}) \in {z, l} /\ \A k \in {z, l} : H!Min({z, l}) <= k
    BY <2>1, LeastNumber DEF H!Min
  <2>3. PICK y \in Nat : y = H!Min({z, l}) /\ y \in {z, l} /\ y <= l
    BY <2>2
  <2>4. n = y
    BY <1>2, <2>3
  <2> QED
    BY <1>2, <2>3, <2>4
<1> HIDE DEF n
<1>4. /\ SubSeq(r, 1, n) \in Seq(A) /\ Len(SubSeq(r, 1, n)) = n
      /\ \A j \in 1 .. n : SubSeq(r, 1, n)[j] = r[j]
  BY <1>2, <1>3, HeadOf
<1>5. /\ SubSeq(r, n + 1, Len(r)) \in Seq(A) /\ Len(SubSeq(r, n + 1, Len(r))) = Len(r) - n
      /\ \A j \in 1 .. Len(r) - n : SubSeq(r, n + 1, Len(r))[j] = r[n + j]
  BY <1>2, <1>3, TailOf
<1>6. data' = SubSeq(r, 1, n) /\ rest' = SubSeq(r, n + 1, Len(r))
  BY <1>1, <1>2
<1>7. data' \in Seq(A) /\ Len(data') = n /\ \A j \in 1 .. n : data'[j] = rest[j]
  BY <1>2, <1>4, <1>6
<1>8. rest' \in Seq(A) /\ Len(rest') = l - n /\ \A j \in 1 .. l - n : rest'[j] = rest[n + j]
  BY <1>2, <1>5, <1>6
<1>9. Len(rest') + Len(data') = Len(rest)
  <2>1. (l - n) + n = l
    BY <1>3
  <2> QED
    BY <1>2, <1>7, <1>8, <2>1
<1> QED
  BY <1>1, <1>2, <1>3, <1>7, <1>8, <1>9

\* The files and sizes of HeatshrinkAssumption
LEMMA FileType ==
  ASSUME ToolInv
  PROVE  /\ file \in Seq(0 .. 255) /\ Len(file) \in Nat
         /\ sizes.read \in Nat \ {0} /\ sizes.room \in Nat \ {0} /\ sizes.buffer \in Nat \ {0}
<1>1. file \in Seq(0 .. 255)
  BY HeatshrinkAssumption DEF ToolInv
<1> QED
  BY <1>1, HeatshrinkAssumption DEF ToolInv

\* Packing and unpacking have no step in common.
LEMMA StepsApart == \A x : x \in EncSteps => x \notin DecSteps
BY DEF EncSteps, DecSteps

\* encode reads.
LEMMA EncReadKept ==
  ASSUME ToolInv, H!EncRead
  PROVE  ToolInv'
<1>1. step = "encode: read" /\ H!Read("encode: sink")
  BY DEF H!EncRead
<1>2. packed \in Seq(Octets) /\ EncFeed /\ EncOk(file, hse, packed, Sunk)
      /\ hsd = H!Dec!Fresh(sizes.buffer) /\ unpacked = << >>
  BY <1>1 DEF ToolInv, Encoding, EncSteps, PutOut
<1>3. rest \in Seq(Int) /\ data = << >>
  BY <1>1, <1>2 DEF EncFeed
<1>4. /\ data' \in Seq(Int) /\ rest' \in Seq(Int) /\ Len(rest') + Len(data') = Len(rest)
      /\ \A i \in 1 .. Len(data') : data'[i] = rest[i]
      /\ \A i \in 1 .. Len(rest') : rest'[i] = rest[Len(data') + i]
      /\ Len(rest) > 0 => Len(data') > 0
      /\ atEnd' = (rest = << >>) /\ step' = "encode: sink"
      /\ UNCHANGED <<hse, hsd, oi, file, sizes, packed, unpacked>>
  BY <1>1, <1>3, FileType, ReadStep
<1>5. PICK l, r, d, c \in Nat : /\ l = Len(file) /\ r = Len(rest)
                               /\ d = Len(data') /\ c = Len(rest')
  <2>2. rest \in Seq(Int) /\ data' \in Seq(Int) /\ rest' \in Seq(Int)
    BY <1>3, <1>4
  <2>1. Len(rest) \in Nat /\ Len(data') \in Nat /\ Len(rest') \in Nat
    BY <2>2
  <2> QED
    BY <2>1, FileType
<1>6. c + d = r /\ Len(data) = 0 /\ r <= l
  <2>1. Len(data) = 0
    BY <1>3
  <2>2. Len(rest) + Len(data) <= Len(file)
    BY <1>2 DEF EncFeed
  <2>3. Len(rest') + Len(data') = Len(rest)
    BY <1>4
  <2> QED
    BY <1>5, <2>1, <2>2, <2>3
<1>7. Sunk = l - r /\ Sunk' = l - r
  <2>1. Sunk = l - r - 0
    BY <1>5, <1>6 DEF Sunk
  <2>2. Sunk' = l - c - d
    BY <1>4, <1>5 DEF Sunk
  <2> QED
    BY <1>6, <2>1, <2>2
<1>8. EncFeed'
  <2>1. \A i \in 1 .. r : rest[i] = file[l - r + i]
    BY <1>2, <1>5 DEF EncFeed
  <2>2. \A i \in 1 .. c : rest'[i] = file[l - c + i]
    <3>1. ASSUME NEW i \in 1 .. c PROVE rest'[i] = file[l - c + i]
      <4>1. d + i \in 1 .. r /\ l - r + (d + i) = l - c + i
        BY <1>6
      <4>2. rest'[i] = rest[d + i]
        BY <1>4, <1>5
      <4> QED
        BY <2>1, <4>1, <4>2
    <3> QED
      BY <3>1
  <2>3. \A i \in 1 .. d : data'[i] = file[l - r + i]
    <3>1. \A i \in 1 .. d : i \in 1 .. r
      BY <1>6
    <3> QED
      BY <1>4, <1>5, <2>1, <3>1
  <2>4. atEnd' => rest' = << >> /\ data' = << >>
    <3>1. rest = << >> => c = 0 /\ d = 0
      <4>1. rest = << >> => r = 0
        BY <1>5
      <4> QED
        BY <1>6, <4>1
    <3>2. data' \in Seq(Int) /\ rest' \in Seq(Int) /\ atEnd' = (rest = << >>)
      BY <1>4
    <3> QED
      BY <1>5, <3>1, <3>2, EmptySeq
  <2>5. c + d <= l
    BY <1>6
  <2> QED
    BY <1>4, <1>5, <1>7, <2>2, <2>3, <2>4, <2>5 DEF EncFeed
<1>9. Encoding'
  <2>1. PutOut' = packed
    BY <1>4 DEF PutOut
  <2>2. EncPolls'
    BY <1>4 DEF EncPolls
  <2>4. EncOk(file', hse', PutOut', Sunk')
    BY <1>2, <1>4, <1>7, <2>1
  <2> QED
    BY <1>2, <1>4, <1>8, <2>2, <2>4 DEF Encoding
<1>10. step' \in EncSteps
  BY <1>4 DEF EncSteps
<1> QED
  BY <1>4, <1>9, <1>10, StepsApart DEF ToolInv, Decoding

-----------------------------------------------------------------------------
\* The encoder takes the next bytes of the file.
LEMMA SinkEnc ==
  ASSUME NEW F, NEW B, NEW s, EncOk(F, hse, B, s), NEW d \in Seq(Int),
         s + Len(d) <= Len(F), \A i \in 1 .. Len(d) : d[i] = F[s + i], H!Enc!Sink(d)
  PROVE  /\ H!Enc!Taken(Len(d)) \in 0 .. Len(d)
         /\ EncOk(F, hse', B, s + H!Enc!Taken(Len(d))) /\ oi' = oi
<1>1. DOMAIN hse = EncFields /\ EncType(hse) /\ EncWindow(F, hse, s) /\ F \in Seq(0 .. 255)
      /\ EncFlags(F, hse, s) /\ EncCode(F, hse, B, s) /\ B \in Seq(Octets)
  BY DEF EncOk, EncType
<1>2. PICK w, a, f, k, z, l, e, t \in Nat :
        /\ w = Window /\ a = Base(hse, s) /\ f = Scan(hse, s) /\ k = hse.match_scan_index
        /\ z = hse.input_size /\ l = Len(F) /\ e = Len(d) /\ t = s
  <2>1. Len(F) \in Nat
    BY <1>1, LenProperties
  <2>2. Len(d) \in Nat
    BY LenProperties
  <2> QED
    BY <2>1, <2>2, ScanPlace, BitsType
<1>3. f = a + k /\ t = a + z /\ z <= w /\ k <= z /\ t + e <= l
  BY <1>2, ScanPlace
<1> DEFINE n == H!Enc!Taken(Len(d))
           buf2 == [i \in DOMAIN hse.buffer |->
                      IF i \in w + z .. w + z + n - 1 THEN d[i - (w + z) + 1] ELSE hse.buffer[i]]
           s2 == IF z + n = w THEN "FILLED" ELSE "NOT_FULL"
<1>4. n = (IF w - z < e THEN w - z ELSE e)
  BY <1>2, SizesAre DEF H!Enc!Taken
<1>5. n \in Nat /\ n <= e /\ z + n <= w
  BY <1>3, <1>4
<1> HIDE DEF n
<1>6. hse.state = "NOT_FULL" /\ oi' = oi /\ ~ Ends(hse)
  BY DEF H!Enc!Sink, H!Enc!Finishing, Ends
<1>7. hse' = [hse EXCEPT !.buffer = buf2, !.input_size = z + n, !.state = s2]
  <2>1. hse' = [hse EXCEPT
          !.buffer = [i \in DOMAIN hse.buffer |->
                        IF i \in w + z .. w + z + n - 1 THEN d[i - (w + z) + 1] ELSE hse.buffer[i]],
          !.input_size = z + n,
          !.state = IF z + n = w THEN "FILLED" ELSE "NOT_FULL"]
    BY <1>1, <1>2, <1>6, SizesAre DEF H!Enc!Sink, n, EncFields
  <2> QED
    BY <2>1
<1>8. /\ DOMAIN hse' = EncFields /\ hse'.buffer = buf2
      /\ hse'.input_size = z + n /\ hse'.match_scan_index = k
      /\ hse'.match_length = hse.match_length /\ hse'.match_pos = hse.match_pos
      /\ hse'.outgoing = hse.outgoing /\ hse'.bits = hse.bits /\ hse'.flags = hse.flags
      /\ hse'.state = s2
  BY <1>1, <1>2, <1>7 DEF EncFields
<1>9. hse.buffer \in [0 .. 2 * w - 1 -> Int] /\ DOMAIN hse.buffer = 0 .. 2 * w - 1
  BY <1>1, <1>2 DEF EncType
<1>10. \A i \in 1 .. e : d[i] = F[t + i]
  BY <1>2
<1>11. \A i \in 1 .. e : d[i] \in Int
  BY <1>2, ElementOfSeq
<1>12. buf2 \in [0 .. 2 * w - 1 -> Int]
  <2>1. ASSUME NEW i \in 0 .. 2 * w - 1, i \in w + z .. w + z + n - 1
        PROVE  i - (w + z) + 1 \in 1 .. e
    BY <1>5, <2>1
  <2> QED
    BY <1>9, <1>11, <2>1
<1>13. \A i \in 0 .. 2 * w - 1 :
         i >= w - a /\ i < w + z + n => buf2[i] = F[a + i - w + 1]
  <2>1. \A i \in 0 .. 2 * w - 1 :
          i >= w - a /\ i < w + z => hse.buffer[i] = F[a + i - w + 1]
    BY <1>1, <1>2 DEF EncWindow
  <2>2. ASSUME NEW i \in 0 .. 2 * w - 1, i >= w - a, i < w + z + n
        PROVE  buf2[i] = F[a + i - w + 1]
    <3>1. CASE i < w + z
      <4>1. i \notin w + z .. w + z + n - 1
        BY <3>1
      <4>2. buf2[i] = hse.buffer[i]
        BY <1>9, <4>1
      <4> QED
        BY <2>1, <2>2, <3>1, <4>2
    <3>2. CASE ~ (i < w + z)
      <4>1. i \in w + z .. w + z + n - 1 /\ i - (w + z) + 1 \in 1 .. e
            /\ t + (i - (w + z) + 1) = a + i - w + 1
        BY <1>3, <1>5, <2>2, <3>2
      <4>2. buf2[i] = d[i - (w + z) + 1]
        BY <1>9, <4>1
      <4> QED
        BY <1>10, <4>1, <4>2
    <3> QED
      BY <3>1, <3>2
  <2> QED
    BY <2>2
<1> HIDE DEF buf2, s2
<1>14. Base(hse', t + n) = a /\ Scan(hse', t + n) = f
  <2>1. Base(hse', t + n) = (t + n) - (z + n)
    BY <1>8 DEF Base
  <2>2. (t + n) - (z + n) = a
    BY <1>3, <1>5
  <2> QED
    BY <1>3, <1>8, <2>1, <2>2 DEF Scan
<1>15. EncType(hse')
  <2>1. z + n \in 0 .. w /\ k \in 0 .. z + n
    BY <1>3, <1>5
  <2> QED
    BY <1>1, <1>2, <1>8, <1>12, <2>1 DEF EncType
<1>16. EncWindow(F, hse', t + n)
  <2>1. ASSUME NEW i \in 0 .. 2 * w - 1, i >= w - a, i < w + (z + n)
        PROVE  buf2[i] = F[a + i - w + 1]
    <3>1. i < w + z + n
      BY <1>5, <2>1
    <3> QED
      BY <1>13, <2>1, <3>1
  <2> QED
    BY <1>2, <1>8, <1>14, <2>1 DEF EncWindow
<1>17. EncFlags(F, hse', t + n)
  <2>1. s2 = "NOT_FULL" \/ (s2 = "FILLED" /\ z + n = w)
    BY DEF s2
  <2>2. k = 0
    BY <1>1, <1>2, <1>6 DEF EncFlags
  <2> QED
    BY <1>1, <1>2, <1>6, <1>8, <1>14, <2>1, <2>2 DEF EncFlags, Ends
<1>18. EncCode(F, hse', B, t + n)
  <2>1. s2 \in {"NOT_FULL", "FILLED"}
    BY DEF s2
  <2>2. Coded(F, Flat(B, hse.bits), BitCount(B, hse.bits), f)
    BY <1>1, <1>2, <1>6 DEF EncCode
  <2> QED
    BY <1>8, <1>14, <2>1, <2>2 DEF EncCode
<1>19. t + n \in 0 .. l
  BY <1>3, <1>5
<1>20. EncOk(F, hse', B, t + n)
  BY <1>1, <1>2, <1>15, <1>16, <1>17, <1>18, <1>19 DEF EncOk
<1>21. n \in 0 .. e
  BY <1>5
<1> QED
  BY <1>2, <1>6, <1>20, <1>21 DEF n

\* encode sinks what it read.
LEMMA EncSinkKept ==
  ASSUME ToolInv, H!EncSink
  PROVE  ToolInv'
<1>1. step = "encode: sink" /\ step' = "encode: poll"
      /\ UNCHANGED <<hsd, file, sizes, rest, atEnd, packed, unpacked>>
  BY DEF H!EncSink
<1>2. packed \in Seq(Octets) /\ EncFeed /\ EncOk(file, hse, packed, Sunk)
      /\ hsd = H!Dec!Fresh(sizes.buffer) /\ unpacked = << >>
  BY <1>1 DEF ToolInv, Encoding, EncSteps, PutOut
<1>3. data \in Seq(Int) /\ rest \in Seq(Int) /\ file \in Seq(0 .. 255)
  BY <1>2, FileType DEF EncFeed
<1>4. step' \in EncSteps /\ step' \notin DecSteps
  BY <1>1 DEF EncSteps, DecSteps
<1>5. PutOut' = packed /\ EncPolls'
  BY <1>1 DEF PutOut, EncPolls
<1>6. SUFFICES EncFeed' /\ EncOk(file, hse', packed, Sunk')
  BY <1>1, <1>2, <1>4, <1>5 DEF ToolInv, Encoding, Decoding
<1>7. CASE atEnd
  <2>1. hse' = hse /\ oi' = oi /\ data' = data
    BY <1>7 DEF H!EncSink
  <2>2. Sunk' = Sunk
    BY <1>1, <2>1 DEF Sunk
  <2>3. EncFeed'
    BY <1>1, <1>2, <2>1, <2>2 DEF EncFeed
  <2> QED
    BY <1>2, <2>1, <2>2, <2>3
<1>8. CASE ~ atEnd
  <2> DEFINE n == H!Enc!Taken(Len(data))
  <2>1. H!Enc!Sink(data) /\ data' = SubSeq(data, n + 1, Len(data))
    BY <1>8 DEF H!EncSink
  <2>2. PICK l, r, d \in Nat : l = Len(file) /\ r = Len(rest) /\ d = Len(data)
    BY <1>3, LenProperties
  <2>3. r + d <= l /\ Sunk = l - r - d
    BY <1>2, <2>2 DEF EncFeed, Sunk
  <2>4. \A i \in 1 .. Len(data) : data[i] = file[Sunk + i]
    BY <1>2 DEF EncFeed
  <2>5. Sunk + Len(data) <= Len(file)
    BY <2>2, <2>3
  <2>6. n \in 0 .. Len(data) /\ EncOk(file, hse', packed, Sunk + n) /\ oi' = oi
    <3> HIDE DEF n
    <3> QED
      BY <1>2, <1>3, <2>1, <2>4, <2>5, SinkEnc DEF n
  <2> HIDE DEF n
  <2>7. n \in Nat /\ n <= d
    BY <2>2, <2>6
  <2>8. /\ data' \in Seq(Int) /\ Len(data') = d - n
        /\ \A j \in 1 .. d - n : data'[j] = data[n + j]
    BY <1>3, <2>1, <2>2, <2>6, TailOf
  <2>9. Sunk' = l - r - (d - n) /\ Sunk' = Sunk + n
    <3>1. Sunk' = l - r - (d - n)
      BY <1>1, <2>2, <2>8 DEF Sunk
    <3> QED
      BY <2>3, <2>7, <3>1
  <2>10. EncFeed'
    <3>1. \A i \in 1 .. d - n : data'[i] = file[Sunk' + i]
      <4>1. ASSUME NEW i \in 1 .. d - n PROVE data'[i] = file[Sunk' + i]
        <5>1. n + i \in 1 .. d /\ Sunk' + i = Sunk + (n + i)
          BY <2>3, <2>7, <2>9
        <5> QED
          BY <2>2, <2>4, <2>8, <5>1
      <4> QED
        BY <4>1
    <3>2. r + (d - n) <= l
      BY <2>3, <2>7
    <3>3. ~ atEnd' /\ step' # "encode: read" /\ step' # "encode: finish"
      BY <1>1, <1>8
    <3>4. \A i \in 1 .. Len(rest) : rest[i] = file[Len(file) - Len(rest) + i]
      BY <1>2 DEF EncFeed
    <3> QED
      BY <1>1, <1>3, <2>2, <2>8, <3>1, <3>2, <3>3, <3>4 DEF EncFeed
  <2> QED
    BY <2>6, <2>9, <2>10
<1> QED
  BY <1>7, <1>8

-----------------------------------------------------------------------------
\* encode begins a poll,
LEMMA EncPollKept ==
  ASSUME ToolInv, H!EncPoll
  PROVE  ToolInv'
<1>1. step = "encode: poll" /\ step' = "encode: polling" /\ hse' = hse
      /\ oi' = [buf |-> << >>, size |-> sizes.room, res |-> "busy"]
      /\ UNCHANGED <<hsd, file, sizes, rest, data, atEnd, packed, unpacked>>
  BY DEF H!EncPoll, H!Enc!Poll
<1>2. packed \in Seq(Octets) /\ EncFeed /\ EncOk(file, hse, packed, Sunk)
      /\ hsd = H!Dec!Fresh(sizes.buffer) /\ unpacked = << >>
  BY <1>1 DEF ToolInv, Encoding, EncSteps, PutOut
<1>3. DOMAIN oi' = {"buf", "size", "res"} /\ oi'.buf = << >> /\ oi'.size = sizes.room
      /\ oi'.res = "busy"
  BY <1>1
<1>4. EncPolls'
  <2>1. sizes.room \in Nat /\ sizes.room > 0
    BY FileType
  <2>2. << >> \in Seq(Octets)
    OBVIOUS
  <2> QED
    BY <1>3, <2>1, <2>2 DEF EncPolls
<1>5. PutOut' = packed
  <2>1. packed \o << >> = packed
    BY <1>2
  <2> QED
    BY <1>1, <1>3, <2>1 DEF PutOut
<1>6. Sunk' = Sunk
  BY <1>1 DEF Sunk
<1>7. EncFeed'
  BY <1>1, <1>2, <1>6 DEF EncFeed
<1>8. step' \in EncSteps /\ step' \notin DecSteps
  BY <1>1 DEF EncSteps, DecSteps
<1> QED
  BY <1>1, <1>2, <1>4, <1>5, <1>6, <1>7, <1>8 DEF ToolInv, Encoding, Decoding

\* which goes on,
LEMMA EncPollingKept ==
  ASSUME ToolInv, H!EncStep
  PROVE  ToolInv'
<1>1. step = "encode: polling" /\ H!Enc!Step
      /\ UNCHANGED <<hsd, file, sizes, step, rest, data, atEnd, packed, unpacked>>
  BY DEF H!EncStep
<1>2. packed \in Seq(Octets) /\ EncPolls /\ EncFeed /\ EncOk(file, hse, packed \o oi.buf, Sunk)
      /\ hsd = H!Dec!Fresh(sizes.buffer) /\ unpacked = << >>
  BY <1>1 DEF ToolInv, Encoding, EncSteps, PutOut
<1>3. OiType(oi, Octets) /\ oi.size > 0
  BY <1>1, <1>2 DEF EncPolls, OiType
<1>4. oi.res = "busy"
  BY <1>1 DEF H!Enc!Step, H!Enc!st_filled, H!Enc!st_step_search, H!Enc!st_yield_tag_bit,
              H!Enc!st_yield_literal, H!Enc!st_yield_br_index, H!Enc!st_yield_br_length,
              H!Enc!st_save_backlog, H!Enc!st_flush_bit_buffer, H!Enc!PollEmpty,
              H!Enc!PollMore, H!Enc!Polling
<1>5. /\ EncOk(file, hse', packed \o oi'.buf, Sunk)
      /\ OiType(oi, Octets)' /\ oi'.size > 0 /\ oi'.res \in {"busy", "MORE", "EMPTY"}
      /\ oi'.res = "EMPTY" /\ oi'.buf = << >> => hse'.state \in {"NOT_FULL", "DONE"}
  BY <1>1, <1>2, <1>3, <1>4, EncStepKept
<1>6. PutOut' = packed \o oi'.buf
  BY <1>1 DEF PutOut
<1>7. Sunk' = Sunk
  BY <1>1 DEF Sunk
<1>8. EncFeed'
  BY <1>1, <1>2, <1>7 DEF EncFeed
<1>9. EncPolls'
  BY <1>5 DEF EncPolls, OiType
<1>10. step' \in EncSteps /\ step' \notin DecSteps
  BY <1>1 DEF EncSteps, DecSteps
<1> QED
  BY <1>1, <1>2, <1>5, <1>6, <1>7, <1>8, <1>9, <1>10 DEF ToolInv, Encoding, Decoding

\* and ends.
LEMMA EncPolledKept ==
  ASSUME ToolInv, H!EncPolled
  PROVE  ToolInv'
<1>1. step = "encode: polling" /\ oi.res # "busy" /\ packed' = packed \o oi.buf
      /\ step' = (IF oi.res = "MORE" THEN "encode: poll"
                  ELSE IF atEnd /\ oi.buf = << >> THEN "encode: finish"
                  ELSE IF data # << >> THEN "encode: sink" ELSE "encode: read")
      /\ UNCHANGED <<hse, hsd, oi, file, sizes, rest, data, atEnd, unpacked>>
  BY DEF H!EncPolled
<1>2. packed \in Seq(Octets) /\ EncPolls /\ EncFeed /\ EncOk(file, hse, packed \o oi.buf, Sunk)
      /\ hsd = H!Dec!Fresh(sizes.buffer) /\ unpacked = << >>
  BY <1>1 DEF ToolInv, Encoding, EncSteps, PutOut
<1>3. step' # "encode: polling" /\ step' \in EncSteps /\ step' \notin DecSteps
  BY <1>1 DEF EncSteps, DecSteps
<1>4. packed' \in Seq(Octets)
  BY <1>1, <1>2 DEF EncOk
<1>5. PutOut' = packed' /\ EncPolls'
  BY <1>3 DEF PutOut, EncPolls
<1>6. Sunk' = Sunk
  BY <1>1 DEF Sunk
<1>7. step' = "encode: read" => data = << >>
  BY <1>1
<1>8. step' = "encode: finish" => atEnd /\ hse.state \in {"NOT_FULL", "DONE"}
  BY <1>1, <1>2 DEF EncPolls
<1>9. EncFeed'
  BY <1>1, <1>2, <1>6, <1>7, <1>8 DEF EncFeed
<1> QED
  BY <1>1, <1>2, <1>3, <1>4, <1>5, <1>6, <1>9 DEF ToolInv, Encoding, Decoding

\* A new decoder, with everything before it
LEMMA FreshDec ==
  ASSUME NEW F \in Seq(0 .. 255), NEW B \in Seq(Octets), NEW n \in Nat, NEW z \in Nat,
         n <= 8 * Len(B), 8 * Len(B) <= n + 7, Coded(F, Flat(B, << >>), n, Len(F))
  PROVE  DecOk(F, H!Dec!Fresh(z), B, 0, 0) /\ Idle(H!Dec!Fresh(z)) /\ Unread(H!Dec!Fresh(z)) = 0
<1> DEFINE h == H!Dec!Fresh(z)
<1>1. /\ DOMAIN h = DecFields /\ h.input = << >> /\ h.input_index = 0 /\ h.size = z
      /\ h.bits = << >> /\ h.state = "EMPTY" /\ h.window = [i \in 0 .. Window - 1 |-> 0]
      /\ h.head_index = 0 /\ h.output_index = 0 /\ h.output_count = 0
  BY SizesAre DEF H!Dec!Fresh, DecFields
<1> HIDE DEF h
<1>2. Len(h.input) = 0 /\ Len(h.bits) = 0
  BY <1>1
<1>3. DecType(h)
  BY <1>1, <1>2 DEF DecType
<1>4. Unread(h) = 0
  BY <1>1, <1>2 DEF Unread
<1>5. Len(B) \in Nat /\ Len(F) \in Nat
  BY LenProperties
<1>6. DecInput(h, B, 0)
  BY <1>1, <1>2, <1>4, <1>5 DEF DecInput
<1>7. DecWindow(F, h, 0)
  <2>1. 0 % Window = 0
    BY BitsType
  <2> QED
    BY <1>1, <1>5, <2>1 DEF DecWindow
<1>8. PICK T : Boundaries(F, Flat(B, << >>), T, n, Len(F))
  BY DEF Coded
<1>9. DecPlace(F, h, Flat(B, << >>), T, 8 * 0 - Len(h.bits), 0)
  <2>1. 8 * 0 - Len(h.bits) = 0
    BY <1>2
  <2>2. <<0, 0>> \in T
    BY <1>8 DEF Boundaries
  <2> QED
    BY <1>1, <2>1, <2>2 DEF DecPlace
<1>10. DecOk(F, h, B, 0, 0)
  BY <1>1, <1>3, <1>6, <1>7, <1>8, <1>9 DEF DecOk
<1>11. Idle(h)
  BY <1>1 DEF Idle
<1> QED
  BY <1>4, <1>10, <1>11 DEF h

\* encode finishes, or goes on; then decode begins with what was packed.
LEMMA EncFinishKept ==
  ASSUME ToolInv, H!EncFinish
  PROVE  ToolInv'
<1>1. step = "encode: finish"
      /\ step' = (IF H!Enc!FinishDone THEN "decode: read" ELSE "encode: read")
      /\ rest' = (IF H!Enc!FinishDone THEN packed ELSE rest) /\ oi' = oi
      /\ hse' = [hse EXCEPT !.flags = @ \cup {"IS_FINISHING"},
                            !.state = IF @ = "NOT_FULL" THEN "FILLED" ELSE @]
      /\ UNCHANGED <<hsd, file, sizes, data, atEnd, packed, unpacked>>
  BY DEF H!EncFinish, H!Enc!Finish
<1>2. packed \in Seq(Octets) /\ EncFeed /\ EncOk(file, hse, packed, Sunk)
      /\ hsd = H!Dec!Fresh(sizes.buffer) /\ unpacked = << >>
  BY <1>1 DEF ToolInv, Encoding, EncSteps, PutOut
<1>3. rest = << >> /\ data = << >> /\ atEnd /\ hse.state \in {"NOT_FULL", "DONE"}
  BY <1>1, <1>2 DEF EncFeed
<1>4. PICK l \in Nat : l = Len(file)
  BY FileType
<1>5. Len(rest) = 0 /\ Len(data) = 0 /\ Sunk = l
  <2>1. Len(rest) = 0 /\ Len(data) = 0
    BY <1>3
  <2>2. l - 0 - 0 = l
    OBVIOUS
  <2> QED
    BY <1>4, <2>1, <2>2 DEF Sunk
<1>6. DOMAIN hse = EncFields /\ EncType(hse) /\ EncWindow(file, hse, l)
      /\ EncFlags(file, hse, l) /\ EncCode(file, hse, packed, l)
  BY <1>2, <1>5 DEF EncOk, EncType
<1>7. CASE ~ H!Enc!FinishDone
  <2>1. hse.state = "NOT_FULL"
    BY <1>3, <1>7 DEF H!Enc!FinishDone
  <2>2. step' = "encode: read" /\ rest' = rest
    BY <1>1, <1>7
  <2>3. /\ DOMAIN hse' = EncFields /\ hse'.buffer = hse.buffer
        /\ hse'.input_size = hse.input_size /\ hse'.match_scan_index = hse.match_scan_index
        /\ hse'.match_length = hse.match_length /\ hse'.match_pos = hse.match_pos
        /\ hse'.outgoing = hse.outgoing /\ hse'.bits = hse.bits
        /\ hse'.flags = hse.flags \cup {"IS_FINISHING"} /\ hse'.state = "FILLED"
    BY <1>1, <1>6, <2>1 DEF EncFields
  <2>4. BufferKept(hse', hse)
    BY <1>6, <2>3 DEF BufferKept, EncType
  <2>5. EncType(hse') /\ EncWindow(file, hse', l) /\ Base(hse', l) = Base(hse, l)
    BY <1>6, <2>4, EncTypeKept
  <2>6. EncFlags(file, hse', l)
    BY <1>4, <1>6, <2>1, <2>3, <2>5 DEF EncFlags, Ends
  <2>7. EncCode(file, hse', packed, l)
    <3>1. Scan(hse', l) = Scan(hse, l)
      BY <2>3, <2>5 DEF Scan
    <3> QED
      BY <1>6, <2>1, <2>3, <3>1 DEF EncCode
  <2>8. Sunk' = l
    BY <1>1, <1>5, <2>2 DEF Sunk
  <2>9. EncOk(file, hse', packed, l)
    BY <1>2, <1>5, <2>5, <2>6, <2>7 DEF EncOk
  <2>10. EncFeed'
    BY <1>1, <1>2, <1>3, <1>5, <2>2, <2>8 DEF EncFeed
  <2>11. step' \in EncSteps /\ step' \notin DecSteps /\ PutOut' = packed /\ EncPolls'
    BY <1>1, <2>2 DEF EncSteps, DecSteps, PutOut, EncPolls
  <2> QED
    BY <1>1, <1>2, <2>8, <2>9, <2>10, <2>11 DEF ToolInv, Encoding, Decoding
<1>8. CASE H!Enc!FinishDone
  <2>1. hse.state = "DONE"
    BY <1>8 DEF H!Enc!FinishDone
  <2>2. step' = "decode: read" /\ rest' = packed /\ data' = << >> /\ hsd' = hsd
        /\ packed' = packed /\ unpacked' = << >> /\ file' = file /\ sizes' = sizes
    BY <1>1, <1>2, <1>3, <1>8
  <2>3. Scan(hse, l) = l
    <3>1. hse.match_scan_index = hse.input_size
      BY <1>6, <2>1 DEF EncFlags
    <3>2. Base(hse, l) + hse.input_size = l
      BY <1>2, <1>5, ScanPlace
    <3> QED
      BY <3>1, <3>2 DEF Scan
  <2>4. PICK m \in Nat : /\ m <= 8 * Len(packed) /\ 8 * Len(packed) <= m + 7
                         /\ Coded(file, Flat(packed, << >>), m, l)
    BY <1>6, <2>1, <2>3 DEF EncCode
  <2>5. PICK z \in Nat : z = sizes.buffer
    BY FileType
  <2>6. DecOk(file, hsd, packed, 0, 0) /\ Idle(hsd) /\ Unread(hsd) = 0
    <3>1. file \in Seq(0 .. 255)
      BY FileType
    <3>2. hsd = H!Dec!Fresh(z)
      BY <1>2, <2>5
    <3> QED
      BY <1>2, <1>4, <2>4, <3>1, <3>2, FreshDec
  <2>7. PICK c \in Nat : c = Len(packed)
    BY <1>2, LenProperties
  <2>8. TakenIn' = 0
    <3>1. TakenIn' = c - c - 0 - 0
      BY <1>5, <2>2, <2>3, <2>6, <2>7 DEF TakenIn, Unread
    <3> QED
      BY <3>1
  <2>9. GotOut' = << >> /\ Len(<< >>) = 0
    BY <2>2 DEF GotOut
  <2>10. DecFeed'
    <3>1. \A i \in 1 .. c : packed[i] = packed[c - c + i]
      <4>1. \A i \in 1 .. c : c - c + i = i
        OBVIOUS
      <4> QED
        BY <4>1
    <3>2. data' \in Seq(Octets) /\ Len(data') = 0
      BY <2>2, EmptySeq
    <3>3. rest' \in Seq(Octets) /\ Len(rest') = c /\ Len(packed') = c
      BY <1>2, <2>2, <2>7
    <3>4. Len(rest') + Len(data') <= Len(packed')
      BY <3>2, <3>3
    <3>5. \A i \in 1 .. Len(rest') : rest'[i] = packed'[Len(packed') - Len(rest') + i]
      BY <2>2, <3>1, <3>3
    <3>6. \A i \in 1 .. Len(data') :
            data'[i] = packed'[Len(packed') - Len(rest') - Len(data') + i]
      BY <3>2
    <3>7. data' = << >> /\ Idle(hsd') /\ step' # "end"
      BY <2>2, <2>6
    <3> QED
      BY <3>2, <3>3, <3>4, <3>5, <3>6, <3>7 DEF DecFeed
  <2>11. step' \in DecSteps /\ step' \notin EncSteps /\ DecPolls'
    BY <2>2 DEF DecSteps, EncSteps, DecPolls
  <2>12. Decoding'
    <3>1. DecOk(file', hsd', packed', TakenIn', Len(GotOut'))
      BY <2>2, <2>6, <2>8, <2>9
    <3>2. \A i \in 1 .. Len(GotOut') : GotOut'[i] = file'[i]
      BY <2>9
    <3>3. unpacked' \in Seq(Int)
      BY <2>2, EmptySeq
    <3>4. Len(hsd'.input) <= hsd'.size
      <4>1. hsd.input = << >> /\ hsd.size = z /\ Len(<< >>) = 0
        BY <1>2, <2>5 DEF H!Dec!Fresh
      <4>2. Len(hsd.input) = 0
        BY <4>1
      <4>3. 0 <= z
        OBVIOUS
      <4>4. hsd'.input = hsd.input /\ hsd'.size = z
        BY <2>2, <4>1
      <4> QED
        BY <4>2, <4>3, <4>4
    <3> QED
      BY <1>2, <2>2, <2>10, <2>11, <3>1, <3>2, <3>3, <3>4 DEF Decoding
  <2> QED
    BY <2>2, <2>11, <2>12 DEF ToolInv, Encoding
<1> QED
  BY <1>7, <1>8

\* Nothing is packed yet.
LEMMA ToolInit ==
  ASSUME H!Init
  PROVE  ToolInv
<1>1. file \in Files /\ sizes \in Sizes /\ hse = H!Enc!Fresh
      /\ hsd = H!Dec!Fresh(sizes.buffer) /\ step = "encode: read" /\ rest = file
      /\ data = << >> /\ atEnd = FALSE /\ packed = << >> /\ unpacked = << >>
  BY DEF H!Init
<1>2. file \in Seq(0 .. 255)
  BY <1>1, HeatshrinkAssumption
<1>3. PICK l \in Nat : l = Len(file)
  BY <1>2, LenProperties
<1>4. Sunk = 0 /\ Len(data) = 0
  <2>1. Len(data) = 0
    BY <1>1
  <2>2. l - l - 0 = 0
    OBVIOUS
  <2> QED
    BY <1>1, <1>3, <2>1, <2>2 DEF Sunk
<1>5. /\ DOMAIN hse = EncFields /\ hse.buffer = [i \in 0 .. 2 * Window - 1 |-> 0]
      /\ hse.input_size = 0 /\ hse.state = "NOT_FULL" /\ hse.match_scan_index = 0
      /\ hse.match_length = 0 /\ hse.match_pos = 0 /\ hse.flags = {}
      /\ hse.outgoing = << >> /\ hse.bits = << >>
  BY <1>1, SizesAre DEF H!Enc!Fresh, EncFields
<1>6. Len(hse.bits) = 0 /\ << >> \in Seq(Int) /\ << >> \in Seq(Octets) /\ Window \in Nat
  BY <1>5, BitsType
<1>7. EncType(hse)
  BY <1>5, <1>6 DEF EncType
<1>8. Base(hse, 0) = 0 /\ Scan(hse, 0) = 0
  BY <1>5 DEF Base, Scan
<1>9. EncWindow(file, hse, 0)
  <2>1. PICK w \in Nat : w = Window
    BY <1>6
  <2>2. \A i \in 0 .. 2 * w - 1 : ~ (i >= w - 0 /\ i < w + 0)
    OBVIOUS
  <2> QED
    BY <1>5, <1>8, <2>1, <2>2 DEF EncWindow
<1>10. EncFlags(file, hse, 0)
  BY <1>5, <1>8 DEF EncFlags, Ends
<1>11. BitCount(packed, hse.bits) = 0
  <2>1. Len(packed) = 0
    BY <1>1
  <2> QED
    BY <1>6, <2>1 DEF BitCount
<1>12. EncCode(file, hse, packed, 0)
  <2>1. Coded(file, Flat(packed, hse.bits), 0, 0)
    BY NothingCoded
  <2> QED
    BY <1>5, <1>8, <1>11, <2>1 DEF EncCode
<1>13. EncOk(file, hse, packed, 0)
  <2>1. 0 \in 0 .. Len(file)
    BY <1>3
  <2> QED
    BY <1>1, <1>2, <1>6, <1>7, <1>9, <1>10, <1>12, <2>1 DEF EncOk
<1>14. EncFeed
  <2>1. \A i \in 1 .. l : file[i] = file[l - l + i]
    <3>1. \A i \in 1 .. l : l - l + i = i
      OBVIOUS
    <3> QED
      BY <3>1
  <2>2. rest \in Seq(Int)
    <3>1. \A i \in 1 .. l : file[i] \in Int
      <4>1. \A i \in 1 .. l : file[i] \in Nat
        BY <1>2, <1>3, ByteOf
      <4> QED
        BY <4>1
    <3>2. file \in [1 .. l -> Int]
      BY <1>2, <1>3, <3>1, LenProperties
    <3>3. file \in Seq(Int)
      BY <3>2
    <3> QED
      BY <1>1, <3>3
  <2>3. Len(rest) = l /\ data \in Seq(Int) /\ Len(file) = l
    BY <1>1, <1>3, <1>6
  <2>4. Len(rest) + Len(data) <= Len(file)
    BY <1>4, <2>3
  <2>5. \A i \in 1 .. Len(rest) : rest[i] = file[Len(file) - Len(rest) + i]
    BY <1>1, <2>1, <2>3
  <2>6. \A i \in 1 .. Len(data) : data[i] = file[Sunk + i]
    BY <1>4
  <2>7. ~ atEnd /\ data = << >> /\ step # "encode: finish"
    BY <1>1
  <2> QED
    BY <2>2, <2>3, <2>4, <2>5, <2>6, <2>7 DEF EncFeed
<1>15. step \in EncSteps /\ step \notin DecSteps /\ PutOut = packed /\ EncPolls
  BY <1>1 DEF EncSteps, DecSteps, PutOut, EncPolls
<1> QED
  BY <1>1, <1>4, <1>6, <1>13, <1>14, <1>15 DEF ToolInv, Encoding, Decoding

-----------------------------------------------------------------------------
(* The window goes round.                                                   *)

\* Quotient and remainder of any integer
LEMMA IntDivision ==
  ASSUME NEW a \in Int, NEW d \in Nat \ {0}
  PROVE  \E k \in Int : \E r \in Nat : r = a % d /\ r < d /\ a = d * k + r
<1>1. a = d * (a \div d) + (a % d) /\ a \div d \in Int
  OBVIOUS
<1>2. a % d \in Nat /\ a % d < d
  OBVIOUS
<1>3. PICK k \in Int, r \in Nat : k = a \div d /\ r = a % d
  BY <1>1, <1>2
<1>4. r = a % d /\ r < d /\ a = d * k + r
  BY <1>1, <1>2, <1>3
<1> QED
  BY <1>4

\* It is divided in no other way.
LEMMA RemainderIs ==
  ASSUME NEW d \in Nat \ {0}, NEW k \in Int, NEW r \in Nat, r < d, NEW a \in Int, a = d * k + r
  PROVE  a % d = r
<1>1. PICK j \in Int, t \in Nat : t = a % d /\ t < d /\ a = d * j + t
  BY IntDivision
<1>2. \A x, y \in Int : x < y => d * x + d <= d * y
  <2>1. ASSUME NEW x \in Int, NEW y \in Int, x < y PROVE d * x + d <= d * y
    <3>1. PICK e \in Nat : y = x + 1 + e
      <4>1. y - x - 1 \in Nat /\ y = x + 1 + (y - x - 1)
        BY <2>1
      <4> QED
        BY <4>1
    <3>2. d * (x + 1 + e) = d * x + d + d * e /\ d * e \in Nat /\ d * x \in Int
      OBVIOUS
    <3> QED
      BY <3>1, <3>2
  <2> QED
    BY <2>1
<1>3. PICK p, q \in Int : p = d * k /\ q = d * j
  OBVIOUS
<1>4. p + r = q + t
  BY <1>1, <1>3
<1>5. ~ (k < j)
  <2>1. k < j => p + d <= q
    BY <1>2, <1>3
  <2> QED
    BY <1>1, <1>4, <2>1
<1>6. ~ (j < k)
  <2>1. j < k => q + d <= p
    BY <1>2, <1>3
  <2> QED
    BY <1>1, <1>4, <2>1
<1>7. k = j
  BY <1>5, <1>6
<1>8. p = q
  BY <1>3, <1>7
<1> QED
  BY <1>1, <1>4, <1>8

\* What is congruent has the same remainder.
LEMMA RemainderOf ==
  ASSUME NEW d \in Nat \ {0}, NEW a \in Int, NEW b \in Int
  PROVE  ((a % d) + b) % d = (a + b) % d
<1>1. PICK k \in Int, r \in Nat : r = a % d /\ r < d /\ a = d * k + r
  BY IntDivision
<1>2. PICK j \in Int, t \in Nat : t = (r + b) % d /\ t < d /\ r + b = d * j + t
  <2>1. r + b \in Int
    OBVIOUS
  <2> QED
    BY <2>1, IntDivision
<1>3. PICK x, y \in Int : x = d * k /\ y = d * j
  OBVIOUS
<1>4. d * (k + j) = x + y
  BY <1>3
<1>5. a + b = d * (k + j) + t
  <2>1. a = x + r /\ r + b = y + t
    BY <1>1, <1>2, <1>3
  <2> QED
    BY <1>4, <2>1
<1>6. (a + b) % d = t
  <2>1. a + b \in Int /\ k + j \in Int
    OBVIOUS
  <2>2. PICK u, v \in Int : u = a + b /\ v = k + j
    BY <2>1
  <2>3. t < d /\ u = d * v + t
    BY <1>2, <1>5, <2>2
  <2>4. u % d = t
    BY <2>3, RemainderIs
  <2> QED
    BY <2>2, <2>4
<1> QED
  BY <1>1, <1>2, <1>6

\* Numbers that are less than d apart have other remainders.
LEMMA RemaindersApart ==
  ASSUME NEW d \in Nat \ {0}, NEW a \in Nat, NEW b \in Nat, a < b, b < a + d
  PROVE  a % d # b % d
<1> SUFFICES ASSUME a % d = b % d PROVE FALSE
  OBVIOUS
<1>1. PICK k \in Int, r \in Nat : r = a % d /\ r < d /\ a = d * k + r
  <2>1. a \in Int
    OBVIOUS
  <2> QED
    BY <2>1, IntDivision
<1>2. PICK e \in Nat : b = a + e /\ e > 0 /\ e < d
  <2>1. b - a \in Nat /\ b = a + (b - a) /\ b - a > 0 /\ b - a < d
    OBVIOUS
  <2> QED
    BY <2>1
<1>3. PICK x \in Int : x = d * k
  OBVIOUS
<1>4. d * (k + 1) = x + d
  BY <1>3
<1>5. CASE r + e < d
  <2>1. b = d * k + (r + e)
    BY <1>1, <1>2, <1>3
  <2>2. b % d = r + e
    <3>1. r + e \in Nat /\ b \in Int
      OBVIOUS
    <3> QED
      BY <1>5, <2>1, <3>1, RemainderIs
  <2> QED
    BY <1>1, <1>2, <2>2
<1>6. CASE ~ (r + e < d)
  <2>1. PICK t \in Nat : t = r + e - d /\ t < d /\ t < r
    <3>1. r + e - d \in Nat /\ r + e - d < d /\ r + e - d < r
      BY <1>1, <1>2, <1>6
    <3> QED
      BY <3>1
  <2>2. b = d * (k + 1) + t
    BY <1>1, <1>2, <1>3, <1>4, <2>1
  <2>3. b % d = t
    <3>1. k + 1 \in Int /\ b \in Int
      OBVIOUS
    <3>2. PICK v \in Int : v = k + 1
      BY <3>1
    <3>3. t < d /\ b = d * v + t
      BY <2>1, <2>2, <3>2
    <3> QED
      BY <3>1, <3>3, RemainderIs
  <2> QED
    BY <1>1, <2>1, <2>3
<1> QED
  BY <1>5, <1>6

\* The last d of o bytes
Recent(win, d, F, o) == \A i \in 1 .. o : i > o - d => win[(i - 1) % d] = F[i]

\* A byte more in the ring of the last d bytes
LEMMA RoundWindow ==
  ASSUME NEW d \in Nat \ {0}, NEW win \in [0 .. d - 1 -> Int], NEW F, NEW o \in Nat,
         Recent(win, d, F, o), F[o + 1] \in Int
  PROVE  /\ [win EXCEPT ![o % d] = F[o + 1]] \in [0 .. d - 1 -> Int]
         /\ ((o % d) + 1) % d = (o + 1) % d
         /\ Recent([win EXCEPT ![o % d] = F[o + 1]], d, F, o + 1)
<1>1. PICK h \in Nat : h = o % d /\ h < d
  <2>1. o \in Int
    OBVIOUS
  <2> QED
    BY <2>1, IntDivision
<1>2. ((o % d) + 1) % d = (o + 1) % d
  <2>1. o \in Int /\ 1 \in Int
    OBVIOUS
  <2> QED
    BY <2>1, RemainderOf
<1> DEFINE win2 == [win EXCEPT ![o % d] = F[o + 1]]
<1>3. win2 \in [0 .. d - 1 -> Int] /\ win2[h] = F[o + 1]
      /\ \A j \in 0 .. d - 1 : j # h => win2[j] = win[j]
  BY <1>1
<1> HIDE DEF win2
<1>4. ASSUME NEW i \in 1 .. o + 1, i > (o + 1) - d
      PROVE  win2[(i - 1) % d] = F[i]
  <2>1. CASE i = o + 1
    <3>1. i - 1 = o
      BY <2>1
    <3> QED
      BY <1>1, <1>3, <2>1, <3>1
  <2>2. CASE i # o + 1
    <3>1. PICK a \in Nat : a = i - 1 /\ a < o /\ o < a + d
      <4>1. i - 1 \in Nat /\ i - 1 < o /\ o < (i - 1) + d
        BY <1>4, <2>2
      <4> QED
        BY <4>1
    <3>2. a % d # h
      BY <1>1, <3>1, RemaindersApart
    <3>3. a % d \in 0 .. d - 1
      <4>1. a \in Int
        OBVIOUS
      <4>2. PICK r \in Nat : r = a % d /\ r < d
        BY <4>1, IntDivision
      <4> QED
        BY <4>2
    <3>4. win2[a % d] = win[a % d]
      BY <1>3, <3>2, <3>3
    <3>5. i \in 1 .. o /\ i > o - d
      BY <1>4, <2>2
    <3>6. win[(i - 1) % d] = F[i]
      BY <3>5 DEF Recent
    <3> QED
      BY <3>1, <3>4, <3>6
  <2> QED
    BY <2>1, <2>2
<1> QED
  BY <1>2, <1>3, <1>4 DEF win2, Recent

-----------------------------------------------------------------------------
(* The steps of the decoder                                                 *)

\* Where it is in the bits
At(h, c) == 8 * c - Len(h.bits)

\* h2 is h with the next n bits taken, x.
Advanced(h2, h, B, c2, c, n, x) ==
  /\ DOMAIN h2 = DecFields
  /\ h2.input \in Seq(Octets) /\ h2.input_index \in Nat
  /\ (IF h2.input = << >> THEN h2.input_index = 0 ELSE h2.input_index < Len(h2.input))
  /\ h2.bits \in Seq(Int) /\ Len(h2.bits) < 8
  /\ h2.size = h.size /\ h2.state = h.state /\ h2.window = h.window
  /\ h2.head_index = h.head_index /\ h2.output_index = h.output_index
  /\ h2.output_count = h.output_count
  /\ DecInput(h2, B, c2) /\ At(h2, c2) = At(h, c) + n
  /\ c2 + Unread(h2) = c + Unread(h)
  /\ x \in Seq(Int) /\ Len(x) = n
  /\ \A j \in 1 .. n : x[j] = Flat(B, << >>)[At(h, c) + j - 1]

\* Where the decoder is in its input
LEMMA DecPlaces ==
  ASSUME NEW B, NEW c, NEW h, DecType(h), B \in Seq(Octets), DecInput(h, B, c)
  PROVE  /\ c \in Nat /\ Unread(h) \in Nat /\ Len(h.bits) \in Nat /\ Len(h.bits) < 8
         /\ At(h, c) \in Nat /\ At(h, c) <= 8 * c /\ Len(B) \in Nat /\ c + Unread(h) <= Len(B)
         /\ Len(h.bits) <= 8 * c
         /\ Unread(h) = Len(h.input) - h.input_index /\ Len(h.input) \in Nat
         /\ h.input = << >> => Unread(h) = 0
         /\ h.input # << >> => Unread(h) > 0
<1>1. /\ h.input \in Seq(Octets) /\ h.input_index \in Nat
      /\ IF h.input = << >> THEN h.input_index = 0 ELSE h.input_index < Len(h.input)
      /\ h.bits \in Seq(Int) /\ Len(h.bits) < 8
  BY DEF DecType
<1>2. Len(h.input) \in Nat /\ Len(h.bits) \in Nat /\ Len(B) \in Nat
      /\ (h.input = << >> => Len(h.input) = 0)
  BY <1>1, LenProperties, EmptySeq
<1>3. c \in Nat /\ c + Unread(h) <= Len(B) /\ Len(h.bits) <= 8 * c
  BY DEF DecInput
<1>4. PICK l, i, b \in Nat : l = Len(h.input) /\ i = h.input_index /\ b = Len(h.bits)
  BY <1>1, <1>2
<1>5. Unread(h) = l - i
  BY <1>4 DEF Unread
<1>6. /\ l - i \in Nat /\ (h.input = << >> => l - i = 0)
      /\ (h.input # << >> => l - i > 0)
  BY <1>1, <1>2, <1>4
<1>7. At(h, c) = 8 * c - b
  BY <1>4 DEF At
<1>8. 8 * c - b \in Nat /\ 8 * c - b <= 8 * c
  <2>1. c \in Nat /\ b <= 8 * c
    BY <1>3, <1>4
  <2> QED
    BY <2>1
<1> QED
  BY <1>1, <1>2, <1>3, <1>4, <1>5, <1>6, <1>7, <1>8

\* Two sequences as one
LEMMA Concatenated ==
  ASSUME NEW A, NEW x \in Seq(A), NEW y \in Seq(A)
  PROVE  /\ x \o y \in Seq(A) /\ Len(x \o y) = Len(x) + Len(y)
         /\ \A j \in 1 .. Len(x) : (x \o y)[j] = x[j]
         /\ \A j \in 1 .. Len(y) : (x \o y)[Len(x) + j] = y[j]
OBVIOUS

\* get_bits takes the next n bits (heatshrink_decoder.c:304-350).
LEMMA TakeBits ==
  ASSUME NEW B \in Seq(Octets), NEW c, DecType(hsd), DecInput(hsd, B, c),
         NEW n \in 1 .. 8, H!Dec!HasBits(n)
  PROVE  \E c2 \in Nat : Advanced(H!Dec!Popped(n), hsd, B, c2, c, n, H!Dec!NextBits(n))
<1> DEFINE S == Flat(B, << >>)
           h2 == H!Dec!Popped(n)
           all == H!Dec!Pulled(n)
           left == SubSeq(all, n + 1, Len(all))
<1>1. /\ DOMAIN hsd = DecFields
      /\ hsd.input \in Seq(Octets) /\ hsd.input_index \in Nat
      /\ IF hsd.input = << >> THEN hsd.input_index = 0 ELSE hsd.input_index < Len(hsd.input)
      /\ hsd.bits \in Seq(Int) /\ Len(hsd.bits) < 8
  BY DEF DecType
<1>2. PICK b, l, i, u, m \in Nat :
        /\ b = Len(hsd.bits) /\ l = Len(hsd.input) /\ i = hsd.input_index
        /\ u = Unread(hsd) /\ m = Len(B)
  BY <1>1, DecPlaces
<1>3. /\ c \in Nat /\ b < 8 /\ b <= 8 * c /\ c + u <= m /\ u = l - i
      /\ At(hsd, c) = 8 * c - b /\ (hsd.input # << >> => u > 0)
  BY <1>2, DecPlaces DEF At
<1>4. /\ \A j \in 1 .. u : hsd.input[i + j] = B[c + j]
      /\ \A j \in 1 .. b : hsd.bits[j] = S[8 * c - b + j - 1]
  BY <1>2 DEF DecInput
<1>7. c \in Nat /\ b < 8 /\ b <= 8 * c /\ c + u <= m
  BY <1>3
<1>8. u = l - i /\ (hsd.input # << >> => u > 0 /\ i < l)
  <2>1. u = l - i
    BY <1>3
  <2> QED
    BY <1>3, <2>1
<1>5. CASE b >= n
  <2>1. all = hsd.bits
    BY <1>2, <1>5 DEF H!Dec!Pulled
  <2>2. h2 = [hsd EXCEPT !.bits = left]
    BY <1>2, <1>5 DEF H!Dec!Popped
  <2>3. H!Dec!NextBits(n) = SubSeq(hsd.bits, 1, n)
    BY <1>2, <1>5, <2>1 DEF H!Dec!NextBits
  <2>4. n \in 0 .. Len(hsd.bits)
    BY <1>2, <1>5
  <2>5. /\ H!Dec!NextBits(n) \in Seq(Int) /\ Len(H!Dec!NextBits(n)) = n
        /\ \A j \in 1 .. n : H!Dec!NextBits(n)[j] = hsd.bits[j]
    BY <1>1, <2>3, <2>4, HeadOf
  <2>6. /\ left \in Seq(Int) /\ Len(left) = b - n
        /\ \A j \in 1 .. b - n : left[j] = hsd.bits[n + j]
    BY <1>1, <1>2, <2>1, <2>4, TailOf
  <2> HIDE DEF left, all
  <2>7. /\ DOMAIN h2 = DecFields /\ h2.input = hsd.input /\ h2.input_index = hsd.input_index
        /\ h2.bits = left /\ h2.size = hsd.size /\ h2.state = hsd.state
        /\ h2.window = hsd.window /\ h2.head_index = hsd.head_index
        /\ h2.output_index = hsd.output_index /\ h2.output_count = hsd.output_count
    BY <1>1, <2>2 DEF DecFields
  <2> HIDE DEF h2
  <2>8. Unread(h2) = u
    BY <1>2, <2>7 DEF Unread
  <2>9. At(h2, c) = At(hsd, c) + n
    <3>1. At(h2, c) = 8 * c - (b - n)
      BY <2>6, <2>7 DEF At
    <3> QED
      BY <1>3, <3>1
  <2>10. DecInput(h2, B, c)
    <3>1. \A j \in 1 .. b - n : left[j] = S[8 * c - (b - n) + j - 1]
      <4>1. ASSUME NEW j \in 1 .. b - n PROVE left[j] = S[8 * c - (b - n) + j - 1]
        <5>1. n + j \in 1 .. b /\ 8 * c - b + (n + j) - 1 = 8 * c - (b - n) + j - 1
          BY <1>5, <1>7
        <5> QED
          BY <1>4, <2>6, <5>1
      <4> QED
        BY <4>1
    <3>2. b - n <= 8 * c
      BY <1>3
    <3> QED
      BY <1>2, <1>3, <1>4, <2>6, <2>7, <2>8, <3>1, <3>2 DEF DecInput
  <2>11. \A j \in 1 .. n : H!Dec!NextBits(n)[j] = S[At(hsd, c) + j - 1]
    <3>1. \A j \in 1 .. n : j \in 1 .. b
      BY <1>5
    <3> QED
      BY <1>3, <1>4, <2>5, <3>1
  <2>12. Len(h2.bits) < 8
    BY <1>3, <1>5, <2>6, <2>7
  <2>13. Advanced(h2, hsd, B, c, c, n, H!Dec!NextBits(n))
    BY <1>1, <1>2, <2>5, <2>6, <2>7, <2>8, <2>9, <2>10, <2>11, <2>12 DEF Advanced
  <2> QED
    BY <1>3, <2>13 DEF h2
<1>6. CASE ~ (b >= n)
  <2> DEFINE last == hsd.input_index + 1 = Len(hsd.input)
             in2 == IF last THEN << >> ELSE hsd.input
             at2 == IF last THEN 0 ELSE hsd.input_index + 1
  <2>1. hsd.input # << >> /\ ~ (Len(hsd.bits) >= n)
    BY <1>2, <1>6 DEF H!Dec!HasBits
  <2>2. all = hsd.bits \o hsd.input[hsd.input_index + 1]
    BY <2>1 DEF H!Dec!Pulled
  <2>3. h2 = [hsd EXCEPT !.bits = left, !.input = in2, !.input_index = at2]
    BY <1>1, <2>1 DEF H!Dec!Popped, DecFields
  <2>4. PICK y \in Octets : y = hsd.input[hsd.input_index + 1]
    <3>1. hsd.input_index + 1 \in 1 .. Len(hsd.input)
      <4>1. i + 1 \in 1 .. l
        BY <1>8, <2>1
      <4> QED
        BY <1>2, <4>1
    <3>2. hsd.input[hsd.input_index + 1] \in Octets
      BY <1>1, <3>1, ElementOfSeq
    <3> QED
      BY <3>2
  <2>5. y \in Seq(Int) /\ Len(y) = 8 /\ y = B[c + 1]
    <3>1. 1 \in 1 .. u
      BY <1>3, <2>1
    <3> QED
      BY <1>2, <1>4, <2>4, <3>1 DEF Octets
  <2>6. /\ all \in Seq(Int) /\ Len(all) = b + 8
        /\ \A j \in 1 .. b : all[j] = hsd.bits[j]
        /\ \A j \in 1 .. 8 : all[b + j] = y[j]
    <3>1. PICK x \in Seq(Int) : x = hsd.bits
      BY <1>1
    <3>2. /\ x \o y \in Seq(Int) /\ Len(x \o y) = Len(x) + Len(y)
          /\ \A j \in 1 .. Len(x) : (x \o y)[j] = x[j]
          /\ \A j \in 1 .. Len(y) : (x \o y)[Len(x) + j] = y[j]
      <4>1. y \in Seq(Int)
        BY <2>5
      <4>2. PICK v \in Seq(Int) : v = y
        BY <4>1
      <4>3. /\ x \o v \in Seq(Int) /\ Len(x \o v) = Len(x) + Len(v)
            /\ \A j \in 1 .. Len(x) : (x \o v)[j] = x[j]
            /\ \A j \in 1 .. Len(v) : (x \o v)[Len(x) + j] = v[j]
        BY Concatenated
      <4> QED
        BY <4>2, <4>3
    <3>3. all = x \o y
      BY <2>2, <2>4, <3>1
    <3> QED
      BY <1>2, <2>5, <3>1, <3>2, <3>3
  <2> HIDE DEF all
  <2>7. n \in 0 .. Len(all)
    <3>1. Len(all) = b + 8
      BY <2>6
    <3> QED
      BY <3>1
  <2>8. H!Dec!NextBits(n) = SubSeq(all, 1, n)
    BY <2>6, <2>7 DEF H!Dec!NextBits, all
  <2>9. /\ H!Dec!NextBits(n) \in Seq(Int) /\ Len(H!Dec!NextBits(n)) = n
        /\ \A j \in 1 .. n : H!Dec!NextBits(n)[j] = all[j]
    BY <2>6, <2>7, <2>8, HeadOf
  <2>10. /\ left \in Seq(Int) /\ Len(left) = b + 8 - n
         /\ \A j \in 1 .. b + 8 - n : left[j] = all[n + j]
    <3>1. /\ left \in Seq(Int) /\ Len(left) = Len(all) - n
          /\ \A j \in 1 .. Len(all) - n : left[j] = all[n + j]
      BY <2>6, <2>7, TailOf
    <3>2. Len(all) - n = b + 8 - n
      <4>1. Len(all) = b + 8
        BY <2>6
      <4> QED
        BY <4>1
    <3> HIDE DEF left
    <3> QED
      BY <3>1, <3>2
  <2>11. \A j \in 1 .. b + 8 : all[j] = S[8 * c - b + j - 1]
    <3>1. ASSUME NEW j \in 1 .. b + 8 PROVE all[j] = S[8 * c - b + j - 1]
      <4>1. CASE j <= b
        <5>1. j \in 1 .. b
          BY <4>1
        <5> QED
          BY <1>4, <2>6, <5>1
      <4>2. CASE ~ (j <= b)
        <5>1. PICK k \in 1 .. 8 : j = b + k
          <6>1. j - b \in 1 .. 8 /\ j = b + (j - b)
            BY <4>2
          <6> QED
            BY <6>1
        <5>2. all[j] = y[k]
          BY <2>6, <5>1
        <5>3. c < Len(B)
          BY <1>2, <1>3, <2>1
        <5>4. S[8 * c + k - 1] = B[c + 1][k]
          <6>1. << >> \in Seq(Int)
            BY EmptySeq
          <6> QED
            BY <1>7, <5>3, <6>1, FlatAt
        <5>5. 8 * c + k - 1 = 8 * c - b + j - 1
          BY <1>3, <5>1
        <5> QED
          BY <2>5, <5>2, <5>4, <5>5
      <4> QED
        BY <4>1, <4>2
    <3> QED
      BY <3>1
  <2> HIDE DEF left, in2, at2
  <2>12. /\ DOMAIN h2 = DecFields /\ h2.input = in2 /\ h2.input_index = at2
         /\ h2.bits = left /\ h2.size = hsd.size /\ h2.state = hsd.state
         /\ h2.window = hsd.window /\ h2.head_index = hsd.head_index
         /\ h2.output_index = hsd.output_index /\ h2.output_count = hsd.output_count
    BY <1>1, <2>3 DEF DecFields
  <2> HIDE DEF h2
  <2>13. /\ in2 \in Seq(Octets) /\ at2 \in Nat
         /\ (IF in2 = << >> THEN at2 = 0 ELSE at2 < Len(in2))
         /\ Len(in2) - at2 = u - 1
         /\ \A j \in 1 .. u - 1 : in2[at2 + j] = B[(c + 1) + j]
    <3>1. CASE last
      <4>1. in2 = << >> /\ at2 = 0 /\ u = 1 /\ Len(in2) = 0
        BY <1>2, <1>3, <3>1 DEF in2, at2
      <4> QED
        BY <4>1, EmptySeq
    <3>2. CASE ~ last
      <4>1. in2 = hsd.input /\ at2 = i + 1 /\ Len(in2) = l /\ i + 1 # l
        BY <1>2, <3>2 DEF in2, at2
      <4>2. i + 1 < l /\ l - (i + 1) = u - 1
        BY <1>8, <2>1, <4>1
      <4>3. ASSUME NEW j \in 1 .. u - 1 PROVE in2[at2 + j] = B[(c + 1) + j]
        <5>1. 1 + j \in 1 .. u /\ i + (1 + j) = (i + 1) + j /\ c + (1 + j) = (c + 1) + j
          BY <1>3
        <5>2. hsd.input[i + (1 + j)] = B[c + (1 + j)]
          BY <1>4, <5>1
        <5> QED
          BY <4>1, <5>1, <5>2
      <4> QED
        BY <1>1, <2>1, <4>1, <4>2, <4>3
    <3> QED
      BY <3>1, <3>2
  <2>14. Unread(h2) = u - 1 /\ u > 0
    BY <1>3, <2>1, <2>12, <2>13 DEF Unread
  <2>15. At(h2, c + 1) = At(hsd, c) + n
    <3>1. At(h2, c + 1) = 8 * (c + 1) - (b + 8 - n)
      BY <2>10, <2>12 DEF At
    <3> QED
      BY <1>3, <3>1
  <2>16. DecInput(h2, B, c + 1)
    <3>1. \A j \in 1 .. b + 8 - n : left[j] = S[8 * (c + 1) - (b + 8 - n) + j - 1]
      <4>1. ASSUME NEW j \in 1 .. b + 8 - n
            PROVE  left[j] = S[8 * (c + 1) - (b + 8 - n) + j - 1]
        <5>1. n + j \in 1 .. b + 8
              /\ 8 * c - b + (n + j) - 1 = 8 * (c + 1) - (b + 8 - n) + j - 1
          BY <1>7
        <5> QED
          BY <2>10, <2>11, <5>1
      <4> QED
        BY <4>1
    <3>2. b + 8 - n <= 8 * (c + 1) /\ c + 1 \in Nat /\ c + 1 + (u - 1) <= m
      BY <1>7
    <3> QED
      BY <1>2, <2>10, <2>12, <2>13, <2>14, <3>1, <3>2 DEF DecInput
  <2>17. \A j \in 1 .. n : H!Dec!NextBits(n)[j] = S[At(hsd, c) + j - 1]
    <3>1. \A j \in 1 .. n : j \in 1 .. b + 8
      OBVIOUS
    <3> QED
      BY <1>3, <2>9, <2>11, <3>1
  <2>18. Len(h2.bits) < 8
    <3>1. Len(h2.bits) = b + 8 - n
      BY <2>10, <2>12
    <3>2. b + 8 - n < 8
      BY <1>6
    <3> QED
      BY <3>1, <3>2
  <2>19. c + 1 + Unread(h2) = c + Unread(hsd)
    <3>1. c + 1 + (u - 1) = c + u
      BY <1>7
    <3> QED
      BY <1>2, <2>14, <3>1
  <2>20. Advanced(h2, hsd, B, c + 1, c, n, H!Dec!NextBits(n))
    BY <2>9, <2>10, <2>12, <2>13, <2>15, <2>16, <2>17, <2>18, <2>19 DEF Advanced
  <2>21. c + 1 \in Nat
    BY <1>3
  <2> QED
    BY <2>20, <2>21 DEF h2
<1> QED
  BY <1>5, <1>6

-----------------------------------------------------------------------------
\* A step of the decoder: o2 bytes have come out after it.
DecMoves(F, B, c, o) ==
  /\ OiType(oi, Int)' /\ oi'.res \in {"busy", "MORE", "EMPTY"}
  /\ oi'.res = "EMPTY" => Idle(hsd')
  /\ \E c2, o2 \in Nat :
       /\ DecOk(F, hsd', B, c2, o2) /\ c2 + Unread(hsd') = c + Unread(hsd)
       /\ \/ o2 = o /\ oi'.buf = oi.buf
          \/ o2 = o + 1 /\ o < Len(F) /\ oi'.buf = Append(oi.buf, F[o + 1])

\* No byte comes out, or the next one.
Keeps == hsd'.window = hsd.window /\ hsd'.head_index = hsd.head_index /\ oi' = oi
Emits(F, o) ==
  /\ o < Len(F) /\ hsd'.window = [hsd.window EXCEPT ![hsd.head_index] = F[o + 1]]
  /\ hsd'.head_index = (hsd.head_index + 1) % Window
  /\ oi' = [oi EXCEPT !.buf = Append(oi.buf, F[o + 1])]

\* With the tokens T, of n bits
Tokens(F, B, T, n) ==
  /\ n \in Nat /\ n <= 8 * Len(B) /\ 8 * Len(B) <= n + 7
  /\ Boundaries(F, Flat(B, << >>), T, n, Len(F))

\* What DecOk says of types, and that the decoder has its place among the tokens
LEMMA DecTypes ==
  ASSUME NEW F, NEW h, NEW B, NEW c, NEW o, DecOk(F, h, B, c, o)
  PROVE  /\ F \in Seq(0 .. 255) /\ B \in Seq(Octets) /\ DecType(h) /\ DecInput(h, B, c)
         /\ DecWindow(F, h, o) /\ c \in Nat /\ o \in Nat /\ o <= Len(F) /\ Len(F) \in Nat
         /\ DOMAIN h = DecFields
         /\ \E T, n : Tokens(F, B, T, n) /\ DecPlace(F, h, Flat(B, << >>), T, At(h, c), o)
<1>1. F \in Seq(0 .. 255) /\ B \in Seq(Octets) /\ DecType(h) /\ DecInput(h, B, c)
      /\ DecWindow(F, h, o)
  BY DEF DecOk
<1>2. Len(F) \in Nat
  BY <1>1, LenProperties
<1>3. o \in 0 .. Len(F) /\ c \in Nat /\ DOMAIN h = DecFields
  BY <1>1 DEF DecWindow, DecInput, DecType
<1>4. \E T, n : Tokens(F, B, T, n) /\ DecPlace(F, h, Flat(B, << >>), T, At(h, c), o)
  <2>1. PICK T : \E n \in Nat :
          /\ n <= 8 * Len(B) /\ 8 * Len(B) <= n + 7
          /\ Boundaries(F, Flat(B, << >>), T, n, Len(F))
          /\ DecPlace(F, h, Flat(B, << >>), T, 8 * c - Len(h.bits), o)
    BY DEF DecOk
  <2>2. PICK n \in Nat :
          /\ n <= 8 * Len(B) /\ 8 * Len(B) <= n + 7
          /\ Boundaries(F, Flat(B, << >>), T, n, Len(F))
          /\ DecPlace(F, h, Flat(B, << >>), T, 8 * c - Len(h.bits), o)
    BY <2>1
  <2>3. Tokens(F, B, T, n) /\ DecPlace(F, h, Flat(B, << >>), T, At(h, c), o)
    BY <2>2 DEF Tokens, At
  <2> QED
    BY <2>3
<1> QED
  BY <1>1, <1>2, <1>3, <1>4

\* A poll that ends leaves the decoder as it is.
LEMMA Stopped ==
  ASSUME NEW F, NEW B, NEW c, NEW o, DecOk(F, hsd, B, c, o), OiType(oi, Int),
         NEW r \in {"MORE", "EMPTY"}, oi' = [oi EXCEPT !.res = r], hsd' = hsd,
         r = "EMPTY" => Idle(hsd)
  PROVE  DecMoves(F, B, c, o)
<1>1. OiType(oi, Int)' /\ oi'.res = r /\ oi'.buf = oi.buf
  BY DEF OiType
<1>2. c \in Nat /\ o \in Nat
  BY DecTypes
<1>3. DecOk(F, hsd', B, c, o) /\ c + Unread(hsd') = c + Unread(hsd)
  OBVIOUS
<1> QED
  BY <1>1, <1>2, <1>3 DEF DecMoves

\* It ends with its output full, or with the decoder idle.
LEMMA StuckStops ==
  ASSUME NEW F, NEW B, NEW c, NEW o, DecOk(F, hsd, B, c, o), OiType(oi, Int),
         H!Dec!Stuck, H!Dec!Room = 0 \/ Idle(hsd)
  PROVE  DecMoves(F, B, c, o)
<1> DEFINE r == IF H!Dec!Room = 0 THEN "MORE" ELSE "EMPTY"
<1>1. r \in {"MORE", "EMPTY"} /\ (r = "EMPTY" => Idle(hsd))
  OBVIOUS
<1>2. oi' = [oi EXCEPT !.res = r] /\ hsd' = hsd
  BY DEF H!Dec!Stuck
<1> HIDE DEF r
<1> QED
  BY <1>1, <1>2, Stopped

\* From here on a step takes n bits and goes on in the same tokens.
LEMMA Moved ==
  ASSUME NEW F, NEW B, NEW c, NEW o, DecOk(F, hsd, B, c, o), OiType(oi, Int), oi.res = "busy",
         NEW h, NEW c2 \in Nat, NEW n, NEW x, Advanced(h, hsd, B, c2, c, n, x),
         DOMAIN hsd' = DecFields, hsd'.input = h.input, hsd'.input_index = h.input_index,
         hsd'.bits = h.bits, hsd'.size = h.size,
         hsd'.output_index \in Nat, hsd'.output_count \in Nat,
         hsd'.state \notin {"EMPTY", "INPUT_AVAILABLE"},
         NEW o2, (o2 = o /\ Keeps) \/ (o2 = o + 1 /\ Emits(F, o)),
         NEW T, NEW m, Tokens(F, B, T, m),
         DecPlace(F, hsd', Flat(B, << >>), T, At(hsd, c) + n, o2)
  PROVE  DecMoves(F, B, c, o)
<1>1. F \in Seq(0 .. 255) /\ B \in Seq(Octets) /\ DecType(hsd) /\ DecWindow(F, hsd, o)
      /\ o \in Nat /\ o <= Len(F) /\ Len(F) \in Nat /\ DOMAIN hsd = DecFields
  BY DecTypes
<1>2. At(hsd', c2) = At(hsd, c) + n /\ Unread(hsd') = Unread(h) /\ DecInput(hsd', B, c2)
      /\ c2 + Unread(h) = c + Unread(hsd)
  BY DEF Advanced, At, Unread, DecInput
<1>3. /\ hsd.window \in [0 .. Window - 1 -> Int] /\ hsd.head_index \in Nat /\ hsd.size \in Nat
      /\ hsd.head_index = o % Window
      /\ \A i \in 1 .. o : i > o - Window => hsd.window[(i - 1) % Window] = F[i]
  BY <1>1 DEF DecType, DecWindow
<1>4. /\ hsd'.window \in [0 .. Window - 1 -> Int] /\ hsd'.head_index \in Nat
      /\ DecWindow(F, hsd', o2) /\ o2 \in Nat
      /\ OiType(oi, Int)' /\ oi'.res = "busy"
      /\ \/ o2 = o /\ oi'.buf = oi.buf
         \/ o2 = o + 1 /\ o < Len(F) /\ oi'.buf = Append(oi.buf, F[o + 1])
  <2>1. CASE o2 = o /\ Keeps
    <3>1. hsd'.window = hsd.window /\ hsd'.head_index = hsd.head_index /\ oi' = oi /\ o2 = o
      BY <2>1 DEF Keeps
    <3>2. DecWindow(F, hsd', o2)
      BY <1>1, <3>1 DEF DecWindow
    <3>3. OiType(oi, Int)'
      BY <3>1 DEF OiType
    <3> QED
      BY <1>1, <1>3, <3>1, <3>2, <3>3
  <2>2. CASE o2 = o + 1 /\ Emits(F, o)
    <3>1. /\ o < Len(F) /\ hsd'.window = [hsd.window EXCEPT ![hsd.head_index] = F[o + 1]]
          /\ hsd'.head_index = (hsd.head_index + 1) % Window
          /\ oi' = [oi EXCEPT !.buf = Append(oi.buf, F[o + 1])]
      BY <2>2 DEF Emits
    <3>2. PICK v \in Int : v = F[o + 1]
      <4>1. o + 1 \in Nat /\ o + 1 > 0 /\ o + 1 <= Len(F)
        BY <1>1, <3>1
      <4>2. F[o + 1] \in Nat
        BY <1>1, <4>1, ByteOf
      <4> QED
        BY <4>2
    <3>3. PICK d \in Nat \ {0} : d = Window
      BY BitsType
    <3>4. PICK win \in [0 .. d - 1 -> Int] : win = hsd.window
      BY <1>3, <3>3
    <3>5. Recent(win, d, F, o)
      BY <1>3, <3>3, <3>4 DEF Recent
    <3>6. /\ [win EXCEPT ![o % d] = F[o + 1]] \in [0 .. d - 1 -> Int]
          /\ ((o % d) + 1) % d = (o + 1) % d
          /\ Recent([win EXCEPT ![o % d] = F[o + 1]], d, F, o + 1)
      <4>1. F[o + 1] \in Int /\ o \in Nat
        BY <1>1, <3>2
      <4> QED
        BY <3>5, <4>1, RoundWindow
    <3>7. PICK w2 : w2 = [win EXCEPT ![o % d] = F[o + 1]]
      OBVIOUS
    <3>8. hsd'.window = w2 /\ hsd'.head_index = (o + 1) % d
      BY <1>3, <3>1, <3>3, <3>4, <3>6, <3>7
    <3>9. (o + 1) % d \in Nat
      <4>1. o + 1 \in Int
        BY <1>1
      <4>2. PICK r \in Nat : r = (o + 1) % d
        BY <4>1, IntDivision
      <4> QED
        BY <4>2
    <3>10. DecWindow(F, hsd', o2)
      <4>1. o + 1 \in 0 .. Len(F)
        BY <1>1, <3>1
      <4>2. \A i \in 1 .. o + 1 : i > (o + 1) - d => w2[(i - 1) % d] = F[i]
        BY <3>6, <3>7 DEF Recent
      <4> QED
        BY <2>2, <3>3, <3>8, <4>1, <4>2 DEF DecWindow
    <3>11. OiType(oi, Int)' /\ oi'.res = "busy" /\ oi'.buf = Append(oi.buf, F[o + 1])
      <4>1. oi.buf \in Seq(Int) /\ DOMAIN oi = {"buf", "size", "res"} /\ oi.size \in Nat
        BY DEF OiType
      <4>2. PICK y \in Seq(Int) : y = Append(oi.buf, F[o + 1])
        <5>1. Append(oi.buf, v) \in Seq(Int)
          BY <4>1
        <5> QED
          BY <3>2, <5>1
      <4>3. oi' = [oi EXCEPT !.buf = y]
        BY <3>1, <4>2
      <4>4. oi'.buf = y /\ oi'.size = oi.size /\ oi'.res = oi.res
            /\ DOMAIN oi' = {"buf", "size", "res"}
        BY <4>1, <4>3
      <4> QED
        BY <4>1, <4>2, <4>4 DEF OiType
    <3>12. w2 \in [0 .. d - 1 -> Int]
      BY <3>6, <3>7
    <3>13. o + 1 \in Nat
      BY <1>1
    <3> QED
      BY <2>2, <3>1, <3>3, <3>8, <3>9, <3>10, <3>11, <3>12, <3>13
  <2> QED
    BY <2>1, <2>2
<1>5. DecType(hsd')
  <2>1. /\ h.input \in Seq(Octets) /\ h.input_index \in Nat
        /\ (IF h.input = << >> THEN h.input_index = 0 ELSE h.input_index < Len(h.input))
        /\ h.bits \in Seq(Int) /\ Len(h.bits) < 8 /\ h.size = hsd.size
    BY DEF Advanced
  <2> QED
    BY <1>3, <1>4, <2>1 DEF DecType
<1>6. DecOk(F, hsd', B, c2, o2)
  <2>1. DecPlace(F, hsd', Flat(B, << >>), T, 8 * c2 - Len(hsd'.bits), o2)
    BY <1>2 DEF At
  <2> QED
    BY <1>1, <1>2, <1>4, <1>5, <2>1 DEF DecOk, Tokens
<1> QED
  BY <1>2, <1>4, <1>6 DEF DecMoves

\* No bits taken
LEMMA Standing ==
  ASSUME NEW B, NEW c, NEW h, DecType(h), B \in Seq(Octets), DecInput(h, B, c)
  PROVE  Advanced(h, h, B, c, c, 0, << >>) /\ c \in Nat
<1>1. c \in Nat /\ At(h, c) + 0 = At(h, c) /\ Len(<< >>) = 0
  BY DecPlaces
<1>2. << >> \in Seq(Int)
  BY EmptySeq
<1> QED
  BY <1>1, <1>2 DEF Advanced, DecType

-----------------------------------------------------------------------------
\* From a on, a number v of w bits
Numbered(S, a, v, w) == \A j \in 1 .. w : S[a + j - 1] = (v \div P2[w - j]) % 2

\* The n elements of x are those of S from a on.
Reads(x, S, a, n) == \A j \in 1 .. n : x[j] = S[a + j - 1]

\* The parts of a number fit in the byte that get_bits returns.
LEMMA GetsAre ==
  /\ GetBits \in Nat /\ GetBits >= 1 /\ GetBits <= 8
  /\ \A w \in Nat : H!Dec!LsbBits(w) = LowLen(w)
  /\ \A w \in {WindowBits, LookaheadBits} :
       w \in Nat /\ w >= 2 /\ LowLen(w) \in 1 .. 8 /\ LowLen(w) <= w /\ w - GetBits <= 8
<1>1. PICK g, b, l \in Nat : g = GetBits /\ b = WindowBits /\ l = LookaheadBits
  BY HeatshrinkAssumption
<1>2. g >= 1 /\ g <= 8 /\ b - g <= 8 /\ b >= 4 /\ l >= 2 /\ l < b
  BY <1>1, HeatshrinkAssumption
<1>3. \A w \in Nat : H!Dec!LsbBits(w) = LowLen(w)
  <2>1. ASSUME NEW w \in Nat PROVE (IF w < g THEN w ELSE g) = (IF w > g THEN g ELSE w)
    OBVIOUS
  <2> QED
    BY <1>1, <2>1 DEF H!Dec!LsbBits, LowLen
<1>4. ASSUME NEW w \in Nat, w = b \/ w = l
      PROVE  w >= 2 /\ LowLen(w) \in 1 .. 8 /\ LowLen(w) <= w /\ w - g <= 8
  <2>1. LowLen(w) = IF w > g THEN g ELSE w
    BY <1>1 DEF LowLen
  <2> QED
    BY <1>2, <1>4, <2>1
<1> QED
  BY <1>1, <1>2, <1>3, <1>4

\* The upper part of a number
LEMMA UpperPart ==
  ASSUME NEW S, NEW a, NEW v \in Nat, NEW w \in Nat, w > GetBits, v < P2[w], Numbered(S, a, v, w),
         NEW x \in Seq(Int), Len(x) = w - GetBits,
         \A j \in 1 .. w - GetBits : x[j] = S[a + j - 1]
  PROVE  H!Dec!Number(x) * P2[GetBits] = Upper(v, w)
<1>1. PICK g \in Nat : g = GetBits
  BY GetsAre
<1>2. g <= w /\ Len(x) = w - g
  BY <1>1
<1>3. \A j \in 1 .. w - g : x[j] = (v \div P2[w - j]) % 2
  <2>1. ASSUME NEW j \in 1 .. w - g PROVE x[j] = (v \div P2[w - j]) % 2
    <3>1. j \in 1 .. w
      OBVIOUS
    <3>2. S[a + j - 1] = (v \div P2[w - j]) % 2
      BY <3>1 DEF Numbered
    <3> QED
      BY <1>1, <3>2
  <2> QED
    BY <2>1
<1>4. H!Dec!Number(x) = v \div P2[g]
  BY <1>2, <1>3, HighBits
<1> QED
  BY <1>1, <1>4 DEF Upper

\* The number x is the rest of v.
LowerIs(x, v, w) ==
  H!Dec!Number(x) \in Nat /\ Upper(v, w) \in Nat /\ Upper(v, w) + H!Dec!Number(x) = v

\* The place of the lower part
LEMMA SamePlace ==
  \A a, w, b, l, j \in Nat : b + l = a + w => a + (w - l + j) = b + j
OBVIOUS

\* The lower part of a number
LEMMA LowerPart ==
  ASSUME NEW S, NEW a \in Nat, NEW v \in Nat, NEW w \in Nat, v < P2[w], Numbered(S, a, v, w),
         NEW l \in Nat, l = LowLen(w), l <= w, NEW x \in Seq(Int), Len(x) = l,
         NEW b \in Nat, b + l = a + w, Reads(x, S, b, l)
  PROVE  LowerIs(x, v, w)
<1>1. PICK g \in Nat : g = GetBits
  BY GetsAre
<1>2. \A j \in 1 .. l : x[j] = (v \div P2[l - j]) % 2
  <2>1. ASSUME NEW j \in 1 .. l PROVE x[j] = (v \div P2[l - j]) % 2
    <3>1. PICK k \in 1 .. w : k = w - l + j
      <4>1. w - l + j \in 1 .. w
        OBVIOUS
      <4> QED
        BY <4>1
    <3>5. w - k = l - j
      BY <3>1
    <3>6. PICK y, z \in Nat : y = a + k /\ z = b + j /\ y = z
      <4>1. j \in Nat /\ b + l = a + w
        OBVIOUS
      <4>2. a + (w - l + j) = b + j
        BY <4>1, SamePlace
      <4>3. a + k = b + j
        BY <3>1, <4>2
      <4>4. a + k \in Nat
        BY <3>1
      <4> QED
        BY <4>3, <4>4
    <3>2. a + k - 1 = b + j - 1 /\ w - k = l - j
      <4>1. y - 1 = z - 1
        BY <3>6
      <4> QED
        BY <3>5, <3>6, <4>1
    <3>3. S[a + k - 1] = (v \div P2[w - k]) % 2
      BY DEF Numbered
    <3>4. x[j] = S[b + j - 1]
      BY DEF Reads
    <3> QED
      BY <3>2, <3>3, <3>4
  <2> QED
    BY <2>1
<1>3. H!Dec!Number(x) = v % P2[l]
  BY <1>2, LowBits
<1>4. CASE w > g
  <2>1. l = g /\ Upper(v, w) = (v \div P2[g]) * P2[g]
    BY <1>1, <1>4 DEF LowLen, Upper
  <2>2. (v \div P2[g]) * P2[g] + (v % P2[g]) = v
    BY WholeOfParts
  <2>3. PICK p \in Nat \ {0} : p = P2[g]
    BY Pow2Type
  <2>4. PICK h, r \in Nat : h = v \div p /\ r = v % p
    BY Division
  <2>5. h * p \in Nat
    OBVIOUS
  <2> QED
    BY <1>3, <2>1, <2>2, <2>3, <2>4, <2>5 DEF LowerIs
<1>5. CASE ~ (w > g)
  <2>1. l = w /\ Upper(v, w) = 0
    BY <1>1, <1>5 DEF LowLen, Upper
  <2>2. PICK p \in Nat \ {0} : p = P2[w]
    BY Pow2Type
  <2>3. v % p = v
    <3>1. v < p /\ v = p * 0 + v
      BY <2>2
    <3> QED
      BY <3>1, Quotient
  <2> QED
    BY <1>3, <2>1, <2>2, <2>3 DEF LowerIs
<1> QED
  BY <1>4, <1>5 DEF LowerIs

\* What a reference says
LEMMA ReferenceSays ==
  ASSUME NEW F, NEW S, NEW t \in Nat \X Nat, NEW u, NEW q, NEW m, ReferenceToken(F, S, t, u, q, m)
  PROVE  /\ q \in Nat /\ q >= 1 /\ q <= Window /\ m \in Nat /\ m >= 1 /\ m <= Ahead
         /\ q <= t[2] /\ t[2] + m <= Len(F)
         /\ \A i \in t[2] + 1 .. t[2] + m : F[i] = F[i - q]
         /\ S[t[1]] = 0 /\ u = <<t[1] + RefLen, t[2] + m>>
         /\ Numbered(S, t[1] + 1, q - 1, WindowBits)
         /\ Numbered(S, t[1] + 1 + WindowBits, m - 1, LookaheadBits)
<1>1. /\ Repeated(F, t[2], q, m) /\ u = <<t[1] + RefLen, t[2] + m>>
      /\ Begins(S, t[1], ReferenceBits(q, m), RefLen)
  BY DEF ReferenceToken
<1>2. PICK b, l, r \in Nat : /\ b = WindowBits /\ l = LookaheadBits /\ r = RefLen /\ r = 1 + b + l
                             /\ r >= 8
  BY BitsType DEF RefLen
<1>3. \A j \in 1 .. r : S[t[1] + j - 1] = ReferenceBits(q, m)[j]
  BY <1>1, <1>2 DEF Begins
<1>4. PICK a \in Nat : a = t[1]
  OBVIOUS
<1>5. S[t[1]] = 0
  <2>1. 1 \in 1 .. r /\ a + 1 - 1 = a
    BY <1>2
  <2>2. ReferenceBits(q, m)[1] = 0
    BY <1>2, <2>1 DEF ReferenceBits
  <2> QED
    BY <1>3, <1>4, <2>1, <2>2
<1>6. Numbered(S, t[1] + 1, q - 1, WindowBits)
  <2>1. ASSUME NEW j \in 1 .. b PROVE S[(a + 1) + j - 1] = ((q - 1) \div P2[b - j]) % 2
    <3>1. PICK k \in Nat : k = 1 + j
      OBVIOUS
    <3>2. k \in 1 .. r /\ k # 1 /\ k <= 1 + b /\ 1 + b - k = b - j /\ a + k - 1 = (a + 1) + j - 1
      BY <1>2, <3>1
    <3>3. ReferenceBits(q, m)[k] = ((q - 1) \div P2[1 + b - k]) % 2
      BY <1>2, <3>2 DEF ReferenceBits
    <3> QED
      BY <1>3, <1>4, <3>2, <3>3
  <2> QED
    BY <1>2, <1>4, <2>1 DEF Numbered
<1>7. Numbered(S, t[1] + 1 + WindowBits, m - 1, LookaheadBits)
  <2>1. ASSUME NEW j \in 1 .. l PROVE S[(a + 1 + b) + j - 1] = ((m - 1) \div P2[l - j]) % 2
    <3>1. PICK k \in Nat : k = 1 + b + j
      OBVIOUS
    <3>2. k \in 1 .. r /\ k # 1 /\ ~ (k <= 1 + b) /\ r - k = l - j
          /\ a + k - 1 = (a + 1 + b) + j - 1
      BY <1>2, <3>1
    <3>3. ReferenceBits(q, m)[k] = ((m - 1) \div P2[r - k]) % 2
      BY <1>2, <3>2 DEF ReferenceBits
    <3> QED
      BY <1>3, <1>4, <3>2, <3>3
  <2> QED
    BY <1>2, <1>4, <2>1 DEF Numbered
<1>8. /\ q \in 1 .. Window /\ m \in 1 .. Ahead /\ q <= t[2] /\ t[2] + m <= Len(F)
      /\ \A i \in t[2] + 1 .. t[2] + m : F[i] = F[i - q]
  BY <1>1 DEF Repeated
<1>9. q \in Nat /\ q >= 1 /\ q <= Window /\ m \in Nat /\ m >= 1 /\ m <= Ahead
  BY <1>8, BitsType
<1> QED
  BY <1>1, <1>5, <1>6, <1>7, <1>8, <1>9

\* With a byte that is not taken, the tokens do not end here.
LEMMA TokenAhead ==
  ASSUME NEW F, NEW B \in Seq(Octets), NEW T, NEW n, Tokens(F, B, T, n),
         NEW t \in T, t[1] + 8 <= 8 * Len(B)
  PROVE  /\ t \in Nat \X Nat
         /\ \E u \in T : Token(F, Flat(B, << >>), t, u)
<1>1. n \in Nat /\ 8 * Len(B) <= n + 7 /\ Boundaries(F, Flat(B, << >>), T, n, Len(F))
  BY DEF Tokens
<1>2. /\ t \in Nat \X Nat
      /\ t = <<n, Len(F)>> \/ \E u \in T : Token(F, Flat(B, << >>), t, u)
  BY <1>1 DEF Boundaries
<1>3. PICK a, k \in Nat : a = t[1] /\ k = 8 * Len(B)
  <2>1. Len(B) \in Nat
    BY LenProperties
  <2> QED
    BY <1>2, <2>1
<1>4. a # n
  BY <1>1, <1>3
<1>5. t # <<n, Len(F)>>
  BY <1>3, <1>4
<1> QED
  BY <1>2, <1>5

-----------------------------------------------------------------------------
(* The decoder between two tokens                                           *)

\* Nothing to do
LEMMA PollEmptyKept ==
  ASSUME NEW F, NEW B, NEW c, NEW o, DecOk(F, hsd, B, c, o), OiType(oi, Int), H!Dec!PollEmpty
  PROVE  DecMoves(F, B, c, o)
<1>1. hsd.state = "EMPTY" /\ oi' = [oi EXCEPT !.res = "EMPTY"] /\ hsd' = hsd
  BY DEF H!Dec!PollEmpty, H!Dec!Polling
<1>2. Idle(hsd)
  BY <1>1 DEF DecOk, Idle
<1> QED
  BY <1>1, <1>2, Stopped

\* Between two tokens (heatshrink_decoder.c:298-300)
LEMMA CheckForInputKept ==
  ASSUME NEW F, NEW B, NEW c, NEW o, DecOk(F, hsd, B, c, o), OiType(oi, Int),
         H!Dec!st_check_for_input
  PROVE  DecMoves(F, B, c, o)
<1>1. /\ hsd.state = "CHECK_FOR_MORE_INPUT" /\ oi' = oi /\ oi.res = "busy"
      /\ hsd' = [hsd EXCEPT !.state = IF hsd.input = << >> THEN "EMPTY" ELSE "INPUT_AVAILABLE"]
  BY DEF H!Dec!st_check_for_input, H!Dec!Polling
<1>2. F \in Seq(0 .. 255) /\ B \in Seq(Octets) /\ DecType(hsd) /\ DecInput(hsd, B, c)
      /\ DecWindow(F, hsd, o) /\ c \in Nat /\ o \in Nat /\ DOMAIN hsd = DecFields
  BY DecTypes
<1>3. PICK T, n : Tokens(F, B, T, n) /\ DecPlace(F, hsd, Flat(B, << >>), T, At(hsd, c), o)
  BY DecTypes
<1>4. <<At(hsd, c), o>> \in T
  BY <1>1, <1>3 DEF DecPlace, InReference
<1>5. /\ DOMAIN hsd' = DecFields /\ hsd'.input = hsd.input
      /\ hsd'.input_index = hsd.input_index /\ hsd'.bits = hsd.bits /\ hsd'.size = hsd.size
      /\ hsd'.window = hsd.window /\ hsd'.head_index = hsd.head_index
      /\ hsd'.output_index = hsd.output_index /\ hsd'.output_count = hsd.output_count
      /\ hsd'.state = IF hsd.input = << >> THEN "EMPTY" ELSE "INPUT_AVAILABLE"
  BY <1>1, <1>2 DEF DecFields
<1>6. DecType(hsd') /\ DecInput(hsd', B, c) /\ DecWindow(F, hsd', o)
      /\ At(hsd', c) = At(hsd, c) /\ Unread(hsd') = Unread(hsd)
  BY <1>2, <1>5 DEF DecType, DecInput, DecWindow, At, Unread
<1>7. DecPlace(F, hsd', Flat(B, << >>), T, 8 * c - Len(hsd'.bits), o)
  BY <1>4, <1>5, <1>6 DEF DecPlace, At
<1>8. DecOk(F, hsd', B, c, o)
  BY <1>2, <1>3, <1>5, <1>6, <1>7 DEF DecOk, Tokens
<1>9. OiType(oi, Int)' /\ oi'.res = "busy" /\ oi'.buf = oi.buf
  BY <1>1 DEF OiType
<1> QED
  BY <1>2, <1>6, <1>8, <1>9 DEF DecMoves

\* The tag bit is read (heatshrink_decoder.c:199-209).
LEMMA InputAvailableKept ==
  ASSUME NEW F, NEW B, NEW c, NEW o, DecOk(F, hsd, B, c, o), OiType(oi, Int),
         H!Dec!st_input_available
  PROVE  DecMoves(F, B, c, o)
<1> DEFINE x == H!Dec!NextBits(1)
           h == H!Dec!Popped(1)
           s2 == IF x = <<1>> THEN "YIELD_LITERAL"
                 ELSE IF WindowBits > GetBits THEN "BACKREF_INDEX_MSB" ELSE "BACKREF_INDEX_LSB"
           i2 == IF x = <<0>> /\ WindowBits <= GetBits THEN 0 ELSE h.output_index
<1>1. /\ hsd.state = "INPUT_AVAILABLE" /\ oi' = oi /\ oi.res = "busy"
      /\ hsd' = [h EXCEPT !.state = s2, !.output_index = i2]
  BY DEF H!Dec!st_input_available, H!Dec!Polling
<1>2. F \in Seq(0 .. 255) /\ B \in Seq(Octets) /\ DecType(hsd) /\ DecInput(hsd, B, c)
      /\ DecWindow(F, hsd, o) /\ c \in Nat /\ o \in Nat /\ hsd.input # << >>
  BY <1>1, DecTypes DEF DecOk
<1>3. PICK T, n : Tokens(F, B, T, n) /\ DecPlace(F, hsd, Flat(B, << >>), T, At(hsd, c), o)
  BY DecTypes
<1> DEFINE S == Flat(B, << >>)
<1>4. PICK p, k \in Nat : p = At(hsd, c) /\ k = Len(B) /\ p + 8 <= 8 * k
  <2>1. PICK u, p, k \in Nat : u = Unread(hsd) /\ p = At(hsd, c) /\ k = Len(B)
    BY <1>2, DecPlaces
  <2>2. c + u <= k /\ p <= 8 * c /\ u > 0
    BY <1>2, <2>1, DecPlaces
  <2>3. p + 8 <= 8 * k
    BY <1>2, <2>2
  <2> QED
    BY <2>1, <2>3
<1>5. <<p, o>> \in T
  BY <1>1, <1>3, <1>4 DEF DecPlace, InReference
<1>6. PICK u \in T : Token(F, S, <<p, o>>, u)
  <2>1. PICK t \in T : t = <<p, o>>
    BY <1>5
  <2>2. t[1] + 8 <= 8 * Len(B)
    BY <1>4, <2>1
  <2> QED
    BY <1>2, <1>3, <2>1, <2>2, TokenAhead
<1>7. H!Dec!HasBits(1)
  BY <1>2 DEF H!Dec!HasBits
<1>8. PICK c2 \in Nat : Advanced(h, hsd, B, c2, c, 1, x)
  <2>1. 1 \in 1 .. 8
    OBVIOUS
  <2> QED
    BY <1>2, <1>7, <2>1, TakeBits
<1>9. x = <<S[p]>>
  <2>1. x \in Seq(Int) /\ Len(x) = 1 /\ x[1] = S[At(hsd, c) + 1 - 1]
    BY <1>8 DEF Advanced
  <2>2. p + 1 - 1 = p
    OBVIOUS
  <2> HIDE DEF x, S
  <2>3. x = <<x[1]>>
    BY <2>1
  <2> QED
    BY <1>4, <2>1, <2>2, <2>3
<1>10. DOMAIN h = DecFields /\ h.window = hsd.window /\ h.head_index = hsd.head_index
       /\ h.output_index = hsd.output_index /\ h.output_count = hsd.output_count
       /\ hsd.output_index \in Nat /\ hsd.output_count \in Nat
  BY <1>2, <1>8 DEF Advanced, DecType
<1> HIDE DEF x, h, s2, i2, S
<1>11. /\ DOMAIN hsd' = DecFields /\ hsd'.input = h.input /\ hsd'.input_index = h.input_index
       /\ hsd'.bits = h.bits /\ hsd'.size = h.size /\ hsd'.output_index = i2
       /\ hsd'.output_count = h.output_count /\ hsd'.state = s2
       /\ hsd'.window = h.window /\ hsd'.head_index = h.head_index
  BY <1>1, <1>10 DEF DecFields
<1>12. s2 \notin {"EMPTY", "INPUT_AVAILABLE"} /\ i2 \in Nat
  BY <1>10 DEF s2, i2
<1>13. Keeps
  BY <1>1, <1>10, <1>11 DEF Keeps
<1>14. DecPlace(F, hsd', S, T, p + 1, o)
  <2>1. CASE LiteralToken(F, S, <<p, o>>, u)
    <3>1. S[p] = 1
      <4>1. Begins(S, p, LiteralBits(F[o + 1]), 9)
        BY <2>1 DEF LiteralToken
      <4>2. 1 \in 1 .. 9 /\ p + 1 - 1 = p /\ LiteralBits(F[o + 1])[1] = 1
        BY DEF LiteralBits
      <4> QED
        BY <4>1, <4>2 DEF Begins
    <3>2. hsd'.state = "YIELD_LITERAL"
      BY <1>9, <1>11, <3>1 DEF s2
    <3>3. <<p, o>> = <<(p + 1) - 1, o>>
      OBVIOUS
    <3> QED
      BY <1>5, <2>1, <3>2, <3>3 DEF DecPlace
  <2>2. ASSUME NEW q, NEW m, ReferenceToken(F, S, <<p, o>>, u, q, m)
        PROVE  DecPlace(F, hsd', S, T, p + 1, o)
    <3>1. PICK t \in Nat \X Nat : t = <<p, o>>
      BY <1>2
    <3>2. S[p] = 0
      BY <2>2, <3>1, ReferenceSays
    <3>3. <<S[p]>> # <<1>> /\ <<S[p]>> = <<0>>
      BY <3>2
    <3>4. InReference(hsd', t, q, m, p + 1, o)
      <4>1. CASE WindowBits > GetBits
        <5>1. hsd'.state = "BACKREF_INDEX_MSB"
          BY <1>9, <1>11, <3>3, <4>1 DEF s2
        <5> QED
          BY <3>1, <4>1, <5>1 DEF InReference
      <4>2. CASE ~ (WindowBits > GetBits)
        <5>1. PICK b, g \in Nat : b = WindowBits /\ g = GetBits
          BY GetsAre
        <5>2. WindowBits <= GetBits
          BY <4>2, <5>1
        <5>3. hsd'.state = "BACKREF_INDEX_LSB" /\ hsd'.output_index = 0
          BY <1>9, <1>11, <3>3, <4>2, <5>2 DEF s2, i2
        <5>4. Upper(q - 1, WindowBits) = 0 /\ LowLen(WindowBits) = b
          BY <4>2, <5>1 DEF Upper, LowLen
        <5>5. p + 1 = p + 1 + b - b
          OBVIOUS
        <5> QED
          BY <3>1, <5>1, <5>3, <5>4, <5>5 DEF InReference
      <4> QED
        BY <4>1, <4>2
    <3> QED
      BY <1>5, <2>2, <3>1, <3>4 DEF DecPlace
  <2> QED
    BY <1>6, <2>1, <2>2 DEF Token
<1>15. DecPlace(F, hsd', Flat(B, << >>), T, At(hsd, c) + 1, o)
  BY <1>4, <1>14 DEF S
<1> QED
  BY <1>1, <1>3, <1>8, <1>10, <1>11, <1>12, <1>13, <1>15, Moved

-----------------------------------------------------------------------------
(* The decoder within a token                                               *)

\* Eight bits make a byte.
LEMMA Pow2Eight == P2[8] = 256
<1>1. P2[0] = 1
  BY Pow2Next
<1>2. P2[0 + 1] = 2
  BY <1>1, Pow2Next
<1>3. P2[1 + 1] = 4
  BY <1>2, Pow2Next
<1>4. P2[2 + 1] = 8
  BY <1>3, Pow2Next
<1>5. P2[3 + 1] = 16
  BY <1>4, Pow2Next
<1>6. P2[4 + 1] = 32
  BY <1>5, Pow2Next
<1>7. P2[5 + 1] = 64
  BY <1>6, Pow2Next
<1>8. P2[6 + 1] = 128
  BY <1>7, Pow2Next
<1>9. P2[7 + 1] = 256
  BY <1>8, Pow2Next
<1> QED
  BY <1>9

\* The elements of a file are bytes.
LEMMA ByteBound ==
  ASSUME NEW F \in Seq(0 .. 255), NEW i \in Nat, i > 0, i <= Len(F)
  PROVE  F[i] \in Nat /\ F[i] < P2[8]
<1>1. i \in 1 .. Len(F)
  OBVIOUS
<1>2. F[i] \in 0 .. 255
  BY <1>1, ElementOfSeq
<1>3. PICK f \in 0 .. 255 : f = F[i]
  BY <1>2
<1>4. f \in Nat /\ f < 256
  OBVIOUS
<1> QED
  BY <1>3, <1>4, Pow2Eight

\* A literal comes out (heatshrink_decoder.c:211-229).
LEMMA YieldLiteralKept ==
  ASSUME NEW F, NEW B, NEW c, NEW o, DecOk(F, hsd, B, c, o), OiType(oi, Int),
         H!Dec!st_yield_literal
  PROVE  DecMoves(F, B, c, o)
<1>1. hsd.state = "YIELD_LITERAL" /\ oi.res = "busy"
  BY DEF H!Dec!st_yield_literal, H!Dec!Polling
<1>2. CASE H!Dec!Room = 0 \/ ~ H!Dec!HasBits(8)
  <2>1. H!Dec!Stuck
    BY <1>2 DEF H!Dec!st_yield_literal
  <2>2. ~ H!Dec!HasBits(8) => Idle(hsd)
    BY <1>1 DEF H!Dec!HasBits, Idle
  <2> QED
    BY <1>2, <2>1, <2>2, StuckStops
<1>3. CASE ~ (H!Dec!Room = 0 \/ ~ H!Dec!HasBits(8))
  <2> DEFINE x == H!Dec!NextBits(8)
             h == H!Dec!Popped(8)
             v == H!Dec!Number(x)
             S == Flat(B, << >>)
  <2>1. /\ hsd' = [[h EXCEPT !.window[h.head_index] = v,
                             !.head_index = (@ + 1) % Window]
                     EXCEPT !.state = "CHECK_FOR_MORE_INPUT"]
        /\ oi' = [oi EXCEPT !.buf = Append(@, v)] /\ H!Dec!HasBits(8)
    BY <1>3, SizesAre DEF H!Dec!st_yield_literal, H!Dec!Emitted
  <2>2. F \in Seq(0 .. 255) /\ B \in Seq(Octets) /\ DecType(hsd) /\ DecInput(hsd, B, c)
        /\ c \in Nat /\ o \in Nat /\ Len(F) \in Nat
    BY DecTypes
  <2>3. PICK T, n : Tokens(F, B, T, n) /\ DecPlace(F, hsd, S, T, At(hsd, c), o)
    BY DecTypes
  <2>4. PICK p \in Nat : p = At(hsd, c)
    BY <2>2, DecPlaces
  <2>5. PICK t, u \in T : t = <<p - 1, o>> /\ LiteralToken(F, S, t, u)
    BY <1>1, <2>3, <2>4 DEF DecPlace, InReference
  <2>6. T \in SUBSET (Nat \X Nat)
    BY <2>3 DEF Tokens, Boundaries
  <2>7. PICK a \in Nat : a = p - 1 /\ t = <<a, o>> /\ p = a + 1
    <3>1. t \in Nat \X Nat
      BY <2>6
    <3>2. t[1] \in Nat /\ t[1] = p - 1
      BY <2>5, <3>1
    <3> QED
      BY <2>5, <3>2
  <2>8. o < Len(F) /\ u = <<a + 9, o + 1>> /\ Begins(S, a, LiteralBits(F[o + 1]), 9)
    BY <2>5, <2>7 DEF LiteralToken
  <2>9. PICK f \in Nat : f = F[o + 1] /\ f < P2[8]
    <3>1. o + 1 \in Nat /\ o + 1 > 0 /\ o + 1 <= Len(F)
      BY <2>2, <2>8
    <3> QED
      BY <2>2, <3>1, ByteBound
  <2>10. PICK c2 \in Nat : Advanced(h, hsd, B, c2, c, 8, x)
    <3>1. 8 \in 1 .. 8
      OBVIOUS
    <3> QED
      BY <2>1, <2>2, <3>1, TakeBits
  <2>11. /\ DOMAIN h = DecFields /\ h.window = hsd.window /\ h.head_index = hsd.head_index
         /\ h.output_index = hsd.output_index /\ h.output_count = hsd.output_count
         /\ Len(x) = 8 /\ \A j \in 1 .. 8 : x[j] = S[p + j - 1]
    BY <2>4, <2>10 DEF Advanced
  <2>12. hsd.output_index \in Nat /\ hsd.output_count \in Nat
    BY <2>2 DEF DecType
  <2> HIDE DEF x, h, S
  <2>13. v = f
    <3>1. ASSUME NEW j \in 1 .. 8 PROVE x[j] = (f \div P2[8 - j]) % 2
      <4>1. PICK i \in 2 .. 9 : i = j + 1
        OBVIOUS
      <4>2. i \in 1 .. 9 /\ a + i - 1 = p + j - 1 /\ 9 - i = 8 - j /\ i # 1
        BY <2>7, <4>1
      <4>3. LiteralBits(F[o + 1])[i] = (f \div P2[9 - i]) % 2
        BY <2>9, <4>2 DEF LiteralBits
      <4>4. S[a + i - 1] = LiteralBits(F[o + 1])[i]
        BY <2>8, <4>2 DEF Begins
      <4> QED
        BY <2>11, <4>2, <4>3, <4>4
    <3>2. IsBits(x, f, 8)
      BY <2>11, <3>1 DEF IsBits
    <3>3. 8 \in Nat
      OBVIOUS
    <3> QED
      BY <2>9, <3>2, <3>3, NumberOfBits
  <2> HIDE DEF v
  <2>14. /\ DOMAIN hsd' = DecFields /\ hsd'.input = h.input /\ hsd'.input_index = h.input_index
         /\ hsd'.bits = h.bits /\ hsd'.size = h.size /\ hsd'.output_index = h.output_index
         /\ hsd'.output_count = h.output_count /\ hsd'.state = "CHECK_FOR_MORE_INPUT"
         /\ hsd'.window = [h.window EXCEPT ![h.head_index] = v]
         /\ hsd'.head_index = (h.head_index + 1) % Window
    BY <2>1, <2>11 DEF DecFields
  <2>15. Emits(F, o)
    BY <2>1, <2>8, <2>9, <2>11, <2>13, <2>14 DEF Emits
  <2>16. DecPlace(F, hsd', S, T, p + 8, o + 1)
    <3>1. u = <<p + 8, o + 1>>
      BY <2>7, <2>8
    <3> QED
      BY <2>14, <3>1 DEF DecPlace
  <2>17. DecPlace(F, hsd', Flat(B, << >>), T, At(hsd, c) + 8, o + 1)
    BY <2>4, <2>16 DEF S
  <2>18. hsd'.output_index \in Nat /\ hsd'.output_count \in Nat
         /\ hsd'.state \notin {"EMPTY", "INPUT_AVAILABLE"}
    BY <2>11, <2>12, <2>14
  <2> QED
    BY <1>1, <2>3, <2>10, <2>14, <2>15, <2>17, <2>18, Moved
<1> QED
  BY <1>2, <1>3

\* A byte of a back reference comes out (heatshrink_decoder.c:273-296).
LEMMA YieldBackrefKept ==
  ASSUME NEW F, NEW B, NEW c, NEW o, DecOk(F, hsd, B, c, o), OiType(oi, Int),
         H!Dec!st_yield_backref
  PROVE  DecMoves(F, B, c, o)
<1>1. hsd.state = "YIELD_BACKREF" /\ oi.res = "busy"
  BY DEF H!Dec!st_yield_backref, H!Dec!Polling
<1>2. CASE H!Dec!Room = 0
  <2>1. H!Dec!Stuck
    BY <1>2 DEF H!Dec!st_yield_backref
  <2> QED
    BY <1>2, <2>1, StuckStops
<1>3. CASE ~ (H!Dec!Room = 0)
  <2> DEFINE v == hsd.window[(hsd.head_index - hsd.output_index) % Window]
             S == Flat(B, << >>)
             s2 == IF hsd.output_count = 1 THEN "CHECK_FOR_MORE_INPUT" ELSE hsd.state
  <2>1. /\ hsd' = [[hsd EXCEPT !.window[hsd.head_index] = v,
                               !.head_index = (@ + 1) % Window]
                     EXCEPT !.output_count = @ - 1, !.state = s2]
        /\ oi' = [oi EXCEPT !.buf = Append(@, v)]
    <3>1. DOMAIN hsd = DecFields
      BY DecTypes
    <3> QED
      BY <1>3, <3>1, SizesAre DEF H!Dec!st_yield_backref, H!Dec!Emitted, DecFields
  <2>2. F \in Seq(0 .. 255) /\ B \in Seq(Octets) /\ DecType(hsd) /\ DecInput(hsd, B, c)
        /\ DecWindow(F, hsd, o) /\ c \in Nat /\ o \in Nat /\ Len(F) \in Nat
        /\ DOMAIN hsd = DecFields
    BY DecTypes
  <2>3. PICK T, n : Tokens(F, B, T, n) /\ DecPlace(F, hsd, S, T, At(hsd, c), o)
    BY DecTypes
  <2> HIDE DEF S
  <2>4. PICK p, k, l \in Nat : p = At(hsd, c) /\ k = hsd.output_count /\ l = Len(F)
    <3>1. hsd.output_count \in Nat
      BY <2>2 DEF DecType
    <3> QED
      BY <2>2, <3>1, DecPlaces
  <2>5. PICK t, u \in T : \E q, m : ReferenceToken(F, S, t, u, q, m)
                                    /\ InReference(hsd, t, q, m, p, o)
    BY <1>1, <2>3, <2>4 DEF DecPlace
  <2>6. PICK q, m : ReferenceToken(F, S, t, u, q, m) /\ InReference(hsd, t, q, m, p, o)
    BY <2>5
  <2>7. t \in Nat \X Nat
    BY <2>3 DEF Tokens, Boundaries
  <2>8. /\ q \in Nat /\ q >= 1 /\ q <= Window /\ m \in Nat /\ q <= t[2] /\ t[2] + m <= l
        /\ \A i \in t[2] + 1 .. t[2] + m : F[i] = F[i - q]
        /\ u = <<t[1] + RefLen, t[2] + m>>
    <3>0. ReferenceToken(F, S, t, u, q, m)
      BY <2>6
    <3>1. q \in Nat /\ q >= 1 /\ q <= Window /\ m \in Nat /\ q <= t[2] /\ t[2] + m <= Len(F)
      BY <2>7, <3>0, ReferenceSays
    <3>2. u = <<t[1] + RefLen, t[2] + m>> /\ Repeated(F, t[2], q, m)
      BY <3>0 DEF ReferenceToken
    <3>3. \A i \in t[2] + 1 .. t[2] + m : F[i] = F[i - q]
      BY <3>2 DEF Repeated
    <3> QED
      BY <2>4, <3>1, <3>2, <3>3
  <2>9. /\ hsd.output_index = q /\ k > 0 /\ p = t[1] + RefLen /\ t[2] <= o
        /\ o + k = t[2] + m
    BY <1>1, <2>4, <2>6 DEF InReference
  <2>10. PICK a, d \in Nat : a = t[2] /\ d = Window /\ d > 0
    BY <2>7, BitsType
  <2>11. /\ q >= 1 /\ q <= d /\ q <= a /\ a + m <= l /\ k > 0 /\ a <= o /\ o + k = a + m
    BY <2>8, <2>9, <2>10
  <2>12. o < l /\ o + 1 \in a + 1 .. a + m
    <3>1. m \in Nat /\ o \in Nat
      BY <2>2, <2>8
    <3> QED
      BY <2>11, <3>1
  <2>13. v = F[o + 1]
    <3>1. hsd.head_index = o % d
      BY <2>2, <2>10 DEF DecWindow
    <3>2. ((o % d) + (0 - q)) % d = (o + (0 - q)) % d
      <4>1. 0 - q \in Int /\ o \in Int
        BY <2>2, <2>8
      <4>2. PICK j \in Int : j = 0 - q
        BY <4>1
      <4>3. ((o % d) + j) % d = (o + j) % d
        <5>1. d \in Nat \ {0} /\ o \in Int
          BY <2>10, <4>1
        <5> QED
          BY <5>1, RemainderOf
      <4> QED
        BY <4>2, <4>3
    <3>3. PICK r \in Int : r = o % d
      <4>1. o \in Int
        BY <2>2
      <4>2. PICK z \in Nat : z = o % d
        BY <2>10, <4>1, IntDivision
      <4> QED
        BY <4>2
    <3>4. r + (0 - q) = r - q
      BY <2>8
    <3>5. PICK i \in Nat : i = o + 1 - q /\ i - 1 = o + (0 - q) /\ i \in 1 .. o /\ i > o - d
      <4>1. (o + 1) - q \in Nat /\ ((o + 1) - q) - 1 = o + (0 - q) /\ (o + 1) - q \in 1 .. o
            /\ (o + 1) - q > o - d
        BY <2>2, <2>8, <2>11
      <4>2. (o + 1) - q = o + 1 - q
        BY <2>2, <2>8
      <4> QED
        BY <4>1, <4>2
    <3>6. hsd.window[(i - 1) % d] = F[i]
      BY <2>2, <2>10, <3>5 DEF DecWindow
    <3>7. F[o + 1] = F[o + 1 - q]
      <4>1. \A j \in a + 1 .. a + m : F[j] = F[j - q]
        BY <2>8, <2>10
      <4>2. PICK j \in a + 1 .. a + m : j = o + 1
        BY <2>12
      <4>3. F[j] = F[j - q]
        BY <4>1
      <4>4. j - q = o + 1 - q
        BY <2>2, <2>8, <4>2
      <4> QED
        BY <4>2, <4>3, <4>4
    <3>8. (hsd.head_index - hsd.output_index) % Window = (i - 1) % d
      BY <2>9, <2>10, <3>1, <3>2, <3>3, <3>4, <3>5
    <3> QED
      BY <3>5, <3>6, <3>7, <3>8
  <2> HIDE DEF v
  <2>14. /\ DOMAIN hsd' = DecFields /\ hsd'.input = hsd.input
         /\ hsd'.input_index = hsd.input_index
         /\ hsd'.bits = hsd.bits /\ hsd'.size = hsd.size /\ hsd'.output_index = q
         /\ hsd'.output_count = k - 1 /\ hsd'.state = s2
         /\ hsd'.window = [hsd.window EXCEPT ![hsd.head_index] = v]
         /\ hsd'.head_index = (hsd.head_index + 1) % Window
    <3> HIDE DEF s2
    <3> QED
      BY <2>1, <2>2, <2>4, <2>9 DEF DecFields
  <2>15. Emits(F, o)
    BY <2>1, <2>4, <2>12, <2>13, <2>14 DEF Emits
  <2>16. DecPlace(F, hsd', S, T, p, o + 1)
    <3>1. CASE k = 1
      <4>1. u = <<p, o + 1>>
        BY <2>8, <2>9, <2>10, <2>11, <3>1
      <4>2. hsd'.state = "CHECK_FOR_MORE_INPUT"
        BY <2>4, <2>14, <3>1
      <4> QED
        BY <4>1, <4>2 DEF DecPlace
    <3>2. CASE k # 1
      <4>1. hsd'.state = "YIELD_BACKREF" /\ hsd'.output_index = q /\ hsd'.output_count = k - 1
        BY <1>1, <2>4, <2>14, <3>2
      <4>2. k - 1 > 0 /\ a <= o + 1 /\ (o + 1) + (k - 1) = a + m
        BY <2>2, <2>8, <2>11, <3>2
      <4>3. InReference(hsd', t, q, m, p, o + 1)
        BY <2>9, <2>10, <4>1, <4>2 DEF InReference
      <4> QED
        BY <2>6, <4>3 DEF DecPlace
    <3> QED
      BY <3>1, <3>2
  <2>17. Advanced(hsd, hsd, B, c, c, 0, << >>)
    BY <2>2, Standing
  <2>18. DecPlace(F, hsd', Flat(B, << >>), T, At(hsd, c) + 0, o + 1)
    <3>1. At(hsd, c) + 0 = p
      BY <2>4
    <3> QED
      BY <2>16, <3>1 DEF S
  <2>19. hsd'.output_index \in Nat /\ hsd'.output_count \in Nat
         /\ hsd'.state \notin {"EMPTY", "INPUT_AVAILABLE"}
    <3>1. k - 1 \in Nat
      BY <2>11
    <3> QED
      BY <1>1, <2>8, <2>14, <3>1
  <2>20. hsd'.input = hsd.input /\ hsd'.input_index = hsd.input_index
         /\ hsd'.bits = hsd.bits /\ hsd'.size = hsd.size /\ DOMAIN hsd' = DecFields
    BY <2>14
  <2> QED
    BY <1>1, <2>2, <2>3, <2>15, <2>17, <2>18, <2>19, <2>20, Moved
<1> QED
  BY <1>2, <1>3

-----------------------------------------------------------------------------
(* The decoder within a reference                                           *)

RefStates == {"BACKREF_INDEX_MSB", "BACKREF_INDEX_LSB", "BACKREF_COUNT_MSB",
              "BACKREF_COUNT_LSB", "YIELD_BACKREF"}

\* In the token from t to u, one of T
Within(F, B, T, n, t, u, q, m) ==
  /\ Tokens(F, B, T, n) /\ t \in T /\ u \in T /\ t \in Nat \X Nat
  /\ ReferenceToken(F, Flat(B, << >>), t, u, q, m)

\* Within a back reference, it is a token of the stream.
LEMMA WithinReference ==
  ASSUME NEW F, NEW B, NEW c, NEW o, DecOk(F, hsd, B, c, o), hsd.state \in RefStates
  PROVE  \E T, n, t, u, q, m :
           Within(F, B, T, n, t, u, q, m) /\ InReference(hsd, t, q, m, At(hsd, c), o)
<1> DEFINE S == Flat(B, << >>)
<1>1. PICK T, n : Tokens(F, B, T, n) /\ DecPlace(F, hsd, S, T, At(hsd, c), o)
  BY DecTypes
<1>2. hsd.state \notin {"EMPTY", "INPUT_AVAILABLE", "CHECK_FOR_MORE_INPUT", "YIELD_LITERAL"}
  BY DEF RefStates
<1> HIDE DEF S
<1>3. PICK t, u \in T : \E q, m : ReferenceToken(F, S, t, u, q, m)
                                  /\ InReference(hsd, t, q, m, At(hsd, c), o)
  BY <1>1, <1>2 DEF DecPlace
<1>4. PICK q, m : ReferenceToken(F, S, t, u, q, m)
                  /\ InReference(hsd, t, q, m, At(hsd, c), o)
  BY <1>3
<1>5. t \in Nat \X Nat
  BY <1>1 DEF Tokens, Boundaries
<1>6. Within(F, B, T, n, t, u, q, m)
  BY <1>1, <1>4, <1>5 DEF Within, S
<1> QED
  BY <1>4, <1>6

\* The decoder takes bits and stays within the back reference.
LEMMA TookMoves ==
  ASSUME NEW F, NEW B, NEW c, NEW o, DecOk(F, hsd, B, c, o), OiType(oi, Int), oi.res = "busy",
         NEW h, NEW c2 \in Nat, NEW k, NEW x, Advanced(h, hsd, B, c2, c, k, x),
         NEW s2 \in RefStates, NEW i2 \in Nat, NEW k2 \in Nat, oi' = oi,
         hsd' = [h EXCEPT !.state = s2, !.output_index = i2, !.output_count = k2],
         NEW T, NEW n, NEW t, NEW u, NEW q, NEW m, Within(F, B, T, n, t, u, q, m),
         InReference([state |-> s2, output_index |-> i2, output_count |-> k2],
                     t, q, m, At(hsd, c) + k, o)
  PROVE  DecMoves(F, B, c, o)
<1>1. DOMAIN h = DecFields /\ h.window = hsd.window /\ h.head_index = hsd.head_index
  BY DEF Advanced
<1>2. /\ DOMAIN hsd' = DecFields /\ hsd'.input = h.input /\ hsd'.input_index = h.input_index
      /\ hsd'.bits = h.bits /\ hsd'.size = h.size /\ hsd'.output_index = i2
      /\ hsd'.output_count = k2 /\ hsd'.state = s2
      /\ hsd'.window = h.window /\ hsd'.head_index = h.head_index
  BY <1>1 DEF DecFields
<1>3. Keeps
  BY <1>1, <1>2 DEF Keeps
<1>4. s2 \notin {"EMPTY", "INPUT_AVAILABLE"}
  BY DEF RefStates
<1>5. InReference(hsd', t, q, m, At(hsd, c) + k, o)
  BY <1>2 DEF InReference
<1>6. Tokens(F, B, T, n) /\ DecPlace(F, hsd', Flat(B, << >>), T, At(hsd, c) + k, o)
  BY <1>5 DEF Within, DecPlace
<1> QED
  BY <1>2, <1>3, <1>4, <1>6, Moved

\* Numbers of a reference
LEMMA RefNumbers ==
  ASSUME NEW F, NEW B, NEW T, NEW n, NEW t, NEW u, NEW q, NEW m,
         Within(F, B, T, n, t, u, q, m)
  PROVE  /\ t[1] \in Nat /\ t[2] \in Nat /\ q \in Nat /\ q >= 1 /\ m \in Nat /\ m >= 1
         /\ q - 1 \in Nat /\ q - 1 < P2[WindowBits]
         /\ m - 1 \in Nat /\ m - 1 < P2[LookaheadBits]
         /\ Numbered(Flat(B, << >>), t[1] + 1, q - 1, WindowBits)
         /\ Numbered(Flat(B, << >>), t[1] + 1 + WindowBits, m - 1, LookaheadBits)
<1> DEFINE S == Flat(B, << >>)
<1>1. t \in Nat \X Nat /\ ReferenceToken(F, S, t, u, q, m)
  BY DEF Within
<1> HIDE DEF S
<1>2. q \in Nat /\ q >= 1 /\ q <= Window /\ m \in Nat /\ m >= 1 /\ m <= Ahead
  BY <1>1, ReferenceSays
<1>3. /\ Numbered(S, t[1] + 1, q - 1, WindowBits)
      /\ Numbered(S, t[1] + 1 + WindowBits, m - 1, LookaheadBits)
  BY <1>1, ReferenceSays
<1>4. PICK w, a \in Nat : w = Window /\ a = Ahead
  BY BitsType
<1>5. q - 1 \in Nat /\ q - 1 < w /\ m - 1 \in Nat /\ m - 1 < a
  BY <1>2, <1>4
<1> QED
  BY <1>1, <1>2, <1>3, <1>4, <1>5 DEF Window, Ahead, S

\* Upper parts are numbers.
LEMMA UpperType == ASSUME NEW v \in Nat, NEW w PROVE Upper(v, w) \in Nat
<1>1. PICK p \in Nat \ {0} : p = P2[GetBits]
  BY GetsAre, Pow2Type
<1>2. PICK h \in Nat : h = v \div p
  BY Division
<1>3. h * p \in Nat
  OBVIOUS
<1> QED
  BY <1>1, <1>2, <1>3 DEF Upper

\* The upper part of the position is read (heatshrink_decoder.c:231-239).
LEMMA IndexMsbKept ==
  ASSUME NEW F, NEW B, NEW c, NEW o, DecOk(F, hsd, B, c, o), OiType(oi, Int),
         H!Dec!st_backref_index_msb
  PROVE  DecMoves(F, B, c, o)
<1> DEFINE k == WindowBits - GetBits
           x == H!Dec!NextBits(k)
           h == H!Dec!Popped(k)
           v == H!Dec!Number(x)
<1>1. /\ hsd.state = "BACKREF_INDEX_MSB" /\ oi.res = "busy"
      /\ IF ~ H!Dec!HasBits(k) THEN H!Dec!Stuck
         ELSE /\ hsd' = [h EXCEPT !.output_index = v * P2[GetBits], !.state = "BACKREF_INDEX_LSB"]
              /\ oi' = oi
  BY SizesAre DEF H!Dec!st_backref_index_msb, H!Dec!Polling, H!Dec!Take
<1>2. CASE ~ H!Dec!HasBits(k)
  <2>1. hsd.input = << >> /\ Len(hsd.bits) < k
    <3>1. Len(hsd.bits) \in Nat /\ k \in Int
      <4>1. DecType(hsd)
        BY DecTypes
      <4> QED
        BY <4>1, GetsAre, LenProperties DEF DecType
    <3> QED
      BY <1>2, <3>1 DEF H!Dec!HasBits
  <2>2. Idle(hsd)
    BY <1>1, <2>1 DEF Idle
  <2> QED
    BY <1>1, <1>2, <2>2, StuckStops
<1>3. CASE H!Dec!HasBits(k)
  <2> DEFINE S == Flat(B, << >>)
  <2>1. B \in Seq(Octets) /\ DecType(hsd) /\ DecInput(hsd, B, c) /\ c \in Nat
    BY DecTypes
  <2>2. PICK p, w, g \in Nat : p = At(hsd, c) /\ w = WindowBits /\ g = GetBits
    BY <2>1, DecPlaces, GetsAre
  <2>3. hsd.state \in RefStates
    BY <1>1 DEF RefStates
  <2>4. PICK T, n, t, u, q, m :
          Within(F, B, T, n, t, u, q, m) /\ InReference(hsd, t, q, m, At(hsd, c), o)
    BY <2>3, WithinReference
  <2>5. w > g /\ p = t[1] + 1 /\ o = t[2]
    BY <1>1, <2>2, <2>4 DEF InReference
  <2>6. t[1] \in Nat /\ q - 1 \in Nat /\ q - 1 < P2[w] /\ Numbered(S, t[1] + 1, q - 1, w)
    BY <2>2, <2>4, RefNumbers
  <2>7. k \in 1 .. 8 /\ k = w - g
    <3>1. w - g <= 8
      BY <2>2, GetsAre
    <3> QED
      BY <2>2, <2>5, <3>1
  <2> HIDE DEF k
  <2>8. PICK c2 \in Nat : Advanced(h, hsd, B, c2, c, k, x)
    BY <1>3, <2>1, <2>7, TakeBits
  <2>9. /\ DOMAIN h = DecFields /\ h.output_count = hsd.output_count
        /\ x \in Seq(Int) /\ Len(x) = k /\ \A j \in 1 .. k : x[j] = S[p + j - 1]
    BY <2>2, <2>8 DEF Advanced
  <2> HIDE DEF S, x
  <2>10. v * P2[GetBits] = Upper(q - 1, w)
    <3>1. PICK a \in Nat : a = q - 1
      BY <2>6
    <3>2. Len(x) = w - GetBits /\ w > GetBits /\ a < P2[w] /\ Numbered(S, p, a, w)
          /\ \A j \in 1 .. w - GetBits : x[j] = S[p + j - 1]
      BY <2>2, <2>5, <2>6, <2>7, <2>9, <3>1
    <3>3. PICK y \in Seq(Int) : y = x
      BY <2>9
    <3>4. Len(y) = w - GetBits /\ \A j \in 1 .. w - GetBits : y[j] = S[p + j - 1]
      BY <3>2, <3>3
    <3>5. H!Dec!Number(y) * P2[GetBits] = Upper(a, w)
      BY <3>2, <3>4, UpperPart
    <3> QED
      BY <3>1, <3>3, <3>5
  <2> HIDE DEF h, v
  <2>11. PICK i2 \in Nat : i2 = Upper(q - 1, w)
    BY <2>6, UpperType
  <2>12. PICK k2 \in Nat : k2 = hsd.output_count
    BY <2>1 DEF DecType
  <2>13. hsd' = [h EXCEPT !.state = "BACKREF_INDEX_LSB", !.output_index = i2,
                          !.output_count = k2] /\ oi' = oi
    BY <1>1, <1>3, <2>9, <2>10, <2>11, <2>12 DEF DecFields
  <2>14. InReference([state |-> "BACKREF_INDEX_LSB", output_index |-> i2, output_count |-> k2],
                     t, q, m, At(hsd, c) + k, o)
    <3>1. LowLen(w) = g
      BY <2>2, <2>5 DEF LowLen
    <3>2. At(hsd, c) + k = t[1] + 1 + w - g
      BY <2>2, <2>5, <2>6, <2>7
    <3> QED
      BY <2>2, <2>5, <2>11, <3>1, <3>2 DEF InReference
  <2>15. "BACKREF_INDEX_LSB" \in RefStates
    BY DEF RefStates
  <2> QED
    BY <1>1, <2>4, <2>8, <2>13, <2>14, <2>15, TookMoves
<1> QED
  BY <1>2, <1>3

-----------------------------------------------------------------------------
\* get_bits gives up for want of bits only.
LEMMA NoBits ==
  ASSUME NEW F, NEW B, NEW c, NEW o, DecOk(F, hsd, B, c, o), NEW k \in Int, ~ H!Dec!HasBits(k)
  PROVE  hsd.input = << >> /\ Len(hsd.bits) < k
<1>1. Len(hsd.bits) \in Nat
  <2>1. DecType(hsd)
    BY DecTypes
  <2> QED
    BY <2>1, LenProperties DEF DecType
<1> QED
  BY <1>1 DEF H!Dec!HasBits

\* A number of w bits is read to its end.
LEMMA ReadLower ==
  ASSUME NEW F, NEW B, NEW c, NEW o, DecOk(F, hsd, B, c, o), NEW w \in {WindowBits, LookaheadBits},
         NEW k, k = LowLen(w), H!Dec!HasBits(k), NEW a \in Nat, NEW v \in Nat, v < P2[w],
         Numbered(Flat(B, << >>), a, v, w), At(hsd, c) + k = a + w
  PROVE  /\ H!Dec!Number(H!Dec!NextBits(k)) \in Nat /\ Upper(v, w) \in Nat
         /\ Upper(v, w) + H!Dec!Number(H!Dec!NextBits(k)) = v
         /\ \E c2 \in Nat : Advanced(H!Dec!Popped(k), hsd, B, c2, c, k, H!Dec!NextBits(k))
<1> DEFINE S == Flat(B, << >>)
           x == H!Dec!NextBits(k)
           h == H!Dec!Popped(k)
<1>1. B \in Seq(Octets) /\ DecType(hsd) /\ DecInput(hsd, B, c) /\ c \in Nat
  BY DecTypes
<1>2. PICK p \in Nat : p = At(hsd, c)
  BY <1>1, DecPlaces
<1>3. w \in Nat /\ k \in 1 .. 8 /\ k <= w
  BY GetsAre
<1>4. PICK c2 \in Nat : Advanced(h, hsd, B, c2, c, k, x)
  BY <1>1, <1>3, TakeBits
<1>5. x \in Seq(Int) /\ Len(x) = k /\ \A j \in 1 .. k : x[j] = S[p + j - 1]
  BY <1>2, <1>4 DEF Advanced
<1>6. Numbered(S, a, v, w)
  OBVIOUS
<1> HIDE DEF x, h, S
<1>7. p + k = a + w
  BY <1>2
<1>8. PICK y \in Seq(Int) : y = x
  BY <1>5
<1>9. Len(y) = k /\ Reads(y, S, p, k)
  BY <1>5, <1>8 DEF Reads
<1>10. k \in Nat /\ k = LowLen(w) /\ k <= w /\ v < P2[w] /\ w \in Nat
  BY <1>3
<1>11. H!Dec!Number(y) \in Nat /\ Upper(v, w) \in Nat /\ Upper(v, w) + H!Dec!Number(y) = v
  <2>1. PICK l, w2 \in Nat : l = k /\ w2 = w
    BY <1>10
  <2>2. l = LowLen(w2) /\ l <= w2 /\ v < P2[w2] /\ Numbered(S, a, v, w2) /\ Len(y) = l
        /\ p + l = a + w2 /\ Reads(y, S, p, l)
    BY <1>6, <1>7, <1>9, <1>10, <2>1
  <2>3. LowerIs(y, v, w2)
    BY <2>2, LowerPart
  <2> QED
    BY <2>1, <2>3 DEF LowerIs
<1> QED
  BY <1>4, <1>8, <1>11 DEF x, h

\* The lower part of the position is read (heatshrink_decoder.c:241-251).
LEMMA IndexLsbKept ==
  ASSUME NEW F, NEW B, NEW c, NEW o, DecOk(F, hsd, B, c, o), OiType(oi, Int),
         H!Dec!st_backref_index_lsb
  PROVE  DecMoves(F, B, c, o)
<1> DEFINE k == H!Dec!LsbBits(WindowBits)
           x == H!Dec!NextBits(k)
           h == H!Dec!Popped(k)
           v == H!Dec!Number(x)
           s2 == IF LookaheadBits > GetBits THEN "BACKREF_COUNT_MSB" ELSE "BACKREF_COUNT_LSB"
<1>1. /\ hsd.state = "BACKREF_INDEX_LSB" /\ oi.res = "busy"
      /\ IF ~ H!Dec!HasBits(k) THEN H!Dec!Stuck
         ELSE /\ hsd' = [h EXCEPT !.output_index = @ + v + 1, !.output_count = 0, !.state = s2]
              /\ oi' = oi
  BY DEF H!Dec!st_backref_index_lsb, H!Dec!Polling, H!Dec!Take
<1>2. k = LowLen(WindowBits) /\ k \in Nat /\ k <= WindowBits /\ WindowBits \in Nat
      /\ LookaheadBits \in Nat /\ GetBits \in Nat
  BY GetsAre
<1> HIDE DEF k
<1>3. CASE ~ H!Dec!HasBits(k)
  <2>1. hsd.input = << >> /\ Len(hsd.bits) < k
    BY <1>2, <1>3, NoBits
  <2>2. Idle(hsd)
    BY <1>1, <1>2, <2>1 DEF Idle
  <2> QED
    BY <1>1, <1>3, <2>2, StuckStops
<1>4. CASE H!Dec!HasBits(k)
  <2> DEFINE S == Flat(B, << >>)
  <2>1. B \in Seq(Octets) /\ DecType(hsd) /\ DecInput(hsd, B, c) /\ c \in Nat
    BY DecTypes
  <2>2. PICK p, w, g, l \in Nat : /\ p = At(hsd, c) /\ w = WindowBits /\ g = GetBits
                                  /\ l = LookaheadBits
    BY <1>2, <2>1, DecPlaces
  <2>3. hsd.state \in RefStates
    BY <1>1 DEF RefStates
  <2>4. PICK T, n, t, u, q, m :
          Within(F, B, T, n, t, u, q, m) /\ InReference(hsd, t, q, m, At(hsd, c), o)
    BY <2>3, WithinReference
  <2>5. hsd.output_index = Upper(q - 1, w) /\ p = t[1] + 1 + w - k /\ o = t[2]
    BY <1>1, <1>2, <2>2, <2>4 DEF InReference
  <2>6. t[1] \in Nat /\ q \in Nat /\ q - 1 \in Nat /\ q - 1 < P2[w] /\ m - 1 \in Nat
        /\ Numbered(S, t[1] + 1, q - 1, w)
    BY <2>2, <2>4, RefNumbers
  <2>7. PICK a, z \in Nat : a = t[1] + 1 /\ z = q - 1 /\ q = z + 1
    BY <2>6
  <2>8. p + k = a + w /\ p = a + w - k
    BY <1>2, <2>2, <2>5, <2>6, <2>7
  <2>9. /\ v \in Nat /\ Upper(z, w) \in Nat /\ Upper(z, w) + v = z
        /\ \E c2 \in Nat : Advanced(h, hsd, B, c2, c, k, x)
    <3>1. z < P2[WindowBits] /\ Numbered(Flat(B, << >>), a, z, WindowBits)
          /\ At(hsd, c) + k = a + WindowBits
      BY <2>2, <2>6, <2>7, <2>8
    <3>2. WindowBits \in {WindowBits, LookaheadBits}
      OBVIOUS
    <3> QED
      BY <1>2, <1>4, <2>2, <3>1, <3>2, ReadLower
  <2>10. PICK c2 \in Nat : Advanced(h, hsd, B, c2, c, k, x)
    BY <2>9
  <2>11. DOMAIN h = DecFields /\ h.output_index = hsd.output_index
    BY <2>10 DEF Advanced
  <2> HIDE DEF h, x, v, s2
  <2>12. h.output_index + v + 1 = q
    BY <2>5, <2>7, <2>9, <2>11
  <2>13. hsd' = [h EXCEPT !.state = s2, !.output_index = q, !.output_count = 0] /\ oi' = oi
    BY <1>1, <1>4, <2>11, <2>12 DEF DecFields
  <2>14. InReference([state |-> s2, output_index |-> q, output_count |-> 0],
                     t, q, m, At(hsd, c) + k, o)
    <3>1. At(hsd, c) + k = t[1] + 1 + w
      BY <2>2, <2>6, <2>7, <2>8
    <3>2. CASE l > g
      BY <2>2, <2>5, <3>1, <3>2 DEF InReference, s2
    <3>3. CASE ~ (l > g)
      <4>1. Upper(m - 1, LookaheadBits) = 0 /\ LowLen(LookaheadBits) = l
            /\ s2 = "BACKREF_COUNT_LSB"
        BY <2>2, <3>3 DEF Upper, LowLen, s2
      <4>2. t[1] + 1 + w = t[1] + (1 + w + l) - l
        BY <2>6
      <4>3. RefLen = 1 + w + l
        BY <2>2 DEF RefLen
      <4> QED
        BY <2>2, <2>5, <3>1, <4>1, <4>2, <4>3 DEF InReference
    <3> QED
      BY <3>2, <3>3
  <2>15. s2 \in RefStates
    BY DEF RefStates, s2
  <2>16. 0 \in Nat
    OBVIOUS
  <2> QED
    BY <1>1, <2>4, <2>6, <2>10, <2>13, <2>14, <2>15, <2>16, TookMoves
<1> QED
  BY <1>3, <1>4

\* The upper part of the length is read (heatshrink_decoder.c:253-261).
LEMMA CountMsbKept ==
  ASSUME NEW F, NEW B, NEW c, NEW o, DecOk(F, hsd, B, c, o), OiType(oi, Int),
         H!Dec!st_backref_count_msb
  PROVE  DecMoves(F, B, c, o)
<1> DEFINE k == LookaheadBits - GetBits
           x == H!Dec!NextBits(k)
           h == H!Dec!Popped(k)
           v == H!Dec!Number(x)
<1>1. /\ hsd.state = "BACKREF_COUNT_MSB" /\ oi.res = "busy"
      /\ IF ~ H!Dec!HasBits(k) THEN H!Dec!Stuck
         ELSE /\ hsd' = [h EXCEPT !.output_count = v * P2[GetBits], !.state = "BACKREF_COUNT_LSB"]
              /\ oi' = oi
  BY SizesAre DEF H!Dec!st_backref_count_msb, H!Dec!Polling, H!Dec!Take
<1>2. CASE ~ H!Dec!HasBits(k)
  <2>1. k \in Int
    BY GetsAre
  <2>2. hsd.input = << >> /\ Len(hsd.bits) < k
    <3> HIDE DEF k
    <3> QED
      BY <1>2, <2>1, NoBits
  <2>3. Idle(hsd)
    BY <1>1, <2>2 DEF Idle
  <2> QED
    BY <1>1, <1>2, <2>3, StuckStops
<1>3. CASE H!Dec!HasBits(k)
  <2> DEFINE S == Flat(B, << >>)
  <2>1. B \in Seq(Octets) /\ DecType(hsd) /\ DecInput(hsd, B, c) /\ c \in Nat
    BY DecTypes
  <2>2. PICK p, b, w, g \in Nat : p = At(hsd, c) /\ b = WindowBits /\ w = LookaheadBits
                                  /\ g = GetBits
    BY <2>1, DecPlaces, GetsAre
  <2>3. hsd.state \in RefStates
    BY <1>1 DEF RefStates
  <2>4. PICK T, n, t, u, q, m :
          Within(F, B, T, n, t, u, q, m) /\ InReference(hsd, t, q, m, At(hsd, c), o)
    BY <2>3, WithinReference
  <2>5. w > g /\ hsd.output_index = q /\ p = t[1] + 1 + b /\ o = t[2]
    BY <1>1, <2>2, <2>4 DEF InReference
  <2>6. t[1] \in Nat /\ q \in Nat /\ m - 1 \in Nat /\ m - 1 < P2[w]
        /\ Numbered(S, t[1] + 1 + b, m - 1, w)
    BY <2>2, <2>4, RefNumbers
  <2>7. k \in 1 .. 8 /\ k = w - g
    <3>1. w - g <= 8
      BY <2>2, GetsAre
    <3> QED
      BY <2>2, <2>5, <3>1
  <2> HIDE DEF k
  <2>8. PICK c2 \in Nat : Advanced(h, hsd, B, c2, c, k, x)
    BY <1>3, <2>1, <2>7, TakeBits
  <2>9. /\ DOMAIN h = DecFields /\ h.output_index = hsd.output_index
        /\ x \in Seq(Int) /\ Len(x) = k /\ \A j \in 1 .. k : x[j] = S[p + j - 1]
    BY <2>2, <2>8 DEF Advanced
  <2> HIDE DEF S, x
  <2>10. v * P2[GetBits] = Upper(m - 1, w)
    <3>1. PICK a \in Nat : a = m - 1
      BY <2>6
    <3>2. Len(x) = w - GetBits /\ w > GetBits /\ a < P2[w] /\ Numbered(S, p, a, w)
          /\ \A j \in 1 .. w - GetBits : x[j] = S[p + j - 1]
      BY <2>2, <2>5, <2>6, <2>7, <2>9, <3>1
    <3>3. PICK y \in Seq(Int) : y = x
      BY <2>9
    <3>4. Len(y) = w - GetBits /\ \A j \in 1 .. w - GetBits : y[j] = S[p + j - 1]
      BY <3>2, <3>3
    <3>6. w > GetBits /\ a < P2[w] /\ Numbered(S, p, a, w)
      BY <3>2
    <3>5. H!Dec!Number(y) * P2[GetBits] = Upper(a, w)
      BY <3>4, <3>6, UpperPart
    <3> QED
      BY <3>1, <3>3, <3>5
  <2> HIDE DEF h, v
  <2>11. PICK k2 \in Nat : k2 = Upper(m - 1, w)
    BY <2>6, UpperType
  <2>12. hsd' = [h EXCEPT !.state = "BACKREF_COUNT_LSB", !.output_index = q,
                          !.output_count = k2] /\ oi' = oi
    BY <1>1, <1>3, <2>5, <2>9, <2>10, <2>11 DEF DecFields
  <2>13. InReference([state |-> "BACKREF_COUNT_LSB", output_index |-> q, output_count |-> k2],
                     t, q, m, At(hsd, c) + k, o)
    <3>1. LowLen(w) = g
      BY <2>2, <2>5 DEF LowLen
    <3>2. At(hsd, c) + k = t[1] + (1 + b + w) - g
      BY <2>2, <2>5, <2>6, <2>7
    <3>3. RefLen = 1 + b + w
      BY <2>2 DEF RefLen
    <3> QED
      BY <2>2, <2>5, <2>11, <3>1, <3>2, <3>3 DEF InReference
  <2>14. "BACKREF_COUNT_LSB" \in RefStates
    BY DEF RefStates
  <2> QED
    BY <1>1, <2>4, <2>6, <2>8, <2>12, <2>13, <2>14, TookMoves
<1> QED
  BY <1>2, <1>3

\* The lower part of the length is read (heatshrink_decoder.c:263-271).
LEMMA CountLsbKept ==
  ASSUME NEW F, NEW B, NEW c, NEW o, DecOk(F, hsd, B, c, o), OiType(oi, Int),
         H!Dec!st_backref_count_lsb
  PROVE  DecMoves(F, B, c, o)
<1> DEFINE k == H!Dec!LsbBits(LookaheadBits)
           x == H!Dec!NextBits(k)
           h == H!Dec!Popped(k)
           v == H!Dec!Number(x)
<1>1. /\ hsd.state = "BACKREF_COUNT_LSB" /\ oi.res = "busy"
      /\ IF ~ H!Dec!HasBits(k) THEN H!Dec!Stuck
         ELSE /\ hsd' = [h EXCEPT !.output_count = @ + v + 1, !.state = "YIELD_BACKREF"]
              /\ oi' = oi
  BY DEF H!Dec!st_backref_count_lsb, H!Dec!Polling, H!Dec!Take
<1>2. k = LowLen(LookaheadBits) /\ k \in Nat /\ k <= LookaheadBits /\ WindowBits \in Nat
      /\ LookaheadBits \in Nat
  BY GetsAre
<1> HIDE DEF k
<1>3. CASE ~ H!Dec!HasBits(k)
  <2>1. hsd.input = << >> /\ Len(hsd.bits) < k
    BY <1>2, <1>3, NoBits
  <2>2. Idle(hsd)
    BY <1>1, <1>2, <2>1 DEF Idle
  <2> QED
    BY <1>1, <1>3, <2>2, StuckStops
<1>4. CASE H!Dec!HasBits(k)
  <2> DEFINE S == Flat(B, << >>)
  <2>1. B \in Seq(Octets) /\ DecType(hsd) /\ DecInput(hsd, B, c) /\ c \in Nat
    BY DecTypes
  <2>2. PICK p, b, w \in Nat : p = At(hsd, c) /\ b = WindowBits /\ w = LookaheadBits
    BY <1>2, <2>1, DecPlaces
  <2>3. hsd.state \in RefStates
    BY <1>1 DEF RefStates
  <2>4. PICK T, n, t, u, q, m :
          Within(F, B, T, n, t, u, q, m) /\ InReference(hsd, t, q, m, At(hsd, c), o)
    BY <2>3, WithinReference
  <2>5. hsd.output_index = q /\ hsd.output_count = Upper(m - 1, w)
        /\ p = t[1] + RefLen - k /\ o = t[2]
    BY <1>1, <1>2, <2>2, <2>4 DEF InReference
  <2>6. t[1] \in Nat /\ t[2] \in Nat /\ q \in Nat /\ m \in Nat /\ m >= 1 /\ m - 1 \in Nat
        /\ m - 1 < P2[w] /\ Numbered(S, t[1] + 1 + b, m - 1, w)
    BY <2>2, <2>4, RefNumbers
  <2>7. PICK a, z \in Nat : a = t[1] + 1 + b /\ z = m - 1 /\ m = z + 1
    <3>1. t[1] + 1 + b \in Nat /\ m = (m - 1) + 1
      BY <2>6
    <3> QED
      BY <2>6, <3>1
  <2>8. p + k = a + w /\ p + k = t[1] + RefLen
    <3>1. RefLen = 1 + b + w
      BY <2>2 DEF RefLen
    <3> QED
      BY <1>2, <2>2, <2>5, <2>6, <2>7, <3>1
  <2>9. /\ v \in Nat /\ Upper(z, w) \in Nat /\ Upper(z, w) + v = z
        /\ \E c2 \in Nat : Advanced(h, hsd, B, c2, c, k, x)
    <3>1. z < P2[LookaheadBits] /\ Numbered(Flat(B, << >>), a, z, LookaheadBits)
          /\ At(hsd, c) + k = a + LookaheadBits
      BY <2>2, <2>6, <2>7, <2>8
    <3>2. LookaheadBits \in {WindowBits, LookaheadBits}
      OBVIOUS
    <3> QED
      BY <1>2, <1>4, <2>2, <3>1, <3>2, ReadLower
  <2>10. PICK c2 \in Nat : Advanced(h, hsd, B, c2, c, k, x)
    BY <2>9
  <2>11. DOMAIN h = DecFields /\ h.output_index = hsd.output_index
         /\ h.output_count = hsd.output_count
    BY <2>10 DEF Advanced
  <2> HIDE DEF h, x, v
  <2>12. h.output_count + v + 1 = m
    BY <2>5, <2>7, <2>9, <2>11
  <2>13. hsd' = [h EXCEPT !.state = "YIELD_BACKREF", !.output_index = q, !.output_count = m]
         /\ oi' = oi
    BY <1>1, <1>4, <2>5, <2>11, <2>12 DEF DecFields
  <2>14. InReference([state |-> "YIELD_BACKREF", output_index |-> q, output_count |-> m],
                     t, q, m, At(hsd, c) + k, o)
    <3>1. At(hsd, c) + k = t[1] + RefLen
      BY <2>2, <2>8
    <3>2. m > 0 /\ o <= o /\ t[2] <= t[2]
      BY <2>5, <2>6
    <3> QED
      BY <2>5, <3>1, <3>2 DEF InReference
  <2>15. "YIELD_BACKREF" \in RefStates
    BY DEF RefStates
  <2> QED
    BY <1>1, <2>4, <2>6, <2>10, <2>13, <2>14, <2>15, TookMoves
<1> QED
  BY <1>3, <1>4

\* Every step of the decoder stays in step with the file.
LEMMA DecStepMoves ==
  ASSUME NEW F, NEW B, NEW c, NEW o, DecOk(F, hsd, B, c, o), OiType(oi, Int), H!Dec!Step
  PROVE  DecMoves(F, B, c, o)
BY InputAvailableKept, YieldLiteralKept, IndexMsbKept, IndexLsbKept, CountMsbKept,
   CountLsbKept, YieldBackrefKept, CheckForInputKept, PollEmptyKept DEF H!Dec!Step

-----------------------------------------------------------------------------
(* The tool's steps while it unpacks.                                       *)

\* A step never lengthens the input.
LEMMA InputShrinks ==
  ASSUME DOMAIN hsd = DecFields, H!Dec!Step
  PROVE  hsd'.size = hsd.size /\ (hsd'.input = hsd.input \/ hsd'.input = << >>)
<1>1. ASSUME NEW k
      PROVE  /\ DOMAIN H!Dec!Popped(k) = DecFields /\ H!Dec!Popped(k).size = hsd.size
             /\ \/ H!Dec!Popped(k).input = hsd.input
                \/ H!Dec!Popped(k).input = << >>
  <2>1. PICK left : H!Dec!Popped(k) \in
          {[hsd EXCEPT !.bits = left],
           [hsd EXCEPT !.bits = left, !.input = << >>, !.input_index = 0],
           [hsd EXCEPT !.bits = left, !.input = hsd.input,
                       !.input_index = hsd.input_index + 1]}
    <3> DEFINE left == SubSeq(H!Dec!Pulled(k), k + 1, Len(H!Dec!Pulled(k)))
               last == hsd.input_index + 1 = Len(hsd.input)
    <3>1. H!Dec!Popped(k) =
            IF Len(hsd.bits) >= k \/ hsd.input = << >> THEN [hsd EXCEPT !.bits = left]
            ELSE [hsd EXCEPT !.bits = left, !.input = IF last THEN << >> ELSE @,
                             !.input_index = IF last THEN 0 ELSE @ + 1]
      BY DEF H!Dec!Popped
    <3> HIDE DEF left, last
    <3> QED
      BY <3>1 DEF DecFields
  <2> QED
    BY <2>1 DEF DecFields
<1>2. \A k : /\ DOMAIN H!Dec!Popped(k) = DecFields /\ H!Dec!Popped(k).size = hsd.size
             /\ \/ H!Dec!Popped(k).input = hsd.input
                \/ H!Dec!Popped(k).input = << >>
  BY <1>1
<1>3. CASE H!Dec!st_input_available
  BY <1>2, <1>3 DEF H!Dec!st_input_available, DecFields
<1>4. CASE H!Dec!st_yield_literal
  BY <1>2, <1>4 DEF H!Dec!st_yield_literal, H!Dec!Stuck, H!Dec!Emitted, DecFields
<1>5. CASE H!Dec!st_backref_index_msb
  BY <1>2, <1>5 DEF H!Dec!st_backref_index_msb, H!Dec!Take, H!Dec!Stuck, DecFields
<1>6. CASE H!Dec!st_backref_index_lsb
  BY <1>2, <1>6 DEF H!Dec!st_backref_index_lsb, H!Dec!Take, H!Dec!Stuck, DecFields
<1>7. CASE H!Dec!st_backref_count_msb
  BY <1>2, <1>7 DEF H!Dec!st_backref_count_msb, H!Dec!Take, H!Dec!Stuck, DecFields
<1>8. CASE H!Dec!st_backref_count_lsb
  BY <1>2, <1>8 DEF H!Dec!st_backref_count_lsb, H!Dec!Take, H!Dec!Stuck, DecFields
<1>9. CASE H!Dec!st_yield_backref
  BY <1>9 DEF H!Dec!st_yield_backref, H!Dec!Stuck, H!Dec!Emitted, DecFields
<1>10. CASE H!Dec!st_check_for_input
  BY <1>10 DEF H!Dec!st_check_for_input, DecFields
<1>11. CASE H!Dec!PollEmpty
  BY <1>11 DEF H!Dec!PollEmpty
<1> QED
  BY <1>3, <1>4, <1>5, <1>6, <1>7, <1>8, <1>9, <1>10, <1>11 DEF H!Dec!Step

\* What the invariant says while the tool unpacks, outside a poll
LEMMA WhileDecoding ==
  ASSUME ToolInv, step \in DecSteps
  PROVE  /\ file \in Seq(0 .. 255) /\ packed \in Seq(Octets) /\ unpacked \in Seq(Int)
         /\ DecPolls /\ DecFeed /\ Len(hsd.input) <= hsd.size
         /\ DecOk(file, hsd, packed, TakenIn, Len(GotOut))
         /\ \A i \in 1 .. Len(GotOut) : GotOut[i] = file[i]
BY FileType DEF ToolInv, Decoding

\* The numbers of what is left
LEMMA DecNumbers ==
  ASSUME ToolInv, step \in DecSteps
  PROVE  \E k, r, d, w \in Nat :
           /\ k = Len(packed) /\ r = Len(rest) /\ d = Len(data) /\ w = Unread(hsd)
           /\ r + d <= k /\ TakenIn = k - r - d - w /\ TakenIn + w = (k - r) - d
<1>1. packed \in Seq(Octets) /\ rest \in Seq(Octets) /\ data \in Seq(Octets)
      /\ Len(rest) + Len(data) <= Len(packed) /\ DecOk(file, hsd, packed, TakenIn, Len(GotOut))
  BY WhileDecoding DEF DecFeed
<1>2. DecType(hsd) /\ DecInput(hsd, packed, TakenIn)
  BY <1>1, DecTypes
<1>3. Unread(hsd) \in Nat
  BY <1>1, <1>2, DecPlaces
<1>4. PICK k, r, d, w \in Nat :
        k = Len(packed) /\ r = Len(rest) /\ d = Len(data) /\ w = Unread(hsd)
  BY <1>1, <1>3, LenProperties
<1>5. TakenIn = k - r - d - w
  BY <1>4 DEF TakenIn
<1>6. TakenIn + w = (k - r) - d
  BY <1>5
<1> QED
  BY <1>1, <1>4, <1>5, <1>6

\* decode reads, or ends.
LEMMA DecReadKept ==
  ASSUME ToolInv, H!DecRead
  PROVE  ToolInv'
<1>1. step = "decode: read" /\ \E next \in {"decode: sink", "end", "decode: read"} :
        H!Read(next) /\ (next # "decode: sink" => rest = << >>)
  BY DEF H!DecRead
<1>2. PICK next :
        /\ next \in {"decode: sink", "end", "decode: read"} /\ H!Read(next)
        /\ next # "decode: sink" => rest = << >>
  BY <1>1
<1>3. step \in DecSteps
  BY <1>1 DEF DecSteps
<1>4. packed \in Seq(Octets) /\ unpacked \in Seq(Int) /\ DecFeed /\ Len(hsd.input) <= hsd.size
      /\ DecOk(file, hsd, packed, TakenIn, Len(GotOut))
      /\ \A i \in 1 .. Len(GotOut) : GotOut[i] = file[i]
  BY <1>3, WhileDecoding
<1>5. rest \in Seq(Octets) /\ data = << >> /\ Idle(hsd)
  BY <1>1, <1>4 DEF DecFeed
<1>6. /\ data' \in Seq(Octets) /\ rest' \in Seq(Octets) /\ Len(rest') + Len(data') = Len(rest)
      /\ \A i \in 1 .. Len(data') : data'[i] = rest[i]
      /\ \A i \in 1 .. Len(rest') : rest'[i] = rest[Len(data') + i]
      /\ step' = next /\ UNCHANGED <<hse, hsd, oi, file, sizes, packed, unpacked>>
  BY <1>2, <1>5, FileType, ReadStep
<1>7. PICK k, r, w \in Nat :
        /\ k = Len(packed) /\ r = Len(rest) /\ w = Unread(hsd)
        /\ r <= k /\ TakenIn = k - r - 0 - w
  <2>1. PICK k, r, d, w \in Nat :
          /\ k = Len(packed) /\ r = Len(rest) /\ d = Len(data) /\ w = Unread(hsd)
          /\ r + d <= k /\ TakenIn = k - r - d - w
    BY <1>3, DecNumbers
  <2>2. d = 0
    BY <1>5, <2>1
  <2>3. r + 0 <= k
    BY <2>1, <2>2
  <2>4. r <= k
    BY <2>3
  <2> QED
    BY <2>1, <2>2, <2>4
<1>9. PICK y, z \in Nat : y = Len(data') /\ z = Len(rest') /\ z + y = r
  <2>1. Len(data') \in Nat /\ Len(rest') \in Nat
    BY <1>6, LenProperties
  <2> QED
    BY <1>6, <1>7, <2>1
<1>16. z + y = r /\ r <= k
  BY <1>7, <1>9
<1>10. TakenIn' = TakenIn
  <2>1. TakenIn' = k - z - y - w
    BY <1>6, <1>7, <1>9 DEF TakenIn
  <2>2. k - z - y - w = k - r - 0 - w
    BY <1>16
  <2> QED
    BY <1>7, <2>1, <2>2
<1>11. next # "decode: sink" => rest' = << >> /\ data' = << >>
  <2>1. rest = << >> => r = 0
    BY <1>7
  <2>2. rest = << >> => z = 0 /\ y = 0
    BY <1>16, <2>1
  <2> QED
    BY <1>2, <1>6, <1>9, <2>2, EmptySeq
<1>12. DecFeed'
  <2>1. \A i \in 1 .. r : rest[i] = packed[k - r + i]
    BY <1>4, <1>7 DEF DecFeed
  <2>2. \A i \in 1 .. z : rest'[i] = packed[k - z + i]
    <3>1. ASSUME NEW i \in 1 .. z PROVE rest'[i] = packed[k - z + i]
      <4>1. y + i \in 1 .. r /\ k - r + (y + i) = k - z + i
        BY <1>16
      <4>2. rest'[i] = rest[y + i]
        BY <1>6, <1>9
      <4> QED
        BY <2>1, <4>1, <4>2
    <3> QED
      BY <3>1
  <2>3. \A i \in 1 .. y : data'[i] = packed[k - z - y + i]
    <3>1. ASSUME NEW i \in 1 .. y PROVE data'[i] = packed[k - z - y + i]
      <4>1. i \in 1 .. r /\ k - r + i = k - z - y + i
        BY <1>16
      <4>2. data'[i] = rest[i]
        BY <1>6, <1>9
      <4> QED
        BY <2>1, <4>1, <4>2
    <3> QED
      BY <3>1
  <2>4. z + y <= k
    BY <1>16
  <2>5. step' \in {"decode: read", "end"} => data' = << >> /\ Idle(hsd')
    BY <1>5, <1>6, <1>11
  <2>6. step' = "end" => rest' = << >>
    BY <1>6, <1>11
  <2> QED
    BY <1>6, <1>7, <1>9, <2>2, <2>3, <2>4, <2>5, <2>6 DEF DecFeed
<1>13. step' \in DecSteps /\ step' \notin EncSteps /\ step' # "decode: polling" /\ DecPolls'
  BY <1>2, <1>6 DEF DecSteps, EncSteps, DecPolls
<1>14. GotOut' = GotOut
  BY <1>1, <1>6, <1>13 DEF GotOut
<1>15. Decoding'
  BY <1>4, <1>6, <1>10, <1>12, <1>13, <1>14 DEF Decoding
<1> QED
  BY <1>6, <1>13, <1>15 DEF ToolInv, Encoding

-----------------------------------------------------------------------------
\* d is what is in B from a on.
Follows(d, B, a) == \A i \in 1 .. Len(d) : d[i] = B[a + i]

\* The decoder takes the next bytes of B.
LEMMA SinkDec ==
  ASSUME NEW F, NEW B, NEW c, NEW o, DecOk(F, hsd, B, c, o), Len(hsd.input) <= hsd.size,
         NEW d \in Seq(Octets), c + Unread(hsd) + Len(d) <= Len(B),
         Follows(d, B, c + Unread(hsd)), H!Dec!Sink(d)
  PROVE  /\ H!Dec!Taken(Len(d)) \in 0 .. Len(d)
         /\ DecOk(F, hsd', B, c, o) /\ Len(hsd'.input) <= hsd'.size
         /\ Unread(hsd') = Unread(hsd) + H!Dec!Taken(Len(d)) /\ oi' = oi
<1> DEFINE n == H!Dec!Taken(Len(d))
           x == SubSeq(d, 1, n)
           in2 == hsd.input \o x
           s2 == IF hsd.state = "EMPTY" THEN "INPUT_AVAILABLE" ELSE hsd.state
<1>1. F \in Seq(0 .. 255) /\ B \in Seq(Octets) /\ DecType(hsd) /\ DecInput(hsd, B, c)
      /\ DecWindow(F, hsd, o) /\ c \in Nat /\ o \in Nat /\ DOMAIN hsd = DecFields
  BY DecTypes
<1>2. PICK T, m : Tokens(F, B, T, m) /\ DecPlace(F, hsd, Flat(B, << >>), T, At(hsd, c), o)
  BY DecTypes
<1>3. /\ hsd.input \in Seq(Octets) /\ hsd.input_index \in Nat /\ hsd.size \in Nat
      /\ IF hsd.input = << >> THEN hsd.input_index = 0 ELSE hsd.input_index < Len(hsd.input)
  BY <1>1 DEF DecType
<1>4. PICK l, i, z, e, k, w \in Nat :
        /\ l = Len(hsd.input) /\ i = hsd.input_index /\ z = hsd.size /\ e = Len(d) /\ k = Len(B)
        /\ w = Unread(hsd)
  <2>1. Len(hsd.input) \in Nat /\ Len(d) \in Nat /\ Len(B) \in Nat
    BY <1>1, <1>3, LenProperties
  <2>2. Unread(hsd) \in Nat
    BY <1>1, DecPlaces
  <2> QED
    BY <1>3, <2>1, <2>2
<1>5. l <= z /\ c + w + e <= k /\ w = l - i
  BY <1>4 DEF Unread
<1>6. i <= l /\ (i = l => l = 0)
  <2>1. hsd.input = << >> => l = 0 /\ i = 0
    BY <1>3, <1>4
  <2>2. hsd.input # << >> => i < l
    BY <1>3, <1>4
  <2> QED
    BY <2>1, <2>2
<1>7. n = IF z - l < e THEN z - l ELSE e
  BY <1>4 DEF H!Dec!Taken
<1>8. n \in Nat /\ n <= e /\ l + n <= z
  BY <1>5, <1>7
<1>9. oi' = oi /\ hsd' = (IF n = 0 THEN hsd ELSE [hsd EXCEPT !.input = in2, !.state = s2])
  BY <1>1 DEF H!Dec!Sink, DecFields
<1> HIDE DEF n
<1>10. n \in 0 .. e
  BY <1>8
<1>11. CASE n = 0
  <2>1. hsd' = hsd /\ w = w + n
    BY <1>9, <1>11
  <2> QED
    BY <1>4, <1>9, <1>10, <2>1 DEF n
<1>12. CASE n # 0
  <2>1. x \in Seq(Octets) /\ Len(x) = n /\ \A j \in 1 .. n : x[j] = d[j]
    BY <1>4, <1>10, HeadOf
  <2> HIDE DEF x
  <2>2. /\ in2 \in Seq(Octets) /\ Len(in2) = l + n
        /\ \A j \in 1 .. l : in2[j] = hsd.input[j]
        /\ \A j \in 1 .. n : in2[l + j] = x[j]
    <3>1. PICK y \in Seq(Octets) : y = hsd.input
      BY <1>3
    <3>2. PICK v \in Seq(Octets) : v = x
      BY <2>1
    <3>3. /\ y \o v \in Seq(Octets) /\ Len(y \o v) = Len(y) + Len(v)
          /\ \A j \in 1 .. Len(y) : (y \o v)[j] = y[j]
          /\ \A j \in 1 .. Len(v) : (y \o v)[Len(y) + j] = v[j]
      BY Concatenated
    <3>4. in2 = y \o v /\ Len(y) = l /\ Len(v) = n
      BY <1>4, <2>1, <3>1, <3>2
    <3> QED
      BY <2>1, <3>1, <3>2, <3>3, <3>4
  <2> HIDE DEF in2, s2
  <2>3. /\ DOMAIN hsd' = DecFields /\ hsd'.input = in2 /\ hsd'.input_index = i
        /\ hsd'.bits = hsd.bits /\ hsd'.size = z /\ hsd'.state = s2
        /\ hsd'.window = hsd.window /\ hsd'.head_index = hsd.head_index
        /\ hsd'.output_index = hsd.output_index /\ hsd'.output_count = hsd.output_count
    BY <1>1, <1>4, <1>9, <1>12 DEF DecFields
  <2>4. in2 # << >> /\ i < l + n
    <3>1. l + n > 0 /\ i < l + n
      BY <1>6, <1>8, <1>12
    <3> QED
      BY <2>2, <3>1
  <2>5. DecType(hsd')
    BY <1>1, <1>4, <2>2, <2>3, <2>4 DEF DecType
  <2>6. Unread(hsd') = w + n
    <3>1. Unread(hsd') = (l + n) - i
      BY <2>2, <2>3 DEF Unread
    <3>2. (l + n) - i = w + n
      BY <1>5, <1>8
    <3> QED
      BY <3>1, <3>2
  <2>7. DecInput(hsd', B, c)
    <3>1. /\ \A j \in 1 .. w : hsd.input[i + j] = B[c + j] /\ Len(hsd.bits) <= 8 * c
          /\ \A j \in 1 .. Len(hsd.bits) :
               hsd.bits[j] = Flat(B, << >>)[8 * c - Len(hsd.bits) + j - 1]
      BY <1>1, <1>4 DEF DecInput
    <3>2. ASSUME NEW j \in 1 .. w + n PROVE in2[i + j] = B[c + j]
      <4>1. CASE j <= w
        <5>1. j \in 1 .. w /\ i + j \in 1 .. l
          BY <1>5, <4>1
        <5> QED
          BY <2>2, <3>1, <5>1
      <4>2. CASE ~ (j <= w)
        <5>1. PICK a \in 1 .. n : j = w + a
          <6>1. j - w \in 1 .. n /\ j = w + (j - w)
            BY <1>8, <4>2
          <6> QED
            BY <6>1
        <5>2. i + j = l + a /\ c + j = c + w + a /\ a \in 1 .. e
          BY <1>1, <1>5, <1>8, <5>1
        <5>3. in2[l + a] = d[a]
          BY <2>1, <2>2
        <5>4. d[a] = B[c + w + a]
          BY <1>4, <5>2 DEF Follows
        <5> QED
          BY <5>2, <5>3, <5>4
      <4> QED
        BY <4>1, <4>2
    <3>3. c + (w + n) <= k
      BY <1>1, <1>5, <1>8
    <3>4. Len(hsd'.bits) <= 8 * c /\ \A j \in 1 .. Len(hsd'.bits) :
            hsd'.bits[j] = Flat(B, << >>)[8 * c - Len(hsd'.bits) + j - 1]
      BY <1>1, <2>3 DEF DecInput
    <3> QED
      BY <1>1, <1>4, <2>3, <2>6, <3>2, <3>3, <3>4 DEF DecInput
  <2>8. DecWindow(F, hsd', o)
    BY <1>1, <2>3 DEF DecWindow
  <2>9. DecPlace(F, hsd', Flat(B, << >>), T, 8 * c - Len(hsd'.bits), o)
    <3>1. 8 * c - Len(hsd'.bits) = At(hsd, c)
      BY <2>3 DEF At
    <3>2. CASE hsd.state = "EMPTY"
      <4>1. s2 = "INPUT_AVAILABLE"
        BY <3>2 DEF s2
      <4>2. <<At(hsd, c), o>> \in T
        BY <1>2, <3>2 DEF DecPlace, InReference
      <4> QED
        BY <2>3, <3>1, <4>1, <4>2 DEF DecPlace
    <3>3. CASE hsd.state # "EMPTY"
      <4>1. s2 = hsd.state
        BY <3>3 DEF s2
      <4> QED
        BY <1>2, <2>3, <3>1, <4>1 DEF DecPlace, InReference
    <3> QED
      BY <3>2, <3>3
  <2>10. hsd'.state # "EMPTY"
    BY <2>3 DEF s2
  <2>11. DecOk(F, hsd', B, c, o)
    BY <1>1, <1>2, <2>3, <2>4, <2>5, <2>7, <2>8, <2>9, <2>10 DEF DecOk, Tokens
  <2>12. Len(hsd'.input) <= hsd'.size
    BY <1>8, <2>2, <2>3
  <2> QED
    BY <1>4, <1>9, <1>10, <2>6, <2>11, <2>12 DEF n
<1> QED
  BY <1>11, <1>12

\* decode sinks what it read.
LEMMA DecSinkKept ==
  ASSUME ToolInv, H!DecSink
  PROVE  ToolInv'
<1> DEFINE n == H!Dec!Taken(Len(data))
<1>1. step = "decode: sink" /\ step' = "decode: poll" /\ H!Dec!Sink(data)
      /\ data' = SubSeq(data, n + 1, Len(data))
      /\ UNCHANGED <<hse, file, sizes, rest, atEnd, packed, unpacked>>
  BY DEF H!DecSink
<1>2. step \in DecSteps
  BY <1>1 DEF DecSteps
<1>3. packed \in Seq(Octets) /\ unpacked \in Seq(Int) /\ DecFeed /\ Len(hsd.input) <= hsd.size
      /\ DecOk(file, hsd, packed, TakenIn, Len(GotOut))
      /\ \A i \in 1 .. Len(GotOut) : GotOut[i] = file[i]
  BY <1>2, WhileDecoding
<1>4. data \in Seq(Octets) /\ rest \in Seq(Octets)
  BY <1>3 DEF DecFeed
<1>5. PICK k, r, d, w \in Nat :
        /\ k = Len(packed) /\ r = Len(rest) /\ d = Len(data) /\ w = Unread(hsd)
        /\ r + d <= k /\ TakenIn = k - r - d - w /\ TakenIn + w = (k - r) - d
  BY <1>2, DecNumbers
<1>14. PICK t \in Nat : t = TakenIn /\ t = k - r - d - w /\ t + w = (k - r) - d
  <2>1. TakenIn \in Nat
    BY <1>3, DecTypes
  <2> QED
    BY <1>5, <2>1
<1>15. r + d <= k
  BY <1>5
<1>6. \A i \in 1 .. d : data[i] = packed[k - r - d + i]
  BY <1>3, <1>5 DEF DecFeed
<1>7. /\ n \in 0 .. Len(data) /\ DecOk(file, hsd', packed, TakenIn, Len(GotOut))
      /\ Len(hsd'.input) <= hsd'.size /\ Unread(hsd') = w + n /\ oi' = oi
  <2>1. t + w + d <= k
    BY <1>14, <1>15
  <2>2. \A i \in 1 .. d : data[i] = packed[t + w + i]
    <3>1. \A i \in 1 .. d : k - r - d + i = t + w + i
      BY <1>14
    <3> QED
      BY <1>6, <3>1
  <2>3. t + Unread(hsd) + Len(data) <= Len(packed) /\ Follows(data, packed, t + Unread(hsd))
    BY <1>5, <2>1, <2>2 DEF Follows
  <2>4. PICK o : o = Len(GotOut)
    OBVIOUS
  <2>5. DecOk(file, hsd, packed, t, o)
    BY <1>3, <1>14, <2>4
  <2>6. Len(hsd.input) <= hsd.size /\ H!Dec!Sink(data)
    BY <1>1, <1>3
  <2> HIDE DEF n
  <2>7. /\ H!Dec!Taken(Len(data)) \in 0 .. Len(data)
        /\ DecOk(file, hsd', packed, t, o) /\ Len(hsd'.input) <= hsd'.size
        /\ Unread(hsd') = Unread(hsd) + H!Dec!Taken(Len(data)) /\ oi' = oi
    BY <1>4, <2>3, <2>5, <2>6, SinkDec
  <2> QED
    BY <1>5, <1>14, <2>4, <2>7 DEF n
<1> HIDE DEF n
<1>8. n \in Nat /\ n <= d
  BY <1>5, <1>7
<1>9. /\ data' \in Seq(Octets) /\ Len(data') = d - n
      /\ \A j \in 1 .. d - n : data'[j] = data[n + j]
  BY <1>1, <1>4, <1>5, <1>7, TailOf
<1>10. TakenIn' = TakenIn
  <2>1. TakenIn' = k - r - (d - n) - (w + n)
    BY <1>1, <1>5, <1>7, <1>9 DEF TakenIn
  <2>2. k - r - (d - n) - (w + n) = k - r - d - w
    BY <1>8
  <2> QED
    BY <1>5, <2>1, <2>2
<1>11. DecFeed'
  <2>1. \A i \in 1 .. d - n : data'[i] = packed[k - r - (d - n) + i]
    <3>1. ASSUME NEW i \in 1 .. d - n PROVE data'[i] = packed[k - r - (d - n) + i]
      <4>1. n + i \in 1 .. d /\ k - r - d + (n + i) = k - r - (d - n) + i
        BY <1>8
      <4> QED
        BY <1>6, <1>9, <4>1
    <3> QED
      BY <3>1
  <2>2. r + (d - n) <= k
    BY <1>8, <1>15
  <2>3. step' \notin {"decode: read", "end"} /\ step' # "end"
    BY <1>1
  <2>4. \A i \in 1 .. Len(rest) : rest[i] = packed[Len(packed) - Len(rest) + i]
    BY <1>3 DEF DecFeed
  <2> QED
    BY <1>1, <1>4, <1>5, <1>9, <2>1, <2>2, <2>3, <2>4 DEF DecFeed
<1>12. step' \in DecSteps /\ step' \notin EncSteps /\ DecPolls' /\ GotOut' = GotOut
  BY <1>1 DEF DecSteps, EncSteps, DecPolls, GotOut
<1>13. Decoding'
  BY <1>1, <1>3, <1>7, <1>10, <1>11, <1>12 DEF Decoding
<1> QED
  BY <1>1, <1>12, <1>13 DEF ToolInv, Encoding

-----------------------------------------------------------------------------
\* A poll begins, with an output of its own.
LEMMA DecPollKept ==
  ASSUME ToolInv, H!DecPoll
  PROVE  ToolInv'
<1>1. step = "decode: poll" /\ step' = "decode: polling" /\ hsd' = hsd
      /\ oi' = [buf |-> << >>, size |-> sizes.room, res |-> "busy"]
      /\ UNCHANGED <<hse, file, sizes, rest, data, atEnd, packed, unpacked>>
  BY DEF H!DecPoll, H!Dec!Poll
<1>2. step \in DecSteps
  BY <1>1 DEF DecSteps
<1>3. packed \in Seq(Octets) /\ unpacked \in Seq(Int) /\ DecFeed /\ Len(hsd.input) <= hsd.size
      /\ DecOk(file, hsd, packed, TakenIn, Len(GotOut))
      /\ \A i \in 1 .. Len(GotOut) : GotOut[i] = file[i]
  BY <1>2, WhileDecoding
<1>4. DOMAIN oi' = {"buf", "size", "res"} /\ oi'.buf = << >> /\ oi'.size = sizes.room
      /\ oi'.res = "busy"
  BY <1>1
<1>5. DecPolls'
  <2>1. sizes.room \in Nat
    BY FileType
  <2>2. << >> \in Seq(Int)
    OBVIOUS
  <2> QED
    BY <1>4, <2>1, <2>2 DEF DecPolls
<1>6. GotOut' = GotOut
  <2>1. unpacked \o << >> = unpacked
    BY <1>3
  <2> QED
    BY <1>1, <1>4, <2>1 DEF GotOut
<1>7. TakenIn' = TakenIn
  BY <1>1 DEF TakenIn, Unread
<1>8. DecFeed'
  BY <1>1, <1>3 DEF DecFeed
<1>9. step' \in DecSteps /\ step' \notin EncSteps
  BY <1>1 DEF EncSteps, DecSteps
<1>10. Decoding'
  BY <1>1, <1>3, <1>5, <1>6, <1>7, <1>8 DEF Decoding
<1> QED
  BY <1>1, <1>9, <1>10 DEF ToolInv, Encoding

\* What a step of the decoder puts out is what comes next in the file.
LEMMA NextOut ==
  ASSUME NEW F \in Seq(0 .. 255), NEW x \in Seq(Int), NEW b \in Seq(Int), NEW b2,
         NEW o2 \in Nat, Len(x \o b) < Len(F), o2 = Len(x \o b) + 1,
         b2 = Append(b, F[Len(x \o b) + 1]),
         \A i \in 1 .. Len(x \o b) : (x \o b)[i] = F[i]
  PROVE  Len(x \o b2) = o2 /\ \A i \in 1 .. Len(x \o b2) : (x \o b2)[i] = F[i]
<1> DEFINE y == x \o b
<1>1. y \in Seq(Int)
  OBVIOUS
<1>2. PICK o \in Nat : o = Len(y)
  BY <1>1
<1>3. PICK v : v = F[o + 1]
  OBVIOUS
<1>4. x \o b2 = Append(y, v)
  <2>1. v \in Int
    <3>1. o + 1 \in 1 .. Len(F)
      BY <1>2
    <3>2. v \in 0 .. 255
      BY <1>3, <3>1, ElementOfSeq
    <3>3. v \in Nat
      BY <3>2, ByteIsNat, Zenon
    <3> QED
      BY <3>3
  <2>2. PICK z \in Int : z = v
    BY <2>1
  <2>3. x \o Append(b, z) = Append(x \o b, z)
    OBVIOUS
  <2> QED
    BY <1>2, <1>3, <2>2, <2>3
<1> HIDE DEF y
<1>5. Len(Append(y, v)) = o + 1 /\ Append(y, v)[o + 1] = v
      /\ \A i \in 1 .. o : Append(y, v)[i] = y[i]
  BY <1>1, <1>2
<1>6. ASSUME NEW i \in 1 .. o + 1 PROVE (x \o b2)[i] = F[i]
  <2>1. CASE i \in 1 .. o
    BY <1>2, <1>4, <1>5, <2>1 DEF y
  <2>2. CASE i = o + 1
    BY <1>3, <1>4, <1>5, <2>2
  <2>3. i \in 1 .. o \/ i = o + 1
    OBVIOUS
  <2> QED
    BY <2>1, <2>2, <2>3
<1> QED
  BY <1>2, <1>4, <1>5, <1>6 DEF y

\* The poll goes on.
LEMMA DecPollingKept ==
  ASSUME ToolInv, H!DecStep
  PROVE  ToolInv'
<1>1. step = "decode: polling" /\ H!Dec!Step
      /\ UNCHANGED <<hse, file, sizes, step, rest, data, atEnd, packed, unpacked>>
  BY DEF H!DecStep
<1>2. step \in DecSteps /\ step \notin EncSteps
  BY <1>1 DEF DecSteps, EncSteps
<1>3. packed \in Seq(Octets) /\ unpacked \in Seq(Int) /\ DecFeed /\ Len(hsd.input) <= hsd.size
      /\ DecOk(file, hsd, packed, TakenIn, Len(GotOut)) /\ file \in Seq(0 .. 255)
      /\ (\A i \in 1 .. Len(GotOut) : GotOut[i] = file[i]) /\ DecPolls
  BY <1>2, WhileDecoding
<1>4. OiType(oi, Int) /\ GotOut = unpacked \o oi.buf
  BY <1>1, <1>3 DEF DecPolls, OiType, GotOut
<1>5. PICK o, t : o = Len(GotOut) /\ t = TakenIn
  OBVIOUS
<1>6. DecMoves(file, packed, t, o)
  BY <1>1, <1>3, <1>4, <1>5, DecStepMoves
<1>7. PICK c2, o2 \in Nat :
        /\ DecOk(file, hsd', packed, c2, o2) /\ c2 + Unread(hsd') = t + Unread(hsd)
        /\ \/ o2 = o /\ oi'.buf = oi.buf
           \/ o2 = o + 1 /\ o < Len(file) /\ oi'.buf = Append(oi.buf, file[o + 1])
  BY <1>6 DEF DecMoves
<1>8. GotOut' = unpacked \o oi'.buf
  BY <1>1 DEF GotOut
<1>9. Len(GotOut') = o2 /\ \A i \in 1 .. Len(GotOut') : (GotOut')[i] = file[i]
  <2>1. CASE o2 = o /\ oi'.buf = oi.buf
    BY <1>3, <1>4, <1>5, <1>8, <2>1
  <2>2. CASE o2 = o + 1 /\ o < Len(file) /\ oi'.buf = Append(oi.buf, file[o + 1])
    <3>5. PICK x \in Seq(Int), b \in Seq(Int) : x = unpacked /\ b = oi.buf
      BY <1>3, <1>4 DEF OiType
    <3>6. PICK b2 : b2 = oi'.buf
      OBVIOUS
    <3>1. x = unpacked /\ b = oi.buf /\ b2 = oi'.buf
      BY <3>5, <3>6
    <3>2. /\ Len(x \o b) < Len(file) /\ o2 = Len(x \o b) + 1
          /\ b2 = Append(b, file[Len(x \o b) + 1])
          /\ \A i \in 1 .. Len(x \o b) : (x \o b)[i] = file[i]
      BY <1>3, <1>4, <1>5, <2>2, <3>1
    <3>3. Len(x \o b2) = o2
      BY <1>3, <3>2, NextOut
    <3>4. \A i \in 1 .. Len(x \o b2) : (x \o b2)[i] = file[i]
      BY <1>3, <3>2, NextOut
    <3> QED
      BY <1>8, <3>1, <3>3, <3>4
  <2> QED
    BY <1>7, <2>1, <2>2
<1>10. TakenIn' = c2
  <2>1. PICK k, r, d, w \in Nat :
          /\ k = Len(packed) /\ r = Len(rest) /\ d = Len(data) /\ w = Unread(hsd)
          /\ r + d <= k /\ TakenIn = k - r - d - w /\ TakenIn + w = (k - r) - d
    BY <1>2, DecNumbers
  <2>2. PICK w2 \in Nat : w2 = Unread(hsd')
    <3>1. packed \in Seq(Octets) /\ DecType(hsd') /\ DecInput(hsd', packed, c2)
      BY <1>7, DecTypes
    <3> QED
      BY <3>1, DecPlaces
  <2>3. c2 + w2 = (k - r) - d
    BY <1>5, <1>7, <2>1, <2>2
  <2>4. TakenIn' = k - r - d - w2
    BY <1>1, <2>1, <2>2 DEF TakenIn
  <2>5. k - r - d - w2 = c2
    BY <2>3
  <2> QED
    BY <2>4, <2>5
<1>11. DecPolls'
  BY <1>1, <1>6 DEF DecMoves, DecPolls, OiType
<1>12. DecFeed'
  BY <1>1, <1>3 DEF DecFeed
<1>13. Len(hsd'.input) <= hsd'.size
  <2>1. DOMAIN hsd = DecFields /\ hsd.size \in Nat
    BY <1>3, DecTypes DEF DecType
  <2>2. hsd'.size = hsd.size /\ (hsd'.input = hsd.input \/ hsd'.input = << >>)
    BY <1>1, <2>1, InputShrinks
  <2>3. Len(<< >>) = 0
    OBVIOUS
  <2> QED
    BY <1>3, <2>1, <2>2, <2>3
<1>14. Decoding'
  <2>1. DecOk(file', hsd', packed', TakenIn', Len(GotOut'))
    BY <1>1, <1>7, <1>9, <1>10
  <2> QED
    BY <1>1, <1>3, <1>9, <1>11, <1>12, <1>13, <2>1 DEF Decoding
<1> QED
  BY <1>1, <1>2, <1>14 DEF ToolInv, Encoding

\* The poll has ended: what it put out is written.
LEMMA DecPolledKept ==
  ASSUME ToolInv, H!DecPolled
  PROVE  ToolInv'
<1>1. /\ step = "decode: polling" /\ oi.res # "busy" /\ unpacked' = unpacked \o oi.buf
      /\ step' = IF oi.res = "MORE" THEN "decode: poll"
                 ELSE IF data # << >> THEN "decode: sink" ELSE "decode: read"
      /\ UNCHANGED <<hse, hsd, oi, file, sizes, rest, data, atEnd, packed>>
  BY DEF H!DecPolled
<1>2. step \in DecSteps
  BY <1>1 DEF DecSteps
<1>3. packed \in Seq(Octets) /\ unpacked \in Seq(Int) /\ DecFeed /\ Len(hsd.input) <= hsd.size
      /\ DecOk(file, hsd, packed, TakenIn, Len(GotOut))
      /\ (\A i \in 1 .. Len(GotOut) : GotOut[i] = file[i]) /\ DecPolls
  BY <1>2, WhileDecoding
<1>4. oi.buf \in Seq(Int) /\ oi.res \in {"busy", "MORE", "EMPTY"} /\ (oi.res = "EMPTY" => Idle(hsd))
  BY <1>1, <1>3 DEF DecPolls
<1>5. step' \in DecSteps /\ step' \notin EncSteps /\ step' # "decode: polling" /\ step' # "end"
      /\ (step' = "decode: read" => data = << >> /\ Idle(hsd))
  BY <1>1, <1>4 DEF DecSteps, EncSteps
<1>6. GotOut' = GotOut /\ unpacked' \in Seq(Int)
  <2>1. unpacked \o oi.buf \in Seq(Int)
    BY <1>3, <1>4
  <2> QED
    BY <1>1, <1>5, <2>1 DEF GotOut
<1>7. TakenIn' = TakenIn
  BY <1>1 DEF TakenIn, Unread
<1>8. DecFeed'
  BY <1>1, <1>3, <1>5 DEF DecFeed
<1>9. DecPolls'
  BY <1>5 DEF DecPolls
<1>10. Decoding'
  BY <1>1, <1>3, <1>6, <1>7, <1>8, <1>9 DEF Decoding
<1> QED
  BY <1>1, <1>5, <1>10 DEF ToolInv, Encoding

-----------------------------------------------------------------------------
\* Numbers of bits: from p on a token would end at v, which is not beyond n.
LEMMA NoRoomLeft ==
  \A p, b, k, n, d, v \in Nat :
    p = 8 * k - b /\ n <= 8 * k /\ b < d /\ v >= p + d => ~ (v <= n)
OBVIOUS

\* Sequences of the same length and elements
LEMMA SameSequence ==
  ASSUME NEW A, NEW C, NEW x \in Seq(A), NEW y \in Seq(C), Len(x) = Len(y),
         \A i \in 1 .. Len(x) : x[i] = y[i]
  PROVE  x = y
<1>1. PICK n \in Nat : n = Len(x) /\ n = Len(y)
  BY LenProperties
<1>2. x \in [1 .. n -> A] /\ y \in [1 .. n -> C]
  BY <1>1, LenProperties
<1>3. \A i \in 1 .. n : x[i] = y[i]
  BY <1>1
<1>4. x = [i \in 1 .. n |-> x[i]] /\ y = [i \in 1 .. n |-> y[i]]
  BY <1>2
<1> QED
  BY <1>3, <1>4

\* A decoder that has taken all of B and waits for more has put out all of F.
LEMMA NothingLeft ==
  ASSUME NEW F, NEW h, NEW B, NEW c, NEW o, DecOk(F, h, B, c, o), Idle(h), c = Len(B)
  PROVE  o = Len(F)
<1> DEFINE S == Flat(B, << >>)
<1>1. PICK T, n : Tokens(F, B, T, n) /\ DecPlace(F, h, S, T, At(h, c), o)
  BY DecTypes
<1>2. B \in Seq(Octets) /\ DecType(h) /\ DecInput(h, B, c) /\ o \in Nat
  BY DecTypes
<1> HIDE DEF S
<1>3. PICK p, b, k \in Nat : /\ p = At(h, c) /\ b = Len(h.bits) /\ k = Len(B)
                            /\ p = 8 * k - b /\ b < 8
  <2>1. At(h, c) \in Nat /\ Len(h.bits) \in Nat /\ Len(h.bits) < 8 /\ Len(B) \in Nat
    BY <1>2, DecPlaces
  <2> QED
    BY <2>1 DEF At
<1>4. /\ n \in Nat /\ n <= 8 * k /\ T \in SUBSET (Nat \X Nat)
      /\ \A t \in T : t[1] <= n /\ (t = <<n, Len(F)>> \/ \E u \in T : Token(F, S, t, u))
  BY <1>1, <1>3 DEF Tokens, Boundaries, S
<1>5. CASE h.state = "EMPTY"
  <2>1. <<p, o>> \in T
    BY <1>1, <1>3, <1>5 DEF DecPlace, InReference
  <2>2. ASSUME NEW u \in T, Token(F, S, <<p, o>>, u) PROVE FALSE
    <3>1. PICK v \in Nat : v = u[1] /\ v <= n
      BY <1>4
    <3>2. v >= p + 8
      BY <1>2, <2>2, <3>1, TokenGrows
    <3>3. 8 \in Nat /\ v >= p + 8
      BY <3>2
    <3> QED
      BY <1>3, <1>4, <3>1, <3>3, NoRoomLeft
  <2>3. <<p, o>> = <<n, Len(F)>>
    BY <1>4, <2>1, <2>2
  <2> QED
    BY <2>3
<1>6. CASE h.state = "YIELD_LITERAL"
  <2>1. PICK t \in T, u \in T : t = <<p - 1, o>> /\ LiteralToken(F, S, t, u)
    BY <1>1, <1>3, <1>6 DEF DecPlace, InReference
  <2>2. PICK a, v \in Nat : a = t[1] /\ v = u[1] /\ v <= n
    BY <1>4
  <2>3. a = p - 1 /\ v = a + 9
    BY <2>1, <2>2 DEF LiteralToken
  <2>4. v = p + 8
    BY <2>3
  <2> QED
    BY <1>3, <1>4, <2>2, <2>4
<1>7. CASE h.state \notin {"EMPTY", "YIELD_LITERAL"}
  <2>9. PICK t \in T, u \in T :
          \E q, m : ReferenceToken(F, S, t, u, q, m) /\ InReference(h, t, q, m, p, o)
    BY <1>1, <1>3, <1>7 DEF DecPlace, Idle
  <2>1. PICK q, m : ReferenceToken(F, S, t, u, q, m) /\ InReference(h, t, q, m, p, o)
    BY <2>9
  <2>2. PICK a, v \in Nat : a = t[1] /\ v = u[1] /\ v <= n
    BY <1>4
  <2>3. PICK w, l, g, x, y \in Nat :
          /\ w = WindowBits /\ l = LookaheadBits /\ g = GetBits /\ x = LowLen(w) /\ y = LowLen(l)
          /\ x <= w /\ y <= l /\ g >= 1 /\ RefLen = 1 + w + l
    <3>1. LowLen(WindowBits) \in Nat /\ LowLen(LookaheadBits) \in Nat /\ GetBits \in Nat
      BY GetsAre
    <3>2. WindowBits \in Nat /\ LookaheadBits \in Nat
      BY BitsType
    <3>3. LowLen(WindowBits) <= WindowBits /\ LowLen(LookaheadBits) <= LookaheadBits
          /\ GetBits >= 1
      BY GetsAre
    <3> QED
      BY <3>1, <3>2, <3>3 DEF RefLen
  <2>4. v = a + (1 + w + l)
    BY <2>1, <2>2, <2>3 DEF ReferenceToken
  <2>5. CASE h.state = "BACKREF_INDEX_MSB"
    <3>1. p = a + 1 /\ b < w - g
      BY <1>3, <2>1, <2>2, <2>3, <2>5 DEF InReference, Idle
    <3>2. v = p + (w + l) /\ b < w + l
      BY <2>3, <2>4, <3>1
    <3> QED
      BY <1>3, <1>4, <2>2, <3>2, NoRoomLeft
  <2>6. CASE h.state = "BACKREF_INDEX_LSB"
    <3>1. p = a + 1 + w - x /\ b < x
      BY <1>3, <2>1, <2>2, <2>3, <2>6 DEF InReference, Idle
    <3>2. v = p + (x + l) /\ b < x + l
      BY <2>3, <2>4, <3>1
    <3> QED
      BY <1>3, <1>4, <2>2, <3>2, NoRoomLeft
  <2>7. CASE h.state = "BACKREF_COUNT_MSB"
    <3>1. p = a + 1 + w /\ b < l - g
      BY <1>3, <2>1, <2>2, <2>3, <2>7 DEF InReference, Idle
    <3>2. v = p + l /\ b < l
      BY <2>3, <2>4, <3>1
    <3> QED
      BY <1>3, <1>4, <2>2, <3>2, NoRoomLeft
  <2>8. CASE h.state = "BACKREF_COUNT_LSB"
    <3>1. p = a + (1 + w + l) - y /\ b < y
      BY <1>3, <2>1, <2>2, <2>3, <2>8 DEF InReference, Idle
    <3>2. v = p + y
      BY <2>3, <2>4, <3>1
    <3>3. v >= p + y /\ b < y
      BY <3>1, <3>2
    <3> QED
      BY <1>3, <1>4, <2>2, <3>3, NoRoomLeft
  <2> QED
    BY <1>7, <2>5, <2>6, <2>7, <2>8 DEF Idle
<1> QED
  BY <1>5, <1>6, <1>7

\* At the end of decode, all of the file is there.
LEMMA AllUnpacked ==
  ASSUME ToolInv, step = "end"
  PROVE  unpacked = file
<1>1. step \in DecSteps /\ GotOut = unpacked
  BY DEF DecSteps, GotOut
<1>2. packed \in Seq(Octets) /\ unpacked \in Seq(Int) /\ DecFeed /\ file \in Seq(0 .. 255)
      /\ DecOk(file, hsd, packed, TakenIn, Len(unpacked))
      /\ \A i \in 1 .. Len(unpacked) : unpacked[i] = file[i]
  BY <1>1, WhileDecoding
<1>3. rest = << >> /\ data = << >> /\ Idle(hsd)
  BY <1>2 DEF DecFeed
<1>4. PICK c, o : c = TakenIn /\ o = Len(unpacked)
  OBVIOUS
<1>5. c = Len(packed)
  <2>1. DecType(hsd) /\ DecInput(hsd, packed, TakenIn) /\ hsd.input = << >>
    BY <1>2, <1>3, DecTypes DEF Idle
  <2>2. Unread(hsd) = 0
    BY <1>2, <2>1, DecPlaces
  <2>3. PICK k \in Nat : k = Len(packed)
    BY <1>2, LenProperties
  <2>4. TakenIn = k - 0 - 0 - 0
    BY <1>3, <2>2, <2>3 DEF TakenIn
  <2> QED
    BY <1>4, <2>3, <2>4
<1>6. Len(unpacked) = Len(file)
  BY <1>2, <1>3, <1>4, <1>5, NothingLeft
<1> QED
  BY <1>2, <1>6, SameSequence

\* What the invariant means
LEMMA ToolInvMeans == ToolInv => RoundTrip
<1> SUFFICES ASSUME ToolInv PROVE H!RoundTrip
  BY DEF RoundTrip
<1>1. step = "decode: read" /\ rest = << >> => H!Dec!FinishDone
  <2> SUFFICES ASSUME step = "decode: read" PROVE H!Dec!FinishDone
    OBVIOUS
  <2>1. Idle(hsd)
    BY WhileDecoding DEF DecSteps, DecFeed
  <2> QED
    BY <2>1 DEF Idle, H!Dec!FinishDone
<1>2. \A i \in DOMAIN unpacked : i <= Len(file) /\ unpacked[i] = file[i]
  <2>1. CASE step \in EncSteps
    BY <2>1 DEF ToolInv, Encoding
  <2>2. CASE step \in DecSteps
    <3>1. unpacked \in Seq(Int) /\ DecPolls /\ DecOk(file, hsd, packed, TakenIn, Len(GotOut))
          /\ \A i \in 1 .. Len(GotOut) : GotOut[i] = file[i]
      BY <2>2, WhileDecoding
    <3>2. PICK o \in Nat : o = Len(GotOut) /\ o <= Len(file)
      BY <3>1, DecTypes
    <3>3. ASSUME NEW i \in 1 .. Len(unpacked)
          PROVE  i \in 1 .. Len(GotOut) /\ GotOut[i] = unpacked[i]
      <4>1. CASE step = "decode: polling"
        <5>1. GotOut = unpacked \o oi.buf /\ oi.buf \in Seq(Int)
          BY <3>1, <4>1 DEF GotOut, DecPolls
        <5> QED
          BY <3>1, <5>1
      <4>2. CASE step # "decode: polling"
        BY <4>2 DEF GotOut
      <4> QED
        BY <4>1, <4>2
    <3>4. Len(file) \in Nat
      BY FileType
    <3>5. ASSUME NEW i \in 1 .. Len(unpacked) PROVE i <= Len(file) /\ unpacked[i] = file[i]
      <4>1. i \in 1 .. o /\ GotOut[i] = unpacked[i]
        BY <3>2, <3>3
      <4>2. i <= Len(file)
        BY <3>2, <3>4, <4>1
      <4> QED
        BY <3>1, <3>2, <4>1, <4>2
    <3>6. DOMAIN unpacked = 1 .. Len(unpacked)
      BY <3>1
    <3> QED
      BY <3>5, <3>6
  <2> QED
    BY <2>1, <2>2 DEF ToolInv
<1>3. step = "end" => unpacked = file
  BY AllUnpacked
<1> QED
  BY <1>1, <1>2, <1>3 DEF H!RoundTrip

\* Whatever file is packed and unpacked, in pieces of whatever sizes: decode writes
\* the file, as far as it has come and all of it at the end, and never asks a decoder
\* that is not finished for ever (heatshrink.c:225-366).
THEOREM RoundTripHolds == ToolSpec => []RoundTrip
<1>1. H!Init => ToolInv
  BY ToolInit
<1>2. ToolInv /\ [H!Next]_toolVars => ToolInv'
  <2> SUFFICES ASSUME ToolInv, [H!Next]_toolVars PROVE ToolInv'
    OBVIOUS
  <2>1. CASE H!EncRead
    BY <2>1, EncReadKept
  <2>2. CASE H!EncSink
    BY <2>2, EncSinkKept
  <2>3. CASE H!EncPoll
    BY <2>3, EncPollKept
  <2>4. CASE H!EncStep
    BY <2>4, EncPollingKept
  <2>5. CASE H!EncPolled
    BY <2>5, EncPolledKept
  <2>6. CASE H!EncFinish
    BY <2>6, EncFinishKept
  <2>7. CASE H!DecRead
    BY <2>7, DecReadKept
  <2>8. CASE H!DecSink
    BY <2>8, DecSinkKept
  <2>9. CASE H!DecPoll
    BY <2>9, DecPollKept
  <2>10. CASE H!DecStep
    BY <2>10, DecPollingKept
  <2>11. CASE H!DecPolled
    BY <2>11, DecPolledKept
  <2>12. CASE UNCHANGED toolVars
    BY <2>12 DEF toolVars, ToolInv, Encoding, Decoding, EncPolls, DecPolls, EncFeed, DecFeed,
                 PutOut, GotOut, Sunk, TakenIn
  <2> QED
    BY <2>1, <2>2, <2>3, <2>4, <2>5, <2>6, <2>7, <2>8, <2>9, <2>10, <2>11, <2>12 DEF H!Next
<1> QED
  BY <1>1, <1>2, ToolInvMeans, PTL DEF ToolSpec
=============================================================================
