---------------------------- MODULE FlashUpload ----------------------------
(***************************************************************************)
(* libesphttpd/util/cgiflash.c: a POST that replaces the firmware or the   *)
(* file system in flash.  The body comes in parts of the POST buffer's     *)
(* size (HttpdConn); cgiUploadFirmware's loop gathers pages, erases each   *)
(* sector as it is entered and writes a page at a time.  One action is one *)
(* turn of the loop, which nothing interrupts.                             *)
(*                                                                         *)
(* A byte of the body is its position in it; a page of flash is the        *)
(* sequence of bytes written since it was erased.  Addresses are counted   *)
(* in pages from fw1Pos.                                                   *)
(***************************************************************************)
EXTENDS Integers, Sequences

CONSTANTS PageLen,      \* PAGELEN
          SectorPages,  \* SPI_FLASH_SEC_SIZE, in pages
          FwPages,      \* def->fwSize, in pages
          Fw2Page,      \* def->fw2Pos
          FlashPages,   \* the size of the flash
          HeaderLen,    \* sizeof(OtaHeader)
          BuffLen,      \* MAX_POST
          Bodies        \* what clients post

\* kind is what the first bytes look like; len1 and len2 are the OTA header's;
\* "ours" is a matching tag, or force=1.
Body == [kind : {"ota", "image", "espfs", "other"}, len1 : Nat, len2 : Nat,
         ours : BOOLEAN, len : Nat]

\* "Assume the header of whatever we're uploading already is in the POST buffer".
ASSUME UploadAssumption ==
  /\ PageLen \in Nat \ {0} /\ SectorPages \in Nat \ {0}
  /\ FwPages \in Nat \ {0} /\ FwPages % SectorPages = 0
  /\ Fw2Page \in Nat /\ Fw2Page % SectorPages = 0 /\ Fw2Page >= FwPages
  /\ FlashPages \in Nat /\ FlashPages >= Fw2Page + 2 * FwPages
  /\ HeaderLen \in Nat \ {0} /\ BuffLen \in Nat /\ BuffLen >= HeaderLen
  /\ Bodies \subseteq Body
  /\ \A b \in Bodies : b.kind = "ota" => b.len >= HeaderLen

VARIABLES
  running,   \* the firmware that runs, 1 or 2; 0 in a build with one firmware
             \* (def->type is CGIFLASH_TYPE_ESPFS)
  st,        \* UploadState.state, "none" without one
  body,      \* the POST
  received,  \* post->received
  dataLen,   \* bytes of the POST buffer not yet looked at
  address, len, skip, pageData,   \* UploadState
  flash,     \* what this upload made of each page
  answer     \* "none", "stored" or "error"

vars == <<running, st, body, received, dataLen, address, len, skip, pageData,
          flash, answer>>

Pages == 0 .. FlashPages - 1

\* A page's content: from before this upload; erased; written over something.
Old == << -1 >>
Erased == << >>
Mixed == << -2 >>

FwSize == FwPages * PageLen

AtMost(a, b) == IF a < b THEN a ELSE b

\* The data pointer's position in the body
Position == received - dataLen

Type == IF running = 0 THEN "ESPFS" ELSE "FW"

Init ==
  /\ running \in 0 .. 2
  /\ st = "none" /\ body \in Bodies /\ received = 0 /\ dataLen = 0
  /\ address = 0 /\ len = 0 /\ skip = 0 /\ pageData = << >>
  /\ flash = [p \in Pages |-> Old] /\ answer = "none"
-----------------------------------------------------------------------------
(* The calls of the CGI.                                                   *)

\* Its first call, on the first part of a body, allocates the state.
FirstPart(b) ==
  /\ st = "none"
  /\ st' = "START" /\ body' = b
  /\ received' = AtMost(BuffLen, b.len) /\ dataLen' = received'
  /\ address' = 0 /\ len' = 0 /\ skip' = 0 /\ pageData' = << >>
  /\ flash' = [p \in Pages |-> Old] /\ answer' = "none"
  /\ UNCHANGED running

\* HTTPD_CGI_MORE was returned.
Between == st # "none" /\ dataLen = 0 /\ received < body.len

\* A further part
NextPart ==
  /\ Between
  /\ received' = AtMost(received + BuffLen, body.len)
  /\ dataLen' = received' - received
  /\ UNCHANGED <<running, st, body, address, len, skip, pageData, flash, answer>>

\* The connection ends between two parts.
Aborted ==
  /\ Between
  /\ st' = "none"
  /\ UNCHANGED <<running, body, received, dataLen, address, len, skip, pageData,
                 flash, answer>>

\* The error text is left out.
Complete == st = "DONE"

\* The response, after the last part
Respond ==
  /\ st # "none" /\ dataLen = 0 /\ received = body.len
  /\ answer' = IF Complete THEN "stored" ELSE "error"
  /\ st' = "none"
  /\ UNCHANGED <<running, body, received, dataLen, address, len, skip, pageData,
                 flash>>
-----------------------------------------------------------------------------
(* Turns of the loop.                                                      *)

Looping(state) == st = state /\ dataLen > 0

Fail ==
  /\ st' = "ERROR"
  /\ UNCHANGED <<running, body, received, dataLen, address, len, skip, pageData,
                 flash, answer>>

\* An image from the first byte on, always to fw1Pos
StartImage ==
  IF body.len > FwSize THEN Fail
  ELSE /\ len' = body.len /\ address' = 0 /\ st' = "WRITE"
       /\ UNCHANGED <<running, body, received, dataLen, skip, pageData, flash,
                      answer>>

\* dataLen -= sizeof(OtaHeader)
BehindHeader == dataLen - HeaderLen

\* Mutated form: the firmware that runs is flashed.
FlashesRunning == running = 1

\* system_upgrade_userbin_check() == 1: user1.bin is next.
FlashesFirst == running = 2

\* Both firmwares behind a header: the one that does not run is flashed.
StartOta ==
  IF ~body.ours \/ body.len > 2 * FwSize + HeaderLen THEN Fail
  ELSE /\ dataLen' = BehindHeader
       /\ IF FlashesFirst
          THEN len' = body.len1 /\ skip' = body.len2 /\ st' = "WRITE" /\ address' = 0
          ELSE len' = body.len2 /\ skip' = body.len1 /\ st' = "SKIP"
               /\ address' = Fw2Page
       /\ UNCHANGED <<running, body, received, pageData, flash, answer>>

Start ==
  /\ Looping("START")
  /\ IF Type = "FW" /\ body.kind = "ota" THEN StartOta
     ELSE IF Type = "FW" /\ body.kind = "image" THEN StartImage
     ELSE IF Type = "ESPFS" /\ body.kind = "espfs" THEN StartImage
     ELSE Fail

\* The whole part is skipped.
SkipsAll == skip > dataLen

Skip ==
  /\ Looping("SKIP")
  /\ IF SkipsAll
     THEN skip' = skip - dataLen /\ dataLen' = 0 /\ UNCHANGED st
     ELSE /\ skip' = 0 /\ dataLen' = dataLen - skip
          /\ st' = IF len # 0 THEN "WRITE" ELSE "DONE"
  /\ UNCHANGED <<running, body, received, address, len, pageData, flash, answer>>

\* lenLeft
PageLeft == AtMost(PageLen - Len(pageData), len)

\* pageData with n more bytes
Filled(n) == pageData \o [i \in 1 .. n |-> Position + i - 1]

\* The page is not full yet.
Gather ==
  /\ Looping("WRITE") /\ dataLen < PageLeft
  /\ pageData' = Filled(dataLen)
  /\ len' = len - dataLen
  /\ dataLen' = 0
  /\ UNCHANGED <<running, st, body, received, address, skip, flash, answer>>

\* Mutated form: the first sector only.
ErasesFirst == address \in {0, Fw2Page}

\* The page is the first of its sector.
AtSector == address % SectorPages = 0

\* spi_flash_erase_sector at a sector's first page
AfterErase ==
  IF AtSector
  THEN [p \in Pages |-> IF p \in address .. address + SectorPages - 1
                        THEN Erased ELSE flash[p]]
  ELSE flash

\* spi_flash_write can only clear bits.
Written(old, new) ==
  IF old = Erased THEN new ELSE IF new = << >> THEN old ELSE Mixed

\* The page is full, or the image's last.
WritePage ==
  /\ Looping("WRITE") /\ dataLen >= PageLeft
  /\ flash' = [AfterErase EXCEPT ![address] = Written(@, Filled(PageLeft))]
  /\ address' = address + 1
  /\ pageData' = << >>
  /\ dataLen' = dataLen - PageLeft
  /\ len' = len - PageLeft
  /\ st' = IF len' # 0 THEN "WRITE" ELSE IF skip # 0 THEN "SKIP" ELSE "DONE"
  /\ UNCHANGED <<running, body, received, skip, answer>>

\* Bytes behind the image, or after an error
Ignore ==
  /\ dataLen > 0 /\ st \in {"DONE", "ERROR"}
  /\ dataLen' = 0
  /\ UNCHANGED <<running, st, body, received, address, len, skip, pageData,
                 flash, answer>>

cgiUploadFirmware ==
  \/ \E b \in Bodies : FirstPart(b)
  \/ NextPart \/ Aborted \/ Respond
  \/ Start \/ Skip \/ Gather \/ WritePage \/ Ignore

\* cgiRebootFirmware's timer, whatever was uploaded: the other firmware starts.
resetTimerCb ==
  /\ Type = "FW" /\ (st = "none" \/ Between)
  /\ running' = 3 - running
  /\ st' = "none" /\ answer' = "none"
  /\ flash' = [p \in Pages |-> Old]
  /\ UNCHANGED <<body, received, dataLen, address, len, skip, pageData>>

Next == cgiUploadFirmware \/ resetTimerCb

Spec == Init /\ [][Next]_vars
-----------------------------------------------------------------------------
(* Properties.                                                             *)

TypeOK ==
  /\ running \in 0 .. 2 /\ body \in Bodies
  /\ st \in {"none", "START", "WRITE", "SKIP", "DONE", "ERROR"}
  /\ received \in 0 .. body.len /\ dataLen \in 0 .. received
  /\ len \in Nat /\ skip \in Nat
  /\ address \in Nat
  /\ pageData \in Seq(Nat)
  /\ flash \in [Pages -> Seq(Int)]
  /\ answer \in {"none", "stored", "error"}

\* What the POST asks for: where it goes, where it begins in the body, its size.
Target ==
  IF body.kind # "ota" THEN [base |-> 0, first |-> 0, size |-> body.len]
  ELSE IF running = 2
  THEN [base |-> 0, first |-> HeaderLen, size |-> body.len1]
  ELSE [base |-> Fw2Page, first |-> HeaderLen + body.len1, size |-> body.len2]

\* The bytes of the target's page k
PageOf(k) ==
  LET begin == k * PageLen
  IN  [i \in 1 .. AtMost(PageLen, Target.size - begin) |->
         Target.first + begin + i - 1]

\* "stored" means that the image is in flash, byte for byte, however the body
\* was cut into parts and whatever the flash held before.
ImageStored ==
  answer = "stored" =>
    \A k \in 0 .. FwPages - 1 :
      k * PageLen < Target.size => flash[Target.base + k] = PageOf(k)

\* A body that is what the page asks for is stored.
Acceptable ==
  IF Type = "ESPFS" THEN body.kind = "espfs" /\ body.len \in 1 .. FwSize
  ELSE \/ body.kind = "image" /\ body.len \in 1 .. FwSize
       \/ /\ body.kind = "ota" /\ body.ours
          /\ {body.len1, body.len2} \subseteq 1 .. FwSize
          /\ body.len = HeaderLen + body.len1 + body.len2

GoodIsStored == answer = "error" => ~Acceptable

RunningPages ==
  IF running = 1 THEN 0 .. FwPages - 1 ELSE Fw2Page .. Fw2Page + FwPages - 1

\* No upload touches the firmware that runs, except a single image, which is
\* written to fw1Pos even if user1 runs, and a pair one of which is larger than
\* its place (only the sum is checked).
RunningSpared ==
  Type = "FW" /\ (body.kind = "ota" => Target.size <= FwSize) =>
    \/ body.kind = "image" /\ running = 1
    \/ \A p \in RunningPages : flash[p] = Old
=============================================================================
