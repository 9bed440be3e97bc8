------------------------------ MODULE WifiScan ------------------------------
(* The list of access points of the Wi-Fi page (libesphttpd/util/cgiwifi.c). *)
(* cgiWiFiScan is called again and again for one answer and keeps its place  *)
(* in the list, which the scan that another answer's end started replaces    *)
(* when it is done.                                                          *)
LOCAL INSTANCE Integers
LOCAL INSTANCE Sequences

CONSTANTS
  Browsers,
  Scans,        \* the lists a scan may bring
  MaxRequests   \* bound: requests of each browser

VARIABLES
  scanInProgress, apData,   \* cgiWifiAps; noAps is the length
  cgiData,    \* each request's place in the list, -1 when there is none
  answer,     \* what its answer holds so far
  alone,      \* no scan has been going on since its list began
  requests

vars == <<scanInProgress, apData, cgiData, answer, alone, requests>>

Heading(state) == [item |-> "head", of |-> state, comma |-> FALSE]
Entry(ap, comma) == [item |-> "entry", of |-> ap, comma |-> comma]
End == [item |-> "end", of |-> "", comma |-> FALSE]

Init ==
  /\ scanInProgress = FALSE /\ apData = <<>>
  /\ cgiData = [b \in Browsers |-> -1] /\ answer = [b \in Browsers |-> <<>>]
  /\ alone = [b \in Browsers |-> TRUE] /\ requests = [b \in Browsers |-> 0]

\* A browser asks; the last answer is forgotten.
Request(b) ==
  /\ cgiData[b] = -1 /\ requests[b] < MaxRequests
  /\ requests' = [requests EXCEPT ![b] = @ + 1]
  /\ cgiData' = [cgiData EXCEPT ![b] = 0] /\ answer' = [answer EXCEPT ![b] = <<>>]
  /\ alone' = [alone EXCEPT ![b] = TRUE]
  /\ UNCHANGED <<scanInProgress, apData>>
-----------------------------------------------------------------------------
\* What is sent, whether the answer is done, and whether a scan is started.
Say(items, done, starts) == [items |-> items, done |-> done, starts |-> starts]

\* The entry at a place, if the list still has one there.
At(pos) == IF pos <= Len(apData) THEN <<Entry(apData[pos], pos # Len(apData))>> ELSE <<>>

\* A mutant asks whether the next entry is the last one.
LastButOne(pos) == pos + 1 >= Len(apData)
LastOf(pos) == pos >= Len(apData)

\* cgiWiFiScan, at a place.  While a scan is going on it answers that, in the
\* middle of a list, too.
cgiWiFiScan(pos) ==
  IF ~scanInProgress /\ pos # 0
  THEN IF LastOf(pos) THEN Say(At(pos) \o <<End>>, TRUE, TRUE)
       ELSE Say(At(pos), FALSE, FALSE)
  ELSE IF scanInProgress THEN Say(<<Heading("scanning")>>, TRUE, FALSE)
       ELSE Say(<<Heading("list")>>, FALSE, FALSE)

\* wifiStartScan: every answer that has begun is in the way of the scan.
Disturbed(starts) ==
  IF starts THEN [b \in Browsers |-> alone[b] /\ cgiData[b] <= 0] ELSE alone

Call(b) ==
  /\ cgiData[b] >= 0
  /\ LET s == cgiWiFiScan(cgiData[b]) IN
     /\ answer' = [answer EXCEPT ![b] = @ \o s.items]
     /\ cgiData' = [cgiData EXCEPT ![b] = IF s.done THEN -1 ELSE @ + 1]
     /\ scanInProgress' = (scanInProgress \/ s.starts)
     /\ alone' = [Disturbed(s.starts) EXCEPT ![b] = alone[b]]
  /\ UNCHANGED <<apData, requests>>

\* The connection is gone: the CGI runs once more, to clean up, it thinks; what
\* it says is dropped, but it may start a scan.
Gone(b) ==
  /\ cgiData[b] >= 0
  /\ LET s == cgiWiFiScan(cgiData[b]) IN
     /\ scanInProgress' = (scanInProgress \/ s.starts)
     /\ alone' = Disturbed(s.starts)
  /\ cgiData' = [cgiData EXCEPT ![b] = -1] /\ answer' = [answer EXCEPT ![b] = <<>>]
  /\ UNCHANGED <<apData, requests>>

\* wifiScanDoneCb: a list, or the scan failed and the old one stays.
wifiScanDoneCb ==
  /\ scanInProgress /\ scanInProgress' = FALSE
  /\ apData' \in Scans \cup {apData}
  /\ UNCHANGED <<cgiData, answer, alone, requests>>

\* Nothing is left to happen.
AllServed ==
  ~scanInProgress /\ \A b \in Browsers : cgiData[b] = -1 /\ requests[b] = MaxRequests

Next ==
  \/ \E b \in Browsers : Request(b) \/ Call(b) \/ Gone(b)
  \/ wifiScanDoneCb
-----------------------------------------------------------------------------
Entries(list) == [i \in 1 .. Len(list) |-> Entry(list[i], i # Len(list))]

\* An answer that no other request's scan came between is the one word that a
\* scan is going on, or the last scan's list: whole, in order, with a comma
\* after every entry but the last (libesphttpd/util/cgiwifi.c:103-156).
ListIsWhole ==
  \A b \in Browsers : (cgiData[b] = -1 /\ alone[b] /\ answer[b] # <<>>) =>
    \/ answer[b] = <<Heading("scanning")>>
    \/ \E list \in Scans \cup {<<>>} : answer[b] = <<Heading("list")>> \o Entries(list) \o <<End>>
=============================================================================
