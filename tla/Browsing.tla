------------------------------ MODULE Browsing ------------------------------
(***************************************************************************)
(* What the server keeps for several browsers: the pool of connections     *)
(* (HttpdPool), the places that the answers of the Wi-Fi page have come to  *)
(* in the list of access points (WifiScan), and the fields of their forms   *)
(* (Forms).  They share no variable.                                       *)
(***************************************************************************)
EXTENDS HttpdPool, Sequences

CONSTANTS Browsers, AccessPoints, Scans, MaxRequests     \* of WifiScan
CONSTANTS Names, Values, Pairs, Rooms                    \* of Forms

ASSUME ScanAssumption == Scans \subseteq Seq(AccessPoints)

\* The firmware's names of fields are made of letters and digits.
ASSUME FormAssumption ==
  /\ Names \subseteq Seq(STRING) /\ Values \subseteq Seq(STRING)
  /\ \A name \in Names : \A i \in DOMAIN name :
       name[i] \notin {"&", "=", "%", "+", " "}
  /\ Pairs \in Nat /\ Rooms \subseteq Nat
-----------------------------------------------------------------------------
VARIABLES scanInProgress, apData, cgiData, answer, alone, requests

W == INSTANCE WifiScan

scanVars == <<scanInProgress, apData, cgiData, answer, alone, requests>>
ScanSpec == W!Init /\ [][W!Next]_scanVars
ListIsWhole == W!ListIsWhole
-----------------------------------------------------------------------------
VARIABLES form, arg, room, buff

F == INSTANCE Forms

formVars == <<form, arg, room, buff>>
FormSpec == F!Init /\ [][F!Next]_formVars

\* What a CGI finds for a name is what was typed into the first field of it.
FieldReadsBack == F!FieldReadsBack
=============================================================================
