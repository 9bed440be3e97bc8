----------------------------- MODULE HouseProofs -----------------------------
(***************************************************************************)
(* Theorems about I2cRtc for every set of dates and every place where the   *)
(* chip may refuse, and then about the other parts of House.  One inductive *)
(* invariant carries the first ones: the busy bit says whether i2c_timer is *)
(* armed, except after a leak, when it is not.  The parts share no variable *)
(* and each has its invariant: NTP's requests, the motion sensor, the       *)
(* minute's monitor, the DHT22's frame, the search for thermometers.  The   *)
(* calendar's theorems are about its functions: what time.c's loops and     *)
(* divisions compute is shown to be a closed form, for every moment.        *)
(***************************************************************************)
EXTENDS House, FiniteSetTheorems, SequenceTheorems, TLAPS

\* A leak happens on an idle bus and keeps it idle.
LeakStopsBus == leaked => i2cTimer = "off"

Links == /\ BusyMeansTransfer
         /\ LeakStopsBus
         /\ ClockIsAlive
         /\ CallbackMatches

IInv == TypeOK /\ Links

\* A date under way is the one asked for last, or that one is waiting.
BufferIsLatest ==
  i2cTimer = "i2c_send" /\ buffer # "control" =>
    buffer = toWrite \/ timerSet = "DS1307_Set_Date"

USE ChipAssumption

\* Power-up, whether or not the chip took the first write.
LEMMA InitHolds == Init => IInv
<1> SUFFICES ASSUME Init PROVE IInv
  OBVIOUS
<1>1. /\ busy \in BOOLEAN /\ timerRead \in BOOLEAN
      /\ refused \subseteq {"last", "earlier"} /\ leaked \in BOOLEAN
  BY Zenon DEF Init
<1>2. QED
  BY <1>1 DEF Init, IInv, Links, TypeOK, BusyMeansTransfer, LeakStopsBus,
       ClockIsAlive, CallbackMatches, Callbacks, Contents

\* Every step keeps the types.
LEMMA TypeStep == TypeOK /\ [Next]_vars => TypeOK'
<1> SUFFICES ASSUME TypeOK, [Next]_vars PROVE TypeOK'
  OBVIOUS
<1> USE DEF TypeOK, Callbacks, Contents, bus
<1>1. CASE InitAgain
  BY <1>1 DEF InitAgain, WriteStarted, WriteRefused
<1>2. CASE DS1307_Read
  <2>1. timerRead' \in BOOLEAN
    BY <1>2, Zenon DEF DS1307_Read
  <2>2. QED
    BY <1>2, <2>1 DEF DS1307_Read, ReadStarted, ReadRefused, ReadNack
<1>3. CASE DS1307_Set_Date
  <2>1. timerRead' \in BOOLEAN
    BY <1>3, Zenon DEF DS1307_Set_Date, SetDate
  <2>2. QED
    BY <1>3, <2>1
    DEF DS1307_Set_Date, SetDate, SetLater, WriteStarted, WriteRefused
<1>4. ASSUME NEW date \in Dates, Ask(date) PROVE TypeOK'
  <2>1. timerRead' \in BOOLEAN
    BY <1>4, Zenon DEF Ask, SetDate
  <2>2. QED
    BY <1>4, <2>1 DEF Ask, SetDate, SetLater, WriteStarted, WriteRefused
<1>5. CASE SendAcked
  <2>1. busy' \in BOOLEAN
    BY <1>5, Zenon DEF SendAcked, WriteDone
  <2>2. QED
    BY <1>5, <2>1 DEF SendAcked, WriteDone, ArmRead, Registers
<1>6. CASE SendNacked
  <2>1. busy' \in BOOLEAN
    BY <1>6, Zenon DEF SendNacked, WriteDone
  <2>2. QED
    BY <1>6, <2>1 DEF SendNacked, WriteDone, ArmRead
<1>7. CASE i2c_recive
  <2>1. busy' \in BOOLEAN
    BY <1>7, Zenon DEF i2c_recive
  <2>2. QED
    BY <1>7, <2>1 DEF i2c_recive, ArmRead
<1>8. CASE UNCHANGED vars
  BY <1>8 DEF vars, rtc
<1>9. QED
  BY <1>1, <1>2, <1>3, <1>4, <1>5, <1>6, <1>7, <1>8 DEF Next

\* Every step keeps the rest of the invariant.
LEMMA LinksStep == IInv /\ [Next]_vars => Links'
<1> SUFFICES ASSUME IInv, [Next]_vars PROVE Links'
  OBVIOUS
<1>0. /\ Links
      /\ busy \in BOOLEAN /\ timerRead \in BOOLEAN /\ leaked \in BOOLEAN
      /\ toWrite # "control"
      /\ busy' \in BOOLEAN /\ timerRead' \in BOOLEAN /\ leaked' \in BOOLEAN
  BY TypeStep DEF IInv, TypeOK
<1> USE DEF Links, BusyMeansTransfer, LeakStopsBus, ClockIsAlive, CallbackMatches, bus
<1>1. CASE InitAgain
  BY <1>0, <1>1 DEF InitAgain, WriteStarted, WriteRefused, BusFree
<1>2. CASE DS1307_Read
  <2>1. CASE ReadStarted("DS1307_Readed")
    BY <1>0, <2>1 DEF ReadStarted, BusFree
  <2>2. CASE ReadRefused("DS1307_Readed") /\ timerRead' /\ timerSet' = timerSet
    <3>1. CASE busy
      BY <1>0, <2>2, <3>1 DEF ReadRefused, BusFree
    <3>2. CASE ~busy
      <4>1. i2cTimer = "off" /\ i2cTimer' = "off" /\ busy' /\ leaked'
        BY <1>0, <2>2, <3>2 DEF ReadRefused, ReadNack, BusFree
      <4>2. QED
        BY <2>2, <4>1
    <3>3. QED
      BY <3>1, <3>2
  <2>3. QED
    BY <1>2, <2>1, <2>2 DEF DS1307_Read
<1>3. CASE DS1307_Set_Date
  <2>1. CASE WriteStarted(toWrite, "DS1307_Date_Set") /\ leaked' = leaked
    BY <1>0, <2>1 DEF WriteStarted, BusFree
  <2>2. CASE /\ WriteRefused(toWrite, "DS1307_Date_Set")
             /\ SetLater /\ leaked' = leaked
    BY <1>0, <2>2 DEF WriteRefused, SetLater, BusFree
  <2>3. QED
    BY <1>3, <2>1, <2>2 DEF DS1307_Set_Date, SetDate
<1>4. ASSUME NEW date \in Dates, Ask(date) PROVE Links'
  BY <1>0, <1>4
  DEF Ask, SetDate, SetLater, WriteStarted, WriteRefused, BusFree
<1>5. CASE SendAcked
  BY <1>0, <1>5 DEF SendAcked, WriteDone, ArmRead
<1>6. CASE SendNacked
  BY <1>0, <1>6 DEF SendNacked, WriteDone, ArmRead
<1>7. CASE i2c_recive
  BY <1>0, <1>7 DEF i2c_recive, ArmRead
<1>8. CASE UNCHANGED vars
  BY <1>0, <1>8 DEF vars, rtc
<1>9. QED
  BY <1>0, <1>1, <1>2, <1>3, <1>4, <1>5, <1>6, <1>7, <1>8 DEF Next

\* The invariant holds throughout.
LEMMA Invariance == Spec => []IInv
<1>1. IInv /\ [Next]_vars => IInv'
  BY TypeStep, LinksStep DEF IInv
<1>2. QED
  BY InitHolds, <1>1, PTL DEF Spec

\* Every variable of the bus and the clock keeps its type.
THEOREM TypeCorrect == Spec => []TypeOK
<1>1. IInv => TypeOK
  BY DEF IInv
<1>2. QED
  BY Invariance, <1>1, PTL

\* Some timer of the bus or the clock is always armed.
THEOREM ClockStaysAlive == Spec => []ClockIsAlive
<1>1. IInv => ClockIsAlive
  BY DEF IInv, Links
<1>2. QED
  BY Invariance, <1>1, PTL

\* The data phase ends in the callback of the transfer it belongs to.
THEOREM CallbacksMatch == Spec => []CallbackMatches
<1>1. IInv => CallbackMatches
  BY DEF IInv, Links
<1>2. QED
  BY Invariance, <1>1, PTL

\* A busy bus without a transfer is the work of a refused read.
THEOREM BusyExplained == Spec => []BusyMeansTransfer
<1>1. IInv => BusyMeansTransfer
  BY DEF IInv, Links
<1>2. QED
  BY Invariance, <1>1, PTL

\* After a refused read no transfer is ever started again.
THEOREM LeakLasts == Spec => LeakIsForever
<1>1. IInv /\ [Next]_vars => [leaked => UNCHANGED <<i2cTimer, chip, shown>>]_vars
  <2> SUFFICES ASSUME IInv, leaked, [Next]_vars
               PROVE  UNCHANGED <<i2cTimer, chip, shown>>
    OBVIOUS
  <2>1. busy /\ i2cTimer = "off"
    BY DEF IInv, Links, BusyMeansTransfer, LeakStopsBus
  <2>2. CASE Next
    BY <2>1, <2>2
    DEF Next, InitAgain, DS1307_Read, DS1307_Set_Date, Ask, SetDate,
        WriteStarted, WriteRefused, ReadStarted, ReadRefused, BusFree,
        SendAcked, SendNacked, i2c_recive, bus
  <2>3. CASE UNCHANGED vars
    BY <2>3 DEF vars, bus, rtc
  <2>4. QED
    BY <2>2, <2>3
<1>2. QED
  BY Invariance, <1>1, PTL DEF Spec, LeakIsForever

\* Until a data byte is refused, the date asked for last is on the chip, under
\* way or retried, whatever the busy bus and the read timer do in between.
THEOREM DatesArrive ==
  Spec => []DateNotForgotten
<1> DEFINE Dated == DateNotForgotten /\ BufferIsLatest
<1>1. Init => Dated
  BY DEF Init, DateNotForgotten, BufferIsLatest
<1>2. IInv /\ Dated /\ [Next]_vars => Dated'
  <2> SUFFICES ASSUME IInv, Dated, [Next]_vars
               PROVE  Dated'
    OBVIOUS
  <2>0. /\ i2cTimer = "i2c_send" => busy
        /\ toWrite \in Dates \cup {Power}
    BY DEF IInv, Links, BusyMeansTransfer, TypeOK
  <2> USE DEF DateNotForgotten, BufferIsLatest, bus
  <2>1. CASE InitAgain
    BY <2>0, <2>1 DEF InitAgain, WriteStarted, WriteRefused, BusFree
  <2>2. CASE DS1307_Read
    BY <2>0, <2>2 DEF DS1307_Read, ReadStarted, ReadRefused, BusFree
  <2>3. CASE DS1307_Set_Date
    BY <2>0, <2>3
    DEF DS1307_Set_Date, SetDate, SetLater, WriteStarted, WriteRefused
  <2>4. ASSUME NEW date \in Dates, Ask(date) PROVE Dated'
    BY <2>0, <2>4 DEF Ask, SetDate, SetLater, WriteStarted, WriteRefused
  <2>5. CASE SendAcked
    BY <2>0, <2>5 DEF SendAcked, Registers
  <2>6. CASE SendNacked
    BY <2>6 DEF SendNacked
  <2>7. CASE i2c_recive
    BY <2>0, <2>7 DEF i2c_recive
  <2>8. CASE UNCHANGED vars
    BY <2>0, <2>8 DEF vars, rtc
  <2>9. QED
    BY <2>1, <2>2, <2>3, <2>4, <2>5, <2>6, <2>7, <2>8 DEF Next
<1>3. QED
  BY Invariance, <1>1, <1>2, PTL DEF Spec
-----------------------------------------------------------------------------
(* Pir.                                                                    *)

\* What the task saw of a pin that is low is old if the pin is high.
WatchInv ==
  /\ MotionIsWatched
  /\ saw = "still" /\ pin = 1 => rose \/ armed
  /\ rose \in BOOLEAN /\ armed \in BOOLEAN

\* However the interrupt meets the timer's task, a motion or its flag never stands
\* without something that will look at the pin again.
THEOREM MotionStaysWatched == MotionSpec => []MotionIsWatched
<1> USE DEF MotionIsWatched, P!MotionIsWatched, WatchInv
<1>1. P!Init => WatchInv
  <2> SUFFICES ASSUME P!Init PROVE WatchInv
    OBVIOUS
  <2>1. rose \in BOOLEAN /\ armed \in BOOLEAN
    BY Zenon DEF P!Init
  <2> QED
    BY <2>1 DEF P!Init
<1>2. WatchInv /\ [P!Next]_pirVars => WatchInv'
  <2> SUFFICES ASSUME WatchInv, [P!Next]_pirVars PROVE WatchInv'
    OBVIOUS
  <2>1. CASE P!Rise
    BY <2>1 DEF P!Rise
  <2>2. CASE P!Fall
    BY <2>2 DEF P!Fall
  <2>3. CASE P!intr_callback
    BY <2>3 DEF P!intr_callback
  <2>4. CASE P!PIR_movement_timer_check
    BY <2>4 DEF P!PIR_movement_timer_check
  <2>5. CASE P!CheckDone
    BY <2>5 DEF P!CheckDone, P!Extend, P!Clear
  <2>6. CASE UNCHANGED pirVars
    BY <2>6 DEF pirVars
  <2>7. QED
    BY <2>1, <2>2, <2>3, <2>4, <2>5, <2>6 DEF P!Next
<1>3. QED
  BY <1>1, <1>2, PTL DEF MotionSpec
-----------------------------------------------------------------------------
(* Ntp.                                                                    *)

RequestInv ==
  /\ RequestIsTimed
  /\ pCon \in Nat /\ ntp_timeout \in BOOLEAN

\* What FiniteSets calls Cardinality, seen from here and from Ntp
LEMMA SameCardinality ==
  ASSUME NEW S
  PROVE  N!Cardinality(S) = Cardinality(S)
  BY DEF N!Cardinality, Cardinality

\* The heap gives as many connections as it has.
LEMMA NewConnections ==
  ASSUME NEW n \in {1, 2}, Cardinality(Connections \ N!Used) >= n
  PROVE  /\ N!New(n) \subseteq Connections \ N!Used
         /\ Cardinality(N!New(n)) = n
<1> DEFINE F == Connections \ N!Used
<1>1. IsFiniteSet(F) /\ Cardinality(F) \in Nat
  <2>1. IsFiniteSet(F)
    BY ConnectionAssumption, FS_Difference
  <2> QED
    BY <2>1, FS_CardinalityType
<1>2. PICK x \in F : TRUE
  <2>1. F # {}
    <3> SUFFICES ASSUME F = {} PROVE FALSE
      OBVIOUS
    <3>1. Cardinality(F) = 0
      BY FS_EmptySet
    <3> QED
      BY <3>1
  <2> QED
    BY <2>1
<1>3. \E s \in SUBSET F : Cardinality(s) = n
  <2>1. CASE n = 1
    <3>1. Cardinality({x}) = 1
      BY FS_Singleton
    <3> QED
      BY <1>2, <2>1, <3>1
  <2>2. CASE n = 2
    <3>1. IsFiniteSet(F \ {x}) /\ Cardinality(F \ {x}) = Cardinality(F) - 1
      BY <1>1, <1>2, FS_RemoveElement
    <3>2. F \ {x} # {}
      <4> SUFFICES ASSUME F \ {x} = {} PROVE FALSE
        OBVIOUS
      <4>1. Cardinality(F \ {x}) = 0
        BY FS_EmptySet
      <4> QED
        BY <1>1, <2>2, <3>1, <4>1
    <3>3. PICK y \in F \ {x} : TRUE
      BY <3>2
    <3>4. IsFiniteSet({x}) /\ Cardinality({x}) = 1
      BY FS_Singleton
    <3>5. Cardinality({x} \cup {y}) = 2
      <4>1. y \notin {x}
        BY <3>3
      <4>2. Cardinality({x} \cup {y}) = Cardinality({x}) + 1
        BY <3>4, <4>1, FS_AddElement
      <4> QED
        BY <3>4, <4>2
    <3> QED
      BY <1>2, <2>2, <3>3, <3>5
  <2> QED
    BY <2>1, <2>2
<1> QED
  BY <1>3, SameCardinality DEF N!New

\* A request leaves its connection in pCon, with the timer running.
LEMMA RequestTimes ==
  ASSUME NEW n \in {1, 2}, NEW server, N!ntp_get_time(n, server)
  PROVE  RequestInv'
<1>1. pCon' \in N!New(n) /\ N!New(n) \subseteq Connections
  BY NewConnections, SameCardinality DEF N!ntp_get_time
<1>2. pCon' \in Nat \ {0}
  BY <1>1, ConnectionAssumption
<1>3. [id |-> pCon', server |-> server] \in live'
  BY <1>1 DEF N!ntp_get_time
<1>4. pCon' \in N!Used'
  BY <1>3 DEF N!Used
<1> QED
  BY <1>2, <1>4 DEF RequestInv, RequestIsTimed, N!RequestIsTimed, N!ntp_get_time

\* However requests overtake each other and whatever is answered, pCon is a
\* connection that is still there, or none, and the timer runs exactly while it is
\* one: it is freed once, and at last.
THEOREM RequestsAreTimed == RequestsSpec => []RequestIsTimed
<1>1. N!Init => RequestInv
  <2> SUFFICES ASSUME N!Init PROVE RequestInv
    OBVIOUS
  <2>1. ntp_timeout \in BOOLEAN /\ ~ntp_timeout
    BY Zenon DEF N!Init
  <2> QED
    BY <2>1 DEF N!Init, RequestInv, RequestIsTimed, N!RequestIsTimed
<1>2. RequestInv /\ [N!Next]_ntpVars => RequestInv'
  <2> SUFFICES ASSUME RequestInv, [N!Next]_ntpVars PROVE RequestInv'
    OBVIOUS
  <2>1. CASE N!AskedByMqtt
    BY <2>1, RequestTimes DEF N!AskedByMqtt
  <2>2. CASE N!cgi_apply_ntp
    BY <2>2, RequestTimes DEF N!cgi_apply_ntp
  <2>3. CASE N!ntpDNSfound
    BY <2>3, RequestTimes DEF N!ntpDNSfound
  <2>4. CASE N!cgi_set_ntp \/ UNCHANGED ntpVars
    <3>1. UNCHANGED <<pCon, live, ntp_timeout>>
      BY <2>4 DEF N!cgi_set_ntp, ntpVars
    <3> QED
      BY <3>1 DEF RequestInv, RequestIsTimed, N!RequestIsTimed, N!Used
  <2>5. CASE N!ntp_udp_recv \/ N!ntp_udp_timeout
    <3>1. pCon' = 0 /\ ntp_timeout' = FALSE
      BY <2>5 DEF N!ntp_udp_recv, N!ntp_udp_timeout, N!Delete, N!DisarmTimeout
    <3> QED
      BY <3>1 DEF RequestInv, RequestIsTimed, N!RequestIsTimed
  <2>6. QED
    BY <2>1, <2>2, <2>3, <2>4, <2>5 DEF N!Next
<1>3. RequestInv => RequestIsTimed
  BY DEF RequestInv
<1>4. QED
  BY <1>1, <1>2, <1>3, PTL DEF RequestsSpec
-----------------------------------------------------------------------------
(* Monitor: the fan.                                                       *)

Left == asked.minutes * Minute - (uptime - asked.at)

FanInv ==
  /\ uptime \in Nat /\ tempOn_time \in 0 .. 2 /\ fan \in Nat
  /\ asked.minutes \in 0 .. 2 /\ asked.at \in Nat /\ asked.at <= uptime
  /\ fan = IF Left > 0 THEN Left ELSE 0
  /\ page.fresh => page.on = (fan # 0) /\ (page.on => page.fan = fan)

\* The page shows the fan on exactly for the minutes of the last request, with the
\* seconds that are left, for every length of a minute.
THEOREM FanIsShown == MonitorSpec => []FanShown
<1> USE TimeAssumption
<1>1. M!Init => FanInv
  <2> SUFFICES ASSUME M!Init PROVE FanInv
    OBVIOUS
  <2>1. asked.minutes = 0 /\ asked.at = 0 /\ uptime = 0 /\ fan = 0 /\ tempOn_time \in 0 .. 2
    BY DEF M!Init, M!Never
  <2>2. ~page.fresh
    BY DEF M!Init, M!NoPage
  <2>3. Left = 0
    BY <2>1 DEF Left
  <2> QED
    BY <2>1, <2>2, <2>3 DEF FanInv
<1>2. FanInv /\ [M!Next]_monitorVars => FanInv'
  <2> SUFFICES ASSUME FanInv, [M!Next]_monitorVars PROVE FanInv'
    OBVIOUS
  <2>0. \A n \in 0 .. 2 : n * Minute \in Nat
    OBVIOUS
  <2>1. CASE /\ UNCHANGED <<fan, tempOn_time, asked, uptime>>
             /\ page'.fresh => page'.on = (fan # 0) /\ (page'.on => page'.fan = fan)
    BY <2>1 DEF FanInv, Left
  <2>2. M!NoPage.fresh = FALSE
    BY DEF M!NoPage
  <2>3. ASSUME NEW sec \in PolledSeconds, M!circular_timer_proc(sec) PROVE FanInv'
    <3>1. /\ uptime' = uptime + 1 /\ fan' = (IF fan # 0 THEN fan - 1 ELSE 0)
          /\ page' = M!NoPage /\ UNCHANGED <<tempOn_time, asked>>
      BY <2>3 DEF M!circular_timer_proc, M!CountDown
    <3> DEFINE m == asked.minutes * Minute
    <3>2. m \in Nat /\ Left = m - (uptime - asked.at) /\ Left' = m - (uptime' - asked.at)
      BY <2>0, <3>1 DEF FanInv, Left
    <3> HIDE DEF m
    <3>3. fan' \in Nat /\ fan' = IF Left' > 0 THEN Left' ELSE 0
      BY <3>1, <3>2 DEF FanInv
    <3> QED
      BY <2>2, <3>1, <3>3 DEF FanInv
  <2>4. ASSUME NEW slider2 \in {"true", "false", "none"}, M!cgi_index(slider2) PROVE FanInv'
    <3>1. page' = M!NoPage /\ UNCHANGED <<tempOn_time, uptime>>
      BY <2>4 DEF M!cgi_index
    <3>2. CASE slider2 = "none"
      <4>1. fan' = fan /\ asked' = asked
        BY <2>4, <3>2 DEF M!cgi_index
      <4> QED
        BY <2>1, <2>2, <3>1, <4>1
    <3>3. CASE slider2 = "false"
      <4>1. fan' = 0 /\ asked'.minutes = 0 /\ asked'.at = uptime
        BY <2>4, <3>3 DEF M!cgi_index
      <4>2. Left' = 0
        BY <3>1, <4>1 DEF Left, FanInv
      <4> QED
        BY <2>2, <3>1, <4>1, <4>2 DEF FanInv
    <3>4. CASE slider2 = "true"
      <4> DEFINE m == tempOn_time * Minute
      <4>1. fan' = m /\ asked'.minutes = tempOn_time /\ asked'.at = uptime
        BY <2>4, <3>4 DEF M!cgi_index
      <4>2. m \in Nat
        BY <2>0 DEF FanInv
      <4>3. Left' = m - (uptime - uptime)
        BY <3>1, <4>1 DEF Left
      <4> HIDE DEF m
      <4>4. Left' = m
        BY <4>2, <4>3 DEF FanInv
      <4> QED
        BY <2>2, <3>1, <4>1, <4>2, <4>4 DEF FanInv
    <3> QED
      BY <3>2, <3>3, <3>4
  <2>5. CASE M!cgi_index_get_data
    <3>0. PICK t, h : page' = [t |-> t, h |-> h, on |-> fan # 0,
                               fan |-> IF fan = 0 THEN tempOn_time ELSE fan, fresh |-> TRUE]
      BY <2>5 DEF M!cgi_index_get_data
    <3>1. page'.on = (fan # 0) /\ (page'.on => page'.fan = fan)
      <4>1. page'.on = (fan # 0)
        BY <3>0, Zenon
      <4>2. page'.fan = IF fan = 0 THEN tempOn_time ELSE fan
        BY <3>0
      <4> QED
        BY <4>1, <4>2
    <3> QED
      BY <2>1, <2>5, <3>1 DEF M!cgi_index_get_data
  <2>6. CASE M!Session
    BY <2>1, <2>2, <2>6 DEF M!Session
  <2>7. CASE UNCHANGED monitorVars
    BY <2>1, <2>7 DEF monitorVars, FanInv
  <2>8. QED
    BY <2>3, <2>4, <2>5, <2>6, <2>7 DEF M!Next
<1>3. FanInv => FanShown
  <2> SUFFICES ASSUME FanInv, page.fresh
               PROVE  page.on = (Left > 0) /\ (page.on => page.fan = Left)
    BY DEF FanShown, M!FanShown, Left
  <2>1. page.on = (fan # 0) /\ (page.on => page.fan = fan)
    BY DEF FanInv
  <2>2. Left \in Int /\ ((fan # 0) = (Left > 0)) /\ (fan # 0 => fan = Left)
    <3>1. asked.minutes * Minute \in Nat
      BY DEF FanInv
    <3>2. Left \in Int
      BY <3>1 DEF Left, FanInv
    <3> QED
      BY <3>2 DEF FanInv
  <2> QED
    BY <2>1, <2>2, Zenon
<1>4. QED
  BY <1>1, <1>2, <1>3, PTL DEF MonitorSpec
-----------------------------------------------------------------------------
(* Monitor: the readings.                                                  *)

Bit == {0, 1}

\* The number of eight bits, written out
Eight(s, k) ==
  128 * s[k + 1] + 64 * s[k + 2] + 32 * s[k + 3] + 16 * s[k + 4]
  + 8 * s[k + 5] + 4 * s[k + 6] + 2 * s[k + 7] + s[k + 8]

LEMMA NumberOfEight ==
  ASSUME NEW s, Len(s) = 8, \A i \in 1 .. 8 : s[i] \in Int
  PROVE  M!Number(s) = Eight(s, 0)
<1>0. \A i \in 1 .. 8 : s[i] \in Int
  OBVIOUS
<1> DEFINE Rec(f) == f = [i \in 0 .. 8 |-> IF i = 0 THEN 0 ELSE 2 * f[i - 1] + s[i]]
           v == CHOOSE f : Rec(f)
<1>1. M!Number(s) = v[8]
  BY DEF M!Number
<1>2. \E f : Rec(f)
  <2> DEFINE w1 == s[1]
             w2 == 2 * w1 + s[2]
             w3 == 2 * w2 + s[3]
             w4 == 2 * w3 + s[4]
             w5 == 2 * w4 + s[5]
             w6 == 2 * w5 + s[6]
             w7 == 2 * w6 + s[7]
             w8 == 2 * w7 + s[8]
             w == [i \in 0 .. 8 |-> CASE i = 0 -> 0 [] i = 1 -> w1 [] i = 2 -> w2
                                      [] i = 3 -> w3 [] i = 4 -> w4 [] i = 5 -> w5
                                      [] i = 6 -> w6 [] i = 7 -> w7 [] i = 8 -> w8]
  <2>1. w1 = 2 * 0 + s[1]
    BY <1>0
  <2>2. /\ w2 = 2 * w1 + s[2] /\ w3 = 2 * w2 + s[3] /\ w4 = 2 * w3 + s[4]
        /\ w5 = 2 * w4 + s[5] /\ w6 = 2 * w5 + s[6] /\ w7 = 2 * w6 + s[7] /\ w8 = 2 * w7 + s[8]
    OBVIOUS
  <2> HIDE DEF w1, w2, w3, w4, w5, w6, w7, w8
  <2>3. ASSUME NEW i \in 0 .. 8
        PROVE  w[i] = IF i = 0 THEN 0 ELSE 2 * w[i - 1] + s[i]
    <3>1. i \in {0, 1, 2, 3, 4, 5, 6, 7, 8}
      OBVIOUS
    <3> QED
      BY <2>1, <2>2, <3>1
  <2>4. Rec(w)
    <3>1. w = [i \in 0 .. 8 |-> w[i]]
      OBVIOUS
    <3> HIDE DEF w
    <3> QED
      BY <2>3, <3>1
  <2> QED
    BY <2>4
<1>3. Rec(v)
  BY <1>2
<1> HIDE DEF v
<1>4. /\ v[0] = 0 /\ v[1] = 2 * v[0] + s[1] /\ v[2] = 2 * v[1] + s[2] /\ v[3] = 2 * v[2] + s[3]
      /\ v[4] = 2 * v[3] + s[4] /\ v[5] = 2 * v[4] + s[5] /\ v[6] = 2 * v[5] + s[6]
      /\ v[7] = 2 * v[6] + s[7] /\ v[8] = 2 * v[7] + s[8]
  BY <1>3
<1> HIDE DEF Rec
<1>5. /\ s[1] \in Int /\ s[2] \in Int /\ s[3] \in Int /\ s[4] \in Int
      /\ s[5] \in Int /\ s[6] \in Int /\ s[7] \in Int /\ s[8] \in Int
  BY <1>0
<1> HIDE DEF v
<1>6. v[4] = 8 * s[1] + 4 * s[2] + 2 * s[3] + s[4]
  <2>1. v[1] = s[1] /\ v[2] = 2 * s[1] + s[2]
    BY <1>4, <1>5
  <2> QED
    BY <1>4, <1>5, <2>1
<1>8. v[8] = 128 * s[1] + 64 * s[2] + 32 * s[3] + 16 * s[4] + 8 * s[5] + 4 * s[6] + 2 * s[7] + s[8]
  <2>1. v[6] = 32 * s[1] + 16 * s[2] + 8 * s[3] + 4 * s[4] + 2 * s[5] + s[6]
    BY <1>4, <1>5, <1>6
  <2> QED
    BY <1>4, <1>5, <2>1
<1>7. Eight(s, 0) = 128 * s[1] + 64 * s[2] + 32 * s[3] + 16 * s[4] + 8 * s[5] + 4 * s[6] + 2 * s[7] + s[8]
  BY DEF Eight
<1> QED
  BY <1>1, <1>8, <1>7

\* A byte is the number of its bits
LEMMA BitsOfByte ==
  ASSUME NEW b \in Nat, b < 256
  PROVE  /\ Len(M!ByteBits(b)) = 8 /\ DOMAIN M!ByteBits(b) = 1 .. 8
         /\ M!ByteBits(b) \in Seq(Int)
         /\ \A i \in 1 .. 8 : M!ByteBits(b)[i] \in Bit
         /\ Eight(M!ByteBits(b), 0) = b
<1> DEFINE s == M!ByteBits(b)
<1>0. s = [i \in 1 .. 8 |-> (b \div 2 ^ (8 - i)) % 2]
  BY DEF M!ByteBits
<1>1. \A i \in 1 .. 8 : s[i] = (b \div 2 ^ (8 - i)) % 2
  BY <1>0
<1>p. /\ 2 ^ 0 = 1 /\ 2 ^ 1 = 2 /\ 2 ^ 2 = 4 /\ 2 ^ 3 = 8
      /\ 2 ^ 4 = 16 /\ 2 ^ 5 = 32 /\ 2 ^ 6 = 64 /\ 2 ^ 7 = 128
  OBVIOUS
<1> HIDE DEF s
<1>2. /\ s[1] = (b \div 128) % 2 /\ s[2] = (b \div 64) % 2 /\ s[3] = (b \div 32) % 2
      /\ s[4] = (b \div 16) % 2
  <2>1. s[1] = (b \div 2 ^ 7) % 2 /\ s[2] = (b \div 2 ^ 6) % 2
    BY <1>1
  <2>2. s[3] = (b \div 2 ^ 5) % 2 /\ s[4] = (b \div 2 ^ 4) % 2
    BY <1>1
  <2> QED
    BY <2>1, <2>2, <1>p
<1>3. /\ s[5] = (b \div 8) % 2 /\ s[6] = (b \div 4) % 2 /\ s[7] = (b \div 2) % 2
      /\ s[8] = b % 2
  <2>1. s[5] = (b \div 2 ^ 3) % 2 /\ s[6] = (b \div 2 ^ 2) % 2
    BY <1>1
  <2>2. s[7] = (b \div 2 ^ 1) % 2 /\ s[8] = (b \div 2 ^ 0) % 2
    BY <1>1
  <2> QED
    BY <2>1, <2>2, <1>p
<1>4. \A i \in 1 .. 8 : s[i] \in Bit
  <2>1. SUFFICES ASSUME NEW i \in 1 .. 8 PROVE s[i] \in Bit
    OBVIOUS
  <2>2. i \in {1, 2, 3, 4, 5, 6, 7, 8}
    OBVIOUS
  <2> QED
    BY <1>2, <1>3, <2>2 DEF Bit
<1>5. Eight(s, 0) = b
  <2>4. b = 2 * (b \div 2) + s[8] /\ b \div 2 = 2 * (b \div 4) + s[7]
    BY <1>3
  <2>5. b \div 4 = 2 * (b \div 8) + s[6] /\ b \div 8 = 2 * (b \div 16) + s[5]
    BY <1>3
  <2>6. b \div 16 = 2 * (b \div 32) + s[4] /\ b \div 32 = 2 * (b \div 64) + s[3]
    BY <1>2
  <2>7. b \div 64 = 2 * (b \div 128) + s[2] /\ b \div 128 = s[1]
    BY <1>2
  <2>3. /\ s[1] \in Int /\ s[2] \in Int /\ s[3] \in Int /\ s[4] \in Int
        /\ s[5] \in Int /\ s[6] \in Int /\ s[7] \in Int /\ s[8] \in Int
    BY <1>2, <1>3
  <2>1. b \div 16 = 8 * s[1] + 4 * s[2] + 2 * s[3] + s[4]
    <3> DEFINE p == b \div 64
               q == b \div 32
    <3>1. p = 2 * s[1] + s[2]
      BY <2>7
    <3>2. q = 2 * p + s[3] /\ b \div 16 = 2 * q + s[4]
      BY <2>6
    <3> HIDE DEF p, q
    <3>3. q = 4 * s[1] + 2 * s[2] + s[3]
      BY <2>3, <3>1, <3>2
    <3> QED
      BY <2>3, <3>2, <3>3
  <2>2. b = 16 * (b \div 16) + 8 * s[5] + 4 * s[6] + 2 * s[7] + s[8]
    <3> DEFINE p == b \div 16
               q == b \div 8
               o == b \div 4
               n == b \div 2
    <3>1. q = 2 * p + s[5] /\ o = 2 * q + s[6] /\ p \in Int
      BY <2>5
    <3>2. n = 2 * o + s[7] /\ b = 2 * n + s[8]
      BY <2>4
    <3> HIDE DEF p, q, o, n
    <3>3. o = 4 * p + 2 * s[5] + s[6]
      BY <2>3, <3>1
    <3>4. n = 8 * p + 4 * s[5] + 2 * s[6] + s[7]
      BY <2>3, <3>1, <3>2, <3>3
    <3>5. b = 16 * p + 8 * s[5] + 4 * s[6] + 2 * s[7] + s[8]
      BY <2>3, <3>1, <3>2, <3>4
    <3> QED
      BY <3>5 DEF p
  <2>8. Eight(s, 0) = 128 * s[1] + 64 * s[2] + 32 * s[3] + 16 * s[4]
                      + 8 * s[5] + 4 * s[6] + 2 * s[7] + s[8]
    BY DEF Eight
  <2> QED
    BY <2>1, <2>2, <2>3, <2>8
<1>6. Len(s) = 8 /\ DOMAIN s = 1 .. 8 /\ s \in Seq(Int)
  BY <1>0
<1> QED
  BY <1>4, <1>5, <1>6 DEF s

\* Eight bits behind the m-th
LEMMA EightOf ==
  ASSUME NEW bits \in Seq(Int), NEW m \in Nat, m + 8 <= Len(bits),
         NEW s, s = SubSeq(bits, m + 1, m + 8)
  PROVE  Len(s) = 8 /\ \A i \in 1 .. 8 : s[i] = bits[m + i] /\ s[i] \in Int
<1>1. Len(s) = 8
  OBVIOUS
<1>2. ASSUME NEW i \in 1 .. 8 PROVE s[i] = bits[m + i] /\ s[i] \in Int
  <2>1. s[i] = bits[m + i]
    BY <1>2
  <2>2. m + i \in 1 .. Len(bits)
    BY <1>2
  <2> QED
    BY <2>1, <2>2
<1> QED
  BY <1>1, <1>2

\* A byte of what arrived
LEMMA DataOf ==
  ASSUME NEW bits \in Seq(Int), NEW k \in Nat, 8 * k + 8 <= Len(bits)
  PROVE  M!Data(bits, k) = Eight(bits, 8 * k)
<1> DEFINE s == SubSeq(bits, 8 * k + 1, 8 * k + 8)
<1>1. M!Data(bits, k) = M!Number(s)
  BY DEF M!Data
<1>2. Len(s) = 8 /\ \A i \in 1 .. 8 : s[i] = bits[8 * k + i] /\ s[i] \in Int
  <2>1. 8 * k \in Nat /\ s = SubSeq(bits, 8 * k + 1, 8 * k + 8)
    OBVIOUS
  <2> HIDE DEF s
  <2> QED
    BY <2>1, EightOf
<1> HIDE DEF s
<1>3. M!Number(s) = Eight(s, 0)
  BY <1>2, NumberOfEight
<1>4. /\ s[1] = bits[8 * k + 1] /\ s[2] = bits[8 * k + 2] /\ s[3] = bits[8 * k + 3]
      /\ s[4] = bits[8 * k + 4] /\ s[5] = bits[8 * k + 5] /\ s[6] = bits[8 * k + 6]
      /\ s[7] = bits[8 * k + 7] /\ s[8] = bits[8 * k + 8]
  BY <1>2
<1>5. Eight(s, 0) = 128 * s[1] + 64 * s[2] + 32 * s[3] + 16 * s[4]
                    + 8 * s[5] + 4 * s[6] + 2 * s[7] + s[8]
  BY DEF Eight
<1>6. Eight(s, 0) = Eight(bits, 8 * k)
  BY <1>4, <1>5 DEF Eight
<1> QED
  BY <1>1, <1>3, <1>6

LEMMA Joined ==
  ASSUME NEW x \in Seq(Int), NEW y \in Seq(Int)
  PROVE  /\ x \o y \in Seq(Int) /\ Len(x \o y) = Len(x) + Len(y)
         /\ \A i \in 1 .. Len(x) : (x \o y)[i] = x[i]
         /\ \A i \in 1 .. Len(y) : (x \o y)[Len(x) + i] = y[i]
  OBVIOUS

\* The bytes that are sent for a reading
ByteOf(r) ==
  <<r.h \div 256, r.h % 256,
    (IF r.t < 0 THEN 128 ELSE 0) + M!Abs(r.t) \div 256, M!Abs(r.t) % 256>>

SumOf(r) == (ByteOf(r)[1] + ByteOf(r)[2] + ByteOf(r)[3] + ByteOf(r)[4]) % 256

LEMMA BytesAreBytes ==
  ASSUME NEW r \in Readings
  PROVE  /\ \A k \in 1 .. 4 : ByteOf(r)[k] \in Nat /\ ByteOf(r)[k] < 256
         /\ SumOf(r) \in Nat /\ SumOf(r) < 256
<1>1. r.h \in Nat /\ r.h < 65536 /\ r.t \in Int /\ -32768 < r.t /\ r.t < 32768
  BY ReadingAssumption
<1>2. r.h \div 256 \in Nat /\ r.h \div 256 < 256 /\ r.h % 256 \in Nat /\ r.h % 256 < 256
  BY <1>1
<1>3. M!Abs(r.t) \in Nat /\ M!Abs(r.t) < 32768
  BY <1>1 DEF M!Abs
<1>4. M!Abs(r.t) \div 256 \in Nat /\ M!Abs(r.t) \div 256 < 128
      /\ M!Abs(r.t) % 256 \in Nat /\ M!Abs(r.t) % 256 < 256
  BY <1>3
<1>5. /\ ByteOf(r)[1] \in Nat /\ ByteOf(r)[1] < 256
      /\ ByteOf(r)[2] \in Nat /\ ByteOf(r)[2] < 256
      /\ ByteOf(r)[3] \in Nat /\ ByteOf(r)[3] < 256
      /\ ByteOf(r)[4] \in Nat /\ ByteOf(r)[4] < 256
  BY <1>2, <1>4 DEF ByteOf
<1>6. SumOf(r) \in Nat /\ SumOf(r) < 256
  BY <1>5 DEF SumOf
<1>7. \A k \in 1 .. 4 : k \in {1, 2, 3, 4}
  OBVIOUS
<1> QED
  BY <1>5, <1>6, <1>7

\* What is sent: forty bits, the numbers of whose eights are the bytes and the sum
LEMMA FrameIs ==
  ASSUME NEW r \in Readings
  PROVE  /\ M!Frame(r) \in Seq(Int) /\ Len(M!Frame(r)) = 40
         /\ \A i \in 1 .. 40 : M!Frame(r)[i] \in Bit
         /\ Eight(M!Frame(r), 0) = ByteOf(r)[1] /\ Eight(M!Frame(r), 8) = ByteOf(r)[2]
         /\ Eight(M!Frame(r), 16) = ByteOf(r)[3] /\ Eight(M!Frame(r), 24) = ByteOf(r)[4]
         /\ Eight(M!Frame(r), 32) = SumOf(r)
<1> DEFINE a == M!ByteBits(ByteOf(r)[1])
           b == M!ByteBits(ByteOf(r)[2])
           c == M!ByteBits(ByteOf(r)[3])
           d == M!ByteBits(ByteOf(r)[4])
           e == M!ByteBits(SumOf(r))
           f == a \o b \o c \o d \o e
<1>1. M!Frame(r) = f
  BY DEF M!Frame, ByteOf, SumOf
<1>2. 1 \in 1 .. 4 /\ 2 \in 1 .. 4 /\ 3 \in 1 .. 4 /\ 4 \in 1 .. 4
  OBVIOUS
<1>3. /\ ByteOf(r)[1] \in Nat /\ ByteOf(r)[1] < 256
      /\ ByteOf(r)[2] \in Nat /\ ByteOf(r)[2] < 256
      /\ ByteOf(r)[3] \in Nat /\ ByteOf(r)[3] < 256
      /\ ByteOf(r)[4] \in Nat /\ ByteOf(r)[4] < 256
      /\ SumOf(r) \in Nat /\ SumOf(r) < 256
  BY <1>2, BytesAreBytes
<1>a. /\ Len(a) = 8 /\ a \in Seq(Int) /\ \A i \in 1 .. 8 : a[i] \in Bit
      /\ Eight(a, 0) = ByteOf(r)[1]
  BY <1>3, BitsOfByte
<1>b. /\ Len(b) = 8 /\ b \in Seq(Int) /\ \A i \in 1 .. 8 : b[i] \in Bit
      /\ Eight(b, 0) = ByteOf(r)[2]
  BY <1>3, BitsOfByte
<1>c. /\ Len(c) = 8 /\ c \in Seq(Int) /\ \A i \in 1 .. 8 : c[i] \in Bit
      /\ Eight(c, 0) = ByteOf(r)[3]
  BY <1>3, BitsOfByte
<1>d. /\ Len(d) = 8 /\ d \in Seq(Int) /\ \A i \in 1 .. 8 : d[i] \in Bit
      /\ Eight(d, 0) = ByteOf(r)[4]
  BY <1>3, BitsOfByte
<1>e. /\ Len(e) = 8 /\ e \in Seq(Int) /\ \A i \in 1 .. 8 : e[i] \in Bit
      /\ Eight(e, 0) = SumOf(r)
  BY <1>3, BitsOfByte
<1> HIDE DEF a, b, c, d, e
<1> DEFINE ab == a \o b
           abc == ab \o c
           abcd == abc \o d
<1>x1. /\ ab \in Seq(Int) /\ Len(ab) = 16
       /\ \A i \in 1 .. 8 : ab[i] = a[i]
       /\ \A i \in 1 .. 8 : ab[8 + i] = b[i]
  <2>1. a \in Seq(Int) /\ b \in Seq(Int) /\ Len(a) = 8 /\ Len(b) = 8
    BY <1>a, <1>b
  <2>2. ab = a \o b
    BY DEF ab
  <2> HIDE DEF ab
  <2>3. /\ ab \in Seq(Int) /\ Len(ab) = Len(a) + Len(b)
        /\ \A i \in 1 .. Len(a) : ab[i] = a[i]
        /\ \A i \in 1 .. Len(b) : ab[Len(a) + i] = b[i]
    BY <2>1, <2>2, Joined
  <2>4. ASSUME NEW i \in 1 .. 8 PROVE ab[i] = a[i]
    <3>1. i \in 1 .. Len(a)
      BY <2>1
    <3> QED
      BY <3>1, <2>3
  <2>5. ASSUME NEW i \in 1 .. 8 PROVE ab[8 + i] = b[i]
    <3>1. i \in 1 .. Len(b) /\ Len(a) + i = 8 + i
      BY <2>1
    <3> QED
      BY <3>1, <2>3
  <2> QED
    BY <2>1, <2>3, <2>4, <2>5
<1> HIDE DEF ab
<1>x2. /\ abc \in Seq(Int) /\ Len(abc) = 24
       /\ \A i \in 1 .. 16 : abc[i] = ab[i]
       /\ \A i \in 1 .. 8 : abc[16 + i] = c[i]
  <2>1. ab \in Seq(Int) /\ c \in Seq(Int) /\ Len(ab) = 16 /\ Len(c) = 8
    BY <1>x1, <1>c
  <2>2. abc = ab \o c
    BY DEF abc
  <2> HIDE DEF abc
  <2>3. /\ abc \in Seq(Int) /\ Len(abc) = Len(ab) + Len(c)
        /\ \A i \in 1 .. Len(ab) : abc[i] = ab[i]
        /\ \A i \in 1 .. Len(c) : abc[Len(ab) + i] = c[i]
    BY <2>1, <2>2, Joined
  <2>4. ASSUME NEW i \in 1 .. 16 PROVE abc[i] = ab[i]
    <3>1. i \in 1 .. Len(ab)
      BY <2>1
    <3> QED
      BY <3>1, <2>3
  <2>5. ASSUME NEW i \in 1 .. 8 PROVE abc[16 + i] = c[i]
    <3>1. i \in 1 .. Len(c) /\ Len(ab) + i = 16 + i
      BY <2>1
    <3> QED
      BY <3>1, <2>3
  <2> QED
    BY <2>1, <2>3, <2>4, <2>5
<1> HIDE DEF abc
<1>x3. /\ abcd \in Seq(Int) /\ Len(abcd) = 32
       /\ \A i \in 1 .. 24 : abcd[i] = abc[i]
       /\ \A i \in 1 .. 8 : abcd[24 + i] = d[i]
  <2>1. abc \in Seq(Int) /\ d \in Seq(Int) /\ Len(abc) = 24 /\ Len(d) = 8
    BY <1>x2, <1>d
  <2>2. abcd = abc \o d
    BY DEF abcd
  <2> HIDE DEF abcd
  <2>3. /\ abcd \in Seq(Int) /\ Len(abcd) = Len(abc) + Len(d)
        /\ \A i \in 1 .. Len(abc) : abcd[i] = abc[i]
        /\ \A i \in 1 .. Len(d) : abcd[Len(abc) + i] = d[i]
    BY <2>1, <2>2, Joined
  <2>4. ASSUME NEW i \in 1 .. 24 PROVE abcd[i] = abc[i]
    <3>1. i \in 1 .. Len(abc)
      BY <2>1
    <3> QED
      BY <3>1, <2>3
  <2>5. ASSUME NEW i \in 1 .. 8 PROVE abcd[24 + i] = d[i]
    <3>1. i \in 1 .. Len(d) /\ Len(abc) + i = 24 + i
      BY <2>1
    <3> QED
      BY <3>1, <2>3
  <2> QED
    BY <2>1, <2>3, <2>4, <2>5
<1> HIDE DEF abcd
<1>x5. /\ f \in Seq(Int) /\ Len(f) = 40
       /\ \A i \in 1 .. 32 : f[i] = abcd[i]
       /\ \A i \in 1 .. 8 : f[32 + i] = e[i]
  <2>1. abcd \in Seq(Int) /\ e \in Seq(Int) /\ Len(abcd) = 32 /\ Len(e) = 8
    BY <1>x3, <1>e
  <2>2. f = abcd \o e
    BY DEF f, ab, abc, abcd
  <2> HIDE DEF f
  <2>3. /\ f \in Seq(Int) /\ Len(f) = Len(abcd) + Len(e)
        /\ \A i \in 1 .. Len(abcd) : f[i] = abcd[i]
        /\ \A i \in 1 .. Len(e) : f[Len(abcd) + i] = e[i]
    BY <2>1, <2>2, Joined
  <2>4. ASSUME NEW i \in 1 .. 32 PROVE f[i] = abcd[i]
    <3>1. i \in 1 .. Len(abcd)
      BY <2>1
    <3> QED
      BY <3>1, <2>3
  <2>5. ASSUME NEW i \in 1 .. 8 PROVE f[32 + i] = e[i]
    <3>1. i \in 1 .. Len(e) /\ Len(abcd) + i = 32 + i
      BY <2>1
    <3> QED
      BY <3>1, <2>3
  <2> QED
    BY <2>1, <2>3, <2>4, <2>5
<1> HIDE DEF f
<1>4. f \in Seq(Int) /\ Len(f) = 40
  BY <1>x5
<1>5. \A i \in 1 .. 8 : /\ f[i] = a[i] /\ f[8 + i] = b[i] /\ f[16 + i] = c[i]
                        /\ f[24 + i] = d[i] /\ f[32 + i] = e[i]
  <2> SUFFICES ASSUME NEW i \in 1 .. 8
               PROVE  /\ f[i] = a[i] /\ f[8 + i] = b[i] /\ f[16 + i] = c[i]
                      /\ f[24 + i] = d[i] /\ f[32 + i] = e[i]
    OBVIOUS
  <2>4. /\ i \in 1 .. 16 /\ i \in 1 .. 24 /\ i \in 1 .. 32
        /\ 8 + i \in 1 .. 16 /\ 8 + i \in 1 .. 24 /\ 8 + i \in 1 .. 32
        /\ 16 + i \in 1 .. 24 /\ 16 + i \in 1 .. 32 /\ 24 + i \in 1 .. 32
    OBVIOUS
  <2>1. f[32 + i] = e[i] /\ f[24 + i] = abcd[24 + i] /\ f[i] = abcd[i]
        /\ f[8 + i] = abcd[8 + i] /\ f[16 + i] = abcd[16 + i]
    BY <2>4, <1>x5
  <2>2. abcd[24 + i] = d[i] /\ abcd[i] = abc[i] /\ abcd[8 + i] = abc[8 + i]
        /\ abcd[16 + i] = abc[16 + i]
    BY <2>4, <1>x3
  <2>3. abc[16 + i] = c[i] /\ abc[i] = ab[i] /\ abc[8 + i] = ab[8 + i]
    BY <2>4, <1>x2
  <2> QED
    BY <2>1, <2>2, <2>3, <1>x1
<1>6. \A i \in 1 .. 40 : f[i] \in Bit
  <2> SUFFICES ASSUME NEW i \in 1 .. 40 PROVE f[i] \in Bit
    OBVIOUS
  <2>1. CASE i <= 8
    <3>1. i \in 1 .. 8
      BY <2>1
    <3> QED
      BY <3>1, <1>5, <1>a
  <2>2. CASE i > 8 /\ i <= 16
    <3>1. i - 8 \in 1 .. 8 /\ 8 + (i - 8) = i
      BY <2>2
    <3> QED
      BY <3>1, <1>5, <1>b
  <2>3. CASE i > 16 /\ i <= 24
    <3>1. i - 16 \in 1 .. 8 /\ 16 + (i - 16) = i
      BY <2>3
    <3> QED
      BY <3>1, <1>5, <1>c
  <2>4. CASE i > 24 /\ i <= 32
    <3>1. i - 24 \in 1 .. 8 /\ 24 + (i - 24) = i
      BY <2>4
    <3> QED
      BY <3>1, <1>5, <1>d
  <2>5. CASE i > 32
    <3>1. i - 32 \in 1 .. 8 /\ 32 + (i - 32) = i
      BY <2>5
    <3> QED
      BY <3>1, <1>5, <1>e
  <2> QED
    BY <2>1, <2>2, <2>3, <2>4, <2>5
<1>7. Eight(f, 0) = Eight(a, 0)
  BY <1>5 DEF Eight
<1>8. Eight(f, 8) = Eight(b, 0)
  BY <1>5 DEF Eight
<1>9. Eight(f, 16) = Eight(c, 0)
  BY <1>5 DEF Eight
<1>10. Eight(f, 24) = Eight(d, 0)
  BY <1>5 DEF Eight
<1>11. Eight(f, 32) = Eight(e, 0)
  BY <1>5 DEF Eight
<1> QED
  BY <1>1, <1>4, <1>6, <1>7, <1>8, <1>9, <1>10, <1>11, <1>a, <1>b, <1>c, <1>d, <1>e

\* One bit turned over makes another byte
LEMMA FlipTells ==
  ASSUME NEW s, NEW u, NEW k \in Nat, NEW j \in 1 .. 8,
         \A i \in 1 .. 8 : s[k + i] \in Bit,
         \A i \in 1 .. 8 : u[k + i] = IF i = j THEN 1 - s[k + i] ELSE s[k + i]
  PROVE  /\ Eight(u, k) # Eight(s, k)
         /\ Eight(u, k) \in Nat /\ Eight(u, k) < 256
<1>1. /\ s[k + 1] \in Bit /\ s[k + 2] \in Bit /\ s[k + 3] \in Bit /\ s[k + 4] \in Bit
      /\ s[k + 5] \in Bit /\ s[k + 6] \in Bit /\ s[k + 7] \in Bit /\ s[k + 8] \in Bit
  OBVIOUS
<1>2. /\ u[k + 1] = IF 1 = j THEN 1 - s[k + 1] ELSE s[k + 1]
      /\ u[k + 2] = IF 2 = j THEN 1 - s[k + 2] ELSE s[k + 2]
      /\ u[k + 3] = IF 3 = j THEN 1 - s[k + 3] ELSE s[k + 3]
      /\ u[k + 4] = IF 4 = j THEN 1 - s[k + 4] ELSE s[k + 4]
      /\ u[k + 5] = IF 5 = j THEN 1 - s[k + 5] ELSE s[k + 5]
      /\ u[k + 6] = IF 6 = j THEN 1 - s[k + 6] ELSE s[k + 6]
      /\ u[k + 7] = IF 7 = j THEN 1 - s[k + 7] ELSE s[k + 7]
      /\ u[k + 8] = IF 8 = j THEN 1 - s[k + 8] ELSE s[k + 8]
  OBVIOUS
<1>3. /\ u[k + 1] \in Bit /\ u[k + 2] \in Bit /\ u[k + 3] \in Bit /\ u[k + 4] \in Bit
      /\ u[k + 5] \in Bit /\ u[k + 6] \in Bit /\ u[k + 7] \in Bit /\ u[k + 8] \in Bit
  BY <1>1, <1>2 DEF Bit
<1>4. Eight(u, k) \in Nat /\ Eight(u, k) < 256
  BY <1>3 DEF Eight, Bit
<1>5. Eight(u, k) # Eight(s, k)
  <2> DEFINE d1 == u[k + 1] - s[k + 1]
             d2 == u[k + 2] - s[k + 2]
             d3 == u[k + 3] - s[k + 3]
             d4 == u[k + 4] - s[k + 4]
             d5 == u[k + 5] - s[k + 5]
             d6 == u[k + 6] - s[k + 6]
             d7 == u[k + 7] - s[k + 7]
             d8 == u[k + 8] - s[k + 8]
  <2>1. d1 \in Int /\ (j # 1 => d1 = 0) /\ (j = 1 => d1 # 0)
    BY <1>1, <1>2 DEF Bit
  <2>2. d2 \in Int /\ (j # 2 => d2 = 0) /\ (j = 2 => d2 # 0)
    BY <1>1, <1>2 DEF Bit
  <2>3. d3 \in Int /\ (j # 3 => d3 = 0) /\ (j = 3 => d3 # 0)
    BY <1>1, <1>2 DEF Bit
  <2>4. d4 \in Int /\ (j # 4 => d4 = 0) /\ (j = 4 => d4 # 0)
    BY <1>1, <1>2 DEF Bit
  <2>5. d5 \in Int /\ (j # 5 => d5 = 0) /\ (j = 5 => d5 # 0)
    BY <1>1, <1>2 DEF Bit
  <2>6. d6 \in Int /\ (j # 6 => d6 = 0) /\ (j = 6 => d6 # 0)
    BY <1>1, <1>2 DEF Bit
  <2>7. d7 \in Int /\ (j # 7 => d7 = 0) /\ (j = 7 => d7 # 0)
    BY <1>1, <1>2 DEF Bit
  <2>8. d8 \in Int /\ (j # 8 => d8 = 0) /\ (j = 8 => d8 # 0)
    BY <1>1, <1>2 DEF Bit
  <2>9. Eight(u, k) - Eight(s, k)
          = 128 * d1 + 64 * d2 + 32 * d3 + 16 * d4 + 8 * d5 + 4 * d6 + 2 * d7 + d8
    BY <1>1, <1>3 DEF Eight, Bit
  <2>10. Eight(s, k) \in Int
    BY <1>1 DEF Eight, Bit
  <2> HIDE DEF d1, d2, d3, d4, d5, d6, d7, d8
  <2>11. 128 * d1 + 64 * d2 + 32 * d3 + 16 * d4 + 8 * d5 + 4 * d6 + 2 * d7 + d8 # 0
    <3>1. j \in {1, 2, 3, 4, 5, 6, 7, 8}
      OBVIOUS
    <3> QED
      BY <2>1, <2>2, <2>3, <2>4, <2>5, <2>6, <2>7, <2>8, <3>1
  <2> QED
    BY <1>4, <2>9, <2>10, <2>11
<1> QED
  BY <1>4, <1>5

\* ... which the sum of the bytes tells
LEMMA SumTells ==
  ASSUME NEW a \in Nat, NEW b \in Nat, a < 256, b < 256, a # b, NEW n \in Nat
  PROVE  (a + n) % 256 # (b + n) % 256
<1>1. \A x \in Nat : x % 256 = x - 256 * (x \div 256) /\ x \div 256 \in Int
  OBVIOUS
<1>2. a + n \in Nat /\ b + n \in Nat
  OBVIOUS
<1> DEFINE p == (a + n) \div 256
           q == (b + n) \div 256
           m == (a + n) % 256
<1>3. m = a + n - 256 * p /\ p \in Int
  BY <1>1, <1>2
<1>4. (b + n) % 256 = b + n - 256 * q /\ q \in Int
  BY <1>1, <1>2
<1>5. m \in Int
  BY <1>2
<1> HIDE DEF p, q, m
<1> QED
  <2>1. ASSUME m = (b + n) % 256 PROVE FALSE
    <3>1. m = b + n - 256 * q
      BY <1>4, <2>1
    <3>2. a - b = 256 * (p - q)
      BY <1>3, <1>4, <1>5, <3>1
    <3> QED
      BY <1>3, <1>4, <3>2
  <2> QED
    BY <2>1 DEF m

LEMMA SameEight ==
  ASSUME NEW s, NEW u, NEW k \in Nat, \A i \in 1 .. 8 : s[k + i] = u[k + i]
  PROVE  Eight(s, k) = Eight(u, k)
<1>1. /\ s[k + 1] = u[k + 1] /\ s[k + 2] = u[k + 2] /\ s[k + 3] = u[k + 3]
      /\ s[k + 4] = u[k + 4] /\ s[k + 5] = u[k + 5] /\ s[k + 6] = u[k + 6]
      /\ s[k + 7] = u[k + 7] /\ s[k + 8] = u[k + 8]
  OBVIOUS
<1> QED
  BY <1>1 DEF Eight

\* What DHTRead makes of bits whose first four bytes are those of a reading
LEMMA ScaledBack ==
  ASSUME NEW r \in Readings, NEW bits,
         M!Data(bits, 0) = ByteOf(r)[1], M!Data(bits, 1) = ByteOf(r)[2],
         M!Data(bits, 2) = ByteOf(r)[3], M!Data(bits, 3) = ByteOf(r)[4]
  PROVE  M!Scaled(bits).h = r.h /\ M!Scaled(bits).t = r.t
<1>1. r.h \in Nat /\ r.h < 65536 /\ r.t \in Int /\ -32768 < r.t /\ r.t < 32768
  BY ReadingAssumption
<1> DEFINE n == M!Abs(r.t)
           b1 == r.h \div 256
           b2 == r.h % 256
           b3 == (IF r.t < 0 THEN 128 ELSE 0) + n \div 256
           b4 == n % 256
<1>2. /\ M!Data(bits, 0) = b1 /\ M!Data(bits, 1) = b2 /\ M!Data(bits, 2) = b3
      /\ M!Data(bits, 3) = b4
  BY DEF ByteOf
<1>3. /\ M!Scaled(bits).h = b1 * 256 + b2
      /\ M!Scaled(bits).t = (IF b3 >= 128 THEN -1 ELSE 1) * ((b3 % 128) * 256 + b4)
  BY <1>2 DEF M!Scaled
<1>4. b1 * 256 + b2 = r.h
  BY <1>1
<1>5. n \in Nat /\ n < 32768 /\ n = IF r.t < 0 THEN -r.t ELSE r.t
  BY <1>1 DEF M!Abs
<1> HIDE DEF n
<1>6. n \div 256 \in Nat /\ n \div 256 < 128 /\ (n \div 256) * 256 + b4 = n
  <2>1. b4 = n - 256 * (n \div 256) /\ n \div 256 \in Nat /\ n \div 256 < 128
    BY <1>5
  <2> HIDE DEF b4
  <2> QED
    BY <2>1, <1>5
<1>7. (b3 >= 128) = (r.t < 0) /\ b3 % 128 = n \div 256
  BY <1>1, <1>6
<1> HIDE DEF b3, b4
<1>8. (IF b3 >= 128 THEN -1 ELSE 1) * ((b3 % 128) * 256 + b4) = r.t
  <2>1. CASE r.t < 0
    <3>1. (IF b3 >= 128 THEN -1 ELSE 1) * ((b3 % 128) * 256 + b4) = (-1) * n
      BY <2>1, <1>6, <1>7
    <3> QED
      BY <3>1, <2>1, <1>1, <1>5
  <2>2. CASE ~(r.t < 0)
    <3>1. (IF b3 >= 128 THEN -1 ELSE 1) * ((b3 % 128) * 256 + b4) = 1 * n
      BY <2>2, <1>6, <1>7
    <3> QED
      BY <3>1, <2>2, <1>1, <1>5
  <2> QED
    BY <2>1, <2>2
<1> QED
  BY <1>3, <1>4, <1>8

LEMMA FirstBytes ==
  ASSUME NEW bits \in Seq(Int), Len(bits) >= 32
  PROVE  /\ M!Data(bits, 0) = Eight(bits, 0) /\ M!Data(bits, 1) = Eight(bits, 8)
         /\ M!Data(bits, 2) = Eight(bits, 16) /\ M!Data(bits, 3) = Eight(bits, 24)
<1>1. M!Data(bits, 0) = Eight(bits, 8 * 0)
  BY DataOf
<1>2. M!Data(bits, 1) = Eight(bits, 8 * 1)
  BY DataOf
<1>3. M!Data(bits, 2) = Eight(bits, 8 * 2)
  BY DataOf
<1>4. M!Data(bits, 3) = Eight(bits, 8 * 3)
  BY DataOf
<1> QED
  BY <1>1, <1>2, <1>3, <1>4

\* The first four bytes of bits that begin as the frame does
LEMMA SameStart ==
  ASSUME NEW r \in Readings, NEW bits \in Seq(Int), Len(bits) >= 32,
         \A i \in 1 .. 32 : bits[i] = M!Frame(r)[i]
  PROVE  /\ M!Data(bits, 0) = ByteOf(r)[1] /\ M!Data(bits, 1) = ByteOf(r)[2]
         /\ M!Data(bits, 2) = ByteOf(r)[3] /\ M!Data(bits, 3) = ByteOf(r)[4]
<1>1. /\ M!Data(bits, 0) = Eight(bits, 0) /\ M!Data(bits, 1) = Eight(bits, 8)
      /\ M!Data(bits, 2) = Eight(bits, 16) /\ M!Data(bits, 3) = Eight(bits, 24)
  BY FirstBytes
<1> DEFINE f == M!Frame(r)
<1> HIDE DEF f
<1>2. \A i \in 1 .. 32 : bits[i] = f[i]
  BY DEF f
<1>3. Eight(bits, 0) = Eight(f, 0)
  <2>1. ASSUME NEW i \in 1 .. 8 PROVE bits[0 + i] = f[0 + i]
    <3>1. 0 + i \in 1 .. 32
      OBVIOUS
    <3> QED
      BY <3>1, <1>2
  <2> QED
    BY <2>1, SameEight
<1>4. Eight(bits, 8) = Eight(f, 8)
  <2>1. ASSUME NEW i \in 1 .. 8 PROVE bits[8 + i] = f[8 + i]
    <3>1. 8 + i \in 1 .. 32
      OBVIOUS
    <3> QED
      BY <3>1, <1>2
  <2> QED
    BY <2>1, SameEight
<1>5. Eight(bits, 16) = Eight(f, 16)
  <2>1. ASSUME NEW i \in 1 .. 8 PROVE bits[16 + i] = f[16 + i]
    <3>1. 16 + i \in 1 .. 32
      OBVIOUS
    <3> QED
      BY <3>1, <1>2
  <2> QED
    BY <2>1, SameEight
<1>6. Eight(bits, 24) = Eight(f, 24)
  <2>1. ASSUME NEW i \in 1 .. 8 PROVE bits[24 + i] = f[24 + i]
    <3>1. 24 + i \in 1 .. 32
      OBVIOUS
    <3> QED
      BY <3>1, <1>2
  <2> QED
    BY <2>1, SameEight
<1> QED
  BY <1>1, <1>3, <1>4, <1>5, <1>6, FrameIs DEF f

\* What the last byte of whole bits is taken for
LEMMA LastByte ==
  ASSUME NEW bits \in Seq(Int), Len(bits) = 40
  PROVE  M!Data(bits, 4) = Eight(bits, 32)
<1>1. 8 * 4 + 8 <= Len(bits) /\ 4 \in Nat
  OBVIOUS
<1>2. M!Data(bits, 4) = Eight(bits, 8 * 4)
  BY <1>1, DataOf
<1> QED
  BY <1>2

\* The beginning of a sequence, and one with an element turned over
LEMMA Beginning ==
  ASSUME NEW s \in Seq(Int), NEW n \in Nat, n <= Len(s)
  PROVE  /\ SubSeq(s, 1, n) \in Seq(Int) /\ Len(SubSeq(s, 1, n)) = n
         /\ \A i \in 1 .. n : SubSeq(s, 1, n)[i] = s[i]
  OBVIOUS

LEMMA Turned ==
  ASSUME NEW s \in Seq(Int), NEW p \in 1 .. Len(s)
  PROVE  /\ [s EXCEPT ![p] = 1 - @] \in Seq(Int) /\ Len([s EXCEPT ![p] = 1 - @]) = Len(s)
         /\ \A i \in 1 .. Len(s) :
              [s EXCEPT ![p] = 1 - @][i] = IF i = p THEN 1 - s[i] ELSE s[i]
<1>1. 1 - s[p] \in Int
  OBVIOUS
<1> QED
  BY <1>1, ExceptSeq

\* A reading that is accepted is the one that was sent.
LEMMA AcceptedIsSent ==
  ASSUME NEW r \in Readings, NEW bits \in M!Arrived(r), M!Accepted(bits)
  PROVE  M!Scaled(bits).h = r.h /\ M!Scaled(bits).t = r.t
<1> DEFINE f == M!Frame(r)
<1>f. /\ f \in Seq(Int) /\ Len(f) = 40 /\ \A i \in 1 .. 40 : f[i] \in Bit
      /\ Eight(f, 0) = ByteOf(r)[1] /\ Eight(f, 8) = ByteOf(r)[2]
      /\ Eight(f, 16) = ByteOf(r)[3] /\ Eight(f, 24) = ByteOf(r)[4]
      /\ Eight(f, 32) = SumOf(r)
  BY FrameIs
<1>a. \/ \E n \in Lengths : bits = SubSeq(f, 1, n)
      \/ \E p \in Flips : bits = [f EXCEPT ![p] = 1 - @]
  BY DEF M!Arrived
<1> HIDE DEF f
<1>1. ASSUME NEW n \in Lengths, bits = SubSeq(f, 1, n)
      PROVE  M!Scaled(bits).h = r.h /\ M!Scaled(bits).t = r.t
  <2>1. n \in 0 .. 40
    BY ReadingAssumption
  <2>2. bits \in Seq(Int) /\ Len(bits) = n /\ \A i \in 1 .. n : bits[i] = f[i]
    <3>1. n \in Nat /\ n <= 40
      BY <2>1
    <3>2. n <= Len(f)
      BY <3>1, <1>f
    <3> QED
      BY <3>1, <3>2, <1>1, <1>f, Beginning
  <2>3. Len(bits) >= 39
    BY DEF M!Accepted
  <2>4. ASSUME NEW i \in 1 .. 32 PROVE bits[i] = f[i]
    <3>1. i \in 1 .. n
      BY <2>1, <2>2, <2>3
    <3> QED
      BY <3>1, <2>2
  <2>5. Len(bits) >= 32
    BY <2>3, <2>2, <2>1
  <2> QED
    BY <2>2, <2>4, <2>5, SameStart, ScaledBack DEF f
<1>2. ASSUME NEW p \in Flips, bits = [f EXCEPT ![p] = 1 - @]
      PROVE  M!Scaled(bits).h = r.h /\ M!Scaled(bits).t = r.t
  <2>1. p \in 1 .. 40
    BY ReadingAssumption
  <2>2. /\ bits \in Seq(Int) /\ Len(bits) = 40
        /\ \A i \in 1 .. 40 : bits[i] = IF i = p THEN 1 - f[i] ELSE f[i]
    <3>1. p \in 1 .. Len(f)
      BY <2>1, <1>f
    <3>2. \A i \in 1 .. Len(f) : bits[i] = IF i = p THEN 1 - f[i] ELSE f[i]
      BY <3>1, <1>2, <1>f, Turned
    <3> QED
      BY <3>1, <3>2, <1>2, <1>f, Turned
  <2>3. CASE p > 32
    <3>2. Len(bits) >= 32
      BY <2>2
    <3>1. ASSUME NEW i \in 1 .. 32 PROVE bits[i] = f[i]
      <4>1. i \in 1 .. 40 /\ i # p
        BY <2>3, <2>1
      <4> QED
        BY <4>1, <2>2
    <3> QED
      BY <2>2, <3>1, <3>2, SameStart, ScaledBack DEF f
  <2>4. CASE p <= 32
    <3> DEFINE e(k) == Eight(bits, k)
               b(k) == Eight(f, k)
    <3>1. M!Data(bits, 4) = (M!Data(bits, 0) + M!Data(bits, 1) + M!Data(bits, 2) + M!Data(bits, 3)) % 256
      BY DEF M!Accepted
    <3>2. /\ M!Data(bits, 0) = e(0) /\ M!Data(bits, 1) = e(8) /\ M!Data(bits, 2) = e(16)
          /\ M!Data(bits, 3) = e(24) /\ M!Data(bits, 4) = e(32)
      <4>1. Len(bits) >= 32
        BY <2>2
      <4> QED
        BY <2>2, <4>1, FirstBytes, LastByte
    <3>3. ASSUME NEW k \in {0, 8, 16, 24, 32}, ~(k < p /\ p <= k + 8) PROVE e(k) = b(k)
      <4>1. ASSUME NEW i \in 1 .. 8 PROVE bits[k + i] = f[k + i]
        <5>1. k + i \in 1 .. 40 /\ k + i # p
          BY <2>1, <3>3
        <5> QED
          BY <5>1, <2>2
      <4> QED
        BY <4>1, k \in Nat, SameEight
    <3>4. ASSUME NEW k \in {0, 8, 16, 24}, k < p, p <= k + 8
          PROVE  e(k) # b(k) /\ e(k) \in Nat /\ e(k) < 256
      <4>1. p - k \in 1 .. 8 /\ k \in Nat
        BY <3>4, <2>1
      <4>2. ASSUME NEW i \in 1 .. 8
            PROVE  /\ f[k + i] \in Bit
                   /\ bits[k + i] = IF i = p - k THEN 1 - f[k + i] ELSE f[k + i]
        <5>1. k + i \in 1 .. 40
          OBVIOUS
        <5>2. (k + i = p) = (i = p - k)
          BY <2>1
        <5> QED
          BY <5>1, <5>2, <2>2, <1>f
      <4> QED
        BY <4>1, <4>2, FlipTells
    <3>5. /\ b(0) \in Nat /\ b(0) < 256 /\ b(8) \in Nat /\ b(8) < 256
          /\ b(16) \in Nat /\ b(16) < 256 /\ b(24) \in Nat /\ b(24) < 256
          /\ b(32) = (b(0) + b(8) + b(16) + b(24)) % 256
      <4>1. 1 \in 1 .. 4 /\ 2 \in 1 .. 4 /\ 3 \in 1 .. 4 /\ 4 \in 1 .. 4
        OBVIOUS
      <4> QED
        <5> DEFINE y == ByteOf(r)
        <5>1. \A k \in 1 .. 4 : y[k] \in Nat /\ y[k] < 256
          BY BytesAreBytes
        <5>2. b(0) = y[1] /\ b(8) = y[2] /\ b(16) = y[3] /\ b(24) = y[4]
              /\ b(32) = (y[1] + y[2] + y[3] + y[4]) % 256
          BY <1>f DEF SumOf
        <5> HIDE DEF y, b
        <5> QED
          BY <4>1, <5>1, <5>2
    <3> HIDE DEF e, b
    <3>6. e(32) = (e(0) + e(8) + e(16) + e(24)) % 256
      BY <3>1, <3>2
    <3>7. e(32) = b(32)
      <4>1. 32 \in {0, 8, 16, 24, 32} /\ ~(32 < p /\ p <= 32 + 8)
        BY <2>1, <2>4
      <4> QED
        BY <4>1, <3>3
    <3>8. CASE p <= 8
      <4>1. e(8) = b(8) /\ e(16) = b(16) /\ e(24) = b(24)
        BY <3>3, <3>8, <2>1
      <4>2. e(0) # b(0) /\ e(0) \in Nat /\ e(0) < 256
        BY <3>4, <3>8, <2>1
      <4> DEFINE n == b(8) + b(16) + b(24)
      <4>3. n \in Nat
        BY <3>5
      <4>4. e(0) + e(8) + e(16) + e(24) = e(0) + n /\ b(0) + b(8) + b(16) + b(24) = b(0) + n
        BY <3>5, <4>1, <4>2
      <4> HIDE DEF n
      <4>5. (e(0) + n) % 256 # (b(0) + n) % 256
        <5>1. e(0) # b(0) /\ e(0) \in Nat /\ b(0) \in Nat /\ e(0) < 256 /\ b(0) < 256
          BY <4>2, <3>5
        <5> QED
          BY <4>3, <5>1, SumTells
      <4> QED
        BY <4>4, <4>5, <3>5, <3>6, <3>7
    <3>9. CASE 8 < p /\ p <= 16
      <4>1. e(0) = b(0) /\ e(16) = b(16) /\ e(24) = b(24)
        BY <3>3, <3>9, <2>1
      <4>2. e(8) # b(8) /\ e(8) \in Nat /\ e(8) < 256
        BY <3>4, <3>9, <2>1
      <4> DEFINE n == b(0) + b(16) + b(24)
      <4>3. n \in Nat
        BY <3>5
      <4>4. e(0) + e(8) + e(16) + e(24) = e(8) + n /\ b(0) + b(8) + b(16) + b(24) = b(8) + n
        BY <3>5, <4>1, <4>2
      <4> HIDE DEF n
      <4>5. (e(8) + n) % 256 # (b(8) + n) % 256
        <5>1. e(8) # b(8) /\ e(8) \in Nat /\ b(8) \in Nat /\ e(8) < 256 /\ b(8) < 256
          BY <4>2, <3>5
        <5> QED
          BY <4>3, <5>1, SumTells
      <4> QED
        BY <4>4, <4>5, <3>5, <3>6, <3>7
    <3>10. CASE 16 < p /\ p <= 24
      <4>1. e(0) = b(0) /\ e(8) = b(8) /\ e(24) = b(24)
        BY <3>3, <3>10, <2>1
      <4>2. e(16) # b(16) /\ e(16) \in Nat /\ e(16) < 256
        BY <3>4, <3>10, <2>1
      <4> DEFINE n == b(0) + b(8) + b(24)
      <4>3. n \in Nat
        BY <3>5
      <4>4. e(0) + e(8) + e(16) + e(24) = e(16) + n /\ b(0) + b(8) + b(16) + b(24) = b(16) + n
        BY <3>5, <4>1, <4>2
      <4> HIDE DEF n
      <4>5. (e(16) + n) % 256 # (b(16) + n) % 256
        <5>1. e(16) # b(16) /\ e(16) \in Nat /\ b(16) \in Nat /\ e(16) < 256 /\ b(16) < 256
          BY <4>2, <3>5
        <5> QED
          BY <4>3, <5>1, SumTells
      <4> QED
        BY <4>4, <4>5, <3>5, <3>6, <3>7
    <3>11. CASE 24 < p
      <4>1. e(0) = b(0) /\ e(8) = b(8) /\ e(16) = b(16)
        BY <3>3, <3>11, <2>1
      <4>2. e(24) # b(24) /\ e(24) \in Nat /\ e(24) < 256
        BY <3>4, <3>11, <2>1, <2>4
      <4> DEFINE n == b(0) + b(8) + b(16)
      <4>3. n \in Nat
        BY <3>5
      <4>4. e(0) + e(8) + e(16) + e(24) = e(24) + n /\ b(0) + b(8) + b(16) + b(24) = b(24) + n
        BY <3>5, <4>1, <4>2
      <4> HIDE DEF n
      <4>5. (e(24) + n) % 256 # (b(24) + n) % 256
        <5>1. e(24) # b(24) /\ e(24) \in Nat /\ b(24) \in Nat /\ e(24) < 256 /\ b(24) < 256
          BY <4>2, <3>5
        <5> QED
          BY <4>3, <5>1, SumTells
      <4> QED
        BY <4>4, <4>5, <3>5, <3>6, <3>7
    <3> QED
      BY <2>1, <3>8, <3>9, <3>10, <3>11
  <2> QED
    BY <2>1, <2>3, <2>4
<1> QED
  BY <1>a, <1>1, <1>2

\* A text shows the reading it was made of
LEMMA TextsShow ==
  ASSUME NEW x \in Int, NEW text \in M!Texts(x)
  PROVE  M!Shows(text, x)
<1> DEFINE n == M!Abs(x)
           q == n \div 10
           m == n % 10
           f == text.frac
<1>1. n \in Nat /\ (x < 0 => x = -n) /\ (x >= 0 => x = n)
  BY DEF M!Abs
<1>2. /\ text.whole = IF x < 0 THEN -q ELSE x \div 10
      /\ text.minus = (x < 0 /\ m # 0)
      /\ f \in IF m = 0 THEN {0} ELSE {10 * m - 1, 10 * m}
      /\ text.places = IF f < 10 THEN 1 ELSE 2
  BY DEF M!Texts
<1>3. x >= 0 => x \div 10 = q
  BY <1>1
<1>4. x % 10 = 0 => m = 0
  BY <1>1
<1>5. x > 0 => x % 10 = m
  BY <1>1
<1> HIDE DEF n
<1>6. n = 10 * q + m /\ q \in Nat /\ m \in 0 .. 9
  BY <1>1
<1> HIDE DEF q, m, f
<1>7. f \in Int /\ (m = 0 => f = 0) /\ (m # 0 => f = 10 * m - 1 \/ f = 10 * m)
  BY <1>2, <1>6
<1>8. CASE M!HasDecimal(x)
  <2>1. ~text.minus
    <3>1. ~(x < 0 /\ m # 0)
      BY <1>4, <1>8 DEF M!HasDecimal
    <3> QED
      BY <1>2, <3>1, Zenon
  <2>2. (IF text.places = 1 THEN 10 ELSE 1) * f = f
    <3>1. m # 1
      BY <1>1, <1>4, <1>5, <1>8 DEF M!HasDecimal
    <3>2. f = 0 \/ f >= 10
      BY <3>1, <1>6, <1>7
    <3> QED
      BY <3>2, <1>2, <1>7
  <2>3. CASE x >= 0
    <3>1. text.whole = q
      BY <1>2, <1>3, <2>3
    <3>2. M!Abs(text.whole) = q /\ ~(text.whole < 0)
      BY <3>1, <1>6 DEF M!Abs
    <3>3. 100 * q + f - 10 * x \in {0, -1}
      BY <2>3, <1>1, <1>6, <1>7
    <3>4. M!Abs(100 * q + f - 10 * x) <= 1
      BY <3>3 DEF M!Abs
    <3>5. M!Tells(text, x)
      BY <1>6, <1>7, <2>1, <2>2, <3>2, <3>4 DEF M!Tells, f
    <3> QED
      BY <1>8, <3>5 DEF M!Shows
  <2>4. CASE x < 0
    <3>1. m = 0 /\ f = 0 /\ q > 0
      BY <2>4, <1>1, <1>4, <1>6, <1>7, <1>8 DEF M!HasDecimal
    <3>2. text.whole = -q
      BY <1>2, <2>4
    <3>3. M!Abs(text.whole) = q /\ text.whole < 0
      BY <3>1, <3>2, <1>6 DEF M!Abs
    <3>4. -(100 * q + f) - 10 * x = 0
      BY <3>1, <2>4, <1>1, <1>6
    <3>5. M!Abs(-(100 * q + f) - 10 * x) <= 1
      BY <3>4 DEF M!Abs
    <3>6. M!Tells(text, x)
      BY <2>1, <2>2, <3>3, <3>5 DEF M!Tells, f
    <3> QED
      BY <1>8, <3>6 DEF M!Shows
  <2> QED
    BY <2>3, <2>4
<1>9. CASE ~M!HasDecimal(x)
  <2> DEFINE frac == IF text.minus THEN -text.frac ELSE text.frac
  <2>1. m # 0 /\ (text.minus = (x < 0))
    <3>1. m = 0 => x % 10 = 0
      <4>1. ASSUME m = 0, x < 0 PROVE x % 10 = 0
        <5>1. x = 10 * (-q)
          BY <4>1, <1>1, <1>6
        <5> QED
          BY <5>1, <1>6
      <4>2. ASSUME m = 0, x >= 0 PROVE x % 10 = 0
        BY <4>2, <1>1, <1>6
      <4> QED
        BY <4>1, <4>2
    <3>2. m # 0
      BY <3>1, <1>9 DEF M!HasDecimal
    <3> QED
      BY <3>2, <1>2
  <2>2. text.whole = IF x < 0 THEN -q ELSE q
    BY <1>2, <1>3
  <2>3. frac = IF x < 0 THEN -f ELSE f
    BY <2>1, Zenon DEF f
  <2>4. 100 * text.whole + frac - 10 * x \in {-1, 0, 1}
    <3> HIDE DEF frac
    <3> QED
      BY <2>1, <2>2, <2>3, <1>1, <1>6, <1>7
  <2>5. M!Abs(100 * text.whole + frac - 10 * x) <= 1
    <3> HIDE DEF frac
    <3> QED
      BY <2>4 DEF M!Abs
  <2>6. M!Spells(text, x)
    BY <2>5, Zenon DEF M!Spells
  <2> QED
    BY <1>9, <2>6 DEF M!Shows
<1> QED
  BY <1>8, <1>9

\* The invariant: what is remembered is what was measured.
IsReading(v) == v.h \in Int /\ v.t \in Int

Remembered ==
  /\ IsReading(DHT) /\ DHT.h = measured.h /\ DHT.t = measured.t

LEMMA RememberedKept ==
  ASSUME Remembered, [M!Next]_monitorVars
  PROVE  Remembered'
<1> USE DEF Remembered
<1>1. ASSUME NEW sec \in PolledSeconds, M!circular_timer_proc(sec) PROVE Remembered'
  <2>1. CASE UNCHANGED <<DHT, measured>>
    BY <2>1 DEF IsReading
  <2>2. ASSUME NEW r \in Readings, NEW bits \in M!Arrived(r), M!DHTRead(r, bits)
        PROVE  Remembered'
    <3>1. CASE M!Accepted(bits)
      <4>1. DHT' = M!Scaled(bits) /\ measured' = r
        BY <2>2, <3>1 DEF M!DHTRead
      <4>2. M!Scaled(bits).h = r.h /\ M!Scaled(bits).t = r.t
        BY <3>1, AcceptedIsSent
      <4>3. r.h \in Int /\ r.t \in Int
        BY ReadingAssumption
      <4> QED
        BY <4>1, <4>2, <4>3 DEF IsReading
    <3>2. CASE ~M!Accepted(bits)
      BY <2>2, <3>2 DEF M!DHTRead, IsReading
    <3> QED
      BY <3>1, <3>2
  <2>3. \/ UNCHANGED <<DHT, measured>>
        \/ \E r \in Readings : \E bits \in M!Arrived(r) : M!DHTRead(r, bits)
    BY <1>1 DEF M!circular_timer_proc
  <2> QED
    BY <2>1, <2>2, <2>3
<1>2. CASE UNCHANGED <<DHT, measured>>
  BY <1>2 DEF IsReading
<1>3. ASSUME NEW slider2 \in {"true", "false", "none"}, M!cgi_index(slider2) PROVE Remembered'
  BY <1>2, <1>3 DEF M!cgi_index
<1>4. CASE M!cgi_index_get_data
  BY <1>2, <1>4 DEF M!cgi_index_get_data
<1>5. CASE M!Session
  BY <1>2, <1>5 DEF M!Session
<1>6. CASE UNCHANGED monitorVars
  BY <1>2, <1>6 DEF monitorVars
<1> QED
  BY <1>1, <1>3, <1>4, <1>5, <1>6 DEF M!Next

\* What the index page shows, and what is published while the text's length is
\* taken from the text, is the reading that the sensor sent when one was last
\* accepted, to the hundredth: no bit that was lost or turned over on the way
\* gets past the sum (driver/DHT22.c).
THEOREM ReadingsAreMeasured == MonitorSpec => []ShownIsMeasured
<1> DEFINE Inv == Remembered /\ ShownIsMeasured
<1>1. M!Init => Inv
  BY DEF M!Init, Remembered, IsReading, ShownIsMeasured, M!ShownIsMeasured, M!NoPage,
     M!NoMessages
<1>2. Inv /\ [M!Next]_monitorVars => Inv'
  <2> SUFFICES ASSUME Inv, [M!Next]_monitorVars PROVE Inv'
    OBVIOUS
  <2>1. Remembered'
    BY RememberedKept
  <2>2. ASSUME page' = M!NoPage, published' = M!NoMessages PROVE ShownIsMeasured'
    <3>1. ~page'.fresh /\ ~published'.fresh
      BY <2>2 DEF M!NoPage, M!NoMessages
    <3> QED
      BY <3>1, Zenon DEF ShownIsMeasured, M!ShownIsMeasured
  <2>3. ASSUME NEW sec \in PolledSeconds, M!circular_timer_proc(sec) PROVE ShownIsMeasured'
    <3>1. ~page'.fresh
      BY <2>3 DEF M!circular_timer_proc, M!NoPage
    <3>2. published' = M!NoMessages \/ published' \in M!Published(DHT')
      BY <2>3 DEF M!circular_timer_proc
    <3>3. CASE published' = M!NoMessages
      <4>1. ~published'.fresh
        BY <3>3 DEF M!NoMessages
      <4> QED
        BY <3>1, <4>1, Zenon DEF ShownIsMeasured, M!ShownIsMeasured
    <3>4. CASE published' \in M!Published(DHT')
      <4>1. lengthLast' = lengthLast
        BY <2>3 DEF M!circular_timer_proc
      <4>2. ASSUME lengthLast
            PROVE  published'.t \in M!Texts(DHT'.t) /\ published'.h \in M!Texts(DHT'.h)
        BY <3>4, <4>2 DEF M!Published
      <4>3. ASSUME lengthLast
            PROVE  M!Shows(published'.t, measured'.t) /\ M!Shows(published'.h, measured'.h)
        BY <4>2, <4>3, <2>1, TextsShow DEF Remembered, IsReading
      <4> QED
        BY <3>1, <4>1, <4>3, Zenon DEF ShownIsMeasured, M!ShownIsMeasured
    <3> QED
      BY <3>2, <3>3, <3>4
  <2>4. ASSUME NEW slider2 \in {"true", "false", "none"}, M!cgi_index(slider2)
        PROVE  ShownIsMeasured'
    BY <2>2, <2>4 DEF M!cgi_index
  <2>5. CASE M!cgi_index_get_data
    <3>1. PICK t \in M!Texts(DHT.t), h \in M!Texts(DHT.h) : page'.t = t /\ page'.h = h
      BY <2>5 DEF M!cgi_index_get_data
    <3>2. DHT' = DHT /\ measured' = measured /\ ~published'.fresh
      BY <2>5 DEF M!cgi_index_get_data, M!NoMessages
    <3>3. M!Shows(page'.t, measured'.t) /\ M!Shows(page'.h, measured'.h)
      BY <3>1, <3>2, <2>1, TextsShow DEF Remembered, IsReading
    <3>4. ~published'.fresh
      BY <3>2
    <3> QED
      BY <2>1, <3>3, <3>4, Zenon DEF ShownIsMeasured, M!ShownIsMeasured
  <2>6. CASE M!Session
    <3>1. page' = M!NoPage /\ published' = M!NoMessages
      BY <2>6, Zenon DEF M!Session
    <3> QED
      BY <2>1, <2>2, <3>1
  <2>7. CASE UNCHANGED monitorVars
    <3>1. /\ page' = page /\ published' = published /\ measured' = measured
          /\ lengthLast' = lengthLast
      BY <2>7 DEF monitorVars
    <3> QED
      BY <2>1, <3>1, Zenon DEF ShownIsMeasured, M!ShownIsMeasured
  <2> QED
    BY <2>1, <2>3, <2>4, <2>5, <2>6, <2>7 DEF M!Next
<1> QED
  BY <1>1, <1>2, PTL DEF MonitorSpec
-----------------------------------------------------------------------------
(* DS18B20: the search finds each thermometer once.  Codes are ordered by   *)
(* their first different bit; a pass ends at the first code behind the one  *)
(* of the pass before.                                                      *)

LEMMA LeastNumber ==
  ASSUME NEW T \in SUBSET Nat, T # {}
  PROVE  \E n \in T : \A m \in T : n <= m
<1> DEFINE Below == {0 .. n : n \in T}
           R == StrictSubsetOrdering(Nat)
           F == FiniteSubsetsOf(Nat)
<1>1. Below \subseteq F /\ Below # {}
  <2> SUFFICES ASSUME NEW n \in T PROVE 0 .. n \in SUBSET Nat /\ IsFiniteSet(0 .. n)
    BY DEF FiniteSubsetsOf
  <2> QED
    BY FS_Interval
<1>2. IsWellFoundedOn(R, F)
  BY FS_StrictSubsetOrderingWellFounded
<1>3. \E x \in Below : \A y \in Below : ~ (<<y, x>> \in R)
  <2> HIDE DEF Below, R, F
  <2> QED
    BY <1>1, <1>2, WFMin
<1>4. PICK n \in T : \A m \in T : ~ (<<0 .. m, 0 .. n>> \in R)
  BY <1>3
<1>5. ASSUME NEW m \in T, m < n PROVE FALSE
  <2>1. 0 .. m \subseteq 0 .. n /\ n \in 0 .. n /\ n \notin 0 .. m
    BY <1>5
  <2>2. <<0 .. m, 0 .. n>> \in R
    BY <2>1 DEF StrictSubsetOrdering
  <2> QED
    BY <2>2, <1>4
<1> QED
  BY <1>5

LEMMA GreatestNumber ==
  ASSUME NEW n \in Nat, NEW T \in SUBSET (0 .. n), T # {}
  PROVE  \E m \in T : \A k \in T : k <= m
<1> DEFINE U == {k \in Nat : \E m \in T : k = n - m}
<1>1. PICK m \in T : TRUE
  OBVIOUS
<1>2. n - m \in U /\ U \in SUBSET Nat
  OBVIOUS
<1>3. PICK k \in U : \A j \in U : k <= j
  <2> HIDE DEF U
  <2> QED
    BY <1>2, LeastNumber
<1>4. PICK g \in T : k = n - g
  BY <1>3
<1>5. ASSUME NEW j \in T PROVE j <= g
  <2>1. n - j \in U
    OBVIOUS
  <2>2. k <= n - j
    BY <1>3, <2>1
  <2> QED
    BY <1>4, <2>2
<1> QED
  BY <1>5

\* The bits of codes.
RomBits == D!RomBits

LEMMA RomShape ==
  /\ RomBits \in Nat
  /\ \A r \in Roms : Len(r) = RomBits /\ \A i \in 1 .. RomBits : r[i] \in {0, 1}
  /\ \A r, q \in Roms : (\A i \in 1 .. RomBits : r[i] = q[i]) => r = q
<1>1. PICK c \in Roms : RomBits = Len(c)
  BY RomAssumption DEF RomBits, D!RomBits
<1>2. RomBits \in Nat
  BY <1>1, RomAssumption
<1>3. ASSUME NEW r \in Roms
      PROVE  r \in Seq({0, 1}) /\ Len(r) = RomBits /\ \A i \in 1 .. RomBits : r[i] \in {0, 1}
  <2>1. r \in Seq({0, 1}) /\ Len(r) = RomBits
    BY <1>1, RomAssumption
  <2> QED
    BY <2>1
<1>4. ASSUME NEW r \in Roms, NEW q \in Roms, \A i \in 1 .. RomBits : r[i] = q[i]
      PROVE  r = q
  <2>1. r \in Seq({0, 1}) /\ q \in Seq({0, 1}) /\ Len(r) = RomBits /\ Len(q) = RomBits
    BY <1>3
  <2> QED
    BY <1>4, <2>1
<1> QED
  BY <1>2, <1>3, <1>4

Before(a, b) ==
  \E i \in 1 .. RomBits : a[i] = 0 /\ b[i] = 1 /\ \A j \in 1 .. i - 1 : a[j] = b[j]

LEMMA BeforeTotal ==
  ASSUME NEW a \in Roms, NEW b \in Roms, a # b
  PROVE  Before(a, b) \/ Before(b, a)
<1> DEFINE T == {i \in 1 .. RomBits : a[i] # b[i]}
<1>1. T \in SUBSET Nat /\ T # {}
  BY RomShape
<1>2. PICK i \in T : \A k \in T : i <= k
  <2> HIDE DEF T
  <2> QED
    BY <1>1, LeastNumber
<1>3. \A j \in 1 .. i - 1 : a[j] = b[j]
  <2> SUFFICES ASSUME NEW j \in 1 .. i - 1 PROVE a[j] = b[j]
    OBVIOUS
  <2>1. j \in 1 .. RomBits /\ ~ (i <= j)
    BY <1>2, RomShape
  <2> QED
    BY <1>2, <2>1
<1>4. a[i] \in {0, 1} /\ b[i] \in {0, 1} /\ a[i] # b[i] /\ i \in 1 .. RomBits
  BY <1>2, RomShape
<1> QED
  BY <1>3, <1>4 DEF Before

LEMMA BeforeIrreflexive == ASSUME NEW a PROVE ~Before(a, a)
BY DEF Before

LEMMA BeforeTransitive ==
  ASSUME NEW a \in Roms, NEW b \in Roms, NEW c \in Roms, Before(a, b), Before(b, c)
  PROVE  Before(a, c)
<1>1. PICK i \in 1 .. RomBits : a[i] = 0 /\ b[i] = 1 /\ \A j \in 1 .. i - 1 : a[j] = b[j]
  BY DEF Before
<1>2. PICK k \in 1 .. RomBits : b[k] = 0 /\ c[k] = 1 /\ \A j \in 1 .. k - 1 : b[j] = c[j]
  BY DEF Before
<1>3. CASE i < k
  <2>1. i \in 1 .. k - 1 /\ c[i] = 1
    BY <1>1, <1>2, <1>3
  <2>2. \A j \in 1 .. i - 1 : a[j] = c[j]
    BY <1>1, <1>2, <1>3
  <2> QED
    BY <1>1, <2>1, <2>2 DEF Before
<1>4. CASE k < i
  <2>1. k \in 1 .. i - 1 /\ a[k] = 0
    BY <1>1, <1>2, <1>4
  <2>2. \A j \in 1 .. k - 1 : a[j] = c[j]
    BY <1>1, <1>2, <1>4
  <2> QED
    BY <1>2, <2>1, <2>2 DEF Before
<1> QED
  BY <1>1, <1>2, <1>3, <1>4

LEMMA Earliest ==
  ASSUME NEW T \in SUBSET Roms, T # {}
  PROVE  \E w \in T : \A q \in T : ~Before(q, w)
<1> DEFINE Ahead(w) == {q \in T : Before(q, w)}
           U == {Cardinality(Ahead(w)) : w \in T}
<1>1. ASSUME NEW w \in T PROVE IsFiniteSet(Ahead(w)) /\ Cardinality(Ahead(w)) \in Nat
  <2>1. Ahead(w) \in SUBSET Roms
    OBVIOUS
  <2> HIDE DEF Ahead
  <2> QED
    BY <2>1, RomAssumption, FS_Subset, FS_CardinalityType
<1>2. PICK m \in U : \A k \in U : m <= k
  <2>1. U \in SUBSET Nat /\ U # {}
    BY <1>1
  <2> HIDE DEF U
  <2> QED
    BY <2>1, LeastNumber
<1>3. PICK w \in T : m = Cardinality(Ahead(w))
  BY <1>2
<1>4. ASSUME NEW q \in T, Before(q, w) PROVE FALSE
  <2>1. Ahead(q) \subseteq Ahead(w)
    <3> SUFFICES ASSUME NEW p \in T, Before(p, q) PROVE Before(p, w)
      OBVIOUS
    <3> QED
      BY <1>4, BeforeTransitive
  <2>2. q \in Ahead(w) /\ q \notin Ahead(q)
    BY <1>4, BeforeIrreflexive
  <2>3. Ahead(q) # Ahead(w)
    BY <2>2
  <2>4. Cardinality(Ahead(q)) <= Cardinality(Ahead(w)) /\ Cardinality(Ahead(q)) # Cardinality(Ahead(w))
    <3>1. IsFiniteSet(Ahead(w)) /\ Cardinality(Ahead(w)) \in Nat
      BY <1>1
    <3> HIDE DEF Ahead
    <3> QED
      BY <2>1, <2>3, <3>1, FS_Subset
  <2>5. m <= Cardinality(Ahead(q))
    BY <1>2
  <2>6. Cardinality(Ahead(q)) \in Nat /\ Cardinality(Ahead(w)) \in Nat
    BY <1>1
  <2> HIDE DEF Ahead
  <2> QED
    BY <1>3, <2>4, <2>5, <2>6
<1> QED
  BY <1>4

\* What a pass may end at.
Choice(w) == \A i \in 1 .. RomBits : D!Both(w, i) => w[i] = D!Branch(i)

LEMMA WalkedIs ==
  ASSUME NEW w \in wire, Choice(w)
  PROVE  D!Walked \in wire /\ Choice(D!Walked)
<1>1. D!Walked = CHOOSE r \in wire : Choice(r)
  BY DEF D!Walked, Choice, RomBits
<1> QED
  BY <1>1

LEMMA BothIs ==
  ASSUME NEW r, NEW q \in wire, NEW i \in 1 .. RomBits,
         \A j \in 1 .. i - 1 : q[j] = r[j], q[i] # r[i]
  PROVE  D!Both(r, i)
BY DEF D!Both, D!Here

LEMMA BothGives ==
  ASSUME wire \subseteq Roms, NEW r \in wire, NEW i \in 1 .. RomBits, D!Both(r, i)
  PROVE  \E q \in wire : (\A j \in 1 .. i - 1 : q[j] = r[j]) /\ q[i] # r[i] /\ q[i] \in {0, 1}
<1>1. PICK q \in D!Here(r, i) : q[i] # r[i]
  BY DEF D!Both
<1>2. q \in wire /\ \A j \in 1 .. i - 1 : q[j] = r[j]
  BY <1>1 DEF D!Here
<1>3. q[i] \in {0, 1}
  BY <1>2, RomShape
<1> QED
  BY <1>1, <1>2, <1>3

\* The last bit of r where a code of the wire goes the other way, to a 1.
LEMMA LastZeroIs ==
  ASSUME wire \subseteq Roms, NEW r \in wire
  PROVE  /\ D!LastZero(r) \in 0 .. RomBits
         /\ D!LastZero(r) > 0 => D!Both(r, D!LastZero(r)) /\ r[D!LastZero(r)] = 0
         /\ \A i \in 1 .. RomBits : D!Both(r, i) /\ r[i] = 0 => i <= D!LastZero(r)
<1> DEFINE T == {0} \cup {i \in 1 .. RomBits : D!Both(r, i) /\ r[i] = 0}
<1>1. T \in SUBSET (0 .. RomBits) /\ T # {} /\ RomBits \in Nat
  BY RomShape
<1>2. \E m \in T : \A k \in T : k <= m
  <2> HIDE DEF T
  <2> QED
    BY <1>1, GreatestNumber
<1>3. D!LastZero(r) = CHOOSE m \in T : \A k \in T : m >= k
  BY DEF D!LastZero, D!Max, RomBits
<1>4. D!LastZero(r) \in T /\ \A k \in T : k <= D!LastZero(r)
  <2> DEFINE z == D!LastZero(r)
  <2>1. \E m \in T : \A k \in T : m >= k
    <3>1. PICK m \in T : \A k \in T : k <= m
      BY <1>2
    <3>2. \A k \in T : m >= k
      <4> HIDE DEF T
      <4> QED
        BY <1>1, <3>1
    <3> QED
      BY <3>2
  <2>2. z \in T /\ \A k \in T : z >= k
    <3> HIDE DEF T
    <3> QED
      BY <1>3, <2>1
  <2> HIDE DEF T, z
  <2>3. \A k \in T : k <= z
    BY <1>1, <2>2
  <2> QED
    BY <2>2, <2>3 DEF z
<1> QED
  BY <1>1, <1>4

\* The first pass.
LEMMA FirstPass ==
  ASSUME wire \subseteq Roms, wire # {}, LastDiscrepancy = 0
  PROVE  D!Walked \in wire /\ \A q \in wire : ~Before(q, D!Walked)
<1>1. \A i \in 1 .. RomBits : D!Branch(i) = 0
  BY RomShape DEF D!Branch
<1>2. PICK w \in wire : \A q \in wire : ~Before(q, w)
  BY Earliest
<1>3. Choice(w)
  <2> SUFFICES ASSUME NEW i \in 1 .. RomBits, D!Both(w, i) PROVE w[i] = 0
    BY <1>1 DEF Choice
  <2>1. PICK q \in wire : (\A j \in 1 .. i - 1 : q[j] = w[j]) /\ q[i] # w[i] /\ q[i] \in {0, 1}
    BY BothGives
  <2>2. ~Before(q, w) /\ w[i] \in {0, 1}
    BY <1>2, RomShape
  <2> QED
    BY <2>1, <2>2 DEF Before
<1>4. D!Walked \in wire /\ Choice(D!Walked)
  BY <1>3, WalkedIs
<1>5. ASSUME NEW q \in wire, Before(q, D!Walked) PROVE FALSE
  <2>1. PICK i \in 1 .. RomBits : /\ q[i] = 0 /\ D!Walked[i] = 1
                                  /\ \A j \in 1 .. i - 1 : q[j] = D!Walked[j]
    BY <1>5 DEF Before
  <2>2. D!Both(D!Walked, i)
    BY <2>1, BothIs
  <2> QED
    BY <1>1, <1>4, <2>1, <2>2 DEF Choice
<1> QED
  BY <1>4, <1>5

\* A further pass, from the code address.
LEMMA NextPass ==
  ASSUME wire \subseteq Roms, address \in wire, LastDiscrepancy = D!LastZero(address),
         LastDiscrepancy > 0
  PROVE  /\ D!Walked \in wire
         /\ Before(address, D!Walked)
         /\ \A q \in wire : Before(address, q) => ~Before(q, D!Walked)
<1> DEFINE d == LastDiscrepancy
           a == address
<1>1. d \in 1 .. RomBits /\ D!Both(a, d) /\ a[d] = 0 /\ RomBits \in Nat
  BY LastZeroIs, RomShape
<1>2. \A i \in 1 .. RomBits : D!Both(a, i) /\ a[i] = 0 => i <= d
  BY LastZeroIs
<1>3. ASSUME NEW i \in 1 .. RomBits
      PROVE  /\ i < d => D!Branch(i) = a[i]
             /\ i = d => D!Branch(i) = 1
             /\ i > d => D!Branch(i) = 0
  BY <1>1 DEF D!Branch
<1> HIDE DEF d, a
<1>a. a \in wire
  BY DEF a
<1> DEFINE T == {q \in wire : (\A j \in 1 .. d - 1 : q[j] = a[j]) /\ q[d] = 1}
<1>4. PICK w \in T : \A q \in T : ~Before(q, w)
  <2>1. PICK q \in wire : (\A j \in 1 .. d - 1 : q[j] = a[j]) /\ q[d] # a[d] /\ q[d] \in {0, 1}
    BY <1>1, <1>a, BothGives
  <2>2. q \in T /\ T \in SUBSET Roms
    BY <1>1, <2>1
  <2> HIDE DEF T
  <2> QED
    BY <2>2, Earliest
<1>5. Choice(w)
  <2> SUFFICES ASSUME NEW i \in 1 .. RomBits, D!Both(w, i) PROVE w[i] = D!Branch(i)
    BY DEF Choice
  <2>1. CASE i <= d
    <3>1. i < d => i \in 1 .. d - 1
      BY <1>1
    <3> QED
      BY <1>1, <1>3, <1>4, <2>1, <3>1
  <2>2. CASE i > d
    <3>1. PICK q \in wire : (\A j \in 1 .. i - 1 : q[j] = w[j]) /\ q[i] # w[i] /\ q[i] \in {0, 1}
      BY <1>4, BothGives
    <3>2. q \in T
      <4>1. \A j \in 1 .. d : j \in 1 .. i - 1
        BY <1>1, <2>2
      <4>2. d \in 1 .. d
        BY <1>1
      <4>3. \A j \in 1 .. d - 1 : j \in 1 .. d
        BY <1>1
      <4> QED
        BY <1>4, <3>1, <4>1, <4>2, <4>3
    <3>3. ~Before(q, w) /\ w[i] \in {0, 1}
      BY <1>4, <3>2, RomShape
    <3>4. w[i] = 0
      BY <3>1, <3>3 DEF Before
    <3> QED
      BY <1>3, <2>2, <3>4
  <2> QED
    BY <1>1, <2>1, <2>2
<1>6. D!Walked \in wire /\ Choice(D!Walked)
  <2>1. w \in wire
    BY <1>4
  <2> QED
    BY <1>5, <2>1, WalkedIs
<1> DEFINE v == D!Walked
<1> HIDE DEF v, T
<1>7. \A j \in 1 .. d - 1 : v[j] = a[j]
  <2> DEFINE U == {j \in 1 .. d - 1 : v[j] # a[j]}
  <2>1. ASSUME U # {} PROVE FALSE
    <3>1. U \in SUBSET Nat
      BY <1>1
    <3>2. PICK j \in U : \A k \in U : j <= k
      <4> HIDE DEF U
      <4> QED
        BY <2>1, <3>1, LeastNumber
    <3>3. j \in 1 .. RomBits /\ j < d /\ v[j] # a[j]
      BY <1>1, <3>2
    <3>4. \A k \in 1 .. j - 1 : a[k] = v[k]
      <4> SUFFICES ASSUME NEW k \in 1 .. j - 1 PROVE a[k] = v[k]
        OBVIOUS
      <4>1. k \in 1 .. d - 1 /\ ~ (j <= k)
        BY <1>1, <3>2
      <4> QED
        BY <3>2, <4>1
    <3>5. D!Both(v, j)
      BY <1>a, <3>3, <3>4, BothIs
    <3>6. v[j] = D!Branch(j)
      BY <1>6, <3>3, <3>5 DEF Choice, v
    <3> QED
      BY <1>3, <3>3, <3>6
  <2> QED
    BY <2>1
<1>8. v[d] = 1
  <2>1. PICK q \in wire : (\A j \in 1 .. d - 1 : q[j] = a[j]) /\ q[d] # a[d] /\ q[d] \in {0, 1}
    BY <1>1, <1>a, BothGives
  <2>2. v[d] \in {0, 1} /\ q[d] = 1
    BY <1>1, <1>6, <2>1, RomShape DEF v
  <2>3. ASSUME v[d] = 0 PROVE FALSE
    <3>1. D!Both(v, d)
      BY <1>1, <1>7, <2>1, <2>2, <2>3, BothIs
    <3>2. v[d] = D!Branch(d)
      BY <1>1, <1>6, <3>1 DEF Choice, v
    <3> QED
      BY <1>1, <1>3, <2>3, <3>2
  <2> QED
    BY <2>2, <2>3
<1>9. Before(a, v)
  BY <1>1, <1>7, <1>8 DEF Before
<1>10. ASSUME NEW q \in wire, Before(a, q), Before(q, v) PROVE FALSE
  <2>1. PICK i \in 1 .. RomBits : a[i] = 0 /\ q[i] = 1 /\ \A j \in 1 .. i - 1 : a[j] = q[j]
    BY <1>10 DEF Before
  <2>2. PICK k \in 1 .. RomBits : q[k] = 0 /\ v[k] = 1 /\ \A j \in 1 .. k - 1 : q[j] = v[j]
    BY <1>10 DEF Before
  <2>3. i <= d
    <3>1. D!Both(a, i)
      BY <2>1, BothIs
    <3> QED
      BY <1>2, <2>1, <3>1
  <2>4. CASE k < i
    <3>1. k \in 1 .. i - 1 /\ k \in 1 .. d - 1
      BY <1>1, <2>3, <2>4
    <3> QED
      BY <1>7, <2>1, <2>2, <3>1
  <2>5. CASE k = i
    BY <2>1, <2>2, <2>5
  <2>6. CASE k > i
    <3>1. i \in 1 .. k - 1
      BY <2>6
    <3>2. v[i] = 1
      BY <2>1, <2>2, <3>1
    <3>3. i = d
      <4>1. ASSUME i # d PROVE FALSE
        <5>1. i \in 1 .. d - 1
          BY <1>1, <2>3, <4>1
        <5> QED
          BY <1>7, <2>1, <3>2, <5>1
      <4> QED
        BY <4>1
    <3>4. D!Both(v, k)
      BY <2>2, BothIs
    <3>5. v[k] = D!Branch(k)
      BY <1>6, <3>4 DEF Choice, v
    <3> QED
      BY <1>3, <2>2, <2>6, <3>3, <3>5
  <2> QED
    BY <2>4, <2>5, <2>6
<1> QED
  BY <1>6, <1>9, <1>10 DEF a, v

\* No code is behind the one of the last pass.
LEMMA LastPass ==
  ASSUME wire \subseteq Roms, address \in wire, D!LastZero(address) = 0
  PROVE  \A q \in wire : ~Before(address, q)
<1> SUFFICES ASSUME NEW q \in wire, Before(address, q) PROVE FALSE
  OBVIOUS
<1>1. PICK i \in 1 .. RomBits : /\ address[i] = 0 /\ q[i] = 1
                                /\ \A j \in 1 .. i - 1 : address[j] = q[j]
  BY DEF Before
<1>2. D!Both(address, i)
  BY <1>1, BothIs
<1>3. i <= D!LastZero(address)
  BY <1>1, <1>2, LastZeroIs
<1> QED
  BY <1>3, RomShape

Fresh == LastDiscrepancy = 0 /\ ~LastDeviceFlag /\ devices = << >>

\* The last pass ended at address, and what was to be kept up to there was.
Passed ==
  /\ address \in wire
  /\ LastDiscrepancy = D!LastZero(address)
  /\ LastDeviceFlag <=> LastDiscrepancy = 0
  /\ \A q \in D!Wanted :
       (\E i \in 1 .. Len(devices) : devices[i] = q) <=> ~Before(address, q)

Found ==
  /\ \A i, j \in 1 .. Len(devices) : devices[i] = devices[j] => i = j
  /\ \A i \in 1 .. Len(devices) : devices[i] \in D!Wanted

FoundAll == \A q \in D!Wanted : \E i \in 1 .. Len(devices) : devices[i] = q

Searched ==
  /\ timer = "search" => Len(devices) < OW_MAX_DEVICES /\ Found /\ (Fresh \/ Passed)
  /\ timer \in {"p1", "p2"} =>
       /\ Found
       /\ Len(devices) = OW_MAX_DEVICES \/ (Len(devices) < OW_MAX_DEVICES /\ FoundAll)

SearchInv ==
  /\ wire \subseteq Roms /\ devices \in Seq(Roms)
  /\ steady /\ D!Plain => Searched

\* The code a pass keeps is new, and the ones up to it are those up to address
\* and it.
LEMMA PassAdds ==
  ASSUME wire \subseteq Roms, wire # {}, Fresh \/ Passed, ~LastDeviceFlag,
         devices \in Seq(Roms)
  PROVE  /\ D!Walked \in wire
         /\ \A q \in D!Wanted :
              ~Before(D!Walked, q) <=> q = D!Walked \/ \E i \in 1 .. Len(devices) : devices[i] = q
         /\ D!Walked \in D!Wanted => \A i \in 1 .. Len(devices) : devices[i] # D!Walked
<1>0. D!Wanted \subseteq wire
  BY DEF D!Wanted
<1> DEFINE v == D!Walked
<1>1. CASE Fresh
  <2>1. v \in wire /\ \A q \in wire : ~Before(q, v)
    BY <1>1, FirstPass DEF Fresh
  <2>2. Len(devices) = 0
    BY <1>1 DEF Fresh
  <2>3. 1 .. Len(devices) = {}
    BY <2>2
  <2> HIDE DEF v
  <2>4. ASSUME NEW q \in D!Wanted PROVE ~Before(v, q) <=> q = v
    <3>1. q # v => Before(v, q)
      BY <1>0, <2>1, BeforeTotal
    <3> QED
      BY <3>1, BeforeIrreflexive
  <2> QED
    BY <2>1, <2>3, <2>4 DEF v
<1>2. CASE Passed
  <2>1. LastDiscrepancy > 0
    BY <1>2, LastZeroIs, RomShape DEF Passed
  <2>2. /\ v \in wire /\ Before(address, v)
        /\ \A q \in wire : Before(address, q) => ~Before(q, v)
    BY <1>2, <2>1, NextPass DEF Passed
  <2>3. address \in Roms /\ v \in Roms /\ D!Wanted \subseteq Roms
    BY <1>0, <1>2, <2>2 DEF Passed
  <2> HIDE DEF v
  <2>4. ASSUME NEW q \in D!Wanted PROVE ~Before(v, q) <=> q = v \/ ~Before(address, q)
    <3>1. q # v /\ ~Before(v, q) => Before(q, v)
      BY <2>3, BeforeTotal
    <3>2. Before(q, v) => ~Before(address, q)
      BY <1>0, <2>2
    <3>3. ~Before(v, v)
      BY BeforeIrreflexive
    <3>4. Before(v, q) => Before(address, q)
      BY <2>2, <2>3, BeforeTransitive
    <3> QED
      BY <3>1, <3>2, <3>3, <3>4
  <2>5. \A q \in D!Wanted : (\E i \in 1 .. Len(devices) : devices[i] = q) <=> ~Before(address, q)
    BY <1>2 DEF Passed
  <2>6. v \in D!Wanted => ~ \E i \in 1 .. Len(devices) : devices[i] = v
    BY <2>2, <2>5
  <2> QED
    BY <2>2, <2>4, <2>5, <2>6 DEF v
<1> QED
  BY <1>1, <1>2

\* The devices behind a code that is kept.
LEMMA FoundMore ==
  ASSUME devices \in Seq(Roms), Found, NEW v \in D!Wanted, NEW ds, ds = Append(devices, v),
         \A i \in 1 .. Len(devices) : devices[i] # v
  PROVE  /\ Len(ds) = Len(devices) + 1
         /\ \A i, j \in 1 .. Len(ds) : ds[i] = ds[j] => i = j
         /\ \A i \in 1 .. Len(ds) : ds[i] \in D!Wanted
         /\ \A q : (\E i \in 1 .. Len(ds) : ds[i] = q) <=> q = v \/ \E i \in 1 .. Len(devices) : devices[i] = q
<1> DEFINE n == Len(devices)
<1>1. n \in Nat /\ Len(ds) = n + 1 /\ ds[n + 1] = v /\ \A i \in 1 .. n : ds[i] = devices[i]
  OBVIOUS
<1>2. \A i \in 1 .. n + 1 : i \in 1 .. n \/ i = n + 1
  <2> HIDE DEF n
  <2> QED
    BY <1>1
<1>3. \A i \in 1 .. n : i \in 1 .. n + 1
  OBVIOUS
<1>4. n + 1 \in 1 .. n + 1
  BY <1>1
<1>5. \A i, j \in 1 .. n : devices[i] = devices[j] => i = j
  BY DEF Found
<1>6. \A i \in 1 .. n : devices[i] \in D!Wanted /\ devices[i] # v
  BY DEF Found
<1> HIDE DEF n
<1>7. \A i, j \in 1 .. Len(ds) : ds[i] = ds[j] => i = j
  BY <1>1, <1>2, <1>5, <1>6
<1>8. \A i \in 1 .. Len(ds) : ds[i] \in D!Wanted
  BY <1>1, <1>2, <1>6
<1>9. ASSUME NEW q
      PROVE  (\E i \in 1 .. Len(ds) : ds[i] = q) <=> q = v \/ \E i \in 1 .. n : devices[i] = q
  <2>1. ASSUME NEW i \in 1 .. Len(ds), ds[i] = q PROVE q = v \/ \E k \in 1 .. n : devices[k] = q
    BY <1>1, <1>2, <2>1
  <2>2. ASSUME NEW k \in 1 .. n, devices[k] = q PROVE \E i \in 1 .. Len(ds) : ds[i] = q
    BY <1>1, <1>3, <2>2
  <2>3. q = v => \E i \in 1 .. Len(ds) : ds[i] = q
    BY <1>1, <1>4
  <2> QED
    BY <2>1, <2>2, <2>3
<1> QED
  BY <1>1, <1>7, <1>8, <1>9 DEF n

LEMMA SearchInit == D!Init => SearchInv
<1> SUFFICES ASSUME D!Init PROVE SearchInv
  OBVIOUS
<1>1. wire \in SUBSET Roms /\ devices = << >> /\ timer = "none"
  BY DEF D!Init
<1>2. << >> \in Seq(Roms)
  OBVIOUS
<1> QED
  BY <1>1, <1>2 DEF SearchInv, Searched

LEMMA KeptType ==
  ASSUME NEW rom
  PROVE  D!Kept(rom) \in Seq(Roms)
<1>1. << >> \in Seq(Roms)
  OBVIOUS
<1>2. rom \in CrcHolds => <<rom>> \in Seq(Roms)
  BY RomAssumption
<1> QED
  BY <1>1, <1>2 DEF D!Kept

\* One pass.
LEMMA PassStep ==
  ASSUME SearchInv, D!Pass
  PROVE  SearchInv'
<1> DEFINE walked == ~LastDeviceFlag /\ wire # {}
           at == IF walked THEN D!Walked ELSE address
           found == walked /\ D!Family(at) # D!Family(D!NoAddress)
<1>1. /\ timer = "search" /\ UNCHANGED <<wire, steady>>
      /\ address' = at
      /\ LastDiscrepancy' = (IF found THEN D!LastZero(at) ELSE 0)
      /\ LastDeviceFlag' = (found /\ D!LastZero(at) = 0)
      /\ devices' = (IF found THEN devices \o D!Kept(at) ELSE devices)
      /\ timer' = (IF found /\ ~D!Full(devices') THEN "search" ELSE "p1")
  BY DEF D!Pass, D!ds_search
<1> HIDE DEF at, found
<1>2. wire \subseteq Roms /\ devices \in Seq(Roms)
  BY DEF SearchInv
<1>3. devices' \in Seq(Roms)
  <2>1. D!Kept(at) \in Seq(Roms)
    BY KeptType
  <2> DEFINE k == D!Kept(at)
  <2>2. devices \o k \in Seq(Roms)
    <3>1. k \in Seq(Roms)
      BY <2>1
    <3> HIDE DEF k
    <3> QED
      BY <1>2, <3>1
  <2> QED
    BY <1>1, <1>2, <2>2
<1>4. ASSUME steady, D!Plain PROVE Searched'
  <2>1. Len(devices) < OW_MAX_DEVICES /\ Found /\ (Fresh \/ Passed)
    BY <1>1, <1>4 DEF SearchInv, Searched
  <2>2. D!Wanted' = D!Wanted /\ \A r : D!LastZero(r)' = D!LastZero(r)
    BY <1>1 DEF D!Wanted, D!LastZero, D!Both, D!Here
  <2>3. Len(devices) \in Nat /\ OW_MAX_DEVICES \in Nat
    BY <1>2, RomAssumption
  <2>4. CASE walked
    <3>1. at = D!Walked
      BY <2>4 DEF at
    <3>2. /\ at \in wire
          /\ \A q \in D!Wanted :
               ~Before(at, q) <=> q = at \/ \E i \in 1 .. Len(devices) : devices[i] = q
          /\ at \in D!Wanted => \A i \in 1 .. Len(devices) : devices[i] # at
      BY <1>2, <2>1, <2>4, <3>1, PassAdds
    <3>3. found
      BY <1>4, <2>4, <3>2 DEF found, D!Plain
    <3>4. D!Kept(at) = IF at \in D!Wanted THEN <<at>> ELSE << >>
      BY <3>2 DEF D!Kept, D!Wanted
    <3>5. /\ Found'
          /\ Len(devices') <= OW_MAX_DEVICES /\ Len(devices') \in Nat
          /\ \A q \in D!Wanted : ~Before(at, q) <=> \E i \in 1 .. Len(devices') : devices'[i] = q
      <4>1. CASE at \in D!Wanted
        <5>1. devices' = Append(devices, at)
          <6>1. devices' = devices \o <<at>>
            BY <1>1, <3>3, <3>4, <4>1
          <6>2. at \in Roms
            BY <1>2, <3>2
          <6> QED
            BY <1>2, <6>1, <6>2
        <5>2. /\ Len(devices') = Len(devices) + 1
              /\ \A i, j \in 1 .. Len(devices') : devices'[i] = devices'[j] => i = j
              /\ \A i \in 1 .. Len(devices') : devices'[i] \in D!Wanted
              /\ \A q : (\E i \in 1 .. Len(devices') : devices'[i] = q)
                          <=> q = at \/ \E i \in 1 .. Len(devices) : devices[i] = q
          BY <1>2, <2>1, <3>2, <4>1, <5>1, FoundMore
        <5>3. Found'
          BY <2>2, <5>2 DEF Found
        <5>4. Len(devices') <= OW_MAX_DEVICES /\ Len(devices') \in Nat
          BY <2>1, <2>3, <5>2
        <5> QED
          BY <3>2, <5>2, <5>3, <5>4
      <4>2. CASE at \notin D!Wanted
        <5>1. devices' = devices
          <6>1. devices' = devices \o << >>
            BY <1>1, <3>3, <3>4, <4>2
          <6> QED
            BY <1>2, <6>1
        <5>2. Found'
          BY <2>1, <2>2, <5>1 DEF Found
        <5> QED
          BY <2>1, <2>3, <3>2, <4>2, <5>1, <5>2
      <4> QED
        BY <4>1, <4>2
    <3>6. CASE D!Full(devices')
      <4>1. timer' = "p1" /\ Len(devices') = OW_MAX_DEVICES
        BY <1>1, <2>3, <3>5, <3>6 DEF D!Full
      <4> QED
        BY <3>5, <4>1 DEF Searched
    <3>7. CASE ~D!Full(devices')
      <4>1. timer' = "search" /\ Len(devices') < OW_MAX_DEVICES
        BY <1>1, <2>3, <3>3, <3>5, <3>7 DEF D!Full
      <4>2. /\ address' \in wire' /\ LastDiscrepancy' = D!LastZero(address)'
            /\ (LastDeviceFlag' <=> LastDiscrepancy' = 0)
        <5>1. address' = at /\ LastDiscrepancy' = D!LastZero(at)
          BY <1>1, <3>3
        <5>2. LastDeviceFlag' <=> D!LastZero(at) = 0
          BY <1>1, <3>3
        <5>3. D!LastZero(address)' = D!LastZero(at)
          BY <1>1, <5>1 DEF D!LastZero, D!Both, D!Here
        <5> QED
          BY <1>1, <3>2, <5>1, <5>2, <5>3
      <4>3. Passed'
        BY <1>1, <2>2, <3>5, <4>2 DEF Passed
      <4> QED
        BY <3>5, <4>1, <4>3 DEF Searched
    <3> QED
      BY <3>6, <3>7
  <2>5. CASE ~walked
    <3>1. ~found
      BY <2>5 DEF found
    <3>2. devices' = devices /\ timer' = "p1"
      BY <1>1, <3>1
    <3>3. FoundAll
      <4>1. CASE wire = {}
        BY <4>1 DEF FoundAll, D!Wanted
      <4>2. CASE wire # {}
        <5>1. LastDeviceFlag /\ Passed
          BY <2>1, <2>5, <4>2 DEF Fresh
        <5>2. \A q \in wire : ~Before(address, q)
          BY <1>2, <5>1, LastPass DEF Passed
        <5> QED
          BY <5>1, <5>2 DEF Passed, FoundAll, D!Wanted
      <4> QED
        BY <4>1, <4>2
    <3>4. Found' /\ FoundAll'
      BY <2>1, <2>2, <3>2, <3>3 DEF Found, FoundAll
    <3> QED
      BY <2>1, <3>2, <3>4 DEF Searched
  <2> QED
    BY <2>4, <2>5
<1>5. D!Plain' = D!Plain
  BY <1>1 DEF D!Plain
<1> QED
  BY <1>1, <1>2, <1>3, <1>4, <1>5 DEF SearchInv

LEMMA SearchStep == SearchInv /\ [D!Next]_sensorVars => SearchInv'
<1> SUFFICES ASSUME SearchInv, [D!Next]_sensorVars PROVE SearchInv'
  OBVIOUS
<1> USE DEF SearchInv
<1>1. CASE D!ds18b20_search
  <2>1. /\ timer' = "search" /\ LastDiscrepancy' = 0 /\ LastDeviceFlag' = FALSE
        /\ devices' = << >> /\ wire' = wire
    BY <1>1 DEF D!ds18b20_search
  <2>2. << >> \in Seq(Roms) /\ Len(<< >>) = 0
    OBVIOUS
  <2>3. Found' /\ Fresh'
    BY <2>1, <2>2 DEF Found, Fresh
  <2> QED
    BY <2>1, <2>2, <2>3, RomAssumption DEF Searched
<1>2. CASE D!Pass
  BY <1>2, PassStep
<1>3. CASE UNCHANGED <<wire, devices, steady>> /\ timer \in {"p1", "p2"} /\ timer' \in {"p1", "p2"}
  <2>1. (D!Plain' = D!Plain) /\ (D!Wanted' = D!Wanted)
    BY <1>3 DEF D!Plain, D!Wanted
  <2>2. (Found' <=> Found) /\ (FoundAll' <=> FoundAll)
    BY <1>3, <2>1 DEF Found, FoundAll
  <2> QED
    BY <1>3, <2>1, <2>2 DEF Searched
<1>4. CASE D!Change
  <2>1. steady' = FALSE /\ devices' = devices
    BY <1>4 DEF D!Change, D!searchVars
  <2>2. wire' \subseteq Roms
    <3>1. PICK r \in Roms : wire' = IF r \in wire THEN wire \ {r} ELSE wire \cup {r}
      BY <1>4 DEF D!Change
    <3> QED
      BY <3>1
  <2> QED
    BY <2>1, <2>2
<1>5. CASE UNCHANGED sensorVars
  <2>1. UNCHANGED <<wire, address, LastDiscrepancy, LastDeviceFlag, devices, timer, steady>>
    BY <1>5 DEF sensorVars
  <2>2. (D!Plain' = D!Plain) /\ (D!Wanted' = D!Wanted) /\ (D!LastZero(address)' = D!LastZero(address))
    BY <2>1 DEF D!Plain, D!Wanted, D!LastZero, D!Both, D!Here
  <2> QED
    BY <2>1, <2>2 DEF Searched, Found, FoundAll, Fresh, Passed
<1>6. D!ds18b20p1 \/ D!Idle \/ D!ds18b20p2 =>
        UNCHANGED <<wire, devices, steady>> /\ timer \in {"p1", "p2"} /\ timer' \in {"p1", "p2"}
  BY DEF D!ds18b20p1, D!Idle, D!ds18b20p2, D!searchVars, D!vars
<1> QED
  BY <1>1, <1>2, <1>3, <1>4, <1>5, <1>6 DEF D!Next

\* Distinct members of a finite set, and how many they are.
LEMMA CountDistinct ==
  ASSUME NEW T, IsFiniteSet(T), NEW s \in Seq(T),
         \A i, j \in 1 .. Len(s) : s[i] = s[j] => i = j
  PROVE  /\ Len(s) <= Cardinality(T) /\ Cardinality(T) \in Nat
         /\ (\A q \in T : \E i \in 1 .. Len(s) : s[i] = q) => Len(s) = Cardinality(T)
<1> DEFINE n == Len(s)
<1>1. n \in Nat /\ s \in [1 .. n -> T]
  OBVIOUS
<1>2. \A i, j \in 1 .. n : s[i] = s[j] => i = j
  OBVIOUS
<1> HIDE DEF n
<1>3. s \in Injection(1 .. n, T)
  BY <1>1, <1>2 DEF Injection, IsInjective
<1>4. Cardinality(1 .. n) = n /\ IsFiniteSet(1 .. n)
  BY <1>1, FS_Interval
<1>5. n <= Cardinality(T)
  BY <1>3, <1>4, FS_Injection
<1>6. ASSUME \A q \in T : \E i \in 1 .. n : s[i] = q PROVE n = Cardinality(T)
  <2>1. s \in Surjection(1 .. n, T)
    BY <1>1, <1>6 DEF Surjection
  <2> QED
    BY <1>3, <1>4, <2>1, FS_Injection
<1>7. Cardinality(T) \in Nat
  BY FS_CardinalityType
<1> QED
  BY <1>5, <1>6, <1>7 DEF n

\* While the wire stays as it is, ds18b20_search finds each thermometer whose code
\* reads well once, and nothing else; all of them if the table has room, as many
\* as it has room for otherwise: for any codes of any length.
THEOREM ThermometersFound == SensorSpec => []FoundOnce
<1>1. SearchInv => FoundOnce
  <2> SUFFICES ASSUME SearchInv, timer \in {"p1", "p2"}, steady, D!Plain
               PROVE  /\ \A i, j \in 1 .. Len(devices) : devices[i] = devices[j] => i = j
                      /\ \A i \in 1 .. Len(devices) : devices[i] \in D!Wanted
                      /\ Len(devices) = IF D!Cardinality(D!Wanted) < OW_MAX_DEVICES
                                        THEN D!Cardinality(D!Wanted) ELSE OW_MAX_DEVICES
    BY DEF FoundOnce, D!FoundOnce
  <2>1. Found /\ (Len(devices) = OW_MAX_DEVICES \/ (Len(devices) < OW_MAX_DEVICES /\ FoundAll))
    BY DEF SearchInv, Searched
  <2>2. D!Cardinality(D!Wanted) = Cardinality(D!Wanted)
    BY DEF D!Cardinality, Cardinality
  <2> DEFINE T == D!Wanted
             n == Len(devices)
  <2>3. IsFiniteSet(T)
    <3>1. T \in SUBSET Roms
      BY DEF SearchInv, D!Wanted
    <3> HIDE DEF T
    <3> QED
      BY <3>1, RomAssumption, FS_Subset
  <2>4. devices \in Seq(T) /\ n \in Nat
    <3>1. devices \in Seq(Roms) /\ \A i \in 1 .. n : devices[i] \in T
      BY <2>1 DEF SearchInv, Found
    <3> HIDE DEF T
    <3> QED
      BY <3>1
  <2>5. \A i, j \in 1 .. n : devices[i] = devices[j] => i = j
    BY <2>1 DEF Found
  <2> HIDE DEF T
  <2>6. n <= Cardinality(T) /\ Cardinality(T) \in Nat /\ (FoundAll => n = Cardinality(T))
    BY <2>3, <2>4, <2>5, CountDistinct DEF FoundAll, T
  <2> HIDE DEF n
  <2>7. n = IF Cardinality(T) < OW_MAX_DEVICES THEN Cardinality(T) ELSE OW_MAX_DEVICES
    BY <2>1, <2>4, <2>6, RomAssumption DEF n
  <2> QED
    BY <2>1, <2>2, <2>5, <2>7 DEF Found, T, n
<1> QED
  BY <1>1, SearchInit, SearchStep, PTL DEF SensorSpec
-----------------------------------------------------------------------------
(* Calendar: the days in front of a year and of a month, in closed form.    *)

HIDE ChipAssumption

Leap(y) == IF C!LEAPYEAR(y) THEN 1 ELSE 0

\* Days from January 1970 to that of a year.
Jan1(y) ==
  365 * (y - 1970) + ((y - 1) \div 4 - 492) - ((y - 1) \div 100 - 19) + ((y - 1) \div 400 - 4)

\* A year is as long as YEARSIZE says.
LEMMA YearStep ==
  ASSUME NEW y \in Int
  PROVE  /\ Jan1(y) \in Int /\ C!YEARSIZE(y) = 365 + Leap(y) /\ Leap(y) \in {0, 1}
         /\ Jan1(y + 1) = Jan1(y) + C!YEARSIZE(y)
<1>1. y \div 4 = (y - 1) \div 4 + (IF y % 4 = 0 THEN 1 ELSE 0)
  OBVIOUS
<1>2. y \div 100 = (y - 1) \div 100 + (IF y % 100 = 0 THEN 1 ELSE 0)
  OBVIOUS
<1>3. y \div 400 = (y - 1) \div 400 + (IF y % 400 = 0 THEN 1 ELSE 0)
  OBVIOUS
<1>4. (y % 400 = 0 => y % 100 = 0) /\ (y % 100 = 0 => y % 4 = 0)
  OBVIOUS
<1>5. C!YEARSIZE(y) = 365 + Leap(y) /\ Leap(y) \in {0, 1}
  BY DEF C!YEARSIZE, Leap
<1>6. Leap(y) = (IF y % 4 = 0 THEN 1 ELSE 0) - (IF y % 100 = 0 THEN 1 ELSE 0)
                + (IF y % 400 = 0 THEN 1 ELSE 0)
  BY <1>4 DEF Leap, C!LEAPYEAR
<1>7. Jan1(y) \in Int
  BY DEF Jan1
<1>8. Jan1(y + 1) = Jan1(y) + 365 + Leap(y)
  BY <1>1, <1>2, <1>3, <1>6 DEF Jan1
<1> QED
  BY <1>5, <1>7, <1>8

\* Leap days do not become fewer.
LEMMA LeapDays ==
  ASSUME NEW a \in Int, NEW b \in Int, a <= b
  PROVE  a \div 4 - a \div 100 + a \div 400 <= b \div 4 - b \div 100 + b \div 400
<1> DEFINE p == a \div 100
           q == b \div 100
           r == a % 100
           s == b % 100
<1>1. /\ p \in Int /\ q \in Int /\ r \in 0 .. 99 /\ s \in 0 .. 99
      /\ a = 100 * p + r /\ b = 100 * q + s
  OBVIOUS
<1>2. a \div 4 = 25 * p + r \div 4 /\ b \div 4 = 25 * q + s \div 4
  BY <1>1
<1>3. a \div 400 = p \div 4 /\ b \div 400 = q \div 4
  BY <1>1
<1>4. r \div 4 \in 0 .. 24 /\ s \div 4 \in 0 .. 24
  BY <1>1
<1> HIDE DEF p, q, r, s
<1>5. p < q \/ (p = q /\ r <= s)
  BY <1>1
<1>6. p \div 4 <= q \div 4 /\ p \div 4 \in Int /\ q \div 4 \in Int
  BY <1>1, <1>5
<1>7. CASE p < q
  BY <1>1, <1>2, <1>3, <1>4, <1>6, <1>7 DEF p, q
<1>8. CASE p = q /\ r <= s
  <2>1. r \div 4 <= s \div 4
    BY <1>1, <1>8
  <2> QED
    BY <1>1, <1>2, <1>3, <1>4, <1>6, <1>8, <2>1 DEF p, q
<1> QED
  BY <1>5, <1>7, <1>8

\* Years follow each other.
LEMMA YearOrder ==
  ASSUME NEW a \in Int, NEW b \in Int, a <= b
  PROVE  Jan1(a) + 365 * (b - a) <= Jan1(b)
<1> DEFINE p == a - 1
           q == b - 1
<1>1. p \in Int /\ q \in Int /\ p <= q
  OBVIOUS
<1> HIDE DEF p, q
<1>2. p \div 4 - p \div 100 + p \div 400 <= q \div 4 - q \div 100 + q \div 400
  BY <1>1, LeapDays
<1> QED
  BY <1>2 DEF Jan1, p, q

\* The year of a day.
IsYear(y, day) == Jan1(y) <= day /\ day < Jan1(y + 1)
YearAt(day) == CHOOSE y \in Int : IsYear(y, day)

\* Every day is in a year.
LEMMA YearIs ==
  ASSUME NEW day \in Int
  PROVE  /\ YearAt(day) \in Int /\ IsYear(YearAt(day), day)
         /\ \A y \in Int : IsYear(y, day) => y = YearAt(day)
<1> DEFINE first == IF day < 0 THEN 1970 + day ELSE 1970
           far == IF day < 0 THEN 0 - day ELSE day
           T == {k \in Nat : day < Jan1(first + k + 1)}
<1>1. first \in Int /\ far \in Nat
  OBVIOUS
<1>2. Jan1(first) <= day
  <2>1. Jan1(1970) = 0
    BY DEF Jan1
  <2>2. Jan1(first) + 365 * (1970 - first) <= Jan1(1970) /\ Jan1(first) \in Int
    <3>1. first \in Int /\ first <= 1970
      OBVIOUS
    <3> HIDE DEF first
    <3> QED
      BY <3>1, YearOrder, YearStep
  <2> QED
    BY <2>1, <2>2
<1>3. far \in T
  <2>1. Jan1(1970) = 0
    BY DEF Jan1
  <2>2. Jan1(1970) + 365 * (first + far + 1 - 1970) <= Jan1(first + far + 1)
    BY YearOrder
  <2>3. Jan1(first + far + 1) \in Int
    BY YearStep
  <2> QED
    BY <2>1, <2>2, <2>3
<1>4. T \in SUBSET Nat /\ T # {}
  <2> T \in SUBSET Nat
    OBVIOUS
  <2> HIDE DEF T
  <2> QED
    BY <1>3
<1>5. PICK k \in T : \A j \in T : k <= j
  <2> HIDE DEF T
  <2> QED
    BY <1>4, LeastNumber
<1>6. k \in Nat /\ day < Jan1(first + k + 1)
  OBVIOUS
<1>7. Jan1(first + k) <= day
  <2>1. CASE k = 0
    BY <1>1, <1>2, <2>1
  <2>2. CASE k > 0
    <3>1. k - 1 \in Nat /\ k - 1 \notin T
      BY <1>5, <1>6, <2>2
    <3>2. ~(day < Jan1(first + (k - 1) + 1)) /\ first + (k - 1) + 1 = first + k
      BY <1>1, <1>6, <3>1
    <3>3. Jan1(first + k) \in Int
      BY <1>1, <1>6, YearStep
    <3> HIDE DEF T, first
    <3> QED
      BY <3>2, <3>3
  <2> QED
    BY <1>6, <2>1, <2>2
<1>8. first + k \in Int /\ IsYear(first + k, day)
  BY <1>1, <1>6, <1>7 DEF IsYear
<1> HIDE DEF T, first, far
<1>9. YearAt(day) \in Int /\ IsYear(YearAt(day), day)
  BY <1>8 DEF YearAt
<1>10. ASSUME NEW y \in Int, NEW z \in Int, IsYear(y, day), IsYear(z, day), y < z PROVE FALSE
  <2>1. Jan1(y + 1) + 365 * (z - (y + 1)) <= Jan1(z)
    BY <1>10, YearOrder
  <2>2. Jan1(y + 1) \in Int /\ Jan1(z) \in Int
    BY YearStep
  <2> QED
    BY <1>10, <2>1, <2>2 DEF IsYear
<1> QED
  BY <1>9, <1>10

\* Days in front of a month of a year.
Ahead(y, m) ==
  <<0, 31, 59, 90, 120, 151, 181, 212, 243, 273, 304, 334>>[m + 1] + (IF m > 1 THEN Leap(y) ELSE 0)

\* The days in front of each month.
LEMMA AheadIs ==
  ASSUME NEW y \in Int
  PROVE  /\ Ahead(y, 0) = 0 /\ Ahead(y, 1) = 31 /\ Ahead(y, 2) = 59 + Leap(y)
         /\ Ahead(y, 3) = 90 + Leap(y) /\ Ahead(y, 4) = 120 + Leap(y)
         /\ Ahead(y, 5) = 151 + Leap(y) /\ Ahead(y, 6) = 181 + Leap(y)
         /\ Ahead(y, 7) = 212 + Leap(y) /\ Ahead(y, 8) = 243 + Leap(y)
         /\ Ahead(y, 9) = 273 + Leap(y) /\ Ahead(y, 10) = 304 + Leap(y)
         /\ Ahead(y, 11) = 334 + Leap(y)
<1>1. Leap(y) \in {0, 1}
  BY YearStep
<1> QED
  BY <1>1 DEF Ahead

\* The table of months, as a function of the leap year.
LEMMA YtabIs ==
  ASSUME NEW y \in Int
  PROVE  /\ C!_ytab(y, 0) = 31 /\ C!_ytab(y, 1) = 28 + Leap(y) /\ C!_ytab(y, 2) = 31
         /\ C!_ytab(y, 3) = 30 /\ C!_ytab(y, 4) = 31 /\ C!_ytab(y, 5) = 30
         /\ C!_ytab(y, 6) = 31 /\ C!_ytab(y, 7) = 31 /\ C!_ytab(y, 8) = 30
         /\ C!_ytab(y, 9) = 31 /\ C!_ytab(y, 10) = 30 /\ C!_ytab(y, 11) = 31
BY DEF C!_ytab, Leap

\* A month begins where the one in front of it ends; twelve make a year.
LEMMA MonthAhead ==
  ASSUME NEW y \in Int, NEW m \in 0 .. 11
  PROVE  /\ Ahead(y, m) \in 0 .. 335 /\ C!_ytab(y, m) \in 28 .. 31
         /\ IF m = 11 THEN Ahead(y, m) + C!_ytab(y, m) = C!YEARSIZE(y)
            ELSE Ahead(y, m + 1) = Ahead(y, m) + C!_ytab(y, m)
<1>1. Leap(y) \in {0, 1} /\ C!YEARSIZE(y) = 365 + Leap(y)
  BY YearStep
<1>2. m \in {0, 1, 2, 3, 4, 5, 6, 7, 8, 9, 10, 11}
  OBVIOUS
<1> QED
  BY <1>1, <1>2, AheadIs, YtabIs

\* The months of a year follow each other.
LEMMA AheadOrder ==
  ASSUME NEW y \in Int, NEW l \in 0 .. 11, NEW m \in 0 .. 11, l <= m
  PROVE  Ahead(y, l) <= Ahead(y, m)
<1>1. Leap(y) \in {0, 1}
  BY YearStep
<1> QED
  BY <1>1 DEF Ahead

\* The loop of mktime that adds up the months.
LEMMA YearDayIs ==
  ASSUME NEW y \in Int, NEW m \in 0 .. 11, NEW d \in Int
  PROVE  C!YearDay(y, m, d) = Ahead(y, m) + d - 1
<1> DEFINE Sum(f) == [n \in 0 .. 11 |-> IF n = 0 THEN 0 ELSE f[n - 1] + C!_ytab(y, n - 1)]
           table == [n \in 0 .. 11 |-> Ahead(y, n)]
           before == CHOOSE f : f = Sum(f)
<1>1. table = Sum(table)
  <2> SUFFICES ASSUME NEW n \in 0 .. 11
               PROVE  Ahead(y, n) = IF n = 0 THEN 0 ELSE table[n - 1] + C!_ytab(y, n - 1)
    OBVIOUS
  <2>1. CASE n = 0
    BY <2>1, AheadIs
  <2>2. CASE n # 0
    <3>1. n - 1 \in 0 .. 11 /\ n - 1 # 11 /\ (n - 1) + 1 = n
      BY <2>2
    <3>2. Ahead(y, n) = Ahead(y, n - 1) + C!_ytab(y, n - 1)
      BY <3>1, MonthAhead
    <3> QED
      BY <2>2, <3>1, <3>2
  <2> QED
    BY <2>1, <2>2
<1>2. before = Sum(before)
  <2> HIDE DEF Sum, table
  <2> QED
    BY <1>1
<1>3. C!YearDay(y, m, d) = before[m] + d - 1
  BY DEF C!YearDay
<1> HIDE DEF before
<1>4. before[0] = 0 /\ \A n \in 1 .. 11 : before[n] = before[n - 1] + C!_ytab(y, n - 1)
  <2>1. \A n \in 0 .. 11 : Sum(before)[n] = IF n = 0 THEN 0 ELSE before[n - 1] + C!_ytab(y, n - 1)
    OBVIOUS
  <2> HIDE DEF Sum
  <2>2. \A n \in 0 .. 11 : before[n] = IF n = 0 THEN 0 ELSE before[n - 1] + C!_ytab(y, n - 1)
    BY <1>2, <2>1, Zenon
  <2> HIDE DEF Sum
  <2> QED
    BY <2>2
<1>5. before[m] = Ahead(y, m)
  <2>1. /\ before[1] = before[0] + C!_ytab(y, 0) /\ before[2] = before[1] + C!_ytab(y, 1)
        /\ before[3] = before[2] + C!_ytab(y, 2) /\ before[4] = before[3] + C!_ytab(y, 3)
        /\ before[5] = before[4] + C!_ytab(y, 4) /\ before[6] = before[5] + C!_ytab(y, 5)
        /\ before[7] = before[6] + C!_ytab(y, 6) /\ before[8] = before[7] + C!_ytab(y, 7)
        /\ before[9] = before[8] + C!_ytab(y, 8) /\ before[10] = before[9] + C!_ytab(y, 9)
        /\ before[11] = before[10] + C!_ytab(y, 10)
    BY <1>4
  <2>2. Leap(y) \in {0, 1}
    BY YearStep
  <2> QED
    BY <1>4, <2>1, <2>2, AheadIs, YtabIs
<1> QED
  BY <1>3, <1>5

\* Days from January 1970 to the n-th month after January 1900.
First(n) == Jan1(1900 + n \div 12) + Ahead(1900 + n \div 12, n % 12)

\* A month is as long as the table says, also from December to January.
LEMMA MonthStep ==
  ASSUME NEW n \in Int
  PROVE  /\ First(n) \in Int /\ C!MonthSize(n) \in 28 .. 31
         /\ First(n + 1) = First(n) + C!MonthSize(n)
<1> DEFINE y == 1900 + n \div 12
           m == n % 12
<1>1. y \in Int /\ m \in 0 .. 11
  OBVIOUS
<1>2. First(n) = Jan1(y) + Ahead(y, m) /\ C!MonthSize(n) = C!_ytab(y, m)
  BY DEF First, C!MonthSize, C!YEAR0
<1>3. IF m = 11 THEN 1900 + (n + 1) \div 12 = y + 1 /\ (n + 1) % 12 = 0
      ELSE 1900 + (n + 1) \div 12 = y /\ (n + 1) % 12 = m + 1
  OBVIOUS
<1>4. First(n + 1) = IF m = 11 THEN Jan1(y + 1) + Ahead(y + 1, 0) ELSE Jan1(y) + Ahead(y, m + 1)
  <2> HIDE DEF y, m
  <2> QED
    BY <1>3 DEF First
<1> HIDE DEF y, m
<1>5. /\ Ahead(y, m) \in 0 .. 335 /\ C!_ytab(y, m) \in 28 .. 31
      /\ IF m = 11 THEN Ahead(y, m) + C!_ytab(y, m) = C!YEARSIZE(y)
         ELSE Ahead(y, m + 1) = Ahead(y, m) + C!_ytab(y, m)
  BY <1>1, MonthAhead
<1>6. Jan1(y) \in Int /\ Jan1(y + 1) = Jan1(y) + C!YEARSIZE(y) /\ C!YEARSIZE(y) \in Int
  BY <1>1, YearStep
<1>7. Ahead(y + 1, 0) = 0
  BY <1>1, AheadIs
<1> QED
  BY <1>2, <1>4, <1>5, <1>6, <1>7

\* A month lies in its year.
LEMMA MonthInYear ==
  ASSUME NEW n \in Int, NEW day \in Int, First(n) <= day, day < First(n + 1)
  PROVE  /\ 1900 + n \div 12 = YearAt(day)
         /\ Jan1(1900 + n \div 12) <= day /\ day < Jan1(1900 + n \div 12 + 1)
<1> DEFINE y == 1900 + n \div 12
           m == n % 12
<1>1. y \in Int /\ m \in 0 .. 11
  OBVIOUS
<1>2. First(n) = Jan1(y) + Ahead(y, m) /\ C!MonthSize(n) = C!_ytab(y, m)
  BY DEF First, C!MonthSize, C!YEAR0
<1>3. First(n + 1) = First(n) + C!MonthSize(n)
  BY MonthStep
<1> HIDE DEF y, m
<1>4. Ahead(y, m) \in 0 .. 335 /\ C!_ytab(y, m) \in 28 .. 31 /\ Ahead(y, m) + C!_ytab(y, m) <= C!YEARSIZE(y)
  <2>1. CASE m = 11
    <3>1. C!YEARSIZE(y) \in Int
      BY <1>1, YearStep
    <3> QED
      BY <1>1, <2>1, <3>1, MonthAhead
  <2>2. CASE m # 11
    <3>1. m + 1 \in 0 .. 11
      BY <1>1, <2>2
    <3>2. Ahead(y, m + 1) = Ahead(y, m) + C!_ytab(y, m)
      BY <1>1, <2>2, MonthAhead
    <3>3. Ahead(y, m) \in 0 .. 335 /\ C!_ytab(y, m) \in 28 .. 31
      BY <1>1, MonthAhead
    <3>4. Ahead(y, m + 1) \in 0 .. 335
      BY <1>1, <3>1, MonthAhead
    <3>5. C!YEARSIZE(y) \in {365, 366}
      BY <1>1, YearStep
    <3> QED
      BY <3>2, <3>3, <3>4, <3>5
  <2> QED
    BY <2>1, <2>2
<1>5. Jan1(y) \in Int /\ Jan1(y + 1) = Jan1(y) + C!YEARSIZE(y) /\ C!YEARSIZE(y) \in {365, 366}
  BY <1>1, YearStep
<1>6. Jan1(y) <= day /\ day < Jan1(y + 1)
  BY <1>2, <1>3, <1>4, <1>5
<1>7. y = YearAt(day)
  BY <1>1, <1>6, YearIs DEF IsYear
<1> QED
  BY <1>6, <1>7 DEF y

\* Months follow each other.
LEMMA MonthOrder ==
  ASSUME NEW a \in Int, NEW b \in Int, a <= b
  PROVE  First(a) <= First(b)
<1> DEFINE y == 1900 + a \div 12
           z == 1900 + b \div 12
           l == a % 12
           m == b % 12
           p == Jan1(y)
           q == Ahead(y, l)
           r == Jan1(z)
           s == Ahead(z, m)
<1>1. y \in Int /\ z \in Int /\ l \in 0 .. 11 /\ m \in 0 .. 11 /\ (y < z \/ (y = z /\ l <= m))
  OBVIOUS
<1>2. First(a) = p + q /\ First(b) = r + s
  BY DEF First
<1> HIDE DEF y, z, l, m
<1>3. p \in Int /\ q \in 0 .. 335 /\ r \in Int /\ s \in 0 .. 335
  BY <1>1, MonthAhead, YearStep
<1>4. CASE y < z
  <2>1. p + 365 * (z - y) <= r
    BY <1>1, <1>4, YearOrder
  <2> HIDE DEF p, q, r, s
  <2> QED
    BY <1>1, <1>2, <1>3, <1>4, <2>1
<1>5. CASE y = z /\ l <= m
  <2>1. p = r /\ q <= s
    BY <1>1, <1>5, AheadOrder
  <2> HIDE DEF p, q, r, s
  <2> QED
    BY <1>2, <1>3, <2>1
<1> QED
  BY <1>1, <1>4, <1>5

\* The month of a day.
IsMonth(n, day) == First(n) <= day /\ day < First(n + 1)
MonthAt(day) == CHOOSE n \in Int : IsMonth(n, day)

\* Every day is in a month.
LEMMA MonthIs ==
  ASSUME NEW day \in Int
  PROVE  /\ MonthAt(day) \in Int /\ IsMonth(MonthAt(day), day)
         /\ \A n \in Int : IsMonth(n, day) => n = MonthAt(day)
<1> DEFINE y == YearAt(day)
           base == 12 * (y - 1900)
           T == {m \in Nat : m < 12 /\ day < First(base + m + 1)}
<1>1. y \in Int /\ IsYear(y, day)
  BY YearIs
<1>2. base \in Int /\ First(base) = Jan1(y) /\ First(base + 12) = Jan1(y + 1)
  <2> HIDE DEF y
  <2>1. base \in Int /\ 1900 + base \div 12 = y /\ base % 12 = 0
    BY <1>1
  <2>2. 1900 + (base + 12) \div 12 = y + 1 /\ (base + 12) % 12 = 0
    BY <1>1
  <2>3. Ahead(y, 0) = 0 /\ Ahead(y + 1, 0) = 0 /\ Jan1(y) \in Int /\ Jan1(y + 1) \in Int
    BY <1>1, AheadIs, YearStep
  <2> HIDE DEF base
  <2> QED
    BY <2>1, <2>2, <2>3 DEF First
<1> HIDE DEF base, y
<1>3. 11 \in T
  BY <1>1, <1>2 DEF IsYear
<1>4. T \in SUBSET Nat /\ T # {}
  <2> T \in SUBSET Nat
    OBVIOUS
  <2> HIDE DEF T
  <2> QED
    BY <1>3
<1>5. PICK k \in T : \A j \in T : k <= j
  <2> HIDE DEF T
  <2> QED
    BY <1>4, LeastNumber
<1>6. k \in 0 .. 11 /\ day < First(base + k + 1)
  OBVIOUS
<1>7. First(base + k) <= day
  <2>1. CASE k = 0
    BY <1>1, <1>2, <2>1 DEF IsYear
  <2>2. CASE k > 0
    <3>1. k - 1 \in Nat /\ k - 1 < 12 /\ k - 1 \notin T
      BY <1>5, <1>6, <2>2
    <3>2. ~(day < First(base + (k - 1) + 1)) /\ base + (k - 1) + 1 = base + k
      BY <1>2, <1>6, <3>1
    <3>3. First(base + k) \in Int
      BY <1>2, <1>6, MonthStep
    <3> HIDE DEF T
    <3> QED
      BY <3>2, <3>3
  <2> QED
    BY <1>6, <2>1, <2>2
<1>8. base + k \in Int /\ IsMonth(base + k, day)
  BY <1>2, <1>6, <1>7 DEF IsMonth
<1> HIDE DEF T
<1>9. MonthAt(day) \in Int /\ IsMonth(MonthAt(day), day)
  BY <1>8 DEF MonthAt
<1>10. ASSUME NEW l \in Int, NEW n \in Int, IsMonth(l, day), IsMonth(n, day), l < n PROVE FALSE
  <2>1. l + 1 \in Int /\ l + 1 <= n
    BY <1>10
  <2>2. First(l + 1) <= First(n)
    BY <2>1, MonthOrder
  <2>3. First(l + 1) \in Int /\ First(n) \in Int
    BY <2>1, MonthStep
  <2> QED
    BY <1>10, <2>2, <2>3 DEF IsMonth
<1> QED
  BY <1>9, <1>10

\* Where the loop of gmtime_r over the years ends.
YearRun(n) == <<YearAt(n), n - Jan1(YearAt(n))>>

YearLoop(f) ==
  [p \in Nat \X Nat |->
    IF p[2] >= C!YEARSIZE(p[1]) THEN f[<<p[1] + 1, p[2] - C!YEARSIZE(p[1])>>] ELSE p]

\* One turn of the loop over the years comes nearer to the year of the day.
LEMMA YearTurn ==
  ASSUME NEW y \in Nat, NEW d \in Nat
  PROVE  /\ Jan1(y) + d \in Int
         /\ IF d >= C!YEARSIZE(y)
            THEN /\ y + 1 \in Nat /\ d - C!YEARSIZE(y) \in Nat /\ d - C!YEARSIZE(y) < d
                 /\ Jan1(y + 1) + (d - C!YEARSIZE(y)) = Jan1(y) + d
            ELSE YearRun(Jan1(y) + d) = <<y, d>>
<1>1. Jan1(y) \in Int /\ C!YEARSIZE(y) \in {365, 366} /\ Jan1(y + 1) = Jan1(y) + C!YEARSIZE(y)
  BY YearStep
<1>2. CASE d >= C!YEARSIZE(y)
  BY <1>1, <1>2
<1>3. CASE ~(d >= C!YEARSIZE(y))
  <2> DEFINE n == Jan1(y) + d
  <2>1. n \in Int /\ Jan1(y) <= n /\ n < Jan1(y + 1) /\ n - Jan1(y) = d
    BY <1>1, <1>3
  <2> HIDE DEF n
  <2>2. YearAt(n) = y
    BY <2>1, YearIs DEF IsYear
  <2>3. YearRun(n) = <<y, d>>
    BY <2>1, <2>2 DEF YearRun
  <2> QED
    BY <1>3, <2>1, <2>3 DEF n
<1> QED
  BY <1>2, <1>3

\* YearLoop has a solution, so that Years, which is chosen, is one.
LEMMA YearsLoop == C!Years = YearLoop(C!Years)
<1> DEFINE W == [p \in Nat \X Nat |-> YearRun(Jan1(p[1]) + p[2])]
<1>1. W = YearLoop(W)
  <2> SUFFICES ASSUME NEW y \in Nat, NEW d \in Nat
               PROVE  W[<<y, d>>] = IF d >= C!YEARSIZE(y) THEN W[<<y + 1, d - C!YEARSIZE(y)>>]
                                    ELSE <<y, d>>
    BY DEF YearLoop
  <2>1. W[<<y, d>>] = YearRun(Jan1(y) + d)
    OBVIOUS
  <2>2. CASE d >= C!YEARSIZE(y)
    <3> DEFINE e == d - C!YEARSIZE(y)
               z == y + 1
    <3>1. z \in Nat /\ e \in Nat /\ Jan1(z) + e = Jan1(y) + d
      BY <2>2, YearTurn
    <3> HIDE DEF z, e
    <3>2. W[<<z, e>>] = YearRun(Jan1(z) + e)
      BY <3>1
    <3> QED
      BY <2>1, <2>2, <3>1, <3>2 DEF z, e
  <2>3. CASE ~(d >= C!YEARSIZE(y))
    BY <2>1, <2>3, YearTurn
  <2> QED
    BY <2>2, <2>3
<1>2. C!Years = CHOOSE f : f = YearLoop(f)
  BY DEF C!Years, YearLoop
<1> HIDE DEF W
<1> QED
  BY <1>1, <1>2

\* The loop of gmtime_r over the years ends in the year of the day: by the least distance
\* at which it would not.
LEMMA YearsIs ==
  ASSUME NEW y \in Nat, NEW d \in Nat
  PROVE  C!Years[<<y, d>>] = YearRun(Jan1(y) + d)
<1> DEFINE Wrong(z, k) == C!Years[<<z, k>>] # YearRun(Jan1(z) + k)
           T == {k \in Nat : \E z \in Nat : Wrong(z, k)}
<1>1. ASSUME NEW z \in Nat, NEW k \in Nat
      PROVE  C!Years[<<z, k>>] = IF k >= C!YEARSIZE(z) THEN C!Years[<<z + 1, k - C!YEARSIZE(z)>>]
                                 ELSE <<z, k>>
  <2>1. YearLoop(C!Years)[<<z, k>>] =
          IF k >= C!YEARSIZE(z) THEN C!Years[<<z + 1, k - C!YEARSIZE(z)>>] ELSE <<z, k>>
    BY DEF YearLoop
  <2> QED
    BY <2>1, YearsLoop
<1>2. ASSUME T # {} PROVE FALSE
  <2>1. PICK k \in T : \A j \in T : k <= j
    <3>1. T \in SUBSET Nat
      OBVIOUS
    <3> HIDE DEF T
    <3> QED
      BY <1>2, <3>1, LeastNumber
  <2>2. PICK z \in Nat : Wrong(z, k)
    OBVIOUS
  <2>3. CASE k >= C!YEARSIZE(z)
    <3> DEFINE e == k - C!YEARSIZE(z)
               x == z + 1
    <3>1. x \in Nat /\ e \in Nat /\ e < k /\ Jan1(x) + e = Jan1(z) + k
      BY <2>3, YearTurn
    <3>2. C!Years[<<z, k>>] = C!Years[<<x, e>>]
      BY <1>1, <2>3
    <3> HIDE DEF x, e
    <3>3. e \in T
      BY <2>2, <3>1, <3>2
    <3> HIDE DEF T
    <3> QED
      BY <2>1, <3>1, <3>3
  <2>4. CASE ~(k >= C!YEARSIZE(z))
    BY <1>1, <2>2, <2>4, YearTurn
  <2> QED
    BY <2>3, <2>4
<1> QED
  BY <1>2

\* Where the loops over the months end.
MonthRun(n) == <<MonthAt(n), n - First(MonthAt(n))>>

MonthLoop(f) ==
  [p \in Int \X Int |->
    IF p[2] < 0 THEN f[<<p[1] - 1, p[2] + C!MonthSize(p[1] - 1)>>]
    ELSE IF p[2] >= C!MonthSize(p[1]) THEN f[<<p[1] + 1, p[2] - C!MonthSize(p[1])>>]
    ELSE p]

\* One turn of them comes nearer to the month of the day.
LEMMA MonthTurn ==
  ASSUME NEW m \in Int, NEW d \in Int
  PROVE  LET n == First(m) + d
         IN  /\ n \in Int /\ MonthAt(n) \in Int
             /\ IF d < 0
                THEN /\ m - 1 \in Int /\ d + C!MonthSize(m - 1) \in Int /\ MonthAt(n) < m
                     /\ First(m - 1) + (d + C!MonthSize(m - 1)) = n
                ELSE IF d >= C!MonthSize(m)
                THEN /\ m + 1 \in Int /\ d - C!MonthSize(m) \in Int /\ MonthAt(n) > m
                     /\ First(m + 1) + (d - C!MonthSize(m)) = n
                ELSE MonthRun(n) = <<m, d>>
<1> DEFINE n == First(m) + d
           l == m - 1
           h == MonthAt(n)
<1>1. /\ First(m) \in Int /\ C!MonthSize(m) \in 28 .. 31
      /\ First(m + 1) = First(m) + C!MonthSize(m)
  BY MonthStep
<1>2. l \in Int /\ l + 1 = m
  OBVIOUS
<1>3. First(l) \in Int /\ C!MonthSize(l) \in 28 .. 31 /\ First(m) = First(l) + C!MonthSize(l)
  <2> HIDE DEF l
  <2> QED
    BY <1>2, MonthStep
<1>4. n \in Int /\ First(m) + d = n
  BY <1>1
<1> HIDE DEF n, l
<1>5. h \in Int /\ First(h) <= n /\ n < First(h + 1) /\ First(h) \in Int /\ First(h + 1) \in Int
  <2>1. h \in Int /\ First(h) <= n /\ n < First(h + 1)
    BY <1>4, MonthIs DEF IsMonth
  <2> HIDE DEF h
  <2>2. h + 1 \in Int
    BY <2>1
  <2> QED
    BY <2>1, <2>2, MonthStep
<1>6. CASE d < 0
  <2>1. d + C!MonthSize(l) \in Int /\ First(l) + (d + C!MonthSize(l)) = n
    BY <1>3, <1>4
  <2> HIDE DEF h
  <2>2. ASSUME m <= h PROVE FALSE
    <3>1. First(m) <= First(h)
      BY <1>5, <2>2, MonthOrder
    <3> QED
      BY <1>1, <1>4, <1>5, <1>6, <3>1
  <2>3. h < m
    BY <1>5, <2>2
  <2> QED
    BY <1>2, <1>4, <1>5, <1>6, <2>1, <2>3 DEF n, l, h
<1>7. CASE ~(d < 0) /\ d >= C!MonthSize(m)
  <2>1. d - C!MonthSize(m) \in Int /\ First(m + 1) + (d - C!MonthSize(m)) = n
    BY <1>1, <1>4
  <2> HIDE DEF h
  <2>2. ASSUME h <= m PROVE FALSE
    <3>1. h + 1 \in Int /\ m + 1 \in Int /\ h + 1 <= m + 1
      BY <1>5, <2>2
    <3>2. First(h + 1) <= First(m + 1)
      BY <3>1, MonthOrder
    <3> QED
      BY <1>1, <1>4, <1>5, <1>7, <3>2
  <2>3. h > m
    BY <1>5, <2>2
  <2> QED
    BY <1>4, <1>5, <1>7, <2>1, <2>3 DEF n, h
<1>8. CASE ~(d < 0) /\ ~(d >= C!MonthSize(m))
  <2>1. First(m) <= n /\ n < First(m + 1) /\ n - First(m) = d
    BY <1>1, <1>4, <1>8
  <2>2. h = m
    BY <1>4, <2>1, MonthIs DEF IsMonth
  <2>3. MonthRun(n) = <<m, d>>
    BY <2>1, <2>2 DEF MonthRun
  <2> QED
    BY <1>4, <1>5, <1>8, <2>3 DEF n
<1> QED
  BY <1>6, <1>7, <1>8

\* MonthLoop has a solution, so that DayOf, which is chosen, is one.
LEMMA DayOfLoop == C!DayOf = MonthLoop(C!DayOf)
<1> DEFINE W == [p \in Int \X Int |-> MonthRun(First(p[1]) + p[2])]
<1>1. W = MonthLoop(W)
  <2> SUFFICES ASSUME NEW m \in Int, NEW d \in Int
               PROVE  W[<<m, d>>] =
                        IF d < 0 THEN W[<<m - 1, d + C!MonthSize(m - 1)>>]
                        ELSE IF d >= C!MonthSize(m) THEN W[<<m + 1, d - C!MonthSize(m)>>]
                        ELSE <<m, d>>
    BY DEF MonthLoop
  <2>1. W[<<m, d>>] = MonthRun(First(m) + d)
    OBVIOUS
  <2>2. CASE d < 0
    <3> DEFINE e == d + C!MonthSize(m - 1)
               l == m - 1
    <3>1. l \in Int /\ e \in Int /\ First(l) + e = First(m) + d
      BY <2>2, MonthTurn
    <3> HIDE DEF l, e
    <3>2. W[<<l, e>>] = MonthRun(First(l) + e)
      BY <3>1
    <3> QED
      BY <2>1, <2>2, <3>1, <3>2 DEF l, e
  <2>3. CASE ~(d < 0) /\ d >= C!MonthSize(m)
    <3> DEFINE e == d - C!MonthSize(m)
               h == m + 1
    <3>1. h \in Int /\ e \in Int /\ First(h) + e = First(m) + d
      BY <2>3, MonthTurn
    <3> HIDE DEF h, e
    <3>2. W[<<h, e>>] = MonthRun(First(h) + e)
      BY <3>1
    <3> QED
      BY <2>1, <2>3, <3>1, <3>2 DEF h, e
  <2>4. CASE ~(d < 0) /\ ~(d >= C!MonthSize(m))
    BY <2>1, <2>4, MonthTurn
  <2> QED
    BY <2>2, <2>3, <2>4
<1>2. C!DayOf = CHOOSE f : f = MonthLoop(f)
  BY DEF C!DayOf, MonthLoop
<1> HIDE DEF W
<1> QED
  BY <1>1, <1>2

\* The loops over the months end in the month of the day, from above and from below.
LEMMA DayOfIs ==
  ASSUME NEW m \in Int, NEW d \in Int
  PROVE  C!DayOf[<<m, d>>] = MonthRun(First(m) + d)
<1> DEFINE Far(l, k) == LET h == MonthAt(First(l) + k) IN IF h < l THEN l - h ELSE h - l
           Wrong(l, k) == C!DayOf[<<l, k>>] # MonthRun(First(l) + k)
           T == {i \in Nat : \E l, k \in Int : Wrong(l, k) /\ i = Far(l, k)}
<1>1. ASSUME NEW l \in Int, NEW k \in Int
      PROVE  C!DayOf[<<l, k>>] =
               IF k < 0 THEN C!DayOf[<<l - 1, k + C!MonthSize(l - 1)>>]
               ELSE IF k >= C!MonthSize(l) THEN C!DayOf[<<l + 1, k - C!MonthSize(l)>>]
               ELSE <<l, k>>
  <2>1. MonthLoop(C!DayOf)[<<l, k>>] =
          IF k < 0 THEN C!DayOf[<<l - 1, k + C!MonthSize(l - 1)>>]
          ELSE IF k >= C!MonthSize(l) THEN C!DayOf[<<l + 1, k - C!MonthSize(l)>>]
          ELSE <<l, k>>
    BY DEF MonthLoop
  <2> QED
    BY <2>1, DayOfLoop
<1>2. ASSUME NEW l \in Int, NEW k \in Int PROVE Far(l, k) \in Nat
  <2> DEFINE h == MonthAt(First(l) + k)
  <2>1. h \in Int
    BY MonthTurn
  <2> HIDE DEF h
  <2>2. (IF h < l THEN l - h ELSE h - l) \in Nat
    BY <2>1
  <2> QED
    BY <2>2 DEF h
<1>3. ASSUME T # {} PROVE FALSE
  <2>1. PICK i \in T : \A j \in T : i <= j
    <3>1. T \in SUBSET Nat
      OBVIOUS
    <3> HIDE DEF T
    <3> QED
      BY <1>3, <3>1, LeastNumber
  <2>2. PICK l \in Int, k \in Int : Wrong(l, k) /\ i = Far(l, k)
    OBVIOUS
  <2>3. ASSUME NEW x \in Int, NEW e \in Int, First(x) + e = First(l) + k,
               C!DayOf[<<l, k>>] = C!DayOf[<<x, e>>], Far(x, e) < Far(l, k)
        PROVE  FALSE
    <3>1. Wrong(x, e)
      BY <2>2, <2>3
    <3>2. Far(x, e) \in Nat
      BY <1>2
    <3>3. Far(x, e) \in T
      BY <3>1, <3>2
    <3>4. Far(l, k) \in Nat
      BY <1>2
    <3> HIDE DEF T, Far, Wrong
    <3> QED
      BY <2>1, <2>2, <2>3, <3>2, <3>3, <3>4
  <2> DEFINE h == MonthAt(First(l) + k)
  <2>4. CASE k < 0
    <3> DEFINE x == l - 1
               e == k + C!MonthSize(l - 1)
    <3>1. x \in Int /\ e \in Int /\ First(x) + e = First(l) + k /\ h < l /\ h \in Int
      BY <2>4, MonthTurn
    <3>2. C!DayOf[<<l, k>>] = C!DayOf[<<x, e>>]
      BY <1>1, <2>4
    <3>3. x = l - 1
      OBVIOUS
    <3>4. MonthAt(First(x) + e) = h
      BY <3>1
    <3> HIDE DEF x, e, h
    <3>5. (IF h < x THEN x - h ELSE h - x) < (IF h < l THEN l - h ELSE h - l)
      BY <3>1, <3>3
    <3>6. Far(x, e) < Far(l, k)
      BY <3>4, <3>5 DEF h
    <3> HIDE DEF Far, Wrong, T
    <3> QED
      BY <2>3, <3>1, <3>2, <3>6
  <2>5. CASE ~(k < 0) /\ k >= C!MonthSize(l)
    <3> DEFINE x == l + 1
               e == k - C!MonthSize(l)
    <3>1. x \in Int /\ e \in Int /\ First(x) + e = First(l) + k /\ h > l /\ h \in Int
      BY <2>5, MonthTurn
    <3>2. C!DayOf[<<l, k>>] = C!DayOf[<<x, e>>]
      BY <1>1, <2>5
    <3>3. x = l + 1
      OBVIOUS
    <3>4. MonthAt(First(x) + e) = h
      BY <3>1
    <3> HIDE DEF x, e, h
    <3>5. (IF h < x THEN x - h ELSE h - x) < (IF h < l THEN l - h ELSE h - l)
      BY <3>1, <3>3
    <3>6. Far(x, e) < Far(l, k)
      BY <3>4, <3>5 DEF h
    <3> HIDE DEF Far, Wrong, T
    <3> QED
      BY <2>3, <3>1, <3>2, <3>6
  <2>6. CASE ~(k < 0) /\ ~(k >= C!MonthSize(l))
    <3>1. C!DayOf[<<l, k>>] = <<l, k>>
      BY <1>1, <2>6
    <3>2. MonthRun(First(l) + k) = <<l, k>>
      BY <2>6, MonthTurn
    <3> QED
      BY <2>2, <3>1, <3>2
  <2> QED
    BY <2>4, <2>5, <2>6
<1>4. ~Wrong(m, d)
  <2>1. Far(m, d) \in Nat
    BY <1>2
  <2>2. Wrong(m, d) => Far(m, d) \in T
    BY <2>1
  <2> HIDE DEF T, Far, Wrong
  <2> QED
    BY <1>3, <2>2
<1> QED
  BY <1>4

\* mktime's count of leap days, and of days.
LEMMA EveryIs ==
  ASSUME NEW y \in Int
  PROVE  /\ C!Every(4, y) = (y - 1) \div 4 - 492
         /\ C!Every(100, y) = (y - 1) \div 100 - 19
         /\ C!Every(400, y) = (y - 1) \div 400 - 4
<1>1. C!Every(4, y) = (y - 1) \div 4 - 492
  BY DEF C!Every, C!EPOCH_YR
<1>2. C!Every(100, y) = (y - 1) \div 100 - 19
  BY DEF C!Every, C!EPOCH_YR
<1>3. C!Every(400, y) = (y - 1) \div 400 - 4
  BY DEF C!Every, C!EPOCH_YR
<1> QED
  BY <1>1, <1>2, <1>3

Counted(n, day) ==
  LET d == day - First(n) + 1
  IN  /\ C!Day(C!YEAR0 + n \div 12, n % 12, d) = day
      /\ C!YearDay(C!YEAR0 + n \div 12, n % 12, d) = day - Jan1(1900 + n \div 12)

\* Both parts of mktime's count of days are the closed form.
LEMMA DayIs ==
  ASSUME NEW n \in Int, NEW day \in Int
  PROVE  Counted(n, day)
<1> DEFINE y == 1900 + n \div 12
           m == n % 12
           d == day - First(n) + 1
<1>1. y \in Int /\ m \in 0 .. 11 /\ C!YEAR0 + n \div 12 = y
  BY DEF C!YEAR0
<1>2. First(n) = Jan1(y) + Ahead(y, m) /\ First(n) \in Int
  <2>1. First(n) = Jan1(y) + Ahead(y, m)
    BY DEF First
  <2> QED
    BY <2>1, MonthStep
<1> HIDE DEF y, m
<1>8. d \in Int /\ d = day - First(n) + 1
  BY <1>2
<1> HIDE DEF d
<1>3. C!YearDay(y, m, d) = Ahead(y, m) + d - 1
  BY <1>1, <1>8, YearDayIs
<1>4. (y - 1970) * 365 + C!Every(4, y) - C!Every(100, y) + C!Every(400, y) = Jan1(y)
  BY <1>1, EveryIs DEF Jan1
<1>5. Jan1(y) \in Int /\ Ahead(y, m) \in Int
  <2>1. Ahead(y, m) \in 0 .. 335
    BY <1>1, MonthAhead
  <2> QED
    BY <1>1, <2>1, YearStep
<1>6. C!Day(y, m, d) = Jan1(y) + C!YearDay(y, m, d)
  BY <1>4 DEF C!Day, C!EPOCH_YR
<1>7. C!Day(y, m, d) = day /\ C!YearDay(y, m, d) = day - Jan1(y)
  BY <1>2, <1>3, <1>5, <1>6, <1>8
<1> QED
  BY <1>1, <1>7 DEF Counted, y, m, d

\* The date and the time of a moment, in closed form.
Moment(t) ==
  LET day == t \div 86400
      n == MonthAt(day)
  IN [sec |-> t % 60, min |-> (t \div 60) % 60, hour |-> (t \div 3600) % 24,
      wday |-> (day + 4) % 7, year |-> n \div 12, yday |-> day - Jan1(1900 + n \div 12),
      mon |-> n % 12, mday |-> day - First(n) + 1, isdst |-> 0]

\* A moment as a day, an hour, a minute and a second.
Reads(t, day, h, m, s) ==
  /\ day \in Int /\ h \in 0 .. 23 /\ m \in 0 .. 59 /\ s \in 0 .. 59
  /\ t = 86400 * day + 3600 * h + 60 * m + s

\* Division finds them.
LEMMA ReadsIs ==
  ASSUME NEW t, NEW day, NEW h, NEW m, NEW s, Reads(t, day, h, m, s)
  PROVE  /\ t \div 86400 = day /\ t % 86400 = 3600 * h + 60 * m + s
         /\ t % 60 = s /\ (t \div 60) % 60 = m /\ (t \div 3600) % 24 = h
         /\ (t % 86400) % 60 = s /\ ((t % 86400) % 3600) \div 60 = m
         /\ (t % 86400) \div 3600 = h
<1> USE DEF Reads
<1>1. t \div 86400 = day /\ t % 86400 = 3600 * h + 60 * m + s
  OBVIOUS
<1>2. t % 60 = s
  OBVIOUS
<1>3. t \div 60 = 1440 * day + 60 * h + m
  OBVIOUS
<1>4. (1440 * day + 60 * h + m) % 60 = m
  OBVIOUS
<1>5. t \div 3600 = 24 * day + h
  OBVIOUS
<1>6. (24 * day + h) % 24 = h
  OBVIOUS
<1>7. (3600 * h + 60 * m + s) % 60 = s
  OBVIOUS
<1>8. (3600 * h + 60 * m + s) % 3600 = 60 * m + s
  OBVIOUS
<1>9. (60 * m + s) \div 60 = m /\ (3600 * h + 60 * m + s) \div 3600 = h
  OBVIOUS
<1> QED
  BY <1>1, <1>2, <1>3, <1>4, <1>5, <1>6, <1>7, <1>8, <1>9

\* Sixty seconds to a minute and sixty minutes to an hour.
LEMMA By60 ==
  ASSUME NEW x \in Int
  PROVE  x = 60 * (x \div 60) + (x % 60) /\ x % 60 \in 0 .. 59 /\ x \div 60 \in Int
OBVIOUS

\* And 24 hours to a day.
LEMMA By24 ==
  ASSUME NEW x \in Int
  PROVE  x = 24 * (x \div 24) + (x % 24) /\ x % 24 \in 0 .. 23 /\ x \div 24 \in Int
OBVIOUS

\* Every moment has them.
LEMMA Mixed ==
  ASSUME NEW t \in Int
  PROVE  \E day, h, m, s : Reads(t, day, h, m, s)
<1> DEFINE a == t \div 60
           b == a \div 60
           c == b \div 24
           s == t % 60
           m == a % 60
           h == b % 24
<1>1. a \in Int /\ s \in 0 .. 59 /\ t = 60 * a + s
  BY By60
<1>2. b \in Int /\ m \in 0 .. 59 /\ a = 60 * b + m
  BY <1>1, By60
<1>3. c \in Int /\ h \in 0 .. 23 /\ b = 24 * c + h
  BY <1>2, By24
<1> HIDE DEF a, b, c, s, m, h
<1>4. t = 86400 * c + 3600 * h + 60 * m + s
  BY <1>1, <1>2, <1>3
<1>5. Reads(t, c, h, m, s)
  BY <1>1, <1>2, <1>3, <1>4 DEF Reads
<1> QED
  BY <1>5

\* gmtime_r gives the closed form.
LEMMA GmtimeIs ==
  ASSUME NEW t \in Nat
  PROVE  C!gmtime_r(t) = Moment(t)
<1> DEFINE day == t \div 86400
           n == MonthAt(day)
           y == 1900 + n \div 12
           sod == t % 86400
<1>1. day \in Nat
  OBVIOUS
<1> HIDE DEF day, sod
<1>2. sod % 60 = t % 60 /\ (sod % 3600) \div 60 = (t \div 60) % 60
  <2>1. PICK d, h, m, s : Reads(t, d, h, m, s)
    BY Mixed
  <2> QED
    BY <2>1, ReadsIs DEF sod
<1>3. sod \div 3600 = (t \div 3600) % 24
  <2>1. PICK d, h, m, s : Reads(t, d, h, m, s)
    BY Mixed
  <2> QED
    BY <2>1, ReadsIs DEF sod
<1>4. n \in Int /\ First(n) <= day /\ day < First(n + 1)
  BY <1>1, MonthIs DEF IsMonth
<1>5. y \in Int /\ y = 1900 + n \div 12
  <2> HIDE DEF n
  <2> QED
    BY <1>4
<1>6. y = YearAt(day) /\ Jan1(y) <= day
  BY <1>1, <1>4, MonthInYear
<1>7. C!Years[<<1970, day>>] = <<y, day - Jan1(y)>>
  <2>1. Jan1(1970) + day = day
    BY <1>1 DEF Jan1
  <2>2. C!Years[<<1970, day>>] = YearRun(Jan1(1970) + day)
    BY <1>1, YearsIs
  <2> QED
    BY <1>6, <2>1, <2>2 DEF YearRun
<1>8. C!DayOf[<<12 * (y - 1900), day - Jan1(y)>>] = <<n, day - First(n)>>
  <2> HIDE DEF y
  <2> DEFINE m == 12 * (y - 1900)
             d == day - Jan1(y)
  <2>1. m \in Int /\ 1900 + m \div 12 = y /\ m % 12 = 0
    BY <1>5
  <2>2. Jan1(y) \in Int /\ Ahead(y, 0) = 0
    BY <1>5, YearStep, AheadIs
  <2>3. d \in Int /\ First(m) + d = day
    <3> HIDE DEF m
    <3>1. First(m) = Jan1(y)
      BY <2>1, <2>2 DEF First
    <3> QED
      BY <1>1, <2>2, <3>1
  <2> HIDE DEF m, d
  <2>4. C!DayOf[<<m, d>>] = MonthRun(day)
    BY <2>1, <2>3, DayOfIs
  <2> QED
    BY <2>4 DEF MonthRun, m, d
<1> HIDE DEF n, y
<1>9. y - 1900 = n \div 12
  BY <1>4, <1>5
<1>10. C!gmtime_r(t) =
         [sec |-> sod % 60, min |-> (sod % 3600) \div 60, hour |-> sod \div 3600,
          wday |-> (day + 4) % 7, year |-> y - 1900, yday |-> day - Jan1(y),
          mon |-> n % 12, mday |-> day - First(n) + 1, isdst |-> 0]
  BY <1>7, <1>8 DEF C!gmtime_r, C!SECS_DAY, C!EPOCH_YR, C!YEAR0, day, sod
<1>11. Moment(t) =
         [sec |-> t % 60, min |-> (t \div 60) % 60, hour |-> (t \div 3600) % 24,
          wday |-> (day + 4) % 7, year |-> n \div 12, yday |-> day - Jan1(1900 + n \div 12),
          mon |-> n % 12, mday |-> day - First(n) + 1, isdst |-> 0]
  BY DEF Moment, n, day
<1> QED
  BY <1>2, <1>3, <1>5, <1>9, <1>10, <1>11

\* The fields stand for a moment, in order or not.
Stands(tm, t) ==
  /\ tm.sec \in Int /\ tm.min \in Int /\ tm.hour \in Int
  /\ tm.mday \in Int /\ tm.mon \in Int /\ tm.year \in Int
  /\ t = 86400 * (First(12 * tm.year + tm.mon) + tm.mday - 1)
         + 3600 * tm.hour + 60 * tm.min + tm.sec

\* mktime puts any fields in order.
LEMMA MktimeIs ==
  ASSUME NEW tm, NEW t \in Nat, Stands(tm, t), tm.isdst = 0
  PROVE  C!mktime(tm) = Moment(t)
<1> DEFINE a == tm.min + tm.sec \div 60
           b == tm.hour + a \div 60
           c == b \div 24 + tm.mday - 1
           m == 12 * tm.year + tm.mon
           day == t \div 86400
           n == MonthAt(day)
           s == tm.sec % 60
           e == tm.sec \div 60
           x == a % 60
           f == a \div 60
           h == b % 24
           g == b \div 24
<1>1. m \in Int /\ First(m) \in Int /\ tm.mday \in Int /\ tm.hour \in Int /\ tm.min \in Int
      /\ tm.sec \in Int
      /\ t = 86400 * (First(m) + tm.mday - 1) + 3600 * tm.hour + 60 * tm.min + tm.sec
  <2>1. m \in Int
    BY DEF Stands
  <2> HIDE DEF m
  <2>2. First(m) \in Int
    BY <2>1, MonthStep
  <2> QED
    BY <2>1, <2>2 DEF Stands, m
<1>2. tm.sec = 60 * e + s /\ s \in 0 .. 59 /\ e \in Int
  BY <1>1, By60
<1>3. a \in Int /\ a = tm.min + e
  <2>1. a = tm.min + e
    OBVIOUS
  <2> HIDE DEF a, e
  <2> QED
    BY <1>1, <1>2, <2>1
<1>4. a = 60 * f + x /\ x \in 0 .. 59 /\ f \in Int
  <2> HIDE DEF a
  <2> QED
    BY <1>3, By60
<1>5. b \in Int /\ b = tm.hour + f
  <2>1. b = tm.hour + f
    OBVIOUS
  <2> HIDE DEF b, f
  <2> QED
    BY <1>1, <1>4, <2>1
<1>6. b = 24 * g + h /\ h \in 0 .. 23 /\ g \in Int
  <2> HIDE DEF b
  <2> QED
    BY <1>5, By24
<1>7. c \in Int /\ c = g + tm.mday - 1
  <2>1. c = g + tm.mday - 1
    OBVIOUS
  <2> HIDE DEF c, g
  <2> QED
    BY <1>1, <1>6, <2>1
<1>8. Reads(t, First(m) + c, h, x, s)
  <2> HIDE DEF a, b, c, m, s, e, x, f, h, g
  <2>1. tm.min + e = 60 * f + x /\ tm.hour + f = 24 * g + h /\ s \in Int /\ x \in Int /\ h \in Int
    BY <1>2, <1>3, <1>4, <1>5, <1>6
  <2>3. t = 86400 * (First(m) + (g + tm.mday - 1)) + 3600 * h + 60 * x + s
    <3> DEFINE first == First(m)
               mday == tm.mday
               hour == tm.hour
               min == tm.min
               sec == tm.sec
    <3>1. /\ first \in Int /\ mday \in Int /\ hour \in Int /\ min \in Int /\ sec \in Int
          /\ t = 86400 * (first + mday - 1) + 3600 * hour + 60 * min + sec
      BY <1>1
    <3>2. /\ e \in Int /\ s \in Int /\ sec = 60 * e + s
          /\ f \in Int /\ x \in Int /\ min + e = 60 * f + x
          /\ g \in Int /\ h \in Int /\ hour + f = 24 * g + h
      BY <1>2, <1>4, <1>6, <2>1
    <3> HIDE DEF first, mday, hour, min, sec
    <3>3. t = 86400 * (first + (g + mday - 1)) + 3600 * h + 60 * x + s
      BY <3>1, <3>2
    <3> QED
      BY <3>3 DEF first, mday
  <2>2. First(m) + c \in Int
    BY <1>1, <1>7
  <2> QED
    BY <1>2, <1>4, <1>6, <1>7, <2>2, <2>3 DEF Reads
<1>9. day = First(m) + c /\ t % 60 = s /\ (t \div 60) % 60 = x /\ (t \div 3600) % 24 = h
  <2> HIDE DEF c, m, s, x, h
  <2> QED
    BY <1>8, ReadsIs
<1>10. day \in Int /\ n \in Int
  <2>1. day \in Int
    OBVIOUS
  <2> HIDE DEF day
  <2> QED
    BY <2>1, MonthIs
<1>11. C!DayOf[<<m, c>>] = <<n, day - First(n)>>
  <2> HIDE DEF m, c, day
  <2> QED
    BY <1>1, <1>7, <1>9, DayOfIs DEF MonthRun
<1> DEFINE d == day - First(n) + 1
<1>12. d \in Int /\ First(n) + d - 1 = day
  <2> HIDE DEF n, day
  <2>1. First(n) \in Int
    BY <1>10, MonthStep
  <2> QED
    BY <1>10, <2>1
<1>13. /\ C!Day(C!YEAR0 + n \div 12, n % 12, d) = day
       /\ C!YearDay(C!YEAR0 + n \div 12, n % 12, d) = day - Jan1(1900 + n \div 12)
  <2>1. Counted(n, day)
    <3> HIDE DEF n, day
    <3> QED
      BY <1>10, DayIs
  <2> QED
    BY <2>1 DEF Counted
<1>14. C!mktime(tm) =
         [sec |-> s, min |-> x, hour |-> h,
          wday |-> (C!Day(C!YEAR0 + n \div 12, n % 12, d) + 4) % 7, year |-> n \div 12,
          yday |-> C!YearDay(C!YEAR0 + n \div 12, n % 12, d), mon |-> n % 12, mday |-> d,
          isdst |-> 0]
  <2>1. C!mktime(tm) =
          LET p == C!DayOf[<<m, c>>]
          IN  [sec |-> s, min |-> x, hour |-> h,
               wday |-> (C!Day(C!YEAR0 + p[1] \div 12, p[1] % 12, p[2] + 1) + 4) % 7,
               year |-> p[1] \div 12,
               yday |-> C!YearDay(C!YEAR0 + p[1] \div 12, p[1] % 12, p[2] + 1),
               mon |-> p[1] % 12, mday |-> p[2] + 1, isdst |-> tm.isdst]
    BY Zenon DEF C!mktime
  <2> HIDE DEF m, c, s, x, h, n, day
  <2> QED
    BY <1>11, <2>1
<1>15. Moment(t) =
         [sec |-> t % 60, min |-> (t \div 60) % 60, hour |-> (t \div 3600) % 24,
          wday |-> (day + 4) % 7, year |-> n \div 12, yday |-> day - Jan1(1900 + n \div 12),
          mon |-> n % 12, mday |-> d, isdst |-> 0]
  BY DEF Moment
<1> HIDE DEF a, b, c, m, s, e, x, f, h, g, n, day, d
<1> QED
  BY <1>9, <1>13, <1>14, <1>15

\* What the fields of a moment are.
InMonth(t, day, n) ==
  /\ day \in Nat /\ n \in Int /\ First(n) \in Int
  /\ First(n) <= day /\ day < First(n) + C!MonthSize(n)
  /\ C!MonthSize(n) \in 28 .. 31
  /\ 70 <= n \div 12 /\ 12 * (n \div 12) + (n % 12) = n
  /\ t = 86400 * day + 3600 * Moment(t).hour + 60 * Moment(t).min + Moment(t).sec
  /\ Moment(t).sec \in 0 .. 59 /\ Moment(t).min \in 0 .. 59
  /\ Moment(t).hour \in 0 .. 23

LEMMA MomentIs ==
  ASSUME NEW t \in Nat
  PROVE  InMonth(t, t \div 86400, MonthAt(t \div 86400))
<1> DEFINE day == t \div 86400
           n == MonthAt(day)
<1>1. day \in Nat
  OBVIOUS
<1> HIDE DEF day
<1>2. n \in Int /\ First(n) <= day /\ day < First(n + 1)
  BY <1>1, MonthIs DEF IsMonth
<1> HIDE DEF n
<1>3. First(n) \in Int /\ First(n + 1) = First(n) + C!MonthSize(n) /\ C!MonthSize(n) \in 28 .. 31
  BY <1>2, MonthStep
<1>4. ~(n + 1 <= 840)
  <2>1. First(840) = 0
    <3>1. Ahead(1970, 0) = 0
      BY AheadIs
    <3>2. Jan1(1970) = 0
      BY DEF Jan1
    <3> QED
      BY <3>1, <3>2 DEF First
  <2>2. ASSUME n + 1 <= 840 PROVE First(n + 1) <= First(840)
    <3> DEFINE k == n + 1
    <3>1. k \in Int /\ k <= 840
      BY <1>2, <2>2
    <3> HIDE DEF k
    <3>2. First(k) <= First(840)
      BY <3>1, MonthOrder
    <3> QED
      BY <3>2 DEF k
  <2> QED
    BY <1>1, <1>2, <1>3, <2>1, <2>2
<1>5. 70 <= n \div 12 /\ 12 * (n \div 12) + (n % 12) = n
  BY <1>2, <1>4
<1>6. PICK d, h, m, s : Reads(t, d, h, m, s)
  BY Mixed
<1>7. /\ t = 86400 * day + 3600 * h + 60 * m + s /\ h \in 0 .. 23 /\ m \in 0 .. 59 /\ s \in 0 .. 59
      /\ t % 60 = s /\ (t \div 60) % 60 = m /\ (t \div 3600) % 24 = h
  <2>1. t = 86400 * d + 3600 * h + 60 * m + s /\ h \in 0 .. 23 /\ m \in 0 .. 59 /\ s \in 0 .. 59
    BY <1>6 DEF Reads
  <2>2. day = d /\ t % 60 = s /\ (t \div 60) % 60 = m /\ (t \div 3600) % 24 = h
    BY <1>6, ReadsIs DEF day
  <2> QED
    BY <2>1, <2>2
<1>8. Moment(t).sec = t % 60 /\ Moment(t).min = (t \div 60) % 60
      /\ Moment(t).hour = (t \div 3600) % 24
  BY DEF Moment
<1> QED
  BY <1>1, <1>2, <1>3, <1>5, <1>7, <1>8 DEF InMonth, n, day

\* A moment stands for itself, and mktime answers it.
LEMMA MomentStands ==
  ASSUME NEW t \in Nat
  PROVE  Stands(Moment(t), t) /\ Moment(t).isdst = 0
<1> DEFINE day == t \div 86400
           n == MonthAt(day)
           tm == Moment(t)
<1>1. tm.mday = day - First(n) + 1 /\ tm.mon = n % 12 /\ tm.year = n \div 12 /\ tm.isdst = 0
  BY DEF Moment
<1>2. /\ day \in Nat /\ n \in Int /\ First(n) \in Int /\ 12 * (n \div 12) + (n % 12) = n
      /\ t = 86400 * day + 3600 * tm.hour + 60 * tm.min + tm.sec
      /\ tm.sec \in 0 .. 59 /\ tm.min \in 0 .. 59 /\ tm.hour \in 0 .. 23
  <2>1. InMonth(t, day, n)
    BY MomentIs
  <2> HIDE DEF day, n
  <2> QED
    BY <2>1 DEF InMonth
<1> HIDE DEF day, n, tm
<1>3. 12 * tm.year + tm.mon = n /\ tm.year \in Int /\ tm.mon \in Int /\ tm.mday \in Int
  BY <1>1, <1>2
<1>4. First(n) + tm.mday - 1 = day
  BY <1>1, <1>2
<1>5. First(12 * tm.year + tm.mon) + tm.mday - 1 = day
  BY <1>3, <1>4
<1>6. Stands(tm, t)
  BY <1>2, <1>3, <1>5 DEF Stands
<1> QED
  BY <1>1, <1>6 DEF tm

\* What mktime returns for a moment that fits.
LEMMA SecondsIs ==
  ASSUME NEW t \in Nat, t <= 2147483647
  PROVE  C!Seconds(Moment(t)) = t
<1> DEFINE day == t \div 86400
           n == MonthAt(day)
           tm == Moment(t)
           d == day - First(n) + 1
           s == (tm.hour * 60 + tm.min) * 60 + tm.sec
<1>1. tm.mday = d /\ tm.mon = n % 12 /\ tm.year = n \div 12
  BY DEF Moment
<1>2. /\ day \in Nat /\ n \in Int /\ 70 <= n \div 12
      /\ t = 86400 * day + 3600 * tm.hour + 60 * tm.min + tm.sec
      /\ tm.sec \in 0 .. 59 /\ tm.min \in 0 .. 59 /\ tm.hour \in 0 .. 23
  <2>1. InMonth(t, day, n)
    BY MomentIs
  <2> HIDE DEF day, n
  <2> QED
    BY <2>1 DEF InMonth
<1>3. Counted(n, day)
  <2> HIDE DEF n, day
  <2> QED
    BY <1>2, DayIs
<1>4. C!Day(C!YEAR0 + tm.year, tm.mon, tm.mday) = day
  BY <1>1, <1>3 DEF Counted
<1>5. s \in Int /\ t = s + day * 86400
  <2> DEFINE h == tm.hour
             m == tm.min
             e == tm.sec
  <2>1. h \in 0 .. 23 /\ m \in 0 .. 59 /\ e \in 0 .. 59 /\ t = 86400 * day + 3600 * h + 60 * m + e
    BY <1>2
  <2>2. s = (h * 60 + m) * 60 + e
    OBVIOUS
  <2> HIDE DEF h, m, e, s, day, tm
  <2> QED
    BY <1>2, <2>1, <2>2
<1>6. C!YEAR0 + tm.year >= C!EPOCH_YR
  <2> HIDE DEF n, tm
  <2> QED
    BY <1>1, <1>2 DEF C!YEAR0, C!EPOCH_YR
<1>7. (C!TIME_MAX - s) \div C!SECS_DAY >= day
  <2> HIDE DEF s, day
  <2>1. 2147483647 - s >= 86400 * day
    BY <1>2, <1>5
  <2> DEFINE x == 2147483647 - s
  <2>2. x \in Int
    BY <1>5
  <2> HIDE DEF x
  <2>3. x >= 86400 * day => x \div 86400 >= day
    BY <1>2, <2>2
  <2> QED
    BY <2>1, <2>3 DEF C!TIME_MAX, C!SECS_DAY, x
<1>8. C!Seconds(tm) =
        IF C!YEAR0 + tm.year < C!EPOCH_YR \/ (C!TIME_MAX - s) \div C!SECS_DAY < day THEN -1
        ELSE s + day * C!SECS_DAY
  <2> HIDE DEF day, tm
  <2> QED
    BY <1>4 DEF C!Seconds
<1> HIDE DEF day, n, tm, d, s
<1>9. C!Seconds(tm) = s + day * C!SECS_DAY
  <2>1. ~(C!YEAR0 + tm.year < C!EPOCH_YR)
    BY <1>1, <1>2, <1>6 DEF C!YEAR0, C!EPOCH_YR
  <2>2. ~((C!TIME_MAX - s) \div C!SECS_DAY < day)
    BY <1>2, <1>5, <1>7 DEF C!TIME_MAX, C!SECS_DAY
  <2> QED
    BY <1>8, <2>1, <2>2
<1> QED
  BY <1>5, <1>9 DEF C!SECS_DAY, tm

\* The rules of the Gregorian calendar give the same number of a day.
LEMMA DayNumberIs ==
  ASSUME NEW y \in Int, NEW m \in 0 .. 11, NEW d \in Int
  PROVE  C!DayNumber(y, m, d) = Jan1(y) + Ahead(y, m) + d - 1
<1>1. Leap(y) \in {0, 1} /\ Jan1(y) \in Int /\ Jan1(y + 1) = Jan1(y) + 365 + Leap(y)
  BY YearStep
<1>2. CASE m < 2
  <2>1. C!DayNumber(y, m, d) =
          365 * (y - 1) + (y - 1) \div 4 - (y - 1) \div 100 + (y - 1) \div 400
          + (153 * (m + 10) + 2) \div 5 + d - 719469
    BY <1>2 DEF C!DayNumber
  <2>2. CASE m = 0
    BY <1>1, <2>1, <2>2, AheadIs DEF Jan1
  <2>3. CASE m = 1
    BY <1>1, <2>1, <2>3, AheadIs DEF Jan1
  <2> QED
    BY <1>2, <2>2, <2>3
<1>3. CASE m >= 2
  <2>1. C!DayNumber(y, m, d) =
          365 * y + y \div 4 - y \div 100 + y \div 400
          + (153 * (m - 2) + 2) \div 5 + d - 719469
    BY <1>3 DEF C!DayNumber
  <2>2. Jan1(y + 1) = 365 * (y - 1969) + y \div 4 - y \div 100 + y \div 400 - 477
    BY DEF Jan1
  <2>3. (153 * (m - 2) + 2) \div 5 =
          <<0, 0, 0, 31, 61, 92, 122, 153, 184, 214, 245, 275>>[m + 1]
    <3>1. m \in {2, 3, 4, 5, 6, 7, 8, 9, 10, 11}
      BY <1>3
    <3> QED
      BY <3>1
  <2>4. Ahead(y, m) = 59 + Leap(y) + <<0, 0, 0, 31, 61, 92, 122, 153, 184, 214, 245, 275>>[m + 1]
    <3>1. m \in {2, 3, 4, 5, 6, 7, 8, 9, 10, 11}
      BY <1>3
    <3> QED
      BY <1>1, <3>1, AheadIs
  <2> DEFINE e == <<0, 0, 0, 31, 61, 92, 122, 153, 184, 214, 245, 275>>[m + 1]
  <2>5. e \in Int
    BY <1>3
  <2> HIDE DEF e
  <2> QED
    BY <1>1, <2>1, <2>2, <2>3, <2>4, <2>5 DEF e
<1> QED
  BY <1>2, <1>3

\* A clock that is looked at fits, here and in every zone.
LookInv ==
  /\ clock \in Nat /\ ticks \in 0 .. Ticks
  /\ \E start \in Starts : clock = start + ticks * Tick

\* The first look.
LEMMA LookInit == C!Init => LookInv
<1> SUFFICES ASSUME C!Init PROVE LookInv
  OBVIOUS
<1>1. clock \in Starts /\ ticks = 0 /\ Tick \in Nat /\ Ticks \in Nat /\ Starts \subseteq Nat
  BY CalendarAssumption DEF C!Init
<1>2. clock = clock + ticks * Tick
  BY <1>1
<1> QED
  BY <1>1, <1>2 DEF LookInv

\* The next one.
LEMMA LookStep == LookInv /\ [C!Next]_calendarVars => LookInv'
<1> SUFFICES ASSUME LookInv, [C!Next]_calendarVars PROVE LookInv'
  OBVIOUS
<1>1. CASE C!Next
  <2>1. ticks < Ticks /\ clock' = clock + Tick /\ ticks' = ticks + 1
    BY <1>1 DEF C!Next, C!Pass
  <2>2. Tick \in Nat /\ Ticks \in Nat /\ Starts \subseteq Nat
    BY CalendarAssumption
  <2>3. PICK start \in Starts : clock = start + ticks * Tick
    BY DEF LookInv
  <2>4. clock' = start + ticks' * Tick
    <3>1. start \in Nat /\ ticks \in Nat
      BY <2>2 DEF LookInv
    <3>2. (ticks + 1) * Tick = ticks * Tick + Tick
      BY <2>2, <3>1
    <3> DEFINE p == ticks * Tick
               q == (ticks + 1) * Tick
    <3>3. p \in Int /\ q = p + Tick
      BY <2>2, <3>1, <3>2
    <3> HIDE DEF p, q
    <3>4. clock + Tick = start + q
      BY <2>2, <2>3, <3>1, <3>3 DEF p
    <3> QED
      BY <2>1, <3>4 DEF q
  <2>5. clock' \in Nat /\ ticks' \in 0 .. Ticks
    BY <2>1, <2>2 DEF LookInv
  <2> QED
    BY <2>4, <2>5 DEF LookInv
<1>2. CASE UNCHANGED calendarVars
  BY <1>2 DEF calendarVars, LookInv
<1> QED
  BY <1>1, <1>2

\* What CalendarAssumption says of them.
LEMMA LookFits ==
  ASSUME LookInv
  PROVE  /\ clock \in Nat /\ clock <= 2147483647
         /\ \A zone \in Zones : zone \in Int /\ clock + 3600 * zone \in Nat
<1>1. Tick \in Nat /\ Ticks \in Nat /\ Starts \subseteq Nat /\ Zones \subseteq Int
  BY CalendarAssumption
<1>2. PICK start \in Starts : clock = start + ticks * Tick
  BY DEF LookInv
<1> DEFINE p == ticks * Tick
           q == Ticks * Tick
<1>3. ticks \in Nat /\ ticks <= Ticks /\ clock \in Nat /\ start \in Nat
  BY <1>1 DEF LookInv
<1>4. p \in Nat /\ q \in Nat /\ p <= q
  <2>1. p \in Nat /\ q \in Nat
    BY <1>1, <1>3
  <2>2. (Ticks - ticks) * Tick \in Nat /\ (Ticks - ticks) * Tick = q - p
    BY <1>1, <1>3
  <2> HIDE DEF p, q
  <2> QED
    BY <2>1, <2>2
<1>5. clock = start + p
  BY <1>2
<1>6. \A zone \in Zones \cup {0} : start + 3600 * zone >= 0 /\ start + q + 3600 * zone <= 2147483647
  BY CalendarAssumption DEF C!TIME_MAX
<1> HIDE DEF p, q
<1>7. clock <= 2147483647
  <2>1. start + q + 3600 * 0 <= 2147483647
    BY <1>6
  <2> QED
    BY <1>3, <1>4, <1>5, <2>1
<1>8. ASSUME NEW zone \in Zones PROVE zone \in Int /\ clock + 3600 * zone \in Nat
  <2>1. zone \in Int /\ start + 3600 * zone >= 0
    BY <1>1, <1>6
  <2> QED
    BY <1>3, <1>4, <1>5, <2>1
<1> QED
  BY <1>3, <1>7, <1>8

\* At every look gmtime_r gives the date of the Gregorian calendar, and mktime takes
\* it back unchanged: for every moment that fits a signed number of 32 bits.
THEOREM CalendarIsGregorian == CalendarSpec => []CalendarHolds
<1>1. LookInv => CalendarHolds
  <2> SUFFICES ASSUME LookInv PROVE CalendarHolds
    OBVIOUS
  <2> DEFINE day == clock \div 86400
             n == MonthAt(day)
             y == 1900 + n \div 12
             m == n % 12
             d == day - First(n) + 1
             now == C!gmtime_r(clock)
  <2>1. clock \in Nat /\ clock <= 2147483647
    BY LookFits
  <2>2. now = Moment(clock)
    BY <2>1, GmtimeIs
  <2>3. /\ now.mday = d /\ now.mon = m /\ now.year + C!YEAR0 = n \div 12 + 1900
        /\ now.yday = day - Jan1(y)
    <3> HIDE DEF now
    <3> QED
      BY <2>2 DEF Moment, C!YEAR0
  <2>4. /\ day \in Nat /\ n \in Int /\ First(n) \in Int /\ First(n) <= day
        /\ day < First(n) + C!MonthSize(n) /\ C!MonthSize(n) \in 28 .. 31
    <3>1. clock \in Nat
      BY <2>1
    <3> HIDE DEF now
    <3>2. InMonth(clock, day, n)
      BY <3>1, MomentIs
    <3> HIDE DEF day, n
    <3> QED
      BY <3>2 DEF InMonth
  <2> HIDE DEF day
  <2>5. y \in Int /\ m \in 0 .. 11 /\ n \div 12 + 1900 = y /\ First(n) = Jan1(y) + Ahead(y, m)
    <3> HIDE DEF n
    <3> QED
      BY <2>4 DEF First
  <2> HIDE DEF n, y, m
  <2>6. d \in 1 .. 31 /\ First(n) + d - 1 = day
    BY <2>4
  <2> HIDE DEF d, now
  <2>7. Jan1(y) \in Int /\ Ahead(y, m) \in Int /\ Ahead(y, 0) = 0
    <3>1. Ahead(y, m) \in 0 .. 335
      BY <2>5, MonthAhead
    <3> QED
      BY <2>5, <3>1, YearStep, AheadIs
  <2>8. C!DayNumber(y, m, d) = day /\ C!DayNumber(y, 0, 1) = Jan1(y)
    <3>1. C!DayNumber(y, m, d) = Jan1(y) + Ahead(y, m) + d - 1
      BY <2>5, <2>6, DayNumberIs
    <3>2. C!DayNumber(y, 0, 1) = Jan1(y) + Ahead(y, 0) + 1 - 1
      BY <2>5, DayNumberIs
    <3> QED
      BY <2>5, <2>6, <2>7, <3>1, <3>2
  <2>0. clock \in Nat
    BY <2>1
  <2>9. C!mktime(now) = now /\ C!Seconds(now) = clock
    <3>1. C!Seconds(now) = clock
      BY <2>1, <2>2, SecondsIs
    <3>2. Stands(now, clock) /\ now.isdst = 0
      BY <2>0, <2>2, MomentStands
    <3>3. C!mktime(now) = Moment(clock)
      BY <2>0, <3>2, MktimeIs
    <3> QED
      BY <2>2, <3>1, <3>3
  <2>10. now.year + C!YEAR0 = y
    BY <2>3, <2>5
  <2>11. C!DayNumber(now.year + C!YEAR0, now.mon, now.mday) = clock \div C!SECS_DAY
    BY <2>3, <2>8, <2>10 DEF day, C!SECS_DAY
  <2>12. now.yday = C!DayNumber(now.year + C!YEAR0, now.mon, now.mday)
                   - C!DayNumber(now.year + C!YEAR0, 0, 1)
    BY <2>3, <2>8, <2>10
  <2>13. now.mday \in 1 .. 31 /\ now.mon \in 0 .. 11
    BY <2>3, <2>5, <2>6
  <2>14. LET tm == C!gmtime_r(clock)
         IN /\ C!DayNumber(tm.year + C!YEAR0, tm.mon, tm.mday) = clock \div C!SECS_DAY
            /\ tm.yday = C!DayNumber(tm.year + C!YEAR0, tm.mon, tm.mday)
                           - C!DayNumber(tm.year + C!YEAR0, 0, 1)
            /\ tm.mday \in 1 .. 31 /\ tm.mon \in 0 .. 11
            /\ C!mktime(tm) = tm /\ C!Seconds(tm) = clock
    BY <2>9, <2>11, <2>12, <2>13 DEF now
  <2> QED
    BY <2>14 DEF CalendarHolds, C!CalendarHolds
<1> QED
  BY <1>1, LookInit, LookStep, PTL DEF CalendarSpec

\* Daylight saving, in days: a is the 25th of a month of 31 days, x its last Sunday.
LEMMA LastSundayIs ==
  ASSUME NEW a \in Int
  PROVE  LET x == CHOOSE d \in a .. a + 6 : (d + 4) % 7 = 0
         IN  x \in a .. a + 6 /\ (x + 4) % 7 = 0
<1> DEFINE Sunday(d) == d \in a .. a + 6 /\ (d + 4) % 7 = 0
<1>1. \E d \in a .. a + 6 : (d + 4) % 7 = 0
  <2> DEFINE r == (a + 4) % 7
             d == IF r = 0 THEN a ELSE a + 7 - r
  <2>1. r \in 0 .. 6
    OBVIOUS
  <2>2. d \in a .. a + 6
    <3> HIDE DEF r
    <3> QED
      BY <2>1
  <2>3. (d + 4) % 7 = 0
    OBVIOUS
  <2> QED
    BY <2>2, <2>3
<1> QED
  BY <1>1

\* In a week that begins on a Sunday, mday - wday tells that Sunday.
LEMMA InLastWeekIs ==
  ASSUME NEW a \in Int, NEW x \in a .. a + 6, (x + 4) % 7 = 0,
         NEW day \in Int, day <= a + 6, NEW w \in Int, w = (day + 4) % 7
  PROVE  /\ (25 + (day - a)) - w >= 25 <=> day >= x
         /\ (day >= x => (w = 0 <=> day = x))
<1> DEFINE k == (day + 4) \div 7
           j == (x + 4) \div 7
<1>1. day + 4 = 7 * k + w /\ w \in 0 .. 6 /\ k \in Int
  OBVIOUS
<1>2. x + 4 = 7 * j /\ j \in Int
  OBVIOUS
<1> HIDE DEF k, j
<1> QED
  BY <1>1, <1>2

\* The first of April and of October, and what comes behind them.
LEMMA MonthsOfSummer ==
  ASSUME NEW y \in Int, NEW m \in 0 .. 11, NEW d \in 1 .. C!_ytab(y, m)
  PROVE  LET n == Jan1(y) + Ahead(y, m) + d - 1
             march == Jan1(y) + Ahead(y, 2)
             october == Jan1(y) + Ahead(y, 9)
         IN  /\ n \in Int /\ d \in Int /\ march \in Int /\ october \in Int /\ march + 60 < october
             /\ m < 2 => n < march
             /\ m = 2 => n < march + 31 /\ d = n - march + 1
             /\ m \in 3 .. 8 => march + 31 <= n /\ n < october
             /\ m = 9 => october <= n /\ n < october + 31 /\ d = n - october + 1
             /\ m > 9 => october + 31 <= n
<1>1. Leap(y) \in {0, 1} /\ Jan1(y) \in Int
  BY YearStep
<1>2. m \in {0, 1, 2, 3, 4, 5, 6, 7, 8, 9, 10, 11}
  OBVIOUS
<1>3. C!_ytab(y, m) \in 28 .. 31
  BY MonthAhead
<1>4. d \in 1 .. 31
  BY <1>3
<1> QED
  BY <1>1, <1>2, <1>4, AheadIs, YtabIs

\* check_dst says so exactly between the two moments, in every zone.
LEMMA CheckDstIs ==
  ASSUME NEW t \in Nat
  PROVE  LET year == Moment(t).year + C!YEAR0
         IN  C!check_dst(Moment(t)) <=>
               /\ t >= C!LastSunday(year, 2) * C!SECS_DAY + 10800
               /\ t < C!LastSunday(year, 9) * C!SECS_DAY + 14400
<1> DEFINE day == t \div 86400
           n == MonthAt(day)
           y == 1900 + n \div 12
           m == n % 12
           d == day - First(n) + 1
           tm == Moment(t)
           w == tm.wday
           sod == C!SecondOfDay(tm)
           march == Jan1(y) + Ahead(y, 2)
           october == Jan1(y) + Ahead(y, 9)
           x == C!LastSunday(y, 2)
           z == C!LastSunday(y, 9)
<1>1. /\ tm.mday = d /\ tm.mon = m /\ tm.year + C!YEAR0 = n \div 12 + 1900
      /\ tm.wday = (day + 4) % 7
  BY DEF Moment, C!YEAR0
<1>2. /\ day \in Nat /\ n \in Int /\ First(n) \in Int /\ First(n) <= day
      /\ day < First(n) + C!MonthSize(n) /\ C!MonthSize(n) \in 28 .. 31
      /\ t = 86400 * day + 3600 * tm.hour + 60 * tm.min + tm.sec
      /\ tm.sec \in 0 .. 59 /\ tm.min \in 0 .. 59 /\ tm.hour \in 0 .. 23
  <2>1. InMonth(t, day, n)
    BY MomentIs
  <2> HIDE DEF day, n
  <2> QED
    BY <2>1 DEF InMonth
<1> HIDE DEF day
<1>3. /\ y \in Int /\ m \in 0 .. 11 /\ n \div 12 + 1900 = y /\ First(n) = Jan1(y) + Ahead(y, m)
      /\ C!MonthSize(n) = C!_ytab(y, m)
  <2>0. n \in Int
    BY <1>2
  <2> HIDE DEF n
  <2>1. n \div 12 \in Int /\ m \in 0 .. 11
    BY <2>0
  <2>2. y \in Int /\ n \div 12 + 1900 = y
    BY <2>1
  <2> QED
    BY <2>1, <2>2 DEF First, C!MonthSize, C!YEAR0
<1> HIDE DEF n, y, m, tm
<1>4. sod \in Nat /\ sod < 86400 /\ t = 86400 * day + sod
  <2>1. sod = tm.hour * 3600 + tm.min * 60 + tm.sec
    BY DEF C!SecondOfDay
  <2> DEFINE h == tm.hour
             i == tm.min
             s == tm.sec
  <2>2. h \in 0 .. 23 /\ i \in 0 .. 59 /\ s \in 0 .. 59 /\ t = 86400 * day + 3600 * h + 60 * i + s
    BY <1>2
  <2>3. sod = h * 3600 + i * 60 + s
    BY <2>1
  <2>4. day \in Nat
    BY <1>2
  <2> HIDE DEF h, i, s, sod
  <2>5. sod \in Nat /\ sod < 86400
    BY <2>2, <2>3
  <2>6. t = 86400 * day + sod
    <3> DEFINE a == 86400 * day
    <3>1. a \in Int /\ t = a + 3600 * h + 60 * i + s
      BY <2>2, <2>4
    <3> HIDE DEF a
    <3>2. t = a + sod
      BY <2>2, <2>3, <3>1
    <3> QED
      BY <3>2 DEF a
  <2> QED
    BY <2>5, <2>6
<1>5. d \in 1 .. C!_ytab(y, m) /\ day = Jan1(y) + Ahead(y, m) + d - 1
  <2>1. d \in 1 .. C!_ytab(y, m) /\ First(n) + d - 1 = day
    BY <1>2, <1>3
  <2> HIDE DEF d
  <2> QED
    BY <1>3, <2>1
<1> HIDE DEF d
<1>6. /\ d \in Int /\ march \in Int /\ october \in Int /\ march + 60 < october
      /\ m < 2 => day < march
      /\ m = 2 => day < march + 31 /\ d = day - march + 1
      /\ m \in 3 .. 8 => march + 31 <= day /\ day < october
      /\ m = 9 => october <= day /\ day < october + 31 /\ d = day - october + 1
      /\ m > 9 => october + 31 <= day
  BY <1>3, <1>5, MonthsOfSummer
<1>7. /\ C!DayNumber(y, 2, 25) = march + 24 /\ C!DayNumber(y, 2, 31) = march + 30
      /\ C!DayNumber(y, 9, 25) = october + 24 /\ C!DayNumber(y, 9, 31) = october + 30
  <2>1. Jan1(y) \in Int /\ Ahead(y, 2) \in 0 .. 335 /\ Ahead(y, 9) \in 0 .. 335
    BY <1>3, YearStep, MonthAhead
  <2>2. /\ C!DayNumber(y, 2, 25) = Jan1(y) + Ahead(y, 2) + 25 - 1
        /\ C!DayNumber(y, 2, 31) = Jan1(y) + Ahead(y, 2) + 31 - 1
        /\ C!DayNumber(y, 9, 25) = Jan1(y) + Ahead(y, 9) + 25 - 1
        /\ C!DayNumber(y, 9, 31) = Jan1(y) + Ahead(y, 9) + 31 - 1
    BY <1>3, DayNumberIs
  <2> QED
    BY <2>1, <2>2
<1> HIDE DEF march, october
<1>8. x \in march + 24 .. march + 30 /\ (x + 4) % 7 = 0
  <2> DEFINE a == march + 24
  <2>1. a \in Int /\ a + 6 = march + 30
    BY <1>6
  <2>2. x = CHOOSE e \in a .. march + 30 : (e + 4) % 7 = 0
    BY <1>7 DEF C!LastSunday
  <2> HIDE DEF a, x
  <2>3. x = CHOOSE e \in a .. a + 6 : (e + 4) % 7 = 0
    BY <2>1, <2>2
  <2>4. x \in a .. a + 6 /\ (x + 4) % 7 = 0
    BY <2>1, <2>3, LastSundayIs
  <2> QED
    BY <2>1, <2>4 DEF a
<1>9. z \in october + 24 .. october + 30 /\ (z + 4) % 7 = 0
  <2> DEFINE a == october + 24
  <2>1. a \in Int /\ a + 6 = october + 30
    BY <1>6
  <2>2. z = CHOOSE e \in a .. october + 30 : (e + 4) % 7 = 0
    BY <1>7 DEF C!LastSunday
  <2> HIDE DEF a, z
  <2>3. z = CHOOSE e \in a .. a + 6 : (e + 4) % 7 = 0
    BY <2>1, <2>2
  <2>4. z \in a .. a + 6 /\ (z + 4) % 7 = 0
    BY <2>1, <2>3, LastSundayIs
  <2> QED
    BY <2>1, <2>4 DEF a
<1>10. w \in 0 .. 6 /\ w = (day + 4) % 7
  <2>1. w = (day + 4) % 7
    BY <1>1
  <2> HIDE DEF w
  <2> QED
    BY <1>2, <2>1
<1> DEFINE late == d - w >= 25
<1>11. C!check_dst(tm) <=>
         \/ m \in 3 .. 8
         \/ m = 2 /\ late /\ (w = 0 => sod >= 10800)
         \/ m = 9 /\ (late => w = 0 /\ sod < 14400)
  BY <1>1 DEF C!check_dst, C!InLastWeek
<1> HIDE DEF w, sod, x, z
<1>12. m = 2 => (late <=> day >= x) /\ (day >= x => (w = 0 <=> day = x))
  <2> SUFFICES ASSUME m = 2 PROVE (late <=> day >= x) /\ (day >= x => (w = 0 <=> day = x))
    OBVIOUS
  <2> DEFINE a == march + 24
  <2>1. a \in Int /\ x \in a .. a + 6 /\ day \in Int /\ day <= a + 6 /\ w \in Int
        /\ d = 25 + (day - a)
    BY <1>2, <1>6, <1>8, <1>10
  <2> HIDE DEF a
  <2>2. /\ (25 + (day - a)) - w >= 25 <=> day >= x
        /\ (day >= x => (w = 0 <=> day = x))
    BY <1>8, <1>10, <2>1, InLastWeekIs
  <2> QED
    BY <2>1, <2>2
<1>13. m = 9 => (late <=> day >= z) /\ (day >= z => (w = 0 <=> day = z))
  <2> SUFFICES ASSUME m = 9 PROVE (late <=> day >= z) /\ (day >= z => (w = 0 <=> day = z))
    OBVIOUS
  <2> DEFINE a == october + 24
  <2>1. a \in Int /\ z \in a .. a + 6 /\ day \in Int /\ day <= a + 6 /\ w \in Int
        /\ d = 25 + (day - a)
    BY <1>2, <1>6, <1>9, <1>10
  <2> HIDE DEF a
  <2>2. /\ (25 + (day - a)) - w >= 25 <=> day >= z
        /\ (day >= z => (w = 0 <=> day = z))
    BY <1>9, <1>10, <2>1, InLastWeekIs
  <2> QED
    BY <2>1, <2>2
<1>14. x \in Int /\ z \in Int /\ x < z
  BY <1>6, <1>8, <1>9
<1>15. /\ t >= x * 86400 + 10800 <=> day > x \/ (day = x /\ sod >= 10800)
       /\ t < z * 86400 + 14400 <=> day < z \/ (day = z /\ sod < 14400)
  BY <1>2, <1>4, <1>14
<1> HIDE DEF late
<1>16. C!check_dst(tm) <=>
         /\ day > x \/ (day = x /\ sod >= 10800)
         /\ day < z \/ (day = z /\ sod < 14400)
  <2>1. CASE m < 2
    BY <1>2, <1>3, <1>6, <1>8, <1>11, <1>14, <2>1
  <2>2. CASE m = 2
    BY <1>2, <1>4, <1>6, <1>8, <1>9, <1>11, <1>12, <1>14, <2>2
  <2>3. CASE m \in 3 .. 8
    BY <1>2, <1>6, <1>8, <1>9, <1>11, <1>14, <2>3
  <2>4. CASE m = 9
    BY <1>2, <1>4, <1>6, <1>8, <1>9, <1>11, <1>13, <1>14, <2>4
  <2>5. CASE m > 9
    BY <1>2, <1>3, <1>6, <1>9, <1>11, <1>14, <2>5
  <2> QED
    BY <1>3, <2>1, <2>2, <2>3, <2>4, <2>5
<1>17. tm.year + C!YEAR0 = y
  BY <1>1, <1>3
<1> QED
  BY <1>15, <1>16, <1>17 DEF C!SECS_DAY, tm, x, z

\* SummerTime of Calendar.tla, at every second of a signed 32-bit clock, in every zone:
\* check_dst (ntp.c) finds daylight saving on exactly between the two moments of a year.
THEOREM SummerTimeIsKept == CalendarSpec => []SummerTime
<1>1. LookInv => SummerTime
  <2> SUFFICES ASSUME LookInv, NEW zone \in Zones
               PROVE  LET local == clock + 3600 * zone
                          tm == C!localtime_r(clock, zone)
                          year == tm.year + C!YEAR0
                      IN C!check_dst(C!mktime(tm)) <=>
                           /\ local >= C!LastSunday(year, 2) * C!SECS_DAY + 10800
                           /\ local < C!LastSunday(year, 9) * C!SECS_DAY + 14400
    BY DEF SummerTime, C!SummerTime
  <2> DEFINE t == clock + 3600 * zone
             now == C!localtime_r(clock, zone)
  <2>1. t \in Nat
    BY LookFits
  <2>2. now = C!gmtime_r(t)
    BY DEF C!localtime_r
  <2> HIDE DEF t, now
  <2>3. now = Moment(t)
    BY <2>1, <2>2, GmtimeIs
  <2>4. Stands(now, t) /\ now.isdst = 0
    BY <2>1, <2>3, MomentStands
  <2>5. C!mktime(now) = Moment(t)
    BY <2>1, <2>4, MktimeIs
  <2>6. LET year == Moment(t).year + C!YEAR0
        IN  C!check_dst(Moment(t)) <=>
              /\ t >= C!LastSunday(year, 2) * C!SECS_DAY + 10800
              /\ t < C!LastSunday(year, 9) * C!SECS_DAY + 14400
    BY <2>1, CheckDstIs
  <2> QED
    BY <2>3, <2>5, <2>6 DEF t, now
<1> QED
  BY <1>1, LookInit, LookStep, PTL DEF CalendarSpec

\* applyTZ sees of a date only what mktime makes of it.
LEMMA AppliedAlike ==
  ASSUME NEW a, NEW b, C!mktime(a) = C!mktime(b)
  PROVE  C!applyTZ(a) = C!applyTZ(b)
BY DEF C!applyTZ

\* Two writes of one date that give it different days of the week.
LEMMA RegistersAlike ==
  ASSUME NEW tm, NEW v, NEW w
  PROVE  /\ [C!Registers(tm, v) EXCEPT ![4] = 0] = [C!Registers(tm, w) EXCEPT ![4] = 0]
         /\ C!Registers(tm, w)[4] = C!decToBcd(w)
<1> DEFINE Field(u) == <<tm.sec, tm.min, tm.hour, u, tm.mday, tm.mon + 1, tm.year - 100>>
           f == C!Registers(tm, v)
           g == C!Registers(tm, w)
<1>1. /\ f = [i \in 1 .. 7 |-> C!decToBcd(Field(v)[i])]
      /\ g = [i \in 1 .. 7 |-> C!decToBcd(Field(w)[i])]
  BY DEF C!Registers
<1>2. Field(w)[4] = w /\ \A i \in 1 .. 7 : i # 4 => Field(v)[i] = Field(w)[i]
  <2>1. ASSUME NEW i \in 1 .. 7, i # 4 PROVE Field(v)[i] = Field(w)[i]
    <3>1. i \in {1, 2, 3, 5, 6, 7}
      BY <2>1
    <3> QED
      BY <3>1
  <2> QED
    BY <2>1
<1> HIDE DEF f, g, Field
<1>3. g[4] = C!decToBcd(w) /\ \A i \in 1 .. 7 : i # 4 => f[i] = g[i]
  BY <1>1, <1>2
<1>4. [f EXCEPT ![4] = 0] = [g EXCEPT ![4] = 0]
  BY <1>1, <1>3
<1> QED
  BY <1>3, <1>4 DEF f, g

\* A moment comes without daylight saving.
LEMMA NotSaving ==
  ASSUME NEW t \in Nat
  PROVE  C!gmtime_r(t).isdst = 0
BY GmtimeIs DEF Moment

\* The browser's fields, with the zone added to the hour, stand for local time.
LEMMA PostedStands ==
  ASSUME NEW t \in Nat, NEW zone \in Int
  PROVE  LET tm == C!PcTime(C!Posted(t), zone)
         IN  Stands(tm, t + 3600 * zone) /\ tm.isdst = 0
<1> DEFINE now == C!gmtime_r(t)
           tm == C!PcTime(C!Posted(t), zone)
<1>1. Stands(now, t)
  BY GmtimeIs, MomentStands
<1>2. /\ tm.sec = now.sec /\ tm.min = now.min /\ tm.hour = now.hour + zone
      /\ tm.mday = now.mday /\ tm.mon = now.mon /\ tm.year = (now.year + 1900) - 1900
      /\ tm.isdst = C!gmtime_r(1522921929).isdst
  BY DEF C!PcTime, C!SetFields, C!Posted, C!YEAR0
<1> HIDE DEF now, tm
<1>3. tm.isdst = 0
  BY <1>2, NotSaving
<1>6. /\ tm.sec = now.sec /\ tm.min = now.min /\ tm.hour = now.hour + zone
      /\ tm.mday = now.mday /\ tm.mon = now.mon
  BY <1>2
<1>4. /\ tm.year = now.year
      /\ tm.sec \in Int /\ tm.min \in Int /\ tm.hour \in Int
      /\ tm.mday \in Int /\ tm.mon \in Int /\ tm.year \in Int
  BY <1>1, <1>2 DEF Stands
<1>5. Stands(tm, t + 3600 * zone)
  <2> DEFINE day == First(12 * now.year + now.mon) + now.mday - 1
             h == now.hour
             ms == 60 * now.min + now.sec
  <2>4. day \in Int
    <3> DEFINE n == 12 * now.year + now.mon
    <3>1. n \in Int /\ now.mday \in Int
      BY <1>1 DEF Stands
    <3> HIDE DEF n
    <3>2. First(n) \in Int
      BY <3>1, MonthStep
    <3> QED
      BY <3>1, <3>2 DEF n
  <2>7. h \in Int /\ ms \in Int /\ now.min \in Int /\ now.sec \in Int
        /\ t = 86400 * day + 3600 * h + 60 * now.min + now.sec
    BY <1>1 DEF Stands
  <2>1. t = 86400 * day + 3600 * h + ms
    BY <2>4, <2>7
  <2>2. First(12 * tm.year + tm.mon) + tm.mday - 1 = day
    BY <1>4, <1>6
  <2>3. tm.hour = h + zone /\ 60 * tm.min + tm.sec = ms
    BY <1>6
  <2> HIDE DEF day, h, ms
  <2>5. t + 3600 * zone = 86400 * day + 3600 * (h + zone) + ms
    BY <2>1, <2>4, <2>7
  <2>6. t + 3600 * zone = 86400 * day + 3600 * tm.hour + 60 * tm.min + tm.sec
    BY <1>4, <2>3, <2>4, <2>5, <2>7
  <2> QED
    BY <1>4, <2>2, <2>6 DEF Stands
<1> QED
  BY <1>3, <1>5 DEF tm

\* PagesAgree of Calendar.tla: ntp_udp_recv (ntp.c) and cgi_PC_Time (page_ntp.c) write
\* the same seven registers for the same moment, but for Sunday, which is 7 or 0.
THEOREM PagesDoAgree == CalendarSpec => []PagesAgree
<1>1. LookInv => PagesAgree
  <2> SUFFICES ASSUME LookInv, NEW zone \in Zones
               PROVE  LET n == C!NtpDate(clock, zone)
                          pc == C!PcDate(C!Posted(clock), zone)
                      IN  /\ [n EXCEPT ![4] = 0] = [pc EXCEPT ![4] = 0]
                          /\ n[4] = pc[4] \/ <<n[4], pc[4]>> = <<7, 0>>
    BY DEF PagesAgree, C!PagesAgree
  <2> DEFINE t == clock + 3600 * zone
             a == C!localtime_r(clock, zone)
             b == C!PcTime(C!Posted(clock), zone)
             tm == C!applyTZ(a)
  <2>1. t \in Nat /\ clock \in Nat /\ zone \in Int
    BY LookFits
  <2>2. a = C!gmtime_r(t)
    BY DEF C!localtime_r
  <2>3. Stands(b, t) /\ b.isdst = 0
    BY <2>1, PostedStands
  <2> HIDE DEF t, a, b
  <2>4. a = Moment(t) /\ Stands(a, t) /\ a.isdst = 0
    BY <2>1, <2>2, GmtimeIs, MomentStands
  <2>5. C!mktime(a) = Moment(t) /\ C!mktime(b) = Moment(t)
    BY <2>1, <2>3, <2>4, MktimeIs
  <2>6. C!applyTZ(b) = tm
    BY <2>5, AppliedAlike
  <2> HIDE DEF tm
  <2> DEFINE v == IF tm.wday = 0 THEN 7 ELSE tm.wday
             w == IF tm.wday = 7 THEN 0 ELSE tm.wday
  <2>7. C!NtpDate(clock, zone) = C!Registers(tm, v) /\ C!PcDate(C!Posted(clock), zone) = C!Registers(tm, w)
    BY <2>6 DEF C!NtpDate, C!PcDate, a, b, tm
  <2>8. v = w \/ (v = 7 /\ w = 0)
    OBVIOUS
  <2> HIDE DEF v, w
  <2>9. /\ [C!Registers(tm, v) EXCEPT ![4] = 0] = [C!Registers(tm, w) EXCEPT ![4] = 0]
        /\ C!Registers(tm, v)[4] = C!decToBcd(v) /\ C!Registers(tm, w)[4] = C!decToBcd(w)
    BY RegistersAlike
  <2>10. C!decToBcd(7) = 7 /\ C!decToBcd(0) = 0
    BY DEF C!decToBcd
  <2> QED
    BY <2>7, <2>8, <2>9, <2>10
<1> QED
  BY <1>1, LookInit, LookStep, PTL DEF CalendarSpec
=============================================================================
