------------------------------- MODULE House -------------------------------
(***************************************************************************)
(* The clock chip's bus (I2cRtc) beside the other parts of the firmware    *)
(* that run from timers of their own: requests for the time (Ntp), whose   *)
(* answers are what I2cRtc!Ask is called with, the monitor of the house    *)
(* (Monitor), which polls the second that I2cRtc read, the motion sensor   *)
(* (Pir), the thermometers on the one-wire bus (DS18B20), and the calendar *)
(* between the answer of NTP and the registers of the chip (Calendar).     *)
(* They share no variable.                                                 *)
(***************************************************************************)
EXTENDS I2cRtc, Integers, FiniteSets, Sequences

CONSTANTS Servers, Connections,                           \* of Ntp
          Readings, Lengths, Flips, PolledSeconds, Minute, MaxUptime,  \* of Monitor
          Roms, FamilyBits, CrcHolds, Thermometers, Halves,            \* of DS18B20
          OW_MAX_DEVICES, Scratchpads, Unplugged,
          Starts, Ticks, Tick, Zones                        \* of Calendar

\* pCon is 0 when there is no connection; the heap is finite.
ASSUME ConnectionAssumption == IsFiniteSet(Connections) /\ Connections \subseteq Nat \ {0}

\* Sixteen bits of humidity, a sign and fifteen bits of temperature; forty in all.
ASSUME ReadingAssumption ==
  /\ \A r \in Readings : r.h \in Nat /\ r.h < 65536 /\ r.t \in Int /\ -32768 < r.t /\ r.t < 32768
  /\ Lengths \subseteq 0 .. 40 /\ Flips \subseteq 1 .. 40

ASSUME TimeAssumption == PolledSeconds \subseteq Nat /\ Minute \in Nat \ {0} /\ MaxUptime \in Nat
\* ROM codes are of one length, 64 bits in the source.
ASSUME RomAssumption ==
  /\ IsFiniteSet(Roms) /\ Roms # {} /\ CrcHolds \subseteq Roms
  /\ \A r \in Roms : r \in Seq({0, 1}) /\ \A q \in Roms : Len(q) = Len(r)
  /\ OW_MAX_DEVICES \in Nat \ {0}
-----------------------------------------------------------------------------
VARIABLES ntp_server, ntp_flag, ntp, lookups, pCon, live, ntp_timeout

N == INSTANCE Ntp

ntpVars == <<ntp_server, ntp_flag, ntp, lookups, pCon, live, ntp_timeout>>
RequestsSpec == N!Init /\ [][N!Next]_ntpVars
RequestIsTimed == N!RequestIsTimed
-----------------------------------------------------------------------------
VARIABLES DHT, measured, fan, tempOn_time, asked, uptime, session, lengthLast, page,
          published

M == INSTANCE Monitor

monitorVars == <<DHT, measured, fan, tempOn_time, asked, uptime, session, lengthLast,
                 page, published>>
MonitorSpec == M!Init /\ [][M!Next]_monitorVars
ShownIsMeasured == M!ShownIsMeasured
TextReadsRight == M!TextReadsRight
FanShown == M!FanShown
-----------------------------------------------------------------------------
VARIABLES pin, rose, PIR_flags, armed, saw

P == INSTANCE Pir

pirVars == <<pin, rose, PIR_flags, armed, saw>>
MotionSpec == P!Init /\ [][P!Next]_pirVars
MotionIsWatched == P!MotionIsWatched
-----------------------------------------------------------------------------
VARIABLES wire, changes, address, LastDiscrepancy, LastDeviceFlag, devices, current,
          temperature, scratchpad, timer, steady

D == INSTANCE DS18B20 WITH Readings <- Scratchpads

sensorVars == <<wire, changes, address, LastDiscrepancy, LastDeviceFlag, devices, current,
                temperature, scratchpad, timer, steady>>
SensorSpec == D!Init /\ [][D!Next]_sensorVars
FoundOnce == D!FoundOnce
-----------------------------------------------------------------------------
VARIABLES clock, ticks

C == INSTANCE Calendar

\* Seconds since 1970 fit a signed number of 32 bits, here and in every zone, and
\* sysCfg.timezone is one of 8 bits.
ASSUME CalendarAssumption ==
  /\ Starts \subseteq Nat /\ Ticks \in Nat /\ Tick \in Nat /\ Zones \subseteq -128 .. 127
  /\ \A start \in Starts, zone \in Zones \cup {0} :
       start + 3600 * zone >= 0 /\ start + Ticks * Tick + 3600 * zone <= C!TIME_MAX

calendarVars == <<clock, ticks>>
CalendarSpec == C!Init /\ [][C!Next]_calendarVars
CalendarHolds == C!CalendarHolds
SummerTime == C!SummerTime
PagesAgree == C!PagesAgree
=============================================================================
