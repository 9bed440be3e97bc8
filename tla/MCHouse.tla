-------------------------------- MODULE MCHouse --------------------------------
(* The clock and what is measured, one of six at a time: the parts of House,  *)
(* that is I2cRtc with two dates, Ntp with three connections, Monitor with a  *)
(* minute of three seconds, Pir, and DS18B20 with seven devices of which any  *)
(* may be on the bus and one may come off or on; and Calendar, hour by hour   *)
(* around ends of months, leap days and the days on which daylight saving     *)
(* begins and ends.                                                           *)
EXTENDS House

MCServers == {"a", "b"}
MCConnections == 1 .. 3
MCReadings == {[h |-> 651, t |-> 233], [h |-> 0, t |-> -5], [h |-> 1000, t |-> -401]}
-----------------------------------------------------------------------------
\* Midnight of the day-th of a month (from 0) of a year.
Day(year, mon, mday) ==
  LET y == IF mon < 2 THEN year - 1 ELSE year
      m == (mon + 10) % 12
  IN 86400 * (365 * y + (y \div 4) - (y \div 100) + (y \div 400)
              + ((153 * m + 2) \div 5) + mday - 719469)

MCStarts ==
  {Day(y, 11, 28) + 3599 : y \in {2000, 2016, 2019, 2036}}
  \cup {Day(y, 1, 25) + 59 : y \in {2000, 2018, 2036}}
  \cup {Day(y, m, 25) : y \in 2016 .. 2027, m \in {2, 9}}

MCZones == {-11, 0, 2, 12}
-----------------------------------------------------------------------------
\* Of families <<0,1>> and <<1,1>>, which are measured, and of two others.
MCRoms == {<<0, 1, 0, 0>>, <<0, 1, 0, 1>>, <<1, 1, 0, 1>>, <<1, 1, 1, 0>>,
           <<1, 1, 1, 1>>, <<1, 0, 1, 1>>, <<0, 0, 1, 1>>}

MCCrcHolds == MCRoms \ {<<1, 1, 1, 0>>}
MCThermometers == {<<0, 1>>, <<1, 1>>}
MCHalves == <<0, 1>>
MCScratchpads == {7, -8}
-----------------------------------------------------------------------------
\* Which of the six is looked at.
VARIABLE part

MCInit ==
  /\ part \in {"chip", "requests", "calendar", "bus", "house", "motion"}
  /\ IF part = "calendar" THEN TRUE ELSE clock = Day(2000, 1, 25) + 59
  /\ IF part = "requests" THEN TRUE ELSE ntp_server = "a" /\ ntp_flag = 0 /\ ntp = "a"
  /\ IF part = "chip" THEN TRUE ELSE timerSet = "off"
  /\ IF part = "bus" THEN TRUE ELSE wire = {}
  /\ IF part = "house" THEN TRUE ELSE tempOn_time = 0 /\ lengthLast = TRUE
  /\ Init /\ N!Init /\ C!Init /\ D!Init /\ M!Init /\ P!Init

\* A clock that was looked at often enough.
Seen == ticks = Ticks /\ UNCHANGED calendarVars

MCNext ==
  \/ /\ part = "chip" /\ Next
     /\ UNCHANGED <<ntpVars, calendarVars, sensorVars, monitorVars, pirVars, part>>
  \/ /\ part = "requests" /\ N!Next
     /\ UNCHANGED <<vars, calendarVars, sensorVars, monitorVars, pirVars, part>>
  \/ /\ part = "calendar" /\ (C!Next \/ Seen)
     /\ UNCHANGED <<vars, ntpVars, sensorVars, monitorVars, pirVars, part>>
  \/ /\ part = "bus" /\ D!Next
     /\ UNCHANGED <<vars, ntpVars, calendarVars, monitorVars, pirVars, part>>
  \/ /\ part = "house" /\ M!Next
     /\ UNCHANGED <<vars, ntpVars, calendarVars, sensorVars, pirVars, part>>
  \/ /\ part = "motion" /\ P!Next
     /\ UNCHANGED <<vars, ntpVars, calendarVars, sensorVars, monitorVars, part>>

\* Fairness of I2cRtc while the chip is looked at.
ChipIs(A) == part = "chip" /\ A

MCFairness ==
  /\ WF_vars(ChipIs(SendAcked \/ SendNacked)) /\ WF_vars(ChipIs(i2c_recive))
  /\ WF_vars(ChipIs(InitAgain)) /\ WF_vars(ChipIs(DS1307_Read))
  /\ WF_vars(ChipIs(DS1307_Set_Date))
  /\ SF_vars(ChipIs(InitAgain /\ busy'))
  /\ SF_vars(ChipIs(DS1307_Read /\ i2cTimer' = "i2c_recive"))
  /\ SF_vars(ChipIs(DS1307_Set_Date /\ i2cTimer' = "i2c_send"))

MCSpec ==
  /\ MCInit
  /\ [][MCNext]_<<vars, ntpVars, calendarVars, sensorVars, monitorVars, pirVars, part>>
  /\ MCFairness

ClockRead == part = "chip" => ClockKeepsBeingRead
=============================================================================
