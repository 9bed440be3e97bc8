------------------------------- MODULE I2cRtc -------------------------------
(***************************************************************************)
(* driver/my_i2c.c and driver/IIC_DS1307.c: the clock chip behind a bus    *)
(* that is driven from one-shot timers.  A transfer starts in the caller   *)
(* (address phase) and is finished by i2c_timer (data phase); in between   *)
(* the i2c_Busy bit keeps others out.  Timers and the two callers that set *)
(* the date (NTP, the web page) come in any order.                         *)
(*                                                                         *)
(* All transfers of this program fit i2c_packet_lenght, so i2c_send and    *)
(* i2c_recive run once per transfer.  The seven clock registers are one    *)
(* value; a write broken off by a NACK leaves the value Torn.              *)
(***************************************************************************)
CONSTANTS Dates,   \* what NTP and the web page set
          Power,   \* what the chip holds at power-up
          Torn     \* registers half written

ASSUME ChipAssumption ==
  /\ Power \notin Dates /\ Torn \notin Dates /\ Torn # Power
  /\ "control" \notin Dates \cup {Power}

VARIABLES
  busy,      \* i2c_Do & i2c_Busy
  i2cTimer,  \* i2c_timer: "off", or armed with "i2c_send" or "i2c_recive"
  whatDo,    \* MasterOutFunc and ErrorOutFunc, which are always the same
  buffer,    \* i2c_Buffer
  timerRead, \* DS1307_timer_read is armed (with DS1307_Read)
  timerSet,  \* DS1307_timer_set: "off" or what it is armed with
  toWrite,   \* DS1307_Date_to_Write
  shown,     \* DS1307_Time and DS1307_Date
  chip,      \* the registers of the DS1307
  refused,   \* history: data bytes the chip refused, "last" or "earlier" ones
  leaked     \* history: a refused read returned with i2c_Busy set

rtc  == <<timerRead, timerSet, toWrite, shown>>
bus  == <<busy, i2cTimer, whatDo, buffer>>
vars == <<bus, rtc, chip, refused, leaked>>

Contents == Dates \cup {Power, Torn, "control"}

Callbacks == {"DoNothing", "DS1307_Inited", "DS1307_Readed", "DS1307_Date_Set"}
-----------------------------------------------------------------------------
(* my_i2c.c                                                                *)

BusFree == ~busy

\* i2c_Write_Addr_Buffer that returns 1: the data phase is left to i2c_timer.
WriteStarted(data, cb) ==
  /\ BusFree
  /\ busy' = TRUE
  /\ whatDo' = cb
  /\ buffer' = data
  /\ i2cTimer' = "i2c_send"

\* ... refused because the bus is busy, or by the chip (which frees it).
WriteRefused(data, cb) ==
  \/ /\ ~BusFree
     /\ UNCHANGED bus
  \/ /\ BusFree
     /\ whatDo' = cb
     /\ buffer' = data
     /\ UNCHANGED <<busy, i2cTimer>>

\* i2c_Read_Addr_Buffer that returns 1
ReadStarted(cb) ==
  /\ BusFree
  /\ busy' = TRUE
  /\ whatDo' = cb
  /\ i2cTimer' = "i2c_recive"
  /\ UNCHANGED <<buffer, leaked>>

\* The NACK paths of a read leave i2c_Busy set.
ReadNack == busy' = TRUE

\* ... refused because the bus is busy, or by the chip (which does not free it).
ReadRefused(cb) ==
  \/ /\ ~BusFree
     /\ UNCHANGED <<bus, leaked>>
  \/ /\ BusFree
     /\ whatDo' = cb
     /\ ReadNack
     /\ leaked' = TRUE
     /\ UNCHANGED <<i2cTimer, buffer>>
-----------------------------------------------------------------------------
(* IIC_DS1307.c                                                            *)

\* user_init calls DS1307_Init, of which both outcomes are initial states.
Init ==
  /\ \/ busy = TRUE /\ i2cTimer = "i2c_send" /\ timerSet = "off"
     \/ /\ busy = FALSE /\ i2cTimer = "off" /\ timerSet = "DS1307_Init"
  /\ whatDo = "DS1307_Inited" /\ buffer = "control"
  /\ timerRead = FALSE /\ toWrite = Power /\ shown = Power /\ chip = Power
  /\ refused = {} /\ leaked = FALSE

\* DS1307_timer_set with DS1307_Init: the control register is written.
InitAgain ==
  /\ timerSet = "DS1307_Init"
  /\ \/ /\ WriteStarted("control", "DS1307_Inited")
        /\ timerSet' = "off"
     \/ /\ WriteRefused("control", "DS1307_Inited")
        /\ timerSet' = "DS1307_Init"
  /\ UNCHANGED <<timerRead, toWrite, shown, chip, refused, leaked>>

\* DS1307_timer_read with DS1307_Read: try again in 2 ms if refused.
DS1307_Read ==
  /\ timerRead
  /\ \/ ReadStarted("DS1307_Readed") /\ timerRead' = FALSE
     \/ ReadRefused("DS1307_Readed") /\ timerRead' = TRUE
  /\ UNCHANGED <<timerSet, toWrite, shown, chip, refused>>

\* Mutated form: a date that is refused is forgotten.
SetDropped == timerSet' = "off"

\* A date that is refused is tried again in 5 ms.
SetLater == timerSet' = "DS1307_Set_Date"

\* DS1307_Set_Date: reading stops until the date is set.
SetDate(date, armed) ==
  /\ timerRead' = FALSE
  /\ \/ WriteStarted(date, "DS1307_Date_Set") /\ timerSet' = armed
     \/ WriteRefused(date, "DS1307_Date_Set") /\ SetLater

\* ntp_udp_recv or cgi_PC_Time fills DS1307_Date_to_Write and calls it ...
Ask(date) ==
  /\ toWrite' = date
  /\ SetDate(date, timerSet)
  /\ UNCHANGED <<shown, chip, refused, leaked>>

\* ... and so does DS1307_timer_set.
DS1307_Set_Date ==
  /\ timerSet = "DS1307_Set_Date"
  /\ SetDate(toWrite, "off")
  /\ UNCHANGED <<toWrite, shown, chip, refused, leaked>>

\* Mutated form: DS1307_Date_Set does not start the clock's reading again.
ReadNotArmed == UNCHANGED timerRead

\* os_timer_arm(&DS1307_timer_read, 1000, 0), the end of all three callbacks.
ArmRead == timerRead' = TRUE

\* DS1307_Inited or DS1307_Date_Set.  Nothing ever sets i2c_ERR_NA or
\* i2c_ERR_BF, so their error branches are dead.
WriteDone ==
  /\ busy' = FALSE
  /\ ArmRead

\* What the clock registers hold once the buffer is written where it belongs.
Registers == IF buffer = "control" THEN chip ELSE buffer

\* i2c_send, every byte acknowledged
SendAcked ==
  /\ i2cTimer = "i2c_send"
  /\ i2cTimer' = "off"
  /\ WriteDone
  /\ chip' = Registers
  /\ UNCHANGED <<whatDo, buffer, timerSet, toWrite, shown, refused, leaked>>

\* i2c_send with a NACK: a STOP and ErrorOutFunc, but the loop goes on with the
\* bytes that are left (the control register is one byte, a date seven) and
\* ends in MasterOutFunc.  Both are the callback that takes it for a success.
SendNacked ==
  /\ i2cTimer = "i2c_send"
  /\ i2cTimer' = "off"
  /\ WriteDone
  /\ \E byte \in {"last", "earlier"} :
       /\ buffer = "control" => byte = "last"
       /\ refused' = refused \cup {byte}
  /\ chip' \in IF buffer = "control" THEN {chip} ELSE {chip, Torn}
  /\ UNCHANGED <<whatDo, buffer, timerSet, toWrite, shown, leaked>>

\* i2c_recive and DS1307_Readed (called twice, the second time to no effect)
i2c_recive ==
  /\ i2cTimer = "i2c_recive"
  /\ i2cTimer' = "off"
  /\ busy' = FALSE
  /\ buffer' = chip
  /\ shown' = chip
  /\ ArmRead
  /\ UNCHANGED <<whatDo, timerSet, toWrite, chip, refused, leaked>>

Next ==
  \/ InitAgain \/ DS1307_Read \/ DS1307_Set_Date
  \/ \E date \in Dates : Ask(date)
  \/ SendAcked \/ SendNacked \/ i2c_recive

\* Timers fire, and the chip does not refuse its address for ever.
Fairness ==
  /\ WF_vars(SendAcked \/ SendNacked) /\ WF_vars(i2c_recive)
  /\ WF_vars(InitAgain) /\ WF_vars(DS1307_Read) /\ WF_vars(DS1307_Set_Date)
  /\ SF_vars(InitAgain /\ busy')
  /\ SF_vars(DS1307_Read /\ i2cTimer' = "i2c_recive")
  /\ SF_vars(DS1307_Set_Date /\ i2cTimer' = "i2c_send")

Spec == Init /\ [][Next]_vars /\ Fairness
-----------------------------------------------------------------------------
TypeOK ==
  /\ busy \in BOOLEAN
  /\ i2cTimer \in {"off", "i2c_send", "i2c_recive"}
  /\ whatDo \in Callbacks
  /\ buffer \in Contents
  /\ timerRead \in BOOLEAN
  /\ timerSet \in {"off", "DS1307_Init", "DS1307_Set_Date"}
  /\ toWrite \in Dates \cup {Power}
  /\ shown \in Dates \cup {Power, Torn} /\ chip \in Dates \cup {Power, Torn}
  /\ refused \subseteq {"last", "earlier"} /\ leaked \in BOOLEAN

\* Every step of the clock's life is started by the one before: if no timer of
\* the RTC or the bus is armed, nobody will ever read the clock again.
ClockIsAlive == timerRead \/ timerSet # "off" \/ i2cTimer # "off"

\* The callback that runs when the data phase ends is that of the transfer
\* i2c_timer is armed for, though caller and timer share four globals.
CallbackMatches ==
  /\ i2cTimer = "i2c_recive" => whatDo = "DS1307_Readed"
  /\ i2cTimer = "i2c_send" =>
       whatDo = IF buffer = "control" THEN "DS1307_Inited"
                ELSE "DS1307_Date_Set"

\* The busy bit outlives its transfer only through the NACK path of a read.
BusyMeansTransfer == busy <=> i2cTimer # "off" \/ leaked

\* Unless the chip refused data, a date that was asked for and not superseded is
\* on the chip, on its way in the buffer, or waiting for the timer.
DateNotForgotten ==
  \/ refused # {}
  \/ toWrite = Power \/ chip = toWrite
  \/ i2cTimer = "i2c_send" /\ buffer = toWrite
  \/ timerSet = "DS1307_Set_Date"

\* my_i2c.h calls i2c_ERR_NK "Received NACK. End Transmittion": after the STOP
\* of a NACK nothing more is clocked out.
NackEndsTransmission == "earlier" \notin refused

\* The clock is read for ever, unless somebody keeps setting it or the bus is
\* lost.
Setting == \E date \in Dates : Ask(date)
ClockKeepsBeingRead ==
  []<><<i2c_recive>>_vars \/ []<><<Setting>>_vars \/ <>leaked

\* A read refused by the chip blocks the bus for good: from then on no transfer
\* is started, however often the timers retry.
LeakIsForever == [][leaked => UNCHANGED <<i2cTimer, chip, shown>>]_vars
=============================================================================
