------------------------------ MODULE Monitor ------------------------------
(* The house: the one-second timer of driver/timer_routines.c, which does    *)
(* what belongs to a tenth second or a minute when the second last polled    *)
(* from the clock (I2cRtc) says so; the DHT22 it reads (driver/DHT22.c); the *)
(* index page, which shows the reading and sets the fan's timer              *)
(* (user/pages/page_index.c).  A reading is in tenths, as the sensor sends   *)
(* it: 40 bits, of which the line may lose the last ones or turn one over,   *)
(* not both.  The ADC's average is only logged, and temporary_fan_off_timer  *)
(* is never anything but 0: both are left out.                               *)
EXTENDS Integers, Sequences, BitStrings

CONSTANTS
  Readings,    \* [h, t]: what the sensor may measure
  Lengths,     \* bits that may arrive of a reading, 40 among them
  Flips,       \* the places, 1 .. 40, of a bit that may be turned over
  PolledSeconds,     \* what the polled clock may show
  Minute,      \* 60; fewer here
  MaxUptime    \* bound: seconds watched

VARIABLES
  DHT,              \* DHT_temperature and DHT_Humidity
  measured,         \* the reading the sensor sent when one was last accepted
  fan,              \* temporary_fan_on_timer
  tempOn_time,      \* minutes, from the configuration
  asked,            \* uptime when the fan was last switched, on: 0 < minutes
  uptime,
  session,          \* connState = 15 and mqtt_task_enabled
  lengthLast,       \* the compiler evaluates strlen(tc) after the text is made
  page, published   \* what was last shown, and last sent

vars == <<DHT, measured, fan, tempOn_time, asked, uptime, session, lengthLast, page, published>>

Never == [at |-> 0, minutes |-> 0]
\* A text "%d.%d": a whole number, a sign or none, a number and its places.
Nothing == [whole |-> 0, minus |-> FALSE, frac |-> 0, places |-> 1]
NoPage == [t |-> Nothing, h |-> Nothing, fan |-> 0, on |-> FALSE, fresh |-> FALSE]
NoMessages == [t |-> Nothing, h |-> Nothing, fresh |-> FALSE]

Init ==
  /\ DHT = [h |-> 0, t |-> 0] /\ measured = DHT
  /\ fan = 0 /\ tempOn_time \in 0 .. 2 /\ asked = Never /\ uptime = 0
  /\ session = FALSE /\ lengthLast \in BOOLEAN
  /\ page = NoPage /\ published = NoMessages
-----------------------------------------------------------------------------
Abs(n) == IF n < 0 THEN -n ELSE n

\* The bits of a byte, as the sensor sends them
ByteBits(byte) == [i \in 1 .. 8 |-> (byte \div 2 ^ (8 - i)) % 2]

\* The bits the sensor sends: humidity, sign and size of the temperature, sum.
Frame(r) ==
  LET th == (IF r.t < 0 THEN 128 ELSE 0) + Abs(r.t) \div 256
      bytes == <<r.h \div 256, r.h % 256, th, Abs(r.t) % 256>>
      sum == (bytes[1] + bytes[2] + bytes[3] + bytes[4]) % 256
  IN ByteBits(bytes[1]) \o ByteBits(bytes[2]) \o ByteBits(bytes[3]) \o ByteBits(bytes[4])
     \o ByteBits(sum)

\* What comes of them.
Arrived(r) ==
  {SubSeq(Frame(r), 1, n) : n \in Lengths}
  \cup {[Frame(r) EXCEPT ![f] = 1 - @] : f \in Flips}

\* data[k] of DHTRead: the bits of a byte that arrived, shifted in.
Data(bits, k) ==
  Number(SubSeq(bits, 8 * k + 1, IF Len(bits) < 8 * k + 8 THEN Len(bits) ELSE 8 * k + 8))

Scaled(bits) ==
  [h |-> Data(bits, 0) * 256 + Data(bits, 1),
   t |-> (IF Data(bits, 2) >= 128 THEN -1 ELSE 1)
         * ((Data(bits, 2) % 128) * 256 + Data(bits, 3))]

\* A mutant: the sum leaves out the high byte of the temperature.
AcceptedShort(bits) ==
  /\ Len(bits) >= 39
  /\ Data(bits, 4) = (Data(bits, 0) + Data(bits, 1) + Data(bits, 3)) % 256

\* The tests of DHTRead.
Accepted(bits) ==
  /\ Len(bits) >= 39
  /\ Data(bits, 4) = (Data(bits, 0) + Data(bits, 1) + Data(bits, 2) + Data(bits, 3)) % 256

\* The task of every tenth second.
DHTRead(r, bits) ==
  /\ DHT' = IF Accepted(bits) THEN Scaled(bits) ELSE DHT
  /\ measured' = IF Accepted(bits) THEN r ELSE measured

\* DHTFloat2String: both parts are cut towards 0 and carry the sign of a value
\* that has one (a whole part of 0 has none); the binary fraction may make the
\* second one less by one; and "%d" puts no 0 before a second part under 10.
Texts(x) ==
  LET tenth == Abs(x) % 10
      whole == IF x < 0 THEN -(Abs(x) \div 10) ELSE x \div 10
  IN {[whole |-> whole, minus |-> x < 0 /\ tenth # 0, frac |-> n,
       places |-> IF n < 10 THEN 1 ELSE 2] :
        n \in IF tenth = 0 THEN {0} ELSE {10 * tenth - 1, 10 * tenth}}
-----------------------------------------------------------------------------
\* every_minute_task.  The length of a text is an argument beside the call that
\* makes the text: taken first, it is the length of what tc held before.
Published(dht) ==
  {[t |-> t, h |-> h, fresh |-> TRUE] :
     t \in IF lengthLast THEN Texts(dht.t) ELSE {Nothing},
     h \in IF lengthLast THEN Texts(dht.h) ELSE {Nothing}}

\* every_second_task, and a mutant that lets it run under 0.
CountFurther(n) == n - 1
CountDown(n) == IF n # 0 THEN n - 1 ELSE 0

\* circular_timer_proc, when the polled clock shows a second.
circular_timer_proc(sec) ==
  /\ uptime < MaxUptime /\ uptime' = uptime + 1
  /\ fan' = CountDown(fan)
  /\ IF sec % 10 = 0
     THEN \E r \in Readings : \E bits \in Arrived(r) : DHTRead(r, bits)
     ELSE UNCHANGED <<DHT, measured>>
  /\ IF sec = 0 /\ session THEN published' \in Published(DHT') ELSE published' = NoMessages
  /\ page' = NoPage
  /\ UNCHANGED <<tempOn_time, asked, session, lengthLast>>

\* cgi_index: the fan is switched on for a time, or off; anything else in the
\* form leaves it.
cgi_index(slider2) ==
  /\ fan' = IF slider2 = "true" THEN tempOn_time * Minute
            ELSE IF slider2 = "false" THEN 0 ELSE fan
  /\ asked' = IF slider2 = "none" THEN asked
              ELSE [at |-> uptime, minutes |-> IF slider2 = "true" THEN tempOn_time ELSE 0]
  /\ page' = NoPage /\ published' = NoMessages
  /\ UNCHANGED <<DHT, measured, tempOn_time, uptime, session, lengthLast>>

\* cgi_index_get_data, asked for "get_data"; when the fan is not on, it shows
\* the minutes it would be.
cgi_index_get_data ==
  /\ \E t \in Texts(DHT.t), h \in Texts(DHT.h) :
       page' = [t |-> t, h |-> h, on |-> fan # 0,
                fan |-> IF fan = 0 THEN tempOn_time ELSE fan, fresh |-> TRUE]
  /\ published' = NoMessages
  /\ UNCHANGED <<DHT, measured, fan, tempOn_time, asked, uptime, session, lengthLast>>

\* The MQTT session comes and goes (MqttClient).
Session ==
  /\ session' = ~session /\ page' = NoPage /\ published' = NoMessages
  /\ UNCHANGED <<DHT, measured, fan, tempOn_time, asked, uptime, lengthLast>>

Next ==
  \/ \E sec \in PolledSeconds : circular_timer_proc(sec)
  \/ \E slider2 \in {"true", "false", "none"} : cgi_index(slider2)
  \/ cgi_index_get_data
  \/ Session
-----------------------------------------------------------------------------
\* A text, read as a decimal number, is within a hundredth of a reading.
Tells(text, x) ==
  LET size == 100 * Abs(text.whole) + (IF text.places = 1 THEN 10 ELSE 1) * text.frac
  IN /\ ~text.minus
     /\ Abs((IF text.whole < 0 THEN -size ELSE size) - 10 * x) <= 1

\* Its two numbers are the whole and the hundredths of the reading.
Spells(text, x) ==
  LET frac == IF text.minus THEN -text.frac ELSE text.frac
  IN Abs(100 * text.whole + frac - 10 * x) <= 1

\* The readings DHTFloat2String has a decimal number for: 5.1 may be printed as
\* 5.9, and -0.5 is printed as 0.-50.
HasDecimal(x) == x % 10 = 0 \/ (x > 0 /\ x % 10 # 1)

Shows(text, x) == IF HasDecimal(x) THEN Tells(text, x) ELSE Spells(text, x)

\* What the page shows, and what is published if the length is taken last, is
\* what the sensor sent when a reading was last accepted, whatever the line did
\* to the ones since (driver/DHT22.c:40-69, 118-152, timer_routines.c:319-366):
\* a decimal number that tells it, where there is one; elsewhere its whole and
\* its hundredths side by side, which TextReadsRight is about.
ShownIsMeasured ==
  /\ page.fresh => Shows(page.t, measured.t) /\ Shows(page.h, measured.h)
  /\ (published.fresh /\ lengthLast) =>
       Shows(published.t, measured.t) /\ Shows(published.h, measured.h)

\* The page calls the two texts degrees and per cent (html/index.tpl:48), so
\* each of them, read as a decimal number, is what was measured.
TextReadsRight ==
  page.fresh => Tells(page.t, measured.t) /\ Tells(page.h, measured.h)

\* The fan is shown on exactly for the minutes of the last request to switch
\* it, however often it was switched before, with the seconds that are left
\* (page_index.c:322-331, 468-476, timer_routines.c:293-296).
FanShown ==
  page.fresh =>
    LET left == asked.minutes * Minute - (uptime - asked.at) IN
    /\ page.on = (left > 0)
    /\ page.on => page.fan = left
=============================================================================
