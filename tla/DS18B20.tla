------------------------------ MODULE DS18B20 ------------------------------
(* The one-wire driver (driver/DS18B20.c): ds18b20_search walks the tree of *)
(* the ROM codes on the bus, pass by pass; then ds18b20p1 and ds18b20p2, two *)
(* timers, measure the devices found, in turn.  Nothing in the firmware      *)
(* calls them yet; the model is of a caller that searches and then measures. *)
(*                                                                          *)
(* A ROM code is a sequence of bits, shorter than the 64 of the source: its  *)
(* first FamilyBits are the source's address[0].  CrcHolds says of which     *)
(* codes crc8 finds the last byte right.                                     *)
EXTENDS Integers, Sequences, FiniteSets, FiniteSetsExt

CONSTANTS
  Roms,            \* the ROM codes of the devices there are, of equal length
  FamilyBits,
  CrcHolds,        \* \subseteq Roms: a badly soldered device has a wrong code
  Thermometers,    \* the families measured: 0x10 and 0x28
  Halves,          \* the family whose unit is half a degree: 0x10
  OW_MAX_DEVICES,
  Readings,        \* what a scratchpad may hold, in units of the device
  Unplugged        \* bound: how often the wire may change

VARIABLES
  wire,                  \* the devices connected
  changes,              \* how often that changed
  address, LastDiscrepancy, LastDeviceFlag,
  devices,
  current,              \* ds18b20_current_device, counted from 1
  temperature,          \* ds18b20_temperature_arrey, for the devices found
  scratchpad,           \* what each device last measured
  timer,                \* what goes on: a search, or the timer's function
  steady                \* the wire has not changed since ds18b20_search began

searchVars == <<address, LastDiscrepancy, LastDeviceFlag, devices>>
vars == <<wire, changes, searchVars, current, temperature, scratchpad, timer, steady>>

RomBits == LET r == CHOOSE r \in Roms : TRUE IN Len(r)
Family(rom) == SubSeq(rom, 1, FamilyBits)
NoAddress == [i \in 1 .. RomBits |-> 0]
TempOf(rom, raw) == IF Family(rom) = Halves THEN (raw * 10000) \div 2 ELSE (raw * 10000) \div 16
-----------------------------------------------------------------------------
Init ==
  /\ wire \in SUBSET Roms /\ changes = 0 /\ steady = TRUE
  /\ address = NoAddress /\ LastDiscrepancy = 0 /\ LastDeviceFlag = FALSE
  /\ devices = <<>> /\ current = 1 /\ temperature = [i \in 1 .. OW_MAX_DEVICES |-> 0]
  /\ scratchpad = [r \in Roms |-> 0] /\ timer = "none"

\* ds18b20_search begins: ds_init resets the search.
ds18b20_search ==
  /\ timer = "none" /\ timer' = "search"
  /\ address' = NoAddress /\ LastDiscrepancy' = 0 /\ LastDeviceFlag' = FALSE
  /\ devices' = <<>> /\ steady' = TRUE
  /\ UNCHANGED <<wire, changes, current, temperature, scratchpad>>
-----------------------------------------------------------------------------
\* The devices still taking part when the walk towards r comes to bit i; all of
\* them pull the same wire, first for the bit and then for its complement.
Here(r, i) == {q \in wire : \A j \in 1 .. i - 1 : q[j] = r[j]}
Both(r, i) == \E q \in Here(r, i) : q[i] # r[i]

\* The direction taken at a bit where both are there (a mutant repeats a 0).
BranchAgain(i) == IF i <= LastDiscrepancy THEN address[i] ELSE 0
Branch(i) ==
  IF i < LastDiscrepancy THEN address[i]
  ELSE IF i = LastDiscrepancy THEN 1 ELSE 0

\* The device a pass ends at: at every bit the walk takes the only direction
\* there is, or the one of Branch.
Walked == CHOOSE r \in wire : \A i \in 1 .. RomBits : Both(r, i) => r[i] = Branch(i)

\* last_zero: the last bit where 0 was chosen though 1 was there too.
LastZero(r) == Max({0} \cup {i \in 1 .. RomBits : Both(r, i) /\ r[i] = 0})

\* ds_search: what it returns, the address, and the state for the next call.
ds_search ==
  LET walked == ~LastDeviceFlag /\ wire # {}
      at == IF walked THEN Walked ELSE address
      found == walked /\ Family(at) # Family(NoAddress)
  IN [found |-> found,
      address |-> at,
      last |-> IF found THEN LastZero(at) ELSE 0,
      done |-> found /\ LastZero(at) = 0]

\* What ds18b20_search keeps of a device.
Kept(rom) ==
  IF rom \in CrcHolds /\ Family(rom) \in Thermometers THEN <<rom>> ELSE <<>>

Full(ds) == Len(ds) >= OW_MAX_DEVICES

\* One round of the loop of ds18b20_search; the loop ends when ds_search finds
\* nothing more or the table is full, and the caller starts the measurements.
Pass ==
  /\ timer = "search"
  /\ LET s == ds_search IN
     /\ address' = s.address /\ LastDiscrepancy' = s.last /\ LastDeviceFlag' = s.done
     /\ devices' = IF s.found THEN devices \o Kept(s.address) ELSE devices
     /\ timer' = IF s.found /\ ~Full(devices') THEN "search" ELSE "p1"
  /\ UNCHANGED <<wire, changes, current, temperature, scratchpad, steady>>
-----------------------------------------------------------------------------
\* ds18b20p1: the conversion of the current device; without one, later again.
ds18b20p1 ==
  /\ timer = "p1" /\ Len(devices) > 0 /\ timer' = "p2"
  /\ IF devices[current] \in wire
     THEN \E v \in Readings : scratchpad' = [scratchpad EXCEPT ![devices[current]] = v]
     ELSE UNCHANGED scratchpad
  /\ UNCHANGED <<wire, changes, searchVars, current, temperature, steady>>

Idle ==
  /\ timer = "p1" /\ Len(devices) = 0
  /\ UNCHANGED vars

\* The device after the current one.
NextDevice == IF current >= Len(devices) THEN 1 ELSE current + 1

\* ds18b20p2: up to five tries to read the scratchpad.  A device that is gone
\* reads as ones, which crc8 refuses five times, and -1 is what is stored.
ds18b20p2 ==
  /\ timer = "p2" /\ timer' = "p1"
  /\ LET rom == devices[current]
         raw == IF rom \in wire THEN scratchpad[rom] ELSE -1
     IN temperature' = [temperature EXCEPT ![current] = TempOf(rom, raw)]
  /\ current' = NextDevice
  /\ UNCHANGED <<wire, changes, searchVars, scratchpad, steady>>

\* A device is connected, or comes off.
Change ==
  /\ changes < Unplugged /\ changes' = changes + 1
  /\ timer # "none"
  /\ \E r \in Roms : wire' = IF r \in wire THEN wire \ {r} ELSE wire \cup {r}
  /\ steady' = FALSE
  /\ UNCHANGED <<searchVars, current, temperature, scratchpad, timer>>

Next == ds18b20_search \/ Pass \/ ds18b20p1 \/ Idle \/ ds18b20p2 \/ Change
-----------------------------------------------------------------------------
Wanted == {r \in wire \cap CrcHolds : Family(r) \in Thermometers}

\* No address of family 0 is on the wire: ds_search takes one for the end.
Plain == \A r \in wire : Family(r) # Family(NoAddress)

\* If the wire did not change, a finished search has found each thermometer
\* whose code reads well once, and nothing else; all of them if the table has
\* room (driver/DS18B20.c:50-168, 437-459).
FoundOnce ==
  (timer \in {"p1", "p2"} /\ steady /\ Plain) =>
    /\ \A i, j \in 1 .. Len(devices) : devices[i] = devices[j] => i = j
    /\ \A i \in 1 .. Len(devices) : devices[i] \in Wanted
    /\ Len(devices) = IF Cardinality(Wanted) < OW_MAX_DEVICES
                      THEN Cardinality(Wanted) ELSE OW_MAX_DEVICES
=============================================================================
