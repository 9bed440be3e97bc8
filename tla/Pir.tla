-------------------------------- MODULE Pir --------------------------------
(* The motion sensor (driver/PIR.c): its pin's interrupt, through             *)
(* gpio_intr_dispatcher and intr_callback, sets the flag and arms a timer of  *)
(* ten seconds; the timer's task looks at the pin again.  The interrupt may   *)
(* come between the task's look at the pin and what it does about it.         *)
LOCAL INSTANCE Naturals

VARIABLES
  pin,        \* GPIO_INPUT_GET(PIR_PIN)
  rose,       \* the interrupt is pending
  PIR_flags,  \* its bit PIR_movement_detected
  armed,      \* PIR_movement_timer
  saw         \* what the running task saw of the pin; "none" when none runs

vars == <<pin, rose, PIR_flags, armed, saw>>

Init == pin = 0 /\ rose = FALSE /\ PIR_flags = 0 /\ armed = FALSE /\ saw = "none"

\* The sensor.  Only a rise interrupts.
Rise == pin = 0 /\ pin' = 1 /\ rose' = TRUE /\ UNCHANGED <<PIR_flags, armed, saw>>
Fall == pin = 1 /\ pin' = 0 /\ UNCHANGED <<rose, PIR_flags, armed, saw>>

\* The interrupt, with others held off: PIR_movement_set_falg.
intr_callback ==
  /\ rose /\ rose' = FALSE
  /\ PIR_flags' = 1 /\ armed' = TRUE
  /\ UNCHANGED <<pin, saw>>

\* The timer's task starts, and reads the pin.
PIR_movement_timer_check ==
  /\ armed /\ saw = "none"
  /\ armed' = FALSE /\ saw' = IF pin = 1 THEN "motion" ELSE "still"
  /\ UNCHANGED <<pin, rose, PIR_flags>>

\* A mutant takes a motion for done with after the first ten seconds.
OnceOnly == saw = "motion" /\ UNCHANGED <<PIR_flags, armed>>

Extend == saw = "motion" /\ armed' = TRUE /\ UNCHANGED PIR_flags

\* "&= !(PIR_movement_detected)" clears every bit.
Clear == saw = "still" /\ PIR_flags' = 0 /\ UNCHANGED armed

CheckDone == (Extend \/ Clear) /\ saw' = "none" /\ UNCHANGED <<pin, rose>>

Next == Rise \/ Fall \/ intr_callback \/ PIR_movement_timer_check \/ CheckDone
-----------------------------------------------------------------------------
\* However the interrupt meets the task: while there is motion, or the flag
\* says so, something will still look at the pin, so that no motion is watched
\* by nobody and no flag stays for ever (driver/PIR.c:15-42).
MotionIsWatched == (pin = 1 \/ PIR_flags # 0) => rose \/ armed \/ saw # "none"
=============================================================================
