--------------------------- MODULE LedBlinkHandoff ---------------------------
(***************************************************************************)
(* What ledmanager promises about the LED: it takes in a new target (the  *)
(* ledconfig counter and whether the device has usable addresses) only    *)
(* when the previous one has been handed to the blink goroutine, and the  *)
(* goroutine eventually blinks the merge of the target it was handed.     *)
(* LedManager refines this specification (see LedBlinkRefined there).     *)
(***************************************************************************)
EXTENDS Integers

CONSTANTS
    LedValues       \* counters ledconfig can hold

VARIABLES
    led,            \* the ledconfig counter in effect
    usable,         \* whether the device has usable addresses
    pending,        \* a target not yet handed to the goroutine
    shown           \* the counter the goroutine blinks

avars == <<led, usable, pending, shown>>

\* The counter shown for a target: 1 without addresses, otherwise at least 2.
Merge(l, u) == IF ~u THEN 1 ELSE IF l < 2 THEN 2 ELSE l

\* Nothing is blinked and no target is taken before the first handler runs.
AInit ==
    /\ led = 0
    /\ usable = FALSE
    /\ pending = FALSE
    /\ shown = 0

\* A new target is taken only when the previous one was handed over.
Accept ==
    /\ ~pending
    /\ led' \in LedValues
    /\ usable' \in BOOLEAN
    /\ pending' = TRUE
    /\ UNCHANGED shown

\* The goroutine takes the target and blinks its merge.
Show ==
    /\ pending
    /\ shown' = Merge(led, usable)
    /\ pending' = FALSE
    /\ UNCHANGED <<led, usable>>

ANext == Accept \/ Show

ASpec == AInit /\ [][ANext]_avars /\ WF_avars(Show)

=============================================================================
