------------------------------ MODULE OutputSlot ------------------------------
(***************************************************************************)
(* What one player slot of an output promises the console that polls it,   *)
(* whatever the two cores do in between: a single cell that always holds   *)
(* one whole event, versioned by the number of publishes so far.  A poll   *)
(* either finds a version that was not handed out before and takes it      *)
(* whole, or finds nothing.  router.h:360-371 states this contract for     *)
(* output_state_t; SeqlockSlot is the word-by-word implementation.         *)
(***************************************************************************)
EXTENDS Naturals

CONSTANT Event, \* the events a slot can hold
         Blank  \* what the slot holds before the first publish

VARIABLES version,  \* number of publishes so far; 0 means "no data yet"
          value,    \* the event of that version
          taken,    \* the version handed out last
          out,      \* the event handed out last
          handed    \* number of times a poll handed out an event

vars == <<version, value, taken, out, handed>>

Init == /\ version = 0
        /\ value = Blank
        /\ taken = 0
        /\ out = Blank
        /\ handed = 0

(* A publish replaces the event and is visible at one instant. *)
Publish == \E e \in Event : /\ value' = e
                            /\ version' = version + 1
                            /\ UNCHANGED <<taken, out, handed>>

(* A poll that finds a version not handed out yet. *)
Take == /\ taken # version
        /\ taken' = version
        /\ out' = value
        /\ handed' = handed + 1
        /\ UNCHANGED <<version, value>>

Next == Publish \/ Take

Spec == Init /\ [][Next]_vars
===============================================================================
