---------------------------- MODULE SettingsStore ----------------------------
(***************************************************************************)
(* What the settings store promises the rest of the firmware: the settings *)
(* in RAM can be saved, and then survive power cycles.  A save is atomic:  *)
(* it ends with the new record in place and, when the power fails before   *)
(* that, the next boot finds the record that was there or the one that was *)
(* being written, never a third one and never none.                        *)
(***************************************************************************)
CONSTANTS Content,   \* the settings a record can hold
          Default,   \* those of a factory reset
          None       \* no save is under way

VARIABLES on,        \* the device has power and has booted
          stored,    \* the record a boot would load now
          settings,  \* the settings in RAM, once the device has booted
          writing    \* the record of the save under way, or None

Init == ~on /\ stored \in Content /\ settings \in Content /\ writing = None

Boot == /\ ~on /\ on'
        /\ settings' = stored
        /\ UNCHANGED <<stored, writing>>

Change == /\ on /\ writing = None
          /\ settings' \in Content
          /\ UNCHANGED <<on, stored, writing>>

\* A save of what the device is running with, or a factory reset, begins; the
\* old record stays readable.
Begin == /\ on /\ writing = None
         /\ settings' \in Content
         /\ writing' \in {settings', Default}
         /\ UNCHANGED <<on, stored>>

Commit == /\ on /\ writing # None
          /\ stored' = writing
          /\ writing' = None
          /\ UNCHANGED <<on, settings>>

\* The power fails, or the device reboots; a save that is cut off has happened
\* or has not.
Stop == /\ on /\ ~on'
        /\ stored' \in IF writing = None THEN {stored} ELSE {stored, writing}
        /\ writing' = None
        /\ UNCHANGED settings

Next == Boot \/ Change \/ Begin \/ Commit \/ Stop

Spec == Init /\ [][Next]_<<on, stored, settings, writing>>
=============================================================================
