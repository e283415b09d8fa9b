-------------------------------- MODULE ComboHold --------------------------------
(***************************************************************************)
(* One entry of router_combos[]: a hotkey (SELECT + D-pad Up, say) that    *)
(* several controllers can press.  The built-in combos run their action    *)
(* only after a hold of ROUTER_DEFAULT_COMBO_HOLD_MS, measured between the *)
(* events that happen to arrive, and the hold is owned by one device       *)
(* (router.c:1577-1741); the combos an app registers run at once.          *)
(* An event is reduced to its device and whether the combo is fully held.  *)
(***************************************************************************)
EXTENDS Integers

CONSTANTS Dev,            \* the controllers (combo_dev_key of their events)
          NoDev,          \* held_dev = 0
          Announced,      \* devices whose driver calls router_device_disconnected
          Hold,           \* ROUTER_DEFAULT_COMBO_HOLD_MS
          ClockMod,       \* platform_time_ms() counts modulo 2^32
          Start, MaxTime, \* the milliseconds since boot a run covers
          DefaultCombos   \* router_default_combos_active

Never == -1

ASSUME DevAssumption == NoDev \notin Dev /\ Announced \subseteq Dev
ASSUME TimeAssumption == /\ Hold \in Nat \ {0} /\ ClockMod \in Nat \ {0}
                         /\ Start \in Nat /\ MaxTime \in Nat /\ Start <= MaxTime
ASSUME ModeAssumption == DefaultCombos \in BOOLEAN

VARIABLES now,        \* milliseconds since boot
          held_since, \* timestamp the combo became fully held, 0 = not held
          held_dev,   \* the device that owns the hold
          fired,      \* the latch of the entry
          mapping,    \* runtime_profile_is_mapping()
          press,      \* device: when its finger went down on the combo, or Never
          runs,       \* history: runs of the action during that press
          stale,      \* history: the hold has outlived its press: its owner left
                      \* unannounced or let go while a remap was entered
          lastRun     \* history: the last event that ran it, for how long its
                      \* device had been pressing, and whether by a stale hold

entry == <<held_since, held_dev, fired>>
vars == <<now, held_since, held_dev, fired, mapping, press, runs, stale, lastRun>>

Init == /\ now = Start
        /\ held_since = 0
        /\ held_dev = NoDev
        /\ fired = FALSE
        /\ mapping = FALSE
        /\ press = [d \in Dev |-> Never]
        /\ runs = [d \in Dev |-> 0]
        /\ stale = FALSE
        /\ lastRun = [by |-> NoDev, heldFor |-> 0, stale |-> FALSE]

Clock == now % ClockMod

(* "0 = not held": a hold that begins at 0 is stamped 1. *)
Stamp == IF Clock # 0 THEN Clock ELSE 1

Elapsed(since) == since # 0 /\ (Clock - since) % ClockMod >= Hold

Pressing(d, held) == IF ~held THEN Never
                     ELSE IF press[d] = Never THEN now ELSE press[d]

(* What the player does with the combo, whether or not the router hears it. *)
Finger(d, held) ==
    /\ press' = [press EXCEPT ![d] = Pressing(d, held)]
    /\ UNCHANGED <<now, mapping>>

(* The run counter of a press starts again when the press does. *)
NewPress(d, held) == held /\ press[d] = Never
RunsSoFar(d, held) == IF NewPress(d, held) THEN 0 ELSE runs[d]

(* A live remap is being entered: the event does not reach the combos. *)
Frozen(d, held) == /\ mapping
                   /\ Finger(d, held)
                   /\ runs' = [runs EXCEPT ![d] = RunsSoFar(d, held)]
                   /\ stale' = (stale \/ (~held /\ held_dev = d))
                   /\ UNCHANGED <<held_since, held_dev, fired, lastRun>>

(* Mutant: everybody's events count, as before holds had owners. *)
OthersNobody(d) == DefaultCombos /\ FALSE

(* Another device's hold is in progress. *)
OthersHold(d) == DefaultCombos /\ held_since # 0 /\ held_dev # d

Ignored(d, held) == /\ ~mapping
                    /\ OthersHold(d)
                    /\ Finger(d, held)
                    /\ runs' = [runs EXCEPT ![d] = RunsSoFar(d, held)]
                    /\ UNCHANGED <<held_since, held_dev, fired, stale, lastRun>>

SinceNow(held) == IF DefaultCombos /\ held /\ held_since = 0 THEN Stamp ELSE held_since

(* Mutant: the release edge does not fire. *)
ProcessedWhileHeld(held) == held /\ (DefaultCombos => Elapsed(SinceNow(held)))

(* Run it while held once the hold has elapsed (controllers that stream),  *)
(* or on the release of a long enough hold (those that report changes).    *)
Processed(held) ==
    IF ~DefaultCombos THEN held
    ELSE Elapsed(SinceNow(held)) /\ (held \/ ~fired)

(* Mutant: the action does not set the latch. *)
SettleUnlatched(d, held) ==
    IF held THEN /\ held_since' = SinceNow(held)
                 /\ held_dev' = IF SinceNow(held) # held_since THEN d ELSE held_dev
                 /\ fired' = fired
            ELSE held_since' = 0 /\ held_dev' = NoDev /\ fired' = FALSE

(* The entry after the event; a release clears it. *)
Settle(d, held) ==
    IF held THEN /\ held_since' = SinceNow(held)
                 /\ held_dev' = IF SinceNow(held) # held_since THEN d ELSE held_dev
                 /\ fired' = (fired \/ Processed(held))
            ELSE held_since' = 0 /\ held_dev' = NoDev /\ fired' = FALSE

(* The event reaches the entry.  When it is processed the buttons are      *)
(* taken from the output, and the action runs unless the latch is set.     *)
Checked(d, held) ==
    /\ ~mapping
    /\ ~OthersHold(d)
    /\ Finger(d, held)
    /\ Settle(d, held)
    /\ stale' = (stale /\ held)
    /\ LET acts == Processed(held) /\ ~fired
       IN  runs' = [runs EXCEPT ![d] = RunsSoFar(d, held) + IF acts THEN 1 ELSE 0]
    /\ IF Processed(held)
       THEN lastRun' = [by |-> d, stale |-> stale,
                        heldFor |-> now - (IF press[d] = Never THEN now ELSE press[d])]
       ELSE UNCHANGED lastRun

Event(d, held) == Frozen(d, held) \/ Ignored(d, held) \/ Checked(d, held)

(* Mutant: the hold outlives its device. *)
DisconnectKeepingHold(d) == /\ d \in Announced
                            /\ press' = [press EXCEPT ![d] = Never]
                            /\ UNCHANGED <<now, held_since, held_dev, fired, mapping, runs,
                                           stale, lastRun>>

(* router_device_disconnected() drops the hold of the device that left. *)
Disconnect(d) == /\ d \in Announced
                 /\ press' = [press EXCEPT ![d] = Never]
                 /\ IF held_dev = d
                    THEN /\ held_since' = 0 /\ held_dev' = NoDev /\ fired' = FALSE
                         /\ stale' = FALSE
                    ELSE UNCHANGED entry /\ UNCHANGED stale
                 /\ UNCHANGED <<now, mapping, runs, lastRun>>

(* tuh_umount_cb() of a USB device tells the router nothing. *)
Unplug(d) == /\ d \notin Announced
             /\ press' = [press EXCEPT ![d] = Never]
             /\ stale' = (stale \/ held_dev = d)
             /\ UNCHANGED entry
             /\ UNCHANGED <<now, mapping, runs, lastRun>>

Remap == /\ mapping' = ~mapping
         /\ UNCHANGED <<now, held_since, held_dev, fired, press, runs, stale, lastRun>>

Tick == /\ now < MaxTime
        /\ now' = now + 1
        /\ UNCHANGED <<held_since, held_dev, fired, mapping, press, runs, stale, lastRun>>

Next == \/ \E d \in Dev : \/ \E held \in BOOLEAN : Event(d, held)
                          \/ Disconnect(d)
                          \/ Unplug(d)
        \/ Remap
        \/ Tick

Spec == Init /\ [][Next]_vars

-------------------------------------------------------------------------------
TypeOK == /\ now \in Start .. MaxTime
          /\ held_since \in 0 .. ClockMod
          /\ held_dev \in Dev \cup {NoDev}
          /\ fired \in BOOLEAN
          /\ mapping \in BOOLEAN
          /\ press \in [Dev -> Int]
          /\ runs \in [Dev -> Nat]
          /\ stale \in BOOLEAN
          /\ lastRun \in [by : Dev \cup {NoDev}, heldFor : Int, stale : BOOLEAN]

(* "A quick in-game SELECT/START + D-pad press passes straight through"    *)
(* (docs/core/profiles.md:106-108): a built-in combo acts on and consumes  *)
(* only a press that its own device has held for the full time, unless the *)
(* router never heard of the end of an earlier one.                        *)
HoldRespected ==
    DefaultCombos /\ lastRun.by # NoDev /\ ~lastRun.stale => lastRun.heldFor >= Hold

(* A hold in progress is that of a controller that is still pressing: no   *)
(* other controller's events, no announced disconnect and no reconnect     *)
(* leaves a stale timer behind (router.c:2092-2098).                       *)
HoldIsLive == held_since # 0 => /\ held_dev \in Dev
                                /\ ~stale => /\ press[held_dev] # Never
                                             /\ press[held_dev] <= held_since

(* Types and live holds. *)
ComboOK == TypeOK /\ HoldIsLive

(* One press runs the action once, however many events it produces and     *)
(* whatever the other controllers send meanwhile.                          *)
OneRunPerPress == \A d \in Dev : runs[d] <= 1

(* A hold that lasted long enough has run the action when its owner lets   *)
(* go, also on a controller that was silent in between.                    *)
NoHoldLost ==
    [][\A d \in Dev : Checked(d, FALSE) /\ held_dev = d /\ ~stale
           /\ now - held_since >= Hold => runs'[d] > 0]_vars
===============================================================================
