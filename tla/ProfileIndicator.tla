---------------------------- MODULE ProfileIndicator ----------------------------
(***************************************************************************)
(* Profile switch feedback (core/services/profiles/profile_indicator.c) on *)
(* top of the per-player feedback state (core/services/players/feedback.c): *)
(* a switch to profile n pulses player 1's rumble and LED n + 1 times, and *)
(* console and host feedback for that player is refused meanwhile.         *)
(* Time is counted in units of 100 ms, and only while it matters.          *)
(***************************************************************************)
EXTENDS Integers

CONSTANTS Players,         \* player indices; every trigger is for player 0
          Profiles,        \* profile indices
          RumbleDisabled   \* profile_indicator_disable_rumble() was called

ASSUME PlayersAssumption == 0 \in Players /\ Players \subseteq Nat
ASSUME ProfilesAssumption == Profiles \subseteq Nat
ASSUME DisabledAssumption == RumbleDisabled \in BOOLEAN

OnTime == 1    \* RUMBLE_ON_TIME_US, LED_ON_TIME_US
OffTime == 2   \* RUMBLE_OFF_TIME_US, LED_OFF_TIME_US

VARIABLES showing,     \* profile_to_indicate
          rumbleLeft,  \* rumble_blinks_remaining
          rumbleOn,    \* rumble_is_on
          rumbleAge,   \* time since rumble_state_change_us, up to OffTime
          ledLeft,     \* led_blinks_remaining
          ledOn,       \* led_is_on
          ledAge,      \* time since led_state_change_us, up to OffTime
          rumble,      \* feedback_states[p].rumble
          led,         \* feedback_states[p].led: pattern and colour, by number
          tested,      \* history: a rumble test wrote player 0's rumble last
          pulses       \* history: rumble pulses and LED blinks of this switch

blinker == <<showing, rumbleLeft, rumbleOn, rumbleAge, ledLeft, ledOn, ledAge, pulses>>
vars == <<showing, rumbleLeft, rumbleOn, rumbleAge, ledLeft, ledOn, ledAge,
          rumble, led, tested, pulses>>

Black == 0
LedOf(n) == [pattern |-> n, rgb |-> n]   \* feedback_set_led_player_internal()
Unlit == [pattern |-> 0, rgb |-> Black]  \* feedback_init()

Init == /\ showing = 0
        /\ rumbleLeft = 0 /\ rumbleOn = FALSE /\ rumbleAge = OffTime
        /\ ledLeft = 0 /\ ledOn = FALSE /\ ledAge = OffTime
        /\ rumble = [p \in Players |-> "off"]
        /\ led = [p \in Players |-> Unlit]
        /\ tested = FALSE
        /\ pulses = [rumble |-> 0, led |-> 0]

(* profile_indicator_is_active(), and _for_player(). *)
Active == rumbleLeft > 0 \/ ledLeft > 0
ActiveFor(p) == Active /\ p = 0

(* profile_indicator_trigger_player(): count pulses and blinks begin, both *)
(* with their first one; the LED takes the colour of the profile.          *)
Start(n, count) == /\ ~Active
                   /\ showing' = n
                   /\ rumbleLeft' = count /\ rumbleOn' = TRUE /\ rumbleAge' = 0
                   /\ ledLeft' = count /\ ledOn' = TRUE /\ ledAge' = 0
                   /\ rumble' = [rumble EXCEPT ![0] = "pulse"]
                   /\ led' = [led EXCEPT ![0] = LedOf(n + 1)]
                   /\ pulses' = [rumble |-> 1, led |-> 1]
                   /\ tested' = FALSE

(* Mutant: one blink too few. *)
TriggerShort(n) == Start(n, IF n = 0 THEN 1 ELSE n)

(* A profile switch; while another one is indicated it goes unnoticed. *)
Trigger(n) == Start(n, n + 1)

-------------------------------------------------------------------------------
(* profile_indicator_task(): the rumble machine, then the LED machine.     *)
RumbleDue == /\ rumbleLeft > 0 /\ ~RumbleDisabled
             /\ rumbleAge >= IF rumbleOn THEN OnTime ELSE OffTime

RumbleOff == /\ RumbleDue /\ rumbleOn
             /\ rumbleOn' = FALSE /\ rumbleAge' = 0
             /\ rumbleLeft' = rumbleLeft - 1
             /\ rumble' = [rumble EXCEPT ![0] = "off"]

RumbleAgain == /\ RumbleDue /\ ~rumbleOn
               /\ rumbleOn' = TRUE /\ rumbleAge' = 0
               /\ rumble' = [rumble EXCEPT ![0] = "pulse"]
               /\ UNCHANGED rumbleLeft

(* Mutant: the last blink is never over. *)
LedDueButLast == ledLeft > 1 /\ ledAge >= IF ledOn THEN OnTime ELSE OffTime

LedDue == ledLeft > 0 /\ ledAge >= IF ledOn THEN OnTime ELSE OffTime

(* Off is black in colour; the pattern keeps the profile's number. *)
LedOff == /\ LedDue /\ ledOn
          /\ ledOn' = FALSE /\ ledAge' = 0
          /\ ledLeft' = ledLeft - 1
          /\ led' = [led EXCEPT ![0].rgb = Black]

LedAgain == /\ LedDue /\ ~ledOn
            /\ ledOn' = TRUE /\ ledAge' = 0
            /\ led' = [led EXCEPT ![0] = LedOf(showing + 1)]
            /\ UNCHANGED ledLeft

RumblePart == \/ RumbleOff \/ RumbleAgain
              \/ ~RumbleDue /\ UNCHANGED <<rumbleLeft, rumbleOn, rumbleAge, rumble>>
LedPart == \/ LedOff \/ LedAgain
           \/ ~LedDue /\ UNCHANGED <<ledLeft, ledOn, ledAge, led>>

Task == /\ RumblePart
        /\ LedPart
        /\ pulses' = [rumble |-> pulses.rumble + IF ~rumbleOn /\ rumbleOn' THEN 1 ELSE 0,
                      led |-> pulses.led + IF ~ledOn /\ ledOn' THEN 1 ELSE 0]
        /\ tested' = (tested /\ ~(RumbleOff \/ RumbleAgain))
        /\ UNCHANGED showing

(* 100 ms pass. *)
Older(age) == IF age < OffTime THEN age + 1 ELSE age
Tick == /\ rumbleAge' = Older(rumbleAge)
        /\ ledAge' = Older(ledAge)
        /\ UNCHANGED <<showing, rumbleLeft, rumbleOn, ledLeft, ledOn, rumble, led,
                       tested, pulses>>

-------------------------------------------------------------------------------
(* Mutant: the console's rumble is not refused. *)
SetRumbleAlways(p, v) == /\ rumble' = [rumble EXCEPT ![p] = v]
                         /\ UNCHANGED blinker
                         /\ UNCHANGED <<led, tested>>

(* feedback_set_rumble() from a console or a host. *)
SetRumble(p, v) == /\ ~ActiveFor(p)
                   /\ rumble' = [rumble EXCEPT ![p] = v]
                   /\ tested' = (tested /\ p # 0)
                   /\ UNCHANGED blinker
                   /\ UNCHANGED led

(* RUMBLE.TEST, RUMBLE.STOP and the stop at the end of a test write the    *)
(* player's rumble past that check.                                        *)
RumbleTest(p, v) == /\ rumble' = [rumble EXCEPT ![p] = v]
                    /\ tested' = (tested \/ p = 0)
                    /\ UNCHANGED blinker
                    /\ UNCHANGED led

(* feedback_set_led_player() and _rgb() from the host, or from add_player(). *)
SetLed(p, n) == /\ ~ActiveFor(p)
                /\ led' = [led EXCEPT ![p] = LedOf(n)]
                /\ UNCHANGED blinker
                /\ UNCHANGED <<rumble, tested>>

SetLedColour(p, n) == /\ ~ActiveFor(p)
                      /\ led' = [led EXCEPT ![p].rgb = n]
                      /\ UNCHANGED blinker
                      /\ UNCHANGED <<rumble, tested>>

Numbers == {n + 1 : n \in Profiles \cup Players}

Next == \/ \E n \in Profiles : Trigger(n)
        \/ Task
        \/ Tick
        \/ \E p \in Players : \/ \E v \in {"off", "game"} : SetRumble(p, v) \/ RumbleTest(p, v)
                              \/ \E n \in Numbers : SetLed(p, n) \/ SetLedColour(p, n)

Spec == Init /\ [][Next]_vars

(* Time passes and players_task() runs from the main loop. *)
LiveSpec == Spec /\ WF_vars(Tick) /\ WF_vars(Task)

-------------------------------------------------------------------------------
Led == [pattern : Nat, rgb : Nat]

TypeOK == /\ showing \in Nat
          /\ rumbleLeft \in Nat /\ ledLeft \in Nat
          /\ rumbleOn \in BOOLEAN /\ ledOn \in BOOLEAN
          /\ rumbleAge \in 0 .. OffTime /\ ledAge \in 0 .. OffTime
          /\ rumble \in [Players -> {"off", "pulse", "game"}]
          /\ led \in [Players -> Led]
          /\ tested \in BOOLEAN
          /\ pulses \in [rumble : Nat, led : Nat]

(* "Ensuring the profile change feedback is always visible"                *)
(* (docs/core/players.md:112): while a switch is indicated, the player's   *)
(* rumble and colour are the indicator's, whatever console and host send;  *)
(* only a rumble test of the web configurator hides a pulse, until the     *)
(* indicator's next edge.  When it is over the motor is not left running.  *)
IndicatorVisible ==
    Active => /\ ~tested => rumble[0] = IF rumbleOn THEN "pulse" ELSE "off"
              /\ led[0].rgb = IF ledOn THEN showing + 1 ELSE Black
NoPulseLeftOn == ~Active => rumble[0] # "pulse"
FeedbackOK == TypeOK /\ IndicatorVisible /\ NoPulseLeftOn

(* Profile n shows as n + 1 pulses and n + 1 blinks, no more and no fewer, *)
(* when it is over (profile_indicator.h:21).                               *)
BlinksTellProfile ==
    /\ rumbleLeft = 0 /\ pulses.rumble > 0 => pulses.rumble = showing + 1
    /\ ledLeft = 0 /\ pulses.led > 0 => pulses.led = showing + 1

(* External feedback is blocked only "temporarily"                         *)
(* (docs/core/players.md:112): every indication ends.                      *)
IndicatorEnds == Active ~> ~Active
===============================================================================
