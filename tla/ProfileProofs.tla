----------------------------- MODULE ProfileProofs -----------------------------
(***************************************************************************)
(* Proofs about the services of core/services/profiles: the indicator of a *)
(* switch, for any players and profiles; the selection, for any list of    *)
(* profiles; and the runtime profile, for any number of controllers,       *)
(* buttons and outputs.                                                    *)
(*                                                                         *)
(* Indicator: pulses done and pulses left always add up to those asked     *)
(* for, one of them counting on both sides while it is on.                 *)
(* Selection: every copy of the settings stands for the profile last       *)
(* chosen, kept or saved, although deletions renumber them.                *)
(* Runtime profile: a remap under way has given the outputs so far to      *)
(* inputs of their own, rapid fire counts its entries before those that    *)
(* end a remap, and somebody holds the combo as long as the timer runs.    *)
(***************************************************************************)
EXTENDS ProfileIndicator, ProfileSelect, RuntimeProfile, FiniteSetTheorems,
        SequenceTheorems, NaturalsInduction, WellFoundedInduction, TLAPS

(* The indicator (profile_indicator.c). *)

\* One blinker: how many are left and whether it is on, against how many began.
Counted(left, on, begun) ==
  /\ left = 0 => ~on
  /\ begun = 0 => left = 0
  /\ begun > 0 => left + begun = showing + 1 + IF on THEN 1 ELSE 0

CountInv == /\ Counted(rumbleLeft, rumbleOn, pulses.rumble)
            /\ Counted(ledLeft, ledOn, pulses.led)

\* The motor is the indicator's own matter from the first pulse to the last, also
\* when its LED still blinks.
MotorInv == rumbleLeft = 0 => rumble[0] # "pulse"

IInv == TypeOK /\ IndicatorVisible /\ MotorInv /\ CountInv

LEMMA Times == OnTime = 1 /\ OffTime = 2 /\ Black = 0
  BY DEF OnTime, OffTime, Black

LEMMA LedType == \A n \in Nat : LedOf(n) \in Led /\ LedOf(n).rgb = n
  BY DEF LedOf, Led

LEMMA IndicatorInit == Init => IInv
<1> SUFFICES ASSUME Init PROVE IInv
  OBVIOUS
<1>1. TypeOK
  <2>1. rumble \in [Players -> {"off", "pulse", "game"}]
    BY DEF Init
  <2>2. led \in [Players -> Led]
    <3>1. Unlit \in Led
      BY Times DEF Unlit, Led
    <3> QED BY <3>1 DEF Init
  <2>3. pulses \in [rumble : Nat, led : Nat]
    BY DEF Init
  <2>4. rumbleOn \in BOOLEAN /\ ledOn \in BOOLEAN /\ tested \in BOOLEAN
    BY DEF Init
  <2>5. rumbleAge \in 0 .. OffTime /\ ledAge \in 0 .. OffTime
    BY Times DEF Init
  <2> QED BY <2>1, <2>2, <2>3, <2>4, <2>5 DEF Init, TypeOK
<1>2. ~Active /\ IndicatorVisible
  BY DEF Init, IndicatorVisible, Active
<1>3. MotorInv
  BY PlayersAssumption DEF Init, MotorInv
<1>4. CountInv
  BY DEF Init, CountInv, Counted
<1> QED BY <1>1, <1>2, <1>3, <1>4 DEF IInv

\* A switch starts both blinkers.
LEMMA TriggerStep == ASSUME IInv, NEW n \in Profiles, Trigger(n) PROVE IInv'
<1>1. n \in Nat /\ 0 \in Players
  BY ProfilesAssumption, PlayersAssumption
<1>2. LedOf(n + 1) \in Led /\ LedOf(n + 1).rgb = n + 1
  BY <1>1, LedType
<1>3. led' \in [Players -> Led] /\ led'[0].rgb = n + 1
  BY <1>1, <1>2 DEF Trigger, Start, IInv, TypeOK
<1>4. rumble' \in [Players -> {"off", "pulse", "game"}] /\ rumble'[0] = "pulse"
  BY <1>1 DEF Trigger, Start, IInv, TypeOK
<1>5. TypeOK'
  <2>1. pulses' \in [rumble : Nat, led : Nat]
    BY DEF Trigger, Start
  <2>2. rumbleOn' \in BOOLEAN /\ ledOn' \in BOOLEAN /\ tested' \in BOOLEAN
    BY DEF Trigger, Start
  <2>3. rumbleAge' \in 0 .. OffTime /\ ledAge' \in 0 .. OffTime
    BY Times DEF Trigger, Start
  <2>4. showing' \in Nat /\ rumbleLeft' \in Nat /\ ledLeft' \in Nat
    BY <1>1 DEF Trigger, Start
  <2> QED BY <1>3, <1>4, <2>1, <2>2, <2>3, <2>4 DEF TypeOK
<1>6. IndicatorVisible'
  BY <1>3, <1>4 DEF Trigger, Start, IndicatorVisible
<1>7. MotorInv' /\ CountInv'
  BY <1>1 DEF Trigger, Start, MotorInv, CountInv, Counted
<1> QED BY <1>5, <1>6, <1>7 DEF IInv

\* What the rumble half of the task does to the rumble half of the state.
LEMMA RumbleStep ==
  ASSUME IInv, Task
  PROVE  /\ rumbleLeft' \in Nat /\ rumbleOn' \in BOOLEAN /\ rumbleAge' \in 0 .. OffTime
         /\ rumble' \in [Players -> {"off", "pulse", "game"}]
         /\ rumbleLeft' <= rumbleLeft
         /\ tested' \in BOOLEAN /\ pulses'.rumble \in Nat
         /\ ~tested' /\ Active => rumble'[0] = IF rumbleOn' THEN "pulse" ELSE "off"
         /\ rumbleLeft' = 0 => rumble'[0] # "pulse"
         /\ Counted(rumbleLeft, rumbleOn, pulses.rumble)'
<1>0. /\ TypeOK /\ 0 \in Players /\ showing' = showing
      /\ MotorInv /\ Counted(rumbleLeft, rumbleOn, pulses.rumble)
      /\ Active /\ ~tested => rumble[0] = IF rumbleOn THEN "pulse" ELSE "off"
  BY PlayersAssumption DEF IInv, IndicatorVisible, CountInv, Task
<1>1. pulses'.rumble = pulses.rumble + IF ~rumbleOn /\ rumbleOn' THEN 1 ELSE 0
  BY DEF Task
<1>2. CASE RumbleOff
  <2>1. tested' = FALSE
    BY <1>2 DEF Task
  <2>2. /\ rumbleLeft > 0 /\ rumbleOn /\ rumbleOn' = FALSE /\ rumbleAge' = 0
        /\ rumbleLeft' = rumbleLeft - 1
        /\ rumble' = [rumble EXCEPT ![0] = "off"]
    BY <1>2 DEF RumbleOff, RumbleDue
  <2>3. /\ rumble' \in [Players -> {"off", "pulse", "game"}]
        /\ rumble'[0] = "off"
    BY <1>0, <2>2 DEF TypeOK
  <2>4. rumbleAge' \in 0 .. OffTime
    BY <2>2, Times
  <2>5. pulses'.rumble = pulses.rumble /\ pulses.rumble \in Nat /\ showing \in Nat
    BY <1>0, <1>1, <2>2 DEF TypeOK
  <2>6. Counted(rumbleLeft, rumbleOn, pulses.rumble)'
    BY <1>0, <2>2, <2>5 DEF Counted, TypeOK
  <2>7. rumbleLeft' \in Nat /\ rumbleLeft' <= rumbleLeft
    BY <1>0, <2>2 DEF TypeOK
  <2> QED BY <2>1, <2>2, <2>3, <2>4, <2>5, <2>6, <2>7
<1>3. CASE RumbleAgain
  <2>1. tested' = FALSE
    BY <1>3 DEF Task
  <2>2. /\ rumbleLeft > 0 /\ ~rumbleOn /\ rumbleOn' = TRUE /\ rumbleAge' = 0
        /\ rumbleLeft' = rumbleLeft
        /\ rumble' = [rumble EXCEPT ![0] = "pulse"]
    BY <1>3 DEF RumbleAgain, RumbleDue
  <2>3. /\ rumble' \in [Players -> {"off", "pulse", "game"}]
        /\ rumble'[0] = "pulse"
    BY <1>0, <2>2 DEF TypeOK
  <2>4. rumbleAge' \in 0 .. OffTime
    BY <2>2, Times
  <2>5. /\ pulses'.rumble = pulses.rumble + 1 /\ pulses.rumble \in Nat
        /\ pulses'.rumble \in Nat /\ showing \in Nat
    BY <1>0, <1>1, <2>2 DEF TypeOK
  <2>6. Counted(rumbleLeft, rumbleOn, pulses.rumble)'
    BY <1>0, <2>2, <2>5 DEF Counted, TypeOK
  <2>7. rumbleLeft' \in Nat /\ rumbleLeft' <= rumbleLeft /\ rumbleLeft' # 0
    BY <1>0, <2>2 DEF TypeOK
  <2> QED BY <2>1, <2>2, <2>3, <2>4, <2>5, <2>6, <2>7
<1>4. CASE ~RumbleDue /\ UNCHANGED <<rumbleLeft, rumbleOn, rumbleAge, rumble>>
  <2>1. tested' = tested
    BY <1>0, <1>4 DEF Task, RumbleOff, RumbleAgain, TypeOK
  <2>2. pulses'.rumble = pulses.rumble /\ pulses.rumble \in Nat
    BY <1>0, <1>1, <1>4 DEF TypeOK
  <2>3. Counted(rumbleLeft, rumbleOn, pulses.rumble)'
    BY <1>0, <1>4, <2>2 DEF Counted
  <2>4. rumbleLeft' \in Nat /\ rumbleLeft' <= rumbleLeft
    BY <1>0, <1>4 DEF TypeOK
  <2>5. /\ rumbleOn' \in BOOLEAN /\ rumbleAge' \in 0 .. OffTime /\ tested' \in BOOLEAN
        /\ rumble' \in [Players -> {"off", "pulse", "game"}]
    BY <1>0, <1>4, <2>1 DEF TypeOK
  <2>6. /\ ~tested' /\ Active => rumble'[0] = IF rumbleOn' THEN "pulse" ELSE "off"
        /\ rumbleLeft' = 0 => rumble'[0] # "pulse"
    BY <1>0, <1>4, <2>1 DEF MotorInv
  <2> QED BY <2>2, <2>3, <2>4, <2>5, <2>6
<1> QED BY <1>2, <1>3, <1>4 DEF Task, RumblePart

\* And the LED half.
LEMMA LedStep ==
  ASSUME IInv, Task
  PROVE  /\ ledLeft' \in Nat /\ ledOn' \in BOOLEAN /\ ledAge' \in 0 .. OffTime
         /\ led' \in [Players -> Led]
         /\ ledLeft' <= ledLeft
         /\ pulses'.led \in Nat
         /\ Active => led'[0].rgb = IF ledOn' THEN showing + 1 ELSE Black
         /\ Counted(ledLeft, ledOn, pulses.led)'
<1>0. /\ TypeOK /\ 0 \in Players /\ showing' = showing /\ showing \in Nat
      /\ Counted(ledLeft, ledOn, pulses.led)
      /\ Active => led[0].rgb = IF ledOn THEN showing + 1 ELSE Black
  BY PlayersAssumption DEF IInv, IndicatorVisible, CountInv, Task, TypeOK
<1>1. pulses'.led = pulses.led + IF ~ledOn /\ ledOn' THEN 1 ELSE 0
  BY DEF Task
<1>2. CASE LedOff
  <2>1. /\ ledLeft > 0 /\ ledOn /\ ledOn' = FALSE /\ ledAge' = 0
        /\ ledLeft' = ledLeft - 1
        /\ led' = [led EXCEPT ![0].rgb = Black]
    BY <1>2 DEF LedOff, LedDue
  <2>2. led' \in [Players -> Led] /\ led'[0].rgb = Black
    BY <1>0, <2>1, Times DEF TypeOK, Led
  <2>3. ledAge' \in 0 .. OffTime
    BY <2>1, Times
  <2>4. pulses'.led = pulses.led /\ pulses.led \in Nat
    BY <1>0, <1>1, <2>1 DEF TypeOK
  <2>5. Counted(ledLeft, ledOn, pulses.led)'
    BY <1>0, <2>1, <2>4 DEF Counted, TypeOK
  <2>6. ledLeft' \in Nat /\ ledLeft' <= ledLeft
    BY <1>0, <2>1 DEF TypeOK
  <2> QED BY <2>1, <2>2, <2>3, <2>4, <2>5, <2>6
<1>3. CASE LedAgain
  <2>1. /\ ledLeft > 0 /\ ~ledOn /\ ledOn' = TRUE /\ ledAge' = 0
        /\ ledLeft' = ledLeft
        /\ led' = [led EXCEPT ![0] = LedOf(showing + 1)]
    BY <1>3 DEF LedAgain, LedDue
  <2>2. LedOf(showing + 1) \in Led /\ LedOf(showing + 1).rgb = showing + 1
    BY <1>0, LedType
  <2>3. led' \in [Players -> Led] /\ led'[0].rgb = showing + 1
    BY <1>0, <2>1, <2>2 DEF TypeOK
  <2>4. ledAge' \in 0 .. OffTime
    BY <2>1, Times
  <2>5. /\ pulses'.led = pulses.led + 1 /\ pulses.led \in Nat
        /\ pulses'.led \in Nat
    BY <1>0, <1>1, <2>1 DEF TypeOK
  <2>6. Counted(ledLeft, ledOn, pulses.led)'
    BY <1>0, <2>1, <2>5 DEF Counted, TypeOK
  <2>7. ledLeft' \in Nat /\ ledLeft' <= ledLeft
    BY <1>0, <2>1 DEF TypeOK
  <2> QED BY <2>1, <2>3, <2>4, <2>5, <2>6, <2>7
<1>4. CASE ~LedDue /\ UNCHANGED <<ledLeft, ledOn, ledAge, led>>
  <2>1. pulses'.led = pulses.led /\ pulses.led \in Nat
    BY <1>0, <1>1, <1>4 DEF TypeOK
  <2>2. Counted(ledLeft, ledOn, pulses.led)'
    BY <1>0, <1>4, <2>1 DEF Counted
  <2>3. ledLeft' \in Nat /\ ledLeft' <= ledLeft
    BY <1>0, <1>4 DEF TypeOK
  <2>4. ledOn' \in BOOLEAN /\ ledAge' \in 0 .. OffTime /\ led' \in [Players -> Led]
    BY <1>0, <1>4 DEF TypeOK
  <2>5. Active => led'[0].rgb = IF ledOn' THEN showing + 1 ELSE Black
    BY <1>0, <1>4
  <2> QED BY <2>1, <2>2, <2>3, <2>4, <2>5
<1> QED BY <1>2, <1>3, <1>4 DEF Task, LedPart

LEMMA TaskStep == ASSUME IInv, Task PROVE IInv'
<1>1. TypeOK'
  <2>1. showing' \in Nat /\ pulses' \in [rumble : Nat, led : Nat]
    <3>1. showing' = showing /\ showing \in Nat
      BY DEF Task, IInv, TypeOK
    <3>2. pulses' = [rumble |-> pulses'.rumble, led |-> pulses'.led]
      BY DEF Task
    <3> QED BY <3>1, <3>2, RumbleStep, LedStep
  <2> QED BY <2>1, RumbleStep, LedStep DEF TypeOK
<1>2. Active' => Active
  BY RumbleStep, LedStep DEF Active, IInv, TypeOK
<1>3. showing' = showing
  BY DEF Task
<1>4. IndicatorVisible'
  BY <1>2, <1>3, RumbleStep, LedStep DEF IndicatorVisible
<1>5. MotorInv' /\ CountInv'
  BY RumbleStep, LedStep DEF MotorInv, CountInv
<1> QED BY <1>1, <1>4, <1>5 DEF IInv

LEMMA TickStep == ASSUME IInv, Tick PROVE IInv'
<1>1. rumbleAge' \in 0 .. OffTime /\ ledAge' \in 0 .. OffTime
  BY Times DEF Tick, Older, IInv, TypeOK
<1> QED BY <1>1 DEF Tick, IInv, TypeOK, IndicatorVisible, Active, MotorInv, CountInv, Counted

\* The others write a motor or an LED, but not those of an indication; or they
\* admit that they did.
LEMMA RumbleWriteStep ==
  ASSUME IInv, NEW p \in Players, NEW v \in {"off", "game"},
         SetRumble(p, v) \/ RumbleTest(p, v)
  PROVE  IInv'
<1>1. /\ UNCHANGED blinker /\ UNCHANGED led
      /\ rumble' = [rumble EXCEPT ![p] = v]
  BY DEF SetRumble, RumbleTest
<1>2. rumble' \in [Players -> {"off", "pulse", "game"}] /\ tested' \in BOOLEAN
  BY <1>1 DEF IInv, TypeOK, SetRumble, RumbleTest
<1>3. rumble'[0] = rumble[0] \/ rumble'[0] \in {"off", "game"}
  BY <1>1, PlayersAssumption DEF IInv, TypeOK
<1>4. Active /\ ~tested' => ~tested /\ rumble'[0] = rumble[0]
  <2>1. CASE p = 0
    BY <2>1 DEF SetRumble, RumbleTest, ActiveFor
  <2>2. CASE p # 0
    <3>1. rumble'[0] = rumble[0]
      BY <1>1, <2>2, PlayersAssumption DEF IInv, TypeOK
    <3>2. ~tested' => ~tested
      BY <2>2 DEF SetRumble, RumbleTest
    <3> QED BY <3>1, <3>2
  <2> QED BY <2>1, <2>2
<1>5. TypeOK' /\ MotorInv' /\ CountInv'
  BY <1>1, <1>2, <1>3 DEF IInv, blinker, TypeOK, MotorInv, CountInv, Counted
<1>6. IndicatorVisible'
  BY <1>1, <1>4 DEF IInv, blinker, IndicatorVisible, Active
<1> QED BY <1>5, <1>6 DEF IInv

LEMMA LedWriteStep ==
  ASSUME IInv, NEW p \in Players, NEW n \in Numbers, SetLed(p, n) \/ SetLedColour(p, n)
  PROVE  IInv'
<1>1. n \in Nat
  <2>1. PICK m \in Profiles \cup Players : n = m + 1
    BY DEF Numbers
  <2>2. m \in Nat
    BY PlayersAssumption, ProfilesAssumption
  <2> QED BY <2>1, <2>2
<1>2. UNCHANGED blinker /\ UNCHANGED <<rumble, tested>> /\ ~ActiveFor(p)
  BY DEF SetLed, SetLedColour
<1>3. led' \in [Players -> Led]
  <2>1. CASE SetLed(p, n)
    BY <1>1, <2>1, LedType DEF SetLed, IInv, TypeOK
  <2>2. CASE SetLedColour(p, n)
    BY <1>1, <2>2 DEF SetLedColour, IInv, TypeOK, Led
  <2> QED BY <2>1, <2>2
<1>4. Active => led'[0] = led[0]
  <2> SUFFICES ASSUME Active PROVE led'[0] = led[0]
    OBVIOUS
  <2>1. p # 0
    BY <1>2 DEF ActiveFor
  <2> QED BY <2>1, PlayersAssumption DEF SetLed, SetLedColour, IInv, TypeOK
<1>5. TypeOK' /\ MotorInv' /\ CountInv'
  BY <1>2, <1>3 DEF IInv, blinker, TypeOK, MotorInv, CountInv, Counted
<1>6. IndicatorVisible'
  BY <1>2, <1>4 DEF IInv, blinker, IndicatorVisible, Active
<1> QED BY <1>5, <1>6 DEF IInv

LEMMA IndicatorStep == IInv /\ [Next]_vars => IInv'
<1> SUFFICES ASSUME IInv, [Next]_vars PROVE IInv'
  OBVIOUS
<1>1. ASSUME NEW n \in Profiles, Trigger(n) PROVE IInv'
  BY <1>1, TriggerStep
<1>2. CASE Task
  BY <1>2, TaskStep
<1>3. CASE Tick
  BY <1>3, TickStep
<1>4. ASSUME NEW p \in Players, NEW v \in {"off", "game"}, SetRumble(p, v) \/ RumbleTest(p, v)
      PROVE  IInv'
  BY <1>4, RumbleWriteStep
<1>5. ASSUME NEW p \in Players, NEW n \in Numbers, SetLed(p, n) \/ SetLedColour(p, n)
      PROVE  IInv'
  BY <1>5, LedWriteStep
<1>6. CASE UNCHANGED vars
  BY <1>6 DEF vars, IInv, TypeOK, IndicatorVisible, Active, MotorInv, CountInv, Counted
<1> QED BY <1>1, <1>2, <1>3, <1>4, <1>5, <1>6 DEF Next

\* While a switch is indicated the player's rumble and colour are those of the
\* indicator, and no pulse outlives it, whatever console and host send
\* (profile_indicator.c:111-185, feedback.c).
THEOREM IndicationIsVisible == Spec => []FeedbackOK
<1>1. IInv => FeedbackOK
  BY DEF IInv, FeedbackOK, MotorInv, NoPulseLeftOn, Active, TypeOK
<1> QED BY <1>1, IndicatorInit, IndicatorStep, PTL DEF Spec

\* Profile n is told by n + 1 pulses and n + 1 blinks, no switch cutting another
\* one's short (profile_indicator.h:21, profile_indicator.c:93).
THEOREM IndicationCounts == Spec => []BlinksTellProfile
<1>1. IInv => BlinksTellProfile
  BY DEF IInv, BlinksTellProfile, CountInv, Counted, TypeOK
<1> QED BY <1>1, IndicatorInit, IndicatorStep, PTL DEF Spec
-----------------------------------------------------------------------------
(* The selection (profile.c and the PROFILE commands). *)

OneBuiltin == BuiltinCounts \subseteq {0, 1} /\ ~SelectsOverriding

\* The profile a copy of the settings stands for, with at most one built-in.
ChosenBy(s) == ProfileAt(s, s.index, 0)

IndicesInv == /\ active_index = 0
              /\ settings.index <= settings.count
              /\ flash.index <= flash.count
              /\ ~stale => ephemeral_active_idx <= settings.count

ChoiceInv == /\ ephemeral_active = applied
             /\ ~stale => Selected = selected
             /\ ChosenBy(settings) = kept
             /\ ChosenBy(flash) = saved
             /\ ~save_pending => saved = kept

SelectInv == SelectTypeOK /\ IndicesInv /\ ChoiceInv

LEMMA ProfilesDiffer ==
  /\ \A i, id : Builtin(i) # Custom(id)
  /\ \A i : Builtin(i) # Applied /\ Custom(i) # Applied
  /\ \A i, j : Builtin(i) = Builtin(j) => i = j
  /\ \A i, j : Custom(i) = Custom(j) => i = j
<1> "builtin" # "custom" /\ "builtin" # "applied" /\ "custom" # "applied"
  OBVIOUS
<1> QED
  BY DEF Builtin, Custom, Applied

LEMMA SettingsFields == ASSUME NEW s \in Settings
                        PROVE  /\ s.profiles \in [Positions -> Ids \union {NoProfile}]
                               /\ s.count \in 0 .. MaxCustom
                               /\ s.index \in Nat
                               /\ s.disabled \in SUBSET Nat
                               /\ s = [profiles |-> s.profiles, count |-> s.count,
                                       index |-> s.index, disabled |-> s.disabled]
  BY DEF Settings

LEMMA SettingsMade == ASSUME NEW profiles \in [Positions -> Ids \union {NoProfile}],
                             NEW count \in 0 .. MaxCustom,
                             NEW index \in Nat,
                             NEW disabled \in SUBSET Nat
                      PROVE  [profiles |-> profiles, count |-> count, index |-> index,
                              disabled |-> disabled] \in Settings
  BY DEF Settings

LEMMA Modulo ==
  ASSUME NEW t \in Nat \ {0}, NEW a \in Int
  PROVE  /\ a % t \in 0 .. t - 1
         /\ a \in 0 .. t - 1 => a % t = a
         /\ a \in t .. 2 * t - 1 => a % t = a - t
         /\ a \in -t .. -1 => a % t = a + t
<1>1. a % t \in 0 .. t - 1
  BY SMT
<1>2. a \in 0 .. t - 1 => a % t = a
  BY SMT
<1>3. a \in t .. 2 * t - 1 => a % t = a - t
  BY SMT
<1>4. a \in -t .. -1 => a % t = a + t
  BY SMT
<1> QED BY <1>1, <1>2, <1>3, <1>4

-----------------------------------------------------------------------------
(* The search of the cycle hotkeys. *)

\* Where the search is after one step and n more, and whether it stops there.
NextFrom(current, total, dir) == IF current + dir < 0 THEN total - 1
                              ELSE IF current + dir >= total THEN 0 ELSE current + dir
At(current, total, dir, n) == (NextFrom(current, total, dir) + n * dir) % total
Hit(current, total, start, disabled, dir, wrap, n) ==
  /\ wrap \/ {current + dir, current + dir + n * dir} \subseteq 0 .. total - 1
  /\ Enabled(At(current, total, dir, n), start, disabled)

LEMMA AtWithin ==
  ASSUME NEW current \in Nat, NEW total \in Nat \ {0}, NEW dir \in {-1, 1}, NEW n \in Nat
  PROVE  At(current, total, dir, n) \in 0 .. total - 1
<1>1. NextFrom(current, total, dir) + n * dir \in Int
  BY SMT DEF NextFrom
<1> QED BY <1>1, Modulo DEF At

\* The first stop of the search is its result.
LEMMA FirstHit ==
  ASSUME NEW current, NEW total, NEW start, NEW disabled, NEW dir, NEW wrap,
         NEW n \in 0 .. total - 1, total \in Nat,
         Hit(current, total, start, disabled, dir, wrap, n),
         \A m \in 0 .. n - 1 : ~Hit(current, total, start, disabled, dir, wrap, m)
  PROVE  cycle_find(current, total, start, disabled, dir, wrap) = At(current, total, dir, n)
<1> DEFINE at(m) == At(current, total, dir, m)
           hit(m) == Hit(current, total, start, disabled, dir, wrap, m)
           found == CHOOSE m \in 0 .. total - 1 : hit(m) /\ \A l \in 0 .. m - 1 : ~hit(l)
<1>1. cycle_find(current, total, start, disabled, dir, wrap)
        = IF \E m \in 0 .. total - 1 : hit(m) THEN at(found) ELSE current
  BY DEF cycle_find, At, NextFrom, Hit
<1> HIDE DEF hit, at
<1>2. hit(n) /\ \A l \in 0 .. n - 1 : ~hit(l)
  BY DEF hit
<1>3. found \in 0 .. total - 1 /\ hit(found) /\ \A l \in 0 .. found - 1 : ~hit(l)
  BY <1>2
<1>4. found = n
  BY <1>2, <1>3
<1> QED BY <1>1, <1>2, <1>4 DEF at

\* Either the search stops somewhere, at a first place, or it stays.
LEMMA SearchEnds ==
  ASSUME NEW current, NEW total \in Nat, NEW start, NEW disabled, NEW dir, NEW wrap
  PROVE  \/ /\ cycle_find(current, total, start, disabled, dir, wrap) = current
            /\ \A n \in 0 .. total - 1 : ~Hit(current, total, start, disabled, dir, wrap, n)
         \/ \E n \in 0 .. total - 1 :
               /\ Hit(current, total, start, disabled, dir, wrap, n)
               /\ \A m \in 0 .. n - 1 : ~Hit(current, total, start, disabled, dir, wrap, m)
               /\ cycle_find(current, total, start, disabled, dir, wrap)
                    = At(current, total, dir, n)
<1> DEFINE hit(n) == Hit(current, total, start, disabled, dir, wrap, n)
           hits == {n \in 0 .. total - 1 : hit(n)}
<1>1. CASE hits = {}
  BY <1>1 DEF cycle_find, At, NextFrom, Hit
<1>2. CASE hits # {}
  <2> HIDE DEF hit
  <2>1. hits \subseteq Nat
    OBVIOUS
  <2>2. PICK n \in hits : \A m \in hits : ~(<<m, n>> \in OpToRel(<, Nat))
    <3> HIDE DEF hits
    <3>1. IsWellFoundedOn(OpToRel(<, Nat), Nat)
      BY NatLessThanWellFounded
    <3> QED BY <1>2, <2>1, <3>1, WFMin
  <2>3. \A m \in hits : ~(m < n)
    <3> TAKE m \in hits
    <3>1. m \in Nat /\ n \in Nat
      OBVIOUS
    <3> QED BY <2>2, <3>1 DEF OpToRel
  <2>4. n \in 0 .. total - 1 /\ hit(n) /\ \A m \in 0 .. n - 1 : ~hit(m)
    BY <2>3
  <2> QED BY <2>4, FirstHit DEF hit
<1> QED BY <1>1, <1>2

LEMMA CycleWithin ==
  ASSUME NEW current \in Nat, NEW total \in Nat \ {0}, NEW start \in Nat,
         NEW disabled \in SUBSET Nat, NEW dir \in {-1, 1}, NEW wrap \in BOOLEAN
  PROVE  \/ cycle_find(current, total, start, disabled, dir, wrap) = current
         \/ cycle_find(current, total, start, disabled, dir, wrap) \in 0 .. total - 1
<1>1. \A n \in 0 .. total - 1 : At(current, total, dir, n) \in 0 .. total - 1
  BY AtWithin
<1>2. total \in Nat
  OBVIOUS
<1>3. \/ cycle_find(current, total, start, disabled, dir, wrap) = current
      \/ \E n \in 0 .. total - 1 :
            cycle_find(current, total, start, disabled, dir, wrap) = At(current, total, dir, n)
  BY <1>2, SearchEnds
<1> QED BY <1>1, <1>3, Zenon

\* The two ways to search; under these names the provers compare them as terms.
Wrapping == TRUE
Once == FALSE

\* The profiles of a list that are not disabled.
On(total, start, disabled) == {u \in 0 .. total - 1 : Enabled(u, start, disabled)}

\* Where the wrapping search is, counted from the profile it began at.
LEMMA AtFrom ==
  ASSUME NEW total \in Nat, NEW u \in 0 .. total - 1, NEW n \in 0 .. total - 1
  PROVE  /\ At(u, total, 1, n) = IF u + 1 + n < total THEN u + 1 + n ELSE u + 1 + n - total
         /\ At(u, total, -1, n) = IF u - 1 - n >= 0 THEN u - 1 - n ELSE u - 1 - n + total
<1> total \in Nat \ {0} /\ u \in Nat /\ n \in Nat
  OBVIOUS
<1>1. At(u, total, 1, n) = IF u + 1 + n < total THEN u + 1 + n ELSE u + 1 + n - total
  <2>1. NextFrom(u, total, 1) = IF u + 1 >= total THEN 0 ELSE u + 1
    BY DEF NextFrom
  <2>2. n * 1 = n
    OBVIOUS
  <2> DEFINE a == (IF u + 1 >= total THEN 0 ELSE u + 1) + n
  <2>3. a \in Int /\ a \in 0 .. 2 * total - 1
    OBVIOUS
  <2>4. At(u, total, 1, n) = a % total
    BY <2>1, <2>2 DEF At
  <2>5. a \in 0 .. total - 1 => a % total = a
    BY <2>3, Modulo
  <2>6. a \in total .. 2 * total - 1 => a % total = a - total
    BY <2>3, Modulo
  <2> QED BY <2>3, <2>4, <2>5, <2>6
<1>2. At(u, total, -1, n) = IF u - 1 - n >= 0 THEN u - 1 - n ELSE u - 1 - n + total
  <2>1. NextFrom(u, total, -1) = IF u - 1 < 0 THEN total - 1 ELSE u - 1
    BY DEF NextFrom
  <2>2. n * (-1) = -n
    OBVIOUS
  <2> DEFINE a == (IF u - 1 < 0 THEN total - 1 ELSE u - 1) + -n
  <2>3. a \in Int /\ a \in -total .. total - 1
    OBVIOUS
  <2>4. At(u, total, -1, n) = a % total
    BY <2>1, <2>2 DEF At
  <2>5. a \in 0 .. total - 1 => a % total = a
    BY <2>3, Modulo
  <2>6. a \in -total .. -1 => a % total = a + total
    BY <2>3, Modulo
  <2> QED BY <2>3, <2>4, <2>5, <2>6
<1> QED BY <1>1, <1>2

\* The search that wraps reaches a profile that is on, and the search in the other
\* direction comes back from it.
LEMMA CycleUndone ==
  ASSUME NEW total \in Nat, NEW start, NEW disabled, NEW dir, NEW back,
         (dir = 1 /\ back = -1) \/ (dir = -1 /\ back = 1),
         NEW u \in On(total, start, disabled)
  PROVE  /\ cycle_find(u, total, start, disabled, dir, Wrapping) \in On(total, start, disabled)
         /\ cycle_find(cycle_find(u, total, start, disabled, dir, Wrapping),
                       total, start, disabled, back, Wrapping) = u
<1> DEFINE v == cycle_find(u, total, start, disabled, dir, Wrapping)
           OnAt(n) == Enabled(At(u, total, dir, n), start, disabled)
<1>1. u \in 0 .. total - 1 /\ Enabled(u, start, disabled) /\ total \in Nat \ {0} /\ u \in Nat
  BY DEF On
<1> dir \in {-1, 1}
  OBVIOUS
<1>2. \A n : Hit(u, total, start, disabled, dir, Wrapping, n) <=> OnAt(n)
  BY DEF Hit, Wrapping
<1>3. At(u, total, dir, total - 1) = u
  <2>1. total - 1 \in 0 .. total - 1
    BY <1>1
  <2>2. At(u, total, 1, total - 1) = u /\ At(u, total, -1, total - 1) = u
    BY <1>1, <2>1, AtFrom
  <2> QED BY <2>2
<1>4. PICK n \in 0 .. total - 1 : /\ OnAt(n) /\ v = At(u, total, dir, n)
                                 /\ \A m \in 0 .. n - 1 : ~OnAt(m)
  <2>1. total - 1 \in 0 .. total - 1 /\ OnAt(total - 1)
    BY <1>1, <1>3
  <2> HIDE DEF OnAt
  <2> QED BY <1>2, <2>1, SearchEnds
<1> HIDE DEF v, OnAt
<1>5. v \in 0 .. total - 1 /\ v \in On(total, start, disabled)
  <2>1. v \in 0 .. total - 1
    <3>1. n \in Nat
      BY <1>1
    <3>2. At(u, total, dir, n) \in 0 .. total - 1
      BY <1>1, <3>1, AtWithin, Zenon
    <3> QED BY <1>4, <3>2, Zenon
  <2> QED BY <1>4, <2>1 DEF On, OnAt
<1>6. At(v, total, back, n) = u
  <2>1. CASE dir = 1
    <3>1. v = IF u + 1 + n < total THEN u + 1 + n ELSE u + 1 + n - total
      BY <1>1, <1>4, <2>1, AtFrom
    <3>2. At(v, total, back, n) = IF v - 1 - n >= 0 THEN v - 1 - n ELSE v - 1 - n + total
      BY <1>1, <1>5, <2>1, AtFrom
    <3> QED BY <1>1, <1>5, <3>1, <3>2
  <2>2. CASE dir = -1
    <3>1. v = IF u - 1 - n >= 0 THEN u - 1 - n ELSE u - 1 - n + total
      BY <1>1, <1>4, <2>2, AtFrom
    <3>2. At(v, total, back, n) = IF v + 1 + n < total THEN v + 1 + n ELSE v + 1 + n - total
      BY <1>1, <1>5, <2>2, AtFrom
    <3> QED BY <1>1, <1>5, <3>1, <3>2
  <2> QED BY <2>1, <2>2
<1>7. ASSUME NEW m \in 0 .. n - 1
      PROVE  n - 1 - m \in 0 .. n - 1 /\ At(v, total, back, m) = At(u, total, dir, n - 1 - m)
  <2>1. m \in 0 .. total - 1 /\ n - 1 - m \in 0 .. total - 1 /\ n - 1 - m \in 0 .. n - 1
    BY <1>1
  <2> DEFINE l == n - 1 - m
  <2>2. CASE dir = 1
    <3>1. v = IF u + 1 + n < total THEN u + 1 + n ELSE u + 1 + n - total
      BY <1>1, <1>4, <2>2, AtFrom
    <3>2. At(v, total, back, m) = IF v - 1 - m >= 0 THEN v - 1 - m ELSE v - 1 - m + total
      BY <1>1, <1>5, <2>1, <2>2, AtFrom
    <3>3. At(u, total, dir, l) = IF u + 1 + l < total THEN u + 1 + l ELSE u + 1 + l - total
      BY <1>1, <2>1, <2>2, AtFrom
    <3> QED BY <1>1, <1>5, <2>1, <3>1, <3>2, <3>3
  <2>3. CASE dir = -1
    <3>1. v = IF u - 1 - n >= 0 THEN u - 1 - n ELSE u - 1 - n + total
      BY <1>1, <1>4, <2>3, AtFrom
    <3>2. At(v, total, back, m) = IF v + 1 + m < total THEN v + 1 + m ELSE v + 1 + m - total
      BY <1>1, <1>5, <2>1, <2>3, AtFrom
    <3>3. At(u, total, dir, l) = IF u - 1 - l >= 0 THEN u - 1 - l ELSE u - 1 - l + total
      BY <1>1, <2>1, <2>3, AtFrom
    <3> QED BY <1>1, <1>5, <2>1, <3>1, <3>2, <3>3
  <2> QED BY <2>1, <2>2, <2>3
<1>8. Hit(v, total, start, disabled, back, Wrapping, n)
  BY <1>1, <1>6 DEF Hit, Wrapping
<1>9. \A m \in 0 .. n - 1 : ~Hit(v, total, start, disabled, back, Wrapping, m)
  BY <1>4, <1>7 DEF Hit, OnAt, Wrapping
<1>10. cycle_find(v, total, start, disabled, back, Wrapping) = u
  BY <1>6, <1>8, <1>9, FirstHit
<1> QED BY <1>5, <1>10 DEF v

\* Without wrapping the search goes to the neighbour among those that are on.
LEMMA CycleNeighbours ==
  ASSUME NEW total \in Nat, NEW start, NEW disabled,
         NEW u \in On(total, start, disabled), NEW v \in On(total, start, disabled), u < v,
         \A w \in On(total, start, disabled) : w <= u \/ w >= v
  PROVE  /\ cycle_find(u, total, start, disabled, 1, Once) = v
         /\ cycle_find(v, total, start, disabled, -1, Once) = u
<1> DEFINE n == v - u - 1
<1>1. /\ u \in 0 .. total - 1 /\ v \in 0 .. total - 1 /\ n \in 0 .. total - 1
      /\ Enabled(u, start, disabled) /\ Enabled(v, start, disabled)
  BY DEF On
<1>2. \A w \in u + 1 .. v - 1 : ~Enabled(w, start, disabled)
  BY <1>1 DEF On
<1>3. \A m \in 0 .. n : /\ At(u, total, 1, m) = u + 1 + m
                        /\ At(v, total, -1, m) = v - 1 - m
  <2> TAKE m \in 0 .. n
  <2>1. m \in 0 .. total - 1
    BY <1>1
  <2> QED BY <1>1, <2>1, AtFrom
<1>4. cycle_find(u, total, start, disabled, 1, Once) = v
  <2>1. At(u, total, 1, n) = v
    BY <1>1, <1>3
  <2>2. u + 1 \in 0 .. total - 1 /\ u + 1 + n * 1 \in 0 .. total - 1
    BY <1>1
  <2>3. Hit(u, total, start, disabled, 1, Once, n)
    BY <1>1, <2>1, <2>2 DEF Hit, Once
  <2>4. \A m \in 0 .. n - 1 : ~Hit(u, total, start, disabled, 1, Once, m)
    <3> TAKE m \in 0 .. n - 1
    <3>1. At(u, total, 1, m) \in u + 1 .. v - 1
      BY <1>1, <1>3
    <3> QED BY <1>2, <3>1 DEF Hit, Once
  <2> HIDE DEF n
  <2>5. cycle_find(u, total, start, disabled, 1, Once) = At(u, total, 1, n)
    BY <1>1, <2>3, <2>4, FirstHit
  <2> QED BY <2>1, <2>5
<1>5. cycle_find(v, total, start, disabled, -1, Once) = u
  <2>1. At(v, total, -1, n) = u
    BY <1>1, <1>3
  <2>2. v + -1 \in 0 .. total - 1 /\ v + -1 + n * (-1) \in 0 .. total - 1
    BY <1>1
  <2>3. Hit(v, total, start, disabled, -1, Once, n)
    BY <1>1, <2>1, <2>2 DEF Hit, Once
  <2>4. \A m \in 0 .. n - 1 : ~Hit(v, total, start, disabled, -1, Once, m)
    <3> TAKE m \in 0 .. n - 1
    <3>1. At(v, total, -1, m) \in u + 1 .. v - 1
      BY <1>1, <1>3
    <3> QED BY <1>2, <3>1 DEF Hit, Once
  <2> HIDE DEF n
  <2>5. cycle_find(v, total, start, disabled, -1, Once) = At(v, total, -1, n)
    BY <1>1, <2>3, <2>4, FirstHit
  <2> QED BY <2>1, <2>5
<1> QED BY <1>4, <1>5

LEMMA CycleCompleteAlways == ASSUME NEW custom \in Nat PROVE CycleIsComplete(custom)
<1> SUFFICES ASSUME NEW start \in 1 .. 3, NEW disabled \in SUBSET (0 .. start - 1)
             PROVE  LET total == start + custom
                        on == {u \in 0 .. total - 1 : Enabled(u, start, disabled)}
                        Up(u) == cycle_find(u, total, start, disabled, -1, TRUE)
                        Down(u) == cycle_find(u, total, start, disabled, 1, TRUE)
                    IN /\ {Down(u) : u \in on} = on
                       /\ \A u \in on : Up(Down(u)) = u /\ Down(Up(u)) = u
                       /\ \A u, v \in on : u < v /\ (\A w \in on : w <= u \/ w >= v) =>
                            /\ v = cycle_find(u, total, start, disabled, 1, FALSE)
                            /\ u = cycle_find(v, total, start, disabled, -1, FALSE)
  BY DEF CycleIsComplete
<1> DEFINE total == start + custom
           on == On(total, start, disabled)
           Up(u) == cycle_find(u, total, start, disabled, -1, Wrapping)
           Down(u) == cycle_find(u, total, start, disabled, 1, Wrapping)
<1>1. total \in Nat
  OBVIOUS
<1> HIDE DEF total
<1>2. \A u \in on : Down(u) \in on /\ Up(Down(u)) = u
  BY <1>1, CycleUndone
<1>3. \A u \in on : Up(u) \in on /\ Down(Up(u)) = u
  BY <1>1, CycleUndone
<1>4. \A u, v \in on : u < v /\ (\A w \in on : w <= u \/ w >= v) =>
         /\ v = cycle_find(u, total, start, disabled, 1, Once)
         /\ u = cycle_find(v, total, start, disabled, -1, Once)
  BY <1>1, CycleNeighbours
<1>5. {Down(u) : u \in on} = on
  <2> HIDE DEF Down, Up
  <2> QED BY <1>2, <1>3
<1> QED BY <1>2, <1>3, <1>4, <1>5 DEF On, total, Wrapping, Once
-----------------------------------------------------------------------------
(* The choice. *)

LEMMA SelectStarts == ASSUME OneBuiltin, SelectInit PROVE SelectInv
<1> USE ProfileAssumption DEF SelectInit
<1>1. settings \in Settings /\ settings.count = 0 /\ settings.index = 0
  <2>1. [i \in Positions |-> NoProfile] \in [Positions -> Ids \union {NoProfile}]
    OBVIOUS
  <2>2. 0 \in 0 .. MaxCustom
    OBVIOUS
  <2> QED BY <2>1, <2>2, SettingsMade
<1>2. ListOK(settings)
  <2>1. \A i \in Positions : settings.profiles[i] = NoProfile /\ ~(i <= settings.count)
    BY DEF Positions
  <2> QED BY <2>1 DEF ListOK
<1>3. SelectTypeOK
  <2>1. -1 \in -1 .. MaxCustom
    OBVIOUS
  <2>2. save_pending \in BOOLEAN /\ ephemeral_active \in BOOLEAN /\ stale \in BOOLEAN
    OBVIOUS
  <2> QED BY <1>1, <1>2, <2>1, <2>2, Zenon DEF SelectTypeOK
<1>4. IndicesInv
  BY <1>1 DEF IndicesInv
<1>5. ChosenBy(settings) = Builtin(0) /\ Selected = Builtin(0)
  BY <1>1 DEF ChosenBy, ProfileAt, Selected, CurrentIndex
<1> QED BY <1>3, <1>4, <1>5 DEF SelectInv, ChoiceInv

\* An explicit choice of the k-th custom profile, or of the built-in one: what
\* PROFILE.SET and the hotkeys have in common.
Choose(k) ==
  /\ k \in 0 .. settings.count
  /\ settings' = [settings EXCEPT !.index = k]
  /\ active_index' = 0
  /\ ephemeral_active' = FALSE /\ ephemeral_active_idx' = -1
  /\ Keeps(ProfileAt(settings, k, 0))
  /\ SaveNow \/ SaveLater \/ (settings.index = k /\ NoSave)
  /\ UNCHANGED builtins

LEMMA ChoiceStep == ASSUME SelectInv, NEW k, Choose(k) PROVE SelectInv'
<1>1. /\ settings \in Settings /\ flash \in Settings /\ k \in Nat
      /\ settings.count \in 0 .. MaxCustom
      /\ ListOK(settings) /\ ListOK(flash) /\ MaxCustom \in Nat
  BY SettingsFields, ProfileAssumption DEF SelectInv, SelectTypeOK, Choose
<1>2. /\ settings' \in Settings
      /\ settings'.profiles = settings.profiles /\ settings'.count = settings.count
      /\ settings'.index = k
  BY <1>1 DEF Choose, Settings
<1>3. ListOK(settings)' /\ ChosenBy(settings)' = ProfileAt(settings, k, 0)
  BY <1>1, <1>2 DEF ListOK, ChosenBy, ProfileAt
<1>4. kept' = ProfileAt(settings, k, 0) /\ selected' = kept' /\ ~applied' /\ applied' \in BOOLEAN
      /\ stale' = FALSE
  BY DEF Choose, Keeps, Selects
<1>5. \/ flash' = settings' /\ save_pending' = FALSE /\ saved' = kept'
      \/ flash' = flash /\ save_pending' = TRUE /\ saved' = saved
      \/ flash' = flash /\ save_pending' = save_pending /\ saved' = saved /\ settings.index = k
  BY DEF Choose, SaveNow, SaveLater, NoSave
<1>6. settings.index = k => kept' = kept
  BY <1>4 DEF SelectInv, ChoiceInv, ChosenBy
<1>7. flash' \in Settings /\ ListOK(flash)' /\ flash'.index <= flash'.count
  <2>1. k <= settings.count
    BY <1>1 DEF Choose
  <2>2. CASE flash' = settings'
    BY <1>2, <1>3, <2>1, <2>2 DEF ListOK
  <2>3. CASE flash' = flash
    BY <1>1, <2>3 DEF ListOK, SelectInv, IndicesInv
  <2> QED BY <1>5, <2>2, <2>3
<1>8. SelectTypeOK'
  <2>1. -1 \in -1 .. MaxCustom /\ active_index' = 0
    BY <1>1 DEF Choose
  <2>2. /\ save_pending' \in BOOLEAN /\ ephemeral_active' \in BOOLEAN /\ stale' \in BOOLEAN
        /\ builtins' \in BuiltinCounts
    BY <1>4, <1>5, Zenon DEF SelectInv, SelectTypeOK, Choose
  <2>3. active_index' \in Nat /\ ephemeral_active_idx' \in -1 .. MaxCustom
    BY <2>1 DEF Choose
  <2> QED
    BY <1>2, <1>3, <1>7, <2>2, <2>3, Zenon DEF SelectTypeOK
<1>9. IndicesInv'
  BY <1>1, <1>2, <1>4, <1>7 DEF IndicesInv, Choose
<1>10. Selected' = ChosenBy(settings)'
  BY <1>2 DEF Selected, ChosenBy, CurrentIndex, Choose
<1>11. ChosenBy(flash)' = saved' /\ (~save_pending' => saved' = kept')
  <2>1. CASE flash' = settings' /\ save_pending' = FALSE /\ saved' = kept'
    BY <2>1, <1>3, <1>4 DEF ChosenBy
  <2>2. CASE flash' = flash /\ saved' = saved
             /\ (save_pending' = TRUE \/ (save_pending' = save_pending /\ settings.index = k))
    BY <2>2, <1>6 DEF SelectInv, ChoiceInv, ChosenBy
  <2> QED BY <1>5, <2>1, <2>2
<1> QED
  BY <1>3, <1>4, <1>8, <1>9, <1>10, <1>11 DEF SelectInv, ChoiceInv, Choose

\* Unified indices and those of the flash.
LEMMA Unified ==
  ASSUME OneBuiltin, SelectInv
  PROVE  /\ builtins \in {0, 1} /\ CustomStart = 1 /\ settings.count \in Nat
         /\ Total = 1 + settings.count
<1>1. builtins \in {0, 1} /\ settings.count \in Nat
  BY SettingsFields, ProfileAssumption DEF SelectInv, SelectTypeOK, OneBuiltin
<1>2. CustomStart = 1 /\ Total = 1 + settings.count
  BY <1>1 DEF CustomStart, Total
<1> QED BY <1>1, <1>2

LEMMA UnifiedIndex ==
  ASSUME OneBuiltin, SelectInv, NEW u \in 0 .. Total - 1
  PROVE  /\ u \in 0 .. settings.count
         /\ ToFlashIndex(u) = u
         /\ IsBuiltin(u) <=> u = 0
         /\ ProfileOf(u) = ProfileAt(settings, u, 0)
<1>1. u \in 0 .. settings.count
  BY Unified
<1>2. ToFlashIndex(u) = u /\ (IsBuiltin(u) <=> u = 0)
  BY Unified DEF ToFlashIndex, IsBuiltin
<1>3. ProfileOf(u) = ProfileAt(settings, u, 0)
  BY Unified, <1>2 DEF ProfileOf, ProfileAt, IsBuiltin
<1> QED BY <1>1, <1>2, <1>3

LEMMA SetStep == ASSUME OneBuiltin, SelectInv, NEW u \in 0 .. Total - 1, cmd_profile_set(u)
                 PROVE  SelectInv'
<1>1. /\ u \in 0 .. settings.count /\ ToFlashIndex(u) = u /\ (IsBuiltin(u) <=> u = 0)
      /\ ProfileOf(u) = ProfileAt(settings, u, 0)
  BY UnifiedIndex
<1>2. Choose(u)
  <2>1. CASE builtins > 0 /\ IsBuiltin(u)
    <3>1. u = 0 /\ SetBuiltin(u) /\ SaveBuiltin(u, TRUE)
      BY <1>1, <2>1 DEF cmd_profile_set
    <3>2. SaveNow \/ SaveLater \/ (settings.index = u /\ NoSave)
      BY <3>1 DEF SaveBuiltin, SetBuiltin, SaveNow
    <3> QED BY <1>1, <3>1, <3>2 DEF cmd_profile_set, SetBuiltin, Choose
  <2>2. CASE ~(builtins > 0 /\ IsBuiltin(u))
    BY <1>1, <2>2 DEF cmd_profile_set, SetIndex, Choose, SelectInv, IndicesInv
  <2> QED BY <2>1, <2>2
<1> QED BY <1>2, ChoiceStep

LEMMA LegacyStep ==
  ASSUME OneBuiltin, SelectInv, NEW dir \in {-1, 1}, NEW wrap \in BOOLEAN, LegacyCycle(dir, wrap)
  PROVE  SelectInv'
<1> DEFINE end == settings.count
           to == IF dir = 1 THEN (CurrentIndex + 1) % (end + 1)
                 ELSE IF CurrentIndex \in 1 .. end THEN CurrentIndex - 1 ELSE end
<1>1. end \in Nat /\ CurrentIndex \in Nat
  BY Unified, SettingsFields, ProfileAssumption
     DEF CurrentIndex, SelectInv, SelectTypeOK
<1>2. to \in 0 .. end
  <2>1. \A a \in Int : a % (end + 1) \in 0 .. end
    BY <1>1, SMT
  <2> QED BY <1>1, <2>1
<1>3. to \in 0 .. Total - 1 /\ ProfileOf(to) = ProfileAt(settings, to, 0)
  <2>1. to \in 0 .. Total - 1
    <3> HIDE DEF to
    <3> QED BY <1>1, <1>2, Unified
  <2> HIDE DEF to
  <2> QED BY <2>1, UnifiedIndex
<1>4. /\ Keeps(ProfileOf(to)) /\ SetIndex(to)
      /\ IF settings.index # to THEN SaveNow ELSE NoSave
      /\ UNCHANGED <<builtins, active_index>>
  BY DEF LegacyCycle
<1>5. Choose(to)
  <2> HIDE DEF to
  <2> QED BY <1>2, <1>3, <1>4 DEF Choose, SetIndex, SelectInv, IndicesInv
<1> QED BY <1>5, ChoiceStep

LEMMA UnifiedStep ==
  ASSUME OneBuiltin, SelectInv, NEW dir \in {-1, 1}, NEW wrap \in BOOLEAN, UnifiedCycle(dir, wrap)
  PROVE  SelectInv'
<1> DEFINE to == cycle_find(ActiveUnified, Total, CustomStart, settings.disabled, dir, wrap)
<1>1. /\ Total \in Nat \ {0} /\ CustomStart \in Nat /\ settings.disabled \in SUBSET Nat
      /\ ActiveUnified \in Nat
  <2>1. CurrentIndex \in Nat /\ active_index \in Nat
    BY SettingsFields, ProfileAssumption DEF CurrentIndex, SelectInv, SelectTypeOK
  <2> QED BY <2>1, Unified, SettingsFields DEF ActiveUnified, SelectInv, SelectTypeOK
<1>2. to # ActiveUnified
  BY DEF UnifiedCycle
<1>3. to \in 0 .. Total - 1
  BY <1>1, <1>2, CycleWithin
<1>4. /\ Keeps(ProfileOf(to))
      /\ IF IsBuiltin(to)
         THEN SetBuiltin(to) /\ SaveBuiltin(to, FALSE)
         ELSE /\ SetIndex(ToFlashIndex(to))
              /\ UNCHANGED active_index
              /\ IF settings.index # ToFlashIndex(to) THEN SaveLater ELSE NoSave
      /\ UNCHANGED builtins
  BY DEF UnifiedCycle
<1> HIDE DEF to
<1>5. /\ to \in 0 .. settings.count /\ ToFlashIndex(to) = to /\ (IsBuiltin(to) <=> to = 0)
      /\ ProfileOf(to) = ProfileAt(settings, to, 0)
  BY <1>3, UnifiedIndex
<1>6. Choose(to)
  <2>1. CASE to = 0
    <3>1. SaveLater \/ (settings.index = to /\ NoSave)
      BY <1>4, <1>5, <2>1 DEF SaveBuiltin
    <3> QED BY <1>4, <1>5, <2>1, <3>1 DEF SetBuiltin, Choose
  <2>2. CASE to # 0
    BY <1>4, <1>5, <2>2 DEF SetIndex, Choose, SelectInv, IndicesInv
  <2> QED BY <2>1, <2>2
<1> QED BY <1>6, ChoiceStep

\* PROFILE.SELECT: an index in RAM; where the built-in profile is made active,
\* nothing overrides it.
LEMMA SelectStep == ASSUME OneBuiltin, SelectInv, NEW u \in 0 .. Total - 1, cmd_profile_select(u)
                    PROVE  SelectInv'
<1>1. /\ u \in 0 .. settings.count /\ ToFlashIndex(u) = u /\ (IsBuiltin(u) <=> u = 0)
      /\ ProfileOf(u) = ProfileAt(settings, u, 0)
  BY UnifiedIndex
<1>2. /\ settings' = settings /\ flash' = flash /\ kept' = kept /\ saved' = saved
      /\ save_pending' = save_pending /\ builtins' = builtins
      /\ selected' = ProfileAt(settings, u, 0) /\ applied' = FALSE /\ stale' = FALSE
  BY <1>1 DEF cmd_profile_select, NoSave, Selects
<1>3. settings.count \in 0 .. MaxCustom /\ MaxCustom \in Nat
  BY SettingsFields, ProfileAssumption DEF SelectInv, SelectTypeOK
<1>4. CASE builtins > 0 /\ IsBuiltin(u)
  <2>1. u = 0 /\ active_index' = 0 /\ ephemeral_active' = ephemeral_active
        /\ ephemeral_active_idx' = ephemeral_active_idx
    BY <1>1, <1>4 DEF cmd_profile_select
  <2>2. CurrentIndex = 0 /\ ~ephemeral_active
    BY <1>4 DEF cmd_profile_select, Selectable, OneBuiltin
  <2>3. ephemeral_active_idx <= settings.count
    BY <1>3, <2>2 DEF CurrentIndex, SelectInv, SelectTypeOK
  <2>4. SelectTypeOK'
    <3>1. active_index' \in Nat
      BY <2>1
    <3> QED BY <1>2, <2>1, <3>1, Zenon DEF SelectInv, SelectTypeOK
  <2>5. Selected' = selected'
    BY <1>2, <2>1, <2>2 DEF Selected, CurrentIndex
  <2>6. IndicesInv'
    BY <1>2, <2>1, <2>3 DEF SelectInv, IndicesInv
  <2>7. ephemeral_active' = applied'
    BY <1>2, <2>1, <2>2 DEF SelectInv, SelectTypeOK
  <2> QED BY <1>2, <2>4, <2>5, <2>6, <2>7 DEF SelectInv, ChoiceInv, ChosenBy
<1>5. CASE ~(builtins > 0 /\ IsBuiltin(u))
  <2>1. active_index' = active_index /\ ephemeral_active' = FALSE /\ ephemeral_active_idx' = u
    BY <1>1, <1>5 DEF cmd_profile_select
  <2>2. SelectTypeOK'
    <3>1. ephemeral_active_idx' \in -1 .. MaxCustom
      BY <1>1, <1>3, <2>1
    <3> QED BY <1>2, <2>1, <3>1, Zenon DEF SelectInv, SelectTypeOK
  <2>3. IndicesInv'
    BY <1>1, <1>2, <2>1 DEF SelectInv, IndicesInv
  <2>4. Selected' = selected'
    BY <1>1, <1>2, <2>1 DEF Selected, CurrentIndex, SelectInv, IndicesInv
  <2> QED BY <1>2, <2>1, <2>2, <2>3, <2>4 DEF SelectInv, ChoiceInv, ChosenBy
<1> QED BY <1>4, <1>5

LEMMA OverrideStep == ASSUME SelectInv, cmd_profile_apply \/ cmd_profile_clear
                      PROVE  SelectInv'
<1>1. /\ ephemeral_active' = applied' /\ applied' \in BOOLEAN
      /\ UNCHANGED <<builtins, settings, flash, save_pending, active_index,
                     ephemeral_active_idx, selected, kept, saved, stale>>
  BY DEF cmd_profile_apply, cmd_profile_clear, NoSave
<1>2. SelectTypeOK'
  BY <1>1, Zenon DEF SelectInv, SelectTypeOK
<1>3. Selected' = Selected
  BY <1>1 DEF Selected, CurrentIndex
<1> QED BY <1>1, <1>2, <1>3 DEF SelectInv, IndicesInv, ChoiceInv, ChosenBy

\* What changes the settings but leaves the profiles at the indices in use where
\* they are, to be saved later if they changed.
LEMMA EditStep ==
  ASSUME SelectInv, Unchosen, SaveLater \/ (settings' = settings /\ NoSave),
         settings' \in Settings, ListOK(settings'), settings'.index = settings.index,
         settings.count <= settings'.count,
         \A i \in 1 .. settings.count : settings'.profiles[i] = settings.profiles[i]
  PROVE  SelectInv'
<1>1. /\ flash' = flash /\ saved' = saved /\ kept' = kept /\ selected' = selected
      /\ applied' = applied /\ stale' = stale /\ builtins' = builtins
      /\ active_index' = active_index /\ ephemeral_active' = ephemeral_active
      /\ ephemeral_active_idx' = ephemeral_active_idx
      /\ save_pending' \in BOOLEAN /\ (~save_pending' => ~save_pending)
  BY DEF Unchosen, SaveLater, NoSave, SelectInv, SelectTypeOK
<1>2. SelectTypeOK'
  BY <1>1, Zenon DEF SelectInv, SelectTypeOK
<1>3. settings.count \in Nat /\ settings'.count \in Nat
  BY SettingsFields, ProfileAssumption DEF SelectInv, SelectTypeOK
<1>4. IndicesInv'
  <2>1. settings'.index <= settings'.count /\ flash'.index <= flash'.count
    BY <1>1, <1>3, SettingsFields DEF SelectInv, IndicesInv, SelectTypeOK
  <2>2. ~stale' => ephemeral_active_idx' <= settings'.count
    BY <1>1, <1>3 DEF SelectInv, IndicesInv, SelectTypeOK
  <2> QED BY <1>1, <2>1, <2>2 DEF SelectInv, IndicesInv
<1>5. \A n \in -1 .. settings.count : ProfileAt(settings', n, 0) = ProfileAt(settings, n, 0)
  <2> TAKE n \in -1 .. settings.count
  <2>1. n \in 1 .. settings'.count <=> n \in 1 .. settings.count
    BY <1>3
  <2> QED BY <2>1 DEF ProfileAt
<1>6. ChosenBy(settings)' = kept'
  <2>1. settings.index \in -1 .. settings.count
    BY <1>3, SettingsFields DEF SelectInv, SelectTypeOK, IndicesInv
  <2> QED BY <1>1, <1>5, <2>1 DEF ChosenBy, SelectInv, ChoiceInv
<1>7. ~stale' => Selected' = selected'
  <2> SUFFICES ASSUME ~stale' PROVE Selected' = selected'
    OBVIOUS
  <2>1. CurrentIndex \in -1 .. settings.count /\ CurrentIndex' = CurrentIndex
    BY <1>1, <1>3, SettingsFields DEF SelectInv, SelectTypeOK, IndicesInv, CurrentIndex
  <2>2. Selected = selected /\ active_index = 0 /\ active_index' = 0
    BY <1>1 DEF SelectInv, ChoiceInv, IndicesInv
  <2> QED BY <1>1, <1>5, <2>1, <2>2 DEF Selected
<1>8. /\ ephemeral_active' = applied' /\ ChosenBy(flash)' = saved'
      /\ ~save_pending' => saved' = kept'
  BY <1>1 DEF SelectInv, ChoiceInv, ChosenBy
<1> QED BY <1>2, <1>4, <1>6, <1>7, <1>8 DEF SelectInv, ChoiceInv

LEMMA CloneStep == ASSUME SelectInv, cmd_profile_clone PROVE SelectInv'
<1> DEFINE c == settings.count
<1>1. PICK id \in Ids : Fresh(id) /\ settings' = [settings EXCEPT !.count = @ + 1,
                                                             !.profiles[c + 1] = id]
  BY DEF cmd_profile_clone
<1>2. /\ c \in Nat /\ c < MaxCustom /\ MaxCustom \in Nat /\ c + 1 \in Positions
      /\ settings \in Settings /\ ListOK(settings)
  BY SettingsFields, ProfileAssumption DEF cmd_profile_clone, SelectInv, SelectTypeOK, Positions
<1>3. /\ settings'.count = c + 1 /\ settings'.index = settings.index
      /\ settings'.profiles = [settings.profiles EXCEPT ![c + 1] = id]
      /\ settings' \in Settings
  <2> DEFINE profiles == [settings.profiles EXCEPT ![c + 1] = id]
  <2>1. settings' = [profiles |-> profiles, count |-> c + 1, index |-> settings.index,
                     disabled |-> settings.disabled]
    BY <1>1, <1>2 DEF Settings
  <2>2. profiles \in [Positions -> Ids \union {NoProfile}] /\ c + 1 \in 0 .. MaxCustom
    BY <1>2, SettingsFields
  <2> HIDE DEF profiles
  <2>3. settings' \in Settings
    BY <1>2, <2>1, <2>2, SettingsFields, SettingsMade
  <2> QED BY <2>1, <2>3 DEF profiles
<1>4. /\ settings.profiles \in [Positions -> Ids \union {NoProfile}]
      /\ id # NoProfile /\ \A i \in Positions : settings.profiles[i] # id
  <2>1. id # NoProfile
    BY DEF Ids, NoProfile
  <2> QED BY <1>1, <1>2, <2>1, SettingsFields DEF Fresh
<1>5. \A i \in Positions : settings'.profiles[i] = IF i = c + 1 THEN id ELSE settings.profiles[i]
  BY <1>2, <1>3, <1>4
<1>6. ListOK(settings')
  <2>1. \A i \in Positions : (settings'.profiles[i] # NoProfile) <=> i <= c + 1
    BY <1>2, <1>4, <1>5 DEF ListOK, Positions
  <2>2. \A i, j \in Positions : settings'.profiles[i] = settings'.profiles[j] /\ i <= c + 1 => i = j
    <3> TAKE i, j \in Positions
    <3> HAVE settings'.profiles[i] = settings'.profiles[j] /\ i <= c + 1
    <3>1. i \in Nat /\ j \in Nat
      BY DEF Positions
    <3>2. i = c + 1 <=> j = c + 1
      BY <1>4, <1>5
    <3>3. i # c + 1 => i <= c /\ settings.profiles[i] = settings.profiles[j]
      BY <1>2, <1>5, <3>1, <3>2
    <3> QED BY <1>2, <3>2, <3>3 DEF ListOK
  <2> QED BY <1>3, <2>1, <2>2 DEF ListOK
<1>7. \A i \in 1 .. c : settings'.profiles[i] = settings.profiles[i]
  BY <1>2, <1>5 DEF Positions
<1>8. Unchosen /\ SaveLater /\ c <= settings'.count
  BY <1>2, <1>3 DEF cmd_profile_clone
<1> QED BY <1>3, <1>6, <1>7, <1>8, EditStep

LEMMA OtherEditStep ==
  ASSUME OneBuiltin, SelectInv, NEW u \in 0 .. Total - 1,
         cmd_profile_save(u) \/ \E off \in BOOLEAN : cmd_profile_disable(u, off)
  PROVE  SelectInv'
<1>1. settings \in Settings /\ ListOK(settings) /\ settings.count \in Nat /\ u \in Nat
  BY Unified DEF SelectInv, SelectTypeOK
<1>2. CASE cmd_profile_save(u)
  BY <1>1, <1>2, EditStep DEF cmd_profile_save
<1>3. ASSUME NEW off \in BOOLEAN, cmd_profile_disable(u, off) PROVE SelectInv'
  <2>1. /\ settings' = [settings EXCEPT !.disabled = IF off THEN @ \union {u} ELSE @ \ {u}]
        /\ SaveLater \/ (settings' = settings /\ NoSave)
        /\ Unchosen
    BY <1>3 DEF cmd_profile_disable
  <2>2. /\ settings' \in Settings /\ settings'.index = settings.index
        /\ settings'.count = settings.count /\ settings'.profiles = settings.profiles
    BY <1>1, <2>1 DEF Settings
  <2>3. ListOK(settings')
    BY <1>1, <2>2 DEF ListOK
  <2> QED BY <1>1, <2>1, <2>2, <2>3, EditStep
<1> QED BY <1>2, <1>3

\* PROFILE.DELETE: what an index stands for afterwards.
Deleted(s, k) == [s EXCEPT !.profiles = Without(s, k), !.count = @ - 1,
                           !.index = IndexWithout(@, k)]

LEMMA DeletedList ==
  ASSUME NEW s \in Settings, ListOK(s), NEW k \in 1 .. s.count, NEW t, t = Deleted(s, k),
         s.index <= s.count
  PROVE  /\ t \in Settings /\ ListOK(t) /\ t.index <= t.count /\ t.count = s.count - 1
         /\ ChosenBy(t) = IF s.index = k THEN Builtin(0) ELSE ChosenBy(s)
         /\ \A n \in -1 .. k - 1 : ProfileAt(t, n, 0) = ProfileAt(s, n, 0)
         /\ \A n \in -1 .. s.count : ProfileAt(s, n, 0) = Custom(s.profiles[k]) <=> n = k
<1>1. /\ s.profiles \in [Positions -> Ids \union {NoProfile}] /\ s.index \in Nat
      /\ s.count \in 0 .. MaxCustom /\ MaxCustom \in Nat /\ k \in Positions
  BY SettingsFields, ProfileAssumption DEF Positions
<1>2. /\ t.profiles = Without(s, k) /\ t.count = s.count - 1
      /\ t.index = IndexWithout(s.index, k) /\ t.disabled = s.disabled
  BY DEF Settings, Deleted
<1>3. \A i \in Positions : t.profiles[i] = IF i < k THEN s.profiles[i]
                                           ELSE IF i < s.count THEN s.profiles[i + 1]
                                           ELSE NoProfile
  BY <1>2 DEF Without
<1>4. \A i \in Positions : i < s.count => i + 1 \in Positions
  BY <1>1 DEF Positions
<1>5. t.index \in Nat /\ t.index <= t.count /\ t.count \in 0 .. MaxCustom
  BY <1>1, <1>2 DEF IndexWithout
<1>6. t \in Settings
  <2>1. Without(s, k) \in [Positions -> Ids \union {NoProfile}]
    BY <1>1, <1>4 DEF Without
  <2>2. t = [profiles |-> Without(s, k), count |-> s.count - 1,
             index |-> IndexWithout(s.index, k), disabled |-> s.disabled]
    BY DEF Settings, Deleted
  <2>3. IndexWithout(s.index, k) \in Nat /\ s.count - 1 \in 0 .. MaxCustom
    BY <1>2, <1>5
  <2>4. s.disabled \in SUBSET Nat
    BY SettingsFields
  <2>5. [profiles |-> Without(s, k), count |-> s.count - 1,
         index |-> IndexWithout(s.index, k), disabled |-> s.disabled] \in Settings
    BY <2>1, <2>3, <2>4, SettingsMade, Zenon
  <2> QED BY <2>2, <2>5, Zenon
<1>7. ListOK(t)
  <2>1. \A i \in Positions : (t.profiles[i] # NoProfile) <=> i <= t.count
    <3> TAKE i \in Positions
    <3>1. i \in Nat /\ k \in Nat /\ s.count \in Nat /\ k <= s.count
      BY <1>1 DEF Positions
    <3>2. CASE i < k
      <4>1. t.profiles[i] = s.profiles[i]
        BY <1>3, <3>2
      <4> QED BY <1>2, <3>1, <3>2, <4>1 DEF ListOK
    <3>3. CASE ~(i < k) /\ i < s.count
      <4>1. t.profiles[i] = s.profiles[i + 1] /\ i + 1 \in Positions /\ i + 1 <= s.count
        BY <1>3, <1>4, <3>1, <3>3
      <4>2. s.profiles[i + 1] # NoProfile
        BY <4>1 DEF ListOK
      <4> QED BY <1>2, <3>1, <3>3, <4>1, <4>2
    <3>4. CASE ~(i < k) /\ ~(i < s.count)
      BY <1>2, <1>3, <3>1, <3>4
    <3> QED BY <3>2, <3>3, <3>4
  <2>2. \A i, j \in Positions : t.profiles[i] = t.profiles[j] /\ i <= t.count => i = j
    <3> TAKE i, j \in Positions
    <3> HAVE t.profiles[i] = t.profiles[j] /\ i <= t.count
    <3> DEFINE old(n) == IF n < k THEN n ELSE n + 1
    <3>1. j <= t.count
      BY <2>1
    <3>2. /\ old(i) \in Positions /\ old(j) \in Positions
          /\ old(i) <= s.count /\ old(j) <= s.count
      BY <1>1, <1>2, <3>1 DEF Positions
    <3>3. t.profiles[i] = s.profiles[old(i)] /\ t.profiles[j] = s.profiles[old(j)]
      BY <1>1, <1>2, <1>3, <3>1 DEF Positions
    <3>4. old(i) = old(j)
      <4> HIDE DEF old
      <4> QED BY <3>2, <3>3 DEF ListOK
    <3> QED BY <3>4 DEF Positions
  <2> QED BY <2>1, <2>2 DEF ListOK
<1>8. \A n \in -1 .. k - 1 : ProfileAt(t, n, 0) = ProfileAt(s, n, 0)
  <2> TAKE n \in -1 .. k - 1
  <2>1. (n \in 1 .. t.count <=> n \in 1 .. s.count) /\ (n \in 1 .. s.count => n \in Positions)
    BY <1>1, <1>2 DEF Positions
  <2> QED BY <1>3, <2>1 DEF ProfileAt
<1>9. \A n \in -1 .. s.count : ProfileAt(s, n, 0) = Custom(s.profiles[k]) <=> n = k
  <2> TAKE n \in -1 .. s.count
  <2>1. n \in 1 .. s.count => n \in Positions /\ (s.profiles[n] = s.profiles[k] => n = k)
    BY <1>1 DEF ListOK, Positions
  <2>2. CASE n \in 1 .. s.count
    BY <2>1, <2>2, ProfilesDiffer DEF ProfileAt
  <2>3. CASE n \notin 1 .. s.count
    BY <2>3, ProfilesDiffer DEF ProfileAt
  <2> QED BY <2>2, <2>3
<1>10. ChosenBy(t) = IF s.index = k THEN Builtin(0) ELSE ChosenBy(s)
  <2>1. CASE s.index = k
    BY <1>2, <2>1 DEF IndexWithout, ChosenBy, ProfileAt
  <2>2. CASE s.index < k
    BY <1>1, <1>2, <1>8, <2>2 DEF IndexWithout, ChosenBy
  <2>3. CASE s.index > k
    <3>1. /\ t.index = s.index - 1 /\ t.index \in 1 .. t.count /\ s.index \in 1 .. s.count
          /\ t.index \in Positions /\ ~(t.index < k) /\ t.index < s.count
      BY <1>1, <1>2, <2>3 DEF IndexWithout, Positions
    <3>2. t.profiles[t.index] = s.profiles[s.index]
      BY <1>1, <1>3, <3>1
    <3> QED BY <1>1, <2>3, <3>1, <3>2 DEF ChosenBy, ProfileAt
  <2> QED BY <1>1, <2>1, <2>2, <2>3
<1> QED BY <1>2, <1>5, <1>6, <1>7, <1>8, <1>9, <1>10

LEMMA DeleteStep == ASSUME OneBuiltin, SelectInv, NEW u \in 0 .. Total - 1, cmd_profile_delete(u)
                    PROVE  SelectInv'
<1> DEFINE gone == Custom(settings.profiles[u])
           After(p) == IF p = gone THEN Builtin(active_index) ELSE p
<1>1. /\ u \in 1 .. settings.count /\ ToFlashIndex(u) = u
      /\ settings.count \in 0 .. MaxCustom /\ MaxCustom \in Nat
      /\ settings \in Settings /\ ListOK(settings) /\ settings.index \in Nat
      /\ settings.index <= settings.count
  BY UnifiedIndex, SettingsFields, ProfileAssumption
     DEF cmd_profile_delete, SelectInv, SelectTypeOK, IndicesInv
<1>2. /\ settings' = [settings EXCEPT !.profiles = Without(settings, u), !.count = @ - 1,
                                     !.index = IndexWithout(@, u)]
      /\ save_pending' = TRUE /\ flash' = flash /\ saved' = saved
      /\ selected' = After(selected) /\ kept' = After(kept)
      /\ stale' = (stale \/ ephemeral_active_idx >= u)
      /\ builtins' = builtins /\ active_index' = active_index
      /\ ephemeral_active' = ephemeral_active
      /\ ephemeral_active_idx' = ephemeral_active_idx /\ applied' = applied
  BY <1>1 DEF cmd_profile_delete, SaveLater
<1>3. /\ settings' \in Settings /\ ListOK(settings') /\ settings'.index <= settings'.count
      /\ settings'.count = settings.count - 1
      /\ ChosenBy(settings') = IF settings.index = u THEN Builtin(0) ELSE ChosenBy(settings)
      /\ \A n \in -1 .. u - 1 : ProfileAt(settings', n, 0) = ProfileAt(settings, n, 0)
      /\ \A n \in -1 .. settings.count : ProfileAt(settings, n, 0) = gone <=> n = u
  <2>1. settings' = Deleted(settings, u)
    BY <1>2 DEF Deleted
  <2> QED BY <1>1, <2>1, DeletedList
<1>4. /\ ephemeral_active_idx \in -1 .. MaxCustom /\ active_index = 0 /\ stale \in BOOLEAN
      /\ active_index' = 0
  BY <1>2 DEF SelectInv, SelectTypeOK, IndicesInv
<1>5. ~stale' => ~stale /\ ephemeral_active_idx < u
  <2>1. ~stale' => ~stale /\ ~(ephemeral_active_idx >= u)
    BY <1>2, Zenon
  <2> QED BY <1>1, <1>4, <2>1
<1>6. SelectTypeOK'
  <2>1. stale' \in BOOLEAN
    BY <1>2
  <2> QED BY <1>2, <1>3, <2>1, Zenon DEF SelectInv, SelectTypeOK
<1>7. IndicesInv'
  BY <1>1, <1>2, <1>3, <1>4, <1>5 DEF SelectInv, IndicesInv
<1>8. ChosenBy(settings)' = kept'
  <2>1. kept = ProfileAt(settings, settings.index, 0) /\ settings.index \in -1 .. settings.count
    BY <1>1 DEF SelectInv, ChoiceInv, ChosenBy
  <2>2. kept = gone <=> settings.index = u
    BY <1>3, <2>1
  <2> QED BY <1>2, <1>3, <1>4, <2>1, <2>2 DEF ChosenBy
<1>9. ~stale' => Selected' = selected'
  <2> SUFFICES ASSUME ~stale' PROVE Selected' = selected'
    OBVIOUS
  <2>1. ~stale /\ ephemeral_active_idx < u /\ Selected = selected
    BY <1>5 DEF SelectInv, ChoiceInv
  <2>2. CASE ephemeral_active_idx >= 0
    <3> DEFINE n == ephemeral_active_idx
    <3>1. n \in -1 .. u - 1 /\ n \in -1 .. settings.count /\ n # u
      BY <1>1, <1>4, <2>1, <2>2
    <3>2. Selected = ProfileAt(settings, n, 0) /\ Selected' = ProfileAt(settings', n, 0)
      BY <1>2, <1>4, <2>2 DEF Selected, CurrentIndex
    <3> QED BY <1>2, <1>3, <2>1, <3>1, <3>2
  <2>3. CASE ~(ephemeral_active_idx >= 0)
    <3>1. Selected = ChosenBy(settings) /\ Selected' = ChosenBy(settings)'
      BY <1>2, <1>4, <2>3 DEF Selected, CurrentIndex, ChosenBy
    <3>2. kept = selected
      BY <2>1, <3>1 DEF SelectInv, ChoiceInv
    <3> QED BY <1>2, <1>8, <3>1, <3>2
  <2> QED BY <2>2, <2>3
<1>10. ephemeral_active' = applied' /\ ChosenBy(flash)' = saved' /\ save_pending' = TRUE
  BY <1>2 DEF SelectInv, ChoiceInv, ChosenBy
<1> QED BY <1>6, <1>7, <1>8, <1>9, <1>10 DEF SelectInv, ChoiceInv

LEMMA SaveStep == ASSUME SelectInv, Save PROVE SelectInv'
<1>1. /\ flash' = settings /\ save_pending' = FALSE /\ saved' = kept
      /\ UNCHANGED <<builtins, settings, active_index, ephemeral_active,
                     ephemeral_active_idx, selected, applied, kept, stale>>
  BY DEF Save
<1>2. SelectTypeOK'
  BY <1>1, Zenon DEF SelectInv, SelectTypeOK
<1>3. Selected' = Selected
  BY <1>1 DEF Selected, CurrentIndex
<1> QED BY <1>1, <1>2, <1>3 DEF SelectInv, IndicesInv, ChoiceInv, ChosenBy

LEMMA RebootStep == ASSUME OneBuiltin, SelectInv, Reboot PROVE SelectInv'
<1>1. BootBuiltin(flash) = 0 /\ MaxCustom \in Nat /\ flash.index \in Nat
  BY Unified, SettingsFields, ProfileAssumption DEF BootBuiltin, SelectInv, SelectTypeOK
<1>2. /\ settings' = flash /\ flash' = flash /\ save_pending' = FALSE /\ active_index' = 0
      /\ ephemeral_active' = FALSE /\ ephemeral_active_idx' = -1 /\ builtins' = builtins
      /\ selected' = saved /\ applied' = FALSE /\ stale' = FALSE /\ kept' = saved
      /\ saved' = saved
  BY <1>1 DEF Reboot, Keeps, Selects
<1>3. SelectTypeOK'
  <2>1. active_index' \in Nat /\ ephemeral_active_idx' \in -1 .. MaxCustom
    BY <1>1, <1>2
  <2> QED BY <1>2, <2>1, Zenon DEF SelectInv, SelectTypeOK
<1>4. IndicesInv'
  <2>1. settings'.count \in Nat
    BY <1>2, SettingsFields, ProfileAssumption DEF SelectInv, SelectTypeOK
  <2> QED BY <1>2, <2>1 DEF SelectInv, IndicesInv
<1>5. ChosenBy(settings)' = kept' /\ ChosenBy(flash)' = saved' /\ Selected' = ChosenBy(settings)'
  BY <1>2 DEF SelectInv, ChoiceInv, ChosenBy, Selected, CurrentIndex
<1> QED BY <1>2, <1>3, <1>4, <1>5 DEF SelectInv, ChoiceInv

LEMMA SelectInvariant == ASSUME OneBuiltin PROVE SelectSpec => []SelectInv
<1>1. SelectInit => SelectInv
  BY SelectStarts
<1>2. SelectInv /\ [SelectNext]_selectVars => SelectInv'
  <2> SUFFICES ASSUME SelectInv, [SelectNext]_selectVars PROVE SelectInv'
    OBVIOUS
  <2>1. ASSUME NEW u \in 0 .. Total - 1, cmd_profile_set(u) PROVE SelectInv'
    BY <2>1, SetStep
  <2>2. ASSUME NEW u \in 0 .. Total - 1, cmd_profile_select(u) PROVE SelectInv'
    BY <2>2, SelectStep
  <2>3. ASSUME NEW u \in 0 .. Total - 1,
               cmd_profile_save(u) \/ \E off \in BOOLEAN : cmd_profile_disable(u, off)
        PROVE  SelectInv'
    BY <2>3, OtherEditStep
  <2>4. ASSUME NEW u \in 0 .. Total - 1, cmd_profile_delete(u) PROVE SelectInv'
    BY <2>4, DeleteStep
  <2>5. CASE cmd_profile_apply \/ cmd_profile_clear
    BY <2>5, OverrideStep
  <2>6. CASE cmd_profile_clone
    BY <2>6, CloneStep
  <2>7. ASSUME NEW dir \in {-1, 1}, NEW wrap \in BOOLEAN,
               LegacyCycle(dir, wrap) \/ UnifiedCycle(dir, wrap)
        PROVE  SelectInv'
    BY <2>7, LegacyStep, UnifiedStep
  <2>8. CASE Save
    BY <2>8, SaveStep
  <2>9. CASE Reboot
    BY <2>9, RebootStep
  <2>10. CASE UNCHANGED selectVars
    <3> USE <2>10 DEF selectVars
    <3>1. SelectTypeOK'
      BY Zenon DEF SelectInv, SelectTypeOK
    <3>2. Selected' = Selected
      BY DEF Selected, CurrentIndex
    <3> QED BY <3>1, <3>2 DEF SelectInv, IndicesInv, ChoiceInv, ChosenBy
  <2> QED
    BY <2>1, <2>2, <2>3, <2>4, <2>5, <2>6, <2>7, <2>8, <2>9, <2>10 DEF SelectNext
<1> QED BY <1>1, <1>2, PTL DEF SelectSpec

\* The list never grows beyond its array, in RAM or in flash.
ListFits(s) == "count" \in DOMAIN s /\ s.count \in 0 .. MaxCustom
ListsFit == builtins \in Nat /\ ListFits(settings) /\ ListFits(flash)

LEMMA ListStep == ListsFit /\ [SelectNext]_selectVars => ListsFit'
<1> SUFFICES ASSUME ListsFit, [SelectNext]_selectVars PROVE ListsFit'
  OBVIOUS
<1>1. (flash' = flash \/ flash' = settings' \/ flash' = [settings EXCEPT !.index = 0])
      /\ builtins' = builtins /\ ListFits(settings') => ListsFit'
  BY DEF ListsFit, ListFits
<1>2. ASSUME NEW u \in 0 .. Total - 1, cmd_profile_set(u) PROVE ListsFit'
  <2>1. ListFits(settings') /\ builtins' = builtins
    BY <1>2, ProfileAssumption DEF ListsFit, ListFits, cmd_profile_set, SetBuiltin, SetIndex
  <2>2. flash' = flash \/ flash' = settings' \/ flash' = [settings EXCEPT !.index = 0]
    BY <1>2, Zenon DEF cmd_profile_set, SaveBuiltin, SaveNow, SaveLater, NoSave
  <2> QED BY <1>1, <2>1, <2>2
<1>3. ASSUME NEW u \in 0 .. Total - 1,
             \/ cmd_profile_select(u) \/ cmd_profile_save(u)
             \/ \E off \in BOOLEAN : cmd_profile_disable(u, off)
      PROVE  ListsFit'
  <2>1. ListFits(settings') /\ builtins' = builtins
    BY <1>3, ProfileAssumption DEF ListsFit, ListFits, cmd_profile_select, cmd_profile_save, cmd_profile_disable, Unchosen
  <2>2. flash' = flash
    BY <1>3, Zenon DEF cmd_profile_select, cmd_profile_save, cmd_profile_disable, SaveLater, NoSave
  <2> QED BY <1>1, <2>1, <2>2
<1>4. ASSUME NEW u \in 0 .. Total - 1, cmd_profile_delete(u) PROVE ListsFit'
  <2>1. settings.count > 0
    <3>1. ~(u < CustomStart) /\ u < CustomStart + settings.count /\ settings.count \in Nat
      BY <1>4, ProfileAssumption DEF cmd_profile_delete, IsBuiltin, Total, ListsFit, ListFits
    <3>2. CustomStart \in Nat /\ Total \in Nat
      BY <3>1 DEF CustomStart, Total, ListsFit
    <3>3. u \in Int
      BY <3>2
    <3> QED BY <3>1, <3>2, <3>3
  <2>2. ListFits(settings') /\ builtins' = builtins /\ flash' = flash
    BY <1>4, <2>1, ProfileAssumption DEF ListsFit, ListFits, cmd_profile_delete, SaveLater
  <2> QED BY <1>1, <2>2
<1>5. CASE cmd_profile_apply \/ cmd_profile_clear
  BY <1>5 DEF cmd_profile_apply, cmd_profile_clear, NoSave, ListsFit
<1>6. CASE cmd_profile_clone
  <2>1. ListFits(settings') /\ builtins' = builtins /\ flash' = flash
    BY <1>6, ProfileAssumption DEF ListsFit, ListFits, cmd_profile_clone, SaveLater, Unchosen
  <2> QED BY <1>1, <2>1
<1>7. ASSUME NEW dir \in {-1, 1}, NEW wrap \in BOOLEAN,
             LegacyCycle(dir, wrap) \/ UnifiedCycle(dir, wrap)
      PROVE  ListsFit'
  <2>1. ListFits(settings') /\ builtins' = builtins
    BY <1>7, ProfileAssumption DEF ListsFit, ListFits, LegacyCycle, UnifiedCycle, SetBuiltin, SetIndex
  <2>2. flash' = flash \/ flash' = settings' \/ flash' = [settings EXCEPT !.index = 0]
    BY <1>7, Zenon DEF LegacyCycle, UnifiedCycle, SaveBuiltin, SaveNow, SaveLater, NoSave
  <2> QED BY <1>1, <2>1, <2>2
<1>8. CASE Save \/ Reboot \/ UNCHANGED selectVars
  BY <1>8 DEF Save, Reboot, selectVars, ListsFit
<1> QED
  BY <1>2, <1>3, <1>4, <1>5, <1>6, <1>7, <1>8 DEF SelectNext

\* Whatever the commands leave in the list and disable, and for any length of it,
\* the cycle hotkeys reach every enabled profile and no other, the two directions
\* undo each other, and without wrapping they go to the neighbour.
THEOREM HotkeysReachAll == SelectSpec => []CycleReachesAll
<1>1. SelectInit => ListsFit
  BY ProfileAssumption DEF SelectInit, ListsFit, ListFits
<1>2. ListsFit => CycleReachesAll
  <2> SUFFICES ASSUME ListsFit PROVE CycleReachesAll
    OBVIOUS
  <2>1. settings.count \in 0 .. MaxCustom /\ settings.count \in Nat
    BY ProfileAssumption DEF ListsFit, ListFits
  <2> QED BY <2>1, CycleCompleteAlways DEF CycleReachesAll, CycleTable
<1> QED BY <1>1, <1>2, ListStep, PTL DEF SelectSpec
\* With at most one built-in profile (and hosts that do not use PROFILE.SELECT on
\* it against an override) the profile in effect is the one chosen last, by
\* whatever of the commands, hotkeys and boots, for any number of custom profiles.
THEOREM LastChoiceInEffect == ASSUME OneBuiltin PROVE SelectSpec => []SelectionOK
<1>1. SelectInv => SelectionOK
  BY DEF SelectInv, ChoiceInv, SelectionOK, ChosenInEffect, InEffect
<1> QED BY <1>1, SelectInvariant, PTL

\* And a boot brings back the last choice that was saved, which is the last one
\* made to be kept unless its save is still to come.
THEOREM BootRestoresChoice == ASSUME OneBuiltin PROVE SelectSpec => []BootFindsKept
<1>1. SelectInv => BootFindsKept
  <2> SUFFICES ASSUME SelectInv PROVE BootFindsKept
    OBVIOUS
  <2>1. BootBuiltin(flash) = 0
    BY Unified, SettingsFields DEF BootBuiltin, SelectInv, SelectTypeOK
  <2> QED BY <2>1 DEF SelectInv, ChoiceInv, ChosenBy, BootFindsKept, BootProfile
<1> QED BY <1>1, SelectInvariant, PTL
-----------------------------------------------------------------------------
(* The runtime profile (runtime_profile.c). *)

\* Entries are counted, and those of finish_mapping come after the counted ones.
EntriesInv ==
  /\ runtime_entry = 0 => map_count = 0
  /\ runtime_state # "mapping" => runtime_entry <= map_count
  /\ \A i \in runtime_entry + 1 .. map_count : runtime_map[i].rate = 0
  /\ runtime_state = "autofire" /\ ~switched => map_count > 0 \/ base = <<>>

\* A remap under way: the outputs so far, each with an input of its own.
\* A completed one: all outputs, and after them the inputs that got none.
Assigned(n) ==
  /\ \A i \in 1 .. n : runtime_map[i].output = i
  /\ \A i, j \in 1 .. n : runtime_map[i].input = runtime_map[j].input => i = j

RemapInv ==
  /\ runtime_state = "mapping" =>
       /\ ~remapped /\ runtime_entry = Len(runtime_map) /\ Assigned(runtime_entry)
       /\ mapped_mask = {runtime_map[i].input : i \in 1 .. runtime_entry}
  /\ remapped =>
       /\ runtime_entry = OutputCount /\ map_count = Len(runtime_map)
       /\ Assigned(OutputCount)
       /\ \A b \in Eligible : \E i \in 1 .. map_count : runtime_map[i].input = b
       /\ \A i \in OutputCount + 1 .. map_count :
            /\ runtime_map[i].output = 0
            /\ \A j \in 1 .. OutputCount : runtime_map[i].input # runtime_map[j].input

\* The hold timer: somebody has held the combo as long, unless it was let go unseen.
HoldInv ==
  /\ runtime_state # "idle" => combo_hold = -1
  /\ combo_hold # -1 /\ ~unseen =>
       \E p \in Pads : Combo(held[p]) /\ age[p] >= combo_hold
  /\ held[last] \subseteq prev_buttons

RuntimeInv == RuntimeTypeOK /\ EntriesInv /\ RemapInv /\ HoldInv
-----------------------------------------------------------------------------
(* Numbers, buttons and maps. *)

LEMMA LeastExists == ASSUME NEW S \in SUBSET Nat, S # {}
                     PROVE  \E n \in S : \A m \in S : n <= m
<1>1. IsWellFoundedOn(OpToRel(<, Nat), Nat)
  BY NatLessThanWellFounded
<1>2. PICK n \in S : \A m \in S : ~(<<m, n>> \in OpToRel(<, Nat))
  BY <1>1, WFMin
<1>3. \A m \in S : ~(m < n)
  BY <1>2 DEF OpToRel
<1> QED BY <1>3

LEMMA Constants == /\ InputCount \in Nat /\ OutputCount \in 1 .. InputCount /\ OutputCount \in Nat
                   /\ EntryMax \in Nat /\ InputCount <= EntryMax
                   /\ HoldTime \in Nat \ {0} /\ Rates \in Nat \ {0}
BY ButtonAssumption, EntryAssumption, TimeAssumption

LEMMA LowestPressed == ASSUME NEW buttons, buttons \intersect Eligible # {}
                       PROVE  /\ Lowest(buttons) \in Eligible /\ Lowest(buttons) \in buttons
                              /\ \A c \in buttons \intersect Eligible : Lowest(buttons) <= c
<1>1. buttons \intersect Eligible \subseteq Nat
  BY Constants DEF Eligible
<1>2. \E b \in buttons \intersect Eligible : \A c \in buttons \intersect Eligible : b <= c
  BY <1>1, LeastExists
<1> QED BY <1>2 DEF Lowest

LEMMA EntryFields == ASSUME NEW e \in Entry
                     PROVE  /\ e.input \in Eligible /\ e.output \in {0} \union Eligible
                            /\ e.rate \in 0 .. Rates
BY DEF Entry

LEMMA MappingEntry == ASSUME NEW b \in Eligible, NEW out \in {0} \union Eligible
                      PROVE  /\ Mapping(b, out) \in Entry /\ Mapping(b, out).input = b
                             /\ Mapping(b, out).output = out /\ Mapping(b, out).rate = 0
BY Constants DEF Mapping, Entry

LEMMA CutMap == ASSUME NEW map \in Seq(Entry), NEW n \in 0 .. Len(map)
                PROVE  /\ SubSeq(map, 1, n) \in Seq(Entry) /\ Len(SubSeq(map, 1, n)) = n
                       /\ DOMAIN SubSeq(map, 1, n) = 1 .. n
                       /\ \A i \in 1 .. n : SubSeq(map, 1, n)[i] = map[i] /\ map[i] \in Entry
<1>1. Len(map) \in Nat /\ n \in Int /\ 1 \in Int
  BY LenProperties
<1>2. \A i \in 1 .. n : map[i] \in Entry
  BY <1>1, ElementOfSeq
<1>3. SubSeq(map, 1, n) \in Seq(Entry) /\ Len(SubSeq(map, 1, n)) = n
  BY <1>1, <1>2, SubSeqProperties
<1>4. \A i \in 1 .. n : SubSeq(map, 1, n)[i] = map[i]
  <2> TAKE i \in 1 .. n
  <2>1. SubSeq(map, 1, n)[i] = map[1 + i - 1]
    BY <1>1, <1>2, SubSeqProperties
  <2> QED BY <1>1, <2>1
<1> QED BY <1>2, <1>3, <1>4, LenProperties

LEMMA BaseMap == ASSUME NEW b \in BaseMaps
                 PROVE  /\ b \in Seq(Entry) /\ Len(b) \in 0 .. EntryMax
                        /\ b # <<>> => Len(b) = 1
                        /\ \A i \in 1 .. Len(b) : b[i].rate = 0
<1>1. InputCount \in Eligible /\ 1 \in {0} \union Eligible
  BY Constants DEF Eligible
<1>2. Mapping(InputCount, 1) \in Entry /\ Mapping(InputCount, 1).rate = 0
  BY <1>1, MappingEntry
<1>3. CASE b = <<>>
  BY <1>3, Constants
<1>4. CASE b = <<Mapping(InputCount, 1)>>
  <2>1. Len(b) = 1 /\ b \in Seq(Entry) /\ b[1] = Mapping(InputCount, 1)
    BY <1>2, <1>4
  <2> QED BY <1>2, <1>4, <2>1, Constants
<1> QED BY <1>3, <1>4 DEF BaseMaps

\* What a map puts out for a button.
OutputsIn(map, b) ==
  LET entries == {i \in DOMAIN map : map[i].input = b}
  IN IF entries = {} THEN {b} ELSE {map[i].output : i \in entries} \ {0}

LEMMA InTheMap == ASSUME NEW b PROVE  /\ Outputs(b) = OutputsIn(InForce, b)
                                     /\ Outputs(b)' = OutputsIn(InForce', b)
BY DEF Outputs, OutputsIn, EntriesOf

\* Two maps that agree on the entries of a button.
LEMMA SameForButton ==
  ASSUME NEW map, NEW other, NEW b,
         \A i \in DOMAIN map : map[i].input = b =>
             i \in DOMAIN other /\ other[i].input = b /\ other[i].output = map[i].output,
         \A i \in DOMAIN other : other[i].input = b => i \in DOMAIN map /\ map[i].input = b
  PROVE  OutputsIn(other, b) = OutputsIn(map, b)
<1> DEFINE entries == {i \in DOMAIN map : map[i].input = b}
<1>1. entries = {i \in DOMAIN other : other[i].input = b}
  OBVIOUS
<1>2. \A i \in entries : other[i].output = map[i].output
  OBVIOUS
<1> QED BY <1>1, <1>2 DEF OutputsIn

LEMMA SetInSequence ==
  ASSUME NEW S, IsFiniteSet(S)
  PROVE  /\ SetToSeq(S) \in [1 .. Cardinality(S) -> S]
         /\ \A x \in S : \E i \in 1 .. Cardinality(S) : SetToSeq(S)[i] = x
<1> DEFINE n == Cardinality(S)
           f == SetToSeq(S)
<1>1. n \in Nat /\ ExistsBijection(1 .. n, S)
  BY FS_CardinalityType
<1>2. \E g \in [1 .. n -> S] : IsInjective(g)
  BY <1>1, Zenon DEF ExistsBijection, Bijection, Injection
<1>3. f \in [1 .. n -> S] /\ IsInjective(f)
  BY <1>2, Zenon DEF SetToSeq
<1>4. f \in Injection(1 .. n, S)
  BY <1>3, Zenon DEF Injection
<1>5. IsFiniteSet(1 .. n) /\ Cardinality(1 .. n) = n
  <2>1. 1 \in Int /\ n \in Int /\ (IF 1 > n THEN 0 ELSE n - 1 + 1) = n
    BY <1>1
  <2> HIDE DEF n
  <2> QED BY <2>1, FS_Interval
<1>6. f \in Surjection(1 .. n, S)
  <2> HIDE DEF f
  <2> QED BY <1>4, <1>5, FS_Injection, Zenon
<1> QED BY <1>3, <1>6, Zenon DEF Surjection

\* finish_mapping: the inputs without an output, each once, with none.
LEMMA UnmappedRest ==
  ASSUME NEW map \in Seq(Entry),
         \A i, j \in 1 .. Len(map) : map[i].input = map[j].input => i = j
  PROVE  /\ Unmapped(map) \in Seq(Entry) /\ Len(map) + Len(Unmapped(map)) = InputCount
         /\ \A i \in 1 .. Len(Unmapped(map)) :
              /\ Unmapped(map)[i].output = 0 /\ Unmapped(map)[i].rate = 0
              /\ \A j \in 1 .. Len(map) : Unmapped(map)[i].input # map[j].input
         /\ \A b \in Eligible : \/ \E i \in 1 .. Len(map) : map[i].input = b
                               \/ \E i \in 1 .. Len(Unmapped(map)) : Unmapped(map)[i].input = b
<1> DEFINE mapped == {map[i].input : i \in 1 .. Len(map)}
           unmapped == Eligible \ mapped
           inputs == SetToSeq(unmapped)
           m == Len(map)
           n == Cardinality(unmapped)
           input == [i \in 1 .. m |-> map[i].input]
<1>1. m \in Nat /\ DOMAIN map = 1 .. m /\ \A i \in 1 .. m : map[i] \in Entry
  BY LenProperties, ElementOfSeq
<1>2. mapped \subseteq Eligible
  BY <1>1, EntryFields
<1>3. IsFiniteSet(Eligible) /\ Cardinality(Eligible) = InputCount
  <2>1. 1 \in Int /\ InputCount \in Int /\ (IF 1 > InputCount THEN 0 ELSE InputCount - 1 + 1) = InputCount
    BY Constants
  <2> QED BY <2>1, FS_Interval DEF Eligible
<1>4. IsFiniteSet(mapped) /\ Cardinality(mapped) = m
  <2>1. input \in Bijection(1 .. m, mapped)
    <3>1. input \in [1 .. m -> mapped]
      OBVIOUS
    <3>2. IsInjective(input)
      BY DEF IsInjective
    <3>3. \A x \in mapped : \E i \in 1 .. m : input[i] = x
      OBVIOUS
    <3> HIDE DEF input, mapped
    <3> QED BY <3>1, <3>2, <3>3, Zenon DEF Bijection, Injection, Surjection
  <2>2. ExistsBijection(1 .. m, mapped)
    BY <2>1, Zenon DEF ExistsBijection
  <2>3. IsFiniteSet(mapped)
    BY <1>1, <2>2, FS_NatBijection, Zenon
  <2>4. Cardinality(mapped) = m
    BY <1>1, <2>2, FS_CountingElements, Zenon
  <2> QED BY <2>3, <2>4
<1> HIDE DEF mapped, m
<1>5. IsFiniteSet(unmapped) /\ n \in Nat /\ m + n = InputCount
  <2>1. IsFiniteSet(unmapped)
    <3>1. unmapped \in SUBSET Eligible
      OBVIOUS
    <3> QED BY <1>3, <3>1, FS_Subset, Zenon
  <2>2. n \in Nat
    BY <2>1, FS_CardinalityType
  <2>3. mapped \union unmapped = Eligible /\ mapped \intersect unmapped = {}
    BY <1>2
  <2>4. Cardinality(mapped \union unmapped)
          = Cardinality(mapped) + n - Cardinality(mapped \intersect unmapped)
    <3> HIDE DEF unmapped
    <3> QED BY <1>4, <2>1, FS_Union
  <2>5. Cardinality({}) = 0
    BY FS_EmptySet
  <2>6. InputCount = m + n - 0
    BY <1>3, <1>4, <2>3, <2>4, <2>5, Zenon
  <2> HIDE DEF n, unmapped
  <2>7. m + n = InputCount
    BY <1>1, <2>2, <2>6
  <2> QED BY <2>1, <2>2, <2>7
<1>6. /\ inputs \in [1 .. n -> unmapped]
      /\ \A x \in unmapped : \E i \in 1 .. n : inputs[i] = x
  <2> HIDE DEF unmapped
  <2> QED BY <1>5, SetInSequence, Zenon
<1>7. Unmapped(map) = [i \in 1 .. n |-> Mapping(inputs[i], 0)]
  <2>1. unmapped = Eligible \ {map[i].input : i \in DOMAIN map}
    BY <1>1 DEF mapped, m
  <2>2. DOMAIN inputs = 1 .. n
    BY <1>6
  <2> QED BY <2>1, <2>2 DEF Unmapped
<1>8. \A i \in 1 .. n : /\ inputs[i] \in Eligible /\ inputs[i] \notin mapped
                       /\ Unmapped(map)[i] = Mapping(inputs[i], 0)
                       /\ Mapping(inputs[i], 0) \in Entry /\ Mapping(inputs[i], 0).input = inputs[i]
                       /\ Mapping(inputs[i], 0).output = 0 /\ Mapping(inputs[i], 0).rate = 0
  <2> TAKE i \in 1 .. n
  <2>1. inputs[i] \in unmapped
    BY <1>6
  <2>2. inputs[i] \in Eligible /\ inputs[i] \notin mapped
    BY <2>1
  <2> HIDE DEF inputs, n
  <2> QED BY <1>7, <2>2, MappingEntry
<1>9. Unmapped(map) \in Seq(Entry) /\ Len(Unmapped(map)) = n
  <2> HIDE DEF inputs, n
  <2>1. Unmapped(map) \in [1 .. n -> Entry]
    BY <1>7, <1>8
  <2> QED BY <1>5, <2>1, SeqDef
<1> HIDE DEF inputs, n
<1>10. \A i \in 1 .. n : \A j \in 1 .. m : Unmapped(map)[i].input # map[j].input
  BY <1>8 DEF mapped, m
<1>11. \A b \in Eligible : \/ \E i \in 1 .. m : map[i].input = b
                         \/ \E i \in 1 .. n : Unmapped(map)[i].input = b
  <2> TAKE b \in Eligible
  <2>1. CASE b \in mapped
    BY <2>1 DEF mapped, m
  <2>2. CASE b \notin mapped
    BY <1>6, <1>8, <2>2
  <2> QED BY <2>1, <2>2
<1> QED BY <1>5, <1>8, <1>9, <1>10, <1>11 DEF m
-----------------------------------------------------------------------------
(* The machine and its map, step by step. *)

MachineType ==
  /\ runtime_state \in {"idle", "mapping", "autofire"}
  /\ runtime_map \in Seq(Entry) /\ Len(runtime_map) <= EntryMax
  /\ runtime_entry \in 0 .. Len(runtime_map) /\ map_count \in 0 .. Len(runtime_map)
  /\ runtime_state = "mapping" => (map_count = 0 /\ runtime_entry < OutputCount)
  /\ mapped_mask \subseteq Eligible

MachineOK == MachineType /\ EntriesInv /\ RemapInv /\ base \in BaseMaps

LEMMA MachineSame ==
  ASSUME MachineOK, base' \in BaseMaps,
         UNCHANGED <<runtime_map, runtime_entry, map_count, mapped_mask, remapped>>,
         runtime_state' = runtime_state \/ (runtime_state = "autofire" /\ runtime_state' = "idle"),
         runtime_state' = "autofire" /\ ~switched' => ~switched /\ base' = base
  PROVE  MachineOK'
<1>1. MachineType'
  BY DEF MachineOK, MachineType
<1>2. EntriesInv'
  BY DEF MachineOK, EntriesInv
<1>3. RemapInv'
  <2>1. runtime_state' = "mapping" => runtime_state = "mapping"
    OBVIOUS
  <2> QED BY <2>1 DEF MachineOK, RemapInv, Assigned
<1> QED BY <1>1, <1>2, <1>3 DEF MachineOK

LEMMA EnterRapidFireStep ==
  ASSUME MachineOK, base' = base, NEW buttons, EnterRapidFire(buttons)
  PROVE  MachineOK'
<1>1. /\ runtime_state = "idle" /\ runtime_state' = "autofire"
      /\ mapped_mask' = mapped_mask /\ remapped' = remapped /\ Seed
  BY DEF EnterRapidFire
<1>2. /\ runtime_map \in Seq(Entry) /\ Len(runtime_map) \in Nat
      /\ runtime_entry \in 0 .. Len(runtime_map) /\ map_count \in 0 .. Len(runtime_map)
      /\ base \in BaseMaps /\ base \in Seq(Entry) /\ Len(base) \in 0 .. EntryMax
  BY LenProperties, BaseMap DEF MachineOK, MachineType
<1>3. CASE runtime_entry # 0 \/ base = <<>>
  <2>1. UNCHANGED <<runtime_map, runtime_entry, map_count>>
    BY <1>1, <1>3 DEF Seed
  <2>2. MachineType'
    BY <1>1, <2>1 DEF MachineOK, MachineType
  <2>3. EntriesInv'
    BY <1>1, <1>2, <1>3, <2>1 DEF MachineOK, EntriesInv
  <2>4. RemapInv'
    BY <1>1, <2>1 DEF MachineOK, RemapInv, Assigned
  <2> QED BY <1>2, <2>2, <2>3, <2>4 DEF MachineOK
<1>4. CASE runtime_entry = 0 /\ base # <<>>
  <2>1. runtime_map' = base /\ runtime_entry' = Len(base) /\ map_count' = Len(base) /\ Len(base) = 1
    BY <1>1, <1>2, <1>4, BaseMap DEF Seed
  <2>2. MachineType'
    BY <1>1, <1>2, <2>1, Constants DEF MachineOK, MachineType
  <2>3. EntriesInv'
    BY <1>1, <2>1 DEF EntriesInv
  <2>4. ~remapped
    BY <1>4, Constants DEF MachineOK, RemapInv
  <2>5. RemapInv'
    BY <1>1, <2>4 DEF RemapInv
  <2> QED BY <1>2, <2>2, <2>3, <2>5 DEF MachineOK
<1> QED BY <1>3, <1>4

LEMMA ClearStep ==
  ASSUME MachineOK, base' = base, NEW buttons, EnterRemap(buttons) \/ Cancel(buttons)
  PROVE  MachineOK'
<1>1. /\ runtime_map' = <<>> /\ runtime_entry' = 0 /\ map_count' = 0 /\ mapped_mask' = {}
      /\ runtime_state' \in {"idle", "mapping"} /\ ~remapped'
  BY DEF EnterRemap, Cancel, MachineOK, RemapInv
<1>2. MachineType'
  BY <1>1, Constants, EmptySeq DEF MachineType
<1>3. EntriesInv'
  BY <1>1 DEF EntriesInv
<1>4. RemapInv'
  BY <1>1, EmptySeq DEF RemapInv, Assigned
<1> QED BY <1>2, <1>3, <1>4 DEF MachineOK

\* An input pressed for the next output; the last one finishes the map.
LEMMA MapStep ==
  ASSUME MachineOK, base' = base, NEW buttons, MapPress(buttons)
  PROVE  MachineOK'
<1> DEFINE b == Lowest(buttons)
           n == runtime_entry
           map == Append(SubSeq(runtime_map, 1, n), Mapping(b, n + 1))
<1>1. /\ runtime_state = "mapping" /\ b \in Eligible /\ b \notin mapped_mask /\ map_entry(b)
  BY LowestPressed DEF MapPress, Pressed
<1>2. /\ runtime_map \in Seq(Entry) /\ n = Len(runtime_map) /\ n \in Nat /\ n < OutputCount
      /\ map_count = 0 /\ ~remapped /\ base \in BaseMaps
  BY <1>1, LenProperties DEF MachineOK, MachineType, RemapInv
<1> HIDE DEF b
<1>3. /\ map \in Seq(Entry) /\ Len(map) = n + 1
      /\ \A i \in 1 .. n : map[i] = runtime_map[i]
      /\ map[n + 1].input = b /\ map[n + 1].output = n + 1
  <2>1. n + 1 \in {0} \union Eligible
    BY <1>2, Constants DEF Eligible
  <2>2. Mapping(b, n + 1) \in Entry /\ Mapping(b, n + 1).input = b
        /\ Mapping(b, n + 1).output = n + 1
    BY <1>1, <2>1, MappingEntry
  <2>3. n \in 0 .. Len(runtime_map)
    BY <1>2
  <2> DEFINE cut == SubSeq(runtime_map, 1, n)
  <2>4. cut \in Seq(Entry) /\ Len(cut) = n /\ \A i \in 1 .. n : cut[i] = runtime_map[i]
    BY <1>2, <2>3, CutMap
  <2> HIDE DEF cut
  <2>5. /\ Append(cut, Mapping(b, n + 1)) \in Seq(Entry)
        /\ Len(Append(cut, Mapping(b, n + 1))) = n + 1
        /\ \A i \in 1 .. n : Append(cut, Mapping(b, n + 1))[i] = cut[i]
        /\ Append(cut, Mapping(b, n + 1))[n + 1] = Mapping(b, n + 1)
    BY <2>2, <2>4, AppendProperties
  <2> QED BY <2>2, <2>4, <2>5 DEF cut
<1>4. /\ runtime_entry' = n + 1 /\ mapped_mask' = mapped_mask \union {b}
      /\ IF n + 1 >= OutputCount
         THEN /\ runtime_map' = map \o Unmapped(map)
              /\ map_count' = Len(runtime_map')
              /\ runtime_state' = "idle" /\ remapped' = TRUE
         ELSE /\ runtime_map' = map
              /\ UNCHANGED <<map_count, runtime_state, remapped>>
  BY <1>1 DEF map_entry
<1> HIDE DEF map
<1>5. /\ \A i \in 1 .. n : runtime_map[i].output = i
      /\ \A i, j \in 1 .. n : runtime_map[i].input = runtime_map[j].input => i = j
      /\ mapped_mask = {runtime_map[i].input : i \in 1 .. n} /\ mapped_mask \subseteq Eligible
  BY <1>1, <1>2 DEF MachineOK, MachineType, RemapInv, Assigned
<1>6. /\ \A i \in 1 .. n + 1 : map[i].output = i
      /\ \A i, j \in 1 .. n + 1 : map[i].input = map[j].input => i = j
      /\ mapped_mask \union {b} = {map[i].input : i \in 1 .. n + 1}
  <2>1. \A i \in 1 .. n + 1 : i \in 1 .. n \/ i = n + 1
    BY <1>2
  <2>2. \A i \in 1 .. n : map[i].input # b
    BY <1>1, <1>3, <1>5
  <2>3. \A i \in 1 .. n + 1 : map[i].output = i
    BY <1>3, <1>5, <2>1
  <2>4. \A i, j \in 1 .. n + 1 : map[i].input = map[j].input => i = j
    BY <1>3, <1>5, <2>1, <2>2
  <2>5. \A i \in 1 .. n : i \in 1 .. n + 1
    BY <1>2
  <2>6. n + 1 \in 1 .. n + 1
    BY <1>2
  <2>7. mapped_mask \union {b} = {map[i].input : i \in 1 .. n + 1}
    BY <1>3, <1>5, <2>1, <2>5, <2>6
  <2> QED BY <2>3, <2>4, <2>7
<1>7. CASE n + 1 < OutputCount
  <2>1. /\ runtime_map' = map /\ map_count' = 0 /\ runtime_state' = "mapping" /\ ~remapped'
        /\ runtime_entry' = n + 1 /\ mapped_mask' = mapped_mask \union {b}
    BY <1>1, <1>2, <1>4, <1>7, Constants
  <2>2. MachineType'
    BY <1>1, <1>2, <1>3, <1>5, <1>7, <2>1, Constants DEF MachineType
  <2>3. EntriesInv'
    BY <1>2, <2>1 DEF EntriesInv
  <2>4. RemapInv'
    BY <1>3, <1>6, <2>1 DEF RemapInv, Assigned
  <2> QED BY <1>2, <2>2, <2>3, <2>4 DEF MachineOK
<1>8. CASE n + 1 >= OutputCount
  <2> DEFINE rest == Unmapped(map)
  <2>1. n + 1 = OutputCount
    BY <1>2, <1>8, Constants
  <2>2. /\ rest \in Seq(Entry) /\ Len(map) + Len(rest) = InputCount
        /\ \A i \in 1 .. Len(rest) :
             /\ rest[i].output = 0 /\ rest[i].rate = 0
             /\ \A j \in 1 .. Len(map) : rest[i].input # map[j].input
        /\ \A c \in Eligible : \/ \E i \in 1 .. Len(map) : map[i].input = c
                             \/ \E i \in 1 .. Len(rest) : rest[i].input = c
    BY <1>3, <1>6, UnmappedRest
  <2> HIDE DEF rest
  <2>3. /\ runtime_map' = map \o rest /\ map_count' = Len(runtime_map')
        /\ runtime_state' = "idle" /\ remapped' /\ runtime_entry' = OutputCount
        /\ mapped_mask' \subseteq Eligible
    BY <1>1, <1>4, <1>5, <1>8, <2>1 DEF rest
  <2>4. /\ runtime_map' \in Seq(Entry) /\ Len(runtime_map') = InputCount
        /\ \A i \in 1 .. InputCount : runtime_map'[i] = IF i <= OutputCount THEN map[i]
                                                      ELSE rest[i - OutputCount]
    BY <1>3, <2>1, <2>2, <2>3, ConcatProperties
  <2>5. \A i \in 1 .. OutputCount : i \in 1 .. InputCount /\ runtime_map'[i] = map[i]
    BY <2>4, Constants
  <2>6. /\ Len(rest) = InputCount - OutputCount
        /\ \A i \in OutputCount + 1 .. InputCount :
             /\ i - OutputCount \in 1 .. Len(rest)
             /\ runtime_map'[i] = rest[i - OutputCount]
    <3>1. Len(rest) \in Nat /\ Len(rest) = InputCount - OutputCount
      BY <1>3, <2>1, <2>2, LenProperties, Constants
    <3> QED BY <2>4, <3>1, Constants
  <2>7. MachineType'
    BY <2>3, <2>4, Constants DEF MachineType
  <2>8. EntriesInv'
    BY <2>2, <2>3, <2>4, <2>6, Constants DEF EntriesInv
  <2>9. \A c \in Eligible : \E i \in 1 .. InputCount : runtime_map'[i].input = c
    <3> TAKE c \in Eligible
    <3>1. CASE \E i \in 1 .. Len(map) : map[i].input = c
      BY <1>3, <2>1, <2>5, <3>1
    <3>2. ASSUME NEW i \in 1 .. Len(rest), rest[i].input = c
          PROVE  \E k \in 1 .. InputCount : runtime_map'[k].input = c
      <4>1. i + OutputCount \in OutputCount + 1 .. InputCount /\ i + OutputCount - OutputCount = i
            /\ i + OutputCount \in 1 .. InputCount
        BY <2>6, Constants
      <4> DEFINE k == i + OutputCount
      <4>2. k \in OutputCount + 1 .. InputCount /\ k - OutputCount = i
        <5>1. i \in Int /\ OutputCount \in Int
          BY Constants
        <5> QED BY <4>1, <5>1
      <4> HIDE DEF k
      <4>3. runtime_map'[k] = rest[k - OutputCount]
        BY <2>6, <4>2
      <4>4. runtime_map'[k] = rest[i]
        BY <4>2, <4>3, Zenon
      <4>5. k \in 1 .. InputCount
        BY <4>1 DEF k
      <4> QED BY <3>2, <4>4, <4>5, Zenon
    <3> QED BY <2>2, <3>1, <3>2
  <2>10. \A i \in OutputCount + 1 .. InputCount :
           /\ runtime_map'[i].output = 0
           /\ \A j \in 1 .. OutputCount : runtime_map'[i].input # runtime_map'[j].input
    BY <1>3, <2>1, <2>2, <2>5, <2>6
  <2>11. RemapInv'
    <3>1. \A i \in 1 .. OutputCount : runtime_map'[i].output = i
      BY <1>6, <2>1, <2>5
    <3>2. \A i, j \in 1 .. OutputCount : runtime_map'[i].input = runtime_map'[j].input => i = j
      BY <1>6, <2>1, <2>5
    <3>3. map_count' = InputCount /\ Len(runtime_map') = InputCount
      BY <2>3, <2>4
    <3>4. Assigned(OutputCount)'
      BY <3>1, <3>2 DEF Assigned
    <3>5. runtime_state' # "mapping"
      BY <2>3
    <3> QED BY <2>3, <2>9, <2>10, <3>3, <3>4, <3>5 DEF RemapInv
  <2> QED BY <1>2, <2>7, <2>8, <2>11 DEF MachineOK
<1> QED BY <1>2, <1>7, <1>8, Constants

\* A rate stepped in a map: nothing else is changed.
Stepped(map, at) == [map EXCEPT ![at].rate = (@ + 1) % (Rates + 1)]

LEMMA RateStep ==
  ASSUME NEW map \in Seq(Entry), NEW at \in 1 .. Len(map)
  PROVE  /\ Stepped(map, at) \in Seq(Entry) /\ Len(Stepped(map, at)) = Len(map)
         /\ \A i \in 1 .. Len(map) :
              /\ Stepped(map, at)[i].input = map[i].input
              /\ Stepped(map, at)[i].output = map[i].output
              /\ i # at => Stepped(map, at)[i] = map[i]
         /\ Stepped(map, at)[at].rate = (map[at].rate + 1) % (Rates + 1)
<1> DEFINE rate == (map[at].rate + 1) % (Rates + 1)
           step == Stepped(map, at)
<1>1. Len(map) \in Nat /\ DOMAIN map = 1 .. Len(map) /\ map \in [1 .. Len(map) -> Entry]
  BY LenProperties
<1>2. \A i \in 1 .. Len(map) : map[i] \in Entry
  BY ElementOfSeq
<1>3. rate \in 0 .. Rates
  <2>1. map[at].rate \in 0 .. Rates
    BY <1>2, EntryFields
  <2>2. map[at].rate + 1 \in Int /\ Rates + 1 \in Nat \ {0}
    BY <2>1, Constants
  <2> QED BY <2>2, Constants
<1>4. /\ DOMAIN step = 1 .. Len(map)
      /\ step[at] = [map[at] EXCEPT !.rate = rate]
      /\ \A i \in 1 .. Len(map) : i # at => step[i] = map[i]
  <2> HIDE DEF rate
  <2> QED BY <1>1 DEF Stepped, rate
<1> HIDE DEF rate, step
<1>5. /\ step[at] \in Entry /\ step[at].input = map[at].input
      /\ step[at].output = map[at].output /\ step[at].rate = rate
  BY <1>2, <1>3, <1>4 DEF Entry
<1>6. step = [i \in 1 .. Len(map) |-> step[i]]
  BY <1>1 DEF step, Stepped
<1>7. \A i \in 1 .. Len(map) : step[i] \in Entry
  BY <1>2, <1>4, <1>5
<1>8. step \in [1 .. Len(map) -> Entry]
  BY <1>6, <1>7
<1>9. step \in Seq(Entry) /\ Len(step) = Len(map)
  BY <1>1, <1>8, SeqDef, LenProperties
<1> QED BY <1>4, <1>5, <1>9 DEF step, rate

\* The first entry of a button.
First(map, b) == CHOOSE i \in DOMAIN map :
                   map[i].input = b /\ \A j \in 1 .. i - 1 : map[j].input # b

LEMMA FirstEntry ==
  ASSUME NEW map \in Seq(Entry), NEW b, NEW k \in 1 .. Len(map), map[k].input = b
  PROVE  /\ First(map, b) \in 1 .. k /\ map[First(map, b)].input = b
         /\ \A j \in 1 .. First(map, b) - 1 : map[j].input # b
<1>1. Len(map) \in Nat /\ DOMAIN map = 1 .. Len(map)
  BY LenProperties
<1> DEFINE entries == {i \in 1 .. Len(map) : map[i].input = b}
<1>2. PICK n \in entries : \A m \in entries : n <= m
  <2>1. entries \in SUBSET Nat /\ entries # {}
    BY <1>1
  <2> QED BY <2>1, LeastExists
<1>3. n \in DOMAIN map /\ map[n].input = b /\ \A j \in 1 .. n - 1 : map[j].input # b
  BY <1>1, <1>2
<1> DEFINE f == First(map, b)
<1>4. f \in DOMAIN map /\ map[f].input = b /\ \A j \in 1 .. f - 1 : map[j].input # b
  BY <1>3 DEF First
<1> HIDE DEF f
<1>5. ~(k < f)
  BY <1>1, <1>4
<1>6. f \in 1 .. k
  BY <1>1, <1>4, <1>5
<1> QED BY <1>4, <1>6 DEF f

\* What a tap does: nothing, a step of a counted entry, or a new entry at the end.
StepAt(b, at) ==
  /\ runtime_map[at].input = b /\ \A j \in 1 .. at - 1 : runtime_map[j].input # b
  /\ runtime_map'[at].rate = (runtime_map[at].rate + 1) % (Rates + 1)
  /\ runtime_map' \in Seq(Entry) /\ Len(runtime_map') = Len(runtime_map)
  /\ \A i \in 1 .. Len(runtime_map) :
       /\ runtime_map'[i].input = runtime_map[i].input
       /\ runtime_map'[i].output = runtime_map[i].output
       /\ i # at => runtime_map'[i] = runtime_map[i]
  /\ UNCHANGED <<runtime_entry, map_count>> /\ (remapped' <=> remapped)

NewEntry(b) ==
  /\ runtime_entry < EntryMax
  /\ runtime_entry' = runtime_entry + 1 /\ map_count' = runtime_entry + 1 /\ ~remapped'
  /\ \A i \in 1 .. runtime_entry : runtime_map[i].input # b
  /\ runtime_map' \in Seq(Entry) /\ Len(runtime_map') = runtime_entry + 1
  /\ \A i \in 1 .. runtime_entry : runtime_map'[i] = runtime_map[i]
  /\ runtime_map'[runtime_entry + 1].input = b
  /\ runtime_map'[runtime_entry + 1].output = b
  /\ runtime_map'[runtime_entry + 1].rate = (0 + 1) % (Rates + 1)

LEMMA CycleResult ==
  ASSUME MachineOK, NEW b \in Eligible, autofire_cycle(b)
  PROVE  \/ UNCHANGED <<runtime_map, runtime_entry, map_count, remapped>>
         \/ \E at \in 1 .. runtime_entry : StepAt(b, at)
         \/ NewEntry(b)
<1> DEFINE n == runtime_entry
           counted == SubSeq(runtime_map, 1, n)
           known == \E i \in DOMAIN counted : counted[i].input = b
           seeded == IF known THEN runtime_map ELSE Append(counted, Mapping(b, b))
           at == First(seeded, b)
<1>1. /\ runtime_map \in Seq(Entry) /\ Len(runtime_map) \in Nat /\ n \in 0 .. Len(runtime_map)
      /\ Len(runtime_map) <= EntryMax
  BY LenProperties DEF MachineOK, MachineType
<1>2. /\ counted \in Seq(Entry) /\ Len(counted) = n /\ DOMAIN counted = 1 .. n
      /\ \A i \in 1 .. n : counted[i] = runtime_map[i]
  BY <1>1, CutMap
<1>3. \/ /\ ~known /\ n >= EntryMax
         /\ UNCHANGED <<runtime_map, runtime_entry, map_count, indicating, remapped>>
      \/ /\ known \/ ~(n >= EntryMax)
         /\ runtime_map' = Stepped(seeded, at)
         /\ runtime_entry' = IF known THEN n ELSE n + 1
         /\ map_count' = IF known THEN map_count ELSE n + 1
         /\ remapped' = (remapped /\ known)
  BY DEF autofire_cycle, Stepped, First
<1> HIDE DEF at, seeded, known, counted
<1>4. CASE known /\ ~(~known /\ n >= EntryMax)
  <2>1. PICK k \in 1 .. n : runtime_map[k].input = b
    BY <1>2, <1>4 DEF known
  <2>2. seeded = runtime_map
    BY <1>4 DEF seeded
  <2>3. k \in 1 .. Len(runtime_map)
    BY <1>1
  <2>4. /\ at \in 1 .. k /\ runtime_map[at].input = b
        /\ \A j \in 1 .. at - 1 : runtime_map[j].input # b
    BY <1>1, <2>1, <2>2, <2>3, FirstEntry DEF at
  <2>5. at \in 1 .. n /\ at \in 1 .. Len(runtime_map)
    BY <1>1, <2>4
  <2>6. /\ runtime_map' = Stepped(runtime_map, at)
        /\ runtime_entry' = n /\ map_count' = map_count /\ (remapped' <=> remapped)
    BY <1>3, <1>4, <2>2
  <2>7. StepAt(b, at)
    BY <1>1, <2>4, <2>5, <2>6, RateStep DEF StepAt
  <2> QED BY <2>5, <2>7
<1>5. CASE ~known /\ ~(n >= EntryMax)
  <2> DEFINE new == Append(counted, Mapping(b, b))
  <2>1. /\ Mapping(b, b) \in Entry /\ Mapping(b, b).input = b /\ Mapping(b, b).output = b
        /\ Mapping(b, b).rate = 0
    BY MappingEntry
  <2>2. /\ new \in Seq(Entry) /\ Len(new) = n + 1
        /\ \A i \in 1 .. n : new[i] = counted[i]
        /\ new[n + 1] = Mapping(b, b)
    BY <1>2, <2>1, AppendProperties
  <2>3. \A i \in 1 .. n : runtime_map[i].input # b /\ new[i] = runtime_map[i]
    BY <1>2, <1>5, <2>2 DEF known
  <2>4. seeded = new
    BY <1>5 DEF seeded
  <2> HIDE DEF new
  <2>5. n + 1 \in 1 .. Len(new) /\ n \in Nat
    BY <1>1, <2>2
  <2>6. at \in 1 .. n + 1 /\ new[at].input = b
    BY <2>1, <2>2, <2>4, <2>5, FirstEntry DEF at
  <2>7. at = n + 1
    BY <2>3, <2>5, <2>6
  <2>8. /\ runtime_map' = Stepped(new, n + 1) /\ runtime_entry' = n + 1
        /\ map_count' = n + 1 /\ ~remapped'
    BY <1>3, <1>5, <2>4, <2>7, Zenon
  <2>9. /\ Stepped(new, n + 1) \in Seq(Entry) /\ Len(Stepped(new, n + 1)) = n + 1
        /\ \A i \in 1 .. n + 1 :
             /\ Stepped(new, n + 1)[i].input = new[i].input
             /\ Stepped(new, n + 1)[i].output = new[i].output
             /\ i # n + 1 => Stepped(new, n + 1)[i] = new[i]
        /\ Stepped(new, n + 1)[n + 1].rate = (new[n + 1].rate + 1) % (Rates + 1)
    BY <2>2, <2>5, RateStep
  <2>10. \A i \in 1 .. n : i \in 1 .. n + 1 /\ i # n + 1
    BY <2>5
  <2>11. n < EntryMax
    BY <1>1, <1>5, Constants
  <2>12. n + 1 \in 1 .. n + 1
    BY <2>5
  <2> QED BY <2>1, <2>2, <2>3, <2>8, <2>9, <2>10, <2>11, <2>12 DEF NewEntry
<1>6. CASE ~known /\ n >= EntryMax
  BY <1>3, <1>6
<1> QED BY <1>4, <1>5, <1>6

LEMMA CycleStep ==
  ASSUME MachineOK, base' = base, NEW buttons, Cycle(buttons), switched' = switched
  PROVE  MachineOK'
<1> DEFINE b == Lowest(buttons)
           n == runtime_entry
<1>1. /\ runtime_state = "autofire" /\ runtime_state' = "autofire" /\ mapped_mask' = mapped_mask
      /\ b \in Eligible /\ autofire_cycle(b)
  BY LowestPressed DEF Cycle, Pressed
<1> HIDE DEF b
<1>2. /\ runtime_map \in Seq(Entry) /\ Len(runtime_map) \in Nat
      /\ Len(runtime_map) <= EntryMax /\ n \in 0 .. Len(runtime_map)
      /\ map_count \in 0 .. Len(runtime_map) /\ n <= map_count
      /\ mapped_mask \subseteq Eligible /\ base \in BaseMaps
  BY <1>1, LenProperties DEF MachineOK, MachineType, EntriesInv
<1>3. CASE UNCHANGED <<runtime_map, runtime_entry, map_count, remapped>>
  BY <1>1, <1>2, <1>3, MachineSame
<1>4. ASSUME NEW at \in 1 .. n, StepAt(b, at)
      PROVE  MachineOK'
  <2>1. /\ runtime_map' \in Seq(Entry) /\ Len(runtime_map') = Len(runtime_map)
        /\ \A i \in 1 .. Len(runtime_map) :
             /\ runtime_map'[i].input = runtime_map[i].input
             /\ runtime_map'[i].output = runtime_map[i].output
             /\ i # at => runtime_map'[i] = runtime_map[i]
        /\ runtime_entry' = n /\ map_count' = map_count /\ (remapped' <=> remapped)
    BY <1>4 DEF StepAt
  <2>2. MachineType'
    BY <1>1, <1>2, <2>1 DEF MachineType
  <2>3. EntriesInv'
    <3>1. \A i \in n + 1 .. map_count : runtime_map[i].rate = 0
      BY DEF MachineOK, EntriesInv
    <3>2. \A i \in n + 1 .. map_count : i \in 1 .. Len(runtime_map) /\ i # at
      BY <1>2
    <3>3. \A i \in n + 1 .. map_count : runtime_map'[i].rate = 0
      BY <2>1, <3>1, <3>2
    <3> QED BY <1>1, <1>2, <2>1, <3>3 DEF EntriesInv, MachineOK
  <2>4. RemapInv'
    <3>1. \A k \in 1 .. Len(runtime_map) : k \in 1 .. Len(runtime_map')
      BY <2>1
    <3>2. CASE ~remapped
      BY <1>1, <2>1, <3>2 DEF RemapInv
    <3>3. CASE remapped
      <4>1. /\ n = OutputCount /\ map_count = Len(runtime_map)
            /\ \A i \in 1 .. OutputCount : runtime_map[i].output = i
            /\ \A i, j \in 1 .. OutputCount : runtime_map[i].input = runtime_map[j].input => i = j
            /\ \A c \in Eligible : \E i \in 1 .. map_count : runtime_map[i].input = c
            /\ \A i \in OutputCount + 1 .. map_count :
                 /\ runtime_map[i].output = 0
                 /\ \A j \in 1 .. OutputCount : runtime_map[i].input # runtime_map[j].input
        BY <3>3 DEF MachineOK, RemapInv, Assigned
      <4>2. /\ \A i \in 1 .. OutputCount : i \in 1 .. Len(runtime_map)
            /\ \A i \in OutputCount + 1 .. map_count : i \in 1 .. Len(runtime_map)
        BY <1>2, <4>1, Constants
      <4>3. Assigned(OutputCount)'
        BY <2>1, <4>1, <4>2 DEF Assigned
      <4>4. \A c \in Eligible : \E i \in 1 .. map_count : runtime_map'[i].input = c
        BY <2>1, <4>1
      <4>5. \A i \in OutputCount + 1 .. map_count :
              /\ runtime_map'[i].output = 0
              /\ \A j \in 1 .. OutputCount : runtime_map'[i].input # runtime_map'[j].input
        BY <2>1, <4>1, <4>2
      <4>6. map_count' = Len(runtime_map') /\ runtime_entry' = OutputCount
        BY <2>1, <4>1
      <4> QED BY <1>1, <2>1, <4>3, <4>4, <4>5, <4>6 DEF RemapInv
    <3> QED BY <3>2, <3>3
  <2> QED BY <1>2, <2>2, <2>3, <2>4 DEF MachineOK
<1>5. CASE NewEntry(b)
  <2>1. /\ n < EntryMax /\ runtime_entry' = n + 1 /\ map_count' = n + 1 /\ ~remapped'
        /\ runtime_map' \in Seq(Entry) /\ Len(runtime_map') = n + 1
    BY <1>5 DEF NewEntry
  <2>2. MachineType'
    BY <1>1, <1>2, <2>1, Constants DEF MachineType
  <2>3. EntriesInv'
    BY <1>1, <1>2, <2>1 DEF EntriesInv
  <2>4. RemapInv'
    BY <1>1, <2>1 DEF RemapInv
  <2> QED BY <1>2, <2>2, <2>3, <2>4 DEF MachineOK
<1>6. \/ UNCHANGED <<runtime_map, runtime_entry, map_count, remapped>>
      \/ \E at \in 1 .. n : StepAt(b, at)
      \/ NewEntry(b)
  BY <1>1, CycleResult
<1> QED BY <1>3, <1>4, <1>5, <1>6
-----------------------------------------------------------------------------
(* The types, the hold timer, and the invariant as a whole. *)

\* The variables beside the machine.
PadsType ==
  /\ prev_buttons \in Presses /\ combo_hold \in -1 .. HoldTime
  /\ indicating \in BOOLEAN
  /\ held \in [Pads -> Presses] /\ last \in Pads
  /\ age \in [Pads -> 0 .. HoldTime]
  /\ unseen \in BOOLEAN /\ remapped \in BOOLEAN /\ switched \in BOOLEAN
  /\ switches \in 0 .. MaxSwitches

LEMMA InvParts == RuntimeInv <=> MachineOK /\ PadsType /\ HoldInv
<1>1. RuntimeTypeOK <=> MachineType /\ PadsType /\ base \in BaseMaps
  BY Zenon DEF RuntimeTypeOK, MachineType, PadsType
<1> QED BY <1>1 DEF RuntimeInv, MachineOK

LEMMA InvPartsNext == RuntimeInv' <=> MachineOK' /\ PadsType' /\ HoldInv'
<1>1. RuntimeTypeOK' <=> MachineType' /\ PadsType' /\ (base \in BaseMaps)'
  BY Zenon DEF RuntimeTypeOK, MachineType, PadsType
<1> QED BY <1>1 DEF RuntimeInv, MachineOK

LEMMA RuntimeInitInv == RuntimeInit => RuntimeInv
<1> SUFFICES ASSUME RuntimeInit PROVE RuntimeInv
  OBVIOUS
<1>1. MachineOK
  BY Constants, EmptySeq DEF RuntimeInit, MachineOK, MachineType, EntriesInv, RemapInv
<1>2. PadsType
  <2>1. {} \in Presses
    BY BoundAssumption
  <2>2. -1 \in -1 .. HoldTime /\ 0 \in 0 .. HoldTime /\ 0 \in 0 .. MaxSwitches
    BY Constants, BoundAssumption
  <2> QED BY <2>1, <2>2 DEF RuntimeInit, PadsType
<1>3. HoldInv
  BY DEF RuntimeInit, HoldInv
<1> QED BY <1>1, <1>2, <1>3, InvParts

\* An event and the machine.
LEMMA EventMachine ==
  ASSUME MachineOK, PadsType, NEW p \in Pads, NEW buttons \in Presses, Event(p, buttons)
  PROVE  MachineOK'
<1>1. /\ check_combo(buttons) /\ base' = base /\ base \in BaseMaps
      /\ switched' = (switched /\ runtime_state' = "autofire")
  BY DEF Event, MachineOK
<1>2. runtime_state' = "autofire" /\ ~switched' => ~switched
  BY <1>1
<1>3. CASE Ignored \/ LetGo(buttons) \/ Hold(buttons) \/ MapNothing(buttons) \/ CycleNothing(buttons)
  <2>1. UNCHANGED machine /\ UNCHANGED remapped
    BY <1>3 DEF Ignored, LetGo, Hold, MapNothing, CycleNothing
  <2> QED BY <1>1, <1>2, <2>1, MachineSame DEF machine
<1>4. CASE ExitRapidFire(buttons)
  BY <1>1, <1>4, MachineSame DEF ExitRapidFire
<1>5. CASE EnterRapidFire(buttons)
  BY <1>1, <1>5, EnterRapidFireStep
<1>6. CASE EnterRemap(buttons) \/ Cancel(buttons)
  BY <1>1, <1>6, ClearStep
<1>7. CASE MapPress(buttons)
  BY <1>1, <1>7, MapStep
<1>8. CASE Cycle(buttons)
  <2>1. switched' = switched
    BY <1>1, <1>8 DEF Cycle, PadsType
  <2> QED BY <1>1, <1>8, <2>1, CycleStep
<1> QED BY <1>1, <1>3, <1>4, <1>5, <1>6, <1>7, <1>8 DEF check_combo

\* What the service makes of the hold timer, and that it looks at the buttons
\* whenever nothing is indicated.
LEMMA ComboStep ==
  ASSUME PadsType, HoldInv, NEW buttons, check_combo(buttons)
  PROVE  /\ \/ combo_hold' \in {-1, combo_hold}
            \/ combo_hold' = 0 /\ Combo(buttons)
         /\ runtime_state' # "idle" => combo_hold' = -1
         /\ ~indicating /\ combo_hold' # -1 => Combo(buttons)
         /\ indicating' \in BOOLEAN /\ remapped' \in BOOLEAN
<1>1. indicating \in BOOLEAN /\ remapped \in BOOLEAN /\ (runtime_state # "idle" => combo_hold = -1)
  BY DEF PadsType, HoldInv
<1>2. CASE Ignored
  BY <1>1, <1>2 DEF Ignored, machine
<1>3. CASE ~indicating /\ (LetGo(buttons) \/ Hold(buttons))
  BY <1>1, <1>3 DEF LetGo, Hold, machine
<1>4. CASE ~indicating /\ (EnterRapidFire(buttons) \/ EnterRemap(buttons))
  BY <1>1, <1>4 DEF EnterRapidFire, EnterRemap
<1>5. CASE ~indicating /\ (Cancel(buttons) \/ MapNothing(buttons) \/ CycleNothing(buttons)
                           \/ ExitRapidFire(buttons))
  BY <1>1, <1>5 DEF Cancel, MapNothing, CycleNothing, ExitRapidFire, machine
<1>6. CASE ~indicating /\ MapPress(buttons)
  <2>1. runtime_state = "mapping" /\ combo_hold' = combo_hold /\ map_entry(Lowest(buttons))
    BY <1>6 DEF MapPress
  <2>2. indicating' = TRUE /\ (remapped' = TRUE \/ remapped' = remapped)
    BY <2>1 DEF map_entry
  <2> QED BY <1>1, <2>1, <2>2
<1>7. CASE ~indicating /\ Cycle(buttons)
  <2>1. runtime_state = "autofire" /\ combo_hold' = combo_hold /\ autofire_cycle(Lowest(buttons))
    BY <1>7 DEF Cycle
  <2>2. indicating' \in BOOLEAN /\ remapped' \in BOOLEAN
    BY <1>1, <2>1 DEF autofire_cycle
  <2> QED BY <1>1, <2>1, <2>2
<1> QED BY <1>2, <1>3, <1>4, <1>5, <1>6, <1>7 DEF check_combo

LEMMA HoldsType ==
  ASSUME PadsType, NEW p \in Pads, NEW buttons \in Presses, NEW looked, Holds(p, buttons, looked)
  PROVE  /\ held' \in [Pads -> Presses] /\ age' \in [Pads -> 0 .. HoldTime] /\ unseen' \in BOOLEAN
         /\ held'[p] = buttons /\ \A q \in Pads \ {p} : held'[q] = held[q] /\ age'[q] = age[q]
         /\ age'[p] = IF Combo(held[p]) /\ Combo(buttons) THEN age[p] ELSE 0
<1>1. held \in [Pads -> Presses] /\ age \in [Pads -> 0 .. HoldTime] /\ 0 \in 0 .. HoldTime
  BY Constants DEF PadsType
<1>2. /\ held' = [held EXCEPT ![p] = buttons]
      /\ age' = [age EXCEPT ![p] = IF Combo(held[p]) /\ Combo(buttons) THEN @ ELSE 0]
      /\ unseen' = (combo_hold' # -1 /\ (unseen \/ (~looked /\ Combo(held[p]) /\ ~Combo(buttons))))
  BY DEF Holds
<1>3. unseen' \in BOOLEAN
  BY <1>2
<1>4. held' \in [Pads -> Presses] /\ held'[p] = buttons /\ \A q \in Pads \ {p} : held'[q] = held[q]
  BY <1>1, <1>2
<1>5. /\ age' \in [Pads -> 0 .. HoldTime] /\ \A q \in Pads \ {p} : age'[q] = age[q]
      /\ age'[p] = IF Combo(held[p]) /\ Combo(buttons) THEN age[p] ELSE 0
  BY <1>1, <1>2
<1> QED BY <1>3, <1>4, <1>5

LEMMA EventHold ==
  ASSUME PadsType, HoldInv, NEW p \in Pads, NEW buttons \in Presses, Event(p, buttons)
  PROVE  PadsType' /\ HoldInv'
<1>1. /\ check_combo(buttons) /\ prev_buttons' = buttons /\ last' = p
      /\ Holds(p, buttons, ~indicating) /\ switches' = switches
      /\ switched' = (switched /\ runtime_state' = "autofire")
  BY DEF Event
<1>2. /\ held' \in [Pads -> Presses] /\ age' \in [Pads -> 0 .. HoldTime] /\ unseen' \in BOOLEAN
      /\ held'[p] = buttons /\ \A q \in Pads \ {p} : held'[q] = held[q] /\ age'[q] = age[q]
      /\ age'[p] = IF Combo(held[p]) /\ Combo(buttons) THEN age[p] ELSE 0
  BY <1>1, HoldsType
<1>3. /\ \/ combo_hold' \in {-1, combo_hold}
         \/ combo_hold' = 0 /\ Combo(buttons)
      /\ runtime_state' # "idle" => combo_hold' = -1
      /\ ~indicating /\ combo_hold' # -1 => Combo(buttons)
      /\ indicating' \in BOOLEAN /\ remapped' \in BOOLEAN
  BY <1>1, ComboStep
<1>4. PadsType'
  <2>1. combo_hold' \in -1 .. HoldTime
    BY <1>3, Constants DEF PadsType
  <2>2. switched' \in BOOLEAN
    BY <1>1
  <2>3. switches' \in 0 .. MaxSwitches
    BY <1>1 DEF PadsType
  <2> QED BY <1>1, <1>2, <1>3, <2>1, <2>2, <2>3 DEF PadsType
<1>5. ASSUME combo_hold' # -1, ~unseen'
      PROVE  \E q \in Pads : Combo(held'[q]) /\ age'[q] >= combo_hold'
  <2>1. ~unseen /\ ~(indicating /\ Combo(held[p]) /\ ~Combo(buttons))
    BY <1>1, <1>5 DEF Holds
  <2>2. CASE combo_hold' = 0 /\ Combo(buttons)
    <3>1. age'[p] \in 0 .. HoldTime
      BY <1>2
    <3>2. age'[p] >= 0
      BY <3>1, Constants
    <3> QED BY <1>2, <2>2, <3>2
  <2>3. CASE combo_hold' = combo_hold
    <3>1. PICK q \in Pads : Combo(held[q]) /\ age[q] >= combo_hold
      BY <1>5, <2>1, <2>3 DEF HoldInv
    <3>2. CASE q # p
      BY <1>2, <2>3, <3>1, <3>2
    <3>3. CASE q = p
      <4>1. Combo(buttons)
        BY <1>3, <1>5, <2>1, <3>1, <3>3
      <4> QED BY <1>2, <2>3, <3>1, <3>3, <4>1
    <3> QED BY <3>2, <3>3
  <2> QED BY <1>3, <1>5, <2>2, <2>3
<1>6. held'[last'] \subseteq prev_buttons'
  BY <1>1, <1>2
<1>7. HoldInv'
  BY <1>3, <1>5, <1>6 DEF HoldInv, Combo
<1> QED BY <1>4, <1>7

LEMMA LeaveStep ==
  ASSUME RuntimeInv, NEW p \in Pads, Leave(p)
  PROVE  RuntimeInv'
<1>1. MachineOK /\ PadsType /\ HoldInv
  BY InvParts
<1>2. /\ UNCHANGED <<machine, prev_buttons, base, indicating, last, remapped, switched, switches>>
      /\ combo_hold' = combo_hold /\ Holds(p, {}, FALSE) /\ {} \in Presses /\ ~Combo({})
  BY BoundAssumption DEF Leave, Combo
<1>3. MachineOK'
  BY <1>1, <1>2, MachineSame DEF machine, MachineOK
<1>4. /\ held' \in [Pads -> Presses] /\ age' \in [Pads -> 0 .. HoldTime] /\ unseen' \in BOOLEAN
      /\ held'[p] = {} /\ \A q \in Pads \ {p} : held'[q] = held[q] /\ age'[q] = age[q]
  BY <1>1, <1>2, HoldsType
<1>5. PadsType'
  BY <1>1, <1>2, <1>4 DEF PadsType
<1>6. HoldInv'
  <2>1. ASSUME combo_hold' # -1, ~unseen'
        PROVE  \E q \in Pads : Combo(held'[q]) /\ age'[q] >= combo_hold'
    <3>1. ~unseen /\ ~Combo(held[p])
      BY <1>2, <2>1 DEF Holds
    <3>2. PICK q \in Pads : Combo(held[q]) /\ age[q] >= combo_hold
      BY <1>1, <1>2, <2>1, <3>1 DEF HoldInv
    <3> QED BY <1>2, <1>4, <3>1, <3>2
  <2>2. held'[last'] \subseteq prev_buttons'
    BY <1>1, <1>2, <1>4 DEF HoldInv, PadsType
  <2>3. runtime_state' # "idle" => combo_hold' = -1
    BY <1>1, <1>2 DEF HoldInv, machine
  <2> QED BY <2>1, <2>2, <2>3 DEF HoldInv, Combo
<1> QED BY <1>3, <1>5, <1>6, InvPartsNext

LEMMA TimeStep ==
  ASSUME RuntimeInv, TimePasses
  PROVE  RuntimeInv'
<1>1. MachineOK /\ PadsType /\ HoldInv
  BY InvParts
<1>2. /\ UNCHANGED <<machine, prev_buttons, base, indicating, held, last, unseen, remapped,
                     switched, switches>>
      /\ combo_hold' = (IF combo_hold = -1 THEN -1 ELSE LongerHeld(combo_hold))
      /\ age' = [q \in Pads |-> IF Combo(held[q]) THEN LongerHeld(age[q]) ELSE 0]
  BY DEF TimePasses
<1>3. MachineOK'
  BY <1>1, <1>2, MachineSame DEF machine, MachineOK
<1>4. \A t \in 0 .. HoldTime : LongerHeld(t) \in 0 .. HoldTime
  BY Constants DEF LongerHeld
<1>5. \A t, u \in 0 .. HoldTime : t <= u => LongerHeld(t) <= LongerHeld(u)
  BY Constants DEF LongerHeld
<1>6. /\ age \in [Pads -> 0 .. HoldTime] /\ combo_hold \in -1 .. HoldTime
      /\ (combo_hold # -1 => combo_hold \in 0 .. HoldTime)
  BY <1>1, Constants DEF PadsType
<1>7. PadsType'
  <2>1. combo_hold' \in -1 .. HoldTime
    <3>1. CASE combo_hold = -1
      BY <1>2, <3>1, Constants
    <3>2. CASE combo_hold # -1
      <4>1. combo_hold' \in 0 .. HoldTime
        BY <1>2, <1>4, <1>6, <3>2
      <4> QED BY <4>1, Constants
    <3> QED BY <3>1, <3>2
  <2>2. age' \in [Pads -> 0 .. HoldTime]
    <3>1. 0 \in 0 .. HoldTime
      BY Constants
    <3> QED BY <1>2, <1>4, <1>6, <3>1
  <2> QED BY <1>1, <1>2, <2>1, <2>2 DEF PadsType
<1>8. HoldInv'
  <2>1. ASSUME combo_hold' # -1, ~unseen'
        PROVE  \E q \in Pads : Combo(held'[q]) /\ age'[q] >= combo_hold'
    <3>1. combo_hold # -1 /\ ~unseen /\ combo_hold' = LongerHeld(combo_hold)
      BY <1>2, <2>1
    <3>2. PICK q \in Pads : Combo(held[q]) /\ age[q] >= combo_hold
      BY <1>1, <3>1 DEF HoldInv
    <3>3. age'[q] = LongerHeld(age[q]) /\ age[q] \in 0 .. HoldTime /\ combo_hold <= age[q]
      BY <1>2, <1>6, <3>2, Constants
    <3>4. LongerHeld(combo_hold) <= LongerHeld(age[q])
      BY <1>5, <1>6, <3>1, <3>3
    <3>5. age'[q] >= combo_hold'
      BY <3>1, <3>3, <3>4
    <3> QED BY <1>2, <3>2, <3>5
  <2>2. runtime_state' # "idle" => combo_hold' = -1
    BY <1>1, <1>2 DEF HoldInv, machine
  <2>3. held'[last'] \subseteq prev_buttons'
    BY <1>1, <1>2 DEF HoldInv
  <2> QED BY <2>1, <2>2, <2>3 DEF HoldInv, Combo
<1> QED BY <1>3, <1>7, <1>8, InvPartsNext

LEMMA RuntimeNextInv == RuntimeInv /\ [RuntimeNext]_runtimeVars => RuntimeInv'
<1> SUFFICES ASSUME RuntimeInv, [RuntimeNext]_runtimeVars
             PROVE  RuntimeInv'
  OBVIOUS
<1>1. MachineOK /\ PadsType /\ HoldInv
  BY InvParts
<1>2. ASSUME NEW p \in Pads, NEW buttons \in Presses, Event(p, buttons)
      PROVE  RuntimeInv'
  BY <1>1, <1>2, EventMachine, EventHold, InvPartsNext
<1>3. ASSUME NEW p \in Pads, Leave(p)
      PROVE  RuntimeInv'
  BY <1>3, LeaveStep
<1>4. CASE SwitchProfile \/ IndicationEnds \/ UNCHANGED runtimeVars
  <2>1. /\ UNCHANGED <<machine, combo_hold, prev_buttons, held, last, age, unseen, remapped>>
        /\ base' \in BaseMaps /\ indicating' \in BOOLEAN /\ switched' \in BOOLEAN
        /\ switches' \in 0 .. MaxSwitches
    <3>1. base \in BaseMaps /\ switched \in BOOLEAN /\ indicating \in BOOLEAN /\ switches \in 0 .. MaxSwitches
      BY <1>1 DEF PadsType, MachineOK
    <3>2. CASE SwitchProfile
      <4>1. switches' = switches + 1 /\ switches < MaxSwitches
        BY <3>2 DEF SwitchProfile
      <4>2. switches' \in 0 .. MaxSwitches
        BY <3>1, <4>1, BoundAssumption
      <4> QED BY <3>2, <4>2 DEF SwitchProfile
    <3>3. CASE IndicationEnds \/ UNCHANGED runtimeVars
      BY <3>1, <3>3 DEF IndicationEnds, runtimeVars
    <3> QED BY <1>4, <3>2, <3>3
  <2>2. runtime_state' = "autofire" /\ ~switched' => ~switched /\ base' = base
    BY <1>4 DEF SwitchProfile, IndicationEnds, runtimeVars, machine
  <2>3. MachineOK'
    BY <1>1, <2>1, <2>2, MachineSame DEF machine
  <2>4. PadsType'
    BY <1>1, <2>1 DEF PadsType
  <2>5. HoldInv'
    BY <1>1, <2>1 DEF HoldInv, machine, Combo
  <2> QED BY <2>3, <2>4, <2>5, InvPartsNext
<1>5. CASE TimePasses
  BY <1>5, TimeStep
<1> QED BY <1>2, <1>3, <1>4, <1>5 DEF RuntimeNext

LEMMA RuntimeInvariant == RuntimeSpec => []RuntimeInv
<1>1. RuntimeInit => RuntimeInv
  BY RuntimeInitInv
<1>2. RuntimeInv /\ [RuntimeNext]_runtimeVars => RuntimeInv'
  BY RuntimeNextInv
<1> QED BY <1>1, <1>2, PTL DEF RuntimeSpec
-----------------------------------------------------------------------------
(* Completed maps. *)

LEMMA AtMostOne == ASSUME NEW S, \A x, y \in S : x = y
                   PROVE  Cardinality(S) <= 1
<1>1. CASE S = {}
  BY <1>1, FS_EmptySet
<1>2. ASSUME NEW x \in S
      PROVE  Cardinality(S) <= 1
  <2>1. S = {x}
    OBVIOUS
  <2>2. Cardinality({x}) = 1
    BY FS_Singleton
  <2> QED BY <2>1, <2>2
<1> QED BY <1>1, <1>2

LEMMA RemapComplete == MachineOK => CompletedRemap
<1> SUFFICES ASSUME MachineOK, remapped PROVE CompletedRemap
  BY DEF CompletedRemap
<1>1. /\ runtime_map \in Seq(Entry) /\ Len(runtime_map) \in Nat /\ map_count = Len(runtime_map)
      /\ map_count > 0 /\ OutputCount <= map_count
      /\ \A i \in 1 .. OutputCount : runtime_map[i].output = i
      /\ \A i, j \in 1 .. OutputCount : runtime_map[i].input = runtime_map[j].input => i = j
      /\ \A b \in Eligible : \E i \in 1 .. map_count : runtime_map[i].input = b
      /\ \A i \in OutputCount + 1 .. map_count : runtime_map[i].output = 0
  BY LenProperties, Constants DEF MachineOK, MachineType, RemapInv, Assigned
<1>2. /\ DOMAIN InForce = 1 .. map_count
      /\ \A i \in 1 .. map_count : InForce[i] = runtime_map[i] /\ runtime_map[i] \in Entry
  <2>1. map_count \in 0 .. Len(runtime_map)
    BY <1>1
  <2> QED BY <1>1, <2>1, CutMap DEF InForce
<1>3. \A i \in 1 .. map_count : i \in 1 .. OutputCount \/ runtime_map[i].output = 0
  BY <1>1, Constants
<1>4. \A i \in 1 .. OutputCount : i \in 1 .. map_count /\ runtime_map[i].output # 0
  BY <1>1, Constants
<1>5. ASSUME NEW b \in Eligible
      PROVE  Outputs(b) = {i \in 1 .. OutputCount : runtime_map[i].input = b}
  <2>1. Outputs(b) = {InForce[i].output : i \in {i \in DOMAIN InForce : InForce[i].input = b}} \ {0}
    BY <1>1, <1>2, InTheMap DEF OutputsIn
  <2>2. ASSUME NEW x \in Outputs(b)
        PROVE  x \in {i \in 1 .. OutputCount : runtime_map[i].input = b}
    <3>1. PICK i \in DOMAIN InForce : InForce[i].input = b /\ x = InForce[i].output /\ x # 0
      BY <2>1
    <3>2. i \in 1 .. OutputCount /\ runtime_map[i].input = b /\ x = runtime_map[i].output
      BY <1>2, <1>3, <3>1
    <3> QED BY <1>1, <3>2
  <2>3. ASSUME NEW x \in 1 .. OutputCount, runtime_map[x].input = b
        PROVE  x \in Outputs(b)
    <3>1. x \in DOMAIN InForce /\ InForce[x].input = b /\ InForce[x].output = x /\ x # 0
      BY <1>1, <1>2, <1>4, <2>3
    <3> QED BY <2>1, <3>1
  <2> QED BY <2>2, <2>3
<1>6. \A out \in 1 .. OutputCount : \E b \in Eligible : \A c \in Eligible : out \in Outputs(c) <=> c = b
  <2> TAKE out \in 1 .. OutputCount
  <2>1. runtime_map[out].input \in Eligible
    BY <1>2, <1>4, EntryFields
  <2>2. \A c \in Eligible : out \in Outputs(c) <=> c = runtime_map[out].input
    BY <1>5
  <2> QED BY <2>1, <2>2
<1>7. \A b \in Eligible : Cardinality(Outputs(b)) <= 1
  <2> TAKE b \in Eligible
  <2>1. \A x, y \in Outputs(b) : x = y
    BY <1>1, <1>5
  <2> QED BY <2>1, AtMostOne
<1>8. \A b \in Eligible : Outputs(b) \subseteq 1 .. OutputCount
  BY <1>5
<1> QED BY <1>6, <1>7, <1>8 DEF CompletedRemap

\* Entries are counted within the array, and after a completed remap every output
\* has exactly one input and every other input none, whatever buttons and outputs
\* there are (runtime_profile.c, map_entry and finish_mapping).
THEOREM RemapGivesEveryOutput == RuntimeSpec => []MapOK
<1>1. RuntimeInv => MapOK
  BY InvParts, RemapComplete DEF RuntimeInv, MapOK
<1> QED BY <1>1, RuntimeInvariant, PTL
-----------------------------------------------------------------------------
(* What a step does to the outputs. *)

\* Every step but a change of the map leaves what is in force alone.
LEMMA ForceSame == ASSUME UNCHANGED <<runtime_map, map_count>>, base' = base
                   PROVE  InForce' = InForce
BY DEF InForce

LEMMA ForceWithMap ==
  ASSUME MachineOK, map_count > 0 \/ base = <<>>
  PROVE  /\ DOMAIN InForce = 1 .. map_count
         /\ \A i \in 1 .. map_count : InForce[i] = runtime_map[i]
<1>1. runtime_map \in Seq(Entry) /\ map_count \in 0 .. Len(runtime_map) /\ Len(runtime_map) \in Nat
  BY LenProperties DEF MachineOK, MachineType
<1>2. CASE map_count > 0
  BY <1>1, <1>2, CutMap DEF InForce
<1>3. CASE ~(map_count > 0) /\ base = <<>>
  <2>1. map_count = 0 /\ InForce = <<>> /\ DOMAIN <<>> = {} /\ 1 .. 0 = {}
    BY <1>1, <1>3 DEF InForce
  <2> QED BY <2>1
<1> QED BY <1>2, <1>3

\* The kinds of steps, as far as the map in force is concerned.
LEMMA StepKinds ==
  ASSUME RuntimeInv, [RuntimeNext]_runtimeVars, base' = base
  PROVE  \/ UNCHANGED <<runtime_map, map_count>>
         \/ runtime_state # "autofire" /\ "mapping" \in {runtime_state, runtime_state'}
         \/ /\ runtime_state = "idle" /\ runtime_entry = 0 /\ base # <<>>
            /\ runtime_map' = base /\ map_count' = Len(base)
         \/ \E p \in Pads, buttons \in Presses :
              Event(p, buttons) /\ Cycle(buttons)
<1>1. ASSUME NEW p \in Pads, NEW buttons \in Presses, Event(p, buttons),
             ~Cycle(buttons)
      PROVE  \/ UNCHANGED <<runtime_map, map_count>>
             \/ runtime_state # "autofire" /\ "mapping" \in {runtime_state, runtime_state'}
             \/ /\ runtime_state = "idle" /\ runtime_entry = 0 /\ base # <<>>
                /\ runtime_map' = base /\ map_count' = Len(base)
  <2>1. check_combo(buttons)
    BY <1>1 DEF Event
  <2>2. CASE Ignored \/ LetGo(buttons) \/ Hold(buttons) \/ MapNothing(buttons)
             \/ CycleNothing(buttons) \/ ExitRapidFire(buttons)
    BY <2>2 DEF Ignored, LetGo, Hold, MapNothing, CycleNothing, ExitRapidFire, machine
  <2>3. CASE EnterRemap(buttons) \/ Cancel(buttons) \/ MapPress(buttons)
    BY <2>3 DEF EnterRemap, Cancel, MapPress
  <2>4. CASE EnterRapidFire(buttons)
    BY <2>4 DEF EnterRapidFire, Seed
  <2> QED BY <1>1, <2>1, <2>2, <2>3, <2>4 DEF check_combo
<1>2. CASE (\E p \in Pads : Leave(p)) \/ IndicationEnds \/ TimePasses \/ UNCHANGED runtimeVars
  BY <1>2 DEF Leave, IndicationEnds, TimePasses, runtimeVars, machine
<1>3. CASE SwitchProfile
  BY <1>3 DEF SwitchProfile
<1> QED BY <1>1, <1>2, <1>3 DEF RuntimeNext

\* A tap of a button in rapid-fire set, and the map it makes.
LEMMA TapKinds ==
  ASSUME MachineOK, NEW buttons, Cycle(buttons)
  PROVE  /\ Lowest(buttons) \in Eligible \ prev_buttons
         /\ runtime_state = "autofire" /\ runtime_state' = "autofire"
         /\ runtime_map \in Seq(Entry) /\ Len(runtime_map) \in Nat
         /\ runtime_entry \in 0 .. map_count /\ map_count \in 0 .. Len(runtime_map)
         /\ \/ UNCHANGED <<runtime_map, runtime_entry, map_count, remapped>>
            \/ \E at \in 1 .. runtime_entry : StepAt(Lowest(buttons), at)
            \/ NewEntry(Lowest(buttons))
<1>1. /\ runtime_state = "autofire" /\ runtime_state' = "autofire" /\ Pressed(buttons)
      /\ autofire_cycle(Lowest(buttons))
  BY DEF Cycle
<1>2. Lowest(buttons) \in Eligible \ prev_buttons
  BY <1>1, LowestPressed DEF Pressed
<1>3. /\ runtime_map \in Seq(Entry) /\ Len(runtime_map) \in Nat
      /\ runtime_entry \in 0 .. map_count /\ map_count \in 0 .. Len(runtime_map)
  BY <1>1, LenProperties DEF MachineOK, MachineType, EntriesInv
<1> QED BY <1>1, <1>2, <1>3, CycleResult

\* A step of an entry leaves the outputs.
LEMMA StepAtForce ==
  ASSUME MachineOK, runtime_state = "autofire", NEW tapped \in Eligible,
         NEW at \in 1 .. runtime_entry, StepAt(tapped, at), NEW b \in Eligible
  PROVE  Outputs(b)' = Outputs(b)
<1>1. /\ runtime_map \in Seq(Entry) /\ Len(runtime_map) \in Nat
      /\ runtime_entry \in 0 .. map_count /\ map_count \in 0 .. Len(runtime_map)
  BY LenProperties DEF MachineOK, MachineType, EntriesInv
<1>2. /\ runtime_map' \in Seq(Entry) /\ Len(runtime_map') = Len(runtime_map)
      /\ \A i \in 1 .. Len(runtime_map) :
           /\ runtime_map'[i].input = runtime_map[i].input
           /\ runtime_map'[i].output = runtime_map[i].output
           /\ i # at => runtime_map'[i] = runtime_map[i]
      /\ map_count' = map_count /\ runtime_map[at].input = tapped
  BY DEF StepAt
<1>3. map_count > 0 /\ map_count \in 0 .. Len(runtime_map')
  BY <1>1, <1>2
<1> DEFINE cut == SubSeq(runtime_map, 1, map_count)
           cutNext == SubSeq(runtime_map', 1, map_count)
<1>4. InForce = cut /\ InForce' = cutNext
  BY <1>2, <1>3 DEF InForce
<1>5. /\ DOMAIN cut = 1 .. map_count /\ DOMAIN cutNext = 1 .. map_count
      /\ \A i \in 1 .. map_count : cut[i] = runtime_map[i] /\ cutNext[i] = runtime_map'[i]
  BY <1>1, <1>2, <1>3, CutMap
<1>6. \A i \in 1 .. map_count :
        /\ i \in 1 .. Len(runtime_map)
        /\ cutNext[i].input = cut[i].input /\ cutNext[i].output = cut[i].output
        /\ i # at => cutNext[i] = cut[i]
  BY <1>1, <1>2, <1>5
<1>7. OutputsIn(cutNext, b) = OutputsIn(cut, b)
  <2>1. \A i \in DOMAIN cut : cut[i].input = b =>
          i \in DOMAIN cutNext /\ cutNext[i].input = b /\ cutNext[i].output = cut[i].output
    <3> TAKE i \in DOMAIN cut
    <3>1. i \in 1 .. map_count /\ i \in DOMAIN cutNext
      BY <1>5
    <3> QED BY <1>6, <3>1
  <2>2. \A i \in DOMAIN cutNext : cutNext[i].input = b => i \in DOMAIN cut /\ cut[i].input = b
    <3> TAKE i \in DOMAIN cutNext
    <3>1. i \in 1 .. map_count /\ i \in DOMAIN cut
      BY <1>5
    <3> QED BY <1>6, <3>1
  <2> QED BY <2>1, <2>2, SameForButton
<1>8. Outputs(b) = OutputsIn(cut, b) /\ Outputs(b)' = OutputsIn(cutNext, b)
  BY <1>4, InTheMap
<1> QED BY <1>7, <1>8

\* A new entry at the end of the counted ones.
LEMMA NewEntryForce ==
  ASSUME MachineOK, runtime_state = "autofire", NEW tapped \in Eligible, NewEntry(tapped)
  PROVE  /\ DOMAIN InForce' = 1 .. runtime_entry + 1 /\ runtime_entry \in Nat
         /\ \A i \in 1 .. runtime_entry : InForce'[i] = runtime_map[i]
         /\ InForce'[runtime_entry + 1].input = tapped
         /\ InForce'[runtime_entry + 1].output = tapped
         /\ \A i \in 1 .. runtime_entry : runtime_map[i].input # tapped
<1> DEFINE n == runtime_entry
<1>1. n \in Nat
  BY LenProperties DEF MachineOK, MachineType
<1>2. /\ map_count' = n + 1 /\ \A i \in 1 .. n : runtime_map[i].input # tapped
      /\ runtime_map' \in Seq(Entry) /\ Len(runtime_map') = n + 1
      /\ \A i \in 1 .. n : runtime_map'[i] = runtime_map[i]
      /\ runtime_map'[n + 1].input = tapped /\ runtime_map'[n + 1].output = tapped
  BY DEF NewEntry
<1>3. n + 1 \in 0 .. Len(runtime_map') /\ n + 1 > 0
  BY <1>1, <1>2
<1>4. InForce' = SubSeq(runtime_map', 1, n + 1)
  BY <1>2, <1>3 DEF InForce
<1>5. /\ DOMAIN InForce' = 1 .. n + 1
      /\ \A i \in 1 .. n + 1 : InForce'[i] = runtime_map'[i]
  BY <1>2, <1>3, <1>4, CutMap
<1>6. n + 1 \in 1 .. n + 1 /\ \A i \in 1 .. n : i \in 1 .. n + 1
  BY <1>1
<1> QED BY <1>1, <1>2, <1>5, <1>6
-----------------------------------------------------------------------------
(* Rapid fire keeps the map. *)

LEMMA NoEntry == ASSUME NEW map, NEW b, \A i \in DOMAIN map : map[i].input # b
                 PROVE  OutputsIn(map, b) = {b}
BY DEF OutputsIn

LEMMA NewEntryOutputs ==
  ASSUME MachineOK, runtime_state = "autofire", map_count > 0 \/ base = <<>>,
         NEW tapped \in Eligible, NewEntry(tapped), NEW b \in Eligible \ Disabled
  PROVE  Outputs(b)' = Outputs(b)
<1> DEFINE n == runtime_entry
<1>1. /\ DOMAIN InForce' = 1 .. n + 1 /\ n \in Nat
      /\ \A i \in 1 .. n : InForce'[i] = runtime_map[i] /\ runtime_map[i].input # tapped
      /\ InForce'[n + 1].input = tapped /\ InForce'[n + 1].output = tapped
  BY NewEntryForce
<1>2. /\ DOMAIN InForce = 1 .. map_count
      /\ \A i \in 1 .. map_count : InForce[i] = runtime_map[i]
  BY ForceWithMap
<1>3. n \in 0 .. map_count /\ map_count \in Nat
  BY LenProperties DEF MachineOK, MachineType, EntriesInv
<1>4. \A i \in 1 .. map_count : i \in 1 .. n \/ runtime_map[i].input # b
  <2>1. \A i \in n + 1 .. map_count : runtime_map[i].input # b
    BY DEF Disabled
  <2> QED BY <1>3, <2>1
<1>5. Outputs(b) = OutputsIn(InForce, b) /\ Outputs(b)' = OutputsIn(InForce', b)
  BY InTheMap
<1>6. \A i \in 1 .. n + 1 : i \in 1 .. n \/ i = n + 1
  BY <1>3
<1>7. CASE b = tapped
  <2>1. \A i \in DOMAIN InForce : InForce[i].input # b
    BY <1>1, <1>2, <1>4, <1>7
  <2>2. Outputs(b) = {b}
    BY <1>5, <2>1, NoEntry
  <2>3. {i \in DOMAIN InForce' : InForce'[i].input = b} = {n + 1}
    BY <1>1, <1>3, <1>6, <1>7
  <2>4. OutputsIn(InForce', b) = {b} \ {0}
    BY <1>1, <1>7, <2>3 DEF OutputsIn
  <2>5. b # 0
    BY Constants DEF Eligible
  <2> QED BY <1>5, <2>2, <2>4, <2>5
<1>8. CASE b # tapped
  <2>1. \A i \in DOMAIN InForce : InForce[i].input = b =>
          i \in DOMAIN InForce' /\ InForce'[i].input = b /\ InForce'[i].output = InForce[i].output
    <3> SUFFICES ASSUME NEW i \in DOMAIN InForce, InForce[i].input = b
                 PROVE  i \in DOMAIN InForce' /\ InForce'[i] = InForce[i]
      OBVIOUS
    <3>1. i \in 1 .. n /\ InForce[i] = runtime_map[i]
      BY <1>2, <1>4
    <3>2. i \in 1 .. n + 1
      BY <1>3, <3>1
    <3> QED BY <1>1, <3>1, <3>2
  <2>2. \A i \in DOMAIN InForce' : InForce'[i].input = b => i \in DOMAIN InForce /\ InForce[i].input = b
    <3> SUFFICES ASSUME NEW i \in DOMAIN InForce', InForce'[i].input = b
                 PROVE  i \in DOMAIN InForce /\ InForce[i].input = b
      OBVIOUS
    <3>1. i \in 1 .. n
      BY <1>1, <1>6, <1>8
    <3>2. i \in 1 .. map_count
      BY <1>3, <3>1
    <3> QED BY <1>1, <1>2, <3>1, <3>2
  <2> QED BY <1>5, <2>1, <2>2, SameForButton
<1> QED BY <1>7, <1>8

\* Entering rapid-fire set, tapping and leaving change no button's output, but for
\* the inputs a remap has disabled and unless the profile is switched meanwhile
\* (autofire_seed_once and autofire_cycle against docs/core/runtime_profile.md:41).
THEOREM RapidFireOverlays == RuntimeSpec => RapidFireKeepsMap
<1>1. ASSUME RuntimeInv, [RuntimeNext]_runtimeVars, base' = base, ~switched,
             "mapping" \notin {runtime_state, runtime_state'}, NEW b \in Eligible \ Disabled
      PROVE  Outputs(b)' = Outputs(b)
  <2>1. MachineOK
    BY <1>1, InvParts
  <2>2. CASE UNCHANGED <<runtime_map, map_count>>
    <3>1. InForce' = InForce
      BY <1>1, <2>2, ForceSame
    <3> QED BY <3>1, InTheMap
  <2>3. CASE /\ runtime_state = "idle" /\ runtime_entry = 0 /\ base # <<>>
             /\ runtime_map' = base /\ map_count' = Len(base)
    <3>1. InForce = base
      <4>1. map_count = 0
        BY <2>1, <2>3 DEF MachineOK, EntriesInv
      <4> QED BY <4>1 DEF InForce
    <3>2. base \in Seq(Entry) /\ Len(base) = 1 /\ DOMAIN base = 1 .. 1
      BY <2>1, <2>3, BaseMap, LenProperties DEF MachineOK
    <3>3. InForce' = SubSeq(base, 1, 1) /\ 1 \in 0 .. Len(base)
      BY <2>3, <3>2 DEF InForce
    <3>4. DOMAIN InForce' = 1 .. 1 /\ \A i \in 1 .. 1 : InForce'[i] = base[i]
      BY <3>2, <3>3, CutMap
    <3>5. OutputsIn(InForce', b) = OutputsIn(base, b)
      BY <3>2, <3>4, SameForButton
    <3> QED BY <3>1, <3>5, InTheMap
  <2>4. ASSUME NEW p \in Pads, NEW buttons \in Presses, Event(p, buttons), Cycle(buttons)
        PROVE  Outputs(b)' = Outputs(b)
    <3> DEFINE tapped == Lowest(buttons)
    <3>1. /\ tapped \in Eligible /\ runtime_state = "autofire"
          /\ \/ UNCHANGED <<runtime_map, runtime_entry, map_count, remapped>>
             \/ \E at \in 1 .. runtime_entry : StepAt(tapped, at)
             \/ NewEntry(tapped)
      BY <2>1, <2>4, TapKinds
    <3> HIDE DEF tapped
    <3>2. map_count > 0 \/ base = <<>>
      BY <1>1, <2>1, <3>1 DEF MachineOK, EntriesInv
    <3>3. CASE \E at \in 1 .. runtime_entry : StepAt(tapped, at)
      BY <1>1, <2>1, <3>1, <3>3, StepAtForce
    <3>4. CASE NewEntry(tapped)
      BY <1>1, <2>1, <3>1, <3>2, <3>4, NewEntryOutputs
    <3> QED BY <2>2, <3>1, <3>3, <3>4
  <2> QED BY <1>1, <2>2, <2>3, <2>4, StepKinds
<1>2. RuntimeInv /\ [RuntimeNext]_runtimeVars =>
        [base' = base /\ ~switched /\ "mapping" \notin {runtime_state, runtime_state'} =>
           \A b \in Eligible \ Disabled : Outputs(b)' = Outputs(b)]_runtimeVars
  BY <1>1
<1> QED BY <1>2, RuntimeInvariant, PTL DEF RuntimeSpec, RapidFireKeepsMap
-----------------------------------------------------------------------------
(* Nothing happens that nobody pressed for. *)

\* The rate of a button's first counted entry.
CountedEntries(b) == {i \in 1 .. runtime_entry : runtime_map[i].input = b}
CountedRate(b) == IF CountedEntries(b) = {} THEN 0 ELSE runtime_map[Min(CountedEntries(b))].rate

LEMMA MinIs == ASSUME NEW S \in SUBSET Nat, NEW n \in S, \A m \in S : n <= m
               PROVE  Min(S) = n
<1>1. \A x \in S : (\A y \in S : x <= y) => x = n
  OBVIOUS
<1> QED BY <1>1 DEF Min

\* In rapid-fire set it is the rate in force: the entries that are not counted have none.
LEMMA RateCounted ==
  MachineOK /\ runtime_state = "autofire" => \A b \in Eligible : Rate(b) = CountedRate(b)
<1> SUFFICES ASSUME MachineOK, runtime_state = "autofire", NEW b \in Eligible
             PROVE  Rate(b) = CountedRate(b)
  OBVIOUS
<1> DEFINE n == runtime_entry
           entries == EntriesOf(InForce, b)
<1>1. n \in 0 .. map_count /\ map_count \in Nat
  BY LenProperties DEF MachineOK, MachineType, EntriesInv
<1>2. Rate(b) = IF entries = {} THEN 0 ELSE InForce[Min(entries)].rate
  BY DEF Rate
<1>3. CASE map_count > 0
  <2>1. /\ DOMAIN InForce = 1 .. map_count
        /\ \A i \in 1 .. map_count : InForce[i] = runtime_map[i]
    BY <1>3, ForceWithMap
  <2>2. entries = {i \in 1 .. map_count : runtime_map[i].input = b}
    BY <2>1 DEF EntriesOf
  <2>3. CountedEntries(b) \subseteq entries /\ entries \in SUBSET Nat
    BY <1>1, <2>2 DEF CountedEntries
  <2>4. \A i \in entries \ CountedEntries(b) : i \in n + 1 .. map_count
    BY <1>1, <2>2 DEF CountedEntries
  <2> HIDE DEF entries
  <2>5. ASSUME NEW m \in CountedEntries(b), \A i \in CountedEntries(b) : m <= i
        PROVE  Rate(b) = CountedRate(b)
    <3>1. Min(CountedEntries(b)) = m
      BY <2>3, <2>5, MinIs
    <3>2. m \in 1 .. n
      BY DEF CountedEntries
    <3>3. \A i \in entries : m <= i
      <4> TAKE i \in entries
      <4>1. CASE i \in CountedEntries(b)
        BY <2>5, <4>1
      <4>2. CASE i \notin CountedEntries(b)
        <5>1. i \in n + 1 .. map_count
          BY <2>4, <4>2
        <5>2. n \in Nat /\ n + 1 <= i
          BY <1>1, <5>1
        <5>3. m \in Int /\ m <= n
          BY <1>1, <3>2
        <5>4. i \in Int
          BY <1>1, <5>1
        <5> QED BY <5>2, <5>3, <5>4
      <4> QED BY <4>1, <4>2
    <3>4. m \in entries
      BY <2>3
    <3>5. Min(entries) = m
      BY <2>3, <3>3, <3>4, MinIs
    <3>6. InForce[m] = runtime_map[m]
      BY <1>1, <2>1, <3>2
    <3> QED BY <1>2, <3>1, <3>4, <3>5, <3>6 DEF CountedRate
  <2>6. ASSUME CountedEntries(b) = {}, NEW m \in entries, \A i \in entries : m <= i
        PROVE  Rate(b) = CountedRate(b)
    <3>1. Min(entries) = m
      BY <2>3, <2>6, MinIs
    <3>2. m \in n + 1 .. map_count /\ m \in 1 .. map_count
      BY <1>1, <2>4, <2>6
    <3>3. InForce[m].rate = 0
      BY <2>1, <3>2 DEF MachineOK, EntriesInv
    <3> QED BY <1>2, <2>6, <3>1, <3>3 DEF CountedRate
  <2>7. CASE CountedEntries(b) # {}
    <3>1. CountedEntries(b) \in SUBSET Nat
      BY <2>3
    <3>2. \E m \in CountedEntries(b) : \A i \in CountedEntries(b) : m <= i
      BY <2>7, <3>1, LeastExists
    <3> QED BY <2>5, <3>2
  <2>8. CASE CountedEntries(b) = {} /\ entries # {}
    <3>1. \E m \in entries : \A i \in entries : m <= i
      BY <2>3, <2>8, LeastExists
    <3> QED BY <2>6, <2>8, <3>1
  <2>9. CASE CountedEntries(b) = {} /\ entries = {}
    BY <1>2, <2>9 DEF CountedRate
  <2> QED BY <2>7, <2>8, <2>9
<1>4. CASE ~(map_count > 0)
  <2>1. n = 0 /\ InForce = base /\ base \in BaseMaps
    BY <1>1, <1>4 DEF InForce, MachineOK
  <2>2. CountedEntries(b) = {}
    BY <2>1 DEF CountedEntries
  <2>3. base \in Seq(Entry) /\ \A i \in 1 .. Len(base) : base[i].rate = 0
    BY <2>1, BaseMap
  <2>4. Len(base) \in Nat /\ DOMAIN base = 1 .. Len(base)
    BY <2>3, LenProperties
  <2>5. \A i \in entries : InForce[i].rate = 0
    BY <2>1, <2>3, <2>4 DEF EntriesOf
  <2>6. entries \in SUBSET Nat
    BY <2>1, <2>4 DEF EntriesOf
  <2> HIDE DEF entries
  <2>7. CASE entries # {}
    <3>1. PICK m \in entries : \A i \in entries : m <= i
      BY <2>6, <2>7, LeastExists
    <3>2. Min(entries) = m
      BY <2>6, <3>1, MinIs
    <3> QED BY <1>2, <2>2, <2>5, <2>7, <3>2 DEF CountedRate
  <2> QED BY <1>2, <2>2, <2>7 DEF CountedRate
<1> QED BY <1>3, <1>4

LEMMA RateCountedNext ==
  (MachineOK /\ runtime_state = "autofire" => \A b \in Eligible : Rate(b) = CountedRate(b))'
BY RateCounted, PTL

\* A tap steps the rate of its button and of no other.
LEMMA TapRates ==
  ASSUME MachineOK, runtime_state = "autofire", NEW tapped \in Eligible, NEW b \in Eligible,
         (\E at \in 1 .. runtime_entry : StepAt(tapped, at)) \/ NewEntry(tapped)
  PROVE  CountedRate(b)' = IF b = tapped THEN (CountedRate(b) + 1) % (Rates + 1)
                           ELSE CountedRate(b)
<1> DEFINE n == runtime_entry
<1>1. /\ n \in Nat /\ n <= Len(runtime_map) /\ Len(runtime_map) \in Nat
  BY LenProperties DEF MachineOK, MachineType
<1>2. CountedEntries(b) \in SUBSET Nat
  BY <1>1 DEF CountedEntries
<1>3. ASSUME NEW at \in 1 .. n, StepAt(tapped, at)
      PROVE  CountedRate(b)' = IF b = tapped THEN (CountedRate(b) + 1) % (Rates + 1)
                               ELSE CountedRate(b)
  <2>1. /\ runtime_map[at].input = tapped /\ \A j \in 1 .. at - 1 : runtime_map[j].input # tapped
        /\ runtime_map'[at].rate = (runtime_map[at].rate + 1) % (Rates + 1)
        /\ runtime_entry' = n
        /\ \A i \in 1 .. Len(runtime_map) :
             /\ runtime_map'[i].input = runtime_map[i].input
             /\ i # at => runtime_map'[i] = runtime_map[i]
    BY <1>3 DEF StepAt
  <2>2. \A i \in 1 .. n : i \in 1 .. Len(runtime_map)
    BY <1>1
  <2>3. CountedEntries(b)' = CountedEntries(b)
    BY <2>1, <2>2 DEF CountedEntries
  <2>4. CASE b = tapped
    <3>1. at \in CountedEntries(b)
      BY <2>1, <2>4 DEF CountedEntries
    <3>2. \A i \in CountedEntries(b) : at <= i
      <4> SUFFICES ASSUME NEW i \in 1 .. n, runtime_map[i].input = b PROVE at <= i
        BY DEF CountedEntries
      <4>1. i \notin 1 .. at - 1
        BY <2>1, <2>4
      <4> QED BY <1>1, <4>1
    <3>3. Min(CountedEntries(b)) = at
      BY <1>2, <3>1, <3>2, MinIs
    <3> QED BY <2>1, <2>3, <2>4, <3>1, <3>3 DEF CountedRate
  <2>5. CASE b # tapped
    <3>1. CASE CountedEntries(b) # {}
      <4>1. PICK m \in CountedEntries(b) : \A i \in CountedEntries(b) : m <= i
        BY <1>2, <3>1, LeastExists
      <4>2. Min(CountedEntries(b)) = m
        BY <1>2, <4>1, MinIs
      <4>3. m \in 1 .. Len(runtime_map) /\ m # at
        BY <2>1, <2>2, <2>5, <4>1 DEF CountedEntries
      <4> QED BY <2>1, <2>3, <2>5, <4>2, <4>3 DEF CountedRate
    <3> QED BY <2>3, <2>5, <3>1 DEF CountedRate
  <2> QED BY <2>4, <2>5
<1>4. CASE NewEntry(tapped)
  <2>1. /\ runtime_entry' = n + 1 /\ \A i \in 1 .. n : runtime_map[i].input # tapped
        /\ \A i \in 1 .. n : runtime_map'[i] = runtime_map[i]
        /\ runtime_map'[n + 1].input = tapped
        /\ runtime_map'[n + 1].rate = (0 + 1) % (Rates + 1)
    BY <1>4 DEF NewEntry
  <2>2. \A i \in 1 .. n + 1 : i \in 1 .. n \/ i = n + 1
    BY <1>1
  <2>3. n + 1 \in 1 .. n + 1 /\ \A i \in 1 .. n : i \in 1 .. n + 1
    BY <1>1
  <2>4. CASE b = tapped
    <3>1. CountedEntries(b) = {}
      BY <2>1, <2>4 DEF CountedEntries
    <3>2. CountedEntries(b)' = {n + 1}
      BY <2>1, <2>2, <2>3, <2>4 DEF CountedEntries
    <3>3. Min({n + 1}) = n + 1
      BY <1>1, MinIs
    <3> QED BY <2>1, <2>4, <3>1, <3>2, <3>3 DEF CountedRate
  <2>5. CASE b # tapped
    <3>1. CountedEntries(b)' = CountedEntries(b)
      BY <2>1, <2>2, <2>3, <2>5 DEF CountedEntries
    <3>2. CASE CountedEntries(b) # {}
      <4>1. PICK m \in CountedEntries(b) : \A i \in CountedEntries(b) : m <= i
        BY <1>2, <3>2, LeastExists
      <4>2. Min(CountedEntries(b)) = m
        BY <1>2, <4>1, MinIs
      <4>3. m \in 1 .. n
        BY <4>1 DEF CountedEntries
      <4> QED BY <2>1, <2>5, <3>1, <4>2, <4>3 DEF CountedRate
    <3> QED BY <2>5, <3>1, <3>2 DEF CountedRate
  <2> QED BY <2>4, <2>5
<1> QED BY <1>3, <1>4

LEMMA OneRateStep ==
  ASSUME RuntimeInv, [RuntimeNext]_runtimeVars
  PROVE  OneStepPerPress
<1> SUFFICES ASSUME runtime_state = "autofire", InForce' # InForce,
                    NEW b \in Eligible, Rate(b)' # Rate(b)
             PROVE  /\ Rate(b)' = (Rate(b) + 1) % (Rates + 1)
                    /\ b \in held'[last']
                    /\ \A c \in held'[last'] \intersect Eligible : b <= c
                    /\ held[last] \intersect Eligible = {}
  BY DEF OneStepPerPress
<1>1. /\ MachineOK /\ PadsType /\ HoldInv /\ MachineOK'
  BY InvParts, InvPartsNext, RuntimeNextInv
<1>2. Rate(b) = CountedRate(b) /\ (runtime_state' = "autofire" => Rate(b)' = CountedRate(b)')
  BY <1>1, RateCounted, RateCountedNext
<1>3. base' = base
  <2>1. SUFFICES ASSUME base' # base PROVE FALSE
    OBVIOUS
  <2>2. UNCHANGED machine
    BY <2>1 DEF RuntimeNext, Event, Leave, SwitchProfile, IndicationEnds, TimePasses, runtimeVars
  <2>3. CountedRate(b)' = CountedRate(b) /\ runtime_state' = "autofire"
    BY <2>2 DEF machine, CountedRate, CountedEntries
  <2> QED BY <1>2, <2>3
<1>4. PICK p \in Pads, buttons \in Presses : Event(p, buttons) /\ Cycle(buttons)
  BY <1>3, ForceSame, StepKinds
<1> DEFINE tapped == Lowest(buttons)
<1>5. /\ tapped \in Eligible /\ runtime_state' = "autofire"
      /\ \/ UNCHANGED <<runtime_map, runtime_entry, map_count, remapped>>
         \/ \E at \in 1 .. runtime_entry : StepAt(tapped, at)
         \/ NewEntry(tapped)
  BY <1>1, <1>4, TapKinds
<1>6. /\ tapped \in buttons /\ \A c \in buttons \intersect Eligible : tapped <= c
      /\ prev_buttons \intersect Eligible = {}
  BY <1>4, LowestPressed DEF Cycle, Pressed
<1> HIDE DEF tapped
<1>7. CountedRate(b)' = IF b = tapped THEN (CountedRate(b) + 1) % (Rates + 1) ELSE CountedRate(b)
  <2>1. ~UNCHANGED <<runtime_map, runtime_entry, map_count, remapped>>
    BY <1>3, ForceSame
  <2> QED BY <1>1, <1>5, <2>1, TapRates
<1>8. b = tapped /\ Rate(b)' = (Rate(b) + 1) % (Rates + 1)
  BY <1>2, <1>5, <1>7
<1>9. held'[last'] = buttons
  <2>1. last' = p /\ held' = [held EXCEPT ![p] = buttons]
    BY <1>4 DEF Event, Holds
  <2>2. held \in [Pads -> Presses]
    BY <1>1 DEF PadsType
  <2> QED BY <2>1, <2>2
<1>10. held[last] \intersect Eligible = {}
  BY <1>1, <1>6 DEF HoldInv
<1> QED BY <1>6, <1>8, <1>9, <1>10

LEMMA EntryHeld ==
  ASSUME RuntimeInv, [RuntimeNext]_runtimeVars
  PROVE  EntryNeedsHold
<1> SUFFICES ASSUME runtime_state = "idle", runtime_state' # "idle"
             PROVE  unseen \/ \E p \in Pads : age[p] >= HoldTime
  BY DEF EntryNeedsHold
<1>1. PadsType /\ HoldInv
  BY InvParts
<1>2. ASSUME NEW p \in Pads, NEW buttons \in Presses, Event(p, buttons)
      PROVE  combo_hold >= HoldTime
  <2>1. check_combo(buttons)
    BY <1>2 DEF Event
  <2>2. EnterRapidFire(buttons) \/ EnterRemap(buttons)
    BY <2>1 DEF check_combo, Ignored, LetGo, Hold, Cancel, MapPress, MapNothing,
                ExitRapidFire, Cycle, CycleNothing, machine
  <2> QED BY <2>2 DEF EnterRapidFire, EnterRemap
<1>3. combo_hold >= HoldTime
  BY <1>2 DEF RuntimeNext, Leave, SwitchProfile, IndicationEnds, TimePasses, runtimeVars, machine
<1>4. ASSUME ~unseen
      PROVE  \E p \in Pads : age[p] >= HoldTime
  <2>1. combo_hold # -1
    BY <1>1, <1>3, Constants DEF PadsType
  <2>2. PICK p \in Pads : age[p] >= combo_hold
    BY <1>1, <1>4, <2>1 DEF HoldInv
  <2>3. age[p] \in 0 .. HoldTime
    BY <1>1 DEF PadsType
  <2>4. age[p] >= HoldTime
    BY <1>1, <1>3, <2>2, <2>3, Constants DEF PadsType
  <2> QED BY <2>4
<1> QED BY <1>4

\* With one hold timer and one previous state for any number of controllers, a mode
\* still needs somebody's hold for the whole time, but for a combo let go unseen, and a
\* rate advances by one step only, of the first button that the reporting controller
\* holds, while the controller of the event before it holds none
\* (runtime_profile_check_combo).
THEOREM ModesAreDeliberate == RuntimeSpec => DeliberateOnly
<1>1. RuntimeInv /\ [RuntimeNext]_runtimeVars => [OneStepPerPress /\ EntryNeedsHold]_runtimeVars
  BY OneRateStep, EntryHeld
<1> QED BY <1>1, RuntimeInvariant, PTL DEF RuntimeSpec, DeliberateOnly
================================================================================
