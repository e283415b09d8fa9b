--------------------------- MODULE RuntimeProfile ---------------------------
(***************************************************************************)
(* The runtime profile (core/services/profiles/runtime_profile.c) as the   *)
(* router wires it for every app: holding SELECT + B3 enters rapid-fire    *)
(* set, where each tap of a button steps its rate; holding SELECT + B4     *)
(* enters a live remap, where the inputs pressed one after the other are   *)
(* given the outputs in order.  The map it builds takes the place of the   *)
(* profile's own.  One timer, one previous state and one mode serve all    *)
(* controllers, and every event is ignored while an LED or the rumble      *)
(* indicates something (leds.c, profile_indicator.c).                      *)
(*                                                                         *)
(* Buttons are numbered in the order of their bits; the outputs are the    *)
(* first of them, as in rt_output_buttons (router.c:271-287).  The state   *)
(* RUNTIME_MAPPING_ALT is never entered, and left out.                     *)
(***************************************************************************)
EXTENDS Integers, SequencesExt

CONSTANTS Pads,
          InputCount,      \* buttons of cfg->input_mask
          OutputCount,     \* cfg->output_button_count
          EntryMax,        \* RUNTIME_PROFILE_ENTRY_MAX
          B3, B4,          \* with SELECT, the buttons that enter a mode
          Rates,           \* size of autofire_period_ms_table
          HoldTime,        \* hold_ms
          NoRumble,        \* profile_indicator_disable_rumble was called
          \* Bounds of the checked instances:
          Presses,         \* what a pad may hold
          Bystander,       \* pads that only hold one of BystanderPresses
          BystanderPresses,
          MaxSwitches      \* switches of the profile

Eligible == 1 .. InputCount
S1 == InputCount + 1    \* SELECT
S2 == InputCount + 2    \* START

ASSUME ButtonAssumption == /\ InputCount \in Nat /\ {B3, B4} \subseteq Eligible
                           /\ B3 # B4
ASSUME EntryAssumption  == /\ OutputCount \in 1 .. InputCount
                           /\ EntryMax \in Nat /\ InputCount <= EntryMax
ASSUME TimeAssumption   == HoldTime \in Nat \ {0} /\ Rates \in Nat \ {0}
ASSUME RumbleAssumption == NoRumble \in BOOLEAN
ASSUME BoundAssumption  == /\ Presses \subseteq SUBSET (1 .. S2) /\ {} \in Presses
                           /\ BystanderPresses \subseteq Presses
                           /\ Bystander \subseteq Pads /\ MaxSwitches \in Nat

VARIABLES
  runtime_state,   \* idle, mapping or autofire
  runtime_map,     \* the entries written, in force or not
  runtime_entry,
  map_count,       \* cfg->profile->button_map_count
  mapped_mask,
  combo_hold,      \* time since runtime_combo_hold, -1 when it is 0
  prev_buttons,
  base,            \* button_map of the normal profile
  indicating,      \* leds_is_indicating or profile_indicator_is_active
  held,            \* buttons held on each pad, as it reported them last
  \* History.
  last,            \* the pad whose event came last
  age,             \* how long each pad has held an entry combo
  unseen,          \* the combo of the running timer was let go unseen
  remapped,        \* a completed remap is in force
  switched,        \* the profile was switched since rapid-fire set was entered
  switches

machine == <<runtime_state, runtime_map, runtime_entry, map_count, mapped_mask>>
runtimeVars == <<machine, combo_hold, prev_buttons, base, indicating, held, last,
                 age, unseen, remapped, switched, switches>>
-----------------------------------------------------------------------------
Entry == [input : Eligible, output : {0} \union Eligible, rate : 0 .. Rates]
Mapping(in, out) == [input |-> in, output |-> out, rate |-> 0]

\* Two normal profiles: one without a map, one with the last button as the first.
BaseMaps == {<<>>, <<Mapping(InputCount, 1)>>}

\* profile_get_active: a runtime map with entries is in force.
InForce == IF map_count > 0 THEN SubSeq(runtime_map, 1, map_count) ELSE base

\* profile_apply: what a button puts out; one without an entry passes through.
EntriesOf(map, b) == {i \in DOMAIN map : map[i].input = b}
Outputs(b) == LET map == InForce
              IN IF EntriesOf(map, b) = {} THEN {b}
                 ELSE {map[i].output : i \in EntriesOf(map, b)} \ {0}

\* The rate a button fires at: 0 is solid, one without an entry has none.
Rate(b) == LET map == InForce
           IN IF EntriesOf(map, b) = {} THEN 0 ELSE map[Min(EntriesOf(map, b))].rate

\* The entries that finish_mapping appends and runtime_entry does not count.
Disabled == {runtime_map[i].input : i \in runtime_entry + 1 .. map_count}

Combo(buttons) == S1 \in buttons /\ (B3 \in buttons \/ B4 \in buttons)
Rising(b, buttons) == b \in buttons /\ b \notin prev_buttons
Pressed(buttons) == prev_buttons \intersect Eligible = {} /\ buttons \intersect Eligible # {}
Lowest(buttons) == CHOOSE b \in buttons \intersect Eligible :
                     \A c \in buttons \intersect Eligible : b <= c

RuntimeInit ==
  /\ runtime_state = "idle" /\ runtime_map = <<>> /\ runtime_entry = 0
  /\ map_count = 0 /\ mapped_mask = {}
  /\ combo_hold = -1 /\ prev_buttons = {}
  /\ base \in BaseMaps /\ indicating = FALSE
  /\ held = [p \in Pads |-> {}]
  /\ last \in Pads /\ age = [p \in Pads |-> 0]
  /\ unseen = FALSE /\ remapped = FALSE
  /\ switched = FALSE /\ switches = 0
-----------------------------------------------------------------------------
(* RUNTIME_IDLE. *)

\* Mutant: the timer runs on when the combo is let go.
LetGoUnseen(buttons) ==
  /\ runtime_state = "idle" /\ ~Combo(buttons)
  /\ UNCHANGED <<machine, combo_hold, indicating, remapped>>

LetGo(buttons) ==
  /\ runtime_state = "idle" /\ ~Combo(buttons)
  /\ combo_hold' = -1
  /\ UNCHANGED <<machine, indicating, remapped>>

Hold(buttons) ==
  /\ runtime_state = "idle" /\ Combo(buttons) /\ combo_hold < HoldTime
  /\ combo_hold' = IF combo_hold = -1 THEN 0 ELSE combo_hold
  /\ UNCHANGED <<machine, indicating, remapped>>

\* Mutant: the profile's own map is not taken over.
SeedNothing == UNCHANGED <<runtime_map, runtime_entry, map_count>>

\* autofire_seed_once
Seed ==
  IF runtime_entry # 0 \/ base = <<>>
  THEN UNCHANGED <<runtime_map, runtime_entry, map_count>>
  ELSE /\ runtime_map' = base
       /\ runtime_entry' = Len(base) /\ map_count' = Len(base)

EnterRapidFire(buttons) ==
  /\ runtime_state = "idle" /\ Combo(buttons) /\ B3 \in buttons
  /\ combo_hold >= HoldTime
  /\ Seed
  /\ runtime_state' = "autofire" /\ combo_hold' = -1 /\ indicating' = TRUE
  /\ UNCHANGED <<mapped_mask, remapped>>

EnterRemap(buttons) ==
  /\ runtime_state = "idle" /\ Combo(buttons) /\ B3 \notin buttons
  /\ combo_hold >= HoldTime
  /\ runtime_state' = "mapping" /\ map_count' = 0 /\ mapped_mask' = {}
  /\ runtime_map' = <<>> /\ runtime_entry' = 0
  /\ combo_hold' = -1 /\ indicating' = TRUE /\ remapped' = FALSE
-----------------------------------------------------------------------------
(* RUNTIME_MAPPING. *)

\* Mutant: START alone is ignored (runtime_profile.h:20 asks for SELECT with it).
CancelWithSelect(buttons) ==
  /\ runtime_state = "mapping" /\ Rising(S2, buttons)
  /\ IF S1 \in buttons
     THEN /\ runtime_state' = "idle" /\ runtime_map' = <<>> /\ runtime_entry' = 0
          /\ map_count' = 0 /\ mapped_mask' = {} /\ combo_hold' = -1
          /\ indicating' = TRUE
     ELSE UNCHANGED <<machine, combo_hold, indicating>>
  /\ UNCHANGED remapped

\* START: runtime_profile_clear.
Cancel(buttons) ==
  /\ runtime_state = "mapping" /\ Rising(S2, buttons)
  /\ runtime_state' = "idle" /\ runtime_map' = <<>> /\ runtime_entry' = 0
  /\ map_count' = 0 /\ mapped_mask' = {} /\ combo_hold' = -1
  /\ indicating' = TRUE
  /\ UNCHANGED remapped

\* The inputs that were given no output, each with none (in the order of their
\* bits, which nothing depends on).
Unmapped(map) ==
  LET unmapped == Eligible \ {map[i].input : i \in DOMAIN map}
      inputs == SetToSeq(unmapped)
  IN [i \in DOMAIN inputs |-> Mapping(inputs[i], 0)]

\* map_entry, and finish_mapping after the last output.
map_entry(b) ==
  LET map == Append(SubSeq(runtime_map, 1, runtime_entry), Mapping(b, runtime_entry + 1))
  IN /\ runtime_entry' = runtime_entry + 1
     /\ mapped_mask' = mapped_mask \union {b}
     /\ indicating' = TRUE
     /\ IF runtime_entry + 1 >= OutputCount
        THEN /\ runtime_map' = map \o Unmapped(map)
             /\ map_count' = Len(runtime_map')
             /\ runtime_state' = "idle" /\ remapped' = TRUE
        ELSE /\ runtime_map' = map
             /\ UNCHANGED <<map_count, runtime_state, remapped>>

\* Mutant: inputs that have an output already are taken again.
MapPressAgain(buttons) ==
  /\ runtime_state = "mapping" /\ ~Rising(S2, buttons) /\ Pressed(buttons)
  /\ map_entry(Lowest(buttons))
  /\ UNCHANGED combo_hold

MapPress(buttons) ==
  /\ runtime_state = "mapping" /\ ~Rising(S2, buttons) /\ Pressed(buttons)
  /\ Lowest(buttons) \notin mapped_mask
  /\ map_entry(Lowest(buttons))
  /\ UNCHANGED combo_hold

MapNothing(buttons) ==
  /\ runtime_state = "mapping" /\ ~Rising(S2, buttons)
  /\ Pressed(buttons) => Lowest(buttons) \in mapped_mask
  /\ UNCHANGED <<machine, combo_hold, indicating, remapped>>
-----------------------------------------------------------------------------
(* RUNTIME_AUTOFIRE. *)

Exits(buttons) == Rising(S1, buttons) /\ buttons \intersect Eligible = {}

ExitRapidFire(buttons) ==
  /\ runtime_state = "autofire" /\ Exits(buttons)
  /\ runtime_state' = "idle" /\ indicating' = TRUE
  /\ UNCHANGED <<runtime_map, runtime_entry, map_count, mapped_mask, combo_hold,
                 remapped>>

\* autofire_cycle.  A button without an entry among those counted gets the next
\* one, over an entry of finish_mapping if there is one, and the map ends there.
autofire_cycle(b) ==
  LET counted == SubSeq(runtime_map, 1, runtime_entry)
      known == \E i \in DOMAIN counted : counted[i].input = b
      seeded == IF known THEN runtime_map ELSE Append(counted, Mapping(b, b))
      at == CHOOSE i \in DOMAIN seeded :
              seeded[i].input = b /\ \A j \in 1 .. i - 1 : seeded[j].input # b
  IN IF ~known /\ runtime_entry >= EntryMax
     THEN UNCHANGED <<runtime_map, runtime_entry, map_count, indicating, remapped>>
     ELSE /\ runtime_map' = [seeded EXCEPT ![at].rate = (@ + 1) % (Rates + 1)]
          /\ runtime_entry' = IF known THEN runtime_entry ELSE runtime_entry + 1
          /\ map_count' = IF known THEN map_count ELSE runtime_entry + 1
          /\ indicating' = TRUE
          /\ remapped' = (remapped /\ known)

\* Mutant: the button need not be pressed anew.
CycleWhileHeld(buttons) ==
  /\ runtime_state = "autofire" /\ ~Exits(buttons)
  /\ buttons \intersect Eligible # {}
  /\ autofire_cycle(Lowest(buttons))
  /\ UNCHANGED <<runtime_state, mapped_mask, combo_hold>>

Cycle(buttons) ==
  /\ runtime_state = "autofire" /\ ~Exits(buttons) /\ Pressed(buttons)
  /\ autofire_cycle(Lowest(buttons))
  /\ UNCHANGED <<runtime_state, mapped_mask, combo_hold>>

CycleNothing(buttons) ==
  /\ runtime_state = "autofire" /\ ~Exits(buttons) /\ ~Pressed(buttons)
  /\ UNCHANGED <<machine, combo_hold, indicating, remapped>>
-----------------------------------------------------------------------------
Ignored == indicating /\ UNCHANGED <<machine, combo_hold, indicating, remapped>>

check_combo(buttons) ==
  \/ Ignored
  \/ /\ ~indicating
     /\ \/ LetGo(buttons) \/ Hold(buttons)
        \/ EnterRapidFire(buttons) \/ EnterRemap(buttons)
        \/ Cancel(buttons) \/ MapPress(buttons) \/ MapNothing(buttons)
        \/ ExitRapidFire(buttons) \/ Cycle(buttons) \/ CycleNothing(buttons)

\* What a pad now holds, and whether it let go of a combo nobody looked at.
Holds(p, buttons, looked) ==
  /\ held' = [held EXCEPT ![p] = buttons]
  /\ age' = [age EXCEPT ![p] = IF Combo(held[p]) /\ Combo(buttons) THEN @ ELSE 0]
  /\ unseen' = /\ combo_hold' # -1
               /\ unseen \/ (~looked /\ Combo(held[p]) /\ ~Combo(buttons))

\* An event of a pad, at the head of router_submit_input.
Event(p, buttons) ==
  /\ check_combo(buttons)
  /\ prev_buttons' = buttons
  /\ last' = p
  /\ Holds(p, buttons, ~indicating)
  /\ switched' = (switched /\ runtime_state' = "autofire")
  /\ UNCHANGED <<base, switches>>

\* A pad is gone; nobody tells the runtime profile.
Leave(p) ==
  /\ held[p] # {}
  /\ UNCHANGED combo_hold
  /\ Holds(p, {}, FALSE)
  /\ UNCHANGED <<machine, prev_buttons, base, indicating, last, remapped,
                 switched, switches>>

\* The normal profile is switched, by its hotkey or by a host, which indicates it.
SwitchProfile ==
  /\ switches < MaxSwitches
  /\ switches' = switches + 1
  /\ base' \in BaseMaps \ {base}
  /\ indicating' = TRUE
  /\ switched' = (runtime_state = "autofire")
  /\ UNCHANGED <<machine, combo_hold, prev_buttons, held, last, age, unseen, remapped>>

\* Without rumble the pulses of the profile indicator are never counted down.
IndicationEnds ==
  /\ indicating /\ ~NoRumble
  /\ indicating' = FALSE
  /\ UNCHANGED <<machine, combo_hold, prev_buttons, base, held, last, age, unseen,
                 remapped, switched, switches>>

LongerHeld(t) == IF t < HoldTime THEN t + 1 ELSE t
TimePasses ==
  /\ combo_hold' = IF combo_hold = -1 THEN -1 ELSE LongerHeld(combo_hold)
  /\ age' = [p \in Pads |-> IF Combo(held[p]) THEN LongerHeld(age[p]) ELSE 0]
  /\ <<combo_hold', age'>> # <<combo_hold, age>>
  /\ UNCHANGED <<machine, prev_buttons, base, indicating, held, last, unseen,
                 remapped, switched, switches>>

RuntimeNext ==
  \/ \E p \in Pads, buttons \in Presses :
       (p \in Bystander => buttons \in BystanderPresses) /\ Event(p, buttons)
  \/ \E p \in Pads : Leave(p)
  \/ SwitchProfile \/ IndicationEnds \/ TimePasses

RuntimeSpec == RuntimeInit /\ [][RuntimeNext]_runtimeVars

\* ProfileIndicator!IndicatorEnds; the LED's own blinking is over in a second.
RuntimeLiveSpec == RuntimeSpec /\ WF_runtimeVars(IndicationEnds)
-----------------------------------------------------------------------------
\* Types; entries are counted within the array, and no map that is still being
\* built is in force.
RuntimeTypeOK ==
  /\ runtime_state \in {"idle", "mapping", "autofire"}
  /\ runtime_map \in Seq(Entry) /\ Len(runtime_map) <= EntryMax
  /\ runtime_entry \in 0 .. Len(runtime_map) /\ map_count \in 0 .. Len(runtime_map)
  /\ runtime_state = "mapping" => (map_count = 0 /\ runtime_entry < OutputCount)
  /\ mapped_mask \subseteq Eligible /\ prev_buttons \in Presses
  /\ combo_hold \in -1 .. HoldTime
  /\ base \in BaseMaps /\ indicating \in BOOLEAN
  /\ held \in [Pads -> Presses] /\ last \in Pads
  /\ age \in [Pads -> 0 .. HoldTime]
  /\ unseen \in BOOLEAN /\ remapped \in BOOLEAN /\ switched \in BOOLEAN
  /\ switches \in 0 .. MaxSwitches

\* After a completed remap every output has exactly one input and every other
\* input none ("each input button can only map to one output",
\* docs/apps/usb2neogeo.md:192; finish_mapping), until rapid fire is given to a
\* disabled input (README).
CompletedRemap ==
  remapped => /\ \A out \in 1 .. OutputCount :
                   \E b \in Eligible : \A c \in Eligible : out \in Outputs(c) <=> c = b
              /\ \A b \in Eligible : Cardinality(Outputs(b)) <= 1
              /\ \A b \in Eligible : Outputs(b) \subseteq 1 .. OutputCount

\* Types and completed maps.
MapOK == RuntimeTypeOK /\ CompletedRemap

\* "Rapid-fire overlays the current mapping without replacing it"
\* (docs/core/runtime_profile.md:41): entering it, tapping and leaving change
\* no button's output, but for the inputs that a remap has disabled, and unless
\* the profile is switched meanwhile (README).
RapidFireKeepsMap ==
  [][InForce' # InForce /\ base' = base /\ ~switched
     /\ "mapping" \notin {runtime_state, runtime_state'} =>
       \A b \in Eligible \ Disabled : Outputs(b)' = Outputs(b)]_runtimeVars

\* "advances *that* button's rate one step each press" (docs/core/
\* runtime_profile.md:34): in rapid-fire set a rate changes only by the next step of
\* its cycle, for the first of the buttons that the controller of the event holds,
\* and only while the controller of the event before it, the same one unless
\* another's came between, holds none: a button that stays held is not stepped
\* again, nor two at a time.
OneStepPerPress ==
  runtime_state = "autofire" /\ InForce' # InForce =>
    \A b \in Eligible : Rate(b)' # Rate(b) =>
      /\ Rate(b)' = (Rate(b) + 1) % (Rates + 1)
      /\ b \in held'[last'] /\ \A c \in held'[last'] \intersect Eligible : b <= c
      /\ held[last] \intersect Eligible = {}

\* A mode is entered by "a deliberate hold" (runtime_profile.c:335) only: somebody
\* has held an entry combo for the whole time, unless it was let go while an
\* indication made the service look away, or by a controller that left.
EntryNeedsHold ==
  runtime_state = "idle" /\ runtime_state' # "idle" =>
    unseen \/ \E p \in Pads : age[p] >= HoldTime

\* With one hold timer and one previous state for all controllers, a mode needs
\* somebody's whole hold (but for a combo let go unseen), and a rate's step a button
\* held by the controller that reports, newly pressed unless another controller's
\* event came between.
DeliberateOnly == [][OneStepPerPress /\ EntryNeedsHold]_runtimeVars

\* The output of all controllers is frozen during a remap; START ends it, pressed
\* again and again while nobody else holds START, by controllers that stay
\* ("Press START -> cancel and clear the mapping", docs/core/runtime_profile.md:53).
StartTapped ==
  \E p \in Pads : /\ last' = p /\ S2 \notin held[p] /\ S2 \in held'[p]
                  /\ \A q \in Pads \ {p} : S2 \notin held[q]
RemapEnds ==
  []<><<StartTapped>>_runtimeVars /\ <>[][\A p \in Pads : ~Leave(p)]_runtimeVars
    => (runtime_state = "mapping" ~> runtime_state # "mapping")
=============================================================================
