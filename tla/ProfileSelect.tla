---------------------------- MODULE ProfileSelect ----------------------------
(***************************************************************************)
(* Which profile is in effect (core/services/profiles/profile.c, the       *)
(* selection part of storage/flash.c and the PROFILE commands of           *)
(* cdc_commands.c).  An app has built-in profiles, the user up to          *)
(* CUSTOM_PROFILE_MAX_COUNT custom ones; both share one unified index.     *)
(* The choice is spread over four places: the built-in index of            *)
(* profile.c, the saved byte active_profile_index, the RAM-only index of   *)
(* PROFILE.SELECT and the RAM-only profile of PROFILE.APPLY.               *)
(*                                                                         *)
(* The copy that waits for the debounce is always equal to the settings in *)
(* RAM (FlashStoreProofs, PendingInv), so a save writes those.             *)
(***************************************************************************)
EXTENDS Integers

CONSTANTS BuiltinCounts,    \* the apps: how many built-in profiles they have
          MaxCustom,        \* CUSTOM_PROFILE_MAX_COUNT
          SelectsOverriding \* TRUE: hosts use PROFILE.SELECT on built-in
                            \* profiles also while a custom one is in effect

ASSUME ProfileAssumption == /\ BuiltinCounts \subseteq Nat
                            /\ MaxCustom \in Nat \ {0}
                            /\ SelectsOverriding \in BOOLEAN

VARIABLES
  builtins,                \* profile_get_count of the output: fixed per app
  settings,                \* runtime_settings: the fields about profiles
  flash,                   \* the same fields of the record a boot would load
  save_pending,
  active_index,            \* profile.c: the built-in profile
  ephemeral_active,        \* a PROFILE.APPLY override is on
  ephemeral_active_idx,    \* the index of PROFILE.SELECT, -1 for none
  selected,                \* history: the profile last selected, by whatever way
  applied,                 \* history: PROFILE.APPLY came after that
  kept,                    \* history: the profile last chosen persistently
  saved,                   \* history: kept at the time of the last write
  stale                    \* history: see cmd_profile_delete

selectVars == <<builtins, settings, flash, save_pending, active_index,
          ephemeral_active, ephemeral_active_idx, selected, applied, kept, saved,
          stale>>
-----------------------------------------------------------------------------
\* Custom profiles are told apart by a number that the user never sees.
Ids       == 1 .. 2 * MaxCustom
NoProfile == 0
Positions == 1 .. MaxCustom
Settings  == [profiles : [Positions -> Ids \union {NoProfile}],
              count : 0 .. MaxCustom,       \* custom_profile_count
              index : Nat,                  \* active_profile_index
              disabled : SUBSET Nat]        \* builtin_disabled_mask

Builtin(i) == <<"builtin", i>>
Custom(id) == <<"custom", id>>
Applied    == <<"applied", 0>>

\* flash_get_active_profile_index
CurrentIndex == IF ephemeral_active_idx >= 0 THEN ephemeral_active_idx ELSE settings.index

\* The profile an index stands for, 0 or one out of range being the built-in.
ProfileAt(s, index, builtin) ==
  IF index \in 1 .. s.count THEN Custom(s.profiles[index]) ELSE Builtin(builtin)

\* flash_get_active_custom_profile, and the built-in one when there is none.
Selected == ProfileAt(settings, CurrentIndex, active_index)
InEffect == IF ephemeral_active THEN Applied ELSE Selected

\* profile_init: a saved index beyond the built-in profiles is no built-in.
BootBuiltin(s) == IF s.index < builtins THEN s.index ELSE 0
BootProfile == ProfileAt(flash, flash.index, BootBuiltin(flash))
-----------------------------------------------------------------------------
\* Unified indices: the built-in profiles, or one virtual default, come first.
CustomStart == IF builtins > 0 THEN builtins ELSE 1
Total       == CustomStart + settings.count
IsBuiltin(u) == u < CustomStart
ToFlashIndex(u) == IF IsBuiltin(u) THEN 0 ELSE u - CustomStart + 1
ProfileOf(u) == IF IsBuiltin(u) THEN Builtin(u)
                                ELSE Custom(settings.profiles[ToFlashIndex(u)])
ActiveUnified == IF CurrentIndex > 0 THEN CustomStart + CurrentIndex - 1 ELSE active_index

SelectInit ==
  /\ builtins \in BuiltinCounts
  /\ settings = [profiles |-> [i \in Positions |-> NoProfile], count |-> 0,
                 index |-> 0, disabled |-> {}]
  /\ flash = settings /\ save_pending = FALSE
  /\ active_index = 0
  /\ ephemeral_active = FALSE /\ ephemeral_active_idx = -1
  /\ selected = Builtin(0) /\ applied = FALSE /\ kept = Builtin(0) /\ saved = Builtin(0)
  /\ stale = FALSE

\* flash_save_now and flash_save of the settings in RAM.
SaveNow == flash' = settings' /\ save_pending' = FALSE /\ saved' = kept'
SaveLater == save_pending' = TRUE /\ UNCHANGED <<flash, saved>>
NoSave == UNCHANGED <<flash, save_pending, saved>>

Selects(profile) == selected' = profile /\ applied' = FALSE /\ stale' = FALSE
Keeps(profile) == Selects(profile) /\ kept' = profile

\* flash_set_active_profile_index and its deferred variant: an explicit choice
\* drops both overrides; only a change of the byte is saved.
SetIndex(index) ==
  /\ settings' = [settings EXCEPT !.index = index]
  /\ ephemeral_active' = FALSE /\ ephemeral_active_idx' = -1

\* The same followed by profile_set_active, whose profile_save_to_flash stores
\* the built-in index in the very byte that was just cleared.
SetBuiltin(u) ==
  /\ settings' = [settings EXCEPT !.index = u]
  /\ active_index' = u
  /\ ephemeral_active' = FALSE /\ ephemeral_active_idx' = -1

\* What is saved when the byte goes from old to 0 (at once or later) and then
\* to the built-in index u (later).
SaveBuiltin(u, now) ==
  IF now /\ settings.index # 0
  THEN /\ flash' = [settings EXCEPT !.index = 0]
       /\ save_pending' = (u # 0)
       /\ saved' = kept'
  ELSE IF settings.index # 0 \/ u # 0 THEN SaveLater ELSE NoSave

\* PROFILE.SET
cmd_profile_set(u) ==
  /\ u < Total
  /\ Keeps(ProfileOf(u))
  /\ IF builtins > 0 /\ IsBuiltin(u)
     THEN SetBuiltin(u) /\ SaveBuiltin(u, TRUE)
     ELSE /\ SetIndex(ToFlashIndex(u))
          /\ UNCHANGED active_index
          /\ IF settings.index # ToFlashIndex(u) THEN SaveNow ELSE NoSave
  /\ UNCHANGED builtins

Selectable(u) ==
  IsBuiltin(u) /\ builtins > 0 /\ ~SelectsOverriding
    => CurrentIndex = 0 /\ ~ephemeral_active

\* Mutant: an override of PROFILE.APPLY survives.
SelectUnderOverride(u) ==
  /\ u < Total
  /\ Selectable(u)
  /\ Selects(ProfileOf(u))
  /\ ephemeral_active_idx' = ToFlashIndex(u)
  /\ UNCHANGED <<builtins, settings, active_index, ephemeral_active, kept>> /\ NoSave

\* PROFILE.SELECT: nothing is saved.  A built-in profile is made active but
\* what overrides it stays.
cmd_profile_select(u) ==
  /\ u < Total
  /\ Selectable(u)
  /\ Selects(ProfileOf(u))
  /\ IF builtins > 0 /\ IsBuiltin(u)
     THEN /\ active_index' = u
          /\ UNCHANGED <<ephemeral_active, ephemeral_active_idx>>
     ELSE /\ ephemeral_active' = FALSE /\ ephemeral_active_idx' = ToFlashIndex(u)
          /\ UNCHANGED active_index
  /\ UNCHANGED <<builtins, settings, kept>> /\ NoSave

\* PROFILE.APPLY and PROFILE.CLEAR
cmd_profile_apply ==
  /\ ephemeral_active' = TRUE
  /\ applied' = TRUE
  /\ UNCHANGED <<builtins, settings, active_index, ephemeral_active_idx,
                 selected, kept, stale>>
  /\ NoSave

cmd_profile_clear ==
  /\ ephemeral_active' = FALSE
  /\ applied' = FALSE
  /\ UNCHANGED <<builtins, settings, active_index, ephemeral_active_idx,
                 selected, kept, stale>>
  /\ NoSave
-----------------------------------------------------------------------------
Fresh(id) ==
  LET used == {settings.profiles[i] : i \in Positions} \union
              {flash.profiles[i] : i \in Positions}
  IN  id \in Ids \ used /\ \A k \in 1 .. id - 1 : k \in used

Unchosen == UNCHANGED <<builtins, active_index, ephemeral_active,
                        ephemeral_active_idx, selected, applied, kept, stale>>

\* PROFILE.SAVE with index 255 and PROFILE.CLONE: one profile more.
cmd_profile_clone ==
  /\ settings.count < MaxCustom
  /\ \E id \in Ids :
       /\ Fresh(id)
       /\ settings' = [settings EXCEPT !.count = @ + 1,
                                       !.profiles[settings.count + 1] = id]
  /\ SaveLater /\ Unchosen

\* PROFILE.SAVE of a custom profile: what it does changes, not which it is.
cmd_profile_save(u) ==
  /\ ~IsBuiltin(u) /\ u < Total
  /\ UNCHANGED settings
  /\ SaveLater /\ Unchosen

Without(s, k) == [i \in Positions |-> IF i < k THEN s.profiles[i]
                                      ELSE IF i < s.count THEN s.profiles[i + 1]
                                      ELSE NoProfile]

\* Mutant: the index is not adjusted when an earlier profile goes.
IndexKept(index, k) == IF index = k THEN 0 ELSE index

IndexWithout(index, k) == IF index > k THEN index - 1 ELSE IF index = k THEN 0 ELSE index

\* PROFILE.DELETE: the profiles behind it move up, and the byte with them; the
\* index of PROFILE.SELECT is left as it is, and means another profile then
\* (or none) unless it was before the hole.
cmd_profile_delete(u) ==
  LET k == ToFlashIndex(u)
      gone == Custom(settings.profiles[k])
      After(p) == IF p = gone THEN Builtin(active_index) ELSE p
  IN /\ ~IsBuiltin(u) /\ u < Total
     /\ settings' = [settings EXCEPT !.profiles = Without(settings, k),
                                     !.count = @ - 1,
                                     !.index = IndexWithout(@, k)]
     /\ SaveLater
     /\ selected' = After(selected) /\ kept' = After(kept)
     /\ stale' = (stale \/ ephemeral_active_idx >= k)
     /\ UNCHANGED <<builtins, active_index, ephemeral_active,
                    ephemeral_active_idx, applied>>

\* PROFILE.DISABLE: the cycle skips the built-in profile.
cmd_profile_disable(u, off) ==
  /\ u < builtins
  /\ settings' = [settings EXCEPT !.disabled = IF off THEN @ \union {u} ELSE @ \ {u}]
  /\ IF settings' = settings THEN NoSave ELSE SaveLater
  /\ Unchosen
-----------------------------------------------------------------------------
\* unified_index_enabled
Enabled(u, start, disabled) == u >= start \/ u \notin disabled

\* Mutant: the index next to current, disabled or not.
FindNext(current, total, start, disabled, dir, wrap) ==
  IF current + dir \in 0 .. total - 1 THEN current + dir
  ELSE IF ~wrap THEN current ELSE IF dir = 1 THEN 0 ELSE total - 1

\* profile_cycle_find: the search from current in a direction, one index after
\* the other, that skips disabled built-in profiles.  After its first step it is
\* within the list, wherever it began; without wrapping it ends at an end.
cycle_find(current, total, start, disabled, dir, wrap) ==
  LET first == IF current + dir < 0 THEN total - 1
               ELSE IF current + dir >= total THEN 0 ELSE current + dir
      at(n) == (first + n * dir) % total
      ended(n) == ~wrap /\ ~({current + dir, current + dir + n * dir} \subseteq 0 .. total - 1)
      hit(n) == ~ended(n) /\ Enabled(at(n), start, disabled)
  IN IF \E n \in 0 .. total - 1 : hit(n)
     THEN at(CHOOSE n \in 0 .. total - 1 : hit(n) /\ \A m \in 0 .. n - 1 : ~hit(m))
     ELSE current

\* profile_cycle_next and profile_cycle_prev.  Without built-in profiles the
\* byte is set and saved at once; with them the unified index is applied, and
\* saved later.
LegacyCycle(dir, wrap) ==
  LET last == settings.count
      to == IF dir = 1 THEN (CurrentIndex + 1) % (last + 1)
            ELSE IF CurrentIndex \in 1 .. last THEN CurrentIndex - 1 ELSE last
  IN /\ builtins = 0 /\ last > 0
     /\ wrap \/ IF dir = 1 THEN CurrentIndex < last ELSE CurrentIndex > 0
     /\ Keeps(ProfileOf(to))
     /\ SetIndex(to)
     /\ IF settings.index # to THEN SaveNow ELSE NoSave
     /\ UNCHANGED <<builtins, active_index>>

UnifiedCycle(dir, wrap) ==
  LET to == cycle_find(ActiveUnified, Total, CustomStart, settings.disabled, dir, wrap)
  IN /\ builtins > 0 /\ Total > 1
     /\ to # ActiveUnified
     /\ Keeps(ProfileOf(to))
     /\ IF IsBuiltin(to)
        THEN SetBuiltin(to) /\ SaveBuiltin(to, FALSE)
        ELSE /\ SetIndex(ToFlashIndex(to))
             /\ UNCHANGED active_index
             /\ IF settings.index # ToFlashIndex(to) THEN SaveLater ELSE NoSave
     /\ UNCHANGED builtins
-----------------------------------------------------------------------------
\* flash_task, or another setting that is saved at once.
Save ==
  /\ flash' = settings /\ save_pending' = FALSE /\ saved' = kept
  /\ UNCHANGED <<builtins, settings, active_index, ephemeral_active,
                 ephemeral_active_idx, selected, applied, kept, stale>>

\* The power goes and comes back: what was not written is lost.
Reboot ==
  /\ settings' = flash /\ save_pending' = FALSE
  /\ active_index' = BootBuiltin(flash)
  /\ ephemeral_active' = FALSE /\ ephemeral_active_idx' = -1
  /\ Keeps(saved)
  /\ UNCHANGED <<builtins, flash, saved>>

SelectNext ==
  \/ \E u \in 0 .. Total - 1 :
        \/ cmd_profile_set(u)
        \/ cmd_profile_select(u)
        \/ cmd_profile_save(u)
        \/ cmd_profile_delete(u)
        \/ \E off \in BOOLEAN : cmd_profile_disable(u, off)
  \/ cmd_profile_apply
  \/ cmd_profile_clear
  \/ cmd_profile_clone
  \/ \E dir \in {-1, 1}, wrap \in BOOLEAN :
        LegacyCycle(dir, wrap) \/ UnifiedCycle(dir, wrap)
  \/ Save
  \/ Reboot

SelectSpec == SelectInit /\ [][SelectNext]_selectVars
-----------------------------------------------------------------------------
\* Types, and the shape of the list in RAM and in flash: the profiles are packed
\* and none is there twice.
ListOK(s) ==
  /\ \A i \in Positions : (s.profiles[i] # NoProfile) <=> i <= s.count
  /\ \A i, j \in Positions : s.profiles[i] = s.profiles[j] /\ i <= s.count => i = j
SelectTypeOK ==
  /\ builtins \in BuiltinCounts
  /\ settings \in Settings /\ flash \in Settings
  /\ ListOK(settings) /\ ListOK(flash)
  /\ save_pending \in BOOLEAN
  /\ active_index \in Nat
  /\ ephemeral_active \in BOOLEAN
  /\ ephemeral_active_idx \in -1 .. MaxCustom
  /\ stale \in BOOLEAN

\* The profile in effect is the one that was chosen last, by SET, SELECT, APPLY,
\* CLEAR, the hotkeys or a boot ("built-in wins" when no custom one is selected,
\* profile.c:290): none of the four places overrides a later choice, and adding
\* or deleting other profiles changes nothing.  A deletion below the index of
\* PROFILE.SELECT is excepted (stale).
ChosenInEffect == ~stale => InEffect = IF applied THEN Applied ELSE selected

\* Types, packed lists, and that.
SelectionOK == SelectTypeOK /\ ChosenInEffect

\* After a power cycle "whatever was last persisted ... is what comes back"
\* (cdc_commands.c:1879): a selection in RAM never reaches the flash, not even
\* with the save of another setting, and the list and the byte stay together.
\* And a choice that is meant to last waits for its save as long as the flash
\* does not have it.
BootFindsKept == BootProfile = saved /\ (~save_pending => saved = kept)

\* The properties of the search for lists of a length, up to three built-in
\* profiles and any of them disabled; and their table, evaluated once.
CycleIsComplete(custom) ==
  \A start \in 1 .. 3 : \A disabled \in SUBSET (0 .. start - 1) :
    LET total == start + custom
        on == {u \in 0 .. total - 1 : Enabled(u, start, disabled)}
        Up(u) == cycle_find(u, total, start, disabled, -1, TRUE)
        Down(u) == cycle_find(u, total, start, disabled, 1, TRUE)
    IN /\ {Down(u) : u \in on} = on
       /\ \A u \in on : Up(Down(u)) = u /\ Down(Up(u)) = u
       /\ \A u, v \in on : u < v /\ (\A w \in on : w <= u \/ w >= v) =>
            /\ v = cycle_find(u, total, start, disabled, 1, FALSE)
            /\ u = cycle_find(v, total, start, disabled, -1, FALSE)
CycleTable == [custom \in 0 .. MaxCustom |-> CycleIsComplete(custom)]

\* The cycle of the hotkeys goes through every profile that is not disabled and
\* through no other, the two directions undo each other, and without wrapping
\* it does not jump over one, for every list the commands leave behind.
CycleReachesAll == CycleTable[settings.count]
=============================================================================
