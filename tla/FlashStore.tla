------------------------------ MODULE FlashStore ------------------------------
(***************************************************************************)
(* The settings store (core/services/storage/flash.c): a journal of        *)
(* sequence-numbered records in two flash sectors, the settings in RAM,    *)
(* the debounced save, the immediate save, the factory reset, and power    *)
(* that may fail at any moment.                                            *)
(*                                                                         *)
(* Contents are abstract: content 0 is the all-zero record, and every      *)
(* change of the settings makes a content that was never there before, so  *)
(* a larger number is a later change.                                      *)
(***************************************************************************)
EXTENDS Integers

CONSTANTS SlotsPerSector,   \* pages of a sector (16 in the code)
          WholePages,       \* TRUE: a cut leaves every page done or untouched
          MaxChanges        \* bound: changes and resets of one behaviour

ASSUME FlashAssumption == /\ SlotsPerSector \in Nat \ {0}
                          /\ WholePages \in BOOLEAN
                          /\ MaxChanges \in Nat

VARIABLES
  page,               \* the flash: the pages of sector A, then those of B
  pc,                 \* off, idle, or inside flash_save_now: erase, program
  target,             \* the page flash_save_now has chosen
  writing,            \* write_settings, the record it writes
  current_sequence,
  runtime_settings,
  pending_settings, save_pending,
  due,                \* SAVE_DEBOUNCE_MS have passed since last_change_time
  rebooting,          \* pending_reboot of the CDC commands
  changes,            \* history: the last content made
  wiped               \* history: nothing was changed since a factory reset

ram == <<current_sequence, runtime_settings, pending_settings, save_pending,
         due, rebooting>>
vars == <<page, pc, target, writing, ram, changes, wiped>>
-----------------------------------------------------------------------------
Default    == 0
Unreadable == -1    \* magic is right, schema_version is not
Content    == Nat
Record     == [seq : Nat, rec : Content \union {Unreadable}]
NoRecord   == [seq |-> 0, rec |-> Unreadable]

\* Pages without a valid record.  The sequence word of an erased page reads as
\* empty, and so does that of a dirty one, whose other words are programmed; a
\* dead page has a sequence number but no magic.
Blank(kind) == [seq |-> -1, rec |-> kind]
Erased == Blank(0)
Dirty  == Blank(1)
Dead   == [seq |-> -2, rec |-> 0]
Page   == Record \union {Erased, Dirty, Dead}

Slots     == 0 .. (2 * SlotsPerSector - 1)
Sector(i) == IF i < SlotsPerSector THEN 0 ELSE 1
FirstOf(s) == IF s = 0 THEN 0 ELSE SlotsPerSector
SlotsOf(s) == {i \in Slots : Sector(i) = s}

is_slot_empty(i) == page[i] \in {Erased, Dirty}
IsValid(i) == page[i] \in Record

\* find_newest_slot: the highest sequence number, the first slot that has it.
IsNewest(i) ==
  /\ i \in Slots /\ IsValid(i)
  /\ \A j \in Slots : IsValid(j) =>
        \/ page[j].seq < page[i].seq
        \/ page[j].seq = page[i].seq /\ i <= j
NoneValid   == \A i \in Slots : ~IsValid(i)
NewestSlot  == CHOOSE i \in Slots : IsNewest(i)

\* The sector find_empty_slot looks into first.
NewestSector == IF NoneValid THEN 0 ELSE Sector(NewestSlot)
OtherSector  == 1 - NewestSector

\* The sector flash_save_now erases when no slot is empty.
EraseSectorOfNewest == NewestSector    \* mutant
EraseSector  == 1 - NewestSector

\* find_empty_slot: i is the first empty slot of the sector with the newest
\* record or, when that one is full, of the other.
FirstEmptyIn(s, i) == /\ i \in SlotsOf(s) /\ is_slot_empty(i)
                      /\ \A j \in SlotsOf(s) : is_slot_empty(j) => i <= j
FullSector(s) == \A i \in SlotsOf(s) : ~is_slot_empty(i)
IsTarget(i) == \/ FirstEmptyIn(NewestSector, i)
               \/ FullSector(NewestSector) /\ FirstEmptyIn(OtherSector, i)

\* flash_load of the newest record: another schema version is no settings.
Load(rec) == IF rec = Unreadable THEN Default ELSE rec
Stored == IF NoneValid THEN Default ELSE Load(page[NewestSlot].rec)

\* Programming clears bits: over a page that is not erased two records mix.
Programmed(old, new) ==
  IF old = Erased THEN new ELSE [new EXCEPT !.rec = Unreadable]
-----------------------------------------------------------------------------
\* A new part, or one with a record an older firmware left.
Init ==
  /\ \E old \in {Erased, [seq |-> 1, rec |-> Unreadable]} :
        page = [i \in Slots |-> IF i = 0 THEN old ELSE Erased]
  /\ pc = "off" /\ target = 0 /\ writing = NoRecord
  /\ current_sequence = 0 /\ runtime_settings = Default
  /\ pending_settings = Default /\ save_pending = FALSE /\ due = FALSE
  /\ rebooting = FALSE
  /\ changes = 0 /\ wiped = FALSE

\* Mutant: the sequence numbers start again.
BootAtZero ==
  /\ pc = "off"
  /\ pc' = "idle"
  /\ current_sequence' = 0
  /\ runtime_settings' = Stored
  /\ pending_settings' = Default /\ save_pending' = FALSE /\ due' = FALSE
  /\ rebooting' = FALSE
  /\ UNCHANGED <<page, target, writing, changes, wiped>>

\* flash_init.
Boot ==
  /\ pc = "off"
  /\ pc' = "idle"
  /\ current_sequence' = IF NoneValid THEN 0 ELSE page[NewestSlot].seq
  /\ runtime_settings' = Stored
  /\ pending_settings' = Default /\ save_pending' = FALSE /\ due' = FALSE
  /\ rebooting' = FALSE
  /\ UNCHANGED <<page, target, writing, changes, wiped>>

\* flash_save_now up to its first access to the flash.
BeginSave(content) ==
  /\ current_sequence' = current_sequence + 1
  /\ writing' = [seq |-> current_sequence + 1, rec |-> content]
  /\ \/ \E i \in Slots : /\ IsTarget(i)
                         /\ target' = i
                         /\ pc' = "program"
     \/ /\ \A i \in Slots : ~is_slot_empty(i)
        /\ target' = FirstOf(EraseSector)
        /\ pc' = "erase"
  /\ UNCHANGED page

Fresh == changes + 1

\* Mutant: the copy taken at the first change is kept.
ChangeKeepingCopy ==
  /\ pc = "idle" /\ changes < MaxChanges
  /\ changes' = Fresh
  /\ runtime_settings' = Fresh
  /\ pending_settings' = IF save_pending THEN pending_settings ELSE Fresh
  /\ save_pending' = TRUE /\ due' = FALSE
  /\ wiped' = (wiped /\ rebooting)
  /\ UNCHANGED <<page, pc, target, writing, current_sequence, rebooting>>

\* A setting changes and flash_save defers the write (flash_set_dpad_mode,
\* PROFILE.SAVE, the deferred profile switch, ...).
Change ==
  /\ pc = "idle" /\ changes < MaxChanges
  /\ changes' = Fresh
  /\ runtime_settings' = Fresh
  /\ pending_settings' = Fresh /\ save_pending' = TRUE /\ due' = FALSE
  /\ wiped' = (wiped /\ rebooting)
  /\ UNCHANGED <<page, pc, target, writing, current_sequence, rebooting>>

\* A setting changes and is written at once (PROFILE.SET, a switch of the USB
\* or BLE mode, ROUTER.SET); some of these callers reboot afterwards.
ChangeNow ==
  /\ pc = "idle" /\ changes < MaxChanges
  /\ changes' = Fresh
  /\ runtime_settings' = Fresh
  /\ BeginSave(Fresh)
  /\ rebooting' \in {rebooting, TRUE}
  /\ wiped' = FALSE
  /\ UNCHANGED <<pending_settings, save_pending, due>>

\* SETTINGS.RESET: an all-zero record is written, and a reboot requested; the
\* settings in RAM stay as they are.
FactoryReset ==
  /\ pc = "idle" /\ changes < MaxChanges
  /\ changes' = Fresh
  /\ BeginSave(Default)
  /\ rebooting' = TRUE
  /\ UNCHANGED <<runtime_settings, pending_settings, save_pending, due, wiped>>

\* The debounce of 5 s ends; a reboot comes 50 ms after its request.
Elapse ==
  /\ pc = "idle" /\ save_pending /\ ~due /\ ~rebooting
  /\ due' = TRUE
  /\ UNCHANGED <<page, pc, target, writing, current_sequence, runtime_settings,
                 pending_settings, save_pending, rebooting, changes, wiped>>

flash_task ==
  /\ pc = "idle" /\ save_pending /\ due
  /\ BeginSave(pending_settings)
  /\ UNCHANGED <<runtime_settings, pending_settings, save_pending, due,
                 rebooting, changes, wiped>>

flash_erase_sector ==
  /\ pc = "erase"
  /\ page' = [i \in Slots |-> IF Sector(i) = Sector(target) THEN Erased ELSE page[i]]
  /\ pc' = "program"
  /\ UNCHANGED <<target, writing, ram, changes, wiped>>

\* Mutant: save_pending survives the save.
WritePageStillPending ==
  /\ pc = "program"
  /\ page' = [page EXCEPT ![target] = Programmed(@, writing)]
  /\ pc' = "idle"
  /\ wiped' = (wiped \/ writing.rec = Default)
  /\ UNCHANGED <<target, writing, ram, changes>>

\* flash_write_page, the read-back that only prints, and the end of the save.
flash_write_page ==
  /\ pc = "program"
  /\ page' = [page EXCEPT ![target] = Programmed(@, writing)]
  /\ save_pending' = FALSE
  /\ pc' = "idle"
  /\ wiped' = (wiped \/ writing.rec = Default)
  /\ UNCHANGED <<target, writing, current_sequence, runtime_settings,
                 pending_settings, due, rebooting, changes>>

\* What a page may be after a cut in the middle of programming or erasing it.
\* Whole pages: done or untouched.  Otherwise any part of it may be done.
CutProgram(old, new) ==
  {old, Programmed(old, new)} \union
     IF WholePages THEN {} ELSE {Dirty, Dead, [new EXCEPT !.rec = Unreadable]}
CutErase(old) ==
  {old, Erased} \union IF WholePages THEN {} ELSE {Dirty, Dead}

\* The power fails; what was in RAM is gone.
PowerOff ==
  /\ pc # "off"
  /\ pc' = "off"
  /\ \/ pc = "idle" /\ UNCHANGED <<page, wiped>>
     \/ /\ pc = "erase"
        /\ page' \in {f \in [Slots -> {page[i] : i \in Slots} \union {Erased, Dirty, Dead}] :
                        \A i \in Slots :
                           IF Sector(i) = Sector(target)
                           THEN f[i] \in CutErase(page[i])
                           ELSE f[i] = page[i]}
        /\ UNCHANGED wiped
     \/ /\ pc = "program"
        /\ \E p \in CutProgram(page[target], writing) :
              /\ page' = [page EXCEPT ![target] = p]
              /\ wiped' = (wiped \/ p = [writing EXCEPT !.rec = Default])
  /\ UNCHANGED <<target, writing, ram, changes>>

\* cdc_commands_task carries out the requested reboot.
Reboot ==
  /\ pc = "idle" /\ rebooting
  /\ pc' = "off"
  /\ UNCHANGED <<page, target, writing, ram, changes, wiped>>

Next == \/ Boot \/ Change \/ ChangeNow \/ FactoryReset \/ Elapse
        \/ flash_task \/ flash_erase_sector \/ flash_write_page
        \/ PowerOff \/ Reboot

Spec == Init /\ [][Next]_vars

\* The main loop calls flash_task and cdc_commands_task for ever, time passes,
\* and flash_save_now runs to its end unless the power fails.
LiveSpec == /\ Spec
            /\ WF_vars(Elapse) /\ WF_vars(flash_task)
            /\ WF_vars(flash_erase_sector) /\ WF_vars(flash_write_page)
            /\ WF_vars(Reboot)
-----------------------------------------------------------------------------
\* Every variable has its type.
TypeOK ==
  /\ page \in [Slots -> Page]
  /\ pc \in {"off", "idle", "erase", "program"}
  /\ target \in Slots
  /\ writing \in Record
  /\ current_sequence \in Nat
  /\ runtime_settings \in Content /\ pending_settings \in Content
  /\ save_pending \in BOOLEAN /\ due \in BOOLEAN /\ rebooting \in BOOLEAN
  /\ changes \in Nat /\ wiped \in BOOLEAN

InWrite == pc \in {"erase", "program"}

\* The journal, which no cut may confuse: sequence numbers are unique and none
\* is above current_sequence, the page about to be programmed is erased, and the
\* sector about to be erased is not the one with the newest record ("we only
\* erase the sector without valid data", flash.c:320).
NumbersUnique == \A i, j \in Slots :
  IsValid(i) /\ IsValid(j) /\ page[i].seq = page[j].seq => i = j
NumbersBelow ==
  /\ pc = "idle" => \A i \in Slots : IsValid(i) => page[i].seq <= current_sequence
  /\ InWrite => /\ writing.seq = current_sequence
                /\ \A i \in Slots : IsValid(i) => page[i].seq < writing.seq
JournalInv ==
  /\ NumbersUnique /\ NumbersBelow
  /\ NoneValid \/ \E i \in Slots : IsNewest(i)
  /\ pc = "program" => page[target] = Erased
  /\ pc = "erase" => \E i \in Slots : IsNewest(i) /\ Sector(i) # Sector(target)
  /\ InWrite => writing.rec \in Content

\* The types and the journal.
JournalOK == TypeOK /\ JournalInv

Store == INSTANCE SettingsStore
           WITH on       <- pc # "off",
                stored   <- Stored,
                settings <- runtime_settings,
                writing  <- IF InWrite THEN writing.rec ELSE -1,
                None     <- -1

\* "Settings persist across power cycles" (flash.h:9): whatever is saved, and
\* wherever the power fails, the journal behaves as one record that is written
\* atomically.  A search order, an erase or a sequence number that is wrong
\* shows as a boot that finds an older record, or none.
SettingsPersist == Store!Spec

\* No save brings back an older content than the one in flash: the copy that
\* waits for the debounce must not overtake a later immediate save.  Only a
\* factory reset goes back, to the defaults.
NoRevert == [][\/ Stored' >= Stored
               \/ Stored' = Default /\ InWrite /\ writing.rec = Default]_vars

\* After a factory reset the defaults stay in flash, over any number of boots,
\* until something is changed again: no save that was pending undoes it.
ResetSticks == wiped => Stored = Default

\* What is in RAM reaches the flash unless the device stops before: no caller
\* is needed once the debounce runs, and a later change restarts it only.
RuntimeReachesFlash ==
  (pc # "off" /\ runtime_settings # Stored) ~> (pc = "off" \/ runtime_settings = Stored)
=============================================================================
