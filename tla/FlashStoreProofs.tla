--------------------------- MODULE FlashStoreProofs ---------------------------
(***************************************************************************)
(* Proofs about the settings store, for sectors of any size.  Where pages  *)
(* are written whole, the journal is an atomic cell: the key is JournalInv *)
(* together with the fact that then every page is erased or holds a        *)
(* record, so that a journal without an empty page has a newest record.    *)
(***************************************************************************)
EXTENDS FlashStore, TLAPS

\* No torn pages.
AllWhole == \A i \in Slots : page[i] \in Record \union {Erased}

IInv == TypeOK /\ AllWhole /\ JournalInv

LEMMA SlotFacts == /\ \A i \in Slots : Sector(i) \in {0, 1}
                   /\ \A s \in {0, 1} : FirstOf(s) \in Slots /\ Sector(FirstOf(s)) = s
  BY FlashAssumption DEF Slots, Sector, FirstOf

\* A record is no blank page.
LEMMA Blanks ==
  /\ Erased \notin Record /\ Dirty \notin Record /\ Dead \notin Record
  /\ Erased.seq = -1 /\ Erased # Dirty
  BY DEF Record, Erased, Dirty, Dead, Blank

LEMMA PageType == Record \union {Erased} \subseteq Page
  BY DEF Page

\* The newest record is unique.
LEMMA NewestIs == ASSUME TypeOK, NEW n, IsNewest(n)
                  PROVE  NewestSlot = n /\ ~NoneValid
<1>1. \A i : IsNewest(i) => i = n
  <2> SUFFICES ASSUME NEW i, IsNewest(i) PROVE i = n
    OBVIOUS
  <2>1. page[i] \in Record /\ page[n] \in Record /\ i \in Slots /\ n \in Slots
    BY DEF IsNewest, IsValid
  <2>2. page[i].seq \in Nat /\ page[n].seq \in Nat /\ i \in Int /\ n \in Int
    BY <2>1, FlashAssumption DEF Record, Slots
  <2>3. page[n].seq < page[i].seq \/ (page[n].seq = page[i].seq /\ i <= n)
    BY <2>1 DEF IsNewest, IsValid
  <2>4. page[i].seq < page[n].seq \/ (page[i].seq = page[n].seq /\ n <= i)
    BY <2>1 DEF IsNewest, IsValid
  <2> QED BY <2>2, <2>3, <2>4
<1> QED BY <1>1 DEF NewestSlot, NoneValid, IsNewest

LEMMA StoredIs == ASSUME TypeOK, NEW n, IsNewest(n)
                  PROVE  Stored = Load(page[n].rec)
  BY NewestIs DEF Stored

\* The same of the state after a step.
LEMMA StoredIsNext == ASSUME NEW n, IsNewest(n)'
                      PROVE  Stored' = Load(page'[n].rec)
<1>1. \A i : IsNewest(i)' => i = n
  <2> SUFFICES ASSUME NEW i, IsNewest(i)' PROVE i = n
    OBVIOUS
  <2>1. i \in Slots /\ IsValid(i)' /\ n \in Slots /\ IsValid(n)'
    BY DEF IsNewest
  <2>2. i \in Int /\ n \in Int /\ page'[i].seq \in Nat /\ page'[n].seq \in Nat
    BY <2>1, FlashAssumption DEF Slots, IsValid, Record
  <2>3. page'[n].seq < page'[i].seq \/ (page'[n].seq = page'[i].seq /\ i <= n)
    BY <2>1 DEF IsNewest
  <2>4. page'[i].seq < page'[n].seq \/ (page'[i].seq = page'[n].seq /\ n <= i)
    BY <2>1 DEF IsNewest
  <2> QED BY <2>2, <2>3, <2>4
<1> QED BY <1>1 DEF Stored, NewestSlot, NoneValid, IsNewest

LEMMA LoadType == \A r \in Content \union {Unreadable} : Load(r) \in Content
  BY DEF Load, Content, Default, Unreadable

LEMMA StoredType == ASSUME TypeOK, NoneValid \/ \E i \in Slots : IsNewest(i)
                    PROVE  Stored \in Content
<1>1. CASE NoneValid
  BY <1>1 DEF Stored, Default, Content
<1>2. ASSUME NEW n \in Slots, IsNewest(n) PROVE Stored \in Content
  <2>1. page[n] \in Record
    BY <1>2 DEF IsNewest, IsValid
  <2>2. page[n].rec \in Content \union {Unreadable}
    BY <2>1 DEF Record
  <2> QED BY <2>2, <1>2, StoredIs, LoadType
<1> QED BY <1>1, <1>2

\* Without an empty page every page has a record, so there is a newest one.
LEMMA FullHasNewest ==
  ASSUME IInv, \A i \in Slots : ~is_slot_empty(i)
  PROVE  \E i \in Slots : IsNewest(i) /\ NewestSector = Sector(i)
<1>1. \A i \in Slots : IsValid(i)
  BY DEF IInv, AllWhole, is_slot_empty, IsValid
<1>2. FirstOf(0) \in Slots
  BY SlotFacts
<1>3. PICK n \in Slots : IsNewest(n)
  BY <1>1, <1>2 DEF IInv, JournalInv, NoneValid
<1>4. NewestSector = Sector(n)
  BY <1>3, NewestIs DEF IInv, NewestSector
<1> QED BY <1>3, <1>4

LEMMA EmptyIsErased == ASSUME IInv, NEW i \in Slots, is_slot_empty(i)
                       PROVE  page[i] = Erased
  BY Blanks DEF IInv, AllWhole, is_slot_empty
-----------------------------------------------------------------------------
\* What a save leaves when it begins.
LEMMA BeginSaveKeeps ==
  ASSUME IInv, pc = "idle", NEW c \in Content, BeginSave(c)
  PROVE  /\ page' = page
         /\ current_sequence' \in Nat /\ writing' \in Record /\ writing'.rec = c
         /\ writing'.seq = current_sequence'
         /\ target' \in Slots /\ pc' \in {"erase", "program"}
         /\ \A i \in Slots : IsValid(i) => page[i].seq < writing'.seq
         /\ pc' = "program" => page[target'] = Erased
         /\ pc' = "erase" => \E i \in Slots : IsNewest(i) /\ Sector(i) # Sector(target')
<1>1. page' = page /\ current_sequence' \in Nat
  BY DEF BeginSave, IInv, TypeOK
<1>2. writing' \in Record /\ writing'.rec = c /\ writing'.seq = current_sequence'
  BY <1>1 DEF BeginSave, Record
<1>3. \A i \in Slots : IsValid(i) => page[i].seq < writing'.seq
  <2>1. \A i \in Slots : IsValid(i) => page[i].seq \in Nat
    BY DEF IsValid, Record
  <2> QED BY <2>1 DEF BeginSave, IInv, TypeOK, JournalInv, NumbersBelow
<1>4. CASE pc' = "program"
  <2>1. target' \in Slots /\ is_slot_empty(target')
    BY <1>4 DEF BeginSave, IsTarget, FirstEmptyIn, SlotsOf
  <2> QED BY <1>1, <1>2, <1>3, <1>4, <2>1, EmptyIsErased
<1>5. CASE pc' = "erase"
  <2>1. (\A i \in Slots : ~is_slot_empty(i)) /\ target' = FirstOf(EraseSector)
    BY <1>5 DEF BeginSave
  <2>2. PICK n \in Slots : IsNewest(n) /\ NewestSector = Sector(n)
    BY <2>1, FullHasNewest
  <2>3. EraseSector \in {0, 1} /\ EraseSector # Sector(n)
    BY <2>2, SlotFacts DEF EraseSector
  <2>4. target' \in Slots /\ Sector(target') # Sector(n)
    BY <2>1, <2>3, SlotFacts
  <2> QED BY <1>1, <1>2, <1>3, <1>5, <2>2, <2>4
<1>6. pc' \in {"program", "erase"}
  BY DEF BeginSave
<1> QED BY <1>4, <1>5, <1>6

\* With the same pages, nothing about the journal's pages changes.
LEMMA SamePages ==
  ASSUME page' = page
  PROVE  /\ AllWhole' = AllWhole /\ NoneValid' = NoneValid /\ NumbersUnique' = NumbersUnique
         /\ \A i \in Slots : IsNewest(i)' = IsNewest(i) /\ IsValid(i)' = IsValid(i)
         /\ Stored' = Stored
  BY DEF AllWhole, NoneValid, NumbersUnique, IsNewest, IsValid, Stored, NewestSlot

\* Erasing some pages of a sector without the newest record keeps it newest.
LEMMA ErasedAround ==
  ASSUME IInv, page' \in [Slots -> Page], NEW n \in Slots, IsNewest(n),
         page'[n] = page[n],
         \A i \in Slots : page'[i] \in {page[i], Erased}
  PROVE  /\ IsNewest(n)' /\ AllWhole' /\ NumbersUnique'
         /\ \A i \in Slots : IsValid(i)' => IsValid(i) /\ page'[i] = page[i]
<1>1. \A i \in Slots : IsValid(i)' => IsValid(i) /\ page'[i] = page[i]
  BY Blanks DEF IsValid
<1>2. IsNewest(n)'
  BY <1>1 DEF IsNewest, IsValid
<1>3. AllWhole'
  BY DEF AllWhole, IInv
<1>4. NumbersUnique'
  BY <1>1 DEF NumbersUnique, IInv, JournalInv
<1> QED BY <1>1, <1>2, <1>3, <1>4

\* Writing a record with the highest number into an erased page makes it the
\* newest.
LEMMA WrittenIsNewest ==
  ASSUME IInv, pc = "program", NEW t, t = target,
         page' = [page EXCEPT ![t] = writing]
  PROVE  /\ IsNewest(t)' /\ AllWhole' /\ NumbersUnique'
         /\ page' \in [Slots -> Page]
         /\ \A i \in Slots : IsValid(i)' => page'[i].seq <= current_sequence
<1>1. t \in Slots /\ writing \in Record /\ page \in [Slots -> Page]
  BY DEF IInv, TypeOK
<1>2. page'[t] = writing /\ \A i \in Slots : i # t => page'[i] = page[i]
  BY <1>1
<1>3. page' \in [Slots -> Page] /\ AllWhole'
  BY <1>1, <1>2 DEF Page, AllWhole, IInv
<1>4. \A i \in Slots : IsValid(i)' => i = t \/ (IsValid(i) /\ page'[i] = page[i])
  BY <1>2 DEF IsValid
<1>5. /\ writing.seq = current_sequence /\ writing.seq \in Nat
      /\ \A i \in Slots : IsValid(i) => page[i].seq < writing.seq
      /\ \A i \in Slots : IsValid(i) => page[i].seq \in Nat
  BY <1>1 DEF IInv, JournalInv, NumbersBelow, InWrite, IsValid, Record
<1>6. \A i \in Slots : IsValid(i)' => i = t \/ page'[i].seq < writing.seq
  BY <1>4, <1>5
<1>7. IsNewest(t)'
  <2>1. IsValid(t)'
    BY <1>1, <1>2 DEF IsValid
  <2> SUFFICES ASSUME NEW j \in Slots, IsValid(j)'
               PROVE  \/ page'[j].seq < page'[t].seq
                      \/ page'[j].seq = page'[t].seq /\ t <= j
    BY <1>1, <1>2 DEF IsNewest, IsValid
  <2>2. t \in Int
    BY <1>1, FlashAssumption DEF Slots
  <2> QED BY <1>2, <1>6, <2>2
<1>8. NumbersUnique'
  <2> SUFFICES ASSUME NEW i \in Slots, NEW j \in Slots, IsValid(i)', IsValid(j)',
                      page'[i].seq = page'[j].seq
               PROVE  i = j
    BY DEF NumbersUnique, IsValid
  <2>1. CASE i = t \/ j = t
    BY <2>1, <1>2, <1>5, <1>6
  <2>2. CASE i # t /\ j # t
    BY <2>2, <1>4 DEF IInv, JournalInv, NumbersUnique
  <2> QED BY <2>1, <2>2
<1>9. \A i \in Slots : IsValid(i)' => page'[i].seq <= current_sequence
  BY <1>2, <1>4, <1>5
<1> QED BY <1>3, <1>7, <1>8, <1>9
-----------------------------------------------------------------------------
LEMMA InitInv == Init => IInv
<1> SUFFICES ASSUME Init PROVE IInv
  OBVIOUS
<1> DEFINE OldRecord == [seq |-> 1, rec |-> Unreadable]
<1>1. OldRecord \in Record /\ NoRecord \in Record
  BY DEF Record, NoRecord
<1>2. PICK old \in {Erased, OldRecord} :
        page = [i \in Slots |-> IF i = 0 THEN old ELSE Erased]
  BY DEF Init
<1>3. 0 \in Slots
  BY FlashAssumption DEF Slots
<1>4. TypeOK /\ AllWhole
  BY <1>1, <1>2, <1>3 DEF Init, TypeOK, AllWhole, Page, Content, Default
<1>5. \A i \in Slots : IsValid(i) => i = 0
  BY <1>2, Blanks DEF IsValid
<1>6. NumbersUnique /\ NumbersBelow
  BY <1>5 DEF NumbersUnique, NumbersBelow, Init, InWrite
<1>7. NoneValid \/ \E i \in Slots : IsNewest(i)
  BY <1>3, <1>5 DEF NoneValid, IsNewest
<1> QED BY <1>4, <1>6, <1>7 DEF IInv, JournalInv, Init, InWrite

\* A step that begins a save keeps the invariant.
LEMMA BeginSaveInv ==
  ASSUME IInv, pc = "idle", NEW c \in Content, BeginSave(c),
         runtime_settings' \in Content, pending_settings' \in Content,
         save_pending' \in BOOLEAN, due' \in BOOLEAN, rebooting' \in BOOLEAN,
         changes' \in Nat, wiped' \in BOOLEAN
  PROVE  IInv'
<1>1. page' = page
  BY BeginSaveKeeps
<1>2. TypeOK'
  BY BeginSaveKeeps DEF IInv, TypeOK
<1>3. AllWhole' /\ NumbersUnique' /\ (NoneValid \/ \E i \in Slots : IsNewest(i))'
  BY <1>1, SamePages DEF IInv, JournalInv
<1>4. NumbersBelow'
  BY BeginSaveKeeps DEF NumbersBelow, InWrite, IsValid
<1>5. /\ pc' = "program" => page'[target'] = Erased
      /\ pc' = "erase" => \E i \in Slots : IsNewest(i)' /\ Sector(i) # Sector(target')
      /\ writing'.rec \in Content
  BY <1>1, BeginSaveKeeps, SamePages
<1> QED BY <1>2, <1>3, <1>4, <1>5 DEF IInv, JournalInv

\* A step outside a save that leaves the flash alone keeps it, too.
LEMMA QuietInv ==
  ASSUME IInv, page' = page, ~InWrite', target' = target, writing' = writing,
         pc' \in {"off", "idle"}, current_sequence' \in Nat,
         \A i \in Slots : IsValid(i) => page[i].seq <= current_sequence',
         runtime_settings' \in Content, pending_settings' \in Content,
         save_pending' \in BOOLEAN, due' \in BOOLEAN, rebooting' \in BOOLEAN,
         changes' \in Nat, wiped' \in BOOLEAN
  PROVE  IInv'
<1>1. TypeOK'
  BY DEF IInv, TypeOK
<1>2. AllWhole' /\ NumbersUnique' /\ (NoneValid \/ \E i \in Slots : IsNewest(i))'
  BY SamePages DEF IInv, JournalInv
<1>3. NumbersBelow'
  BY DEF NumbersBelow, IsValid
<1> QED BY <1>1, <1>2, <1>3 DEF IInv, JournalInv, InWrite

\* At a boot current_sequence becomes the number of the newest record.
LEMMA BootNumbers ==
  ASSUME IInv, Boot
  PROVE  /\ current_sequence' \in Nat
         /\ \A i \in Slots : IsValid(i) => page[i].seq <= current_sequence'
<1>1. CASE NoneValid
  BY <1>1 DEF Boot, NoneValid
<1>2. CASE ~NoneValid
  <2>1. PICK n \in Slots : IsNewest(n)
    BY <1>2 DEF IInv, JournalInv
  <2>2. current_sequence' = page[n].seq
    BY <1>2, <2>1, NewestIs DEF Boot, IInv
  <2>3. \A i \in Slots : IsValid(i) => page[i].seq \in Nat
    BY DEF IsValid, Record
  <2> QED BY <2>1, <2>2, <2>3 DEF IsNewest
<1> QED BY <1>1, <1>2

\* A cut while the sector is erased leaves each of its pages as it was, or
\* erased; a cut while a page is programmed leaves it erased, or done.
LEMMA CutErasing ==
  ASSUME WholePages, IInv, pc = "erase", PowerOff
  PROVE  /\ page' \in [Slots -> Page]
         /\ \A i \in Slots : page'[i] \in {page[i], Erased}
         /\ \A i \in Slots : Sector(i) # Sector(target) => page'[i] = page[i]
<1>1. PICK f \in [Slots -> {page[i] : i \in Slots} \union {Erased, Dirty, Dead}] :
        /\ page' = f
        /\ \A i \in Slots : IF Sector(i) = Sector(target) THEN f[i] \in CutErase(page[i])
                                                        ELSE f[i] = page[i]
  BY DEF PowerOff
<1>2. \A i \in Slots : f[i] \in {page[i], Erased}
  BY <1>1 DEF CutErase
<1>3. \A i \in Slots : page[i] \in Page
  BY DEF IInv, TypeOK
<1>4. f \in [Slots -> Page]
  BY <1>1, <1>2, <1>3 DEF Page
<1> QED BY <1>1, <1>2, <1>4

LEMMA CutProgramming ==
  ASSUME WholePages, IInv, pc = "program", PowerOff
  PROVE  page' = page \/ page' = [page EXCEPT ![target] = writing]
<1>1. PICK p \in CutProgram(page[target], writing) : page' = [page EXCEPT ![target] = p]
  BY DEF PowerOff
<1>2. page[target] = Erased
  BY DEF IInv, JournalInv
<1>3. p \in {page[target], writing}
  BY <1>1, <1>2 DEF CutProgram, Programmed
<1>4. page \in [Slots -> Page]
  BY DEF IInv, TypeOK
<1> QED BY <1>1, <1>3, <1>4

\* After a save is cut, or ends, with the page written or not.
LEMMA AfterProgram ==
  ASSUME IInv, pc = "program", ~InWrite', pc' \in {"off", "idle"},
         page' = page \/ page' = [page EXCEPT ![target] = writing],
         target' = target, writing' = writing, current_sequence' = current_sequence,
         runtime_settings' \in Content, pending_settings' \in Content,
         save_pending' \in BOOLEAN, due' \in BOOLEAN, rebooting' \in BOOLEAN,
         changes' \in Nat, wiped' \in BOOLEAN
  PROVE  /\ IInv'
         /\ page' = page => Stored' = Stored
         /\ page' # page => Stored' = writing.rec
<1>0. current_sequence \in Nat
  BY DEF IInv, TypeOK
<1>1. CASE page' = page
  <2>1. \A i \in Slots : IsValid(i) => page[i].seq \in Nat
    BY DEF IsValid, Record
  <2>2. \A i \in Slots : IsValid(i) => page[i].seq <= current_sequence
    BY <2>1, <1>0 DEF IInv, JournalInv, NumbersBelow, InWrite
  <2> QED BY <1>0, <1>1, <2>2, QuietInv, SamePages
<1>2. CASE page' = [page EXCEPT ![target] = writing]
  <2>1. /\ AllWhole' /\ NumbersUnique' /\ page' \in [Slots -> Page]
        /\ \A i \in Slots : IsValid(i)' => page'[i].seq <= current_sequence
        /\ (\E i \in Slots : IsNewest(i))'
        /\ Stored' = Load(writing.rec)
    <3>1. PICK t : t = target
      OBVIOUS
    <3>2. t \in Slots /\ page \in [Slots -> Page]
      BY <3>1 DEF IInv, TypeOK
    <3>3. IsNewest(t)' /\ page'[t] = writing
      BY <1>2, <3>1, <3>2, WrittenIsNewest
    <3>4. Stored' = Load(writing.rec)
      BY <3>3, StoredIsNext
    <3> QED BY <1>2, <3>1, <3>2, <3>3, <3>4, WrittenIsNewest
  <2>2. TypeOK'
    BY <2>1 DEF IInv, TypeOK
  <2>3. NumbersBelow'
    BY <2>1 DEF NumbersBelow
  <2>4. Load(writing.rec) = writing.rec
    BY DEF Load, IInv, JournalInv, InWrite, Content, Unreadable
  <2> QED BY <2>1, <2>2, <2>3, <2>4, SamePages DEF IInv, JournalInv, InWrite
<1> QED BY <1>1, <1>2

\* After the sector was erased, or some of its pages.
LEMMA AfterErase ==
  ASSUME IInv, pc = "erase", page' \in [Slots -> Page],
         \A i \in Slots : page'[i] \in {page[i], Erased},
         \A i \in Slots : Sector(i) # Sector(target) => page'[i] = page[i],
         UNCHANGED <<target, writing, ram, changes>>, wiped' \in BOOLEAN,
         \/ pc' = "off"
         \/ pc' = "program" /\ page'[target] = Erased
  PROVE  IInv' /\ Stored' = Stored
<1>1. PICK n \in Slots : IsNewest(n) /\ Sector(n) # Sector(target)
  BY DEF IInv, JournalInv
<1>2. page'[n] = page[n]
  BY <1>1
<1>3. /\ IsNewest(n)' /\ AllWhole' /\ NumbersUnique'
      /\ \A i \in Slots : IsValid(i)' => IsValid(i) /\ page'[i] = page[i]
  BY <1>1, <1>2, ErasedAround
<1>4. TypeOK'
  BY DEF IInv, TypeOK, ram
<1>5. NumbersBelow' /\ writing'.rec \in Content
  BY <1>3 DEF IInv, JournalInv, NumbersBelow, InWrite, ram
<1>6. IInv'
  BY <1>3, <1>4, <1>5 DEF IInv, JournalInv
<1>7. Stored = Load(page[n].rec) /\ Stored' = Load(page'[n].rec)
  <2>1. Stored = Load(page[n].rec)
    BY <1>1, StoredIs DEF IInv
  <2>2. Stored' = Load(page'[n].rec)
    BY <1>3, StoredIsNext
  <2> QED BY <2>1, <2>2
<1> QED BY <1>2, <1>6, <1>7
-----------------------------------------------------------------------------
LEMMA ContentFacts == /\ changes \in Nat => Fresh \in Content /\ Fresh \in Nat
                      /\ Default \in Content
  BY DEF Fresh, Content, Default

\* What each step does to the invariant, and to the record a boot would load.
LEMMA StepInv ==
  ASSUME WholePages, IInv, Next
  PROVE  /\ IInv'
         /\ Stored' = Stored \/ (pc = "program" /\ Stored' = writing.rec)
<1>1. CASE Boot
  <2>1. runtime_settings' \in Content
    BY <1>1, StoredType DEF Boot, IInv, JournalInv
  <2> QED BY <1>1, <2>1, BootNumbers, QuietInv, SamePages
          DEF Boot, InWrite, IInv, TypeOK, Content, Default
<1>2. ASSUME pc = "idle", pc' \in {"idle", "off"}, page' = page, target' = target,
             writing' = writing, current_sequence' = current_sequence,
             runtime_settings' \in Content, pending_settings' \in Content,
             save_pending' \in BOOLEAN, due' \in BOOLEAN, rebooting' \in BOOLEAN,
             changes' \in Nat, wiped' \in BOOLEAN
      PROVE  IInv' /\ Stored' = Stored
  <2>1. \A i \in Slots : IsValid(i) => page[i].seq <= current_sequence'
    BY <1>2 DEF IInv, JournalInv, NumbersBelow
  <2>2. current_sequence' \in Nat
    BY <1>2 DEF IInv, TypeOK
  <2> QED BY <1>2, <2>1, <2>2, QuietInv, SamePages DEF InWrite
<1>3. CASE Change
  BY <1>2, <1>3, ContentFacts DEF Change, IInv, TypeOK
<1>4. CASE ChangeNow
  BY <1>4, ContentFacts, BeginSaveInv, BeginSaveKeeps, SamePages DEF ChangeNow, IInv, TypeOK
<1>5. CASE FactoryReset
  BY <1>5, ContentFacts, BeginSaveInv, BeginSaveKeeps, SamePages DEF FactoryReset, IInv, TypeOK
<1>6. CASE Elapse
  BY <1>2, <1>6 DEF Elapse, IInv, TypeOK
<1>7. CASE flash_task
  BY <1>7, BeginSaveInv, BeginSaveKeeps, SamePages DEF flash_task, IInv, TypeOK
<1>8. CASE flash_erase_sector
  <2>1. page' = [i \in Slots |-> IF Sector(i) = Sector(target) THEN Erased ELSE page[i]]
    BY <1>8 DEF flash_erase_sector
  <2>2. page \in [Slots -> Page] /\ target \in Slots
    BY DEF IInv, TypeOK
  <2>3. page' \in [Slots -> Page] /\ \A i \in Slots : page'[i] \in {page[i], Erased}
    BY <2>1, <2>2 DEF Page
  <2>4. page'[target] = Erased /\ \A i \in Slots : Sector(i) # Sector(target) => page'[i] = page[i]
    BY <2>1, <2>2
  <2> QED BY <1>8, <2>3, <2>4, AfterErase DEF flash_erase_sector, IInv, TypeOK
<1>9. CASE flash_write_page
  <2>1. page' = [page EXCEPT ![target] = writing]
    BY <1>9 DEF flash_write_page, Programmed, IInv, JournalInv
  <2> QED BY <1>9, <2>1, AfterProgram DEF flash_write_page, InWrite, IInv, TypeOK
<1>10. CASE PowerOff
  <2>1. CASE pc = "idle"
    BY <1>2, <1>10, <2>1 DEF PowerOff, ram, IInv, TypeOK
  <2>2. CASE pc = "erase"
    BY <1>10, <2>2, CutErasing, AfterErase DEF PowerOff, IInv, TypeOK
  <2>3. CASE pc = "program"
    <3>1. wiped' \in BOOLEAN
      BY <1>10, <2>3 DEF PowerOff, IInv, TypeOK
    <3> QED BY <1>10, <2>3, <3>1, CutProgramming, AfterProgram
            DEF PowerOff, ram, InWrite, IInv, TypeOK
  <2> QED BY <1>10, <2>1, <2>2, <2>3 DEF PowerOff, IInv, TypeOK
<1>11. CASE Reboot
  BY <1>2, <1>11 DEF Reboot, ram, IInv, TypeOK
<1> QED BY <1>1, <1>3, <1>4, <1>5, <1>6, <1>7, <1>8, <1>9, <1>10, <1>11 DEF Next

LEMMA StutterInv == ASSUME IInv, UNCHANGED vars PROVE IInv' /\ Stored' = Stored
<1>1. page' = page /\ pc' = pc /\ target' = target /\ writing' = writing
  BY DEF vars
<1>2. TypeOK' /\ AllWhole' /\ Stored' = Stored
  BY <1>1, SamePages DEF IInv, TypeOK, vars, ram
<1>3. JournalInv'
  BY <1>1, SamePages DEF IInv, JournalInv, NumbersBelow, InWrite, IsValid, vars, ram
<1> QED BY <1>2, <1>3 DEF IInv

LEMMA Invariant == ASSUME WholePages PROVE Spec => []IInv
<1>1. IInv /\ [Next]_vars => IInv'
  BY StepInv, StutterInv
<1> QED BY <1>1, InitInv, PTL DEF Spec

\* With whole pages, every variable keeps its type, for sectors of any size.
THEOREM FlashTypeCorrect == ASSUME WholePages PROVE Spec => []TypeOK
<1>1. IInv => TypeOK
  BY DEF IInv
<1> QED BY <1>1, Invariant, PTL

\* With whole pages, no cut of the power confuses the journal: numbers stay
\* unique and below current_sequence, a page is erased when it is programmed,
\* and the sector with the newest record is never erased.
THEOREM JournalIsConsistent == ASSUME WholePages PROVE Spec => []JournalOK
<1>1. IInv => JournalOK
  BY DEF IInv, JournalOK
<1> QED BY <1>1, Invariant, PTL
-----------------------------------------------------------------------------
\* The copy that waits for its save is what the device runs with.
PendingInv == pc = "idle" /\ save_pending => pending_settings = runtime_settings

LEMMA PendingStep == PendingInv /\ [Next]_vars => PendingInv'
<1> SUFFICES ASSUME PendingInv, [Next]_vars PROVE PendingInv'
  OBVIOUS
<1> USE DEF PendingInv
<1>1. CASE Boot \/ Change
  BY <1>1 DEF Boot, Change
<1>2. CASE ChangeNow \/ FactoryReset \/ flash_task
  BY <1>2 DEF ChangeNow, FactoryReset, flash_task, BeginSave
<1>3. CASE Elapse \/ flash_erase_sector \/ flash_write_page
  BY <1>3 DEF Elapse, flash_erase_sector, flash_write_page
<1>4. CASE PowerOff \/ Reboot
  BY <1>4 DEF PowerOff, Reboot
<1>5. CASE UNCHANGED vars
  BY <1>5 DEF vars, ram
<1> QED BY <1>1, <1>2, <1>3, <1>4, <1>5 DEF Next

\* A save that begins is one of the abstract store.
LEMMA BeginSaveRefines ==
  ASSUME IInv, pc = "idle", NEW c \in Content, BeginSave(c),
         runtime_settings' \in Content, c \in {runtime_settings', Default}
  PROVE  Store!Begin
<1>1. page' = page /\ writing'.rec = c /\ pc' \in {"erase", "program"}
  BY BeginSaveKeeps
<1> QED BY <1>1, SamePages DEF Store!Begin, InWrite

AbstractSame == /\ (pc # "off")' = (pc # "off") /\ Stored' = Stored
                /\ runtime_settings' = runtime_settings
                /\ (IF InWrite THEN writing.rec ELSE -1)' = (IF InWrite THEN writing.rec ELSE -1)

LEMMA StepRefines ==
  ASSUME WholePages, IInv, IInv', PendingInv, Next
  PROVE  Store!Next \/ AbstractSame
<1>0. /\ pc \in {"off", "idle", "erase", "program"} /\ runtime_settings \in Content
      /\ changes \in Nat /\ pending_settings \in Content /\ runtime_settings' \in Content
  BY DEF IInv, TypeOK
<1>w. InWrite => writing.rec # -1
  BY DEF IInv, JournalInv, Content
<1>1. CASE Boot
  <2>1. Stored' = Stored
    BY <1>1, SamePages DEF Boot
  <2> QED BY <1>1, <2>1 DEF Boot, Store!Next, Store!Boot, InWrite
<1>2. CASE Change
  BY <1>0, <1>2, SamePages, ContentFacts DEF Change, Store!Next, Store!Change, InWrite
<1>3. CASE ChangeNow
  BY <1>0, <1>3, ContentFacts, BeginSaveRefines DEF ChangeNow, Store!Next
<1>4. CASE FactoryReset
  BY <1>0, <1>4, ContentFacts, BeginSaveRefines DEF FactoryReset, Store!Next
<1>5. CASE Elapse
  BY <1>5, SamePages DEF Elapse, AbstractSame, InWrite
<1>6. CASE flash_task
  BY <1>0, <1>6, BeginSaveRefines DEF flash_task, PendingInv, Store!Next
<1>7. CASE flash_erase_sector
  <2>1. Stored' = Stored
    BY <1>7, StepInv DEF flash_erase_sector
  <2> QED BY <1>7, <2>1 DEF flash_erase_sector, ram, AbstractSame, InWrite
<1>8. CASE flash_write_page
  <2>1. page' = [page EXCEPT ![target] = writing]
    BY <1>8 DEF flash_write_page, Programmed, IInv, JournalInv
  <2>2. page'[target] = writing /\ page[target] = Erased /\ writing \in Record
    BY <1>8, <2>1 DEF flash_write_page, IInv, TypeOK, JournalInv
  <2>3. Stored' = writing.rec
    BY <1>8, <2>1, <2>2, AfterProgram, Blanks DEF flash_write_page, InWrite, IInv, TypeOK
  <2> QED BY <1>8, <1>w, <2>3 DEF flash_write_page, Store!Next, Store!Commit, InWrite
<1>9. CASE PowerOff
  <2>1. Stored' = Stored \/ (InWrite /\ Stored' = writing.rec)
    BY StepInv DEF InWrite
  <2> QED BY <1>9, <1>w, <2>1 DEF PowerOff, ram, Store!Next, Store!Stop, InWrite
<1>10. CASE Reboot
  BY <1>10, SamePages DEF Reboot, ram, Store!Next, Store!Stop, InWrite
<1> QED BY <1>1, <1>2, <1>3, <1>4, <1>5, <1>6, <1>7, <1>8, <1>9, <1>10 DEF Next

\* With whole pages the journal is one record that survives power cycles and is
\* saved atomically, wherever the power fails.
THEOREM JournalIsAtomic == ASSUME WholePages PROVE Spec => SettingsPersist
<1>1. Init => Store!Init
  <2> SUFFICES ASSUME Init PROVE Store!Init
    OBVIOUS
  <2>1. Stored \in Content
    BY InitInv, StoredType DEF IInv, JournalInv
  <2> QED BY <2>1, ContentFacts DEF Init, Store!Init, InWrite
<1>2. Init => PendingInv
  BY DEF Init, PendingInv
<1>3. IInv /\ IInv' /\ PendingInv /\ [Next]_vars
        => [Store!Next]_<<pc # "off", Stored, runtime_settings,
                         IF InWrite THEN writing.rec ELSE -1>>
  <2>1. ASSUME IInv, UNCHANGED vars PROVE AbstractSame
    BY <2>1, StutterInv DEF vars, ram, AbstractSame, InWrite
  <2> QED BY <2>1, StepRefines DEF AbstractSame
<1> QED BY <1>1, <1>2, <1>3, Invariant, PendingStep, PTL DEF Spec, SettingsPersist, Store!Spec

-----------------------------------------------------------------------------
ResetInv ==
  wiped => /\ Stored = Default
           /\ pc # "off" /\ save_pending => rebooting /\ ~due
           /\ InWrite => writing.rec = Default

LEMMA ResetStep == ASSUME WholePages, IInv, ResetInv, [Next]_vars PROVE ResetInv'
<1> USE DEF ResetInv
<1>0. IInv => pc \in {"off", "idle", "erase", "program"} /\ wiped \in BOOLEAN
  BY DEF IInv, TypeOK
<1>s. ASSUME Next, wiped PROVE Stored' = Default
  BY <1>s, StepInv DEF InWrite
<1>1. CASE Boot
  BY <1>1, <1>s DEF Boot, InWrite, Next
<1>2. CASE Change
  BY <1>0, <1>2, <1>s DEF Change, InWrite, Next
<1>3. CASE ChangeNow
  BY <1>3 DEF ChangeNow
<1>4. CASE FactoryReset
  BY <1>4, <1>s DEF FactoryReset, BeginSave, Next
<1>5. CASE Elapse
  BY <1>5, <1>s DEF Elapse, InWrite, Next
<1>6. CASE flash_task
  BY <1>6 DEF flash_task
<1>7. CASE flash_erase_sector
  BY <1>7, <1>s DEF flash_erase_sector, ram, InWrite, Next
<1>8. CASE flash_write_page
  <2>1. page' = [page EXCEPT ![target] = writing]
    BY <1>8 DEF flash_write_page, Programmed, IInv, JournalInv
  <2>2. page'[target] = writing /\ page[target] = Erased /\ writing \in Record
    BY <1>8, <2>1 DEF flash_write_page, IInv, TypeOK, JournalInv
  <2>3. Stored' = writing.rec
    BY <1>8, <2>1, <2>2, AfterProgram, Blanks DEF flash_write_page, InWrite, IInv, TypeOK
  <2> QED BY <1>8, <2>3 DEF flash_write_page, InWrite
<1>9. CASE PowerOff
  <2>1. CASE wiped
    BY <1>9, <2>1, <1>s DEF PowerOff, InWrite, Next
  <2>2. CASE ~wiped /\ wiped'
    <3>1. PICK p \in CutProgram(page[target], writing) :
             page' = [page EXCEPT ![target] = p] /\ p = [writing EXCEPT !.rec = Default]
      BY <1>9, <2>2 DEF PowerOff
    <3>2. pc = "program" /\ page[target] = Erased /\ writing \in Record /\ page \in [Slots -> Page]
          /\ target \in Slots
      BY <1>9, <2>2 DEF PowerOff, IInv, TypeOK, JournalInv
    <3>3. p.rec = Default /\ p \in Record
      BY <3>1, <3>2, ContentFacts DEF Record
    <3>4. p = writing
      BY <3>1, <3>2, <3>3, Blanks DEF CutProgram, Programmed
    <3>5. page' # page /\ page' = [page EXCEPT ![target] = writing]
      BY <3>1, <3>2, <3>3, <3>4, Blanks
    <3>6. Stored' = writing.rec
      BY <1>9, <3>2, <3>5, AfterProgram DEF PowerOff, ram, InWrite, IInv, TypeOK
    <3> QED BY <1>9, <3>3, <3>4, <3>6 DEF PowerOff, InWrite
  <2> QED BY <1>0, <2>1, <2>2
<1>10. CASE Reboot
  BY <1>10, <1>s DEF Reboot, InWrite, Next
<1>11. CASE UNCHANGED vars
  BY <1>11, StutterInv DEF vars, ram, InWrite
<1> QED BY <1>1, <1>2, <1>3, <1>4, <1>5, <1>6, <1>7, <1>8, <1>9, <1>10, <1>11 DEF Next

\* After a factory reset the defaults stay in flash until something is changed.
THEOREM FactoryResetHolds == ASSUME WholePages PROVE Spec => []ResetSticks
<1>1. Init => ResetInv
  BY DEF Init, ResetInv
<1>2. IInv /\ ResetInv /\ [Next]_vars => ResetInv'
  BY ResetStep
<1>3. ResetInv => ResetSticks
  BY DEF ResetInv, ResetSticks
<1> QED BY <1>1, <1>2, <1>3, Invariant, PTL DEF Spec

-----------------------------------------------------------------------------
\* What is stored, waits or is written was made at some time, and what waits or
\* is written is no older than what is stored.
AgeInv ==
  /\ Stored <= changes
  /\ pc = "idle" /\ save_pending =>
        Stored <= pending_settings /\ pending_settings <= changes
  /\ InWrite => /\ writing.rec <= changes
                /\ writing.rec = Default \/ Stored <= writing.rec

LEMMA AgeStep == ASSUME WholePages, IInv, IInv', AgeInv, [Next]_vars
                 PROVE  AgeInv' /\ (\/ Stored' >= Stored
                                    \/ Stored' = Default /\ InWrite /\ writing.rec = Default)
<1> USE DEF AgeInv
<1>0. /\ pc \in {"off", "idle", "erase", "program"} /\ changes \in Nat
      /\ Stored \in Nat /\ pending_settings \in Nat
  BY StoredType DEF IInv, TypeOK, JournalInv, Content
<1>w. InWrite => writing.rec \in Nat
  BY DEF IInv, JournalInv, Content
<1>s. Stored' = Stored \/ (pc = "program" /\ Stored' = writing.rec)
  BY StepInv, StutterInv
<1>b. ASSUME NEW c \in Content, pc = "idle", BeginSave(c)
      PROVE  InWrite' /\ writing'.rec = c /\ Stored' = Stored /\ pc' # "idle"
  BY <1>b, BeginSaveKeeps, SamePages DEF InWrite
<1>1. CASE Boot
  BY <1>0, <1>1, <1>s DEF Boot, InWrite
<1>2. CASE Change
  BY <1>0, <1>2, <1>s DEF Change, Fresh, InWrite
<1>3. CASE ChangeNow
  BY <1>0, <1>3, <1>b, ContentFacts DEF ChangeNow, Fresh
<1>4. CASE FactoryReset
  <2>1. Default <= changes + 1
    BY <1>0 DEF Default
  <2> QED BY <1>0, <1>4, <1>b, <2>1, ContentFacts DEF FactoryReset, Fresh
<1>5. CASE Elapse
  BY <1>0, <1>5, <1>s DEF Elapse, InWrite
<1>6. CASE flash_task
  <2>1. pending_settings \in Content
    BY DEF IInv, TypeOK
  <2> QED BY <1>0, <1>6, <1>b, <2>1 DEF flash_task
<1>7. CASE flash_erase_sector
  BY <1>0, <1>7, <1>s, <1>w DEF flash_erase_sector, InWrite
<1>8. CASE flash_write_page
  BY <1>0, <1>8, <1>s, <1>w DEF flash_write_page, InWrite
<1>9. CASE PowerOff
  BY <1>0, <1>9, <1>s, <1>w DEF PowerOff, InWrite
<1>10. CASE Reboot
  BY <1>0, <1>10, <1>s DEF Reboot, InWrite
<1>11. CASE UNCHANGED vars
  BY <1>0, <1>11, StutterInv DEF vars, ram, InWrite
<1> QED BY <1>1, <1>2, <1>3, <1>4, <1>5, <1>6, <1>7, <1>8, <1>9, <1>10, <1>11 DEF Next

\* No save brings back an older content, but for a factory reset.
THEOREM NeverReverts == ASSUME WholePages PROVE Spec => NoRevert
<1>1. Init => AgeInv
  <2> SUFFICES ASSUME Init PROVE AgeInv
    OBVIOUS
  <2>1. PICK old \in {Erased, [seq |-> 1, rec |-> Unreadable]} :
          page = [i \in Slots |-> IF i = 0 THEN old ELSE Erased]
    BY DEF Init
  <2>2. \A i \in Slots : IsValid(i) => page[i].rec = Unreadable
    BY <2>1, Blanks DEF IsValid
  <2>3. Stored = Default
    <3>1. CASE NoneValid
      BY <3>1 DEF Stored
    <3>2. ASSUME NEW n \in Slots, IsNewest(n) PROVE Stored = Default
      BY <2>2, <3>2, StoredIs, InitInv DEF IInv, IsNewest, Load
    <3> QED BY <3>1, <3>2, InitInv DEF IInv, JournalInv
  <2> QED BY <2>3 DEF Init, AgeInv, InWrite, Default
<1>2. IInv /\ IInv' /\ AgeInv /\ [Next]_vars
        => AgeInv' /\ [\/ Stored' >= Stored
                       \/ Stored' = Default /\ InWrite /\ writing.rec = Default]_vars
  BY AgeStep
<1> QED BY <1>1, <1>2, Invariant, PTL DEF Spec, NoRevert
=============================================================================
