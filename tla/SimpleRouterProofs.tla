--------------------------- MODULE SimpleRouterProofs ---------------------------
(***************************************************************************)
(* The player table for every set of devices, every MAX_PLAYERS and both   *)
(* slot modes: what manager.c maintains through any sequence of adds and   *)
(* removals, one loop iteration at a time.  And what simple routing        *)
(* guarantees on top of it for every number of slots and ports: nothing is *)
(* pressed in the outputs of an empty table, whichever way the controllers *)
(* left; and with fixed slots and drivers that clear the output first,     *)
(* every port shows its player.                                            *)
(***************************************************************************)
EXTENDS SimpleRouter, FiniteSetTheorems, TLAPS

(* An empty slot matches no request. *)
LEMMA NoneUnmatched == ASSUME NEW r \in Request
                       PROVE  ~Matches(None, r)
BY AddrAssumption DEF Matches, None, Request

(* What the removal loop has established for the slots behind its index,   *)
(* and the numbers it leaves to be corrected after the loop.               *)
LoopInv ==
    /\ Idle => cursor = 0
    /\ SlotMode = "SHIFT" => cursor <= count
    /\ SlotMode = "FIXED" => cursor = 0
    /\ ~Idle => \A i \in Slots : i < cursor => ~Matches(player[i], removing)

NumberInv ==
    \A i \in Slots :
       /\ ~Occupied(i) => number[i] = 0
       /\ (Idle \/ SlotMode = "FIXED") /\ Occupied(i) => number[i] = i + 1

TableInv == /\ PlayersTypeOK
            /\ CountDelimits
            /\ OneSlotPerDevice
            /\ LoopInv
            /\ NumberInv

LEMMA TableInit == PlayersInit => TableInv
<1> SUFFICES ASSUME PlayersInit PROVE TableInv
  OBVIOUS
<1> USE MaxPlayersAssumption DEF PlayersInit
<1>1. PlayersTypeOK
  BY DEF PlayersTypeOK, Slots
<1>2. CountDelimits /\ OneSlotPerDevice
  BY DEF CountDelimits, OneSlotPerDevice, Occupied, Slots
<1>3. LoopInv /\ NumberInv
  BY DEF LoopInv, NumberInv, Occupied, Slots, Idle
<1> QED
  BY <1>1, <1>2, <1>3 DEF TableInv

(* A device that is in no slot is not None and sits down in one free slot  *)
(* (or, with the table of FIXED mode full, in place of player 1).          *)
LEMMA SeatInv ==
    ASSUME TableInv, NEW d \in Device, Idle, ~Registered(d),
           NEW i \in Slots, Seat(d, i), UNCHANGED <<removing, cursor>>,
           NEW n \in 0 .. MaxPlayers, count' = n,
           i + 1 <= n, count <= n,
           n = count \/ n = i + 1,
           SlotMode = "SHIFT" => i = count /\ n = count + 1
    PROVE  TableInv'
<1> USE MaxPlayersAssumption, SlotModeAssumption DEF TableInv
<1>1. d # None
  BY AddrAssumption DEF Device, None
<1>2. PlayersTypeOK'
  BY DEF Seat, PlayersTypeOK, Slots
<1>3. player' = [player EXCEPT ![i] = d] /\ player \in [Slots -> Device \cup {None}]
  BY DEF Seat, PlayersTypeOK
<1>4. CountDelimits'
  <2>1. \A j \in Slots : j = i \/ Occupied(j) => Occupied(j)'
    BY <1>1, <1>3 DEF Occupied
  <2>2. \A j \in Slots : Occupied(j)' => j = i \/ Occupied(j)
    BY <1>3 DEF Occupied
  <2>3. count \in 0 .. MaxPlayers /\ count' = n /\ i \in 0 .. MaxPlayers - 1
    BY DEF PlayersTypeOK, Slots
  <2>4. \A j \in Slots : j >= n => ~Occupied(j)'
    BY <2>2, <2>3 DEF CountDelimits, Slots
  <2>5. n > 0 => Occupied(n - 1)'
    BY <2>1, <2>3 DEF CountDelimits, Slots
  <2>6. SlotMode = "SHIFT" => \A j \in Slots : j < n => Occupied(j)'
    BY <2>1, <2>3 DEF CountDelimits, Slots
  <2> QED
    BY <2>3, <2>4, <2>5, <2>6 DEF CountDelimits, Occupied
<1>5. OneSlotPerDevice'
  BY <1>1, <1>3 DEF OneSlotPerDevice, Occupied, Registered
<1>6. LoopInv'
  BY DEF LoopInv, Idle, PlayersTypeOK, Slots
<1>7. NumberInv'
  BY <1>1, <1>3 DEF NumberInv, Occupied, Seat, PlayersTypeOK, Idle, Slots
<1> QED
  BY <1>2, <1>4, <1>5, <1>6, <1>7

LEMMA AddInv == ASSUME TableInv, NEW d \in Device, AddPlayer(d)
                PROVE  TableInv'
<1> USE MaxPlayersAssumption, SlotModeAssumption
<1>1. CASE AddShift(d)
  <2>1. count \in Slots /\ count + 1 \in 0 .. MaxPlayers /\ Seat(d, count)
    BY <1>1 DEF AddShift, Slots, TableInv, PlayersTypeOK
  <2> QED
    BY <1>1, <2>1, SeatInv DEF AddShift, AddPlayer, Slots, TableInv, PlayersTypeOK
<1>2. CASE AddFixed(d)
  <2>1. PICK i \in Slots : /\ Seat(d, i)
                           /\ count' = IF i >= count THEN i + 1 ELSE count
    BY <1>2 DEF AddFixed
  <2>2. SlotMode # "SHIFT"
    BY <1>2 DEF AddFixed
  <2>3. /\ Idle /\ ~Registered(d) /\ UNCHANGED <<removing, cursor>>
    BY DEF AddPlayer
  <2>4. /\ count' \in 0 .. MaxPlayers /\ i + 1 <= count' /\ count <= count'
        /\ count' = count \/ count' = i + 1
    BY <2>1 DEF Slots, TableInv, PlayersTypeOK
  <2> QED
    BY <2>1, <2>2, <2>3, <2>4, SeatInv
<1> QED
  BY <1>1, <1>2 DEF AddPlayer

LEMMA CallInv == ASSUME TableInv, NEW r \in Request, RemoveCall(r)
                 PROVE  TableInv'
<1> USE MaxPlayersAssumption DEF RemoveCall, TableInv
<1>1. r # NoRequest
  BY AddrAssumption DEF Request, NoRequest
<1>2. PlayersTypeOK'
  BY DEF PlayersTypeOK
<1>3. CountDelimits' /\ OneSlotPerDevice'
  BY DEF CountDelimits, OneSlotPerDevice, Occupied
<1>4. LoopInv'
  BY <1>1 DEF LoopInv, Idle, PlayersTypeOK, Slots
<1>5. NumberInv'
  BY DEF NumberInv, Occupied, Idle
<1> QED
  BY <1>2, <1>3, <1>4, <1>5

(* One iteration of the SHIFT loop that removes the player at the index:   *)
(* the packed part of the table gets one shorter and stays packed.         *)
LEMMA ShiftRemoveInv == ASSUME TableInv, ShiftRemove
                        PROVE  TableInv'
<1> USE MaxPlayersAssumption DEF ShiftRemove, TableInv
<1> DEFINE n == count
<1>1. /\ n \in 1 .. MaxPlayers /\ count' = n - 1
      /\ cursor \in 0 .. n - 1 /\ cursor' = cursor /\ removing' = removing
      /\ removing \in Request
  BY DEF PlayersTypeOK, Idle
<1>2. \A i \in Slots : player'[i] = IF i = n - 1 THEN None
                                    ELSE IF cursor <= i /\ i < n THEN player[i + 1]
                                    ELSE player[i]
  BY DEF MovedUp
<1>3. \A i \in Slots : number'[i] = IF i = n - 1 THEN 0
                                    ELSE IF cursor <= i /\ i < n THEN number[i + 1]
                                    ELSE number[i]
  BY DEF MovedUp
<1>4. \A i \in Slots : cursor <= i /\ i < n /\ i # n - 1 => i + 1 \in Slots
  BY <1>1 DEF Slots
<1>5. PlayersTypeOK'
  <2>1. player' \in [Slots -> Device \cup {None}]
    BY <1>2, <1>4 DEF PlayersTypeOK, MovedUp
  <2>2. number' \in [Slots -> 0 .. MaxPlayers]
    BY <1>3, <1>4 DEF PlayersTypeOK, MovedUp
  <2> QED
    BY <1>1, <2>1, <2>2 DEF PlayersTypeOK
<1>6. \A i \in Slots : Occupied(i) <=> i < n
  BY <1>1 DEF CountDelimits, Slots
<1>7. CountDelimits'
  BY <1>1, <1>2, <1>4, <1>6 DEF CountDelimits, Occupied, Slots
<1>8. OneSlotPerDevice'
  BY <1>1, <1>2, <1>4, <1>6 DEF OneSlotPerDevice, Occupied, Slots
<1>9. LoopInv'
  BY <1>1, <1>2 DEF LoopInv, Idle, Slots
<1>10. NumberInv'
  BY <1>1, <1>2, <1>3, <1>4, <1>6 DEF NumberInv, Occupied, Idle, Slots
<1> QED
  BY <1>5, <1>7, <1>8, <1>9, <1>10

LEMMA ShiftKeepInv == ASSUME TableInv, ShiftKeep
                      PROVE  TableInv'
<1> USE MaxPlayersAssumption DEF ShiftKeep, TableInv
<1>1. PlayersTypeOK'
  BY DEF PlayersTypeOK
<1>2. CountDelimits' /\ OneSlotPerDevice' /\ NumberInv'
  BY DEF CountDelimits, OneSlotPerDevice, NumberInv, Occupied, Idle
<1>3. LoopInv'
  BY DEF LoopInv, Idle, PlayersTypeOK, Slots
<1> QED
  BY <1>1, <1>2, <1>3

LEMMA ShiftDoneInv == ASSUME TableInv, ShiftDone
                      PROVE  TableInv'
<1> USE MaxPlayersAssumption DEF ShiftDone, TableInv
<1>1. PlayersTypeOK'
  BY DEF PlayersTypeOK, Slots
<1>2. CountDelimits' /\ OneSlotPerDevice'
  BY DEF CountDelimits, OneSlotPerDevice, Occupied
<1>3. LoopInv'
  BY DEF LoopInv, Idle, PlayersTypeOK
<1>4. NumberInv'
  BY DEF NumberInv, CountDelimits, Occupied, Idle, PlayersTypeOK, Slots
<1> QED
  BY <1>1, <1>2, <1>3, <1>4

LEMMA FixedRemoveInv == ASSUME TableInv, FixedRemove
                        PROVE  TableInv'
<1> USE MaxPlayersAssumption DEF TableInv
<1> DEFINE hit == {i \in Slots : Matches(player[i], removing)}
<1>1. /\ SlotMode = "FIXED" /\ ~Idle /\ removing' = NoRequest /\ cursor' = cursor
      /\ player' = Emptied(player, hit, None)
      /\ number' = Emptied(number, hit, 0)
  BY DEF FixedRemove
<1>2. PICK n \in 0 .. MaxPlayers : HighestOccupied(player', n) /\ count' = n
  BY DEF FixedRemove
<1>3. \A i \in Slots : /\ player'[i] = IF i \in hit THEN None ELSE player[i]
                       /\ number'[i] = IF i \in hit THEN 0 ELSE number[i]
  BY <1>1 DEF Emptied
<1>4. PlayersTypeOK'
  BY <1>1, <1>2 DEF PlayersTypeOK, Emptied
<1>5. CountDelimits'
  BY <1>1, <1>2 DEF CountDelimits, HighestOccupied, Occupied, Slots
<1>6. OneSlotPerDevice'
  BY <1>3 DEF OneSlotPerDevice, Occupied
<1>7. LoopInv'
  BY <1>1, <1>2 DEF LoopInv, Idle
<1>8. NumberInv'
  BY <1>1, <1>3 DEF NumberInv, Occupied, Idle
<1> QED
  BY <1>4, <1>5, <1>6, <1>7, <1>8

LEMMA TableStep == TableInv /\ [PlayersNext]_playerVars => TableInv'
<1> SUFFICES ASSUME TableInv, [PlayersNext]_playerVars PROVE TableInv'
  OBVIOUS
<1>1. CASE UNCHANGED playerVars
  BY <1>1 DEF playerVars, TableInv, PlayersTypeOK, CountDelimits, OneSlotPerDevice,
              LoopInv, NumberInv, Occupied, Idle
<1> QED
  BY <1>1, AddInv, CallInv, ShiftRemoveInv, ShiftKeepInv, ShiftDoneInv, FixedRemoveInv
     DEF PlayersNext, RemoveStep

LEMMA TableAlways == PlayersSpec => []TableInv
BY TableInit, TableStep, PTL DEF PlayersSpec

(* The table keeps its types: in particular playersCount never leaves      *)
(* 0..MAX_PLAYERS, so every index the loops use is inside players[].       *)
THEOREM TableTypeCorrect == PlayersSpec => []PlayersTypeOK
BY TableAlways, PTL DEF TableInv

(* playersCount delimits the occupied slots in every state, the states in  *)
(* the middle of a removal included.                                       *)
THEOREM CountCorrect == PlayersSpec => []CountDelimits
BY TableAlways, PTL DEF TableInv

(* No sequence of adds and removals puts one device into two slots. *)
THEOREM NoDoubleSeat == PlayersSpec => []OneSlotPerDevice
BY TableAlways, PTL DEF TableInv

(* Between calls every number is its slot + 1 and every empty slot's is 0. *)
THEOREM NumbersCorrect == PlayersSpec => []NumbersMatchSlots
<1>1. TableInv => NumbersMatchSlots
  BY DEF TableInv, NumberInv, NumbersMatchSlots
<1> QED
  BY <1>1, TableAlways, PTL

(* Types, count, single seats and numbers together: the table is right in  *)
(* every state, whatever sequence of adds and removals came before.        *)
THEOREM TableIsConsistent == PlayersSpec => []TableOK
<1>1. TableInv => TableOK
  BY DEF TableInv, NumberInv, NumbersMatchSlots, TableOK
<1> QED
  BY <1>1, TableAlways, PTL

(* A removal that has ended left no matching player behind: the loop index *)
(* never steps over the player that moved into the removed one's slot.     *)
THEOREM RemovalIsComplete == PlayersSpec => RemovalComplete
<1> DEFINE Ended == ~Idle /\ removing' = NoRequest
                      => \A i \in Slots : ~Matches(player'[i], removing)
<1>1. TableInv /\ [PlayersNext]_playerVars => [Ended]_playerVars
  <2> SUFFICES ASSUME TableInv, PlayersNext, ~Idle, removing' = NoRequest,
                      NEW i \in Slots
               PROVE  ~Matches(player'[i], removing)
    OBVIOUS
  <2> USE DEF TableInv
  <2>1. removing \in Request
    BY DEF Idle, PlayersTypeOK
  <2>2. ShiftDone \/ FixedRemove
    BY DEF PlayersNext, AddPlayer, RemoveCall, RemoveStep, ShiftRemove, ShiftKeep, Idle
  <2>3. CASE ShiftDone
    <3>1. i < cursor \/ player[i] = None
      BY <2>3 DEF ShiftDone, CountDelimits, Occupied, PlayersTypeOK, Slots
    <3> QED
      BY <2>1, <2>3, <3>1, NoneUnmatched DEF ShiftDone, LoopInv
  <2>4. CASE FixedRemove
    BY <2>1, <2>4, NoneUnmatched DEF FixedRemove, Emptied
  <2> QED
    BY <2>2, <2>3, <2>4
<1> QED
  BY <1>1, TableAlways, PTL DEF PlayersSpec, RemovalComplete
-----------------------------------------------------------------------------
(* Who stays.  FIXED mode evicts player 1 when a device finds the table    *)
(* full (manager.c:171), which it cannot with a slot for every device.     *)
RoomForAll == SlotMode = "FIXED" => /\ IsFiniteSet(Device)
                                    /\ Cardinality(Device) <= MaxPlayers

LEMMA NeverFull == ASSUME TableInv, RoomForAll, SlotMode = "FIXED",
                          NEW d \in Device, ~Registered(d)
                   PROVE  \E i \in Slots : ~Occupied(i)
<1> SUFFICES ASSUME \A i \in Slots : Occupied(i) PROVE FALSE
  OBVIOUS
<1> DEFINE others == Device \ {d}
<1>1. IsFiniteSet(Device) /\ Cardinality(Device) \in Nat /\ Cardinality(Device) <= MaxPlayers
  BY FS_CardinalityType DEF RoomForAll
<1>2. IsFiniteSet(others) /\ Cardinality(others) = Cardinality(Device) - 1
  BY <1>1, FS_RemoveElement
<1>3. player \in Injection(Slots, others)
  <2>1. player \in [Slots -> others]
    BY DEF TableInv, PlayersTypeOK, Registered, Occupied
  <2>2. \A i, j \in Slots : player[i] = player[j] => i = j
    BY DEF TableInv, OneSlotPerDevice
  <2> QED BY <2>1, <2>2 DEF Injection, IsInjective
<1>4. Cardinality(Slots) <= Cardinality(others)
  BY <1>2, <1>3, FS_Injection
<1>5. Cardinality(Slots) = MaxPlayers
  <2>1. /\ 0 \in Int /\ MaxPlayers - 1 \in Int
        /\ (IF 0 > MaxPlayers - 1 THEN 0 ELSE MaxPlayers - 1 - 0 + 1) = MaxPlayers
    BY MaxPlayersAssumption
  <2> QED BY <2>1, FS_Interval DEF Slots
<1> QED BY <1>1, <1>2, <1>4, <1>5, MaxPlayersAssumption

(* A device that sits down takes a free slot. *)
LEMMA SeatIsFree == ASSUME TableInv, RoomForAll, NEW d \in Device, AddPlayer(d)
                    PROVE  \E i \in Slots : /\ ~Occupied(i)
                                            /\ player' = [player EXCEPT ![i] = d]
<1>1. CASE AddShift(d)
  <2>1. count \in Slots /\ ~Occupied(count)
    BY <1>1, MaxPlayersAssumption
       DEF AddShift, TableInv, PlayersTypeOK, CountDelimits, Slots
  <2> QED
    BY <1>1, <2>1 DEF AddShift, Seat
<1>2. CASE AddFixed(d)
  <2>1. PICK i \in Slots : FirstFree(i) /\ Seat(d, i)
    BY <1>2 DEF AddFixed
  <2>2. \E j \in Slots : ~Occupied(j)
    BY <1>2, NeverFull DEF AddFixed, AddPlayer
  <2> QED
    BY <2>1, <2>2 DEF FirstFree, Seat
<1> QED
  BY <1>1, <1>2 DEF AddPlayer

(* What the steps do to the slots. *)
LEMMA TableSteps ==
    ASSUME TableInv, RoomForAll, PlayersNext
    PROVE  \/ UNCHANGED player
           \/ \E d \in Device, i \in Slots :
                ~Registered(d) /\ ~Occupied(i) /\ player' = [player EXCEPT ![i] = d]
           \/ ShiftRemove
           \/ /\ SlotMode = "FIXED"
              /\ \A i \in Slots :
                   player'[i] = IF Matches(player[i], removing) THEN None ELSE player[i]
<1>1. ASSUME NEW d \in Device, AddPlayer(d)
      PROVE  \E i \in Slots : ~Registered(d) /\ ~Occupied(i) /\ player' = [player EXCEPT ![i] = d]
  BY <1>1, SeatIsFree DEF AddPlayer
<1>2. ASSUME NEW r \in Request, RemoveCall(r)
      PROVE  UNCHANGED player
  BY <1>2 DEF RemoveCall
<1>3. CASE ShiftKeep \/ ShiftDone
  BY <1>3 DEF ShiftKeep, ShiftDone
<1>4. CASE FixedRemove
  BY <1>4 DEF FixedRemove, Emptied
<1> QED
  BY <1>1, <1>2, <1>3, <1>4 DEF PlayersNext, RemoveStep

(* With a slot for every device, "players keep their assigned slots        *)
(* permanently" in FIXED mode: no add and no other device's removal takes  *)
(* or moves an occupied slot (docs/core/players.md:19).                    *)
THEOREM PlayersKeepTheirSlots == ASSUME RoomForAll PROVE PlayersSpec => FixedKeepsSlots
<1> DEFINE Kept == SlotMode = "FIXED" =>
                     \A i \in Slots : Occupied(i) /\ ~Matches(player[i], removing)
                       => player'[i] = player[i]
<1>1. TableInv /\ [PlayersNext]_playerVars => [Kept]_playerVars
  <2> SUFFICES ASSUME TableInv, PlayersNext, SlotMode = "FIXED", NEW i \in Slots,
                      Occupied(i), ~Matches(player[i], removing)
               PROVE  player'[i] = player[i]
    OBVIOUS
  <2>1. ~ShiftRemove
    BY DEF ShiftRemove
  <2>2. ASSUME NEW d \in Device, NEW k \in Slots, ~Occupied(k), player' = [player EXCEPT ![k] = d]
        PROVE  player'[i] = player[i]
    BY <2>2 DEF TableInv, PlayersTypeOK
  <2> QED
    BY <2>1, <2>2, TableSteps
<1> QED
  BY <1>1, TableAlways, PTL DEF PlayersSpec, FixedKeepsSlots

(* Where nobody moves, a slot that shows a player afterwards is that       *)
(* player's slot.                                                          *)
LEMMA SameSlot ==
    ASSUME TableInv, NEW i \in Slots, NEW k \in Slots, Occupied(i), player'[k] = player[i],
           player'[k] \in {player[k], None} \/ (player'[k] \in Device /\ ~Registered(player'[k]))
    PROVE  k = i
BY DEF TableInv, OneSlotPerDevice, Occupied, Registered

(* One iteration of the SHIFT loop: those below the index stay, those      *)
(* above move up by one slot.                                              *)
LEMMA ShiftMoves ==
    ASSUME TableInv, ShiftRemove
    PROVE  /\ \A i \in Slots : Occupied(i) /\ ~Matches(player[i], removing)
                => \E j \in Slots : player'[j] = player[i]
           /\ \A i, k \in Slots : Occupied(i) /\ player'[k] = player[i]
                => (i < cursor /\ k = i) \/ (i > cursor /\ k = i - 1)
<1> DEFINE n == count
<1>1. /\ n \in 1 .. MaxPlayers /\ cursor \in 0 .. n - 1 /\ MaxPlayers \in Nat
      /\ Matches(player[cursor], removing)
  BY MaxPlayersAssumption DEF ShiftRemove, TableInv, PlayersTypeOK
<1>2. \A i \in Slots : player'[i] = IF i = n - 1 THEN None
                                    ELSE IF cursor <= i /\ i < n THEN player[i + 1]
                                    ELSE player[i]
  BY DEF ShiftRemove, MovedUp
<1>3. \A i \in Slots : Occupied(i) <=> i < n
  BY <1>1 DEF ShiftRemove, TableInv, CountDelimits, Slots
<1>4. ASSUME NEW i \in Slots, Occupied(i), ~Matches(player[i], removing)
      PROVE  \E j \in Slots : player'[j] = player[i]
  <2>1. i \in 0 .. n - 1 /\ i # cursor
    BY <1>1, <1>3, <1>4 DEF Slots
  <2>2. CASE i < cursor
    BY <1>1, <1>2, <2>1, <2>2
  <2>3. CASE i > cursor
    <3>1. i - 1 \in Slots /\ i - 1 # n - 1 /\ cursor <= i - 1 /\ i - 1 < n /\ (i - 1) + 1 = i
      BY <1>1, <2>1, <2>3 DEF Slots
    <3> QED BY <1>2, <3>1
  <2> QED BY <1>1, <2>1, <2>2, <2>3
<1>5. ASSUME NEW i \in Slots, NEW k \in Slots, Occupied(i), player'[k] = player[i]
      PROVE  (i < cursor /\ k = i) \/ (i > cursor /\ k = i - 1)
  <2>1. k # n - 1 /\ k < n /\ i < n
    BY <1>1, <1>2, <1>3, <1>5 DEF Occupied, Slots
  <2>2. CASE k < cursor
    <3>1. player[k] = player[i]
      BY <1>1, <1>2, <1>5, <2>1, <2>2 DEF Slots
    <3>2. k = i
      BY <1>5, <3>1 DEF TableInv, OneSlotPerDevice
    <3> QED BY <2>2, <3>2
  <2>3. CASE cursor <= k
    <3>1. k + 1 \in Slots /\ player[k + 1] = player[i]
      BY <1>1, <1>2, <1>5, <2>1, <2>3 DEF Slots
    <3>2. k + 1 = i
      BY <1>5, <3>1 DEF TableInv, OneSlotPerDevice
    <3> QED BY <1>1, <2>3, <3>2 DEF Slots
  <2> QED BY <1>1, <2>2, <2>3 DEF Slots
<1> QED BY <1>4, <1>5

(* A removal takes nobody else, and those who stay keep their order, in    *)
(* every iteration of the loop and in both slot modes (docs/core/          *)
(* players.md:13).                                                         *)
THEOREM RemovalSparesOthers == ASSUME RoomForAll PROVE PlayersSpec => OthersStay
<1> DEFINE Stay == \A i \in Slots : Occupied(i) /\ ~Matches(player[i], removing)
                     => \E j \in Slots : player'[j] = player[i]
           Order == \A i, j, k, l \in Slots :
                      /\ i < j /\ Occupied(i) /\ Occupied(j)
                      /\ player'[k] = player[i] /\ player'[l] = player[j]
                      => k < l
<1>1. ASSUME TableInv, PlayersNext PROVE Stay /\ Order
  <2>1. CASE ShiftRemove
    <3>1. Stay
      BY <1>1, <2>1, ShiftMoves
    <3>2. Order
      <4> SUFFICES ASSUME NEW i \in Slots, NEW j \in Slots, NEW k \in Slots, NEW l \in Slots,
                          i < j, Occupied(i), Occupied(j),
                          player'[k] = player[i], player'[l] = player[j]
                   PROVE  k < l
        OBVIOUS
      <4>1. (i < cursor /\ k = i) \/ (i > cursor /\ k = i - 1)
        BY <1>1, <2>1, ShiftMoves
      <4>2. (j < cursor /\ l = j) \/ (j > cursor /\ l = j - 1)
        BY <1>1, <2>1, ShiftMoves
      <4>3. cursor \in Int /\ i \in Int /\ j \in Int
        BY <1>1, MaxPlayersAssumption DEF TableInv, PlayersTypeOK, Slots
      <4> QED BY <4>1, <4>2, <4>3
    <3> QED BY <3>1, <3>2
  <2>2. CASE ~ShiftRemove
    <3>1. \A k \in Slots : \/ player'[k] \in {player[k], None}
                           \/ player'[k] \in Device /\ ~Registered(player'[k])
      BY <1>1, <2>2, TableSteps DEF TableInv, PlayersTypeOK
    <3>2. \A i \in Slots : Occupied(i) /\ ~Matches(player[i], removing) => player'[i] = player[i]
      BY <1>1, <2>2, TableSteps DEF TableInv, PlayersTypeOK
    <3>3. Stay
      BY <3>2
    <3>4. \A i, k \in Slots : Occupied(i) /\ player'[k] = player[i] => k = i
      BY <1>1, <3>1, SameSlot
    <3>5. Order
      BY <3>4
    <3> QED BY <3>3, <3>5
  <2> QED BY <2>1, <2>2
<1>2. TableInv /\ [PlayersNext]_playerVars => [Stay /\ Order]_playerVars
  BY <1>1
<1> QED
  BY <1>2, TableAlways, PTL DEF PlayersSpec, OthersStay
-----------------------------------------------------------------------------
LEMMA RouterStep == [Next]_allVars => [PlayersNext]_playerVars
<1> SUFFICES ASSUME [Next]_allVars PROVE [PlayersNext]_playerVars
  OBVIOUS
<1>1. ASSUME NEW d \in Device, Connect(d) PROVE [PlayersNext]_playerVars
  BY <1>1 DEF Connect, PlayersNext
<1>2. ASSUME NEW d \in Device, NEW s \in {"idle", "pressed"}, Report(d, s)
      PROVE  [PlayersNext]_playerVars
  BY <1>2 DEF Report, PlayersNext
<1>3. ASSUME NEW d \in Device, Leave(d) PROVE [PlayersNext]_playerVars
  <2>1. d \in Request
    BY DEF Device, Request
  <2> QED
    BY <1>3, <2>1 DEF Leave, PlayersNext
<1>4. ASSUME NEW a \in Addr, Unplug(a) \/ UnplugReceiver(a)
      PROVE  [PlayersNext]_playerVars
  <2>1. AllOf(a) \in Request
    BY DEF AllOf, Request
  <2> QED
    BY <1>4, <2>1 DEF Unplug, UnplugReceiver, PlayersNext
<1>5. CASE Removal
  BY <1>5 DEF Removal, PlayersNext
<1>6. CASE UNCHANGED allVars
  BY <1>6 DEF allVars, playerVars
<1> QED
  BY <1>1, <1>2, <1>3, <1>4, <1>5, <1>6 DEF Next

(* What holds of the table in every history of its own holds of it in the  *)
(* router.                                                                 *)
LEMMA RouterUsesTable == Spec => PlayersSpec
<1>1. Init => PlayersInit
  BY DEF Init
<1> QED
  BY <1>1, RouterStep, PTL DEF Spec, PlayersSpec

LEMMA RouterTable == Spec => []TableInv
<1>1. Init => PlayersInit
  BY DEF Init
<1> QED
  BY <1>1, TableInit, TableStep, RouterStep, PTL DEF Spec

(* An add never leaves an empty table behind. *)
LEMMA AddFills == ASSUME TableInv, NEW d \in Device, AddPlayer(d)
                  PROVE  count' > 0
BY MaxPlayersAssumption
   DEF AddPlayer, AddShift, AddFixed, TableInv, PlayersTypeOK, Slots

(* Whichever way the last controller leaves - wireless, receiver or USB,   *)
(* one instance or all, packed or fixed slots - when its removal has ended *)
(* no slot of the output shows anything pressed.                           *)
THEOREM EmptyTableIsNeutral == Spec => []NothingPressedWhenEmpty
<1>1. Init => NothingPressedWhenEmpty
  BY DEF Init, NothingPressedWhenEmpty, Neutral
<1>2. TableInv /\ NothingPressedWhenEmpty /\ [Next]_allVars => NothingPressedWhenEmpty'
  <2> SUFFICES ASSUME TableInv, NothingPressedWhenEmpty, [Next]_allVars,
                      Idle', count' = 0, NEW i \in Ports
               PROVE  ~slotOut'[i].pressed
    BY DEF NothingPressedWhenEmpty
  <2>1. ASSUME NEW d \in Device, Connect(d) PROVE ~slotOut'[i].pressed
    BY <2>1, AddFills DEF Connect, NothingPressedWhenEmpty, playerVars, Idle
  <2>2. ASSUME NEW d \in Device, NEW s \in {"idle", "pressed"}, Report(d, s)
        PROVE  ~slotOut'[i].pressed
    <3>1. UNCHANGED playerVars
      BY <2>2, AddFills DEF Report
    <3>2. \A j \in Slots : ~Occupied(j)
      BY <3>1 DEF playerVars, TableInv, CountDelimits, PlayersTypeOK, Slots
    <3>3. d # None
      BY AddrAssumption DEF Device, None
    <3>4. ~SitsIn(d, i)'
      BY <3>1, <3>2, <3>3, PortsAssumption DEF playerVars, Occupied, SitsIn
    <3>5. slotOut'[i] = slotOut[i]
      BY <2>2, <3>4 DEF Report, Deliver
    <3> QED
      BY <2>2, <3>1, <3>5 DEF playerVars, NothingPressedWhenEmpty, Report
  <2>3. ASSUME NEW r \in Request, RemoveCall(r) PROVE FALSE
    BY <2>3, AddrAssumption DEF RemoveCall, Idle, Request, NoRequest
  <2>4. ASSUME NEW d \in Device, Leave(d) PROVE FALSE
    <3>1. d \in Request
      BY DEF Device, Request
    <3> QED
      BY <2>3, <2>4, <3>1 DEF Leave
  <2>5. ASSUME NEW a \in Addr, Unplug(a) \/ UnplugReceiver(a) PROVE FALSE
    <3>1. AllOf(a) \in Request
      BY DEF AllOf, Request
    <3> QED
      BY <2>3, <2>5, <3>1 DEF Unplug, UnplugReceiver
  <2>6. CASE Removal
    BY <2>6 DEF Removal, Neutral
  <2>7. CASE UNCHANGED allVars
    BY <2>7 DEF allVars, NothingPressedWhenEmpty, Idle
  <2> QED
    BY <2>1, <2>2, <2>4, <2>5, <2>6, <2>7 DEF Next
<1> QED
  BY <1>1, <1>2, RouterTable, PTL DEF Spec

-------------------------------------------------------------------------------
(* The strengthening of PortsOK: while a removal is under way,   *)
(* the ports of the players it will remove are neutral already.            *)
Shown(i) == Occupied(i) /\ ~Matches(player[i], removing)
ShowInv == \A i \in Ports :
              IF Shown(i) THEN slotOut[i] = EventOf(player[i], pad[player[i]])
                          ELSE slotOut[i] = Neutral

LEMMA IdleShows == ASSUME TableInv, Idle, NEW i \in Slots
                   PROVE  Shown(i) <=> Occupied(i)
BY AddrAssumption
   DEF TableInv, PlayersTypeOK, Shown, Occupied, Idle, Matches, NoRequest, Device

(* The variables of this module keep their types. *)
RouterTypes == /\ pad \in [Device -> {"absent", "idle", "pressed"}]
               /\ slotOut \in [Ports -> [from : Device \cup {None}, pressed : BOOLEAN]]

LEMMA EventTypes == /\ Neutral \in [from : Device \cup {None}, pressed : BOOLEAN]
                    /\ \A d \in Device, s \in {"idle", "pressed"} :
                          EventOf(d, s) \in [from : Device \cup {None}, pressed : BOOLEAN]
BY DEF Neutral, EventOf

LEMMA RouterTypesStep == ASSUME RouterTypes, [Next]_allVars PROVE RouterTypes'
<1> USE DEF RouterTypes
<1>1. ASSUME NEW d \in Device, Connect(d) PROVE RouterTypes'
  BY <1>1 DEF Connect
<1>2. ASSUME NEW d \in Device, NEW s \in {"idle", "pressed"}, Report(d, s)
      PROVE  RouterTypes'
  BY <1>2, EventTypes DEF Report, Deliver
<1>3. ASSUME NEW d \in Device, Leave(d) PROVE RouterTypes'
  BY <1>3, EventTypes DEF Leave, Clear
<1>4. ASSUME NEW a \in Addr, Unplug(a) PROVE RouterTypes'
  BY <1>4 DEF Unplug, GoneWith
<1>5. ASSUME NEW a \in Addr, UnplugReceiver(a) PROVE RouterTypes'
  BY <1>5, EventTypes DEF UnplugReceiver, Clear, GoneWith
<1>6. CASE Removal
  BY <1>6, EventTypes DEF Removal
<1>7. CASE UNCHANGED allVars
  BY <1>7 DEF allVars
<1> QED
  BY <1>1, <1>2, <1>3, <1>4, <1>5, <1>6, <1>7 DEF Next

(* Two devices with the same address and instance are one. *)
LEMMA MatchesOne == ASSUME NEW d \in Device, NEW e \in Device
                    PROVE  Matches(d, e) <=> d = e
BY InstAssumption DEF Device, Matches

(* A report changes the port of its own player only, and a device without  *)
(* a player changes none.                                                  *)
LEMMA ReportShows ==
    ASSUME TableInv, TableInv', ShowInv, ~TapExclusive, SlotMode = "FIXED",
           NEW d \in Device, NEW s \in {"idle", "pressed"}, Report(d, s),
           pad \in [Device -> {"absent", "idle", "pressed"}]
    PROVE  ShowInv'
<1> SUFFICES ASSUME NEW i \in Ports
             PROVE  IF Shown(i)' THEN slotOut'[i] = EventOf(player'[i], pad'[player'[i]])
                                 ELSE slotOut'[i] = Neutral
  BY DEF ShowInv
<1>1. /\ i \in Slots /\ d # None
      /\ pad' = [pad EXCEPT ![d] = s]
      /\ Idle /\ Idle'
      /\ slotOut'[i] = IF SitsIn(d, i)' THEN EventOf(d, s) ELSE slotOut[i]
  BY PortsAssumption, AddrAssumption
     DEF Report, Deliver, AddPlayer, playerVars, Device, None, Idle
<1>2. (Shown(i) <=> Occupied(i)) /\ (Shown(i) <=> Occupied(i))'
  BY <1>1, AddrAssumption
     DEF Idle, TableInv, PlayersTypeOK, Shown, Occupied, Matches, NoRequest, Device
<1>3. player[i] \in Device \cup {None} /\ player'[i] \in Device \cup {None}
  BY <1>1 DEF TableInv, PlayersTypeOK
<1>4. CASE player'[i] = d
  <2>1. SitsIn(d, i)'
    BY <1>1, <1>4, MaxPlayersAssumption
       DEF TableInv, OneSlotPerDevice, Occupied, SitsIn, Slots
  <2> QED
    BY <1>1, <1>2, <1>4, <2>1 DEF Occupied
<1>5. CASE player'[i] # d
  <2>1. ~SitsIn(d, i)'
    BY <1>5 DEF SitsIn
  <2>2. player'[i] = player[i]
    <3>1. CASE UNCHANGED playerVars
      BY <3>1 DEF playerVars
    <3>2. CASE AddPlayer(d)
      BY <1>1, <1>5, <3>2 DEF AddPlayer, AddShift, AddFixed, Seat, TableInv, PlayersTypeOK
    <3> QED
      BY <3>1, <3>2 DEF Report
  <2>3. Occupied(i) => pad'[player'[i]] = pad[player[i]]
    BY <1>1, <1>3, <1>5, <2>2 DEF Occupied
  <2> QED
    BY <1>1, <1>2, <2>1, <2>2, <2>3 DEF ShowInv, Occupied
<1> QED
  BY <1>4, <1>5

(* A driver that clears the ports of the devices it is about to remove     *)
(* keeps the invariant, whatever becomes of those devices' own state.      *)
LEMMA ClearShows ==
    ASSUME TableInv, ShowInv, NEW r \in Request, RemoveCall(r),
           Clear({d \in Device : Matches(d, r)}),
           \A d \in Device : ~Matches(d, r) => pad'[d] = pad[d]
    PROVE  ShowInv'
<1> SUFFICES ASSUME NEW i \in Ports
             PROVE  IF Shown(i)' THEN slotOut'[i] = EventOf(player'[i], pad'[player'[i]])
                                 ELSE slotOut'[i] = Neutral
  BY DEF ShowInv
<1>1. i \in Slots /\ player' = player /\ removing' = r /\ Idle
  BY PortsAssumption DEF RemoveCall
<1>2. player[i] \in Device \cup {None}
  BY <1>1 DEF TableInv, PlayersTypeOK
<1>3. CASE Occupied(i) /\ Matches(player[i], r)
  <2>1. SitsIn(player[i], i)
    BY <1>1, <1>3, MaxPlayersAssumption
       DEF TableInv, OneSlotPerDevice, Occupied, SitsIn, Slots
  <2>2. slotOut'[i] = Neutral
    BY <1>2, <1>3, <2>1 DEF Clear, Occupied
  <2> QED
    BY <1>1, <1>3, <2>2 DEF Shown, Neutral
<1>4. CASE Occupied(i) /\ ~Matches(player[i], r)
  <2>1. slotOut'[i] = slotOut[i]
    BY <1>4 DEF Clear, SitsIn
  <2>2. Shown(i) /\ Shown(i)'
    BY <1>1, <1>4, IdleShows DEF Shown, Occupied
  <2> QED
    BY <1>1, <1>2, <1>4, <2>1, <2>2 DEF ShowInv, Occupied
<1>5. CASE ~Occupied(i)
  BY <1>1, <1>5 DEF Clear, SitsIn, ShowInv, Shown, Occupied, Neutral
<1> QED
  BY <1>3, <1>4, <1>5

LEMMA RemovalShows ==
    ASSUME TableInv, TableInv', ShowInv, SlotMode = "FIXED", Removal
    PROVE  ShowInv'
<1> SUFFICES ASSUME NEW i \in Ports
             PROVE  IF Shown(i)' THEN slotOut'[i] = EventOf(player'[i], pad'[player'[i]])
                                 ELSE slotOut'[i] = Neutral
  BY DEF ShowInv
<1>1. i \in Slots /\ FixedRemove /\ pad' = pad
  BY PortsAssumption DEF Removal, RemoveStep, ShiftRemove, ShiftKeep, ShiftDone
<1>2. /\ player'[i] = IF Matches(player[i], removing) THEN None ELSE player[i]
      /\ Idle'
  BY <1>1 DEF FixedRemove, Emptied, Idle
<1>3. Shown(i)' <=> Occupied(i)'
  BY <1>1, <1>2, AddrAssumption
     DEF TableInv, PlayersTypeOK, Shown, Occupied, Idle, Matches, NoRequest, Device
<1>4. Occupied(i)' <=> Shown(i)
  BY <1>2 DEF Occupied, Shown
<1>5. CASE slotOut' = slotOut
  BY <1>1, <1>2, <1>3, <1>4, <1>5 DEF ShowInv, Shown
<1>6. CASE count' = 0 /\ slotOut' = [j \in Ports |-> Neutral]
  BY <1>1, <1>3, <1>6 DEF TableInv, CountDelimits, Slots, Neutral
<1> QED
  BY <1>2, <1>5, <1>6 DEF Removal

(* The tap of an output hears what its slots receive: a reset at the end   *)
(* of a removal finds every port neutral already.                          *)
LEMMA TapFollows ==
    ASSUME TableInv', ShowInv, RouterTypes, tapOut = slotOut, ~TapExclusive,
           SlotMode = "FIXED", [Next]_allVars
    PROVE  tapOut' = slotOut'
<1>1. ASSUME NEW d \in Device, Connect(d) PROVE tapOut' = slotOut'
  BY <1>1 DEF Connect
<1>2. ASSUME NEW d \in Device, NEW s \in {"idle", "pressed"}, Report(d, s)
      PROVE  tapOut' = slotOut'
  BY <1>2 DEF Report, Deliver
<1>3. ASSUME NEW d \in Device, Leave(d) PROVE tapOut' = slotOut'
  BY <1>3 DEF Leave, Clear
<1>4. ASSUME NEW a \in Addr, Unplug(a) \/ UnplugReceiver(a) PROVE tapOut' = slotOut'
  BY <1>4 DEF Unplug, UnplugReceiver, Clear
<1>5. CASE Removal
  <2>1. FixedRemove
    BY <1>5 DEF Removal, RemoveStep, ShiftRemove, ShiftKeep, ShiftDone
  <2>2. CASE count' = 0
    <3>1. \A i \in Ports : player'[i] = None
      BY <2>2, PortsAssumption DEF TableInv, CountDelimits, Occupied, Slots
    <3>2. \A i \in Ports : player'[i] = IF Matches(player[i], removing) THEN None
                                                                     ELSE player[i]
      BY <2>1, PortsAssumption DEF FixedRemove, Emptied
    <3>3. \A i \in Ports : slotOut[i] = Neutral
      BY <3>1, <3>2 DEF ShowInv, Shown, Occupied
    <3>4. slotOut = [i \in Ports |-> Neutral]
      BY <3>3 DEF RouterTypes
    <3> QED
      BY <1>5, <3>4 DEF Removal
  <2> QED
    BY <1>5, <2>2 DEF Removal
<1>6. CASE UNCHANGED allVars
  BY <1>6 DEF allVars
<1> QED
  BY <1>1, <1>2, <1>3, <1>4, <1>5, <1>6 DEF Next

(* With fixed slots and drivers that report their disconnects, every port  *)
(* shows exactly what its player is doing, and the tap was told the same,  *)
(* whatever sequence of joins, reports and disconnects came before.        *)
THEOREM FixedPortsShowTheirPlayers ==
    ASSUME SlotMode = "FIXED", Wired = {}, ~TapExclusive, ~RegisterOnConnect
    PROVE  Spec => []PortsOK
<1> DEFINE PortInv == ShowInv /\ RouterTypes /\ tapOut = slotOut
<1>1. Init => PortInv
  BY PortsAssumption, EventTypes
     DEF Init, PlayersInit, ShowInv, Shown, Occupied, RouterTypes
<1>2. TableInv /\ TableInv' /\ PortInv /\ [Next]_allVars => PortInv'
  <2> SUFFICES ASSUME TableInv, TableInv', PortInv, [Next]_allVars PROVE ShowInv'
    BY RouterTypesStep, TapFollows
  <2>1. ASSUME NEW d \in Device, Connect(d) PROVE ShowInv'
    <3>1. /\ UNCHANGED playerVars /\ slotOut' = slotOut
          /\ pad[d] = "absent" /\ pad' = [pad EXCEPT ![d] = "idle"]
      BY <2>1 DEF Connect
    <3>2. \A e \in Device : EventOf(e, pad'[e]) = EventOf(e, pad[e])
      BY <3>1 DEF EventOf
    <3>3. \A i \in Ports : Occupied(i) => player[i] \in Device
      BY PortsAssumption DEF TableInv, PlayersTypeOK, Occupied
    <3> QED
      BY <3>1, <3>2, <3>3 DEF ShowInv, Shown, Occupied, playerVars
  <2>2. ASSUME NEW d \in Device, NEW s \in {"idle", "pressed"}, Report(d, s)
        PROVE  ShowInv'
    BY <2>2, ReportShows DEF RouterTypes
  <2>3. ASSUME NEW d \in Device, Leave(d) PROVE ShowInv'
    <3>1. d \in Request /\ {e \in Device : Matches(e, d)} = {d}
      BY MatchesOne DEF Device, Request
    <3>2. \A e \in Device : ~Matches(e, d) => pad'[e] = pad[e]
      BY <2>3, MatchesOne DEF Leave
    <3> QED
      BY <2>3, <3>1, <3>2, ClearShows DEF Leave
  <2>4. ASSUME NEW a \in Addr, UnplugReceiver(a) PROVE ShowInv'
    <3>1. /\ AllOf(a) \in Request
          /\ \A e \in Device : Matches(e, AllOf(a)) <=> e.addr = a
      BY DEF AllOf, Request, Matches
    <3>2. {e \in Device : Matches(e, AllOf(a))} = {e \in Device : e.addr = a}
      BY <3>1
    <3>3. \A e \in Device : ~Matches(e, AllOf(a)) => pad'[e] = pad[e]
      BY <2>4, <3>1 DEF UnplugReceiver, GoneWith
    <3> QED
      BY <2>4, <3>1, <3>2, <3>3, ClearShows DEF UnplugReceiver
  <2>5. CASE Removal
    BY <2>5, RemovalShows
  <2>6. CASE UNCHANGED allVars
    BY <2>6 DEF allVars, ShowInv, Shown, Occupied
  <2>7. ASSUME NEW a \in Addr, Unplug(a) PROVE FALSE
    BY <2>7 DEF Unplug
  <2> QED
    BY <2>1, <2>2, <2>3, <2>4, <2>5, <2>6, <2>7 DEF Next
<1>3. TableInv /\ PortInv => PortsOK
  <2> SUFFICES ASSUME TableInv, PortInv PROVE PortsOK
    OBVIOUS
  <2>1. Idle => Shows(slotOut)
    BY IdleShows, PortsAssumption DEF ShowInv, Shows, Neutral
  <2>2. TypeOK
    BY DEF TypeOK, TableInv, RouterTypes
  <2> QED
    BY <2>1, <2>2 DEF PortsOK, OutputShowsPlayer, TapShowsPlayer
<1> QED
  BY <1>1, <1>2, <1>3, RouterTable, PTL DEF Spec
===============================================================================
