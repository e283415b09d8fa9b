-------------------------------- MODULE Players --------------------------------
(***************************************************************************)
(* The player manager: which device (address, instance) sits in which      *)
(* player slot (core/services/players/manager.c).  SHIFT mode packs the    *)
(* players at the front of players[] and moves them up when one leaves;    *)
(* FIXED mode leaves a hole.  The removal of SHIFT mode is a loop over a   *)
(* playersCount that shrinks under it, and has one step per iteration.     *)
(***************************************************************************)
EXTENDS Integers, FiniteSets

CONSTANTS Addr,        \* device addresses
          Inst,        \* instances of a device (interfaces, RF slots, ports)
          MaxPlayers,  \* MAX_PLAYERS
          SlotMode     \* current_slot_mode: "SHIFT" or "FIXED"

None == [addr |-> "none", inst |-> "none"]  \* dev_addr = instance = -1
AllInst == "all"                            \* instance -1 of a removal

ASSUME MaxPlayersAssumption == MaxPlayers \in Nat \ {0}
ASSUME SlotModeAssumption == SlotMode \in {"SHIFT", "FIXED"}
ASSUME AddrAssumption == "none" \notin Addr
ASSUME InstAssumption == "none" \notin Inst /\ AllInst \notin Inst

Slots == 0 .. MaxPlayers - 1
Device == [addr : Addr, inst : Inst]
Request == [addr : Addr, inst : Inst \cup {AllInst}]

VARIABLES player,    \* players[i]: the device of slot i, or None
          number,    \* players[i].player_number
          count,     \* playersCount
          removing,  \* the request remove_players_by_address() works on
          cursor     \* its loop index

playerVars == <<player, number, count, removing, cursor>>

NoRequest == [addr |-> "none", inst |-> "none"]
Idle == removing = NoRequest

PlayersInit == /\ player = [i \in Slots |-> None]
               /\ number = [i \in Slots |-> 0]
               /\ count = 0
               /\ removing = NoRequest
               /\ cursor = 0

Occupied(i) == player[i] # None

(* find_player_index() >= 0 *)
Registered(d) == \E i \in Slots : player[i] = d

(* The device is in slot i: find_player_index() = i. *)
SitsIn(d, i) == player[i] = d /\ \A j \in 0 .. i - 1 : player[j] # d

-------------------------------------------------------------------------------
Seat(d, i) == /\ player' = [player EXCEPT ![i] = d]
              /\ number' = [number EXCEPT ![i] = i + 1]

(* add_player() in SHIFT mode takes the slot after the last player; with   *)
(* all slots taken it returns -1 and nothing changes.                      *)
AddShift(d) == /\ SlotMode = "SHIFT"
               /\ count < MaxPlayers
               /\ Seat(d, count)
               /\ count' = count + 1

(* The search of FIXED mode leaves player_index at 0 when no slot is free, *)
(* so a full table hands out slot 0 again.                                 *)
FirstFree(i) == \/ ~Occupied(i) /\ \A j \in 0 .. i - 1 : Occupied(j)
                \/ i = 0 /\ \A j \in Slots : Occupied(j)

AddFixed(d) == /\ SlotMode = "FIXED"
               /\ \E i \in Slots :
                    /\ FirstFree(i)
                    /\ Seat(d, i)
                    /\ count' = IF i >= count THEN i + 1 ELSE count

(* Every caller looks the device up first and adds it only if it is absent *)
(* (router.c:808-821, 895-908, 1263-1265, 2108-2110).                      *)
AddPlayer(d) == /\ Idle
                /\ ~Registered(d)
                /\ AddShift(d) \/ AddFixed(d)
                /\ UNCHANGED <<removing, cursor>>

-------------------------------------------------------------------------------
Matches(d, r) == d.addr = r.addr /\ r.inst \in {AllInst, d.inst}

(* remove_players_by_address() is called with one instance or with all. *)
RemoveCall(r) == /\ Idle
                 /\ removing' = r
                 /\ cursor' = 0
                 /\ UNCHANGED <<player, number, count>>

(* What the slots hold when the players after slot c have moved up. *)
MovedUp(f, c, empty) ==
    [i \in Slots |-> IF i = count - 1 THEN empty
                     ELSE IF c <= i /\ i < count THEN f[i + 1] ELSE f[i]]

(* Mutants of the loop body below: the index skips the player that moved   *)
(* up; the last player is moved into the hole.                             *)
ShiftAndAdvance == /\ ~Idle /\ SlotMode = "SHIFT" /\ cursor < count
                   /\ Matches(player[cursor], removing)
                   /\ player' = MovedUp(player, cursor, None)
                   /\ number' = MovedUp(number, cursor, 0)
                   /\ count' = count - 1
                   /\ cursor' = cursor + 1
                   /\ UNCHANGED removing
ShiftSwapLast == /\ ~Idle /\ SlotMode = "SHIFT" /\ cursor < count
                 /\ Matches(player[cursor], removing)
                 /\ player' = [player EXCEPT ![cursor] = player[count - 1],
                                             ![count - 1] = None]
                 /\ number' = [number EXCEPT ![count - 1] = 0]
                 /\ count' = count - 1
                 /\ UNCHANGED <<removing, cursor>>

(* SHIFT: the players after a removed one move up a slot and the last slot *)
(* is emptied; the index stays, because the next player is now in it.      *)
ShiftRemove == /\ ~Idle /\ SlotMode = "SHIFT"
               /\ cursor < count
               /\ Matches(player[cursor], removing)
               /\ player' = MovedUp(player, cursor, None)
               /\ number' = MovedUp(number, cursor, 0)
               /\ count' = count - 1
               /\ UNCHANGED <<removing, cursor>>

ShiftKeep == /\ ~Idle /\ SlotMode = "SHIFT"
             /\ cursor < count
             /\ ~Matches(player[cursor], removing)
             /\ cursor' = cursor + 1
             /\ UNCHANGED <<player, number, count, removing>>

(* Mutant: the players that moved up keep their numbers. *)
ShiftDoneWithoutNumbers == /\ ~Idle /\ SlotMode = "SHIFT"
                           /\ cursor >= count
                           /\ removing' = NoRequest
                           /\ cursor' = 0
                           /\ UNCHANGED <<player, number, count>>

(* After the loop the remaining players are renumbered. *)
ShiftDone == /\ ~Idle /\ SlotMode = "SHIFT"
             /\ cursor >= count
             /\ number' = [i \in Slots |-> IF i < count THEN i + 1 ELSE number[i]]
             /\ removing' = NoRequest
             /\ cursor' = 0
             /\ UNCHANGED <<player, count>>

(* playersCount of FIXED mode: the highest occupied slot + 1. *)
HighestOccupied(p, n) == /\ n \in 0 .. MaxPlayers
                         /\ n > 0 => p[n - 1] # None
                         /\ \A i \in n .. MaxPlayers - 1 : p[i] = None

Emptied(f, hit, empty) == [i \in Slots |-> IF i \in hit THEN empty ELSE f[i]]

(* Mutant: the whole device is emptied whatever instance was named.        *)
FixedRemoveDevice ==
    LET hit == {i \in Slots : player[i].addr = removing.addr}
    IN  /\ ~Idle /\ SlotMode = "FIXED"
        /\ player' = Emptied(player, hit, None)
        /\ number' = Emptied(number, hit, 0)
        /\ \E n \in 0 .. MaxPlayers : HighestOccupied(player', n) /\ count' = n
        /\ removing' = NoRequest
        /\ UNCHANGED cursor

(* FIXED: every match is emptied in place and playersCount recomputed. *)
FixedRemove ==
    LET hit == {i \in Slots : Matches(player[i], removing)}
    IN  /\ ~Idle /\ SlotMode = "FIXED"
        /\ player' = Emptied(player, hit, None)
        /\ number' = Emptied(number, hit, 0)
        /\ \E n \in 0 .. MaxPlayers : HighestOccupied(player', n) /\ count' = n
        /\ removing' = NoRequest
        /\ UNCHANGED cursor

RemoveStep == IF SlotMode = "SHIFT" THEN ShiftRemove \/ ShiftKeep \/ ShiftDone
                                    ELSE FixedRemove

PlayersNext == \/ \E d \in Device : AddPlayer(d)
               \/ \E r \in Request : RemoveCall(r)
               \/ RemoveStep

PlayersSpec == PlayersInit /\ [][PlayersNext]_playerVars

-------------------------------------------------------------------------------
PlayersTypeOK == /\ player \in [Slots -> Device \cup {None}]
                 /\ number \in [Slots -> 0 .. MaxPlayers]
                 /\ count \in 0 .. MaxPlayers
                 /\ removing \in Request \cup {NoRequest}
                 /\ cursor \in 0 .. MaxPlayers

(* No device holds two slots, so input, rumble and LEDs of a device always *)
(* go to one player.                                                       *)
OneSlotPerDevice ==
    \A i, j \in Slots : Occupied(i) /\ player[i] = player[j] => i = j

(* playersCount delimits the occupied slots, also between the iterations   *)
(* of a removal: packed below it in SHIFT mode, none beyond it in FIXED    *)
(* mode, the last of them occupied in both.                                *)
CountDelimits ==
    /\ \A i \in Slots : i >= count => ~Occupied(i)
    /\ count > 0 => Occupied(count - 1)
    /\ SlotMode = "SHIFT" => \A i \in Slots : i < count => Occupied(i)

(* Between calls every player's number is its slot + 1 and an empty slot's *)
(* is 0, also after any sequence of removals and renumberings.             *)
NumbersMatchSlots ==
    Idle => \A i \in Slots : number[i] = IF Occupied(i) THEN i + 1 ELSE 0

(* The table stays one that every reader can rely on, whatever is added    *)
(* and removed: slots, count and numbers say the same.                     *)
TableOK == PlayersTypeOK /\ OneSlotPerDevice /\ CountDelimits /\ NumbersMatchSlots

(* A removal that has finished left no player it was asked to remove, even *)
(* when matching players sit next to each other.                           *)
RemovalComplete ==
    [][~Idle /\ removing' = NoRequest
         => \A i \in Slots : ~Matches(player'[i], removing)]_playerVars

(* A removal takes nobody else, and those who stay keep their order when   *)
(* they shift up (docs/core/players.md:13).                                *)
OthersStay ==
    [][/\ \A i \in Slots : Occupied(i) /\ ~Matches(player[i], removing)
            => \E j \in Slots : player'[j] = player[i]
       /\ \A i, j, k, l \in Slots :
            /\ i < j /\ Occupied(i) /\ Occupied(j)
            /\ player'[k] = player[i] /\ player'[l] = player[j]
            => k < l]_playerVars

(* "Players keep their assigned slots permanently" in FIXED mode           *)
(* (docs/core/players.md:19): only the removal of a device frees its slot. *)
FixedKeepsSlots ==
    [][SlotMode = "FIXED" =>
         \A i \in Slots : Occupied(i) /\ ~Matches(player[i], removing)
           => player'[i] = player[i]]_playerVars
===============================================================================
