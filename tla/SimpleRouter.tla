------------------------------ MODULE SimpleRouter ------------------------------
(***************************************************************************)
(* Simple routing (router_simple_mode, router.c:805-863) on top of the     *)
(* player table: the event of a device goes to the output slot with the    *)
(* index of its player, and the four ways a device leaves clean up after   *)
(* it, or do not.  An output slot is here the last event published into it *)
(* (SeqlockSlot is about how the consoles read it), reduced to whose event *)
(* it is and whether anything is pressed in it.                            *)
(***************************************************************************)
EXTENDS Players

CONSTANTS Ports,              \* output slots: 0..max_players_per_output[output]-1
          Wired,              \* addresses of USB devices (tuh_umount_cb)
          Receiver,           \* addresses of USB receivers with wireless slots
          Attached,           \* addresses of native and GPIO devices
          TapExclusive,       \* output_tap_exclusive[output]
          RegisterOnConnect   \* CONFIG_REGISTER_ON_CONNECT

ASSUME PortsAssumption == Ports \subseteq Slots
ASSUME KindsAssumption == Wired \cap Receiver = {}
ASSUME ModesAssumption == TapExclusive \in BOOLEAN /\ RegisterOnConnect \in BOOLEAN

VARIABLES pad,      \* the device itself: absent, idle or something pressed
          slotOut,  \* router_outputs[output][i].current_state
          tapOut    \* the last event the tap of the output was called with

routerVars == <<pad, slotOut, tapOut>>
allVars == <<player, number, count, removing, cursor, pad, slotOut, tapOut>>

Neutral == [from |-> None, pressed |-> FALSE]   \* init_input_event()
EventOf(d, s) == [from |-> d, pressed |-> s = "pressed"]

Init == /\ PlayersInit
        /\ pad = [d \in Device |-> "absent"]
        /\ slotOut = [i \in Ports |-> Neutral]
        /\ tapOut = [i \in Ports |-> Neutral]

(* A device appears on its transport.  With CONFIG_REGISTER_ON_CONNECT the *)
(* USB host gives it a player slot at once.                                *)
Connect(d) == /\ Idle
              /\ pad[d] = "absent"
              /\ pad' = [pad EXCEPT ![d] = "idle"]
              /\ IF RegisterOnConnect /\ d.addr \in Wired /\ ~Registered(d)
                    /\ ~(SlotMode = "SHIFT" /\ count = MaxPlayers)
                 THEN AddPlayer(d)
                 ELSE UNCHANGED playerVars
              /\ UNCHANGED <<slotOut, tapOut>>

(* Press to join: an unknown device gets a slot when something is pressed  *)
(* or when it is physically attached.                                      *)
Joins(d, s) == ~Registered(d) /\ (s = "pressed" \/ d.addr \in Attached)

(* Mutant: slots go by the last player instead of the device's own. *)
DeliverToLast(d, s) ==
    LET f == [i \in Ports |-> IF i = count' - 1 THEN EventOf(d, s) ELSE slotOut[i]]
        g == [i \in Ports |-> IF i = count' - 1 THEN EventOf(d, s) ELSE tapOut[i]]
    IN  /\ slotOut' = IF TapExclusive THEN slotOut ELSE f
        /\ tapOut' = g

(* The event goes to the slot of the device's player, once it has one; a   *)
(* tap hears it too, or alone.                                             *)
Deliver(d, s) ==
    LET f == [i \in Ports |-> IF SitsIn(d, i)' THEN EventOf(d, s) ELSE slotOut[i]]
        g == [i \in Ports |-> IF SitsIn(d, i)' THEN EventOf(d, s) ELSE tapOut[i]]
    IN  /\ slotOut' = IF TapExclusive THEN slotOut ELSE f
        /\ tapOut' = g

(* A report of the device: router_submit_input() in simple mode. *)
Report(d, s) == /\ Idle
                /\ pad[d] # "absent"
                /\ pad' = [pad EXCEPT ![d] = s]
                /\ \/ Joins(d, s) /\ AddPlayer(d)
                   \/ /\ ~Joins(d, s) \/ (SlotMode = "SHIFT" /\ count = MaxPlayers)
                      /\ UNCHANGED playerVars
                /\ Deliver(d, s)

-------------------------------------------------------------------------------
(* router_device_disconnected() of each device of a set, in simple mode:   *)
(* a neutral event into the slot of its player and to the tap.             *)
Clear(gone) ==
    LET hit == {i \in Ports : \E d \in gone : SitsIn(d, i)}
    IN  /\ slotOut' = [i \in Ports |-> IF i \in hit THEN Neutral ELSE slotOut[i]]
        /\ tapOut' = [i \in Ports |-> IF i \in hit THEN Neutral ELSE tapOut[i]]

(* Mutant: the player is removed first, so its slot is not found. *)
LeaveAfterRemoval(d) == /\ pad[d] # "absent"
                        /\ d.addr \notin Wired
                        /\ RemoveCall(d)
                        /\ pad' = [pad EXCEPT ![d] = "absent"]
                        /\ UNCHANGED <<slotOut, tapOut>>

(* A Bluetooth pad disconnects, or a receiver loses one of its slots: the  *)
(* driver clears the output and then removes that one player.              *)
Leave(d) == /\ pad[d] # "absent"
            /\ d.addr \notin Wired
            /\ Clear({d})
            /\ RemoveCall(d)
            /\ pad' = [pad EXCEPT ![d] = "absent"]

AllOf(a) == [addr |-> a, inst |-> AllInst]
GoneWith(a) == [d \in Device |-> IF d.addr = a THEN "absent" ELSE pad[d]]

(* A USB device is unplugged: tuh_umount_cb() removes its players and      *)
(* leaves the outputs alone.                                               *)
Unplug(a) == /\ a \in Wired
             /\ RemoveCall(AllOf(a))
             /\ pad' = GoneWith(a)
             /\ UNCHANGED <<slotOut, tapOut>>

(* A receiver is unplugged: every slot's output is cleared before any      *)
(* player is removed.                                                      *)
UnplugReceiver(a) == /\ a \in Receiver
                     /\ Clear({d \in Device : d.addr = a})
                     /\ RemoveCall(AllOf(a))
                     /\ pad' = GoneWith(a)

(* Mutant: the reset at the end of a removal is left out. *)
RemovalWithoutReset == RemoveStep /\ UNCHANGED routerVars

(* remove_players_by_address() goes on; at its end an empty table resets   *)
(* every output slot (router_reset_outputs), but calls no tap.             *)
Removal == /\ RemoveStep
           /\ UNCHANGED <<pad, tapOut>>
           /\ slotOut' = IF Idle' /\ count' = 0 THEN [i \in Ports |-> Neutral]
                                                ELSE slotOut

Next == \/ \E d \in Device : \/ Connect(d)
                             \/ \E s \in {"idle", "pressed"} : Report(d, s)
                             \/ Leave(d)
        \/ \E a \in Addr : Unplug(a) \/ UnplugReceiver(a)
        \/ Removal

Spec == Init /\ [][Next]_allVars

(* Controllers go on reporting; a removal is a bounded loop of the same     *)
(* core, so a controller's turn comes round again and again between two of  *)
(* them (strong fairness).                                                  *)
LiveSpec == /\ Spec
            /\ WF_allVars(Removal)
            /\ \A d \in Device : SF_allVars(\E s \in {"idle", "pressed"} : Report(d, s))

-------------------------------------------------------------------------------
TypeOK == /\ PlayersTypeOK
          /\ pad \in [Device -> {"absent", "idle", "pressed"}]
          /\ slotOut \in [Ports -> [from : Device \cup {None}, pressed : BOOLEAN]]
          /\ tapOut \in [Ports -> [from : Device \cup {None}, pressed : BOOLEAN]]

Shows(out) ==
    \A i \in Ports :
       IF Occupied(i) THEN out[i] = EventOf(player[i], pad[player[i]])
                      ELSE ~out[i].pressed

OutputShowsPlayer == Idle => Shows(slotOut)
TapShowsPlayer == Idle => Shows(tapOut)

(* What a console sees in a port is what the player of that port is doing: *)
(* a press is the player's own and still held, and a port without a player *)
(* shows nothing; and the tap of an output was told the same.  No press    *)
(* outlives its controller, joins a neighbour's port or is lost            *)
(* (docs/core/router.md:203).                                              *)
PortsOK == TypeOK /\ OutputShowsPlayer /\ TapShowsPlayer

(* "This prevents stuck buttons from persisting after the last controller  *)
(* disconnects" (manager.c:305-306): when the table has become empty,      *)
(* nothing is pressed in any slot, whichever way the controllers left.     *)
NothingPressedWhenEmpty == Idle /\ count = 0 => \A i \in Ports : ~slotOut[i].pressed

(* A port whose player shifted in shows that player's input again as soon  *)
(* as the player's reports come in, however often the others come and go.  *)
PortRecovers ==
    \A d \in Device, i \in Ports :
       SitsIn(d, i) /\ Idle ~> slotOut[i].from = d \/ ~SitsIn(d, i)
===============================================================================
