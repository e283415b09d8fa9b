------------------------------ MODULE ConsolePoll ------------------------------
(***************************************************************************)
(* A console driver on the reading side of a router slot: the loop that    *)
(* polls router_get_output, drops or converts the frame, and offers the    *)
(* same slot to the code detector and to the hotkey service afterwards.    *)
(* The slot is the cell of OutputSlot, which SeqlockSlot implements; the   *)
(* writing side is the router and the players table reduced to what a      *)
(* driver can see of them.  One slot, player 0.                            *)
(***************************************************************************)
EXTENDS Naturals

CONSTANTS Button,      \* the buttons of a controller
          Consoles,    \* the drivers, see ConsoleAssumption
          Parallel,    \* the loop runs on core 1, beside the router
          MaxPads,     \* bound on the players table
          MaxPublish   \* bound on the publishes of a behaviour

(* Assumed where the constants get their values, in Outputs. *)
ConsoleAssumption ==
    /\ Consoles \subseteq {"gamecube", "n64", "nuon", "pcengine", "dreamcast", "3do",
                           "loopy"}
    /\ Parallel \in BOOLEAN
    /\ MaxPads \in Nat \ {0}
    /\ MaxPublish \in Nat

(* An input_event_t: typed is FALSE for INPUT_TYPE_NONE, what              *)
(* init_input_event leaves and no driver submits.                          *)
Frame == [typed : BOOLEAN, held : SUBSET Button]
Typed(h) == [typed |-> TRUE, held |-> h]
Untyped(h) == [typed |-> FALSE, held |-> h]
Blank == Untyped({})

VARIABLES version, value, taken, out, handed, \* the slot, as in OutputSlot
          console, \* the driver this build has
          players, \* playersCount
          core0,   \* "run", "unseat" or "reset": where the router stands
          pc,      \* where the driver's loop stands
          new,     \* the poll at the head of the loop returned an event
          report,  \* the buttons the console reads on its next request
          hotkey   \* the buttons hotkeys_check was called with last

slot == <<version, value, taken, out, handed>>
vars == <<version, value, taken, out, handed, console, players, core0, pc, new,
          report, hotkey>>

Slot == INSTANCE OutputSlot WITH Event <- Frame

TypeOK == /\ version \in 0..(MaxPublish + 1) /\ taken \in 0..version
          /\ handed \in 0..version
          /\ value \in Frame /\ out \in Frame
          /\ console \in Consoles
          /\ players \in 0..MaxPads
          /\ core0 \in {"run", "unseat", "reset"}
          /\ pc \in {"poll", "gate", "codes", "hotkeys"}
          /\ new \in BOOLEAN
          /\ report \in SUBSET Button /\ hotkey \in SUBSET Button

Init == /\ Slot!Init
        /\ console \in Consoles
        /\ players = 0 /\ core0 = "run"
        /\ pc = "poll" /\ new = FALSE
        /\ report = {}
        /\ hotkey = {}

-----------------------------------------------------------------------------
(* The writing side, core 0.                                               *)

(* The main loop calls one task after another: unless the driver has a     *)
(* core of its own, neither side moves while the other is inside a call.   *)
RouterMayRun == Parallel \/ pc = "poll"
ConsoleMayRun == Parallel \/ core0 = "run"

RouterOnly == UNCHANGED <<console, pc, new, report, hotkey>>

Put(f) == Slot!Publish /\ value' = f

(* The bound; the reset that ends a removal is not held up by it. *)
MayPublish == version < MaxPublish

(* The first press of an unknown device: add_player, then the frame is     *)
(* published in the same call.                                             *)
Join == /\ RouterMayRun /\ core0 = "run"
        /\ players < MaxPads /\ MayPublish
        /\ players' = players + 1
        /\ \E h \in SUBSET Button \ {{}} : Put(Typed(h))
        /\ UNCHANGED core0 /\ RouterOnly

Report == /\ RouterMayRun /\ core0 = "run"
          /\ players > 0 /\ MayPublish
          /\ \E h \in SUBSET Button : Put(Typed(h))
          /\ UNCHANGED <<players, core0>> /\ RouterOnly

(* A controller goes.  router_device_disconnected publishes a fresh event  *)
(* of no type: nothing held, or in MERGE mode what the others hold; the    *)
(* USB unplug path never calls it.  The table is compacted next.           *)
Disconnect == /\ RouterMayRun /\ core0 = "run"
              /\ players > 0
              /\ \/ UNCHANGED slot
                 \/ /\ MayPublish
                    /\ \E h \in IF players = 1 THEN {{}} ELSE SUBSET Button : Put(Untyped(h))
              /\ core0' = "unseat"
              /\ UNCHANGED players /\ RouterOnly

Unseat == /\ core0 = "unseat"
          /\ players' = players - 1
          /\ core0' = IF players = 1 THEN "reset" ELSE "run"
          /\ UNCHANGED slot /\ RouterOnly

(* router_reset_outputs, after the last player left. *)
Reset == /\ core0 = "reset"
         /\ Put(Blank)
         /\ core0' = "run"
         /\ UNCHANGED players /\ RouterOnly

-----------------------------------------------------------------------------
(* The reading side.                                                       *)

ConsoleOnly == UNCHANGED <<console, players, core0>>

Poll == /\ pc = "poll" /\ ConsoleMayRun
        /\ IF taken # version THEN Slot!Take /\ new' = TRUE
                              ELSE UNCHANGED slot /\ new' = FALSE
        /\ pc' = "gate"
        /\ UNCHANGED <<report, hotkey>> /\ ConsoleOnly

(* What the driver shows the console for the frame it polled.  PC Engine   *)
(* clears a port beyond the player count whether it polled anything or     *)
(* not; Dreamcast and 3DO do not look at the count but at the type of the  *)
(* event; Loopy shows a port released whenever it has nothing new to show;  *)
(* the others return early when nothing is connected.                      *)
ByType == console \in {"dreamcast", "3do"}

(* Mutant: the last connected port counts as out of range. *)
ShowsOffByOne == new /\ players > 1

Shows == /\ new
         /\ IF ByType THEN out.typed ELSE players > 0

Cleared == \/ console = "pcengine" /\ players = 0
           \/ console = "loopy" /\ ~Shows

AfterGate ==
    CASE console = "pcengine"            -> "codes"
      [] console = "nuon" /\ ~Shows      -> "hotkeys"
      [] ByType \/ console = "loopy"     -> "poll"
      [] ~Shows                          -> "poll"
      [] OTHER                           -> "codes"

Gate == /\ pc = "gate"
        /\ pc' = AfterGate
        /\ report' = IF Cleared THEN {} ELSE IF Shows THEN out.held ELSE report
        /\ UNCHANGED <<new, hotkey>> /\ UNCHANGED slot /\ ConsoleOnly

(* codes_task_for_output polls the same slot again, and with it takes the  *)
(* version it finds; on the N64 codes_task polls slots of other outputs.   *)
Codes == /\ pc = "codes"
         /\ IF console # "n64" /\ taken # version THEN Slot!Take ELSE UNCHANGED slot
         /\ pc' = IF console = "nuon" THEN "hotkeys" ELSE "poll"
         /\ UNCHANGED <<new, report, hotkey>> /\ ConsoleOnly

(* nuon_task polls once more for the in-game reset hotkeys. *)
Hotkeys == /\ pc = "hotkeys"
           /\ IF taken # version THEN Slot!Take /\ hotkey' = value.held
                                 ELSE UNCHANGED <<slot, hotkey>>
           /\ pc' = "poll"
           /\ UNCHANGED <<new, report>> /\ ConsoleOnly

Router == Join \/ Report \/ Disconnect \/ Unseat \/ Reset
Driver == Poll \/ Gate \/ Codes \/ Hotkeys

Next == Router \/ Driver

(* The driver's loop never stops, and a call on core 0, once begun, ends.  *)
(* Nothing obliges a controller to report.                                 *)
Spec == Init /\ [][Next]_vars /\ WF_vars(Driver) /\ WF_vars(Unseat \/ Reset)

-----------------------------------------------------------------------------
(* Properties.                                                             *)

(* Dreamcast and 3DO leave the frame of a departure aside: it has no type. *)
Skipped == ByType /\ ~value.typed

Followed == report = value.held \/ Skipped \/ players = 0

EmptyPortCleared == console = "pcengine" => report = {} \/ players > 0

(* While a controller is connected the console reads, sooner or later,     *)
(* what the slot holds: no frame is lost between the router and the report *)
(* (update_output; "return each published event once", router.c:1910-1912). *)
(* And once the last controller is gone PC Engine releases its buttons     *)
(* (the purpose of router_reset_outputs, manager.c:304-305): it clears a   *)
(* port beyond the player count even when its poll had nothing new.        *)
ConsoleFollows == []TypeOK /\ []<>Followed /\ []<>EmptyPortCleared
===============================================================================
