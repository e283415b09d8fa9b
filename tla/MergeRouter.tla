---------------------------- MODULE MergeRouter ----------------------------
(***************************************************************************)
(* Merge routing (router_merge_mode, router.c:866-1215): every controller  *)
(* goes into slot 0 of every routed output.  How it does is the merge mode *)
(* of the app: BLEND keeps the last event of each device and publishes the *)
(* union, ALL and PRIORITY let the latest event win.  A host may inject    *)
(* input: it is laid over each real event, and carried by a virtual pad    *)
(* when the real ones are silent (router_inject_task).                     *)
(*                                                                         *)
(* The player table is here the set of the devices that have a slot        *)
(* (SimpleRouterProofs: nobody sits twice, the count is right), with the   *)
(* SHIFT rule for a full table: a newcomer is turned away.                 *)
(***************************************************************************)
EXTENDS Integers, FiniteSets, FiniteSetsExt

CONSTANTS Pad,         \* the real controllers
          Virtual,     \* the device ROUTER_INJECT_ADDR
          LeftOnly,    \* the pads that are a left Joy-Con
          Wired,       \* the pads that leave through tuh_umount_cb
          Buttons,
          Outputs, First,   \* routed outputs, and that of the first route
          Modes,       \* merge modes of the apps checked
          MaxPlayers,  \* player slots
          BlendSize    \* MAX_BLEND_DEVICES

ASSUME DeviceAssumption == /\ Virtual \notin Pad
                           /\ LeftOnly \subseteq Pad /\ Wired \subseteq Pad
ASSUME OutputAssumption == First \in Outputs
ASSUME SizeAssumption == MaxPlayers \in Nat /\ BlendSize \in Nat
ASSUME ModeAssumption == Modes \subseteq {"BLEND", "ALL", "PRIORITY"}

VARIABLES
  mode,        \* router_config.merge_mode
  players,     \* the devices with a player slot
  blend,       \* blend_devices: the last event of each device it has room for
  published,   \* router_outputs[output][0]
  inject,      \* s_inject_buttons and s_inject_analog
  needs_flush, \* router_inject_task owes the outputs a beat
  recent,      \* real input less than 100 ms ago
  ghosts,      \* history: the pads unplugged that nobody told the router of
  last,        \* history: the last event each player and ghost got through
  settled,     \* history: an event was merged since a departure
  left         \* history: no beat is owed for an injection the virtual pad shows

vars == <<mode, players, blend, published, inject, needs_flush, recent, ghosts,
          last, settled, left>>
-----------------------------------------------------------------------------
Device == Pad \union {Virtual}
Axes   == {"left", "right"}

\* How far a stick is from its centre: at rest, moved, or at the stop.
Deflection == 0 .. 2
Frame   == [buttons : SUBSET Buttons, stick : [Axes -> Deflection]]
Neutral == [buttons |-> {}, stick |-> [a \in Axes |-> 0]]

\* Stack garbage: `merged` that nothing was assigned to.
Garbage == [buttons |-> {}, stick |-> [a \in Axes |-> -1]]

\* valid_fields: the axes a device does not own.  The stick that a Joy-Con has
\* not got reads as pushed to its stop.
Foreign(d) == IF d \in LeftOnly THEN {"right"} ELSE {}
Events(d) == {f \in [buttons : SUBSET Buttons, stick : [Axes -> 0 .. 2]] :
                \A a \in Axes : IF a \in Foreign(d) THEN f.stick[a] = 2
                                                    ELSE f.stick[a] < 2}

\* What a host injects: a button, a stick, or nothing.
Injections == {Neutral} \union {[Neutral EXCEPT !.buttons = {b}] : b \in Buttons}
                        \union {[Neutral EXCEPT !.stick["left"] = 1]}
Injecting == inject # Neutral

\* Two outputs are routed only by apps that blend.
Targets == IF mode = "BLEND" THEN Outputs ELSE {First}

Stored(table, d, f) == [e \in DOMAIN table \union {d} |-> IF e = d THEN f ELSE table[e]]
Without(table, gone) == [e \in DOMAIN table \ gone |-> table[e]]

Init ==
  /\ mode \in Modes
  /\ players = {} /\ ghosts = {} /\ blend = <<>> /\ last = <<>>
  /\ published = [o \in Targets |-> Neutral]
  /\ inject = Neutral /\ needs_flush = FALSE /\ recent = FALSE
  /\ settled = TRUE /\ left = FALSE
-----------------------------------------------------------------------------
\* The injection laid over an event: buttons together, sticks to the further.
Overlay(f) == [buttons |-> f.buttons \union inject.buttons,
               stick |-> [a \in Axes |-> IF inject.stick[a] > f.stick[a]
                                         THEN inject.stick[a] ELSE f.stick[a]]]

\* The union of a table.  A departure looks at the foreign sticks as well.
Union(table, counted) ==
  [buttons |-> UNION {table[d].buttons : d \in DOMAIN table},
   stick |-> [a \in Axes |-> Max({0} \union
                {table[d].stick[a] : d \in {e \in DOMAIN table : <<e, a>> \in counted}})]]
Owned(table) == {p \in (DOMAIN table) \X Axes : p[2] \notin Foreign(p[1])}

\* Mutant: the devices that do not own a field are merged into it.
BlendForeign(table) == Union(table, (DOMAIN table) \X Axes)

Blend(table) == Union(table, Owned(table))
Reblend(table) == Union(table, (DOMAIN table) \X Axes)

\* A table without a free entry leaves the event unassigned.
HasEntry(d) == d \in DOMAIN blend \/ Cardinality(DOMAIN blend) < BlendSize

\* The event `merged` that goes out for f of d.
Merged(d, f, o) ==
  CASE mode = "BLEND" -> IF HasEntry(d) THEN Blend(Stored(blend, d, f)) ELSE Garbage
    [] mode = "ALL" -> [buttons |-> f.buttons,
                        stick |-> [a \in Axes |-> IF a \in Foreign(d)
                                                  THEN published[o].stick[a]
                                                  ELSE f.stick[a]]]
    [] mode = "PRIORITY" -> f

\* A device becomes a player when it does something, if there is room.
Active(f) == f.buttons # {} \/ \E a \in Axes : f.stick[a] > 0
Room == Cardinality(players) < MaxPlayers

Dropped == UNCHANGED <<players, blend, published, ghosts, last, settled>>

\* router_submit_input of f, with the injection in it already; announced: the
\* device gets its slot without doing anything.
Submit(d, f, announced) ==
  IF d \in players \/ (Room /\ (announced \/ Active(f)))
  THEN /\ players' = players \union {d}
       /\ ghosts' = ghosts \ {d}
       /\ last' = Stored(last, d, f)
       /\ blend' = IF mode = "BLEND" /\ HasEntry(d) THEN Stored(blend, d, f) ELSE blend
       /\ published' = [o \in Targets |-> Merged(d, f, o)]
       /\ settled' = TRUE
  ELSE Dropped

Report(d) ==
  /\ \E f \in Events(d) : Submit(d, Overlay(f), FALSE)
  /\ recent' = TRUE
  /\ UNCHANGED <<mode, inject, needs_flush, left>>

\* 100 ms pass without a report of a real controller.
Quiet == recent /\ recent' = FALSE
         /\ UNCHANGED <<mode, players, blend, published, inject, needs_flush,
                        ghosts, last, settled, left>>
-----------------------------------------------------------------------------
\* router_device_disconnected, then remove_players_by_address, which resets
\* every output when it leaves nobody.
Emptied == /\ blend' = <<>>
           /\ published' = [o \in Targets |-> Neutral]
           /\ ghosts' = {} /\ last' = <<>>

\* Mutant: what is left is not merged again.
DisconnectToNeutral(d) ==
  /\ d \notin Wired
  /\ players' = players \ {d}
  /\ IF players' = {} THEN Emptied
     ELSE /\ blend' = Without(blend, {d}) /\ last' = Without(last, {d})
          /\ published' = [published EXCEPT ![First] = Neutral]
          /\ UNCHANGED ghosts
  /\ settled' = FALSE
  /\ UNCHANGED <<mode, inject, needs_flush, recent, left>>

Disconnect(d) ==
  /\ d \notin Wired
  /\ players' = players \ {d}
  /\ IF players' = {} THEN Emptied
     ELSE /\ blend' = Without(blend, {d}) /\ last' = Without(last, {d})
          /\ published' = [published EXCEPT ![First] =
                             IF mode = "BLEND" THEN Reblend(blend') ELSE Neutral]
          /\ UNCHANGED ghosts
  /\ settled' = FALSE
  /\ UNCHANGED <<mode, inject, needs_flush, recent, left>>

\* tuh_umount_cb: the router is told nothing.
Unplug(d) ==
  /\ d \in Wired
  /\ players' = players \ {d}
  /\ IF players' = {} THEN Emptied
     ELSE /\ ghosts' = IF d \in players THEN ghosts \union {d} ELSE ghosts
          /\ UNCHANGED <<blend, published, last>>
  /\ UNCHANGED <<mode, inject, needs_flush, recent, settled, left>>
-----------------------------------------------------------------------------
\* INPUT.INJECT
cmd_input_inject(f) == inject' = f
  /\ UNCHANGED <<mode, players, blend, published, needs_flush, recent, ghosts,
                 last, settled, left>>

\* What the virtual pad did last was an injection.
VirtualShows == Virtual \in DOMAIN last /\ last[Virtual] # Neutral

\* router_announce_virtual_pad, when the web configurator opens the stream.  It
\* publishes an injection as well, and no beat is owed for that.
Announce ==
  /\ Submit(Virtual, Overlay(Neutral), TRUE)
  /\ left' = (Virtual \in players' /\ Injecting /\ ~needs_flush)
  /\ UNCHANGED <<mode, inject, needs_flush, recent>>

\* Real input cancels the beat that is owed.
Cancelled == left' = IF recent THEN left \/ (needs_flush /\ VirtualShows) ELSE FALSE

InjectTaskWithPads ==
  /\ Injecting \/ needs_flush
  /\ IF recent THEN Submit(Virtual, Overlay(Neutral), FALSE) ELSE Dropped
  /\ needs_flush' = Injecting
  /\ UNCHANGED <<mode, inject, recent, left>>

\* router_inject_task.  Real input makes it stand down; else a beat of the
\* virtual pad, and one more after the injection has ended.  That beats are 16
\* ms apart only delays them.
router_inject_task ==
  /\ Injecting \/ needs_flush
  /\ IF recent
     THEN needs_flush' = FALSE /\ Dropped
     ELSE needs_flush' = Injecting /\ Submit(Virtual, Overlay(Neutral), FALSE)
  /\ Cancelled
  /\ UNCHANGED <<mode, inject, recent>>

Next ==
  \/ \E d \in Pad : Report(d) \/ Disconnect(d) \/ Unplug(d)
  \/ Quiet
  \/ \E f \in Injections : cmd_input_inject(f)
  \/ Announce
  \/ router_inject_task

Spec == Init /\ [][Next]_vars

\* The main loop calls cdc_commands_task and with it router_inject_task.
LiveSpec == Spec /\ WF_vars(router_inject_task)
-----------------------------------------------------------------------------
\* Types; every published frame was assigned, whatever joins and leaves, since
\* an entry is that of a player, or of a pad that was unplugged unannounced.
TypeOK ==
  /\ mode \in Modes
  /\ players \subseteq Device /\ Cardinality(players) <= MaxPlayers
  /\ DOMAIN blend \subseteq players \union ghosts
  /\ \A d \in DOMAIN blend : blend[d] \in Frame
  /\ published \in [Targets -> Frame]
  /\ inject \in Injections
  /\ needs_flush \in BOOLEAN /\ recent \in BOOLEAN /\ settled \in BOOLEAN
  /\ left \in BOOLEAN
  /\ ghosts \subseteq Wired \ players
  /\ DOMAIN last = players \union ghosts
  /\ \A d \in DOMAIN last : last[d] \in Frame

\* Nothing is shown that no player did last, or a pad that was unplugged while
\* others stayed: a press dies with its controller when the router is told,
\* and a stick follows only those who have one ("only fields whose bit is set in
\* valid_fields contribute", input_event.h:124-125; PRIORITY does not look at it).
\* Between a departure and the next event the code merges the foreign sticks and
\* the first output only.
NothingForeign ==
  \A o \in Targets : settled \/ o = First =>
    /\ published[o].buttons \subseteq UNION {last[d].buttons : d \in DOMAIN last}
    /\ settled /\ mode # "PRIORITY" => \A a \in Axes : published[o].stick[a] \in
         {0} \union {last[d].stick[a] : d \in {e \in DOMAIN last : a \notin Foreign(e)}}

\* Types, nothing unassigned, nothing foreign.
MergedOK == TypeOK /\ NothingForeign

\* "If either controller presses A, the output sees A pressed"
\* (docs/overview/data-flow.md:90): in BLEND nobody's press is lost, not even by
\* the departure of another one, and no stick is masked by one closer to rest.
NobodyMasked ==
  mode = "BLEND" => \A d \in players :
    /\ last[d].buttons \subseteq published[First].buttons
    /\ \A a \in Axes \ Foreign(d) : published[First].stick[a] >= last[d].stick[a]

\* Without real controllers an injection reaches the output, as long as there is
\* a player slot for the virtual pad.
Carries(o, f) == /\ f.buttons \subseteq published[o].buttons
                 /\ \A a \in Axes : published[o].stick[a] >= f.stick[a]
InjectionArrives ==
  \A f \in Injections :
    <>[](~recent /\ inject = f /\ (Virtual \in players \/ Room))
      => []<>(\A o \in Targets : Carries(o, f))

\* And when it ends, the virtual pad lets go of it, by the beat that needs_flush
\* asks for, whatever the real controllers do; and where there are none nothing
\* stays pressed.  In two ways the code leaves the injection behind until the next
\* beat or announcement: real input cancels the beat (router.c:1290), and an
\* injection that the announcement of the virtual pad has published (1261-1275)
\* ends before the next call of the task.  What a real pad's event has carried
\* along stays with that pad until its next event.
Released ==
  /\ ~VirtualShows
  /\ players \subseteq {Virtual} /\ ghosts = {} =>
       \A o \in Targets : settled \/ o = First => published[o] = Neutral
ReleasedInTheEnd == []<>(Injecting \/ left \/ Released)

=============================================================================
