------------------------------- MODULE BleOutput -------------------------------
(***************************************************************************)
(* The BLE output (bt/ble_output/ble_output.c): ble_output_task turns the  *)
(* events of the router into reports and queues them, and BTstack sends    *)
(* what is queued when the link has room.  One tag, pending_type, says     *)
(* which report is queued; there is a buffer for each kind.  On the Pico W *)
(* both run in one loop (port "direct").  On the nRF BTstack has a thread  *)
(* that preempts the task between any two of its accesses and is not       *)
(* preempted by it ("threaded").  On the ESP32 it has a task of its own    *)
(* and either core, so that the two run at the same time ("parallel").     *)
(***************************************************************************)
EXTENDS Naturals

CONSTANTS DirectModes,    \* "standard", "xbox", "sinput": modes of ports without threads
          ThreadedModes,  \* of the nRF
          ParallelModes,  \* and of the ESP32
          Kinds,          \* kinds of events: "gamepad", "keyboard"
          Input,          \* what a controller or keyboard can be doing
          Neutral,        \* nothing
          Stall,          \* BLE_SEND_STALL_MS, in units of Tick
          MaxLost         \* bound on requests to send that are lost

ASSUME BleAssumption ==
    /\ DirectModes \cup ThreadedModes \cup ParallelModes
         \subseteq {"standard", "xbox", "sinput"}
    /\ Kinds \subseteq {"gamepad", "keyboard"} /\ "gamepad" \in Kinds
    /\ Neutral \in Input /\ "unknown" \notin Input
    /\ Stall \in Nat /\ MaxLost \in Nat

VARIABLES port, mode,
          waiting,    \* events router_get_output would hand out now: one or none
          usbHost,    \* ble_usb_host()
          connected,  \* ble_connected and a valid con_handle
          features,   \* feature_request_pending
          step,       \* where ble_output_task stands
          draft,      \* the report it is building
          muted,      \* ble_mute_active
          pending,    \* pending_type
          queued,     \* pending_gamepad, pending_keyboard, ...
          sent,       \* last_sent_gamepad, ...
          after,      \* sinput_input_after_feature
          marshal,    \* send_req_queued, and whether the callback is really there
          asked,      \* BTstack owes a HIDS_SUBEVENT_CAN_SEND_NOW
          serve,      \* where its handler stands
          sending,    \* the tag as the handler read it last
          age,        \* time since send_req_ms
          host,       \* what the host holds, per kind
          lost,       \* requests lost so far
          owed,       \* history: the input of the last event taken, per kind
          excused,    \* history: kinds whose last event met an exception, see below
          clash,      \* history: kinds the task stored since the handler read the tag
          overtaken   \* history: kinds stored between the send and the record of it

input == <<waiting, usbHost>>
task == <<step, draft, muted>>
send == <<pending, queued, sent, after>>
request == <<marshal, asked, age>>
link == <<connected, features, host, lost>>
handler == <<serve, sending, clash, overtaken>>
build == <<port, mode>>
bleVars == <<port, mode, waiting, usbHost, connected, features, step, draft, muted,
             pending, queued, sent, after, marshal, asked, age, serve, sending,
             clash, overtaken, host, lost, owed, excused>>

(* In SInput mode keyboards and mice have a service of their own.          *)
EventKinds == IF mode = "sinput" THEN {"gamepad"} ELSE Kinds
Event == [kind : Kinds, held : Input]
Nothing == [kind |-> "gamepad", held |-> Neutral]   \* ble_neutral_event

AroundTypeOK ==
    /\ port \in {"direct", "threaded", "parallel"}
    /\ mode \in {"standard", "xbox", "sinput"}
    /\ waiting \in SUBSET Event /\ usbHost \in BOOLEAN
    /\ connected \in BOOLEAN /\ features \in BOOLEAN
    /\ host \in [Kinds -> Input \cup {"unknown"}]
    /\ lost \in 0 .. MaxLost
    /\ owed \in [Kinds -> Input] /\ excused \subseteq Kinds

TaskTypeOK ==
    /\ step \in {"idle", "unblock", "again", "poll", "feature", "respond", "behind",
                 "compare", "queue", "tag"}
    /\ draft \in Event /\ muted \in BOOLEAN

SendTypeOK ==
    /\ pending \in Kinds \cup {"none", "feature"}
    /\ queued \in [Kinds -> Input] /\ sent \in [Kinds -> Input]
    /\ after \in BOOLEAN

RequestTypeOK ==
    /\ marshal \in {"no", "posted", "lost"} /\ asked \in BOOLEAN
    /\ age \in 0 .. Stall

HandlerTypeOK ==
    /\ serve \in {"rest", "send", "record", "look", "clear", "follow", "resume"}
    /\ sending \in Kinds \cup {"none", "feature"}
    /\ clash \subseteq Kinds /\ overtaken \subseteq Kinds

BleTypeOK == /\ AroundTypeOK /\ TaskTypeOK /\ SendTypeOK /\ RequestTypeOK
             /\ HandlerTypeOK

BleInit ==
    /\ \/ port = "direct" /\ mode \in DirectModes
       \/ port = "threaded" /\ mode \in ThreadedModes
       \/ port = "parallel" /\ mode \in ParallelModes
    /\ waiting = {} /\ usbHost = FALSE
    /\ connected = FALSE /\ features = FALSE
    /\ step = "idle" /\ draft = Nothing /\ muted = FALSE
    /\ pending = "none" /\ after = FALSE
    /\ queued = [k \in Kinds |-> Neutral] /\ sent = [k \in Kinds |-> Neutral]
    /\ marshal = "no" /\ asked = FALSE /\ age = 0
    /\ serve = "rest" /\ sending = "none" /\ clash = {} /\ overtaken = {}
    /\ host = [k \in Kinds |-> "unknown"] /\ lost = 0
    /\ owed = [k \in Kinds |-> Neutral] /\ excused = {}

(* BTstack's thread may run in the middle of the task, BTstack's loop not; *)
(* it does one thing at a time.                                            *)
Interrupts == (port # "direct" \/ step = "idle") /\ serve = "rest"

(* The task runs while the handler does only where each has a core.        *)
Runs == port = "parallel" \/ serve = "rest"

-----------------------------------------------------------------------------
(* Around the task.                                                        *)

(* The router has a new event; one that was not taken yet is superseded.   *)
(* Xbox mode makes a gamepad of everything.  Only Poll looks at events and *)
(* at the USB host, so they may as well change between two calls.          *)
RouterEvent == /\ step = "idle" /\ Runs
               /\ \E k \in EventKinds, i \in Input :
                    waiting' = {[kind |-> IF mode = "xbox" THEN "gamepad" ELSE k,
                                 held |-> i]}
               /\ UNCHANGED <<usbHost, build, task, send, request, handler, link, owed, excused>>

(* WIRELESS_POLICY_USB and a USB host that comes or goes. *)
UsbHost == /\ step = "idle" /\ Runs
           /\ usbHost' = ~usbHost
           /\ UNCHANGED <<waiting, build, task, send, request, handler, link, owed, excused>>

(* Nobody asks for the age while nothing is queued. *)
Tick == /\ age < Stall /\ pending # "none"
        /\ age' = age + 1
        /\ UNCHANGED <<build, input, task, send, marshal, asked, handler, link,
                       owed, excused>>

(* ble_request_can_send_now.  The marshalled one trusts its flag.          *)
Request == /\ age' = 0
           /\ IF port = "direct"
                THEN asked' = (asked \/ connected) /\ UNCHANGED marshal
                ELSE /\ marshal' = IF marshal = "no" THEN "posted" ELSE marshal
                     /\ UNCHANGED asked

-----------------------------------------------------------------------------
(* ble_output_task.                                                        *)

TaskOnly == UNCHANGED <<build, usbHost, connected, serve, sending, overtaken,
                        host, lost>>

Return == step' = "idle" /\ draft' = Nothing /\ TaskOnly

Stalled == pending # "none" /\ age = Stall

Enter == /\ step = "idle" /\ connected
         /\ step' = IF ~Stalled THEN "poll"
                  ELSE IF pending = "feature" THEN "unblock" ELSE "again"
         /\ TaskOnly
         /\ UNCHANGED <<waiting, features, draft, muted, send, request, owed, excused,
                        clash>>

(* The handler has read the tag and not cleared it yet. *)
BeforeClear == serve \in {"send", "record", "look", "clear"}

(* The task stores a report of kind k, or the tag for it. *)
Store(k) == clash' = IF BeforeClear THEN clash \cup {k} ELSE clash

(* The watchdog drops a feature response that does not get out.            *)
Unblock == /\ step = "unblock"
           /\ pending' = IF after THEN "gamepad" ELSE "none"
           /\ after' = FALSE
           /\ step' = "again"
           /\ Store("gamepad")
           /\ TaskOnly
           /\ UNCHANGED <<waiting, features, draft, muted, queued, sent, request,
                          owed, excused>>

(* Mutant: the flag that coalesces requests is not cleared. *)
AgainCoalesced == /\ step = "again"
                  /\ IF pending # "none" THEN Request
                                         ELSE age' = 0 /\ UNCHANGED <<marshal, asked>>
                  /\ step' = "poll"
                  /\ TaskOnly
                  /\ UNCHANGED <<waiting, features, draft, muted, send, owed, excused,
                                 clash>>

(* It clears the flag that coalesces requests, and asks again.             *)
Again == /\ step = "again"
         /\ age' = 0
         /\ IF port = "direct"
              THEN asked' = (asked \/ (pending # "none" /\ connected)) /\ UNCHANGED marshal
              ELSE /\ marshal' = IF pending # "none" THEN "posted"
                                 ELSE IF marshal = "lost" THEN "no" ELSE marshal
                   /\ UNCHANGED asked
         /\ step' = "poll"
         /\ TaskOnly
         /\ UNCHANGED <<waiting, features, draft, muted, send, owed, excused, clash>>

(* What ble_mute_filter lets through: with a USB host first a neutral      *)
(* event, then nothing.                                                    *)
Passed == IF ~usbHost THEN waiting ELSE IF muted THEN {} ELSE {Nothing}

(* The event is taken in any case.  Building a report for SInput notices   *)
(* another device, which makes a feature response due.                     *)
Poll == /\ step = "poll"
        /\ waiting' = {}
        /\ muted' = usbHost
        /\ \/ /\ Passed = {}
              /\ step' = "idle"
              /\ UNCHANGED <<draft, features, owed, excused>>
           \/ \E e \in Passed :
              /\ draft' = e
              /\ owed' = [owed EXCEPT ![e.kind] = e.held]
              /\ excused' = excused \ {e.kind}
              /\ IF mode = "sinput"
                   THEN step' = "feature" /\ features' \in {features, TRUE}
                   ELSE step' = "compare" /\ UNCHANGED features
        /\ TaskOnly
        /\ UNCHANGED <<send, request, clash>>

(* A feature response takes the tag; the input goes behind it.             *)
Feature == /\ step = "feature"
           /\ \/ /\ pending = "none" /\ features
                 /\ pending' = "feature" /\ features' = FALSE
                 /\ step' = "respond"
              \/ /\ ~(pending = "none" /\ features)
                 /\ step' = IF pending = "feature" THEN "behind" ELSE "compare"
                 /\ UNCHANGED <<pending, features>>
           /\ TaskOnly
           /\ UNCHANGED <<waiting, draft, muted, queued, sent, after, request,
                          owed, excused, clash>>

(* Mutant: the input taken together with the feature request is forgotten. *)
StashOnlyBehind == /\ step \in {"respond", "behind"}
                   /\ queued' = [queued EXCEPT !["gamepad"] = draft.held]
                   /\ after' = (after \/ step = "behind")
                   /\ Store("gamepad")
                   /\ IF step = "respond" THEN Request ELSE UNCHANGED request
                   /\ Return
                   /\ UNCHANGED <<waiting, features, muted, pending, sent, owed,
                                  excused>>

Stash == /\ step \in {"respond", "behind"}
         /\ queued' = [queued EXCEPT !["gamepad"] = draft.held]
         /\ after' = TRUE
         /\ Store("gamepad")
         /\ IF step = "respond" THEN Request ELSE UNCHANGED request
         /\ Return
         /\ UNCHANGED <<waiting, features, muted, pending, sent, owed, excused>>

(* The handler has a report of kind k in hand whose tag is taken already,  *)
(* and has yet to record it.                                               *)
Unrecorded(k) == serve \in {"send", "record"} /\ sending = k /\ pending # k

(* Change detection goes by what will go out, the report in the queue or   *)
(* the record of the last one sent; the handler may be writing the record. *)
Reference ==
    IF pending = draft.kind THEN {queued[draft.kind]}
    ELSE IF serve = "record" /\ sending = draft.kind THEN Input
    ELSE {sent[draft.kind]}

(* An SInput report carries the time and is never the same.                *)
Compare == /\ step = "compare"
           /\ \E r \in Reference :
                IF mode # "sinput" /\ draft.held = r
                  THEN /\ Return
                       /\ excused' = excused \cup {k \in {draft.kind} : Unrecorded(k)}
                  ELSE step' = "queue" /\ TaskOnly /\ UNCHANGED <<draft, excused>>
           /\ UNCHANGED <<waiting, features, muted, send, request, owed, clash>>

Queue == /\ step = "queue"
         /\ queued' = [queued EXCEPT ![draft.kind] = draft.held]
         /\ Store(draft.kind)
         /\ step' = "tag"
         /\ TaskOnly
         /\ UNCHANGED <<waiting, features, draft, muted, pending, sent, after, request,
                        owed, excused>>

(* The tag now names this kind, whatever was queued under it.              *)
Tag == /\ step = "tag"
       /\ pending' = draft.kind
       /\ excused' = excused \cup ({pending} \cap (Kinds \ {draft.kind}))
       /\ Store(draft.kind)
       /\ Request
       /\ Return
       /\ UNCHANGED <<waiting, features, muted, queued, sent, after, owed>>

-----------------------------------------------------------------------------
(* BTstack.                                                                *)

(* request_send_on_btstack_thread. *)
Marshal == /\ marshal = "posted" /\ Interrupts
           /\ marshal' = "no"
           /\ asked' = (asked \/ connected)
           /\ UNCHANGED <<build, input, task, send, age, handler, link, owed, excused>>

(* An event of kind k is taken and its report not queued yet. *)
Building(k) == /\ step \in {"feature", "respond", "behind", "compare", "queue", "tag"}
               /\ draft.kind = k

(* While the task replaces the buffer of kind k by another report, a read  *)
(* of it yields anything.                                                  *)
Writing(k) == /\ step \in {"respond", "behind", "queue"}
              /\ draft.kind = k /\ draft.held # queued[k]
Read(k) == IF Writing(k) THEN Input ELSE {queued[k]}

HandlerOnly == UNCHANGED <<build, input, task, queued, marshal, age, connected,
                           features, lost, owed>>

Rest == serve' = "rest" /\ sending' = "none" /\ clash' = {}

(* HIDS_SUBEVENT_CAN_SEND_NOW.  The handler switches on the tag.  Without  *)
(* threads a request may call it before it returns, the watchdog's, too.   *)
Serve == /\ asked /\ serve = "rest"
         /\ port = "direct" => step \in {"idle", "poll"}
         /\ asked' = FALSE
         /\ serve' = IF pending = "none" THEN "rest" ELSE "send"
         /\ sending' = pending
         /\ HandlerOnly
         /\ UNCHANGED <<host, sent, pending, after, excused, clash, overtaken>>

Send == /\ serve = "send"
        /\ IF sending = "feature"
             THEN serve' = "look" /\ UNCHANGED host
             ELSE /\ \E r \in Read(sending) : host' = [host EXCEPT ![sending] = r]
                  /\ serve' = "record"
        /\ HandlerOnly
        /\ UNCHANGED <<asked, sending, sent, pending, after, excused, clash, overtaken>>

(* The buffer is read a second time.  On the nRF that yields the same,     *)
(* even from one the task has written half.                                *)
Record == /\ serve = "record"
          /\ \E r \in IF port = "parallel" THEN Read(sending) ELSE {host[sending]} :
               sent' = [sent EXCEPT ![sending] = r]
          /\ overtaken' = IF sending \in clash \/ (port = "parallel" /\ Writing(sending))
                            THEN overtaken \cup {sending} ELSE overtaken \ {sending}
          /\ serve' = "look"
          /\ HandlerOnly
          /\ UNCHANGED <<asked, sending, host, pending, after, excused, clash>>

(* Was it a feature response?  The handler asks the tag again.             *)
Look == /\ serve = "look"
        /\ sending' = pending
        /\ serve' = "clear"
        /\ HandlerOnly
        /\ UNCHANGED <<asked, host, sent, pending, after, excused, clash, overtaken>>

(* A tag that the task has set meanwhile is cleared with the rest.         *)
Wiped == {k \in clash : /\ ~Building(k)
                        /\ \/ pending = k
                           \/ /\ k = "gamepad" /\ pending = "feature" /\ after
                              /\ sending # "feature"}

(* The task has looked at the tag and now acts on what it saw.  Its event  *)
(* is a gamepad's.                                                         *)
Caught == {k \in {"gamepad"} : step \in {"unblock", "respond", "behind"}}

Clear == /\ serve = "clear"
         /\ pending' = "none"
         /\ excused' = excused \cup Wiped \cup Caught
         /\ IF sending = "feature"
              THEN serve' = "follow" /\ UNCHANGED <<sending, clash>>
              ELSE Rest
         /\ HandlerOnly
         /\ UNCHANGED <<asked, host, sent, after, overtaken>>

(* Behind a feature response the input stashed meanwhile follows.          *)
Follow == /\ serve = "follow"
          /\ IF after THEN serve' = "resume" /\ UNCHANGED <<sending, clash>> ELSE Rest
          /\ after' = FALSE
          /\ HandlerOnly
          /\ UNCHANGED <<asked, host, sent, pending, excused, overtaken>>

Resume == /\ serve = "resume"
          /\ pending' = "gamepad" /\ asked' = TRUE
          /\ excused' = excused \cup Caught
          /\ Rest
          /\ HandlerOnly
          /\ UNCHANGED <<host, sent, after, overtaken>>

(* A request that gets lost, as the comment on the watchdog reports.       *)
Lose == /\ lost < MaxLost
        /\ \/ marshal = "posted" /\ marshal' = "lost" /\ UNCHANGED asked
           \/ port = "direct" /\ asked /\ asked' = FALSE /\ UNCHANGED marshal
        /\ lost' = lost + 1
        /\ UNCHANGED <<build, input, task, send, age, handler, connected, features,
                       host, owed, excused>>

(* HIDS_SUBEVENT_INPUT_REPORT_ENABLE: a host subscribes. *)
Subscribe == /\ ~connected /\ Interrupts
             /\ connected' = TRUE
             /\ UNCHANGED <<build, input, task, send, request, handler, features, host,
                            lost, owed, excused>>

(* What goes out next of a kind if nothing else happens. *)
Follows == \/ serve = "resume"
           \/ after /\ (pending = "feature" \/ serve = "follow")
InFlight(k) == IF pending = k \/ (k = "gamepad" /\ Follows) THEN queued[k] ELSE sent[k]

(* HCI_EVENT_DISCONNECTION_COMPLETE empties the queue.                     *)
Disconnect == /\ connected /\ Interrupts
              /\ connected' = FALSE
              /\ pending' = "none" /\ after' = FALSE
              /\ asked' = FALSE
              /\ host' = [k \in Kinds |-> "unknown"]
              /\ excused' = excused \cup {k \in Kinds : InFlight(k) # sent[k]}
                                    \cup {k \in Kinds : step # "idle" /\ k = draft.kind}
              /\ UNCHANGED <<build, input, task, queued, sent, marshal, age, handler,
                             features, lost, owed>>

(* The host asks for the features. *)
HostAsks == /\ mode = "sinput" /\ connected /\ Interrupts
            /\ features' = TRUE
            /\ UNCHANGED <<build, input, task, send, request, handler, connected, host,
                           lost, owed, excused>>

-----------------------------------------------------------------------------
Task == Runs /\ (\/ Enter \/ Unblock \/ Again \/ Poll \/ Feature \/ Stash
                 \/ Compare \/ Queue \/ Tag)
Handler == Send \/ Record \/ Look \/ Clear \/ Follow \/ Resume

BleNext == \/ Task \/ Marshal \/ Serve \/ Handler \/ Tick
           \/ RouterEvent \/ UsbHost \/ Lose \/ Subscribe \/ Disconnect \/ HostAsks

BleSafe == BleInit /\ [][BleNext]_bleVars

(* The main loop calls the task again and again, BTstack serves what it    *)
(* was asked between two calls or in its own thread, and time passes.      *)
BleSpec == /\ BleSafe
           /\ WF_bleVars(Task) /\ WF_bleVars(Handler) /\ WF_bleVars(Tick)
           /\ SF_bleVars(Marshal) /\ SF_bleVars(Serve)

-----------------------------------------------------------------------------
(* An event that was taken from the router is never dropped: it is what    *)
(* the host was sent last of its kind, or it is queued to be sent ("the    *)
(* router hands out each event exactly once, so a gated or dropped event   *)
(* is gone forever", ble_output.c:1570-1573, :1727-1728).  Excused are     *)
(* events cut off by a disconnect, those whose tag an event of another     *)
(* kind took, and those that met BTstack between the look at the tag and   *)
(* the act on it.  On the ESP32 only, also those whose tag was cleared by  *)
(* a handler that had read an older one (ble_output.c:1061-1104), and      *)
(* those compared with a record the handler was about to write (:1065).    *)
NeverDropped ==
    \A k \in Kinds \ excused : InFlight(k) = owed[k] \/ Building(k)

(* The record of what was sent is what the host holds, so that nothing is  *)
(* held back as unchanged that the host does not show; a host that has     *)
(* just subscribed has been told nothing yet.  On the ESP32 it may differ, *)
(* when the task stored a report of that kind after the handler sent the   *)
(* one before and before it recorded it (ble_output.c:1063-1065), until    *)
(* the next one of that kind is sent undisturbed.                          *)
HostHoldsSent ==
    /\ \A k \in Kinds : \/ host[k] \in {sent[k], "unknown"}
                        \/ k \in overtaken \/ (serve = "record" /\ sending = k)
    /\ overtaken # {} => port = "parallel"

SendPathOK == BleTypeOK /\ NeverDropped /\ HostHoldsSent

Behind(k, i) == connected /\ owed[k] = i /\ host[k] \notin {i, "unknown"}
                /\ k \notin excused \cup overtaken

(* What the task would work on next. *)
Busy == waiting # {} \/ usbHost # muted

(* What is held long enough reaches the host, and so does the neutral      *)
(* event of a mute: it is not behind forever.  A request to send that was  *)
(* lost, a coalesced one too, is made up for by the watchdog once the pad  *)
(* is silent; until then every event sets its clock back                   *)
(* (ble_output.c:676-690).  On the ESP32, too, it takes a pad that falls   *)
(* silent: the handler can clear the tag of every report of a busy one.    *)
(* What it takes for sent or clears last of all is not made up for.        *)
HostCatchesUp ==
    \A k \in Kinds, i \in Input :
        []<>(~Behind(k, i) \/ (Busy /\ (lost > 0 \/ port = "parallel")))
===============================================================================
