--------------------------- MODULE SignedReports ---------------------------
(***************************************************************************)
(* PS5 output of the two-chip remapper.  The host chip B reads the pads,   *)
(* sends an event when one changes (uart_peer.c) and owns the dongle that  *)
(* signs reports (p5general_host.c).  The device chip A builds reports     *)
(* (usbd.c, p5general_mode.c), sends each one to B for its signature       *)
(* (p5general_link.c), and gives the signed one to the console.            *)
(*                                                                         *)
(* The link is two FIFO queues without acknowledgement: a frame that finds *)
(* the ring full, or arrives damaged, is gone.  What recovers from that is *)
(* B's refresh of the last event, A's repeated request, and the repeated   *)
(* report.  Time is abstracted: 20 ms, 100 ms and 250 ms are guards.       *)
(***************************************************************************)
EXTENDS Integers, Sequences, FiniteSets

CONSTANTS Pads, Buttons,
          None,         \* no event, no report
          DiffRepeat,   \* reports repeated after a change
          LinkCap,      \* frames that a transmit ring holds
          DongleDepth,  \* reports that the dongle takes before it answers
          \* Bounds of the checked instances:
          MaxChanges,   \* state changes of the pads
          MaxFaults,    \* frames damaged on the wire, and removals of the dongle
          MaxRepeats    \* requests repeated while an older copy is alive

ASSUME SizeAssumption == /\ DiffRepeat \in Nat /\ LinkCap \in Nat \ {0}
                         /\ DongleDepth \in Nat \ {0}
ASSUME BoundAssumption == MaxChanges \in Nat /\ MaxFaults \in Nat /\ MaxRepeats \in Nat
ASSUME NoneAssumption == None \notin Pads /\ \A r \in SUBSET Buttons : r # None

VARIABLES
  pad,           \* buttons held on each pad
  \* Chip B.
  last_event,    \* the pad whose event was sent last
  b_dongle,      \* dongle_ready
  dongle_last,   \* the presence last told to A
  b_pending,     \* hash_pending(_buffer): report on its way to the dongle
  signing,       \* reports inside the dongle
  b_ready,       \* hash_ready, hash_finish_buffer: signed report
  \* The link.
  to_a, to_b,
  \* Chip A.
  at,            \* where its main loop is: before usbd_task, or before app_task
  held,          \* the buttons of each pad, blended by A's router
  pending_event, \* pending_events[0], pending_flags[0]
  latched,       \* p5g_latched_buttons[0]
  dongle_ready, hash_pending, hash_ready,
  report_last,   \* p5g_report_last
  diff_repeat,   \* p5g_diff_repeat
  in_flight,     \* sign_in_flight
  endpoint,      \* report in the USB endpoint
  console,       \* buttons that the console has seen last
  \* History.
  changes, faults,
  extra          \* requests repeated while a copy was alive, since none was

b_vars == <<last_event, b_dongle, dongle_last, b_pending, signing, b_ready>>
a_vars == <<at, held, pending_event, latched, dongle_ready, hash_pending,
            hash_ready, report_last, diff_repeat, in_flight, endpoint>>
history == <<changes, faults, extra>>
vars == <<pad, b_vars, to_a, to_b, a_vars, console, history>>
-----------------------------------------------------------------------------
Report == SUBSET Buttons

ToA == [type : {"EVENT"}, pad : Pads, buttons : Report]
         \union [type : {"SIGN_RESP"}, report : Report]
         \union [type : {"DONGLE"}, ready : BOOLEAN]
ToB == [type : {"SIGN_REQ"}, report : Report]

Event(p, buttons) == [type |-> "EVENT", pad |-> p, buttons |-> buttons]
SignResp(report) == [type |-> "SIGN_RESP", report |-> report]
SignReq(report) == [type |-> "SIGN_REQ", report |-> report]
Presence(ready) == [type |-> "DONGLE", ready |-> ready]

Together(state) == UNION {state[p] : p \in Pads}

\* frame_send: a full ring drops the frame.
Sent(queue, frame) == IF Len(queue) < LinkCap THEN Append(queue, frame) ELSE queue

\* The copies of requests for one of these reports, and of their answers, that
\* are under way: on the link, in the hand-over buffers of B, in the dongle.
Count(queue, marked) == Cardinality({i \in DOMAIN queue : queue[i] \in marked})
Holding(buffer, reports) == IF buffer # None /\ buffer \in reports THEN 1 ELSE 0
Copies(reports) ==
  Count(to_b, {SignReq(r) : r \in reports}) + Count(to_a, {SignResp(r) : r \in reports})
    + Count(signing, reports) + Holding(b_pending, reports) + Holding(b_ready, reports)

Alive == Copies(Report)
Stale == Copies(Report \ {hash_pending})

Init ==
  /\ pad = [p \in Pads |-> {}] /\ held = pad
  /\ last_event = None /\ b_dongle = FALSE /\ dongle_last = FALSE
  /\ b_pending = None /\ signing = <<>> /\ b_ready = None
  /\ to_a = <<>> /\ to_b = <<>>
  /\ at = "usb" /\ pending_event = None /\ latched = {}
  /\ dongle_ready = FALSE /\ hash_pending = None /\ hash_ready = None
  /\ report_last = {} /\ diff_repeat = 0 /\ in_flight = FALSE
  /\ endpoint = None /\ console = {}
  /\ changes = 0 /\ faults = 0 /\ extra = 0
-----------------------------------------------------------------------------
(* Chip B. *)

\* A pad changes: uart_peer_producer_tap sends the event and keeps it.
PadChange(p, buttons) ==
  /\ changes < MaxChanges
  /\ buttons # pad[p]
  /\ pad' = [pad EXCEPT ![p] = buttons]
  /\ changes' = changes + 1
  /\ to_a' = Sent(to_a, Event(p, buttons))
  /\ last_event' = p
  /\ UNCHANGED <<b_dongle, dongle_last, b_pending, signing, b_ready, to_b,
                 a_vars, console, faults, extra>>

\* 100 ms and 250 ms outlast every exchange that is under way.
Quiet == to_a = <<>> /\ Alive = 0

\* uart_peer_task: 100 ms without an event and an empty ring.
Refresh ==
  /\ last_event # None /\ Quiet
  /\ to_a' = Sent(to_a, Event(last_event, pad[last_event]))
  /\ UNCHANGED <<pad, b_vars, to_b, a_vars, console, history>>

DonglePlug ==
  /\ ~b_dongle
  /\ b_dongle' = TRUE
  /\ UNCHANGED <<pad, last_event, dongle_last, b_pending, signing, b_ready, to_a,
                 to_b, a_vars, console, history>>

\* p5general_host_unmount; what the dongle was signing goes with it.
DongleUnplug ==
  /\ b_dongle /\ faults < MaxFaults
  /\ faults' = faults + 1
  /\ b_dongle' = FALSE /\ b_pending' = None /\ b_ready' = None /\ signing' = <<>>
  /\ UNCHANGED <<pad, last_event, dongle_last, to_a, to_b, a_vars, console,
                 changes, extra>>

\* p5general_host_task hands the report to the dongle.
HostTask ==
  /\ b_dongle /\ b_pending # None /\ Len(signing) < DongleDepth
  /\ signing' = Append(signing, b_pending) /\ b_pending' = None
  /\ UNCHANGED <<pad, last_event, b_dongle, dongle_last, b_ready, to_a, to_b,
                 a_vars, console, history>>

\* The dongle answers; an answer that finds the last one unsent is dropped.
ReportReceived ==
  /\ signing # <<>>
  /\ signing' = Tail(signing)
  /\ b_ready' = IF b_ready = None THEN Head(signing) ELSE b_ready
  /\ UNCHANGED <<pad, last_event, b_dongle, dongle_last, b_pending, to_a, to_b,
                 a_vars, console, history>>

\* p5general_link_host_task: the presence when it changed or 250 ms have passed,
\* and then the signed report.
LinkHostTask(tell) ==
  /\ tell \/ b_ready # None
  /\ b_dongle # dongle_last => tell
  /\ LET told == IF tell THEN Sent(to_a, Presence(b_dongle)) ELSE to_a
     IN to_a' = IF b_ready = None THEN told ELSE Sent(told, SignResp(b_ready))
  /\ dongle_last' = IF tell THEN b_dongle ELSE dongle_last
  /\ b_ready' = None
  /\ UNCHANGED <<pad, last_event, b_dongle, b_pending, signing, to_b, a_vars,
                 console, history>>
Tell == LinkHostTask(TRUE) /\ (b_dongle # dongle_last \/ Quiet)
Answer == b_ready # None /\ LinkHostTask(FALSE)

\* dispatch_frame on B.
BReceive ==
  /\ to_b # <<>>
  /\ to_b' = Tail(to_b)
  /\ b_pending' = Head(to_b).report
  /\ UNCHANGED <<pad, last_event, b_dongle, dongle_last, signing, b_ready, to_a,
                 a_vars, console, history>>

\* A frame fails its CRC.
Corrupt ==
  /\ faults < MaxFaults
  /\ faults' = faults + 1
  /\ \/ to_a # <<>> /\ to_a' = Tail(to_a) /\ UNCHANGED to_b
     \/ to_b # <<>> /\ to_b' = Tail(to_b) /\ UNCHANGED to_a
  /\ UNCHANGED <<pad, b_vars, a_vars, console, changes, extra>>
-----------------------------------------------------------------------------
(* Chip A. *)

\* dispatch_frame on A, in the input task and again in app_task.  An event goes
\* through the router, which blends the pads, into the slot of usbd_on_input.
AReceive ==
  /\ to_a # <<>>
  /\ to_a' = Tail(to_a)
  /\ LET frame == Head(to_a) IN
       \/ /\ frame.type = "EVENT"
          /\ held' = [held EXCEPT ![frame.pad] = frame.buttons]
          /\ pending_event' = Together(held')
          /\ UNCHANGED <<dongle_ready, hash_ready, hash_pending>>
       \/ /\ frame.type = "SIGN_RESP"
          /\ hash_ready' = frame.report /\ hash_pending' = None
          /\ UNCHANGED <<held, pending_event, dongle_ready>>
       \/ /\ frame.type = "DONGLE"
          /\ dongle_ready' = frame.ready
          /\ UNCHANGED <<held, pending_event, hash_ready, hash_pending>>
  /\ UNCHANGED <<pad, b_vars, to_b, at, latched, report_last, diff_repeat, in_flight,
                 endpoint, console, history>>

\* p5general_mode_send_report: a report that differs from the last one is handed
\* over for its signature, an equal one only DiffRepeat times.
SendReport(report) ==
  \/ /\ report # report_last
     /\ report_last' = report /\ hash_pending' = report
     /\ diff_repeat' = DiffRepeat
  \/ /\ report = report_last /\ diff_repeat > 0
     /\ hash_pending' = report /\ diff_repeat' = diff_repeat - 1
     /\ UNCHANGED report_last
  \/ /\ report = report_last /\ diff_repeat = 0
     /\ UNCHANGED <<hash_pending, diff_repeat, report_last>>

is_ready == endpoint = None /\ dongle_ready
can_build == dongle_ready /\ hash_ready = None /\ hash_pending = None

\* p5general_mode_pump_signed.
PumpSigned ==
  /\ hash_ready # None
  /\ endpoint' = hash_ready /\ hash_ready' = None
  /\ UNCHANGED <<pending_event, latched, hash_pending, report_last, diff_repeat>>

\* The signer is busy: the event stays, its presses are remembered.
Fold ==
  /\ hash_ready = None /\ ~can_build
  /\ latched' = IF pending_event = None THEN latched ELSE latched \union pending_event
  /\ UNCHANGED <<pending_event, endpoint, hash_ready, hash_pending, report_last,
                 diff_repeat>>

\* Mutant: the presses remembered are cleared unused.
BuildWithoutLatch ==
  /\ can_build /\ pending_event # None
  /\ SendReport(pending_event)
  /\ pending_event' = None /\ latched' = {}
  /\ UNCHANGED <<endpoint, hash_ready>>

Build ==
  /\ can_build /\ pending_event # None
  /\ SendReport(pending_event \union latched)
  /\ pending_event' = None /\ latched' = {}
  /\ UNCHANGED <<endpoint, hash_ready>>

\* usbd_task.
UsbTask ==
  /\ at = "usb" /\ at' = "app"
  /\ \/ is_ready /\ (PumpSigned \/ Fold \/ Build)
     \/ /\ ~is_ready \/ (can_build /\ pending_event = None)
        /\ UNCHANGED <<pending_event, latched, hash_ready, hash_pending, report_last,
                       diff_repeat, endpoint>>
  /\ UNCHANGED <<pad, b_vars, to_a, to_b, held, dongle_ready, in_flight, console,
                 history>>

\* p5general_link_device_task sends the request, and again whenever 20 ms have
\* passed and the report still waits: whatever is alive of it, and also while the
\* dongle is out.
Request ==
  /\ at = "app" /\ at' = "usb"
  /\ to_b' = Sent(to_b, SignReq(hash_pending))
  /\ in_flight' = TRUE
  /\ UNCHANGED <<pad, b_vars, to_a, held, pending_event, latched, dongle_ready,
                 hash_pending, hash_ready, report_last, diff_repeat, endpoint, console,
                 changes, faults>>

\* A repeat is extra when a copy is alive.
CountRepeat ==
  /\ extra' = IF Alive = 0 THEN 0 ELSE IF in_flight THEN extra + 1 ELSE extra
  /\ extra' <= MaxRepeats

\* Mutant: the request is sent on every pass, as if nothing were in flight.
SignRequestAlways ==
  /\ hash_pending # None /\ Request
  /\ extra' = IF Alive = 0 THEN 0 ELSE extra

\* Mutant: the request is sent once.
SignRequestOnce ==
  /\ hash_pending # None /\ ~in_flight
  /\ Request /\ CountRepeat

SignRequest ==
  /\ hash_pending # None
  /\ Request /\ CountRepeat

NoRequest ==
  /\ at = "app" /\ at' = "usb"
  /\ hash_pending # None => in_flight
  /\ in_flight' = (hash_pending # None)
  /\ UNCHANGED <<pad, b_vars, to_a, to_b, held, pending_event, latched, dongle_ready,
                 hash_pending, hash_ready, report_last, diff_repeat, endpoint, console,
                 history>>

\* The console polls the endpoint.
Poll ==
  /\ endpoint # None
  /\ console' = endpoint /\ endpoint' = None
  /\ UNCHANGED <<pad, b_vars, to_a, to_b, at, held, pending_event, latched,
                 dongle_ready, hash_pending, hash_ready, report_last, diff_repeat,
                 in_flight, history>>
-----------------------------------------------------------------------------
Next ==
  \/ \E p \in Pads, buttons \in Report : PadChange(p, buttons)
  \/ Refresh \/ DonglePlug \/ DongleUnplug \/ HostTask \/ ReportReceived
  \/ Tell \/ Answer \/ BReceive \/ Corrupt
  \/ AReceive \/ UsbTask \/ SignRequest \/ NoRequest \/ Poll

Spec == Init /\ [][Next]_vars

\* Both main loops run, the console polls, the dongle is put back and answers.
\* The timers (20, 100, 250 ms) elapse again and again, whatever comes between.
Fairness ==
  /\ WF_vars(UsbTask) /\ WF_vars(NoRequest \/ SignRequest) /\ SF_vars(SignRequest)
  /\ WF_vars(AReceive) /\ WF_vars(BReceive) /\ WF_vars(HostTask)
  /\ WF_vars(ReportReceived) /\ WF_vars(Answer) /\ SF_vars(Tell)
  /\ SF_vars(Refresh) /\ WF_vars(DonglePlug) /\ WF_vars(Poll)

LiveSpec == Spec /\ Fairness
-----------------------------------------------------------------------------
\* Every variable holds a value of its kind.
TypeOK ==
  /\ pad \in [Pads -> Report] /\ held \in [Pads -> Report]
  /\ last_event \in Pads \union {None}
  /\ {b_dongle, dongle_last, dongle_ready, in_flight} \subseteq BOOLEAN
  /\ {b_pending, b_ready, hash_pending, hash_ready, endpoint, pending_event}
       \subseteq {None} \union Report
  /\ signing \in Seq(Report) /\ Len(signing) <= DongleDepth
  /\ to_a \in Seq(ToA) /\ to_b \in Seq(ToB)
  /\ Len(to_a) <= LinkCap /\ Len(to_b) <= LinkCap
  /\ at \in {"usb", "app"}
  /\ latched \in Report /\ report_last \in Report /\ console \in Report
  /\ diff_repeat \in 0 .. DiffRepeat
  /\ changes \in Nat /\ faults \in 0 .. MaxFaults
  /\ extra \in 0 .. MaxRepeats

\* Signing is kept to one request in flight (p5general_link.c:72-114): over a link
\* that loses frames and a dongle that is pulled out, the copies that are alive of
\* requests and answers, wherever they are on the two chips, are at most the one
\* that the device waits for and one for each repeat that was made while another
\* was alive; and as many at most are of a report that the device no longer
\* waits for.  Without such a repeat the answer is thus the answer to the
\* report that waits.  With the dongle out a repeat every 20 ms is normal: each
\* one adds a copy as long as the last one waits at B.
OneInFlight ==
  /\ Alive <= extra + (IF hash_pending # None /\ in_flight THEN 1 ELSE 0)
  /\ Stale <= extra

\* Types, and one request in flight.
SigningOK == TypeOK /\ OneInFlight

\* Whatever was lost, repeated or unplugged, the console ends up with the
\* buttons that are held (uart_peer.c:330-343, p5general_link.c:79-114).
CatchesUp == <>[](console = Together(pad))

\* A press that was latched while the signer was busy is shown to the console,
\* also when it is over by the time of the next report (usbd.c:1362-1382), unless a
\* request was repeated while a copy was alive: see README.
LatchedReachesConsole ==
  \A b \in Buttons : b \in latched ~> (b \in console \/ extra > 0)
=============================================================================
