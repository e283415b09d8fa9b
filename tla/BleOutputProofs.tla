---------------------------- MODULE BleOutputProofs ----------------------------
(***************************************************************************)
(* No event taken from the router is dropped by the BLE output but the     *)
(* excused ones: for any modes of the three ports, any inputs, any stall   *)
(* time and any number of lost requests.                                   *)
(***************************************************************************)
EXTENDS Outputs, TLAPS

(* The report being built is the event taken last of its kind.             *)
DraftIsOwed ==
    /\ IF Building(draft.kind) THEN owed[draft.kind] = draft.held ELSE draft = Nothing
    /\ step = "tag" => queued[draft.kind] = draft.held

(* What the task saw in the tag still holds when it acts on it, unless     *)
(* BTstack came between.                                                   *)
TagStillSeen ==
    /\ "gamepad" \in excused \/ Caught = {} \/ pending = "feature"
    /\ step \in {"compare", "queue", "tag"} => pending # "feature"

(* Feature responses are of SInput only, and its events are of gamepads.   *)
ModeRespected ==
    IF mode = "sinput"
      THEN /\ pending \in {"none", "feature", "gamepad"}
           /\ draft.kind = "gamepad"
           /\ \A e \in waiting : e.kind = "gamepad"
      ELSE /\ pending # "feature" /\ sending # "feature"
           /\ step \notin {"unblock", "feature", "respond", "behind"}
           /\ serve \notin {"follow", "resume"}

Bookkeeping == DraftIsOwed /\ TagStillSeen /\ ModeRespected

(* What the handler has in hand.                                           *)
InHand == /\ serve = "send" => sending # "none"
          /\ serve = "record" => sending \in Kinds /\ host[sending] \in Input

(* Beside the task only on the ESP32.                                      *)
AloneElsewhere == port # "parallel" => clash = {} /\ overtaken = {}

(* What was sent is what the buffer holds, unless the task stored another. *)
SentAsQueued == serve = "record" /\ sending \notin clash /\ ~Writing(sending)
                    => host[sending] = queued[sending]

(* A tag the task did not set since the handler read it is the one it read.*)
TagAsRead == BeforeClear /\ pending \in Kinds \ clash => pending = sending

(* Of that kind everything is sent and recorded when the tag is cleared.   *)
RecordedAsQueued == serve \in {"look", "clear"} /\ pending \in Kinds \ clash
                        => sent[pending] = queued[pending] \/ Writing(pending)

(* A feature response that came too late for the handler has the input of  *)
(* its event behind it, and one the watchdog dropped under it has not.     *)
FeatureAsRead ==
    /\ serve = "clear" /\ sending # "feature" /\ pending = "feature"
           => "gamepad" \in clash \/ step = "respond"
    /\ serve = "clear" /\ sending = "feature" /\ pending # "feature"
           => ~after /\ step \notin {"respond", "behind"}

(* A report that lost its tag before it was recorded is excused, or another*)
(* is under way.                                                           *)
LostTag == \A k \in Kinds : Unrecorded(k) => \/ k \in excused \/ Building(k)
                                             \/ k = "gamepad" /\ Follows

HandlerInv == /\ AloneElsewhere /\ SentAsQueued /\ TagAsRead /\ RecordedAsQueued
              /\ FeatureAsRead /\ LostTag

BleInv == SendPathOK /\ Bookkeeping /\ InHand /\ HandlerInv

-----------------------------------------------------------------------------
(* Types, one part of the state at a time.                                 *)

(* The neutral event of a departure or a mute is an event. *)
LEMMA NothingIsEvent == Nothing \in Event
  BY BleAssumption DEF Nothing, Event

(* The mute passes events on or makes the neutral one. *)
LEMMA PassedAreEvents == BleTypeOK => Passed \subseteq Event
  BY NothingIsEvent DEF BleTypeOK, AroundTypeOK, Passed

(* What is read of a buffer is an input. *)
LEMMA ReadIsInput ==
  ASSUME BleTypeOK, NEW k \in Kinds PROVE Read(k) \subseteq Input
  BY DEF BleTypeOK, SendTypeOK, Read

(* The initial state has its types. *)
LEMMA InitType == BleInit => BleTypeOK
  <1> SUFFICES ASSUME BleInit PROVE BleTypeOK
    OBVIOUS
  <1>1. 0 \in 0 .. Stall /\ 0 \in 0 .. MaxLost
    BY BleAssumption
  <1>2. AroundTypeOK
    <2>1. port \in {"direct", "threaded", "parallel"} /\ mode \in {"standard", "xbox", "sinput"}
      BY BleAssumption DEF BleInit
    <2>2. /\ host \in [Kinds -> Input \cup {"unknown"}]
          /\ owed \in [Kinds -> Input]
      BY BleAssumption DEF BleInit
    <2>3. waiting = {} /\ excused = {} /\ lost = 0
      BY DEF BleInit
    <2>4. usbHost = FALSE /\ connected = FALSE /\ features = FALSE
      BY DEF BleInit
    <2> QED BY <1>1, <2>1, <2>2, <2>3, <2>4 DEF AroundTypeOK
  <1>3. TaskTypeOK
    <2>1. step = "idle" /\ draft = Nothing /\ muted = FALSE
      BY DEF BleInit
    <2> QED BY <2>1, NothingIsEvent DEF TaskTypeOK
  <1>4. SendTypeOK
    BY BleAssumption DEF BleInit, SendTypeOK
  <1>5. RequestTypeOK
    <2>1. marshal = "no" /\ asked = FALSE /\ age = 0
      BY DEF BleInit
    <2> QED BY <1>1, <2>1 DEF RequestTypeOK
  <1>6. HandlerTypeOK
    BY DEF BleInit, HandlerTypeOK
  <1> QED BY <1>2, <1>3, <1>4, <1>5, <1>6 DEF BleTypeOK

(* Taking an event keeps them: the one action with a choice of event. *)
LEMMA PollType == BleTypeOK /\ Poll => BleTypeOK'
  <1> SUFFICES ASSUME BleTypeOK, Poll PROVE BleTypeOK'
    OBVIOUS
  <1> USE PassedAreEvents
      DEF BleTypeOK, AroundTypeOK, TaskTypeOK, SendTypeOK, RequestTypeOK, HandlerTypeOK
  <1>1. AroundTypeOK'
    <2>1. port' \in {"direct", "threaded", "parallel"} /\ mode' \in {"standard", "xbox", "sinput"}
      BY DEF Poll, TaskOnly, build
    <2>2. waiting' \in SUBSET Event /\ usbHost' \in BOOLEAN
      BY DEF Poll, TaskOnly
    <2>3. connected' \in BOOLEAN /\ features' \in BOOLEAN
      BY DEF Poll, TaskOnly
    <2>4. owed' \in [Kinds -> Input] /\ excused' \subseteq Kinds
      BY DEF Poll, Event
    <2>5. host' = host /\ lost' = lost
      BY DEF Poll, TaskOnly
    <2> QED BY <2>1, <2>2, <2>3, <2>4, <2>5
  <1>2. TaskTypeOK'
    <2>1. draft' \in Event /\ step' \in {"idle", "feature", "compare"}
      BY DEF Poll
    <2>2. muted' \in BOOLEAN
      BY DEF Poll
    <2> QED BY <2>1, <2>2
  <1>3. SendTypeOK' /\ RequestTypeOK'
    BY DEF Poll, send, request
  <1>4. HandlerTypeOK'
    BY DEF Poll, TaskOnly
  <1> QED BY <1>1, <1>2, <1>3, <1>4

(* Every step keeps them. *)
LEMMA StepType ==
  BleTypeOK /\ InHand /\ [BleNext]_bleVars => BleTypeOK'
  <1> SUFFICES ASSUME BleTypeOK, InHand, [BleNext]_bleVars PROVE BleTypeOK'
    OBVIOUS
  <1> USE BleAssumption, NothingIsEvent
      DEF build, input, task, send, request, handler, link,
          BleTypeOK, AroundTypeOK, TaskTypeOK, SendTypeOK, RequestTypeOK, HandlerTypeOK
  <1>1. CASE RouterEvent
    BY <1>1 DEF RouterEvent, EventKinds, Event
  <1>2. CASE UsbHost
    BY <1>2 DEF UsbHost
  <1>3. CASE Tick
    BY <1>3 DEF Tick
  <1>4. CASE Marshal
    BY <1>4 DEF Marshal
  <1>5. CASE Lose
    <2>1. AroundTypeOK'
      BY <1>5 DEF Lose
    <2>2. TaskTypeOK'
      BY <1>5 DEF Lose
    <2>3. SendTypeOK'
      BY <1>5 DEF Lose
    <2>4. RequestTypeOK'
      BY <1>5 DEF Lose
    <2>5. HandlerTypeOK'
      BY <1>5 DEF Lose
    <2> QED BY <2>1, <2>2, <2>3, <2>4, <2>5
  <1>6. CASE HostAsks
    BY <1>6 DEF HostAsks
  <1>7. CASE Subscribe
    BY <1>7 DEF Subscribe
  <1>8. CASE Disconnect
    <2>1. AroundTypeOK'
      BY <1>8 DEF Disconnect
    <2>2. TaskTypeOK'
      BY <1>8 DEF Disconnect
    <2>3. SendTypeOK'
      BY <1>8 DEF Disconnect
    <2>4. RequestTypeOK'
      BY <1>8 DEF Disconnect
    <2>5. HandlerTypeOK'
      BY <1>8 DEF Disconnect
    <2> QED BY <2>1, <2>2, <2>3, <2>4, <2>5
  <1>9. CASE Enter
    BY <1>9 DEF Enter, TaskOnly
  <1>10. CASE Unblock
    <2>1. AroundTypeOK'
      BY <1>10 DEF Unblock, TaskOnly, Store
    <2>2. TaskTypeOK'
      BY <1>10 DEF Unblock, TaskOnly, Store
    <2>3. SendTypeOK'
      BY <1>10 DEF Unblock, TaskOnly, Store
    <2>4. RequestTypeOK'
      BY <1>10 DEF Unblock, TaskOnly, Store
    <2>5. HandlerTypeOK'
      BY <1>10 DEF Unblock, TaskOnly, Store
    <2> QED BY <2>1, <2>2, <2>3, <2>4, <2>5
  <1>11. CASE Again
    BY <1>11 DEF Again, TaskOnly
  <1>12. CASE Feature
    <2>1. AroundTypeOK'
      BY <1>12 DEF Feature, TaskOnly
    <2>2. TaskTypeOK'
      BY <1>12 DEF Feature, TaskOnly
    <2>3. SendTypeOK'
      BY <1>12 DEF Feature, TaskOnly
    <2>4. RequestTypeOK'
      BY <1>12 DEF Feature, TaskOnly
    <2>5. HandlerTypeOK'
      BY <1>12 DEF Feature, TaskOnly
    <2> QED BY <2>1, <2>2, <2>3, <2>4, <2>5
  <1>13. CASE Stash
    <2>1. AroundTypeOK'
      BY <1>13 DEF Stash, Request, Return, TaskOnly, Event, Store
    <2>2. TaskTypeOK'
      BY <1>13 DEF Stash, Request, Return, TaskOnly, Event, Store
    <2>3. SendTypeOK'
      BY <1>13 DEF Stash, Request, Return, TaskOnly, Event, Store
    <2>4. RequestTypeOK'
      BY <1>13 DEF Stash, Request, Return, TaskOnly, Event, Store
    <2>5. HandlerTypeOK'
      BY <1>13 DEF Stash, Request, Return, TaskOnly, Event, Store
    <2> QED BY <2>1, <2>2, <2>3, <2>4, <2>5
  <1>14. CASE Compare
    <2>1. AroundTypeOK'
      BY <1>14 DEF Compare, Return, TaskOnly, Event
    <2>2. TaskTypeOK'
      BY <1>14 DEF Compare, Return, TaskOnly, Event
    <2>3. SendTypeOK'
      BY <1>14 DEF Compare, Return, TaskOnly, Event
    <2>4. RequestTypeOK'
      BY <1>14 DEF Compare, Return, TaskOnly, Event
    <2>5. HandlerTypeOK'
      BY <1>14 DEF Compare, Return, TaskOnly, Event
    <2> QED BY <2>1, <2>2, <2>3, <2>4, <2>5
  <1>15. CASE Queue
    <2>1. AroundTypeOK'
      BY <1>15 DEF Queue, TaskOnly, Event, Store
    <2>2. TaskTypeOK'
      BY <1>15 DEF Queue, TaskOnly, Event, Store
    <2>3. SendTypeOK'
      BY <1>15 DEF Queue, TaskOnly, Event, Store
    <2>4. RequestTypeOK'
      BY <1>15 DEF Queue, TaskOnly, Event, Store
    <2>5. HandlerTypeOK'
      BY <1>15 DEF Queue, TaskOnly, Event, Store
    <2> QED BY <2>1, <2>2, <2>3, <2>4, <2>5
  <1>16. CASE Tag
    <2>1. AroundTypeOK'
      BY <1>16 DEF Tag, Request, Return, TaskOnly, Event, Store
    <2>2. TaskTypeOK'
      BY <1>16 DEF Tag, Request, Return, TaskOnly, Event, Store
    <2>3. SendTypeOK'
      BY <1>16 DEF Tag, Request, Return, TaskOnly, Event, Store
    <2>4. RequestTypeOK'
      BY <1>16 DEF Tag, Request, Return, TaskOnly, Event, Store
    <2>5. HandlerTypeOK'
      BY <1>16 DEF Tag, Request, Return, TaskOnly, Event, Store
    <2> QED BY <2>1, <2>2, <2>3, <2>4, <2>5
  <1>17. CASE Serve
    <2>1. AroundTypeOK'
      BY <1>17 DEF Serve, HandlerOnly
    <2>2. TaskTypeOK'
      BY <1>17 DEF Serve, HandlerOnly
    <2>3. SendTypeOK'
      BY <1>17 DEF Serve, HandlerOnly
    <2>4. RequestTypeOK'
      BY <1>17 DEF Serve, HandlerOnly
    <2>5. HandlerTypeOK'
      BY <1>17 DEF Serve, HandlerOnly
    <2> QED BY <2>1, <2>2, <2>3, <2>4, <2>5
  <1>18. CASE Send
    <2>1. AroundTypeOK'
      BY <1>18, ReadIsInput DEF Send, HandlerOnly, InHand
    <2>2. TaskTypeOK'
      BY <1>18, ReadIsInput DEF Send, HandlerOnly, InHand
    <2>3. SendTypeOK'
      BY <1>18, ReadIsInput DEF Send, HandlerOnly, InHand
    <2>4. RequestTypeOK'
      BY <1>18, ReadIsInput DEF Send, HandlerOnly, InHand
    <2>5. HandlerTypeOK'
      BY <1>18, ReadIsInput DEF Send, HandlerOnly, InHand
    <2> QED BY <2>1, <2>2, <2>3, <2>4, <2>5
  <1>19. CASE Record
    <2>1. AroundTypeOK'
      BY <1>19, ReadIsInput DEF Record, HandlerOnly, InHand
    <2>2. TaskTypeOK'
      BY <1>19, ReadIsInput DEF Record, HandlerOnly, InHand
    <2>3. SendTypeOK'
      BY <1>19, ReadIsInput DEF Record, HandlerOnly, InHand
    <2>4. RequestTypeOK'
      BY <1>19, ReadIsInput DEF Record, HandlerOnly, InHand
    <2>5. HandlerTypeOK'
      BY <1>19, ReadIsInput DEF Record, HandlerOnly, InHand
    <2> QED BY <2>1, <2>2, <2>3, <2>4, <2>5
  <1>20. CASE Look
    BY <1>20 DEF Look, HandlerOnly
  <1>21. CASE Clear
    <2>1. AroundTypeOK'
      BY <1>21 DEF Clear, HandlerOnly, Rest, Wiped, Caught
    <2>2. TaskTypeOK'
      BY <1>21 DEF Clear, HandlerOnly, Rest, Wiped, Caught
    <2>3. SendTypeOK'
      BY <1>21 DEF Clear, HandlerOnly, Rest, Wiped, Caught
    <2>4. RequestTypeOK'
      BY <1>21 DEF Clear, HandlerOnly, Rest, Wiped, Caught
    <2>5. HandlerTypeOK'
      BY <1>21 DEF Clear, HandlerOnly, Rest, Wiped, Caught
    <2> QED BY <2>1, <2>2, <2>3, <2>4, <2>5
  <1>22. CASE Follow
    <2>1. AroundTypeOK'
      BY <1>22 DEF Follow, HandlerOnly, Rest
    <2>2. TaskTypeOK'
      BY <1>22 DEF Follow, HandlerOnly, Rest
    <2>3. SendTypeOK'
      BY <1>22 DEF Follow, HandlerOnly, Rest
    <2>4. RequestTypeOK'
      BY <1>22 DEF Follow, HandlerOnly, Rest
    <2>5. HandlerTypeOK'
      BY <1>22 DEF Follow, HandlerOnly, Rest
    <2> QED BY <2>1, <2>2, <2>3, <2>4, <2>5
  <1>23. CASE Resume
    <2>1. AroundTypeOK'
      BY <1>23 DEF Resume, HandlerOnly, Rest, Caught
    <2>2. TaskTypeOK'
      BY <1>23 DEF Resume, HandlerOnly, Rest, Caught
    <2>3. SendTypeOK'
      BY <1>23 DEF Resume, HandlerOnly, Rest, Caught
    <2>4. RequestTypeOK'
      BY <1>23 DEF Resume, HandlerOnly, Rest, Caught
    <2>5. HandlerTypeOK'
      BY <1>23 DEF Resume, HandlerOnly, Rest, Caught
    <2> QED BY <2>1, <2>2, <2>3, <2>4, <2>5
  <1>24. CASE Poll
    BY <1>24, PollType
  <1>25. CASE UNCHANGED bleVars
    BY <1>25 DEF bleVars
  <1> QED
    BY <1>1, <1>2, <1>3, <1>4, <1>5, <1>6, <1>7, <1>8, <1>9, <1>10, <1>11, <1>12, <1>13, <1>14, <1>15, <1>16, <1>17, <1>18, <1>19, <1>20, <1>21, <1>22, <1>23, <1>24, <1>25
    DEF BleNext, Task, Handler

-----------------------------------------------------------------------------
(* The invariant, one group of actions at a time.                          *)

(* At the start nothing is taken, queued or sent. *)
LEMMA InitInv == BleInit => BleInv
  <1> SUFFICES ASSUME BleInit
               PROVE  NeverDropped /\ HostHoldsSent /\ Bookkeeping /\ InHand /\ HandlerInv
    BY InitType DEF BleInv, SendPathOK
  <1>1. NeverDropped /\ HostHoldsSent
    BY DEF BleInit, NeverDropped, HostHoldsSent, InFlight, Follows
  <1>2. Bookkeeping
    BY DEF BleInit, Bookkeeping, DraftIsOwed, TagStillSeen, ModeRespected, Building,
           Caught, Nothing
  <1>3. InHand /\ HandlerInv
    BY DEF BleInit, InHand, HandlerInv, AloneElsewhere, SentAsQueued, TagAsRead,
           RecordedAsQueued, FeatureAsRead, LostTag, BeforeClear, Unrecorded
  <1> QED BY <1>1, <1>2, <1>3

(* Around the task nothing is taken, queued or sent.                       *)
LEMMA AroundInv ==
  ASSUME BleInv, BleTypeOK', RouterEvent \/ UsbHost \/ Tick \/ Marshal \/ Lose \/ HostAsks \/ Subscribe
  PROVE  BleInv'
  <1> USE BleAssumption
      DEF BleInv, SendPathOK, Bookkeeping, HandlerInv,
          NeverDropped, HostHoldsSent, DraftIsOwed, TagStillSeen, ModeRespected, InHand,
          AloneElsewhere, SentAsQueued, TagAsRead, RecordedAsQueued,
          FeatureAsRead, LostTag, Building, InFlight, Follows, Caught, Writing, Unrecorded,
          BeforeClear, Nothing, BleTypeOK, AroundTypeOK, TaskTypeOK, SendTypeOK,
          HandlerTypeOK, Event, build, input, task, send, request, handler,
          link
  <1>1. CASE RouterEvent
    BY <1>1 DEF RouterEvent, EventKinds
  <1>2. CASE UsbHost
    BY <1>2 DEF UsbHost
  <1>3. CASE Tick
    BY <1>3 DEF Tick
  <1>4. CASE Marshal
    BY <1>4 DEF Marshal
  <1>5. CASE Lose
    BY <1>5 DEF Lose
  <1>6. CASE HostAsks
    BY <1>6 DEF HostAsks
  <1>7. CASE Subscribe
    BY <1>7 DEF Subscribe
  <1> QED BY <1>1, <1>2, <1>3, <1>4, <1>5, <1>6, <1>7

(* A disconnect empties the queue; what was in it is excused.              *)
LEMMA DisconnectInv ==
  ASSUME BleInv, BleTypeOK', Disconnect
  PROVE  BleInv'
  <1> USE BleAssumption
      DEF BleInv, SendPathOK, Bookkeeping, HandlerInv,
          NeverDropped, HostHoldsSent, DraftIsOwed, TagStillSeen, ModeRespected, InHand,
          AloneElsewhere, SentAsQueued, TagAsRead, RecordedAsQueued,
          FeatureAsRead, LostTag, Building, InFlight, Follows, Caught, Writing, Unrecorded,
          BeforeClear, Nothing, BleTypeOK, AroundTypeOK, TaskTypeOK, SendTypeOK,
          HandlerTypeOK, Event, build, input, task, send, request, handler,
          link
  <1>1. CASE Disconnect
    BY <1>1 DEF Disconnect, Interrupts
  <1> QED BY <1>1

(* The watchdog drops a response and lets the input behind it through.     *)
LEMMA WatchdogInv ==
  ASSUME BleInv, BleTypeOK', Runs, Enter \/ Unblock \/ Again
  PROVE  BleInv'
  <1> USE BleAssumption
      DEF BleInv, SendPathOK, Bookkeeping, HandlerInv,
          NeverDropped, HostHoldsSent, DraftIsOwed, TagStillSeen, ModeRespected, InHand,
          AloneElsewhere, SentAsQueued, TagAsRead, RecordedAsQueued,
          FeatureAsRead, LostTag, Building, InFlight, Follows, Caught, Writing, Unrecorded,
          BeforeClear, Nothing, BleTypeOK, AroundTypeOK, TaskTypeOK, SendTypeOK,
          HandlerTypeOK, Event, build, input, task, send, request, handler,
          link, Runs
  <1>1. CASE Enter
    BY <1>1 DEF Enter, TaskOnly, Stalled
  <1>2. CASE Unblock
    BY <1>2 DEF Unblock, TaskOnly, Store
  <1>3. CASE Again
    BY <1>3 DEF Again, TaskOnly
  <1> QED BY <1>1, <1>2, <1>3

(* The draft goes behind a feature response, or on to the comparison.      *)
LEMMA FeatureInv ==
  ASSUME BleInv, BleTypeOK', Runs, Feature \/ Stash
  PROVE  BleInv'
  <1> USE BleAssumption
      DEF BleInv, SendPathOK, Bookkeeping, HandlerInv,
          NeverDropped, HostHoldsSent, DraftIsOwed, TagStillSeen, ModeRespected, InHand,
          AloneElsewhere, SentAsQueued, TagAsRead, RecordedAsQueued,
          FeatureAsRead, LostTag, Building, InFlight, Follows, Caught, Writing, Unrecorded,
          BeforeClear, Nothing, BleTypeOK, AroundTypeOK, TaskTypeOK, SendTypeOK,
          HandlerTypeOK, Event, build, input, task, send, request, handler,
          link, Runs
  <1>1. CASE Feature
    BY <1>1 DEF Feature, TaskOnly
  <1>2. CASE Stash
    BY <1>2 DEF Stash, Request, Return, TaskOnly, Store
  <1> QED BY <1>1, <1>2

(* A report is left out as unchanged only when the same goes out anyway.   *)
LEMMA ReportInv ==
  ASSUME BleInv, BleTypeOK', Runs, Compare \/ Queue \/ Tag
  PROVE  BleInv'
  <1> USE BleAssumption
      DEF BleInv, SendPathOK, Bookkeeping, HandlerInv,
          NeverDropped, HostHoldsSent, DraftIsOwed, TagStillSeen, ModeRespected, InHand,
          AloneElsewhere, SentAsQueued, TagAsRead, RecordedAsQueued,
          FeatureAsRead, LostTag, Building, InFlight, Follows, Caught, Writing, Unrecorded,
          BeforeClear, Nothing, BleTypeOK, AroundTypeOK, TaskTypeOK, SendTypeOK,
          HandlerTypeOK, Event, build, input, task, send, request, handler,
          link, Runs
  <1>1. CASE Compare
    BY <1>1 DEF Compare, Reference, Return, TaskOnly
  <1>2. CASE Queue
    <2>1. NeverDropped'
      BY <1>2 DEF Queue, TaskOnly, Store
    <2>2. HostHoldsSent'
      BY <1>2 DEF Queue, TaskOnly, Store
    <2>3. DraftIsOwed' /\ TagStillSeen' /\ ModeRespected'
      BY <1>2 DEF Queue, TaskOnly, Store
    <2>4. InHand' /\ AloneElsewhere'
      BY <1>2 DEF Queue, TaskOnly, Store
    <2>5. SentAsQueued'
      BY <1>2 DEF Queue, TaskOnly, Store
    <2>6. TagAsRead'
      BY <1>2 DEF Queue, TaskOnly, Store
    <2>7. RecordedAsQueued'
      BY <1>2 DEF Queue, TaskOnly, Store
    <2>8. FeatureAsRead' /\ LostTag'
      BY <1>2 DEF Queue, TaskOnly, Store
    <2> QED BY <2>1, <2>2, <2>3, <2>4, <2>5, <2>6, <2>7, <2>8
  <1>3. CASE Tag
    <2>1. NeverDropped'
      BY <1>3 DEF Tag, Request, Return, TaskOnly, Store
    <2>2. HostHoldsSent'
      BY <1>3 DEF Tag, Request, Return, TaskOnly, Store
    <2>3. DraftIsOwed' /\ TagStillSeen' /\ ModeRespected'
      BY <1>3 DEF Tag, Request, Return, TaskOnly, Store
    <2>4. InHand' /\ AloneElsewhere'
      BY <1>3 DEF Tag, Request, Return, TaskOnly, Store
    <2>5. SentAsQueued'
      BY <1>3 DEF Tag, Request, Return, TaskOnly, Store
    <2>6. TagAsRead'
      BY <1>3 DEF Tag, Request, Return, TaskOnly, Store
    <2>7. RecordedAsQueued'
      BY <1>3 DEF Tag, Request, Return, TaskOnly, Store
    <2>8. FeatureAsRead' /\ LostTag'
      BY <1>3 DEF Tag, Request, Return, TaskOnly, Store
    <2> QED BY <2>1, <2>2, <2>3, <2>4, <2>5, <2>6, <2>7, <2>8
  <1> QED BY <1>1, <1>2, <1>3

(* The handler sends and records what the tag names.                       *)
LEMMA ServeInv ==
  ASSUME BleInv, BleTypeOK', Serve \/ Send \/ Record
  PROVE  BleInv'
  <1> USE BleAssumption
      DEF BleInv, SendPathOK, Bookkeeping, HandlerInv,
          NeverDropped, HostHoldsSent, DraftIsOwed, TagStillSeen, ModeRespected, InHand,
          AloneElsewhere, SentAsQueued, TagAsRead, RecordedAsQueued,
          FeatureAsRead, LostTag, Building, InFlight, Follows, Caught, Writing, Unrecorded,
          BeforeClear, Nothing, BleTypeOK, AroundTypeOK, TaskTypeOK, SendTypeOK,
          HandlerTypeOK, Event, build, input, task, send, request, handler,
          link
  <1>1. CASE Serve
    BY <1>1 DEF Serve, HandlerOnly
  <1>2. CASE Send
    BY <1>2 DEF Send, HandlerOnly, Read
  <1>3. CASE Record
    BY <1>3 DEF Record, HandlerOnly, Read
  <1> QED BY <1>1, <1>2, <1>3

(* It clears the tag, and sets it for what waits behind a response.        *)
LEMMA ClearInv ==
  ASSUME BleInv, BleTypeOK', Look \/ Clear \/ Follow \/ Resume
  PROVE  BleInv'
  <1> USE BleAssumption
      DEF BleInv, SendPathOK, Bookkeeping, HandlerInv,
          NeverDropped, HostHoldsSent, DraftIsOwed, TagStillSeen, ModeRespected, InHand,
          AloneElsewhere, SentAsQueued, TagAsRead, RecordedAsQueued,
          FeatureAsRead, LostTag, Building, InFlight, Follows, Caught, Writing, Unrecorded,
          BeforeClear, Nothing, BleTypeOK, AroundTypeOK, TaskTypeOK, SendTypeOK,
          HandlerTypeOK, Event, build, input, task, send, request, handler,
          link
  <1>1. CASE Look
    BY <1>1 DEF Look, HandlerOnly
  <1>2. CASE Clear
    <2>1. NeverDropped'
      <3> SUFFICES ASSUME NEW k \in Kinds \ excused', ~Building(k)'
                   PROVE  InFlight(k)' = owed'[k]
        OBVIOUS
      <3>1. ~Building(k) /\ k \notin excused \cup Wiped \cup Caught /\ InFlight(k) = owed[k]
        BY <1>2 DEF Clear, HandlerOnly
      <3>2. CASE pending = k
        <4>1. k \notin clash
          BY <1>2, <3>1, <3>2 DEF Clear, Wiped
        <4> QED BY <1>2, <3>1, <3>2, <4>1 DEF Clear, HandlerOnly, Rest
      <3>3. CASE pending # k
        <4>1. k = "gamepad" /\ after => (pending = "feature" <=> sending = "feature")
          BY <1>2, <3>1, <3>3 DEF Clear, Wiped
        <4> QED BY <1>2, <3>1, <3>3, <4>1 DEF Clear, HandlerOnly, Rest
      <3> QED BY <3>2, <3>3
    <2>2. HostHoldsSent'
      BY <1>2 DEF Clear, HandlerOnly, Rest, Wiped
    <2>3. DraftIsOwed' /\ TagStillSeen' /\ ModeRespected'
      BY <1>2 DEF Clear, HandlerOnly, Rest, Wiped
    <2>4. InHand' /\ AloneElsewhere'
      BY <1>2 DEF Clear, HandlerOnly, Rest, Wiped
    <2>5. SentAsQueued'
      BY <1>2 DEF Clear, HandlerOnly, Rest, Wiped
    <2>6. TagAsRead'
      BY <1>2 DEF Clear, HandlerOnly, Rest, Wiped
    <2>7. RecordedAsQueued'
      BY <1>2 DEF Clear, HandlerOnly, Rest, Wiped
    <2>8. FeatureAsRead' /\ LostTag'
      BY <1>2 DEF Clear, HandlerOnly, Rest, Wiped
    <2> QED BY <2>1, <2>2, <2>3, <2>4, <2>5, <2>6, <2>7, <2>8
  <1>3. CASE Follow
    BY <1>3 DEF Follow, HandlerOnly, Rest
  <1>4. CASE Resume
    BY <1>4 DEF Resume, HandlerOnly, Rest
  <1> QED BY <1>1, <1>2, <1>3, <1>4

(* An event that is taken becomes the draft.                               *)
LEMMA PollInv ==
  ASSUME BleInv, BleTypeOK', Runs, Poll
  PROVE  BleInv'
  <1> USE BleAssumption
      DEF BleInv, SendPathOK, Bookkeeping, HandlerInv,
          NeverDropped, HostHoldsSent, DraftIsOwed, TagStillSeen, ModeRespected, InHand,
          AloneElsewhere, SentAsQueued, TagAsRead, RecordedAsQueued,
          FeatureAsRead, LostTag, Building, InFlight, Follows, Caught, Writing, Unrecorded,
          BeforeClear, Nothing, BleTypeOK, AroundTypeOK, TaskTypeOK, SendTypeOK,
          HandlerTypeOK, Event, build, input, task, send, request, handler,
          link, Runs
  <1>1. CASE Passed = {} /\ UNCHANGED <<draft, features, owed, excused>> /\ step' = "idle"
    BY <1>1 DEF Poll, TaskOnly
  <1>2. ASSUME NEW e \in Passed, draft' = e,
               owed' = [owed EXCEPT ![e.kind] = e.held],
               excused' = excused \ {e.kind},
               step' = IF mode = "sinput" THEN "feature" ELSE "compare"
        PROVE  BleInv'
    <2>1. e \in Event /\ (mode = "sinput" => e.kind = "gamepad")
      BY PassedAreEvents DEF Passed
    <2>2. NeverDropped'
      BY <1>2, <2>1 DEF Poll, TaskOnly
    <2>3. HostHoldsSent'
      BY DEF Poll, TaskOnly
    <2>4. Bookkeeping'
      BY <1>2, <2>1 DEF Poll, TaskOnly
    <2>5. InHand' /\ AloneElsewhere' /\ SentAsQueued' /\ TagAsRead'
      BY <1>2, <2>1 DEF Poll, TaskOnly
    <2>6. RecordedAsQueued'
      BY <1>2, <2>1 DEF Poll, TaskOnly
    <2>7. FeatureAsRead'
      BY <1>2, <2>1 DEF Poll, TaskOnly
    <2>8. LostTag'
      BY <1>2, <2>1 DEF Poll, TaskOnly
    <2> QED BY <2>2, <2>3, <2>4, <2>5, <2>6, <2>7, <2>8
  <1> QED BY <1>1, <1>2 DEF Poll

(* Every step of the task, of BTstack and around them keeps the invariant. *)
LEMMA StepInv == BleInv /\ [BleNext]_bleVars => BleInv'
  <1> SUFFICES ASSUME BleInv, [BleNext]_bleVars PROVE BleInv'
    OBVIOUS
  <1>1. BleTypeOK'
    BY StepType DEF BleInv, SendPathOK
  <1>2. CASE Task
    BY <1>1, <1>2, WatchdogInv, PollInv, FeatureInv, ReportInv DEF Task
  <1>3. CASE Serve \/ Handler
    BY <1>1, <1>3, ServeInv, ClearInv DEF Handler
  <1>4. CASE \/ Marshal \/ Tick \/ RouterEvent \/ UsbHost \/ Lose \/ Subscribe
             \/ Disconnect \/ HostAsks
    BY <1>1, <1>4, AroundInv, DisconnectInv
  <1>5. CASE UNCHANGED bleVars
    BY <1>1, <1>5 DEF BleInv, SendPathOK, Bookkeeping, HandlerInv,
          NeverDropped, HostHoldsSent, DraftIsOwed, TagStillSeen, ModeRespected, InHand,
          AloneElsewhere, SentAsQueued, TagAsRead, RecordedAsQueued,
          FeatureAsRead, LostTag, Building, InFlight, Follows, Caught, Writing, Unrecorded,
          BeforeClear, Nothing, BleTypeOK, AroundTypeOK, TaskTypeOK, SendTypeOK,
          HandlerTypeOK, Event, bleVars
  <1> QED BY <1>2, <1>3, <1>4, <1>5 DEF BleNext

(* No event that was taken from the router is dropped on its way to the    *)
(* host but the excused ones, and the record of what was sent is what the  *)
(* host holds (ble_output.c:1570-1583, 1058-1115): on the Pico W and the   *)
(* nRF always, on the ESP32 unless the task stored a report of that kind   *)
(* between the send and the record.                                        *)
THEOREM EventsAreNotDropped == BleSpec => []SendPathOK
  <1>1. BleInv => SendPathOK
    BY DEF BleInv
  <1> QED BY <1>1, InitInv, StepInv, PTL DEF BleSpec, BleSafe

(* The same of a build, which has the BLE output or a console driver: no   *)
(* event is dropped but the excused ones.                                  *)
THEOREM OutputsDropNothing == Spec => []SendPathOK
  <1>1. Init => BleInv
    BY InitInv DEF Init
  <1>2. [Next]_outputsVars => [BleNext]_bleVars
    BY DEF Next, OfConsole, OfBle, outputsVars
  <1>3. BleInv => SendPathOK
    BY DEF BleInv
  <1> QED BY <1>1, <1>2, <1>3, StepInv, PTL DEF Spec
===============================================================================
