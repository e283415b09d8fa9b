------------------------- MODULE SignedReportsProofs -------------------------
(***************************************************************************)
(* Proofs about the signing of reports over the two-chip link, for any     *)
(* pads, buttons, ring size, dongle depth, number of faults and repeats.  *)
(* A request or its answer is in one of five places: the two rings, the    *)
(* two hand-over buffers of the host chip, the dongle.  Every step is      *)
(* looked at as what it does to the copies of a set of reports, for any    *)
(* such set: most steps only move or lose them.                            *)
(***************************************************************************)
EXTENDS SignedReports, FiniteSetTheorems, SequenceTheorems, TLAPS

-----------------------------------------------------------------------------
(* The queues and the counts. *)

LEMMA CountType ==
  ASSUME NEW S, NEW queue \in Seq(S), NEW marked
  PROVE  /\ IsFiniteSet({i \in DOMAIN queue : queue[i] \in marked})
         /\ Count(queue, marked) \in Nat
<1>1. IsFiniteSet(1 .. Len(queue))
  BY LenProperties, FS_Interval
<1>2. {i \in DOMAIN queue : queue[i] \in marked} \in SUBSET (1 .. Len(queue))
  BY LenProperties
<1> QED BY <1>1, <1>2, FS_Subset, FS_CardinalityType DEF Count

LEMMA CountEmpty == ASSUME NEW marked PROVE Count(<<>>, marked) = 0
<1>1. {i \in DOMAIN <<>> : <<>>[i] \in marked} = {}
  OBVIOUS
<1> QED BY <1>1, FS_EmptySet DEF Count

\* More marks, no smaller a count.
LEMMA CountMonotone ==
  ASSUME NEW S, NEW queue \in Seq(S), NEW marked, NEW more, marked \subseteq more
  PROVE  Count(queue, marked) <= Count(queue, more)
<1> DEFINE few == {i \in DOMAIN queue : queue[i] \in marked}
           many == {i \in DOMAIN queue : queue[i] \in more}
<1>1. few \in SUBSET many
  OBVIOUS
<1>2. IsFiniteSet(many)
  BY CountType
<1> HIDE DEF few, many
<1>3. Cardinality(few) <= Cardinality(many)
  BY <1>1, <1>2, FS_Subset
<1> QED BY <1>3 DEF Count, few, many

LEMMA CountAppend ==
  ASSUME NEW S, NEW queue \in Seq(S), NEW x \in S, NEW marked
  PROVE  Count(Append(queue, x), marked)
           = IF x \in marked THEN Count(queue, marked) + 1 ELSE Count(queue, marked)
<1> DEFINE longer == Append(queue, x)
           before == {i \in DOMAIN queue : queue[i] \in marked}
           after == {i \in DOMAIN longer : longer[i] \in marked}
<1>1. /\ DOMAIN longer = 1 .. Len(queue) + 1 /\ longer[Len(queue) + 1] = x
      /\ \A i \in 1 .. Len(queue) : longer[i] = queue[i]
      /\ DOMAIN queue = 1 .. Len(queue) /\ Len(queue) \in Nat
  BY AppendProperties, LenProperties
<1> HIDE DEF longer
<1>2. IsFiniteSet(before) /\ Len(queue) + 1 \notin before
  <2>1. IsFiniteSet(before)
    BY CountType
  <2> QED BY <1>1, <2>1
<1>3. CASE x \in marked
  <2>1. after = before \union {Len(queue) + 1}
    BY <1>1, <1>3
  <2>2. Cardinality(before \union {Len(queue) + 1}) = Cardinality(before) + 1
    <3> HIDE DEF before
    <3> QED BY <1>2, FS_AddElement
  <2> QED BY <1>3, <2>1, <2>2 DEF Count, longer
<1>4. CASE x \notin marked
  <2>1. after = before
    BY <1>1, <1>4
  <2> QED BY <1>4, <2>1 DEF Count, longer
<1> QED BY <1>3, <1>4

\* The first element is taken.
LEMMA CountTail ==
  ASSUME NEW S, NEW queue \in Seq(S), queue # <<>>, NEW marked
  PROVE  Count(Tail(queue), marked)
           = IF Head(queue) \in marked THEN Count(queue, marked) - 1 ELSE Count(queue, marked)
<1> DEFINE tail == Tail(queue)
           before == {i \in DOMAIN queue : queue[i] \in marked}
           after == {i \in DOMAIN tail : tail[i] \in marked}
           shift == [i \in after |-> i + 1]
<1>1. /\ tail \in Seq(S) /\ Len(tail) = Len(queue) - 1
      /\ \A i \in 1 .. Len(tail) : tail[i] = queue[i + 1]
  BY HeadTailProperties
<1>2. /\ Len(queue) \in Nat /\ Len(queue) > 0 /\ Head(queue) = queue[1]
      /\ DOMAIN queue = 1 .. Len(queue) /\ DOMAIN tail = 1 .. Len(queue) - 1
  BY <1>1, LenProperties, EmptySeq
<1>3. IsFiniteSet(before) /\ IsFiniteSet(after)
  BY <1>1, CountType
<1> HIDE DEF tail
<1>4. \A i \in after : i \in Nat /\ i + 1 \in before \ {1}
  BY <1>1, <1>2
<1>5. \A j \in before \ {1} : j - 1 \in after /\ j = (j - 1) + 1
  BY <1>1, <1>2
<1>6. 1 \in before <=> Head(queue) \in marked
  BY <1>2
<1> HIDE DEF before, after
<1>7. shift \in Bijection(after, before \ {1})
  <2>1. shift \in [after -> before \ {1}]
    BY <1>4
  <2>2. \A i, j \in after : shift[i] = shift[j] => i = j
    BY <1>4
  <2>3. \A j \in before \ {1} : \E i \in after : shift[i] = j
    BY <1>5
  <2> QED BY <2>1, <2>2, <2>3 DEF Bijection, Injection, Surjection, IsInjective
<1>8. Cardinality(after) = Cardinality(before \ {1})
  BY <1>3, <1>7, FS_Bijection DEF ExistsBijection
<1>9. Cardinality(before \ {1}) = IF 1 \in before THEN Cardinality(before) - 1 ELSE Cardinality(before)
  BY <1>3, FS_RemoveElement
<1> QED BY <1>6, <1>8, <1>9 DEF Count, before, after, tail

\* A frame is sent: the ring keeps its size, and a marked frame is one more at most.
LEMMA SentIs ==
  ASSUME NEW S, NEW queue \in Seq(S), NEW frame \in S, Len(queue) <= LinkCap
  PROVE  Sent(queue, frame) \in Seq(S) /\ Len(Sent(queue, frame)) <= LinkCap
<1>1. Len(queue) \in Nat
  BY LenProperties
<1> QED BY <1>1, AppendProperties, SizeAssumption DEF Sent

LEMMA CountSent ==
  ASSUME NEW S, NEW queue \in Seq(S), NEW frame \in S, NEW marked
  PROVE  /\ Count(Sent(queue, frame), marked) <= Count(queue, marked) + 1
         /\ frame \notin marked => Count(Sent(queue, frame), marked) = Count(queue, marked)
<1>1. Count(queue, marked) \in Nat
  BY CountType
<1>2. Count(Append(queue, frame), marked)
        = IF frame \in marked THEN Count(queue, marked) + 1 ELSE Count(queue, marked)
  BY CountAppend
<1> QED BY <1>1, <1>2 DEF Sent
-----------------------------------------------------------------------------
(* Types. *)

LEMMA FrameTypes ==
  /\ \A p \in Pads, buttons \in Report : Event(p, buttons) \in ToA
  /\ \A report \in Report : SignResp(report) \in ToA /\ SignReq(report) \in ToB
  /\ \A ready \in BOOLEAN : Presence(ready) \in ToA
  /\ \A p \in Pads, buttons \in Report : \A r : Event(p, buttons) # SignResp(r)
  /\ \A ready \in BOOLEAN : \A r : Presence(ready) # SignResp(r)
  BY DEF Event, SignResp, SignReq, Presence, ToA, ToB

LEMMA FrameParts ==
  ASSUME NEW frame \in ToA
  PROVE  /\ frame.type = "EVENT" => frame.pad \in Pads /\ frame.buttons \in Report
         /\ frame.type = "SIGN_RESP" => frame.report \in Report
         /\ frame.type = "DONGLE" => frame.ready \in BOOLEAN
  BY DEF ToA

LEMMA TogetherType == ASSUME NEW state \in [Pads -> Report] PROVE Together(state) \in Report
  BY DEF Together, Report

\* The two chips, and the rest, each with its types.
HostType ==
  /\ pad \in [Pads -> Report] /\ last_event \in Pads \union {None}
  /\ b_dongle \in BOOLEAN /\ dongle_last \in BOOLEAN
  /\ b_pending \in {None} \union Report /\ b_ready \in {None} \union Report
  /\ signing \in Seq(Report) /\ Len(signing) <= DongleDepth
LinkType ==
  /\ to_a \in Seq(ToA) /\ to_b \in Seq(ToB)
  /\ Len(to_a) <= LinkCap /\ Len(to_b) <= LinkCap
DeviceType ==
  /\ held \in [Pads -> Report] /\ at \in {"usb", "app"}
  /\ dongle_ready \in BOOLEAN /\ in_flight \in BOOLEAN
  /\ hash_pending \in {None} \union Report /\ hash_ready \in {None} \union Report
  /\ endpoint \in {None} \union Report /\ pending_event \in {None} \union Report
  /\ latched \in Report /\ report_last \in Report /\ console \in Report
  /\ diff_repeat \in 0 .. DiffRepeat
HistoryType == changes \in Nat /\ faults \in 0 .. MaxFaults /\ extra \in 0 .. MaxRepeats

LEMMA TypesAre == TypeOK <=> HostType /\ LinkType /\ DeviceType /\ HistoryType
  BY DEF TypeOK, HostType, LinkType, DeviceType, HistoryType

LEMMA Bounds ==
  /\ 0 \in 0 .. DiffRepeat /\ DiffRepeat \in 0 .. DiffRepeat
  /\ \A n \in 0 .. DiffRepeat : n > 0 => n - 1 \in 0 .. DiffRepeat
  /\ 0 \in 0 .. MaxFaults /\ 0 \in 0 .. MaxRepeats
  /\ \A n \in 0 .. MaxRepeats : n + 1 <= MaxRepeats => n + 1 \in 0 .. MaxRepeats
  /\ \A n \in 0 .. MaxFaults : n < MaxFaults => n + 1 \in 0 .. MaxFaults
  /\ 0 <= LinkCap /\ 0 <= DongleDepth
  BY SizeAssumption, BoundAssumption

LEMMA InitType == Init => TypeOK
<1> SUFFICES ASSUME Init PROVE TypeOK
  OBVIOUS
<1>1. \A S : <<>> \in Seq(S) /\ Len(<<>>) = 0
  BY EmptySeq
<1>2. {} \in Report
  BY DEF Report
<1>3. pad \in [Pads -> Report] /\ held \in [Pads -> Report]
  BY <1>2 DEF Init
<1>4. HostType
  BY <1>1, <1>3, Bounds, Zenon DEF Init, HostType
<1>5. LinkType
  BY <1>1, Bounds DEF Init, LinkType
<1>6. DeviceType
  BY <1>2, <1>3, Bounds, Zenon DEF Init, DeviceType
<1>7. HistoryType
  <2>1. changes \in Nat
    BY DEF Init
  <2> QED BY <2>1, Bounds, Zenon DEF Init, HistoryType
<1> QED BY <1>4, <1>5, <1>6, <1>7, TypesAre

LEMMA StepType == ASSUME TypeOK, [Next]_vars PROVE TypeOK'
<1> USE TypesAre
<1>0. /\ HostType /\ LinkType /\ DeviceType /\ HistoryType
      /\ TypeOK' <=> HostType' /\ LinkType' /\ DeviceType' /\ HistoryType'
  BY DEF TypeOK, HostType, LinkType, DeviceType, HistoryType
<1>1. ASSUME NEW p \in Pads, NEW buttons \in Report, PadChange(p, buttons) PROVE TypeOK'
  <2>1. Sent(to_a, Event(p, buttons)) \in Seq(ToA) /\ Len(Sent(to_a, Event(p, buttons))) <= LinkCap
    BY <1>0, FrameTypes, SentIs DEF LinkType
  <2>2. HostType' /\ LinkType'
    BY <1>0, <1>1, <2>1 DEF PadChange, HostType, LinkType
  <2> QED BY <1>0, <1>1, <2>2 DEF PadChange, DeviceType, HistoryType, a_vars
<1>2. CASE Refresh
  <2>1. Event(last_event, pad[last_event]) \in ToA
    BY <1>0, <1>2, FrameTypes DEF Refresh, HostType
  <2>2. LinkType'
    BY <1>0, <1>2, <2>1, SentIs DEF Refresh, LinkType
  <2> QED BY <1>0, <1>2, <2>2 DEF Refresh, HostType, DeviceType, HistoryType, a_vars, b_vars, history
<1>3. CASE DonglePlug
  BY <1>0, <1>3 DEF DonglePlug, HostType, LinkType, DeviceType, HistoryType, a_vars, history
<1>4. CASE DongleUnplug
  <2>1. signing' \in Seq(Report) /\ Len(signing') <= DongleDepth
    BY <1>4, EmptySeq, Bounds DEF DongleUnplug
  <2>2. HostType'
    BY <1>0, <1>4, <2>1, Zenon DEF DongleUnplug, HostType
  <2>3. faults' \in 0 .. MaxFaults
    BY <1>0, <1>4, Bounds DEF DongleUnplug, HistoryType
  <2> QED BY <1>0, <1>4, <2>2, <2>3 DEF DongleUnplug, LinkType, DeviceType, HistoryType, a_vars
<1>5. CASE HostTask
  <2>1. signing' \in Seq(Report) /\ Len(signing') <= DongleDepth
    <3>1. b_pending \in Report /\ signing' = Append(signing, b_pending) /\ Len(signing) \in Nat
      BY <1>0, <1>5, LenProperties DEF HostTask, HostType
    <3> QED BY <1>0, <1>5, <3>1, AppendProperties, SizeAssumption DEF HostTask, HostType
  <2> QED BY <1>0, <1>5, <2>1 DEF HostTask, HostType, LinkType, DeviceType, HistoryType, a_vars, history
<1>6. CASE ReportReceived
  <2>1. /\ signing' \in Seq(Report) /\ Len(signing') = Len(signing) - 1
        /\ Head(signing) \in Report /\ Len(signing) \in Nat
    BY <1>0, <1>6, HeadTailProperties, LenProperties DEF ReportReceived, HostType
  <2>2. HostType'
    BY <1>0, <1>6, <2>1, SizeAssumption DEF ReportReceived, HostType
  <2> QED BY <1>0, <1>6, <2>2 DEF ReportReceived, LinkType, DeviceType, HistoryType, a_vars, history
<1>7. ASSUME NEW tell \in BOOLEAN, LinkHostTask(tell) PROVE TypeOK'
  <2> DEFINE told == IF tell THEN Sent(to_a, Presence(b_dongle)) ELSE to_a
  <2>1. told \in Seq(ToA) /\ Len(told) <= LinkCap
    BY <1>0, FrameTypes, SentIs DEF LinkType, HostType
  <2>2. to_a' = IF b_ready = None THEN told ELSE Sent(told, SignResp(b_ready))
    BY <1>7 DEF LinkHostTask
  <2> HIDE DEF told
  <2>3. to_a' \in Seq(ToA) /\ Len(to_a') <= LinkCap
    BY <1>0, <2>1, <2>2, FrameTypes, SentIs DEF HostType
  <2>4. HostType'
    BY <1>0, <1>7 DEF LinkHostTask, HostType
  <2> QED BY <1>0, <1>7, <2>3, <2>4 DEF LinkHostTask, LinkType, DeviceType, HistoryType, a_vars, history
<1>8. CASE BReceive
  <2>1. /\ to_b' \in Seq(ToB) /\ Len(to_b') = Len(to_b) - 1 /\ Len(to_b) \in Nat
        /\ Head(to_b) \in ToB
    BY <1>0, <1>8, HeadTailProperties, LenProperties DEF BReceive, LinkType
  <2>2. b_pending' \in Report
    BY <1>8, <2>1 DEF BReceive, ToB
  <2>3. HostType' /\ LinkType'
    BY <1>0, <1>8, <2>1, <2>2, SizeAssumption DEF BReceive, HostType, LinkType
  <2> QED BY <1>0, <1>8, <2>3 DEF BReceive, DeviceType, HistoryType, a_vars, history
<1>9. CASE Corrupt
  <2>1. LinkType'
    <3>1. \A S, q : q \in Seq(S) /\ q # <<>> => Tail(q) \in Seq(S) /\ Len(Tail(q)) = Len(q) - 1 /\ Len(q) \in Nat
      BY HeadTailProperties, LenProperties
    <3>2. CASE to_a # <<>> /\ to_a' = Tail(to_a) /\ UNCHANGED to_b
      <4>1. to_a' \in Seq(ToA) /\ Len(to_a') = Len(to_a) - 1 /\ Len(to_a) \in Nat
        BY <1>0, <3>1, <3>2 DEF LinkType
      <4> QED BY <1>0, <3>2, <4>1, SizeAssumption DEF LinkType
    <3>3. CASE to_b # <<>> /\ to_b' = Tail(to_b) /\ UNCHANGED to_a
      <4>1. to_b' \in Seq(ToB) /\ Len(to_b') = Len(to_b) - 1 /\ Len(to_b) \in Nat
        BY <1>0, <3>1, <3>3 DEF LinkType
      <4> QED BY <1>0, <3>3, <4>1, SizeAssumption DEF LinkType
    <3> QED BY <1>9, <3>2, <3>3 DEF Corrupt
  <2>2. faults' \in 0 .. MaxFaults
    BY <1>0, <1>9, Bounds DEF Corrupt, HistoryType
  <2> QED BY <1>0, <1>9, <2>1, <2>2 DEF Corrupt, HostType, DeviceType, HistoryType, a_vars, b_vars
<1>10. CASE AReceive
  <2>1. /\ to_a' \in Seq(ToA) /\ Len(to_a') = Len(to_a) - 1 /\ Len(to_a) \in Nat
        /\ Head(to_a) \in ToA
    BY <1>0, <1>10, HeadTailProperties, LenProperties DEF AReceive, LinkType
  <2>2. held' \in [Pads -> Report] /\ pending_event' \in {None} \union Report
    <3>1. CASE /\ Head(to_a).type = "EVENT"
               /\ held' = [held EXCEPT ![Head(to_a).pad] = Head(to_a).buttons]
               /\ pending_event' = Together(held')
      <4>1. held' \in [Pads -> Report]
        BY <1>0, <2>1, <3>1, FrameParts DEF DeviceType
      <4> QED BY <3>1, <4>1, TogetherType
    <3>2. CASE UNCHANGED <<held, pending_event>>
      BY <1>0, <3>2 DEF DeviceType
    <3> QED BY <1>10, <3>1, <3>2 DEF AReceive
  <2>3. /\ dongle_ready' \in BOOLEAN
        /\ hash_ready' \in {None} \union Report /\ hash_pending' \in {None} \union Report
    BY <1>0, <1>10, <2>1, FrameParts DEF AReceive, DeviceType
  <2>4. DeviceType'
    BY <1>0, <1>10, <2>2, <2>3 DEF AReceive, DeviceType
  <2>5. LinkType'
    BY <1>0, <1>10, <2>1, SizeAssumption DEF AReceive, LinkType
  <2> QED BY <1>0, <1>10, <2>4, <2>5 DEF AReceive, HostType, HistoryType, b_vars, history
<1>11. CASE UsbTask
  <2>1. \A e \in Report : e \union latched \in Report /\ latched \union e \in Report
    BY <1>0 DEF DeviceType, Report
  <2>2. /\ pending_event' \in {None} \union Report /\ latched' \in Report
        /\ hash_ready' \in {None} \union Report /\ hash_pending' \in {None} \union Report
        /\ report_last' \in Report /\ diff_repeat' \in 0 .. DiffRepeat
        /\ endpoint' \in {None} \union Report
    <3>1. CASE PumpSigned
      BY <1>0, <3>1 DEF PumpSigned, DeviceType
    <3>2. CASE Fold
      BY <1>0, <2>1, <3>2 DEF Fold, DeviceType
    <3>3. CASE Build
      <4>1. pending_event \union latched \in Report /\ {} \in Report
        BY <1>0, <2>1, <3>3 DEF Build, DeviceType, Report
      <4>2. /\ hash_pending' \in {None} \union Report /\ report_last' \in Report
            /\ diff_repeat' \in 0 .. DiffRepeat
        <5>1. SendReport(pending_event \union latched)
          BY <3>3 DEF Build
        <5> HIDE <3>3
        <5> QED BY <1>0, <4>1, <5>1, Bounds DEF SendReport, DeviceType
      <4> QED BY <1>0, <3>3, <4>1, <4>2 DEF Build, DeviceType
    <3>4. CASE UNCHANGED <<pending_event, latched, hash_ready, hash_pending, report_last,
                           diff_repeat, endpoint>>
      BY <1>0, <3>4 DEF DeviceType
    <3> QED BY <1>11, <3>1, <3>2, <3>3, <3>4 DEF UsbTask
  <2>3. DeviceType'
    BY <1>0, <1>11, <2>2 DEF UsbTask, DeviceType
  <2> QED BY <1>0, <1>11, <2>3 DEF UsbTask, HostType, LinkType, HistoryType, b_vars, history
<1>12. CASE SignRequest
  <2>1. SignReq(hash_pending) \in ToB
    BY <1>0, <1>12, FrameTypes DEF SignRequest, DeviceType
  <2>2. LinkType'
    BY <1>0, <1>12, <2>1, SentIs DEF SignRequest, Request, LinkType
  <2>3. HistoryType'
    <3>1. extra' \in 0 .. MaxRepeats
      BY <1>0, <1>12, Bounds DEF SignRequest, CountRepeat, HistoryType
    <3> QED BY <1>0, <1>12, <3>1 DEF SignRequest, Request, HistoryType
  <2>4. DeviceType'
    BY <1>0, <1>12 DEF SignRequest, Request, DeviceType
  <2> QED BY <1>0, <1>12, <2>2, <2>3, <2>4 DEF SignRequest, Request, HostType, b_vars
<1>13. CASE NoRequest
  BY <1>0, <1>13 DEF NoRequest, HostType, LinkType, DeviceType, HistoryType, b_vars, history
<1>14. CASE Poll
  BY <1>0, <1>14 DEF Poll, HostType, LinkType, DeviceType, HistoryType, b_vars, history
<1>15. CASE UNCHANGED vars
  BY <1>0, <1>15 DEF vars, HostType, LinkType, DeviceType, HistoryType, a_vars, b_vars, history
<1>16. ASSUME Next PROVE TypeOK'
  BY <1>1, <1>2, <1>3, <1>4, <1>5, <1>6, <1>7, <1>8, <1>9, <1>10, <1>11, <1>12, <1>13, <1>14,
     <1>16 DEF Next, Tell, Answer
<1> QED BY <1>15, <1>16
-----------------------------------------------------------------------------
(* One request in flight. *)

\* The marked frames of a set of reports.
Requests(reports) == {SignReq(r) : r \in reports}
Answers(reports) == {SignResp(r) : r \in reports}

LEMMA CopiesAre ==
  ASSUME TypeOK, NEW R
  PROVE  /\ Copies(R) = Count(to_b, Requests(R)) + Count(to_a, Answers(R)) + Count(signing, R)
                          + Holding(b_pending, R) + Holding(b_ready, R)
         /\ Count(to_b, Requests(R)) \in Nat /\ Count(to_a, Answers(R)) \in Nat
         /\ Count(signing, R) \in Nat
         /\ Holding(b_pending, R) \in 0 .. 1 /\ Holding(b_ready, R) \in 0 .. 1
         /\ Copies(R) \in Nat
<1>1. /\ Count(to_b, Requests(R)) \in Nat /\ Count(to_a, Answers(R)) \in Nat
      /\ Count(signing, R) \in Nat
  BY CountType DEF TypeOK
<1>2. Holding(b_pending, R) \in 0 .. 1 /\ Holding(b_ready, R) \in 0 .. 1
  BY DEF Holding
<1> QED BY <1>1, <1>2 DEF Copies, Requests, Answers

LEMMA CopiesAreNext ==
  ASSUME TypeOK', NEW R
  PROVE  /\ Copies(R)' = Count(to_b', Requests(R)) + Count(to_a', Answers(R)) + Count(signing', R)
                           + Holding(b_pending', R) + Holding(b_ready', R)
         /\ Count(to_b', Requests(R)) \in Nat /\ Count(to_a', Answers(R)) \in Nat
         /\ Count(signing', R) \in Nat
         /\ Holding(b_pending', R) \in 0 .. 1 /\ Holding(b_ready', R) \in 0 .. 1
         /\ Copies(R)' \in Nat
<1>1. /\ Count(to_b', Requests(R)) \in Nat /\ Count(to_a', Answers(R)) \in Nat
      /\ Count(signing', R) \in Nat
  BY CountType DEF TypeOK
<1>2. Holding(b_pending', R) \in 0 .. 1 /\ Holding(b_ready', R) \in 0 .. 1
  BY DEF Holding
<1> QED BY <1>1, <1>2 DEF Copies, Requests, Answers

\* Those of some reports are no more than those of all.
LEMMA CopiesMonotone ==
  ASSUME TypeOK, NEW R \in SUBSET Report
  PROVE  Copies(R) <= Copies(Report)
<1>1. Requests(R) \subseteq Requests(Report) /\ Answers(R) \subseteq Answers(Report)
  BY DEF Requests, Answers
<1>2. /\ Count(to_b, Requests(R)) <= Count(to_b, Requests(Report))
      /\ Count(to_a, Answers(R)) <= Count(to_a, Answers(Report))
      /\ Count(signing, R) <= Count(signing, Report)
  BY <1>1, CountMonotone DEF TypeOK
<1>3. /\ Holding(b_pending, R) <= Holding(b_pending, Report)
      /\ Holding(b_ready, R) <= Holding(b_ready, Report)
  BY DEF Holding
<1> QED BY <1>2, <1>3, CopiesAre

\* A step that makes no copy, and leaves what the device waits for.
Moves == /\ \A R \in SUBSET Report : Copies(R)' <= Copies(R)
         /\ UNCHANGED <<hash_pending, in_flight, extra>>

LEMMA MovesInv == ASSUME SigningOK, TypeOK', Moves PROVE OneInFlight'
<1> PICK R \in SUBSET Report : R = Report \ {hash_pending}
  OBVIOUS
<1>1. /\ Alive = Copies(Report) /\ Alive' = Copies(Report)'
      /\ Stale = Copies(R) /\ Stale' = Copies(R)'
  BY DEF Alive, Stale, Copies, Moves
<1>2. Copies(Report)' <= Copies(Report) /\ Copies(R)' <= Copies(R)
  BY DEF Moves
<1>3. /\ Copies(Report) \in Nat /\ Copies(Report)' \in Nat
      /\ Copies(R) \in Nat /\ Copies(R)' \in Nat /\ extra \in Nat
  <2>1. TypeOK
    BY DEF SigningOK
  <2> QED BY <2>1, CopiesAre, CopiesAreNext DEF TypeOK
<1> QED BY <1>1, <1>2, <1>3 DEF SigningOK, OneInFlight, Moves

\* The five places, and what a step does to each.
LEMMA MovesWhen ==
  ASSUME TypeOK, TypeOK', UNCHANGED <<hash_pending, in_flight, extra>>,
         \A R \in SUBSET Report :
           Count(to_b', Requests(R)) + Count(to_a', Answers(R)) + Count(signing', R)
             + Holding(b_pending', R) + Holding(b_ready', R)
           <= Count(to_b, Requests(R)) + Count(to_a, Answers(R)) + Count(signing, R)
                + Holding(b_pending, R) + Holding(b_ready, R)
  PROVE  Moves
  BY CopiesAre, CopiesAreNext DEF Moves

\* The host chip and the dongle pass a copy on, drop it or lose it.
LEMMA HostInv ==
  ASSUME SigningOK, TypeOK',
         HostTask \/ ReportReceived \/ BReceive \/ DongleUnplug \/ DonglePlug
  PROVE  Moves
<1>0. /\ TypeOK /\ UNCHANGED <<hash_pending, in_flight, extra, to_a>>
      /\ signing \in Seq(Report) /\ to_b \in Seq(ToB)
      /\ b_pending \in {None} \union Report /\ b_ready \in {None} \union Report
  BY DEF SigningOK, TypeOK, HostTask, ReportReceived, BReceive, DongleUnplug, DonglePlug, a_vars,
         history
<1> SUFFICES ASSUME NEW R \in SUBSET Report
             PROVE  Count(to_b', Requests(R)) + Count(to_a', Answers(R)) + Count(signing', R)
                      + Holding(b_pending', R) + Holding(b_ready', R)
                    <= Count(to_b, Requests(R)) + Count(to_a, Answers(R)) + Count(signing, R)
                         + Holding(b_pending, R) + Holding(b_ready, R)
  BY <1>0, MovesWhen
<1>n. /\ Count(to_b, Requests(R)) \in Nat /\ Count(to_a, Answers(R)) \in Nat
      /\ Count(signing, R) \in Nat
      /\ Holding(b_pending, R) \in 0 .. 1 /\ Holding(b_ready, R) \in 0 .. 1
  BY <1>0, CopiesAre
<1>1. CASE HostTask
  <2>1. /\ b_pending # None /\ b_pending' = None /\ signing' = Append(signing, b_pending)
        /\ UNCHANGED <<to_b, b_ready>>
    BY <1>1 DEF HostTask
  <2>2. Count(signing', R) = IF b_pending \in R THEN Count(signing, R) + 1 ELSE Count(signing, R)
    BY <1>0, <2>1, CountAppend
  <2> QED BY <1>0, <1>n, <2>1, <2>2 DEF Holding
<1>2. CASE ReportReceived
  <2>1. /\ signing # <<>> /\ signing' = Tail(signing)
        /\ b_ready' = IF b_ready = None THEN Head(signing) ELSE b_ready
        /\ UNCHANGED <<to_b, b_pending>>
    BY <1>2 DEF ReportReceived
  <2>2. Count(signing', R) = IF Head(signing) \in R THEN Count(signing, R) - 1 ELSE Count(signing, R)
    BY <1>0, <2>1, CountTail
  <2> QED BY <1>0, <1>n, <2>1, <2>2 DEF Holding
<1>3. CASE BReceive
  <2>1. /\ to_b # <<>> /\ to_b' = Tail(to_b) /\ b_pending' = Head(to_b).report
        /\ UNCHANGED <<signing, b_ready>>
    BY <1>3 DEF BReceive
  <2>2. Count(to_b', Requests(R)) =
          IF Head(to_b) \in Requests(R) THEN Count(to_b, Requests(R)) - 1
          ELSE Count(to_b, Requests(R))
    BY <1>0, <2>1, CountTail
  <2>3. Head(to_b).report \in R => Head(to_b) \in Requests(R)
    <3>1. Head(to_b) \in ToB
      BY <1>0, <2>1, HeadTailProperties
    <3> QED BY <3>1 DEF ToB, Requests, SignReq
  <2> QED BY <1>0, <1>n, <2>1, <2>2, <2>3 DEF Holding
<1>4. CASE DongleUnplug
  <2>1. /\ b_pending' = None /\ b_ready' = None /\ signing' = <<>> /\ to_b' = to_b
        /\ Count(signing', R) = 0
    BY <1>4, CountEmpty DEF DongleUnplug
  <2> QED BY <1>0, <1>n, <2>1 DEF Holding
<1>5. CASE DonglePlug
  <2>1. UNCHANGED <<b_pending, b_ready, signing, to_b>>
    BY <1>5 DEF DonglePlug
  <2> QED BY <1>0, <1>n, <2>1
<1> QED BY <1>1, <1>2, <1>3, <1>4, <1>5

\* A frame that is no answer is sent to the device chip.
LEMMA OtherFrameInv ==
  ASSUME SigningOK, TypeOK', NEW frame \in ToA, \A r : frame # SignResp(r), to_a' = Sent(to_a, frame),
         UNCHANGED <<extra, hash_pending, in_flight, to_b, signing, b_pending, b_ready>>
  PROVE  Moves
<1>0. TypeOK /\ to_a \in Seq(ToA)
  BY DEF SigningOK, TypeOK
<1> SUFFICES ASSUME NEW R \in SUBSET Report
             PROVE  Count(to_a', Answers(R)) = Count(to_a, Answers(R))
  <2>1. \A R \in SUBSET Report :
          /\ Count(to_b, Requests(R)) \in Nat /\ Count(to_a, Answers(R)) \in Nat
          /\ Count(signing, R) \in Nat
          /\ Holding(b_pending, R) \in 0 .. 1 /\ Holding(b_ready, R) \in 0 .. 1
    BY <1>0, CopiesAre
  <2> QED BY <1>0, <2>1, MovesWhen
<1>1. frame \notin Answers(R)
  BY DEF Answers
<1> QED BY <1>0, <1>1, CountSent

\* The host chip tells the presence of the dongle and sends the answer.
LEMMA LinkHostInv ==
  ASSUME SigningOK, TypeOK', NEW tell \in BOOLEAN, LinkHostTask(tell)
  PROVE  Moves
<1> DEFINE told == IF tell THEN Sent(to_a, Presence(b_dongle)) ELSE to_a
<1>0. /\ TypeOK /\ to_a \in Seq(ToA) /\ Len(to_a) <= LinkCap
      /\ b_dongle \in BOOLEAN /\ b_ready \in {None} \union Report
      /\ UNCHANGED <<extra, hash_pending, in_flight, to_b, signing, b_pending>>
      /\ b_ready' = None
      /\ to_a' = IF b_ready = None THEN told ELSE Sent(told, SignResp(b_ready))
  BY DEF SigningOK, TypeOK, LinkHostTask, a_vars, history
<1> SUFFICES ASSUME NEW R \in SUBSET Report
             PROVE  Count(to_a', Answers(R)) <= Count(to_a, Answers(R)) + Holding(b_ready, R)
  <2>1. \A R \in SUBSET Report :
          /\ Count(to_b, Requests(R)) \in Nat /\ Count(to_a, Answers(R)) \in Nat
          /\ Count(to_a', Answers(R)) \in Nat /\ Count(signing, R) \in Nat
          /\ Holding(b_pending, R) \in 0 .. 1 /\ Holding(b_ready, R) \in 0 .. 1
          /\ Holding(b_ready', R) = 0
    BY <1>0, CopiesAre, CopiesAreNext DEF Holding
  <2> HIDE DEF told
  <2> QED BY <1>0, <2>1, MovesWhen
<1>1. Presence(b_dongle) \in ToA /\ Presence(b_dongle) \notin Answers(R)
  BY <1>0, FrameTypes DEF Answers
<1>2. told \in Seq(ToA) /\ Count(told, Answers(R)) = Count(to_a, Answers(R))
  BY <1>0, <1>1, SentIs, CountSent
<1> HIDE DEF told
<1>3. Count(to_a, Answers(R)) \in Nat /\ Holding(b_ready, R) \in 0 .. 1
  BY <1>0, CopiesAre
<1>4. CASE b_ready = None
  BY <1>0, <1>2, <1>3, <1>4
<1>5. CASE b_ready # None
  <2>1. to_a' = Sent(told, SignResp(b_ready)) /\ SignResp(b_ready) \in ToA
    BY <1>0, <1>5, FrameTypes
  <2>2. SignResp(b_ready) \in Answers(R) => b_ready \in R
    BY DEF Answers, SignResp
  <2>3. CASE b_ready \in R
    BY <1>2, <1>3, <1>5, <2>1, <2>3, CountSent DEF Holding
  <2>4. CASE b_ready \notin R
    BY <1>2, <1>3, <2>1, <2>2, <2>4, CountSent
  <2> QED BY <2>3, <2>4
<1> QED BY <1>4, <1>5

\* A damaged frame is gone.
LEMMA CorruptInv == ASSUME SigningOK, TypeOK', Corrupt PROVE Moves
<1>0. /\ TypeOK /\ to_a \in Seq(ToA) /\ to_b \in Seq(ToB)
      /\ UNCHANGED <<extra, hash_pending, in_flight, signing, b_pending, b_ready>>
  BY DEF SigningOK, TypeOK, Corrupt, a_vars, b_vars
<1>1. ASSUME NEW R \in SUBSET Report
      PROVE  /\ Count(to_a, Answers(R)) \in Nat /\ Count(to_b, Requests(R)) \in Nat
             /\ Count(to_a', Answers(R)) <= Count(to_a, Answers(R))
             /\ Count(to_b', Requests(R)) <= Count(to_b, Requests(R))
  <2>1. Count(to_a, Answers(R)) \in Nat /\ Count(to_b, Requests(R)) \in Nat
    BY <1>0, CopiesAre
  <2>2. CASE to_a # <<>> /\ to_a' = Tail(to_a) /\ UNCHANGED to_b
    <3>1. Count(Tail(to_a), Answers(R)) \in {Count(to_a, Answers(R)) - 1, Count(to_a, Answers(R))}
      BY <1>0, <2>2, CountTail
    <3> QED BY <2>1, <2>2, <3>1
  <2>3. CASE to_b # <<>> /\ to_b' = Tail(to_b) /\ UNCHANGED to_a
    <3>1. Count(Tail(to_b), Requests(R))
            \in {Count(to_b, Requests(R)) - 1, Count(to_b, Requests(R))}
      BY <1>0, <2>3, CountTail
    <3> QED BY <2>1, <2>3, <3>1
  <2> QED BY <2>2, <2>3 DEF Corrupt
<1>2. \A R \in SUBSET Report :
        /\ Count(signing, R) \in Nat
        /\ Count(to_a', Answers(R)) \in Nat /\ Count(to_b', Requests(R)) \in Nat
        /\ Holding(b_pending, R) \in 0 .. 1 /\ Holding(b_ready, R) \in 0 .. 1
  BY <1>0, CopiesAre, CopiesAreNext
<1> QED BY <1>0, <1>1, <1>2, MovesWhen

\* What is alive while no report waits, or while one waits that was not asked for
\* yet, is extra.  Stale or not, it may then become stale.
LEMMA AllExtra ==
  ASSUME TypeOK', Alive' <= extra'
  PROVE  OneInFlight'
<1> PICK R \in SUBSET Report : R = Report \ {hash_pending'}
  OBVIOUS
<1>1. Alive' = Copies(Report)' /\ Stale' = Copies(R)'
  BY DEF Alive, Stale, Copies
<1>2. Copies(R)' \in Nat /\ Copies(Report)' \in Nat /\ extra' \in Nat
  BY CopiesAreNext DEF TypeOK
<1>3. /\ Count(to_b', Requests(R)) <= Count(to_b', Requests(Report))
      /\ Count(to_a', Answers(R)) <= Count(to_a', Answers(Report))
      /\ Count(signing', R) <= Count(signing', Report)
  <2>1. Requests(R) \subseteq Requests(Report) /\ Answers(R) \subseteq Answers(Report)
    BY DEF Requests, Answers
  <2> QED BY <2>1, CountMonotone DEF TypeOK
<1>4. /\ Holding(b_pending', R) <= Holding(b_pending', Report)
      /\ Holding(b_ready', R) <= Holding(b_ready', Report)
  BY DEF Holding
<1>5. Copies(R)' <= Copies(Report)'
  BY <1>3, <1>4, CopiesAreNext
<1> QED BY <1>1, <1>2, <1>5 DEF OneInFlight

\* The answer arrives, and the device waits no longer.
LEMMA AReceiveInv == ASSUME SigningOK, TypeOK', AReceive PROVE OneInFlight'
<1>0. /\ TypeOK /\ OneInFlight /\ to_a \in Seq(ToA) /\ to_a # <<>> /\ to_a' = Tail(to_a)
      /\ Head(to_a) \in ToA
      /\ UNCHANGED <<extra, in_flight, to_b, signing, b_pending, b_ready>>
  BY HeadTailProperties DEF SigningOK, TypeOK, AReceive, b_vars, history
<1>1. \A R \in SUBSET Report :
        /\ Count(to_a', Answers(R)) = IF Head(to_a) \in Answers(R)
                                      THEN Count(to_a, Answers(R)) - 1
                                      ELSE Count(to_a, Answers(R))
        /\ Count(to_b, Requests(R)) \in Nat /\ Count(to_a, Answers(R)) \in Nat
        /\ Count(signing, R) \in Nat
        /\ Holding(b_pending, R) \in 0 .. 1 /\ Holding(b_ready, R) \in 0 .. 1
  BY <1>0, CopiesAre, CountTail
<1>r. Report \in SUBSET Report
  OBVIOUS
<1>2. CASE hash_pending' = hash_pending
  <2>1. Moves
    BY <1>0, <1>1, <1>2, MovesWhen
  <2> QED BY <2>1, MovesInv
<1>3. CASE Head(to_a).type = "SIGN_RESP"
  <2>1. Head(to_a) \in Answers(Report)
    BY <1>0, <1>3 DEF ToA, Answers, SignResp
  <2>2. Copies(Report)' = Copies(Report) - 1
    <3>1. Count(to_a', Answers(Report)) = Count(to_a, Answers(Report)) - 1
      BY <1>1, <1>r, <2>1
    <3>2. /\ Holding(b_pending', Report) = Holding(b_pending, Report)
          /\ Holding(b_ready', Report) = Holding(b_ready, Report)
      BY <1>0
    <3> PICK R : R = Report
      OBVIOUS
    <3>3. Copies(R)' = Copies(R) - 1
      <4>1. /\ Copies(R) = Count(to_b, Requests(R)) + Count(to_a, Answers(R)) + Count(signing, R)
                              + Holding(b_pending, R) + Holding(b_ready, R)
            /\ Count(to_b, Requests(R)) \in Nat /\ Count(to_a, Answers(R)) \in Nat
            /\ Count(signing, R) \in Nat
            /\ Holding(b_pending, R) \in Nat /\ Holding(b_ready, R) \in Nat
        BY <1>0, CopiesAre
      <4>2. /\ Copies(R)' = Count(to_b', Requests(R)) + Count(to_a', Answers(R)) + Count(signing', R)
                               + Holding(b_pending', R) + Holding(b_ready', R)
            /\ Count(to_b', Requests(R)) \in Nat
        BY CopiesAreNext
      <4> QED BY <1>0, <3>1, <3>2, <4>1, <4>2
    <3> QED BY <3>3
  <2>3. Alive' <= extra'
    <3>1. Copies(Report) \in Nat /\ extra \in Nat
      BY <1>0, CopiesAre DEF TypeOK
    <3> QED BY <1>0, <2>2, <3>1 DEF Alive, OneInFlight
  <2> QED BY <2>3, AllExtra
<1> QED BY <1>2, <1>3 DEF AReceive

\* A new report waits only when none did.
LEMMA UsbTaskInv == ASSUME SigningOK, TypeOK', UsbTask PROVE OneInFlight'
<1>0. /\ TypeOK /\ OneInFlight
      /\ UNCHANGED <<extra, in_flight, to_a, to_b, signing, b_pending, b_ready>>
  BY DEF SigningOK, UsbTask, b_vars, history
<1>1. \A R \in SUBSET Report : Copies(R)' = Copies(R) /\ Copies(R) \in Nat
  BY <1>0, CopiesAre, CopiesAreNext
<1>2. CASE hash_pending' = hash_pending
  <2>1. Moves
    BY <1>0, <1>1, <1>2 DEF Moves
  <2> QED BY <2>1, MovesInv
<1>3. CASE hash_pending = None
  <2>1. Alive' <= extra'
    <3>1. extra \in Nat
      BY <1>0 DEF TypeOK
    <3> QED BY <1>0, <1>1, <1>3, <3>1 DEF Alive, OneInFlight
  <2> QED BY <2>1, AllExtra
<1> QED BY <1>2, <1>3 DEF UsbTask, PumpSigned, Fold, Build, can_build

\* A request is sent: it is of the report that waits, and it is one copy more.
LEMMA SignRequestInv == ASSUME SigningOK, TypeOK', SignRequest PROVE OneInFlight'
<1>0. /\ TypeOK /\ OneInFlight /\ hash_pending # None /\ in_flight' = TRUE
      /\ hash_pending \in Report /\ in_flight \in BOOLEAN
      /\ to_b \in Seq(ToB)
      /\ to_b' = Sent(to_b, SignReq(hash_pending))
      /\ extra' = IF Alive = 0 THEN 0 ELSE IF in_flight THEN extra + 1 ELSE extra
      /\ UNCHANGED <<hash_pending, to_a, signing, b_pending, b_ready>>
      /\ extra \in Nat
  BY DEF SigningOK, TypeOK, SignRequest, Request, CountRepeat, b_vars
<1> PICK R \in SUBSET Report : R = Report \ {hash_pending}
  OBVIOUS
<1>1. /\ Alive = Copies(Report) /\ Alive' = Copies(Report)'
      /\ Stale = Copies(R) /\ Stale' = Copies(R)'
  BY <1>0 DEF Alive, Stale, Copies
<1>2. SignReq(hash_pending) \in ToB /\ SignReq(hash_pending) \notin Requests(R)
  BY <1>0, FrameTypes DEF Requests, SignReq
<1>3. /\ Count(to_b', Requests(Report)) <= Count(to_b, Requests(Report)) + 1
      /\ Count(to_b', Requests(R)) = Count(to_b, Requests(R))
  BY <1>0, <1>2, CountSent
<1>4. /\ Copies(Report)' <= Copies(Report) + 1 /\ Copies(R)' = Copies(R)
      /\ Copies(Report) \in Nat /\ Copies(Report)' \in Nat /\ Copies(R) \in Nat
  <2>1. Copies(Report)' <= Copies(Report) + 1
    <3> PICK S : S = Report
      OBVIOUS
    <3>1. Count(to_b', Requests(S)) <= Count(to_b, Requests(S)) + 1
      BY <1>3
    <3>2. Copies(S)' <= Copies(S) + 1
      <4>1. /\ Copies(S) = Count(to_b, Requests(S)) + Count(to_a, Answers(S)) + Count(signing, S)
                              + Holding(b_pending, S) + Holding(b_ready, S)
            /\ Count(to_b, Requests(S)) \in Nat /\ Count(to_a, Answers(S)) \in Nat
            /\ Count(signing, S) \in Nat
            /\ Holding(b_pending, S) \in Nat /\ Holding(b_ready, S) \in Nat
        BY <1>0, CopiesAre
      <4>2. /\ Copies(S)' = Count(to_b', Requests(S)) + Count(to_a', Answers(S)) + Count(signing', S)
                               + Holding(b_pending', S) + Holding(b_ready', S)
            /\ Count(to_b', Requests(S)) \in Nat
        BY CopiesAreNext
      <4> QED BY <1>0, <3>1, <4>1, <4>2
    <3> QED BY <3>2
  <2>2. Copies(R)' = Copies(R)
    BY <1>0, <1>3, CopiesAre, CopiesAreNext
  <2>3. Copies(Report) \in Nat /\ Copies(Report)' \in Nat /\ Copies(R) \in Nat
    BY <1>0, CopiesAre, CopiesAreNext
  <2> QED BY <2>1, <2>2, <2>3
<1>5. Copies(R) <= Copies(Report)
  BY <1>0, CopiesMonotone
<1>6. CASE Alive = 0
  BY <1>0, <1>1, <1>4, <1>5, <1>6 DEF OneInFlight
<1>7. CASE Alive # 0
  BY <1>0, <1>1, <1>4, <1>7 DEF OneInFlight
<1> QED BY <1>6, <1>7

LEMMA InitInv == Init => SigningOK
<1> SUFFICES ASSUME Init PROVE OneInFlight
  BY InitType DEF SigningOK
<1>1. TypeOK /\ extra = 0
  BY InitType DEF Init
<1>2. \A R : Copies(R) = 0
  BY <1>1, CountEmpty DEF Init, Copies, Holding
<1> QED BY <1>1, <1>2 DEF OneInFlight, Alive, Stale

LEMMA StepInv == SigningOK /\ [Next]_vars => SigningOK'
<1> SUFFICES ASSUME SigningOK, [Next]_vars PROVE OneInFlight'
  BY StepType DEF SigningOK
<1>0. TypeOK /\ TypeOK' /\ OneInFlight
  BY StepType DEF SigningOK
<1>1. ASSUME NEW p \in Pads, NEW buttons \in Report, PadChange(p, buttons) PROVE Moves
  <2>1. Event(p, buttons) \in ToA /\ \A r : Event(p, buttons) # SignResp(r)
    BY FrameTypes
  <2>2. /\ to_a' = Sent(to_a, Event(p, buttons))
        /\ UNCHANGED <<extra, hash_pending, in_flight, to_b, signing, b_pending, b_ready>>
    BY <1>1 DEF PadChange, a_vars
  <2> QED BY <1>0, <2>1, <2>2, OtherFrameInv
<1>2. CASE Refresh
  <2>1. last_event \in Pads /\ pad[last_event] \in Report
    BY <1>0, <1>2 DEF Refresh, TypeOK
  <2>2. /\ Event(last_event, pad[last_event]) \in ToA
        /\ \A r : Event(last_event, pad[last_event]) # SignResp(r)
    BY <2>1, FrameTypes
  <2>3. /\ to_a' = Sent(to_a, Event(last_event, pad[last_event]))
        /\ UNCHANGED <<extra, hash_pending, in_flight, to_b, signing, b_pending, b_ready>>
    BY <1>2 DEF Refresh, a_vars, b_vars, history
  <2>4. Moves
    BY <1>0, <2>2, <2>3, OtherFrameInv
  <2> QED BY <1>0, <2>4, MovesInv
<1>3. CASE HostTask \/ ReportReceived \/ BReceive \/ DongleUnplug \/ DonglePlug
  BY <1>0, <1>3, HostInv, MovesInv
<1>4. CASE Tell \/ Answer
  <2>1. LinkHostTask(TRUE) \/ LinkHostTask(FALSE)
    BY <1>4 DEF Tell, Answer
  <2> QED BY <1>0, <2>1, LinkHostInv, MovesInv
<1>5. CASE Corrupt
  BY <1>0, <1>5, CorruptInv, MovesInv
<1>6. CASE AReceive
  BY <1>0, <1>6, AReceiveInv
<1>7. CASE UsbTask
  BY <1>0, <1>7, UsbTaskInv
<1>8. CASE SignRequest
  BY <1>0, <1>8, SignRequestInv
<1>9. CASE NoRequest
  <2>1. /\ UNCHANGED <<extra, hash_pending, to_a, to_b, signing, b_pending, b_ready>>
        /\ in_flight' = (hash_pending # None) /\ (hash_pending # None => in_flight)
    BY <1>9 DEF NoRequest, b_vars, history
  <2>2. Alive' = Alive /\ Stale' = Stale
    BY <2>1 DEF Alive, Stale, Copies
  <2>3. (hash_pending' # None /\ in_flight') <=> (hash_pending # None /\ in_flight)
    <3>1. CASE hash_pending = None
      BY <2>1, <3>1
    <3>2. CASE hash_pending # None
      <4>1. in_flight' = TRUE /\ in_flight
        BY <2>1, <3>2, Zenon
      <4> QED BY <2>1, <3>2, <4>1
    <3> QED BY <3>1, <3>2
  <2> QED BY <1>0, <2>1, <2>2, <2>3, Zenon DEF OneInFlight
<1>10. CASE Poll \/ UNCHANGED vars
  <2>1. UNCHANGED <<extra, hash_pending, in_flight, to_a, to_b, signing, b_pending, b_ready>>
    BY <1>10 DEF Poll, vars, a_vars, b_vars, history
  <2>2. Alive' = Alive /\ Stale' = Stale
    BY <2>1 DEF Alive, Stale, Copies
  <2> QED BY <1>0, <2>1, <2>2, Zenon DEF OneInFlight
<1> QED BY <1>0, <1>1, <1>2, <1>3, <1>4, <1>5, <1>6, <1>7, <1>8, <1>9, <1>10, MovesInv DEF Next

\* Over a link that loses frames and a dongle that is pulled, however often the
\* request is repeated: the copies alive of requests and answers are no more
\* than the repeats made while one was alive, and one for the report that the
\* device chip has asked for; and no more than those repeats are of another
\* report (p5general_link.c:72-114).
THEOREM SigningIsSerial == Spec => []SigningOK
<1>1. Init => SigningOK
  BY InitInv
<1>2. SigningOK /\ [Next]_vars => SigningOK'
  BY StepInv
<1> QED BY <1>1, <1>2, PTL DEF Spec
=============================================================================
