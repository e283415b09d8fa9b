--------------------------- MODULE SeqlockSlotProofs ---------------------------
(***************************************************************************)
(* What SeqlockSlot guarantees for every payload, every set of events,     *)
(* every retry bound and every number of publishes: types and the bounded  *)
(* call for any number of producers; whole frames and the refinement of    *)
(* OutputSlot for a single producer whose counter does not wrap.           *)
(***************************************************************************)
EXTENDS SeqlockSlot, FiniteSetTheorems, TLAPS

LEMMA IncType == ASSUME NEW n \in 0 .. SeqMod - 1, NEW k \in Nat
                 PROVE  Inc(n, k) \in 0 .. SeqMod - 1
BY SeqModAssumption DEF Inc

(* Every variable keeps its type, whoever runs router_publish() and         *)
(* router_get_output() and however they interleave.                         *)
THEOREM TypeCorrect == Spec => []TypeOK
<1>1. Init => TypeOK
  BY SeqModAssumption DEF Init, TypeOK, Frame
<1>2. TypeOK /\ [Next]_vars => TypeOK'
  <2> SUFFICES ASSUME TypeOK, [Next]_vars PROVE TypeOK'
    OBVIOUS
  <2> USE DEF TypeOK
  <2>1. ASSUME NEW p \in Producer, LoadSeq(p) PROVE TypeOK'
    BY <2>1 DEF LoadSeq, reader
  <2>2. ASSUME NEW p \in Producer, StoreOdd(p) PROVE TypeOK'
    BY <2>2, IncType DEF StoreOdd, reader
  <2>3. ASSUME NEW p \in Producer, StoreWord(p) PROVE TypeOK'
    BY <2>3 DEF StoreWord, reader
  <2>4. ASSUME NEW p \in Producer, StoreEven(p) PROVE TypeOK'
    <3>1. seq' \in 0 .. SeqMod - 1
      BY <2>4, IncType DEF StoreEven
    <3> QED
      BY <2>4, <3>1 DEF StoreEven, reader
  <2>5. CASE Call
    BY <2>5 DEF Call, writer
  <2>6. CASE FirstOdd
    BY <2>6 DEF FirstOdd, writer, Counted
  <2>7. CASE FirstEven
    BY <2>7 DEF FirstEven, writer
  <2>8. CASE LoadWord
    BY <2>8 DEF LoadWord, writer
  <2>9. CASE SecondSame
    BY <2>9 DEF SecondSame, writer
  <2>10. CASE SecondDiffers
    BY <2>10 DEF SecondDiffers, writer, Counted
  <2>11. CASE UNCHANGED vars
    BY <2>11 DEF vars
  <2> QED
    BY <2>1, <2>2, <2>3, <2>4, <2>5, <2>6, <2>7, <2>8, <2>9, <2>10, <2>11
       DEF Next, Publish, Poll
<1> QED
  BY <1>1, <1>2, PTL DEF Spec

(* The retries counted so far cover the rounds of the loop run so far. *)
LoopInv == /\ rpc = "idle" => loops <= MaxRetry + 1
           /\ rpc = "first" => loops <= tries /\ tries <= MaxRetry
           /\ rpc = "copy" => loops <= tries + 1 /\ tries <= MaxRetry

(* A call of router_get_output() never runs more than MaxRetry + 1 rounds,  *)
(* for any number of producers publishing at any rate.                      *)
THEOREM RetryBounded == Spec => []BoundedRetry
<1>1. Init => LoopInv
  BY RetryAssumption DEF Init, LoopInv
<1>2. TypeOK /\ LoopInv /\ [Next]_vars => LoopInv'
  <2> SUFFICES ASSUME TypeOK, LoopInv, [Next]_vars PROVE LoopInv'
    OBVIOUS
  <2> USE RetryAssumption DEF TypeOK, LoopInv
  <2>1. ASSUME NEW p \in Producer, Publish(p) PROVE LoopInv'
    BY <2>1 DEF Publish, LoadSeq, StoreOdd, StoreWord, StoreEven, reader
  <2>2. CASE Call
    BY <2>2 DEF Call
  <2>3. CASE FirstOdd
    BY <2>3 DEF FirstOdd, Counted, Again
  <2>4. CASE FirstEven
    BY <2>4 DEF FirstEven
  <2>5. CASE LoadWord
    BY <2>5 DEF LoadWord
  <2>6. CASE SecondSame
    BY <2>6 DEF SecondSame
  <2>7. CASE SecondDiffers
    BY <2>7 DEF SecondDiffers, Counted, Again
  <2>8. CASE UNCHANGED vars
    BY <2>8 DEF vars
  <2> QED
    BY <2>1, <2>2, <2>3, <2>4, <2>5, <2>6, <2>7, <2>8 DEF Next, Poll
<1>3. TypeOK /\ LoopInv => BoundedRetry
  BY RetryAssumption DEF TypeOK, LoopInv, BoundedRetry
<1> QED
  BY <1>1, <1>2, <1>3, TypeCorrect, PTL DEF Spec

-------------------------------------------------------------------------------
LEMMA SlotInvInit == Init => SlotInv
BY MaxPublishAssumption
   DEF Init, SlotInv, WriterInv, MemoryInv, ReaderInv, Writing, Frame, Odd

(* While the single producer is not idle nobody else is. *)
LEMMA AloneInPublish ==
    ASSUME SingleWriter, TypeOK, NEW p \in Producer, wpc[p] = "idle",
           LoadSeq(p)
    PROVE  published < MaxPublish
<1>1. {q \in Producer : wpc[q] # "idle"} = {}
  BY DEF SingleWriter
<1>2. Cardinality({q \in Producer : wpc[q] # "idle"}) = 0
  BY <1>1, FS_EmptySet
<1> QED
  BY <1>2 DEF LoadSeq, TypeOK

(* Every step of the producer and of the consumer preserves SlotInv. *)
LEMMA SlotInvStep ==
    ASSUME SingleWriter, NoWrap, TypeOK, TypeOK', SlotInv, [Next]_vars
    PROVE  SlotInv'
<1> USE SeqModAssumption, MaxPublishAssumption
<1> USE DEF SlotInv, Writing
<1>1. ASSUME NEW p \in Producer, LoadSeq(p) PROVE SlotInv'
  <2>1. \A q \in Producer : q = p
    BY DEF SingleWriter
  <2>2. wpc[p] = "idle" /\ published < MaxPublish
    BY <1>1, AloneInPublish DEF LoadSeq
  <2>3. ~Writing /\ ~Writing'
    BY <1>1, <2>1 DEF LoadSeq, TypeOK
  <2>4. WriterInv'
    BY <1>1, <2>1, <2>2, <2>3 DEF LoadSeq, WriterInv, MemoryInv, TypeOK
  <2>5. MemoryInv'
    BY <1>1, <2>3 DEF LoadSeq, MemoryInv, Frame
  <2>6. ReaderInv'
    BY <1>1 DEF LoadSeq, ReaderInv, reader
  <2> QED
    BY <2>4, <2>5, <2>6
<1>2. ASSUME NEW p \in Producer, StoreOdd(p) PROVE SlotInv'
  <2>1. \A q \in Producer : q = p
    BY DEF SingleWriter
  <2>2. /\ ~Writing /\ Writing'
        /\ wseq[p] = 2 * published /\ published < MaxPublish
        /\ seq = 2 * published
    BY <1>2, <2>1 DEF StoreOdd, TypeOK, WriterInv, MemoryInv
  <2>3. seq' = 2 * published + 1
    BY <1>2, <2>2 DEF StoreOdd, Inc, NoWrap, TypeOK
  <2>4. WriterInv'
    BY <1>2, <2>1 DEF StoreOdd, WriterInv, TypeOK
  <2>5. MemoryInv'
    BY <1>2, <2>2, <2>3 DEF StoreOdd, MemoryInv
  <2>6. ReaderInv'
    BY <1>2, <2>2, <2>3 DEF StoreOdd, ReaderInv, reader, TypeOK, Odd
  <2> QED
    BY <2>4, <2>5, <2>6
<1>3. ASSUME NEW p \in Producer, StoreWord(p) PROVE SlotInv'
  <2>1. \A q \in Producer : q = p
    BY DEF SingleWriter
  <2>2. Writing /\ Writing'
    BY <1>3 DEF StoreWord, TypeOK
  <2>3. WriterInv'
    BY <1>3, <2>1 DEF StoreWord, WriterInv, TypeOK
  <2>4. MemoryInv'
    BY <1>3, <2>2 DEF StoreWord, MemoryInv
  <2>5. ReaderInv'
    BY <1>3 DEF StoreWord, ReaderInv, reader
  <2> QED
    BY <2>3, <2>4, <2>5
<1>4. ASSUME NEW p \in Producer, StoreEven(p) PROVE SlotInv'
  <2>1. \A q \in Producer : q = p
    BY DEF SingleWriter
  <2>2. /\ Writing /\ ~Writing'
        /\ wseq[p] = 2 * published /\ published < MaxPublish
        /\ seq = 2 * published + 1
        /\ ev[p] \in Event
    BY <1>4, <2>1 DEF StoreEven, TypeOK, WriterInv, MemoryInv
  <2>3. seq' = 2 * published + 2
    BY <1>4, <2>2 DEF StoreEven, Inc, NoWrap, TypeOK
  <2>4. WriterInv'
    BY <1>4, <2>1 DEF StoreEven, WriterInv, TypeOK
  <2>5. mem' = Frame(ev[p])
    BY <1>4 DEF StoreEven, WriterInv, TypeOK, Frame
  <2>6. MemoryInv'
    BY <1>4, <2>2, <2>3, <2>5 DEF StoreEven, MemoryInv, TypeOK
  <2>7. ReaderInv'
    BY <1>4, <2>2, <2>3 DEF StoreEven, ReaderInv, reader, TypeOK
  <2> QED
    BY <2>4, <2>6, <2>7
<1>5. CASE Call
  BY <1>5 DEF Call, writer, WriterInv, MemoryInv, ReaderInv
<1>6. CASE FirstOdd
  <2>1. rpc' # "copy"
    BY <1>6 DEF FirstOdd
  <2> QED
    BY <1>6, <2>1 DEF FirstOdd, writer, WriterInv, MemoryInv, ReaderInv
<1>7. CASE FirstEven
  <2>1. WriterInv' /\ MemoryInv'
    BY <1>7 DEF FirstEven, writer, WriterInv, MemoryInv
  <2>2. ReaderInv'
    BY <1>7 DEF FirstEven, ReaderInv, TypeOK
  <2> QED
    BY <2>1, <2>2
<1>8. CASE LoadWord
  <2>1. WriterInv' /\ MemoryInv'
    BY <1>8 DEF LoadWord, writer, WriterInv, MemoryInv
  <2>2. ASSUME s1 = seq PROVE mem = Frame(committed)
    <3>1. rpc = "copy" /\ ~Odd(seq)
      BY <1>8, <2>2 DEF LoadWord, ReaderInv
    <3>2. ~Writing
      BY <3>1 DEF MemoryInv, Odd, TypeOK
    <3> QED
      BY <3>2 DEF MemoryInv
  <2>3. ReaderInv'
    BY <1>8, <2>2 DEF LoadWord, ReaderInv, TypeOK, Frame
  <2> QED
    BY <2>1, <2>3
<1>9. CASE SecondSame
  <2>1. WriterInv' /\ MemoryInv'
    BY <1>9 DEF SecondSame, writer, WriterInv, MemoryInv
  <2>2. seq = 2 * published
    BY <1>9 DEF SecondSame, ReaderInv, MemoryInv, Odd, TypeOK
  <2>3. CASE Fresh(s1)
    BY <1>9, <2>1, <2>2, <2>3 DEF SecondSame, ReaderInv, TypeOK
  <2>4. CASE ~Fresh(s1)
    BY <1>9, <2>1, <2>4 DEF SecondSame, ReaderInv
  <2> QED
    BY <2>3, <2>4
<1>10. CASE SecondDiffers
  BY <1>10 DEF SecondDiffers, writer, WriterInv, MemoryInv, ReaderInv
<1>11. CASE UNCHANGED vars
  BY <1>11 DEF vars, WriterInv, MemoryInv, ReaderInv
<1> QED
  BY <1>1, <1>2, <1>3, <1>4, <1>5, <1>6, <1>7, <1>8, <1>9, <1>10, <1>11
     DEF Next, Publish, Poll

(* With a single producer, SlotInv holds throughout. *)
THEOREM SlotInvariant ==
    ASSUME SingleWriter, NoWrap PROVE Spec => []SlotInv
<1>1. TypeOK /\ TypeOK' /\ SlotInv /\ [Next]_vars => SlotInv'
  BY SlotInvStep
<1> QED
  BY <1>1, SlotInvInit, TypeCorrect, PTL DEF Spec

(* With a single producer the slot is consistent in every state, the ones  *)
(* in the middle of a publish or of a poll included.                       *)
THEOREM SlotIsConsistent ==
    ASSUME SingleWriter, NoWrap PROVE Spec => []SlotOK
<1>1. TypeOK /\ SlotInv => SlotOK
  BY DEF SlotOK
<1> QED
  BY <1>1, TypeCorrect, SlotInvariant, PTL

(* A frame that is handed out is the newest completed publish, in full. *)
LEMMA HandedOut ==
    ASSUME TypeOK, SlotInv, SecondSame, Fresh(s1)
    PROVE  /\ out' = Frame(committed)
           /\ taken' = published /\ handed' = handed + 1
           /\ taken # published
           /\ committed \in Event
<1>1. seq = s1 /\ ~Odd(seq) /\ rtodo = {} /\ rpc = "copy"
  BY DEF SecondSame, SlotInv, ReaderInv
<1>2. seq = 2 * published
  BY <1>1 DEF SlotInv, MemoryInv, Odd, TypeOK
<1>3. copy = Frame(committed)
  BY <1>1 DEF SlotInv, ReaderInv, TypeOK, Frame
<1>4. taken # published /\ published # 0
  BY <1>1, <1>2 DEF Fresh, SlotInv, ReaderInv, TypeOK
<1> QED
  BY <1>3, <1>4 DEF SecondSame, SlotInv, MemoryInv

(* Frames are never torn: what the console receives is one published event  *)
(* in full, for every payload size and every interleaving, as long as there *)
(* is one producer (router.h:360-371).                                      *)
THEOREM FramesAreWhole ==
    ASSUME SingleWriter, NoWrap PROVE Spec => []NoTornFrame
<1>1. Init => NoTornFrame
  BY DEF Init, NoTornFrame
<1>2. TypeOK /\ SlotInv /\ NoTornFrame /\ [Next]_vars => NoTornFrame'
  <2> SUFFICES ASSUME TypeOK, SlotInv, NoTornFrame, [Next]_vars
               PROVE  NoTornFrame'
    OBVIOUS
  <2>1. CASE SecondSame /\ Fresh(s1)
    BY <2>1, HandedOut DEF NoTornFrame
  <2>2. CASE SecondSame /\ ~Fresh(s1)
    BY <2>2 DEF SecondSame, NoTornFrame
  <2>3. CASE ~SecondSame
    <3>1. UNCHANGED <<taken, out>>
      BY <2>3 DEF Next, Publish, Poll, vars, reader, LoadSeq, StoreOdd,
         StoreWord, StoreEven, Call, FirstOdd, FirstEven, LoadWord,
         SecondDiffers
    <3> QED
      BY <3>1 DEF NoTornFrame, Frame
  <2> QED
    BY <2>1, <2>2, <2>3
<1> QED
  BY <1>1, <1>2, TypeCorrect, SlotInvariant, PTL DEF Spec

(* The word-by-word slot implements the atomic versioned cell: completing a *)
(* publish is Slot!Publish, a fresh hand-over is Slot!Take, and every other *)
(* step of either core is invisible.                                        *)
THEOREM SlotRefinement ==
    ASSUME SingleWriter, NoWrap PROVE Spec => ImplementsOutputSlot
<1>1. Init => Slot!Init
  BY DEF Init, Slot!Init
<1>2. TypeOK /\ SlotInv /\ [Next]_vars => [Slot!Next]_(Slot!vars)
  <2> SUFFICES ASSUME TypeOK, SlotInv, [Next]_vars
               PROVE  [Slot!Next]_(Slot!vars)
    OBVIOUS
  <2>1. ASSUME NEW p \in Producer, StoreEven(p) PROVE Slot!Next
    <3>1. ev[p] \in Event
      BY <2>1 DEF StoreEven, SlotInv, WriterInv
    <3>2. Slot!Publish
      BY <2>1, <3>1 DEF StoreEven, reader, Slot!Publish
    <3> QED
      BY <3>2 DEF Slot!Next
  <2>2. CASE SecondSame /\ Fresh(s1)
    <3>1. UNCHANGED <<published, committed>>
      BY <2>2 DEF SecondSame
    <3>2. Slot!Take
      BY <2>2, <3>1, HandedOut DEF Slot!Take, Frame
    <3> QED
      BY <3>2 DEF Slot!Next
  <2>3. CASE SecondSame /\ ~Fresh(s1)
    BY <2>3 DEF SecondSame, Slot!vars, Frame
  <2>4. CASE ~SecondSame /\ ~\E p \in Producer : StoreEven(p)
    <3>1. UNCHANGED <<published, committed, taken, out, handed>>
      BY <2>4 DEF Next, Publish, Poll, vars, reader, LoadSeq, StoreOdd,
         StoreWord, Call, FirstOdd, FirstEven, LoadWord, SecondDiffers
    <3> QED
      BY <3>1 DEF Slot!vars, Frame
  <2> QED
    BY <2>1, <2>2, <2>3, <2>4
<1> QED
  BY <1>1, <1>2, TypeCorrect, SlotInvariant, PTL
     DEF Spec, ImplementsOutputSlot, Slot!Spec
===============================================================================
