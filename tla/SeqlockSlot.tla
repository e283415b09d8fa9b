------------------------------ MODULE SeqlockSlot ------------------------------
(***************************************************************************)
(* One slot of router_outputs[][]: router_publish() on the producer side   *)
(* and router_get_output() on the consumer side, at the granularity of the *)
(* single memory accesses the two cores interleave (router.c:247-254 and   *)
(* 1909-1952).  The payload is a set of words, copied one at a time in any *)
(* order, so that a torn frame is a state of the model.                    *)
(*                                                                         *)
(* The fences of the code order the accesses, so memory is sequentially    *)
(* consistent here.  seq is a 32-bit counter in the code and counts modulo *)
(* SeqMod here.                                                            *)
(***************************************************************************)
EXTENDS Integers, FiniteSets

CONSTANTS Producer,   \* the execution contexts that call router_publish()
          Word,       \* the words of the payload
          Event,      \* the events that are published
          Blank,      \* the zeroed event of the static array
          MaxRetry,   \* ROUTER_CONSUME_MAX_RETRY
          SeqMod,     \* 2^32 in the code
          MaxPublish  \* bound on the number of publishes

ASSUME BlankAssumption == Blank \notin Event
ASSUME RetryAssumption == MaxRetry \in Nat
ASSUME SeqModAssumption == SeqMod \in Nat /\ SeqMod > 2 /\ SeqMod % 2 = 0
ASSUME MaxPublishAssumption == MaxPublish \in Nat
ASSUME WordAssumption == Word # {}

VARIABLES seq,       \* output_state_t.seq
          mem,       \* output_state_t.current_state, word by word
          wpc,       \* where each producer is in router_publish()
          wseq,      \* its local copy of seq
          ev,        \* the event it publishes
          wtodo,     \* the words it has not stored yet
          rpc,       \* where the consumer is in router_get_output()
          s1, s2,    \* its two reads of seq
          tries,     \* its retry counter
          copy,      \* router_output_copy[output][player]
          rtodo,     \* the words it has not loaded yet
          last_seq,  \* router_output_last_seq[output][player]
          published, \* history: completed publishes
          committed, \* history: the event of the last completed publish
          taken,     \* history: publishes completed when last handed out
          out,       \* history: the frame handed out last
          handed,    \* history: how often a frame was handed out
          loops      \* history: rounds of the retry loop in this call

writer == <<wpc, wseq, ev, wtodo>>
reader == <<rpc, s1, s2, tries, copy, rtodo, last_seq, taken, out, handed, loops>>
vars == <<seq, mem, wpc, wseq, ev, wtodo, rpc, s1, s2, tries, copy, rtodo,
          last_seq, published, committed, taken, out, handed, loops>>

Frame(e) == [w \in Word |-> e]
Odd(n) == n % 2 = 1
Inc(n, k) == (n + k) % SeqMod

Init == /\ seq = 0
        /\ mem = Frame(Blank)
        /\ wpc = [p \in Producer |-> "idle"]
        /\ wseq = [p \in Producer |-> 0]
        /\ ev = [p \in Producer |-> Blank]
        /\ wtodo = [p \in Producer |-> {}]
        /\ rpc = "idle"
        /\ s1 = 0 /\ s2 \in 0 .. SeqMod - 1
        /\ tries = 0
        /\ copy = Frame(Blank)
        /\ rtodo = {}
        /\ last_seq = 0
        /\ published = 0
        /\ committed = Blank
        /\ taken = 0
        /\ out = Frame(Blank)
        /\ handed = 0
        /\ loops = 0

-------------------------------------------------------------------------------
(* router_publish(), wait-free. *)

(* uint32_t seq = s->seq; *)
LoadSeq(p) == /\ wpc[p] = "idle"
              /\ published + Cardinality({q \in Producer : wpc[q] # "idle"}) < MaxPublish
              /\ \E e \in Event : ev' = [ev EXCEPT ![p] = e]
              /\ wseq' = [wseq EXCEPT ![p] = seq]
              /\ wpc' = [wpc EXCEPT ![p] = "loaded"]
              /\ UNCHANGED <<seq, mem, wtodo, published, committed>>
              /\ UNCHANGED reader

(* Mutant: the payload is stored without the odd bump before it. *)
StoreOddWithoutBump(p) == /\ wpc[p] = "loaded"
                          /\ wtodo' = [wtodo EXCEPT ![p] = Word]
                          /\ wpc' = [wpc EXCEPT ![p] = "writing"]
                          /\ UNCHANGED <<seq, mem, wseq, ev, published, committed>>
                          /\ UNCHANGED reader

(* s->seq = seq + 1; a write is in progress while seq is odd. *)
StoreOdd(p) == /\ wpc[p] = "loaded"
               /\ seq' = Inc(wseq[p], 1)
               /\ wtodo' = [wtodo EXCEPT ![p] = Word]
               /\ wpc' = [wpc EXCEPT ![p] = "writing"]
               /\ UNCHANGED <<mem, wseq, ev, published, committed>>
               /\ UNCHANGED reader

(* s->current_state = *ev; one word of the structure assignment. *)
StoreWord(p) == \E w \in wtodo[p] :
                  /\ wpc[p] = "writing"
                  /\ mem' = [mem EXCEPT ![w] = ev[p]]
                  /\ wtodo' = [wtodo EXCEPT ![p] = @ \ {w}]
                  /\ UNCHANGED <<seq, wpc, wseq, ev, published, committed>>
                  /\ UNCHANGED reader

(* Mutant: the new version is made visible before the payload is complete. *)
StoreEvenEarly(p) == /\ wpc[p] = "writing"
                     /\ wtodo[p] # Word
                     /\ seq' = Inc(wseq[p], 2)
                     /\ wpc' = [wpc EXCEPT ![p] = "idle"]
                     /\ published' = published + 1
                     /\ committed' = ev[p]
                     /\ UNCHANGED <<mem, wseq, ev, wtodo>>
                     /\ UNCHANGED reader

(* s->seq = seq + 2; the new version becomes visible. *)
StoreEven(p) == /\ wpc[p] = "writing"
                /\ wtodo[p] = {}
                /\ seq' = Inc(wseq[p], 2)
                /\ wpc' = [wpc EXCEPT ![p] = "idle"]
                /\ published' = published + 1
                /\ committed' = ev[p]
                /\ UNCHANGED <<mem, wseq, ev, wtodo>>
                /\ UNCHANGED reader

Publish(p) == LoadSeq(p) \/ StoreOdd(p) \/ StoreWord(p) \/ StoreEven(p)

-------------------------------------------------------------------------------
(* router_get_output(), one consumer.                                      *)

(* The call; s2 is an uninitialised local, so it holds any value. *)
Call == /\ rpc = "idle"
        /\ rpc' = "first"
        /\ tries' = 0
        /\ loops' = 0
        /\ s2' \in 0 .. SeqMod - 1
        /\ UNCHANGED <<s1, copy, rtodo, last_seq, taken, out, handed>>
        /\ UNCHANGED <<seq, mem, published, committed>>
        /\ UNCHANGED writer

(* The do-while condition with t retries counted so far: the loop goes on  *)
(* only while the reads differ and the retries, one more, stay in bound.   *)
Again(a, b, t) == a # b /\ t + 1 <= MaxRetry

(* Mutant: a failed copy does not count as a retry. *)
NeverCounted(a, b, t) == t

Counted(a, b, t) == IF a # b THEN t + 1 ELSE t

(* s1 = s->seq with a writer mid-update: count a retry, then `continue'    *)
(* jumps to the loop condition, which reads s2 even if it was never set.   *)
FirstOdd == /\ rpc = "first"
            /\ Odd(seq)
            /\ s1' = seq
            /\ loops' = loops + 1
            /\ IF tries + 1 > MaxRetry
               THEN rpc' = "idle" /\ tries' = tries + 1
               ELSE /\ rpc' = IF Again(seq, s2, tries + 1) THEN "first" ELSE "idle"
                    /\ tries' = Counted(seq, s2, tries + 1)
            /\ UNCHANGED <<s2, copy, rtodo, last_seq, taken, out, handed>>
            /\ UNCHANGED <<seq, mem, published, committed>>
            /\ UNCHANGED writer

(* s1 = s->seq with the slot stable: go on to copy it. *)
FirstEven == /\ rpc = "first"
             /\ ~Odd(seq)
             /\ s1' = seq
             /\ loops' = loops + 1
             /\ rtodo' = Word
             /\ rpc' = "copy"
             /\ UNCHANGED <<s2, tries, copy, last_seq, taken, out, handed>>
             /\ UNCHANGED <<seq, mem, published, committed>>
             /\ UNCHANGED writer

(* One word of router_output_copy = s->current_state. *)
LoadWord == \E w \in rtodo :
              /\ rpc = "copy"
              /\ copy' = [copy EXCEPT ![w] = mem[w]]
              /\ rtodo' = rtodo \ {w}
              /\ UNCHANGED <<rpc, s1, s2, tries, last_seq, taken, out, handed, loops>>
              /\ UNCHANGED <<seq, mem, published, committed>>
              /\ UNCHANGED writer

(* Mutants: the version handed out last is not remembered; only a change of *)
(* seq by one publish counts as new.                                        *)
AlwaysFresh(n) == n # 0
FreshIfNext(n) == n = last_seq + 2

(* Edge detection after two equal reads: version 0 is "no data yet" and    *)
(* the version handed out last is not handed out again.                    *)
Fresh(n) == n # 0 /\ n # last_seq

(* s2 = s->seq equal to s1: hand out the copy, or NULL if it is not new. *)
SecondSame == /\ rpc = "copy" /\ rtodo = {}
              /\ seq = s1
              /\ s2' = seq
              /\ rpc' = "idle"
              /\ IF Fresh(s1)
                 THEN /\ last_seq' = s1 /\ taken' = published
                      /\ out' = copy /\ handed' = handed + 1
                 ELSE UNCHANGED <<last_seq, taken, out, handed>>
              /\ UNCHANGED <<s1, tries, copy, rtodo, loops>>
              /\ UNCHANGED <<seq, mem, published, committed>>
              /\ UNCHANGED writer

(* s2 = s->seq differs: the copy may be torn, so try again or give up. *)
SecondDiffers == /\ rpc = "copy" /\ rtodo = {}
                 /\ seq # s1
                 /\ s2' = seq
                 /\ tries' = Counted(s1, seq, tries)
                 /\ rpc' = IF Again(s1, seq, tries) THEN "first" ELSE "idle"
                 /\ UNCHANGED <<s1, copy, rtodo, last_seq, taken, out, handed, loops>>
                 /\ UNCHANGED <<seq, mem, published, committed>>
                 /\ UNCHANGED writer

Poll == Call \/ FirstOdd \/ FirstEven \/ LoadWord \/ SecondSame \/ SecondDiffers

Next == Poll \/ \E p \in Producer : Publish(p)

Spec == Init /\ [][Next]_vars

(* The console loop polls for ever and a publish, once begun, runs to its  *)
(* end; nothing forces the producer to begin one.                          *)
Fairness == /\ WF_vars(Poll)
            /\ \A p \in Producer : WF_vars(StoreOdd(p) \/ StoreWord(p) \/ StoreEven(p))

LiveSpec == Spec /\ Fairness

-------------------------------------------------------------------------------
(* "Single writer per slot" (router.h:368): all submits run in one     *)
(* context, as they do on core 0 of an RP2040.                             *)
SingleWriter == \A p, q \in Producer : p = q

(* The counter does not come round within the bound. *)
NoWrap == 2 * MaxPublish < SeqMod

(* The inductive invariant behind the two safety properties: seq is twice  *)
(* the number of completed publishes plus one while a write is in progress, *)
(* the words already stored are the new event's, and a consumer whose first *)
(* read of seq still holds has copied words of the committed event only.    *)
WriterInv ==
    \A p \in Producer : wpc[p] # "idle" =>
        /\ published < MaxPublish
        /\ wseq[p] = 2 * published
        /\ ev[p] \in Event
        /\ wpc[p] = "writing" => \A w \in Word \ wtodo[p] : mem[w] = ev[p]

Writing == \E p \in Producer : wpc[p] = "writing"

MemoryInv == /\ published <= MaxPublish
             /\ published # 0 => committed \in Event
             /\ Writing => seq = 2 * published + 1
             /\ ~Writing => seq = 2 * published /\ mem = Frame(committed)

ReaderInv == /\ last_seq = 2 * taken
             /\ taken <= published
             /\ rpc = "copy" =>
                  /\ ~Odd(s1)
                  /\ s1 <= seq
                  /\ s1 = seq => \A w \in Word \ rtodo : copy[w] = committed

SlotInv == WriterInv /\ MemoryInv /\ ReaderInv

(* Properties.                                                             *)

TypeOK == /\ seq \in 0 .. SeqMod - 1
          /\ mem \in [Word -> Event \cup {Blank}]
          /\ wpc \in [Producer -> {"idle", "loaded", "writing"}]
          /\ wseq \in [Producer -> 0 .. SeqMod - 1]
          /\ ev \in [Producer -> Event \cup {Blank}]
          /\ wtodo \in [Producer -> SUBSET Word]
          /\ rpc \in {"idle", "first", "copy"}
          /\ s1 \in 0 .. SeqMod - 1
          /\ s2 \in 0 .. SeqMod - 1
          /\ tries \in Nat
          /\ copy \in [Word -> Event \cup {Blank}]
          /\ rtodo \in SUBSET Word
          /\ last_seq \in 0 .. SeqMod - 1
          /\ published \in Nat
          /\ committed \in Event \cup {Blank}
          /\ taken \in Nat
          /\ out \in [Word -> Event \cup {Blank}]
          /\ handed \in Nat
          /\ loops \in Nat

(* The types, and the inductive invariant of the two sides: version, words *)
(* in memory and words copied fit together after every memory access.      *)
SlotOK == TypeOK /\ SlotInv

(* A frame handed to the console is one published event in full, never a   *)
(* mix of two: "a torn attempt is simply overwritten by the next try and   *)
(* never returned" (router.c:1926-1927).                                   *)
NoTornFrame == taken # 0 => \E e \in Event : out = Frame(e)

(* router_get_output() cannot stall the console core: whatever the producer *)
(* does during the call, the retry loop runs at most MaxRetry + 1 times     *)
(* (router.c:1923-1926).                                                      *)
BoundedRetry == loops <= MaxRetry + 1

(* The slot behaves as an atomic versioned cell: every hand-over happens at *)
(* one instant inside the call, is the newest completed publish, and each   *)
(* version is handed out at most once (router.c:1909-1912).                 *)
Slot == INSTANCE OutputSlot WITH Event <- {Frame(e) : e \in Event},
                                 Blank <- Frame(Blank),
                                 version <- published,
                                 value <- Frame(committed)
ImplementsOutputSlot == Slot!Spec

(* A published event reaches the console unless a newer one does: the give- *)
(* up path of the consumer never loses the last state of a controller that  *)
(* then stays silent.                                                       *)
EveryEventSeenOrSuperseded ==
    \A n \in 1 .. MaxPublish : (published = n) ~> (taken >= n)
===============================================================================
