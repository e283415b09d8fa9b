----------------------------- MODULE ComboHoldProofs -----------------------------
(***************************************************************************)
(* The built-in hotkeys for any number of controllers, announced or not,   *)
(* any hold time, live remaps included, and any run that starts after      *)
(* clock 0 and is shorter than the clock's period.                         *)
(***************************************************************************)
EXTENDS ComboHold, TLAPS

(* The built-in combos, and a clock that neither is 0 nor comes round. *)
BuiltIn == DefaultCombos /\ Start > 0 /\ MaxTime < ClockMod

(* The clock has not wrapped and presses and stamps lie in the past. *)
TimeInv == /\ now >= 1 /\ now < ClockMod
           /\ held_since <= now
           /\ \A d \in Dev : press[d] <= now

(* A press that has run the action still owns the entry, latched, and an   *)
(* entry whose owner has run stays latched even when the hold is stale.    *)
RunInv == \A d \in Dev :
             /\ runs[d] <= 1
             /\ press[d] # Never /\ runs[d] = 1
                  => held_since # 0 /\ held_dev = d /\ fired
             /\ runs[d] = 1 /\ held_since # 0 /\ held_dev = d => fired

HoldInv == /\ TypeOK /\ TimeInv /\ HoldIsLive
           /\ (held_since = 0 => held_dev = NoDev /\ ~fired)
           /\ RunInv
           /\ HoldRespected

LEMMA ClockIsNow == ASSUME TimeInv, now \in Nat PROVE Clock = now /\ Stamp = now
BY TimeAssumption DEF TimeInv, Clock, Stamp

(* What the hold test says while the clock has not wrapped. *)
LEMMA ElapsedMeans == ASSUME TimeInv, now \in Nat, NEW s \in Nat, s <= now
                      PROVE  Elapsed(s) <=> s # 0 /\ now - s >= Hold
BY TimeAssumption, ClockIsNow DEF TimeInv, Elapsed

LEMMA HoldInit == ASSUME BuiltIn, Init PROVE HoldInv
<1> USE TimeAssumption, DevAssumption DEF Init, BuiltIn
<1>1. TypeOK
  <2>1. fired \in BOOLEAN /\ mapping \in BOOLEAN /\ stale \in BOOLEAN
    OBVIOUS
  <2>2. press \in [Dev -> Int] /\ runs \in [Dev -> Nat]
    BY DEF Never
  <2> QED
    BY <2>1, <2>2 DEF TypeOK
<1>2. TimeInv
  BY DEF TimeInv, Never
<1>3. HoldIsLive /\ RunInv /\ HoldRespected
  BY DEF HoldIsLive, RunInv, HoldRespected, Never
<1> QED
  BY <1>1, <1>2, <1>3 DEF HoldInv

LEMMA CheckedInv == ASSUME BuiltIn, HoldInv, NEW d \in Dev, NEW held \in BOOLEAN,
                           Checked(d, held)
                    PROVE  HoldInv'
<1> USE TimeAssumption, DevAssumption
<1>0. /\ now \in Nat /\ now' = now /\ mapping' = mapping /\ held_since \in Nat
      /\ press \in [Dev -> Int] /\ runs \in [Dev -> Nat]
      /\ press' = [press EXCEPT ![d] = Pressing(d, held)]
      /\ DefaultCombos /\ (held_since = 0 \/ held_dev = d)
  BY DEF Checked, Finger, OthersHold, HoldInv, TypeOK, BuiltIn
<1>1. Clock = now /\ Stamp = now /\ now >= 1
  BY <1>0, ClockIsNow DEF HoldInv, TimeInv
<1> DEFINE since == SinceNow(held)
<1>2. /\ since \in Nat /\ since <= now
      /\ since = IF held /\ held_since = 0 THEN now ELSE held_since
  BY <1>0, <1>1 DEF SinceNow, HoldInv, TimeInv
<1>3. Processed(held) <=> since # 0 /\ now - since >= Hold /\ (held \/ ~fired)
  BY <1>0, <1>2, ElapsedMeans DEF Processed, HoldInv
<1>4. Processed(held) => /\ held_since # 0 /\ since = held_since /\ held_dev = d
                         /\ ~stale => press[d] # Never /\ press[d] <= held_since
  BY <1>0, <1>2, <1>3 DEF HoldInv, HoldIsLive
<1>5. TypeOK' /\ HoldRespected'
  <2>0. fired' \in BOOLEAN /\ stale' \in BOOLEAN /\ stale \in BOOLEAN
    BY DEF Checked, Settle, HoldInv, TypeOK
  <2>1. held_since' \in 0 .. ClockMod /\ held_dev' \in Dev \cup {NoDev}
    BY <1>2 DEF Checked, Settle, HoldInv, TypeOK, TimeInv
  <2>2. press' \in [Dev -> Int]
    BY <1>0 DEF Pressing, Never
  <2>3. runs' \in [Dev -> Nat]
    BY <1>0 DEF Checked, RunsSoFar
  <2>4. CASE Processed(held)
    <3> DEFINE t == now - (IF press[d] = Never THEN now ELSE press[d])
    <3>1. lastRun' = [by |-> d, stale |-> stale, heldFor |-> t]
      BY <1>4, <2>4 DEF Checked
    <3>2. t \in Int /\ (~stale => t >= Hold)
      BY <1>0, <1>3, <1>4, <2>4
    <3> QED
      BY <1>0, <2>0, <2>1, <2>2, <2>3, <3>1, <3>2 DEF TypeOK, HoldRespected, HoldInv
  <2>5. CASE ~Processed(held)
    BY <1>0, <2>0, <2>1, <2>2, <2>3, <2>5 DEF Checked, TypeOK, HoldRespected, HoldInv
  <2> QED
    BY <2>4, <2>5
<1>6. TimeInv'
  BY <1>0, <1>1, <1>2 DEF Checked, Settle, Pressing, HoldInv, TimeInv, Never
<1>7. HoldIsLive'
  <2>1. CASE held
    <3>1. held_since' = since /\ held_since' # 0 /\ held_dev' = d
      BY <1>0, <1>1, <1>2, <2>1 DEF Checked, Settle
    <3>2. press'[d] = IF press[d] = Never THEN now ELSE press[d]
      BY <1>0, <2>1 DEF Pressing
    <3>3. stale' = stale /\ stale \in BOOLEAN
      BY <2>1 DEF Checked, HoldInv, TypeOK
    <3>4. press[d] # Never => press[d] <= now
      BY DEF HoldInv, TimeInv
    <3>5. press[d] \in Int /\ press'[d] # Never /\ press'[d] <= now
      BY <1>0, <1>1, <3>2, <3>4 DEF Never
    <3>6. ASSUME ~stale PROVE press'[d] <= since
      <4>1. CASE held_since = 0
        BY <1>2, <2>1, <3>5, <4>1
      <4>2. CASE held_since # 0
        <5>1. held_dev = d /\ since = held_since
          BY <1>0, <1>2, <4>2
        <5>2. press[d] # Never /\ press[d] <= held_since
          BY <3>6, <4>2, <5>1 DEF HoldInv, HoldIsLive
        <5> QED
          BY <3>2, <5>1, <5>2
      <4> QED
        BY <4>1, <4>2
    <3> QED
      BY <3>1, <3>3, <3>5, <3>6 DEF HoldIsLive
  <2>2. CASE ~held
    BY <2>2 DEF Checked, Settle, HoldIsLive
  <2> QED
    BY <2>1, <2>2
<1>8. (held_since' = 0 => held_dev' = NoDev /\ ~fired')
  BY <1>0, <1>1, <1>2 DEF Checked, Settle, HoldInv
<1>9. RunInv'
  <2> SUFFICES ASSUME NEW e \in Dev
               PROVE  /\ runs'[e] <= 1
                      /\ press'[e] # Never /\ runs'[e] = 1
                           => held_since' # 0 /\ held_dev' = e /\ fired'
                      /\ runs'[e] = 1 /\ held_since' # 0 /\ held_dev' = e => fired'
    BY DEF RunInv
  <2> DEFINE acts == Processed(held) /\ ~fired
  <2>1. runs' = [runs EXCEPT ![d] = RunsSoFar(d, held) + IF acts THEN 1 ELSE 0]
    BY DEF Checked
  <2>2. CASE e # d
    <3>1. runs'[e] = runs[e] /\ press'[e] = press[e]
      BY <1>0, <2>1, <2>2
    <3>2. runs[e] <= 1 /\ ~(press[e] # Never /\ runs[e] = 1)
      BY <1>0, <2>2 DEF HoldInv, RunInv
    <3>3. held_dev' \in {d, NoDev, held_dev} /\ held_dev \in {d, NoDev}
      BY <1>0 DEF Checked, Settle, HoldInv
    <3> QED
      BY <2>2, <3>1, <3>2, <3>3
  <2>3. CASE e = d /\ held
    <3>1. held_since' # 0 /\ held_dev' = d
      BY <1>0, <1>1, <1>2, <2>3 DEF Checked, Settle
    <3>2. runs'[d] = (IF press[d] = Never THEN 0 ELSE runs[d]) + IF acts THEN 1 ELSE 0
      BY <1>0, <2>1, <2>3 DEF RunsSoFar, NewPress
    <3>3. acts => runs[d] = 0
      BY <1>0, <1>4 DEF HoldInv, RunInv
    <3>4. fired \/ Processed(held) => fired'
      BY <2>3 DEF Checked, Settle
    <3>5. press[d] # Never /\ runs[d] = 1 => fired
      BY DEF HoldInv, RunInv
    <3>6. runs'[d] = 1 => fired'
      BY <1>0, <3>2, <3>4, <3>5
    <3>7. runs'[d] <= 1
      BY <1>0, <3>2, <3>3 DEF HoldInv, RunInv
    <3> QED
      BY <2>3, <3>1, <3>6, <3>7
  <2>4. CASE e = d /\ ~held
    <3>1. press'[d] = Never
      BY <1>0, <2>4 DEF Pressing
    <3>2. runs'[d] = runs[d] + IF acts THEN 1 ELSE 0
      BY <1>0, <2>1, <2>4 DEF RunsSoFar, NewPress
    <3>3. acts => runs[d] = 0
      BY <1>0, <1>4 DEF HoldInv, RunInv
    <3>4. held_since' = 0
      BY <2>4 DEF Checked, Settle
    <3> QED
      BY <1>0, <2>4, <3>1, <3>2, <3>3, <3>4 DEF HoldInv, RunInv
  <2> QED
    BY <2>2, <2>3, <2>4
<1> QED
  BY <1>0, <1>5, <1>6, <1>7, <1>8, <1>9 DEF HoldInv

LEMMA IgnoredInv == ASSUME BuiltIn, HoldInv, NEW d \in Dev, NEW held \in BOOLEAN,
                           Ignored(d, held)
                    PROVE  HoldInv'
<1> USE TimeAssumption, DevAssumption
<1>1. /\ held_since # 0 /\ held_dev # d /\ held_dev \in Dev
      /\ UNCHANGED <<now, mapping, held_since, held_dev, fired, stale, lastRun>>
      /\ press' = [press EXCEPT ![d] = Pressing(d, held)]
      /\ runs' = [runs EXCEPT ![d] = RunsSoFar(d, held)]
      /\ press \in [Dev -> Int] /\ runs \in [Dev -> Nat] /\ now \in Nat
  BY DEF Ignored, OthersHold, Finger, HoldInv, HoldIsLive, TypeOK
<1>2. Pressing(d, held) \in Int /\ Pressing(d, held) <= now
  BY <1>1 DEF Pressing, Never, HoldInv, TimeInv
<1>3. TypeOK'
  BY <1>1, <1>2 DEF HoldInv, TypeOK, RunsSoFar
<1>4. TimeInv'
  BY <1>1, <1>2 DEF HoldInv, TimeInv
<1>5. HoldIsLive' /\ HoldRespected'
  BY <1>1 DEF HoldInv, HoldIsLive, HoldRespected
<1>6. RunInv'
  <2>1. runs[d] <= 1 /\ ~(press[d] # Never /\ runs[d] = 1)
    BY <1>1 DEF HoldInv, RunInv
  <2>2. runs'[d] <= 1 /\ ~(press'[d] # Never /\ runs'[d] = 1)
    BY <1>1, <2>1 DEF RunsSoFar, NewPress, Pressing
  <2> QED
    BY <1>1, <2>2 DEF HoldInv, RunInv
<1> QED
  BY <1>1, <1>3, <1>4, <1>5, <1>6 DEF HoldInv

LEMMA DisconnectInv == ASSUME BuiltIn, HoldInv, NEW d \in Dev, Disconnect(d)
                       PROVE  HoldInv'
<1> USE TimeAssumption, DevAssumption DEF Never
<1>1. /\ press' = [press EXCEPT ![d] = Never]
      /\ UNCHANGED <<now, mapping, runs, lastRun>>
      /\ IF held_dev = d
         THEN held_since' = 0 /\ held_dev' = NoDev /\ fired' = FALSE /\ stale' = FALSE
         ELSE UNCHANGED <<held_since, held_dev, fired, stale>>
      /\ press \in [Dev -> Int] /\ runs \in [Dev -> Nat] /\ now \in Nat
  BY DEF Disconnect, entry, HoldInv, TypeOK
<1>2. TypeOK'
  <2>1. fired' \in BOOLEAN /\ mapping' \in BOOLEAN /\ stale' \in BOOLEAN
    BY <1>1 DEF HoldInv, TypeOK
  <2>2. press' \in [Dev -> Int]
    BY <1>1
  <2> QED
    BY <1>1, <2>1, <2>2 DEF HoldInv, TypeOK
<1>3. TimeInv'
  BY <1>1 DEF HoldInv, TimeInv
<1>4. HoldIsLive' /\ HoldRespected'
  BY <1>1 DEF HoldInv, HoldIsLive, HoldRespected
<1>5. RunInv'
  BY <1>1 DEF HoldInv, RunInv
<1> QED
  BY <1>1, <1>2, <1>3, <1>4, <1>5 DEF HoldInv

(* An event or a departure the combos never hear of moves the finger and   *)
(* may make the hold stale; the entry stays as it is.                      *)
LEMMA UnheardInv ==
    ASSUME HoldInv, NEW d \in Dev, NEW held \in BOOLEAN,
           Frozen(d, held) \/ (Unplug(d) /\ ~held)
    PROVE  HoldInv'
<1> USE TimeAssumption, DevAssumption
<1>1. /\ UNCHANGED <<now, mapping, held_since, held_dev, fired, lastRun>>
      /\ press' = [press EXCEPT ![d] = Pressing(d, held)]
      /\ runs' = runs \/ runs' = [runs EXCEPT ![d] = RunsSoFar(d, held)]
      /\ held => runs' = [runs EXCEPT ![d] = RunsSoFar(d, held)]
      /\ press \in [Dev -> Int] /\ runs \in [Dev -> Nat] /\ now \in Nat
  BY DEF Frozen, Unplug, Finger, Pressing, entry, HoldInv, TypeOK
<1>2. /\ stale' = (stale \/ (~held /\ held_dev = d))
      /\ stale \in BOOLEAN
  BY DEF Frozen, Unplug, HoldInv, TypeOK
<1>3. Pressing(d, held) \in Int /\ Pressing(d, held) <= now
  BY <1>1 DEF Pressing, Never, HoldInv, TimeInv
<1>4. TypeOK'
  <2>1. fired' \in BOOLEAN /\ mapping' \in BOOLEAN /\ stale' \in BOOLEAN
    BY <1>1, <1>2 DEF HoldInv, TypeOK
  <2>2. press' \in [Dev -> Int] /\ runs' \in [Dev -> Nat]
    BY <1>1, <1>3 DEF RunsSoFar
  <2> QED
    BY <1>1, <2>1, <2>2 DEF HoldInv, TypeOK
<1>5. TimeInv'
  BY <1>1, <1>3 DEF HoldInv, TimeInv
<1>6. HoldIsLive'
  <2>1. ASSUME held_since # 0, ~stale' PROVE ~stale /\ (held \/ held_dev # d)
    BY <1>2, <2>1
  <2>2. ASSUME held_since # 0, ~stale' PROVE press'[held_dev] = press[held_dev]
    BY <1>1, <2>1, <2>2 DEF HoldInv, HoldIsLive, Pressing
  <2> QED
    BY <1>1, <2>1, <2>2 DEF HoldInv, HoldIsLive
<1>7. RunInv'
  <2>1. held /\ press[d] = Never => runs'[d] = 0
    BY <1>1 DEF RunsSoFar, NewPress
  <2>2. ~held => press'[d] = Never
    BY <1>1 DEF Pressing
  <2>3. ~(held /\ press[d] = Never) => runs'[d] = runs[d]
    BY <1>1 DEF RunsSoFar, NewPress
  <2>4. \A e \in Dev : e # d => runs'[e] = runs[e] /\ press'[e] = press[e]
    BY <1>1
  <2> QED
    BY <1>1, <2>1, <2>2, <2>3, <2>4 DEF HoldInv, RunInv
<1> QED
  BY <1>1, <1>4, <1>5, <1>6, <1>7 DEF HoldInv, HoldRespected

LEMMA HoldStep == ASSUME BuiltIn, HoldInv, [Next]_vars PROVE HoldInv'
<1>1. CASE Tick
  <2>1. /\ now \in Nat /\ now' = now + 1 /\ now < MaxTime
        /\ UNCHANGED <<held_since, held_dev, fired, mapping, press, runs, stale, lastRun>>
    BY <1>1, TimeAssumption DEF Tick, HoldInv, TypeOK
  <2>2. TypeOK' /\ TimeInv'
    BY <2>1, TimeAssumption DEF HoldInv, TypeOK, TimeInv, BuiltIn
  <2> QED
    BY <2>1, <2>2 DEF HoldInv, HoldIsLive, HoldRespected, RunInv
<1>2. CASE UNCHANGED vars
  BY <1>2 DEF vars, HoldInv, TypeOK, TimeInv, HoldIsLive, HoldRespected, RunInv
<1>3. ASSUME NEW d \in Dev, NEW held \in BOOLEAN, Event(d, held) PROVE HoldInv'
  BY <1>3, CheckedInv, IgnoredInv, UnheardInv DEF Event
<1>4. ASSUME NEW d \in Dev, Unplug(d) PROVE HoldInv'
  BY <1>4, UnheardInv
<1>5. CASE Remap
  <2>1. mapping' \in BOOLEAN
    BY <1>5 DEF Remap
  <2>2. UNCHANGED <<now, held_since, held_dev, fired, press, runs, stale, lastRun>>
    BY <1>5 DEF Remap
  <2> QED
    BY <2>1, <2>2 DEF HoldInv, TypeOK, TimeInv, HoldIsLive, HoldRespected, RunInv
<1> QED
  BY <1>1, <1>2, <1>3, <1>4, <1>5, DisconnectInv DEF Next

(* A built-in hotkey never acts on, nor takes from the game, a press that  *)
(* its device has not held for the full time, unless the hold is stale.    *)
THEOREM HoldIsRespected == ASSUME BuiltIn PROVE Spec => []HoldRespected
<1>1. Init => HoldInv
  BY HoldInit
<1>2. HoldInv /\ [Next]_vars => HoldInv'
  BY HoldStep
<1> QED
  BY <1>1, <1>2, PTL DEF Spec, HoldInv

(* One press runs the action at most once, whatever events the other       *)
(* controllers send in between.                                            *)
THEOREM RunsOncePerPress == ASSUME BuiltIn PROVE Spec => []OneRunPerPress
<1>1. Init => HoldInv
  BY HoldInit
<1>2. HoldInv /\ [Next]_vars => HoldInv'
  BY HoldStep
<1>3. HoldInv => OneRunPerPress
  BY DEF HoldInv, RunInv, OneRunPerPress
<1> QED
  BY <1>1, <1>2, <1>3, PTL DEF Spec

(* The timer of the entry belongs to a controller that is still pressing,  *)
(* unless that one left unannounced or let go during a remap.              *)
THEOREM ComboIsConsistent == ASSUME BuiltIn PROVE Spec => []ComboOK
<1>1. Init => HoldInv
  BY HoldInit
<1>2. HoldInv /\ [Next]_vars => HoldInv'
  BY HoldStep
<1>3. HoldInv => ComboOK
  BY DEF HoldInv, ComboOK
<1> QED
  BY <1>1, <1>2, <1>3, PTL DEF Spec

(* A latched hold that is not stale has run the action in its press. *)
LatchInv == fired /\ ~stale => runs[held_dev] > 0

LEMMA FiredOwner == ASSUME HoldInv, fired
                    PROVE  /\ held_since # 0 /\ held_dev \in Dev
                           /\ ~stale => press[held_dev] # Never
BY DEF HoldInv, HoldIsLive

LEMMA LatchStep == ASSUME BuiltIn, HoldInv, LatchInv, [Next]_vars PROVE LatchInv'
<1>1. runs \in [Dev -> Nat] /\ fired \in BOOLEAN /\ stale \in BOOLEAN
  BY DEF HoldInv, TypeOK
<1>2. ASSUME NEW d \in Dev, NEW held \in BOOLEAN, Checked(d, held) PROVE LatchInv'
  <2> DEFINE acts == Processed(held) /\ ~fired
  <2>1. /\ runs' = [runs EXCEPT ![d] = RunsSoFar(d, held) + IF acts THEN 1 ELSE 0]
        /\ Settle(d, held) /\ stale' = (stale /\ held) /\ (held_since = 0 \/ held_dev = d)
    BY <1>2 DEF Checked, OthersHold, BuiltIn
  <2>2. CASE ~held
    <3>1. fired' = FALSE
      BY <2>1, <2>2 DEF Settle
    <3> QED BY <3>1 DEF LatchInv
  <2>3. ASSUME held, fired', ~stale' PROVE runs'[held_dev'] > 0
    <3>1. (fired \/ acts) /\ ~stale
      BY <1>1, <2>1, <2>3 DEF Settle
    <3>2. held_dev' = d
      <4>1. SinceNow(held) # held_since \/ held_dev = d
        <5>1. held_since = 0 => SinceNow(held) # 0
          BY <2>3, ClockIsNow DEF SinceNow, BuiltIn, HoldInv, TypeOK, TimeInv, Stamp
        <5> QED BY <2>1, <5>1
      <4> QED BY <2>1, <2>3, <4>1 DEF Settle
    <3>3. RunsSoFar(d, held) \in Nat
      BY <1>1 DEF RunsSoFar
    <3>4. CASE acts
      <4>1. runs'[d] = RunsSoFar(d, held) + 1
        BY <1>1, <2>1, <3>4
      <4> QED BY <3>2, <3>3, <4>1
    <3>5. CASE fired /\ ~acts
      <4>1. held_dev = d /\ press[d] # Never /\ runs[d] > 0
        BY <2>1, <3>1, <3>5, FiredOwner DEF LatchInv
      <4>2. RunsSoFar(d, held) = runs[d]
        BY <4>1 DEF RunsSoFar, NewPress
      <4>3. runs'[d] = runs[d]
        BY <1>1, <2>1, <3>5, <4>2
      <4> QED BY <3>2, <4>1, <4>3
    <3> QED BY <3>1, <3>4, <3>5
  <2> QED BY <2>2, <2>3 DEF LatchInv
<1>3. ASSUME NEW d \in Dev, NEW held \in BOOLEAN, Ignored(d, held) \/ Frozen(d, held)
      PROVE  LatchInv'
  <2>1. /\ UNCHANGED <<held_dev, fired>>
        /\ runs' = [runs EXCEPT ![d] = RunsSoFar(d, held)]
        /\ stale => stale'
    <3>1. CASE Ignored(d, held)
      BY <3>1, Zenon DEF Ignored
    <3>2. CASE Frozen(d, held)
      BY <3>2, Zenon DEF Frozen
    <3> QED BY <1>3, <3>1, <3>2
  <2>2. ASSUME fired, ~stale' PROVE runs'[held_dev] > 0
    <3>1. ~stale /\ runs[held_dev] > 0 /\ held_dev \in Dev /\ press[held_dev] # Never
      BY <2>1, <2>2, FiredOwner DEF LatchInv
    <3>2. RunsSoFar(d, held) = runs[d] \/ held_dev # d
      BY <3>1 DEF RunsSoFar, NewPress
    <3> QED BY <1>1, <2>1, <3>1, <3>2
  <2> QED BY <2>1, <2>2 DEF LatchInv
<1>4. ASSUME NEW d \in Dev, Disconnect(d) PROVE LatchInv'
  BY <1>4 DEF Disconnect, entry, LatchInv
<1>5. ASSUME NEW d \in Dev, Unplug(d) PROVE LatchInv'
  BY <1>5 DEF Unplug, entry, LatchInv
<1>6. CASE Remap \/ Tick \/ UNCHANGED vars
  BY <1>6 DEF Remap, Tick, vars, LatchInv
<1> QED
  BY <1>2, <1>3, <1>4, <1>5, <1>6 DEF Next, Event

(* A hold that has lasted long enough runs the action at the latest when   *)
(* its owner lets go: a controller that reports changes only loses none.   *)
THEOREM HoldRunsOnRelease == ASSUME BuiltIn PROVE Spec => NoHoldLost
<1> DEFINE Inv == HoldInv /\ LatchInv
           Ran == \A d \in Dev : Checked(d, FALSE) /\ held_dev = d /\ ~stale
                     /\ now - held_since >= Hold => runs'[d] > 0
<1>1. Init => Inv
  BY HoldInit DEF Init, LatchInv
<1>2. Inv /\ [Next]_vars => Inv'
  BY HoldStep, LatchStep
<1>3. Inv /\ [Next]_vars => [Ran]_vars
  <2> SUFFICES ASSUME HoldInv, LatchInv, NEW d \in Dev, Checked(d, FALSE), held_dev = d,
                      ~stale, now - held_since >= Hold
               PROVE  runs'[d] > 0
    OBVIOUS
  <2> DEFINE acts == Processed(FALSE) /\ ~fired
  <2>1. /\ runs \in [Dev -> Nat] /\ now \in Nat /\ held_since \in Nat /\ held_since <= now
        /\ held_since # 0 /\ DefaultCombos
    BY DevAssumption, TimeAssumption DEF HoldInv, TypeOK, TimeInv, BuiltIn
  <2>2. /\ runs' = [runs EXCEPT ![d] = RunsSoFar(d, FALSE) + IF acts THEN 1 ELSE 0]
        /\ RunsSoFar(d, FALSE) = runs[d]
    BY DEF Checked, RunsSoFar, NewPress
  <2>3. runs'[d] = runs[d] + IF acts THEN 1 ELSE 0
    BY <2>1, <2>2
  <2>4. CASE fired
    BY <2>1, <2>3, <2>4 DEF LatchInv
  <2>5. CASE ~fired
    <3>1. SinceNow(FALSE) = held_since /\ Elapsed(held_since)
      BY <2>1, ElapsedMeans DEF SinceNow, HoldInv
    <3>2. Processed(FALSE)
      BY <2>1, <2>5, <3>1 DEF Processed
    <3> QED BY <2>1, <2>3, <2>5, <3>2
  <2> QED BY <2>4, <2>5
<1> HIDE DEF Inv, Ran
<1>4. Spec => [][Ran]_vars
  BY <1>1, <1>2, <1>3, PTL DEF Spec
<1> QED
  BY <1>4 DEF NoHoldLost, Ran
===============================================================================
