-------------------------- MODULE MergeRouterProofs --------------------------
(***************************************************************************)
(* Proofs about merge routing, for any number of controllers, outputs and  *)
(* buttons.  What makes the properties inductive is that they hold of the  *)
(* entries of ghosts as well, and that in ALL a stick is that of somebody  *)
(* who has one also right after a departure.                               *)
(***************************************************************************)
EXTENDS MergeRouter, FiniteSetTheorems, TLAPS

\* There is an entry for every player and for every pad whose departure was not
\* told to the router: otherwise the code publishes what is on the stack.
EntriesSuffice == /\ IsFiniteSet(Wired)
                  /\ MaxPlayers + Cardinality(Wired) <= BlendSize

\* In BLEND the table holds the last event of everybody; else it is not used.
TableInv == IF mode = "BLEND" THEN blend = last ELSE blend = <<>>

\* Stick a of a frame is at rest, or that of somebody who has it.
FromOwner(x, a, table) ==
  x = 0 \/ \E d \in DOMAIN table : a \notin Foreign(d) /\ x = table[d].stick[a]

ShownInv ==
  \A o \in Targets :
    /\ settled \/ o = First =>
         \A b \in published[o].buttons : \E d \in DOMAIN last : b \in last[d].buttons
    /\ mode = "ALL" \/ (mode = "BLEND" /\ settled) =>
         \A a \in Axes : FromOwner(published[o].stick[a], a, last)

\* Nobody in a table is masked by a frame.
Covers(f, table) ==
  \A d \in DOMAIN table :
    /\ table[d].buttons \subseteq f.buttons
    /\ \A a \in Axes \ Foreign(d) : f.stick[a] >= table[d].stick[a]
CoverInv == mode = "BLEND" => Covers(published[First], last)

IInv == TypeOK /\ IsFiniteSet(players) /\ TableInv /\ ShownInv /\ CoverInv
-----------------------------------------------------------------------------
LEMMA MaxIs == ASSUME NEW S \in SUBSET Deflection, 0 \in S
               PROVE  Max(S) \in S /\ \A y \in S : Max(S) >= y
<1>1. \E x \in S : \A y \in S : x >= y
  BY SMT DEF Deflection
<1> QED BY <1>1 DEF Max

LEMMA NeutralIsFrame == Neutral \in Frame
  BY DEF Neutral, Frame, Deflection

LEMMA UnionIs ==
  ASSUME NEW table, \A d \in DOMAIN table : table[d] \in Frame,
         NEW counted \in SUBSET ((DOMAIN table) \X Axes)
  PROVE  /\ Union(table, counted) \in Frame
         /\ \A b : b \in Union(table, counted).buttons <=>
                     \E d \in DOMAIN table : b \in table[d].buttons
         /\ \A a \in Axes :
              /\ \/ Union(table, counted).stick[a] = 0
                 \/ \E d \in DOMAIN table : /\ <<d, a>> \in counted
                                            /\ Union(table, counted).stick[a] = table[d].stick[a]
              /\ \A d \in DOMAIN table : <<d, a>> \in counted =>
                   Union(table, counted).stick[a] >= table[d].stick[a]
<1> DEFINE S(a) == {0} \union {table[d].stick[a] :
                                 d \in {e \in DOMAIN table : <<e, a>> \in counted}}
           u == Union(table, counted)
<1>0. \A d \in DOMAIN table : \A a \in Axes : table[d].stick[a] \in Deflection
  BY DEF Frame
<1>1. \A a \in Axes : S(a) \subseteq Deflection /\ 0 \in S(a)
  <2> 0 \in Deflection
    BY DEF Deflection
  <2> QED BY <1>0, Zenon
<1>2. \A a \in Axes : Max(S(a)) \in S(a) /\ \A y \in S(a) : Max(S(a)) >= y
  <2> HIDE DEF S
  <2> QED BY <1>1, MaxIs
<1>3. /\ u = [buttons |-> UNION {table[d].buttons : d \in DOMAIN table},
              stick |-> [a \in Axes |-> Max(S(a))]]
  BY DEF Union
<1>4. \A a \in Axes : u.stick[a] = Max(S(a))
  <2> HIDE DEF S, u
  <2> QED BY <1>3
<1>5. u.buttons = UNION {table[d].buttons : d \in DOMAIN table}
  <2> HIDE DEF S, u
  <2> QED BY <1>3
<1>6. u \in Frame
  <2>1. \A a \in Axes : Max(S(a)) \in Deflection
    <3> HIDE DEF S
    <3> QED BY <1>1, <1>2
  <2>2. UNION {table[d].buttons : d \in DOMAIN table} \in SUBSET Buttons
    BY DEF Frame
  <2> HIDE DEF S, u
  <2> QED BY <1>3, <2>1, <2>2 DEF Frame
<1>7. \A a \in Axes :
        /\ u.stick[a] = 0 \/ \E d \in DOMAIN table : /\ <<d, a>> \in counted
                                                     /\ u.stick[a] = table[d].stick[a]
        /\ \A d \in DOMAIN table : <<d, a>> \in counted => u.stick[a] >= table[d].stick[a]
  <2> SUFFICES ASSUME NEW a \in Axes
               PROVE  /\ \/ u.stick[a] = 0
                         \/ \E d \in DOMAIN table : /\ <<d, a>> \in counted
                                                    /\ u.stick[a] = table[d].stick[a]
                      /\ \A d \in DOMAIN table : <<d, a>> \in counted =>
                           u.stick[a] >= table[d].stick[a]
    OBVIOUS
  <2>1. u.stick[a] \in S(a) /\ \A y \in S(a) : u.stick[a] >= y
    <3> HIDE DEF S, u
    <3> QED BY <1>2, <1>4
  <2> HIDE DEF u
  <2> QED BY <2>1
<1> HIDE DEF S
<1> QED BY <1>5, <1>6, <1>7
\* What is injected, what a pad reports and what goes out are frames.
LEMMA InjectionIsFrame == Injections \subseteq Frame
<1>1. \A b \in Buttons : [Neutral EXCEPT !.buttons = {b}] \in Frame
  BY NeutralIsFrame DEF Frame, Neutral
<1>2. [Neutral EXCEPT !.stick["left"] = 1] \in Frame
  BY NeutralIsFrame DEF Frame, Neutral, Deflection, Axes
<1> QED BY <1>1, <1>2, NeutralIsFrame DEF Injections

LEMMA OverlayIsFrame == ASSUME inject \in Frame, NEW f \in Frame PROVE Overlay(f) \in Frame
  BY DEF Overlay, Frame

LEMMA EventIsFrame == ASSUME NEW d, NEW f \in Events(d) PROVE f \in Frame
  BY DEF Events, Frame, Deflection

\* Blend and Reblend cover everybody and show nobody else's buttons; Blend takes
\* the sticks of their owners.
LEMMA BlendIs ==
  ASSUME NEW table, \A d \in DOMAIN table : table[d] \in Frame
  PROVE  /\ Blend(table) \in Frame /\ Reblend(table) \in Frame
         /\ Covers(Blend(table), table) /\ Covers(Reblend(table), table)
         /\ \A b \in Blend(table).buttons : \E d \in DOMAIN table : b \in table[d].buttons
         /\ \A b \in Reblend(table).buttons : \E d \in DOMAIN table : b \in table[d].buttons
         /\ \A a \in Axes : FromOwner(Blend(table).stick[a], a, table)
<1> DEFINE all == (DOMAIN table) \X Axes
<1>1. Owned(table) \in SUBSET all /\ all \in SUBSET all
  BY DEF Owned
<1>2. \A d \in DOMAIN table, a \in Axes : <<d, a>> \in Owned(table) <=> a \notin Foreign(d)
  BY DEF Owned
<1>3. Blend(table) \in Frame /\ Covers(Blend(table), table)
  BY <1>1, <1>2, UnionIs DEF Blend, Covers
<1>4. Reblend(table) \in Frame /\ Covers(Reblend(table), table)
  BY <1>1, UnionIs DEF Reblend, Covers
<1>5. \A b \in Blend(table).buttons : \E d \in DOMAIN table : b \in table[d].buttons
  BY <1>1, UnionIs DEF Blend
<1>6. \A b \in Reblend(table).buttons : \E d \in DOMAIN table : b \in table[d].buttons
  BY <1>1, UnionIs DEF Reblend
<1>7. \A a \in Axes : FromOwner(Blend(table).stick[a], a, table)
  <2> SUFFICES ASSUME NEW a \in Axes PROVE FromOwner(Blend(table).stick[a], a, table)
    OBVIOUS
  <2>1. \/ Blend(table).stick[a] = 0
        \/ \E d \in DOMAIN table : /\ <<d, a>> \in Owned(table)
                                   /\ Blend(table).stick[a] = table[d].stick[a]
    BY <1>1, UnionIs DEF Blend
  <2> QED BY <1>2, <2>1 DEF FromOwner
<1> QED BY <1>3, <1>4, <1>5, <1>6, <1>7
-----------------------------------------------------------------------------
LEMMA InitInv == Init => IInv
<1> SUFFICES ASSUME Init PROVE IInv
  OBVIOUS
<1>1. DOMAIN <<>> = {}
  OBVIOUS
<1>2. IsFiniteSet(players) /\ Cardinality(players) = 0
  BY FS_EmptySet DEF Init
<1>3. Neutral \in Injections
  BY DEF Injections
<1>4. TypeOK
  <2>1. published \in [Targets -> Frame]
    BY NeutralIsFrame DEF Init
  <2>2. /\ players = {} /\ ghosts = {} /\ DOMAIN blend = {} /\ DOMAIN last = {}
        /\ mode \in Modes /\ inject \in Injections
        /\ needs_flush \in BOOLEAN /\ recent \in BOOLEAN /\ settled \in BOOLEAN
        /\ left \in BOOLEAN
    BY <1>1, <1>3 DEF Init
  <2> QED BY <1>2, <2>1, <2>2, SizeAssumption DEF TypeOK
<1>5. First \in Targets
  BY OutputAssumption DEF Targets
<1>6. TableInv /\ ShownInv /\ CoverInv
  BY <1>1, <1>5 DEF Init, TableInv, ShownInv, CoverInv, Covers, FromOwner, Neutral
<1> QED BY <1>2, <1>4, <1>6 DEF IInv

\* A player finds an entry of its own, and so does a newcomer.
LEMMA EntryFound ==
  ASSUME EntriesSuffice, IInv, NEW d \in Device, d \in players \/ Room
  PROVE  HasEntry(d)
<1> SUFFICES ASSUME d \notin DOMAIN blend
             PROVE  Cardinality(DOMAIN blend) < BlendSize
  BY DEF HasEntry
<1> DEFINE others == players \ {d}
<1>1. /\ IsFiniteSet(others) /\ Cardinality(others) \in Nat /\ Cardinality(others) < MaxPlayers
  <2>1. IsFiniteSet(players) /\ Cardinality(players) \in Nat /\ Cardinality(players) <= MaxPlayers
    BY FS_CardinalityType DEF IInv, TypeOK
  <2>2. /\ IsFiniteSet(others)
        /\ Cardinality(others) = IF d \in players THEN Cardinality(players) - 1
                                                  ELSE Cardinality(players)
    BY <2>1, FS_RemoveElement
  <2>3. Cardinality(others) \in Nat
    BY <2>2, FS_CardinalityType
  <2> QED BY <2>1, <2>2, <2>3, SizeAssumption DEF Room
<1>2. /\ IsFiniteSet(ghosts) /\ Cardinality(ghosts) \in Nat
      /\ Cardinality(ghosts) <= Cardinality(Wired) /\ Cardinality(Wired) \in Nat
  <2>1. ghosts \in SUBSET Wired /\ IsFiniteSet(Wired)
    BY DEF IInv, TypeOK, EntriesSuffice
  <2> QED BY <2>1, FS_Subset, FS_CardinalityType
<1>3. DOMAIN blend \subseteq others \union ghosts
  BY DEF IInv, TypeOK
<1>4. /\ IsFiniteSet(others \union ghosts)
      /\ Cardinality(others \union ghosts) <= Cardinality(others) + Cardinality(ghosts)
  <2>1. /\ IsFiniteSet(others \union ghosts)
        /\ Cardinality(others \union ghosts) =
             Cardinality(others) + Cardinality(ghosts) - Cardinality(others \intersect ghosts)
    BY <1>1, <1>2, FS_Union
  <2>2. Cardinality(others \intersect ghosts) \in Nat
    BY <1>1, FS_Intersection, FS_CardinalityType
  <2> HIDE DEF others
  <2> QED BY <1>1, <1>2, <2>1, <2>2
<1>5. Cardinality(DOMAIN blend) <= Cardinality(others \union ghosts) /\ Cardinality(DOMAIN blend) \in Nat
  BY <1>3, <1>4, FS_Subset, FS_CardinalityType
<1>6. Cardinality(others \union ghosts) \in Nat
  BY <1>4, FS_CardinalityType
<1> HIDE DEF others
<1> QED BY <1>1, <1>2, <1>4, <1>5, <1>6, SizeAssumption DEF EntriesSuffice

\* An event is merged, whoever it is of.
LEMMA SubmitInv ==
  ASSUME EntriesSuffice, IInv, NEW d \in Device, NEW f \in Frame, NEW announced \in BOOLEAN,
         Submit(d, f, announced), UNCHANGED <<mode, inject>>,
         needs_flush' \in BOOLEAN, recent' \in BOOLEAN, left' \in BOOLEAN
  PROVE  IInv'
<1>0. TypeOK /\ First \in Targets /\ Targets' = Targets
  BY OutputAssumption DEF IInv, Targets
<1>1. CASE Dropped
  BY <1>0, <1>1 DEF Dropped, IInv, TypeOK, TableInv, ShownInv, CoverInv
<1>2. CASE d \in players \/ (Room /\ (announced \/ Active(f)))
  <2>1. /\ players' = players \union {d} /\ ghosts' = ghosts \ {d}
        /\ last' = Stored(last, d, f) /\ settled' = TRUE
        /\ blend' = IF mode = "BLEND" /\ HasEntry(d) THEN Stored(blend, d, f) ELSE blend
        /\ published' = [o \in Targets |-> Merged(d, f, o)]
    BY <1>2 DEF Submit
  <2>2. HasEntry(d)
    BY <1>2, EntryFound
  <2>3. /\ DOMAIN last' = DOMAIN last \union {d}
        /\ last'[d] = f /\ \A e \in DOMAIN last \ {d} : last'[e] = last[e]
        /\ \A e \in DOMAIN last' : last'[e] \in Frame
    BY <1>0, <2>1 DEF Stored, TypeOK
  <2>4. TableInv'
    BY <2>1, <2>2 DEF IInv, TableInv
  <2>5. \A o \in Targets : published'[o] = Merged(d, f, o)
    BY <2>1
  <2>6. mode = "BLEND" => /\ blend' = last'
                          /\ \A o \in Targets : published'[o] = Blend(last')
    BY <2>1, <2>2, <2>5 DEF IInv, TableInv, Merged
  <2>7. IsFiniteSet(players') /\ Cardinality(players') <= MaxPlayers
    <3>1. /\ IsFiniteSet(players')
          /\ Cardinality(players') = IF d \in players THEN Cardinality(players)
                                                      ELSE Cardinality(players) + 1
      BY <2>1, FS_AddElement DEF IInv
    <3>2. Cardinality(players) \in Nat /\ Cardinality(players) <= MaxPlayers
      BY <1>0, FS_CardinalityType DEF IInv, TypeOK
    <3> QED BY <1>2, <3>1, <3>2, SizeAssumption DEF Room
  <2>8. ShownInv' /\ CoverInv' /\ \A o \in Targets : published'[o] \in Frame
    <3>1. CASE mode = "BLEND"
      BY <1>0, <2>3, <2>6, <3>1, BlendIs DEF ShownInv, CoverInv
    <3>2. CASE mode = "ALL"
      <4> SUFFICES ASSUME NEW o \in Targets
                   PROVE  /\ published'[o] \in Frame
                          /\ \A b \in published'[o].buttons :
                               \E e \in DOMAIN last' : b \in last'[e].buttons
                          /\ \A a \in Axes : FromOwner(published'[o].stick[a], a, last')
        BY <1>0, <3>2 DEF ShownInv, CoverInv
      <4>1. /\ published'[o].buttons = f.buttons
            /\ published'[o] = [buttons |-> f.buttons,
                                stick |-> [a \in Axes |-> IF a \in Foreign(d)
                                             THEN published[o].stick[a] ELSE f.stick[a]]]
        BY <2>5, <3>2 DEF Merged
      <4>2. published'[o] \in Frame
        BY <1>0, <4>1 DEF TypeOK, Frame
      <4>3. \A b \in published'[o].buttons : \E e \in DOMAIN last' : b \in last'[e].buttons
        BY <2>3, <4>1
      <4>4. ASSUME NEW a \in Axes PROVE FromOwner(published'[o].stick[a], a, last')
        <5>1. CASE a \in Foreign(d)
          <6>1. FromOwner(published[o].stick[a], a, last)
            BY <3>2 DEF IInv, ShownInv
          <6>2. published'[o].stick[a] = published[o].stick[a]
            BY <4>1, <5>1
          <6> QED BY <2>3, <5>1, <6>1, <6>2 DEF FromOwner
        <5>2. CASE a \notin Foreign(d)
          BY <2>3, <4>1, <5>2 DEF FromOwner
        <5> QED BY <5>1, <5>2
      <4> QED BY <4>2, <4>3, <4>4
    <3>3. CASE mode = "PRIORITY"
      BY <1>0, <2>3, <2>5, <3>3 DEF ShownInv, CoverInv, Merged
    <3> QED BY <1>0, <3>1, <3>2, <3>3, ModeAssumption DEF TypeOK
  <2>9. TypeOK'
    <3>1. published' \in [Targets' -> Frame]
      BY <1>0, <2>1, <2>5, <2>8
    <3>2. /\ players' \subseteq Device /\ ghosts' \subseteq Wired \ players'
          /\ DOMAIN last' = players' \union ghosts'
      BY <1>0, <2>1, <2>3 DEF TypeOK
    <3>3. DOMAIN blend' \subseteq players' \union ghosts' /\ \A e \in DOMAIN blend' : blend'[e] \in Frame
      <4>1. CASE mode = "BLEND"
        BY <2>3, <2>6, <3>2, <4>1
      <4>2. CASE mode # "BLEND"
        <5>1. blend' = <<>>
          BY <2>1, <4>2 DEF IInv, TableInv
        <5> QED BY <5>1
      <4> QED BY <4>1, <4>2
    <3> QED BY <1>0, <2>1, <2>3, <2>7, <3>1, <3>2, <3>3 DEF TypeOK
  <2> QED BY <2>4, <2>7, <2>8, <2>9 DEF IInv
<1> QED BY <1>1, <1>2 DEF Submit
-----------------------------------------------------------------------------
\* Everybody is gone: every output is reset.
LEMMA EmptiedInv ==
  ASSUME IInv, players' = {}, Emptied, settled' \in BOOLEAN,
         UNCHANGED <<mode, inject, needs_flush, recent, left>>
  PROVE  IInv'
<1>1. First \in Targets /\ Targets' = Targets
  BY OutputAssumption DEF Targets
<1>2. /\ DOMAIN blend' = {} /\ DOMAIN last' = {} /\ blend' = last' /\ blend' = <<>>
      /\ ghosts' = {} /\ published' = [o \in Targets |-> Neutral]
  BY DEF Emptied
<1>3. IsFiniteSet(players') /\ Cardinality(players') <= MaxPlayers
  BY FS_EmptySet, SizeAssumption
<1>4. published' \in [Targets' -> Frame]
  BY <1>1, <1>2, NeutralIsFrame
<1>5. TypeOK'
  BY <1>2, <1>3, <1>4 DEF IInv, TypeOK
<1>6. TableInv' /\ ShownInv' /\ CoverInv'
  BY <1>1, <1>2 DEF TableInv, ShownInv, CoverInv, Covers, FromOwner, Neutral
<1> QED BY <1>3, <1>5, <1>6 DEF IInv

\* A player fewer.
LEMMA FewerPlayers ==
  ASSUME IInv, NEW d
  PROVE  /\ IsFiniteSet(players \ {d}) /\ Cardinality(players \ {d}) <= MaxPlayers
<1>1. players \ {d} \in SUBSET players
  OBVIOUS
<1>2. /\ IsFiniteSet(players \ {d}) /\ Cardinality(players \ {d}) <= Cardinality(players)
  BY <1>1, FS_Subset DEF IInv
<1>3. Cardinality(players) \in Nat /\ Cardinality(players \ {d}) \in Nat
  BY <1>2, FS_CardinalityType DEF IInv
<1> QED BY <1>2, <1>3, SizeAssumption DEF IInv, TypeOK

LEMMA DisconnectInv == ASSUME IInv, NEW d \in Pad, Disconnect(d) PROVE IInv'
<1>0. /\ TypeOK /\ First \in Targets /\ Targets' = Targets
      /\ d \notin Wired /\ players' = players \ {d} /\ settled' = FALSE
      /\ UNCHANGED <<mode, inject, needs_flush, recent, left>>
  BY OutputAssumption DEF IInv, Targets, Disconnect
<1>1. CASE players' = {}
  BY <1>0, <1>1, EmptiedInv DEF Disconnect
<1>2. CASE players' # {}
  <2>1. /\ blend' = Without(blend, {d}) /\ last' = Without(last, {d}) /\ ghosts' = ghosts
        /\ published' = [published EXCEPT ![First] =
                           IF mode = "BLEND" THEN Reblend(blend') ELSE Neutral]
    BY <1>2 DEF Disconnect
  <2>2. /\ DOMAIN last' = DOMAIN last \ {d} /\ \A e \in DOMAIN last' : last'[e] = last[e]
        /\ DOMAIN blend' = DOMAIN blend \ {d} /\ \A e \in DOMAIN blend' : blend'[e] = blend[e]
    BY <2>1 DEF Without
  <2>3. TableInv'
    <3>1. CASE mode = "BLEND"
      BY <1>0, <2>1, <3>1 DEF IInv, TableInv
    <3>2. CASE mode # "BLEND"
      <4>1. blend = <<>> /\ blend' = [e \in DOMAIN blend \ {d} |-> blend[e]]
        BY <2>1, <3>2 DEF IInv, TableInv, Without
      <4>2. blend' = <<>>
        BY <4>1
      <4> QED BY <1>0, <3>2, <4>2 DEF TableInv
    <3> QED BY <3>1, <3>2
  <2>4. /\ \A e \in DOMAIN blend' : blend'[e] \in Frame
        /\ \A e \in DOMAIN last' : last'[e] \in Frame
    BY <1>0, <2>2 DEF TypeOK
  <2>5. /\ published'[First] = IF mode = "BLEND" THEN Reblend(blend') ELSE Neutral
        /\ published'[First] \in Frame /\ published' \in [Targets -> Frame]
    <3>1. Reblend(blend') \in Frame
      BY <2>4, BlendIs
    <3> QED BY <1>0, <2>1, <3>1, NeutralIsFrame DEF TypeOK
  <2>6. TypeOK'
    <3>1. d \notin ghosts
      BY <1>0 DEF TypeOK
    <3>2. ghosts' \subseteq Wired \ players' /\ DOMAIN last' = players' \union ghosts'
      BY <1>0, <2>1, <2>2, <3>1 DEF TypeOK
    <3>3. DOMAIN blend' \subseteq players' \union ghosts'
      BY <1>0, <2>1, <2>2, <3>1 DEF TypeOK
    <3>4. Cardinality(players') <= MaxPlayers /\ players' \subseteq Device
      BY <1>0, FewerPlayers DEF TypeOK
    <3> QED BY <1>0, <2>4, <2>5, <3>2, <3>3, <3>4 DEF TypeOK
  <2>7. ShownInv' /\ CoverInv'
    <3>1. CASE mode = "BLEND"
      <4>1. published'[First] = Reblend(last')
        BY <1>0, <2>3, <2>5, <3>1 DEF TableInv
      <4> QED BY <1>0, <2>4, <3>1, <4>1, BlendIs DEF ShownInv, CoverInv
    <3>2. CASE mode # "BLEND"
      <4>1. Targets = {First} /\ published'[First] = Neutral
        BY <2>5, <3>2 DEF Targets
      <4> QED BY <1>0, <3>2, <4>1 DEF ShownInv, CoverInv, FromOwner, Neutral
    <3> QED BY <3>1, <3>2
  <2>8. IsFiniteSet(players')
    BY <1>0, FewerPlayers
  <2> QED BY <2>3, <2>6, <2>7, <2>8 DEF IInv
<1> QED BY <1>1, <1>2

\* The entry of an unplugged pad stays with its ghost.
LEMMA UnplugInv == ASSUME IInv, NEW d \in Pad, Unplug(d) PROVE IInv'
<1>0. /\ TypeOK /\ Targets' = Targets /\ d \in Wired /\ players' = players \ {d}
      /\ UNCHANGED <<mode, inject, needs_flush, recent, settled, left>>
  BY DEF IInv, Targets, Unplug
<1>1. CASE players' = {}
  BY <1>0, <1>1, EmptiedInv DEF Unplug, TypeOK
<1>2. CASE players' # {}
  <2>1. /\ ghosts' = IF d \in players THEN ghosts \union {d} ELSE ghosts
        /\ UNCHANGED <<blend, published, last>>
    BY <1>2 DEF Unplug
  <2>2. players' \union ghosts' = players \union ghosts /\ ghosts' \subseteq Wired \ players'
    BY <1>0, <2>1 DEF TypeOK
  <2>3. /\ IsFiniteSet(players') /\ Cardinality(players') <= MaxPlayers
        /\ players' \subseteq Device
    BY <1>0, FewerPlayers DEF TypeOK
  <2>4. TypeOK'
    BY <1>0, <2>1, <2>2, <2>3 DEF TypeOK
  <2>5. TableInv' /\ ShownInv' /\ CoverInv'
    BY <1>0, <2>1 DEF IInv, TableInv, ShownInv, CoverInv
  <2> QED BY <2>3, <2>4, <2>5 DEF IInv
<1> QED BY <1>1, <1>2

LEMMA StepInv == ASSUME EntriesSuffice, IInv, [Next]_vars PROVE IInv'
<1>0. /\ inject \in Frame /\ Virtual \in Device /\ TypeOK
      /\ \A d \in Pad : d \in Device
  BY InjectionIsFrame DEF IInv, TypeOK, Device
<1>1. ASSUME NEW d \in Pad, Report(d) PROVE IInv'
  <2>1. PICK f \in Events(d) : Submit(d, Overlay(f), FALSE)
    BY <1>1 DEF Report
  <2>2. Overlay(f) \in Frame
    BY <1>0, EventIsFrame, OverlayIsFrame
  <2>3. /\ UNCHANGED <<mode, inject>> /\ needs_flush' \in BOOLEAN /\ recent' \in BOOLEAN
        /\ left' \in BOOLEAN
    BY <1>0, <1>1 DEF Report, TypeOK
  <2> QED BY <1>0, <2>1, <2>2, <2>3, SubmitInv
<1>2. ASSUME NEW d \in Pad, Disconnect(d) PROVE IInv'
  BY <1>2, DisconnectInv
<1>3. ASSUME NEW d \in Pad, Unplug(d) PROVE IInv'
  BY <1>3, UnplugInv
<1>4. CASE Quiet
  BY <1>4 DEF Quiet, IInv, TypeOK, TableInv, ShownInv, CoverInv, Targets
<1>5. ASSUME NEW f \in Injections, cmd_input_inject(f) PROVE IInv'
  BY <1>5 DEF cmd_input_inject, IInv, TypeOK, TableInv, ShownInv, CoverInv, Targets
<1>6. CASE Announce
  <2>1. Overlay(Neutral) \in Frame
    BY <1>0, NeutralIsFrame, OverlayIsFrame
  <2>0. left' \in BOOLEAN
    BY <1>0, <1>6, Zenon DEF Announce
  <2>2. UNCHANGED <<mode, inject>> /\ needs_flush' \in BOOLEAN /\ recent' \in BOOLEAN
    BY <1>0, <1>6 DEF Announce, TypeOK
  <2>3. Submit(Virtual, Overlay(Neutral), TRUE)
    BY <1>6 DEF Announce
  <2> QED BY <1>0, <2>0, <2>1, <2>2, <2>3, SubmitInv
<1>7. CASE router_inject_task
  <2>1. Overlay(Neutral) \in Frame
    BY <1>0, NeutralIsFrame, OverlayIsFrame
  <2>0. left' \in BOOLEAN
    BY <1>0, <1>7, Zenon DEF router_inject_task, Cancelled, TypeOK
  <2>2. UNCHANGED <<mode, inject>> /\ needs_flush' \in BOOLEAN /\ recent' \in BOOLEAN
    BY <1>0, <1>7 DEF router_inject_task, TypeOK, Injecting
  <2>3. CASE recent
    BY <1>7, <2>0, <2>2, <2>3 DEF router_inject_task, Dropped, IInv, TypeOK, TableInv, ShownInv,
                            CoverInv, Targets
  <2>4. CASE ~recent
    <3>1. Submit(Virtual, Overlay(Neutral), FALSE)
      BY <1>7, <2>4 DEF router_inject_task
    <3> QED BY <1>0, <2>0, <2>1, <2>2, <3>1, SubmitInv
  <2> QED BY <2>3, <2>4
<1>8. CASE UNCHANGED vars
  BY <1>8 DEF vars, IInv, TypeOK, TableInv, ShownInv, CoverInv, Targets
<1> QED BY <1>1, <1>2, <1>3, <1>4, <1>5, <1>6, <1>7, <1>8 DEF Next

LEMMA Invariant == ASSUME EntriesSuffice PROVE Spec => []IInv
<1>1. Init => IInv
  BY InitInv
<1>2. IInv /\ [Next]_vars => IInv'
  BY StepInv
<1> QED BY <1>1, <1>2, PTL DEF Spec
-----------------------------------------------------------------------------
\* Where the table has an entry for everybody, no frame that goes out is stack
\* garbage, and none shows what nobody did (router_merge_mode, router.c:866-1215).
THEOREM MergeShowsInputOnly == ASSUME EntriesSuffice PROVE Spec => []MergedOK
<1>1. IInv => MergedOK
  <2> SUFFICES ASSUME IInv PROVE NothingForeign
    BY DEF IInv, MergedOK
  <2> SUFFICES ASSUME NEW o \in Targets, settled \/ o = First
               PROVE  /\ published[o].buttons \subseteq UNION {last[d].buttons : d \in DOMAIN last}
                      /\ settled /\ mode # "PRIORITY" => \A a \in Axes : published[o].stick[a] \in
                           {0} \union {last[d].stick[a] : d \in {e \in DOMAIN last : a \notin Foreign(e)}}
    BY DEF NothingForeign
  <2>1. \A b \in published[o].buttons : \E d \in DOMAIN last : b \in last[d].buttons
    BY DEF IInv, ShownInv
  <2>2. ASSUME settled, mode # "PRIORITY"
        PROVE  \A a \in Axes : FromOwner(published[o].stick[a], a, last)
    BY <2>2, ModeAssumption DEF IInv, ShownInv, TypeOK
  <2> QED BY <2>1, <2>2 DEF FromOwner
<1> QED BY <1>1, Invariant, PTL

\* And in BLEND nobody's press is lost and nobody's stick is masked, whoever
\* joins, leaves, is unplugged or is injected ("If either controller presses A,
\* the output sees A pressed", docs/overview/data-flow.md:90).
THEOREM NobodyIsMasked == ASSUME EntriesSuffice PROVE Spec => []NobodyMasked
<1>1. IInv => NobodyMasked
  BY DEF IInv, NobodyMasked, CoverInv, Covers, TypeOK
<1> QED BY <1>1, Invariant, PTL
=============================================================================
