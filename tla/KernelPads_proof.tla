-------------------------- MODULE KernelPads_proof ---------------------------
(***************************************************************************)
(* For any pads, of any make, and any number of players: no event node is  *)
(* given to two players; no virtual pad becomes a player unless a pad that *)
(* looks like one came after the daemon's start; once every notice is      *)
(* handled, the players are those whose pads are plugged in; and the App   *)
(* hears no real pad beside the virtual one that is in its place.          *)
(***************************************************************************)
EXTENDS KernelPads, FiniteSetTheorems, FunctionTheorems, SequenceTheorems, WellFoundedInduction, TLAPS

-----------------------------------------------------------------------------
(* SDL's list.                                                             *)

\* An element is put in, the others stay in their order.
LEMMA Inserted ==
    ASSUME NEW S, NEW s \in Seq(S), NEW i \in 1..(Len(s) + 1), NEW e \in S
    PROVE  /\ InsertAt(s, i, e) \in Seq(S)
           /\ Len(InsertAt(s, i, e)) = Len(s) + 1
           /\ \A k \in 1..(Len(s) + 1) :
                 InsertAt(s, i, e)[k] = IF k < i THEN s[k] ELSE IF k = i THEN e ELSE s[k - 1]
           /\ \A k \in DOMAIN InsertAt(s, i, e) :
                 InsertAt(s, i, e)[k] = e \/ \E l \in DOMAIN s : InsertAt(s, i, e)[k] = s[l]
<1> DEFINE a == SubSeq(s, 1, i - 1)
           b == SubSeq(s, i, Len(s))
<1>1. /\ a \in Seq(S) /\ Len(a) = i - 1
      /\ \A k \in 1..(i - 1) : a[k] = s[k]
  BY SubSeqProperties
<1>2. /\ b \in Seq(S) /\ Len(b) = Len(s) - i + 1
      /\ \A k \in 1..(Len(s) - i + 1) : b[k] = s[k + i - 1]
  BY SubSeqProperties
<1>3. <<e>> \in Seq(S) /\ Len(<<e>>) = 1 /\ <<e>>[1] = e
  OBVIOUS
<1> HIDE DEF a, b
<1> DEFINE c == a \o <<e>>
<1>4. /\ c \in Seq(S) /\ Len(c) = i
      /\ \A k \in 1..i : c[k] = IF k < i THEN a[k] ELSE e
  <2>1. /\ c \in Seq(S) /\ Len(c) = Len(a) + Len(<<e>>)
        /\ \A k \in 1..(Len(a) + Len(<<e>>)) : c[k] = IF k <= Len(a) THEN a[k] ELSE <<e>>[k - Len(a)]
    BY <1>1, <1>3, ConcatProperties
  <2>2. Len(a) + Len(<<e>>) = i
    BY <1>1, <1>3
  <2>3. ASSUME NEW k \in 1..i PROVE c[k] = IF k < i THEN a[k] ELSE e
    <3>1. k <= Len(a) <=> k < i
      BY <1>1
    <3>2. k = i => k - Len(a) = 1
      BY <1>1
    <3> QED BY <1>3, <2>1, <2>2, <3>1, <3>2
  <2> QED BY <2>1, <2>2, <2>3
<1> HIDE DEF c
<1> DEFINE d == c \o b
<1>5. /\ d \in Seq(S) /\ Len(d) = Len(s) + 1
      /\ \A k \in 1..(Len(s) + 1) : d[k] = IF k <= i THEN c[k] ELSE b[k - i]
  BY <1>2, <1>4, ConcatProperties
<1>6. InsertAt(s, i, e) = d
  BY DEF InsertAt, a, b, c, d
<1>7. ASSUME NEW k \in 1..(Len(s) + 1)
      PROVE  d[k] = IF k < i THEN s[k] ELSE IF k = i THEN e ELSE s[k - 1]
  <2>1. CASE k < i
    BY <2>1, <1>1, <1>4, <1>5
  <2>2. CASE k = i
    BY <2>2, <1>4, <1>5
  <2>3. CASE k > i
    <3>1. k - i \in 1..(Len(s) - i + 1) /\ (k - i) + i - 1 = k - 1
      BY <2>3
    <3>2. d[k] = b[k - i]
      BY <2>3, <1>5
    <3> QED BY <2>3, <3>1, <3>2, <1>2
  <2>4. k < i \/ k = i \/ k > i
    <3>1. Len(s) \in Int
      BY LenProperties
    <3>2. k \in Int /\ i \in Int
      BY <3>1
    <3> QED BY <3>2
  <2> QED BY <2>1, <2>2, <2>3, <2>4
<1>8. ASSUME NEW k \in DOMAIN d PROVE d[k] = e \/ \E l \in DOMAIN s : d[k] = s[l]
  <2>0. k \in 1..(Len(s) + 1) /\ DOMAIN s = 1..Len(s)
    BY <1>5
  <2>1. CASE k > i
    <3>1. d[k] = s[k - 1] /\ k - 1 \in 1..Len(s)
      BY <2>0, <2>1, <1>7
    <3> QED BY <2>0, <3>1
  <2> QED BY <2>0, <2>1, <1>7
<1> QED BY <1>5, <1>6, <1>7, <1>8

\* An element is taken out, the others stay in their order.
LEMMA TakenOut ==
    ASSUME NEW S, NEW s \in Seq(S), NEW i \in 1..Len(s)
    PROVE  /\ RemoveAt(s, i) \in Seq(S)
           /\ Len(RemoveAt(s, i)) = Len(s) - 1
           /\ \A k \in 1..(Len(s) - 1) : RemoveAt(s, i)[k] = IF k < i THEN s[k] ELSE s[k + 1]
           /\ \A k \in DOMAIN RemoveAt(s, i) : \E l \in DOMAIN s : RemoveAt(s, i)[k] = s[l]
<1> DEFINE a == SubSeq(s, 1, i - 1)
           b == SubSeq(s, i + 1, Len(s))
<1>1. /\ a \in Seq(S) /\ Len(a) = i - 1
      /\ \A k \in 1..(i - 1) : a[k] = s[k]
  BY SubSeqProperties
<1>2. /\ b \in Seq(S) /\ Len(b) = Len(s) - i
      /\ \A k \in 1..(Len(s) - i) : b[k] = s[k + i]
  BY SubSeqProperties
<1> HIDE DEF a, b
<1> DEFINE d == a \o b
<1>3. /\ d \in Seq(S) /\ Len(d) = Len(s) - 1
      /\ \A k \in 1..(Len(s) - 1) : d[k] = IF k <= i - 1 THEN a[k] ELSE b[k - (i - 1)]
  <2>1. /\ d \in Seq(S) /\ Len(d) = Len(a) + Len(b)
        /\ \A k \in 1..(Len(a) + Len(b)) : d[k] = IF k <= Len(a) THEN a[k] ELSE b[k - Len(a)]
    BY <1>1, <1>2, ConcatProperties
  <2>2. Len(a) + Len(b) = Len(s) - 1
    BY <1>1, <1>2
  <2> QED BY <2>1, <2>2, <1>1
<1>4. RemoveAt(s, i) = d
  BY DEF RemoveAt, a, b, d
<1>5. ASSUME NEW k \in 1..(Len(s) - 1) PROVE d[k] = IF k < i THEN s[k] ELSE s[k + 1]
  <2>1. CASE k < i
    BY <2>1, <1>1, <1>3
  <2>2. CASE k >= i
    <3>1. k - (i - 1) \in 1..(Len(s) - i) /\ (k - (i - 1)) + i = k + 1
      BY <2>2
    <3>2. d[k] = b[k - (i - 1)]
      BY <2>2, <1>3
    <3> QED BY <2>2, <3>1, <3>2, <1>2
  <2>3. k < i \/ k >= i
    <3>1. Len(s) \in Int
      BY LenProperties
    <3>2. k \in Int /\ i \in Int
      BY <3>1
    <3> QED BY <3>2
  <2> QED BY <2>1, <2>2, <2>3
<1>6. ASSUME NEW k \in DOMAIN d PROVE \E l \in DOMAIN s : d[k] = s[l]
  <2>0. k \in 1..(Len(s) - 1) /\ DOMAIN s = 1..Len(s)
    BY <1>3
  <2>1. CASE k < i
    BY <2>0, <2>1, <1>5
  <2>2. CASE k >= i
    <3>1. d[k] = s[k + 1] /\ k + 1 \in 1..Len(s)
      BY <2>0, <2>2, <1>5
    <3> QED BY <2>0, <3>1
  <2> QED BY <2>0, <2>1, <2>2
<1> QED BY <1>3, <1>4, <1>5, <1>6

\* The head is gone, the others have moved up.
LEMMA Told ==
    ASSUME NEW S, NEW s \in Seq(S), s # <<>>
    PROVE  /\ Head(s) \in S
           /\ Tail(s) \in Seq(S)
           /\ Len(s) > 0
           /\ Len(Tail(s)) = Len(s) - 1
           /\ Head(s) = s[1]
           /\ \A k \in 1..(Len(s) - 1) : Tail(s)[k] = s[k + 1]
BY HeadTailProperties

-----------------------------------------------------------------------------
(* Types.                                                                  *)

Entries == [id : 1..(nextId - 1), dev : Devices]
Notices == [kind : {"added", "removed"}, dev : Devices]
Events  == [kind : {"added"}, index : Nat \ {0}, id : 1..(nextId - 1)]
               \cup [kind : {"removed"}, id : 1..(nextId - 1)]
SlotValues == [id : 1..(nextId - 1), pad : Devices, held : Nodes \cup {NoNode}] \cup {NoPad}

\* What addPad and removePad change.
PadTypes ==
    /\ node \in [Devices -> Nodes \cup {Absent}]
    /\ grab \in [Nodes -> Players \cup {Nobody}]
    /\ notices \in Seq(Notices)
    /\ slots \in [Players -> SlotValues]
    /\ virtual \subseteq Players
    /\ seenBefore \subseteq 1..(nextId - 1)
    /\ ownIds \subseteq 1..(nextId - 1)
    /\ seenBefore \cap ownIds = {}
    /\ pendingOwn \in Nat
    /\ turnedAway \subseteq Devices

\* What the main program and SDL keep.
LoopTypes ==
    /\ phase \in {"settle", "scan", "run"}
    /\ scanAt \in Nat \ {0}
    /\ pumping \in BOOLEAN
    /\ nextId \in Nat \ {0}
    /\ joysticks \in Seq(Entries)
    /\ queue \in Seq(Events)
    /\ changes \in 0..MaxChanges
    /\ lateLookalike \in BOOLEAN
    /\ misdirected \in BOOLEAN
    /\ letGo \subseteq Devices

\* The types are these two.
LEMMA TypeParts ==
    /\ TypeOK <=> PadTypes /\ LoopTypes
    /\ TypeOK' <=> PadTypes' /\ LoopTypes'
BY DEF TypeOK, PadTypes, LoopTypes, Entries, Notices, Events, SlotValues

\* The kernel has a number for every device, and one to spare.
LEMMA EnoughNodes ==
    /\ Cardinality(RealPads) \in Nat
    /\ 1..(Cardinality(RealPads) + 1) \subseteq Nodes
<1>1. IsFiniteSet(VirtualPads)
  <2> DEFINE f == [i \in Players |-> Virtual(i)]
  <2>1. f \in Surjection(Players, VirtualPads)
    BY DEF VirtualPads, Surjection
  <2>2. IsFiniteSet(Players)
    BY FS_Interval, PadsAssumption DEF Players
  <2> QED BY <2>1, <2>2, FS_Surjection
<1>2. IsFiniteSet(Devices)
  BY <1>1, FS_Union, PadsAssumption DEF Devices
<1>3. Cardinality(RealPads) <= Cardinality(Devices)
  BY <1>2, FS_Subset DEF Devices
<1>4. Cardinality(RealPads) \in Nat /\ Cardinality(Devices) \in Nat
  BY <1>2, FS_CardinalityType, PadsAssumption
<1> QED BY <1>3, <1>4 DEF Nodes

\* The daemon starts well typed.
LEMMA InitType == Init => TypeOK
<1> SUFFICES ASSUME Init PROVE TypeOK
    OBVIOUS
<1>0. PICK n \in 0..Cardinality(RealPads) : \E order \in [1..n -> RealPads] : StartsWith(n, order)
  BY DEF Init
<1>1. PICK order \in [1..n -> RealPads] : StartsWith(n, order)
  BY <1>0
<1>2. n \in Nat /\ n <= Cardinality(RealPads)
  BY EnoughNodes
<1>3. 1 \in Players /\ Virtual(1) \in Devices
  BY PadsAssumption DEF Players, Devices, VirtualPads
<1>4. node \in [Devices -> Nodes \cup {Absent}]
  <2> SUFFICES ASSUME NEW d \in Devices PROVE node[d] \in Nodes \cup {Absent}
      BY <1>1 DEF StartsWith
  <2>1. CASE \E k \in 1..n : order[k] = d
    <3>1. node[d] \in 1..n
      BY <1>1, <2>1 DEF StartsWith
    <3> QED BY <3>1, <1>2, EnoughNodes
  <2>2. CASE ~ \E k \in 1..n : order[k] = d
    BY <1>1, <1>2, <2>2, EnoughNodes DEF StartsWith
  <2> QED BY <2>1, <2>2
<1>5. notices \in Seq(Notices)
  BY <1>1, <1>3 DEF Notices, Added, StartsWith
<1>6. joysticks \in Seq(Entries)
  <2>1. joysticks \in [1..n -> Entries]
    BY <1>1, <1>2 DEF Entries, Devices, StartsWith
  <2> QED BY <2>1, <1>2
<1>7. slots \in [Players -> SlotValues] /\ grab \in [Nodes -> Players \cup {Nobody}]
  BY <1>1 DEF SlotValues, StartsWith
<1>8. PadTypes
  BY <1>1, <1>2, <1>3, <1>4, <1>5, <1>7 DEF PadTypes, StartsWith
<1>9. LoopTypes
  <2>1. pumping \in BOOLEAN /\ lateLookalike \in BOOLEAN /\ misdirected \in BOOLEAN
    BY <1>1 DEF StartsWith
  <2>2. /\ phase \in {"settle", "scan", "run"} /\ scanAt \in Nat \ {0} /\ nextId \in Nat \ {0}
        /\ changes \in 0..MaxChanges /\ letGo \subseteq Devices
    BY <1>1, <1>2, PadsAssumption DEF StartsWith
  <2>3. queue \in Seq(Events)
    BY <1>1, EmptySeq DEF StartsWith
  <2> QED BY <1>6, <2>1, <2>2, <2>3 DEF LoopTypes
<1> QED BY <1>8, <1>9, TypeParts

\* A joystick that is opened is one of the list.
LEMMA EntryType ==
    ASSUME TypeOK, NEW k \in DOMAIN joysticks
    PROVE  /\ joysticks[k] \in Entries
           /\ joysticks[k].id \in 1..(nextId - 1)
           /\ joysticks[k].dev \in Devices
<1>1. joysticks \in Seq(Entries)
  BY TypeParts DEF LoopTypes
<1>2. joysticks[k] \in Entries
  BY <1>1, ElementOfSeq
<1> QED BY <1>2 DEF Entries

\* A hold is on a node, for a player.
LEMMA HoldsType ==
    ASSUME TypeOK, NEW i \in Players, NEW j \in Entries, NEW own, Holds(i, j, own)
    PROVE  grab' \in [Nodes -> Players \cup {Nobody}] /\ slots' \in [Players -> SlotValues]
<1>1. grab \in [Nodes -> Players \cup {Nobody}] /\ slots \in [Players -> SlotValues]
  BY TypeParts DEF PadTypes
<1>2. ASSUME NEW n \in Nodes \cup {NoNode} PROVE [id |-> j.id, pad |-> j.dev, held |-> n] \in SlotValues
  BY DEF Entries, SlotValues
<1>3. CASE HoldsSiblings(i, j, own)
  BY <1>1, <1>2, <1>3 DEF HoldsSiblings
<1>4. CASE HoldsNode(i, j, own)
  BY <1>1, <1>2, <1>4 DEF HoldsNode
<1> QED BY <1>3, <1>4 DEF Holds

\* addPad keeps the types, whatever it finds at the index.
LEMMA AddPadType ==
    ASSUME TypeOK, NEW index, addPad(index), UNCHANGED nextId
    PROVE  PadTypes'
<1>0. PadTypes /\ LoopTypes
  BY TypeParts
<1>1. CASE UNCHANGED <<ownVars, slots, virtual, node, grab, notices, turnedAway>>
  BY <1>0, <1>1 DEF PadTypes, ownVars, SlotValues
<1>2. ASSUME index \in DOMAIN joysticks, ClaimOwn(joysticks[index]) PROVE PadTypes'
  <2>1. joysticks[index].id \in 1..(nextId - 1)
    BY <1>2, EntryType
  <2>2. pendingOwn' \in Nat
    BY <1>0, <1>2 DEF PadTypes, ClaimOwn, TakenForOwn
  <2>3. seenBefore' \cap ownIds' = {} /\ ownIds' \subseteq 1..(nextId' - 1)
    BY <1>0, <1>2, <2>1 DEF PadTypes, ClaimOwn, TakenForOwn
  <2> QED BY <1>0, <1>2, <2>2, <2>3 DEF PadTypes, ClaimOwn, SlotValues
<1>3. ASSUME index \in DOMAIN joysticks, Ignore(joysticks[index]) PROVE PadTypes'
  <2>1. joysticks[index].id \in 1..(nextId - 1) /\ joysticks[index].dev \in Devices
    BY <1>3, EntryType
  <2> QED BY <1>0, <1>3, <2>1 DEF PadTypes, Ignore, KnownOwn, SlotValues
<1>4. ASSUME index \in DOMAIN joysticks, TakeSlot(joysticks[index]) PROVE PadTypes'
  <2> DEFINE j == joysticks[index]
  <2>1. j \in Entries /\ j.id \in 1..(nextId - 1) /\ j.dev \in Devices
    BY <1>4, EntryType
  <2> HIDE DEF j
  <2>2. /\ seenBefore' \subseteq 1..(nextId' - 1) /\ seenBefore' \cap ownIds' = {}
        /\ ownIds' \subseteq 1..(nextId' - 1)
        /\ turnedAway' \subseteq Devices
    BY <1>0, <1>4, <2>1 DEF PadTypes, TakeSlot, KnownOwn, j
  <2>3. PICK i \in Players :
          \/ /\ i \in virtual
             /\ Holds(i, j, OwnNodes)
             /\ UNCHANGED <<virtual, pendingOwn, node, notices>>
          \/ /\ i \notin virtual
             /\ virtual' = virtual \cup {i}
             /\ \E n \in Nodes :
                   /\ IsFreeNode(n)
                   /\ node' = [node EXCEPT ![Virtual(i)] = n]
                   /\ Holds(i, j, OwnNodes \cup {n})
             /\ notices' = Append(notices, Added(Virtual(i)))
             /\ pendingOwn' = pendingOwn + 1
          \/ /\ i \notin virtual
             /\ slots' = [slots EXCEPT ![i] = [id |-> j.id, pad |-> j.dev, held |-> NoNode]]
             /\ UNCHANGED <<virtual, pendingOwn, node, grab, notices>>
    BY <1>4 DEF TakeSlot, j
  <2>4. SlotValues' = SlotValues
    BY DEF SlotValues
  <2>5. grab' \in [Nodes -> Players \cup {Nobody}] /\ slots' \in [Players -> SlotValues']
    <3>1. ASSUME NEW own, Holds(i, j, own)
          PROVE  grab' \in [Nodes -> Players \cup {Nobody}] /\ slots' \in [Players -> SlotValues]
      BY <2>1, <3>1, HoldsType
    <3>2. ASSUME slots' = [slots EXCEPT ![i] = [id |-> j.id, pad |-> j.dev, held |-> NoNode]], UNCHANGED grab
          PROVE  grab' \in [Nodes -> Players \cup {Nobody}] /\ slots' \in [Players -> SlotValues]
      BY <1>0, <2>1, <3>2 DEF PadTypes, SlotValues
    <3> QED BY <2>3, <2>4, <3>1, <3>2
  <2>6. Virtual(i) \in Devices
    BY DEF Devices, VirtualPads
  <2>7. notices' \in Seq(Notices)
    <3>1. Added(Virtual(i)) \in Notices
      BY <2>6 DEF Notices, Added
    <3> QED BY <1>0, <2>3, <3>1 DEF PadTypes
  <2>8. node' \in [Devices -> Nodes \cup {Absent}]
    BY <1>0, <2>3, <2>6 DEF PadTypes
  <2>9. pendingOwn' \in Nat /\ virtual' \subseteq Players
    BY <1>0, <2>3 DEF PadTypes
  <2> QED BY <2>2, <2>5, <2>7, <2>8, <2>9 DEF PadTypes
<1> QED BY <1>1, <1>2, <1>3, <1>4 DEF addPad

\* So does removePad.
LEMMA LeavesType ==
    ASSUME TypeOK, NEW i \in Players, Leaves(i), UNCHANGED <<nextId, ownVars, turnedAway>>
    PROVE  PadTypes' /\ letGo' \subseteq Devices
<1>0. PadTypes /\ LoopTypes
  BY TypeParts
<1>1. Virtual(i) \in Devices
  BY DEF Devices, VirtualPads
<1>2. slots' \in [Players -> SlotValues'] /\ grab' \in [Nodes -> Players \cup {Nobody}]
  BY <1>0 DEF PadTypes, Leaves, SlotValues
<1>3. notices' \in Seq(Notices) /\ node' \in [Devices -> Nodes \cup {Absent}] /\ virtual' \subseteq Players
  <2>1. Removed(Virtual(i)) \in Notices
    BY <1>1 DEF Notices, Removed
  <2>2. notices' \in Seq(Notices)
    BY <1>0, <2>1 DEF PadTypes, Leaves
  <2>3. node' \in [Devices -> Nodes \cup {Absent}] /\ virtual' \subseteq Players
    BY <1>0, <1>1 DEF PadTypes, Leaves
  <2> QED BY <2>2, <2>3
<1>4. letGo' \subseteq Devices
  BY <1>0 DEF LoopTypes, Leaves
<1>5. UNCHANGED <<seenBefore, ownIds, pendingOwn, turnedAway, nextId>>
  BY DEF ownVars
<1>6. PadTypes'
  BY <1>0, <1>2, <1>3, <1>5 DEF PadTypes
<1> QED BY <1>4, <1>6

\* What was well typed stays so when SDL gives out an instance id.
LEMMA Growing ==
    ASSUME LoopTypes, nextId' = nextId \/ nextId' = nextId + 1
    PROVE  /\ 1..(nextId - 1) \subseteq 1..(nextId' - 1)
           /\ Entries \subseteq Entries' /\ Events \subseteq Events' /\ SlotValues \subseteq SlotValues'
           /\ Seq(Entries) \subseteq Seq(Entries') /\ Seq(Events) \subseteq Seq(Events')
           /\ nextId' \in Nat \ {0}
<1>1. 1..(nextId - 1) \subseteq 1..(nextId' - 1) /\ nextId' \in Nat \ {0}
  BY DEF LoopTypes
<1>2. Entries \subseteq Entries' /\ Events \subseteq Events' /\ SlotValues \subseteq SlotValues'
  BY <1>1 DEF Entries, Events, SlotValues
<1> QED BY <1>1, <1>2, SeqMonotonic

\* A device is listed among the others, or behind them.
LEMMA PlaceInList ==
    ASSUME LoopTypes, NEW d
    PROVE  PlaceFor(d) \in 1..(Len(joysticks) + 1)
<1> DEFINE h == {k \in DOMAIN joysticks : joysticks[k].dev \in Hidapi}
<1>1. DOMAIN joysticks = 1..Len(joysticks) /\ Len(joysticks) \in Nat
  BY LenProperties DEF LoopTypes
<1>2. IsFiniteSet(1..Len(joysticks)) /\ Cardinality(1..Len(joysticks)) = Len(joysticks)
  <2>1. Len(joysticks) \in Int /\ 1 \in Int
    BY <1>1
  <2>2. /\ IsFiniteSet(1..Len(joysticks))
        /\ Cardinality(1..Len(joysticks)) =
              IF 1 > Len(joysticks) THEN 0 ELSE Len(joysticks) - 1 + 1
    BY <2>1, FS_Interval, Zenon
  <2> QED BY <1>1, <2>2
<1>3. h \subseteq 1..Len(joysticks)
  BY <1>1
<1>4. IsFiniteSet(h) /\ Cardinality(h) <= Len(joysticks)
  BY <1>2, <1>3, FS_Subset
<1>5. Cardinality(h) \in Nat
  BY <1>4, FS_CardinalityType
<1> QED BY <1>1, <1>4, <1>5 DEF PlaceFor

\* SDL's list is well typed after every notice.
LEMMA PumpType == TypeOK /\ Pump => TypeOK'
<1> SUFFICES ASSUME TypeOK, Pump PROVE TypeOK'
    OBVIOUS
<1>0. PadTypes /\ LoopTypes
  BY TypeParts
<1> DEFINE n == Head(notices)
<1>1. n \in Notices /\ Tail(notices) \in Seq(Notices)
  BY <1>0, Told DEF Pump, PadTypes
<1>2. n.dev \in Devices
  BY <1>1 DEF Notices
<1> HIDE DEF n
<1>3. /\ nextId' = nextId \/ nextId' = nextId + 1
      /\ joysticks' \in Seq(Entries')
      /\ queue' \in Seq(Events')
  <2>1. CASE Lists(n.dev)
    <3>1. nextId' = nextId + 1
      BY <2>1 DEF Lists
    <3>2. Seq(Entries) \subseteq Seq(Entries') /\ Seq(Events) \subseteq Seq(Events') /\ nextId' \in Nat \ {0}
      BY <1>0, <3>1, Growing
    <3> DEFINE e == [id |-> nextId, dev |-> n.dev]
    <3>3. e \in Entries'
      BY <1>0, <1>2, <3>1 DEF Entries, LoopTypes
    <3>4. PlaceFor(n.dev) \in 1..(Len(joysticks) + 1)
      BY <1>0, PlaceInList
    <3>5. joysticks' \in Seq(Entries')
      BY <1>0, <2>1, <3>2, <3>3, <3>4, Inserted DEF Lists, LoopTypes
    <3>6. [kind |-> "added", index |-> PlaceFor(n.dev), id |-> nextId] \in Events'
      BY <1>0, <3>1, <3>4 DEF Events, LoopTypes
    <3>7. queue' \in Seq(Events')
      BY <1>0, <2>1, <3>2, <3>6 DEF Lists, Sends, LoopTypes
    <3> QED BY <3>1, <3>5, <3>7
  <2>2. CASE Unlists(n.dev)
    <3>1. PICK k \in DOMAIN joysticks :
            /\ joysticks' = RemoveAt(joysticks, k)
            /\ Sends([kind |-> "removed", id |-> joysticks[k].id])
            /\ UNCHANGED nextId
      BY <2>2 DEF Unlists
    <3>2. joysticks[k].id \in 1..(nextId - 1) /\ k \in 1..Len(joysticks)
      BY <1>0, EntryType DEF LoopTypes
    <3>3. Entries' = Entries /\ Events' = Events
      BY <3>1 DEF Entries, Events
    <3>4. joysticks' \in Seq(Entries)
      BY <1>0, <3>1, <3>2, TakenOut DEF LoopTypes
    <3>5. [kind |-> "removed", id |-> joysticks[k].id] \in Events
      BY <3>2 DEF Events
    <3>6. queue' \in Seq(Events)
      BY <1>0, <3>1, <3>5 DEF Sends, LoopTypes
    <3> QED BY <3>1, <3>3, <3>4, <3>6
  <2>3. CASE UNCHANGED <<joysticks, queue, nextId>>
    <3>1. Entries' = Entries /\ Events' = Events
      BY <2>3 DEF Entries, Events
    <3> QED BY <1>0, <2>3, <3>1 DEF LoopTypes
  <2> QED BY <2>1, <2>2, <2>3 DEF Pump, n
<1>4. UNCHANGED <<phase, scanAt, node, grab, changes, slots, virtual, ownVars, historyVars>>
  BY DEF Pump
<1>5. pumping' \in BOOLEAN
  BY Zenon DEF Pump
<1>6. /\ 1..(nextId - 1) \subseteq 1..(nextId' - 1) /\ SlotValues \subseteq SlotValues'
      /\ nextId' \in Nat \ {0}
  BY <1>0, <1>3, Growing
<1>7. notices' \in Seq(Notices)
  BY <1>1 DEF Pump
<1>8. slots' \in [Players -> SlotValues']
  BY <1>0, <1>4, <1>6 DEF PadTypes
<1>9. PadTypes'
  BY <1>0, <1>4, <1>6, <1>7, <1>8 DEF PadTypes, ownVars, historyVars
<1>10. LoopTypes'
  BY <1>0, <1>3, <1>4, <1>5, <1>6 DEF LoopTypes, historyVars
<1> QED BY <1>9, <1>10, TypeParts

\* The kernel's notices are well typed.
LEMMA PlugType ==
    ASSUME TypeOK, NEW p \in RealPads, Plug(p) \/ Unplug(p)
    PROVE  TypeOK'
<1>0. PadTypes /\ LoopTypes
  BY TypeParts
<1>1. p \in Devices /\ Added(p) \in Notices /\ Removed(p) \in Notices
  BY DEF Devices, Notices, Added, Removed
<1>2. CASE Plug(p)
  <2>1. UNCHANGED <<phase, scanAt, grab, listVars, slots, virtual, ownVars, misdirected, turnedAway, letGo>>
    BY <1>2 DEF Plug
  <2>2. notices' \in Seq(Notices) /\ node' \in [Devices -> Nodes \cup {Absent}]
    BY <1>0, <1>1, <1>2 DEF PadTypes, Plug
  <2>3. changes' \in 0..MaxChanges
    BY <1>0, <1>2, PadsAssumption DEF LoopTypes, Plug
  <2>4. lateLookalike' \in BOOLEAN
    BY <1>2, Zenon DEF Plug
  <2>5. PadTypes'
    BY <1>0, <2>1, <2>2 DEF PadTypes, ownVars, listVars, SlotValues
  <2>6. LoopTypes'
    BY <1>0, <2>1, <2>3, <2>4 DEF LoopTypes, listVars, Entries, Events
  <2> QED BY <2>5, <2>6, TypeParts
<1>3. CASE Unplug(p)
  <2>1. UNCHANGED <<phase, scanAt, listVars, slots, virtual, ownVars, lateLookalike, misdirected>>
    BY <1>3 DEF Unplug
  <2>2. notices' \in Seq(Notices) /\ node' \in [Devices -> Nodes \cup {Absent}]
    BY <1>0, <1>1, <1>3 DEF PadTypes, Unplug
  <2>3. changes' \in 0..MaxChanges
    BY <1>0, <1>3, PadsAssumption DEF LoopTypes, Unplug
  <2>4. grab' \in [Nodes -> Players \cup {Nobody}] /\ turnedAway' \subseteq Devices
    BY <1>0, <1>3 DEF PadTypes, Unplug
  <2>5. letGo' \subseteq Devices
    <3>1. ASSUME NEW i \in Players, slots[i].held = node[p] PROVE slots[i].pad \in Devices
      <4>1. node[p] \in Nodes
        BY <1>0, <1>1, <1>3 DEF PadTypes, Unplug
      <4>2. node[p] # NoNode
        BY <4>1 DEF Nodes, NoNode
      <4>3. slots[i] # NoPad
        BY <3>1, <4>2 DEF NoPad
      <4> QED BY <1>0, <4>3 DEF PadTypes, SlotValues
    <3> QED BY <1>0, <1>3, <3>1 DEF LoopTypes, Unplug
  <2>6. PadTypes'
    BY <1>0, <2>1, <2>2, <2>4 DEF PadTypes, ownVars, listVars, SlotValues
  <2>7. LoopTypes'
    BY <1>0, <2>1, <2>3, <2>5 DEF LoopTypes, listVars, Entries, Events
  <2> QED BY <2>6, <2>7, TypeParts
<1> QED BY <1>2, <1>3

\* Every step keeps the types.
LEMMA StepType == TypeOK /\ [Next]_vars => TypeOK'
<1> SUFFICES ASSUME TypeOK, [Next]_vars PROVE TypeOK'
    OBVIOUS
<1>0. PadTypes /\ LoopTypes
  BY TypeParts
<1>1. CASE StartScan
  <2>1. UNCHANGED <<scanAt, node, grab, notices, changes, listVars, slots, virtual, ownVars, historyVars>>
    BY <1>1 DEF StartScan
  <2>2. PadTypes'
    BY <1>0, <2>1 DEF PadTypes, listVars, ownVars, historyVars, SlotValues
  <2>3. LoopTypes'
    BY <1>0, <1>1, <2>1 DEF StartScan, LoopTypes, listVars, historyVars, Entries, Events
  <2> QED BY <2>2, <2>3, TypeParts
<1>2. CASE EndScan
  <2>1. UNCHANGED <<node, grab, notices, changes, listVars, slots, virtual, ownVars, historyVars>>
    BY <1>2 DEF EndScan
  <2>2. PadTypes'
    BY <1>0, <2>1 DEF PadTypes, listVars, ownVars, historyVars, SlotValues
  <2>3. LoopTypes'
    BY <1>0, <1>2, <2>1 DEF EndScan, LoopTypes, listVars, historyVars, Entries, Events
  <2> QED BY <2>2, <2>3, TypeParts
<1>3. CASE Scan
  <2>1. UNCHANGED <<phase, changes, listVars, lateLookalike, misdirected, letGo>>
    BY <1>3 DEF Scan
  <2>2. PadTypes'
    BY <1>3, <2>1, AddPadType DEF Scan, listVars
  <2>3. LoopTypes'
    BY <1>0, <1>3, <2>1 DEF Scan, LoopTypes, listVars, Entries, Events
  <2> QED BY <2>2, <2>3, TypeParts
<1>4. CASE HandleAdded
  <2>1. UNCHANGED <<phase, scanAt, changes, joysticks, nextId, pumping, lateLookalike, letGo>>
    BY <1>4 DEF HandleAdded
  <2>2. PadTypes'
    BY <1>4, <2>1, AddPadType DEF HandleAdded
  <2>3. queue' \in Seq(Events)
    BY <1>0, <1>4, Told DEF HandleAdded, LoopTypes
  <2>4. misdirected' \in BOOLEAN
    BY <1>4, Zenon DEF HandleAdded
  <2>5. LoopTypes'
    BY <1>0, <2>1, <2>3, <2>4 DEF LoopTypes, Entries, Events
  <2> QED BY <2>2, <2>5, TypeParts
<1>5. CASE HandleRemoved
  <2>1. UNCHANGED <<phase, scanAt, changes, joysticks, nextId, pumping, ownVars, lateLookalike, misdirected, turnedAway>>
    BY <1>5 DEF HandleRemoved
  <2>2. PadTypes' /\ letGo' \subseteq Devices
    <3>1. CASE \E i \in Players : Leaves(i)
      BY <3>1, <2>1, LeavesType
    <3>2. CASE UNCHANGED <<slots, grab, letGo, virtual, node, notices>>
      BY <1>0, <2>1, <3>2 DEF PadTypes, LoopTypes, ownVars, SlotValues
    <3> QED BY <1>5, <3>1, <3>2 DEF HandleRemoved
  <2>3. queue' \in Seq(Events)
    BY <1>0, <1>5, Told DEF HandleRemoved, LoopTypes
  <2>4. LoopTypes'
    BY <1>0, <2>1, <2>2, <2>3 DEF LoopTypes, Entries, Events
  <2> QED BY <2>2, <2>4, TypeParts
<1>6. CASE UNCHANGED vars
  <2>1. PadTypes'
    BY <1>0, <1>6 DEF vars, PadTypes, listVars, ownVars, historyVars, SlotValues
  <2>2. LoopTypes'
    BY <1>0, <1>6 DEF vars, LoopTypes, listVars, historyVars, Entries, Events
  <2> QED BY <2>1, <2>2, TypeParts
<1> QED BY <1>1, <1>2, <1>3, <1>4, <1>5, <1>6, PlugType, PumpType DEF Next

\* The type invariant: what the daemon holds, what SDL lists and what is on its way.
THEOREM TypeCorrect == Spec => []TypeOK
<1>1. Init => TypeOK
  BY InitType
<1>2. TypeOK /\ [Next]_vars => TypeOK'
  BY StepType
<1> QED BY <1>1, <1>2, PTL DEF Spec

-----------------------------------------------------------------------------
(* The nodes of the players.                                               *)

\* A node that is given to a player is on no other slot.
LEMMA HoldsUnshared ==
    ASSUME TypeOK, NoSharedNode, NEW i \in Players, NEW j, NEW own, Holds(i, j, own)
    PROVE  NoSharedNode'
<1>0. slots \in [Players -> SlotValues]
  BY TypeParts DEF PadTypes
<1>1. PICK n : /\ slots' = [slots EXCEPT ![i] = [id |-> j.id, pad |-> j.dev, held |-> n]]
               /\ n = NoNode \/ n \notin HeldNodes
  BY DEF Holds, HoldsSiblings, HoldsNode, NodesFor, IsLowest
<1>2. \A k \in Players : k # i => slots'[k] = slots[k] /\ (slots[k].held # n \/ n = NoNode)
  BY <1>0, <1>1 DEF HeldNodes
<1>3. slots'[i].held = n /\ \A k \in Players : k # i => slots'[k] = slots[k]
  BY <1>0, <1>1
<1> QED BY <1>2, <1>3 DEF NoSharedNode

\* No event node is given to two players, for any pads and any number of players.
THEOREM NodesAreUnshared == Spec => []NoSharedNode
<1>1. Init => NoSharedNode
  BY DEF Init, StartsWith, NoSharedNode, NoPad
<1>2. TypeOK /\ NoSharedNode /\ [Next]_vars => NoSharedNode'
  <2> SUFFICES ASSUME TypeOK, NoSharedNode, [Next]_vars PROVE NoSharedNode'
      OBVIOUS
  <2>0. slots \in [Players -> SlotValues]
    BY TypeParts DEF PadTypes
  <2>1. CASE UNCHANGED slots
    BY <2>1 DEF NoSharedNode
  <2>2. ASSUME NEW index, addPad(index) PROVE NoSharedNode'
    <3>1. ASSUME NEW j, TakeSlot(j) PROVE NoSharedNode'
      <4>1. PICK i \in Players :
              \/ \E own : Holds(i, j, own)
              \/ slots' = [slots EXCEPT ![i] = [id |-> j.id, pad |-> j.dev, held |-> NoNode]]
        BY <3>1 DEF TakeSlot
      <4>2. CASE slots' = [slots EXCEPT ![i] = [id |-> j.id, pad |-> j.dev, held |-> NoNode]]
        BY <2>0, <4>2 DEF NoSharedNode
      <4> QED BY <4>1, <4>2, HoldsUnshared
    <3> QED BY <2>1, <2>2, <3>1 DEF addPad, ClaimOwn, Ignore
  <2>3. ASSUME NEW i \in Players, Leaves(i) PROVE NoSharedNode'
    BY <2>0, <2>3 DEF Leaves, NoSharedNode, NoPad
  <2> QED
    BY <2>1, <2>2, <2>3
       DEF Next, Plug, Unplug, Pump, StartScan, Scan, EndScan, HandleAdded, HandleRemoved, vars
<1> QED BY <1>1, <1>2, TypeCorrect, PTL DEF Spec

-----------------------------------------------------------------------------
(* What is ours.                                                           *)

IsVirtualNotice(n) == n.kind = "added" /\ n.dev \in VirtualPads

\* The virtual devices SDL has not been told of, by their place in s.
OnTheWay(s) == {k \in 1..Len(s) : IsVirtualNotice(s[k])}

\* The instance ids of virtual devices that isOwn has not met.
Unclaimed ==
    {id \in 1..(nextId - 1) :
        /\ id \notin ownIds
        /\ \E k \in DOMAIN joysticks : joysticks[k].id = id /\ joysticks[k].dev \in VirtualPads}

\* An instance id is one device's.
IdsInv ==
    \A k, l \in DOMAIN joysticks : joysticks[k].id = joysticks[l].id => joysticks[k].dev = joysticks[l].dev

\* While no lookalike has come since the start, those there are were all seen before, no
\* virtual device was, and each of these that isOwn has not met is one of pendingOwn.
KnownInv ==
    /\ \A k \in 1..Len(notices) : notices[k].kind = "added" => notices[k].dev \notin Lookalikes
    /\ \A k \in DOMAIN joysticks : joysticks[k].dev \in Lookalikes => joysticks[k].id \in seenBefore
    /\ \A k \in DOMAIN joysticks : joysticks[k].dev \in VirtualPads => joysticks[k].id \notin seenBefore
    /\ Cardinality(Unclaimed) + Cardinality(OnTheWay(notices)) <= pendingOwn
    /\ OwnNeverAPlayer

IInv == TypeOK /\ IdsInv /\ (~lateLookalike => KnownInv)

\* A real pad is not a virtual one.
LEMMA TwoKinds == RealPads \cap VirtualPads = {} /\ Lookalikes \cap VirtualPads = {}
BY PadsAssumption DEF VirtualPads, Virtual, Players, Lookalikes

\* What is on its way can be counted, and what SDL is told of is on its way no longer.
LEMMA OneFewer ==
    ASSUME NEW s \in Seq(Notices), s # <<>>
    PROVE  /\ Cardinality(OnTheWay(s)) \in Nat /\ Cardinality(OnTheWay(Tail(s))) \in Nat
           /\ Cardinality(OnTheWay(Tail(s))) <= Cardinality(OnTheWay(s))
           /\ IsVirtualNotice(Head(s)) => Cardinality(OnTheWay(Tail(s))) + 1 <= Cardinality(OnTheWay(s))
<1> DEFINE A == OnTheWay(s)
           B == OnTheWay(Tail(s))
           f == [k \in B |-> k + 1]
<1>1. /\ Tail(s) \in Seq(Notices) /\ Len(s) \in Nat /\ Len(s) > 0
      /\ Len(Tail(s)) = Len(s) - 1 /\ Head(s) = s[1]
      /\ \A k \in 1..(Len(s) - 1) : Tail(s)[k] = s[k + 1]
  BY Told
<1>2. IsFiniteSet(1..Len(s))
  BY <1>1, FS_Interval
<1>3. IsFiniteSet(A)
  BY <1>2, FS_Subset DEF OnTheWay
<1>4. \A k \in B : k \in Nat /\ k >= 1 /\ k + 1 \in A \ {1}
  BY <1>1 DEF OnTheWay
<1> HIDE DEF A, B
<1>5. f \in Injection(B, A \ {1})
  BY <1>4 DEF Injection, IsInjective
<1>6. IsFiniteSet(A \ {1}) /\ Cardinality(A \ {1}) = IF 1 \in A THEN Cardinality(A) - 1 ELSE Cardinality(A)
  BY <1>3, FS_RemoveElement
<1>7. IsFiniteSet(B) /\ Cardinality(B) <= Cardinality(A \ {1})
  BY <1>5, <1>6, FS_Injection
<1>8. Cardinality(A) \in Nat /\ Cardinality(B) \in Nat /\ Cardinality(A \ {1}) \in Nat
  BY <1>3, <1>6, <1>7, FS_CardinalityType
<1>9. IsVirtualNotice(Head(s)) => 1 \in A
  BY <1>1 DEF A, OnTheWay
<1>10. /\ Cardinality(B) <= Cardinality(A)
       /\ IsVirtualNotice(Head(s)) => Cardinality(B) + 1 <= Cardinality(A)
  BY <1>6, <1>7, <1>8, <1>9
<1> QED BY <1>8, <1>10 DEF A, B

\* A notice adds one at most, and none unless it is of a virtual device added.
LEMMA OneMore ==
    ASSUME NEW s \in Seq(Notices), NEW n \in Notices
    PROVE  /\ Cardinality(OnTheWay(s)) \in Nat /\ Cardinality(OnTheWay(Append(s, n))) \in Nat
           /\ Cardinality(OnTheWay(Append(s, n))) <= Cardinality(OnTheWay(s)) + 1
           /\ ~IsVirtualNotice(n) => OnTheWay(Append(s, n)) = OnTheWay(s)
<1> DEFINE A == OnTheWay(s)
           B == OnTheWay(Append(s, n))
<1>1. /\ Len(s) \in Nat /\ Len(Append(s, n)) = Len(s) + 1
      /\ \A k \in 1..Len(s) : Append(s, n)[k] = s[k]
      /\ Append(s, n)[Len(s) + 1] = n
  BY AppendProperties, LenProperties
<1>2. IsFiniteSet(1..Len(s))
  BY <1>1, FS_Interval
<1>3. IsFiniteSet(A)
  BY <1>2, FS_Subset DEF OnTheWay
<1>4. B \subseteq A \cup {Len(s) + 1}
  BY <1>1 DEF OnTheWay
<1>5. ~IsVirtualNotice(n) => B = A
  BY <1>1 DEF OnTheWay
<1> HIDE DEF A, B
<1>6. /\ IsFiniteSet(A \cup {Len(s) + 1})
      /\ Cardinality(A \cup {Len(s) + 1}) = IF Len(s) + 1 \in A THEN Cardinality(A) ELSE Cardinality(A) + 1
  BY <1>3, FS_AddElement
<1>7. IsFiniteSet(B) /\ Cardinality(B) <= Cardinality(A \cup {Len(s) + 1})
  BY <1>4, <1>6, FS_Subset
<1>8. Cardinality(A) \in Nat /\ Cardinality(B) \in Nat
  BY <1>3, <1>7, FS_CardinalityType
<1>9. Cardinality(B) <= Cardinality(A) + 1
  BY <1>6, <1>7, <1>8
<1> QED BY <1>5, <1>8, <1>9 DEF A, B

\* The unclaimed ids can be counted.
LEMMA Countable ==
    ASSUME TypeOK
    PROVE  IsFiniteSet(Unclaimed) /\ Cardinality(Unclaimed) \in Nat
<1>1. nextId \in Nat \ {0}
  BY TypeParts DEF LoopTypes
<1>2. IsFiniteSet(1..(nextId - 1))
  BY <1>1, FS_Interval
<1>3. IsFiniteSet(Unclaimed)
  BY <1>2, FS_Subset DEF Unclaimed
<1> QED BY <1>3, FS_CardinalityType

\* What addPad does not take for ours is a real pad.
LEMMA NotOursIsReal ==
    ASSUME TypeOK, KnownInv, NEW k \in DOMAIN joysticks,
           ~KnownOwn(joysticks[k]), ~TakenForOwn(joysticks[k])
    PROVE  joysticks[k].dev \notin VirtualPads
<1> DEFINE j == joysticks[k]
<1> SUFFICES ASSUME j.dev \in VirtualPads PROVE FALSE
    OBVIOUS
<1>1. j.id \in Unclaimed
  BY EntryType DEF KnownOwn, Unclaimed
<1>2. Cardinality(Unclaimed) # 0
  BY <1>1, Countable, FS_EmptySet
<1>3. notices \in Seq(Notices) /\ pendingOwn \in Nat
  BY TypeParts DEF PadTypes
<1>4. Cardinality(OnTheWay(notices)) \in Nat
  <2>1. Len(notices) \in Nat
    BY <1>3, LenProperties
  <2>2. IsFiniteSet(1..Len(notices))
    BY <2>1, FS_Interval
  <2> QED BY <2>2, FS_Subset, FS_CardinalityType DEF OnTheWay
<1>5. pendingOwn > 0
  BY <1>2, <1>3, <1>4, Countable DEF KnownInv
<1>6. j.id \notin seenBefore /\ IdsOf(j.dev) = VirtualIds
  BY TwoKinds DEF KnownInv, IdsOf
<1> QED BY <1>5, <1>6 DEF TakenForOwn

\* At the start one virtual device is on its way, and all the pads were seen.
LEMMA InitOwn == Init => IInv
<1> SUFFICES ASSUME Init PROVE IInv
    OBVIOUS
<1>0. TypeOK
  BY InitType
<1>1. PICK n \in 0..Cardinality(RealPads) : \E order \in [1..n -> RealPads] : StartsWith(n, order)
  BY DEF Init
<1>2. PICK order \in [1..n -> RealPads] : StartsWith(n, order)
  BY <1>1
<1>3. /\ joysticks = [k \in 1..n |-> [id |-> k, dev |-> order[k]]]
      /\ notices = <<Added(Virtual(1))>> /\ seenBefore = 1..n /\ ownIds = {} /\ pendingOwn = 1
      /\ slots = [i \in Players |-> NoPad]
  BY <1>2 DEF StartsWith
<1>4. Virtual(1) \in VirtualPads
  BY PadsAssumption DEF VirtualPads, Players
<1>5. IdsInv
  BY <1>3 DEF IdsInv
<1>6. \A k \in DOMAIN joysticks : joysticks[k].id \in seenBefore /\ joysticks[k].dev \notin VirtualPads
  BY <1>3, TwoKinds
<1>7. Len(notices) = 1 /\ notices[1] = Added(Virtual(1))
  BY <1>3
<1>8. \A k \in 1..Len(notices) : notices[k].kind = "added" => notices[k].dev \notin Lookalikes
  BY <1>4, <1>7, TwoKinds DEF Added
<1>9. Cardinality(Unclaimed) = 0
  <2>1. Unclaimed = {}
    BY <1>6 DEF Unclaimed
  <2> QED BY <2>1, FS_EmptySet
<1>10. Cardinality(OnTheWay(notices)) <= 1
  <2>1. IsFiniteSet({}) /\ Cardinality({}) = 0
    BY FS_EmptySet
  <2>2. IsFiniteSet({1}) /\ Cardinality({1}) = 1
    <3>1. /\ IsFiniteSet({} \cup {1})
          /\ Cardinality({} \cup {1}) = IF 1 \in {} THEN Cardinality({}) ELSE Cardinality({}) + 1
      BY <2>1, FS_AddElement
    <3>2. {} \cup {1} = {1}
      OBVIOUS
    <3> QED BY <2>1, <3>1, <3>2
  <2>3. OnTheWay(notices) \subseteq {1}
    BY <1>7 DEF OnTheWay
  <2> QED BY <2>2, <2>3, FS_Subset
<1>11. Cardinality(OnTheWay(notices)) \in Nat
  <2>0. Len(notices) \in Int /\ 1 \in Int
    BY <1>7
  <2>1. IsFiniteSet(1..Len(notices))
    BY <2>0, FS_Interval
  <2> QED BY <2>1, FS_Subset, FS_CardinalityType DEF OnTheWay
<1>12. OwnNeverAPlayer
  BY <1>3 DEF OwnNeverAPlayer, Occupied
<1>13. KnownInv
  BY <1>3, <1>6, <1>8, <1>9, <1>10, <1>11, <1>12, TwoKinds DEF KnownInv
<1> QED BY <1>0, <1>5, <1>13 DEF IInv

\* One more notice that is neither of a lookalike nor of a virtual device added.
LEMMA Noticed ==
    ASSUME TypeOK, KnownInv, NEW n \in Notices, notices' = Append(notices, n),
           ~IsVirtualNotice(n), n.kind = "added" => n.dev \notin Lookalikes,
           UNCHANGED <<joysticks, nextId, slots, ownVars>>
    PROVE  KnownInv'
<1>1. notices \in Seq(Notices)
  BY TypeParts DEF PadTypes
<1>2. OnTheWay(notices') = OnTheWay(notices) /\ Unclaimed' = Unclaimed
  BY <1>1, OneMore DEF Unclaimed, ownVars
<1>3. \A k \in 1..Len(notices') : notices'[k].kind = "added" => notices'[k].dev \notin Lookalikes
  <2>1. /\ Len(notices) \in Nat /\ Len(notices') = Len(notices) + 1
        /\ \A k \in 1..Len(notices) : notices'[k] = notices[k]
        /\ notices'[Len(notices) + 1] = n
    BY <1>1, AppendProperties, LenProperties
  <2> QED BY <2>1 DEF KnownInv
<1>4. OwnNeverAPlayer'
  BY DEF KnownInv, OwnNeverAPlayer, Occupied
<1> QED BY <1>2, <1>3, <1>4 DEF KnownInv, ownVars

\* SDL is told of a device: the notice and the new instance id are one virtual device's.
LEMMA PumpOwn == IInv /\ Pump => IInv'
<1> SUFFICES ASSUME IInv, Pump PROVE IInv'
    OBVIOUS
<1>0. TypeOK /\ TypeOK' /\ IdsInv /\ PadTypes /\ LoopTypes
  BY PumpType, TypeParts DEF IInv
<1> DEFINE n == Head(notices)
<1>1. /\ n \in Notices /\ n = notices[1] /\ notices # <<>> /\ notices' = Tail(notices)
      /\ Len(notices) \in Nat /\ Len(notices) > 0 /\ Len(notices') = Len(notices) - 1
      /\ \A k \in 1..(Len(notices) - 1) : notices'[k] = notices[k + 1]
  BY <1>0, Told, LenProperties DEF Pump, PadTypes
<1>2. /\ Cardinality(OnTheWay(notices)) \in Nat /\ Cardinality(OnTheWay(notices')) \in Nat
      /\ Cardinality(OnTheWay(notices')) <= Cardinality(OnTheWay(notices))
      /\ IsVirtualNotice(n) => Cardinality(OnTheWay(notices')) + 1 <= Cardinality(OnTheWay(notices))
  BY <1>0, <1>1, OneFewer DEF PadTypes
<1>3. n \in Notices /\ n.dev \in Devices
  BY <1>1 DEF Notices
<1>4. UNCHANGED <<slots, seenBefore, ownIds, pendingOwn, lateLookalike>>
  BY DEF Pump, ownVars, historyVars
<1>5. OwnNeverAPlayer => OwnNeverAPlayer'
  BY <1>4 DEF OwnNeverAPlayer, Occupied
<1>6. KnownInv => \A k \in 1..Len(notices') : notices'[k].kind = "added" => notices'[k].dev \notin Lookalikes
  BY <1>1 DEF KnownInv
<1>7. KnownInv => Cardinality(Unclaimed) + Cardinality(OnTheWay(notices)) <= pendingOwn
  BY DEF KnownInv
<1>8. /\ IsFiniteSet(Unclaimed) /\ Cardinality(Unclaimed) \in Nat
      /\ IsFiniteSet(Unclaimed') /\ Cardinality(Unclaimed') \in Nat
  <2>1. nextId' \in Nat \ {0}
    BY <1>0, TypeParts DEF LoopTypes
  <2>2. IsFiniteSet(1..(nextId' - 1))
    BY <2>1, FS_Interval
  <2>3. IsFiniteSet(Unclaimed')
    BY <2>2, FS_Subset DEF Unclaimed
  <2> QED BY <1>0, <2>3, Countable, FS_CardinalityType
<1>9. CASE n.kind = "added" /\ Lists(n.dev)
  <2> DEFINE e == [id |-> nextId, dev |-> n.dev]
  <2>1. nextId' = nextId + 1 /\ nextId \in Nat \ {0}
    BY <1>0, <1>9 DEF Lists, LoopTypes
  <2>2. \A k \in DOMAIN joysticks' : joysticks'[k] = e \/ \E l \in DOMAIN joysticks : joysticks'[k] = joysticks[l]
    <3>1. joysticks \in Seq(Entries')
      BY <1>0, <2>1, Growing DEF LoopTypes
    <3>2. e \in Entries'
      BY <1>3, <2>1 DEF Entries
    <3>3. PlaceFor(n.dev) \in 1..(Len(joysticks) + 1)
      BY <1>0, PlaceInList
    <3> QED BY <1>9, <3>1, <3>2, <3>3, Inserted DEF Lists
  <2>3. \A l \in DOMAIN joysticks : joysticks[l].id \in 1..(nextId - 1)
    BY <1>0, EntryType
  <2>4. IdsInv'
    BY <1>0, <2>1, <2>2, <2>3 DEF IdsInv
  <2>5. ASSUME KnownInv PROVE KnownInv'
    <3>1. n.dev \notin Lookalikes
      BY <1>1, <1>9, <2>5 DEF KnownInv
    <3>2. \A k \in DOMAIN joysticks' : joysticks'[k].dev \in Lookalikes => joysticks'[k].id \in seenBefore'
      BY <1>4, <2>2, <2>5, <3>1 DEF KnownInv
    <3>3. nextId \notin seenBefore
      BY <1>0, <2>1 DEF PadTypes
    <3>4. \A k \in DOMAIN joysticks' : joysticks'[k].dev \in VirtualPads => joysticks'[k].id \notin seenBefore'
      BY <1>4, <2>2, <2>5, <3>3 DEF KnownInv
    <3>5. CASE n.dev \in VirtualPads
      <4>1. Unclaimed' \subseteq Unclaimed \cup {nextId}
        BY <1>4, <2>1, <2>2, <2>3 DEF Unclaimed
      <4>2. /\ IsFiniteSet(Unclaimed \cup {nextId})
            /\ Cardinality(Unclaimed \cup {nextId}) =
                  IF nextId \in Unclaimed THEN Cardinality(Unclaimed) ELSE Cardinality(Unclaimed) + 1
        BY <1>8, FS_AddElement
      <4>3. Cardinality(Unclaimed') <= Cardinality(Unclaimed) + 1
        <5>1. Cardinality(Unclaimed') <= Cardinality(Unclaimed \cup {nextId})
          BY <4>1, <4>2, FS_Subset
        <5> QED BY <1>8, <4>2, <5>1
      <4>4. Cardinality(OnTheWay(notices')) + 1 <= Cardinality(OnTheWay(notices))
        BY <1>2, <1>9, <3>5 DEF IsVirtualNotice
      <4>5. Cardinality(Unclaimed') + Cardinality(OnTheWay(notices')) <= pendingOwn'
        BY <1>0, <1>2, <1>4, <1>7, <1>8, <2>5, <4>3, <4>4 DEF PadTypes
      <4> QED BY <1>5, <1>6, <2>5, <3>2, <3>4, <4>5 DEF KnownInv
    <3>6. CASE n.dev \notin VirtualPads
      <4>1. Unclaimed' \subseteq Unclaimed
        BY <1>4, <2>1, <2>2, <2>3, <3>6 DEF Unclaimed
      <4>2. Cardinality(Unclaimed') <= Cardinality(Unclaimed)
        BY <1>8, <4>1, FS_Subset
      <4>3. Cardinality(Unclaimed') + Cardinality(OnTheWay(notices')) <= pendingOwn'
        BY <1>0, <1>2, <1>4, <1>7, <1>8, <2>5, <4>2 DEF PadTypes
      <4> QED BY <1>5, <1>6, <2>5, <3>2, <3>4, <4>3 DEF KnownInv
    <3> QED BY <3>5, <3>6
  <2> QED BY <1>0, <1>4, <2>4, <2>5 DEF IInv
<1>10. CASE ~(n.kind = "added" /\ Lists(n.dev))
  <2>1. nextId' = nextId /\ \A k \in DOMAIN joysticks' : \E l \in DOMAIN joysticks : joysticks'[k] = joysticks[l]
    <3>1. CASE Unlists(n.dev)
      <4>1. PICK k \in DOMAIN joysticks : joysticks' = RemoveAt(joysticks, k) /\ UNCHANGED nextId
        BY <3>1 DEF Unlists
      <4>2. k \in 1..Len(joysticks) /\ joysticks \in Seq(Entries)
        BY <1>0, LenProperties DEF LoopTypes
      <4> QED BY <4>1, <4>2, TakenOut
    <3>2. CASE UNCHANGED <<joysticks, nextId>>
      BY <3>2
    <3> QED BY <1>10, <3>1, <3>2 DEF Pump
  <2>2. IdsInv'
    BY <1>0, <2>1 DEF IdsInv
  <2>3. ASSUME KnownInv PROVE KnownInv'
    <3>1. Unclaimed' \subseteq Unclaimed
      BY <1>4, <2>1 DEF Unclaimed
    <3>2. Cardinality(Unclaimed') <= Cardinality(Unclaimed)
      BY <1>8, <3>1, FS_Subset
    <3>3. Cardinality(Unclaimed') + Cardinality(OnTheWay(notices')) <= pendingOwn'
      BY <1>0, <1>2, <1>4, <1>7, <1>8, <2>3, <3>2 DEF PadTypes
    <3>4. \A k \in DOMAIN joysticks' :
             /\ joysticks'[k].dev \in Lookalikes => joysticks'[k].id \in seenBefore'
             /\ joysticks'[k].dev \in VirtualPads => joysticks'[k].id \notin seenBefore'
      BY <1>4, <2>1, <2>3 DEF KnownInv
    <3> QED BY <1>5, <1>6, <2>3, <3>3, <3>4 DEF KnownInv
  <2> QED BY <1>0, <1>4, <2>2, <2>3 DEF IInv
<1> QED BY <1>9, <1>10

\* A joystick is claimed: the virtual device it is was counted, and is no longer.
LEMMA ClaimOwned ==
    ASSUME TypeOK, IdsInv, KnownInv, NEW k \in DOMAIN joysticks, ClaimOwn(joysticks[k]),
           UNCHANGED <<joysticks, nextId>>
    PROVE  KnownInv'
<1> DEFINE j == joysticks[k]
<1>1. /\ ownIds' = ownIds \cup {j.id} /\ pendingOwn' = pendingOwn - 1 /\ pendingOwn > 0
      /\ UNCHANGED <<seenBefore, slots, notices>>
      /\ j.id \notin ownIds /\ j.id \notin seenBefore /\ IdsOf(j.dev) = VirtualIds
  BY DEF ClaimOwn, TakenForOwn, KnownOwn
<1>2. j.dev \in Devices /\ j.id \in 1..(nextId - 1)
  BY EntryType
<1>3. j.dev \in VirtualPads
  BY <1>1, <1>2 DEF KnownInv, Devices, Lookalikes, IdsOf
<1>4. j.id \in Unclaimed
  BY <1>1, <1>2, <1>3 DEF Unclaimed
<1>5. Unclaimed' = Unclaimed \ {j.id}
  BY <1>1 DEF Unclaimed
<1> HIDE DEF j
<1>6. Cardinality(Unclaimed \ {j.id}) = Cardinality(Unclaimed) - 1
  BY <1>4, Countable, FS_RemoveElement
<1>7. notices \in Seq(Notices) /\ pendingOwn \in Nat
  BY TypeParts DEF PadTypes
<1>8. Cardinality(OnTheWay(notices)) \in Nat
  <2>1. Len(notices) \in Nat
    BY <1>7, LenProperties
  <2>2. IsFiniteSet(1..Len(notices))
    BY <2>1, FS_Interval
  <2> QED BY <2>2, FS_Subset, FS_CardinalityType DEF OnTheWay
<1>9. Cardinality(Unclaimed') + Cardinality(OnTheWay(notices')) <= pendingOwn'
  BY <1>1, <1>5, <1>6, <1>7, <1>8, Countable DEF KnownInv
<1>10. OwnNeverAPlayer'
  BY <1>1 DEF KnownInv, OwnNeverAPlayer, Occupied
<1> QED BY <1>1, <1>9, <1>10 DEF KnownInv

\* A real pad is given to a player: what it makes is counted as it is made.
LEMMA TakeSlotOwn ==
    ASSUME TypeOK, IdsInv, KnownInv, NEW k \in DOMAIN joysticks, TakeSlot(joysticks[k]),
           UNCHANGED <<joysticks, nextId>>
    PROVE  KnownInv'
<1> DEFINE j == joysticks[k]
<1>1. j.dev \notin VirtualPads
  BY NotOursIsReal DEF TakeSlot
<1>2. seenBefore' = seenBefore \cup {j.id} /\ ownIds' = ownIds
  BY DEF TakeSlot
<1>3. PICK i \in Players :
        /\ \E n : slots' = [slots EXCEPT ![i] = [id |-> j.id, pad |-> j.dev, held |-> n]]
        /\ \/ UNCHANGED <<pendingOwn, notices>>
           \/ notices' = Append(notices, Added(Virtual(i))) /\ pendingOwn' = pendingOwn + 1
  BY DEF TakeSlot, Holds, HoldsSiblings, HoldsNode
<1>4. \A l \in DOMAIN joysticks :
         /\ joysticks[l].dev \in Lookalikes => joysticks[l].id \in seenBefore'
         /\ joysticks[l].dev \in VirtualPads => joysticks[l].id \notin seenBefore'
  BY <1>1, <1>2 DEF IdsInv, KnownInv
<1> HIDE DEF j
<1>5. OwnNeverAPlayer'
  <2>1. slots \in [Players -> SlotValues]
    BY TypeParts DEF PadTypes
  <2>2. PICK n : slots' = [slots EXCEPT ![i] = [id |-> j.id, pad |-> j.dev, held |-> n]]
    BY <1>3
  <2> QED BY <1>1, <2>1, <2>2 DEF KnownInv, OwnNeverAPlayer, Occupied
<1>6. Unclaimed' = Unclaimed
  BY <1>2 DEF Unclaimed
<1>7. notices \in Seq(Notices) /\ pendingOwn \in Nat
  BY TypeParts DEF PadTypes
<1>8. CASE UNCHANGED <<pendingOwn, notices>>
  BY <1>4, <1>5, <1>6, <1>8 DEF KnownInv
<1>9. CASE notices' = Append(notices, Added(Virtual(i))) /\ pendingOwn' = pendingOwn + 1
  <2>1. Virtual(i) \in VirtualPads /\ Added(Virtual(i)) \in Notices
    BY DEF VirtualPads, Devices, Added, Notices
  <2>2. /\ Cardinality(OnTheWay(notices)) \in Nat /\ Cardinality(OnTheWay(notices')) \in Nat
        /\ Cardinality(OnTheWay(notices')) <= Cardinality(OnTheWay(notices)) + 1
    BY <1>7, <1>9, <2>1, OneMore
  <2>3. Cardinality(Unclaimed') + Cardinality(OnTheWay(notices')) <= pendingOwn'
    BY <1>6, <1>7, <1>9, <2>2, Countable DEF KnownInv
  <2>4. \A l \in 1..Len(notices') : notices'[l].kind = "added" => notices'[l].dev \notin Lookalikes
    <3>1. /\ Len(notices) \in Nat /\ Len(notices') = Len(notices) + 1
          /\ \A l \in 1..Len(notices) : notices'[l] = notices[l]
          /\ notices'[Len(notices) + 1] = Added(Virtual(i))
      BY <1>7, <1>9, <2>1, AppendProperties, LenProperties
    <3>2. Added(Virtual(i)).dev \notin Lookalikes
      BY <2>1, TwoKinds DEF Added
    <3> QED BY <3>1, <3>2 DEF KnownInv
  <2> QED BY <1>4, <1>5, <2>3, <2>4 DEF KnownInv
<1> QED BY <1>3, <1>8, <1>9

\* addPad keeps what is known of our own.
LEMMA AddPadOwn ==
    ASSUME TypeOK, IdsInv, KnownInv, NEW index, addPad(index), UNCHANGED <<joysticks, nextId>>
    PROVE  KnownInv'
<1>1. CASE UNCHANGED <<ownVars, slots, virtual, node, grab, notices, turnedAway>>
  BY <1>1 DEF ownVars, KnownInv, Unclaimed, OwnNeverAPlayer, Occupied
<1>2. ASSUME index \in DOMAIN joysticks, Ignore(joysticks[index]) PROVE KnownInv'
  <2> DEFINE j == joysticks[index]
  <2>1. j.dev \notin VirtualPads
    BY <1>2, NotOursIsReal DEF Ignore
  <2>2. seenBefore' = seenBefore \cup {j.id} /\ UNCHANGED <<ownIds, pendingOwn, slots, notices>>
    BY <1>2 DEF Ignore
  <2>3. \A l \in DOMAIN joysticks :
           /\ joysticks[l].dev \in Lookalikes => joysticks[l].id \in seenBefore'
           /\ joysticks[l].dev \in VirtualPads => joysticks[l].id \notin seenBefore'
    BY <1>2, <2>1, <2>2 DEF IdsInv, KnownInv
  <2>4. Unclaimed' = Unclaimed /\ OwnNeverAPlayer'
    BY <2>2 DEF Unclaimed, KnownInv, OwnNeverAPlayer, Occupied
  <2> QED BY <2>2, <2>3, <2>4 DEF KnownInv
<1> QED BY <1>1, <1>2, ClaimOwned, TakeSlotOwn DEF addPad

\* A pad that leaves takes its virtual device along: one more notice.
LEMMA LeavesOwn ==
    ASSUME TypeOK, KnownInv, NEW i \in Players, Leaves(i), UNCHANGED <<joysticks, nextId, ownVars>>
    PROVE  KnownInv'
<1>1. slots \in [Players -> SlotValues] /\ notices \in Seq(Notices)
  BY TypeParts DEF PadTypes
<1>2. OwnNeverAPlayer'
  BY <1>1 DEF KnownInv, OwnNeverAPlayer, Occupied, Leaves
<1>3. CASE UNCHANGED notices
  BY <1>2, <1>3 DEF KnownInv, Unclaimed, ownVars
<1>4. CASE notices' = Append(notices, Removed(Virtual(i)))
  <2>1. Removed(Virtual(i)) \in Notices /\ Removed(Virtual(i)).kind = "removed"
    BY DEF Removed, Notices, Devices, VirtualPads
  <2>2. OnTheWay(notices') = OnTheWay(notices) /\ Unclaimed' = Unclaimed
    BY <1>1, <1>4, <2>1, OneMore DEF IsVirtualNotice, Unclaimed, ownVars
  <2>3. \A k \in 1..Len(notices') : notices'[k].kind = "added" => notices'[k].dev \notin Lookalikes
    <3>1. /\ Len(notices) \in Nat /\ Len(notices') = Len(notices) + 1
          /\ \A k \in 1..Len(notices) : notices'[k] = notices[k]
          /\ notices'[Len(notices) + 1] = Removed(Virtual(i))
      BY <1>1, <1>4, <2>1, AppendProperties, LenProperties
    <3> QED BY <2>1, <3>1 DEF KnownInv
  <2> QED BY <1>2, <2>2, <2>3 DEF KnownInv, ownVars
<1> QED BY <1>3, <1>4 DEF Leaves

\* The invariant is kept by every step.
LEMMA StepOwn == IInv /\ [Next]_vars => IInv'
<1> SUFFICES ASSUME IInv, [Next]_vars PROVE IInv'
    OBVIOUS
<1>0. TypeOK /\ TypeOK' /\ IdsInv /\ (~lateLookalike => KnownInv)
  BY StepType DEF IInv
<1>1. CASE Pump
  BY <1>1, PumpOwn
<1>2. ASSUME UNCHANGED <<joysticks, nextId>>, ~lateLookalike' => ~lateLookalike,
             ~lateLookalike' => KnownInv'
      PROVE  IInv'
  BY <1>0, <1>2 DEF IInv, IdsInv
<1>3. ASSUME NEW p \in RealPads, Plug(p) PROVE IInv'
  <2>1. /\ notices' = Append(notices, Added(p)) /\ lateLookalike' = (lateLookalike \/ p \in Lookalikes)
        /\ UNCHANGED <<joysticks, nextId, slots, ownVars>>
    BY <1>3 DEF Plug, listVars
  <2>2. Added(p) \in Notices /\ ~IsVirtualNotice(Added(p))
    BY TwoKinds DEF Added, Notices, Devices, IsVirtualNotice
  <2>3. ASSUME ~lateLookalike' PROVE ~lateLookalike /\ KnownInv'
    <3>1. ~lateLookalike /\ p \notin Lookalikes
      BY <2>1, <2>3
    <3>2. Added(p).dev \notin Lookalikes
      BY <3>1 DEF Added
    <3> QED BY <1>0, <2>1, <2>2, <3>1, <3>2, Noticed
  <2> QED BY <1>2, <2>1, <2>3
<1>4. ASSUME NEW p \in RealPads, Unplug(p) PROVE IInv'
  <2>1. /\ notices' = Append(notices, Removed(p)) /\ lateLookalike' = lateLookalike
        /\ UNCHANGED <<joysticks, nextId, slots, ownVars>>
    BY <1>4 DEF Unplug, listVars
  <2>2. Removed(p) \in Notices /\ ~IsVirtualNotice(Removed(p)) /\ Removed(p).kind # "added"
    BY DEF Removed, Notices, Devices, IsVirtualNotice
  <2> QED BY <1>0, <1>2, <2>1, <2>2, Noticed
<1>5. CASE StartScan \/ EndScan \/ UNCHANGED vars
  <2>1. UNCHANGED <<joysticks, nextId, notices, slots, seenBefore, ownIds, pendingOwn, lateLookalike>>
    BY <1>5 DEF StartScan, EndScan, vars, listVars, ownVars, historyVars
  <2>2. KnownInv => KnownInv'
    BY <2>1 DEF KnownInv, Unclaimed, OwnNeverAPlayer, Occupied
  <2> QED BY <1>0, <1>2, <2>1, <2>2
<1>6. CASE Scan
  <2>1. addPad(scanAt) /\ UNCHANGED <<joysticks, nextId, lateLookalike>>
    BY <1>6 DEF Scan, listVars
  <2> QED BY <1>0, <1>2, <2>1, AddPadOwn
<1>7. CASE HandleAdded
  <2>1. addPad(Head(queue).index) /\ UNCHANGED <<joysticks, nextId, lateLookalike>>
    BY <1>7 DEF HandleAdded
  <2> QED BY <1>0, <1>2, <2>1, AddPadOwn
<1>8. CASE HandleRemoved
  <2>1. UNCHANGED <<joysticks, nextId, ownVars, lateLookalike>>
    BY <1>8 DEF HandleRemoved
  <2>2. CASE \E i \in Players : Leaves(i)
    BY <1>0, <1>2, <2>1, <2>2, LeavesOwn
  <2>3. CASE UNCHANGED <<slots, notices>>
    <3>1. KnownInv => KnownInv'
      BY <2>1, <2>3 DEF KnownInv, Unclaimed, OwnNeverAPlayer, Occupied, ownVars
    <3> QED BY <1>0, <1>2, <2>1, <3>1
  <2> QED BY <1>8, <2>2, <2>3 DEF HandleRemoved
<1> QED BY <1>1, <1>3, <1>4, <1>5, <1>6, <1>7, <1>8 DEF Next

\* IInv holds of every reachable state.
THEOREM Inductive == Spec => []IInv
<1> QED BY InitOwn, StepOwn, PTL DEF Spec

\* Our own virtual pads are never players (addPad), for any number of pads and players, as long
\* as no pad like ours is plugged in after the daemon's start.
THEOREM OursAreTold == Spec => []OwnToldApart
<1>1. IInv => OwnToldApart
  BY DEF IInv, KnownInv, OwnToldApart
<1> QED BY <1>1, Inductive, PTL

-----------------------------------------------------------------------------
(* Who plays, and what the App hears of it.                                *)

Entry(id, d)     == \E k \in DOMAIN joysticks : joysticks[k].id = id /\ joysticks[k].dev = d
AddedEvent(id)   == \E m \in 1..Len(queue) : queue[m].kind = "added" /\ queue[m].id = id
RemovedEvent(id) == \E m \in 1..Len(queue) : queue[m].kind = "removed" /\ queue[m].id = id
PlaysAs(i, id)   == Occupied(i) /\ slots[i].id = id

\* A notice that d has gone is on its way.
Going(d) == \E k \in 1..Len(notices) : notices[k] = Removed(d)

\* The last notice of its device.
IsLastWord(k) == \A l \in 1..Len(notices) : l > k => notices[l].dev # notices[k].dev

\* An event node is one device's.
NodeInv == \A d, e \in Devices : node[d] = node[e] /\ node[d] # Absent => d = e

\* A device is in SDL's list once, under an id of its own.
ListInv ==
    \A k, l \in DOMAIN joysticks :
        joysticks[k].id = joysticks[l].id \/ joysticks[k].dev = joysticks[l].dev => k = l

\* The last notice of a device says whether it is there; without one, SDL's list does.
WordInv ==
    /\ \A k \in 1..Len(notices) :
          IsLastWord(k) => (notices[k].kind = "added" <=> node[notices[k].dev] # Absent)
    /\ \A d \in Devices :
          (\A k \in 1..Len(notices) : notices[k].dev # d) => (Listed(d) <=> node[d] # Absent)

\* Nobody plays and no event is kept before the first look at the list; what an event says has
\* gone is not in the list.
QueueInv ==
    /\ phase = "settle" => scanAt = 1 /\ queue = <<>> /\ \A i \in Players : ~Occupied(i)
    /\ \A k \in DOMAIN joysticks : ~RemovedEvent(joysticks[k].id)

\* A player's joystick is listed, or an event says that it has gone; it is one player's; and
\* only the first player has a virtual device without a pad.
SlotInv ==
    /\ \A i \in Players : Occupied(i) => Entry(slots[i].id, slots[i].pad) \/ RemovedEvent(slots[i].id)
    /\ \A i, k \in Players : Occupied(i) /\ PlaysAs(k, slots[i].id) => i = k
    /\ virtual \ {1} \subseteq {i \in Players : Occupied(i)}

\* A pad that was listed as id plays, or an event of it waits, or it is about to go, or it was
\* one too many.
IsHandled(id, d) ==
    \/ d \in turnedAway
    \/ Going(d)
    \/ AddedEvent(id)
    \/ \E i \in Players : PlaysAs(i, id)

\* A real pad in the list is not taken for ours, and it is handled unless the scan will come to it.
HandledInv ==
    \A k \in DOMAIN joysticks : joysticks[k].dev \in RealPads =>
        /\ joysticks[k].id \notin ownIds
        /\ \/ phase = "settle"
           \/ phase = "scan" /\ k >= scanAt
           \/ IsHandled(joysticks[k].id, joysticks[k].dev)

\* The App has a virtual pad in place of d: player i's slot holds d's nodes...
IsHeld(i, d, n) ==
    \/ d \in Hidapi /\ grab[node[d]] # Nobody
    \/ d \notin Hidapi /\ (n = NoNode \/ grab[n] = i)

\* ...or d's removal is on its way or in SDL's list already, or another pad let it go.
IsSilent(i, id, d, n) == Going(d) \/ ~Entry(id, d) \/ d \in letGo \/ IsHeld(i, d, n)

SilentInv == \A i \in virtual : Occupied(i) => IsSilent(i, slots[i].id, slots[i].pad, slots[i].held)

PlayInv ==
    /\ IInv
    /\ NodeInv /\ ListInv /\ WordInv /\ QueueInv /\ SlotInv
    /\ ~lateLookalike /\ ~misdirected => HandledInv
    /\ SilentInv

-----------------------------------------------------------------------------
\* What is appended comes last, and the rest is as it was.
LEMMA AtTheEnd ==
    ASSUME NEW S, NEW s \in Seq(S), NEW e \in S
    PROVE  /\ Append(s, e) \in Seq(S)
           /\ Len(s) \in Nat /\ Len(Append(s, e)) = Len(s) + 1
           /\ \A k \in 1..Len(s) : Append(s, e)[k] = s[k]
           /\ Append(s, e)[Len(s) + 1] = e
BY AppendProperties, LenProperties

\* A slot that is taken has the joystick's id and an id is never 0.
LEMMA SlotTypes ==
    ASSUME TypeOK, NEW i \in Players, Occupied(i)
    PROVE  /\ slots[i].id \in 1..(nextId - 1)
           /\ slots[i].pad \in Devices
           /\ slots[i].held \in Nodes \cup {NoNode}
BY TypeParts DEF PadTypes, SlotValues, Occupied

\* addPad finds a player for a joystick: what it changes, and that it holds the pad if the App
\* has a virtual one in its place.
LEMMA SlotTaken ==
    ASSUME TypeOK, NodeInv, NEW k \in DOMAIN joysticks, TakeSlot(joysticks[k])
    PROVE  \E i \in Players, n \in Nodes \cup {NoNode} :
              /\ ~Occupied(i)
              /\ node[joysticks[k].dev] # Absent
              /\ \A l \in Players : ~PlaysAs(l, joysticks[k].id)
              /\ slots' = [slots EXCEPT ![i] = [id |-> joysticks[k].id, pad |-> joysticks[k].dev, held |-> n]]
              /\ \A m \in Nodes : grab[m] # Nobody => grab'[m] = grab[m]
              /\ \/ UNCHANGED <<node, notices, virtual>>
                 \/ /\ \E f \in Nodes : IsFreeNode(f) /\ node' = [node EXCEPT ![Virtual(i)] = f]
                    /\ notices' = Append(notices, Added(Virtual(i)))
                    /\ virtual' = virtual \cup {i}
                    /\ i \notin virtual
              /\ i \in virtual' =>
                    \/ joysticks[k].dev \in Hidapi /\ grab'[node[joysticks[k].dev]] # Nobody
                    \/ joysticks[k].dev \notin Hidapi /\ (n = NoNode \/ grab'[n] = i)
<1> DEFINE j == joysticks[k]
           Slot(n) == [id |-> j.id, pad |-> j.dev, held |-> n]
<1>0. /\ slots \in [Players -> SlotValues] /\ grab \in [Nodes -> Players \cup {Nobody}]
      /\ node \in [Devices -> Nodes \cup {Absent}] /\ j.dev \in Devices /\ virtual \subseteq Players
  BY TypeParts, EntryType DEF PadTypes
<1>1. PICK i \in Players :
        /\ ~Occupied(i)
        /\ \/ /\ i \in virtual
              /\ Holds(i, j, OwnNodes)
              /\ UNCHANGED <<virtual, pendingOwn, node, notices>>
           \/ /\ i \notin virtual
              /\ virtual' = virtual \cup {i}
              /\ \E n \in Nodes :
                    /\ IsFreeNode(n)
                    /\ node' = [node EXCEPT ![Virtual(i)] = n]
                    /\ Holds(i, j, OwnNodes \cup {n})
              /\ notices' = Append(notices, Added(Virtual(i)))
              /\ pendingOwn' = pendingOwn + 1
           \/ /\ i \notin virtual
              /\ slots' = [slots EXCEPT ![i] = Slot(NoNode)]
              /\ UNCHANGED <<virtual, pendingOwn, node, grab, notices>>
  BY DEF TakeSlot, IsLowest
<1>2. node[j.dev] # Absent /\ \A l \in Players : ~PlaysAs(l, j.id)
  BY DEF TakeSlot, NoSlotFor, PlaysAs
<1>3. ASSUME NEW own, Holds(i, j, own), j.dev \in Hidapi => node[j.dev] \notin own
      PROVE  \E n \in Nodes \cup {NoNode} :
               /\ slots' = [slots EXCEPT ![i] = Slot(n)]
               /\ \A m \in Nodes : grab[m] # Nobody => grab'[m] = grab[m]
               /\ \/ j.dev \in Hidapi /\ grab'[node[j.dev]] # Nobody
                  \/ j.dev \notin Hidapi /\ (n = NoNode \/ grab'[n] = i)
  <2>1. CASE j.dev \in Hidapi /\ HoldsSiblings(i, j, own)
    <3>1. node[j.dev] \in Alike(j.dev) /\ node[j.dev] \in Nodes
      BY <1>0, <1>2 DEF Alike
    <3>2. i # Nobody
      BY DEF Players, Nobody
    <3>3. grab'[node[j.dev]] # Nobody /\ \A m \in Nodes : grab[m] # Nobody => grab'[m] = grab[m]
      BY <1>3, <2>1, <3>1, <3>2 DEF HoldsSiblings
    <3> QED BY <2>1, <3>3 DEF HoldsSiblings
  <2>2. CASE j.dev \notin Hidapi /\ HoldsNode(i, j, own)
    <3>1. CASE \E n \in Nodes :
                 /\ grab[n] = Nobody
                 /\ grab' = [grab EXCEPT ![n] = i]
                 /\ slots' = [slots EXCEPT ![i] = Slot(n)]
      BY <1>0, <2>2, <3>1
    <3>2. CASE UNCHANGED grab /\ slots' = [slots EXCEPT ![i] = Slot(NoNode)]
      BY <2>2, <3>2
    <3> QED BY <2>2, <3>1, <3>2 DEF HoldsNode
  <2> QED BY <1>3, <2>1, <2>2 DEF Holds
<1>4. j.dev \in Hidapi => node[j.dev] \notin OwnNodes
  <2>1. ASSUME j.dev \in Hidapi, NEW l \in virtual, node[j.dev] = node[Virtual(l)] PROVE FALSE
    <3>1. Virtual(l) \in VirtualPads /\ Virtual(l) \in Devices
      BY <1>0, <2>1 DEF VirtualPads, Devices
    <3>2. j.dev = Virtual(l)
      BY <1>0, <1>2, <2>1, <3>1 DEF NodeInv
    <3> QED BY <2>1, <3>1, <3>2, TwoKinds, PadsAssumption
  <2> QED BY <2>1 DEF OwnNodes
<1> HIDE DEF j, Slot
<1>5. CASE i \in virtual /\ Holds(i, j, OwnNodes) /\ UNCHANGED <<virtual, pendingOwn, node, notices>>
  BY <1>1, <1>2, <1>3, <1>4, <1>5 DEF j, Slot
<1>6. CASE /\ i \notin virtual
           /\ virtual' = virtual \cup {i}
           /\ \E n \in Nodes :
                 /\ IsFreeNode(n)
                 /\ node' = [node EXCEPT ![Virtual(i)] = n]
                 /\ Holds(i, j, OwnNodes \cup {n})
           /\ notices' = Append(notices, Added(Virtual(i)))
  <2>1. PICK f \in Nodes :
          /\ IsFreeNode(f)
          /\ node' = [node EXCEPT ![Virtual(i)] = f]
          /\ Holds(i, j, OwnNodes \cup {f})
    BY <1>6
  <2>2. node[j.dev] # f
    BY <1>0, <2>1 DEF IsFreeNode, IsLowest
  <2> QED BY <1>1, <1>2, <1>3, <1>4, <1>6, <2>1, <2>2 DEF j, Slot
<1>7. CASE /\ i \notin virtual
           /\ slots' = [slots EXCEPT ![i] = Slot(NoNode)]
           /\ UNCHANGED <<virtual, pendingOwn, node, grab, notices>>
  BY <1>1, <1>2, <1>7 DEF j, Slot
<1> QED BY <1>1, <1>5, <1>6, <1>7

\* What addPad does with the joystick at an index.
LEMMA AddPadDoes ==
    ASSUME NEW index, addPad(index)
    PROVE  \/ /\ index \in DOMAIN joysticks => KnownOwn(joysticks[index])
              /\ UNCHANGED <<ownVars, slots, virtual, node, grab, notices, turnedAway>>
           \/ index \in DOMAIN joysticks /\ ClaimOwn(joysticks[index])
           \/ index \in DOMAIN joysticks /\ Ignore(joysticks[index])
           \/ index \in DOMAIN joysticks /\ TakeSlot(joysticks[index])
BY DEF addPad

\* A node is given to a device only while no other has it.
LEMMA NodeStep ==
    ASSUME TypeOK, NodeInv, [Next]_vars
    PROVE  NodeInv'
<1>0. node \in [Devices -> Nodes \cup {Absent}]
  BY TypeParts DEF PadTypes
<1>1. CASE UNCHANGED node
  BY <1>1 DEF NodeInv
<1>2. ASSUME NEW d \in Devices, NEW f \in Nodes, IsFreeNode(f), node' = [node EXCEPT ![d] = f]
      PROVE  NodeInv'
  BY <1>0, <1>2 DEF NodeInv, IsFreeNode, IsLowest
<1>3. ASSUME NEW d \in Devices, node' = [node EXCEPT ![d] = Absent]
      PROVE  NodeInv'
  BY <1>0, <1>3 DEF NodeInv
<1>4. ASSUME NEW i \in Players PROVE Virtual(i) \in Devices
  BY DEF Devices, VirtualPads
<1>5. ASSUME NEW p \in RealPads, Plug(p) \/ Unplug(p) PROVE NodeInv'
  <2>1. p \in Devices
    BY DEF Devices
  <2>2. CASE Plug(p)
    BY <2>1, <2>2, <1>2 DEF Plug
  <2>3. CASE Unplug(p)
    BY <2>1, <2>3, <1>3 DEF Unplug
  <2> QED BY <1>5, <2>2, <2>3
<1>6. ASSUME NEW index, addPad(index) PROVE NodeInv'
  <2>1. CASE index \in DOMAIN joysticks /\ TakeSlot(joysticks[index])
    <3>1. \/ UNCHANGED node
          \/ \E i \in Players, f \in Nodes : IsFreeNode(f) /\ node' = [node EXCEPT ![Virtual(i)] = f]
      BY <2>1, SlotTaken
    <3> QED BY <3>1, <1>1, <1>2, <1>4
  <2> QED BY <1>1, <1>6, <2>1, AddPadDoes DEF ClaimOwn, Ignore
<1>7. ASSUME NEW i \in Players, Leaves(i) PROVE NodeInv'
  BY <1>1, <1>3, <1>4, <1>7 DEF Leaves
<1>8. CASE HandleRemoved
  BY <1>1, <1>7, <1>8 DEF HandleRemoved
<1> QED
  BY <1>1, <1>5, <1>6, <1>8 DEF Next, Pump, StartScan, Scan, EndScan, HandleAdded, vars

\* SDL's list changes when SDL is told of a device, by one entry.
LEMMA ListChanges ==
    ASSUME TypeOK, [Next]_vars
    PROVE  \/ UNCHANGED <<joysticks, nextId>>
           \/ Pump /\ Lists(Head(notices).dev) /\ Head(notices).kind = "added"
           \/ Pump /\ Unlists(Head(notices).dev) /\ Head(notices).kind = "removed"
BY DEF Next, Plug, Unplug, Pump, StartScan, Scan, EndScan, HandleAdded, HandleRemoved, listVars, vars

\* A device that SDL was not told of yet takes its place.
LEMMA ListsOne ==
    ASSUME TypeOK, NEW d \in Devices, Lists(d)
    PROVE  /\ PlaceFor(d) \in 1..(Len(joysticks) + 1)
           /\ Len(joysticks) \in Nat /\ DOMAIN joysticks = 1..Len(joysticks)
           /\ DOMAIN joysticks' = 1..(Len(joysticks) + 1)
           /\ \A k \in 1..(Len(joysticks) + 1) :
                 joysticks'[k] = IF k < PlaceFor(d) THEN joysticks[k]
                                 ELSE IF k = PlaceFor(d) THEN [id |-> nextId, dev |-> d]
                                 ELSE joysticks[k - 1]
<1>0. LoopTypes
  BY TypeParts
<1> DEFINE e == [id |-> nextId, dev |-> d]
           i == PlaceFor(d)
<1>1. i \in 1..(Len(joysticks) + 1)
  BY <1>0, PlaceInList
<1>2. nextId' = nextId + 1
  BY DEF Lists
<1>3. joysticks \in Seq(Entries')
  BY <1>0, <1>2, Growing DEF LoopTypes
<1>4. e \in Entries'
  BY <1>0, <1>2 DEF Entries, LoopTypes
<1>5. joysticks' = InsertAt(joysticks, i, e)
  BY DEF Lists
<1> HIDE DEF e, i
<1>6. /\ joysticks' \in Seq(Entries')
      /\ Len(joysticks') = Len(joysticks) + 1
      /\ \A k \in 1..(Len(joysticks) + 1) :
            joysticks'[k] = IF k < i THEN joysticks[k] ELSE IF k = i THEN e ELSE joysticks[k - 1]
  <2>1. ASSUME NEW S, joysticks \in Seq(S), e \in S
        PROVE  /\ InsertAt(joysticks, i, e) \in Seq(S)
               /\ Len(InsertAt(joysticks, i, e)) = Len(joysticks) + 1
               /\ \A k \in 1..(Len(joysticks) + 1) :
                     InsertAt(joysticks, i, e)[k] =
                        IF k < i THEN joysticks[k] ELSE IF k = i THEN e ELSE joysticks[k - 1]
    BY <1>1, <2>1, Inserted
  <2> QED BY <1>3, <1>4, <1>5, <2>1
<1>7. Len(joysticks) \in Nat /\ DOMAIN joysticks = 1..Len(joysticks) /\ DOMAIN joysticks' = 1..Len(joysticks')
  BY <1>3, <1>6, LenProperties
<1> QED BY <1>1, <1>6, <1>7 DEF e, i

\* A device that has gone is taken out; nothing else moves but up.
LEMMA UnlistsOne ==
    ASSUME TypeOK, NEW d \in Devices, Unlists(d)
    PROVE  \E i \in 1..Len(joysticks) :
              /\ joysticks[i].dev = d
              /\ Sends([kind |-> "removed", id |-> joysticks[i].id])
              /\ Len(joysticks) \in Nat /\ DOMAIN joysticks = 1..Len(joysticks)
              /\ DOMAIN joysticks' = 1..(Len(joysticks) - 1)
              /\ \A k \in 1..(Len(joysticks) - 1) :
                    joysticks'[k] = IF k < i THEN joysticks[k] ELSE joysticks[k + 1]
<1>0. joysticks \in Seq(Entries)
  BY TypeParts DEF LoopTypes
<1>1. PICK i \in DOMAIN joysticks :
        /\ joysticks[i].dev = d
        /\ joysticks' = RemoveAt(joysticks, i)
        /\ Sends([kind |-> "removed", id |-> joysticks[i].id])
  BY DEF Unlists
<1>2. Len(joysticks) \in Nat /\ DOMAIN joysticks = 1..Len(joysticks)
  BY <1>0, LenProperties
<1>3. /\ joysticks' \in Seq(Entries) /\ Len(joysticks') = Len(joysticks) - 1
      /\ \A k \in 1..(Len(joysticks) - 1) :
            joysticks'[k] = IF k < i THEN joysticks[k] ELSE joysticks[k + 1]
  BY <1>0, <1>1, <1>2, TakenOut
<1>4. DOMAIN joysticks' = 1..Len(joysticks')
  BY <1>3, LenProperties
<1> QED BY <1>1, <1>2, <1>3, <1>4

\* Ids are given out once, and a device is listed only while it is not.
LEMMA ListStep ==
    ASSUME TypeOK, ListInv, [Next]_vars
    PROVE  ListInv'
<1>1. CASE UNCHANGED joysticks
  BY <1>1 DEF ListInv
<1>2. CASE Pump /\ (Lists(Head(notices).dev) \/ Unlists(Head(notices).dev))
  <2> DEFINE d == Head(notices).dev
  <2>1. d \in Devices
    <3>1. notices \in Seq(Notices) /\ notices # <<>>
      BY <1>2, TypeParts DEF Pump, PadTypes
    <3>2. Head(notices) \in Notices
      BY <3>1, Told
    <3> QED BY <3>2 DEF Notices
  <2> HIDE DEF d
  <2>2. CASE Lists(d)
    <3> DEFINE i == PlaceFor(d)
               e == [id |-> nextId, dev |-> d]
               From(k) == IF k < i THEN k ELSE k - 1
    <3>1. /\ i \in 1..(Len(joysticks) + 1)
          /\ Len(joysticks) \in Nat /\ DOMAIN joysticks = 1..Len(joysticks)
          /\ DOMAIN joysticks' = 1..(Len(joysticks) + 1)
          /\ \A k \in 1..(Len(joysticks) + 1) :
                joysticks'[k] = IF k < i THEN joysticks[k] ELSE IF k = i THEN e ELSE joysticks[k - 1]
      BY <2>1, <2>2, ListsOne
    <3> HIDE DEF i
    <3>2. \A k \in DOMAIN joysticks : joysticks[k].id # nextId /\ joysticks[k].dev # d
      <4>1. \A k \in DOMAIN joysticks : joysticks[k].id \in 1..(nextId - 1) /\ nextId \in Nat
        BY EntryType, TypeParts DEF LoopTypes
      <4> QED BY <2>2, <4>1 DEF Lists, Listed
    <3>3. ASSUME NEW k \in DOMAIN joysticks', k # i
          PROVE  From(k) \in DOMAIN joysticks /\ joysticks'[k] = joysticks[From(k)]
      BY <3>1, <3>3
    <3>4. e.id = nextId /\ e.dev = d /\ joysticks'[i] = e
      BY <3>1
    <3>5. ASSUME NEW k \in DOMAIN joysticks', NEW l \in DOMAIN joysticks', k # i, l # i, From(k) = From(l)
          PROVE  k = l
      BY <3>1, <3>5
    <3> HIDE DEF From, e
    <3> QED BY <3>2, <3>3, <3>4, <3>5 DEF ListInv
  <2>3. CASE Unlists(d)
    <3>1. PICK i \in 1..Len(joysticks) :
              /\ Len(joysticks) \in Nat /\ DOMAIN joysticks = 1..Len(joysticks)
              /\ DOMAIN joysticks' = 1..(Len(joysticks) - 1)
              /\ \A k \in 1..(Len(joysticks) - 1) :
                    joysticks'[k] = IF k < i THEN joysticks[k] ELSE joysticks[k + 1]
      BY <2>1, <2>3, UnlistsOne
    <3> DEFINE From(k) == IF k < i THEN k ELSE k + 1
    <3>2. ASSUME NEW k \in DOMAIN joysticks'
          PROVE  From(k) \in DOMAIN joysticks /\ joysticks'[k] = joysticks[From(k)]
      BY <3>1
    <3>3. ASSUME NEW k \in DOMAIN joysticks', NEW l \in DOMAIN joysticks', From(k) = From(l)
          PROVE  k = l
      BY <3>1, <3>3
    <3> HIDE DEF From
    <3> QED BY <3>2, <3>3 DEF ListInv
  <2> QED BY <1>2, <2>2, <2>3 DEF d
<1> QED BY <1>1, <1>2, ListChanges

\* What SDL lists after it was told of a device that came.
LEMMA EntriesWith ==
    ASSUME TypeOK, NEW d \in Devices, Lists(d)
    PROVE  /\ \A id, e : Entry(id, e)' <=> Entry(id, e) \/ (id = nextId /\ e = d)
           /\ \A e : Listed(e)' <=> Listed(e) \/ e = d
           /\ \A k \in DOMAIN joysticks' :
                 \/ joysticks'[k].id = nextId /\ joysticks'[k].dev = d
                 \/ \E l \in DOMAIN joysticks : joysticks'[k] = joysticks[l]
<1> DEFINE i == PlaceFor(d)
           n == [id |-> nextId, dev |-> d]
<1>1. /\ i \in 1..(Len(joysticks) + 1)
      /\ Len(joysticks) \in Nat /\ DOMAIN joysticks = 1..Len(joysticks)
      /\ DOMAIN joysticks' = 1..(Len(joysticks) + 1)
      /\ \A k \in 1..(Len(joysticks) + 1) :
            joysticks'[k] = IF k < i THEN joysticks[k] ELSE IF k = i THEN n ELSE joysticks[k - 1]
  BY ListsOne
<1> HIDE DEF i
<1>2. i \in DOMAIN joysticks' /\ joysticks'[i] = n /\ n.id = nextId /\ n.dev = d
  BY <1>1
<1>3. ASSUME NEW k \in DOMAIN joysticks', k # i PROVE \E l \in DOMAIN joysticks : joysticks'[k] = joysticks[l]
  <2>1. CASE k < i
    BY <1>1, <2>1
  <2>2. CASE k > i
    <3>1. k - 1 \in DOMAIN joysticks /\ joysticks'[k] = joysticks[k - 1]
      BY <1>1, <2>2
    <3> QED BY <3>1
  <2> QED BY <1>1, <1>3, <2>1, <2>2
<1>4. ASSUME NEW l \in DOMAIN joysticks PROVE \E k \in DOMAIN joysticks' : joysticks'[k] = joysticks[l]
  <2>1. CASE l < i
    BY <1>1, <2>1
  <2>2. CASE l >= i
    <3>1. l + 1 \in DOMAIN joysticks' /\ joysticks'[l + 1] = joysticks[l]
      BY <1>1, <2>2
    <3> QED BY <3>1
  <2> QED BY <1>1, <2>1, <2>2
<1> HIDE DEF n
<1>5. \A id, e : Entry(id, e)' <=> Entry(id, e) \/ (id = nextId /\ e = d)
  BY <1>2, <1>3, <1>4 DEF Entry
<1>6. \A e : Listed(e)' <=> Listed(e) \/ e = d
  BY <1>2, <1>3, <1>4 DEF Listed
<1> QED BY <1>2, <1>3, <1>5, <1>6

\* And of one that went.
LEMMA EntriesWithout ==
    ASSUME TypeOK, ListInv, NEW d \in Devices, Unlists(d)
    PROVE  /\ \A id, e : Entry(id, e)' <=> Entry(id, e) /\ e # d
           /\ \A e : Listed(e)' <=> Listed(e) /\ e # d
           /\ \A k \in DOMAIN joysticks' : \E l \in DOMAIN joysticks : joysticks'[k] = joysticks[l]
           /\ \E i \in DOMAIN joysticks :
                 /\ joysticks[i].dev = d
                 /\ Sends([kind |-> "removed", id |-> joysticks[i].id])
                 /\ \A k \in DOMAIN joysticks' : joysticks'[k].id # joysticks[i].id
<1>1. PICK i \in 1..Len(joysticks) :
        /\ joysticks[i].dev = d
        /\ Sends([kind |-> "removed", id |-> joysticks[i].id])
        /\ Len(joysticks) \in Nat /\ DOMAIN joysticks = 1..Len(joysticks)
        /\ DOMAIN joysticks' = 1..(Len(joysticks) - 1)
        /\ \A k \in 1..(Len(joysticks) - 1) :
              joysticks'[k] = IF k < i THEN joysticks[k] ELSE joysticks[k + 1]
  BY UnlistsOne
<1>2. ASSUME NEW k \in DOMAIN joysticks'
      PROVE  \E l \in DOMAIN joysticks : l # i /\ joysticks'[k] = joysticks[l]
  <2>1. CASE k < i
    BY <1>1, <2>1
  <2>2. CASE k >= i
    <3>1. k + 1 \in DOMAIN joysticks /\ k + 1 # i /\ joysticks'[k] = joysticks[k + 1]
      BY <1>1, <2>2
    <3> QED BY <3>1
  <2> QED BY <1>1, <2>1, <2>2
<1>3. ASSUME NEW l \in DOMAIN joysticks, l # i
      PROVE  \E k \in DOMAIN joysticks' : joysticks'[k] = joysticks[l]
  <2>1. CASE l < i
    BY <1>1, <2>1
  <2>2. CASE l > i
    <3>1. l - 1 \in DOMAIN joysticks' /\ joysticks'[l - 1] = joysticks[l]
      BY <1>1, <2>2
    <3> QED BY <3>1
  <2> QED BY <1>1, <1>3, <2>1, <2>2
<1>4. \A l \in DOMAIN joysticks : l # i => joysticks[l].dev # d /\ joysticks[l].id # joysticks[i].id
  BY <1>1 DEF ListInv
<1>5. i \in DOMAIN joysticks /\ joysticks[i].dev = d
  BY <1>1
<1>6. \A id, e : Entry(id, e)' <=> Entry(id, e) /\ e # d
  BY <1>2, <1>3, <1>4, <1>5 DEF Entry
<1>7. \A e : Listed(e)' <=> Listed(e) /\ e # d
  BY <1>2, <1>3, <1>4, <1>5 DEF Listed
<1>8. \A k \in DOMAIN joysticks' : joysticks'[k].id # joysticks[i].id
  BY <1>2, <1>4
<1> QED BY <1>1, <1>2, <1>5, <1>6, <1>7, <1>8

\* The kernel has one more notice, of a device that it has just made or taken away.
LEMMA WordGiven ==
    ASSUME TypeOK, WordInv, NEW n \in Notices, notices' = Append(notices, n), UNCHANGED joysticks,
           NEW v, node' = [node EXCEPT ![n.dev] = v], n.kind = "added" <=> v # Absent
    PROVE  WordInv'
<1>0. node \in [Devices -> Nodes \cup {Absent}] /\ notices \in Seq(Notices) /\ n.dev \in Devices
  BY TypeParts DEF PadTypes, Notices
<1>1. /\ Len(notices) \in Nat /\ Len(notices') = Len(notices) + 1
      /\ \A k \in 1..Len(notices) : notices'[k] = notices[k]
      /\ notices'[Len(notices) + 1] = n
  BY <1>0, AtTheEnd
<1>2. \A d \in Devices : d # n.dev => node'[d] = node[d]
  BY <1>0
<1>3. node'[n.dev] = v
  BY <1>0
<1>4. ASSUME NEW k \in 1..Len(notices'), IsLastWord(k)'
      PROVE  notices'[k].kind = "added" <=> node'[notices'[k].dev] # Absent
  <2>1. CASE k = Len(notices) + 1
    BY <1>1, <1>3, <2>1
  <2>2. CASE k # Len(notices) + 1
    <3>1. k \in 1..Len(notices) /\ notices'[k] = notices[k]
      BY <1>1, <2>2
    <3>2. n.dev # notices[k].dev
      BY <1>1, <1>4, <3>1 DEF IsLastWord
    <3>3. IsLastWord(k)
      BY <1>1, <1>4, <3>1 DEF IsLastWord
    <3>4. notices[k].dev \in Devices
      <4>1. notices[k] \in Notices
        BY <1>0, <3>1, ElementOfSeq
      <4> QED BY <4>1 DEF Notices
    <3> QED BY <1>2, <3>1, <3>2, <3>3, <3>4 DEF WordInv
  <2> QED BY <2>1, <2>2
<1>5. ASSUME NEW d \in Devices, \A k \in 1..Len(notices') : notices'[k].dev # d
      PROVE  Listed(d)' <=> node'[d] # Absent
  <2>1. d # n.dev /\ \A k \in 1..Len(notices) : notices[k].dev # d
    BY <1>1, <1>5
  <2>2. Listed(d)' <=> Listed(d)
    BY DEF Listed
  <2> QED BY <1>2, <2>1, <2>2 DEF WordInv
<1> QED BY <1>4, <1>5 DEF WordInv

\* SDL is told of a notice: if it was the last of its device, the list says what it said.
LEMMA WordHeard ==
    ASSUME TypeOK, ListInv, WordInv, Pump
    PROVE  WordInv'
<1>0. notices \in Seq(Notices) /\ notices # <<>> /\ notices' = Tail(notices) /\ UNCHANGED node
  BY TypeParts DEF PadTypes, Pump
<1> DEFINE n == Head(notices)
<1>1. /\ n \in Notices /\ Len(notices) \in Nat /\ Len(notices) > 0 /\ n = notices[1]
      /\ Len(notices') = Len(notices) - 1
      /\ \A k \in 1..(Len(notices) - 1) : notices'[k] = notices[k + 1]
  BY <1>0, Told, LenProperties
<1>2. n.dev \in Devices /\ n.kind \in {"added", "removed"}
  BY <1>1 DEF Notices
<1> HIDE DEF n
<1>3. ASSUME NEW k \in 1..Len(notices'), IsLastWord(k)'
      PROVE  notices'[k].kind = "added" <=> node'[notices'[k].dev] # Absent
  <2>1. k + 1 \in 1..Len(notices) /\ notices'[k] = notices[k + 1]
    BY <1>1
  <2>2. ASSUME NEW l \in 1..Len(notices), l > k + 1 PROVE notices[l].dev # notices[k + 1].dev
    <3>1. l - 1 \in 1..Len(notices') /\ l - 1 > k /\ notices'[l - 1] = notices[l]
      BY <1>1, <2>2
    <3> QED BY <1>3, <2>1, <3>1 DEF IsLastWord
  <2>3. IsLastWord(k + 1)
    BY <2>2 DEF IsLastWord
  <2> QED BY <1>0, <2>1, <2>3 DEF WordInv
<1>4. ASSUME NEW d \in Devices, \A k \in 1..Len(notices') : notices'[k].dev # d
      PROVE  Listed(d)' <=> node'[d] # Absent
  <2>1. ASSUME NEW l \in 1..Len(notices), l # 1 PROVE notices[l].dev # d
    <3>1. l - 1 \in 1..Len(notices') /\ notices'[l - 1] = notices[l]
      BY <1>1, <2>1
    <3> QED BY <1>4, <3>1
  <2>2. CASE d # n.dev
    <3>1. \A l \in 1..Len(notices) : notices[l].dev # d
      BY <1>1, <2>1, <2>2
    <3>2. Listed(d)' <=> Listed(d)
      <4>1. CASE Lists(n.dev)
        BY <1>2, <2>2, <4>1, EntriesWith
      <4>2. CASE Unlists(n.dev)
        BY <1>2, <2>2, <4>2, EntriesWithout
      <4>3. CASE UNCHANGED joysticks
        BY <4>3 DEF Listed
      <4> QED BY <4>1, <4>2, <4>3 DEF Pump, n
    <3> QED BY <1>0, <3>1, <3>2 DEF WordInv
  <2>3. CASE d = n.dev
    <3>1. n.kind = "added" <=> node[d] # Absent
      <4>1. IsLastWord(1) /\ 1 \in 1..Len(notices)
        BY <1>1, <2>1, <2>3 DEF IsLastWord
      <4> QED BY <1>1, <2>3, <4>1 DEF WordInv
    <3>2. CASE n.kind = "added" /\ Lists(n.dev)
      BY <1>0, <1>2, <2>3, <3>1, <3>2, EntriesWith
    <3>3. CASE n.kind = "removed" /\ Unlists(n.dev)
      BY <1>0, <1>2, <2>3, <3>1, <3>3, EntriesWithout
    <3>4. CASE /\ n.kind = "added" => Listed(n.dev) \/ node[n.dev] = Absent
               /\ n.kind = "removed" => ~Listed(n.dev)
               /\ UNCHANGED joysticks
      <4>1. Listed(d)' <=> Listed(d)
        BY <3>4 DEF Listed
      <4> QED BY <1>0, <1>2, <2>3, <3>1, <3>4, <4>1
    <3> QED BY <3>2, <3>3, <3>4 DEF Pump, n
  <2> QED BY <2>2, <2>3
<1> QED BY <1>3, <1>4 DEF WordInv

\* Every step that makes a device or takes one away tells SDL.
LEMMA WordStep ==
    ASSUME TypeOK, NodeInv, ListInv, WordInv, [Next]_vars
    PROVE  WordInv'
<1>0. node \in [Devices -> Nodes \cup {Absent}]
  BY TypeParts DEF PadTypes
<1>1. CASE UNCHANGED <<notices, node, joysticks>>
  BY <1>1 DEF WordInv, IsLastWord, Listed
<1>2. ASSUME NEW d \in Devices
      PROVE  /\ Added(d) \in Notices /\ Added(d).dev = d /\ Added(d).kind = "added"
             /\ Removed(d) \in Notices /\ Removed(d).dev = d /\ Removed(d).kind # "added"
  BY DEF Added, Removed, Notices
<1>3. ASSUME NEW i \in Players PROVE Virtual(i) \in Devices
  BY DEF Devices, VirtualPads
<1>4. ASSUME NEW n \in Nodes PROVE n # Absent
  BY DEF Nodes, Absent
<1>5. ASSUME NEW p \in RealPads, Plug(p) PROVE WordInv'
  <2>1. PICK n \in Nodes : node' = [node EXCEPT ![p] = n]
    BY <1>5 DEF Plug
  <2>2. p \in Devices /\ notices' = Append(notices, Added(p)) /\ UNCHANGED joysticks
    BY <1>5 DEF Plug, Devices, listVars
  <2> QED BY <1>2, <1>4, <2>1, <2>2, WordGiven
<1>6. ASSUME NEW p \in RealPads, Unplug(p) PROVE WordInv'
  <2>1. /\ p \in Devices /\ node' = [node EXCEPT ![p] = Absent]
        /\ notices' = Append(notices, Removed(p)) /\ UNCHANGED joysticks
    BY <1>6 DEF Unplug, Devices, listVars
  <2> QED BY <1>2, <2>1, WordGiven
<1>7. ASSUME NEW index, addPad(index), UNCHANGED joysticks PROVE WordInv'
  <2>1. CASE index \in DOMAIN joysticks /\ TakeSlot(joysticks[index])
    <3>1. \/ UNCHANGED <<node, notices>>
          \/ \E i \in Players, f \in Nodes :
                /\ node' = [node EXCEPT ![Virtual(i)] = f]
                /\ notices' = Append(notices, Added(Virtual(i)))
      BY <2>1, SlotTaken
    <3>2. ASSUME NEW i \in Players, NEW f \in Nodes,
                 node' = [node EXCEPT ![Virtual(i)] = f], notices' = Append(notices, Added(Virtual(i)))
          PROVE  WordInv'
      BY <1>2, <1>3, <1>4, <1>7, <3>2, WordGiven
    <3> QED BY <1>1, <1>7, <3>1, <3>2
  <2> QED BY <1>1, <1>7, <2>1, AddPadDoes DEF ClaimOwn, Ignore
<1>8. ASSUME NEW i \in Players, Leaves(i), UNCHANGED joysticks PROVE WordInv'
  <2>1. CASE UNCHANGED <<node, notices>>
    BY <1>1, <1>8, <2>1
  <2>2. CASE node' = [node EXCEPT ![Virtual(i)] = Absent] /\ notices' = Append(notices, Removed(Virtual(i)))
    BY <1>2, <1>3, <1>8, <2>2, WordGiven
  <2> QED BY <1>8, <2>1, <2>2 DEF Leaves
<1>9. CASE Pump
  BY <1>9, WordHeard
<1>10. CASE Scan
  <2>1. addPad(scanAt) /\ UNCHANGED joysticks
    BY <1>10 DEF Scan, listVars
  <2> QED BY <1>7, <2>1
<1>11. CASE HandleAdded
  <2>1. addPad(Head(queue).index) /\ UNCHANGED joysticks
    BY <1>11 DEF HandleAdded
  <2> QED BY <1>7, <2>1
<1>12. CASE HandleRemoved
  BY <1>1, <1>8, <1>12 DEF HandleRemoved
<1>13. CASE StartScan \/ EndScan \/ UNCHANGED vars
  BY <1>1, <1>13 DEF StartScan, EndScan, listVars, vars
<1> QED BY <1>5, <1>6, <1>9, <1>10, <1>11, <1>12, <1>13 DEF Next

\* Some element of a set of natural numbers is the least.
LEMMA Least ==
    ASSUME NEW T \in SUBSET Nat, T # {}
    PROVE  \E m \in T : \A n \in T : m <= n
<1>1. PICK m \in T : \A n \in T : ~ (<<n, m>> \in OpToRel(<, Nat))
  BY NatLessThanWellFounded, WFMin, Zenon
<1>2. \A n \in T : ~(n < m)
  BY <1>1 DEF OpToRel
<1> QED BY <1>2

\* SDL still lists a device that has gone: it will be told.
LEMMA GoneIsGoing ==
    ASSUME TypeOK, WordInv, NEW d \in Devices, Listed(d), node[d] = Absent
    PROVE  Going(d)
<1>0. notices \in Seq(Notices) /\ Len(notices) \in Nat
  BY TypeParts, LenProperties DEF PadTypes
<1> DEFINE K == {k \in 1..Len(notices) : notices[k].dev = d}
           T == {Len(notices) - k : k \in K}
<1>1. T # {} /\ T \in SUBSET Nat
  BY <1>0 DEF WordInv
<1>2. PICK m \in T : \A n \in T : m <= n
  BY <1>1, Least
<1>3. PICK k \in K : m = Len(notices) - k
  BY <1>2
<1>4. ASSUME NEW l \in 1..Len(notices), l > k PROVE notices[l].dev # d
  <2>1. l \in K => Len(notices) - l >= Len(notices) - k
    BY <1>2, <1>3
  <2> QED BY <1>0, <1>4, <2>1
<1>5. IsLastWord(k)
  BY <1>4 DEF IsLastWord
<1>6. notices[k].kind # "added"
  BY <1>5 DEF WordInv
<1>7. notices[k] \in Notices
  BY <1>0, ElementOfSeq
<1>8. notices[k] = Removed(d)
  BY <1>6, <1>7 DEF Notices, Removed
<1> QED BY <1>8 DEF Going

\* An event that SDL sends waits behind the others, unless settle throws it away.
LEMMA EventSent ==
    ASSUME TypeOK, NEW ev, Sends(ev)
    PROVE  /\ \A id : AddedEvent(id) => AddedEvent(id)'
           /\ \A id : RemovedEvent(id) => RemovedEvent(id)'
           /\ \A id : RemovedEvent(id)' => RemovedEvent(id) \/ (ev.kind = "removed" /\ ev.id = id)
           /\ phase = "settle" => UNCHANGED queue
           /\ phase # "settle" /\ ev.kind = "added" => AddedEvent(ev.id)'
           /\ phase # "settle" /\ ev.kind = "removed" => RemovedEvent(ev.id)'
<1>1. CASE phase = "settle"
  BY <1>1 DEF Sends, AddedEvent, RemovedEvent
<1>2. CASE phase # "settle"
  <2>1. queue' = Append(queue, ev) /\ queue \in Seq(Events)
    BY <1>2, TypeParts DEF Sends, LoopTypes
  <2>2. ASSUME NEW S, queue \in Seq(S), ev \in S
        PROVE  /\ Len(queue) \in Nat /\ Len(queue') = Len(queue) + 1
               /\ \A k \in 1..Len(queue) : queue'[k] = queue[k]
               /\ queue'[Len(queue) + 1] = ev
    BY <2>1, <2>2, AtTheEnd
  <2>3. queue \in Seq(Events \cup {ev})
    BY <2>1, SeqMonotonic
  <2>4. /\ Len(queue) \in Nat /\ Len(queue') = Len(queue) + 1
        /\ \A k \in 1..Len(queue) : queue'[k] = queue[k]
        /\ queue'[Len(queue) + 1] = ev
    BY <2>2, <2>3
  <2> QED BY <1>2, <2>4 DEF AddedEvent, RemovedEvent
<1> QED BY <1>1, <1>2

\* The first event is handled, the others wait.
LEMMA EventTaken ==
    ASSUME TypeOK, queue # <<>>, queue' = Tail(queue)
    PROVE  /\ \A id : AddedEvent(id) => AddedEvent(id)' \/ (Head(queue).kind = "added" /\ Head(queue).id = id)
           /\ \A id : RemovedEvent(id) => RemovedEvent(id)' \/ (Head(queue).kind = "removed" /\ Head(queue).id = id)
           /\ \A id : RemovedEvent(id)' => RemovedEvent(id)
           /\ Head(queue).kind = "removed" => RemovedEvent(Head(queue).id)
<1>1. queue \in Seq(Events)
  BY TypeParts DEF LoopTypes
<1>2. /\ Len(queue) \in Nat /\ Len(queue) > 0 /\ Head(queue) = queue[1]
      /\ Len(queue') = Len(queue) - 1
      /\ \A k \in 1..(Len(queue) - 1) : queue'[k] = queue[k + 1]
  BY <1>1, Told, LenProperties
<1>3. ASSUME NEW k \in 1..Len(queue) PROVE queue[k] = Head(queue) \/ \E l \in 1..Len(queue') : queue'[l] = queue[k]
  <2>1. CASE k # 1
    <3>1. k - 1 \in 1..Len(queue') /\ queue'[k - 1] = queue[k]
      BY <1>2, <2>1
    <3> QED BY <3>1
  <2> QED BY <1>2, <2>1
<1>4. ASSUME NEW k \in 1..Len(queue') PROVE \E l \in 1..Len(queue) : queue'[k] = queue[l]
  <2>1. k + 1 \in 1..Len(queue) /\ queue'[k] = queue[k + 1]
    BY <1>2
  <2> QED BY <2>1
<1>5. \A id : AddedEvent(id) => AddedEvent(id)' \/ (Head(queue).kind = "added" /\ Head(queue).id = id)
  BY <1>3 DEF AddedEvent
<1>6. \A id : RemovedEvent(id) => RemovedEvent(id)' \/ (Head(queue).kind = "removed" /\ Head(queue).id = id)
  BY <1>3 DEF RemovedEvent
<1>7. \A id : RemovedEvent(id)' => RemovedEvent(id)
  BY <1>4 DEF RemovedEvent
<1>8. Head(queue).kind = "removed" => RemovedEvent(Head(queue).id)
  <2>1. 1 \in 1..Len(queue)
    BY <1>2
  <2> QED BY <1>2, <2>1 DEF RemovedEvent
<1> QED BY <1>5, <1>6, <1>7, <1>8

\* An event is of an id that was given out.
LEMMA EventId ==
    ASSUME TypeOK, NEW id, RemovedEvent(id)
    PROVE  id # nextId
<1>1. PICK m \in 1..Len(queue) : queue[m].id = id
  BY DEF RemovedEvent
<1>2. queue[m] \in Events
  BY TypeParts, ElementOfSeq DEF LoopTypes
<1>3. id \in 1..(nextId - 1) /\ nextId \in Nat
  BY <1>1, <1>2, TypeParts DEF Events, LoopTypes
<1> QED BY <1>3

\* Before the first look nothing is handled.
LEMMA EarlyStep ==
    ASSUME TypeOK, QueueInv, [Next]_vars, phase' = "settle"
    PROVE  scanAt' = 1 /\ queue' = <<>> /\ \A i \in Players : ~Occupied(i)'
<1>1. CASE phase = "settle"
  <2>1. scanAt = 1 /\ queue = <<>> /\ \A i \in Players : ~Occupied(i)
    BY <1>1 DEF QueueInv
  <2>2. UNCHANGED <<scanAt, slots>>
    BY <1>1, <2>1
       DEF Next, Plug, Unplug, Pump, StartScan, Scan, EndScan, HandleAdded, HandleRemoved, vars
  <2>3. UNCHANGED queue
    BY <1>1, <2>1
       DEF Next, Plug, Unplug, Pump, Lists, Unlists, Sends, StartScan, Scan, EndScan, HandleAdded, HandleRemoved,
           vars, listVars
  <2> QED BY <2>1, <2>2, <2>3 DEF Occupied
<1>2. CASE phase # "settle"
  BY <1>2 DEF Next, Plug, Unplug, Pump, StartScan, Scan, EndScan, HandleAdded, HandleRemoved, vars
<1> QED BY <1>1, <1>2

\* The events change when SDL sends one and when the daemon takes one.
LEMMA QueueChanges ==
    ASSUME TypeOK, [Next]_vars
    PROVE  \/ UNCHANGED <<queue, joysticks>>
           \/ Pump
           \/ queue # <<>> /\ queue' = Tail(queue) /\ UNCHANGED joysticks
BY DEF Next, Plug, Unplug, Pump, StartScan, Scan, EndScan, HandleAdded, HandleRemoved, listVars, vars

\* What SDL says has gone is not in its list, and is never again.
LEMMA QueueStep ==
    ASSUME TypeOK, ListInv, QueueInv, [Next]_vars
    PROVE  QueueInv'
<1>1. ASSUME NEW k \in DOMAIN joysticks', NEW id, id = joysticks'[k].id, RemovedEvent(id)' PROVE FALSE
  <2>1. CASE UNCHANGED <<queue, joysticks>>
    BY <1>1, <2>1 DEF QueueInv, RemovedEvent
  <2>2. CASE queue # <<>> /\ queue' = Tail(queue) /\ UNCHANGED joysticks
    BY <1>1, <2>2, EventTaken DEF QueueInv
  <2>3. CASE Pump
    <3> DEFINE n == Head(notices)
    <3>1. n.dev \in Devices
      <4>1. notices \in Seq(Notices) /\ notices # <<>>
        BY <2>3, TypeParts DEF Pump, PadTypes
      <4>2. n \in Notices
        BY <4>1, Told
      <4> QED BY <4>2 DEF Notices
    <3> HIDE DEF n
    <3>2. CASE Lists(n.dev)
      <4> DEFINE ev == [kind |-> "added", index |-> PlaceFor(n.dev), id |-> nextId]
      <4>1. Sends(ev) /\ ev.kind = "added"
        BY <3>2 DEF Lists
      <4> HIDE DEF ev
      <4>2. RemovedEvent(id)
        BY <1>1, <4>1, EventSent
      <4>3. id = nextId \/ \E l \in DOMAIN joysticks : joysticks'[k] = joysticks[l]
        BY <1>1, <3>1, <3>2, EntriesWith
      <4> QED BY <1>1, <4>2, <4>3, EventId DEF QueueInv
    <3>3. CASE Unlists(n.dev)
      <4>1. PICK i \in DOMAIN joysticks :
              /\ Sends([kind |-> "removed", id |-> joysticks[i].id])
              /\ id # joysticks[i].id
        BY <1>1, <3>1, <3>3, EntriesWithout
      <4> DEFINE ev == [kind |-> "removed", id |-> joysticks[i].id]
      <4>2. Sends(ev) /\ ev.id = joysticks[i].id
        BY <4>1
      <4> HIDE DEF ev
      <4>3. RemovedEvent(id)
        BY <1>1, <4>1, <4>2, EventSent
      <4>4. \E l \in DOMAIN joysticks : joysticks'[k] = joysticks[l]
        BY <3>1, <3>3, EntriesWithout
      <4> QED BY <1>1, <4>3, <4>4 DEF QueueInv
    <3>4. CASE UNCHANGED <<joysticks, queue>>
      BY <1>1, <3>4 DEF QueueInv, RemovedEvent
    <3> QED BY <2>3, <3>2, <3>3, <3>4 DEF Pump, n
  <2> QED BY <2>1, <2>2, <2>3, QueueChanges
<1> QED BY <1>1, EarlyStep DEF QueueInv

\* A notice is of a device.
LEMMA NoticeType ==
    ASSUME TypeOK, Pump
    PROVE  Head(notices).dev \in Devices /\ Head(notices).kind \in {"added", "removed"}
<1>1. notices \in Seq(Notices) /\ notices # <<>>
  BY TypeParts DEF Pump, PadTypes
<1>2. Head(notices) \in Notices
  BY <1>1, Told
<1> QED BY <1>2 DEF Notices

\* Who plays stays, and what says that a pad has gone waits.
LEMMA SlotsKept ==
    ASSUME SlotInv, UNCHANGED <<slots, virtual, joysticks>>,
           \A id : RemovedEvent(id) => RemovedEvent(id)'
    PROVE  SlotInv'
BY DEF SlotInv, Occupied, PlaysAs, Entry

\* SDL's list loses a player's joystick, and an event says so.
LEMMA SlotsListed ==
    ASSUME TypeOK, ListInv, QueueInv, SlotInv, Pump
    PROVE  SlotInv'
<1>0. UNCHANGED <<slots, virtual>>
  BY DEF Pump
<1> DEFINE d == Head(notices).dev
<1>1. d \in Devices
  BY NoticeType
<1> HIDE DEF d
<1>2. ASSUME NEW id, NEW pad, Entry(id, pad) \/ RemovedEvent(id), phase # "settle"
      PROVE  Entry(id, pad)' \/ RemovedEvent(id)'
  <2>1. CASE Lists(d)
    <3> DEFINE ev == [kind |-> "added", index |-> PlaceFor(d), id |-> nextId]
    <3>1. Sends(ev)
      BY <2>1 DEF Lists
    <3> HIDE DEF ev
    <3>2. RemovedEvent(id) => RemovedEvent(id)'
      BY <3>1, EventSent
    <3>3. Entry(id, pad) => Entry(id, pad)'
      BY <1>1, <2>1, EntriesWith
    <3> QED BY <1>2, <3>2, <3>3
  <2>2. CASE Unlists(d)
    <3>1. PICK i \in DOMAIN joysticks :
            joysticks[i].dev = d /\ Sends([kind |-> "removed", id |-> joysticks[i].id])
      BY <1>1, <2>2, EntriesWithout
    <3>2. PICK ev : Sends(ev) /\ ev.kind = "removed" /\ ev.id = joysticks[i].id
      BY <3>1
    <3>3. RemovedEvent(id) => RemovedEvent(id)'
      BY <3>2, EventSent
    <3>4. RemovedEvent(ev.id)'
      BY <1>2, <3>2, EventSent
    <3>5. ASSUME Entry(id, pad), pad = d PROVE id = ev.id
      BY <3>1, <3>2, <3>5 DEF Entry, ListInv
    <3>6. Entry(id, pad) /\ pad # d => Entry(id, pad)'
      BY <1>1, <2>2, EntriesWithout
    <3> QED BY <1>2, <3>3, <3>4, <3>5, <3>6
  <2>3. CASE UNCHANGED <<joysticks, queue>>
    BY <1>2, <2>3 DEF Entry, RemovedEvent
  <2> QED BY <2>1, <2>2, <2>3 DEF Pump, d
<1>3. ASSUME NEW i \in Players, Occupied(i)
      PROVE  Entry(slots[i].id, slots[i].pad)' \/ RemovedEvent(slots[i].id)'
  <2>1. (Entry(slots[i].id, slots[i].pad) \/ RemovedEvent(slots[i].id)) /\ phase # "settle"
    BY <1>3 DEF SlotInv, QueueInv
  <2>2. ASSUME NEW id, NEW pad, id = slots[i].id, pad = slots[i].pad
        PROVE  Entry(slots[i].id, slots[i].pad)' \/ RemovedEvent(slots[i].id)'
    <3>1. Entry(id, pad)' \/ RemovedEvent(id)'
      BY <1>2, <2>1, <2>2
    <3> QED BY <1>0, <2>2, <3>1 DEF Entry, RemovedEvent
  <2> QED BY <2>2
<1> QED BY <1>0, <1>3 DEF SlotInv, Occupied, PlaysAs

\* The joystick that is given to a player is in the list and no other player's.
LEMMA SlotsGiven ==
    ASSUME TypeOK, NodeInv, SlotInv, NEW k \in DOMAIN joysticks, TakeSlot(joysticks[k]), UNCHANGED joysticks,
           \A id : RemovedEvent(id) => RemovedEvent(id)'
    PROVE  SlotInv'
<1>1. PICK i \in Players, n \in Nodes \cup {NoNode} :
        /\ ~Occupied(i)
        /\ \A l \in Players : ~PlaysAs(l, joysticks[k].id)
        /\ slots' = [slots EXCEPT ![i] = [id |-> joysticks[k].id, pad |-> joysticks[k].dev, held |-> n]]
        /\ virtual' = virtual \/ virtual' = virtual \cup {i}
  BY SlotTaken
<1>2. slots \in [Players -> SlotValues] /\ joysticks[k].id # 0
  BY EntryType, TypeParts DEF PadTypes
<1>3. /\ \A l \in Players : l # i => slots'[l] = slots[l]
      /\ slots'[i].id = joysticks[k].id /\ slots'[i].pad = joysticks[k].dev /\ Occupied(i)'
  BY <1>1, <1>2 DEF Occupied, NoPad
<1>4. ASSUME NEW l \in Players, Occupied(l)'
      PROVE  Entry(slots[l].id, slots[l].pad)' \/ RemovedEvent(slots[l].id)'
  <2>1. CASE l = i
    BY <1>3, <2>1 DEF Entry
  <2>2. CASE l # i
    <3>1. Entry(slots[l].id, slots[l].pad) \/ RemovedEvent(slots[l].id)
      BY <1>3, <1>4, <2>2 DEF SlotInv, Occupied
    <3>2. CASE Entry(slots[l].id, slots[l].pad)
      BY <1>3, <2>2, <3>2 DEF Entry
    <3>3. CASE RemovedEvent(slots[l].id)
      <4>1. ASSUME NEW id, id = slots[l].id PROVE RemovedEvent(slots[l].id)'
        <5>1. RemovedEvent(id)'
          BY <3>3, <4>1
        <5> QED BY <1>3, <2>2, <4>1, <5>1 DEF RemovedEvent
      <4> QED BY <4>1
    <3> QED BY <3>1, <3>2, <3>3
  <2> QED BY <2>1, <2>2
<1>5. ASSUME NEW l \in Players, NEW m \in Players, Occupied(l)', Occupied(m)', slots'[l].id = slots'[m].id
      PROVE  l = m
  BY <1>1, <1>3, <1>5 DEF SlotInv, PlaysAs, Occupied
<1>6. virtual' \ {1} \subseteq {l \in Players : Occupied(l)'}
  BY <1>1, <1>3 DEF SlotInv, Occupied
<1> QED BY <1>4, <1>5, <1>6 DEF SlotInv, PlaysAs

\* The event says that a player's joystick has gone: the player goes, or there was none.
LEMMA SlotsLeft ==
    ASSUME TypeOK, SlotInv, HandleRemoved
    PROVE  SlotInv'
<1>0. slots \in [Players -> SlotValues] /\ virtual \subseteq Players
  BY TypeParts DEF PadTypes
<1>1. queue # <<>> /\ queue' = Tail(queue) /\ UNCHANGED joysticks
  BY DEF HandleRemoved
<1> DEFINE gone == Head(queue).id
<1>2. \A id : RemovedEvent(id) => RemovedEvent(id)' \/ id = gone
  BY <1>1, EventTaken
<1> HIDE DEF gone
<1>3. /\ \A l \in Players : Occupied(l)' => slots'[l] = slots[l] /\ slots[l].id # gone
      /\ virtual' \ {1} \subseteq {l \in Players : Occupied(l)'}
  <2>1. CASE \E i \in Players : slots[i].id = gone /\ Occupied(i) /\ Leaves(i)
    <3>1. PICK i \in Players : slots[i].id = gone /\ Occupied(i) /\ Leaves(i)
      BY <2>1
    <3>2. /\ \A l \in Players : l # i => slots'[l] = slots[l]
          /\ slots'[i] = NoPad
      BY <1>0, <3>1 DEF Leaves
    <3>3. virtual' \ {1} \subseteq virtual \ {1, i}
      BY <3>1 DEF Leaves
    <3> QED BY <3>1, <3>2, <3>3 DEF SlotInv, Occupied, PlaysAs
  <2>2. CASE (\A i \in Players : Occupied(i) => slots[i].id # gone) /\ UNCHANGED <<slots, virtual>>
    BY <2>2 DEF SlotInv, Occupied
  <2> QED BY <2>1, <2>2 DEF HandleRemoved, IsLowest, gone
<1>4. ASSUME NEW l \in Players, Occupied(l)'
      PROVE  Entry(slots[l].id, slots[l].pad)' \/ RemovedEvent(slots[l].id)'
  <2>1. slots'[l] = slots[l] /\ slots[l].id # gone /\ Occupied(l)
    BY <1>3, <1>4 DEF Occupied
  <2>2. Entry(slots[l].id, slots[l].pad) \/ RemovedEvent(slots[l].id)
    BY <2>1 DEF SlotInv
  <2>3. CASE Entry(slots[l].id, slots[l].pad)
    BY <1>1, <2>1, <2>3 DEF Entry
  <2>4. CASE RemovedEvent(slots[l].id)
    <3>1. ASSUME NEW id, id = slots[l].id PROVE RemovedEvent(slots[l].id)'
      <4>1. RemovedEvent(id)'
        BY <1>2, <2>1, <2>4, <3>1
      <4> QED BY <2>1, <3>1, <4>1 DEF RemovedEvent
    <3> QED BY <3>1
  <2> QED BY <2>2, <2>3, <2>4
<1>5. ASSUME NEW l \in Players, NEW m \in Players, Occupied(l)', Occupied(m)', slots'[l].id = slots'[m].id
      PROVE  l = m
  BY <1>3, <1>5 DEF SlotInv, PlaysAs, Occupied
<1> QED BY <1>3, <1>4, <1>5 DEF SlotInv, PlaysAs

\* Every step keeps the players' slots in line with SDL's list and events.
LEMMA SlotStep ==
    ASSUME TypeOK, NodeInv, ListInv, QueueInv, SlotInv, [Next]_vars
    PROVE  SlotInv'
<1>1. CASE Pump
  BY <1>1, SlotsListed
<1>2. CASE HandleRemoved
  BY <1>2, SlotsLeft
<1>3. ASSUME NEW index, addPad(index), UNCHANGED joysticks, \A id : RemovedEvent(id) => RemovedEvent(id)'
      PROVE  SlotInv'
  <2>1. CASE index \in DOMAIN joysticks /\ TakeSlot(joysticks[index])
    BY <1>3, <2>1, SlotsGiven
  <2> QED BY <1>3, <2>1, AddPadDoes, SlotsKept DEF ClaimOwn, Ignore
<1>4. CASE Scan
  <2>1. addPad(scanAt) /\ UNCHANGED <<joysticks, queue>>
    BY <1>4 DEF Scan, listVars
  <2>2. \A id : RemovedEvent(id) => RemovedEvent(id)'
    BY <2>1 DEF RemovedEvent
  <2> QED BY <1>3, <2>1, <2>2
<1>5. CASE HandleAdded
  <2>1. /\ addPad(Head(queue).index) /\ UNCHANGED joysticks
        /\ queue # <<>> /\ queue' = Tail(queue) /\ Head(queue).kind = "added"
    BY <1>5 DEF HandleAdded
  <2>2. \A id : RemovedEvent(id) => RemovedEvent(id)'
    BY <2>1, EventTaken
  <2> QED BY <1>3, <2>1, <2>2
<1>6. CASE (\E p \in RealPads : Plug(p) \/ Unplug(p)) \/ StartScan \/ EndScan \/ UNCHANGED vars
  <2>1. UNCHANGED <<slots, virtual, joysticks, queue>>
    BY <1>6 DEF Plug, Unplug, StartScan, EndScan, listVars, vars
  <2>2. \A id : RemovedEvent(id) => RemovedEvent(id)'
    BY <2>1 DEF RemovedEvent
  <2> QED BY <2>1, <2>2, SlotsKept
<1> QED BY <1>1, <1>2, <1>4, <1>5, <1>6 DEF Next

\* What addPad does to what the others have: nothing.
LEMMA GoingKept ==
    ASSUME TypeOK, NEW d, Going(d),
           UNCHANGED notices \/ \E n \in Notices : notices' = Append(notices, n)
    PROVE  Going(d)'
<1>0. notices \in Seq(Notices)
  BY TypeParts DEF PadTypes
<1>1. CASE UNCHANGED notices
  BY <1>1 DEF Going, Removed
<1>2. ASSUME NEW n \in Notices, notices' = Append(notices, n) PROVE Going(d)'
  <2>1. /\ Len(notices) \in Nat /\ Len(notices') = Len(notices) + 1
        /\ \A k \in 1..Len(notices) : notices'[k] = notices[k]
    BY <1>0, <1>2, AtTheEnd
  <2> QED BY <2>1 DEF Going, Removed
<1> QED BY <1>1, <1>2

\* SDL is told of a device that goes.
LEMMA GoingTold ==
    ASSUME TypeOK, Pump, NEW d, Going(d)
    PROVE  Going(d)' \/ (Head(notices).kind = "removed" /\ Head(notices).dev = d)
<1>1. notices \in Seq(Notices) /\ notices # <<>> /\ notices' = Tail(notices)
  BY TypeParts DEF PadTypes, Pump
<1>2. /\ Len(notices) \in Nat /\ Len(notices) > 0 /\ Head(notices) = notices[1]
      /\ Len(notices') = Len(notices) - 1
      /\ \A k \in 1..(Len(notices) - 1) : notices'[k] = notices[k + 1]
  BY <1>1, Told, LenProperties
<1>3. PICK k \in 1..Len(notices) : notices[k] = Removed(d)
  BY DEF Going
<1>4. CASE k = 1
  BY <1>2, <1>3, <1>4 DEF Removed
<1>5. CASE k # 1
  <2>1. k - 1 \in 1..Len(notices') /\ notices'[k - 1] = Removed(d)
    BY <1>2, <1>3, <1>5
  <2> QED BY <2>1 DEF Going, Removed
<1> QED BY <1>4, <1>5

\* What the invariant needs of a step that leaves SDL's list alone.
LEMMA HandledFrom ==
    ASSUME UNCHANGED joysticks,
           \A k \in DOMAIN joysticks : \A id, d :
              d \in RealPads /\ id = joysticks[k].id /\ d = joysticks[k].dev =>
                 /\ id \notin ownIds'
                 /\ phase' = "settle" \/ (phase' = "scan" /\ k >= scanAt') \/ IsHandled(id, d)'
    PROVE  HandledInv'
<1>1. ASSUME NEW k \in DOMAIN joysticks', joysticks'[k].dev \in RealPads,
             NEW id, NEW d, id = joysticks[k].id, d = joysticks[k].dev
      PROVE  /\ joysticks'[k].id \notin ownIds'
             /\ \/ phase' = "settle"
                \/ phase' = "scan" /\ k >= scanAt'
                \/ IsHandled(joysticks[k].id, joysticks[k].dev)'
  <2>1. /\ id \notin ownIds'
        /\ phase' = "settle" \/ (phase' = "scan" /\ k >= scanAt') \/ IsHandled(id, d)'
    BY <1>1
  <2>2. IsHandled(id, d)' => IsHandled(joysticks[k].id, joysticks[k].dev)'
    BY <1>1 DEF IsHandled, Going, AddedEvent, PlaysAs, Removed
  <2> QED BY <1>1, <2>1, <2>2
<1> QED BY <1>1 DEF HandledInv

\* addPad deals with the joystick at the index, and leaves the others' affairs alone.
LEMMA AddPadHandles ==
    ASSUME TypeOK, KnownInv, NodeInv, ListInv, WordInv, HandledInv,
           NEW index, addPad(index), UNCHANGED joysticks
    PROVE  /\ \A k \in DOMAIN joysticks : joysticks[k].dev \in RealPads => joysticks[k].id \notin ownIds'
           /\ \A i \in Players : \A id : PlaysAs(i, id) => PlaysAs(i, id)'
           /\ turnedAway \subseteq turnedAway'
           /\ \A d : Going(d) => Going(d)'
           /\ \A id, d :
                 /\ index \in DOMAIN joysticks /\ id = joysticks[index].id
                 /\ d = joysticks[index].dev /\ d \in RealPads
                 => d \in turnedAway' \/ Going(d)' \/ \E i \in Players : PlaysAs(i, id)'
<1>0. \A k \in DOMAIN joysticks : joysticks[k].dev \in RealPads => joysticks[k].id \notin ownIds
  BY DEF HandledInv
<1>1. CASE /\ index \in DOMAIN joysticks => KnownOwn(joysticks[index])
           /\ UNCHANGED <<ownVars, slots, virtual, node, grab, notices, turnedAway>>
  <2>1. index \in DOMAIN joysticks => joysticks[index].dev \notin RealPads
    BY <1>0, <1>1 DEF KnownOwn
  <2> QED BY <1>0, <1>1, <2>1 DEF ownVars, PlaysAs, Occupied, Going, Removed
<1>2. CASE index \in DOMAIN joysticks /\ ClaimOwn(joysticks[index])
  <2>1. joysticks[index].dev \notin RealPads
    BY <1>2 DEF ClaimOwn, TakenForOwn, KnownInv, Lookalikes, IdsOf
  <2>2. \A k \in DOMAIN joysticks : joysticks[k].dev \in RealPads => joysticks[k].id \notin ownIds'
    BY <1>0, <1>2, <2>1 DEF ClaimOwn, ListInv
  <2> QED BY <1>2, <2>1, <2>2 DEF ClaimOwn, PlaysAs, Occupied, Going, Removed
<1>3. CASE index \in DOMAIN joysticks /\ Ignore(joysticks[index])
  <2>1. turnedAway \subseteq turnedAway' /\ UNCHANGED <<ownIds, slots, notices>>
    BY <1>3 DEF Ignore
  <2>2. /\ \A i \in Players : \A id : PlaysAs(i, id) => PlaysAs(i, id)'
        /\ \A d : Going(d) => Going(d)'
    BY <2>1 DEF PlaysAs, Occupied, Going, Removed
  <2>3. ASSUME NEW id, NEW d, d \in RealPads, id = joysticks[index].id, d = joysticks[index].dev
        PROVE  d \in turnedAway' \/ Going(d)' \/ \E i \in Players : PlaysAs(i, id)'
    <3>1. CASE node[d] = Absent
      <4>1. Listed(d) /\ d \in Devices
        BY <1>3, <2>3 DEF Listed, Devices
      <4> QED BY <2>2, <3>1, <4>1, GoneIsGoing
    <3>2. CASE \E i \in Players : Occupied(i) /\ slots[i].id = id
      BY <2>2, <3>2 DEF PlaysAs
    <3>3. CASE node[d] # Absent /\ \A i \in Players : Occupied(i)
      BY <1>3, <2>3, <3>3 DEF Ignore
    <3> QED BY <1>3, <2>3, <3>1, <3>2, <3>3 DEF Ignore, NoSlotFor
  <2> QED BY <1>0, <2>1, <2>2, <2>3
<1>4. CASE index \in DOMAIN joysticks /\ TakeSlot(joysticks[index])
  <2>1. PICK i \in Players, n \in Nodes \cup {NoNode} :
          /\ ~Occupied(i)
          /\ slots' = [slots EXCEPT ![i] = [id |-> joysticks[index].id, pad |-> joysticks[index].dev, held |-> n]]
          /\ \/ UNCHANGED <<node, notices, virtual>>
             \/ notices' = Append(notices, Added(Virtual(i)))
    BY <1>4, SlotTaken
  <2>2. slots \in [Players -> SlotValues] /\ joysticks[index].id # 0
    BY <1>4, EntryType, TypeParts DEF PadTypes
  <2>3. /\ \A l \in Players : l # i => slots'[l] = slots[l]
        /\ slots'[i].id = joysticks[index].id /\ Occupied(i)'
    BY <2>1, <2>2 DEF Occupied, NoPad
  <2>4. \A l \in Players : \A id : PlaysAs(l, id) => PlaysAs(l, id)'
    BY <2>1, <2>3 DEF PlaysAs, Occupied
  <2>5. Added(Virtual(i)) \in Notices
    BY DEF Added, Notices, Devices, VirtualPads
  <2>6. \A d : Going(d) => Going(d)'
    BY <2>1, <2>5, GoingKept
  <2>7. \A id : id = joysticks[index].id => PlaysAs(i, id)'
    BY <2>3 DEF PlaysAs
  <2>8. ownIds' = ownIds /\ turnedAway' = turnedAway
    BY <1>4 DEF TakeSlot
  <2> QED BY <1>0, <2>4, <2>6, <2>7, <2>8
<1> QED BY <1>1, <1>2, <1>3, <1>4, AddPadDoes

\* A pad stays handled unless its player, its event or the notice is gone.
LEMMA HandledKept ==
    ASSUME NEW id, NEW d, IsHandled(id, d),
           d \in turnedAway => d \in turnedAway' \/ Going(d)',
           Going(d) => Going(d)',
           AddedEvent(id) => AddedEvent(id)',
           \A i \in Players : PlaysAs(i, id) => PlaysAs(i, id)'
    PROVE  IsHandled(id, d)'
BY DEF IsHandled

\* The user plugs a pad in or pulls it out.
LEMMA PlugHandles ==
    ASSUME TypeOK, HandledInv, NEW p \in RealPads, Plug(p) \/ Unplug(p)
    PROVE  HandledInv'
<1>0. /\ UNCHANGED <<joysticks, queue, slots, ownIds, phase, scanAt>>
      /\ \E n \in {Added(p), Removed(p)} : notices' = Append(notices, n)
  BY DEF Plug, Unplug, listVars, ownVars
<1>1. Added(p) \in Notices /\ Removed(p) \in Notices
  BY DEF Added, Removed, Notices, Devices
<1>2. \A d : Going(d) => Going(d)'
  BY <1>0, <1>1, GoingKept
<1>3. \A d : d \in turnedAway => d \in turnedAway' \/ Going(d)'
  <2>1. CASE Plug(p)
    BY <2>1 DEF Plug
  <2>2. CASE Unplug(p)
    <3>1. notices \in Seq(Notices) /\ notices' = Append(notices, Removed(p))
      BY <2>2, TypeParts DEF PadTypes, Unplug
    <3>2. Len(notices) \in Nat /\ Len(notices') = Len(notices) + 1 /\ notices'[Len(notices) + 1] = Removed(p)
      BY <1>1, <3>1, AtTheEnd
    <3>3. Going(p)'
      BY <3>2 DEF Going, Removed
    <3> QED BY <2>2, <3>3 DEF Unplug
  <2> QED BY <2>1, <2>2
<1>4. ASSUME NEW id, NEW d, IsHandled(id, d) PROVE IsHandled(id, d)'
  <2>1. /\ AddedEvent(id) => AddedEvent(id)'
        /\ \A i \in Players : PlaysAs(i, id) => PlaysAs(i, id)'
    BY <1>0 DEF AddedEvent, PlaysAs, Occupied
  <2> QED BY <1>2, <1>3, <1>4, <2>1, HandledKept
<1> QED BY <1>0, <1>4, HandledFrom DEF HandledInv

\* SDL is told of a device: a real pad it lists has an event, unless settle throws it away.
LEMMA PumpHandles ==
    ASSUME TypeOK, ListInv, HandledInv, Pump
    PROVE  HandledInv'
<1>0. /\ UNCHANGED <<phase, slots, ownIds, turnedAway>> /\ phase # "scan"
      /\ ownIds \subseteq 1..(nextId - 1) /\ nextId \in Nat
  BY TypeParts DEF Pump, ownVars, historyVars, PadTypes, LoopTypes
<1> DEFINE n == Head(notices)
<1>1. n.dev \in Devices
  BY NoticeType
<1>2. \A d : Going(d) => Going(d)' \/ (n.kind = "removed" /\ n.dev = d)
  BY GoingTold
<1> HIDE DEF n
<1>3. ASSUME NEW id, NEW d, Entry(id, d), d \in RealPads, ~(n.kind = "removed" /\ n.dev = d),
             AddedEvent(id) => AddedEvent(id)'
      PROVE  id \notin ownIds /\ (phase = "settle" \/ IsHandled(id, d)')
  <2>1. id \notin ownIds /\ (phase = "settle" \/ IsHandled(id, d))
    BY <1>0, <1>3 DEF Entry, HandledInv
  <2>2. \A i \in Players : PlaysAs(i, id) => PlaysAs(i, id)'
    BY <1>0 DEF PlaysAs, Occupied
  <2> QED BY <1>0, <1>2, <1>3, <2>1, <2>2, HandledKept
<1>4. ASSUME NEW id, NEW d, Entry(id, d)', d \in RealPads
      PROVE  id \notin ownIds /\ (phase = "settle" \/ IsHandled(id, d)')
  <2>1. CASE n.kind = "added" /\ Lists(n.dev)
    <3> DEFINE ev == [kind |-> "added", index |-> PlaceFor(n.dev), id |-> nextId]
    <3>1. Sends(ev) /\ ev.kind = "added" /\ ev.id = nextId
      BY <2>1 DEF Lists
    <3> HIDE DEF ev
    <3>2. AddedEvent(id) => AddedEvent(id)'
      BY <3>1, EventSent
    <3>3. Entry(id, d) \/ (id = nextId /\ d = n.dev)
      BY <1>1, <1>4, <2>1, EntriesWith
    <3>4. CASE id = nextId
      <4>1. nextId \notin ownIds
        BY <1>0
      <4>2. phase = "settle" \/ AddedEvent(id)'
        BY <3>1, <3>4, EventSent
      <4> QED BY <3>4, <4>1, <4>2 DEF IsHandled
    <3> QED BY <1>3, <1>4, <2>1, <3>2, <3>3, <3>4
  <2>2. CASE n.kind = "removed" /\ Unlists(n.dev)
    <3>1. Entry(id, d) /\ d # n.dev
      BY <1>1, <1>4, <2>2, EntriesWithout
    <3>2. PICK i \in DOMAIN joysticks : Sends([kind |-> "removed", id |-> joysticks[i].id])
      BY <1>1, <2>2, EntriesWithout
    <3>3. AddedEvent(id) => AddedEvent(id)'
      BY <3>2, EventSent
    <3> QED BY <1>3, <1>4, <3>1, <3>3
  <2>3. CASE (n.kind = "removed" => ~Listed(n.dev)) /\ UNCHANGED <<joysticks, queue>>
    <3>1. Entry(id, d) /\ Listed(d)
      BY <1>4, <2>3 DEF Entry, Listed
    <3>2. AddedEvent(id) => AddedEvent(id)'
      BY <2>3 DEF AddedEvent
    <3> QED BY <1>3, <1>4, <2>3, <3>1, <3>2
  <2> QED BY <2>1, <2>2, <2>3 DEF Pump, n
<1>5. ASSUME NEW k \in DOMAIN joysticks', joysticks'[k].dev \in RealPads,
             NEW id, NEW d, id = joysticks'[k].id, d = joysticks'[k].dev
      PROVE  /\ joysticks'[k].id \notin ownIds'
             /\ phase' = "settle" \/ IsHandled(joysticks[k].id, joysticks[k].dev)'
  <2>1. Entry(id, d)'
    BY <1>5 DEF Entry
  <2>2. id \notin ownIds /\ (phase = "settle" \/ IsHandled(id, d)')
    BY <1>4, <1>5, <2>1
  <2>3. IsHandled(id, d)' => IsHandled(joysticks[k].id, joysticks[k].dev)'
    BY <1>5 DEF IsHandled, Going, AddedEvent, PlaysAs, Removed
  <2> QED BY <1>0, <1>5, <2>2, <2>3
<1> QED BY <1>5 DEF HandledInv

\* The scan looks at every index once.
LEMMA ScanHandles ==
    ASSUME TypeOK, KnownInv, NodeInv, ListInv, WordInv, HandledInv, Scan
    PROVE  HandledInv'
<1>0. /\ phase = "scan" /\ phase' = "scan" /\ scanAt' = scanAt + 1 /\ addPad(scanAt)
      /\ scanAt \in DOMAIN joysticks /\ UNCHANGED <<joysticks, queue>>
  BY DEF Scan, listVars
<1>1. scanAt \in Nat /\ Len(joysticks) \in Nat /\ DOMAIN joysticks = 1..Len(joysticks)
  BY TypeParts, LenProperties DEF LoopTypes
<1>2. /\ \A k \in DOMAIN joysticks : joysticks[k].dev \in RealPads => joysticks[k].id \notin ownIds'
      /\ \A i \in Players : \A id : PlaysAs(i, id) => PlaysAs(i, id)'
      /\ turnedAway \subseteq turnedAway'
      /\ \A d : Going(d) => Going(d)'
      /\ \A id, d :
            /\ scanAt \in DOMAIN joysticks /\ id = joysticks[scanAt].id
            /\ d = joysticks[scanAt].dev /\ d \in RealPads
            => d \in turnedAway' \/ Going(d)' \/ \E i \in Players : PlaysAs(i, id)'
  BY <1>0, AddPadHandles
<1>3. ASSUME NEW k \in DOMAIN joysticks, NEW id, NEW d,
             d \in RealPads, id = joysticks[k].id, d = joysticks[k].dev
      PROVE  k >= scanAt' \/ IsHandled(id, d)'
  <2>1. CASE k = scanAt
    BY <1>0, <1>2, <1>3, <2>1 DEF IsHandled
  <2>2. CASE k < scanAt
    <3>1. IsHandled(id, d)
      BY <1>0, <1>1, <1>3, <2>2 DEF HandledInv
    <3>2. AddedEvent(id) => AddedEvent(id)'
      BY <1>0 DEF AddedEvent
    <3> QED BY <1>2, <3>1, <3>2, HandledKept
  <2>3. CASE k > scanAt
    BY <1>0, <1>1, <2>3
  <2> QED BY <1>1, <2>1, <2>2, <2>3
<1> QED BY <1>0, <1>2, <1>3, HandledFrom

\* An event that still has its index right is handled for the pad it is about.
LEMMA AddedHandles ==
    ASSUME TypeOK, KnownInv, NodeInv, ListInv, WordInv, HandledInv, HandleAdded, ~misdirected'
    PROVE  HandledInv'
<1> DEFINE index == Head(queue).index
<1>0. /\ addPad(index) /\ UNCHANGED <<joysticks, phase, scanAt>>
      /\ queue # <<>> /\ queue' = Tail(queue)
      /\ index \in DOMAIN joysticks /\ joysticks[index].id = Head(queue).id
  BY DEF HandleAdded
<1> HIDE DEF index
<1>1. /\ \A k \in DOMAIN joysticks : joysticks[k].dev \in RealPads => joysticks[k].id \notin ownIds'
      /\ \A i \in Players : \A id : PlaysAs(i, id) => PlaysAs(i, id)'
      /\ turnedAway \subseteq turnedAway'
      /\ \A d : Going(d) => Going(d)'
      /\ \A id, d :
            /\ index \in DOMAIN joysticks /\ id = joysticks[index].id
            /\ d = joysticks[index].dev /\ d \in RealPads
            => d \in turnedAway' \/ Going(d)' \/ \E i \in Players : PlaysAs(i, id)'
  BY <1>0, AddPadHandles
<1>2. \A id : AddedEvent(id) => AddedEvent(id)' \/ Head(queue).id = id
  BY <1>0, EventTaken
<1>3. ASSUME NEW k \in DOMAIN joysticks, NEW id, NEW d,
             d \in RealPads, id = joysticks[k].id, d = joysticks[k].dev
      PROVE  phase' = "settle" \/ (phase' = "scan" /\ k >= scanAt') \/ IsHandled(id, d)'
  <2>1. CASE id = Head(queue).id
    <3>1. k = index
      BY <1>0, <1>3, <2>1 DEF ListInv
    <3> QED BY <1>0, <1>1, <1>3, <3>1 DEF IsHandled
  <2>2. CASE id # Head(queue).id
    <3>1. phase = "settle" \/ (phase = "scan" /\ k >= scanAt) \/ IsHandled(id, d)
      BY <1>3 DEF HandledInv
    <3>2. IsHandled(id, d) => IsHandled(id, d)'
      BY <1>1, <1>2, <2>2, HandledKept
    <3> QED BY <1>0, <3>1, <3>2
  <2> QED BY <2>1, <2>2
<1> QED BY <1>0, <1>1, <1>3, HandledFrom

\* Who leaves is not in SDL's list any more.
LEMMA RemovedHandles ==
    ASSUME TypeOK, QueueInv, HandledInv, HandleRemoved
    PROVE  HandledInv'
<1>0. /\ UNCHANGED <<joysticks, phase, scanAt, ownIds, turnedAway>>
      /\ queue # <<>> /\ queue' = Tail(queue) /\ Head(queue).kind = "removed"
      /\ slots \in [Players -> SlotValues]
  BY TypeParts DEF HandleRemoved, ownVars, PadTypes
<1> DEFINE gone == Head(queue).id
<1>1. RemovedEvent(gone) /\ \A id : AddedEvent(id) => AddedEvent(id)'
  BY <1>0, EventTaken
<1> HIDE DEF gone
<1>2. /\ \A i \in Players : \A id : PlaysAs(i, id) /\ id # gone => PlaysAs(i, id)'
      /\ UNCHANGED notices \/ \E n \in Notices : notices' = Append(notices, n)
  <2>1. CASE \E i \in Players : slots[i].id = gone /\ Leaves(i)
    <3>1. PICK i \in Players : slots[i].id = gone /\ Leaves(i)
      BY <2>1
    <3>2. \A l \in Players : l # i => slots'[l] = slots[l]
      BY <1>0, <3>1 DEF Leaves
    <3>3. \A l \in Players : \A id : PlaysAs(l, id) /\ id # gone => PlaysAs(l, id)'
      BY <3>1, <3>2 DEF PlaysAs, Occupied
    <3>4. Removed(Virtual(i)) \in Notices
      BY DEF Removed, Notices, Devices, VirtualPads
    <3> QED BY <3>1, <3>3, <3>4 DEF Leaves
  <2>2. CASE UNCHANGED <<slots, notices>>
    BY <2>2 DEF PlaysAs, Occupied
  <2> QED BY <2>1, <2>2 DEF HandleRemoved, IsLowest, gone
<1>3. \A d : Going(d) => Going(d)'
  BY <1>2, GoingKept
<1>4. ASSUME NEW k \in DOMAIN joysticks, NEW id, NEW d,
             d \in RealPads, id = joysticks[k].id, d = joysticks[k].dev
      PROVE  /\ id \notin ownIds'
             /\ phase' = "settle" \/ (phase' = "scan" /\ k >= scanAt') \/ IsHandled(id, d)'
  <2>1. id # gone
    BY <1>1, <1>4 DEF QueueInv
  <2>2. IsHandled(id, d) => IsHandled(id, d)'
    BY <1>0, <1>1, <1>2, <1>3, <2>1, HandledKept
  <2> QED BY <1>0, <1>4, <2>2 DEF HandledInv
<1> QED BY <1>0, <1>4, HandledFrom

\* Every step handles the pads, while none is taken for ours and no event misses its pad.
LEMMA HandledStep ==
    ASSUME TypeOK, ~lateLookalike => KnownInv, NodeInv, ListInv, WordInv, QueueInv,
           ~lateLookalike /\ ~misdirected => HandledInv, [Next]_vars, ~lateLookalike', ~misdirected'
    PROVE  HandledInv'
<1>0. ~lateLookalike /\ ~misdirected
  <2>1. ASSUME NEW p \in RealPads, Plug(p) PROVE ~lateLookalike /\ ~misdirected
    BY <2>1 DEF Plug
  <2>2. ASSUME NEW p \in RealPads, Unplug(p) PROVE ~lateLookalike /\ ~misdirected
    BY <2>2 DEF Unplug
  <2>3. CASE HandleAdded
    BY <2>3 DEF HandleAdded
  <2>4. CASE Pump \/ StartScan \/ Scan \/ EndScan \/ HandleRemoved \/ UNCHANGED vars
    BY <2>4 DEF Pump, StartScan, Scan, EndScan, HandleRemoved, historyVars, vars
  <2> QED BY <2>1, <2>2, <2>3, <2>4 DEF Next
<1>1. KnownInv /\ HandledInv
  BY <1>0
<1>2. Len(joysticks) \in Nat /\ DOMAIN joysticks = 1..Len(joysticks) /\ scanAt \in Nat \ {0}
  BY TypeParts, LenProperties DEF LoopTypes
<1>3. ASSUME UNCHANGED <<joysticks, ownIds, turnedAway, notices, queue, slots>>
      PROVE  \A id, d : IsHandled(id, d) => IsHandled(id, d)'
  BY <1>3 DEF IsHandled, Going, Removed, AddedEvent, PlaysAs, Occupied
<1>4. CASE StartScan
  <2>1. UNCHANGED <<joysticks, ownIds, scanAt>> /\ phase' = "scan" /\ scanAt = 1
    BY <1>4 DEF StartScan, listVars, ownVars, QueueInv
  <2>2. \A k \in DOMAIN joysticks : k >= scanAt'
    BY <1>2, <2>1
  <2> QED BY <1>1, <2>1, <2>2, HandledFrom DEF HandledInv
<1>5. CASE EndScan
  <2>1. /\ UNCHANGED <<joysticks, ownIds, turnedAway, notices, queue, slots>>
        /\ phase = "scan" /\ scanAt \notin DOMAIN joysticks
    BY <1>5 DEF EndScan, listVars, ownVars, historyVars
  <2>2. \A k \in DOMAIN joysticks : ~(k >= scanAt)
    BY <1>2, <2>1
  <2> QED BY <1>1, <1>3, <2>1, <2>2, HandledFrom DEF HandledInv
<1>6. CASE UNCHANGED vars
  <2>1. UNCHANGED <<joysticks, ownIds, turnedAway, notices, queue, slots, phase, scanAt>>
    BY <1>6 DEF vars, listVars, ownVars, historyVars
  <2> QED BY <1>1, <1>3, <2>1, HandledFrom DEF HandledInv
<1>7. CASE \E p \in RealPads : Plug(p) \/ Unplug(p)
  BY <1>1, <1>7, PlugHandles
<1> QED
  BY <1>1, <1>4, <1>5, <1>6, <1>7, PumpHandles, ScanHandles, AddedHandles, RemovedHandles DEF Next

\* The kernel's notices grow by one, or SDL is told of them.
LEMMA NoticesChange ==
    ASSUME TypeOK, NodeInv, [Next]_vars
    PROVE  Pump \/ UNCHANGED notices \/ \E n \in Notices : notices' = Append(notices, n)
<1>1. ASSUME NEW i \in Players PROVE Added(Virtual(i)) \in Notices /\ Removed(Virtual(i)) \in Notices
  BY DEF Added, Removed, Notices, Devices, VirtualPads
<1>2. ASSUME NEW p \in RealPads PROVE Added(p) \in Notices /\ Removed(p) \in Notices
  BY DEF Added, Removed, Notices, Devices
<1>3. ASSUME NEW index, addPad(index)
      PROVE  UNCHANGED notices \/ \E n \in Notices : notices' = Append(notices, n)
  <2>1. CASE index \in DOMAIN joysticks /\ TakeSlot(joysticks[index])
    <3>1. UNCHANGED notices \/ \E i \in Players : notices' = Append(notices, Added(Virtual(i)))
      BY <2>1, SlotTaken
    <3> QED BY <1>1, <3>1
  <2> QED BY <1>3, <2>1, AddPadDoes DEF ClaimOwn, Ignore
<1>4. CASE HandleRemoved
  BY <1>1, <1>4 DEF HandleRemoved, Leaves
<1>5. ASSUME NEW p \in RealPads, Plug(p) \/ Unplug(p)
      PROVE  \E n \in Notices : notices' = Append(notices, n)
  BY <1>2, <1>5 DEF Plug, Unplug
<1>6. CASE Scan
  BY <1>3, <1>6 DEF Scan
<1>7. CASE HandleAdded
  BY <1>3, <1>7 DEF HandleAdded
<1> QED BY <1>4, <1>5, <1>6, <1>7 DEF Next, StartScan, EndScan, vars

\* What is about to go goes: SDL gives no id twice.
LEMMA GoneForGood ==
    ASSUME TypeOK, NodeInv, ListInv, [Next]_vars,
           NEW id \in 1..(nextId - 1), NEW d, Going(d) \/ ~Entry(id, d)
    PROVE  Going(d)' \/ ~Entry(id, d)'
<1>1. CASE ~Pump
  <2>1. Going(d) => Going(d)'
    BY <1>1, NoticesChange, GoingKept
  <2>2. UNCHANGED joysticks
    BY <1>1, ListChanges
  <2> QED BY <2>1, <2>2 DEF Entry
<1>2. CASE Pump
  <2> DEFINE n == Head(notices)
  <2>1. n.dev \in Devices /\ (Going(d) => Going(d)' \/ (n.kind = "removed" /\ n.dev = d))
    BY <1>2, NoticeType, GoingTold
  <2> HIDE DEF n
  <2>2. id # nextId
    BY TypeParts DEF LoopTypes
  <2>3. CASE n.kind = "added" /\ Lists(n.dev)
    <3>1. Entry(id, d)' => Entry(id, d)
      BY <2>1, <2>2, <2>3, EntriesWith
    <3> QED BY <2>1, <2>3, <3>1
  <2>4. CASE n.kind = "removed" /\ Unlists(n.dev)
    <3>1. Entry(id, d)' => Entry(id, d) /\ d # n.dev
      BY <2>1, <2>4, EntriesWithout
    <3> QED BY <2>1, <3>1
  <2>5. CASE (n.kind = "removed" => ~Listed(n.dev)) /\ UNCHANGED joysticks
    <3>1. (Entry(id, d)' <=> Entry(id, d)) /\ (Entry(id, d) => Listed(d))
      BY <2>5 DEF Entry, Listed
    <3> QED BY <2>1, <2>5, <3>1
  <2> QED BY <1>2, <2>3, <2>4, <2>5 DEF Pump, n
<1> QED BY <1>1, <1>2

\* A pad that is listed and not about to go is there.
LEMMA IsThere ==
    ASSUME TypeOK, WordInv, NEW id, NEW d \in Devices, Entry(id, d), ~Going(d)
    PROVE  node[d] # Absent
<1>1. Listed(d)
  BY DEF Entry, Listed
<1> QED BY <1>1, GoneIsGoing

\* A pad that a player keeps stays held, unless its node goes free with another player's pad.
LEMMA StaysHeld ==
    ASSUME TypeOK, NodeInv, ListInv, WordInv, [Next]_vars, NEW i \in Players, Occupied(i), Occupied(i)',
           NEW id, NEW d, NEW n, id = slots[i].id, d = slots[i].pad, n = slots[i].held, slots'[i] = slots[i],
           IsSilent(i, id, d, n)
    PROVE  IsSilent(i, id, d, n)'
<1>0. /\ node \in [Devices -> Nodes \cup {Absent}] /\ grab \in [Nodes -> Players \cup {Nobody}]
      /\ d \in Devices /\ n \in Nodes \cup {NoNode} /\ id \in 1..(nextId - 1) /\ i # Nobody
      /\ slots \in [Players -> SlotValues]
  BY TypeParts, SlotTypes DEF PadTypes, Players, Nobody
<1>1. CASE Going(d) \/ ~Entry(id, d)
  BY <1>0, <1>1, GoneForGood DEF IsSilent
<1>2. CASE ~Going(d) /\ Entry(id, d)
  <2>0. node[d] # Absent /\ node[d] \in Nodes /\ (d \in letGo \/ IsHeld(i, d, n))
    BY <1>0, <1>2, IsThere DEF IsSilent
  <2>1. ASSUME letGo \subseteq letGo', d \in Hidapi => node'[d] = node[d],
               \A m \in Nodes : grab[m] # Nobody => grab'[m] = grab[m]
        PROVE  IsSilent(i, id, d, n)'
    BY <1>0, <2>0, <2>1 DEF IsSilent, IsHeld
  <2>2. \A l \in Players : d \in Hidapi => d # Virtual(l)
    BY TwoKinds, PadsAssumption DEF VirtualPads
  <2>3. ASSUME NEW p \in RealPads, Plug(p) PROVE IsSilent(i, id, d, n)'
    <3>1. d # p /\ UNCHANGED <<grab, letGo>> /\ \E f \in Nodes : node' = [node EXCEPT ![p] = f]
      BY <2>0, <2>3 DEF Plug
    <3> QED BY <1>0, <2>1, <3>1
  <2>4. ASSUME NEW p \in RealPads, Unplug(p) PROVE IsSilent(i, id, d, n)'
    <3>0. /\ node' = [node EXCEPT ![p] = Absent] /\ grab' = [grab EXCEPT ![node[p]] = Nobody]
          /\ notices' = Append(notices, Removed(p)) /\ node[p] # Absent /\ p \in Devices
          /\ letGo' = (letGo \ {p}) \cup
                {slots[k].pad : k \in {l \in Players : slots[l].held = node[p] /\ slots[l].pad # p}}
      BY <2>4 DEF Unplug, Devices
    <3>1. CASE d = p
      <4>1. notices \in Seq(Notices) /\ Removed(p) \in Notices
        BY <3>0, TypeParts DEF PadTypes, Removed, Notices
      <4>2. Len(notices) \in Nat /\ Len(notices') = Len(notices) + 1 /\ notices'[Len(notices) + 1] = Removed(p)
        BY <3>0, <4>1, AtTheEnd
      <4>3. Going(d)'
        BY <3>1, <4>2 DEF Going, Removed
      <4> QED BY <4>3 DEF IsSilent
    <3>2. CASE d # p
      <4>1. node'[d] = node[d] /\ node[d] # node[p] /\ node[p] \in Nodes
        BY <1>0, <2>0, <3>0, <3>2 DEF NodeInv
      <4>2. CASE d \in letGo
        BY <3>0, <3>2, <4>2 DEF IsSilent
      <4>3. CASE d \in Hidapi /\ grab[node[d]] # Nobody
        BY <1>0, <2>0, <3>0, <4>1, <4>3 DEF IsSilent, IsHeld
      <4>4. CASE d \notin Hidapi /\ n = node[p]
        <5>1. d \in letGo'
          BY <3>0, <3>2, <4>4
        <5> QED BY <5>1 DEF IsSilent
      <4>5. CASE d \notin Hidapi /\ n # node[p] /\ (n = NoNode \/ grab[n] = i)
        BY <1>0, <3>0, <4>1, <4>5 DEF IsSilent, IsHeld
      <4> QED BY <2>0, <4>2, <4>3, <4>4, <4>5 DEF IsHeld
    <3> QED BY <3>1, <3>2
  <2>5. ASSUME NEW index, addPad(index), UNCHANGED letGo PROVE IsSilent(i, id, d, n)'
    <3>1. CASE index \in DOMAIN joysticks /\ TakeSlot(joysticks[index])
      <4>1. PICK l \in Players :
              /\ \A m \in Nodes : grab[m] # Nobody => grab'[m] = grab[m]
              /\ UNCHANGED node \/ \E f \in Nodes : node' = [node EXCEPT ![Virtual(l)] = f]
        BY <3>1, SlotTaken
      <4>2. d \in Hidapi => node'[d] = node[d]
        BY <1>0, <2>2, <4>1
      <4> QED BY <2>1, <2>5, <4>1, <4>2
    <3>2. CASE UNCHANGED <<grab, node>>
      BY <2>1, <2>5, <3>2
    <3> QED BY <2>5, <3>1, <3>2, AddPadDoes DEF ClaimOwn, Ignore
  <2>6. ASSUME NEW l \in Players, Leaves(l) PROVE IsSilent(i, id, d, n)'
    <3>1. /\ slots' = [slots EXCEPT ![l] = NoPad]
          /\ grab' = [m \in Nodes |-> IF grab[m] = l THEN Nobody ELSE grab[m]]
          /\ letGo' = letGo \cup {e \in Devices : node[e] # Absent /\ grab[node[e]] = l}
          /\ UNCHANGED node \/ node' = [node EXCEPT ![Virtual(l)] = Absent]
      BY <2>6 DEF Leaves
    <3>2. i # l
      BY <1>0, <3>1 DEF Occupied
    <3>3. d \in Hidapi => node'[d] = node[d]
      BY <1>0, <2>2, <3>1
    <3>4. CASE d \in letGo
      BY <3>1, <3>4 DEF IsSilent
    <3>5. CASE d \in Hidapi /\ grab[node[d]] # Nobody
      <4>1. CASE grab[node[d]] = l
        BY <1>0, <2>0, <3>1, <4>1 DEF IsSilent
      <4>2. CASE grab[node[d]] # l
        BY <2>0, <3>1, <3>3, <3>5, <4>2 DEF IsSilent, IsHeld
      <4> QED BY <4>1, <4>2
    <3>6. CASE d \notin Hidapi /\ (n = NoNode \/ grab[n] = i)
      BY <1>0, <3>1, <3>2, <3>6 DEF IsSilent, IsHeld
    <3> QED BY <2>0, <3>4, <3>5, <3>6 DEF IsHeld
  <2>7. CASE Pump \/ StartScan \/ EndScan \/ UNCHANGED vars
    <3>1. UNCHANGED <<grab, node, letGo>>
      BY <2>7 DEF Pump, StartScan, EndScan, historyVars, vars
    <3> QED BY <2>1, <3>1
  <2>8. CASE Scan
    BY <2>5, <2>8 DEF Scan
  <2>9. CASE HandleAdded
    BY <2>5, <2>9 DEF HandleAdded
  <2>10. CASE HandleRemoved
    <3>1. CASE UNCHANGED <<grab, node, letGo>>
      BY <2>1, <3>1
    <3> QED BY <2>6, <2>10, <3>1 DEF HandleRemoved
  <2> QED BY <2>3, <2>4, <2>7, <2>8, <2>9, <2>10 DEF Next
<1> QED BY <1>1, <1>2

\* A player who comes is held, if the App has a virtual pad in place of the real one.
LEMMA ComesHeld ==
    ASSUME TypeOK, NodeInv, NEW index, addPad(index), NEW i \in virtual', Occupied(i)'
    PROVE  \/ i \in virtual /\ slots'[i] = slots[i]
           \/ IsHeld(i, slots[i].pad, slots[i].held)'
<1>1. CASE UNCHANGED <<slots, virtual>>
  BY <1>1
<1>2. CASE index \in DOMAIN joysticks /\ TakeSlot(joysticks[index])
  <2> DEFINE j == joysticks[index]
  <2>1. PICK l \in Players, n \in Nodes \cup {NoNode} :
              /\ slots' = [slots EXCEPT ![l] = [id |-> j.id, pad |-> j.dev, held |-> n]]
              /\ \/ UNCHANGED <<node, virtual>>
                 \/ /\ \E f \in Nodes : node' = [node EXCEPT ![Virtual(l)] = f]
                    /\ virtual' = virtual \cup {l}
              /\ l \in virtual' =>
                    \/ j.dev \in Hidapi /\ grab'[node[j.dev]] # Nobody
                    \/ j.dev \notin Hidapi /\ (n = NoNode \/ grab'[n] = l)
    BY <1>2, SlotTaken
  <2>2. slots \in [Players -> SlotValues] /\ node \in [Devices -> Nodes \cup {Absent}] /\ virtual \subseteq Players
    BY TypeParts DEF PadTypes
  <2>3. CASE i = l
    <3>1. slots'[i].pad = j.dev /\ slots'[i].held = n
      BY <2>1, <2>2, <2>3
    <3>2. j.dev \in Hidapi => node'[j.dev] = node[j.dev]
      BY <1>2, <2>1, <2>2, EntryType, TwoKinds, PadsAssumption DEF VirtualPads
    <3> HIDE DEF j
    <3> QED BY <2>1, <2>3, <3>1, <3>2 DEF IsHeld
  <2>4. CASE i # l
    BY <2>1, <2>2, <2>4
  <2> QED BY <2>3, <2>4
<1> QED BY <1>1, <1>2, AddPadDoes DEF ClaimOwn, Ignore

\* Every step keeps the players' pads silent.
LEMMA SilentStep ==
    ASSUME TypeOK, NodeInv, ListInv, WordInv, SilentInv, [Next]_vars
    PROVE  SilentInv'
<1>0. slots \in [Players -> SlotValues] /\ virtual \subseteq Players /\ virtual' \subseteq Players
  BY StepType, TypeParts DEF PadTypes
<1> SUFFICES ASSUME NEW i \in virtual', Occupied(i)'
             PROVE  IsSilent(i, slots[i].id, slots[i].pad, slots[i].held)'
    BY DEF SilentInv
<1>1. CASE i \in virtual /\ slots'[i] = slots[i]
  <2>1. i \in Players /\ Occupied(i)
    BY <1>0, <1>1 DEF Occupied
  <2>2. ASSUME NEW id, NEW d, NEW n, id = slots[i].id, d = slots[i].pad, n = slots[i].held
        PROVE  IsSilent(i, slots[i].id, slots[i].pad, slots[i].held)'
    <3>1. IsSilent(i, id, d, n)
      BY <1>1, <2>1, <2>2 DEF SilentInv
    <3>2. IsSilent(i, id, d, n)'
      BY <1>1, <2>1, <2>2, <3>1, StaysHeld
    <3> QED BY <1>1, <2>2, <3>2 DEF IsSilent, IsHeld, Going, Removed, Entry
  <2> QED BY <2>2
<1>2. CASE IsHeld(i, slots[i].pad, slots[i].held)'
  BY <1>2 DEF IsSilent
<1>3. ASSUME NEW index, addPad(index)
      PROVE  (i \in virtual /\ slots'[i] = slots[i]) \/ IsHeld(i, slots[i].pad, slots[i].held)'
  BY <1>3, ComesHeld
<1>4. ASSUME UNCHANGED <<slots, virtual>> PROVE i \in virtual /\ slots'[i] = slots[i]
  BY <1>4
<1>5. CASE Scan
  BY <1>1, <1>2, <1>3, <1>5 DEF Scan
<1>6. CASE HandleAdded
  BY <1>1, <1>2, <1>3, <1>6 DEF HandleAdded
<1>7. CASE HandleRemoved
  <2>1. ASSUME NEW l \in Players, Leaves(l) PROVE i \in virtual /\ slots'[i] = slots[i]
    <3>1. slots' = [slots EXCEPT ![l] = NoPad] /\ virtual' \subseteq virtual
      BY <2>1 DEF Leaves
    <3> QED BY <1>0, <3>1 DEF Occupied
  <2> QED BY <1>1, <1>4, <1>7, <2>1 DEF HandleRemoved
<1>8. CASE (\E p \in RealPads : Plug(p) \/ Unplug(p)) \/ Pump \/ StartScan \/ EndScan \/ UNCHANGED vars
  BY <1>1, <1>4, <1>8 DEF Plug, Unplug, Pump, StartScan, EndScan, vars
<1> QED BY <1>5, <1>6, <1>7, <1>8 DEF Next

\* At the start the pads that are plugged in are listed, and nobody plays.
LEMMA InitPlay == Init => PlayInv
<1> SUFFICES ASSUME Init PROVE PlayInv
    OBVIOUS
<1>0. IInv
  BY InitOwn
<1>1. PICK n \in 0..Cardinality(RealPads) : \E order \in [1..n -> RealPads] :
        (\A k, l \in 1..n : k # l => order[k] # order[l]) /\ StartsWith(n, order)
  BY DEF Init
<1>2. PICK order \in [1..n -> RealPads] :
        (\A k, l \in 1..n : k # l => order[k] # order[l]) /\ StartsWith(n, order)
  BY <1>1
<1>3. n \in Nat
  BY EnoughNodes
<1>4. /\ joysticks = [k \in 1..n |-> [id |-> k, dev |-> order[k]]]
      /\ node = [d \in Devices |->
             IF \E k \in 1..n : order[k] = d THEN CHOOSE k \in 1..n : order[k] = d
             ELSE IF d = Virtual(1) THEN n + 1 ELSE Absent]
      /\ notices = <<Added(Virtual(1))>> /\ queue = <<>> /\ ownIds = {}
      /\ slots = [i \in Players |-> NoPad] /\ virtual = {1} /\ phase = "settle" /\ scanAt = 1
  BY <1>2 DEF StartsWith
<1>5. /\ DOMAIN joysticks = 1..n
      /\ \A k \in 1..n : joysticks[k].id = k /\ joysticks[k].dev = order[k]
  BY <1>4
<1>6. Len(notices) = 1 /\ notices[1] = Added(Virtual(1)) /\ Len(queue) = 0
  BY <1>4
<1>7. Virtual(1) \in Devices /\ \A k \in 1..n : order[k] # Virtual(1) /\ order[k] \in Devices
  BY PadsAssumption, TwoKinds DEF Devices, VirtualPads, Players
<1>8. \A k \in 1..n : node[order[k]] = k
  <2> SUFFICES ASSUME NEW k \in 1..n PROVE node[order[k]] = k
      OBVIOUS
  <2>1. node[order[k]] = CHOOSE l \in 1..n : order[l] = order[k]
    BY <1>4, <1>7
  <2> QED BY <1>2, <2>1
<1>9. node[Virtual(1)] = n + 1
  BY <1>4, <1>7
<1>10. \A d \in Devices : (\A k \in 1..n : order[k] # d) /\ d # Virtual(1) => node[d] = Absent
  BY <1>4
<1>11. NodeInv
  <2> SUFFICES ASSUME NEW d \in Devices, NEW e \in Devices, node[d] = node[e], node[d] # Absent PROVE d = e
      BY DEF NodeInv
  <2>1. /\ d = Virtual(1) \/ \E k \in 1..n : d = order[k]
        /\ e = Virtual(1) \/ \E k \in 1..n : e = order[k]
    BY <1>10
  <2> QED BY <1>3, <1>8, <1>9, <2>1
<1>12. ListInv
  BY <1>2, <1>5 DEF ListInv
<1>13. WordInv
  <2>1. node[Virtual(1)] # Absent
    BY <1>3, <1>9 DEF Absent
  <2>2. ASSUME NEW k \in 1..Len(notices) PROVE notices[k].kind = "added" <=> node[notices[k].dev] # Absent
    BY <1>6, <2>1, <2>2 DEF Added
  <2>3. ASSUME NEW d \in Devices, \A k \in 1..Len(notices) : notices[k].dev # d
        PROVE  Listed(d) <=> node[d] # Absent
    <3>1. d # Virtual(1)
      BY <1>6, <2>3 DEF Added
    <3>2. ASSUME NEW k \in 1..n, order[k] = d PROVE Listed(d) /\ node[d] # Absent
      BY <1>5, <1>8, <3>2 DEF Listed, Absent
    <3>3. ASSUME \A k \in 1..n : order[k] # d PROVE ~Listed(d) /\ node[d] = Absent
      BY <1>5, <1>10, <3>1, <3>3 DEF Listed
    <3> QED BY <3>2, <3>3
  <2> QED BY <2>2, <2>3 DEF WordInv
<1>14. \A i \in Players : ~Occupied(i)
  BY <1>4 DEF Occupied
<1>15. QueueInv
  BY <1>4, <1>6, <1>14 DEF QueueInv, RemovedEvent
<1>16. SlotInv /\ SilentInv
  <2>1. virtual \ {1} = {} /\ virtual \subseteq Players
    BY <1>4, PadsAssumption DEF Players
  <2> QED BY <1>14, <2>1 DEF SlotInv, SilentInv, PlaysAs
<1>17. HandledInv
  BY <1>4 DEF HandledInv
<1> QED BY <1>0, <1>11, <1>12, <1>13, <1>15, <1>16, <1>17 DEF PlayInv

\* The invariant is kept by every step.
LEMMA StepPlay == PlayInv /\ [Next]_vars => PlayInv'
<1> SUFFICES ASSUME PlayInv, [Next]_vars PROVE PlayInv'
    OBVIOUS
<1>1. /\ IInv /\ TypeOK /\ (~lateLookalike => KnownInv)
      /\ NodeInv /\ ListInv /\ WordInv /\ QueueInv /\ SlotInv /\ SilentInv
      /\ ~lateLookalike /\ ~misdirected => HandledInv
  BY DEF PlayInv, IInv
<1>2. IInv' /\ NodeInv' /\ ListInv' /\ WordInv' /\ QueueInv' /\ SlotInv' /\ SilentInv'
  BY <1>1, StepOwn, NodeStep, ListStep, WordStep, QueueStep, SlotStep, SilentStep
<1>3. ~lateLookalike' /\ ~misdirected' => HandledInv'
  BY <1>1, HandledStep
<1> QED BY <1>2, <1>3 DEF PlayInv

\* PlayInv holds of every reachable state.
THEOREM InductivePlay == Spec => []PlayInv
<1> QED BY InitPlay, StepPlay, PTL DEF Spec

\* With nothing on its way, SDL's list is what is plugged in, and a player's joystick is in it.
LEMMA WhenQuiet ==
    ASSUME PlayInv, Quiet
    PROVE  /\ \A d \in Devices : Listed(d) <=> node[d] # Absent
           /\ \A d : ~Going(d)
           /\ \A id : ~AddedEvent(id)
           /\ \A i \in Players : Occupied(i) => Entry(slots[i].id, slots[i].pad)
<1>1. Len(notices) = 0 /\ Len(queue) = 0
  BY DEF Quiet
<1>2. \A d : ~Going(d)
  BY <1>1 DEF Going
<1>3. \A id : ~AddedEvent(id) /\ ~RemovedEvent(id)
  BY <1>1 DEF AddedEvent, RemovedEvent
<1>4. \A d \in Devices : Listed(d) <=> node[d] # Absent
  BY <1>1 DEF PlayInv, WordInv
<1> QED BY <1>2, <1>3, <1>4 DEF PlayInv, SlotInv

\* Once every notice is handled, players and virtual devices match what is plugged in (addPad,
\* removePad), for any pads and any number of players and changes: nobody plays with a pad that
\* has gone, only the first player has a virtual device without a pad, and every pad plays, or
\* was one too many, unless one was taken for ours or an event missed its pad.
THEOREM PadsHavePlayers == Spec => []PlayersAreThere
<1>1. PlayInv => PlayersAreThere
  <2> SUFFICES ASSUME PlayInv, Quiet
               PROVE  /\ \A i \in Players : Occupied(i) => node[slots[i].pad] # Absent
                      /\ virtual \ {1} \subseteq {i \in Players : Occupied(i)}
                      /\ ~lateLookalike /\ ~misdirected =>
                             \A p \in RealPads \ turnedAway :
                                node[p] # Absent => \E i \in Players : Occupied(i) /\ slots[i].pad = p
      BY DEF PlayersAreThere
  <2>1. TypeOK /\ ListInv /\ SlotInv /\ phase = "run" /\ (~lateLookalike /\ ~misdirected => HandledInv)
    BY DEF PlayInv, IInv, Quiet
  <2>2. ASSUME NEW i \in Players, Occupied(i) PROVE node[slots[i].pad] # Absent
    <3>1. slots[i].pad \in Devices /\ Entry(slots[i].id, slots[i].pad)
      BY <2>1, <2>2, SlotTypes, WhenQuiet
    <3>2. Listed(slots[i].pad)
      BY <3>1 DEF Entry, Listed
    <3> QED BY <3>1, <3>2, WhenQuiet
  <2>3. ASSUME HandledInv, NEW p \in RealPads \ turnedAway, node[p] # Absent
        PROVE  \E i \in Players : Occupied(i) /\ slots[i].pad = p
    <3>1. PICK k \in DOMAIN joysticks : joysticks[k].dev = p
      BY <2>3, WhenQuiet DEF Devices, Listed
    <3>2. IsHandled(joysticks[k].id, p)
      BY <2>1, <2>3, <3>1 DEF HandledInv
    <3>3. PICK i \in Players : PlaysAs(i, joysticks[k].id)
      BY <2>3, <3>2, WhenQuiet DEF IsHandled
    <3>4. Entry(slots[i].id, slots[i].pad) /\ slots[i].id = joysticks[k].id /\ Occupied(i)
      BY <3>3, WhenQuiet DEF PlaysAs
    <3>5. slots[i].pad = p
      BY <2>1, <3>1, <3>4 DEF Entry, ListInv
    <3> QED BY <3>4, <3>5
  <2> QED BY <2>1, <2>2, <2>3 DEF SlotInv
<1> QED BY <1>1, InductivePlay, PTL

\* Once every notice is handled, the nodes taken over for a player with a virtual pad are
\* held (takeOverForKernel, Siblings): a hidapi pad's own by some player, and by an evdev
\* pad's slot the one it took.  Not said of a pad whose node went free with another pad of
\* its make (letGo), nor of an evdev pad that no node was found or could be opened for
\* (NoNode): those the App hears beside the virtual one.
THEOREM RealPadsAreHeld == Spec => []RealPadsAreSilent
<1>1. PlayInv => RealPadsAreSilent
  <2> SUFFICES ASSUME PlayInv, Quiet, NEW i \in virtual, Occupied(i)
               PROVE  \/ slots[i].pad \in letGo
                      \/ slots[i].pad \in Hidapi /\ grab[node[slots[i].pad]] # Nobody
                      \/ slots[i].pad \notin Hidapi /\ (slots[i].held = NoNode \/ grab[slots[i].held] = i)
      BY DEF RealPadsAreSilent
  <2>1. TypeOK /\ SilentInv
    BY DEF PlayInv, IInv
  <2>2. i \in Players
    BY <2>1, TypeParts DEF PadTypes
  <2>3. IsSilent(i, slots[i].id, slots[i].pad, slots[i].held)
    BY <2>1 DEF SilentInv
  <2> QED BY <2>2, <2>3, WhenQuiet DEF IsSilent, IsHeld
<1> QED BY <1>1, InductivePlay, PTL
=============================================================================
