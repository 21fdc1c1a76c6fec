----------------------------- MODULE KernelPads -----------------------------
(***************************************************************************)
(* The daemon's players in kernel pad mode (apps/abpad/src/daemon/         *)
(* abpadd.cpp: Slot, Kernel, addPad, removePad, takeOverForKernel).  A     *)
(* player's real pad is held with a grab on its event node, and the App    *)
(* gets a virtual device in its place.  The virtual devices come back to   *)
(* the daemon as joysticks, through the same SDL that announces the real   *)
(* ones; on the console both have the same vendor and product.             *)
(* The kernel and SDL are modelled as the code meets them: the kernel      *)
(* queues notices of devices that come and go, SDL turns all that wait     *)
(* into events before the daemon sees one, and an event of an added device *)
(* carries its index in SDL's list, where those it reads through hidapi    *)
(* come first.  Each physical pad has one event node.                      *)
(***************************************************************************)
EXTENDS Integers, SequencesExt

CONSTANTS
    RealPads,    \* physical pads
    Ids,         \* Ids[p]: the vendor and product of pad p
    VirtualIds,  \* those of the virtual pads
    Hidapi,      \* pads that SDL reads through hidapi, the others through evdev
    MaxPads,     \* players
    MaxChanges   \* times a pad is plugged in or unplugged after the daemon's start

ASSUME PadsAssumption ==
    /\ IsFiniteSet(RealPads)
    /\ RealPads \cap {<<"virtual", i>> : i \in 1..MaxPads} = {}
    /\ Hidapi \subseteq RealPads
    /\ MaxPads \in Nat \ {0}
    /\ MaxChanges \in Nat

Players == 1..MaxPads
Virtual(i) == <<"virtual", i>>
VirtualPads == {Virtual(i) : i \in Players}
Devices == RealPads \cup VirtualPads

Nodes == 1..(Cardinality(Devices) + 1)

Absent == 0     \* the event node of a device that is not there
NoNode == 0     \* no node is held
Nobody == 0     \* no player holds it
NoPad == [id |-> 0, pad |-> <<>>, held |-> NoNode]

IdsOf(d) == IF d \in RealPads THEN Ids[d] ELSE VirtualIds
Lookalikes == {p \in RealPads : Ids[p] = VirtualIds}

VARIABLES
    phase,         \* "settle", "scan" (the first look at the list), "run"
    scanAt,        \* the index the scan is at
    node,          \* node[d]: the number of d's event node
    grab,          \* grab[n]: the player whose Slot holds node n (GrabbedPad or Siblings)
    notices,       \* what SDL has not been told yet: devices added and removed
    pumping,       \* SDL is turning them into events
    joysticks,     \* SDL's list: instance ids and devices
    queue,         \* SDL's events
    nextId,        \* the next instance id
    slots,         \* Slot: what SDL opened, and Slot::heldPath
    virtual,       \* players that have a virtual device (Kernel::pads)
    seenBefore,    \* Kernel::seenBefore
    ownIds,        \* Kernel::ownIds
    pendingOwn,    \* Kernel::pendingOwn
    changes,       \* pads plugged in and unplugged since the start
    lateLookalike, \* history: a lookalike was plugged in since the start
    misdirected,   \* history: an index had moved when its event was handled
    turnedAway,    \* history: pads that came when every player had one
    letGo          \* history: pads whose node went free with another player's pad

historyVars == <<lateLookalike, misdirected, turnedAway, letGo>>
listVars == <<joysticks, queue, nextId, pumping>>
ownVars == <<seenBefore, ownIds, pendingOwn>>
vars == <<phase, scanAt, node, grab, notices, changes, listVars, slots, virtual, ownVars, historyVars>>

Occupied(i) == slots[i] # NoPad
HeldNodes == {slots[i].held : i \in Players} \ {NoNode}
OwnNodes == {node[Virtual(i)] : i \in virtual}
IsLowest(n, S) == n \in S /\ \A m \in S : n <= m
IsFreeNode(n) == IsLowest(n, {m \in Nodes : \A d \in Devices : node[d] # m})

Added(d) == [kind |-> "added", dev |-> d]
Removed(d) == [kind |-> "removed", dev |-> d]

TypeOK ==
    /\ phase \in {"settle", "scan", "run"}
    /\ scanAt \in Nat \ {0}
    /\ node \in [Devices -> Nodes \cup {Absent}]
    /\ grab \in [Nodes -> Players \cup {Nobody}]
    /\ notices \in Seq([kind : {"added", "removed"}, dev : Devices])
    /\ pumping \in BOOLEAN
    /\ nextId \in Nat \ {0}
    /\ joysticks \in Seq([id : 1..(nextId - 1), dev : Devices])
    /\ queue \in Seq([kind : {"added"}, index : Nat \ {0}, id : 1..(nextId - 1)]
                      \cup [kind : {"removed"}, id : 1..(nextId - 1)])
    /\ slots \in [Players -> [id : 1..(nextId - 1), pad : Devices, held : Nodes \cup {NoNode}] \cup {NoPad}]
    /\ virtual \subseteq Players
    /\ seenBefore \subseteq 1..(nextId - 1)
    /\ ownIds \subseteq 1..(nextId - 1)
    /\ seenBefore \cap ownIds = {}
    /\ pendingOwn \in Nat
    /\ changes \in 0..MaxChanges
    /\ lateLookalike \in BOOLEAN
    /\ misdirected \in BOOLEAN
    /\ turnedAway \subseteq Devices
    /\ letGo \subseteq Devices

\* The daemon has been started with n pads plugged in.  Kernel::ensure(0) has
\* taken them for real ones and has made the first player's virtual device.
StartsWith(n, order) ==
    /\ phase = "settle"
    /\ scanAt = 1
    /\ node = [d \in Devices |->
           IF \E k \in 1..n : order[k] = d THEN CHOOSE k \in 1..n : order[k] = d
           ELSE IF d = Virtual(1) THEN n + 1 ELSE Absent]
    /\ grab = [m \in Nodes |-> Nobody]
    /\ notices = <<Added(Virtual(1))>>
    /\ pumping = FALSE
    /\ joysticks = [k \in 1..n |-> [id |-> k, dev |-> order[k]]]
    /\ queue = <<>>
    /\ nextId = n + 1
    /\ slots = [i \in Players |-> NoPad]
    /\ virtual = {1}
    /\ seenBefore = 1..n
    /\ ownIds = {}
    /\ pendingOwn = 1
    /\ changes = 0
    /\ lateLookalike = FALSE
    /\ misdirected = FALSE
    /\ turnedAway = {}
    /\ letGo = {}

\* In any order, those first that SDL reads through hidapi.
Init ==
    \E n \in 0..Cardinality(RealPads) : \E order \in [1..n -> RealPads] :
        /\ \A k, l \in 1..n : k # l => order[k] # order[l]
        /\ \A k, l \in 1..n : k < l /\ order[l] \in Hidapi => order[k] \in Hidapi
        /\ StartsWith(n, order)

-----------------------------------------------------------------------------
(* The user, the kernel and SDL.                                           *)

Plug(p) ==
    /\ node[p] = Absent
    /\ changes < MaxChanges
    /\ \E n \in Nodes : IsFreeNode(n) /\ node' = [node EXCEPT ![p] = n]
    /\ notices' = Append(notices, Added(p))
    /\ changes' = changes + 1
    /\ lateLookalike' = (lateLookalike \/ p \in Lookalikes)
    /\ UNCHANGED <<phase, scanAt, grab, listVars, slots, virtual, ownVars, misdirected, turnedAway, letGo>>

\* A grab is the node's: it goes with it.
Unplug(p) ==
    /\ node[p] # Absent
    /\ changes < MaxChanges
    /\ changes' = changes + 1
    /\ node' = [node EXCEPT ![p] = Absent]
    /\ grab' = [grab EXCEPT ![node[p]] = Nobody]
    /\ notices' = Append(notices, Removed(p))
    /\ turnedAway' = turnedAway \ {p}
    /\ letGo' = (letGo \ {p}) \cup {slots[i].pad : i \in {k \in Players : slots[k].held = node[p] /\ slots[k].pad # p}}
    /\ UNCHANGED <<phase, scanAt, listVars, slots, virtual, ownVars, lateLookalike, misdirected>>

Listed(d) == \E k \in DOMAIN joysticks : joysticks[k].dev = d

\* Where SDL's list takes a device: behind the last that the same driver reads.
PlaceFor(d) ==
    IF d \in Hidapi THEN Cardinality({k \in DOMAIN joysticks : joysticks[k].dev \in Hidapi}) + 1
    ELSE Len(joysticks) + 1

\* settle throws the events away.
Sends(event) == queue' = IF phase = "settle" THEN queue ELSE Append(queue, event)

Lists(d) ==
    /\ ~Listed(d)
    /\ node[d] # Absent
    /\ joysticks' = InsertAt(joysticks, PlaceFor(d), [id |-> nextId, dev |-> d])
    /\ Sends([kind |-> "added", index |-> PlaceFor(d), id |-> nextId])
    /\ nextId' = nextId + 1

Unlists(d) ==
    \E k \in DOMAIN joysticks :
        /\ joysticks[k].dev = d
        /\ joysticks' = RemoveAt(joysticks, k)
        /\ Sends([kind |-> "removed", id |-> joysticks[k].id])
        /\ UNCHANGED nextId

\* SDL_PollEvent finds no event and pumps: SDL is told of one device after the other.
Pump ==
    /\ phase # "scan"
    /\ notices # <<>>
    /\ pumping \/ queue = <<>>
    /\ LET n == Head(notices)
       IN  \/ n.kind = "added" /\ Lists(n.dev)
           \/ n.kind = "removed" /\ Unlists(n.dev)
           \/ /\ n.kind = "added" => Listed(n.dev) \/ node[n.dev] = Absent
              /\ n.kind = "removed" => ~Listed(n.dev)
              /\ UNCHANGED <<joysticks, queue, nextId>>
    /\ notices' = Tail(notices)
    /\ pumping' = (Tail(notices) # <<>>)
    /\ UNCHANGED <<phase, scanAt, node, grab, changes, slots, virtual, ownVars, historyVars>>

-----------------------------------------------------------------------------
(* addPad                                                                  *)

\* Kernel::isOwn: this joystick is known to be one of our own...
KnownOwn(j) == j.id \in ownIds

\* A mutant: any joystick of that kind is ours while one is unaccounted for.
TakenForOwn_Unseen(j) ==
    /\ ~KnownOwn(j)
    /\ pendingOwn > 0
    /\ IdsOf(j.dev) = VirtualIds

\* ...or taken for one that has not turned up yet.
TakenForOwn(j) ==
    /\ ~KnownOwn(j)
    /\ pendingOwn > 0
    /\ j.id \notin seenBefore
    /\ IdsOf(j.dev) = VirtualIds

ClaimOwn(j) ==
    /\ TakenForOwn(j)
    /\ ownIds' = ownIds \cup {j.id}
    /\ pendingOwn' = pendingOwn - 1
    /\ UNCHANGED <<seenBefore, slots, virtual, node, grab, notices, turnedAway>>

\* Unmapped, gone again, ours already, or one too many.
NoSlotFor(j) ==
    \/ node[j.dev] = Absent
    \/ \E i \in Players : Occupied(i) /\ slots[i].id = j.id
    \/ \A i \in Players : Occupied(i)

Ignore(j) ==
    /\ ~KnownOwn(j)
    /\ ~TakenForOwn(j)
    /\ NoSlotFor(j)
    /\ seenBefore' = seenBefore \cup {j.id}
    /\ turnedAway' = IF node[j.dev] # Absent /\ \A i \in Players : Occupied(i)
                     THEN turnedAway \cup {j.dev} ELSE turnedAway
    /\ UNCHANGED <<ownIds, pendingOwn, slots, virtual, node, grab, notices>>

Alike(d) == {node[e] : e \in {e \in Devices : IdsOf(e) = IdsOf(d)}} \ {Absent}

\* A mutant: a node that another slot holds is not left out.
NodesFor_Shared(d, own) == Alike(d) \ own

\* findEventNode's candidates: the nodes of such a device that are neither ours nor a slot's.
NodesFor(d, own) == Alike(d) \ (own \cup HeldNodes)

\* An evdev pad: the lowest such node is held, if it can be opened and nobody holds it.
HoldsNode(i, j, own) ==
    \/ \E n \in Nodes :
          /\ IsLowest(n, NodesFor(j.dev, own))
          /\ grab[n] = Nobody
          /\ grab' = [grab EXCEPT ![n] = i]
          /\ slots' = [slots EXCEPT ![i] = [id |-> j.id, pad |-> j.dev, held |-> n]]
    \/ /\ UNCHANGED grab
       /\ slots' = [slots EXCEPT ![i] = [id |-> j.id, pad |-> j.dev, held |-> NoNode]]

\* A mutant: a pad's other nodes are left alone.
HoldsSiblings_None(i, j, own) ==
    /\ UNCHANGED grab
    /\ slots' = [slots EXCEPT ![i] = [id |-> j.id, pad |-> j.dev, held |-> NoNode]]

\* A hidapi pad: every node of its kind that nobody holds.
HoldsSiblings(i, j, own) ==
    /\ grab' = [n \in Nodes |-> IF n \in Alike(j.dev) \ own /\ grab[n] = Nobody THEN i ELSE grab[n]]
    /\ slots' = [slots EXCEPT ![i] = [id |-> j.id, pad |-> j.dev, held |-> NoNode]]

Holds(i, j, own) ==
    \/ j.dev \in Hidapi /\ HoldsSiblings(i, j, own)
    \/ j.dev \notin Hidapi /\ HoldsNode(i, j, own)

\* The lowest free slot; takeOverForKernel, which makes the player's virtual
\* device, if uinput gives one, and holds the real pad's nodes.
TakeSlot(j) ==
    /\ ~KnownOwn(j)
    /\ ~TakenForOwn(j)
    /\ ~NoSlotFor(j)
    /\ seenBefore' = seenBefore \cup {j.id}
    /\ \E i \in Players :
        /\ IsLowest(i, {k \in Players : ~Occupied(k)})
        /\ \/ /\ i \in virtual
              /\ Holds(i, j, OwnNodes)
              /\ UNCHANGED <<virtual, pendingOwn, node, notices>>
           \/ /\ i \notin virtual
              /\ virtual' = virtual \cup {i}
              /\ \E n \in Nodes :
                    /\ IsFreeNode(n)
                    /\ node' = [node EXCEPT ![Virtual(i)] = n]
                    /\ Holds(i, j, OwnNodes \cup {n})
              /\ notices' = Append(notices, Added(Virtual(i)))
              /\ pendingOwn' = pendingOwn + 1
           \/ /\ i \notin virtual
              /\ slots' = [slots EXCEPT ![i] = [id |-> j.id, pad |-> j.dev, held |-> NoNode]]
              /\ UNCHANGED <<virtual, pendingOwn, node, grab, notices>>
    /\ UNCHANGED <<ownIds, turnedAway>>

\* addPad of the joystick now at this index of SDL's list, if there is one.
addPad(index) ==
    \/ /\ index \in DOMAIN joysticks
       /\ \/ ClaimOwn(joysticks[index])
          \/ Ignore(joysticks[index])
          \/ TakeSlot(joysticks[index])
    \/ /\ index \in DOMAIN joysticks => KnownOwn(joysticks[index])
       /\ UNCHANGED <<ownVars, slots, virtual, node, grab, notices, turnedAway>>

-----------------------------------------------------------------------------
(* The main program.                                                       *)

\* Three seconds of settle are enough for SDL to list the first virtual device.
StartScan ==
    /\ phase = "settle"
    /\ ~pumping
    /\ Listed(Virtual(1))
    /\ phase' = "scan"
    /\ UNCHANGED <<scanAt, node, grab, notices, changes, listVars, slots, virtual, ownVars, historyVars>>

Scan ==
    /\ phase = "scan"
    /\ scanAt \in DOMAIN joysticks
    /\ addPad(scanAt)
    /\ scanAt' = scanAt + 1
    /\ UNCHANGED <<phase, changes, listVars, lateLookalike, misdirected, letGo>>

EndScan ==
    /\ phase = "scan"
    /\ scanAt \notin DOMAIN joysticks
    /\ phase' = "run"
    /\ scanAt' = 1
    /\ UNCHANGED <<node, grab, notices, changes, listVars, slots, virtual, ownVars, historyVars>>

\* SDL_JOYDEVICEADDED
HandleAdded ==
    /\ ~pumping
    /\ queue # <<>>
    /\ Head(queue).kind = "added"
    /\ addPad(Head(queue).index)
    /\ queue' = Tail(queue)
    /\ misdirected' = (misdirected
           \/ Head(queue).index \notin DOMAIN joysticks
           \/ joysticks[Head(queue).index].id # Head(queue).id)
    /\ UNCHANGED <<phase, scanAt, changes, joysticks, nextId, pumping, lateLookalike, letGo>>

\* A mutant: a second player's virtual device outlives its pad.
Leaves_KeepsVirtual(i) ==
    /\ slots' = [slots EXCEPT ![i] = NoPad]
    /\ grab' = [n \in Nodes |-> IF grab[n] = i THEN Nobody ELSE grab[n]]
    /\ letGo' = letGo \cup {d \in Devices : node[d] # Absent /\ grab[node[d]] = i}
    /\ UNCHANGED <<virtual, node, notices>>

\* removePad: the grabs go; player one keeps the virtual device.
Leaves(i) ==
    /\ slots' = [slots EXCEPT ![i] = NoPad]
    /\ grab' = [n \in Nodes |-> IF grab[n] = i THEN Nobody ELSE grab[n]]
    /\ letGo' = letGo \cup {d \in Devices : node[d] # Absent /\ grab[node[d]] = i}
    /\ \/ /\ i # 1 /\ i \in virtual
          /\ virtual' = virtual \ {i}
          /\ node' = [node EXCEPT ![Virtual(i)] = Absent]
          /\ notices' = Append(notices, Removed(Virtual(i)))
       \/ /\ i = 1 \/ i \notin virtual
          /\ UNCHANGED <<virtual, node, notices>>

\* SDL_JOYDEVICEREMOVED
HandleRemoved ==
    /\ ~pumping
    /\ queue # <<>>
    /\ Head(queue).kind = "removed"
    /\ \/ \E i \in Players :
             /\ IsLowest(i, {k \in Players : Occupied(k) /\ slots[k].id = Head(queue).id})
             /\ Leaves(i)
       \/ /\ \A i \in Players : Occupied(i) => slots[i].id # Head(queue).id
          /\ UNCHANGED <<slots, grab, letGo, virtual, node, notices>>
    /\ queue' = Tail(queue)
    /\ UNCHANGED <<phase, scanAt, changes, joysticks, nextId, pumping, ownVars,
                   lateLookalike, misdirected, turnedAway>>

\* GrabbedPad::poll, which drops the grab of a device that is gone, is no action: the grab
\* has gone with the node, and the path stays with the slot until removePad.

Next ==
    \/ \E p \in RealPads : Plug(p) \/ Unplug(p)
    \/ Pump
    \/ StartScan
    \/ Scan
    \/ EndScan
    \/ HandleAdded
    \/ HandleRemoved

Spec == Init /\ [][Next]_vars

-----------------------------------------------------------------------------
Quiet == phase = "run" /\ notices = <<>> /\ queue = <<>>

(* "Our own virtual pads are joysticks to SDL too: never one of the        *)
(* players" (addPad): the App's pad would feed itself.                     *)
OwnNeverAPlayer == \A i \in Players : Occupied(i) => slots[i].pad \notin VirtualPads

(* It holds as long as no pad like ours comes after the first look: what   *)
(* was there before is told from what we made (Kernel::isOwn, ensure).     *)
OwnToldApart == ~lateLookalike => OwnNeverAPlayer

(* No event node is given to two players (findEventNode's exclude).        *)
NoSharedNode ==
    \A i, k \in Players : i # k /\ slots[i].held = slots[k].held => slots[i].held = NoNode

(* Once every notice is handled, players and virtual devices match what is *)
(* plugged in: nobody plays with a pad that has gone, a second player's    *)
(* virtual device went with its pad, and every pad that is there plays, or *)
(* found no room when it came, unless one was taken for ours or an event   *)
(* was for another by the time it was handled (addPad, removePad).         *)
PlayersAreThere ==
    Quiet =>
        /\ \A i \in Players : Occupied(i) => node[slots[i].pad] # Absent
        /\ virtual \ {1} \subseteq {i \in Players : Occupied(i)}
        /\ ~lateLookalike /\ ~misdirected =>
               \A p \in RealPads \ turnedAway :
                   node[p] # Absent => \E i \in Players : Occupied(i) /\ slots[i].pad = p

(* The App has a virtual pad in place of a real one, so it must not hear   *)
(* the real one too (takeOverForKernel, Siblings).  Once every notice is   *)
(* handled, the node of a hidapi pad with a player is held by a player, and*)
(* the node that an evdev pad's slot took is held by that slot, be it the  *)
(* pad's own or a like pad's: findEventNode cannot tell them apart.        *)
(* Two sorts of pads ARE heard twice, and exempt: one whose node went free *)
(* with another pad of its make (letGo), and an evdev pad for which no node*)
(* was found or could be opened (NoNode): takeOverForKernel only says "the *)
(* App will see this pad as well as the virtual one".                      *)
RealPadsAreSilent ==
    Quiet =>
        \A i \in virtual : Occupied(i) =>
            \/ slots[i].pad \in letGo
            \/ slots[i].pad \in Hidapi /\ grab[node[slots[i].pad]] # Nobody
            \/ slots[i].pad \notin Hidapi /\ (slots[i].held = NoNode \/ grab[slots[i].held] = i)
=============================================================================
