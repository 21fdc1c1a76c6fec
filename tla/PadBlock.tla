------------------------------ MODULE PadBlock ------------------------------
(***************************************************************************)
(* The contents of the shared memory block in which the virtual gamepad    *)
(* daemon (abpadd) hands every pad's state to the shims inside the Apps:   *)
(* apps/abpad/src/core/shared_state.h.  The words a Snapshot carries are   *)
(* kept as one function from words to values; a pad's connected flag,      *)
(* buttons and axes are one word.  The name, the GUID and the daemon's pid *)
(* reach no Snapshot and are left out.                                     *)
(***************************************************************************)
EXTENDS Integers

CONSTANTS
    MaxPads,    \* slots in the block
    PadInputs,  \* what a connected pad can report, as a number
    CountMod    \* 2^32 in the code: heartbeat and quitRequests wrap there

ASSUME BlockAssumption ==
    /\ MaxPads \in Nat \ {0}
    /\ CountMod \in Nat \ {0}
    /\ PadInputs \subseteq Nat \ {0}

\* The words of a slot with no pad: not connected, all zeros.
NoPad == 0

Slots == 1..MaxPads

PadCount     == <<"padCount", 0>>
Heartbeat    == <<"heartbeat", 0>>
QuitRequests == <<"quitRequests", 0>>
Pad(i)       == <<"pad", i>>

HeaderWords == {PadCount, Heartbeat, QuitRequests}
PadWords    == {Pad(i) : i \in Slots}
Words       == HeaderWords \cup PadWords

PadValues == PadInputs \cup {NoPad}

\* What the pads of the daemon's slots report this cycle.
PadVectors == [Slots -> PadValues]

\* The block after ftruncate and initSharedState, and a default Snapshot.
Blank == [w \in Words |-> IF w \in PadWords THEN NoPad ELSE 0]

\* publishPads is given the highest occupied slot as its padCount.
IsHighest(n, pads) ==
    /\ n > 0 => pads[n] # NoPad
    /\ \A i \in Slots : i > n => pads[i] = NoPad

\* uint32 arithmetic
Count(c) == IF c + 1 = CountMod THEN 0 ELSE c + 1

\* What publishPads makes of contents m: every pad, and the heartbeat.
PadsPublished(m, n, pads) ==
    [w \in Words |->
        IF w = PadCount          THEN n
        ELSE IF w = Heartbeat    THEN Count(m[w])
        ELSE IF w = QuitRequests THEN m[w]
        ELSE pads[w[2]]]

\* What requestQuit makes of contents m.
QuitRequested(m) == [m EXCEPT ![QuitRequests] = Count(@)]

Contents ==
    {m \in [Words -> Nat] :
        /\ m[PadCount] \in 0..MaxPads
        /\ m[Heartbeat] \in 0..(CountMod - 1)
        /\ m[QuitRequests] \in 0..(CountMod - 1)
        /\ \A i \in Slots : m[Pad(i)] \in PadValues}
=============================================================================
