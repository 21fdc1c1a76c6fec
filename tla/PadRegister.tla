---------------------------- MODULE PadRegister -----------------------------
(***************************************************************************)
(* What the shared block promises: one register.  A publication replaces   *)
(* the whole contents in one step, and a snapshot is exactly the contents  *)
(* at the instant it is taken ("all pads at one instant",                  *)
(* shared_state.h).  SharedState.tla implements it with a seqlock.         *)
(***************************************************************************)
EXTENDS PadBlock

CONSTANT Readers   \* the processes that have mapped the block

VARIABLES
    published,  \* the contents
    taken       \* taken[r]: the last snapshot r got

vars == <<published, taken>>

Init ==
    /\ published = Blank
    /\ taken = [r \in Readers |-> Blank]

PublishPads ==
    \E n \in 0..MaxPads, pads \in PadVectors :
        /\ IsHighest(n, pads)
        /\ published' = PadsPublished(published, n, pads)
        /\ UNCHANGED taken

RequestQuit ==
    /\ published' = QuitRequested(published)
    /\ UNCHANGED taken

Take(r) ==
    /\ taken' = [taken EXCEPT ![r] = published]
    /\ UNCHANGED published

Next == PublishPads \/ RequestQuit \/ \E r \in Readers : Take(r)

Spec == Init /\ [][Next]_vars
=============================================================================
