------------------------------ MODULE ExitHold ------------------------------
(***************************************************************************)
(* ExitHold of apps/abpad/src/core/hold.h: the one piece that decides, in  *)
(* the daemon, in the watcher beside RetroArch and in the shim, when a     *)
(* held hotkey ends a program.  The code keeps the instants since_ and     *)
(* terminatedAt_; a hold keeps their ages, which stop at the limit they    *)
(* are compared with.                                                      *)
(***************************************************************************)
EXTENDS Integers

CONSTANTS
    ExitHoldMs,   \* how long the combo is held before the program is asked
    ExitGraceMs   \* how long it then has before it is killed

ASSUME HoldAssumption ==
    /\ ExitHoldMs \in Nat \ {0}
    /\ ExitGraceMs \in Nat \ {0}

Actions == {"None", "Terminate", "Kill"}

Holds == [holding    : BOOLEAN,
          heldFor    : 0..ExitHoldMs,    \* now - since_, while holding
          terminated : BOOLEAN,
          askedFor   : 0..ExitGraceMs,   \* now - terminatedAt_, once terminated
          killed     : BOOLEAN]

NoHold == [holding |-> FALSE, heldFor |-> 0, terminated |-> FALSE, askedFor |-> 0, killed |-> FALSE]

UpTo(limit, t) == IF t < limit THEN t ELSE limit

\* The clock goes on by d.
Elapse(h, d) ==
    [h EXCEPT !.heldFor  = IF h.holding THEN UpTo(ExitHoldMs, @ + d) ELSE 0,
              !.askedFor = IF h.terminated THEN UpTo(ExitGraceMs, @ + d) ELSE 0]

\* What one call of update(held) returns.
ActionOf(h, held) ==
    IF h.terminated
    THEN IF ~h.killed /\ h.askedFor >= ExitGraceMs THEN "Kill" ELSE "None"
    ELSE IF held /\ h.holding /\ h.heldFor >= ExitHoldMs THEN "Terminate" ELSE "None"

\* A mutant: a release does not start the count over.
Update_KeepsSince(h, held) ==
    IF h.terminated
    THEN [h EXCEPT !.killed = @ \/ ActionOf(h, held) = "Kill"]
    ELSE [h EXCEPT !.holding    = h.holding \/ held,
                   !.terminated = ActionOf(h, held) = "Terminate"]

\* A mutant: every sample of the combo starts the count over.
Update_Restarts(h, held) ==
    IF h.terminated
    THEN [h EXCEPT !.killed = @ \/ ActionOf(h, held) = "Kill"]
    ELSE [h EXCEPT !.holding    = held,
                   !.heldFor    = 0,
                   !.terminated = ActionOf(h, held) = "Terminate"]

\* What it leaves behind.
Update(h, held) ==
    IF h.terminated
    THEN [h EXCEPT !.killed = @ \/ ActionOf(h, held) = "Kill"]
    ELSE [h EXCEPT !.holding    = held,
                   !.heldFor    = IF held /\ h.holding THEN @ ELSE 0,
                   !.terminated = ActionOf(h, held) = "Terminate"]
=============================================================================
