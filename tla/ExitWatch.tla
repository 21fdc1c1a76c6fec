----------------------------- MODULE ExitWatch ------------------------------
(***************************************************************************)
(* The ways out of a program: QuitWatch and ResetWatch of the daemon       *)
(* (apps/abpad/src/daemon/abpadd.cpp) and the shim inside an App           *)
(* (apps/abpad/src/shim/shim_state.cpp), over one clock.  The daemon       *)
(* samples the buttons at its own pace and signals the program's process;  *)
(* the shim sees what the daemon last published, whenever the App happens  *)
(* to call SDL, and queues an SDL_QUIT.                                    *)
(***************************************************************************)
EXTENDS ExitHold

CONSTANTS
    MaxElapsed,       \* the longest time from one cycle of the daemon to the next
    ResetTermCycles,  \* rate * 3 / 2 in the code
    ResetKillCycles   \* rate * 3

ASSUME WatchAssumption ==
    /\ MaxElapsed \in Nat \ {0}
    /\ ResetTermCycles \in 2..(ResetKillCycles - 1)
    /\ ResetKillCycles \in Nat

NotPressed == -1   \* ResetWatch::cycles_
NotTaken   == -1   \* no quit baseline in the shim yet

VARIABLES
    mode,       \* how abpadd was started: "pads", "watch" (--exit-only --pads), "reset" (--exit-only)
    daemon,     \* its loop runs
    target,     \* the watched process: "up" or "gone"
    held,       \* the exit combo is down on some pad
    pressed,    \* a Reset press waits in its input device
    quitHold,   \* QuitWatch::hold_
    cycles,     \* ResetWatch::cycles_, counted no further than it is compared
    block,      \* the published block: the combo, quitRequests
    shimHold,   \* ShimState::exitHold_
    seen,       \* ShimState::quitRequestsSeen_
    asked,      \* the shim has queued a Quit event
    sinceCycle, \* time since the daemon's last cycle
    termAge,    \* history: time since the first SIGTERM, once there was one
    killed,     \* history: SIGKILL was sent
    rest,       \* history: how long the combo has been up
    span        \* history: time since the end of the last release a cycle must have seen

vars == <<mode, daemon, target, held, pressed, quitHold, cycles, block, shimHold, seen, asked,
          sinceCycle, termAge, killed, rest, span>>

NoTerm == -1

\* A shorter release may fall between two samples of the daemon.
SeenRest == MaxElapsed + 1

\* The least time the program has between SIGTERM and SIGKILL.
MinGrace ==
    LET afterReset == ResetKillCycles - (IF mode = "pads" THEN ResetTermCycles ELSE 1)
    IN  UpTo(ExitGraceMs, afterReset)

TypeOK ==
    /\ mode \in {"pads", "watch", "reset"}
    /\ daemon \in BOOLEAN
    /\ target \in {"up", "gone"}
    /\ held \in BOOLEAN
    /\ pressed \in BOOLEAN
    /\ quitHold \in Holds
    /\ cycles \in NotPressed..(ResetKillCycles + 1)
    /\ block \in [held : BOOLEAN, quits : 0..1]
    /\ shimHold \in Holds
    /\ seen \in NotTaken..1
    /\ asked \in BOOLEAN
    /\ sinceCycle \in 0..MaxElapsed
    /\ termAge \in NoTerm..MinGrace
    /\ killed \in BOOLEAN
    /\ rest \in 0..SeenRest
    /\ span \in 0..ExitHoldMs

Init ==
    /\ mode \in {"pads", "watch", "reset"}
    /\ daemon = TRUE
    /\ target = "up"
    /\ held = FALSE
    /\ pressed = FALSE
    /\ quitHold = NoHold
    /\ cycles = NotPressed
    /\ block = [held |-> FALSE, quits |-> 0]
    /\ shimHold = NoHold
    /\ seen = NotTaken
    /\ asked = FALSE
    /\ sinceCycle = 0
    /\ termAge = NoTerm
    /\ killed = FALSE
    /\ rest = SeenRest
    /\ span = 0

daemonVars == <<mode, daemon, quitHold, cycles, block, sinceCycle, termAge, killed>>
shimVars == <<shimHold, seen, asked>>

-----------------------------------------------------------------------------
(* The person, the program and the clock.                                  *)

PressCombo ==
    /\ daemon
    /\ ~held
    /\ held' = TRUE
    /\ rest' = 0
    /\ span' = IF rest = SeenRest THEN 0 ELSE span
    /\ UNCHANGED <<daemonVars, shimVars, target, pressed>>

ReleaseCombo ==
    /\ held
    /\ held' = FALSE
    /\ UNCHANGED <<daemonVars, shimVars, target, pressed, rest, span>>

PressReset ==
    /\ daemon
    /\ ~pressed
    /\ pressed' = TRUE
    /\ UNCHANGED <<daemonVars, shimVars, target, held, rest, span>>

\* It ends by itself, at a SIGTERM, or for certain at a SIGKILL.
TargetGoes ==
    /\ target = "up"
    /\ target' = "gone"
    /\ UNCHANGED <<daemonVars, shimVars, held, pressed, rest, span>>

Tick ==
    /\ daemon
    /\ sinceCycle < MaxElapsed
    /\ sinceCycle' = sinceCycle + 1
    /\ quitHold' = Elapse(quitHold, 1)
    /\ shimHold' = Elapse(shimHold, 1)
    /\ termAge' = IF termAge = NoTerm THEN NoTerm ELSE UpTo(MinGrace, termAge + 1)
    /\ rest' = IF held THEN 0 ELSE UpTo(SeenRest, rest + 1)
    /\ span' = UpTo(ExitHoldMs, span + 1)
    /\ UNCHANGED <<mode, daemon, target, held, pressed, cycles, block, seen, asked, killed>>

-----------------------------------------------------------------------------
(* One cycle of the daemon.  SDL_Delay: at least one tick after the last.  *)

\* QuitWatch::check; --exit-only without --pads opens no pad.
HotkeyAction == IF mode = "reset" THEN "None" ELSE ActionOf(quitHold, held)

\* A mutant: the count stops at the SIGTERM.
Counted_ToTerm ==
    IF cycles = NotPressed THEN (IF pressed THEN 1 ELSE NotPressed)
    ELSE UpTo(ResetTermCycles, cycles + 1)

\* ResetWatch::check: what it counts to in this cycle.
Counted ==
    IF cycles = NotPressed THEN (IF pressed THEN 1 ELSE NotPressed)
    ELSE UpTo(ResetKillCycles + 1, cycles + 1)

ResetPress == cycles = NotPressed /\ pressed

\* A mutant: without a shim to ask, nothing is asked.
ResetTerm_OnlyPads == mode = "pads" /\ Counted = ResetTermCycles

\* With an App's shim to ask, SIGTERM waits for it; without, it goes at once.
ResetTerm == IF mode = "pads" THEN Counted = ResetTermCycles ELSE ResetPress

ResetKill == Counted = ResetKillCycles

Terminates == HotkeyAction = "Terminate" \/ ResetTerm
Kills      == HotkeyAction = "Kill" \/ ResetKill

\* A mutant: a request in every cycle after the press.
Publish_EveryCycle ==
    block' = IF mode = "pads"
             THEN [held |-> held, quits |-> IF Counted > 0 THEN block.quits + 1 ELSE block.quits]
             ELSE block

\* publishPads and requestQuit: only with a shared block.
Publish ==
    block' = IF mode = "pads"
             THEN [held |-> held, quits |-> IF ResetPress THEN 1 ELSE block.quits]
             ELSE block

Cycle ==
    /\ daemon
    /\ sinceCycle > 0
    /\ sinceCycle' = 0
    /\ Publish
    /\ quitHold' = IF mode = "reset" THEN quitHold ELSE Update(quitHold, held)
    /\ cycles' = Counted
    /\ pressed' = (pressed /\ ~ResetPress)
    /\ termAge' = IF Terminates /\ termAge = NoTerm THEN 0 ELSE termAge
    /\ killed' = (killed \/ Kills)
    /\ daemon' = (target = "up")   \* kill(pid, 0)
    /\ UNCHANGED <<mode, target, held, shimVars, rest, span>>

\* A signal, or its parent's death.
DaemonStops ==
    /\ daemon
    /\ daemon' = FALSE
    /\ UNCHANGED <<mode, quitHold, cycles, block, sinceCycle, termAge, killed,
                   shimVars, target, held, pressed, rest, span>>

-----------------------------------------------------------------------------
(* ShimState::update, whenever the App calls SDL.                          *)

HoldAsks  == ActionOf(shimHold, block.held) = "Terminate"
ResetAsks == seen # NotTaken /\ block.quits # seen

ShimUpdate ==
    /\ mode = "pads"
    /\ target = "up"
    /\ shimHold' = Update(shimHold, block.held)
    /\ seen' = block.quits
    /\ asked' = (asked \/ HoldAsks \/ ResetAsks)
    /\ UNCHANGED <<daemonVars, target, held, pressed, rest, span>>

-----------------------------------------------------------------------------
Next ==
    \/ PressCombo
    \/ ReleaseCombo
    \/ PressReset
    \/ TargetGoes
    \/ Tick
    \/ Cycle
    \/ DaemonStops
    \/ ShimUpdate

Spec == Init /\ [][Next]_vars

\* The clock runs, the daemon's loop runs, and a SIGKILL is not survived.
FairSpec ==
    /\ Spec
    /\ WF_vars(Tick)
    /\ WF_vars(Cycle)
    /\ WF_vars(killed /\ TargetGoes)

-----------------------------------------------------------------------------
(* The hotkey ends a program only after an unbroken hold: no release long  *)
(* enough for a cycle to fall into it since ExitHoldMs ago (QuitWatch).    *)
HoldWasUnbroken ==
    [][~quitHold.terminated /\ quitHold'.terminated => span >= ExitHoldMs]_vars

(* The same of the shim's request: "releasing before that starts the count *)
(* over" (hold.h, ShimState::update).  Not so when the App makes no SDL     *)
(* call for a while: no run checks this (see the README).                  *)
ShimHoldWasUnbroken ==
    [][~shimHold.terminated /\ shimHold'.terminated => span >= ExitHoldMs]_vars

(* A program always has its time between SIGTERM and SIGKILL, whichever of *)
(* the two watches sends which, in whatever order they began.              *)
KillAfterGrace == [][~killed /\ killed' => termAge = MinGrace]_vars

(* Holding on ends the program, if the daemon lives (QuitWatch).           *)
HoldingEnds ==
    mode # "reset" => ([]<>~held \/ <>(target = "gone" \/ ~daemon))

(* One press of Reset ends the program, however it answers (ResetWatch).   *)
ResetEnds == pressed /\ cycles = NotPressed ~> target = "gone" \/ ~daemon
=============================================================================
