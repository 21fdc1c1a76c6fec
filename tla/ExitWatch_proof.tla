-------------------------- MODULE ExitWatch_proof ---------------------------
(***************************************************************************)
(* Theorems about ExitWatch, for every length of the hold, of the grace    *)
(* and of the Reset counts: its types, that no watch kills a program       *)
(* before its grace is over, whichever of them asked it to end, and that   *)
(* no short presses end one.                                               *)
(***************************************************************************)
EXTENDS ExitWatch, TLAPS

\* The count at which ResetWatch sends SIGTERM.
TermAt == IF mode = "pads" THEN ResetTermCycles ELSE 1

(* One step more of a count, and the time it is compared with.             *)
LEMMA UpToGrows ==
    ASSUME NEW n \in Nat, NEW s \in Int, NEW t \in Int, NEW at \in Int, NEW age \in Int,
           s <= t + 1, UpTo(n, t - at + 1) <= age
    PROVE  UpTo(n, s - at) <= age
BY DEF UpTo

(* The hold of one update and of time that goes by (ExitHold::update).     *)
LEMMA HoldType ==
    ASSUME NEW h \in Holds, NEW held_ \in BOOLEAN, NEW d \in Nat
    PROVE  /\ Update(h, held_) \in Holds
           /\ Elapse(h, d) \in Holds
<1>1. Elapse(h, d) \in Holds
  <2>1. /\ (IF h.holding THEN UpTo(ExitHoldMs, h.heldFor + d) ELSE 0) \in 0..ExitHoldMs
        /\ (IF h.terminated THEN UpTo(ExitGraceMs, h.askedFor + d) ELSE 0) \in 0..ExitGraceMs
    BY HoldAssumption DEF UpTo, Holds
  <2> QED  BY <2>1 DEF Elapse, Holds
<1>2. Update(h, held_) \in Holds
  <2>1. (IF held_ /\ h.holding THEN h.heldFor ELSE 0) \in 0..ExitHoldMs
    BY HoldAssumption DEF Holds
  <2>2. CASE h.terminated
    BY <2>2 DEF Update, Holds
  <2>3. CASE ~h.terminated
    BY <2>1, <2>3 DEF Update, Holds
  <2> QED  BY <2>2, <2>3
<1> QED  BY <1>1, <1>2

LEMMA ConstantsType ==
    ASSUME mode \in {"pads", "watch", "reset"}
    PROVE  /\ TermAt \in 1..(ResetKillCycles - 1)
           /\ MinGrace \in Nat \ {0}
           /\ MinGrace <= ExitGraceMs
           /\ MinGrace <= ResetKillCycles - TermAt
BY HoldAssumption, WatchAssumption DEF TermAt, MinGrace, UpTo

LEMMA CountedType ==
    ASSUME TypeOK
    PROVE  /\ Counted \in NotPressed..(ResetKillCycles + 1)
           /\ Counted <= cycles + 1 \/ ResetPress
           /\ ResetPress => Counted = 1
BY HoldAssumption, WatchAssumption DEF TypeOK, Counted, ResetPress, NotPressed, UpTo

(* Every variable keeps its type, whatever the constants (ExitWatch).      *)
THEOREM TypeCorrect == Spec => []TypeOK
<1>1. Init => TypeOK
  <2> SUFFICES ASSUME Init
               PROVE  TypeOK
    OBVIOUS
  <2>1. NoHold \in Holds
    BY HoldAssumption DEF Holds, NoHold
  <2>2. MinGrace \in Nat
    BY ConstantsType DEF Init
  <2>3. SeenRest \in 0..SeenRest /\ 0 \in 0..MaxElapsed /\ 0 \in 0..ExitHoldMs
    BY HoldAssumption, WatchAssumption DEF SeenRest
  <2>4. NotPressed \in NotPressed..(ResetKillCycles + 1) /\ NotTaken \in NotTaken..1
    BY WatchAssumption DEF NotPressed, NotTaken
  <2>5. NoTerm \in NoTerm..MinGrace
    BY <2>2 DEF NoTerm
  <2>6. block \in [held : BOOLEAN, quits : 0..1]
    BY DEF Init
  <2>7. /\ quitHold \in Holds /\ shimHold \in Holds
        /\ cycles \in NotPressed..(ResetKillCycles + 1) /\ seen \in NotTaken..1
        /\ sinceCycle \in 0..MaxElapsed /\ rest \in 0..SeenRest /\ span \in 0..ExitHoldMs
        /\ termAge \in NoTerm..MinGrace
    BY <2>1, <2>3, <2>4, <2>5 DEF Init
  <2> QED
    BY <2>6, <2>7 DEF Init, TypeOK
<1>2. ASSUME TypeOK, [Next]_vars
      PROVE  TypeOK'
  <2> USE HoldAssumption, WatchAssumption
  <2>0. MinGrace \in Nat
    BY <1>2, ConstantsType DEF TypeOK
  <2>1. CASE PressCombo
    BY <1>2, <2>1 DEF TypeOK, PressCombo, daemonVars, shimVars, MinGrace, SeenRest
  <2>2. CASE ReleaseCombo
    BY <1>2, <2>2 DEF TypeOK, ReleaseCombo, daemonVars, shimVars, MinGrace
  <2>3. CASE PressReset
    BY <1>2, <2>3 DEF TypeOK, PressReset, daemonVars, shimVars, MinGrace
  <2>4. CASE TargetGoes
    BY <1>2, <2>4 DEF TypeOK, TargetGoes, daemonVars, shimVars, MinGrace
  <2>5. CASE Tick
    <3>1. quitHold' \in Holds /\ shimHold' \in Holds
      BY <1>2, <2>5, HoldType DEF TypeOK, Tick
    <3>2. MinGrace' = MinGrace
      BY <2>5 DEF Tick, MinGrace
    <3>3. termAge' \in NoTerm..MinGrace
      BY <1>2, <2>5, <2>0 DEF TypeOK, Tick, NoTerm, UpTo
    <3>4. rest' \in 0..SeenRest /\ span' \in 0..ExitHoldMs /\ sinceCycle' \in 0..MaxElapsed
      BY <1>2, <2>5 DEF TypeOK, Tick, SeenRest, UpTo
    <3> QED
      BY <1>2, <2>5, <3>1, <3>2, <3>3, <3>4 DEF TypeOK, Tick
  <2>6. CASE Cycle
    <3>1. quitHold' \in Holds
      BY <1>2, <2>6, HoldType DEF TypeOK, Cycle
    <3>2. cycles' \in NotPressed..(ResetKillCycles + 1)
      BY <1>2, <2>6, CountedType DEF Cycle
    <3>3. block' \in [held : BOOLEAN, quits : 0..1]
      BY <1>2, <2>6 DEF TypeOK, Cycle, Publish
    <3>4. termAge' \in NoTerm..MinGrace /\ MinGrace' = MinGrace
      BY <1>2, <2>6, <2>0 DEF TypeOK, Cycle, NoTerm, MinGrace
    <3>5. pressed' \in BOOLEAN /\ killed' \in BOOLEAN /\ daemon' \in BOOLEAN
      BY <1>2, <2>6 DEF TypeOK, Cycle
    <3> QED
      BY <1>2, <2>6, <3>1, <3>2, <3>3, <3>4, <3>5 DEF TypeOK, Cycle, shimVars
  <2>7. CASE DaemonStops
    BY <1>2, <2>7 DEF TypeOK, DaemonStops, shimVars, MinGrace
  <2>8. CASE ShimUpdate
    <3>1. shimHold' \in Holds /\ seen' \in NotTaken..1
      BY <1>2, <2>8, HoldType DEF TypeOK, ShimUpdate, NotTaken
    <3>2. asked' \in BOOLEAN
      BY <1>2, <2>8 DEF TypeOK, ShimUpdate
    <3> QED
      BY <1>2, <2>8, <3>1, <3>2 DEF TypeOK, ShimUpdate, daemonVars, MinGrace
  <2>9. CASE UNCHANGED vars
    BY <1>2, <2>9 DEF TypeOK, vars, MinGrace
  <2> QED
    BY <1>2, <2>1, <2>2, <2>3, <2>4, <2>5, <2>6, <2>7, <2>8, <2>9 DEF Next
<1> QED  BY <1>1, <1>2, PTL DEF Spec

-----------------------------------------------------------------------------
(* What the time since the first SIGTERM is at least: the hotkey's own     *)
(* time since it asked, and one tick for each cycle since Reset asked.     *)
CyclesSinceTerm == cycles - TermAt + (IF sinceCycle > 0 THEN 1 ELSE 0)

GraceInv ==
    /\ ~quitHold.terminated => quitHold.askedFor = 0
    /\ quitHold.terminated => UpTo(MinGrace, quitHold.askedFor) <= termAge
    /\ cycles # 0
    /\ cycles >= TermAt => UpTo(MinGrace, CyclesSinceTerm) <= termAge

LEMMA TickGrace ==
    ASSUME TypeOK, GraceInv, Tick
    PROVE  GraceInv'
<1> USE HoldAssumption, WatchAssumption
<1>1. /\ TermAt \in 1..(ResetKillCycles - 1)
      /\ MinGrace \in Nat \ {0}
  BY ConstantsType DEF TypeOK
<1>2. UNCHANGED <<TermAt, MinGrace, cycles>>
  BY DEF Tick, TermAt, MinGrace
<1>3. termAge' = IF termAge = NoTerm THEN NoTerm ELSE UpTo(MinGrace, termAge + 1)
  BY DEF Tick
<1>4. /\ quitHold'.terminated = quitHold.terminated
      /\ ~quitHold.terminated => quitHold'.askedFor = 0
      /\ quitHold.terminated => quitHold'.askedFor = UpTo(ExitGraceMs, quitHold.askedFor + 1)
  BY DEF Tick, Elapse, TypeOK, Holds
<1>5. termAge \in NoTerm..MinGrace /\ quitHold.askedFor \in 0..ExitGraceMs /\ MinGrace <= ExitGraceMs
  BY ConstantsType DEF TypeOK, Holds
<1>6. quitHold'.terminated => UpTo(MinGrace, quitHold'.askedFor) <= termAge'
  <2> SUFFICES ASSUME quitHold.terminated
               PROVE  UpTo(MinGrace, quitHold'.askedFor) <= termAge'
    BY <1>4
  <2>1. UpTo(MinGrace, quitHold.askedFor) <= termAge
    BY DEF GraceInv
  <2> QED
    BY <2>1, <1>1, <1>3, <1>4, <1>5 DEF UpTo, NoTerm
<1>7. cycles >= TermAt => UpTo(MinGrace, CyclesSinceTerm') <= termAge'
  <2> SUFFICES ASSUME cycles >= TermAt
               PROVE  UpTo(MinGrace, CyclesSinceTerm') <= termAge'
    OBVIOUS
  <2>1. UpTo(MinGrace, CyclesSinceTerm) <= termAge
    BY DEF GraceInv
  <2>2. CyclesSinceTerm \in Nat /\ CyclesSinceTerm' <= CyclesSinceTerm + 1 /\ CyclesSinceTerm' \in Nat
    BY <1>1, <1>2 DEF CyclesSinceTerm, Tick, TypeOK, NotPressed
  <2> QED
    BY <2>1, <2>2, <1>1, <1>3, <1>5 DEF UpTo, NoTerm
<1>8. /\ (UpTo(MinGrace, CyclesSinceTerm))' = UpTo(MinGrace, CyclesSinceTerm')
      /\ (UpTo(MinGrace, quitHold.askedFor))' = UpTo(MinGrace, quitHold'.askedFor)
  BY <1>2 DEF UpTo
<1> QED
  BY <1>2, <1>4, <1>6, <1>7, <1>8 DEF GraceInv

LEMMA CycleGrace ==
    ASSUME TypeOK, GraceInv, Cycle
    PROVE  GraceInv'
<1> USE HoldAssumption, WatchAssumption
<1>1. /\ TermAt \in 1..(ResetKillCycles - 1)
      /\ MinGrace \in Nat \ {0}
      /\ MinGrace <= ResetKillCycles - TermAt
  BY ConstantsType DEF TypeOK
<1>2. UNCHANGED <<TermAt, MinGrace>>
  BY DEF Cycle, TermAt, MinGrace
<1>3. termAge \in NoTerm..MinGrace /\ termAge' \in {0, termAge}
  BY DEF Cycle, TypeOK
<1>4. /\ Terminates => termAge' >= 0
      /\ termAge # NoTerm => termAge' = termAge
  BY <1>3 DEF Cycle, NoTerm
<1>5. ~quitHold'.terminated => quitHold'.askedFor = 0
  BY DEF Cycle, Update, GraceInv, TypeOK, Holds
<1>6. quitHold'.terminated => UpTo(MinGrace, quitHold'.askedFor) <= termAge'
  <2>1. CASE quitHold.terminated
    <3>1. quitHold'.askedFor = quitHold.askedFor /\ quitHold.askedFor \in Nat
      BY <2>1 DEF Cycle, Update, TypeOK, Holds
    <3>2. UpTo(MinGrace, quitHold.askedFor) <= termAge
      BY <2>1 DEF GraceInv
    <3> QED
      BY <1>1, <1>3, <1>4, <3>1, <3>2 DEF UpTo, NoTerm
  <2>2. CASE ~quitHold.terminated
    <3>1. quitHold.askedFor = 0 /\ quitHold'.askedFor = quitHold.askedFor
      BY <2>2 DEF GraceInv, Cycle, Update, TypeOK, Holds
    <3>2. quitHold'.terminated => HotkeyAction = "Terminate"
      BY <2>2 DEF Cycle, Update, HotkeyAction, TypeOK, Holds
    <3> QED
      BY <1>1, <1>3, <1>4, <3>1, <3>2 DEF UpTo, Terminates
  <2> QED  BY <2>1, <2>2
<1>7. cycles' # 0 /\ cycles' \in Int
  BY DEF Cycle, Counted, GraceInv, TypeOK, NotPressed, UpTo
<1>8. cycles' >= TermAt => UpTo(MinGrace, cycles' - TermAt) <= termAge'
  <2> SUFFICES ASSUME cycles' >= TermAt
               PROVE  UpTo(MinGrace, cycles' - TermAt) <= termAge'
    OBVIOUS
  <2>1. CASE cycles' = TermAt
    <3>1. ResetTerm
      BY <2>1, <1>1 DEF Cycle, ResetTerm, TermAt, Counted, ResetPress, GraceInv, TypeOK, NotPressed, UpTo
    <3> QED
      BY <2>1, <3>1, <1>1, <1>3, <1>4 DEF Terminates, UpTo
  <2>2. CASE cycles' # TermAt
    <3>1. cycles >= TermAt /\ cycles' <= cycles + 1
      BY <2>2, <1>1 DEF Cycle, Counted, TypeOK, NotPressed, UpTo
    <3>2. UpTo(MinGrace, cycles - TermAt + 1) <= termAge
      BY <3>1 DEF GraceInv, CyclesSinceTerm, Cycle, TypeOK
    <3>3. cycles \in Int /\ termAge >= 0 /\ termAge \in Int
      BY <3>1, <3>2, <1>1, <1>3 DEF UpTo, NoTerm, TypeOK
    <3>4. termAge' = termAge
      BY <3>3, <1>4 DEF NoTerm
    <3>5. TermAt \in Int /\ MinGrace \in Nat /\ cycles' \in Int
      BY <1>1, <1>7
    <3> QED
      BY <3>1, <3>2, <3>3, <3>4, <3>5, UpToGrows
  <2> QED  BY <2>1, <2>2
<1>9. CyclesSinceTerm' = cycles' - TermAt
  BY <1>1, <1>2, <1>7 DEF Cycle, CyclesSinceTerm
<1>10. /\ (UpTo(MinGrace, CyclesSinceTerm))' = UpTo(MinGrace, CyclesSinceTerm')
       /\ (UpTo(MinGrace, quitHold.askedFor))' = UpTo(MinGrace, quitHold'.askedFor)
  BY <1>2 DEF UpTo
<1> QED
  BY <1>2, <1>5, <1>6, <1>7, <1>8, <1>9, <1>10 DEF GraceInv

(* Where the watch kills, the grace is over: the hotkey counts it itself,  *)
(* and Reset counts cycles, none of which is shorter than a tick.          *)
LEMMA KillsLate ==
    ASSUME TypeOK, GraceInv, Cycle, Kills
    PROVE  termAge = MinGrace
<1> USE HoldAssumption, WatchAssumption
<1>1. /\ TermAt \in 1..(ResetKillCycles - 1)
      /\ MinGrace \in Nat \ {0}
      /\ MinGrace <= ExitGraceMs
      /\ MinGrace <= ResetKillCycles - TermAt
      /\ termAge \in NoTerm..MinGrace
  BY ConstantsType DEF TypeOK
<1>2. CASE HotkeyAction = "Kill"
  <2>1. quitHold.terminated /\ quitHold.askedFor >= ExitGraceMs /\ quitHold.askedFor \in Nat
    BY <1>2 DEF HotkeyAction, ActionOf, TypeOK, Holds
  <2> QED  BY <1>1, <2>1 DEF GraceInv, UpTo, NoTerm
<1>3. CASE ResetKill
  <2>1. cycles + 1 >= ResetKillCycles /\ cycles \in Int
    BY <1>3 DEF ResetKill, Counted, TypeOK, NotPressed, UpTo
  <2>2. UpTo(MinGrace, cycles - TermAt + 1) <= termAge
    BY <2>1, <1>1 DEF GraceInv, CyclesSinceTerm, Cycle, TypeOK
  <2> QED  BY <1>1, <2>1, <2>2 DEF UpTo, NoTerm
<1> QED  BY <1>2, <1>3 DEF Kills

(* A program always has its time between SIGTERM and SIGKILL (QuitWatch,   *)
(* ResetWatch), for every hold, grace, Reset count and pace of the loop.   *)
THEOREM KillLeavesGrace == Spec => KillAfterGrace
<1>1. Init => GraceInv
  BY HoldAssumption, WatchAssumption, ConstantsType
     DEF Init, GraceInv, NoHold, NotPressed
<1>2. ASSUME TypeOK, GraceInv, [Next]_vars
      PROVE  GraceInv' /\ (~killed /\ killed' => termAge = MinGrace)
  <2>1. CASE Tick
    BY <1>2, <2>1, TickGrace DEF Tick
  <2>2. CASE Cycle
    BY <1>2, <2>2, CycleGrace, KillsLate DEF Cycle
  <2>3. CASE UNCHANGED <<mode, quitHold, cycles, sinceCycle, termAge, killed>>
    BY <1>2, <2>3 DEF GraceInv, CyclesSinceTerm, TermAt, MinGrace, UpTo
  <2> QED
    BY <1>2, <2>1, <2>2, <2>3
       DEF Next, PressCombo, ReleaseCombo, PressReset, TargetGoes, DaemonStops, ShimUpdate,
           daemonVars, vars
<1> QED  BY <1>1, <1>2, TypeCorrect, PTL DEF Spec, KillAfterGrace

-----------------------------------------------------------------------------
(* A count of the hotkey is no longer than the time since the combo came   *)
(* down for good: a release that outlasts a cycle was seen by one.         *)
SpanInv ==
    /\ held => rest = 0
    /\ mode = "reset" => ~quitHold.holding
    /\ ~quitHold.terminated /\ ~held /\ rest > sinceCycle => ~quitHold.holding
    /\ ~quitHold.terminated /\ quitHold.holding => quitHold.heldFor <= span

LEMMA PressSpan ==
    ASSUME TypeOK, SpanInv, PressCombo
    PROVE  SpanInv'
<1> USE HoldAssumption, WatchAssumption
<1>1. rest = SeenRest => rest > sinceCycle
  BY DEF TypeOK, SeenRest
<1>2. ~quitHold.terminated /\ quitHold.holding => span' = span
  BY <1>1 DEF PressCombo, SpanInv
<1> QED
  BY <1>2 DEF PressCombo, SpanInv, daemonVars

LEMMA TickSpan ==
    ASSUME TypeOK, SpanInv, Tick
    PROVE  SpanInv'
<1> USE HoldAssumption, WatchAssumption
<1>1. /\ quitHold'.terminated = quitHold.terminated
      /\ quitHold'.holding = quitHold.holding
      /\ quitHold.holding => quitHold'.heldFor = UpTo(ExitHoldMs, quitHold.heldFor + 1)
      /\ quitHold.heldFor \in 0..ExitHoldMs
  BY DEF Tick, Elapse, TypeOK, Holds
<1>2. /\ rest' = (IF held THEN 0 ELSE UpTo(SeenRest, rest + 1))
      /\ span' = UpTo(ExitHoldMs, span + 1)
      /\ sinceCycle' = sinceCycle + 1
      /\ rest \in 0..SeenRest /\ span \in 0..ExitHoldMs /\ sinceCycle \in 0..MaxElapsed
  BY DEF Tick, TypeOK
<1>3. rest' > sinceCycle' /\ ~held => rest > sinceCycle
  BY <1>2 DEF UpTo, SeenRest
<1>4. quitHold.heldFor <= span => UpTo(ExitHoldMs, quitHold.heldFor + 1) <= span'
  BY <1>1, <1>2 DEF UpTo
<1>5. held' = held /\ mode' = mode
  BY DEF Tick
<1> QED
  BY <1>1, <1>2, <1>3, <1>4, <1>5 DEF SpanInv

LEMMA CycleSpan ==
    ASSUME TypeOK, SpanInv, Cycle
    PROVE  /\ SpanInv'
           /\ ~quitHold.terminated /\ quitHold'.terminated => span >= ExitHoldMs
<1> USE HoldAssumption, WatchAssumption
<1>1. UNCHANGED <<held, rest, span, mode>> /\ sinceCycle' = 0 /\ quitHold \in Holds /\ span \in Nat
  BY DEF Cycle, TypeOK
<1>2. CASE mode = "reset"
  BY <1>1, <1>2 DEF Cycle, SpanInv
<1>3. CASE mode # "reset" /\ quitHold.terminated
  <2>1. quitHold'.terminated
    BY <1>1, <1>3 DEF Cycle, Update, Holds
  <2> QED  BY <1>1, <1>3, <2>1 DEF SpanInv
<1>4. CASE mode # "reset" /\ ~quitHold.terminated
  <2>1. /\ quitHold'.holding = held
        /\ quitHold'.heldFor = IF held /\ quitHold.holding THEN quitHold.heldFor ELSE 0
        /\ quitHold'.terminated = (ActionOf(quitHold, held) = "Terminate")
    BY <1>1, <1>4 DEF Cycle, Update, Holds
  <2>2. quitHold'.terminated => quitHold.holding /\ quitHold.heldFor >= ExitHoldMs
    BY <1>4, <2>1 DEF ActionOf
  <2>3. quitHold.holding => quitHold.heldFor <= span /\ quitHold.heldFor \in Int
    BY <1>1, <1>4 DEF SpanInv, Holds
  <2> QED  BY <1>1, <1>4, <2>1, <2>2, <2>3 DEF SpanInv
<1> QED  BY <1>2, <1>3, <1>4

(* The hotkey ends a program only after an unbroken hold (QuitWatch,       *)
(* ExitHold::update), whatever the pace of the loop.                       *)
THEOREM HoldIsUnbroken == Spec => HoldWasUnbroken
<1>1. Init => SpanInv
  BY DEF Init, SpanInv, NoHold
<1>2. ASSUME TypeOK, SpanInv, [Next]_vars
      PROVE  SpanInv' /\ (~quitHold.terminated /\ quitHold'.terminated => span >= ExitHoldMs)
  <2>1. CASE PressCombo
    BY <1>2, <2>1, PressSpan DEF PressCombo, daemonVars
  <2>2. CASE ReleaseCombo
    BY <1>2, <2>2, HoldAssumption, WatchAssumption DEF ReleaseCombo, daemonVars, SpanInv, TypeOK
  <2>3. CASE Tick
    <3>1. quitHold'.terminated = quitHold.terminated
      BY <1>2, <2>3 DEF Tick, Elapse, TypeOK, Holds
    <3> QED  BY <1>2, <2>3, <3>1, TickSpan
  <2>4. CASE Cycle
    BY <1>2, <2>4, CycleSpan
  <2>5. CASE UNCHANGED <<mode, quitHold, sinceCycle, held, rest, span>>
    BY <1>2, <2>5 DEF SpanInv
  <2> QED
    BY <1>2, <2>1, <2>2, <2>3, <2>4, <2>5
       DEF Next, PressReset, TargetGoes, DaemonStops, ShimUpdate, daemonVars, vars
<1> QED  BY <1>1, <1>2, TypeCorrect, PTL DEF Spec, HoldWasUnbroken
=============================================================================
