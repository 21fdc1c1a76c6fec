--------------------------- MODULE Launcher_proof ---------------------------
(***************************************************************************)
(* Two services of the launcher.                                           *)
(*                                                                         *)
(* RaJob: for any number of jobs, phases and launcher's deaths, a job that *)
(* starts with no other runner at work ends as its own runner ended, and   *)
(* its steps never go back.                                                *)
(*                                                                         *)
(* CoverLoader: for every set of paths and any number of calls, what the   *)
(* loader hands out was begun after the last clear(), and nothing is       *)
(* decoded twice.                                                          *)
(***************************************************************************)
EXTENDS RaJob, CoverLoader, SequenceTheorems, TLAPS

-----------------------------------------------------------------------------
(* The job.                                                                *)

\* The launcher has a child just while its job runs, and it is the last one started.
ChildInv ==
    /\ child # NoRun <=> job.state = "Running"
    /\ polling => job.state = "Running"
    /\ child # NoRun => child = started
    /\ child # NoRun => (job.stopAsked <=> termed[child])

\* A run that is not started has left nothing.
FreshInv ==
    \A r \in Runs : r > started =>
        /\ runner[r] = "none"
        /\ ~termed[r]
        /\ wrote[r] = "none"

\* The file, and the job as it was read from it, are the work of the child alone.
OwnInv ==
    \A r \in Runs : alone /\ child = r =>
        /\ \A q \in Runs : q # r => runner[q] # "running"
        /\ job.ended = "none" \/ job.ended = wrote[r]
        /\ file.kind = "end" => wrote[r] # "none"
        /\ wrote[r] # "none" => file = EndLine(wrote[r])
        /\ file.kind = "phase" => job.phase <= file.phase /\ file.phase <= phase[r]
        /\ job.phase <= phase[r]

IInv == TypeOK /\ ChildInv /\ FreshInv /\ OwnInv

-----------------------------------------------------------------------------
\* What a line that may be in the file holds.
LEMMA LineShape ==
  ASSUME NEW f \in Lines \cup {NoFile}
  PROVE  /\ f.kind \in {"phase", "end", "garbled", "none"}
         /\ f.kind = "phase" => f.phase \in 1..Phases
         /\ f.kind = "end" => f.end \in EndLines /\ f = EndLine(f.end)
  BY DEF Lines, NoFile, Garbled, PhaseLine, EndLine

\* The lines that are written are lines.
LEMMA LinesWritten ==
  /\ \A i \in 1..Phases : PhaseLine(i) \in Lines \cup {NoFile} /\ PhaseLine(i).kind = "phase" /\ PhaseLine(i).phase = i
  /\ \A e \in EndLines : EndLine(e) \in Lines \cup {NoFile} /\ EndLine(e).kind = "end" /\ EndLine(e).end = e
  /\ Garbled \in Lines \cup {NoFile} /\ Garbled.kind = "garbled"
  /\ NoFile \in Lines \cup {NoFile} /\ NoFile.kind = "none"
  BY DEF Lines, NoFile, Garbled, PhaseLine, EndLine

Jobs == [state : States, phase : 0..Phases, ended : EndLines \cup {"none"}, stopAsked : BOOLEAN]

\* JobState::apply changes what the line says and nothing else.
LEMMA AppliedShape ==
  ASSUME TypeOK, NEW j \in Jobs
  PROVE  /\ Applied(j) \in Jobs
         /\ Applied(j).state = j.state
         /\ Applied(j).stopAsked = j.stopAsked
         /\ Applied(j).phase = IF file.kind = "phase" THEN file.phase ELSE j.phase
         /\ Applied(j).ended = IF file.kind = "end" THEN file.end ELSE j.ended
<1>1. /\ file.kind = "phase" => file.phase \in 0..Phases
      /\ file.kind = "end" => file.end \in EndLines \cup {"none"}
  BY LineShape, JobAssumption DEF TypeOK, JobAssumption
<1>2. CASE file.kind = "phase"
  BY <1>1, <1>2 DEF Applied, Jobs
<1>3. CASE file.kind = "end"
  BY <1>1, <1>3 DEF Applied, Jobs
<1>4. CASE file.kind \notin {"phase", "end"}
  BY <1>4 DEF Applied, Jobs
<1> QED
  BY <1>2, <1>3, <1>4

-----------------------------------------------------------------------------
\* The parts of TypeOK a step of the runners, or of the launcher, changes.
RunnerTypes ==
    /\ runner \in [Runs -> {"none", "running", "ended", "gone"}]
    /\ exitCode \in [Runs -> ExitCodes]
    /\ phase \in [Runs -> 1..Phases]
    /\ wrote \in [Runs -> EndLines \cup {"none"}]

LauncherTypes ==
    /\ job \in Jobs
    /\ op \in {"install", "remove"}
    /\ child \in Runs \cup {NoRun}
    /\ file \in Lines \cup {NoFile}
    /\ read \in Lines \cup {NoFile}
    /\ started \in 0..MaxRuns
    /\ crashes \in 0..MaxCrashes
    /\ child # NoRun => runner[child] \in {"running", "ended"}

FlagTypes ==
    /\ polling \in BOOLEAN
    /\ termed \in [Runs -> BOOLEAN]
    /\ alone \in BOOLEAN

LEMMA TypeParts ==
  /\ TypeOK <=> RunnerTypes /\ LauncherTypes /\ FlagTypes
  /\ TypeOK' <=> RunnerTypes' /\ LauncherTypes' /\ FlagTypes'
  BY Zenon DEF TypeOK, RunnerTypes, LauncherTypes, FlagTypes, Jobs

LEMMA TypeInit == Init => TypeOK
<1> SUFFICES ASSUME Init PROVE RunnerTypes /\ LauncherTypes /\ FlagTypes
  BY TypeParts
<1>1. 0 \in 0..Phases /\ 1 \in 1..Phases /\ 0 \in 0..MaxRuns /\ 0 \in 0..MaxCrashes
  BY JobAssumption DEF JobAssumption
<1>2. RunnerTypes
  BY <1>1 DEF Init, RunnerTypes, ExitCodes
<1>3. LauncherTypes
  BY <1>1 DEF Init, LauncherTypes, Jobs, Idle, States
<1>4. FlagTypes
  BY Zenon DEF Init, FlagTypes
<1> QED
  BY <1>2, <1>3, <1>4

\* A step of a runner, or something else that writes its file.
LEMMA RunnerTypeStep ==
  ASSUME TypeOK, (\E r \in Runs : Runner(r)) \/ ForeignFile
  PROVE  TypeOK'
<1>0. RunnerTypes /\ LauncherTypes /\ FlagTypes
  BY TypeParts
<1>1. FlagTypes'
  BY <1>0, Zenon DEF FlagTypes, Runner, WritePhase, NextPhase, WriteEnd, Finish, Break, ForeignFile, jobVars, runnerVars
<1>2. RunnerTypes' /\ LauncherTypes'
  <2>1. CASE ForeignFile
    BY <1>0, <2>1, LinesWritten DEF ForeignFile, RunnerTypes, LauncherTypes, jobVars, runnerVars
  <2>2. ASSUME NEW r \in Runs, WritePhase(r) PROVE RunnerTypes' /\ LauncherTypes'
    BY <1>0, <2>2, LinesWritten DEF WritePhase, RunnerTypes, LauncherTypes, jobVars, runnerVars
  <2>3. ASSUME NEW r \in Runs, NextPhase(r) PROVE RunnerTypes' /\ LauncherTypes'
    BY <1>0, <2>3, JobAssumption DEF JobAssumption, NextPhase, RunnerTypes, LauncherTypes, jobVars, runnerVars
  <2>4. ASSUME NEW r \in Runs, WriteEnd(r) PROVE RunnerTypes' /\ LauncherTypes'
    BY <1>0, <2>4, LinesWritten DEF WriteEnd, RunnerTypes, LauncherTypes, jobVars, runnerVars
  <2>5. ASSUME NEW r \in Runs, Finish(r) PROVE RunnerTypes' /\ LauncherTypes'
    BY <1>0, <2>5 DEF Finish, RunnerTypes, LauncherTypes, jobVars, ExitCodes, EndLines
  <2>6. ASSUME NEW r \in Runs, Break(r) PROVE RunnerTypes' /\ LauncherTypes'
    BY <1>0, <2>6 DEF Break, RunnerTypes, LauncherTypes, jobVars
  <2> QED
    BY <2>1, <2>2, <2>3, <2>4, <2>5, <2>6, Zenon DEF Runner
<1> QED
  BY <1>1, <1>2, TypeParts

\* A step of the launcher.
LauncherSteps ==
    \/ \E o \in {"install", "remove"} : Start(o) \/ StartFails(o)
    \/ ReadFile \/ Reap \/ Stop \/ Shown \/ Crash

LEMMA LauncherTypeStep ==
  ASSUME TypeOK, LauncherSteps
  PROVE  TypeOK'
<1>0. RunnerTypes /\ LauncherTypes /\ FlagTypes
  BY TypeParts
<1>1. FlagTypes'
  BY <1>0, Zenon DEF FlagTypes, LauncherSteps, Start, StartFails, ReadFile, Reap, Stop, Shown, Crash, jobVars, runnerVars
<1>a. 0 \in 0..Phases /\ Idle \in Jobs
  BY JobAssumption DEF JobAssumption, Idle, Jobs, States
<1>b. Applied(job) \in Jobs
  BY <1>0, AppliedShape DEF LauncherTypes
<1>2. RunnerTypes' /\ LauncherTypes'
  <2>1. ASSUME NEW o \in {"install", "remove"}, Start(o) PROVE RunnerTypes' /\ LauncherTypes'
    <3>1. started + 1 \in Runs /\ started + 1 \in 0..MaxRuns /\ started' = started + 1
      BY <1>0, <2>1, JobAssumption DEF JobAssumption, Start, LauncherTypes, Runs
    <3>2. job' \in Jobs
      BY <1>a, <2>1 DEF Start, Jobs, States
    <3> QED
      BY <1>0, <2>1, <3>1, <3>2, LinesWritten DEF Start, RunnerTypes, LauncherTypes
  <2>2. ASSUME NEW o \in {"install", "remove"}, StartFails(o) PROVE RunnerTypes' /\ LauncherTypes'
    <3>1. job' \in Jobs
      BY <1>a, <2>2 DEF StartFails, Jobs, States
    <3> QED
      BY <1>0, <2>2, <3>1, LinesWritten DEF StartFails, RunnerTypes, LauncherTypes, runnerVars
  <2>3. CASE ReadFile
    BY <1>0, <1>b, <2>3 DEF ReadFile, RunnerTypes, LauncherTypes, runnerVars
  <2>4. CASE Reap
    <3>1. job' \in Jobs
      BY <1>0, <1>b, <2>4 DEF Reap, AtExit, Outcome, Jobs, States, LauncherTypes, EndLines
    <3> QED
      BY <1>0, <2>4, <3>1 DEF Reap, RunnerTypes, LauncherTypes
  <2>5. CASE Stop
    <3>1. job' \in Jobs
      BY <1>0, <2>5 DEF Stop, Jobs, LauncherTypes
    <3> QED
      BY <1>0, <2>5, <3>1 DEF Stop, RunnerTypes, LauncherTypes
  <2>6. CASE Shown
    BY <1>0, <1>a, <2>6 DEF Shown, RunnerTypes, LauncherTypes, runnerVars
  <2>7. CASE Crash
    BY <1>0, <1>a, <2>7, LinesWritten, JobAssumption DEF JobAssumption, Crash, RunnerTypes, LauncherTypes, runnerVars
  <2> QED
    BY <2>1, <2>2, <2>3, <2>4, <2>5, <2>6, <2>7, Zenon DEF LauncherSteps
<1> QED
  BY <1>1, <1>2, TypeParts

LEMMA NextSplit == Next <=> (\E r \in Runs : Runner(r)) \/ ForeignFile \/ LauncherSteps
  BY Zenon DEF Next, LauncherSteps

LEMMA TypeStep == TypeOK /\ [Next]_vars => TypeOK'
<1> SUFFICES ASSUME TypeOK, [Next]_vars PROVE TypeOK'
  OBVIOUS
<1>1. CASE Next
  BY <1>1, NextSplit, RunnerTypeStep, LauncherTypeStep
<1>2. CASE UNCHANGED vars
  BY <1>2, Zenon DEF TypeOK, vars, jobVars, runnerVars
<1> QED
  BY <1>1, <1>2

\* The types of the job, the file and the runners hold for every number of jobs, phases and crashes
\* (RaJobService, JobState).
THEOREM TypeCorrect == Spec => []TypeOK
  BY TypeInit, TypeStep, PTL DEF Spec

-----------------------------------------------------------------------------
LEMMA InvInit == Init => IInv
<1> SUFFICES ASSUME Init PROVE IInv
  OBVIOUS
<1>1. TypeOK
  BY TypeInit
<1>2. ChildInv
  BY DEF Init, ChildInv, Idle, NoRun
<1>3. FreshInv
  BY DEF Init, FreshInv
<1>4. OwnInv
  BY DEF Init, OwnInv, Runs, NoRun
<1> QED
  BY <1>1, <1>2, <1>3, <1>4 DEF IInv

\* What ChildInv speaks of is the launcher's.
LEMMA ChildKept ==
  ASSUME ChildInv, UNCHANGED <<job, polling, child, started, termed>>
  PROVE  ChildInv'
  BY Zenon DEF ChildInv

\* The steps of a runner keep the launcher's invariant: a runner at work is the child, or the
\* job did not start alone.
LEMMA RunnerInvStep ==
  ASSUME IInv, NEW r \in Runs, Runner(r)
  PROVE  ChildInv' /\ FreshInv' /\ OwnInv'
<1> USE DEF IInv, jobVars, runnerVars
<1>0. /\ runner \in [Runs -> {"none", "running", "ended", "gone"}]
      /\ phase \in [Runs -> 1..Phases]
      /\ wrote \in [Runs -> EndLines \cup {"none"}]
      /\ job \in Jobs
      /\ started \in 0..MaxRuns
  BY DEF TypeOK, Jobs
<1>1. runner[r] = "running" /\ r <= started
  BY <1>0 DEF Runner, WritePhase, NextPhase, WriteEnd, Finish, Break, FreshInv, Runs
<1>2. ASSUME alone, child # NoRun, child \in Runs PROVE child = r
  BY <1>1, <1>2 DEF OwnInv
<1>c. child \in Runs \cup {NoRun} /\ NoRun \notin Runs
  BY DEF TypeOK, NoRun, Runs
<1>3. CASE WritePhase(r)
  <2>1. ChildInv' /\ FreshInv'
    BY <1>3, Zenon DEF WritePhase, ChildInv, FreshInv
  <2>2. OwnInv'
    BY <1>0, <1>2, <1>c, <1>3, LinesWritten, JobAssumption DEF JobAssumption, WritePhase, OwnInv, Jobs
  <2> QED
    BY <2>1, <2>2
<1>4. CASE NextPhase(r)
  <2>1. ChildInv' /\ FreshInv'
    BY <1>4, Zenon DEF NextPhase, ChildInv, FreshInv
  <2>2. OwnInv'
    <3>1. \A q \in Runs : phase'[q] >= phase[q] /\ phase'[q] \in Int /\ phase[q] \in Int
      BY <1>0, <1>4, JobAssumption DEF JobAssumption, NextPhase
    <3>2. file.kind = "phase" => file.phase \in Int
      BY LineShape, JobAssumption DEF JobAssumption, TypeOK
    <3>3. job.phase \in Int
      BY <1>0 DEF Jobs
    <3> QED
      BY <1>4, <3>1, <3>2, <3>3 DEF NextPhase, OwnInv
  <2> QED
    BY <2>1, <2>2
<1>5. CASE WriteEnd(r)
  <2>1. ChildInv'
    BY <1>5, ChildKept DEF WriteEnd
  <2>2. FreshInv'
    BY <1>0, <1>1, <1>5 DEF WriteEnd, FreshInv, Runs
  <2>3. OwnInv'
    <3>1. PICK e \in EndLines : /\ wrote[r] = "none"
                                /\ wrote' = [wrote EXCEPT ![r] = e]
                                /\ file' = EndLine(e)
                                /\ UNCHANGED <<jobVars, runner, exitCode, termed, phase, started, alone, crashes>>
      BY <1>5 DEF WriteEnd
    <3>2. file'.kind = "end" /\ e # "none" /\ wrote'[r] = e
      BY <1>0, <3>1, LinesWritten DEF EndLines
    <3> QED
      BY <1>0, <1>2, <1>c, <3>1, <3>2 DEF OwnInv
  <2> QED
    BY <2>1, <2>2, <2>3
<1>6. CASE Finish(r) \/ Break(r)
  <2>1. ChildInv'
    BY <1>6, ChildKept DEF Finish, Break
  <2>2. /\ \A q \in Runs : q # r => runner'[q] = runner[q]
        /\ runner'[r] # "running"
        /\ UNCHANGED <<job, child, file, termed, phase, wrote, started, alone>>
    BY <1>0, <1>6 DEF Finish, Break
  <2>3. FreshInv'
    BY <1>0, <1>1, <2>2 DEF FreshInv, Runs
  <2>4. OwnInv'
    BY <2>2 DEF OwnInv
  <2> QED
    BY <2>1, <2>3, <2>4
<1> QED
  BY <1>3, <1>4, <1>5, <1>6 DEF Runner

\* Something else may write only what says nothing.
LEMMA ForeignInvStep ==
  ASSUME IInv, ForeignFile
  PROVE  ChildInv' /\ FreshInv' /\ OwnInv'
<1>1. ChildInv' /\ FreshInv'
  BY Zenon DEF IInv, ForeignFile, ChildInv, FreshInv, jobVars, runnerVars
<1>2. OwnInv'
  BY LinesWritten DEF IInv, ForeignFile, OwnInv, jobVars, runnerVars
<1> QED
  BY <1>1, <1>2

\* JobState::childExited ends the job.
LEMMA OutcomeIsAnEnd ==
  ASSUME NEW j \in Jobs, NEW c
  PROVE  Outcome(j, c) \in Ended
  BY DEF Jobs, EndLines, Outcome, Ended

\* A step of the launcher keeps it.
LEMMA LauncherInvStep ==
  ASSUME IInv, TypeOK', LauncherSteps
  PROVE  ChildInv' /\ FreshInv' /\ OwnInv'
<1> USE DEF IInv
<1>0. /\ runner \in [Runs -> {"none", "running", "ended", "gone"}]
      /\ phase \in [Runs -> 1..Phases]
      /\ wrote \in [Runs -> EndLines \cup {"none"}]
      /\ job \in Jobs
      /\ started \in 0..MaxRuns
      /\ child \in Runs \cup {NoRun}
  BY DEF TypeOK, Jobs
<1>a. /\ Idle.state = "Idle" /\ Idle.phase = 0 /\ Idle.ended = "none" /\ Idle.stopAsked = FALSE
      /\ NoRun \notin Runs
  BY DEF Idle, NoRun, Runs
<1>1. ASSUME NEW o \in {"install", "remove"}, Start(o) PROVE ChildInv' /\ FreshInv' /\ OwnInv'
  <2>1. /\ started + 1 \in Runs /\ started' = started + 1 /\ child' = started + 1
        /\ child = NoRun /\ polling = FALSE
        /\ ~termed[started + 1] /\ wrote[started + 1] = "none"
    BY <1>0, <1>1, JobAssumption DEF JobAssumption, Start, Runs, ChildInv, FreshInv
  <2>2. /\ job'.state = "Running" /\ job'.phase = 0 /\ job'.ended = "none" /\ job'.stopAsked = FALSE
    BY <1>1 DEF Start, Idle
  <2>3. ChildInv'
    BY <1>a, <1>1, <2>1, <2>2 DEF Start, ChildInv
  <2>4. FreshInv'
    BY <1>0, <1>1, <2>1 DEF Start, FreshInv, Runs
  <2>5. OwnInv'
    <3>1. alone' => \A q \in Runs : runner[q] # "running"
      BY <1>1, Zenon DEF Start
    <3>2. /\ runner' = [runner EXCEPT ![started + 1] = "running"]
          /\ file'.kind = "none"
          /\ wrote' = wrote /\ phase' = phase
      BY <1>1, LinesWritten DEF Start
    <3>3. phase[started + 1] >= 0
      BY <1>0, <2>1, JobAssumption DEF JobAssumption
    <3> QED
      BY <1>0, <2>1, <2>2, <3>1, <3>2, <3>3 DEF OwnInv
  <2> QED
    BY <2>3, <2>4, <2>5
<1>2. ASSUME NEW o \in {"install", "remove"}, StartFails(o) PROVE ChildInv' /\ FreshInv' /\ OwnInv'
  <2>1. child = NoRun /\ child' = NoRun /\ job'.state = "Error" /\ polling' = FALSE
    BY <1>2 DEF StartFails, ChildInv, Idle
  <2>2. ChildInv'
    BY <2>1 DEF ChildInv
  <2>3. FreshInv'
    BY <1>2, Zenon DEF StartFails, FreshInv, runnerVars
  <2>4. OwnInv'
    BY <1>a, <2>1 DEF OwnInv
  <2> QED
    BY <2>2, <2>3, <2>4
<1>3. CASE ReadFile
  <2>1. /\ UNCHANGED <<child, file, runner, exitCode, termed, phase, wrote, started, alone>>
        /\ job' \in {job, Applied(job)}
        /\ job.state = "Running"
    BY <1>3 DEF ReadFile, runnerVars
  <2>2. FreshInv'
    BY <2>1, Zenon DEF FreshInv
  <2>3. job'.state = job.state /\ job'.stopAsked = job.stopAsked
    BY <1>0, <2>1, AppliedShape
  <2>4. ChildInv'
    BY <2>1, <2>3 DEF ChildInv
  <2>5. OwnInv'
    <3>1. job'.ended = job.ended \/ (file.kind = "end" /\ job'.ended = file.end)
      BY <1>0, <2>1, AppliedShape
    <3>2. job'.phase = job.phase \/ (file.kind = "phase" /\ job'.phase = file.phase)
      BY <1>0, <2>1, AppliedShape
    <3>3. \A e \in EndLines : EndLine(e).end = e
      BY LinesWritten
    <3>4. file.kind = "phase" => file.phase \in Int
      BY LineShape, JobAssumption DEF JobAssumption, TypeOK
    <3> QED
      BY <1>0, <2>1, <3>1, <3>2, <3>3, <3>4 DEF OwnInv
  <2> QED
    BY <2>2, <2>4, <2>5
<1>4. CASE Reap
  <2>1. CASE child' = child /\ UNCHANGED <<runner, job>>
    <3>1. ChildInv'
      BY <1>4, <2>1 DEF Reap, ChildInv
    <3>2. FreshInv' /\ OwnInv'
      BY <1>4, <2>1, Zenon DEF Reap, FreshInv, OwnInv
    <3> QED
      BY <3>1, <3>2
  <2>2. CASE child # NoRun /\ runner[child] = "ended" /\ child' = NoRun
    <3>1. job'.state # "Running" /\ polling' = FALSE
      <4>1. polling' = FALSE /\ job' = [Applied(job) EXCEPT !.state = Outcome(Applied(job), exitCode[child])]
        BY <1>a, <1>4, <2>2 DEF Reap, AtExit
      <4>2. Applied(job) \in Jobs
        BY <1>0, AppliedShape
      <4>3. job'.state = Outcome(Applied(job), exitCode[child])
        BY <4>1, <4>2 DEF Jobs
      <4> QED
        BY <4>1, <4>2, <4>3, OutcomeIsAnEnd DEF Ended
    <3>2. ChildInv'
      BY <2>2, <3>1 DEF ChildInv
    <3>3. FreshInv'
      BY <1>0, <1>4, <2>2 DEF Reap, FreshInv, Runs
    <3>4. OwnInv'
      BY <1>a, <2>2 DEF OwnInv
    <3> QED
      BY <3>2, <3>3, <3>4
  <2> QED
    BY <1>4, <2>1, <2>2 DEF Reap
<1>5. CASE Stop
  <2>1. /\ UNCHANGED <<child, polling, file, runner, phase, wrote, started, alone>>
        /\ job'.state = "Running" /\ job'.stopAsked = TRUE /\ job'.phase = job.phase /\ job'.ended = job.ended
        /\ job.state = "Running" /\ child # NoRun
        /\ termed' = [termed EXCEPT ![child] = TRUE]
    BY <1>0, <1>5 DEF Stop, Jobs, ChildInv
  <2>2. termed \in [Runs -> BOOLEAN]
    BY Zenon DEF TypeOK
  <2>3. termed'[child] = TRUE /\ \A r \in Runs : r # child => termed'[r] = termed[r]
    BY <1>0, <2>1, <2>2
  <2>4. ChildInv'
    BY <2>1, <2>3 DEF ChildInv
  <2>5. FreshInv'
    BY <1>0, <2>1, <2>3 DEF FreshInv, ChildInv, Runs
  <2>6. OwnInv'
    BY <2>1 DEF OwnInv
  <2> QED
    BY <2>4, <2>5, <2>6
<1>6. CASE Shown \/ Crash
  <2>1. child' = NoRun /\ job' = Idle /\ polling' = FALSE
    BY <1>6 DEF Shown, Crash, ChildInv, Ended
  <2>2. ChildInv'
    BY <1>a, <2>1 DEF ChildInv
  <2>3. FreshInv'
    BY <1>6, Zenon DEF Shown, Crash, FreshInv, runnerVars
  <2>4. OwnInv'
    BY <1>a, <2>1 DEF OwnInv
  <2> QED
    BY <2>2, <2>3, <2>4
<1> QED
  BY <1>1, <1>2, <1>3, <1>4, <1>5, <1>6, Zenon DEF LauncherSteps

LEMMA InvStep == IInv /\ [Next]_vars => IInv'
<1> SUFFICES ASSUME IInv, [Next]_vars PROVE IInv'
  OBVIOUS
<1>1. TypeOK'
  BY TypeStep DEF IInv
<1>2. CASE Next
  <2>1. ChildInv' /\ FreshInv' /\ OwnInv'
    BY <1>1, <1>2, NextSplit, RunnerInvStep, ForeignInvStep, LauncherInvStep
  <2> QED
    BY <1>1, <2>1 DEF IInv
<1>3. CASE UNCHANGED vars
  BY <1>3, Zenon DEF IInv, TypeOK, ChildInv, FreshInv, OwnInv, vars, jobVars, runnerVars
<1> QED
  BY <1>2, <1>3

\* The strengthening of the two results below: the launcher knows its own child, a run that is not
\* started left nothing, and of a job that started alone the file and all that was read of it are
\* the child's (RaJobService::startCommand, poll).
THEOREM Inductive == Spec => []IInv
  BY InvInit, InvStep, PTL DEF Spec

-----------------------------------------------------------------------------
\* A step out of a running job's state is the end of its child, or the launcher's.
LEMMA EndIsReap ==
  ASSUME IInv, [Next]_vars, child # NoRun, job'.state \in Ended
  PROVE  Reap /\ runner[child] = "ended" /\ job' = [AtExit EXCEPT !.state = Outcome(AtExit, exitCode[child])]
<1>0. job \in Jobs /\ job.state = "Running"
  BY DEF IInv, TypeOK, Jobs, ChildInv
<1>1. job' # job
  BY <1>0 DEF Ended
<1>2. \A r \in Runs : ~Runner(r)
  BY <1>1, Zenon DEF Runner, WritePhase, NextPhase, WriteEnd, Finish, Break, jobVars
<1>3. ~ForeignFile /\ ~UNCHANGED vars
  BY <1>1, Zenon DEF ForeignFile, vars, jobVars
<1>4. ~ReadFile
  BY <1>0, AppliedShape DEF IInv, ReadFile, Ended
<1>5. ~Stop
  BY <1>0 DEF Stop, Jobs, Ended
<1>6. ~Shown /\ ~Crash /\ \A o \in {"install", "remove"} : ~Start(o) /\ ~StartFails(o)
  BY <1>0 DEF Shown, Crash, Start, StartFails, Idle, Ended
<1>7. Reap
  BY <1>2, <1>3, <1>4, <1>5, <1>6, NextSplit, Zenon DEF LauncherSteps
<1> QED
  BY <1>1, <1>7, Zenon DEF Reap

\* RaJobService::reap: what is known of the job when its child is reaped is what the child did.
LEMMA ReapTellsIt ==
  ASSUME IInv, NEW r \in Runs, alone, child = r, runner[r] = "ended"
  PROVE  Outcome(AtExit, exitCode[r]) = Verdict(r)
<1>0. /\ job \in Jobs /\ TypeOK
      /\ wrote[r] \in EndLines \cup {"none"}
      /\ file \in Lines \cup {NoFile}
  BY DEF IInv, TypeOK, Jobs
<1>1. AtExit.stopAsked = job.stopAsked /\ AtExit.ended = IF file.kind = "end" THEN file.end ELSE job.ended
  BY <1>0, AppliedShape DEF AtExit
<1>2. AtExit.stopAsked <=> termed[r]
  BY <1>1 DEF IInv, ChildInv, NoRun, Runs
<1>3. AtExit.ended = wrote[r]
  <2>1. CASE wrote[r] = "none"
    BY <1>1, <2>1 DEF IInv, OwnInv
  <2>2. CASE wrote[r] \in EndLines
    BY <1>0, <1>1, <2>2, LinesWritten DEF IInv, OwnInv, EndLines
  <2> QED
    BY <1>0, <2>1, <2>2
<1>4. CASE wrote[r] \in EndLines
  BY <1>3, <1>4 DEF Outcome, Verdict, EndLines
<1>5. CASE wrote[r] = "none"
  BY <1>2, <1>3, <1>5 DEF Outcome, Verdict
<1> QED
  BY <1>0, <1>4, <1>5

\* A job that starts with no other runner at work ends as its runner ended, in whatever order the
\* file, the exit and a stop come (RaJobService::reap, JobState::childExited).
THEOREM OutcomeIsItsRunners == Spec => OutcomeIsTheRunners
<1>1. IInv /\ [Next]_vars =>
        [\A r \in Runs : alone /\ child = r /\ job'.state \in Ended => job'.state = Verdict(r)]_vars
  <2> SUFFICES ASSUME IInv, [Next]_vars, NEW r \in Runs, alone, child = r, job'.state \in Ended
               PROVE  job'.state = Verdict(r)
    BY Zenon
  <2>1. runner[r] = "ended" /\ job' = [AtExit EXCEPT !.state = Outcome(AtExit, exitCode[r])]
    BY EndIsReap DEF NoRun, Runs
  <2>2. AtExit \in Jobs
    BY AppliedShape DEF AtExit, IInv, TypeOK, Jobs
  <2>3. job'.state = Outcome(AtExit, exitCode[r])
    BY <2>1, <2>2 DEF Jobs
  <2> QED
    BY <2>1, <2>3, ReapTellsIt
<1> QED
  BY <1>1, Inductive, PTL DEF Spec, OutcomeIsTheRunners

\* The steps that the screen shows of such a job never go back, whatever of the file was missed
\* (RaJobService::readFile, JobState::apply).
THEOREM ProgressIsForward == Spec => ProgressGoesForward
<1>1. IInv /\ [Next]_vars =>
        [alone /\ job.state = "Running" /\ job'.state = "Running" => job'.phase >= job.phase]_vars
  <2> SUFFICES ASSUME IInv, [Next]_vars, alone, job.state = "Running", job'.state = "Running"
               PROVE  job'.phase >= job.phase
    BY Zenon
  <2>0. job \in Jobs /\ TypeOK
    BY DEF IInv, TypeOK, Jobs
  <2>1. job.phase \in Int
    BY <2>0, JobAssumption DEF JobAssumption, Jobs
  <2>2. CASE job' = job
    BY <2>1, <2>2
  <2>3. CASE ReadFile
    <3>1. child \in Runs
      BY <2>0 DEF IInv, ChildInv, TypeOK
    <3>2. job'.phase = job.phase \/ (file.kind = "phase" /\ job'.phase = file.phase)
      BY <2>0, <2>3, AppliedShape DEF ReadFile
    <3> QED
      BY <2>1, <3>1, <3>2 DEF IInv, OwnInv
  <2>4. CASE Reap
    <3>1. job' = job \/ job' = [AtExit EXCEPT !.state = Outcome(AtExit, exitCode[child])]
      BY <2>4, Zenon DEF Reap
    <3>2. AtExit \in Jobs
      BY <2>0, AppliedShape DEF AtExit
    <3>3. Outcome(AtExit, exitCode[child]) # "Running"
      BY <3>2, OutcomeIsAnEnd DEF Ended
    <3> QED
      BY <2>2, <3>1, <3>2, <3>3 DEF Jobs
  <2>5. CASE Stop
    BY <2>0, <2>1, <2>5 DEF Stop, Jobs
  <2>6. ~Shown /\ ~Crash /\ \A o \in {"install", "remove"} : ~Start(o) /\ ~StartFails(o)
    <3>1. Idle.state = "Idle"
      BY DEF Idle
    <3>2. ~Crash
      BY <3>1 DEF Crash
    <3>3. ~Shown
      BY DEF Shown, Ended
    <3>4. \A o \in {"install", "remove"} : ~Start(o) /\ ~StartFails(o)
      BY Zenon DEF Start, StartFails
    <3> QED
      BY <3>2, <3>3, <3>4
  <2>7. CASE ForeignFile \/ UNCHANGED vars \/ \E r \in Runs : Runner(r)
    <3>1. job' = job
      BY <2>7, Zenon DEF Runner, WritePhase, NextPhase, WriteEnd, Finish, Break, ForeignFile, vars, jobVars
    <3> QED
      BY <2>2, <3>1
  <2> QED
    BY <2>3, <2>4, <2>5, <2>6, <2>7, NextSplit, Zenon DEF LauncherSteps
<1> QED
  BY <1>1, Inductive, PTL DEF Spec, ProgressGoesForward

-----------------------------------------------------------------------------
(* The cover loader.                                                       *)

\* An image under way that will be kept was begun after the last clear().
FlightInv ==
    worker = "decoding" /\ inFlight = decoding => image = clears

CLInv == CLTypeOK /\ FlightInv /\ NothingStale /\ NoDoubleWork

-----------------------------------------------------------------------------
\* Taking the head of a queue that repeats nothing leaves such a queue, and
\* the head is in it no more.
LEMMA TailOfDistinct ==
    ASSUME NEW s \in Seq(Paths), s # <<>>,
           \A k, l \in DOMAIN s : s[k] = s[l] => k = l
    PROVE  /\ Head(s) \in Paths
           /\ Tail(s) \in Seq(Paths)
           /\ \A k \in DOMAIN Tail(s) : Tail(s)[k] # Head(s) /\ \E m \in DOMAIN s : Tail(s)[k] = s[m]
           /\ \A k, l \in DOMAIN Tail(s) : Tail(s)[k] = Tail(s)[l] => k = l
<1>1. /\ Head(s) \in Paths
      /\ Tail(s) \in Seq(Paths)
      /\ Len(Tail(s)) = Len(s) - 1
      /\ \A k \in 1..Len(Tail(s)) : Tail(s)[k] = s[k + 1]
  BY HeadTailProperties
<1>2. Head(s) = s[1] /\ Len(s) \in Nat \ {0} /\ DOMAIN s = 1..Len(s)
  BY EmptySeq, LenProperties
<1>3. DOMAIN Tail(s) = 1..Len(Tail(s)) /\ Len(Tail(s)) \in Nat
  BY <1>1, LenProperties
<1>4. \A k \in DOMAIN Tail(s) : k + 1 \in DOMAIN s /\ k + 1 # 1 /\ Tail(s)[k] = s[k + 1]
  BY <1>1, <1>2, <1>3
<1>5. 1 \in DOMAIN s
  BY <1>2
<1>6. \A k \in DOMAIN Tail(s) : Tail(s)[k] # Head(s) /\ \E m \in DOMAIN s : Tail(s)[k] = s[m]
  BY <1>2, <1>4, <1>5
<1>7. \A k, l \in DOMAIN Tail(s) : Tail(s)[k] = Tail(s)[l] => k = l
  BY <1>3, <1>4
<1> QED
  BY <1>1, <1>6, <1>7

\* The queue of a want: each missing path once.
LEMMA QueueOfWant ==
    ASSUME NEW paths \in SeqOf(Paths, MaxWanted), NEW S,
           NEW q \in SeqOf(Paths, MaxWanted), InOrderOf(paths, S, q)
    PROVE  /\ q \in Seq(Paths)
           /\ \A k \in DOMAIN q : q[k] \in S
           /\ \A k, l \in DOMAIN q : q[k] = q[l] => k = l
<1>1. q \in Seq(Paths)
  BY LoaderAssumption, SeqDef DEF SeqOf
<1>2. DOMAIN q = 1..Len(q) /\ Len(q) \in Nat
  BY <1>1, LenProperties
<1>3. \A k \in DOMAIN q : q[k] \in S
  BY DEF InOrderOf, ToSet
<1>4. \A k, l \in DOMAIN q : k < l => q[k] # q[l]
  BY DEF InOrderOf
<1>5. \A k, l \in DOMAIN q : q[k] = q[l] => k = l
  BY <1>2, <1>4
<1> QED
  BY <1>1, <1>3, <1>5

-----------------------------------------------------------------------------
LEMMA CLInitInv == CLInit => CLInv
<1> SUFFICES ASSUME CLInit PROVE CLInv
  OBVIOUS
<1>1. CLTypeOK
  <2>1. queue \in Seq(Paths)
    BY EmptySeq DEF CLInit
  <2>2. ready \in [Paths -> {NotReady} \cup 0..clears] /\ image \in 0..clears
    BY DEF CLInit
  <2>3. clears \in 0..MaxClears /\ wants \in 0..MaxWants
    BY LoaderAssumption DEF CLInit
  <2>4. /\ stopping \in BOOLEAN /\ notified \in BOOLEAN
        /\ wanted \subseteq Paths
        /\ inFlight \in Paths \cup {NoPath} /\ decoding \in Paths \cup {NoPath}
    BY DEF CLInit
  <2>5. /\ worker \in {"starting", "waiting", "decoding", "gone"}
        /\ worker = "decoding" => decoding # NoPath
        /\ caller \in {"free", "notify", "join", "gone"}
    BY DEF CLInit
  <2> QED
    BY <2>1, <2>2, <2>3, <2>4, <2>5 DEF CLTypeOK
<1>2. FlightInv /\ NothingStale /\ NoDoubleWork
  BY EmptySeq DEF CLInit, FlightInv, NothingStale, NoDoubleWork, IsReady
<1> QED
  BY <1>1, <1>2 DEF CLInv

\* What wake.wait's predicate leads to, behind a store that keeps the invariant.
LEMMA DecideKeeps ==
    ASSUME CLTypeOK, FlightInv,
           \A p \in Paths : ready'[p] # NotReady => ready'[p] = clears,
           ready' \in [Paths -> {NotReady} \cup 0..clears],
           \A k, l \in DOMAIN queue : queue[k] = queue[l] => k = l,
           \A k \in DOMAIN queue : ready'[queue[k]] = NotReady,
           NEW flight \in {inFlight, NoPath},
           \A k \in DOMAIN queue : queue[k] # flight,
           flight = NoPath \/ worker # "decoding",
           Decide(flight),
           worker # "gone",
           stopping' = stopping, caller' = caller, clears' = clears, wants' = wants, wanted' = wanted,
           notified' \in BOOLEAN
    PROVE  CLInv'
<1> USE LoaderAssumption
<1>1. CASE queue # <<>> /\ ~stopping
  <2>1. /\ Head(queue) \in Paths
        /\ Tail(queue) \in Seq(Paths)
        /\ \A k \in DOMAIN Tail(queue) :
              Tail(queue)[k] # Head(queue) /\ \E m \in DOMAIN queue : Tail(queue)[k] = queue[m]
        /\ \A k, l \in DOMAIN Tail(queue) : Tail(queue)[k] = Tail(queue)[l] => k = l
    BY <1>1, TailOfDistinct DEF CLTypeOK
  <2>2. /\ worker' = "decoding"
        /\ decoding' = Head(queue)
        /\ inFlight' = Head(queue)
        /\ queue' = Tail(queue)
        /\ image' = clears
    BY <1>1 DEF Decide
  <2>3. CLTypeOK'
    BY <2>1, <2>2 DEF CLTypeOK
  <2>4. NoDoubleWork'
    BY <2>1, <2>2 DEF NoDoubleWork, IsReady
  <2>5. FlightInv' /\ NothingStale'
    BY <2>2 DEF FlightInv, NothingStale, IsReady
  <2> QED
    BY <2>3, <2>4, <2>5 DEF CLInv
<1>2. CASE queue = <<>> \/ stopping
  <2>1. /\ worker' \in {"gone", "waiting"}
        /\ inFlight' = flight
        /\ UNCHANGED <<queue, decoding, image>>
    BY <1>2 DEF Decide
  <2>2. CLTypeOK'
    BY <2>1 DEF CLTypeOK
  <2>3. NoDoubleWork'
    BY <2>1 DEF NoDoubleWork, IsReady
  <2>4. FlightInv' /\ NothingStale'
    BY <2>1 DEF FlightInv, NothingStale, IsReady
  <2> QED
    BY <2>2, <2>3, <2>4 DEF CLInv
<1> QED
  BY <1>1, <1>2

LEMMA CLNextInv == CLInv /\ [CLNext]_clVars => CLInv'
<1> SUFFICES ASSUME CLInv, [CLNext]_clVars PROVE CLInv'
  OBVIOUS
<1> USE LoaderAssumption
<1>0. CLTypeOK /\ FlightInv /\ NothingStale /\ NoDoubleWork
  BY DEF CLInv
<1>1. ASSUME NEW paths \in SeqOf(Paths, MaxWanted), want(paths) PROVE CLInv'
  <2>1. /\ queue' \in Seq(Paths)
        /\ \A k \in DOMAIN queue' : queue'[k] \in Missing(paths)
        /\ \A k, l \in DOMAIN queue' : queue'[k] = queue'[l] => k = l
    BY <1>1, QueueOfWant DEF want
  <2>2. /\ ready' = [p \in Paths |-> IF p \in ToSet(paths) THEN ready[p] ELSE NotReady]
        /\ inFlight' = inFlight
        /\ UNCHANGED <<stopping, workerVars, notified, clears>>
        /\ wants' = wants + 1 /\ wants < MaxWants
        /\ caller' = "notify"
        /\ wanted' = ToSet(paths)
    BY <1>1 DEF want
  <2>3. paths \in Seq(Paths)
    BY SeqDef DEF SeqOf
  <2>4. ToSet(paths) \subseteq Paths
    BY <2>3, LenProperties, ElementOfSeq DEF ToSet
  <2>5. CLTypeOK'
    BY <1>0, <2>1, <2>2, <2>4 DEF CLTypeOK, workerVars
  <2>6. \A k \in DOMAIN queue' : queue'[k] \in Paths /\ queue'[k] # inFlight /\ ready[queue'[k]] = NotReady
    BY <2>1, <2>4 DEF Missing, IsReady
  <2>7. NoDoubleWork'
    BY <2>1, <2>2, <2>6 DEF NoDoubleWork, IsReady
  <2>8. NothingStale' /\ FlightInv'
    BY <1>0, <2>2 DEF NothingStale, FlightInv, IsReady, workerVars
  <2> QED
    BY <2>5, <2>7, <2>8 DEF CLInv
<1>2. CASE Notify
  BY <1>0, <1>2
     DEF Notify, CLInv, CLTypeOK, FlightInv, NothingStale, NoDoubleWork, IsReady, loaderVars, workerVars
<1>3. ASSUME NEW p \in Paths, take(p) PROVE CLInv'
  <2>1. /\ ready' = [ready EXCEPT ![p] = NotReady]
        /\ UNCHANGED <<queue, inFlight, stopping, workerVars, notified, caller, clears, wants>>
        /\ wanted' = wanted \ {p}
    BY <1>3 DEF take
  <2>2. CLTypeOK'
    BY <1>0, <2>1 DEF CLTypeOK, workerVars
  <2>3. \A x \in Paths : ready'[x] = ready[x] \/ ready'[x] = NotReady
    BY <1>0, <2>1 DEF CLTypeOK
  <2>4. \A k \in DOMAIN queue : queue[k] \in Paths
    BY <1>0, LenProperties, ElementOfSeq DEF CLTypeOK
  <2>5. NothingStale' /\ FlightInv' /\ NoDoubleWork'
    BY <1>0, <2>1, <2>3, <2>4 DEF NothingStale, FlightInv, NoDoubleWork, IsReady, workerVars
  <2> QED
    BY <2>2, <2>5 DEF CLInv
<1>4. CASE clear
  <2>1. /\ queue' = <<>> /\ inFlight' = NoPath /\ wanted' = {}
        /\ ready' = [p \in Paths |-> NotReady]
        /\ clears' = clears + 1 /\ clears < MaxClears
        /\ UNCHANGED <<stopping, workerVars, notified, caller, wants>>
    BY <1>4 DEF clear
  <2>2. CLTypeOK'
    BY <1>0, <2>1, EmptySeq DEF CLTypeOK, workerVars
  <2>3. FlightInv'
    BY <1>0, <2>1 DEF FlightInv, CLTypeOK, workerVars
  <2>4. NothingStale' /\ NoDoubleWork'
    BY <2>1, EmptySeq DEF NothingStale, NoDoubleWork, IsReady
  <2> QED
    BY <2>2, <2>3, <2>4 DEF CLInv
<1>5. CASE Destroy
  <2>1. CLTypeOK'
    BY <1>0, <1>5, EmptySeq DEF Destroy, CLTypeOK, workerVars
  <2>2. FlightInv' /\ NothingStale' /\ NoDoubleWork'
    BY <1>0, <1>5, EmptySeq DEF Destroy, FlightInv, NothingStale, NoDoubleWork, IsReady, workerVars
  <2> QED
    BY <2>1, <2>2 DEF CLInv
<1>6. CASE Join
  BY <1>0, <1>6
     DEF Join, CLInv, CLTypeOK, FlightInv, NothingStale, NoDoubleWork, IsReady, loaderVars, workerVars
<1>7. ASSUME Begin \/ Wake PROVE CLInv'
  <2>1. /\ Decide(inFlight)
        /\ worker \in {"starting", "waiting"}
        /\ UNCHANGED <<ready, stopping, caller, clears, wants, wanted>>
        /\ notified' \in BOOLEAN
    BY <1>0, <1>7 DEF Begin, Wake, CLTypeOK
  <2> QED
    BY <1>0, <2>1, DecideKeeps DEF CLTypeOK, NothingStale, NoDoubleWork, IsReady
<1>8. CASE Decoded
  <2>1. /\ worker = "decoding"
        /\ ready' = IF inFlight = decoding THEN [ready EXCEPT ![decoding] = image] ELSE ready
        /\ Decide(NoPath)
        /\ UNCHANGED <<stopping, notified, caller, clears, wants, wanted>>
    BY <1>8 DEF Decoded
  <2>2. decoding \in Paths
    BY <1>0, <2>1 DEF CLTypeOK
  <2>3. \A k \in DOMAIN queue : queue[k] \in Paths
    BY <1>0, LenProperties, ElementOfSeq DEF CLTypeOK
  <2>4. ready' \in [Paths -> {NotReady} \cup 0..clears]
    BY <1>0, <2>1, <2>2 DEF CLTypeOK
  <2>5. \A p \in Paths : ready'[p] # NotReady => ready'[p] = clears
    BY <1>0, <2>1, <2>2 DEF CLTypeOK, FlightInv, NothingStale, IsReady
  <2>6. \A k \in DOMAIN queue : ready'[queue[k]] = NotReady /\ queue[k] # NoPath
    BY <1>0, <2>1, <2>2, <2>3 DEF CLTypeOK, NoDoubleWork, IsReady
  <2> QED
    BY <1>0, <2>1, <2>4, <2>5, <2>6, DecideKeeps DEF CLTypeOK, NoDoubleWork
<1>9. CASE UNCHANGED clVars
  BY <1>0, <1>9
     DEF clVars, CLInv, CLTypeOK, FlightInv, NothingStale, NoDoubleWork, IsReady, loaderVars, workerVars
<1> QED
  BY <1>1, <1>2, <1>3, <1>4, <1>5, <1>6, <1>7, <1>8, <1>9 DEF CLNext

\* The loader's state stays well typed: what is decoded is always a file.
THEOREM CLTypeCorrect == CLSpec => []CLTypeOK
<1>1. CLInv => CLTypeOK
  BY DEF CLInv
<1> QED
  BY <1>1, CLInitInv, CLNextInv, PTL DEF CLSpec

\* No picture begun before the last clear() is handed out (clear, run).
THEOREM ClearForgets == CLSpec => []NothingStale
<1>1. CLInv => NothingStale
  BY DEF CLInv
<1> QED
  BY <1>1, CLInitInv, CLNextInv, PTL DEF CLSpec

\* Nothing waits that is decoded or being decoded, and nothing waits twice (want).
THEOREM DecodesOnce == CLSpec => []NoDoubleWork
<1>1. CLInv => NoDoubleWork
  BY DEF CLInv
<1> QED
  BY <1>1, CLInitInv, CLNextInv, PTL DEF CLSpec
=============================================================================
