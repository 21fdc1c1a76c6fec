------------------------------- MODULE RaJob --------------------------------
(***************************************************************************)
(* The launcher's RetroArch install, update and remove                     *)
(* (src/code/evoui/ra_job.h, ra_job_service.cpp, and the progress screen   *)
(* that polls it): a runner works as a child process and tells where it is *)
(* in one line of a file, which it replaces by a rename.  The launcher     *)
(* follows the file, reaps the child and decides how the job ended.        *)
(***************************************************************************)
EXTENDS Integers

CONSTANTS
    MaxRuns,     \* jobs started in one behaviour
    Phases,      \* n of the runner's "phase i/n"
    MaxCrashes   \* times the launcher dies with a job running and is started again

ASSUME JobAssumption ==
    /\ MaxRuns \in Nat \ {0}
    /\ Phases \in Nat \ {0}
    /\ MaxCrashes \in Nat

Runs == 1..MaxRuns
NoRun == 0

EndLines == {"ok", "stopped", "error"}
Garbled == [kind |-> "garbled"]
PhaseLine(i) == [kind |-> "phase", phase |-> i]
EndLine(e) == [kind |-> "end", end |-> e]
NoFile == [kind |-> "none"]
Lines == {PhaseLine(i) : i \in 1..Phases} \cup {EndLine(e) : e \in EndLines} \cup {Garbled}

\* What a runner's process can leave: exit 0, 1, 3, or a signal's end.
ExitCodes == {0, 1, 3, -1}

VARIABLES
    job,       \* RaJobService::job_: state, progress.phase, ended, stopAsked
    op,        \* the operation of the progress screen: "install" (or update) or "remove"
    child,     \* RaJobService::pid_, by the run it is
    file,      \* the progress file
    read,      \* the content whose signature is signature_
    polling,   \* poll() is between readFile and reap
    runner,    \* each run's process: "none", "running", "ended" or "gone"
    exitCode,  \* how it ended
    termed,    \* SIGTERM reached it
    phase,     \* the phase it is in
    wrote,     \* the end line it wrote, or "none"
    started,   \* runs started
    alone,     \* history: no runner of an earlier launcher worked when the job started
    crashes    \* the launcher's crashes

jobVars == <<job, op, child, read, polling>>
runnerVars == <<runner, exitCode, termed, phase, wrote>>
vars == <<jobVars, file, runnerVars, started, alone, crashes>>

States == {"Idle", "Running", "Ok", "Stopped", "Error"}
Ended == {"Ok", "Stopped", "Error"}

Idle == [state |-> "Idle", phase |-> 0, ended |-> "none", stopAsked |-> FALSE]

TypeOK ==
    /\ job \in [state : States, phase : 0..Phases, ended : EndLines \cup {"none"}, stopAsked : BOOLEAN]
    /\ op \in {"install", "remove"}
    /\ child \in Runs \cup {NoRun}
    /\ file \in Lines \cup {NoFile}
    /\ read \in Lines \cup {NoFile}
    /\ polling \in BOOLEAN
    /\ runner \in [Runs -> {"none", "running", "ended", "gone"}]
    /\ exitCode \in [Runs -> ExitCodes]
    /\ termed \in [Runs -> BOOLEAN]
    /\ phase \in [Runs -> 1..Phases]
    /\ wrote \in [Runs -> EndLines \cup {"none"}]
    /\ started \in 0..MaxRuns
    /\ alone \in BOOLEAN
    /\ crashes \in 0..MaxCrashes
    /\ child # NoRun => runner[child] \in {"running", "ended"}

Init ==
    /\ job = Idle
    /\ op = "install"
    /\ child = NoRun
    /\ file = NoFile
    /\ read = NoFile
    /\ polling = FALSE
    /\ runner = [r \in Runs |-> "none"]
    /\ exitCode = [r \in Runs |-> 0]
    /\ termed = [r \in Runs |-> FALSE]
    /\ phase = [r \in Runs |-> 1]
    /\ wrote = [r \in Runs |-> "none"]
    /\ started = 0
    /\ alone = TRUE
    /\ crashes = 0

-----------------------------------------------------------------------------
(* The runner: outside this repository, by the contract of ra_job.h.       *)

WritePhase(r) ==
    /\ runner[r] = "running"
    /\ wrote[r] = "none"
    /\ file' = PhaseLine(phase[r])
    /\ UNCHANGED <<jobVars, runnerVars, started, alone, crashes>>

NextPhase(r) ==
    /\ runner[r] = "running"
    /\ wrote[r] = "none"
    /\ phase[r] < Phases
    /\ phase' = [phase EXCEPT ![r] = @ + 1]
    /\ UNCHANGED <<jobVars, file, runner, exitCode, termed, wrote, started, alone, crashes>>

\* end|stopped answers a SIGTERM; a remove ignores one.
WriteEnd(r) ==
    \E e \in EndLines :
        /\ runner[r] = "running"
        /\ wrote[r] = "none"
        /\ e = "stopped" => termed[r]
        /\ e = "ok" => phase[r] = Phases
        /\ wrote' = [wrote EXCEPT ![r] = e]
        /\ file' = EndLine(e)
        /\ UNCHANGED <<jobVars, runner, exitCode, termed, phase, started, alone, crashes>>

Finish(r) ==
    /\ runner[r] = "running"
    /\ wrote[r] # "none"
    /\ runner' = [runner EXCEPT ![r] = "ended"]
    /\ exitCode' = [exitCode EXCEPT
           ![r] = CASE wrote[r] = "ok" -> 0 [] wrote[r] = "stopped" -> 3 [] wrote[r] = "error" -> 1]
    /\ UNCHANGED <<jobVars, file, termed, phase, wrote, started, alone, crashes>>

\* It leaves with no end line: killed, not there to execute, or out of order.
Break(r) ==
    \E c \in ExitCodes :
        /\ runner[r] = "running"
        /\ wrote[r] = "none"
        /\ runner' = [runner EXCEPT ![r] = "ended"]
        /\ exitCode' = [exitCode EXCEPT ![r] = c]
        /\ UNCHANGED <<jobVars, file, termed, phase, wrote, started, alone, crashes>>

\* Something else writes the file while no runner does.
ForeignFile ==
    /\ job.state = "Running"
    /\ child # NoRun
    /\ wrote[child] = "none"
    /\ file' = Garbled
    /\ UNCHANGED <<jobVars, runnerVars, started, alone, crashes>>

-----------------------------------------------------------------------------
(* The launcher.                                                           *)

\* A mutant: the old run's file stays.
Start_KeepsFile(o) ==
    /\ job.state = "Idle"
    /\ started < MaxRuns
    /\ started' = started + 1
    /\ alone' = (\A r \in Runs : runner[r] # "running")
    /\ job' = [Idle EXCEPT !.state = "Running"]
    /\ op' = o
    /\ read' = NoFile
    /\ child' = started + 1
    /\ runner' = [runner EXCEPT ![started + 1] = "running"]
    /\ UNCHANGED <<file, polling, exitCode, termed, phase, wrote, crashes>>

\* RaJobService::startCommand: the old file goes before the fork.
Start(o) ==
    /\ job.state = "Idle"
    /\ started < MaxRuns
    /\ started' = started + 1
    /\ alone' = (\A r \in Runs : runner[r] # "running")
    /\ job' = [Idle EXCEPT !.state = "Running"]
    /\ op' = o
    /\ read' = NoFile
    /\ file' = NoFile
    /\ child' = started + 1
    /\ runner' = [runner EXCEPT ![started + 1] = "running"]
    /\ UNCHANGED <<polling, exitCode, termed, phase, wrote, crashes>>

\* This host has no runner, or, the old file gone by then, fork fails.
StartFails(o) ==
    /\ job.state = "Idle"
    /\ job' = [Idle EXCEPT !.state = "Error"]
    /\ op' = o
    /\ read' = NoFile
    /\ file' \in {file, NoFile}
    /\ UNCHANGED <<child, polling, runnerVars, started, alone, crashes>>

\* JobState::apply, with the file as it is now.
Applied(j) ==
    CASE file.kind = "phase" -> [j EXCEPT !.phase = file.phase]
      [] file.kind = "end"   -> [j EXCEPT !.ended = file.end]
      [] OTHER               -> j

\* poll(): readFile(false).  A new content may have the old signature (a
\* second within the clock's grain, the same size, a reused inode number).
ReadFile ==
    /\ job.state = "Running"
    /\ ~polling
    /\ polling' = TRUE
    /\ \/ /\ file # NoFile
          /\ file # read
          /\ read' = file
          /\ job' = Applied(job)
       \/ /\ file = NoFile \/ read # NoFile
          /\ UNCHANGED <<job, read>>
    /\ UNCHANGED <<op, child, file, runnerVars, started, alone, crashes>>

\* A mutant: the outcome is what was read while the runner ran.
AtExit_NotReread == job

\* reap(): the last line, read once more behind the child's end.
AtExit == Applied(job)

\* JobState::childExited
Outcome(j, code) ==
    CASE j.ended = "ok"      -> "Ok"
      [] j.ended = "stopped" -> "Stopped"
      [] j.ended = "error"   -> "Error"
      [] j.ended = "none"    -> IF code = 3 \/ (code = -1 /\ j.stopAsked) THEN "Stopped" ELSE "Error"

\* A mutant: pid_ is not reset.
Reap_KeepsPid ==
    /\ polling
    /\ polling' = FALSE
    /\ IF child # NoRun /\ runner[child] = "ended"
       THEN /\ runner' = [runner EXCEPT ![child] = "gone"]
            /\ job' = [AtExit EXCEPT !.state = Outcome(AtExit, exitCode[child])]
            /\ read' = file
       ELSE UNCHANGED <<runner, job, read>>
    /\ UNCHANGED <<child, op, file, exitCode, termed, phase, wrote, started, alone, crashes>>

\* A mutant: the child is waited for only when its end line is there.
Reap_AfterEndLine ==
    /\ polling
    /\ polling' = FALSE
    /\ IF child # NoRun /\ runner[child] = "ended" /\ job.ended # "none"
       THEN /\ child' = NoRun
            /\ runner' = [runner EXCEPT ![child] = "gone"]
            /\ job' = [AtExit EXCEPT !.state = Outcome(AtExit, exitCode[child])]
            /\ read' = file
       ELSE UNCHANGED <<child, runner, job, read>>
    /\ UNCHANGED <<op, file, exitCode, termed, phase, wrote, started, alone, crashes>>

\* poll(): reap(false).
Reap ==
    /\ polling
    /\ polling' = FALSE
    /\ IF child # NoRun /\ runner[child] = "ended"
       THEN /\ child' = NoRun
            /\ runner' = [runner EXCEPT ![child] = "gone"]
            /\ job' = [AtExit EXCEPT !.state = Outcome(AtExit, exitCode[child])]
            /\ read' = file
       ELSE UNCHANGED <<child, runner, job, read>>
    /\ UNCHANGED <<op, file, exitCode, termed, phase, wrote, started, alone, crashes>>

\* Circle and its "Stop?", or the window's end; a remove has neither.
Stop ==
    /\ job.state = "Running"
    /\ ~polling
    /\ ~job.stopAsked
    /\ op # "remove"
    /\ job' = [job EXCEPT !.stopAsked = TRUE]
    /\ termed' = [termed EXCEPT ![child] = TRUE]
    /\ UNCHANGED <<op, child, read, polling, file, runner, exitCode, phase, wrote, started, alone, crashes>>

\* The message is shown; the next job is another RaJobService.
Shown ==
    /\ job.state \in Ended
    /\ job' = Idle
    /\ UNCHANGED <<op, child, read, polling, file, runnerVars, started, alone, crashes>>

\* The launcher dies and is started again: its runner works on.
Crash ==
    /\ crashes < MaxCrashes
    /\ job.state = "Running"
    /\ crashes' = crashes + 1
    /\ job' = Idle
    /\ op' = "install"
    /\ child' = NoRun
    /\ read' = NoFile
    /\ polling' = FALSE
    /\ UNCHANGED <<file, runnerVars, started, alone>>

-----------------------------------------------------------------------------
Runner(r) == WritePhase(r) \/ NextPhase(r) \/ WriteEnd(r) \/ Finish(r) \/ Break(r)

Next ==
    \/ \E r \in Runs : Runner(r)
    \/ ForeignFile
    \/ \E o \in {"install", "remove"} : Start(o) \/ StartFails(o)
    \/ ReadFile
    \/ Reap
    \/ Stop
    \/ Shown
    \/ Crash

Spec == Init /\ [][Next]_vars

\* The screen polls every frame; a runner works until it ends.
FairSpec ==
    /\ Spec
    /\ WF_vars(ReadFile)
    /\ WF_vars(Reap)
    /\ \A r \in Runs : WF_vars(NextPhase(r)) /\ WF_vars(WriteEnd(r)) /\ WF_vars(Finish(r))

-----------------------------------------------------------------------------
(* What run r did, judged by all it wrote and how it left.                 *)
Verdict(r) ==
    CASE wrote[r] = "ok"      -> "Ok"
      [] wrote[r] = "stopped" -> "Stopped"
      [] wrote[r] = "error"   -> "Error"
      [] wrote[r] = "none"    -> IF exitCode[r] = 3 \/ (exitCode[r] = -1 /\ termed[r])
                                 THEN "Stopped" ELSE "Error"

(* A job ends as its own runner ended, whatever of the file was seen on    *)
(* the way and in whatever order the line and the exit came                *)
(* (RaJobService::reap, JobState::childExited), after a launcher's death   *)
(* too, as long as the runner that it left is gone when the job starts.    *)
OutcomeIsTheRunners ==
    [][\A r \in Runs : alone /\ child = r /\ job'.state \in Ended => job'.state = Verdict(r)]_vars

(* "An old run's last line must not read as this run's"                    *)
(* (RaJobService::startCommand): RetroArch is reported as installed, or    *)
(* removed, only by a run that said so.  Not so with a runner that is      *)
(* still at work when the job starts: no run checks this (see the README). *)
OkMeansDone ==
    [][\A r \in Runs : child = r /\ job'.state = "Ok" => wrote[r] = "ok"]_vars

(* The steps on the screen never go back within a job (startCommand,       *)
(* apply), again while no runner of an earlier launcher is at work.        *)
ProgressGoesForward ==
    [][alone /\ job.state = "Running" /\ job'.state = "Running" => job'.phase >= job.phase]_vars

(* The screen does not stay on a job for ever, however its runner left     *)
(* (GuiRaProgress::loop, poll).                                            *)
JobEnds == job.state = "Running" ~> job.state # "Running"
=============================================================================
