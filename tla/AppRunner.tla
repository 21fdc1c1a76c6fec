------------------------------ MODULE AppRunner -----------------------------
(***************************************************************************)
(* The runner of an App (payload/Autobleem/rc/app_env.sh, "The App's       *)
(* processes", and app_run.sh): a shell that starts the App's program with *)
(* a mark in its environment, waits for it and stops what it left.  An App *)
(* is every process that carries the mark, and everything below those.  A  *)
(* SIGTERM (the daemon's, ExitWatch.tla) makes the shell stop all of it; a *)
(* trap may run between any two commands, also inside a stop, and shares   *)
(* the variables of the stop it interrupts.                                *)
(* Time is left out: a wait that polls ends with its processes gone or     *)
(* with some left.  One listing of /proc is one step, and a process is     *)
(* gone as soon as it ends (the shell reaps its child in wait).            *)
(***************************************************************************)
EXTENDS Integers, SequencesExt

CONSTANTS
    MaxProcs,  \* processes an App makes
    MaxTerms   \* SIGTERMs the runner gets

ASSUME RunnerAssumption ==
    /\ MaxProcs \in Nat \ {0}
    /\ MaxTerms \in Nat

Procs == 1..MaxProcs
Program == 1     \* $AB_APP_PID
Runner == 0
InitProcess == -1

VARIABLES
    main,       \* app_run.sh: "start", "launched", "pid", "wait", "final", "done"; "killed" by the daemon
    calls,      \* the calls of ab_app_stop under way, the innermost last: where each is
    mode,       \* $ab_mode
    left,       \* $ab_left
    stopped,    \* $AB_APP_STOPPED
    pidKnown,   \* $AB_APP_PID is set
    pending,    \* a SIGTERM whose trap has not run
    terms,      \* SIGTERMs sent to the runner
    graceOver,  \* a stop asked for by SIGTERM has waited its second
    alive,      \* the App's processes that run
    born,       \* those that ever did
    parent,
    marked,     \* AB_APP_ID is in the environment
    killed,     \* those that were sent SIGKILL
    fresh       \* history: forked since the last listing

shellVars == <<main, calls, mode, left, stopped, pidKnown, pending, terms, graceOver>>
appVars == <<alive, born, parent, marked, killed, fresh>>
vars == <<shellVars, appVars>>

Places == {"list", "term", "grace", "relist", "kill", "last"}

TypeOK ==
    /\ main \in {"start", "launched", "pid", "wait", "final", "done", "killed"}
    /\ calls \in Seq(Places)
    /\ Len(calls) <= MaxTerms + 1
    /\ mode \in {"all", "leftOver"}
    /\ left \subseteq born
    /\ stopped \in BOOLEAN
    /\ pidKnown \in BOOLEAN
    /\ pending \in BOOLEAN
    /\ terms \in 0..MaxTerms
    /\ graceOver \in BOOLEAN
    /\ born \subseteq Procs
    /\ alive \subseteq born
    /\ parent \in [Procs -> Procs \cup {Runner, InitProcess}]
    /\ \A p \in alive : parent[p] \in alive \cup {Runner, InitProcess}
    /\ marked \subseteq born
    /\ killed \subseteq born
    /\ fresh \subseteq born

Init ==
    /\ main = "start"
    /\ calls = <<>>
    /\ mode = "all"
    /\ left = {}
    /\ stopped = FALSE
    /\ pidKnown = FALSE
    /\ pending = FALSE
    /\ terms = 0
    /\ graceOver = FALSE
    /\ alive = {}
    /\ born = {}
    /\ parent = [p \in Procs |-> InitProcess]
    /\ marked = {}
    /\ killed = {}
    /\ fresh = {}

-----------------------------------------------------------------------------
(* The App.                                                                *)

Fork(p) ==
    LET c == Cardinality(born) + 1
    IN  /\ p \in alive \ killed
        /\ c \in Procs
        /\ alive' = alive \cup {c}
        /\ born' = born \cup {c}
        /\ parent' = [parent EXCEPT ![c] = p]
        /\ marked' = IF p \in marked THEN marked \cup {c} ELSE marked
        /\ fresh' = fresh \cup {c}
        /\ UNCHANGED <<shellVars, killed>>

\* It executes something with an environment of its own.
ClearEnvironment(p) ==
    /\ p \in (alive \cap marked) \ killed
    /\ marked' = marked \ {p}
    /\ UNCHANGED <<shellVars, alive, born, parent, killed, fresh>>

\* By itself, of a SIGTERM it heeds, or of a SIGKILL once the kernel lets it go.
Exit(p) ==
    /\ p \in alive
    /\ alive' = alive \ {p}
    /\ parent' = [q \in Procs |-> IF parent[q] = p THEN InitProcess ELSE parent[q]]
    /\ UNCHANGED <<shellVars, born, marked, killed, fresh>>

-----------------------------------------------------------------------------
(* Signals to the runner.                                                  *)

Running == main \notin {"done", "killed"}

Term ==
    /\ Running
    /\ terms < MaxTerms
    /\ terms' = terms + 1
    /\ pending' = TRUE
    /\ UNCHANGED <<main, calls, mode, left, stopped, pidKnown, graceOver, appVars>>

\* The daemon's SIGKILL, 1.5 to 3 s after its SIGTERM.
KillRunner ==
    /\ Running
    /\ graceOver
    /\ main' = "killed"
    /\ calls' = <<>>
    /\ pending' = FALSE
    /\ parent' = [q \in Procs |-> IF parent[q] = Runner THEN InitProcess ELSE parent[q]]
    /\ UNCHANGED <<mode, left, stopped, pidKnown, terms, graceOver, alive, born, marked, killed, fresh>>

Stop(m) ==
    /\ calls' = Append(calls, "list")
    /\ mode' = m

\* ab_app_on_term, between two commands of the shell.
OnTerm ==
    /\ Running
    /\ pending
    /\ pending' = FALSE
    /\ stopped' = TRUE
    /\ IF pidKnown THEN Stop("all") ELSE UNCHANGED <<calls, mode>>
    /\ UNCHANGED <<main, left, pidKnown, terms, graceOver, appVars>>

-----------------------------------------------------------------------------
(* ab_app_start and ab_app_wait.                                           *)

InMain(place) == main = place /\ calls = <<>>

Launch ==
    /\ InMain("start")
    /\ main' = "launched"
    /\ alive' = {Program}
    /\ born' = {Program}
    /\ parent' = [parent EXCEPT ![Program] = Runner]
    /\ marked' = {Program}
    /\ UNCHANGED <<calls, mode, left, stopped, pidKnown, pending, terms, graceOver, killed, fresh>>

RecordPid ==
    /\ InMain("launched")
    /\ main' = "pid"
    /\ pidKnown' = TRUE
    /\ UNCHANGED <<calls, mode, left, stopped, pending, terms, graceOver, appVars>>

\* A mutant: a SIGTERM that came before the pid was known is forgotten.
Started_NotStopped ==
    /\ InMain("pid")
    /\ main' = "wait"
    /\ UNCHANGED <<calls, mode, left, stopped, pidKnown, pending, terms, graceOver, appVars>>

\* "a TERM that came before the pid was known"
Started ==
    /\ InMain("pid")
    /\ main' = "wait"
    /\ IF stopped THEN Stop("all") ELSE UNCHANGED <<calls, mode>>
    /\ UNCHANGED <<left, stopped, pidKnown, pending, terms, graceOver, appVars>>

\* wait goes on until the program is gone, whatever traps interrupt it.
ProgramEnded ==
    /\ InMain("wait")
    /\ Program \notin alive
    /\ main' = "final"
    /\ Stop("leftOver")
    /\ UNCHANGED <<left, stopped, pidKnown, pending, terms, graceOver, appVars>>

Leave ==
    /\ InMain("final")
    /\ main' = "done"
    /\ UNCHANGED <<calls, mode, left, stopped, pidKnown, pending, terms, graceOver, appVars>>

-----------------------------------------------------------------------------
(* ab_app_stop                                                             *)

At(place) == Running /\ calls # <<>> /\ Last(calls) = place
Go(place) == calls' = [calls EXCEPT ![Len(calls)] = place]
Return == calls' = Front(calls)

\* S and every running process below it: what is in every set that has S in it, and
\* the children of its members.
Below(S) ==
    {p \in Procs : \A T \in SUBSET Procs :
        (S \subseteq T /\ \A q \in alive : parent[q] \in T => q \in T) => p \in T}

\* A mutant: what the program started is looked for below it only.
Listed_BelowProgram == Below({Program}) \cap alive

\* ab_app_procs: the mark's, with "all" the program's, and everything below.
Listed == Below((marked \cap alive) \cup (IF mode = "all" THEN {Program} ELSE {})) \cap alive

List ==
    /\ At("list")
    /\ left' = Listed
    /\ fresh' = {}
    /\ IF Listed = {} THEN Return ELSE Go("term")
    /\ UNCHANGED <<main, mode, stopped, pidKnown, pending, terms, graceOver,
                   alive, born, parent, marked, killed>>

\* A mutant: the TERM goes to the process group, the runner's own included.
SendTerm_Group ==
    /\ At("term")
    /\ Go("grace")
    /\ pending' = TRUE
    /\ UNCHANGED <<main, mode, left, stopped, pidKnown, terms, graceOver, appVars>>

SendTerm ==
    /\ At("term")
    /\ Go("grace")
    /\ UNCHANGED <<main, mode, left, stopped, pidKnown, pending, terms, graceOver, appVars>>

\* ab_app_live: the known ones only while waiting.
Poll ==
    /\ At("grace") \/ At("last")
    /\ left' = left \cap alive
    /\ left' # left
    /\ UNCHANGED <<main, calls, mode, stopped, pidKnown, pending, terms, graceOver, appVars>>

GraceEnds ==
    /\ At("grace")
    /\ Go("relist")
    /\ graceOver' = (graceOver \/ stopped)
    /\ UNCHANGED <<main, mode, left, stopped, pidKnown, pending, terms, appVars>>

\* The whole App again before the KILL.
Relist ==
    /\ At("relist")
    /\ left' = Listed
    /\ fresh' = {}
    /\ IF Listed = {} THEN Return ELSE Go("kill")
    /\ UNCHANGED <<main, mode, stopped, pidKnown, pending, terms, graceOver,
                   alive, born, parent, marked, killed>>

SendKill ==
    /\ At("kill")
    /\ killed' = killed \cup (left \cap alive)
    /\ Go("last")
    /\ UNCHANGED <<main, mode, left, stopped, pidKnown, pending, terms, graceOver,
                   alive, born, parent, marked, fresh>>

\* All gone, or 2 s over.
LastEnds ==
    /\ At("last")
    /\ Return
    /\ UNCHANGED <<main, mode, left, stopped, pidKnown, pending, terms, graceOver, appVars>>

-----------------------------------------------------------------------------
Shell ==
    \/ OnTerm
    \/ Launch
    \/ RecordPid
    \/ Started
    \/ ProgramEnded
    \/ Leave
    \/ List
    \/ SendTerm
    \/ Poll
    \/ GraceEnds
    \/ Relist
    \/ SendKill
    \/ LastEnds

Next ==
    \/ \E p \in Procs : Fork(p) \/ ClearEnvironment(p) \/ Exit(p)
    \/ Term
    \/ KillRunner
    \/ Shell

Spec == Init /\ [][Next]_vars

\* The shell runs on, and the kernel lets a killed process go in the end.
FairSpec ==
    /\ Spec
    /\ WF_vars(Shell)
    /\ \A p \in Procs : WF_vars(p \in killed /\ Exit(p))

-----------------------------------------------------------------------------
(* "The launcher (which waits for the runner) never comes back while any   *)
(* of it runs" (app_env.sh): when the runner has left, the program is gone *)
(* and whatever carries the mark is held in the kernel with its SIGKILL.   *)
(* The code cannot promise more: what a process forks between the last     *)
(* listing and the signal is not in the list (fresh), and a process that   *)
(* cleared its environment and lost its parent is in none.                 *)
LeavesNothing ==
    main = "done" => Program \notin alive /\ marked \cap alive \subseteq killed \cup fresh

(* A SIGTERM ends the App and the runner, at whatever moment it comes, also *)
(* before the runner knows the program's pid (ab_app_on_term, ab_app_start). *)
TermEndsIt == pending ~> ~Running
=============================================================================
