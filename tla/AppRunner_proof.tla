--------------------------- MODULE AppRunner_proof --------------------------
(***************************************************************************)
(* What the App's runner leaves behind, for any number of processes and of *)
(* SIGTERMs, which may come inside the stops they interrupt.               *)
(***************************************************************************)
EXTENDS AppRunner, FiniteSetTheorems, SequenceTheorems, TLAPS

\* Every call but the first is a trap's, and a trap is a SIGTERM that was sent.
DepthInv ==
    /\ Len(calls) <= terms + 1
    /\ pending => terms >= 1 /\ Len(calls) <= terms

\* Nothing but the launch makes a process out of nothing.
BornInv ==
    /\ main = "start" => born = {}
    /\ main \in {"final", "done"} => Program \notin alive

\* What carries the mark is held in the kernel with its SIGKILL, or was forked
\* since the last listing.
Settled == marked \cap alive \subseteq killed \cup fresh

\* So it is when the innermost stop has sent its SIGKILL, and will be when it is
\* about to; what it returns to is no worse off.
StopInv ==
    /\ calls # <<>> /\ Last(calls) = "kill" => marked \cap alive \subseteq left \cup killed \cup fresh
    /\ calls # <<>> /\ Last(calls) = "last" => Settled
    /\ main = "done" \/ (main = "final" /\ calls = <<>>) => Settled

IInv == TypeOK /\ DepthInv /\ BornInv /\ StopInv

\* TypeOK's flags and the rest of IInv: the provers take the two apart.
Flags ==
    /\ stopped \in BOOLEAN
    /\ pidKnown \in BOOLEAN
    /\ pending \in BOOLEAN
    /\ graceOver \in BOOLEAN

Values ==
    /\ main \in {"start", "launched", "pid", "wait", "final", "done", "killed"}
    /\ calls \in Seq(Places)
    /\ Len(calls) <= MaxTerms + 1
    /\ mode \in {"all", "leftOver"}
    /\ left \subseteq born
    /\ terms \in 0..MaxTerms
    /\ born \subseteq Procs
    /\ alive \subseteq born
    /\ parent \in [Procs -> Procs \cup {Runner, InitProcess}]
    /\ \A p \in alive : parent[p] \in alive \cup {Runner, InitProcess}
    /\ marked \subseteq born
    /\ killed \subseteq born
    /\ fresh \subseteq born

Known == Values /\ DepthInv /\ BornInv /\ StopInv

-----------------------------------------------------------------------------
\* IInv is its two halves.
LEMMA Halves == (IInv <=> Flags /\ Known) /\ (IInv' <=> Flags' /\ Known')
  BY Zenon DEF IInv, Known, Flags, Values, TypeOK

\* A listing has every process that runs and carries the mark, and lists only such that run.
LEMMA ListedHasMarked ==
    ASSUME Values
    PROVE  marked \cap alive \subseteq Listed /\ Listed \subseteq alive
BY DEF Values, Listed, Below

\* A call's next place, its call and its return.
LEMMA GoSteps ==
    ASSUME NEW s \in Seq(Places), s # <<>>, NEW place \in Places
    PROVE  LET t == [s EXCEPT ![Len(s)] = place]
           IN  /\ t \in Seq(Places)
               /\ t # <<>>
               /\ Len(t) = Len(s)
               /\ Last(t) = place
<1> DEFINE t == [s EXCEPT ![Len(s)] = place]
<1>1. Len(s) \in Nat \ {0} /\ Len(s) \in DOMAIN s /\ DOMAIN s = 1..Len(s)
  BY EmptySeq
<1>2. t \in Seq(Places) /\ Len(t) = Len(s)
  BY <1>1
<1>3. t[Len(s)] = place
  BY <1>1
<1>4. t # <<>>
  BY <1>1, <1>2
<1> HIDE DEF t
<1>5. Last(t) = place
  BY <1>2, <1>3 DEF Last
<1> QED BY <1>2, <1>4, <1>5 DEF t

LEMMA CallSteps ==
    ASSUME NEW s \in Seq(Places)
    PROVE  LET t == Append(s, "list")
           IN  /\ t \in Seq(Places)
               /\ t # <<>>
               /\ Len(t) = Len(s) + 1
               /\ Last(t) = "list"
<1>1. "list" \in Places
  BY DEF Places
<1> QED BY <1>1, AppendProperties DEF Last

LEMMA ReturnSteps ==
    ASSUME NEW s \in Seq(Places), s # <<>>
    PROVE  Front(s) \in Seq(Places) /\ Len(Front(s)) = Len(s) - 1
<1>1. Len(s) \in Nat \ {0} /\ \A i \in 1..(Len(s) - 1) : s[i] \in Places
  BY EmptySeq
<1>2. 1 \in Int /\ Len(s) - 1 \in Int
  BY <1>1
<1>3. /\ SubSeq(s, 1, Len(s) - 1) \in Seq(Places)
      /\ Len(SubSeq(s, 1, Len(s) - 1)) = IF 1 <= Len(s) - 1 THEN Len(s) - 1 - 1 + 1 ELSE 0
  BY <1>1, <1>2, SubSeqProperties
<1>4. \A n \in Nat \ {0} : (IF 1 <= n - 1 THEN n - 1 - 1 + 1 ELSE 0) = n - 1
  OBVIOUS
<1>5. Len(SubSeq(s, 1, Len(s) - 1)) = Len(s) - 1
  BY <1>1, <1>3, <1>4, Zenon
<1> QED BY <1>3, <1>5, Zenon DEF Front

\* A new process is none that there was.
LEMMA ForkIsNew ==
    ASSUME Values, NEW p \in Procs, Fork(p)
    PROVE  \E c \in Procs \ {Program} :
              /\ alive' = alive \cup {c}
              /\ born' = born \cup {c}
              /\ parent' = [parent EXCEPT ![c] = p]
              /\ marked' = IF p \in marked THEN marked \cup {c} ELSE marked
              /\ fresh' = fresh \cup {c}
              /\ p \in alive
              /\ UNCHANGED <<shellVars, killed>>
<1>0. 1 \in Int /\ MaxProcs \in Int
  BY RunnerAssumption
<1>1. IsFiniteSet(Procs) /\ born \subseteq Procs
  BY <1>0, FS_Interval DEF Procs, Values
<1>2. IsFiniteSet(born)
  BY <1>1, FS_Subset
<1>3. born # {}
  BY DEF Fork, Values
<1>4. Cardinality(born) \in Nat \ {0}
  BY <1>2, <1>3, FS_CardinalityType, FS_EmptySet
<1>5. Cardinality(born) + 1 # Program
  BY <1>4 DEF Program
<1>6. Cardinality(born) + 1 \in Procs \ {Program}
  BY <1>5 DEF Fork
<1> QED BY <1>6 DEF Fork

-----------------------------------------------------------------------------
LEMMA InitIInv == Init => IInv
<1> SUFFICES ASSUME Init PROVE Flags /\ Known
  BY Halves
<1>1. calls = <<>> /\ calls \in Seq(Places) /\ Len(calls) = 0
  BY DEF Init
<1>2. Flags /\ Values
  <2>1. Flags
    BY <1>1, Zenon DEF Flags, Init, Procs, Program
  <2>2. Values
    BY <1>1, RunnerAssumption DEF Values, Init, Procs, Program
  <2> QED BY <2>1, <2>2
<1>3. DepthInv /\ BornInv /\ StopInv
  BY <1>1 DEF Init, DepthInv, BornInv, StopInv, Settled
<1> QED BY <1>2, <1>3 DEF Known

\* The App's own steps.
LEMMA AppStep ==
    ASSUME IInv, NEW p \in Procs, Fork(p) \/ ClearEnvironment(p) \/ Exit(p)
    PROVE  Flags' /\ Known'
<1> USE DEF shellVars
<1>0. Flags /\ Values /\ DepthInv /\ BornInv /\ StopInv
  BY Halves DEF Known
<1>n. Len(calls) \in Nat /\ terms \in Nat
  BY <1>0, RunnerAssumption DEF Values
<1>1. CASE Fork(p)
  <2>1. PICK c \in Procs \ {Program} :
              /\ alive' = alive \cup {c}
              /\ born' = born \cup {c}
              /\ parent' = [parent EXCEPT ![c] = p]
              /\ marked' = IF p \in marked THEN marked \cup {c} ELSE marked
              /\ fresh' = fresh \cup {c}
              /\ p \in alive
              /\ UNCHANGED <<shellVars, killed>>
    BY <1>0, <1>1, ForkIsNew
  <2>2. Flags' /\ Values'
    <3>1. Flags'
      BY <1>0, <2>1, Zenon DEF Flags
    <3>2. Values'
      BY <1>0, <2>1 DEF Values
    <3> QED BY <3>1, <3>2
  <2>3. DepthInv' /\ BornInv'
    BY <1>0, <2>1 DEF DepthInv, BornInv, Values
  <2>4. StopInv'
    BY <1>0, <2>1 DEF StopInv, Settled
  <2> QED BY <2>2, <2>3, <2>4 DEF Known
<1>2. CASE ClearEnvironment(p)
  <2>1. Flags' /\ Values'
    <3>1. Flags'
      BY <1>0, <1>2, Zenon DEF Flags, ClearEnvironment
    <3>2. Values'
      BY <1>0, <1>2 DEF Values, ClearEnvironment
    <3> QED BY <3>1, <3>2
  <2>2. DepthInv' /\ BornInv' /\ StopInv'
    <3>1. DepthInv'
      BY <1>0, <1>2, <1>n DEF DepthInv, ClearEnvironment
    <3>2. BornInv'
      BY <1>0, <1>2 DEF BornInv, ClearEnvironment
    <3>3. StopInv'
      BY <1>0, <1>2 DEF StopInv, Settled, ClearEnvironment
    <3> QED BY <3>1, <3>2, <3>3
  <2> QED BY <2>1, <2>2 DEF Known
<1>3. CASE Exit(p)
  <2>1. Flags' /\ Values'
    <3>1. Flags'
      BY <1>0, <1>3, Zenon DEF Flags, Exit
    <3>2. Values'
      BY <1>0, <1>3 DEF Values, Exit
    <3> QED BY <3>1, <3>2
  <2>2. DepthInv' /\ BornInv' /\ StopInv'
    <3>1. DepthInv'
      BY <1>0, <1>3, <1>n DEF DepthInv, Exit
    <3>2. BornInv'
      BY <1>0, <1>3 DEF BornInv, Exit
    <3>3. StopInv'
      BY <1>0, <1>3 DEF StopInv, Settled, Exit
    <3> QED BY <3>1, <3>2, <3>3
  <2> QED BY <2>1, <2>2 DEF Known
<1> QED BY <1>1, <1>2, <1>3

\* The signals to the runner, and its trap.
LEMMA SignalStep ==
    ASSUME IInv, Term \/ KillRunner \/ OnTerm
    PROVE  Flags' /\ Known'
<1> USE DEF shellVars, appVars, Running
<1>0. Flags /\ Values /\ DepthInv /\ BornInv /\ StopInv
  BY Halves DEF Known
<1>n. Len(calls) \in Nat /\ terms \in Nat
  BY <1>0, RunnerAssumption DEF Values
<1>1. CASE Term
  <2>1. Flags' /\ Values'
    <3>1. Flags'
      BY <1>0, <1>1, Zenon DEF Flags, Term
    <3>2. Values'
      BY <1>0, <1>1, <1>n, RunnerAssumption DEF Values, Term
    <3> QED BY <3>1, <3>2
  <2>2. DepthInv' /\ BornInv' /\ StopInv'
    <3>1. DepthInv'
      BY <1>0, <1>1, <1>n DEF DepthInv, Term
    <3>2. BornInv'
      BY <1>0, <1>1 DEF BornInv, Term
    <3>3. StopInv'
      BY <1>0, <1>1 DEF StopInv, Settled, Term
    <3> QED BY <3>1, <3>2, <3>3
  <2> QED BY <2>1, <2>2 DEF Known
<1>2. CASE KillRunner
  <2>1. calls' = <<>> /\ calls' \in Seq(Places) /\ Len(calls') = 0
    BY <1>2 DEF KillRunner
  <2>2. Flags' /\ Values'
    <3>1. Flags'
      BY <1>0, <1>2, <2>1, Zenon DEF Flags, KillRunner
    <3>2. Values'
      BY <1>0, <1>2, <2>1, RunnerAssumption DEF Values, KillRunner
    <3> QED BY <3>1, <3>2
  <2>3. DepthInv' /\ BornInv' /\ StopInv'
    <3>1. DepthInv'
      BY <1>0, <1>2, <2>1, <1>n DEF DepthInv, KillRunner
    <3>2. BornInv'
      BY <1>0, <1>2, <2>1 DEF BornInv, KillRunner
    <3>3. StopInv'
      BY <1>0, <1>2, <2>1 DEF StopInv, Settled, KillRunner
    <3> QED BY <3>1, <3>2, <3>3
  <2> QED BY <2>2, <2>3 DEF Known
<1>3. CASE OnTerm
  <2>1. CASE pidKnown
    <3>1. /\ calls' \in Seq(Places) /\ calls' # <<>>
          /\ Len(calls') = Len(calls) + 1 /\ Last(calls') = "list"
      BY <1>0, <1>3, <2>1, CallSteps DEF OnTerm, Stop, Values
    <3>2. Len(calls) + 1 <= terms + 1 /\ terms \in 0..MaxTerms
      BY <1>0, <1>n, <1>3 DEF OnTerm, DepthInv, Values
    <3>3. Flags' /\ Values'
      <4>1. Flags'
        BY <1>0, <1>3, <2>1, <3>1, <3>2, Zenon DEF Flags, OnTerm, Stop
      <4>2. Values'
        BY <1>0, <1>3, <2>1, <3>1, <3>2, RunnerAssumption DEF Values, OnTerm, Stop
      <4> QED BY <4>1, <4>2
    <3>4. DepthInv' /\ BornInv' /\ StopInv'
      <4>1. DepthInv'
        BY <1>0, <1>3, <2>1, <3>1, <3>2, <1>n DEF DepthInv, OnTerm, Stop
      <4>2. BornInv'
        BY <1>0, <1>3, <2>1, <3>1, <3>2 DEF BornInv, OnTerm, Stop
      <4>3. StopInv'
        BY <1>0, <1>3, <2>1, <3>1, <3>2 DEF StopInv, Settled, OnTerm, Stop
      <4> QED BY <4>1, <4>2, <4>3
    <3> QED BY <3>3, <3>4 DEF Known
  <2>2. CASE ~pidKnown
    <3>1. Flags' /\ Values'
      <4>1. Flags'
        BY <1>0, <1>3, <2>2, Zenon DEF Flags, OnTerm
      <4>2. Values'
        BY <1>0, <1>3, <2>2 DEF Values, OnTerm
      <4> QED BY <4>1, <4>2
    <3>2. DepthInv' /\ BornInv' /\ StopInv'
      <4>1. DepthInv'
        BY <1>0, <1>3, <2>2, <1>n DEF DepthInv, OnTerm
      <4>2. BornInv'
        BY <1>0, <1>3, <2>2 DEF BornInv, OnTerm
      <4>3. StopInv'
        BY <1>0, <1>3, <2>2 DEF StopInv, Settled, OnTerm
      <4> QED BY <4>1, <4>2, <4>3
    <3> QED BY <3>1, <3>2 DEF Known
  <2> QED BY <2>1, <2>2
<1> QED BY <1>1, <1>2, <1>3

\* The script itself: from the start of the program to the end.
LEMMA ScriptStep ==
    ASSUME IInv, Launch \/ RecordPid \/ Started \/ ProgramEnded \/ Leave
    PROVE  Flags' /\ Known'
<1> USE DEF shellVars, appVars, InMain
<1>0. Flags /\ Values /\ DepthInv /\ BornInv /\ StopInv /\ calls = <<>> /\ Len(calls) = 0
  BY Halves DEF Known, Launch, RecordPid, Started, ProgramEnded, Leave
<1>n. Len(calls) \in Nat /\ terms \in Nat
  BY <1>0, RunnerAssumption DEF Values
<1>1. CASE Launch
  <2>1. born = {} /\ left = {} /\ killed = {} /\ fresh = {} /\ Program \in Procs
    BY <1>0, <1>1, RunnerAssumption DEF Launch, BornInv, Values, Procs, Program
  <2>2. Flags' /\ Values'
    <3>1. Flags'
      BY <1>0, <1>1, <2>1, Zenon DEF Flags, Launch
    <3>2. Values'
      BY <1>0, <1>1, <2>1 DEF Values, Launch
    <3> QED BY <3>1, <3>2
  <2>3. DepthInv' /\ BornInv' /\ StopInv'
    <3>1. DepthInv'
      BY <1>0, <1>1, <1>n DEF DepthInv, Launch
    <3>2. BornInv'
      BY <1>0, <1>1 DEF BornInv, Launch
    <3>3. StopInv'
      BY <1>0, <1>1 DEF StopInv, Settled, Launch
    <3> QED BY <3>1, <3>2, <3>3
  <2> QED BY <2>2, <2>3 DEF Known
<1>2. CASE RecordPid
  <2>1. Flags' /\ Values'
    <3>1. Flags'
      BY <1>0, <1>2, Zenon DEF Flags, RecordPid
    <3>2. Values'
      BY <1>0, <1>2 DEF Values, RecordPid
    <3> QED BY <3>1, <3>2
  <2>2. DepthInv' /\ BornInv' /\ StopInv'
    <3>1. DepthInv'
      BY <1>0, <1>2, <1>n DEF DepthInv, RecordPid
    <3>2. BornInv'
      BY <1>0, <1>2 DEF BornInv, RecordPid
    <3>3. StopInv'
      BY <1>0, <1>2 DEF StopInv, Settled, RecordPid
    <3> QED BY <3>1, <3>2, <3>3
  <2> QED BY <2>1, <2>2 DEF Known
<1>3. ASSUME calls' = Append(calls, "list"),
             Started \/ ProgramEnded
      PROVE  Flags' /\ Known'
  <2>1. /\ calls' \in Seq(Places) /\ calls' # <<>>
        /\ Len(calls') = Len(calls) + 1 /\ Last(calls') = "list"
    BY <1>0, <1>3, CallSteps DEF Values
  <2>2. Flags' /\ Values'
    <3>1. Flags'
      BY <1>0, <1>3, <2>1, Zenon DEF Flags, Started, ProgramEnded, Stop
    <3>2. Values'
      BY <1>0, <1>3, <2>1, RunnerAssumption DEF Values, Started, ProgramEnded, Stop
    <3> QED BY <3>1, <3>2
  <2>3. DepthInv' /\ BornInv' /\ StopInv'
    <3>1. DepthInv'
      BY <1>0, <1>3, <2>1, <1>n DEF DepthInv, Started, ProgramEnded, Stop
    <3>2. BornInv'
      BY <1>0, <1>3, <2>1 DEF BornInv, Started, ProgramEnded, Stop
    <3>3. StopInv'
      BY <1>0, <1>3, <2>1 DEF StopInv, Settled, Started, ProgramEnded, Stop
    <3> QED BY <3>1, <3>2, <3>3
  <2> QED BY <2>2, <2>3 DEF Known
<1>4. CASE Started /\ ~stopped
  <2>1. Flags' /\ Values'
    <3>1. Flags'
      BY <1>0, <1>4, Zenon DEF Flags, Started
    <3>2. Values'
      BY <1>0, <1>4 DEF Values, Started
    <3> QED BY <3>1, <3>2
  <2>2. DepthInv' /\ BornInv' /\ StopInv'
    <3>1. DepthInv'
      BY <1>0, <1>4, <1>n DEF DepthInv, Started
    <3>2. BornInv'
      BY <1>0, <1>4 DEF BornInv, Started
    <3>3. StopInv'
      BY <1>0, <1>4 DEF StopInv, Settled, Started
    <3> QED BY <3>1, <3>2, <3>3
  <2> QED BY <2>1, <2>2 DEF Known
<1>5. CASE Leave
  <2>1. Flags' /\ Values'
    <3>1. Flags'
      BY <1>0, <1>5, Zenon DEF Flags, Leave
    <3>2. Values'
      BY <1>0, <1>5 DEF Values, Leave
    <3> QED BY <3>1, <3>2
  <2>2. DepthInv' /\ BornInv' /\ StopInv'
    <3>1. DepthInv'
      BY <1>0, <1>5, <1>n DEF DepthInv, Leave
    <3>2. BornInv'
      BY <1>0, <1>5 DEF BornInv, Leave
    <3>3. StopInv'
      BY <1>0, <1>5 DEF StopInv, Settled, Leave
    <3> QED BY <3>1, <3>2, <3>3
  <2> QED BY <2>1, <2>2 DEF Known
<1> QED BY <1>1, <1>2, <1>3, <1>4, <1>5 DEF Started, ProgramEnded, Stop

\* A stop that goes on to a place where nothing is promised yet.
LEMMA GoesOn ==
    ASSUME IInv, main # "done", calls # <<>>, NEW place \in Places \ {"kill", "last"}, Go(place),
           UNCHANGED <<main, mode, stopped, pidKnown, pending, terms, alive, born, parent, marked, killed>>,
           left' \subseteq born, graceOver' \in BOOLEAN, fresh' \subseteq born
    PROVE  Flags' /\ Known'
<1>0. Flags /\ Values /\ DepthInv /\ BornInv /\ StopInv
  BY Halves DEF Known
<1>n. Len(calls) \in Nat /\ terms \in Nat
  BY <1>0, RunnerAssumption DEF Values
<1>1. calls' \in Seq(Places) /\ calls' # <<>> /\ Len(calls') = Len(calls) /\ Last(calls') = place
  BY <1>0, GoSteps DEF Go, Values
<1>2. Flags' /\ Values'
  <2>1. Flags'
    BY <1>0, <1>1, Zenon DEF Flags
  <2>2. Values'
    BY <1>0, <1>1, RunnerAssumption DEF Values
  <2> QED BY <2>1, <2>2
<1>3. DepthInv' /\ BornInv' /\ StopInv'
  <2>1. DepthInv'
    BY <1>0, <1>1, <1>n DEF DepthInv
  <2>2. BornInv'
    BY <1>0, <1>1 DEF BornInv
  <2>3. StopInv'
    BY <1>0, <1>1 DEF StopInv, Settled
  <2> QED BY <2>1, <2>2, <2>3
<1> QED BY <1>2, <1>3 DEF Known

\* A stop that returns when the marked processes are settled.
LEMMA Returns ==
    ASSUME IInv, calls # <<>>, Return, Settled',
           UNCHANGED <<main, mode, stopped, pidKnown, pending, terms, graceOver, alive, born, parent, marked, killed>>,
           left' \subseteq born, fresh' \subseteq born
    PROVE  Flags' /\ Known'
<1>0. Flags /\ Values /\ DepthInv /\ BornInv /\ StopInv
  BY Halves DEF Known
<1>n. Len(calls) \in Nat /\ terms \in Nat
  BY <1>0, RunnerAssumption DEF Values
<1>1. calls' \in Seq(Places) /\ Len(calls') = Len(calls) - 1
  BY <1>0, ReturnSteps DEF Return, Values
<1>2. Flags' /\ Values'
  <2>1. Flags'
    BY <1>0, <1>1, Zenon DEF Flags
  <2>2. Values'
    BY <1>0, <1>1, RunnerAssumption DEF Values
  <2> QED BY <2>1, <2>2
<1>3. DepthInv' /\ BornInv'
  BY <1>0, <1>1, <1>n DEF DepthInv, BornInv
<1>4. StopInv'
  BY DEF StopInv, Settled
<1> QED BY <1>2, <1>3, <1>4 DEF Known

\* The steps of a stop.
LEMMA StopStep ==
    ASSUME IInv, List \/ SendTerm \/ Poll \/ GraceEnds \/ Relist \/ SendKill \/ LastEnds
    PROVE  Flags' /\ Known'
<1> USE DEF At, Running, appVars
<1>0. Flags /\ Values /\ DepthInv /\ BornInv /\ StopInv /\ calls # <<>> /\ main # "done"
  BY Halves DEF Known, List, SendTerm, Poll, GraceEnds, Relist, SendKill, LastEnds
<1>n. Len(calls) \in Nat /\ terms \in Nat
  BY <1>0, RunnerAssumption DEF Values
<1>1. Listed \subseteq alive /\ marked \cap alive \subseteq Listed /\ alive \subseteq born
  BY <1>0, ListedHasMarked DEF Values
<1>2. {"term", "grace", "relist"} \subseteq Places \ {"kill", "last"} /\ {"kill", "last"} \subseteq Places
  BY DEF Places
<1>g. graceOver' = graceOver => graceOver' \in BOOLEAN
  BY <1>0, Zenon DEF Flags
<1>3. CASE List
  <2>1. CASE Listed = {}
    BY <1>0, <1>1, <1>3, <2>1, Returns DEF List, Settled
  <2>2. CASE Listed # {}
    BY <1>0, <1>1, <1>2, <1>g, <1>3, <2>2, GoesOn DEF List, Values
  <2> QED BY <2>1, <2>2
<1>4. CASE SendTerm
  BY <1>0, <1>2, <1>g, <1>4, GoesOn DEF SendTerm, Values
<1>5. CASE Poll
  <2>1. Last(calls) # "kill"
    BY <1>5 DEF Poll
  <2>2. Flags' /\ Values'
    <3>1. Flags'
      BY <1>0, <1>5, Zenon DEF Flags, Poll
    <3>2. Values'
      BY <1>0, <1>5 DEF Values, Poll
    <3> QED BY <3>1, <3>2
  <2>3. DepthInv' /\ BornInv' /\ StopInv'
    <3>1. DepthInv'
      BY <1>0, <1>5, <2>1, <1>n DEF DepthInv, Poll
    <3>2. BornInv'
      BY <1>0, <1>5, <2>1 DEF BornInv, Poll
    <3>3. StopInv'
      BY <1>0, <1>5, <2>1 DEF StopInv, Settled, Poll
    <3> QED BY <3>1, <3>2, <3>3
  <2> QED BY <2>2, <2>3 DEF Known
<1>6. CASE GraceEnds
  BY <1>0, <1>2, <1>6, GoesOn DEF GraceEnds, Values
<1>7. CASE Relist
  <2>1. CASE Listed = {}
    BY <1>0, <1>1, <1>7, <2>1, Returns DEF Relist, Settled
  <2>2. CASE Listed # {}
    <3>1. calls' \in Seq(Places) /\ calls' # <<>> /\ Len(calls') = Len(calls) /\ Last(calls') = "kill"
      BY <1>0, <1>2, <1>7, <2>2, GoSteps DEF Relist, Go, Values
    <3>2. Flags' /\ Values'
      <4>1. Flags'
        BY <1>0, <1>1, <1>7, <3>1, Zenon DEF Flags, Relist
      <4>2. Values'
        BY <1>0, <1>1, <1>7, <3>1 DEF Values, Relist
      <4> QED BY <4>1, <4>2
    <3>3. DepthInv' /\ BornInv' /\ StopInv'
      <4>1. DepthInv'
        BY <1>0, <1>1, <1>7, <3>1, <1>n DEF DepthInv, Relist
      <4>2. BornInv'
        BY <1>0, <1>1, <1>7, <3>1 DEF BornInv, Relist
      <4>3. StopInv'
        BY <1>0, <1>1, <1>7, <3>1 DEF StopInv, Settled, Relist
      <4> QED BY <4>1, <4>2, <4>3
    <3> QED BY <3>2, <3>3 DEF Known
  <2> QED BY <2>1, <2>2
<1>8. CASE SendKill
  <2>1. calls' \in Seq(Places) /\ calls' # <<>> /\ Len(calls') = Len(calls) /\ Last(calls') = "last"
    BY <1>0, <1>2, <1>8, GoSteps DEF SendKill, Go, Values
  <2>2. Flags' /\ Values'
    <3>1. Flags'
      BY <1>0, <1>8, <2>1, Zenon DEF Flags, SendKill
    <3>2. Values'
      BY <1>0, <1>8, <2>1 DEF Values, SendKill
    <3> QED BY <3>1, <3>2
  <2>3. DepthInv' /\ BornInv' /\ StopInv'
    <3>1. DepthInv'
      BY <1>0, <1>8, <2>1, <1>n DEF DepthInv, SendKill
    <3>2. BornInv'
      BY <1>0, <1>8, <2>1 DEF BornInv, SendKill
    <3>3. StopInv'
      BY <1>0, <1>8, <2>1 DEF StopInv, Settled, SendKill
    <3> QED BY <3>1, <3>2, <3>3
  <2> QED BY <2>2, <2>3 DEF Known
<1>9. CASE LastEnds
  <2>1. Settled'
    BY <1>0, <1>9 DEF LastEnds, StopInv, Settled
  <2>2. left' \subseteq born /\ fresh' \subseteq born
    BY <1>0, <1>9 DEF LastEnds, Values
  <2> QED BY <1>0, <1>9, <2>1, <2>2, Returns DEF LastEnds
<1> QED BY <1>3, <1>4, <1>5, <1>6, <1>7, <1>8, <1>9

-----------------------------------------------------------------------------
\* The inductive invariant: how deep the stops are, and what each has settled.
THEOREM Inductive == Spec => []IInv
<1>1. IInv /\ [Next]_vars => IInv'
  <2> SUFFICES ASSUME IInv, [Next]_vars PROVE IInv'
    OBVIOUS
  <2>1. CASE UNCHANGED vars
    <3>1. Flags'
      BY <2>1, Halves, Zenon DEF Flags, vars, shellVars
    <3>2. Values' /\ DepthInv' /\ BornInv' /\ StopInv'
      BY <2>1, Halves DEF Known, Values, DepthInv, BornInv, StopInv, Settled, vars, shellVars, appVars
    <3> QED BY <3>1, <3>2, Halves DEF Known
  <2> QED BY <2>1, Halves, AppStep, SignalStep, ScriptStep, StopStep DEF Next, Shell
<1> QED BY InitIInv, <1>1, PTL DEF Spec

\* The runner's variables keep their types, for any number of processes and of
\* SIGTERMs: the stops never nest deeper than SIGTERMs were sent (app_env.sh).
THEOREM TypeCorrect == Spec => []TypeOK
<1>1. IInv => TypeOK
  BY DEF IInv
<1> QED BY <1>1, Inductive, PTL

\* The runner leaves nothing of the App that it could have found (app_env.sh,
\* ab_app_stop, whatever traps interrupt it).
THEOREM NothingIsLeft == Spec => []LeavesNothing
<1>1. IInv => LeavesNothing
  <2> SUFFICES ASSUME IInv, main = "done" PROVE Program \notin alive /\ marked \cap alive \subseteq killed \cup fresh
    BY DEF LeavesNothing
  <2> QED BY DEF IInv, BornInv, StopInv, Settled
<1> QED BY <1>1, Inductive, PTL
=============================================================================
