---------------------------- MODULE SharedState -----------------------------
(***************************************************************************)
(* The seqlock of apps/abpad/src/core/shared_state.cpp: one writer, the    *)
(* daemon, and readers that never block.  A writer makes the sequence odd, *)
(* stores its words one at a time and makes the sequence even; a reader    *)
(* loads the sequence, the words, the sequence again, and accepts the      *)
(* words if both loads gave one even number.                               *)
(*                                                                         *)
(* The words are plain memory.  Memory says what a compiler and a          *)
(* processor may do with their stores and loads:                           *)
(*   "inOrder"  perform them in the order of the source;                   *)
(*   "fenced"   reorder them, but never across an access of the sequence   *)
(*              (what x86 keeps, and fences would give elsewhere);         *)
(*   "relaxed"  all that the code's release stores and acquire loads do    *)
(*              not forbid, and the console's ARM does: words stored       *)
(*              before the odd sequence, and loaded after the second load. *)
(***************************************************************************)
EXTENDS PadBlock

CONSTANTS
    Readers,          \* the processes that have mapped the block
    MaxReadAttempts,  \* 8 in the code
    SeqMod,           \* 2^32 in the code: the sequence wraps there
    MaxLag,           \* writes that may begin during one attempt of a reader
    Memory            \* "inOrder", "fenced" or "relaxed"

ASSUME SeqlockAssumption ==
    /\ MaxReadAttempts \in Nat \ {0}
    /\ SeqMod \in Nat \ {0}
    /\ SeqMod % 2 = 0
    /\ MaxLag \in Nat
    /\ 2 * MaxLag < SeqMod
    /\ Memory \in {"inOrder", "fenced", "relaxed"}

NotLoaded == -1

VARIABLES
    ready,      \* magic and version are stored
    seq,        \* SharedState::sequence
    mem,        \* the words of the block
    wpc,        \* the daemon: "idle", "writing" (inside a write) or "dead"
    oddStored,  \* the write under way has made the sequence odd
    job,        \* the contents the write under way is to leave
    todo,       \* the words it has not stored yet
    rpc,        \* a reader: "idle", "before" (an attempt's first load), "copy"
    attempt,    \* readSnapshot's loop counter
    before,     \* the first load of the sequence
    after,      \* the second, if it was performed before the words were read
    have,       \* the words read in this attempt
    copy,       \* the local Snapshot
    snapshot,   \* the last Snapshot handed to the reader's caller
    settled,    \* history: mem at the last even sequence
    lag         \* history: writes begun since the reader's first load

writerVars == <<ready, seq, mem, wpc, oddStored, job, todo, settled>>
readerVars == <<rpc, attempt, before, after, have, copy, snapshot>>
vars == <<writerVars, readerVars, lag>>

TypeOK ==
    /\ ready \in BOOLEAN
    /\ seq \in 0..(SeqMod - 1)
    /\ mem \in Contents
    /\ wpc \in {"idle", "writing", "dead"}
    /\ oddStored \in BOOLEAN
    /\ job \in Contents
    /\ todo \in SUBSET Words
    /\ rpc \in [Readers -> {"idle", "before", "copy"}]
    /\ attempt \in [Readers -> 0..(MaxReadAttempts - 1)]
    /\ before \in [Readers -> 0..(SeqMod - 1)]
    /\ after \in [Readers -> {NotLoaded} \cup 0..(SeqMod - 1)]
    /\ have \in [Readers -> SUBSET Words]
    /\ copy \in [Readers -> Contents]
    /\ snapshot \in [Readers -> Contents]
    /\ settled \in Contents
    /\ lag \in [Readers -> 0..MaxLag]

Init ==
    /\ ready = FALSE
    /\ seq = 0
    /\ mem = Blank
    /\ wpc = "idle"
    /\ oddStored = FALSE
    /\ job = Blank
    /\ todo = {}
    /\ rpc = [r \in Readers |-> "idle"]
    /\ attempt = [r \in Readers |-> 0]
    /\ before = [r \in Readers |-> 0]
    /\ after = [r \in Readers |-> NotLoaded]
    /\ have = [r \in Readers |-> {}]
    /\ copy = [r \in Readers |-> Blank]
    /\ snapshot = [r \in Readers |-> Blank]
    /\ settled = Blank
    /\ lag = [r \in Readers |-> 0]

Odd(s) == s % 2 = 1

\* A mutant for the checks: a sequence that does not wrap.
Bump_Unwrapped(s) == s + 1

\* uint32 arithmetic
Bump(s) == IF s + 1 = SeqMod THEN 0 ELSE s + 1

-----------------------------------------------------------------------------
(* The daemon.  Its three writes share their shape.                        *)

\* initSharedState on the zeroed file: app_env.sh removes an old block first.
InitBlock ==
    /\ ~ready
    /\ wpc = "idle"
    /\ ready' = TRUE
    /\ UNCHANGED <<seq, mem, wpc, oddStored, job, todo, settled, readerVars, lag>>

\* Entering a write that is to leave the contents m by storing the words ws.
BeginWrite(m, ws) ==
    /\ ready
    /\ wpc = "idle"
    /\ wpc' = "writing"
    /\ job' = m
    /\ todo' = ws
    /\ UNCHANGED <<ready, seq, mem, oddStored, settled, readerVars, lag>>

publishPads ==
    \E n \in 0..MaxPads, pads \in PadVectors :
        /\ IsHighest(n, pads)
        /\ BeginWrite(PadsPublished(mem, n, pads), {PadCount, Heartbeat} \cup PadWords)

requestQuit == BeginWrite(QuitRequested(mem), {QuitRequests})

\* A name and a GUID: words that no Snapshot carries.
publishPadIdentity == BeginWrite(mem, {})

\* sequence + 1.  The lag is bounded so that the sequence never comes full
\* circle while a reader is between its two loads.
StoreOdd ==
    /\ wpc = "writing"
    /\ ~oddStored
    /\ \A r \in Readers : rpc[r] = "copy" => lag[r] < MaxLag
    /\ seq' = Bump(seq)
    /\ oddStored' = TRUE
    /\ lag' = [r \in Readers |-> IF rpc[r] = "copy" THEN lag[r] + 1 ELSE lag[r]]
    /\ UNCHANGED <<ready, mem, wpc, job, todo, settled, readerVars>>

\* publishPads stores padCount, the pads, the heartbeat.
StoreRank(w) == IF w = PadCount THEN 0 ELSE IF w \in PadWords THEN w[2] ELSE MaxPads + 1

StoreWord(w) ==
    /\ wpc = "writing"
    /\ w \in todo
    /\ Memory # "relaxed" => oddStored
    /\ Memory = "inOrder" => \A v \in todo : StoreRank(w) <= StoreRank(v)
    /\ mem' = [mem EXCEPT ![w] = job[w]]
    /\ todo' = todo \ {w}
    /\ UNCHANGED <<ready, seq, wpc, oddStored, job, settled, readerVars, lag>>

\* sequence + 2: a release store, after everything before it.
StoreEven ==
    /\ wpc = "writing"
    /\ oddStored
    /\ todo = {}
    /\ seq' = Bump(seq)
    /\ oddStored' = FALSE
    /\ wpc' = "idle"
    /\ settled' = mem
    /\ job' = Blank
    /\ UNCHANGED <<ready, mem, todo, readerVars, lag>>

\* The daemon is killed, anywhere, or stops between two writes: the block stays.
Die ==
    /\ wpc # "dead"
    /\ wpc' = "dead"
    /\ job' = Blank
    /\ todo' = {}
    /\ UNCHANGED <<ready, seq, mem, oddStored, settled, readerVars, lag>>

Write ==
    \/ publishPads
    \/ requestQuit
    \/ publishPadIdentity
    \/ StoreOdd
    \/ \E w \in Words : StoreWord(w)
    \/ StoreEven

-----------------------------------------------------------------------------
(* A reader: readSnapshot.                                                 *)

\* Without the magic number and the version the call returns false at once.
NotOurs(r) ==
    /\ rpc[r] = "idle"
    /\ ~ready
    /\ UNCHANGED vars

StartRead(r) ==
    /\ rpc[r] = "idle"
    /\ ready
    /\ rpc' = [rpc EXCEPT ![r] = "before"]
    /\ UNCHANGED <<attempt, before, after, have, copy, snapshot, writerVars, lag>>

\* The next turn of the loop, or its end: false, and the caller keeps what it had.
Retry(r) ==
    IF attempt[r] + 1 < MaxReadAttempts
    THEN /\ attempt' = [attempt EXCEPT ![r] = @ + 1]
         /\ rpc' = [rpc EXCEPT ![r] = "before"]
    ELSE /\ rpc' = [rpc EXCEPT ![r] = "idle"]
         /\ attempt' = [attempt EXCEPT ![r] = 0]

SawOdd(r) ==
    /\ rpc[r] = "before"
    /\ Odd(seq)
    /\ Retry(r)
    /\ UNCHANGED <<before, after, have, copy, snapshot, writerVars, lag>>

\* A mutant: the parity is not looked at.
SawEven_AnyParity(r) ==
    /\ rpc[r] = "before"
    /\ rpc' = [rpc EXCEPT ![r] = "copy"]
    /\ before' = [before EXCEPT ![r] = seq]
    /\ UNCHANGED <<attempt, after, have, copy, snapshot, writerVars, lag>>

SawEven(r) ==
    /\ rpc[r] = "before"
    /\ ~Odd(seq)
    /\ rpc' = [rpc EXCEPT ![r] = "copy"]
    /\ before' = [before EXCEPT ![r] = seq]
    /\ UNCHANGED <<attempt, after, have, copy, snapshot, writerVars, lag>>

\* The loop over the pads ends at the padCount this attempt read.
Wanted(r) ==
    HeaderWords \cup
        (IF PadCount \in have[r] THEN {Pad(i) : i \in 1..copy[r][PadCount]} ELSE {})

\* readSnapshot loads padCount, the heartbeat, quitRequests, the pads.
LoadRank(w) ==
    CASE w = PadCount -> 0 [] w = Heartbeat -> 1 [] w = QuitRequests -> 2 [] OTHER -> 2 + w[2]

Complete(r) == Wanted(r) \subseteq have[r]

ReadWord(r, w) ==
    /\ rpc[r] = "copy"
    /\ w \in Wanted(r) \ have[r]
    /\ Memory = "inOrder" => \A v \in Wanted(r) \ have[r] : LoadRank(w) <= LoadRank(v)
    /\ copy' = [copy EXCEPT ![r][w] = mem[w]]
    /\ have' = [have EXCEPT ![r] = @ \cup {w}]
    /\ UNCHANGED <<rpc, attempt, before, after, snapshot, writerVars, lag>>

\* An acquire load keeps later accesses after it, not earlier ones before it.
EarlyAfter(r) ==
    /\ Memory = "relaxed"
    /\ rpc[r] = "copy"
    /\ after[r] = NotLoaded
    /\ after' = [after EXCEPT ![r] = seq]
    /\ UNCHANGED <<rpc, attempt, before, have, copy, snapshot, writerVars, lag>>

\* An attempt's locals go out of scope.
Forget(r) ==
    /\ before' = [before EXCEPT ![r] = 0]
    /\ after' = [after EXCEPT ![r] = NotLoaded]
    /\ have' = [have EXCEPT ![r] = {}]
    /\ copy' = [copy EXCEPT ![r] = Blank]
    /\ lag' = [lag EXCEPT ![r] = 0]

SecondLoad(r) == IF after[r] = NotLoaded THEN seq ELSE after[r]

\* A mutant: the sequence is not loaded again.
Accept_Unchecked(r) ==
    /\ rpc[r] = "copy"
    /\ Complete(r)
    /\ snapshot' = [snapshot EXCEPT ![r] = copy[r]]
    /\ rpc' = [rpc EXCEPT ![r] = "idle"]
    /\ attempt' = [attempt EXCEPT ![r] = 0]
    /\ Forget(r)
    /\ UNCHANGED writerVars

Accept(r) ==
    /\ rpc[r] = "copy"
    /\ Complete(r)
    /\ SecondLoad(r) = before[r]
    /\ snapshot' = [snapshot EXCEPT ![r] = copy[r]]
    /\ rpc' = [rpc EXCEPT ![r] = "idle"]
    /\ attempt' = [attempt EXCEPT ![r] = 0]
    /\ Forget(r)
    /\ UNCHANGED writerVars

Reject(r) ==
    /\ rpc[r] = "copy"
    /\ Complete(r)
    /\ SecondLoad(r) # before[r]
    /\ Retry(r)
    /\ Forget(r)
    /\ UNCHANGED <<snapshot, writerVars>>

readSnapshot(r) ==
    \/ SawOdd(r)
    \/ SawEven(r)
    \/ \E w \in Words : ReadWord(r, w)
    \/ EarlyAfter(r)
    \/ Accept(r)
    \/ Reject(r)

-----------------------------------------------------------------------------
Next ==
    \/ InitBlock
    \/ Write
    \/ Die
    \/ \E r \in Readers : NotOurs(r) \/ StartRead(r) \/ readSnapshot(r)

Spec == Init /\ [][Next]_vars

-----------------------------------------------------------------------------
(* Readers see one atomic register: every snapshot is all the words of one *)
(* publication, and one in force while it was taken (shared_state.h,       *)
(* Snapshot, "all pads at one instant").  This is so on memory that keeps  *)
(* the words on their side of the sequence, "inOrder" or "fenced"; on the  *)
(* console's ARM, "relaxed", OneInstant fails, and this with it.           *)
Register == INSTANCE PadRegister WITH published <- settled, taken <- snapshot

IsARegister == Register!Spec

(* Self-consistency of one snapshot: padCount is the highest pad in it.    *)
(* publishPads publishes nothing else, so a snapshot that breaks this is   *)
(* made of two publications (readSnapshot).  It fails where Memory is      *)
(* "relaxed".                                                              *)
OneInstant ==
    \A r \in Readers :
        IsHighest(snapshot[r][PadCount], [i \in Slots |-> snapshot[r][Pad(i)]])

(* After the daemon died inside a write no snapshot is accepted any more,  *)
(* whatever a reader had begun before (shared_state.h, readSnapshot:       *)
(* "false when ... never settled (the daemon died mid-write)").  This too  *)
(* needs memory that is not "relaxed": there a reader whose second load    *)
(* was made early may accept words of the write the daemon died in.        *)
TornBlockRefused == [][wpc = "dead" /\ oddStored => UNCHANGED snapshot]_vars

(* What is left of that on every machine, the console's too: an attempt    *)
(* that was begun after the odd sequence of the write the daemon died in   *)
(* is not accepted (readSnapshot, the test of the parity).                 *)
DeadBlockRefused ==
    [][\A r \in Readers :
        wpc = "dead" /\ oddStored /\ lag[r] = 0 => UNCHANGED snapshot[r]]_vars

(* On every machine: a snapshot taken while no write was under way is      *)
(* the contents, all of them.  Only a reader that overlaps a write of the  *)
(* daemon depends on the order of the plain stores (readSnapshot).         *)
QuietReadIsExact ==
    [][\A r \in Readers :
        /\ snapshot'[r] # snapshot[r]
        /\ wpc = "idle"
        /\ lag[r] = 0
        => snapshot'[r] = mem]_vars
=============================================================================
