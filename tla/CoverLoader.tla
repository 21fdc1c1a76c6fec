---------------------------- MODULE CoverLoader -----------------------------
(***************************************************************************)
(* The covers decoded beside the screen (src/code/evoui/cover_loader.cpp): *)
(* the screen's thread wants files, takes decoded images and clears; one   *)
(* worker decodes.  A step is a critical section of guard, or what a       *)
(* thread does between two of them.  An image is known by the number of    *)
(* clear()s there had been when its decoding began: a new set of games may *)
(* give a path another picture.                                            *)
(***************************************************************************)
EXTENDS Integers, SequencesExt

CONSTANTS
    Paths,
    NoPath,     \* the empty string: nothing in flight
    MaxWanted,  \* paths in one call of want
    MaxWants,   \* calls of want in one behaviour
    MaxClears   \* calls of clear

ASSUME LoaderAssumption ==
    /\ NoPath \notin Paths
    /\ MaxWanted \in Nat
    /\ MaxWants \in Nat
    /\ MaxClears \in Nat

NotReady == -1

VARIABLES
    queue,
    ready,      \* by path: NotReady, or the image
    inFlight,
    stopping,
    worker,     \* "starting", "waiting" in wake.wait, "decoding", "gone"
    decoding,   \* run()'s path
    image,      \* the image it decodes
    notified,   \* the waiting worker was notified
    caller,     \* the screen's thread: "free", "notify", "join", "gone"
    clears,     \* history: calls of clear
    wants,      \* history: calls of want
    wanted      \* history: asked for by the last want, not taken, not cleared

loaderVars == <<queue, ready, inFlight, stopping>>
workerVars == <<worker, decoding, image>>
clVars == <<loaderVars, workerVars, notified, caller, clears, wants, wanted>>

CLTypeOK ==
    /\ queue \in Seq(Paths)
    /\ ready \in [Paths -> {NotReady} \cup 0..clears]
    /\ inFlight \in Paths \cup {NoPath}
    /\ stopping \in BOOLEAN
    /\ worker \in {"starting", "waiting", "decoding", "gone"}
    /\ decoding \in Paths \cup {NoPath}
    /\ worker = "decoding" => decoding # NoPath
    /\ image \in 0..clears
    /\ notified \in BOOLEAN
    /\ caller \in {"free", "notify", "join", "gone"}
    /\ clears \in 0..MaxClears
    /\ wants \in 0..MaxWants
    /\ wanted \subseteq Paths

CLInit ==
    /\ queue = <<>>
    /\ ready = [p \in Paths |-> NotReady]
    /\ inFlight = NoPath
    /\ stopping = FALSE
    /\ worker = "starting"
    /\ decoding = NoPath
    /\ image = 0
    /\ notified = FALSE
    /\ caller = "free"
    /\ clears = 0
    /\ wants = 0
    /\ wanted = {}

IsReady(p) == ready[p] # NotReady

-----------------------------------------------------------------------------
(* The screen's thread.                                                    *)

\* A mutant: what is being decoded is queued again.
Missing_InFlightToo(paths) == {p \in ToSet(paths) : ~IsReady(p)}

\* Of what want is asked for, what is neither decoded nor being decoded.
Missing(paths) == {p \in ToSet(paths) : p # inFlight /\ ~IsReady(p)}

ComesBefore(s, p, q) ==
    \E k \in DOMAIN s : s[k] = p /\ \A l \in DOMAIN s : s[l] = q => k < l

\* S, each path once and in the order of s.
InOrderOf(s, S, q) ==
    /\ ToSet(q) = S
    /\ \A k, l \in DOMAIN q : k < l => q[k] # q[l] /\ ComesBefore(s, q[k], q[l])

want(paths) ==
    /\ caller = "free"
    /\ wants < MaxWants
    /\ wants' = wants + 1
    /\ ready' = [p \in Paths |-> IF p \in ToSet(paths) THEN ready[p] ELSE NotReady]
    /\ queue' \in {q \in SeqOf(Paths, MaxWanted) : InOrderOf(paths, Missing(paths), q)}
    /\ wanted' = ToSet(paths)
    /\ caller' = "notify"
    /\ UNCHANGED <<inFlight, stopping, workerVars, notified, clears>>

\* A mutant: want does not wake the worker.
Notify_Stopping ==
    /\ caller = "notify"
    /\ caller' = IF stopping THEN "join" ELSE "free"
    /\ notified' = (notified \/ (worker = "waiting" /\ stopping))
    /\ UNCHANGED <<loaderVars, workerVars, clears, wants, wanted>>

\* wake.notify_one, after the guard was let go: nobody waits, nothing happens.
Notify ==
    /\ caller = "notify"
    /\ caller' = IF stopping THEN "join" ELSE "free"
    /\ notified' = (notified \/ worker = "waiting")
    /\ UNCHANGED <<loaderVars, workerVars, clears, wants, wanted>>

take(p) ==
    /\ caller = "free"
    /\ IsReady(p)
    /\ ready' = [ready EXCEPT ![p] = NotReady]
    /\ wanted' = wanted \ {p}
    /\ UNCHANGED <<queue, inFlight, stopping, workerVars, notified, caller, clears, wants>>

\* A mutant: what is being decoded is kept.
clear_KeepsInFlight ==
    /\ caller = "free"
    /\ clears < MaxClears
    /\ clears' = clears + 1
    /\ queue' = <<>>
    /\ ready' = [p \in Paths |-> NotReady]
    /\ wanted' = {}
    /\ UNCHANGED <<inFlight, stopping, workerVars, notified, caller, wants>>

clear ==
    /\ caller = "free"
    /\ clears < MaxClears
    /\ clears' = clears + 1
    /\ queue' = <<>>
    /\ ready' = [p \in Paths |-> NotReady]
    /\ inFlight' = NoPath
    /\ wanted' = {}
    /\ UNCHANGED <<stopping, workerVars, notified, caller, wants>>

\* A mutant: the destructor does not wake the worker.
Destroy_NoNotify ==
    /\ caller = "free"
    /\ stopping' = TRUE
    /\ queue' = <<>>
    /\ caller' = "join"
    /\ UNCHANGED <<ready, inFlight, workerVars, notified, clears, wants, wanted>>

\* The destructor: its critical section, then notify_all and join.
Destroy ==
    /\ caller = "free"
    /\ stopping' = TRUE
    /\ queue' = <<>>
    /\ caller' = "notify"
    /\ UNCHANGED <<ready, inFlight, workerVars, notified, clears, wants, wanted>>

Join ==
    /\ caller = "join"
    /\ worker = "gone"
    /\ caller' = "gone"
    /\ UNCHANGED <<loaderVars, workerVars, notified, clears, wants, wanted>>

-----------------------------------------------------------------------------
(* run                                                                     *)

\* A mutant: a wait that has ended is taken for a file to decode.
Decide_AnyWake(flight) ==
    \/ /\ stopping
       /\ worker' = "gone"
       /\ inFlight' = flight
       /\ UNCHANGED <<queue, decoding, image>>
    \/ /\ ~stopping
       /\ queue = <<>>
       /\ worker' = IF worker = "waiting" THEN "decoding" ELSE "waiting"
       /\ decoding' = NoPath
       /\ inFlight' = flight
       /\ UNCHANGED <<queue, image>>
    \/ /\ ~stopping
       /\ queue # <<>>
       /\ worker' = "decoding"
       /\ decoding' = Head(queue)
       /\ inFlight' = Head(queue)
       /\ queue' = Tail(queue)
       /\ image' = clears

\* wake.wait's predicate and what follows, up to the unlock or the wait.
Decide(flight) ==
    \/ /\ stopping
       /\ worker' = "gone"
       /\ inFlight' = flight
       /\ UNCHANGED <<queue, decoding, image>>
    \/ /\ ~stopping
       /\ queue = <<>>
       /\ worker' = "waiting"
       /\ inFlight' = flight
       /\ UNCHANGED <<queue, decoding, image>>
    \/ /\ ~stopping
       /\ queue # <<>>
       /\ worker' = "decoding"
       /\ decoding' = Head(queue)
       /\ inFlight' = Head(queue)
       /\ queue' = Tail(queue)
       /\ image' = clears

Begin ==
    /\ worker = "starting"
    /\ Decide(inFlight)
    /\ UNCHANGED <<ready, stopping, notified, caller, clears, wants, wanted>>

\* Notified, or spuriously.
Wake ==
    /\ worker = "waiting"
    /\ Decide(inFlight)
    /\ notified' = FALSE
    /\ UNCHANGED <<ready, stopping, caller, clears, wants, wanted>>

\* An image whose path was cleared meanwhile is dropped.
Decoded ==
    /\ worker = "decoding"
    /\ ready' = IF inFlight = decoding THEN [ready EXCEPT ![decoding] = image] ELSE ready
    /\ Decide(NoPath)
    /\ UNCHANGED <<stopping, notified, caller, clears, wants, wanted>>

-----------------------------------------------------------------------------
CLNext ==
    \/ \E paths \in SeqOf(Paths, MaxWanted) : want(paths)
    \/ Notify
    \/ \E p \in Paths : take(p)
    \/ clear
    \/ Destroy
    \/ Join
    \/ Begin
    \/ Wake
    \/ Decoded

CLSpec == CLInit /\ [][CLNext]_clVars

\* The threads run; only a notified wait must end.
CLFairSpec ==
    /\ CLSpec
    /\ WF_clVars(Notify)
    /\ WF_clVars(Join)
    /\ WF_clVars(Begin)
    /\ WF_clVars(notified /\ Wake)
    /\ WF_clVars(Decoded)

-----------------------------------------------------------------------------
(* "What is being decoded now is dropped when it finishes" (clear): no     *)
(* picture begun before the last clear() is there to be taken.             *)
NothingStale == \A p \in Paths : IsReady(p) => ready[p] = clears

(* Nothing is decoded twice for one want: what waits is neither decoded    *)
(* nor being decoded, and waits once (want).                               *)
NoDoubleWork ==
    /\ \A k \in DOMAIN queue : ~IsReady(queue[k]) /\ queue[k] # inFlight
    /\ \A k, l \in DOMAIN queue : queue[k] = queue[l] => k = l

(* Whatever the last want asked for comes, if it is not wanted, cleared or *)
(* taken otherwise meanwhile: no wake-up is lost and nothing is dropped    *)
(* that is still wanted (want, run).                                       *)
WantedComes ==
    \A p \in Paths : p \in wanted ~> IsReady(p) \/ p \notin wanted \/ stopping

(* The destructor's join ends, wherever the worker was.                    *)
LeavesInTheEnd == stopping ~> caller = "gone"
=============================================================================
