------------------------- MODULE SharedState_proof --------------------------
(***************************************************************************)
(* Where a processor keeps the words on their side of the sequence         *)
(* accesses (Memory # "relaxed"), the seqlock of SharedState.tla is the    *)
(* atomic register of PadRegister.tla, for every number of pads, readers   *)
(* and attempts and every even modulus of the sequence.                    *)
(***************************************************************************)
EXTENDS SharedState, TLAPS

-----------------------------------------------------------------------------
(* The contents of the block.                                              *)

\* Words of different names are different words.
LEMMA WordsDistinct ==
    /\ PadCount \in Words /\ Heartbeat \in Words /\ QuitRequests \in Words
    /\ PadCount # Heartbeat /\ PadCount # QuitRequests /\ Heartbeat # QuitRequests
    /\ \A i \in Slots : /\ Pad(i) \in Words
                        /\ Pad(i) \notin HeaderWords
                        /\ Pad(i)[2] = i
    /\ \A w \in Words : w \in HeaderWords \/ \E i \in Slots : w = Pad(i)
    /\ \A w \in HeaderWords : w \notin PadWords
BY DEF PadCount, Heartbeat, QuitRequests, Pad, HeaderWords, PadWords, Words

\* A zeroed block is well typed.
LEMMA BlankType == Blank \in Contents
BY WordsDistinct, BlockAssumption
   DEF Blank, Contents, NoPad, PadValues, HeaderWords, PadWords

\* The contents publishPads leaves are well typed.
LEMMA PublishedType ==
    ASSUME NEW m \in Contents, NEW n \in 0..MaxPads, NEW pads \in PadVectors
    PROVE  PadsPublished(m, n, pads) \in Contents
<1> DEFINE p == PadsPublished(m, n, pads)
<1>1. p \in [Words -> Nat]
  <2> SUFFICES ASSUME NEW w \in Words PROVE p[w] \in Nat
      BY DEF PadsPublished
  <2>1. CASE w \in HeaderWords
    BY <2>1, BlockAssumption, WordsDistinct DEF PadsPublished, HeaderWords, Contents, Count
  <2>2. CASE w \notin HeaderWords
    <3>1. PICK i \in Slots : w = Pad(i)
      BY <2>2, WordsDistinct
    <3>2. p[w] = pads[i]
      BY <3>1, <2>2, WordsDistinct DEF PadsPublished, HeaderWords
    <3>3. pads[i] \in PadValues
      BY DEF PadVectors
    <3>4. PadValues \subseteq Nat
      BY BlockAssumption DEF PadValues, NoPad
    <3> QED BY <3>2, <3>3, <3>4
  <2> QED BY <2>1, <2>2
<1>2. p[PadCount] = n
  BY WordsDistinct DEF PadsPublished
<1>3. p[Heartbeat] \in 0..(CountMod - 1)
  BY WordsDistinct, BlockAssumption DEF PadsPublished, Contents, Count
<1>4. p[QuitRequests] \in 0..(CountMod - 1)
  BY WordsDistinct DEF PadsPublished, Contents
<1>5. ASSUME NEW i \in Slots PROVE p[Pad(i)] = pads[i]
  BY WordsDistinct DEF PadsPublished, HeaderWords
<1> QED BY <1>1, <1>2, <1>3, <1>4, <1>5 DEF Contents, PadVectors

\* The contents requestQuit leaves are well typed.
LEMMA QuitType ==
    ASSUME NEW m \in Contents
    PROVE  QuitRequested(m) \in Contents
BY WordsDistinct, BlockAssumption
   DEF QuitRequested, Contents, Count, HeaderWords

\* Storing one word of well typed contents into others keeps them well typed.
LEMMA StoreType ==
    ASSUME NEW m \in Contents, NEW j \in Contents, NEW w \in Words
    PROVE  [m EXCEPT ![w] = j[w]] \in Contents
<1> DEFINE s == [m EXCEPT ![w] = j[w]]
<1>1. s \in [Words -> Nat] /\ \A v \in Words : s[v] \in {m[v], j[v]}
  BY DEF Contents
<1> HIDE DEF s
<1> QED BY <1>1, WordsDistinct DEF Contents

-----------------------------------------------------------------------------
(* The inductive invariant.                                                *)

\* Only slots up to padCount hold a pad, and that slot holds one.
Wellformed(m) == IsHighest(m[PadCount], [i \in Slots |-> m[Pad(i)]])

\* The sequence n stores after s.
Ahead(s, n) == IF s + n < SeqMod THEN s + n ELSE s + n - SeqMod

\* What the write under way will leave is one operation away from the last
\* settled contents.
JobInv ==
    \/ job = settled
    \/ job = QuitRequested(settled)
    \/ \E n \in 0..MaxPads, pads \in PadVectors :
          /\ IsHighest(n, pads)
          /\ job = PadsPublished(settled, n, pads)

WriterInv ==
    /\ Odd(seq) <=> oddStored
    /\ wpc = "idle" => ~oddStored
    /\ ~oddStored => mem = settled
    /\ wpc = "writing" => /\ JobInv
                          /\ \A w \in Words \ todo : mem[w] = job[w]
    /\ Wellformed(settled)

\* An attempt during which no write began has copied the settled contents; one
\* during which a write began has left the sequence it loaded behind.
AttemptInv(r) ==
    /\ rpc[r] # "copy" => copy[r] = Blank /\ have[r] = {} /\ lag[r] = 0
    /\ rpc[r] = "copy" =>
        /\ seq = Ahead(before[r], 2 * lag[r] - (IF oddStored THEN 1 ELSE 0))
        /\ oddStored => lag[r] > 0
        /\ lag[r] = 0 => \A w \in have[r] : copy[r][w] = settled[w]
        /\ \A w \in Words \ have[r] : copy[r][w] = Blank[w]
    /\ after[r] = NotLoaded
    /\ Wellformed(snapshot[r])

IInv == TypeOK /\ WriterInv /\ \A r \in Readers : AttemptInv(r)

\* TypeOK holds at the start.
LEMMA InitType == Init => TypeOK
<1> SUFFICES ASSUME Init PROVE TypeOK
    OBVIOUS
<1>1. 0 \in 0..(SeqMod - 1) /\ 0 \in 0..(MaxReadAttempts - 1) /\ 0 \in 0..MaxLag
  BY SeqlockAssumption
<1>2. ready \in BOOLEAN /\ oddStored \in BOOLEAN /\ wpc \in {"idle", "writing", "dead"}
  BY DEF Init
<1>3. /\ seq \in 0..(SeqMod - 1)
      /\ mem \in Contents /\ job \in Contents /\ settled \in Contents
      /\ todo \in SUBSET Words
  BY <1>1, BlankType DEF Init
<1>4. /\ rpc \in [Readers -> {"idle", "before", "copy"}]
      /\ attempt \in [Readers -> 0..(MaxReadAttempts - 1)]
      /\ before \in [Readers -> 0..(SeqMod - 1)]
      /\ after \in [Readers -> {NotLoaded} \cup 0..(SeqMod - 1)]
      /\ lag \in [Readers -> 0..MaxLag]
  BY <1>1 DEF Init
<1>5. /\ have \in [Readers -> SUBSET Words]
      /\ copy \in [Readers -> Contents]
      /\ snapshot \in [Readers -> Contents]
  BY BlankType DEF Init
<1> QED BY <1>2, <1>3, <1>4, <1>5 DEF TypeOK

\* Every step keeps the types, whatever the memory may do.
LEMMA StepType == TypeOK /\ [Next]_vars => TypeOK'
<1> SUFFICES ASSUME TypeOK, [Next]_vars PROVE TypeOK'
    OBVIOUS
<1> USE DEF vars, writerVars, readerVars
<1>1. CASE InitBlock
  BY <1>1 DEF InitBlock, TypeOK
<1>2. CASE publishPads
  <2>1. PICK n \in 0..MaxPads, pads \in PadVectors :
          BeginWrite(PadsPublished(mem, n, pads), {PadCount, Heartbeat} \cup PadWords)
    BY <1>2 DEF publishPads
  <2>2. PadsPublished(mem, n, pads) \in Contents
    BY PublishedType DEF TypeOK
  <2>3. {PadCount, Heartbeat} \cup PadWords \in SUBSET Words
    BY DEF Words, HeaderWords
  <2> QED BY <2>1, <2>2, <2>3 DEF BeginWrite, TypeOK
<1>3. CASE requestQuit
  BY <1>3, QuitType, WordsDistinct DEF requestQuit, BeginWrite, TypeOK
<1>4. CASE publishPadIdentity
  BY <1>4 DEF publishPadIdentity, BeginWrite, TypeOK
<1>5. CASE StoreOdd
  BY <1>5, SeqlockAssumption DEF StoreOdd, Bump, TypeOK
<1>6. ASSUME NEW w \in Words, StoreWord(w) PROVE TypeOK'
  BY <1>6, StoreType DEF StoreWord, TypeOK
<1>7. CASE StoreEven
  <2>1. seq' \in 0..(SeqMod - 1)
    BY <1>7, SeqlockAssumption DEF StoreEven, Bump, TypeOK
  <2> QED BY <1>7, <2>1, BlankType DEF StoreEven, TypeOK
<1>8. CASE Die
  BY <1>8, BlankType DEF Die, TypeOK
<1>9. ASSUME NEW r \in Readers, StartRead(r) PROVE TypeOK'
  BY <1>9 DEF StartRead, TypeOK
<1>10. ASSUME NEW r \in Readers, SawOdd(r) PROVE TypeOK'
  BY <1>10, SeqlockAssumption DEF SawOdd, Retry, TypeOK
<1>11. ASSUME NEW r \in Readers, SawEven(r) PROVE TypeOK'
  BY <1>11 DEF SawEven, TypeOK
<1>12. ASSUME NEW r \in Readers, NEW w \in Words, ReadWord(r, w) PROVE TypeOK'
  <2>1. [copy[r] EXCEPT ![w] = mem[w]] \in Contents
    BY StoreType DEF TypeOK
  <2>2. copy' = [copy EXCEPT ![r] = [copy[r] EXCEPT ![w] = mem[w]]]
    BY <1>12 DEF ReadWord
  <2> QED BY <1>12, <2>1, <2>2 DEF ReadWord, TypeOK
<1>13. ASSUME NEW r \in Readers, EarlyAfter(r) PROVE TypeOK'
  BY <1>13 DEF EarlyAfter, TypeOK
<1>14. ASSUME NEW r \in Readers, Accept(r) PROVE TypeOK'
  BY <1>14, BlankType, SeqlockAssumption DEF Accept, Forget, TypeOK
<1>15. ASSUME NEW r \in Readers, Reject(r) PROVE TypeOK'
  BY <1>15, BlankType, SeqlockAssumption DEF Reject, Retry, Forget, TypeOK
<1>16. ASSUME NEW r \in Readers, NotOurs(r) PROVE TypeOK'
  BY <1>16 DEF NotOurs, TypeOK
<1>17. CASE UNCHANGED vars
  BY <1>17 DEF TypeOK
<1> QED
  BY <1>1, <1>2, <1>3, <1>4, <1>5, <1>6, <1>7, <1>8, <1>9, <1>10, <1>11, <1>12, <1>13,
     <1>14, <1>15, <1>16, <1>17
     DEF Next, Write, readSnapshot

\* The type invariant, for every memory.
THEOREM TypeCorrect == Spec => []TypeOK
<1>1. Init => TypeOK
  BY InitType
<1>2. TypeOK /\ [Next]_vars => TypeOK'
  BY StepType
<1> QED BY <1>1, <1>2, PTL DEF Spec

-----------------------------------------------------------------------------
(* IInv is inductive when words do not cross the sequence accesses.        *)

\* The zeroed block is what publishPads could have left with no pad.
LEMMA BlankWellformed == Wellformed(Blank)
BY WordsDistinct, BlockAssumption DEF Wellformed, IsHighest, Blank, NoPad, Slots

\* Requesting a quit leaves the pads, and how many there are, alone.
LEMMA QuitWellformed ==
    ASSUME NEW m \in Contents, Wellformed(m)
    PROVE  Wellformed(QuitRequested(m))
<1>1. QuitRequested(m)[PadCount] = m[PadCount]
  BY WordsDistinct DEF QuitRequested, Contents
<1>2. \A i \in Slots : QuitRequested(m)[Pad(i)] = m[Pad(i)]
  BY WordsDistinct DEF QuitRequested, Contents, HeaderWords
<1> QED BY <1>1, <1>2 DEF Wellformed

\* publishPads is told the highest pad, and says so.
LEMMA PublishedWellformed ==
    ASSUME NEW m \in Contents, NEW n \in 0..MaxPads, NEW pads \in PadVectors, IsHighest(n, pads)
    PROVE  Wellformed(PadsPublished(m, n, pads))
<1>1. PadsPublished(m, n, pads)[PadCount] = n
  BY WordsDistinct DEF PadsPublished
<1>2. \A i \in Slots : PadsPublished(m, n, pads)[Pad(i)] = pads[i]
  BY WordsDistinct DEF PadsPublished, HeaderWords
<1>3. [i \in Slots |-> PadsPublished(m, n, pads)[Pad(i)]] = pads
  BY <1>2 DEF PadVectors
<1> QED BY <1>1, <1>3 DEF Wellformed

\* Whatever is being written is well formed when it is done.
LEMMA JobWellformed ==
    ASSUME TypeOK, JobInv, Wellformed(settled)
    PROVE  Wellformed(job)
BY QuitWellformed, PublishedWellformed DEF JobInv, TypeOK

\* A store that makes the sequence odd, or even, changes its parity.
LEMMA BumpParity ==
    ASSUME NEW s \in 0..(SeqMod - 1)
    PROVE  /\ Bump(s) \in 0..(SeqMod - 1)
           /\ Odd(Bump(s)) <=> ~Odd(s)
BY SeqlockAssumption DEF Bump, Odd

\* The writer's half of IInv.
LEMMA WriterStep ==
    ASSUME Memory # "relaxed", TypeOK, WriterInv, [Next]_vars
    PROVE  WriterInv'
<1> USE DEF vars, writerVars, readerVars
<1>1. CASE InitBlock
  BY <1>1 DEF InitBlock, WriterInv, JobInv, Wellformed
<1>2. ASSUME NEW m, NEW ws, BeginWrite(m, ws), ws \subseteq Words,
             \A w \in Words \ ws : mem[w] = m[w],
             \/ m = settled
             \/ m = QuitRequested(settled)
             \/ \E n \in 0..MaxPads, pads \in PadVectors :
                   IsHighest(n, pads) /\ m = PadsPublished(settled, n, pads)
      PROVE  WriterInv'
  BY <1>2 DEF BeginWrite, WriterInv, JobInv, Wellformed
<1>3. CASE publishPads
  <2>1. PICK n \in 0..MaxPads, pads \in PadVectors :
          /\ IsHighest(n, pads)
          /\ BeginWrite(PadsPublished(mem, n, pads), {PadCount, Heartbeat} \cup PadWords)
    BY <1>3 DEF publishPads
  <2>2. mem = settled
    BY <2>1 DEF BeginWrite, WriterInv
  <2>3. \A w \in Words \ ({PadCount, Heartbeat} \cup PadWords) : w = QuitRequests
    BY DEF Words, HeaderWords
  <2>4. PadsPublished(mem, n, pads)[QuitRequests] = mem[QuitRequests]
    BY WordsDistinct DEF PadsPublished
  <2>5. {PadCount, Heartbeat} \cup PadWords \subseteq Words
    BY DEF Words, HeaderWords
  <2> QED BY <1>2, <2>1, <2>2, <2>3, <2>4, <2>5
<1>4. CASE requestQuit
  <2>1. mem = settled
    BY <1>4 DEF requestQuit, BeginWrite, WriterInv
  <2>2. \A w \in Words \ {QuitRequests} : QuitRequested(mem)[w] = mem[w]
    BY DEF QuitRequested, TypeOK, Contents
  <2> QED BY <1>2, <1>4, <2>1, <2>2, WordsDistinct DEF requestQuit
<1>5. CASE publishPadIdentity
  <2>1. mem = settled
    BY <1>5 DEF publishPadIdentity, BeginWrite, WriterInv
  <2> QED BY <1>2, <1>5, <2>1 DEF publishPadIdentity
<1>6. CASE StoreOdd
  BY <1>6, BumpParity DEF StoreOdd, WriterInv, JobInv, Wellformed, TypeOK
<1>7. ASSUME NEW w \in Words, StoreWord(w) PROVE WriterInv'
  <2>1. \A v \in Words \ todo' : mem'[v] = job'[v]
    BY <1>7 DEF StoreWord, WriterInv, TypeOK, Contents
  <2> QED BY <1>7, <2>1 DEF StoreWord, WriterInv, JobInv, Wellformed
<1>8. CASE StoreEven
  <2>1. mem = job
    <3>1. \A w \in Words : mem[w] = job[w]
      BY <1>8 DEF StoreEven, WriterInv
    <3> QED BY <3>1 DEF TypeOK, Contents
  <2>2. Wellformed(mem)
    BY <1>8, <2>1, JobWellformed DEF StoreEven, WriterInv
  <2> QED BY <1>8, <2>2, BumpParity DEF StoreEven, WriterInv, Wellformed, TypeOK
<1>9. CASE Die
  BY <1>9 DEF Die, WriterInv, Wellformed
<1>10. CASE UNCHANGED writerVars
  BY <1>10 DEF WriterInv, JobInv, Wellformed
<1>11. ASSUME NEW r \in Readers, NotOurs(r) \/ StartRead(r) \/ readSnapshot(r)
       PROVE  UNCHANGED writerVars
  BY <1>11
     DEF NotOurs, StartRead, readSnapshot, SawOdd, SawEven, ReadWord, EarlyAfter, Accept, Reject
<1> QED
  BY <1>1, <1>3, <1>4, <1>5, <1>6, <1>7, <1>8, <1>9, <1>10, <1>11 DEF Next, Write

\* What a reader accepts is the contents in force at that instant: the sequence
\* is where it was, so no write has begun, and every word was copied from mem.
LEMMA AcceptedIsSettled ==
    ASSUME IInv, NEW r \in Readers, Accept(r)
    PROVE  copy[r] = settled /\ ~oddStored
<1> USE SeqlockAssumption
<1>0. TypeOK /\ WriterInv /\ AttemptInv(r)
  BY DEF IInv
<1>1. seq = before[r] /\ rpc[r] = "copy"
  BY <1>0 DEF Accept, SecondLoad, AttemptInv
<1>2. lag[r] = 0 /\ ~oddStored
  BY <1>0, <1>1 DEF AttemptInv, Ahead, TypeOK
<1>3. Wanted(r) \subseteq have[r]
  BY DEF Accept, Complete
<1>4. PadCount \in have[r] /\ HeaderWords \subseteq have[r]
  BY <1>3 DEF Wanted, HeaderWords
<1>5. copy[r][PadCount] = settled[PadCount]
  BY <1>0, <1>1, <1>2, <1>4 DEF AttemptInv
<1>6. ASSUME NEW w \in Words PROVE copy[r][w] = settled[w]
  <2>1. CASE w \in have[r]
    BY <1>0, <1>1, <1>2, <2>1 DEF AttemptInv
  <2>2. CASE w \notin have[r]
    <3>1. PICK i \in Slots : w = Pad(i)
      BY <1>4, <2>2, WordsDistinct
    <3>2. i > settled[PadCount]
      BY <1>0, <1>3, <1>4, <1>5, <2>2, <3>1
         DEF Wanted, Slots, TypeOK, Contents
    <3>3. settled[w] = NoPad
      BY <1>0, <3>1, <3>2 DEF WriterInv, Wellformed, IsHighest
    <3>4. copy[r][w] = Blank[w]
      BY <1>0, <1>1, <2>2 DEF AttemptInv
    <3> QED BY <3>1, <3>3, <3>4 DEF Blank, PadWords
  <2> QED BY <2>1, <2>2
<1> QED BY <1>0, <1>2, <1>6 DEF TypeOK, Contents

\* The readers' half of IInv.
LEMMA AttemptStep ==
    ASSUME Memory # "relaxed", IInv, [Next]_vars, NEW r \in Readers
    PROVE  AttemptInv(r)'
<1> USE DEF vars, writerVars, readerVars
<1> USE SeqlockAssumption
<1>0. TypeOK /\ WriterInv /\ AttemptInv(r)
  BY DEF IInv
<1>1. CASE InitBlock \/ publishPads \/ requestQuit \/ publishPadIdentity
  <2>1. UNCHANGED <<seq, oddStored, settled, readerVars, lag>>
    BY <1>1 DEF InitBlock, publishPads, requestQuit, publishPadIdentity, BeginWrite
  <2> QED BY <1>0, <2>1 DEF AttemptInv, Wellformed
<1>2. CASE StoreOdd
  BY <1>0, <1>2 DEF StoreOdd, AttemptInv, Wellformed, Ahead, Bump, TypeOK
<1>3. ASSUME NEW w \in Words, StoreWord(w) PROVE AttemptInv(r)'
  BY <1>0, <1>3 DEF StoreWord, AttemptInv, Wellformed
<1>4. CASE StoreEven
  BY <1>0, <1>4 DEF StoreEven, AttemptInv, Wellformed, Ahead, Bump, TypeOK
<1>5. CASE Die
  BY <1>0, <1>5 DEF Die, AttemptInv, Wellformed
<1>6. ASSUME NEW q \in Readers, NotOurs(q) \/ StartRead(q) \/ SawOdd(q) PROVE AttemptInv(r)'
  BY <1>0, <1>6 DEF NotOurs, StartRead, SawOdd, Retry, AttemptInv, Wellformed, TypeOK
<1>7. ASSUME NEW q \in Readers, SawEven(q) PROVE AttemptInv(r)'
  BY <1>0, <1>7 DEF SawEven, WriterInv, AttemptInv, Wellformed, Ahead, TypeOK
<1>8. ASSUME NEW q \in Readers, NEW w \in Words, ReadWord(q, w) PROVE AttemptInv(r)'
  <2>1. CASE q # r
    BY <1>0, <1>8, <2>1 DEF ReadWord, AttemptInv, Wellformed, TypeOK
  <2>2. CASE q = r
    <3>1. lag[r] = 0 => mem = settled
      BY <1>0, <1>8, <2>2 DEF ReadWord, WriterInv, AttemptInv, TypeOK
    <3>2. \A v \in Words : copy'[r][v] = IF v = w THEN mem[w] ELSE copy[r][v]
      BY <1>0, <1>8, <2>2 DEF ReadWord, TypeOK, Contents
    <3>3. have'[r] = have[r] \cup {w} /\ have[r] \subseteq Words
      BY <1>0, <1>8, <2>2 DEF ReadWord, TypeOK
    <3> QED BY <1>0, <1>8, <2>2, <3>1, <3>2, <3>3 DEF ReadWord, AttemptInv, Wellformed
  <2> QED BY <2>1, <2>2
<1>9. ASSUME NEW q \in Readers, EarlyAfter(q) PROVE AttemptInv(r)'
  BY <1>9 DEF EarlyAfter
<1>10. ASSUME NEW q \in Readers, Reject(q) PROVE AttemptInv(r)'
  BY <1>0, <1>10 DEF Reject, Retry, Forget, AttemptInv, Wellformed, TypeOK
<1>11. ASSUME NEW q \in Readers, Accept(q) PROVE AttemptInv(r)'
  <2>1. CASE q # r
    BY <1>0, <1>11, <2>1 DEF Accept, Forget, AttemptInv, Wellformed, TypeOK
  <2>2. CASE q = r
    <3>1. snapshot'[r] = settled
      BY <1>0, <1>11, <2>2, AcceptedIsSettled DEF Accept, TypeOK
    <3>2. Wellformed(snapshot[r])'
      BY <1>0, <3>1 DEF Wellformed, WriterInv
    <3> QED BY <1>0, <1>11, <2>2, <3>2 DEF Accept, Forget, AttemptInv, TypeOK
  <2> QED BY <2>1, <2>2
<1>12. CASE UNCHANGED vars
  BY <1>0, <1>12 DEF AttemptInv, Wellformed
<1> QED
  BY <1>1, <1>2, <1>3, <1>4, <1>5, <1>6, <1>7, <1>8, <1>9, <1>10, <1>11, <1>12
     DEF Next, Write, readSnapshot

\* On memory that keeps the words on their side of the sequence, IInv holds of every
\* reachable state.
THEOREM Inductive ==
    ASSUME Memory # "relaxed"
    PROVE  Spec => []IInv
<1>1. Init => IInv
  <2> SUFFICES ASSUME Init PROVE IInv
      OBVIOUS
  <2>1. WriterInv
    BY BlankWellformed, SeqlockAssumption DEF Init, WriterInv, Odd
  <2>2. ASSUME NEW r \in Readers PROVE AttemptInv(r)
    BY BlankWellformed DEF Init, AttemptInv
  <2> QED BY InitType, <2>1, <2>2 DEF IInv
<1>2. IInv /\ [Next]_vars => IInv'
  BY StepType, WriterStep, AttemptStep DEF IInv
<1> QED BY <1>1, <1>2, PTL DEF Spec

\* On such memory no snapshot mixes two publications: its padCount is its highest pad.
\* On "relaxed" memory, the console's ARM, one may: MCSharedState_arm.cfg.
THEOREM SnapshotIsConsistent ==
    ASSUME Memory # "relaxed"
    PROVE  Spec => []OneInstant
<1>1. IInv => OneInstant
  BY DEF IInv, AttemptInv, Wellformed, OneInstant
<1> QED BY <1>1, Inductive, PTL

\* On memory that keeps the words on their side of the sequence, a block the daemon died
\* in the middle of writing is never accepted again.  What holds on "relaxed" memory too
\* is DeadBlockIsRefused, below.
THEOREM TornIsRefused ==
    ASSUME Memory # "relaxed"
    PROVE  Spec => TornBlockRefused
<1>1. IInv /\ [Next]_vars => [wpc = "dead" /\ oddStored => UNCHANGED snapshot]_vars
  <2> SUFFICES ASSUME IInv, [Next]_vars, wpc = "dead", oddStored PROVE UNCHANGED snapshot
      OBVIOUS
  <2>1. \A r \in Readers : ~Accept(r)
    BY AcceptedIsSettled
  <2> QED
    BY <2>1
       DEF Next, Write, InitBlock, publishPads, requestQuit, publishPadIdentity, BeginWrite,
           StoreOdd, StoreWord, StoreEven, Die, NotOurs, StartRead, readSnapshot, SawOdd,
           SawEven, ReadWord, EarlyAfter, Reject, vars, writerVars, readerVars
<1> QED BY <1>1, Inductive, PTL DEF Spec, TornBlockRefused

\* The register is about the same block: its instance of PadBlock is this one.
LEMMA SameBlock ==
    /\ Register!Blank = Blank
    /\ Register!PadVectors = PadVectors
    /\ \A m : Register!QuitRequested(m) = QuitRequested(m)
    /\ \A n, pads : Register!IsHighest(n, pads) = IsHighest(n, pads)
    /\ \A m, n, pads : Register!PadsPublished(m, n, pads) = PadsPublished(m, n, pads)
BY DEF Register!Blank, Blank, Register!PadVectors, PadVectors, Register!QuitRequested,
       QuitRequested, Register!IsHighest, IsHighest, Register!PadsPublished, PadsPublished,
       Register!Words, Words, Register!HeaderWords, HeaderWords, Register!PadWords, PadWords,
       Register!PadCount, PadCount, Register!Heartbeat, Heartbeat, Register!QuitRequests,
       QuitRequests, Register!Pad, Pad, Register!Slots, Slots, Register!PadValues, PadValues,
       Register!NoPad, NoPad, Register!Count, Count

\* On memory that keeps the words on their side of the sequence, the seqlock implements
\* the atomic register: a write takes effect at its even sequence, a read at the second
\* load that accepts it.  On "relaxed" memory it does not: MCSharedState_arm.cfg.
THEOREM ImplementsRegister ==
    ASSUME Memory # "relaxed"
    PROVE  Spec => IsARegister
<1>1. Init => Register!Init
  BY SameBlock DEF Init, Register!Init
<1>2. IInv /\ [Next]_vars => [Register!Next]_(Register!vars)
  <2> SUFFICES ASSUME IInv, [Next]_vars PROVE [Register!Next]_(Register!vars)
      OBVIOUS
  <2>1. CASE StoreEven
    <3>1. JobInv /\ settled' = job /\ UNCHANGED snapshot
      <4>1. \A w \in Words : mem[w] = job[w]
        BY <2>1 DEF StoreEven, IInv, WriterInv
      <4>2. mem = job
        BY <4>1 DEF IInv, TypeOK, Contents
      <4> QED BY <2>1, <4>2 DEF StoreEven, IInv, WriterInv, readerVars
    <3>2. CASE job = settled
      BY <3>1, <3>2 DEF Register!vars
    <3>3. CASE job = QuitRequested(settled)
      BY <3>1, <3>3, SameBlock DEF Register!Next, Register!RequestQuit
    <3>4. CASE \E n \in 0..MaxPads, pads \in PadVectors :
                 IsHighest(n, pads) /\ job = PadsPublished(settled, n, pads)
      BY <3>1, <3>4, SameBlock DEF Register!Next, Register!PublishPads
    <3> QED BY <3>1, <3>2, <3>3, <3>4 DEF JobInv
  <2>2. ASSUME NEW r \in Readers, Accept(r) PROVE Register!Next
    BY <2>2, AcceptedIsSettled DEF Accept, Register!Next, Register!Take, writerVars
  <2>3. CASE UNCHANGED <<settled, snapshot>>
    BY <2>3 DEF Register!vars
  <2> QED
    BY <2>1, <2>2, <2>3
       DEF Next, Write, InitBlock, publishPads, requestQuit, publishPadIdentity, BeginWrite,
           StoreOdd, StoreWord, Die, NotOurs, StartRead, readSnapshot, SawOdd, SawEven,
           ReadWord, EarlyAfter, Reject, vars, writerVars, readerVars
<1> QED BY <1>1, <1>2, Inductive, PTL DEF Spec, IsARegister, Register!Spec

-----------------------------------------------------------------------------
(* What is left where words may cross the sequence accesses.               *)

\* An idle daemon has stored everything; a write under way owes no word but those of todo.
QuietWriter ==
    /\ Odd(seq) <=> oddStored
    /\ wpc = "idle" => ~oddStored /\ mem = settled
    /\ wpc = "writing" => JobInv /\ \A w \in Words \ todo : mem[w] = job[w]
    /\ Wellformed(settled)

\* An attempt during which no write began was begun under an even sequence: while the daemon
\* is idle, it has been all the time.
QuietAttempt(r) ==
    /\ rpc[r] # "copy" => copy[r] = Blank /\ have[r] = {} /\ lag[r] = 0
    /\ rpc[r] = "copy" =>
        /\ lag[r] = 0 => ~oddStored
        /\ lag[r] = 0 /\ wpc = "idle" => \A w \in have[r] : copy[r][w] = mem[w]
        /\ \A w \in Words \ have[r] : copy[r][w] = Blank[w]

QuietInv == TypeOK /\ QuietWriter /\ \A r \in Readers : QuietAttempt(r)

\* The writer's half of QuietInv.
LEMMA QuietWriterStep == TypeOK /\ QuietWriter /\ [Next]_vars => QuietWriter'
<1> SUFFICES ASSUME TypeOK, QuietWriter, [Next]_vars PROVE QuietWriter'
    OBVIOUS
<1> USE DEF vars, writerVars, readerVars
<1>1. CASE InitBlock
  BY <1>1 DEF InitBlock, QuietWriter, JobInv, Wellformed
<1>2. ASSUME NEW m, NEW ws, BeginWrite(m, ws), ws \subseteq Words,
             \A w \in Words \ ws : mem[w] = m[w],
             \/ m = settled
             \/ m = QuitRequested(settled)
             \/ \E n \in 0..MaxPads, pads \in PadVectors :
                   IsHighest(n, pads) /\ m = PadsPublished(settled, n, pads)
      PROVE  QuietWriter'
  BY <1>2 DEF BeginWrite, QuietWriter, JobInv, Wellformed
<1>3. CASE publishPads
  <2>1. PICK n \in 0..MaxPads, pads \in PadVectors :
          /\ IsHighest(n, pads)
          /\ BeginWrite(PadsPublished(mem, n, pads), {PadCount, Heartbeat} \cup PadWords)
    BY <1>3 DEF publishPads
  <2>2. mem = settled
    BY <2>1 DEF BeginWrite, QuietWriter
  <2>3. \A w \in Words \ ({PadCount, Heartbeat} \cup PadWords) : w = QuitRequests
    BY DEF Words, HeaderWords
  <2>4. PadsPublished(mem, n, pads)[QuitRequests] = mem[QuitRequests]
    BY WordsDistinct DEF PadsPublished
  <2>5. {PadCount, Heartbeat} \cup PadWords \subseteq Words
    BY DEF Words, HeaderWords
  <2> QED BY <1>2, <2>1, <2>2, <2>3, <2>4, <2>5
<1>4. CASE requestQuit
  <2>1. mem = settled
    BY <1>4 DEF requestQuit, BeginWrite, QuietWriter
  <2>2. \A w \in Words \ {QuitRequests} : QuitRequested(mem)[w] = mem[w]
    BY DEF QuitRequested, TypeOK, Contents
  <2> QED BY <1>2, <1>4, <2>1, <2>2, WordsDistinct DEF requestQuit
<1>5. CASE publishPadIdentity
  <2>1. mem = settled
    BY <1>5 DEF publishPadIdentity, BeginWrite, QuietWriter
  <2> QED BY <1>2, <1>5, <2>1 DEF publishPadIdentity
<1>6. CASE StoreOdd
  BY <1>6, BumpParity DEF StoreOdd, QuietWriter, JobInv, Wellformed, TypeOK
<1>7. ASSUME NEW w \in Words, StoreWord(w) PROVE QuietWriter'
  <2>1. \A v \in Words \ todo' : mem'[v] = job'[v]
    BY <1>7 DEF StoreWord, QuietWriter, TypeOK, Contents
  <2> QED BY <1>7, <2>1 DEF StoreWord, QuietWriter, JobInv, Wellformed
<1>8. CASE StoreEven
  <2>1. mem = job
    <3>1. \A w \in Words : mem[w] = job[w]
      BY <1>8 DEF StoreEven, QuietWriter
    <3> QED BY <3>1 DEF TypeOK, Contents
  <2>2. Wellformed(mem)
    BY <1>8, <2>1, JobWellformed DEF StoreEven, QuietWriter
  <2> QED BY <1>8, <2>2, BumpParity DEF StoreEven, QuietWriter, Wellformed, TypeOK
<1>9. CASE Die
  BY <1>9 DEF Die, QuietWriter, Wellformed
<1>10. CASE UNCHANGED writerVars
  BY <1>10 DEF QuietWriter, JobInv, Wellformed
<1>11. ASSUME NEW r \in Readers, NotOurs(r) \/ StartRead(r) \/ readSnapshot(r)
       PROVE  UNCHANGED writerVars
  BY <1>11
     DEF NotOurs, StartRead, readSnapshot, SawOdd, SawEven, ReadWord, EarlyAfter, Accept, Reject
<1> QED
  BY <1>1, <1>3, <1>4, <1>5, <1>6, <1>7, <1>8, <1>9, <1>10, <1>11 DEF Next, Write

\* The readers' half of QuietInv.
LEMMA QuietAttemptStep ==
    ASSUME QuietInv, [Next]_vars, NEW r \in Readers
    PROVE  QuietAttempt(r)'
<1> USE DEF vars, writerVars, readerVars
<1>0. TypeOK /\ QuietWriter /\ QuietAttempt(r)
  BY DEF QuietInv
<1>1. CASE InitBlock
  BY <1>0, <1>1 DEF InitBlock, QuietAttempt
<1>2. CASE publishPads \/ requestQuit \/ publishPadIdentity
  BY <1>0, <1>2 DEF publishPads, requestQuit, publishPadIdentity, BeginWrite, QuietAttempt
<1>3. CASE StoreOdd
  BY <1>0, <1>3 DEF StoreOdd, QuietAttempt, TypeOK
<1>4. ASSUME NEW w \in Words, StoreWord(w) PROVE QuietAttempt(r)'
  BY <1>0, <1>4 DEF StoreWord, QuietAttempt
<1>5. CASE StoreEven
  BY <1>0, <1>5 DEF StoreEven, QuietAttempt
<1>6. CASE Die
  BY <1>0, <1>6 DEF Die, QuietAttempt
<1>7. ASSUME NEW q \in Readers, NotOurs(q) \/ StartRead(q) \/ SawOdd(q) \/ EarlyAfter(q)
      PROVE  QuietAttempt(r)'
  BY <1>0, <1>7 DEF NotOurs, StartRead, SawOdd, EarlyAfter, Retry, QuietAttempt, TypeOK
<1>8. ASSUME NEW q \in Readers, SawEven(q) PROVE QuietAttempt(r)'
  BY <1>0, <1>8 DEF SawEven, QuietWriter, QuietAttempt, TypeOK
<1>9. ASSUME NEW q \in Readers, NEW w \in Words, ReadWord(q, w) PROVE QuietAttempt(r)'
  <2>1. CASE q # r
    BY <1>0, <1>9, <2>1 DEF ReadWord, QuietAttempt, TypeOK
  <2>2. CASE q = r
    <3>1. \A v \in Words : copy'[r][v] = IF v = w THEN mem[w] ELSE copy[r][v]
      BY <1>0, <1>9, <2>2 DEF ReadWord, TypeOK, Contents
    <3>2. have'[r] = have[r] \cup {w} /\ have[r] \subseteq Words
      BY <1>0, <1>9, <2>2 DEF ReadWord, TypeOK
    <3> QED BY <1>0, <1>9, <2>2, <3>1, <3>2 DEF ReadWord, QuietAttempt
  <2> QED BY <2>1, <2>2
<1>10. ASSUME NEW q \in Readers, Reject(q) PROVE QuietAttempt(r)'
  BY <1>0, <1>10 DEF Reject, Retry, Forget, QuietAttempt, TypeOK
<1>11. ASSUME NEW q \in Readers, Accept(q) PROVE QuietAttempt(r)'
  BY <1>0, <1>11 DEF Accept, Forget, QuietAttempt, TypeOK
<1>12. CASE UNCHANGED vars
  BY <1>0, <1>12 DEF QuietAttempt
<1> QED
  BY <1>1, <1>2, <1>3, <1>4, <1>5, <1>6, <1>7, <1>8, <1>9, <1>10, <1>11, <1>12
     DEF Next, Write, readSnapshot

\* What such an attempt is accepted with is the contents.
LEMMA AcceptedIsExact ==
    ASSUME QuietInv, NEW r \in Readers, Accept(r), wpc = "idle", lag[r] = 0
    PROVE  copy[r] = mem
<1>0. TypeOK /\ QuietWriter /\ QuietAttempt(r)
  BY DEF QuietInv
<1>1. rpc[r] = "copy" /\ Wanted(r) \subseteq have[r]
  BY DEF Accept, Complete
<1>2. PadCount \in have[r] /\ HeaderWords \subseteq have[r]
  BY <1>1 DEF Wanted, HeaderWords
<1>3. \A w \in have[r] : copy[r][w] = mem[w]
  BY <1>0, <1>1 DEF QuietAttempt
<1>4. mem = settled
  BY <1>0 DEF QuietWriter
<1>5. ASSUME NEW w \in Words PROVE copy[r][w] = mem[w]
  <2>1. CASE w \in have[r]
    BY <1>3, <2>1
  <2>2. CASE w \notin have[r]
    <3>1. PICK i \in Slots : w = Pad(i)
      BY <1>2, <2>2, WordsDistinct
    <3>2. i > settled[PadCount]
      BY <1>0, <1>1, <1>2, <1>3, <1>4, <2>2, <3>1 DEF Wanted, Slots, TypeOK, Contents
    <3>3. settled[w] = NoPad
      BY <1>0, <3>1, <3>2 DEF QuietWriter, Wellformed, IsHighest
    <3>4. copy[r][w] = Blank[w]
      BY <1>0, <1>1, <2>2 DEF QuietAttempt
    <3> QED BY <1>4, <3>1, <3>3, <3>4 DEF Blank, PadWords
  <2> QED BY <2>1, <2>2
<1> QED BY <1>0, <1>5 DEF TypeOK, Contents

\* QuietInv holds of every reachable state, for every memory.
THEOREM InductiveQuiet == Spec => []QuietInv
<1>1. Init => QuietInv
  <2> SUFFICES ASSUME Init PROVE QuietInv
      OBVIOUS
  <2>1. QuietWriter
    BY BlankWellformed, SeqlockAssumption DEF Init, QuietWriter, Odd
  <2>2. ASSUME NEW r \in Readers PROVE QuietAttempt(r)
    BY DEF Init, QuietAttempt
  <2> QED BY InitType, <2>1, <2>2 DEF QuietInv
<1>2. QuietInv /\ [Next]_vars => QuietInv'
  BY StepType, QuietWriterStep, QuietAttemptStep DEF QuietInv
<1> QED BY <1>1, <1>2, PTL DEF Spec

\* Only an accepting reader is handed a snapshot.
LEMMA OnlyAcceptTakes ==
    ASSUME TypeOK, [Next]_vars, NEW r \in Readers, snapshot'[r] # snapshot[r]
    PROVE  Accept(r) /\ snapshot'[r] = copy[r]
<1>1. PICK q \in Readers : Accept(q)
  BY DEF Next, Write, InitBlock, publishPads, requestQuit, publishPadIdentity, BeginWrite,
         StoreOdd, StoreWord, StoreEven, Die, NotOurs, StartRead, readSnapshot, SawOdd,
         SawEven, ReadWord, EarlyAfter, Reject, vars, writerVars, readerVars
<1>2. q = r
  BY <1>1 DEF TypeOK, Accept
<1> QED BY <1>1, <1>2 DEF TypeOK, Accept

\* A snapshot that no write overlapped is the contents, all of them, whatever the
\* processor does with plain stores and loads.
THEOREM QuietReads == Spec => QuietReadIsExact
<1>1. QuietInv /\ [Next]_vars =>
        [\A r \in Readers :
            /\ snapshot'[r] # snapshot[r]
            /\ wpc = "idle"
            /\ lag[r] = 0
            => snapshot'[r] = mem]_vars
  BY OnlyAcceptTakes, AcceptedIsExact DEF QuietInv
<1> QED BY <1>1, InductiveQuiet, PTL DEF Spec, QuietReadIsExact

\* Of a block the daemon died in the middle of writing, no attempt begun since its odd
\* sequence is accepted, whatever the processor does with plain stores and loads.
THEOREM DeadBlockIsRefused == Spec => DeadBlockRefused
<1>1. QuietInv /\ [Next]_vars =>
        [\A r \in Readers :
            wpc = "dead" /\ oddStored /\ lag[r] = 0 => UNCHANGED snapshot[r]]_vars
  <2> SUFFICES ASSUME QuietInv, [Next]_vars, NEW r \in Readers, oddStored, lag[r] = 0
               PROVE  UNCHANGED snapshot[r]
      OBVIOUS
  <2>1. ~Accept(r)
    BY DEF QuietInv, QuietAttempt, Accept
  <2> QED BY <2>1, OnlyAcceptTakes DEF QuietInv
<1> QED BY <1>1, InductiveQuiet, PTL DEF Spec, DeadBlockRefused
=============================================================================
