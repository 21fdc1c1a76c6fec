----------------------------- MODULE Fetch_proof -----------------------------
(***************************************************************************)
(* What a download leaves on the disk, for any releases of any length and  *)
(* any number of attempts, stops and redirects.                            *)
(***************************************************************************)
EXTENDS Fetch, TLAPS

\* Every piece is where it was in its release, whichever release that was.
InPlace ==
    \A i \in 1 .. Len(disk) : disk[i].at = i /\ i <= Size[disk[i].of]

\* What an attempt knows of the file before a body is there.
Asked ==
    /\ already > 0 => resume
    /\ pc # "idle" => result = "none"
    /\ pc \in {"connect", "head"} => disk = before /\ status = 0
    /\ pc \in {"connect", "head"} /\ already > 0 => already = Len(disk)

\* While a body arrives the file ends where its next piece belongs.
Arriving ==
    pc = "body" =>
        /\ status \in {200, 206}
        /\ next = Len(disk) + 1
        /\ next <= Size[served] + 1
        /\ opened <= Len(disk)
        /\ status = 206 => resume /\ opened = Len(before)

IInv == TypeOK /\ InPlace /\ Asked /\ Arriving /\ OkIsWhole /\ FailureLeaves

LEMMA InitIInv == Init => IInv
<1> SUFFICES ASSUME Init PROVE IInv
  OBVIOUS
<1>1. disk = <<>> /\ before = <<>> /\ Len(disk) = 0 /\ Len(before) = 0
  BY DEF Init
<1>2. TypeOK
  <2>1. disk \in Seq(Piece) /\ before \in Seq(Piece)
    BY <1>1
  <2>2. 0 \in 0 .. MaxRedirects
    BY RedirectsAssumption
  <2>3. resume \in BOOLEAN
    BY Zenon DEF Init
  <2> QED BY <2>1, <2>2, <2>3 DEF Init, TypeOK, Framings
<1>3. InPlace /\ Asked /\ Arriving /\ OkIsWhole
  BY <1>1 DEF Init, InPlace, Asked, Arriving, OkIsWhole
<1>4. FailureLeaves
  BY <1>1 DEF Init, FailureLeaves, Kept, Failures
<1> QED BY <1>2, <1>3, <1>4 DEF IInv

\* A prefix that reaches at least to where the file was opened keeps what
\* SomeIsLost's callers need of it.
LEMMA PrefixKeeps ==
    ASSUME IInv, pc = "body", SomeIsLost
    PROVE  /\ disk' \in Seq(Piece)
           /\ InPlace'
           /\ resume /\ status # 200 => Kept(before, disk')
<1>1. PICK n \in opened .. Len(disk) : disk' = SubSeq(disk, 1, n)
  BY DEF SomeIsLost
<1>2. disk \in Seq(Piece) /\ opened \in Nat /\ Len(disk) \in Nat /\ n \in Nat /\ n <= Len(disk)
  BY <1>1 DEF IInv, TypeOK
<1>3. /\ disk' \in Seq(Piece)
      /\ Len(disk') = n
      /\ \A i \in 1 .. n : disk'[i] = disk[i]
  BY <1>1, <1>2
<1>4. InPlace'
  <2>1. Size' = Size
    OBVIOUS
  <2> QED BY <1>2, <1>3, <2>1 DEF IInv, InPlace
<1>5. ASSUME resume, status # 200 PROVE Kept(before, disk')
  <2>1. opened = Len(before) /\ Kept(before, disk)
    BY <1>5 DEF IInv, Arriving, FailureLeaves
  <2> QED BY <1>1, <1>2, <1>3, <2>1 DEF Kept, IInv, TypeOK
<1> QED BY <1>3, <1>4, <1>5

\* What ~Sink leaves of a body that was not all written.
LEMMA DiscardKeeps ==
    ASSUME IInv, pc = "body", Discard
    PROVE  /\ disk' \in Seq(Piece)
           /\ InPlace'
           /\ resume /\ status # 200 => Kept(before, disk')
           /\ ~resume => disk' = <<>>
<1>1. CASE resume
  BY <1>1, PrefixKeeps DEF Discard
<1>2. CASE ~resume
  <2>1. disk' = <<>> /\ Len(disk') = 0 /\ disk' \in Seq(Piece)
    BY <1>2 DEF Discard
  <2> QED BY <1>2, <2>1 DEF InPlace
<1> QED BY <1>1, <1>2

\* An attempt that ends without "Ok" keeps the invariant when the file that
\* it leaves is one it may leave.
LEMMA EndsUnfinished ==
    ASSUME IInv, pc # "idle",
           NEW r \in Failures \cup {"killed"}, Returns(r),
           UNCHANGED <<version, hop, request, answer>>,
           disk' \in Seq(Piece), InPlace',
           resume /\ status # 200 => Kept(before, disk'),
           ~resume /\ r \in Failures => disk' \in {<<>>, before}
    PROVE  IInv'
<1> USE DEF Returns, request, answer
<1>1. TypeOK'
  BY DEF IInv, TypeOK, Failures
<1>2. Asked' /\ Arriving' /\ OkIsWhole'
  BY DEF IInv, Asked, Arriving, OkIsWhole, Failures
<1>3. FailureLeaves'
  BY DEF FailureLeaves, Kept
<1> QED BY <1>1, <1>2, <1>3 DEF IInv

\* The same before there is a body: the file is the one that was there.
LEMMA EndsBeforeBody ==
    ASSUME IInv, pc \in {"connect", "head"},
           NEW r \in Failures \cup {"killed"}, Returns(r),
           UNCHANGED <<version, disk, hop, request, answer>>
    PROVE  IInv'
<1>1. disk' = before /\ disk = before /\ disk \in Seq(Piece) /\ InPlace /\ Size' = Size
  BY DEF IInv, Asked, TypeOK
<1>2. InPlace' /\ Kept(before, disk')
  <2>1. Len(before) \in Nat
    BY <1>1
  <2> QED BY <1>1, <2>1 DEF InPlace, Kept
<1> QED BY <1>1, <1>2, EndsUnfinished

\* A file that ends where its release ends, all of it in its place and of
\* that release, is the release.
LEMMA InPlaceIsWhole ==
    ASSUME NEW file \in Seq(Piece), NEW r \in Releases,
           \A i \in 1 .. Len(file) : file[i].at = i /\ i <= Size[file[i].of],
           \A i \in 1 .. Len(file) : file[i].of = r,
           Len(file) >= Size[r]
    PROVE  file = Whole(r)
<1>1. Len(file) \in Nat /\ Size[r] \in Nat \ {0}
  BY SizeAssumption DEF SizeAssumption
<1>2. Len(file) = Size[r]
  <2>1. Len(file) \in 1 .. Len(file)
    BY <1>1
  <2> QED BY <1>1, <2>1
<1>3. file = [i \in 1 .. Len(file) |-> file[i]]
  OBVIOUS
<1>4. ASSUME NEW i \in 1 .. Len(file) PROVE file[i] = [of |-> r, at |-> i]
  <2>1. file[i] \in Piece
    OBVIOUS
  <2> QED BY <2>1 DEF Piece
<1> QED BY <1>2, <1>3, <1>4 DEF Whole

\* A body that is over, whether or not its last pieces reach the disk.
LEMMA CloseKeeps ==
    ASSUME IInv, pc = "body", Close, framing # "unsized" => AllSent
    PROVE  IInv'
<1> USE DEF request, answer
<1>1. CASE Returns("Ok") /\ UNCHANGED disk
  <2>1. disk \in Seq(Piece) /\ Len(disk) \in Nat /\ Size' = Size /\ disk' = disk /\ InPlace
    BY <1>1 DEF IInv, TypeOK
  <2>2. TypeOK' /\ InPlace' /\ Asked' /\ Arriving' /\ FailureLeaves'
    <3>1. TypeOK'
      BY <1>1 DEF IInv, TypeOK, Close, Returns, Failures
    <3>2. InPlace'
      BY <2>1 DEF InPlace
    <3>3. Asked' /\ Arriving'
      BY <1>1 DEF IInv, Asked, Arriving, Close, Returns
    <3>4. FailureLeaves'
      BY <1>1, <2>1 DEF IInv, FailureLeaves, Kept, Close, Returns, Failures
    <3> QED BY <3>1, <3>2, <3>3, <3>4
  <2>3. OkIsWhole'
    <3> SUFFICES ASSUME \A i \in 1 .. Len(disk) : disk[i].of = served,
                        status = 416 \/ framing # "unsized"
                 PROVE  disk = Whole(served)
      BY <1>1 DEF Close, OkIsWhole, Whole
    <3>1. status # 416 /\ next = Len(disk) + 1
      BY DEF IInv, Arriving
    <3>2. served \in Releases /\ Size[served] \in Nat /\ next \in Nat
      BY SizeAssumption DEF SizeAssumption, IInv, TypeOK
    <3>3. Len(disk) >= Size[served]
      BY <3>1, <3>2, <2>1 DEF AllSent
    <3> QED BY <2>1, <3>2, <3>3, InPlaceIsWhole DEF InPlace
  <2> QED BY <2>2, <2>3 DEF IInv
<1>2. CASE Returns("WriteError") /\ Discard
  <2>1. "WriteError" \in Failures \cup {"killed"}
    BY DEF Failures
  <2> QED BY <1>2, <2>1, DiscardKeeps, EndsUnfinished DEF Close
<1> QED BY <1>1, <1>2 DEF Close

\* An attempt up to the head of the answer.
LEMMA RequestSteps ==
    ASSUME IInv,
           \/ \E continue \in BOOLEAN : Start(continue)
           \/ Connect \/ NoBody \/ Redirected \/ NothingLeft
    PROVE  IInv'
<1> USE DEF request, answer
<1>1. disk \in Seq(Piece) /\ Len(disk) \in Nat /\ Size' = Size /\ InPlace
  BY DEF IInv, TypeOK
<1>2. ASSUME NEW continue \in BOOLEAN, Start(continue) PROVE IInv'
  <2>1. disk' = disk /\ before' = disk
    BY <1>2 DEF Start
  <2>2. TypeOK'
    BY <1>2, <1>1, <2>1, RedirectsAssumption DEF RedirectsAssumption, IInv, TypeOK, Start
  <2>3. InPlace'
    BY <1>1, <2>1 DEF InPlace
  <2>4. Asked' /\ Arriving' /\ OkIsWhole'
    BY <1>2, <1>1, <2>1 DEF Asked, Arriving, OkIsWhole, Start
  <2>5. FailureLeaves'
    BY <1>2, <1>1, <2>1 DEF FailureLeaves, Kept, Failures, Start
  <2> QED BY <2>2, <2>3, <2>4, <2>5 DEF IInv
<1>3. ASSUME UNCHANGED <<disk, request, answer, result, version>>,
             pc \in {"connect", "head"}, pc' \in {"connect", "head"},
             hop' \in 0 .. MaxRedirects
      PROVE  IInv'
  <2>1. TypeOK'
    BY <1>3 DEF IInv, TypeOK
  <2>2. InPlace'
    BY <1>1, <1>3 DEF InPlace
  <2>3. Asked' /\ Arriving' /\ OkIsWhole'
    BY <1>3 DEF IInv, Asked, Arriving, OkIsWhole
  <2>4. FailureLeaves'
    BY <1>3 DEF IInv, FailureLeaves, Kept
  <2> QED BY <2>1, <2>2, <2>3, <2>4 DEF IInv
<1>4. CASE Connect
  <2>1. CASE pc' = "head" /\ UNCHANGED result
    <3>1. hop' \in 0 .. MaxRedirects
      BY <1>4 DEF Connect, IInv, TypeOK
    <3> QED BY <1>3, <1>4, <2>1, <3>1 DEF Connect
  <2>2. ASSUME NEW r \in {"NetworkError", "TlsError"}, Returns(r) PROVE IInv'
    BY <1>4, <2>2, EndsBeforeBody DEF Connect, Failures
  <2> QED BY <1>4, <2>1, <2>2 DEF Connect
<1>5. CASE NoBody
  BY <1>5, EndsBeforeBody DEF NoBody, Failures
<1>6. CASE Redirected
  <2>1. CASE hop = MaxRedirects
    BY <1>6, <2>1, EndsBeforeBody DEF Redirected, Failures
  <2>2. CASE hop # MaxRedirects
    <3>1. hop + 1 \in 0 .. MaxRedirects
      BY <2>2, RedirectsAssumption DEF RedirectsAssumption, IInv, TypeOK
    <3> QED BY <1>3, <1>6, <2>2, <3>1 DEF Redirected
  <2> QED BY <2>1, <2>2
<1>7. CASE NothingLeft
  <2>1. disk' = disk /\ disk = before /\ resume' = resume /\ resume
    BY <1>7 DEF NothingLeft, IInv, Asked
  <2>2. TypeOK'
    BY <1>7 DEF NothingLeft, IInv, TypeOK, Returns
  <2>3. InPlace'
    BY <1>1, <2>1 DEF InPlace
  <2>4. Asked' /\ Arriving'
    BY <1>7 DEF NothingLeft, IInv, Asked, Arriving, Returns
  <2>5. OkIsWhole'
    <3>1. version \in Releases /\ Len(disk) >= Size[version]
      BY <1>7, <2>1 DEF NothingLeft, IInv, Asked, TypeOK
    <3>2. (\A i \in 1 .. Len(disk) : disk[i].of = version) => disk = Whole(version)
      BY <1>1, <3>1, InPlaceIsWhole DEF InPlace
    <3>3. served' = version
      BY <1>7 DEF NothingLeft
    <3> QED BY <2>1, <3>2, <3>3 DEF OkIsWhole, Whole
  <2>6. FailureLeaves'
    BY <1>1, <1>7, <2>1 DEF FailureLeaves, Kept, NothingLeft, Returns, Failures
  <2> QED BY <2>2, <2>3, <2>4, <2>5, <2>6 DEF IInv
<1> QED BY <1>2, <1>4, <1>5, <1>6, <1>7

\* The answers that have a body.
LEMMA AnswerSteps ==
    ASSUME IInv, RestAnswered \/ WholeAnswered
    PROVE  IInv'
<1> USE DEF request, answer
<1>1. /\ disk \in Seq(Piece) /\ Len(disk) \in Nat /\ Size' = Size /\ InPlace
      /\ version \in Releases /\ Size[version] \in Nat \ {0} /\ already \in Nat
  BY SizeAssumption DEF SizeAssumption, IInv, TypeOK
<1>2. CASE RestAnswered
  <2>1. disk' = disk /\ disk = before /\ before' = before /\ resume
    BY <1>2 DEF RestAnswered, IInv, Asked
  <2>2. TypeOK'
    BY <1>1, <1>2 DEF RestAnswered, IInv, TypeOK
  <2>3. InPlace'
    BY <1>1, <2>1 DEF InPlace
  <2>4. Asked' /\ OkIsWhole'
    BY <1>2 DEF RestAnswered, IInv, Asked, OkIsWhole
  <2>5. Arriving'
    BY <1>1, <1>2, <2>1 DEF RestAnswered, IInv, Asked, Arriving
  <2>6. FailureLeaves'
    BY <1>1, <1>2, <2>1 DEF RestAnswered, FailureLeaves, Kept
  <2> QED BY <2>2, <2>3, <2>4, <2>5, <2>6 DEF IInv
<1>3. CASE WholeAnswered
  <2>1. disk' = <<>> /\ Len(disk') = 0 /\ disk' \in Seq(Piece)
    BY <1>3 DEF WholeAnswered
  <2>2. TypeOK'
    BY <1>1, <1>3, <2>1 DEF WholeAnswered, IInv, TypeOK
  <2>3. InPlace'
    BY <2>1 DEF InPlace
  <2>4. Asked' /\ OkIsWhole'
    BY <1>3 DEF WholeAnswered, IInv, Asked, OkIsWhole
  <2>5. Arriving'
    BY <1>1, <1>3, <2>1 DEF WholeAnswered, Arriving
  <2>6. FailureLeaves'
    BY <1>3, <2>1 DEF WholeAnswered, FailureLeaves, Failures, IInv, Asked
  <2> QED BY <2>2, <2>3, <2>4, <2>5, <2>6 DEF IInv
<1> QED BY <1>2, <1>3

\* A piece that is written.
LEMMA TakeStep == ASSUME IInv, Take PROVE IInv'
<1> USE DEF request, answer
<1>1. /\ disk \in Seq(Piece) /\ Len(disk) \in Nat /\ Size' = Size /\ InPlace
      /\ served \in Releases /\ Size[served] \in Nat \ {0}
      /\ next \in Nat \ {0} /\ next = Len(disk) + 1 /\ next <= Size[served]
      /\ opened \in Nat /\ opened <= Len(disk)
  BY SizeAssumption DEF SizeAssumption, IInv, TypeOK, Arriving, Take, AllSent
<1>2. DEFINE piece == [of |-> served, at |-> next]
<1>3. piece \in Piece
  BY <1>1 DEF Piece
<1>4. /\ disk' = Append(disk, piece)
      /\ disk' \in Seq(Piece)
      /\ Len(disk') = Len(disk) + 1
      /\ \A i \in 1 .. Len(disk) : disk'[i] = disk[i]
      /\ disk'[Len(disk) + 1] = piece
  <2> HIDE DEF piece
  <2>1. disk' = Append(disk, piece)
    BY DEF Take, piece
  <2> QED BY <1>1, <1>3, <2>1
<1>5. TypeOK'
  BY <1>1, <1>4 DEF IInv, TypeOK, Take
<1>6. InPlace'
  <2> SUFFICES ASSUME NEW i \in 1 .. Len(disk')
               PROVE  disk'[i].at = i /\ i <= Size[disk'[i].of]
    BY <1>1 DEF InPlace
  <2>1. CASE i \in 1 .. Len(disk)
    BY <1>1, <1>4, <2>1 DEF InPlace
  <2>2. CASE i = Len(disk) + 1
    BY <1>1, <1>4, <2>2
  <2> QED BY <1>1, <1>4, <2>1, <2>2
<1>7. Asked' /\ OkIsWhole'
  BY DEF Take, IInv, Asked, OkIsWhole
<1>8. Arriving'
  BY <1>1, <1>4 DEF Take, IInv, Arriving
<1>9. FailureLeaves'
  <2>1. resume /\ status # 200 => Kept(before, disk')
    <3> SUFFICES ASSUME Kept(before, disk) PROVE Kept(before, disk')
      BY DEF IInv, FailureLeaves
    <3>1. Len(before) \in Nat
      BY DEF IInv, TypeOK
    <3> QED BY <1>1, <1>4, <3>1 DEF Kept
  <2>2. result' = "none"
    BY DEF Take, IInv, Asked
  <2> QED BY <2>1, <2>2 DEF FailureLeaves, Kept, Take, Failures
<1> QED BY <1>5, <1>6, <1>7, <1>8, <1>9 DEF IInv

\* The ways a body ends.
LEMMA BodySteps ==
    ASSUME IInv, BodyComplete \/ Closed \/ Stalled \/ WriteFails
    PROVE  IInv'
<1>1. CASE BodyComplete
  BY <1>1, CloseKeeps DEF BodyComplete, MayBeComplete
<1>2. CASE Closed
  <2>1. CASE framing = "unsized"
    BY <1>2, <2>1, CloseKeeps DEF Closed
  <2>2. CASE framing # "unsized"
    BY <1>2, <2>2, DiscardKeeps, EndsUnfinished DEF Closed, Failures
  <2> QED BY <2>1, <2>2
<1>3. CASE Stalled
  BY <1>3, DiscardKeeps, EndsUnfinished DEF Stalled, Failures
<1>4. CASE WriteFails
  BY <1>4, DiscardKeeps, EndsUnfinished DEF WriteFails, Failures
<1> QED BY <1>1, <1>2, <1>3, <1>4

\* The client is killed, or the server has another release.
LEMMA OutsideSteps == ASSUME IInv, Killed \/ Replaced PROVE IInv'
<1> USE DEF request, answer
<1>1. disk \in Seq(Piece) /\ Size' = Size /\ InPlace
  BY DEF IInv, TypeOK
<1>2. CASE Killed
  <2>1. "killed" \in Failures \cup {"killed"} /\ "killed" \notin Failures
    BY DEF Failures
  <2>2. CASE pc = "body"
    BY <1>2, <2>1, <2>2, PrefixKeeps, EndsUnfinished DEF Killed
  <2>3. CASE pc # "body"
    <3>1. pc \in {"connect", "head"}
      BY <1>2, <2>3 DEF Killed, IInv, TypeOK
    <3> QED BY <1>2, <2>1, <2>3, <3>1, EndsBeforeBody DEF Killed
  <2> QED BY <2>2, <2>3
<1>3. CASE Replaced
  <2>1. TypeOK'
    BY <1>3 DEF Replaced, IInv, TypeOK
  <2>2. InPlace'
    BY <1>1, <1>3 DEF Replaced, InPlace
  <2>3. Asked' /\ Arriving' /\ OkIsWhole' /\ FailureLeaves'
    BY <1>3 DEF Replaced, IInv, Asked, Arriving, OkIsWhole, Whole, FailureLeaves, Kept
  <2> QED BY <2>1, <2>2, <2>3 DEF IInv
<1> QED BY <1>2, <1>3

LEMMA NextIInv == IInv /\ [Next]_vars => IInv'
<1> SUFFICES ASSUME IInv, [Next]_vars PROVE IInv'
  OBVIOUS
<1>1. CASE Next
  BY <1>1, RequestSteps, AnswerSteps, TakeStep, BodySteps, OutsideSteps DEF Next
<1>2. CASE UNCHANGED vars
  <2> USE <1>2 DEF vars
  <2>1. TypeOK' /\ InPlace' /\ Asked' /\ Arriving'
    BY DEF IInv, TypeOK, InPlace, Asked, Arriving
  <2>2. OkIsWhole' /\ FailureLeaves'
    BY DEF IInv, OkIsWhole, Whole, FailureLeaves, Kept
  <2> QED BY <2>1, <2>2 DEF IInv
<1> QED BY <1>1, <1>2

\* The inductive invariant: what is on the disk is in its place, and a body
\* goes on where the file ends.
THEOREM Inductive == Spec => []IInv
BY InitIInv, NextIInv, PTL DEF Spec

\* fetch()'s state keeps its types, for any releases and any number of
\* redirects.
THEOREM TypeCorrect == Spec => []TypeOK
<1>1. IInv => TypeOK
  BY DEF IInv
<1> QED BY <1>1, Inductive, PTL

\* A download that says Ok has left the server's file, however many attempts
\* with and without --continue it took, however they were stopped.
THEOREM OkMeansWhole == Spec => []OkIsWhole
<1>1. IInv => OkIsWhole
  BY DEF IInv
<1> QED BY <1>1, Inductive, PTL

\* A stopped download loses nothing with --continue and leaves no part
\* without it.
THEOREM StoppedIsHarmless == Spec => []FailureLeaves
<1>1. IInv => FailureLeaves
  BY DEF IInv
<1> QED BY <1>1, Inductive, PTL
=============================================================================
