------------------------------- MODULE Fetch -------------------------------
(***************************************************************************)
(* abfetch's download (src/tools/abfetch/fetch.cpp): one URL into one      *)
(* file, tried again and again by whoever wants the file, with --continue  *)
(* or without, against a server that may or may not do ranges and may have *)
(* another release of the file at the next try.                            *)
(*                                                                         *)
(* The file is a sequence of pieces; a piece remembers the release it came *)
(* from and its place there, so that the file on the disk can be compared  *)
(* with the server's.  No pieces stand for a missing and for an empty      *)
(* file, which fetch() treats alike.  --head and stdout are left out.      *)
(***************************************************************************)
EXTENDS Integers, Sequences

CONSTANTS
    Releases,       \* what the server may have at the URL, one at a time
    Size,           \* the number of pieces of a release
    MaxRedirects    \* Options::maxRedirects

ASSUME SizeAssumption == Size \in [Releases -> Nat \ {0}]
ASSUME RedirectsAssumption == MaxRedirects \in Nat

VARIABLES
    version,    \* the release the server has now
    disk,       \* the output file
    pc,         \* where the attempt is; "idle" between two attempts
    resume,     \* --continue was given
    hop,        \* redirects followed
    already,    \* what was there when the attempt started: the Range asked for
    before,     \* the file as it was then
    status,     \* the status of the answer with the body; 0 before it
    framing,    \* how the body's end is told
    served,     \* the release that is being sent
    next,       \* the place of the body's next piece
    opened,     \* the length of the file once the Sink had opened it
    result      \* what the last attempt returned

vars == <<version, disk, pc, resume, hop, already, before, status, framing,
          served, next, opened, result>>
answer == <<status, framing, served, next, opened>>
request == <<resume, already, before>>

Piece == [of : Releases, at : Nat \ {0}]
Framings == {"sized", "chunked", "unsized"}
Failures == {"NetworkError", "TlsError", "HttpError", "WriteError",
             "Incomplete", "TooManyRedirects"}

Init ==
    /\ version \in Releases /\ served = version
    /\ disk = <<>> /\ before = <<>>
    /\ pc = "idle" /\ result = "none"
    /\ resume = FALSE /\ already = 0 /\ hop = 0
    /\ status = 0 /\ framing = "unsized" /\ next = 1 /\ opened = 0
-----------------------------------------------------------------------------
(* The ways an attempt ends. *)

Returns(r) == pc' = "idle" /\ result' = r

(* What reached the disk of what was written since the file was opened:     *)
(* stdio holds the rest back until it is flushed, and the flush may fail.   *)
SomeIsLost ==
    \E n \in opened .. Len(disk) : disk' = SubSeq(disk, 1, n)

(* A mutant: the file goes with --continue too. *)
Discard_Always == disk' = <<>>

(* ~Sink -> discard(): the file goes, unless --continue keeps it, with what *)
(* the fclose still gets onto the disk.                                     *)
Discard == IF resume THEN SomeIsLost ELSE disk' = <<>>

(* The body is all there: Sink::close() flushes it, or cannot. *)
Close ==
    /\ \/ Returns("Ok") /\ UNCHANGED disk
       \/ Returns("WriteError") /\ Discard
    /\ UNCHANGED <<version, hop, request, answer>>
-----------------------------------------------------------------------------
(* One attempt. *)

Start(continue) ==
    /\ pc = "idle"
    /\ pc' = "connect"
    /\ resume' = continue
    /\ already' = IF continue THEN Len(disk) ELSE 0
    /\ before' = disk
    /\ hop' = 0 /\ status' = 0 /\ result' = "none"
    /\ UNCHANGED <<version, disk, framing, served, next, opened>>

Connect ==
    /\ pc = "connect"
    /\ \/ pc' = "head" /\ UNCHANGED result
       \/ \E r \in {"NetworkError", "TlsError"} : Returns(r)
    /\ UNCHANGED <<version, disk, hop, request, answer>>

(* No answer, none that can be read, none that is 2xx, or an output file    *)
(* that cannot be opened: the file that was there is not touched.           *)
NoBody ==
    /\ pc = "head"
    /\ \E r \in {"NetworkError", "Incomplete", "HttpError", "WriteError"} :
          Returns(r)
    /\ UNCHANGED <<version, disk, hop, request, answer>>

(* A mutant: one redirect more than Options::maxRedirects is followed. *)
Redirected_OneMore ==
    /\ pc = "head"
    /\ IF hop > MaxRedirects
       THEN Returns("TooManyRedirects") /\ UNCHANGED hop
       ELSE pc' = "connect" /\ hop' = hop + 1 /\ UNCHANGED result
    /\ UNCHANGED <<version, disk, request, answer>>

Redirected ==
    /\ pc = "head"
    /\ IF hop = MaxRedirects
       THEN Returns("TooManyRedirects") /\ UNCHANGED hop
       ELSE pc' = "connect" /\ hop' = hop + 1 /\ UNCHANGED result
    /\ UNCHANGED <<version, disk, request, answer>>

(* 416: the range begins where the server's file ends, or after it. *)
NothingLeft ==
    /\ pc = "head"
    /\ already > 0 /\ already >= Size[version]
    /\ Returns("Ok")
    /\ status' = 416 /\ served' = version
    /\ UNCHANGED <<version, disk, hop, request, framing, next, opened>>

(* 206: the rest, opened with "ab". *)
RestAnswered ==
    /\ pc = "head"
    /\ already > 0 /\ already < Size[version]
    /\ pc' = "body"
    /\ status' = 206 /\ framing' \in Framings
    /\ served' = version /\ next' = already + 1
    /\ opened' = Len(disk)
    /\ UNCHANGED <<version, disk, hop, request, result>>

(* A mutant: what a server without ranges sends is appended like the rest. *)
WholeAnswered_Appended ==
    /\ pc = "head"
    /\ pc' = "body"
    /\ status' = 200 /\ framing' \in Framings
    /\ served' = version /\ next' = 1
    /\ disk' = IF resume THEN disk ELSE <<>>
    /\ opened' = Len(disk')
    /\ UNCHANGED <<version, hop, request, result>>

(* 200: the whole file, asked for or not, opened with "wb". *)
WholeAnswered ==
    /\ pc = "head"
    /\ pc' = "body"
    /\ status' = 200 /\ framing' \in Framings
    /\ served' = version /\ next' = 1
    /\ disk' = <<>> /\ opened' = 0
    /\ UNCHANGED <<version, hop, request, result>>

AllSent == next > Size[served]

(* complete(): a length tells it of the last piece; of chunks an empty one  *)
(* does that comes after the last piece, or does not come.                  *)
MayBeComplete == framing # "unsized" /\ AllSent
MayWaitForMore == framing = "sized" => ~AllSent

Take ==
    /\ pc = "body"
    /\ ~AllSent
    /\ disk' = Append(disk, [of |-> served, at |-> next])
    /\ next' = next + 1
    /\ UNCHANGED <<version, pc, hop, request, result,
                   status, framing, served, opened>>

BodyComplete ==
    /\ pc = "body"
    /\ MayBeComplete
    /\ Close

(* The connection is closed or reset: with a length or chunks the body was  *)
(* cut, if only before the last chunk; without them this is its end.        *)
Closed ==
    /\ pc = "body"
    /\ MayWaitForMore
    /\ IF framing = "unsized"
       THEN Close
       ELSE /\ Returns("Incomplete")
            /\ Discard
            /\ UNCHANGED <<version, hop, request, answer>>

(* Nothing for stallTimeout, or a chunk that cannot be read. *)
Stalled ==
    /\ pc = "body"
    /\ MayWaitForMore
    /\ \/ Returns("NetworkError")
       \/ framing = "chunked" /\ Returns("Incomplete")
    /\ Discard
    /\ UNCHANGED <<version, hop, request, answer>>

(* The disk is full, or gone. *)
WriteFails ==
    /\ pc = "body"
    /\ ~AllSent
    /\ Returns("WriteError")
    /\ Discard
    /\ UNCHANGED <<version, hop, request, answer>>
-----------------------------------------------------------------------------
(* The launcher kills its download, or the power goes: no destructor runs. *)
Killed ==
    /\ pc # "idle"
    /\ Returns("killed")
    /\ IF pc = "body" THEN SomeIsLost ELSE UNCHANGED disk
    /\ UNCHANGED <<version, hop, request, answer>>

(* A new release. *)
Replaced ==
    /\ version' \in Releases \ {version}
    /\ UNCHANGED <<disk, pc, resume, hop, already, before, status, framing,
                   served, next, opened, result>>

Next ==
    \/ \E continue \in BOOLEAN : Start(continue)
    \/ Connect \/ NoBody \/ Redirected \/ NothingLeft
    \/ RestAnswered \/ WholeAnswered
    \/ Take \/ BodyComplete \/ Closed \/ Stalled \/ WriteFails
    \/ Killed \/ Replaced

Spec == Init /\ [][Next]_vars
-----------------------------------------------------------------------------
(* The types of the attempt's state (fetch()'s locals and the Sink's). *)
TypeOK ==
    /\ version \in Releases /\ served \in Releases
    /\ disk \in Seq(Piece) /\ before \in Seq(Piece)
    /\ pc \in {"idle", "connect", "head", "body"}
    /\ result \in Failures \cup {"none", "Ok", "killed"}
    /\ resume \in BOOLEAN
    /\ hop \in 0 .. MaxRedirects
    /\ already \in Nat
    /\ status \in {0, 200, 206, 416}
    /\ framing \in Framings
    /\ next \in Nat \ {0} /\ opened \in Nat

Whole(r) == [i \in 1 .. Size[r] |-> [of |-> r, at |-> i]]

(* "Ok" means the server's file, whatever attempts stopped before, with     *)
(* and without --continue, killed or cut: unless some of it was kept from   *)
(* another release (fetch() asks for no If-Range and leaves the sum to its  *)
(* caller), or the body had no length and a close was all there was to go   *)
(* by.                                                                      *)
OkIsWhole ==
    (/\ result = "Ok"
     /\ \A i \in 1 .. Len(disk) : disk[i].of = served
     /\ status = 416 \/ framing # "unsized")
        => disk = Whole(served)

Kept(old, new) ==
    Len(old) <= Len(new) /\ \A i \in 1 .. Len(old) : new[i] = old[i]

(* What a stopped download leaves (fetch.h:33, main.cpp:14-16): with        *)
(* --continue every piece that was there before, unless the server started  *)
(* the file over; without it the file as it was, or none, never a part.     *)
FailureLeaves ==
    /\ resume /\ status # 200 => Kept(before, disk)
    /\ ~resume /\ result \in Failures => disk \in {<<>>, before}
=============================================================================
