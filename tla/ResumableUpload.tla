-------------------------- MODULE ResumableUpload --------------------------
(***************************************************************************)
(* One large video or recording on its way from a device to the vault:     *)
(* uploadInParts and encryptAndUpload (web transfer.ts), the journal that  *)
(* lets a killed upload continue (resumeupload.ts), the store's scan,      *)
(* resume and discard of interrupted uploads (store.ts), and the server's  *)
(* part sessions (routes/storage.ts) as the device meets them.             *)
(*                                                                         *)
(* A chunk is known by its place in the file, the format header by 0; a    *)
(* part is the chunks it carries.  Requests travel apart: one that was     *)
(* sent may arrive late, twice, or after the app that sent it was killed.  *)
(***************************************************************************)
EXTENDS Integers, FiniteSets, Sequences, SequencesExt, Functions

CONSTANTS
    ChunkCount,  \* chunks in the file
    MaxSpan,     \* CHUNKS_PER_PART: chunks a part may carry
    Rows,        \* file rows the uploads of this source may create
    MaxKills     \* bound: kills of the app

NoRow == "no row"

ASSUME UploadAssumption ==
    /\ ChunkCount \in Nat \ {0} /\ MaxSpan \in Nat \ {0} /\ MaxKills \in Nat
    /\ IsFiniteSet(Rows) /\ NoRow \notin Rows

VARIABLES
    source,   \* the file on the device: as recorded, other bytes of that size, or gone
    row,      \* per row: its state on the server
    landed,   \* per row: the content committed, <<>> before
    session,  \* per row: its part session on the server
    parts,    \* per row: what the session holds, by part number
    drawn,    \* per row and part number: the source those bytes were read from
    up,       \* the running upload's local variables
    journal,  \* the resume record in local storage
    net,      \* requests and answers on their way
    kills     \* kills so far

vars == <<source, row, landed, session, parts, drawn, up, journal, net, kills>>
serverVars == <<row, landed, session, parts, drawn>>

PARTS_IN_FLIGHT == 2

-----------------------------------------------------------------------------

NoRecord == [row |-> NoRow, parts |-> <<>>]

(* uploadInParts' variables: the next chunk and the last part number taken *)
(* so far, the recorded parts still to walk, and those in flight.          *)
Upload(pc, r, next, last, plan, flying) ==
    [pc |-> pc, row |-> r, next |-> next, last |-> last, plan |-> plan, flying |-> flying]
Without(pc) == Upload(pc, NoRow, 1, 0, <<>>, {})
Idle == Without("idle")

Chunk == 1..ChunkCount
PartNo == 1..ChunkCount
File == [i \in 1..ChunkCount + 1 |-> i - 1]  \* the header and every chunk

Part == [no : PartNo, first : Chunk, n : 1..MaxSpan, done : BOOLEAN]
Body(part) == (IF part.no = 1 THEN <<0>> ELSE <<>>)
              \o [i \in 1..part.n |-> part.first + i - 1]
Bodies == {Body(p) : p \in {q \in Part : q.first + q.n - 1 <= ChunkCount}}

Edition == {"recorded", "changed"}

Message == [t : {"part"}, r : Rows, part : Part, from : Edition]
           \cup [t : {"complete", "ok", "refused", "abort", "trash", "delete"}, r : Rows]

PartMsg(r, part, from) ==
    [t |-> "part", r |-> r, part |-> [part EXCEPT !.done = FALSE], from |-> from]
Msg(t, r) == [t |-> t, r |-> r]
Msgs(ts, r) == {Msg(t, r) : t \in ts}

(* The session's parts are contiguous from 1 and as long, together, as the *)
(* size declared when it began.                                            *)
Stored(r) == {no \in PartNo : parts[r][no] # <<>>}
Assembled(r) == FlattenSeq([no \in 1..Cardinality(Stored(r)) |-> parts[r][no]])
Bytes(r, nos) == FoldFunctionOnSet(+, 0, [no \in PartNo |-> Len(parts[r][no])], nos)
Whole(r) == /\ Stored(r) = 1..Cardinality(Stored(r))
            /\ Len(Assembled(r)) = Len(File)

UploadTypeOK ==
    /\ source \in Edition \cup {"gone"} /\ kills \in 0..MaxKills /\ net \subseteq Message
    /\ row \in [Rows -> {"unused", "live", "trashed", "gone"}]
    /\ session \in [Rows -> {"none", "open", "closed"}]
    /\ \A r \in Rows : /\ parts[r] \in [PartNo -> Bodies \cup {<<>>}]
                       /\ drawn[r] \in [PartNo -> Edition]
                       /\ landed[r] = <<>> \/ Len(landed[r]) = Len(File)
    /\ up.pc \in {"idle", "created", "sending", "completing", "closed"}
    /\ up.row \in Rows \cup {NoRow} /\ up.next \in 1..ChunkCount + 1
    /\ up.last \in 0..ChunkCount /\ up.plan \in Seq(Part) /\ up.flying \subseteq Part
    /\ Cardinality(up.flying) <= PARTS_IN_FLIGHT
    /\ journal = NoRecord \/ (journal.row \in Rows /\ journal.parts \in Seq(Part))

Init ==
    /\ source = "recorded" /\ kills = 0 /\ net = {}
    /\ row = [r \in Rows |-> "unused"] /\ session = [r \in Rows |-> "none"]
    /\ landed = [r \in Rows |-> <<>>]
    /\ parts = [r \in Rows |-> [no \in PartNo |-> <<>>]]
    /\ drawn = [r \in Rows |-> [no \in PartNo |-> "recorded"]]
    /\ up = Idle /\ journal = NoRecord

-----------------------------------------------------------------------------
(* The device. *)

(* encryptAndUpload's createFile.  The journal only knows the row once its *)
(* session has begun.                                                      *)
Create ==
    /\ up.pc = "idle" /\ source = "recorded" /\ journal = NoRecord
    /\ \E r \in Rows :
          /\ row[r] = "unused"
          /\ row' = [row EXCEPT ![r] = "live"]
          /\ up' = Upload("created", r, 1, 0, <<>>, {})
    /\ UNCHANGED <<source, landed, session, parts, drawn, journal, net, kills>>

(* beginPartUpload, then journal.begin. *)
Begin ==
    /\ up.pc = "created"
    /\ session' = [session EXCEPT ![up.row] = "open"]
    /\ journal' = [row |-> up.row, parts |-> <<>>]
    /\ up' = [up EXCEPT !.pc = "sending"]
    /\ UNCHANGED <<source, row, landed, parts, drawn, net, kills>>

(* The parts an earlier life recorded are walked with their exact spans: a *)
(* delivered one is passed over, another is sealed and sent again.         *)
Sending == up.pc = "sending" /\ up.next <= ChunkCount /\ source # "gone"
Recorded == Sending /\ up.plan # <<>>

PassOver ==
    /\ Recorded /\ Head(up.plan).done
    /\ up' = Upload("sending", up.row, up.next + Head(up.plan).n, up.last,
                     Tail(up.plan), up.flying)
    /\ UNCHANGED <<source, serverVars, journal, net, kills>>

(* BUG: the wait lets one more go *)
CanFlyOver == Cardinality(up.flying) <= PARTS_IN_FLIGHT

CanFly == Cardinality(up.flying) < PARTS_IN_FLIGHT

Launched(part, plan) ==
    /\ net' = net \cup {PartMsg(up.row, part, source)}
    /\ up' = Upload("sending", up.row, up.next + part.n,
                     IF part.no > up.last THEN part.no ELSE up.last,
                     plan, up.flying \cup {part})
    /\ UNCHANGED <<source, serverVars, kills>>

(* BUG: the span is sized again to the pace of the moment *)
ReplayResized ==
    /\ Recorded /\ ~Head(up.plan).done /\ CanFly
    /\ \E n \in 1..Head(up.plan).n : Launched([Head(up.plan) EXCEPT !.n = n], Tail(up.plan))
    /\ UNCHANGED journal

Replay ==
    /\ Recorded /\ ~Head(up.plan).done /\ CanFly
    /\ Launched(Head(up.plan), Tail(up.plan))
    /\ UNCHANGED journal

(* A new part carries as many chunks as the pace allows, or the last ones; *)
(* it is recorded before it is sent.                                       *)
NewPart ==
    /\ Sending /\ up.plan = <<>> /\ CanFly
    /\ \E n \in 1..MaxSpan :
          LET part == [no |-> up.last + 1, first |-> up.next, n |-> n, done |-> FALSE]
          IN /\ up.next + n - 1 <= ChunkCount
             /\ Launched(part, <<>>)
             /\ journal' = [journal EXCEPT !.parts = Append(@, part)]

(* An attempt was answered: sendPartWithRetry returns, journal.part says   *)
(* done.                                                                   *)
Delivered(part) ==
    /\ up.pc = "sending" /\ part \in up.flying
    /\ session[up.row] = "open" /\ parts[up.row][part.no] = Body(part)
    /\ up' = [up EXCEPT !.flying = @ \ {part}]
    /\ journal' = [journal EXCEPT !.parts =
                       [i \in DOMAIN @ |-> IF @[i].no = part.no
                                           THEN [@[i] EXCEPT !.done = TRUE] ELSE @[i]]]
    /\ UNCHANGED <<source, serverVars, net, kills>>

Complete ==
    /\ up.pc = "sending" /\ up.next > ChunkCount /\ up.flying = {}
    /\ up' = [up EXCEPT !.pc = "completing"]
    /\ net' = net \cup {Msg("complete", up.row)}
    /\ UNCHANGED <<source, serverVars, journal, kills>>

(* The content is on the server: the record has served its purpose. *)
Finish ==
    /\ up.pc = "completing" /\ Msg("ok", up.row) \in net
    /\ up' = Idle /\ journal' = NoRecord /\ net' = net \ {Msg("ok", up.row)}
    /\ UNCHANGED <<source, serverVars, kills>>

(* A file whose content never landed must not linger as an empty row. *)
Swept(r) == net \cup Msgs({"abort", "trash"}, r)

(* A surfaced error: a part given up, a cancel, the bytes unreadable, a    *)
(* completion refused, or whose answer is lost.                            *)
Fail ==
    /\ up.pc \in {"created", "sending", "completing"}
    /\ net' = Swept(up.row) \ {Msg("refused", up.row)}
    /\ up' = Idle /\ journal' = NoRecord
    /\ UNCHANGED <<source, serverVars, kills>>

Kill ==
    /\ up.pc # "closed" /\ kills < MaxKills
    /\ up' = Without("closed") /\ kills' = kills + 1
    /\ UNCHANGED <<source, serverVars, journal, net>>

(* The staged or watched file is replaced by one of the same size, or is   *)
(* removed or replaced by one of another.                                  *)
SourceTurns ==
    /\ \/ source = "recorded" /\ source' = "changed"
       \/ source # "gone" /\ source' = "gone"
    /\ UNCHANGED <<serverVars, up, journal, net, kills>>

(* The next open: scanResumableUploads.  nativeStagedSource compares sizes *)
(* and nothing else.                                                       *)
Open ==
    /\ up.pc = "closed" /\ up' = Idle
    /\ IF journal # NoRecord /\ source = "gone"
       THEN net' = Swept(journal.row) /\ journal' = NoRecord
       ELSE UNCHANGED <<net, journal>>
    /\ UNCHANGED <<source, serverVars, kills>>

(* resumeUpload and discardResume, on a record the scan kept. *)
Resume ==
    /\ up.pc = "idle" /\ journal # NoRecord
    /\ IF source # "gone"
       THEN /\ up' = Upload("sending", journal.row, 1, Len(journal.parts),
                             journal.parts, {})
            /\ UNCHANGED journal
       ELSE journal' = NoRecord /\ UNCHANGED up
    /\ UNCHANGED <<source, serverVars, net, kills>>

Discard ==
    /\ up.pc = "idle" /\ journal # NoRecord
    /\ journal' = NoRecord /\ net' = Swept(journal.row)
    /\ UNCHANGED <<source, serverVars, up, kills>>

-----------------------------------------------------------------------------
(* The server. *)

(* A part may arrive again, and late. *)
PutPart ==
    /\ \E m \in {x \in net : x.t = "part"} :
          /\ session[m.r] = "open"
          /\ Len(Body(m.part)) + Bytes(m.r, Stored(m.r) \ {m.part.no}) <= Len(File)
          /\ parts' = [parts EXCEPT ![m.r][m.part.no] = Body(m.part)]
          /\ drawn' = [drawn EXCEPT ![m.r][m.part.no] = m.from]
    /\ UNCHANGED <<source, row, landed, session, up, journal, net, kills>>

(* The joined content and the session's end are one transaction. *)
Commit(r) ==
    /\ Msg("complete", r) \in net /\ session[r] = "open" /\ Whole(r) /\ row[r] # "gone"
    /\ landed' = [landed EXCEPT ![r] = Assembled(r)]
    /\ session' = [session EXCEPT ![r] = "closed"]
    /\ net' = (net \ {Msg("complete", r)}) \cup {Msg("ok", r)}
    /\ UNCHANGED <<source, row, parts, drawn, up, journal, kills>>

Refuse(r) ==
    /\ Msg("complete", r) \in net
    /\ session[r] # "open" \/ ~Whole(r) \/ row[r] = "gone"
    /\ session' = [session EXCEPT ![r] = IF Whole(r) THEN "closed" ELSE @]
    /\ net' = (net \ {Msg("complete", r)}) \cup {Msg("refused", r)}
    /\ UNCHANGED <<source, row, landed, parts, drawn, up, journal, kills>>

(* A session older than a day goes with anyone's next begin. *)
Expire(r) ==
    /\ session[r] = "open"
    /\ session' = [session EXCEPT ![r] = "closed"]
    /\ UNCHANGED <<source, row, landed, parts, drawn, up, journal, net, kills>>

AbortParts(r) ==
    /\ Msg("abort", r) \in net
    /\ net' = net \ {Msg("abort", r)}
    /\ session' = [session EXCEPT ![r] = IF @ = "open" THEN "closed" ELSE @]
    /\ UNCHANGED <<source, row, landed, parts, drawn, up, journal, kills>>

(* Trash, and once that was answered delete for good. *)
Trash(r) ==
    /\ Msg("trash", r) \in net /\ row[r] = "live"
    /\ row' = [row EXCEPT ![r] = "trashed"]
    /\ net' = (net \ {Msg("trash", r)}) \cup {Msg("delete", r)}
    /\ UNCHANGED <<source, landed, session, parts, drawn, up, journal, kills>>

Delete(r) ==
    /\ Msg("delete", r) \in net /\ row[r] = "trashed"
    /\ row' = [row EXCEPT ![r] = "gone"] /\ net' = net \ {Msg("delete", r)}
    /\ UNCHANGED <<source, landed, session, parts, drawn, up, journal, kills>>

(* The removal is best effort. *)
LoseRemoval ==
    /\ \E m \in net : m.t \in {"abort", "trash", "delete"} /\ net' = net \ {m}
    /\ UNCHANGED <<source, serverVars, up, journal, kills>>

-----------------------------------------------------------------------------

Next ==
    \/ Create \/ Begin \/ PassOver \/ Replay \/ NewPart \/ Complete \/ Finish
    \/ Fail \/ Kill \/ SourceTurns \/ Open \/ Resume \/ Discard
    \/ \E part \in up.flying : Delivered(part)
    \/ PutPart \/ LoseRemoval
    \/ \E r \in Rows : \/ Commit(r) \/ Refuse(r) \/ Expire(r) \/ AbortParts(r)
                       \/ Trash(r) \/ Delete(r)

Spec == Init /\ [][Next]_vars

-----------------------------------------------------------------------------

(* What is committed is the header and every chunk, in order, whatever     *)
(* kills, resumes, resizings and late parts went before it.                *)
AssembledWhole == \A r \in Rows : landed[r] # <<>> => landed[r] = File

(* "verifying the bytes on disk are still the recorded ones by size": the  *)
(* parts of a committed file were all read from one and the same source.   *)
OneSource ==
    \A r \in Rows : landed[r] # <<>> =>
        \A m, n \in Stored(r) : drawn[r][m] = drawn[r][n]

(* "A file whose content never landed must not linger as an empty row": a  *)
(* file whose content did land is never removed by its own upload's        *)
(* cleaning up.                                                            *)
LandedStays == \A r \in Rows : landed[r] # <<>> => row[r] = "live"
=============================================================================
