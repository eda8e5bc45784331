---------------------------- MODULE RequestInbox ----------------------------
(***************************************************************************)
(* File requests (routes/requests.ts): strangers begin submissions at an   *)
(* account's public link and upload their blobs, the owner's devices file  *)
(* or discard what arrived, and a filed submission is from then on a file  *)
(* like any other, over the blobs the stranger uploaded.                   *)
(*                                                                         *)
(* Calls interleave at every database statement and at every blob          *)
(* operation, as on PostgreSQL; SQLite's interleavings are among them.     *)
(* A blob is known by its size alone, which is what the rows record and    *)
(* what a download announces.  "thumb" stands for both blobs that go with  *)
(* the data, the thumbnail and the search index.                           *)
(***************************************************************************)
EXTENDS Integers, FiniteSets, FiniteSetsExt, Functions

CONSTANTS
    Submissions,  \* ids a submission may get; a filed one keeps its id
    Calls,        \* requests in flight, from senders and from the owner
    Sizes,        \* sizes blobs have
    MaxPending,   \* MAX_PENDING_UPLOADS
    Quota         \* the owner's quota

ASSUME InboxAssumption ==
    /\ Sizes \subseteq Nat \ {0} /\ Sizes # {} /\ IsFiniteSet(Sizes)
    /\ IsFiniteSet(Submissions) /\ IsFiniteSet(Calls)
    /\ MaxPending \in Nat \ {0} /\ Quota \in Nat

VARIABLES
    link,       \* the file_requests row; "closed" once it resolves no more
    row,        \* request_uploads
    filed,      \* the files row under a submission's id
    blob,       \* what the blob store holds under its id
    call        \* what a call in flight holds in local variables

inboxVars == <<link, row, filed, blob, call>>

-----------------------------------------------------------------------------
(* Types *)

None == 0
Kinds == {"data", "thumb"}
Idle == [pc |-> "idle"]

Row == [state : {"unused", "open", "gone"}, uploaded : BOOLEAN, consumed : BOOLEAN,
        data : Sizes \cup {None}, thumb : Sizes \cup {None}]
Filed == [state : {"none", "live", "deleted"},
          data : Sizes \cup {None}, thumb : Sizes \cup {None}]

CallType ==
    {Idle}
    \cup [pc : {"begin", "counted"}]
    \cup [pc : {"upload", "admitted", "stored"}, sub : Submissions, kind : Kinds,
          size : Sizes]
    \cup [pc : {"accept"}, sub : Submissions,
          data : Sizes, thumb : Sizes \cup {None}]
    \cup [pc : {"discard", "removeData", "removeThumb"}, sub : Submissions]
    \cup [pc : {"preview", "drawn", "previewed"}, sub : Submissions, size : Sizes,
          freed : Sizes \cup {None}]

InboxTypeOK ==
    /\ link \in {"none", "open", "closed"}
    /\ row \in [Submissions -> Row]
    /\ filed \in [Submissions -> Filed]
    /\ blob \in [Submissions -> [Kinds -> Sizes \cup {None}]]
    /\ call \in [Calls -> CallType]

InboxInit ==
    /\ link = "none"
    /\ row = [s \in Submissions |-> [state |-> "unused", uploaded |-> FALSE,
                 consumed |-> FALSE, data |-> None, thumb |-> None]]
    /\ filed = [s \in Submissions |-> [state |-> "none", data |-> None, thumb |-> None]]
    /\ blob = [s \in Submissions |-> [k \in Kinds |-> None]]
    /\ call = [c \in Calls |-> Idle]

-----------------------------------------------------------------------------
(* Helpers *)

Goes(c, next) == call' = [call EXCEPT ![c] = next]
Ends(c) == Goes(c, Idle)

Pending == {s \in Submissions : row[s].state = "open" /\ ~row[s].uploaded}

(* storageUsed: files, and what waits to be filed.                         *)
Waiting == {s \in Submissions : row[s].state = "open" /\ ~row[s].consumed}
Live == {s \in Submissions : filed[s].state = "live"}
(* The files alone; as StorageUsed it is the mutant for QuotaKept, which   *)
(* then does not count what waits.                                         *)
UsedByFiles == SumFunction([s \in Live |-> filed[s].data + filed[s].thumb])
StorageUsed ==
    UsedByFiles + SumFunction([s \in Waiting |-> row[s].data + row[s].thumb])

-----------------------------------------------------------------------------
(* The sender *)

(* POST /api/requests, by the owner: the link senders come in at.          *)
CreateRequest ==
    /\ link = "none"
    /\ link' = "open"
    /\ UNCHANGED <<row, filed, blob, call>>

(* DELETE /api/requests/:token, the expiry, or the account's disabling.    *)
Close ==
    /\ link = "open"
    /\ link' = "closed"
    /\ UNCHANGED <<row, filed, blob, call>>

StartBegin(c) ==
    /\ call[c] = Idle /\ link = "open"
    /\ Goes(c, [pc |-> "begin"])
    /\ UNCHANGED <<link, row, filed, blob>>

CountPending(c) ==
    /\ call[c].pc = "begin"
    /\ IF Cardinality(Pending) < MaxPending THEN Goes(c, [pc |-> "counted"]) ELSE Ends(c)
    /\ UNCHANGED <<link, row, filed, blob>>

InsertSubmission(c) ==
    /\ call[c].pc = "counted"
    /\ \E s \in Submissions :
         /\ row[s].state = "unused"
         /\ row' = [row EXCEPT ![s].state = "open"]
    /\ Ends(c)
    /\ UNCHANGED <<link, filed, blob>>

(* PUT .../files/:id/data|thumbnail|index: the row is looked at ...        *)
StartUpload(c, s, kind, size) ==
    /\ call[c] = Idle /\ link = "open"
    /\ row[s].state = "open" /\ ~row[s].consumed
    /\ kind = "data" => ~row[s].uploaded
    /\ Goes(c, [pc |-> "upload", sub |-> s, kind |-> kind, size |-> size])
    /\ UNCHANGED <<link, row, filed, blob>>

(* ... the owner's room is added up ...                                    *)
AdmitUpload(c) ==
    /\ call[c].pc = "upload"
    /\ IF StorageUsed + call[c].size <= Quota
       THEN Goes(c, [call[c] EXCEPT !.pc = "admitted"])
       ELSE Ends(c)
    /\ UNCHANGED <<link, row, filed, blob>>

(* ... the bytes land under the submission's id ...                        *)
PutSubmission(c) ==
    /\ call[c].pc = "admitted"
    /\ blob' = [blob EXCEPT ![call[c].sub][call[c].kind] = call[c].size]
    /\ Goes(c, [call[c] EXCEPT !.pc = "stored"])
    /\ UNCHANGED <<link, row, filed>>

(* ... and are recorded, if the row is still there.                        *)
RecordSize(c) ==
    /\ call[c].pc = "stored"
    /\ LET s == call[c].sub IN
       row' = IF row[s].state # "open" THEN row
              ELSE IF call[c].kind = "data"
              THEN [row EXCEPT ![s] = [@ EXCEPT !.data = call[c].size, !.uploaded = TRUE]]
              ELSE [row EXCEPT ![s].thumb = call[c].size]
    /\ Ends(c)
    /\ UNCHANGED <<link, filed, blob>>

-----------------------------------------------------------------------------
(* The owner *)

(* Mutant for LinksTypeOK: a submission without data is offered.           *)
ArrivedOrBegun(s) == row[s].state = "open" /\ ~row[s].consumed
Arrived(s) == row[s].state = "open" /\ row[s].uploaded /\ ~row[s].consumed

StartAccept(c, s) ==
    /\ call[c] = Idle /\ Arrived(s)
    /\ Goes(c, [pc |-> "accept", sub |-> s, data |-> row[s].data, thumb |-> row[s].thumb])
    /\ UNCHANGED <<link, row, filed, blob>>

(* Mutant for FiledOnce: the row is not marked.                            *)
AcceptUnmarked(c) ==
    LET s == call[c].sub IN
    /\ call[c].pc = "accept"
    /\ filed' = [filed EXCEPT ![s] = [state |-> "live", data |-> call[c].data,
                                      thumb |-> call[c].thumb]]
    /\ Ends(c)
    /\ UNCHANGED <<link, row, blob>>

(* One transaction: the files row under the submission's id, which another *)
(* device may have taken (the insert then fails), and the consumed mark,   *)
(* which finds no row if it was discarded.                                 *)
CommitAccept(c) ==
    LET s == call[c].sub IN
    /\ call[c].pc = "accept"
    /\ IF filed[s].state # "none" THEN UNCHANGED <<filed, row>>
       ELSE /\ filed' = [filed EXCEPT ![s] = [state |-> "live", data |-> call[c].data,
                                              thumb |-> call[c].thumb]]
            /\ row' = IF row[s].state = "open"
                      THEN [row EXCEPT ![s].consumed = TRUE] ELSE row
    /\ Ends(c)
    /\ UNCHANGED <<link, blob>>

StartDiscard(c, s) ==
    /\ call[c] = Idle
    /\ row[s].state = "open" /\ ~row[s].consumed
    /\ Goes(c, [pc |-> "discard", sub |-> s])
    /\ UNCHANGED <<link, row, filed, blob>>

DiscardRow(c) ==
    /\ call[c].pc = "discard"
    /\ row' = [row EXCEPT ![call[c].sub] =
                  [@ EXCEPT !.state = "gone", !.uploaded = FALSE, !.consumed = FALSE,
                            !.data = None, !.thumb = None]]
    /\ Goes(c, [call[c] EXCEPT !.pc = "removeData"])
    /\ UNCHANGED <<link, filed, blob>>

(* The blobs go after the row, whether it was discarded or deleted.        *)
RemoveBlob(c) ==
    LET s == call[c].sub IN
    /\ \/ /\ call[c].pc = "removeData"
          /\ blob' = [blob EXCEPT ![s]["data"] = None]
          /\ Goes(c, [call[c] EXCEPT !.pc = "removeThumb"])
       \/ /\ call[c].pc = "removeThumb"
          /\ blob' = [blob EXCEPT ![s]["thumb"] = None]
          /\ Ends(c)
    /\ UNCHANGED <<link, row, filed>>

(* DELETE /api/trash/:id of a file that came in here.                      *)
DeleteFiled(c, s) ==
    /\ call[c] = Idle /\ filed[s].state = "live"
    /\ filed' = [filed EXCEPT ![s] = [state |-> "deleted", data |-> None, thumb |-> None]]
    /\ Goes(c, [pc |-> "removeData", sub |-> s])
    /\ UNCHANGED <<link, row, blob>>

(* A device of the owner draws a thumbnail (PUT /api/files/:id/thumbnail),  *)
(* under the name the sender's has.  The file is read, ...                 *)
StartPreview(c, s, size) ==
    /\ call[c] = Idle /\ filed[s].state = "live"
    /\ Goes(c, [pc |-> "preview", sub |-> s, size |-> size, freed |-> filed[s].thumb])
    /\ UNCHANGED <<link, row, filed, blob>>

(* ... there must be room once the thumbnail it had then is counted out,   *)
AdmitPreview(c) ==
    /\ call[c].pc = "preview"
    /\ IF StorageUsed + call[c].size <= Quota + call[c].freed
       THEN Goes(c, [call[c] EXCEPT !.pc = "drawn"])
       ELSE Ends(c)
    /\ UNCHANGED <<link, row, filed, blob>>

PutPreview(c) ==
    /\ call[c].pc = "drawn"
    /\ blob' = [blob EXCEPT ![call[c].sub]["thumb"] = call[c].size]
    /\ Goes(c, [call[c] EXCEPT !.pc = "previewed"])
    /\ UNCHANGED <<link, row, filed>>

(* ... and its size is recorded, if the file is still there.               *)
RecordPreview(c) ==
    /\ call[c].pc = "previewed"
    /\ filed' = IF filed[call[c].sub].state # "live" THEN filed
                ELSE [filed EXCEPT ![call[c].sub].thumb = call[c].size]
    /\ Ends(c)
    /\ UNCHANGED <<link, row, blob>>

(* A client hangs up or a process dies between two steps.                  *)
Abandon(c) ==
    /\ call[c] # Idle
    /\ Ends(c)
    /\ UNCHANGED <<link, row, filed, blob>>

-----------------------------------------------------------------------------
CallNext(c) ==
    \/ StartBegin(c) \/ CountPending(c) \/ InsertSubmission(c)
    \/ AdmitUpload(c) \/ PutSubmission(c) \/ RecordSize(c)
    \/ CommitAccept(c) \/ DiscardRow(c) \/ RemoveBlob(c)
    \/ AdmitPreview(c) \/ PutPreview(c) \/ RecordPreview(c) \/ Abandon(c)
    \/ \E s \in Submissions :
         \/ StartAccept(c, s) \/ StartDiscard(c, s) \/ DeleteFiled(c, s)
         \/ \E size \in Sizes :
              \/ StartPreview(c, s, size)
              \/ \E kind \in Kinds : StartUpload(c, s, kind, size)

InboxNext == CreateRequest \/ Close \/ \E c \in Calls : CallNext(c)

InboxSpec == InboxInit /\ [][InboxNext]_inboxVars

-----------------------------------------------------------------------------
(* Properties *)

(* "The worst possible leftover is an orphaned blob, never a file row that *)
(* references missing or partial data" (docs/storage.md): a file that came *)
(* in through a request has the bytes its row announces.                   *)
FiledHasItsBytes ==
    \A s \in Live :
        /\ blob[s]["data"] = filed[s].data
        /\ filed[s].thumb # None => blob[s]["thumb"] = filed[s].thumb

(* "Data can only be written once; a finished upload is immutable"         *)
(* (uploadRequestBlob): what arrived and waits is what was recorded.       *)
UploadImmutable == \A s \in Submissions : Arrived(s) => blob[s]["data"] = row[s].data

(* A submission is filed or waits, never both, whatever two devices of the *)
(* owner do (accept); one that is filed is not offered again.              *)
FiledOnce == \A s \in Submissions : filed[s].state # "none" => ~Arrived(s)

(* Overlapping calls pass the quota together, but by no more than what     *)
(* they carry: an upload its blob, an accept the two blobs it read, which  *)
(* may be discarded and replaced before it files them.                     *)
QuotaKept == StorageUsed < Quota + (2 * Cardinality(Calls) - 1) * Max(Sizes)
=============================================================================
