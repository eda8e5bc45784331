# Engram Store: specifications, model checking and proofs

TLA+ modules, TLC configurations and TLAPS proofs for the Engram Store
monorepo. Paths below are relative to the repository (`src/`); `storage.ts`,
`channel.ts`, `db.ts` and so on without a directory are under
`src/apps/server/src/` (the first two in `routes/`).

Everything stored is end-to-end encrypted, so the server sees rows, names of
blobs, and numbers. That is also what the models keep: generations, positions
in a log, presence rows, blobs known by who wrote them, by their size or by the
key they are sealed under. What the bytes *mean* appears only in `CoSave`, where
pages merge them.

## 1. Inventory

| part | state it keeps | operations | hard behaviour |
|---|---|---|---|
| **File content** (`storage.ts`, `db.ts`, `blobs.ts`) | `files` row (generation, minted, uploaded, trashed, deleted), `file_versions`, `upload_sessions`/`upload_parts`, blobs | whole-file save, thumbnail, part upload (begin, part, complete, cancel), restore a version, trash, delete forever | blobs and rows cannot change in one transaction; every handler may stop at every await; requests overlap |
| **Document channel** (`channel.ts`, `collabhub.ts`, `presence.ts`) | `channel_state` (last position, content marker, trim marker), `channel_messages`, `channel_presence`, the hub's watermark | join, hello, post, ephemeral, checkpoint by a committed save, leave | positions are taken before rows are inserted; a trim races joins and saves; processes relay over a bus |
| **Editing page** (`web/src/office/*`, `components/OfficeEditor.tsx`) | engine, marker box, replay tail, outbox, lastSeenSeq, pending save | fetch, pair, feed, post, settle and capture, save, fold in, cross a checkpoint, resync | bytes, welcome and marker come from different moments; conversion takes seconds |
| **Delta sync** (`GET /api/sync`, `collab.ts`, `accounts.ts`, `web/src/cache.ts`, `store.ts`, `autosync.ts`) | `users.last_seq`, `update_seq` of folders, files and memberships, each tab's library and cursor, the browser's cache | change, share, revoke, pull, page, fold, store, sign out | cursor against rows, paging, two tabs over one cache, tombstones, sharers of other accounts |
| **Events** (`events.ts`, `seqfanout.ts`, `bus.ts`, `routes/events.ts`) | held and coalesced sequence numbers, bus generation | notify after commit, reconnect | lost notifications must be repaired by polling |
| **File requests** (`requests.ts`) | request row, submissions, their blobs | begin, upload, accept, discard, expire | overlapping uploads, accept against discard, limits counted before insert |
| **Public shares** (`shares.ts`) | link row with download count and expiry | open, download | counting against serving a moving generation |
| **Collaborators and keys** (`collab.ts`) | members, envelopes, key epoch | invite, change role, revoke, rekey | revoke and rekey are several statements |
| **Blob back ends** (`blobs.ts`, `s3.ts`, `sharded.ts`, `routed.ts`, `blobcache.ts`, `mediacache.ts`) | stored blobs, cache entries and epochs, routes | put, get, remove, heal | fills against invalidations, healing against removal |
| **Metadata adapters** (`db.ts`, `pgdb.ts`) | connections, transaction queue | run, get, tx, retry | SQLite is synchronous inside a promise; PostgreSQL is not; deadlocks are retried |
| **Accounts, sessions, 2FA** (`auth.ts`, `totp.ts`, `challenges.ts`, `ratelimit.ts`, `accounts.ts`) | users, sessions, one-use challenges, counters | sign-in, recovery, deletion | one-use tokens, check-then-count |
| **Client library** (`web/src/store.ts`, `transfer.ts`, `autosync.ts`, `resumeupload.ts`, ...) | library, cursor, resumable uploads | sync, upload, conflict check, retry | retries of what was done |
| **Shells and on-device backend** (`apps/desktop`, `crates/engram-local`) | offline packs, outbox, local SQLite | replay local edits, serve the same API on the device | crash between disk and server |
| **S3 gateway** (`apps/bridge`) | a listing cache | translate S3 requests | conversion |
| **Cryptography** (`packages/crypto`, `crates/engram-core`) | none | pure functions | chunk framing |

How the parts meet: a *save* is the busiest crossing. The handler of
`PUT /api/files/:id/data` reads the row, reads presence (the tail-base gate),
plans what the save does to the channel, mints a generation, streams bytes into
a blob of its own, and commits pointer, versions, channel markers and log in
one transaction, conditional on the row it read. Only then it removes what was
displaced and only then it tells the room. Pages act on what they are told and
on what they download, which are two different moments.

What makes each part correct:

* *File content*: a row never points at bytes that are not there; nobody
  writes under a name somebody else uses; what a handler removes is garbage;
  what is displaced is kept as a version.
* *Channel*: the log loses rows only with the commit whose bytes contain
  them; markers name positions that were issued.
* *Room*: no frame is applied twice, none is lost, and everybody who has
  received what is under way holds one document.
* *Delta sync*: a client that has applied every page up to its cursor holds
  every row up to it as it is now, and so does the cache; whatever changes a
  row draws a number; a tab that polls comes level again.
* *Relay*: whatever is lost, late or read twice between processes, a page takes
  each sender's frames in order and without a hole or starts anew, and what a
  deaf process missed reaches its pages.
* *File requests and shares*: an accepted submission has its bytes, and they are
  the ones that were accepted; it is filed once and counted once; a share serves
  no more often than it may.
* *Keys*: whoever may read a file holds the key of its bytes, of its row and of
  every frame in its log, and who was removed is sealed nothing new.
* *Blob caches*: a read after an overwrite was acknowledged never returns the
  old bytes, and no blob lies on the disk that the budget does not count.
* *Resumed uploads*: what a session assembles is the file, and a file that has
  landed is not cleaned up as one that has not.

These are what the parts aim at. Where the code falls short of one, section 4
says how. `PROJECT.json` lists every component with its status and every hazard
with the line where it bites.

## 2. Modules

| module | what it is |
|---|---|
| `ContentStore` | one file on the server: rows, blobs, sessions, channel rows; one action per database or blob step of each handler |
| `ContentStoreInv` | the inductive invariants `Names` and `Storage` |
| `ContentStoreProofs` | theorems about `ContentStore`: names, blobs, the channel's log |
| `CoSave` | a room of pages on top of `ContentStore`: every server step of the room *is* a `ContentStore` action, conjoined with what it does to the pages |
| `CoSaveProofs` | the room's types, that the room implements the store, and that it is exact |
| `DeltaSync` | the change feed of one account and the tabs that follow it |
| `DeltaSyncInv`, `DeltaSyncProofs` | the inductive invariant `Feed` and the theorems about pulls |
| `OrderedLog` | what readers of a channel are promised, whoever relays the frames |
| `ChannelRelay` | a channel over several processes and a bus that loses notices; implements `OrderedLog` |
| `RequestInbox` | file requests: submissions, their blobs, filing and discarding |
| `PublicLinks` | `RequestInbox` composed with public shares of what was filed |
| `KeyRotation` | one shared file's key: members, rotations, saves and live pages |
| `RoutedStore` | the blob store split into a derived and a primary back end |
| `BlobCache` | `RoutedStore` under the disk caches of several processes |
| `ResumableUpload` | one upload in parts: the device, its journal, the network and the server's session |
| `RelayProofs`, `LinksProofs`, `KeyRotationProofs`, `CacheProofs`, `UploadProofs` | theorems about `ChannelRelay`, about `RequestInbox` under `PublicLinks`, about `KeyRotation`, about `RoutedStore` under `BlobCache`, and about `ResumableUpload` |
| `MC...` | one per checked module: symmetry and state constraints for TLC |

### ContentStore and the code

`file` is the `files` row, `versions` the generations in `file_versions`,
`blobs` the generations whose blob exists, `sessions` the part uploads,
`channel`/`log`/`live` the channel's rows, and `unlogged` the positions that
were issued by `nextChannelSeq` and have no row yet. `req[r]` is what one
request in flight holds in local variables; its `pc` names the last await it
passed.

| handler | actions |
|---|---|
| `PUT .../data` | `StartSave` (row, gate), `PlanSave` (plan, mint), `PutBytes`, `ReadPosition` (over PostgreSQL: the transaction's read of `last_seq`), `Commit` or `RefuseCommit` and `RemoveOwnBlob`, then `RemoveStaleBlob`, `RemoveStaleThumb` |
| `PUT .../thumbnail` | `StartThumb`, `PutThumb`, `CommitThumb` |
| part upload | `BeginParts`, `MintParts`, `InsertSession`; `FillSession`; `DropSession`; `StartComplete`, `AssembleParts`, `PlanComplete`, then `Commit` as above |
| restore a version | `StartRestore`, `ReadPosition` as above, `SwapPointer` or `VersionNotFound` |
| trash, delete forever | `SetTrashed`; `StartDelete`, `DeleteForever`, then the removals |
| channel | `Join`, `Leave`, `NextChannelSeq`, `InsertMessage`, `LoseMessage` |
| anything | `Crash`: the client hangs up or the process dies after any step |

`Isolated` is the one difference between the two databases the code supports.
`SqliteDb` makes synchronous calls inside resolved promises: a handler's
statements up to its next blob operation are one chain of microtasks, and
nothing else runs between them. `MayRun` and `Quiet` say exactly that. With
`Isolated = FALSE` (instances over PostgreSQL, whose transactions are READ
COMMITTED) every statement interleaves: a commit claims the row and reads the
channel's position in one step (`ReadPosition`) and writes markers and purges in
another, and posts of other instances come in between. The claimed row itself is
locked, so no other statement on it does (`Unlocked`).

`DuplicateCompletes` admits two overlapping completions of one part upload. It
is a constant because the code's promise fails there (section 4), and the rest
is worth checking and proving without it.

### CoSave and the code

A document is abstracted to a *root* (the generation whose plain bytes it grew
from) and the *set of positions* whose frames were applied to it. That is what
the correctness of `barrier.ts` and `content.ts` is about. `member[c]` is a
page's engine and its network state, `exports[c]` a save captured at the
barrier and not sent, `carried[r]` the bytes a request brings, `news[r]` the
marker it has yet to announce. `frameRoot` and `owed` are history variables.

`FetchDocument`, `Dial`, `Welcome`, `OpenDocument` are the four moments of an
open; `Post`, `Logged`, `Receive` a frame's way; `Capture`, `SendSave`, `Plan`,
`StoreBytes`, `CommitSave`, `RemoveDisplaced` a save's. `Drop` covers the
closed tab, the dead socket, the resync and the crossing of a checkpoint, which
all rebuild the page from nothing. A page sends what it captured, whatever the
room did since; `SendsExactly` is not a check of the page's but the scenario
`InexactSaves = FALSE`.

### DeltaSync and the code

`row[x]` is a row the account can see: for its own folders and files, the
number (`update_seq`) and whether it is deleted; for a file shared into it, the
number and the `revoked` flag of the membership joined with the file's state.
Everything else a row holds changes under a new number and needs no variable;
where the code changes something without a number, `missed` remembers the row
and `touching` that the number is about to come. `last` is `users.last_seq`.

| code | actions |
|---|---|
| create, change, delete own rows, one or many in a transaction | `ChangeOwn` |
| a sharer's transaction with `touchCollaborators` | `ReadMembers`, `CommitChange` |
| grant; change role, revoke, leave with `touchMember` | `Grant`; `ChangeMember`, `TouchMember` or (crash) `LoseTouch` |
| delete a folder, delete an account | `TrashFolder`, `DeleteSharer` |
| `GET /api/sync` | `StartSync` (the counter), `QueryOwn`, `QueryShared` |
| `refresh`, `resyncLibrary` | `Deliver` or `FailSync`, then `StoreRows` |
| sign-in with a cache, lock or close, `logout` | `OpenTab`, `CloseTab`, `SignOut` |

Folders and files, two queries in the code, are one collection here; two
collections (own rows and shares) under one cursor are what the paging rule is
about. `UPDATE users SET last_seq = last_seq + 1` holds the counter's row until
the transaction commits, on either database, so numbers commit in order and
drawing one and committing it are one step. The model is PostgreSQL's
interleaving, of which SQLite's is a part.

A cache belongs to a browser, a page size to a client: the web client asks for
everything, the Files provider pages and keeps no such cache. The model lets a
tab do either. A tab has as many pulls under way as `Lanes` has elements:
`autosync.ts` holds back its own (`inFlight`), but every mutation calls
`refresh()` beside it (`store.ts` 2020 and others), and each takes the cursor it
finds. An answer moves the cursor to its own number wherever the cursor was. The
cache is written without being waited for (`StoreRows`), in the order the answers
came; that an answer's write is through before the tab's next answer comes is a
bound. A tab that goes takes its pulls and its unwritten answers with it.

### ChannelRelay and the code

`author[q]` is the page that drew position `q`, `rows` the positions with a row
in `channel_messages`, `post[c]` a position drawn whose frame is not relayed
yet. `mark`, `reading` and `due` are a process's watermark, its query for the
first one, and the ranges it has queried and not delivered; `listener`, `inbox`
and `resyncs` are `bus.ts`'s connection, what it has not handled yet, and the
handler a reconnect runs.

| code | actions |
|---|---|
| join, the hub's first watermark | `Join`, `Baseline` |
| hello: the welcome, then the replay | `Hello`, `Replay` |
| post | `Draw`, `InsertRow`, `Broadcast` (local fan-out, notice, watermark) |
| `receive`, `deliverLog`, `deliverRows` | `Receive`, `Deliver` |
| `connectListener` and its handler, `dropListener` | `Connect`, `Resync`, `LoseListener` |
| a committed checkpoint, its notice, `onTruncated`, `crossCheckpoint` | `Checkpoint`, `Cross` |
| a process dies | `Crash` |
| `acceptFrame` on the page | `Accept`, inside every step that sends |

A page's counters are not stored: a sender's n-th frame is its n-th position, so
`Counter` computes what `acceptFrame` compares. A page that reloads is a
connection that is done; the next is another element of `Conns`.

`Log` in `ChannelRelay` instantiates `OrderedLog`: a reader's log is what a live
page holds, through the bytes it opened or through frames it took. In
`OrderedLog` a reader may only go on (with the sender's next frames, none left
out) or be emptied. `InOrderOrAnew == Log!Spec` is checked as a property of the
relay: every step is a step of `OrderedLog` or a stutter.

Abstractions: a page's bytes are a marker, `base`, taken at its welcome and moved
by a checkpoint it hears of while it opens (pairing by generation is `CoSave`'s
subject); a process answers the hub's first query before it answers a hello; the
query and the delivery of `deliverRows` meet in `Deliver`; a frame that is sent
is accepted at once; a notice is heard by all or, as a fault, by nobody.

### RequestInbox, PublicLinks and the code

`row[s]` is `request_uploads`, `filed[s]` the `files` row under the same id (a
filed submission keeps it, and its blobs keep their names), `blob[s][k]` the size
of what the store holds, `call[c]` a handler's local variables between two
awaits. `StartBegin`, `CountPending`, `InsertSubmission` are the begin;
`StartUpload`, `AdmitUpload`, `PutSubmission`, `RecordSize` an upload;
`StartAccept`, `CommitAccept` the filing (a transaction); `StartDiscard`,
`DiscardRow`, `RemoveBlob` the discard; `StartPreview`, `AdmitPreview`,
`PutPreview`, `RecordPreview` the owner's own thumbnail save, of which any number
may be under way for one file, as its blob has no generation; `DeleteFiled` delete forever;
`CreateRequest` hands the link out, `Close` is its revocation and expiry. `StorageUsed` is the sum
`db.ts` computes over both tables. In `PublicLinks` a visitor's call is
`LoadShare`, `ClaimDownload` (one conditional UPDATE), `Serve`.

### KeyRotation and the code

`content`, `row`, `thumb` and `log` say which key seals what; `member[m]` is the
`file_collaborators` row with the key sealed to that member and its epoch;
`local[a]` the entry of an account's library, which it decrypts with; `rot[d]`
the local variables of `rotateFileKey` on one device.

| code | actions |
|---|---|
| claim and grant an invitation | `Claim`; `SealGrant` (on the owner's device), `CommitGrant` |
| remove, leave | `Remove`, `Leave` |
| a client's sync | `Sync` |
| `rotateFileKey` | `StartRotate`; its upload: `OfferContent` (the gate), `PlanContent`, `PutContent` (the commit); `OpenThumb`, `PutThumb`, `PatchKey`, `ListMembers`, `Rekey`; or `StopRotate` |
| a save from a client with no room open | `SaveFile` (the gate), `PlanSave`, `CommitSave` |
| a page of the room: opens, posts, captures, sends, closes | `OpenPage`, `PostFrame`, `SavePage`, `SendPage` with `CommitSave`, `ClosePage` |
| the background thumbnail | `BackfillThumb` |

An upload of content reads the gate and the channel's plan before its bytes
stream and commits afterwards, if the row still has the generation it read
(`fresh`); pages come and go, post and save in between, and a rekey may start the
positions over under a capture (`upTo`), whose position the commit only clamps.
`Savers` names the accounts whose clients save and open pages in a run, and
`GrantsApart`, `RotationsApart`, `StopsApart` are scenarios, kept out of the
actions: what they let happen is chosen by `Mishaps`.

Abstractions: the server's two statements that revoke and evict a member are one
step, and so are the download of a page and its joining, and the background
thumbnail; a checkpoint's trim of frames other pages hold is `CoSave`'s subject.

### RoutedStore, BlobCache and the code

A blob is the number of the write that made it. `derived` and `primary` are the
two back ends of `routed.ts`; a `get` is `Lookup`, `FallBack`, `Heal` or
`SkipHeal`, a `put` one step, a `remove` `ApplyRemove` then `RemovePrimary`.
`returned` is the last write whose caller has been answered: what `StoreCurrent`
and `CachesAgree` compare with. `BlobCache` extends it: every read and write of
a process goes through its cache (`index[p]` in order of use, `file[p]` the
directory): `Hit`, `Miss`, `Fetch`, `Rename`, `Admit` or `Unadmit` or
`ServeOnly`, `Answer` for a read; `Write`, `DropWritten`, `Return` for a write;
`Hear`, `LoseListener`, `Reconnect`, `Sweep` for the bus; `Unlink` for removals
that nobody awaits; `Restart` for a process that stops and rescans its directory.
A read in `"fetched"` may have written its temporary file and not renamed it:
`Restart` leaves any number of these behind (`litter`), which the rescan passes
over and nothing ever deletes. The epochs of
`blobcache.ts` are the flag `fresh` a read carries: every drop of its key clears
it, which is what comparing the epoch before and after finds out. The actions
have the code's guards only; `FallsBackApart`, `HealsApart`, `RenamesApart`,
`Publications`, `ReconnectsApart` and `RestartsApart` say in one place each what a
run leaves out when `Races` lacks the element they name.

### ResumableUpload and the code

A body is the chunks it carries, in order (0 is the stream header). `up` is
`uploadInParts` running, `journal` the one record `resumeupload.ts` keeps, `net`
the requests and answers under way; the server's half (`session`, `parts`,
`landed`, `row`) is `storage.ts`'s sessions. `Create`, `Begin`, `PassOver`,
`Replay`, `NewPart`, `Delivered`, `Complete`, `Finish`, `Fail` are the upload;
`Kill`, `Open`, `Resume`, `Discard` the app dying and starting again (`Open` is
`scanResumableUploads`, which deletes the row when the source is gone); `PutPart`,
`Commit`, `Refuse`, `Expire`, `AbortParts`, `Trash`, `Delete` the server's
handlers, each one step since `ContentStore` has their insides. The client's
`parts` and the server's differ whenever an answer is lost, which is what the
journal is for; a new part may be of any size up to `MaxSpan`, as the client
follows the speed it sees.

The source on the device may turn at any time into another file of the same size
or be gone (`SourceTurns`): `nativeStagedSource` compares the size and nothing
else (`native.ts` 631), so `Open` and `Resume` take any file that is there. A part
remembers which of the two it was read from (`drawn`), per part and not per chunk.

## 3. Runs

Only the run of `DeltaSync` checks deadlock. Elsewhere the bounds run out
(generations, positions, keys, writes, kills), and a system where nobody does
anything more is a legitimate end.

| run | instance | result |
|---|---|---|
| `store_sqlite` | 2 requests of every kind but the room's saves, one kept version, 3 generations, new, filed and legacy files, isolated | passes, 610 000 states |
| `store_pg` | 2 requests, 1 connection, 1 position, 2 generations, not isolated | passes, 1.2 million |
| `room` | 2 pages, 2 requests, 2 positions, at most 4 units of work, SQLite | passes, 350 000 |
| `sync` | 1 tab with 1 pull at a time, 2 own rows and 1 share, numbers up to 3, page sizes 0 and 1, every way to end a share | passes, 250 000 |
| `relay` | 2 processes, 2 connections, 2 positions, 2 checkpoints, 2 faults | passes, 930 000 |
| `relay_deaf` | 2 processes, 2 connections, 2 positions, 1 fault; others act between a position and its row; liveness, no symmetry | passes, 75 000 |
| `links` | 2 submissions, 2 calls of any kind, blobs of 1, at most 1 pending, a quota of 1, a share for 1 download | passes, 540 000 |
| `keys` | 1 device, 1 member, 3 keys (two rotations), 1 frame, rotations that stop anywhere | passes, 910 000 |
| `lost_key` | 2 devices, a file with a thumbnail, nobody saves | violated, section 4 |
| `cache` | 2 processes, 1 blob, 2 calls, 3 writes, 1 fault | passes, 2.3 million (the count of temporary files apart) |
| `uploads` | 1 row, 5 chunks, parts of up to 3, 3 kills | passes, 1.5 million |
| `landed_lost` | 2 rows, 3 chunks, parts of up to 2, 1 kill | violated, section 4 |

Each of the other configurations in this directory shows one disagreement of
section 4, which lists them, but for `deleted_pg.cfg`: it checks
`CurrentContentStored`, `VersionsStored` and `RemovalsAreGarbage` for saves and
deletions of one file whose statements interleave, and passes (18 000 states).

The properties that runs check:

* `SoleWriter`: the generation a writer or a session holds is neither current
  nor a version, and nobody else's.
* `CurrentContentStored`, `VersionsStored`: rows point at blobs that exist.
* `RemovalsAreGarbage`: what a handler has yet to remove is nobody's.
* `DisplacedContentKept`: the content the pointer leaves is a version after
  the step, unless retention is full of newer ones.
* `TrimOnlyWithCommit`: rows leave the log only with the pointer, up to the
  position recorded beside it (one process; section 4 for several).
* `MarkersWithinLog`: markers and rows name issued positions; in one process the
  log also holds nothing at or below the trim.
* `NoDoubleApply`, `NothingLost`: the two halves of the exactness rule of
  `barrier.ts` and `docs/collaboration.md`, for every page that may still feed
  frames and for whoever opens next.
* `OneDocument`: an open engine, with what is under way to it, is the document
  a page opening now would see.
* `MarkerNamesCurrent`: bytes and marker always pair for a fresh joiner.
* `FeedComplete`: up to a tab's cursor every row is as the server holds it,
  tombstones included, whatever commits between the statements of a pull and
  wherever pages are cut; excepted are shares the code changes without a number.
* `CatchesUp`: a tab that shows a library and stays open comes level with the
  account again and again.
* `NothingSteppedOver`: a row at or below a process's watermark is held by its
  live pages, or in a range that process is reading.
* `InOrderOrAnew`: the relay implements `OrderedLog`.
* `DeafCatchUp`: a row logged while a process was deaf reaches its live pages,
  or they reload or leave.
* `FiledOnce`: what is filed is no longer offered for filing.
* `QuotaKept`: what is stored and waiting exceeds the quota by no more than what
  calls carry that read the room before they filled it: an upload its blob, an
  accept the two blobs it read.
* `DownloadsWithinLimit`: visitors who all saw the last download free get one.
* `EpochNamesKey`: who is at the row's epoch holds the row's key, although a
  rotation takes its epoch from a library entry that may be behind.
* `MembersFollow`: once a rotation is through, every remaining member holds the
  row's key.
* `RemovedStaysOut`: nothing is sealed to a member while it is removed.
* `ServesFresh`: a read answers nothing older than the last write its process
  had made or heard of when the read began.
* `CachesAgree`, `KeyFilesCounted`: a process at rest caches nothing older than
  any returned write, and every file under a key's name is one its index counts.
* `AssembledWhole`: what a completion commits is header and chunks, by their
  place in the source, in order.
* `ContentReadable`, `LandedStays`: of the two runs that find them violated.

Bounds, and why they are enough: two requests are what every interleaving
named in the code's comments needs, and three generations let one be current,
one a version or based upon, and one in flight; `MaxVersions = 1` makes the
first displaced content fill the window and the second overflow it. In the
room two pages give a saver and a joiner (or a saver and a checkpointer), two
positions give a frame before and a frame after a marker, and `MaxWork = 4`
lets two positions and two further generations happen in any mix. In the room
a page has one save under way, `Abandon` stops requests only before their
bytes are stored (the store's own runs stop them anywhere), and nobody
restores, trashes or deletes. In `sync` two own rows overflow a page of one,
three numbers let both have one and one of them a second (or the share), and
one tab meets every change between any two statements of its pull. In `relay`
each of two connections is author and reader, joins before or after a
checkpoint, at the author's process or at another; two positions let a sender's
second frame overtake, or be lost before, its first, and two faults combine (a
lost listener and a notice nobody heard), and two checkpoints let the notice of
one come after the other. Three connections with one fault were
run as well (2.1 million states), for an author, a reader and a third that saves.
`relay_deaf` trades the checkpoint for the statement between position and row and
for liveness. In `links` two calls make every pair of overlaps, on one submission
and on two, a quota of one blob is passed by whoever read it empty, and one
pending submission meets the limit. In `keys` three keys are two whole rotations,
so a member, an entry, a page or a save under way may be a rotation behind. Without
frames, two members (2.9 million states) and, for `EpochNamesKey`, two devices that
rotate at once (3.7 million) were run as well. In `cache` three writes are
an old blob, one that replaces or removes it, and one that overtakes. In `uploads`
three kills let a resumed upload be resumed again, and five chunks in parts of one
to three let a part in flight, a recorded one and one cut otherwise meet; two rows,
for a fresh upload that follows one given up, are in `landed_lost`.

`cache` takes states that differ only in how many temporary files were left behind
for one (`VIEW`): only `DiskWithinBudget` looks at their number, and `cache_litter.cfg`
checks it without.

Requests, connections and members are symmetry sets where a run says so
(`SYMMETRY`), never in one that checks a liveness property.

Fairness is stated where liveness is checked, and assumes only what the code
takes care of itself.

`Polling` (`DeltaSync`): a visible tab pulls every 60 seconds and on every
announcement (`autosync.ts`), and writes what it got to the cache, hence weak
fairness of these steps; the answer is delivered again and again if it is again
and again ready, that is, the network does not fail every time, hence strong
fairness of `Deliver`. `kick` does nothing until the first pull has succeeded,
or there was a cache: before that (`cursor = 0`) only the user's *Retry* asks
again, and neither the fairness nor `CatchesUp` speaks of it. Hidden tabs do not
poll and count as closed.

`Relaying` (`ChannelRelay`): a process goes on with what it began: it answers a
hello's replay, runs the queries it has queued (`Baseline`, `Deliver`), handles
what it heard (`Receive`), and `bus.ts` reconnects after every lost listener and
runs the handler (`scheduleReconnect`, `connectListener`), hence weak fairness
of each. Nothing is assumed of pages, posts, checkpoints or faults.

Each passing property comes with a mutant in `PROJECT.json`: a plausible
mistake in one definition, under which the same run finds the property
violated.

What the passing runs leave out. Each row is a situation the code lets happen and
in which it does not keep the property named; section 4 shows each. A run that
leaves one out says nothing about it, and neither does a theorem that assumes it
away.

| run | left out by | situation | property lost there |
|---|---|---|---|
| `store_sqlite`, `store_pg`, `room` | `DuplicateCompletes = FALSE` | two completions of one part upload overlap | `CurrentContentStored` |
| `store_sqlite` | `Isolated = TRUE` | several instances: a restore files the row it read | `DisplacedContentKept`, `VersionsStored` |
| `room` | `Isolated = TRUE` | several instances: posts between a commit's read and its purge | `TrimOnlyWithCommit` |
| `room` | `InexactSaves = FALSE` | a save goes up after the room moved on | `NothingLost`, `NoDoubleApply` |
| `room` | `PlainMeetsRoom = FALSE` | a page joins while a plain save streams | `OneDocument` |
| `room` | `LateNews = FALSE` | a checkpoint's announcement comes after a later one's | `OneDocument` |
| `room` | `Stamped = TRUE` | a room older than the document's first save | `NoDoubleApply` |
| `sync` | `Lanes = {l1}`, `Tabs = {t1}` | two pulls of one tab, or of two, at once | `FeedComplete` |
| `relay` | `SlowRows = FALSE` | a row that comes later than its neighbours | `NothingSteppedOver` |
| `relay` | `SplitHello`, `LiveReplay`, `LateNews = FALSE` | a checkpoint or a frame falls into a hello | `InOrderOrAnew` |
| `keys` | `Devices = {d1}` | two devices rotate at once, and the one whose key lost re-seals last | `MembersFollow` |
| `keys` | `Mishaps` without `"grants"` | a grant that a rotation overtakes, or sealed from an old entry | `MembersFollow`, `EpochNamesKey` |
| `cache` | `Races` without `"rename"` | an overtaken read renames its file over a newer one | `ServesFresh` |
| `cache` | `Races` without `"crash"`, `"reconnect"`, `"publish"` | a stop with a stale directory, a fill under way at a reconnect, a publication that fails | `CachesAgree` |
| `cache` | `Races` without `"heal"`, `"uncover"` | a copy that lands after a newer write, a read or a stop between the halves of a remove | `StoreCurrent`, `ServesFresh` |

## 4. Where the code and its documents disagree

Two have runs of their own in `PROJECT.json`, `lost_key` and `landed_lost`. The
following have a configuration beside them, which
`tlc -config X.cfg Module.tla` finds violated in seconds:

| configuration | module | violated | what the code says of it |
|---|---|---|---|
| `purged_unseen.cfg` | `MCContentStore` | `TrimOnlyWithCommit` | `storage.ts` 604-608: a second writer "could otherwise trim past what the surviving generation actually contains, deleting frames no stored bytes hold"; `docs/collaboration.md` 68: "Only a save the server itself committed can trim the log" |
| `rolled_back.cfg` | `MCDeltaSync` | `CacheComplete` | `cache.ts` 91-93: "A row is only replaced by a strictly newer updateSeq, so two tabs syncing at once can never roll a row back no matter how their writes interleave" |
| `overlapping_pulls.cfg` | `MCDeltaSync` | `FeedComplete` | the same, of the library and its cursor |
| `written_twice.cfg` | `MCPublicLinks` | `UploadImmutable` | `requests.ts` 313: "Data can only be written once; a finished upload is immutable." |
| `filed_without_bytes.cfg` | `MCPublicLinks` | `FiledHasItsBytes` | `docs/storage.md` 190: "never a file row that references missing or partial data" |
| `retired_key.cfg` | `MCKeyRotation` | `RetiredKeyStaysRetired` | `store.ts` 2460-2463: "Order is fail-closed ... never leaves the revoked key valid for new content" |
| `stranded_frames.cfg` | `MCKeyRotation` | `FramesReadable` | `storage.ts` 350: "Refused here, structurally, with liveness read from the shared table" |
| `marker_past_log.cfg` | `MCKeyRotation` | `NothingBelowMarker` | `collab.ts` 366: "a marker left standing would sit past the entire post-rekey log and every joiner would skip it" |
| `stale_grant.cfg` | `MCKeyRotation` | `MembersFollow` | `docs/sharing.md` 167-169: rotation "re-encrypts the file's content ... under a fresh key and re-seals it to every remaining member" |
| `healed_over.cfg` | `MCBlobCache` | `StoreCurrent` | `routed.ts` 138: "serve from primary and heal the split on the way out" |
| `stale_rename.cfg` | `MCBlobCache` | `ServesFresh` | `blobcache.ts` 20-22: "put and remove drop the cache entry and the next read re-fills it, which can never serve stale bytes" |
| `cache_litter.cfg` | `MCBlobCache` | `DiskWithinBudget` | `docs/storage.md` 114: "Local hot tier for derived blobs, with this disk budget" |
| `changed_source.cfg` | `MCResumableUpload` | `OneSource` | `native.ts` 608-610: "verifying the bytes on disk are still the recorded ones by size. Null when the file is gone or changed: there is nothing safe to continue." |

The others are shown by setting the constant named with them in a run's .cfg,
which makes TLC find the violation.

**Keys** (`KeyRotation`).
* `lost_key`: `rotateFileKey` uploads the content
  under the new key first; that save clears the row's thumbnail and removes its
  blob (`storage.ts` 677-694); the next step, for every file whose library entry
  has a thumbnail, downloads that thumbnail and is answered 404 (`store.ts` 2477),
  so the rotation throws before the row gets the new wrapped key. The new key is
  lost, and with it the current content; the generation before it stays in the
  version history, under the old key. The comment at `store.ts` 2456 promises the
  row flips its key and a failure can only "lock members out until retried".
  `Mishaps = {"stops"}` reaches the same by any failure between the content's
  upload and the row's PATCH.
* `retired_key`: a client whose library is a sync behind saves under the old key,
  which the server cannot tell.
* `stranded_frames`: the gate and the plan of the rotation's upload are read before
  its bytes stream (`storage.ts` 352, 361). A page that joins during the stream
  opens the old content, keeps the old key and posts frames under it; the commit
  then puts content under the new key beside them.
* `marker_past_log`: a page captures at a high position, a rekey starts the
  positions over, and the page's save commits its old position, which
  the server only clamps to the channel's new last one (`storage.ts` 717). The marker
  covers frames the bytes do not hold.
* `stale_grant`: an envelope sealed on one device before another's rotation is
  granted after it, at the row's new epoch. `Devices = {d1, d2}` with
  `MaxKey = 3` loses `MembersFollow` too: of two rotations at once, the one whose
  key the row no longer names may re-seal last (`collab.ts` 350 does not compare
  epochs).

By design, and not counted: a member whose pinned key
changed keeps its old envelope, version history stays under older keys, and
leaving does not close the member's open sockets.

**Uploads** (`ResumableUpload`).
* `landed_lost`: the resume record is dropped
  only after the answer to `/complete` came back. If the app is killed after the
  server committed and before that, or the answer is lost, the next start finds the
  record: with its source gone `scanResumableUploads` trashes the row (`store.ts`
  2645), a discard does too, and a resume is answered 404 for the finished session,
  whose error path deletes the file forever (`transfer.ts` 1146). The comment there
  speaks of a file "whose content never landed". A kill between the row's creation
  and the first journal entry leaves an empty row nobody cleans up.
* `changed_source`: a source that was replaced by another file of the same size
  between two lives of the app is resumed from (`native.ts` 631 compares the size
  alone). The session then holds parts of both. The parts passed over are digested
  from the new bytes, so the digest names a file that is nowhere, against
  `transfer.ts` 1159 ("so the digest describes the bytes that actually landed").

**Content** (`ContentStore`).
* `DuplicateCompletes = TRUE` violates `CurrentContentStored`: two completions of one part upload both assemble the
  same name; the refused one removes the blob the other has just committed
  (`storage.ts` 759-764 against the comment at 325).
* `Isolated = FALSE` with "plain" and "restore" offered violates
  `VersionsStored`, and with a legacy file `DisplacedContentKept`: over PostgreSQL a
  restore files the row it read as the displaced version, not the one it displaces,
  and retention may have removed that one's blob by then (`storage.ts` 1567-1607
  against `docs/storage.md` 199).
* `purged_unseen`: over PostgreSQL a commit reads `last_seq` in one statement
  (`storage.ts` 638) and deletes the log's rows in another (704-715), and a restore
  does too (1629-1645). A frame another instance logs in between is deleted beyond
  the recorded position, and no stored bytes hold it.

**Room** (`CoSave`).
* `InexactSaves = TRUE` violates `NothingLost`: the claim at commit compares
  with the row read when the request arrived, so bytes captured before another
  page's checkpoint commit after it, without the frames it trimmed (against
  `storage.ts` 606). It also violates `NoDoubleApply`: `lastSeenSeq` is 0 after
  an empty replay although the bytes hold the trimmed frames, and the next
  content save's marker says so too (`channelclient.ts` 243, `barrier.ts` 7).
* `PlainMeetsRoom = TRUE` violates `OneDocument`: the gate against plain writes
  is read before the bytes stream (for part uploads: before the session begins;
  `storage.ts` 352 against the comment at 346).
* `LateNews = TRUE` violates `OneDocument`: announcements follow removals and
  overtake each other; the page keeps the last it hears (`OfficeEditor.tsx` 809).
* `Stamped = FALSE`: a page welcomed before the channel has any marker pairs
  with any bytes (`content.ts` 25), so that it may replay frames the first
  content save's bytes hold.

**Sync** (`DeltaSync`).
* `ChangesReachMembers`, which no run checks: deleting a folder trashes shared
  files in it without a number for their members; deleting an account moves the
  members' counters and deletes the rows that would have told them (`storage.ts`
  285, `accounts.ts` 40-46, against the comments at `storage.ts` 175 and
  `accounts.ts` 13). It fails too when a crash separates a revocation from its
  number (`collab.ts` 328), and, on PostgreSQL, when a share is granted between
  the reading of a file's members and the commit.
* `rolled_back`: a tombstone leaves nothing in the cache to compare an older live
  row with (`cache.ts` 132). Two pulls of one tab are enough, since `refresh()` is
  called by mutations beside `autosync.ts`'s pull and nobody waits for the cache;
  two tabs do it too (`Tabs = {t1, t2}`). A second way to the same state: one tab
  signs out and clears the cache, while another tab of the account goes on and
  stores a delta and its cursor into the empty one.
* `overlapping_pulls`: `refresh` sets the library's cursor to the answer's number
  whatever it was, and lets a live row replace a newer one: an older answer that
  lands last undoes a tombstone, and its rows stay wrong under a later cursor.

**Relay** (`ChannelRelay`).
* `SlowRows = TRUE` violates `NothingSteppedOver`: a position whose row is late
  is passed by the watermark of a process that never reads the gap again; its
  pages find out by that sender's next frame, and reload. `InOrderOrAnew` holds,
  and is proved so.
* `SplitHello = TRUE` violates `InOrderOrAnew`: a welcome names the marker and the
  replay is read in a statement of its own; a checkpoint committed between them
  leaves the page old bytes and a log without the trimmed frames. The replay's
  first frame of a sender sets its counter, so nothing tells the page; the
  notice of the checkpoint does, unless it is lost (`channel.ts` 196-218).
* `LiveReplay = TRUE` violates both: a frame relayed between a page's welcome and
  its replay sets the counters' baseline, so that the replay's earlier frames of
  that sender are dropped (`web/src/office/channel.ts` 98-108).
* `LateNews = TRUE` violates `InOrderOrAnew`: two notices of checkpoints may be
  handled out of order, and a page that is still opening takes the marker of the
  last it hears (`OfficeEditor.tsx` 804-847), so that the older one moves its
  marker back and its log claims a frame it has neither in bytes nor by replay.
* `GappySaves = TRUE` violates `TrimmedIsStored`, which no run checks: a
  checkpoint names the highest position seen, and a frame below it may not have
  arrived (`channelclient.ts` 240); the trim then removes a row no bytes hold.

**Requests** (`RequestInbox`).
* `written_twice`: two uploads of one blob of a submission both pass the `uploaded`
  check, and the later one overwrites what the row recorded of the earlier
  (`requests.ts` 308).
* `filed_without_bytes`: the same across an accept; a discard that overlaps an
  accept removes the filed blobs (`requests.ts` 161, 205); the owner's thumbnail of
  a just filed file is overwritten by its sender's, and two thumbnail saves of the
  owner's devices store in one order and record in the other, since that blob has
  no generation (`storage.ts` 331-450).

Also met: an upload in flight across a discard leaves an orphan blob, and
overlapping begins pass `MAX_PENDING_UPLOADS` together (275).

**Caches** (`RoutedStore`, `BlobCache`), by element of `Races`.
* `"heal"` (`healed_over`) and `"uncover"` violate `StoreCurrent`, and `ServesFresh`
  with it: the copy of an old pre-split blob lands after
  a newer put or a removal; a removal takes the derived copy first, and a reader,
  or a crash, in between meets or leaves the older primary one.
* `"rename"` (`stale_rename`) violates `ServesFresh`: a read a drop has overtaken
  renames its file over a newer indexed one, and hits serve it until the unlink.
* `"crash"`, `"reconnect"` and `"publish"` violate
  `CachesAgree`: a restart indexes stale files and its first connection drops
  nothing; the sweep bumps the epochs of indexed keys only, so a fill under way is
  admitted; a failed publication is swallowed.
* `cache_litter`, without any of these: a process that stops between writing a
  temporary file and renaming it (`blobcache.ts` 164-165) leaves the file; the
  rescan passes it over (81) and nothing deletes it, so the directory grows beyond
  its budget by one blob for every such stop.

## 5. Proofs

A theorem holds for every value of the constants its module's named assumption
admits: every number of requests, connections, processes, members, rows, blobs,
positions, keys, writes, chunks and faults (`ConstantsAssumption`,
`RoomAssumption`, `FeedAssumption`, `RelayAssumption`, `InboxAssumption` with
`LinksAssumption`, `KeyAssumption`, `StoreAssumption` with `CacheAssumption`,
`UploadAssumption`). A further assumption names a scenario the theorem does not
cover: outside it the code does not keep the promise (section 4), or, for
`CachesAgree`, `RoomImplementsStore` and the content saves of `DisplacedIsKept`, the
theorem says nothing. "None" means none beyond these named assumptions and the
abstractions of section 2, not that the property holds of everything the code does.

| theorem | statement | further assumptions |
|---|---|---|
| `TypeCorrect` | `Spec => []TypeOK` | none |
| `NamesAreHeldByOne` | `Spec => []SoleWriter` | no overlapping completions; isolated, or no legacy rows |
| `CurrentContentIsStored`, `VersionsAreStored`, `OnlyGarbageIsRemoved` | the three storage invariants | no overlapping completions; isolated |
| `MarkersStayWithinLog` | `Spec => []MarkersWithinLog` | none (its last part speaks of isolated instances only) |
| `LogIsTrimmedByCommitsOnly` | `Spec => TrimOnlyWithCommit` | no overlapping completions; isolated |
| `DisplacedIsKept` | `Spec => DisplacedContentKept` | no overlapping completions; isolated; no content saves, which keep no version by design |
| `RoomTypeCorrect` | `CoSpec => []RoomTypeOK` | none |
| `RoomImplementsStore` | `CoSpec => Spec` | not `Stamped` |
| `RoomKeepsContentStored` | the storage invariants in the room | no overlapping completions |
| `FramesAreAppliedOnce`, `NoFrameIsLost`, `RoomIsOneDocument` | `CoSpec => []NoDoubleApply`, `[]NothingLost`, `[]OneDocument` | `Orderly`: the document was saved before (`Stamped`), no `InexactSaves`, `LateNews`, `PlainMeetsRoom` |
| `MarkerNamesStoredBytes` | `CoSpec => []MarkerNamesCurrent` | no `PlainMeetsRoom` |
| `SyncTypeCorrect`, `PullsAreComplete` | `Spec => []SyncTypeOK`, `[]FeedComplete` | `OneAtATime`: one tab, with one pull under way at a time |
| `RelayTypeCorrect` | `Spec => []RelayTypeOK` | none |
| `RelayKeepsOrder` | `Spec => InOrderOrAnew`: the relay implements `OrderedLog` | no `LiveReplay`, `SplitHello`, `LateNews` |
| `LinksTypeCorrect`, `SubmissionsAreFiledOnce`, `LimitHolds` | `Spec => []LinksTypeOK`, `[]FiledOnce`, `[]DownloadsWithinLimit` | none |
| `QuotaHolds` | `Spec => []QuotaKept` | at least one call |
| `KeyTypeCorrect`, `RemovedMembersStayOut` | `Spec => []KeyTypeOK`, `RemovedStaysOut` | none |
| `EpochsNameKeys` | `Spec => []EpochNamesKey` | no grant sealed from an old entry or overtaken by a rotation (`"grants"`) |
| `CacheTypeCorrect`, `DirectoryIsCounted` | `Spec => []CacheTypeOK`, `[]KeyFilesCounted` | none; temporary files are not spoken of |
| `ReadsAreFresh` | `Spec => []ServesFresh` | no race but `"reconnect"`, `"publish"` |
| `CachesComeToAgree` | `Spec => []CachesAgree` | no faults (`MaxFaults = 0`), `Races = {}` |
| `UploadTypeCorrect`, `UploadsAreWhole` | `Spec => []UploadTypeOK`, `[]AssembledWhole` | none |

The arguments, by module.

**Store and room.** `SoleWriter` is not inductive: nothing in it says that the next
number minted is new. `Names` adds what the allocator guarantees: every
generation a row knows, and every one a restore in flight will file, is at most
`file.minted`, and what writers and sessions hold lies in `1..file.minted` and
is known to no row. On PostgreSQL the first use of the allocator on a legacy
row can race a restore that read it before, hence the second assumption.
`Storage` rests on `Names` and adds what the blobs need: a handler inside its
database segment acts on rows nobody changed since (this is where isolation
enters), assembled and stored bytes are in the store until their commit, and a
removal list touches no row, no writer that may commit and, while the file
exists, no number yet to be minted. `Markers` adds that rows follow positions
in order. `DisplacedIsKept` is about retention: `Retained` keeps the newest
`MaxVersions` rows, so a row that goes has as many newer ones above it
(`RetainedAbove`), and the step that moves the pointer files the generation it
leaves, except in a content save (`KeepsInv` says that none is under way). The room's refinement is by construction of its actions, but its
invariant must show that positions named by pages lie within the channel's
range (`RoomInv`), since `StartSave` is only offered those.

**The room is one document.** `ExactInv` has a part for each place a frame can
be. `StoredInv`: the bytes and the log past their marker together are all that is
owed, and the bytes hold nothing past the marker. `ExportInv` and `CarriedInv`: a
save captured by a page or on its way would, with the log past its position,
store all that is owed too, and so a commit may trim up to that position.
`MintInv` says why only one of the saves under way can get through: a number
just minted is nobody's base and no page's, so a commit refuses every other save
based on the row it replaced. `PlainInv` and `PlanInv` do this for saves without
the channel. `PageInv` describes a page in each phase (`PageFits`): it was sent
the whole log since its welcome; when marker and bytes are a pair, what it feeds
its engine is apart from the bytes and completes them; an open engine lacks
exactly what is on its way to it, in order. Each theorem then reads off one of
these parts. The marker alone needs less (`MarkInv`), and less is assumed.

**Sync.** A pull is right for three reasons, and `Feed` states each. `Numbers`: a number
names one row and none is past the counter, so whatever commits while a request
is on its way lies past the window it asked for. `SentOrCut`: a settled row of
the window whose query has run was sent as it still is, or lies past the last
row of a full page (`PageCut`); in the second case the page's cap is below it
(`CapBelowCut`, from `Rank`: a finite set of numbered rows has a row that
exactly as many carry a number up to), and the least cap is the cursor
(`AnswerCloses`). `Closes`: what a tab has not stored is exactly the gap between
the cache's cursor and its own, which needs that nobody else writes the cache, and
that the cursor a request took is still the tab's when its answer comes. That is
where `OneAtATime` enters; section 4 shows that it cannot go. The server's steps are summed up once (`ServerStep`): a row draws a number
nobody had, or stays as it was for everybody who is not to miss it, or goes with
its sharer.

**Relay.** A reader's log is computed, not stored, so the refinement is a
statement about how `Accept` moves it. Every step's effect on a page is one of a
few (`PageMoves`: it stays, it takes a set of frames in order, it goes anew, its
bytes move up to a checkpoint), and each of these is a step of `OrderedLog` or a
stutter. `OrderInv` is what makes it so: `PostInv` and `RowInv` (a position is
drawn once, has its author, and its row is there, on its way, or trimmed below
the marker), `NewsInv` (a notice names a marker that was set), `PageInv` (what a
live page took of a sender is, with what its bytes hold, the beginning of what
that sender drew). `acceptFrame` compares counters, which the model computes from
positions; the lemma `CountedAreAll` turns "as many as" into "all of these".

**Requests and shares.** `OnceInv` describes accepts under way: the row of one is
still pending when it commits, or the commit does nothing. `CountInv`: what was
served and what is claimed together are at most the count in the row, which one
conditional UPDATE moves.
`QuotaKept` needs a stronger sum than its own (`QuotaInv`): whichever claim each
submission comes to (`Picks`: as its row stands, as an accept under way will file
what it read, or as a thumbnail already drawn will be recorded, `Claim`), the
claims and what admitted calls still bring stay below `Limit`. A step moves bytes
from a call to a row and from there to a file, or drops them; only an admission
adds to the sum. It has just found room beside everything filed and waiting, so
what is past the quota is what the other calls carry: two blobs for an accept, one
for an upload (`Carried`, `OthersCarry`), which is the factor `2 * |Calls| - 1` of
the bound. `PaceInv` says that nothing moves twice: a submission begins with
nothing, and a thumbnail drawn in place of another finds one there. A sum is counted as a set of units (`Weight`), so
that moving one summand is a fact about cardinalities. Calls may overlap in every
way.

**Keys.** `NamesInv`: nothing carries an epoch past the row's, and what carries the
row's epoch carries the row's key. Its parts are the places an epoch travels to:
the members' entries, the owner's library on each device, a rotation on its way to
the members, an invitation's envelope (`DeviceNames`). `RemovedMembersStayOut` follows
from each step's own guard. Whether pages, frames and bytes share a key is *not*
proved: section 4 shows that they need not.

**Caches.** `StoreInv` orders the two back ends by the number of the write.
`StrayInv`: a file under a key's name without an index entry is on its way out or
in a call's hands; a restart indexes such files. Temporary files are kept in
`litter`, of which nothing is claimed.
`FreshInv` is the core: with the epochs in force, no file of the index and no read
that may still be admitted is older than any write the process made, heard of or
is about to return (`ToldInv`, `HeldInv` and `FloorInv` for what it heard, what it
holds and what a read must reach). An announcement is published after the write
and before its caller is answered, which is why agreement needs that it is not
lost in silence. Agreement is therefore claimed without faults only: with one, it
would rest on when the fault comes.

**Uploads.** `UploadInv`: the parts the journal has recorded are a walk through
the file (`WalkInv`); whatever is in flight or stored for a row under a number is
as it was recorded, even after the record is gone, since a row is walked once
(`SendInv`, `RowInv`). A completion names as many parts as the record has, and they
are there; the parts of a walk, joined, are the beginning of the file (`JoinedWalk`),
and the last one ends it. A chunk here is its place in the source: which edition
of the source it was read from is another variable, of which `AssembledWhole`
says nothing (`changed_source` shows that editions mix).

Folds of the library, and `FlattenSeq`, are recursive functions. Where a proof
needs what they compute, it goes by a smallest counterexample rather than by the
library's induction theorems, which take an operator as a parameter (`LeastNumber`
in `UploadProofs` and `LinksProofs`).

Every invariant and action property a run checks is the subject of a theorem, with
these exceptions. `NothingSteppedOver` is checked where rows are not late
(`SlowRows = FALSE`) and `MembersFollow` on one device, without thumbnails: in the
general case the code keeps neither (section 4), and a theorem restricted to the
rest would promise what its name does not. `ContentReadable` and `LandedStays` are
properties of the violation runs. Liveness and ENABLED (`CatchesUp`,
`DeafCatchUp`) are out of the prover's reach and stay with TLC.

## 6. Plan

Next, in this order:

1. Proofs under weaker assumptions: the room's exactness from the pairs of engines
   and saves it needs, and what overlapping pulls of a tab still guarantee.
2. The desktop's outbox (`outbox.rs`, `offline.rs`) against the server's
   generations, and the phone's backup ledger.
3. Presence with expiry, composed with `ChannelRelay`.

## 7. Not modelled, and why

Retention by age, digests and verification, the search-index blob and folders
leave the content's life cycle as it is; the quota is modelled where two tables
share it (`RequestInbox`). The sealing of frames is cryptographic; the channel of
`CoSave` delivers in order per connection, which is what the counters of
`ChannelRelay` enforce. Presence rows expire by clocks: a model would let any of
them go at any time, which section 4's `PlainMeetsRoom` already shows to be
unsafe for the gate that reads them. A transaction that is retried after a
deadlock (`pgdb.ts` 201) claims the row against the same generation, so it does
what the first attempt did; retries are left out. Of shares
the password gate is left out (it turns visitors away and feeds the throttle of
`ratelimit.ts`), of members the roles, and the cache of media windows
(`mediacache.ts`), whose bytes are immutable per generation. Announcements
(`events.ts`, `seqfanout.ts`) only hasten the pull that `DeltaSync` takes anyway.
Some steps are coarser than the code. An answer of `DeltaSync` that arrives after its
tab was locked and unlocked again is not modelled (a tab that goes takes its pulls
along). A process of the caches stops and comes back in one step (`Restart`); what others
write while it is down is a write before or after that step. In `KeyRotation`
content is the key it is under and the frames it holds: what a page does with
frames of a restarted log, whose numbers it may have passed, and whether a
rotation overwrites a save made since its download, are not told apart. Cell locks and cursors ride on frames and change
no bytes. Cryptography, configuration, the S3 gateway, user interface code and
vendored code keep no shared state a model checker would help with.
