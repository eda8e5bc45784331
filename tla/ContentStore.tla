---------------------------- MODULE ContentStore ----------------------------
(***************************************************************************)
(* The content of one file of the server: the row that points at its       *)
(* current generation, the version rows, the blobs both point at, the part *)
(* upload sessions, and the document channel's log and markers, which move *)
(* in the same transaction as the pointer.                                 *)
(*                                                                         *)
(* A handler of apps/server/src/routes/storage.ts runs as a sequence of    *)
(* steps: a database read, a transaction, a write or a removal in the blob *)
(* store.  Handlers interleave between these steps, and any of them may    *)
(* stop for good after any step (a client that hangs up, a process that    *)
(* dies).  A transaction is one step, and so are reads that commute with   *)
(* everything other handlers may do between them.  On PostgreSQL a         *)
(* transaction that moves the pointer is two: READ COMMITTED lets frames   *)
(* commit between its reading of the channel's position and its purge.     *)
(***************************************************************************)
EXTENDS Naturals, FiniteSets

CONSTANTS
    Requests,           \* slots for requests the servers have in flight
    Conns,              \* connections that may join the document's channel
    Offered,            \* bound: the kinds of request clients send
    MaxVersions,        \* config.maxVersions; 0 keeps no history
    Legacy,             \* generations of rows older than the allocator
    Isolated,           \* TRUE: one process over SQLite, where database
                        \* calls between two blob operations never interleave;
                        \* FALSE: instances over PostgreSQL, where they do
    DuplicateCompletes, \* TRUE: a session may be completed by two requests
                        \* that overlap
    MaxMint,            \* bound: no generation above this is minted
    MaxPosts            \* bound: no channel position above this is issued

ASSUME ConstantsAssumption ==
    /\ Offered \subseteq {"plain", "checkpoint", "content", "begin", "thumb",
                          "restore", "delete"}
    /\ Legacy \subseteq Nat \ {0}
    /\ Isolated \in BOOLEAN /\ DuplicateCompletes \in BOOLEAN
    /\ MaxVersions \in Nat /\ MaxMint \in Nat /\ MaxPosts \in Nat

VARIABLES
    file,       \* the files row
    versions,   \* generations with a row in file_versions
    blobs,      \* generations whose data blob is stored
    thumbBlob,  \* whether the thumbnail's blob is stored
    sessions,   \* rows of upload_sessions, with their parts
    channel,    \* the channel_state row
    log,        \* positions with a row in channel_messages
    unlogged,   \* positions issued whose row is not inserted yet
    live,       \* connections with a live presence row
    req         \* what each request in flight holds in memory

chanVars == <<channel, log, unlogged, live>>
blobVars == <<blobs, thumbBlob>>
vars == <<file, versions, blobVars, sessions, chanVars, req>>

-----------------------------------------------------------------------------
(* Types *)

Phases == {"idle", "read", "sweeping", "streaming", "assembled", "stored", "claimed",
           "refused", "removing"}
SaveKinds == {"plain", "checkpoint", "content"}
Kinds == SaveKinds \cup
    {"none", "begin", "complete", "thumb", "restore", "delete"}
Plans == {"none", "purge", "content", "checkpoint"}

FileRow == [generation : Nat, uploaded : BOOLEAN, minted : Nat,
            thumb : BOOLEAN, trashed : BOOLEAN, deleted : BOOLEAN]
ChannelRow == [exists : BOOLEAN, last : Nat,
               contentGen : Nat, contentSeq : Nat,
               snapGen : Nat, snapSeq : Nat]
Session == [gen : Nat, base : Nat, baseUp : BOOLEAN, full : BOOLEAN]
Request == [pc : Phases, kind : Kinds,
            base : Nat, baseUp : BOOLEAN,  \* the row as the handler read it
            gen : Nat,                     \* the generation it writes, or the
                                           \* version it restores
            plan : Plans, upTo : Nat,      \* channelPlan and the named position
            seen : Nat,                    \* the channel's last position, as
                                           \* a transaction under way read it
            stale : SUBSET Nat,            \* data blobs it has yet to remove
            staleThumb : BOOLEAN]          \* ... and the thumbnail

TypeOK ==
    /\ file \in FileRow
    /\ versions \subseteq Nat
    /\ blobs \subseteq Nat
    /\ thumbBlob \in BOOLEAN
    /\ sessions \subseteq Session
    /\ channel \in ChannelRow
    /\ log \subseteq Nat
    /\ unlogged \subseteq Nat
    /\ live \subseteq Conns
    /\ req \in [Requests -> Request]

Idle == [pc |-> "idle", kind |-> "none", base |-> 0, baseUp |-> FALSE,
         gen |-> 0, plan |-> "none", upTo |-> 0, seen |-> 0, stale |-> {},
         staleThumb |-> FALSE]

-----------------------------------------------------------------------------
(* A file starts empty, as a blob filed from a file request (generation 0, *)
(* already uploaded), or as a row from before generations were minted.     *)

Init ==
    /\ \/ \E up \in BOOLEAN :
            /\ file = [generation |-> 0, uploaded |-> up, minted |-> 0,
                       thumb |-> FALSE, trashed |-> FALSE, deleted |-> FALSE]
            /\ blobs = IF up THEN {0} ELSE {}
            /\ versions = {}
       \/ \E g \in Legacy :
            /\ file = [generation |-> g, uploaded |-> TRUE, minted |-> 0,
                       thumb |-> FALSE, trashed |-> FALSE, deleted |-> FALSE]
            /\ blobs = {g - 1, g}
            /\ versions = {g - 1}
    /\ thumbBlob = FALSE
    /\ sessions = {}
    /\ channel = [exists |-> FALSE, last |-> 0, contentGen |-> 0,
                  contentSeq |-> 0, snapGen |-> 0, snapSeq |-> 0]
    /\ log = {} /\ unlogged = {} /\ live = {}
    /\ req = [r \in Requests |-> Idle]

-----------------------------------------------------------------------------
(* Helpers *)

(* A handler between two database calls.  On SQLite its continuations are  *)
(* microtasks: nothing else runs before it reaches blob I/O or ends.       *)
InSegment(r) ==
    \/ req[r].pc \in {"read", "claimed"}
    \/ req[r].pc = "stored" /\ req[r].kind = "complete"

MayRun(r) ==
    Isolated => /\ \A other \in Requests \ {r} : ~InSegment(other)
                /\ unlogged = {}

(* ... and for steps that belong to no request of Requests.                *)
Quiet ==
    Isolated => /\ \A r \in Requests : ~InSegment(r)
                /\ unlogged = {}

(* Nobody's transaction under way has the files row locked; a statement     *)
(* that writes the row waits for that.                                     *)
Unlocked == \A r \in Requests : req[r].pc # "claimed"

(* Mutants: an allocator that forgets what it handed out, as before the     *)
(* minted column; a commit that does not check the row's upload state, and  *)
(* one that checks nothing.                                                *)
NextWithoutMinted(n) ==
    LET known == {file.generation} \cup versions
    IN  (\E g \in known : n = g + 1) /\ (\A g \in known : g < n)

ClaimGenerationOnly(r) == file.generation = req[r].base

ClaimNothing(r) == r \in Requests

(* The generation handed out next: one past the highest the row knows of.  *)
IsNextGeneration(n) ==
    LET known == {file.minted, file.generation} \cup versions
    IN  /\ \E g \in known : n = g + 1
        /\ \A g \in known : g < n

(* The conditional update that both checks and locks the row. *)
ClaimGeneration(r) ==
    /\ file.generation = req[r].base
    /\ file.uploaded = req[r].baseUp

(* Mutant: prunes from the wrong end.                                      *)
RetainedOldest(rows) ==
    {g \in rows : Cardinality({h \in rows : h < g}) < MaxVersions}

(* The newest MaxVersions of a set of version rows; the rest is pruned.    *)
Retained(rows) ==
    {g \in rows : Cardinality({h \in rows : h > g}) < MaxVersions}

(* Mutant: the position a client names is taken as it comes.               *)
AtMostUnclamped(a, b) == a

AtMost(a, b) == IF a < b THEN a ELSE b

(* A handler with removals left keeps running; one without is done.        *)
RemovingOrDone(stale, staleThumb) ==
    IF stale = {} /\ ~staleThumb
    THEN Idle
    ELSE [Idle EXCEPT !.pc = "removing", !.stale = stale,
                      !.staleThumb = staleThumb]

Finish(r) == req' = [req EXCEPT ![r] = Idle]

-----------------------------------------------------------------------------
(* PUT /api/files/:id/data.  The row is read and the tail-base gate passed; *)
(* then the channel plan is made and a generation minted; then the bytes    *)
(* stream into a blob of their own; then the one commit point decides.      *)

StartSave(r, kind, upTo) ==
    /\ kind \in SaveKinds \cap Offered
    /\ req[r].pc = "idle" /\ MayRun(r)
    /\ ~file.deleted
    /\ kind = "plain" => live = {}
    /\ req' = [req EXCEPT ![r] =
                  [Idle EXCEPT !.pc = "read", !.kind = kind, !.upTo = upTo,
                               !.base = file.generation,
                               !.baseUp = file.uploaded]]
    /\ UNCHANGED <<file, versions, blobVars, sessions, chanVars>>

(* A content save by the one live member is planned as a checkpoint.       *)
ChannelPlan(kind, alone) ==
    CASE kind = "content" -> IF alone THEN "checkpoint" ELSE "content"
      [] kind = "checkpoint" -> "checkpoint"
      [] OTHER -> IF live = {} THEN "purge" ELSE "none"

PlanSave(r, alone) ==
    /\ req[r].pc = "read" /\ req[r].kind \in SaveKinds /\ MayRun(r)
    /\ Unlocked
    /\ alone => \E c \in Conns : live = {c}
    /\ \E n \in 1..MaxMint :
        /\ IsNextGeneration(n)
        /\ file' = [file EXCEPT !.minted = n]
        /\ req' = [req EXCEPT ![r].pc = "streaming", ![r].gen = n,
                              ![r].plan = ChannelPlan(req[r].kind, alone)]
    /\ UNCHANGED <<versions, blobVars, sessions, chanVars>>

(* The rename, or the object store's acknowledgement: whole bytes or none.  *)
PutBytes(r) ==
    /\ req[r].pc = "streaming" /\ req[r].kind \in SaveKinds /\ MayRun(r)
    /\ blobs' = blobs \cup {req[r].gen}
    /\ req' = [req EXCEPT ![r].pc = "stored"]
    /\ UNCHANGED <<file, versions, thumbBlob, sessions, chanVars>>

(* Mutant: a content save trims the log, as a checkpoint does.             *)
CommitChannelTrimming(plan, gen, upTo, last) ==
    LET bound == AtMost(upTo, last)
    IN  IF plan = "none"
        THEN UNCHANGED <<log, channel>>
        ELSE /\ log' = {s \in log : plan # "purge" /\ s > bound}
             /\ channel' = [channel EXCEPT !.contentGen = gen,
                                           !.contentSeq = bound]

(* Mutant: the position is recorded without the generation it belongs to.  *)
CommitChannelPositionOnly(plan, gen, upTo, last) ==
    LET bound == AtMost(upTo, last)
    IN  IF plan = "none"
        THEN UNCHANGED <<log, channel>>
        ELSE /\ channel' = [channel EXCEPT !.contentSeq = bound]
             /\ log' = {s \in log : plan = "content" \/ s > bound}

(* commitData, the part about the channel: a purge empties the log, a      *)
(* checkpoint trims it to the named position, a content save only records  *)
(* that position.  No position past last, what the channel had issued when *)
(* the transaction asked, is accepted.                                     *)
CommitChannel(plan, gen, upTo, last) ==
    LET bound == AtMost(upTo, last)
        Mark(seq) == [channel EXCEPT !.contentGen = gen, !.contentSeq = seq]
        MarkAndTrim(seq) == [Mark(seq) EXCEPT !.snapGen = gen, !.snapSeq = seq]
    IN  \/ /\ plan = "purge"
           /\ log' = {}
           /\ channel' = MarkAndTrim(last)
        \/ /\ plan = "checkpoint" /\ bound > 0
           /\ log' = {s \in log : s > bound}
           /\ channel' = MarkAndTrim(bound)
        \/ /\ plan = "content" \/ (plan = "checkpoint" /\ bound = 0)
           /\ log' = log
           /\ channel' = Mark(bound)
        \/ /\ plan = "none"
           /\ UNCHANGED <<log, channel>>

(* On PostgreSQL: the conditional update (of a restore: the update) has     *)
(* locked the files row until the transaction ends, and the position is    *)
(* read; frames do not wait for that lock.  On SQLite nothing comes between *)
(* these statements and the rest of the transaction.                       *)
ReadPosition(r) ==
    /\ ~Isolated /\ Unlocked
    /\ \/ /\ req[r].pc = "stored" /\ req[r].kind \in SaveKinds \cup {"complete"}
          /\ ClaimGeneration(r)
       \/ /\ req[r].pc = "read" /\ req[r].kind = "restore"
          /\ req[r].gen \in versions
    /\ req' = [req EXCEPT ![r].pc = "claimed", ![r].seen = channel.last,
                          ![r].plan = IF channel.exists THEN @ ELSE "none"]
    /\ UNCHANGED <<file, versions, blobVars, sessions, chanVars>>

(* What the transaction found in channel_state; no row, no channel action. *)
LastRead(r) == IF Isolated THEN channel.last ELSE req[r].seen

PlanKept(r) == IF Isolated /\ ~channel.exists THEN "none" ELSE req[r].plan

(* commitData: claim the row, keep or drop the displaced generation, move   *)
(* the pointer, prune.  A content save keeps no version.  Only after this   *)
(* transaction are displaced blobs removed, one by one.                     *)
Commit(r) ==
    LET plan == PlanKept(r)
        displaced == IF req[r].baseUp THEN {file.generation} ELSE {}
        keeps == MaxVersions > 0 /\ plan # "content"
        rows == IF keeps THEN versions \cup displaced ELSE versions
        dropped == IF keeps THEN {} ELSE displaced
    IN  /\ req[r].pc = IF Isolated THEN "stored" ELSE "claimed"
        /\ req[r].kind \in SaveKinds \cup {"complete"}
        /\ MayRun(r)
        /\ ClaimGeneration(r)
        /\ versions' = Retained(rows)
        /\ file' = [file EXCEPT !.generation = req[r].gen,
                                !.uploaded = TRUE,
                                !.thumb = @ /\ ~req[r].baseUp]
        /\ CommitChannel(plan, req[r].gen, req[r].upTo, LastRead(r))
        /\ sessions' = IF req[r].kind = "complete"
                       THEN {s \in sessions : s.gen # req[r].gen}
                       ELSE sessions
        /\ req' = [req EXCEPT ![r] =
                      RemovingOrDone(dropped \cup (rows \ Retained(rows)),
                                     req[r].baseUp /\ file.thumb)]
        /\ UNCHANGED <<blobVars, unlogged, live>>

(* Another save moved the row: 409, and the blob just written goes.        *)
RefuseCommit(r) ==
    /\ req[r].pc = "stored" /\ req[r].kind \in SaveKinds \cup {"complete"}
    /\ MayRun(r) /\ Unlocked
    /\ ~ClaimGeneration(r)
    /\ req' = [req EXCEPT ![r].pc = "refused"]
    /\ UNCHANGED <<file, versions, blobVars, sessions, chanVars>>

RemoveOwnBlob(r) ==
    /\ req[r].pc = "refused" /\ req[r].kind \in SaveKinds \cup {"complete"}
    /\ MayRun(r)
    /\ blobs' = blobs \ {req[r].gen}
    /\ Finish(r)
    /\ UNCHANGED <<file, versions, thumbBlob, sessions, chanVars>>

RemoveStaleBlob(r, g) ==
    /\ req[r].pc = "removing" /\ MayRun(r)
    /\ g \in req[r].stale
    /\ blobs' = blobs \ {g}
    /\ req' = [req EXCEPT ![r] = RemovingOrDone(@.stale \ {g}, @.staleThumb)]
    /\ UNCHANGED <<file, versions, thumbBlob, sessions, chanVars>>

RemoveStaleThumb(r) ==
    /\ req[r].pc = "removing" /\ MayRun(r)
    /\ req[r].staleThumb
    /\ thumbBlob' = FALSE
    /\ req' = [req EXCEPT ![r] = RemovingOrDone(@.stale, FALSE)]
    /\ UNCHANGED <<file, versions, blobs, sessions, chanVars>>

(* The client hangs up, the body is too large, or the process dies.  What   *)
(* the completed steps left behind stays.                                   *)
Crash(r) ==
    /\ req[r].pc # "idle"
    /\ Finish(r)
    /\ UNCHANGED <<file, versions, blobVars, sessions, chanVars>>

-----------------------------------------------------------------------------
(* PUT /api/files/:id/thumbnail: overwritten in place under one name.      *)

StartThumb(r) ==
    /\ "thumb" \in Offered
    /\ req[r].pc = "idle" /\ MayRun(r)
    /\ ~file.deleted
    /\ req' = [req EXCEPT ![r] =
                  [Idle EXCEPT !.pc = "streaming", !.kind = "thumb"]]
    /\ UNCHANGED <<file, versions, blobVars, sessions, chanVars>>

PutThumb(r) ==
    /\ req[r].pc = "streaming" /\ req[r].kind = "thumb" /\ MayRun(r)
    /\ thumbBlob' = TRUE
    /\ req' = [req EXCEPT ![r].pc = "stored"]
    /\ UNCHANGED <<file, versions, blobs, sessions, chanVars>>

CommitThumb(r) ==
    /\ req[r].pc = "stored" /\ req[r].kind = "thumb" /\ MayRun(r)
    /\ Unlocked
    /\ file' = [file EXCEPT !.thumb = TRUE]
    /\ Finish(r)
    /\ UNCHANGED <<versions, blobVars, sessions, chanVars>>

-----------------------------------------------------------------------------
(* Part uploads.  A begin passes the same gate and drops every session of   *)
(* the file, which waits for the blob store; then it mints, and its session *)
(* row follows once the blob store has opened an upload.                    *)

BeginParts(r) ==
    /\ "begin" \in Offered
    /\ req[r].pc = "idle" /\ MayRun(r)
    /\ ~file.deleted /\ live = {}
    /\ sessions' = {}
    /\ req' = [req EXCEPT ![r] =
                  [Idle EXCEPT !.pc = "sweeping", !.kind = "begin",
                               !.base = file.generation,
                               !.baseUp = file.uploaded]]
    /\ UNCHANGED <<file, versions, blobVars, chanVars>>

MintParts(r) ==
    /\ req[r].pc = "sweeping" /\ req[r].kind = "begin" /\ MayRun(r)
    /\ Unlocked
    /\ \E n \in 1..MaxMint :
        /\ IsNextGeneration(n)
        /\ file' = [file EXCEPT !.minted = n]
        /\ req' = [req EXCEPT ![r].pc = "streaming", ![r].gen = n]
    /\ UNCHANGED <<versions, blobVars, sessions, chanVars>>

(* Mutant: the insert leaves the upload state it read out of the row.      *)
InsertSessionWithoutState(r) ==
    /\ req[r].pc = "streaming" /\ req[r].kind = "begin" /\ MayRun(r)
    /\ sessions' = sessions \cup
          {[gen |-> req[r].gen, base |-> req[r].base, full |-> FALSE]}
    /\ Finish(r)
    /\ UNCHANGED <<file, versions, blobVars, chanVars>>

InsertSession(r) ==
    /\ req[r].pc = "streaming" /\ req[r].kind = "begin" /\ MayRun(r)
    /\ sessions' = sessions \cup
          {[gen |-> req[r].gen, base |-> req[r].base,
            baseUp |-> req[r].baseUp, full |-> FALSE]}
    /\ Finish(r)
    /\ UNCHANGED <<file, versions, blobVars, chanVars>>

(* Every part of the declared size has landed; assembly consumes them all,  *)
(* so a completion that stops after it leaves a session to be filled anew.  *)
FillSession(s) ==
    /\ s \in sessions /\ ~s.full /\ Quiet
    /\ sessions' = (sessions \ {s}) \cup {[s EXCEPT !.full = TRUE]}
    /\ UNCHANGED <<file, versions, blobVars, chanVars, req>>

(* The client cancels the session, or a begin elsewhere sweeps an old one.  *)
DropSession(s) ==
    /\ s \in sessions /\ Quiet
    /\ sessions' = sessions \ {s}
    /\ UNCHANGED <<file, versions, blobVars, chanVars, req>>

Completes(r, s) ==
    req[r].kind = "complete" /\ req[r].gen = s.gen

(* Fails before assembly when another writer moved the file meanwhile.     *)
StartComplete(r, s) ==
    /\ req[r].pc = "idle" /\ MayRun(r)
    /\ s \in sessions /\ s.full
    /\ ~DuplicateCompletes => \A other \in Requests : ~Completes(other, s)
    /\ IF ~file.deleted /\ s.base = file.generation /\ s.baseUp = file.uploaded
       THEN /\ req' = [req EXCEPT ![r] =
                          [Idle EXCEPT !.pc = "streaming", !.kind = "complete",
                                       !.gen = s.gen, !.base = s.base,
                                       !.baseUp = s.baseUp]]
            /\ UNCHANGED sessions
       ELSE /\ sessions' = sessions \ {s}
            /\ UNCHANGED req
    /\ UNCHANGED <<file, versions, blobVars, chanVars>>

AssembleParts(r) ==
    /\ req[r].pc = "streaming" /\ req[r].kind = "complete" /\ MayRun(r)
    /\ blobs' = blobs \cup {req[r].gen}
    /\ sessions' = {[s EXCEPT !.full = @ /\ s.gen # req[r].gen] : s \in sessions}
    /\ req' = [req EXCEPT ![r].pc = "assembled"]
    /\ UNCHANGED <<file, versions, thumbBlob, chanVars>>

(* The completion carries no channel header and passes no gate: its plan is *)
(* made only now, after the blob was assembled.                             *)
PlanComplete(r) ==
    /\ req[r].pc = "assembled" /\ req[r].kind = "complete" /\ MayRun(r)
    /\ req' = [req EXCEPT ![r].pc = "stored",
                          ![r].plan = ChannelPlan("complete", FALSE)]
    /\ UNCHANGED <<file, versions, blobVars, sessions, chanVars>>

-----------------------------------------------------------------------------
(* POST /api/files/:id/versions/:gen/restore.  The row is read outside the  *)
(* transaction that swaps the pointer, and nothing claims it.               *)

StartRestore(r, target) ==
    /\ "restore" \in Offered
    /\ req[r].pc = "idle" /\ MayRun(r)
    /\ ~file.deleted /\ ~file.trashed /\ file.uploaded
    /\ live = {}
    /\ req' = [req EXCEPT ![r] =
                  [Idle EXCEPT !.pc = "read", !.kind = "restore",
                               !.plan = "purge",
                               !.gen = target, !.base = file.generation,
                               !.staleThumb = file.thumb]]
    /\ UNCHANGED <<file, versions, blobVars, sessions, chanVars>>

SwapPointer(r) ==
    /\ req[r].pc = IF Isolated THEN "read" ELSE "claimed"
    /\ req[r].kind = "restore" /\ MayRun(r)
    /\ req[r].gen \in versions
    /\ versions' = (versions \cup {req[r].base}) \ {req[r].gen}
    /\ file' = [file EXCEPT !.generation = req[r].gen, !.thumb = FALSE]
    /\ CommitChannel(PlanKept(r), req[r].gen, 0, LastRead(r))
    /\ req' = [req EXCEPT ![r] = RemovingOrDone({}, @.staleThumb)]
    /\ UNCHANGED <<blobVars, sessions, unlogged, live>>

VersionNotFound(r) ==
    /\ req[r].pc = "read" /\ req[r].kind = "restore" /\ MayRun(r)
    /\ req[r].gen \notin versions
    /\ Finish(r)
    /\ UNCHANGED <<file, versions, blobVars, sessions, chanVars>>

-----------------------------------------------------------------------------
(* Trash, and DELETE /api/trash/:id, which reads the row and the version    *)
(* rows outside its transaction and removes those blobs after it.  It       *)
(* leaves the channel's rows and the upload sessions alone.                 *)

SetTrashed(value) ==
    /\ Quiet /\ Unlocked
    /\ ~file.deleted
    /\ file.trashed # value
    /\ file' = [file EXCEPT !.trashed = value]
    /\ UNCHANGED <<versions, blobVars, sessions, chanVars, req>>

StartDelete(r) ==
    /\ "delete" \in Offered
    /\ req[r].pc = "idle" /\ MayRun(r)
    /\ ~file.deleted /\ file.trashed
    /\ req' = [req EXCEPT ![r] =
                  [Idle EXCEPT !.pc = "read", !.kind = "delete",
                               !.stale = versions \cup {file.generation},
                               !.staleThumb = TRUE]]
    /\ UNCHANGED <<file, versions, blobVars, sessions, chanVars>>

(* Mutants: the file row, or the version rows, survive their blobs.        *)
DeleteKeepsUploaded(r) ==
    /\ req[r].pc = "read" /\ req[r].kind = "delete" /\ MayRun(r) /\ Unlocked
    /\ versions' = {}
    /\ file' = [file EXCEPT !.deleted = TRUE]
    /\ req' = [req EXCEPT ![r] = RemovingOrDone(@.stale, @.staleThumb)]
    /\ UNCHANGED <<blobVars, sessions, chanVars>>

DeleteKeepsVersions(r) ==
    /\ req[r].pc = "read" /\ req[r].kind = "delete" /\ MayRun(r) /\ Unlocked
    /\ file' = [file EXCEPT !.deleted = TRUE, !.uploaded = FALSE,
                            !.thumb = FALSE]
    /\ req' = [req EXCEPT ![r] = RemovingOrDone(@.stale, @.staleThumb)]
    /\ UNCHANGED <<versions, blobVars, sessions, chanVars>>

DeleteForever(r) ==
    /\ req[r].pc = "read" /\ req[r].kind = "delete" /\ MayRun(r) /\ Unlocked
    /\ versions' = {}
    /\ file' = [file EXCEPT !.deleted = TRUE, !.uploaded = FALSE,
                            !.thumb = FALSE]
    /\ req' = [req EXCEPT ![r] = RemovingOrDone(@.stale, @.staleThumb)]
    /\ UNCHANGED <<blobVars, sessions, chanVars>>

-----------------------------------------------------------------------------
(* The channel as far as saves depend on it (routes/channel.ts): presence   *)
(* rows, and frames that take a position first and a log row second.        *)

Join(c) ==
    /\ c \notin live /\ Quiet
    /\ ~file.deleted
    /\ live' = live \cup {c}
    /\ channel' = [channel EXCEPT !.exists = TRUE]
    /\ UNCHANGED <<file, versions, blobVars, sessions, log, unlogged, req>>

Leave(c) ==
    /\ c \in live /\ Quiet
    /\ live' = live \ {c}
    /\ UNCHANGED <<file, versions, blobVars, sessions, channel, log, unlogged,
                   req>>

NextChannelSeq(c) ==
    /\ c \in live /\ Quiet
    /\ channel.last < MaxPosts
    /\ channel' = [channel EXCEPT !.last = @ + 1]
    /\ unlogged' = unlogged \cup {channel.last + 1}
    /\ UNCHANGED <<file, versions, blobVars, sessions, log, live, req>>

InsertMessage(s) ==
    /\ s \in unlogged
    /\ unlogged' = unlogged \ {s}
    /\ log' = log \cup {s}
    /\ UNCHANGED <<file, versions, blobVars, sessions, channel, live, req>>

(* The process died between the two statements: the position stays empty.  *)
LoseMessage(s) ==
    /\ s \in unlogged
    /\ unlogged' = unlogged \ {s}
    /\ UNCHANGED <<file, versions, blobVars, sessions, channel, log, live, req>>

-----------------------------------------------------------------------------

UploadStep(r) ==
    \/ \E kind \in SaveKinds, upTo \in 0..MaxPosts : StartSave(r, kind, upTo)
    \/ \E alone \in BOOLEAN : PlanSave(r, alone)
    \/ PutBytes(r) \/ ReadPosition(r) \/ Commit(r) \/ RefuseCommit(r) \/ RemoveOwnBlob(r)
    \/ StartThumb(r) \/ PutThumb(r) \/ CommitThumb(r)
    \/ BeginParts(r) \/ MintParts(r) \/ InsertSession(r)
    \/ AssembleParts(r) \/ PlanComplete(r)
    \/ \E s \in sessions : StartComplete(r, s)

HistoryStep(r) ==
    \/ \E target \in 0..MaxMint : StartRestore(r, target)
    \/ SwapPointer(r) \/ VersionNotFound(r)
    \/ StartDelete(r) \/ DeleteForever(r)
    \/ \E g \in req[r].stale : RemoveStaleBlob(r, g)
    \/ RemoveStaleThumb(r)

ChannelStep ==
    \/ \E c \in Conns : Join(c) \/ Leave(c) \/ NextChannelSeq(c)
    \/ \E s \in unlogged : InsertMessage(s) \/ LoseMessage(s)

Next ==
    \/ \E r \in Requests : UploadStep(r) \/ HistoryStep(r) \/ Crash(r)
    \/ \E s \in sessions : FillSession(s) \/ DropSession(s)
    \/ \E value \in BOOLEAN : SetTrashed(value)
    \/ ChannelStep

Spec == Init /\ [][Next]_vars

-----------------------------------------------------------------------------
(* Properties *)

(* A request that has a generation of its own for bytes it is writing.     *)
Writing(r) ==
    /\ req[r].kind \in SaveKinds \cup {"begin", "complete"}
    /\ req[r].pc \in {"streaming", "assembled", "stored", "claimed", "refused"}

(* "Two saves overlapping on one file never write under one name" and "no  *)
(* blob a file row points at is ever overwritten in place": the generation *)
(* a writer or a session holds is neither current nor kept as a version,   *)
(* and nobody else holds it.                                               *)
SoleWriter ==
    /\ \A r \in Requests : Writing(r) =>
        /\ req[r].gen \notin versions \cup {file.generation}
        /\ \A other \in Requests \ {r} :
              Writing(other) => req[other].gen # req[r].gen
    /\ \A s \in sessions :
        /\ s.gen \notin versions \cup {file.generation}
        /\ \A r \in Requests :
              Writing(r) /\ req[r].gen = s.gen => req[r].kind = "complete"

(* A file row never points at missing bytes: whatever was interrupted,     *)
(* refused, restored, pruned or deleted, the current generation's blob is  *)
(* in the store.                                                           *)
CurrentContentStored == file.uploaded => file.generation \in blobs

(* Every version the owner is offered can be downloaded and restored.      *)
VersionsStored == versions \subseteq blobs

(* What a handler still has to remove after its transaction is garbage for *)
(* good: no row refers to it, and no writer of a file that still exists is *)
(* about to make one refer.                                                *)
RemovalsAreGarbage ==
    \A r \in Requests : req[r].pc = "removing" =>
        /\ req[r].stale \cap versions = {}
        /\ file.uploaded => file.generation \notin req[r].stale
        /\ \A other \in Requests :
              Writing(other) /\ ~file.deleted => req[other].gen \notin req[r].stale

(* "Restoring is always undoable", and a save keeps what it displaces: the *)
(* content the pointer leaves is a version afterwards, unless the newest   *)
(* MaxVersions rows are all of later generations.                          *)
DisplacedContentKept ==
    [][ file.uploaded /\ file'.generation # file.generation =>
          \/ file.generation \in versions'
          \/ Cardinality({g \in versions' : g > file.generation})
                >= MaxVersions ]_vars

(* "Only a save the server itself committed can trim the log": rows leave  *)
(* the log only together with the pointer, and only up to the position     *)
(* recorded beside the new generation.                                     *)
TrimOnlyWithCommit ==
    [][ log \ log' # {} =>
          /\ file'.generation # file.generation
          /\ channel'.snapGen = file'.generation
          /\ \A s \in log \ log' : s <= channel'.snapSeq ]_vars

(* A marker names a position the channel issued, and when rows are inserted *)
(* in the order positions are taken, nothing at or below the trim is left   *)
(* in the log for a joiner to apply a second time.                          *)
MarkersWithinLog ==
    /\ channel.contentSeq <= channel.last /\ channel.snapSeq <= channel.last
    /\ \A s \in log \cup unlogged : s \in 1..channel.last
    /\ Isolated => \A s \in log : s > channel.snapSeq

=============================================================================
