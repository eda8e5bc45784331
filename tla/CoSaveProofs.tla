---------------------------- MODULE CoSaveProofs ----------------------------
(***************************************************************************)
(* Whatever the pages of a room do, the server beneath them takes only     *)
(* steps of ContentStore: so what is proved there holds in every room that *)
(* starts from a file ContentStore starts from, for every number of pages, *)
(* requests, posts and generations.  The second part (from Minter on)      *)
(* proves that the room is exact: bytes, log and open engines are always   *)
(* one document, and no engine is fed a frame twice.                       *)
(***************************************************************************)
EXTENDS CoSave, ContentStoreProofs

(* The requests of a room are saves, and one that comes from a page carries *)
(* the page's bytes.                                                        *)
SavesCarryBytes ==
    \A r \in Requests :
        /\ req[r].kind \in SaveKinds \cup {"none"}
        /\ req[r].kind \in {"checkpoint", "content"} => carried[r] # {}

(* What a page knows of positions are positions the channel issued, and it  *)
(* issues none past the bound.                                              *)
RoomInv ==
    RoomTypeOK /\ SavesCarryBytes /\ channel.last <= MaxPosts /\ SeenIssued

(* Every step of a room is a step of the server or leaves it alone.         *)
LEMMA RoomStepIsStoreStep ==
    ASSUME RoomInv, [CoNext]_coVars PROVE [Next]_vars
<1>1. ASSUME NEW c \in Conns,
             \/ FetchDocument(c) \/ Welcome(c) \/ OpenDocument(c)
             \/ Drop(c) \/ Receive(c) \/ Capture(c)
      PROVE  UNCHANGED vars
  BY <1>1 DEF FetchDocument, Welcome, OpenDocument, Drop, Receive, Capture
<1>2. ASSUME NEW c \in Conns, Dial(c) \/ Close(c) \/ Post(c) PROVE Next
  <2>1. Join(c) \/ Leave(c) \/ NextChannelSeq(c)
    BY <1>2 DEF Dial, Close, Post
  <2> QED
    BY <2>1 DEF Next, ChannelStep
<1>3. ASSUME NEW c \in Conns, NEW r \in Requests, NEW kind \in SaveKinds,
             SendSave(c, r, kind)
      PROVE  Next
  <2>1. PICK save \in exports[c] : StartSave(r, kind, save.upTo)
    BY <1>3 DEF SendSave
  <2>2. save.upTo \in 0..MaxPosts
    BY <2>1 DEF RoomInv, RoomTypeOK
  <2> QED
    BY <2>1, <2>2 DEF Next, UploadStep
<1>4. ASSUME NEW s \in unlogged, Logged(s) \/ Lost(s) PROVE Next
  BY <1>4 DEF Logged, Lost, Next, ChannelStep
<1>5. ASSUME NEW r \in Requests, ServerStep(r) PROVE Next
  <2>1. CASE SendPlainSave(r)
    <3>1. StartSave(r, "plain", 0) /\ "plain" \in SaveKinds
      BY <2>1 DEF SendPlainSave, SaveKinds
    <3>2. 0 \in 0..MaxPosts
      BY ConstantsAssumption
    <3> QED
      BY <3>1, <3>2 DEF Next, UploadStep
  <2>2. CASE Plan(r)
    <3>1. PlanSave(r, AloneInRoom(r)) /\ AloneInRoom(r) \in BOOLEAN
      BY <2>2 DEF Plan, AloneInRoom
    <3> QED
      BY <3>1 DEF Next, UploadStep
  <2>3. CASE StoreBytes(r) \/ CommitSave(r) \/ RefuseCommit(r) \/ DropRefused(r)
    BY <2>3 DEF StoreBytes, CommitSave, DropRefused, Next, UploadStep
  <2>4. CASE Abandon(r)
    BY <2>4 DEF Abandon, Next
  <2>5. CASE RemoveDisplaced(r)
    BY <2>5 DEF RemoveDisplaced, Next, HistoryStep
  <2> QED
    BY <1>5, <2>1, <2>2, <2>3, <2>4, <2>5 DEF ServerStep
<1> QED
  BY <1>1, <1>2, <1>3, <1>4, <1>5 DEF CoNext, PageStep, coVars

(* The channel issues no position past the bound.                           *)
LEMMA LastStaysBounded ==
    ASSUME TypeOK, channel.last <= MaxPosts, [Next]_vars
    PROVE  channel'.last <= MaxPosts
<1>types. channel \in ChannelRow /\ req \in [Requests -> Request]
  BY DEF TypeOK
<1>commit. ASSUME NEW plan, NEW gen, NEW upTo, NEW last,
                  CommitChannel(plan, gen, upTo, last)
           PROVE  channel'.last = channel.last
  BY <1>commit, <1>types DEF CommitChannel, ChannelRow
<1>1. ASSUME NEW r \in Requests, UploadStep(r) PROVE channel'.last = channel.last
  <2>1. CASE Commit(r)
    <3>1. PICK plan, last : CommitChannel(plan, req[r].gen, req[r].upTo, last)
      BY <2>1 DEF Commit
    <3> QED
      BY <3>1, <1>commit
  <2>2. CASE ~Commit(r)
    BY <1>1, <2>2 DEF UploadStep, StartSave, PlanSave, PutBytes, RefuseCommit,
              RemoveOwnBlob, StartThumb, PutThumb, CommitThumb, BeginParts,
              MintParts, InsertSession, AssembleParts, PlanComplete,
              StartComplete, ReadPosition, chanVars
  <2> QED
    BY <2>1, <2>2
<1>2. ASSUME NEW r \in Requests, HistoryStep(r) PROVE channel'.last = channel.last
  <2>1. CASE SwapPointer(r)
    <3>1. PICK plan, last : CommitChannel(plan, req[r].gen, 0, last)
      BY <2>1 DEF SwapPointer
    <3> QED
      BY <3>1, <1>commit
  <2>2. CASE ~SwapPointer(r)
    BY <1>2, <2>2 DEF HistoryStep, StartRestore, VersionNotFound, StartDelete,
              DeleteForever, RemoveStaleBlob, RemoveStaleThumb, chanVars
  <2> QED
    BY <2>1, <2>2
<1>3. ASSUME ChannelStep PROVE channel'.last <= MaxPosts
  <2>1. CASE \E c \in Conns : NextChannelSeq(c)
    BY <2>1, <1>types, ConstantsAssumption DEF NextChannelSeq, ChannelRow
  <2>2. CASE \E c \in Conns : Join(c) \/ Leave(c)
    BY <2>2, <1>types DEF Join, Leave, ChannelRow
  <2>3. CASE \E s \in unlogged : InsertMessage(s) \/ LoseMessage(s)
    BY <2>3 DEF InsertMessage, LoseMessage
  <2> QED
    BY <1>3, <2>1, <2>2, <2>3 DEF ChannelStep
<1>4. ASSUME \/ UNCHANGED vars
             \/ \E r \in Requests : Crash(r)
             \/ \E s \in sessions : FillSession(s) \/ DropSession(s)
             \/ \E value \in BOOLEAN : SetTrashed(value)
      PROVE  channel'.last = channel.last
  BY <1>4 DEF vars, Crash, FillSession, DropSession, SetTrashed, chanVars
<1> QED
  BY <1>1, <1>2, <1>3, <1>4 DEF Next

(* The positions in the log, and those on their way to it, are issued ones. *)
LEMMA KnownPositions ==
    ASSUME TypeOK, Markers, channel.last <= MaxPosts
    PROVE  log \subseteq Positions /\ unlogged \subseteq Positions
<1>1. channel.last \in Nat /\ log \subseteq Nat /\ unlogged \subseteq Nat
  BY DEF TypeOK, ChannelRow
<1>2. \A s \in log \cup unlogged : s \in 1..channel.last
  BY DEF Markers
<1> QED
  BY <1>1, <1>2, ConstantsAssumption DEF Positions

(* No step of a page takes what the room holds out of its type.             *)
LEMMA PageStepType ==
    ASSUME TypeOK, Markers, RoomTypeOK, channel.last <= MaxPosts,
           NEW c \in Conns, PageStep(c)
    PROVE  RoomTypeOK'
<1>types. /\ file.generation \in Nat /\ channel.last \in Nat
          /\ channel.contentGen \in Nat /\ channel.contentSeq \in Nat
  BY DEF TypeOK, FileRow, ChannelRow
<1>known. log \subseteq Positions /\ unlogged \subseteq Positions
  BY KnownPositions
<1>bound. MaxPosts \in Nat
  BY ConstantsAssumption
<1>page. /\ member \in [Conns -> Page] /\ member[c] \in Page
         /\ doc \in Document
  BY DEF RoomTypeOK
<1>away. Away \in Page
  BY <1>bound DEF Away, Page, Blank, Document
<1>only. ASSUME member' \in [Conns -> Page],
                UNCHANGED <<exports, carried, news, doc, frameRoot, owed>>
         PROVE  RoomTypeOK'
  BY <1>only DEF RoomTypeOK
<1>1. CASE FetchDocument(c)
  BY <1>1, <1>only, <1>page, <1>types DEF FetchDocument, Page
<1>2. CASE Dial(c)
  <2>1. member' \in [Conns -> Page]
    BY <1>2, <1>page DEF Dial, Page
  <2> QED
    BY <1>2, <2>1 DEF Dial, RoomTypeOK
<1>3. CASE Welcome(c)
  BY <1>3, <1>only, <1>page, <1>types, <1>known DEF Welcome, Page
<1>5. CASE OpenDocument(c)
  <2>1. PICK last \in member[c].tail \cup {0} :
            member' = [member EXCEPT ![c] =
              [Away EXCEPT !.phase = "open",
                           !.held = [root |-> member[c].held.root,
                                     frames |-> member[c].held.frames \cup
                                                Feedable(c, member[c].tail)],
                           !.inbox = member[c].inbox,
                           !.seen = last]]
    BY <1>5 DEF OpenDocument
  <2>2. last \in 0..MaxPosts
    BY <1>page, <1>bound DEF Page, Positions
  <2>3. Feedable(c, member[c].tail) \subseteq Positions
    BY <1>page DEF Page, Feedable
  <2>4. member'[c] \in Page
    BY <2>1, <2>2, <2>3, <1>page, <1>away DEF Page, Away, Document
  <2>5. UNCHANGED <<exports, carried, news, doc, frameRoot, owed>>
    BY <1>5 DEF OpenDocument
  <2> QED
    BY <2>1, <2>4, <2>5, <1>page, <1>only
<1>6. CASE Drop(c)
  BY <1>6, <1>only, <1>page, <1>away DEF Drop
<1>7. CASE Close(c)
  BY <1>7 DEF Close, roomVars, RoomTypeOK
<1>8. CASE Post(c)
  <2> DEFINE s == channel.last + 1
  <2>1. s \in Positions
    BY <1>8, <1>types, <1>bound DEF Post, NextChannelSeq, Positions
  <2>2. member' = [member EXCEPT ![c].mine = @ \cup {s},
                                 ![c].held.frames = @ \cup {s}]
    BY <1>8 DEF Post
  <2>3. member' \in [Conns -> Page]
    BY <2>1, <2>2, <1>page DEF Page, Document
  <2>4. member[c].held.root \in Nat
    BY <1>page DEF Page, Document
  <2>5. frameRoot' \in [Positions -> Nat]
    BY <1>8, <2>1, <2>4 DEF Post, RoomTypeOK
  <2> QED
    BY <1>8, <2>3, <2>5 DEF Post, RoomTypeOK
<1>9. CASE Receive(c)
  <2>1. PICK s \in member[c].inbox :
            member' = [member EXCEPT ![c].inbox = @ \ {s},
                                     ![c].mine = @ \ {s},
                                     ![c].held.frames = @ \cup {s},
                                     ![c].seen = IF @ < s THEN s ELSE @]
    BY <1>9 DEF Receive
  <2>2. s \in Positions /\ s \in 0..MaxPosts
    BY <1>page, <1>bound DEF Page, Positions
  <2> DEFINE seen == IF member[c].seen < s THEN s ELSE member[c].seen
             held == [member[c].held EXCEPT !.frames = @ \cup {s}]
             p == [member[c] EXCEPT !.inbox = @ \ {s}, !.mine = @ \ {s},
                                    !.held = held, !.seen = seen]
  <2>3. seen \in 0..MaxPosts
    BY <2>2, <1>page DEF Page
  <2>4. held \in Document
    BY <2>2, <1>page DEF Page, Document
  <2>5. p \in Page
    <3> HIDE DEF seen, held
    <3> QED
      BY <2>3, <2>4, <1>page DEF Page
  <2>6. member' = [member EXCEPT ![c] = p]
    BY <2>1, <1>page DEF Page
  <2>7. member' \in [Conns -> Page]
    <3> HIDE DEF p
    <3> QED
      BY <2>5, <2>6, <1>page
  <2> QED
    BY <1>9, <2>7, <1>only DEF Receive
<1>10. CASE Capture(c)
  <2>1. [held |-> member[c].held, upTo |-> member[c].seen]
            \in [held : Document, upTo : 0..MaxPosts]
    BY <1>page DEF Page
  <2> QED
    BY <1>10, <2>1 DEF Capture, RoomTypeOK
<1>11. ASSUME NEW r \in Requests, NEW kind \in SaveKinds, SendSave(c, r, kind)
       PROVE  RoomTypeOK'
  <2>1. PICK save \in exports[c] :
            carried' = [carried EXCEPT ![r] = {[by |-> c, held |-> save.held]}]
    BY <1>11 DEF SendSave
  <2>2. save.held \in Document
    BY <2>1 DEF RoomTypeOK
  <2>3. [by |-> c, held |-> save.held] \in [by : Conns, held : Document]
    BY <2>2
  <2>4. /\ exports' = [exports EXCEPT ![c] = {}]
        /\ UNCHANGED <<member, news, doc, frameRoot, owed>>
    BY <1>11 DEF SendSave
  <2> QED
    BY <2>1, <2>3, <2>4 DEF RoomTypeOK
<1> QED
  BY <1>1, <1>2, <1>3, <1>5, <1>6, <1>7, <1>8, <1>9, <1>10, <1>11
  DEF PageStep

(* Nor does announcing a marker.                                            *)
LEMMA AnnounceType ==
    ASSUME member \in [Conns -> Page], news \in [Requests -> SUBSET Marker],
           NEW r \in Requests, NEW notes \in SUBSET Marker, Announce(r, notes)
    PROVE  /\ member' \in [Conns -> Page]
           /\ news' \in [Requests -> SUBSET Marker]
<1>1. news' \in [Requests -> SUBSET Marker]
  BY DEF Announce
<1>2. CASE UNCHANGED member
  BY <1>1, <1>2
<1>3. ASSUME NEW note \in notes,
             member' = [c \in Conns |->
                    IF Greeted(c)
                    THEN [member[c] EXCEPT !.markGen = note.gen,
                                           !.markSeq = note.seq,
                                           !.tail = @ \cup member[c].inbox,
                                           !.inbox = {}]
                    ELSE member[c]]
      PROVE  member' \in [Conns -> Page]
  <2>1. note.gen \in Nat /\ note.seq \in Nat
    BY DEF Marker
  <2>2. \A c \in Conns :
            [member[c] EXCEPT !.markGen = note.gen, !.markSeq = note.seq,
                              !.tail = @ \cup member[c].inbox, !.inbox = {}] \in Page
    BY <2>1 DEF Page
  <2> QED
    BY <1>3, <2>2
<1> QED
  BY <1>1, <1>2, <1>3 DEF Announce

(* Nor does a step of the server or the loss of a frame.                    *)
LEMMA ServerStepType ==
    ASSUME TypeOK, Markers, RoomTypeOK, SavesCarryBytes, channel.last <= MaxPosts,
           \/ \E r \in Requests : ServerStep(r)
           \/ \E s \in unlogged : Logged(s) \/ Lost(s)
    PROVE  RoomTypeOK'
<1>page. member \in [Conns -> Page]
  BY DEF RoomTypeOK
<1>away. Away \in Page
  BY ConstantsAssumption DEF Away, Page, Blank, Document
<1>quiet. ASSUME UNCHANGED roomVars PROVE RoomTypeOK'
  BY <1>quiet DEF roomVars, RoomTypeOK
<1>1. ASSUME NEW s \in unlogged, Logged(s) PROVE RoomTypeOK'
  <2>1. s \in Positions
    BY KnownPositions
  <2>2. \A c \in Conns : [member[c] EXCEPT !.inbox = @ \cup {s}] \in Page
    BY <2>1, <1>page DEF Page
  <2>3. member' \in [Conns -> Page]
    BY <1>1, <2>2, <1>page DEF Logged
  <2> QED
    BY <1>1, <2>1, <2>3 DEF Logged, RoomTypeOK
<1>2. ASSUME NEW s \in unlogged, Lost(s) PROVE RoomTypeOK'
  BY <1>2, <1>away DEF Lost, RoomTypeOK
<1>3. ASSUME NEW r \in Requests, CommitSave(r) PROVE RoomTypeOK'
  <2>1. req[r] \in Request /\ req[r].gen \in Nat
    BY DEF TypeOK, Request
  <2>2. req[r].kind \in SaveKinds \cup {"complete"}
    BY <1>3 DEF CommitSave, Commit
  <2> DEFINE notes == IF \/ req[r].plan = "content"
                         \/ req[r].plan = "checkpoint" /\ channel'.contentSeq > 0
                      THEN {[gen |-> req[r].gen, seq |-> channel'.contentSeq]}
                      ELSE {}
  <2>a. channel'.contentSeq \in Nat
    <3>1. PICK plan : CommitChannel(plan, req[r].gen, req[r].upTo, LastRead(r))
      BY <1>3 DEF CommitSave, Commit
    <3>2. LastRead(r) \in Nat
      BY <2>1, ReadTypes DEF TypeOK
    <3> QED
      BY <2>1, <3>1, <3>2, CommitChannelType DEF TypeOK, Request, ChannelRow
  <2>b. notes \in SUBSET Marker
    BY <2>1, <2>a DEF Marker
  <2>c. Announce(r, notes)
    BY <1>3 DEF CommitSave
  <2>d. /\ member' \in [Conns -> Page] /\ news' \in [Requests -> SUBSET Marker]
    <3> HIDE DEF notes
    <3> QED
      BY <2>b, <2>c, AnnounceType DEF RoomTypeOK
  <2>e. /\ owed' \subseteq Positions
        /\ carried' \in [Requests -> SUBSET [by : Conns, held : Document]]
        /\ UNCHANGED <<exports, frameRoot>>
    BY <1>3 DEF CommitSave, RoomTypeOK
  <2>3. CASE req[r].kind = "plain"
    <3>1. doc' \in Document
      BY <1>3, <2>1, <2>3 DEF CommitSave, Document
    <3> QED
      BY <2>d, <2>e, <3>1 DEF RoomTypeOK
  <2>4. CASE req[r].kind # "plain"
    <3>1. carried[r] # {}
      BY <2>2, <2>4 DEF SavesCarryBytes, SaveKinds
    <3>2. (CHOOSE body \in carried[r] : TRUE) \in carried[r]
      BY <3>1
    <3>3. doc' \in Document
      BY <1>3, <2>4, <3>2 DEF CommitSave, RoomTypeOK
    <3> QED
      BY <2>d, <2>e, <3>3 DEF RoomTypeOK
  <2> QED
    BY <2>3, <2>4
<1>4. ASSUME NEW r \in Requests, DropRefused(r) \/ Abandon(r) PROVE RoomTypeOK'
  <2>1. /\ carried' = [carried EXCEPT ![r] = {}]
        /\ UNCHANGED <<member, exports, news, doc, frameRoot, owed>>
    BY <1>4 DEF DropRefused, Abandon
  <2> QED
    BY <2>1 DEF RoomTypeOK
<1>5. ASSUME NEW r \in Requests, RemoveDisplaced(r) PROVE RoomTypeOK'
  <2>1. /\ member' \in [Conns -> Page] /\ news' \in [Requests -> SUBSET Marker]
    BY <1>5, AnnounceType DEF RemoveDisplaced, RoomTypeOK
  <2> QED
    BY <1>5, <2>1 DEF RemoveDisplaced, RoomTypeOK
<1> QED
  BY <1>1, <1>2, <1>3, <1>4, <1>5, <1>quiet
  DEF ServerStep, SendPlainSave, Plan, StoreBytes

(* The requests of a room stay saves, and a save keeps its page's bytes for *)
(* as long as it may commit.                                                *)
LEMMA SavesCarryBytesStep ==
    ASSUME TypeOK, RoomInv, [CoNext]_coVars PROVE SavesCarryBytes'
<1>types. req \in [Requests -> Request] /\ DOMAIN carried = Requests
  BY DEF TypeOK, RoomInv, RoomTypeOK
<1>inv. SavesCarryBytes
  BY DEF RoomInv
<1>quiet. ASSUME req' = req, carried' = carried PROVE SavesCarryBytes'
  BY <1>quiet, <1>inv DEF SavesCarryBytes
<1>none. ASSUME NEW r \in Requests, NEW q,
                req' = [req EXCEPT ![r] = q], q.kind = "none",
                \A other \in Requests \ {r} : carried'[other] = carried[other]
         PROVE  SavesCarryBytes'
  BY <1>none, <1>types, <1>inv DEF SavesCarryBytes
<1>rest. ASSUME NEW stale, NEW staleThumb
         PROVE  RemovingOrDone(stale, staleThumb).kind = "none"
  BY DEF RemovingOrDone, Idle
<1>1. ASSUME NEW c \in Conns, NEW r \in Requests, NEW kind \in SaveKinds,
             SendSave(c, r, kind)
      PROVE  SavesCarryBytes'
  <2>1. PICK save \in exports[c] :
          /\ StartSave(r, kind, save.upTo)
          /\ carried' = [carried EXCEPT ![r] = {[by |-> c, held |-> save.held]}]
    BY <1>1 DEF SendSave
  <2>2. /\ req' = [req EXCEPT ![r] =
                [Idle EXCEPT !.pc = "read", !.kind = kind, !.upTo = save.upTo,
                             !.base = file.generation, !.baseUp = file.uploaded]]
    BY <2>1 DEF StartSave
  <2>3. req'[r].kind = kind /\ carried'[r] # {}
    BY <2>1, <2>2, <1>types DEF Idle
  <2>4. \A other \in Requests \ {r} :
            req'[other] = req[other] /\ carried'[other] = carried[other]
    BY <2>1, <2>2, <1>types
  <2> QED
    BY <2>3, <2>4, <1>inv DEF SavesCarryBytes
<1>2. ASSUME NEW r \in Requests, SendPlainSave(r) PROVE SavesCarryBytes'
  <2>1. req' = [req EXCEPT ![r] =
                [Idle EXCEPT !.pc = "read", !.kind = "plain", !.upTo = 0,
                             !.base = file.generation, !.baseUp = file.uploaded]]
    BY <1>2 DEF SendPlainSave, StartSave
  <2>2. req'[r].kind = "plain"
    BY <2>1, <1>types DEF Idle
  <2>3. \A other \in Requests \ {r} : req'[other] = req[other]
    BY <2>1, <1>types
  <2> QED
    BY <1>2, <2>2, <2>3, <1>inv DEF SendPlainSave, roomVars, SavesCarryBytes, SaveKinds
<1>3. ASSUME NEW r \in Requests, Plan(r) \/ StoreBytes(r) PROVE SavesCarryBytes'
  <2>1. carried' = carried
    BY <1>3 DEF Plan, StoreBytes, roomVars
  <2>2. CASE Plan(r)
    <3>1. PICK n \in 1..MaxMint :
            req' = [req EXCEPT ![r].pc = "streaming", ![r].gen = n,
                      ![r].plan = ChannelPlan(req[r].kind, AloneInRoom(r))]
      BY <2>2 DEF Plan, PlanSave
    <3> QED
      BY <3>1, <2>1, <1>types, <1>inv DEF SavesCarryBytes, Request
  <2>3. CASE StoreBytes(r)
    BY <2>3, <2>1, <1>types, <1>inv DEF StoreBytes, PutBytes, SavesCarryBytes, Request
  <2> QED
    BY <1>3, <2>2, <2>3
<1>4. ASSUME NEW r \in Requests, CommitSave(r) PROVE SavesCarryBytes'
  <2>1. PICK stale, staleThumb :
          req' = [req EXCEPT ![r] = RemovingOrDone(stale, staleThumb)]
    BY <1>4 DEF CommitSave, Commit
  <2>2. carried' = [carried EXCEPT ![r] = {}]
    BY <1>4 DEF CommitSave
  <2> QED
    BY <2>1, <2>2, <1>rest, <1>none, <1>types
<1>5. ASSUME NEW r \in Requests, RefuseCommit(r) /\ UNCHANGED roomVars
      PROVE  SavesCarryBytes'
  BY <1>5, <1>types, <1>inv DEF RefuseCommit, roomVars, SavesCarryBytes, Request
<1>6. ASSUME NEW r \in Requests, DropRefused(r) \/ Abandon(r)
      PROVE  SavesCarryBytes'
  <2>1. /\ req' = [req EXCEPT ![r] = Idle]
        /\ carried' = [carried EXCEPT ![r] = {}]
    BY <1>6 DEF DropRefused, Abandon, RemoveOwnBlob, Crash, Finish
  <2> QED
    BY <2>1, <1>none, <1>types DEF Idle
<1>7. ASSUME NEW r \in Requests, RemoveDisplaced(r) PROVE SavesCarryBytes'
  <2>1. PICK stale, staleThumb :
          req' = [req EXCEPT ![r] = RemovingOrDone(stale, staleThumb)]
    BY <1>7 DEF RemoveDisplaced, RemoveStaleBlob
  <2> QED
    BY <2>1, <1>7, <1>rest, <1>none DEF RemoveDisplaced
<1>8. ASSUME NEW c \in Conns, PageStep(c), req' = req, carried' = carried
      PROVE  SavesCarryBytes'
  BY <1>8, <1>quiet
<1>9. ASSUME NEW c \in Conns, PageStep(c),
             \A r \in Requests, kind \in SaveKinds : ~SendSave(c, r, kind)
      PROVE  req' = req /\ carried' = carried
  BY <1>9
  DEF PageStep, FetchDocument, Dial, Welcome, OpenDocument, Drop,
      Close, Post, Receive, Capture, Join, Leave, NextChannelSeq, vars, roomVars
<1>10. ASSUME NEW s \in unlogged, Logged(s) \/ Lost(s) PROVE SavesCarryBytes'
  BY <1>10, <1>quiet DEF Logged, Lost, InsertMessage, LoseMessage
<1>11. ASSUME UNCHANGED coVars PROVE SavesCarryBytes'
  BY <1>11, <1>quiet DEF coVars, vars, roomVars
<1> QED
  BY <1>1, <1>2, <1>3, <1>4, <1>5, <1>6, <1>7, <1>8, <1>9, <1>10, <1>11
  DEF CoNext, ServerStep

-----------------------------------------------------------------------------

(* A room that starts from a document saved before it had one starts from   *)
(* a state every invariant of the store holds in.                           *)
LEMMA StampedStart ==
    ASSUME StampedInit PROVE TypeOK /\ Markers /\ Names /\ Storage
<1>1. TypeOK
  <2>1. file \in FileRow /\ channel \in ChannelRow
    BY DEF StampedInit, FileRow, ChannelRow
  <2>2. req \in [Requests -> Request]
    BY IdleType DEF StampedInit
  <2>3. thumbBlob \in BOOLEAN
    BY Zenon DEF StampedInit
  <2>4. /\ blobs = {1}
        /\ versions = {} /\ sessions = {} /\ log = {} /\ unlogged = {} /\ live = {}
    BY DEF StampedInit
  <2> QED
    BY <2>1, <2>2, <2>3, <2>4 DEF TypeOK
<1>2. Markers
  BY DEF StampedInit, Markers
<1>3. \A r \in Requests : req[r] = Idle
  BY DEF StampedInit
<1>4. \A r \in Requests : ~Writing(r) /\ ~Restoring(r)
  BY <1>3 DEF Writing, Restoring, Idle
<1>5. Names
  BY <1>4
  DEF StampedInit, Names, KnownAreMinted, HeldAreMinted, HeldByOne,
      HeldAreUnknown, Pointed
<1>6. Storage
  <2>1. \A r \in Requests : req[r].pc = "idle"
    BY <1>3 DEF Idle
  <2>2. /\ file.generation \notin versions
        /\ CurrentContentStored /\ VersionsStored
    BY DEF StampedInit, CurrentContentStored, VersionsStored
  <2> QED
    BY <2>1, <2>2
    DEF Storage, SegmentsAreFresh, OneSegment, StoredBeforeCommit,
        RemovalsStayClear, RemovalsAreMinted, Committing, Writing, Removing
<1> QED
  BY <1>1, <1>2, <1>5, <1>6

(* What a room starts with.                                                 *)
LEMMA RoomStart == ASSUME CoInit PROVE TypeOK /\ Markers /\ RoomInv
<1>1. TypeOK /\ Markers /\ channel.last = 0
  <2>1. CASE Stamped
    <3>1. StampedInit
      BY <2>1 DEF CoInit
    <3> QED
      BY <3>1, StampedStart DEF StampedInit
  <2>2. CASE ~Stamped
    <3>1. Init
      BY <2>2 DEF CoInit
    <3>2. Markers /\ channel.last = 0
      BY <3>1 DEF Init, Markers
    <3> QED
      BY <3>1, <3>2, InitType
  <2> QED
    BY <2>1, <2>2
<1>2. req = [r \in Requests |-> Idle]
  BY DEF CoInit, StampedInit, Init
<1>3. SavesCarryBytes /\ SeenIssued
  BY <1>1, <1>2 DEF SavesCarryBytes, SeenIssued, Idle, SaveKinds
<1>4. RoomTypeOK
  <2>1. Away \in Page
    BY ConstantsAssumption DEF Away, Page, Blank, Document
  <2>2. doc \in Document
    BY <1>1 DEF CoInit, TypeOK, FileRow, Document
  <2> QED
    BY <2>1, <2>2 DEF CoInit, RoomTypeOK
<1> QED
  BY <1>1, <1>3, <1>4, ConstantsAssumption DEF RoomInv

(* One step of a room, whoever takes it.                                    *)
LEMMA RoomStep ==
    ASSUME TypeOK, Markers, RoomInv, [CoNext]_coVars
    PROVE  [Next]_vars /\ (TypeOK /\ Markers /\ RoomInv)'
<1>1. [Next]_vars
  BY RoomStepIsStoreStep
<1>2. TypeOK' /\ Markers' /\ channel'.last <= MaxPosts /\ SeenIssued'
  BY <1>1, TypeStep, MarkersStep, SeenStep, LastStaysBounded DEF RoomInv
<1>3. SavesCarryBytes'
  BY SavesCarryBytesStep
<1>4. RoomTypeOK'
  <2>1. CASE UNCHANGED coVars
    BY <2>1 DEF coVars, roomVars, RoomInv, RoomTypeOK
  <2>2. CASE CoNext
    BY <2>2, PageStepType, ServerStepType DEF RoomInv, CoNext
  <2> QED
    BY <2>1, <2>2
<1> QED
  BY <1>1, <1>2, <1>3, <1>4 DEF RoomInv

LEMMA RoomInvariant == CoSpec => [](TypeOK /\ Markers /\ RoomInv)
<1>1. CoInit => TypeOK /\ Markers /\ RoomInv
  BY RoomStart
<1>2. TypeOK /\ Markers /\ RoomInv /\ [CoNext]_coVars
        => (TypeOK /\ Markers /\ RoomInv)'
  BY RoomStep
<1> QED
  BY <1>1, <1>2, PTL DEF CoSpec

(* Pages, captured saves and the bytes under way keep their types.          *)
THEOREM RoomTypeCorrect == CoSpec => []RoomTypeOK
<1>1. RoomInv => RoomTypeOK
  BY DEF RoomInv
<1> QED
  BY <1>1, RoomInvariant, PTL

(* A room opened on a file nobody saved in one before implements the store: *)
(* the pages drive the handlers through steps ContentStore allows, and      *)
(* every other step of a page leaves the server as it is.                   *)
THEOREM RoomImplementsStore == ASSUME ~Stamped PROVE CoSpec => Spec
<1>1. CoInit => Init
  BY DEF CoInit
<1>2. TypeOK /\ Markers /\ RoomInv /\ [CoNext]_coVars => [Next]_vars
  BY RoomStep
<1> QED
  BY <1>1, <1>2, RoomInvariant, PTL DEF CoSpec, Spec

(* Live editing never leaves the document without its bytes, nor the list   *)
(* of versions, however saves of several pages overlap, are refused or die. *)
THEOREM RoomKeepsContentStored ==
    ASSUME ~DuplicateCompletes
    PROVE  CoSpec => [](CurrentContentStored /\ VersionsStored)
<1> DEFINE IInv == TypeOK /\ Markers /\ RoomInv /\ Names /\ Storage
<1>1. CoInit => IInv
  <2>1. ASSUME CoInit PROVE Names /\ Storage
    <3>1. CASE Stamped
      BY <2>1, <3>1, StampedStart DEF CoInit
    <3>2. CASE ~Stamped
      BY <2>1, <3>2, NamesInit, StorageInit DEF CoInit
    <3> QED
      BY <3>1, <3>2
  <2> QED
    BY <2>1, RoomStart
<1>2. IInv /\ [CoNext]_coVars => IInv'
  <2> SUFFICES ASSUME IInv, [CoNext]_coVars PROVE IInv'
    OBVIOUS
  <2>1. [Next]_vars /\ (TypeOK /\ Markers /\ RoomInv)'
    BY RoomStep
  <2>2. Names' /\ Storage'
    BY <2>1, NamesStep, StorageStep, RoomAssumption
  <2> QED
    BY <2>1, <2>2
<1>3. IInv => CurrentContentStored /\ VersionsStored
  BY DEF Storage
<1> QED
  BY <1>1, <1>2, <1>3, PTL DEF CoSpec

-----------------------------------------------------------------------------
(* What the pages of a room hold.  The invariant that makes the four        *)
(* exactness properties inductive, part by part.                            *)

(* A request that holds a generation it minted.                             *)
Minter(r) == req[r].pc \in {"streaming", "stored", "refused"}

(* A minted number belongs to one request, and is no row's and no request's *)
(* base.                                                                    *)
MintInv ==
    /\ file.generation \in 1..file.minted
    /\ \A r \in Requests :
        /\ req[r].base <= file.minted
        /\ Minter(r) =>
            /\ req[r].gen \in 1..file.minted
            /\ req[r].gen # file.generation
            /\ \A other \in Requests :
                /\ req[other].base # req[r].gen
                /\ Minter(other) /\ other # r => req[other].gen # req[r].gen

(* What a save under way will do to the channel.                            *)
PlanInv ==
    \A r \in Requests : req[r].pc \in {"streaming", "stored"} =>
        /\ req[r].kind = "plain" => req[r].plan = "purge"
        /\ req[r].kind \in {"content", "checkpoint"}
              => req[r].plan \in {"content", "checkpoint"}

(* A save without the channel is alone: nobody is in the room, and no page  *)
(* has a captured save.                                                     *)
PlainInv ==
    /\ \A c \in Conns : member[c].phase # "out" => c \in live
    /\ \A r \in Requests : req[r].kind = "plain" =>
          live = {} /\ \A c \in Conns : exports[c] = {}

(* The stored bytes, and the log past the marker, are all that is owed; the *)
(* bytes hold nothing past the marker, and all of it grew from one root.    *)
StoredInv ==
    /\ channel.exists /\ channel.contentGen = file.generation
    /\ channel.contentSeq <= channel.last
    /\ \A s \in owed : s <= channel.last
    /\ \A s \in unlogged : /\ s = channel.last /\ s \notin owed
                          /\ channel.contentSeq < s
    /\ log \subseteq owed /\ doc.frames \subseteq owed
    /\ \A s \in doc.frames : s <= channel.contentSeq
    /\ \A s \in owed : s \in doc.frames \/ (s \in log /\ channel.contentSeq < s)
    /\ \A s \in log \cup unlogged : frameRoot[s] = doc.root

(* A captured save holds all that is owed up to its position.               *)
Captured(save) ==
    /\ save.held.root = doc.root /\ save.held.frames \subseteq owed
    /\ save.upTo <= channel.last /\ \A s \in unlogged : save.upTo < s
    /\ \A s \in owed : s <= save.upTo => s \in save.held.frames

ExportInv == \A c \in Conns : \A save \in exports[c] : Captured(save)

(* Bytes that, with the log past a position, would store all that is owed.  *)
Storable(held, upTo) ==
    /\ held.root = doc.root /\ held.frames \subseteq owed
    /\ upTo <= channel.last /\ \A s \in unlogged : upTo < s
    /\ \A s \in held.frames : s <= upTo
    /\ \A s \in owed : s \in held.frames \/ (s \in log /\ upTo < s)

(* A page's save that may still commit carries such bytes.                  *)
CarriedInv ==
    \A r \in Requests : \A body \in carried[r] :
        req[r].kind \in {"content", "checkpoint"} /\ req[r].base = file.generation
            => Storable(body.held, req[r].upTo)

(* What is yet to be announced is still so.                                 *)
NewsInv ==
    \A r \in Requests : \A note \in news[r] :
        note.gen = file.generation /\ note.seq = channel.contentSeq

(* No page names a number that is yet to be committed.                      *)
Quotes(p) ==
    /\ p.got <= file.minted /\ p.markGen <= file.minted
    /\ \A r \in Requests : Minter(r) => p.got # req[r].gen /\ p.markGen # req[r].gen

(* Bytes that name the current generation are what its blob holds.          *)
Fetched(p) ==
    /\ p.phase = "open" => ~p.fetched
    /\ p.fetched /\ p.got = file.generation => p.held = doc

(* A page is sent nothing before its welcome, and the whole log since.      *)
Sent(p) ==
    /\ p.phase # "greeted" => p.tail = {}
    /\ p.phase \notin {"greeted", "open"} => p.inbox = {}
    /\ p.phase # "open" => p.mine = {}
    /\ p.phase = "greeted" =>
        /\ log \subseteq p.tail \cup p.inbox /\ p.tail \cup p.inbox \subseteq owed
        /\ \A t \in p.tail, i \in p.inbox : t < i

(* A page's marker is the channel's, or names older bytes.                  *)
Marked(p) ==
    p.phase = "greeted" =>
        /\ p.markGen # 0
        /\ p.markSeq <= channel.last
        /\ \A s \in unlogged \cup p.inbox : p.markSeq < s
        /\ p.markGen = file.generation => p.markSeq = channel.contentSeq

(* Where bytes and marker pair, the bytes and what is fed to them are apart, *)
(* and together they are all that is owed.                                  *)
Pairs(p) ==
    p.phase = "greeted" /\ p.fetched /\ p.markGen = p.got =>
        /\ p.held.root = doc.root /\ p.held.frames \subseteq owed
        /\ \A s \in p.tail \cup p.inbox : p.markSeq < s => s \notin p.held.frames
        /\ \A s \in owed : \/ s \in p.held.frames
                          \/ (s \in p.tail \cup p.inbox /\ p.markSeq < s)

(* An open engine lacks only what is on its way to it, in order.            *)
Engine(p) ==
    p.phase = "open" =>
        /\ p.held.root = doc.root
        /\ p.held.frames \subseteq owed \cup unlogged
        /\ p.held.frames \cap (unlogged \cup p.inbox) \subseteq p.mine
        /\ p.inbox \subseteq owed
        /\ \A s \in owed : s \in p.held.frames \cup p.inbox
        /\ p.seen <= channel.last
        /\ \A s \in unlogged \cup p.inbox : p.seen < s

PageFits(p) ==
    Quotes(p) /\ Fetched(p) /\ Sent(p) /\ Marked(p) /\ Pairs(p) /\ Engine(p)

PageInv == \A c \in Conns : PageFits(member[c])

ExactInv ==
    /\ MintInv /\ PlanInv /\ PlainInv
    /\ StoredInv /\ ExportInv /\ CarriedInv /\ NewsInv
    /\ PageInv

(* Without the four ways section 4 of the README names.                     *)
Orderly == Stamped /\ ~InexactSaves /\ ~LateNews /\ ~PlainMeetsRoom

(* What every proof below starts from.                                      *)
Setting == TypeOK /\ Markers /\ RoomInv /\ ExactInv

LEMMA ExactStart == ASSUME CoInit, Orderly PROVE ExactInv
<1>1. /\ StampedInit
      /\ member = [c \in Conns |-> Away] /\ exports = [c \in Conns |-> {}]
      /\ carried = [r \in Requests |-> {}] /\ news = [r \in Requests |-> {}]
      /\ doc = [root |-> file.generation, frames |-> {}] /\ owed = {}
  BY DEF CoInit, Orderly
<1>2. /\ file.generation = 1 /\ file.minted = 1
      /\ channel.exists /\ channel.contentGen = 1 /\ channel.contentSeq = 0
      /\ channel.last = 0 /\ log = {} /\ unlogged = {} /\ live = {}
  BY <1>1 DEF StampedInit
<1>3. \A r \in Requests : /\ req[r].pc = "idle" /\ req[r].kind = "none" /\ req[r].base = 0
  BY <1>1 DEF StampedInit, Idle
<1>4. \A c \in Conns : /\ member[c].phase = "out" /\ ~member[c].fetched
                       /\ member[c].got = 0 /\ member[c].markGen = 0
                       /\ member[c].tail = {} /\ member[c].inbox = {}
                       /\ member[c].mine = {}
  BY <1>1 DEF Away
<1>5. MintInv /\ PlanInv /\ PlainInv
  BY <1>2, <1>3, <1>4 DEF MintInv, PlanInv, PlainInv, Minter
<1>6. StoredInv
  BY <1>1, <1>2 DEF StoredInv
<1>7. ExportInv /\ CarriedInv /\ NewsInv
  BY <1>1 DEF ExportInv, CarriedInv, NewsInv
<1>8. PageInv
  BY <1>2, <1>3, <1>4
  DEF PageInv, PageFits, Quotes, Fetched, Sent, Marked, Pairs, Engine, Minter
<1> QED
  BY <1>5, <1>6, <1>7, <1>8 DEF ExactInv

(* A step that changes one page, and leaves it one that fits.               *)
LEMMA OnePage ==
    ASSUME Setting, NEW c \in Conns, NEW p, PageFits(p),
           member' = [member EXCEPT ![c] = p],
           p.phase # "out" => member[c].phase # "out",
           UNCHANGED <<vars, exports, carried, news, doc, frameRoot, owed>>
    PROVE  ExactInv'
<1>1. /\ UNCHANGED <<file, channel, log, unlogged, live, req>>
      /\ UNCHANGED <<exports, carried, news, doc, frameRoot, owed>>
  BY DEF vars, chanVars
<1>2. /\ DOMAIN member = Conns /\ member'[c] = p
      /\ \A d \in Conns \ {c} : member'[d] = member[d]
  BY DEF Setting, RoomInv, RoomTypeOK
<1>3. MintInv' /\ PlanInv'
  BY <1>1 DEF Setting, ExactInv, MintInv, PlanInv, Minter
<1>4. PlainInv'
  BY <1>1, <1>2 DEF Setting, ExactInv, PlainInv
<1>5. StoredInv'
  BY <1>1 DEF Setting, ExactInv, StoredInv
<1>6. ExportInv' /\ CarriedInv' /\ NewsInv'
  BY <1>1 DEF Setting, ExactInv, ExportInv, Captured, CarriedInv, Storable, NewsInv
<1>7. ASSUME NEW d \in Conns PROVE PageFits(member[d])'
  <2>1. PICK q : q = member'[d]
    OBVIOUS
  <2>2. PageFits(q)
    BY <1>2, <2>1 DEF Setting, ExactInv, PageInv
  <2>3. PageFits(q)'
    BY <1>1, <2>2
    DEF PageFits, Quotes, Fetched, Sent, Marked, Pairs, Engine, Minter
  <2> QED
    BY <2>1, <2>3
    DEF PageFits, Quotes, Fetched, Sent, Marked, Pairs, Engine, Minter
<1> QED
  BY <1>3, <1>4, <1>5, <1>6, <1>7 DEF ExactInv, PageInv

(* What the steps of a page make of it, field by field.                     *)
LEMMA PageFields ==
    ASSUME NEW p \in Page
    PROVE  /\ p.phase \in {"out", "dialed", "greeted", "open"}
           /\ p.fetched \in BOOLEAN /\ p.got \in Nat /\ p.markGen \in Nat
           /\ p.markSeq \in Nat /\ p.held \in Document
           /\ p.held.root \in Nat /\ p.held.frames \subseteq Positions
           /\ p.tail \subseteq Positions /\ p.inbox \subseteq Positions
           /\ p.mine \subseteq Positions /\ p.seen \in 0..MaxPosts
BY DEF Page, Document

LEMMA SettingTypes ==
    ASSUME Setting
    PROVE  /\ member \in [Conns -> Page] /\ doc \in Document
           /\ doc.root \in Nat /\ doc.frames \subseteq Positions
           /\ file.generation \in Nat /\ file.minted \in Nat
           /\ channel \in ChannelRow /\ channel.last \in Nat
           /\ channel.contentGen \in Nat /\ channel.contentSeq \in Nat
           /\ log \subseteq Positions /\ unlogged \subseteq Positions
           /\ owed \subseteq Positions /\ channel.last <= MaxPosts /\ MaxPosts \in Nat
           /\ Positions \subseteq Nat /\ \A s \in Positions : s > 0
           /\ req \in [Requests -> Request]
           /\ frameRoot \in [Positions -> Nat]
<1>1. log \subseteq Positions /\ unlogged \subseteq Positions
  BY KnownPositions DEF Setting, RoomInv
<1>2. MaxPosts \in Nat
  BY ConstantsAssumption
<1> QED
  BY <1>1, <1>2
  DEF Setting, TypeOK, RoomInv, RoomTypeOK, Document, FileRow, ChannelRow, Positions

(* On SQLite nothing else runs between a position and its row.              *)
LEMMA QuietMeansLogged == ASSUME Quiet PROVE unlogged = {}
BY RoomAssumption DEF Quiet

LEMMA MayRunMeansLogged == ASSUME NEW r, MayRun(r) PROVE unlogged = {}
BY RoomAssumption DEF MayRun

LEMMA FetchKeeps ==
    ASSUME Setting, NEW c \in Conns, FetchDocument(c) PROVE ExactInv'
<1>t. member[c] \in Page
  BY SettingTypes
<1>1. PICK p : p = [member[c] EXCEPT !.fetched = TRUE, !.got = file.generation, !.held = doc]
  OBVIOUS
<1>2. /\ p.fetched /\ p.got = file.generation /\ p.held = doc
      /\ p.phase = member[c].phase /\ p.markGen = member[c].markGen
      /\ p.markSeq = member[c].markSeq /\ p.tail = member[c].tail
      /\ p.inbox = member[c].inbox /\ p.mine = member[c].mine
  BY <1>1, <1>t DEF Page
<1>3. member' = [member EXCEPT ![c] = p]
  BY <1>1 DEF FetchDocument
<1>4. PageFits(member[c]) /\ member[c].phase # "open"
  BY DEF Setting, ExactInv, PageInv, FetchDocument, Open
<1>5. PageFits(p)
  <2>1. Quotes(p)
    BY <1>2, <1>4, SettingTypes DEF Setting, ExactInv, MintInv, PageFits, Quotes
  <2>2. Fetched(p) /\ Sent(p) /\ Marked(p) /\ Engine(p)
    BY <1>2, <1>4 DEF PageFits, Fetched, Sent, Marked, Engine
  <2>3. Pairs(p)
    BY <1>2, <1>4, SettingTypes DEF Setting, ExactInv, StoredInv, PageFits, Sent, Marked, Pairs
  <2> QED
    BY <2>1, <2>2, <2>3 DEF PageFits
<1> QED
  BY <1>2, <1>3, <1>5, OnePage DEF FetchDocument

LEMMA WelcomeKeeps ==
    ASSUME Setting, NEW c \in Conns, Welcome(c) PROVE ExactInv'
<1>t. member[c] \in Page
  BY SettingTypes
<1>1. PICK p : p = [member[c] EXCEPT !.phase = "greeted", !.markGen = channel.contentGen,
                                     !.markSeq = channel.contentSeq, !.tail = log]
  OBVIOUS
<1>2. /\ p.phase = "greeted" /\ p.markGen = channel.contentGen
      /\ p.markSeq = channel.contentSeq /\ p.tail = log
      /\ p.fetched = member[c].fetched /\ p.got = member[c].got
      /\ p.held = member[c].held /\ p.inbox = member[c].inbox /\ p.mine = member[c].mine
  BY <1>1, <1>t DEF Page
<1>3. member' = [member EXCEPT ![c] = p]
  BY <1>1 DEF Welcome
<1>4. PageFits(member[c]) /\ member[c].phase = "dialed" /\ unlogged = {}
  BY QuietMeansLogged DEF Setting, ExactInv, PageInv, Welcome
<1>5. PageFits(p)
  <2>0. p.inbox = {} /\ p.mine = {}
    BY <1>2, <1>4 DEF PageFits, Sent
  <2>1. Quotes(p)
    BY <1>2, <1>4, SettingTypes DEF Setting, ExactInv, MintInv, StoredInv, PageFits, Quotes
  <2>2. Fetched(p) /\ Engine(p)
    BY <1>2, <1>4 DEF PageFits, Fetched, Engine
  <2>3. Sent(p)
    BY <1>2, <2>0 DEF Setting, ExactInv, StoredInv, Sent
  <2>4. Marked(p)
    BY <1>2, <1>4, <2>0, SettingTypes DEF Setting, ExactInv, MintInv, StoredInv, Marked
  <2>5. Pairs(p)
    BY <1>2, <1>4, <2>0, SettingTypes DEF Setting, ExactInv, StoredInv, PageFits, Fetched, Pairs
  <2> QED
    BY <2>1, <2>2, <2>3, <2>4, <2>5 DEF PageFits
<1> QED
  BY <1>2, <1>3, <1>4, <1>5, OnePage DEF Welcome

LEMMA AwayFits == ASSUME Setting PROVE PageFits(Away)
<1>1. /\ Away.phase = "out" /\ ~Away.fetched /\ Away.got = 0 /\ Away.markGen = 0
      /\ Away.tail = {} /\ Away.inbox = {} /\ Away.mine = {}
  BY DEF Away
<1>2. Quotes(Away)
  BY <1>1, SettingTypes DEF Setting, ExactInv, MintInv, Quotes
<1> QED
  BY <1>1, <1>2 DEF PageFits, Fetched, Sent, Marked, Pairs, Engine

LEMMA DropKeeps ==
    ASSUME Setting, NEW c \in Conns, Drop(c) PROVE ExactInv'
<1>1. PICK p : p = Away
  OBVIOUS
<1>2. PageFits(p) /\ p.phase = "out"
  BY <1>1, AwayFits DEF Away, PageFits, Quotes, Fetched, Sent, Marked, Pairs, Engine
<1> QED
  BY <1>1, <1>2, OnePage DEF Drop

LEMMA OpenKeeps ==
    ASSUME Setting, Orderly, NEW c \in Conns, OpenDocument(c) PROVE ExactInv'
<1>t. member[c] \in Page
  BY SettingTypes
<1>0. PICK last \in member[c].tail \cup {0} :
        /\ \A s \in member[c].tail : s <= last
        /\ member' = [member EXCEPT ![c] =
              [Away EXCEPT !.phase = "open",
                           !.held = [root |-> member[c].held.root,
                                     frames |-> member[c].held.frames \cup
                                                Feedable(c, member[c].tail)],
                           !.inbox = member[c].inbox,
                           !.seen = last]]
  BY DEF OpenDocument
<1>1. PICK p : p = [Away EXCEPT !.phase = "open",
                           !.held = [root |-> member[c].held.root,
                                     frames |-> member[c].held.frames \cup
                                                Feedable(c, member[c].tail)],
                           !.inbox = member[c].inbox,
                           !.seen = last]
  OBVIOUS
<1>2. /\ p.phase = "open" /\ ~p.fetched /\ p.got = 0 /\ p.markGen = 0
      /\ p.tail = {} /\ p.mine = {} /\ p.inbox = member[c].inbox /\ p.seen = last
      /\ p.held.root = member[c].held.root
      /\ p.held.frames = member[c].held.frames \cup Feedable(c, member[c].tail)
  BY <1>1 DEF Away
<1>3. member' = [member EXCEPT ![c] = p]
  BY <1>0, <1>1
<1>4. /\ PageFits(member[c]) /\ unlogged = {} /\ member[c].phase = "greeted"
      /\ member[c].fetched
  BY QuietMeansLogged DEF Setting, ExactInv, PageInv, OpenDocument, Greeted
<1>5. member[c].markGen # 0 /\ member[c].markGen = member[c].got
  BY <1>4 DEF OpenDocument, Paired, PageFits, Marked
<1>6. p.held.frames = member[c].held.frames
                        \cup {s \in member[c].tail : s > member[c].markSeq}
  BY <1>2, <1>5 DEF Feedable
<1>7. PageFits(p)
  <2>1. Quotes(p)
    BY <1>2, SettingTypes DEF Setting, ExactInv, MintInv, Quotes
  <2>2. Fetched(p) /\ Sent(p) /\ Marked(p) /\ Pairs(p)
    BY <1>2 DEF Fetched, Sent, Marked, Pairs
  <2>3. last <= channel.last /\ \A s \in member[c].inbox : last < s
    <3>1. member[c].tail \subseteq Positions /\ member[c].inbox \subseteq Positions
      BY <1>t, PageFields
    <3>2. \A t \in member[c].tail, i \in member[c].inbox : t < i
      BY <1>4 DEF PageFits, Sent
    <3>3. \A t \in member[c].tail : t <= channel.last
      BY <1>4 DEF PageFits, Sent, Setting, ExactInv, StoredInv
    <3> QED
      BY <3>1, <3>2, <3>3, SettingTypes
  <2>4. Engine(p)
    <3>1. /\ member[c].held.root = doc.root /\ member[c].held.frames \subseteq owed
          /\ \A s \in member[c].tail \cup member[c].inbox :
                member[c].markSeq < s => s \notin member[c].held.frames
          /\ \A s \in owed : \/ s \in member[c].held.frames
                             \/ /\ s \in member[c].tail \cup member[c].inbox
                                /\ member[c].markSeq < s
      BY <1>4, <1>5 DEF PageFits, Pairs
    <3>2. /\ member[c].tail \cup member[c].inbox \subseteq owed
          /\ \A t \in member[c].tail, i \in member[c].inbox : t < i
          /\ \A s \in member[c].inbox : member[c].markSeq < s
      BY <1>4 DEF PageFits, Sent, Marked
    <3>3. p.held.frames \subseteq owed
      BY <1>6, <3>1, <3>2
    <3>4. p.held.frames \cap p.inbox = {}
      <4>1. \A i \in member[c].inbox : i \notin member[c].tail
        BY <3>2, <1>t, SettingTypes, PageFields
      <4> QED
        BY <1>2, <1>6, <3>1, <3>2, <4>1
    <3>5. \A s \in owed : s \in p.held.frames \cup p.inbox
      BY <1>2, <1>6, <3>1, <1>t, SettingTypes, PageFields
    <3> QED
      BY <1>2, <1>4, <2>3, <3>1, <3>2, <3>3, <3>4, <3>5 DEF Engine
  <2> QED
    BY <2>1, <2>2, <2>4 DEF PageFits
<1> QED
  BY <1>3, <1>4, <1>7, OnePage DEF OpenDocument

LEMMA ReceiveKeeps ==
    ASSUME Setting, NEW c \in Conns, Receive(c) PROVE ExactInv'
<1>t. member[c] \in Page
  BY SettingTypes
<1>0. PICK s \in member[c].inbox :
        /\ \A t \in member[c].inbox : s <= t
        /\ member' = [member EXCEPT ![c].inbox = @ \ {s},
                                    ![c].mine = @ \ {s},
                                    ![c].held.frames = @ \cup {s},
                                    ![c].seen = IF @ < s THEN s ELSE @]
  BY DEF Receive
<1>1. PICK p : p = [member[c] EXCEPT !.inbox = @ \ {s},
                                    !.mine = @ \ {s},
                                    !.held.frames = @ \cup {s},
                                    !.seen = IF @ < s THEN s ELSE @]
  OBVIOUS
<1>2. /\ p.phase = member[c].phase /\ p.fetched = member[c].fetched
      /\ p.got = member[c].got /\ p.markGen = member[c].markGen /\ p.tail = member[c].tail
      /\ p.inbox = member[c].inbox \ {s} /\ p.mine = member[c].mine \ {s}
      /\ p.seen = IF member[c].seen < s THEN s ELSE member[c].seen
      /\ p.held.root = member[c].held.root
      /\ p.held.frames = member[c].held.frames \cup {s}
  BY <1>1, <1>t DEF Page, Document
<1>3. member' = [member EXCEPT ![c] = p]
  BY <1>0, <1>1, SettingTypes DEF Page, Document
<1>4. /\ PageFits(member[c]) /\ unlogged = {} /\ member[c].phase = "open"
  BY QuietMeansLogged DEF Setting, ExactInv, PageInv, Receive, Open
<1>5. PageFits(p)
  <2>1. Quotes(p) /\ Fetched(p) /\ Sent(p) /\ Marked(p) /\ Pairs(p)
    BY <1>2, <1>4 DEF PageFits, Quotes, Fetched, Sent, Marked, Pairs
  <2>2. p.seen = s /\ s <= channel.last /\ \A t \in p.inbox : s < t
    <3>1. member[c].inbox \subseteq owed /\ member[c].seen < s
      BY <1>4 DEF PageFits, Engine
    <3>2. s <= channel.last
      BY <3>1 DEF Setting, ExactInv, StoredInv
    <3>3. member[c].inbox \subseteq Positions
      BY <1>t, PageFields
    <3>4. \A t \in p.inbox : s <= t /\ s # t /\ s \in Nat /\ t \in Nat
      BY <1>0, <1>2, <3>3, SettingTypes
    <3>5. \A t \in p.inbox : s < t
      BY <3>4
    <3> QED
      BY <1>2, <3>1, <3>2, <3>5
  <2>3. Engine(p)
    BY <1>2, <1>4, <2>2 DEF PageFits, Engine
  <2> QED
    BY <2>1, <2>3 DEF PageFits
<1> QED
  BY <1>2, <1>3, <1>4, <1>5, OnePage DEF Receive

(* A page that fits goes on to fit as long as neither the stored bytes nor  *)
(* what is owed changes, and the numbers it names stay committed.           *)
LEMMA FitsStay ==
    ASSUME NEW p, PageFits(p), Quotes(p)',
           file'.generation = file.generation,
           channel'.last = channel.last, channel'.contentSeq = channel.contentSeq,
           UNCHANGED <<log, unlogged, doc, owed>>
    PROVE  PageFits(p)'
BY DEF PageFits, Fetched, Sent, Marked, Pairs, Engine

LEMMA FitsAs ==
    ASSUME NEW d, NEW p, p = member'[d], PageFits(p)' PROVE PageFits(member[d])'
BY DEF PageFits, Quotes, Fetched, Sent, Marked, Pairs, Engine, Minter

LEMMA QuotesStay ==
    ASSUME NEW p, Quotes(p), UNCHANGED <<file, req>> PROVE Quotes(p)'
BY DEF Quotes, Minter

(* Numbers and plans need only the file's row and the requests.             *)
LEMMA NumbersStay ==
    ASSUME MintInv, PlanInv, UNCHANGED <<file, req>> PROVE MintInv' /\ PlanInv'
BY DEF MintInv, PlanInv, Minter

LEMMA DialKeeps ==
    ASSUME Setting, Orderly, NEW c \in Conns, Dial(c) PROVE ExactInv'
<1>t. /\ member[c] \in Page /\ DOMAIN member = Conns /\ DOMAIN exports = Conns
      /\ channel \in ChannelRow
  BY SettingTypes DEF Setting, RoomInv, RoomTypeOK
<1>1. /\ UNCHANGED <<file, log, unlogged, req, carried, news, doc, frameRoot, owed>>
      /\ live' = live \cup {c}
      /\ channel' = [channel EXCEPT !.exists = TRUE]
      /\ member' = [member EXCEPT ![c].phase = "dialed"]
      /\ exports' = [exports EXCEPT ![c] = {}]
      /\ member[c].phase = "out"
      /\ \A r \in Requests : req[r].kind # "plain"
  BY DEF Dial, Join, Orderly
<1>2. /\ channel'.exists /\ channel'.last = channel.last
      /\ channel'.contentGen = channel.contentGen
      /\ channel'.contentSeq = channel.contentSeq
  BY <1>1, <1>t DEF ChannelRow
<1>3. MintInv' /\ PlanInv'
  BY <1>1, NumbersStay DEF Setting, ExactInv
<1>4. PlainInv'
  <2>1. \A d \in Conns : member'[d].phase # "out" => d = c \/ member[d].phase # "out"
    BY <1>1, <1>t
  <2> QED
    BY <1>1, <2>1 DEF Setting, ExactInv, PlainInv
<1>5. StoredInv'
  BY <1>1, <1>2 DEF Setting, ExactInv, StoredInv
<1>6. ExportInv' /\ CarriedInv' /\ NewsInv'
  <2>1. \A d \in Conns : exports'[d] = exports[d] \/ exports'[d] = {}
    BY <1>1, <1>t
  <2> QED
    BY <1>1, <1>2, <2>1
    DEF Setting, ExactInv, ExportInv, Captured, CarriedInv, Storable, NewsInv
<1>7. ASSUME NEW d \in Conns PROVE PageFits(member[d])'
  <2>1. PICK p : p = member'[d]
    OBVIOUS
  <2>2. PageFits(member[d])
    BY DEF Setting, ExactInv, PageInv
  <2>3. PageFits(p)
    <3>1. CASE d # c
      BY <1>1, <1>t, <2>1, <2>2, <3>1
    <3>2. CASE d = c
      <4>1. /\ p.phase = "dialed" /\ p.fetched = member[c].fetched /\ p.got = member[c].got
            /\ p.held = member[c].held /\ p.markGen = member[c].markGen
            /\ p.tail = member[c].tail /\ p.inbox = member[c].inbox /\ p.mine = member[c].mine
        BY <1>1, <1>t, <2>1, <3>2 DEF Page
      <4> QED
        BY <1>1, <2>2, <3>2, <4>1
        DEF PageFits, Quotes, Fetched, Sent, Marked, Pairs, Engine
    <3> QED
      BY <3>1, <3>2
  <2>4. Quotes(p)'
    BY <1>1, <2>3, QuotesStay DEF PageFits
  <2>5. PageFits(p)'
    BY <1>1, <1>2, <2>3, <2>4, FitsStay
  <2> QED
    BY <2>1, <2>5, FitsAs
<1> QED
  BY <1>3, <1>4, <1>5, <1>6, <1>7 DEF ExactInv, PageInv

(* A step that leaves the pages, the stored bytes and what is owed alone.   *)
LEMMA RoomRests ==
    ASSUME Setting,
           file'.generation = file.generation, channel' = channel,
           UNCHANGED <<log, unlogged, member, news, doc, frameRoot, owed>>,
           \A d \in Conns : Quotes(member[d])'
    PROVE  StoredInv' /\ NewsInv' /\ PageInv'
<1>1. StoredInv' /\ NewsInv'
  BY DEF Setting, ExactInv, StoredInv, NewsInv
<1>2. ASSUME NEW d \in Conns PROVE PageFits(member[d])'
  <2>1. PICK p : p = member'[d]
    OBVIOUS
  <2>2. PageFits(p)
    BY <2>1 DEF Setting, ExactInv, PageInv
  <2>3. Quotes(p)'
    BY <2>1 DEF Quotes, Minter
  <2>4. PageFits(p)'
    BY <2>2, <2>3, FitsStay
  <2> QED
    BY <2>1, <2>4, FitsAs
<1> QED
  BY <1>1, <1>2 DEF PageInv

LEMMA PagesQuote ==
    ASSUME Setting, UNCHANGED <<file, req, member>>
    PROVE  \A d \in Conns : Quotes(member[d])'
<1>1. ASSUME NEW d \in Conns PROVE Quotes(member[d])'
  BY DEF Setting, ExactInv, PageInv, PageFits, Quotes, Minter
<1> QED
  BY <1>1

LEMMA CloseKeeps ==
    ASSUME Setting, NEW c \in Conns, Close(c) PROVE ExactInv'
<1>1. /\ UNCHANGED <<file, channel, log, unlogged, req, member, exports, carried, news,
                     doc, frameRoot, owed>>
      /\ live' = live \ {c} /\ member[c].phase = "out"
  BY DEF Close, Leave, roomVars
<1>2. MintInv' /\ PlanInv' /\ PlainInv'
  BY <1>1, NumbersStay DEF Setting, ExactInv, PlainInv
<1>3. ExportInv' /\ CarriedInv'
  BY <1>1 DEF Setting, ExactInv, ExportInv, Captured, CarriedInv, Storable
<1>4. StoredInv' /\ NewsInv' /\ PageInv'
  BY <1>1, RoomRests, PagesQuote
<1> QED
  BY <1>2, <1>3, <1>4 DEF ExactInv

LEMMA CaptureKeeps ==
    ASSUME Setting, NEW c \in Conns, Capture(c) PROVE ExactInv'
<1>t. member[c] \in Page /\ DOMAIN exports = Conns
  BY SettingTypes DEF Setting, RoomInv, RoomTypeOK
<1>1. /\ UNCHANGED <<vars, member, carried, news, doc, frameRoot, owed>>
      /\ UNCHANGED <<file, channel, log, unlogged, req, live>>
      /\ exports' = [exports EXCEPT ![c] =
                       {[held |-> member[c].held, upTo |-> member[c].seen]}]
      /\ member[c].mine = {} /\ member[c].phase = "open" /\ unlogged = {}
  BY QuietMeansLogged DEF Capture, vars, chanVars, Open
<1>2. MintInv' /\ PlanInv' /\ PlainInv'
  <2>1. c \in live
    BY <1>1 DEF Setting, ExactInv, PlainInv
  <2> QED
    BY <1>1, <2>1, NumbersStay DEF Setting, ExactInv, PlainInv
<1>3. ExportInv'
  <2>1. Engine(member[c])
    BY DEF Setting, ExactInv, PageInv, PageFits
  <2>2. PICK save : save = [held |-> member[c].held, upTo |-> member[c].seen]
    OBVIOUS
  <2>3. save.held = member[c].held /\ save.upTo = member[c].seen
    BY <2>2
  <2>4. Captured(save)
    <3>1. \A s \in member[c].inbox : ~(s <= member[c].seen)
      BY <1>1, <1>t, <2>1, PageFields, SettingTypes DEF Engine
    <3> QED
      BY <1>1, <2>1, <2>3, <3>1 DEF Engine, Captured
  <2>5. ASSUME NEW d \in Conns, NEW q \in exports'[d] PROVE Captured(q)'
    <3>1. q = save \/ q \in exports[d]
      BY <1>1, <1>t, <2>2
    <3>2. Captured(q)
      BY <2>4, <3>1 DEF Setting, ExactInv, ExportInv
    <3> QED
      BY <1>1, <3>2 DEF Captured
  <2> QED
    BY <2>5 DEF ExportInv
<1>4. CarriedInv'
  BY <1>1 DEF Setting, ExactInv, CarriedInv, Storable
<1>5. StoredInv' /\ NewsInv' /\ PageInv'
  BY <1>1, RoomRests, PagesQuote
<1> QED
  BY <1>2, <1>3, <1>4, <1>5 DEF ExactInv

LEMMA PostKeeps ==
    ASSUME Setting, NEW c \in Conns, Post(c) PROVE ExactInv'
<1>t. /\ member[c] \in Page /\ DOMAIN member = Conns /\ channel \in ChannelRow
      /\ DOMAIN frameRoot = Positions
  BY SettingTypes DEF Setting, RoomInv, RoomTypeOK
<1>0. PICK s : s = channel.last + 1
  OBVIOUS
<1>1. /\ UNCHANGED <<file, log, live, req, exports, carried, news, doc, owed>>
      /\ channel' = [channel EXCEPT !.last = @ + 1]
      /\ unlogged' = {s} /\ unlogged = {}
      /\ member' = [member EXCEPT ![c].mine = @ \cup {s}, ![c].held.frames = @ \cup {s}]
      /\ frameRoot' = [frameRoot EXCEPT ![s] = member[c].held.root]
      /\ member[c].phase = "open" /\ channel.last < MaxPosts
  BY <1>0, QuietMeansLogged DEF Post, NextChannelSeq, Open
<1>2. /\ channel'.exists = channel.exists /\ channel'.last = s
      /\ channel'.contentGen = channel.contentGen
      /\ channel'.contentSeq = channel.contentSeq
  BY <1>0, <1>1, <1>t DEF ChannelRow
<1>3. /\ s \in Positions /\ s \notin owed /\ channel.contentSeq < s /\ s \notin log
      /\ \A t \in owed : t < s
  BY <1>0, <1>1, SettingTypes DEF Setting, ExactInv, StoredInv, Positions
<1>4. MintInv' /\ PlanInv'
  BY <1>1, NumbersStay DEF Setting, ExactInv
<1>5. PlainInv'
  <2>1. \A d \in Conns : member'[d].phase = member[d].phase
    BY <1>1, <1>t DEF Page
  <2> QED
    BY <1>1, <2>1 DEF Setting, ExactInv, PlainInv
<1>6. StoredInv'
  <2>1. member[c].held.root = doc.root
    BY <1>1 DEF Setting, ExactInv, PageInv, PageFits, Engine
  <2>2. \A t \in log \cup {s} : frameRoot'[t] = doc.root
    BY <1>1, <1>3, <1>t, <2>1, SettingTypes DEF Setting, ExactInv, StoredInv
  <2>3. channel.contentSeq <= s /\ \A t \in owed : t <= s
    BY <1>3, SettingTypes
  <2> QED
    BY <1>1, <1>2, <1>3, <2>2, <2>3 DEF Setting, ExactInv, StoredInv
<1>7. ExportInv' /\ CarriedInv' /\ NewsInv'
  <2>1. ASSUME NEW d \in Conns, NEW q \in exports[d] PROVE Captured(q)'
    <3>1. Captured(q) /\ q.upTo \in 0..MaxPosts
      BY DEF Setting, ExactInv, ExportInv, RoomInv, RoomTypeOK
    <3>2. q.upTo < s
      BY <1>0, <3>1, SettingTypes DEF Captured
    <3> QED
      BY <1>1, <1>2, <3>1, <3>2, SettingTypes DEF Captured
  <2>2. ASSUME NEW r \in Requests, NEW body \in carried[r],
               req[r].kind \in {"content", "checkpoint"}, req[r].base = file.generation
        PROVE  Storable(body.held, req[r].upTo)'
    <3>1. PICK u, h : u = req[r].upTo /\ h = body.held
      OBVIOUS
    <3>2. Storable(h, u) /\ u \in Nat
      BY <2>2, <3>1, SettingTypes DEF Setting, ExactInv, CarriedInv, Request
    <3>3. u < s
      BY <1>0, <3>2, SettingTypes DEF Storable
    <3>4. Storable(h, u)'
      BY <1>1, <1>2, <3>2, <3>3, SettingTypes DEF Storable
    <3>5. u = req'[r].upTo
      BY <1>1, <3>1
    <3> QED
      BY <3>1, <3>4, <3>5 DEF Storable
  <2>3. NewsInv'
    BY <1>1, <1>2 DEF Setting, ExactInv, NewsInv
  <2> QED
    BY <1>1, <2>1, <2>2, <2>3 DEF ExportInv, CarriedInv
<1>8. ASSUME NEW d \in Conns PROVE PageFits(member[d])'
  <2>1. PICK p, q : p = member[d] /\ q = member'[d]
    OBVIOUS
  <2>2. PageFits(p) /\ p \in Page
    BY <2>1, SettingTypes DEF Setting, ExactInv, PageInv
  <2>3. /\ q.phase = p.phase /\ q.fetched = p.fetched /\ q.got = p.got
        /\ q.markGen = p.markGen /\ q.markSeq = p.markSeq /\ q.tail = p.tail
        /\ q.inbox = p.inbox /\ q.seen = p.seen /\ q.held.root = p.held.root
        /\ d # c => q = p
        /\ d = c => p.phase = "open" /\ q.mine = p.mine \cup {s} /\ q.held.frames = p.held.frames \cup {s}
    BY <1>1, <1>t, <2>1 DEF Page, Document
  <2>4. Quotes(q)'
    BY <1>1, <2>2, <2>3 DEF PageFits, Quotes, Minter
  <2>5. Fetched(q)' /\ Sent(q)'
    BY <1>1, <2>2, <2>3 DEF PageFits, Fetched, Sent
  <2>6. p.markSeq \in Nat /\ p.seen \in Nat /\ p.inbox \subseteq Positions
    BY <2>2, PageFields, SettingTypes
  <2>7. Marked(q)'
    <3>1. p.phase = "greeted" => p.markSeq <= channel.last
      BY <2>2 DEF PageFits, Marked
    <3> QED
      BY <1>0, <1>1, <1>2, <2>2, <2>3, <2>6, <3>1, SettingTypes DEF PageFits, Marked
  <2>8. Pairs(q)'
    BY <1>1, <2>2, <2>3 DEF PageFits, Pairs
  <2>9. Engine(q)'
    <3>1. p.phase = "open" => p.seen <= channel.last /\ p.held.frames \subseteq owed
      BY <1>1, <2>2 DEF PageFits, Engine
    <3>2. p.phase = "open" => p.seen < s /\ p.seen <= s
      BY <1>0, <2>6, <3>1, SettingTypes
    <3>3. p.phase = "open" => p.inbox \subseteq owed /\ s \notin p.inbox
      BY <1>3, <2>2 DEF PageFits, Engine
    <3> QED
      BY <1>1, <1>2, <1>3, <2>2, <2>3, <3>1, <3>2, <3>3 DEF PageFits, Engine
  <2>10. PageFits(q)'
    BY <2>4, <2>5, <2>7, <2>8, <2>9 DEF PageFits
  <2> QED
    BY <2>1, <2>10, FitsAs
<1> QED
  BY <1>4, <1>5, <1>6, <1>7, <1>8 DEF ExactInv, PageInv

-----------------------------------------------------------------------------
(* Requests. *)

(* A request that goes on keeps its numbers and its plan, one that begins   *)
(* reads the row's generation, and one that ends forgets them.              *)
LEMMA NumbersMove ==
    ASSUME Setting, NEW r \in Requests, NEW q,
           req' = [req EXCEPT ![r] = q], file' = file,
           q.base \in {req[r].base, file.generation, 0},
           q.pc \in {"streaming", "stored", "refused"} => Minter(r) /\ q.gen = req[r].gen,
           q.pc \in {"streaming", "stored"} =>
              /\ req[r].pc \in {"streaming", "stored"}
              /\ q.kind = req[r].kind /\ q.plan = req[r].plan
    PROVE  MintInv' /\ PlanInv' /\ \A p : Quotes(p) => Quotes(p)'
<1>1. /\ req'[r] = q
      /\ \A other \in Requests \ {r} : req'[other] = req[other]
  BY SettingTypes
<1>2. \A other \in Requests :
        /\ req'[other].base \in {req[other].base, file.generation, 0}
        /\ Minter(other)' => Minter(other) /\ req'[other].gen = req[other].gen
  BY <1>1 DEF Minter
<1>3. MintInv /\ PlanInv
  BY DEF Setting, ExactInv
<1>4. MintInv'
  <2>1. ASSUME NEW o \in Requests PROVE req'[o].base <= file.minted
    BY <1>2, <1>3, SettingTypes DEF MintInv
  <2>2. ASSUME NEW o \in Requests, Minter(o)'
        PROVE  /\ req'[o].gen \in 1..file.minted /\ req'[o].gen # file.generation
               /\ \A other \in Requests :
                    /\ req'[other].base # req'[o].gen
                    /\ Minter(other)' /\ other # o => req'[other].gen # req'[o].gen
    <3>1. Minter(o) /\ req'[o].gen = req[o].gen
      BY <1>2, <2>2
    <3>2. req'[o].gen # 0
      BY <1>3, <3>1, SettingTypes DEF MintInv
    <3> QED
      BY <1>2, <1>3, <3>1, <3>2 DEF MintInv
  <2> QED
    BY <1>3, <2>1, <2>2 DEF MintInv
<1>5. PlanInv'
  BY <1>1, <1>3 DEF PlanInv
<1>6. ASSUME NEW p, Quotes(p) PROVE Quotes(p)'
  BY <1>2, <1>6 DEF Quotes
<1> QED
  BY <1>4, <1>5, <1>6

(* What pages' saves carry matters no more, or as before.                   *)
LEMMA CarriedStay ==
    ASSUME Setting, NEW r \in Requests, NEW q, req' = [req EXCEPT ![r] = q],
           file'.generation = file.generation,
           channel' = channel, UNCHANGED <<log, unlogged, doc, owed>>,
           \/ carried' = [carried EXCEPT ![r] = {}]
           \/ carried' = carried /\ q.kind \notin {"content", "checkpoint"}
           \/ /\ carried' = carried
              /\ q.kind = req[r].kind /\ q.base = req[r].base /\ q.upTo = req[r].upTo
    PROVE  CarriedInv'
<1>t. DOMAIN req = Requests /\ DOMAIN carried = Requests
  BY SettingTypes DEF Setting, RoomInv, RoomTypeOK
<1>1. SUFFICES ASSUME NEW o \in Requests, NEW body \in carried'[o],
                      req'[o].kind \in {"content", "checkpoint"},
                      req'[o].base = file.generation
               PROVE  Storable(body.held, req[o].upTo)' 
  BY DEF CarriedInv
<1>2. /\ body \in carried[o] /\ req'[o].kind = req[o].kind
      /\ req'[o].base = req[o].base /\ req'[o].upTo = req[o].upTo
  BY <1>1, <1>t
<1>3. PICK h, u : h = body.held /\ u = req[o].upTo
  OBVIOUS
<1>4. Storable(h, u)
  BY <1>1, <1>2, <1>3 DEF Setting, ExactInv, CarriedInv
<1>5. Storable(h, u)'
  BY <1>4 DEF Storable
<1> QED
  BY <1>2, <1>3, <1>5 DEF Storable

(* One step of a request that touches no row: the room's part is at rest.   *)
LEMMA RequestKeeps ==
    ASSUME Setting, NEW r \in Requests, NEW q, req' = [req EXCEPT ![r] = q],
           UNCHANGED <<file, channel, log, unlogged, live>>,
           UNCHANGED <<member, exports, news, doc, frameRoot, owed>>,
           q.base \in {req[r].base, 0},
           q.kind \in {req[r].kind, "none"},
           q.pc \in {"streaming", "stored", "refused"} => Minter(r) /\ q.gen = req[r].gen,
           q.pc \in {"streaming", "stored"} =>
              /\ req[r].pc \in {"streaming", "stored"}
              /\ q.kind = req[r].kind /\ q.plan = req[r].plan,
           \/ carried' = [carried EXCEPT ![r] = {}]
           \/ carried' = carried /\ q.kind \notin {"content", "checkpoint"}
           \/ /\ carried' = carried
              /\ q.kind = req[r].kind /\ q.base = req[r].base /\ q.upTo = req[r].upTo
    PROVE  ExactInv'
<1>1. MintInv' /\ PlanInv' /\ \A p : Quotes(p) => Quotes(p)'
  BY NumbersMove
<1>2. PlainInv'
  BY SettingTypes DEF Setting, ExactInv, PlainInv
<1>3. ExportInv'
  BY DEF Setting, ExactInv, ExportInv, Captured
<1>4. CarriedInv'
  BY CarriedStay
<1>5. \A d \in Conns : Quotes(member[d])'
  <2>1. ASSUME NEW d \in Conns PROVE Quotes(member[d])'
    <3>1. PICK p : p = member[d]
      OBVIOUS
    <3>2. Quotes(p)
      BY <3>1 DEF Setting, ExactInv, PageInv, PageFits
    <3>3. Quotes(p)'
      BY <1>1, <3>2
    <3> QED
      BY <3>1, <3>3 DEF Quotes, Minter
  <2> QED
    BY <2>1
<1>6. StoredInv' /\ NewsInv' /\ PageInv'
  BY <1>5, RoomRests
<1> QED
  BY <1>1, <1>2, <1>3, <1>4, <1>6 DEF ExactInv

LEMMA StoreBytesKeeps ==
    ASSUME Setting, NEW r \in Requests, StoreBytes(r) PROVE ExactInv'
<1>1. PICK q : q = [req[r] EXCEPT !.pc = "stored"]
  OBVIOUS
<1>2. /\ q.pc = "stored" /\ q.base = req[r].base /\ q.kind = req[r].kind
      /\ q.gen = req[r].gen /\ q.plan = req[r].plan /\ q.upTo = req[r].upTo
      /\ req[r].pc = "streaming"
  BY <1>1, SettingTypes DEF Request, StoreBytes, PutBytes
<1>3. /\ req' = [req EXCEPT ![r] = q]
      /\ UNCHANGED <<file, channel, log, unlogged, live>>
      /\ UNCHANGED <<member, exports, news, doc, frameRoot, owed>>
      /\ carried' = carried
  BY <1>1 DEF StoreBytes, PutBytes, chanVars, roomVars
<1> QED
  BY <1>2, <1>3, RequestKeeps DEF Minter

LEMMA RefuseKeeps ==
    ASSUME Setting, NEW r \in Requests, RefuseCommit(r), UNCHANGED roomVars
    PROVE  ExactInv'
<1>1. PICK q : q = [req[r] EXCEPT !.pc = "refused"]
  OBVIOUS
<1>2. /\ q.pc = "refused" /\ q.base = req[r].base /\ q.kind = req[r].kind
      /\ q.gen = req[r].gen /\ q.upTo = req[r].upTo /\ req[r].pc = "stored"
  BY <1>1, SettingTypes DEF Request, RefuseCommit
<1>3. /\ req' = [req EXCEPT ![r] = q]
      /\ UNCHANGED <<file, channel, log, unlogged, live>>
      /\ UNCHANGED <<member, exports, news, doc, frameRoot, owed>>
      /\ carried' = carried
  BY <1>1 DEF RefuseCommit, chanVars, roomVars
<1> QED
  BY <1>2, <1>3, RequestKeeps DEF Minter

LEMMA EndKeeps ==
    ASSUME Setting, NEW r \in Requests, DropRefused(r) \/ Abandon(r) PROVE ExactInv'
<1>1. PICK q : q = Idle
  OBVIOUS
<1>2. q.pc = "idle" /\ q.base = 0 /\ q.kind = "none"
  BY <1>1 DEF Idle
<1>3. /\ req' = [req EXCEPT ![r] = q]
      /\ UNCHANGED <<file, channel, log, unlogged, live>>
      /\ UNCHANGED <<member, exports, news, doc, frameRoot, owed>>
      /\ carried' = [carried EXCEPT ![r] = {}]
  BY <1>1 DEF DropRefused, Abandon, RemoveOwnBlob, Crash, Finish, chanVars
<1> QED
  BY <1>2, <1>3, RequestKeeps

LEMMA PlanKeeps ==
    ASSUME Setting, NEW r \in Requests, Plan(r) PROVE ExactInv'
<1>0. PICK n \in 1..MaxMint :
        /\ IsNextGeneration(n)
        /\ file' = [file EXCEPT !.minted = n]
        /\ req' = [req EXCEPT ![r].pc = "streaming", ![r].gen = n,
                              ![r].plan = ChannelPlan(req[r].kind, AloneInRoom(r))]
  BY DEF Plan, PlanSave
<1>t. /\ DOMAIN req = Requests /\ \A o \in Requests : req[o] \in Request
      /\ file \in FileRow /\ n \in Nat
  BY SettingTypes, <1>0 DEF Setting, TypeOK
<1>1. /\ UNCHANGED <<channel, log, unlogged, live>>
      /\ UNCHANGED <<member, exports, carried, news, doc, frameRoot, owed>>
      /\ req[r].pc = "read"
  BY DEF Plan, PlanSave, chanVars, roomVars
<1>2. /\ req'[r].pc = "streaming" /\ req'[r].gen = n
      /\ req'[r].plan = ChannelPlan(req[r].kind, AloneInRoom(r))
      /\ req'[r].kind = req[r].kind /\ req'[r].base = req[r].base
      /\ req'[r].upTo = req[r].upTo
      /\ \A o \in Requests \ {r} : req'[o] = req[o]
  BY <1>0, <1>t DEF Request
<1>3. file'.minted = n /\ file'.generation = file.generation
  BY <1>0, <1>t DEF FileRow
<1>4. file.minted < n
  BY <1>0 DEF IsNextGeneration
<1>5. /\ ~Minter(r) /\ \A o \in Requests : Minter(o)' <=> (o = r \/ Minter(o))
  BY <1>1, <1>2 DEF Minter
<1>6. MintInv'
  <2>1. MintInv
    BY DEF Setting, ExactInv
  <2>2. file'.generation \in 1..file'.minted
    BY <1>3, <1>4, <1>t, <2>1, SettingTypes DEF MintInv
  <2>3. ASSUME NEW o \in Requests PROVE req'[o].base <= file'.minted /\ req'[o].base # n
    <3>1. req'[o].base = req[o].base /\ req[o].base <= file.minted /\ req[o].base \in Nat
      BY <1>2, <1>t, <2>1 DEF MintInv, Request
    <3> QED
      BY <1>3, <1>4, <1>t, <3>1, SettingTypes
  <2>4. ASSUME NEW o \in Requests, Minter(o)
        PROVE  req'[o].gen = req[o].gen /\ req[o].gen \in 1..file.minted /\ req[o].gen # n
    <3>1. o # r
      BY <1>5, <2>4
    <3> QED
      BY <1>2, <1>4, <1>t, <2>1, <2>4, <3>1, SettingTypes DEF MintInv
  <2>5. ASSUME NEW o \in Requests, Minter(o)'
        PROVE  /\ req'[o].gen \in 1..n /\ req'[o].gen # file.generation
               /\ \A other \in Requests :
                    /\ req'[other].base # req'[o].gen
                    /\ Minter(other)' /\ other # o => req'[other].gen # req'[o].gen
    <3>1. CASE o = r
      <4>1. n # file.generation /\ n \in 1..n
        BY <1>4, <1>t, <2>1, SettingTypes DEF MintInv
      <4> QED
        BY <1>2, <1>5, <2>3, <2>4, <3>1, <4>1
    <3>2. CASE o # r
      <4>1. Minter(o) /\ req'[o].gen \in 1..n /\ req'[o].gen # file.generation
        BY <1>4, <1>5, <1>t, <2>1, <2>4, <2>5, <3>2, SettingTypes DEF MintInv
      <4>2. ASSUME NEW other \in Requests
            PROVE  /\ req'[other].base # req'[o].gen
                   /\ Minter(other)' /\ other # o => req'[other].gen # req'[o].gen
        BY <1>2, <1>5, <2>1, <2>4, <4>1 DEF MintInv
      <4> QED
        BY <4>1, <4>2
    <3> QED
      BY <3>1, <3>2
  <2> QED
    BY <1>3, <2>2, <2>3, <2>5 DEF MintInv
<1>7. PlanInv' /\ PlainInv'
  <2>1. req[r].kind = "plain" => live = {}
    BY DEF Setting, ExactInv, PlainInv
  <2>2. /\ req[r].kind = "plain" => req'[r].plan = "purge"
        /\ req[r].kind \in {"content", "checkpoint"}
              => req'[r].plan \in {"content", "checkpoint"}
    BY <1>2, <2>1 DEF ChannelPlan
  <2>3. \A o \in Requests : req'[o].kind = req[o].kind
    BY <1>2
  <2> QED
    BY <1>1, <1>2, <2>2, <2>3 DEF Setting, ExactInv, PlanInv, PlainInv
<1>8. ExportInv'
  BY <1>1 DEF Setting, ExactInv, ExportInv, Captured
<1>9. CarriedInv'
  <2>1. PICK q : q = req'[r]
    OBVIOUS
  <2>2. req' = [req EXCEPT ![r] = q]
    BY <1>0, <2>1, <1>t
  <2> QED
    BY <1>1, <1>2, <1>3, <2>1, <2>2, CarriedStay
<1>10. \A d \in Conns : Quotes(member[d])'
  <2>1. ASSUME NEW d \in Conns PROVE Quotes(member[d])'
    <3>1. member[d].got \in Nat /\ member[d].markGen \in Nat
      BY SettingTypes, PageFields
    <3>2. Quotes(member[d])
      BY DEF Setting, ExactInv, PageInv, PageFits
    <3>3. /\ member[d].got <= file.minted /\ member[d].markGen <= file.minted
          /\ member[d].got <= n /\ member[d].markGen <= n
          /\ member[d].got # n /\ member[d].markGen # n
      BY <1>4, <1>t, <3>1, <3>2, SettingTypes DEF Quotes
    <3>4. \A o \in Requests : Minter(o)' =>
              member[d].got # req'[o].gen /\ member[d].markGen # req'[o].gen
      BY <1>2, <1>5, <3>2, <3>3 DEF Quotes
    <3> QED
      BY <1>1, <1>3, <3>3, <3>4 DEF Quotes
  <2> QED
    BY <2>1
<1>11. StoredInv' /\ NewsInv' /\ PageInv'
  BY <1>1, <1>3, <1>10, RoomRests
<1> QED
  BY <1>6, <1>7, <1>8, <1>9, <1>11 DEF ExactInv

LEMMA SendPlainKeeps ==
    ASSUME Setting, Orderly, NEW r \in Requests, SendPlainSave(r) PROVE ExactInv'
<1>1. PICK q : q = [Idle EXCEPT !.pc = "read", !.kind = "plain", !.upTo = 0,
                               !.base = file.generation, !.baseUp = file.uploaded]
  OBVIOUS
<1>2. q.pc = "read" /\ q.kind = "plain" /\ q.base = file.generation
  BY <1>1 DEF Idle
<1>3. /\ req' = [req EXCEPT ![r] = q]
      /\ UNCHANGED <<file, channel, log, unlogged, live>>
      /\ UNCHANGED <<member, exports, carried, news, doc, frameRoot, owed>>
      /\ live = {} /\ \A c \in Conns : exports[c] = {}
  BY <1>1 DEF SendPlainSave, StartSave, chanVars, roomVars, Orderly
<1>4. MintInv' /\ PlanInv' /\ \A p : Quotes(p) => Quotes(p)'
  BY <1>2, <1>3, NumbersMove
<1>5. PlainInv'
  BY <1>3 DEF Setting, ExactInv, PlainInv
<1>6. ExportInv'
  BY <1>3 DEF Setting, ExactInv, ExportInv, Captured
<1>7. CarriedInv'
  BY <1>2, <1>3, CarriedStay
<1>8. \A d \in Conns : Quotes(member[d])'
  <2>1. ASSUME NEW d \in Conns PROVE Quotes(member[d])'
    <3>1. PICK p : p = member[d]
      OBVIOUS
    <3>2. Quotes(p)'
      BY <1>4, <3>1 DEF Setting, ExactInv, PageInv, PageFits
    <3> QED
      BY <1>3, <3>1, <3>2 DEF Quotes, Minter
  <2> QED
    BY <2>1
<1>9. StoredInv' /\ NewsInv' /\ PageInv'
  BY <1>3, <1>8, RoomRests
<1> QED
  BY <1>4, <1>5, <1>6, <1>7, <1>9 DEF ExactInv

LEMMA SendSaveKeeps ==
    ASSUME Setting, Orderly, NEW c \in Conns, NEW r \in Requests, NEW kind \in SaveKinds,
           SendSave(c, r, kind), SendsExactly(c)
    PROVE  ExactInv'
<1>t. DOMAIN req = Requests /\ DOMAIN carried = Requests /\ DOMAIN exports = Conns
  BY SettingTypes DEF Setting, RoomInv, RoomTypeOK
<1>0. PICK save \in exports[c] :
        /\ kind # "plain"
        /\ StartSave(r, kind, save.upTo)
        /\ exports' = [exports EXCEPT ![c] = {}]
        /\ carried' = [carried EXCEPT ![r] = {[by |-> c, held |-> save.held]}]
        /\ UNCHANGED <<member, news, doc, frameRoot, owed>>
  BY DEF SendSave
<1>1. PICK q : q = [Idle EXCEPT !.pc = "read", !.kind = kind, !.upTo = save.upTo,
                               !.base = file.generation, !.baseUp = file.uploaded]
  OBVIOUS
<1>2. /\ q.pc = "read" /\ q.kind = kind /\ q.base = file.generation
      /\ q.upTo = save.upTo
  BY <1>1 DEF Idle
<1>3. /\ req' = [req EXCEPT ![r] = q]
      /\ UNCHANGED <<file, channel, log, unlogged, live>>
  BY <1>0, <1>1 DEF StartSave, chanVars
<1>4. MintInv' /\ PlanInv' /\ \A p : Quotes(p) => Quotes(p)'
  BY <1>2, <1>3, NumbersMove
<1>5. PlainInv'
  <2>1. \A d \in Conns : exports'[d] = {} \/ exports'[d] = exports[d]
    BY <1>0, <1>t
  <2>2. \A o \in Requests : req'[o].kind = "plain" => req[o].kind = "plain"
    BY <1>0, <1>2, <1>3, <1>t
  <2> QED
    BY <1>0, <1>3, <2>1, <2>2 DEF Setting, ExactInv, PlainInv
<1>6. ExportInv'
  <2>1. \A d \in Conns : exports'[d] = {} \/ exports'[d] = exports[d]
    BY <1>0, <1>t
  <2> QED
    BY <1>0, <1>3, <2>1 DEF Setting, ExactInv, ExportInv, Captured
<1>7. CarriedInv'
  <2>1. SUFFICES ASSUME NEW o \in Requests, NEW body \in carried'[o],
                        req'[o].kind \in {"content", "checkpoint"},
                        req'[o].base = file.generation
                 PROVE  Storable(body.held, req[o].upTo)' 
    BY <1>3 DEF CarriedInv
  <2>2. PICK h, u : h = body.held /\ u = req'[o].upTo
    OBVIOUS
  <2>3. Storable(h, u)
    <3>1. CASE o = r
      <4>1. h = save.held /\ u = save.upTo
        BY <1>0, <1>2, <1>3, <1>t, <2>1, <2>2, <3>1
      <4>2. /\ Captured(save) /\ owed \ log \subseteq save.held.frames
            /\ \A s \in save.held.frames : s <= save.upTo
        BY <1>0 DEF Setting, ExactInv, ExportInv, SendsExactly, Orderly
      <4>3. save.upTo \in Nat
        BY SettingTypes DEF Setting, RoomInv, RoomTypeOK
      <4>4. \A s \in owed : s \in save.held.frames \/ (s \in log /\ save.upTo < s)
        <5>1. \A s \in owed : s \in Nat /\ (s \in log \/ s \in save.held.frames)
          BY <4>2, SettingTypes
        <5>2. \A s \in owed : s <= save.upTo => s \in save.held.frames
          BY <4>2 DEF Captured
        <5> QED
          BY <4>3, <5>1, <5>2
      <4> QED
        BY <4>1, <4>2, <4>4 DEF Captured, Storable
    <3>2. CASE o # r
      BY <1>0, <1>3, <1>t, <2>1, <2>2, <3>2 DEF Setting, ExactInv, CarriedInv
    <3> QED
      BY <3>1, <3>2
  <2>4. Storable(h, u)'
    BY <1>0, <1>3, <2>3 DEF Storable
  <2> QED
    BY <2>2, <2>4 DEF Storable
<1>8. \A d \in Conns : Quotes(member[d])'
  <2>1. ASSUME NEW d \in Conns PROVE Quotes(member[d])'
    <3>1. PICK p : p = member[d]
      OBVIOUS
    <3>2. Quotes(p)'
      BY <1>4, <3>1 DEF Setting, ExactInv, PageInv, PageFits
    <3> QED
      BY <1>0, <3>1, <3>2 DEF Quotes, Minter
  <2> QED
    BY <2>1
<1>9. StoredInv' /\ NewsInv' /\ PageInv'
  BY <1>0, <1>3, <1>8, RoomRests
<1> QED
  BY <1>4, <1>5, <1>6, <1>7, <1>9 DEF ExactInv

(* The frame's row is in: everybody in the room is sent it, and it is owed. *)
LEMMA LoggedKeeps ==
    ASSUME Setting, NEW s \in unlogged, Logged(s) PROVE ExactInv'
<1>1. /\ UNCHANGED <<file, channel, live, req, exports, carried, news, doc, frameRoot>>
      /\ unlogged' = unlogged \ {s} /\ log' = log \cup {s} /\ owed' = owed \cup {s}
      /\ member' = [c \in Conns |->
            IF Greeted(c) \/ Open(c)
            THEN [member[c] EXCEPT !.inbox = @ \cup {s}]
            ELSE member[c]]
  BY DEF Logged, InsertMessage
<1>2. /\ s = channel.last /\ s \notin owed /\ channel.contentSeq < s /\ unlogged' = {}
      /\ \A t \in owed : t <= s /\ t # s
  BY <1>1 DEF Setting, ExactInv, StoredInv
<1>3. MintInv' /\ PlanInv'
  BY <1>1, NumbersStay DEF Setting, ExactInv
<1>4. PlainInv'
  <2>1. \A d \in Conns : member'[d].phase = member[d].phase
    BY <1>1, SettingTypes DEF Page
  <2> QED
    BY <1>1, <2>1 DEF Setting, ExactInv, PlainInv
<1>5. StoredInv'
  <2>1. StoredInv
    BY DEF Setting, ExactInv
  <2>2. \A t \in owed \cup {s} : t <= channel.last
    BY <1>2, <2>1, SettingTypes DEF StoredInv
  <2>3. \A t \in owed \cup {s} : t \in doc.frames \/ (t \in log' /\ channel.contentSeq < t)
    BY <1>1, <1>2, <2>1 DEF StoredInv
  <2>4. \A t \in log' \cup unlogged' : frameRoot[t] = doc.root
    BY <1>1, <1>2, <2>1 DEF StoredInv
  <2> QED
    BY <1>1, <1>2, <2>1, <2>2, <2>3, <2>4 DEF StoredInv
<1>6. ExportInv' /\ CarriedInv' /\ NewsInv'
  <2>1. ASSUME NEW d \in Conns, NEW q \in exports[d] PROVE Captured(q)'
    <3>1. Captured(q) /\ q.upTo \in 0..MaxPosts
      BY DEF Setting, ExactInv, ExportInv, RoomInv, RoomTypeOK
    <3>2. ~(s <= q.upTo)
      BY <3>1, SettingTypes DEF Captured
    <3> QED
      BY <1>1, <1>2, <3>1, <3>2 DEF Captured
  <2>2. ASSUME NEW h, NEW u, Storable(h, u) PROVE Storable(h, u)'
    BY <1>1, <1>2, <2>2 DEF Storable
  <2>3. ASSUME NEW r \in Requests, NEW body \in carried[r],
               req[r].kind \in {"content", "checkpoint"}, req[r].base = file.generation
        PROVE  Storable(body.held, req[r].upTo)'
    <3>1. PICK u, h : u = req[r].upTo /\ h = body.held
      OBVIOUS
    <3>2. Storable(h, u)'
      BY <2>2, <2>3, <3>1 DEF Setting, ExactInv, CarriedInv
    <3>3. u = req'[r].upTo
      BY <1>1, <3>1
    <3> QED
      BY <3>1, <3>2, <3>3 DEF Storable
  <2>4. NewsInv'
    BY <1>1 DEF Setting, ExactInv, NewsInv
  <2> QED
    BY <1>1, <2>1, <2>3, <2>4 DEF ExportInv, CarriedInv
<1>7. ASSUME NEW d \in Conns PROVE PageFits(member[d])'
  <2>1. PICK p, q : p = member[d] /\ q = member'[d]
    OBVIOUS
  <2>2. PageFits(p) /\ p \in Page
    BY <2>1, SettingTypes DEF Setting, ExactInv, PageInv
  <2>3. /\ q.phase = p.phase /\ q.fetched = p.fetched /\ q.got = p.got
        /\ q.markGen = p.markGen /\ q.markSeq = p.markSeq /\ q.tail = p.tail
        /\ q.seen = p.seen /\ q.held = p.held /\ q.mine = p.mine
        /\ q.inbox = IF p.phase \in {"greeted", "open"} THEN p.inbox \cup {s} ELSE p.inbox
    BY <1>1, <2>1, <2>2 DEF Page, Greeted, Open
  <2>4. Quotes(q)'
    BY <1>1, <2>2, <2>3 DEF PageFits, Quotes, Minter
  <2>5. Fetched(q)'
    BY <1>1, <2>2, <2>3 DEF PageFits, Fetched
  <2>6. Sent(q)'
    <3>1. \A t \in owed : t < s
      BY <1>2, SettingTypes
    <3>2. p.phase = "greeted" => p.tail \subseteq owed
      BY <2>2 DEF PageFits, Sent
    <3> QED
      BY <1>1, <2>2, <2>3, <3>1, <3>2 DEF PageFits, Sent
  <2>7. Marked(q)'
    BY <1>1, <1>2, <2>2, <2>3 DEF PageFits, Marked
  <2>8. Pairs(q)'
    BY <1>1, <1>2, <2>2, <2>3 DEF PageFits, Pairs, Marked
  <2>9. Engine(q)'
    BY <1>1, <1>2, <2>2, <2>3 DEF PageFits, Engine
  <2>10. PageFits(q)'
    BY <2>4, <2>5, <2>6, <2>7, <2>8, <2>9 DEF PageFits
  <2> QED
    BY <2>1, <2>10, FitsAs
<1> QED
  BY <1>3, <1>4, <1>5, <1>6, <1>7 DEF ExactInv, PageInv

LEMMA LostKeeps ==
    ASSUME Setting, NEW s \in unlogged, Lost(s) PROVE ExactInv'
<1>1. /\ UNCHANGED <<file, channel, log, live, req, exports, carried, news, doc,
                     frameRoot, owed>>
      /\ unlogged' = unlogged \ {s}
      /\ member' = [c \in Conns |-> Away]
  BY DEF Lost, LoseMessage
<1>2. \A d \in Conns : member'[d] = Away
  BY <1>1
<1>3. MintInv' /\ PlanInv'
  BY <1>1, NumbersStay DEF Setting, ExactInv
<1>4. PlainInv'
  BY <1>1, <1>2 DEF Setting, ExactInv, PlainInv, Away
<1>5. StoredInv'
  BY <1>1 DEF Setting, ExactInv, StoredInv
<1>6. ExportInv' /\ CarriedInv' /\ NewsInv'
  BY <1>1
  DEF Setting, ExactInv, ExportInv, Captured, CarriedInv, Storable, NewsInv
<1>7. ASSUME NEW d \in Conns PROVE PageFits(member[d])'
  <2>1. PICK p : p = Away
    OBVIOUS
  <2>2. /\ p.phase = "out" /\ ~p.fetched /\ p.got = 0 /\ p.markGen = 0
        /\ p.tail = {} /\ p.inbox = {} /\ p.mine = {}
    BY <2>1 DEF Away
  <2>3. Quotes(p)
    BY <2>2, SettingTypes DEF Setting, ExactInv, MintInv, Quotes
  <2>4. Quotes(p)'
    BY <1>1, <2>3, QuotesStay
  <2>5. PageFits(p)'
    BY <2>2, <2>4 DEF PageFits, Fetched, Sent, Marked, Pairs, Engine
  <2>6. p = member'[d]
    BY <1>2, <2>1 DEF Away
  <2> QED
    BY <2>5, <2>6, FitsAs
<1> QED
  BY <1>3, <1>4, <1>5, <1>6, <1>7 DEF ExactInv, PageInv

-----------------------------------------------------------------------------
(* Commits and announcements. *)

(* A marker that is the channel's own fits every page still opening.        *)
LEMMA AnnounceFits ==
    ASSUME NEW p, NEW q, p.phase = "greeted", PageFits(p)',
           StoredInv', MintInv', unlogged' = {}, file'.generation \in Nat,
           channel'.contentSeq \in Nat, doc'.frames \subseteq Nat,
           q.phase = "greeted", q.fetched = p.fetched, q.got = p.got,
           q.held = p.held, q.mine = p.mine,
           q.markGen = file'.generation, q.markSeq = channel'.contentSeq,
           q.tail = p.tail \cup p.inbox, q.inbox = {}
    PROVE  PageFits(q)'
<1>1. Quotes(q)'
  BY DEF PageFits, Quotes, MintInv
<1>2. Fetched(q)' /\ Sent(q)' /\ Engine(q)'
  BY DEF PageFits, Fetched, Sent, Engine
<1>3. Marked(q)'
  BY DEF MintInv, StoredInv, Marked
<1>4. Pairs(q)'
  <2>1. SUFFICES ASSUME q.fetched, q.markGen = q.got PROVE Pairs(q)'
    BY DEF Pairs
  <2>2. q.held = doc'
    BY <2>1 DEF PageFits, Fetched
  <2>3. log' \subseteq q.tail
    BY DEF PageFits, Sent
  <2>4. /\ doc'.frames \subseteq owed' /\ \A s \in doc'.frames : s <= channel'.contentSeq
        /\ \A s \in owed' : s \in doc'.frames \/ (s \in log' /\ channel'.contentSeq < s)
    BY DEF StoredInv
  <2>5. \A s \in q.tail \cup q.inbox : channel'.contentSeq < s => s \notin doc'.frames
    BY <2>4
  <2>6. \A s \in owed' : \/ s \in doc'.frames
                        \/ (s \in q.tail \cup q.inbox /\ channel'.contentSeq < s)
    BY <2>3, <2>4
  <2> QED
    BY <2>2, <2>4, <2>5, <2>6 DEF Pairs
<1> QED
  BY <1>1, <1>2, <1>3, <1>4 DEF PageFits

(* What an announcement does to the pages and to what is yet to be told.    *)
LEMMA AnnounceKeeps ==
    ASSUME Setting, NEW r \in Requests, NEW notes, Announce(r, notes),
           \A note \in notes : note.gen = file'.generation /\ note.seq = channel'.contentSeq,
           \A o \in Requests : o = r \/ \A note \in news[o] :
                note.gen = file'.generation /\ note.seq = channel'.contentSeq,
           StoredInv', MintInv', unlogged' = {}, file'.generation \in Nat,
           channel'.contentSeq \in Nat, doc'.frames \subseteq Nat,
           \A d \in Conns : \A p : p = member[d] => PageFits(p)'
    PROVE  /\ NewsInv' /\ PageInv'
           /\ \A d \in Conns : member'[d].phase = member[d].phase
<1>t. DOMAIN news = Requests /\ DOMAIN member = Conns
  BY DEF Setting, RoomInv, RoomTypeOK
<1>1. NewsInv'
  <2>1. \A o \in Requests : (news'[o] = news[o] /\ o # r) \/ news'[o] \in {notes, {}}
    BY <1>t DEF Announce
  <2> QED
    BY <2>1 DEF NewsInv
<1>2. CASE UNCHANGED member
  <2>1. ASSUME NEW d \in Conns PROVE PageFits(member[d])'
    <3>1. PICK p : p = member'[d]
      OBVIOUS
    <3>2. PageFits(p)'
      BY <1>2, <3>1
    <3> QED
      BY <3>1, <3>2, FitsAs
  <2> QED
    BY <1>1, <1>2, <2>1 DEF PageInv
<1>3. ASSUME NEW note \in notes,
             member' = [c \in Conns |->
                    IF Greeted(c)
                    THEN [member[c] EXCEPT !.markGen = note.gen,
                                           !.markSeq = note.seq,
                                           !.tail = @ \cup member[c].inbox,
                                           !.inbox = {}]
                    ELSE member[c]]
      PROVE  PageInv' /\ \A d \in Conns : member'[d].phase = member[d].phase
  <2>1. ASSUME NEW d \in Conns PROVE PageFits(member[d])' /\ member'[d].phase = member[d].phase
    <3>1. PICK p, q : p = member[d] /\ q = member'[d]
      OBVIOUS
    <3>2. PageFits(p)' /\ p \in Page
      BY <3>1, SettingTypes
    <3>3. CASE p.phase = "greeted"
      <4>1. /\ q.phase = "greeted" /\ q.fetched = p.fetched /\ q.got = p.got
            /\ q.held = p.held /\ q.mine = p.mine
            /\ q.markGen = note.gen /\ q.markSeq = note.seq
            /\ q.tail = p.tail \cup p.inbox /\ q.inbox = {}
        BY <1>3, <3>1, <3>2, <3>3 DEF Page, Greeted
      <4>2. PageFits(q)'
        BY <3>2, <3>3, <4>1, AnnounceFits
      <4> QED
        BY <3>1, <3>3, <4>1, <4>2, FitsAs
    <3>4. CASE p.phase # "greeted"
      <4>1. q = p
        BY <1>3, <3>1, <3>4 DEF Greeted
      <4> QED
        BY <3>1, <3>2, <4>1, FitsAs
    <3> QED
      BY <3>3, <3>4
  <2> QED
    BY <2>1 DEF PageInv
<1> QED
  BY <1>1, <1>2, <1>3 DEF Announce

LEMMA RemoveKeeps ==
    ASSUME Setting, NEW r \in Requests, RemoveDisplaced(r) PROVE ExactInv'
<1>0. PICK g \in req[r].stale : RemoveStaleBlob(r, g)
  BY DEF RemoveDisplaced
<1>1. PICK q : q = RemovingOrDone(req[r].stale \ {g}, req[r].staleThumb)
  OBVIOUS
<1>2. q.pc \in {"idle", "removing"} /\ q.base = 0 /\ q.kind = "none"
  BY <1>1 DEF RemovingOrDone, Idle
<1>3. /\ req' = [req EXCEPT ![r] = q]
      /\ UNCHANGED <<file, channel, log, unlogged, live>>
      /\ UNCHANGED <<exports, carried, doc, frameRoot, owed>>
      /\ Announce(r, news[r]) /\ unlogged = {}
  BY <1>0, <1>1, MayRunMeansLogged DEF RemoveDisplaced, RemoveStaleBlob, chanVars
<1>4. MintInv' /\ PlanInv' /\ \A p : Quotes(p) => Quotes(p)'
  BY <1>2, <1>3, NumbersMove
<1>5. ExportInv'
  BY <1>3 DEF Setting, ExactInv, ExportInv, Captured
<1>6. CarriedInv'
  BY <1>2, <1>3, CarriedStay
<1>7. StoredInv'
  BY <1>3 DEF Setting, ExactInv, StoredInv
<1>8. /\ NewsInv' /\ PageInv'
      /\ \A d \in Conns : member'[d].phase = member[d].phase
  <2>1. \A o \in Requests : \A note \in news[o] :
          note.gen = file'.generation /\ note.seq = channel'.contentSeq
    BY <1>3 DEF Setting, ExactInv, NewsInv
  <2>2. ASSUME NEW d \in Conns, NEW p, p = member[d] PROVE PageFits(p)'
    <3>1. PageFits(p) /\ Quotes(p)'
      BY <1>4, <2>2 DEF Setting, ExactInv, PageInv, PageFits
    <3> QED
      BY <1>3, <3>1, FitsStay
  <2>3. /\ file'.generation \in Nat /\ unlogged' = {}
        /\ channel'.contentSeq \in Nat /\ doc'.frames \subseteq Nat
    BY <1>3, SettingTypes
  <2> QED
    BY <1>3, <1>4, <1>7, <2>1, <2>2, <2>3, AnnounceKeeps
<1>9. PlainInv'
  <2>1. \A o \in Requests : req'[o].kind = "plain" => req[o].kind = "plain"
    BY <1>2, <1>3, SettingTypes
  <2> QED
    BY <1>3, <1>8, <2>1 DEF Setting, ExactInv, PlainInv
<1> QED
  BY <1>4, <1>5, <1>6, <1>7, <1>8, <1>9 DEF ExactInv

(* What every commit does to numbers: the committed one is nobody's base    *)
(* and no page's, so whatever else is under way will be refused.            *)
LEMMA CommitNumbers ==
    ASSUME Setting, NEW r \in Requests, CommitSave(r)
    PROVE  /\ file'.generation = req[r].gen /\ file'.minted = file.minted
           /\ req[r].pc = "stored" /\ req[r].base = file.generation
           /\ req[r].kind \in SaveKinds /\ unlogged = {} /\ unlogged' = {}
           /\ UNCHANGED <<live, exports, frameRoot>>
           /\ MintInv' /\ PlanInv' /\ CarriedInv' /\ \A p : Quotes(p) => Quotes(p)'
           /\ \A p : Quotes(p) => p.got # file'.generation /\ p.markGen # file'.generation
           /\ \A o \in Requests : req'[o].kind = "plain" => req[o].kind = "plain"
           /\ CommitChannel(req[r].plan, req[r].gen, req[r].upTo, channel.last)
<1>t. /\ DOMAIN req = Requests /\ \A o \in Requests : req[o] \in Request
      /\ file \in FileRow /\ DOMAIN carried = Requests
  BY SettingTypes DEF Setting, TypeOK, RoomInv, RoomTypeOK
<1>0. PICK stale, staleThumb : req' = [req EXCEPT ![r] = RemovingOrDone(stale, staleThumb)]
  BY DEF CommitSave, Commit
<1>1. PICK q : q = RemovingOrDone(stale, staleThumb)
  OBVIOUS
<1>2. q.pc \in {"idle", "removing"} /\ q.base = 0 /\ q.kind = "none"
  BY <1>1 DEF RemovingOrDone, Idle
<1>3. /\ req'[r] = q /\ \A o \in Requests \ {r} : req'[o] = req[o]
  BY <1>0, <1>1, <1>t
<1>4. /\ file'.generation = req[r].gen /\ file'.minted = file.minted
      /\ req[r].pc = "stored" /\ req[r].base = file.generation
      /\ req[r].kind \in SaveKinds \cup {"complete"}
      /\ unlogged = {} /\ unlogged' = {} /\ UNCHANGED <<live, exports, frameRoot>>
      /\ carried' = [carried EXCEPT ![r] = {}]
  BY <1>t, MayRunMeansLogged, RoomAssumption
  DEF CommitSave, Commit, ClaimGeneration, FileRow
<1>5. req[r].kind \in SaveKinds
  BY <1>4 DEF Setting, RoomInv, SavesCarryBytes, SaveKinds
<1>6. CommitChannel(req[r].plan, req[r].gen, req[r].upTo, channel.last)
  BY RoomAssumption
  DEF CommitSave, Commit, LastRead, PlanKept, Setting, ExactInv, StoredInv
<1>7. MintInv /\ Minter(r) /\ PlanInv
  BY <1>4 DEF Setting, ExactInv, Minter
<1>8. \A o \in Requests : Minter(o)' => o # r /\ Minter(o) /\ req'[o] = req[o]
  BY <1>2, <1>3 DEF Minter
<1>9. MintInv'
  <2>1. req[r].gen \in 1..file.minted
    BY <1>7 DEF MintInv
  <2>2. ASSUME NEW o \in Requests PROVE req'[o].base <= file.minted
    BY <1>2, <1>3, <1>7, SettingTypes DEF MintInv
  <2>3. ASSUME NEW o \in Requests, Minter(o)'
        PROVE  /\ req'[o].gen \in 1..file.minted /\ req'[o].gen # req[r].gen
               /\ \A other \in Requests :
                    /\ req'[other].base # req'[o].gen
                    /\ Minter(other)' /\ other # o => req'[other].gen # req'[o].gen
    <3>1. /\ o # r /\ Minter(o) /\ req'[o].gen = req[o].gen
          /\ req[o].gen \in 1..file.minted /\ req[o].gen # 0
      BY <1>7, <1>8, <2>3, SettingTypes DEF MintInv
    <3> QED
      BY <1>2, <1>3, <1>7, <1>8, <3>1 DEF MintInv
  <2> QED
    BY <1>4, <2>1, <2>2, <2>3 DEF MintInv
<1>10. PlanInv'
  BY <1>2, <1>3, <1>7 DEF PlanInv
<1>11. ASSUME NEW p, Quotes(p)
       PROVE  Quotes(p)' /\ p.got # file'.generation /\ p.markGen # file'.generation
  BY <1>4, <1>7, <1>8, <1>11 DEF Quotes
<1>12. CarriedInv'
  <2>1. \A o \in Requests : req'[o].kind \in {"content", "checkpoint"}
            => o # r /\ req'[o].base # file'.generation
    BY <1>2, <1>3, <1>4, <1>7 DEF MintInv
  <2> QED
    BY <2>1 DEF CarriedInv
<1>13. \A o \in Requests : req'[o].kind = "plain" => req[o].kind = "plain"
  BY <1>2, <1>3
<1> QED
  BY <1>4, <1>5, <1>6, <1>9, <1>10, <1>11, <1>12, <1>13

(* A commit of a save without the channel: a room that is empty starts over. *)
LEMMA CommitPlainKeeps ==
    ASSUME Setting, Orderly, NEW r \in Requests, CommitSave(r), req[r].kind = "plain"
    PROVE  ExactInv'
<1>t. channel \in ChannelRow /\ DOMAIN news = Requests
  BY SettingTypes DEF Setting, RoomInv, RoomTypeOK
<1>n. /\ file'.generation = req[r].gen /\ file'.minted = file.minted
      /\ req[r].pc = "stored" /\ unlogged' = {}
      /\ UNCHANGED <<live, exports, frameRoot>>
      /\ MintInv' /\ PlanInv' /\ CarriedInv' /\ \A p : Quotes(p) => Quotes(p)'
      /\ \A p : Quotes(p) => p.got # file'.generation /\ p.markGen # file'.generation
      /\ CommitChannel(req[r].plan, req[r].gen, req[r].upTo, channel.last)
  BY CommitNumbers
<1>1. /\ live = {} /\ req[r].plan = "purge"
      /\ \A c \in Conns : exports[c] = {} /\ member[c].phase = "out"
  BY <1>n DEF Setting, ExactInv, PlainInv, PlanInv
<1>2. log' = {} /\ channel' = [[channel EXCEPT !.contentGen = req[r].gen, !.contentSeq = channel.last]
                                  EXCEPT !.snapGen = req[r].gen, !.snapSeq = channel.last]
  BY <1>n, <1>1 DEF CommitChannel
<1>3. /\ channel'.exists /\ channel'.contentGen = file'.generation
      /\ channel'.contentSeq = channel'.last
  BY <1>n, <1>2, <1>t DEF ChannelRow, Setting, ExactInv, StoredInv
<1>4. /\ doc' = [root |-> req[r].gen, frames |-> {}] /\ owed' = {}
      /\ Announce(r, {}) /\ \A o \in Requests : news[o] = {}
  BY <1>1 DEF CommitSave, Orderly
<1>5. /\ UNCHANGED member /\ \A o \in Requests : news'[o] = {}
  BY <1>4, <1>t DEF Announce
<1>6. channel'.last \in Nat
  BY <1>2, <1>t DEF ChannelRow
<1>7. StoredInv'
  BY <1>2, <1>3, <1>4, <1>6, <1>n DEF StoredInv
<1>8. PlainInv' /\ ExportInv' /\ NewsInv'
  BY <1>n, <1>1, <1>5 DEF PlainInv, ExportInv, NewsInv
<1>9. ASSUME NEW d \in Conns PROVE PageFits(member[d])'
  <2>1. PICK p : p = member'[d]
    OBVIOUS
  <2>2. PageFits(p) /\ p.phase = "out"
    BY <1>1, <1>5, <2>1 DEF Setting, ExactInv, PageInv
  <2>3. Quotes(p)' /\ p.got # file'.generation
    BY <1>n, <2>2 DEF PageFits
  <2>4. PageFits(p)'
    BY <2>2, <2>3 DEF PageFits, Fetched, Sent, Marked, Pairs, Engine
  <2> QED
    BY <2>1, <2>4, FitsAs
<1> QED
  BY <1>n, <1>7, <1>8, <1>9 DEF ExactInv, PageInv

(* A commit of a page's save: bytes and marker change together, and what is *)
(* owed stays.                                                              *)
LEMMA CommitPageKeeps ==
    ASSUME Setting, Orderly, NEW r \in Requests, CommitSave(r), req[r].kind # "plain"
    PROVE  ExactInv'
<1>t. channel \in ChannelRow /\ DOMAIN news = Requests
  BY SettingTypes DEF Setting, RoomInv, RoomTypeOK
<1>n. /\ file'.generation = req[r].gen /\ file'.minted = file.minted
      /\ req[r].pc = "stored" /\ req[r].base = file.generation
      /\ req[r].kind \in {"content", "checkpoint"} /\ unlogged = {} /\ unlogged' = {}
      /\ UNCHANGED <<live, exports, frameRoot>>
      /\ MintInv' /\ PlanInv' /\ CarriedInv' /\ \A p : Quotes(p) => Quotes(p)'
      /\ \A p : Quotes(p) => p.got # file'.generation /\ p.markGen # file'.generation
      /\ \A o \in Requests : req'[o].kind = "plain" => req[o].kind = "plain"
      /\ CommitChannel(req[r].plan, req[r].gen, req[r].upTo, channel.last)
  BY CommitNumbers DEF SaveKinds
<1>1. PICK body \in carried[r] : doc' = body.held
  <2>1. carried[r] # {}
    BY <1>n DEF Setting, RoomInv, SavesCarryBytes
  <2>2. (CHOOSE b \in carried[r] : TRUE) \in carried[r]
    BY <2>1
  <2> QED
    BY <2>2 DEF CommitSave
<1>2. PICK h, u : h = body.held /\ u = req[r].upTo
  OBVIOUS
<1>3. Storable(h, u) /\ u \in Nat /\ h = doc'
  BY <1>n, <1>1, <1>2, SettingTypes DEF Setting, ExactInv, CarriedInv, Request
<1>4. req[r].plan \in {"content", "checkpoint"}
  BY <1>n DEF Setting, ExactInv, PlanInv
<1>5. AtMost(u, channel.last) = u
  BY <1>3, SettingTypes DEF Storable, AtMost
<1>6. /\ channel'.exists /\ channel'.contentGen = file'.generation
      /\ channel'.contentSeq = u /\ channel'.last = channel.last
      /\ log' \in {log, {s \in log : s > u}}
  <2>0. channel.exists
    BY DEF Setting, ExactInv, StoredInv
  <2>1. PICK mark : mark = [channel EXCEPT !.contentGen = req[r].gen, !.contentSeq = u]
    OBVIOUS
  <2>2. /\ mark.exists /\ mark.contentGen = req[r].gen /\ mark.contentSeq = u
        /\ mark.last = channel.last
    BY <2>0, <2>1, <1>t DEF ChannelRow
  <2>3. CASE /\ log' = {s \in log : s > u}
             /\ channel' = [mark EXCEPT !.snapGen = req[r].gen, !.snapSeq = u]
    BY <1>n, <2>1, <2>2, <2>3, <1>t DEF ChannelRow
  <2>4. CASE log' = log /\ channel' = mark
    BY <1>n, <2>2, <2>4
  <2>5. \/ /\ log' = {s \in log : s > u}
           /\ channel' = [mark EXCEPT !.snapGen = req[r].gen, !.snapSeq = u]
        \/ log' = log /\ channel' = mark
    BY <1>n, <1>2, <1>4, <1>5, <2>1 DEF CommitChannel
  <2> QED
    BY <2>3, <2>4, <2>5
<1>7. owed' = owed
  BY <1>4 DEF CommitSave
<1>8. StoredInv'
  <2>1. \A s \in owed : s \in h.frames \/ (s \in log' /\ u < s)
    <3>1. \A s \in owed : s \in h.frames \/ (s \in log /\ u < s)
      BY <1>3 DEF Storable
    <3> QED
      BY <1>3, <1>6, <3>1, SettingTypes
  <2>2. log' \subseteq log
    BY <1>6
  <2>3. \A s \in log : frameRoot[s] = h.root
    BY <1>3 DEF Storable, Setting, ExactInv, StoredInv
  <2>4. \A s \in owed : s <= channel.last
    BY DEF Setting, ExactInv, StoredInv
  <2>5. log \subseteq owed
    BY DEF Setting, ExactInv, StoredInv
  <2> QED
    BY <1>n, <1>3, <1>6, <1>7, <2>1, <2>2, <2>3, <2>4, <2>5 DEF StoredInv, Storable
<1>9. ExportInv'
  BY <1>n, <1>3, <1>6, <1>7 DEF Setting, ExactInv, ExportInv, Captured, Storable
<1>10. PICK notes : /\ Announce(r, notes)
                    /\ notes \in {{[gen |-> req[r].gen, seq |-> channel'.contentSeq]}, {}}
  BY DEF CommitSave
<1>11. /\ NewsInv' /\ PageInv'
       /\ \A d \in Conns : member'[d].phase = member[d].phase
  <2>1. \A note \in notes : note.gen = file'.generation /\ note.seq = channel'.contentSeq
    BY <1>n, <1>10
  <2>2. \A o \in Requests : news[o] = {}
    BY DEF CommitSave, Orderly
  <2>3. ASSUME NEW d \in Conns, NEW p, p = member[d] PROVE PageFits(p)'
    <3>1. PageFits(p)
      BY <2>3 DEF Setting, ExactInv, PageInv
    <3>2. Quotes(p)' /\ p.got # file'.generation /\ p.markGen # file'.generation
      BY <1>n, <3>1 DEF PageFits
    <3>3. Fetched(p)' /\ Sent(p)' /\ Marked(p)'
      BY <1>n, <1>6, <1>7, <3>1, <3>2 DEF PageFits, Fetched, Sent, Marked
    <3>4. Pairs(p)' /\ Engine(p)'
      BY <1>n, <1>3, <1>6, <1>7, <3>1 DEF PageFits, Pairs, Engine, Storable
    <3> QED
      BY <3>2, <3>3, <3>4 DEF PageFits
  <2>4. /\ file'.generation \in Nat
        /\ channel'.contentSeq \in Nat /\ doc'.frames \subseteq Nat
    <3>1. h.frames \subseteq owed
      BY <1>3 DEF Storable
    <3> QED
      BY <1>n, <1>3, <1>6, <3>1, SettingTypes DEF Request
  <2> QED
    BY <1>n, <1>8, <1>10, <2>1, <2>2, <2>3, <2>4, AnnounceKeeps
<1>12. PlainInv'
  BY <1>n, <1>11 DEF Setting, ExactInv, PlainInv
<1> QED
  BY <1>n, <1>8, <1>9, <1>11, <1>12 DEF ExactInv

-----------------------------------------------------------------------------
(* The theorems. *)

LEMMA ExactStep ==
    ASSUME Setting, Orderly, [CoNext]_coVars PROVE ExactInv'
<1>1. CASE UNCHANGED coVars
  <2>1. /\ UNCHANGED <<file, channel, log, unlogged, live, req>>
        /\ UNCHANGED <<member, exports, carried, news, doc, frameRoot, owed>>
    BY <1>1 DEF coVars, vars, roomVars, chanVars
  <2>2. MintInv' /\ PlanInv' /\ PlainInv'
    BY <2>1, NumbersStay DEF Setting, ExactInv, PlainInv
  <2>3. ExportInv' /\ CarriedInv'
    BY <2>1 DEF Setting, ExactInv, ExportInv, Captured, CarriedInv, Storable
  <2>4. StoredInv' /\ NewsInv' /\ PageInv'
    BY <2>1, RoomRests, PagesQuote
  <2> QED
    BY <2>2, <2>3, <2>4 DEF ExactInv
<1>2. ASSUME NEW c \in Conns, PageStep(c) PROVE ExactInv'
  BY <1>2, FetchKeeps, DialKeeps, WelcomeKeeps, OpenKeeps, DropKeeps, CloseKeeps,
     PostKeeps, ReceiveKeeps, CaptureKeeps, SendSaveKeeps DEF PageStep
<1>3. ASSUME NEW s \in unlogged, Logged(s) \/ Lost(s) PROVE ExactInv'
  BY <1>3, LoggedKeeps, LostKeeps
<1>4. ASSUME NEW r \in Requests, ServerStep(r) PROVE ExactInv'
  BY <1>4, SendPlainKeeps, PlanKeeps, StoreBytesKeeps, CommitPlainKeeps, CommitPageKeeps,
     RefuseKeeps, EndKeeps, RemoveKeeps DEF ServerStep
<1> QED
  BY <1>1, <1>2, <1>3, <1>4 DEF CoNext

LEMMA ExactInvariant == ASSUME Orderly PROVE CoSpec => [](RoomInv /\ ExactInv)
<1>1. CoInit => Setting
  BY RoomStart, ExactStart DEF Setting
<1>2. Setting /\ [CoNext]_coVars => Setting'
  BY RoomStep, ExactStep DEF Setting
<1>3. Setting => RoomInv /\ ExactInv
  BY DEF Setting
<1> QED
  BY <1>1, <1>2, <1>3, PTL DEF CoSpec

(* No page ever feeds its engine a frame that is in the engine already,     *)
(* whichever bytes, marker and replay it got, however saves and checkpoints *)
(* fell in between.                                                         *)
THEOREM FramesAreAppliedOnce == ASSUME Orderly PROVE CoSpec => []NoDoubleApply
<1>1. RoomInv /\ ExactInv => NoDoubleApply
  <2> SUFFICES ASSUME RoomInv, ExactInv, NEW c \in Conns
               PROVE  /\ Greeted(c) /\ member[c].fetched /\ Paired(c) =>
                           member[c].held.frames
                             \cap Feedable(c, member[c].tail \cup member[c].inbox) = {}
                      /\ Open(c) =>
                           member[c].held.frames \cap (member[c].inbox \ member[c].mine) = {}
    BY DEF NoDoubleApply
  <2>1. PageFits(member[c])
    BY DEF ExactInv, PageInv
  <2>2. ASSUME Greeted(c), member[c].fetched, Paired(c)
        PROVE  member[c].held.frames
                 \cap Feedable(c, member[c].tail \cup member[c].inbox) = {}
    <3>1. member[c].markGen # 0
      BY <2>1, <2>2 DEF PageFits, Marked, Greeted
    <3>2. \A s \in member[c].tail \cup member[c].inbox :
              member[c].markSeq < s => s \notin member[c].held.frames
      BY <2>1, <2>2, <3>1 DEF PageFits, Pairs, Greeted, Paired
    <3> QED
      BY <3>1, <3>2 DEF Feedable
  <2>3. ASSUME Open(c)
        PROVE  member[c].held.frames \cap (member[c].inbox \ member[c].mine) = {}
    BY <2>1, <2>3 DEF PageFits, Engine, Open
  <2> QED
    BY <2>2, <2>3
<1> QED
  BY <1>1, ExactInvariant, PTL

(* Every frame the room was told is logged is in the stored bytes or in the *)
(* log past their marker, across every commit, trim and crash.              *)
THEOREM NoFrameIsLost == ASSUME Orderly PROVE CoSpec => []NothingLost
<1>1. RoomInv /\ ExactInv => NothingLost
  BY DEF ExactInv, StoredInv, NothingLost, RoomInv, RoomTypeOK, Positions
<1> QED
  BY <1>1, ExactInvariant, PTL

(* Every open engine, with what is on its way to it, is the document that a *)
(* page opening now would see.                                              *)
THEOREM RoomIsOneDocument == ASSUME Orderly PROVE CoSpec => []OneDocument
<1>1. RoomInv /\ ExactInv => OneDocument
  <2> SUFFICES ASSUME RoomInv, ExactInv PROVE OneDocument
    OBVIOUS
  <2> DEFINE replay == {s \in log : channel.contentGen = 0 \/ s > channel.contentSeq}
  <2>1. \A s \in log : frameRoot[s] = doc.root
    BY DEF ExactInv, StoredInv
  <2>2. doc.frames \cup replay = owed
    BY DEF ExactInv, StoredInv, RoomInv, RoomTypeOK, MintInv
  <2>3. ASSUME NEW c \in Conns, Open(c)
        PROVE  /\ member[c].held.root = doc.root
               /\ (member[c].held.frames \ unlogged) \cup member[c].inbox = owed
    <3>1. Engine(member[c]) /\ member[c].phase = "open"
      BY <2>3 DEF ExactInv, PageInv, PageFits, Open
    <3>2. \A s \in owed : s \notin unlogged
      BY DEF ExactInv, StoredInv
    <3> QED
      BY <3>1, <3>2 DEF Engine
  <2> QED
    BY <2>1, <2>2, <2>3 DEF OneDocument
<1> QED
  BY <1>1, ExactInvariant, PTL

(* The marker's generation moves with the file's, because every save that   *)
(* commits has a plan that sets it.                                         *)
MarkInv ==
    /\ MarkerNamesCurrent
    /\ ~channel.exists => channel.contentGen = 0
    /\ PlanInv
    /\ \A r \in Requests : req[r].kind = "plain" => live = {}

(* Requests move on, and nothing else.                                      *)
LEMMA MarkRests ==
    ASSUME TypeOK, MarkInv, NEW r \in Requests, NEW q, req' = [req EXCEPT ![r] = q],
           file'.generation = file.generation, UNCHANGED <<channel, live>>,
           q.kind = "plain" => live = {},
           q.pc \in {"streaming", "stored"} =>
              /\ q.kind = "plain" => q.plan = "purge"
              /\ q.kind \in {"content", "checkpoint"} => q.plan \in {"content", "checkpoint"}
    PROVE  MarkInv'
<1>1. /\ req'[r] = q /\ \A o \in Requests \ {r} : req'[o] = req[o]
  BY DEF TypeOK
<1> QED
  BY <1>1 DEF MarkInv, MarkerNamesCurrent, PlanInv

LEMMA MarkStep ==
    ASSUME TypeOK, RoomInv, MarkInv, ~PlainMeetsRoom, [CoNext]_coVars PROVE MarkInv'
<1>t. /\ req \in [Requests -> Request] /\ channel \in ChannelRow /\ file \in FileRow
  BY DEF TypeOK
<1>same. ASSUME UNCHANGED <<file, channel, live, req>> PROVE MarkInv'
  BY <1>same DEF MarkInv, MarkerNamesCurrent, PlanInv
<1>1. ASSUME NEW c \in Conns,
             \/ FetchDocument(c) \/ Welcome(c) \/ OpenDocument(c)
             \/ Drop(c) \/ Receive(c) \/ Capture(c)
      PROVE  MarkInv'
  BY <1>1, <1>same
  DEF FetchDocument, Welcome, OpenDocument, Drop, Receive, Capture, vars, chanVars
<1>2. ASSUME NEW c \in Conns, Dial(c) \/ Close(c) \/ Post(c) PROVE MarkInv'
  <2>1. /\ UNCHANGED <<file, req>> /\ channel'.contentGen = channel.contentGen
        /\ ~channel'.exists => ~channel.exists
    BY <1>2, <1>t
    DEF Dial, Close, Post, Join, Leave, NextChannelSeq, ChannelRow
  <2>2. \A r \in Requests : req[r].kind = "plain" => live' = {}
    BY <1>2 DEF Dial, Close, Post, Join, Leave, NextChannelSeq, MarkInv
  <2> QED
    BY <2>1, <2>2 DEF MarkInv, MarkerNamesCurrent, PlanInv
<1>3. ASSUME NEW r \in Requests, NEW kind \in SaveKinds, NEW upTo, StartSave(r, kind, upTo)
      PROVE  MarkInv'
  <2>1. PICK q : q = [Idle EXCEPT !.pc = "read", !.kind = kind, !.upTo = upTo,
                               !.base = file.generation, !.baseUp = file.uploaded]
    OBVIOUS
  <2>2. q.pc = "read" /\ q.kind = kind
    BY <2>1 DEF Idle
  <2> QED
    BY <1>3, <2>1, <2>2, MarkRests DEF StartSave, chanVars
<1>4. ASSUME NEW s \in unlogged, Logged(s) \/ Lost(s) PROVE MarkInv'
  BY <1>4, <1>same DEF Logged, Lost, InsertMessage, LoseMessage
<1>5. ASSUME NEW r \in Requests, Plan(r) PROVE MarkInv'
  <2>1. PICK n, plan :
          /\ plan = ChannelPlan(req[r].kind, AloneInRoom(r))
          /\ file' = [file EXCEPT !.minted = n]
          /\ req' = [req EXCEPT ![r].pc = "streaming", ![r].gen = n, ![r].plan = plan]
    BY <1>5 DEF Plan, PlanSave
  <2>2. PICK q : q = [req[r] EXCEPT !.pc = "streaming", !.gen = n, !.plan = plan]
    OBVIOUS
  <2>3. q.kind = req[r].kind /\ q.plan = plan
    BY <2>2, <1>t DEF Request
  <2>4. req' = [req EXCEPT ![r] = q] /\ file'.generation = file.generation
    BY <2>1, <2>2, <1>t DEF FileRow
  <2>5. req[r].kind = "plain" => live = {}
    BY DEF MarkInv
  <2>6. /\ q.kind = "plain" => q.plan = "purge"
        /\ q.kind \in {"content", "checkpoint"} => q.plan \in {"content", "checkpoint"}
    BY <2>1, <2>3, <2>5 DEF ChannelPlan
  <2>7. UNCHANGED <<channel, live>>
    BY <1>5 DEF Plan, PlanSave, chanVars
  <2> QED
    BY <2>3, <2>4, <2>5, <2>6, <2>7, MarkRests
<1>6. ASSUME NEW r \in Requests, StoreBytes(r) \/ RefuseCommit(r) PROVE MarkInv'
  <2>1. PICK pc \in {"stored", "refused"} :
          /\ req' = [req EXCEPT ![r].pc = pc]
          /\ pc = "stored" => req[r].pc = "streaming"
    BY <1>6 DEF StoreBytes, PutBytes, RefuseCommit
  <2>2. PICK q : q = [req[r] EXCEPT !.pc = pc]
    OBVIOUS
  <2>3. q.pc = pc /\ q.kind = req[r].kind /\ q.plan = req[r].plan
    BY <2>2, <1>t DEF Request
  <2>4. req' = [req EXCEPT ![r] = q] /\ UNCHANGED <<file, channel, live>>
    BY <1>6, <2>1, <2>2 DEF StoreBytes, PutBytes, RefuseCommit, chanVars
  <2>5. q.kind = "plain" => live = {}
    BY <2>3 DEF MarkInv
  <2>6. q.pc \in {"streaming", "stored"} =>
          /\ q.kind = "plain" => q.plan = "purge"
          /\ q.kind \in {"content", "checkpoint"} => q.plan \in {"content", "checkpoint"}
    BY <2>1, <2>3 DEF MarkInv, PlanInv
  <2> QED
    BY <2>4, <2>5, <2>6, MarkRests
<1>7. ASSUME NEW r \in Requests, DropRefused(r) \/ Abandon(r) \/ RemoveDisplaced(r)
      PROVE  MarkInv'
  <2>1. UNCHANGED <<file, channel, live>>
    BY <1>7
    DEF DropRefused, Abandon, RemoveDisplaced, RemoveOwnBlob, Crash, RemoveStaleBlob,
        chanVars
  <2>2. CASE DropRefused(r) \/ Abandon(r)
    <3>1. PICK q : q = Idle
      OBVIOUS
    <3>2. /\ req' = [req EXCEPT ![r] = q]
          /\ q.kind = "none" /\ q.pc = "idle"
      BY <2>2, <3>1 DEF DropRefused, Abandon, RemoveOwnBlob, Crash, Finish, Idle
    <3> QED
      BY <2>1, <3>2, MarkRests
  <2>3. CASE RemoveDisplaced(r)
    <3>1. PICK stale, staleThumb :
            req' = [req EXCEPT ![r] = RemovingOrDone(stale, staleThumb)]
      BY <2>3 DEF RemoveDisplaced, RemoveStaleBlob
    <3>2. PICK q : q = RemovingOrDone(stale, staleThumb)
      OBVIOUS
    <3>3. q.kind = "none" /\ q.pc \in {"idle", "removing"}
      BY <3>2 DEF RemovingOrDone, Idle
    <3> QED
      BY <2>1, <3>1, <3>2, <3>3, MarkRests
  <2> QED
    BY <1>7, <2>2, <2>3
<1>8. ASSUME NEW r \in Requests, CommitSave(r) PROVE MarkInv'
  <2>1. /\ file'.generation = req[r].gen /\ live' = live /\ req[r].pc = "stored"
        /\ req[r].kind \in SaveKinds \cup {"complete"}
        /\ CommitChannel(IF channel.exists THEN req[r].plan ELSE "none",
                         req[r].gen, req[r].upTo, channel.last)
    BY <1>8, <1>t, RoomAssumption
    DEF CommitSave, Commit, LastRead, PlanKept, FileRow
  <2>2. PICK stale, staleThumb :
          req' = [req EXCEPT ![r] = RemovingOrDone(stale, staleThumb)]
    BY <1>8 DEF CommitSave, Commit
  <2>3. PICK q : q = RemovingOrDone(stale, staleThumb)
    OBVIOUS
  <2>4. q.pc \in {"idle", "removing"} /\ q.kind = "none"
    BY <2>3 DEF RemovingOrDone, Idle
  <2>5. req'[r] = q /\ \A o \in Requests \ {r} : req'[o] = req[o]
    BY <2>2, <2>3, <1>t
  <2>6. req[r].plan \in {"purge", "content", "checkpoint"}
    <3>1. req[r].kind \in SaveKinds
      BY <2>1 DEF RoomInv, SavesCarryBytes, SaveKinds
    <3> QED
      BY <2>1, <3>1 DEF MarkInv, PlanInv, SaveKinds
  <2>7. CASE ~channel.exists
    <3>1. channel' = channel /\ channel.contentGen = 0
      BY <2>1, <2>7 DEF CommitChannel, MarkInv
    <3> QED
      BY <2>1, <2>4, <2>5, <3>1 DEF MarkInv, MarkerNamesCurrent, PlanInv
  <2>8. CASE channel.exists
    <3>1. channel'.contentGen = req[r].gen /\ channel'.exists
      <4>1. CommitChannel(req[r].plan, req[r].gen, req[r].upTo, channel.last)
        BY <2>1, <2>8
      <4>2. PICK seq, mark :
              /\ mark = [channel EXCEPT !.contentGen = req[r].gen, !.contentSeq = seq]
              /\ channel' \in {mark, [mark EXCEPT !.snapGen = req[r].gen, !.snapSeq = seq]}
        BY <4>1, <2>6 DEF CommitChannel
      <4>3. mark.contentGen = req[r].gen /\ mark.exists
        BY <4>2, <2>8, <1>t DEF ChannelRow
      <4>4. CASE channel' = mark
        BY <4>3, <4>4
      <4>5. CASE channel' = [mark EXCEPT !.snapGen = req[r].gen, !.snapSeq = seq]
        <5>1. "contentGen" \in DOMAIN mark /\ "exists" \in DOMAIN mark
          BY <4>2, <1>t DEF ChannelRow
        <5> QED
          BY <4>2, <4>3, <4>5, <1>t, <5>1 DEF ChannelRow
      <4> QED
        BY <4>2, <4>4, <4>5
    <3> QED
      BY <2>1, <2>4, <2>5, <3>1 DEF MarkInv, MarkerNamesCurrent, PlanInv
  <2> QED
    BY <2>7, <2>8
<1>9. ASSUME NEW c \in Conns, NEW r \in Requests, NEW kind \in SaveKinds, SendSave(c, r, kind)
      PROVE  MarkInv'
  <2>1. PICK save : StartSave(r, kind, save.upTo)
    BY <1>9 DEF SendSave
  <2> QED
    BY <2>1, <1>3
<1>10. ASSUME NEW r \in Requests, SendPlainSave(r) PROVE MarkInv'
  BY <1>10, <1>3 DEF SendPlainSave, SaveKinds
<1>11. CASE UNCHANGED coVars
  BY <1>11, <1>same DEF coVars, vars, chanVars
<1> QED
  BY <1>1, <1>2, <1>4, <1>5, <1>6, <1>7, <1>8, <1>9, <1>10, <1>11
  DEF CoNext, PageStep, ServerStep

(* Unless a save without the channel meets a room, the marker always names  *)
(* the bytes the row points at, so that a page that fetches them can pair   *)
(* them: whether the document was saved before or not, whatever the saves   *)
(* hold, and in whatever order they are announced.                          *)
THEOREM MarkerNamesStoredBytes ==
    ASSUME ~PlainMeetsRoom PROVE CoSpec => []MarkerNamesCurrent
<1> DEFINE IInv == TypeOK /\ Markers /\ RoomInv /\ MarkInv
<1>1. CoInit => IInv
  <2>1. ASSUME CoInit PROVE MarkInv
    <3>1. req = [r \in Requests |-> Idle]
      BY <2>1 DEF CoInit, StampedInit, Init
    <3>2. \/ channel.contentGen = 0
          \/ channel.exists /\ channel.contentGen = 1 /\ file.generation = 1
      BY <2>1 DEF CoInit, StampedInit, Init
    <3>3. \A r \in Requests : req[r].pc = "idle" /\ req[r].kind = "none"
      BY <3>1 DEF Idle
    <3> QED
      BY <3>2, <3>3 DEF MarkInv, MarkerNamesCurrent, PlanInv
  <2> QED
    BY <2>1, RoomStart
<1>2. IInv /\ [CoNext]_coVars => IInv'
  BY RoomStep, MarkStep
<1>3. IInv => MarkerNamesCurrent
  BY DEF MarkInv
<1> QED
  BY <1>1, <1>2, <1>3, PTL DEF CoSpec

=============================================================================
