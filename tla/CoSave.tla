------------------------------- MODULE CoSave -------------------------------
(***************************************************************************)
(* A room of pages editing one document live, over ContentStore.  A page   *)
(* downloads the stored bytes, joins the channel, pairs the bytes with the *)
(* channel's content marker and replays the frames the bytes do not hold;  *)
(* it posts frames of its own, and it saves what its engine holds together *)
(* with the last position it has seen.                                     *)
(*                                                                         *)
(* What the pages hold is told apart by two things only: the root, which   *)
(* is the generation whose plain bytes a document grew from, and the set   *)
(* of channel positions whose frames were applied to it.  The pages talk   *)
(* to one process over SQLite.  Nobody restores, trashes or deletes the    *)
(* file meanwhile.                                                         *)
(***************************************************************************)
EXTENDS ContentStore

CONSTANTS
    Stamped,        \* TRUE: the document was saved since it first had a room;
                    \* FALSE: its channel has no marker yet
    InexactSaves,   \* TRUE: a save may reach the server from a page that
                    \* lacks frames the log was trimmed of, or that never
                    \* saw the position of a frame its bytes contain
    LateNews,       \* TRUE: another save may commit while one is still
                    \* removing blobs and has not announced its marker
    PlainMeetsRoom, \* TRUE: a save without the channel may be under way when
                    \* a page joins, or overtake one a page has captured
    MaxWork         \* bound: positions issued and generations minted, together

ASSUME RoomAssumption ==
    /\ Isolated /\ Legacy = {}
    /\ Stamped \in BOOLEAN /\ InexactSaves \in BOOLEAN
    /\ LateNews \in BOOLEAN /\ PlainMeetsRoom \in BOOLEAN
    /\ MaxMint > 0 /\ MaxWork \in Nat

VARIABLES
    member,     \* what each connection's page holds (OfficeEditor.tsx)
    exports,    \* a save captured at the barrier and not sent yet, or {}
    carried,    \* the bytes each save request carries, and who sent it
    news,       \* the marker each request has yet to announce, or {}
    doc,        \* what the blob of the current generation holds; blobs are
                \* never overwritten, so no other needs to be kept
    frameRoot,  \* auxiliary: the root each position's frame was made on
    owed        \* auxiliary: positions logged and not purged with the room
                \* empty; their frames must reach whoever opens the document

roomVars == <<member, exports, carried, news, doc, frameRoot, owed>>
coVars == <<vars, roomVars>>

-----------------------------------------------------------------------------

Positions == 1..MaxPosts
Document == [root : Nat, frames : SUBSET Positions]
Blank == [root |-> 0, frames |-> {}]
Marker == [gen : Nat, seq : Nat]

Page == [phase : {"out", "dialed", "greeted", "open"},
         fetched : BOOLEAN, got : Nat,     \* the bytes' generation
         held : Document,                  \* the bytes, then the engine
         markGen : Nat, markSeq : Nat,     \* markerBox
         tail : SUBSET Positions,          \* replay received before opening
         inbox : SUBSET Positions,         \* frames and own acks under way,
                                           \* delivered in order of position
         mine : SUBSET Positions,          \* own posts not acknowledged yet
         seen : 0..MaxPosts]               \* lastSeenSeq

Away == [phase |-> "out", fetched |-> FALSE, got |-> 0, held |-> Blank,
         markGen |-> 0, markSeq |-> 0, tail |-> {}, inbox |-> {},
         mine |-> {}, seen |-> 0]

RoomTypeOK ==
    /\ member \in [Conns -> Page]
    /\ exports \in [Conns -> SUBSET [held : Document, upTo : 0..MaxPosts]]
    /\ carried \in [Requests -> SUBSET [by : Conns, held : Document]]
    /\ news \in [Requests -> SUBSET Marker]
    /\ doc \in Document
    /\ frameRoot \in [Positions -> Nat]
    /\ owed \subseteq Positions

(* The room is empty and its last plain save is the first generation.      *)
StampedInit ==
    /\ file = [generation |-> 1, uploaded |-> TRUE, minted |-> 1,
               thumb |-> FALSE, trashed |-> FALSE, deleted |-> FALSE]
    /\ blobs = {1}
    /\ channel = [exists |-> TRUE, last |-> 0, contentGen |-> 1,
                  contentSeq |-> 0, snapGen |-> 1, snapSeq |-> 0]
    /\ versions = {} /\ thumbBlob = FALSE /\ sessions = {}
    /\ log = {} /\ unlogged = {} /\ live = {}
    /\ req = [r \in Requests |-> Idle]

CoInit ==
    /\ IF Stamped THEN StampedInit ELSE Init
    /\ member = [c \in Conns |-> Away]
    /\ exports = [c \in Conns |-> {}]
    /\ carried = [r \in Requests |-> {}]
    /\ news = [r \in Requests |-> {}]
    /\ doc = [root |-> file.generation, frames |-> {}]
    /\ frameRoot = [s \in Positions |-> 0]
    /\ owed = {}

-----------------------------------------------------------------------------
(* Opening a document.  The download and the dial run side by side; the    *)
(* welcome carries the marker, and the replay follows it in the same turn. *)

WorkLeft == channel.last + file.minted < MaxWork

Greeted(c) == member[c].phase = "greeted"
Open(c) == member[c].phase = "open"

(* Mutant: newer bytes than the marker names count as paired.              *)
PairedByOrder(c) == member[c].markGen <= member[c].got

(* reconcile: legacy (nothing stamped the channel yet) or ready.           *)
Paired(c) == member[c].markGen = 0 \/ member[c].markGen = member[c].got

(* Mutant: the replay starts one frame too late.                           *)
FeedableLate(c, frames) ==
    {s \in frames : member[c].markGen = 0 \/ s > member[c].markSeq + 1}

(* feedable: no marker feeds everything, a marker feeds what is past it.   *)
Feedable(c, frames) ==
    {s \in frames : member[c].markGen = 0 \/ s > member[c].markSeq}

(* The first download, or the one after a pairing that failed.             *)
FetchDocument(c) ==
    /\ Quiet /\ file.uploaded
    /\ ~Open(c)
    /\ member[c].fetched => Greeted(c) /\ ~Paired(c)
    /\ member' = [member EXCEPT ![c].fetched = TRUE,
                                ![c].got = file.generation,
                                ![c].held = doc]
    /\ UNCHANGED <<vars, exports, carried, news, doc, frameRoot, owed>>

(* A page that dials has given up the save its last incarnation captured.  *)
Dial(c) ==
    /\ member[c].phase = "out"
    /\ PlainMeetsRoom \/ \A r \in Requests : req[r].kind # "plain"
    /\ Join(c)
    /\ member' = [member EXCEPT ![c].phase = "dialed"]
    /\ exports' = [exports EXCEPT ![c] = {}]
    /\ UNCHANGED <<carried, news, doc, frameRoot, owed>>

Welcome(c) ==
    /\ Quiet
    /\ member[c].phase = "dialed"
    /\ member' = [member EXCEPT ![c].phase = "greeted",
                                ![c].markGen = channel.contentGen,
                                ![c].markSeq = channel.contentSeq,
                                ![c].tail = log]
    /\ UNCHANGED <<vars, exports, carried, news, doc, frameRoot, owed>>

OpenDocument(c) ==
    /\ Quiet
    /\ Greeted(c) /\ member[c].fetched /\ Paired(c)
    /\ \E last \in member[c].tail \cup {0} :
        /\ \A s \in member[c].tail : s <= last
        /\ member' = [member EXCEPT ![c] =
              [Away EXCEPT !.phase = "open",
                           !.held = [root |-> member[c].held.root,
                                     frames |-> member[c].held.frames \cup
                                                Feedable(c, member[c].tail)],
                           !.inbox = member[c].inbox,
                           !.seen = last]]
    /\ UNCHANGED <<vars, exports, carried, news, doc, frameRoot, owed>>

(* The socket dies or the page reloads: a resync, the crossing of a        *)
(* checkpoint, a tab that closes.  The presence row outlives the page.     *)
Drop(c) ==
    /\ Quiet
    /\ member[c].phase # "out"
    /\ member' = [member EXCEPT ![c] = Away]
    /\ UNCHANGED <<vars, exports, carried, news, doc, frameRoot, owed>>

Close(c) ==
    /\ member[c].phase = "out"
    /\ Leave(c)
    /\ UNCHANGED roomVars

-----------------------------------------------------------------------------
(* Editing. *)

(* Mutant: the page numbers its frame ahead of the server.                 *)
PostAhead(c) ==
    /\ Open(c) /\ WorkLeft
    /\ NextChannelSeq(c)
    /\ member' = [member EXCEPT ![c].mine = @ \cup {channel.last + 2},
                                ![c].held.frames = @ \cup {channel.last + 2}]
    /\ UNCHANGED <<exports, carried, news, doc, frameRoot, owed>>

Post(c) ==
    /\ Open(c) /\ WorkLeft
    /\ NextChannelSeq(c)
    /\ LET s == channel.last + 1
       IN  /\ member' = [member EXCEPT ![c].mine = @ \cup {s},
                                       ![c].held.frames = @ \cup {s}]
           /\ frameRoot' = [frameRoot EXCEPT ![s] = member[c].held.root]
    /\ UNCHANGED <<exports, carried, news, doc, owed>>

(* The row is in; the room hears the frame, its sender the acknowledgement. *)
Logged(s) ==
    /\ InsertMessage(s)
    /\ member' = [c \in Conns |->
          IF Greeted(c) \/ Open(c)
          THEN [member[c] EXCEPT !.inbox = @ \cup {s}]
          ELSE member[c]]
    /\ owed' = owed \cup {s}
    /\ UNCHANGED <<exports, carried, news, doc, frameRoot>>

(* The process dies with the position taken, and every socket with it.     *)
Lost(s) ==
    /\ LoseMessage(s)
    /\ member' = [c \in Conns |-> Away]
    /\ UNCHANGED <<exports, carried, news, doc, frameRoot, owed>>

Receive(c) ==
    /\ Quiet
    /\ Open(c)
    /\ \E s \in member[c].inbox :
        /\ \A t \in member[c].inbox : s <= t
        /\ member' = [member EXCEPT ![c].inbox = @ \ {s},
                                    ![c].mine = @ \ {s},
                                    ![c].held.frames = @ \cup {s},
                                    ![c].seen = IF @ < s THEN s ELSE @]
    /\ UNCHANGED <<vars, exports, carried, news, doc, frameRoot, owed>>

-----------------------------------------------------------------------------
(* Saving.  At the barrier nothing of the page's own is unacknowledged, and *)
(* the position and the bytes are read in one turn.  Converting and sealing *)
(* the bytes takes a while; then the request goes out.  Bound: nobody has   *)
(* two saves under way that are not committed, not even by reloading.      *)

Capture(c) ==
    /\ Quiet
    /\ Open(c)
    /\ member[c].mine = {}
    /\ exports[c] = {}
    /\ \A r \in Requests : \A body \in carried[r] : body.by # c
    /\ exports' = [exports EXCEPT ![c] =
                      {[held |-> member[c].held, upTo |-> member[c].seen]}]
    /\ UNCHANGED <<vars, member, carried, news, doc, frameRoot, owed>>

(* Whatever the room did since, the page sends what it captured.           *)
SendSave(c, r, kind) ==
    \E save \in exports[c] :
        /\ kind # "plain" /\ WorkLeft
        /\ StartSave(r, kind, save.upTo)
        /\ exports' = [exports EXCEPT ![c] = {}]
        /\ carried' = [carried EXCEPT ![r] = {[by |-> c, held |-> save.held]}]
        /\ UNCHANGED <<member, news, doc, frameRoot, owed>>

(* A save by somebody who edits alone, without the channel.                *)
SendPlainSave(r) ==
    /\ WorkLeft
    /\ PlainMeetsRoom \/ \A c \in Conns : exports[c] = {}
    /\ StartSave(r, "plain", 0)
    /\ UNCHANGED roomVars

AloneInRoom(r) ==
    /\ req[r].kind = "content"
    /\ \E body \in carried[r] : live = {body.by}

Plan(r) ==
    /\ PlanSave(r, AloneInRoom(r))
    /\ UNCHANGED roomVars

StoreBytes(r) ==
    /\ PutBytes(r)
    /\ UNCHANGED roomVars

(* A save's marker reaches the pages still opening, after the frames sent   *)
(* before it, and replaces the marker they hold; but only once the handler  *)
(* has removed what it displaced.  A checkpoint that trims nothing tells    *)
(* nobody; one that trims is told as a truncation, of which a page still    *)
(* opening keeps only the marker.                                           *)
Announce(r, notes) ==
    IF req'[r].pc = "removing"
    THEN news' = [news EXCEPT ![r] = notes] /\ UNCHANGED member
    ELSE /\ news' = [news EXCEPT ![r] = {}]
         /\ IF notes = {}
            THEN UNCHANGED member
            ELSE \E note \in notes : member' = [c \in Conns |->
                    IF Greeted(c)
                    THEN [member[c] EXCEPT !.markGen = note.gen,
                                           !.markSeq = note.seq,
                                           !.tail = @ \cup member[c].inbox,
                                           !.inbox = {}]
                    ELSE member[c]]

CommitSave(r) ==
    /\ LateNews \/ \A other \in Requests : news[other] = {}
    /\ Commit(r)
    /\ doc' = IF req[r].kind = "plain"
              THEN [root |-> req[r].gen, frames |-> {}]
              ELSE (CHOOSE body \in carried[r] : TRUE).held
    /\ owed' = IF req[r].plan = "purge" /\ live = {} THEN {} ELSE owed
    /\ carried' = [carried EXCEPT ![r] = {}]
    /\ Announce(r, IF \/ req[r].plan = "content"
                      \/ req[r].plan = "checkpoint" /\ channel'.contentSeq > 0
                   THEN {[gen |-> req[r].gen, seq |-> channel'.contentSeq]}
                   ELSE {})
    /\ UNCHANGED <<exports, frameRoot>>

RemoveDisplaced(r) ==
    /\ \E g \in req[r].stale : RemoveStaleBlob(r, g)
    /\ Announce(r, news[r])
    /\ UNCHANGED <<exports, carried, doc, frameRoot, owed>>

DropRefused(r) ==
    /\ RemoveOwnBlob(r)
    /\ carried' = [carried EXCEPT ![r] = {}]
    /\ UNCHANGED <<member, exports, news, doc, frameRoot, owed>>

(* Bound: not once the bytes are stored; ContentStore's own runs cover the  *)
(* blobs that stay behind then.                                            *)
Abandon(r) ==
    /\ req[r].pc \in {"read", "streaming"}
    /\ Crash(r)
    /\ carried' = [carried EXCEPT ![r] = {}]
    /\ UNCHANGED <<member, exports, news, doc, frameRoot, owed>>

-----------------------------------------------------------------------------

(* Scenario: what a page is about to send holds what the log was trimmed   *)
(* of, and nothing past the position that goes with it.  No page can tell; *)
(* where it is not so (InexactSaves) the code loses or repeats frames.     *)
SendsExactly(c) ==
    InexactSaves \/ \A save \in exports[c] :
        /\ owed \ log \subseteq save.held.frames
        /\ \A s \in save.held.frames : s <= save.upTo

PageStep(c) ==
    \/ FetchDocument(c) \/ Dial(c) \/ Welcome(c)
    \/ OpenDocument(c) \/ Drop(c) \/ Close(c)
    \/ Post(c) \/ Receive(c) \/ Capture(c)
    \/ /\ SendsExactly(c)
       /\ \E r \in Requests, kind \in SaveKinds : SendSave(c, r, kind)

ServerStep(r) ==
    \/ SendPlainSave(r) \/ Plan(r) \/ StoreBytes(r) \/ CommitSave(r)
    \/ RefuseCommit(r) /\ UNCHANGED roomVars
    \/ DropRefused(r) \/ RemoveDisplaced(r) \/ Abandon(r)

CoNext ==
    \/ \E c \in Conns : PageStep(c)
    \/ \E s \in unlogged : Logged(s) \/ Lost(s)
    \/ \E r \in Requests : ServerStep(r)

CoSpec == CoInit /\ [][CoNext]_coVars

-----------------------------------------------------------------------------
(* Properties *)

(* "No channel frame with seq > S may be represented in those bytes":      *)
(* nothing a page still has to feed its engine is in the engine already.   *)
NoDoubleApply ==
    \A c \in Conns :
        LET p == member[c]
        IN  /\ Greeted(c) /\ p.fetched /\ Paired(c) =>
                  p.held.frames \cap Feedable(c, p.tail \cup p.inbox) = {}
            /\ Open(c) => p.held.frames \cap (p.inbox \ p.mine) = {}

(* "Every frame at or before it must be in the bytes or still in the log": *)
(* whoever opens the document now gets every frame the room was told is    *)
(* logged, from the bytes or from the replay past the marker.              *)
NothingLost ==
    \A s \in owed :
        \/ s \in doc.frames
        \/ s \in log /\ (channel.contentGen = 0 \/ s > channel.contentSeq)

(* The tail-base invariant: an open engine stands on the bytes the file row *)
(* points at, and once it has received what is under way it holds the very *)
(* document a page opening now would see.                                  *)
OneDocument ==
    LET replay == {s \in log : channel.contentGen = 0 \/ s > channel.contentSeq}
    IN  /\ \A s \in log : frameRoot[s] = doc.root
        /\ \A c \in Conns : Open(c) =>
              /\ member[c].held.root = doc.root
              /\ (member[c].held.frames \ unlogged) \cup member[c].inbox
                    = doc.frames \cup replay

(* The marker names the current bytes, so that a page can pair them.       *)
MarkerNamesCurrent == channel.contentGen \in {0, file.generation}

=============================================================================
