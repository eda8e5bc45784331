---------------------------- MODULE KeyRotation ----------------------------
(***************************************************************************)
(* One shared file's key: invitations claimed and granted, members removed *)
(* and leaving (routes/collab.ts), the owner's devices rotating the key    *)
(* afterwards (rotateFileKey, web store.ts), and what is sealed under it:  *)
(* the content, the metadata, the thumbnail and the frames of the file's   *)
(* channel.  Every request of a rotation is a step of its own, and an      *)
(* upload of content is three: the gate, the plan, and the commit after    *)
(* the bytes have streamed (uploadBlob, routes/storage.ts).                *)
(*                                                                         *)
(* A blob, a row or a frame is known by the key it is sealed under.        *)
(***************************************************************************)
EXTENDS Integers, FiniteSets

CONSTANTS
    Devices,  \* the owner's devices
    Members,  \* other accounts
    Savers,   \* scenario: the accounts' clients that save and open pages
    MaxKey,   \* bound: keys minted in a behaviour
    MaxSeq,   \* bound: frames the channel numbers
    Mishaps   \* scenario: which of the following are let happen

(* "stops": a rotation dies between the new content and the new row.       *)
(* "grants": a grant sealed on a device a rotation overtakes.              *)
ASSUME KeyAssumption ==
    /\ MaxKey \in Nat \ {0} /\ MaxSeq \in Nat
    /\ Savers \subseteq Devices \cup Members
    /\ Mishaps \subseteq {"stops", "grants"}

VARIABLES
    content,  \* the key the current data blob is sealed under
    row,      \* files: wrapped key, metadata's key, key_epoch
    thumb,    \* the thumbnail's key, None when thumb_size is 0
    member,   \* file_collaborators
    claimed,  \* members with a claimed invitation not granted yet
    owed,     \* the row's key has moved and members were not re-sealed to
    local,    \* the entry each account's client holds of the file
    grant,    \* a sealed key on its way to the server, per device
    rot,      \* rotateFileKey's local variables, per device
    page,     \* the key each open page works under
    save,     \* a save of content on its way, per account's client
    fresh,    \* uploads whose row still has the generation they read
    log,      \* channel_messages
    channel,  \* channel_state: last_seq and content_channel_seq
    minted    \* keys generated so far

vars == <<content, row, thumb, member, claimed, owed, local, grant, rot,
          page, save, fresh, log, channel, minted>>

-----------------------------------------------------------------------------
(* Types *)

None == 0
Key == 1..MaxKey
Actors == Devices \cup Members

Entry == [key : Key \cup {None}, epoch : Nat, thumb : BOOLEAN]
Frame == [seq : 1..MaxSeq, key : Key, saved : BOOLEAN, held : SUBSET Actors]
Idle == [pc |-> "idle"]
Effect == {"purge", "none", "content"}  \* channelPlan's answers
Save ==
    {Idle} \cup [pc : {"captured", "gated"}, key : Key, upTo : 0..MaxSeq]
           \cup [pc : {"sending"}, key : Key, upTo : 0..MaxSeq, effect : Effect]
Rotation ==
    {Idle} \cup [pc : {"started", "gated", "sending", "put", "opened", "thumbed", "patched"},
                 old : Key, new : Key, epoch : Nat, thumb : BOOLEAN, effect : Effect]
           \cup [pc : {"listed"}, new : Key, epoch : Nat, to : SUBSET Members]

KeyTypeOK ==
    /\ content \in Key /\ thumb \in Key \cup {None} /\ minted \in Key
    /\ row \in [key : Key, meta : Key, epoch : Nat]
    /\ member \in [Members -> [state : {"none", "active", "revoked"},
                               key : Key \cup {None}, epoch : Nat]]
    /\ claimed \subseteq Members /\ owed \in BOOLEAN
    /\ local \in [Actors -> Entry]
    /\ grant \in [Devices -> {Idle} \cup [pc : {"sealed"}, to : Members, key : Key]]
    /\ rot \in [Devices -> Rotation]
    /\ page \in [Actors -> Key \cup {None}]
    /\ save \in [Actors -> Save] /\ fresh \subseteq Actors \X {"save", "rotation"}
    /\ log \subseteq Frame
    /\ channel \in [last : 0..MaxSeq, marker : 0..MaxSeq]
    /\ \A f \in log : f.seq <= channel.last

Init ==
    /\ content = 1 /\ minted = 1 /\ owed = FALSE
    /\ row = [key |-> 1, meta |-> 1, epoch |-> 0]
    /\ thumb = None
    /\ member = [m \in Members |-> [state |-> "none", key |-> None, epoch |-> 0]]
    /\ claimed = {}
    /\ local = [a \in Actors |->
                  [key |-> IF a \in Devices THEN 1 ELSE None, epoch |-> 0, thumb |-> FALSE]]
    /\ grant = [d \in Devices |-> Idle]
    /\ rot = [d \in Devices |-> Idle]
    /\ page = [a \in Actors |-> None]
    /\ save = [a \in Actors |-> Idle] /\ fresh = {}
    /\ log = {} /\ channel = [last |-> 0, marker |-> 0]

-----------------------------------------------------------------------------
(* Helpers *)

Rotating == {d \in Devices : rot[d] # Idle}
Active == {m \in Members : member[m].state = "active"}
MayWrite(a) == a \in Devices \cup Active
RoomEmpty == \A a \in Actors : page[a] = None  \* liveChannelMembers = 0
May(mishap) == mishap \in Mishaps
RoomVars == <<page, save, fresh, log, channel>>
BlobVars == <<content, row, thumb>>

-----------------------------------------------------------------------------
(* Membership: routes/collab.ts *)

(* A signed-in account takes an invitation: one UPDATE ... WHERE claimed_by *)
(* IS NULL, so each invitation has one claimant.                            *)
Claim(m) ==
    /\ m \notin claimed
    /\ claimed' = claimed \cup {m}
    /\ UNCHANGED <<BlobVars, member, owed, local, grant, rot, RoomVars, minted>>

(* approveClaim: the device seals the key its own entry holds. *)
SealGrant(d, m) ==
    /\ m \in claimed /\ grant[d] = Idle
    /\ grant' = [grant EXCEPT ![d] = [pc |-> "sealed", to |-> m, key |-> local[d].key]]
    /\ UNCHANGED <<BlobVars, member, claimed, owed, local, rot, RoomVars, minted>>

(* Mutant for MembersFollow: a member granted again keeps the old envelope. *)
GrantKeepsKey(d) ==
    /\ grant[d] # Idle
    /\ grant' = [grant EXCEPT ![d] = Idle]
    /\ LET m == grant[d].to IN
       IF m \in claimed
       THEN /\ claimed' = claimed \ {m}
            /\ member' = [member EXCEPT ![m] =
                 [state |-> "active", epoch |-> row.epoch,
                  key |-> IF member[m].key = None THEN grant[d].key ELSE member[m].key]]
       ELSE UNCHANGED <<claimed, member>>
    /\ UNCHANGED <<BlobVars, owed, local, rot, RoomVars, minted>>

(* The grant route stores the sealed key beside the epoch the row is at.   *)
CommitGrant(d) ==
    /\ grant[d] # Idle
    /\ grant' = [grant EXCEPT ![d] = Idle]
    /\ LET m == grant[d].to IN
       IF m \in claimed  \* claimed_by set, granted = 0; otherwise 404
       THEN /\ claimed' = claimed \ {m}
            /\ member' = [member EXCEPT ![m] =
                 [state |-> "active", key |-> grant[d].key, epoch |-> row.epoch]]
       ELSE UNCHANGED <<claimed, member>>
    /\ UNCHANGED <<BlobVars, owed, local, rot, RoomVars, minted>>

(* The owner removes a member: the sealed key stays in the dead row, and   *)
(* the member's open sockets are evicted.                                  *)
Remove(m) ==
    /\ m \in Active
    /\ member' = [member EXCEPT ![m].state = "revoked"]
    /\ page' = [page EXCEPT ![m] = None]
    /\ UNCHANGED <<BlobVars, claimed, owed, local, grant, rot, save, fresh, log, channel, minted>>

(* A member leaves: nothing evicts the page another tab has open. *)
Leave(m) ==
    /\ m \in Active
    /\ member' = [member EXCEPT ![m].state = "revoked"]
    /\ UNCHANGED <<BlobVars, claimed, owed, local, grant, rot, RoomVars, minted>>

(* Delta sync: an owner's device opens the wrapped key, a member the key   *)
(* sealed to them; a tombstone takes the entry away.                       *)
Sync(a) ==
    /\ local' = [local EXCEPT ![a] =
         IF a \in Devices
         THEN [key |-> row.key, epoch |-> row.epoch, thumb |-> thumb # None]
         ELSE IF a \in Active
         THEN [key |-> member[a].key, epoch |-> member[a].epoch, thumb |-> FALSE]
         ELSE [key |-> None, epoch |-> 0, thumb |-> FALSE]]
    /\ local' # local
    /\ UNCHANGED <<BlobVars, member, claimed, owed, grant, rot, RoomVars, minted>>

-----------------------------------------------------------------------------
(* Saves and pages *)

(* What a commit of content does, if the row has not moved since the       *)
(* upload read it: the thumbnail of the displaced bytes is dropped, every  *)
(* other upload on its way is out of date, and the channel follows the     *)
(* plan.  held, the saves that have a frame, says which frames are now in  *)
(* the content.  (A checkpoint deletes the frames it has; CoSave has that.) *)
CommitData(who, key, effect, upTo) ==
    /\ content' = key
    /\ thumb' = None
    /\ fresh' = {}
    /\ CASE effect = "purge" -> /\ log' = {}
                                /\ channel' = [channel EXCEPT !.marker = channel.last]
         [] effect = "none" -> /\ log' = {[f EXCEPT !.saved = FALSE] : f \in log}
                               /\ UNCHANGED channel
         [] OTHER -> /\ log' = {[f EXCEPT !.saved = who \in f.held] : f \in log}
                     /\ channel' = [channel EXCEPT
                          !.marker = IF upTo < channel.last THEN upTo ELSE channel.last]

(* A plain save: the row is read, and the gate refuses it while the room   *)
(* is live.                                                                *)
SaveFile(a) ==
    /\ MayWrite(a) /\ local[a].key # None /\ save[a] = Idle
    /\ RoomEmpty
    /\ save' = [save EXCEPT ![a] = [pc |-> "gated", key |-> local[a].key, upTo |-> 0]]
    /\ fresh' = fresh \cup {<<a, "save">>}
    /\ UNCHANGED <<BlobVars, member, claimed, owed, local, grant, rot, page, log, channel, minted>>

(* channelPlan asks once more whether the room is empty; the bytes stream. *)
PlanSave(a) ==
    /\ save[a].pc = "gated"
    /\ save' = [save EXCEPT ![a] = [pc |-> "sending", key |-> save[a].key, upTo |-> 0,
                                    effect |-> IF RoomEmpty THEN "purge" ELSE "none"]]
    /\ UNCHANGED <<BlobVars, member, claimed, owed, local, grant, rot, page, fresh, log, channel,
                   minted>>

(* The bytes are there: committed with the metadata, or 409. *)
CommitSave(a) ==
    /\ save[a].pc = "sending"
    /\ save' = [save EXCEPT ![a] = Idle]
    /\ IF <<a, "save">> \in fresh
       THEN /\ CommitData(a, save[a].key, save[a].effect, save[a].upTo)
            /\ row' = [row EXCEPT !.meta = save[a].key]
       ELSE UNCHANGED <<BlobVars, fresh, log, channel>>
    /\ UNCHANGED <<member, claimed, owed, local, grant, rot, page, minted>>

(* A page opens on content its entry's key decrypts and joins the channel. *)
OpenPage(a) ==
    /\ MayWrite(a) /\ page[a] = None
    /\ local[a].key = content
    /\ page' = [page EXCEPT ![a] = local[a].key]
    /\ UNCHANGED <<BlobVars, member, claimed, owed, local, grant, rot, save, fresh, log, channel,
                   minted>>

(* Mutant for KeyTypeOK: the frame's number is not drawn. *)
PostUncounted(a) ==
    /\ page[a] # None
    /\ channel.last < MaxSeq
    /\ log' = log \cup {[seq |-> channel.last + 1, key |-> page[a], saved |-> FALSE, held |-> {}]}
    /\ UNCHANGED <<BlobVars, member, claimed, owed, local, grant, rot, page, save, fresh, channel,
                   minted>>

PostFrame(a) ==
    /\ page[a] # None
    /\ channel.last < MaxSeq
    /\ channel' = [channel EXCEPT !.last = @ + 1]
    /\ log' = log \cup {[seq |-> channel.last + 1, key |-> page[a], saved |-> FALSE, held |-> {}]}
    /\ UNCHANGED <<BlobVars, member, claimed, owed, local, grant, rot, page, save, fresh, minted>>

(* A live page captures the document, every frame so far in it, and the    *)
(* position the capture has reached; it converts and seals what it has.    *)
SavePage(a) ==
    /\ page[a] # None /\ save[a] = Idle
    /\ save' = [save EXCEPT ![a] = [pc |-> "captured", key |-> page[a], upTo |-> channel.last]]
    /\ log' = {[f EXCEPT !.held = @ \cup {a}] : f \in log}
    /\ UNCHANGED <<BlobVars, member, claimed, owed, local, grant, rot, page, fresh, channel, minted>>

(* The capture goes up: the row is read, and a claimed snapshot passes the *)
(* gate.  An account that may no longer write is refused.                  *)
SendPage(a) ==
    /\ save[a].pc = "captured"
    /\ IF MayWrite(a)
       THEN /\ save' = [save EXCEPT ![a] = [pc |-> "sending", key |-> save[a].key,
                                            upTo |-> save[a].upTo, effect |-> "content"]]
            /\ fresh' = fresh \cup {<<a, "save">>}
       ELSE /\ save' = [save EXCEPT ![a] = Idle]
            /\ UNCHANGED fresh
    /\ UNCHANGED <<BlobVars, member, claimed, owed, local, grant, rot, page, log, channel, minted>>

ClosePage(a) ==
    /\ page[a] # None
    /\ page' = [page EXCEPT ![a] = None]
    /\ UNCHANGED <<BlobVars, member, claimed, owed, local, grant, rot, save, fresh, log, channel,
                   minted>>

(* A device of the owner backfills the thumbnail under its entry's key.    *)
BackfillThumb(d) ==
    /\ thumb = None /\ local[d].key = content
    /\ thumb' = local[d].key
    /\ UNCHANGED <<content, row, member, claimed, owed, local, grant, rot, RoomVars, minted>>

-----------------------------------------------------------------------------
(* rotateFileKey: one action for each request it makes *)

RotationRest == <<member, claimed, grant, page, save>>

(* The content is fetched and opened with the entry's key; a fresh key is  *)
(* minted.  A device whose entry is behind fails here and changes nothing. *)
StartRotate(d) ==
    /\ rot[d] = Idle /\ local[d].key = content
    /\ minted < MaxKey
    /\ minted' = minted + 1
    /\ rot' = [rot EXCEPT ![d] = [pc |-> "started", old |-> local[d].key, new |-> minted + 1,
                  epoch |-> local[d].epoch, thumb |-> local[d].thumb, effect |-> "none"]]
    /\ UNCHANGED <<BlobVars, owed, local, fresh, log, channel, RotationRest>>

(* The content goes up under the new key as a plain save: past the gate,   *)
OfferContent(d) ==
    /\ rot[d].pc = "started"
    /\ RoomEmpty
    /\ rot' = [rot EXCEPT ![d].pc = "gated"]
    /\ fresh' = fresh \cup {<<d, "rotation">>}
    /\ UNCHANGED <<BlobVars, owed, local, log, channel, minted, RotationRest>>

(* with a plan, its bytes streaming,                                       *)
PlanContent(d) ==
    /\ rot[d].pc = "gated"
    /\ rot' = [rot EXCEPT ![d].pc = "sending",
                          ![d].effect = IF RoomEmpty THEN "purge" ELSE "none"]
    /\ UNCHANGED <<BlobVars, owed, local, fresh, log, channel, minted, RotationRest>>

(* and committed; a 409 ends the rotation.                                 *)
PutContent(d) ==
    /\ rot[d].pc = "sending"
    /\ IF <<d, "rotation">> \in fresh
       THEN /\ CommitData(d, rot[d].new, rot[d].effect, 0)
            /\ rot' = [rot EXCEPT ![d].pc = "put"]
       ELSE /\ UNCHANGED <<content, thumb, fresh, log, channel>>
            /\ rot' = [rot EXCEPT ![d] = Idle]
    /\ UNCHANGED <<row, owed, local, minted, RotationRest>>

(* If the entry has a thumbnail it is fetched and opened; one that is not  *)
(* there, or does not open, ends the rotation.                             *)
OpenThumb(d) ==
    /\ rot[d].pc = "put"
    /\ IF ~rot[d].thumb
       THEN rot' = [rot EXCEPT ![d].pc = "thumbed"]
       ELSE IF thumb = rot[d].old
       THEN rot' = [rot EXCEPT ![d].pc = "opened"]
       ELSE rot' = [rot EXCEPT ![d] = Idle]
    /\ UNCHANGED <<BlobVars, owed, local, fresh, log, channel, minted, RotationRest>>

(* It goes up sealed anew: derived blobs are written in place.             *)
PutThumb(d) ==
    /\ rot[d].pc = "opened"
    /\ thumb' = rot[d].new
    /\ rot' = [rot EXCEPT ![d].pc = "thumbed"]
    /\ UNCHANGED <<content, row, owed, local, fresh, log, channel, minted, RotationRest>>

(* Mutant for EpochNamesKey: the wrapped key flips, the epoch does not. *)
PatchKeepsEpoch(d) ==
    /\ rot[d].pc = "thumbed"
    /\ row' = [key |-> rot[d].new, meta |-> rot[d].new, epoch |-> row.epoch]
    /\ local' = [local EXCEPT ![d] = [key |-> rot[d].new, epoch |-> row.epoch,
                                      thumb |-> thumb # None]]
    /\ owed' = TRUE
    /\ rot' = [rot EXCEPT ![d].pc = "patched"]
    /\ UNCHANGED <<content, thumb, fresh, log, channel, minted, RotationRest>>

(* The row takes the new wrapped key and the metadata sealed under it, its *)
(* epoch advances, and the device's own entry follows.                     *)
PatchKey(d) ==
    /\ rot[d].pc = "thumbed"
    /\ row' = [key |-> rot[d].new, meta |-> rot[d].new, epoch |-> row.epoch + 1]
    /\ local' = [local EXCEPT ![d] = [key |-> rot[d].new, epoch |-> row.epoch + 1,
                                      thumb |-> thumb # None]]
    /\ owed' = TRUE
    /\ rot' = [rot EXCEPT ![d].pc = "patched"]
    /\ UNCHANGED <<content, thumb, fresh, log, channel, minted, RotationRest>>

(* The members are listed; with nobody left to seal to, that was all. *)
ListMembers(d) ==
    /\ rot[d].pc = "patched"
    /\ IF Active = {}
       THEN /\ owed' = FALSE
            /\ rot' = [rot EXCEPT ![d] = Idle]
       ELSE /\ UNCHANGED owed
            /\ rot' = [rot EXCEPT ![d] = [pc |-> "listed", new |-> rot[d].new,
                                          epoch |-> rot[d].epoch + 1, to |-> Active]]
    /\ UNCHANGED <<BlobVars, local, fresh, log, channel, minted, RotationRest>>

(* Mutant for RemovedStaysOut: without AND revoked = 0. *)
RekeyUnchecked(d) ==
    /\ rot[d].pc = "listed"
    /\ log' = {} /\ channel' = [last |-> 0, marker |-> 0]
    /\ member' = [m \in Members |->
         IF m \in rot[d].to
         THEN [member[m] EXCEPT !.key = rot[d].new, !.epoch = rot[d].epoch]
         ELSE member[m]]
    /\ owed' = FALSE
    /\ rot' = [rot EXCEPT ![d] = Idle]
    /\ UNCHANGED <<BlobVars, claimed, local, grant, page, save, fresh, minted>>

(* The rekey route, one transaction: the frames under the retired key go,  *)
(* the channel counts from zero again, and every listed member who is      *)
(* still one gets the new key.                                             *)
Rekey(d) ==
    /\ rot[d].pc = "listed"
    /\ log' = {} /\ channel' = [last |-> 0, marker |-> 0]
    /\ member' = [m \in Members |->
         IF m \in rot[d].to /\ member[m].state = "active"
         THEN [member[m] EXCEPT !.key = rot[d].new, !.epoch = rot[d].epoch]
         ELSE member[m]]
    /\ owed' = FALSE
    /\ rot' = [rot EXCEPT ![d] = Idle]
    /\ UNCHANGED <<BlobVars, claimed, local, grant, page, save, fresh, minted>>

(* A request of the rotation fails, or its tab is closed. *)
StopRotate(d) ==
    /\ rot[d] # Idle
    /\ rot' = [rot EXCEPT ![d] = Idle]
    /\ fresh' = fresh \ {<<d, "rotation">>}
    /\ UNCHANGED <<BlobVars, owed, local, log, channel, minted, RotationRest>>

-----------------------------------------------------------------------------
(* Scenarios: what a run leaves out, and nothing the program checks *)

(* Where "grants" is left out, no rotation overtakes a grant: a device     *)
(* seals from an entry that is up to date while nobody rotates, and a      *)
(* rotation starts when no grant is on its way.                            *)
GrantsApart(d) == May("grants") \/ (local[d].key = row.key /\ Rotating = {})
RotationsApart == May("grants") \/ \A e \in Devices : grant[e] = Idle

(* Where "stops" is left out, a rotation that has put its content goes on  *)
(* to the row.                                                             *)
StopsApart(d) == May("stops") \/ rot[d].pc \notin {"put", "opened", "thumbed"}

Next ==
    \/ \E m \in Members : Claim(m) \/ Remove(m) \/ Leave(m)
    \/ \E d \in Devices, m \in Members : GrantsApart(d) /\ SealGrant(d, m)
    \/ \E d \in Devices : CommitGrant(d) \/ BackfillThumb(d)
    \/ \E a \in Actors : Sync(a)
    \/ \E a \in Savers : \/ SaveFile(a) \/ PlanSave(a) \/ CommitSave(a)
                         \/ OpenPage(a) \/ PostFrame(a) \/ SavePage(a) \/ SendPage(a)
                         \/ ClosePage(a)
    \/ \E d \in Devices : \/ RotationsApart /\ StartRotate(d)
                          \/ OfferContent(d) \/ PlanContent(d) \/ PutContent(d)
                          \/ OpenThumb(d) \/ PutThumb(d)
                          \/ PatchKey(d) \/ ListMembers(d) \/ Rekey(d)
                          \/ StopsApart(d) /\ StopRotate(d)

Spec == Init /\ [][Next]_vars

-----------------------------------------------------------------------------
(* Properties *)

(* Where no save or page of others is about: whenever no rotation is under *)
(* way, the key the row holds opens both the content and the metadata      *)
(* (rotateFileKey's order of requests, the PATCH route).                   *)
ContentReadable == Rotating = {} => (content = row.key /\ row.meta = row.key)

(* New content is sealed under the key the row holds, or the one a         *)
(* rotation is bringing in: a retired key is not valid for new content     *)
(* (rotateFileKey's fail-closed order, the gate of uploadBlob).            *)
RetiredKeyStaysRetired ==
    [][content' \in {content, row.key} \cup {rot[d].new : d \in Rotating}]_vars

(* A member's epoch never claims a key the member was not given: who is at *)
(* the row's epoch holds the row's key, however rotations of several       *)
(* devices overlap, stop, or start from entries that are behind (the rekey *)
(* and PATCH routes, rotateFileKey's epoch from the entry).                *)
EpochNamesKey ==
    \A m \in Active : member[m].epoch = row.epoch => member[m].key = row.key

(* Once a rotation has got through, every remaining member holds the row's *)
(* key (the grant and rekey routes, rotateFileKey).                        *)
MembersFollow == ~owed => \A m \in Active : member[m].key = row.key

(* Every frame waiting in the log opens with the key the content opens     *)
(* with: a page that joins never meets a frame it cannot decrypt (the live *)
(* room refusing plain saves, the purge, rekey's DELETE).                  *)
FramesReadable == \A f \in log : f.key = content

(* A frame at or below the content's marker is in the content: a joiner    *)
(* replays from the marker and misses nothing, across the restart of the   *)
(* numbers too (the rekey route's reset).                                  *)
NothingBelowMarker == \A f \in log : f.seq <= channel.marker => f.saved

(* A removed member is sealed nothing more: while the row is dead its key  *)
(* does not change, whatever list a rotation read before the removal (the  *)
(* rekey route).                                                           *)
RemovedStaysOut ==
    [][\A m \in Members : (member[m].state = "revoked" /\ member'[m].state = "revoked")
          => member'[m].key = member[m].key]_vars
=============================================================================
