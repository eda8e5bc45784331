------------------------- MODULE KeyRotationProofs -------------------------
(***************************************************************************)
(* What TLAPS proves of KeyRotation for every number of devices, members,  *)
(* keys and frames.                                                        *)
(***************************************************************************)
EXTENDS KeyRotation, TLAPS

-----------------------------------------------------------------------------
(* Invariants *)

(* A device of the owner always holds a key for the file.                  *)
DevicesHoldKeys == \A d \in Devices : local[d].key # None

(* KeyTypeOK, strengthened with what the devices seal grants from.         *)
TypeInv == KeyTypeOK /\ DevicesHoldKeys

(* EpochNamesKey, strengthened: nothing carries an epoch past the row's,   *)
(* and what carries the row's own epoch carries the row's key: a device's  *)
(* entry, a rotation on its way to the members, a grant.                   *)
Upward == {"started", "gated", "sending", "put", "opened", "thumbed"}
DeviceNames(d) ==
    /\ local[d].epoch <= row.epoch
    /\ local[d].epoch = row.epoch => local[d].key = row.key
    /\ grant[d] # Idle => (grant[d].key = row.key /\ Rotating = {})
    /\ rot[d].pc \in Upward => rot[d].epoch <= row.epoch
    /\ rot[d].pc = "patched" => /\ rot[d].epoch + 1 <= row.epoch
                                /\ rot[d].epoch + 1 = row.epoch => rot[d].new = row.key
    /\ rot[d].pc = "listed" => /\ rot[d].epoch <= row.epoch
                               /\ rot[d].epoch = row.epoch => rot[d].new = row.key
NamesInv ==
    /\ EpochNamesKey
    /\ \A m \in Members : member[m].epoch <= row.epoch
    /\ \A d \in Devices : DeviceNames(d)

-----------------------------------------------------------------------------
(* Types *)

LEMMA IdleIsTyped == Idle \in Rotation
BY DEF Rotation

(* A rotation on its way has its keys, and keeps them as it goes on.       *)
LEMMA RotationShape ==
    ASSUME NEW r \in Rotation,
           r.pc \in {"started", "gated", "sending", "put", "opened", "thumbed", "patched"}
    PROVE  /\ r \in [pc : {"started", "gated", "sending", "put", "opened", "thumbed", "patched"},
                     old : Key, new : Key, epoch : Nat, thumb : BOOLEAN, effect : Effect]
           /\ \A pc \in {"gated", "put", "opened", "thumbed", "patched"} :
                [r EXCEPT !.pc = pc] \in Rotation
           /\ \A effect \in Effect :
                [r EXCEPT !.pc = "sending", !.effect = effect] \in Rotation
<1>1. r \in [pc : {"started", "gated", "sending", "put", "opened", "thumbed", "patched"},
            old : Key, new : Key, epoch : Nat, thumb : BOOLEAN, effect : Effect]
  BY DEF Rotation, Idle
<1> QED
  BY <1>1 DEF Rotation

LEMMA ListedShape ==
    ASSUME NEW r \in Rotation, r.pc = "listed"
    PROVE  r \in [pc : {"listed"}, new : Key, epoch : Nat, to : SUBSET Members]
BY DEF Rotation, Idle

(* Membership, grants and the delta feed keep the types.                   *)
LEMMA MemberTypes ==
    ASSUME TypeInv,
           \/ \E m \in Members : Claim(m) \/ Remove(m) \/ Leave(m)
           \/ \E d \in Devices, m \in Members : SealGrant(d, m)
           \/ \E d \in Devices : CommitGrant(d)
           \/ \E a \in Actors : Sync(a)
    PROVE  TypeInv'
<1> USE DEF TypeInv, KeyTypeOK, DevicesHoldKeys, None, Key, Actors, BlobVars, RoomVars
<1>1. ASSUME NEW m \in Members, Claim(m) \/ Remove(m) \/ Leave(m) PROVE TypeInv'
  <2>1. member' \in [Members -> [state : {"none", "active", "revoked"},
                                key : Key \cup {None}, epoch : Nat]]
    <3>1. member' = member \/ member' = [member EXCEPT ![m].state = "revoked"]
      BY <1>1 DEF Claim, Remove, Leave
    <3>2. member \in [Members -> [state : {"none", "active", "revoked"},
                                 key : Key \cup {None}, epoch : Nat]]
      OBVIOUS
    <3>3. [member[m] EXCEPT !.state = "revoked"]
            \in [state : {"none", "active", "revoked"}, key : Key \cup {None}, epoch : Nat]
      BY <3>2
    <3> HIDE DEF TypeInv, KeyTypeOK, Key, None
    <3> QED
      BY <3>1, <3>2, <3>3
  <2>2. page' \in [Actors -> Key \cup {None}] /\ claimed' \subseteq Members
    BY <1>1 DEF Claim, Remove, Leave
  <2>3. UNCHANGED <<content, row, thumb, owed, local, grant, rot, save, fresh, log, channel, minted>>
    BY <1>1 DEF Claim, Remove, Leave
  <2> QED
    BY <2>1, <2>2, <2>3
<1>2. ASSUME NEW d \in Devices, NEW m \in Members, SealGrant(d, m) PROVE TypeInv'
  BY <1>2 DEF SealGrant, Entry
<1>3. ASSUME NEW d \in Devices, CommitGrant(d) PROVE TypeInv'
  <2>1. grant[d].to \in Members /\ grant[d].key \in Key
    BY <1>3 DEF CommitGrant, Idle
  <2> QED
    BY <1>3, <2>1 DEF CommitGrant
<1>4. ASSUME NEW a \in Actors, Sync(a) PROVE TypeInv'
  BY <1>4 DEF Sync, Entry, Active
<1> QED
  BY <1>1, <1>2, <1>3, <1>4

(* What a commit makes of the channel is a channel again.                  *)
LEMMA CommitTypes ==
    ASSUME TypeInv, NEW who, NEW key \in Key, NEW effect, NEW upTo \in 0..MaxSeq,
           CommitData(who, key, effect, upTo)
    PROVE  /\ content' \in Key /\ thumb' = None /\ fresh' = {}
           /\ log' \subseteq Frame
           /\ channel' \in [last : 0..MaxSeq, marker : 0..MaxSeq]
           /\ channel'.last = channel.last
           /\ \A f \in log' : f.seq <= channel'.last
<1>0. channel \in [last : 0..MaxSeq, marker : 0..MaxSeq] /\ log \subseteq Frame
      /\ \A f \in log : f.seq <= channel.last
  BY DEF TypeInv, KeyTypeOK
<1>1. content' \in Key /\ thumb' = None /\ fresh' = {}
  BY DEF CommitData
<1>2. ASSUME NEW f \in log, NEW saved \in BOOLEAN
      PROVE  [f EXCEPT !.saved = saved] \in Frame /\ [f EXCEPT !.saved = saved].seq = f.seq
  <2> f \in Frame
    BY <1>0
  <2> QED
    BY DEF Frame
<1>3. CASE effect = "purge"
  BY <1>0, <1>1, <1>3 DEF CommitData
<1>4. CASE effect = "none"
  <2>1. channel' = channel /\ log' = {[f EXCEPT !.saved = FALSE] : f \in log}
    BY <1>4 DEF CommitData
  <2> QED
    BY <1>0, <1>1, <1>2, <2>1
<1>5. CASE effect # "purge" /\ effect # "none"
  <2>1. /\ channel' = [channel EXCEPT
                         !.marker = IF upTo < channel.last THEN upTo ELSE channel.last]
        /\ log' = {[f EXCEPT !.saved = who \in f.held] : f \in log}
    BY <1>5 DEF CommitData
  <2>2. \A g \in log' : \E f \in log : g = [f EXCEPT !.saved = who \in f.held]
    BY <2>1, Zenon
  <2>3. log' \subseteq Frame /\ \A g \in log' : g.seq <= channel.last
    <3> SUFFICES ASSUME NEW g \in log' PROVE g \in Frame /\ g.seq <= channel.last
      OBVIOUS
    <3>1. PICK f \in log : g = [f EXCEPT !.saved = who \in f.held]
      BY <2>2, Zenon
    <3>2. (who \in f.held) \in BOOLEAN
      OBVIOUS
    <3>3. PICK saved \in BOOLEAN : saved = (who \in f.held)
      BY <3>2
    <3>4. g = [f EXCEPT !.saved = saved]
      BY <3>1, <3>3
    <3> QED
      BY <3>4, <1>0, <1>2
  <2> QED
    BY <1>0, <1>1, <2>1, <2>3
<1> QED
  BY <1>3, <1>4, <1>5

LEMMA SaveShape ==
    ASSUME NEW v \in Save, v.pc \in {"captured", "gated", "sending"}
    PROVE  v.key \in Key /\ v.upTo \in 0..MaxSeq
BY DEF Save, Idle

(* So do saves, pages and their frames ...                                 *)
LEMMA PageTypes ==
    ASSUME TypeInv, NEW a \in Actors,
           \/ SaveFile(a) \/ PlanSave(a) \/ CommitSave(a) \/ OpenPage(a) \/ PostFrame(a)
           \/ SavePage(a) \/ SendPage(a) \/ ClosePage(a)
    PROVE  TypeInv'
<1> USE DEF TypeInv, KeyTypeOK, DevicesHoldKeys, None, Key, BlobVars, RoomVars
<1>0. /\ 0 \in 0..MaxSeq /\ Idle \in Save /\ save[a] \in Save
      /\ channel.last \in 0..MaxSeq
  BY KeyAssumption DEF Save
<1>1. CASE SaveFile(a)
  <2>1. local[a].key \in Key
    BY <1>1 DEF SaveFile, Entry
  <2>2. [pc |-> "gated", key |-> local[a].key, upTo |-> 0] \in Save
    BY <2>1, <1>0 DEF Save
  <2> QED
    BY <1>1, <2>2 DEF SaveFile
<1>2. CASE PlanSave(a)
  <2>1. save[a].key \in Key
    BY <1>2, <1>0, SaveShape DEF PlanSave
  <2>2. \A effect \in Effect :
          [pc |-> "sending", key |-> save[a].key, upTo |-> 0, effect |-> effect] \in Save
    BY <2>1, <1>0 DEF Save
  <2>3. (IF RoomEmpty THEN "purge" ELSE "none") \in Effect
    BY DEF Effect
  <2>4. save' \in [Actors -> Save]
    BY <1>2, <2>2, <2>3 DEF PlanSave
  <2> QED
    BY <1>2, <2>4 DEF PlanSave
<1>3. CASE CommitSave(a)
  <2>1. save[a].key \in Key /\ save[a].upTo \in 0..MaxSeq
    BY <1>3, <1>0, SaveShape DEF CommitSave
  <2>2. save' \in [Actors -> Save]
    BY <1>3, <1>0 DEF CommitSave
  <2>3. CASE <<a, "save">> \in fresh
    <3>1. CommitData(a, save[a].key, save[a].effect, save[a].upTo)
          /\ row' = [row EXCEPT !.meta = save[a].key]
      BY <1>3, <2>3 DEF CommitSave
    <3>2. /\ content' \in Key /\ thumb' = None /\ fresh' = {} /\ log' \subseteq Frame
          /\ channel' \in [last : 0..MaxSeq, marker : 0..MaxSeq]
          /\ \A f \in log' : f.seq <= channel'.last
      <4> HIDE DEF TypeInv
      <4> QED
        BY <3>1, <2>1, CommitTypes
    <3>3. row' \in [key : Key, meta : Key, epoch : Nat]
      BY <3>1, <2>1
    <3> QED
      BY <1>3, <2>2, <3>2, <3>3 DEF CommitSave
  <2>4. CASE <<a, "save">> \notin fresh
    BY <1>3, <2>2, <2>4 DEF CommitSave
  <2> QED
    BY <2>3, <2>4
<1>4. CASE OpenPage(a)
  BY <1>4 DEF OpenPage, Entry
<1>5. CASE PostFrame(a)
  <2>1. [seq |-> channel.last + 1, key |-> page[a], saved |-> FALSE, held |-> {}] \in Frame
    BY <1>5, KeyAssumption DEF PostFrame, Frame
  <2>2. channel' \in [last : 0..MaxSeq, marker : 0..MaxSeq] /\ channel'.last = channel.last + 1
    BY <1>5, KeyAssumption DEF PostFrame
  <2>3. \A f \in log' : f.seq <= channel'.last
    BY <1>5, <2>1, <2>2, KeyAssumption DEF PostFrame, Frame
  <2> QED
    BY <1>5, <2>1, <2>2, <2>3 DEF PostFrame
<1>6. CASE SavePage(a)
  <2>1. \A f \in log : /\ [f EXCEPT !.held = @ \cup {a}] \in Frame
                       /\ [f EXCEPT !.held = @ \cup {a}].seq = f.seq
    BY DEF Frame
  <2>2. log' \subseteq Frame /\ \A f \in log' : f.seq <= channel.last
    <3> SUFFICES ASSUME NEW g \in log' PROVE g \in Frame /\ g.seq <= channel.last
      OBVIOUS
    <3>1. PICK f \in log : g = [f EXCEPT !.held = @ \cup {a}]
      BY <1>6 DEF SavePage
    <3> QED
      BY <2>1, <3>1
  <2>3. [pc |-> "captured", key |-> page[a], upTo |-> channel.last] \in Save
    BY <1>6, <1>0 DEF SavePage, Save
  <2>4. save' \in [Actors -> Save]
    BY <1>6, <2>3 DEF SavePage
  <2> QED
    BY <1>6, <2>2, <2>4 DEF SavePage
<1>7. CASE SendPage(a)
  <2>1. save[a].key \in Key /\ save[a].upTo \in 0..MaxSeq
    BY <1>7, <1>0, SaveShape DEF SendPage
  <2>2. [pc |-> "sending", key |-> save[a].key, upTo |-> save[a].upTo, effect |-> "content"]
          \in Save
    BY <2>1 DEF Save, Effect
  <2>3. save' \in [Actors -> Save] /\ fresh' \subseteq Actors \X {"save", "rotation"}
    BY <1>7, <1>0, <2>2 DEF SendPage
  <2> QED
    BY <1>7, <2>3 DEF SendPage
<1>8. CASE ClosePage(a)
  BY <1>8 DEF ClosePage
<1> QED
  BY <1>1, <1>2, <1>3, <1>4, <1>5, <1>6, <1>7, <1>8

(* ... and the requests of a rotation.                                     *)
LEMMA RotationTypes ==
    ASSUME TypeInv, NEW d \in Devices,
           \/ BackfillThumb(d) \/ StartRotate(d) \/ OfferContent(d) \/ PlanContent(d)
           \/ PutContent(d) \/ OpenThumb(d) \/ PutThumb(d)
           \/ PatchKey(d) \/ ListMembers(d) \/ Rekey(d) \/ StopRotate(d)
    PROVE  TypeInv'
<1> USE DEF TypeInv, KeyTypeOK, DevicesHoldKeys, None, Key, BlobVars, RoomVars, RotationRest
<1> d \in Actors
  BY DEF Actors
<1>0. Idle \in Rotation /\ rot[d] \in Rotation
  BY IdleIsTyped
<1>1. CASE BackfillThumb(d)
  BY <1>1 DEF BackfillThumb, Entry
<1>2. CASE StartRotate(d)
  <2>1. [pc |-> "started", old |-> local[d].key, new |-> minted + 1, epoch |-> local[d].epoch,
         thumb |-> local[d].thumb, effect |-> "none"] \in Rotation
    BY <1>2, KeyAssumption DEF StartRotate, Entry, Rotation, Effect
  <2>2. rot' \in [Devices -> Rotation] /\ minted' \in Key
    BY <1>2, <2>1, KeyAssumption DEF StartRotate
  <2> QED
    BY <1>2, <2>2 DEF StartRotate
<1>9. CASE OfferContent(d)
  <2>1. [rot[d] EXCEPT !.pc = "gated"] \in Rotation
    BY <1>9, <1>0, RotationShape DEF OfferContent
  <2>2. rot' \in [Devices -> Rotation] /\ fresh' \subseteq Actors \X {"save", "rotation"}
    BY <1>9, <2>1 DEF OfferContent
  <2> QED
    BY <1>9, <2>2 DEF OfferContent
<1>10. CASE PlanContent(d)
  <2>1. \A effect \in Effect : [rot[d] EXCEPT !.pc = "sending", !.effect = effect] \in Rotation
    BY <1>10, <1>0, RotationShape DEF PlanContent
  <2>2. PICK effect : effect = IF RoomEmpty THEN "purge" ELSE "none"
    OBVIOUS
  <2>3. effect \in Effect
    BY <2>2 DEF Effect
  <2>4. rot' = [rot EXCEPT ![d].pc = "sending", ![d].effect = effect]
    BY <1>10, <2>2, Zenon DEF PlanContent
  <2>5. rot' \in [Devices -> Rotation]
    BY <2>1, <2>3, <2>4
  <2> QED
    BY <1>10, <2>5 DEF PlanContent
<1>3. CASE PutContent(d)
  <2>0. rot[d].pc = "sending"
    BY <1>3 DEF PutContent
  <2>1. rot[d].new \in Key /\ [rot[d] EXCEPT !.pc = "put"] \in Rotation /\ 0 \in 0..MaxSeq
    <3> HIDE DEF TypeInv, KeyTypeOK, Key
    <3>1. rot[d].new \in Key /\ [rot[d] EXCEPT !.pc = "put"] \in Rotation
      BY <2>0, <1>0, RotationShape
    <3> QED
      BY <3>1, KeyAssumption
  <2>2. rot' \in [Devices -> Rotation]
    BY <1>3, <1>0, <2>1 DEF PutContent
  <2>3. CASE <<d, "rotation">> \in fresh
    <3>1. CommitData(d, rot[d].new, rot[d].effect, 0)
      BY <1>3, <2>3 DEF PutContent
    <3>2. /\ content' \in Key /\ thumb' = None /\ fresh' = {} /\ log' \subseteq Frame
          /\ channel' \in [last : 0..MaxSeq, marker : 0..MaxSeq]
          /\ \A f \in log' : f.seq <= channel'.last
      <4> HIDE DEF TypeInv
      <4> QED
        BY <3>1, <2>1, CommitTypes
    <3> QED
      BY <1>3, <2>2, <3>2 DEF PutContent
  <2>4. CASE <<d, "rotation">> \notin fresh
    BY <1>3, <2>2, <2>4 DEF PutContent
  <2> QED
    BY <2>3, <2>4
<1>11. CASE OpenThumb(d)
  <2>1. \A pc \in {"thumbed", "opened"} : [rot[d] EXCEPT !.pc = pc] \in Rotation
    BY <1>11, <1>0, RotationShape DEF OpenThumb
  <2>2. rot' \in [Devices -> Rotation]
    BY <1>11, <1>0, <2>1 DEF OpenThumb
  <2> QED
    BY <1>11, <2>2 DEF OpenThumb
<1>4. CASE PutThumb(d)
  <2>1. rot[d].new \in Key /\ [rot[d] EXCEPT !.pc = "thumbed"] \in Rotation
    BY <1>4, <1>0, RotationShape DEF PutThumb
  <2>2. thumb' \in Key \cup {None} /\ rot' \in [Devices -> Rotation]
    BY <1>4, <2>1 DEF PutThumb
  <2> QED
    BY <1>4, <2>2 DEF PutThumb
<1>5. CASE PatchKey(d)
  <2>1. rot[d].new \in Key /\ [rot[d] EXCEPT !.pc = "patched"] \in Rotation
    BY <1>5, <1>0, RotationShape DEF PatchKey
  <2>2. rot' \in [Devices -> Rotation] /\ owed' \in BOOLEAN
    BY <1>5, <2>1 DEF PatchKey
  <2>3. row' \in [key : Key, meta : Key, epoch : Nat]
    BY <1>5, <2>1 DEF PatchKey
  <2>4. local' \in [Actors -> Entry] /\ \A e \in Devices : local'[e].key # None
    BY <1>5, <2>1 DEF PatchKey, Entry
  <2> QED
    BY <1>5, <2>2, <2>3, <2>4 DEF PatchKey
<1>6. CASE ListMembers(d)
  <2>1. rot[d].new \in Key /\ rot[d].epoch \in Nat
    BY <1>6, <1>0, RotationShape DEF ListMembers
  <2>2. [pc |-> "listed", new |-> rot[d].new, epoch |-> rot[d].epoch + 1, to |-> Active]
          \in Rotation
    BY <2>1 DEF Rotation, Active
  <2>3. rot' \in [Devices -> Rotation]
    BY <1>6, <1>0, <2>2 DEF ListMembers
  <2>4. owed' \in BOOLEAN
    BY <1>6 DEF ListMembers
  <2> QED
    BY <1>6, <2>3, <2>4 DEF ListMembers
<1>7. CASE Rekey(d)
  <2>1. rot[d].new \in Key /\ rot[d].epoch \in Nat
    BY <1>7, <1>0, ListedShape DEF Rekey
  <2>2. member' \in [Members -> [state : {"none", "active", "revoked"},
                                key : Key \cup {None}, epoch : Nat]]
    <3>1. \A m \in Members :
            [member[m] EXCEPT !.key = rot[d].new, !.epoch = rot[d].epoch]
              \in [state : {"none", "active", "revoked"}, key : Key \cup {None}, epoch : Nat]
      <4> TAKE m \in Members
      <4>1. member[m] \in [state : {"none", "active", "revoked"}, key : Key \cup {None},
                           epoch : Nat]
        OBVIOUS
      <4> QED
        BY <2>1, <4>1
    <3> QED
      BY <1>7, <3>1 DEF Rekey
  <2>3. rot' \in [Devices -> Rotation] /\ owed' \in BOOLEAN
    BY <1>7, <1>0 DEF Rekey
  <2>4. log' \subseteq Frame /\ \A f \in log' : f.seq <= channel'.last
    BY <1>7 DEF Rekey
  <2>5. channel' \in [last : 0..MaxSeq, marker : 0..MaxSeq]
    <3>1. 0 \in 0..MaxSeq
      BY KeyAssumption
    <3>2. channel' = [last |-> 0, marker |-> 0]
      BY <1>7 DEF Rekey
    <3> QED
      BY <3>1, <3>2
  <2> QED
    BY <1>7, <2>2, <2>3, <2>4, <2>5 DEF Rekey
<1>8. CASE StopRotate(d)
  BY <1>8, <1>0 DEF StopRotate
<1> QED
  BY <1>1, <1>2, <1>3, <1>4, <1>5, <1>6, <1>7, <1>8, <1>9, <1>10, <1>11

LEMMA TypeStep == TypeInv /\ [Next]_vars => TypeInv'
<1>1. CASE UNCHANGED vars
  BY <1>1 DEF vars, TypeInv, KeyTypeOK, DevicesHoldKeys
<1> QED
  <2>1. Savers \subseteq Actors
    BY KeyAssumption DEF Actors
  <2> QED
    BY <1>1, <2>1, MemberTypes, PageTypes, RotationTypes DEF Next

LEMMA TypeInit == Init => TypeInv
<1> SUFFICES ASSUME Init PROVE TypeInv
  OBVIOUS
<1> USE KeyAssumption DEF Init, None, Key
<1>1. local \in [Actors -> Entry] /\ DevicesHoldKeys
  BY DEF Actors, Entry, DevicesHoldKeys
<1>2. rot \in [Devices -> Rotation] /\ owed \in BOOLEAN
  BY IdleIsTyped
<1>3. /\ row \in [key : Key, meta : Key, epoch : Nat]
      /\ save \in [Actors -> Save]
  BY DEF Save
<1>4. member \in [Members -> [state : {"none", "active", "revoked"},
                             key : Key \cup {None}, epoch : Nat]]
  OBVIOUS
<1> QED
  BY <1>1, <1>2, <1>3, <1>4 DEF TypeInv, KeyTypeOK

(* Every variable keeps its type, whatever mishaps there are.              *)
THEOREM KeyTypeCorrect == Spec => []KeyTypeOK
<1>1. Spec => []TypeInv
  BY TypeInit, TypeStep, PTL DEF Spec
<1> QED
  BY <1>1, PTL DEF TypeInv

-----------------------------------------------------------------------------
(* Removed members *)

(* While a member's row is dead no step writes its key.                    *)
LEMMA DeadRowKeepsKey ==
    ASSUME TypeInv, [Next]_vars, NEW m \in Members,
           member[m].state = "revoked", member'[m].state = "revoked"
    PROVE  member'[m].key = member[m].key
<1> member \in [Members -> [state : {"none", "active", "revoked"},
                            key : Key \cup {None}, epoch : Nat]]
  BY DEF TypeInv, KeyTypeOK
<1>1. ASSUME NEW n \in Members, Remove(n) \/ Leave(n) PROVE member'[m].key = member[m].key
  BY <1>1 DEF Remove, Leave
<1>2. ASSUME NEW d \in Devices, CommitGrant(d) PROVE member'[m].key = member[m].key
  BY <1>2 DEF CommitGrant
<1>3. ASSUME NEW d \in Devices, Rekey(d) PROVE member'[m].key = member[m].key
  BY <1>3 DEF Rekey
<1>4. CASE member' = member
  BY <1>4
<1>5. ASSUME NEW n \in Members, Claim(n) PROVE member' = member
  BY <1>5 DEF Claim
<1>6. ASSUME NEW d \in Devices, NEW n \in Members, SealGrant(d, n) PROVE member' = member
  BY <1>6 DEF SealGrant
<1>7. ASSUME NEW a \in Actors,
             \/ Sync(a) \/ SaveFile(a) \/ PlanSave(a) \/ CommitSave(a) \/ OpenPage(a)
             \/ PostFrame(a) \/ SavePage(a) \/ SendPage(a) \/ ClosePage(a)
      PROVE  member' = member
  BY <1>7 DEF Sync, SaveFile, PlanSave, CommitSave, OpenPage, PostFrame, SavePage, SendPage,
     ClosePage
<1>8. ASSUME NEW d \in Devices,
             \/ BackfillThumb(d) \/ StartRotate(d) \/ OfferContent(d) \/ PlanContent(d)
             \/ PutContent(d) \/ OpenThumb(d) \/ PutThumb(d)
             \/ PatchKey(d) \/ ListMembers(d) \/ StopRotate(d)
      PROVE  member' = member
  BY <1>8 DEF BackfillThumb, StartRotate, OfferContent, PlanContent, PutContent, OpenThumb,
     PutThumb, PatchKey, ListMembers, StopRotate, RotationRest
<1>9. CASE UNCHANGED vars
  BY <1>9 DEF vars
<1> QED
  <2> Savers \subseteq Actors
    BY KeyAssumption DEF Actors
  <2> QED
    BY <1>1, <1>2, <1>3, <1>4, <1>5, <1>6, <1>7, <1>8, <1>9 DEF Next

(* A removed member is sealed nothing more, whatever list a rotation read  *)
(* before the removal.                                                     *)
THEOREM RemovedMembersStayOut == Spec => RemovedStaysOut
<1>1. TypeInv /\ [Next]_vars =>
        [\A m \in Members : (member[m].state = "revoked" /\ member'[m].state = "revoked")
            => member'[m].key = member[m].key]_vars
  BY DeadRowKeepsKey
<1> QED
  BY <1>1, TypeInit, TypeStep, PTL DEF Spec, RemovedStaysOut

-----------------------------------------------------------------------------
(* Keys and epochs *)

LEMMA NamesStep ==
    ASSUME TypeInv, NamesInv, [Next]_vars, "grants" \notin Mishaps
    PROVE  NamesInv'
<1>types. /\ rot \in [Devices -> Rotation]
          /\ row \in [key : Key, meta : Key, epoch : Nat]
          /\ local \in [Actors -> Entry] /\ Devices \subseteq Actors
          /\ \A a \in Actors : local[a].epoch \in Nat
          /\ member \in [Members -> [state : {"none", "active", "revoked"},
                                     key : Key \cup {None}, epoch : Nat]]
          /\ grant \in [Devices -> {Idle} \cup [pc : {"sealed"}, to : Members, key : Key]]
  BY DEF TypeInv, KeyTypeOK, Entry, Actors
<1>savers. Savers \subseteq Actors
  BY KeyAssumption DEF Actors
<1>apart. ~May("grants")
  BY DEF May
<1>idle. \A d \in Devices : rot[d].pc = "idle" <=> rot[d] = Idle
  BY <1>types DEF Rotation, Idle
<1>epochs. \A d \in Devices :
              rot[d].pc \in Upward \cup {"patched", "listed"} => rot[d].epoch \in Nat
  <2> TAKE d \in Devices
  <2>1. rot[d] \in Rotation
    BY <1>types
  <2>2. CASE rot[d].pc = "listed"
    BY <2>1, <2>2, ListedShape
  <2>3. CASE rot[d].pc \in Upward \cup {"patched"}
    BY <2>1, <2>3, RotationShape DEF Upward
  <2> QED
    BY <2>2, <2>3
<1>same. ASSUME UNCHANGED <<member, local, grant, rot>>, row'.key = row.key,
                row'.epoch = row.epoch
         PROVE  NamesInv'
  BY <1>same DEF NamesInv, EpochNamesKey, Active, DeviceNames, Rotating
(* What a step of one device's rotation keeps of every other device.       *)
<1>steady. ASSUME NEW d \in Devices, UNCHANGED <<row, local, grant, member>>,
                  rot[d] # Idle, \A e \in Devices \ {d} : rot'[e] = rot[e],
                  \/ rot'[d] = Idle
                  \/ /\ rot[d].pc \in Upward /\ rot'[d].pc \in Upward
                     /\ rot'[d].epoch = rot[d].epoch
           PROVE  NamesInv'
  <2>1. \A e \in Devices : DeviceNames(e)'
    <3> SUFFICES ASSUME NEW e \in Devices PROVE DeviceNames(e)'
      OBVIOUS
    <3>1. grant[e] = Idle
      BY <1>steady DEF NamesInv, DeviceNames, Rotating
    <3>2. CASE e = d
      BY <1>steady, <3>1, <3>2 DEF NamesInv, DeviceNames, Upward, Idle
    <3>3. CASE e # d
      BY <1>steady, <3>1, <3>3 DEF NamesInv, DeviceNames
    <3> QED
      BY <3>2, <3>3
  <2> QED
    BY <1>steady, <2>1 DEF NamesInv, EpochNamesKey, Active
<1>1. ASSUME NEW m \in Members, Claim(m) PROVE NamesInv'
  BY <1>1, <1>same DEF Claim, BlobVars
<1>2. ASSUME NEW m \in Members, Remove(m) \/ Leave(m) PROVE NamesInv'
  <2>1. /\ UNCHANGED <<row, local, grant, rot>>
        /\ member' = [member EXCEPT ![m].state = "revoked"]
    BY <1>2 DEF Remove, Leave, BlobVars
  <2>2. /\ Active' \subseteq Active
        /\ \A n \in Members : member'[n].epoch = member[n].epoch /\ member'[n].key = member[n].key
    BY <2>1, <1>types DEF Active
  <2>3. \A d \in Devices : DeviceNames(d)'
    BY <2>1 DEF NamesInv, DeviceNames, Rotating
  <2> QED
    BY <2>1, <2>2, <2>3 DEF NamesInv, EpochNamesKey, Active
<1>3. ASSUME NEW d \in Devices, NEW m \in Members, GrantsApart(d), SealGrant(d, m)
      PROVE  NamesInv'
  <2>1. /\ local[d].key = row.key /\ Rotating = {}
        /\ grant' = [grant EXCEPT ![d] = [pc |-> "sealed", to |-> m, key |-> local[d].key]]
        /\ UNCHANGED <<row, member, local, rot>>
    BY <1>3, <1>apart DEF SealGrant, GrantsApart, BlobVars
  <2>2. /\ \A e \in Devices : e # d => grant'[e] = grant[e]
        /\ grant'[d].key = row.key
    BY <2>1, <1>types
  <2> QED
    BY <2>1, <2>2 DEF NamesInv, EpochNamesKey, Active, DeviceNames, Rotating
<1>4. ASSUME NEW d \in Devices, CommitGrant(d) PROVE NamesInv'
  <2>1. /\ grant[d].key = row.key /\ UNCHANGED <<row, local, rot>>
        /\ \A e \in Devices : grant'[e] = Idle \/ grant'[e] = grant[e]
    BY <1>4, <1>types DEF CommitGrant, BlobVars, NamesInv, DeviceNames
  <2>2. \A n \in Members : \/ member'[n] = member[n]
                           \/ member'[n].epoch = row.epoch /\ member'[n].key = row.key
    BY <1>4, <2>1, <1>types DEF CommitGrant
  <2>3. \A e \in Devices : DeviceNames(e)'
    BY <2>1 DEF NamesInv, DeviceNames, Rotating
  <2> QED
    BY <2>1, <2>2, <2>3, <1>types DEF NamesInv, EpochNamesKey, Active
<1>5. ASSUME NEW a \in Actors, Sync(a) PROVE NamesInv'
  <2>1. /\ UNCHANGED <<row, member, grant, rot>>
        /\ \A e \in Devices : \/ local'[e] = local[e]
                              \/ local'[e].key = row.key /\ local'[e].epoch = row.epoch
    BY <1>5, <1>types DEF Sync, BlobVars
  <2> QED
    BY <2>1, <1>types DEF NamesInv, EpochNamesKey, Active, Rotating, DeviceNames
<1>6. ASSUME NEW a \in Actors,
             \/ SaveFile(a) \/ PlanSave(a) \/ CommitSave(a) \/ OpenPage(a) \/ PostFrame(a)
             \/ SavePage(a) \/ SendPage(a) \/ ClosePage(a)
      PROVE  NamesInv'
  <2>1. UNCHANGED <<member, local, grant, rot>>
    BY <1>6 DEF SaveFile, PlanSave, CommitSave, OpenPage, PostFrame, SavePage, SendPage, ClosePage
  <2>2. row'.key = row.key /\ row'.epoch = row.epoch
    BY <1>6, <1>types DEF SaveFile, PlanSave, CommitSave, OpenPage, PostFrame, SavePage, SendPage,
       ClosePage, BlobVars
  <2> QED
    BY <2>1, <2>2, <1>same
<1>7. ASSUME NEW d \in Devices, BackfillThumb(d) PROVE NamesInv'
  BY <1>7, <1>same DEF BackfillThumb
<1>8. ASSUME NEW d \in Devices, RotationsApart, StartRotate(d) PROVE NamesInv'
  <2>1. /\ \A e \in Devices : grant[e] = Idle
        /\ rot' = [rot EXCEPT ![d] = [pc |-> "started", old |-> local[d].key, new |-> minted + 1,
                     epoch |-> local[d].epoch, thumb |-> local[d].thumb, effect |-> "none"]]
        /\ UNCHANGED <<row, member, local, grant>>
    BY <1>8, <1>apart DEF StartRotate, RotationsApart, BlobVars, RotationRest
  <2>2. /\ \A e \in Devices : e # d => rot'[e] = rot[e]
        /\ rot'[d].pc = "started" /\ rot'[d].epoch = local[d].epoch
    BY <2>1, <1>types
  <2>3. \A e \in Devices : DeviceNames(e)'
    BY <2>1, <2>2 DEF NamesInv, DeviceNames, Upward
  <2> QED
    BY <2>1, <2>3 DEF NamesInv, EpochNamesKey, Active
<1>9. ASSUME NEW d \in Devices,
             \/ OfferContent(d) \/ PlanContent(d) \/ PutContent(d) \/ OpenThumb(d) \/ PutThumb(d)
             \/ StopRotate(d)
      PROVE  NamesInv'
  <2>1. UNCHANGED <<row, local, grant, member>>
    BY <1>9 DEF OfferContent, PlanContent, PutContent, OpenThumb, PutThumb, StopRotate, BlobVars,
       RotationRest
  <2>2. rot[d] # Idle
    BY <1>9 DEF OfferContent, PlanContent, PutContent, OpenThumb, PutThumb, StopRotate, Idle
  <2>3. \A e \in Devices \ {d} : rot'[e] = rot[e]
    BY <1>9, <1>types DEF OfferContent, PlanContent, PutContent, OpenThumb, PutThumb, StopRotate
  <2>4. ASSUME rot[d].pc \in Upward, NEW pc \in Upward, rot' = [rot EXCEPT ![d].pc = pc]
        PROVE  rot'[d].pc \in Upward /\ rot'[d].epoch = rot[d].epoch
    <3>1. rot[d] \in [pc : {"started", "gated", "sending", "put", "opened", "thumbed", "patched"},
                     old : Key, new : Key, epoch : Nat, thumb : BOOLEAN, effect : Effect]
      BY <2>4, <1>types, RotationShape DEF Upward
    <3> QED
      BY <2>4, <3>1, <1>types
  <2>5. \/ rot'[d] = Idle
        \/ rot[d].pc \in Upward /\ rot'[d].pc \in Upward /\ rot'[d].epoch = rot[d].epoch
    <3>1. CASE OfferContent(d)
      BY <3>1, <2>4 DEF OfferContent, Upward
    <3>2. CASE PlanContent(d)
      <4>1. PICK effect : effect = IF RoomEmpty THEN "purge" ELSE "none"
        OBVIOUS
      <4>2. rot' = [rot EXCEPT ![d].pc = "sending", ![d].effect = effect]
        BY <3>2, <4>1, Zenon DEF PlanContent
      <4>3. rot[d] \in [pc : {"started", "gated", "sending", "put", "opened", "thumbed", "patched"},
                       old : Key, new : Key, epoch : Nat, thumb : BOOLEAN, effect : Effect]
        BY <3>2, <1>types, RotationShape DEF PlanContent
      <4> QED
        BY <3>2, <4>2, <4>3, <1>types DEF PlanContent, Upward
    <3>3. CASE PutContent(d)
      <4>1. \/ rot' = [rot EXCEPT ![d].pc = "put"] \/ rot' = [rot EXCEPT ![d] = Idle]
        BY <3>3 DEF PutContent
      <4> QED
        BY <3>3, <4>1, <2>4, <1>types DEF PutContent, Upward
    <3>4. CASE OpenThumb(d)
      <4>1. \/ rot' = [rot EXCEPT ![d].pc = "thumbed"] \/ rot' = [rot EXCEPT ![d].pc = "opened"]
            \/ rot' = [rot EXCEPT ![d] = Idle]
        BY <3>4 DEF OpenThumb
      <4> QED
        BY <3>4, <4>1, <2>4, <1>types DEF OpenThumb, Upward
    <3>5. CASE PutThumb(d)
      BY <3>5, <2>4 DEF PutThumb, Upward
    <3>6. CASE StopRotate(d)
      BY <3>6, <1>types DEF StopRotate
    <3> QED
      BY <1>9, <3>1, <3>2, <3>3, <3>4, <3>5, <3>6
  <2> QED
    BY <2>1, <2>2, <2>3, <2>5, <1>steady
<1>10. ASSUME NEW d \in Devices, PatchKey(d) PROVE NamesInv'
  <2>1. /\ rot[d].pc = "thumbed" /\ row'.key = rot[d].new /\ row'.epoch = row.epoch + 1
        /\ rot' = [rot EXCEPT ![d].pc = "patched"]
        /\ local' = [local EXCEPT ![d] = [key |-> rot[d].new, epoch |-> row.epoch + 1,
                                          thumb |-> thumb # None]]
        /\ UNCHANGED <<member, grant>>
    BY <1>10 DEF PatchKey, RotationRest
  <2>2. rot'[d].pc = "patched" /\ rot'[d].new = rot[d].new /\ rot'[d].epoch = rot[d].epoch
        /\ \A e \in Devices : e # d => rot'[e] = rot[e]
    <3>1. rot[d] \in [pc : {"started", "gated", "sending", "put", "opened", "thumbed", "patched"},
                     old : Key, new : Key, epoch : Nat, thumb : BOOLEAN, effect : Effect]
      BY <2>1, <1>types, RotationShape
    <3> QED
      BY <2>1, <3>1, <1>types
  <2>3. /\ local'[d].key = rot[d].new /\ local'[d].epoch = row.epoch + 1
        /\ \A e \in Devices : e # d => local'[e] = local[e]
    BY <2>1, <1>types
  <2>4. \A e \in Devices : grant[e] = Idle
    BY <2>1, <1>idle DEF NamesInv, DeviceNames, Rotating, Idle
  <2>5. \A e \in Devices : DeviceNames(e)'
    <3> SUFFICES ASSUME NEW e \in Devices PROVE DeviceNames(e)'
      OBVIOUS
    <3>1. CASE e = d
      BY <2>1, <2>2, <2>3, <2>4, <3>1, <1>types, <1>epochs DEF NamesInv, DeviceNames, Upward
    <3>2. CASE e # d
      BY <2>1, <2>2, <2>3, <2>4, <3>2, <1>types, <1>epochs DEF NamesInv, DeviceNames, Upward
    <3> QED
      BY <3>1, <3>2
  <2>6. \A m \in Members : member'[m].epoch < row'.epoch
    BY <2>1, <1>types DEF NamesInv
  <2> QED
    BY <2>1, <2>5, <2>6, <1>types DEF NamesInv, EpochNamesKey, Active
<1>11. ASSUME NEW d \in Devices, ListMembers(d) PROVE NamesInv'
  <2>1. /\ rot[d].pc = "patched" /\ UNCHANGED <<row, member, local, grant>>
        /\ \/ rot' = [rot EXCEPT ![d] = Idle]
           \/ rot' = [rot EXCEPT ![d] = [pc |-> "listed", new |-> rot[d].new,
                                         epoch |-> rot[d].epoch + 1, to |-> Active]]
    BY <1>11 DEF ListMembers, BlobVars, RotationRest
  <2>2. /\ \A e \in Devices : e # d => rot'[e] = rot[e]
        /\ \/ rot'[d] = Idle
           \/ /\ rot'[d].pc = "listed" /\ rot'[d].new = rot[d].new
              /\ rot'[d].epoch = rot[d].epoch + 1
    BY <2>1, <1>types
  <2>3. \A e \in Devices : grant[e] = Idle
    BY <2>1, <1>idle DEF NamesInv, DeviceNames, Rotating, Idle
  <2>4. \A e \in Devices : DeviceNames(e)'
    BY <2>1, <2>2, <2>3 DEF NamesInv, DeviceNames, Upward, Idle
  <2> QED
    BY <2>1, <2>4 DEF NamesInv, EpochNamesKey, Active
<1>12. ASSUME NEW d \in Devices, Rekey(d) PROVE NamesInv'
  <2>1. /\ rot[d].pc = "listed" /\ rot' = [rot EXCEPT ![d] = Idle]
        /\ UNCHANGED <<row, local, grant>>
    BY <1>12 DEF Rekey, BlobVars
  <2>2. /\ rot[d].epoch <= row.epoch
        /\ rot[d].epoch = row.epoch => rot[d].new = row.key
    BY <2>1 DEF NamesInv, DeviceNames
  <2>3. \A m \in Members :
          \/ member'[m] = member[m]
          \/ member'[m].key = rot[d].new /\ member'[m].epoch = rot[d].epoch
    BY <1>12, <1>types DEF Rekey
  <2>4. \A m \in Active' : m \in Active
    BY <1>12, <1>types DEF Rekey, Active
  <2>5. rot'[d] = Idle /\ \A e \in Devices : e # d => rot'[e] = rot[e]
    BY <2>1, <1>types
  <2>6. \A e \in Devices : grant[e] = Idle
    BY <2>1, <1>idle DEF NamesInv, DeviceNames, Rotating, Idle
  <2>7. \A e \in Devices : DeviceNames(e)'
    BY <2>1, <2>5, <2>6 DEF NamesInv, DeviceNames, Upward, Idle
  <2> QED
    BY <2>1, <2>2, <2>3, <2>4, <2>7 DEF NamesInv, EpochNamesKey, Active
<1>13. CASE UNCHANGED vars
  BY <1>13, <1>same DEF vars
<1> QED
  BY <1>savers, <1>1, <1>2, <1>3, <1>4, <1>5, <1>6, <1>7, <1>8, <1>9, <1>10, <1>11, <1>12, <1>13
  DEF Next

(* Who is at the row's epoch holds the row's key, however many devices     *)
(* rotate at a time, stop, or start from entries that are behind, and      *)
(* whatever is saved meanwhile.  Grants that a rotation overtakes are left *)
(* out: they break it.                                                     *)
THEOREM EpochsNameKeys ==
    ASSUME "grants" \notin Mishaps
    PROVE  Spec => []EpochNamesKey
<1>1. Init => NamesInv
  <2> SUFFICES ASSUME Init PROVE NamesInv
    OBVIOUS
  <2>1. \A d \in Devices : /\ rot[d] = Idle /\ grant[d] = Idle
                           /\ local[d].key = 1 /\ local[d].epoch = 0
    BY DEF Init, Actors
  <2>2. \A d \in Devices : DeviceNames(d)
    BY <2>1 DEF Init, DeviceNames, Idle, Upward
  <2> QED
    BY <2>2 DEF Init, NamesInv, EpochNamesKey, Active
<1>2. TypeInv /\ NamesInv /\ [Next]_vars => NamesInv'
  BY NamesStep
<1>3. Spec => [](TypeInv /\ NamesInv)
  BY <1>1, <1>2, TypeInit, TypeStep, PTL DEF Spec
<1> QED
  BY <1>3, PTL DEF NamesInv
=============================================================================
