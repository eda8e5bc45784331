------------------------- MODULE ContentStoreProofs -------------------------
(***************************************************************************)
(* What TLAPS proves of ContentStore for every number of requests,         *)
(* connections, posts, versions and generations: types, the names of       *)
(* blobs, the blobs behind the rows, and the document channel.             *)
(***************************************************************************)
EXTENDS ContentStoreInv, FiniteSetTheorems, WellFoundedInduction, TLAPS

-----------------------------------------------------------------------------
(* Type correctness *)

(* An idle slot holds a request of the right shape. *)
LEMMA IdleType == Idle \in Request
BY DEF Idle, Request, Phases, Kinds, SaveKinds, Plans

(* So does a handler that is left with blobs to remove. *)
LEMMA RemovingType ==
    ASSUME NEW stale \in SUBSET Nat, NEW staleThumb \in BOOLEAN
    PROVE  RemovingOrDone(stale, staleThumb) \in Request
BY IdleType DEF RemovingOrDone, Idle, Request, Phases, Kinds, SaveKinds, Plans

(* The channel's row and log keep their types through a commit. *)
LEMMA CommitChannelType ==
    ASSUME channel \in ChannelRow, log \subseteq Nat,
           NEW plan, NEW gen \in Nat, NEW upTo \in Nat, NEW last \in Nat,
           CommitChannel(plan, gen, upTo, last)
    PROVE  channel' \in ChannelRow /\ log' \subseteq Nat
BY DEF CommitChannel, AtMost, ChannelRow

(* What a transaction found in channel_state is a position and a plan.     *)
LEMMA ReadTypes ==
    ASSUME channel \in ChannelRow, NEW r, req[r] \in Request
    PROVE  LastRead(r) \in Nat /\ PlanKept(r) \in Plans
BY DEF LastRead, PlanKept, ChannelRow, Request, Plans

(* Every plan a save is given is one of the four. *)
LEMMA ChannelPlanType ==
    ASSUME NEW kind, NEW alone
    PROVE  ChannelPlan(kind, alone) \in Plans
BY DEF ChannelPlan, Plans

(* No step takes a variable out of its type. *)
LEMMA TypeStep == TypeOK /\ [Next]_vars => TypeOK'
<1> SUFFICES ASSUME TypeOK, [Next]_vars PROVE TypeOK'
  OBVIOUS
<1> USE ConstantsAssumption
<1>types. /\ file \in FileRow /\ versions \subseteq Nat /\ blobs \subseteq Nat
          /\ thumbBlob \in BOOLEAN /\ sessions \subseteq Session
          /\ channel \in ChannelRow /\ log \subseteq Nat /\ unlogged \subseteq Nat
          /\ live \subseteq Conns /\ req \in [Requests -> Request]
  BY DEF TypeOK
<1>1. ASSUME NEW r \in Requests, UploadStep(r) PROVE TypeOK'
  <2>req. req[r] \in Request
    BY <1>types
  <2>1. ASSUME NEW kind \in SaveKinds, NEW upTo \in 0..MaxPosts,
               StartSave(r, kind, upTo)
        PROVE  TypeOK'
    <3>1. [Idle EXCEPT !.pc = "read", !.kind = kind, !.upTo = upTo,
                       !.base = file.generation, !.baseUp = file.uploaded]
             \in Request
      <4>1. upTo \in Nat
        OBVIOUS
      <4> QED
        BY <4>1, <1>types DEF FileRow, Idle, Request, Phases, Kinds, SaveKinds, Plans
    <3> QED
      BY <2>1, <3>1, <1>types DEF TypeOK, StartSave, blobVars, chanVars
  <2>2. ASSUME NEW alone \in BOOLEAN, PlanSave(r, alone) PROVE TypeOK'
    <3>1. PICK n \in 1..MaxMint :
            /\ file' = [file EXCEPT !.minted = n]
            /\ req' = [req EXCEPT
                  ![r].pc = "streaming", ![r].gen = n,
                  ![r].plan = ChannelPlan(req[r].kind, alone)]
      BY <2>2 DEF PlanSave
    <3>2. file' \in FileRow
      BY <3>1, <1>types DEF FileRow
    <3>3. [req[r] EXCEPT !.pc = "streaming", !.gen = n,
                         !.plan = ChannelPlan(req[r].kind, alone)] \in Request
      <4>1. n \in Nat /\ ChannelPlan(req[r].kind, alone) \in Plans
        BY ChannelPlanType
      <4> QED
        BY <2>req, <4>1 DEF Request, Phases
    <3> QED
      BY <2>2, <3>1, <3>2, <3>3, <1>types DEF TypeOK, PlanSave, blobVars, chanVars
  <2>3. ASSUME PutBytes(r) PROVE TypeOK'
    BY <2>3, <1>types, <2>req DEF TypeOK, PutBytes, chanVars, Request, Phases
  <2>4. ASSUME Commit(r) PROVE TypeOK'
    <3> DEFINE plan == PlanKept(r)
               displaced == IF req[r].baseUp THEN {file.generation} ELSE {}
               keeps == MaxVersions > 0 /\ plan # "content"
               rows == IF keeps THEN versions \cup displaced ELSE versions
               dropped == IF keeps THEN {} ELSE displaced
    <3>1. /\ versions' = Retained(rows)
          /\ file' = [file EXCEPT !.generation = req[r].gen, !.uploaded = TRUE,
                                  !.thumb = @ /\ ~req[r].baseUp]
          /\ CommitChannel(plan, req[r].gen, req[r].upTo, LastRead(r))
          /\ sessions' = IF req[r].kind = "complete"
                         THEN {s \in sessions : s.gen # req[r].gen}
                         ELSE sessions
          /\ req' = [req EXCEPT ![r] =
                        RemovingOrDone(dropped \cup (rows \ Retained(rows)),
                                       req[r].baseUp /\ file.thumb)]
          /\ UNCHANGED <<blobVars, unlogged, live>>
      BY <2>4 DEF Commit
    <3>2. file.generation \in Nat /\ file.thumb \in BOOLEAN
          /\ req[r].gen \in Nat /\ req[r].upTo \in Nat /\ req[r].baseUp \in BOOLEAN
      BY <1>types, <2>req DEF FileRow, Request
    <3>3. rows \subseteq Nat /\ Retained(rows) \subseteq rows /\ dropped \subseteq Nat
      BY <1>types, <3>2 DEF Retained
    <3> HIDE DEF plan, keeps, rows, dropped
    <3>4. RemovingOrDone(dropped \cup (rows \ Retained(rows)),
                         req[r].baseUp /\ file.thumb) \in Request
      BY <3>2, <3>3, RemovingType
    <3>5. channel' \in ChannelRow /\ log' \subseteq Nat
      BY <3>1, <3>2, <1>types, <2>req, ReadTypes, CommitChannelType
    <3>6. file' \in FileRow
      BY <3>1, <3>2, <1>types DEF FileRow
    <3>7. req' \in [Requests -> Request]
      BY <3>1, <3>4, <1>types
    <3> QED
      BY <3>1, <3>3, <3>5, <3>6, <3>7, <1>types DEF TypeOK, blobVars
  <2>5. ASSUME RefuseCommit(r) PROVE TypeOK'
    BY <2>5, <1>types, <2>req
    DEF TypeOK, RefuseCommit, blobVars, chanVars, Request, Phases
  <2>6. ASSUME RemoveOwnBlob(r) PROVE TypeOK'
    BY <2>6, <1>types, IdleType DEF TypeOK, RemoveOwnBlob, Finish, chanVars
  <2>7. ASSUME StartThumb(r) PROVE TypeOK'
    BY <2>7, <1>types
    DEF TypeOK, StartThumb, blobVars, chanVars, Idle, Request, Phases, Kinds,
        SaveKinds, Plans
  <2>8. ASSUME PutThumb(r) PROVE TypeOK'
    BY <2>8, <1>types, <2>req DEF TypeOK, PutThumb, chanVars, Request, Phases
  <2>9. ASSUME CommitThumb(r) PROVE TypeOK'
    BY <2>9, <1>types, IdleType
    DEF TypeOK, CommitThumb, Finish, blobVars, chanVars, FileRow
  <2>10. ASSUME BeginParts(r) PROVE TypeOK'
    BY <2>10, <1>types
    DEF TypeOK, BeginParts, blobVars, chanVars, FileRow, Idle, Request, Phases,
        Kinds, SaveKinds, Plans
  <2>11. ASSUME MintParts(r) PROVE TypeOK'
    <3>1. PICK n \in 1..MaxMint :
            /\ file' = [file EXCEPT !.minted = n]
            /\ req' = [req EXCEPT ![r].pc = "streaming", ![r].gen = n]
      BY <2>11 DEF MintParts
    <3>2. file' \in FileRow
      BY <3>1, <1>types DEF FileRow
    <3>3. [req[r] EXCEPT !.pc = "streaming", !.gen = n] \in Request
      <4>1. n \in Nat
        OBVIOUS
      <4> QED
        BY <2>req, <4>1 DEF Request, Phases
    <3> QED
      BY <2>11, <3>1, <3>2, <3>3, <1>types
      DEF TypeOK, MintParts, blobVars, chanVars
  <2>12. ASSUME InsertSession(r) PROVE TypeOK'
    <3>1. [gen |-> req[r].gen, base |-> req[r].base, baseUp |-> req[r].baseUp,
           full |-> FALSE] \in Session
      BY <2>req DEF Request, Session
    <3> QED
      BY <2>12, <3>1, <1>types, IdleType
      DEF TypeOK, InsertSession, Finish, blobVars, chanVars
  <2>13. ASSUME AssembleParts(r) PROVE TypeOK'
    <3>1. sessions' \subseteq Session
      BY <2>13, <1>types DEF AssembleParts, Session
    <3> QED
      BY <2>13, <3>1, <1>types, <2>req
      DEF TypeOK, AssembleParts, chanVars, Request, Phases
  <2>14. ASSUME PlanComplete(r) PROVE TypeOK'
    BY <2>14, <1>types, <2>req, ChannelPlanType
    DEF TypeOK, PlanComplete, blobVars, chanVars, Request, Phases
  <2>15. ASSUME NEW s \in sessions, StartComplete(r, s) PROVE TypeOK'
    <3>1. s \in Session
      BY <1>types
    <3>2. CASE ~file.deleted /\ s.base = file.generation /\ s.baseUp = file.uploaded
      <4>1. [Idle EXCEPT !.pc = "streaming", !.kind = "complete", !.gen = s.gen,
                         !.base = s.base, !.baseUp = s.baseUp] \in Request
        BY <3>1 DEF Session, Idle, Request, Phases, Kinds, SaveKinds, Plans
      <4> QED
        BY <2>15, <3>2, <4>1, <1>types
        DEF TypeOK, StartComplete, blobVars, chanVars
    <3>3. CASE ~(~file.deleted /\ s.base = file.generation
                 /\ s.baseUp = file.uploaded)
      BY <2>15, <3>3, <1>types DEF TypeOK, StartComplete, blobVars, chanVars
    <3> QED
      BY <3>2, <3>3
  <2>16. ASSUME ReadPosition(r) PROVE TypeOK'
    <3>1. PICK plan \in Plans :
            req' = [req EXCEPT ![r].pc = "claimed", ![r].seen = channel.last,
                               ![r].plan = plan]
      BY <2>16, <2>req DEF ReadPosition, Request, Plans
    <3>2. [req[r] EXCEPT !.pc = "claimed", !.seen = channel.last,
                         !.plan = plan] \in Request
      BY <1>types, <2>req DEF Request, Phases, ChannelRow
    <3>3. req' \in [Requests -> Request]
      BY <3>1, <3>2, <1>types
    <3>4. UNCHANGED <<file, versions, blobs, thumbBlob, sessions, channel, log,
                      unlogged, live>>
      BY <2>16 DEF ReadPosition, blobVars, chanVars
    <3> QED
      BY <3>3, <3>4, <1>types DEF TypeOK
  <2> QED
    BY <1>1, <2>1, <2>2, <2>3, <2>4, <2>5, <2>6, <2>7, <2>8, <2>9, <2>10, <2>11,
       <2>12, <2>13, <2>14, <2>15, <2>16 DEF UploadStep
<1>2. ASSUME NEW r \in Requests, HistoryStep(r) PROVE TypeOK'
  <2>req. req[r] \in Request
    BY <1>types
  <2>1. ASSUME NEW target \in 0..MaxMint, StartRestore(r, target) PROVE TypeOK'
    <3>1. [Idle EXCEPT !.pc = "read", !.kind = "restore", !.plan = "purge",
                       !.gen = target, !.base = file.generation, !.staleThumb = file.thumb]
             \in Request
      <4>1. target \in Nat
        OBVIOUS
      <4> QED
        BY <4>1, <1>types DEF FileRow, Idle, Request, Phases, Kinds, SaveKinds, Plans
    <3> QED
      BY <2>1, <3>1, <1>types DEF TypeOK, StartRestore, blobVars, chanVars
  <2>2. ASSUME SwapPointer(r) PROVE TypeOK'
    <3>1. req[r].gen \in Nat /\ req[r].base \in Nat /\ req[r].staleThumb \in BOOLEAN
      BY <2>req DEF Request
    <3>2. channel' \in ChannelRow /\ log' \subseteq Nat
      BY <2>2, <3>1, <1>types, <2>req, ReadTypes, CommitChannelType DEF SwapPointer
    <3>3. RemovingOrDone({}, req[r].staleThumb) \in Request
      BY <3>1, RemovingType
    <3> QED
      BY <2>2, <3>1, <3>2, <3>3, <1>types DEF TypeOK, SwapPointer, blobVars, FileRow
  <2>3. ASSUME VersionNotFound(r) PROVE TypeOK'
    BY <2>3, <1>types, IdleType
    DEF TypeOK, VersionNotFound, Finish, blobVars, chanVars
  <2>4. ASSUME StartDelete(r) PROVE TypeOK'
    <3>1. versions \cup {file.generation} \in SUBSET Nat
      BY <1>types DEF FileRow
    <3>2. [Idle EXCEPT !.pc = "read", !.kind = "delete",
                       !.stale = versions \cup {file.generation},
                       !.staleThumb = TRUE] \in Request
      BY <3>1 DEF Idle, Request, Phases, Kinds, SaveKinds, Plans
    <3> QED
      BY <2>4, <3>2, <1>types DEF TypeOK, StartDelete, blobVars, chanVars
  <2>5. ASSUME DeleteForever(r) PROVE TypeOK'
    <3>1. RemovingOrDone(req[r].stale, req[r].staleThumb) \in Request
      BY <2>req, RemovingType DEF Request
    <3> QED
      BY <2>5, <3>1, <1>types
      DEF TypeOK, DeleteForever, blobVars, chanVars, FileRow
  <2>6. ASSUME NEW g \in req[r].stale, RemoveStaleBlob(r, g) PROVE TypeOK'
    <3>1. RemovingOrDone(req[r].stale \ {g}, req[r].staleThumb) \in Request
      BY <2>req, RemovingType DEF Request
    <3> QED
      BY <2>6, <3>1, <1>types DEF TypeOK, RemoveStaleBlob, chanVars
  <2>7. ASSUME RemoveStaleThumb(r) PROVE TypeOK'
    <3>1. RemovingOrDone(req[r].stale, FALSE) \in Request
      BY <2>req, RemovingType DEF Request
    <3> QED
      BY <2>7, <3>1, <1>types DEF TypeOK, RemoveStaleThumb, chanVars
  <2> QED
    BY <1>2, <2>1, <2>2, <2>3, <2>4, <2>5, <2>6, <2>7 DEF HistoryStep
<1>3. ASSUME NEW r \in Requests, Crash(r) PROVE TypeOK'
  BY <1>3, <1>types, IdleType DEF TypeOK, Crash, Finish, blobVars, chanVars
<1>4. ASSUME NEW s \in sessions, FillSession(s) \/ DropSession(s) PROVE TypeOK'
  BY <1>4, <1>types
  DEF TypeOK, FillSession, DropSession, blobVars, chanVars, Session
<1>5. ASSUME NEW value \in BOOLEAN, SetTrashed(value) PROVE TypeOK'
  BY <1>5, <1>types DEF TypeOK, SetTrashed, blobVars, chanVars, FileRow
<1>6. ASSUME ChannelStep PROVE TypeOK'
  <2>1. ASSUME NEW c \in Conns, Join(c) \/ Leave(c) PROVE TypeOK'
    BY <2>1, <1>types DEF TypeOK, Join, Leave, blobVars, ChannelRow
  <2>2. ASSUME NEW c \in Conns, NextChannelSeq(c) PROVE TypeOK'
    <3>1. channel' \in ChannelRow /\ unlogged' \subseteq Nat
      BY <2>2, <1>types DEF NextChannelSeq, ChannelRow
    <3> QED
      BY <2>2, <3>1, <1>types DEF TypeOK, NextChannelSeq, blobVars
  <2>3. ASSUME NEW s \in unlogged, InsertMessage(s) \/ LoseMessage(s)
        PROVE  TypeOK'
    BY <2>3, <1>types DEF TypeOK, InsertMessage, LoseMessage, blobVars
  <2> QED
    BY <1>6, <2>1, <2>2, <2>3 DEF ChannelStep
<1>7. CASE UNCHANGED vars
  BY <1>7, <1>types DEF TypeOK, vars, blobVars, chanVars
<1> QED
  BY <1>1, <1>2, <1>3, <1>4, <1>5, <1>6, <1>7 DEF Next

(* The initial states are well typed. *)
LEMMA InitType == ASSUME Init PROVE TypeOK
<1>1. file \in FileRow /\ blobs \subseteq Nat /\ versions \subseteq Nat
  <2>1. CASE \E up \in BOOLEAN :
               /\ file = [generation |-> 0, uploaded |-> up, minted |-> 0,
                          thumb |-> FALSE, trashed |-> FALSE, deleted |-> FALSE]
               /\ blobs = IF up THEN {0} ELSE {}
               /\ versions = {}
    BY <2>1 DEF FileRow
  <2>2. CASE \E g \in Legacy :
               /\ file = [generation |-> g, uploaded |-> TRUE, minted |-> 0,
                          thumb |-> FALSE, trashed |-> FALSE, deleted |-> FALSE]
               /\ blobs = {g - 1, g}
               /\ versions = {g - 1}
    BY <2>2, ConstantsAssumption DEF FileRow
  <2> QED
    BY <2>1, <2>2 DEF Init
<1>2. channel \in ChannelRow
  BY DEF Init, ChannelRow
<1>3. req \in [Requests -> Request]
  BY IdleType DEF Init
<1> QED
  BY <1>1, <1>2, <1>3 DEF Init, TypeOK

(* Every variable keeps its type, in every instance of the model. *)
THEOREM TypeCorrect == Spec => []TypeOK
<1>1. Init => TypeOK
  BY InitType
<1> QED
  BY <1>1, TypeStep, PTL DEF Spec

-----------------------------------------------------------------------------
(* Names: no two holders of one generation *)

(* A step that mints nothing and gives nobody a generation keeps Names: it  *)
(* may drop holders, forget rows, file what a restore had read, and read a  *)
(* row for a new restore.                                                   *)
LEMMA NamesUndisturbed ==
    ASSUME TypeOK, TypeOK', Names,
           file'.minted = file.minted,
           \A g \in Pointed' :
              g \in Pointed \/ \E r \in Requests : Restoring(r) /\ req[r].base = g,
           \A r \in Requests : Restoring(r)' =>
              \/ Restoring(r) /\ req'[r].base = req[r].base
              \/ req'[r].base \in Pointed,
           \A r \in Requests : Writing(r)' =>
              Writing(r) /\ req'[r].gen = req[r].gen /\ req'[r].kind = req[r].kind,
           \A s \in sessions' : \E t \in sessions : t.gen = s.gen
    PROVE  Names'
<1>1. KnownAreMinted'
  BY DEF Names, KnownAreMinted
<1>2. HeldAreMinted'
  BY DEF Names, HeldAreMinted
<1>3. HeldByOne'
  BY DEF Names, HeldByOne
<1>4. HeldAreUnknown'
  <2>1. ASSUME NEW g, g \in Pointed' \/ \E r \in Requests :
                         Restoring(r)' /\ req'[r].base = g
        PROVE  g \in Pointed \/ \E r \in Requests : Restoring(r) /\ req[r].base = g
    BY <2>1
  <2>2. ASSUME NEW r \in Requests, Writing(r)'
        PROVE  /\ req'[r].gen \notin Pointed'
               /\ \A other \in Requests :
                     Restoring(other)' => req'[other].base # req'[r].gen
    BY <2>1, <2>2 DEF Names, HeldAreUnknown
  <2>3. ASSUME NEW s \in sessions'
        PROVE  /\ s.gen \notin Pointed'
               /\ \A other \in Requests :
                     Restoring(other)' => req'[other].base # s.gen
    BY <2>1, <2>3 DEF Names, HeldAreUnknown
  <2> QED
    BY <2>2, <2>3 DEF HeldAreUnknown
<1> QED
  BY <1>1, <1>2, <1>3, <1>4 DEF Names

(* The allocator hands out a number above everything known and held, when   *)
(* no restore is in flight or the allocator already covers all that is known. *)
LEMMA NamesMinted ==
    ASSUME TypeOK, TypeOK', Names, NEW r \in Requests, NEW n \in Nat,
           IsNextGeneration(n),
           ~Writing(r), ~Restoring(r),
           file.minted > 0 \/ Legacy = {}
              \/ \A other \in Requests : ~Restoring(other),
           file' = [file EXCEPT !.minted = n],
           versions' = versions, sessions' = sessions,
           req'[r].gen = n, ~Restoring(r)',
           \A other \in Requests \ {r} : req'[other] = req[other]
    PROVE  Names'
<1>1. /\ file'.minted = n /\ file'.generation = file.generation
      /\ Pointed' = Pointed /\ file.minted < n
      /\ \A g \in Pointed : g < n
      /\ file.minted \in Nat /\ Pointed \subseteq Nat
  BY DEF TypeOK, FileRow, Pointed, IsNextGeneration
<1>2. \A other \in Requests : Restoring(other) => req[other].base < n
  <2>1. CASE file.minted > 0 \/ Legacy = {}
    BY <1>1, <2>1 DEF Names, KnownAreMinted, TypeOK, Request
  <2>2. CASE \A other \in Requests : ~Restoring(other)
    BY <2>2
  <2> QED
    BY <2>1, <2>2
<1>3. /\ \A other \in Requests : Writing(other) => req[other].gen < n
      /\ \A s \in sessions : s.gen < n
  BY <1>1 DEF Names, HeldAreMinted, TypeOK, Request, Session
<1>4. \A other \in Requests \ {r} :
        /\ Writing(other)' <=> Writing(other)
        /\ Restoring(other)' <=> Restoring(other)
  BY DEF Writing, Restoring
<1>5. KnownAreMinted'
  BY <1>1, <1>2, <1>4 DEF KnownAreMinted, TypeOK, Request
<1>6. HeldAreMinted'
  BY <1>1, <1>3, <1>4 DEF Names, HeldAreMinted, TypeOK, Request, Session
<1>7. HeldByOne'
  BY <1>3, <1>4 DEF Names, HeldByOne
<1>8. HeldAreUnknown'
  BY <1>1, <1>2, <1>4 DEF Names, HeldAreUnknown
<1> QED
  BY <1>5, <1>6, <1>7, <1>8 DEF Names

(* The number the allocator computes is the one it hands to the request.    *)
LEMMA PlanSaveNames ==
    ASSUME Isolated \/ Legacy = {}, TypeOK, TypeOK', Names,
           NEW r \in Requests, NEW alone \in BOOLEAN, PlanSave(r, alone)
    PROVE  Names'
<1>1. PICK n \in 1..MaxMint :
        /\ IsNextGeneration(n)
        /\ file' = [file EXCEPT !.minted = n]
        /\ req' = [req EXCEPT ![r].pc = "streaming", ![r].gen = n,
                              ![r].plan = ChannelPlan(req[r].kind, alone)]
  BY DEF PlanSave
<1>2. /\ req[r].pc = "read" /\ req[r].kind \in SaveKinds /\ MayRun(r)
      /\ versions' = versions /\ sessions' = sessions
  BY DEF PlanSave
<1>3. ~Writing(r) /\ ~Restoring(r)
  BY <1>2 DEF Writing, Restoring, SaveKinds
<1>4. Legacy = {} \/ \A other \in Requests : ~Restoring(other)
  BY <1>2, <1>3 DEF MayRun, InSegment, Restoring
<1>5. /\ req'[r].gen = n /\ req'[r].pc = "streaming"
      /\ \A other \in Requests \ {r} : req'[other] = req[other]
  BY <1>1 DEF TypeOK, Request
<1>6. ~Restoring(r)' /\ n \in Nat
  BY <1>5 DEF Restoring
<1> QED
  BY <1>1, <1>2, <1>3, <1>4, <1>5, <1>6, NamesMinted

(* The same of the generation a part session is begun with.                 *)
LEMMA MintPartsNames ==
    ASSUME Isolated \/ Legacy = {}, TypeOK, TypeOK', Names,
           NEW r \in Requests, MintParts(r)
    PROVE  Names'
<1>1. PICK n \in 1..MaxMint :
        /\ IsNextGeneration(n)
        /\ file' = [file EXCEPT !.minted = n]
        /\ req' = [req EXCEPT ![r].pc = "streaming", ![r].gen = n]
  BY DEF MintParts
<1>2. /\ req[r].pc = "sweeping" /\ MayRun(r)
      /\ versions' = versions /\ sessions' = sessions
  BY DEF MintParts
<1>3. ~Writing(r) /\ ~Restoring(r)
  BY <1>2 DEF Writing, Restoring
<1>4. Legacy = {} \/ \A other \in Requests : ~Restoring(other)
  BY <1>2, <1>3 DEF MayRun, InSegment, Restoring
<1>5. /\ req'[r].gen = n /\ req'[r].pc = "streaming"
      /\ \A other \in Requests \ {r} : req'[other] = req[other]
  BY <1>1 DEF TypeOK, Request
<1>6. ~Restoring(r)' /\ n \in Nat
  BY <1>5 DEF Restoring
<1> QED
  BY <1>1, <1>2, <1>3, <1>4, <1>5, <1>6, NamesMinted

(* A begin hands its generation over to the session row and forgets it.     *)
LEMMA InsertSessionNames ==
    ASSUME TypeOK, TypeOK', Names, NEW r \in Requests, InsertSession(r)
    PROVE  Names'
<1>1. /\ req[r].pc = "streaming" /\ req[r].kind = "begin"
      /\ file' = file /\ versions' = versions /\ Pointed' = Pointed
      /\ req'[r] = Idle
      /\ \A other \in Requests \ {r} : req'[other] = req[other]
  BY DEF InsertSession, Finish, TypeOK, Pointed
<1>2. Writing(r) /\ ~Writing(r)' /\ ~Restoring(r)'
  BY <1>1 DEF Writing, Restoring, Idle
<1>3. \A s \in sessions' : s \in sessions \/ s.gen = req[r].gen
  BY DEF InsertSession
<1>4. \A other \in Requests \ {r} :
        /\ Writing(other)' <=> Writing(other)
        /\ Restoring(other)' <=> Restoring(other)
  BY <1>1 DEF Writing, Restoring
<1>5. KnownAreMinted'
  BY <1>1, <1>2, <1>4 DEF Names, KnownAreMinted
<1>6. HeldAreMinted'
  BY <1>1, <1>2, <1>3, <1>4 DEF Names, HeldAreMinted
<1>7. HeldByOne'
  BY <1>1, <1>2, <1>3, <1>4 DEF Names, HeldByOne
<1>8. HeldAreUnknown'
  BY <1>1, <1>2, <1>3, <1>4 DEF Names, HeldAreUnknown
<1> QED
  BY <1>5, <1>6, <1>7, <1>8 DEF Names

(* A completion takes up the session's generation, and nobody else is doing *)
(* so: this is where two overlapping completions would break Names.         *)
LEMMA StartCompleteNames ==
    ASSUME ~DuplicateCompletes, TypeOK, TypeOK', Names,
           NEW r \in Requests, NEW s \in sessions, StartComplete(r, s),
           ~file.deleted, s.base = file.generation, s.baseUp = file.uploaded
    PROVE  Names'
<1>a. /\ req' = [req EXCEPT ![r] =
                     [Idle EXCEPT !.pc = "streaming", !.kind = "complete",
                                  !.gen = s.gen, !.base = s.base,
                                  !.baseUp = s.baseUp]]
      /\ UNCHANGED <<file, versions, sessions>>
      /\ \A other \in Requests : ~Completes(other, s)
  BY DEF StartComplete
<1>1. /\ file' = file /\ versions' = versions /\ sessions' = sessions
      /\ Pointed' = Pointed
      /\ req'[r].gen = s.gen /\ req'[r].kind = "complete"
      /\ \A other \in Requests \ {r} : req'[other] = req[other]
      /\ \A other \in Requests : ~Completes(other, s)
  BY <1>a DEF TypeOK, Pointed, Idle
<1>2. ~Restoring(r)'
  BY <1>1 DEF Restoring
<1>3. \A other \in Requests \ {r} :
        /\ Writing(other)' <=> Writing(other)
        /\ Restoring(other)' <=> Restoring(other)
  BY <1>1 DEF Writing, Restoring
<1>4. \A other \in Requests : Writing(other) => req[other].gen # s.gen
  BY <1>1 DEF Names, HeldByOne, Completes
<1>5. KnownAreMinted'
  BY <1>1, <1>2, <1>3 DEF Names, KnownAreMinted
<1>6. HeldAreMinted'
  BY <1>1, <1>3 DEF Names, HeldAreMinted
<1>7. HeldByOne'
  BY <1>1, <1>3, <1>4 DEF Names, HeldByOne
<1>8. HeldAreUnknown'
  BY <1>1, <1>2, <1>3 DEF Names, HeldAreUnknown
<1> QED
  BY <1>5, <1>6, <1>7, <1>8 DEF Names

(* A commit makes its generation known in the step that stops holding it.   *)
LEMMA CommitNames ==
    ASSUME TypeOK, TypeOK', Names, NEW r \in Requests, Commit(r)
    PROVE  Names'
<1>1. /\ req[r].pc \in {"stored", "claimed"}
      /\ req[r].kind \in SaveKinds \cup {"complete"}
      /\ file'.generation = req[r].gen /\ file'.minted = file.minted
      /\ versions' \subseteq versions \cup {file.generation}
      /\ sessions' \subseteq sessions
      /\ req[r].kind = "complete" => \A s \in sessions' : s.gen # req[r].gen
      /\ \A other \in Requests \ {r} : req'[other] = req[other]
  BY DEF Commit, TypeOK, FileRow, Retained
<1>2. Pointed' \subseteq Pointed \cup {req[r].gen}
  BY <1>1 DEF Pointed
<1>3. Writing(r)
  BY <1>1 DEF Writing
<1>4. req'[r].pc \in {"idle", "removing"}
  BY DEF Commit, TypeOK, RemovingOrDone, Idle
<1>5. ~Writing(r)' /\ ~Restoring(r)'
  BY <1>4 DEF Writing, Restoring
<1>6. \A other \in Requests \ {r} :
        /\ Writing(other)' <=> Writing(other)
        /\ Restoring(other)' <=> Restoring(other)
  BY <1>1 DEF Writing, Restoring
<1>7. \A s \in sessions' : s \in sessions /\ s.gen # req[r].gen
  BY <1>1, <1>3 DEF Names, HeldByOne, SaveKinds
<1>8. KnownAreMinted'
  BY <1>1, <1>2, <1>3, <1>5, <1>6
  DEF Names, KnownAreMinted, HeldAreMinted, TypeOK, FileRow, Request
<1>9. HeldAreMinted'
  BY <1>1, <1>5, <1>6 DEF Names, HeldAreMinted
<1>10. HeldByOne'
  BY <1>1, <1>5, <1>6 DEF Names, HeldByOne
<1>11. HeldAreUnknown'
  BY <1>1, <1>2, <1>3, <1>5, <1>6, <1>7 DEF Names, HeldAreUnknown, HeldByOne
<1> QED
  BY <1>8, <1>9, <1>10, <1>11 DEF Names

(* The common case: one request moves on without taking up a generation.    *)
LEMMA NamesOneRequest ==
    ASSUME TypeOK, TypeOK', Names, NEW r \in Requests,
           file'.minted = file.minted,
           \A g \in Pointed' :
              g \in Pointed \/ (Restoring(r) /\ req[r].base = g),
           \A s \in sessions' : \E t \in sessions : t.gen = s.gen,
           \A other \in Requests \ {r} : req'[other] = req[other],
           Writing(r)' =>
              Writing(r) /\ req'[r].gen = req[r].gen /\ req'[r].kind = req[r].kind,
           Restoring(r)' => req'[r].base \in Pointed
    PROVE  Names'
<1>1. \A other \in Requests \ {r} :
        /\ Writing(other)' <=> Writing(other)
        /\ Restoring(other)' <=> Restoring(other)
  BY DEF Writing, Restoring
<1>2. \A g \in Pointed' :
        g \in Pointed \/ \E other \in Requests : Restoring(other) /\ req[other].base = g
  OBVIOUS
<1>3. \A other \in Requests : Restoring(other)' =>
        \/ Restoring(other) /\ req'[other].base = req[other].base
        \/ req'[other].base \in Pointed
  BY <1>1
<1>4. \A other \in Requests : Writing(other)' =>
        Writing(other) /\ req'[other].gen = req[other].gen
                       /\ req'[other].kind = req[other].kind
  BY <1>1
<1> QED
  BY <1>2, <1>3, <1>4, NamesUndisturbed

(* A request that comes to rest, or has only removals left, holds nothing.  *)
LEMMA NamesAtRest ==
    ASSUME TypeOK, TypeOK', Names, NEW r \in Requests,
           file'.minted = file.minted,
           \A g \in Pointed' :
              g \in Pointed \/ (Restoring(r) /\ req[r].base = g),
           sessions' = sessions,
           NEW stale, NEW staleThumb,
           \/ req' = [req EXCEPT ![r] = Idle]
           \/ req' = [req EXCEPT ![r] = RemovingOrDone(stale, staleThumb)]
    PROVE  Names'
<1>1. \A other \in Requests \ {r} : req'[other] = req[other]
  BY DEF TypeOK
<1>2. req'[r].pc \in {"idle", "removing"}
  <2>1. Idle.pc = "idle"
    BY DEF Idle
  <2>2. RemovingOrDone(stale, staleThumb).pc \in {"idle", "removing"}
    BY <2>1 DEF RemovingOrDone, Idle
  <2> QED
    BY <2>1, <2>2 DEF TypeOK
<1>3. ~Writing(r)' /\ ~Restoring(r)'
  BY <1>2 DEF Writing, Restoring
<1> QED
  BY <1>1, <1>3, NamesOneRequest

(* Steps of no request of the model leave the holders as they are.          *)
LEMMA NamesNoRequest ==
    ASSUME TypeOK, TypeOK', Names, req' = req, versions' = versions,
           file'.minted = file.minted, file'.generation = file.generation,
           \A s \in sessions' : \E t \in sessions : t.gen = s.gen
    PROVE  Names'
<1>1. /\ Pointed' = Pointed
      /\ \A r \in Requests : (Writing(r)' <=> Writing(r))
                             /\ (Restoring(r)' <=> Restoring(r))
  BY DEF Pointed, Writing, Restoring
<1> QED
  BY <1>1, NamesUndisturbed

(* Names is inductive. *)
LEMMA NamesStep ==
    ASSUME ~DuplicateCompletes, Isolated \/ Legacy = {},
           TypeOK, TypeOK', Names, [Next]_vars
    PROVE  Names'
<1>1. ASSUME NEW r \in Requests, UploadStep(r) PROVE Names'
  <2>1. ASSUME NEW kind \in SaveKinds, NEW upTo \in 0..MaxPosts,
               StartSave(r, kind, upTo)
        PROVE  Names'
    <3>1. /\ file' = file /\ Pointed' = Pointed /\ sessions' = sessions
          /\ \A other \in Requests \ {r} : req'[other] = req[other]
          /\ req'[r].pc = "read" /\ req'[r].kind = kind
      BY <2>1 DEF StartSave, TypeOK, Pointed, Idle
    <3>2. ~Writing(r)' /\ ~Restoring(r)'
      BY <3>1 DEF Writing, Restoring, SaveKinds
    <3> QED
      BY <3>1, <3>2, NamesOneRequest
  <2>2. ASSUME NEW alone \in BOOLEAN, PlanSave(r, alone) PROVE Names'
    BY <2>2, PlanSaveNames
  <2>3. ASSUME PutBytes(r) \/ RefuseCommit(r) \/ PlanComplete(r) PROVE Names'
    <3>1. /\ file' = file /\ Pointed' = Pointed /\ sessions' = sessions
          /\ \A other \in Requests \ {r} : req'[other] = req[other]
          /\ Writing(r) /\ req'[r].pc \in {"stored", "refused"}
          /\ req'[r].gen = req[r].gen /\ req'[r].kind = req[r].kind
      <4>1. CASE PutBytes(r)
        BY <4>1 DEF PutBytes, TypeOK, Pointed, Writing, Request
      <4>2. CASE RefuseCommit(r)
        BY <4>2 DEF RefuseCommit, TypeOK, Pointed, Writing, Request
      <4>3. CASE PlanComplete(r)
        BY <4>3 DEF PlanComplete, TypeOK, Pointed, Writing, Request
      <4> QED
        BY <2>3, <4>1, <4>2, <4>3
    <3>2. ~Restoring(r)'
      BY <3>1 DEF Restoring
    <3> QED
      BY <3>1, <3>2, NamesOneRequest
  <2>4. ASSUME Commit(r) PROVE Names'
    BY <2>4, CommitNames
  <2>5. ASSUME RemoveOwnBlob(r) \/ CommitThumb(r) PROVE Names'
    <3>1. /\ Pointed' = Pointed /\ sessions' = sessions /\ file'.minted = file.minted
          /\ req' = [req EXCEPT ![r] = Idle]
      BY <2>5 DEF RemoveOwnBlob, CommitThumb, Finish, TypeOK, Pointed, FileRow
    <3> QED
      BY <3>1, NamesAtRest
  <2>6. ASSUME StartThumb(r) \/ PutThumb(r) PROVE Names'
    <3>1. /\ file' = file /\ Pointed' = Pointed /\ sessions' = sessions
          /\ \A other \in Requests \ {r} : req'[other] = req[other]
          /\ req'[r].kind = "thumb"
      <4>1. CASE StartThumb(r)
        BY <4>1 DEF StartThumb, TypeOK, Pointed, Idle
      <4>2. CASE PutThumb(r)
        BY <4>2 DEF PutThumb, TypeOK, Pointed, Request
      <4> QED
        BY <2>6, <4>1, <4>2
    <3>2. ~Writing(r)' /\ ~Restoring(r)'
      BY <3>1 DEF Writing, Restoring, SaveKinds
    <3> QED
      BY <3>1, <3>2, NamesOneRequest
  <2>7. ASSUME BeginParts(r) PROVE Names'
    <3>1. /\ file' = file /\ Pointed' = Pointed /\ sessions' = {}
          /\ \A other \in Requests \ {r} : req'[other] = req[other]
          /\ req'[r].pc = "sweeping"
      BY <2>7 DEF BeginParts, TypeOK, Pointed, Idle
    <3>2. ~Writing(r)' /\ ~Restoring(r)'
      BY <3>1 DEF Writing, Restoring
    <3> QED
      BY <3>1, <3>2, NamesOneRequest
  <2>8. ASSUME MintParts(r) PROVE Names'
    BY <2>8, MintPartsNames
  <2>9. ASSUME InsertSession(r) PROVE Names'
    BY <2>9, InsertSessionNames
  <2>10. ASSUME AssembleParts(r) PROVE Names'
    <3>1. /\ file' = file /\ Pointed' = Pointed
          /\ \A other \in Requests \ {r} : req'[other] = req[other]
          /\ Writing(r) /\ req'[r].pc = "assembled"
          /\ req'[r].gen = req[r].gen /\ req'[r].kind = req[r].kind
      BY <2>10 DEF AssembleParts, TypeOK, Pointed, Writing, Request
    <3>2. \A s \in sessions' : \E t \in sessions : t.gen = s.gen
      BY <2>10 DEF AssembleParts, TypeOK, Session
    <3>3. ~Restoring(r)'
      BY <3>1 DEF Restoring
    <3> QED
      BY <3>1, <3>2, <3>3, NamesOneRequest
  <2>11. ASSUME NEW s \in sessions, StartComplete(r, s) PROVE Names'
    <3>1. CASE ~file.deleted /\ s.base = file.generation /\ s.baseUp = file.uploaded
      BY <2>11, <3>1, StartCompleteNames
    <3>2. CASE ~(~file.deleted /\ s.base = file.generation
                 /\ s.baseUp = file.uploaded)
      <4>1. /\ file' = file /\ versions' = versions /\ req' = req
            /\ sessions' \subseteq sessions
        BY <2>11, <3>2 DEF StartComplete
      <4> QED
        BY <4>1, NamesNoRequest
    <3> QED
      BY <3>1, <3>2
  <2>12. ASSUME ReadPosition(r) PROVE Names'
    <3>1. /\ file' = file /\ Pointed' = Pointed /\ sessions' = sessions
          /\ \A other \in Requests \ {r} : req'[other] = req[other]
          /\ \/ Writing(r) /\ ~Restoring(r)'
             \/ Restoring(r) /\ ~Writing(r)'
          /\ req'[r].gen = req[r].gen /\ req'[r].kind = req[r].kind
          /\ req'[r].base = req[r].base
      <4>1. /\ file' = file /\ Pointed' = Pointed /\ sessions' = sessions
            /\ \A other \in Requests \ {r} : req'[other] = req[other]
        BY <2>12 DEF ReadPosition, TypeOK, Pointed
      <4>2. PICK plan : req' = [req EXCEPT ![r].pc = "claimed",
                                           ![r].seen = channel.last, ![r].plan = plan]
        BY <2>12 DEF ReadPosition
      <4>3. /\ req'[r].gen = req[r].gen /\ req'[r].kind = req[r].kind
            /\ req'[r].base = req[r].base
        BY <4>2 DEF TypeOK, Request
      <4>4. CASE req[r].pc = "stored" /\ req[r].kind \in SaveKinds \cup {"complete"}
        BY <4>1, <4>3, <4>4 DEF Writing, Restoring, SaveKinds
      <4>5. CASE req[r].pc = "read" /\ req[r].kind = "restore"
        BY <4>1, <4>3, <4>5 DEF Writing, Restoring, SaveKinds
      <4> QED
        BY <2>12, <4>1, <4>3, <4>4, <4>5 DEF ReadPosition
    <3>2. CASE Writing(r) /\ ~Restoring(r)'
      BY <3>1, <3>2, NamesOneRequest
    <3>3. CASE Restoring(r) /\ ~Writing(r)'
      <4>1. \A other \in Requests : Restoring(other)' =>
              Restoring(other) /\ req'[other].base = req[other].base
        BY <3>1, <3>3 DEF Restoring
      <4>2. \A other \in Requests : Writing(other)' =>
              /\ Writing(other) /\ req'[other].gen = req[other].gen
              /\ req'[other].kind = req[other].kind
        BY <3>1, <3>3 DEF Writing
      <4> QED
        BY <3>1, <4>1, <4>2, NamesUndisturbed
    <3> QED
      BY <3>1, <3>2, <3>3
  <2> QED
    BY <1>1, <2>1, <2>2, <2>3, <2>4, <2>5, <2>6, <2>7, <2>8, <2>9, <2>10, <2>11,
       <2>12 DEF UploadStep
<1>2. ASSUME NEW r \in Requests, HistoryStep(r) PROVE Names'
  <2>1. ASSUME NEW target \in 0..MaxMint, StartRestore(r, target) PROVE Names'
    <3>1. /\ file' = file /\ Pointed' = Pointed /\ sessions' = sessions
          /\ \A other \in Requests \ {r} : req'[other] = req[other]
          /\ req'[r].pc = "read" /\ req'[r].kind = "restore"
          /\ req'[r].base = file.generation
      BY <2>1 DEF StartRestore, TypeOK, Pointed, Idle
    <3>2. ~Writing(r)' /\ file.generation \in Pointed
      BY <3>1 DEF Writing, SaveKinds, Pointed
    <3> QED
      BY <3>1, <3>2, NamesOneRequest
  <2>2. ASSUME SwapPointer(r) PROVE Names'
    <3>1. /\ Restoring(r) /\ req[r].gen \in versions
          /\ versions' \subseteq versions \cup {req[r].base}
          /\ file'.generation = req[r].gen /\ file'.minted = file.minted
          /\ sessions' = sessions
          /\ req' = [req EXCEPT ![r] = RemovingOrDone({}, req[r].staleThumb)]
      BY <2>2 DEF SwapPointer, TypeOK, FileRow, Restoring
    <3>2. \A g \in Pointed' : g \in Pointed \/ (Restoring(r) /\ req[r].base = g)
      BY <3>1 DEF Pointed
    <3> QED
      BY <3>1, <3>2, NamesAtRest
  <2>3. ASSUME VersionNotFound(r) PROVE Names'
    <3>1. /\ Pointed' = Pointed /\ sessions' = sessions /\ file' = file
          /\ req' = [req EXCEPT ![r] = Idle]
      BY <2>3 DEF VersionNotFound, Finish, Pointed
    <3> QED
      BY <3>1, NamesAtRest
  <2>4. ASSUME StartDelete(r) PROVE Names'
    <3>1. /\ file' = file /\ Pointed' = Pointed /\ sessions' = sessions
          /\ \A other \in Requests \ {r} : req'[other] = req[other]
          /\ req'[r].kind = "delete"
      BY <2>4 DEF StartDelete, TypeOK, Pointed, Idle
    <3>2. ~Writing(r)' /\ ~Restoring(r)'
      BY <3>1 DEF Writing, Restoring, SaveKinds
    <3> QED
      BY <3>1, <3>2, NamesOneRequest
  <2>5. ASSUME DeleteForever(r) PROVE Names'
    <3>1. /\ Pointed' \subseteq Pointed /\ sessions' = sessions
          /\ file'.minted = file.minted
          /\ req' = [req EXCEPT ![r] = RemovingOrDone(req[r].stale, req[r].staleThumb)]
      BY <2>5 DEF DeleteForever, TypeOK, FileRow, Pointed
    <3> QED
      BY <3>1, NamesAtRest
  <2>6. ASSUME NEW g \in req[r].stale, RemoveStaleBlob(r, g) PROVE Names'
    <3>1. /\ Pointed' = Pointed /\ sessions' = sessions /\ file' = file
          /\ req' = [req EXCEPT ![r] =
                        RemovingOrDone(req[r].stale \ {g}, req[r].staleThumb)]
      BY <2>6 DEF RemoveStaleBlob, Pointed, TypeOK
    <3> QED
      BY <3>1, NamesAtRest
  <2>7. ASSUME RemoveStaleThumb(r) PROVE Names'
    <3>1. /\ Pointed' = Pointed /\ sessions' = sessions /\ file' = file
          /\ req' = [req EXCEPT ![r] = RemovingOrDone(req[r].stale, FALSE)]
      BY <2>7 DEF RemoveStaleThumb, Pointed, TypeOK
    <3> QED
      BY <3>1, NamesAtRest
  <2> QED
    BY <1>2, <2>1, <2>2, <2>3, <2>4, <2>5, <2>6, <2>7 DEF HistoryStep
<1>3. ASSUME NEW r \in Requests, Crash(r) PROVE Names'
  <2>1. /\ Pointed' = Pointed /\ sessions' = sessions /\ file' = file
        /\ req' = [req EXCEPT ![r] = Idle]
    BY <1>3 DEF Crash, Finish, Pointed
  <2> QED
    BY <2>1, NamesAtRest
<1>4. ASSUME NEW s \in sessions, FillSession(s) \/ DropSession(s) PROVE Names'
  <2>1. /\ file' = file /\ versions' = versions /\ req' = req
        /\ \A t \in sessions' : \E u \in sessions : u.gen = t.gen
    BY <1>4 DEF FillSession, DropSession, TypeOK, Session
  <2> QED
    BY <2>1, NamesNoRequest
<1>5. ASSUME NEW value \in BOOLEAN, SetTrashed(value) PROVE Names'
  <2>1. /\ file'.minted = file.minted /\ file'.generation = file.generation
        /\ versions' = versions /\ req' = req /\ sessions' = sessions
    BY <1>5 DEF SetTrashed, TypeOK, FileRow
  <2> QED
    BY <2>1, NamesNoRequest
<1>6. ASSUME ChannelStep \/ UNCHANGED vars PROVE Names'
  <2>1. file' = file /\ versions' = versions /\ req' = req /\ sessions' = sessions
    BY <1>6
    DEF ChannelStep, Join, Leave, NextChannelSeq, InsertMessage, LoseMessage, vars
  <2> QED
    BY <2>1, NamesNoRequest
<1> QED
  BY <1>1, <1>2, <1>3, <1>4, <1>5, <1>6 DEF Next

(* Nobody holds a generation initially. *)
LEMMA NamesInit == ASSUME Init PROVE Names
<1>1. /\ sessions = {} /\ \A r \in Requests : ~Writing(r) /\ ~Restoring(r)
      /\ file.minted = 0
  BY DEF Init, Writing, Restoring, Idle
<1>2. Legacy = {} => versions = {} /\ file.generation = 0
  BY DEF Init
<1>3. KnownAreMinted
  BY <1>1, <1>2 DEF KnownAreMinted, Pointed
<1> QED
  BY <1>1, <1>3 DEF Names, HeldAreMinted, HeldByOne, HeldAreUnknown

(* Two saves of one file never write under one name, and no writer or part  *)
(* session holds a name that a row points at: on one process over SQLite,   *)
(* and on PostgreSQL for files whose rows the allocator has always counted, *)
(* as long as no session is completed by two requests at once.              *)
THEOREM NamesAreHeldByOne ==
    ASSUME ~DuplicateCompletes, Isolated \/ Legacy = {}
    PROVE  Spec => []SoleWriter
<1>1. Init => TypeOK /\ Names
  BY NamesInit, InitType
<1>2. TypeOK /\ Names /\ [Next]_vars => (TypeOK /\ Names)'
  BY TypeStep, NamesStep
<1>3. Names => SoleWriter
  BY DEF Names, HeldByOne, HeldAreUnknown, SoleWriter, Pointed
<1> QED
  BY <1>1, <1>2, <1>3, PTL DEF Spec

-----------------------------------------------------------------------------
(* The blobs behind the rows, in one process over SQLite: no row ever      *)
(* points at missing bytes, and no handler removes what a row points at or *)
(* a writer is about to commit.                                            *)

(* What a handler becomes when it has only removals left. *)
LEMMA RemovingFacts ==
    ASSUME NEW stale, NEW staleThumb,
           NEW q, q = RemovingOrDone(stale, staleThumb)
    PROVE  /\ q.pc \in {"idle", "removing"} /\ q.kind = "none"
           /\ q.pc = "removing" => q.stale = stale
<1>1. CASE stale = {} /\ ~staleThumb
  BY <1>1 DEF RemovingOrDone, Idle
<1>2. CASE ~(stale = {} /\ ~staleThumb)
  BY <1>2 DEF RemovingOrDone, Idle
<1> QED
  BY <1>1, <1>2

(* A step that leaves rows and blobs alone keeps Storage when the request   *)
(* it moves stays fresh, has stored what it claims to have stored, takes    *)
(* up at most a session's generation, and has nothing new to remove.        *)
LEMMA StorageOneRequest ==
    ASSUME TypeOK, TypeOK', Names, Storage, NEW r \in Requests,
           file'.generation = file.generation, file'.uploaded = file.uploaded,
           file'.deleted = file.deleted, file'.minted = file.minted,
           versions' = versions, blobs \subseteq blobs',
           \A other \in Requests \ {r} : req'[other] = req[other],
           \A s \in sessions' :
              \/ \E t \in sessions : t.gen = s.gen
              \/ \E q \in Requests : Writing(q) /\ req[q].gen = s.gen,
           req'[r].pc = "read" =>
              /\ ~file.deleted
              /\ req'[r].kind = "restore" =>
                    req'[r].base = file.generation /\ file.uploaded
              /\ req'[r].kind = "delete" => req'[r].stale \subseteq Pointed
              /\ \A other \in Requests \ {r} : req[other].pc # "read",
           Writing(r)' =>
              \/ /\ Writing(r) /\ req'[r].gen = req[r].gen
                 /\ Committing(r)' => Committing(r)
              \/ ~file.deleted /\ \E s \in sessions : s.gen = req'[r].gen,
           Committing(r)' /\ req'[r].pc \in {"assembled", "stored"}
              => req'[r].gen \in blobs',
           Removing(r)' => Removing(r) /\ req'[r].stale = req[r].stale
    PROVE  Storage'
<1>1. /\ Pointed' = Pointed
      /\ \A other \in Requests \ {r} :
            /\ Writing(other)' <=> Writing(other)
            /\ Committing(other)' <=> Committing(other)
            /\ Removing(other)' <=> Removing(other)
  BY DEF Pointed, Writing, Committing, Removing
<1>2. SegmentsAreFresh'
  BY <1>1 DEF Storage, SegmentsAreFresh
<1>3. OneSegment'
  BY DEF Storage, OneSegment
<1>4. (file.generation \notin versions)'
  BY DEF Storage
<1>5. StoredBeforeCommit'
  BY <1>1 DEF Storage, StoredBeforeCommit
<1>6. CurrentContentStored' /\ VersionsStored'
  BY DEF Storage, CurrentContentStored, VersionsStored
<1>7. \A q \in Requests : Removing(q)' => Removing(q) /\ req'[q].stale = req[q].stale
  BY <1>1
<1>8. RemovalsStayClear'
  <2>1. ASSUME NEW q \in Requests, Removing(q)', NEW other \in Requests,
               Committing(other)'
        PROVE  req'[other].gen \notin req'[q].stale
    <3>1. Removing(q) /\ req'[q].stale = req[q].stale
      BY <2>1, <1>7
    <3>2. CASE Committing(other) /\ req'[other].gen = req[other].gen
      BY <3>1, <3>2 DEF Storage, RemovalsStayClear
    <3>3. CASE ~file.deleted /\ \E s \in sessions : s.gen = req'[other].gen
      BY <3>1, <3>3 DEF Storage, RemovalsAreMinted
    <3> QED
      BY <2>1, <3>2, <3>3, <1>1 DEF Committing
  <2> QED
    BY <2>1, <1>7 DEF Storage, RemovalsStayClear
<1>9. RemovalsAreMinted'
  <2> SUFFICES ASSUME ~file'.deleted, NEW q \in Requests, Removing(q)'
               PROVE  /\ req'[q].stale \subseteq 0..file'.minted
                      /\ \A other \in Requests :
                            Writing(other)' => req'[other].gen \notin req'[q].stale
                      /\ \A s \in sessions' : s.gen \notin req'[q].stale
    BY DEF RemovalsAreMinted
  <2>1. /\ Removing(q) /\ req'[q].stale = req[q].stale /\ ~file.deleted
    BY <1>7
  <2>2. /\ req[q].stale \subseteq 0..file.minted
        /\ \A other \in Requests : Writing(other) => req[other].gen \notin req[q].stale
        /\ \A s \in sessions : s.gen \notin req[q].stale
    BY <2>1 DEF Storage, RemovalsAreMinted
  <2>3. ASSUME NEW other \in Requests, Writing(other)'
        PROVE  req'[other].gen \notin req[q].stale
    BY <2>2, <2>3, <1>1
  <2>4. ASSUME NEW s \in sessions' PROVE s.gen \notin req[q].stale
    BY <2>2, <2>4
  <2> QED
    BY <2>1, <2>2, <2>3, <2>4
<1> QED
  BY <1>2, <1>3, <1>4, <1>5, <1>6, <1>8, <1>9 DEF Storage

(* Steps that move no request of the model and leave the content alone.     *)
LEMMA StorageNoRequest ==
    ASSUME TypeOK, TypeOK', Names, Storage, req' = req,
           file'.generation = file.generation, file'.uploaded = file.uploaded,
           file'.deleted = file.deleted, file'.minted = file.minted,
           versions' = versions, blobs' = blobs,
           \A s \in sessions' : \E t \in sessions : t.gen = s.gen
    PROVE  Storage'
<1>1. /\ Pointed' = Pointed
      /\ \A r \in Requests : /\ Writing(r)' <=> Writing(r)
                             /\ Committing(r)' <=> Committing(r)
                             /\ Removing(r)' <=> Removing(r)
  BY DEF Pointed, Writing, Committing, Removing
<1>2. SegmentsAreFresh' /\ OneSegment'
  BY <1>1 DEF Storage, SegmentsAreFresh, OneSegment
<1>3. StoredBeforeCommit' /\ CurrentContentStored' /\ VersionsStored'
  BY <1>1 DEF Storage, StoredBeforeCommit, CurrentContentStored, VersionsStored
<1>4. RemovalsStayClear'
  BY <1>1 DEF Storage, RemovalsStayClear
<1>5. RemovalsAreMinted'
  BY <1>1 DEF Storage, RemovalsAreMinted
<1> QED
  BY <1>2, <1>3, <1>4, <1>5 DEF Storage

(* A new generation lies above everything a handler is about to remove.     *)
LEMMA StorageMinted ==
    ASSUME TypeOK, TypeOK', Names, Storage, NEW r \in Requests, NEW n \in Nat,
           n > file.minted,
           file' = [file EXCEPT !.minted = n],
           versions' = versions, blobs' = blobs, sessions' = sessions,
           \A other \in Requests \ {r} : req'[other] = req[other],
           req'[r].pc = "streaming", req'[r].gen = n,
           file.deleted => req'[r].kind = "begin"
    PROVE  Storage'
<1>1. /\ Pointed' = Pointed /\ file'.minted = n
      /\ file'.generation = file.generation /\ file'.uploaded = file.uploaded
      /\ file'.deleted = file.deleted /\ file.minted \in Nat
  BY DEF Pointed, TypeOK, FileRow
<1>2. /\ \A other \in Requests \ {r} :
            /\ Writing(other)' <=> Writing(other)
            /\ Committing(other)' <=> Committing(other)
            /\ Removing(other)' <=> Removing(other)
      /\ ~Removing(r)'
  BY DEF Writing, Committing, Removing
<1>3. SegmentsAreFresh' /\ OneSegment'
  BY <1>1, <1>2 DEF Storage, SegmentsAreFresh, OneSegment
<1>4. /\ (file.generation \notin versions)'
      /\ StoredBeforeCommit' /\ CurrentContentStored' /\ VersionsStored'
  BY <1>1, <1>2 DEF Storage, StoredBeforeCommit, CurrentContentStored, VersionsStored
<1>5. ASSUME ~file.deleted, NEW q \in Requests, Removing(q)
      PROVE  n \notin req[q].stale
  <2>1. req[q].stale \subseteq 0..file.minted
    BY <1>5 DEF Storage, RemovalsAreMinted
  <2> QED
    BY <2>1, <1>1
<1>6. RemovalsStayClear'
  <2>1. ASSUME NEW q \in Requests, Removing(q)', NEW other \in Requests,
               Committing(other)'
        PROVE  req'[other].gen \notin req'[q].stale
    <3>1. Removing(q) /\ req'[q] = req[q]
      BY <2>1, <1>2
    <3>2. CASE other = r
      BY <2>1, <3>1, <3>2, <1>5 DEF Committing
    <3>3. CASE other # r
      BY <2>1, <3>1, <3>3, <1>2 DEF Storage, RemovalsStayClear
    <3> QED
      BY <3>2, <3>3
  <2> QED
    BY <2>1, <1>1, <1>2 DEF Storage, RemovalsStayClear
<1>7. RemovalsAreMinted'
  <2> SUFFICES ASSUME ~file'.deleted, NEW q \in Requests, Removing(q)'
               PROVE  /\ req'[q].stale \subseteq 0..file'.minted
                      /\ \A other \in Requests :
                            Writing(other)' => req'[other].gen \notin req'[q].stale
                      /\ \A s \in sessions' : s.gen \notin req'[q].stale
    BY DEF RemovalsAreMinted
  <2>1. ~file.deleted /\ Removing(q) /\ req'[q] = req[q]
    BY <1>1, <1>2
  <2>2. /\ req[q].stale \subseteq 0..file.minted
        /\ \A other \in Requests : Writing(other) => req[other].gen \notin req[q].stale
        /\ \A s \in sessions : s.gen \notin req[q].stale
    BY <2>1 DEF Storage, RemovalsAreMinted
  <2>3. req[q].stale \subseteq 0..n
    BY <2>2, <1>1
  <2>4. ASSUME NEW other \in Requests, Writing(other)'
        PROVE  req'[other].gen \notin req[q].stale
    BY <2>1, <2>2, <2>4, <1>2, <1>5
  <2> QED
    BY <2>1, <2>2, <2>3, <2>4, <1>1
<1> QED
  BY <1>3, <1>4, <1>6, <1>7 DEF Storage

(* Removing a blob no row points at and no committing writer stored.        *)
LEMMA StorageRemoved ==
    ASSUME TypeOK, TypeOK', Names, Storage, NEW r \in Requests, NEW g,
           file' = file, versions' = versions, sessions' = sessions,
           blobs' = blobs \ {g},
           g \notin versions, file.uploaded => file.generation # g,
           \A other \in Requests \ {r} : Committing(other) => req[other].gen # g,
           \A other \in Requests \ {r} : req'[other] = req[other],
           req'[r].pc \in {"idle", "removing"},
           req'[r].pc = "removing" =>
              Removing(r) /\ req'[r].stale \subseteq req[r].stale
    PROVE  Storage'
<1>1. /\ Pointed' = Pointed
      /\ \A other \in Requests \ {r} :
            /\ Writing(other)' <=> Writing(other)
            /\ Committing(other)' <=> Committing(other)
            /\ Removing(other)' <=> Removing(other)
      /\ ~Writing(r)' /\ ~Committing(r)'
  BY DEF Pointed, Writing, Committing, Removing
<1>2. SegmentsAreFresh' /\ OneSegment'
  BY <1>1 DEF Storage, SegmentsAreFresh, OneSegment
<1>3. StoredBeforeCommit'
  BY <1>1 DEF Storage, StoredBeforeCommit
<1>4. CurrentContentStored' /\ VersionsStored' /\ (file.generation \notin versions)'
  BY DEF Storage, CurrentContentStored, VersionsStored
<1>5. \A q \in Requests : Removing(q)' => Removing(q) /\ req'[q].stale \subseteq req[q].stale
  BY <1>1 DEF Removing
<1>6. RemovalsStayClear'
  <2>1. ASSUME NEW q \in Requests, Removing(q)', NEW other \in Requests,
               Committing(other)'
        PROVE  req'[other].gen \notin req'[q].stale
    BY <2>1, <1>1, <1>5 DEF Storage, RemovalsStayClear
  <2>2. ASSUME NEW q \in Requests, Removing(q)'
        PROVE  /\ req'[q].stale \cap versions' = {}
               /\ file'.uploaded => file'.generation \notin req'[q].stale
    BY <2>2, <1>5 DEF Storage, RemovalsStayClear
  <2> QED
    BY <2>1, <2>2 DEF RemovalsStayClear
<1>7. RemovalsAreMinted'
  <2> SUFFICES ASSUME ~file'.deleted, NEW q \in Requests, Removing(q)'
               PROVE  /\ req'[q].stale \subseteq 0..file'.minted
                      /\ \A other \in Requests :
                            Writing(other)' => req'[other].gen \notin req'[q].stale
                      /\ \A s \in sessions' : s.gen \notin req'[q].stale
    BY DEF RemovalsAreMinted
  <2>1. Removing(q) /\ req'[q].stale \subseteq req[q].stale /\ ~file.deleted
    BY <1>5
  <2>2. /\ req[q].stale \subseteq 0..file.minted
        /\ \A other \in Requests : Writing(other) => req[other].gen \notin req[q].stale
        /\ \A s \in sessions : s.gen \notin req[q].stale
    BY <2>1 DEF Storage, RemovalsAreMinted
  <2> QED
    BY <2>1, <2>2, <1>1
<1> QED
  BY <1>2, <1>3, <1>4, <1>6, <1>7 DEF Storage

(* A transaction that replaces the rows: what they point at afterwards is   *)
(* stored, and what the handler removes next is exactly what they no longer *)
(* point at.                                                                *)
LEMMA StorageSwitched ==
    ASSUME TypeOK, TypeOK', Names, Storage, NEW r \in Requests,
           NEW gone, NEW staleThumb,
           req' = [req EXCEPT ![r] = RemovingOrDone(gone, staleThumb)],
           \A other \in Requests \ {r} : req[other].pc # "read",
           blobs' = blobs, file'.minted = file.minted,
           file.deleted => file'.deleted,
           sessions' \subseteq sessions,
           \A g \in versions' :
              g \in blobs /\ (g \in versions \/ (file.uploaded /\ g = file.generation)),
           file'.uploaded =>
              /\ file'.generation \in blobs
              /\ file'.generation \notin gone
              /\ \/ file'.generation \in versions
                 \/ Committing(r) /\ file'.generation = req[r].gen,
           file'.generation \notin versions',
           gone \cap versions' = {},
           gone \subseteq Pointed,
           ~file'.deleted /\ gone # {} => file.minted > 0
    PROVE  Storage'
<1>1. \A other \in Requests \ {r} :
        /\ req'[other] = req[other]
        /\ Writing(other)' <=> Writing(other)
        /\ Committing(other)' <=> Committing(other)
        /\ Removing(other)' <=> Removing(other)
  BY DEF TypeOK, Writing, Committing, Removing
<1>2. /\ req'[r].pc \in {"idle", "removing"}
      /\ req'[r].pc = "removing" => req'[r].stale = gone
  BY RemovingFacts DEF TypeOK
<1>3. ~Writing(r)' /\ ~Committing(r)'
  BY <1>2 DEF Writing, Committing
<1>4. SegmentsAreFresh' /\ OneSegment'
  BY <1>1, <1>2 DEF SegmentsAreFresh, OneSegment
<1>5. StoredBeforeCommit'
  BY <1>1, <1>3 DEF Storage, StoredBeforeCommit
<1>6. CurrentContentStored' /\ VersionsStored'
  BY DEF CurrentContentStored, VersionsStored
<1>7. \A q \in Requests \ {r} : Removing(q) =>
        /\ req[q].stale \cap versions = {}
        /\ file.uploaded => file.generation \notin req[q].stale
        /\ \A other \in Requests :
              Committing(other) => req[other].gen \notin req[q].stale
  BY DEF Storage, RemovalsStayClear
<1>8. RemovalsStayClear'
  <2>1. ASSUME NEW q \in Requests \ {r}, Removing(q)'
        PROVE  /\ req'[q].stale \cap versions' = {}
               /\ file'.uploaded => file'.generation \notin req'[q].stale
               /\ \A other \in Requests :
                     Committing(other)' => req'[other].gen \notin req'[q].stale
    BY <2>1, <1>1, <1>3, <1>7
  <2>2. ASSUME Removing(r)'
        PROVE  /\ req'[r].stale \cap versions' = {}
               /\ file'.uploaded => file'.generation \notin req'[r].stale
               /\ \A other \in Requests :
                     Committing(other)' => req'[other].gen \notin req'[r].stale
    <3>1. req'[r].stale = gone
      BY <2>2, <1>2 DEF Removing
    <3>2. \A other \in Requests : Committing(other)' => req'[other].gen \notin gone
      BY <1>1, <1>3 DEF Names, HeldAreUnknown, Committing
    <3> QED
      BY <3>1, <3>2
  <2> QED
    BY <2>1, <2>2 DEF RemovalsStayClear
<1>9. RemovalsAreMinted'
  <2> SUFFICES ASSUME ~file'.deleted, NEW q \in Requests, Removing(q)'
               PROVE  /\ req'[q].stale \subseteq 0..file'.minted
                      /\ \A other \in Requests :
                            Writing(other)' => req'[other].gen \notin req'[q].stale
                      /\ \A s \in sessions' : s.gen \notin req'[q].stale
    BY DEF RemovalsAreMinted
  <2>1. CASE q = r
    <3>1. req'[q].stale = gone
      BY <2>1, <1>2 DEF Removing
    <3>2. gone \subseteq 0..file.minted
      <4>1. CASE gone = {}
        BY <4>1
      <4>2. CASE gone # {}
        <5>1. Pointed \subseteq Nat /\ file.minted \in Nat
          BY DEF Pointed, TypeOK, FileRow
        <5>2. \A g \in Pointed : g <= file.minted
          BY <4>2 DEF Names, KnownAreMinted
        <5> QED
          BY <5>1, <5>2
      <4> QED
        BY <4>1, <4>2
    <3>3. \A other \in Requests : Writing(other)' => req'[other].gen \notin gone
      BY <1>1, <1>3 DEF Names, HeldAreUnknown
    <3>4. \A s \in sessions' : s.gen \notin gone
      BY DEF Names, HeldAreUnknown
    <3> QED
      BY <3>1, <3>2, <3>3, <3>4
  <2>2. CASE q # r
    <3>1. /\ req'[q] = req[q] /\ ~file.deleted /\ Removing(q)
      BY <2>2, <1>1
    <3>2. /\ req[q].stale \subseteq 0..file.minted
          /\ \A other \in Requests : Writing(other) => req[other].gen \notin req[q].stale
          /\ \A s \in sessions : s.gen \notin req[q].stale
      BY <3>1 DEF Storage, RemovalsAreMinted
    <3> QED
      BY <3>1, <3>2, <1>1, <1>3
  <2> QED
    BY <2>1, <2>2
<1> QED
  BY <1>4, <1>5, <1>6, <1>8, <1>9 DEF Storage

(* In one process no other handler is between two database calls when a     *)
(* handler runs.                                                            *)
LEMMA AloneInSegment ==
    ASSUME Isolated, NEW r \in Requests, MayRun(r)
    PROVE  \A other \in Requests \ {r} : req[other].pc # "read"
BY DEF MayRun, InSegment

(* A save's transaction. *)
LEMMA CommitStorage ==
    ASSUME Isolated, TypeOK, TypeOK', Names, Storage, NEW r \in Requests, Commit(r)
    PROVE  Storage'
<1> DEFINE plan == PlanKept(r)
           displaced == IF req[r].baseUp THEN {file.generation} ELSE {}
           keeps == MaxVersions > 0 /\ plan # "content"
           rows == IF keeps THEN versions \cup displaced ELSE versions
           dropped == IF keeps THEN {} ELSE displaced
           gone == dropped \cup (rows \ Retained(rows))
<1>1. /\ req[r].pc = "stored" /\ req[r].kind \in SaveKinds \cup {"complete"}
      /\ MayRun(r)
      /\ file.generation = req[r].base /\ file.uploaded = req[r].baseUp
      /\ versions' = Retained(rows)
      /\ file' = [file EXCEPT !.generation = req[r].gen, !.uploaded = TRUE,
                              !.thumb = @ /\ ~req[r].baseUp]
      /\ sessions' \subseteq sessions
      /\ req' = [req EXCEPT ![r] =
                    RemovingOrDone(gone, req[r].baseUp /\ file.thumb)]
      /\ blobs' = blobs
  BY DEF Commit, ClaimGeneration, blobVars
<1>2. /\ file'.generation = req[r].gen /\ file'.minted = file.minted
      /\ file'.deleted = file.deleted
  BY <1>1 DEF TypeOK, FileRow
<1>3. Writing(r) /\ Committing(r)
  BY <1>1 DEF Writing, Committing, SaveKinds
<1>4. req[r].gen \in blobs /\ req[r].gen \notin Pointed /\ file.minted > 0
  <2>1. req[r].gen \in blobs /\ req[r].gen \notin Pointed
    BY <1>1, <1>3 DEF Storage, StoredBeforeCommit, Names, HeldAreUnknown
  <2>2. req[r].gen \in 1..file.minted /\ file.minted \in Nat
    BY <1>3 DEF Names, HeldAreMinted, TypeOK, FileRow
  <2> QED
    BY <2>1, <2>2
<1>5. /\ displaced \subseteq Pointed
      /\ \A g \in displaced : file.uploaded /\ g = file.generation
      /\ displaced \cap versions = {}
  BY <1>1 DEF Pointed, Storage
<1>6. /\ rows \subseteq versions \cup displaced /\ dropped \subseteq displaced
      /\ dropped \cap rows = {} /\ Retained(rows) \subseteq rows
  BY <1>5 DEF Retained
<1> HIDE DEF plan, displaced, keeps, rows, dropped
<1>7. \A g \in versions' :
        g \in blobs /\ (g \in versions \/ (file.uploaded /\ g = file.generation))
  BY <1>1, <1>5, <1>6 DEF Storage, CurrentContentStored, VersionsStored
<1>8. gone \subseteq Pointed /\ gone \cap versions' = {}
  BY <1>1, <1>5, <1>6 DEF Pointed
<1>9. req[r].gen \notin versions' /\ req[r].gen \notin gone
  BY <1>4, <1>7, <1>8 DEF Pointed
<1>10. \A other \in Requests \ {r} : req[other].pc # "read"
  BY <1>1, AloneInSegment
<1> HIDE DEF gone
<1> QED
  BY <1>1, <1>2, <1>3, <1>4, <1>7, <1>8, <1>9, <1>10, StorageSwitched

(* A restore's transaction. *)
LEMMA SwapPointerStorage ==
    ASSUME Isolated, TypeOK, TypeOK', Names, Storage,
           NEW r \in Requests, SwapPointer(r)
    PROVE  Storage'
<1>1. /\ req[r].pc = "read" /\ req[r].kind = "restore" /\ MayRun(r)
      /\ req[r].gen \in versions
      /\ versions' = (versions \cup {req[r].base}) \ {req[r].gen}
      /\ file' = [file EXCEPT !.generation = req[r].gen, !.thumb = FALSE]
      /\ req' = [req EXCEPT ![r] = RemovingOrDone({}, req[r].staleThumb)]
      /\ blobs' = blobs /\ sessions' = sessions
  BY DEF SwapPointer, TypeOK, blobVars
<1>2. /\ file'.generation = req[r].gen /\ file'.minted = file.minted
      /\ file'.deleted = file.deleted /\ file'.uploaded = file.uploaded
  BY <1>1 DEF TypeOK, FileRow
<1>3. req[r].base = file.generation /\ file.uploaded
  BY <1>1 DEF Storage, SegmentsAreFresh
<1>4. req[r].gen \in blobs /\ file.generation \in blobs
  BY <1>1, <1>3 DEF Storage, CurrentContentStored, VersionsStored
<1>5. \A g \in versions' :
        g \in blobs /\ (g \in versions \/ (file.uploaded /\ g = file.generation))
  BY <1>1, <1>3, <1>4 DEF Storage, VersionsStored
<1>6. \A other \in Requests \ {r} : req[other].pc # "read"
  BY <1>1, AloneInSegment
<1>7. /\ file'.generation \in blobs /\ file'.generation \in versions
      /\ file'.generation \notin versions' /\ file'.generation \notin {}
  BY <1>1, <1>2, <1>4
<1>8. file.deleted => file'.deleted
  BY <1>2
<1>9. {} \cap versions' = {} /\ {} \subseteq Pointed
  OBVIOUS
<1> QED
  BY <1>1, <1>2, <1>5, <1>6, <1>7, <1>8, <1>9, StorageSwitched

(* The transaction that deletes a file forever. *)
LEMMA DeleteForeverStorage ==
    ASSUME Isolated, TypeOK, TypeOK', Names, Storage,
           NEW r \in Requests, DeleteForever(r)
    PROVE  Storage'
<1>1. /\ req[r].pc = "read" /\ req[r].kind = "delete" /\ MayRun(r)
      /\ versions' = {}
      /\ file' = [file EXCEPT !.deleted = TRUE, !.uploaded = FALSE, !.thumb = FALSE]
      /\ req' = [req EXCEPT ![r] = RemovingOrDone(req[r].stale, req[r].staleThumb)]
      /\ blobs' = blobs /\ sessions' = sessions
  BY DEF DeleteForever, TypeOK, blobVars
<1>2. /\ file'.generation = file.generation /\ file'.minted = file.minted
      /\ file'.deleted /\ ~file'.uploaded
  BY <1>1 DEF TypeOK, FileRow
<1>3. req[r].stale \subseteq Pointed
  BY <1>1 DEF Storage, SegmentsAreFresh
<1>4. \A other \in Requests \ {r} : req[other].pc # "read"
  BY <1>1, AloneInSegment
<1>5. \A g \in versions' :
        g \in blobs /\ (g \in versions \/ (file.uploaded /\ g = file.generation))
  BY <1>1
<1>6. file'.generation \notin versions' /\ req[r].stale \cap versions' = {}
  BY <1>1
<1> QED
  BY <1>1, <1>2, <1>3, <1>4, <1>5, <1>6, StorageSwitched

(* Steps of a save or a part upload keep Storage. *)
LEMMA UploadStorage ==
    ASSUME Isolated, TypeOK, TypeOK', Names, Storage,
           NEW r \in Requests, UploadStep(r)
    PROVE  Storage'
<1>1. ASSUME NEW kind \in SaveKinds, NEW upTo \in 0..MaxPosts,
             StartSave(r, kind, upTo)
      PROVE  Storage'
  <2>1. /\ UNCHANGED <<file, versions, blobs, sessions>> /\ MayRun(r) /\ ~file.deleted
        /\ \A other \in Requests \ {r} : req'[other] = req[other]
        /\ req'[r].pc = "read" /\ req'[r].kind \in SaveKinds
    BY <1>1 DEF StartSave, TypeOK, Idle, blobVars
  <2>2. ~Writing(r)' /\ ~Committing(r)' /\ ~Removing(r)'
    BY <2>1 DEF Writing, Committing, Removing
  <2>3. \A other \in Requests \ {r} : req[other].pc # "read"
    BY <2>1, AloneInSegment
  <2>4. req'[r].kind # "restore" /\ req'[r].kind # "delete"
    BY <2>1 DEF SaveKinds
  <2> QED
    BY <2>1, <2>2, <2>3, <2>4, StorageOneRequest
<1>2. ASSUME NEW alone \in BOOLEAN, PlanSave(r, alone) PROVE Storage'
  <2>1. PICK n \in 1..MaxMint :
          /\ IsNextGeneration(n)
          /\ file' = [file EXCEPT !.minted = n]
          /\ req' = [req EXCEPT ![r].pc = "streaming", ![r].gen = n,
                                ![r].plan = ChannelPlan(req[r].kind, alone)]
    BY <1>2 DEF PlanSave
  <2>2. /\ req[r].pc = "read" /\ UNCHANGED <<versions, blobs, sessions>>
    BY <1>2 DEF PlanSave, blobVars
  <2>3. /\ \A other \in Requests \ {r} : req'[other] = req[other]
        /\ req'[r].pc = "streaming" /\ req'[r].gen = n
    BY <2>1 DEF TypeOK, Request
  <2>4. n > file.minted /\ n \in Nat
    BY <2>1 DEF IsNextGeneration, TypeOK, FileRow
  <2>5. ~file.deleted
    BY <2>2 DEF Storage, SegmentsAreFresh
  <2> QED
    BY <2>1, <2>2, <2>3, <2>4, <2>5, StorageMinted
<1>3. ASSUME PutBytes(r) \/ AssembleParts(r) PROVE Storage'
  <2>1. /\ UNCHANGED <<file, versions>> /\ blobs' = blobs \cup {req[r].gen}
        /\ \A other \in Requests \ {r} : req'[other] = req[other]
        /\ req[r].pc = "streaming" /\ req[r].kind \in SaveKinds \cup {"complete"}
        /\ req'[r].pc \in {"stored", "assembled"}
        /\ req'[r].gen = req[r].gen /\ req'[r].kind = req[r].kind
    <3>1. CASE PutBytes(r)
      BY <3>1 DEF PutBytes, TypeOK, Request
    <3>2. CASE AssembleParts(r)
      BY <3>2 DEF AssembleParts, TypeOK, Request
    <3> QED
      BY <1>3, <3>1, <3>2
  <2>2. \A s \in sessions' : \E t \in sessions : t.gen = s.gen
    BY <1>3 DEF PutBytes, AssembleParts, TypeOK, Session
  <2>3. Writing(r) /\ Committing(r) /\ ~Removing(r)'
    BY <2>1 DEF Writing, Committing, Removing, SaveKinds
  <2>4. req'[r].pc # "read"
    BY <2>1
  <2> QED
    BY <2>1, <2>2, <2>3, <2>4, StorageOneRequest
<1>4. ASSUME Commit(r) PROVE Storage'
  BY <1>4, CommitStorage
<1>5. ASSUME RefuseCommit(r) \/ PlanComplete(r) PROVE Storage'
  <2>1. /\ UNCHANGED <<file, versions, blobs, sessions>>
        /\ \A other \in Requests \ {r} : req'[other] = req[other]
        /\ req[r].pc \in {"stored", "assembled"}
        /\ req[r].kind \in SaveKinds \cup {"complete"}
        /\ req'[r].pc \in {"stored", "refused"}
        /\ req'[r].gen = req[r].gen /\ req'[r].kind = req[r].kind
    <3>1. CASE RefuseCommit(r)
      BY <3>1 DEF RefuseCommit, TypeOK, Request, blobVars
    <3>2. CASE PlanComplete(r)
      BY <3>2 DEF PlanComplete, TypeOK, Request, blobVars
    <3> QED
      BY <1>5, <3>1, <3>2
  <2>2. Writing(r) /\ Committing(r) /\ ~Removing(r)' /\ req'[r].pc # "read"
    BY <2>1 DEF Writing, Committing, Removing, SaveKinds
  <2>3. req[r].gen \in blobs
    BY <2>1, <2>2 DEF Storage, StoredBeforeCommit
  <2> QED
    BY <2>1, <2>2, <2>3, StorageOneRequest
<1>6. ASSUME RemoveOwnBlob(r) PROVE Storage'
  <2>1. /\ UNCHANGED <<file, versions, sessions>> /\ blobs' = blobs \ {req[r].gen}
        /\ req[r].pc = "refused" /\ req[r].kind \in SaveKinds \cup {"complete"}
        /\ req' = [req EXCEPT ![r] = Idle]
    BY <1>6 DEF RemoveOwnBlob, Finish
  <2>2. Writing(r)
    BY <2>1 DEF Writing
  <2>3. /\ req[r].gen \notin Pointed
        /\ \A other \in Requests \ {r} : Committing(other) => req[other].gen # req[r].gen
    BY <2>2 DEF Names, HeldAreUnknown, HeldByOne, Committing
  <2>4. /\ \A other \in Requests \ {r} : req'[other] = req[other]
        /\ req'[r].pc = "idle"
    BY <2>1 DEF TypeOK, Idle
  <2>5. req'[r].pc \in {"idle", "removing"} /\ req'[r].pc # "removing"
        /\ req[r].gen \notin versions /\ file.generation # req[r].gen
    BY <2>3, <2>4 DEF Pointed
  <2> QED
    BY <2>1, <2>3, <2>4, <2>5, StorageRemoved
<1>7. ASSUME StartThumb(r) \/ PutThumb(r) \/ CommitThumb(r) \/ BeginParts(r)
      PROVE  Storage'
  <2>1. /\ UNCHANGED <<versions, blobs>> /\ sessions' \subseteq sessions
        /\ file'.generation = file.generation /\ file'.uploaded = file.uploaded
        /\ file'.deleted = file.deleted /\ file'.minted = file.minted
        /\ \A other \in Requests \ {r} : req'[other] = req[other]
        /\ req'[r].pc \notin {"read", "removing"}
        /\ req'[r].kind = "thumb" \/ req'[r].pc \in {"sweeping", "idle"}
    <3>1. CASE StartThumb(r)
      BY <3>1 DEF StartThumb, TypeOK, Idle, blobVars
    <3>2. CASE PutThumb(r)
      BY <3>2 DEF PutThumb, TypeOK, Request
    <3>3. CASE CommitThumb(r)
      BY <3>3 DEF CommitThumb, Finish, TypeOK, FileRow, Idle, blobVars
    <3>4. CASE BeginParts(r)
      BY <3>4 DEF BeginParts, TypeOK, Idle, blobVars
    <3> QED
      BY <1>7, <3>1, <3>2, <3>3, <3>4
  <2>2. ~Writing(r)' /\ ~Committing(r)' /\ ~Removing(r)' /\ req'[r].pc # "read"
    BY <2>1 DEF Writing, Committing, Removing, SaveKinds
  <2> QED
    BY <2>1, <2>2, StorageOneRequest
<1>8. ASSUME MintParts(r) PROVE Storage'
  <2>1. PICK n \in 1..MaxMint :
          /\ IsNextGeneration(n)
          /\ file' = [file EXCEPT !.minted = n]
          /\ req' = [req EXCEPT ![r].pc = "streaming", ![r].gen = n]
    BY <1>8 DEF MintParts
  <2>2. /\ req[r].pc = "sweeping" /\ req[r].kind = "begin"
        /\ UNCHANGED <<versions, blobs, sessions>>
    BY <1>8 DEF MintParts, blobVars
  <2>3. /\ \A other \in Requests \ {r} : req'[other] = req[other]
        /\ req'[r].pc = "streaming" /\ req'[r].gen = n /\ req'[r].kind = "begin"
    BY <2>1, <2>2 DEF TypeOK, Request
  <2>4. n > file.minted /\ n \in Nat
    BY <2>1 DEF IsNextGeneration, TypeOK, FileRow
  <2> QED
    BY <2>1, <2>2, <2>3, <2>4, StorageMinted
<1>9. ASSUME InsertSession(r) PROVE Storage'
  <2>1. /\ UNCHANGED <<file, versions, blobs>>
        /\ \A other \in Requests \ {r} : req'[other] = req[other]
        /\ req[r].pc = "streaming" /\ req[r].kind = "begin"
        /\ req'[r].pc = "idle"
        /\ \A s \in sessions' : s \in sessions \/ s.gen = req[r].gen
    BY <1>9 DEF InsertSession, Finish, TypeOK, Idle, blobVars
  <2>2. Writing(r)
    BY <2>1 DEF Writing
  <2>3. \A s \in sessions' :
          \/ \E t \in sessions : t.gen = s.gen
          \/ \E q \in Requests : Writing(q) /\ req[q].gen = s.gen
    BY <2>1, <2>2
  <2>4. ~Writing(r)' /\ ~Committing(r)' /\ ~Removing(r)' /\ req'[r].pc # "read"
    BY <2>1 DEF Writing, Committing, Removing
  <2> QED
    BY <2>1, <2>3, <2>4, StorageOneRequest
<1>10. ASSUME NEW s \in sessions, StartComplete(r, s) PROVE Storage'
  <2>1. CASE ~file.deleted /\ s.base = file.generation /\ s.baseUp = file.uploaded
    <3>1. /\ req' = [req EXCEPT ![r] =
                       [Idle EXCEPT !.pc = "streaming", !.kind = "complete",
                                    !.gen = s.gen, !.base = s.base,
                                    !.baseUp = s.baseUp]]
          /\ UNCHANGED <<file, versions, blobs, sessions>>
      BY <1>10, <2>1 DEF StartComplete, blobVars
    <3>2. /\ \A other \in Requests \ {r} : req'[other] = req[other]
          /\ req'[r].pc = "streaming" /\ req'[r].gen = s.gen
      BY <3>1 DEF TypeOK, Idle
    <3>3. ~Removing(r)' /\ req'[r].pc # "read"
          /\ req'[r].pc \notin {"assembled", "stored"}
      BY <3>2 DEF Removing
    <3>4. ~file.deleted /\ \E t \in sessions : t.gen = req'[r].gen
      BY <2>1, <3>2
    <3> QED
      BY <3>1, <3>2, <3>3, <3>4, StorageOneRequest
  <2>2. CASE ~(~file.deleted /\ s.base = file.generation
               /\ s.baseUp = file.uploaded)
    <3>1. UNCHANGED <<file, versions, blobs, req>> /\ sessions' \subseteq sessions
      BY <1>10, <2>2 DEF StartComplete, blobVars
    <3> QED
      BY <3>1, StorageNoRequest
  <2> QED
    BY <2>1, <2>2
<1> QED
  BY <1>1, <1>2, <1>3, <1>4, <1>5, <1>6, <1>7, <1>8, <1>9, <1>10
  DEF UploadStep, ReadPosition

(* Steps of a restore, a delete or a handler removing what it displaced.    *)
LEMMA HistoryStorage ==
    ASSUME Isolated, TypeOK, TypeOK', Names, Storage,
           NEW r \in Requests, HistoryStep(r)
    PROVE  Storage'
<1>1. ASSUME NEW target \in 0..MaxMint, StartRestore(r, target) PROVE Storage'
  <2>1. /\ UNCHANGED <<file, versions, blobs, sessions>> /\ MayRun(r)
        /\ ~file.deleted /\ file.uploaded
        /\ \A other \in Requests \ {r} : req'[other] = req[other]
        /\ req'[r].pc = "read" /\ req'[r].kind = "restore"
        /\ req'[r].base = file.generation
    BY <1>1 DEF StartRestore, TypeOK, Idle, blobVars
  <2>2. ~Writing(r)' /\ ~Committing(r)' /\ ~Removing(r)'
    BY <2>1 DEF Writing, Committing, Removing
  <2>3. \A other \in Requests \ {r} : req[other].pc # "read"
    BY <2>1, AloneInSegment
  <2>4. req'[r].kind # "delete"
    BY <2>1
  <2> QED
    BY <2>1, <2>2, <2>3, <2>4, StorageOneRequest
<1>2. ASSUME SwapPointer(r) PROVE Storage'
  BY <1>2, SwapPointerStorage
<1>3. ASSUME VersionNotFound(r) PROVE Storage'
  <2>1. /\ UNCHANGED <<file, versions, blobs, sessions>>
        /\ \A other \in Requests \ {r} : req'[other] = req[other]
        /\ req'[r].pc = "idle"
    BY <1>3 DEF VersionNotFound, Finish, TypeOK, Idle, blobVars
  <2>2. ~Writing(r)' /\ ~Committing(r)' /\ ~Removing(r)' /\ req'[r].pc # "read"
    BY <2>1 DEF Writing, Committing, Removing
  <2> QED
    BY <2>1, <2>2, StorageOneRequest
<1>4. ASSUME StartDelete(r) PROVE Storage'
  <2>1. /\ UNCHANGED <<file, versions, blobs, sessions>> /\ MayRun(r)
        /\ ~file.deleted
        /\ \A other \in Requests \ {r} : req'[other] = req[other]
        /\ req'[r].pc = "read" /\ req'[r].kind = "delete"
        /\ req'[r].stale = Pointed
    BY <1>4 DEF StartDelete, TypeOK, Idle, blobVars, Pointed
  <2>2. ~Writing(r)' /\ ~Committing(r)' /\ ~Removing(r)'
    BY <2>1 DEF Writing, Committing, Removing
  <2>3. \A other \in Requests \ {r} : req[other].pc # "read"
    BY <2>1, AloneInSegment
  <2>4. req'[r].kind # "restore"
    BY <2>1
  <2> QED
    BY <2>1, <2>2, <2>3, <2>4, StorageOneRequest
<1>5. ASSUME DeleteForever(r) PROVE Storage'
  BY <1>5, DeleteForeverStorage
<1>6. ASSUME NEW g \in req[r].stale, RemoveStaleBlob(r, g) PROVE Storage'
  <2>1. /\ UNCHANGED <<file, versions, sessions>> /\ blobs' = blobs \ {g}
        /\ req[r].pc = "removing"
        /\ req' = [req EXCEPT ![r] =
                      RemovingOrDone(req[r].stale \ {g}, req[r].staleThumb)]
    BY <1>6 DEF RemoveStaleBlob, TypeOK
  <2>2. Removing(r)
    BY <2>1 DEF Removing
  <2>3. /\ g \notin versions /\ (file.uploaded => file.generation # g)
        /\ \A other \in Requests \ {r} : Committing(other) => req[other].gen # g
    BY <2>2 DEF Storage, RemovalsStayClear
  <2>4. /\ \A other \in Requests \ {r} : req'[other] = req[other]
        /\ req'[r].pc \in {"idle", "removing"}
        /\ req'[r].pc = "removing" => req'[r].stale = req[r].stale \ {g}
    BY <2>1, RemovingFacts DEF TypeOK
  <2>5. req'[r].pc = "removing" => Removing(r) /\ req'[r].stale \subseteq req[r].stale
    BY <2>2, <2>4
  <2> QED
    BY <2>1, <2>3, <2>4, <2>5, StorageRemoved
<1>7. ASSUME RemoveStaleThumb(r) PROVE Storage'
  <2>1. /\ UNCHANGED <<file, versions, blobs, sessions>> /\ req[r].pc = "removing"
        /\ req' = [req EXCEPT ![r] = RemovingOrDone(req[r].stale, FALSE)]
    BY <1>7 DEF RemoveStaleThumb, TypeOK
  <2>2. /\ \A other \in Requests \ {r} : req'[other] = req[other]
        /\ req'[r].pc \in {"idle", "removing"}
        /\ req'[r].pc = "removing" => req'[r].stale = req[r].stale
    <3>1. req'[r] = RemovingOrDone(req[r].stale, FALSE)
      BY <2>1 DEF TypeOK
    <3>2. \A other \in Requests \ {r} : req'[other] = req[other]
      BY <2>1 DEF TypeOK
    <3>3. CASE req[r].stale = {}
      BY <3>1, <3>2, <3>3 DEF RemovingOrDone, Idle
    <3>4. CASE req[r].stale # {}
      BY <3>1, <3>2, <3>4 DEF RemovingOrDone, Idle
    <3> QED
      BY <3>3, <3>4
  <2>3. /\ ~Writing(r)' /\ ~Committing(r)' /\ req'[r].pc # "read"
        /\ Removing(r)' => Removing(r) /\ req'[r].stale = req[r].stale
    BY <2>1, <2>2 DEF Writing, Committing, Removing
  <2> QED
    BY <2>1, <2>2, <2>3, StorageOneRequest
<1> QED
  BY <1>1, <1>2, <1>3, <1>4, <1>5, <1>6, <1>7 DEF HistoryStep

(* Storage is inductive. *)
LEMMA StorageStep ==
    ASSUME Isolated, TypeOK, TypeOK', Names, Storage, [Next]_vars
    PROVE  Storage'
<1>1. ASSUME NEW r \in Requests, UploadStep(r) PROVE Storage'
  BY <1>1, UploadStorage
<1>2. ASSUME NEW r \in Requests, HistoryStep(r) PROVE Storage'
  BY <1>2, HistoryStorage
<1>3. ASSUME NEW r \in Requests, Crash(r) PROVE Storage'
  <2>1. /\ UNCHANGED <<file, versions, blobs, sessions>>
        /\ \A other \in Requests \ {r} : req'[other] = req[other]
        /\ req'[r].pc = "idle"
    BY <1>3 DEF Crash, Finish, TypeOK, Idle, blobVars
  <2>2. ~Writing(r)' /\ ~Committing(r)' /\ ~Removing(r)' /\ req'[r].pc # "read"
    BY <2>1 DEF Writing, Committing, Removing
  <2> QED
    BY <2>1, <2>2, StorageOneRequest
<1>4. ASSUME NEW s \in sessions, FillSession(s) \/ DropSession(s) PROVE Storage'
  <2>1. /\ UNCHANGED <<file, versions, blobs, req>>
        /\ \A t \in sessions' : \E u \in sessions : u.gen = t.gen
    BY <1>4 DEF FillSession, DropSession, TypeOK, Session, blobVars
  <2> QED
    BY <2>1, StorageNoRequest
<1>5. ASSUME NEW value \in BOOLEAN, SetTrashed(value) PROVE Storage'
  <2>1. /\ UNCHANGED <<versions, blobs, req, sessions>>
        /\ file'.generation = file.generation /\ file'.uploaded = file.uploaded
        /\ file'.deleted = file.deleted /\ file'.minted = file.minted
    BY <1>5 DEF SetTrashed, TypeOK, FileRow, blobVars
  <2> QED
    BY <2>1, StorageNoRequest
<1>6. ASSUME ChannelStep \/ UNCHANGED vars PROVE Storage'
  <2>1. UNCHANGED <<file, versions, blobs, req, sessions>>
    BY <1>6
    DEF ChannelStep, Join, Leave, NextChannelSeq, InsertMessage, LoseMessage,
        vars, blobVars
  <2> QED
    BY <2>1, StorageNoRequest
<1> QED
  BY <1>1, <1>2, <1>3, <1>4, <1>5, <1>6 DEF Next

(* A file starts with every blob its rows point at. *)
LEMMA StorageInit == ASSUME Init PROVE Storage
<1>1. \A r \in Requests : req[r].pc = "idle"
  BY DEF Init, Idle
<1>2. /\ file.generation \notin versions
      /\ CurrentContentStored /\ VersionsStored
  BY ConstantsAssumption DEF Init, CurrentContentStored, VersionsStored
<1> QED
  BY <1>1, <1>2
  DEF Storage, SegmentsAreFresh, OneSegment, StoredBeforeCommit,
      RemovalsStayClear, RemovalsAreMinted, Committing, Writing, Removing

(* In one process over SQLite, with no session completed by two requests at *)
(* once, Names and Storage hold in every reachable state.                   *)
LEMMA StorageInvariant ==
    ASSUME ~DuplicateCompletes, Isolated
    PROVE  Spec => [](TypeOK /\ Names /\ Storage)
<1>1. Init => TypeOK /\ Names /\ Storage
  BY InitType, NamesInit, StorageInit
<1>2. TypeOK /\ Names /\ Storage /\ [Next]_vars => (TypeOK /\ Names /\ Storage)'
  BY TypeStep, NamesStep, StorageStep
<1> QED
  BY <1>1, <1>2, PTL DEF Spec

(* The row a download follows always finds its bytes, whatever was refused, *)
(* interrupted, pruned, restored or deleted on the way.                     *)
THEOREM CurrentContentIsStored ==
    ASSUME ~DuplicateCompletes, Isolated
    PROVE  Spec => []CurrentContentStored
<1>1. Storage => CurrentContentStored
  BY DEF Storage
<1> QED
  BY <1>1, StorageInvariant, PTL

(* Every version listed for the owner has its bytes. *)
THEOREM VersionsAreStored ==
    ASSUME ~DuplicateCompletes, Isolated
    PROVE  Spec => []VersionsStored
<1>1. Storage => VersionsStored
  BY DEF Storage
<1> QED
  BY <1>1, StorageInvariant, PTL

(* The blobs a handler removes after its transaction are ones nothing will  *)
(* refer to again.                                                          *)
THEOREM OnlyGarbageIsRemoved ==
    ASSUME ~DuplicateCompletes, Isolated
    PROVE  Spec => []RemovalsAreGarbage
<1>1. Storage => RemovalsAreGarbage
  BY DEF Storage, RemovalsStayClear, RemovalsAreMinted, RemovalsAreGarbage, Removing
<1> QED
  BY <1>1, StorageInvariant, PTL

-----------------------------------------------------------------------------
(* The document channel's markers and its log.                             *)

(* MarkersWithinLog, strengthened: in one process a position taken but not  *)
(* logged yet also lies past the trim, so logging it keeps the log clear.   *)
Markers ==
    /\ channel.contentSeq <= channel.last /\ channel.snapSeq <= channel.last
    /\ \A s \in log \cup unlogged : s \in 1..channel.last
    /\ Isolated => \A s \in log \cup unlogged : s > channel.snapSeq

(* A transaction under way read a position the channel had issued.          *)
SeenIssued == \A r \in Requests : req[r].seen <= channel.last

(* The channel's part of a transaction keeps Markers when no position is    *)
(* waiting for its row, or when positions may be waiting anyway.            *)
LEMMA CommitChannelMarkers ==
    ASSUME TypeOK, Markers,
           NEW plan \in Plans, NEW gen \in Nat, NEW upTo \in Nat,
           NEW last \in Nat, last <= channel.last,
           CommitChannel(plan, gen, upTo, last),
           Isolated => unlogged = {},
           unlogged' = unlogged
    PROVE  Markers'
<1>1. channel \in ChannelRow /\ log \subseteq Nat /\ unlogged \subseteq Nat
  BY DEF TypeOK
<1> DEFINE bound == AtMost(upTo, last)
<1>2. bound \in Nat /\ bound <= channel.last
  BY <1>1 DEF AtMost, ChannelRow
<1>3. CASE plan = "purge"
  <2>1. log' = {} /\ channel' = [channel EXCEPT
            !.contentGen = gen, !.contentSeq = last,
            !.snapGen = gen, !.snapSeq = last]
    BY <1>3 DEF CommitChannel
  <2> QED
    BY <2>1, <1>1 DEF Markers, ChannelRow
<1>4. CASE plan = "checkpoint" /\ bound > 0
  <2>1. log' = {s \in log : s > bound} /\ channel' = [channel EXCEPT
            !.contentGen = gen, !.contentSeq = bound,
            !.snapGen = gen, !.snapSeq = bound]
    BY <1>4 DEF CommitChannel
  <2> QED
    BY <2>1, <1>1, <1>2 DEF Markers, ChannelRow
<1>5. CASE plan = "content" \/ (plan = "checkpoint" /\ bound = 0)
  <2>1. log' = log /\ channel' = [channel EXCEPT
            !.contentGen = gen, !.contentSeq = bound]
    BY <1>5 DEF CommitChannel
  <2> QED
    BY <2>1, <1>1, <1>2 DEF Markers, ChannelRow
<1>6. CASE plan = "none"
  <2>1. log' = log /\ channel' = channel
    BY <1>6 DEF CommitChannel
  <2> QED
    BY <2>1 DEF Markers
<1>7. \/ plan = "purge" \/ (plan = "checkpoint" /\ bound > 0)
      \/ plan = "content" \/ (plan = "checkpoint" /\ bound = 0)
      \/ plan = "none"
  <2>1. bound > 0 \/ bound = 0
    BY <1>2
  <2> QED
    BY <2>1 DEF Plans
<1> QED
  BY <1>3, <1>4, <1>5, <1>6, <1>7

(* What Commit and SwapPointer take for the last position is one issued.    *)
LEMMA LastReadIssued ==
    ASSUME TypeOK, SeenIssued, NEW r \in Requests
    PROVE  /\ LastRead(r) \in Nat /\ LastRead(r) <= channel.last
           /\ PlanKept(r) \in Plans
<1>1. channel \in ChannelRow /\ req[r] \in Request
  BY DEF TypeOK
<1>2. channel.last \in Nat /\ req[r].seen <= channel.last
  BY <1>1 DEF ChannelRow, SeenIssued
<1> QED
  BY <1>1, <1>2, ReadTypes DEF LastRead

(* Positions are never taken back, and a request forgets what it read or    *)
(* reads anew.                                                             *)
LEMMA SeenStep ==
    ASSUME TypeOK, SeenIssued, [Next]_vars
    PROVE  SeenIssued'
<1>types. channel \in ChannelRow /\ req \in [Requests -> Request]
          /\ channel.last \in Nat /\ \A r \in Requests : req[r].seen \in Nat
  BY DEF TypeOK, ChannelRow, Request
<1>last. channel'.last >= channel.last
  <2>1. ASSUME NEW plan, NEW gen, NEW upTo, NEW last, CommitChannel(plan, gen, upTo, last)
        PROVE  channel'.last = channel.last
    BY <2>1, <1>types DEF CommitChannel, ChannelRow
  <2>2. ASSUME NEW r \in Requests, Commit(r) \/ SwapPointer(r)
        PROVE  channel'.last = channel.last
    BY <2>1, <2>2 DEF Commit, SwapPointer
  <2>3. ASSUME NEW r \in Requests, UploadStep(r), ~Commit(r) PROVE channel' = channel
    BY <2>3 DEF UploadStep, StartSave, PlanSave, PutBytes, ReadPosition, RefuseCommit,
                RemoveOwnBlob, StartThumb, PutThumb, CommitThumb, BeginParts,
                MintParts, InsertSession, AssembleParts, PlanComplete,
                StartComplete, chanVars
  <2>4. ASSUME NEW r \in Requests, HistoryStep(r), ~SwapPointer(r) PROVE channel' = channel
    BY <2>4 DEF HistoryStep, StartRestore, VersionNotFound, StartDelete,
                DeleteForever, RemoveStaleBlob, RemoveStaleThumb, chanVars
  <2>5. ASSUME ChannelStep PROVE channel'.last >= channel.last
    BY <2>5, <1>types DEF ChannelStep, Join, Leave, NextChannelSeq, InsertMessage,
                          LoseMessage, ChannelRow
  <2>6. ASSUME \/ UNCHANGED vars
               \/ \E r \in Requests : Crash(r)
               \/ \E s \in sessions : FillSession(s) \/ DropSession(s)
               \/ \E value \in BOOLEAN : SetTrashed(value)
        PROVE  channel' = channel
    BY <2>6 DEF vars, Crash, FillSession, DropSession, SetTrashed, chanVars
  <2> QED
    BY <1>types, <2>2, <2>3, <2>4, <2>5, <2>6 DEF Next
<1>keep. ASSUME NEW r \in Requests,
                \A other \in Requests \ {r} : req'[other] = req[other],
                req'[r].seen \in {0, req[r].seen, channel.last}
         PROVE  SeenIssued'
  <2> SUFFICES ASSUME NEW other \in Requests
               PROVE  req'[other].seen <= channel'.last
    BY DEF SeenIssued
  <2>1. req[other].seen <= channel.last /\ req[r].seen <= channel.last
    BY DEF SeenIssued
  <2>2. channel'.last \in Int
    BY <1>last, TypeStep DEF TypeOK, ChannelRow
  <2> QED
    BY <1>keep, <1>types, <1>last, <2>1, <2>2
<1>idle. Idle.seen = 0
  BY DEF Idle
<1>done. ASSUME NEW stale, NEW staleThumb
         PROVE  RemovingOrDone(stale, staleThumb).seen = 0
  BY <1>idle DEF RemovingOrDone, Idle
<1>1. ASSUME NEW r \in Requests, UploadStep(r), ~ReadPosition(r) PROVE SeenIssued'
  <2>1. ASSUME \/ \E kind \in SaveKinds, upTo \in 0..MaxPosts : StartSave(r, kind, upTo)
               \/ StartThumb(r) \/ BeginParts(r)
               \/ RemoveOwnBlob(r) \/ CommitThumb(r) \/ InsertSession(r)
        PROVE  SeenIssued'
    <3>1. req'[r].seen = 0 /\ \A other \in Requests \ {r} : req'[other] = req[other]
      BY <2>1, <1>types, <1>idle DEF StartSave, StartThumb, BeginParts, RemoveOwnBlob,
                                     CommitThumb, InsertSession, Finish, Idle
    <3> QED
      BY <3>1, <1>keep
  <2>2. ASSUME \/ \E alone \in BOOLEAN : PlanSave(r, alone)
               \/ PutBytes(r) \/ RefuseCommit(r) \/ PutThumb(r) \/ MintParts(r)
               \/ AssembleParts(r) \/ PlanComplete(r)
        PROVE  SeenIssued'
    <3>1. /\ req'[r].seen = req[r].seen
          /\ \A other \in Requests \ {r} : req'[other] = req[other]
      <4>1. CASE \E alone \in BOOLEAN : PlanSave(r, alone)
        <5>1. PICK alone \in BOOLEAN, n \in 1..MaxMint :
                req' = [req EXCEPT ![r].pc = "streaming", ![r].gen = n,
                                   ![r].plan = ChannelPlan(req[r].kind, alone)]
          BY <4>1 DEF PlanSave
        <5> QED
          BY <5>1, <1>types DEF Request
      <4>2. CASE MintParts(r)
        BY <4>2, <1>types DEF MintParts, Request
      <4>3. CASE PutBytes(r) \/ RefuseCommit(r) \/ PutThumb(r) \/ AssembleParts(r)
        BY <4>3, <1>types DEF PutBytes, RefuseCommit, PutThumb, AssembleParts, Request
      <4>4. CASE PlanComplete(r)
        BY <4>4, <1>types DEF PlanComplete, Request
      <4> QED
        BY <2>2, <4>1, <4>2, <4>3, <4>4
    <3> QED
      BY <3>1, <1>keep
  <2>3. ASSUME NEW s \in sessions, StartComplete(r, s) PROVE SeenIssued'
    <3>1. /\ req'[r].seen \in {0, req[r].seen}
          /\ \A other \in Requests \ {r} : req'[other] = req[other]
      <4>1. CASE req' = req
        BY <4>1
      <4>2. CASE req' # req
        <5>1. req' = [req EXCEPT ![r] =
                  [Idle EXCEPT !.pc = "streaming", !.kind = "complete",
                               !.gen = s.gen, !.base = s.base,
                               !.baseUp = s.baseUp]]
          BY <2>3, <4>2 DEF StartComplete
        <5> QED
          BY <5>1, <1>types DEF Idle
      <4> QED
        BY <4>1, <4>2
    <3> QED
      BY <3>1, <1>keep
  <2>4. ASSUME Commit(r) PROVE SeenIssued'
    <3>1. PICK stale, staleThumb :
            req' = [req EXCEPT ![r] = RemovingOrDone(stale, staleThumb)]
      BY <2>4 DEF Commit
    <3> QED
      BY <3>1, <1>types, <1>done, <1>keep
  <2> QED
    BY <1>1, <2>1, <2>2, <2>3, <2>4 DEF UploadStep
<1>2. ASSUME NEW r \in Requests, ReadPosition(r) PROVE SeenIssued'
  <2>1. PICK plan : req' = [req EXCEPT ![r].pc = "claimed",
                                       ![r].seen = channel.last, ![r].plan = plan]
    BY <1>2 DEF ReadPosition
  <2>2. /\ req'[r].seen = channel.last
        /\ \A other \in Requests \ {r} : req'[other] = req[other]
    BY <2>1, <1>types DEF Request
  <2> QED
    BY <2>2, <1>keep
<1>3. ASSUME NEW r \in Requests, HistoryStep(r) PROVE SeenIssued'
  <2>1. ASSUME \/ \E target \in 0..MaxMint : StartRestore(r, target)
               \/ VersionNotFound(r) \/ StartDelete(r)
        PROVE  SeenIssued'
    <3>1. req'[r].seen = 0 /\ \A other \in Requests \ {r} : req'[other] = req[other]
      <4>1. CASE \E target \in 0..MaxMint : StartRestore(r, target)
        BY <4>1, <1>types DEF StartRestore, Idle
      <4>2. CASE VersionNotFound(r)
        BY <4>2, <1>types, <1>idle DEF VersionNotFound, Finish
      <4>3. CASE StartDelete(r)
        BY <4>3, <1>types DEF StartDelete, Idle
      <4> QED
        BY <2>1, <4>1, <4>2, <4>3
    <3> QED
      BY <3>1, <1>keep
  <2>2. ASSUME \/ SwapPointer(r) \/ DeleteForever(r)
               \/ \E g \in req[r].stale : RemoveStaleBlob(r, g)
               \/ RemoveStaleThumb(r)
        PROVE  SeenIssued'
    <3>1. PICK stale, staleThumb :
            req' = [req EXCEPT ![r] = RemovingOrDone(stale, staleThumb)]
      BY <2>2 DEF SwapPointer, DeleteForever, RemoveStaleBlob, RemoveStaleThumb
    <3> QED
      BY <3>1, <1>types, <1>done, <1>keep
  <2> QED
    BY <1>3, <2>1, <2>2 DEF HistoryStep
<1>4. ASSUME NEW r \in Requests, Crash(r) PROVE SeenIssued'
  <2>1. req'[r].seen = 0 /\ \A other \in Requests \ {r} : req'[other] = req[other]
    BY <1>4, <1>types, <1>idle DEF Crash, Finish
  <2> QED
    BY <2>1, <1>keep
<1>5. ASSUME \/ UNCHANGED vars \/ ChannelStep
             \/ \E s \in sessions : FillSession(s) \/ DropSession(s)
             \/ \E value \in BOOLEAN : SetTrashed(value)
      PROVE  SeenIssued'
  <2>1. req' = req
    BY <1>5 DEF vars, FillSession, DropSession, SetTrashed, ChannelStep, Join, Leave,
                NextChannelSeq, InsertMessage, LoseMessage
  <2>2. CASE Requests = {}
    BY <2>2 DEF SeenIssued
  <2>3. CASE Requests # {}
    <3>1. PICK r \in Requests : TRUE
      BY <2>3
    <3> QED
      BY <2>1, <3>1, <1>keep
  <2> QED
    BY <2>2, <2>3
<1> QED
  BY <1>1, <1>2, <1>3, <1>4, <1>5 DEF Next

(* Markers is inductive. *)
LEMMA MarkersStep ==
    ASSUME TypeOK, Markers, SeenIssued, [Next]_vars
    PROVE  Markers'
<1>types. channel \in ChannelRow /\ log \subseteq Nat /\ unlogged \subseteq Nat
          /\ req \in [Requests -> Request]
  BY DEF TypeOK
<1>quiet. ASSUME UNCHANGED chanVars PROVE Markers'
  BY <1>quiet DEF Markers, chanVars
<1>1. ASSUME NEW r \in Requests, Commit(r) PROVE Markers'
  <2>1. req[r].gen \in Nat /\ req[r].upTo \in Nat
    BY <1>types DEF Request
  <2>2. CommitChannel(PlanKept(r), req[r].gen, req[r].upTo, LastRead(r))
    BY <1>1 DEF Commit
  <2>3. (Isolated => unlogged = {}) /\ unlogged' = unlogged
    BY <1>1 DEF Commit, MayRun
  <2> QED
    BY <2>1, <2>2, <2>3, LastReadIssued, CommitChannelMarkers
<1>2. ASSUME NEW r \in Requests, SwapPointer(r) PROVE Markers'
  <2>1. req[r].gen \in Nat /\ 0 \in Nat
    BY <1>types DEF Request
  <2>2. CommitChannel(PlanKept(r), req[r].gen, 0, LastRead(r))
    BY <1>2 DEF SwapPointer
  <2>3. (Isolated => unlogged = {}) /\ unlogged' = unlogged
    BY <1>2 DEF SwapPointer, MayRun
  <2> QED
    BY <2>1, <2>2, <2>3, LastReadIssued, CommitChannelMarkers
<1>3. ASSUME NEW r \in Requests, UploadStep(r), ~Commit(r) PROVE Markers'
  <2>1. UNCHANGED chanVars
    BY <1>3 DEF UploadStep, StartSave, PlanSave, PutBytes, ReadPosition, RefuseCommit,
                RemoveOwnBlob, StartThumb, PutThumb, CommitThumb, BeginParts,
                MintParts, InsertSession, AssembleParts, PlanComplete,
                StartComplete
  <2> QED
    BY <2>1, <1>quiet
<1>4. ASSUME NEW r \in Requests, HistoryStep(r), ~SwapPointer(r) PROVE Markers'
  <2>1. UNCHANGED chanVars
    BY <1>4 DEF HistoryStep, StartRestore, VersionNotFound, StartDelete,
                DeleteForever, RemoveStaleBlob, RemoveStaleThumb
  <2> QED
    BY <2>1, <1>quiet
<1>5. ASSUME NEW c \in Conns, NextChannelSeq(c) PROVE Markers'
  <2>1. /\ channel' = [channel EXCEPT !.last = channel.last + 1]
        /\ unlogged' = unlogged \cup {channel.last + 1} /\ log' = log
    BY <1>5 DEF NextChannelSeq
  <2> QED
    BY <2>1, <1>types DEF Markers, ChannelRow
<1>6. ASSUME NEW c \in Conns, Join(c) \/ Leave(c) PROVE Markers'
  <2>1. /\ channel' = [channel EXCEPT !.exists = TRUE] \/ channel' = channel
        /\ unlogged' = unlogged /\ log' = log
    BY <1>6 DEF Join, Leave
  <2> QED
    BY <2>1, <1>types DEF Markers, ChannelRow
<1>7. ASSUME NEW s \in unlogged, InsertMessage(s) \/ LoseMessage(s) PROVE Markers'
  BY <1>7 DEF InsertMessage, LoseMessage, Markers
<1>8. ASSUME UNCHANGED vars PROVE Markers'
  BY <1>8, <1>quiet DEF vars, chanVars
<1>9. ASSUME \/ \E r \in Requests : Crash(r)
             \/ \E s \in sessions : FillSession(s) \/ DropSession(s)
             \/ \E value \in BOOLEAN : SetTrashed(value)
      PROVE  Markers'
  <2>1. UNCHANGED chanVars
    BY <1>9 DEF Crash, FillSession, DropSession, SetTrashed
  <2> QED
    BY <2>1, <1>quiet
<1> QED
  BY <1>1, <1>2, <1>3, <1>4, <1>5, <1>6, <1>7, <1>8, <1>9 DEF Next, ChannelStep

(* Whatever positions clients name and however posts and saves interleave,  *)
(* a marker is a position the channel issued; in one process no row at or   *)
(* below the trim is left for a joiner.                                     *)
THEOREM MarkersStayWithinLog == Spec => []MarkersWithinLog
<1>1. Init => TypeOK /\ Markers /\ SeenIssued
  <2>1. ASSUME Init PROVE Markers /\ SeenIssued
    BY <2>1 DEF Init, Markers, SeenIssued, Idle
  <2> QED
    BY <2>1, InitType
<1>2. TypeOK /\ Markers /\ SeenIssued /\ [Next]_vars => (TypeOK /\ Markers /\ SeenIssued)'
  BY TypeStep, MarkersStep, SeenStep
<1>3. Markers => MarkersWithinLog
  BY DEF Markers, MarkersWithinLog
<1> QED
  BY <1>1, <1>2, <1>3, PTL DEF Spec

-----------------------------------------------------------------------------

(* The channel's part of a transaction drops rows only up to the position   *)
(* it records beside the new generation.                                    *)
LEMMA CommitChannelTrims ==
    ASSUME TypeOK, Markers, NEW plan, NEW gen \in Nat, NEW upTo \in Nat,
           CommitChannel(plan, gen, upTo, channel.last), log \ log' # {}
    PROVE  /\ channel'.snapGen = gen
           /\ \A s \in log \ log' : s <= channel'.snapSeq
<1>1. channel \in ChannelRow /\ log \subseteq Nat
  BY DEF TypeOK
<1> DEFINE bound == AtMost(upTo, channel.last)
<1>2. bound \in Nat
  BY <1>1 DEF AtMost, ChannelRow
<1>3. CASE plan = "purge"
  <2>1. channel' = [channel EXCEPT
            !.contentGen = gen, !.contentSeq = channel.last,
            !.snapGen = gen, !.snapSeq = channel.last]
    BY <1>3 DEF CommitChannel
  <2>2. channel'.snapGen = gen /\ channel'.snapSeq = channel.last
    BY <2>1, <1>1 DEF ChannelRow
  <2>3. \A s \in log : s <= channel.last
    BY <1>1 DEF Markers, ChannelRow
  <2> QED
    BY <2>2, <2>3
<1>4. CASE plan = "checkpoint" /\ bound > 0
  <2>1. log' = {s \in log : s > bound} /\ channel' = [channel EXCEPT
            !.contentGen = gen, !.contentSeq = bound,
            !.snapGen = gen, !.snapSeq = bound]
    BY <1>4 DEF CommitChannel
  <2>2. channel'.snapGen = gen /\ channel'.snapSeq = bound
    BY <2>1, <1>1 DEF ChannelRow
  <2>3. \A s \in log \ log' : s <= bound
    BY <2>1, <1>1, <1>2
  <2> QED
    BY <2>2, <2>3
<1>5. CASE plan # "purge" /\ ~(plan = "checkpoint" /\ bound > 0)
  <2>1. log' = log
    BY <1>5 DEF CommitChannel
  <2> QED
    BY <2>1
<1> QED
  BY <1>3, <1>4, <1>5

(* Only the two transactions that move the pointer take rows out of the log. *)
LEMMA TrimStep ==
    ASSUME Isolated, TypeOK, Markers, Names, Storage, [Next]_vars, log \ log' # {}
    PROVE  /\ file'.generation # file.generation
           /\ channel'.snapGen = file'.generation
           /\ \A s \in log \ log' : s <= channel'.snapSeq
<1>types. file \in FileRow /\ req \in [Requests -> Request]
  BY DEF TypeOK
<1>1. ASSUME NEW r \in Requests, Commit(r)
      PROVE  /\ file'.generation # file.generation
             /\ channel'.snapGen = file'.generation
             /\ \A s \in log \ log' : s <= channel'.snapSeq
  <2>1. /\ req[r].gen \in Nat /\ req[r].upTo \in Nat
        /\ Writing(r)
    BY <1>1, <1>types DEF Request, Commit, Writing, SaveKinds
  <2>2. file'.generation = req[r].gen
    BY <1>1, <1>types DEF Commit, FileRow
  <2>3. req[r].gen # file.generation
    BY <2>1 DEF Names, HeldAreUnknown, Pointed
  <2>4. PICK plan : CommitChannel(plan, req[r].gen, req[r].upTo, channel.last)
    BY <1>1 DEF Commit, LastRead
  <2> QED
    BY <2>1, <2>2, <2>3, <2>4, CommitChannelTrims
<1>2. ASSUME NEW r \in Requests, SwapPointer(r)
      PROVE  /\ file'.generation # file.generation
             /\ channel'.snapGen = file'.generation
             /\ \A s \in log \ log' : s <= channel'.snapSeq
  <2>1. req[r].gen \in Nat /\ 0 \in Nat
    BY <1>types DEF Request
  <2>2. file'.generation = req[r].gen /\ req[r].gen \in versions
    BY <1>2, <1>types DEF SwapPointer, FileRow
  <2>3. req[r].gen # file.generation
    BY <2>2 DEF Storage
  <2>4. PICK plan : CommitChannel(plan, req[r].gen, 0, channel.last)
    BY <1>2 DEF SwapPointer, LastRead
  <2> QED
    BY <2>1, <2>2, <2>3, <2>4, CommitChannelTrims
<1>3. ASSUME NEW r \in Requests, UploadStep(r), ~Commit(r) PROVE log' = log
  BY <1>3 DEF UploadStep, StartSave, PlanSave, PutBytes, ReadPosition, RefuseCommit,
              RemoveOwnBlob, StartThumb, PutThumb, CommitThumb, BeginParts,
              MintParts, InsertSession, AssembleParts, PlanComplete,
              StartComplete, chanVars
<1>4. ASSUME NEW r \in Requests, HistoryStep(r), ~SwapPointer(r) PROVE log' = log
  BY <1>4 DEF HistoryStep, StartRestore, VersionNotFound, StartDelete,
              DeleteForever, RemoveStaleBlob, RemoveStaleThumb, chanVars
<1>5. ASSUME ChannelStep PROVE log \subseteq log'
  BY <1>5 DEF ChannelStep, Join, Leave, NextChannelSeq, InsertMessage, LoseMessage
<1>6. ASSUME \/ UNCHANGED vars
             \/ \E r \in Requests : Crash(r)
             \/ \E s \in sessions : FillSession(s) \/ DropSession(s)
             \/ \E value \in BOOLEAN : SetTrashed(value)
      PROVE  log' = log
  BY <1>6 DEF vars, Crash, FillSession, DropSession, SetTrashed, chanVars
<1> QED
  BY <1>1, <1>2, <1>3, <1>4, <1>5, <1>6 DEF Next

(* No page can have the log trimmed without a save of its own committing:   *)
(* rows go in the transaction that moves the pointer, up to the position    *)
(* recorded beside the new generation, and no further.                      *)
THEOREM LogIsTrimmedByCommitsOnly ==
    ASSUME ~DuplicateCompletes, Isolated
    PROVE  Spec => TrimOnlyWithCommit
<1> DEFINE Trim == log \ log' # {} =>
              /\ file'.generation # file.generation
              /\ channel'.snapGen = file'.generation
              /\ \A s \in log \ log' : s <= channel'.snapSeq
<1>1. Init => Markers /\ SeenIssued
  BY DEF Init, Markers, SeenIssued, Idle
<1>2. TypeOK /\ Markers /\ SeenIssued /\ [Next]_vars => (Markers /\ SeenIssued)'
  BY MarkersStep, SeenStep
<1>3. TypeOK /\ Markers /\ Names /\ Storage /\ [Next]_vars => [Trim]_vars
  BY TrimStep
<1>4. Spec => [](TypeOK /\ Names /\ Storage)
  BY StorageInvariant
<1> QED
  BY <1>1, <1>2, <1>3, <1>4, PTL DEF Spec, TrimOnlyWithCommit

-----------------------------------------------------------------------------
(* Retention keeps what a save or a restore displaces                       *)

(* Pruning keeps as many of the rows above one as there are, up to the      *)
(* limit: the ones it drops have at least that many above them.             *)
LEMMA RetainedAbove ==
    ASSUME NEW rows, rows \subseteq Nat, IsFiniteSet(rows), NEW g \in Nat,
           Cardinality({h \in rows : h > g}) >= MaxVersions
    PROVE  Cardinality({h \in Retained(rows) : h > g}) >= MaxVersions
<1> DEFINE Above(u) == {h \in rows : h > u}
           kept == {h \in Retained(rows) : h > g}
           T == {Cardinality(Above(u)) : u \in Above(g) \ kept}
           Less == OpToRel(<, Nat)
<1>1. \A u \in Nat : IsFiniteSet(Above(u)) /\ Cardinality(Above(u)) \in Nat
  BY FS_Subset, FS_CardinalityType
<1>2. kept \in SUBSET Above(g)
  BY DEF Retained
<1>3. IsFiniteSet(kept) /\ Cardinality(kept) \in Nat
  BY <1>1, <1>2, FS_Subset, FS_CardinalityType
<1>4. MaxVersions \in Nat
  BY ConstantsAssumption
<1>5. SUFFICES ASSUME Cardinality(kept) < MaxVersions PROVE FALSE
  BY <1>3, <1>4
<1>6. Above(g) \ kept # {}
  BY <1>2, <1>3, <1>4, <1>5
<1>7. T \subseteq Nat /\ T # {}
  BY <1>1, <1>6
<1>8. PICK n \in T : \A m \in T : ~(m < n)
  <2>1. \E n \in T : \A m \in T : <<m, n>> \notin Less
    <3>1. IsWellFoundedOn(Less, Nat)
      BY NatLessThanWellFounded
    <3> HIDE DEF T, Less
    <3> QED
      BY <3>1, <1>7, WFMin
  <2>2. \A m, n \in Nat : m < n => <<m, n>> \in Less
    BY DEF OpToRel
  <2> HIDE DEF T, Less
  <2> QED
    BY <2>1, <2>2, <1>7
<1>9. PICK u \in Above(g) \ kept : n = Cardinality(Above(u))
  OBVIOUS
<1>10. Above(u) \subseteq kept
  <2> SUFFICES ASSUME NEW v \in Above(u), v \notin kept PROVE FALSE
    OBVIOUS
  <2>1. u \in Nat /\ v \in Nat /\ v > u /\ u > g /\ v \in rows
    BY <1>9
  <2>2. v \in Above(g) \ kept
    BY <2>1
  <2>5. Above(v) \in SUBSET Above(u) /\ v \in Above(u) /\ v \notin Above(v)
    <3>1. \A h \in rows : h > v => h > u
      BY <2>1
    <3>2. ~(v > v)
      BY <2>1
    <3> HIDE DEF kept
    <3> QED
      BY <3>1, <3>2, <2>1
  <2>3. Cardinality(Above(v)) < Cardinality(Above(u))
    <3>1. IsFiniteSet(Above(u)) /\ IsFiniteSet(Above(v))
      BY <1>1, <2>1
    <3>2. /\ Cardinality(Above(v)) <= Cardinality(Above(u))
          /\ Cardinality(Above(u)) = Cardinality(Above(v)) => Above(u) = Above(v)
      <4> HIDE DEF Above
      <4> QED
        BY <3>1, <2>5, FS_Subset
    <3>3. Cardinality(Above(u)) \in Nat /\ Cardinality(Above(v)) \in Nat
      BY <1>1, <2>1
    <3> QED
      BY <3>2, <3>3, <2>5
  <2>4. Cardinality(Above(v)) \in T
    BY <2>2
  <2> QED
    BY <2>3, <2>4, <1>8, <1>9
<1>11. Cardinality(Above(u)) < MaxVersions
  <2>1. Cardinality(Above(u)) <= Cardinality(kept)
    <3> HIDE DEF Above, kept
    <3> QED
      BY <1>10, <1>3, FS_Subset
  <2>2. Cardinality(Above(u)) \in Nat
    BY <1>1
  <2> QED
    BY <2>1, <2>2, <1>3, <1>4, <1>5
<1>12. u \in Retained(rows)
  BY <1>11 DEF Retained
<1> QED
  BY <1>9, <1>12

(* The versions are finitely many, and no save that keeps none is under way. *)
KeepsInv ==
    /\ IsFiniteSet(versions)
    /\ \A r \in Requests : req[r].kind # "content" /\ req[r].plan # "content"

(* A plan is "content" for content saves only.                              *)
LEMMA PlanOfOthers ==
    ASSUME NEW kind, kind # "content", NEW alone
    PROVE  ChannelPlan(kind, alone) # "content"
<1>1. CASE kind = "checkpoint"
  BY <1>1 DEF ChannelPlan
<1>2. CASE kind # "checkpoint"
  <2>1. ChannelPlan(kind, alone) = IF live = {} THEN "purge" ELSE "none"
    BY <1>2 DEF ChannelPlan
  <2> QED
    BY <2>1
<1> QED
  BY <1>1, <1>2

(* A step that leaves the versions alone, or changes them by one row, and   *)
(* gives no request a content plan.                                         *)
LEMMA KeepsOneRequest ==
    ASSUME KeepsInv, NEW r \in Requests, NEW h,
           versions' \subseteq versions \cup {h},
           \A other \in Requests \ {r} : req'[other] = req[other],
           req'[r].kind # "content", req'[r].plan # "content"
    PROVE  KeepsInv'
<1>1. IsFiniteSet(versions \cup {h})
  BY FS_AddElement DEF KeepsInv
<1>2. IsFiniteSet(versions')
  BY <1>1, FS_Subset
<1> QED
  BY <1>2 DEF KeepsInv

LEMMA DoneKeepsNoPlan ==
    ASSUME NEW stale, NEW staleThumb
    PROVE  /\ RemovingOrDone(stale, staleThumb).kind # "content"
           /\ RemovingOrDone(stale, staleThumb).plan # "content"
BY DEF RemovingOrDone, Idle

LEMMA KeepsStep ==
    ASSUME "content" \notin Offered, TypeOK, KeepsInv, [Next]_vars
    PROVE  KeepsInv'
<1>types. req \in [Requests -> Request] /\ file \in FileRow
  BY DEF TypeOK
<1>1. ASSUME NEW r \in Requests, Commit(r) PROVE KeepsInv'
  <2>1. versions' \subseteq versions \cup {file.generation}
    BY <1>1 DEF Commit, Retained
  <2>2. /\ \A other \in Requests \ {r} : req'[other] = req[other]
        /\ \E stale, staleThumb : req'[r] = RemovingOrDone(stale, staleThumb)
    BY <1>1, <1>types DEF Commit
  <2> QED
    BY <2>1, <2>2, DoneKeepsNoPlan, KeepsOneRequest
<1>2. ASSUME NEW r \in Requests, SwapPointer(r) PROVE KeepsInv'
  <2>1. versions' \subseteq versions \cup {req[r].base}
    BY <1>2 DEF SwapPointer
  <2>2. /\ \A other \in Requests \ {r} : req'[other] = req[other]
        /\ \E stale, staleThumb : req'[r] = RemovingOrDone(stale, staleThumb)
    BY <1>2, <1>types DEF SwapPointer
  <2> QED
    BY <2>1, <2>2, DoneKeepsNoPlan, KeepsOneRequest
<1>3. ASSUME NEW r \in Requests, DeleteForever(r) PROVE KeepsInv'
  <2>1. versions' \subseteq versions \cup {0}
    BY <1>3 DEF DeleteForever
  <2>2. /\ \A other \in Requests \ {r} : req'[other] = req[other]
        /\ \E stale, staleThumb : req'[r] = RemovingOrDone(stale, staleThumb)
    BY <1>3, <1>types DEF DeleteForever
  <2> QED
    BY <2>1, <2>2, DoneKeepsNoPlan, KeepsOneRequest
<1>4. ASSUME NEW r \in Requests,
             \/ \E g \in req[r].stale : RemoveStaleBlob(r, g)
             \/ RemoveStaleThumb(r)
      PROVE  KeepsInv'
  <2>1. versions' \subseteq versions \cup {0}
    BY <1>4 DEF RemoveStaleBlob, RemoveStaleThumb
  <2>2. /\ \A other \in Requests \ {r} : req'[other] = req[other]
        /\ \E stale, staleThumb : req'[r] = RemovingOrDone(stale, staleThumb)
    BY <1>4, <1>types DEF RemoveStaleBlob, RemoveStaleThumb
  <2> QED
    BY <2>1, <2>2, DoneKeepsNoPlan, KeepsOneRequest
<1>5. ASSUME NEW r \in Requests, NEW kind \in SaveKinds, NEW upTo \in 0..MaxPosts,
             StartSave(r, kind, upTo)
      PROVE  KeepsInv'
  <2>1. kind # "content" /\ versions' = versions
        /\ \A other \in Requests \ {r} : req'[other] = req[other]
    BY <1>5, <1>types DEF StartSave
  <2>2. req'[r].kind = kind /\ req'[r].plan = "none"
    BY <1>5, <1>types DEF StartSave, Idle
  <2> QED
    BY <2>1, <2>2, KeepsOneRequest
<1>6. ASSUME NEW r \in Requests, NEW alone \in BOOLEAN, PlanSave(r, alone)
      PROVE  KeepsInv'
  <2>1. PICK n : req' = [req EXCEPT ![r].pc = "streaming", ![r].gen = n,
                             ![r].plan = ChannelPlan(req[r].kind, alone)]
    BY <1>6 DEF PlanSave
  <2>2. /\ \A other \in Requests \ {r} : req'[other] = req[other]
        /\ req'[r].kind = req[r].kind
        /\ req'[r].plan = ChannelPlan(req[r].kind, alone)
    BY <2>1, <1>types DEF Request
  <2>3. versions' \subseteq versions \cup {0}
    BY <1>6 DEF PlanSave
  <2>4. req[r].kind # "content"
    BY DEF KeepsInv
  <2> QED
    BY <2>2, <2>3, <2>4, PlanOfOthers, KeepsOneRequest
<1>7. ASSUME NEW r \in Requests, PlanComplete(r) PROVE KeepsInv'
  <2>1. req' = [req EXCEPT ![r].pc = "stored",
                           ![r].plan = ChannelPlan("complete", FALSE)]
    BY <1>7 DEF PlanComplete
  <2>2. /\ \A other \in Requests \ {r} : req'[other] = req[other]
        /\ req'[r].kind = req[r].kind
        /\ req'[r].plan = ChannelPlan("complete", FALSE)
    BY <2>1, <1>types DEF Request
  <2>3. versions' \subseteq versions \cup {0}
    BY <1>7 DEF PlanComplete
  <2>4. req[r].kind # "content"
    BY DEF KeepsInv
  <2> QED
    BY <2>2, <2>3, <2>4, PlanOfOthers, KeepsOneRequest
<1>8. ASSUME NEW r \in Requests,
             \/ RemoveOwnBlob(r) \/ CommitThumb(r) \/ InsertSession(r)
             \/ VersionNotFound(r) \/ Crash(r) \/ StartThumb(r)
             \/ BeginParts(r) \/ (\E s \in sessions : StartComplete(r, s))
             \/ (\E target \in 0..MaxMint : StartRestore(r, target))
             \/ StartDelete(r)
      PROVE  KeepsInv'
  <2>1. versions' = versions
    BY <1>8 DEF RemoveOwnBlob, CommitThumb, InsertSession, VersionNotFound, Crash,
                StartThumb, BeginParts, StartComplete, StartRestore, StartDelete
  <2>2. \/ req' = req
        \/ /\ \A other \in Requests \ {r} : req'[other] = req[other]
           /\ req'[r].kind \notin SaveKinds /\ req'[r].plan \in {"none", "purge"}
    <3>1. CASE RemoveOwnBlob(r) \/ CommitThumb(r) \/ InsertSession(r)
               \/ VersionNotFound(r) \/ Crash(r)
      BY <3>1, <1>types DEF RemoveOwnBlob, CommitThumb, InsertSession,
             VersionNotFound, Crash, Finish, Idle, SaveKinds
    <3>2. CASE StartThumb(r) \/ BeginParts(r)
      <4>1. CASE StartThumb(r)
        BY <4>1, <1>types DEF StartThumb, Idle, SaveKinds
      <4>2. CASE BeginParts(r)
        BY <4>2, <1>types DEF BeginParts, Idle, SaveKinds
      <4> QED
        BY <3>2, <4>1, <4>2
    <3>3. CASE \E s \in sessions : StartComplete(r, s)
      <4>1. PICK s \in sessions : StartComplete(r, s)
        BY <3>3
      <4>2. CASE req' = req
        BY <4>2
      <4>3. CASE req' # req
        <5>1. req' = [req EXCEPT ![r] =
                  [Idle EXCEPT !.pc = "streaming", !.kind = "complete",
                               !.gen = s.gen, !.base = s.base,
                               !.baseUp = s.baseUp]]
          BY <4>1, <4>3 DEF StartComplete
        <5> QED
          BY <5>1, <1>types DEF Idle, SaveKinds
      <4> QED
        BY <4>2, <4>3
    <3>4. CASE \E target \in 0..MaxMint : StartRestore(r, target)
      BY <3>4, <1>types DEF StartRestore, Idle, SaveKinds
    <3>5. CASE StartDelete(r)
      BY <3>5, <1>types DEF StartDelete, Idle, SaveKinds
    <3> QED
      BY <1>8, <3>1, <3>2, <3>3, <3>4, <3>5
  <2>3. CASE req' = req
    BY <2>1, <2>3 DEF KeepsInv
  <2>4. CASE /\ \A other \in Requests \ {r} : req'[other] = req[other]
             /\ req'[r].kind \notin SaveKinds /\ req'[r].plan \in {"none", "purge"}
    BY <2>1, <2>4, KeepsOneRequest DEF SaveKinds
  <2> QED
    BY <2>2, <2>3, <2>4
<1>9. ASSUME NEW r \in Requests,
             \/ PutBytes(r) \/ RefuseCommit(r) \/ PutThumb(r) \/ MintParts(r)
             \/ AssembleParts(r) \/ ReadPosition(r)
      PROVE  KeepsInv'
  <2>1. /\ versions' = versions
        /\ \A other \in Requests \ {r} : req'[other] = req[other]
        /\ req'[r].kind = req[r].kind /\ req'[r].plan \in {req[r].plan, "none"}
    <3>1. CASE PutBytes(r) \/ RefuseCommit(r) \/ PutThumb(r) \/ AssembleParts(r)
      BY <3>1, <1>types DEF PutBytes, RefuseCommit, PutThumb, AssembleParts, Request
    <3>2. CASE MintParts(r)
      BY <3>2, <1>types DEF MintParts, Request
    <3>3. CASE ReadPosition(r)
      <4>1. PICK plan \in {req[r].plan, "none"} :
              req' = [req EXCEPT ![r].pc = "claimed", ![r].seen = channel.last,
                                 ![r].plan = plan]
        BY <3>3 DEF ReadPosition
      <4> QED
        BY <3>3, <4>1, <1>types DEF ReadPosition, Request
    <3> QED
      BY <1>9, <3>1, <3>2, <3>3
  <2>2. req[r].kind # "content" /\ req[r].plan # "content"
    BY DEF KeepsInv
  <2> QED
    BY <2>1, <2>2, KeepsOneRequest
<1>10. ASSUME \/ UNCHANGED vars \/ ChannelStep
              \/ \E s \in sessions : FillSession(s) \/ DropSession(s)
              \/ \E value \in BOOLEAN : SetTrashed(value)
       PROVE  KeepsInv'
  <2>1. UNCHANGED <<versions, req>>
    BY <1>10 DEF vars, ChannelStep, Join, Leave, NextChannelSeq, InsertMessage,
                 LoseMessage, FillSession, DropSession, SetTrashed
  <2> QED
    BY <2>1 DEF KeepsInv
<1> QED
  BY <1>1, <1>2, <1>3, <1>4, <1>5, <1>6, <1>7, <1>8, <1>9, <1>10
  DEF Next, UploadStep, HistoryStep

(* Only a commit and a restore move the pointer, and both keep what they    *)
(* move it from, unless retention has enough newer rows.                    *)
LEMMA DisplacedStep ==
    ASSUME Isolated, TypeOK, TypeOK', Storage, KeepsInv, KeepsInv', [Next]_vars,
           file.uploaded, file'.generation # file.generation
    PROVE  \/ file.generation \in versions'
           \/ Cardinality({g \in versions' : g > file.generation}) >= MaxVersions
<1>types. /\ req \in [Requests -> Request] /\ file \in FileRow
          /\ versions \subseteq Nat /\ MaxVersions \in Nat
  BY ConstantsAssumption DEF TypeOK
<1> DEFINE g == file.generation
<1>g. g \in Nat
  BY <1>types DEF FileRow
<1>1. ASSUME NEW r \in Requests, Commit(r)
      PROVE  g \in versions' \/ Cardinality({h \in versions' : h > g}) >= MaxVersions
  <2> DEFINE rows == versions \cup {g}
  <2>1. CASE MaxVersions = 0
    <3>1. IsFiniteSet({h \in versions' : h > g})
      BY FS_Subset DEF KeepsInv
    <3> QED
      BY <3>1, <2>1, FS_CardinalityType
  <2>2. CASE MaxVersions > 0
    <3>1. req[r].plan # "content" /\ req[r].baseUp
      BY <1>1 DEF Commit, ClaimGeneration, KeepsInv
    <3>2. versions' = Retained(rows)
      BY <1>1, <2>2, <3>1 DEF Commit, PlanKept
    <3>3. IsFiniteSet(rows) /\ rows \subseteq Nat
      BY <1>types, <1>g, FS_AddElement DEF KeepsInv
    <3>4. CASE Cardinality({h \in rows : h > g}) < MaxVersions
      BY <3>2, <3>4 DEF Retained
    <3>5. CASE ~(Cardinality({h \in rows : h > g}) < MaxVersions)
      <4>1. Cardinality({h \in rows : h > g}) \in Nat
        BY <3>3, FS_Subset, FS_CardinalityType
      <4>2. Cardinality({h \in rows : h > g}) >= MaxVersions
        BY <4>1, <3>5, <1>types
      <4> HIDE DEF rows, g
      <4> QED
        BY <4>2, <3>2, <3>3, <1>g, RetainedAbove
    <3> QED
      BY <3>4, <3>5
  <2> QED
    BY <2>1, <2>2, <1>types
<1>2. ASSUME NEW r \in Requests, SwapPointer(r) PROVE g \in versions'
  <2>1. req[r].base = g
    BY <1>2 DEF SwapPointer, Storage, SegmentsAreFresh
  <2>2. req[r].gen # g
    BY <1>2 DEF SwapPointer, Storage
  <2> QED
    BY <1>2, <2>1, <2>2 DEF SwapPointer
<1>3. ASSUME NEW r \in Requests, UploadStep(r), ~Commit(r)
      PROVE  file'.generation = g
  BY <1>3, <1>types
  DEF UploadStep, StartSave, PlanSave, PutBytes, ReadPosition, RefuseCommit,
      RemoveOwnBlob, StartThumb, PutThumb, CommitThumb, BeginParts,
      MintParts, InsertSession, AssembleParts, PlanComplete,
      StartComplete, FileRow
<1>4. ASSUME NEW r \in Requests, HistoryStep(r), ~SwapPointer(r)
      PROVE  file'.generation = g
  BY <1>4, <1>types
  DEF HistoryStep, StartRestore, VersionNotFound, StartDelete,
      DeleteForever, RemoveStaleBlob, RemoveStaleThumb, FileRow
<1>5. ASSUME \/ UNCHANGED vars \/ ChannelStep
             \/ \E r \in Requests : Crash(r)
             \/ \E s \in sessions : FillSession(s) \/ DropSession(s)
             \/ \E value \in BOOLEAN : SetTrashed(value)
      PROVE  file'.generation = g
  BY <1>5, <1>types
  DEF vars, ChannelStep, Join, Leave, NextChannelSeq, InsertMessage, LoseMessage,
      Crash, FillSession, DropSession, SetTrashed, FileRow
<1> QED
  BY <1>1, <1>2, <1>3, <1>4, <1>5 DEF Next

(* What a save or a restore moves the pointer from can be restored          *)
(* afterwards, for any limit on versions and however saves, part uploads,   *)
(* restores and deletes overlap in one process; content saves, which keep   *)
(* none by design, are left out.                                            *)
THEOREM DisplacedIsKept ==
    ASSUME ~DuplicateCompletes, Isolated, "content" \notin Offered
    PROVE  Spec => DisplacedContentKept
<1> DEFINE Kept == file.uploaded /\ file'.generation # file.generation =>
              \/ file.generation \in versions'
              \/ Cardinality({g \in versions' : g > file.generation})
                    >= MaxVersions
<1>1. Init => KeepsInv
  <2> SUFFICES ASSUME Init PROVE KeepsInv
    OBVIOUS
  <2>1. IsFiniteSet(versions)
    <3>1. versions = {} \/ \E g : versions = {g}
      BY DEF Init
    <3> QED
      BY <3>1, FS_EmptySet, FS_Singleton
  <2> QED
    BY <2>1 DEF Init, KeepsInv, Idle
<1>2. TypeOK /\ KeepsInv /\ [Next]_vars => KeepsInv'
  BY KeepsStep
<1>3. TypeOK /\ TypeOK' /\ Storage /\ KeepsInv /\ KeepsInv' /\ [Next]_vars => [Kept]_vars
  BY DisplacedStep
<1>4. Spec => [](TypeOK /\ Names /\ Storage)
  BY StorageInvariant
<1> QED
  BY <1>1, <1>2, <1>3, <1>4, PTL DEF Spec, DisplacedContentKept

=============================================================================
