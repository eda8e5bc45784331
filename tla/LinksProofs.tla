---------------------------- MODULE LinksProofs ----------------------------
(***************************************************************************)
(* What TLAPS proves of the two links of an account, the inbox strangers   *)
(* send to and the shares it hands out, for every number of submissions,   *)
(* calls, sizes and downloads.                                             *)
(***************************************************************************)
EXTENDS PublicLinks, FiniteSetTheorems, WellFoundedInduction, TLAPS

-----------------------------------------------------------------------------
(* Invariants *)

(* LinksTypeOK, strengthened: what arrived or was filed has data, so the   *)
(* sizes an accept or a visit reads are sizes of blobs.                    *)
InboxInv ==
    /\ InboxTypeOK
    /\ \A s \in Submissions : /\ row[s].uploaded => row[s].data # None
                              /\ filed[s].state = "live" => filed[s].data # None
TypeInv == LinksTypeOK /\ InboxInv

(* FiledOnce, strengthened with the accepts still on their way.            *)
OnceInv ==
    /\ \A s \in Submissions :
         filed[s].state # "none" =>
           row[s].state # "unused" /\ (row[s].state = "open" => row[s].consumed)
    /\ \A c \in Calls : call[c].pc = "accept" => row[call[c].sub].state # "unused"

(* Calls that carry bytes.                                                 *)
Uploading(c) == call[c].pc \in {"upload", "admitted", "stored"}
Previewing(c) == call[c].pc \in {"preview", "drawn", "previewed"}

(* DownloadsWithinLimit, strengthened: what is being served was claimed.   *)
Claimed == {c \in Calls : visit[c].pc = "claimed"}
CountInv ==
    IF share = NoVisit THEN served = 0 /\ Claimed = {}
    ELSE served + Cardinality(Claimed) <= share.count

-----------------------------------------------------------------------------
(* Types *)

(* What a call holds, by where it is.                                      *)
LEMMA CallShape ==
    ASSUME NEW x \in CallType
    PROVE  /\ x.pc \in {"upload", "admitted", "stored"} =>
                x \in [pc : {"upload", "admitted", "stored"}, sub : Submissions,
                       kind : Kinds, size : Sizes]
           /\ x.pc = "accept" =>
                x \in [pc : {"accept"}, sub : Submissions, data : Sizes,
                       thumb : Sizes \cup {None}]
           /\ x.pc \in {"discard", "removeData", "removeThumb"} =>
                x \in [pc : {"discard", "removeData", "removeThumb"}, sub : Submissions]
           /\ x.pc \in {"preview", "drawn", "previewed"} =>
                x \in [pc : {"preview", "drawn", "previewed"}, sub : Submissions, size : Sizes,
                       freed : Sizes \cup {None}]
BY DEF CallType, Idle

(* A call goes on within its shape.                                        *)
LEMMA CallGoesOn ==
    ASSUME NEW x \in CallType
    PROVE  /\ Idle \in CallType
           /\ \A pc \in {"upload", "admitted", "stored"} :
                x.pc \in {"upload", "admitted", "stored"} => [x EXCEPT !.pc = pc] \in CallType
           /\ \A pc \in {"discard", "removeData", "removeThumb"} :
                x.pc \in {"discard", "removeData", "removeThumb"}
                  => [x EXCEPT !.pc = pc] \in CallType
           /\ \A pc \in {"preview", "drawn", "previewed"} :
                x.pc \in {"preview", "drawn", "previewed"} => [x EXCEPT !.pc = pc] \in CallType
<1>1. Idle \in CallType
  BY DEF CallType
<1>2. ASSUME NEW pc \in {"upload", "admitted", "stored"},
             x.pc \in {"upload", "admitted", "stored"}
      PROVE  [x EXCEPT !.pc = pc] \in CallType
  BY <1>2, CallShape DEF CallType
<1>3. ASSUME NEW pc \in {"discard", "removeData", "removeThumb"},
             x.pc \in {"discard", "removeData", "removeThumb"}
      PROVE  [x EXCEPT !.pc = pc] \in CallType
  BY <1>3, CallShape DEF CallType
<1>4. ASSUME NEW pc \in {"preview", "drawn", "previewed"}, x.pc \in {"preview", "drawn", "previewed"}
      PROVE  [x EXCEPT !.pc = pc] \in CallType
  BY <1>4, CallShape DEF CallType
<1> QED
  BY <1>1, <1>2, <1>3, <1>4

(* The same of the call c of a well-typed state.                           *)
LEMMA CallHolds ==
    ASSUME InboxInv, NEW c \in Calls
    PROVE  /\ call[c] \in CallType
           /\ call[c].pc \in {"upload", "admitted", "stored"} =>
                call[c].sub \in Submissions /\ call[c].kind \in Kinds /\ call[c].size \in Sizes
           /\ call[c].pc = "accept" =>
                /\ call[c].sub \in Submissions /\ call[c].data \in Sizes
                /\ call[c].thumb \in Sizes \cup {None}
           /\ call[c].pc \in {"discard", "removeData", "removeThumb"} => call[c].sub \in Submissions
           /\ call[c].pc \in {"preview", "drawn", "previewed"} =>
                /\ call[c].sub \in Submissions /\ call[c].size \in Sizes
                /\ call[c].freed \in Sizes \cup {None}
<1>1. call[c] \in CallType
  BY DEF InboxInv, InboxTypeOK
<1>2. ASSUME call[c].pc \in {"upload", "admitted", "stored"}
      PROVE  call[c].sub \in Submissions /\ call[c].kind \in Kinds /\ call[c].size \in Sizes
  BY <1>1, <1>2, CallShape
<1>3. ASSUME call[c].pc = "accept"
      PROVE  /\ call[c].sub \in Submissions /\ call[c].data \in Sizes
             /\ call[c].thumb \in Sizes \cup {None}
  BY <1>1, <1>3, CallShape
<1>4. ASSUME call[c].pc \in {"discard", "removeData", "removeThumb"}
      PROVE  call[c].sub \in Submissions
  BY <1>1, <1>4, CallShape
<1>5. ASSUME call[c].pc \in {"preview", "drawn", "previewed"}
      PROVE  /\ call[c].sub \in Submissions /\ call[c].size \in Sizes
             /\ call[c].freed \in Sizes \cup {None}
  BY <1>1, <1>5, CallShape
<1> QED
  BY <1>1, <1>2, <1>3, <1>4, <1>5

LEMMA InboxTypeStep == InboxInv /\ [InboxNext]_inboxVars => InboxInv'
<1> SUFFICES ASSUME InboxInv, [InboxNext]_inboxVars PROVE InboxInv'
  OBVIOUS
<1>types. /\ link \in {"none", "open", "closed"}
          /\ row \in [Submissions -> Row] /\ filed \in [Submissions -> Filed]
          /\ blob \in [Submissions -> [Kinds -> Sizes \cup {None}]]
          /\ call \in [Calls -> CallType]
  BY DEF InboxInv, InboxTypeOK
<1>none. None \notin Sizes /\ Idle \in CallType /\ {"data", "thumb"} \subseteq Kinds
  BY InboxAssumption DEF None, CallType, Kinds
<1>1. CASE CreateRequest \/ Close
  BY <1>1 DEF CreateRequest, Close, InboxInv, InboxTypeOK
<1>2. ASSUME NEW c \in Calls, NEW next \in CallType, Goes(c, next),
             UNCHANGED <<link, row, filed, blob>>
      PROVE  InboxInv'
  BY <1>2 DEF Goes, InboxInv, InboxTypeOK
<1>3. ASSUME NEW c \in Calls,
             StartBegin(c) \/ CountPending(c) \/ AdmitUpload(c) \/ AdmitPreview(c) \/ Abandon(c)
      PROVE  InboxInv'
  <2>1. call[c] \in CallType /\ [pc |-> "begin"] \in CallType /\ [pc |-> "counted"] \in CallType
    BY <1>types DEF CallType
  <2>2. CASE StartBegin(c)
    BY <2>1, <2>2, <1>2 DEF StartBegin
  <2>3. CASE CountPending(c)
    BY <2>1, <2>3, <1>2, <1>none DEF CountPending, Ends
  <2>4. CASE AdmitUpload(c)
    <3>1. [call[c] EXCEPT !.pc = "admitted"] \in CallType
      BY <2>1, <2>4, CallGoesOn DEF AdmitUpload
    <3> QED
      BY <2>4, <3>1, <1>2, <1>none DEF AdmitUpload, Ends
  <2>5. CASE AdmitPreview(c)
    <3>1. [call[c] EXCEPT !.pc = "drawn"] \in CallType
      BY <2>1, <2>5, CallGoesOn DEF AdmitPreview
    <3> QED
      BY <2>5, <3>1, <1>2, <1>none DEF AdmitPreview, Ends
  <2>6. CASE Abandon(c)
    BY <2>6, <1>2, <1>none DEF Abandon, Ends
  <2> QED
    BY <1>3, <2>2, <2>3, <2>4, <2>5, <2>6
<1>4. ASSUME NEW c \in Calls, InsertSubmission(c) PROVE InboxInv'
  <2>1. PICK s \in Submissions : row' = [row EXCEPT ![s].state = "open"]
    BY <1>4 DEF InsertSubmission
  <2>2. row' \in [Submissions -> Row]
        /\ \A t \in Submissions : row'[t].uploaded = row[t].uploaded /\ row'[t].data = row[t].data
    BY <2>1, <1>types DEF Row
  <2> QED
    BY <1>4, <2>2, <1>types, <1>none DEF InsertSubmission, Ends, Goes, InboxInv, InboxTypeOK
<1>5. ASSUME NEW c \in Calls, NEW s \in Submissions, NEW kind \in Kinds, NEW size \in Sizes,
             StartUpload(c, s, kind, size)
      PROVE  InboxInv'
  <2>1. [pc |-> "upload", sub |-> s, kind |-> kind, size |-> size] \in CallType
    BY DEF CallType
  <2> QED
    BY <1>5, <2>1, <1>2 DEF StartUpload
<1>6. ASSUME NEW c \in Calls, PutSubmission(c) PROVE InboxInv'
  <2>0. call[c].pc = "admitted"
    BY <1>6 DEF PutSubmission
  <2>1. call[c].sub \in Submissions /\ call[c].kind \in Kinds /\ call[c].size \in Sizes
        /\ [call[c] EXCEPT !.pc = "stored"] \in CallType
    BY <2>0, CallHolds, CallGoesOn
  <2>2. blob' \in [Submissions -> [Kinds -> Sizes \cup {None}]]
    BY <1>6, <2>1, <1>types DEF PutSubmission
  <2> QED
    BY <1>6, <2>1, <2>2, <1>types DEF PutSubmission, Goes, InboxInv, InboxTypeOK
<1>7. ASSUME NEW c \in Calls, RecordSize(c) PROVE InboxInv'
  <2>1. call[c].sub \in Submissions /\ call[c].kind \in Kinds /\ call[c].size \in Sizes
    BY <1>7, CallHolds DEF RecordSize
  <2> DEFINE s == call[c].sub
  <2>2. \/ row' = row
        \/ row' = [row EXCEPT ![s] = [row[s] EXCEPT !.data = call[c].size, !.uploaded = TRUE]]
        \/ row' = [row EXCEPT ![s] = [row[s] EXCEPT !.thumb = call[c].size]]
    BY <1>7 DEF RecordSize
  <2>3. row' \in [Submissions -> Row]
        /\ \A t \in Submissions : row'[t].uploaded => row'[t].data # None
    <3>0. row[s] \in Row /\ (row[s].uploaded => row[s].data # None)
      BY <2>1, <1>types DEF InboxInv
    <3>1. [row[s] EXCEPT !.data = call[c].size, !.uploaded = TRUE] \in Row
      BY <2>1, <3>0 DEF Row
    <3>2. [row[s] EXCEPT !.thumb = call[c].size] \in Row
      BY <2>1, <3>0 DEF Row
    <3>3. [row[s] EXCEPT !.data = call[c].size, !.uploaded = TRUE].data # None
      BY <2>1, <3>0, <1>none DEF Row
    <3>4. [row[s] EXCEPT !.thumb = call[c].size].uploaded
             => [row[s] EXCEPT !.thumb = call[c].size].data # None
      BY <3>0 DEF Row
    <3> QED
      BY <2>1, <2>2, <3>1, <3>2, <3>3, <3>4, <1>types DEF InboxInv
  <2> QED
    BY <1>7, <2>3, <1>types, <1>none DEF RecordSize, Ends, Goes, InboxInv, InboxTypeOK
<1>8. ASSUME NEW c \in Calls, NEW s \in Submissions, StartAccept(c, s) PROVE InboxInv'
  <2>1. row[s].data \in Sizes /\ row[s].thumb \in Sizes \cup {None}
    BY <1>8, <1>types DEF StartAccept, Arrived, InboxInv, Row
  <2>2. [pc |-> "accept", sub |-> s, data |-> row[s].data, thumb |-> row[s].thumb] \in CallType
    BY <2>1 DEF CallType
  <2> QED
    BY <1>8, <2>2, <1>2 DEF StartAccept
<1>9. ASSUME NEW c \in Calls, CommitAccept(c) PROVE InboxInv'
  <2>1. call[c].sub \in Submissions /\ call[c].data \in Sizes /\ call[c].thumb \in Sizes \cup {None}
    BY <1>9, CallHolds DEF CommitAccept
  <2> DEFINE s == call[c].sub
  <2>2. [state |-> "live", data |-> call[c].data, thumb |-> call[c].thumb] \in Filed
    BY <2>1 DEF Filed
  <2>3. filed' \in [Submissions -> Filed]
        /\ \A t \in Submissions : filed'[t].state = "live" => filed'[t].data # None
    <3>1. filed' = filed \/ filed' = [filed EXCEPT ![s] = [state |-> "live", data |-> call[c].data,
                                                          thumb |-> call[c].thumb]]
      BY <1>9 DEF CommitAccept
    <3>2. CASE filed' = filed
      BY <3>2, <1>types DEF InboxInv
    <3>3. CASE filed' = [filed EXCEPT ![s] = [state |-> "live", data |-> call[c].data,
                                              thumb |-> call[c].thumb]]
      BY <3>3, <2>1, <2>2, <1>types, <1>none DEF InboxInv
    <3> QED
      BY <3>1, <3>2, <3>3
  <2>4. row' \in [Submissions -> Row]
        /\ \A t \in Submissions : row'[t].uploaded = row[t].uploaded /\ row'[t].data = row[t].data
    <3>1. row' = row \/ row' = [row EXCEPT ![s].consumed = TRUE]
      BY <1>9 DEF CommitAccept
    <3>2. [row[s] EXCEPT !.consumed = TRUE] \in Row
          /\ [row[s] EXCEPT !.consumed = TRUE].uploaded = row[s].uploaded
          /\ [row[s] EXCEPT !.consumed = TRUE].data = row[s].data
      <4>1. row[s] \in Row
        BY <2>1, <1>types
      <4> QED
        BY <4>1 DEF Row
    <3> QED
      BY <3>1, <3>2, <2>1, <1>types
  <2> QED
    BY <1>9, <2>3, <2>4, <1>types, <1>none DEF CommitAccept, Ends, Goes, InboxInv, InboxTypeOK
<1>10. ASSUME NEW c \in Calls, NEW s \in Submissions, StartDiscard(c, s) PROVE InboxInv'
  <2>1. [pc |-> "discard", sub |-> s] \in CallType
    BY DEF CallType
  <2> QED
    BY <1>10, <2>1, <1>2 DEF StartDiscard
<1>11. ASSUME NEW c \in Calls, DiscardRow(c) PROVE InboxInv'
  <2>0. call[c].pc = "discard"
    BY <1>11 DEF DiscardRow
  <2>1. call[c].sub \in Submissions /\ [call[c] EXCEPT !.pc = "removeData"] \in CallType
    BY <2>0, CallHolds, CallGoesOn
  <2>2. row' \in [Submissions -> Row]
        /\ \A t \in Submissions : row'[t].uploaded => row'[t].data # None
    <3>1. row[call[c].sub] \in Row
      BY <2>1, <1>types
    <3>2. [row[call[c].sub] EXCEPT !.state = "gone", !.uploaded = FALSE, !.consumed = FALSE,
                                   !.data = None, !.thumb = None]
             \in {r \in Row : ~r.uploaded}
      BY <3>1 DEF Row
    <3> QED
      BY <1>11, <2>1, <3>2, <1>types DEF DiscardRow, InboxInv
  <2> QED
    BY <1>11, <2>1, <2>2, <1>types DEF DiscardRow, Goes, InboxInv, InboxTypeOK
<1>12. ASSUME NEW c \in Calls, RemoveBlob(c) PROVE InboxInv'
  <2>1. call[c].pc \in {"removeData", "removeThumb"}
    BY <1>12 DEF RemoveBlob
  <2>2. call[c].sub \in Submissions /\ [call[c] EXCEPT !.pc = "removeThumb"] \in CallType
    BY <2>1, CallHolds, CallGoesOn
  <2>3. PICK k \in Kinds : blob' = [blob EXCEPT ![call[c].sub][k] = None]
    BY <1>12, <1>none DEF RemoveBlob
  <2>4. blob' \in [Submissions -> [Kinds -> Sizes \cup {None}]]
    BY <2>3, <2>2, <1>types
  <2>5. call' \in [Calls -> CallType]
    BY <1>12, <2>2, <1>types, <1>none DEF RemoveBlob, Goes, Ends
  <2> QED
    BY <1>12, <2>4, <2>5 DEF RemoveBlob, InboxInv, InboxTypeOK
<1>13. ASSUME NEW c \in Calls, NEW s \in Submissions, DeleteFiled(c, s) PROVE InboxInv'
  <2>1. [pc |-> "removeData", sub |-> s] \in CallType
    BY DEF CallType
  <2>2. filed' \in [Submissions -> Filed]
        /\ \A t \in Submissions : filed'[t].state = "live" => filed'[t].data # None
    <3>1. [state |-> "deleted", data |-> None, thumb |-> None] \in Filed
      BY DEF Filed
    <3> QED
      BY <1>13, <3>1, <1>types DEF DeleteFiled, InboxInv
  <2> QED
    BY <1>13, <2>1, <2>2, <1>types DEF DeleteFiled, Goes, InboxInv, InboxTypeOK
<1>14. ASSUME NEW c \in Calls, NEW s \in Submissions, NEW size \in Sizes,
              StartPreview(c, s, size)
       PROVE  InboxInv'
  <2>1. filed[s].thumb \in Sizes \cup {None}
    BY <1>types DEF Filed
  <2>2. [pc |-> "preview", sub |-> s, size |-> size, freed |-> filed[s].thumb] \in CallType
    BY <2>1 DEF CallType
  <2> QED
    BY <1>14, <2>2, <1>2 DEF StartPreview
<1>15. ASSUME NEW c \in Calls, PutPreview(c) PROVE InboxInv'
  <2>0. call[c].pc = "drawn"
    BY <1>15 DEF PutPreview
  <2>1. call[c].sub \in Submissions /\ call[c].size \in Sizes
        /\ [call[c] EXCEPT !.pc = "previewed"] \in CallType
    BY <2>0, CallHolds, CallGoesOn
  <2>2. blob' \in [Submissions -> [Kinds -> Sizes \cup {None}]]
    BY <1>15, <2>1, <1>types DEF PutPreview
  <2> QED
    BY <1>15, <2>1, <2>2, <1>types DEF PutPreview, Goes, InboxInv, InboxTypeOK
<1>16. ASSUME NEW c \in Calls, RecordPreview(c) PROVE InboxInv'
  <2>1. call[c].sub \in Submissions /\ call[c].size \in Sizes
    BY <1>16, CallHolds DEF RecordPreview
  <2>2. filed' \in [Submissions -> Filed]
        /\ \A t \in Submissions : filed'[t].state = filed[t].state /\ filed'[t].data = filed[t].data
    <3>1. filed[call[c].sub] \in Filed
      BY <2>1, <1>types
    <3>2. /\ [filed[call[c].sub] EXCEPT !.thumb = call[c].size] \in Filed
          /\ [filed[call[c].sub] EXCEPT !.thumb = call[c].size].state = filed[call[c].sub].state
          /\ [filed[call[c].sub] EXCEPT !.thumb = call[c].size].data = filed[call[c].sub].data
      BY <2>1, <3>1 DEF Filed
    <3> QED
      BY <1>16, <2>1, <3>2, <1>types DEF RecordPreview
  <2> QED
    BY <1>16, <2>2, <1>types, <1>none DEF RecordPreview, Ends, Goes, InboxInv, InboxTypeOK
<1>17. CASE UNCHANGED inboxVars
  BY <1>17 DEF inboxVars, InboxInv, InboxTypeOK
<1> QED
  BY <1>1, <1>3, <1>4, <1>5, <1>6, <1>7, <1>8, <1>9, <1>10, <1>11, <1>12, <1>13, <1>14, <1>15,
     <1>16, <1>17 DEF InboxNext, CallNext

(* Every step of the two links is the inbox's, or leaves the inbox alone.  *)
LEMMA InboxGoesOn == [Next]_vars => [InboxNext]_inboxVars
BY DEF Next, vars, InboxStep, InboxNext, RevokeShare, CreateShare, LoadShare, ClaimDownload, Serve

(* What is started as a share stays one: the share and the visits keep     *)
(* their types whatever the inbox does.                                    *)
LEMMA LinkTypeStep == TypeInv /\ [Next]_vars => TypeInv'
<1> SUFFICES ASSUME TypeInv, [Next]_vars PROVE TypeInv'
  OBVIOUS
<1> DEFINE Share == [pc : {"open", "gone"}, sub : Submissions, count : 0..MaxDownloads]
<1>types. /\ share \in {NoVisit} \cup Share
          /\ visit \in [Calls -> Visit] /\ served \in Nat
          /\ NoVisit \in Visit
  BY DEF TypeInv, LinksTypeOK, Visit
<1>max. MaxDownloads \in Nat \ {0}
  BY LinksAssumption
<1>inbox. InboxInv'
  BY InboxTypeStep, InboxGoesOn DEF TypeInv
<1>typed. ASSUME share' \in {NoVisit} \cup Share, visit' \in [Calls -> Visit], served' \in Nat
          PROVE  TypeInv'
  BY <1>typed, <1>inbox DEF TypeInv, LinksTypeOK, InboxInv
<1>open. share.pc \in {"open", "gone"} => share \in Share
  BY <1>types DEF NoVisit
<1>gone. share.pc = "open" => [share EXCEPT !.pc = "gone"] \in Share
  BY <1>open
<1>1. CASE InboxStep
  BY <1>1, <1>types, <1>typed, <1>gone DEF InboxStep
<1>2. CASE RevokeShare
  BY <1>2, <1>types, <1>typed, <1>gone DEF RevokeShare
<1>3. ASSUME NEW s \in Submissions, CreateShare(s) PROVE TypeInv'
  <2>1. [pc |-> "open", sub |-> s, count |-> 0] \in Share
    BY <1>max
  <2> QED
    BY <1>3, <2>1, <1>types, <1>typed DEF CreateShare
<1>4. ASSUME NEW c \in Calls, LoadShare(c) PROVE TypeInv'
  <2>1. share \in Share /\ share.sub \in Live
    BY <1>4, <1>open DEF LoadShare
  <2>2. filed[share.sub].data \in Sizes
    BY <2>1 DEF TypeInv, InboxInv, InboxTypeOK, Filed, Live
  <2>3. [pc |-> "loaded", sub |-> share.sub, size |-> filed[share.sub].data,
         count |-> share.count] \in Visit
    BY <2>1, <2>2 DEF Visit
  <2> QED
    BY <1>4, <2>3, <1>types, <1>typed DEF LoadShare
<1>5. ASSUME NEW c \in Calls, ClaimDownload(c) PROVE TypeInv'
  <2>1. [visit[c] EXCEPT !.pc = "claimed"] \in Visit
    <3>1. visit[c] \in Visit /\ visit[c].pc = "loaded"
      BY <1>5, <1>types DEF ClaimDownload
    <3>2. visit[c] \in [pc : {"loaded", "claimed"}, sub : Submissions, size : Sizes,
                        count : 0..MaxDownloads]
      BY <3>1 DEF Visit, NoVisit
    <3> QED
      BY <3>2 DEF Visit
  <2>2. share' \in {NoVisit} \cup Share
    <3>1. CASE share.pc = "open" /\ share.count < MaxDownloads
      <4>1. share \in Share
        BY <3>1, <1>open
      <4>2. share.count + 1 \in 0..MaxDownloads
        BY <3>1, <4>1, <1>max
      <4> QED
        BY <1>5, <3>1, <4>1, <4>2 DEF ClaimDownload
    <3>2. CASE ~(share.pc = "open" /\ share.count < MaxDownloads)
      BY <1>5, <3>2, <1>types DEF ClaimDownload
    <3> QED
      BY <3>1, <3>2
  <2> QED
    BY <1>5, <2>1, <2>2, <1>types, <1>typed DEF ClaimDownload
<1>6. ASSUME NEW c \in Calls, Serve(c) PROVE TypeInv'
  BY <1>6, <1>types, <1>typed DEF Serve
<1>7. CASE UNCHANGED vars
  BY <1>7, <1>types, <1>typed DEF vars, linkVars
<1> QED
  BY <1>1, <1>2, <1>3, <1>4, <1>5, <1>6, <1>7 DEF Next

LEMMA TypeInit == Init => TypeInv
<1> SUFFICES ASSUME Init PROVE TypeInv
  OBVIOUS
<1>1. Idle \in CallType /\ NoVisit \in Visit
  BY DEF CallType, Visit
<1>2. [state |-> "unused", uploaded |-> FALSE, consumed |-> FALSE, data |-> None,
       thumb |-> None] \in Row
  BY DEF Row
<1>3. [state |-> "none", data |-> None, thumb |-> None] \in Filed
  BY DEF Filed
<1> QED
  BY <1>1, <1>2, <1>3 DEF Init, InboxInit, TypeInv, LinksTypeOK, InboxInv, InboxTypeOK

LEMMA AlwaysTyped == Spec => []TypeInv
BY TypeInit, LinkTypeStep, PTL DEF Spec

(* The inbox and the shares are well typed in every state: an accept only  *)
(* takes, and a visit only announces, sizes of bytes that arrived.         *)
THEOREM LinksTypeCorrect == Spec => []LinksTypeOK
<1>1. TypeInv => LinksTypeOK
  BY DEF TypeInv
<1> QED
  BY <1>1, AlwaysTyped, PTL

-----------------------------------------------------------------------------
(* Filed at most once *)

LEMMA OnceStep == InboxInv /\ OnceInv /\ [InboxNext]_inboxVars => OnceInv'
<1> SUFFICES ASSUME InboxInv, OnceInv, [InboxNext]_inboxVars PROVE OnceInv'
  OBVIOUS
<1>types. /\ row \in [Submissions -> Row] /\ filed \in [Submissions -> Filed]
          /\ call \in [Calls -> CallType]
  BY DEF InboxInv, InboxTypeOK
<1>0. Idle.pc = "idle"
  BY DEF Idle
(* A call that moves on changes no row; only a new accept has to be shown. *)
<1>moves. ASSUME NEW c \in Calls, NEW next, Goes(c, next), UNCHANGED <<row, filed>>,
                 next.pc = "accept" => row[next.sub].state # "unused"
          PROVE  OnceInv'
  BY <1>moves, <1>types DEF Goes, OnceInv
(* A row's state and mark survive what only adds to it.                    *)
<1>keeps. ASSUME NEW c \in Calls, NEW next, Goes(c, next), next.pc # "accept",
                 \A s \in Submissions : /\ row'[s].state = row[s].state
                                        /\ row'[s].consumed = row[s].consumed
                                        /\ filed'[s].state = "none" <=> filed[s].state = "none"
          PROVE  OnceInv'
  <2>1. ASSUME NEW d \in Calls, call'[d].pc = "accept" PROVE row'[call'[d].sub].state # "unused"
    <3>1. d # c /\ call'[d] = call[d]
      BY <1>keeps, <2>1, <1>types DEF Goes
    <3>2. call[d].sub \in Submissions
      BY <3>1, <2>1, CallHolds
    <3> QED
      BY <3>1, <3>2, <2>1, <1>keeps DEF OnceInv
  <2> QED
    BY <1>keeps, <2>1 DEF OnceInv
<1>1. CASE CreateRequest \/ Close \/ UNCHANGED inboxVars
  BY <1>1 DEF CreateRequest, Close, inboxVars, OnceInv
<1>2. ASSUME NEW c \in Calls,
             \/ StartBegin(c) \/ CountPending(c) \/ AdmitUpload(c) \/ Abandon(c)
             \/ PutSubmission(c) \/ RemoveBlob(c) \/ AdmitPreview(c) \/ PutPreview(c)
      PROVE  OnceInv'
  <2>1. CASE StartBegin(c)
    BY <2>1, <1>moves DEF StartBegin
  <2>2. CASE CountPending(c)
    BY <2>2, <1>moves, <1>0 DEF CountPending, Ends
  <2>3. CASE AdmitUpload(c)
    <3>1. [call[c] EXCEPT !.pc = "admitted"].pc = "admitted"
      BY <2>3, CallHolds, CallShape DEF AdmitUpload
    <3> QED
      BY <2>3, <3>1, <1>moves, <1>0 DEF AdmitUpload, Ends
  <2>4. CASE Abandon(c)
    BY <2>4, <1>moves, <1>0 DEF Abandon, Ends
  <2>5. CASE PutSubmission(c)
    <3>1. [call[c] EXCEPT !.pc = "stored"].pc = "stored"
      BY <2>5, CallHolds, CallShape DEF PutSubmission
    <3> QED
      BY <2>5, <3>1, <1>moves DEF PutSubmission
  <2>6. CASE RemoveBlob(c)
    <3>1. call[c].pc \in {"removeData", "removeThumb"}
      BY <2>6 DEF RemoveBlob
    <3>2. [call[c] EXCEPT !.pc = "removeThumb"].pc = "removeThumb"
      BY <3>1, CallHolds, CallShape
    <3> QED
      BY <2>6, <3>2, <1>moves, <1>0 DEF RemoveBlob, Ends
  <2>7. CASE PutPreview(c)
    <3>1. [call[c] EXCEPT !.pc = "previewed"].pc = "previewed"
      BY <2>7, CallHolds, CallShape DEF PutPreview
    <3> QED
      BY <2>7, <3>1, <1>moves DEF PutPreview
  <2>8. CASE AdmitPreview(c)
    <3>1. [call[c] EXCEPT !.pc = "drawn"].pc = "drawn"
      BY <2>8, CallHolds, CallShape DEF AdmitPreview
    <3> QED
      BY <2>8, <3>1, <1>moves, <1>0 DEF AdmitPreview, Ends
  <2> QED
    BY <1>2, <2>1, <2>2, <2>3, <2>4, <2>5, <2>6, <2>7, <2>8
<1>3. ASSUME NEW c \in Calls, InsertSubmission(c) PROVE OnceInv'
  <2>1. PICK s \in Submissions :
          row[s].state = "unused" /\ row' = [row EXCEPT ![s].state = "open"]
    BY <1>3 DEF InsertSubmission
  <2>2. \A t \in Submissions :
          /\ row[t].state # "unused" => row'[t] = row[t]
          /\ row[t].state = "unused" => row'[t].state \in {"unused", "open"}
    BY <2>1, <1>types DEF Row
  <2>3. filed' = filed /\ \A d \in Calls : call'[d].pc = "accept" => call'[d] = call[d]
    BY <1>3, <1>types, <1>0 DEF InsertSubmission, Ends, Goes
  <2>4. \A d \in Calls : call[d].pc = "accept" => call[d].sub \in Submissions
    BY CallHolds
  <2> QED
    BY <2>2, <2>3, <2>4 DEF OnceInv
<1>4. ASSUME NEW c \in Calls, NEW s \in Submissions, NEW kind \in Kinds, NEW size \in Sizes,
             StartUpload(c, s, kind, size) \/ StartPreview(c, s, size) \/ StartDiscard(c, s)
      PROVE  OnceInv'
  BY <1>4, <1>moves DEF StartUpload, StartPreview, StartDiscard
<1>5. ASSUME NEW c \in Calls, RecordSize(c) PROVE OnceInv'
  <2>1. call[c].sub \in Submissions
    BY <1>5, CallHolds DEF RecordSize
  <2>2. row[call[c].sub] \in Row
    BY <2>1, <1>types
  <2>3. \A t \in Submissions : row'[t].state = row[t].state /\ row'[t].consumed = row[t].consumed
    BY <1>5, <2>1, <2>2, <1>types DEF RecordSize, Row
  <2> QED
    BY <1>5, <2>3, <1>keeps, <1>0 DEF RecordSize, Ends
<1>6. ASSUME NEW c \in Calls, NEW s \in Submissions, StartAccept(c, s) PROVE OnceInv'
  BY <1>6, <1>moves DEF StartAccept, Arrived
<1>7. ASSUME NEW c \in Calls, CommitAccept(c) PROVE OnceInv'
  <2> DEFINE s == call[c].sub
  <2>1. s \in Submissions /\ row[s].state # "unused"
    BY <1>7, CallHolds DEF CommitAccept, OnceInv
  <2>2. row[s] \in Row
    BY <2>1, <1>types
  <2>3. [row[s] EXCEPT !.consumed = TRUE].consumed
        /\ [row[s] EXCEPT !.consumed = TRUE].state = row[s].state
    BY <2>2 DEF Row
  <2>4. CASE filed[s].state # "none"
    BY <1>7, <2>4, <1>keeps, <1>0 DEF CommitAccept, Ends
  <2>5. CASE filed[s].state = "none"
    <3>1. /\ \A t \in Submissions \ {s} : filed'[t] = filed[t] /\ row'[t] = row[t]
          /\ row'[s].state = row[s].state
          /\ row[s].state = "open" => row'[s].consumed
      BY <1>7, <2>1, <2>3, <2>5, <1>types DEF CommitAccept
    <3>2. \A d \in Calls : call'[d].pc = "accept" => call'[d] = call[d]
      BY <1>7, <1>types, <1>0 DEF CommitAccept, Ends, Goes
    <3>3. \A d \in Calls : call[d].pc = "accept" => call[d].sub \in Submissions
      BY CallHolds
    <3> QED
      BY <2>1, <3>1, <3>2, <3>3 DEF OnceInv
  <2> QED
    BY <2>4, <2>5
<1>8. ASSUME NEW c \in Calls, DiscardRow(c) PROVE OnceInv'
  <2>1. call[c].pc = "discard" /\ call[c].sub \in Submissions
    BY <1>8, CallHolds DEF DiscardRow
  <2>2. [call[c] EXCEPT !.pc = "removeData"].pc = "removeData"
    BY <2>1, CallHolds, CallShape
  <2>3. row[call[c].sub] \in Row
    BY <2>1, <1>types
  <2>4. /\ \A t \in Submissions \ {call[c].sub} : row'[t] = row[t]
        /\ row'[call[c].sub].state = "gone"
    BY <1>8, <2>1, <2>3, <1>types DEF DiscardRow, Row
  <2>5. filed' = filed /\ \A d \in Calls : call'[d].pc = "accept" => call'[d] = call[d]
    BY <1>8, <2>2, <1>types DEF DiscardRow, Goes
  <2>6. \A d \in Calls : call[d].pc = "accept" => call[d].sub \in Submissions
    BY CallHolds
  <2> QED
    BY <2>4, <2>5, <2>6 DEF OnceInv
<1>9. ASSUME NEW c \in Calls, NEW s \in Submissions, DeleteFiled(c, s) PROVE OnceInv'
  <2>1. \A t \in Submissions : filed'[t].state = "none" <=> filed[t].state = "none"
    BY <1>9, <1>types DEF DeleteFiled
  <2> QED
    BY <1>9, <2>1, <1>keeps DEF DeleteFiled
<1>10. ASSUME NEW c \in Calls, RecordPreview(c) PROVE OnceInv'
  <2>1. call[c].sub \in Submissions
    BY <1>10, CallHolds DEF RecordPreview
  <2>2. \A t \in Submissions : filed'[t].state = filed[t].state
    <3>1. filed[call[c].sub] \in Filed
      BY <2>1, <1>types
    <3>2. [filed[call[c].sub] EXCEPT !.thumb = call[c].size].state = filed[call[c].sub].state
      BY <3>1 DEF Filed
    <3> QED
      BY <1>10, <2>1, <3>2, <1>types DEF RecordPreview
  <2> QED
    BY <1>10, <2>2, <1>keeps, <1>0 DEF RecordPreview, Ends
<1> QED
  BY <1>1, <1>2, <1>3, <1>4, <1>5, <1>6, <1>7, <1>8, <1>9, <1>10, InboxAssumption
  DEF InboxNext, CallNext, Kinds

(* A submission is filed or waits, never both: whatever devices accept and *)
(* discard at once, one that is filed is not offered to be filed again.    *)
THEOREM SubmissionsAreFiledOnce == Spec => []FiledOnce
<1>1. Init => OnceInv
  BY DEF Init, InboxInit, OnceInv, Idle
<1>2. TypeInv /\ OnceInv /\ [Next]_vars => OnceInv'
  BY OnceStep, InboxGoesOn DEF TypeInv
<1>3. TypeInv /\ OnceInv => FiledOnce
  BY DEF TypeInv, InboxInv, InboxTypeOK, OnceInv, FiledOnce, Arrived, Row
<1> QED
  BY <1>1, <1>2, <1>3, AlwaysTyped, PTL DEF Spec

-----------------------------------------------------------------------------
(* The limit on downloads *)

LEMMA ClaimedIsFinite == IsFiniteSet(Claimed) /\ Cardinality(Claimed) \in Nat
<1>1. IsFiniteSet(Calls) /\ Claimed \subseteq Calls
  BY InboxAssumption DEF Claimed
<1> QED
  BY <1>1, FS_Subset, FS_CardinalityType

(* What a visit holds, by where it is.                                     *)
LEMMA VisitShape ==
    ASSUME NEW v \in Visit, NEW pc \in {"loaded", "claimed"}
    PROVE  /\ v.pc \in {"none", "loaded", "claimed"}
           /\ v.pc \in {"loaded", "claimed"} => [v EXCEPT !.pc = pc].pc = pc
<1>1. CASE v = NoVisit
  BY <1>1 DEF NoVisit
<1>2. CASE v # NoVisit
  <2>1. v \in [pc : {"loaded", "claimed"}, sub : Submissions, size : Sizes,
               count : 0..MaxDownloads]
    BY <1>2 DEF Visit
  <2> QED
    BY <2>1
<1> QED
  BY <1>1, <1>2

LEMMA CountStep == TypeInv /\ CountInv /\ [Next]_vars => CountInv'
<1> SUFFICES ASSUME TypeInv, CountInv, [Next]_vars PROVE CountInv'
  OBVIOUS
<1> DEFINE Share == [pc : {"open", "gone"}, sub : Submissions, count : 0..MaxDownloads]
<1>types. share \in {NoVisit} \cup Share /\ visit \in [Calls -> Visit] /\ served \in Nat
  BY DEF TypeInv, LinksTypeOK
<1>open. share.pc \in {"open", "gone"} => share \in Share /\ share # NoVisit
  BY <1>types DEF NoVisit
<1>none. NoVisit.pc = "none" /\ NoVisit \notin Share
  BY DEF NoVisit
<1>claimed. IsFiniteSet(Claimed) /\ Cardinality(Claimed) \in Nat
  BY ClaimedIsFinite
(* Opening, closing and visits that claim nothing change no count.         *)
<1>same. ASSUME Claimed' = Claimed, served' = served,
                share' = share \/ (share.pc = "open" /\ share' = [share EXCEPT !.pc = "gone"])
         PROVE  CountInv'
  <2>1. CASE share' = share
    BY <1>same, <2>1 DEF CountInv
  <2>2. CASE share.pc = "open" /\ share' = [share EXCEPT !.pc = "gone"]
    <3>1. share' # NoVisit /\ share'.count = share.count
      BY <2>2, <1>open, <1>none
    <3> QED
      BY <1>same, <2>2, <3>1, <1>open DEF CountInv
  <2> QED
    BY <1>same, <2>1, <2>2
<1>1. CASE InboxStep
  BY <1>1, <1>same DEF InboxStep, Claimed
<1>2. CASE RevokeShare
  BY <1>2, <1>same DEF RevokeShare, Claimed
<1>3. ASSUME NEW s \in Submissions, CreateShare(s) PROVE CountInv'
  <2>1. share' # NoVisit /\ share'.count = 0
    BY <1>3 DEF CreateShare, NoVisit
  <2>2. served' = 0 /\ Claimed' = {}
    BY <1>3 DEF CreateShare, CountInv, Claimed
  <2>3. Cardinality(Claimed') = 0
    BY <2>2, FS_EmptySet
  <2> QED
    BY <2>1, <2>2, <2>3 DEF CountInv
<1>4. ASSUME NEW c \in Calls, LoadShare(c) PROVE CountInv'
  <2>1. Claimed' = Claimed
    BY <1>4, <1>types, <1>none DEF LoadShare, Free, Claimed
  <2> QED
    BY <1>4, <2>1, <1>same DEF LoadShare
<1>5. ASSUME NEW c \in Calls, ClaimDownload(c) PROVE CountInv'
  <2>0. visit[c] \in Visit /\ visit[c].pc = "loaded" /\ c \notin Claimed
    BY <1>5, <1>types DEF ClaimDownload, Claimed
  <2>1. CASE share.pc = "open" /\ share.count < MaxDownloads
    <3>1. [visit[c] EXCEPT !.pc = "claimed"].pc = "claimed"
      BY <2>0, VisitShape
    <3>2. Claimed' = Claimed \cup {c}
      BY <1>5, <2>1, <3>1, <1>types DEF ClaimDownload, Claimed
    <3>3. Cardinality(Claimed') = Cardinality(Claimed) + 1
      BY <3>2, <2>0, <1>claimed, FS_AddElement
    <3>4. share' # NoVisit /\ share'.count = share.count + 1 /\ share.count \in Nat
      BY <1>5, <2>1, <1>open, <1>none, LinksAssumption DEF ClaimDownload
    <3> QED
      BY <1>5, <2>1, <3>3, <3>4, <1>open, <1>claimed, <1>types DEF ClaimDownload, CountInv
  <2>2. CASE ~(share.pc = "open" /\ share.count < MaxDownloads)
    <3>1. Claimed' = Claimed
      BY <1>5, <2>0, <2>2, <1>types, <1>none DEF ClaimDownload, Claimed
    <3> QED
      BY <1>5, <2>2, <3>1, <1>same DEF ClaimDownload
  <2> QED
    BY <2>1, <2>2
<1>6. ASSUME NEW c \in Calls, Serve(c) PROVE CountInv'
  <2>1. c \in Claimed /\ Claimed' = Claimed \ {c}
    BY <1>6, <1>types, <1>none DEF Serve, Claimed
  <2>2. Cardinality(Claimed') = Cardinality(Claimed) - 1
    BY <2>1, <1>claimed, FS_RemoveElement
  <2>3. share' = share /\ share # NoVisit /\ served' \in {served, served + 1}
    BY <1>6, <2>1 DEF Serve, CountInv
  <2>4. share.count \in Nat
    BY <2>3, <1>types, LinksAssumption
  <2> QED
    BY <2>2, <2>3, <2>4, <1>claimed, <1>types DEF CountInv
<1>7. CASE UNCHANGED vars
  BY <1>7, <1>same DEF vars, linkVars, Claimed
<1> QED
  BY <1>1, <1>2, <1>3, <1>4, <1>5, <1>6, <1>7 DEF Next

(* However many visitors load the link while room is left, the downloads   *)
(* sent are never more than the owner allowed.                             *)
THEOREM LimitHolds == Spec => []DownloadsWithinLimit
<1>1. Init => CountInv
  <2> SUFFICES ASSUME Init PROVE CountInv
    OBVIOUS
  <2>1. Claimed = {}
    BY DEF Init, Claimed, NoVisit
  <2> QED
    BY <2>1 DEF Init, CountInv
<1>2. TypeInv /\ CountInv => DownloadsWithinLimit
  <2> SUFFICES ASSUME TypeInv, CountInv PROVE served <= MaxDownloads
    BY DEF DownloadsWithinLimit
  <2>1. CASE share = NoVisit
    BY <2>1, LinksAssumption DEF CountInv
  <2>2. CASE share # NoVisit
    <3>1. share.count \in 0..MaxDownloads /\ served \in Nat
      BY <2>2 DEF TypeInv, LinksTypeOK
    <3> QED
      BY <2>2, <3>1, ClaimedIsFinite, LinksAssumption DEF CountInv
  <2> QED
    BY <2>1, <2>2
<1> QED
  BY <1>1, <1>2, CountStep, AlwaysTyped, PTL DEF Spec

-----------------------------------------------------------------------------
(* The quota *)

(* What a call keeps when it goes on.                                      *)
LEMMA CallKeeps ==
    ASSUME InboxInv, NEW c \in Calls, NEW pc
    PROVE  LET next == [call[c] EXCEPT !.pc = pc] IN
           /\ Uploading(c) => /\ next.pc = pc /\ next.sub = call[c].sub
                              /\ next.kind = call[c].kind /\ next.size = call[c].size
           /\ call[c].pc \in {"discard", "removeData", "removeThumb"} =>
                next.pc = pc /\ next.sub = call[c].sub
           /\ Previewing(c) =>
                /\ next.pc = pc /\ next.sub = call[c].sub /\ next.size = call[c].size
                /\ next.freed = call[c].freed
<1>1. call[c] \in CallType
  BY CallHolds
<1>2. ASSUME Uploading(c)
      PROVE  LET next == [call[c] EXCEPT !.pc = pc] IN
             /\ next.pc = pc /\ next.sub = call[c].sub
             /\ next.kind = call[c].kind /\ next.size = call[c].size
  BY <1>1, <1>2, CallShape DEF Uploading
<1>3. ASSUME call[c].pc \in {"discard", "removeData", "removeThumb"}
      PROVE  LET next == [call[c] EXCEPT !.pc = pc] IN next.pc = pc /\ next.sub = call[c].sub
  BY <1>1, <1>3, CallShape
<1>4. ASSUME Previewing(c)
      PROVE  LET next == [call[c] EXCEPT !.pc = pc] IN
             /\ next.pc = pc /\ next.sub = call[c].sub /\ next.size = call[c].size
             /\ next.freed = call[c].freed
  BY <1>1, <1>4, CallShape DEF Previewing
<1> QED
  BY <1>2, <1>3, <1>4

(* A nonempty set of numbers has a least one.                              *)
LEMMA LeastNumber ==
    ASSUME NEW T, T \subseteq Nat, T # {}
    PROVE  \E n \in T : \A m \in T : ~(m < n)
<1> DEFINE Less == OpToRel(<, Nat)
<1>1. \E n \in T : \A m \in T : <<m, n>> \notin Less
  <2>1. IsWellFoundedOn(Less, Nat)
    BY NatLessThanWellFounded
  <2> HIDE DEF Less
  <2> QED
    BY <2>1, WFMin
<1>2. \A m, n \in Nat : m < n => <<m, n>> \in Less
  BY DEF OpToRel
<1> HIDE DEF Less
<1> QED
  BY <1>1, <1>2

(* A sum of numbers is how many units they have together.                  *)
Units(f, S) == {p \in S \X Nat : 1 <= p[2] /\ p[2] <= f[p[1]]}
Weight(f, S) == Cardinality(Units(f, S))

(* What adds up numbers up to M is a number, and no more than M for each.  *)
LEMMA UnitsAreFinite ==
    ASSUME NEW S, IsFiniteSet(S), NEW M \in Nat, NEW f \in [S -> 0..M], NEW U \in SUBSET S
    PROVE  /\ IsFiniteSet(Units(f, U)) /\ Weight(f, U) \in Nat
           /\ Weight(f, U) <= Cardinality(U) * M
           /\ IsFiniteSet(U) /\ Cardinality(U) \in Nat
<1>1. IsFiniteSet(U) /\ Cardinality(U) \in Nat
  BY FS_Subset, FS_CardinalityType
<1>2. IsFiniteSet(1..M) /\ Cardinality(1..M) = M
  BY FS_Interval
<1>3. IsFiniteSet(U \X (1..M)) /\ Cardinality(U \X (1..M)) = Cardinality(U) * M
  BY <1>1, <1>2, FS_Product
<1>4. Units(f, U) \in SUBSET (U \X (1..M))
  <2> SUFFICES ASSUME NEW p \in Units(f, U) PROVE p \in U \X (1..M)
    OBVIOUS
  <2>1. p \in U \X Nat /\ 1 <= p[2] /\ p[2] <= f[p[1]]
    BY DEF Units
  <2>2. f[p[1]] \in 0..M
    BY <2>1
  <2>3. p[2] \in 1..M
    BY <2>1, <2>2
  <2> QED
    BY <2>1, <2>3
<1> QED
  BY <1>1, <1>3, <1>4, FS_Subset, FS_CardinalityType DEF Weight

(* The units of one number, and the sum without it.                        *)
LEMMA ColumnIsCounted ==
    ASSUME NEW x, NEW n \in Nat
    PROVE  IsFiniteSet({x} \X (1..n)) /\ Cardinality({x} \X (1..n)) = n
<1>1. IsFiniteSet({x}) /\ Cardinality({x}) = 1
  BY FS_Singleton
<1>2. IsFiniteSet(1..n) /\ Cardinality(1..n) = n
  BY FS_Interval
<1>3. IsFiniteSet({x} \X (1..n))
      /\ Cardinality({x} \X (1..n)) = Cardinality({x}) * Cardinality(1..n)
  BY <1>1, <1>2, FS_Product
<1> QED
  BY <1>1, <1>2, <1>3

LEMMA WeightSplits ==
    ASSUME NEW S, IsFiniteSet(S), NEW M \in Nat, NEW f \in [S -> 0..M],
           NEW U \in SUBSET S, NEW x \in U
    PROVE  Weight(f, U) = f[x] + Weight(f, U \ {x})
<1> DEFINE column == {x} \X (1..f[x])
           rest == Units(f, U \ {x})
<1>1. f[x] \in Nat
  OBVIOUS
<1>2. IsFiniteSet(column) /\ Cardinality(column) = f[x]
  BY <1>1, ColumnIsCounted
<1>3. IsFiniteSet(rest) /\ Weight(f, U \ {x}) \in Nat
  BY UnitsAreFinite
<1>4. Units(f, U) = column \cup rest
  <2>1. ASSUME NEW p \in Units(f, U) PROVE p \in column \cup rest
    <3>1. p \in U \X Nat /\ 1 <= p[2] /\ p[2] <= f[p[1]]
      BY <2>1 DEF Units
    <3>2. CASE p[1] = x
      <4>1. p[2] \in 1..f[x] /\ p = <<p[1], p[2]>>
        BY <3>1, <3>2, <1>1
      <4> QED
        BY <4>1, <3>2
    <3>3. CASE p[1] # x
      <4>1. p \in (U \ {x}) \X Nat
        BY <3>1, <3>3
      <4> QED
        BY <4>1, <3>1 DEF Units
    <3> QED
      BY <3>2, <3>3
  <2>2. ASSUME NEW p \in column PROVE p \in Units(f, U)
    <3>1. p[1] = x /\ p[2] \in 1..f[x] /\ p = <<p[1], p[2]>>
      BY <2>2
    <3>2. p[2] \in Nat /\ 1 <= p[2] /\ p[2] <= f[p[1]]
      BY <3>1, <1>1
    <3>3. p \in U \X Nat
      BY <3>1, <3>2
    <3> QED
      BY <3>2, <3>3 DEF Units
  <2>3. rest \subseteq Units(f, U)
    BY DEF Units
  <2> QED
    BY <2>1, <2>2, <2>3
<1>5. column \cap rest = {}
  BY DEF Units
<1>6. Cardinality(Units(f, U)) = Cardinality(column) + Cardinality(rest) - Cardinality(column \cap rest)
  <2> HIDE DEF column, rest
  <2> QED
    BY <1>2, <1>3, <1>4, FS_Union
<1>7. Cardinality(column \cap rest) = 0
  BY <1>5, FS_EmptySet
<1> HIDE DEF column
<1> QED
  BY <1>1, <1>2, <1>3, <1>6, <1>7 DEF Weight

(* The sum depends on the numbers alone.                                   *)
LEMMA WeightAgrees ==
    ASSUME NEW S, NEW f, NEW g, \A x \in S : f[x] = g[x]
    PROVE  Weight(f, S) = Weight(g, S)
<1>1. Units(f, S) = Units(g, S)
  BY DEF Units
<1> QED
  BY <1>1 DEF Weight

(* Changing one number changes the sum by as much.                         *)
LEMMA WeightMoves ==
    ASSUME NEW S, IsFiniteSet(S), NEW M \in Nat, NEW f \in [S -> 0..M], NEW g \in [S -> 0..M],
           NEW x \in S, \A y \in S \ {x} : g[y] = f[y]
    PROVE  /\ Weight(g, S) + f[x] = Weight(f, S) + g[x]
           /\ Weight(f, S) \in Nat /\ Weight(g, S) \in Nat
<1>1. S \in SUBSET S
  OBVIOUS
<1>2. /\ Weight(f, S) = f[x] + Weight(f, S \ {x}) /\ Weight(g, S) = g[x] + Weight(g, S \ {x})
  BY <1>1, WeightSplits
<1>3. Weight(f, S \ {x}) = Weight(g, S \ {x})
  BY WeightAgrees
<1>4. S \ {x} \in SUBSET S
  OBVIOUS
<1>5. Weight(f, S \ {x}) \in Nat /\ f[x] \in Nat /\ g[x] \in Nat
  BY <1>4, UnitsAreFinite
<1> QED
  BY <1>2, <1>3, <1>5

(* A function that satisfies the recursion of a fold adds up.              *)
LEMMA FoldAddsUp ==
    ASSUME NEW S, IsFiniteSet(S), NEW M \in Nat, NEW f \in [S -> 0..M], NEW iter,
           \A U \in SUBSET S :
              iter[U] = IF U = {} THEN 0
                        ELSE f[CHOOSE x \in U : TRUE] + iter[U \ {CHOOSE x \in U : TRUE}]
    PROVE  iter[S] = Weight(f, S)
<1> DEFINE Wrong == {U \in SUBSET S : iter[U] # Weight(f, U)}
           T == {Cardinality(U) : U \in Wrong}
<1>1. \A U \in SUBSET S : IsFiniteSet(U) /\ Cardinality(U) \in Nat
  BY FS_Subset, FS_CardinalityType
<1>2. SUFFICES ASSUME Wrong # {} PROVE FALSE
  OBVIOUS
<1>3. T \subseteq Nat /\ T # {}
  BY <1>1, <1>2
<1>4. PICK n \in T : \A m \in T : ~(m < n)
  <2> HIDE DEF T
  <2> QED
    BY <1>3, LeastNumber
<1>5. PICK U \in Wrong : n = Cardinality(U)
  OBVIOUS
<1>6. CASE U = {}
  <2>1. Units(f, U) = {}
    BY <1>6 DEF Units
  <2>2. Weight(f, U) = 0
    BY <2>1, FS_EmptySet DEF Weight
  <2> QED
    BY <2>2, <1>5, <1>6
<1>7. CASE U # {}
  <2> DEFINE x == CHOOSE y \in U : TRUE
  <2>1. x \in U /\ U \in SUBSET S /\ U \ {x} \in SUBSET S
    BY <1>7
  <2>2. iter[U] = f[x] + iter[U \ {x}]
    BY <1>7, <2>1
  <2> HIDE DEF x
  <2>3. Cardinality(U \ {x}) = Cardinality(U) - 1
    BY <1>1, <2>1, FS_RemoveElement
  <2>4. U \ {x} \notin Wrong
    <3>1. Cardinality(U \ {x}) < n
      BY <2>3, <1>5, <1>1, <2>1
    <3> QED
      BY <3>1, <1>4
  <2>5. iter[U \ {x}] = Weight(f, U \ {x})
    BY <2>1, <2>4
  <2>6. Weight(f, U) = f[x] + Weight(f, U \ {x})
    BY <2>1, WeightSplits
  <2> QED
    BY <2>2, <2>5, <2>6, <1>5
<1> QED
  BY <1>6, <1>7

(* The sum of a function's values counts its units.                        *)
LEMMA SumCountsUnits ==
    ASSUME NEW S, IsFiniteSet(S), NEW M \in Nat, NEW f \in [S -> 0..M]
    PROVE  SumFunction(f) = Weight(f, S)
<1> DEFINE iter == CHOOSE h : h = [U \in SUBSET S |->
               IF U = {} THEN 0
               ELSE f[CHOOSE x \in U : TRUE] + h[U \ {CHOOSE x \in U : TRUE}]]
           G == [U \in SUBSET S |-> Weight(f, U)]
<1>1. SumFunction(f) = iter[S]
  BY DEF SumFunction, SumFunctionOnSet, FoldFunctionOnSet, MapThenFoldSet
<1>2. ASSUME NEW U \in SUBSET S
      PROVE  G[U] = IF U = {} THEN 0
               ELSE f[CHOOSE x \in U : TRUE] + G[U \ {CHOOSE x \in U : TRUE}]
  <2>1. CASE U = {}
    <3>1. Units(f, U) = {}
      BY <2>1 DEF Units
    <3> QED
      BY <3>1, <2>1, FS_EmptySet DEF Weight
  <2>2. CASE U # {}
    <3>1. PICK x : x = CHOOSE y \in U : TRUE
      OBVIOUS
    <3>2. x \in U /\ U \ {x} \in SUBSET S
      BY <3>1, <2>2
    <3>3. Weight(f, U) = f[x] + Weight(f, U \ {x})
      BY <3>2, WeightSplits
    <3> QED
      BY <2>2, <3>1, <3>2, <3>3
  <2> QED
    BY <2>1, <2>2
<1>3. iter = [U \in SUBSET S |->
               IF U = {} THEN 0
               ELSE f[CHOOSE x \in U : TRUE] + iter[U \ {CHOOSE x \in U : TRUE}]]
  <2>1. G = [U \in SUBSET S |->
               IF U = {} THEN 0
               ELSE f[CHOOSE x \in U : TRUE] + G[U \ {CHOOSE x \in U : TRUE}]]
    BY <1>2
  <2> HIDE DEF G
  <2> QED
    BY <2>1
<1> HIDE DEF iter, G
<1>4. \A U \in SUBSET S :
          iter[U] = IF U = {} THEN 0
                    ELSE f[CHOOSE x \in U : TRUE] + iter[U \ {CHOOSE x \in U : TRUE}]
  BY <1>3
<1> QED
  BY <1>1, <1>4, FoldAddsUp

(* Values of 0 may be left out.                                            *)
LEMMA SumOverSubset ==
    ASSUME NEW S, IsFiniteSet(S), NEW M \in Nat, NEW f \in [S -> 0..M],
           NEW U \in SUBSET S, NEW g \in [U -> 0..M],
           \A x \in U : g[x] = f[x], \A x \in S \ U : f[x] = 0
    PROVE  SumFunction(g) = Weight(f, S)
<1>1. SumFunction(g) = Weight(g, U)
  BY FS_Subset, SumCountsUnits
<1>2. Units(g, U) = Units(f, S)
  <2>1. ASSUME NEW p \in Units(f, S) PROVE p \in Units(g, U)
    <3>1. p \in S \X Nat /\ 1 <= p[2] /\ p[2] <= f[p[1]]
      BY <2>1 DEF Units
    <3>2. p[1] \in U
      BY <3>1
    <3>3. p \in U \X Nat
      BY <3>1, <3>2
    <3> QED
      BY <3>1, <3>2, <3>3 DEF Units
  <2> QED
    BY <2>1 DEF Units
<1> QED
  BY <1>1, <1>2 DEF Weight

(* The largest of finitely many numbers is one of them.                    *)
LEMMA MaxIsMost ==
    ASSUME NEW S, S \subseteq Nat, S # {}, IsFiniteSet(S)
    PROVE  Max(S) \in S /\ \A x \in S : x <= Max(S)
<1> DEFINE Above(u) == {y \in S : y > u}
           T == {Cardinality(Above(u)) : u \in S}
<1>1. \A u \in S : IsFiniteSet(Above(u)) /\ Cardinality(Above(u)) \in Nat
  BY FS_Subset, FS_CardinalityType
<1>2. PICK n \in T : \A m \in T : ~(m < n)
  <2>1. T \subseteq Nat /\ T # {}
    BY <1>1
  <2> HIDE DEF T
  <2> QED
    BY <2>1, LeastNumber
<1>3. PICK u \in S : n = Cardinality(Above(u))
  OBVIOUS
<1>4. \A y \in S : u >= y
  <2> SUFFICES ASSUME NEW y \in S, ~(u >= y) PROVE FALSE
    OBVIOUS
  <2>1. u \in Nat /\ y \in Nat /\ y > u
    OBVIOUS
  <2>2. Above(y) \in SUBSET Above(u) /\ y \in Above(u) /\ y \notin Above(y)
    <3>1. \A z \in S : z > y => z > u
      BY <2>1
    <3>2. y > u /\ ~(y > y)
      BY <2>1
    <3> QED
      BY <3>1, <3>2
  <2>3. /\ Cardinality(Above(y)) <= Cardinality(Above(u))
        /\ Cardinality(Above(u)) = Cardinality(Above(y)) => Above(u) = Above(y)
    <3> HIDE DEF Above
    <3> QED
      BY <1>1, <2>2, FS_Subset
  <2>4. Cardinality(Above(u)) \in Nat /\ Cardinality(Above(y)) \in Nat
        /\ Cardinality(Above(y)) \in T
    BY <1>1
  <2>5. Cardinality(Above(y)) < n
    <3>1. Above(u) # Above(y)
      BY <2>2
    <3> HIDE DEF Above
    <3> QED
      BY <2>3, <2>4, <3>1, <1>3
  <2> QED
    BY <2>4, <2>5, <1>2
<1>5. Max(S) \in S /\ \A y \in S : Max(S) >= y
  BY <1>4 DEF Max
<1>6. \A y \in S : Max(S) >= y => y <= Max(S)
  BY <1>5
<1> QED
  BY <1>5, <1>6

(* What files and submissions take, and what uploads that found room will.  *)
Space(x) == x.data + x.thumb
LiveSize == [s \in Submissions |-> IF s \in Live THEN Space(filed[s]) ELSE 0]
WaitSize == [s \in Submissions |-> IF s \in Waiting THEN Space(row[s]) ELSE 0]
Admitted == {"admitted", "stored"}
Taken == [c \in Calls |-> IF call[c].pc \in Admitted THEN call[c].size ELSE 0]

(* What a submission takes, or will once an accept files what it read, or   *)
(* a thumbnail that found room is recorded.                                *)
Drawing == {"drawn", "previewed"}
Claim(s, x) ==
    \/ x = LiveSize[s] + WaitSize[s]
    \/ /\ filed[s].state = "none"
       /\ \E c \in Calls : /\ call[c].pc = "accept" /\ call[c].sub = s
                           /\ x = Space(call[c])
    \/ /\ filed[s].state = "live"
       /\ \E c \in Calls : /\ call[c].pc \in Drawing /\ call[c].sub = s
                           /\ x = filed[s].data + call[c].size

(* QuotaKept, strengthened: whichever of its claims each submission comes   *)
(* to, they and what is on its way stay below the limit.                   *)
Limit(m) == Quota + (2 * Cardinality(Calls) - 1) * m - 1
Picks(m) == {f \in [Submissions -> 0..(2 * m)] : \A s \in Submissions : Claim(s, f[s])}
QuotaInv ==
    \A f \in Picks(Max(Sizes)) :
        Weight(f, Submissions) + Weight(Taken, Calls) <= Limit(Max(Sizes))

(* Sizes are numbers up to the largest, so what is held is a function of   *)
(* numbers that can be added up.                                           *)
LEMMA SizeRange ==
    /\ Max(Sizes) \in Nat \ {0} /\ None = 0 /\ None \notin Sizes
    /\ \A x \in Sizes : x \in 0..Max(Sizes)
    /\ IsFiniteSet(Submissions) /\ IsFiniteSet(Calls) /\ Quota \in Nat
    /\ Cardinality(Calls) \in Nat
<1>1. /\ Sizes \subseteq Nat /\ Sizes # {} /\ IsFiniteSet(Sizes)
      /\ IsFiniteSet(Submissions) /\ IsFiniteSet(Calls) /\ Quota \in Nat
  BY InboxAssumption
<1>2. Max(Sizes) \in Sizes /\ \A x \in Sizes : x <= Max(Sizes)
  BY <1>1, MaxIsMost
<1>3. Cardinality(Calls) \in Nat
  BY <1>1, FS_CardinalityType
<1>4. PICK m \in Nat \ {0} : m = Max(Sizes)
  BY <1>2, InboxAssumption
<1>5. \A x \in Sizes : x \in 0..m
  BY <1>1, <1>2, <1>4
<1> QED
  BY <1>1, <1>3, <1>4, <1>5, InboxAssumption DEF None

SizesTyped(m) ==
    /\ LiveSize \in [Submissions -> 0..(2 * m)]
    /\ WaitSize \in [Submissions -> 0..(2 * m)]
    /\ Taken \in [Calls -> 0..m]

LEMMA SpaceRange ==
    ASSUME InboxInv, NEW m \in Nat, m = Max(Sizes)
    PROVE  SizesTyped(m)
<1>1. \A x \in Sizes \cup {None} : x \in 0..m
  BY SizeRange
<1>2. ASSUME NEW s \in Submissions
      PROVE  Space(filed[s]) \in 0..(2 * m) /\ Space(row[s]) \in 0..(2 * m)
  <2>1. row[s] \in Row /\ filed[s] \in Filed
    BY DEF InboxInv, InboxTypeOK
  <2>2. /\ row[s].data \in Sizes \cup {None} /\ row[s].thumb \in Sizes \cup {None}
        /\ filed[s].data \in Sizes \cup {None} /\ filed[s].thumb \in Sizes \cup {None}
    BY <2>1 DEF Row, Filed
  <2>3. /\ row[s].data \in 0..m /\ row[s].thumb \in 0..m
        /\ filed[s].data \in 0..m /\ filed[s].thumb \in 0..m
    BY <2>2, <1>1
  <2> QED
    BY <2>3 DEF Space
<1>3. ASSUME NEW c \in Calls, call[c].pc \in Admitted
      PROVE  call[c].size \in 0..m
  <2>1. call[c].size \in Sizes
    BY <1>3, CallHolds DEF Admitted
  <2> QED
    BY <2>1, <1>1
<1>4. 0 \in 0..(2 * m) /\ 0 \in 0..m
  OBVIOUS
<1>5. LiveSize \in [Submissions -> 0..(2 * m)]
  BY <1>2, <1>4 DEF LiveSize
<1>6. WaitSize \in [Submissions -> 0..(2 * m)]
  BY <1>2, <1>4 DEF WaitSize
<1>7. Taken \in [Calls -> 0..m]
  BY <1>3, <1>4 DEF Taken
<1> QED
  BY <1>5, <1>6, <1>7 DEF SizesTyped

LEMMA SpaceRangeNext ==
    ASSUME NEW m \in Nat, m = Max(Sizes)
    PROVE  InboxInv' => SizesTyped(m)'
<1>1. InboxInv => SizesTyped(m)
  BY SpaceRange
<1> QED
  BY <1>1, PTL

(* storageUsed is the sum over what is filed and what waits.               *)
LEMMA UsedIsWeight ==
    ASSUME InboxInv
    PROVE  /\ StorageUsed = Weight(LiveSize, Submissions) + Weight(WaitSize, Submissions)
           /\ Weight(LiveSize, Submissions) \in Nat /\ Weight(WaitSize, Submissions) \in Nat
           /\ Weight(Taken, Calls) \in Nat
<1> DEFINE files == [s \in Live |-> filed[s].data + filed[s].thumb]
           waiting == [s \in Waiting |-> row[s].data + row[s].thumb]
<1>0. PICK m \in Nat : m = Max(Sizes)
  BY SizeRange
<1>m. PICK M \in Nat : M = 2 * m
  BY <1>0
<1>1. IsFiniteSet(Submissions) /\ IsFiniteSet(Calls)
  BY SizeRange
<1>2. /\ LiveSize \in [Submissions -> 0..M] /\ WaitSize \in [Submissions -> 0..M]
      /\ Taken \in [Calls -> 0..m]
  BY <1>0, <1>m, SpaceRange DEF SizesTyped
<1>3. Live \in SUBSET Submissions /\ Waiting \in SUBSET Submissions
  BY DEF Live, Waiting
<1>4. /\ \A s \in Live : files[s] = LiveSize[s]
      /\ \A s \in Submissions \ Live : LiveSize[s] = 0
      /\ \A s \in Waiting : waiting[s] = WaitSize[s]
      /\ \A s \in Submissions \ Waiting : WaitSize[s] = 0
  BY <1>3 DEF LiveSize, WaitSize, Space
<1>5. files \in [Live -> 0..M] /\ waiting \in [Waiting -> 0..M]
  <2>1. \A s \in Live : files[s] \in 0..M
    BY <1>2, <1>3, <1>4
  <2>2. \A s \in Waiting : waiting[s] \in 0..M
    BY <1>2, <1>3, <1>4
  <2> QED
    BY <2>1, <2>2
<1>6. UsedByFiles = SumFunction(files)
  BY DEF UsedByFiles
<1>7. StorageUsed = UsedByFiles + SumFunction(waiting)
  BY DEF StorageUsed
<1> HIDE DEF files, waiting
<1>8. SumFunction(files) = Weight(LiveSize, Submissions)
  <2>1. LiveSize \in [Submissions -> 0..M] /\ Live \in SUBSET Submissions
        /\ files \in [Live -> 0..M]
    BY <1>2, <1>3, <1>5
  <2>2. \A s \in Live : files[s] = LiveSize[s]
    BY <1>4
  <2>3. \A s \in Submissions \ Live : LiveSize[s] = 0
    BY <1>4
  <2> QED
    BY <1>1, <2>1, <2>2, <2>3, SumOverSubset
<1>9. SumFunction(waiting) = Weight(WaitSize, Submissions)
  <2>1. WaitSize \in [Submissions -> 0..M] /\ Waiting \in SUBSET Submissions
        /\ waiting \in [Waiting -> 0..M]
    BY <1>2, <1>3, <1>5
  <2>2. \A s \in Waiting : waiting[s] = WaitSize[s]
    BY <1>4
  <2>3. \A s \in Submissions \ Waiting : WaitSize[s] = 0
    BY <1>4
  <2> QED
    BY <1>1, <2>1, <2>2, <2>3, SumOverSubset
<1>10. Weight(LiveSize, Submissions) \in Nat
  BY <1>1, <1>2, UnitsAreFinite
<1>11. Weight(WaitSize, Submissions) \in Nat
  BY <1>1, <1>2, UnitsAreFinite
<1>12. Weight(Taken, Calls) \in Nat
  BY <1>1, <1>2, UnitsAreFinite
<1> QED
  BY <1>6, <1>7, <1>8, <1>9, <1>10, <1>11, <1>12

(* What claims rest on: a submission begins with nothing, and a thumbnail  *)
(* drawn in place of another finds one in place.                           *)
RowPace(s) ==
    row[s].state = "unused" => row[s].data = None /\ row[s].thumb = None
PreviewPace(c) ==
    Previewing(c) =>
        LET s == call[c].sub IN
        /\ filed[s].state # "none"
        /\ filed[s].state = "live" /\ call[c].freed # None => filed[s].thumb # None
PaceInv ==
    /\ \A s \in Submissions : RowPace(s)
    /\ \A c \in Calls : PreviewPace(c)

(* Fewer units weigh less.                                                  *)
LEMMA WeightBelow ==
    ASSUME NEW S, IsFiniteSet(S), NEW M \in Nat, NEW f \in [S -> 0..M], NEW g \in [S -> 0..M],
           NEW U \in SUBSET S, \A x \in S \ U : g[x] <= f[x]
    PROVE  /\ Weight(g, S) <= Weight(f, S) + Cardinality(U) * M
           /\ Weight(g, S) \in Nat /\ Weight(f, S) \in Nat /\ Cardinality(U) \in Nat
<1>1. /\ IsFiniteSet(Units(f, S)) /\ Weight(f, S) \in Nat
      /\ IsFiniteSet(Units(g, S)) /\ Weight(g, S) \in Nat
  <2>1. S \in SUBSET S
    OBVIOUS
  <2> QED
    BY <2>1, UnitsAreFinite
<1>2. /\ IsFiniteSet(Units(g, U)) /\ Weight(g, U) \in Nat
      /\ Weight(g, U) <= Cardinality(U) * M /\ Cardinality(U) \in Nat
  BY UnitsAreFinite
<1>3. Units(g, S) \subseteq Units(f, S) \cup Units(g, U)
  <2> SUFFICES ASSUME NEW p \in Units(g, S), p \notin Units(g, U) PROVE p \in Units(f, S)
    OBVIOUS
  <2>1. p \in S \X Nat /\ 1 <= p[2] /\ p[2] <= g[p[1]]
    BY DEF Units
  <2>2. p[1] \notin U
    <3>1. CASE p[1] \in U
      <4>1. p \in U \X Nat
        BY <2>1, <3>1
      <4> QED
        BY <2>1, <4>1 DEF Units
    <3> QED
      BY <3>1
  <2>3. g[p[1]] <= f[p[1]] /\ g[p[1]] \in Nat /\ f[p[1]] \in Nat /\ p[2] \in Nat
    BY <2>1, <2>2
  <2> QED
    BY <2>1, <2>3 DEF Units
<1>4. IsFiniteSet(Units(f, S) \cup Units(g, U))
      /\ Cardinality(Units(f, S) \cup Units(g, U)) <= Weight(f, S) + Weight(g, U)
  <2>1. /\ IsFiniteSet(Units(f, S) \cup Units(g, U))
        /\ Cardinality(Units(f, S) \cup Units(g, U))
             = Cardinality(Units(f, S)) + Cardinality(Units(g, U))
               - Cardinality(Units(f, S) \cap Units(g, U))
    BY <1>1, <1>2, FS_Union
  <2>2. Cardinality(Units(f, S) \cap Units(g, U)) \in Nat
    BY <1>1, FS_Intersection, FS_CardinalityType
  <2> QED
    BY <2>1, <2>2, <1>1, <1>2 DEF Weight
<1>5. Weight(g, S) <= Cardinality(Units(f, S) \cup Units(g, U))
  BY <1>3, <1>4, FS_Subset DEF Weight
<1>6. Cardinality(Units(f, S) \cup Units(g, U)) \in Nat /\ Cardinality(U) * M \in Nat
  BY <1>2, <1>4, FS_CardinalityType
<1> QED
  BY <1>1, <1>2, <1>4, <1>5, <1>6

(* Each of some things has one of finitely many it comes from.             *)
LEMMA OverIsFew ==
    ASSUME NEW D, IsFiniteSet(D), NEW at, NEW Over, Over \subseteq {at[d] : d \in D}
    PROVE  Cardinality(Over) <= Cardinality(D)
<1> DEFINE From == {at[d] : d \in D}
           to == [d \in D |-> at[d]]
<1>1. to \in Surjection(D, From)
  BY DEF Surjection
<1>2. Over \in SUBSET From
  OBVIOUS
<1> HIDE DEF to, From
<1>3. IsFiniteSet(From) /\ Cardinality(From) <= Cardinality(D)
  BY <1>1, FS_Surjection
<1>4. Cardinality(Over) <= Cardinality(From) /\ IsFiniteSet(Over)
  BY <1>2, <1>3, FS_Subset
<1>5. Cardinality(D) \in Nat /\ Cardinality(From) \in Nat /\ Cardinality(Over) \in Nat
  BY <1>3, <1>4, FS_CardinalityType
<1> QED
  BY <1>3, <1>4, <1>5

(* What the other calls carry: two blobs each if it is an accept, one if it *)
(* is an upload.                                                           *)
Carried(m) == (2 * Cardinality(Calls) - 2) * m

LEMMA OthersCarry ==
    ASSUME NEW m \in Nat,
           NEW now \in [Submissions -> 0..(2 * m)], NEW f \in [Submissions -> 0..(2 * m)],
           NEW t \in [Calls -> 0..m], NEW c \in Calls, NEW D \in SUBSET (Calls \ {c}),
           NEW Over \in SUBSET Submissions, Cardinality(Over) <= Cardinality(D),
           \A s \in Submissions \ Over : f[s] <= now[s], \A d \in D : t[d] = 0
    PROVE  /\ Weight(f, Submissions) + Weight(t, Calls)
                <= Weight(now, Submissions) + t[c] + Carried(m)
           /\ Weight(now, Submissions) \in Nat /\ Carried(m) \in Int
<1> DEFINE S == Submissions
           C == Calls
<1>0. IsFiniteSet(S) /\ IsFiniteSet(C) /\ Cardinality(C) \in Nat
  BY SizeRange
<1>m. PICK M \in Nat : M = 2 * m
  OBVIOUS
<1>1. /\ M \in Nat /\ now \in [S -> 0..M] /\ f \in [S -> 0..M] /\ Over \in SUBSET S
      /\ \A s \in S \ Over : f[s] <= now[s]
  BY <1>m
<1>c. t \in [C -> 0..m] /\ c \in C /\ D \in SUBSET (C \ {c})
  OBVIOUS
<1> HIDE DEF S, C
<1>2. /\ IsFiniteSet(D) /\ Cardinality(D) \in Nat /\ Cardinality(C) \in Nat
      /\ IsFiniteSet(C \ {c}) /\ Cardinality(C \ {c}) = Cardinality(C) - 1
      /\ Cardinality(D) <= Cardinality(C) - 1
  <2>1. /\ IsFiniteSet(C \ {c}) /\ Cardinality(C \ {c}) = Cardinality(C) - 1
        /\ Cardinality(C) \in Nat
    BY <1>0, <1>c, FS_RemoveElement, FS_CardinalityType
  <2>2. IsFiniteSet(D) /\ Cardinality(D) <= Cardinality(C \ {c})
    BY <2>1, <1>c, FS_Subset
  <2> QED
    BY <2>1, <2>2, FS_CardinalityType
<1>3. Cardinality(Over) \in Nat
  BY <1>0, <1>1, FS_Subset, FS_CardinalityType
<1>4. /\ Weight(f, S) <= Weight(now, S) + Cardinality(Over) * M
      /\ Weight(f, S) \in Nat /\ Weight(now, S) \in Nat
  BY <1>0, <1>1, WeightBelow
<1>5. Weight(t, C) = t[c] + Weight(t, C \ {c}) /\ t[c] \in Nat
  <2>1. C \in SUBSET C
    OBVIOUS
  <2> QED
    BY <2>1, <1>0, <1>c, WeightSplits
<1>6. /\ Weight(t, C \ {c}) = Weight(t, (C \ {c}) \ D)
      /\ Weight(t, C \ {c}) \in Nat
      /\ Weight(t, (C \ {c}) \ D) <= Cardinality((C \ {c}) \ D) * m
  <2>1. Units(t, C \ {c}) = Units(t, (C \ {c}) \ D)
    <3>1. ASSUME NEW p \in Units(t, C \ {c}) PROVE p \in Units(t, (C \ {c}) \ D)
      <4>1. p \in (C \ {c}) \X Nat /\ 1 <= p[2] /\ p[2] <= t[p[1]]
        BY <3>1 DEF Units
      <4>2. p[1] \notin D
        BY <4>1
      <4>3. p \in ((C \ {c}) \ D) \X Nat
        BY <4>1, <4>2
      <4> QED
        BY <4>1, <4>3 DEF Units
    <3> QED
      BY <3>1 DEF Units
  <2>2. (C \ {c}) \ D \in SUBSET C /\ C \ {c} \in SUBSET C
    OBVIOUS
  <2> QED
    BY <2>1, <2>2, <1>0, <1>c, UnitsAreFinite DEF Weight
<1>7. Cardinality((C \ {c}) \ D) = Cardinality(C) - 1 - Cardinality(D)
  <2>1. /\ Cardinality((C \ {c}) \ D)
             = Cardinality(C \ {c}) - Cardinality((C \ {c}) \cap D)
    BY <1>2, FS_Difference
  <2>2. (C \ {c}) \cap D = D
    BY <1>c
  <2> QED
    BY <2>1, <2>2, <1>2
<1>8. PICK k \in Nat, j \in Nat, o \in Nat :
        k = Cardinality(D) /\ j = Cardinality(C) - 1 /\ o = Cardinality(Over)
  BY <1>2, <1>3
<1>9. o * M + (j - k) * m <= (2 * j) * m
  <2>1. o <= k /\ k <= j
    BY <1>2, <1>3, <1>8
  <2>2. PICK i \in Nat, h \in Nat : k = o + i /\ j = k + h
    <3>1. k - o \in Nat /\ j - k \in Nat /\ k = o + (k - o) /\ j = k + (j - k)
      BY <2>1
    <3> QED
      BY <3>1
  <2>3. (2 * j) * m = o * (2 * m) + (2 * i) * m + (2 * h) * m /\ (j - k) * m = h * m
    BY <2>2
  <2>4. h * m \in Nat /\ i * m \in Nat /\ (2 * i) * m = 2 * (i * m) /\ (2 * h) * m = 2 * (h * m)
    OBVIOUS
  <2> QED
    BY <2>3, <2>4, <1>m
<1>10. PICK a \in Int, b \in Int, e \in Int :
         a = o * M /\ b = (j - k) * m /\ e = (2 * j) * m
  BY <1>1
<1>11. Weight(f, S) <= Weight(now, S) + a /\ Weight(t, C) <= t[c] + b /\ a + b <= e
  BY <1>4, <1>5, <1>6, <1>7, <1>8, <1>9, <1>10
<1>12. Carried(m) = e /\ Carried(m) \in Int
  <2>1. 2 * Cardinality(C) - 2 = 2 * j
    BY <1>2, <1>8
  <2> QED
    BY <2>1, <1>10 DEF Carried, C
<1>13. Weight(t, C) \in Nat
  BY <1>5, <1>6
<1> QED
  BY <1>2, <1>4, <1>5, <1>11, <1>12, <1>13 DEF S, C

LEMMA PaceStep == InboxInv /\ PaceInv /\ [InboxNext]_inboxVars => PaceInv'
<1> SUFFICES ASSUME InboxInv, PaceInv, [InboxNext]_inboxVars PROVE PaceInv'
  OBVIOUS
<1>types. /\ row \in [Submissions -> Row] /\ filed \in [Submissions -> Filed]
          /\ call \in [Calls -> CallType] /\ Idle.pc = "idle"
  BY DEF InboxInv, InboxTypeOK, Idle
<1>none. None \notin Sizes
  BY InboxAssumption DEF None
<1>sub. \A d \in Calls : Previewing(d) => call[d].sub \in Submissions
  BY CallHolds DEF Previewing
(* Rows stay, and what a preview goes on with stays.                       *)
<1>moves. ASSUME NEW c \in Calls, NEW next, Goes(c, next), UNCHANGED <<row, filed>>,
                 next.pc \in {"preview", "drawn", "previewed"} =>
                   \/ /\ Previewing(c) /\ next.sub = call[c].sub /\ next.freed = call[c].freed
                   \/ filed[next.sub].state = "live" /\ next.freed = filed[next.sub].thumb
          PROVE  PaceInv'
  <2>1. ASSUME NEW d \in Calls PROVE PreviewPace(d)'
    <3>1. CASE d = c
      <4>1. call'[c] = next
        BY <1>moves, <1>types DEF Goes
      <4> QED
        BY <3>1, <4>1, <1>moves DEF PaceInv, PreviewPace, Previewing
    <3>2. CASE d # c
      <4>1. call'[d] = call[d]
        BY <1>moves, <1>types, <3>2 DEF Goes
      <4> QED
        BY <4>1, <1>moves DEF PaceInv, PreviewPace, Previewing
    <3> QED
      BY <3>1, <3>2
  <2> QED
    BY <2>1, <1>moves DEF PaceInv, RowPace
(* A call ends, and what previews wait on stays.                           *)
<1>ends. ASSUME NEW c \in Calls, NEW next, Goes(c, next),
                next.pc \notin {"preview", "drawn", "previewed"},
                \A s \in Submissions : RowPace(s)',
                \A s \in Submissions :
                  /\ filed[s].state # "none" => filed'[s].state # "none"
                  /\ filed[s].state # "none" /\ filed'[s].state = "live" =>
                       filed[s].state = "live" /\ (filed[s].thumb # None => filed'[s].thumb # None)
         PROVE  PaceInv'
  <2>1. ASSUME NEW d \in Calls PROVE PreviewPace(d)'
    <3>1. CASE d = c
      <4>1. call'[c] = next
        BY <1>ends, <1>types DEF Goes
      <4> QED
        BY <3>1, <4>1, <1>ends DEF PreviewPace, Previewing
    <3>2. CASE d # c
      <4>1. call'[d] = call[d]
        BY <1>ends, <1>types, <3>2 DEF Goes
      <4> QED
        BY <4>1, <1>ends, <1>sub DEF PaceInv, PreviewPace, Previewing
    <3> QED
      BY <3>1, <3>2
  <2> QED
    BY <2>1, <1>ends DEF PaceInv
<1>1. CASE CreateRequest \/ Close \/ UNCHANGED inboxVars
  BY <1>1 DEF CreateRequest, Close, inboxVars, PaceInv, RowPace, PreviewPace, Previewing
<1>2. ASSUME NEW c \in Calls, Ends(c), UNCHANGED <<row, filed>> PROVE PaceInv'
  BY <1>2, <1>moves, <1>types DEF Ends
<1>3. ASSUME NEW c \in Calls,
             StartBegin(c) \/ CountPending(c) \/ Abandon(c)
      PROVE  PaceInv'
  <2>1. [pc |-> "begin"].pc = "begin" /\ [pc |-> "counted"].pc = "counted"
    OBVIOUS
  <2> QED
    BY <1>3, <2>1, <1>2, <1>moves DEF StartBegin, CountPending, Abandon
<1>4. ASSUME NEW c \in Calls, AdmitUpload(c) \/ PutSubmission(c) PROVE PaceInv'
  <2>1. [call[c] EXCEPT !.pc = "admitted"].pc = "admitted"
        /\ [call[c] EXCEPT !.pc = "stored"].pc = "stored"
    BY <1>4, CallKeeps DEF AdmitUpload, PutSubmission, Uploading
  <2> QED
    BY <1>4, <2>1, <1>2, <1>moves DEF AdmitUpload, PutSubmission
<1>5. ASSUME NEW c \in Calls, AdmitPreview(c) PROVE PaceInv'
  <2> DEFINE next == [call[c] EXCEPT !.pc = "drawn"]
  <2>1. Previewing(c) /\ next.sub = call[c].sub /\ next.freed = call[c].freed
    <3>1. Previewing(c)
      BY <1>5 DEF AdmitPreview, Previewing
    <3> QED
      BY <3>1, CallKeeps
  <2>2. Goes(c, next) \/ Ends(c)
    BY <1>5 DEF AdmitPreview
  <2>3. UNCHANGED <<row, filed>>
    BY <1>5 DEF AdmitPreview
  <2> HIDE DEF next
  <2> QED
    BY <2>1, <2>2, <2>3, <1>2, <1>moves
<1>6. ASSUME NEW c \in Calls, PutPreview(c) PROVE PaceInv'
  <2> DEFINE next == [call[c] EXCEPT !.pc = "previewed"]
  <2>1. Previewing(c) /\ next.sub = call[c].sub /\ next.freed = call[c].freed
    <3>1. Previewing(c)
      BY <1>6 DEF PutPreview, Previewing
    <3> QED
      BY <3>1, CallKeeps
  <2>2. Goes(c, next) /\ UNCHANGED <<row, filed>>
    BY <1>6 DEF PutPreview
  <2> HIDE DEF next
  <2> QED
    BY <2>1, <2>2, <1>moves
<1>7. ASSUME NEW c \in Calls, RemoveBlob(c) PROVE PaceInv'
  <2>1. [call[c] EXCEPT !.pc = "removeThumb"].pc = "removeThumb"
    <3>1. call[c].pc \in {"discard", "removeData", "removeThumb"}
      BY <1>7 DEF RemoveBlob
    <3> QED
      BY <3>1, CallKeeps
  <2> QED
    BY <1>7, <2>1, <1>2, <1>moves DEF RemoveBlob
<1>8. ASSUME NEW c \in Calls, InsertSubmission(c) PROVE PaceInv'
  <2>1. PICK s \in Submissions : row' = [row EXCEPT ![s].state = "open"]
    BY <1>8 DEF InsertSubmission
  <2>2. \A t \in Submissions : RowPace(t)'
    <3>1. [row[s] EXCEPT !.state = "open"].state = "open"
      <4>1. row[s] \in Row
        BY <1>types
      <4> QED
        BY <4>1 DEF Row
    <3> QED
      BY <2>1, <3>1, <1>types DEF PaceInv, RowPace
  <2> QED
    BY <1>8, <2>2, <1>ends, <1>types DEF InsertSubmission, Ends
<1>9. ASSUME NEW c \in Calls, NEW s \in Submissions, NEW kind \in Kinds, NEW size \in Sizes,
             StartUpload(c, s, kind, size)
      PROVE  PaceInv'
  BY <1>9, <1>moves DEF StartUpload
<1>10. ASSUME NEW c \in Calls, RecordSize(c) PROVE PaceInv'
  <2>1. call[c].sub \in Submissions
    BY <1>10, CallHolds DEF RecordSize
  <2> DEFINE s == call[c].sub
  <2>2. \/ row' = row
        \/ /\ row[s].state = "open"
           /\ \/ row' = [row EXCEPT ![s] = [row[s] EXCEPT !.data = call[c].size, !.uploaded = TRUE]]
              \/ row' = [row EXCEPT ![s] = [row[s] EXCEPT !.thumb = call[c].size]]
    BY <1>10 DEF RecordSize
  <2>3. \A t \in Submissions : RowPace(t)'
    <3>1. row[s] \in Row
      BY <2>1, <1>types
    <3>2. /\ [row[s] EXCEPT !.data = call[c].size, !.uploaded = TRUE].state = row[s].state
          /\ [row[s] EXCEPT !.thumb = call[c].size].state = row[s].state
      BY <3>1 DEF Row
    <3> QED
      BY <2>1, <2>2, <3>2, <1>types DEF PaceInv, RowPace
  <2> QED
    BY <1>10, <2>3, <1>ends, <1>types DEF RecordSize, Ends
<1>11. ASSUME NEW c \in Calls, NEW s \in Submissions, StartAccept(c, s) PROVE PaceInv'
  BY <1>11, <1>moves DEF StartAccept
<1>12. ASSUME NEW c \in Calls, CommitAccept(c) PROVE PaceInv'
  <2>1. call[c].sub \in Submissions
    BY <1>12, CallHolds DEF CommitAccept
  <2> DEFINE s == call[c].sub
  <2>2. \A t \in Submissions : RowPace(t)'
    <3>1. row' = row \/ row' = [row EXCEPT ![s].consumed = TRUE]
      BY <1>12 DEF CommitAccept
    <3>2. /\ [row[s] EXCEPT !.consumed = TRUE].state = row[s].state
          /\ [row[s] EXCEPT !.consumed = TRUE].data = row[s].data
          /\ [row[s] EXCEPT !.consumed = TRUE].thumb = row[s].thumb
      <4>1. row[s] \in Row
        BY <2>1, <1>types
      <4> QED
        BY <4>1 DEF Row
    <3> QED
      BY <2>1, <3>1, <3>2, <1>types DEF PaceInv, RowPace
  <2>3. \/ filed' = filed
        \/ /\ filed[s].state = "none"
           /\ filed' = [filed EXCEPT ![s] = [state |-> "live", data |-> call[c].data,
                                             thumb |-> call[c].thumb]]
    BY <1>12 DEF CommitAccept
  <2>4. \A t \in Submissions : filed[t].state # "none" => filed'[t] = filed[t]
    BY <2>1, <2>3, <1>types
  <2> QED
    BY <1>12, <2>2, <2>4, <1>ends, <1>types DEF CommitAccept, Ends
<1>13. ASSUME NEW c \in Calls, NEW s \in Submissions, StartDiscard(c, s) PROVE PaceInv'
  BY <1>13, <1>moves DEF StartDiscard
<1>14. ASSUME NEW c \in Calls, DiscardRow(c) PROVE PaceInv'
  <2>1. call[c].sub \in Submissions /\ call[c].pc = "discard"
    BY <1>14, CallHolds DEF DiscardRow
  <2> DEFINE s == call[c].sub
             r == [row[s] EXCEPT !.state = "gone", !.uploaded = FALSE, !.consumed = FALSE,
                                 !.data = None, !.thumb = None]
             next == [call[c] EXCEPT !.pc = "removeData"]
  <2>2. r.state = "gone"
    <3>1. row[s] \in Row
      BY <2>1, <1>types
    <3> QED
      BY <3>1 DEF Row
  <2>3. row' = [row EXCEPT ![s] = r]
    BY <1>14 DEF DiscardRow
  <2>4. \A t \in Submissions : RowPace(t)'
    <3> HIDE DEF r
    <3> QED
      BY <2>1, <2>2, <2>3, <1>types DEF PaceInv, RowPace
  <2>5. next.pc = "removeData"
    BY <2>1, CallKeeps
  <2>6. Goes(c, next) /\ filed' = filed
    BY <1>14 DEF DiscardRow
  <2> HIDE DEF next
  <2> QED
    BY <2>4, <2>5, <2>6, <1>ends
<1>15. ASSUME NEW c \in Calls, NEW s \in Submissions, DeleteFiled(c, s) PROVE PaceInv'
  <2>1. \A t \in Submissions : RowPace(t)'
    BY <1>15 DEF DeleteFiled, PaceInv, RowPace
  <2>2. \A t \in Submissions : filed'[t] = filed[t] \/ filed'[t].state = "deleted"
    BY <1>15, <1>types DEF DeleteFiled
  <2> QED
    BY <1>15, <2>1, <2>2, <1>ends DEF DeleteFiled
<1>16. ASSUME NEW c \in Calls, NEW s \in Submissions, NEW size \in Sizes,
              StartPreview(c, s, size)
       PROVE  PaceInv'
  BY <1>16, <1>moves DEF StartPreview
<1>17. ASSUME NEW c \in Calls, RecordPreview(c) PROVE PaceInv'
  <2>1. call[c].sub \in Submissions /\ call[c].size \in Sizes
    BY <1>17, CallHolds DEF RecordPreview
  <2>2. \A t \in Submissions : RowPace(t)'
    BY <1>17 DEF RecordPreview, PaceInv, RowPace
  <2>3. \A t \in Submissions :
          \/ filed'[t] = filed[t]
          \/ filed'[t].state = filed[t].state /\ filed'[t].thumb # None
    <3>1. filed[call[c].sub] \in Filed
      BY <2>1, <1>types
    <3>2. /\ [filed[call[c].sub] EXCEPT !.thumb = call[c].size].state = filed[call[c].sub].state
          /\ [filed[call[c].sub] EXCEPT !.thumb = call[c].size].thumb = call[c].size
      BY <3>1 DEF Filed
    <3> QED
      BY <1>17, <2>1, <3>2, <1>types, <1>none DEF RecordPreview
  <2> QED
    BY <1>17, <2>2, <2>3, <1>ends, <1>types DEF RecordPreview, Ends
<1> QED
  BY <1>1, <1>3, <1>4, <1>5, <1>6, <1>7, <1>8, <1>9, <1>10, <1>11, <1>12, <1>13, <1>14, <1>15,
     <1>16, <1>17 DEF InboxNext, CallNext

(* A submission claims what two blobs weigh.                                *)
LEMMA ClaimRange ==
    ASSUME InboxInv, OnceInv, NEW m \in Nat, m = Max(Sizes), NEW s \in Submissions
    PROVE  /\ \A x : Claim(s, x) => x \in 0..(2 * m)
           /\ LiveSize[s] \in 0..(2 * m) /\ WaitSize[s] \in 0..(2 * m)
           /\ LiveSize[s] = 0 \/ WaitSize[s] = 0
           /\ filed[s].state # "none" => WaitSize[s] = 0
           /\ filed[s].state # "live" => LiveSize[s] = 0
           /\ filed[s].state = "live" => LiveSize[s] = filed[s].data + filed[s].thumb
           /\ filed[s].data \in 0..m /\ filed[s].thumb \in 0..m
<1>1. \A x \in Sizes \cup {None} : x \in 0..m
  BY SizeRange
<1>2. LiveSize[s] \in 0..(2 * m) /\ WaitSize[s] \in 0..(2 * m)
  BY SpaceRange DEF SizesTyped
<1>3. filed[s].state # "live" => LiveSize[s] = 0
  BY DEF LiveSize, Live
<1>4. filed[s].state = "live" => LiveSize[s] = filed[s].data + filed[s].thumb
  BY DEF LiveSize, Live, Space
<1>5. filed[s].state # "none" => WaitSize[s] = 0
  BY DEF OnceInv, WaitSize, Waiting
<1>6. filed[s].data \in 0..m /\ filed[s].thumb \in 0..m
  <2>1. filed[s] \in Filed
    BY DEF InboxInv, InboxTypeOK
  <2> QED
    BY <2>1, <1>1 DEF Filed
<1>7. LiveSize[s] = 0 \/ WaitSize[s] = 0
  BY <1>3, <1>5
<1>8. ASSUME NEW c \in Calls, call[c].pc = "accept" PROVE Space(call[c]) \in 0..(2 * m)
  <2>1. call[c].data \in 0..m /\ call[c].thumb \in 0..m
    BY <1>8, <1>1, CallHolds
  <2> QED
    BY <2>1 DEF Space
<1>9. ASSUME NEW c \in Calls, call[c].pc \in Drawing
      PROVE  filed[s].data + call[c].size \in 0..(2 * m)
  <2>1. call[c].size \in 0..m
    BY <1>9, <1>1, CallHolds DEF Drawing
  <2> QED
    BY <2>1, <1>6
<1>10. ASSUME NEW x, Claim(s, x) PROVE x \in 0..(2 * m)
  BY <1>10, <1>2, <1>7, <1>8, <1>9 DEF Claim
<1> QED
  BY <1>2, <1>3, <1>4, <1>5, <1>6, <1>7, <1>10

(* What is claimed may shrink, and so may what is on its way.              *)
LEMMA QuotaStays ==
    ASSUME InboxInv, InboxInv', QuotaInv,
           \A c \in Calls : Taken'[c] <= Taken[c],
           \A s \in Submissions : \A x : Claim(s, x)' => Claim(s, x)
    PROVE  QuotaInv'
<1>0. PICK m \in Nat : m = Max(Sizes)
  BY SizeRange
<1>1. IsFiniteSet(Calls) /\ IsFiniteSet(Submissions) /\ Limit(m) \in Int
  BY SizeRange DEF Limit
<1>2. PICK t \in [Calls -> 0..m], u \in [Calls -> 0..m] : t = Taken /\ u = Taken'
  BY <1>0, SpaceRange, SpaceRangeNext DEF SizesTyped
<1>3. Weight(u, Calls) <= Weight(t, Calls) /\ Weight(u, Calls) \in Nat /\ Weight(t, Calls) \in Nat
  <2>1. {} \in SUBSET Calls /\ \A c \in Calls \ {} : u[c] <= t[c]
    BY <1>2
  <2>2. /\ Weight(u, Calls) <= Weight(t, Calls) + Cardinality({}) * m
        /\ Weight(u, Calls) \in Nat /\ Weight(t, Calls) \in Nat
    BY <1>1, <2>1, WeightBelow
  <2>3. Cardinality({}) * m = 0
    BY FS_EmptySet
  <2> QED
    BY <2>2, <2>3
<1>4. ASSUME NEW f \in Picks(m)'
      PROVE  Weight(f, Submissions) + Weight(u, Calls) <= Limit(m)
  <2>1. f \in [Submissions -> 0..(2 * m)] /\ \A s \in Submissions : Claim(s, f[s])'
    BY <1>4 DEF Picks
  <2>2. f \in Picks(m)
    BY <2>1 DEF Picks
  <2>3. Weight(f, Submissions) + Weight(t, Calls) <= Limit(m)
    BY <1>0, <1>2, <2>2 DEF QuotaInv
  <2>4. Weight(f, Submissions) \in Nat
    <3>1. 2 * m \in Nat /\ Submissions \in SUBSET Submissions
      BY <1>0
    <3> QED
      BY <1>1, <2>1, <3>1, UnitsAreFinite
  <2> QED
    BY <1>1, <1>3, <2>3, <2>4
<1> QED
  BY <1>0, <1>2, <1>4 DEF QuotaInv, Limit

(* One submission may come to claim more, by what a call no longer carries. *)
LEMMA QuotaMoves ==
    ASSUME InboxInv, InboxInv', OnceInv, QuotaInv, NEW c \in Calls, NEW s \in Submissions,
           \A d \in Calls \ {c} : Taken'[d] = Taken[d],
           \A r \in Submissions \ {s} : \A x : Claim(r, x)' => Claim(r, x),
           \A x \in Nat : Claim(s, x)' =>
              \E y \in Nat : Claim(s, y) /\ x + Taken'[c] <= y + Taken[c]
    PROVE  QuotaInv'
<1>0. PICK m \in Nat : m = Max(Sizes)
  BY SizeRange
<1>m. PICK M \in Nat : M = 2 * m
  BY <1>0
<1>1. IsFiniteSet(Calls) /\ IsFiniteSet(Submissions) /\ Limit(m) \in Int
  BY SizeRange DEF Limit
<1>2. PICK t \in [Calls -> 0..m], u \in [Calls -> 0..m] : t = Taken /\ u = Taken'
  BY <1>0, SpaceRange, SpaceRangeNext DEF SizesTyped
<1>4. ASSUME NEW g \in Picks(m)'
      PROVE  Weight(g, Submissions) + Weight(u, Calls) <= Limit(m)
  <2>1. g \in [Submissions -> 0..M] /\ \A r \in Submissions : Claim(r, g[r])'
    BY <1>4, <1>m DEF Picks
  <2>2. g[s] \in Nat /\ Claim(s, g[s])'
    BY <2>1
  <2>3. PICK y \in Nat : Claim(s, y) /\ g[s] + u[c] <= y + t[c]
    BY <1>2, <2>2
  <2>4. y \in 0..M
    BY <1>0, <1>m, <2>3, ClaimRange
  <2>5. PICK f \in [Submissions -> 0..M] : f = [g EXCEPT ![s] = y]
    BY <2>1, <2>4
  <2>6. f \in Picks(m)
    <3>1. \A r \in Submissions : Claim(r, f[r])
      <4> SUFFICES ASSUME NEW r \in Submissions PROVE Claim(r, f[r])
        OBVIOUS
      <4>1. CASE r = s
        <5>1. f[r] = y
          BY <4>1, <2>1, <2>5
        <5> QED
          BY <4>1, <5>1, <2>3
      <4>2. CASE r # s
        <5>1. f[r] = g[r]
          BY <4>2, <2>1, <2>5
        <5>2. Claim(r, g[r])
          BY <4>2, <2>1
        <5> QED
          BY <5>1, <5>2
      <4> QED
        BY <4>1, <4>2
    <3> QED
      BY <3>1, <2>5, <1>m DEF Picks
  <2>7. Weight(f, Submissions) + Weight(t, Calls) <= Limit(m)
    BY <1>0, <1>2, <2>6 DEF QuotaInv
  <2>8. f[s] = y /\ \A x \in Submissions \ {s} : g[x] = f[x]
    BY <2>1, <2>5
  <2>9. \A x \in Calls \ {c} : u[x] = t[x]
    BY <1>2
  <2>10. g[s] + u[c] <= f[s] + t[c]
    BY <2>3, <2>8
  <2>11. PICK B \in Int : B = Limit(m)
    BY <1>1
  <2>12. Weight(f, Submissions) + Weight(t, Calls) <= B
    BY <2>7, <2>11
  <2>13. Weight(g, Submissions) + Weight(u, Calls) <= B
    <3>1. g \in [Submissions -> 0..M]
      BY <2>1
    <3>2. \A x \in Submissions \ {s} : g[x] = f[x]
      BY <2>8
    <3>3. /\ Weight(g, Submissions) + f[s] = Weight(f, Submissions) + g[s]
          /\ Weight(f, Submissions) \in Nat /\ Weight(g, Submissions) \in Nat
      BY <1>1, <3>1, <3>2, WeightMoves
    <3>4. /\ Weight(u, Calls) + t[c] = Weight(t, Calls) + u[c]
          /\ Weight(t, Calls) \in Nat /\ Weight(u, Calls) \in Nat
      BY <1>1, <2>9, WeightMoves
    <3>5. f[s] \in Nat /\ g[s] \in Nat /\ t[c] \in Nat /\ u[c] \in Nat
      BY <3>1
    <3> QED
      BY <3>3, <3>4, <3>5, <2>10, <2>12
  <2> QED
    BY <2>11, <2>13
<1> QED
  BY <1>0, <1>2, <1>4 DEF QuotaInv, Limit

(* Files and submissions add up to what is used: only one of the two is    *)
(* ever counted under an id.                                               *)
Now == [s \in Submissions |-> LiveSize[s] + WaitSize[s]]

LEMMA NowIsUsed ==
    ASSUME InboxInv, OnceInv, NEW m \in Nat, m = Max(Sizes)
    PROVE  /\ Now \in [Submissions -> 0..(2 * m)] /\ Weight(Now, Submissions) = StorageUsed
           /\ StorageUsed \in Nat
<1>m. PICK M \in Nat : M = 2 * m
  OBVIOUS
<1>1. IsFiniteSet(Submissions) /\ Submissions \in SUBSET Submissions
  BY SizeRange
<1>2. PICK l \in [Submissions -> 0..M], w \in [Submissions -> 0..M] : l = LiveSize /\ w = WaitSize
  BY <1>m, SpaceRange DEF SizesTyped
<1>3. \A s \in Submissions : l[s] = 0 \/ w[s] = 0
  BY <1>2, ClaimRange
<1>4. PICK n \in [Submissions -> 0..M] : n = Now
  <2>1. \A s \in Submissions : l[s] + w[s] \in 0..M
    BY <1>3
  <2> QED
    BY <1>2, <2>1 DEF Now
<1>5. \A s \in Submissions : n[s] = l[s] + w[s]
  BY <1>2, <1>4 DEF Now
<1>6. Units(n, Submissions) = Units(l, Submissions) \cup Units(w, Submissions)
  <2>1. ASSUME NEW p \in Submissions \X Nat
        PROVE  p \in Units(n, Submissions)
                 <=> p \in Units(l, Submissions) \/ p \in Units(w, Submissions)
    <3>1. p[1] \in Submissions /\ p[2] \in Nat
      OBVIOUS
    <3>2. l[p[1]] \in Nat /\ w[p[1]] \in Nat /\ n[p[1]] = l[p[1]] + w[p[1]]
          /\ (l[p[1]] = 0 \/ w[p[1]] = 0)
      BY <3>1, <1>3, <1>5
    <3> QED
      BY <3>1, <3>2 DEF Units
  <2> QED
    BY <2>1 DEF Units
<1>7. Units(l, Submissions) \cap Units(w, Submissions) = {}
  <2> SUFFICES ASSUME NEW p \in Units(l, Submissions), p \in Units(w, Submissions) PROVE FALSE
    OBVIOUS
  <2>1. p[1] \in Submissions /\ p[2] \in Nat /\ 1 <= p[2] /\ p[2] <= l[p[1]] /\ p[2] <= w[p[1]]
    BY DEF Units
  <2>2. l[p[1]] = 0 \/ w[p[1]] = 0
    BY <2>1, <1>3
  <2> QED
    BY <2>1, <2>2
<1>8. /\ IsFiniteSet(Units(l, Submissions)) /\ Weight(l, Submissions) \in Nat
      /\ IsFiniteSet(Units(w, Submissions)) /\ Weight(w, Submissions) \in Nat
  BY <1>1, UnitsAreFinite
<1>9. Weight(n, Submissions) = Weight(l, Submissions) + Weight(w, Submissions)
  <2>1. Cardinality(Units(l, Submissions) \cap Units(w, Submissions)) = 0
    BY <1>7, FS_EmptySet
  <2>2. Cardinality(Units(n, Submissions))
          = Cardinality(Units(l, Submissions)) + Cardinality(Units(w, Submissions))
            - Cardinality(Units(l, Submissions) \cap Units(w, Submissions))
    BY <1>6, <1>8, FS_Union
  <2> QED
    BY <2>1, <2>2, <1>8 DEF Weight
<1>10. StorageUsed = Weight(l, Submissions) + Weight(w, Submissions)
  BY <1>2, UsedIsWeight
<1> QED
  BY <1>m, <1>4, <1>8, <1>9, <1>10

(* A claim is what is held, or was one: unless a file was filed, or a call  *)
(* takes up a claim of its own.                                            *)
LEMMA ClaimNext ==
    ASSUME InboxInv, NEW c \in Calls, NEW next, Goes(c, next), NEW s \in Submissions, NEW x,
           Claim(s, x)',
           filed'[s].state # "deleted" =>
             filed'[s].state = filed[s].state /\ filed'[s].data = filed[s].data,
           next.pc = "accept" /\ next.sub = s /\ filed[s].state = "none" => Claim(s, Space(next)),
           next.pc \in Drawing /\ next.sub = s /\ filed[s].state = "live" =>
             Claim(s, filed[s].data + next.size)
    PROVE  x = LiveSize'[s] + WaitSize'[s] \/ Claim(s, x)
<1>1. call'[c] = next /\ \A d \in Calls \ {c} : call'[d] = call[d]
  BY DEF InboxInv, InboxTypeOK, Goes
<1>2. ASSUME filed'[s].state = "none", NEW d \in Calls, call'[d].pc = "accept", call'[d].sub = s,
             x = Space(call'[d])
      PROVE  Claim(s, x)
  <2>1. filed[s].state = "none"
    BY <1>2
  <2>2. CASE d = c
    BY <2>1, <2>2, <1>1, <1>2
  <2>3. CASE d # c
    BY <2>1, <2>3, <1>1, <1>2 DEF Claim
  <2> QED
    BY <2>2, <2>3
<1>3. ASSUME filed'[s].state = "live", NEW d \in Calls, call'[d].pc \in Drawing,
             call'[d].sub = s, x = filed'[s].data + call'[d].size
      PROVE  Claim(s, x)
  <2>1. filed[s].state = "live" /\ filed'[s].data = filed[s].data
    BY <1>3
  <2>2. CASE d = c
    BY <2>1, <2>2, <1>1, <1>3
  <2>3. CASE d # c
    BY <2>1, <2>3, <1>1, <1>3 DEF Claim
  <2> QED
    BY <2>2, <2>3
<1>4. \/ x = LiveSize'[s] + WaitSize'[s]
      \/ /\ filed'[s].state = "none"
         /\ \E d \in Calls : /\ call'[d].pc = "accept" /\ call'[d].sub = s
                             /\ x = Space(call'[d])
      \/ /\ filed'[s].state = "live"
         /\ \E d \in Calls : /\ call'[d].pc \in Drawing /\ call'[d].sub = s
                             /\ x = filed'[s].data + call'[d].size
  BY DEF Claim, Space, Drawing
<1> QED
  BY <1>2, <1>3, <1>4

(* What stays of one submission stays in the sums.                         *)
LEMMA SizeStays ==
    ASSUME NEW s \in Submissions, row'[s] = row[s], filed'[s] = filed[s]
    PROVE  LiveSize'[s] = LiveSize[s] /\ WaitSize'[s] = WaitSize[s] /\ Claim(s, LiveSize[s] + WaitSize[s])
BY DEF LiveSize, WaitSize, Live, Waiting, Space, Claim

(* What a call carries, before and after its step.                          *)
LEMMA TakenNext ==
    ASSUME InboxInv, NEW c \in Calls, NEW next, Goes(c, next)
    PROVE  /\ Taken'[c] = IF next.pc \in Admitted THEN next.size ELSE 0
           /\ \A d \in Calls \ {c} : Taken'[d] = Taken[d]
           /\ \A d \in Calls : Taken[d] \in Nat
<1>1. call'[c] = next /\ \A d \in Calls \ {c} : call'[d] = call[d]
  BY DEF InboxInv, InboxTypeOK, Goes
<1>2. \A d \in Calls : Taken[d] \in Nat
  <2>1. PICK m \in Nat : m = Max(Sizes)
    BY SizeRange
  <2> QED
    BY <2>1, SpaceRange DEF SizesTyped
<1> QED
  BY <1>1, <1>2 DEF Taken

(* A call that touches neither row nor file.                               *)
LEMMA QuotaGoesOn ==
    ASSUME InboxInv, InboxInv', QuotaInv, NEW c \in Calls, NEW next, Goes(c, next),
           UNCHANGED <<row, filed>>,
           next.pc \in Admitted => call[c].pc \in Admitted /\ next.size = call[c].size,
           next.pc = "accept" /\ filed[next.sub].state = "none" =>
             Claim(next.sub, Space(next)),
           next.pc \in Drawing /\ filed[next.sub].state = "live" =>
             Claim(next.sub, filed[next.sub].data + next.size)
    PROVE  QuotaInv'
<1>1. \A d \in Calls : Taken'[d] <= Taken[d]
  <2>1. Taken[c] = IF call[c].pc \in Admitted THEN call[c].size ELSE 0
    BY DEF Taken
  <2> QED
    BY <2>1, TakenNext
<1>2. ASSUME NEW s \in Submissions, NEW x, Claim(s, x)' PROVE Claim(s, x)
  <2>1. x = LiveSize'[s] + WaitSize'[s] \/ Claim(s, x)
    BY <1>2, ClaimNext
  <2> QED
    BY <2>1, SizeStays
<1> QED
  BY <1>1, <1>2, QuotaStays

(* The limit, counted from what the other calls carry.                      *)
LEMMA LimitIs ==
    ASSUME NEW m \in Nat
    PROVE  Limit(m) = Quota + Carried(m) + m - 1 /\ Carried(m) \in Int
<1>1. PICK n \in Nat : n = Cardinality(Calls)
  BY SizeRange
<1>2. (2 * n - 1) * m = (2 * n - 2) * m + m
  OBVIOUS
<1> QED
  BY <1>1, <1>2, SizeRange DEF Limit, Carried

(* A call that found room for what it brings may go on with it.            *)
LEMMA QuotaAdmits ==
    ASSUME InboxInv, InboxInv', OnceInv, NEW c \in Calls, NEW next, Goes(c, next),
           UNCHANGED <<row, filed>>, next.pc = "admitted", next.size \in Sizes,
           StorageUsed + next.size <= Quota
    PROVE  QuotaInv'
<1>0. PICK m \in Nat \ {0} : m = Max(Sizes)
  BY SizeRange
<1>1. /\ IsFiniteSet(Calls) /\ IsFiniteSet(Submissions) /\ Quota \in Nat
      /\ Cardinality(Calls) \in Nat
  BY SizeRange
<1>2. PICK u \in [Calls -> 0..m] : u = Taken'
  BY <1>0, SpaceRangeNext DEF SizesTyped
<1>3. PICK now \in [Submissions -> 0..(2 * m)] :
        now = Now /\ Weight(now, Submissions) = StorageUsed /\ StorageUsed \in Nat
  BY <1>0, NowIsUsed
<1>4. u[c] = next.size /\ u[c] \in Nat
  BY <1>2, TakenNext DEF Admitted
<1>5. call'[c] = next /\ call' \in [Calls -> CallType]
  BY DEF InboxInv, InboxTypeOK, Goes
<1>6. PICK at : at = [d \in Calls |-> call'[d].sub]
  OBVIOUS
<1>7. PICK D \in SUBSET (Calls \ {c}) :
        D = {d \in Calls : call'[d].pc = "accept" \/ call'[d].pc \in Drawing}
  BY <1>5 DEF Drawing
<1>8. \A d \in D : u[d] = 0
  BY <1>2, <1>7 DEF Taken, Drawing, Admitted
<1>9. ASSUME NEW f \in Picks(m)'
      PROVE  Weight(f, Submissions) + Weight(u, Calls) <= Limit(m)
  <2>1. f \in [Submissions -> 0..(2 * m)] /\ \A s \in Submissions : Claim(s, f[s])'
    BY <1>9 DEF Picks
  <2>2. \A s \in Submissions : f[s] > now[s] => \E d \in D : at[d] = s
    <3> SUFFICES ASSUME NEW s \in Submissions, f[s] > now[s] PROVE \E d \in D : at[d] = s
      OBVIOUS
    <3>1. LiveSize'[s] + WaitSize'[s] = now[s]
      BY <1>3, SizeStays DEF Now
    <3>2. f[s] # LiveSize'[s] + WaitSize'[s]
      BY <3>1, <2>1
    <3>3. \E d \in Calls : /\ call'[d].pc = "accept" \/ call'[d].pc \in Drawing
                           /\ call'[d].sub = s
      BY <3>2, <2>1 DEF Claim, Drawing
    <3> QED
      BY <3>3, <1>6, <1>7
  <2>4. Limit(m) = Quota + Carried(m) + m - 1
    BY LimitIs
  <2>5. /\ Weight(f, Submissions) + Weight(u, Calls)
             <= Weight(now, Submissions) + u[c] + Carried(m)
        /\ Weight(now, Submissions) \in Nat /\ Carried(m) \in Int
    <3>1. PICK Over \in SUBSET Submissions : Over = {s \in Submissions : f[s] > now[s]}
      OBVIOUS
    <3>2. \A s \in Submissions \ Over : f[s] <= now[s]
      BY <2>1, <3>1
    <3>3. Cardinality(Over) <= Cardinality(D)
      <4>1. IsFiniteSet(D)
        BY <1>1, FS_Subset
      <4>2. Over \subseteq {at[d] : d \in D}
        BY <2>2, <3>1
      <4> QED
        BY <4>1, <4>2, OverIsFew
    <3> QED
      BY <2>1, <3>2, <3>3, <1>8, OthersCarry
  <2>6. Weight(f, Submissions) \in Nat /\ Weight(u, Calls) \in Nat
    <3>1. 2 * m \in Nat /\ Submissions \in SUBSET Submissions /\ Calls \in SUBSET Calls
      BY <1>0
    <3> QED
      BY <1>1, <2>1, <3>1, UnitsAreFinite
  <2> QED
    BY <1>1, <1>3, <1>4, <2>4, <2>5, <2>6
<1> QED
  BY <1>0, <1>2, <1>9 DEF QuotaInv, Limit

(* So may a thumbnail: it counts for the one it replaces, whose size may   *)
(* have changed since it was read, by less than the largest.               *)
LEMMA QuotaDraws ==
    ASSUME InboxInv, InboxInv', OnceInv, PaceInv, QuotaInv, NEW c \in Calls, NEW next,
           Goes(c, next), UNCHANGED <<row, filed>>, call[c].pc = "preview", next.pc = "drawn",
           next.sub = call[c].sub, next.size = call[c].size,
           filed[next.sub].state = "live", StorageUsed + next.size <= Quota + call[c].freed
    PROVE  QuotaInv'
<1>0. PICK m \in Nat \ {0} : m = Max(Sizes)
  BY SizeRange
<1>1. /\ IsFiniteSet(Calls) /\ IsFiniteSet(Submissions) /\ Quota \in Nat
      /\ Cardinality(Calls) \in Nat
  BY SizeRange
<1>2. PICK u \in [Calls -> 0..m] : u = Taken'
  BY <1>0, SpaceRangeNext DEF SizesTyped
<1>3. PICK now \in [Submissions -> 0..(2 * m)] :
        now = Now /\ Weight(now, Submissions) = StorageUsed /\ StorageUsed \in Nat
  BY <1>0, NowIsUsed
<1>4. u = Taken /\ u[c] = 0
  <2>1. Taken[c] = 0 /\ Taken \in [Calls -> 0..m]
    BY <1>0, SpaceRange DEF Taken, Admitted, SizesTyped
  <2>2. u[c] = 0 /\ \A d \in Calls \ {c} : u[d] = Taken[d]
    BY <1>2, TakenNext DEF Admitted
  <2> QED
    BY <2>1, <2>2
<1>5. call'[c] = next /\ call' \in [Calls -> CallType] /\ \A d \in Calls \ {c} : call'[d] = call[d]
  BY DEF InboxInv, InboxTypeOK, Goes
<1>6. PICK at : at = [d \in Calls |-> call'[d].sub]
  OBVIOUS
<1>7. PICK D \in SUBSET (Calls \ {c}) :
        D = {d \in Calls \ {c} : call'[d].pc = "accept" \/ call'[d].pc \in Drawing}
  OBVIOUS
<1>8. \A d \in D : u[d] = 0
  BY <1>2, <1>7 DEF Taken, Drawing, Admitted
<1>9. Limit(m) = Quota + Carried(m) + m - 1 /\ Carried(m) \in Int
  BY LimitIs
<1>10. ASSUME NEW k \in [Submissions -> 0..(2 * m)],
              \A r \in Submissions : k[r] > now[r] => \E d \in D : at[d] = r
       PROVE  /\ Weight(k, Submissions) + Weight(u, Calls)
                   <= Weight(now, Submissions) + u[c] + Carried(m)
              /\ Weight(now, Submissions) \in Nat
  <2>1. PICK Over \in SUBSET Submissions : Over = {r \in Submissions : k[r] > now[r]}
    OBVIOUS
  <2>2. \A r \in Submissions \ Over : k[r] <= now[r]
    BY <2>1
  <2>3. Cardinality(Over) <= Cardinality(D)
    <3>1. IsFiniteSet(D)
      BY <1>1, FS_Subset
    <3>2. Over \subseteq {at[d] : d \in D}
      BY <1>10, <2>1
    <3> QED
      BY <3>1, <3>2, OverIsFew
  <2> QED
    BY <2>2, <2>3, <1>8, OthersCarry
<1>11. PICK s \in Submissions : s = next.sub
  BY CallHolds
<1>12. PICK h \in 0..m, n \in 0..m, o \in 0..m, e \in 0..m :
         /\ h = filed[s].data /\ o = filed[s].thumb /\ n = next.size /\ e = call[c].freed
         /\ now[s] = h + o /\ e - o <= m - 1
  <2>1. \A x \in Sizes \cup {None} : x \in 0..m
    BY <1>0, SizeRange
  <2>2. filed[s].data \in 0..m /\ filed[s].thumb \in 0..m
        /\ LiveSize[s] = filed[s].data + filed[s].thumb /\ WaitSize[s] = 0
    BY <1>0, <1>11, ClaimRange
  <2>3. next.size \in 0..m /\ call[c].freed \in 0..m
    BY <2>1, CallHolds
  <2>4. call[c].freed # 0 => filed[s].thumb # 0
    BY <1>11 DEF PaceInv, PreviewPace, Previewing, None
  <2>5. call[c].freed - filed[s].thumb <= m - 1
    <3>1. CASE call[c].freed = 0
      BY <3>1, <2>2
    <3>2. CASE call[c].freed # 0
      <4>1. filed[s].thumb \in 0..m /\ filed[s].thumb # 0
        BY <3>2, <2>2, <2>4
      <4> QED
        BY <4>1, <2>3
    <3> QED
      BY <3>1, <3>2
  <2>6. now[s] = filed[s].data + filed[s].thumb
    BY <1>3, <2>2 DEF Now
  <2> QED
    BY <2>2, <2>3, <2>5, <2>6
<1>13. ASSUME NEW r \in Submissions, NEW x, Claim(r, x)'
       PROVE  \/ x = now[r]
              \/ \E d \in D : at[d] = r /\ Claim(r, x)
              \/ r = s /\ x = h + n
  <2>1. filed'[r] = filed[r] /\ LiveSize'[r] + WaitSize'[r] = now[r]
    BY <1>3, SizeStays DEF Now
  <2>2. \/ x = LiveSize'[r] + WaitSize'[r]
        \/ /\ filed'[r].state = "none"
           /\ \E d \in Calls : /\ call'[d].pc = "accept" /\ call'[d].sub = r
                               /\ x = Space(call'[d])
        \/ /\ filed'[r].state = "live"
           /\ \E d \in Calls : /\ call'[d].pc \in Drawing /\ call'[d].sub = r
                               /\ x = filed'[r].data + call'[d].size
    BY <1>13 DEF Claim, Space, Drawing
  <2>3. ASSUME filed'[r].state = "none", NEW d \in Calls, call'[d].pc = "accept",
               call'[d].sub = r, x = Space(call'[d])
        PROVE  \E k \in D : at[k] = r /\ Claim(r, x)
    <3>1. d # c /\ call'[d] = call[d]
      BY <2>3, <1>5
    <3>2. Claim(r, x)
      BY <3>1, <2>1, <2>3 DEF Claim
    <3> QED
      BY <3>1, <3>2, <2>3, <1>6, <1>7
  <2>4. ASSUME filed'[r].state = "live", NEW d \in Calls, call'[d].pc \in Drawing,
               call'[d].sub = r, x = filed'[r].data + call'[d].size
        PROVE  \/ \E k \in D : at[k] = r /\ Claim(r, x)
               \/ r = s /\ x = h + n
    <3>1. CASE d = c
      BY <3>1, <2>1, <2>4, <1>5, <1>11, <1>12
    <3>2. CASE d # c
      <4>1. call'[d] = call[d]
        BY <3>2, <1>5
      <4>2. Claim(r, x)
        BY <4>1, <2>1, <2>4 DEF Claim
      <4> QED
        BY <3>2, <4>2, <2>4, <1>6, <1>7
    <3> QED
      BY <3>1, <3>2
  <2> QED
    BY <2>1, <2>2, <2>3, <2>4
<1>14. \A r \in Submissions : Claim(r, now[r])
  BY <1>3 DEF Now, Claim
<1>15. ASSUME NEW f \in Picks(m)'
       PROVE  Weight(f, Submissions) + Weight(u, Calls) <= Limit(m)
  <2>1. f \in [Submissions -> 0..(2 * m)] /\ \A r \in Submissions : Claim(r, f[r])'
    BY <1>15 DEF Picks
  <2>2. CASE Claim(s, f[s])
    <3>1. \A r \in Submissions : Claim(r, f[r])
      BY <2>1, <2>2, <1>13, <1>14
    <3>2. f \in Picks(m)
      BY <2>1, <3>1 DEF Picks
    <3> QED
      BY <3>2, <1>0, <1>2, <1>4 DEF QuotaInv
  <2>3. CASE ~Claim(s, f[s])
    <3>1. f[s] = h + n
      BY <2>1, <2>3, <1>13, <1>14
    <3>2. PICK k \in [Submissions -> 0..(2 * m)] : k = [f EXCEPT ![s] = now[s]]
      BY <2>1
    <3>3. k[s] = now[s] /\ \A r \in Submissions \ {s} : f[r] = k[r]
      BY <2>1, <3>2
    <3>4. \A r \in Submissions : k[r] > now[r] => \E d \in D : at[d] = r
      <4> SUFFICES ASSUME NEW r \in Submissions, k[r] > now[r] PROVE \E d \in D : at[d] = r
        OBVIOUS
      <4>1. r # s
        BY <3>3
      <4>2. k[r] = f[r] /\ k[r] # now[r]
        BY <4>1, <3>3
      <4>3. Claim(r, f[r])'
        BY <2>1
      <4> QED
        BY <4>1, <4>2, <4>3, <1>13
    <3>5. /\ Weight(k, Submissions) + Weight(u, Calls)
               <= Weight(now, Submissions) + u[c] + Carried(m)
          /\ Weight(now, Submissions) \in Nat
      BY <3>4, <1>10
    <3>6. /\ Weight(f, Submissions) + k[s] = Weight(k, Submissions) + f[s]
          /\ Weight(k, Submissions) \in Nat /\ Weight(f, Submissions) \in Nat
      <4>1. 2 * m \in Nat
        BY <1>0
      <4> QED
        BY <1>1, <2>1, <3>3, <4>1, WeightMoves
    <3>7. Weight(u, Calls) \in Nat
      BY <1>1, UnitsAreFinite
    <3>8. StorageUsed + n <= Quota + e
      BY <1>12
    <3> QED
      BY <1>1, <1>3, <1>4, <1>12, <1>9, <3>1, <3>3, <3>5, <3>6, <3>7, <3>8
  <2> QED
    BY <2>2, <2>3
<1> QED
  BY <1>0, <1>2, <1>15 DEF QuotaInv, Limit

LEMMA QuotaStep ==
    ASSUME InboxInv, InboxInv', OnceInv, PaceInv, QuotaInv, InboxNext
    PROVE  QuotaInv'
<1>types. /\ row \in [Submissions -> Row] /\ filed \in [Submissions -> Filed]
          /\ call \in [Calls -> CallType] /\ Idle.pc = "idle"
  BY DEF InboxInv, InboxTypeOK, Idle
<1>0. PICK m \in Nat \ {0} : m = Max(Sizes)
  BY SizeRange
<1>nat. \A c \in Calls : Taken[c] \in 0..m
  BY <1>0, SpaceRange DEF SizesTyped
<1>1. CASE CreateRequest \/ Close
  <2>1. row' = row /\ filed' = filed /\ call' = call
    BY <1>1 DEF CreateRequest, Close
  <2>2. ASSUME NEW s \in Submissions, NEW x, Claim(s, x)' PROVE Claim(s, x)
    BY <2>1, <2>2 DEF Claim, LiveSize, WaitSize, Live, Waiting, Space, Drawing
  <2>3. \A c \in Calls : Taken'[c] <= Taken[c]
    BY <2>1, <1>nat DEF Taken
  <2> QED
    BY <2>2, <2>3, QuotaStays
(* A call that brings nothing.                                             *)
<1>2. ASSUME NEW c \in Calls, NEW next, Goes(c, next), UNCHANGED <<row, filed>>,
             next.pc \notin Admitted \cup Drawing \cup {"accept"}
      PROVE  QuotaInv'
  BY <1>2, QuotaGoesOn
<1>3. ASSUME NEW c \in Calls, Ends(c), UNCHANGED <<row, filed>> PROVE QuotaInv'
  BY <1>3, <1>2, <1>types DEF Ends, Admitted, Drawing
<1>4. ASSUME NEW c \in Calls, StartBegin(c) \/ CountPending(c) \/ Abandon(c) PROVE QuotaInv'
  <2>1. [pc |-> "begin"].pc = "begin" /\ [pc |-> "counted"].pc = "counted"
    OBVIOUS
  <2> QED
    BY <1>4, <2>1, <1>2, <1>3 DEF StartBegin, CountPending, Abandon, Admitted, Drawing
<1>5. ASSUME NEW c \in Calls, NEW s \in Submissions, NEW kind \in Kinds, NEW size \in Sizes,
             \/ StartUpload(c, s, kind, size) \/ StartDiscard(c, s)
             \/ StartPreview(c, s, size)
      PROVE  QuotaInv'
  <2>1. CASE StartUpload(c, s, kind, size)
    BY <2>1, <1>2 DEF StartUpload, Admitted, Drawing
  <2>2. CASE StartDiscard(c, s)
    BY <2>2, <1>2 DEF StartDiscard, Admitted, Drawing
  <2>3. CASE StartPreview(c, s, size)
    BY <2>3, <1>2 DEF StartPreview, Admitted, Drawing
  <2> QED
    BY <1>5, <2>1, <2>2, <2>3
<1>6. ASSUME NEW c \in Calls, AdmitUpload(c) PROVE QuotaInv'
  <2> DEFINE next == [call[c] EXCEPT !.pc = "admitted"]
  <2>1. Uploading(c) /\ next.pc = "admitted" /\ next.size = call[c].size /\ call[c].size \in Sizes
    <3>1. Uploading(c)
      BY <1>6 DEF AdmitUpload, Uploading
    <3> QED
      BY <3>1, CallKeeps, CallHolds DEF Uploading
  <2>2. \/ Goes(c, next) /\ StorageUsed + call[c].size <= Quota
        \/ Ends(c)
    BY <1>6 DEF AdmitUpload
  <2>3. UNCHANGED <<row, filed>>
    BY <1>6 DEF AdmitUpload
  <2> HIDE DEF next
  <2> QED
    BY <2>1, <2>2, <2>3, <1>3, QuotaAdmits
<1>7. ASSUME NEW c \in Calls, PutSubmission(c) PROVE QuotaInv'
  <2> DEFINE next == [call[c] EXCEPT !.pc = "stored"]
  <2>1. call[c].pc = "admitted" /\ next.pc = "stored" /\ next.size = call[c].size
    <3>1. call[c].pc = "admitted" /\ Uploading(c)
      BY <1>7 DEF PutSubmission, Uploading
    <3> QED
      BY <3>1, CallKeeps
  <2>2. Goes(c, next) /\ UNCHANGED <<row, filed>>
    BY <1>7 DEF PutSubmission
  <2> HIDE DEF next
  <2> QED
    BY <2>1, <2>2, QuotaGoesOn DEF Admitted, Drawing
<1>8. ASSUME NEW c \in Calls, NEW s \in Submissions, StartAccept(c, s) PROVE QuotaInv'
  <2>1. PICK next : /\ next = [pc |-> "accept", sub |-> s, data |-> row[s].data,
                                thumb |-> row[s].thumb]
                    /\ Goes(c, next)
    BY <1>8 DEF StartAccept
  <2>2. next.pc = "accept" /\ next.sub = s /\ Space(next) = Space(row[s])
    BY <2>1 DEF Space
  <2>3. filed[s].state = "none" => Claim(s, Space(next))
    <3>1. WaitSize[s] = Space(row[s]) /\ WaitSize[s] \in Nat
      BY <1>8, <1>0, ClaimRange DEF StartAccept, Arrived, WaitSize, Waiting
    <3>2. filed[s].state = "none" => LiveSize[s] = 0
      BY DEF LiveSize, Live
    <3> QED
      BY <2>2, <3>1, <3>2 DEF Claim
  <2>4. UNCHANGED <<row, filed>>
    BY <1>8 DEF StartAccept
  <2> QED
    BY <2>1, <2>2, <2>3, <2>4, QuotaGoesOn DEF Admitted, Drawing
<1>9. ASSUME NEW c \in Calls, RemoveBlob(c) PROVE QuotaInv'
  <2>1. [call[c] EXCEPT !.pc = "removeThumb"].pc = "removeThumb"
    <3>1. call[c].pc \in {"discard", "removeData", "removeThumb"}
      BY <1>9 DEF RemoveBlob
    <3> QED
      BY <3>1, CallKeeps
  <2> QED
    BY <1>9, <2>1, <1>2, <1>3 DEF RemoveBlob, Admitted, Drawing
<1>10. ASSUME NEW c \in Calls, AdmitPreview(c) PROVE QuotaInv'
  <2> DEFINE next == [call[c] EXCEPT !.pc = "drawn"]
  <2>1. /\ call[c].pc = "preview" /\ next.pc = "drawn" /\ next.size = call[c].size
        /\ next.sub = call[c].sub
    <3>1. call[c].pc = "preview" /\ Previewing(c)
      BY <1>10 DEF AdmitPreview, Previewing
    <3> QED
      BY <3>1, CallKeeps
  <2>2. \/ Goes(c, next) /\ StorageUsed + call[c].size <= Quota + call[c].freed
        \/ Ends(c)
    BY <1>10 DEF AdmitPreview
  <2>3. UNCHANGED <<row, filed>>
    BY <1>10 DEF AdmitPreview
  <2> HIDE DEF next
  <2>4. CASE Ends(c)
    BY <2>3, <2>4, <1>3
  <2>5. CASE Goes(c, next) /\ filed[next.sub].state # "live"
    BY <2>1, <2>3, <2>5, QuotaGoesOn DEF Admitted
  <2>6. CASE /\ Goes(c, next) /\ StorageUsed + call[c].size <= Quota + call[c].freed
             /\ filed[next.sub].state = "live"
    BY <2>1, <2>3, <2>6, QuotaDraws
  <2> QED
    BY <2>2, <2>4, <2>5, <2>6
<1>11. ASSUME NEW c \in Calls, PutPreview(c) PROVE QuotaInv'
  <2> DEFINE next == [call[c] EXCEPT !.pc = "previewed"]
  <2>1. /\ call[c].pc = "drawn" /\ next.pc = "previewed" /\ next.size = call[c].size
        /\ next.sub = call[c].sub
    <3>1. call[c].pc = "drawn" /\ Previewing(c)
      BY <1>11 DEF PutPreview, Previewing
    <3> QED
      BY <3>1, CallKeeps
  <2>2. Goes(c, next) /\ UNCHANGED <<row, filed>>
    BY <1>11 DEF PutPreview
  <2> HIDE DEF next
  <2>3. filed[next.sub].state = "live" =>
          Claim(next.sub, filed[next.sub].data + next.size)
    BY <2>1 DEF Claim, Drawing
  <2> QED
    BY <2>1, <2>2, <2>3, QuotaGoesOn DEF Admitted
(* Steps that end a call and change one submission or file.                *)
<1>others. ASSUME NEW c \in Calls, NEW next, Goes(c, next),
                  next.pc \notin Admitted \cup Drawing \cup {"accept"}
           PROVE  /\ Taken'[c] = 0 /\ Taken[c] \in Nat
                  /\ \A d \in Calls \ {c} : Taken'[d] = Taken[d] /\ Taken[d] \in Nat
                  /\ \A d \in Calls : Taken'[d] <= Taken[d]
                  /\ \A s \in Submissions : row'[s] = row[s] /\ filed'[s] = filed[s] =>
                       \A x : Claim(s, x)' => Claim(s, x)
  <2>1. /\ Taken'[c] = 0 /\ Taken[c] \in Nat
        /\ \A d \in Calls \ {c} : Taken'[d] = Taken[d] /\ Taken[d] \in Nat
    BY <1>others, TakenNext
  <2>2. ASSUME NEW s \in Submissions, row'[s] = row[s], filed'[s] = filed[s],
               NEW x, Claim(s, x)'
        PROVE  Claim(s, x)
    <3>1. x = LiveSize'[s] + WaitSize'[s] \/ Claim(s, x)
      BY <1>others, <2>2, ClaimNext
    <3> QED
      BY <2>2, <3>1, SizeStays
  <2> QED
    BY <2>1, <2>2
<1>12. ASSUME NEW c \in Calls, InsertSubmission(c) PROVE QuotaInv'
  <2>1. PICK s \in Submissions : /\ row[s].state = "unused"
                                 /\ row' = [row EXCEPT ![s].state = "open"]
    BY <1>12 DEF InsertSubmission
  <2>2. filed' = filed /\ Goes(c, Idle)
    BY <1>12 DEF InsertSubmission, Ends
  <2>3. WaitSize'[s] = 0 /\ WaitSize[s] = 0 /\ LiveSize'[s] = LiveSize[s]
    <3>1. row[s].data = 0 /\ row[s].thumb = 0
      BY <2>1 DEF PaceInv, RowPace, None
    <3>2. row'[s] = [row[s] EXCEPT !.state = "open"] /\ row[s] \in Row
      BY <2>1, <1>types
    <3>3. row'[s].data = 0 /\ row'[s].thumb = 0
      BY <3>1, <3>2 DEF Row
    <3> QED
      BY <2>1, <2>2, <3>3 DEF WaitSize, Waiting, LiveSize, Live, Space
  <2>4. ASSUME NEW t \in Submissions, NEW x, Claim(t, x)' PROVE Claim(t, x)
    <3>1. CASE t = s
      <4>1. x = LiveSize'[t] + WaitSize'[t] \/ Claim(t, x)
        BY <2>2, <2>4, <1>types, ClaimNext DEF Drawing
      <4> QED
        BY <3>1, <4>1, <2>3 DEF Claim
    <3>2. CASE t # s
      <4>1. row'[t] = row[t]
        BY <2>1, <3>2, <1>types
      <4> QED
        BY <4>1, <2>2, <2>4, <1>others, <1>types DEF Admitted, Drawing
    <3> QED
      BY <3>1, <3>2
  <2>5. \A d \in Calls : Taken'[d] <= Taken[d]
    BY <2>2, <1>others, <1>types DEF Admitted, Drawing
  <2> QED
    BY <2>4, <2>5, QuotaStays
<1>13. ASSUME NEW c \in Calls, RecordSize(c) PROVE QuotaInv'
  <2>1. call[c].sub \in Submissions /\ call[c].size \in 0..m /\ Taken[c] = call[c].size
    BY <1>13, <1>0, CallHolds, SizeRange DEF RecordSize, Taken, Admitted
  <2>2. PICK s \in Submissions, n \in 0..m : s = call[c].sub /\ n = call[c].size
    BY <2>1
  <2>3. filed' = filed /\ Goes(c, Idle)
    BY <1>13 DEF RecordSize, Ends
  <2>4. /\ \A t \in Submissions \ {s} : row'[t] = row[t]
        /\ WaitSize'[s] <= WaitSize[s] + n /\ LiveSize'[s] = LiveSize[s]
    <3>1. \/ row' = row
          \/ row' = [row EXCEPT ![s] = [row[s] EXCEPT !.data = n, !.uploaded = TRUE]]
          \/ row' = [row EXCEPT ![s] = [row[s] EXCEPT !.thumb = n]]
      BY <1>13, <2>2 DEF RecordSize
    <3>2. row[s] \in Row
      BY <1>types
    <3>3. \/ row'[s] = row[s]
          \/ row'[s] = [row[s] EXCEPT !.data = n, !.uploaded = TRUE]
          \/ row'[s] = [row[s] EXCEPT !.thumb = n]
      BY <3>1, <1>types
    <3>4. row'[s].state = row[s].state /\ row'[s].consumed = row[s].consumed
      BY <3>2, <3>3 DEF Row
    <3>5. /\ row[s].data \in 0..m /\ row[s].thumb \in 0..m
      BY <3>2, <1>0, SizeRange DEF Row
    <3>6. Space(row'[s]) <= Space(row[s]) + n
      <4>1. CASE row'[s] = row[s]
        BY <4>1, <3>5 DEF Space
      <4>2. CASE row'[s] = [row[s] EXCEPT !.data = n, !.uploaded = TRUE]
        <5>1. row'[s].data = n /\ row'[s].thumb = row[s].thumb
          BY <4>2, <3>2 DEF Row
        <5> QED
          BY <5>1, <3>5 DEF Space
      <4>3. CASE row'[s] = [row[s] EXCEPT !.thumb = n]
        <5>1. row'[s].data = row[s].data /\ row'[s].thumb = n
          BY <4>3, <3>2 DEF Row
        <5> QED
          BY <5>1, <3>5 DEF Space
      <4> QED
        BY <3>3, <4>1, <4>2, <4>3
    <3>7. s \in Waiting' <=> s \in Waiting
      BY <3>4 DEF Waiting
    <3>8. WaitSize'[s] = (IF s \in Waiting THEN Space(row'[s]) ELSE 0)
          /\ WaitSize[s] = (IF s \in Waiting THEN Space(row[s]) ELSE 0)
      BY <3>7 DEF WaitSize, Space
    <3>9. LiveSize'[s] = LiveSize[s]
      BY <2>3 DEF LiveSize, Live, Space
    <3>10. \A t \in Submissions \ {s} : row'[t] = row[t]
      BY <3>1, <1>types
    <3> QED
      BY <3>6, <3>8, <3>9, <3>10
  <2>5. ASSUME NEW x \in Nat, Claim(s, x)'
        PROVE  \E y \in Nat : Claim(s, y) /\ x + Taken'[c] <= y + Taken[c]
    <3>1. x = LiveSize'[s] + WaitSize'[s] \/ Claim(s, x)
      BY <2>3, <2>5, <1>types, ClaimNext DEF Drawing
    <3>2. Taken'[c] = 0 /\ Taken[c] = n
      BY <2>1, <2>2, <2>3, <1>others, <1>types DEF Admitted, Drawing
    <3>3. CASE Claim(s, x)
      BY <3>2, <3>3
    <3>4. CASE x = LiveSize'[s] + WaitSize'[s]
      <4>1. LiveSize[s] \in Nat /\ WaitSize[s] \in Nat /\ WaitSize'[s] \in Nat
        BY <1>0, ClaimRange, SpaceRangeNext DEF SizesTyped
      <4>2. Claim(s, LiveSize[s] + WaitSize[s])
        BY DEF Claim
      <4>3. LiveSize[s] + WaitSize[s] \in Nat /\ x + 0 <= LiveSize[s] + WaitSize[s] + n
        BY <2>4, <3>4, <4>1
      <4> QED
        BY <3>2, <4>2, <4>3
    <3> QED
      BY <3>1, <3>3, <3>4
  <2>6. \A t \in Submissions \ {s} : \A x : Claim(t, x)' => Claim(t, x)
    BY <2>3, <2>4, <1>others, <1>types DEF Admitted, Drawing
  <2>7. \A d \in Calls \ {c} : Taken'[d] = Taken[d]
    BY <2>3, <1>others, <1>types DEF Admitted, Drawing
  <2> QED
    BY <2>5, <2>6, <2>7, QuotaMoves
<1>14. ASSUME NEW c \in Calls, CommitAccept(c) PROVE QuotaInv'
  <2>1. call[c].sub \in Submissions /\ call[c].pc = "accept" /\ Goes(c, Idle)
    BY <1>14, CallHolds DEF CommitAccept, Ends
  <2>2. PICK s \in Submissions : s = call[c].sub
    BY <2>1
  <2>3. CASE filed[s].state # "none"
    BY <1>14, <2>1, <2>2, <2>3, <1>3 DEF CommitAccept
  <2>4. CASE filed[s].state = "none"
    <3>1. PICK f : /\ f = [state |-> "live", data |-> call[c].data, thumb |-> call[c].thumb]
                   /\ filed' = [filed EXCEPT ![s] = f]
      BY <1>14, <2>2, <2>4 DEF CommitAccept
    <3>2. row' = (IF row[s].state = "open" THEN [row EXCEPT ![s].consumed = TRUE] ELSE row)
      BY <1>14, <2>2, <2>4 DEF CommitAccept
    <3>3. f.state = "live" /\ Space(f) = Space(call[c]) /\ filed'[s] = f
      BY <3>1, <1>types DEF Space
    <3>4. WaitSize'[s] = 0 /\ LiveSize'[s] = Space(call[c])
      <4>1. row'[s].state = "open" => row'[s].consumed
        BY <3>2, <1>types DEF Row
      <4> QED
        BY <3>3, <4>1 DEF WaitSize, Waiting, LiveSize, Live, Space
    <3>5. Claim(s, Space(call[c])) /\ Space(call[c]) \in Nat
      <4>1. Claim(s, Space(call[c]))
        BY <2>1, <2>2, <2>4 DEF Claim
      <4> QED
        BY <4>1, <1>0, ClaimRange
    <3>6. ASSUME NEW x, Claim(s, x)' PROVE Claim(s, x)
      <4>1. \A d \in Calls : call'[d].pc \in Drawing => call'[d].sub # s
        <5> SUFFICES ASSUME NEW d \in Calls, call'[d].pc \in Drawing, call'[d].sub = s PROVE FALSE
          OBVIOUS
        <5>1. call'[d] = call[d]
          BY <2>1, <1>types DEF Goes, Drawing
        <5> QED
          BY <5>1, <2>4 DEF PaceInv, PreviewPace, Previewing, Drawing
      <4>2. x = LiveSize'[s] + WaitSize'[s]
        BY <3>3, <3>6, <4>1 DEF Claim, Drawing
      <4> QED
        BY <3>4, <3>5, <4>2
    <3>7. ASSUME NEW t \in Submissions \ {s}, NEW x, Claim(t, x)' PROVE Claim(t, x)
      <4>1. row'[t] = row[t] /\ filed'[t] = filed[t]
        BY <3>1, <3>2, <1>types
      <4> QED
        BY <4>1, <2>1, <3>7, <1>others, <1>types DEF Admitted, Drawing
    <3>8. \A d \in Calls : Taken'[d] <= Taken[d]
      BY <2>1, <1>others, <1>types DEF Admitted, Drawing
    <3> QED
      BY <3>6, <3>7, <3>8, QuotaStays
  <2> QED
    BY <2>3, <2>4
(* A submission is discarded, or a file deleted: one claim is less.        *)
<1>less. ASSUME NEW c \in Calls, NEW next, Goes(c, next),
                next.pc \notin Admitted \cup Drawing \cup {"accept"}, NEW s \in Submissions,
                \A t \in Submissions \ {s} : row'[t] = row[t] /\ filed'[t] = filed[t],
                filed'[s] = filed[s] \/ filed'[s].state = "deleted",
                LiveSize'[s] + WaitSize'[s] <= LiveSize[s] + WaitSize[s]
         PROVE  QuotaInv'
  <2>1. ASSUME NEW x \in Nat, Claim(s, x)'
        PROVE  \E y \in Nat : Claim(s, y) /\ x + Taken'[c] <= y + Taken[c]
    <3>1. x = LiveSize'[s] + WaitSize'[s] \/ Claim(s, x)
      BY <1>less, <2>1, ClaimNext
    <3>2. Taken'[c] = 0 /\ Taken[c] \in Nat
      BY <1>less, <1>others
    <3>3. CASE Claim(s, x)
      BY <3>2, <3>3
    <3>4. CASE x = LiveSize'[s] + WaitSize'[s]
      <4>1. LiveSize[s] \in Nat /\ WaitSize[s] \in Nat
        BY <1>0, ClaimRange
      <4>2. Claim(s, LiveSize[s] + WaitSize[s]) /\ LiveSize[s] + WaitSize[s] \in Nat
        BY <4>1 DEF Claim
      <4>3. x + 0 <= LiveSize[s] + WaitSize[s] + Taken[c]
        BY <1>less, <3>2, <3>4, <4>2
      <4> QED
        BY <3>2, <4>2, <4>3
    <3> QED
      BY <3>1, <3>3, <3>4
  <2>2. \A t \in Submissions \ {s} : \A x : Claim(t, x)' => Claim(t, x)
    BY <1>less, <1>others
  <2>3. \A d \in Calls \ {c} : Taken'[d] = Taken[d]
    BY <1>less, <1>others
  <2> QED
    BY <2>1, <2>2, <2>3, QuotaMoves
<1>15. ASSUME NEW c \in Calls, DiscardRow(c) PROVE QuotaInv'
  <2>1. call[c].sub \in Submissions /\ call[c].pc = "discard"
    BY <1>15, CallHolds DEF DiscardRow
  <2> DEFINE next == [call[c] EXCEPT !.pc = "removeData"]
             s == call[c].sub
             r == [row[s] EXCEPT !.state = "gone", !.uploaded = FALSE, !.consumed = FALSE,
                                 !.data = None, !.thumb = None]
  <2>2. r.state = "gone"
    <3>1. row[s] \in Row
      BY <2>1, <1>types
    <3> QED
      BY <3>1 DEF Row
  <2>3. row' = [row EXCEPT ![s] = r] /\ filed' = filed /\ Goes(c, next)
    BY <1>15 DEF DiscardRow
  <2>4. next.pc = "removeData"
    BY <2>1, CallKeeps
  <2> HIDE DEF r, next
  <2>5. WaitSize'[s] = 0 /\ LiveSize'[s] = LiveSize[s]
    BY <2>1, <2>2, <2>3, <1>types DEF WaitSize, Waiting, LiveSize, Live, Space
  <2>6. LiveSize[s] \in Nat /\ WaitSize[s] \in Nat
    BY <1>0, <2>1, ClaimRange
  <2>7. LiveSize'[s] + WaitSize'[s] <= LiveSize[s] + WaitSize[s]
    BY <2>5, <2>6
  <2>8. \A t \in Submissions \ {s} : row'[t] = row[t] /\ filed'[t] = filed[t]
    BY <2>3, <1>types
  <2> QED
    BY <2>1, <2>3, <2>4, <2>7, <2>8, <1>less DEF Admitted, Drawing
<1>16. ASSUME NEW c \in Calls, NEW s \in Submissions, DeleteFiled(c, s) PROVE QuotaInv'
  <2>1. PICK f : f = [state |-> "deleted", data |-> None, thumb |-> None]
                 /\ filed' = [filed EXCEPT ![s] = f] /\ row' = row
    BY <1>16 DEF DeleteFiled
  <2>2. f.state = "deleted" /\ filed'[s] = f
    BY <2>1, <1>types
  <2>3. PICK next : next = [pc |-> "removeData", sub |-> s] /\ Goes(c, next)
    BY <1>16 DEF DeleteFiled
  <2>4. next.pc = "removeData"
    BY <2>3
  <2>5. LiveSize'[s] = 0 /\ WaitSize'[s] = WaitSize[s]
    BY <2>1, <2>2 DEF LiveSize, Live, WaitSize, Waiting, Space
  <2>6. LiveSize[s] \in Nat /\ WaitSize[s] \in Nat
    BY <1>0, ClaimRange
  <2>7. LiveSize'[s] + WaitSize'[s] <= LiveSize[s] + WaitSize[s]
    BY <2>5, <2>6
  <2>8. \A t \in Submissions \ {s} : row'[t] = row[t] /\ filed'[t] = filed[t]
    BY <2>1, <1>types
  <2> QED
    BY <2>2, <2>3, <2>4, <2>7, <2>8, <1>less DEF Admitted, Drawing
<1>17. ASSUME NEW c \in Calls, RecordPreview(c) PROVE QuotaInv'
  <2>1. call[c].sub \in Submissions /\ call[c].pc = "previewed" /\ Goes(c, Idle) /\ row' = row
    BY <1>17, CallHolds DEF RecordPreview, Ends
  <2>2. PICK s \in Submissions : s = call[c].sub
    BY <2>1
  <2>3. CASE filed[s].state # "live"
    BY <1>17, <2>1, <2>2, <2>3, <1>3 DEF RecordPreview, Ends
  <2>4. CASE filed[s].state = "live"
    <3>1. filed' = [filed EXCEPT ![s].thumb = call[c].size]
      BY <1>17, <2>2, <2>4 DEF RecordPreview
    <3>2. filed[s] \in Filed /\ filed'[s] = [filed[s] EXCEPT !.thumb = call[c].size]
      BY <3>1, <1>types
    <3>3. /\ filed'[s].state = filed[s].state /\ filed'[s].data = filed[s].data
          /\ filed'[s].thumb = call[c].size
      BY <3>2 DEF Filed
    <3>4. LiveSize'[s] = filed[s].data + call[c].size /\ WaitSize'[s] = WaitSize[s]
          /\ WaitSize[s] = 0
      <4>1. WaitSize[s] = 0
        BY <1>0, <2>4, ClaimRange
      <4> QED
        BY <4>1, <2>1, <2>4, <3>3 DEF LiveSize, Live, WaitSize, Waiting, Space
    <3>5. Claim(s, filed[s].data + call[c].size)
      BY <2>1, <2>2, <2>4 DEF Claim, Drawing
    <3>6. filed[s].data + call[c].size \in Nat
      BY <3>5, <1>0, ClaimRange
    <3>7. ASSUME NEW x, Claim(s, x)' PROVE Claim(s, x)
      <4>1. x = LiveSize'[s] + WaitSize'[s] \/ Claim(s, x)
        BY <2>1, <3>3, <3>7, <1>types, ClaimNext DEF Drawing
      <4> QED
        BY <4>1, <3>4, <3>5, <3>6
    <3>8. ASSUME NEW t \in Submissions \ {s}, NEW x, Claim(t, x)' PROVE Claim(t, x)
      <4>1. row'[t] = row[t] /\ filed'[t] = filed[t]
        BY <2>1, <3>1, <1>types
      <4> QED
        BY <4>1, <2>1, <3>8, <1>others, <1>types DEF Admitted, Drawing
    <3>9. \A d \in Calls : Taken'[d] <= Taken[d]
      BY <2>1, <1>others, <1>types DEF Admitted, Drawing
    <3> QED
      BY <3>7, <3>8, <3>9, QuotaStays
  <2> QED
    BY <2>3, <2>4
<1> QED
  BY <1>1, <1>4, <1>5, <1>6, <1>7, <1>8, <1>9, <1>10, <1>11, <1>12, <1>13, <1>14, <1>15,
     <1>16, <1>17, InboxAssumption DEF InboxNext, CallNext, Kinds

LEMMA QuotaInit == ASSUME Init, Calls # {} PROVE QuotaInv
<1>0. PICK m \in Nat \ {0} : m = Max(Sizes)
  BY SizeRange
<1>1. /\ IsFiniteSet(Calls) /\ IsFiniteSet(Submissions) /\ Quota \in Nat
      /\ Cardinality(Calls) \in Nat \ {0}
  BY SizeRange, FS_EmptySet
<1>2. /\ \A c \in Calls : call[c].pc = "idle"
      /\ \A s \in Submissions : LiveSize[s] = 0 /\ WaitSize[s] = 0
  BY DEF Init, InboxInit, LiveSize, WaitSize, Live, Waiting, Idle
<1>3. Weight(Taken, Calls) = 0
  <2>1. \A c \in Calls : Taken[c] = 0
    BY <1>2 DEF Taken, Admitted
  <2>2. Units(Taken, Calls) = {}
    BY <2>1 DEF Units
  <2> QED
    BY <2>2, FS_EmptySet DEF Weight
<1>4. ASSUME NEW f \in Picks(m) PROVE Weight(f, Submissions) = 0
  <2>1. \A s \in Submissions : f[s] = 0
    BY <1>2 DEF Picks, Claim, Drawing
  <2>2. Units(f, Submissions) = {}
    BY <2>1 DEF Units
  <2> QED
    BY <2>2, FS_EmptySet DEF Weight
<1>5. Limit(m) >= 0
  <2>1. PICK n \in Nat \ {0} : n = Cardinality(Calls)
    BY <1>1
  <2>2. PICK k \in Nat : n = k + 1
    <3>1. n - 1 \in Nat /\ n = (n - 1) + 1
      OBVIOUS
    <3> QED
      BY <3>1
  <2>3. (2 * n - 1) * m = 2 * (k * m) + m /\ k * m \in Nat
    BY <2>2
  <2> QED
    BY <1>1, <2>1, <2>3 DEF Limit
<1> QED
  BY <1>0, <1>3, <1>4, <1>5 DEF QuotaInv

(* Calls that overlap pass the quota together by less than what they all   *)
(* carry: whatever uploads, accepts, discards, deletions and thumbnails    *)
(* are in flight, crosswise and given up.                                  *)
THEOREM QuotaHolds == ASSUME Calls # {} PROVE Spec => []QuotaKept
<1> DEFINE I == OnceInv /\ PaceInv /\ QuotaInv
<1>1. Init => I
  <2>1. Init => OnceInv
    BY DEF Init, InboxInit, OnceInv, Idle
  <2>2. Init => PaceInv
    BY DEF Init, InboxInit, PaceInv, RowPace, PreviewPace, Previewing, Idle
  <2> QED
    BY <2>1, <2>2, QuotaInit
<1>2. TypeInv /\ TypeInv' /\ I /\ [Next]_vars => I'
  <2> SUFFICES ASSUME TypeInv, TypeInv', I, [InboxNext]_inboxVars PROVE I'
    BY InboxGoesOn
  <2>1. InboxInv /\ InboxInv'
    BY DEF TypeInv
  <2>2. OnceInv' /\ PaceInv'
    BY <2>1, OnceStep, PaceStep
  <2>3. CASE InboxNext
    BY <2>1, <2>2, <2>3, QuotaStep
  <2>4. CASE UNCHANGED inboxVars
    BY <2>2, <2>4 DEF inboxVars, QuotaInv, Picks, Claim, LiveSize, WaitSize, Live, Waiting,
                      Space, Taken, Drawing, Limit
  <2> QED
    BY <2>2, <2>3, <2>4
<1>3. TypeInv /\ I => QuotaKept
  <2> SUFFICES ASSUME InboxInv, I PROVE QuotaKept
    BY DEF TypeInv
  <2>0. PICK m \in Nat \ {0} : m = Max(Sizes)
    BY SizeRange
  <2>1. /\ Now \in [Submissions -> 0..(2 * m)] /\ Weight(Now, Submissions) = StorageUsed
        /\ StorageUsed \in Nat
    BY <2>0, NowIsUsed
  <2>2. Now \in Picks(m)
    BY <2>1 DEF Picks, Claim, Now
  <2>3. StorageUsed + Weight(Taken, Calls) <= Limit(m)
    BY <2>0, <2>1, <2>2 DEF QuotaInv
  <2>4. Weight(Taken, Calls) \in Nat
    BY UsedIsWeight
  <2>5. PICK e \in Int : e = (2 * Cardinality(Calls) - 1) * m
    BY SizeRange
  <2>6. StorageUsed < Quota + e
    BY <2>1, <2>3, <2>4, <2>5, SizeRange DEF Limit
  <2> QED
    BY <2>0, <2>5, <2>6 DEF QuotaKept
<1> QED
  BY <1>1, <1>2, <1>3, AlwaysTyped, PTL DEF Spec
=============================================================================
