----------------------------- MODULE PublicLinks -----------------------------
(***************************************************************************)
(* The two links an account hands out, over the same files: submissions    *)
(* come in at one (RequestInbox), and a filed one goes out at the other, a *)
(* public share with a limit on downloads (routes/shares.ts).  A visit is  *)
(* one more call in flight among the inbox's.                              *)
(***************************************************************************)
EXTENDS RequestInbox

CONSTANT MaxDownloads

ASSUME LinksAssumption == MaxDownloads \in Nat \ {0}

VARIABLES
    share,   \* the shares row: which file, and how often it was claimed
    visit,   \* what a visitor's call holds
    served   \* history: downloads that were sent

linkVars == <<share, visit, served>>
vars == <<inboxVars, linkVars>>

NoVisit == [pc |-> "none"]
Visit == {NoVisit} \cup [pc : {"loaded", "claimed"}, sub : Submissions, size : Sizes,
                         count : 0..MaxDownloads]

LinksTypeOK ==
    /\ InboxTypeOK
    /\ share \in {NoVisit} \cup [pc : {"open", "gone"}, sub : Submissions,
                                 count : 0..MaxDownloads]
    /\ visit \in [Calls -> Visit]
    /\ served \in Nat

Init ==
    /\ InboxInit
    /\ share = NoVisit
    /\ visit = [c \in Calls |-> NoVisit]
    /\ served = 0

Free(c) == call[c] = Idle /\ visit[c] = NoVisit

-----------------------------------------------------------------------------
(* POST /api/shares, of a file that is live.                               *)
CreateShare(s) ==
    /\ share = NoVisit /\ s \in Live
    /\ share' = [pc |-> "open", sub |-> s, count |-> 0]
    /\ UNCHANGED <<inboxVars, visit, served>>

(* DELETE /api/shares/:token                                               *)
RevokeShare ==
    /\ share.pc = "open"
    /\ share' = [share EXCEPT !.pc = "gone"]
    /\ UNCHANGED <<inboxVars, visit, served>>

(* loadShare: the link, its file and its limit; expiry and a disabled      *)
(* owner turn a visitor away here, as does the password gate after it.     *)
LoadShare(c) ==
    /\ Free(c)
    /\ share.pc = "open" /\ share.sub \in Live /\ share.count < MaxDownloads
    /\ visit' = [visit EXCEPT ![c] = [pc |-> "loaded", sub |-> share.sub,
                     size |-> filed[share.sub].data, count |-> share.count]]
    /\ UNCHANGED <<inboxVars, share, served>>

(* Mutant for DownloadsWithinLimit: the count that was loaded is judged    *)
(* and written.                                                            *)
ClaimByRead(c) ==
    /\ visit[c].pc = "loaded"
    /\ IF share.pc = "open" /\ visit[c].count < MaxDownloads
       THEN /\ share' = [share EXCEPT !.count = visit[c].count + 1]
            /\ visit' = [visit EXCEPT ![c].pc = "claimed"]
       ELSE /\ visit' = [visit EXCEPT ![c] = NoVisit]
            /\ UNCHANGED share
    /\ UNCHANGED <<inboxVars, served>>

(* The claim: one statement that counts only below the limit.              *)
ClaimDownload(c) ==
    /\ visit[c].pc = "loaded"
    /\ IF share.pc = "open" /\ share.count < MaxDownloads
       THEN /\ share' = [share EXCEPT !.count = @ + 1]
            /\ visit' = [visit EXCEPT ![c].pc = "claimed"]
       ELSE /\ visit' = [visit EXCEPT ![c] = NoVisit]
            /\ UNCHANGED share
    /\ UNCHANGED <<inboxVars, served>>

(* The blob of the row that was loaded, if it is still there; a download   *)
(* that fails here, or whose visitor hangs up, stays counted.              *)
Serve(c) ==
    /\ visit[c].pc = "claimed"
    /\ \/ /\ blob[visit[c].sub]["data"] # None
          /\ served' = served + 1
       \/ UNCHANGED served
    /\ visit' = [visit EXCEPT ![c] = NoVisit]
    /\ UNCHANGED <<inboxVars, share>>

(* The inbox goes on; deleting a file deletes its links with it.           *)
InboxStep ==
    /\ CreateRequest \/ Close \/ \E c \in Calls : visit[c] = NoVisit /\ CallNext(c)
    /\ share' = IF share.pc = "open" /\ filed'[share.sub].state # "live"
                THEN [share EXCEPT !.pc = "gone"] ELSE share
    /\ UNCHANGED <<visit, served>>

Next ==
    \/ InboxStep
    \/ RevokeShare \/ \E s \in Submissions : CreateShare(s)
    \/ \E c \in Calls : LoadShare(c) \/ ClaimDownload(c) \/ Serve(c)

Spec == Init /\ [][Next]_vars

-----------------------------------------------------------------------------
(* However many visitors load a link before its limit is reached, no more  *)
(* downloads are sent than it allows (the atomic claim of shares.ts).      *)
DownloadsWithinLimit == served <= MaxDownloads
=============================================================================
