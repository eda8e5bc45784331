------------------------------- MODULE DeltaSync -------------------------------
(***************************************************************************)
(* The change feed of one account (GET /api/sync) and the clients that     *)
(* follow it.  Every row the account can see carries a number drawn from   *)
(* the account's own counter: its folders and files carry theirs, a file   *)
(* shared into it carries the number of the membership row.  A client      *)
(* keeps a cursor, asks for what lies past it, folds the answer into its   *)
(* library and, some time later, into the cache the browser keeps.  Its    *)
(* heartbeat runs one pull at a time, but a gesture, a retry, an editor or *)
(* a deletion pulls whenever it likes: a tab's pulls may overlap.          *)
(*                                                                         *)
(* The database is the stronger interleaving of the two the server knows,  *)
(* PostgreSQL: a request's statements each see what is committed by then.  *)
(* A transaction that draws a number holds the counter's row until it      *)
(* commits, so drawing it and committing are one step.                     *)
(***************************************************************************)
EXTENDS Naturals, FiniteSets

CONSTANTS
    Own,      \* the account's folders and files
    Shared,   \* files of other accounts that may be shared into it
    Tabs,     \* clients with a library in memory over one browser's cache
    Lanes,    \* bound: as many pulls of one tab may be under way at a time
    Limits,   \* page sizes clients ask for; 0 asks for everything
    Offered,  \* which ways a sharer may end a share: by trashing the folder
              \* the file is in, by deleting the whole account
    MaxSeq    \* bound: the counter goes no further

ASSUME FeedAssumption ==
    /\ IsFiniteSet(Own) /\ IsFiniteSet(Shared) /\ Own \cap Shared = {}
    /\ Limits \subseteq Nat /\ 0 \in Limits
    /\ Offered \subseteq {"folder", "account"}
    /\ MaxSeq \in Nat

VARIABLES
    last,      \* users.last_seq
    row,       \* the account's rows, a shared file joined with its membership
    sharer,    \* what the transaction changing a shared file read of members
    touching,  \* memberships changed, whose number is not drawn yet
    missed,    \* auxiliary: shares changed with no number drawn for it, ever
    open,      \* tabs that are open
    lib,       \* the library each tab shows
    cursor,    \* the last sequence each tab applied
    req,       \* each pull's request, as far as the server has answered it
    pend,      \* an answer of a pull yet to be written into the cache, or {}
    cache      \* the rows and the cursor the browser keeps

serverVars == <<last, row, sharer, touching, missed>>
clientVars == <<open, lib, cursor, req, pend, cache>>
vars == <<serverVars, clientVars>>

-----------------------------------------------------------------------------

(* What else a row holds (names, keys, roles) changes under a new number,   *)
(* which stands for it, or is missed or being touched.                     *)
Rows == Own \cup Shared
Pulls == Tabs \X Lanes
TabOf(p) == p[1]
Row == [seq : Nat, state : {"none", "live", "gone"}, revoked : BOOLEAN]
Copy == [seq : Nat, gone : BOOLEAN]
Nothing == [seq |-> 0, gone |-> TRUE]
Library == [Rows -> Copy]
Empty == [x \in Rows |-> Nothing]
Reply == [sent : SUBSET Rows, got : Library, seq : Nat, rebuild : BOOLEAN]
Request == [pc : {"idle", "own", "shared", "reply"}, since : Nat, upTo : Nat,
            limit : Limits, rebuild : BOOLEAN, sent : SUBSET Rows,
            got : Library]
Idle == [pc |-> "idle", since |-> 0, upTo |-> 0, limit |-> 0,
         rebuild |-> FALSE, sent |-> {}, got |-> Empty]

(* The type invariant; no client is ahead of the account's counter.        *)
SyncTypeOK ==
    /\ last \in Nat
    /\ row \in [Rows -> Row]
    /\ sharer \in [Shared -> {"idle", "told", "blind"}]
    /\ touching \subseteq Shared /\ missed \subseteq Shared
    /\ open \subseteq Tabs
    /\ lib \in [Tabs -> Library]
    /\ cursor \in [Tabs -> 0..last]
    /\ req \in [Pulls -> Request]
    /\ pend \in [Pulls -> SUBSET Reply]
    /\ cache \in [seq : 0..last, rows : Library]

Init ==
    /\ last = 0
    /\ row = [x \in Rows |->
                 [seq |-> 0, revoked |-> FALSE,
                  state |-> IF x \in Own THEN "none" ELSE "live"]]
    /\ sharer = [x \in Shared |-> "idle"]
    /\ touching = {} /\ missed = {}
    /\ open = {}
    /\ lib = [t \in Tabs |-> Empty]
    /\ cursor = [t \in Tabs |-> 0]
    /\ req = [p \in Pulls |-> Idle]
    /\ pend = [p \in Pulls |-> {}]
    /\ cache = [seq |-> 0, rows |-> Empty]

-----------------------------------------------------------------------------
(* The account's own rows.  One transaction creates, changes or deletes a   *)
(* number of them (a subtree, a batch), each under a number of its own.    *)

ChangeOwn(S) ==
    /\ S # {} /\ \A x \in S : row[x].state # "gone"
    /\ last + Cardinality(S) <= MaxSeq
    /\ \E number \in [S -> (last + 1)..(last + Cardinality(S))], dead \in SUBSET S :
        /\ \A x, y \in S : number[x] = number[y] => x = y
        /\ \A x \in dead : row[x].seq > 0
        /\ row' = [x \in Rows |->
              IF x \in S
              THEN [row[x] EXCEPT !.seq = number[x],
                                  !.state = IF x \in dead THEN "gone" ELSE "live"]
              ELSE row[x]]
    /\ last' = last + Cardinality(S)
    /\ UNCHANGED <<sharer, touching, missed, clientVars>>

-----------------------------------------------------------------------------
(* Shared files.  Member(x): a membership that is not revoked.             *)

Member(x) == row[x].seq > 0 /\ ~row[x].revoked

(* nextSeq for this account, and the membership row under that number.     *)
Draw(x, changed) ==
    /\ last < MaxSeq
    /\ last' = last + 1
    /\ row' = [row EXCEPT ![x] = [changed EXCEPT !.seq = last + 1]]
    /\ missed' = missed \ {x}

(* The change reaches the row and no number goes with it.                  *)
Slip(x, changed) ==
    /\ row' = [row EXCEPT ![x] = changed]
    /\ missed' = IF Member(x) THEN missed \cup {x} ELSE missed
    /\ UNCHANGED last

(* A sharer's transaction changes the file (its content, its name, into the *)
(* trash or out of it); touchCollaborators reads the memberships first.    *)
ReadMembers(x) ==
    /\ sharer[x] = "idle" /\ row[x].state # "none"
    /\ sharer' = [sharer EXCEPT ![x] = IF Member(x) THEN "told" ELSE "blind"]
    /\ UNCHANGED <<last, row, touching, missed, clientVars>>

CommitChange(x) ==
    /\ sharer[x] # "idle"
    /\ \E state \in {"live", "gone"} :
        LET changed == [row[x] EXCEPT !.state = state]
        IN  IF sharer[x] = "told" THEN Draw(x, changed) ELSE Slip(x, changed)
    /\ sharer' = [sharer EXCEPT ![x] = "idle"]
    /\ UNCHANGED <<touching, clientVars>>

(* The owner releases the key.  That the file is live was read earlier.    *)
Grant(x) ==
    /\ row[x].state # "none"
    /\ Draw(x, [row[x] EXCEPT !.revoked = FALSE])
    /\ UNCHANGED <<sharer, touching, clientVars>>

(* A role is changed, or a membership revoked or left, by one statement;    *)
(* touchMember draws the number in a transaction of its own.  Bound: one    *)
(* such pair at a time for each file.                                      *)
ChangeMember(x) ==
    /\ Member(x) /\ x \notin touching
    /\ row' \in {row, [row EXCEPT ![x].revoked = TRUE]}
    /\ touching' = touching \cup {x}
    /\ UNCHANGED <<last, sharer, missed, clientVars>>

TouchMember(x) ==
    /\ x \in touching
    /\ Draw(x, row[x])
    /\ touching' = touching \ {x}
    /\ UNCHANGED <<sharer, clientVars>>

(* The process dies between the two.                                       *)
LoseTouch(x) ==
    /\ x \in touching
    /\ touching' = touching \ {x}
    /\ missed' = missed \cup {x}
    /\ UNCHANGED <<last, row, sharer, clientVars>>

(* DELETE /api/folders/:id by the sharer trashes the files in it.          *)
TrashFolder(x) ==
    /\ "folder" \in Offered
    /\ row[x].state = "live"
    /\ Slip(x, [row[x] EXCEPT !.state = "gone"])
    /\ UNCHANGED <<sharer, touching, clientVars>>

(* deleteUserCascade: the membership row goes, and the member's counter     *)
(* moves with no row to show for it.                                       *)
DeleteSharer(x) ==
    /\ "account" \in Offered
    /\ row[x].state # "none"
    /\ row[x].seq > 0 => last < MaxSeq
    /\ last' = IF row[x].seq > 0 THEN last + 1 ELSE last
    /\ row' = [row EXCEPT ![x] = [seq |-> 0, state |-> "none", revoked |-> FALSE]]
    /\ missed' = IF row[x].seq > 0 THEN missed \cup {x} ELSE missed
    /\ sharer' = [sharer EXCEPT ![x] = "idle"]
    /\ touching' = touching \ {x}
    /\ UNCHANGED clientVars

-----------------------------------------------------------------------------
(* GET /api/sync: the cursor is read first, then one query after another.  *)

AsSent(x) == [seq |-> row[x].seq,
              gone |-> row[x].state # "live" \/ row[x].revoked]

(* Nothing holds a pull back, nor does it wait for what an earlier one has  *)
(* yet to write; a lane is taken until its answer is in the cache.         *)
StartSync(p, limit, rebuild) ==
    /\ TabOf(p) \in open /\ req[p].pc = "idle" /\ pend[p] = {}
    /\ rebuild => limit = 0
    /\ req' = [req EXCEPT ![p] =
          [Idle EXCEPT !.pc = "own", !.limit = limit, !.rebuild = rebuild,
                       !.since = IF rebuild THEN 0 ELSE cursor[TabOf(p)],
                       !.upTo = last]]
    /\ UNCHANGED <<serverVars, open, lib, cursor, pend, cache>>

(* ORDER BY update_seq LIMIT limit + 1, of what the window holds.          *)
Queried(S, q) ==
    LET window == {x \in S : q.since < row[x].seq /\ row[x].seq <= q.upTo}
    IN  {x \in window : q.limit = 0 \/
            Cardinality({y \in window : row[y].seq < row[x].seq}) <= q.limit}

Query(p, S, from, to) ==
    /\ req[p].pc = from
    /\ req' = [req EXCEPT ![p].pc = to,
                          ![p].sent = @ \cup Queried(S, req[p]),
                          ![p].got = [x \in Rows |-> IF x \in Queried(S, req[p])
                                                     THEN AsSent(x) ELSE @[x]]]
    /\ UNCHANGED <<serverVars, open, lib, cursor, pend, cache>>

QueryOwn(p) == Query(p, Own, "own", "shared")
QueryShared(p) == Query(p, Shared, "shared", "reply")

(* Mutants: the counter read last; the next number for the last one; a page *)
(* cut one short of its last row.                                          *)
CursorsReadLast(q) == {last}

CursorsNextNumber(q) == {q.upTo + 1}

CursorsCutShort(q) ==
    {q.upTo} \cup {q.got[x].seq - 1 : x \in {y \in q.sent : q.limit > 0}}

(* A collection that overflowed caps the cursor at its last included row.  *)
Cursors(q) ==
    {q.upTo} \cup
    UNION {{q.got[x].seq : x \in {y \in q.sent \cap S :
               /\ q.limit > 0 /\ Cardinality(q.sent \cap S) > q.limit
               /\ Cardinality({z \in q.sent \cap S : q.got[z].seq <= q.got[y].seq})
                     = q.limit}} : S \in {Own, Shared}}

(* Every collection is cut at the lowest cap, and so is the cursor.        *)
Answer(q, seq) ==
    LET sent == {x \in q.sent : q.got[x].seq <= seq}
    IN  [sent |-> sent, seq |-> seq, rebuild |-> q.rebuild,
         got |-> [x \in Rows |-> IF x \in sent THEN q.got[x] ELSE Nothing]]

-----------------------------------------------------------------------------
(* The client: refresh and resyncLibrary of the web store.                 *)

Kept(copy) == IF copy.gone THEN Nothing ELSE copy

(* Tombstones prune, live rows replace; an answer that finds the cursor at  *)
(* 0, or that was asked to rebuild, starts over.  The cursor becomes the    *)
(* answer's, wherever it was.  The cache writes of one tab go in the order  *)
(* their answers landed; bound: each before the tab's next answer lands.   *)
Deliver(p) ==
    LET t == TabOf(p)
    IN  /\ req[p].pc = "reply"
        /\ \A other \in Pulls : TabOf(other) = t => pend[other] = {}
        /\ \E seq \in Cursors(req[p]) :
            /\ \A other \in Cursors(req[p]) : seq <= other
            /\ LET answer == Answer(req[p], seq)
                   anew == req[p].rebuild \/ cursor[t] = 0
               IN  /\ lib' = [lib EXCEPT ![t] = [x \in Rows |->
                         IF x \in answer.sent THEN Kept(answer.got[x])
                         ELSE IF anew THEN Nothing ELSE @[x]]]
                   /\ cursor' = [cursor EXCEPT ![t] = seq]
                   /\ pend' = [pend EXCEPT ![p] = {answer}]
        /\ req' = [req EXCEPT ![p] = Idle]
        /\ UNCHANGED <<serverVars, open, cache>>

(* A timeout, a dead connection, a failed query: the queries only read, so  *)
(* one that fails early is one whose answer is lost.                       *)
FailSync(p) ==
    /\ req[p].pc = "reply"
    /\ req' = [req EXCEPT ![p] = Idle]
    /\ UNCHANGED <<serverVars, open, lib, cursor, pend, cache>>

(* upsert: a tombstone removes the row, a newer live row replaces it.      *)
Folded(prior, answer, x) ==
    IF x \notin answer.sent THEN prior
    ELSE IF answer.got[x].gone THEN Nothing
    ELSE IF prior.seq < answer.got[x].seq THEN answer.got[x]
    ELSE prior

(* storeSyncRows, one IndexedDB transaction, which no pull waits for.      *)
StoreRows(p) ==
    \E answer \in pend[p] :
        LET prior == IF answer.rebuild THEN [seq |-> 0, rows |-> Empty] ELSE cache
        IN  /\ cache' = [seq |-> IF prior.seq < answer.seq THEN answer.seq
                                 ELSE prior.seq,
                         rows |-> [x \in Rows |->
                                      Folded(prior.rows[x], answer, x)]]
            /\ pend' = [pend EXCEPT ![p] = {}]
            /\ UNCHANGED <<serverVars, open, lib, cursor, req>>

(* A tab opens on the cached rows when there are any (loadCache).          *)
OpenTab(t) ==
    /\ t \notin open
    /\ open' = open \cup {t}
    /\ cursor' = [cursor EXCEPT ![t] = cache.seq]
    /\ lib' = [lib EXCEPT ![t] = IF cache.seq > 0 THEN cache.rows ELSE Empty]
    /\ UNCHANGED <<serverVars, req, pend, cache>>

(* The tab goes, and with it its pulls and what they had not stored.       *)
Leave(t) ==
    /\ t \in open
    /\ open' = open \ {t}
    /\ cursor' = [cursor EXCEPT ![t] = 0]
    /\ lib' = [lib EXCEPT ![t] = Empty]
    /\ req' = [p \in Pulls |-> IF TabOf(p) = t THEN Idle ELSE req[p]]
    /\ pend' = [p \in Pulls |-> IF TabOf(p) = t THEN {} ELSE pend[p]]
    /\ UNCHANGED serverVars

(* It is closed or locked.                                                 *)
CloseTab(t) == Leave(t) /\ UNCHANGED cache

(* logout: the cache is cleared, in the order the tab asked for it.  Other  *)
(* tabs of the account go on.                                              *)
SignOut(t) == Leave(t) /\ cache' = [seq |-> 0, rows |-> Empty]

-----------------------------------------------------------------------------

ServerNext ==
    \/ \E S \in SUBSET Own : ChangeOwn(S)
    \/ \E x \in Shared :
        \/ ReadMembers(x) \/ CommitChange(x) \/ Grant(x)
        \/ ChangeMember(x) \/ TouchMember(x) \/ LoseTouch(x)
        \/ TrashFolder(x) \/ DeleteSharer(x)

ClientNext ==
    \/ \E p \in Pulls :
        \/ \E limit \in Limits, rebuild \in BOOLEAN : StartSync(p, limit, rebuild)
        \/ QueryOwn(p) \/ QueryShared(p) \/ Deliver(p) \/ FailSync(p)
        \/ StoreRows(p)
    \/ \E t \in Tabs : OpenTab(t) \/ CloseTab(t) \/ SignOut(t)

Next == ServerNext \/ ClientNext

Spec == Init /\ [][Next]_vars

(* A visible tab that shows a library (from the cache, or from a pull that  *)
(* brought anything) polls every minute and on every announcement, the     *)
(* server answers what it was asked, and the network does not fail every   *)
(* time.  A first pull that fails is repeated only when the user asks.     *)
Polling ==
    \A p \in Pulls :
        /\ WF_vars(\/ \E limit \in Limits :
                        cursor[TabOf(p)] > 0 /\ StartSync(p, limit, FALSE)
                   \/ QueryOwn(p) \/ QueryShared(p) \/ StoreRows(p))
        /\ SF_vars(Deliver(p))

FairSpec == Spec /\ Polling

-----------------------------------------------------------------------------
(* Properties *)

(* What a client shows of a row it is up to date with.                     *)
Shown(x) == IF row[x].seq = 0 THEN Nothing ELSE Kept(AsSent(x))

(* Shares changed with no number, or whose number is being drawn, are what  *)
(* no pull can be right about.                                             *)
Settled == Rows \ (missed \cup touching)

(* "Read last, anything committed mid-request would advance the client     *)
(* past a row it never received": whatever the statements of a request     *)
(* interleave with and wherever pages are cut, a client holds every row up *)
(* to its cursor as it is now, tombstones included.                        *)
FeedComplete ==
    \A t \in open : \A x \in Settled :
        row[x].seq <= cursor[t] => lib[t][x] = Shown(x)

(* The same of the cache a later visit starts from: its rows are complete  *)
(* up to the cursor stored beside them.                                    *)
CacheComplete ==
    cache.seq > 0 => \A x \in Settled :
        row[x].seq <= cache.seq => cache.rows[x] = Shown(x)

(* "A change to a shared file must reach every member's delta sync" and,    *)
(* when an account is deleted, "their next pull learns the file is gone":  *)
(* no client that is level with the account's counter shows a share        *)
(* otherwise than it is.                                                   *)
ChangesReachMembers ==
    \A t \in open : \A x \in Shared \ touching :
        cursor[t] = last => lib[t][x] = Shown(x)

(* However often pulls fail, tabs close and pages are cut, a tab that shows *)
(* a library and stays open is level with the account's counter again and  *)
(* again; with FeedComplete, it then shows what the server holds.          *)
CatchesUp ==
    \A t \in Tabs : []<>(t \notin open \/ cursor[t] = 0 \/ cursor[t] = last)

=============================================================================
