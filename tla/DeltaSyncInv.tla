----------------------------- MODULE DeltaSyncInv -----------------------------
(***************************************************************************)
(* Why a pull can be trusted: the inductive invariant behind FeedComplete, *)
(* for one tab over its browser's cache that pulls one time after another. *)
(***************************************************************************)
EXTENDS DeltaSync

(* Numbers are drawn once and name one row each; only members are told.    *)
Numbers ==
    /\ \A x \in touching : row[x].seq > 0
    /\ \A x \in Rows : row[x].seq <= last
    /\ \A x, y \in Rows : row[x].seq > 0 /\ row[x].seq = row[y].seq => x = y

-----------------------------------------------------------------------------
(* A request on its way                                                    *)

(* The rows whose query has run.                                           *)
Read(q) == CASE q.pc = "own" -> {} [] q.pc = "shared" -> Own [] OTHER -> Rows

(* The window it asked for reaches from what the tab has to what the       *)
(* counter was.                                                            *)
Asked(p) ==
    LET q == req[p]
    IN  q.pc # "idle" =>
        /\ TabOf(p) \in open /\ pend[p] = {}
        /\ q.since = IF q.rebuild THEN 0 ELSE cursor[TabOf(p)]
        /\ q.since <= q.upTo /\ q.upTo <= last
        /\ q.sent \subseteq Read(q)
        /\ \A x \in q.sent : q.since < q.got[x].seq /\ q.got[x].seq <= q.upTo

(* A row that was sent keeps its number, or has drawn one past the window, *)
(* or is gone with its sharer; and nobody else ever has the number.        *)
SentOnce(p) ==
    LET q == req[p]
    IN  q.pc # "idle" => \A x \in q.sent :
        /\ \/ row[x].seq = q.got[x].seq
           \/ row[x].seq > q.upTo
           \/ row[x].seq = 0 /\ x \in missed
        /\ \A y \in Rows : row[y].seq = q.got[x].seq => y = x
        /\ \A y \in q.sent : q.got[y].seq = q.got[x].seq => y = x

(* A row of the window that has been read for was sent as it is, or lies   *)
(* past the last row of a full page of its collection.                     *)
SentOrCut(p) ==
    LET q == req[p]
    IN  q.pc # "idle" => \A S \in {Own, Shared} : \A x \in S \cap Read(q) \cap Settled :
        q.since < row[x].seq /\ row[x].seq <= q.upTo =>
            \/ x \in q.sent /\ q.got[x] = AsSent(x)
            \/ /\ q.limit > 0 /\ Cardinality(q.sent \cap S) > q.limit
               /\ \A y \in q.sent \cap S : q.got[y].seq < row[x].seq

-----------------------------------------------------------------------------
(* The tab and the cache                                                   *)

(* What the tab has not stored is exactly its last answer.                 *)
InStep(p) ==
    /\ TabOf(p) \notin open => req[p].pc = "idle" /\ pend[p] = {}
    /\ TabOf(p) \in open /\ pend[p] = {} => cursor[TabOf(p)] = cache.seq

(* That answer closes the gap from the cache's cursor to the tab's.        *)
Closes(p) ==
    \A answer \in pend[p] :
        LET from == IF answer.rebuild THEN 0 ELSE cache.seq
        IN  /\ answer.seq = cursor[TabOf(p)] /\ from <= answer.seq
            /\ \A x \in answer.sent : from < answer.got[x].seq
            /\ \A x \in answer.sent : answer.got[x].seq <= answer.seq
            /\ \A x \in Settled : row[x].seq <= answer.seq =>
                  IF x \in answer.sent THEN answer.got[x] = AsSent(x)
                  ELSE row[x].seq <= from

(* The cache is what a tab up to its cursor shows.                         *)
Mirrors ==
    /\ \A x \in Rows : cache.rows[x].seq <= cache.seq
    /\ \A x \in Settled : row[x].seq <= cache.seq => cache.rows[x] = Shown(x)

Feed ==
    /\ SyncTypeOK /\ Numbers
    /\ \A p \in Pulls : Asked(p) /\ SentOnce(p) /\ SentOrCut(p)
    /\ \A p \in Pulls : InStep(p) /\ Closes(p)
    /\ Mirrors /\ FeedComplete

=============================================================================
