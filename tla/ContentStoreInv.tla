-------------------------- MODULE ContentStoreInv --------------------------
(***************************************************************************)
(* The inductive invariants behind the safety properties of ContentStore.  *)
(*                                                                         *)
(* Names speaks of generations as names of blobs: every generation a row   *)
(* or a restore in flight knows is at most the last one minted, and what a *)
(* writer or a session holds is a minted number nobody else knows.  It     *)
(* needs no two overlapping completions of one session and, on PostgreSQL, *)
(* no rows from before generations were minted.                            *)
(*                                                                         *)
(* Storage speaks of the blobs themselves, and rests on Names.  It needs   *)
(* the isolation of one process over SQLite, because a restore and a       *)
(* delete act on rows they read outside their transactions.                *)
(***************************************************************************)
EXTENDS ContentStore

(* The generations of the rows, and those a restore in flight will file.   *)
Pointed == versions \cup {file.generation}

Restoring(r) == req[r].kind = "restore" /\ req[r].pc \in {"read", "claimed"}

(* Generations are handed out above everything the file knows, once the    *)
(* allocator has been used or when no older rows exist.                    *)
KnownAreMinted ==
    file.minted > 0 \/ Legacy = {} =>
        /\ \A g \in Pointed : g <= file.minted
        /\ \A r \in Requests : Restoring(r) => req[r].base <= file.minted

HeldAreMinted ==
    /\ \A r \in Requests : Writing(r) => req[r].gen \in 1..file.minted
    /\ \A s \in sessions : s.gen \in 1..file.minted

HeldByOne ==
    /\ \A r, other \in Requests :
          Writing(r) /\ Writing(other) /\ r # other => req[r].gen # req[other].gen
    /\ \A r \in Requests, s \in sessions :
          Writing(r) /\ req[r].gen = s.gen => req[r].kind = "complete"

HeldAreUnknown ==
    /\ \A r \in Requests : Writing(r) =>
        /\ req[r].gen \notin Pointed
        /\ \A other \in Requests : Restoring(other) => req[other].base # req[r].gen
    /\ \A s \in sessions :
        /\ s.gen \notin Pointed
        /\ \A other \in Requests : Restoring(other) => req[other].base # s.gen

Names == KnownAreMinted /\ HeldAreMinted /\ HeldByOne /\ HeldAreUnknown

-----------------------------------------------------------------------------

(* A request whose generation may yet become current.                      *)
Committing(r) == Writing(r) /\ req[r].kind # "begin"

Removing(r) == req[r].pc = "removing"

(* A handler inside its segment acts on rows nobody changed since.         *)
SegmentsAreFresh ==
    \A r \in Requests : req[r].pc = "read" =>
        /\ ~file.deleted
        /\ req[r].kind = "restore" =>
              req[r].base = file.generation /\ file.uploaded
        /\ req[r].kind = "delete" => req[r].stale \subseteq Pointed

OneSegment ==
    \A r, other \in Requests :
        r # other /\ req[r].pc = "read" => req[other].pc # "read"

StoredBeforeCommit ==
    \A r \in Requests :
        Committing(r) /\ req[r].pc \in {"assembled", "stored"}
            => req[r].gen \in blobs

RemovalsStayClear ==
    \A r \in Requests : Removing(r) =>
        /\ req[r].stale \cap versions = {}
        /\ file.uploaded => file.generation \notin req[r].stale
        /\ \A other \in Requests :
              Committing(other) => req[other].gen \notin req[r].stale

(* A new generation of a file that still exists is no number a handler is  *)
(* about to remove.                                                        *)
RemovalsAreMinted ==
    ~file.deleted => \A r \in Requests : Removing(r) =>
        /\ req[r].stale \subseteq 0..file.minted
        /\ \A other \in Requests : Writing(other) => req[other].gen \notin req[r].stale
        /\ \A s \in sessions : s.gen \notin req[r].stale

Storage ==
    /\ SegmentsAreFresh /\ OneSegment
    /\ file.generation \notin versions
    /\ StoredBeforeCommit
    /\ CurrentContentStored /\ VersionsStored
    /\ RemovalsStayClear /\ RemovalsAreMinted

=============================================================================
