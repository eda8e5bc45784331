---------------------------- MODULE RoutedStore ----------------------------
(***************************************************************************)
(* The routed blob store (routed.ts) for blobs that are overwritten in     *)
(* place, thumbnails and search indexes: they belong on the derived store, *)
(* and one written before the stores were split still lies on the primary, *)
(* from where the first read copies it over.                               *)
(*                                                                         *)
(* Bytes are known by the number of the put that wrote them; a remove      *)
(* takes a number too.  Each request to either store is one step, and      *)
(* calls of all server processes interleave between them.                  *)
(***************************************************************************)
EXTENDS Integers, FiniteSets

CONSTANTS
    Keys,        \* derived blobs: <id>.thumb, <id>.idx
    Procs,       \* server processes
    Calls,       \* calls in flight, over all processes
    MaxVersion,  \* bound: puts and removes of one key
    Races        \* scenario: which of the following are let happen

(* "heal": a put or remove overtakes the copying of an old blob.           *)
(* "uncover": a blob is read, or its process stops, while it is removed    *)
(* from the derived store and not yet from the primary.                    *)
(* "rename": a read a drop has overtaken puts its file where a newer one   *)
(* is.  "crash": a process restarts over a cache directory that is stale.  *)
(* "reconnect": the bus comes back under a read of a key not cached.       *)
(* "publish": the news of a write is not sent.                             *)
ASSUME StoreAssumption ==
    /\ MaxVersion \in Nat \ {0}
    /\ Races \subseteq {"heal", "uncover", "rename", "crash", "reconnect", "publish"}
    /\ IsFiniteSet(Calls) /\ IsFiniteSet(Keys)

VARIABLES
    derived,   \* the derived store: a version per key, or None
    primary,   \* the primary store, for keys written before the split
    latest,    \* the number of the last put or remove applied, per key
    returned,  \* the highest number whose call has returned, per key
    call       \* calls in flight

storeVars == <<derived, primary, latest, returned, call>>

-----------------------------------------------------------------------------

None == 0
Version == 1..MaxVersion
Idle == [pc |-> "idle"]
May(race) == race \in Races

(* A read carries what its process was told when it began (floor) and      *)
(* whether no drop of its key has run there since (fresh): the comparison  *)
(* of the key's epoch then and now.                                        *)
Reading == {"lookup", "fallback", "heal", "fetched", "renamed", "unlink", "answered"}
ReadCall == [pc : Reading, p : Procs, k : Keys, ver : Version \cup {None},
             floor : Version, fresh : BOOLEAN]
WriteCall == [pc : {"put", "remove", "removePrimary", "drop", "gone"}, p : Procs, k : Keys,
              ver : Version \cup {None}]

StoreTypeOK ==
    /\ derived \in [Keys -> Version \cup {None}]
    /\ primary \in [Keys -> Version \cup {None}]
    /\ latest \in [Keys -> Version] /\ returned \in [Keys -> Version]
    /\ call \in [Calls -> {Idle} \cup ReadCall \cup WriteCall]
    /\ \A k \in Keys : derived[k] <= latest[k] /\ returned[k] <= latest[k]

(* Every blob exists; those in the set old predate the split. *)
StoreInit ==
    /\ \E old \in SUBSET Keys :
        /\ derived = [k \in Keys |-> IF k \in old THEN None ELSE 1]
        /\ primary = [k \in Keys |-> IF k \in old THEN 1 ELSE None]
    /\ latest = [k \in Keys |-> 1]
    /\ returned = [k \in Keys |-> 1]
    /\ call = [c \in Calls |-> Idle]

At(c, pc) == call[c].pc = pc
Goto(c, pc) == call' = [call EXCEPT ![c].pc = pc]
Finish(c) == call' = [call EXCEPT ![c] = Idle]

-----------------------------------------------------------------------------
(* Writes *)

StartWrite(c, p, k, op) ==
    /\ At(c, "idle")
    /\ call' = [call EXCEPT ![c] = [pc |-> op, p |-> p, k |-> k, ver |-> None]]
    /\ UNCHANGED <<derived, primary, latest, returned>>

(* put() writes the derived store alone: an old copy stays on the primary, *)
(* where no read looks any more.                                           *)
ApplyPut(c) ==
    /\ At(c, "put")
    /\ LET k == call[c].k
           v == latest[k] + 1
       IN /\ v <= MaxVersion
          /\ latest' = [latest EXCEPT ![k] = v]
          /\ derived' = [derived EXCEPT ![k] = v]
          /\ call' = [call EXCEPT ![c].pc = "drop", ![c].ver = v]
    /\ UNCHANGED <<primary, returned>>

(* remove() takes the blob from the derived store, then from the primary.  *)
ApplyRemove(c) ==
    /\ At(c, "remove")
    /\ LET k == call[c].k
           v == latest[k] + 1
       IN /\ v <= MaxVersion
          /\ latest' = [latest EXCEPT ![k] = v]
          /\ derived' = [derived EXCEPT ![k] = None]
          /\ call' = [call EXCEPT ![c].pc = "removePrimary", ![c].ver = v]
    /\ UNCHANGED <<primary, returned>>

RemovePrimary(c) ==
    /\ At(c, "removePrimary")
    /\ primary' = [primary EXCEPT ![call[c].k] = None]
    /\ Goto(c, "drop")
    /\ UNCHANGED <<derived, latest, returned>>

-----------------------------------------------------------------------------
(* Reads: get() without a range *)

Lookup(c) ==
    /\ At(c, "lookup")
    /\ LET v == derived[call[c].k] IN
       call' = [call EXCEPT ![c].ver = v,
                            ![c].pc = IF v = None THEN "fallback" ELSE "fetched"]
    /\ UNCHANGED <<derived, primary, latest, returned>>

(* Not on the derived store: the primary answers, or there is no such blob *)
(* and the call fails.                                                     *)
FallBack(c) ==
    /\ At(c, "fallback")
    /\ LET v == primary[call[c].k] IN
       IF v = None THEN Finish(c)
                   ELSE call' = [call EXCEPT ![c].ver = v, ![c].pc = "heal"]
    /\ UNCHANGED <<derived, primary, latest, returned>>

(* The old blob is copied to the derived store on its way out.             *)
Heal(c) ==
    /\ At(c, "heal")
    /\ derived' = [derived EXCEPT ![call[c].k] = call[c].ver]
    /\ Goto(c, "fetched")
    /\ UNCHANGED <<primary, latest, returned>>

(* ... or not: the copy failed, or the blob is too large to buffer. *)
SkipHeal(c) ==
    /\ At(c, "heal")
    /\ Goto(c, "fetched")
    /\ UNCHANGED <<derived, primary, latest, returned>>

-----------------------------------------------------------------------------
(* Scenarios: what a run leaves out, and nothing the program checks *)

HalfRemoved(k) == \E c \in Calls : At(c, "removePrimary") /\ call[c].k = k

(* Where "uncover" is left out, nobody reads past a remove under way.      *)
FallsBackApart(c) == May("uncover") \/ ~HalfRemoved(call[c].k)

(* Where "heal" is left out, an old blob is only copied over while nothing *)
(* was written since: what is copied is still the last version there is.   *)
HealsApart(c) ==
    May("heal") \/ LET k == call[c].k IN
                   /\ derived[k] \in {None, call[c].ver} /\ primary[k] = call[c].ver
                   /\ latest[k] = call[c].ver

-----------------------------------------------------------------------------

(* What a read of the store finds now. *)
Visible(k) == IF derived[k] # None THEN derived[k] ELSE primary[k]

(* Once a put or a remove has returned, no older bytes can be read from    *)
(* the store, from either of its sides: an overwritten blob does not come  *)
(* back, and a deleted one is gone (routed.ts remove, get).  Only a remove *)
(* under way uncovers for a moment what lies on the primary.               *)
StoreCurrent ==
    \A k \in Keys : ~HalfRemoved(k) /\ Visible(k) # None => Visible(k) >= returned[k]
=============================================================================
