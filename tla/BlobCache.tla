----------------------------- MODULE BlobCache -----------------------------
(***************************************************************************)
(* The disk cache every server process keeps in front of the blob store    *)
(* (blobcache.ts): reads fill it, writes drop the key from it and announce *)
(* the key on the bus, and the other processes drop it when they hear.     *)
(* The bus loses what is announced while a process's listener is down; the *)
(* process then drops all it holds.  The cache's directory outlives the    *)
(* process, and a restart indexes what it finds there.                     *)
(*                                                                         *)
(* Steps are what runs between two awaits: a rename or an unlink is        *)
(* another step than the bookkeeping before and after it.                  *)
(***************************************************************************)
EXTENDS RoutedStore, Sequences, SequencesExt

CONSTANTS
    MaxEntries,  \* the byte budget, in blobs
    MaxFaults    \* bound: restarts and lost listeners

ASSUME CacheAssumption == MaxEntries \in Nat \ {0} /\ MaxFaults \in Nat

VARIABLES
    index,   \* per process: the keys held, least recently used first
    file,    \* per process: what the directory holds
    doomed,  \* per process: unlinks under way nobody waits for
    news,    \* per process: announcements on their way to it
    deaf,    \* per process: its listener is down
    sweep,   \* per process: keys a reconnect has still to drop
    told,    \* per process: the writes it has made or heard of, per key
    faults,  \* faults so far
    litter   \* per process: temporary files left behind in the directory

cacheVars == <<index, file, doomed, news, deaf, sweep, told, faults, litter>>
vars == <<storeVars, cacheVars>>

-----------------------------------------------------------------------------

CacheTypeOK ==
    /\ StoreTypeOK
    /\ \A p \in Procs : /\ index[p] \in Seq(Keys) /\ IsInjective(index[p])
                        /\ Len(index[p]) <= MaxEntries
    /\ file \in [Procs -> [Keys -> Version \cup {None}]]
    /\ doomed \in [Procs -> SUBSET Keys]
    /\ news \in [Procs -> SUBSET [k : Keys, ver : Version]]
    /\ deaf \in [Procs -> BOOLEAN]
    /\ sweep \in [Procs -> SUBSET Keys]
    /\ told \in [Procs -> [Keys -> Version]]
    /\ faults \in 0..MaxFaults
    /\ litter \in [Procs -> Nat]

CacheInit ==
    /\ StoreInit
    /\ index = [p \in Procs |-> <<>>]
    /\ file = [p \in Procs |-> [k \in Keys |-> None]]
    /\ doomed = [p \in Procs |-> {}]
    /\ news = [p \in Procs |-> {}]
    /\ deaf = [p \in Procs |-> FALSE]
    /\ sweep = [p \in Procs |-> {}]
    /\ told = [p \in Procs |-> [k \in Keys |-> 1]]
    /\ faults = 0
    /\ litter = [p \in Procs |-> 0]

Held(p) == ToSet(index[p])
Larger(a, b) == IF a > b THEN a ELSE b

(* The synchronous half of dropLocal: the key's epoch moves, which every   *)
(* read of it under way will notice, and its entry leaves the index.       *)
Drop(p, k, calls) ==
    /\ index' = [index EXCEPT ![p] = RemoveFirst(@, k)]
    /\ call' = [c \in Calls |->
         IF calls[c].pc \in Reading /\ calls[c].p = p /\ calls[c].k = k
         THEN [calls[c] EXCEPT !.fresh = FALSE] ELSE calls[c]]

-----------------------------------------------------------------------------
(* get() *)

(* Mutant for CacheTypeOK: the entry is touched without leaving its place. *)
HitTwice(c, p, k) ==
    /\ At(c, "idle") /\ k \in Held(p) /\ file[p][k] # None
    /\ index' = [index EXCEPT ![p] = Append(@, k)]
    /\ call' = [call EXCEPT ![c] = [pc |-> "answered", p |-> p, k |-> k,
                  ver |-> file[p][k], floor |-> told[p][k], fresh |-> TRUE]]
    /\ UNCHANGED <<derived, primary, latest, returned, file, doomed, news, deaf,
                   sweep, told, faults, litter>>

(* An indexed entry whose file is there is streamed from disk. *)
Hit(c, p, k) ==
    /\ At(c, "idle") /\ k \in Held(p) /\ file[p][k] # None
    /\ index' = [index EXCEPT ![p] = Append(RemoveFirst(@, k), k)]
    /\ call' = [call EXCEPT ![c] = [pc |-> "answered", p |-> p, k |-> k,
                  ver |-> file[p][k], floor |-> told[p][k], fresh |-> TRUE]]
    /\ UNCHANGED <<derived, primary, latest, returned, file, doomed, news, deaf,
                   sweep, told, faults, litter>>

Miss(c, p, k) ==
    /\ At(c, "idle") /\ ~(k \in Held(p) /\ file[p][k] # None)
    /\ call' = [call EXCEPT ![c] = [pc |-> "lookup", p |-> p, k |-> k, ver |-> None,
                                    floor |-> told[p][k], fresh |-> TRUE]]
    /\ UNCHANGED <<derived, primary, latest, returned, cacheVars>>

(* The store's side of a miss. *)
Fetch(c) ==
    /\ \/ Lookup(c) \/ SkipHeal(c)
       \/ FallBack(c) /\ FallsBackApart(c)
       \/ Heal(c) /\ HealsApart(c)
    /\ UNCHANGED cacheVars

(* The bytes go to a temporary file and are renamed over the key's.  The   *)
(* temporary file is nobody's business until then, but for a crash.        *)
Rename(c) ==
    /\ At(c, "fetched")
    /\ file' = [file EXCEPT ![call[c].p][call[c].k] = call[c].ver]
    /\ Goto(c, "renamed")
    /\ UNCHANGED <<derived, primary, latest, returned, index, doomed, news, deaf,
                   sweep, told, faults, litter>>

(* The blob is over the cap, or the disk refuses: served, not kept. *)
ServeOnly(c) ==
    /\ At(c, "fetched")
    /\ Goto(c, "answered")
    /\ UNCHANGED <<derived, primary, latest, returned, cacheVars>>

(* evict(): from the least recently used, until the budget holds. *)
Kept(entries) == SubSeq(entries, Larger(1, Len(entries) - MaxEntries + 1), Len(entries))

(* Mutant for ServesFresh: the epoch is not compared. *)
AdmitAny(c) ==
    /\ At(c, "renamed")
    /\ LET p == call[c].p
           entries == Append(RemoveFirst(index[p], call[c].k), call[c].k)
       IN /\ index' = [index EXCEPT ![p] = Kept(entries)]
          /\ doomed' = [doomed EXCEPT ![p] = @ \cup (ToSet(entries) \ ToSet(Kept(entries)))]
          /\ Goto(c, "answered")
    /\ UNCHANGED <<derived, primary, latest, returned, file, news, deaf, sweep, told, faults,
                   litter>>

(* Mutant for KeyFilesCounted: the overtaken file is left lying. *)
AdmitLeaving(c) ==
    /\ At(c, "renamed")
    /\ IF call[c].fresh
       THEN LET p == call[c].p
                entries == Append(RemoveFirst(index[p], call[c].k), call[c].k)
            IN /\ index' = [index EXCEPT ![p] = Kept(entries)]
               /\ doomed' = [doomed EXCEPT ![p] = @ \cup (ToSet(entries) \ ToSet(Kept(entries)))]
       ELSE UNCHANGED <<index, doomed>>
    /\ Goto(c, "answered")
    /\ UNCHANGED <<derived, primary, latest, returned, file, news, deaf, sweep, told, faults,
                   litter>>

(* With the file in place the epoch is compared: unchanged, the entry is   *)
(* indexed and the budget enforced; moved, the file is taken away again.   *)
Admit(c) ==
    /\ At(c, "renamed")
    /\ IF call[c].fresh
       THEN LET p == call[c].p
                entries == Append(RemoveFirst(index[p], call[c].k), call[c].k)
            IN /\ index' = [index EXCEPT ![p] = Kept(entries)]
               /\ doomed' = [doomed EXCEPT ![p] = @ \cup (ToSet(entries) \ ToSet(Kept(entries)))]
               /\ Goto(c, "answered")
       ELSE Goto(c, "unlink") /\ UNCHANGED <<index, doomed>>
    /\ UNCHANGED <<derived, primary, latest, returned, file, news, deaf, sweep, told, faults,
                   litter>>

Unadmit(c) ==
    /\ At(c, "unlink")
    /\ file' = [file EXCEPT ![call[c].p][call[c].k] = None]
    /\ Goto(c, "answered")
    /\ UNCHANGED <<derived, primary, latest, returned, index, doomed, news, deaf,
                   sweep, told, faults, litter>>

Answer(c) ==
    /\ At(c, "answered")
    /\ Finish(c)
    /\ UNCHANGED <<derived, primary, latest, returned, cacheVars>>

-----------------------------------------------------------------------------
(* put() and remove(): the store first, then the drop, then the news *)

Write(c) ==
    /\ \/ \E p \in Procs, k \in Keys, op \in {"put", "remove"} : StartWrite(c, p, k, op)
       \/ ApplyPut(c) \/ ApplyRemove(c) \/ RemovePrimary(c)
    /\ UNCHANGED cacheVars

DropWritten(c) ==
    /\ At(c, "drop")
    /\ Drop(call[c].p, call[c].k, [call EXCEPT ![c].pc = "gone"])
    /\ UNCHANGED <<derived, primary, latest, returned, file, doomed, news, deaf,
                   sweep, told, faults, litter>>

(* Mutant for CachesAgree: only the process itself is told. *)
ReturnQuietly(c, sent) ==
    /\ At(c, "gone")
    /\ LET p == call[c].p  k == call[c].k  v == call[c].ver IN
       /\ file' = [file EXCEPT ![p][k] = None]
       /\ told' = [told EXCEPT ![p][k] = Larger(@, v)]
       /\ returned' = [returned EXCEPT ![k] = Larger(@, v)]
    /\ Finish(c)
    /\ UNCHANGED <<derived, primary, latest, index, doomed, news, deaf, sweep, faults, litter>>

(* The file is gone before the call returns; the news goes to every        *)
(* process whose listener is up, if the publication succeeds.              *)
Return(c, sent) ==
    /\ At(c, "gone")
    /\ LET p == call[c].p  k == call[c].k  v == call[c].ver IN
       /\ file' = [file EXCEPT ![p][k] = None]
       /\ told' = [told EXCEPT ![p][k] = Larger(@, v)]
       /\ returned' = [returned EXCEPT ![k] = Larger(@, v)]
       /\ news' = [q \in Procs |-> IF q = p \/ deaf[q] \/ ~sent THEN news[q]
                                   ELSE news[q] \cup {[k |-> k, ver |-> v]}]
    /\ Finish(c)
    /\ UNCHANGED <<derived, primary, latest, index, doomed, deaf, sweep, faults, litter>>

-----------------------------------------------------------------------------
(* The bus, the disk, and restarts *)

(* Another process wrote the key: drop it; nobody waits for the unlink. *)
Hear(p) ==
    /\ ~deaf[p]
    /\ \E n \in news[p] :
        /\ Drop(p, n.k, call)
        /\ doomed' = [doomed EXCEPT ![p] = @ \cup {n.k}]
        /\ news' = [news EXCEPT ![p] = @ \ {n}]
        /\ told' = [told EXCEPT ![p][n.k] = Larger(@, n.ver)]
    /\ UNCHANGED <<derived, primary, latest, returned, file, deaf, sweep, faults, litter>>

Unlink(p) ==
    /\ \E k \in doomed[p] :
        /\ doomed' = [doomed EXCEPT ![p] = @ \ {k}]
        /\ file' = [file EXCEPT ![p][k] = None]
    /\ UNCHANGED <<storeVars, index, news, deaf, sweep, told, faults, litter>>

LoseListener(p) ==
    /\ ~deaf[p] /\ faults < MaxFaults
    /\ faults' = faults + 1
    /\ deaf' = [deaf EXCEPT ![p] = TRUE]
    /\ news' = [news EXCEPT ![p] = {}]
    /\ UNCHANGED <<storeVars, index, file, doomed, sweep, told, litter>>

(* dropDerived, on every connection but the first: one key after another,  *)
(* of those the index held when it came up.                                *)
Reconnect(p) ==
    /\ deaf[p]
    /\ deaf' = [deaf EXCEPT ![p] = FALSE]
    /\ sweep' = [sweep EXCEPT ![p] = Held(p)]
    /\ UNCHANGED <<storeVars, index, file, doomed, news, told, faults, litter>>

Sweep(p) ==
    /\ \E k \in sweep[p] :
        /\ Drop(p, k, call)
        /\ doomed' = [doomed EXCEPT ![p] = @ \cup {k}]
        /\ sweep' = [sweep EXCEPT ![p] = @ \ {k}]
    /\ doomed[p] = {}
    /\ UNCHANGED <<derived, primary, latest, returned, file, news, deaf, told, faults, litter>>

(* A crash ends the process's calls; the restart indexes the keys' files   *)
(* and evicts down to the budget, in an order the files' times decide.     *)
(* The temporary files of reads cut off before their rename are passed     *)
(* over, and stay.                                                         *)
Restart(p) ==
    /\ faults < MaxFaults
    /\ faults' = faults + 1
    /\ call' = [c \in Calls |-> IF ~At(c, "idle") /\ call[c].p = p THEN Idle ELSE call[c]]
    /\ LET found == {k \in Keys : file[p][k] # None} IN
       \E order \in SetToSeqs(found) :
           /\ index' = [index EXCEPT ![p] = Kept(order)]
           /\ doomed' = [doomed EXCEPT ![p] = found \ ToSet(Kept(order))]
    /\ news' = [news EXCEPT ![p] = {}]
    /\ deaf' = [deaf EXCEPT ![p] = FALSE]
    /\ sweep' = [sweep EXCEPT ![p] = {}]
    /\ \E cut \in SUBSET {c \in Calls : At(c, "fetched") /\ call[c].p = p} :
           litter' = [litter EXCEPT ![p] = @ + Cardinality(cut)]
    /\ UNCHANGED <<derived, primary, latest, returned, file, told>>

-----------------------------------------------------------------------------
(* Scenarios: what a run leaves out, and nothing the program checks *)

(* Where "rename" is left out, a read a drop has overtaken renames its     *)
(* file into place only where no newer one is.                             *)
RenamesApart(c) ==
    \/ May("rename") \/ call[c].fresh
    \/ LET p == call[c].p  k == call[c].k IN
       /\ k \notin Held(p)
       /\ \A d \in Calls \ {c} : ~(At(d, "renamed") /\ call[d].p = p /\ call[d].k = k)

(* Where "publish" is left out, every publication succeeds.                *)
Publications == IF May("publish") THEN BOOLEAN ELSE {TRUE}

(* Where "reconnect" is left out, the listener comes back while no read is *)
(* on its way whose key the sweep will not drop, the key not being in the  *)
(* index.                                                                  *)
ReconnectsApart(p) ==
    \/ May("reconnect")
    \/ \A c \in Calls : call[c].pc \in Reading \ {"answered"} /\ call[c].p = p =>
                          call[c].k \in Held(p)

(* The directory holds, or misses the news of, bytes that were replaced.   *)
MayBeStale(p) ==
    \/ deaf[p] \/ news[p] # {} \/ sweep[p] # {}
    \/ \E c \in Calls : /\ call[c].pc \in {"renamed", "unlink"} /\ call[c].p = p
                        /\ ~call[c].fresh
    \/ \E c \in Calls : At(c, "gone") /\ call[c].p = p
    \/ doomed[p] \ Held(p) # {}

(* Where "crash" is left out, a process stops only while its directory is  *)
(* up to date, and where "uncover" is, never between a remove's two stores. *)
RestartsApart(p) ==
    /\ May("crash") \/ ~MayBeStale(p)
    /\ May("uncover") \/ ~\E c \in Calls : At(c, "removePrimary") /\ call[c].p = p

-----------------------------------------------------------------------------

Next ==
    \/ \E c \in Calls :
        \/ \E p \in Procs, k \in Keys : Hit(c, p, k) \/ Miss(c, p, k)
        \/ Fetch(c) \/ ServeOnly(c)
        \/ Rename(c) /\ RenamesApart(c)
        \/ Admit(c) \/ Unadmit(c) \/ Answer(c)
        \/ Write(c) \/ DropWritten(c)
        \/ \E sent \in Publications : Return(c, sent)
    \/ \E p \in Procs : \/ Hear(p) \/ Unlink(p) \/ LoseListener(p) \/ Sweep(p)
                        \/ Reconnect(p) /\ ReconnectsApart(p)
                        \/ Restart(p) /\ RestartsApart(p)

Spec == CacheInit /\ [][Next]_vars

-----------------------------------------------------------------------------
(* Properties *)

(* A read never answers with bytes older than the last write its process   *)
(* had made or been told of when it began (the epoch compared after the    *)
(* rename, the drop awaited by put and remove).                            *)
ServesFresh ==
    \A c \in Calls : At(c, "answered") => call[c].ver >= call[c].floor

(* No call, announcement, sweep or unlink of the process is under way. *)
Quiet(p) ==
    /\ ~deaf[p] /\ news[p] = {} /\ sweep[p] = {} /\ doomed[p] = {}
    /\ \A c \in Calls : At(c, "idle") \/ call[c].p # p

(* When things have come to rest at a process, what its cache would serve  *)
(* is no older than any write that has returned, on whatever process (the  *)
(* bus's announcements, the sweep after a reconnect, the rescan).          *)
CachesAgree ==
    \A p \in Procs : Quiet(p) =>
        \A k \in Held(p) : file[p][k] # None => file[p][k] >= returned[k]

(* ... and every key's file in the directory is one the index counts       *)
(* (admit, evict and the drops taken together).                            *)
KeyFilesCounted ==
    \A p \in Procs : Quiet(p) => \A k \in Keys : file[p][k] # None => k \in Held(p)

(* The directory holds no more than the budget, whatever the files in it   *)
(* are called (docs/storage.md: a hot tier "with this disk budget").       *)
DiskWithinBudget ==
    \A p \in Procs : Quiet(p) =>
        Cardinality({k \in Keys : file[p][k] # None}) + litter[p] <= MaxEntries
=============================================================================
