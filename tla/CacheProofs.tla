---------------------------- MODULE CacheProofs ----------------------------
(***************************************************************************)
(* What TLAPS proves of the routed blob store and of the disk cache every  *)
(* server process keeps in front of it, for every number of keys,          *)
(* processes, calls, writes and faults.                                    *)
(***************************************************************************)
EXTENDS BlobCache, SequenceTheorems, FiniteSetTheorems, TLAPS

-----------------------------------------------------------------------------
(* Invariants *)

(* CacheTypeOK, strengthened: what a call carries was written.             *)
CallType == {Idle} \cup ReadCall \cup WriteCall
TypeInv ==
    /\ CacheTypeOK /\ index \in [Procs -> Seq(Keys)]
    /\ \A k \in Keys : primary[k] \in {None, 1}
    /\ \A p \in Procs, k \in Keys : file[p][k] <= latest[k]
    /\ \A c \in Calls :
         /\ call[c] # Idle => call[c].ver <= latest[call[c].k]
         /\ call[c].pc \in {"removePrimary", "drop", "gone"} => call[c].ver # None

(* KeyFilesCounted, strengthened: whoever takes a file's key out of the index has *)
(* the file in hand, and so has whoever puts a file where no key is.       *)
Handling(p, k) ==
    \E c \in Calls : call[c].pc \in {"renamed", "unlink", "gone"}
                        /\ call[c].p = p /\ call[c].k = k
StrayInv ==
    \A p \in Procs, k \in Keys :
        file[p][k] # None => k \in Held(p) \/ k \in doomed[p] \/ Handling(p, k)

(* StoreCurrent, strengthened: the derived store has the last version or   *)
(* nothing, and the old copy only counts for what was never written again. *)
StoreInv ==
    \A k \in Keys :
        /\ derived[k] \in {None, latest[k]}
        /\ derived[k] = None /\ primary[k] # None /\ ~HalfRemoved(k) => latest[k] = 1

(* A process that was not told of a write yet is going to be.              *)
Tells == Races \cap {"reconnect", "publish"} = {}
Pending(p, k) == deaf[p] \/ k \in sweep[p] \/ \E n \in news[p] : n.k = k
ToldInv ==
    \A p \in Procs : /\ \A k \in Keys : told[p][k] <= returned[k]
                     /\ \A n \in news[p] : n.ver <= returned[n.k]

(* A version that may be kept under a key: no write the process made or    *)
(* was told of is newer, and none that is about to return there.           *)
Current(p, k, v) ==
    /\ v >= told[p][k]
    /\ Tells => v >= returned[k] \/ Pending(p, k)
    /\ \A d \in Calls : call[d].pc = "gone" /\ call[d].p = p /\ call[d].k = k => v >= call[d].ver

(* ServesFresh, strengthened to every read on its way: the bytes it has    *)
(* are new enough to be served, and while no drop overtakes it, to be kept. *)
FloorInv(c) ==
    LET k == call[c].k IN
    /\ call[c].pc \in Reading => call[c].floor <= told[call[c].p][k]
    /\ call[c].pc = "fallback" => primary[k] = None \/ call[c].floor = 1 \/ HalfRemoved(k)
    /\ call[c].pc \in {"heal", "fetched", "renamed", "unlink", "answered"} =>
         call[c].ver >= call[c].floor /\ call[c].ver # None

FreshInv(c) ==
    LET p == call[c].p  k == call[c].k IN
    /\ call[c].pc \in {"heal", "fetched", "renamed"} /\ call[c].fresh => Current(p, k, call[c].ver)
    /\ call[c].pc = "fallback" /\ call[c].fresh =>
         primary[k] = None \/ HalfRemoved(k) \/ Current(p, k, 1)
    /\ call[c].pc = "renamed" /\ call[c].fresh =>
         file[p][k] = None \/ Current(p, k, file[p][k])
    /\ call[c].pc = "unlink" => ~call[c].fresh

HeldInv == \A p \in Procs : \A k \in Held(p) : file[p][k] = None \/ Current(p, k, file[p][k])

FreshStore == StoreInv /\ ToldInv /\ HeldInv /\ \A c \in Calls : FloorInv(c) /\ FreshInv(c)

-----------------------------------------------------------------------------
(* The index: a key is taken out, put at the end, and the oldest ones go   *)

LEMMA Injective ==
    ASSUME NEW S, NEW s \in Seq(S)
    PROVE  IsInjective(s) <=> \A i, j \in 1..Len(s) : s[i] = s[j] => i = j
BY LenProperties DEF IsInjective

(* A key is in the index once, so that taking the first one out takes it   *)
(* out.                                                                    *)
LEMMA WithoutKey ==
    ASSUME NEW S, NEW s \in Seq(S), IsInjective(s), NEW k
    PROVE  LET t == RemoveFirst(s, k) IN
           /\ t \in Seq(S) /\ IsInjective(t)
           /\ ToSet(t) = ToSet(s) \ {k}
           /\ Len(t) <= Len(s)
           /\ k \in ToSet(s) => Len(t) = Len(s) - 1
<1> DEFINE t == RemoveFirst(s, k)
<1>dom. DOMAIN s = 1..Len(s) /\ Len(s) \in Nat /\ s \in [1..Len(s) -> S]
  BY LenProperties
<1>inj. \A i, j \in 1..Len(s) : s[i] = s[j] => i = j
  BY Injective
<1>1. CASE ~\E i \in 1..Len(s) : s[i] = k
  <2>1. t = s
    BY <1>1 DEF RemoveFirst
  <2>2. k \notin ToSet(s) /\ ToSet(s) = ToSet(s) \ {k}
    BY <1>1, <1>dom DEF ToSet
  <2> HIDE DEF t
  <2>3. t \in Seq(S) /\ IsInjective(t) /\ ToSet(t) = ToSet(s) \ {k} /\ Len(t) <= Len(s)
    BY <2>1, <2>2, <1>dom
  <2> QED
    BY <2>2, <2>3 DEF t
<1>2. ASSUME NEW i \in 1..Len(s), s[i] = k
      PROVE  /\ t \in Seq(S) /\ IsInjective(t) /\ ToSet(t) = ToSet(s) \ {k}
             /\ Len(t) = Len(s) - 1
  <2>1. t = SubSeq(s, 1, i - 1) \o SubSeq(s, i + 1, Len(s))
    <3>1. {j \in 1..Len(s) : s[j] = k} = {i}
      BY <1>2, <1>inj
    <3>2. Min({i}) = i
      BY <1>2 DEF Min
    <3>3. SelectInSeq(s, LAMBDA v : v = k) = i
      BY <3>1, <3>2 DEF SelectInSeq
    <3> QED
      BY <3>3, <1>2 DEF RemoveFirst, RemoveAt
  <2> DEFINE a == SubSeq(s, 1, i - 1)
             b == SubSeq(s, i + 1, Len(s))
  <2>2. a \in Seq(S) /\ Len(a) = i - 1 /\ \A j \in 1..i - 1 : a[j] = s[j]
    BY <1>2, <1>dom, SubSeqProperties
  <2>3. b \in Seq(S) /\ Len(b) = Len(s) - i /\ \A j \in 1..Len(s) - i : b[j] = s[i + j]
    <3>1. \A j \in i + 1..Len(s) : s[j] \in S
      BY <1>2, <1>dom
    <3> QED
      BY <3>1, <1>2, <1>dom, SubSeqProperties
  <2> HIDE DEF a, b
  <2>4. /\ t \in Seq(S) /\ Len(t) = Len(s) - 1
        /\ \A j \in 1..Len(s) - 1 : t[j] = IF j < i THEN s[j] ELSE s[j + 1]
    <3> HIDE DEF t
    <3>1. t = a \o b
      BY <2>1 DEF a, b
    <3>2. /\ a \o b \in Seq(S) /\ Len(a \o b) = Len(a) + Len(b)
          /\ \A j \in 1..Len(a) + Len(b) :
               (a \o b)[j] = IF j <= Len(a) THEN a[j] ELSE b[j - Len(a)]
      BY <2>2, <2>3, ConcatProperties
    <3>3. t \in Seq(S) /\ Len(t) = Len(s) - 1
      BY <3>1, <3>2, <2>2, <2>3, <1>2, <1>dom
    <3>4. ASSUME NEW j \in 1..Len(s) - 1 PROVE t[j] = IF j < i THEN s[j] ELSE s[j + 1]
      <4>1. CASE j < i
        BY <4>1, <3>1, <3>2, <2>2, <2>3, <1>2, <1>dom
      <4>2. CASE ~(j < i)
        <5>1. j - (i - 1) \in 1..Len(s) - i /\ j \in 1..Len(a) + Len(b) /\ ~(j <= Len(a))
          BY <4>2, <2>2, <2>3, <1>2, <1>dom
        <5>2. t[j] = b[j - (i - 1)] /\ b[j - (i - 1)] = s[i + (j - (i - 1))]
          BY <5>1, <3>1, <3>2, <2>2, <2>3
        <5>3. i + (j - (i - 1)) = j + 1
          BY <1>2, <1>dom
        <5> QED
          BY <4>2, <5>2, <5>3
      <4> QED
        BY <4>1, <4>2
    <3> QED
      BY <3>3, <3>4
  <2> HIDE DEF t
  <2>5. IsInjective(t)
    BY <2>4, <1>2, <1>dom, <1>inj, Injective
  <2>6. ToSet(t) = ToSet(s) \ {k}
    <3>1. ASSUME NEW x \in ToSet(t) PROVE x \in ToSet(s) \ {k}
      BY <3>1, <2>4, <1>2, <1>dom, <1>inj, LenProperties DEF ToSet
    <3>2. ASSUME NEW x \in ToSet(s), x # k PROVE x \in ToSet(t)
      <4>1. PICK j \in 1..Len(s) : s[j] = x
        BY <1>dom DEF ToSet
      <4>2. DOMAIN t = 1..Len(s) - 1
        BY <2>4, LenProperties
      <4>3. CASE j < i
        BY <4>1, <4>2, <4>3, <2>4, <1>2, <1>dom DEF ToSet
      <4>4. CASE i < j
        <5>1. j - 1 \in DOMAIN t /\ t[j - 1] = x
          BY <4>1, <4>2, <4>4, <2>4, <1>2, <1>dom
        <5> QED
          BY <5>1 DEF ToSet
      <4> QED
        BY <4>1, <4>3, <4>4, <3>2, <1>2
    <3> QED
      BY <3>1, <3>2
  <2> QED
    BY <2>4, <2>5, <2>6
<1>3. CASE \E i \in 1..Len(s) : s[i] = k
  <2>1. /\ t \in Seq(S) /\ IsInjective(t) /\ ToSet(t) = ToSet(s) \ {k}
        /\ Len(t) = Len(s) - 1
    BY <1>2, <1>3
  <2> HIDE DEF t
  <2>2. Len(t) <= Len(s)
    BY <2>1, <1>dom
  <2> QED
    BY <2>1, <2>2 DEF t
<1> QED
  BY <1>1, <1>3

(* ... and goes to the end.                                                *)
LEMMA WithKeyLast ==
    ASSUME NEW S, NEW s \in Seq(S), IsInjective(s), NEW k \in S
    PROVE  LET t == Append(RemoveFirst(s, k), k) IN
           /\ t \in Seq(S) /\ IsInjective(t)
           /\ ToSet(t) = ToSet(s) \cup {k}
           /\ Len(t) <= Len(s) + 1
           /\ k \in ToSet(s) => Len(t) = Len(s)
           /\ t[Len(t)] = k /\ Len(t) >= 1
<1> DEFINE r == RemoveFirst(s, k)
           t == Append(r, k)
<1>1. /\ r \in Seq(S) /\ IsInjective(r) /\ ToSet(r) = ToSet(s) \ {k}
      /\ Len(r) <= Len(s) /\ (k \in ToSet(s) => Len(r) = Len(s) - 1)
      /\ Len(r) \in Nat /\ Len(s) \in Nat /\ DOMAIN r = 1..Len(r)
  BY WithoutKey, LenProperties
<1> HIDE DEF r
<1>2. /\ t \in Seq(S) /\ Len(t) = Len(r) + 1 /\ DOMAIN t = 1..Len(r) + 1
      /\ \A i \in 1..Len(r) : t[i] = r[i]
      /\ t[Len(r) + 1] = k
  BY <1>1, AppendProperties, LenProperties
<1> HIDE DEF t
<1>3. k \notin {r[i] : i \in 1..Len(r)}
  BY <1>1 DEF ToSet
<1>4. IsInjective(t)
  <2> SUFFICES ASSUME NEW i \in 1..Len(t), NEW j \in 1..Len(t), t[i] = t[j] PROVE i = j
    BY <1>2, Injective
  <2>1. \A x, y \in 1..Len(r) : r[x] = r[y] => x = y
    BY <1>1, Injective
  <2> QED
    BY <2>1, <1>1, <1>2, <1>3
<1>5. ToSet(t) = ToSet(r) \cup {k}
  BY <1>1, <1>2 DEF ToSet
<1> QED
  BY <1>1, <1>2, <1>4, <1>5 DEF r, t

(* What evict keeps of the entries, from the newest back.                  *)
LEMMA KeptEntries ==
    ASSUME NEW s \in Seq(Keys), IsInjective(s)
    PROVE  /\ Kept(s) \in Seq(Keys) /\ IsInjective(Kept(s))
           /\ ToSet(Kept(s)) \subseteq ToSet(s)
           /\ Len(Kept(s)) <= MaxEntries
<1> DEFINE m == Larger(1, Len(s) - MaxEntries + 1)
<1>dom. DOMAIN s = 1..Len(s) /\ Len(s) \in Nat /\ s \in [1..Len(s) -> Keys]
  BY LenProperties
<1>1. m \in Int /\ m >= 1 /\ Len(s) - m + 1 <= MaxEntries
  BY <1>dom, CacheAssumption DEF Larger
<1> HIDE DEF m
<1>2. \A i \in m..Len(s) : s[i] \in Keys
  BY <1>1, <1>dom
<1>3. /\ Kept(s) \in Seq(Keys)
      /\ Len(Kept(s)) = IF m <= Len(s) THEN Len(s) - m + 1 ELSE 0
      /\ \A i \in 1..Len(s) - m + 1 : Kept(s)[i] = s[m + i - 1]
  BY <1>1, <1>2, <1>dom, SubSeqProperties DEF Kept, m
<1>4. DOMAIN Kept(s) = 1..Len(Kept(s)) /\ Len(Kept(s)) \in Nat
  BY <1>3, LenProperties
<1>5. IsInjective(Kept(s))
  <2>1. \A x, y \in 1..Len(s) : s[x] = s[y] => x = y
    BY Injective
  <2> QED
    BY <2>1, <1>1, <1>3, <1>4, <1>dom DEF IsInjective
<1>6. ToSet(Kept(s)) \subseteq ToSet(s)
  <2>1. ASSUME NEW i \in 1..Len(Kept(s)) PROVE m + i - 1 \in 1..Len(s) /\ Kept(s)[i] = s[m + i - 1]
    BY <1>1, <1>3, <1>4, <1>dom
  <2> QED
    BY <2>1, <1>4, <1>dom DEF ToSet
<1> QED
  BY <1>1, <1>3, <1>5, <1>6, CacheAssumption

-----------------------------------------------------------------------------
(* What calls hold *)

WritePcs == {"put", "remove", "removePrimary", "drop", "gone"}

LEMMA CallShape ==
    ASSUME NEW x \in CallType
    PROVE  /\ x.pc \in Reading => x \in ReadCall
           /\ x.pc \in WritePcs => x \in WriteCall
           /\ x # Idle => /\ x.pc \in Reading \cup WritePcs /\ x.p \in Procs /\ x.k \in Keys
                          /\ x.ver \in Version \cup {None}
           /\ x.pc = "idle" <=> x = Idle
<1>1. CASE x = Idle
  BY <1>1 DEF Idle, Reading, WritePcs
<1>2. CASE x \in ReadCall
  BY <1>2 DEF ReadCall, Idle, Reading, WritePcs
<1>3. CASE x \in WriteCall
  BY <1>3 DEF WriteCall, Idle, Reading, WritePcs
<1> QED
  BY <1>1, <1>2, <1>3 DEF CallType

LEMMA Overtaken ==
    ASSUME NEW x \in ReadCall
    PROVE  LET y == [x EXCEPT !.fresh = FALSE] IN
           /\ y \in ReadCall /\ y.pc = x.pc /\ y.p = x.p /\ y.k = x.k /\ y.ver = x.ver
           /\ y.floor = x.floor /\ ~y.fresh
BY DEF ReadCall

(* A drop touches the index and who is reading the key.                    *)
LEMMA DropEffect ==
    ASSUME TypeInv, NEW p \in Procs, NEW k \in Keys, NEW calls \in [Calls -> CallType],
           Drop(p, k, calls)
    PROVE  /\ index' \in [Procs -> Seq(Keys)]
           /\ \A q \in Procs : IsInjective(index'[q]) /\ Len(index'[q]) <= MaxEntries
           /\ \A q \in Procs : Held(q)' = IF q = p THEN Held(q) \ {k} ELSE Held(q)
           /\ call' \in [Calls -> CallType]
           /\ \A c \in Calls :
                /\ calls[c].pc \notin Reading => call'[c] = calls[c]
                /\ calls[c].pc \in Reading =>
                     /\ call'[c].pc = calls[c].pc /\ call'[c].p = calls[c].p
                     /\ call'[c].k = calls[c].k /\ call'[c].ver = calls[c].ver
                     /\ call'[c].floor = calls[c].floor
                     /\ call'[c].fresh => calls[c].fresh /\ ~(calls[c].p = p /\ calls[c].k = k)
<1>types. /\ index \in [Procs -> Seq(Keys)]
          /\ \A q \in Procs : IsInjective(index[q]) /\ Len(index[q]) <= MaxEntries
          /\ MaxEntries \in Nat
  BY CacheAssumption DEF TypeInv, CacheTypeOK
<1>1. index' = [index EXCEPT ![p] = RemoveFirst(index[p], k)]
  BY DEF Drop
<1>2. /\ RemoveFirst(index[p], k) \in Seq(Keys) /\ IsInjective(RemoveFirst(index[p], k))
      /\ ToSet(RemoveFirst(index[p], k)) = ToSet(index[p]) \ {k}
      /\ Len(RemoveFirst(index[p], k)) <= MaxEntries
  <2>1. index[p] \in Seq(Keys) /\ IsInjective(index[p]) /\ Len(index[p]) <= MaxEntries
    BY <1>types
  <2>2. /\ RemoveFirst(index[p], k) \in Seq(Keys) /\ IsInjective(RemoveFirst(index[p], k))
        /\ ToSet(RemoveFirst(index[p], k)) = ToSet(index[p]) \ {k}
        /\ Len(RemoveFirst(index[p], k)) <= Len(index[p])
    BY <2>1, WithoutKey
  <2>3. Len(RemoveFirst(index[p], k)) \in Nat /\ Len(index[p]) \in Nat
    BY <2>1, <2>2, LenProperties
  <2> QED
    BY <2>1, <2>2, <2>3, <1>types
<1>3. /\ index' \in [Procs -> Seq(Keys)]
      /\ \A q \in Procs : index'[q] = IF q = p THEN RemoveFirst(index[p], k) ELSE index[q]
  BY <1>1, <1>2, <1>types
<1>4. \A q \in Procs : IsInjective(index'[q]) /\ Len(index'[q]) <= MaxEntries
  BY <1>2, <1>3, <1>types
<1>5. \A q \in Procs : Held(q)' = IF q = p THEN Held(q) \ {k} ELSE Held(q)
  BY <1>2, <1>3 DEF Held
<1>6. call' = [c \in Calls |->
         IF calls[c].pc \in Reading /\ calls[c].p = p /\ calls[c].k = k
         THEN [calls[c] EXCEPT !.fresh = FALSE] ELSE calls[c]]
  BY DEF Drop
<1>7. ASSUME NEW c \in Calls
      PROVE  /\ call'[c] \in CallType
             /\ calls[c].pc \notin Reading => call'[c] = calls[c]
             /\ calls[c].pc \in Reading =>
                  /\ call'[c].pc = calls[c].pc /\ call'[c].p = calls[c].p
                  /\ call'[c].k = calls[c].k /\ call'[c].ver = calls[c].ver
                  /\ call'[c].floor = calls[c].floor
                  /\ call'[c].fresh => calls[c].fresh /\ ~(calls[c].p = p /\ calls[c].k = k)
  <2>1. CASE calls[c].pc \in Reading /\ calls[c].p = p /\ calls[c].k = k
    <3>1. calls[c] \in ReadCall
      BY <2>1, CallShape
    <3>2. call'[c] = [calls[c] EXCEPT !.fresh = FALSE]
      BY <2>1, <1>6
    <3> QED
      BY <2>1, <3>1, <3>2, Overtaken DEF CallType
  <2>2. CASE ~(calls[c].pc \in Reading /\ calls[c].p = p /\ calls[c].k = k)
    <3>1. call'[c] = calls[c]
      BY <2>2, <1>6
    <3> QED
      BY <2>2, <3>1
  <2> QED
    BY <2>1, <2>2
<1>8. call' \in [Calls -> CallType]
  BY <1>6, <1>7
<1> QED
  BY <1>3, <1>4, <1>5, <1>7, <1>8

-----------------------------------------------------------------------------
(* What the steps do to the calls *)

SameCalls(c) == call' \in [Calls -> CallType] /\ \A d \in Calls \ {c} : call'[d] = call[d]
Ends(c) == SameCalls(c) /\ call'[c] = Idle
ReadsOn(c, pc, v) ==
    /\ SameCalls(c) /\ call[c] \in ReadCall /\ call'[c] \in ReadCall
    /\ call'[c].pc = pc /\ call'[c].ver = v
    /\ call'[c].p = call[c].p /\ call'[c].k = call[c].k
    /\ call'[c].floor = call[c].floor /\ call'[c].fresh = call[c].fresh
WritesOn(c, pc, v) ==
    /\ SameCalls(c) /\ call[c] \in WriteCall /\ call'[c] \in WriteCall
    /\ call'[c].pc = pc /\ call'[c].ver = v
    /\ call'[c].p = call[c].p /\ call'[c].k = call[c].k

LEMMA Typed ==
    ASSUME TypeInv
    PROVE  /\ derived \in [Keys -> Version \cup {None}] /\ primary \in [Keys -> {None, 1}]
           /\ latest \in [Keys -> Version] /\ returned \in [Keys -> Version]
           /\ call \in [Calls -> CallType]
           /\ file \in [Procs -> [Keys -> Version \cup {None}]]
           /\ told \in [Procs -> [Keys -> Version]]
           /\ news \in [Procs -> SUBSET [k : Keys, ver : Version]]
           /\ doomed \in [Procs -> SUBSET Keys] /\ sweep \in [Procs -> SUBSET Keys]
           /\ deaf \in [Procs -> BOOLEAN] /\ faults \in 0..MaxFaults
           /\ index \in [Procs -> Seq(Keys)]
           /\ \A q \in Procs : IsInjective(index[q]) /\ Len(index[q]) <= MaxEntries
           /\ \A q \in Procs : Held(q) \subseteq Keys
<1>1. \A q \in Procs : Held(q) \subseteq Keys
  <2>1. ASSUME NEW q \in Procs PROVE Held(q) \subseteq Keys
    <3>1. index[q] \in Seq(Keys)
      BY DEF TypeInv
    <3>2. \A i \in DOMAIN index[q] : index[q][i] \in Keys
      BY <3>1, LenProperties
    <3> QED
      BY <3>2 DEF Held, ToSet
  <2> QED
    BY <2>1
<1> QED
  BY <1>1, StoreAssumption DEF TypeInv, CacheTypeOK, StoreTypeOK, CallType

LEMMA Numbers ==
    /\ MaxVersion \in Nat \ {0} /\ Version \subseteq Nat \ {0} /\ Version \cup {None} \subseteq Nat
    /\ 1 \in Version /\ None = 0 /\ None \notin Version
    /\ Idle.pc = "idle" /\ Idle \in CallType
BY StoreAssumption DEF Version, None, Idle, CallType

LEMMA OneCall ==
    ASSUME TypeInv, NEW c \in Calls, NEW x \in CallType, call' = [call EXCEPT ![c] = x]
    PROVE  SameCalls(c) /\ call'[c] = x
BY Typed DEF SameCalls

LEMMA Finishes ==
    ASSUME TypeInv, NEW c \in Calls, Finish(c)
    PROVE  Ends(c)
BY Typed, Numbers DEF Ends, SameCalls, Finish

LEMMA ReadGoto ==
    ASSUME TypeInv, NEW c \in Calls, NEW pc \in Reading, call[c].pc \in Reading, Goto(c, pc)
    PROVE  ReadsOn(c, pc, call[c].ver)
<1>1. call[c] \in ReadCall /\ call[c].ver \in Version \cup {None}
  BY Typed, CallShape DEF ReadCall
<1> DEFINE x == [call[c] EXCEPT !.pc = pc]
<1> HIDE DEF x
<1>2. /\ x \in ReadCall /\ x.pc = pc /\ x.ver = call[c].ver /\ x.p = call[c].p /\ x.k = call[c].k
      /\ x.floor = call[c].floor /\ x.fresh = call[c].fresh
  BY <1>1, Numbers DEF ReadCall, x
<1>3. call' = [call EXCEPT ![c] = x] /\ x \in CallType
  BY <1>2, Typed DEF Goto, CallType, x
<1> QED
  BY <1>1, <1>2, <1>3, OneCall DEF ReadsOn

LEMMA ReadFinds ==
    ASSUME TypeInv, NEW c \in Calls, NEW pc \in Reading, call[c].pc \in Reading,
           NEW v \in Version \cup {None}, call' = [call EXCEPT ![c].ver = v, ![c].pc = pc]
    PROVE  ReadsOn(c, pc, v)
<1>1. call[c] \in ReadCall
  BY Typed, CallShape
<1> DEFINE x == [call[c] EXCEPT !.ver = v, !.pc = pc]
<1> HIDE DEF x
<1>2. /\ x \in ReadCall /\ x.pc = pc /\ x.ver = v /\ x.p = call[c].p /\ x.k = call[c].k
      /\ x.floor = call[c].floor /\ x.fresh = call[c].fresh
  BY <1>1, Numbers DEF ReadCall, x
<1>3. call' = [call EXCEPT ![c] = x] /\ x \in CallType
  BY <1>2, Typed DEF CallType, x
<1> QED
  BY <1>1, <1>2, <1>3, OneCall DEF ReadsOn

LEMMA WriteGoto ==
    ASSUME TypeInv, NEW c \in Calls, NEW pc \in {"removePrimary", "drop", "gone"},
           call[c].pc \in WritePcs, Goto(c, pc)
    PROVE  WritesOn(c, pc, call[c].ver)
<1>1. call[c] \in WriteCall /\ call[c].ver \in Version \cup {None}
  BY Typed, CallShape DEF WriteCall
<1> DEFINE x == [call[c] EXCEPT !.pc = pc]
<1> HIDE DEF x
<1>2. x \in WriteCall /\ x.pc = pc /\ x.ver = call[c].ver /\ x.p = call[c].p /\ x.k = call[c].k
  BY <1>1, Numbers DEF WriteCall, x
<1>3. call' = [call EXCEPT ![c] = x] /\ x \in CallType
  BY <1>2, Typed DEF Goto, CallType, x
<1> QED
  BY <1>1, <1>2, <1>3, OneCall DEF WritesOn

LEMMA WriteApplied ==
    ASSUME TypeInv, NEW c \in Calls, NEW pc \in {"removePrimary", "drop", "gone"},
           call[c].pc \in WritePcs, NEW v \in Version \cup {None},
           call' = [call EXCEPT ![c].pc = pc, ![c].ver = v]
    PROVE  WritesOn(c, pc, v)
<1>1. call[c] \in WriteCall
  BY Typed, CallShape
<1> DEFINE x == [call[c] EXCEPT !.pc = pc, !.ver = v]
<1> HIDE DEF x
<1>2. x \in WriteCall /\ x.pc = pc /\ x.ver = v /\ x.p = call[c].p /\ x.k = call[c].k
  BY <1>1, Numbers DEF WriteCall, x
<1>3. call' = [call EXCEPT ![c] = x] /\ x \in CallType
  BY <1>2, Typed DEF CallType, x
<1> QED
  BY <1>1, <1>2, <1>3, OneCall DEF WritesOn
-----------------------------------------------------------------------------
(* What each action does, in these terms *)

StoreStays == UNCHANGED <<derived, primary, latest, returned>>
DiskStays == UNCHANGED <<file, told, doomed>> /\ \A q \in Procs : Held(q)' = Held(q)
BusStays == UNCHANGED <<news, deaf, sweep, faults>>
IndexT ==
    /\ index \in [Procs -> Seq(Keys)]
    /\ \A p \in Procs : IsInjective(index[p]) /\ Len(index[p]) <= MaxEntries

LEMMA CacheStays ==
    ASSUME TypeInv, UNCHANGED cacheVars
    PROVE  DiskStays /\ BusStays /\ IndexT'
<1>1. UNCHANGED <<index, file, doomed, news, deaf, sweep, told, faults>>
  BY DEF cacheVars
<1> QED
  BY <1>1, Typed DEF DiskStays, BusStays, IndexT, Held

LEMMA IndexStays ==
    ASSUME TypeInv, UNCHANGED index
    PROVE  IndexT' /\ \A q \in Procs : Held(q)' = Held(q)
BY Typed DEF IndexT, Held

(* An answer from the disk.                                                *)
LEMMA HitEffect ==
    ASSUME TypeInv, NEW c \in Calls, NEW p \in Procs, NEW k \in Keys, Hit(c, p, k)
    PROVE  /\ SameCalls(c) /\ call[c] = Idle /\ call'[c] \in ReadCall
           /\ call'[c].pc = "answered" /\ call'[c].p = p /\ call'[c].k = k
           /\ call'[c].ver = file[p][k] /\ call'[c].floor = told[p][k]
           /\ k \in Held(p) /\ file[p][k] # None
           /\ StoreStays /\ DiskStays /\ BusStays /\ IndexT'
<1> DEFINE x == [pc |-> "answered", p |-> p, k |-> k, ver |-> file[p][k],
                 floor |-> told[p][k], fresh |-> TRUE]
<1>1. /\ x \in ReadCall /\ x.pc = "answered" /\ x.p = p /\ x.k = k /\ x.ver = file[p][k]
      /\ x.floor = told[p][k]
  BY Typed DEF ReadCall, Reading
<1>2. call' = [call EXCEPT ![c] = x]
  BY DEF Hit
<1> HIDE DEF x
<1>3. SameCalls(c) /\ call'[c] = x
  BY <1>1, <1>2, OneCall DEF CallType
<1>4. call[c] = Idle
  BY Typed, CallShape DEF Hit, At
<1> DEFINE e == Append(RemoveFirst(index[p], k), k)
<1>5. index[p] \in Seq(Keys) /\ IsInjective(index[p]) /\ k \in ToSet(index[p])
  BY Typed DEF Hit, Held
<1>6. e \in Seq(Keys) /\ IsInjective(e) /\ ToSet(e) = ToSet(index[p]) /\ Len(e) = Len(index[p])
  <2>1. /\ e \in Seq(Keys) /\ IsInjective(e) /\ ToSet(e) = ToSet(index[p]) \cup {k}
        /\ Len(e) = Len(index[p])
    BY <1>5, WithKeyLast
  <2> HIDE DEF e
  <2> QED
    BY <2>1, <1>5
<1>7. index' = [index EXCEPT ![p] = e]
  BY DEF Hit
<1> HIDE DEF e
<1>8. IndexT' /\ \A q \in Procs : Held(q)' = Held(q)
  BY <1>6, <1>7, Typed DEF IndexT, Held
<1> QED
  BY <1>1, <1>3, <1>4, <1>8 DEF Hit, StoreStays, DiskStays, BusStays

LEMMA MissEffect ==
    ASSUME TypeInv, NEW c \in Calls, NEW p \in Procs, NEW k \in Keys, Miss(c, p, k)
    PROVE  /\ SameCalls(c) /\ call[c] = Idle /\ call'[c] \in ReadCall
           /\ call'[c].pc = "lookup" /\ call'[c].p = p /\ call'[c].k = k
           /\ call'[c].ver = None /\ call'[c].floor = told[p][k]
           /\ StoreStays /\ DiskStays /\ BusStays /\ IndexT'
<1> DEFINE x == [pc |-> "lookup", p |-> p, k |-> k, ver |-> None,
                 floor |-> told[p][k], fresh |-> TRUE]
<1>1. /\ x \in ReadCall /\ x.pc = "lookup" /\ x.p = p /\ x.k = k /\ x.ver = None
      /\ x.floor = told[p][k]
  BY Typed DEF ReadCall, Reading
<1>2. call' = [call EXCEPT ![c] = x]
  BY DEF Miss
<1> HIDE DEF x
<1>3. SameCalls(c) /\ call'[c] = x
  BY <1>1, <1>2, OneCall DEF CallType
<1>4. call[c] = Idle
  BY Typed, CallShape DEF Miss, At
<1>5. UNCHANGED cacheVars /\ StoreStays
  BY DEF Miss, StoreStays
<1> QED
  BY <1>1, <1>3, <1>4, <1>5, CacheStays

LEMMA LookupEffect ==
    ASSUME TypeInv, NEW c \in Calls, Lookup(c)
    PROVE  /\ call[c].pc = "lookup" /\ StoreStays
           /\ \/ derived[call[c].k] = None /\ ReadsOn(c, "fallback", None)
              \/ derived[call[c].k] # None /\ ReadsOn(c, "fetched", derived[call[c].k])
<1>1. call[c].pc = "lookup" /\ call[c] \in ReadCall /\ call[c].k \in Keys
  BY Typed, CallShape DEF Lookup, At, Reading, ReadCall
<1> DEFINE v == derived[call[c].k]
           pc == IF v = None THEN "fallback" ELSE "fetched"
<1>2. v \in Version \cup {None} /\ pc \in Reading
  BY <1>1, Typed DEF Reading
<1>3. call' = [call EXCEPT ![c].ver = v, ![c].pc = pc]
  BY DEF Lookup
<1> HIDE DEF v, pc
<1>4. ReadsOn(c, pc, v)
  BY <1>1, <1>2, <1>3, ReadFinds DEF Reading
<1> QED
  BY <1>1, <1>4 DEF v, pc, Lookup, StoreStays

LEMMA FallBackEffect ==
    ASSUME TypeInv, NEW c \in Calls, FallBack(c)
    PROVE  /\ call[c].pc = "fallback" /\ StoreStays
           /\ \/ Ends(c)
              \/ primary[call[c].k] = 1 /\ ReadsOn(c, "heal", 1)
<1>1. call[c].pc = "fallback" /\ call[c] \in ReadCall /\ call[c].k \in Keys
  BY Typed, CallShape DEF FallBack, At, Reading, ReadCall
<1>2. CASE primary[call[c].k] = None
  BY <1>1, <1>2, Finishes DEF FallBack, StoreStays
<1>3. CASE primary[call[c].k] # None
  <2>1. primary[call[c].k] = 1
    BY <1>1, <1>3, Typed
  <2>2. call' = [call EXCEPT ![c].ver = 1, ![c].pc = "heal"]
    BY <1>3, <2>1 DEF FallBack
  <2>3. ReadsOn(c, "heal", 1)
    BY <1>1, <2>2, ReadFinds, Numbers DEF Reading
  <2> QED
    BY <1>1, <2>1, <2>3 DEF FallBack, StoreStays
<1> QED
  BY <1>2, <1>3

LEMMA HealEffect ==
    ASSUME TypeInv, NEW c \in Calls, Heal(c)
    PROVE  /\ call[c].pc = "heal" /\ ReadsOn(c, "fetched", call[c].ver)
           /\ derived' = [derived EXCEPT ![call[c].k] = call[c].ver]
           /\ UNCHANGED <<primary, latest, returned>>
BY ReadGoto DEF Heal, At, Reading

(* Reads that only go on.                                                  *)
LEMMA PlainEffect ==
    ASSUME TypeInv, NEW c \in Calls
    PROVE  /\ SkipHeal(c) =>
                call[c].pc = "heal" /\ ReadsOn(c, "fetched", call[c].ver) /\ StoreStays
           /\ ServeOnly(c) =>
                /\ call[c].pc = "fetched" /\ ReadsOn(c, "answered", call[c].ver)
                /\ StoreStays /\ DiskStays /\ BusStays /\ IndexT'
           /\ Answer(c) =>
                /\ call[c].pc = "answered" /\ Ends(c)
                /\ StoreStays /\ DiskStays /\ BusStays /\ IndexT'
<1>1. SkipHeal(c) => call[c].pc = "heal" /\ ReadsOn(c, "fetched", call[c].ver) /\ StoreStays
  BY ReadGoto DEF SkipHeal, At, Reading, StoreStays
<1>2. ServeOnly(c) => /\ call[c].pc = "fetched" /\ ReadsOn(c, "answered", call[c].ver)
                      /\ UNCHANGED cacheVars /\ StoreStays
  BY ReadGoto DEF ServeOnly, At, Reading, StoreStays
<1>3. Answer(c) => call[c].pc = "answered" /\ Ends(c) /\ UNCHANGED cacheVars /\ StoreStays
  BY Finishes DEF Answer, At, StoreStays
<1> QED
  BY <1>1, <1>2, <1>3, CacheStays

LEMMA RenameEffect ==
    ASSUME TypeInv, NEW c \in Calls, Rename(c)
    PROVE  LET p == call[c].p  k == call[c].k IN
           /\ call[c].pc = "fetched" /\ ReadsOn(c, "renamed", call[c].ver)
           /\ file' = [file EXCEPT ![p][k] = call[c].ver]
           /\ UNCHANGED <<told, doomed>> /\ \A q \in Procs : Held(q)' = Held(q)
           /\ StoreStays /\ BusStays /\ IndexT'
<1>1. call[c].pc = "fetched" /\ ReadsOn(c, "renamed", call[c].ver)
  BY ReadGoto DEF Rename, At, Reading
<1>2. IndexT' /\ \A q \in Procs : Held(q)' = Held(q)
  BY IndexStays DEF Rename
<1> QED
  BY <1>1, <1>2 DEF Rename, StoreStays, BusStays

(* The key joins the index, and what the budget does not leave room for is *)
(* doomed; or the file is on its way out again.                            *)
LEMMA AdmitEffect ==
    ASSUME TypeInv, NEW c \in Calls, Admit(c),
           NEW p \in Procs, p = call[c].p, NEW k \in Keys, k = call[c].k
    PROVE  /\ call[c].pc = "renamed"
           /\ UNCHANGED <<file, told>> /\ StoreStays /\ BusStays /\ IndexT'
           /\ doomed' \in [Procs -> SUBSET Keys]
           /\ \/ /\ call[c].fresh /\ ReadsOn(c, "answered", call[c].ver)
                 /\ \A q \in Procs \ {p} : Held(q)' = Held(q) /\ doomed'[q] = doomed[q]
                 /\ Held(p)' \subseteq Held(p) \cup {k}
                 /\ Held(p) \cup {k} \cup doomed[p] \subseteq Held(p)' \cup doomed'[p]
              \/ /\ ~call[c].fresh /\ ReadsOn(c, "unlink", call[c].ver)
                 /\ DiskStays
<1>1. call[c].pc = "renamed" /\ call[c] \in ReadCall
  BY Typed, CallShape DEF Admit, At, Reading
<1>2. call[c].fresh \in BOOLEAN
  BY <1>1 DEF ReadCall
<1>3. UNCHANGED <<file, told>> /\ StoreStays /\ BusStays
  BY DEF Admit, StoreStays, BusStays
<1>4. CASE call[c].fresh
  <2> DEFINE e == Append(RemoveFirst(index[p], k), k)
  <2>1. /\ index' = [index EXCEPT ![p] = Kept(e)] /\ Goto(c, "answered")
        /\ doomed' = [doomed EXCEPT ![p] = doomed[p] \cup (ToSet(e) \ ToSet(Kept(e)))]
    BY <1>4 DEF Admit
  <2>2. ReadsOn(c, "answered", call[c].ver)
    BY <1>1, <2>1, ReadGoto DEF Reading
  <2>3. index[p] \in Seq(Keys) /\ IsInjective(index[p])
    BY Typed
  <2>4. e \in Seq(Keys) /\ IsInjective(e) /\ ToSet(e) = ToSet(index[p]) \cup {k}
    BY <2>3, WithKeyLast
  <2> HIDE DEF e
  <2>5. /\ Kept(e) \in Seq(Keys) /\ IsInjective(Kept(e)) /\ ToSet(Kept(e)) \subseteq ToSet(e)
        /\ Len(Kept(e)) <= MaxEntries
    BY <2>4, KeptEntries
  <2> DEFINE s == Kept(e)
  <2> HIDE DEF s
  <2>6. /\ s \in Seq(Keys) /\ IsInjective(s) /\ ToSet(s) \subseteq ToSet(e) /\ Len(s) <= MaxEntries
        /\ index' = [index EXCEPT ![p] = s]
        /\ doomed' = [doomed EXCEPT ![p] = doomed[p] \cup (ToSet(e) \ ToSet(s))]
    BY <2>1, <2>5 DEF s
  <2>7. /\ IndexT' /\ index'[p] = s /\ \A q \in Procs \ {p} : index'[q] = index[q]
    BY <2>3, <2>6, Typed DEF IndexT
  <2>8. /\ Held(p)' = ToSet(s) /\ Held(p) = ToSet(index[p])
        /\ \A q \in Procs \ {p} : Held(q)' = Held(q)
    BY <2>7 DEF Held
  <2>9. Held(p) \subseteq Keys
    BY <2>3, Typed
  <2>10. /\ doomed' \in [Procs -> SUBSET Keys]
         /\ doomed'[p] = doomed[p] \cup (ToSet(e) \ ToSet(s))
         /\ \A q \in Procs \ {p} : doomed'[q] = doomed[q]
    <3>1. ToSet(e) \subseteq Keys
      BY <2>3, <2>4, <2>8, <2>9
    <3>2. doomed[p] \cup (ToSet(e) \ ToSet(s)) \in SUBSET Keys
      BY <3>1, <2>3, Typed
    <3> QED
      BY <3>2, <2>3, <2>6, Typed
  <2>11. Held(p)' \subseteq Held(p) \cup {k} /\ Held(p) \cup {k} \cup doomed[p] \subseteq Held(p)' \cup doomed'[p]
    BY <2>4, <2>6, <2>8, <2>10
  <2> QED
    BY <1>1, <1>2, <1>3, <1>4, <2>2, <2>7, <2>8, <2>10, <2>11
<1>5. CASE ~call[c].fresh
  <2>1. Goto(c, "unlink") /\ UNCHANGED <<index, doomed>>
    BY <1>5 DEF Admit
  <2>2. ReadsOn(c, "unlink", call[c].ver)
    BY <1>1, <2>1, ReadGoto DEF Reading
  <2>3. IndexT' /\ DiskStays
    BY <1>3, <2>1, IndexStays DEF DiskStays
  <2>4. doomed' \in [Procs -> SUBSET Keys]
    BY <2>1, Typed
  <2> QED
    BY <1>1, <1>2, <1>3, <1>5, <2>2, <2>3, <2>4
<1> QED
  BY <1>4, <1>5

LEMMA UnadmitEffect ==
    ASSUME TypeInv, NEW c \in Calls, Unadmit(c)
    PROVE  /\ call[c].pc = "unlink" /\ ReadsOn(c, "answered", call[c].ver)
           /\ file' = [file EXCEPT ![call[c].p][call[c].k] = None]
           /\ UNCHANGED <<told, doomed>> /\ \A q \in Procs : Held(q)' = Held(q)
           /\ StoreStays /\ BusStays /\ IndexT'
<1>1. call[c].pc = "unlink" /\ ReadsOn(c, "answered", call[c].ver)
  BY ReadGoto DEF Unadmit, At, Reading
<1>2. IndexT' /\ \A q \in Procs : Held(q)' = Held(q)
  BY IndexStays DEF Unadmit
<1> QED
  BY <1>1, <1>2 DEF Unadmit, StoreStays, BusStays
(* A write starts, is applied, and takes the old copy away.                *)
LEMMA StartWriteEffect ==
    ASSUME TypeInv, NEW c \in Calls, NEW p \in Procs, NEW k \in Keys,
           NEW op \in {"put", "remove"}, StartWrite(c, p, k, op)
    PROVE  /\ SameCalls(c) /\ call[c] = Idle /\ call'[c] \in WriteCall
           /\ call'[c].pc = op /\ call'[c].p = p /\ call'[c].k = k /\ call'[c].ver = None
           /\ StoreStays
<1> DEFINE x == [pc |-> op, p |-> p, k |-> k, ver |-> None]
<1>1. x \in WriteCall /\ x.pc = op /\ x.p = p /\ x.k = k /\ x.ver = None
  BY DEF WriteCall
<1>2. call' = [call EXCEPT ![c] = x]
  BY DEF StartWrite
<1> HIDE DEF x
<1>3. SameCalls(c) /\ call'[c] = x
  BY <1>1, <1>2, OneCall DEF CallType
<1>4. call[c] = Idle
  BY Typed, CallShape DEF StartWrite, At
<1> QED
  BY <1>1, <1>3, <1>4 DEF StartWrite, StoreStays

LEMMA ApplyEffect ==
    ASSUME TypeInv, NEW c \in Calls, NEW k \in Keys, k = call[c].k
    PROVE  /\ ApplyPut(c) =>
                /\ call[c].pc = "put" /\ WritesOn(c, "drop", latest[k] + 1)
                /\ latest[k] + 1 \in Version
                /\ latest' = [latest EXCEPT ![k] = latest[k] + 1]
                /\ derived' = [derived EXCEPT ![k] = latest[k] + 1]
                /\ UNCHANGED <<primary, returned>>
           /\ ApplyRemove(c) =>
                /\ call[c].pc = "remove" /\ WritesOn(c, "removePrimary", latest[k] + 1)
                /\ latest[k] + 1 \in Version
                /\ latest' = [latest EXCEPT ![k] = latest[k] + 1]
                /\ derived' = [derived EXCEPT ![k] = None]
                /\ UNCHANGED <<primary, returned>>
<1>1. latest[k] \in Version
  BY Typed
<1>2. latest[k] + 1 <= MaxVersion => latest[k] + 1 \in Version
  BY <1>1, Numbers DEF Version
<1>3. ASSUME ApplyPut(c)
      PROVE  /\ call[c].pc = "put" /\ WritesOn(c, "drop", latest[k] + 1)
             /\ latest[k] + 1 \in Version
             /\ latest' = [latest EXCEPT ![k] = latest[k] + 1]
             /\ derived' = [derived EXCEPT ![k] = latest[k] + 1]
             /\ UNCHANGED <<primary, returned>>
  <2>1. /\ call[c].pc = "put" /\ latest[k] + 1 \in Version
        /\ call' = [call EXCEPT ![c].pc = "drop", ![c].ver = latest[k] + 1]
    BY <1>2, <1>3 DEF ApplyPut, At
  <2> QED
    BY <2>1, <1>3, WriteApplied DEF WritePcs, ApplyPut
<1>4. ASSUME ApplyRemove(c)
      PROVE  /\ call[c].pc = "remove" /\ WritesOn(c, "removePrimary", latest[k] + 1)
             /\ latest[k] + 1 \in Version
             /\ latest' = [latest EXCEPT ![k] = latest[k] + 1]
             /\ derived' = [derived EXCEPT ![k] = None]
             /\ UNCHANGED <<primary, returned>>
  <2>1. /\ call[c].pc = "remove" /\ latest[k] + 1 \in Version
        /\ call' = [call EXCEPT ![c].pc = "removePrimary", ![c].ver = latest[k] + 1]
    BY <1>2, <1>4 DEF ApplyRemove, At
  <2> QED
    BY <2>1, <1>4, WriteApplied DEF WritePcs, ApplyRemove
<1> QED
  BY <1>3, <1>4

LEMMA RemovePrimaryEffect ==
    ASSUME TypeInv, NEW c \in Calls, RemovePrimary(c)
    PROVE  /\ call[c].pc = "removePrimary" /\ WritesOn(c, "drop", call[c].ver)
           /\ primary' = [primary EXCEPT ![call[c].k] = None]
           /\ UNCHANGED <<derived, latest, returned>>
BY WriteGoto DEF RemovePrimary, At, WritePcs

(* What a drop of k at p does to a call d.                                 *)
Dropped(p, k, d) ==
    /\ call[d].pc \notin Reading => call'[d] = call[d]
    /\ call[d].pc \in Reading =>
         /\ call'[d].pc = call[d].pc /\ call'[d].p = call[d].p /\ call'[d].k = call[d].k
         /\ call'[d].ver = call[d].ver /\ call'[d].floor = call[d].floor
         /\ call'[d].fresh => call[d].fresh /\ ~(call[d].p = p /\ call[d].k = k)

LEMMA DropWrittenEffect ==
    ASSUME TypeInv, NEW c \in Calls, DropWritten(c),
           NEW p \in Procs, p = call[c].p, NEW k \in Keys, k = call[c].k
    PROVE  /\ call[c].pc = "drop" /\ call' \in [Calls -> CallType]
           /\ call'[c].pc = "gone" /\ call'[c].p = p /\ call'[c].k = k
           /\ call'[c].ver = call[c].ver
           /\ \A d \in Calls \ {c} : Dropped(p, k, d)
           /\ \A q \in Procs : Held(q)' = IF q = p THEN Held(q) \ {k} ELSE Held(q)
           /\ UNCHANGED <<file, told, doomed>> /\ StoreStays /\ BusStays /\ IndexT'
<1> DEFINE x == [call[c] EXCEPT !.pc = "gone"]
           calls == [call EXCEPT ![c] = x]
<1> HIDE DEF x
<1>1. call[c].pc = "drop" /\ call[c] \in WriteCall
  BY Typed, CallShape DEF DropWritten, At, WritePcs
<1>2. /\ x \in WriteCall /\ x.pc = "gone" /\ x.p = p /\ x.k = k /\ x.ver = call[c].ver
      /\ x \in CallType /\ x.pc \notin Reading
  BY <1>1 DEF WriteCall, CallType, Reading, x
<1>3. Drop(p, k, calls)
  BY DEF DropWritten, x
<1>4. calls \in [Calls -> CallType] /\ calls[c] = x /\ \A d \in Calls \ {c} : calls[d] = call[d]
  BY <1>2, Typed
<1> HIDE DEF calls
<1>5. /\ index' \in [Procs -> Seq(Keys)]
      /\ \A q \in Procs : IsInjective(index'[q]) /\ Len(index'[q]) <= MaxEntries
      /\ \A q \in Procs : Held(q)' = IF q = p THEN Held(q) \ {k} ELSE Held(q)
      /\ call' \in [Calls -> CallType]
      /\ \A d \in Calls :
           /\ calls[d].pc \notin Reading => call'[d] = calls[d]
           /\ calls[d].pc \in Reading =>
                /\ call'[d].pc = calls[d].pc /\ call'[d].p = calls[d].p
                /\ call'[d].k = calls[d].k /\ call'[d].ver = calls[d].ver
                /\ call'[d].floor = calls[d].floor
                /\ call'[d].fresh => calls[d].fresh /\ ~(calls[d].p = p /\ calls[d].k = k)
  BY <1>3, <1>4, DropEffect
<1>6. call'[c] = x /\ \A d \in Calls \ {c} : Dropped(p, k, d)
  BY <1>2, <1>4, <1>5 DEF Dropped
<1> QED
  BY <1>1, <1>2, <1>5, <1>6 DEF DropWritten, StoreStays, BusStays, IndexT

LEMMA HeardEffect ==
    ASSUME TypeInv, NEW p \in Procs, NEW k \in Keys, Drop(p, k, call)
    PROVE  /\ call' \in [Calls -> CallType] /\ IndexT'
           /\ \A d \in Calls : Dropped(p, k, d)
           /\ \A q \in Procs : Held(q)' = IF q = p THEN Held(q) \ {k} ELSE Held(q)
<1>1. call \in [Calls -> CallType]
  BY Typed
<1>2. /\ index' \in [Procs -> Seq(Keys)]
      /\ \A q \in Procs : IsInjective(index'[q]) /\ Len(index'[q]) <= MaxEntries
      /\ \A q \in Procs : Held(q)' = IF q = p THEN Held(q) \ {k} ELSE Held(q)
      /\ call' \in [Calls -> CallType]
      /\ \A d \in Calls :
           /\ call[d].pc \notin Reading => call'[d] = call[d]
           /\ call[d].pc \in Reading =>
                /\ call'[d].pc = call[d].pc /\ call'[d].p = call[d].p
                /\ call'[d].k = call[d].k /\ call'[d].ver = call[d].ver
                /\ call'[d].floor = call[d].floor
                /\ call'[d].fresh => call[d].fresh /\ ~(call[d].p = p /\ call[d].k = k)
  BY <1>1, DropEffect
<1> QED
  BY <1>2 DEF Dropped, IndexT

Announced(p, k, v) ==
    [q \in Procs |-> IF q = p \/ deaf[q] THEN news[q] ELSE news[q] \cup {[k |-> k, ver |-> v]}]

Knowing(p, k, v) == [told EXCEPT ![p][k] = Larger(told[p][k], v)]

LEMMA ReturnEffect ==
    ASSUME TypeInv, NEW c \in Calls, NEW sent \in Publications, Return(c, sent),
           NEW p \in Procs, p = call[c].p, NEW k \in Keys, k = call[c].k,
           NEW v \in Version \cup {None}, v = call[c].ver
    PROVE  /\ call[c].pc = "gone" /\ Ends(c) /\ v \in Version /\ v <= latest[k]
           /\ file' = [file EXCEPT ![p][k] = None]
           /\ told' = Knowing(p, k, v)
           /\ returned' = [returned EXCEPT ![k] = Larger(returned[k], v)]
           /\ news' = Announced(p, k, v) \/ (May("publish") /\ UNCHANGED news)
           /\ \A q \in Procs : Held(q)' = Held(q)
           /\ UNCHANGED <<derived, primary, latest, doomed, deaf, sweep, faults>> /\ IndexT'
<1>1. call[c].pc = "gone" /\ Ends(c)
  BY Finishes DEF Return, At
<1>2. call[c].ver # None /\ call[c].ver <= latest[k] /\ call[c].ver \in Version \cup {None}
  <2>1. call[c] # Idle /\ call[c] \in CallType
    BY <1>1, Numbers, Typed
  <2> QED
    BY <2>1, <1>1, CallShape DEF TypeInv
<1>3. IndexT' /\ \A q \in Procs : Held(q)' = Held(q)
  BY IndexStays DEF Return
<1>4. news' = Announced(p, k, v) \/ (May("publish") /\ UNCHANGED news)
  <2>1. news' = [q \in Procs |-> IF q = p \/ deaf[q] \/ ~sent THEN news[q]
                                ELSE news[q] \cup {[k |-> k, ver |-> v]}]
    BY DEF Return
  <2>2. CASE sent
    BY <2>1, <2>2 DEF Announced
  <2>3. CASE ~sent
    <3>1. news' = [q \in Procs |-> news[q]]
      BY <2>1, <2>3
    <3>2. news' = news
      BY <3>1, Typed
    <3> QED
      BY <2>3, <3>2 DEF Publications
  <2> QED
    BY <2>2, <2>3
<1> QED
  BY <1>1, <1>2, <1>3, <1>4 DEF Return, Knowing

(* Calls of the process are gone; what the directory holds is indexed or   *)
(* doomed.                                                                 *)
LEMMA RestartEffect ==
    ASSUME TypeInv, NEW p \in Procs, Restart(p)
    PROVE  /\ call' \in [Calls -> CallType]
           /\ \A c \in Calls : \/ call'[c] = Idle
                               \/ call'[c] = call[c] /\ call[c].p # p
           /\ \A c \in Calls : call[c] # Idle /\ call[c].p # p => call'[c] = call[c]
           /\ UNCHANGED <<file, told>> /\ StoreStays /\ IndexT'
           /\ doomed' \in [Procs -> SUBSET Keys]
           /\ \A q \in Procs \ {p} : Held(q)' = Held(q) /\ doomed'[q] = doomed[q]
           /\ \A k \in Keys : k \in Held(p)' => file[p][k] # None
           /\ \A k \in Keys : file[p][k] # None => k \in Held(p)' \/ k \in doomed'[p]
           /\ news' = [news EXCEPT ![p] = {}] /\ deaf' = [deaf EXCEPT ![p] = FALSE]
           /\ sweep' = [sweep EXCEPT ![p] = {}] /\ faults < MaxFaults /\ faults' = faults + 1
<1>1. call' = [c \in Calls |-> IF ~At(c, "idle") /\ call[c].p = p THEN Idle ELSE call[c]]
  BY DEF Restart
<1>2. ASSUME NEW c \in Calls
      PROVE  /\ call'[c] \in CallType
             /\ call'[c] = Idle \/ (call'[c] = call[c] /\ call[c].p # p)
             /\ call[c] # Idle /\ call[c].p # p => call'[c] = call[c]
  <2>1. call[c] \in CallType /\ Idle \in CallType
    BY Typed, Numbers
  <2>2. call[c].pc = "idle" <=> call[c] = Idle
    BY <2>1, CallShape
  <2> QED
    BY <2>1, <2>2, <1>1 DEF At
<1>3. call' \in [Calls -> CallType]
  BY <1>1, <1>2
<1> DEFINE found == {k \in Keys : file[p][k] # None}
<1>4. PICK order \in SetToSeqs(found) :
        /\ index' = [index EXCEPT ![p] = Kept(order)]
        /\ doomed' = [doomed EXCEPT ![p] = found \ ToSet(Kept(order))]
  BY DEF Restart
<1> HIDE DEF found
<1>5. Cardinality(found) \in Nat /\ found \subseteq Keys
  <2>1. found \in SUBSET Keys /\ IsFiniteSet(Keys)
    BY StoreAssumption DEF found
  <2> QED
    BY <2>1, FS_Subset, FS_CardinalityType
<1>6. order \in Seq(Keys) /\ IsInjective(order) /\ ToSet(order) \subseteq found
  <2>1. /\ order \in [1..Cardinality(found) -> found] /\ DOMAIN order = 1..Cardinality(found)
        /\ \A i, j \in 1..Cardinality(found) : i # j => order[i] # order[j]
    BY DEF SetToSeqs
  <2>2. order \in Seq(found)
    BY <2>1, <1>5, SeqDef
  <2> QED
    BY <2>1, <2>2, <1>5 DEF IsInjective, ToSet
<1> DEFINE s == Kept(order)
<1>7. s \in Seq(Keys) /\ IsInjective(s) /\ ToSet(s) \subseteq ToSet(order) /\ Len(s) <= MaxEntries
  BY <1>6, KeptEntries
<1>8. index' = [index EXCEPT ![p] = s] /\ doomed' = [doomed EXCEPT ![p] = found \ ToSet(s)]
  BY <1>4
<1> HIDE DEF s
<1>9. IndexT' /\ index'[p] = s /\ \A q \in Procs \ {p} : index'[q] = index[q]
  BY <1>7, <1>8, Typed DEF IndexT
<1>10. Held(p)' = ToSet(s) /\ \A q \in Procs \ {p} : Held(q)' = Held(q)
  BY <1>9 DEF Held
<1>11. /\ doomed' \in [Procs -> SUBSET Keys] /\ doomed'[p] = found \ ToSet(s)
       /\ \A q \in Procs \ {p} : doomed'[q] = doomed[q]
  BY <1>5, <1>8, Typed
<1>12. /\ \A k \in Keys : k \in Held(p)' => file[p][k] # None
       /\ \A k \in Keys : file[p][k] # None => k \in Held(p)' \/ k \in doomed'[p]
  BY <1>6, <1>7, <1>10, <1>11 DEF found
<1> QED
  BY <1>2, <1>3, <1>9, <1>10, <1>11, <1>12 DEF Restart, StoreStays
-----------------------------------------------------------------------------
(* Types *)

Carries(c) ==
    /\ call[c] # Idle => call[c].ver <= latest[call[c].k]
    /\ call[c].pc \in {"removePrimary", "drop", "gone"} => call[c].ver # None
StoreT ==
    /\ derived \in [Keys -> Version \cup {None}] /\ primary \in [Keys -> {None, 1}]
    /\ latest \in [Keys -> Version] /\ returned \in [Keys -> Version]
    /\ \A k \in Keys : derived[k] <= latest[k] /\ returned[k] <= latest[k]
CallT == call \in [Calls -> CallType] /\ \A c \in Calls : Carries(c)
FilesT ==
    /\ file \in [Procs -> [Keys -> Version \cup {None}]]
    /\ told \in [Procs -> [Keys -> Version]]
    /\ doomed \in [Procs -> SUBSET Keys]
    /\ \A p \in Procs, k \in Keys : file[p][k] <= latest[k]
BusT ==
    /\ news \in [Procs -> SUBSET [k : Keys, ver : Version]]
    /\ deaf \in [Procs -> BOOLEAN]
    /\ sweep \in [Procs -> SUBSET Keys]
    /\ faults \in 0..MaxFaults

LitterT == litter \in [Procs -> Nat]

LEMMA TypeParts == TypeInv <=> StoreT /\ CallT /\ IndexT /\ FilesT /\ BusT /\ LitterT
<1>1. {None, 1} \subseteq Version \cup {None}
  BY StoreAssumption DEF Version, None
<1>2. TypeInv => StoreT /\ CallT /\ IndexT /\ FilesT /\ BusT /\ LitterT
  BY DEF TypeInv, CacheTypeOK, StoreTypeOK, StoreT, CallT, IndexT, FilesT, BusT, LitterT, Carries,
     CallType
<1>3. StoreT /\ CallT /\ IndexT /\ FilesT /\ BusT /\ LitterT => TypeInv
  BY <1>1 DEF TypeInv, CacheTypeOK, StoreTypeOK, StoreT, CallT, IndexT, FilesT, BusT, LitterT,
     Carries, CallType
<1> QED
  BY <1>2, <1>3

(* Only a restart leaves files behind, as many as calls it cut off.        *)
LEMMA LitterStep == TypeInv /\ [Next]_vars => LitterT'
<1> SUFFICES ASSUME TypeInv, [Next]_vars PROVE LitterT'
  OBVIOUS
<1>1. LitterT
  BY TypeParts
<1>2. ASSUME UNCHANGED litter PROVE LitterT'
  BY <1>1, <1>2 DEF LitterT
<1>3. ASSUME NEW c \in Calls,
             \/ \E p \in Procs, k \in Keys : Hit(c, p, k) \/ Miss(c, p, k)
             \/ Fetch(c) \/ Rename(c) \/ ServeOnly(c) \/ Admit(c) \/ Unadmit(c) \/ Answer(c)
             \/ Write(c) \/ DropWritten(c) \/ \E sent \in Publications : Return(c, sent)
      PROVE  UNCHANGED litter
  BY <1>3 DEF Hit, Miss, Fetch, Rename, ServeOnly, Admit, Unadmit, Answer, Write, DropWritten,
     Return, cacheVars
<1>4. ASSUME NEW p \in Procs,
             Hear(p) \/ Unlink(p) \/ LoseListener(p) \/ Reconnect(p) \/ Sweep(p)
      PROVE  UNCHANGED litter
  BY <1>4 DEF Hear, Unlink, LoseListener, Reconnect, Sweep
<1>5. ASSUME NEW p \in Procs, Restart(p) PROVE LitterT'
  <2>1. PICK cut \in SUBSET {c \in Calls : At(c, "fetched") /\ call[c].p = p} :
          litter' = [litter EXCEPT ![p] = litter[p] + Cardinality(cut)]
    BY <1>5 DEF Restart
  <2>2. Cardinality(cut) \in Nat
    <3>1. cut \in SUBSET Calls /\ IsFiniteSet(Calls)
      BY StoreAssumption
    <3> QED
      BY <3>1, FS_Subset, FS_CardinalityType
  <2> QED
    BY <2>1, <2>2, <1>1 DEF LitterT
<1>6. CASE UNCHANGED vars
  BY <1>2, <1>6 DEF vars, cacheVars
<1> QED
  BY <1>2, <1>3, <1>4, <1>5, <1>6 DEF Next

LEMMA TypeStep == TypeInv /\ [Next]_vars => TypeInv'
<1> SUFFICES ASSUME TypeInv, [Next]_vars PROVE TypeInv'
  OBVIOUS
<1>parts. StoreT /\ CallT /\ IndexT /\ FilesT /\ BusT
  BY TypeParts
<1>litter. LitterT'
  BY LitterStep
<1>calls. ASSUME NEW c \in Calls PROVE call[c] \in CallType /\ Carries(c)
  BY <1>parts DEF CallT
<1>goal. ASSUME StoreT', CallT', IndexT', FilesT', BusT' PROVE TypeInv'
  <2>1. (StoreT /\ CallT /\ IndexT /\ FilesT /\ BusT /\ LitterT <=> TypeInv)'
    BY TypeParts, PTL
  <2> QED
    BY <1>goal, <1>litter, <2>1
<1>nat. /\ \A k \in Keys : latest[k] \in Nat /\ derived[k] \in Nat /\ returned[k] \in Nat
        /\ \A p \in Procs, k \in Keys : file[p][k] \in Nat
        /\ \A k \in Keys : latest[k] >= 1
  BY Typed, StoreAssumption DEF Version, None
(* What stays as it was.                                                   *)
<1>store. ASSUME StoreStays PROVE StoreT'
  BY <1>store, <1>parts DEF StoreStays, StoreT
<1>files. ASSUME StoreStays, UNCHANGED <<file, told>>, doomed' \in [Procs -> SUBSET Keys]
          PROVE  FilesT'
  BY <1>files, <1>parts DEF StoreStays, FilesT
<1>disk. ASSUME StoreStays, DiskStays PROVE FilesT'
  BY <1>disk, <1>files, Typed DEF DiskStays
<1>bus. ASSUME BusStays PROVE BusT'
  BY <1>bus, <1>parts DEF BusStays, BusT
(* One call, wherever it goes.                                             *)
<1>one. ASSUME NEW c \in Calls, SameCalls(c), Carries(c)',
               \A k \in Keys : latest'[k] \in Nat /\ latest'[k] >= latest[k]
        PROVE  CallT'
  <2>1. ASSUME NEW d \in Calls \ {c} PROVE Carries(d)'
    <3>1. call'[d] = call[d]
      BY <1>one DEF SameCalls
    <3>2. CASE call[d] = Idle
      BY <3>1, <3>2, Numbers DEF Carries
    <3>3. CASE call[d] # Idle
      <4>1. call[d].k \in Keys /\ call[d].ver \in Nat
        BY <3>3, <1>calls, Numbers, CallShape
      <4>2. latest[call[d].k] \in Nat /\ latest'[call[d].k] \in Nat
            /\ latest'[call[d].k] >= latest[call[d].k]
        BY <4>1, <1>one, Typed, Numbers
      <4>3. call[d].ver <= latest'[call[d].k]
        BY <4>1, <4>2, <3>3, <1>calls DEF Carries
      <4> QED
        BY <3>1, <4>3, <1>calls DEF Carries
    <3> QED
      BY <3>2, <3>3
  <2> QED
    BY <2>1, <1>one DEF CallT, SameCalls
<1>still. ASSUME StoreStays PROVE \A k \in Keys : latest'[k] \in Nat /\ latest'[k] >= latest[k]
  BY <1>still, <1>nat DEF StoreStays
<1>ends. ASSUME NEW c \in Calls, Ends(c),
                \A k \in Keys : latest'[k] \in Nat /\ latest'[k] >= latest[k]
         PROVE  CallT'
  <2>1. SameCalls(c) /\ Carries(c)'
    BY <1>ends, Numbers DEF Ends, Carries
  <2> QED
    BY <2>1, <1>ends, <1>one
<1>reads. ASSUME NEW c \in Calls, NEW pc \in Reading, NEW v, ReadsOn(c, pc, v),
                 v <= latest'[call[c].k],
                 \A k \in Keys : latest'[k] \in Nat /\ latest'[k] >= latest[k]
          PROVE  CallT'
  <2>1. Carries(c)'
    BY <1>reads DEF ReadsOn, Carries, Reading
  <2> QED
    BY <2>1, <1>reads, <1>one DEF ReadsOn
<1>goesOn. ASSUME NEW c \in Calls, NEW pc \in Reading, ReadsOn(c, pc, call[c].ver), StoreStays
           PROVE  CallT'
  <2>1. call[c] # Idle /\ call[c].ver <= latest[call[c].k]
    BY <1>goesOn, <1>calls, Numbers DEF ReadsOn, ReadCall, Reading, Carries
  <2> QED
    BY <2>1, <1>goesOn, <1>still, <1>reads DEF StoreStays
<1>writes. ASSUME NEW c \in Calls, NEW pc, NEW v \in Version, WritesOn(c, pc, v),
                  v <= latest'[call[c].k],
                  \A k \in Keys : latest'[k] \in Nat /\ latest'[k] >= latest[k]
           PROVE  CallT'
  <2>1. Carries(c)'
    BY <1>writes, Numbers DEF WritesOn, Carries
  <2> QED
    BY <2>1, <1>writes, <1>one DEF WritesOn
<1>dropped. ASSUME NEW p \in Procs, NEW k \in Keys, StoreStays, NEW d \in Calls, Dropped(p, k, d)
            PROVE  Carries(d)'
  <2>1. CASE call[d].pc \in Reading
    BY <2>1, <1>dropped, <1>calls, Numbers DEF Dropped, Carries, StoreStays, Reading
  <2>2. CASE call[d].pc \notin Reading
    BY <2>2, <1>dropped, <1>calls DEF Dropped, Carries, StoreStays
  <2> QED
    BY <2>1, <2>2
(* The file of a key is replaced or taken away.                            *)
<1>refile. ASSUME NEW p \in Procs, NEW k \in Keys, NEW v \in Version \cup {None},
                  file' = [file EXCEPT ![p][k] = v], v <= latest[k], UNCHANGED latest,
                  told' \in [Procs -> [Keys -> Version]], doomed' \in [Procs -> SUBSET Keys]
           PROVE  FilesT'
  <2>1. file \in [Procs -> [Keys -> Version \cup {None}]]
    BY Typed
  <2>2. file' \in [Procs -> [Keys -> Version \cup {None}]]
    BY <2>1, <1>refile
  <2>3. ASSUME NEW q \in Procs, NEW j \in Keys PROVE file'[q][j] <= latest'[j]
    <3>1. file'[q][j] = IF q = p /\ j = k THEN v ELSE file[q][j]
      BY <2>1, <1>refile
    <3> QED
      BY <3>1, <1>refile, <1>parts DEF FilesT
  <2> QED
    BY <2>2, <2>3, <1>refile DEF FilesT
<1>none. \A k \in Keys : None <= latest[k]
  BY <1>nat, Numbers
<1>1. ASSUME NEW c \in Calls, NEW p \in Procs, NEW k \in Keys, Hit(c, p, k) PROVE TypeInv'
  <2>1. /\ SameCalls(c) /\ call'[c].pc = "answered" /\ call'[c].k = k /\ call'[c].ver = file[p][k]
        /\ StoreStays /\ DiskStays /\ BusStays /\ IndexT'
    BY <1>1, HitEffect
  <2>2. file[p][k] <= latest[k] /\ latest' = latest
    BY <2>1, <1>parts DEF FilesT, StoreStays
  <2>3. Carries(c)'
    BY <2>1, <2>2 DEF Carries
  <2> QED
    BY <2>1, <2>3, <1>one, <1>still, <1>store, <1>disk, <1>bus, <1>goal
<1>2. ASSUME NEW c \in Calls, NEW p \in Procs, NEW k \in Keys, Miss(c, p, k) PROVE TypeInv'
  <2>1. /\ SameCalls(c) /\ call'[c].pc = "lookup" /\ call'[c].k = k /\ call'[c].ver = None
        /\ StoreStays /\ DiskStays /\ BusStays /\ IndexT'
    BY <1>2, MissEffect
  <2>2. Carries(c)'
    BY <2>1, <1>none DEF Carries, StoreStays
  <2> QED
    BY <2>1, <2>2, <1>one, <1>still, <1>store, <1>disk, <1>bus, <1>goal
<1>3. ASSUME NEW c \in Calls, Fetch(c) PROVE TypeInv'
  <2>1. DiskStays /\ BusStays /\ IndexT'
    BY <1>3, CacheStays DEF Fetch
  <2>2. CASE Lookup(c)
    <3>1. /\ StoreStays
          /\ \/ derived[call[c].k] = None /\ ReadsOn(c, "fallback", None)
             \/ derived[call[c].k] # None /\ ReadsOn(c, "fetched", derived[call[c].k])
      BY <2>2, LookupEffect
    <3>2. call[c].k \in Keys
      BY <3>1 DEF ReadsOn, ReadCall
    <3>3. derived[call[c].k] <= latest'[call[c].k] /\ None <= latest'[call[c].k]
      BY <3>1, <3>2, <1>parts, <1>none DEF StoreStays, StoreT
    <3>4. CallT'
      BY <3>1, <3>3, <1>still, <1>reads DEF Reading
    <3> QED
      BY <3>1, <3>4, <2>1, <1>store, <1>disk, <1>bus, <1>goal
  <2>3. CASE FallBack(c)
    <3>1. /\ StoreStays
          /\ Ends(c) \/ ReadsOn(c, "heal", 1)
      BY <2>3, FallBackEffect
    <3>2. CASE Ends(c)
      BY <3>1, <3>2, <2>1, <1>ends, <1>still, <1>store, <1>disk, <1>bus, <1>goal
    <3>3. CASE ReadsOn(c, "heal", 1)
      <4>1. call[c].k \in Keys
        BY <3>3 DEF ReadsOn, ReadCall
      <4>2. 1 <= latest'[call[c].k]
        BY <4>1, <3>1, <1>nat DEF StoreStays
      <4>3. CallT'
        BY <3>1, <3>3, <4>2, <1>still, <1>reads DEF Reading
      <4> QED
        BY <3>1, <4>3, <2>1, <1>store, <1>disk, <1>bus, <1>goal
    <3> QED
      BY <3>1, <3>2, <3>3
  <2>4. CASE Heal(c)
    <3>1. /\ ReadsOn(c, "fetched", call[c].ver)
          /\ derived' = [derived EXCEPT ![call[c].k] = call[c].ver]
          /\ UNCHANGED <<primary, latest, returned>>
      BY <2>4, HealEffect
    <3>2. /\ call[c].k \in Keys /\ call[c].ver \in Version \cup {None} /\ call[c] # Idle
          /\ call[c].ver <= latest[call[c].k]
      BY <3>1, <1>calls, Numbers DEF ReadsOn, ReadCall, Reading, Carries
    <3>3. StoreT'
      BY <3>1, <3>2, <1>parts DEF StoreT
    <3>4. \A k \in Keys : latest'[k] \in Nat /\ latest'[k] >= latest[k]
      BY <3>1, <1>nat
    <3>5. CallT'
      BY <3>1, <3>2, <3>4, <1>reads DEF Reading
    <3>6. FilesT'
      BY <3>1, <2>1, <1>parts DEF FilesT, DiskStays
    <3> QED
      BY <3>3, <3>5, <3>6, <2>1, <1>bus, <1>goal
  <2>5. CASE SkipHeal(c)
    <3>1. ReadsOn(c, "fetched", call[c].ver) /\ StoreStays
      BY <2>5, PlainEffect
    <3>2. CallT'
      BY <3>1, <1>goesOn DEF Reading
    <3> QED
      BY <3>1, <3>2, <2>1, <1>store, <1>disk, <1>bus, <1>goal
  <2> QED
    BY <1>3, <2>2, <2>3, <2>4, <2>5 DEF Fetch
<1>4. ASSUME NEW c \in Calls, Rename(c) PROVE TypeInv'
  <2>1. /\ ReadsOn(c, "renamed", call[c].ver)
        /\ file' = [file EXCEPT ![call[c].p][call[c].k] = call[c].ver]
        /\ UNCHANGED <<told, doomed>> /\ StoreStays /\ BusStays /\ IndexT'
    BY <1>4, RenameEffect
  <2>2. /\ call[c].p \in Procs /\ call[c].k \in Keys /\ call[c].ver \in Version \cup {None}
        /\ call[c].ver <= latest[call[c].k]
    BY <2>1, <1>calls, Numbers DEF ReadsOn, ReadCall, Reading, Carries
  <2>3. CallT'
    BY <2>1, <1>goesOn DEF Reading
  <2>4. FilesT'
    <3>1. /\ told' \in [Procs -> [Keys -> Version]] /\ doomed' \in [Procs -> SUBSET Keys]
          /\ UNCHANGED latest
      BY <2>1, Typed DEF StoreStays
    <3> QED
      BY <3>1, <2>1, <2>2, <1>refile
  <2> QED
    BY <2>1, <2>3, <2>4, <1>store, <1>bus, <1>goal
<1>5. ASSUME NEW c \in Calls, ServeOnly(c) \/ Answer(c) PROVE TypeInv'
  <2>1. /\ ReadsOn(c, "answered", call[c].ver) \/ Ends(c)
        /\ StoreStays /\ DiskStays /\ BusStays /\ IndexT'
    BY <1>5, PlainEffect
  <2>2. CallT'
    BY <2>1, <1>goesOn, <1>ends, <1>still DEF Reading
  <2> QED
    BY <2>1, <2>2, <1>store, <1>disk, <1>bus, <1>goal
<1>6. ASSUME NEW c \in Calls, Admit(c) PROVE TypeInv'
  <2>1. call[c].p \in Procs /\ call[c].k \in Keys
    BY <1>6, <1>calls, CallShape DEF Admit, At, Reading, Idle
  <2>2. /\ UNCHANGED <<file, told>> /\ StoreStays /\ BusStays /\ IndexT'
        /\ doomed' \in [Procs -> SUBSET Keys]
        /\ ReadsOn(c, "answered", call[c].ver) \/ ReadsOn(c, "unlink", call[c].ver)
    BY <1>6, <2>1, AdmitEffect
  <2>3. CallT'
    BY <2>2, <1>goesOn DEF Reading
  <2> QED
    BY <2>2, <2>3, <1>store, <1>files, <1>bus, <1>goal
<1>7. ASSUME NEW c \in Calls, Unadmit(c) PROVE TypeInv'
  <2>1. /\ ReadsOn(c, "answered", call[c].ver)
        /\ file' = [file EXCEPT ![call[c].p][call[c].k] = None]
        /\ UNCHANGED <<told, doomed>> /\ StoreStays /\ BusStays /\ IndexT'
    BY <1>7, UnadmitEffect
  <2>2. call[c].p \in Procs /\ call[c].k \in Keys
    BY <2>1 DEF ReadsOn, ReadCall
  <2>3. CallT'
    BY <2>1, <1>goesOn DEF Reading
  <2>4. FilesT'
    <3>1. /\ told' \in [Procs -> [Keys -> Version]] /\ doomed' \in [Procs -> SUBSET Keys]
          /\ UNCHANGED latest
      BY <2>1, Typed DEF StoreStays
    <3> QED
      BY <3>1, <2>1, <2>2, <1>none, <1>refile
  <2> QED
    BY <2>1, <2>3, <2>4, <1>store, <1>bus, <1>goal
<1>8. ASSUME NEW c \in Calls, Write(c) PROVE TypeInv'
  <2>1. DiskStays /\ BusStays /\ IndexT'
    BY <1>8, CacheStays DEF Write
  <2>2. ASSUME NEW p \in Procs, NEW k \in Keys, NEW op \in {"put", "remove"},
               StartWrite(c, p, k, op)
        PROVE  TypeInv'
    <3>1. /\ SameCalls(c) /\ call'[c].pc = op /\ call'[c].k = k /\ call'[c].ver = None
          /\ StoreStays
      BY <2>2, StartWriteEffect
    <3>2. Carries(c)'
      BY <3>1, <1>none DEF Carries, StoreStays
    <3> QED
      BY <3>1, <3>2, <2>1, <1>one, <1>still, <1>store, <1>disk, <1>bus, <1>goal
  <2>3. ASSUME NEW k \in Keys, k = call[c].k, NEW pc, NEW v,
               WritesOn(c, pc, v), v = latest[k] + 1, v \in Version,
               latest' = [latest EXCEPT ![k] = v], UNCHANGED <<primary, returned>>,
               NEW w \in {None, v}, derived' = [derived EXCEPT ![k] = w]
        PROVE  TypeInv'
    <3>1. /\ \A j \in Keys : /\ latest[j] \in Nat /\ derived[j] \in Nat /\ returned[j] \in Nat
                             /\ derived[j] <= latest[j] /\ returned[j] <= latest[j]
          /\ v \in Nat /\ None = 0
      BY <2>3, <1>parts, Numbers DEF StoreT
    <3>2. \A j \in Keys : latest'[j] = IF j = k THEN v ELSE latest[j]
      BY <2>3, Typed
    <3>3. \A j \in Keys : latest'[j] \in Nat /\ latest'[j] >= latest[j]
      BY <3>1, <3>2, <2>3
    <3>4. CallT'
      BY <2>3, <3>1, <3>2, <3>3, <1>writes
    <3>5. StoreT'
      <4>1. \A j \in Keys : derived'[j] = IF j = k THEN w ELSE derived[j]
        BY <2>3, Typed
      <4>2. /\ derived' \in [Keys -> Version \cup {None}] /\ latest' \in [Keys -> Version]
            /\ primary' \in [Keys -> {None, 1}] /\ returned' \in [Keys -> Version]
        BY <2>3, Typed
      <4>3. \A j \in Keys : derived'[j] <= latest'[j] /\ returned'[j] <= latest'[j]
        BY <2>3, <3>1, <3>2, <4>1
      <4> QED
        BY <4>2, <4>3 DEF StoreT
    <3>6. FilesT'
      <4>1. ASSUME NEW q \in Procs, NEW j \in Keys PROVE file'[q][j] <= latest'[j]
        <5>1. file[q][j] \in Nat /\ file[q][j] <= latest[j] /\ file'[q][j] = file[q][j]
          BY <2>1, <1>parts, <1>nat DEF FilesT, DiskStays
        <5> QED
          BY <5>1, <3>1, <3>3
      <4> QED
        BY <4>1, <2>1, <1>parts DEF FilesT, DiskStays
    <3> QED
      BY <3>4, <3>5, <3>6, <2>1, <1>bus, <1>goal
  <2>4. CASE ApplyPut(c)
    <3>1. call[c].k \in Keys
      BY <2>4, <1>calls, CallShape DEF ApplyPut, At, WritePcs, Idle
    <3> QED
      BY <3>1, <2>3, <2>4, ApplyEffect
  <2>5. CASE ApplyRemove(c)
    <3>1. call[c].k \in Keys
      BY <2>5, <1>calls, CallShape DEF ApplyRemove, At, WritePcs, Idle
    <3> QED
      BY <3>1, <2>3, <2>5, ApplyEffect
  <2>6. CASE RemovePrimary(c)
    <3>1. /\ call[c].pc = "removePrimary" /\ WritesOn(c, "drop", call[c].ver)
          /\ primary' = [primary EXCEPT ![call[c].k] = None]
          /\ UNCHANGED <<derived, latest, returned>>
      BY <2>6, RemovePrimaryEffect
    <3>2. /\ call[c].k \in Keys /\ call[c].ver \in Version /\ call[c].ver <= latest[call[c].k]
      BY <3>1, <1>calls, Numbers DEF WritesOn, WriteCall, Carries
    <3>3. StoreT'
      BY <3>1, <1>parts DEF StoreT
    <3>4. CallT'
      <4>1. \A k \in Keys : latest'[k] \in Nat /\ latest'[k] >= latest[k]
        BY <3>1, <1>nat
      <4> QED
        BY <3>1, <3>2, <4>1, <1>writes
    <3>5. FilesT'
      BY <3>1, <2>1, <1>parts DEF FilesT, DiskStays
    <3> QED
      BY <3>3, <3>4, <3>5, <2>1, <1>bus, <1>goal
  <2> QED
    BY <1>8, <2>2, <2>4, <2>5, <2>6 DEF Write
<1>9. ASSUME NEW c \in Calls, DropWritten(c) PROVE TypeInv'
  <2>1. call[c].pc = "drop" /\ call[c].p \in Procs /\ call[c].k \in Keys /\ call[c] # Idle
    BY <1>9, <1>calls, CallShape DEF DropWritten, At, WritePcs, Idle
  <2>2. PICK p \in Procs, k \in Keys : p = call[c].p /\ k = call[c].k
    BY <2>1
  <2>3. /\ call' \in [Calls -> CallType] /\ call'[c].pc = "gone" /\ call'[c].k = k
        /\ call'[c].ver = call[c].ver /\ \A d \in Calls \ {c} : Dropped(p, k, d)
        /\ UNCHANGED <<file, told, doomed>> /\ StoreStays /\ BusStays /\ IndexT'
    BY <1>9, <2>2, DropWrittenEffect
  <2>4. Carries(c)'
    BY <2>1, <2>2, <2>3, <1>calls DEF Carries, StoreStays
  <2>5. CallT'
    BY <2>3, <2>4, <1>dropped DEF CallT
  <2>6. doomed' \in [Procs -> SUBSET Keys]
    BY <2>3, Typed
  <2> QED
    BY <2>3, <2>5, <2>6, <1>store, <1>files, <1>bus, <1>goal
<1>10. ASSUME NEW c \in Calls, NEW sent \in Publications, Return(c, sent) PROVE TypeInv'
  <2>1. call[c].p \in Procs /\ call[c].k \in Keys /\ call[c].ver \in Version \cup {None}
    BY <1>10, <1>calls, CallShape DEF Return, At, WritePcs, Idle
  <2>2. PICK p \in Procs, k \in Keys, v \in Version \cup {None} :
          p = call[c].p /\ k = call[c].k /\ v = call[c].ver
    BY <2>1
  <2>3. /\ Ends(c) /\ v \in Version /\ v <= latest[k]
        /\ file' = [file EXCEPT ![p][k] = None]
        /\ told' = Knowing(p, k, v)
        /\ returned' = [returned EXCEPT ![k] = Larger(returned[k], v)]
        /\ news' = Announced(p, k, v) \/ UNCHANGED news
        /\ UNCHANGED <<derived, primary, latest, doomed, deaf, sweep, faults>> /\ IndexT'
    BY <1>10, <2>2, ReturnEffect
  <2>4. StoreT'
    <3>1. Larger(returned[k], v) \in Version /\ Larger(returned[k], v) <= latest[k]
      BY <2>3, <1>parts, Typed DEF Larger, StoreT
    <3> HIDE DEF Larger
    <3> QED
      BY <3>1, <2>3, <1>parts DEF StoreT
  <2>5. CallT'
    <3>1. \A j \in Keys : latest'[j] \in Nat /\ latest'[j] >= latest[j]
      BY <2>3, <1>nat
    <3> QED
      BY <3>1, <2>3, <1>ends
  <2>6. FilesT'
    <3>1. Larger(told[p][k], v) \in Version
      BY <2>3, Typed DEF Larger
    <3> DEFINE w == Larger(told[p][k], v)
    <3> HIDE DEF w
    <3>2. told' \in [Procs -> [Keys -> Version]]
      <4>1. told' = [told EXCEPT ![p][k] = w] /\ w \in Version
        BY <3>1, <2>3 DEF w, Knowing
      <4> QED
        BY <4>1, Typed
    <3>3. doomed' \in [Procs -> SUBSET Keys]
      BY <2>3, Typed
    <3> QED
      BY <3>2, <3>3, <2>3, <1>none, <1>refile
  <2>7. BusT'
    <3>1. [k |-> k, ver |-> v] \in [k : Keys, ver : Version]
      BY <2>3
    <3> DEFINE n == [k |-> k, ver |-> v]
    <3> HIDE DEF n
    <3>2. ASSUME news' = [q \in Procs |-> IF q = p \/ deaf[q] THEN news[q] ELSE news[q] \cup {n}]
          PROVE  news' \in [Procs -> SUBSET [k : Keys, ver : Version]]
      <4>1. \A q \in Procs : news[q] \cup {n} \in SUBSET [k : Keys, ver : Version]
        BY <3>1, Typed DEF n
      <4> QED
        BY <3>2, <4>1, Typed
    <3>3. news' \in [Procs -> SUBSET [k : Keys, ver : Version]]
      BY <3>2, <2>3, Typed DEF n, Announced
    <3> QED
      BY <3>3, <2>3, <1>parts DEF BusT
  <2> QED
    BY <2>3, <2>4, <2>5, <2>6, <2>7, <1>goal
<1>11. ASSUME NEW p \in Procs, Hear(p) PROVE TypeInv'
  <2>1. PICK n \in news[p] :
          /\ Drop(p, n.k, call)
          /\ doomed' = [doomed EXCEPT ![p] = doomed[p] \cup {n.k}]
          /\ news' = [news EXCEPT ![p] = news[p] \ {n}]
          /\ told' = [told EXCEPT ![p][n.k] = Larger(told[p][n.k], n.ver)]
    BY <1>11 DEF Hear
  <2>2. n.k \in Keys /\ n.ver \in Version
    BY Typed
  <2>3. call' \in [Calls -> CallType] /\ IndexT' /\ \A d \in Calls : Dropped(p, n.k, d)
    BY <2>1, <2>2, HeardEffect
  <2>4. StoreStays /\ UNCHANGED <<file, deaf, sweep, faults>>
    BY <1>11 DEF Hear, StoreStays
  <2>5. CallT'
    BY <2>2, <2>3, <2>4, <1>dropped DEF CallT
  <2>6. FilesT'
    <3>1. Larger(told[p][n.k], n.ver) \in Version
      BY <2>2, Typed DEF Larger
    <3>2. told' \in [Procs -> [Keys -> Version]]
      BY <3>1, <2>1, <2>2, Typed
    <3>3. doomed' \in [Procs -> SUBSET Keys]
      BY <2>1, <2>2, Typed
    <3> QED
      BY <3>2, <3>3, <2>4, <1>parts DEF FilesT, StoreStays
  <2>7. BusT'
    <3>1. news' \in [Procs -> SUBSET [k : Keys, ver : Version]]
      BY <2>1, Typed
    <3> QED
      BY <3>1, <2>4, <1>parts DEF BusT
  <2> QED
    BY <2>3, <2>4, <2>5, <2>6, <2>7, <1>store, <1>goal
<1>12. ASSUME NEW p \in Procs, Unlink(p) PROVE TypeInv'
  <2>1. PICK k \in doomed[p] : /\ doomed' = [doomed EXCEPT ![p] = doomed[p] \ {k}]
                               /\ file' = [file EXCEPT ![p][k] = None]
    BY <1>12 DEF Unlink
  <2>2. StoreStays /\ UNCHANGED <<call, told>> /\ BusStays /\ IndexT' /\ k \in Keys
    BY <1>12, IndexStays, Typed DEF Unlink, StoreStays, BusStays, storeVars
  <2>3. CallT'
    BY <2>2, <1>parts DEF CallT, Carries, StoreStays
  <2>4. FilesT'
    <3>1. /\ told' \in [Procs -> [Keys -> Version]] /\ doomed' \in [Procs -> SUBSET Keys]
          /\ UNCHANGED latest
      BY <2>1, <2>2, Typed DEF StoreStays
    <3> QED
      BY <3>1, <2>1, <2>2, <1>none, <1>refile
  <2> QED
    BY <2>2, <2>3, <2>4, <1>store, <1>bus, <1>goal
<1>13. ASSUME NEW p \in Procs, LoseListener(p) \/ Reconnect(p) PROVE TypeInv'
  <2>1. StoreStays /\ UNCHANGED <<call, file, told, doomed>> /\ IndexT'
    BY <1>13, IndexStays DEF LoseListener, Reconnect, StoreStays, storeVars
  <2>2. CallT' /\ FilesT'
    BY <2>1, <1>parts DEF CallT, Carries, FilesT, StoreStays
  <2>3. BusT'
    <3>1. CASE LoseListener(p)
      <4>1. faults' \in 0..MaxFaults
        BY <3>1, Typed, CacheAssumption DEF LoseListener
      <4> QED
        BY <4>1, <3>1, <1>parts DEF LoseListener, BusT
    <3>2. CASE Reconnect(p)
      <4>1. sweep' \in [Procs -> SUBSET Keys]
        BY <3>2, Typed DEF Reconnect
      <4> QED
        BY <4>1, <3>2, <1>parts DEF Reconnect, BusT
    <3> QED
      BY <1>13, <3>1, <3>2
  <2> QED
    BY <2>1, <2>2, <2>3, <1>store, <1>goal
<1>14. ASSUME NEW p \in Procs, Sweep(p) PROVE TypeInv'
  <2>1. PICK k \in sweep[p] : /\ Drop(p, k, call)
                              /\ doomed' = [doomed EXCEPT ![p] = doomed[p] \cup {k}]
                              /\ sweep' = [sweep EXCEPT ![p] = sweep[p] \ {k}]
    BY <1>14 DEF Sweep
  <2>2. k \in Keys
    BY Typed
  <2>3. call' \in [Calls -> CallType] /\ IndexT' /\ \A d \in Calls : Dropped(p, k, d)
    BY <2>1, <2>2, HeardEffect
  <2>4. StoreStays /\ UNCHANGED <<file, told, news, deaf, faults>>
    BY <1>14 DEF Sweep, StoreStays
  <2>5. CallT'
    BY <2>2, <2>3, <2>4, <1>dropped DEF CallT
  <2>6. doomed' \in [Procs -> SUBSET Keys] /\ sweep' \in [Procs -> SUBSET Keys]
    BY <2>1, <2>2, Typed
  <2> QED
    BY <2>3, <2>4, <2>5, <2>6, <1>parts, <1>store, <1>files, <1>goal DEF BusT
<1>15. ASSUME NEW p \in Procs, Restart(p) PROVE TypeInv'
  <2>1. /\ call' \in [Calls -> CallType]
        /\ \A c \in Calls : call'[c] = Idle \/ call'[c] = call[c]
        /\ UNCHANGED <<file, told>> /\ StoreStays /\ IndexT'
        /\ doomed' \in [Procs -> SUBSET Keys]
        /\ news' = [news EXCEPT ![p] = {}] /\ deaf' = [deaf EXCEPT ![p] = FALSE]
        /\ sweep' = [sweep EXCEPT ![p] = {}] /\ faults < MaxFaults /\ faults' = faults + 1
    BY <1>15, RestartEffect
  <2>2. CallT'
    <3>1. ASSUME NEW c \in Calls PROVE Carries(c)'
      BY <2>1, <1>calls, Numbers DEF Carries, StoreStays
    <3> QED
      BY <3>1, <2>1 DEF CallT
  <2>3. BusT'
    <3>1. faults' \in 0..MaxFaults
      BY <2>1, Typed, CacheAssumption
    <3> QED
      BY <3>1, <2>1, <1>parts DEF BusT
  <2> QED
    BY <2>1, <2>2, <2>3, <1>store, <1>files, <1>goal
<1>16. CASE UNCHANGED vars
  <2>1. StoreStays /\ UNCHANGED call /\ UNCHANGED cacheVars
    BY <1>16 DEF vars, storeVars, StoreStays
  <2>2. CallT'
    BY <2>1, <1>parts DEF CallT, Carries, StoreStays
  <2> QED
    BY <2>1, <2>2, CacheStays, <1>store, <1>disk, <1>bus, <1>goal
<1> QED
  BY <1>1, <1>2, <1>3, <1>4, <1>5, <1>6, <1>7, <1>8, <1>9, <1>10, <1>11, <1>12, <1>13, <1>14,
     <1>15, <1>16 DEF Next

LEMMA TypeHolds == Spec => []TypeInv
<1>1. CacheInit => TypeInv
  <2> SUFFICES ASSUME CacheInit PROVE TypeInv
    OBVIOUS
  <2>1. /\ call = [c \in Calls |-> Idle] /\ latest = [k \in Keys |-> 1]
        /\ returned = [k \in Keys |-> 1] /\ Idle \in CallType
    BY Numbers DEF CacheInit, StoreInit
  <2>2. PICK old \in SUBSET Keys :
          /\ derived = [k \in Keys |-> IF k \in old THEN None ELSE 1]
          /\ primary = [k \in Keys |-> IF k \in old THEN 1 ELSE None]
    BY DEF CacheInit, StoreInit
  <2>3. StoreT
    BY <2>1, <2>2, Numbers DEF StoreT
  <2>4. CallT
    BY <2>1, Numbers DEF CallT, Carries, Idle
  <2>5. IndexT
    <3>1. << >> \in Seq(Keys) /\ IsInjective(<< >>) /\ Len(<< >>) <= MaxEntries
      BY CacheAssumption, EmptySeq DEF IsInjective
    <3>2. index = [p \in Procs |-> << >>]
      BY DEF CacheInit
    <3> QED
      BY <3>1, <3>2 DEF IndexT
  <2>6. FilesT
    BY <2>1, Numbers DEF CacheInit, FilesT
  <2>7. BusT
    BY CacheAssumption DEF CacheInit, BusT
  <2>8. LitterT
    BY DEF CacheInit, LitterT
  <2> QED
    BY <2>3, <2>4, <2>5, <2>6, <2>7, <2>8, TypeParts
<1> QED
  BY <1>1, TypeStep, PTL DEF Spec

(* The types of the state, of the index and of what calls carry (index of  *)
(* blobcache.ts and the budget evict enforces included).                   *)
THEOREM CacheTypeCorrect == Spec => []CacheTypeOK
<1>1. TypeInv => CacheTypeOK
  BY DEF TypeInv
<1> QED
  BY <1>1, TypeHolds, PTL

-----------------------------------------------------------------------------
(* The directory holds nothing the index does not count *)

LEMMA StrayStep == TypeInv /\ StrayInv /\ [Next]_vars => StrayInv'
<1> SUFFICES ASSUME TypeInv, StrayInv, [Next]_vars PROVE StrayInv'
  OBVIOUS
<1> DEFINE AtDisk == {"renamed", "unlink", "gone"}
<1>calls. ASSUME NEW c \in Calls PROVE call[c] \in CallType
  BY Typed
<1>grows. ASSUME \A q \in Procs, j \in Keys : file'[q][j] # None => file[q][j] # None,
                 \A q \in Procs : Held(q) \subseteq Held(q)' /\ doomed[q] \subseteq doomed'[q],
                 \A d \in Calls : call[d].pc \in AtDisk =>
                   /\ call'[d].pc \in AtDisk
                   /\ call'[d].p = call[d].p /\ call'[d].k = call[d].k
          PROVE  StrayInv'
  BY <1>grows DEF StrayInv, Handling
(* A call the disk knows nothing of.                                       *)
<1>quiet. ASSUME NEW c \in Calls, SameCalls(c), call[c].pc \notin AtDisk, DiskStays
          PROVE  StrayInv'
  BY <1>quiet, <1>grows DEF SameCalls, DiskStays
(* A file is taken away by the call that has it in hand.                   *)
<1>gone. ASSUME NEW c \in Calls, SameCalls(c), NEW p \in Procs, NEW k \in Keys,
                call[c].p = p, call[c].k = k, file' = [file EXCEPT ![p][k] = None],
                UNCHANGED doomed, \A q \in Procs : Held(q)' = Held(q)
         PROVE  StrayInv'
  <2>1. \A q \in Procs, j \in Keys : file'[q][j] = IF q = p /\ j = k THEN None ELSE file[q][j]
    BY <1>gone, Typed
  <2>2. ASSUME NEW q \in Procs, NEW j \in Keys, file'[q][j] # None
        PROVE  j \in Held(q)' \/ j \in doomed'[q] \/ Handling(q, j)'
    <3>1. file[q][j] # None /\ ~(q = p /\ j = k)
      BY <2>1, <2>2
    <3>2. j \in Held(q) \/ j \in doomed[q] \/ Handling(q, j)
      BY <3>1 DEF StrayInv
    <3> QED
      BY <3>1, <3>2, <1>gone DEF Handling, SameCalls
  <2> QED
    BY <2>2 DEF StrayInv
(* A key is dropped, and doomed or in a call's hand.                       *)
<1>dropped. ASSUME NEW p \in Procs, NEW k \in Keys, NEW S \in SUBSET Calls,
                   \A d \in Calls \ S : Dropped(p, k, d), \A d \in S : call[d].pc \notin AtDisk,
                   \A q \in Procs : Held(q)' = IF q = p THEN Held(q) \ {k} ELSE Held(q),
                   UNCHANGED file, \A q \in Procs : doomed[q] \subseteq doomed'[q],
                   k \in doomed'[p] \/ Handling(p, k)'
            PROVE  StrayInv'
  <2>1. ASSUME NEW q \in Procs, NEW j \in Keys, file'[q][j] # None
        PROVE  j \in Held(q)' \/ j \in doomed'[q] \/ Handling(q, j)'
    <3>1. j \in Held(q) \/ j \in doomed[q] \/ Handling(q, j)
      BY <1>dropped, <2>1 DEF StrayInv
    <3>2. CASE Handling(q, j)
      <4>1. PICK d \in Calls : call[d].pc \in AtDisk /\ call[d].p = q /\ call[d].k = j
        BY <3>2 DEF Handling
      <4>2. call'[d].pc \in AtDisk /\ call'[d].p = q /\ call'[d].k = j
        BY <4>1, <1>dropped DEF Dropped
      <4> QED
        BY <4>2 DEF Handling
    <3>3. CASE j \in Held(q) \/ j \in doomed[q]
      BY <3>3, <1>dropped
    <3> QED
      BY <3>1, <3>2, <3>3
  <2> QED
    BY <2>1 DEF StrayInv
<1>1. ASSUME NEW c \in Calls, NEW p \in Procs, NEW k \in Keys, Hit(c, p, k) \/ Miss(c, p, k)
      PROVE  StrayInv'
  <2>1. SameCalls(c) /\ call[c] = Idle /\ DiskStays
    BY <1>1, HitEffect, MissEffect
  <2> QED
    BY <2>1, <1>quiet, Numbers
<1>2. ASSUME NEW c \in Calls, Fetch(c) PROVE StrayInv'
  <2>1. DiskStays
    BY <1>2, CacheStays DEF Fetch
  <2>2. SameCalls(c) /\ call[c].pc \in {"lookup", "fallback", "heal"}
    BY <1>2, LookupEffect, FallBackEffect, HealEffect, PlainEffect DEF Fetch, ReadsOn, Ends
  <2> QED
    BY <2>1, <2>2, <1>quiet
<1>3. ASSUME NEW c \in Calls, Rename(c) PROVE StrayInv'
  <2>1. /\ call[c].pc = "fetched" /\ ReadsOn(c, "renamed", call[c].ver)
        /\ file' = [file EXCEPT ![call[c].p][call[c].k] = call[c].ver]
        /\ UNCHANGED doomed /\ \A q \in Procs : Held(q)' = Held(q)
    BY <1>3, RenameEffect
  <2>2. PICK p \in Procs, k \in Keys : p = call[c].p /\ k = call[c].k
    BY <2>1 DEF ReadsOn, ReadCall
  <2>3. \A q \in Procs, j \in Keys : ~(q = p /\ j = k) => file'[q][j] = file[q][j]
    BY <2>1, <2>2, Typed
  <2>4. Handling(p, k)'
    BY <2>1, <2>2 DEF ReadsOn, Handling
  <2>5. ASSUME NEW q \in Procs, NEW j \in Keys, file'[q][j] # None, ~(q = p /\ j = k)
        PROVE  j \in Held(q)' \/ j \in doomed'[q] \/ Handling(q, j)'
    BY <2>1, <2>3, <2>5 DEF StrayInv, Handling, ReadsOn, SameCalls
  <2> QED
    BY <2>4, <2>5 DEF StrayInv
<1>4. ASSUME NEW c \in Calls, ServeOnly(c) \/ Answer(c) PROVE StrayInv'
  <2>1. SameCalls(c) /\ call[c].pc \in {"fetched", "answered"} /\ DiskStays
    BY <1>4, PlainEffect DEF ReadsOn, Ends
  <2> QED
    BY <2>1, <1>quiet
<1>5. ASSUME NEW c \in Calls, Admit(c) PROVE StrayInv'
  <2>1. call[c].pc = "renamed" /\ call[c].p \in Procs /\ call[c].k \in Keys
    BY <1>5, <1>calls, CallShape DEF Admit, At, Reading, Idle
  <2>2. PICK p \in Procs, k \in Keys : p = call[c].p /\ k = call[c].k
    BY <2>1
  <2>3. /\ UNCHANGED file
        /\ \/ /\ ReadsOn(c, "answered", call[c].ver)
              /\ \A q \in Procs \ {p} : Held(q)' = Held(q) /\ doomed'[q] = doomed[q]
              /\ Held(p) \cup {k} \cup doomed[p] \subseteq Held(p)' \cup doomed'[p]
           \/ ReadsOn(c, "unlink", call[c].ver) /\ DiskStays
    BY <1>5, <2>2, AdmitEffect
  <2>4. CASE /\ ReadsOn(c, "answered", call[c].ver)
             /\ \A q \in Procs \ {p} : Held(q)' = Held(q) /\ doomed'[q] = doomed[q]
             /\ Held(p) \cup {k} \cup doomed[p] \subseteq Held(p)' \cup doomed'[p]
    <3>1. ASSUME NEW q \in Procs, NEW j \in Keys, file'[q][j] # None
          PROVE  j \in Held(q)' \/ j \in doomed'[q] \/ Handling(q, j)'
      <4>1. j \in Held(q) \/ j \in doomed[q] \/ Handling(q, j)
        BY <2>3, <3>1 DEF StrayInv
      <4>2. CASE Handling(q, j) /\ ~(q = p /\ j = k)
        BY <4>2, <2>2, <2>4 DEF Handling, ReadsOn, SameCalls
      <4>3. CASE j \in Held(q) \/ j \in doomed[q] \/ (q = p /\ j = k)
        BY <4>3, <2>4
      <4> QED
        BY <4>1, <4>2, <4>3
    <3> QED
      BY <3>1 DEF StrayInv
  <2>5. CASE ReadsOn(c, "unlink", call[c].ver) /\ DiskStays
    BY <2>5, <1>grows DEF ReadsOn, SameCalls, DiskStays
  <2> QED
    BY <2>3, <2>4, <2>5
<1>6. ASSUME NEW c \in Calls, Unadmit(c) PROVE StrayInv'
  <2>1. /\ ReadsOn(c, "answered", call[c].ver)
        /\ file' = [file EXCEPT ![call[c].p][call[c].k] = None]
        /\ UNCHANGED doomed /\ \A q \in Procs : Held(q)' = Held(q)
    BY <1>6, UnadmitEffect
  <2>2. PICK p \in Procs, k \in Keys : call[c].p = p /\ call[c].k = k
    BY <2>1 DEF ReadsOn, ReadCall
  <2>3. SameCalls(c) /\ file' = [file EXCEPT ![p][k] = None]
    BY <2>1, <2>2 DEF ReadsOn
  <2> QED
    BY <2>1, <2>2, <2>3, <1>gone
<1>7. ASSUME NEW c \in Calls, Write(c) PROVE StrayInv'
  <2>1. DiskStays
    BY <1>7, CacheStays DEF Write
  <2>2. SameCalls(c) /\ call[c].pc \in {"idle", "put", "remove", "removePrimary"}
    <3>1. CASE \E p \in Procs, k \in Keys, op \in {"put", "remove"} : StartWrite(c, p, k, op)
      BY <3>1, StartWriteEffect, Numbers
    <3>2. CASE ApplyPut(c) \/ ApplyRemove(c)
      <4>1. call[c].k \in Keys
        BY <3>2, <1>calls, CallShape DEF ApplyPut, ApplyRemove, At, WritePcs, Idle
      <4> QED
        BY <4>1, <3>2, ApplyEffect DEF WritesOn
    <3>3. CASE RemovePrimary(c)
      BY <3>3, RemovePrimaryEffect DEF WritesOn
    <3> QED
      BY <1>7, <3>1, <3>2, <3>3 DEF Write
  <2> QED
    BY <2>1, <2>2, <1>quiet
<1>8. ASSUME NEW c \in Calls, DropWritten(c) PROVE StrayInv'
  <2>1. call[c].p \in Procs /\ call[c].k \in Keys
    BY <1>8, <1>calls, CallShape DEF DropWritten, At, WritePcs, Idle
  <2>2. PICK p \in Procs, k \in Keys : p = call[c].p /\ k = call[c].k
    BY <2>1
  <2>3. /\ call[c].pc = "drop" /\ call'[c].pc = "gone" /\ call'[c].p = p /\ call'[c].k = k
        /\ \A d \in Calls \ {c} : Dropped(p, k, d)
        /\ \A q \in Procs : Held(q)' = IF q = p THEN Held(q) \ {k} ELSE Held(q)
        /\ UNCHANGED <<file, doomed>>
    BY <1>8, <2>2, DropWrittenEffect
  <2>4. Handling(p, k)'
    BY <2>3 DEF Handling
  <2>5. {c} \in SUBSET Calls /\ \A d \in {c} : call[d].pc \notin AtDisk
    BY <2>3
  <2> QED
    BY <2>3, <2>4, <2>5, <1>dropped
<1>9. ASSUME NEW c \in Calls, NEW sent \in Publications, Return(c, sent) PROVE StrayInv'
  <2>1. call[c].p \in Procs /\ call[c].k \in Keys /\ call[c].ver \in Version \cup {None}
    BY <1>9, <1>calls, CallShape DEF Return, At, WritePcs, Idle
  <2>2. PICK p \in Procs, k \in Keys, v \in Version \cup {None} :
          p = call[c].p /\ k = call[c].k /\ v = call[c].ver
    BY <2>1
  <2>3. /\ Ends(c) /\ file' = [file EXCEPT ![p][k] = None] /\ UNCHANGED doomed
        /\ \A q \in Procs : Held(q)' = Held(q)
    BY <1>9, <2>2, Finishes, IndexStays DEF Return
  <2> QED
    BY <2>2, <2>3, <1>gone DEF Ends
<1>10. ASSUME NEW p \in Procs, Hear(p) PROVE StrayInv'
  <2>1. PICK n \in news[p] : /\ Drop(p, n.k, call) /\ UNCHANGED file
                             /\ doomed' = [doomed EXCEPT ![p] = doomed[p] \cup {n.k}]
    BY <1>10 DEF Hear
  <2>2. n.k \in Keys
    BY Typed
  <2>3. /\ \A d \in Calls : Dropped(p, n.k, d)
        /\ \A q \in Procs : Held(q)' = IF q = p THEN Held(q) \ {n.k} ELSE Held(q)
    BY <2>1, <2>2, HeardEffect
  <2>4. n.k \in doomed'[p] /\ \A q \in Procs : doomed[q] \subseteq doomed'[q]
    BY <2>1, Typed
  <2>5. /\ {} \in SUBSET Calls /\ \A d \in Calls \ {} : Dropped(p, n.k, d)
        /\ \A d \in {} : call[d].pc \notin AtDisk
    BY <2>3
  <2> QED
    BY <2>1, <2>2, <2>3, <2>4, <2>5, <1>dropped
<1>11. ASSUME NEW p \in Procs, Sweep(p) PROVE StrayInv'
  <2>1. PICK k \in sweep[p] : /\ Drop(p, k, call) /\ UNCHANGED file
                              /\ doomed' = [doomed EXCEPT ![p] = doomed[p] \cup {k}]
    BY <1>11 DEF Sweep
  <2>2. k \in Keys
    BY Typed
  <2>3. /\ \A d \in Calls : Dropped(p, k, d)
        /\ \A q \in Procs : Held(q)' = IF q = p THEN Held(q) \ {k} ELSE Held(q)
    BY <2>1, <2>2, HeardEffect
  <2>4. k \in doomed'[p] /\ \A q \in Procs : doomed[q] \subseteq doomed'[q]
    BY <2>1, Typed
  <2>5. /\ {} \in SUBSET Calls /\ \A d \in Calls \ {} : Dropped(p, k, d)
        /\ \A d \in {} : call[d].pc \notin AtDisk
    BY <2>3
  <2> QED
    BY <2>1, <2>2, <2>3, <2>4, <2>5, <1>dropped
<1>12. ASSUME NEW p \in Procs, Unlink(p) PROVE StrayInv'
  <2>1. PICK k \in doomed[p] : /\ doomed' = [doomed EXCEPT ![p] = doomed[p] \ {k}]
                               /\ file' = [file EXCEPT ![p][k] = None]
    BY <1>12 DEF Unlink
  <2>2. UNCHANGED <<call, index>> /\ k \in Keys
    BY <1>12, Typed DEF Unlink, storeVars
  <2>3. \A q \in Procs : Held(q)' = Held(q)
    BY <2>2, IndexStays
  <2>4. /\ \A q \in Procs, j \in Keys : file'[q][j] = IF q = p /\ j = k THEN None ELSE file[q][j]
        /\ \A q \in Procs : doomed'[q] = IF q = p THEN doomed[q] \ {k} ELSE doomed[q]
    BY <2>1, <2>2, Typed
  <2>5. ASSUME NEW q \in Procs, NEW j \in Keys, file'[q][j] # None
        PROVE  j \in Held(q)' \/ j \in doomed'[q] \/ Handling(q, j)'
    <3>1. file[q][j] # None /\ ~(q = p /\ j = k)
      BY <2>4, <2>5
    <3>2. j \in Held(q) \/ j \in doomed[q] \/ Handling(q, j)
      BY <3>1 DEF StrayInv
    <3>3. CASE Handling(q, j)
      BY <2>2, <3>3 DEF Handling
    <3>4. CASE j \in Held(q) \/ j \in doomed[q]
      BY <2>3, <2>4, <3>1, <3>4
    <3> QED
      BY <3>2, <3>3, <3>4
  <2> QED
    BY <2>5 DEF StrayInv
<1>13. ASSUME NEW p \in Procs, LoseListener(p) \/ Reconnect(p) PROVE StrayInv'
  <2>1. UNCHANGED <<call, file, doomed>> /\ \A q \in Procs : Held(q)' = Held(q)
    BY <1>13, IndexStays DEF LoseListener, Reconnect, storeVars
  <2> QED
    BY <2>1, <1>grows
<1>14. ASSUME NEW p \in Procs, Restart(p) PROVE StrayInv'
  <2>1. /\ \A c \in Calls : call[c] # Idle /\ call[c].p # p => call'[c] = call[c]
        /\ UNCHANGED file
        /\ \A q \in Procs \ {p} : Held(q)' = Held(q) /\ doomed'[q] = doomed[q]
        /\ \A k \in Keys : file[p][k] # None => k \in Held(p)' \/ k \in doomed'[p]
    BY <1>14, RestartEffect
  <2>2. ASSUME NEW q \in Procs, NEW j \in Keys, file'[q][j] # None
        PROVE  j \in Held(q)' \/ j \in doomed'[q] \/ Handling(q, j)'
    <3>1. CASE q = p
      BY <2>1, <2>2, <3>1
    <3>2. CASE q # p /\ Handling(q, j)
      BY <2>1, <3>2, Numbers DEF Handling
    <3>3. CASE q # p /\ ~Handling(q, j)
      BY <2>1, <2>2, <3>3 DEF StrayInv
    <3> QED
      BY <3>1, <3>2, <3>3
  <2> QED
    BY <2>2 DEF StrayInv
<1>15. CASE UNCHANGED vars
  <2>1. UNCHANGED <<call, file, doomed, index>>
    BY <1>15 DEF vars, storeVars, cacheVars
  <2> QED
    BY <2>1, IndexStays, <1>grows
<1> QED
  BY <1>1, <1>2, <1>3, <1>4, <1>5, <1>6, <1>7, <1>8, <1>9, <1>10, <1>11, <1>12, <1>13, <1>14,
     <1>15 DEF Next

LEMMA StrayHolds == Spec => []StrayInv
<1>1. CacheInit => StrayInv
  BY DEF CacheInit, StrayInv
<1> QED
  BY <1>1, TypeHolds, StrayStep, PTL DEF Spec

(* At rest, a process's index counts every key's file in its directory     *)
(* (admit, evict, dropLocal and the rescan of blobcache.ts), whatever      *)
(* overtakes what and wherever it stops.  Temporary files are not counted. *)
THEOREM DirectoryIsCounted == Spec => []KeyFilesCounted
<1>1. StrayInv /\ TypeInv => KeyFilesCounted
  <2> SUFFICES ASSUME StrayInv, TypeInv, NEW p \in Procs, Quiet(p), NEW k \in Keys,
                      file[p][k] # None
               PROVE  k \in Held(p)
    BY DEF KeyFilesCounted
  <2>1. ~Handling(p, k)
    BY DEF Handling, Quiet, At
  <2> QED
    BY <2>1 DEF StrayInv, Quiet
<1> QED
  BY <1>1, TypeHolds, StrayHolds, PTL
-----------------------------------------------------------------------------
(* The store *)

LEMMA StoreStep ==
    ASSUME Races \cap {"heal", "uncover"} = {}
    PROVE  TypeInv /\ StoreInv /\ [Next]_vars => StoreInv'
<1> SUFFICES ASSUME TypeInv, StoreInv, [Next]_vars PROVE StoreInv'
  OBVIOUS
<1>may. ~May("heal") /\ ~May("uncover")
  BY DEF May
<1>calls. ASSUME NEW c \in Calls PROVE call[c] \in CallType
  BY Typed
(* Removes under way stay under way.                                       *)
<1>stays. ASSUME StoreStays,
                 \A d \in Calls : call[d].pc = "removePrimary" =>
                   call'[d].pc = "removePrimary" /\ call'[d].k = call[d].k
          PROVE  StoreInv'
  BY <1>stays DEF StoreStays, StoreInv, HalfRemoved, At
<1>one. ASSUME NEW c \in Calls, SameCalls(c), call[c].pc # "removePrimary", StoreStays
        PROVE  StoreInv'
  BY <1>one, <1>stays DEF SameCalls
<1>1. ASSUME NEW c \in Calls, NEW p \in Procs, NEW k \in Keys, Hit(c, p, k) \/ Miss(c, p, k)
      PROVE  StoreInv'
  <2>1. SameCalls(c) /\ call[c] = Idle /\ StoreStays
    BY <1>1, HitEffect, MissEffect
  <2> QED
    BY <2>1, <1>one, Numbers
<1>2. ASSUME NEW c \in Calls, Lookup(c) \/ FallBack(c) \/ SkipHeal(c) PROVE StoreInv'
  <2>1. SameCalls(c) /\ call[c].pc \in {"lookup", "fallback", "heal"} /\ StoreStays
    BY <1>2, LookupEffect, FallBackEffect, PlainEffect DEF ReadsOn, Ends
  <2> QED
    BY <2>1, <1>one
<1>3. ASSUME NEW c \in Calls, Heal(c), HealsApart(c) PROVE StoreInv'
  <2>1. /\ SameCalls(c) /\ call[c].pc = "heal" /\ latest[call[c].k] = call[c].ver
        /\ derived' = [derived EXCEPT ![call[c].k] = call[c].ver]
        /\ UNCHANGED <<primary, latest, returned>> /\ call[c].k \in Keys
    BY <1>3, <1>may, HealEffect DEF ReadsOn, ReadCall, HealsApart
  <2>2. \A k \in Keys : derived'[k] = derived[k] \/ derived'[k] = latest[k]
    BY <2>1, Typed
  <2>3. \A k \in Keys : derived'[k] = None => derived[k] = None
    BY <2>1, Typed, StoreAssumption DEF Version, None
  <2>4. \A k \in Keys : HalfRemoved(k) => HalfRemoved(k)'
    BY <2>1 DEF HalfRemoved, At, SameCalls
  <2> QED
    BY <2>1, <2>2, <2>3, <2>4 DEF StoreInv
<1>4. ASSUME NEW c \in Calls, \/ Rename(c) \/ ServeOnly(c) \/ Answer(c) \/ Unadmit(c)
      PROVE  StoreInv'
  <2>1. SameCalls(c) /\ call[c].pc \in Reading /\ StoreStays
    BY <1>4, RenameEffect, PlainEffect, UnadmitEffect DEF ReadsOn, Ends, Reading
  <2> QED
    BY <2>1, <1>one DEF Reading
<1>5. ASSUME NEW c \in Calls, Admit(c) PROVE StoreInv'
  <2>1. call[c].p \in Procs /\ call[c].k \in Keys
    BY <1>5, <1>calls, CallShape DEF Admit, At, Reading, Idle
  <2>2. SameCalls(c) /\ call[c].pc = "renamed" /\ StoreStays
    BY <1>5, <2>1, AdmitEffect DEF ReadsOn
  <2> QED
    BY <2>2, <1>one
<1>6. ASSUME NEW c \in Calls, NEW p \in Procs, NEW k \in Keys, NEW op \in {"put", "remove"},
             StartWrite(c, p, k, op)
      PROVE  StoreInv'
  BY <1>6, StartWriteEffect, <1>one, Numbers
<1>7. ASSUME NEW c \in Calls, ApplyPut(c) \/ ApplyRemove(c) PROVE StoreInv'
  <2>1. call[c].k \in Keys
    BY <1>7, <1>calls, CallShape DEF ApplyPut, ApplyRemove, At, WritePcs, Idle
  <2>2. PICK k \in Keys : k = call[c].k
    BY <2>1
  <2> DEFINE v == latest[k] + 1
  <2>3. /\ latest' = [latest EXCEPT ![k] = v] /\ UNCHANGED primary /\ v \in Version
        /\ call[c].pc \in {"put", "remove"}
        /\ \/ derived' = [derived EXCEPT ![k] = v] /\ WritesOn(c, "drop", v)
           \/ derived' = [derived EXCEPT ![k] = None] /\ WritesOn(c, "removePrimary", v)
    BY <1>7, <2>2, ApplyEffect
  <2> HIDE DEF v
  <2>4. \A j \in Keys \ {k} : latest'[j] = latest[j] /\ derived'[j] = derived[j]
    BY <2>3, Typed
  <2>5. \A j \in Keys : HalfRemoved(j) => HalfRemoved(j)'
    BY <2>3 DEF HalfRemoved, At, WritesOn, SameCalls
  <2>6. latest'[k] = v /\ v # None
    BY <2>3, Typed, Numbers
  <2>7. \/ derived'[k] = v
        \/ derived'[k] = None /\ HalfRemoved(k)'
    BY <2>2, <2>3, Typed DEF HalfRemoved, At, WritesOn
  <2>8. ASSUME NEW j \in Keys \ {k}
        PROVE  /\ derived'[j] \in {None, latest'[j]}
               /\ derived'[j] = None /\ primary'[j] # None /\ ~HalfRemoved(j)' => latest'[j] = 1
    BY <2>3, <2>4, <2>5 DEF StoreInv
  <2> QED
    BY <2>6, <2>7, <2>8 DEF StoreInv
<1>8. ASSUME NEW c \in Calls, RemovePrimary(c) PROVE StoreInv'
  <2>1. /\ WritesOn(c, "drop", call[c].ver) /\ call[c].k \in Keys
        /\ primary' = [primary EXCEPT ![call[c].k] = None] /\ UNCHANGED <<derived, latest>>
    BY <1>8, RemovePrimaryEffect DEF WritesOn, WriteCall
  <2>2. ASSUME NEW k \in Keys
        PROVE  derived'[k] = None /\ primary'[k] # None /\ ~HalfRemoved(k)' => latest'[k] = 1
    <3>1. CASE k = call[c].k
      BY <2>1, <3>1, Typed
    <3>2. CASE k # call[c].k
      <4>1. primary'[k] = primary[k]
        BY <2>1, <3>2, Typed
      <4>2. HalfRemoved(k) => HalfRemoved(k)'
        BY <2>1, <3>2 DEF HalfRemoved, At, WritesOn, SameCalls
      <4> QED
        BY <2>1, <4>1, <4>2 DEF StoreInv
    <3> QED
      BY <3>1, <3>2
  <2> QED
    BY <2>1, <2>2 DEF StoreInv
<1>9. ASSUME NEW c \in Calls, DropWritten(c) PROVE StoreInv'
  <2>1. call[c].p \in Procs /\ call[c].k \in Keys
    BY <1>9, <1>calls, CallShape DEF DropWritten, At, WritePcs, Idle
  <2>2. PICK p \in Procs, k \in Keys : p = call[c].p /\ k = call[c].k
    BY <2>1
  <2>3. call[c].pc = "drop" /\ StoreStays /\ \A d \in Calls \ {c} : Dropped(p, k, d)
    BY <1>9, <2>2, DropWrittenEffect
  <2> QED
    BY <2>3, <1>stays DEF Dropped, Reading
<1>10. ASSUME NEW c \in Calls, NEW sent \in Publications, Return(c, sent) PROVE StoreInv'
  <2>1. call[c].pc = "gone" /\ SameCalls(c) /\ UNCHANGED <<derived, primary, latest>>
    BY <1>10, Finishes DEF Return, At, Ends
  <2>2. \A k \in Keys : HalfRemoved(k) => HalfRemoved(k)'
    BY <2>1 DEF HalfRemoved, At, SameCalls
  <2> QED
    BY <2>1, <2>2 DEF StoreInv
<1>11. ASSUME NEW p \in Procs, NEW k \in Keys, Drop(p, k, call), StoreStays PROVE StoreInv'
  <2>1. \A d \in Calls : Dropped(p, k, d)
    BY <1>11, HeardEffect
  <2> QED
    BY <2>1, <1>11, <1>stays DEF Dropped, Reading
<1>12. ASSUME NEW p \in Procs, Hear(p) \/ Sweep(p) PROVE StoreInv'
  <2>1. StoreStays /\ \E k \in Keys : Drop(p, k, call)
    BY <1>12, Typed DEF Hear, Sweep, StoreStays
  <2> QED
    BY <2>1, <1>11
<1>13. ASSUME NEW p \in Procs, Unlink(p) \/ LoseListener(p) \/ Reconnect(p) PROVE StoreInv'
  <2>1. StoreStays /\ UNCHANGED call
    BY <1>13 DEF Unlink, LoseListener, Reconnect, StoreStays, storeVars
  <2> QED
    BY <2>1, <1>stays
<1>14. ASSUME NEW p \in Procs, Restart(p), RestartsApart(p) PROVE StoreInv'
  <2>1. /\ StoreStays
        /\ \A c \in Calls : call[c] # Idle /\ call[c].p # p => call'[c] = call[c]
        /\ ~\E c \in Calls : At(c, "removePrimary") /\ call[c].p = p
    BY <1>14, <1>may, RestartEffect DEF RestartsApart
  <2> QED
    BY <2>1, <1>stays, Numbers DEF At
<1>15. CASE UNCHANGED vars
  BY <1>15, <1>stays DEF vars, storeVars, StoreStays
<1> QED
  BY <1>1, <1>2, <1>3, <1>4, <1>5, <1>6, <1>7, <1>8, <1>9, <1>10, <1>12, <1>13, <1>14, <1>15
     DEF Next, Fetch, Write

LEMMA StoreStarts == CacheInit => StoreInv
<1> SUFFICES ASSUME CacheInit PROVE StoreInv
  OBVIOUS
<1>1. PICK old \in SUBSET Keys :
        /\ derived = [k \in Keys |-> IF k \in old THEN None ELSE 1]
        /\ primary = [k \in Keys |-> IF k \in old THEN 1 ELSE None]
        /\ latest = [k \in Keys |-> 1]
  BY DEF CacheInit, StoreInit
<1> QED
  BY <1>1 DEF StoreInv

-----------------------------------------------------------------------------
(* What is served, and what is kept *)

(* Every version that may be kept under a key still may.                   *)
Lasting(p, k) == \A v \in Version : Current(p, k, v) => Current(p, k, v)'

(* Reads whose bytes may yet be kept.                                      *)
Keeping == {"fallback", "heal", "fetched", "renamed"}

(* A call goes on as it was, unless a drop overtakes its read.             *)
Abides(d) ==
    /\ call'[d].pc = call[d].pc
    /\ call[d] # Idle => /\ call'[d].p = call[d].p /\ call'[d].k = call[d].k
                         /\ call'[d].ver = call[d].ver
    /\ call[d].pc \in Reading => /\ call'[d].floor = call[d].floor
                                 /\ call'[d].fresh => call[d].fresh

LEMMA Figures ==
    ASSUME TypeInv
    PROVE  /\ \A k \in Keys : /\ latest[k] \in Nat /\ returned[k] \in Nat /\ latest[k] >= 1
                              /\ returned[k] <= latest[k] /\ returned[k] >= 1
           /\ \A p \in Procs, k \in Keys : told[p][k] \in Nat /\ told[p][k] >= 1
           /\ \A p \in Procs, k \in Keys : file[p][k] \in Version \cup {None}
           /\ \A p \in Procs : \A n \in news[p] : n.k \in Keys /\ n.ver \in Version
<1>1. \A k \in Keys : returned[k] <= latest[k]
  BY TypeParts DEF StoreT
<1> QED
  BY <1>1, Typed, StoreAssumption DEF Version, None

(* The last version may be kept anywhere.                                  *)
LEMMA LatestIsCurrent ==
    ASSUME TypeInv, ToldInv, NEW p \in Procs, NEW k \in Keys
    PROVE  Current(p, k, latest[k]) /\ told[p][k] <= latest[k]
<1>1. told[p][k] <= returned[k] /\ returned[k] <= latest[k]
  BY Figures DEF ToldInv
<1>2. ASSUME NEW d \in Calls, call[d].pc = "gone", call[d].k = k PROVE latest[k] >= call[d].ver
  <2>1. call[d].ver <= latest[k] /\ call[d].ver \in Version \cup {None}
    <3>1. call[d] # Idle /\ call[d] \in CallType
      BY <1>2, Typed, Numbers
    <3> QED
      BY <3>1, <1>2, CallShape DEF TypeInv
  <2> QED
    BY <2>1, Figures, Numbers
<1>3. latest[k] >= told[p][k] /\ latest[k] >= returned[k]
  BY <1>1, Figures
<1> QED
  BY <1>1, <1>2, <1>3, Figures DEF Current

LEMMA CurrentLasts ==
    ASSUME UNCHANGED <<told, returned, news, deaf, sweep>>,
           \A d \in Calls : call'[d].pc = "gone" => call'[d] = call[d]
    PROVE  \A p \in Procs, k \in Keys : Lasting(p, k)
BY DEF Lasting, Current, Pending

(* What a read under way has stays good while it abides.                   *)
LEMMA Abiding ==
    ASSUME TypeInv, NEW d \in Calls, FloorInv(d), FreshInv(d), Abides(d),
           NEW p \in Procs, NEW k \in Keys, call[d] # Idle => call[d].p = p /\ call[d].k = k,
           told'[p][k] \in Nat, told'[p][k] >= told[p][k],
           primary'[k] \in {None, primary[k]},
           HalfRemoved(k) => HalfRemoved(k)' \/ primary'[k] = None,
           call[d].pc \in Keeping /\ call'[d].fresh => Lasting(p, k),
           call[d].pc = "renamed" /\ call'[d].fresh =>
             file'[p][k] \in {None, file[p][k]} \/ Current(p, k, file[p][k])'
    PROVE  FloorInv(d)' /\ FreshInv(d)'
<1>1. CASE call[d].pc \notin Reading
  <2>1. call'[d].pc \notin Reading
    BY <1>1 DEF Abides
  <2> QED
    BY <2>1 DEF FloorInv, FreshInv, Reading
<1>2. CASE call[d].pc \in Reading
  <2>1. /\ call[d] \in ReadCall /\ call[d] # Idle /\ call[d].p = p /\ call[d].k = k
        /\ call[d].floor \in Nat /\ call[d].ver \in Version \cup {None} /\ call[d].fresh \in BOOLEAN
    <3>1. call[d] \in ReadCall /\ call[d] # Idle
      BY <1>2, Typed, CallShape, Numbers DEF Reading
    <3> QED
      BY <3>1, StoreAssumption DEF ReadCall, Version
  <2>2. /\ call'[d].pc = call[d].pc /\ call'[d].p = p /\ call'[d].k = k
        /\ call'[d].ver = call[d].ver /\ call'[d].floor = call[d].floor
        /\ call'[d].fresh => call[d].fresh
    BY <1>2, <2>1 DEF Abides
  <2>3. FloorInv(d)'
    <3>1. call'[d].floor <= told'[p][k]
      <4>1. call[d].floor <= told[p][k] /\ told[p][k] \in Nat
        BY <1>2, <2>1, Figures DEF FloorInv
      <4> QED
        BY <4>1, <2>1, <2>2
    <3>2. ASSUME call[d].pc = "fallback"
          PROVE  primary'[k] = None \/ call'[d].floor = 1 \/ HalfRemoved(k)'
      BY <3>2, <2>1, <2>2 DEF FloorInv
    <3>3. call[d].pc \in {"heal", "fetched", "renamed", "unlink", "answered"} =>
            call'[d].ver >= call'[d].floor /\ call'[d].ver # None
      BY <2>2 DEF FloorInv
    <3>4. (call[d].pc = "fallback" => primary[k] = None \/ call[d].floor = 1 \/ HalfRemoved(k))'
      BY <3>2, <2>2
    <3>5. (/\ call[d].pc \in Reading => call[d].floor <= told[p][k]
           /\ call[d].pc = "fallback" => primary[k] = None \/ call[d].floor = 1 \/ HalfRemoved(k)
           /\ call[d].pc \in {"heal", "fetched", "renamed", "unlink", "answered"} =>
                call[d].ver >= call[d].floor /\ call[d].ver # None)'
      BY <3>1, <3>3, <3>4, <2>2
    <3> QED
      BY <3>5, <2>2 DEF FloorInv
  <2>4. FreshInv(d)'
    <3>1. ASSUME call[d].pc \in {"heal", "fetched", "renamed"}, call'[d].fresh
          PROVE  Current(p, k, call[d].ver)'
      <4>1. Current(p, k, call[d].ver) /\ call[d].ver \in Version
        BY <3>1, <2>1, <2>2 DEF FreshInv, FloorInv
      <4>2. PICK v \in Version : v = call[d].ver
        BY <4>1
      <4>3. Current(p, k, v)'
        BY <4>1, <4>2, <3>1 DEF Lasting, Keeping
      <4> QED
        BY <4>2, <4>3, <2>2
    <3>2. ASSUME call[d].pc = "fallback", call'[d].fresh
          PROVE  primary'[k] = None \/ HalfRemoved(k)' \/ Current(p, k, 1)'
      <4>1. primary[k] = None \/ HalfRemoved(k) \/ Current(p, k, 1)
        BY <3>2, <2>1, <2>2 DEF FreshInv
      <4> QED
        BY <4>1, <3>2, Numbers DEF Lasting, Keeping
    <3>3. ASSUME call[d].pc = "renamed", call'[d].fresh
          PROVE  file'[p][k] = None \/ Current(p, k, file[p][k])'
      <4>1. file[p][k] = None \/ Current(p, k, file[p][k])
        BY <3>3, <2>1, <2>2 DEF FreshInv
      <4>2. CASE file'[p][k] = file[p][k] /\ file[p][k] # None
        <5>1. PICK v \in Version : v = file[p][k]
          BY <4>2, Figures
        <5>2. Current(p, k, v)'
          BY <4>1, <4>2, <5>1, <3>3 DEF Lasting, Keeping
        <5> QED
          BY <5>1, <5>2, <4>2
      <4> QED
        BY <4>2, <3>3
    <3>4. call[d].pc = "unlink" => ~call'[d].fresh
      BY <2>1, <2>2 DEF FreshInv
    <3>5. (/\ call[d].pc \in {"heal", "fetched", "renamed"} /\ call[d].fresh => Current(p, k, call[d].ver)
           /\ call[d].pc = "fallback" /\ call[d].fresh =>
                primary[k] = None \/ HalfRemoved(k) \/ Current(p, k, 1)
           /\ call[d].pc = "renamed" /\ call[d].fresh =>
                file[p][k] = None \/ Current(p, k, file[p][k])
           /\ call[d].pc = "unlink" => ~call[d].fresh)'
      BY <3>1, <3>2, <3>3, <3>4, <2>2
    <3> QED
      BY <3>5, <2>2 DEF FreshInv
  <2> QED
    BY <2>3, <2>4
<1> QED
  BY <1>1, <1>2

(* A drop of k at p, by the calls in S or on hearing of a write.           *)
DropsAt(p, k, S) ==
    /\ \A d \in Calls \ S : Dropped(p, k, d)
    /\ \A d \in S : /\ call[d].pc = "drop" /\ call'[d].pc = "gone"
                    /\ call'[d].p = p /\ call'[d].k = k
    /\ \A q \in Procs : Held(q)' = IF q = p THEN Held(q) \ {k} ELSE Held(q)
    /\ UNCHANGED <<primary, returned, file>>
    /\ \A q \in Procs, j \in Keys : told'[q][j] \in Nat /\ told'[q][j] >= told[q][j]
    /\ \A q \in Procs, j \in Keys : ~(q = p /\ j = k) =>
         told'[q][j] = told[q][j] /\ (Pending(q, j) => Pending(q, j)')

LEMMA FreshStep ==
    ASSUME Races \subseteq {"reconnect", "publish"}
    PROVE  TypeInv /\ StrayInv /\ FreshStore /\ [Next]_vars => FreshStore'
<1> SUFFICES ASSUME TypeInv, StrayInv, FreshStore, [Next]_vars PROVE FreshStore'
  OBVIOUS
<1>may. ~May("heal") /\ ~May("uncover") /\ ~May("rename") /\ ~May("crash")
  BY DEF May
<1>storeInv. StoreInv'
  <2>1. Races \cap {"heal", "uncover"} = {}
    OBVIOUS
  <2> QED
    BY <2>1, StoreStep DEF FreshStore
<1>inv. StoreInv /\ ToldInv /\ HeldInv /\ \A c \in Calls : FloorInv(c) /\ FreshInv(c)
  BY DEF FreshStore
<1>calls. ASSUME NEW c \in Calls
          PROVE  /\ call[c] \in CallType
                 /\ call[c] # Idle => call[c].p \in Procs /\ call[c].k \in Keys
  BY Typed, CallShape
<1>goal. ASSUME ToldInv', HeldInv', \A c \in Calls : FloorInv(c)' /\ FreshInv(c)'
         PROVE  FreshStore'
  BY <1>goal, <1>storeInv DEF FreshStore
<1>told. ASSUME UNCHANGED <<told, returned>>, \A q \in Procs : news'[q] \subseteq news[q]
         PROVE  ToldInv'
  BY <1>told, <1>inv DEF ToldInv
<1>toldStays. ASSUME UNCHANGED told
              PROVE  \A p \in Procs, k \in Keys : told'[p][k] \in Nat /\ told'[p][k] >= told[p][k]
  BY <1>toldStays, Figures
(* Where nothing is newer than before.                                     *)
<1>lasts. ASSUME NEW q \in Procs, NEW j \in Keys, told'[q][j] = told[q][j], returned'[j] = returned[j],
                 Tells => (Pending(q, j) => Pending(q, j)'),
                 \A d \in Calls : call'[d].pc = "gone" /\ call'[d].p = q /\ call'[d].k = j =>
                   call'[d] = call[d]
          PROVE  Lasting(q, j)
  BY <1>lasts DEF Lasting, Current
(* What the index holds stays as good as it was.                           *)
<1>held. ASSUME \A q \in Procs : \A j \in Held(q)' :
                  \/ file'[q][j] = None \/ Current(q, j, file[q][j])'
                  \/ j \in Held(q) /\ file'[q][j] = file[q][j] /\ Lasting(q, j)
         PROVE  HeldInv'
  <2>1. ASSUME NEW q \in Procs, NEW j \in Held(q)', file'[q][j] # None,
               ~Current(q, j, file[q][j])'
        PROVE  FALSE
    <3>1. j \in Held(q) /\ file'[q][j] = file[q][j] /\ Lasting(q, j) /\ j \in Keys
      BY <1>held, <2>1, Typed
    <3>2. Current(q, j, file[q][j]) /\ file[q][j] \in Version
      BY <3>1, <2>1, <1>inv, Figures DEF HeldInv
    <3>3. PICK v \in Version : v = file[q][j]
      BY <3>2
    <3>4. Current(q, j, v)'
      BY <3>1, <3>2, <3>3 DEF Lasting
    <3> QED
      BY <2>1, <3>1, <3>3, <3>4
  <2> QED
    BY <2>1 DEF HeldInv
(* A call that holds no read is nothing to keep promises to.               *)
<1>noRead. ASSUME NEW c \in Calls, call'[c].pc \notin Reading PROVE FloorInv(c)' /\ FreshInv(c)'
  BY <1>noRead DEF FloorInv, FreshInv, Reading
(* Another call, where all it depends on stays.                            *)
<1>other. ASSUME NEW d \in Calls, Abides(d),
                 \A p \in Procs, k \in Keys : told'[p][k] \in Nat /\ told'[p][k] >= told[p][k],
                 \A k \in Keys : /\ primary'[k] \in {None, primary[k]}
                                 /\ HalfRemoved(k) => HalfRemoved(k)' \/ primary'[k] = None,
                 \A p \in Procs, k \in Keys :
                   call[d].p = p /\ call[d].k = k /\ call[d].pc \in Keeping /\ call'[d].fresh =>
                     /\ Lasting(p, k)
                     /\ call[d].pc = "renamed" =>
                          file'[p][k] \in {None, file[p][k]} \/ Current(p, k, file[p][k])'
          PROVE  FloorInv(d)' /\ FreshInv(d)'
  <2>1. CASE call[d] = Idle
    <3>1. call'[d].pc \notin Reading
      BY <2>1, <1>other, Numbers DEF Abides, Reading
    <3> QED
      BY <3>1, <1>noRead
  <2>2. CASE call[d] # Idle
    <3>1. PICK p \in Procs, k \in Keys : call[d].p = p /\ call[d].k = k
      BY <2>2, <1>calls
    <3> QED
      BY <3>1, <1>other, <1>inv, Abiding DEF Keeping
  <2> QED
    BY <2>1, <2>2
(* One call moves, the disk, the bus and what was told stay.               *)
<1>one. ASSUME NEW c \in Calls, SameCalls(c), DiskStays, BusStays, UNCHANGED returned,
               \A k \in Keys : /\ primary'[k] \in {None, primary[k]}
                               /\ HalfRemoved(k) => HalfRemoved(k)' \/ primary'[k] = None,
               call'[c].pc # "gone", FloorInv(c)' /\ FreshInv(c)'
        PROVE  FreshStore'
  <2>1. \A p \in Procs, k \in Keys : Lasting(p, k)
    <3>1. \A d \in Calls : call'[d].pc = "gone" => call'[d] = call[d]
      BY <1>one DEF SameCalls
    <3> QED
      BY <3>1, <1>one, CurrentLasts DEF DiskStays, BusStays
  <2>2. ASSUME NEW d \in Calls \ {c} PROVE FloorInv(d)' /\ FreshInv(d)'
    <3>1. Abides(d)
      BY <1>one DEF SameCalls, Abides
    <3> QED
      BY <3>1, <2>1, <1>one, <1>other, <1>toldStays DEF DiskStays
  <2>3. HeldInv'
    <3>1. \A q \in Procs : \A j \in Held(q)' :
            j \in Held(q) /\ file'[q][j] = file[q][j] /\ Lasting(q, j)
      BY <2>1, <1>one, Typed DEF DiskStays
    <3> QED
      BY <3>1, <1>held
  <2>4. ToldInv'
    BY <1>one, <1>told DEF DiskStays, BusStays
  <2> QED
    BY <2>2, <2>3, <2>4, <1>one, <1>goal
<1>half. ASSUME NEW c \in Calls, SameCalls(c), call[c].pc # "removePrimary"
         PROVE  \A k \in Keys : HalfRemoved(k) => HalfRemoved(k)'
  BY <1>half DEF SameCalls, HalfRemoved, At
<1>quiet. ASSUME NEW c \in Calls, SameCalls(c), DiskStays, BusStays, UNCHANGED <<returned, primary>>,
                 call[c].pc # "removePrimary", call'[c].pc # "gone", FloorInv(c)' /\ FreshInv(c)'
          PROVE  FreshStore'
  BY <1>quiet, <1>half, <1>one
(* A read that goes on with what it has.                                   *)
<1>read. ASSUME NEW c \in Calls, NEW pc \in {"fetched", "answered"}, ReadsOn(c, pc, call[c].ver),
                call[c].pc \in {"heal", "fetched"}, DiskStays, BusStays, UNCHANGED <<returned, primary>>
         PROVE  FreshStore'
  <2>1. PICK p \in Procs, k \in Keys, v \in Version :
          call[c].p = p /\ call[c].k = k /\ call[c].ver = v
    BY <1>read, <1>inv DEF ReadsOn, ReadCall, FloorInv
  <2>2. SameCalls(c) /\ \A d \in Calls : call'[d].pc = "gone" => call'[d] = call[d]
    BY <1>read DEF ReadsOn, SameCalls
  <2>3. Lasting(p, k)
    BY <2>2, <1>read, CurrentLasts DEF DiskStays, BusStays
  <2>4. /\ call'[c].pc = pc /\ call'[c].p = p /\ call'[c].k = k /\ call'[c].ver = v
        /\ call'[c].floor = call[c].floor /\ call'[c].fresh = call[c].fresh
    BY <2>1, <1>read DEF ReadsOn
  <2>5. FloorInv(c)'
    <3>1. v >= call[c].floor /\ call[c].floor <= told[p][k] /\ v # None
      BY <2>1, <1>read, <1>inv DEF FloorInv, Reading
    <3> QED
      BY <3>1, <2>4, <1>read DEF FloorInv, DiskStays
  <2>6. FreshInv(c)'
    <3>1. call[c].fresh => Current(p, k, v)
      BY <2>1, <1>read, <1>inv DEF FreshInv
    <3>2. call'[c].fresh => Current(p, k, v)'
      BY <3>1, <2>3, <2>4 DEF Lasting
    <3> QED
      BY <3>2, <2>4 DEF FreshInv
  <2> QED
    BY <2>2, <2>4, <2>5, <2>6, <1>read, <1>quiet
<1>1. ASSUME NEW c \in Calls, NEW p \in Procs, NEW k \in Keys, Hit(c, p, k) PROVE FreshStore'
  <2>1. /\ SameCalls(c) /\ call[c] = Idle /\ call'[c].pc = "answered" /\ call'[c].p = p
        /\ call'[c].k = k /\ call'[c].ver = file[p][k] /\ call'[c].floor = told[p][k]
        /\ k \in Held(p) /\ file[p][k] # None /\ StoreStays /\ DiskStays /\ BusStays
    BY <1>1, HitEffect
  <2>2. file[p][k] >= told[p][k]
    BY <2>1, <1>inv DEF HeldInv, Current
  <2>3. FloorInv(c)' /\ FreshInv(c)'
    BY <2>1, <2>2, Figures DEF FloorInv, FreshInv, DiskStays
  <2> QED
    BY <2>1, <2>3, <1>quiet, Numbers DEF StoreStays
<1>2. ASSUME NEW c \in Calls, NEW p \in Procs, NEW k \in Keys, Miss(c, p, k) PROVE FreshStore'
  <2>1. /\ SameCalls(c) /\ call[c] = Idle /\ call'[c].pc = "lookup" /\ call'[c].p = p
        /\ call'[c].k = k /\ call'[c].floor = told[p][k] /\ StoreStays /\ DiskStays /\ BusStays
    BY <1>2, MissEffect
  <2>2. FloorInv(c)' /\ FreshInv(c)'
    BY <2>1, Figures DEF FloorInv, FreshInv, DiskStays
  <2> QED
    BY <2>1, <2>2, <1>quiet, Numbers DEF StoreStays
<1>3. ASSUME NEW c \in Calls, Lookup(c), DiskStays, BusStays PROVE FreshStore'
  <2>1. /\ call[c].pc = "lookup" /\ StoreStays
        /\ \/ derived[call[c].k] = None /\ ReadsOn(c, "fallback", None)
           \/ derived[call[c].k] # None /\ ReadsOn(c, "fetched", derived[call[c].k])
    BY <1>3, LookupEffect
  <2>2. PICK p \in Procs, k \in Keys : call[c].p = p /\ call[c].k = k
    BY <2>1 DEF ReadsOn, ReadCall
  <2>3. PICK v \in Version \cup {None} : v = derived[k]
    BY Typed
  <2>4. SameCalls(c) /\ \A d \in Calls : call'[d].pc = "gone" => call'[d] = call[d]
    BY <2>1 DEF ReadsOn, SameCalls
  <2>5. Lasting(p, k)
    BY <2>1, <2>4, <1>3, CurrentLasts DEF DiskStays, BusStays, StoreStays
  <2>6. call[c].floor <= told[p][k] /\ call[c].floor \in Nat /\ call[c].floor >= 1
    BY <2>1, <2>2, <1>inv, StoreAssumption DEF FloorInv, Reading, ReadsOn, ReadCall, Version
  <2>7. Current(p, k, latest[k]) /\ told[p][k] <= latest[k] /\ latest[k] \in Version
    BY <1>inv, LatestIsCurrent, Typed
  <2>8. PICK l \in Version : l = latest[k]
    BY <2>7
  <2>9. Current(p, k, l)' /\ l >= call[c].floor /\ l \in Nat /\ l # None
    BY <2>5, <2>6, <2>7, <2>8, Figures, Numbers DEF Lasting
  <2>10. call'[c].p = p /\ call'[c].k = k /\ call'[c].floor = call[c].floor
    BY <2>1, <2>2 DEF ReadsOn
  <2>11. told'[p][k] = told[p][k] /\ primary' = primary
    BY <1>3, <2>1 DEF DiskStays, StoreStays
  <2>12. CASE v = None
    <3>1. call'[c].pc = "fallback"
      BY <2>1, <2>2, <2>3, <2>12 DEF ReadsOn
    <3>2. primary[k] # None /\ ~HalfRemoved(k) => l = 1
      BY <2>3, <2>8, <2>12, <1>inv DEF StoreInv
    <3>3. HalfRemoved(k) => HalfRemoved(k)'
      BY <2>1, <2>4, <1>half
    <3>4. primary'[k] = None \/ HalfRemoved(k)' \/ (call'[c].floor = 1 /\ Current(p, k, 1)')
      BY <3>2, <3>3, <2>6, <2>9, <2>10, <2>11
    <3>5. FloorInv(c)' /\ FreshInv(c)'
      BY <3>1, <3>4, <2>6, <2>10, <2>11 DEF FloorInv, FreshInv
    <3> QED
      BY <3>1, <3>5, <2>1, <2>4, <1>3, <1>quiet DEF StoreStays
  <2>13. CASE v # None
    <3>1. v = l /\ call'[c].pc = "fetched" /\ call'[c].ver = l
      BY <2>1, <2>2, <2>3, <2>8, <2>13, <1>inv DEF ReadsOn, StoreInv
    <3>2. FloorInv(c)' /\ FreshInv(c)'
      BY <3>1, <2>6, <2>9, <2>10, <2>11 DEF FloorInv, FreshInv
    <3> QED
      BY <3>1, <3>2, <2>1, <2>4, <1>3, <1>quiet DEF StoreStays
  <2> QED
    BY <2>12, <2>13
<1>4. ASSUME NEW c \in Calls, FallBack(c), FallsBackApart(c), DiskStays, BusStays
      PROVE  FreshStore'
  <2>1. /\ call[c].pc = "fallback" /\ StoreStays /\ ~HalfRemoved(call[c].k)
        /\ Ends(c) \/ (primary[call[c].k] = 1 /\ ReadsOn(c, "heal", 1))
    BY <1>4, <1>may, FallBackEffect DEF FallsBackApart
  <2>2. CASE Ends(c)
    <3>1. call'[c].pc = "idle" /\ SameCalls(c)
      BY <2>2, Numbers DEF Ends
    <3> QED
      BY <3>1, <2>1, <1>4, <1>noRead, <1>quiet DEF Reading, StoreStays
  <2>3. CASE primary[call[c].k] = 1 /\ ReadsOn(c, "heal", 1)
    <3>1. PICK p \in Procs, k \in Keys : call[c].p = p /\ call[c].k = k
      BY <2>3 DEF ReadsOn, ReadCall
    <3>2. SameCalls(c) /\ \A d \in Calls : call'[d].pc = "gone" => call'[d] = call[d]
      BY <2>3 DEF ReadsOn, SameCalls
    <3>3. Lasting(p, k)
      BY <2>1, <3>2, <1>4, CurrentLasts DEF DiskStays, BusStays, StoreStays
    <3>4. /\ call'[c].pc = "heal" /\ call'[c].p = p /\ call'[c].k = k /\ call'[c].ver = 1
          /\ call'[c].floor = call[c].floor /\ call'[c].fresh = call[c].fresh
      BY <2>3, <3>1 DEF ReadsOn
    <3>5. primary[k] # None
      BY <2>3, <3>1, Numbers
    <3>6. call[c].floor = 1 /\ call[c].floor <= told[p][k]
      BY <2>1, <3>1, <3>5, <1>inv DEF FloorInv, Reading
    <3>7. call[c].fresh => Current(p, k, 1)
      BY <2>1, <3>1, <3>5, <1>inv DEF FreshInv
    <3>8. call'[c].fresh => Current(p, k, 1)'
      BY <3>3, <3>4, <3>7, Numbers DEF Lasting
    <3>9. FloorInv(c)' /\ FreshInv(c)'
      BY <3>4, <3>6, <3>8, <1>4, Numbers DEF FloorInv, FreshInv, DiskStays
    <3> QED
      BY <3>2, <3>4, <3>9, <2>1, <1>4, <1>quiet DEF StoreStays
  <2> QED
    BY <2>1, <2>2, <2>3
<1>5. ASSUME NEW c \in Calls, Heal(c) \/ SkipHeal(c), DiskStays, BusStays PROVE FreshStore'
  <2>1. /\ call[c].pc = "heal" /\ ReadsOn(c, "fetched", call[c].ver)
        /\ UNCHANGED <<primary, returned>>
    BY <1>5, HealEffect, PlainEffect DEF StoreStays
  <2> QED
    BY <2>1, <1>5, <1>read
<1>6. ASSUME NEW c \in Calls, Rename(c), RenamesApart(c) PROVE FreshStore'
  <2>1. /\ call[c].pc = "fetched" /\ ReadsOn(c, "renamed", call[c].ver)
        /\ \/ call[c].fresh
           \/ /\ call[c].k \notin Held(call[c].p)
              /\ \A d \in Calls \ {c} : ~(/\ At(d, "renamed") /\ call[d].p = call[c].p
                                          /\ call[d].k = call[c].k)
        /\ file' = [file EXCEPT ![call[c].p][call[c].k] = call[c].ver]
        /\ UNCHANGED told /\ \A q \in Procs : Held(q)' = Held(q)
        /\ StoreStays /\ BusStays
    BY <1>6, <1>may, RenameEffect DEF RenamesApart
  <2>2. PICK p \in Procs, k \in Keys, v \in Version :
          call[c].p = p /\ call[c].k = k /\ call[c].ver = v
    BY <2>1, <1>inv DEF ReadsOn, ReadCall, FloorInv
  <2>3. SameCalls(c) /\ \A d \in Calls : call'[d].pc = "gone" => call'[d] = call[d]
    BY <2>1 DEF ReadsOn, SameCalls
  <2>4. \A q \in Procs, j \in Keys : Lasting(q, j)
    BY <2>1, <2>3, CurrentLasts DEF BusStays, StoreStays
  <2>5. /\ call'[c].pc = "renamed" /\ call'[c].p = p /\ call'[c].k = k /\ call'[c].ver = v
        /\ call'[c].floor = call[c].floor /\ call'[c].fresh = call[c].fresh
    BY <2>1, <2>2 DEF ReadsOn
  <2>6. \A q \in Procs, j \in Keys : file'[q][j] = IF q = p /\ j = k THEN v ELSE file[q][j]
    BY <2>1, <2>2, Typed
  <2>7. call[c].fresh => Current(p, k, v)'
    <3>1. call[c].fresh => Current(p, k, v)
      BY <2>1, <2>2, <1>inv DEF FreshInv
    <3> QED
      BY <3>1, <2>4 DEF Lasting
  <2>8. call[c].fresh => Current(p, k, file[p][k])'
    BY <2>6, <2>7
  <2>9. FloorInv(c)' /\ FreshInv(c)'
    <3>1. v >= call[c].floor /\ call[c].floor <= told[p][k] /\ v # None
      BY <2>1, <2>2, <1>inv DEF FloorInv, Reading
    <3> QED
      BY <3>1, <2>1, <2>5, <2>7, <2>8 DEF FloorInv, FreshInv
  <2>10. ASSUME NEW d \in Calls \ {c} PROVE FloorInv(d)' /\ FreshInv(d)'
    <3>1. Abides(d) /\ call'[d] = call[d]
      BY <2>3 DEF SameCalls, Abides
    <3>2. ASSUME NEW q \in Procs, NEW j \in Keys, call[d].p = q, call[d].k = j,
                 call[d].pc = "renamed"
          PROVE  file'[q][j] \in {None, file[q][j]} \/ Current(q, j, file[q][j])'
      BY <3>2, <2>1, <2>2, <2>6, <2>8 DEF At
    <3>3. \A j \in Keys : HalfRemoved(j) => HalfRemoved(j)'
      BY <2>1, <2>3, <1>half
    <3> QED
      BY <3>1, <3>2, <3>3, <2>1, <2>4, <1>other, <1>toldStays DEF StoreStays
  <2>11. HeldInv'
    <3>1. ASSUME NEW q \in Procs, NEW j \in Held(q)'
          PROVE  \/ file'[q][j] = None \/ Current(q, j, file[q][j])'
                 \/ j \in Held(q) /\ file'[q][j] = file[q][j] /\ Lasting(q, j)
      <4>1. j \in Held(q) /\ j \in Keys
        BY <3>1, <2>1, Typed
      <4> QED
        BY <4>1, <2>1, <2>2, <2>4, <2>6, <2>8
    <3> QED
      BY <3>1, <1>held
  <2>12. ToldInv'
    BY <2>1, <1>told DEF StoreStays, BusStays
  <2> QED
    BY <2>9, <2>10, <2>11, <2>12, <1>goal
<1>7. ASSUME NEW c \in Calls, ServeOnly(c) PROVE FreshStore'
  <2>1. /\ call[c].pc = "fetched" /\ ReadsOn(c, "answered", call[c].ver)
        /\ DiskStays /\ BusStays /\ UNCHANGED <<primary, returned>>
    BY <1>7, PlainEffect DEF StoreStays
  <2> QED
    BY <2>1, <1>read
<1>8. ASSUME NEW c \in Calls, Answer(c) PROVE FreshStore'
  <2>1. /\ call[c].pc = "answered" /\ Ends(c) /\ StoreStays /\ DiskStays /\ BusStays
    BY <1>8, PlainEffect
  <2>2. call'[c].pc = "idle" /\ SameCalls(c)
    BY <2>1, Numbers DEF Ends
  <2> QED
    BY <2>1, <2>2, <1>noRead, <1>quiet DEF Reading, StoreStays
<1>9. ASSUME NEW c \in Calls, Admit(c) PROVE FreshStore'
  <2>1. call[c] # Idle
    BY <1>9, Numbers DEF Admit, At
  <2>2. PICK p \in Procs, k \in Keys : p = call[c].p /\ k = call[c].k
    BY <2>1, <1>calls
  <2>3. /\ call[c].pc = "renamed" /\ UNCHANGED <<file, told>> /\ StoreStays /\ BusStays
        /\ \/ /\ call[c].fresh /\ ReadsOn(c, "answered", call[c].ver)
              /\ \A q \in Procs \ {p} : Held(q)' = Held(q)
              /\ Held(p)' \subseteq Held(p) \cup {k}
           \/ ~call[c].fresh /\ ReadsOn(c, "unlink", call[c].ver) /\ DiskStays
    BY <1>9, <2>2, AdmitEffect
  <2>4. SameCalls(c) /\ \A d \in Calls : call'[d].pc = "gone" => call'[d] = call[d]
    BY <2>3 DEF ReadsOn, SameCalls
  <2>5. \A q \in Procs, j \in Keys : Lasting(q, j)
    BY <2>3, <2>4, CurrentLasts DEF BusStays, StoreStays
  <2>6. FloorInv(c)' /\ FreshInv(c)'
    <3>1. /\ call'[c].pc \in {"answered", "unlink"} /\ call'[c].p = p /\ call'[c].k = k
          /\ call'[c].ver = call[c].ver /\ call'[c].floor = call[c].floor
          /\ call'[c].pc = "unlink" => ~call'[c].fresh
      BY <2>2, <2>3 DEF ReadsOn
    <3>2. /\ call[c].ver >= call[c].floor /\ call[c].floor <= told[p][k] /\ call[c].ver # None
      BY <2>2, <2>3, <1>inv DEF FloorInv, Reading
    <3> QED
      BY <3>1, <3>2, <2>3 DEF FloorInv, FreshInv
  <2>7. ASSUME NEW d \in Calls \ {c} PROVE FloorInv(d)' /\ FreshInv(d)'
    <3>1. Abides(d)
      BY <2>4 DEF SameCalls, Abides
    <3>2. \A j \in Keys : HalfRemoved(j) => HalfRemoved(j)'
      BY <2>3, <2>4, <1>half
    <3> QED
      BY <3>1, <3>2, <2>3, <2>5, <1>other, <1>toldStays DEF StoreStays
  <2>8. HeldInv'
    <3>1. ASSUME NEW q \in Procs, NEW j \in Held(q)'
          PROVE  \/ file'[q][j] = None \/ Current(q, j, file[q][j])'
                 \/ j \in Held(q) /\ file'[q][j] = file[q][j] /\ Lasting(q, j)
      <4>1. CASE j \in Held(q)
        <5>1. j \in Keys
          BY <4>1, Typed
        <5> QED
          BY <4>1, <5>1, <2>3, <2>5
      <4>2. CASE j \notin Held(q)
        <5>1. q = p /\ j = k /\ call[c].fresh
          BY <3>1, <4>2, <2>3 DEF DiskStays
        <5>2. file[p][k] = None \/ Current(p, k, file[p][k])
          BY <5>1, <2>2, <2>3, <1>inv DEF FreshInv
        <5>3. CASE file[p][k] = None
          BY <5>1, <5>3, <2>3
        <5>4. CASE file[p][k] # None
          <6>1. PICK v \in Version : v = file[p][k]
            BY <5>4, Figures
          <6>2. Current(p, k, v)'
            BY <5>2, <5>4, <6>1, <2>5 DEF Lasting
          <6> QED
            BY <5>1, <6>1, <6>2, <2>3
        <5> QED
          BY <5>3, <5>4
      <4> QED
        BY <4>1, <4>2
    <3> QED
      BY <3>1, <1>held
  <2>9. ToldInv'
    BY <2>3, <1>told DEF StoreStays, BusStays
  <2> QED
    BY <2>6, <2>7, <2>8, <2>9, <1>goal
<1>10. ASSUME NEW c \in Calls, Unadmit(c) PROVE FreshStore'
  <2>1. /\ call[c].pc = "unlink" /\ ReadsOn(c, "answered", call[c].ver)
        /\ file' = [file EXCEPT ![call[c].p][call[c].k] = None]
        /\ UNCHANGED told /\ \A q \in Procs : Held(q)' = Held(q)
        /\ StoreStays /\ BusStays
    BY <1>10, UnadmitEffect
  <2>2. PICK p \in Procs, k \in Keys : call[c].p = p /\ call[c].k = k
    BY <2>1 DEF ReadsOn, ReadCall
  <2>3. SameCalls(c) /\ \A d \in Calls : call'[d].pc = "gone" => call'[d] = call[d]
    BY <2>1 DEF ReadsOn, SameCalls
  <2>4. \A q \in Procs, j \in Keys : Lasting(q, j)
    BY <2>1, <2>3, CurrentLasts DEF BusStays, StoreStays
  <2>5. \A q \in Procs, j \in Keys : file'[q][j] \in {None, file[q][j]}
    BY <2>1, <2>2, Typed
  <2>6. FloorInv(c)' /\ FreshInv(c)'
    <3>1. /\ call'[c].pc = "answered" /\ call'[c].p = p /\ call'[c].k = k
          /\ call'[c].ver = call[c].ver /\ call'[c].floor = call[c].floor
      BY <2>1, <2>2 DEF ReadsOn
    <3>2. call[c].ver >= call[c].floor /\ call[c].floor <= told[p][k] /\ call[c].ver # None
      BY <2>1, <2>2, <1>inv DEF FloorInv, Reading
    <3> QED
      BY <3>1, <3>2, <2>1 DEF FloorInv, FreshInv
  <2>7. ASSUME NEW d \in Calls \ {c} PROVE FloorInv(d)' /\ FreshInv(d)'
    <3>1. Abides(d)
      BY <2>3 DEF SameCalls, Abides
    <3>2. \A j \in Keys : HalfRemoved(j) => HalfRemoved(j)'
      BY <2>1, <2>3, <1>half
    <3> QED
      BY <3>1, <3>2, <2>1, <2>4, <2>5, <1>other, <1>toldStays DEF StoreStays
  <2>8. HeldInv'
    BY <2>1, <2>4, <2>5, <1>held, Typed
  <2>9. ToldInv'
    BY <2>1, <1>told DEF StoreStays, BusStays
  <2> QED
    BY <2>6, <2>7, <2>8, <2>9, <1>goal
<1>11. ASSUME NEW c \in Calls, Write(c) PROVE FreshStore'
  <2>1. DiskStays /\ BusStays
    BY <1>11, CacheStays DEF Write
  <2>2. ASSUME NEW p \in Procs, NEW k \in Keys, NEW op \in {"put", "remove"},
               StartWrite(c, p, k, op)
        PROVE  FreshStore'
    <3>1. SameCalls(c) /\ call[c] = Idle /\ call'[c].pc = op /\ StoreStays
      BY <2>2, StartWriteEffect
    <3>2. FloorInv(c)' /\ FreshInv(c)'
      BY <3>1, <1>noRead DEF Reading
    <3> QED
      BY <3>1, <3>2, <2>1, <1>quiet, Numbers DEF StoreStays
  <2>3. CASE ApplyPut(c) \/ ApplyRemove(c)
    <3>1. call[c].k \in Keys
      BY <2>3, <1>calls, Numbers DEF ApplyPut, ApplyRemove, At
    <3>2. /\ SameCalls(c) /\ call[c].pc \in {"put", "remove"}
          /\ call'[c].pc \in {"drop", "removePrimary"} /\ UNCHANGED <<primary, returned>>
      BY <2>3, <3>1, ApplyEffect DEF WritesOn
    <3>3. FloorInv(c)' /\ FreshInv(c)'
      BY <3>2, <1>noRead DEF Reading
    <3> QED
      BY <3>2, <3>3, <2>1, <1>quiet
  <2>4. CASE RemovePrimary(c)
    <3>1. /\ WritesOn(c, "drop", call[c].ver) /\ call[c].k \in Keys
          /\ primary' = [primary EXCEPT ![call[c].k] = None] /\ UNCHANGED returned
      BY <2>4, RemovePrimaryEffect DEF WritesOn, WriteCall
    <3>2. SameCalls(c) /\ call'[c].pc = "drop"
      BY <3>1 DEF WritesOn
    <3>3. ASSUME NEW k \in Keys
          PROVE  /\ primary'[k] \in {None, primary[k]}
                 /\ HalfRemoved(k) => HalfRemoved(k)' \/ primary'[k] = None
      <4>1. CASE k = call[c].k
        BY <3>1, <4>1, Typed
      <4>2. CASE k # call[c].k
        <5>1. primary'[k] = primary[k]
          BY <3>1, <4>2, Typed
        <5>2. HalfRemoved(k) => HalfRemoved(k)'
          BY <3>2, <4>2 DEF HalfRemoved, At, SameCalls
        <5> QED
          BY <5>1, <5>2
      <4> QED
        BY <4>1, <4>2
    <3>4. FloorInv(c)' /\ FreshInv(c)'
      BY <3>2, <1>noRead DEF Reading
    <3> QED
      BY <3>1, <3>2, <3>3, <3>4, <2>1, <1>one
  <2> QED
    BY <1>11, <2>2, <2>3, <2>4 DEF Write
(* A drop of k at p: of that key nothing is held there, and no read of it  *)
(* there will keep what it has.                                            *)
<1>drop. ASSUME NEW p \in Procs, NEW k \in Keys, NEW S \in SUBSET Calls, DropsAt(p, k, S), ToldInv'
         PROVE  FreshStore'
  <2>1. ASSUME NEW q \in Procs, NEW j \in Keys, ~(q = p /\ j = k) PROVE Lasting(q, j)
    <3>1. ASSUME NEW d \in Calls, call'[d].pc = "gone", call'[d].p = q, call'[d].k = j
          PROVE  call'[d] = call[d]
      BY <3>1, <2>1, <1>drop DEF DropsAt, Dropped, Reading
    <3> QED
      BY <3>1, <2>1, <1>drop, <1>lasts DEF DropsAt
  <2>2. \A j \in Keys : HalfRemoved(j) => HalfRemoved(j)'
    <3>1. ASSUME NEW d \in Calls, call[d].pc = "removePrimary" PROVE call'[d] = call[d]
      BY <3>1, <1>drop DEF DropsAt, Dropped, Reading
    <3> QED
      BY <3>1 DEF HalfRemoved, At
  <2>3. ASSUME NEW d \in Calls PROVE FloorInv(d)' /\ FreshInv(d)'
    <3>1. CASE d \in S
      BY <3>1, <1>drop, <1>noRead DEF DropsAt, Reading
    <3>2. CASE d \notin S
      <4>1. Dropped(p, k, d)
        BY <3>2, <1>drop DEF DropsAt
      <4>2. Abides(d)
        BY <4>1 DEF Dropped, Abides
      <4>3. ASSUME NEW q \in Procs, NEW j \in Keys, call[d].p = q, call[d].k = j,
                   call[d].pc \in Keeping, call'[d].fresh
            PROVE  Lasting(q, j)
        <5>1. ~(q = p /\ j = k)
          BY <4>1, <4>3 DEF Dropped, Keeping, Reading
        <5> QED
          BY <5>1, <2>1
      <4> QED
        BY <4>2, <4>3, <2>2, <1>drop, <1>other DEF DropsAt
    <3> QED
      BY <3>1, <3>2
  <2>4. HeldInv'
    <3>1. ASSUME NEW q \in Procs, NEW j \in Held(q)'
          PROVE  j \in Held(q) /\ file'[q][j] = file[q][j] /\ Lasting(q, j)
      <4>1. j \in Held(q) /\ ~(q = p /\ j = k) /\ j \in Keys
        BY <3>1, <1>drop, Typed DEF DropsAt
      <4> QED
        BY <4>1, <2>1, <1>drop DEF DropsAt
    <3> QED
      BY <3>1, <1>held
  <2> QED
    BY <2>3, <2>4, <1>drop, <1>goal
<1>12. ASSUME NEW c \in Calls, DropWritten(c) PROVE FreshStore'
  <2>1. call[c] # Idle
    BY <1>12, Numbers DEF DropWritten, At
  <2>2. PICK p \in Procs, k \in Keys : p = call[c].p /\ k = call[c].k
    BY <2>1, <1>calls
  <2>3. /\ call[c].pc = "drop" /\ call'[c].pc = "gone" /\ call'[c].p = p /\ call'[c].k = k
        /\ \A d \in Calls \ {c} : Dropped(p, k, d)
        /\ \A q \in Procs : Held(q)' = IF q = p THEN Held(q) \ {k} ELSE Held(q)
        /\ UNCHANGED <<file, told>> /\ StoreStays /\ BusStays
    BY <1>12, <2>2, DropWrittenEffect
  <2>5. ToldInv'
    BY <2>3, <1>told DEF StoreStays, BusStays
  <2>6. \A q \in Procs, j \in Keys : Pending(q, j) => Pending(q, j)'
    BY <2>3 DEF Pending, BusStays
  <2>7. DropsAt(p, k, {c})
    BY <2>3, <2>6, <1>toldStays DEF DropsAt, StoreStays
  <2> QED
    BY <2>5, <2>7, <1>drop
<1>13. ASSUME NEW p \in Procs, Sweep(p) PROVE FreshStore'
  <2>1. PICK k \in sweep[p] : Drop(p, k, call) /\ sweep' = [sweep EXCEPT ![p] = sweep[p] \ {k}]
    BY <1>13 DEF Sweep
  <2>2. k \in Keys /\ UNCHANGED <<primary, returned, file, told, news, deaf>>
    BY <1>13, Typed DEF Sweep
  <2>3. /\ \A d \in Calls : Dropped(p, k, d)
        /\ \A q \in Procs : Held(q)' = IF q = p THEN Held(q) \ {k} ELSE Held(q)
    BY <2>1, <2>2, HeardEffect
  <2>4. ToldInv'
    BY <2>2, <1>told
  <2>5. ASSUME NEW q \in Procs, NEW j \in Keys, ~(q = p /\ j = k), Pending(q, j)
        PROVE  Pending(q, j)'
    <3>1. j \in sweep[q] => j \in sweep'[q]
      BY <2>1, <2>5, Typed
    <3> QED
      BY <3>1, <2>2, <2>5 DEF Pending
  <2>7. DropsAt(p, k, {})
    BY <2>2, <2>3, <2>5, <1>toldStays DEF DropsAt
  <2> QED
    BY <2>2, <2>4, <2>7, <1>drop
<1>14. ASSUME NEW p \in Procs, Hear(p) PROVE FreshStore'
  <2>1. PICK n \in news[p] : /\ Drop(p, n.k, call)
                             /\ news' = [news EXCEPT ![p] = news[p] \ {n}]
                             /\ told' = [told EXCEPT ![p][n.k] = Larger(told[p][n.k], n.ver)]
    BY <1>14 DEF Hear
  <2>2. PICK k \in Keys, v \in Version : k = n.k /\ v = n.ver
    BY Figures
  <2>3. UNCHANGED <<primary, returned, file, deaf, sweep>>
    BY <1>14 DEF Hear
  <2>4. /\ \A d \in Calls : Dropped(p, k, d)
        /\ \A q \in Procs : Held(q)' = IF q = p THEN Held(q) \ {k} ELSE Held(q)
    BY <2>1, <2>2, HeardEffect
  <2>5. \A q \in Procs, j \in Keys :
          told'[q][j] = IF q = p /\ j = k THEN Larger(told[p][k], v) ELSE told[q][j]
    BY <2>1, <2>2, Typed
  <2>6. v \in Nat /\ v <= returned[k] /\ told[p][k] <= returned[k]
    BY <2>2, <1>inv, StoreAssumption DEF ToldInv, Version
  <2>7. /\ Larger(told[p][k], v) \in Nat /\ Larger(told[p][k], v) >= told[p][k]
        /\ Larger(told[p][k], v) <= returned[k]
    BY <2>6, Figures DEF Larger
  <2>8. \A q \in Procs, j \in Keys : told'[q][j] \in Nat /\ told'[q][j] >= told[q][j]
    BY <2>5, <2>7, Figures
  <2>9. \A q \in Procs : news'[q] \subseteq news[q]
    BY <2>1, Typed
  <2>10. ToldInv'
    BY <2>3, <2>5, <2>7, <2>9, <1>inv DEF ToldInv
  <2>11. ASSUME NEW q \in Procs, NEW j \in Keys, ~(q = p /\ j = k), Pending(q, j)
         PROVE  Pending(q, j)'
    <3>1. (\E m \in news[q] : m.k = j) => (\E m \in news'[q] : m.k = j)
      BY <2>1, <2>2, <2>11, Typed
    <3> QED
      BY <3>1, <2>3, <2>11 DEF Pending
  <2>13. DropsAt(p, k, {})
    BY <2>3, <2>4, <2>5, <2>8, <2>11 DEF DropsAt
  <2> QED
    BY <2>10, <2>13, <1>drop
<1>15. ASSUME NEW c \in Calls, NEW sent \in Publications, Return(c, sent) PROVE FreshStore'
  <2>1. call[c] # Idle /\ call[c].ver \in Version \cup {None}
    BY <1>15, <1>calls, CallShape, Numbers DEF Return, At
  <2>2. PICK p \in Procs, k \in Keys, v \in Version \cup {None} :
          p = call[c].p /\ k = call[c].k /\ v = call[c].ver
    BY <2>1, <1>calls
  <2>3. /\ call[c].pc = "gone" /\ Ends(c) /\ v \in Version
        /\ file' = [file EXCEPT ![p][k] = None]
        /\ told' = Knowing(p, k, v)
        /\ returned' = [returned EXCEPT ![k] = Larger(returned[k], v)]
        /\ news' = Announced(p, k, v) \/ (May("publish") /\ UNCHANGED news)
        /\ \A q \in Procs : Held(q)' = Held(q)
        /\ UNCHANGED <<primary, deaf, sweep>>
    <3>1. /\ call[c].pc = "gone" /\ Ends(c) /\ v \in Version
          /\ told' = Knowing(p, k, v)
          /\ news' = Announced(p, k, v) \/ (May("publish") /\ UNCHANGED news)
      BY <1>15, <2>2, ReturnEffect
    <3>2. \A q \in Procs : Held(q)' = Held(q)
      BY <1>15, IndexStays DEF Return
    <3>3. /\ file' = [file EXCEPT ![p][k] = None]
          /\ returned' = [returned EXCEPT ![k] = Larger(returned[k], v)]
          /\ UNCHANGED <<primary, deaf, sweep>>
      BY <1>15, <2>2 DEF Return
    <3> QED
      BY <3>1, <3>2, <3>3
  <2>4. call'[c].pc = "idle" /\ \A d \in Calls \ {c} : call'[d] = call[d]
    BY <2>3, Numbers DEF Ends, SameCalls
  <2>5. /\ \A q \in Procs, j \in Keys :
             told'[q][j] = IF q = p /\ j = k THEN Larger(told[p][k], v) ELSE told[q][j]
        /\ \A j \in Keys : returned'[j] = IF j = k THEN Larger(returned[k], v) ELSE returned[j]
    BY <2>3, Typed DEF Knowing
  <2>6. v \in Nat /\ told[p][k] \in Nat /\ returned[k] \in Nat /\ told[p][k] <= returned[k]
    BY <2>3, <1>inv, Figures, StoreAssumption DEF ToldInv, Version
  <2>7. /\ Larger(told[p][k], v) \in Nat /\ Larger(told[p][k], v) >= told[p][k]
        /\ Larger(returned[k], v) \in Nat /\ Larger(returned[k], v) >= returned[k]
        /\ Larger(returned[k], v) >= v /\ Larger(told[p][k], v) <= Larger(returned[k], v)
        /\ \A u \in Nat : u >= told[p][k] /\ u >= v => u >= Larger(told[p][k], v)
        /\ \A u \in Nat : u >= returned[k] /\ u >= v => u >= Larger(returned[k], v)
    BY <2>6 DEF Larger
  <2>8. \A q \in Procs, j \in Keys : told'[q][j] \in Nat /\ told'[q][j] >= told[q][j]
    BY <2>5, <2>7, Figures
  <2>9. \A j \in Keys : returned'[j] \in Nat /\ returned'[j] >= returned[j]
    BY <2>5, <2>7, Figures
  <2>10. ASSUME NEW q \in Procs, NEW n \in news'[q], n \notin news[q]
         PROVE  /\ n.k = k /\ n.ver = v
    BY <2>3, <2>10 DEF Announced
  <2>11. \A q \in Procs : news[q] \subseteq news'[q]
    BY <2>3, Typed DEF Announced
  <2>12. \A q \in Procs, j \in Keys : Pending(q, j) => Pending(q, j)'
    BY <2>3, <2>11 DEF Pending
  <2>13. ASSUME Tells, NEW q \in Procs, q # p PROVE Pending(q, k)'
    <3>1. ~May("publish")
      BY <2>13 DEF Tells, May
    <3>2. deaf[q] \/ [k |-> k, ver |-> v] \in news'[q]
      BY <3>1, <2>3, <2>13 DEF Announced
    <3> QED
      BY <3>2, <2>3 DEF Pending
  <2>14. ASSUME NEW q \in Procs, NEW j \in Keys PROVE Lasting(q, j)
    <3>1. CASE j # k
      <4>1. told'[q][j] = told[q][j] /\ returned'[j] = returned[j]
        BY <2>5, <3>1
      <4>2. \A d \in Calls : call'[d].pc = "gone" => call'[d] = call[d]
        BY <2>4
      <4> QED
        BY <4>1, <4>2, <2>12, <1>lasts
    <3>2. CASE j = k
      <4> SUFFICES ASSUME NEW u \in Version, Current(q, k, u) PROVE Current(q, k, u)'
        BY <3>2 DEF Lasting
      <4>1. u \in Nat /\ u >= told[q][k] /\ (Tells => u >= returned[k] \/ Pending(q, k))
        BY StoreAssumption DEF Current, Version
      <4>2. \A d \in Calls : call'[d].pc = "gone" /\ call'[d].p = q /\ call'[d].k = k =>
              u >= call'[d].ver
        BY <2>4 DEF Current
      <4>3. CASE q = p
        <5>1. u >= v
          BY <4>3, <2>2, <2>3 DEF Current
        <5>2. u >= told'[p][k]
          BY <5>1, <4>1, <4>3, <2>5, <2>7
        <5>3. Tells => u >= returned'[k] \/ Pending(p, k)'
          BY <5>1, <4>1, <4>3, <2>5, <2>7, <2>12
        <5> QED
          BY <5>2, <5>3, <4>2, <4>3 DEF Current
      <4>4. CASE q # p
        <5>1. u >= told'[q][k]
          BY <4>1, <4>4, <2>5
        <5>2. Tells => Pending(q, k)'
          BY <4>4, <2>13
        <5> QED
          BY <5>1, <5>2, <4>2 DEF Current
      <4> QED
        BY <4>3, <4>4
    <3> QED
      BY <3>1, <3>2
  <2>15. \A q \in Procs, j \in Keys : file'[q][j] \in {None, file[q][j]}
    BY <2>3, Typed
  <2>16. ASSUME NEW d \in Calls PROVE FloorInv(d)' /\ FreshInv(d)'
    <3>1. CASE d = c
      BY <3>1, <2>4, <1>noRead DEF Reading
    <3>2. CASE d # c
      <4>1. Abides(d)
        BY <3>2, <2>4 DEF Abides
      <4>2. \A j \in Keys : HalfRemoved(j) => HalfRemoved(j)'
        BY <2>3, <1>half DEF Ends
      <4> QED
        BY <4>1, <4>2, <2>3, <2>8, <2>14, <2>15, <1>other
    <3> QED
      BY <3>1, <3>2
  <2>17. HeldInv'
    <3>1. ASSUME NEW q \in Procs, NEW j \in Held(q)'
          PROVE  \/ file'[q][j] = None
                 \/ j \in Held(q) /\ file'[q][j] = file[q][j] /\ Lasting(q, j)
      BY <3>1, <2>3, <2>14, <2>15, Typed
    <3> QED
      BY <3>1, <1>held
  <2>18. ToldInv'
    <3>1. ASSUME NEW q \in Procs, NEW j \in Keys PROVE told'[q][j] <= returned'[j]
      <4>1. told[q][j] <= returned[j] /\ told[q][j] \in Nat /\ returned[j] \in Nat
        BY <1>inv, Figures DEF ToldInv
      <4> QED
        BY <4>1, <2>5, <2>7, <2>9
    <3>2. ASSUME NEW q \in Procs, NEW n \in news'[q] PROVE n.ver <= returned'[n.k]
      <4>1. CASE n \in news[q]
        <5>1. n.ver <= returned[n.k] /\ n.k \in Keys /\ n.ver \in Nat /\ returned[n.k] \in Nat
          BY <4>1, <1>inv, Figures, StoreAssumption DEF ToldInv, Version
        <5> QED
          BY <5>1, <2>9
      <4>2. CASE n \notin news[q]
        BY <3>2, <4>2, <2>5, <2>6, <2>7, <2>10
      <4> QED
        BY <4>1, <4>2
    <3> QED
      BY <3>1, <3>2 DEF ToldInv
  <2> QED
    BY <2>16, <2>17, <2>18, <1>goal
(* No call moves.                                                          *)
<1>still. ASSUME UNCHANGED <<call, primary, told, returned>>,
                 \A q \in Procs : Held(q)' = Held(q) /\ news'[q] \subseteq news[q],
                 \A q \in Procs, j \in Keys : file'[q][j] \in {None, file[q][j]},
                 \A q \in Procs : \A j \in Held(q) : Lasting(q, j),
                 \A d \in Calls : \A q \in Procs, j \in Keys :
                   call[d].pc \in Keeping /\ call[d].p = q /\ call[d].k = j => Lasting(q, j)
          PROVE  FreshStore'
  <2>1. ASSUME NEW d \in Calls PROVE FloorInv(d)' /\ FreshInv(d)'
    <3>1. Abides(d)
      BY <1>still DEF Abides
    <3>2. \A j \in Keys : HalfRemoved(j) => HalfRemoved(j)'
      BY <1>still DEF HalfRemoved, At
    <3> QED
      BY <3>1, <3>2, <1>still, <1>toldStays, <1>other
  <2>2. HeldInv'
    <3>1. ASSUME NEW q \in Procs, NEW j \in Held(q)'
          PROVE  \/ file'[q][j] = None
                 \/ j \in Held(q) /\ file'[q][j] = file[q][j] /\ Lasting(q, j)
      BY <3>1, <1>still, Typed
    <3> QED
      BY <3>1, <1>held
  <2>3. ToldInv'
    BY <1>still, <1>told
  <2> QED
    BY <2>1, <2>2, <2>3, <1>goal
<1>lastsStill. ASSUME UNCHANGED <<call, told, returned>>, NEW q \in Procs, NEW j \in Keys,
                      Tells => (Pending(q, j) => Pending(q, j)')
               PROVE  Lasting(q, j)
  BY <1>lastsStill, <1>lasts
<1>16. ASSUME NEW p \in Procs, Unlink(p) PROVE FreshStore'
  <2>1. PICK k \in doomed[p] : file' = [file EXCEPT ![p][k] = None]
    BY <1>16 DEF Unlink
  <2>2. UNCHANGED <<call, primary, told, returned, index, news, deaf, sweep>> /\ k \in Keys
    BY <1>16, Typed DEF Unlink, storeVars
  <2>3. \A q \in Procs : Held(q)' = Held(q)
    BY <2>2, IndexStays
  <2>4. \A q \in Procs, j \in Keys : file'[q][j] \in {None, file[q][j]}
    BY <2>1, <2>2, Typed
  <2>5. \A q \in Procs, j \in Keys : Lasting(q, j)
    BY <2>2, CurrentLasts
  <2> QED
    BY <2>2, <2>3, <2>4, <2>5, <1>still, Typed
<1>17. ASSUME NEW p \in Procs, LoseListener(p) PROVE FreshStore'
  <2>1. /\ UNCHANGED <<call, primary, told, returned, index, file, sweep>>
        /\ deaf' = [deaf EXCEPT ![p] = TRUE] /\ news' = [news EXCEPT ![p] = {}]
    BY <1>17 DEF LoseListener, storeVars
  <2>2. \A q \in Procs : Held(q)' = Held(q)
    BY <2>1, IndexStays
  <2>3. deaf'[p] = TRUE /\ \A q \in Procs \ {p} : deaf'[q] = deaf[q] /\ news'[q] = news[q]
    BY <2>1, Typed
  <2>4. ASSUME NEW q \in Procs, NEW j \in Keys PROVE Lasting(q, j)
    <3>1. Pending(q, j) => Pending(q, j)'
      BY <2>1, <2>3 DEF Pending
    <3> QED
      BY <3>1, <2>1, <1>lastsStill
  <2>5. \A q \in Procs : news'[q] \subseteq news[q]
    BY <2>1, Typed
  <2> QED
    BY <2>1, <2>2, <2>4, <2>5, <1>still, Typed
<1>18. ASSUME NEW p \in Procs, Reconnect(p), ReconnectsApart(p) PROVE FreshStore'
  <2>1. /\ UNCHANGED <<call, primary, told, returned, index, file, news>>
        /\ deaf' = [deaf EXCEPT ![p] = FALSE] /\ sweep' = [sweep EXCEPT ![p] = Held(p)]
    BY <1>18 DEF Reconnect, storeVars
  <2>2. \A q \in Procs : Held(q)' = Held(q)
    BY <2>1, IndexStays
  <2>3. /\ sweep'[p] = Held(p)
        /\ \A q \in Procs \ {p} : deaf'[q] = deaf[q] /\ sweep'[q] = sweep[q]
    BY <2>1, Typed
  <2>4. ASSUME NEW q \in Procs, NEW j \in Keys, q # p \/ j \in Held(p) PROVE Lasting(q, j)
    <3>1. Pending(q, j) => Pending(q, j)'
      BY <2>1, <2>3, <2>4 DEF Pending
    <3> QED
      BY <3>1, <2>1, <1>lastsStill
  <2>5. ASSUME NEW d \in Calls, NEW j \in Keys, call[d].pc \in Keeping, call[d].p = p,
               call[d].k = j
        PROVE  Lasting(p, j)
    <3>1. CASE Tells
      <4>1. ~May("reconnect")
        BY <3>1 DEF Tells, May
      <4>2. j \in Held(p)
        BY <4>1, <2>5, <1>18 DEF ReconnectsApart, Keeping, Reading
      <4> QED
        BY <4>2, <2>4
    <3>2. CASE ~Tells
      BY <3>2, <2>1, <1>lastsStill
    <3> QED
      BY <3>1, <3>2
  <2> QED
    BY <2>1, <2>2, <2>4, <2>5, <1>still, Typed
<1>19. ASSUME NEW p \in Procs, Restart(p), RestartsApart(p) PROVE FreshStore'
  <2>1. /\ \A d \in Calls : \/ call'[d] = Idle
                            \/ call'[d] = call[d] /\ call[d].p # p
        /\ \A d \in Calls : call[d] # Idle /\ call[d].p # p => call'[d] = call[d]
        /\ UNCHANGED <<file, told>> /\ StoreStays
        /\ \A q \in Procs \ {p} : Held(q)' = Held(q)
        /\ \A k \in Keys : k \in Held(p)' => file[p][k] # None
        /\ news' = [news EXCEPT ![p] = {}] /\ deaf' = [deaf EXCEPT ![p] = FALSE]
        /\ sweep' = [sweep EXCEPT ![p] = {}]
        /\ ~MayBeStale(p)
        /\ ~\E d \in Calls : At(d, "removePrimary") /\ call[d].p = p
        /\ IndexT'
    BY <1>19, <1>may, RestartEffect DEF RestartsApart
  <2>2. \A q \in Procs \ {p} : deaf'[q] = deaf[q] /\ sweep'[q] = sweep[q] /\ news'[q] = news[q]
    BY <2>1, Typed
  <2>3. ASSUME NEW q \in Procs, NEW j \in Keys PROVE Lasting(q, j)
    <3>1. Pending(q, j) => Pending(q, j)'
      <4>1. CASE q = p
        BY <2>1, <4>1 DEF Pending, MayBeStale
      <4>2. CASE q # p
        BY <2>2, <4>2 DEF Pending
      <4> QED
        BY <4>1, <4>2
    <3>2. \A d \in Calls : call'[d].pc = "gone" => call'[d] = call[d]
      BY <2>1, Numbers
    <3> QED
      BY <3>1, <3>2, <2>1, <1>lasts DEF StoreStays
  <2>4. ASSUME NEW d \in Calls PROVE FloorInv(d)' /\ FreshInv(d)'
    <3>1. CASE call'[d] = Idle
      BY <3>1, <1>noRead, Numbers DEF Reading
    <3>2. CASE call'[d] = call[d]
      <4>1. Abides(d)
        BY <3>2 DEF Abides
      <4>2. \A j \in Keys : HalfRemoved(j) => HalfRemoved(j)'
        BY <2>1, Numbers DEF HalfRemoved, At
      <4> QED
        BY <4>1, <4>2, <2>1, <2>3, <1>toldStays, <1>other DEF StoreStays
    <3> QED
      BY <2>1, <3>1, <3>2
  <2>5. ASSUME NEW j \in Held(p)' PROVE Current(p, j, file[p][j])'
    <3>1. j \in Keys
      <4>1. index' \in [Procs -> Seq(Keys)]
        BY <2>1 DEF IndexT
      <4>2. index'[p] \in Seq(Keys) /\ j \in ToSet(index'[p])
        BY <4>1, <2>5 DEF Held
      <4> QED
        BY <4>2, LenProperties DEF ToSet
    <3>2. file[p][j] # None
      BY <3>1, <2>1, <2>5
    <3>3. PICK v \in Version : v = file[p][j]
      BY <3>1, <3>2, Figures
    <3>4. j \in Held(p) \/ j \in doomed[p] \/ Handling(p, j)
      BY <3>1, <3>2 DEF StrayInv
    <3>5. CASE Handling(p, j)
      <4>1. PICK d \in Calls : /\ call[d].pc \in {"renamed", "unlink", "gone"}
                               /\ call[d].p = p /\ call[d].k = j
        BY <3>5 DEF Handling
      <4>2. call[d].pc \in {"renamed", "unlink"} /\ call[d].fresh
        BY <4>1, <2>1 DEF MayBeStale, At
      <4>3. call[d].pc = "renamed"
        BY <4>2, <1>inv DEF FreshInv
      <4>4. Current(p, j, v)
        BY <4>1, <4>2, <4>3, <3>2, <3>3, <1>inv DEF FreshInv
      <4>5. Current(p, j, v)'
        BY <4>4, <3>1, <2>3 DEF Lasting
      <4> QED
        BY <4>5, <3>3, <2>1
    <3>6. CASE j \in Held(p) \/ j \in doomed[p]
      <4>1. j \in Held(p)
        BY <3>6, <2>1 DEF MayBeStale
      <4>2. Current(p, j, v)
        BY <4>1, <3>2, <3>3, <1>inv DEF HeldInv
      <4>3. Current(p, j, v)'
        BY <4>2, <3>1, <2>3 DEF Lasting
      <4> QED
        BY <4>3, <3>3, <2>1
    <3> QED
      BY <3>4, <3>5, <3>6
  <2>6. HeldInv'
    <3>1. ASSUME NEW q \in Procs, NEW j \in Held(q)'
          PROVE  \/ file'[q][j] = None \/ Current(q, j, file[q][j])'
                 \/ j \in Held(q) /\ file'[q][j] = file[q][j] /\ Lasting(q, j)
      <4>1. CASE q = p
        BY <3>1, <4>1, <2>5
      <4>2. CASE q # p
        BY <3>1, <4>2, <2>1, <2>3, Typed
      <4> QED
        BY <4>1, <4>2
    <3> QED
      BY <3>1, <1>held
  <2>7. ToldInv'
    <3>1. \A q \in Procs : news'[q] \subseteq news[q]
      BY <2>1, Typed
    <3> QED
      BY <3>1, <2>1, <1>told DEF StoreStays
  <2> QED
    BY <2>4, <2>6, <2>7, <1>goal
<1>20. CASE UNCHANGED vars
  <2>1. UNCHANGED <<call, primary, told, returned, index, news, deaf, sweep, file>>
    BY <1>20 DEF vars, storeVars, cacheVars
  <2>2. \A q \in Procs : Held(q)' = Held(q)
    BY <2>1, IndexStays
  <2>3. \A q \in Procs, j \in Keys : Lasting(q, j)
    BY <2>1, CurrentLasts
  <2> QED
    BY <2>1, <2>2, <2>3, <1>still, Typed
<1>21. ASSUME NEW c \in Calls, Fetch(c) PROVE FreshStore'
  BY <1>21, <1>3, <1>4, <1>5, CacheStays DEF Fetch
<1> QED
  BY <1>1, <1>2, <1>6, <1>7, <1>8, <1>9, <1>10, <1>11, <1>12, <1>13, <1>14, <1>15, <1>16, <1>17,
     <1>18, <1>19, <1>20, <1>21 DEF Next

LEMMA FreshStarts == CacheInit => FreshStore
<1> SUFFICES ASSUME CacheInit PROVE FreshStore
  OBVIOUS
<1>1. /\ call = [c \in Calls |-> Idle] /\ returned = [k \in Keys |-> 1]
      /\ told = [p \in Procs |-> [k \in Keys |-> 1]] /\ news = [p \in Procs |-> {}]
      /\ file = [p \in Procs |-> [k \in Keys |-> None]] /\ index = [p \in Procs |-> << >>]
  BY DEF CacheInit, StoreInit
<1>2. ToldInv
  BY <1>1 DEF ToldInv
<1>3. HeldInv
  BY <1>1 DEF HeldInv, Held, ToSet
<1>4. \A c \in Calls : FloorInv(c) /\ FreshInv(c)
  BY <1>1, Numbers DEF FloorInv, FreshInv, Reading
<1> QED
  BY <1>2, <1>3, <1>4, StoreStarts DEF FreshStore

LEMMA FreshHolds ==
    ASSUME Races \subseteq {"reconnect", "publish"}
    PROVE  Spec => []FreshStore
<1>1. TypeInv /\ StrayInv /\ FreshStore /\ [Next]_vars => FreshStore'
  BY FreshStep
<1> QED
  BY <1>1, FreshStarts, StrayHolds, TypeHolds, PTL DEF Spec

(* A read never answers with bytes older than the last write its process   *)
(* had made or been told of when it began (the epoch blobcache.ts compares *)
(* after the rename, the drop put and remove wait for), also when the bus  *)
(* comes back under a read or loses the news of a write.  The other races  *)
(* of routed.ts and blobcache.ts are excluded.                             *)
THEOREM ReadsAreFresh ==
    ASSUME Races \subseteq {"reconnect", "publish"}
    PROVE  Spec => []ServesFresh
<1>1. FreshStore => ServesFresh
  BY DEF FreshStore, FloorInv, ServesFresh, At
<1> QED
  BY <1>1, FreshHolds, PTL

(* Where no process restarts and no listener is lost, every publication    *)
(* succeeds, no old blob is copied over a write or uncovered by a remove,  *)
(* and no overtaken read renames its file over a newer one, what a cache   *)
(* at rest would serve is no older than any write that has returned, on    *)
(* whatever process.                                                       *)
THEOREM CachesComeToAgree ==
    ASSUME MaxFaults = 0, Races = {}
    PROVE  Spec => []CachesAgree
<1>1. FreshStore /\ TypeInv => CachesAgree
  <2> SUFFICES ASSUME FreshStore, TypeInv, NEW p \in Procs, Quiet(p), NEW k \in Held(p),
                      file[p][k] # None
               PROVE  file[p][k] >= returned[k]
    BY DEF CachesAgree
  <2>1. Current(p, k, file[p][k])
    BY DEF FreshStore, HeldInv
  <2>2. Tells /\ ~Pending(p, k)
    BY DEF Tells, Pending, Quiet
  <2> QED
    BY <2>1, <2>2 DEF Current
<1>2. Races \subseteq {"reconnect", "publish"}
  OBVIOUS
<1>3. Spec => []FreshStore
  BY <1>2, FreshHolds
<1> QED
  BY <1>1, <1>3, TypeHolds, PTL

=============================================================================
