---------------------------- MODULE RelayProofs ----------------------------
(***************************************************************************)
(* What TLAPS proves of the relay of one document's channel, for every     *)
(* number of processes, connections, posts, checkpoints and faults: types, *)
(* and that the relay implements the log of OrderedLog.                    *)
(***************************************************************************)
EXTENDS ChannelRelay, FiniteSetTheorems, WellFoundedInduction, TLAPS

-----------------------------------------------------------------------------
(* Greatest and least positions *)

LEMMA LeastNumber ==
    ASSUME NEW T, T \subseteq Nat, T # {}
    PROVE  \E u \in T : \A v \in T : u <= v
<1> DEFINE Less == OpToRel(<, Nat)
<1>1. IsWellFoundedOn(Less, Nat)
  BY NatLessThanWellFounded
<1>2. \E u \in T : \A v \in T : <<v, u>> \notin Less
  <2> HIDE DEF Less
  <2> QED
    BY <1>1, WFMin
<1>3. \A u, v \in Nat : v < u => <<v, u>> \in Less
  BY DEF OpToRel
<1> HIDE DEF Less
<1>4. PICK u \in T : \A v \in T : <<v, u>> \notin Less
  BY <1>2
<1>5. \A v \in T : u <= v
  <2> SUFFICES ASSUME NEW v \in T, ~(u <= v) PROVE FALSE
    OBVIOUS
  <2>1. v < u /\ u \in Nat /\ v \in Nat
    OBVIOUS
  <2> QED
    BY <2>1, <1>3, <1>4
<1> QED
  BY <1>5

LEMMA MinIsLeast ==
    ASSUME NEW S, NEW n \in Nat, S \subseteq 0..n, S # {}
    PROVE  Min(S) \in S /\ \A y \in S : Min(S) <= y
<1>1. S \subseteq Nat
  OBVIOUS
<1>2. PICK x \in S : \A y \in S : x <= y
  BY <1>1, LeastNumber
<1> QED
  BY <1>2 DEF Min

LEMMA MaxIsGreatest ==
    ASSUME NEW S, NEW n \in Nat, S \subseteq 0..n, S # {}
    PROVE  Max(S) \in S /\ \A y \in S : y <= Max(S)
<1> DEFINE T == {u \in Nat : n - u \in S}
<1>1. T # {}
  <2>1. PICK x \in S : x \in 0..n
    OBVIOUS
  <2>2. n - x \in Nat /\ n - (n - x) = x
    BY <2>1
  <2> QED
    BY <2>2
<1>2. PICK u \in T : \A v \in T : u <= v
  BY <1>1, LeastNumber
<1>3. n - u \in S
  OBVIOUS
<1>4. \A y \in S : y <= n - u
  <2> SUFFICES ASSUME NEW y \in S PROVE y <= n - u
    OBVIOUS
  <2>1. y \in 0..n /\ n - y \in Nat /\ n - (n - y) = y
    OBVIOUS
  <2>2. u <= n - y
    BY <2>1, <1>2
  <2> QED
    BY <2>1, <2>2
<1>5. \E x \in S : \A y \in S : x >= y
  <2>1. \A y \in S : n - u >= y
    BY <1>4
  <2> QED
    BY <2>1, <1>3
<1>6. Max(S) \in S /\ \A y \in S : Max(S) >= y
  BY <1>5 DEF Max
<1> QED
  BY <1>6

-----------------------------------------------------------------------------
(* One sender's positions *)

Of(s, m) == {k \in 1..m : author[k] = s}

LEMMA OfFinite ==
    ASSUME NEW s, NEW m \in Nat
    PROVE  IsFiniteSet(Of(s, m)) /\ Cardinality(Of(s, m)) \in Nat
<1>1. IsFiniteSet(1..m)
  BY FS_Interval
<1>2. Of(s, m) \in SUBSET (1..m)
  BY DEF Of
<1> QED
  BY <1>1, <1>2, FS_Subset, FS_CardinalityType

LEMMA OfNothing == \A s : Cardinality(Of(s, 0)) = 0
<1>1. \A s : Of(s, 0) = {}
  BY DEF Of
<1> QED
  BY <1>1, FS_EmptySet

(* Counters grow with the positions of their sender. *)
LEMMA OfGrows ==
    ASSUME NEW s, NEW m \in Nat, NEW k \in Nat
    PROVE  /\ k <= m => Cardinality(Of(s, k)) <= Cardinality(Of(s, m))
           /\ m < k /\ author[k] = s => Cardinality(Of(s, m)) < Cardinality(Of(s, k))
<1>1. ASSUME k <= m PROVE Cardinality(Of(s, k)) <= Cardinality(Of(s, m))
  <2>1. Of(s, k) \in SUBSET Of(s, m)
    BY <1>1 DEF Of
  <2> QED
    BY <2>1, OfFinite, FS_Subset
<1>2. ASSUME m < k, author[k] = s PROVE Cardinality(Of(s, m)) < Cardinality(Of(s, k))
  <2>1. Of(s, m) \in SUBSET Of(s, k) /\ Of(s, m) # Of(s, k)
    BY <1>2 DEF Of
  <2>2. /\ Cardinality(Of(s, m)) <= Cardinality(Of(s, k))
        /\ Cardinality(Of(s, m)) # Cardinality(Of(s, k))
    BY <2>1, OfFinite, FS_Subset
  <2> QED
    BY <2>2, OfFinite
<1> QED
  BY <1>1, <1>2

(* As many of a sender's later frames as its counter went up by are all of *)
(* them.                                                                   *)
LEMMA CountedAreAll ==
    ASSUME NEW s, NEW m \in Nat, NEW top \in Nat, m <= top,
           NEW F, F \subseteq Of(s, top), \A k \in F : m < k,
           Cardinality(Of(s, top)) = Cardinality(Of(s, m)) + Cardinality(F)
    PROVE  \A q \in Of(s, top) : m < q => q \in F
<1> DEFINE G == Of(s, top) \ Of(s, m)
<1>1. IsFiniteSet(Of(s, top)) /\ IsFiniteSet(Of(s, m))
  BY OfFinite
<1>2. Of(s, m) \in SUBSET Of(s, top)
  BY DEF Of
<1>3. IsFiniteSet(G) /\ F \in SUBSET G
  <2>1. G \in SUBSET Of(s, top)
    OBVIOUS
  <2>2. \A k \in F : k \notin Of(s, m)
    BY DEF Of
  <2> QED
    BY <2>1, <2>2, <1>1, FS_Subset
<1>4. Cardinality(Of(s, top)) = Cardinality(Of(s, m)) + Cardinality(G)
  <2>1. Of(s, m) \cup G = Of(s, top) /\ Of(s, m) \cap G = {}
    BY <1>2
  <2>2. Cardinality(Of(s, m) \cup G)
            = Cardinality(Of(s, m)) + Cardinality(G) - Cardinality(Of(s, m) \cap G)
    BY <1>1, <1>3, FS_Union
  <2>3. Cardinality({}) = 0
    BY FS_EmptySet
  <2>4. Cardinality(G) \in Nat /\ Cardinality(Of(s, m)) \in Nat
    BY <1>1, <1>3, FS_CardinalityType
  <2> HIDE DEF G
  <2>5. Cardinality(Of(s, m) \cup G) = Cardinality(Of(s, top))
    BY <2>1
  <2>6. Cardinality(Of(s, m) \cap G) = 0
    BY <2>1, <2>3
  <2> QED
    BY <2>2, <2>4, <2>5, <2>6
<1>5. Cardinality(F) \in Nat /\ Cardinality(G) \in Nat
  BY <1>3, FS_Subset, FS_CardinalityType
<1>6. Cardinality(G) = Cardinality(F)
  BY <1>4, <1>5, OfFinite
<1>7. G = F
  <2> HIDE DEF G
  <2> QED
    BY <1>3, <1>6, FS_Subset
<1>8. \A q \in Of(s, top) : m < q => q \in G
  BY DEF Of
<1> QED
  BY <1>7, <1>8

-----------------------------------------------------------------------------
(* Invariants *)

(* RelayTypeOK, strengthened: what pages, notices and reads name was       *)
(* drawn, and what a checkpoint's notice names was trimmed.                *)
Marks == {NoMark, 0} \cup DOMAIN author
LogT ==
    /\ author \in Seq(Conns) /\ Last <= MaxPosts
    /\ rows \subseteq DOMAIN author /\ stored \subseteq DOMAIN author
    /\ trim \in 0..Last /\ trims \in 0..MaxTrims
PageT ==
    /\ page \in [Conns -> Page]
    /\ \A c \in Conns : page[c].base <= trim /\ page[c].got \subseteq DOMAIN author
PostT == post \in [Conns -> {0} \cup DOMAIN author]
HubT ==
    /\ mark \in [Procs -> Marks] /\ reading \in [Procs -> BOOLEAN]
    /\ due \in [Procs -> SUBSET Delivery]
    /\ \A p \in Procs : \A d \in due[p] : d.sets \in Marks
NoticeT(n, drawn, trimmed) ==
    /\ n \in Notice /\ n.seq \in 1..drawn
    /\ n.kind = "truncated" => n.seq <= trimmed
BusT ==
    /\ listener \in [Procs -> {"boot", "hearing", "deaf"}]
    /\ inbox \in [Procs -> Seq(Notice)] /\ resyncs \in [Procs -> BOOLEAN]
    /\ \A p \in Procs : \A i \in DOMAIN inbox[p] : NoticeT(inbox[p][i], Last, trim)
FaultT == faults \in 0..MaxFaults
TypeInv == LogT /\ PageT /\ PostT /\ HubT /\ BusT /\ FaultT

(* A page that has taken a frame has all its sender's before it.           *)
Gapless(c) == \A hi \in page[c].got : \A q \in 1..hi : author[q] = author[hi] => Holds(c, q)

-----------------------------------------------------------------------------
(* What a page accepts *)

LEMMA PageShape ==
    ASSUME TypeInv, NEW c \in Conns
    PROVE  /\ page[c] \in Page /\ page[c].pc \in PagePhases /\ page[c].at \in Procs
           /\ page[c].base \in Nat /\ page[c].got \subseteq 1..Last
           /\ DOMAIN author = 1..Last /\ Last \in Nat
BY DEF TypeInv, PageT, LogT, Page, Last

(* Of the frames one sender's page is sent, a live page takes those past   *)
(* what it has, and unless it reloads misses none in between.              *)
LEMMA FreshLive ==
    ASSUME TypeInv, NEW c \in Conns, page[c].pc = "live", Gapless(c),
           NEW s, NEW sent, sent \subseteq Of(s, Last), ~Skips(c, s, sent)
    PROVE  /\ Fresh(c, s, sent) \subseteq sent
           /\ \A q \in sent : q \in Fresh(c, s, sent) \/ Holds(c, q)
           /\ \A hi \in Fresh(c, s, sent) : \A q \in 1..hi :
                 author[q] = s => q \in Fresh(c, s, sent) \/ Holds(c, q)
<1> DEFINE X == Fresh(c, s, sent)
           T == Taken(c, s)
<1>types. /\ page[c].base \in Nat /\ page[c].got \subseteq 1..Last /\ Last \in Nat
          /\ DOMAIN author = 1..Last
  BY PageShape
<1>counter. \A q : Counter(q) = Cardinality(Of(author[q], q))
  BY DEF Counter, Of
<1>1. PICK m \in 0..Last : /\ Floor(c, s, sent) = Cardinality(Of(s, m))
                           /\ \A q \in 1..m : author[q] = s => Holds(c, q)
  <2>1. CASE T = {}
    <3>1. Floor(c, s, sent) = 0
      BY <2>1 DEF Floor
    <3> QED
      BY <3>1, OfNothing, <1>types
  <2>2. CASE T # {}
    <3>1. T \subseteq 0..Last
      BY <1>types DEF Taken
    <3>2. Max(T) \in T
      BY <3>1, <2>2, <1>types, MaxIsGreatest
    <3>3. Max(T) \in 1..Last /\ author[Max(T)] = s /\ Max(T) \in page[c].got
      BY <3>2, <1>types DEF Taken
    <3>4. Floor(c, s, sent) = Counter(Max(T))
      BY <2>2 DEF Floor
    <3>5. Floor(c, s, sent) = Cardinality(Of(s, Max(T)))
      BY <3>3, <3>4, <1>counter
    <3>6. \A q \in 1..Max(T) : author[q] = s => Holds(c, q)
      BY <3>3 DEF Gapless
    <3>7. Max(T) \in 0..Last
      BY <3>3
    <3> HIDE DEF T
    <3> QED
      BY <3>5, <3>6, <3>7
  <2> QED
    BY <2>1, <2>2
<1>2. \A q \in sent : q \in 1..Last /\ author[q] = s /\ Counter(q) = Cardinality(Of(s, q))
  BY <1>counter DEF Of
<1>3. \A q \in sent : q \in X <=> m < q
  <2> SUFFICES ASSUME NEW q \in sent PROVE q \in X <=> m < q
    OBVIOUS
  <2>1. q \in X <=> Cardinality(Of(s, q)) > Cardinality(Of(s, m))
    BY <1>1, <1>2 DEF Fresh
  <2>2. /\ q <= m => Cardinality(Of(s, q)) <= Cardinality(Of(s, m))
        /\ m < q => Cardinality(Of(s, m)) < Cardinality(Of(s, q))
    BY <1>2, OfGrows
  <2> QED
    BY <2>1, <2>2, <1>2, OfFinite
<1>4. X \subseteq sent
  BY DEF Fresh
<1>5. \A q \in sent : q \in X \/ Holds(c, q)
  BY <1>1, <1>2, <1>3
<1>6. ASSUME NEW hi \in X, NEW q \in 1..hi, author[q] = s
      PROVE  q \in X \/ Holds(c, q)
  <2>1. X \subseteq 0..Last
    BY <1>2, <1>4
  <2> DEFINE top == Max(X)
  <2>2. top \in X /\ \A y \in X : y <= top
    BY <2>1, <1>types, MaxIsGreatest
  <2>3. top \in 1..Last /\ author[top] = s /\ Counter(top) = Cardinality(Of(s, top))
    BY <2>2, <1>2, <1>4
  <2>4. Cardinality(Of(s, top)) = Cardinality(Of(s, m)) + Cardinality(X)
    BY <2>3, <1>1 DEF Skips
  <2> HIDE DEF top
  <2>5. X \subseteq Of(s, top) /\ \A k \in X : m < k
    BY <2>2, <1>2, <1>3, <1>4 DEF Of
  <2>6. m <= top /\ top \in Nat
    BY <2>2, <2>3, <2>5
  <2> HIDE DEF X
  <2>7. \A k \in Of(s, top) : m < k => k \in X
    BY <2>4, <2>5, <2>6, CountedAreAll
  <2>8. q \in Of(s, top)
    BY <2>2, <2>3, <2>1, <1>6 DEF Of
  <2>9. CASE m < q
    BY <2>7, <2>8, <2>9
  <2>10. CASE q <= m
    BY <2>10, <1>1, <1>6
  <2> QED
    BY <2>9, <2>10, <2>1
<1> QED
  BY <1>4, <1>5, <1>6

(* A page that opens begins with a sender wherever its replay does.        *)
LEMMA FreshReplay ==
    ASSUME TypeInv, NEW c \in Conns, page[c].pc = "welcomed", page[c].got = {},
           NEW s, NEW sent, sent \subseteq Of(s, Last)
    PROVE  Fresh(c, s, sent) = sent
<1>types. Last \in Nat /\ DOMAIN author = 1..Last
  BY PageShape
<1>counter. \A q : Counter(q) = Cardinality(Of(author[q], q))
  BY DEF Counter, Of
<1>1. CASE sent = {}
  BY <1>1 DEF Fresh
<1>2. CASE sent # {}
  <2>1. sent \subseteq 0..Last
    BY DEF Of
  <2>2. Min(sent) \in sent /\ \A y \in sent : Min(sent) <= y
    BY <2>1, <1>2, <1>types, MinIsLeast
  <2>3. \A q \in sent : q \in 1..Last /\ author[q] = s /\ Counter(q) = Cardinality(Of(s, q))
    BY <1>counter DEF Of
  <2>4. Floor(c, s, sent) = Counter(Min(sent)) - 1
    <3>1. Taken(c, s) = {}
      BY DEF Taken
    <3> QED
      BY <3>1 DEF Floor
  <2>5. ASSUME NEW q \in sent PROVE Counter(q) > Floor(c, s, sent)
    <3>1. Cardinality(Of(s, Min(sent))) <= Cardinality(Of(s, q))
      BY <2>2, <2>3, OfGrows
    <3>2. Cardinality(Of(s, Min(sent))) \in Nat /\ Cardinality(Of(s, q)) \in Nat
      BY <2>2, <2>3, OfFinite
    <3>3. Counter(q) = Cardinality(Of(s, q)) /\ Counter(Min(sent)) = Cardinality(Of(s, Min(sent)))
      BY <2>2, <2>3
    <3> QED
      BY <3>1, <3>2, <3>3, <2>4
  <2> QED
    BY <2>5 DEF Fresh
<1> QED
  BY <1>1, <1>2

(* What reaches a live page makes it reload or is taken, without a gap;    *)
(* what it does not take it holds.                                         *)
Closed(c, X) == \A hi \in X : \A q \in 1..hi : author[q] = author[hi] => q \in X \/ Holds(c, q)

LEMMA AcceptLive ==
    ASSUME TypeInv, NEW c \in Conns, page[c].pc = "live", Gapless(c),
           NEW arriving, arriving \subseteq DOMAIN author
    PROVE  \/ Accept(c, arriving) = Ended(page[c], "reloading")
           \/ \E X \in SUBSET arriving :
                 /\ Accept(c, arriving) = [page[c] EXCEPT !.got = @ \cup X]
                 /\ Closed(c, X)
                 /\ \A q \in arriving : author[q] # c => q \in X \/ Holds(c, q)
<1> DEFINE from(s) == {q \in arriving : author[q] = s}
           senders == {author[q] : q \in arriving} \ {c}
           X == UNION {Fresh(c, s, from(s)) : s \in senders}
<1>1. CASE \E s \in senders : Skips(c, s, from(s))
  BY <1>1 DEF Accept
<1>2. CASE \A s \in senders : ~Skips(c, s, from(s))
  <2>1. Accept(c, arriving) = [page[c] EXCEPT !.got = @ \cup X]
    BY <1>2 DEF Accept
  <2>2. ASSUME NEW s \in senders
        PROVE  /\ Fresh(c, s, from(s)) \subseteq from(s)
               /\ \A q \in from(s) : q \in Fresh(c, s, from(s)) \/ Holds(c, q)
               /\ \A hi \in Fresh(c, s, from(s)) : \A q \in 1..hi :
                     author[q] = s => q \in Fresh(c, s, from(s)) \/ Holds(c, q)
    <3>1. from(s) \subseteq Of(s, Last)
      BY PageShape DEF Of
    <3>2. ~Skips(c, s, from(s))
      BY <1>2
    <3> HIDE DEF from
    <3> QED
      BY <3>1, <3>2, FreshLive
  <2>3. X \in SUBSET arriving
    <3>1. \A s \in senders : Fresh(c, s, from(s)) \subseteq from(s)
      BY <2>2
    <3>2. \A s \in senders : from(s) \subseteq arriving
      OBVIOUS
    <3> HIDE DEF from, senders
    <3> QED
      BY <3>1, <3>2
  <2>4. ASSUME NEW hi \in X, NEW q \in 1..hi, author[q] = author[hi]
        PROVE  q \in X \/ Holds(c, q)
    <3>1. PICK s \in senders : hi \in Fresh(c, s, from(s))
      OBVIOUS
    <3>2. author[hi] = s
      BY <3>1, <2>2
    <3> HIDE DEF from
    <3> QED
      BY <3>1, <3>2, <2>2, <2>4
  <2>5. ASSUME NEW q \in arriving, author[q] # c PROVE q \in X \/ Holds(c, q)
    <3>1. author[q] \in senders /\ q \in from(author[q])
      BY <2>5
    <3> HIDE DEF from
    <3> QED
      BY <3>1, <2>2
  <2> HIDE DEF X
  <2> QED
    BY <2>1, <2>3, <2>4, <2>5 DEF Closed
<1> QED
  BY <1>1, <1>2

(* A page that opens takes its whole replay, or reloads.                   *)
LEMMA AcceptReplay ==
    ASSUME TypeInv, NEW c \in Conns, page[c].pc = "welcomed", page[c].got = {},
           NEW arriving, arriving \subseteq DOMAIN author
    PROVE  \/ Accept(c, arriving) = Ended(page[c], "reloading")
           \/ Accept(c, arriving)
                = [page[c] EXCEPT !.got = {q \in arriving : author[q] # c}]
<1> DEFINE from(s) == {q \in arriving : author[q] = s}
           senders == {author[q] : q \in arriving} \ {c}
           X == UNION {Fresh(c, s, from(s)) : s \in senders}
<1>1. CASE \E s \in senders : Skips(c, s, from(s))
  BY <1>1 DEF Accept
<1>2. CASE \A s \in senders : ~Skips(c, s, from(s))
  <2>1. Accept(c, arriving) = [page[c] EXCEPT !.got = @ \cup X]
    BY <1>2 DEF Accept
  <2>2. ASSUME NEW s \in senders PROVE Fresh(c, s, from(s)) = from(s)
    <3>1. from(s) \subseteq Of(s, Last)
      BY PageShape DEF Of
    <3> HIDE DEF from
    <3> QED
      BY <3>1, FreshReplay
  <2>3. X = UNION {from(s) : s \in senders}
    <3> HIDE DEF from, senders
    <3> QED
      BY <2>2
  <2>4. UNION {from(s) : s \in senders} = {q \in arriving : author[q] # c}
    OBVIOUS
  <2> HIDE DEF X
  <2> QED
    BY <2>1, <2>3, <2>4
<1> QED
  BY <1>1, <1>2

LEMMA EndedType ==
    ASSUME NEW pg \in Page, NEW what \in {"reloading", "gone"}
    PROVE  /\ Ended(pg, what) \in Page
           /\ Ended(pg, what).base = 0 /\ Ended(pg, what).got = {}
           /\ Ended(pg, what).at = pg.at /\ Ended(pg, what).pc = what
<1>1. Ended(pg, what) = [pc |-> what, at |-> pg.at, base |-> 0, got |-> {}]
  BY DEF Ended, NoFrames
<1>2. pg.at \in Procs
  BY DEF Page
<1> QED
  BY <1>1, <1>2 DEF Page, PagePhases

(* Wherever frames reach a page, its socket and its bytes stay.            *)
LEMMA AcceptType ==
    ASSUME TypeInv, NEW c \in Conns, NEW arriving, arriving \subseteq DOMAIN author
    PROVE  /\ Accept(c, arriving) \in Page
           /\ Accept(c, arriving).base <= page[c].base
           /\ Accept(c, arriving).got \subseteq DOMAIN author
<1> DEFINE from(s) == {q \in arriving : author[q] = s}
           senders == {author[q] : q \in arriving} \ {c}
           X == UNION {Fresh(c, s, from(s)) : s \in senders}
<1>types. /\ page[c] \in Page /\ page[c].base \in Nat /\ page[c].got \subseteq DOMAIN author
          /\ DOMAIN author \subseteq Positions
  BY PageShape, RelayAssumption DEF TypeInv, PageT, LogT, Positions
<1>1. CASE Accept(c, arriving) = page[c]
  BY <1>1, <1>types
<1>2. CASE Accept(c, arriving) = Ended(page[c], "reloading")
  BY <1>2, <1>types, EndedType
<1>3. CASE Accept(c, arriving) = [page[c] EXCEPT !.got = @ \cup X]
  <2>1. X \subseteq arriving
    BY DEF Fresh
  <2> HIDE DEF X
  <2> QED
    BY <1>3, <2>1, <1>types DEF Page
<1> QED
  BY <1>1, <1>2, <1>3 DEF Accept

-----------------------------------------------------------------------------
(* What a step does to the pages *)

Keeps(c) == page'[c] = page[c]
Stops(c, pc) == page'[c] = Ended(page[c], pc)
Lands(c, upTo) ==
    page[c].pc \in {"welcomed", "live"} /\ page'[c] = [page[c] EXCEPT !.base = upTo]

LEMMA SentEffect ==
    ASSUME NEW cs, NEW arriving, page' = Sent(cs, arriving)
    PROVE  /\ DOMAIN page' = Conns
           /\ \A c \in Conns :
                 page'[c] = IF c \in cs THEN Accept(c, arriving) ELSE page[c]
BY DEF Sent

LEMMA CrossEffect ==
    ASSUME NEW cs \in SUBSET Conns, NEW upTo, Cross(cs, upTo)
    PROVE  /\ DOMAIN page' = Conns
           /\ \A c \in Conns : \/ Keeps(c)
                               \/ c \in cs /\ page[c].pc = "live" /\ Stops(c, "reloading")
                               \/ c \in cs /\ Lands(c, upTo)
<1> DEFINE opening == {c \in cs : page[c].pc = "welcomed"
                                     \/ (page[c].pc = "live" /\ c \notin Range(author))}
<1>1. PICK how \in [opening -> {"lands", "opens", "reloads"}] :
         /\ \A c \in opening : page[c].pc = "welcomed" => how[c] # "reloads"
         /\ page' = [c \in Conns |->
              IF c \in opening THEN Crossed(page[c], how[c], upTo)
              ELSE IF c \in cs THEN Crossed(page[c], "reloads", upTo) ELSE page[c]]
  BY DEF Cross
<1>2. DOMAIN page' = Conns
  BY <1>1
<1>3. ASSUME NEW c \in Conns
      PROVE  \/ Keeps(c)
             \/ c \in cs /\ page[c].pc = "live" /\ Stops(c, "reloading")
             \/ c \in cs /\ Lands(c, upTo)
  <2>1. CASE c \in opening
    <3>1. page'[c] = Crossed(page[c], how[c], upTo) /\ how[c] \in {"lands", "opens", "reloads"}
      BY <2>1, <1>1
    <3>2. c \in cs /\ page[c].pc \in {"welcomed", "live"}
      BY <2>1
    <3> HIDE DEF opening
    <3>3. CASE how[c] = "lands"
      BY <3>1, <3>2, <3>3 DEF Crossed, Lands
    <3>4. CASE how[c] = "opens"
      BY <3>1, <3>4 DEF Crossed, Keeps
    <3>5. CASE how[c] = "reloads"
      BY <3>1, <3>2, <3>5 DEF Crossed, Keeps, Stops
    <3> QED
      BY <3>1, <3>3, <3>4, <3>5
  <2>2. CASE c \notin opening /\ c \in cs
    <3>1. page'[c] = Crossed(page[c], "reloads", upTo)
      BY <2>2, <1>1
    <3> QED
      BY <3>1, <2>2 DEF Crossed, Keeps, Stops
  <2>3. CASE c \notin opening /\ c \notin cs
    BY <2>3, <1>1 DEF Keeps
  <2> QED
    BY <2>1, <2>2, <2>3
<1> QED
  BY <1>2, <1>3

LEMMA BroadcastEffect ==
    ASSUME TypeInv, NEW c \in Conns, Broadcast(c)
    PROVE  /\ DOMAIN page' = Conns /\ page' = [d \in Conns |-> page'[d]]
           /\ \A d \in Conns \ {c} :
                 page'[d] = IF d \in Members(page[c].at) THEN Accept(d, {post[c]}) ELSE page[d]
           /\ page'[c] = IF page[c].pc = "live" THEN [page[c] EXCEPT !.got = @ \cup {post[c]}]
                         ELSE page[c]
<1> DEFINE S == Sent(Members(page[c].at) \ {c}, {post[c]})
<1>1. page' = [S EXCEPT ![c].got = IF page[c].pc = "live" THEN @ \cup {post[c]} ELSE @]
  BY DEF Broadcast
<1>2. /\ DOMAIN S = Conns
      /\ \A d \in Conns : S[d] = IF d \in Members(page[c].at) \ {c}
                                 THEN Accept(d, {post[c]}) ELSE page[d]
  BY DEF Sent
<1> HIDE DEF S
<1>3. page[c] \in Page
  BY DEF TypeInv, PageT
<1>4. /\ DOMAIN page' = Conns /\ \A d \in Conns \ {c} : page'[d] = S[d]
      /\ page'[c] = [S[c] EXCEPT !.got = IF page[c].pc = "live" THEN @ \cup {post[c]} ELSE @]
      /\ page' = [d \in Conns |-> page'[d]]
  BY <1>1, <1>2
<1>5. S[c] = page[c]
  BY <1>2
<1>6. page'[c] = IF page[c].pc = "live" THEN [page[c] EXCEPT !.got = @ \cup {post[c]}]
                 ELSE page[c]
  <2>1. CASE page[c].pc = "live"
    BY <2>1, <1>4, <1>5
  <2>2. CASE page[c].pc # "live"
    BY <2>2, <1>4, <1>5, <1>3 DEF Page
  <2> QED
    BY <2>1, <2>2
<1> QED
  BY <1>2, <1>4, <1>6

-----------------------------------------------------------------------------
(* Type correctness *)

LEMMA TypeImplied == TypeInv => RelayTypeOK
<1> SUFFICES ASSUME TypeInv PROVE RelayTypeOK
  OBVIOUS
<1>1. Len(author) = Last /\ DOMAIN author = 1..Last
  BY DEF TypeInv, LogT, Last
<1>2. \A p \in Procs : inbox[p] \in Seq(Notice) /\ due[p] \subseteq Delivery
  BY DEF TypeInv, HubT, BusT
<1> QED
  BY <1>1, <1>2 DEF TypeInv, LogT, PageT, PostT, HubT, BusT, FaultT, RelayTypeOK, Marks

(* The log and its marker only move forward.                               *)
Onward == DOMAIN author \subseteq DOMAIN author' /\ trim <= trim'

LEMMA SameLog ==
    ASSUME TypeInv, UNCHANGED logVars
    PROVE  LogT' /\ Onward
BY DEF TypeInv, LogT, logVars, Onward, Last

(* What a step leaves alone keeps its type while the log goes on.          *)
LEMMA TypeGoesOn ==
    ASSUME TypeInv, LogT', Onward
    PROVE  /\ UNCHANGED page => PageT'
           /\ UNCHANGED post => PostT'
           /\ UNCHANGED hubVars => HubT'
           /\ UNCHANGED busVars => BusT'
<1> USE DEF TypeInv, LogT, Onward
<1>1. UNCHANGED page => PageT'
  <2> SUFFICES ASSUME UNCHANGED page PROVE PageT'
    OBVIOUS
  <2>1. \A c \in Conns : page[c].base \in Nat
    BY DEF PageT, Page
  <2> QED
    BY <2>1 DEF PageT, Last
<1>2. UNCHANGED post => PostT'
  BY DEF PostT
<1>3. UNCHANGED hubVars => HubT'
  BY DEF HubT, hubVars, Marks
<1>4. UNCHANGED busVars => BusT'
  <2> SUFFICES ASSUME UNCHANGED busVars PROVE BusT'
    OBVIOUS
  <2>1. ASSUME NEW n, NoticeT(n, Last, trim) PROVE NoticeT(n, Last', trim')
    BY <2>1 DEF NoticeT, Notice, Last
  <2> QED
    BY <2>1 DEF BusT, busVars
<1> QED
  BY <1>1, <1>2, <1>3, <1>4

(* A page keeps its type under everything that may reach it.               *)
PageOK(pg) == pg \in Page /\ pg.base <= trim /\ pg.got \subseteq DOMAIN author

LEMMA PagesTyped ==
    ASSUME DOMAIN page' = Conns, \A c \in Conns : PageOK(page[c])',
           page' = [c \in Conns |-> page'[c]]
    PROVE  PageT'
BY DEF PageOK, PageT

LEMMA PagesOK == TypeInv => \A c \in Conns : PageOK(page[c])
BY DEF TypeInv, PageT, PageOK

LEMMA AcceptOK ==
    ASSUME TypeInv, NEW c \in Conns, NEW arriving, arriving \subseteq DOMAIN author
    PROVE  PageOK(Accept(c, arriving))
<1>1. /\ Accept(c, arriving) \in Page /\ Accept(c, arriving).base <= page[c].base
      /\ Accept(c, arriving).got \subseteq DOMAIN author
  BY AcceptType
<1>2. page[c].base <= trim /\ trim \in Nat /\ page[c].base \in Nat
  BY PageShape DEF TypeInv, PageT, LogT
<1>3. Accept(c, arriving).base \in Nat
  BY <1>1 DEF Page
<1> QED
  BY <1>1, <1>2, <1>3 DEF PageOK

LEMMA EndedOK ==
    ASSUME TypeInv, NEW c \in Conns, NEW what \in {"reloading", "gone"}
    PROVE  PageOK(Ended(page[c], what))
BY PageShape, EndedType DEF PageOK, TypeInv, LogT

(* The log's own steps.                                                    *)
LEMMA SentType ==
    ASSUME TypeInv, UNCHANGED logVars, NEW cs, NEW arriving,
           arriving \subseteq DOMAIN author, page' = Sent(cs, arriving)
    PROVE  PageT'
<1>1. /\ DOMAIN page' = Conns
      /\ \A c \in Conns :
            page'[c] = IF c \in cs THEN Accept(c, arriving) ELSE page[c]
  BY SentEffect
<1>2. \A c \in Conns : PageOK(page'[c])
  BY <1>1, AcceptOK, PagesOK
<1>3. \A c \in Conns : PageOK(page[c])'
  BY <1>2 DEF PageOK, logVars
<1>4. page' = [c \in Conns |-> page'[c]]
  BY DEF Sent
<1> QED
  BY <1>1, <1>3, <1>4, PagesTyped

LEMMA CrossType ==
    ASSUME TypeInv, LogT', Onward, NEW cs \in SUBSET Conns, NEW upTo \in Nat, upTo <= trim',
           Cross(cs, upTo)
    PROVE  PageT'
<1>1. /\ DOMAIN page' = Conns
      /\ \A c \in Conns : \/ Keeps(c)
                          \/ c \in cs /\ page[c].pc = "live" /\ Stops(c, "reloading")
                          \/ c \in cs /\ Lands(c, upTo)
  BY CrossEffect
<1>2. ASSUME NEW c \in Conns PROVE PageOK(page[c])'
  <2>1. /\ page[c] \in Page /\ page[c].base <= trim /\ page[c].got \subseteq DOMAIN author
        /\ trim \in Nat /\ trim' \in Nat /\ page[c].base \in Nat
    BY PageShape DEF TypeInv, PageT, LogT, Last
  <2>2. CASE Keeps(c)
    BY <2>1, <2>2 DEF Keeps, PageOK, Onward
  <2>3. CASE Stops(c, "reloading")
    BY <2>1, <2>3, EndedType DEF Stops, PageOK
  <2>4. CASE Lands(c, upTo)
    BY <2>1, <2>4 DEF Lands, PageOK, Onward, Page
  <2> QED
    BY <1>1, <2>2, <2>3, <2>4
<1>3. page' = [c \in Conns |-> page'[c]]
  BY DEF Cross
<1> QED
  BY <1>1, <1>2, <1>3, PagesTyped

LEMMA HeardType ==
    ASSUME TypeInv, LogT', Onward, NEW n, NoticeT(n, Last', trim'), inbox' = Heard(n),
           UNCHANGED <<listener, resyncs>>
    PROVE  BusT'
<1>1. ASSUME NEW m, NoticeT(m, Last, trim) PROVE NoticeT(m, Last', trim')
  BY <1>1 DEF NoticeT, Notice, Onward, TypeInv, LogT, Last
<1>2. ASSUME NEW p \in Procs
      PROVE  inbox'[p] \in Seq(Notice) /\ \A i \in DOMAIN inbox'[p] : NoticeT(inbox'[p][i], Last', trim')
  <2>1. inbox[p] \in Seq(Notice) /\ \A i \in DOMAIN inbox[p] : NoticeT(inbox[p][i], Last', trim')
    BY <1>1 DEF TypeInv, BusT
  <2>2. n \in Notice
    BY DEF NoticeT
  <2>3. CASE inbox'[p] = inbox[p]
    BY <2>1, <2>3
  <2>4. CASE inbox'[p] = Append(inbox[p], n)
    <3> DEFINE b == inbox[p]
    <3>1. b \in Seq(Notice)
      BY <2>1
    <3> HIDE DEF b
    <3>2. /\ Append(b, n) \in Seq(Notice) /\ DOMAIN Append(b, n) = 1..Len(b) + 1
          /\ Len(b) \in Nat /\ DOMAIN b = 1..Len(b)
          /\ \A i \in 1..Len(b) + 1 :
                Append(b, n)[i] = IF i \in 1..Len(b) THEN b[i] ELSE n
      BY <3>1, <2>2
    <3>3. \A i \in DOMAIN b : NoticeT(b[i], Last', trim')
      BY <2>1 DEF b
    <3>4. ASSUME NEW i \in 1..Len(b) + 1 PROVE NoticeT(Append(b, n)[i], Last', trim')
      BY <3>2, <3>3
    <3>5. inbox'[p] = Append(b, n)
      BY <2>4 DEF b
    <3> QED
      BY <3>2, <3>4, <3>5
  <2> QED
    BY <2>3, <2>4 DEF Heard
<1>3. inbox' \in [Procs -> Seq(Notice)]
  <2>1. inbox' = [p \in Procs |-> inbox'[p]]
    BY DEF Heard
  <2> QED
    BY <1>2, <2>1
<1> QED
  BY <1>2, <1>3 DEF BusT, TypeInv

LEMMA MarkTypes ==
    ASSUME TypeInv
    PROVE  /\ Marks \subseteq Int /\ Last \in Marks /\ 0 \in Marks /\ NoMark \in Marks
           /\ DOMAIN author \subseteq Marks /\ NoMark = -1
           /\ \A a, b \in Marks : Larger(a, b) \in Marks /\ a <= Larger(a, b) /\ b <= Larger(a, b)
           /\ \A a, b \in Marks : Larger(a, b) \in {a, b}
           /\ \A p \in Procs : mark[p] \in Marks
BY PageShape DEF TypeInv, LogT, HubT, Marks, NoMark, Larger, Last

(* A process's next watermark, and one more read of rows.                  *)
LEMMA HubSet ==
    ASSUME TypeInv, LogT', Onward, UNCHANGED reading, NEW p \in Procs,
           mark' = mark \/ (\E m \in Marks : mark' = [mark EXCEPT ![p] = m]),
           due' = due \/ (\E d \in Delivery : d.sets \in Marks
                              /\ due' = [due EXCEPT ![p] = @ \cup {d}])
    PROVE  HubT'
<1>1. Marks \subseteq Marks'
  BY DEF Marks, Onward
<1>2. mark' \in [Procs -> Marks']
  <2>1. mark' \in [Procs -> Marks]
    BY DEF TypeInv, HubT
  <2> QED
    BY <2>1, <1>1
<1>3. due' \in [Procs -> SUBSET Delivery] /\ \A q \in Procs : \A d \in due'[q] : d.sets \in Marks
  <2>1. CASE due' = due
    BY <2>1 DEF TypeInv, HubT
  <2>2. CASE due' # due
    <3>1. PICK d \in Delivery : d.sets \in Marks /\ due' = [due EXCEPT ![p] = @ \cup {d}]
      BY <2>2
    <3>2. \A q \in Procs : due'[q] \subseteq due[q] \cup {d}
      BY <3>1 DEF TypeInv, HubT
    <3>3. due' \in [Procs -> SUBSET Delivery]
      BY <3>1 DEF TypeInv, HubT
    <3> QED
      BY <3>1, <3>2, <3>3 DEF TypeInv, HubT
  <2> QED
    BY <2>1, <2>2
<1>4. \A q \in Procs : \A d \in due'[q] : d.sets \in Marks'
  BY <1>1, <1>3
<1> QED
  BY <1>2, <1>3, <1>4 DEF HubT, TypeInv

LEMMA DeliverLogType ==
    ASSUME TypeInv, UNCHANGED <<logVars, reading>>, NEW p \in Procs,
           NEW seq \in DOMAIN author, NEW own \in BOOLEAN, DeliverLog(p, seq, own)
    PROVE  HubT'
<1>1. LogT' /\ Onward
  BY SameLog
<1>2. mark[p] \in Marks /\ seq \in Marks /\ 0 \in Marks /\ NoMark \in Marks /\ Marks \subseteq Int
  BY MarkTypes
<1>3. Larger(IF mark[p] = NoMark THEN 0 ELSE mark[p], seq) \in Marks /\ Larger(mark[p], seq) \in Marks
  BY <1>2, MarkTypes
<1>4. mark' = mark \/ (\E m \in Marks : mark' = [mark EXCEPT ![p] = m])
  BY <1>2, <1>3 DEF DeliverLog
<1>5. \A a, b \in Int, m \in Marks :
         /\ [after |-> a, upTo |-> b, sets |-> m] \in Delivery
         /\ [after |-> a, upTo |-> b, sets |-> m].sets = m
  BY <1>2 DEF Delivery
<1>6. due' = due \/ (\E d \in Delivery : d.sets \in Marks
                         /\ due' = [due EXCEPT ![p] = @ \cup {d}])
  <2>1. seq \in Int /\ seq - 1 \in Int /\ mark[p] \in Int
    BY <1>2
  <2>2. \/ due' = due
        \/ due' = [due EXCEPT ![p] = @ \cup {[after |-> seq - 1, upTo |-> seq, sets |-> NoMark]}]
        \/ due' = [due EXCEPT ![p] = @ \cup {[after |-> mark[p],
                                               upTo |-> IF own THEN seq - 1 ELSE seq,
                                               sets |-> Larger(mark[p], seq)]}]
    BY DEF DeliverLog
  <2> QED
    BY <2>1, <2>2, <1>2, <1>3, <1>5
<1> QED
  BY <1>1, <1>4, <1>6, HubSet

LEMMA TailType ==
    ASSUME TypeInv, UNCHANGED <<logVars, listener, resyncs>>, NEW p \in Procs,
           inbox[p] # <<>>, inbox' = [inbox EXCEPT ![p] = Tail(@)]
    PROVE  BusT' /\ NoticeT(Head(inbox[p]), Last, trim)
<1> DEFINE b == inbox[p]
<1>1. b \in Seq(Notice) /\ b # <<>> /\ \A i \in DOMAIN b : NoticeT(b[i], Last, trim)
  BY DEF TypeInv, BusT
<1> HIDE DEF b
<1>2. /\ Tail(b) \in Seq(Notice) /\ DOMAIN Tail(b) = 1..Len(b) - 1 /\ DOMAIN b = 1..Len(b)
      /\ Len(b) \in Nat /\ Len(b) >= 1 /\ Head(b) = b[1]
      /\ \A i \in 1..Len(b) - 1 : Tail(b)[i] = b[i + 1]
  BY <1>1
<1>3. \A i \in DOMAIN Tail(b) : NoticeT(Tail(b)[i], Last, trim)
  <2> SUFFICES ASSUME NEW i \in 1..Len(b) - 1 PROVE NoticeT(b[i + 1], Last, trim)
    BY <1>2
  <2>1. i + 1 \in DOMAIN b
    BY <1>2
  <2> QED
    BY <2>1, <1>1
<1>4. NoticeT(Head(b), Last, trim)
  BY <1>1, <1>2
<1>5. inbox' = [inbox EXCEPT ![p] = Tail(b)]
  BY DEF b
<1>6. BusT'
  <2>1. \A q \in Procs : \A i \in DOMAIN inbox'[q] : NoticeT(inbox'[q][i], Last, trim)
    BY <1>3, <1>5 DEF TypeInv, BusT
  <2>2. inbox' \in [Procs -> Seq(Notice)]
    BY <1>2, <1>5 DEF TypeInv, BusT
  <2>3. Last' = Last /\ trim' = trim
    BY DEF logVars, Last
  <2> QED
    BY <2>1, <2>2, <2>3 DEF TypeInv, BusT
<1> QED
  BY <1>4, <1>6 DEF b

LEMMA TypeInit == Init => TypeInv
<1> SUFFICES ASSUME Init PROVE TypeInv
  OBVIOUS
<1>0. Len(author) = 0 /\ Last = 0 /\ DOMAIN author = {} /\ author \in Seq(Conns)
  BY DEF Init, Last
<1>1. LogT
  BY <1>0, RelayAssumption DEF Init, LogT
<1>2. PageT
  <2>1. PICK p \in Procs : page = [c \in Conns |-> NoFrames("new", p, 0)]
    BY DEF Init
  <2>2. NoFrames("new", p, 0) \in Page
    BY DEF NoFrames, Page, PagePhases
  <2>3. NoFrames("new", p, 0).base = 0 /\ NoFrames("new", p, 0).got = {}
    BY DEF NoFrames
  <2>4. trim = 0
    BY DEF Init
  <2> QED
    BY <2>1, <2>2, <2>3, <2>4 DEF PageT
<1>3. PostT /\ FaultT
  BY RelayAssumption DEF Init, PostT, FaultT
<1>4. HubT
  BY DEF Init, HubT, Marks
<1>5. BusT
  <2>1. <<>> \in Seq(Notice) /\ DOMAIN <<>> = {}
    OBVIOUS
  <2>2. inbox = [p \in Procs |-> <<>>]
    BY DEF Init
  <2>3. inbox \in [Procs -> Seq(Notice)] /\ \A p \in Procs : DOMAIN inbox[p] = {}
    BY <2>1, <2>2
  <2> QED
    BY <2>3 DEF Init, BusT
<1> QED
  BY <1>1, <1>2, <1>3, <1>4, <1>5 DEF TypeInv

(* One page moves, the log stays.                                          *)
LEMMA OnePageType ==
    ASSUME TypeInv, LogT', Onward, NEW c \in Conns, NEW pg, pg \in Page, pg.base <= trim,
           pg.got \subseteq DOMAIN author, page' = [page EXCEPT ![c] = pg]
    PROVE  PageT'
<1>1. pg.base \in Nat /\ trim \in Nat /\ trim' \in Nat
  BY DEF Page, TypeInv, LogT, Last
<1>2. \A d \in Conns : PageOK(page[d])'
  <2> SUFFICES ASSUME NEW d \in Conns PROVE PageOK(page[d])'
    OBVIOUS
  <2>1. page'[d] = pg \/ page'[d] = page[d]
    BY DEF TypeInv, PageT
  <2>2. /\ page[d] \in Page /\ page[d].base <= trim /\ page[d].got \subseteq DOMAIN author
        /\ page[d].base \in Nat
    BY PageShape DEF TypeInv, PageT
  <2> QED
    BY <2>1, <2>2, <1>1 DEF PageOK, Onward
<1>3. DOMAIN page' = Conns /\ page' = [d \in Conns |-> page'[d]]
  BY DEF TypeInv, PageT
<1> QED
  BY <1>2, <1>3, PagesTyped

LEMMA SocketType ==
    ASSUME TypeInv, NEW c \in Conns,
           (\E p \in Procs : Join(c, p)) \/ Hello(c) \/ Replay(c) \/ Leave(c)
    PROVE  TypeInv'
<1>log. UNCHANGED logVars
  BY DEF Join, Hello, Replay, Leave
<1>0. LogT' /\ Onward
  BY <1>log, SameLog
<1>1. UNCHANGED post /\ PostT'
  BY <1>0, TypeGoesOn DEF Join, Hello, Replay, Leave
<1>2. BusT'
  BY <1>0, TypeGoesOn DEF Join, Hello, Replay, Leave
<1>3. FaultT'
  BY RelayAssumption DEF Join, Hello, Replay, Leave, TypeInv, FaultT, Fault
<1>4. HubT'
  <2>1. CASE \E p \in Procs : Join(c, p)
    <3>1. PICK p \in Procs : Join(c, p)
      BY <2>1
    <3>2. reading' \in [Procs -> BOOLEAN]
      BY <3>1 DEF Join, TypeInv, HubT
    <3> QED
      BY <3>1, <3>2, <1>log DEF Join, TypeInv, HubT, Marks, logVars
  <2>2. CASE Hello(c) \/ Replay(c) \/ Leave(c)
    BY <2>2, <1>0, TypeGoesOn DEF Hello, Replay, Leave
  <2> QED
    BY <2>1, <2>2
<1>5. PageT'
  <2> DEFINE Typed(pg) == pg \in Page /\ pg.base <= trim /\ pg.got \subseteq DOMAIN author
  <2>bare. ASSUME NEW pc \in PagePhases, NEW p \in Procs, NEW b \in Nat, b <= trim
           PROVE  Typed(NoFrames(pc, p, b))
    BY <2>bare DEF NoFrames, Page
  <2>1. CASE \E p \in Procs : Join(c, p)
    <3>1. PICK p \in Procs : page' = [page EXCEPT ![c] = NoFrames("joined", p, 0)]
      BY <2>1 DEF Join
    <3>2. Typed(NoFrames("joined", p, 0))
      BY <2>bare DEF PagePhases, TypeInv, LogT, Last
    <3> QED
      BY <3>1, <3>2, <1>0, OnePageType
  <2>2. CASE Hello(c)
    <3>1. page' = [page EXCEPT ![c] = NoFrames("welcomed", page[c].at, trim)]
      BY <2>2 DEF Hello
    <3>2. Typed(NoFrames("welcomed", page[c].at, trim))
      BY <2>bare, PageShape DEF PagePhases, TypeInv, LogT, Last
    <3> QED
      BY <3>1, <3>2, <1>0, OnePageType
  <2>3. CASE Replay(c)
    <3> DEFINE taken == Accept(c, rows)
    <3>1. Typed(taken)
      BY AcceptOK DEF PageOK, TypeInv, LogT
    <3> HIDE DEF taken
    <3>2. Typed([taken EXCEPT !.pc = "live"])
      BY <3>1 DEF Page, PagePhases
    <3>3. \E pg : Typed(pg) /\ page' = [page EXCEPT ![c] = pg]
      <4>1. page' = [page EXCEPT ![c] = IF taken.pc = "welcomed"
                                        THEN [taken EXCEPT !.pc = "live"] ELSE taken]
        BY <2>3 DEF Replay, taken
      <4>2. \/ page' = [page EXCEPT ![c] = [taken EXCEPT !.pc = "live"]]
            \/ page' = [page EXCEPT ![c] = taken]
        BY <4>1
      <4> HIDE DEF Typed
      <4> QED
        BY <4>2, <3>1, <3>2
    <3> QED
      BY <3>3, <1>0, OnePageType
  <2>4. CASE Leave(c)
    <3>1. page' = [page EXCEPT ![c] = Ended(page[c], "gone")]
      BY <2>4 DEF Leave
    <3>2. Typed(Ended(page[c], "gone"))
      BY EndedOK DEF PageOK
    <3> QED
      BY <3>1, <3>2, <1>0, OnePageType
  <2> QED
    BY <2>1, <2>2, <2>3, <2>4
<1> QED
  BY <1>0, <1>1, <1>2, <1>3, <1>4, <1>5 DEF TypeInv

LEMMA DrawType ==
    ASSUME TypeInv, NEW c \in Conns, Draw(c)
    PROVE  TypeInv' /\ Last' = Last + 1 /\ author'[Last + 1] = c
           /\ DOMAIN author = 1..Last /\ DOMAIN author' = 1..Last + 1
           /\ \A q \in 1..Last : author'[q] = author[q]
<1>1. author \in Seq(Conns) /\ author' = Append(author, c) /\ Last < MaxPosts /\ Last = Len(author)
  BY DEF Draw, TypeInv, LogT, Last
<1>2. /\ author' \in Seq(Conns) /\ Len(author') = Last + 1 /\ author'[Last + 1] = c
      /\ DOMAIN author = 1..Last /\ DOMAIN author' = 1..Last + 1 /\ Last \in Nat
      /\ \A q \in 1..Last : author'[q] = author[q]
  BY <1>1
<1>3. Last' = Last + 1
  BY <1>2 DEF Last
<1>4. LogT'
  BY <1>2, <1>3, RelayAssumption, <1>1 DEF Draw, TypeInv, LogT
<1>5. Onward
  BY <1>2 DEF Draw, Onward, TypeInv, LogT
<1>6. PageT' /\ HubT' /\ BusT' /\ FaultT'
  BY <1>4, <1>5, TypeGoesOn DEF Draw, TypeInv, FaultT
<1>7. PostT'
  BY <1>2 DEF Draw, TypeInv, PostT
<1> QED
  BY <1>2, <1>3, <1>4, <1>6, <1>7 DEF TypeInv

LEMMA PostedType ==
    ASSUME TypeInv, NEW c \in Conns, post[c] # 0
    PROVE  /\ post[c] \in DOMAIN author /\ post[c] \in 1..Last /\ post[c] \in Marks
           /\ page[c].at \in Procs
BY PageShape, MarkTypes DEF TypeInv, PostT

LEMMA InsertType == \A c \in Conns : TypeInv /\ InsertRow(c) => TypeInv'
<1> SUFFICES ASSUME TypeInv, NEW c \in Conns, InsertRow(c) PROVE TypeInv'
  OBVIOUS
<1>1. LogT' /\ Onward
  BY PostedType DEF InsertRow, TypeInv, LogT, Onward, Last
<1> QED
  BY <1>1, TypeGoesOn DEF InsertRow, TypeInv, FaultT, pageVars

LEMMA BroadcastType == \A c \in Conns : TypeInv /\ Broadcast(c) => TypeInv'
<1> SUFFICES ASSUME TypeInv, NEW c \in Conns, Broadcast(c) PROVE TypeInv'
  OBVIOUS
<1> DEFINE seq == post[c]
           p == page[c].at
<1>log. UNCHANGED logVars /\ LogT' /\ Onward
  BY SameLog DEF Broadcast
<1>seq. seq \in DOMAIN author /\ seq \in 1..Last /\ seq \in Marks /\ p \in Procs
  BY PostedType DEF Broadcast
<1>1. PageT'
  <2>1. /\ DOMAIN page' = Conns /\ page' = [d \in Conns |-> page'[d]]
        /\ \A d \in Conns \ {c} : page'[d] = IF d \in Members(p) THEN Accept(d, {seq}) ELSE page[d]
        /\ page'[c] = IF page[c].pc = "live" THEN [page[c] EXCEPT !.got = @ \cup {seq}]
                      ELSE page[c]
    BY BroadcastEffect
  <2>2. ASSUME NEW d \in Conns PROVE PageOK(page'[d])
    <3>1. CASE d # c
      BY <3>1, <2>1, <1>seq, AcceptOK, PagesOK
    <3>2. CASE d = c
      <4>1. PageOK(page[c]) /\ DOMAIN author \subseteq Positions
        BY PagesOK, PageShape, RelayAssumption DEF TypeInv, LogT, Positions
      <4> QED
        BY <3>2, <2>1, <1>seq, <4>1 DEF PageOK, Page
    <3> QED
      BY <3>1, <3>2
  <2>3. \A d \in Conns : PageOK(page[d])'
    BY <2>2, <1>log DEF PageOK, logVars
  <2> QED
    BY <2>1, <2>3, PagesTyped
<1>2. PostT'
  BY <1>log DEF Broadcast, TypeInv, PostT, logVars
<1>3. HubT'
  <2>1. UNCHANGED reading
    BY DEF Broadcast
  <2>2. mark' = [mark EXCEPT ![p] = Larger(IF mark[p] = NoMark THEN 0 ELSE mark[p], seq)]
    BY DEF Broadcast
  <2>3. Larger(IF mark[p] = NoMark THEN 0 ELSE mark[p], seq) \in Marks
    BY <1>seq, MarkTypes
  <2>4. \/ due' = due
        \/ due' = [due EXCEPT ![p] = @ \cup {[after |-> mark[p], upTo |-> seq - 1,
                                               sets |-> NoMark]}]
    BY DEF Broadcast
  <2>5. /\ [after |-> mark[p], upTo |-> seq - 1, sets |-> NoMark] \in Delivery
        /\ [after |-> mark[p], upTo |-> seq - 1, sets |-> NoMark].sets \in Marks
    BY <1>seq, MarkTypes DEF Delivery
  <2>6. \E m \in Marks : mark' = [mark EXCEPT ![p] = m]
    BY <2>2, <2>3
  <2>7. due' = due \/ (\E d \in Delivery : d.sets \in Marks
                           /\ due' = [due EXCEPT ![p] = @ \cup {d}])
    BY <2>4, <2>5
  <2> HIDE DEF p, seq
  <2> QED
    BY <1>log, <1>seq, <2>1, <2>6, <2>7, HubSet
<1>4. BusT'
  <2> DEFINE n == [kind |-> "log", seq |-> seq, from |-> p]
  <2>1. UNCHANGED <<listener, resyncs>> /\ (inbox' = Heard(n) \/ UNCHANGED inbox)
    BY DEF Broadcast
  <2>2. NoticeT(n, Last', trim')
    BY <1>log, <1>seq DEF NoticeT, Notice, logVars, Last
  <2> HIDE DEF n
  <2>3. CASE inbox' = Heard(n)
    BY <2>1, <2>2, <2>3, <1>log, HeardType
  <2>4. CASE UNCHANGED inbox
    BY <2>1, <2>4, <1>log, TypeGoesOn DEF busVars
  <2> QED
    BY <2>1, <2>3, <2>4
<1>5. FaultT'
  BY RelayAssumption DEF Broadcast, Fault, TypeInv, FaultT
<1> QED
  BY <1>log, <1>1, <1>2, <1>3, <1>4, <1>5 DEF TypeInv

(* The last position a page has seen.                                      *)
LEMMA LastSeenType ==
    ASSUME TypeInv, NEW c \in Conns
    PROVE  LastSeen(c) \in 0..Last /\ \A q \in page[c].got : q <= LastSeen(c)
<1> DEFINE S == {page[c].base} \cup page[c].got
<1>1. S \subseteq 0..Last /\ S # {} /\ Last \in Nat
  BY PageShape DEF TypeInv, PageT, LogT
<1>2. Max(S) \in S /\ \A y \in S : y <= Max(S)
  <2> HIDE DEF S
  <2> QED
    BY <1>1, MaxIsGreatest
<1>3. LastSeen(c) = Max(S)
  BY DEF LastSeen
<1> HIDE DEF S
<1>4. LastSeen(c) \in 0..Last /\ \A y \in S : y <= LastSeen(c)
  BY <1>1, <1>2, <1>3
<1> QED
  BY <1>4 DEF S

LEMMA CheckpointType == \A c \in Conns : TypeInv /\ Checkpoint(c) => TypeInv'
<1> SUFFICES ASSUME TypeInv, NEW c \in Conns, Checkpoint(c) PROVE TypeInv'
  OBVIOUS
<1> DEFINE upTo == LastSeen(c)
           p == page[c].at
           n == [kind |-> "truncated", seq |-> upTo, from |-> p]
<1>seq. upTo \in 0..Last /\ upTo \in Nat /\ upTo > trim /\ trim \in Nat /\ p \in Procs
  BY LastSeenType, PageShape DEF Checkpoint, TypeInv, LogT, Last
<1>log. LogT' /\ Onward /\ trim' = upTo /\ Last' = Last
  BY <1>seq, PageShape, RelayAssumption DEF Checkpoint, TypeInv, LogT, Onward, Last
<1>1. PageT'
  <2>1. Members(p) \ {c} \in SUBSET Conns /\ Cross(Members(p) \ {c}, upTo)
    BY DEF Checkpoint, Members
  <2>2. upTo <= trim'
    BY <1>seq, <1>log
  <2> HIDE DEF upTo, p
  <2> QED
    BY <2>1, <2>2, <1>seq, <1>log, CrossType
<1>2. PostT' /\ HubT'
  BY <1>log, TypeGoesOn DEF Checkpoint
<1>3. BusT'
  <2>1. UNCHANGED <<listener, resyncs>> /\ (inbox' = Heard(n) \/ UNCHANGED inbox)
    BY DEF Checkpoint
  <2>2. NoticeT(n, Last', trim')
    <3>1. n.seq = upTo /\ n \in Notice
      BY <1>seq DEF Notice
    <3>2. upTo \in 1..Last /\ upTo <= upTo
      BY <1>seq
    <3> HIDE DEF n, upTo
    <3> QED
      BY <3>1, <3>2, <1>log DEF NoticeT
  <2> HIDE DEF n
  <2>3. CASE inbox' = Heard(n)
    BY <2>1, <2>2, <2>3, <1>log, HeardType
  <2>4. CASE UNCHANGED inbox
    BY <2>1, <2>4, <1>log, TypeGoesOn DEF busVars
  <2> QED
    BY <2>1, <2>3, <2>4
<1>4. FaultT'
  BY RelayAssumption DEF Checkpoint, Fault, TypeInv, FaultT
<1> QED
  BY <1>log, <1>1, <1>2, <1>3, <1>4 DEF TypeInv

LEMMA HubAndBusType ==
    ASSUME TypeInv, NEW p \in Procs,
           \/ Baseline(p) \/ Receive(p) \/ Deliver(p) \/ Connect(p) \/ Resync(p)
           \/ LoseListener(p) \/ Crash(p)
    PROVE  TypeInv'
<1>0. UNCHANGED logVars /\ LogT' /\ Onward /\ trim' = trim /\ Last' = Last
  BY SameLog DEF Baseline, Receive, Deliver, Connect, Resync, LoseListener, Crash, logVars, Last
<1>faults. FaultT'
  <2>1. UNCHANGED faults \/ Fault
    BY DEF Baseline, Receive, Deliver, Connect, Resync, LoseListener, Crash
  <2> QED
    BY <2>1, RelayAssumption DEF Fault, TypeInv, FaultT
<1>marks. /\ Last \in Marks /\ mark[p] \in Marks /\ Larger(mark[p], Last) \in Marks
          /\ Larger(IF mark[p] = NoMark THEN 0 ELSE mark[p], Last) \in Marks
          /\ Marks \subseteq Int /\ NoMark \in Marks
  BY MarkTypes
<1>1. CASE Baseline(p)
  <2>1. \E m \in Marks : mark' = [mark EXCEPT ![p] = m]
    <3>1. mark' = [mark EXCEPT ![p] = IF mark[p] = NoMark THEN Last ELSE mark[p]]
      BY <1>1 DEF Baseline
    <3> QED
      BY <3>1, <1>marks
  <2>2. mark' \in [Procs -> Marks] /\ reading' \in [Procs -> BOOLEAN] /\ due' = due
    BY <1>1, <2>1 DEF Baseline, TypeInv, HubT
  <2>3. Marks' = Marks
    BY <1>0 DEF Marks, logVars
  <2>4. HubT'
    BY <2>2, <2>3 DEF HubT, TypeInv
  <2>5. PageT' /\ PostT' /\ BusT'
    BY <1>1, <1>0, TypeGoesOn DEF Baseline, pageVars
  <2> QED
    BY <2>4, <2>5, <1>0, <1>faults DEF TypeInv
<1>2. CASE Receive(p)
  <2> DEFINE notice == Head(inbox[p])
  <2>1. BusT' /\ NoticeT(notice, Last, trim)
    BY <1>2, <1>0, TailType DEF Receive
  <2>2. notice.seq \in DOMAIN author /\ notice.seq \in Nat
    BY <2>1, PageShape DEF NoticeT, TypeInv, LogT, Last
  <2>3. PostT'
    BY <1>2, <1>0, TypeGoesOn DEF Receive
  <2>4. UNCHANGED reading
    BY <1>2 DEF Receive
  <2>5. CASE notice.kind = "log" /\ DeliverLog(p, notice.seq, notice.from = p) /\ UNCHANGED page
    <3>1. (notice.from = p) \in BOOLEAN
      OBVIOUS
    <3> HIDE DEF notice
    <3>2. HubT'
      BY <2>2, <2>4, <2>5, <3>1, <1>0, DeliverLogType
    <3> QED
      BY <2>1, <2>3, <2>5, <3>2, <1>0, <1>faults, TypeGoesOn DEF TypeInv
  <2>6. CASE /\ notice.kind = "truncated"
             /\ UNCHANGED page \/ Cross(Members(p), notice.seq)
             /\ UNCHANGED <<mark, due>>
    <3>1. HubT'
      BY <2>4, <2>6, <1>0, TypeGoesOn DEF hubVars
    <3>2. notice.seq <= trim' /\ Members(p) \in SUBSET Conns
      BY <2>1, <2>6, <1>0 DEF NoticeT, Members
    <3> HIDE DEF notice
    <3>3. PageT'
      BY <2>2, <2>6, <3>2, <1>0, CrossType, TypeGoesOn
    <3> QED
      BY <2>1, <2>3, <3>1, <3>3, <1>0, <1>faults DEF TypeInv
  <2> QED
    BY <1>2, <2>5, <2>6 DEF Receive
<1>3. CASE Deliver(p)
  <2>1. PICK d \in due[p] :
          /\ page' = Sent(Members(p), {q \in rows : d.after < q /\ q <= d.upTo})
          /\ due' = [due EXCEPT ![p] = @ \ {d}]
          /\ mark' = [mark EXCEPT ![p] = IF d.sets = NoMark THEN @ ELSE d.sets]
    BY <1>3 DEF Deliver
  <2>2. PageT'
    <3>1. {q \in rows : d.after < q /\ q <= d.upTo} \subseteq DOMAIN author
      BY DEF TypeInv, LogT
    <3> QED
      BY <2>1, <3>1, <1>0, SentType
  <2>3. HubT'
    <3>1. d.sets \in Marks
      BY DEF TypeInv, HubT
    <3>2. mark' \in [Procs -> Marks]
      BY <2>1, <3>1 DEF TypeInv, HubT
    <3>3. \A q \in Procs : due'[q] \subseteq due[q]
      BY <2>1 DEF TypeInv, HubT
    <3>4. due' \in [Procs -> SUBSET Delivery]
      BY <2>1 DEF TypeInv, HubT
    <3>5. Marks' = Marks /\ reading' = reading
      BY <1>3, <1>0 DEF Marks, Deliver, logVars
    <3> QED
      BY <3>2, <3>3, <3>4, <3>5 DEF TypeInv, HubT
  <2>4. PostT' /\ BusT'
    BY <1>3, <1>0, TypeGoesOn DEF Deliver
  <2> QED
    BY <2>2, <2>3, <2>4, <1>0, <1>faults DEF TypeInv
<1>4. CASE Connect(p)
  <2>1. BusT'
    BY <1>4, <1>0 DEF Connect, TypeInv, BusT
  <2> QED
    BY <1>4, <2>1, <1>0, <1>faults, TypeGoesOn DEF Connect, TypeInv, pageVars
<1>5. CASE Resync(p)
  <2>1. PageT' /\ PostT' /\ UNCHANGED reading
    BY <1>5, <1>0, TypeGoesOn DEF Resync, pageVars
  <2>2. BusT'
    BY <1>5, <1>0 DEF Resync, TypeInv, BusT
  <2> DEFINE d == [after |-> mark[p], upTo |-> Last, sets |-> Last]
  <2>3. d \in Delivery /\ d.sets \in Marks
    BY <1>marks DEF Delivery
  <2>4. /\ due' = due \/ due' = [due EXCEPT ![p] = @ \cup {d}]
        /\ \/ mark' = mark
           \/ mark' = [mark EXCEPT ![p] = Larger(IF mark[p] = NoMark THEN 0 ELSE mark[p], Last)]
    BY <1>5 DEF Resync
  <2> HIDE DEF d
  <2>5. HubT'
    BY <2>1, <2>3, <2>4, <1>marks, <1>0, HubSet
  <2> QED
    BY <2>1, <2>2, <2>5, <1>0, <1>faults DEF TypeInv
<1>6. CASE LoseListener(p)
  <2>1. BusT'
    <3>1. inbox' = [inbox EXCEPT ![p] = <<>>] /\ <<>> \in Seq(Notice) /\ DOMAIN <<>> = {}
      BY <1>6 DEF LoseListener
    <3>2. \A q \in Procs : inbox'[q] = <<>> \/ inbox'[q] = inbox[q]
      BY <3>1 DEF TypeInv, BusT
    <3>3. inbox' \in [Procs -> Seq(Notice)]
      BY <3>1 DEF TypeInv, BusT
    <3>4. \A q \in Procs : \A i \in DOMAIN inbox'[q] : NoticeT(inbox'[q][i], Last, trim)
      BY <3>1, <3>2 DEF TypeInv, BusT
    <3>5. listener' \in [Procs -> {"boot", "hearing", "deaf"}] /\ resyncs' \in [Procs -> BOOLEAN]
      BY <1>6 DEF LoseListener, TypeInv, BusT
    <3> QED
      BY <3>3, <3>4, <3>5, <1>0 DEF BusT
  <2> QED
    BY <1>6, <2>1, <1>0, <1>faults, TypeGoesOn DEF LoseListener, TypeInv, pageVars
<1>7. CASE Crash(p)
  <2>1. BusT'
    <3>1. inbox' = [inbox EXCEPT ![p] = <<>>] /\ <<>> \in Seq(Notice) /\ DOMAIN <<>> = {}
      BY <1>7 DEF Crash
    <3>2. \A q \in Procs : inbox'[q] = <<>> \/ inbox'[q] = inbox[q]
      BY <3>1 DEF TypeInv, BusT
    <3>3. inbox' \in [Procs -> Seq(Notice)]
      BY <3>1 DEF TypeInv, BusT
    <3>4. \A q \in Procs : \A i \in DOMAIN inbox'[q] : NoticeT(inbox'[q][i], Last, trim)
      BY <3>1, <3>2 DEF TypeInv, BusT
    <3>5. listener' \in [Procs -> {"boot", "hearing", "deaf"}] /\ resyncs' \in [Procs -> BOOLEAN]
      BY <1>7 DEF Crash, TypeInv, BusT
    <3> QED
      BY <3>3, <3>4, <3>5, <1>0 DEF BusT
  <2>2. HubT'
    BY <1>7, <1>0, <1>marks DEF Crash, TypeInv, HubT, Marks, logVars
  <2>3. PostT'
    BY <1>7, <1>0 DEF Crash, TypeInv, PostT, logVars
  <2>4. PageT'
    <3>1. DOMAIN page' = Conns /\ page' = [c \in Conns |-> page'[c]]
      BY <1>7 DEF Crash
    <3>2. \A c \in Conns : page'[c] = Ended(page[c], "gone") \/ page'[c] = page[c]
      BY <1>7 DEF Crash
    <3>3. \A c \in Conns : PageOK(page'[c])
      BY <3>2, EndedOK, PagesOK
    <3>4. \A c \in Conns : PageOK(page[c])'
      BY <3>3, <1>0 DEF PageOK, logVars
    <3> QED
      BY <3>1, <3>4, PagesTyped
  <2> QED
    BY <2>1, <2>2, <2>3, <2>4, <1>0, <1>faults DEF TypeInv
<1> QED
  BY <1>1, <1>2, <1>3, <1>4, <1>5, <1>6, <1>7

LEMMA TypeStep == TypeInv /\ [Next]_vars => TypeInv'
<1> SUFFICES ASSUME TypeInv, [Next]_vars PROVE TypeInv'
  OBVIOUS
<1>1. CASE UNCHANGED vars
  <2>1. UNCHANGED logVars /\ UNCHANGED <<page, post, faults>>
        /\ UNCHANGED hubVars /\ UNCHANGED busVars
    BY <1>1 DEF vars, pageVars
  <2> QED
    BY <2>1, SameLog, TypeGoesOn DEF TypeInv, FaultT
<1>2. CASE Next
  BY <1>2, SocketType, DrawType, InsertType, BroadcastType, CheckpointType, HubAndBusType DEF Next
<1> QED
  BY <1>1, <1>2

LEMMA AlwaysTyped == Spec => []TypeInv
BY TypeInit, TypeStep, PTL DEF Spec

(* What pages, processes and notices name was drawn, whatever is lost,     *)
(* crashes or overtakes: watermarks and trims never lead the log.          *)
THEOREM RelayTypeCorrect == Spec => []RelayTypeOK
BY AlwaysTyped, TypeImplied, PTL

-----------------------------------------------------------------------------
(* Invariants of the posts, the rows and the pages *)

(* A page that is still opening has posted nothing; a post under way is    *)
(* its page's latest.                                                      *)
Early == {"new", "joined", "welcomed"}
PostInv ==
    \A c \in Conns :
        /\ page[c].pc \in Early => \A q \in DOMAIN author : author[q] # c
        /\ post[c] # 0 => /\ author[post[c]] = c
                          /\ \A q \in DOMAIN author : author[q] = c => q <= post[c]

(* A position past the marker that has no row is its sender's latest: the  *)
(* post is under way, or its page died.                                    *)
RowInv ==
    \A q \in DOMAIN author : q > trim /\ q \notin rows =>
        /\ SlowRows
        /\ \A r \in DOMAIN author : author[r] = author[q] => r <= q
        /\ post[author[q]] = q \/ page[author[q]].pc = "gone"

(* While a process has yet to hear of a checkpoint made elsewhere it       *)
(* welcomes no page, its pages' bytes are older, and so is what it was     *)
(* told of before.                                                         *)
News(n, p) == n.kind = "truncated" /\ n.from # p
NewsInv ==
    \A p \in Procs : \A i \in DOMAIN inbox[p] : News(inbox[p][i], p) =>
        /\ \A c \in Members(p) : page[c].pc # "welcomed" /\ page[c].base <= inbox[p][i].seq
        /\ \A j \in 1..i : inbox[p][j].kind = "truncated" => inbox[p][j].seq <= inbox[p][i].seq

(* What a page has, by where it is.                                        *)
PageInv ==
    \A c \in Conns :
        /\ page[c].pc # "live" => page[c].got = {}
        /\ page[c].pc \notin {"welcomed", "live"} => page[c].base = 0
        /\ page[c].pc = "welcomed" => page[c].base = trim
        /\ page[c].pc = "live" =>
             /\ Gapless(c)
             /\ \A q \in DOMAIN author : author[q] = c => Holds(c, q) \/ q = post[c]

OrderInv == PostInv /\ RowInv /\ NewsInv /\ PageInv

-----------------------------------------------------------------------------
(* How a page moves *)

Joins(c) == page[c].pc = "new" /\ \E p \in Procs : page'[c] = NoFrames("joined", p, 0)
Greeted(c) == page[c].pc = "joined" /\ page'[c] = NoFrames("welcomed", page[c].at, trim)
Opens(c) ==
    /\ page[c].pc = "welcomed"
    /\ page'[c] = [pc |-> "live", at |-> page[c].at, base |-> page[c].base, got |-> rows]
Takes(c, X) ==
    /\ page[c].pc = "live" /\ X \subseteq DOMAIN author /\ Closed(c, X)
    /\ page'[c] = [page[c] EXCEPT !.got = @ \cup X]
Ends(c) ==
    \/ page[c].pc \in {"welcomed", "live"} /\ Stops(c, "reloading")
    \/ page[c].pc # "new" /\ Stops(c, "gone")
MovesOn(c, upTo) ==
    /\ page[c].pc = "live" /\ upTo \in Nat /\ page[c].base <= upTo
    /\ page'[c] = [page[c] EXCEPT !.base = upTo]
Goes(c) == Keeps(c) \/ Ends(c) \/ \E X : Takes(c, X)
Moves(c) == Goes(c) \/ Joins(c) \/ Greeted(c) \/ Opens(c) \/ \E upTo : MovesOn(c, upTo)

(* What every way to move leaves behind.                                   *)
LEMMA MoveFacts ==
    ASSUME TypeInv, NEW c \in Conns, Moves(c)
    PROVE  /\ page'[c].pc \in Early => page[c].pc \in Early
           /\ page[c].pc = "gone" => page'[c].pc = "gone"
           /\ page[c].pc # "new" => page'[c].at = page[c].at
           /\ page'[c].pc = "joined" => Keeps(c) \/ Joins(c)
           /\ page'[c].pc = "welcomed" => Keeps(c) \/ Greeted(c)
           /\ page'[c].pc = "live" /\ page[c].pc # "live" => Opens(c)
           /\ page'[c].pc = "live" /\ page[c].pc = "live" =>
                 page[c].base <= page'[c].base /\ page[c].got \subseteq page'[c].got
<1>types. /\ page[c] \in Page /\ page[c].base \in Nat
          /\ page[c] = [pc |-> page[c].pc, at |-> page[c].at, base |-> page[c].base,
                        got |-> page[c].got]
  BY PageShape DEF Page
<1>1. CASE Keeps(c)
  BY <1>1, <1>types DEF Keeps
<1>2. CASE Joins(c)
  <2>1. PICK p \in Procs : page[c].pc = "new" /\ page'[c] = NoFrames("joined", p, 0)
    BY <1>2 DEF Joins
  <2>2. page'[c].pc = "joined"
    BY <2>1 DEF NoFrames
  <2> QED
    BY <1>2, <2>1, <2>2 DEF Early
<1>3. CASE Greeted(c)
  BY <1>3, <1>types DEF Greeted, NoFrames, Early
<1>4. CASE Opens(c)
  BY <1>4, <1>types DEF Opens, Early
<1>5. CASE Ends(c)
  <2>1. PICK pc \in {"reloading", "gone"} :
           /\ Stops(c, pc) /\ page[c].pc # "new"
           /\ pc = "reloading" => page[c].pc \in {"welcomed", "live"}
    BY <1>5 DEF Ends
  <2>2. page'[c].pc = pc /\ page'[c].at = page[c].at /\ page'[c].base = 0
    BY <2>1, <1>types, EndedType DEF Stops
  <2> QED
    BY <2>1, <2>2, <1>types DEF Early
<1>6. CASE \E X : Takes(c, X)
  <2>1. PICK X : Takes(c, X)
    BY <1>6
  <2>2. /\ page'[c].pc = "live" /\ page'[c].at = page[c].at /\ page'[c].base = page[c].base
        /\ page'[c].got = page[c].got \cup X /\ page[c].pc = "live"
    BY <2>1, <1>types DEF Takes
  <2> QED
    BY <2>2, <1>types DEF Early
<1>7. CASE \E upTo : MovesOn(c, upTo)
  <2>1. PICK upTo : MovesOn(c, upTo)
    BY <1>7
  <2>2. /\ page'[c].pc = "live" /\ page'[c].at = page[c].at /\ page'[c].base = upTo
        /\ page'[c].got = page[c].got /\ page[c].pc = "live" /\ page[c].base <= upTo
    BY <2>1, <1>types DEF MovesOn
  <2> QED
    BY <2>1, <2>2, <1>types DEF Early
<1> QED
  BY <1>1, <1>2, <1>3, <1>4, <1>5, <1>6, <1>7 DEF Moves, Goes

LEMMA GoesFacts ==
    ASSUME TypeInv, NEW c \in Conns, Goes(c)
    PROVE  /\ page'[c].base <= page[c].base /\ page'[c].base \in Nat
           /\ page'[c].pc = "welcomed" => Keeps(c)
           /\ page'[c].pc # "new" => page[c].pc # "new"
<1>types. /\ page[c] \in Page /\ page[c].base \in Nat
          /\ page[c] = [pc |-> page[c].pc, at |-> page[c].at, base |-> page[c].base,
                        got |-> page[c].got]
  BY PageShape DEF Page
<1>1. CASE Keeps(c)
  BY <1>1, <1>types DEF Keeps
<1>2. CASE Ends(c)
  <2>1. page'[c].base = 0 /\ page'[c].pc \in {"reloading", "gone"} /\ page[c].pc # "new"
    BY <1>2, <1>types, EndedType DEF Ends, Stops
  <2> QED
    BY <2>1, <1>types
<1>3. CASE \E X : Takes(c, X)
  <2>1. page'[c].base = page[c].base /\ page'[c].pc = "live" /\ page[c].pc = "live"
    BY <1>3, <1>types DEF Takes
  <2> QED
    BY <2>1, <1>types
<1> QED
  BY <1>1, <1>2, <1>3 DEF Goes

LEMMA AllKeep == UNCHANGED page => \A c \in Conns : Goes(c) /\ Moves(c) /\ Keeps(c)
BY DEF Moves, Goes, Keeps

(* Frames that reach a process's pages while none of them is opening.      *)
LEMMA AcceptMoves ==
    ASSUME TypeInv, PageInv, NEW c \in Conns, page[c].pc # "welcomed",
           NEW arriving, arriving \subseteq DOMAIN author, page'[c] = Accept(c, arriving)
    PROVE  /\ Goes(c)
           /\ page'[c].pc = "live" /\ page[c].pc = "live" =>
                 \A q \in arriving : author[q] # c => q <= page'[c].base \/ q \in page'[c].got
<1>types. /\ page[c] \in Page
          /\ page[c] = [pc |-> page[c].pc, at |-> page[c].at, base |-> page[c].base,
                        got |-> page[c].got]
  BY PageShape DEF Page
<1>1. CASE page[c].pc # "live"
  BY <1>1 DEF Accept, Goes, Keeps
<1>2. CASE page[c].pc = "live"
  <2>1. Gapless(c)
    BY <1>2 DEF PageInv
  <2>2. CASE Accept(c, arriving) = Ended(page[c], "reloading")
    <3>1. page'[c].pc = "reloading"
      BY <2>2, <1>types, EndedType
    <3> QED
      BY <3>1, <2>2, <1>2 DEF Goes, Ends, Stops
  <2>3. CASE \E X \in SUBSET arriving :
                 /\ Accept(c, arriving) = [page[c] EXCEPT !.got = @ \cup X]
                 /\ Closed(c, X)
                 /\ \A q \in arriving : author[q] # c => q \in X \/ Holds(c, q)
    <3>1. PICK X \in SUBSET arriving :
                 /\ Accept(c, arriving) = [page[c] EXCEPT !.got = @ \cup X]
                 /\ Closed(c, X)
                 /\ \A q \in arriving : author[q] # c => q \in X \/ Holds(c, q)
      BY <2>3
    <3>2. Takes(c, X)
      BY <3>1, <1>2 DEF Takes
    <3>3. page'[c].base = page[c].base /\ page'[c].got = page[c].got \cup X
      BY <3>1, <1>types
    <3> QED
      BY <3>1, <3>2, <3>3 DEF Goes, Holds
  <2> QED
    BY <1>2, <2>1, <2>2, <2>3, AcceptLive
<1> QED
  BY <1>1, <1>2

LEMMA SocketMoves ==
    ASSUME TypeInv, PageInv, PostInv, NEW c \in Conns,
           (\E p \in Procs : Join(c, p)) \/ Hello(c) \/ Replay(c) \/ Leave(c),
           NEW d \in Conns
    PROVE  Moves(d) /\ (d # c => Keeps(d)) /\ (page'[c].pc = "live" => Opens(c))
<1>0. page \in [Conns -> Page]
  BY DEF TypeInv, PageT
<1>1. CASE \E p \in Procs : Join(c, p)
  <2>1. PICK p \in Procs : page[c].pc = "new" /\ page' = [page EXCEPT ![c] = NoFrames("joined", p, 0)]
    BY <1>1 DEF Join
  <2>2. page'[c] = NoFrames("joined", p, 0) /\ (d # c => page'[d] = page[d])
    BY <1>0, <2>1
  <2>3. NoFrames("joined", p, 0).pc = "joined"
    BY DEF NoFrames
  <2> QED
    BY <2>1, <2>2, <2>3 DEF Moves, Goes, Joins, Keeps
<1>2. CASE Hello(c)
  <2>1. /\ page[c].pc = "joined" /\ page'[c] = NoFrames("welcomed", page[c].at, trim)
        /\ d # c => page'[d] = page[d]
    BY <1>0, <1>2 DEF Hello
  <2>2. NoFrames("welcomed", page[c].at, trim).pc = "welcomed"
    BY DEF NoFrames
  <2> QED
    BY <2>1, <2>2 DEF Moves, Goes, Greeted, Keeps
<1>3. CASE Replay(c)
  <2> DEFINE taken == Accept(c, rows)
  <2>1. /\ page[c].pc = "welcomed" /\ (d # c => page'[d] = page[d])
        /\ page'[c] = IF taken.pc = "welcomed" THEN [taken EXCEPT !.pc = "live"] ELSE taken
    BY <1>0, <1>3 DEF Replay
  <2>2. page[c].got = {} /\ rows \subseteq DOMAIN author
    BY <2>1 DEF PageInv, TypeInv, LogT
  <2>3. \A q \in rows : author[q] # c
    BY <2>1, <2>2 DEF PostInv, Early
  <2>4. {q \in rows : author[q] # c} = rows
    BY <2>3
  <2>5. \/ taken = Ended(page[c], "reloading")
        \/ taken = [page[c] EXCEPT !.got = rows]
    <3>1. \/ Accept(c, rows) = Ended(page[c], "reloading")
          \/ Accept(c, rows) = [page[c] EXCEPT !.got = {q \in rows : author[q] # c}]
      BY <2>1, <2>2, AcceptReplay
    <3> QED
      BY <3>1, <2>4
  <2> HIDE DEF taken
  <2>6. CASE taken = Ended(page[c], "reloading")
    <3>1. taken.pc = "reloading"
      BY <2>6, <1>0, EndedType
    <3>2. page'[c] = taken
      BY <2>1, <3>1
    <3> QED
      BY <2>1, <2>6, <3>1, <3>2 DEF Moves, Goes, Ends, Stops, Keeps
  <2>7. CASE taken = [page[c] EXCEPT !.got = rows]
    <3>1. page[c] = [pc |-> page[c].pc, at |-> page[c].at, base |-> page[c].base,
                     got |-> page[c].got]
      BY <1>0 DEF Page
    <3>2. taken = [pc |-> "welcomed", at |-> page[c].at, base |-> page[c].base, got |-> rows]
      BY <2>1, <2>7, <3>1
    <3>3. page'[c] = [pc |-> "live", at |-> page[c].at, base |-> page[c].base, got |-> rows]
      BY <2>1, <3>2
    <3> QED
      BY <2>1, <3>3 DEF Moves, Goes, Opens, Keeps
  <2> QED
    BY <2>5, <2>6, <2>7
<1>4. CASE Leave(c)
  <2>1. /\ page[c].pc # "new" /\ page'[c] = Ended(page[c], "gone")
        /\ d # c => page'[d] = page[d]
    BY <1>0, <1>4 DEF Leave
  <2>2. Ended(page[c], "gone").pc = "gone"
    BY <1>0, EndedType
  <2> QED
    BY <2>1, <2>2 DEF Moves, Goes, Ends, Stops, Keeps
<1> QED
  BY <1>1, <1>2, <1>3, <1>4

LEMMA NoneOpening ==
    ASSUME ~LiveReplay, NEW p, NoneReplaying(p), NEW c \in Members(p)
    PROVE  page[c].pc # "welcomed"
BY DEF NoneReplaying

(* The frame of a post is taken by its page and by all live ones beside it. *)
LEMMA BroadcastMoves ==
    ASSUME ~LiveReplay, TypeInv, PageInv, PostInv, NEW c \in Conns, Broadcast(c),
           NEW d \in Conns
    PROVE  /\ Goes(d)
           /\ page'[d].pc = "live" /\ page[d].pc = "live" /\ page[d].at = page[c].at =>
                 post[c] <= page'[d].base \/ post[c] \in page'[d].got
<1>0. page \in [Conns -> Page] /\ post[c] # 0 /\ post[c] \in DOMAIN author /\ post[c] \in 1..Last
  BY PostedType DEF TypeInv, PageT, Broadcast
<1>1. CASE d # c
  <2>1. page'[d] = IF d \in Members(page[c].at) THEN Accept(d, {post[c]}) ELSE page[d]
    BY <1>1, BroadcastEffect
  <2>2. CASE d \in Members(page[c].at)
    <3>1. page[d].pc # "welcomed"
      BY <2>2, NoneOpening DEF Broadcast
    <3>2. author[post[c]] # d
      BY <1>0, <1>1 DEF PostInv
    <3>3. page'[d] = Accept(d, {post[c]}) /\ {post[c]} \subseteq DOMAIN author
      BY <2>1, <2>2, <1>0
    <3> QED
      BY <3>1, <3>2, <3>3, AcceptMoves
  <2>3. CASE d \notin Members(page[c].at)
    BY <2>1, <2>3 DEF Goes, Keeps, Members
  <2> QED
    BY <2>2, <2>3
<1>2. CASE d = c
  <2>1. page'[c] = IF page[c].pc = "live" THEN [page[c] EXCEPT !.got = @ \cup {post[c]}]
                   ELSE page[c]
    BY BroadcastEffect
  <2>2. CASE page[c].pc = "live"
    <3>1. author[post[c]] = c /\ \A q \in DOMAIN author : author[q] = c => q <= post[c]
      BY <1>0 DEF PostInv
    <3>2. Closed(c, {post[c]})
      <4> SUFFICES ASSUME NEW q \in 1..post[c], author[q] = c
                   PROVE  q = post[c] \/ Holds(c, q)
        BY <3>1 DEF Closed
      <4>1. q \in DOMAIN author
        BY <1>0, PageShape
      <4> QED
        BY <4>1, <2>2 DEF PageInv
    <3>3. Takes(c, {post[c]})
      BY <3>2, <2>1, <2>2, <1>0 DEF Takes
    <3>4. post[c] \in page'[c].got
      BY <2>1, <2>2, <1>0 DEF Page
    <3> QED
      BY <1>2, <3>3, <3>4 DEF Goes
  <2>3. CASE page[c].pc # "live"
    BY <1>2, <2>1, <2>3 DEF Goes, Keeps
  <2> QED
    BY <2>2, <2>3
<1> QED
  BY <1>1, <1>2

LEMMA DeliverMoves ==
    ASSUME ~LiveReplay, TypeInv, PageInv, NEW p \in Procs, NEW arriving \in SUBSET rows,
           NoneReplaying(p), page' = Sent(Members(p), arriving), NEW c \in Conns
    PROVE  /\ Goes(c)
           /\ page'[c].pc = "live" /\ page[c].pc = "live" /\ page[c].at = p =>
                 \A q \in arriving : author[q] # c => q <= page'[c].base \/ q \in page'[c].got
<1>1. page'[c] = IF c \in Members(p) THEN Accept(c, arriving) ELSE page[c]
  BY SentEffect
<1>2. arriving \subseteq DOMAIN author
  BY DEF TypeInv, LogT
<1>3. CASE c \in Members(p)
  BY <1>1, <1>2, <1>3, NoneOpening, AcceptMoves
<1>4. CASE c \notin Members(p)
  BY <1>1, <1>4 DEF Goes, Keeps, Members
<1> QED
  BY <1>3, <1>4

(* An announced checkpoint reaches pages that are open, with newer bytes.  *)
LEMMA CrossMoves ==
    ASSUME TypeInv, NEW cs \in SUBSET Conns, NEW upTo \in Nat, Cross(cs, upTo),
           \A c \in cs : page[c].pc # "welcomed" /\ page[c].base <= upTo, NEW c \in Conns
    PROVE  /\ Keeps(c) \/ (c \in cs /\ Ends(c)) \/ (c \in cs /\ MovesOn(c, upTo))
           /\ Moves(c)
<1>1. \/ Keeps(c)
      \/ c \in cs /\ page[c].pc = "live" /\ Stops(c, "reloading")
      \/ c \in cs /\ Lands(c, upTo)
  BY CrossEffect
<1>2. Keeps(c) \/ (c \in cs /\ Ends(c)) \/ (c \in cs /\ MovesOn(c, upTo))
  BY <1>1 DEF Lands, Ends, MovesOn
<1> QED
  BY <1>2 DEF Moves, Goes

(* A process that has none of others' checkpoints to hear of tells its own *)
(* pages of one.                                                           *)
LEMMA CheckpointMoves ==
    ASSUME ~SplitHello, ~LateNews, TypeInv, NEW c \in Conns, Checkpoint(c), NEW d \in Conns
    PROVE  /\ Moves(d) /\ page[d].pc # "welcomed" /\ page'[d].pc # "welcomed"
           /\ d \notin Members(page[c].at) => Keeps(d)
           /\ \A i \in DOMAIN inbox[page[c].at] : ~News(inbox[page[c].at][i], page[c].at)
           /\ LastSeen(c) \in 1..Last /\ LastSeen(c) > trim /\ trim' = LastSeen(c)
           /\ \A e \in Conns : page[e].base <= LastSeen(c)
<1>1. LastSeen(c) \in 0..Last /\ LastSeen(c) > trim /\ trim \in Nat /\ trim' = LastSeen(c) /\ Last \in Nat
  BY LastSeenType, PageShape DEF Checkpoint, TypeInv, LogT
<1>2. \A e \in Conns : page[e].base <= LastSeen(c) /\ page[e].pc # "welcomed"
  <2> SUFFICES ASSUME NEW e \in Conns
               PROVE  page[e].base <= LastSeen(c) /\ page[e].pc # "welcomed"
    OBVIOUS
  <2>1. page[e].base <= trim /\ page[e].base \in Nat
    BY PageShape DEF TypeInv, PageT
  <2> QED
    BY <2>1, <1>1 DEF Checkpoint
<1>3. \A i \in DOMAIN inbox[page[c].at] : ~News(inbox[page[c].at][i], page[c].at)
  BY DEF Checkpoint, Behind, News
<1>4. Cross(Members(page[c].at) \ {c}, LastSeen(c))
  BY DEF Checkpoint
<1>5. /\ Moves(d)
      /\ d \notin Members(page[c].at) => Keeps(d)
      /\ Keeps(d) \/ Ends(d) \/ MovesOn(d, LastSeen(c))
  <2> DEFINE cs == Members(page[c].at) \ {c}
             upTo == LastSeen(c)
  <2>1. cs \in SUBSET Conns /\ upTo \in Nat /\ Cross(cs, upTo)
    BY <1>1, <1>4 DEF Members
  <2>2. \A e \in cs : page[e].pc # "welcomed" /\ page[e].base <= upTo
    BY <2>1, <1>2
  <2> HIDE DEF cs, upTo
  <2>3. /\ Keeps(d) \/ (d \in cs /\ Ends(d)) \/ (d \in cs /\ MovesOn(d, upTo))
        /\ Moves(d)
    BY <2>1, <2>2, CrossMoves
  <2> QED
    BY <2>3 DEF cs, upTo
<1>6. page'[d].pc # "welcomed"
  <2>1. page[d] = [pc |-> page[d].pc, at |-> page[d].at, base |-> page[d].base,
                   got |-> page[d].got] /\ page[d] \in Page
    BY PageShape DEF Page
  <2>2. Keeps(d) => page'[d].pc = page[d].pc
    BY DEF Keeps
  <2>3. Ends(d) => page'[d].pc \in {"reloading", "gone"}
    BY <2>1, EndedType DEF Ends, Stops
  <2>4. MovesOn(d, LastSeen(c)) => page'[d].pc = "live"
    BY <2>1 DEF MovesOn
  <2> QED
    BY <1>2, <1>5, <2>2, <2>3, <2>4
<1> QED
  BY <1>1, <1>2, <1>3, <1>5, <1>6

LEMMA HeadIsFirst ==
    ASSUME TypeInv, NEW p \in Procs, inbox[p] # <<>>
    PROVE  /\ 1 \in DOMAIN inbox[p] /\ inbox[p][1] = Head(inbox[p])
           /\ DOMAIN Tail(inbox[p]) = {i \in Nat : i + 1 \in DOMAIN inbox[p] /\ i >= 1}
           /\ \A i \in DOMAIN Tail(inbox[p]) :
                 i \in Nat /\ i >= 1 /\ i + 1 \in DOMAIN inbox[p]
                 /\ Tail(inbox[p])[i] = inbox[p][i + 1]
           /\ Head(inbox[p]).seq \in Nat
<1> DEFINE b == inbox[p]
<1>1. b \in Seq(Notice) /\ b # <<>>
  BY DEF TypeInv, BusT
<1> HIDE DEF b
<1>2. /\ DOMAIN Tail(b) = 1..Len(b) - 1 /\ DOMAIN b = 1..Len(b)
      /\ Len(b) \in Nat /\ Len(b) >= 1 /\ Head(b) = b[1] /\ Head(b) \in Notice
      /\ \A i \in 1..Len(b) - 1 : Tail(b)[i] = b[i + 1]
  BY <1>1
<1>3. Head(b).seq \in Nat
  BY <1>2 DEF Notice
<1> QED
  BY <1>2, <1>3 DEF b

LEMMA ReceiveMoves ==
    ASSUME TypeInv, NewsInv, NEW p \in Procs, Receive(p), NEW c \in Conns
    PROVE  /\ Moves(c)
           /\ \/ Keeps(c)
              \/ /\ News(Head(inbox[p]), p) /\ c \in Members(p)
                 /\ Ends(c) \/ MovesOn(c, Head(inbox[p]).seq)
<1>0. inbox[p] # <<>>
  BY DEF Receive
<1> DEFINE n == Head(inbox[p])
<1>1. CASE UNCHANGED page
  BY <1>1, AllKeep DEF Keeps
<1>2. CASE News(n, p) /\ Cross(Members(p), n.seq)
  <2>1. 1 \in DOMAIN inbox[p] /\ inbox[p][1] = n /\ n.seq \in Nat
    BY <1>0, HeadIsFirst
  <2>2. \A d \in Members(p) : page[d].pc # "welcomed" /\ page[d].base <= n.seq
    BY <2>1, <1>2 DEF NewsInv
  <2>3. Members(p) \in SUBSET Conns
    BY DEF Members
  <2> HIDE DEF n
  <2>4. /\ Keeps(c) \/ (c \in Members(p) /\ Ends(c)) \/ (c \in Members(p) /\ MovesOn(c, n.seq))
        /\ Moves(c)
    BY <1>2, <2>1, <2>2, <2>3, CrossMoves
  <2> QED
    BY <2>4, <1>2 DEF n
<1> QED
  BY <1>1, <1>2 DEF Receive, News

LEMMA CrashMoves ==
    ASSUME TypeInv, NEW p \in Procs, Crash(p), NEW c \in Conns
    PROVE  /\ Goes(c)
           /\ c \in Members(p) => page'[c].pc = "gone" /\ page'[c].base = 0
           /\ c \notin Members(p) => Keeps(c)
<1>1. page'[c] = IF c \in Members(p) THEN Ended(page[c], "gone") ELSE page[c]
  BY DEF Crash
<1>2. page[c] \in Page
  BY PageShape
<1> QED
  BY <1>1, <1>2, EndedType DEF Goes, Ends, Stops, Keeps, Members

LEMMA EveryMove ==
    ASSUME ~LiveReplay, ~SplitHello, ~LateNews, TypeInv, OrderInv, Next, NEW c \in Conns
    PROVE  Moves(c)
<1> USE DEF OrderInv
<1>1. ASSUME NEW d \in Conns, \/ \E p \in Procs : Join(d, p)
                              \/ Hello(d) \/ Replay(d) \/ Leave(d)
      PROVE  Moves(c)
  BY <1>1, SocketMoves
<1>2. ASSUME NEW d \in Conns, Draw(d) \/ InsertRow(d) PROVE Moves(c)
  BY <1>2, AllKeep DEF Draw, InsertRow, pageVars
<1>3. ASSUME NEW d \in Conns, Broadcast(d) PROVE Moves(c)
  BY <1>3, BroadcastMoves DEF Moves
<1>4. ASSUME NEW d \in Conns, Checkpoint(d) PROVE Moves(c)
  BY <1>4, CheckpointMoves
<1>5. ASSUME NEW p \in Procs, Baseline(p) \/ Connect(p) \/ Resync(p) \/ LoseListener(p)
      PROVE  Moves(c)
  BY <1>5, AllKeep DEF Baseline, Connect, Resync, LoseListener, pageVars
<1>6. ASSUME NEW p \in Procs, Receive(p) PROVE Moves(c)
  BY <1>6, ReceiveMoves
<1>7. ASSUME NEW p \in Procs, Deliver(p) PROVE Moves(c)
  <2>1. PICK d \in due[p] : /\ NoneReplaying(p)
                            /\ page' = Sent(Members(p), {q \in rows : d.after < q /\ q <= d.upTo})
    BY <1>7 DEF Deliver
  <2>2. {q \in rows : d.after < q /\ q <= d.upTo} \in SUBSET rows
    OBVIOUS
  <2> QED
    BY <2>1, <2>2, DeliverMoves DEF Moves
<1>8. ASSUME NEW p \in Procs, Crash(p) PROVE Moves(c)
  BY <1>8, CrashMoves DEF Moves
<1> QED
  BY <1>1, <1>2, <1>3, <1>4, <1>5, <1>6, <1>7, <1>8 DEF Next

-----------------------------------------------------------------------------
(* The invariants of the posts and the rows *)

(* Only a page that posts, is done with it, or dies changes what is under  *)
(* way.                                                                    *)
LEMMA PostSteps ==
    ASSUME TypeInv, Next
    PROVE  \/ \E c \in Conns : Draw(c)
           \/ /\ UNCHANGED author
              /\ \/ UNCHANGED post
                 \/ \E c \in Conns : Broadcast(c) /\ post' = [post EXCEPT ![c] = 0]
                 \/ \E p \in Procs : /\ Crash(p)
                                     /\ post' = [c \in Conns |-> IF page[c].at = p THEN 0
                                                                 ELSE post[c]]
BY DEF Next, Join, Hello, Replay, Leave, Draw, InsertRow, Broadcast, Checkpoint, Baseline,
       Receive, Deliver, Connect, Resync, LoseListener, Crash, logVars, pageVars

LEMMA PostStep ==
    ASSUME TypeInv, PostInv, Next, \A c \in Conns : Moves(c)
    PROVE  PostInv'
<1>0. post \in [Conns -> {0} \cup DOMAIN author]
  BY DEF TypeInv, PostT
<1>early. \A c \in Conns : page'[c].pc \in Early => page[c].pc \in Early
  BY MoveFacts
<1>1. CASE \E c \in Conns : Draw(c)
  <2>1. PICK c \in Conns : Draw(c)
    BY <1>1
  <2>2. /\ Last' = Last + 1 /\ author'[Last + 1] = c /\ Last \in Nat
        /\ DOMAIN author = 1..Last /\ DOMAIN author' = 1..Last + 1
        /\ \A q \in 1..Last : author'[q] = author[q]
    BY <2>1, DrawType, PageShape
  <2>3. page[c].pc \in {"live", "reloading"} /\ post' = [post EXCEPT ![c] = Last + 1] /\ page' = page
    BY <2>1 DEF Draw
  <2>4. ASSUME NEW d \in Conns, page'[d].pc \in Early, NEW q \in 1..Last + 1
        PROVE  author'[q] # d
    <3>1. d # c
      BY <2>3, <2>4 DEF Early
    <3> QED
      BY <3>1, <2>2, <2>3, <2>4 DEF PostInv
  <2>5. ASSUME NEW d \in Conns, post'[d] # 0
        PROVE  /\ author'[post'[d]] = d
               /\ \A q \in 1..Last + 1 : author'[q] = d => q <= post'[d]
    <3>1. CASE d = c
      BY <3>1, <2>2, <2>3, <1>0
    <3>2. CASE d # c
      <4>1. post'[d] = post[d] /\ post[d] \in 1..Last
        BY <3>2, <2>2, <2>3, <2>5, <1>0
      <4> QED
        BY <4>1, <3>2, <2>2, <2>5 DEF PostInv
    <3> QED
      BY <3>1, <3>2
  <2> QED
    BY <2>2, <2>4, <2>5 DEF PostInv
<1>2. CASE UNCHANGED author /\ \A c \in Conns : post'[c] \in {0, post[c]}
  <2>1. ASSUME NEW c \in Conns
        PROVE  /\ page'[c].pc \in Early => \A q \in DOMAIN author : author[q] # c
               /\ post'[c] # 0 => /\ author[post'[c]] = c
                                  /\ \A q \in DOMAIN author : author[q] = c => q <= post'[c]
    BY <1>2, <1>early DEF PostInv
  <2> QED
    BY <2>1, <1>2 DEF PostInv
<1> QED
  BY <1>0, <1>1, <1>2, PostSteps

(* Rows go only below the marker.                                          *)
LEMMA RowSteps ==
    ASSUME TypeInv, Next
    PROVE  /\ trim \in Nat /\ trim' \in Nat /\ trim <= trim'
           /\ \A q \in DOMAIN author : q > trim' /\ q \in rows => q \in rows'
<1>0. rows \subseteq DOMAIN author /\ DOMAIN author \subseteq Nat /\ trim \in Nat
  BY PageShape DEF TypeInv, LogT
<1>1. CASE \E c \in Conns : Checkpoint(c)
  <2>1. PICK c \in Conns : Checkpoint(c)
    BY <1>1
  <2>2. /\ LastSeen(c) \in 0..Last /\ LastSeen(c) > trim /\ trim' = LastSeen(c)
        /\ rows' = {q \in rows : q > LastSeen(c)} /\ Last \in Nat
    BY <2>1, LastSeenType, PageShape DEF Checkpoint
  <2> QED
    BY <2>2, <1>0
<1>2. CASE trim' = trim /\ rows \subseteq rows'
  BY <1>2, <1>0
<1>3. CASE UNCHANGED logVars
  BY <1>2, <1>3 DEF logVars
<1>4. ASSUME NEW c \in Conns, Draw(c) \/ InsertRow(c)
      PROVE  trim' = trim /\ rows \subseteq rows'
  BY <1>4 DEF Draw, InsertRow
<1> QED
  BY <1>1, <1>2, <1>3, <1>4
     DEF Next, Join, Hello, Replay, Leave, Broadcast, Baseline,
         Receive, Deliver, Connect, Resync, LoseListener, Crash

LEMMA RowStep ==
    ASSUME TypeInv, PostInv, RowInv, Next, \A c \in Conns : Moves(c)
    PROVE  RowInv'
<1>0. /\ post \in [Conns -> {0} \cup DOMAIN author] /\ \A q \in DOMAIN author : author[q] \in Conns
      /\ DOMAIN author = 1..Last /\ Last \in Nat
  <2>1. author \in Seq(Conns) /\ post \in [Conns -> {0} \cup DOMAIN author]
    BY DEF TypeInv, PostT, LogT
  <2>2. DOMAIN author = 1..Last /\ Last \in Nat
    BY <2>1 DEF Last
  <2> QED
    BY <2>1, <2>2
<1>gone. \A c \in Conns : page[c].pc = "gone" => page'[c].pc = "gone"
  BY MoveFacts
<1>rows. /\ trim \in Nat /\ trim' \in Nat /\ trim <= trim'
         /\ \A q \in DOMAIN author : q > trim' /\ q \in rows => q \in rows'
  BY RowSteps
<1>old. ASSUME NEW q \in DOMAIN author, q > trim', q \notin rows'
        PROVE  /\ SlowRows
               /\ \A r \in DOMAIN author : author[r] = author[q] => r <= q
               /\ post[author[q]] = q \/ page[author[q]].pc = "gone"
               /\ q \notin rows
  <2>1. q > trim /\ q \notin rows
    BY <1>old, <1>rows, <1>0
  <2> QED
    BY <2>1 DEF RowInv
<1>1. CASE \E c \in Conns : Draw(c)
  <2>1. PICK c \in Conns : Draw(c)
    BY <1>1
  <2>2. /\ Last' = Last + 1 /\ author'[Last + 1] = c
        /\ DOMAIN author' = 1..Last + 1
        /\ \A q \in 1..Last : author'[q] = author[q]
    BY <2>1, DrawType
  <2>3. /\ page[c].pc \in {"live", "reloading"} /\ post' = [post EXCEPT ![c] = Last + 1]
        /\ page' = page /\ post[c] = 0
        /\ rows' = IF SlowRows THEN rows ELSE rows \cup {Last + 1}
    BY <2>1 DEF Draw
  <2> SUFFICES ASSUME NEW q \in 1..Last + 1, q > trim', q \notin rows'
               PROVE  /\ SlowRows
                      /\ \A r \in 1..Last + 1 : author'[r] = author'[q] => r <= q
                      /\ post'[author'[q]] = q \/ page'[author'[q]].pc = "gone"
    BY <2>2 DEF RowInv
  <2>4. CASE q = Last + 1
    BY <2>4, <2>2, <2>3, <1>0
  <2>5. CASE q \in 1..Last
    <3>1. /\ SlowRows
          /\ \A r \in 1..Last : author[r] = author[q] => r <= q
          /\ post[author[q]] = q \/ page[author[q]].pc = "gone"
      BY <2>5, <1>old, <1>0
    <3>2. author[q] # c /\ author'[q] = author[q] /\ author[q] \in Conns
      BY <3>1, <2>3, <2>5, <2>2, <1>0
    <3> QED
      BY <3>1, <3>2, <2>2, <2>3, <2>5, <1>0
  <2> QED
    BY <2>4, <2>5, <1>0
<1>2. CASE UNCHANGED author /\ ~\E c \in Conns : Draw(c)
  <2> SUFFICES ASSUME NEW q \in DOMAIN author, q > trim', q \notin rows'
               PROVE  post'[author[q]] = q \/ page'[author[q]].pc = "gone"
    BY <1>2, <1>old DEF RowInv
  <2> DEFINE c == author[q]
  <2>0. c \in Conns /\ (post[c] = q \/ page[c].pc = "gone") /\ SlowRows /\ q \notin rows
    BY <1>old, <1>0
  <2>1. CASE page[c].pc = "gone"
    BY <2>1, <2>0, <1>gone
  <2>2. CASE page[c].pc # "gone" /\ post[c] = q
    <3>1. CASE post' = post
      BY <3>1, <2>2
    <3>2. CASE \E d \in Conns : Broadcast(d) /\ post' = [post EXCEPT ![d] = 0]
      <4>1. PICK d \in Conns : Broadcast(d) /\ post' = [post EXCEPT ![d] = 0]
        BY <3>2
      <4>2. post[d] \in rows
        BY <4>1, <2>0 DEF Broadcast
      <4>3. d # c
        BY <4>2, <2>0, <2>2
      <4> HIDE DEF c
      <4> QED
        BY <4>1, <4>3, <2>0, <2>2, <1>0 DEF c
    <3>3. CASE \E p \in Procs : /\ Crash(p)
                                /\ post' = [e \in Conns |-> IF page[e].at = p THEN 0
                                                            ELSE post[e]]
      <4>1. PICK p \in Procs : /\ Crash(p)
                               /\ post' = [e \in Conns |-> IF page[e].at = p THEN 0
                                                           ELSE post[e]]
        BY <3>3
      <4>2. page[c].pc \notin Early /\ page[c].pc \in PagePhases
        BY <2>0, PageShape DEF PostInv
      <4>3. page[c].pc \in {"live", "reloading"}
        BY <4>2, <2>2 DEF Early, PagePhases
      <4> HIDE DEF c
      <4>4. CASE page[c].at = p
        <5>1. c \in Members(p)
          BY <4>3, <4>4, <2>0 DEF Members
        <5> QED
          BY <5>1, <4>1, <2>0, CrashMoves DEF c
      <4>5. CASE page[c].at # p
        BY <4>1, <4>5, <2>0, <2>2 DEF c
      <4> QED
        BY <4>4, <4>5
    <3> QED
      BY <1>2, <3>1, <3>2, <3>3, PostSteps
  <2> QED
    BY <2>0, <2>1, <2>2
<1> QED
  BY <1>1, <1>2, PostSteps

-----------------------------------------------------------------------------
(* The invariant of the pages *)

LEMMA AuthorGrows ==
    ASSUME TypeInv, Next
    PROVE  /\ DOMAIN author \subseteq DOMAIN author'
           /\ \A q \in DOMAIN author : author'[q] = author[q]
<1>1. ASSUME NEW c \in Conns, Draw(c)
      PROVE  /\ DOMAIN author \subseteq DOMAIN author'
             /\ \A q \in DOMAIN author : author'[q] = author[q]
  BY <1>1, DrawType, PageShape
<1> QED
  BY <1>1, PostSteps

(* What a page holds it keeps while it lives.                              *)
LEMMA HoldsOn ==
    ASSUME TypeInv, NEW c \in Conns, Moves(c), page'[c].pc = "live", page[c].pc = "live",
           NEW q \in Nat, Holds(c, q)
    PROVE  q <= page'[c].base \/ q \in page'[c].got
<1>1. page[c].base <= page'[c].base /\ page[c].got \subseteq page'[c].got /\ page[c].base \in Nat
  BY MoveFacts, PageShape
<1>2. page'[c].base \in Nat
  <2>1. page[c] = [pc |-> page[c].pc, at |-> page[c].at, base |-> page[c].base,
                   got |-> page[c].got]
    BY PageShape DEF Page
  <2>2. Keeps(c) \/ (\E X : Takes(c, X)) \/ \E upTo : MovesOn(c, upTo)
    <3>1. ~Joins(c) /\ ~Greeted(c) /\ ~Opens(c)
      BY DEF Joins, Greeted, Opens
    <3>2. ~Ends(c)
      BY PageShape, EndedType DEF Ends, Stops
    <3> QED
      BY <3>1, <3>2 DEF Moves, Goes
  <2> QED
    BY <2>1, <2>2, <1>1 DEF Keeps, Takes, MovesOn
<1> QED
  BY <1>1, <1>2 DEF Holds

(* What a page has after a step, by how it moved.                          *)
LEMMA MovedShape ==
    ASSUME TypeInv, OrderInv, NEW c \in Conns, Moves(c)
    PROVE  /\ page'[c].pc # "live" => page'[c].got = {}
           /\ page'[c].pc \notin {"welcomed", "live"} => page'[c].base = 0
           /\ page'[c].pc = "welcomed" => page'[c].base = trim
           /\ page'[c].got \subseteq DOMAIN author
           /\ page'[c].pc = "live" => \A hi \in page'[c].got : \A q \in 1..hi :
                 author[q] = author[hi] => q <= page'[c].base \/ q \in page'[c].got
<1>types. /\ page[c] \in Page /\ page[c].base \in Nat /\ page[c].got \subseteq DOMAIN author
          /\ page[c] = [pc |-> page[c].pc, at |-> page[c].at, base |-> page[c].base,
                        got |-> page[c].got]
          /\ rows \subseteq DOMAIN author /\ DOMAIN author = 1..Last /\ trim \in Nat /\ Last \in Nat
  BY PageShape DEF Page, TypeInv, LogT
<1>inv. /\ page[c].pc # "live" => page[c].got = {}
        /\ page[c].pc \notin {"welcomed", "live"} => page[c].base = 0
        /\ page[c].pc = "welcomed" => page[c].base = trim
        /\ page[c].pc = "live" => Gapless(c)
  BY DEF OrderInv, PageInv
<1>1. CASE Keeps(c)
  BY <1>1, <1>types, <1>inv DEF Keeps, Gapless, Holds
<1>2. CASE Joins(c) \/ Greeted(c)
  <2>1. PICK pc \in {"joined", "welcomed"}, p \in Procs, b \in {0, trim} :
           /\ page'[c] = NoFrames(pc, p, b)
           /\ b = IF pc = "joined" THEN 0 ELSE trim
    BY <1>2, PageShape DEF Joins, Greeted
  <2>2. page'[c].pc = pc /\ page'[c].base = b /\ page'[c].got = {}
    BY <2>1 DEF NoFrames
  <2> QED
    BY <2>1, <2>2
<1>3. CASE Opens(c)
  <2>1. /\ page'[c].pc = "live" /\ page'[c].base = trim /\ page'[c].got = rows
    BY <1>3, <1>inv DEF Opens
  <2>2. ASSUME NEW hi \in rows, NEW q \in 1..hi, author[q] = author[hi], q \notin rows
        PROVE  q <= trim
    <3>1. q \in DOMAIN author /\ hi \in DOMAIN author /\ q <= hi /\ q # hi
      BY <2>2, <1>types
    <3>2. ~(hi <= q)
      BY <3>1, <1>types
    <3>3. ~(q > trim)
      BY <2>2, <3>1, <3>2 DEF OrderInv, RowInv
    <3> QED
      BY <3>1, <3>3, <1>types
  <2> QED
    BY <2>1, <2>2, <1>types
<1>4. CASE Ends(c)
  <2>1. page'[c].pc \in {"reloading", "gone"} /\ page'[c].base = 0 /\ page'[c].got = {}
    BY <1>4, <1>types, EndedType DEF Ends, Stops
  <2> QED
    BY <2>1
<1>5. CASE \E X : Takes(c, X)
  <2>1. PICK X : Takes(c, X)
    BY <1>5
  <2>2. /\ page'[c].pc = "live" /\ page'[c].base = page[c].base
        /\ page'[c].got = page[c].got \cup X /\ page[c].pc = "live"
    BY <2>1, <1>types DEF Takes
  <2>3. ASSUME NEW hi \in page[c].got \cup X, NEW q \in 1..hi, author[q] = author[hi]
        PROVE  q <= page[c].base \/ q \in page[c].got \cup X
    BY <2>1, <2>2, <2>3, <1>inv DEF Takes, Closed, Gapless, Holds
  <2> QED
    BY <2>1, <2>2, <2>3, <1>types DEF Takes
<1>6. CASE \E upTo : MovesOn(c, upTo)
  <2>1. PICK upTo : MovesOn(c, upTo)
    BY <1>6
  <2>2. /\ page'[c].pc = "live" /\ page'[c].base = upTo /\ upTo \in Nat
        /\ page[c].base <= upTo /\ page'[c].got = page[c].got /\ page[c].pc = "live"
    BY <2>1, <1>types DEF MovesOn
  <2>3. ASSUME NEW hi \in page[c].got, NEW q \in 1..hi, author[q] = author[hi]
        PROVE  q <= upTo \/ q \in page[c].got
    <3>1. q <= page[c].base \/ q \in page[c].got
      BY <2>2, <2>3, <1>inv DEF Gapless, Holds
    <3>2. q \in Int
      BY <2>3, <1>types
    <3> QED
      BY <3>1, <3>2, <2>2, <1>types
  <2> QED
    BY <2>2, <2>3, <1>types
<1> QED
  BY <1>1, <1>2, <1>3, <1>4, <1>5, <1>6 DEF Moves, Goes

(* A page that runs holds all it ever posted, but for the post under way.  *)
LEMMA OwnStep ==
    ASSUME ~LiveReplay, TypeInv, OrderInv, Next, \A c \in Conns : Moves(c),
           NEW c \in Conns, page'[c].pc = "live", NEW q \in DOMAIN author', author'[q] = c
    PROVE  q <= page'[c].base \/ q \in page'[c].got \/ q = post'[c]
<1>0. /\ post \in [Conns -> {0} \cup DOMAIN author]
      /\ DOMAIN author = 1..Last /\ Last \in Nat
  BY PageShape DEF TypeInv, PostT
<1>1. CASE \E d \in Conns : Draw(d)
  <2>1. PICK d \in Conns : Draw(d)
    BY <1>1
  <2>2. /\ author'[Last + 1] = d /\ DOMAIN author' = 1..Last + 1
        /\ \A k \in 1..Last : author'[k] = author[k]
    BY <2>1, DrawType
  <2>3. post' = [post EXCEPT ![d] = Last + 1] /\ page' = page /\ post[d] = 0
    BY <2>1 DEF Draw
  <2>4. CASE q = Last + 1
    BY <2>4, <2>2, <2>3, <1>0
  <2>5. CASE q \in 1..Last
    <3>1. Holds(c, q) \/ q = post[c]
      BY <2>5, <2>2, <2>3, <1>0 DEF OrderInv, PageInv
    <3> QED
      BY <3>1, <2>5, <2>3, <1>0 DEF Holds
  <2> QED
    BY <2>2, <2>4, <2>5, <1>0
<1>2. CASE UNCHANGED author
  <2>1. page[c].pc = "live"
    <3>1. page[c].pc # "live" => page[c].pc = "welcomed"
      BY MoveFacts DEF Opens
    <3> QED
      BY <3>1, <1>2 DEF OrderInv, PostInv, Early
  <2>2. (Holds(c, q) \/ q = post[c]) /\ q \in Nat
    BY <2>1, <1>2, <1>0 DEF OrderInv, PageInv
  <2>3. CASE Holds(c, q)
    BY <2>1, <2>2, <2>3, HoldsOn
  <2>4. CASE q = post[c]
    <3>1. CASE post' = post
      BY <3>1, <2>4
    <3>2. CASE \E d \in Conns : Broadcast(d) /\ post' = [post EXCEPT ![d] = 0]
      <4>1. PICK d \in Conns : Broadcast(d) /\ post' = [post EXCEPT ![d] = 0]
        BY <3>2
      <4>2. CASE d = c
        BY <4>1, <4>2, <2>1, <2>4, BroadcastMoves DEF OrderInv
      <4>3. CASE d # c
        BY <4>1, <4>3, <2>4, <1>0
      <4> QED
        BY <4>2, <4>3
    <3>3. CASE \E p \in Procs : /\ Crash(p)
                                /\ post' = [e \in Conns |-> IF page[e].at = p THEN 0
                                                            ELSE post[e]]
      <4>1. PICK p \in Procs : /\ Crash(p)
                               /\ post' = [e \in Conns |-> IF page[e].at = p THEN 0
                                                           ELSE post[e]]
        BY <3>3
      <4>2. c \notin Members(p)
        BY <4>1, CrashMoves
      <4>3. page[c].at # p
        BY <4>2, <2>1 DEF Members
      <4> QED
        BY <4>1, <4>3, <2>4
    <3> QED
      BY <1>2, <3>1, <3>2, <3>3, PostSteps, <1>1
  <2> QED
    BY <2>2, <2>3, <2>4
<1> QED
  BY <1>1, <1>2, PostSteps

LEMMA TrimSteps ==
    ASSUME TypeInv, Next
    PROVE  trim' = trim \/ \E c \in Conns : Checkpoint(c)
BY DEF Next, Join, Hello, Replay, Leave, Draw, InsertRow, Broadcast, Baseline,
       Receive, Deliver, Connect, Resync, LoseListener, Crash, logVars

LEMMA PageStep ==
    ASSUME ~LiveReplay, ~SplitHello, ~LateNews, TypeInv, OrderInv, Next,
           \A c \in Conns : Moves(c)
    PROVE  PageInv'
<1>1. ASSUME NEW c \in Conns
      PROVE  /\ page'[c].pc # "live" => page'[c].got = {}
             /\ page'[c].pc \notin {"welcomed", "live"} => page'[c].base = 0
  BY MovedShape
<1>2. ASSUME NEW c \in Conns, page'[c].pc = "welcomed" PROVE page'[c].base = trim'
  <2>1. ~\E d \in Conns : Checkpoint(d)
    BY <1>2, CheckpointMoves
  <2> QED
    BY <1>2, <2>1, TrimSteps, MovedShape
<1>3. ASSUME NEW c \in Conns, page'[c].pc = "live",
             NEW hi \in page'[c].got, NEW q \in 1..hi, author'[q] = author'[hi]
      PROVE  q <= page'[c].base \/ q \in page'[c].got
  <2>1. hi \in DOMAIN author
    BY MovedShape
  <2>2. q \in DOMAIN author
    BY <2>1, PageShape
  <2>3. author[q] = author[hi]
    BY <2>1, <2>2, <1>3, AuthorGrows
  <2> QED
    BY <2>3, <1>3, MovedShape
<1>4. ASSUME NEW c \in Conns, page'[c].pc = "live", NEW q \in DOMAIN author', author'[q] = c
      PROVE  q <= page'[c].base \/ q \in page'[c].got \/ q = post'[c]
  BY <1>4, OwnStep
<1> QED
  BY <1>1, <1>2, <1>3, <1>4 DEF PageInv, Gapless, Holds

-----------------------------------------------------------------------------
(* The invariant of the notices *)

(* What becomes of a notice a process has yet to handle, and where a new   *)
(* one comes from.                                                         *)
LEMMA NoticeSteps ==
    ASSUME TypeInv, Next, NEW p \in Procs, NEW i \in DOMAIN inbox'[p]
    PROVE  \/ i \in DOMAIN inbox[p] /\ inbox'[p][i] = inbox[p][i]
              /\ \A j \in 1..i : inbox'[p][j] = inbox[p][j]
           \/ /\ Receive(p) /\ i + 1 \in DOMAIN inbox[p] /\ i \in Nat
              /\ inbox'[p][i] = inbox[p][i + 1]
              /\ \A j \in 1..i : inbox'[p][j] = inbox[p][j + 1]
           \/ /\ i = Len(inbox[p]) + 1
              /\ \A j \in DOMAIN inbox[p] : inbox'[p][j] = inbox[p][j]
              /\ DOMAIN inbox[p] = 1..Len(inbox[p]) /\ Len(inbox[p]) \in Nat
              /\ \E c \in Conns :
                   \/ /\ Broadcast(c)
                      /\ inbox'[p][i] = [kind |-> "log", seq |-> post[c], from |-> page[c].at]
                   \/ /\ Checkpoint(c)
                      /\ inbox'[p][i] = [kind |-> "truncated", seq |-> LastSeen(c),
                                         from |-> page[c].at]
<1>0. inbox \in [Procs -> Seq(Notice)]
  BY DEF TypeInv, BusT
<1> DEFINE b == inbox[p]
<1>b. b \in Seq(Notice) /\ DOMAIN b = 1..Len(b) /\ Len(b) \in Nat
  BY <1>0
<1>1. CASE inbox'[p] = inbox[p]
  BY <1>1, <1>b
<1>2. CASE Receive(p)
  <2>1. b # <<>> /\ inbox'[p] = Tail(b)
    BY <1>0, <1>2 DEF Receive
  <2>2. /\ DOMAIN Tail(b) = 1..Len(b) - 1 /\ Len(b) >= 1
        /\ \A j \in 1..Len(b) - 1 : Tail(b)[j] = b[j + 1]
    BY <2>1, <1>b
  <2> HIDE DEF b
  <2>3. i \in 1..Len(b) - 1
    BY <2>1, <2>2
  <2>4. \A j \in 1..i : j \in 1..Len(b) - 1
    BY <2>3, <1>b
  <2>5. i + 1 \in DOMAIN b /\ i \in Nat /\ inbox'[p][i] = b[i + 1]
        /\ \A j \in 1..i : inbox'[p][j] = b[j + 1]
    BY <2>1, <2>2, <2>3, <2>4, <1>b
  <2> QED
    BY <2>5, <1>2 DEF b
<1>3. CASE inbox'[p] = <<>>
  BY <1>3
<1>4. ASSUME NEW n \in Notice, inbox'[p] = Append(inbox[p], n)
      PROVE  /\ \/ i \in DOMAIN b /\ inbox'[p][i] = b[i] /\ \A j \in 1..i : inbox'[p][j] = b[j]
                \/ i = Len(b) + 1 /\ inbox'[p][i] = n
             /\ \A j \in DOMAIN b : inbox'[p][j] = b[j]
  <2>1. inbox'[p] = Append(b, n)
    BY <1>4
  <2> HIDE DEF b
  <2>2. /\ DOMAIN Append(b, n) = 1..Len(b) + 1
        /\ \A j \in 1..Len(b) : Append(b, n)[j] = b[j]
        /\ Append(b, n)[Len(b) + 1] = n
    BY <1>b
  <2>3. i = Len(b) + 1 \/ i \in 1..Len(b)
    BY <2>1, <2>2, <1>b
  <2>4. i \in 1..Len(b) => \A j \in 1..i : j \in 1..Len(b)
    BY <1>b
  <2> QED
    BY <2>1, <2>2, <2>3, <2>4, <1>b
<1>5. ASSUME NEW c \in Conns, Broadcast(c)
      PROVE  LET n == [kind |-> "log", seq |-> post[c], from |-> page[c].at]
             IN  n \in Notice /\ inbox'[p] \in {inbox[p], Append(inbox[p], n)}
  <2>1. post[c] \in Nat /\ page[c].at \in Procs
    BY <1>5, PostedType, PageShape DEF Broadcast
  <2> QED
    BY <1>5, <2>1 DEF Broadcast, Heard, Notice
<1>6. ASSUME NEW c \in Conns, Checkpoint(c)
      PROVE  LET n == [kind |-> "truncated", seq |-> LastSeen(c), from |-> page[c].at]
             IN  n \in Notice /\ inbox'[p] \in {inbox[p], Append(inbox[p], n)}
  <2>1. LastSeen(c) \in Nat /\ page[c].at \in Procs
    BY LastSeenType, PageShape
  <2> QED
    BY <1>6, <2>1 DEF Checkpoint, Heard, Notice
<1>7. ASSUME NEW q \in Procs, Receive(q) \/ LoseListener(q) \/ Crash(q)
      PROVE  inbox'[p] \in {inbox[p], <<>>} \/ Receive(p)
  BY <1>7, <1>0 DEF Receive, LoseListener, Crash
<1>8. \/ UNCHANGED inbox
      \/ \E c \in Conns : Broadcast(c) \/ Checkpoint(c)
      \/ \E q \in Procs : Receive(q) \/ LoseListener(q) \/ Crash(q)
  BY DEF Next, Join, Hello, Replay, Leave, Draw, InsertRow, Baseline, Deliver, Connect, Resync,
         busVars
<1>9. CASE \E c \in Conns : Broadcast(c) \/ Checkpoint(c)
  <2>1. PICK c \in Conns : Broadcast(c) \/ Checkpoint(c)
    BY <1>9
  <2>2. CASE Broadcast(c)
    <3> DEFINE n == [kind |-> "log", seq |-> post[c], from |-> page[c].at]
    <3>1. n \in Notice /\ inbox'[p] \in {inbox[p], Append(inbox[p], n)}
      BY <2>2, <1>5
    <3>2. n = [kind |-> "log", seq |-> post[c], from |-> page[c].at]
      OBVIOUS
    <3> HIDE DEF n
    <3>3. CASE inbox'[p] = Append(inbox[p], n)
      <4>1. /\ \/ i \in DOMAIN b /\ inbox'[p][i] = b[i] /\ \A j \in 1..i : inbox'[p][j] = b[j]
               \/ i = Len(b) + 1 /\ inbox'[p][i] = n
            /\ \A j \in DOMAIN b : inbox'[p][j] = b[j]
        BY <3>1, <3>3, <1>4
      <4> QED
        BY <4>1, <3>2, <2>2, <1>b
    <3> QED
      BY <3>1, <3>3, <1>1
  <2>3. CASE Checkpoint(c)
    <3> DEFINE n == [kind |-> "truncated", seq |-> LastSeen(c), from |-> page[c].at]
    <3>1. n \in Notice /\ inbox'[p] \in {inbox[p], Append(inbox[p], n)}
      BY <2>3, <1>6
    <3>2. n = [kind |-> "truncated", seq |-> LastSeen(c), from |-> page[c].at]
      OBVIOUS
    <3> HIDE DEF n
    <3>3. CASE inbox'[p] = Append(inbox[p], n)
      <4>1. /\ \/ i \in DOMAIN b /\ inbox'[p][i] = b[i] /\ \A j \in 1..i : inbox'[p][j] = b[j]
               \/ i = Len(b) + 1 /\ inbox'[p][i] = n
            /\ \A j \in DOMAIN b : inbox'[p][j] = b[j]
        BY <3>1, <3>3, <1>4
      <4> QED
        BY <4>1, <3>2, <2>3, <1>b
    <3> QED
      BY <3>1, <3>3, <1>1
  <2> QED
    BY <2>1, <2>2, <2>3
<1> QED
  BY <1>1, <1>2, <1>3, <1>7, <1>8, <1>9

(* Nobody is welcomed but by hello, and nobody gets newer bytes but from a *)
(* checkpoint that reached its process.                                    *)
LEMMA BaseSteps ==
    ASSUME ~LiveReplay, ~SplitHello, ~LateNews, TypeInv, OrderInv, Next, NEW c \in Conns
    PROVE  \/ Goes(c) \/ Joins(c) \/ Hello(c) \/ Opens(c)
           \/ \E d \in Conns : Checkpoint(d) /\ page[d].at = page[c].at
           \/ \E p \in Procs : /\ Receive(p) /\ News(Head(inbox[p]), p) /\ c \in Members(p)
                               /\ MovesOn(c, Head(inbox[p]).seq)
<1> USE DEF OrderInv
<1>1. ASSUME NEW d \in Conns, \/ \E p \in Procs : Join(d, p)
                              \/ Hello(d) \/ Replay(d) \/ Leave(d)
      PROVE  Goes(c) \/ Joins(c) \/ Hello(c) \/ Opens(c)
  <2>1. Moves(c) /\ (d # c => Keeps(c))
    BY <1>1, SocketMoves
  <2>2. CASE d # c
    BY <2>1, <2>2 DEF Goes
  <2>3. CASE d = c
    <3>1. Greeted(c) => Hello(c)
      <4>1. SUFFICES ASSUME Greeted(c) PROVE Hello(c)
        OBVIOUS
      <4>2. page[c].pc = "joined" /\ page'[c].pc = "welcomed"
        BY <4>1 DEF Greeted, NoFrames
      <4>3. page \in [Conns -> Page]
        BY DEF TypeInv, PageT
      <4>4. ~Leave(c)
        BY <4>2, <4>3, EndedType DEF Leave
      <4>5. ~\E p \in Procs : Join(c, p)
        BY <4>2 DEF Join
      <4>6. ~Replay(c)
        BY <4>2 DEF Replay
      <4> QED
        BY <1>1, <2>3, <4>4, <4>5, <4>6
    <3>2. (\E upTo : MovesOn(c, upTo)) => Goes(c)
      <4>1. SUFFICES ASSUME \E upTo : MovesOn(c, upTo) PROVE Goes(c)
        OBVIOUS
      <4>2. page[c].pc = "live" /\ page'[c].pc = "live"
        BY <4>1, PageShape DEF MovesOn, Page
      <4>3. page \in [Conns -> Page]
        BY DEF TypeInv, PageT
      <4> QED
        BY <4>2, <4>3, <1>1, <2>3, EndedType DEF Join, Hello, Replay, Leave
    <3> QED
      BY <2>1, <3>1, <3>2 DEF Moves
  <2> QED
    BY <2>2, <2>3
<1>2. ASSUME NEW d \in Conns, Draw(d) \/ InsertRow(d) PROVE Goes(c)
  BY <1>2, AllKeep DEF Draw, InsertRow, pageVars
<1>3. ASSUME NEW d \in Conns, Broadcast(d) PROVE Goes(c)
  BY <1>3, BroadcastMoves
<1>4. ASSUME NEW d \in Conns, Checkpoint(d) PROVE Goes(c) \/ page[d].at = page[c].at
  BY <1>4, CheckpointMoves DEF Goes, Members
<1>5. ASSUME NEW p \in Procs, Baseline(p) \/ Connect(p) \/ Resync(p) \/ LoseListener(p)
      PROVE  Goes(c)
  BY <1>5, AllKeep DEF Baseline, Connect, Resync, LoseListener, pageVars
<1>6. ASSUME NEW p \in Procs, Receive(p)
      PROVE  \/ Goes(c)
             \/ News(Head(inbox[p]), p) /\ c \in Members(p) /\ MovesOn(c, Head(inbox[p]).seq)
  BY <1>6, ReceiveMoves DEF Goes
<1>7. ASSUME NEW p \in Procs, Deliver(p) PROVE Goes(c)
  <2>1. PICK d \in due[p] : /\ NoneReplaying(p)
                            /\ page' = Sent(Members(p), {q \in rows : d.after < q /\ q <= d.upTo})
    BY <1>7 DEF Deliver
  <2>2. {q \in rows : d.after < q /\ q <= d.upTo} \in SUBSET rows
    OBVIOUS
  <2> QED
    BY <2>1, <2>2, DeliverMoves
<1>8. ASSUME NEW p \in Procs, Crash(p) PROVE Goes(c)
  BY <1>8, CrashMoves
<1> QED
  BY <1>1, <1>2, <1>3, <1>4, <1>5, <1>6, <1>7, <1>8 DEF Next

(* A page at a process that has yet to hear of a checkpoint stays older    *)
(* than that checkpoint, and is not welcomed.                              *)
LEMMA OlderStays ==
    ASSUME ~LiveReplay, ~SplitHello, ~LateNews, TypeInv, OrderInv, Next,
           NEW p \in Procs, NEW k \in DOMAIN inbox[p], News(inbox[p][k], p),
           Receive(p) => k # 1,
           NEW c \in Conns, page'[c].at = p,
           page'[c].pc \in {"joined", "welcomed", "live", "reloading"}
    PROVE  page'[c].pc # "welcomed" /\ page'[c].base <= inbox[p][k].seq
<1>0. /\ inbox[p] \in Seq(Notice) /\ k \in Nat /\ k >= 1 /\ inbox[p][k].seq \in Nat
      /\ page[c] \in Page /\ page[c].base \in Nat /\ page[c].at \in Procs
  <2>1. inbox[p] \in Seq(Notice) /\ inbox[p][k].seq \in 1..Last
    BY DEF TypeInv, BusT, NoticeT
  <2> QED
    BY <2>1, PageShape DEF Page
<1>1. CASE Goes(c)
  <2>1. /\ page'[c].base <= page[c].base /\ page'[c].base \in Nat
        /\ page'[c].pc = "welcomed" => Keeps(c)
        /\ page[c].pc # "new" /\ page'[c].pc # "gone"
    BY <1>1, GoesFacts
  <2>2. Moves(c)
    BY <1>1 DEF Moves
  <2>3. page[c].pc # "gone" /\ page[c].at = p /\ page[c].pc \in PagePhases
    BY <2>1, <2>2, MoveFacts, PageShape
  <2>4. c \in Members(p)
    BY <2>1, <2>3 DEF Members, PagePhases
  <2>5. page[c].pc # "welcomed" /\ page[c].base <= inbox[p][k].seq
    BY <2>4 DEF OrderInv, NewsInv
  <2> QED
    BY <2>1, <2>5, <1>0 DEF Keeps
<1>2. CASE Joins(c)
  <2>1. page'[c].pc = "joined" /\ page'[c].base = 0
    BY <1>2 DEF Joins, NoFrames
  <2> QED
    BY <2>1, <1>0
<1>3. CASE Hello(c)
  <2>1. page'[c].at = page[c].at /\ ~Behind(page[c].at)
    BY <1>3 DEF Hello, NoFrames, TypeInv, PageT
  <2> QED
    BY <2>1 DEF Behind, News
<1>4. CASE Opens(c)
  <2>1. page[c].pc = "welcomed" /\ page'[c].at = page[c].at
    BY <1>4 DEF Opens
  <2>2. c \in Members(p)
    BY <2>1 DEF Members
  <2> QED
    BY <2>1, <2>2 DEF OrderInv, NewsInv
<1>5. CASE \E d \in Conns : Checkpoint(d) /\ page[d].at = page[c].at
  <2>1. PICK d \in Conns : Checkpoint(d) /\ page[d].at = page[c].at
    BY <1>5
  <2>2. Moves(c) /\ \A i \in DOMAIN inbox[page[c].at] : ~News(inbox[page[c].at][i], page[c].at)
    BY <2>1, CheckpointMoves
  <2>3. page[c].at # p
    BY <2>2
  <2>4. page[c].pc = "new"
    BY <2>2, <2>3, MoveFacts
  <2>5. Keeps(c)
    BY <2>1, <2>4, CheckpointMoves DEF Members
  <2> QED
    BY <2>4, <2>5 DEF Keeps
<1>6. CASE \E q \in Procs : /\ Receive(q) /\ News(Head(inbox[q]), q) /\ c \in Members(q)
                            /\ MovesOn(c, Head(inbox[q]).seq)
  <2>1. PICK q \in Procs : /\ Receive(q) /\ News(Head(inbox[q]), q) /\ c \in Members(q)
                           /\ MovesOn(c, Head(inbox[q]).seq)
    BY <1>6
  <2>2. /\ page'[c].at = page[c].at /\ page'[c].pc = "live"
        /\ page'[c].base = Head(inbox[q]).seq
    BY <2>1, <1>0 DEF MovesOn, Page
  <2>3. q = p
    BY <2>1, <2>2 DEF Members
  <2>4. inbox[p] # <<>>
    BY <1>0
  <2>5. inbox[p][1] = Head(inbox[p])
    BY <2>4, HeadIsFirst
  <2>6. inbox[p][1].seq <= inbox[p][k].seq
    <3>1. 1 \in 1..k /\ inbox[p][1].kind = "truncated"
      BY <1>0, <2>1, <2>3, <2>5 DEF News
    <3> QED
      BY <3>1 DEF OrderInv, NewsInv
  <2> QED
    BY <2>2, <2>3, <2>5, <2>6
<1> QED
  BY <1>1, <1>2, <1>3, <1>4, <1>5, <1>6, BaseSteps

LEMMA NewsStep ==
    ASSUME ~LiveReplay, ~SplitHello, ~LateNews, TypeInv, OrderInv, Next
    PROVE  NewsInv'
<1> SUFFICES ASSUME NEW p \in Procs, NEW i \in DOMAIN inbox'[p], News(inbox'[p][i], p)
             PROVE  /\ \A c \in Conns :
                          /\ page'[c].at = p
                          /\ page'[c].pc \in {"joined", "welcomed", "live", "reloading"}
                          => page'[c].pc # "welcomed" /\ page'[c].base <= inbox'[p][i].seq
                    /\ \A j \in 1..i : inbox'[p][j].kind = "truncated"
                                          => inbox'[p][j].seq <= inbox'[p][i].seq
  BY DEF NewsInv, Members, News
<1>0. inbox[p] \in Seq(Notice)
  BY DEF TypeInv, BusT
<1>1. CASE /\ i \in DOMAIN inbox[p] /\ inbox'[p][i] = inbox[p][i]
           /\ \A j \in 1..i : inbox'[p][j] = inbox[p][j]
           /\ ~Receive(p)
  <2>1. \A j \in 1..i : inbox'[p][j].kind = "truncated" => inbox'[p][j].seq <= inbox'[p][i].seq
    BY <1>1 DEF OrderInv, NewsInv
  <2> QED
    BY <1>1, <2>1, OlderStays
<1>2. CASE /\ Receive(p) /\ i + 1 \in DOMAIN inbox[p] /\ i \in Nat /\ i >= 1
           /\ inbox'[p][i] = inbox[p][i + 1]
           /\ \A j \in 1..i : inbox'[p][j] = inbox[p][j + 1]
  <2>1. ASSUME NEW j \in 1..i, inbox'[p][j].kind = "truncated"
        PROVE  inbox'[p][j].seq <= inbox'[p][i].seq
    <3>1. j + 1 \in 1..i + 1
      BY <1>2
    <3> QED
      BY <1>2, <2>1, <3>1 DEF OrderInv, NewsInv
  <2>2. i + 1 # 1
    BY <1>2
  <2> QED
    BY <1>2, <2>1, <2>2, OlderStays
<1>3. CASE /\ i = Len(inbox[p]) + 1
           /\ \A j \in DOMAIN inbox[p] : inbox'[p][j] = inbox[p][j]
           /\ DOMAIN inbox[p] = 1..Len(inbox[p]) /\ Len(inbox[p]) \in Nat
           /\ \E c \in Conns :
                \/ /\ Broadcast(c)
                   /\ inbox'[p][i] = [kind |-> "log", seq |-> post[c], from |-> page[c].at]
                \/ /\ Checkpoint(c)
                   /\ inbox'[p][i] = [kind |-> "truncated", seq |-> LastSeen(c),
                                      from |-> page[c].at]
  <2>1. PICK c \in Conns :
                \/ /\ Broadcast(c)
                   /\ inbox'[p][i] = [kind |-> "log", seq |-> post[c], from |-> page[c].at]
                \/ /\ Checkpoint(c)
                   /\ inbox'[p][i] = [kind |-> "truncated", seq |-> LastSeen(c),
                                      from |-> page[c].at]
    BY <1>3
  <2>2. /\ Checkpoint(c) /\ inbox'[p][i].seq = LastSeen(c) /\ page[c].at # p
    BY <2>1 DEF News
  <2>3. LastSeen(c) \in 1..Last /\ trim \in Nat /\ LastSeen(c) > trim /\ Last \in Nat
    BY <2>2, CheckpointMoves, PageShape DEF TypeInv, LogT
  <2>4. ASSUME NEW d \in Conns, page'[d].at = p
        PROVE  page'[d].pc # "welcomed" /\ page'[d].base <= LastSeen(c)
    <3>1. /\ Moves(d) /\ page'[d].pc # "welcomed" /\ page[d].base <= LastSeen(c)
          /\ d \notin Members(page[c].at) => Keeps(d)
      BY <2>2, CheckpointMoves
    <3>2. d \notin Members(page[c].at)
      <4>1. SUFFICES ASSUME d \in Members(page[c].at) PROVE FALSE
        OBVIOUS
      <4>2. page[d].at = page[c].at /\ page[d].pc # "new"
        BY <4>1 DEF Members
      <4> QED
        BY <4>2, <3>1, <2>2, <2>4, MoveFacts
    <3> QED
      BY <3>1, <3>2 DEF Keeps
  <2>5. ASSUME NEW j \in 1..i, inbox'[p][j].kind = "truncated"
        PROVE  inbox'[p][j].seq <= LastSeen(c)
    <3>1. CASE j = i
      BY <3>1, <2>2, <2>3
    <3>2. CASE j \in DOMAIN inbox[p]
      <4>1. inbox'[p][j] = inbox[p][j]
        BY <3>2, <1>3
      <4>2. inbox[p][j].seq <= trim /\ inbox[p][j].seq \in Nat
        BY <4>1, <3>2, <2>5, PageShape DEF TypeInv, BusT, NoticeT
      <4> QED
        BY <4>1, <4>2, <2>3
    <3> QED
      BY <3>1, <3>2, <1>3
  <2> QED
    BY <2>2, <2>4, <2>5
<1>4. /\ DOMAIN inbox[p] = 1..Len(inbox[p]) /\ Len(inbox[p]) \in Nat
      /\ inbox \in [Procs -> Seq(Notice)]
  BY <1>0 DEF TypeInv, BusT
<1>5. CASE Receive(p)
  <2>1. inbox'[p] = Tail(inbox[p]) /\ inbox[p] # <<>>
    BY <1>4, <1>5 DEF Receive
  <2>2. /\ i \in Nat /\ i >= 1 /\ i + 1 \in DOMAIN inbox[p]
        /\ \A j \in DOMAIN Tail(inbox[p]) : Tail(inbox[p])[j] = inbox[p][j + 1]
    BY <2>1, HeadIsFirst
  <2>3. \A j \in 1..i : j \in DOMAIN Tail(inbox[p])
    BY <2>1, <2>2, <1>0
  <2>4. i \in 1..i
    BY <2>2
  <2> QED
    BY <1>2, <1>5, <2>1, <2>2, <2>3, <2>4
<1>6. CASE ~Receive(p)
  BY <1>1, <1>3, <1>6, NoticeSteps
<1> QED
  BY <1>5, <1>6

-----------------------------------------------------------------------------
(* The relay implements the ordered log *)

LEMMA OrderInit == Init => OrderInv
<1> SUFFICES ASSUME Init PROVE OrderInv
  OBVIOUS
<1>0. /\ DOMAIN author = {} /\ trim = 0 /\ post = [c \in Conns |-> 0]
      /\ \A p \in Procs : DOMAIN inbox[p] = {}
  BY DEF Init
<1>1. \A c \in Conns : page[c].pc = "new" /\ page[c].base = 0 /\ page[c].got = {}
  BY DEF Init, NoFrames
<1>2. PostInv /\ RowInv
  BY <1>0, <1>1 DEF PostInv, RowInv
<1>3. NewsInv /\ PageInv
  BY <1>0, <1>1 DEF NewsInv, PageInv
<1> QED
  BY <1>2, <1>3 DEF OrderInv

LEMMA OrderStutter == TypeInv /\ OrderInv /\ UNCHANGED vars => OrderInv'
<1> SUFFICES ASSUME OrderInv, UNCHANGED vars PROVE OrderInv'
  OBVIOUS
<1> USE DEF vars, logVars, pageVars, hubVars, busVars, OrderInv
<1>1. PostInv'
  BY DEF PostInv
<1>2. RowInv'
  BY DEF RowInv
<1>3. NewsInv'
  BY DEF NewsInv, News, Members
<1>4. PageInv'
  BY DEF PageInv, Gapless, Holds
<1> QED
  BY <1>1, <1>2, <1>3, <1>4

LEMMA OrderStep ==
    ASSUME ~LiveReplay, ~SplitHello, ~LateNews
    PROVE  TypeInv /\ OrderInv /\ [Next]_vars => OrderInv'
<1> SUFFICES ASSUME TypeInv, OrderInv, [Next]_vars PROVE OrderInv'
  OBVIOUS
<1>1. CASE Next
  <2>1. \A c \in Conns : Moves(c)
    BY <1>1, EveryMove
  <2>2. PostInv' /\ RowInv'
    BY <1>1, <2>1, PostStep, RowStep DEF OrderInv
  <2>3. PageInv' /\ NewsInv'
    BY <1>1, <2>1, PageStep, NewsStep
  <2> QED
    BY <2>2, <2>3 DEF OrderInv
<1> QED
  BY <1>1, OrderStutter

LEMMA AlwaysOrdered ==
    ASSUME ~LiveReplay, ~SplitHello, ~LateNews
    PROVE  Spec => [](TypeInv /\ OrderInv)
<1>1. Init => TypeInv /\ OrderInv
  BY TypeInit, OrderInit
<1>2. TypeInv /\ OrderInv /\ [Next]_vars => (TypeInv /\ OrderInv)'
  BY TypeStep, OrderStep
<1> QED
  BY <1>1, <1>2, PTL DEF Spec

LEMMA LogStep ==
    ASSUME ~LiveReplay, ~SplitHello, ~LateNews, TypeInv, OrderInv, Next, PageInv', TypeInv'
    PROVE  Log!Next
<1>0. DOMAIN author = 1..Last /\ Last \in Nat
  BY PageShape DEF TypeInv, LogT, Last
<1>1. CASE \E c \in Conns : Draw(c)
  <2>1. PICK c \in Conns : Draw(c)
    BY <1>1
  <2>2. author' = Append(author, c) /\ page' = page
    BY <2>1 DEF Draw
  <2>3. DOMAIN author' = 1..Last + 1
    BY <2>1, DrawType
  <2>4. ASSUME NEW d \in Conns
        PROVE  {q \in DOMAIN author' : q <= page[d].base \/ q \in page[d].got}
                  = {q \in DOMAIN author : q <= page[d].base \/ q \in page[d].got}
    <3>1. page[d].base <= Last /\ page[d].got \subseteq 1..Last /\ page[d].base \in Nat
      BY PageShape DEF TypeInv, PageT, LogT
    <3> QED
      BY <3>1, <2>3, <1>0
  <2>5. \A d \in Conns :
           (IF page'[d].pc = "live"
            THEN {q \in DOMAIN author' : q <= page'[d].base \/ q \in page'[d].got} ELSE {})
         = (IF page[d].pc = "live"
            THEN {q \in DOMAIN author : q <= page[d].base \/ q \in page[d].got} ELSE {})
    BY <2>2, <2>4
  <2>6. Log!Append1(c)
    BY <2>2, <2>5 DEF Log!Append1, Holds
  <2> QED
    BY <2>6 DEF Log!Next
<1>2. CASE UNCHANGED author
  <2> DEFINE Was(c) == IF page[c].pc = "live"
                       THEN {q \in DOMAIN author : q <= page[c].base \/ q \in page[c].got} ELSE {}
             Is(c) == IF page'[c].pc = "live"
                      THEN {q \in DOMAIN author : q <= page'[c].base \/ q \in page'[c].got} ELSE {}
  <2>1. ASSUME NEW c \in Conns
        PROVE  \/ Is(c) = {}
               \/ /\ Was(c) \subseteq Is(c) /\ Is(c) \subseteq DOMAIN author
                  /\ \A hi \in Is(c) : \A q \in 1..hi : author[q] = author[hi] => q \in Is(c)
    <3>1. CASE page'[c].pc # "live"
      BY <3>1
    <3>2. CASE page'[c].pc = "live"
      <4>0. Moves(c)
        BY EveryMove
      <4>1. Was(c) \subseteq Is(c)
        <5>1. CASE page[c].pc # "live"
          BY <5>1
        <5>2. CASE page[c].pc = "live"
          <6>1. \A q \in DOMAIN author : q <= page[c].base \/ q \in page[c].got
                                           => q <= page'[c].base \/ q \in page'[c].got
            BY <4>0, <3>2, <5>2, <1>0, HoldsOn DEF Holds
          <6> QED
            BY <6>1, <3>2, <5>2
        <5> QED
          BY <5>1, <5>2
      <4>2. page'[c].base \in Nat
        <5>1. page'[c] \in Page
          BY DEF TypeInv, PageT
        <5> QED
          BY <5>1 DEF Page
      <4>3. ASSUME NEW hi \in Is(c), NEW q \in 1..hi, author[q] = author[hi]
            PROVE  q \in Is(c)
        <5>1. hi \in 1..Last /\ q \in 1..Last /\ q <= hi /\ (hi <= page'[c].base \/ hi \in page'[c].got)
          BY <3>2, <1>0
        <5>2. CASE hi <= page'[c].base
          BY <5>1, <5>2, <4>2, <3>2, <1>0
        <5>3. CASE hi \in page'[c].got
          <6>1. q <= page'[c].base \/ q \in page'[c].got
            BY <5>3, <3>2, <4>3, <1>2 DEF PageInv, Gapless, Holds
          <6> QED
            BY <6>1, <5>1, <3>2, <1>0
        <5> QED
          BY <5>1, <5>2, <5>3
      <4>4. Is(c) \subseteq DOMAIN author
        OBVIOUS
      <4> QED
        BY <4>1, <4>3, <4>4
    <3> QED
      BY <3>1, <3>2
  <2>2. \A c \in Conns : Is(c) \subseteq DOMAIN author
    OBVIOUS
  <2>3. \A c \in Conns :
          /\ (IF page[c].pc = "live" THEN {q \in DOMAIN author : Holds(c, q)} ELSE {}) = Was(c)
          /\ (IF page[c].pc = "live" THEN {q \in DOMAIN author : Holds(c, q)} ELSE {})' = Is(c)
    BY <1>2 DEF Holds
  <2> HIDE DEF Was, Is
  <2>4. Log!Read
    <3>1. [c \in Conns |-> IF page[c].pc = "live"
                           THEN {q \in DOMAIN author : Holds(c, q)} ELSE {}]'
             = [c \in Conns |-> Is(c)]
      BY <2>3
    <3>2. [c \in Conns |-> Is(c)] \in [Conns -> SUBSET DOMAIN author]
      BY <2>2
    <3>3. \A c \in Conns : Log!GoesOn(c)
      BY <3>1, <2>1, <2>3, <1>2 DEF Log!GoesOn, Log!InOrder
    <3> QED
      BY <3>1, <3>2, <3>3, <1>2 DEF Log!Read
  <2> QED
    BY <2>4 DEF Log!Next
<1> QED
  BY <1>1, <1>2, PostSteps

(* Whatever is lost, reordered or read twice between processes, a page     *)
(* takes every sender's frames in order and without a hole, or starts over *)
(* - as long as no frame reaches a page between its welcome and its        *)
(* replay, no checkpoint falls there, and no page is welcomed by a process *)
(* that has yet to hear of an earlier checkpoint.                          *)
THEOREM RelayKeepsOrder ==
    ASSUME ~LiveReplay, ~SplitHello, ~LateNews
    PROVE  Spec => InOrderOrAnew
<1>1. Init => Log!Init
  BY DEF Init, Log!Init, NoFrames
<1>2. TypeInv /\ OrderInv /\ [Next]_vars /\ (TypeInv /\ OrderInv)'
         => [Log!Next]_<<author, [c \in Conns |-> IF page[c].pc = "live"
                                   THEN {q \in DOMAIN author : Holds(c, q)} ELSE {}]>>
  <2> SUFFICES ASSUME TypeInv, OrderInv, [Next]_vars, (TypeInv /\ OrderInv)'
               PROVE  [Log!Next]_<<author, [c \in Conns |-> IF page[c].pc = "live"
                                   THEN {q \in DOMAIN author : Holds(c, q)} ELSE {}]>>
    OBVIOUS
  <2>1. CASE Next
    BY <2>1, LogStep DEF OrderInv
  <2>2. CASE UNCHANGED vars
    BY <2>2 DEF vars, logVars, pageVars, Holds
  <2> QED
    BY <2>1, <2>2
<1> QED
  BY <1>1, <1>2, AlwaysOrdered, PTL DEF Spec, InOrderOrAnew, Log!Spec

=============================================================================
