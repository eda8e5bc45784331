---------------------------- MODULE UploadProofs ----------------------------
(***************************************************************************)
(* Proofs about ResumableUpload: the types, and that what is committed is  *)
(* the header and every chunk, in order.                                   *)
(***************************************************************************)
EXTENDS ResumableUpload, FiniteSetTheorems, SequenceTheorems,
        WellFoundedInduction, TLAPS

-----------------------------------------------------------------------------
(* The inductive invariants. *)

(* The same chunks under the same number, delivered or not. *)
Same(a, b) == a.no = b.no /\ a.first = b.first /\ a.n = b.n

(* Parts recorded one after the other walk the file from its first chunk.  *)
Walk(J) ==
    /\ J \in Seq(Part)
    /\ \A i \in 1..Len(J) : J[i].no = i /\ i <= J[i].first
                             /\ J[i].first + J[i].n - 1 <= ChunkCount
    /\ Len(J) # 0 => J[1].first = 1
    /\ \A i \in 1..Len(J) : i # 1 => J[i].first = J[i - 1].first + J[i - 1].n

(* The first chunk that k parts leave over. *)
Reached(J, k) == IF k = 0 THEN 1 ELSE J[k].first + J[k].n

(* What is on its way for a row, and what its session holds, is as J says. *)
Carries(r, J) ==
    /\ \A m \in net : m.t = "part" /\ m.r = r =>
          m.part.no <= Len(J) /\ Same(m.part, J[m.part.no])
    /\ \A no \in PartNo : parts[r][no] # <<>> =>
          no <= Len(J) /\ parts[r][no] = Body(J[no])

SameParts(J, K) == Len(J) = Len(K) /\ \A i \in 1..Len(J) : Same(J[i], K[i])

(* A row nobody has begun to fill. *)
Untouched(r) ==
    /\ landed[r] = <<>> /\ \A no \in PartNo : parts[r][no] = <<>>
    /\ \A m \in net : m.r # r

UpShape ==
    /\ up \in [pc : {"idle", "created", "sending", "completing", "closed"},
               row : Rows \cup {NoRow}, next : 1..ChunkCount + 1,
               last : 0..ChunkCount, plan : Seq(Part), flying : SUBSET Part]
    /\ IsFiniteSet(up.flying) /\ Cardinality(up.flying) <= PARTS_IN_FLIGHT
    /\ up.pc \in {"idle", "closed"} <=> up.row = NoRow

StateShape ==
    /\ source \in Edition \cup {"gone"} /\ kills \in 0..MaxKills /\ net \subseteq Message
    /\ row \in [Rows -> {"unused", "live", "trashed", "gone"}]
    /\ session \in [Rows -> {"none", "open", "closed"}]
    /\ parts \in [Rows -> [PartNo -> Bodies \cup {<<>>}]]
    /\ drawn \in [Rows -> [PartNo -> Edition]]
    /\ DOMAIN landed = Rows
    /\ journal \in [row : Rows \cup {NoRow}, parts : Seq(Part)]
    /\ journal.row = NoRow => journal = NoRecord

(* What is recorded for a row, or was while it had a record, is a walk     *)
(* through the file, and nothing sent or stored for the row departs from   *)
(* it.                                                                     *)
WalkInv ==
    /\ Walk(journal.parts)
    /\ \A r \in Rows : \E J \in Seq(Part) :
          Walk(J) /\ Carries(r, J) /\ (journal.row = r => SameParts(J, journal.parts))

(* The running upload stands where its record leads. *)
SendInv ==
    /\ up.pc \in {"sending", "completing"} =>
          /\ journal.row = up.row /\ up.last = Len(journal.parts)
          /\ Len(up.plan) <= up.last
          /\ \A j \in 1..Len(up.plan) :
                Same(up.plan[j], journal.parts[up.last - Len(up.plan) + j])
          /\ up.next = Reached(journal.parts, up.last - Len(up.plan))
    /\ up.pc = "created" =>
          /\ journal = NoRecord /\ Untouched(up.row)
          /\ up.last = 0 /\ up.plan = <<>> /\ up.next = 1

RowInv ==
    \A r \in Rows : row[r] = "unused" =>
        Untouched(r) /\ up.row # r /\ journal.row # r

WholeInv == \A r \in Rows : landed[r] # <<>> => landed[r] = File

UploadInv == UpShape /\ StateShape /\ WalkInv /\ SendInv /\ RowInv /\ WholeInv

-----------------------------------------------------------------------------
(* Joining parts *)

LEMMA LeastNumber ==
    ASSUME NEW T, T \subseteq Nat, T # {}
    PROVE  \E u \in T : \A v \in T : u <= v
<1> DEFINE Less == OpToRel(<, Nat)
<1>1. IsWellFoundedOn(Less, Nat)
  BY NatLessThanWellFounded
<1>2. \E u \in T : \A v \in T : <<v, u>> \notin Less
  <2> HIDE DEF Less
  <2> QED
    BY <1>1, WFMin
<1>3. \A u, v \in Nat : v < u => <<v, u>> \in Less
  BY DEF OpToRel
<1> HIDE DEF Less
<1>4. PICK u \in T : \A v \in T : <<v, u>> \notin Less
  BY <1>2
<1>5. \A v \in T : u <= v
  <2> SUFFICES ASSUME NEW v \in T, ~(u <= v) PROVE FALSE
    OBVIOUS
  <2>1. v < u /\ u \in Nat /\ v \in Nat
    OBVIOUS
  <2> QED
    BY <2>1, <1>3, <1>4
<1> QED
  BY <1>5

(* A function that satisfies the recursion is what the recursion defines.  *)
LEMMA FlattenSteps ==
    ASSUME NEW seqs, NEW k \in Nat \ {0}, Len(seqs) = k, NEW g,
           \A i \in 1..k : g[i] = IF i = 1 THEN seqs[i] ELSE g[i - 1] \o seqs[i]
    PROVE  FlattenSeq(seqs) = g[k]
<1> DEFINE f == CHOOSE h : h = [i \in 1..Len(seqs) |->
                    IF i = 1 THEN seqs[i] ELSE h[i - 1] \o seqs[i]]
<1>1. FlattenSeq(seqs) = f[Len(seqs)]
  BY DEF FlattenSeq
<1>2. f = [i \in 1..k |-> IF i = 1 THEN seqs[i] ELSE f[i - 1] \o seqs[i]]
  <2> DEFINE G == [i \in 1..k |-> g[i]]
  <2>1. ASSUME NEW i \in 1..k
        PROVE  G[i] = IF i = 1 THEN seqs[i] ELSE G[i - 1] \o seqs[i]
    <3>1. i # 1 => i - 1 \in 1..k
      OBVIOUS
    <3> QED
      BY <3>1
  <2>2. G = [i \in 1..Len(seqs) |-> IF i = 1 THEN seqs[i] ELSE G[i - 1] \o seqs[i]]
    BY <2>1
  <2> HIDE DEF G
  <2> QED
    BY <2>2
<1> HIDE DEF f
<1> DEFINE T == {i \in 1..k : f[i] # g[i]}
<1>3. T = {}
  <2> SUFFICES ASSUME T # {} PROVE FALSE
    OBVIOUS
  <2>1. T \subseteq Nat
    OBVIOUS
  <2>2. PICK u \in T : \A v \in T : u <= v
    <3> HIDE DEF T
    <3> QED
      BY <2>1, LeastNumber
  <2>3. u \in 1..k /\ f[u] # g[u]
    OBVIOUS
  <2>4. CASE u = 1
    BY <2>3, <2>4, <1>2
  <2>5. CASE u # 1
    <3>1. u - 1 \in 1..k /\ ~(u <= u - 1)
      BY <2>3, <2>5
    <3>2. f[u - 1] = g[u - 1]
      BY <3>1, <2>2
    <3>3. f[u] = f[u - 1] \o seqs[u] /\ g[u] = g[u - 1] \o seqs[u]
      BY <2>3, <2>5, <1>2
    <3> QED
      BY <3>2, <3>3, <2>3
  <2> QED
    BY <2>4, <2>5
<1>4. k \in 1..k
  OBVIOUS
<1>5. f[k] = g[k]
  BY <1>3, <1>4
<1> HIDE DEF T
<1> QED
  BY <1>1, <1>5

(* The first m chunks, the header among them. *)
Prefix(m) == [i \in 1..m |-> i - 1]

LEMMA PartShape ==
    ASSUME NEW p \in Part
    PROVE  /\ p.no \in PartNo /\ p.first \in Chunk /\ p.n \in 1..MaxSpan
           /\ p.done \in BOOLEAN
           /\ p.no \in Nat /\ p.first \in Nat /\ p.n \in Nat /\ p.n > 0
BY UploadAssumption DEF Part, PartNo, Chunk

LEMMA WalkShape ==
    ASSUME NEW J, Walk(J)
    PROVE  /\ Len(J) \in 0..ChunkCount
           /\ \A i \in 1..Len(J) :
                /\ J[i] \in Part /\ J[i].no = i /\ i \in PartNo
                /\ Reached(J, i) \in 1..ChunkCount + 1 /\ i < Reached(J, i)
           /\ Reached(J, Len(J)) \in 1..ChunkCount + 1 /\ Len(J) < Reached(J, Len(J))
<1>1. Len(J) \in Nat /\ \A i \in 1..Len(J) : J[i] \in Part
  BY DEF Walk
<1>2. ASSUME NEW i \in 1..Len(J)
      PROVE  /\ J[i].no = i /\ i \in PartNo
             /\ Reached(J, i) \in 1..ChunkCount + 1 /\ i < Reached(J, i)
  <2>1. J[i] \in Part /\ i \in Nat /\ i # 0
    BY <1>1
  <2>2. J[i].no = i /\ i <= J[i].first /\ J[i].first + J[i].n - 1 <= ChunkCount
    BY DEF Walk
  <2> QED
    BY <2>1, <2>2, PartShape, UploadAssumption DEF Reached, PartNo
<1>3. Len(J) # 0 => Len(J) \in 1..Len(J)
  BY <1>1
<1> QED
  BY <1>1, <1>2, <1>3, UploadAssumption DEF Reached, PartNo

LEMMA FirstBody ==
    ASSUME NEW J, Walk(J), Len(J) # 0
    PROVE  Body(J[1]) = Prefix(Reached(J, 1))
<1>1. 1 \in 1..Len(J) /\ J[1] \in Part /\ J[1].no = 1
  BY WalkShape
<1>2. J[1].first = 1 /\ J[1].n \in Nat
  BY <1>1, PartShape DEF Walk
<1> QED
  BY <1>1, <1>2 DEF Body, Prefix, Reached

LEMMA NextBody ==
    ASSUME NEW J, Walk(J), NEW k \in 1..Len(J), k # 1
    PROVE  Prefix(Reached(J, k - 1)) \o Body(J[k]) = Prefix(Reached(J, k))
<1>1. /\ k \in Nat /\ k - 1 \in 1..Len(J) /\ k - 1 # 0 /\ k # 0
  BY WalkShape
<1>2. /\ J[k].no = k /\ J[k] \in Part /\ Reached(J, k - 1) \in Nat
  BY <1>1, WalkShape, UploadAssumption
<1>3. J[k].first = Reached(J, k - 1)
  BY <1>1 DEF Walk, Reached
<1>4. J[k].n \in Nat
  BY <1>2, PartShape
<1> DEFINE a == Reached(J, k - 1)
           n == J[k].n
           tail == [i \in 1..n |-> a + i - 1]
<1>5. Body(J[k]) = <<>> \o tail
  BY <1>2, <1>3 DEF Body
<1>6. Reached(J, k) = a + n
  BY <1>1, <1>3 DEF Reached
<1>7. a \in Nat /\ n \in Nat
  BY <1>2, <1>4
<1> HIDE DEF a, n
<1>8. tail \in Seq(Nat) /\ Len(tail) = n
  BY <1>7
<1>9. <<>> \o tail = tail
  BY <1>8, ConcatEmptySeq
<1>10. Prefix(a) \o tail = Prefix(a + n)
  BY <1>7 DEF Prefix
<1> QED
  BY <1>5, <1>6, <1>9, <1>10 DEF a

(* The bodies of the first k parts joined are the first chunks of the file. *)
LEMMA JoinedWalk ==
    ASSUME NEW J, Walk(J), NEW k \in 1..Len(J)
    PROVE  FlattenSeq([no \in 1..k |-> Body(J[no])]) = Prefix(Reached(J, k))
<1> DEFINE seqs == [no \in 1..k |-> Body(J[no])]
           g == [i \in 1..k |-> Prefix(Reached(J, i))]
<1>1. k \in Nat \ {0} /\ Len(seqs) = k /\ Len(J) # 0
  BY WalkShape
<1>2. ASSUME NEW i \in 1..k
      PROVE  g[i] = IF i = 1 THEN seqs[i] ELSE g[i - 1] \o seqs[i]
  <2>1. CASE i = 1
    BY <2>1, <1>1, FirstBody
  <2>2. CASE i # 1
    <3>1. i \in 1..Len(J) /\ i - 1 \in 1..k
      BY <2>2, <1>1, WalkShape
    <3>2. Prefix(Reached(J, i - 1)) \o Body(J[i]) = Prefix(Reached(J, i))
      BY <2>2, <3>1, NextBody
    <3> QED
      BY <2>2, <3>1, <3>2
  <2> QED
    BY <2>1, <2>2
<1>4. g[k] = Prefix(Reached(J, k))
  BY <1>1
<1> HIDE DEF g, seqs
<1>5. FlattenSeq(seqs) = g[k]
  BY <1>1, <1>2, FlattenSteps
<1> QED
  BY <1>4, <1>5 DEF seqs

-----------------------------------------------------------------------------
(* Messages and parts *)

Calls == {"complete", "ok", "refused", "abort", "trash", "delete"}

LEMMA MessageShape ==
    ASSUME NEW m \in Message
    PROVE  /\ m.r \in Rows
           /\ m.t = "part" => m.part \in Part /\ m.from \in Edition
           /\ m.t # "part" => m.t \in Calls /\ m = Msg(m.t, m.r)
<1>1. CASE m \in [t : {"part"}, r : Rows, part : Part, from : Edition]
  BY <1>1
<1>2. CASE m \in [t : Calls, r : Rows]
  BY <1>2 DEF Msg, Calls
<1> QED
  BY <1>1, <1>2 DEF Message, Calls

LEMMA MsgShape ==
    ASSUME NEW t, NEW r
    PROVE  /\ Msg(t, r).t = t /\ Msg(t, r).r = r
           /\ t \in Calls /\ r \in Rows => Msg(t, r) \in Message
           /\ \A u, q : Msg(t, r) = Msg(u, q) => t = u /\ r = q
<1>1. Msg(t, r).t = t /\ Msg(t, r).r = r
  BY DEF Msg
<1>2. t \in Calls /\ r \in Rows => Msg(t, r) \in Message
  BY DEF Msg, Message, Calls
<1>3. ASSUME NEW u, NEW q, Msg(t, r) = Msg(u, q) PROVE t = u /\ r = q
  BY <1>3 DEF Msg
<1> QED
  BY <1>1, <1>2, <1>3

LEMMA PartMsgShape ==
    ASSUME NEW p \in Part, NEW r \in Rows, NEW from
    PROVE  /\ from \in Edition => PartMsg(r, p, from) \in Message
           /\ PartMsg(r, p, from).t = "part" /\ PartMsg(r, p, from).r = r
           /\ PartMsg(r, p, from).part \in Part /\ Same(PartMsg(r, p, from).part, p)
<1> DEFINE q == [p EXCEPT !.done = FALSE]
<1>1. q \in Part /\ Same(q, p)
  BY DEF Part, Same
<1> HIDE DEF q
<1>2. PartMsg(r, p, from) = [t |-> "part", r |-> r, part |-> q, from |-> from]
  BY DEF PartMsg, q
<1> QED
  BY <1>1, <1>2 DEF Message

LEMMA SameBody ==
    ASSUME NEW a, NEW b, Same(a, b)
    PROVE  Body(a) = Body(b)
BY DEF Same, Body

LEMMA SweptShape ==
    ASSUME NEW r \in Rows, net \subseteq Message
    PROVE  /\ Swept(r) \subseteq Message
           /\ \A m \in Swept(r) : m \in net \/ m \in {Msg("abort", r), Msg("trash", r)}
<1>1. Msgs({"abort", "trash"}, r) = {Msg("abort", r), Msg("trash", r)}
  BY DEF Msgs
<1> QED
  BY <1>1, MsgShape DEF Swept, Calls

(* A row's part is whole when it reaches no further than the file.         *)
LEMMA BodyInBodies ==
    ASSUME NEW p \in Part, p.first + p.n - 1 <= ChunkCount
    PROVE  Body(p) \in Bodies
BY DEF Bodies

(* Where the running upload stands on its record.                          *)
LEMMA StandsAt ==
    ASSUME UpShape, WalkInv, SendInv, up.pc = "sending", up.plan # <<>>
    PROVE  LET J == journal.parts
               k == Len(J) - Len(up.plan) + 1
           IN  /\ k \in 1..Len(J) /\ Len(J) - (Len(up.plan) - 1) = k
               /\ Head(up.plan) \in Part /\ Same(Head(up.plan), J[k])
               /\ up.next = J[k].first
               /\ up.next + Head(up.plan).n = Reached(J, k)
               /\ Reached(J, k) \in 1..ChunkCount + 1
               /\ Head(up.plan).no = k /\ k <= up.last
               /\ Tail(up.plan) \in Seq(Part) /\ Len(Tail(up.plan)) = Len(up.plan) - 1
               /\ \A j \in 1..Len(Tail(up.plan)) : Same(Tail(up.plan)[j], J[k + j])
<1> DEFINE J == journal.parts
           P == up.plan
           k == Len(J) - Len(P) + 1
<1>1. /\ P \in Seq(Part) /\ P # <<>> /\ Walk(J)
      /\ up.last = Len(J) /\ Len(P) <= up.last
      /\ \A j \in 1..Len(P) : Same(P[j], J[up.last - Len(P) + j])
      /\ up.next = Reached(J, up.last - Len(P))
  BY DEF UpShape, WalkInv, SendInv
<1>2. Len(J) \in Nat /\ \A i \in 1..Len(J) : J[i] \in Part /\ J[i].no = i
  BY <1>1, WalkShape, UploadAssumption
<1>3. /\ Len(P) \in Nat /\ Len(P) # 0 /\ Head(P) = P[1] /\ P[1] \in Part
      /\ Tail(P) \in Seq(Part) /\ Len(Tail(P)) = Len(P) - 1
      /\ \A j \in 1..Len(Tail(P)) : Tail(P)[j] = P[j + 1]
  BY <1>1, HeadTailProperties
<1> HIDE DEF J, P
<1>4. k \in 1..Len(J) /\ Len(J) - (Len(P) - 1) = k
  BY <1>1, <1>2, <1>3
<1>5. Same(P[1], J[k])
  <2>1. 1 \in 1..Len(P) /\ up.last - Len(P) + 1 = k
    BY <1>1, <1>3
  <2> QED
    BY <2>1, <1>1
<1>6. up.next = J[k].first
  <2>1. up.next = Reached(J, k - 1)
    BY <1>1, <1>2, <1>3
  <2>2. CASE k = 1
    BY <2>1, <2>2, <1>1, <1>4 DEF Reached, Walk
  <2>3. CASE k # 1
    <3>1. k - 1 # 0 /\ J[k].first = J[k - 1].first + J[k - 1].n
      BY <2>3, <1>1, <1>4 DEF Walk
    <3> QED
      BY <3>1, <2>1 DEF Reached
  <2> QED
    BY <2>2, <2>3
<1>7. up.next + P[1].n = Reached(J, k)
  <2>1. k # 0 /\ P[1].n = J[k].n
    BY <1>4, <1>5 DEF Same
  <2> QED
    BY <2>1, <1>6 DEF Reached
<1>8. P[1].no = k /\ k <= up.last
  BY <1>1, <1>2, <1>4, <1>5 DEF Same
<1>9. ASSUME NEW j \in 1..Len(Tail(P)) PROVE Same(Tail(P)[j], J[k + j])
  <2>1. j + 1 \in 1..Len(P) /\ up.last - Len(P) + (j + 1) = k + j
    BY <1>1, <1>2, <1>3
  <2> QED
    BY <2>1, <1>1, <1>3
<1>10. Reached(J, k) \in 1..ChunkCount + 1
  BY <1>1, <1>4, WalkShape
<1> QED
  BY <1>1, <1>3, <1>4, <1>5, <1>6, <1>7, <1>8, <1>9, <1>10 DEF J, P

(* The part that comes after all recorded ones.                            *)
LEMMA NextPart ==
    ASSUME UpShape, WalkInv, SendInv, up.pc = "sending", up.plan = <<>>,
           NEW n \in 1..MaxSpan, up.next + n - 1 <= ChunkCount,
           NEW part, part = [no |-> up.last + 1, first |-> up.next, n |-> n, done |-> FALSE]
    PROVE  LET J == journal.parts
               K == Append(J, part)
           IN  /\ part \in Part /\ Walk(K) /\ up.last = Len(J)
               /\ Len(K) = Len(J) + 1 /\ K[Len(K)] = part
               /\ \A i \in 1..Len(J) : K[i] = J[i]
               /\ up.next + n = Reached(K, Len(K))
               /\ up.next + n \in 1..ChunkCount + 1
<1> DEFINE J == journal.parts
           K == Append(J, part)
<1>1. Walk(J) /\ up.last = Len(J) /\ up.next = Reached(J, Len(J))
  BY DEF WalkInv, SendInv, UpShape
<1>2. /\ Len(J) \in Nat /\ J \in Seq(Part) /\ Len(J) < up.next /\ up.next \in Nat
      /\ n \in Nat /\ n > 0
  <2>1. J \in Seq(Part)
    BY <1>1 DEF Walk
  <2> HIDE DEF J
  <2>2. /\ Len(J) \in 0..ChunkCount /\ Reached(J, Len(J)) \in 1..ChunkCount + 1
        /\ Len(J) < Reached(J, Len(J))
    BY <1>1, WalkShape
  <2> QED
    BY <1>1, <2>1, <2>2, UploadAssumption
<1>3. part \in Part
  BY <1>1, <1>2, UploadAssumption DEF Part, PartNo, Chunk
<1>4. /\ K \in Seq(Part) /\ Len(K) = Len(J) + 1 /\ K[Len(K)] = part
      /\ \A i \in 1..Len(J) : K[i] = J[i]
  BY <1>2, <1>3
<1> HIDE DEF J, K
<1>5. ASSUME NEW i \in 1..Len(K)
      PROVE  /\ K[i].no = i /\ i <= K[i].first /\ K[i].first + K[i].n - 1 <= ChunkCount
             /\ i # 1 => K[i].first = K[i - 1].first + K[i - 1].n
  <2>1. CASE i \in 1..Len(J)
    <3>1. K[i] = J[i] /\ (i # 1 => i - 1 \in 1..Len(J) /\ K[i - 1] = J[i - 1])
      BY <2>1, <1>2, <1>4
    <3> QED
      BY <3>1, <2>1, <1>1 DEF Walk
  <2>2. CASE i = Len(J) + 1
    <3>1. K[i] = part /\ (i # 1 => i - 1 \in 1..Len(J) /\ K[i - 1] = J[i - 1])
      BY <2>2, <1>2, <1>4
    <3>2. i # 1 => up.next = J[i - 1].first + J[i - 1].n
      BY <2>2, <1>1, <1>2 DEF Reached
    <3> QED
      BY <3>1, <3>2, <2>2, <1>1, <1>2
  <2> QED
    BY <2>1, <2>2, <1>2, <1>4
<1>6. K[1].first = 1
  <2>1. CASE Len(J) = 0
    <3>1. K[1] = part /\ up.next = 1
      BY <2>1, <1>1, <1>4 DEF Reached
    <3> QED
      BY <3>1
  <2>2. CASE Len(J) # 0
    BY <2>2, <1>1, <1>2, <1>4 DEF Walk
  <2> QED
    BY <2>1, <2>2
<1>7. up.next + n = Reached(K, Len(K))
  BY <1>2, <1>4 DEF Reached
<1>8. Walk(K)
  BY <1>4, <1>5, <1>6 DEF Walk
<1>9. up.next + n \in 1..ChunkCount + 1
  BY <1>2, UploadAssumption
<1> QED
  BY <1>1, <1>3, <1>4, <1>7, <1>8, <1>9 DEF J, K

-----------------------------------------------------------------------------
(* What a step leaves as it was *)

LEMMA EmptyWalk == Walk(<<>>)
<1>1. <<>> \in Seq(Part) /\ Len(<<>>) = 0
  OBVIOUS
<1> QED
  BY <1>1 DEF Walk

LEMMA WalkSame ==
    ASSUME NEW J, NEW K, Walk(J), K \in Seq(Part), SameParts(J, K)
    PROVE  Walk(K)
<1>1. Len(K) = Len(J) /\ Len(J) \in Nat
  BY DEF SameParts
<1>2. ASSUME NEW i \in 1..Len(K)
      PROVE  K[i].no = J[i].no /\ K[i].first = J[i].first /\ K[i].n = J[i].n
  BY <1>1 DEF SameParts, Same
<1>3. ASSUME NEW i \in 1..Len(K)
      PROVE  K[i].no = i /\ i <= K[i].first /\ K[i].first + K[i].n - 1 <= ChunkCount
  BY <1>1, <1>2 DEF Walk
<1>4. ASSUME NEW i \in 1..Len(K), i # 1
      PROVE  K[i].first = K[i - 1].first + K[i - 1].n
  <2>1. i - 1 \in 1..Len(K)
    BY <1>1, <1>4
  <2> QED
    BY <2>1, <1>1, <1>2, <1>4 DEF Walk
<1>5. Len(K) # 0 => K[1].first = 1
  BY <1>1, <1>2 DEF Walk
<1> QED
  BY <1>3, <1>4, <1>5 DEF Walk

LEMMA CarriesOn ==
    ASSUME NEW r, NEW J, Carries(r, J), parts'[r] = parts[r],
           \A m \in net' : m.t = "part" /\ m.r = r => m \in net
    PROVE  Carries(r, J)'
BY DEF Carries

LEMMA UntouchedOn ==
    ASSUME NEW r, Untouched(r), parts'[r] = parts[r], landed'[r] = landed[r],
           \A m \in net' : m.r = r => m \in net
    PROVE  Untouched(r)'
BY DEF Untouched

(* The record of the running upload itself tells what its row carries.     *)
LEMMA OwnCarries ==
    ASSUME StateShape, WalkInv, journal.row \in Rows
    PROVE  Carries(journal.row, journal.parts)
<1>1. PICK J \in Seq(Part) : Walk(J) /\ Carries(journal.row, J) /\ SameParts(J, journal.parts)
  BY DEF WalkInv
<1> DEFINE K == journal.parts
           r == journal.row
<1>2. Len(J) = Len(K) /\ \A i \in 1..Len(J) : Same(J[i], K[i])
  BY <1>1 DEF SameParts
<1>3. Carries(r, J) /\ Len(J) \in Nat
  BY <1>1
<1> HIDE DEF K, r
<1>4. ASSUME NEW m \in net, m.t = "part", m.r = r
      PROVE  m.part.no <= Len(K) /\ Same(m.part, K[m.part.no])
  <2>1. m.part.no <= Len(J) /\ Same(m.part, J[m.part.no])
    BY <1>3, <1>4 DEF Carries
  <2>2. m.part.no \in 1..Len(J)
    <3>1. m.part \in Part
      BY <1>4, MessageShape DEF StateShape
    <3> QED
      BY <3>1, <2>1, <1>3, PartShape, UploadAssumption DEF PartNo
  <2> QED
    BY <2>1, <2>2, <1>2 DEF Same
<1>5. ASSUME NEW no \in PartNo, parts[r][no] # <<>>
      PROVE  no <= Len(K) /\ parts[r][no] = Body(K[no])
  <2>1. no <= Len(J) /\ parts[r][no] = Body(J[no])
    BY <1>3, <1>5 DEF Carries
  <2>2. no \in 1..Len(J)
    BY <2>1, <1>3, UploadAssumption DEF PartNo
  <2> QED
    BY <2>1, <2>2, <1>2, SameBody
<1> QED
  BY <1>4, <1>5 DEF Carries, K, r

LEMMA WalkStays ==
    ASSUME StateShape, WalkInv, parts' = parts, journal' \in {journal, NoRecord},
           \A m \in net' : m.t = "part" => m \in net
    PROVE  WalkInv'
<1>1. Walk(journal'.parts)
  BY EmptyWalk DEF WalkInv, NoRecord
<1>2. ASSUME NEW r \in Rows
      PROVE  \E J \in Seq(Part) :
                /\ Walk(J) /\ Carries(r, J)'
                /\ journal'.row = r => SameParts(J, journal'.parts)
  <2>1. PICK J \in Seq(Part) :
           Walk(J) /\ Carries(r, J) /\ (journal.row = r => SameParts(J, journal.parts))
    BY DEF WalkInv
  <2>2. Carries(r, J)'
    BY <2>1, CarriesOn
  <2>3. journal'.row = r => journal' = journal
    BY UploadAssumption DEF NoRecord
  <2> QED
    BY <2>1, <2>2, <2>3
<1> QED
  BY <1>1, <1>2 DEF WalkInv

(* The record of a row that was begun, or written further, in this step.   *)
LEMMA WalkGoesOn ==
    ASSUME WalkInv, NEW q \in Rows, NEW K, K = journal'.parts, Walk(K),
           journal'.row = q, Carries(q, K)',
           \A r \in Rows \ {q} : parts'[r] = parts[r],
           \A m \in net' : m.t = "part" /\ m.r # q => m \in net
    PROVE  WalkInv'
<1>1. ASSUME NEW r \in Rows
      PROVE  \E J \in Seq(Part) :
                /\ Walk(J) /\ Carries(r, J)'
                /\ journal'.row = r => SameParts(J, journal'.parts)
  <2>1. CASE r = q
    <3>1. K \in Seq(Part) /\ SameParts(K, K)
      BY DEF Walk, SameParts, Same
    <3> QED
      BY <2>1, <3>1
  <2>2. CASE r # q
    <3>1. PICK J \in Seq(Part) : Walk(J) /\ Carries(r, J)
      BY DEF WalkInv
    <3>2. Carries(r, J)'
      BY <2>2, <3>1, CarriesOn
    <3> QED
      BY <2>2, <3>1, <3>2
  <2> QED
    BY <2>1, <2>2
<1> QED
  BY <1>1 DEF WalkInv

(* Delivered only marks the part in the record.                            *)
LEMMA MarkedParts ==
    ASSUME StateShape, NEW part \in up.flying, Delivered(part)
    PROVE  /\ journal'.row = journal.row /\ journal'.parts \in Seq(Part)
           /\ SameParts(journal.parts, journal'.parts)
           /\ journal' \in [row : Rows \cup {NoRow}, parts : Seq(Part)]
<1> DEFINE J == journal.parts
           K == [i \in DOMAIN J |-> IF J[i].no = part.no
                                     THEN [J[i] EXCEPT !.done = TRUE] ELSE J[i]]
<1>1. journal' = [journal EXCEPT !.parts = K]
  BY DEF Delivered
<1>2. J \in Seq(Part) /\ journal \in [row : Rows \cup {NoRow}, parts : Seq(Part)]
  BY DEF StateShape
<1>3. ASSUME NEW i \in DOMAIN J PROVE K[i] \in Part /\ Same(J[i], K[i])
  <2> DEFINE x == J[i]
  <2>1. x \in Part
    BY <1>2
  <2> HIDE DEF x
  <2>2. [x EXCEPT !.done = TRUE] \in Part /\ Same(x, [x EXCEPT !.done = TRUE])
        /\ Same(x, x)
    BY <2>1 DEF Part, Same
  <2>3. K[i] = [x EXCEPT !.done = TRUE] \/ K[i] = x
    BY DEF x
  <2> QED
    BY <2>1, <2>2, <2>3 DEF x
<1>4. K \in Seq(Part) /\ Len(K) = Len(J) /\ DOMAIN J = 1..Len(J)
  <2>1. DOMAIN J = 1..Len(J) /\ Len(J) \in Nat
    BY <1>2
  <2>2. K = [i \in 1..Len(J) |-> K[i]]
    BY <2>1
  <2>3. \A i \in 1..Len(J) : K[i] \in Part
    BY <2>1, <1>3
  <2> HIDE DEF K, J
  <2> QED
    BY <2>1, <2>2, <2>3
<1> HIDE DEF K, J
<1>5. journal'.row = journal.row /\ journal'.parts = K
      /\ journal' \in [row : Rows \cup {NoRow}, parts : Seq(Part)]
  BY <1>1, <1>2, <1>4
<1> QED
  BY <1>3, <1>4, <1>5 DEF SameParts, J

-----------------------------------------------------------------------------
(* Types *)

LEMMA UpStops ==
    ASSUME NEW pc \in {"idle", "closed"}, up' = Without(pc)
    PROVE  /\ UpShape' /\ up'.pc = pc /\ up'.row = NoRow
<1>1. <<>> \in Seq(Part) /\ {} \in SUBSET Part /\ IsFiniteSet({}) /\ Cardinality({}) = 0
  BY FS_EmptySet
<1>2. 1 \in 1..ChunkCount + 1 /\ 0 \in 0..ChunkCount
  BY UploadAssumption
<1> QED
  BY <1>1, <1>2 DEF UpShape, Without, Upload, PARTS_IN_FLIGHT

(* One more in flight, when there was room for it.                         *)
LEMMA OneMoreFlies ==
    ASSUME UpShape, CanFly, NEW part \in Part
    PROVE  /\ up.flying \cup {part} \in SUBSET Part
           /\ IsFiniteSet(up.flying \cup {part})
           /\ Cardinality(up.flying \cup {part}) <= PARTS_IN_FLIGHT
<1>1. IsFiniteSet(up.flying) /\ Cardinality(up.flying) \in Nat /\ up.flying \in SUBSET Part
  BY FS_CardinalityType DEF UpShape
<1> QED
  BY <1>1, FS_AddElement DEF CanFly, PARTS_IN_FLIGHT

LEMMA LaunchedShape ==
    ASSUME UpShape, up.pc = "sending", CanFly, net \subseteq Message, source \in Edition,
           NEW part \in Part, NEW plan \in Seq(Part), Launched(part, plan),
           up.next + part.n \in 1..ChunkCount + 1
    PROVE  UpShape' /\ net' \subseteq Message
<1>1. up.row \in Rows
  BY DEF UpShape
<1>2. net' \subseteq Message
  BY <1>1, PartMsgShape DEF Launched
<1>3. (IF part.no > up.last THEN part.no ELSE up.last) \in 0..ChunkCount
  BY PartShape, UploadAssumption DEF UpShape, PartNo
<1>4. up' = Upload("sending", up.row, up.next + part.n,
                   IF part.no > up.last THEN part.no ELSE up.last,
                   plan, up.flying \cup {part})
  BY DEF Launched
<1>5. /\ up.flying \cup {part} \in SUBSET Part /\ IsFiniteSet(up.flying \cup {part})
      /\ Cardinality(up.flying \cup {part}) <= PARTS_IN_FLIGHT
  BY OneMoreFlies
<1>6. UpShape'
  <2> DEFINE last == IF part.no > up.last THEN part.no ELSE up.last
             next == up.next + part.n
             flying == up.flying \cup {part}
  <2>1. last \in 0..ChunkCount /\ next \in 1..ChunkCount + 1
    BY <1>3
  <2>2. flying \in SUBSET Part /\ IsFiniteSet(flying) /\ Cardinality(flying) <= PARTS_IN_FLIGHT
    BY <1>5
  <2>3. up' = Upload("sending", up.row, next, last, plan, flying)
    BY <1>4
  <2>4. up.row # NoRow
    BY <1>1, UploadAssumption
  <2> HIDE DEF last, next, flying
  <2> QED
    BY <1>1, <2>1, <2>2, <2>3, <2>4 DEF UpShape, Upload
<1> QED
  BY <1>2, <1>6

(* A step that leaves the server's tables and the record alone.            *)
LEMMA ShapeStays ==
    ASSUME StateShape, UNCHANGED <<source, kills, row, session, parts, drawn, landed>>,
           net' \subseteq Message, journal' \in {journal, NoRecord}
    PROVE  StateShape'
<1>1. NoRecord \in [row : Rows \cup {NoRow}, parts : Seq(Part)]
  BY DEF NoRecord
<1> QED
  BY <1>1 DEF StateShape

DeviceStep ==
    \/ Create \/ Begin \/ PassOver \/ Replay \/ NewPart \/ Complete \/ Finish
    \/ Fail \/ Kill \/ SourceTurns \/ Open \/ Resume \/ Discard
    \/ \E part \in up.flying : Delivered(part)

LEMMA DeviceTypes ==
    ASSUME UploadInv, DeviceStep
    PROVE  UpShape' /\ StateShape'
<1> USE DEF UploadInv
<1>0. /\ UpShape /\ StateShape /\ WalkInv /\ SendInv /\ net \subseteq Message
      /\ NoRow \notin Rows
  BY UploadAssumption DEF StateShape
<1> USE DEF Idle
<1>1. CASE Create
  <2>1. PICK r \in Rows : row' = [row EXCEPT ![r] = "live"]
                          /\ up' = Upload("created", r, 1, 0, <<>>, {})
    BY <1>1 DEF Create
  <2>2. <<>> \in Seq(Part) /\ {} \in SUBSET Part /\ IsFiniteSet({}) /\ Cardinality({}) = 0
    BY FS_EmptySet
  <2>3. 1 \in 1..ChunkCount + 1 /\ 0 \in 0..ChunkCount
    BY UploadAssumption
  <2>4. UpShape'
    BY <2>1, <2>2, <2>3, <1>0 DEF UpShape, Upload, PARTS_IN_FLIGHT
  <2>5. StateShape'
    BY <2>1, <1>1, <1>0 DEF Create, StateShape
  <2> QED
    BY <2>4, <2>5
<1>2. CASE Begin
  <2>1. up.row \in Rows /\ up.row # NoRow
    BY <1>2, <1>0 DEF Begin, UpShape
  <2>2. UpShape'
    BY <1>2, <1>0, <2>1 DEF Begin, UpShape
  <2>3. StateShape'
    BY <1>2, <1>0, <2>1 DEF Begin, StateShape
  <2> QED
    BY <2>2, <2>3
<1>3. CASE PassOver
  <2>1. up.pc = "sending" /\ up.plan # <<>>
    BY <1>3 DEF PassOver, Recorded, Sending
  <2>2. /\ up.next + Head(up.plan).n \in 1..ChunkCount + 1 /\ Tail(up.plan) \in Seq(Part)
    BY <1>0, <2>1, StandsAt
  <2>3. up' = Upload("sending", up.row, up.next + Head(up.plan).n, up.last,
                     Tail(up.plan), up.flying)
    BY <1>3 DEF PassOver
  <2>4. UpShape'
    <3> DEFINE next == up.next + Head(up.plan).n
               rest == Tail(up.plan)
    <3>1. next \in 1..ChunkCount + 1 /\ rest \in Seq(Part)
          /\ up' = Upload("sending", up.row, next, up.last, rest, up.flying)
      BY <2>2, <2>3
    <3> HIDE DEF next, rest
    <3> QED
      BY <3>1, <2>1, <1>0 DEF UpShape, Upload
  <2>5. StateShape'
    BY <1>3, <1>0 DEF PassOver, serverVars, StateShape
  <2> QED
    BY <2>4, <2>5
<1>4. CASE Replay
  <2>1. up.pc = "sending" /\ up.plan # <<>> /\ CanFly /\ source \in Edition
    BY <1>0, <1>4 DEF Replay, Recorded, Sending, StateShape
  <2>2. /\ up.next + Head(up.plan).n \in 1..ChunkCount + 1 /\ Tail(up.plan) \in Seq(Part)
        /\ Head(up.plan) \in Part
    BY <1>0, <2>1, StandsAt
  <2>3. Launched(Head(up.plan), Tail(up.plan)) /\ journal' = journal
    BY <1>4 DEF Replay
  <2>4. UpShape' /\ net' \subseteq Message
    BY <1>0, <2>1, <2>2, <2>3, LaunchedShape
  <2>5. StateShape'
    BY <1>0, <2>3, <2>4, ShapeStays DEF Launched, serverVars
  <2> QED
    BY <2>4, <2>5
<1>5. CASE NewPart
  <2>1. up.pc = "sending" /\ up.plan = <<>> /\ CanFly /\ source \in Edition
    BY <1>0, <1>5 DEF NewPart, Sending, StateShape
  <2>2. PICK n \in 1..MaxSpan, part \in {[no |-> up.last + 1, first |-> up.next,
                                          n |-> k, done |-> FALSE] : k \in 1..MaxSpan} :
           /\ part = [no |-> up.last + 1, first |-> up.next, n |-> n, done |-> FALSE]
           /\ up.next + n - 1 <= ChunkCount /\ Launched(part, <<>>)
           /\ journal' = [journal EXCEPT !.parts = Append(@, part)]
    BY <1>5 DEF NewPart
  <2>3. /\ part \in Part /\ Walk(Append(journal.parts, part))
        /\ up.next + n \in 1..ChunkCount + 1
    BY <1>0, <2>1, <2>2, NextPart
  <2>4. UpShape' /\ net' \subseteq Message
    <3>1. part.n = n /\ <<>> \in Seq(Part)
      BY <2>2
    <3> QED
      BY <1>0, <2>1, <2>2, <2>3, <3>1, LaunchedShape
  <2>5. StateShape'
    <3>1. journal.row # NoRow
      BY <1>0, <2>1 DEF SendInv, UpShape
    <3>2. Append(journal.parts, part) \in Seq(Part)
      BY <2>3 DEF Walk
    <3>3. journal' \in [row : Rows \cup {NoRow}, parts : Seq(Part)] /\ journal'.row = journal.row
      BY <1>0, <2>2, <3>2 DEF StateShape
    <3> QED
      BY <1>0, <2>2, <2>4, <3>1, <3>3 DEF Launched, serverVars, StateShape
  <2> QED
    BY <2>4, <2>5
<1>6. CASE Complete
  <2>1. up.row \in Rows
    BY <1>6, <1>0 DEF Complete, UpShape
  <2>2. UpShape'
    BY <1>6, <1>0, <2>1 DEF Complete, UpShape
  <2>3. net' \subseteq Message
    BY <1>6, <1>0, <2>1, MsgShape DEF Complete, Calls
  <2> QED
    BY <1>6, <1>0, <2>2, <2>3, ShapeStays DEF Complete, serverVars
<1>7. CASE Finish
  BY <1>7, <1>0, UpStops, ShapeStays DEF Finish, serverVars
<1>8. CASE Fail
  <2>1. up.row \in Rows
    BY <1>8, <1>0 DEF Fail, UpShape
  <2>2. net' \subseteq Message
    BY <1>8, <1>0, <2>1, SweptShape DEF Fail
  <2> QED
    BY <1>8, <1>0, <2>2, UpStops, ShapeStays DEF Fail, serverVars
<1>9. CASE Kill
  <2>1. UpShape'
    BY <1>9, UpStops DEF Kill
  <2>2. StateShape'
    BY <1>9, <1>0, UploadAssumption DEF Kill, serverVars, StateShape
  <2> QED
    BY <2>1, <2>2
<1>10. CASE SourceTurns
  BY <1>10, <1>0 DEF SourceTurns, serverVars, StateShape, UpShape, Edition
<1>11. CASE Open
  <2>1. journal # NoRecord => journal.row \in Rows
    BY <1>0 DEF StateShape
  <2>2. net' \subseteq Message /\ journal' \in {journal, NoRecord}
    BY <1>11, <1>0, <2>1, SweptShape DEF Open
  <2> QED
    BY <1>11, <1>0, <2>2, UpStops, ShapeStays DEF Open, serverVars
<1>12. CASE Resume
  <2>1. StateShape'
    BY <1>12, <1>0, ShapeStays DEF Resume, serverVars
  <2>2. CASE source = "gone"
    BY <1>12, <1>0, <2>1, <2>2 DEF Resume, UpShape
  <2>3. CASE source # "gone"
    <3>1. /\ journal.row \in Rows /\ journal.parts \in Seq(Part)
          /\ Len(journal.parts) \in 0..ChunkCount
      BY <1>12, <1>0, WalkShape DEF Resume, StateShape, WalkInv
    <3>2. up' = Upload("sending", journal.row, 1, Len(journal.parts), journal.parts, {})
      BY <1>12, <2>3 DEF Resume
    <3>3. {} \in SUBSET Part /\ IsFiniteSet({}) /\ Cardinality({}) = 0
          /\ 1 \in 1..ChunkCount + 1
      BY FS_EmptySet, UploadAssumption
    <3>4. UpShape'
      BY <1>0, <3>1, <3>2, <3>3 DEF UpShape, Upload, PARTS_IN_FLIGHT
    <3> QED
      BY <2>1, <3>4
  <2> QED
    BY <2>2, <2>3
<1>13. CASE Discard
  <2>1. journal.row \in Rows
    BY <1>13, <1>0 DEF StateShape, Discard
  <2>2. net' \subseteq Message
    BY <1>13, <1>0, <2>1, SweptShape DEF Discard
  <2>3. UpShape'
    BY <1>13, <1>0 DEF Discard, UpShape
  <2> QED
    BY <1>13, <1>0, <2>2, <2>3, ShapeStays DEF Discard, serverVars
<1>14. CASE \E part \in up.flying : Delivered(part)
  <2>1. PICK part \in up.flying : Delivered(part)
    BY <1>14
  <2>2. up' = [up EXCEPT !.flying = @ \ {part}]
    BY <2>1 DEF Delivered
  <2>3. IsFiniteSet(up.flying) /\ Cardinality(up.flying) \in Nat
    BY <1>0, FS_CardinalityType DEF UpShape
  <2>4. IsFiniteSet(up.flying \ {part}) /\ Cardinality(up.flying \ {part}) <= PARTS_IN_FLIGHT
    <3>1. /\ IsFiniteSet(up.flying \ {part})
          /\ Cardinality(up.flying \ {part}) = Cardinality(up.flying) - 1
      BY <2>1, <2>3, FS_RemoveElement
    <3> QED
      BY <1>0, <2>3, <3>1 DEF UpShape, PARTS_IN_FLIGHT
  <2>5. UpShape'
    <3> DEFINE F == up.flying \ {part}
    <3>1. F \in SUBSET Part /\ up' = [up EXCEPT !.flying = F]
      BY <2>2, <1>0 DEF UpShape
    <3>2. IsFiniteSet(F) /\ Cardinality(F) <= PARTS_IN_FLIGHT
      BY <2>4
    <3> HIDE DEF F
    <3> QED
      BY <3>1, <3>2, <1>0 DEF UpShape
  <2>6. /\ journal'.row = journal.row
        /\ journal' \in [row : Rows \cup {NoRow}, parts : Seq(Part)]
    BY <1>0, <2>1, MarkedParts
  <2>7. journal.row # NoRow
    BY <1>0, <2>1 DEF SendInv, UpShape, Delivered
  <2>8. StateShape'
    BY <1>0, <2>1, <2>6, <2>7 DEF Delivered, serverVars, StateShape
  <2> QED
    BY <2>5, <2>8
<1> QED
  BY <1>1, <1>2, <1>3, <1>4, <1>5, <1>6, <1>7, <1>8, <1>9, <1>10, <1>11, <1>12,
     <1>13, <1>14 DEF DeviceStep

(* A part that is on its way is one that was recorded for its row.         *)
LEMMA OnItsWay ==
    ASSUME StateShape, WalkInv, NEW m \in net, m.t = "part"
    PROVE  /\ m.r \in Rows /\ m.part \in Part /\ Body(m.part) \in Bodies
           /\ \A J \in Seq(Part) : Walk(J) /\ Carries(m.r, J) =>
                 m.part.no \in 1..Len(J) /\ Body(m.part) = Body(J[m.part.no])
<1>1. m.r \in Rows /\ m.part \in Part
  BY MessageShape DEF StateShape
<1>2. ASSUME NEW J \in Seq(Part), Walk(J), Carries(m.r, J)
      PROVE  /\ m.part.no \in 1..Len(J) /\ Same(m.part, J[m.part.no])
  <2>1. m.part.no <= Len(J) /\ Same(m.part, J[m.part.no])
    BY <1>2 DEF Carries
  <2> QED
    BY <2>1, <1>1, <1>2, PartShape, UploadAssumption DEF PartNo
<1>3. PICK J \in Seq(Part) : Walk(J) /\ Carries(m.r, J)
  BY <1>1 DEF WalkInv
<1>4. m.part.no \in 1..Len(J) /\ Same(m.part, J[m.part.no])
  BY <1>2, <1>3
<1>5. m.part.first + m.part.n - 1 <= ChunkCount
  BY <1>3, <1>4 DEF Walk, Same
<1> QED
  BY <1>1, <1>2, <1>5, BodyInBodies, SameBody

(* What storing a part does to the sessions.                               *)
LEMMA PartStored ==
    ASSUME StateShape, WalkInv, PutPart
    PROVE  \E m \in net :
             /\ m.t = "part" /\ m.r \in Rows /\ m.part \in Part
             /\ \A r \in Rows \ {m.r} : parts'[r] = parts[r]
             /\ \A no \in PartNo : parts'[m.r][no] =
                   IF no = m.part.no THEN Body(m.part) ELSE parts[m.r][no]
             /\ parts' \in [Rows -> [PartNo -> Bodies \cup {<<>>}]]
             /\ drawn' \in [Rows -> [PartNo -> Edition]]
<1>1. PICK m \in net : /\ m.t = "part"
                       /\ parts' = [parts EXCEPT ![m.r][m.part.no] = Body(m.part)]
                       /\ drawn' = [drawn EXCEPT ![m.r][m.part.no] = m.from]
  BY DEF PutPart
<1>2. m.r \in Rows /\ m.part \in Part /\ Body(m.part) \in Bodies
  BY <1>1, OnItsWay
<1>3. m.part.no \in PartNo /\ parts \in [Rows -> [PartNo -> Bodies \cup {<<>>}]]
  BY <1>2, PartShape DEF StateShape
<1> DEFINE q == m.r
           no == m.part.no
           b == Body(m.part)
           held == [parts[q] EXCEPT ![no] = b]
<1>4. held \in [PartNo -> Bodies \cup {<<>>}]
  <2> HIDE DEF b, no, q
  <2>1. b \in Bodies \cup {<<>>} /\ no \in PartNo /\ q \in Rows
    BY <1>2, <1>3 DEF b, no, q
  <2> QED
    BY <1>3, <2>1
<1>5. \A i \in PartNo : held[i] = IF i = no THEN b ELSE parts[q][i]
  BY <1>2, <1>3
<1>6. parts' = [parts EXCEPT ![q] = held]
  BY <1>1
<1> HIDE DEF held
<1>7. /\ parts' \in [Rows -> [PartNo -> Bodies \cup {<<>>}]] /\ parts'[q] = held
      /\ \A r \in Rows \ {q} : parts'[r] = parts[r]
  BY <1>2, <1>3, <1>4, <1>6
<1>8. drawn' \in [Rows -> [PartNo -> Edition]]
  <2>1. m.from \in Edition
    BY <1>1, MessageShape DEF StateShape
  <2> QED
    BY <1>1, <2>1 DEF StateShape
<1> QED
  BY <1>1, <1>2, <1>5, <1>7, <1>8

ServerStep ==
    \/ PutPart \/ LoseRemoval
    \/ \E r \in Rows : \/ Commit(r) \/ Refuse(r) \/ Expire(r) \/ AbortParts(r)
                         \/ Trash(r) \/ Delete(r)

LEMMA ServerTypes ==
    ASSUME UploadInv, ServerStep
    PROVE  UpShape' /\ StateShape'
<1> USE DEF UploadInv
<1>0. UpShape /\ StateShape /\ WalkInv /\ net \subseteq Message
  BY DEF StateShape
<1>1. up' = up /\ journal' = journal /\ kills' = kills /\ source' = source
  BY DEF ServerStep, PutPart, LoseRemoval, Commit, Refuse, Expire, AbortParts,
         Trash, Delete, serverVars
<1>2. UpShape'
  BY <1>0, <1>1 DEF UpShape
<1>3. CASE PutPart
  <2>1. /\ parts' \in [Rows -> [PartNo -> Bodies \cup {<<>>}]]
        /\ drawn' \in [Rows -> [PartNo -> Edition]]
    BY <1>0, <1>3, PartStored
  <2> QED
    BY <1>0, <1>2, <1>3, <2>1 DEF PutPart, StateShape
<1>4. CASE LoseRemoval
  BY <1>0, <1>2, <1>4 DEF LoseRemoval, serverVars, StateShape
<1>5. CASE \E r \in Rows : \/ Commit(r) \/ Refuse(r) \/ Expire(r) \/ AbortParts(r)
                           \/ Trash(r) \/ Delete(r)
  <2>1. PICK r \in Rows : \/ Commit(r) \/ Refuse(r) \/ Expire(r) \/ AbortParts(r)
                          \/ Trash(r) \/ Delete(r)
    BY <1>5
  <2>2. /\ Msg("ok", r) \in Message /\ Msg("refused", r) \in Message
        /\ Msg("delete", r) \in Message
    BY MsgShape DEF Calls
  <2>3. CASE Commit(r)
    BY <1>0, <1>1, <1>2, <2>2, <2>3 DEF Commit, StateShape
  <2>4. CASE Refuse(r)
    BY <1>0, <1>1, <1>2, <2>2, <2>4 DEF Refuse, StateShape
  <2>5. CASE Expire(r)
    BY <1>0, <1>1, <1>2, <2>5 DEF Expire, StateShape
  <2>6. CASE AbortParts(r)
    BY <1>0, <1>1, <1>2, <2>6 DEF AbortParts, StateShape
  <2>7. CASE Trash(r)
    BY <1>0, <1>1, <1>2, <2>2, <2>7 DEF Trash, StateShape
  <2>8. CASE Delete(r)
    BY <1>0, <1>1, <1>2, <2>8 DEF Delete, StateShape
  <2> QED
    BY <2>1, <2>3, <2>4, <2>5, <2>6, <2>7, <2>8
<1> QED
  BY <1>3, <1>4, <1>5 DEF ServerStep

-----------------------------------------------------------------------------
(* Walks *)

(* Calls, unlike parts, carry no chunks.                                   *)
LEMMA OnlyCalls ==
    ASSUME NEW r, NEW m, m \in Msgs({"abort", "trash", "complete", "ok", "refused", "delete"}, r)
    PROVE  m.t # "part" /\ m.r = r
<1>1. PICK t \in {"abort", "trash", "complete", "ok", "refused", "delete"} : m = Msg(t, r)
  BY DEF Msgs
<1> QED
  BY <1>1, MsgShape

LEMMA WalkStep ==
    ASSUME UploadInv, Next
    PROVE  WalkInv'
<1> USE DEF UploadInv
<1>0. UpShape /\ StateShape /\ WalkInv /\ SendInv /\ net \subseteq Message
  BY DEF StateShape
<1>1. CASE Begin
  <2> DEFINE q == up.row
  <2>1. /\ q \in Rows /\ Untouched(q) /\ parts' = parts /\ net' = net
        /\ journal' = [row |-> up.row, parts |-> <<>>]
    BY <1>0, <1>1 DEF Begin, UpShape, SendInv
  <2>2. PICK r \in Rows : r = q
    BY <2>1
  <2>3. Carries(r, <<>>)'
    BY <2>1, <2>2 DEF Untouched, Carries
  <2>4. journal'.row = r /\ journal'.parts = <<>>
    BY <2>1, <2>2
  <2> QED
    BY <1>0, <2>1, <2>2, <2>3, <2>4, EmptyWalk, WalkGoesOn
<1>2. CASE Replay
  <2>1. /\ up.pc = "sending" /\ up.plan # <<>> /\ journal' = journal
        /\ Launched(Head(up.plan), Tail(up.plan))
    BY <1>2 DEF Replay, Recorded, Sending
  <2>2. PICK q \in Rows : q = up.row
    BY <1>0, <2>1 DEF UpShape
  <2>3. journal.row = q
    BY <1>0, <2>1, <2>2 DEF SendInv
  <2>4. PICK K : K = journal.parts
    OBVIOUS
  <2>5. /\ Walk(K) /\ Carries(q, K)
    BY <1>0, <2>3, <2>4, OwnCarries DEF WalkInv
  <2>6. PICK p \in Part : p = Head(up.plan)
    BY <1>0, <2>1, StandsAt
  <2>7. p.no \in 1..Len(K) /\ Same(p, K[p.no])
    BY <1>0, <2>1, <2>4, <2>6, StandsAt
  <2>8. net' = net \cup {PartMsg(q, p, source)} /\ parts' = parts
    BY <2>1, <2>2, <2>6 DEF Launched, serverVars
  <2>9. /\ PartMsg(q, p, source).r = q /\ PartMsg(q, p, source).part.no <= Len(K)
        /\ Same(PartMsg(q, p, source).part, K[PartMsg(q, p, source).part.no])
    BY <2>7, PartMsgShape, WalkShape, <2>5 DEF Same
  <2>10. Carries(q, K)'
    BY <2>5, <2>8, <2>9 DEF Carries
  <2>11. \A m \in net' : m.t = "part" /\ m.r # q => m \in net
    BY <2>8, <2>9
  <2>12. K = journal'.parts /\ journal'.row = q
    BY <2>1, <2>3, <2>4
  <2> QED
    BY <1>0, <2>5, <2>8, <2>10, <2>11, <2>12, WalkGoesOn
<1>3. CASE NewPart
  <2>1. up.pc = "sending" /\ up.plan = <<>>
    BY <1>3 DEF NewPart, Sending
  <2>2. PICK q \in Rows : q = up.row
    BY <1>0, <2>1 DEF UpShape
  <2>3. journal.row = q
    BY <1>0, <2>1, <2>2 DEF SendInv
  <2>4. PICK J : J = journal.parts
    OBVIOUS
  <2>5. Walk(J) /\ Carries(q, J)
    BY <1>0, <2>3, <2>4, OwnCarries DEF WalkInv
  <2>6. PICK n \in 1..MaxSpan, p \in {[no |-> up.last + 1, first |-> up.next,
                                       n |-> k, done |-> FALSE] : k \in 1..MaxSpan} :
           /\ p = [no |-> up.last + 1, first |-> up.next, n |-> n, done |-> FALSE]
           /\ up.next + n - 1 <= ChunkCount /\ Launched(p, <<>>)
           /\ journal' = [journal EXCEPT !.parts = Append(@, p)]
    BY <1>3 DEF NewPart
  <2>7. PICK K : K = Append(J, p)
    OBVIOUS
  <2>8. /\ p \in Part /\ Walk(K) /\ p.no = Len(J) + 1
        /\ Len(K) = Len(J) + 1 /\ K[Len(K)] = p
        /\ \A i \in 1..Len(J) : K[i] = J[i]
    BY <1>0, <2>1, <2>4, <2>6, <2>7, NextPart
  <2>9. /\ net' = net \cup {PartMsg(q, p, source)} /\ parts' = parts
        /\ journal'.parts = K /\ journal'.row = q
    BY <1>0, <2>2, <2>3, <2>4, <2>6, <2>7 DEF Launched, serverVars, StateShape
  <2>10. /\ PartMsg(q, p, source).r = q /\ PartMsg(q, p, source).part.no = Len(K)
         /\ Same(PartMsg(q, p, source).part, K[PartMsg(q, p, source).part.no])
    BY <2>8, PartMsgShape DEF Same
  <2>11. Len(J) \in Nat
    BY <2>5 DEF Walk
  <2>12. ASSUME NEW m \in net', m.t = "part", m.r = q
         PROVE  m.part.no <= Len(K) /\ Same(m.part, K[m.part.no])
    <3>1. CASE m = PartMsg(q, p, source)
      BY <3>1, <2>8, <2>10, <2>11
    <3>2. CASE m \in net
      <4>1. m.part.no <= Len(J) /\ Same(m.part, J[m.part.no])
        BY <2>5, <2>12, <3>2 DEF Carries
      <4>2. m.part.no \in 1..Len(J)
        <5>1. m.part \in Part
          BY <1>0, <2>12, <3>2, MessageShape
        <5> QED
          BY <4>1, <5>1, <2>11, PartShape, UploadAssumption DEF PartNo
      <4> QED
        BY <4>1, <4>2, <2>8, <2>11
    <3> QED
      BY <3>1, <3>2, <2>9
  <2>13. ASSUME NEW no \in PartNo, parts[q][no] # <<>>
         PROVE  no <= Len(K) /\ parts[q][no] = Body(K[no])
    <3>1. no <= Len(J) /\ parts[q][no] = Body(J[no])
      BY <2>5, <2>13 DEF Carries
    <3>2. no \in 1..Len(J)
      BY <3>1, <2>11, UploadAssumption DEF PartNo
    <3> QED
      BY <3>1, <3>2, <2>8, <2>11
  <2>14. Carries(q, K)'
    BY <2>9, <2>12, <2>13 DEF Carries
  <2>15. \A m \in net' : m.t = "part" /\ m.r # q => m \in net
    BY <2>9, <2>10
  <2> QED
    BY <1>0, <2>8, <2>9, <2>14, <2>15, WalkGoesOn
<1>4. CASE \E part \in up.flying : Delivered(part)
  <2>1. PICK part \in up.flying : Delivered(part)
    BY <1>4
  <2>2. PICK q \in Rows : q = journal.row
    BY <1>0, <2>1 DEF Delivered, SendInv, UpShape
  <2>3. PICK J, K : J = journal.parts /\ K = journal'.parts
    OBVIOUS
  <2>4. /\ Walk(J) /\ Carries(q, J)
    BY <1>0, <2>2, <2>3, OwnCarries DEF WalkInv
  <2>5. journal'.row = q /\ K \in Seq(Part) /\ SameParts(J, K)
    BY <1>0, <2>1, <2>2, <2>3, MarkedParts
  <2>6. Walk(K)
    BY <2>4, <2>5, WalkSame
  <2>7. parts' = parts /\ net' = net
    BY <2>1 DEF Delivered, serverVars
  <2>8. ASSUME NEW r \in Rows
        PROVE  \E L \in Seq(Part) :
                  /\ Walk(L) /\ Carries(r, L)'
                  /\ journal'.row = r => SameParts(L, journal'.parts)
    <3>1. CASE r = q
      <4>1. Carries(r, J)' /\ J \in Seq(Part)
        BY <3>1, <2>4, <2>7, CarriesOn DEF Walk
      <4> QED
        BY <4>1, <2>3, <2>4, <2>5
    <3>2. CASE r # q
      <4>1. PICK L \in Seq(Part) : Walk(L) /\ Carries(r, L)
        BY <1>0 DEF WalkInv
      <4>2. Carries(r, L)'
        BY <4>1, <2>7, CarriesOn
      <4> QED
        BY <4>1, <4>2, <3>2, <2>5
    <3> QED
      BY <3>1, <3>2
  <2> QED
    BY <2>3, <2>6, <2>8 DEF WalkInv
<1>5. CASE PutPart
  <2>1. journal' = journal /\ net' = net
    BY <1>5 DEF PutPart
  <2>2. PICK m \in net :
             /\ m.t = "part" /\ m.r \in Rows /\ m.part \in Part
             /\ \A r \in Rows \ {m.r} : parts'[r] = parts[r]
             /\ \A no \in PartNo : parts'[m.r][no] =
                   IF no = m.part.no THEN Body(m.part) ELSE parts[m.r][no]
    BY <1>0, <1>5, PartStored
  <2>3. ASSUME NEW r \in Rows
        PROVE  \E J \in Seq(Part) :
                  /\ Walk(J) /\ Carries(r, J)'
                  /\ journal'.row = r => SameParts(J, journal'.parts)
    <3>1. PICK J \in Seq(Part) :
             Walk(J) /\ Carries(r, J) /\ (journal.row = r => SameParts(J, journal.parts))
      BY <1>0 DEF WalkInv
    <3>2. CASE r # m.r
      BY <3>1, <3>2, <2>1, <2>2, CarriesOn
    <3>3. CASE r = m.r
      <4>1. m.part.no \in 1..Len(J) /\ Body(m.part) = Body(J[m.part.no])
        BY <3>1, <3>3, <1>0, <2>2, OnItsWay
      <4>2. ASSUME NEW no \in PartNo, parts'[r][no] # <<>>
            PROVE  no <= Len(J) /\ parts'[r][no] = Body(J[no])
        <5>1. CASE no = m.part.no
          BY <5>1, <4>1, <2>2, <3>3
        <5>2. CASE no # m.part.no
          <6>1. parts'[r][no] = parts[r][no]
            BY <5>2, <2>2, <3>3
          <6> QED
            BY <6>1, <4>2, <3>1 DEF Carries
        <5> QED
          BY <5>1, <5>2
      <4>3. Carries(r, J)'
        BY <4>2, <3>1, <2>1 DEF Carries
      <4> QED
        BY <4>3, <3>1, <2>1
    <3> QED
      BY <3>2, <3>3
  <2>4. Walk(journal'.parts)
    BY <1>0, <2>1 DEF WalkInv
  <2> QED
    BY <2>3, <2>4 DEF WalkInv
<1>6. CASE Create \/ PassOver \/ Kill \/ SourceTurns \/ Resume
  <2>1. parts' = parts /\ net' = net /\ journal' \in {journal, NoRecord}
    BY <1>6 DEF Create, PassOver, Kill, SourceTurns, Resume, serverVars
  <2> QED
    BY <1>0, <2>1, WalkStays
<1>7. CASE Complete \/ Finish
  <2>1. /\ parts' = parts /\ journal' \in {journal, NoRecord}
        /\ \A m \in net' : m \in net \/ m = Msg("complete", up.row)
    BY <1>7 DEF Complete, Finish, serverVars
  <2> QED
    BY <1>0, <2>1, MsgShape, WalkStays
<1>8. CASE Fail \/ Open \/ Discard
  <2>1. /\ parts' = parts /\ journal' \in {journal, NoRecord}
        /\ \/ net' \subseteq net
           \/ \E r \in {up.row, journal.row} : net' \subseteq Swept(r)
    BY <1>8 DEF Fail, Open, Discard, serverVars
  <2>2. ASSUME NEW m \in net', m.t = "part" PROVE m \in net
    BY <2>1, <2>2, OnlyCalls DEF Swept, Msgs
  <2> QED
    BY <1>0, <2>1, <2>2, WalkStays
<1>9. CASE LoseRemoval
  <2>1. parts' = parts /\ journal' = journal /\ net' \subseteq net
    BY <1>9 DEF LoseRemoval, serverVars
  <2> QED
    BY <1>0, <2>1, WalkStays
<1>10. CASE \E r \in Rows : \/ Commit(r) \/ Refuse(r) \/ Expire(r) \/ AbortParts(r)
                            \/ Trash(r) \/ Delete(r)
  <2>1. PICK r \in Rows : \/ Commit(r) \/ Refuse(r) \/ Expire(r) \/ AbortParts(r)
                          \/ Trash(r) \/ Delete(r)
    BY <1>10
  <2>2. /\ parts' = parts /\ journal' = journal
        /\ \A m \in net' : \/ m \in net
                           \/ m \in {Msg("ok", r), Msg("refused", r), Msg("delete", r)}
    BY <2>1 DEF Commit, Refuse, Expire, AbortParts, Trash, Delete
  <2>3. ASSUME NEW m \in net', m.t = "part" PROVE m \in net
    BY <2>2, <2>3, MsgShape
  <2> QED
    BY <1>0, <2>2, <2>3, WalkStays
<1> QED
  BY <1>1, <1>2, <1>3, <1>4, <1>5, <1>6, <1>7, <1>8, <1>9, <1>10 DEF Next

-----------------------------------------------------------------------------
(* The running upload, and rows nobody has begun *)

(* A row nothing was ever sent for is out of the server's reach.           *)
LEMMA ServerLeaves ==
    ASSUME StateShape, WalkInv, ServerStep, NEW q \in Rows, Untouched(q)
    PROVE  Untouched(q)'
<1>1. \A t : Msg(t, q) \notin net
  BY MsgShape DEF Untouched
<1>2. CASE PutPart
  <2>1. PICK m \in net :
             /\ m.r \in Rows /\ \A r \in Rows \ {m.r} : parts'[r] = parts[r]
    BY <1>2, PartStored
  <2>2. m.r # q
    BY DEF Untouched
  <2> QED
    BY <1>2, <2>1, <2>2, UntouchedOn DEF PutPart
<1>3. CASE LoseRemoval
  BY <1>3, UntouchedOn DEF LoseRemoval, serverVars
<1>4. CASE \E r \in Rows : \/ Commit(r) \/ Refuse(r) \/ Expire(r) \/ AbortParts(r)
                           \/ Trash(r) \/ Delete(r)
  <2>1. PICK r \in Rows : \/ Commit(r) \/ Refuse(r) \/ Expire(r) \/ AbortParts(r)
                          \/ Trash(r) \/ Delete(r)
    BY <1>4
  <2>2. /\ Msg("ok", r).r = r /\ Msg("refused", r).r = r /\ Msg("delete", r).r = r
    BY MsgShape
  <2>3. CASE Expire(r)
    BY <2>3, UntouchedOn DEF Expire
  <2>4. CASE ~Expire(r)
    <3>1. r # q
      BY <2>1, <2>4, <1>1 DEF Commit, Refuse, AbortParts, Trash, Delete
    <3>2. landed'[q] = landed[q]
      BY <2>1, <2>4, <3>1 DEF Commit, Refuse, AbortParts, Trash, Delete, StateShape
    <3>3. parts' = parts
      BY <2>1, <2>4 DEF Commit, Refuse, AbortParts, Trash, Delete
    <3>4. \A m \in net' : m \in net
                           \/ m \in {Msg("ok", r), Msg("refused", r), Msg("delete", r)}
      BY <2>1, <2>4 DEF Commit, Refuse, AbortParts, Trash, Delete
    <3> QED
      BY <2>2, <3>1, <3>2, <3>3, <3>4, UntouchedOn
  <2> QED
    BY <2>3, <2>4
<1> QED
  BY <1>2, <1>3, <1>4 DEF ServerStep

(* The device sends for the row it holds only.                             *)
LEMMA DeviceLeaves ==
    ASSUME UploadInv, DeviceStep, NEW q \in Rows, q # up.row, q # journal.row
    PROVE  /\ parts' = parts /\ landed' = landed
           /\ \A m \in net' : m.r = q => m \in net
           /\ journal'.row # q
           /\ up'.row = q => Create
<1> USE DEF UploadInv, Idle
<1>0. /\ UpShape /\ StateShape /\ WalkInv /\ SendInv /\ NoRow # q /\ NoRecord.row # q
      /\ NoRow \notin Rows
  BY UploadAssumption DEF NoRecord
<1>1. \A pc : Without(pc).row # q
  BY <1>0 DEF Without, Upload
<1>2. CASE Create
  BY <1>2, <1>0 DEF Create
<1>3. CASE Begin
  BY <1>3, <1>0 DEF Begin, UpShape
<1>4. CASE PassOver
  BY <1>4, <1>0 DEF PassOver, serverVars, Upload
<1>5. CASE Replay
  <2>1. up.pc = "sending" /\ up.plan # <<>> /\ Launched(Head(up.plan), Tail(up.plan))
    BY <1>5 DEF Replay, Recorded, Sending
  <2>2. Head(up.plan) \in Part /\ up.row \in Rows
    BY <1>0, <2>1, StandsAt DEF UpShape
  <2>3. PartMsg(up.row, Head(up.plan), source).r # q
    BY <2>2, PartMsgShape
  <2> QED
    BY <1>5, <1>0, <2>1, <2>3 DEF Replay, Launched, serverVars, Upload
<1>6. CASE NewPart
  <2>1. up.pc = "sending" /\ up.plan = <<>>
    BY <1>6 DEF NewPart, Sending
  <2>2. PICK n \in 1..MaxSpan, p \in {[no |-> up.last + 1, first |-> up.next,
                                       n |-> k, done |-> FALSE] : k \in 1..MaxSpan} :
           /\ p = [no |-> up.last + 1, first |-> up.next, n |-> n, done |-> FALSE]
           /\ up.next + n - 1 <= ChunkCount /\ Launched(p, <<>>)
           /\ journal' = [journal EXCEPT !.parts = Append(@, p)]
    BY <1>6 DEF NewPart
  <2>3. p \in Part /\ up.row \in Rows
    BY <1>0, <2>1, <2>2, NextPart DEF UpShape
  <2>4. PartMsg(up.row, p, source).r # q
    BY <2>3, PartMsgShape
  <2>5. journal'.row = journal.row
    BY <2>2, <1>0 DEF StateShape
  <2> QED
    BY <1>0, <2>2, <2>4, <2>5 DEF Launched, serverVars, Upload
<1>7. CASE Complete
  BY <1>7, <1>0, MsgShape DEF Complete, serverVars, UpShape
<1>8. CASE Finish
  BY <1>8, <1>0, <1>1 DEF Finish, serverVars
<1>9. CASE Fail
  <2>1. \A m \in net' : m.r = q => m \in net
    BY <1>9, OnlyCalls DEF Fail, Swept, Msgs
  <2> QED
    BY <1>9, <1>0, <1>1, <2>1 DEF Fail, serverVars
<1>10. CASE Kill
  BY <1>10, <1>0, <1>1 DEF Kill, serverVars
<1>11. CASE SourceTurns
  BY <1>11, <1>0 DEF SourceTurns, serverVars
<1>12. CASE Open
  <2>1. \A m \in net' : m.r = q => m \in net
    BY <1>12, OnlyCalls DEF Open, Swept, Msgs
  <2> QED
    BY <1>12, <1>0, <1>1, <2>1 DEF Open, serverVars
<1>13. CASE Resume
  BY <1>13, <1>0 DEF Resume, serverVars, Upload
<1>14. CASE Discard
  <2>1. \A m \in net' : m.r = q => m \in net
    BY <1>14, OnlyCalls DEF Discard, Swept, Msgs
  <2> QED
    BY <1>14, <1>0, <2>1 DEF Discard, serverVars
<1>15. CASE \E part \in up.flying : Delivered(part)
  <2>1. PICK part \in up.flying : Delivered(part)
    BY <1>15
  <2>2. journal'.row = journal.row
    BY <2>1, <1>0, MarkedParts
  <2>3. up'.row = up.row
    BY <2>1, <1>0 DEF Delivered, UpShape
  <2> QED
    BY <2>1, <2>2, <2>3 DEF Delivered, serverVars
<1> QED
  BY <1>2, <1>3, <1>4, <1>5, <1>6, <1>7, <1>8, <1>9, <1>10, <1>11, <1>12,
     <1>13, <1>14, <1>15 DEF DeviceStep

LEMMA StepIsOneOf == Next => DeviceStep \/ ServerStep
BY DEF Next, DeviceStep, ServerStep

LEMMA RowStep ==
    ASSUME UploadInv, Next
    PROVE  RowInv'
<1> SUFFICES ASSUME NEW r \in Rows, row'[r] = "unused"
             PROVE  (Untouched(r) /\ up.row # r /\ journal.row # r)'
  BY DEF RowInv
<1>0. StateShape /\ WalkInv /\ RowInv
  BY DEF UploadInv
<1>1. CASE DeviceStep
  <2>1. row[r] = "unused" /\ (Create => up'.row # r)
    <3>1. CASE Create
      BY <3>1, <1>0 DEF Create, StateShape, Upload
    <3>2. CASE ~Create
      BY <3>2, <1>1 DEF DeviceStep, Begin, PassOver, Replay, NewPart, Launched, Complete,
         Finish, Fail, Kill, SourceTurns, Open, Resume, Discard, Delivered, serverVars
    <3> QED
      BY <3>1, <3>2
  <2>2. Untouched(r) /\ up.row # r /\ journal.row # r
    BY <1>0, <2>1 DEF RowInv
  <2> QED
    BY <1>1, <2>1, <2>2, DeviceLeaves, UntouchedOn
<1>2. CASE ServerStep
  <2>1. up' = up /\ journal' = journal
    BY <1>2 DEF ServerStep, PutPart, LoseRemoval, Commit, Refuse, Expire, AbortParts,
       Trash, Delete, serverVars
  <2>2. row[r] = "unused"
    BY <1>0, <1>2 DEF ServerStep, PutPart, LoseRemoval, Commit, Refuse, Expire,
       AbortParts, Trash, Delete, serverVars, StateShape
  <2>3. Untouched(r) /\ up.row # r /\ journal.row # r
    BY <1>0, <2>2 DEF RowInv
  <2> QED
    BY <1>0, <1>2, <2>1, <2>3, ServerLeaves
<1> QED
  BY <1>1, <1>2, StepIsOneOf

(* Marking parts delivered moves nothing.                                  *)
LEMMA ReachedSame ==
    ASSUME NEW J, NEW K, SameParts(J, K), Len(J) \in Nat, NEW k \in 0..Len(J)
    PROVE  Reached(K, k) = Reached(J, k)
BY DEF Reached, SameParts, Same

LEMMA SendStep ==
    ASSUME UploadInv, Next
    PROVE  SendInv'
<1> USE DEF UploadInv, Idle
<1>0. UpShape /\ StateShape /\ WalkInv /\ SendInv /\ RowInv
  OBVIOUS
<1>1. CASE Create
  <2>1. PICK r \in Rows : row[r] = "unused" /\ up' = Upload("created", r, 1, 0, <<>>, {})
    BY <1>1 DEF Create
  <2>2. Untouched(r)
    BY <1>0, <2>1 DEF RowInv
  <2>3. Untouched(r)'
    BY <1>1, <2>2, UntouchedOn DEF Create
  <2>4. journal' = NoRecord
    BY <1>1 DEF Create
  <2> QED
    BY <2>1, <2>3, <2>4 DEF SendInv, Upload
<1>2. CASE Begin
  <2>1. /\ up'.pc = "sending" /\ up'.row = up.row /\ up'.last = 0
        /\ up'.plan = <<>> /\ up'.next = 1
        /\ journal'.row = up.row /\ journal'.parts = <<>>
    BY <1>0, <1>2 DEF Begin, SendInv, UpShape
  <2>2. /\ Len(up'.plan) = 0 /\ Len(journal'.parts) = 0 /\ up'.last - Len(up'.plan) = 0
        /\ \A j \in 1..0 : FALSE
    <3>1. Len(<<>>) = 0
      OBVIOUS
    <3>2. Len(up'.plan) = 0 /\ Len(journal'.parts) = 0
      BY <2>1, <3>1
    <3>3. 0 - 0 = 0 /\ \A j \in 1..0 : FALSE
      OBVIOUS
    <3> QED
      BY <2>1, <3>2, <3>3
  <2>3. Reached(journal'.parts, 0) = 1
    BY DEF Reached
  <2> QED
    BY <2>1, <2>2, <2>3 DEF SendInv
<1>3. CASE PassOver \/ Replay
  <2>1. /\ up.pc = "sending" /\ up.plan # <<>> /\ journal' = journal
    BY <1>3 DEF PassOver, Replay, Recorded, Sending
  <2>2. PICK J : J = journal.parts
    OBVIOUS
  <2>3. PICK k \in 1..Len(J) : k = Len(J) - Len(up.plan) + 1
    BY <1>0, <2>1, <2>2, StandsAt
  <2>4. /\ Len(J) - (Len(up.plan) - 1) = k /\ Head(up.plan).no = k /\ k <= up.last
        /\ up.next + Head(up.plan).n = Reached(J, k)
        /\ Len(Tail(up.plan)) = Len(up.plan) - 1
        /\ \A j \in 1..Len(Tail(up.plan)) : Same(Tail(up.plan)[j], J[k + j])
    BY <1>0, <2>1, <2>2, <2>3, StandsAt
  <2>5. /\ up'.pc = "sending" /\ up'.row = up.row /\ up'.plan = Tail(up.plan)
        /\ up'.next = up.next + Head(up.plan).n
    <3>1. CASE PassOver
      BY <2>1, <3>1 DEF PassOver, Upload
    <3>2. CASE Replay
      BY <2>1, <3>2 DEF Replay, Launched, Upload
    <3> QED
      BY <3>1, <3>2, <1>3
  <2>6. up'.last = up.last
    <3>1. CASE PassOver
      BY <3>1 DEF PassOver, Upload
    <3>2. CASE Replay
      <4>1. up'.last = IF Head(up.plan).no > up.last THEN Head(up.plan).no ELSE up.last
        BY <3>2 DEF Replay, Launched, Upload
      <4>2. up.last \in Nat /\ k \in Nat
        BY <1>0, UploadAssumption DEF UpShape
      <4> QED
        BY <4>1, <4>2, <2>4
    <3> QED
      BY <3>1, <3>2, <1>3
  <2>7. journal.row = up.row /\ up.last = Len(J) /\ Len(up.plan) <= up.last
    BY <1>0, <2>1, <2>2 DEF SendInv
  <2>8. Len(up.plan) \in Nat /\ Len(J) \in Nat
    <3>1. up.plan \in Seq(Part) /\ J \in Seq(Part)
      BY <1>0, <2>2 DEF UpShape, StateShape
    <3> QED
      BY <3>1
  <2>9. journal'.row = up'.row /\ up'.last = Len(journal'.parts) /\ journal'.parts = J
        /\ Len(up'.plan) = Len(up.plan) - 1 /\ up'.last - Len(up'.plan) = k
    BY <2>1, <2>2, <2>4, <2>5, <2>6, <2>7
  <2>10. Len(up'.plan) <= up'.last
    BY <2>6, <2>7, <2>8, <2>9
  <2> QED
    BY <2>4, <2>5, <2>9, <2>10 DEF SendInv
<1>4. CASE NewPart
  <2>1. up.pc = "sending" /\ up.plan = <<>>
    BY <1>4 DEF NewPart, Sending
  <2>2. PICK J : J = journal.parts
    OBVIOUS
  <2>3. PICK n \in 1..MaxSpan, p \in {[no |-> up.last + 1, first |-> up.next,
                                       n |-> k, done |-> FALSE] : k \in 1..MaxSpan} :
           /\ p = [no |-> up.last + 1, first |-> up.next, n |-> n, done |-> FALSE]
           /\ up.next + n - 1 <= ChunkCount /\ Launched(p, <<>>)
           /\ journal' = [journal EXCEPT !.parts = Append(@, p)]
    BY <1>4 DEF NewPart
  <2>4. PICK K : K = Append(J, p)
    OBVIOUS
  <2>5. /\ up.last = Len(J) /\ Len(K) = Len(J) + 1 /\ up.next + n = Reached(K, Len(K))
        /\ p.no = up.last + 1 /\ p.n = n
    BY <1>0, <2>1, <2>2, <2>3, <2>4, NextPart
  <2>6. journal'.parts = K /\ journal'.row = journal.row
    BY <1>0, <2>2, <2>3, <2>4 DEF StateShape
  <2>7. /\ up'.pc = "sending" /\ up'.row = up.row /\ up'.plan = <<>>
        /\ up'.next = up.next + n
        /\ up'.last = IF p.no > up.last THEN p.no ELSE up.last
    BY <2>3, <2>5 DEF Launched, Upload
  <2>8. up.last \in Nat
    BY <1>0, UploadAssumption DEF UpShape
  <2>9. up'.last = Len(K) /\ up'.last \in Nat
    BY <2>5, <2>7, <2>8
  <2>10. journal.row = up.row
    BY <1>0, <2>1 DEF SendInv
  <2>11. Len(<<>>) = 0
    OBVIOUS
  <2> QED
    BY <2>5, <2>6, <2>7, <2>9, <2>10, <2>11 DEF SendInv
<1>5. CASE Complete
  <2>1. /\ up.pc = "sending" /\ journal' = journal /\ up'.pc = "completing"
        /\ up'.row = up.row /\ up'.plan = up.plan /\ up'.next = up.next
        /\ up'.last = up.last
    BY <1>5, <1>0 DEF Complete, UpShape
  <2> QED
    BY <1>0, <2>1 DEF SendInv
<1>6. CASE Resume
  <2>1. CASE source = "gone"
    <3>1. up' = up /\ up.pc = "idle"
      BY <1>6, <2>1 DEF Resume
    <3> QED
      BY <3>1 DEF SendInv
  <2>2. CASE source # "gone"
    <3>1. PICK J : J = journal.parts
      OBVIOUS
    <3>2. J \in Seq(Part)
      BY <1>0, <3>1 DEF StateShape
    <3>3. /\ up'.pc = "sending" /\ up'.row = journal.row /\ up'.next = 1
          /\ up'.last = Len(J) /\ up'.plan = J /\ journal' = journal
      BY <1>6, <2>2, <3>1 DEF Resume, Upload
    <3>4. Len(J) \in Nat /\ Len(J) - Len(J) = 0 /\ Len(J) <= Len(J)
      BY <3>2
    <3>5. \A j \in 1..Len(J) : 0 + j = j /\ Same(J[j], J[j])
      BY <3>4 DEF Same
    <3> QED
      BY <3>1, <3>3, <3>4, <3>5 DEF SendInv, Reached
  <2> QED
    BY <2>1, <2>2
<1>7. CASE \E part \in up.flying : Delivered(part)
  <2>1. PICK part \in up.flying : Delivered(part)
    BY <1>7
  <2>2. PICK J, K, P : J = journal.parts /\ K = journal'.parts /\ P = up.plan
    OBVIOUS
  <2>3. /\ journal'.row = journal.row /\ SameParts(J, K) /\ K \in Seq(Part)
    BY <1>0, <2>1, <2>2, MarkedParts
  <2>4. /\ up.pc = "sending" /\ up'.pc = "sending" /\ up'.row = up.row /\ up'.last = up.last
        /\ up'.plan = P /\ up'.next = up.next
    BY <1>0, <2>1, <2>2 DEF Delivered, UpShape
  <2>5. /\ journal.row = up.row /\ up.last = Len(J) /\ Len(P) <= Len(J)
        /\ \A j \in 1..Len(P) : Same(P[j], J[Len(J) - Len(P) + j])
        /\ up.next = Reached(J, Len(J) - Len(P))
    BY <1>0, <2>2, <2>4 DEF SendInv
  <2>6. J \in Seq(Part) /\ P \in Seq(Part)
    BY <1>0, <2>2 DEF StateShape, UpShape
  <2>7. /\ Len(J) \in Nat /\ Len(P) \in Nat /\ Len(K) = Len(J)
        /\ Len(J) - Len(P) \in 0..Len(J)
    BY <2>3, <2>5, <2>6 DEF SameParts
  <2>8. Reached(K, Len(J) - Len(P)) = Reached(J, Len(J) - Len(P))
    BY <2>3, <2>7, ReachedSame
  <2>9. ASSUME NEW j \in 1..Len(P) PROVE Same(P[j], K[Len(J) - Len(P) + j])
    <3>1. Len(J) - Len(P) + j \in 1..Len(J)
      BY <2>7
    <3> QED
      BY <3>1, <2>3, <2>5 DEF SameParts, Same
  <2> QED
    BY <2>2, <2>3, <2>4, <2>5, <2>7, <2>8, <2>9 DEF SendInv
<1>8. CASE Finish \/ Fail \/ Kill \/ Open \/ Discard
  <2>1. up'.pc \in {"idle", "closed"}
    BY <1>8 DEF Finish, Fail, Kill, Open, Discard, Without, Upload
  <2> QED
    BY <2>1 DEF SendInv
<1>9. CASE SourceTurns
  <2>1. up' = up /\ journal' = journal /\ net' = net /\ parts' = parts /\ landed' = landed
    BY <1>9 DEF SourceTurns, serverVars
  <2> QED
    BY <1>0, <2>1 DEF SendInv, Untouched
<1>10. CASE ServerStep
  <2>1. up' = up /\ journal' = journal
    BY <1>10 DEF ServerStep, PutPart, LoseRemoval, Commit, Refuse, Expire, AbortParts,
       Trash, Delete, serverVars
  <2>2. CASE up.pc = "created"
    <3>1. PICK q \in Rows : q = up.row
      BY <1>0, <2>2 DEF UpShape
    <3>2. Untouched(q)'
      BY <1>0, <1>10, <2>2, <3>1, ServerLeaves DEF SendInv
    <3> QED
      BY <1>0, <2>1, <2>2, <3>1, <3>2 DEF SendInv
  <2>3. CASE up.pc # "created"
    BY <1>0, <2>1, <2>3 DEF SendInv
  <2> QED
    BY <2>2, <2>3
<1> QED
  BY <1>1, <1>2, <1>3, <1>4, <1>5, <1>6, <1>7, <1>8, <1>9, <1>10, StepIsOneOf DEF DeviceStep

-----------------------------------------------------------------------------
(* The joined file *)

LEMMA WholeStep ==
    ASSUME UploadInv, Next
    PROVE  WholeInv'
<1> USE DEF UploadInv
<1> SUFFICES ASSUME NEW r \in Rows, landed'[r] # <<>> PROVE landed'[r] = File
  BY DEF WholeInv
<1>0. StateShape /\ WalkInv /\ WholeInv
  OBVIOUS
<1>1. CASE landed'[r] = landed[r]
  BY <1>0, <1>1 DEF WholeInv, File
<1>2. CASE landed'[r] # landed[r]
  <2>1. Commit(r)
    <3>1. \/ landed' = landed \/ \E q \in Rows : Commit(q)
      BY DEF Next, Create, Begin, PassOver, Replay, NewPart, Launched, Complete, Finish,
         Fail, Kill, SourceTurns, Open, Resume, Discard, Delivered, PutPart, LoseRemoval,
         Refuse, Expire, AbortParts, Trash, Delete, serverVars
    <3>2. PICK q \in Rows : Commit(q)
      BY <1>2, <3>1
    <3>3. q = r
      BY <1>0, <1>2, <3>2 DEF Commit, StateShape
    <3> QED
      BY <3>2, <3>3
  <2>2. /\ landed'[r] = Assembled(r) /\ Stored(r) = 1..Cardinality(Stored(r))
        /\ Len(Assembled(r)) = Len(File)
    BY <1>0, <2>1 DEF Commit, Whole, StateShape
  <2>3. PICK J \in Seq(Part) : Walk(J) /\ Carries(r, J)
    BY <1>0 DEF WalkInv
  <2> DEFINE k == Cardinality(Stored(r))
  <2>4. k \in Nat
    <3>1. IsFiniteSet(PartNo) /\ Stored(r) \subseteq PartNo
      BY FS_Interval, UploadAssumption DEF PartNo, Stored
    <3> QED
      BY <3>1, FS_Subset, FS_CardinalityType
  <2>5. Len(File) = ChunkCount + 1 /\ File = Prefix(ChunkCount + 1)
    BY UploadAssumption DEF File, Prefix
  <2>6. CASE k = 0
    <3>1. [no \in 1..k |-> parts[r][no]] = <<>>
      BY <2>6
    <3>2. Assembled(r) = <<>>
      BY <3>1 DEF Assembled, FlattenSeq
    <3> QED
      BY <3>2, <2>2
  <2>7. CASE k # 0
    <3>1. \A no \in 1..k : no <= Len(J) /\ parts[r][no] = Body(J[no])
      BY <2>2, <2>3 DEF Stored, Carries
    <3>2. k \in 1..Len(J)
      BY <3>1, <2>3, <2>4, <2>7
    <3>3. [no \in 1..k |-> parts[r][no]] = [no \in 1..k |-> Body(J[no])]
      BY <3>1
    <3>4. Assembled(r) = Prefix(Reached(J, k))
      BY <2>3, <3>2, <3>3, JoinedWalk DEF Assembled
    <3>5. Reached(J, k) \in Nat
      BY <2>3, <3>2, WalkShape, UploadAssumption
    <3>6. Len(Prefix(Reached(J, k))) = Reached(J, k)
      BY <3>5 DEF Prefix
    <3> QED
      BY <2>2, <2>5, <3>4, <3>6
  <2> QED
    BY <2>6, <2>7
<1> QED
  BY <1>1, <1>2

-----------------------------------------------------------------------------
(* Theorems *)

LEMMA UploadInit == Init => UploadInv
<1> SUFFICES ASSUME Init PROVE UploadInv
  OBVIOUS
<1>1. UpShape
  <2>1. <<>> \in Seq(Part) /\ {} \in SUBSET Part /\ IsFiniteSet({}) /\ Cardinality({}) = 0
    BY FS_EmptySet
  <2>2. 1 \in 1..ChunkCount + 1 /\ 0 \in 0..ChunkCount
    BY UploadAssumption
  <2> QED
    BY <2>1, <2>2 DEF Init, Idle, Without, Upload, UpShape, PARTS_IN_FLIGHT
<1>2. StateShape
  BY UploadAssumption DEF Init, StateShape, NoRecord, Edition
<1>3. WalkInv
  <2>1. ASSUME NEW r \in Rows
        PROVE  Carries(r, <<>>) /\ (journal.row = r => SameParts(<<>>, journal.parts))
    BY UploadAssumption DEF Init, Carries, NoRecord
  <2>2. <<>> \in Seq(Part)
    OBVIOUS
  <2> QED
    BY <2>1, <2>2, EmptyWalk DEF Init, WalkInv, NoRecord
<1>4. SendInv
  BY DEF Init, SendInv, Idle, Without, Upload
<1>5. RowInv
  BY UploadAssumption DEF Init, RowInv, Untouched, Idle, Without, Upload, NoRecord
<1>6. WholeInv
  BY DEF Init, WholeInv
<1> QED
  BY <1>1, <1>2, <1>3, <1>4, <1>5, <1>6 DEF UploadInv

LEMMA UploadStep == UploadInv /\ [Next]_vars => UploadInv'
<1> SUFFICES ASSUME UploadInv, [Next]_vars PROVE UploadInv'
  OBVIOUS
<1>1. CASE Next
  <2>1. UpShape' /\ StateShape'
    BY <1>1, StepIsOneOf, DeviceTypes, ServerTypes
  <2> QED
    BY <1>1, <2>1, WalkStep, SendStep, RowStep, WholeStep DEF UploadInv
<1>2. CASE UNCHANGED vars
  BY <1>2 DEF vars, UploadInv, UpShape, StateShape, WalkInv, Walk, Carries, SendInv,
     RowInv, Untouched, WholeInv
<1> QED
  BY <1>1, <1>2

LEMMA UploadInvariant == Spec => []UploadInv
BY UploadInit, UploadStep, PTL DEF Spec

(* Whatever is lost, killed, repeated or expired, every variable keeps its *)
(* type; in particular never more than two parts are in flight, and a part *)
(* number never exceeds the number of chunks.                              *)
THEOREM UploadTypeCorrect == Spec => []UploadTypeOK
<1>1. UploadInv => UploadTypeOK
  <2> SUFFICES ASSUME UploadInv PROVE UploadTypeOK
    OBVIOUS
  <2>1. UpShape /\ StateShape /\ WholeInv
    BY DEF UploadInv
  <2>2. \A r \in Rows : /\ parts[r] \in [PartNo -> Bodies \cup {<<>>}]
                        /\ drawn[r] \in [PartNo -> Edition]
                        /\ landed[r] = <<>> \/ Len(landed[r]) = Len(File)
    BY <2>1 DEF StateShape, WholeInv
  <2>3. journal = NoRecord \/ (journal.row \in Rows /\ journal.parts \in Seq(Part))
    BY <2>1 DEF StateShape
  <2> QED
    BY <2>1, <2>2, <2>3 DEF UploadTypeOK, UpShape, StateShape
<1> QED
  BY <1>1, UploadInvariant, PTL

(* What is committed is the whole file: the header and every chunk, each   *)
(* once and in order, for every number of chunks, spans, kills, resumes,   *)
(* repeated and late parts and lost answers.                               *)
THEOREM UploadsAreWhole == Spec => []AssembledWhole
<1>1. UploadInv => AssembledWhole
  BY DEF UploadInv, WholeInv, AssembledWhole
<1> QED
  BY <1>1, UploadInvariant, PTL
=============================================================================
