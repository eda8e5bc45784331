--------------------------- MODULE DeltaSyncProofs ---------------------------
(***************************************************************************)
(* A pull is complete up to the cursor it returns, for every account,      *)
(* every page size and every interleaving with its sharers.                *)
(***************************************************************************)
EXTENDS DeltaSyncInv, FiniteSetTheorems, WellFoundedInduction, TLAPS

-----------------------------------------------------------------------------
(* Finite sets ordered by a number                                         *)

(* A finite set whose members carry distinct numbers up to some bound has  *)
(* a k-th member: as many members carry a number up to its own.            *)
LEMMA Rank ==
    ASSUME NEW W, IsFiniteSet(W), NEW f \in [W -> Nat],
           \A x, y \in W : f[x] = f[y] => x = y,
           NEW top \in Nat, \A x \in W : f[x] <= top,
           NEW k \in Nat, 1 <= k, k <= Cardinality(W)
    PROVE  \E y \in W, P \in SUBSET W :
               /\ Cardinality(P) = k
               /\ \A z \in W : z \in P <=> f[z] <= f[y]
<1> DEFINE C(u) == {z \in W : f[z] <= u}
           T == {u \in Nat : k <= Cardinality(C(u))}
           Less == OpToRel(<, Nat)
<1>1. \A u \in Nat : IsFiniteSet(C(u)) /\ Cardinality(C(u)) \in Nat
  BY FS_Subset, FS_CardinalityType
<1>2. C(top) = W
  OBVIOUS
<1>3. top \in T /\ T \subseteq Nat
  BY <1>2
<1>4. \E u \in T : \A v \in T : ~ (v < u)
  <2>1. IsWellFoundedOn(Less, Nat)
    BY NatLessThanWellFounded
  <2>2. \E u \in T : \A v \in T : <<v, u>> \notin Less
    <3> HIDE DEF T, Less
    <3> QED
      BY <2>1, <1>3, WFMin
  <2>3. \A u, v \in Nat : v < u => <<v, u>> \in Less
    BY DEF OpToRel
  <2> QED
    BY <2>2, <2>3, <1>3
<1>5. PICK u \in T : \A v \in T : ~ (v < u)
  BY <1>4
<1>6. u \in Nat /\ k <= Cardinality(C(u))
  OBVIOUS
<1>7. C(u) # {}
  <2> HIDE DEF C
  <2> QED
    BY <1>6, <1>1, FS_EmptySet
<1>8. ASSUME u > 0
      PROVE  Cardinality(C(u - 1)) < k
  <2>1. u - 1 \in Nat /\ u - 1 < u
    BY <1>6, <1>8
  <2>2. u - 1 \notin T
    BY <1>5, <2>1
  <2>3. ~ (k <= Cardinality(C(u - 1)))
    BY <2>1, <2>2
  <2>4. Cardinality(C(u - 1)) \in Nat
    BY <2>1, <1>1
  <2> HIDE DEF C
  <2> QED
    BY <2>3, <2>4
<1>9. PICK y \in W : f[y] = u
  <2>1. SUFFICES ASSUME \A y \in W : f[y] # u
                 PROVE  FALSE
    OBVIOUS
  <2>2. u > 0
    BY <2>1, <1>6, <1>7
  <2>3. C(u) = C(u - 1)
    BY <2>1, <2>2, <1>6
  <2>4. Cardinality(C(u)) < k
    BY <2>2, <2>3, <1>8
  <2> HIDE DEF C
  <2> QED
    BY <2>4, <1>6, <1>1
<1>10. y \in C(u)
  BY <1>9, <1>6
<1>11. IsFiniteSet(C(u) \ {y}) /\ Cardinality(C(u) \ {y}) = Cardinality(C(u)) - 1
  <2> HIDE DEF C
  <2> QED
    BY <1>10, <1>1, <1>6, FS_RemoveElement
<1>12. ASSUME k < Cardinality(C(u))
       PROVE  FALSE
  <2>1. Cardinality(C(u) \ {y}) # 0
    <3> HIDE DEF C
    <3> QED
      BY <1>12, <1>11, <1>1, <1>6
  <2>2. PICK z \in C(u) \ {y} : TRUE
    <3>1. C(u) \ {y} # {}
      <4> HIDE DEF C
      <4> QED
        BY <2>1, FS_EmptySet
    <3> QED
      BY <3>1
  <2>3. f[z] < u
    BY <2>2, <1>9, <1>6
  <2>4. u > 0
    BY <2>3, <2>2, <1>6
  <2>5. C(u - 1) = C(u) \ {y}
    BY <1>9, <1>6, <2>4
  <2>6. Cardinality(C(u)) - 1 < k
    BY <2>4, <2>5, <1>8, <1>11
  <2> HIDE DEF C
  <2> QED
    BY <2>6, <1>12, <1>1, <1>6
<1>13. Cardinality(C(u)) = k
  <2> HIDE DEF C
  <2> QED
    BY <1>12, <1>1, <1>6
<1>14. C(u) \in SUBSET W /\ \A z \in W : z \in C(u) <=> f[z] <= f[y]
  BY <1>9
<1> QED
  <2> HIDE DEF C
  <2> QED
    BY <1>13, <1>14


-----------------------------------------------------------------------------
(* Types, once and for all *)

LEMMA Numeric ==
    ASSUME SyncTypeOK
    PROVE  /\ last \in Nat
           /\ \A x \in Rows : row[x] \in Row /\ row[x].seq \in Nat
           /\ \A t \in Tabs : cursor[t] \in Nat /\ cursor[t] <= last
           /\ \A p \in Pulls : req[p] \in Request /\ TabOf(p) \in Tabs
           /\ cache.seq \in Nat /\ cache.seq <= last
           /\ \A x \in Rows : cache.rows[x].seq \in Nat
           /\ Limits \subseteq Nat /\ IsFiniteSet(Own) /\ IsFiniteSet(Shared)
<1>1. last \in Nat /\ row \in [Rows -> Row] /\ cursor \in [Tabs -> 0..last]
      /\ req \in [Pulls -> Request] /\ cache \in [seq : 0..last, rows : Library]
  BY DEF SyncTypeOK
<1>2. \A x \in Rows : row[x] \in Row /\ row[x].seq \in Nat
  BY <1>1 DEF Row
<1>3. \A t \in Tabs : cursor[t] \in Nat /\ cursor[t] <= last
  BY <1>1
<1>4. cache.seq \in Nat /\ cache.seq <= last
  BY <1>1
<1>5. \A x \in Rows : cache.rows[x].seq \in Nat
  BY <1>1 DEF Library, Copy
<1> QED
  BY <1>1, <1>2, <1>3, <1>4, <1>5, FeedAssumption DEF Pulls, TabOf

(* A row of the window that a query did not return lies past a full page.  *)
LEMMA PageCut ==
    ASSUME SyncTypeOK, Numbers, NEW q \in Request, NEW S \in {Own, Shared},
           NEW x \in S, q.since < row[x].seq, row[x].seq <= q.upTo,
           x \notin Queried(S, q)
    PROVE  /\ q.limit > 0 /\ Cardinality(Queried(S, q)) > q.limit
           /\ \A z \in Queried(S, q) : row[z].seq < row[x].seq
<1> DEFINE W == {y \in S : q.since < row[y].seq /\ row[y].seq <= q.upTo}
           Below(y) == {z \in W : row[z].seq < row[y].seq}
           f == [y \in W |-> row[y].seq]
<1>1. S \subseteq Rows /\ IsFiniteSet(S) /\ q.limit \in Nat /\ q.upTo \in Nat
  BY Numeric DEF Rows, Request
<1>2. x \in W /\ W \subseteq Rows /\ \A y \in W : row[y].seq \in Nat
  BY <1>1, Numeric
<1>3. Queried(S, q) = {y \in W : q.limit = 0 \/ Cardinality(Below(y)) <= q.limit}
  BY DEF Queried
<1>4. \A P \in SUBSET W : IsFiniteSet(P) /\ Cardinality(P) \in Nat
                          /\ Cardinality(P) <= Cardinality(W)
  <2>1. IsFiniteSet(W)
    BY <1>1, FS_Subset
  <2> HIDE DEF W
  <2> QED
    BY <2>1, FS_Subset, FS_CardinalityType
<1>5. \A y : Below(y) \in SUBSET W
  OBVIOUS
<1>6. q.limit > 0 /\ Cardinality(Below(x)) > q.limit
  <2>1. q.limit # 0 /\ ~ (Cardinality(Below(x)) <= q.limit)
    BY <1>2, <1>3
  <2>2. Cardinality(Below(x)) \in Nat
    BY <1>4, <1>5
  <2> HIDE DEF Below, W
  <2> QED
    BY <2>1, <2>2, <1>1
<1>7. PICK y \in W, P \in SUBSET W : /\ Cardinality(P) = q.limit + 1
                                     /\ \A z \in W : z \in P <=> f[z] <= f[y]
  <2>1. IsFiniteSet(W) /\ Cardinality(W) \in Nat
    BY <1>4
  <2>2. Cardinality(Below(x)) <= Cardinality(W)
    BY <1>4, <1>5
  <2>3. Cardinality(Below(x)) \in Nat
    BY <1>4, <1>5
  <2>4. q.limit + 1 \in Nat /\ 1 <= q.limit + 1 /\ q.limit + 1 <= Cardinality(W)
    <3> HIDE DEF Below, W
    <3> QED
      BY <2>1, <2>2, <2>3, <1>6, <1>1
  <2>5. f \in [W -> Nat] /\ \A z \in W : f[z] <= q.upTo
    BY <1>2
  <2>6. \A y, z \in W : f[y] = f[z] => y = z
    <3> SUFFICES ASSUME NEW y \in W, NEW z \in W, f[y] = f[z] PROVE y = z
      OBVIOUS
    <3>1. row[y].seq = row[z].seq /\ row[y].seq > 0
      <4>1. q.since \in Nat
        BY DEF Request
      <4> QED
        BY <4>1, <1>2
    <3> QED
      BY <3>1, <1>2 DEF Numbers
  <2> HIDE DEF W, f
  <2> QED
    BY <2>1, <2>4, <2>5, <2>6, <1>1, Rank
<1>8. y \in P /\ \A z \in W : z \in P <=> row[z].seq <= row[y].seq
  <2>1. \A z \in W : f[z] = row[z].seq
    OBVIOUS
  <2>2. \A z \in W : z \in P <=> row[z].seq <= row[y].seq
    BY <1>7, <2>1
  <2> QED
    BY <2>2, <1>2
<1>9. P \subseteq Queried(S, q)
  <2> SUFFICES ASSUME NEW z \in P PROVE z \in Queried(S, q)
    OBVIOUS
  <2>1. z \in W /\ Below(z) \in SUBSET (P \ {y})
    BY <1>2, <1>8
  <2>2. IsFiniteSet(P \ {y}) /\ Cardinality(P \ {y}) = q.limit
    <3>1. IsFiniteSet(P) /\ y \in P
      BY <1>4, <1>8
    <3>2. IsFiniteSet(P \ {y}) /\ Cardinality(P \ {y}) = Cardinality(P) - 1
      BY <3>1, FS_RemoveElement
    <3> QED
      BY <3>2, <1>7, <1>1
  <2>3. Cardinality(Below(z)) <= q.limit
    <3> HIDE DEF Below, W
    <3> QED
      BY <2>1, <2>2, FS_Subset
  <2> QED
    BY <2>1, <2>3, <1>3
<1>10. Cardinality(Queried(S, q)) > q.limit
  <2>1. Queried(S, q) \in SUBSET W
    BY <1>3
  <2>2. IsFiniteSet(Queried(S, q)) /\ Cardinality(Queried(S, q)) \in Nat
    BY <2>1, <1>4
  <2>3. Cardinality(P) <= Cardinality(Queried(S, q))
    BY <2>2, <1>9, FS_Subset
  <2> HIDE DEF W, f
  <2> QED
    BY <2>2, <2>3, <1>7, <1>1
<1>11. ASSUME NEW z \in Queried(S, q)
       PROVE  row[z].seq < row[x].seq
  <2>1. z \in W /\ Cardinality(Below(z)) <= q.limit
    BY <1>3, <1>6
  <2>2. SUFFICES ASSUME row[x].seq <= row[z].seq PROVE FALSE
    BY <2>1, <1>2
  <2>3. Below(x) \subseteq Below(z)
    BY <2>1, <2>2, <1>2
  <2>4. Cardinality(Below(x)) <= Cardinality(Below(z))
    <3>1. IsFiniteSet(Below(z))
      BY <1>4, <1>5
    <3> HIDE DEF Below
    <3> QED
      BY <2>3, <3>1, FS_Subset
  <2>5. Cardinality(Below(x)) \in Nat /\ Cardinality(Below(z)) \in Nat
    BY <1>4, <1>5
  <2> HIDE DEF Below
  <2> QED
    BY <2>1, <2>4, <2>5, <1>6, <1>1
<1> QED
  BY <1>6, <1>10, <1>11

-----------------------------------------------------------------------------
(* What any step of the server does, as far as a pull is concerned *)

(* A row draws a number nobody had, or stays as it was to everybody who    *)
(* has reason to be right about it, or goes with its sharer.               *)
RowStep(x) ==
    \/ row'[x].seq > last
    \/ /\ row'[x].seq = row[x].seq
       /\ x \in missed => x \in missed'
       /\ x \in Settled' => x \in Settled /\ (row[x].seq = 0 \/ AsSent(x)' = AsSent(x))
    \/ row'[x].seq = 0 /\ x \in missed'

ServerStep ==
    /\ last' \in Nat /\ last <= last' /\ row' \in [Rows -> Row]
    /\ sharer' \in [Shared -> {"idle", "told", "blind"}]
    /\ touching' \subseteq Shared /\ missed' \subseteq Shared
    /\ Numbers'
    /\ \A x \in Rows : RowStep(x)

LEMMA SameRow ==
    ASSUME NEW x \in Rows, row'[x] = row[x],
           x \in missed <=> x \in missed', x \in touching <=> x \in touching'
    PROVE  RowStep(x)
BY DEF RowStep, Settled, AsSent

LEMMA DrawStep ==
    ASSUME SyncTypeOK, Numbers, NEW x \in Shared, NEW changed \in Row,
           Draw(x, changed), touching' \in {touching, touching \ {x}},
           sharer' \in [Shared -> {"idle", "told", "blind"}]
    PROVE  ServerStep
<1>1. /\ last \in Nat /\ last' = last + 1 /\ missed' = missed \ {x}
      /\ row' = [row EXCEPT ![x] = [changed EXCEPT !.seq = last + 1]]
      /\ row \in [Rows -> Row] /\ touching \subseteq Shared /\ missed \subseteq Shared
  BY DEF SyncTypeOK, Draw
<1>2. x \in Rows
  BY DEF Rows
<1>3. [changed EXCEPT !.seq = last + 1] \in Row
      /\ [changed EXCEPT !.seq = last + 1].seq = last + 1
  BY <1>1 DEF Row
<1>4. row' \in [Rows -> Row] /\ row'[x].seq = last + 1
      /\ \A y \in Rows \ {x} : row'[y] = row[y]
  BY <1>1, <1>2, <1>3
<1>5. \A y \in Rows : RowStep(y)
  <2> SUFFICES ASSUME NEW y \in Rows PROVE RowStep(y)
    OBVIOUS
  <2>1. CASE y = x
    BY <2>1, <1>1, <1>4 DEF RowStep
  <2>2. CASE y # x
    BY <2>2, <1>1, <1>4, SameRow
  <2> QED
    BY <2>1, <2>2
<1>6. Numbers'
  <2>1. \A y \in Rows : row[y].seq \in Nat /\ row[y].seq <= last
    BY Numeric DEF Numbers
  <2>2. \A y \in Rows : row'[y].seq <= last'
    BY <2>1, <1>1, <1>4
  <2>3. \A y, z \in Rows : row'[y].seq > 0 /\ row'[y].seq = row'[z].seq => y = z
    <3> SUFFICES ASSUME NEW y \in Rows, NEW z \in Rows,
                        row'[y].seq > 0, row'[y].seq = row'[z].seq
                 PROVE  y = z
      OBVIOUS
    <3>1. CASE y # x /\ z # x
      BY <3>1, <1>4 DEF Numbers
    <3>2. CASE y = x \/ z = x
      BY <3>2, <2>1, <1>1, <1>4
    <3> QED
      BY <3>1, <3>2
  <2>4. \A y \in touching' : row'[y].seq > 0
    BY <1>1, <1>4 DEF Numbers, Rows
  <2> QED
    BY <2>2, <2>3, <2>4 DEF Numbers
<1> QED
  BY <1>1, <1>4, <1>5, <1>6 DEF ServerStep

(* A change without a number leaves the row's number alone.                *)
LEMMA SlipStep ==
    ASSUME SyncTypeOK, Numbers, NEW x \in Shared, NEW changed \in Row,
           changed.seq = row[x].seq, changed.revoked = row[x].revoked,
           Slip(x, changed), touching' = touching,
           sharer' \in [Shared -> {"idle", "told", "blind"}]
    PROVE  ServerStep
<1>1. /\ last \in Nat /\ last' = last
      /\ missed' = IF Member(x) THEN missed \cup {x} ELSE missed
      /\ row' = [row EXCEPT ![x] = changed]
      /\ row \in [Rows -> Row] /\ touching \subseteq Shared /\ missed \subseteq Shared
  BY DEF SyncTypeOK, Slip
<1>2. x \in Rows /\ row' \in [Rows -> Row] /\ row'[x] = changed
      /\ \A y \in Rows \ {x} : row'[y] = row[y]
  BY <1>1 DEF Rows
<1>3. \A y \in Rows : row'[y].seq = row[y].seq
  BY <1>2
<1>4. \A y \in Rows : RowStep(y)
  <2> SUFFICES ASSUME NEW y \in Rows PROVE RowStep(y)
    OBVIOUS
  <2>1. CASE y # x
    BY <2>1, <1>1, <1>2, SameRow
  <2>2. CASE y = x /\ Member(x)
    BY <2>2, <1>1, <1>3 DEF RowStep, Settled
  <2>3. CASE y = x /\ ~Member(x)
    <3>1. row[x].seq \in Nat /\ row[x].revoked \in BOOLEAN
      BY <1>1, <1>2 DEF Row
    <3>2. row[x].seq = 0 \/ row[x].revoked
      BY <2>3, <3>1 DEF Member
    <3>3. row[x].seq = 0 \/ AsSent(x)' = AsSent(x)
      BY <3>2, <1>2 DEF AsSent
    <3> QED
      BY <2>3, <3>3, <1>1, <1>3 DEF RowStep, Settled
  <2> QED
    BY <2>1, <2>2, <2>3
<1>5. Numbers'
  BY <1>1, <1>3 DEF Numbers, Rows
<1>6. missed' \subseteq Shared
  BY <1>1
<1> QED
  BY <1>1, <1>2, <1>4, <1>5, <1>6 DEF ServerStep

LEMMA ChangeOwnStep ==
    ASSUME SyncTypeOK, Numbers, NEW S \in SUBSET Own, ChangeOwn(S)
    PROVE  ServerStep
<1>1. /\ last \in Nat /\ row \in [Rows -> Row] /\ touching \subseteq Shared
      /\ missed \subseteq Shared
      /\ sharer' \in [Shared -> {"idle", "told", "blind"}]
      /\ UNCHANGED <<touching, missed>>
  BY DEF SyncTypeOK, ChangeOwn
<1>2. PICK number \in [S -> (last + 1)..(last + Cardinality(S))], dead \in SUBSET S :
        /\ \A x, y \in S : number[x] = number[y] => x = y
        /\ row' = [x \in Rows |->
              IF x \in S
              THEN [row[x] EXCEPT !.seq = number[x],
                                  !.state = IF x \in dead THEN "gone" ELSE "live"]
              ELSE row[x]]
  BY DEF ChangeOwn
<1>3. last' = last + Cardinality(S) /\ Cardinality(S) \in Nat
  BY FeedAssumption, FS_Subset, FS_CardinalityType DEF ChangeOwn
<1>4. S \subseteq Rows /\ S \cap Shared = {}
  BY FeedAssumption DEF Rows
<1>5. \A x \in S : number[x] \in Nat /\ last < number[x] /\ number[x] <= last'
  <2> DEFINE n == Cardinality(S)
  <2>1. number \in [S -> (last + 1)..(last + n)] /\ last' = last + n /\ n \in Nat
    BY <1>3
  <2> HIDE DEF n
  <2>2. \A x \in S : number[x] \in (last + 1)..(last + n)
    BY <2>1
  <2> QED
    BY <1>1, <2>1, <2>2
<1>6. /\ row' \in [Rows -> Row]
      /\ \A x \in S : row'[x].seq = number[x]
      /\ \A x \in Rows \ S : row'[x] = row[x]
  <2> DEFINE state(x) == IF x \in dead THEN "gone" ELSE "live"
             drawn(x) == [row[x] EXCEPT !.seq = number[x], !.state = state(x)]
  <2>1. row' = [x \in Rows |-> IF x \in S THEN drawn(x) ELSE row[x]]
    BY <1>2
  <2>2. \A x \in Rows : row[x] \in Row
    BY <1>1
  <2>3. \A x \in S : drawn(x) \in Row /\ drawn(x).seq = number[x]
    BY <2>2, <1>4, <1>5 DEF Row
  <2> HIDE DEF drawn
  <2> QED
    BY <2>1, <2>2, <2>3, <1>4
<1>7. \A x \in Rows : RowStep(x)
  <2> SUFFICES ASSUME NEW x \in Rows PROVE RowStep(x)
    OBVIOUS
  <2>1. CASE x \in S
    BY <2>1, <1>5, <1>6 DEF RowStep
  <2>2. CASE x \notin S
    BY <2>2, <1>1, <1>6, SameRow
  <2> QED
    BY <2>1, <2>2
<1>8. Numbers'
  <2>1. \A x \in Rows : row[x].seq \in Nat /\ row[x].seq <= last
    BY Numeric DEF Numbers
  <2>2. \A x \in Rows : row'[x].seq <= last'
    BY <2>1, <1>1, <1>3, <1>5, <1>6
  <2>3. \A x, y \in Rows : row'[x].seq > 0 /\ row'[x].seq = row'[y].seq => x = y
    <3> SUFFICES ASSUME NEW x \in Rows, NEW y \in Rows,
                        row'[x].seq > 0, row'[x].seq = row'[y].seq
                 PROVE  x = y
      OBVIOUS
    <3>1. CASE x \in S /\ y \in S
      <4>1. number[x] = number[y]
        BY <3>1, <1>6
      <4> QED
        BY <4>1, <3>1, <1>2
    <3>2. CASE x \notin S /\ y \notin S
      BY <3>2, <1>6 DEF Numbers
    <3>3. CASE x \in S <=> y \notin S
      BY <3>3, <2>1, <1>1, <1>5, <1>6
    <3> QED
      BY <3>1, <3>2, <3>3
  <2>4. \A x \in touching' : row'[x].seq > 0
    BY <1>1, <1>4, <1>6 DEF Numbers, Rows
  <2> QED
    BY <2>2, <2>3, <2>4 DEF Numbers
<1>9. last' \in Nat /\ last <= last'
  BY <1>1, <1>3
<1> QED
  BY <1>1, <1>6, <1>7, <1>8, <1>9 DEF ServerStep

(* Numbers and types depend on nothing but the rows' numbers here.         *)
LEMMA QuietStep ==
    ASSUME SyncTypeOK, Numbers, last' = last, row' \in [Rows -> Row],
           \A x \in Rows : row'[x].seq = row[x].seq,
           sharer' \in [Shared -> {"idle", "told", "blind"}],
           touching' \subseteq Shared, missed' \subseteq Shared,
           \A x \in touching' : row[x].seq > 0,
           \A x \in Rows : RowStep(x)
    PROVE  ServerStep
<1>1. Numbers'
  BY DEF Numbers, Rows
<1>2. last' \in Nat /\ last <= last'
  BY DEF SyncTypeOK
<1> QED
  BY <1>1, <1>2 DEF ServerStep

LEMMA DeleteSharerStep ==
    ASSUME SyncTypeOK, Numbers, NEW x \in Shared, DeleteSharer(x)
    PROVE  ServerStep
<1> DEFINE none == [seq |-> 0, state |-> "none", revoked |-> FALSE]
<1>1. /\ last \in Nat /\ row \in [Rows -> Row]
      /\ touching \subseteq Shared /\ missed \subseteq Shared
      /\ sharer \in [Shared -> {"idle", "told", "blind"}]
      /\ last' = IF row[x].seq > 0 THEN last + 1 ELSE last
      /\ row' = [row EXCEPT ![x] = none]
      /\ missed' = IF row[x].seq > 0 THEN missed \cup {x} ELSE missed
      /\ sharer' = [sharer EXCEPT ![x] = "idle"]
      /\ touching' = touching \ {x}
  BY DEF SyncTypeOK, DeleteSharer
<1>2. x \in Rows /\ none \in Row /\ row' \in [Rows -> Row] /\ row'[x] = none
      /\ \A y \in Rows \ {x} : row'[y] = row[y]
  BY <1>1 DEF Rows, Row
<1>3. \A y \in Rows : RowStep(y)
  <2> SUFFICES ASSUME NEW y \in Rows PROVE RowStep(y)
    OBVIOUS
  <2>1. CASE y # x
    BY <2>1, <1>1, <1>2, SameRow
  <2>2. CASE y = x /\ row[x].seq > 0
    BY <2>2, <1>1, <1>2 DEF RowStep
  <2>3. CASE y = x /\ ~(row[x].seq > 0)
    <3>1. row[x].seq = 0 /\ row'[x].seq = 0
      BY <2>3, <1>2, Numeric
    <3>2. x \notin touching
      BY <2>3 DEF Numbers
    <3> QED
      BY <2>3, <3>1, <3>2, <1>1 DEF RowStep, Settled
  <2> QED
    BY <2>1, <2>2, <2>3
<1>4. Numbers'
  <2>1. \A y \in Rows : row[y].seq \in Nat /\ row[y].seq <= last
    BY Numeric DEF Numbers
  <2>2. \A y \in Rows : row'[y].seq <= last'
    BY <2>1, <1>1, <1>2
  <2>3. \A y, z \in Rows : row'[y].seq > 0 /\ row'[y].seq = row'[z].seq => y = z
    BY <1>2 DEF Numbers
  <2>4. \A y \in touching' : row'[y].seq > 0
    BY <1>1, <1>2 DEF Numbers, Rows
  <2> QED
    BY <2>2, <2>3, <2>4 DEF Numbers
<1>5. last' \in Nat /\ last <= last'
  BY <1>1
<1>6. sharer' \in [Shared -> {"idle", "told", "blind"}]
      /\ touching' \subseteq Shared /\ missed' \subseteq Shared
  BY <1>1
<1> QED
  BY <1>2, <1>3, <1>4, <1>5, <1>6 DEF ServerStep

LEMMA ServerSteps ==
    ASSUME SyncTypeOK, Numbers, ServerNext
    PROVE  ServerStep
<1>1. /\ row \in [Rows -> Row] /\ touching \subseteq Shared /\ missed \subseteq Shared
      /\ sharer \in [Shared -> {"idle", "told", "blind"}]
  BY DEF SyncTypeOK
<1>2. ASSUME NEW S \in SUBSET Own, ChangeOwn(S) PROVE ServerStep
  BY <1>2, ChangeOwnStep
<1>3. ASSUME NEW x \in Shared, ReadMembers(x) PROVE ServerStep
  <2>1. sharer' \in [Shared -> {"idle", "told", "blind"}]
        /\ UNCHANGED <<last, row, touching, missed>>
    BY <1>1, <1>3 DEF ReadMembers
  <2>2. \A y \in Rows : RowStep(y)
    BY <2>1, SameRow
  <2> QED
    BY <1>1, <2>1, <2>2, QuietStep DEF Numbers
<1>4. ASSUME NEW x \in Shared, CommitChange(x) PROVE ServerStep
  <2>1. PICK state \in {"live", "gone"} :
          IF sharer[x] = "told" THEN Draw(x, [row[x] EXCEPT !.state = state])
          ELSE Slip(x, [row[x] EXCEPT !.state = state])
    BY <1>4 DEF CommitChange
  <2>2. touching' = touching /\ sharer' \in [Shared -> {"idle", "told", "blind"}]
    BY <1>1, <1>4 DEF CommitChange, clientVars
  <2>3. row[x] \in Row
    BY <1>1 DEF Rows
  <2> DEFINE changed == [row[x] EXCEPT !.state = state]
  <2>4. changed \in Row /\ changed.seq = row[x].seq /\ changed.revoked = row[x].revoked
    BY <2>3 DEF Row
  <2> QED
    BY <2>1, <2>2, <2>4, DrawStep, SlipStep
<1>5. ASSUME NEW x \in Shared, Grant(x) PROVE ServerStep
  <2>1. row[x] \in Row
    BY <1>1 DEF Rows
  <2>2. [row[x] EXCEPT !.revoked = FALSE] \in Row
    BY <2>1 DEF Row
  <2> QED
    BY <1>1, <1>5, <2>2, DrawStep DEF Grant
<1>6. ASSUME NEW x \in Shared, ChangeMember(x) PROVE ServerStep
  <2>1. /\ row' \in {row, [row EXCEPT ![x].revoked = TRUE]} /\ x \in Rows
        /\ touching' = touching \cup {x} /\ Member(x)
        /\ UNCHANGED <<last, sharer, missed>>
    BY <1>6 DEF ChangeMember, Rows
  <2>2. /\ row' \in [Rows -> Row]
        /\ \A y \in Rows : row'[y].seq = row[y].seq
        /\ \A y \in Rows \ {x} : row'[y] = row[y]
    <3> DEFINE revoked == [row[x] EXCEPT !.revoked = TRUE]
    <3>1. row[x] \in Row
      BY <1>1, <2>1
    <3>2. revoked \in Row /\ revoked.seq = row[x].seq
      BY <3>1 DEF Row
    <3>3. row' = row \/ row' = [row EXCEPT ![x] = revoked]
      BY <2>1
    <3> HIDE DEF revoked
    <3> QED
      BY <1>1, <2>1, <3>2, <3>3
  <2>3. \A y \in Rows : RowStep(y)
    <3> SUFFICES ASSUME NEW y \in Rows PROVE RowStep(y)
      OBVIOUS
    <3>1. CASE y = x
      BY <3>1, <2>1, <2>2 DEF RowStep, Settled
    <3>2. CASE y # x
      BY <3>2, <2>1, <2>2, SameRow
    <3> QED
      BY <3>1, <3>2
  <2>4. touching' \subseteq Shared /\ \A y \in touching' : row[y].seq > 0
    BY <1>1, <2>1 DEF Numbers, Member
  <2> QED
    BY <1>1, <2>1, <2>2, <2>3, <2>4, QuietStep
<1>7. ASSUME NEW x \in Shared, TouchMember(x) PROVE ServerStep
  <2>1. row[x] \in Row
    BY <1>1 DEF Rows
  <2> QED
    BY <1>1, <1>7, <2>1, DrawStep DEF TouchMember
<1>8. ASSUME NEW x \in Shared, LoseTouch(x) PROVE ServerStep
  <2>1. /\ touching' = touching \ {x} /\ missed' = missed \cup {x}
        /\ UNCHANGED <<last, row, sharer>>
    BY <1>8 DEF LoseTouch
  <2>2. \A y \in Rows : RowStep(y)
    <3> SUFFICES ASSUME NEW y \in Rows PROVE RowStep(y)
      OBVIOUS
    <3>1. CASE y = x
      BY <3>1, <2>1 DEF RowStep, Settled
    <3>2. CASE y # x
      BY <3>2, <2>1, SameRow
    <3> QED
      BY <3>1, <3>2
  <2> QED
    BY <1>1, <2>1, <2>2, QuietStep DEF Numbers
<1>9. ASSUME NEW x \in Shared, TrashFolder(x) PROVE ServerStep
  <2>1. row[x] \in Row
    BY <1>1 DEF Rows
  <2> DEFINE changed == [row[x] EXCEPT !.state = "gone"]
  <2>2. changed \in Row /\ changed.seq = row[x].seq /\ changed.revoked = row[x].revoked
    BY <2>1 DEF Row
  <2> QED
    BY <1>1, <1>9, <2>2, SlipStep DEF TrashFolder
<1>10. ASSUME NEW x \in Shared, DeleteSharer(x) PROVE ServerStep
  BY <1>10, DeleteSharerStep
<1> QED
  BY <1>2, <1>3, <1>4, <1>5, <1>6, <1>7, <1>8, <1>9, <1>10 DEF ServerNext

-----------------------------------------------------------------------------
(* The server keeps the invariant *)

(* A settled row whose number is not new is the row it was.                *)
LEMMA SettledStep ==
    ASSUME SyncTypeOK, ServerStep, NEW x \in Rows, x \in Settled',
           row'[x].seq <= last
    PROVE  /\ x \in Settled /\ row'[x].seq = row[x].seq
           /\ row[x].seq = 0 \/ AsSent(x)' = AsSent(x)
           /\ Shown(x)' = Shown(x)
<1>1. last \in Nat /\ row'[x].seq \in Nat
  BY Numeric DEF ServerStep, Row
<1>2. RowStep(x) /\ x \notin missed'
  BY DEF ServerStep, Settled
<1>3. /\ x \in Settled /\ row'[x].seq = row[x].seq
      /\ row[x].seq = 0 \/ AsSent(x)' = AsSent(x)
  BY <1>1, <1>2 DEF RowStep
<1>4. Shown(x)' = Shown(x)
  BY <1>3 DEF Shown, Kept
<1> QED
  BY <1>3, <1>4

LEMMA ServerKeepsTypes ==
    ASSUME SyncTypeOK, ServerStep, UNCHANGED clientVars
    PROVE  SyncTypeOK'
<1>1. last \in Nat /\ last' \in Nat /\ last <= last'
  BY DEF SyncTypeOK, ServerStep
<1>2. 0..last \subseteq 0..last'
  BY <1>1
<1>3. /\ cursor' \in [Tabs -> 0..last']
      /\ cache' \in [seq : 0..last', rows : Library]
  <2>1. cursor \in [Tabs -> 0..last] /\ cache \in [seq : 0..last, rows : Library]
        /\ UNCHANGED <<cursor, cache>>
    BY DEF SyncTypeOK, clientVars
  <2> QED
    BY <1>2, <2>1
<1>4. /\ open' \subseteq Tabs /\ lib' \in [Tabs -> Library]
      /\ req' \in [Pulls -> Request] /\ pend' \in [Pulls -> SUBSET Reply]
  BY DEF SyncTypeOK, clientVars
<1> QED
  BY <1>1, <1>3, <1>4 DEF SyncTypeOK, ServerStep

LEMMA ServerKeepsFeed ==
    ASSUME Feed, ServerStep, UNCHANGED clientVars
    PROVE  Feed'
<1>1. SyncTypeOK /\ Numbers /\ UNCHANGED <<open, lib, cursor, req, pend, cache>>
  BY DEF Feed, clientVars
<1>2. last \in Nat /\ last' \in Nat /\ last <= last'
      /\ \A x \in Rows : row[x].seq \in Nat /\ row'[x].seq \in Nat
  BY <1>1, Numeric DEF ServerStep, Row
<1>3. ASSUME NEW p \in Pulls PROVE Asked(p)'
  <2>1. req[p] \in Request /\ Asked(p)
    BY <1>1, Numeric DEF Feed
  <2>2. req[p].upTo \in Nat
    BY <2>1 DEF Request
  <2> QED
    BY <1>1, <1>2, <2>1, <2>2 DEF Asked, Read
<1>4. ASSUME NEW p \in Pulls PROVE SentOnce(p)'
  <2> DEFINE q == req[p]
  <2>1. q \in Request /\ Asked(p) /\ SentOnce(p) /\ q' = q
    BY <1>1, Numeric DEF Feed
  <2>2. SUFFICES ASSUME q.pc # "idle", NEW x \in q.sent
                 PROVE  /\ \/ row'[x].seq = q.got[x].seq
                           \/ row'[x].seq > q.upTo
                           \/ row'[x].seq = 0 /\ x \in missed'
                        /\ \A y \in Rows : row'[y].seq = q.got[x].seq => y = x
                        /\ \A y \in q.sent : q.got[y].seq = q.got[x].seq => y = x
    BY <2>1 DEF SentOnce
  <2>3. x \in Rows /\ q.upTo \in Nat /\ q.since \in Nat /\ q.got[x].seq \in Nat
    BY <2>1, <2>2 DEF Request, Library, Copy
  <2>4. q.since < q.got[x].seq /\ q.got[x].seq <= q.upTo /\ q.upTo <= last
    BY <2>1, <2>2 DEF Asked
  <2>5. /\ \/ row[x].seq = q.got[x].seq
           \/ row[x].seq > q.upTo
           \/ row[x].seq = 0 /\ x \in missed
        /\ \A y \in Rows : row[y].seq = q.got[x].seq => y = x
        /\ \A y \in q.sent : q.got[y].seq = q.got[x].seq => y = x
    BY <2>1, <2>2 DEF SentOnce
  <2>6. \/ row'[x].seq = q.got[x].seq
        \/ row'[x].seq > q.upTo
        \/ row'[x].seq = 0 /\ x \in missed'
    <3>1. RowStep(x)
      BY <2>3 DEF ServerStep
    <3> QED
      BY <3>1, <2>3, <2>4, <2>5, <1>2 DEF RowStep
  <2>7. ASSUME NEW y \in Rows, row'[y].seq = q.got[x].seq PROVE y = x
    <3>1. RowStep(y)
      BY DEF ServerStep
    <3>2. row[y].seq = q.got[x].seq
      BY <3>1, <2>3, <2>4, <2>7, <1>2 DEF RowStep
    <3> QED
      BY <3>2, <2>5
  <2> QED
    BY <2>5, <2>6, <2>7
<1>5. ASSUME NEW p \in Pulls PROVE SentOrCut(p)'
  <2> DEFINE q == req[p]
  <2>1. q \in Request /\ Asked(p) /\ SentOrCut(p) /\ q' = q
    BY <1>1, Numeric DEF Feed
  <2>2. SUFFICES ASSUME q.pc # "idle", NEW S \in {Own, Shared},
                        NEW x \in S \cap Read(q) \cap Settled',
                        q.since < row'[x].seq, row'[x].seq <= q.upTo
                 PROVE  \/ x \in q.sent /\ q.got[x] = AsSent(x)'
                        \/ /\ q.limit > 0 /\ Cardinality(q.sent \cap S) > q.limit
                           /\ \A y \in q.sent \cap S : q.got[y].seq < row'[x].seq
    BY <2>1 DEF SentOrCut, Read
  <2>3. x \in Rows /\ q.upTo \in Nat /\ q.since \in Nat /\ q.upTo <= last
    BY <2>1, <2>2 DEF Request, Rows, Asked
  <2>4. row'[x].seq <= last
    BY <2>2, <2>3, <1>2
  <2>5. x \in Settled /\ row'[x].seq = row[x].seq
        /\ (row[x].seq = 0 \/ AsSent(x)' = AsSent(x))
    BY <2>2, <2>3, <2>4, <1>1, SettledStep
  <2>6. AsSent(x)' = AsSent(x)
    BY <2>2, <2>3, <2>5, <1>2
  <2> QED
    BY <2>1, <2>2, <2>5, <2>6 DEF SentOrCut
<1>6. ASSUME NEW p \in Pulls PROVE InStep(p)'
  BY <1>1 DEF Feed, InStep
<1>7. ASSUME NEW p \in Pulls PROVE Closes(p)'
  <2> DEFINE t == TabOf(p)
  <2>1. Closes(p) /\ cursor[t] <= last /\ cursor[t] \in Nat
    BY <1>1, Numeric DEF Feed
  <2>2. SUFFICES ASSUME NEW answer \in pend[p], NEW x \in Settled',
                        row'[x].seq <= answer.seq
                 PROVE  IF x \in answer.sent THEN answer.got[x] = AsSent(x)'
                        ELSE row'[x].seq <= IF answer.rebuild THEN 0 ELSE cache.seq
    BY <1>1, <2>1 DEF Closes
  <2> DEFINE from == IF answer.rebuild THEN 0 ELSE cache.seq
  <2>3. answer.seq = cursor[t] /\ (x \in answer.sent => from < answer.got[x].seq)
    BY <2>1 DEF Closes
  <2>4. x \in Rows /\ row'[x].seq <= last
    BY <1>2, <2>1, <2>2, <2>3 DEF Settled
  <2>5. x \in Settled /\ row'[x].seq = row[x].seq
        /\ (row[x].seq = 0 \/ AsSent(x)' = AsSent(x))
    BY <2>2, <2>4, <1>1, SettledStep
  <2>6. IF x \in answer.sent THEN answer.got[x] = AsSent(x)
        ELSE row[x].seq <= from
    BY <2>1, <2>2, <2>5 DEF Closes
  <2>7. CASE x \in answer.sent
    <3>1. row[x].seq # 0
      <4>1. AsSent(x).seq = row[x].seq /\ from \in Nat
        BY <1>1, Numeric DEF AsSent
      <4> QED
        BY <4>1, <2>3, <2>6, <2>7
    <3> QED
      BY <3>1, <2>5, <2>6, <2>7
  <2>8. CASE x \notin answer.sent
    BY <2>5, <2>6, <2>8
  <2> QED
    BY <2>7, <2>8
<1>8. Mirrors'
  <2>1. Mirrors /\ cache.seq <= last /\ cache.seq \in Nat
    BY <1>1, Numeric DEF Feed
  <2>2. ASSUME NEW x \in Settled', row'[x].seq <= cache.seq
        PROVE  cache.rows[x] = Shown(x)'
    <3>1. x \in Rows /\ row'[x].seq <= last
      BY <1>2, <2>1, <2>2 DEF Settled
    <3>2. x \in Settled /\ row'[x].seq = row[x].seq /\ Shown(x)' = Shown(x)
      BY <2>2, <3>1, <1>1, SettledStep
    <3> QED
      BY <2>1, <2>2, <3>2 DEF Mirrors
  <2> QED
    BY <1>1, <2>1, <2>2 DEF Mirrors
<1>9. FeedComplete'
  <2>1. SUFFICES ASSUME NEW t \in open, NEW x \in Settled', row'[x].seq <= cursor[t]
                 PROVE  lib[t][x] = Shown(x)'
    BY <1>1 DEF FeedComplete
  <2>2. t \in Tabs /\ cursor[t] <= last /\ cursor[t] \in Nat
    BY <1>1, Numeric DEF SyncTypeOK
  <2>3. x \in Rows /\ row'[x].seq <= last
    BY <1>2, <2>1, <2>2 DEF Settled
  <2>4. x \in Settled /\ row'[x].seq = row[x].seq /\ Shown(x)' = Shown(x)
    BY <2>1, <2>3, <1>1, SettledStep
  <2> QED
    BY <2>1, <2>4 DEF Feed, FeedComplete
<1>10. SyncTypeOK' /\ Numbers'
  BY <1>1, ServerKeepsTypes DEF ServerStep
<1> QED
  BY <1>3, <1>4, <1>5, <1>6, <1>7, <1>8, <1>9, <1>10 DEF Feed

-----------------------------------------------------------------------------
(* The client keeps it: the pull *)

LEMMA ServerSame ==
    ASSUME UNCHANGED serverVars
    PROVE  /\ UNCHANGED <<last, row, sharer, touching, missed>>
           /\ Settled' = Settled /\ (Numbers => Numbers')
           /\ \A x : AsSent(x)' = AsSent(x) /\ Shown(x)' = Shown(x)
BY DEF serverVars, Settled, Numbers, AsSent, Shown, Kept

LEMMA CopyTypes ==
    /\ Nothing \in Copy /\ Empty \in Library
    /\ \A copy \in Copy : Kept(copy) \in Copy
    /\ SyncTypeOK => \A x \in Rows : AsSent(x) \in Copy
<1>1. Nothing \in Copy
  BY DEF Nothing, Copy
<1>2. Empty \in Library
  BY <1>1 DEF Empty, Library
<1>3. \A copy \in Copy : Kept(copy) \in Copy
  BY <1>1 DEF Kept
<1>4. ASSUME SyncTypeOK, NEW x \in Rows PROVE AsSent(x) \in Copy
  <2>1. row[x].seq \in Nat /\ row[x].revoked \in BOOLEAN
    BY <1>4, Numeric DEF Row
  <2>2. (row[x].state # "live" \/ row[x].revoked) \in BOOLEAN
    OBVIOUS
  <2> QED
    BY <2>1, <2>2 DEF AsSent, Copy
<1> QED
  BY <1>1, <1>2, <1>3, <1>4

LEMMA StartSyncKeepsFeed ==
    ASSUME Feed, NEW t, NEW p, Tabs = {t}, Pulls = {p}, TabOf(p) = t, NEW limit \in Limits,
           NEW rebuild \in BOOLEAN, StartSync(p, limit, rebuild)
    PROVE  Feed'
<1> DEFINE q == [Idle EXCEPT !.pc = "own", !.limit = limit, !.rebuild = rebuild,
                             !.since = IF rebuild THEN 0 ELSE cursor[t],
                             !.upTo = last]
<1>1. /\ SyncTypeOK /\ Numbers /\ t \in open /\ pend[p] = {}
      /\ UNCHANGED serverVars /\ UNCHANGED <<open, lib, cursor, pend, cache>>
      /\ req' = [req EXCEPT ![p] = q]
  BY DEF Feed, StartSync
<1>2. Idle = [pc |-> "idle", since |-> 0, upTo |-> 0, limit |-> 0,
              rebuild |-> FALSE, sent |-> {}, got |-> Empty]
  BY DEF Idle
<1>3. /\ q.pc = "own" /\ q.since = IF rebuild THEN 0 ELSE cursor[t]
      /\ q.upTo = last /\ q.rebuild = rebuild /\ q.sent = {}
      /\ last \in Nat /\ cursor[t] \in Nat => q \in Request
  <2> DEFINE since == IF rebuild THEN 0 ELSE cursor[t]
             asked == [Idle EXCEPT !.pc = "own", !.limit = limit,
                                   !.rebuild = rebuild, !.since = since,
                                   !.upTo = last]
  <2>1. last \in Nat /\ cursor[t] \in Nat => since \in Nat /\ last \in Nat
    OBVIOUS
  <2> HIDE DEF since
  <2>2. /\ asked.pc = "own" /\ asked.since = since /\ asked.upTo = last
        /\ asked.rebuild = rebuild /\ asked.sent = {}
    BY <1>2
  <2>3. since \in Nat /\ last \in Nat => asked \in Request
    BY <1>2, CopyTypes DEF Request
  <2> QED
    BY <2>1, <2>2, <2>3 DEF since
<1> HIDE DEF q
<1>4. last \in Nat /\ cursor[t] \in Nat /\ cursor[t] <= last
  BY <1>1, Numeric
<1>5. q \in Request
  BY <1>3, <1>4
<1>6. req' \in [Pulls -> Request] /\ req'[p] = q
  BY <1>1, <1>5 DEF SyncTypeOK
<1>7. SyncTypeOK'
  BY <1>1, <1>6, ServerSame DEF SyncTypeOK
<1>8. Asked(p)'
  BY <1>1, <1>3, <1>4, <1>6, ServerSame DEF Asked
<1>9. SentOnce(p)' /\ SentOrCut(p)'
  BY <1>3, <1>6 DEF SentOnce, SentOrCut, Read
<1>10. InStep(p)' /\ Closes(p)'
  BY <1>1, ServerSame DEF Feed, InStep, Closes
<1>11. Mirrors' /\ FeedComplete'
  BY <1>1, ServerSame DEF Feed, Mirrors, FeedComplete
<1> QED
  BY <1>1, <1>7, <1>8, <1>9, <1>10, <1>11, ServerSame DEF Feed

LEMMA FailSyncKeepsFeed ==
    ASSUME Feed, NEW t, NEW p, Tabs = {t}, Pulls = {p}, TabOf(p) = t, FailSync(p)
    PROVE  Feed'
<1>1. /\ SyncTypeOK /\ Numbers
      /\ UNCHANGED serverVars /\ UNCHANGED <<open, lib, cursor, pend, cache>>
      /\ req' = [req EXCEPT ![p] = Idle]
  BY DEF Feed, FailSync
<1>2. Idle \in Request /\ Idle.pc = "idle"
  BY FeedAssumption, CopyTypes DEF Idle, Request
<1>3. req' \in [Pulls -> Request] /\ req'[p] = Idle
  BY <1>1, <1>2 DEF SyncTypeOK
<1>4. SyncTypeOK'
  BY <1>1, <1>3, ServerSame DEF SyncTypeOK
<1>5. Asked(p)' /\ SentOnce(p)' /\ SentOrCut(p)'
  BY <1>2, <1>3 DEF Asked, SentOnce, SentOrCut
<1>6. InStep(p)' /\ Closes(p)'
  BY <1>1, <1>2, <1>3, ServerSame DEF Feed, InStep, Closes
<1>7. Mirrors' /\ FeedComplete'
  BY <1>1, ServerSame DEF Feed, Mirrors, FeedComplete
<1> QED
  BY <1>1, <1>4, <1>5, <1>6, <1>7, ServerSame DEF Feed

LEMMA QueryKeepsFeed ==
    ASSUME Feed, NEW t, NEW p, Tabs = {t}, Pulls = {p}, TabOf(p) = t, NEW S, NEW from, NEW to,
           \/ S = Own /\ from = "own" /\ to = "shared"
           \/ S = Shared /\ from = "shared" /\ to = "reply",
           Query(p, S, from, to)
    PROVE  Feed'
<1> DEFINE q == req[p]
           Q == Queried(S, q)
           got == [x \in Rows |-> IF x \in Q THEN AsSent(x) ELSE q.got[x]]
           r == req'[p]
<1>1. /\ SyncTypeOK /\ Numbers /\ q.pc = from /\ q \in Request
      /\ UNCHANGED serverVars /\ UNCHANGED <<open, lib, cursor, pend, cache>>
      /\ Asked(p) /\ SentOnce(p) /\ SentOrCut(p)
  BY Numeric DEF Feed, Query
<1>2. req' = [req EXCEPT ![p] = [q EXCEPT !.pc = to, !.sent = q.sent \cup Q, !.got = got]]
  BY <1>1 DEF Query, SyncTypeOK, Request
<1>3. S \subseteq Rows /\ S \in {Own, Shared} /\ Own \cap Shared = {} /\ from # "idle"
  BY FeedAssumption DEF Rows
<1>4. Q \subseteq S /\ \A x \in Q : q.since < row[x].seq /\ row[x].seq <= q.upTo
  BY DEF Queried
<1>5. got \in Library
  <2>1. \A x \in Rows : AsSent(x) \in Copy /\ q.got[x] \in Copy
    BY <1>1, CopyTypes DEF Request, Library
  <2> QED
    BY <2>1 DEF Library
<1>6. /\ r.pc = to /\ r.since = q.since /\ r.upTo = q.upTo /\ r.limit = q.limit
      /\ r.rebuild = q.rebuild /\ r.sent = q.sent \cup Q /\ r.got = got
      /\ r \in Request /\ req' \in [Pulls -> Request]
  <2> DEFINE new == [q EXCEPT !.pc = to, !.sent = q.sent \cup Q, !.got = got]
  <2>1. /\ new.pc = to /\ new.since = q.since /\ new.upTo = q.upTo
        /\ new.limit = q.limit /\ new.rebuild = q.rebuild
        /\ new.sent = q.sent \cup Q /\ new.got = got
        /\ new \in Request
    <3>1. q.sent \cup Q \in SUBSET Rows
      BY <1>1, <1>3, <1>4 DEF Request
    <3>2. to \in {"idle", "own", "shared", "reply"}
      OBVIOUS
    <3> HIDE DEF Q, got
    <3> QED
      BY <1>1, <1>5, <3>1, <3>2 DEF Request
  <2>2. req \in [Pulls -> Request]
    BY <1>1 DEF SyncTypeOK
  <2>3. req' = [req EXCEPT ![p] = new]
    BY <1>2
  <2> HIDE DEF new
  <2> QED
    BY <2>1, <2>2, <2>3
<1>7. Read(r) = Read(q) \cup S /\ Read(q) \cap S = {} /\ to # "idle"
  BY <1>1, <1>3, <1>6 DEF Read, Rows
<1>8. q.sent \subseteq Read(q) /\ q.sent \cap Q = {}
  BY <1>1, <1>3, <1>4, <1>7 DEF Asked
<1>9. /\ \A x \in Q : x \in Rows /\ got[x] = AsSent(x) /\ got[x].seq = row[x].seq
      /\ \A x \in q.sent : x \in Rows /\ got[x] = q.got[x]
  BY <1>1, <1>3, <1>4, <1>8 DEF AsSent, Request
<1> HIDE DEF Q, got, r, q
<1>10. SyncTypeOK'
  BY <1>1, <1>6, ServerSame DEF SyncTypeOK
<1>11. Asked(p)'
  <2>1. /\ t \in open /\ pend[p] = {}
        /\ q.since = IF q.rebuild THEN 0 ELSE cursor[t]
        /\ q.since <= q.upTo /\ q.upTo <= last
        /\ \A x \in q.sent : q.since < q.got[x].seq /\ q.got[x].seq <= q.upTo
    BY <1>1, <1>3 DEF Asked, q
  <2>2. r.sent \subseteq Read(r)
    BY <1>4, <1>6, <1>7, <1>8
  <2>3. \A x \in r.sent : r.since < r.got[x].seq /\ r.got[x].seq <= r.upTo
    BY <2>1, <1>4, <1>6, <1>9
  <2> QED
    BY <1>1, <1>6, <2>1, <2>2, <2>3, ServerSame DEF Asked, r
<1>12. SentOnce(p)'
  <2>1. \A x \in q.sent :
          /\ \/ row[x].seq = q.got[x].seq
             \/ row[x].seq > q.upTo
             \/ row[x].seq = 0 /\ x \in missed
          /\ \A y \in Rows : row[y].seq = q.got[x].seq => y = x
          /\ \A y \in q.sent : q.got[y].seq = q.got[x].seq => y = x
    BY <1>1, <1>3 DEF SentOnce, q
  <2>2. \A x \in Q : row[x].seq > 0
    <3>1. q.since \in Nat /\ \A x \in Rows : row[x].seq \in Nat
      BY <1>1, Numeric DEF Request
    <3> QED
      BY <3>1, <1>4, <1>9
  <2>3. ASSUME NEW x \in r.sent
        PROVE  /\ \/ row[x].seq = r.got[x].seq
                  \/ row[x].seq > r.upTo
                  \/ row[x].seq = 0 /\ x \in missed
               /\ \A y \in Rows : row[y].seq = r.got[x].seq => y = x
               /\ \A y \in r.sent : r.got[y].seq = r.got[x].seq => y = x
    <3>1. CASE x \in q.sent
      BY <3>1, <2>1, <1>6, <1>9
    <3>2. CASE x \in Q
      <4>1. row[x].seq = r.got[x].seq
        BY <3>2, <1>6, <1>9
      <4>2. \A y \in Rows : row[y].seq = r.got[x].seq => y = x
        BY <3>2, <4>1, <2>2, <1>1, <1>9 DEF Numbers
      <4>3. ASSUME NEW y \in r.sent, r.got[y].seq = r.got[x].seq PROVE y = x
        <5>1. CASE y \in Q
          BY <5>1, <4>2, <4>3, <1>6, <1>9
        <5>2. CASE y \in q.sent
          BY <5>2, <4>1, <4>3, <3>2, <2>1, <1>6, <1>9
        <5> QED
          BY <5>1, <5>2, <4>3, <1>6
      <4> QED
        BY <4>1, <4>2, <4>3
    <3> QED
      BY <3>1, <3>2, <1>6
  <2> QED
    BY <2>3, <1>1, ServerSame DEF SentOnce, r
<1>13. SentOrCut(p)'
  <2>1. SUFFICES ASSUME NEW C \in {Own, Shared}, NEW x \in C \cap Read(r) \cap Settled,
                        r.since < row[x].seq, row[x].seq <= r.upTo
                 PROVE  \/ x \in r.sent /\ r.got[x] = AsSent(x)
                        \/ /\ r.limit > 0 /\ Cardinality(r.sent \cap C) > r.limit
                           /\ \A y \in r.sent \cap C : r.got[y].seq < row[x].seq
    BY <1>1, ServerSame DEF SentOrCut, r, Read
  <2>2. CASE C = S
    <3>1. r.sent \cap C = Q
      BY <2>2, <1>4, <1>6, <1>7, <1>8
    <3>2. CASE x \in Q
      BY <3>2, <1>6, <1>9
    <3>3. CASE x \notin Q
      <4>1. /\ q.limit > 0 /\ Cardinality(Q) > q.limit
            /\ \A z \in Q : row[z].seq < row[x].seq
        BY <3>3, <2>1, <2>2, <1>1, <1>3, <1>6, PageCut DEF Q
      <4> QED
        BY <4>1, <3>1, <1>6, <1>9
    <3> QED
      BY <3>2, <3>3
  <2>3. CASE C # S
    <3>1. C \cap S = {} /\ r.sent \cap C = q.sent \cap C /\ x \in Read(q)
      BY <2>1, <2>3, <1>3, <1>4, <1>6, <1>7
    <3>2. \/ x \in q.sent /\ q.got[x] = AsSent(x)
          \/ /\ q.limit > 0 /\ Cardinality(q.sent \cap C) > q.limit
             /\ \A y \in q.sent \cap C : q.got[y].seq < row[x].seq
      BY <3>1, <2>1, <1>1, <1>3, <1>6 DEF SentOrCut, q
    <3> QED
      BY <3>1, <3>2, <1>6, <1>9
  <2> QED
    BY <2>2, <2>3
<1>14. InStep(p)' /\ Closes(p)'
  <2>1. t \in open
    BY <1>1, <1>3 DEF Asked, q
  <2> QED
    BY <2>1, <1>1, ServerSame DEF Feed, InStep, Closes
<1>15. Mirrors' /\ FeedComplete'
  BY <1>1, ServerSame DEF Feed, Mirrors, FeedComplete
<1> QED
  BY <1>1, <1>10, <1>11, <1>12, <1>13, <1>14, <1>15, ServerSame DEF Feed

-----------------------------------------------------------------------------
(* The cursor an answer carries, and what a client may conclude from it *)

LEMMA CursorRange ==
    ASSUME Feed, NEW p \in Pulls, req[p].pc = "reply", NEW c \in Cursors(req[p])
    PROVE  c \in Nat /\ req[p].since <= c /\ c <= req[p].upTo
<1> DEFINE q == req[p]
<1>1. q \in Request /\ Asked(p) /\ q.pc # "idle"
  BY Numeric DEF Feed
<1>2. q.since \in Nat /\ q.upTo \in Nat /\ q.since <= q.upTo /\ q.sent \subseteq Rows
  BY <1>1 DEF Asked, Request
<1>3. \A x \in q.sent : q.got[x].seq \in Nat /\ q.since < q.got[x].seq
                        /\ q.got[x].seq <= q.upTo
  BY <1>1 DEF Asked, Request, Library, Copy
<1>4. c = q.upTo \/ \E x \in q.sent : c = q.got[x].seq
  BY DEF Cursors
<1> QED
  BY <1>2, <1>3, <1>4

(* No row lies past a full page and below every cap.                       *)
LEMMA CapBelowCut ==
    ASSUME Feed, NEW p \in Pulls, req[p].pc = "reply", NEW S \in {Own, Shared},
           NEW n \in Nat,
           req[p].limit > 0, Cardinality(req[p].sent \cap S) > req[p].limit,
           \A y \in req[p].sent \cap S : req[p].got[y].seq < n
    PROVE  \E c \in Cursors(req[p]) : c < n
<1> DEFINE q == req[p]
           W == q.sent \cap S
           f == [y \in W |-> q.got[y].seq]
<1>1. q \in Request /\ Asked(p) /\ SentOnce(p) /\ q.pc # "idle"
  BY Numeric DEF Feed
<1>2. /\ \A y \in W : q.got[y].seq \in Nat /\ q.got[y].seq <= q.upTo
      /\ \A y, z \in W : q.got[y].seq = q.got[z].seq => y = z
      /\ q.upTo \in Nat /\ q.limit \in Nat
  BY <1>1, FeedAssumption DEF Asked, SentOnce, Request, Library, Copy
<1>3. IsFiniteSet(W) /\ Cardinality(W) \in Nat
  BY FeedAssumption, FS_Subset, FS_CardinalityType
<1>4. /\ f \in [W -> Nat] /\ \A y \in W : f[y] <= q.upTo
      /\ \A y, z \in W : f[y] = f[z] => y = z
      /\ \A y \in W : f[y] = q.got[y].seq
  BY <1>2
<1>5. PICK y \in W, P \in SUBSET W : /\ Cardinality(P) = q.limit
                                    /\ \A z \in W : z \in P <=> f[z] <= f[y]
  <2>1. 1 <= q.limit /\ q.limit <= Cardinality(W)
    <3>1. q.limit > 0 /\ Cardinality(W) > q.limit
      OBVIOUS
    <3> HIDE DEF W, q
    <3> QED
      BY <3>1, <1>2, <1>3
  <2> HIDE DEF W, f, q
  <2> QED
    BY <2>1, <1>2, <1>3, <1>4, Rank
<1>6. P = {z \in q.sent \cap S : q.got[z].seq <= q.got[y].seq}
  BY <1>4, <1>5
<1>7. q.got[y].seq \in Cursors(q)
  <2> DEFINE full(C) == {v \in q.sent \cap C :
               /\ q.limit > 0 /\ Cardinality(q.sent \cap C) > q.limit
               /\ Cardinality({z \in q.sent \cap C : q.got[z].seq <= q.got[v].seq})
                     = q.limit}
             caps(C) == {q.got[v].seq : v \in full(C)}
  <2>1. y \in full(S)
    BY <1>5, <1>6
  <2>2. q.got[y].seq \in caps(S)
    <3> HIDE DEF full
    <3> QED
      BY <2>1
  <2>3. Cursors(q) = {q.upTo} \cup UNION {caps(C) : C \in {Own, Shared}}
    BY DEF Cursors
  <2> HIDE DEF caps
  <2> QED
    BY <2>2, <2>3
<1> QED
  BY <1>7

(* What the client receives closes the gap from where it asked.            *)
LEMMA AnswerCloses ==
    ASSUME Feed, NEW p \in Pulls, req[p].pc = "reply", NEW c \in Cursors(req[p]),
           \A other \in Cursors(req[p]) : c <= other
    PROVE  LET q == req[p]
               answer == Answer(q, c)
           IN  /\ answer \in Reply /\ answer.seq = c /\ answer.rebuild = q.rebuild
               /\ \A x \in answer.sent : /\ q.since < answer.got[x].seq
                                         /\ answer.got[x].seq <= c
               /\ \A x \in Settled : row[x].seq <= c =>
                     IF x \in answer.sent THEN answer.got[x] = AsSent(x)
                     ELSE row[x].seq <= q.since
<1> DEFINE q == req[p]
           sent == {x \in q.sent : q.got[x].seq <= c}
           got == [x \in Rows |-> IF x \in sent THEN q.got[x] ELSE Nothing]
           answer == Answer(q, c)
<1>1. q \in Request /\ Asked(p) /\ SentOnce(p) /\ SentOrCut(p) /\ q.pc # "idle"
  BY Numeric DEF Feed
<1>2. c \in Nat /\ q.since <= c /\ c <= q.upTo /\ q.since \in Nat /\ q.upTo \in Nat
  BY <1>1, CursorRange DEF Request
<1>3. sent \subseteq Rows /\ sent \subseteq q.sent /\ got \in Library
      /\ q.rebuild \in BOOLEAN
  <2>1. q.sent \subseteq Rows /\ q.got \in Library /\ q.rebuild \in BOOLEAN
    BY <1>1 DEF Request
  <2>2. got \in Library
    BY <2>1, CopyTypes DEF Library
  <2> QED
    BY <2>1, <2>2
<1>4. answer = [sent |-> sent, seq |-> c, rebuild |-> q.rebuild, got |-> got]
  BY DEF Answer
<1>5. /\ answer.sent = sent /\ answer.seq = c /\ answer.rebuild = q.rebuild
      /\ answer.got = got /\ answer \in Reply
  <2> HIDE DEF sent, got, answer, q
  <2> QED
    BY <1>2, <1>3, <1>4 DEF Reply
<1>6. \A x \in sent : /\ x \in Rows /\ got[x] = q.got[x] /\ got[x].seq <= c
                      /\ q.since < got[x].seq
  BY <1>1, <1>3 DEF Asked
<1>7. ASSUME NEW x \in Settled, row[x].seq <= c
      PROVE  IF x \in sent THEN got[x] = AsSent(x) ELSE row[x].seq <= q.since
  <2>1. x \in Rows /\ row[x].seq \in Nat /\ x \notin missed
    <3>1. SyncTypeOK /\ x \in Rows /\ x \notin missed
      BY DEF Feed, Settled
    <3> QED
      BY <3>1, Numeric
  <2>2. CASE row[x].seq <= q.since
    <3>1. x \notin sent
      <4>1. SUFFICES ASSUME x \in sent PROVE FALSE
        OBVIOUS
      <4>2. \/ row[x].seq = q.got[x].seq
            \/ row[x].seq > q.upTo
            \/ row[x].seq = 0 /\ x \in missed
        BY <4>1, <1>1 DEF SentOnce
      <4>3. q.got[x].seq \in Nat /\ q.since < q.got[x].seq
        BY <4>1, <2>1, <1>1, <1>6 DEF Request, Library, Copy
      <4> HIDE DEF sent, got, q, answer
      <4> QED
        BY <4>2, <4>3, <2>1, <2>2, <1>2, <1>7
    <3> QED
      BY <3>1, <2>2
  <2>3. CASE q.since < row[x].seq
    <3>1. PICK S \in {Own, Shared} : x \in S
      BY <2>1 DEF Rows
    <3>2. x \in S \cap Read(q) \cap Settled /\ row[x].seq <= q.upTo
      BY <3>1, <2>1, <1>2, <1>7 DEF Read
    <3>3. CASE x \in q.sent /\ q.got[x] = AsSent(x)
      <4>1. q.got[x].seq = row[x].seq
        BY <3>3 DEF AsSent
      <4> QED
        BY <4>1, <3>3, <1>3, <1>6, <1>7
    <3>4. CASE /\ q.limit > 0 /\ Cardinality(q.sent \cap S) > q.limit
               /\ \A y \in q.sent \cap S : q.got[y].seq < row[x].seq
      <4>1. PICK cap \in Cursors(q) : cap < row[x].seq
        BY <3>4, <2>1, CapBelowCut
      <4>2. cap \in Nat /\ c <= cap
        BY CursorRange
      <4> QED
        BY <4>1, <4>2, <2>1, <1>2, <1>7
    <3> QED
      BY <3>2, <3>3, <3>4, <2>3, <1>1 DEF SentOrCut
  <2> QED
    BY <2>1, <2>2, <2>3, <1>2
<1> QED
  BY <1>5, <1>6, <1>7

LEMMA DeliverKeepsFeed ==
    ASSUME Feed, NEW t, NEW p, Tabs = {t}, Pulls = {p}, TabOf(p) = t, Deliver(p)
    PROVE  Feed'
<1> DEFINE q == req[p]
<1>1. /\ SyncTypeOK /\ Numbers /\ q.pc = "reply" /\ q \in Request
      /\ UNCHANGED serverVars /\ UNCHANGED <<open, cache>>
      /\ req' = [req EXCEPT ![p] = Idle]
      /\ Asked(p) /\ InStep(p) /\ Mirrors /\ FeedComplete
  BY Numeric DEF Feed, Deliver
<1>pick. PICK c \in Cursors(req[p]) :
        /\ \A other \in Cursors(req[p]) : c <= other
        /\ lib' = [lib EXCEPT ![TabOf(p)] = [x \in Rows |->
              IF x \in Answer(req[p], c).sent THEN Kept(Answer(req[p], c).got[x])
              ELSE IF req[p].rebuild \/ cursor[TabOf(p)] = 0 THEN Nothing ELSE @[x]]]
        /\ cursor' = [cursor EXCEPT ![TabOf(p)] = c]
        /\ pend' = [pend EXCEPT ![p] = {Answer(req[p], c)}]
  BY Zenon DEF Deliver
<1>2. /\ c \in Cursors(q)
      /\ \A other \in Cursors(q) : c <= other
      /\ lib' = [lib EXCEPT ![t] = [x \in Rows |->
              IF x \in Answer(q, c).sent THEN Kept(Answer(q, c).got[x])
              ELSE IF q.rebuild \/ cursor[t] = 0 THEN Nothing ELSE lib[t][x]]]
      /\ cursor' = [cursor EXCEPT ![t] = c]
      /\ pend' = [pend EXCEPT ![p] = {Answer(q, c)}]
  BY <1>pick, <1>1 DEF SyncTypeOK
<1>since. q.since = 0 <=> q.rebuild \/ cursor[t] = 0
  BY <1>1 DEF Asked
<1> DEFINE answer == Answer(q, c)
           shown == [x \in Rows |-> IF x \in answer.sent THEN Kept(answer.got[x])
                                   ELSE IF q.since = 0 THEN Nothing ELSE lib[t][x]]
<1>3. /\ answer \in Reply /\ answer.seq = c /\ answer.rebuild = q.rebuild
      /\ \A x \in answer.sent : q.since < answer.got[x].seq /\ answer.got[x].seq <= c
      /\ \A x \in Settled : row[x].seq <= c =>
            IF x \in answer.sent THEN answer.got[x] = AsSent(x)
            ELSE row[x].seq <= q.since
  BY <1>1, <1>2, AnswerCloses
<1>4. c \in Nat /\ c <= last /\ q.since \in Nat /\ last \in Nat
  <2>1. c \in Nat /\ c <= q.upTo
    BY <1>1, <1>2, CursorRange
  <2>2. q.upTo <= last
    BY <1>1 DEF Asked
  <2> QED
    BY <2>1, <2>2, <1>1, Numeric DEF Request
<1>5. shown \in Library
  <2>1. lib[t] \in Library /\ answer.got \in Library
    BY <1>1, <1>3 DEF SyncTypeOK, Reply
  <2> HIDE DEF answer, q
  <2>2. \A x \in Rows : lib[t][x] \in Copy /\ Kept(answer.got[x]) \in Copy
    BY <2>1, CopyTypes DEF Library
  <2> QED
    BY <2>2, CopyTypes DEF Library
<1>6. /\ t \in open /\ pend[p] = {} /\ cursor[t] = cache.seq
      /\ q.since = IF q.rebuild THEN 0 ELSE cursor[t]
  BY <1>1 DEF Asked, InStep
<1>7. /\ lib' = [lib EXCEPT ![t] = shown] /\ cursor' = [cursor EXCEPT ![t] = c]
      /\ pend' = [pend EXCEPT ![p] = {answer}]
  BY <1>2, <1>since
<1> HIDE DEF answer, shown, q
<1>8. lib'[t] = shown /\ cursor'[t] = c /\ pend'[p] = {answer}
  BY <1>1, <1>7 DEF SyncTypeOK
<1>9. Idle \in Request /\ Idle.pc = "idle"
  BY FeedAssumption, CopyTypes DEF Idle, Request
<1>10. req' \in [Pulls -> Request] /\ req'[p] = Idle
  BY <1>1, <1>9 DEF SyncTypeOK
<1>11. SyncTypeOK'
  <2>1. lib' \in [Tabs -> Library] /\ pend' \in [Pulls -> SUBSET Reply]
    BY <1>1, <1>3, <1>5, <1>7 DEF SyncTypeOK
  <2>2. c \in 0..last
    BY <1>4
  <2>3. cursor' \in [Tabs -> 0..last]
    BY <1>1, <1>7, <2>2 DEF SyncTypeOK
  <2> QED
    BY <1>1, <1>10, <2>1, <2>3, ServerSame DEF SyncTypeOK
<1>12. Asked(p)' /\ SentOnce(p)' /\ SentOrCut(p)'
  BY <1>9, <1>10 DEF Asked, SentOnce, SentOrCut
<1>13. InStep(p)'
  BY <1>1, <1>6, <1>8 DEF InStep
<1>14. Closes(p)'
  <2> DEFINE from == IF answer.rebuild THEN 0 ELSE cache.seq
  <2>1. from = q.since /\ from <= c
    <3>1. q.since <= c
      BY <1>1, <1>2, CursorRange DEF q
    <3> QED
      BY <3>1, <1>3, <1>6
  <2>2. /\ answer.seq = cursor'[t] /\ from <= answer.seq
        /\ \A x \in answer.sent : from < answer.got[x].seq
        /\ \A x \in answer.sent : answer.got[x].seq <= answer.seq
        /\ \A x \in Settled : row[x].seq <= answer.seq =>
              IF x \in answer.sent THEN answer.got[x] = AsSent(x)
              ELSE row[x].seq <= from
    BY <2>1, <1>3, <1>8
  <2> QED
    BY <2>2, <1>1, <1>8, ServerSame DEF Closes
<1>15. FeedComplete'
  <2>1. SUFFICES ASSUME NEW x \in Settled, row[x].seq <= c
                 PROVE  shown[x] = Shown(x)
    BY <1>1, <1>6, <1>8, ServerSame DEF FeedComplete, SyncTypeOK
  <2>2. x \in Rows /\ row[x].seq \in Nat
    <3>1. x \in Rows
      BY DEF Settled
    <3> QED
      BY <3>1, <1>1, Numeric
  <2>3. CASE x \in answer.sent
    <3>1. answer.got[x] = AsSent(x) /\ q.since < answer.got[x].seq
      BY <2>1, <2>3, <1>3
    <3>2. row[x].seq # 0
      BY <3>1, <2>2, <1>4 DEF AsSent
    <3> QED
      BY <3>1, <3>2, <2>2, <2>3 DEF shown, Shown
  <2>4. CASE x \notin answer.sent
    <3>1. row[x].seq <= q.since
      BY <2>1, <2>4, <1>3
    <3>2. CASE q.since = 0
      BY <3>1, <3>2, <2>2, <2>4 DEF shown, Shown
    <3>3. CASE q.since # 0
      <4>1. row[x].seq <= cursor[t]
        BY <3>1, <3>3, <1>6
      <4>2. lib[t][x] = Shown(x)
        BY <4>1, <1>1, <1>6, <2>1 DEF FeedComplete
      <4> QED
        BY <4>2, <3>3, <2>2, <2>4 DEF shown
    <3> QED
      BY <3>2, <3>3
  <2> QED
    BY <2>3, <2>4
<1>16. Mirrors'
  BY <1>1, ServerSame DEF Mirrors
<1> QED
  BY <1>1, <1>11, <1>12, <1>13, <1>14, <1>15, <1>16, ServerSame DEF Feed

-----------------------------------------------------------------------------
(* The client keeps it: the cache and the tab *)

LEMMA FoldedTypes ==
    ASSUME NEW prior \in Copy, NEW answer \in Reply, NEW x \in Rows
    PROVE  Folded(prior, answer, x) \in Copy
BY CopyTypes DEF Folded, Reply, Library

LEMMA StoreRowsKeepsFeed ==
    ASSUME Feed, NEW t, NEW p, Tabs = {t}, Pulls = {p}, TabOf(p) = t, StoreRows(p)
    PROVE  Feed'
<1> DEFINE Prior(a) == IF a.rebuild THEN [seq |-> 0, rows |-> Empty] ELSE cache
<1>1. PICK answer \in pend[p] :
        cache' = [seq |-> IF Prior(answer).seq < answer.seq THEN answer.seq
                          ELSE Prior(answer).seq,
                  rows |-> [x \in Rows |->
                               Folded(Prior(answer).rows[x], answer, x)]]
  BY DEF StoreRows
<1> DEFINE prior == Prior(answer)
<1>2. /\ SyncTypeOK /\ Numbers /\ UNCHANGED serverVars
      /\ UNCHANGED <<open, lib, cursor, req>> /\ pend' = [pend EXCEPT ![p] = {}]
      /\ Asked(p) /\ SentOnce(p) /\ SentOrCut(p) /\ InStep(p) /\ Closes(p)
      /\ Mirrors /\ FeedComplete
  BY DEF Feed, StoreRows
<1>3. /\ answer \in Reply /\ answer.seq \in Nat /\ answer.got \in Library
      /\ pend'[p] = {} /\ pend' \in [Pulls -> SUBSET Reply]
  <2>1. answer \in Reply
    BY <1>2 DEF SyncTypeOK
  <2> QED
    BY <2>1, <1>2 DEF SyncTypeOK, Reply
<1>4. /\ prior.seq = IF answer.rebuild THEN 0 ELSE cache.seq
      /\ prior.rows = IF answer.rebuild THEN Empty ELSE cache.rows
      /\ prior.seq \in Nat /\ prior.rows \in Library
  BY <1>2, Numeric, CopyTypes DEF SyncTypeOK
<1> HIDE DEF prior
<1>5. /\ answer.seq = cursor[t] /\ prior.seq <= answer.seq
      /\ \A x \in answer.sent : prior.seq < answer.got[x].seq
      /\ \A x \in answer.sent : answer.got[x].seq <= answer.seq
      /\ \A x \in Settled : row[x].seq <= answer.seq =>
            IF x \in answer.sent THEN answer.got[x] = AsSent(x)
            ELSE row[x].seq <= prior.seq
  BY <1>2, <1>4 DEF Closes
<1>6. cache' = [seq |-> answer.seq,
                rows |-> [x \in Rows |-> Folded(prior.rows[x], answer, x)]]
  <2>1. (IF prior.seq < answer.seq THEN answer.seq ELSE prior.seq) = answer.seq
    BY <1>3, <1>4, <1>5
  <2> QED
    BY <1>1, <2>1 DEF prior
<1>7. /\ cache'.seq = answer.seq
      /\ \A x \in Rows : cache'.rows[x] = Folded(prior.rows[x], answer, x)
  BY <1>6
<1>8. /\ \A x \in Rows : /\ prior.rows[x] \in Copy /\ prior.rows[x].seq \in Nat
                         /\ prior.rows[x].seq <= prior.seq
      /\ \A x \in Settled : row[x].seq <= prior.seq => prior.rows[x] = Shown(x)
  <2>1. \A x \in Rows : prior.rows[x] \in Copy /\ prior.rows[x].seq \in Nat
    BY <1>4 DEF Library, Copy
  <2>2. CASE answer.rebuild
    <3>1. \A x \in Rows : prior.rows[x] = Nothing /\ Nothing.seq = 0
      BY <2>2, <1>4 DEF Empty, Nothing
    <3>2. \A x \in Settled : x \in Rows /\ row[x].seq \in Nat
      <4>1. Settled \subseteq Rows
        BY DEF Settled
      <4> QED
        BY <4>1, <1>2, Numeric
    <3>3. \A x \in Settled : row[x].seq <= prior.seq => Shown(x) = Nothing
      BY <2>2, <3>2, <1>4 DEF Shown
    <3> QED
      BY <2>1, <3>1, <3>2, <3>3, <1>4
  <2>3. CASE ~answer.rebuild
    BY <2>1, <2>3, <1>2, <1>4 DEF Mirrors
  <2> QED
    BY <2>2, <2>3
<1>9. SyncTypeOK'
  <2>1. [x \in Rows |-> Folded(prior.rows[x], answer, x)] \in Library
    BY <1>3, <1>8, FoldedTypes DEF Library
  <2>2. answer.seq \in 0..last
    BY <1>2, <1>3, <1>5 DEF SyncTypeOK
  <2>3. cache' \in [seq : 0..last, rows : Library]
    BY <2>1, <2>2, <1>6
  <2> QED
    BY <2>3, <1>2, <1>3, ServerSame DEF SyncTypeOK
<1>10. Mirrors'
  <2>1. ASSUME NEW x \in Rows PROVE cache'.rows[x].seq <= cache'.seq
    <3>1. /\ x \in answer.sent => answer.got[x].seq <= answer.seq
          /\ prior.rows[x].seq <= answer.seq
      BY <1>3, <1>4, <1>5, <1>8
    <3>2. Nothing.seq = 0
      BY DEF Nothing
    <3> QED
      BY <3>1, <3>2, <1>3, <1>7 DEF Folded
  <2>2. ASSUME NEW x \in Settled, row[x].seq <= answer.seq
        PROVE  cache'.rows[x] = Shown(x)
    <3>1. x \in Rows /\ row[x].seq \in Nat
      <4>1. x \in Rows
        BY DEF Settled
      <4> QED
        BY <4>1, <1>2, Numeric
    <3>2. CASE x \in answer.sent
      <4>1. answer.got[x] = AsSent(x) /\ prior.seq < answer.got[x].seq
        BY <2>2, <3>2, <1>5
      <4>2. row[x].seq # 0 /\ prior.rows[x].seq < answer.got[x].seq
        BY <4>1, <3>1, <1>4, <1>8 DEF AsSent
      <4> QED
        BY <4>1, <4>2, <3>1, <3>2, <1>7 DEF Folded, Shown, Kept
    <3>3. CASE x \notin answer.sent
      BY <3>1, <3>3, <2>2, <1>5, <1>7, <1>8 DEF Folded
    <3> QED
      BY <3>2, <3>3
  <2> QED
    BY <2>1, <2>2, <1>2, <1>7, ServerSame DEF Mirrors, Rows
<1>11. req[p].pc = "idle" /\ t \in open
  BY <1>1, <1>2 DEF Asked, InStep
<1>12. Asked(p)' /\ SentOnce(p)' /\ SentOrCut(p)'
  BY <1>2, <1>11 DEF Asked, SentOnce, SentOrCut
<1>13. InStep(p)' /\ Closes(p)'
  BY <1>2, <1>3, <1>5, <1>7, <1>11 DEF InStep, Closes
<1>14. FeedComplete'
  BY <1>2, ServerSame DEF FeedComplete
<1> QED
  BY <1>2, <1>9, <1>10, <1>12, <1>13, <1>14, ServerSame DEF Feed

LEMMA OpenTabKeepsFeed ==
    ASSUME Feed, NEW t, NEW p, Tabs = {t}, Pulls = {p}, TabOf(p) = t, OpenTab(t)
    PROVE  Feed'
<1> DEFINE shown == IF cache.seq > 0 THEN cache.rows ELSE Empty
<1>1. /\ SyncTypeOK /\ Numbers /\ UNCHANGED serverVars /\ UNCHANGED <<req, pend, cache>>
      /\ open' = open \cup {t} /\ cursor' = [cursor EXCEPT ![t] = cache.seq]
      /\ lib' = [lib EXCEPT ![t] = shown]
      /\ InStep(p) /\ Mirrors /\ req[p].pc = "idle" /\ pend[p] = {}
  BY DEF Feed, OpenTab, InStep
<1>2. shown \in Library /\ cache.seq \in 0..last /\ cache.seq \in Nat
  BY <1>1, CopyTypes, Numeric DEF SyncTypeOK
<1> HIDE DEF shown
<1>3. lib'[t] = shown /\ cursor'[t] = cache.seq
  BY <1>1 DEF SyncTypeOK
<1>4. SyncTypeOK'
  BY <1>1, <1>2, ServerSame DEF SyncTypeOK
<1>5. Asked(p)' /\ SentOnce(p)' /\ SentOrCut(p)'
  BY <1>1 DEF Asked, SentOnce, SentOrCut
<1>6. InStep(p)' /\ Closes(p)'
  BY <1>1, <1>3 DEF InStep, Closes
<1>7. FeedComplete'
  <2>1. SUFFICES ASSUME NEW x \in Settled, row[x].seq <= cache.seq
                 PROVE  shown[x] = Shown(x)
    BY <1>1, <1>3, ServerSame DEF FeedComplete, SyncTypeOK
  <2>2. CASE cache.seq > 0
    BY <2>1, <2>2, <1>1 DEF Mirrors, shown
  <2>3. CASE cache.seq = 0
    <3>1. x \in Rows
      BY DEF Settled
    <3>2. row[x].seq = 0
      BY <3>1, <2>1, <2>3, <1>1, Numeric
    <3> QED
      BY <3>1, <3>2, <2>3 DEF shown, Shown, Empty
  <2> QED
    BY <2>2, <2>3, <1>2
<1>8. Mirrors'
  BY <1>1, ServerSame DEF Mirrors
<1> QED
  BY <1>1, <1>4, <1>5, <1>6, <1>7, <1>8, ServerSame DEF Feed

(* The tab goes, and the cache stays or is cleared with it.                *)
LEMMA ClosingKeepsFeed ==
    ASSUME Feed, NEW t, NEW p, Tabs = {t}, Pulls = {p}, TabOf(p) = t, CloseTab(t) \/ SignOut(t)
    PROVE  Feed'
<1>1. /\ SyncTypeOK /\ Numbers /\ UNCHANGED serverVars
      /\ open' = open \ {t} /\ cursor' = [cursor EXCEPT ![t] = 0]
      /\ lib' = [lib EXCEPT ![t] = Empty] /\ req' = [r \in Pulls |-> Idle]
      /\ pend' = [r \in Pulls |-> {}] /\ Mirrors
      /\ cache' = cache \/ cache' = [seq |-> 0, rows |-> Empty]
  BY DEF Feed, CloseTab, SignOut, Leave
<1>2. Idle \in Request /\ Idle.pc = "idle"
  BY FeedAssumption, CopyTypes DEF Idle, Request
<1>3. req' \in [Pulls -> Request] /\ req'[p] = Idle /\ pend'[p] = {} /\ open' = {}
  BY <1>1, <1>2 DEF SyncTypeOK
<1>4. last \in Nat /\ 0 \in 0..last
  BY <1>1, Numeric
<1>5. SyncTypeOK'
  <2>1. cache' \in [seq : 0..last, rows : Library]
    BY <1>1, <1>4, CopyTypes DEF SyncTypeOK
  <2> QED
    BY <1>1, <1>3, <1>4, <2>1, CopyTypes, ServerSame DEF SyncTypeOK
<1>6. Asked(p)' /\ SentOnce(p)' /\ SentOrCut(p)'
  BY <1>2, <1>3 DEF Asked, SentOnce, SentOrCut
<1>7. InStep(p)' /\ Closes(p)' /\ FeedComplete'
  BY <1>2, <1>3 DEF InStep, Closes, FeedComplete
<1>8. Mirrors'
  <2>1. CASE cache' = cache
    BY <2>1, <1>1, ServerSame DEF Mirrors
  <2>2. CASE cache' = [seq |-> 0, rows |-> Empty]
    <3>1. \A x \in Rows : Empty[x] = Nothing /\ Nothing.seq = 0
      BY DEF Empty, Nothing
    <3>2. Settled \subseteq Rows /\ \A x \in Rows : row[x].seq \in Nat
      BY <1>1, Numeric DEF Settled
    <3>3. \A x \in Settled : row[x].seq <= 0 => Shown(x) = Nothing
      BY <3>2 DEF Shown
    <3>4. cache'.seq = 0 /\ cache'.rows = Empty
      BY <2>2
    <3> QED
      BY <3>1, <3>2, <3>3, <3>4, <1>1, ServerSame DEF Mirrors, Rows
  <2> QED
    BY <2>1, <2>2, <1>1
<1> QED
  BY <1>1, <1>5, <1>6, <1>7, <1>8, ServerSame DEF Feed

-----------------------------------------------------------------------------
(* The theorems *)

(* One tab over the browser's cache, and one pull of it at a time.         *)
OneAtATime == \E t, lane : Tabs = {t} /\ Lanes = {lane}

LEMMA OnePull ==
    ASSUME OneAtATime PROVE \E t, p : Tabs = {t} /\ Pulls = {p} /\ TabOf(p) = t
<1>1. PICK t, lane : Tabs = {t} /\ Lanes = {lane}
  BY DEF OneAtATime
<1>2. Pulls = {<<t, lane>>} /\ TabOf(<<t, lane>>) = t
  BY <1>1 DEF Pulls, TabOf
<1> QED
  BY <1>1, <1>2

LEMMA FeedInit == ASSUME Init PROVE Feed
<1>1. /\ last = 0 /\ touching = {} /\ missed = {} /\ open = {}
      /\ sharer = [x \in Shared |-> "idle"]
      /\ lib = [t \in Tabs |-> Empty] /\ cursor = [t \in Tabs |-> 0]
      /\ req = [p \in Pulls |-> Idle] /\ pend = [p \in Pulls |-> {}]
      /\ cache = [seq |-> 0, rows |-> Empty]
  BY DEF Init
<1>2. row \in [Rows -> Row] /\ \A x \in Rows : row[x].seq = 0
  BY DEF Init, Row
<1>3. Idle \in Request /\ Idle.pc = "idle"
  BY FeedAssumption, CopyTypes DEF Idle, Request
<1>4. SyncTypeOK
  <2>1. 0 \in 0..last
    BY <1>1
  <2>2. cursor \in [Tabs -> 0..last] /\ cache \in [seq : 0..last, rows : Library]
    BY <2>1, <1>1, CopyTypes
  <2>3. lib \in [Tabs -> Library] /\ req \in [Pulls -> Request]
        /\ pend \in [Pulls -> SUBSET Reply]
    BY <1>1, <1>3, CopyTypes
  <2> QED
    BY <2>2, <2>3, <1>1, <1>2 DEF SyncTypeOK
<1>5. Numbers
  BY <1>1, <1>2 DEF Numbers
<1>6. ASSUME NEW p \in Pulls
      PROVE  Asked(p) /\ SentOnce(p) /\ SentOrCut(p) /\ InStep(p) /\ Closes(p)
  <2>1. req[p].pc = "idle" /\ pend[p] = {} /\ TabOf(p) \notin open
    BY <1>1, <1>3
  <2> QED
    BY <2>1 DEF Asked, SentOnce, SentOrCut, InStep, Closes
<1>7. Mirrors /\ FeedComplete
  <2>1. \A x \in Rows : Empty[x] = Nothing /\ Nothing.seq = 0 /\ Shown(x) = Nothing
    BY <1>2 DEF Empty, Nothing, Shown
  <2>2. Settled \subseteq Rows /\ cache.seq = 0 /\ cache.rows = Empty
    BY <1>1 DEF Settled
  <2> QED
    BY <1>1, <2>1, <2>2 DEF Mirrors, FeedComplete
<1> QED
  BY <1>4, <1>5, <1>6, <1>7 DEF Feed

LEMMA FeedStep == ASSUME OneAtATime, Feed, [Next]_vars PROVE Feed'
<1>1. PICK t, p : Tabs = {t} /\ Pulls = {p} /\ TabOf(p) = t
  BY OnePull
<1>2. CASE UNCHANGED vars
  <2>1. UNCHANGED serverVars /\ UNCHANGED <<open, lib, cursor, req, pend, cache>>
    BY <1>2 DEF vars, clientVars
  <2>2. SyncTypeOK'
    BY <2>1, ServerSame DEF Feed, SyncTypeOK
  <2>3. Asked(p)' /\ InStep(p)' /\ Closes(p)'
    BY <1>1, <2>1, ServerSame DEF Feed, Asked, InStep, Closes, Read
  <2>4. SentOnce(p)' /\ SentOrCut(p)'
    <3>1. SentOnce(p) /\ SentOrCut(p)
      BY <1>1 DEF Feed
    <3>2. UNCHANGED <<row, missed, req>> /\ Settled' = Settled
          /\ \A x : AsSent(x)' = AsSent(x)
      BY <2>1, ServerSame
    <3>3. SentOnce(p)'
      BY <3>1, <3>2 DEF SentOnce
    <3>4. SentOrCut(p)'
      BY <3>1, <3>2 DEF SentOrCut, Read
    <3> QED
      BY <3>3, <3>4
  <2>5. Mirrors' /\ FeedComplete'
    BY <2>1, ServerSame DEF Feed, Mirrors, FeedComplete
  <2> QED
    BY <1>1, <2>1, <2>2, <2>3, <2>4, <2>5, ServerSame DEF Feed
<1>3. CASE ServerNext
  <2>1. UNCHANGED clientVars
    BY <1>3 DEF ServerNext, ChangeOwn, ReadMembers, CommitChange, Grant,
                ChangeMember, TouchMember, LoseTouch, TrashFolder, DeleteSharer
  <2>2. ServerStep
    BY <1>3, ServerSteps DEF Feed
  <2> QED
    BY <2>1, <2>2, ServerKeepsFeed
<1>4. CASE ClientNext
  <2>1. ASSUME NEW limit \in Limits, NEW rebuild \in BOOLEAN,
               StartSync(p, limit, rebuild)
        PROVE  Feed'
    BY <1>1, <2>1, StartSyncKeepsFeed
  <2>2. ASSUME QueryOwn(p) \/ QueryShared(p) PROVE Feed'
    BY <1>1, <2>2, QueryKeepsFeed DEF QueryOwn, QueryShared
  <2>3. ASSUME Deliver(p) \/ FailSync(p) PROVE Feed'
    BY <1>1, <2>3, DeliverKeepsFeed, FailSyncKeepsFeed
  <2>4. ASSUME StoreRows(p) \/ OpenTab(t) PROVE Feed'
    BY <1>1, <2>4, StoreRowsKeepsFeed, OpenTabKeepsFeed
  <2>5. ASSUME CloseTab(t) \/ SignOut(t) PROVE Feed'
    BY <1>1, <2>5, ClosingKeepsFeed
  <2> QED
    BY <1>1, <1>4, <2>1, <2>2, <2>3, <2>4, <2>5 DEF ClientNext
<1> QED
  BY <1>2, <1>3, <1>4 DEF Next

LEMMA FeedInvariant == ASSUME OneAtATime PROVE Spec => []Feed
<1>1. Init => Feed
  BY FeedInit
<1>2. Feed /\ [Next]_vars => Feed'
  BY FeedStep
<1> QED
  BY <1>1, <1>2, PTL DEF Spec

(* No client is ahead of the account's counter, and rows, requests and      *)
(* caches are what the protocol's types say.                               *)
THEOREM SyncTypeCorrect == ASSUME OneAtATime PROVE Spec => []SyncTypeOK
<1>1. Feed => SyncTypeOK
  BY DEF Feed
<1> QED
  BY <1>1, FeedInvariant, PTL

(* Whatever the statements of a request interleave with, whatever the page  *)
(* sizes and wherever the collections are cut, a tab that took an answer    *)
(* holds every settled row up to its cursor as it is now.                  *)
THEOREM PullsAreComplete == ASSUME OneAtATime PROVE Spec => []FeedComplete
<1>1. Feed => FeedComplete
  BY DEF Feed
<1> QED
  BY <1>1, FeedInvariant, PTL

=============================================================================
