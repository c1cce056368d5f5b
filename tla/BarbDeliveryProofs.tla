------------------------- MODULE BarbDeliveryProofs -------------------------
(***************************************************************************)
(* Proofs about the delivery of run cards.                                 *)
(*                                                                         *)
(* The outbox, for every set of keys, every bound, claim limit and         *)
(* backoff, with storage errors and crashes anywhere: cards of a key go    *)
(* out in version order, the undelivered rows stay within both bounds, and *)
(* no row leaves the table unaccounted for.  Every transaction on the      *)
(* table is an insertion, a deletion or a rewrite of rows that keeps their *)
(* identity, so the invariants are proved once for each of the three and   *)
(* the actions are shown to be one of them.                                *)
(*                                                                         *)
(* Replica, network and authority together: the replica is that outbox,    *)
(* the hub is a BarbAuthority, and what is marked delivered is committed.  *)
(***************************************************************************)
EXTENDS BarbDelivery, FiniteSetTheorems, NaturalsInduction, WellFoundedInduction, TLAPS

\* outbox_id is a primary key, and rows are numbered in order of insertion.
RowsNumbered ==
    /\ \A x \in rows : x.id <= lastId
    /\ \A x, y \in rows : x.id = y.id => x = y

\* The entries a pass has claimed and not settled are in flight, and only a
\* pass under way has any.
BatchInFlight ==
    /\ \A i \in batch : \E x \in rows : x.id = i /\ x.status = "delivering"
    /\ loop = "releasing" => batch # {}
    /\ loop \in {"down", "dead"} => batch = {}

IInv ==
    /\ TypeOK
    /\ RowsNumbered
    /\ BatchInFlight
    /\ LowerVersionsFirst
    /\ IsFiniteSet(rows)
    /\ WithinBounds

-----------------------------------------------------------------------------
(* Sets of numbers.                                                         *)

\* A non-empty set of numbers has a least element.
LEMMA LeastId == ASSUME NEW S \in SUBSET Nat, S # {} PROVE \E i \in S : \A j \in S : i <= j
<1> DEFINE R == OpToRel(<, Nat)
<1>1. IsWellFoundedOn(R, Nat)
  BY NatLessThanWellFounded
<1>2. \E i \in S : \A j \in S : <<j, i>> \notin R
  <2> HIDE DEF R
  <2> QED BY <1>1, WFMin
<1>3. R = {ss \in Nat \X Nat : ss[1] < ss[2]}
  BY Zenon DEF OpToRel
<1> HIDE DEF R
<1>4. \A i, j \in Nat : j < i => <<j, i>> \in R
  BY <1>3
<1>5. \A i, j \in Nat : i <= j \/ j < i
  OBVIOUS
<1> QED BY <1>2, <1>4, <1>5

\* Induction: a set of numbers with 0 and, with every number, the next one.
LEMMA Inductive ==
    ASSUME NEW Q \in SUBSET Nat, 0 \in Q, \A n \in Q : n + 1 \in Q
    PROVE  Q = Nat
<1> SUFFICES ASSUME Nat \ Q # {} PROVE FALSE
  OBVIOUS
<1>1. PICK m \in Nat \ Q : \A j \in Nat \ Q : m <= j
  <2>1. Nat \ Q \in SUBSET Nat
    OBVIOUS
  <2> QED BY <2>1, LeastId
<1>2. m # 0 /\ m - 1 \in Nat /\ ~ (m <= m - 1)
  BY <1>1
<1>3. m - 1 \in Q
  BY <1>1, <1>2
<1>4. (m - 1) + 1 = m
  BY <1>1
<1> QED BY <1>1, <1>3, <1>4

-----------------------------------------------------------------------------
(* Bytes.                                                                   *)

Any(s) == CHOOSE x \in s : TRUE
Sized(S) == IsFiniteSet(S) /\ \A x \in S : x.size \in Nat

\* g adds up the sizes of the members of s, taken in the order of Any, given the
\* sums of smaller sets.
Adds(g, s) == g[s] = IF s = {} THEN 0 ELSE Any(s).size + g[s \ {Any(s)}]
Summed(S, g) == \A s \in SUBSET S : Adds(g, s)

\* Taking a member out of a finite set of sized rows.
LEMMA OneLess ==
    ASSUME NEW S, Sized(S), NEW c \in S
    PROVE  /\ Sized(S \ {c}) /\ Cardinality(S) \in Nat /\ Cardinality(S \ {c}) \in Nat
           /\ Cardinality(S) = Cardinality(S \ {c}) + 1
<1>1. IsFiniteSet(S)
  BY DEF Sized
<1>2. IsFiniteSet(S \ {c}) /\ Cardinality(S \ {c}) = Cardinality(S) - 1
  BY <1>1, FS_RemoveElement
<1>3. Cardinality(S) \in Nat /\ Cardinality(S \ {c}) \in Nat
  BY <1>1, <1>2, FS_CardinalityType
<1>4. Cardinality(S) = Cardinality(S \ {c}) + 1
  BY <1>2, <1>3
<1> QED BY <1>2, <1>3, <1>4 DEF Sized

\* Subsets are sized, with their members among those of the set.
LEMMA SizedSubset ==
    ASSUME NEW S, Sized(S), NEW T \in SUBSET S
    PROVE  /\ Sized(T) /\ Cardinality(T) \in Nat
           /\ T = {} <=> Cardinality(T) = 0
           /\ T # {} => Any(T) \in T
<1>1. IsFiniteSet(T)
  BY FS_Subset DEF Sized
<1>2. Cardinality(T) \in Nat /\ (T = {} <=> Cardinality(T) = 0)
  BY <1>1, FS_CardinalityType, FS_EmptySet
<1>3. T # {} => Any(T) \in T
  BY DEF Any
<1> QED BY <1>1, <1>2, <1>3 DEF Sized

\* The sums of the subsets of a finite set exist.
LEMMA SumsExist ==
    ASSUME NEW S, Sized(S) PROVE \E g \in [SUBSET S -> Nat] : Summed(S, g)
<1> DEFINE Sub(n) == {s \in SUBSET S : Cardinality(s) <= n}
           Q == {n \in Nat : \E g \in [Sub(n) -> Nat] : \A s \in Sub(n) : Adds(g, s)}
<1>1. 0 \in Q
  <2> DEFINE g == [s \in Sub(0) |-> 0]
  <2>1. \A s \in Sub(0) : s = {}
    BY SizedSubset
  <2>2. g \in [Sub(0) -> Nat] /\ \A s \in Sub(0) : g[s] = 0
    OBVIOUS
  <2> HIDE DEF g
  <2>3. \A s \in Sub(0) : Adds(g, s)
    BY <2>1, <2>2 DEF Adds
  <2> QED BY <2>2, <2>3
<1>2. ASSUME NEW n \in Q PROVE n + 1 \in Q
  <2>1. PICK f \in [Sub(n) -> Nat] : \A s \in Sub(n) : Adds(f, s)
    BY <1>2
  <2> DEFINE g == [s \in Sub(n + 1) |-> IF s = {} THEN 0 ELSE Any(s).size + f[s \ {Any(s)}]]
  <2>2. ASSUME NEW s \in Sub(n + 1), s # {}
        PROVE  Any(s).size \in Nat /\ s \ {Any(s)} \in Sub(n) /\ s \ {Any(s)} \in Sub(n + 1)
    <3>1. Sized(s) /\ Any(s) \in s /\ Cardinality(s) <= n + 1
      BY <2>2, SizedSubset
    <3>2. /\ Cardinality(s) \in Nat /\ Cardinality(s \ {Any(s)}) \in Nat
          /\ Cardinality(s) = Cardinality(s \ {Any(s)}) + 1
      BY <3>1, OneLess
    <3>3. Cardinality(s \ {Any(s)}) <= n /\ Cardinality(s \ {Any(s)}) <= n + 1
      BY <3>1, <3>2
    <3>4. Any(s).size \in Nat
      BY <3>1 DEF Sized
    <3> QED BY <3>3, <3>4
  <2>3. g \in [Sub(n + 1) -> Nat]
    <3>1. \A s \in Sub(n + 1) : s # {} => f[s \ {Any(s)}] \in Nat /\ Any(s).size \in Nat
      BY <2>1, <2>2
    <3> HIDE DEF Sub
    <3> QED BY <3>1
  <2>4. Sub(n) \subseteq Sub(n + 1)
    <3>1. \A s \in SUBSET S : Cardinality(s) \in Nat
      BY SizedSubset
    <3> QED BY <3>1
  <2>5. \A s \in Sub(n + 1) : g[s] = IF s = {} THEN 0 ELSE Any(s).size + f[s \ {Any(s)}]
    OBVIOUS
  <2> HIDE DEF g
  <2>6. \A s \in Sub(n) : g[s] = f[s]
    <3> HIDE DEF Sub
    <3> QED BY <2>1, <2>4, <2>5 DEF Adds
  <2>7. \A s \in Sub(n + 1) : Adds(g, s)
    <3> SUFFICES ASSUME NEW s \in Sub(n + 1) PROVE Adds(g, s)
      OBVIOUS
    <3>1. s # {} => s \ {Any(s)} \in Sub(n)
      BY <2>2
    <3> HIDE DEF Sub
    <3> QED BY <2>5, <2>6, <3>1 DEF Adds
  <2>8. n + 1 \in Nat
    OBVIOUS
  <2> HIDE DEF Sub
  <2> QED BY <2>3, <2>7, <2>8
<1>3. Q \in SUBSET Nat
  OBVIOUS
<1>4. Q = Nat
  <2> HIDE DEF Q
  <2> QED BY <1>1, <1>2, <1>3, Inductive
<1>5. Cardinality(S) \in Nat
  BY FS_CardinalityType DEF Sized
<1>6. Sub(Cardinality(S)) = SUBSET S
  <2> SUFFICES ASSUME NEW s \in SUBSET S PROVE Cardinality(s) <= Cardinality(S)
    OBVIOUS
  <2> QED BY FS_Subset DEF Sized
<1> QED BY <1>4, <1>5, <1>6 DEF Summed

\* Two tables of sums agree where they overlap.
LEMMA SumsAgree ==
    ASSUME NEW S, Sized(S), NEW g, Summed(S, g), NEW T \in SUBSET S, NEW h, Summed(T, h)
    PROVE  g[T] = h[T]
<1> DEFINE Q == {n \in Nat : \A s \in SUBSET T : Cardinality(s) = n => g[s] = h[s]}
<1>1. \A s \in SUBSET T : Adds(g, s) /\ Adds(h, s)
  BY DEF Summed
<1>2. \A s \in SUBSET T : /\ Sized(s) /\ Cardinality(s) \in Nat
                          /\ (s = {} <=> Cardinality(s) = 0) /\ (s # {} => Any(s) \in s)
  BY SizedSubset
<1>3. 0 \in Q
  BY <1>1, <1>2 DEF Adds
<1>4. ASSUME NEW n \in Q PROVE n + 1 \in Q
  <2> SUFFICES ASSUME NEW s \in SUBSET T, Cardinality(s) = n + 1 PROVE g[s] = h[s]
    OBVIOUS
  <2>1. s # {} /\ Any(s) \in s /\ Sized(s)
    BY <1>2
  <2>2. Cardinality(s \ {Any(s)}) = n
    <3>1. /\ Cardinality(s) = Cardinality(s \ {Any(s)}) + 1
          /\ Cardinality(s \ {Any(s)}) \in Nat
      BY <2>1, OneLess
    <3> QED BY <3>1
  <2>3. g[s \ {Any(s)}] = h[s \ {Any(s)}]
    BY <2>2
  <2> QED BY <1>1, <2>1, <2>3 DEF Adds
<1>5. Q \in SUBSET Nat
  OBVIOUS
<1>6. Q = Nat
  <2> HIDE DEF Q
  <2> QED BY <1>3, <1>4, <1>5, Inductive
<1> QED BY <1>2, <1>6

\* Bytes is such a sum.
LEMMA BytesSummed ==
    ASSUME NEW S, Sized(S), NEW g, Summed(S, g)
    PROVE  \A T \in SUBSET S : Bytes(T) = g[T]
<1> SUFFICES ASSUME NEW T \in SUBSET S PROVE Bytes(T) = g[T]
  OBVIOUS
<1> DEFINE Table(t) ==
             t = [s \in SUBSET T |-> IF s = {} THEN 0 ELSE Any(s).size + t[s \ {Any(s)}]]
           c == CHOOSE t : Table(t)
<1>1. Bytes(T) = c[T]
  BY Zenon DEF Bytes, MapThenSumSet, MapThenFoldSet, SizeOf, Any
<1>2. PICK f \in [SUBSET T -> Nat] : Summed(T, f)
  BY SumsExist, SizedSubset
<1>3. Table(f)
  BY <1>2 DEF Summed, Adds
<1>4. Table(c)
  <2> HIDE DEF Table
  <2> QED BY <1>3
<1>5. Summed(T, c)
  <2> HIDE DEF c
  <2> QED BY <1>4 DEF Adds, Summed
<1> HIDE DEF c
<1> QED BY <1>1, <1>5, SumsAgree

\* The bytes of a set of rows, without the recursion.
LEMMA BytesNat ==
    ASSUME NEW S, Sized(S)
    PROVE  /\ Bytes(S) \in Nat
           /\ S = {} => Bytes(S) = 0
           /\ S # {} => Bytes(S) = Any(S).size + Bytes(S \ {Any(S)})
<1>1. PICK g \in [SUBSET S -> Nat] : Summed(S, g)
  BY SumsExist
<1>2. \A T \in SUBSET S : Bytes(T) = g[T] /\ Adds(g, T)
  BY <1>1, BytesSummed DEF Summed
<1>3. Bytes(S) = g[S] /\ Bytes(S \ {Any(S)}) = g[S \ {Any(S)}]
  BY <1>2
<1> QED BY <1>1, <1>2, <1>3 DEF Adds

\* Whichever row is taken out, the bytes fall by its size.
LEMMA BytesRemove ==
    ASSUME NEW S, Sized(S), NEW c \in S
    PROVE  Bytes(S) = c.size + Bytes(S \ {c})
<1> DEFINE Q == {n \in Nat : \A s \in SUBSET S : Cardinality(s) = n =>
                    \A d \in s : Bytes(s) = d.size + Bytes(s \ {d})}
<1>1. \A s \in SUBSET S : /\ Sized(s) /\ Cardinality(s) \in Nat
                          /\ (s = {} <=> Cardinality(s) = 0) /\ (s # {} => Any(s) \in s)
  BY SizedSubset
<1>2. 0 \in Q
  BY <1>1
<1>3. ASSUME NEW n \in Q PROVE n + 1 \in Q
  <2> SUFFICES ASSUME NEW s \in SUBSET S, Cardinality(s) = n + 1, NEW d \in s
               PROVE  Bytes(s) = d.size + Bytes(s \ {d})
    OBVIOUS
  <2> DEFINE e == Any(s)
             u == s \ {d}
             v == s \ {e}
             w == s \ {d, e}
  <2>1. e \in s /\ Sized(s) /\ Bytes(s) = e.size + Bytes(v)
    BY <1>1, BytesNat
  <2> HIDE DEF e
  <2>2. CASE e = d
    BY <2>1, <2>2
  <2>3. CASE e # d
    <3>1. /\ u \in SUBSET S /\ v \in SUBSET S /\ e \in u /\ d \in v
          /\ u \ {e} = w /\ v \ {d} = w /\ w \in SUBSET S
      BY <2>1, <2>3
    <3>2. Cardinality(u) = n /\ Cardinality(v) = n
      <4>1. /\ Cardinality(s) = Cardinality(u) + 1 /\ Cardinality(u) \in Nat
            /\ Cardinality(s) = Cardinality(v) + 1 /\ Cardinality(v) \in Nat
        BY <2>1, OneLess
      <4> QED BY <4>1
    <3>3. Bytes(u) = e.size + Bytes(w) /\ Bytes(v) = d.size + Bytes(w)
      BY <3>1, <3>2
    <3>4. e.size \in Nat /\ d.size \in Nat /\ Bytes(w) \in Nat
      BY <2>1, <3>1, <1>1, BytesNat DEF Sized
    <3> QED BY <2>1, <3>3, <3>4
  <2> QED BY <2>2, <2>3
<1>4. Q \in SUBSET Nat
  OBVIOUS
<1>5. Q = Nat
  <2> HIDE DEF Q
  <2> QED BY <1>2, <1>3, <1>4, Inductive
<1> QED BY <1>1, <1>5

\* Fewer rows have no more bytes.
LEMMA BytesSubset ==
    ASSUME NEW S, Sized(S), NEW T \in SUBSET S
    PROVE  Bytes(T) \in Nat /\ Bytes(S) \in Nat /\ Bytes(T) <= Bytes(S)
<1> DEFINE Q == {n \in Nat : \A s \in SUBSET S : T \subseteq s /\ Cardinality(s) = n =>
                    Bytes(T) <= Bytes(s)}
<1>1. \A s \in SUBSET S : /\ Sized(s) /\ Cardinality(s) \in Nat /\ Bytes(s) \in Nat
                          /\ (s = {} <=> Cardinality(s) = 0)
  BY SizedSubset, BytesNat
<1>2. 0 \in Q
  BY <1>1
<1>3. ASSUME NEW n \in Q PROVE n + 1 \in Q
  <2> SUFFICES ASSUME NEW s \in SUBSET S, T \subseteq s, Cardinality(s) = n + 1
               PROVE  Bytes(T) <= Bytes(s)
    OBVIOUS
  <2>1. CASE T = s
    BY <2>1, <1>1
  <2>2. CASE T # s
    <3>1. PICK d \in s : d \notin T
      BY <2>2
    <3>2. Cardinality(s) = Cardinality(s \ {d}) + 1 /\ Cardinality(s \ {d}) \in Nat
      BY <1>1, <3>1, OneLess
    <3>3. Cardinality(s \ {d}) = n /\ T \subseteq s \ {d} /\ s \ {d} \in SUBSET S
      BY <3>1, <3>2
    <3>4. Bytes(T) <= Bytes(s \ {d})
      BY <3>3
    <3>5. Bytes(s) = d.size + Bytes(s \ {d})
      BY <1>1, <3>1, BytesRemove
    <3>6. d.size \in Nat /\ Bytes(s \ {d}) \in Nat /\ Bytes(T) \in Nat
      BY <1>1, <3>3 DEF Sized
    <3> QED BY <3>4, <3>5, <3>6
  <2> QED BY <2>1, <2>2
<1>4. Q \in SUBSET Nat
  OBVIOUS
<1>5. Q = Nat
  <2> HIDE DEF Q
  <2> QED BY <1>2, <1>3, <1>4, Inductive
<1> QED BY <1>1, <1>5

\* Rewriting rows one for one, with their sizes, keeps the bytes.
LEMMA BytesImage ==
    ASSUME NEW S, Sized(S), NEW f, \A x \in S : f[x].size = x.size,
           \A x, y \in S : f[x] = f[y] => x = y
    PROVE  Bytes({f[x] : x \in S}) = Bytes(S)
<1> DEFINE Img(s) == {f[x] : x \in s}
           Q == {n \in Nat : \A s \in SUBSET S : Cardinality(s) = n =>
                    IsFiniteSet(Img(s)) /\ Bytes(Img(s)) = Bytes(s)}
<1>1. \A s \in SUBSET S : /\ Sized(s) /\ Cardinality(s) \in Nat
                          /\ (s = {} <=> Cardinality(s) = 0)
  BY SizedSubset
<1>2. 0 \in Q
  <2> SUFFICES ASSUME NEW s \in SUBSET S, Cardinality(s) = 0
               PROVE  IsFiniteSet(Img(s)) /\ Bytes(Img(s)) = Bytes(s)
    OBVIOUS
  <2>1. s = {}
    BY <1>1
  <2>2. Img(s) = {}
    BY <2>1
  <2> QED BY <2>1, <2>2, FS_EmptySet
<1>3. ASSUME NEW n \in Q PROVE n + 1 \in Q
  <2> SUFFICES ASSUME NEW s \in SUBSET S, Cardinality(s) = n + 1
               PROVE  IsFiniteSet(Img(s)) /\ Bytes(Img(s)) = Bytes(s)
    OBVIOUS
  <2>1. PICK d \in s : TRUE
    BY <1>1
  <2> DEFINE t == s \ {d}
  <2>2. /\ t \in SUBSET S /\ Cardinality(s) = Cardinality(t) + 1 /\ Cardinality(t) \in Nat
    BY <1>1, <2>1, OneLess
  <2>3. IsFiniteSet(Img(t)) /\ Bytes(Img(t)) = Bytes(t)
    <3>1. Cardinality(t) = n
      BY <2>2
    <3> HIDE DEF t
    <3> QED BY <2>2, <3>1
  <2>4. Img(s) = Img(t) \cup {f[d]} /\ Img(s) \ {f[d]} = Img(t) /\ f[d] \in Img(s)
    BY <2>1
  <2>5. IsFiniteSet(Img(s))
    <3> HIDE DEF Img, t
    <3>1. IsFiniteSet(Img(t) \cup {f[d]})
      BY <2>3, FS_AddElement
    <3> QED BY <2>4, <3>1
  <2>6. Sized(Img(s))
    <3>1. \A x \in s : x \in S /\ x.size \in Nat
      BY DEF Sized
    <3>2. \A x \in s : f[x].size \in Nat
      BY <3>1
    <3> QED BY <2>5, <3>2 DEF Sized
  <2>7. Bytes(Img(s)) = f[d].size + Bytes(Img(t))
    <3> HIDE DEF Img
    <3> QED BY <2>4, <2>6, BytesRemove
  <2>8. Bytes(s) = d.size + Bytes(t) /\ f[d].size = d.size
    BY <1>1, <2>1, BytesRemove
  <2> QED BY <2>3, <2>5, <2>7, <2>8
<1>4. Q \in SUBSET Nat
  OBVIOUS
<1>5. Q = Nat
  <2> HIDE DEF Q
  <2> QED BY <1>2, <1>3, <1>4, Inductive
<1> QED BY <1>1, <1>5
-----------------------------------------------------------------------------
(* The batch.                                                               *)

\* The entry drain_once posts next is a claimed row, the only one of its id.
LEMMA HeadIsClaimed ==
    ASSUME TypeOK, RowsNumbered, BatchInFlight, batch # {}
    PROVE  /\ Head \in rows /\ Head.id \in batch /\ Head.status = "delivering"
           /\ Head.id = Min(batch)
           /\ \A x \in rows : x.id = Head.id => x = Head
<1>1. PICK i \in batch : \A j \in batch : i <= j
  BY LeastId DEF TypeOK
<1>2. Min(batch) \in batch
  BY <1>1 DEF Min
<1>3. PICK x \in rows : x.id = Min(batch) /\ x.status = "delivering"
  BY <1>2 DEF BatchInFlight
<1>4. Head \in rows /\ Head.id = Min(batch)
  BY <1>3, Zenon DEF Head
<1>5. Head = x
  BY <1>3, <1>4 DEF RowsNumbered
<1> QED BY <1>2, <1>3, <1>4, <1>5 DEF RowsNumbered

-----------------------------------------------------------------------------
(* The three ways the table changes.                                        *)

\* What a drainer's transaction may make of a row: the identity stays, and the
\* status only goes pending -> delivering when the row is due.
Becomes(x, y) ==
    /\ y \in Row
    /\ y.id = x.id /\ y.key = x.key /\ y.version = x.version
    /\ y.terminal = x.terminal /\ y.size = x.size
    /\ y.status # "delivered" => x.status # "delivered"
    /\ y.status \in {"pending", "delivering"} => x.status \in {"pending", "delivering"}
    /\ y.status \in {"delivering", "delivered"} =>
         x.status \in {"delivering", "delivered"} \/ Due(x)

Rewritten ==
    /\ lastId' = lastId
    /\ \E f \in [rows -> Row] :
         /\ rows' = {f[x] : x \in rows}
         /\ \A x \in rows : Becomes(x, f[x])

\* What the steps keep of the table.
TableInv ==
    /\ rows \in SUBSET Row /\ lastId \in Nat
    /\ RowsNumbered
    /\ LowerVersionsFirst
    /\ IsFiniteSet(rows)
    /\ WithinBounds

\* A row leaves the table delivered, or replaced by a newer version.
RowsAccounted ==
    \A x \in rows :
       \/ \E y \in rows' : y.id = x.id
       \/ x.status = "delivered"
       \/ /\ ~x.terminal
          /\ \E y \in rows' : y.key = x.key /\ y.version > x.version
                                /\ y.status = "pending"

\* The bounds on the outbox are numbers.
LEMMA Constants ==
    MaxEntries \in Nat /\ MaxBytes \in Nat /\ Sizes \subseteq Nat /\ Backoffs \subseteq Nat
  BY OutboxBounds

\* Rows have sizes to add up.
LEMMA RowsSized ==
    ASSUME NEW S \in SUBSET Row, IsFiniteSet(S)
    PROVE  Sized(S) /\ Undelivered(S) \in SUBSET S /\ Sized(Undelivered(S))
<1>1. Undelivered(S) \in SUBSET S
  BY DEF Undelivered
<1>2. Sized(S)
  BY DEF Sized, Row
<1> QED BY <1>1, <1>2, SizedSubset

\* claim, mark and release: rewriting rows keeps the table's invariants.
LEMMA RewriteKeeps ==
    ASSUME TableInv, Rewritten
    PROVE  TableInv' /\ RowsAccounted
<1>1. PICK f \in [rows -> Row] :
        /\ rows' = {f[x] : x \in rows}
        /\ \A x \in rows : Becomes(x, f[x])
  BY DEF Rewritten
<1>2. rows' \in SUBSET Row /\ lastId' \in Nat
  BY <1>1 DEF TableInv, Rewritten
<1>3. RowsNumbered'
  <2>1. \A x \in rows' : x.id <= lastId'
    BY <1>1 DEF TableInv, RowsNumbered, Becomes, Rewritten
  <2>2. \A x, y \in rows' : x.id = y.id => x = y
    BY <1>1 DEF TableInv, RowsNumbered, Becomes
  <2> QED BY <2>1, <2>2 DEF RowsNumbered
<1>4. LowerVersionsFirst'
  <2> SUFFICES ASSUME NEW x \in rows, NEW y \in rows,
                      f[x].key = f[y].key, f[x].version < f[y].version,
                      f[x].status \in {"pending", "delivering"},
                      f[y].status \in {"delivering", "delivered"}
               PROVE  f[x].id > f[y].id
    BY <1>1 DEF LowerVersionsFirst
  <2>1. /\ x.key = y.key /\ x.version < y.version /\ f[x].id = x.id /\ f[y].id = y.id
        /\ x.status \in {"pending", "delivering"}
        /\ y.status \in {"delivering", "delivered"} \/ Due(y)
    BY <1>1 DEF Becomes
  <2>2. ~Due(y)
    BY <2>1 DEF Due
  <2> QED BY <2>1, <2>2 DEF TableInv, LowerVersionsFirst
<1>5. IsFiniteSet(rows')
  <2>1. f \in Surjection(rows, rows')
    BY <1>1 DEF Surjection
  <2> QED BY <2>1, FS_Surjection DEF TableInv
<1>6. WithinBounds'
  <2> DEFINE U == {x \in rows : f[x].status # "delivered"}
             g == [x \in U |-> f[x]]
             V == Undelivered(rows)
             W == Undelivered(rows')
  <2>1. U \in SUBSET V /\ V \in SUBSET rows
    BY <1>1 DEF Undelivered, Becomes
  <2>2. g \in Surjection(U, W)
    BY <1>1 DEF Surjection, Undelivered
  <2>3. IsFiniteSet(V) /\ Cardinality(V) <= MaxEntries
    BY <2>1, FS_Subset DEF TableInv, WithinBounds, EntriesBounded
  <2>8. Sized(V) /\ Bytes(V) <= MaxBytes
    BY RowsSized DEF TableInv, WithinBounds, BytesBounded
  <2>9. W = {f[x] : x \in U}
    BY <1>1 DEF Undelivered
  <2>10. \A x \in U : x \in rows /\ f[x].size = x.size
    BY <1>1 DEF Becomes
  <2>11. \A x, y \in U : f[x] = f[y] => x = y
    BY <1>1 DEF Becomes, TableInv, RowsNumbered
  <2> HIDE DEF U, g, V, W
  <2>4. IsFiniteSet(U) /\ Cardinality(U) <= Cardinality(V)
    BY <2>1, <2>3, FS_Subset
  <2>5. IsFiniteSet(W) /\ Cardinality(W) <= Cardinality(U)
    BY <2>2, <2>4, FS_Surjection
  <2>6. Cardinality(W) \in Nat /\ Cardinality(U) \in Nat /\ Cardinality(V) \in Nat
    BY <2>3, <2>4, <2>5, FS_CardinalityType
  <2>7. Cardinality(W) <= MaxEntries
    BY <2>3, <2>4, <2>5, <2>6, Constants
  <2>12. Sized(U) /\ Bytes(U) <= Bytes(V) /\ Bytes(U) \in Nat /\ Bytes(V) \in Nat
    BY <2>1, <2>8, SizedSubset, BytesSubset
  <2>13. Bytes(W) = Bytes(U)
    BY <2>9, <2>10, <2>11, <2>12, BytesImage
  <2>14. Bytes(W) <= MaxBytes
    BY <2>8, <2>12, <2>13, Constants
  <2> QED BY <2>7, <2>14 DEF W, WithinBounds, EntriesBounded, BytesBounded
<1>7. RowsAccounted
  BY <1>1 DEF RowsAccounted, Becomes
<1> QED BY <1>2, <1>3, <1>4, <1>5, <1>6, <1>7 DEF TableInv

\* Deleting delivered rows, or none, keeps the table's invariants.
LEMMA PruneKeeps ==
    ASSUME TableInv, lastId' = lastId, rows' \in SUBSET rows,
           \A x \in rows \ rows' : x.status = "delivered"
    PROVE  TableInv' /\ RowsAccounted
<1>1. rows' \in SUBSET Row /\ lastId' \in Nat /\ RowsNumbered'
  BY DEF TableInv, RowsNumbered
<1>2. LowerVersionsFirst'
  BY DEF TableInv, LowerVersionsFirst
<1>3. IsFiniteSet(rows')
  BY FS_Subset DEF TableInv
<1>4. WithinBounds'
  <2>1. Undelivered(rows') = Undelivered(rows)
    BY DEF Undelivered
  <2> QED BY <2>1 DEF TableInv, WithinBounds, EntriesBounded, BytesBounded
<1>5. RowsAccounted
  BY DEF RowsAccounted
<1> QED BY <1>1, <1>2, <1>3, <1>4, <1>5 DEF TableInv

\* enqueue: the coalescing delete and the insertion keep the table's invariants;
\* a row the delete takes is replaced by the one inserted.
LEMMA EnqueueKeeps ==
    ASSUME TableInv, NEW e \in Event, Enqueue(e)
    PROVE  TableInv' /\ RowsAccounted
<1> DEFINE n == Inserted(e)
           C == Coalesced(e)
<1>1. /\ n \in Row /\ n.id = lastId + 1 /\ n.key = e.key /\ n.version = e.version
      /\ n.status = "pending" /\ n.size = e.size
  BY DEF Inserted, Row, Event, Statuses, TableInv
<1>2. rows' = C \cup {n} /\ lastId' = lastId + 1
  BY DEF Enqueue
<1>3. C \in SUBSET rows
  BY DEF Coalesced
<1>4. \A x \in rows \ C : /\ x.key = e.key /\ ~x.terminal /\ x.version < e.version
  BY DEF Coalesced
<1>5. /\ ~ (Cardinality(Undelivered(C)) + 1 > MaxEntries)
      /\ ~ (Bytes(Undelivered(C)) + e.size > MaxBytes)
  BY DEF Enqueue, Full
<1> HIDE DEF n, C
<1>6. rows' \in SUBSET Row /\ lastId' \in Nat
  BY <1>1, <1>2, <1>3 DEF TableInv
<1>7. \A x \in rows : x.id \in Nat /\ x.id <= lastId /\ x.id # n.id
  BY <1>1 DEF TableInv, RowsNumbered, Row
<1>8. RowsNumbered'
  BY <1>1, <1>2, <1>3, <1>7 DEF TableInv, RowsNumbered
<1>9. LowerVersionsFirst'
  <2> SUFFICES ASSUME NEW x \in rows', NEW y \in rows',
                      x.key = y.key, x.version < y.version,
                      x.status \in {"pending", "delivering"},
                      y.status \in {"delivering", "delivered"}
               PROVE  x.id > y.id
    BY DEF LowerVersionsFirst
  <2>1. y \in rows
    BY <1>1, <1>2, <1>3
  <2>2. CASE x \in rows
    BY <2>1, <2>2 DEF TableInv, LowerVersionsFirst
  <2>3. CASE x = n
    BY <2>1, <2>3, <1>1, <1>7 DEF TableInv
  <2> QED BY <1>2, <1>3, <2>2, <2>3
<1>10. IsFiniteSet(C)
  BY <1>3, FS_Subset DEF TableInv
<1>11. IsFiniteSet(rows')
  BY <1>2, <1>10, FS_AddElement
<1>12. WithinBounds'
  <2> DEFINE V == Undelivered(C)
             W == Undelivered(rows')
  <2>1. V \in SUBSET C /\ W = V \cup {n}
    BY <1>1, <1>2 DEF Undelivered
  <2>2. ~ (Cardinality(V) + 1 > MaxEntries) /\ ~ (Bytes(V) + e.size > MaxBytes)
    BY <1>5
  <2>6. Sized(V) /\ Sized(W)
    BY <1>3, <1>6, <1>10, <1>11, RowsSized DEF TableInv
  <2>7. n \notin V /\ n.size \in Nat
    BY <1>1, <1>3, <1>7, <2>1 DEF Row
  <2> HIDE DEF V, W
  <2>3. IsFiniteSet(V) /\ Cardinality(V) \in Nat
    BY <2>1, <1>10, FS_Subset, FS_CardinalityType
  <2>4. Cardinality(W) = IF n \in V THEN Cardinality(V) ELSE Cardinality(V) + 1
    BY <2>1, <2>3, FS_AddElement
  <2>5. Cardinality(W) <= MaxEntries
    BY <2>2, <2>3, <2>4, Constants
  <2>8. W \ {n} = V /\ n \in W
    BY <2>1, <2>7
  <2>9. Bytes(W) = n.size + Bytes(V) /\ Bytes(V) \in Nat
    BY <2>6, <2>8, BytesRemove, BytesNat
  <2>10. Bytes(W) <= MaxBytes
    BY <1>1, <2>2, <2>7, <2>9, Constants
  <2> QED BY <2>5, <2>10 DEF W, WithinBounds, EntriesBounded, BytesBounded
<1>13. RowsAccounted
  <2> SUFFICES ASSUME NEW x \in rows, x \notin C
               PROVE  ~x.terminal /\ \E y \in rows' : /\ y.key = x.key
                                                      /\ y.version > x.version
                                                      /\ y.status = "pending"
    BY <1>2 DEF RowsAccounted
  <2> QED BY <1>1, <1>2, <1>4
<1> QED BY <1>6, <1>8, <1>9, <1>11, <1>12, <1>13 DEF TableInv

-----------------------------------------------------------------------------
(* The drainer's transactions rewrite rows.                                 *)

\* mark_delivered, mark_dead and release change the status of the entry posted.
LEMMA MarkRewrites ==
    ASSUME IInv, batch # {}, lastId' = lastId,
           NEW st \in {"delivered", "dead", "pending"}, rows' = Marked(st)
    PROVE  /\ Rewritten
           /\ \A x \in rows \ {Head} : x \in rows'
<1>1. /\ Head \in rows /\ Head.status = "delivering"
      /\ \A x \in rows : x.id = Head.id => x = Head
  BY HeadIsClaimed DEF IInv
<1> DEFINE f == [x \in rows |-> IF x.id \in {Head.id} THEN [x EXCEPT !.status = st] ELSE x]
<1>2. rows' = {f[x] : x \in rows}
  BY DEF Marked, WithStatus
<1>3. \A x \in rows : x \in Row
  BY DEF IInv, TypeOK
<1>4. \A x \in rows : x # Head => f[x] = x
  BY <1>1
<1>5. /\ f[Head] \in Row /\ f[Head].id = Head.id /\ f[Head].key = Head.key
      /\ f[Head].terminal = Head.terminal /\ f[Head].size = Head.size
      /\ f[Head].version = Head.version /\ f[Head].status = st
  BY <1>1, <1>3 DEF Row, Statuses
<1>6. f \in [rows -> Row]
  BY <1>3 DEF Row, Statuses
<1> HIDE DEF f
<1>7. \A x \in rows : Becomes(x, f[x])
  BY <1>1, <1>3, <1>4, <1>5 DEF Becomes
<1> QED BY <1>2, <1>4, <1>6, <1>7 DEF Rewritten

\* mark_retry puts the entry posted back, with a wait.
LEMMA RetryRewrites ==
    ASSUME IInv, batch # {}, lastId' = lastId, NEW w \in Backoffs, rows' = Retried(w)
    PROVE  /\ Rewritten
           /\ \A x \in rows \ {Head} : x \in rows'
<1>1. Head \in rows /\ Head.status = "delivering"
  BY HeadIsClaimed DEF IInv
<1> DEFINE f == [x \in rows |->
                   IF x = Head THEN [x EXCEPT !.status = "pending", !.wait = w] ELSE x]
<1>2. rows' = {f[x] : x \in rows}
  BY DEF Retried
<1>3. \A x \in rows : x \in Row
  BY DEF IInv, TypeOK
<1>4. \A x \in rows : x # Head => f[x] = x
  OBVIOUS
<1>5. /\ f[Head] \in Row /\ f[Head].id = Head.id /\ f[Head].key = Head.key
      /\ f[Head].terminal = Head.terminal /\ f[Head].size = Head.size
      /\ f[Head].version = Head.version /\ f[Head].status = "pending"
  BY <1>1, <1>3, Constants DEF Row, Statuses
<1>6. f \in [rows -> Row]
  BY <1>3, Constants DEF Row, Statuses
<1> HIDE DEF f
<1>7. \A x \in rows : Becomes(x, f[x])
  BY <1>1, <1>3, <1>4, <1>5 DEF Becomes
<1> QED BY <1>2, <1>4, <1>6, <1>7 DEF Rewritten

\* recover_in_flight puts back every row in flight.
LEMMA RecoverRewrites ==
    ASSUME IInv, lastId' = lastId,
           rows' = WithStatus({x.id : x \in {y \in rows : y.status = "delivering"}}, "pending")
    PROVE  Rewritten
<1> DEFINE ids == {x.id : x \in {y \in rows : y.status = "delivering"}}
           f == [x \in rows |-> IF x.id \in ids THEN [x EXCEPT !.status = "pending"] ELSE x]
<1>1. rows' = {f[x] : x \in rows}
  BY DEF WithStatus
<1>2. \A x \in rows : x \in Row
  BY DEF IInv, TypeOK
<1>3. \A x \in rows : x.id \in ids => x.status = "delivering"
  BY DEF IInv, RowsNumbered
<1> HIDE DEF ids
<1>4. f \in [rows -> Row]
  BY <1>2 DEF Row, Statuses
<1>5. \A x \in rows : Becomes(x, f[x])
  BY <1>2, <1>3 DEF Becomes, Row, Statuses
<1> HIDE DEF f
<1> QED BY <1>1, <1>4, <1>5 DEF Rewritten

\* claim_due takes due rows only, and counts the waits of the others down.
LEMMA ClaimRewrites ==
    ASSUME IInv, ClaimDue
    PROVE  /\ Rewritten
           /\ \A i \in batch' : \E x \in rows' : x.id = i /\ x.status = "delivering"
<1> DEFINE f == [x \in rows |->
                   IF x \in FirstDue THEN [x EXCEPT !.status = "delivering"]
                   ELSE IF x.wait > 0 THEN [x EXCEPT !.wait = @ - 1] ELSE x]
<1>1. rows' = {f[x] : x \in rows} /\ lastId' = lastId /\ batch' = {x.id : x \in FirstDue}
  BY DEF ClaimDue
<1>2. \A x \in rows : x \in Row
  BY DEF IInv, TypeOK
<1>3. \A x \in FirstDue : x \in rows /\ Due(x)
  BY DEF FirstDue
<1>4. f \in [rows -> Row]
  <2>1. \A x \in rows : x.wait \in Nat /\ (x.wait > 0 => x.wait - 1 \in Nat)
    BY <1>2 DEF Row
  <2> QED BY <1>2, <2>1 DEF Row, Statuses
<1>5. \A x \in rows : /\ f[x].id = x.id /\ f[x].key = x.key /\ f[x].version = x.version
                      /\ f[x].terminal = x.terminal /\ f[x].size = x.size
                      /\ f[x].status = IF x \in FirstDue THEN "delivering" ELSE x.status
  BY <1>2 DEF Row
<1> HIDE DEF f
<1>6. \A x \in FirstDue : x.status = "pending"
  BY <1>3 DEF Due
<1>7. \A x \in rows : Becomes(x, f[x])
  BY <1>3, <1>4, <1>5, <1>6 DEF Becomes
<1>8. Rewritten
  BY <1>1, <1>4, <1>7 DEF Rewritten
<1>9. \A i \in batch' : \E x \in rows' : x.id = i /\ x.status = "delivering"
  BY <1>1, <1>3, <1>5
<1> QED BY <1>8, <1>9

-----------------------------------------------------------------------------
(* The steps.                                                               *)

\* What a step keeps, apart from the table.
RestTyped ==
    /\ issued \in [CardKeys -> Nat]
    /\ staging \in SUBSET Event
    /\ failures \in Nat
    /\ loop \in {"down", "draining", "releasing", "dead"}
    /\ batch \in SUBSET Nat

\* The invariant is the table's and the rest's.
LEMMA Parts == IInv <=> TableInv /\ RestTyped /\ BatchInFlight
  BY DEF IInv, TableInv, RestTyped, TypeOK

\* A step that keeps the table.
LEMMA TableKept ==
    ASSUME IInv, UNCHANGED <<rows, lastId>> PROVE TableInv' /\ RowsAccounted
<1>1. TableInv
  BY Parts
<1> QED BY <1>1, PruneKeeps

\* Claimed rows survive a step that neither settles nor rewrites them.
LEMMA BatchKept ==
    ASSUME IInv, UNCHANGED <<loop, batch>>, \A x \in rows : x.status = "delivering" => x \in rows'
    PROVE  BatchInFlight'
  BY DEF IInv, BatchInFlight

\* Every step keeps the invariant and accounts for the rows it removes.
LEMMA StepKeeps ==
    ASSUME IInv, Next
    PROVE  IInv' /\ RowsAccounted
<1>0. TableInv /\ RestTyped /\ BatchInFlight
  BY Parts
<1> SUFFICES (TableInv /\ RestTyped /\ BatchInFlight)' /\ RowsAccounted
  BY DEF IInv, TableInv, RestTyped, TypeOK
<1>1. ASSUME NEW k \in CardKeys, NEW t \in BOOLEAN, NEW z \in Sizes, NextCardVersion(k, t, z)
      PROVE  (TableInv /\ RestTyped /\ BatchInFlight)' /\ RowsAccounted
  <2>1. TableInv' /\ RowsAccounted
    BY <1>1, TableKept DEF NextCardVersion
  <2>2. BatchInFlight'
    BY <1>1, BatchKept DEF NextCardVersion
  <2>3. [key |-> k, version |-> issued[k] + 1, terminal |-> t, size |-> z] \in Event
    BY <1>0, Constants DEF Event, Keys, RestTyped
  <2>4. RestTyped'
    BY <1>0, <1>1, <2>3 DEF NextCardVersion, RestTyped
  <2> QED BY <2>1, <2>2, <2>4
<1>2. ASSUME NEW e \in Event, Enqueue(e), UNCHANGED <<loop, batch>>
      PROVE  TableInv' /\ BatchInFlight' /\ RowsAccounted
  <2>1. TableInv' /\ RowsAccounted
    BY <1>0, <1>2, EnqueueKeeps
  <2>2. \A x \in rows : x.status = "delivering" => x \in rows'
    BY <1>2 DEF Enqueue, Coalesced
  <2> QED BY <1>2, <2>1, <2>2, BatchKept
<1>3. ASSUME NEW e \in staging, StageRunCard(e)
      PROVE  (TableInv /\ RestTyped /\ BatchInFlight)' /\ RowsAccounted
  <2>1. RestTyped'
    BY <1>0, <1>3 DEF StageRunCard, RestTyped
  <2>2. CASE Enqueue(e)
    BY <1>0, <1>2, <1>3, <2>1, <2>2 DEF StageRunCard, RestTyped
  <2>3. CASE UNCHANGED <<rows, lastId>>
    BY <1>3, <2>1, <2>3, TableKept, BatchKept DEF StageRunCard
  <2> QED BY <1>3, <2>2, <2>3 DEF StageRunCard
<1>4. ASSUME NEW k \in SignalKeys, NEW z \in Sizes, ForwardSignal(k, z)
      PROVE  (TableInv /\ RestTyped /\ BatchInFlight)' /\ RowsAccounted
  <2> DEFINE e == [key |-> k, version |-> 1, terminal |-> TRUE, size |-> z]
  <2>1. e \in Event
    BY Constants DEF Event, Keys
  <2>2. Enqueue(e) /\ UNCHANGED <<issued, staging, failures, loop, batch>>
    BY <1>4 DEF ForwardSignal
  <2> HIDE DEF e
  <2>3. RestTyped'
    BY <1>0, <2>2 DEF RestTyped
  <2> QED BY <1>2, <2>1, <2>2, <2>3
<1>5. CASE StartDrainLoop
  <2>1. RestTyped'
    BY <1>0, <1>5 DEF StartDrainLoop, RestTyped
  <2>2. BatchInFlight'
    BY <1>0, <1>5 DEF StartDrainLoop, BatchInFlight
  <2>3. CASE UNCHANGED rows
    BY <1>5, <2>1, <2>2, <2>3, TableKept DEF StartDrainLoop
  <2>4. CASE rows' = WithStatus({x.id : x \in {y \in rows : y.status = "delivering"}}, "pending")
    BY <1>0, <1>5, <2>1, <2>2, <2>4, RecoverRewrites, RewriteKeeps DEF StartDrainLoop
  <2> QED BY <1>5, <2>3, <2>4 DEF StartDrainLoop
<1>6. CASE ClaimDue
  <2>1. /\ Rewritten
        /\ \A i \in batch' : \E x \in rows' : x.id = i /\ x.status = "delivering"
    BY <1>6, ClaimRewrites
  <2>2. TableInv' /\ RowsAccounted
    BY <1>0, <2>1, RewriteKeeps
  <2>3. batch' \in SUBSET Nat
    BY <1>0, <1>6 DEF ClaimDue, FirstDue, TableInv, Row
  <2>4. RestTyped'
    BY <1>0, <1>6, <2>3 DEF ClaimDue, RestTyped
  <2>5. BatchInFlight'
    BY <2>1, <1>6 DEF ClaimDue, BatchInFlight
  <2> QED BY <2>2, <2>4, <2>5
<1>7. ASSUME batch # {}, batch' = batch \ {Head.id}, \A x \in rows \ {Head} : x \in rows',
             loop \in {"draining", "releasing"},
             \/ loop' = loop /\ loop = "draining"
             \/ loop' = IF batch' = {} THEN "draining" ELSE "releasing"
      PROVE  BatchInFlight' /\ batch' \in SUBSET Nat /\ loop' \in {"draining", "releasing"}
  <2>1. \A i \in batch' : \E x \in rows' : x.id = i /\ x.status = "delivering"
    <3> SUFFICES ASSUME NEW i \in batch, i # Head.id
                 PROVE  \E x \in rows' : x.id = i /\ x.status = "delivering"
      BY <1>7
    <3>1. PICK x \in rows : x.id = i /\ x.status = "delivering"
      BY <1>0 DEF BatchInFlight
    <3> QED BY <3>1, <1>7
  <2>2. batch' \in SUBSET Nat
    BY <1>0, <1>7 DEF RestTyped
  <2> QED BY <1>7, <2>1, <2>2 DEF BatchInFlight
<1>8. ASSUME NEW a \in Replies, Post(a)
      PROVE  (TableInv /\ RestTyped /\ BatchInFlight)' /\ RowsAccounted
  <2>1. /\ batch # {} /\ loop = "draining" /\ lastId' = lastId /\ batch' = batch \ {Head.id}
        /\ loop' = loop \/ loop' = IF batch' = {} THEN "draining" ELSE "releasing"
        /\ UNCHANGED <<issued, staging, failures>>
    BY <1>8 DEF Post, Settle
  <2>2. \/ rows' = Marked("delivered") \/ rows' = Marked("dead")
        \/ \E w \in Backoffs : rows' = Retried(w)
    BY <1>8 DEF Post, Settle
  <2>3. Rewritten /\ \A x \in rows \ {Head} : x \in rows'
    BY <2>1, <2>2, MarkRewrites, RetryRewrites
  <2>4. TableInv' /\ RowsAccounted
    BY <1>0, <2>3, RewriteKeeps
  <2>5. BatchInFlight' /\ batch' \in SUBSET Nat /\ loop' \in {"draining", "releasing"}
    BY <1>7, <2>1, <2>3
  <2>6. RestTyped'
    BY <1>0, <2>1, <2>5 DEF RestTyped
  <2> QED BY <2>4, <2>5, <2>6
<1>9. CASE Release
  <2>1. /\ batch # {} /\ loop = "releasing" /\ lastId' = lastId /\ batch' = batch \ {Head.id}
        /\ loop' = IF batch' = {} THEN "draining" ELSE "releasing"
        /\ UNCHANGED <<issued, staging, failures>> /\ rows' = Marked("pending")
    BY <1>0, <1>9 DEF Release, BatchInFlight
  <2>2. Rewritten /\ \A x \in rows \ {Head} : x \in rows'
    BY <2>1, MarkRewrites
  <2>3. TableInv' /\ RowsAccounted
    BY <1>0, <2>2, RewriteKeeps
  <2>4. BatchInFlight' /\ batch' \in SUBSET Nat /\ loop' \in {"draining", "releasing"}
    BY <1>7, <2>1, <2>2
  <2>5. RestTyped'
    BY <1>0, <2>1, <2>4 DEF RestTyped
  <2> QED BY <2>3, <2>4, <2>5
<1>10. CASE SettleFault
  BY <1>0, <1>10, TableKept DEF SettleFault, RestTyped, BatchInFlight
<1>11. CASE PruneDelivered
  <2>1. PICK old \in SUBSET {x \in rows : x.status = "delivered"} : rows' = rows \ old
    BY <1>11 DEF PruneDelivered
  <2>2. UNCHANGED <<lastId, issued, staging, failures, loop, batch>>
    BY <1>11 DEF PruneDelivered
  <2>3. TableInv' /\ RowsAccounted
    BY <1>0, <2>1, <2>2, PruneKeeps
  <2>4. BatchInFlight'
    BY <2>1, <2>2, BatchKept
  <2>5. RestTyped'
    BY <1>0, <2>2 DEF RestTyped
  <2> QED BY <2>3, <2>4, <2>5
<1>12. CASE Crash
  BY <1>0, <1>12, TableKept DEF Crash, RestTyped, BatchInFlight
<1> QED BY <1>1, <1>3, <1>4, <1>5, <1>6, <1>8, <1>9, <1>10, <1>11, <1>12 DEF Next, Produce

-----------------------------------------------------------------------------
(* The theorems.                                                            *)

\* The empty table of a process that has not started.
LEMMA InitHolds == Init => IInv
<1> SUFFICES ASSUME Init PROVE IInv
  OBVIOUS
<1>1. IsFiniteSet({}) /\ Cardinality({}) = 0
  BY FS_EmptySet
<1>2. Undelivered(rows) = {}
  BY DEF Init, Undelivered
<1>3. Bytes({}) = 0
  BY <1>1, BytesNat DEF Sized
<1>4. WithinBounds /\ IsFiniteSet(rows)
  BY <1>1, <1>2, <1>3, Constants DEF Init, WithinBounds, EntriesBounded, BytesBounded
<1> QED BY <1>4 DEF Init, IInv, TypeOK, RowsNumbered, BatchInFlight, LowerVersionsFirst

\* A step that leaves the outbox alone.
LEMMA StutterKeeps ==
    ASSUME IInv, UNCHANGED vars
    PROVE  IInv'
  BY DEF IInv, vars, TypeOK, RowsNumbered, BatchInFlight, LowerVersionsFirst, WithinBounds,
         EntriesBounded, BytesBounded

\* The inductive invariant holds in every reachable state.
THEOREM Invariance == Spec => []IInv
  BY InitHolds, StepKeeps, StutterKeeps, PTL DEF Spec

\* The table, the counters and the batch have their types in every state.
THEOREM TypeCorrect == Spec => []TypeOK
<1>1. IInv => TypeOK
  BY DEF IInv
<1> QED BY <1>1, Invariance, PTL

\* "Deliver due entries in per-key version order", whatever the limit, the
\* backoffs, the errors and the crashes: claim_due never sends an entry ahead
\* of a lower version of its key that was in the outbox before it.
THEOREM VersionsGoOutInOrder == Spec => []LowerVersionsFirst
<1>1. IInv => LowerVersionsFirst
  BY DEF IInv
<1> QED BY <1>1, Invariance, PTL

\* The rows that are not delivered, dead ones included, never outnumber
\* BARB_OUTBOX_MAX_ENTRIES and their payloads never add up to more than
\* BARB_OUTBOX_MAX_BYTES: retries, releases and recovery add none.
THEOREM OutboxStaysBounded == Spec => []WithinBounds
<1>1. IInv => WithinBounds
  BY DEF IInv
<1> QED BY <1>1, Invariance, PTL

\* No step of a producer, of the drainer, of pruning or of a crash loses a row:
\* it leaves delivered, or coalesced into a newer version still to be sent.
THEOREM NothingIsDroppedSilently == Spec => NeverSilentlyDropped
<1>1. IInv /\ [Next]_vars => [RowsAccounted]_vars
  BY StepKeeps
<1> QED BY <1>1, Invariance, PTL DEF Spec, NeverSilentlyDropped, RowsAccounted

-----------------------------------------------------------------------------
(* The delivery: the inductive invariant.                                   *)

\* A word about version v of a run's card: whether that version is final.
Word(k, v, t) == [key |-> k, version |-> v, terminal |-> t]

\* Everything that speaks of a card: the replica's threads and its outbox, the
\* requests in transit, and the authority's database.
Said ==
    {Word(e.key, e.version, e.terminal) : e \in staging}
      \cup {Word(x.key, x.version, x.terminal) : x \in {y \in rows : y.key \in CardKeys}}
      \cup {Word(q.run, q.version, q.status = "succeeded") : q \in late}
      \cup {Word(r, cards[r].version, cards[r].status \in Auth!TERMINAL_STATUSES) :
               r \in {k \in CardKeys : cards[k].version # 0}}

\* A version was issued before anyone speaks of it, and all agree about it.
OneVoice ==
    /\ \A a \in Said : a.key \in CardKeys /\ a.version \in 1..issued[a.key]
    /\ \A a, b \in Said : a.key = b.key /\ a.version = b.version => a.terminal = b.terminal

\* What DeliveredIsCommitted promises of a row.
Committed(x) ==
    /\ \/ cards[x.key].version >= x.version
       \/ cards[x.key].status \in Auth!TERMINAL_STATUSES /\ ~x.terminal
    /\ x.terminal /\ x.version = issued[x.key]
         => cards[x.key].status \in Auth!TERMINAL_STATUSES

\* Delivered rows are committed cards: a signal is never delivered.
DeliveredKnown ==
    \A x \in rows : x.status = "delivered" => x.key \in CardKeys /\ Committed(x)

\* So is the entry an answer of the authority is about to settle.
AnswerHolds ==
    reply \in {"delivered", "stale"} =>
        /\ loop = "draining" /\ batch # {}
        /\ Routed /\ Committed(Head)

LinkTyped ==
    /\ config.epoch \in 1..MaxEpoch /\ config = AuthorityAt(config.epoch)
    /\ cards \in [CardKeys -> Auth!Card]
    /\ senderEpoch \in 1..MaxEpoch
    /\ reply \in Replies \cup {Waiting}
    /\ late \subseteq [run : Runs, version : 1..MaxVersion,
                       status : {"running", "succeeded"}, epoch : 1..MaxEpoch]
    /\ restarts \in 0..MaxRestarts
    /\ lost \subseteq Runs
    /\ \A k \in CardKeys : issued[k] <= MaxVersion

DInv ==
    /\ IInv
    /\ LinkTyped
    /\ OneVoice
    /\ DeliveredKnown
    /\ AnswerHolds

-----------------------------------------------------------------------------
(* The replica of the delivery is the outbox.                               *)

\* Every step of the system is a step of the outbox or leaves it alone.
LEMMA OutboxStep == DeliveryNext => Next \/ UNCHANGED vars
  BY DEF DeliveryNext, Replica, Exchange, ResponseLost, RequestLost, LateArrival, SettlePost,
         RestartReplica, UpdateSettings, RestartAuthority, Next, Post, Settle, replica

\* Whatever the network, the authority and the operator do, the replica behaves
\* as the outbox BarbOutbox describes, so every theorem above holds of it.
THEOREM ReplicaIsOutbox == DeliverySpec => Spec
<1>1. DeliveryInit => Init
  BY DEF DeliveryInit
<1>2. [DeliveryNext]_system => [Next]_vars
  BY OutboxStep DEF system, replica
<1> QED BY <1>1, <1>2, PTL DEF DeliverySpec, Spec

-----------------------------------------------------------------------------
(* What the steps do to the cards.                                          *)

\* The same card, perhaps in another state of delivery.
SameCard(x, y) ==
    y.id = x.id /\ y.key = x.key /\ y.version = x.version /\ y.terminal = x.terminal

\* The table holds cards it held, and calls no more of them delivered.
CardsCarried ==
    \A y \in rows' : \E x \in rows :
        SameCard(x, y) /\ (y.status = "delivered" => x.status = "delivered")

DeliveredCarried ==
    \A y \in rows' : y.status = "delivered" =>
        \E x \in rows : SameCard(x, y) /\ x.status = "delivered"

\* Stored cards and issued versions only advance.
Advance ==
    \A k \in CardKeys :
        /\ cards'[k].version >= cards[k].version
        /\ cards[k].status \in Auth!TERMINAL_STATUSES
             => cards'[k].status \in Auth!TERMINAL_STATUSES
        /\ issued'[k] \in Nat /\ issued'[k] >= issued[k]

\* Marking changes the status of the entry posted, and nothing else.
LEMMA MarkedCards ==
    ASSUME IInv, batch # {}, NEW st, rows' = Marked(st)
    PROVE  \A y \in rows' : \/ y \in rows
                            \/ SameCard(Head, y) /\ y.status = st /\ Head \in rows
<1>1. Head \in rows /\ \A x \in rows : x.id = Head.id => x = Head
  BY HeadIsClaimed DEF IInv
<1>2. SameCard(Head, [Head EXCEPT !.status = st]) /\ [Head EXCEPT !.status = st].status = st
  BY <1>1 DEF SameCard, IInv, TypeOK, Row
<1> QED BY <1>1, <1>2 DEF Marked, WithStatus

\* mark_retry puts the entry posted back, and changes nothing else.
LEMMA RetriedCards ==
    ASSUME IInv, batch # {}, NEW w \in Backoffs, rows' = Retried(w)
    PROVE  \A y \in rows' : \/ y \in rows
                            \/ SameCard(Head, y) /\ y.status = "pending" /\ Head \in rows
<1> DEFINE h == [Head EXCEPT !.status = "pending", !.wait = w]
<1>1. Head \in rows
  BY HeadIsClaimed DEF IInv
<1>2. SameCard(Head, h) /\ h.status = "pending"
  BY <1>1 DEF SameCard, IInv, TypeOK, Row
<1> QED BY <1>1, <1>2 DEF Retried

\* Recovering, claiming and releasing deliver nothing.
LEMMA DrainerCards ==
    ASSUME IInv, StartDrainLoop \/ ClaimDue \/ Release
    PROVE  CardsCarried
<1>1. \A x \in rows : SameCard(x, x) /\ x \in Row
  BY DEF SameCard, IInv, TypeOK
<1>2. CASE StartDrainLoop
  <2>1. \A x \in rows : /\ SameCard(x, [x EXCEPT !.status = "pending"])
                        /\ [x EXCEPT !.status = "pending"].status = "pending"
    BY <1>1 DEF SameCard, Row
  <2>2. CASE UNCHANGED rows
    BY <1>1, <2>2 DEF CardsCarried
  <2>3. ASSUME NEW ids, rows' = WithStatus(ids, "pending") PROVE CardsCarried
    BY <1>1, <2>1, <2>3 DEF WithStatus, CardsCarried
  <2> QED BY <1>2, <2>2, <2>3 DEF StartDrainLoop
<1>3. CASE ClaimDue
  <2> DEFINE f(x) == IF x \in FirstDue THEN [x EXCEPT !.status = "delivering"]
                     ELSE IF x.wait > 0 THEN [x EXCEPT !.wait = @ - 1] ELSE x
  <2>1. \A x \in rows : SameCard(x, f(x)) /\ f(x).status \in {"delivering", x.status}
    BY <1>1 DEF SameCard, Row
  <2>2. rows' = {f(x) : x \in rows}
    BY <1>3 DEF ClaimDue
  <2> HIDE DEF f
  <2> QED BY <2>1, <2>2 DEF CardsCarried
<1>4. CASE Release
  <2>1. batch # {} /\ rows' = Marked("pending")
    BY <1>4 DEF Release, IInv, BatchInFlight
  <2> QED BY <1>1, <2>1, MarkedCards DEF CardsCarried
<1> QED BY <1>2, <1>3, <1>4

\* enqueue adds the staged event and keeps the claimed rows.
LEMMA EnqueuedCards ==
    ASSUME IInv, NEW e \in Event, Enqueue(e)
    PROVE  /\ \A y \in rows' :
                 \/ y \in rows
                 \/ /\ y.key = e.key /\ y.version = e.version /\ y.terminal = e.terminal
                    /\ y.status = "pending"
           /\ \A x \in rows : x.status = "delivering" => x \in rows'
  BY DEF Enqueue, Coalesced, Inserted

\* The entry about to be settled stays it while neither it nor the batch changes.
LEMMA HeadKept ==
    ASSUME IInv, RowsNumbered', batch # {}, batch' = batch, Head \in rows'
    PROVE  Head' = Head
<1>1. Head.id = Min(batch')
  BY HeadIsClaimed DEF IInv
<1>2. Head' \in rows' /\ (Head').id = Min(batch')
  BY <1>1, Zenon DEF Head
<1> QED BY <1>1, <1>2 DEF RowsNumbered

-----------------------------------------------------------------------------
(* The invariant, one part at a time.                                       *)

\* Nobody speaks of anything new.
LEMMA VoiceKept ==
    ASSUME OneVoice, Said' \subseteq Said, UNCHANGED issued
    PROVE  OneVoice'
  BY DEF OneVoice

\* The words of the cards carried over were said before.
LEMMA SaidCarried ==
    ASSUME \A y \in rows' : \E x \in rows : SameCard(x, y),
           staging' \subseteq staging, UNCHANGED <<late, cards>>
    PROVE  Said' \subseteq Said
  BY DEF SameCard, Said

\* Standing still is an advance.
LEMMA NoChange ==
    ASSUME DInv, UNCHANGED <<cards, issued>> PROVE Advance
  BY DEF Advance, DInv, LinkTyped, IInv, TypeOK, Auth!Card

\* A committed card stays committed while cards and versions advance.
LEMMA CommittedKept ==
    ASSUME DInv, LinkTyped', Advance, NEW x \in rows, x.key \in CardKeys, Committed(x),
           NEW y, SameCard(x, y)
    PROVE  Committed(y)'
<1>1. x.version \in Nat /\ issued[x.key] \in Nat
  BY DEF DInv, IInv, TypeOK, Row
<1>2. x.version <= issued[x.key]
  <2>1. Word(x.key, x.version, x.terminal) \in Said
    BY DEF Said
  <2>2. /\ Word(x.key, x.version, x.terminal).key = x.key
        /\ Word(x.key, x.version, x.terminal).version = x.version
    BY DEF Word
  <2>3. x.version \in 1..issued[x.key]
    BY <2>1, <2>2 DEF DInv, OneVoice
  <2> QED BY <2>3, <1>1
<1>3. cards[x.key].version \in Nat /\ cards'[x.key].version \in Nat
  BY DEF DInv, LinkTyped, Auth!Card
<1> QED BY <1>1, <1>2, <1>3 DEF Committed, SameCard, Advance

\* A step that delivers nothing keeps the delivered rows committed.
LEMMA DeliveredKept ==
    ASSUME DInv, LinkTyped', Advance, DeliveredCarried
    PROVE  DeliveredKnown'
<1> SUFFICES ASSUME NEW y \in rows', y.status = "delivered"
             PROVE  y.key \in CardKeys /\ Committed(y)'
  BY DEF DeliveredKnown
<1>1. PICK x \in rows : SameCard(x, y) /\ x.status = "delivered"
  BY DEF DeliveredCarried
<1>2. x.key \in CardKeys /\ Committed(x)
  BY <1>1 DEF DInv, DeliveredKnown
<1> QED BY <1>1, <1>2, CommittedKept DEF SameCard

\* An answer still to be settled holds on while its entry stays in the table.
LEMMA AnswerKept ==
    ASSUME DInv, IInv', LinkTyped', Advance, UNCHANGED <<reply, loop, batch>>,
           \A x \in rows : x.status = "delivering" => x \in rows'
    PROVE  AnswerHolds'
<1> SUFFICES ASSUME reply \in {"delivered", "stale"}
             PROVE  loop = "draining" /\ batch # {} /\ Routed' /\ Committed(Head)'
  BY DEF AnswerHolds
<1>1. loop = "draining" /\ batch # {} /\ Routed /\ Committed(Head)
  BY DEF DInv, AnswerHolds
<1>2. Head \in rows /\ Head \in rows' /\ SameCard(Head, Head) /\ Head.key \in CardKeys
  BY <1>1, HeadIsClaimed DEF DInv, IInv, SameCard, Routed
<1>3. Head' = Head
  BY <1>1, <1>2, HeadKept DEF DInv, IInv
<1>4. \A y : SameCard(Head, y) => Committed(y)'
  BY <1>1, <1>2, CommittedKept
<1> QED BY <1>1, <1>2, <1>3, <1>4 DEF Routed, Committed

-----------------------------------------------------------------------------
(* The authority's handler.                                                 *)

\* A request the replica can have sent.
Sendable(q) ==
    /\ q \in [run : Runs, version : 1..MaxVersion,
              status : {"running", "succeeded"}, epoch : 1..MaxEpoch]
    /\ Word(q.run, q.version, q.status = "succeeded") \in Said

\* The handler commits a card of a request or leaves the cards alone; either
\* way they advance, and config is the process's.
LEMMA HandledCards ==
    ASSUME DInv, NEW q, Sendable(q), Handle(q)
    PROVE  /\ cards' \in [CardKeys -> Auth!Card] /\ config' = config
           /\ \/ cards' = cards
              \/ /\ cards' = [cards EXCEPT ![q.run] =
                                [version |-> q.version, status |-> q.status]]
                 /\ Auth!decide(cards[q.run], q.version, q.status) = "applied"
           /\ Answer(q) \in {"delivered", "stale"} /\ cards' = cards =>
                Auth!decide(cards[q.run], q.version, q.status) \in {"duplicate", "stale"}
<1>1. q.run \in CardKeys /\ q.version \in 1..MaxVersion /\ q.status \in {"running", "succeeded"}
  BY DEF Sendable, Runs
<1>2. q.version \in Nat /\ q.version # Auth!None /\ q.version # 0
  BY <1>1, OutboxBounds DEF Auth!None
<1>3. cards[q.run] \in Auth!Card
  BY <1>1 DEF DInv, LinkTyped
<1>4. [version |-> q.version, status |-> q.status] \in Auth!Card
  BY <1>1, <1>2 DEF Auth!Card, Auth!RUN_STATUSES, Auth!TERMINAL_STATUSES
<1>5. Auth!Asked(q.run, q.version) = q.version
  BY <1>2 DEF Auth!Asked
<1>6. CASE Answer(q) \in {"delivered", "stale"}
  <2>1. Auth!ApplyRunCardUpdate(q.run, q.version, q.status)
    BY <1>6 DEF Handle, Auth!IngestRelayedCard
  <2>2. config' = config
    BY <2>1 DEF Auth!ApplyRunCardUpdate
  <2>3. CASE Auth!decide(cards[q.run], q.version, q.status) = "applied"
    <3>1. cards' = [cards EXCEPT ![q.run] = [version |-> q.version, status |-> q.status]]
      BY <2>1, <2>3, <1>5 DEF Auth!ApplyRunCardUpdate, Auth!RecordApplied
    <3>2. cards'[q.run].version = q.version /\ q.version > cards[q.run].version
      BY <3>1, <2>3, <1>1, <1>2, <1>3 DEF DInv, LinkTyped, Auth!decide, Auth!Card
    <3>3. cards' # cards
      BY <3>2, <1>2, <1>3 DEF Auth!Card
    <3> QED BY <2>2, <2>3, <3>1, <3>3, <1>4, <1>1 DEF DInv, LinkTyped
  <2>4. CASE Auth!decide(cards[q.run], q.version, q.status) # "applied"
    <3>1. cards' = cards
      BY <2>1, <2>4, <1>5 DEF Auth!ApplyRunCardUpdate
    <3>2. Auth!decide(cards[q.run], q.version, q.status) \in {"duplicate", "stale"}
      BY <2>4 DEF Auth!decide
    <3> QED BY <2>2, <3>1, <3>2 DEF DInv, LinkTyped
  <2> QED BY <2>3, <2>4
<1>7. CASE Answer(q) \notin {"delivered", "stale"}
  BY <1>7 DEF Handle, authority, DInv, LinkTyped
<1> QED BY <1>6, <1>7

\* Stored cards advance: no version falls, no final card is reopened.
LEMMA HandledAdvance ==
    ASSUME DInv, NEW q, Sendable(q), Handle(q), NEW k \in CardKeys
    PROVE  /\ cards'[k].version >= cards[k].version
           /\ cards[k].status \in Auth!TERMINAL_STATUSES
                => cards'[k].status \in Auth!TERMINAL_STATUSES
<1>1. cards[k] \in Auth!Card /\ cards[k].version \in Nat
  BY DEF DInv, LinkTyped, Auth!Card
<1>2. CASE cards' = cards
  BY <1>1, <1>2
<1>3. CASE /\ cards' = [cards EXCEPT ![q.run] = [version |-> q.version, status |-> q.status]]
           /\ Auth!decide(cards[q.run], q.version, q.status) = "applied"
  <2>1. q.version \in Nat
    BY OutboxBounds DEF Sendable
  <2>2. CASE k = q.run
    BY <1>1, <1>3, <2>1, <2>2 DEF DInv, LinkTyped, Auth!decide
  <2>3. CASE k # q.run
    BY <1>1, <1>3, <2>3 DEF DInv, LinkTyped
  <2> QED BY <2>2, <2>3
<1> QED BY <1>2, <1>3, HandledCards

\* What is stored was said by the request.
LEMMA HandledVoice ==
    ASSUME DInv, NEW q, Sendable(q), Handle(q), UNCHANGED <<staging, rows>>, late' \subseteq late
    PROVE  Said' \subseteq Said
<1>1. \A k \in CardKeys : cards'[k].version # 0 =>
         Word(k, cards'[k].version, cards'[k].status \in Auth!TERMINAL_STATUSES) \in Said
  <2>1. CASE cards' = cards
    BY <2>1 DEF Said
  <2>2. CASE cards' = [cards EXCEPT ![q.run] = [version |-> q.version, status |-> q.status]]
    <3> SUFFICES ASSUME NEW k \in CardKeys, cards'[k].version # 0
                 PROVE  Word(k, cards'[k].version,
                             cards'[k].status \in Auth!TERMINAL_STATUSES) \in Said
      OBVIOUS
    <3>1. CASE k = q.run
      <4>1. cards'[k].version = q.version /\ cards'[k].status = q.status
        BY <2>2, <3>1 DEF DInv, LinkTyped
      <4>2. q.status \in Auth!TERMINAL_STATUSES <=> q.status = "succeeded"
        BY DEF Sendable, Auth!TERMINAL_STATUSES
      <4> QED BY <3>1, <4>1, <4>2 DEF Sendable
    <3>2. CASE k # q.run
      <4>1. cards'[k] = cards[k]
        BY <2>2, <3>2 DEF DInv, LinkTyped
      <4> QED BY <4>1 DEF Said
    <3> QED BY <3>1, <3>2
  <2> QED BY <2>1, <2>2, HandledCards
<1> QED BY <1>1 DEF Said

\* An answer that settles a card is given only when the card is committed.
LEMMA HandledCommits ==
    ASSUME DInv, NEW q, Sendable(q), Handle(q), Answer(q) \in {"delivered", "stale"},
           UNCHANGED issued,
           NEW x \in rows, x.key = q.run, x.version = q.version,
           q.status = IF x.terminal THEN "succeeded" ELSE "running"
    PROVE  Committed(x)'
<1> DEFINE c == cards[x.key]
           F == Auth!TERMINAL_STATUSES
<1>1. /\ x.key \in CardKeys /\ x.terminal \in BOOLEAN /\ x.version \in Nat /\ x.version # 0
      /\ c.version \in Nat /\ issued[x.key] \in Nat
  BY OutboxBounds DEF Sendable, Runs, DInv, LinkTyped, IInv, TypeOK, Row, Auth!Card
<1>2. c.version <= issued[x.key]
  <2>1. CASE c.version = 0
    BY <1>1, <2>1
  <2>2. CASE c.version # 0
    <3>1. Word(x.key, c.version, c.status \in F) \in Said
      BY <1>1, <2>2 DEF Said
    <3> QED BY <1>1, <3>1 DEF DInv, OneVoice, Word
  <2> QED BY <2>1, <2>2
<1>3. "succeeded" \in F /\ "running" \notin F
  BY DEF Auth!TERMINAL_STATUSES
<1>4. CASE cards' = [cards EXCEPT ![q.run] = [version |-> q.version, status |-> q.status]]
  <2>1. cards'[x.key].version = x.version /\ cards'[x.key].status = q.status
    BY <1>1, <1>4 DEF DInv, LinkTyped
  <2> QED BY <1>1, <1>3, <2>1 DEF Committed
<1>5. CASE cards' = cards /\ Auth!decide(c, x.version, q.status) = "duplicate"
  <2>1. c.version = x.version
    BY <1>5 DEF Auth!decide
  <2>2. Word(x.key, c.version, c.status \in F) \in Said
    BY <1>1, <2>1 DEF Said
  <2>3. Word(x.key, x.version, x.terminal) \in Said
    BY <1>1 DEF Said
  <2>4. x.terminal = (c.status \in F)
    BY <2>1, <2>2, <2>3, Zenon DEF DInv, OneVoice, Word
  <2>5. x.terminal => c.status \in F
    BY <2>4
  <2>6. cards'[x.key].version = x.version /\ (x.terminal => cards'[x.key].status \in F)
    BY <1>5, <2>1, <2>5
  <2> HIDE DEF F
  <2> QED BY <1>1, <2>6 DEF Committed, F
<1>6. CASE cards' = cards /\ Auth!decide(c, x.version, q.status) = "stale"
  <2>1. \/ x.version <= c.version /\ ~ (c.version # 0 /\ x.version = c.version)
        \/ c.status \in F /\ q.status \notin F
    BY <1>1, <1>6 DEF Auth!decide
  <2>2. CASE x.version < c.version
    BY <1>1, <1>2, <1>6, <2>2 DEF Committed
  <2>3. CASE c.status \in F /\ q.status \notin F
    BY <1>1, <1>3, <1>6, <2>3 DEF Committed
  <2> QED BY <1>1, <2>1, <2>2, <2>3
<1> QED BY <1>4, <1>5, <1>6, HandledCards

\* The post under way is a request the replica can send, for the batch's head.
LEMMA PostedRequest ==
    ASSUME DInv, Posting
    PROVE  /\ Head \in rows /\ Head.key \in CardKeys
           /\ Sendable(Request)
           /\ Request.run = Head.key /\ Request.version = Head.version
           /\ Request.status = IF Head.terminal THEN "succeeded" ELSE "running"
<1>1. Head \in rows /\ Head.key \in CardKeys
  BY HeadIsClaimed DEF Posting, Routed, DInv, IInv
<1>2. Word(Head.key, Head.version, Head.terminal) \in Said
  BY <1>1 DEF Said
<1>3. Head.version \in 1..issued[Head.key]
  BY <1>2 DEF DInv, OneVoice, Word
<1>4. Head.version \in 1..MaxVersion
  BY <1>1, <1>3, OutboxBounds DEF DInv, LinkTyped, IInv, TypeOK
<1>5. /\ Request.run = Head.key /\ Request.version = Head.version
      /\ Request.status = IF Head.terminal THEN "succeeded" ELSE "running"
  BY DEF Request
<1>6. Request \in [run : Runs, version : 1..MaxVersion,
                   status : {"running", "succeeded"}, epoch : 1..MaxEpoch]
  BY <1>1, <1>4 DEF Request, Runs, DInv, LinkTyped
<1>7. (Request.status = "succeeded") = Head.terminal
  BY <1>1, <1>5 DEF DInv, IInv, TypeOK, Row
<1>8. Word(Request.run, Request.version, Request.status = "succeeded") \in Said
  BY <1>2, <1>5, <1>7
<1> QED BY <1>1, <1>5, <1>6, <1>8 DEF Sendable

\* A request in transit can be sent again.
LEMMA LateSendable ==
    ASSUME DInv, NEW q \in late PROVE Sendable(q)
  BY DEF DInv, LinkTyped, Sendable, Said

-----------------------------------------------------------------------------
(* The steps of the system.                                                 *)

\* The handler's cards advance, say nothing new, and keep the link's types.
LEMMA HandlerStep ==
    ASSUME DInv, IInv', NEW q, Sendable(q), Handle(q),
           UNCHANGED <<replica, senderEpoch, restarts, lost>>, late' \subseteq late, reply' \in Replies \cup {Waiting}
    PROVE  LinkTyped' /\ OneVoice' /\ Advance /\ DeliveredKnown'
<1>1. UNCHANGED <<rows, issued, staging, loop, batch>>
  BY DEF replica, vars
<1>2. LinkTyped'
  BY <1>1, HandledCards DEF DInv, LinkTyped
<1>3. OneVoice'
  BY <1>1, HandledVoice, VoiceKept DEF DInv
<1>4. Advance
  BY <1>1, HandledAdvance DEF Advance, DInv, IInv, TypeOK
<1>5. DeliveredCarried
  BY <1>1 DEF DeliveredCarried, SameCard
<1> QED BY <1>2, <1>3, <1>4, <1>5, DeliveredKept

\* Producing a card or a signal: what is said is said of versions just issued,
\* or was staged before.
LEMMA ProduceStep ==
    ASSUME DInv, IInv', Produce, UNCHANGED <<authority, link>>
    PROVE  DInv'
<1>1. /\ UNCHANGED <<config, cards, senderEpoch, reply, late, restarts, lost>>
  BY DEF authority, link
<1>2. /\ UNCHANGED <<loop, batch>>
      /\ \A x \in rows : x.status = "delivering" => x \in rows'
      /\ DeliveredCarried
  <2>1. \A x \in rows : SameCard(x, x)
    BY DEF SameCard
  <2>2. ASSUME UNCHANGED rows
        PROVE  DeliveredCarried /\ \A x \in rows : x.status = "delivering" => x \in rows'
    BY <2>1, <2>2 DEF DeliveredCarried
  <2>3. ASSUME NEW e \in Event, Enqueue(e)
        PROVE  DeliveredCarried /\ \A x \in rows : x.status = "delivering" => x \in rows'
    BY <2>1, <2>3, EnqueuedCards DEF DeliveredCarried, DInv
  <2>4. \A e \in staging : e \in Event
    BY DEF DInv, IInv, TypeOK
  <2>5. \A k \in SignalKeys, z \in Sizes :
           [key |-> k, version |-> 1, terminal |-> TRUE, size |-> z] \in Event
    BY Constants DEF Event, Keys
  <2>6. CASE \E k \in CardKeys, t \in BOOLEAN, z \in Sizes : NextCardVersion(k, t, z)
    BY <2>2, <2>6 DEF NextCardVersion
  <2>7. CASE \E e \in staging : StageRunCard(e)
    BY <2>2, <2>3, <2>4, <2>7 DEF StageRunCard
  <2>8. CASE \E k \in SignalKeys, z \in Sizes : ForwardSignal(k, z)
    BY <2>3, <2>5, <2>8 DEF ForwardSignal
  <2> QED BY <2>6, <2>7, <2>8 DEF Produce
<1>3. LinkTyped' /\ Advance /\ OneVoice'
  <2>1. CASE UNCHANGED issued
    <3>1. LinkTyped'
      BY <1>1, <2>1 DEF DInv, LinkTyped
    <3>2. Advance
      BY <1>1, <2>1, NoChange
    <3>3. ASSUME NEW e \in Event, Enqueue(e), e \in staging \/ e.key \notin CardKeys,
                 staging' \subseteq staging
          PROVE  Said' \subseteq Said
      <4>1. \A y \in rows' : y.key \in CardKeys =>
               Word(y.key, y.version, y.terminal) \in Said
        BY <3>3, EnqueuedCards DEF Said, DInv
      <4> QED BY <1>1, <3>3, <4>1 DEF Said
    <3>4. Said' \subseteq Said
      <4>1. CASE \E e \in staging : StageRunCard(e)
        <5>1. PICK e \in staging : StageRunCard(e)
          BY <4>1
        <5>2. e \in Event /\ staging' \subseteq staging
          BY <5>1 DEF StageRunCard, DInv, IInv, TypeOK
        <5>3. Enqueue(e) \/ UNCHANGED rows
          BY <5>1 DEF StageRunCard
        <5> QED BY <1>1, <3>3, <5>2, <5>3 DEF Said
      <4>2. CASE \E k \in SignalKeys, z \in Sizes : ForwardSignal(k, z)
        <5>1. PICK k \in SignalKeys, z \in Sizes : ForwardSignal(k, z)
          BY <4>2
        <5> DEFINE e == [key |-> k, version |-> 1, terminal |-> TRUE, size |-> z]
        <5>2. Enqueue(e) /\ UNCHANGED staging
          BY <5>1 DEF ForwardSignal
        <5>3. e \in Event /\ e.key \notin CardKeys
          BY Constants, KeysAssumption DEF Event, Keys
        <5> HIDE DEF e
        <5> QED BY <3>3, <5>2, <5>3
      <4>3. CASE \E k \in CardKeys, t \in BOOLEAN, z \in Sizes : NextCardVersion(k, t, z)
        BY <2>1, <4>3 DEF NextCardVersion, DInv, IInv, TypeOK
      <4> QED BY <4>1, <4>2, <4>3 DEF Produce
    <3> QED BY <2>1, <3>1, <3>2, <3>4, VoiceKept DEF DInv
  <2>2. CASE \E k \in CardKeys, t \in BOOLEAN, z \in Sizes : NextCardVersion(k, t, z)
    <3>1. PICK k \in CardKeys, t \in BOOLEAN, z \in Sizes : NextCardVersion(k, t, z)
      BY <2>2
    <3> DEFINE n == issued[k] + 1
    <3>2. /\ issued' = [issued EXCEPT ![k] = n] /\ UNCHANGED rows
          /\ staging' = staging \cup {[key |-> k, version |-> n, terminal |-> t, size |-> z]}
      BY <3>1 DEF NextCardVersion
    <3>3. n \in Nat /\ n >= 1 /\ n <= MaxVersion /\ n > issued[k] /\ issued \in [CardKeys -> Nat]
      BY <3>1, OutboxBounds DEF NextCardVersion, DInv, IInv, TypeOK
    <3> HIDE DEF n
    <3>4. issued'[k] = n /\ \A j \in CardKeys : j # k => issued'[j] = issued[j]
      BY <3>2, <3>3
    <3>5. LinkTyped'
      BY <1>1, <3>4 , <3>3 DEF DInv, LinkTyped
    <3>6. Advance
      BY <1>1, <3>3, <3>4 DEF Advance, DInv, LinkTyped, Auth!Card
    <3>7. Said' \subseteq Said \cup {Word(k, n, t)}
      BY <1>1, <3>2 DEF Said
    <3>8. \A a \in Said : a.key = k => a.version # n
      BY <3>3 DEF DInv, OneVoice
    <3>9. Word(k, n, t).key = k /\ Word(k, n, t).version = n
      BY DEF Word
    <3>10. OneVoice'
      <4>1. \A a \in Said' : a.key \in CardKeys /\ a.version \in 1..issued'[a.key]
        <5> SUFFICES ASSUME NEW a \in Said'
                     PROVE  a.key \in CardKeys /\ a.version \in 1..issued'[a.key]
          OBVIOUS
        <5>1. CASE a \in Said
          BY <5>1, <3>3, <3>4 DEF DInv, OneVoice
        <5>2. CASE a = Word(k, n, t)
          BY <5>2, <3>3, <3>4, <3>9
        <5> QED BY <3>7, <5>1, <5>2
      <4>2. \A a, b \in Said' : a.key = b.key /\ a.version = b.version => a.terminal = b.terminal
        BY <3>7, <3>8, <3>9 DEF DInv, OneVoice
      <4> QED BY <4>1, <4>2 DEF OneVoice
    <3> QED BY <3>5, <3>6, <3>10
  <2> QED BY <2>1, <2>2 DEF Produce, StageRunCard, ForwardSignal
<1>4. DeliveredKnown' /\ AnswerHolds'
  BY <1>1, <1>2, <1>3, DeliveredKept, AnswerKept
<1> QED BY <1>3, <1>4 DEF DInv

\* Recovering, claiming and releasing happen with no answer to settle.
LEMMA DrainerStep ==
    ASSUME DInv, IInv', StartDrainLoop \/ ClaimDue \/ Release, UNCHANGED <<authority, link>>
    PROVE  DInv'
<1>1. UNCHANGED <<config, cards, senderEpoch, reply, late, restarts, lost, issued, staging>>
  BY DEF authority, link, StartDrainLoop, ClaimDue, Release
<1>2. CardsCarried
  BY DrainerCards DEF DInv
<1>3. LinkTyped' /\ Advance
  BY <1>1, NoChange DEF DInv, LinkTyped
<1>4. OneVoice'
  BY <1>1, <1>2, SaidCarried, VoiceKept DEF CardsCarried, DInv
<1>5. DeliveredKnown'
  BY <1>2, <1>3, DeliveredKept DEF CardsCarried, DeliveredCarried
<1>6. AnswerHolds'
  BY <1>1 DEF DInv, AnswerHolds, StartDrainLoop, ClaimDue, Release
<1> QED BY <1>3, <1>4, <1>5, <1>6 DEF DInv

\* The exchange whose response arrives: the answer speaks for the batch's head.
LEMMA ExchangeStep ==
    ASSUME DInv, IInv', Exchange
    PROVE  DInv'
<1>1. Posting /\ Handle(Request) /\ reply' = Answer(Request) /\ UNCHANGED <<replica, late>>
  BY DEF Exchange
<1>2. Sendable(Request) /\ Head \in rows /\ Head.key \in CardKeys
  BY <1>1, PostedRequest
<1>3. Answer(Request) \in Replies
  BY DEF Answer, Auth!IngestReply, Replies
<1>4. LinkTyped' /\ OneVoice' /\ DeliveredKnown'
  BY <1>1, <1>2, <1>3, HandlerStep DEF Exchange
<1>5. AnswerHolds'
  <2> SUFFICES ASSUME Answer(Request) \in {"delivered", "stale"}
               PROVE  (loop = "draining" /\ batch # {} /\ Routed /\ Committed(Head))'
    BY <1>1 DEF AnswerHolds
  <2>1. UNCHANGED <<rows, issued, loop, batch>>
    BY <1>1 DEF replica, vars
  <2>2. Head' = Head
    BY <2>1 DEF Head
  <2>3. \A x \in rows : x = Head => Committed(x)'
    BY <1>1, <1>2, <2>1, PostedRequest, HandledCommits
  <2>4. Committed(Head)'
    BY <1>2, <2>2, <2>3 DEF Committed
  <2> QED BY <1>1, <2>1, <2>2, <2>4 DEF Posting, Routed
<1> QED BY <1>4, <1>5 DEF DInv

\* Lost responses, lost requests and late arrivals settle nothing.
LEMMA NetworkStep ==
    ASSUME DInv, IInv', ResponseLost \/ RequestLost \/ LateArrival
    PROVE  DInv'
<1>1. CASE ResponseLost
  <2>1. Sendable(Request) /\ Handle(Request)
    BY <1>1, PostedRequest DEF ResponseLost
  <2>2. LinkTyped' /\ OneVoice' /\ DeliveredKnown'
    BY <1>1, <2>1, HandlerStep DEF ResponseLost, Replies
  <2>3. AnswerHolds'
    BY <1>1 DEF ResponseLost, AnswerHolds
  <2> QED BY <2>2, <2>3 DEF DInv
<1>2. CASE RequestLost
  <2>1. /\ UNCHANGED <<rows, issued, staging, loop, batch, cards, config, senderEpoch,
                       restarts, lost>>
        /\ late' = late \/ late' = late \cup {Request}
        /\ reply' = "unavailable"
    BY <1>2 DEF RequestLost, replica, authority, vars
  <2>2. Sendable(Request)
    BY <1>2, PostedRequest DEF RequestLost
  <2>3. LinkTyped'
    BY <2>1, <2>2 DEF DInv, LinkTyped, Sendable, Replies
  <2>4. Said' \subseteq Said
    BY <2>1, <2>2 DEF Said, Sendable
  <2>5. OneVoice'
    BY <2>1, <2>4, VoiceKept DEF DInv
  <2>6. DeliveredCarried
    BY <2>1 DEF DeliveredCarried, SameCard
  <2>7. DeliveredKnown' /\ AnswerHolds'
    BY <2>1, <2>3, <2>6, NoChange, DeliveredKept DEF AnswerHolds
  <2> QED BY <2>3, <2>5, <2>7 DEF DInv
<1>3. CASE LateArrival
  <2>1. PICK q \in late : Handle(q) /\ late' = late \ {q}
    BY <1>3 DEF LateArrival
  <2>2. UNCHANGED <<replica, senderEpoch, reply, restarts, lost>>
    BY <1>3 DEF LateArrival
  <2>3. Sendable(q)
    BY LateSendable
  <2>4. LinkTyped' /\ OneVoice' /\ Advance /\ DeliveredKnown'
    BY <2>1, <2>2, <2>3, HandlerStep DEF DInv, LinkTyped
  <2>5. AnswerHolds'
    BY <2>2, <2>4, AnswerKept DEF replica, vars
  <2> QED BY <2>4, <2>5 DEF DInv
<1> QED BY <1>1, <1>2, <1>3

\* Settling marks the head delivered only on an answer that holds.
LEMMA SettleStep ==
    ASSUME DInv, IInv', SettlePost
    PROVE  DInv'
<1>1. /\ batch # {} /\ Outcome # Waiting /\ Post(Outcome) /\ reply' = Waiting
      /\ UNCHANGED <<config, cards, senderEpoch, late, restarts, lost>>
  BY DEF SettlePost, authority
<1>2. UNCHANGED <<issued, staging>>
  BY <1>1 DEF Post, Settle
<1>3. Head \in rows /\ \A x \in rows : SameCard(x, x)
  BY <1>1, HeadIsClaimed DEF DInv, IInv, SameCard
<1>4. LinkTyped' /\ Advance
  BY <1>1, <1>2, NoChange DEF DInv, LinkTyped
<1>5. \/ /\ Outcome \in {"delivered", "stale"}
         /\ rows' = Marked("delivered")
      \/ rows' = Marked("dead")
      \/ \E w \in Backoffs : rows' = Retried(w)
  BY <1>1 DEF Post, Settle
<1>6. AnswerHolds'
  BY <1>1 DEF AnswerHolds, Waiting
<1>7. CASE Outcome \in {"delivered", "stale"} /\ rows' = Marked("delivered")
  <2>1. Routed /\ reply \in {"delivered", "stale"}
    BY <1>7 DEF Outcome
  <2>2. Head.key \in CardKeys /\ Committed(Head)
    BY <2>1 DEF Routed, DInv, AnswerHolds
  <2>3. \A y \in rows' : y \in rows \/ SameCard(Head, y)
    BY <1>1, <1>7, MarkedCards DEF DInv
  <2>4. OneVoice'
    BY <1>1, <1>2, <1>3, <2>3, SaidCarried, VoiceKept DEF DInv
  <2>5. DeliveredKnown'
    <3> SUFFICES ASSUME NEW y \in rows', y.status = "delivered"
                 PROVE  y.key \in CardKeys /\ Committed(y)'
      BY DEF DeliveredKnown
    <3>1. CASE y \in rows
      BY <1>3, <1>4, <3>1, CommittedKept DEF DInv, DeliveredKnown
    <3>2. CASE SameCard(Head, y)
      BY <1>3, <1>4, <2>2, <3>2, CommittedKept DEF SameCard
    <3> QED BY <2>3, <3>1, <3>2
  <2> QED BY <1>4, <1>6, <2>4, <2>5 DEF DInv
<1>8. CASE rows' = Marked("dead") \/ \E w \in Backoffs : rows' = Retried(w)
  <2>1. \A y \in rows' : \/ y \in rows
                         \/ SameCard(Head, y) /\ y.status \in {"dead", "pending"}
    BY <1>1, <1>8, MarkedCards, RetriedCards DEF DInv
  <2>2. OneVoice'
    BY <1>1, <1>2, <1>3, <2>1, SaidCarried, VoiceKept DEF DInv
  <2>3. DeliveredKnown'
    BY <1>3, <1>4, <2>1, DeliveredKept DEF DeliveredCarried
  <2> QED BY <1>4, <1>6, <2>2, <2>3 DEF DInv
<1> QED BY <1>5, <1>7, <1>8

\* Restarts and new settings forget the post under way.
LEMMA OperatorStep ==
    ASSUME DInv, IInv', RestartReplica \/ UpdateSettings \/ RestartAuthority
    PROVE  DInv'
<1>1. UNCHANGED <<rows, issued, cards, late, lost>> /\ staging' \subseteq staging
  BY DEF RestartReplica, UpdateSettings, RestartAuthority, Crash, Auth!Restart, authority,
         link, replica, vars
<1>2. LinkTyped'
  <2>1. CASE RestartReplica
    BY <1>1, <2>1, DeliveryBounds DEF RestartReplica, DInv, LinkTyped, authority
  <2>2. CASE UpdateSettings
    BY <1>1, <2>2 DEF UpdateSettings, DInv, LinkTyped, authority
  <2>3. CASE RestartAuthority
    <3>1. PICK e \in config.epoch..MaxEpoch : config' = AuthorityAt(e)
      BY <2>3 DEF RestartAuthority, Auth!Restart
    <3>2. e \in 1..MaxEpoch /\ AuthorityAt(e).epoch = e
      BY <3>1, DeliveryBounds DEF DInv, LinkTyped, AuthorityAt
    <3> QED BY <1>1, <2>3, <3>1, <3>2 DEF RestartAuthority, link, DInv, LinkTyped
  <2> QED BY <2>1, <2>2, <2>3
<1>3. Advance
  BY <1>1, NoChange
<1>4. (\A y \in rows' : \E x \in rows : SameCard(x, y)) /\ DeliveredCarried
  BY <1>1 DEF DeliveredCarried, SameCard
<1>5. OneVoice' /\ DeliveredKnown'
  BY <1>1, <1>2, <1>3, <1>4, SaidCarried, VoiceKept, DeliveredKept DEF DInv
<1>6. AnswerHolds'
  <2>1. CASE reply' = Waiting
    BY <2>1 DEF AnswerHolds, Waiting
  <2>2. CASE RestartAuthority
    BY <1>2, <1>3, <2>2, AnswerKept DEF RestartAuthority, replica, vars, link
  <2> QED BY <2>1, <2>2 DEF RestartReplica, UpdateSettings
<1> QED BY <1>2, <1>5, <1>6 DEF DInv

\* Every step of the system keeps the invariant.
LEMMA DeliveryKeeps ==
    ASSUME DInv, DeliveryNext
    PROVE  DInv'
<1>1. IInv'
  <2>1. CASE Next
    BY <2>1, StepKeeps DEF DInv
  <2>2. CASE UNCHANGED vars
    BY <2>2, StutterKeeps DEF DInv
  <2> QED BY <2>1, <2>2, OutboxStep
<1> QED BY <1>1, ProduceStep, DrainerStep, ExchangeStep, NetworkStep, SettleStep, OperatorStep
        DEF DeliveryNext, Replica

\* The invariant holds in every state of the system.
THEOREM DeliveryInvariance == DeliverySpec => []DInv
<1>1. DeliveryInit => DInv
  <2> SUFFICES ASSUME DeliveryInit PROVE DInv
    OBVIOUS
  <2>1. IInv
    BY InitHolds DEF DeliveryInit
  <2>2. LinkTyped
    BY OutboxBounds, DeliveryBounds
       DEF DeliveryInit, Init, LinkTyped, AuthorityAt, Runs, Auth!Card
  <2>3. Said = {}
    BY DEF DeliveryInit, Init, Said, Runs
  <2>4. OneVoice /\ DeliveredKnown /\ AnswerHolds
    BY <2>3 DEF DeliveryInit, Init, OneVoice, DeliveredKnown, AnswerHolds, Waiting
  <2> QED BY <2>1, <2>2, <2>4 DEF DInv
<1>2. DInv /\ [DeliveryNext]_system => DInv'
  <2> SUFFICES ASSUME DInv, UNCHANGED system PROVE DInv'
    BY DeliveryKeeps
  <2>1. UNCHANGED vars /\ UNCHANGED <<config, cards, senderEpoch, reply, late, restarts, lost>>
    BY DEF system, replica, authority, link
  <2>2. IInv'
    BY <2>1, StutterKeeps DEF DInv
  <2>3. LinkTyped' /\ Said' = Said /\ Head' = Head
    BY <2>1 DEF DInv, LinkTyped, Said, Head, vars
  <2>4. OneVoice' /\ DeliveredKnown' /\ AnswerHolds'
    BY <2>1, <2>3 DEF DInv, OneVoice, DeliveredKnown, AnswerHolds, Committed, Routed, vars
  <2> QED BY <2>2, <2>3, <2>4 DEF DInv
<1> QED BY <1>1, <1>2, PTL DEF DeliverySpec

\* I1 and I5 end to end, for any number of runs, versions, epochs, restarts and
\* overdue requests: a card the replica marked delivered is committed, and a
\* final card that is the last of its run leaves the authority's card final.
THEOREM DeliveredCardsAreCommitted == DeliverySpec => []DeliveredIsCommitted
<1>1. DInv => DeliveredIsCommitted
  BY DEF DInv, DeliveredKnown, Committed, DeliveredIsCommitted
<1> QED BY <1>1, DeliveryInvariance, PTL

-----------------------------------------------------------------------------
(* The hub of the delivery is the authority.                                *)

\* A handled request is an ingest of the authority, or a refusal.
LEMMA HandledIngest ==
    ASSUME NEW q, Sendable(q), Handle(q)
    PROVE  Auth!Next \/ UNCHANGED authority
<1>1. /\ q.run \in Runs /\ q.version \in 0..MaxVersion
      /\ q.status \in {"running", "succeeded"} /\ q.epoch \in 0..MaxEpoch
  BY OutboxBounds, DeliveryBounds DEF Sendable
<1> QED BY <1>1 DEF Handle, Auth!Next

\* Every step of the system is a step of the authority or leaves it alone.
LEMMA AuthorityStep ==
    ASSUME DInv, DeliveryNext
    PROVE  Auth!Next \/ UNCHANGED authority
<1>1. CASE Replica \/ RequestLost \/ SettlePost \/ RestartReplica \/ UpdateSettings
  BY <1>1 DEF Replica, RequestLost, SettlePost, RestartReplica, UpdateSettings
<1>2. CASE Exchange \/ ResponseLost
  BY <1>2, PostedRequest, HandledIngest DEF Exchange, ResponseLost
<1>3. CASE LateArrival
  BY <1>3, LateSendable, HandledIngest DEF LateArrival
<1>4. CASE RestartAuthority
  <2>1. PICK e \in config.epoch..MaxEpoch : Auth!Restart(AuthorityAt(e))
    BY <1>4 DEF RestartAuthority
  <2>2. e \in 1..MaxEpoch
    BY <2>1, DeliveryBounds DEF DInv, LinkTyped
  <2>3. AuthorityAt(e) \in Auth!Configs
    BY <2>2 DEF AuthorityAt, Auth!Configs
  <2> QED BY <2>1, <2>3 DEF Auth!Next
<1> QED BY <1>1, <1>2, <1>3, <1>4 DEF DeliveryNext

\* Behind the lossy exchange, with duplicates and late arrivals, the hub behaves
\* as the authority BarbAuthority describes.
THEOREM HubIsAuthority == DeliverySpec => Auth!Spec
<1>1. DeliveryInit => Auth!Init
  BY DEF DeliveryInit
<1>2. DInv /\ [DeliveryNext]_system => [Auth!Next]_(Auth!vars)
  <2> SUFFICES ASSUME DInv, [DeliveryNext]_system
               PROVE  Auth!Next \/ UNCHANGED authority
    BY DEF authority, Auth!vars
  <2> QED BY AuthorityStep DEF system
<1> QED BY <1>1, <1>2, DeliveryInvariance, PTL DEF DeliverySpec, Auth!Spec

\* The theorems about the authority, for the hub.
Hubs == INSTANCE BarbAuthorityProofs WITH Local <- Hub, Statuses <- {"running", "succeeded"}

\* What BarbAuthority assumes of its constants holds of the hub's.
LEMMA HubConstants ==
    /\ {"running", "succeeded"} \subseteq Hubs!RUN_STATUSES
    /\ Hub \in Nodes /\ NoNode \notin Nodes
    /\ MaxVersion \in Nat \ {0} /\ MaxEpoch \in Nat \ {0} /\ PruneEvery \in Nat \ {0}
    /\ MaxRows \in Nat /\ Batch \in Nat \ {0}
  BY OutboxBounds, HubAssumption, DeliveryBounds DEF Hubs!RUN_STATUSES, Hubs!TERMINAL_STATUSES

\* An instance has a FiniteSets of its own: the same one.
LEMMA SameCardinality == \A S : Hubs!Cardinality(S) = Auth!Cardinality(S)
  BY Zenon DEF Hubs!Cardinality, Auth!Cardinality, Hubs!IsFiniteSet, Auth!IsFiniteSet

\* The authority of the theorems is the authority of the delivery: both are
\* instances of one module, with one set of constants.
LEMMA SameRules ==
    /\ Hubs!None = Auth!None
    /\ \A c, v, s : Hubs!decide(c, v, s) = Auth!decide(c, v, s)
    /\ \A f, e, n : Hubs!check_fence(f, e, n) <=> Auth!check_fence(f, e, n)
    /\ \A f, e, n : Hubs!advance_fence(f, e, n) = Auth!advance_fence(f, e, n)
    /\ \A R, C, t, m, b : Hubs!prune_receipts(R, C, t, m, b) = Auth!prune_receipts(R, C, t, m, b)
<1>1. \A c, v, s : Hubs!decide(c, v, s) = Auth!decide(c, v, s)
  BY Zenon DEF Hubs!decide, Auth!decide, Hubs!TERMINAL_STATUSES, Auth!TERMINAL_STATUSES
<1>2. \A f, e, n : Hubs!check_fence(f, e, n) <=> Auth!check_fence(f, e, n)
  BY Zenon DEF Hubs!check_fence, Auth!check_fence
<1>3. \A f, e, n : Hubs!advance_fence(f, e, n) = Auth!advance_fence(f, e, n)
  BY Zenon DEF Hubs!advance_fence, Auth!advance_fence
<1>4. \A R, C, t, m, b : Hubs!prune_receipts(R, C, t, m, b) = Auth!prune_receipts(R, C, t, m, b)
  <2> TAKE R, C, t, m, b
  <2> DEFINE S(K) == Auth!Superseded(K, C)
             old == {x \in S(R) : x.at <= t}
             aged == Auth!Oldest(old, b)
             kept == R \ aged
             excess == Auth!Cardinality(S(kept)) - m
             room == b - Auth!Cardinality(aged)
             extra == IF excess > 0 /\ room > 0
                        THEN Auth!Oldest(S(kept), IF excess < room THEN excess ELSE room)
                        ELSE {}
  <2>1. \A K : Hubs!Superseded(K, C) = S(K)
    BY Zenon DEF Hubs!Superseded, Auth!Superseded
  <2>2. \A K, n : Hubs!Oldest(K, n) = Auth!Oldest(K, n)
    BY Zenon, SameCardinality DEF Hubs!Oldest, Auth!Oldest
  <2>3. {x \in Hubs!Superseded(R, C) : x.at <= t} = old
    BY <2>1
  <2>4. Auth!prune_receipts(R, C, t, m, b) = kept \ extra
    BY Zenon DEF Auth!prune_receipts
  <2>5. Hubs!prune_receipts(R, C, t, m, b) = kept \ extra
    <3> DEFINE h == Hubs!Oldest({x \in Hubs!Superseded(R, C) : x.at <= t}, b)
               over == Hubs!Cardinality(Hubs!Superseded(R \ h, C)) - m
               left == b - Hubs!Cardinality(h)
               more == IF over > 0 /\ left > 0
                         THEN Hubs!Oldest(Hubs!Superseded(R \ h, C),
                                          IF over < left THEN over ELSE left)
                         ELSE {}
    <3>1. h = aged
      BY <2>2, <2>3, Zenon
    <3>2. over = excess
      BY <2>1, <3>1, SameCardinality, Zenon
    <3>3. left = room
      BY <3>1, SameCardinality, Zenon
    <3>4. \A n : Hubs!Oldest(Hubs!Superseded(R \ h, C), n) = Auth!Oldest(S(kept), n)
      BY <2>1, <2>2, <3>1, Zenon
    <3>5. Hubs!prune_receipts(R, C, t, m, b) = (R \ h) \ more
      BY Zenon DEF Hubs!prune_receipts
    <3> HIDE DEF h, over, left, aged, excess, room, S, old
    <3> QED BY <3>1, <3>2, <3>3, <3>4, <3>5, Zenon
  <2> QED BY <2>4, <2>5
<1> QED BY <1>1, <1>2, <1>3, <1>4 DEF Hubs!None, Auth!None

\* The transaction of an update is the same.
LEMMA SameApply ==
    \A r, v, s : Hubs!ApplyRunCardUpdate(r, v, s) <=> Auth!ApplyRunCardUpdate(r, v, s)
<1>1. \A r, v : Hubs!Asked(r, v) = Auth!Asked(r, v)
  BY Zenon, SameRules DEF Hubs!Asked, Auth!Asked
<1>2. Hubs!Admitted <=> Auth!Admitted
  BY Zenon, SameRules DEF Hubs!Admitted, Auth!Admitted
<1>3. \A r, v, s : Hubs!RecordApplied(r, v, s) <=> Auth!RecordApplied(r, v, s)
  BY Zenon, SameRules DEF Hubs!RecordApplied, Auth!RecordApplied
<1> QED BY Zenon, SameRules, <1>1, <1>2, <1>3
        DEF Hubs!ApplyRunCardUpdate, Auth!ApplyRunCardUpdate

\* So are its steps.
LEMMA SameNext == Auth!Next => Hubs!Next
<1>1. \A r, v, s, e : Auth!IngestRelayedCard(r, v, s, e) => Hubs!IngestRelayedCard(r, v, s, e)
  BY Zenon, SameRules, SameApply
     DEF Hubs!IngestRelayedCard, Auth!IngestRelayedCard, Hubs!EpochAgrees, Auth!EpochAgrees
<1>2. \A r, s : Auth!PostRunCard(r, s) => Hubs!PostRunCard(r, s)
  BY Zenon, SameRules, SameApply DEF Hubs!PostRunCard, Auth!PostRunCard
<1>3. \A c : Auth!Restart(c) => Hubs!Restart(c)
  BY DEF Hubs!Restart, Auth!Restart
<1>4. \A e, n : Auth!AdvanceFence(e, n) => Hubs!AdvanceFence(e, n)
  BY Zenon, SameRules DEF Hubs!AdvanceFence, Auth!AdvanceFence
<1>5. Auth!Configs = Hubs!Configs
  BY DEF Hubs!Configs, Auth!Configs, Hubs!Unset, Auth!Unset
<1> QED BY Zenon, <1>1, <1>2, <1>3, <1>4, <1>5 DEF Hubs!Next, Auth!Next

\* Its behaviours are those of the delivery's authority.
LEMMA HubSpec == Auth!Spec => Hubs!Spec
<1>1. Auth!Init => Hubs!Init
  BY DEF Hubs!Init, Auth!Init, Hubs!Configs, Auth!Configs, Hubs!Unset, Auth!Unset,
         Hubs!NoFence, Auth!NoFence, Hubs!NoStatus, Auth!NoStatus
<1>2. Auth!Next => Hubs!Next
  BY SameNext
<1>3. Auth!vars = Hubs!vars
  BY DEF Hubs!vars, Auth!vars
<1>4. [Auth!Next]_(Auth!vars) => [Hubs!Next]_(Hubs!vars)
  BY <1>2, <1>3 DEF Auth!vars, Hubs!vars
<1> QED BY <1>1, <1>4, PTL DEF Hubs!Spec, Auth!Spec

\* The theorems of BarbAuthorityProofs hold of the hub.
LEMMA HubTheorems ==
    Hubs!Spec =>
        /\ [](/\ Hubs!TypeOK /\ Hubs!HeadReceiptKept /\ Hubs!AppliedOnce
              /\ Hubs!FenceCoversReceipts /\ Hubs!EpochsNeverFallBack)
        /\ Hubs!FenceMonotone
        /\ Hubs!ImplementsRegister
<1>1. {"running", "succeeded"} \subseteq Hubs!RUN_STATUSES
  BY HubConstants
<1>2. Hub \in Nodes /\ NoNode \notin Nodes
  BY HubConstants
<1>3. /\ MaxVersion \in Nat \ {0} /\ MaxEpoch \in Nat \ {0} /\ PruneEvery \in Nat \ {0}
      /\ MaxRows \in Nat /\ Batch \in Nat \ {0}
  BY HubConstants
<1> QED BY <1>1, <1>2, <1>3, Hubs!TypeCorrect, Hubs!ReplayIsAnswered, Hubs!NeverAppliedTwice,
           Hubs!CommitsAreFenced, Hubs!DemotedStaysDemoted,
           Hubs!FenceNeverFallsBack, Hubs!AuthorityIsRegister, PTL

\* With requests lost, repeated and late, the hub still answers a replay with its
\* receipt (I2), applies a version once (I2), and commits only under its fence
\* and never under an older epoch again (I4).
THEOREM HubIsSafe ==
    DeliverySpec => [](/\ Auth!HeadReceiptKept /\ Auth!AppliedOnce
                       /\ Auth!FenceCoversReceipts /\ Auth!EpochsNeverFallBack)
<1>1. Hubs!HeadReceiptKept => Auth!HeadReceiptKept
  BY DEF Hubs!HeadReceiptKept, Auth!HeadReceiptKept
<1>2. Hubs!AppliedOnce => Auth!AppliedOnce
  BY DEF Hubs!AppliedOnce, Auth!AppliedOnce
<1>3. Hubs!FenceCoversReceipts => Auth!FenceCoversReceipts
  BY DEF Hubs!FenceCoversReceipts, Auth!FenceCoversReceipts
<1>4. Hubs!EpochsNeverFallBack => Auth!EpochsNeverFallBack
  BY DEF Hubs!EpochsNeverFallBack, Auth!EpochsNeverFallBack
<1> QED BY <1>1, <1>2, <1>3, <1>4, HubIsAuthority, HubSpec, HubTheorems, PTL

\* Replica, authority and the requests between them have their types.
THEOREM DeliveryTyped == DeliverySpec => []DeliveryTypeOK
<1>1. Hubs!TypeOK => Auth!TypeOK
  BY DEF Hubs!TypeOK, Auth!TypeOK, Hubs!Configs, Auth!Configs, Hubs!Unset, Auth!Unset,
         Hubs!Card, Auth!Card, Hubs!RUN_STATUSES, Auth!RUN_STATUSES, Hubs!TERMINAL_STATUSES,
         Auth!TERMINAL_STATUSES, Hubs!NoStatus, Auth!NoStatus, Hubs!Receipt, Auth!Receipt
<1>2. DInv /\ Auth!TypeOK => DeliveryTypeOK
  BY DEF DInv, IInv, LinkTyped, DeliveryTypeOK
<1> QED BY <1>1, <1>2, DeliveryInvariance, HubIsAuthority, HubSpec, HubTheorems, PTL

\* The hub's fence only moves forward, whatever epochs the nodes run under (I4).
THEOREM HubFenceMonotone == DeliverySpec => Auth!FenceMonotone
<1>1. Hubs!FenceMonotone => Auth!FenceMonotone
  BY PTL DEF Hubs!FenceMonotone, Auth!FenceMonotone, Hubs!vars, Auth!vars
<1> QED BY <1>1, HubIsAuthority, HubSpec, HubTheorems, PTL

\* End to end a run's card is a register: what replicas send, repeat or send late
\* only ever raises its version, and a final card is only replaced by a final one (I3).
THEOREM HubIsRegister == DeliverySpec => Auth!ImplementsRegister
<1>1. Hubs!Register!Init => Auth!Register!Init
  BY DEF Hubs!Register!Init, Auth!Register!Init, Hubs!RUN_STATUSES, Auth!RUN_STATUSES,
         Hubs!TERMINAL_STATUSES, Auth!TERMINAL_STATUSES, Hubs!NoStatus, Auth!NoStatus
<1>2. Hubs!Register!Next => Auth!Register!Next
  BY DEF Hubs!Register!Next, Auth!Register!Next, Hubs!Register!Accept, Auth!Register!Accept,
         Hubs!RUN_STATUSES, Auth!RUN_STATUSES, Hubs!TERMINAL_STATUSES,
         Auth!TERMINAL_STATUSES, Hubs!NoStatus, Auth!NoStatus
<1>3. [Hubs!Register!Next]_cards => [Auth!Register!Next]_cards
  BY <1>2
<1>4. Hubs!ImplementsRegister => Auth!ImplementsRegister
  BY <1>1, <1>3, PTL DEF Hubs!ImplementsRegister, Auth!ImplementsRegister,
     Hubs!Register!Spec, Auth!Register!Spec
<1> QED BY <1>4, HubIsAuthority, HubSpec, HubTheorems, PTL

=============================================================================
