------------------------ MODULE CircularListProofs --------------------------
(***************************************************************************)
(* The two circular lists of the repository, for any numbers of nodes.     *)
(* list.h: next and prev remain each other's inverse, and no linked cell   *)
(* has a dangling link; the links implement sequences; and a loop meets    *)
(* every node that stays in its list, once.                                *)
(* lru.go: map and ring implement a cache with recency order.              *)
(***************************************************************************)
EXTENDS MCIntrusiveList, CommonLemmas, SequenceTheorems

USE ListAssumption

LinkInv == LinkType /\ InverseLinks

(* Adding a free node after the head.                                      *)
LEMMA AddInv ==
  ASSUME LinkInv, NEW l \in Heads, NEW n \in Nodes, ListAdd(l, n)
  PROVE  LinkInv'
BY DEF LinkInv, LinkType, InverseLinks, ListAdd, Free, Cells

(* Adding a free node before the head.                                     *)
LEMMA AddTailInv ==
  ASSUME LinkInv, NEW l \in Heads, NEW n \in Nodes, ListAddTail(l, n)
  PROVE  LinkInv'
BY DEF LinkInv, LinkType, InverseLinks, ListAddTail, Free, Cells

(* Taking a node out, even one that is linked to itself.                   *)
LEMMA UnlinkInv ==
  ASSUME LinkInv, NEW n \in Cells, next[n] # Null, Unlink(n)
  PROVE  LinkInv'
BY DEF LinkInv, LinkType, InverseLinks, Unlink, Cells

(* LinkInv is inductive: it needs nothing about the loop.                  *)
THEOREM LinksInvariant == Spec => []LinkInv
<1>1. Init => LinkInv
  BY DEF Init, LinkInv, LinkType, InverseLinks, Cells
<1>2. LinkInv /\ [Next]_vars => LinkInv'
  <2> SUFFICES ASSUME LinkInv, [Next]_vars PROVE LinkInv'
    OBVIOUS
  <2>1. ASSUME NEW l \in Heads, NEW n \in Nodes, ListAdd(l, n) \/ ListAddTail(l, n)
        PROVE  LinkInv'
    BY <2>1, AddInv, AddTailInv
  <2>2. ASSUME NEW n \in Nodes, ListDel(n)
        PROVE  LinkInv'
    BY <2>2, UnlinkInv DEF ListDel, Cells
  <2>3. ASSUME NEW l \in Heads, ListRemoveHead(l)
        PROVE  LinkInv'
    <3>1. next[l] \in Cells /\ next[next[l]] # Null
      BY DEF LinkInv, LinkType, InverseLinks, Cells
    <3>2. QED
      BY <2>3, <3>1, UnlinkInv DEF ListRemoveHead, First
  <2>4. CASE UNCHANGED links
    BY <2>4 DEF links, LinkInv, LinkType, InverseLinks
  <2>5. CASE \/ \E l \in Heads : ListRemoveHeadEmpty(l) \/ ForEachBegin(l)
             \/ ForEachNext \/ ForEachEnd \/ UNCHANGED vars
    BY <2>4, <2>5 DEF ListRemoveHeadEmpty, ForEachBegin, ForEachNext, ForEachEnd, vars
  <2>6. QED
    BY <2>1, <2>2, <2>3, <2>5 DEF Next
<1>3. QED
  BY <1>1, <1>2, PTL DEF Spec

(* The links of the lists are never broken, whatever sequence of calls of  *)
(* list.h is made on free nodes.                                           *)
THEOREM LinksStayInverse == Spec => []InverseLinks
<1>1. LinkInv => InverseLinks
  BY DEF LinkInv
<1>2. QED
  BY <1>1, LinksInvariant, PTL

-----------------------------------------------------------------------------
(* Circles.  The sequence s is what f leads through from the head l, back  *)
(* to l: distinct nodes.                                                   *)
Nth(l, s, i) == IF i \in 1..Len(s) THEN s[i] ELSE l

Circle(f, l, s) ==
  /\ s \in Seq(Nodes)
  /\ \A i, j \in 1..Len(s) : s[i] = s[j] => i = j
  /\ \A i \in 0..Len(s) : f[Nth(l, s, i)] = Nth(l, s, i + 1)

Elements(s) == {s[i] : i \in 1..Len(s)}

(* A walk of n steps along f, counted from a. *)
IsWalk(w, f, l, a, n) ==
  w = [i \in a..(a + n) |-> IF i = a THEN f[l] ELSE f[w[i - 1]]]

(* The recursion of a walk has a solution. *)
LEMMA WalkExists ==
  ASSUME NEW f, NEW l, NEW a \in Nat, NEW n \in Nat
  PROVE  \E w : IsWalk(w, f, l, a, n)
<1> DEFINE T == {k \in Nat : \E w : IsWalk(w, f, l, a, k)}
<1>1. 0 \in T
  <2>1. IsWalk([i \in a..(a + 0) |-> f[l]], f, l, a, 0)
    BY DEF IsWalk
  <2>2. QED
    BY <2>1
<1>2. ASSUME NEW k \in T \cap Nat
      PROVE  k + 1 \in T
  <2>1. PICK w : IsWalk(w, f, l, a, k)
    BY <1>2
  <2> DEFINE v == [i \in a..(a + (k + 1)) |-> IF i = a + (k + 1) THEN f[w[a + k]] ELSE w[i]]
  <2>2. ASSUME NEW i \in a..(a + (k + 1))
        PROVE  v[i] = IF i = a THEN f[l] ELSE f[v[i - 1]]
    <3>1. CASE i = a + (k + 1)
      <4>1. i # a /\ i - 1 = a + k /\ i - 1 \in a..(a + (k + 1)) /\ i - 1 # a + (k + 1)
        BY <1>2, <3>1
      <4>2. v[i] = f[w[a + k]] /\ v[i - 1] = w[a + k]
        BY <3>1, <4>1
      <4>3. QED
        BY <4>1, <4>2
    <3>2. CASE i # a + (k + 1)
      <4>1. i \in a..(a + k) /\ (i # a => i - 1 \in a..(a + (k + 1)) /\ i - 1 # a + (k + 1))
        BY <1>2, <3>2
      <4>2. w[i] = IF i = a THEN f[l] ELSE f[w[i - 1]]
        BY <2>1, <4>1 DEF IsWalk
      <4>3. QED
        BY <3>2, <4>1, <4>2
    <3>3. QED
      BY <3>1, <3>2
  <2>3. IsWalk(v, f, l, a, k + 1)
    BY <2>2 DEF IsWalk
  <2>4. k + 1 \in Nat
    OBVIOUS
  <2>5. QED
    BY <2>3, <2>4
<1>3. n \in T
  <2> HIDE DEF T
  <2>1. QED
    BY <1>1, <1>2, NatSet
<1>4. QED
  BY <1>3

LEMMA CircleFacts ==
  ASSUME NEW f, NEW l, l \notin Nodes, NEW s, Circle(f, l, s)
  PROVE  /\ s \in Seq(Nodes) /\ Len(s) \in Nat /\ Elements(s) \subseteq Nodes
         /\ Nth(l, s, 0) = l /\ Nth(l, s, Len(s) + 1) = l /\ f[l] = Nth(l, s, 1)
         /\ \A i \in 0..(Len(s) + 1) : Nth(l, s, i) \in Elements(s) \cup {l}
<1>1. s \in Seq(Nodes) /\ s \in [1..Len(s) -> Nodes]
  BY LenProperties DEF Circle
<1>2. Len(s) \in Nat
  BY <1>1, LenProperties
<1>3. Elements(s) \subseteq Nodes /\ \A i \in 1..Len(s) : s[i] # l
  BY <1>1 DEF Elements
<1>4. Nth(l, s, 0) = l /\ Nth(l, s, Len(s) + 1) = l
  BY <1>2 DEF Nth
<1>5. f[l] = Nth(l, s, 1)
  <2>1. 0 \in 0..Len(s) /\ 0 + 1 = 1
    BY <1>2
  <2>2. QED
    BY <1>4, <2>1 DEF Circle
<1>6. \A i \in 0..(Len(s) + 1) : Nth(l, s, i) \in Elements(s) \cup {l}
  BY <1>2 DEF Elements, Nth
<1>7. QED
  BY <1>1, <1>2, <1>3, <1>4, <1>5, <1>6

LEMMA OnCircle ==
  ASSUME NEW f, NEW l, l \notin Nodes, NEW s, Circle(f, l, s), NEW c \in Elements(s) \cup {l}
  PROVE  \E i \in 0..Len(s) : c = Nth(l, s, i)
<1>1. Len(s) \in Nat
  BY CircleFacts
<1>2. QED
  BY <1>1 DEF Elements, Nth

(* Each cell is met once on the way round. *)
LEMMA NthDistinct ==
  ASSUME NEW f, NEW l, l \notin Nodes, NEW s, Circle(f, l, s)
  PROVE  \A i, j \in 0..Len(s) : Nth(l, s, i) = Nth(l, s, j) => i = j
<1>1. Len(s) \in Nat /\ Elements(s) \subseteq Nodes
  BY CircleFacts
<1>2. \A i \in 1..Len(s) : s[i] # l
  BY <1>1 DEF Elements
<1>3. QED
  BY <1>1, <1>2 DEF Circle, Nth

(* A circle is no longer than there are nodes, so the walk comes back. *)
LEMMA CircleFits ==
  ASSUME NEW f, NEW l, NEW s, Circle(f, l, s)
  PROVE  Len(s) <= Cardinality(Nodes) /\ Cardinality(Nodes) <= Cardinality(Cells)
<1>1. s \in Seq(Nodes) /\ Len(s) \in Nat /\ s \in [1..Len(s) -> Nodes]
  BY LenProperties DEF Circle
<1>2. s \in Injection(1..Len(s), Nodes)
  BY <1>1 DEF Injection, Circle, IsInjective
<1>3. IsFiniteSet(Nodes) /\ Cardinality(Nodes) <= Cardinality(Cells)
  <2>1. Nodes \in SUBSET Cells
    BY DEF Cells
  <2>2. QED
    BY <2>1, FS_Subset
<1>4. Cardinality(1..Len(s)) <= Cardinality(Nodes)
  BY <1>2, <1>3, FS_Injection
<1>5. Cardinality(1..Len(s)) = Len(s)
  <2>1. Cardinality(1..Len(s)) = IF 1 > Len(s) THEN 0 ELSE Len(s) - 1 + 1
    BY <1>1, FS_Interval
  <2>2. QED
    BY <1>1, <2>1
<1>6. QED
  BY <1>3, <1>4, <1>5

(* A walk goes round the circle, and never leaves it. *)
LEMMA WalkRound ==
  ASSUME NEW f, NEW l, l \notin Nodes, NEW s, Circle(f, l, s),
         NEW a \in Nat, NEW n \in Nat, NEW w, IsWalk(w, f, l, a, n)
  PROVE  \A k \in 0..n : /\ k <= Len(s) => w[a + k] = Nth(l, s, k + 1)
                         /\ w[a + k] \in Elements(s) \cup {l}
<1>1. Len(s) \in Nat /\ f[l] = Nth(l, s, 1)
  BY CircleFacts
<1>2. \A i \in 0..Len(s) : f[Nth(l, s, i)] = Nth(l, s, i + 1)
  BY DEF Circle
<1>3. \A c \in Elements(s) \cup {l} : f[c] \in Elements(s) \cup {l}
  <2>1. \A i \in 0..(Len(s) + 1) : Nth(l, s, i) \in Elements(s) \cup {l}
    BY CircleFacts
  <2>2. \A i \in 0..Len(s) : Nth(l, s, i + 1) \in Elements(s) \cup {l}
    BY <1>1, <2>1
  <2>3. \A c \in Elements(s) \cup {l} : \E i \in 0..Len(s) : c = Nth(l, s, i)
    BY OnCircle
  <2>4. QED
    BY <1>2, <2>2, <2>3
<1>4. \A i \in a..(a + n) : w[i] = IF i = a THEN f[l] ELSE f[w[i - 1]]
  BY DEF IsWalk
<1> DEFINE T == {k \in Nat : k <= n =>
                   /\ k <= Len(s) => w[a + k] = Nth(l, s, k + 1)
                   /\ w[a + k] \in Elements(s) \cup {l}}
<1>5. 0 \in T
  <2>1. a \in a..(a + n) /\ a + 0 = a /\ 0 + 1 = 1
    OBVIOUS
  <2>2. w[a + 0] = f[l]
    BY <1>4, <2>1
  <2>3. QED
    BY <1>1, <1>3, <2>1, <2>2
<1>6. ASSUME NEW k \in T \cap Nat
      PROVE  k + 1 \in T
  <2>1. SUFFICES ASSUME k + 1 <= n
                 PROVE  /\ k + 1 <= Len(s) => w[a + (k + 1)] = Nth(l, s, (k + 1) + 1)
                        /\ w[a + (k + 1)] \in Elements(s) \cup {l}
    BY <1>6
  <2>2. /\ k \in Nat /\ k <= n /\ a + (k + 1) \in a..(a + n)
        /\ (a + (k + 1)) - 1 = a + k /\ a + (k + 1) # a
    BY <1>6, <2>1
  <2>3. w[a + (k + 1)] = f[w[a + k]]
    BY <1>4, <2>2
  <2>4. w[a + k] \in Elements(s) \cup {l} /\ (k <= Len(s) => w[a + k] = Nth(l, s, k + 1))
    BY <1>6, <2>2
  <2>5. ASSUME k + 1 <= Len(s)
        PROVE  w[a + (k + 1)] = Nth(l, s, (k + 1) + 1)
    <3>1. k + 1 \in 0..Len(s) /\ k <= Len(s)
      BY <1>1, <2>2, <2>5
    <3>2. f[Nth(l, s, k + 1)] = Nth(l, s, (k + 1) + 1)
      BY <1>2, <3>1
    <3>3. QED
      BY <2>3, <2>4, <3>1, <3>2
  <2>6. QED
    BY <1>3, <2>3, <2>4, <2>5
<1>7. \A k \in Nat : k \in T
  <2> HIDE DEF T
  <2>1. QED
    BY <1>5, <1>6, NatSet
<1>8. ASSUME NEW k \in 0..n
      PROVE  /\ k <= Len(s) => w[a + k] = Nth(l, s, k + 1)
             /\ w[a + k] \in Elements(s) \cup {l}
  <2>1. k \in Nat /\ k <= n
    OBVIOUS
  <2>2. k \in T
    <3> HIDE DEF T
    <3>1. QED
      BY <1>7, <2>1
  <2>3. QED
    BY <2>1, <2>2
<1>9. QED
  BY <1>8

FirstBack(w, l, a, n) ==
  CHOOSE i \in a..(a + n) : w[i] = l /\ \A j \in a..(i - 1) : w[j] # l

GoesRound(w, f, l, s, a, n) ==
  /\ l \notin Nodes /\ Circle(f, l, s)
  /\ a \in Nat /\ n \in Nat /\ Len(s) <= n
  /\ IsWalk(w, f, l, a, n)

(* The first time a walk is back at the head, it has met all nodes. *)
LEMMA RoundTrip ==
  ASSUME NEW f, NEW l, NEW s, NEW a, NEW n, NEW w, GoesRound(w, f, l, s, a, n)
  PROVE  /\ FirstBack(w, l, a, n) = a + Len(s)
         /\ \A i \in 1..Len(s) : w[a + (i - 1)] = s[i]
<1>0. /\ l \notin Nodes /\ Circle(f, l, s) /\ IsWalk(w, f, l, a, n)
      /\ a \in Nat /\ n \in Nat /\ Len(s) <= n
  BY DEF GoesRound
<1>1. Len(s) \in Nat /\ l \notin Elements(s)
  BY <1>0, CircleFacts
<1>2. \A k \in 0..Len(s) : w[a + k] = Nth(l, s, k + 1)
  <2>1. ASSUME NEW k \in 0..Len(s)
        PROVE  w[a + k] = Nth(l, s, k + 1)
    <3>1. k \in 0..n /\ k <= Len(s)
      BY <1>0, <1>1
    <3>2. \A m \in 0..n : /\ m <= Len(s) => w[a + m] = Nth(l, s, m + 1)
                          /\ w[a + m] \in Elements(s) \cup {l}
      BY <1>0, WalkRound
    <3>3. QED
      BY <3>1, <3>2
  <2>2. QED
    BY <2>1
<1>3. \A k \in 0..Len(s) : Nth(l, s, k + 1) = l <=> k = Len(s)
  BY <1>1 DEF Nth, Elements
<1>4. ASSUME NEW i \in a..(a + Len(s))
      PROVE  w[i] = l <=> i = a + Len(s)
  <2>1. i - a \in 0..Len(s) /\ a + (i - a) = i
    BY <1>0, <1>1
  <2>2. w[i] = l <=> i - a = Len(s)
    BY <1>2, <1>3, <2>1
  <2>3. QED
    BY <1>0, <1>1, <2>1, <2>2
<1>5. ASSUME NEW i \in a..(a + n), w[i] = l, \A j \in a..(i - 1) : w[j] # l
      PROVE  i = a + Len(s)
  <2>1. CASE i <= a + Len(s)
    <3>1. i \in a..(a + Len(s))
      BY <1>0, <1>1, <2>1
    <3>2. QED
      BY <1>4, <1>5, <3>1
  <2>2. CASE i > a + Len(s)
    <3>1. a + Len(s) \in a..(a + Len(s)) /\ a + Len(s) \in a..(i - 1)
      BY <1>0, <1>1, <2>2
    <3>2. w[a + Len(s)] = l
      BY <1>4, <3>1
    <3>3. QED
      BY <1>5, <3>1, <3>2
  <2>3. QED
    BY <1>0, <1>1, <2>1, <2>2
<1>6. /\ a + Len(s) \in a..(a + n)
      /\ w[a + Len(s)] = l
      /\ \A j \in a..(a + Len(s) - 1) : w[j] # l
  <2>1. a + Len(s) \in a..(a + n) /\ a + Len(s) \in a..(a + Len(s))
    BY <1>0, <1>1
  <2>2. ASSUME NEW j \in a..(a + Len(s) - 1)
        PROVE  w[j] # l
    <3>1. j \in a..(a + Len(s)) /\ j # a + Len(s)
      BY <1>0, <1>1
    <3>2. QED
      BY <1>4, <3>1
  <2>3. QED
    BY <1>0, <1>4, <2>1, <2>2
<1>7. ASSUME NEW i \in 1..Len(s)
      PROVE  w[a + (i - 1)] = s[i]
  <2>1. i - 1 \in 0..Len(s) /\ (i - 1) + 1 = i
    BY <1>0, <1>1
  <2>2. w[a + (i - 1)] = Nth(l, s, i)
    BY <1>2, <2>1
  <2>3. QED
    BY <2>2 DEF Nth
<1>8. FirstBack(w, l, a, n) = a + Len(s)
  BY <1>0, <1>5, <1>6 DEF FirstBack
<1>9. QED
  BY <1>7, <1>8

(* a is not after b in s. *)
Precedes(s, a, b) == \E i, j \in 1..Len(s) : i <= j /\ s[i] = a /\ s[j] = b

(* t is s with n after the first k elements, or without the k-th.          *)
WithAt(t, s, n, k) ==
  /\ t \in Seq(Nodes) /\ k \in 0..Len(s) /\ Len(t) = Len(s) + 1
  /\ \A i \in 1..Len(t) : t[i] = IF i <= k THEN s[i] ELSE IF i = k + 1 THEN n ELSE s[i - 1]

WithoutAt(t, s, k) ==
  /\ t \in Seq(Nodes) /\ k \in 1..Len(s) /\ Len(t) = Len(s) - 1
  /\ \A i \in 1..Len(t) : t[i] = IF i < k THEN s[i] ELSE s[i + 1]

(* A node linked in after the cell at position k. *)
LEMMA Inserted ==
  ASSUME NEW f, NEW g, NEW l, l \notin Nodes, NEW s, Circle(f, l, s), NEW n \in Nodes, n \notin Elements(s),
         NEW t, NEW k, WithAt(t, s, n, k),
         g[Nth(l, s, k)] = n, g[n] = Nth(l, s, k + 1),
         \A c \in (Elements(s) \cup {l}) \ {Nth(l, s, k)} : g[c] = f[c]
  PROVE  /\ Circle(g, l, t)
         /\ Elements(t) = Elements(s) \cup {n}
         /\ \A a, b \in Elements(s) : Precedes(t, a, b) <=> Precedes(s, a, b)
<1> USE DEF WithAt
<1>1. Len(s) \in Nat
  BY CircleFacts
<1> DEFINE Shift(i) == IF i <= k THEN i ELSE i + 1
<1>2. \A i \in 1..Len(s) : Shift(i) \in 1..Len(t) /\ t[Shift(i)] = s[i] /\ Shift(i) # k + 1
  BY <1>1
<1>3. k + 1 \in 1..Len(t) /\ t[k + 1] = n
  BY <1>1
<1>4. ASSUME NEW i \in 1..Len(t), i # k + 1
      PROVE  \E j \in 1..Len(s) : i = Shift(j)
  <2>1. CASE i <= k
    BY <1>1, <2>1
  <2>2. CASE i > k
    <3>1. i - 1 \in 1..Len(s) /\ Shift(i - 1) = i
      BY <1>1, <1>4, <2>2
    <3>2. QED
      BY <3>1
  <2>3. QED
    BY <1>1, <2>1, <2>2
<1>5. \A i, j \in 1..Len(s) : i <= j <=> Shift(i) <= Shift(j)
  BY <1>1
<1> HIDE DEF Shift
<1>6. Elements(t) = Elements(s) \cup {n}
  <2>1. ASSUME NEW i \in 1..Len(t), i # k + 1
        PROVE  t[i] \in Elements(s)
    <3>1. PICK p \in 1..Len(s) : i = Shift(p)
      BY <1>4, <2>1
    <3>2. t[i] = s[p]
      BY <1>2, <3>1
    <3>3. QED
      BY <3>2 DEF Elements
  <2>2. Elements(t) \subseteq Elements(s) \cup {n}
    BY <1>3, <2>1 DEF Elements
  <2>3. Elements(s) \cup {n} \subseteq Elements(t)
    BY <1>2, <1>3 DEF Elements
  <2>4. QED
    BY <2>2, <2>3
<1>7. \A i, j \in 1..Len(t) : t[i] = t[j] => i = j
  <2>1. ASSUME NEW i \in 1..Len(t), NEW j \in 1..Len(t), t[i] = t[j]
        PROVE  i = j
    <3>1. CASE i = k + 1 \/ j = k + 1
      <4>1. ASSUME NEW m \in 1..Len(t), m # k + 1
            PROVE  t[m] # n
        <5>1. PICK p \in 1..Len(s) : m = Shift(p)
          BY <1>4, <4>1
        <5>2. t[m] = s[p]
          BY <1>2, <5>1
        <5>3. QED
          BY <5>2 DEF Elements
      <4>2. QED
        BY <1>3, <2>1, <3>1, <4>1
    <3>2. CASE i # k + 1 /\ j # k + 1
      <4>1. PICK p \in 1..Len(s), q \in 1..Len(s) : i = Shift(p) /\ j = Shift(q)
        BY <1>4, <3>2
      <4>2. s[p] = s[q]
        BY <1>2, <2>1, <4>1
      <4>3. p = q
        BY <4>2 DEF Circle
      <4>4. QED
        BY <4>1, <4>3
    <3>3. QED
      BY <3>1, <3>2
  <2>2. QED
    BY <2>1
<1>8. \A i \in 0..Len(t) : g[Nth(l, t, i)] = Nth(l, t, i + 1)
  <2>1. ASSUME NEW i \in 0..(Len(t) + 1)
        PROVE  Nth(l, t, i) = IF i <= k THEN Nth(l, s, i) ELSE IF i = k + 1 THEN n ELSE Nth(l, s, i - 1)
    BY <1>1 DEF Nth
  <2>2. \A i \in 0..Len(s) : f[Nth(l, s, i)] = Nth(l, s, i + 1)
    BY DEF Circle
  <2>3. \A i \in 0..Len(s) : i # k => g[Nth(l, s, i)] = Nth(l, s, i + 1)
    <3>1. \A i \in 0..Len(s) : Nth(l, s, i) \in Elements(s) \cup {l}
      BY <1>1 DEF Nth, Elements
    <3>2. QED
      BY <2>2, <3>1, NthDistinct
  <2>4. ASSUME NEW i \in 0..Len(t)
        PROVE  g[Nth(l, t, i)] = Nth(l, t, i + 1)
    <3>0. i \in 0..(Len(t) + 1) /\ i + 1 \in 0..(Len(t) + 1)
      BY <1>1
    <3>1. CASE i < k
      <4>1. i \in 0..Len(s) /\ i # k /\ i <= k /\ i + 1 <= k
        BY <1>1, <3>1
      <4>2. QED
        BY <2>1, <2>3, <3>0, <4>1
    <3>2. CASE i = k
      <4>1. Nth(l, t, i) = Nth(l, s, k) /\ Nth(l, t, i + 1) = n
        BY <1>1, <2>1, <3>0, <3>2
      <4>2. QED
        BY <4>1
    <3>3. CASE i = k + 1
      <4>1. Nth(l, t, i) = n /\ Nth(l, t, i + 1) = Nth(l, s, k + 1)
        BY <1>1, <2>1, <3>0, <3>3
      <4>2. QED
        BY <4>1
    <3>4. CASE i > k + 1
      <4>1. i - 1 \in 0..Len(s) /\ i - 1 # k /\ (i - 1) + 1 = i
        BY <1>1, <3>4
      <4>2. Nth(l, t, i) = Nth(l, s, i - 1) /\ Nth(l, t, i + 1) = Nth(l, s, i)
        BY <1>1, <2>1, <3>0, <3>4
      <4>3. QED
        BY <2>3, <4>1, <4>2
    <3>5. QED
      BY <1>1, <3>1, <3>2, <3>3, <3>4
  <2>5. QED
    BY <2>4
<1>9. \A a, b \in Elements(s) : Precedes(t, a, b) <=> Precedes(s, a, b)
  <2>1. ASSUME NEW a \in Elements(s), NEW b \in Elements(s)
        PROVE  Precedes(t, a, b) <=> Precedes(s, a, b)
    <3>1. ASSUME NEW i \in 1..Len(s), NEW j \in 1..Len(s), i <= j, s[i] = a, s[j] = b
          PROVE  Precedes(t, a, b)
      BY <1>2, <1>5, <3>1 DEF Precedes
    <3>2. ASSUME NEW i \in 1..Len(t), NEW j \in 1..Len(t), i <= j, t[i] = a, t[j] = b
          PROVE  Precedes(s, a, b)
      <4>1. i # k + 1 /\ j # k + 1
        BY <1>3, <3>2
      <4>2. PICK p \in 1..Len(s), q \in 1..Len(s) : i = Shift(p) /\ j = Shift(q)
        BY <1>4, <4>1
      <4>3. QED
        BY <1>2, <1>5, <3>2, <4>2 DEF Precedes
    <3>3. QED
      BY <3>1, <3>2 DEF Precedes
  <2>2. QED
    BY <2>1
<1>10. QED
  BY <1>6, <1>7, <1>8, <1>9 DEF Circle

(* The node at position k taken out. *)
LEMMA TakenOut ==
  ASSUME NEW f, NEW g, NEW l, l \notin Nodes, NEW s, Circle(f, l, s), NEW t, NEW k, WithoutAt(t, s, k),
         g[Nth(l, s, k - 1)] = Nth(l, s, k + 1),
         \A c \in (Elements(s) \cup {l}) \ {s[k], Nth(l, s, k - 1)} : g[c] = f[c]
  PROVE  /\ Circle(g, l, t)
         /\ Elements(t) = Elements(s) \ {s[k]}
         /\ \A a, b \in Elements(t) : Precedes(t, a, b) <=> Precedes(s, a, b)
<1> USE DEF WithoutAt
<1>1. Len(s) \in Nat
  BY CircleFacts
<1> DEFINE Shift(i) == IF i < k THEN i ELSE i + 1
<1>2. \A i \in 1..Len(t) : Shift(i) \in 1..Len(s) /\ t[i] = s[Shift(i)] /\ Shift(i) # k
  BY <1>1
<1>3. ASSUME NEW i \in 1..Len(s), i # k
      PROVE  \E j \in 1..Len(t) : i = Shift(j)
  <2>1. CASE i < k
    BY <1>1, <2>1
  <2>2. CASE i > k
    <3>1. i - 1 \in 1..Len(t) /\ Shift(i - 1) = i
      BY <1>1, <1>3, <2>2
    <3>2. QED
      BY <3>1
  <2>3. QED
    BY <1>1, <1>3, <2>1, <2>2
<1>4. \A i, j \in 1..Len(t) : i <= j <=> Shift(i) <= Shift(j)
  BY <1>1
<1>5. \A i, j \in 1..Len(t) : Shift(i) = Shift(j) => i = j
  BY <1>1
<1>6. \A i, j \in 1..Len(s) : s[i] = s[j] => i = j
  BY DEF Circle
<1> HIDE DEF Shift
<1>7. Elements(t) = Elements(s) \ {s[k]}
  <2>1. ASSUME NEW i \in 1..Len(s), s[i] # s[k]
        PROVE  s[i] \in Elements(t)
    <3>1. PICK p \in 1..Len(t) : i = Shift(p)
      BY <1>3, <2>1
    <3>2. t[p] = s[i]
      BY <1>2, <3>1
    <3>3. QED
      BY <3>2 DEF Elements
  <2>2. Elements(s) \ {s[k]} \subseteq Elements(t)
    BY <2>1 DEF Elements
  <2>3. Elements(t) \subseteq Elements(s) \ {s[k]}
    BY <1>2, <1>6 DEF Elements
  <2>4. QED
    BY <2>2, <2>3
<1>8. \A i, j \in 1..Len(t) : t[i] = t[j] => i = j
  BY <1>2, <1>5, <1>6
<1>9. \A i \in 0..Len(t) : g[Nth(l, t, i)] = Nth(l, t, i + 1)
  <2>1. ASSUME NEW i \in 0..(Len(t) + 1)
        PROVE  Nth(l, t, i) = IF i < k THEN Nth(l, s, i) ELSE Nth(l, s, i + 1)
    BY <1>1 DEF Nth
  <2>2. \A i \in 0..Len(s) : f[Nth(l, s, i)] = Nth(l, s, i + 1)
    BY DEF Circle
  <2>3. \A i \in 0..Len(s) : i # k /\ i # k - 1 => g[Nth(l, s, i)] = Nth(l, s, i + 1)
    <3>1. \A i \in 0..Len(s) : Nth(l, s, i) \in Elements(s) \cup {l}
      BY <1>1 DEF Nth, Elements
    <3>2. k \in 0..Len(s) /\ k - 1 \in 0..Len(s) /\ Nth(l, s, k) = s[k]
      BY <1>1 DEF Nth
    <3>3. QED
      BY <2>2, <3>1, <3>2, NthDistinct
  <2>4. ASSUME NEW i \in 0..Len(t)
        PROVE  g[Nth(l, t, i)] = Nth(l, t, i + 1)
    <3>0. i \in 0..(Len(t) + 1) /\ i + 1 \in 0..(Len(t) + 1)
      BY <1>1
    <3>1. CASE i + 1 < k
      <4>1. i \in 0..Len(s) /\ i # k /\ i # k - 1 /\ i < k
        BY <1>1, <3>1
      <4>2. QED
        BY <2>1, <2>3, <3>0, <3>1, <4>1
    <3>2. CASE i + 1 = k
      <4>1. Nth(l, t, i) = Nth(l, s, k - 1) /\ Nth(l, t, i + 1) = Nth(l, s, k + 1)
        BY <1>1, <2>1, <3>0, <3>2
      <4>2. QED
        BY <4>1
    <3>3. CASE i + 1 > k
      <4>1. i + 1 \in 0..Len(s) /\ i + 1 # k /\ i + 1 # k - 1
        BY <1>1, <3>3
      <4>2. Nth(l, t, i) = Nth(l, s, i + 1) /\ Nth(l, t, i + 1) = Nth(l, s, (i + 1) + 1)
        BY <1>1, <2>1, <3>0, <3>3
      <4>3. QED
        BY <2>3, <4>1, <4>2
    <3>4. QED
      BY <1>1, <3>1, <3>2, <3>3
  <2>5. QED
    BY <2>4
<1>10. \A a, b \in Elements(t) : Precedes(t, a, b) <=> Precedes(s, a, b)
  <2>1. ASSUME NEW a \in Elements(t), NEW b \in Elements(t)
        PROVE  Precedes(t, a, b) <=> Precedes(s, a, b)
    <3>1. ASSUME NEW i \in 1..Len(t), NEW j \in 1..Len(t), i <= j, t[i] = a, t[j] = b
          PROVE  Precedes(s, a, b)
      BY <1>2, <1>4, <3>1 DEF Precedes
    <3>2. ASSUME NEW i \in 1..Len(s), NEW j \in 1..Len(s), i <= j, s[i] = a, s[j] = b
          PROVE  Precedes(t, a, b)
      <4>1. i # k /\ j # k
        BY <1>7, <3>2
      <4>2. PICK p \in 1..Len(t), q \in 1..Len(t) : i = Shift(p) /\ j = Shift(q)
        BY <1>3, <4>1
      <4>3. QED
        BY <1>2, <1>4, <3>2, <4>2 DEF Precedes
    <3>3. QED
      BY <3>1, <3>2 DEF Precedes
  <2>2. QED
    BY <2>1
<1>11. QED
  BY <1>7, <1>8, <1>9, <1>10 DEF Circle

-----------------------------------------------------------------------------
(* list.h: the sequence s is the list of the head l. *)
Follows(l, s) == Circle(next, l, s)

(* The list that next describes is the one the abstract view reads. *)
LEMMA ContentsAre ==
  ASSUME NEW l \in Heads, NEW s, Follows(l, s)
  PROVE  Contents(l) = s /\ Members(l) = Elements(s)
<1>0. PICK a : a = 0
  OBVIOUS
<1>00. PICK n : n = Cardinality(Cells)
  OBVIOUS
<1>1. a \in Nat /\ n \in Nat /\ Steps = a..(a + n)
  BY <1>0, <1>00, FS_CardinalityType DEF Steps
<1>2. Circle(next, l, s) /\ l \notin Nodes
  BY DEF Follows
<1>3. Len(s) \in Nat /\ Len(s) <= n /\ s \in Seq(Nodes)
  <2>1. Cardinality(Nodes) \in Nat
    <3>1. Nodes \in SUBSET Cells
      BY DEF Cells
    <3>2. QED
      BY <3>1, FS_CardinalityType, FS_Subset
  <2>2. Len(s) <= Cardinality(Nodes) /\ Cardinality(Nodes) <= n
    BY <1>00, <1>2, CircleFits
  <2>3. Len(s) \in Nat /\ s \in Seq(Nodes)
    BY <1>2, CircleFacts
  <2>4. QED
    BY <1>1, <2>1, <2>2, <2>3
<1>4. IsWalk(Walk(l), next, l, a, n)
  <2>1. Walk(l) = CHOOSE w : IsWalk(w, next, l, a, n)
    BY <1>0, <1>1 DEF Walk, IsWalk
  <2>2. \E w : IsWalk(w, next, l, a, n)
    BY <1>1, WalkExists
  <2>3. QED
    BY <2>1, <2>2
<1>5. PICK w : w = Walk(l)
  OBVIOUS
<1>6. IsWalk(w, next, l, a, n)
  BY <1>4, <1>5
<1>7. /\ FirstBack(w, l, a, n) = a + Len(s)
      /\ \A i \in 1..Len(s) : w[a + (i - 1)] = s[i]
  <2>1. GoesRound(w, next, l, s, a, n)
    BY <1>1, <1>2, <1>3, <1>6 DEF GoesRound
  <2>2. QED
    BY <2>1, RoundTrip
<1>8. Size(l) = Len(s)
  <2>1. Size(l) = FirstBack(w, l, a, n)
    BY <1>0, <1>1, <1>5 DEF Size, FirstBack
  <2>2. QED
    BY <1>0, <1>3, <1>7, <2>1
<1>9. \A i \in 1..Len(s) : Walk(l)[i - 1] = s[i]
  BY <1>0, <1>3, <1>5, <1>7
<1>10. Contents(l) = s
  <2>1. Contents(l) = [i \in 1..Len(s) |-> Walk(l)[i - 1]]
    BY <1>8 DEF Contents
  <2>2. s = [i \in 1..Len(s) |-> s[i]]
    BY <1>3, LenProperties
  <2>3. QED
    BY <1>9, <2>1, <2>2
<1>11. Members(l) = Elements(s)
  <2>1. \A k \in 0..n : w[a + k] \in Elements(s) \cup {l}
    BY <1>1, <1>2, <1>6, WalkRound
  <2>2. \A i \in Steps : Walk(l)[i] \in Elements(s) \cup {l}
    BY <1>0, <1>1, <1>5, <2>1
  <2>3. \A i \in 1..Len(s) : i - 1 \in Steps
    BY <1>0, <1>1, <1>3
  <2>4. l \notin Elements(s)
    BY <1>2, CircleFacts
  <2>5. QED
    BY <1>9, <2>2, <2>3, <2>4 DEF Members, Elements
<1>12. QED
  BY <1>10, <1>11

-----------------------------------------------------------------------------
(* The lists are disjoint, and a node is free or in one of them.           *)
Listed ==
  /\ \A h \in Heads : Follows(h, Contents(h))
  /\ \A h, g \in Heads : h # g => Elements(Contents(h)) \cap Elements(Contents(g)) = {}
  /\ \A n \in Nodes : Free(n) \/ \E h \in Heads : n \in Elements(Contents(h))

(* A loop is at a cell of its list, and has met those of the nodes that    *)
(* stayed that are not after it.                                           *)
Met(s) == \A a \in stayed : a \in visited <=> pos = loopHead \/ Precedes(s, a, pos)

LoopInv ==
  /\ visited \subseteq Cells
  /\ pos = Null => loopHead = Null /\ stayed = {}
  /\ pos # Null =>
       /\ loopHead \in Heads
       /\ pos \in Elements(Contents(loopHead)) \cup {loopHead}
       /\ stayed \subseteq Elements(Contents(loopHead))
       /\ Met(Contents(loopHead))

ListInv == LinkInv /\ Listed /\ LoopInv

(* A node that is free is in no list. *)
LEMMA FreeIsNowhere ==
  ASSUME Listed, NEW h \in Heads, NEW n \in Elements(Contents(h))
  PROVE  n \in Nodes /\ next[n] \in Cells /\ next[n] # n
<1>1. PICK s : s = Contents(h)
  OBVIOUS
<1>2. Follows(h, s)
  BY <1>1 DEF Listed
<1>3. s \in Seq(Nodes) /\ s \in [1..Len(s) -> Nodes]
  BY <1>2, LenProperties DEF Follows, Circle
<1>4. Len(s) \in Nat
  BY <1>3, LenProperties
<1>5. PICK i \in 1..Len(s) : n = s[i]
  BY <1>1 DEF Elements
<1>6. n \in Nodes
  BY <1>3, <1>5
<1>7. i \in 0..Len(s) /\ Nth(h, s, i) = n
  BY <1>4, <1>5 DEF Nth
<1>8. next[n] = Nth(h, s, i + 1)
  BY <1>2, <1>7 DEF Follows, Circle
<1>9. CASE i = Len(s)
  <2>1. next[n] = h
    BY <1>4, <1>8, <1>9 DEF Nth
  <2>2. QED
    BY <1>6, <2>1 DEF Cells
<1>10. CASE i # Len(s)
  <2>1. i + 1 \in 1..Len(s) /\ i + 1 # i
    BY <1>4, <1>10
  <2>2. next[n] = s[i + 1]
    BY <1>8, <2>1 DEF Nth
  <2>3. s[i + 1] # s[i] /\ s[i + 1] \in Nodes
    BY <1>2, <1>3, <2>1 DEF Follows, Circle
  <2>4. QED
    BY <1>5, <1>6, <2>2, <2>3 DEF Cells
<1>11. QED
  BY <1>9, <1>10

(* A list whose links are not written stays as it is. *)
LEMMA Untouched ==
  ASSUME NEW h \in Heads, NEW s, Follows(h, s),
         \A c \in Elements(s) \cup {h} : next'[c] = next[c]
  PROVE  Follows(h, s)'
<1>1. Len(s) \in Nat
  BY LenProperties DEF Follows, Circle
<1>2. \A i \in 0..Len(s) : Nth(h, s, i) \in Elements(s) \cup {h}
  BY <1>1 DEF Nth, Elements
<1>3. QED
  BY <1>2 DEF Follows, Circle, Nth

LEMMA ContentsAreAlways ==
  \A h \in Heads : \A s : Follows(h, s) => Contents(h) = s /\ Members(h) = Elements(s)
BY ContentsAre

(* A call that makes t the list of l and writes no link of another list    *)
(* changes one list of the abstract view.                                  *)
LEMMA Relisted ==
  ASSUME Listed, NEW l \in Heads, NEW t, Follows(l, t)',
         \A h \in Heads \ {l} : \A c \in Elements(Contents(h)) \cup {h} : next'[c] = next[c],
         \A h \in Heads \ {l} : Elements(t) \cap Elements(Contents(h)) = {},
         \A n \in Nodes : \/ next'[n] \in {Null, n}
                          \/ n \in Elements(t)
                          \/ \E h \in Heads \ {l} : n \in Elements(Contents(h))
  PROVE  /\ Contents(l)' = t
         /\ \A h \in Heads \ {l} : Contents(h)' = Contents(h)
         /\ Listed'
<1>1. (\A h \in Heads : \A s : Follows(h, s) => Contents(h) = s /\ Members(h) = Elements(s))'
  BY ContentsAreAlways, PTL
<1>2. \A h \in Heads : \A s : Follows(h, s)' => Contents(h)' = s
  BY <1>1
<1>3. Contents(l)' = t
  BY <1>2
<1>4. ASSUME NEW h \in Heads, NEW s, Follows(h, s)'
      PROVE  Follows(h, Contents(h))'
  <2>1. Contents(h)' = s
    BY <1>2, <1>4
  <2>2. QED
    BY <1>4, <2>1 DEF Follows, Circle, Nth
<1>5. ASSUME NEW h \in Heads \ {l}
      PROVE  Contents(h)' = Contents(h) /\ Follows(h, Contents(h))'
  <2>1. PICK s : s = Contents(h)
    OBVIOUS
  <2>2. Follows(h, s)
    BY <2>1 DEF Listed
  <2>3. \A c \in Elements(s) \cup {h} : next'[c] = next[c]
    BY <2>1
  <2>4. Follows(h, s)'
    BY <2>2, <2>3, Untouched
  <2>5. QED
    BY <1>2, <1>4, <2>1, <2>4
<1>6. Follows(l, Contents(l))'
  BY <1>4
<1>7. ASSUME NEW h \in Heads, NEW g \in Heads, h # g
      PROVE  Elements(Contents(h)') \cap Elements(Contents(g)') = {}
  <2>1. CASE h = l \/ g = l
    BY <1>3, <1>5, <1>7, <2>1
  <2>2. CASE h # l /\ g # l
    BY <1>5, <1>7, <2>2 DEF Listed
  <2>3. QED
    BY <2>1, <2>2
<1>8. \A n \in Nodes : next'[n] \in {Null, n} \/ \E h \in Heads : n \in Elements(Contents(h)')
  BY <1>3, <1>5, Zenon
<1>9. \A h \in Heads : Elements(Contents(h))' = Elements(Contents(h)')
  BY DEF Elements
<1>10. \A h \in Heads : Follows(h, Contents(h))'
  BY <1>5, <1>6
<1>11. Listed'
  BY <1>7, <1>8, <1>9, <1>10 DEF Listed, Free
<1>12. QED
  BY <1>3, <1>5, <1>11

(* A call in the body of a loop, which does not take out the node the loop *)
(* is at and leaves the others in order, leaves the loop as it is.         *)
LEMMA LoopStays ==
  ASSUME LoopInv, NEW l \in Heads, NEW s, s = Contents(l), NEW t, Contents(l)' = t,
         \A h \in Heads \ {l} : Contents(h)' = Contents(h),
         UNCHANGED loop, stayed' \subseteq stayed,
         stayed' \cap Elements(s) \subseteq Elements(t),
         pos \in Elements(s) => pos \in Elements(t),
         l \notin Elements(s),
         \A a, b \in Elements(s) \cap Elements(t) : Precedes(t, a, b) <=> Precedes(s, a, b)
  PROVE  LoopInv'
<1>1. pos' = pos /\ loopHead' = loopHead /\ visited' = visited
  BY DEF loop
<1>2. CASE pos = Null
  BY <1>1, <1>2 DEF LoopInv
<1>3. CASE pos # Null /\ loopHead # l
  <2>1. loopHead \in Heads \ {l}
    BY <1>3 DEF LoopInv
  <2>2. Contents(loopHead)' = Contents(loopHead)
    <3>1. PICK h : h = loopHead
      OBVIOUS
    <3>2. Contents(h)' = Contents(h)
      BY <2>1, <3>1
    <3>3. Contents(h)' = Contents(loopHead)'
      BY <1>1, <3>1
    <3>4. QED
      BY <3>1, <3>2, <3>3
  <2>3. Met(Contents(loopHead))'
    BY <1>1, <1>3, <2>2 DEF LoopInv, Met, Precedes
  <2>4. QED
    BY <1>1, <1>3, <2>2, <2>3 DEF LoopInv, Elements
<1>4. CASE pos # Null /\ loopHead = l
  <2>1. Contents(loopHead)' = t /\ Contents(loopHead) = s
    BY <1>1, <1>4
  <2>2. /\ visited \subseteq Cells
        /\ pos \in Elements(s) \cup {l}
        /\ stayed \subseteq Elements(s)
        /\ \A a \in stayed : a \in visited <=> pos = l \/ Precedes(s, a, pos)
    BY <1>4, <2>1 DEF LoopInv, Met
  <2>3. pos \in Elements(t) \cup {l} /\ stayed' \subseteq Elements(t)
    BY <2>2
  <2>4. \A a \in stayed' : a \in visited <=> pos = l \/ Precedes(t, a, pos)
    BY <2>2, <2>3
  <2>5. Met(Contents(loopHead))'
    BY <1>1, <1>4, <2>1, <2>4 DEF Met, Precedes
  <2>6. QED
    BY <1>1, <1>4, <2>1, <2>2, <2>3, <2>5 DEF LoopInv, Elements
<1>5. QED
  BY <1>2, <1>3, <1>4

(* list_add and list_add_tail: a free node becomes the first or the last.  *)
LEMMA AddStep ==
  ASSUME ListInv, NEW l \in Heads, NEW n \in Nodes, NEW s, s = Contents(l),
         NEW t, NEW k, WithAt(t, s, n, k),
         Free(n), next'[Nth(l, s, k)] = n, next'[n] = Nth(l, s, k + 1),
         \A c \in Cells \ {n, Nth(l, s, k)} : next'[c] = next[c],
         UNCHANGED <<loop, stayed>>
  PROVE  /\ Listed' /\ LoopInv'
         /\ Contents(l)' = t /\ \A h \in Heads \ {l} : Contents(h)' = Contents(h)
         /\ \A h \in Heads : n \notin Elements(Contents(h))
<1>1. Follows(l, s) /\ Listed /\ LoopInv /\ LinkType
  BY DEF ListInv, LinkInv, Listed
<1>2. \A h \in Heads : n \notin Elements(Contents(h))
  BY <1>1, FreeIsNowhere DEF Free, Cells
<1>3. n \notin Elements(s) /\ n # l
  BY <1>2 DEF Cells
<1>4. Nth(l, s, k) \in Elements(s) \cup {l}
  <2>1. Len(s) \in Nat
    BY <1>1, LenProperties DEF Follows, Circle
  <2>2. QED
    BY <2>1 DEF Nth, Elements, WithAt
<1>5. \A h \in Heads : Elements(Contents(h)) \subseteq Nodes
  BY <1>1, FreeIsNowhere
<1>6. /\ Follows(l, t)'
      /\ Elements(t) = Elements(s) \cup {n}
      /\ \A a, b \in Elements(s) : Precedes(t, a, b) <=> Precedes(s, a, b)
  <2>1. \A c \in (Elements(s) \cup {l}) \ {Nth(l, s, k)} : next'[c] = next[c]
    BY <1>3, <1>5 DEF Cells
  <2>2. QED
    BY <1>1, <1>3, <2>1, Inserted DEF Follows
<1>7. \A h \in Heads \ {l} : \A c \in Elements(Contents(h)) \cup {h} : next'[c] = next[c]
  <2>1. ASSUME NEW h \in Heads \ {l}, NEW c \in Elements(Contents(h)) \cup {h}
        PROVE  c # n /\ c # Nth(l, s, k) /\ c \in Cells
    <3>1. Elements(Contents(h)) \cap Elements(s) = {}
      BY <1>1 DEF Listed
    <3>2. QED
      BY <1>2, <1>4, <1>5, <2>1, <3>1 DEF Cells
  <2>2. QED
    BY <2>1
<1>8. \A h \in Heads \ {l} : Elements(t) \cap Elements(Contents(h)) = {}
  BY <1>1, <1>2, <1>6 DEF Listed
<1>9. ASSUME NEW m \in Nodes
      PROVE  \/ next'[m] \in {Null, m}
             \/ m \in Elements(t)
             \/ \E h \in Heads \ {l} : m \in Elements(Contents(h))
  <2>1. CASE m \in Elements(t)
    BY <2>1
  <2>2. CASE m \notin Elements(t)
    <3>1. m \in Cells /\ m \notin {n, Nth(l, s, k)}
      BY <1>4, <1>6, <2>2 DEF Cells
    <3>2. next'[m] = next[m]
      BY <3>1
    <3>3. QED
      BY <1>1, <1>6, <2>2, <3>2 DEF Listed, Free
  <2>3. QED
    BY <2>1, <2>2
<1>10. Contents(l)' = t /\ (\A h \in Heads \ {l} : Contents(h)' = Contents(h)) /\ Listed'
  BY <1>1, <1>6, <1>7, <1>8, <1>9, Relisted
<1>11. LoopInv'
  <2>1. l \notin Elements(s)
    BY <1>5 DEF Cells
  <2>2. UNCHANGED loop /\ stayed' \subseteq stayed
    OBVIOUS
  <2>3. /\ stayed' \cap Elements(s) \subseteq Elements(t)
        /\ pos \in Elements(s) => pos \in Elements(t)
        /\ \A a, b \in Elements(s) \cap Elements(t) : Precedes(t, a, b) <=> Precedes(s, a, b)
    BY <1>6
  <2>4. QED
    BY <1>1, <1>10, <2>1, <2>2, <2>3, LoopStays
<1>12. QED
  BY <1>2, <1>10, <1>11

(* list_del of a node of the list, and list_remove_head.                   *)
LEMMA UnlinkStep ==
  ASSUME ListInv, NEW l \in Heads, NEW s, s = Contents(l),
         NEW t, NEW k, WithoutAt(t, s, k), NEW n, n = s[k], n # pos,
         next'[Nth(l, s, k - 1)] = Nth(l, s, k + 1), next'[n] = n,
         \A c \in Cells \ {n, Nth(l, s, k - 1)} : next'[c] = next[c],
         UNCHANGED loop, stayed' = stayed \ {n}
  PROVE  /\ Listed' /\ LoopInv'
         /\ Contents(l)' = t /\ \A h \in Heads \ {l} : Contents(h)' = Contents(h)
<1>1. Follows(l, s) /\ Listed /\ LoopInv
  BY DEF ListInv, Listed
<1>2. Len(s) \in Nat /\ k \in 1..Len(s)
  BY <1>1, LenProperties DEF Follows, Circle, WithoutAt
<1>3. \A h \in Heads : Elements(Contents(h)) \subseteq Nodes
  BY <1>1, FreeIsNowhere
<1>4. n \in Elements(s) /\ Nth(l, s, k - 1) \in Elements(s) \cup {l}
  BY <1>2 DEF Nth, Elements
<1>5. /\ Follows(l, t)'
      /\ Elements(t) = Elements(s) \ {n}
      /\ \A a, b \in Elements(t) : Precedes(t, a, b) <=> Precedes(s, a, b)
  <2>1. \A c \in (Elements(s) \cup {l}) \ {s[k], Nth(l, s, k - 1)} : next'[c] = next[c]
    BY <1>3 DEF Cells
  <2>2. QED
    BY <1>1, <2>1, TakenOut DEF Follows
<1>6. \A h \in Heads \ {l} : \A c \in Elements(Contents(h)) \cup {h} : next'[c] = next[c]
  <2>1. ASSUME NEW h \in Heads \ {l}, NEW c \in Elements(Contents(h)) \cup {h}
        PROVE  c # n /\ c # Nth(l, s, k - 1) /\ c \in Cells
    <3>1. Elements(Contents(h)) \cap Elements(s) = {}
      BY <1>1 DEF Listed
    <3>2. QED
      BY <1>3, <1>4, <2>1, <3>1 DEF Cells
  <2>2. QED
    BY <2>1
<1>7. \A h \in Heads \ {l} : Elements(t) \cap Elements(Contents(h)) = {}
  BY <1>1, <1>5 DEF Listed
<1>8. ASSUME NEW m \in Nodes
      PROVE  \/ next'[m] \in {Null, m}
             \/ m \in Elements(t)
             \/ \E h \in Heads \ {l} : m \in Elements(Contents(h))
  <2>1. CASE m \in Elements(s)
    BY <1>5, <2>1
  <2>2. CASE m \notin Elements(s)
    <3>1. m \in Cells /\ m \notin {n, Nth(l, s, k - 1)}
      BY <1>4, <2>2 DEF Cells
    <3>2. next'[m] = next[m]
      BY <3>1
    <3>3. QED
      BY <1>1, <2>2, <3>2 DEF Listed, Free
  <2>3. QED
    BY <2>1, <2>2
<1>9. Contents(l)' = t /\ (\A h \in Heads \ {l} : Contents(h)' = Contents(h)) /\ Listed'
  BY <1>1, <1>5, <1>6, <1>7, <1>8, Relisted
<1>10. LoopInv'
  <2>1. l \notin Elements(s)
    BY <1>3 DEF Cells
  <2>2. UNCHANGED loop /\ stayed' \subseteq stayed
    OBVIOUS
  <2>3. /\ stayed' \cap Elements(s) \subseteq Elements(t)
        /\ pos \in Elements(s) => pos \in Elements(t)
        /\ \A a, b \in Elements(s) \cap Elements(t) : Precedes(t, a, b) <=> Precedes(s, a, b)
    BY <1>5
  <2>4. QED
    BY <1>1, <1>9, <2>1, <2>2, <2>3, LoopStays
<1>11. QED
  BY <1>9, <1>10

(* A sequence with an element before it, and without its k-th. *)
LEMMA Prepended ==
  ASSUME NEW S, NEW s \in Seq(S), NEW n \in S
  PROVE  /\ <<n>> \o s \in Seq(S) /\ Len(<<n>> \o s) = Len(s) + 1
         /\ \A i \in 1..(Len(s) + 1) : (<<n>> \o s)[i] = IF i = 1 THEN n ELSE s[i - 1]
<1>1. Len(s) \in Nat
  BY LenProperties
<1>2. <<n>> \in Seq(S) /\ Len(<<n>>) = 1 /\ <<n>>[1] = n
  OBVIOUS
<1>3. /\ <<n>> \o s \in Seq(S) /\ Len(<<n>> \o s) = Len(<<n>>) + Len(s)
      /\ \A i \in 1..(Len(<<n>>) + Len(s)) :
           (<<n>> \o s)[i] = IF i <= Len(<<n>>) THEN <<n>>[i] ELSE s[i - Len(<<n>>)]
  BY <1>2, ConcatProperties
<1>4. QED
  BY <1>1, <1>2, <1>3

Without(s, k) == SubSeq(s, 1, k - 1) \o SubSeq(s, k + 1, Len(s))

LEMMA Elided ==
  ASSUME NEW S, NEW s \in Seq(S), NEW k \in 1..Len(s)
  PROVE  /\ Without(s, k) \in Seq(S) /\ Len(Without(s, k)) = Len(s) - 1
         /\ \A i \in 1..(Len(s) - 1) : Without(s, k)[i] = IF i < k THEN s[i] ELSE s[i + 1]
<1> DEFINE a == SubSeq(s, 1, k - 1)
           b == SubSeq(s, k + 1, Len(s))
<1>1. Len(s) \in Nat /\ k \in Nat /\ \A i \in 1..Len(s) : s[i] \in S
  BY LenProperties
<1>2. /\ a \in Seq(S) /\ Len(a) = k - 1
      /\ \A i \in 1..(k - 1) : a[i] = s[i]
  <2>1. 1 \in Int /\ k - 1 \in Int /\ \A i \in 1..(k - 1) : s[i] \in S
    BY <1>1
  <2>2. /\ a \in Seq(S) /\ Len(a) = IF 1 <= k - 1 THEN (k - 1) - 1 + 1 ELSE 0
        /\ \A i \in 1..((k - 1) - 1 + 1) : a[i] = s[1 + i - 1]
    BY <2>1, SubSeqProperties
  <2>3. QED
    BY <1>1, <2>2
<1>3. /\ b \in Seq(S) /\ Len(b) = Len(s) - k
      /\ \A i \in 1..(Len(s) - k) : b[i] = s[k + i]
  <2>1. k + 1 \in Int /\ Len(s) \in Int /\ \A i \in (k + 1)..Len(s) : s[i] \in S
    BY <1>1
  <2>2. /\ b \in Seq(S) /\ Len(b) = IF k + 1 <= Len(s) THEN Len(s) - (k + 1) + 1 ELSE 0
        /\ \A i \in 1..(Len(s) - (k + 1) + 1) : b[i] = s[(k + 1) + i - 1]
    BY <2>1, SubSeqProperties
  <2>3. QED
    BY <1>1, <2>2
<1>4. Without(s, k) = a \o b
  BY DEF Without
<1> HIDE DEF a, b
<1>5. /\ a \o b \in Seq(S) /\ Len(a \o b) = Len(a) + Len(b)
      /\ \A i \in 1..(Len(a) + Len(b)) : (a \o b)[i] = IF i <= Len(a) THEN a[i] ELSE b[i - Len(a)]
  BY <1>2, <1>3, ConcatProperties
<1>6. Len(a \o b) = Len(s) - 1
  BY <1>1, <1>2, <1>3, <1>5
<1>7. ASSUME NEW i \in 1..(Len(s) - 1)
      PROVE  (a \o b)[i] = IF i < k THEN s[i] ELSE s[i + 1]
  <2>1. (a \o b)[i] = IF i <= k - 1 THEN a[i] ELSE b[i - (k - 1)]
    BY <1>2, <1>5, <1>6
  <2>2. CASE i < k
    BY <1>1, <1>2, <1>6, <2>1, <2>2
  <2>3. CASE i >= k
    <3>1. i - (k - 1) \in 1..(Len(s) - k) /\ k + (i - (k - 1)) = i + 1
      BY <1>1, <1>6, <2>3
    <3>2. (a \o b)[i] = b[i - (k - 1)]
      BY <1>1, <2>1, <2>3
    <3>3. b[i - (k - 1)] = s[i + 1]
      BY <1>3, <3>1
    <3>4. QED
      BY <1>1, <2>3, <3>2, <3>3
  <2>4. i < k \/ i >= k
    BY <1>1
  <2>5. QED
    BY <2>2, <2>3, <2>4
<1>8. QED
  BY <1>4, <1>5, <1>6, <1>7

(* The last element dropped. *)
IsFront(a, s) == a = SubSeq(s, 1, Len(s) - 1)

LEMMA FrontIs ==
  ASSUME NEW S, NEW s \in Seq(S), NEW a, IsFront(a, s), Len(s) > 0
  PROVE  /\ a \in Seq(S) /\ Len(a) = Len(s) - 1
         /\ \A i \in 1..(Len(s) - 1) : a[i] = s[i]
<1>1. Len(s) \in Nat /\ \A i \in 1..Len(s) : s[i] \in S
  BY LenProperties
<1>2. 1 \in Int /\ Len(s) - 1 \in Int /\ \A i \in 1..(Len(s) - 1) : s[i] \in S
  BY <1>1
<1>3. /\ a \in Seq(S)
      /\ Len(a) = IF 1 <= Len(s) - 1 THEN (Len(s) - 1) - 1 + 1 ELSE 0
      /\ \A i \in 1..((Len(s) - 1) - 1 + 1) : a[i] = s[1 + i - 1]
  BY <1>2, SubSeqProperties DEF IsFront
<1>4. Len(a) = Len(s) - 1
  <2>1. Len(s) \in Nat /\ Len(s) # 0
    BY <1>1
  <2>2. PICK n \in Nat : n = Len(s) /\ n # 0
    BY <2>1
  <2>3. Len(a) = IF 1 <= n - 1 THEN (n - 1) - 1 + 1 ELSE 0
    BY <1>3, <2>2
  <2>4. (IF 1 <= n - 1 THEN (n - 1) - 1 + 1 ELSE 0) = n - 1
    BY <2>2
  <2>5. QED
    BY <2>2, <2>3, <2>4
<1>5. \A i \in 1..(Len(s) - 1) : a[i] = s[i]
  <2>1. ASSUME NEW i \in 1..(Len(s) - 1)
        PROVE  a[i] = s[i]
    <3>1. i \in 1..((Len(s) - 1) - 1 + 1) /\ 1 + i - 1 = i
      BY <1>1
    <3>2. QED
      BY <1>3, <3>1
  <2>2. QED
    BY <2>1
<1>6. QED
  BY <1>3, <1>4, <1>5

(* The sequences of the abstract operations. *)
LEMMA AddedAt ==
  ASSUME NEW s \in Seq(Nodes), NEW n \in Nodes
  PROVE  WithAt(<<n>> \o s, s, n, 0) /\ WithAt(Append(s, n), s, n, Len(s))
<1>1. Len(s) \in Nat
  BY LenProperties
<1>2. /\ <<n>> \o s \in Seq(Nodes) /\ Len(<<n>> \o s) = Len(s) + 1
      /\ \A i \in 1..(Len(s) + 1) : (<<n>> \o s)[i] = IF i = 1 THEN n ELSE s[i - 1]
  BY Prepended
<1>3. WithAt(<<n>> \o s, s, n, 0)
  BY <1>1, <1>2 DEF WithAt
<1>4. /\ Append(s, n) \in Seq(Nodes) /\ Len(Append(s, n)) = Len(s) + 1
      /\ \A i \in 1..(Len(s) + 1) : Append(s, n)[i] = IF i <= Len(s) THEN s[i] ELSE n
  BY <1>1, AppendProperties
<1>5. WithAt(Append(s, n), s, n, Len(s))
  BY <1>1, <1>4 DEF WithAt
<1>6. QED
  BY <1>3, <1>5

LEMMA RemovedAt ==
  ASSUME NEW s \in Seq(Nodes), NEW k \in 1..Len(s)
  PROVE  WithoutAt(Seqs!RemoveAt(s, k), s, k)
<1>1. Len(s) \in Nat /\ Seqs!RemoveAt(s, k) = Without(s, k)
  BY LenProperties DEF Seqs!RemoveAt, Without
<1>2. /\ Without(s, k) \in Seq(Nodes) /\ Len(Without(s, k)) = Len(s) - 1
      /\ \A i \in 1..(Len(s) - 1) : Without(s, k)[i] = IF i < k THEN s[i] ELSE s[i + 1]
  BY Elided
<1>3. QED
  BY <1>1, <1>2 DEF WithoutAt

-----------------------------------------------------------------------------
(* The abstract view of a call that changes the list of l to t.            *)
LEMMA OrderChanges ==
  ASSUME NEW l \in Heads, NEW t, Contents(l)' = t,
         \A h \in Heads \ {l} : Contents(h)' = Contents(h)
  PROVE  [h \in Heads |-> Contents(h)]'
           = [[h \in Heads |-> Contents(h)] EXCEPT ![l] = t]
OBVIOUS

LEMMA UsedAre ==
  ASSUME Listed, NEW n, \A h \in Heads : n \notin Elements(Contents(h))
  PROVE  n \notin Seqs!Used
<1>1. ASSUME NEW h \in Heads
      PROVE  n \notin Seqs!Range(Contents(h))
  <2>1. DOMAIN Contents(h) = 1..Len(Contents(h))
    BY LenProperties DEF Listed, Follows, Circle
  <2>2. QED
    BY <2>1 DEF Seqs!Range, Elements
<1>2. QED
  BY <1>1 DEF Seqs!Used

LEMMA AddKeeps ==
  ASSUME ListInv, NEW l \in Heads, NEW n \in Nodes, ListAdd(l, n) \/ ListAddTail(l, n)
  PROVE  Listed' /\ LoopInv' /\ (Seqs!AddHead(l, n) \/ Seqs!AddTail(l, n))
<1>1. PICK s : s = Contents(l)
  OBVIOUS
<1>2. Follows(l, s) /\ Listed /\ LinkType /\ InverseLinks
  BY <1>1 DEF ListInv, LinkInv, Listed
<1>3. s \in Seq(Nodes) /\ \A c \in Elements(s) : c \in Nodes
  BY <1>1, <1>2, FreeIsNowhere DEF Follows, Circle
<1>4. Len(s) \in Nat
  BY <1>3, LenProperties
<1>5. Free(n) /\ UNCHANGED <<loop, stayed>>
  BY DEF ListAdd, ListAddTail
<1>6. l \in Cells /\ n \in Cells /\ l # n
  BY DEF Cells
<1>7. CASE ListAdd(l, n)
  <2>1. PICK t : t = <<n>> \o s
    OBVIOUS
  <2>2. WithAt(t, s, n, 0)
    BY <1>3, <2>1, AddedAt
  <2>3. Nth(l, s, 0) = l /\ next[l] = Nth(l, s, 0 + 1)
    <3>1. Nth(l, s, 0) = l /\ 0 \in 0..Len(s)
      BY <1>4 DEF Nth
    <3>2. QED
      BY <1>2, <3>1 DEF Follows, Circle
  <2>4. next'[l] = n /\ next'[n] = next[l] /\ \A c \in Cells \ {n, l} : next'[c] = next[c]
    BY <1>2, <1>6, <1>7 DEF ListAdd, LinkType
  <2>5. /\ next'[Nth(l, s, 0)] = n /\ next'[n] = Nth(l, s, 0 + 1)
        /\ \A c \in Cells \ {n, Nth(l, s, 0)} : next'[c] = next[c]
    BY <2>3, <2>4
  <2>6. /\ Listed' /\ LoopInv'
        /\ Contents(l)' = t /\ \A h \in Heads \ {l} : Contents(h)' = Contents(h)
        /\ \A h \in Heads : n \notin Elements(Contents(h))
    BY <1>1, <1>5, <2>2, <2>5, AddStep
  <2>7. Seqs!AddHead(l, n)
    BY <1>1, <1>2, <1>7, <2>1, <2>6, OrderChanges, UsedAre DEF Seqs!AddHead, ListAdd
  <2>8. QED
    BY <2>6, <2>7
<1>8. CASE ListAddTail(l, n)
  <2>1. PICK t : t = Append(s, n)
    OBVIOUS
  <2>2. WithAt(t, s, n, Len(s))
    BY <1>3, <2>1, AddedAt
  <2>3. Nth(l, s, Len(s) + 1) = l /\ Nth(l, s, Len(s)) = prev[l] /\ prev[l] \in Cells \ {n}
    <3>1. Nth(l, s, Len(s) + 1) = l /\ Len(s) \in 0..Len(s)
      BY <1>4 DEF Nth
    <3>2. next[Nth(l, s, Len(s))] = l
      BY <1>2, <3>1 DEF Follows, Circle
    <3>3. Nth(l, s, Len(s)) \in Elements(s) \cup {l}
      BY <1>4 DEF Nth, Elements
    <3>4. Nth(l, s, Len(s)) \in Cells
      BY <1>3, <3>3 DEF Cells
    <3>5. l # Null
      BY <1>6
    <3>6. n \notin Elements(s)
      BY <1>1, <1>2, <1>5, FreeIsNowhere DEF Free, Cells
    <3>7. QED
      BY <1>2, <1>6, <3>1, <3>2, <3>3, <3>4, <3>5, <3>6 DEF InverseLinks
  <2>4. next'[prev[l]] = n /\ next'[n] = l /\ \A c \in Cells \ {n, prev[l]} : next'[c] = next[c]
    BY <1>2, <1>6, <1>8, <2>3 DEF ListAddTail, LinkType
  <2>5. /\ next'[Nth(l, s, Len(s))] = n /\ next'[n] = Nth(l, s, Len(s) + 1)
        /\ \A c \in Cells \ {n, Nth(l, s, Len(s))} : next'[c] = next[c]
    BY <2>3, <2>4
  <2>6. /\ Listed' /\ LoopInv'
        /\ Contents(l)' = t /\ \A h \in Heads \ {l} : Contents(h)' = Contents(h)
        /\ \A h \in Heads : n \notin Elements(Contents(h))
    BY <1>1, <1>5, <2>2, <2>5, AddStep
  <2>7. Seqs!AddTail(l, n)
    BY <1>1, <1>2, <1>8, <2>1, <2>6, OrderChanges, UsedAre DEF Seqs!AddTail, ListAddTail
  <2>8. QED
    BY <2>6, <2>7
<1>9. QED
  BY <1>7, <1>8

(* A step that writes no link leaves the lists as they are. *)
LEMMA SameLinks ==
  ASSUME Listed, next' = next
  PROVE  Listed' /\ \A h \in Heads : Contents(h)' = Contents(h)
<1>1. \A h \in Heads : Contents(h)' = Contents(h)
  BY DEF Contents, Size, Walk, Steps, Cells
<1>2. \A h \in Heads : Elements(Contents(h))' = Elements(Contents(h))
  BY <1>1 DEF Elements
<1>3. ASSUME NEW h \in Heads
      PROVE  Follows(h, Contents(h))'
  <2>1. PICK s : s = Contents(h)
    OBVIOUS
  <2>2. Follows(h, s) /\ Contents(h)' = s
    BY <1>1, <2>1 DEF Listed
  <2>3. QED
    BY <2>2 DEF Follows, Circle, Nth
<1>4. QED
  BY <1>1, <1>2, <1>3 DEF Listed, Free

(* A node is taken out of the list it is in; one that is linked to itself  *)
(* is in none, and nothing changes.                                        *)
LEMMA UnlinkKeeps ==
  ASSUME ListInv, NEW n \in Nodes, next[n] # Null, n # pos, Unlink(n), UNCHANGED loop
  PROVE  /\ Listed' /\ LoopInv'
         /\ \/ n \notin Seqs!Used /\ [h \in Heads |-> Contents(h)]' = [h \in Heads |-> Contents(h)]
            \/ \E h \in Heads : Seqs!RemoveFrom(h, n)
<1>1. Listed /\ LinkType /\ InverseLinks /\ LoopInv
  BY DEF ListInv, LinkInv
<1>2. n \in Cells /\ n # Null
  BY DEF Cells
<1>3. CASE next[n] = n
  <2>1. prev[n] = n
    BY <1>1, <1>2, <1>3 DEF InverseLinks
  <2>2. next' = next
    BY <1>1, <1>2, <1>3, <2>1 DEF Unlink, LinkType
  <2>3. n \notin stayed
    BY <1>1, <1>3, FreeIsNowhere DEF LoopInv
  <2>4. stayed' = stayed
    BY <2>3 DEF Unlink
  <2>5. Listed' /\ \A h \in Heads : Contents(h)' = Contents(h)
    BY <1>1, <2>2, SameLinks
  <2>6. LoopInv'
    BY <1>1, <2>4, <2>5 DEF LoopInv, loop, Met, Precedes, Elements
  <2>7. n \notin Seqs!Used
    BY <1>1, <1>3, FreeIsNowhere, UsedAre
  <2>8. QED
    BY <2>5, <2>6, <2>7
<1>4. CASE next[n] # n
  <2>1. PICK l \in Heads : n \in Elements(Contents(l))
    BY <1>1, <1>4 DEF Listed, Free
  <2>2. PICK s : s = Contents(l)
    OBVIOUS
  <2>3. Follows(l, s)
    BY <1>1, <2>2 DEF Listed
  <2>4. s \in Seq(Nodes) /\ \A c \in Elements(s) : c \in Nodes
    BY <1>1, <2>2, <2>3, FreeIsNowhere DEF Follows, Circle
  <2>5. Len(s) \in Nat
    BY <2>4, LenProperties
  <2>6. PICK k \in 1..Len(s) : n = s[k]
    BY <2>1, <2>2 DEF Elements
  <2>7. PICK t : t = Seqs!RemoveAt(s, k)
    OBVIOUS
  <2>8. WithoutAt(t, s, k)
    BY <2>4, <2>6, <2>7, RemovedAt
  <2>9. /\ k \in 0..Len(s) /\ k - 1 \in 0..Len(s) /\ (k - 1) + 1 = k
        /\ Nth(l, s, k) = n /\ Nth(l, s, k - 1) \in Elements(s) \cup {l}
    BY <2>5, <2>6 DEF Nth, Elements
  <2>10. next[n] = Nth(l, s, k + 1) /\ next[Nth(l, s, k - 1)] = n
    BY <2>3, <2>9 DEF Follows, Circle
  <2>11. Nth(l, s, k - 1) \in Cells
    BY <2>4, <2>9 DEF Cells
  <2>12. prev[n] = Nth(l, s, k - 1)
    BY <1>1, <1>2, <2>10, <2>11 DEF InverseLinks
  <2>13. prev[n] # n
    BY <1>4, <2>10, <2>12
  <2>14. next'[prev[n]] = next[n] /\ next'[n] = n /\ \A c \in Cells \ {n, prev[n]} : next'[c] = next[c]
    BY <1>1, <1>2, <2>11, <2>12, <2>13 DEF Unlink, LinkType
  <2>15. /\ next'[Nth(l, s, k - 1)] = Nth(l, s, k + 1)
         /\ \A c \in Cells \ {n, Nth(l, s, k - 1)} : next'[c] = next[c]
    BY <2>10, <2>12, <2>14
  <2>16. stayed' = stayed \ {n}
    BY DEF Unlink
  <2>17. /\ Listed' /\ LoopInv'
         /\ Contents(l)' = t /\ \A h \in Heads \ {l} : Contents(h)' = Contents(h)
    BY <2>2, <2>6, <2>8, <2>14, <2>15, <2>16, UnlinkStep
  <2>18. k \in DOMAIN Contents(l) /\ Contents(l)[k] = n
    BY <2>2, <2>4, <2>6, LenProperties
  <2>19. Seqs!RemoveFrom(l, n)
    BY <2>2, <2>7, <2>17, <2>18, OrderChanges DEF Seqs!RemoveFrom
  <2>20. QED
    BY <2>17, <2>19
<1>5. QED
  BY <1>3, <1>4

(* The steps of a loop.  The node it comes to is none that stayed and was  *)
(* met before.                                                             *)
LEMMA LoopKeeps ==
  ASSUME ListInv, (\E h \in Heads : ForEachBegin(h)) \/ ForEachNext \/ ForEachEnd
  PROVE  /\ Listed' /\ LoopInv'
         /\ \A h \in Heads : Contents(h)' = Contents(h)
         /\ ForEachNext => pos' \notin visited \cap stayed
<1>1. Listed /\ LoopInv /\ LinkType /\ InverseLinks
  BY DEF ListInv, LinkInv
<1>2. next' = next
  BY DEF ForEachBegin, ForEachNext, ForEachEnd, links
<1>3. Listed' /\ \A h \in Heads : Contents(h)' = Contents(h)
  BY <1>1, <1>2, SameLinks
<1>4. ASSUME NEW l \in Heads, NEW s, s = Contents(l)
      PROVE  /\ Follows(l, s) /\ s \in Seq(Nodes) /\ Len(s) \in Nat /\ Contents(l)' = s
             /\ Elements(s) \subseteq Nodes /\ l \notin Elements(s) /\ Members(l) = Elements(s)
             /\ next[l] = Nth(l, s, 1) /\ l # Null
  <2>1. Follows(l, s) /\ Contents(l)' = s
    BY <1>1, <1>3, <1>4 DEF Listed
  <2>2. s \in Seq(Nodes) /\ Elements(s) \subseteq Nodes
    BY <1>1, <1>4, <2>1, FreeIsNowhere DEF Follows, Circle
  <2>3. Len(s) \in Nat
    BY <2>2, LenProperties
  <2>4. l \notin Elements(s) /\ l # Null
    BY <2>2 DEF Cells
  <2>5. Members(l) = Elements(s)
    BY <2>1, ContentsAre
  <2>6. 0 \in 0..Len(s) /\ 0 + 1 = 1 /\ Nth(l, s, 0) = l
    BY <2>3 DEF Nth
  <2>7. next[l] = Nth(l, s, 1)
    BY <2>1, <2>6 DEF Follows, Circle
  <2>8. QED
    BY <2>1, <2>2, <2>3, <2>4, <2>5, <2>7
<1>5. ASSUME NEW l \in Heads, ForEachBegin(l)
      PROVE  LoopInv'
  <2>1. PICK s : s = Contents(l)
    OBVIOUS
  <2>2. /\ Follows(l, s) /\ s \in Seq(Nodes) /\ Len(s) \in Nat /\ Contents(l)' = s
        /\ Elements(s) \subseteq Nodes /\ l \notin Elements(s) /\ Members(l) = Elements(s)
        /\ next[l] = Nth(l, s, 1) /\ l # Null
    BY <1>4, <2>1
  <2>3. pos' = Nth(l, s, 1) /\ loopHead' = l /\ visited' = {pos'} /\ stayed' = Elements(s)
    BY <1>5, <2>2 DEF ForEachBegin
  <2>4. Contents(loopHead)' = s
    BY <2>2, <2>3
  <2>5. CASE Len(s) = 0
    <3>1. Elements(s) = {} /\ pos' = l
      BY <2>3, <2>5 DEF Elements, Nth
    <3>2. QED
      BY <2>2, <2>3, <2>4, <3>1 DEF LoopInv, Met, Cells, Elements
  <2>6. CASE Len(s) # 0
    <3>1. 1 \in 1..Len(s) /\ pos' = s[1]
      BY <2>2, <2>3, <2>6 DEF Nth
    <3>2. pos' \in Elements(s) /\ pos' # l
      BY <2>2, <3>1 DEF Elements
    <3>3. ASSUME NEW a \in Elements(s)
          PROVE  a = pos' <=> Precedes(s, a, pos')
      <4>1. a = pos' => Precedes(s, a, pos')
        BY <2>2, <3>1 DEF Precedes
      <4>2. ASSUME NEW i \in 1..Len(s), NEW j \in 1..Len(s), i <= j, s[i] = a, s[j] = pos'
            PROVE  a = pos'
        <5>1. j = 1
          BY <2>2, <3>1, <4>2 DEF Follows, Circle
        <5>2. i = j
          BY <4>2, <5>1
        <5>3. QED
          BY <4>2, <5>2
      <4>3. QED
        BY <4>1, <4>2 DEF Precedes
    <3>4. Met(s)'
      BY <2>3, <3>2, <3>3 DEF Met, Precedes
    <3>5. QED
      BY <2>2, <2>3, <2>4, <3>2, <3>4 DEF LoopInv, Met, Precedes, Cells, Elements
  <2>7. QED
    BY <2>5, <2>6
<1>6. ASSUME ForEachNext
      PROVE  LoopInv' /\ pos' \notin visited \cap stayed
  <2>1. loopHead \in Heads /\ pos # Null /\ pos # loopHead
    BY <1>1, <1>6 DEF ForEachNext, LoopInv
  <2>2. PICK l \in Heads : l = loopHead
    BY <2>1
  <2>3. PICK s : s = Contents(l)
    OBVIOUS
  <2>4. /\ Follows(l, s) /\ s \in Seq(Nodes) /\ Len(s) \in Nat /\ Contents(l)' = s
        /\ Elements(s) \subseteq Nodes /\ l \notin Elements(s) /\ l # Null
    BY <1>4, <2>3
  <2>5. Contents(loopHead) = s
    BY <2>2, <2>3
  <2>6. /\ visited \subseteq Cells /\ pos \in Elements(s) /\ stayed \subseteq Elements(s)
        /\ \A a \in stayed : a \in visited <=> Precedes(s, a, pos)
    BY <1>1, <2>1, <2>2, <2>5 DEF LoopInv, Met
  <2>7. /\ pos' = next[pos] /\ visited' = visited \cup {pos'}
        /\ loopHead' = l /\ stayed' = stayed
    BY <1>6, <2>2 DEF ForEachNext
  <2>8. Contents(loopHead)' = s
    BY <2>4, <2>7
  <2>9. PICK p \in 1..Len(s) : pos = s[p]
    BY <2>6 DEF Elements
  <2>10. pos' = Nth(l, s, p + 1)
    <3>1. p \in 0..Len(s) /\ Nth(l, s, p) = pos
      BY <2>4, <2>9 DEF Nth
    <3>2. QED
      BY <2>4, <2>7, <3>1 DEF Follows, Circle
  <2>11. \A i, j \in 1..Len(s) : s[i] = s[j] => i = j
    BY <2>4 DEF Follows, Circle
  <2>12. \A i \in 1..Len(s) : Precedes(s, s[i], pos) <=> i <= p
    BY <2>9, <2>11 DEF Precedes
  <2>13. CASE p = Len(s)
    <3>1. pos' = l
      BY <2>4, <2>10, <2>13 DEF Nth
    <3>2. \A a \in stayed : a \in visited
      BY <2>6, <2>12, <2>13 DEF Elements
    <3>3. Met(s)'
      BY <2>7, <3>1, <3>2 DEF Met, Precedes
    <3>4. LoopInv'
      BY <2>4, <2>6, <2>7, <2>8, <3>1, <3>3 DEF LoopInv, Met, Precedes, Cells, Elements
    <3>5. QED
      BY <2>4, <2>6, <3>1, <3>4
  <2>14. CASE p # Len(s)
    <3>1. p + 1 \in 1..Len(s) /\ pos' = s[p + 1]
      BY <2>4, <2>10, <2>14 DEF Nth
    <3>2. pos' \in Elements(s) /\ pos' # l
      BY <2>4, <3>1 DEF Elements
    <3>3. \A i \in 1..Len(s) : Precedes(s, s[i], pos') <=> i <= p + 1
      BY <2>11, <3>1 DEF Precedes
    <3>4. ASSUME NEW a \in stayed
          PROVE  a \in visited' <=> Precedes(s, a, pos')
      <4>1. PICK i \in 1..Len(s) : a = s[i]
        BY <2>6 DEF Elements
      <4>2. a \in visited <=> i <= p
        BY <2>6, <2>12, <4>1
      <4>3. a = pos' <=> i = p + 1
        BY <2>11, <3>1, <4>1
      <4>4. Precedes(s, a, pos') <=> i <= p + 1
        BY <3>3, <4>1
      <4>5. i <= p + 1 <=> i <= p \/ i = p + 1
        OBVIOUS
      <4>6. QED
        BY <2>7, <4>2, <4>3, <4>4, <4>5
    <3>5. Met(s)'
      BY <2>7, <3>2, <3>4 DEF Met, Precedes
    <3>6. LoopInv'
      BY <2>4, <2>6, <2>7, <2>8, <3>2, <3>5 DEF LoopInv, Met, Precedes, Cells, Elements
    <3>7. pos' \notin visited \cap stayed
      <4>1. ~Precedes(s, pos', pos)
        BY <2>12, <3>1
      <4>2. QED
        BY <2>6, <4>1
    <3>8. QED
      BY <3>6, <3>7
  <2>15. QED
    BY <2>13, <2>14
<1>7. ASSUME ForEachEnd
      PROVE  LoopInv'
  BY <1>7 DEF ForEachEnd, LoopInv
<1>8. QED
  BY <1>3, <1>5, <1>6, <1>7

(* A sequence without its first element is its tail. *)
LEMMA FirstRemoved ==
  ASSUME NEW s \in Seq(Nodes), s # <<>>
  PROVE  Seqs!RemoveAt(s, 1) = Tail(s) /\ Head(s) = s[1] /\ 1 \in 1..Len(s)
<1>1. /\ Len(s) \in Nat \ {0} /\ Head(s) = s[1]
      /\ Tail(s) \in Seq(Nodes) /\ Len(Tail(s)) = Len(s) - 1
      /\ \A i \in 1..(Len(s) - 1) : Tail(s)[i] = s[i + 1]
  BY HeadTailProperties
<1>2. PICK t : t = Seqs!RemoveAt(s, 1)
  OBVIOUS
<1>3. 1 \in 1..Len(s)
  BY <1>1
<1>4. WithoutAt(t, s, 1)
  BY <1>2, <1>3, RemovedAt
<1>5. t \in Seq(Nodes) /\ Len(t) = Len(s) - 1
  BY <1>4 DEF WithoutAt
<1>6. \A i \in 1..(Len(s) - 1) : t[i] = s[i + 1]
  BY <1>1, <1>4 DEF WithoutAt
<1>7. t = Tail(s)
  <2>1. t = [i \in 1..(Len(s) - 1) |-> t[i]] /\ Tail(s) = [i \in 1..(Len(s) - 1) |-> Tail(s)[i]]
    BY <1>1, <1>5, LenProperties
  <2>2. \A i \in 1..(Len(s) - 1) : t[i] = Tail(s)[i]
    BY <1>1, <1>6
  <2>3. QED
    BY <2>1, <2>2
<1>8. QED
  BY <1>1, <1>2, <1>3, <1>7

(* The first node of a list, taken out of the list it is in. *)
LEMMA HeadRemoved ==
  ASSUME Listed, NEW l \in Heads, NEW s, s = Contents(l), s # <<>>,
         NEW h \in Heads, Seqs!RemoveFrom(h, s[1])
  PROVE  [g \in Heads |-> Contents(g)]' = [[g \in Heads |-> Contents(g)] EXCEPT ![l] = Tail(@)]
<1>1. Follows(l, s) /\ s \in Seq(Nodes) /\ \A i, j \in 1..Len(s) : s[i] = s[j] => i = j
  BY DEF Listed, Follows, Circle
<1>2. Seqs!RemoveAt(s, 1) = Tail(s) /\ 1 \in 1..Len(s)
  BY <1>1, FirstRemoved
<1>3. PICK r : r = Contents(h)
  OBVIOUS
<1>4. r \in Seq(Nodes)
  BY <1>3 DEF Listed, Follows, Circle
<1>5. PICK i \in DOMAIN r :
        /\ r[i] = s[1]
        /\ [g \in Heads |-> Contents(g)]'
             = [[g \in Heads |-> Contents(g)] EXCEPT ![h] = Seqs!RemoveAt(@, i)]
  BY <1>3 DEF Seqs!RemoveFrom
<1>6. i \in 1..Len(r)
  BY <1>4, LenProperties
<1>7. h = l
  <2>1. s[1] \in Elements(r) /\ s[1] \in Elements(s)
    BY <1>2, <1>5, <1>6 DEF Elements
  <2>2. QED
    BY <1>3, <2>1 DEF Listed
<1>8. i = 1
  BY <1>1, <1>2, <1>3, <1>5, <1>6, <1>7
<1>9. QED
  BY <1>2, <1>5, <1>7, <1>8

(* Every step keeps the invariant, and is the step of the abstract lists   *)
(* that the call names, or no call.                                        *)
LEMMA StepKeeps ==
  ASSUME ListInv, [Next]_vars
  PROVE  /\ Listed' /\ LoopInv'
         /\ [Seqs!ListsNext]_Seqs!listsVars
<1>1. Listed /\ LinkType /\ InverseLinks /\ LoopInv
  BY DEF ListInv, LinkInv
<1>2. ASSUME NEW l \in Heads, NEW n \in Nodes, ListAdd(l, n) \/ ListAddTail(l, n)
      PROVE  Listed' /\ LoopInv' /\ Seqs!ListsNext
  BY <1>2, AddKeeps DEF Seqs!ListsNext
<1>3. ASSUME NEW n \in Nodes, ListDel(n)
      PROVE  Listed' /\ LoopInv' /\ Seqs!ListsNext
  <2>1. /\ Listed' /\ LoopInv'
        /\ \/ n \notin Seqs!Used /\ [h \in Heads |-> Contents(h)]' = [h \in Heads |-> Contents(h)]
           \/ \E h \in Heads : Seqs!RemoveFrom(h, n)
    BY <1>3, UnlinkKeeps DEF ListDel
  <2>2. Seqs!Delete(n)
    BY <1>3, <2>1 DEF ListDel, Seqs!Delete
  <2>3. QED
    BY <2>1, <2>2 DEF Seqs!ListsNext
<1>4. ASSUME NEW l \in Heads, ListRemoveHead(l)
      PROVE  Listed' /\ LoopInv' /\ Seqs!ListsNext
  <2>1. PICK s : s = Contents(l)
    OBVIOUS
  <2>2. Follows(l, s)
    BY <1>1, <2>1 DEF Listed
  <2>3. Len(s) \in Nat /\ s \in [1..Len(s) -> Nodes]
    BY <2>2, LenProperties DEF Follows, Circle
  <2>4. next[l] = Nth(l, s, 1)
    <3>1. 0 \in 0..Len(s) /\ 0 + 1 = 1 /\ Nth(l, s, 0) = l
      BY <2>3 DEF Nth
    <3>2. QED
      BY <2>2, <3>1 DEF Follows, Circle
  <2>5. PICK n : n = next[l]
    OBVIOUS
  <2>6. 1 \in 1..Len(s) /\ n = s[1] /\ n \in Nodes
    BY <1>4, <2>3, <2>4, <2>5 DEF Nth, ListRemoveHead, ListEmpty
  <2>7. next[n] # Null
    <3>1. l \in Cells /\ next[l] # Null
      BY <1>1 DEF InverseLinks, Cells
    <3>2. prev[n] = l
      BY <1>1, <2>5, <3>1 DEF InverseLinks
    <3>3. l # Null /\ n \in Cells
      BY <2>6 DEF Cells
    <3>4. QED
      BY <1>1, <3>2, <3>3 DEF InverseLinks
  <2>8. n # pos /\ Unlink(n) /\ UNCHANGED loop /\ call' = <<"list_remove_head", l, n>>
    BY <1>4, <2>5 DEF ListRemoveHead, First
  <2>9. /\ Listed' /\ LoopInv'
        /\ \/ n \notin Seqs!Used /\ [h \in Heads |-> Contents(h)]' = [h \in Heads |-> Contents(h)]
           \/ \E h \in Heads : Seqs!RemoveFrom(h, n)
    BY <2>6, <2>7, <2>8, UnlinkKeeps
  <2>10. s \in Seq(Nodes) /\ s # <<>> /\ Head(s) = n
    <3>1. s \in Seq(Nodes) /\ s # <<>>
      BY <2>2, <2>6, EmptySeq DEF Follows, Circle
    <3>2. QED
      BY <2>6, <3>1, FirstRemoved
  <2>11. n \in Seqs!Used
    <3>1. 1 \in DOMAIN s /\ n \in Seqs!Range(s)
      BY <2>3, <2>6 DEF Seqs!Range
    <3>2. QED
      BY <2>1, <3>1 DEF Seqs!Used
  <2>12. [h \in Heads |-> Contents(h)]' = [[h \in Heads |-> Contents(h)] EXCEPT ![l] = Tail(@)]
    <3>1. PICK h \in Heads : Seqs!RemoveFrom(h, s[1])
      BY <2>6, <2>9, <2>11
    <3>2. QED
      BY <1>1, <2>1, <2>10, <3>1, HeadRemoved
  <2>13. Seqs!RemoveHead(l)
    BY <2>1, <2>8, <2>10, <2>12 DEF Seqs!RemoveHead
  <2>14. QED
    BY <2>9, <2>13 DEF Seqs!ListsNext
<1>5. ASSUME NEW l \in Heads, ListRemoveHeadEmpty(l)
       PROVE  Listed' /\ LoopInv' /\ Seqs!ListsNext
  <2>1. next' = next /\ UNCHANGED loop /\ stayed' = stayed
    BY <1>5 DEF ListRemoveHeadEmpty, links
  <2>2. Listed' /\ \A h \in Heads : Contents(h)' = Contents(h)
    BY <1>1, <2>1, SameLinks
  <2>3. LoopInv'
    BY <1>1, <2>1, <2>2 DEF LoopInv, loop, Met, Precedes, Elements
  <2>4. Contents(l) = <<>>
    <3>1. Follows(l, <<>>)
      <4>1. <<>> \in Seq(Nodes) /\ Len(<<>>) = 0
        BY EmptySeq
      <4>2. QED
        BY <1>5, <4>1 DEF ListRemoveHeadEmpty, ListEmpty, Follows, Circle, Nth
    <3>2. QED
      BY <3>1, ContentsAre
  <2>5. Seqs!RemoveHeadEmpty(l)
    BY <1>5, <2>2, <2>4 DEF ListRemoveHeadEmpty, Seqs!RemoveHeadEmpty
  <2>6. QED
    BY <2>2, <2>3, <2>5 DEF Seqs!ListsNext
<1>6. ASSUME (\E h \in Heads : ForEachBegin(h)) \/ ForEachNext \/ ForEachEnd
      PROVE  Listed' /\ LoopInv' /\ UNCHANGED Seqs!listsVars
  <2>1. Listed' /\ LoopInv' /\ \A h \in Heads : Contents(h)' = Contents(h)
    BY <1>6, LoopKeeps
  <2>2. call' = call
    BY <1>6 DEF ForEachBegin, ForEachNext, ForEachEnd
  <2>3. QED
    BY <2>1, <2>2 DEF Seqs!listsVars
<1>7. ASSUME UNCHANGED vars
      PROVE  Listed' /\ LoopInv' /\ UNCHANGED Seqs!listsVars
  <2>1. next' = next /\ UNCHANGED loop /\ stayed' = stayed /\ call' = call
    BY <1>7 DEF vars, links
  <2>2. Listed' /\ \A h \in Heads : Contents(h)' = Contents(h)
    BY <1>1, <2>1, SameLinks
  <2>3. LoopInv'
    BY <1>1, <2>1, <2>2 DEF LoopInv, loop, Met, Precedes, Elements
  <2>4. QED
    BY <2>1, <2>2, <2>3 DEF Seqs!listsVars
<1>8. QED
  BY <1>2, <1>3, <1>4, <1>5, <1>6, <1>7 DEF Next

(* ListInv is inductive: at the start the lists are empty, and a step that *)
(* keeps Listed and LoopInv keeps LinkInv by LinksInvariant.               *)
THEOREM ListInvariant == Spec => []ListInv
<1>1. Init => Listed /\ LoopInv
  <2>1. SUFFICES ASSUME Init PROVE Listed /\ LoopInv
    OBVIOUS
  <2>2. \A h \in Heads : Contents(h) = <<>> /\ Follows(h, <<>>)
    <3>1. ASSUME NEW h \in Heads
          PROVE  Follows(h, <<>>)
      <4>1. <<>> \in Seq(Nodes) /\ Len(<<>>) = 0
        BY EmptySeq
      <4>2. next[h] = h
        BY <2>1 DEF Init, Cells
      <4>3. QED
        BY <4>1, <4>2 DEF Follows, Circle, Nth
    <3>2. QED
      BY <3>1, ContentsAre
  <2>3. \A h \in Heads : Elements(Contents(h)) = {}
    BY <2>2, EmptySeq DEF Elements
  <2>4. \A n \in Nodes : Free(n)
    BY <2>1 DEF Init, Free, Cells
  <2>5. QED
    BY <2>1, <2>2, <2>3, <2>4 DEF Listed, LoopInv, Init
<1>2. LinkInv /\ Listed /\ LoopInv /\ [Next]_vars => Listed' /\ LoopInv'
  BY StepKeeps DEF ListInv
<1>3. QED
  BY <1>1, <1>2, LinksInvariant, PTL DEF Spec, ListInv

(* The history of the calls has its type. *)
LEMMA CallsInvariant == Spec => [](call \in Calls)
<1>1. Init => call \in Calls
  BY DEF Init, Calls
<1>2. LinkInv /\ call \in Calls /\ [Next]_vars => call' \in Calls
  <2> SUFFICES ASSUME LinkInv, call \in Calls, [Next]_vars PROVE call' \in Calls
    OBVIOUS
  <2>1. ASSUME NEW l \in Heads, NEW n \in Nodes, ListAdd(l, n) \/ ListAddTail(l, n)
        PROVE  call' \in Calls
    BY <2>1 DEF ListAdd, ListAddTail, Calls
  <2>2. ASSUME NEW n \in Nodes, ListDel(n)
        PROVE  call' \in Calls
    BY <2>2 DEF ListDel, Calls
  <2>3. ASSUME NEW l \in Heads, ListRemoveHead(l) \/ ListRemoveHeadEmpty(l)
        PROVE  call' \in Calls
    <3>1. next[l] \in Cells \cup {Null}
      BY DEF LinkInv, LinkType, Cells
    <3>2. QED
      BY <2>3, <3>1 DEF ListRemoveHead, ListRemoveHeadEmpty, First, Calls
  <2>4. CASE (\E l \in Heads : ForEachBegin(l)) \/ ForEachNext \/ ForEachEnd \/ UNCHANGED vars
    BY <2>4 DEF ForEachBegin, ForEachNext, ForEachEnd, vars
  <2>5. QED
    BY <2>1, <2>2, <2>3, <2>4 DEF Next
<1>3. LinkInv /\ call \in Calls /\ [Next]_vars => (call \in Calls)'
  BY <1>2 DEF Calls, Cells
<1>4. QED
  BY <1>1, <1>3, LinksInvariant, PTL DEF Spec

(* list_for_each visits every node that is in the list from its beginning  *)
(* to its end, whatever its body adds and takes out.                       *)
THEOREM LoopsVisitAll == Spec => []LoopComplete
<1>1. ListInv /\ call \in Calls => LoopComplete
  <2>1. SUFFICES ASSUME ListInv, call \in Calls PROVE LoopComplete
    OBVIOUS
  <2>2. Listed /\ LinkType /\ LoopInv /\ call \in Calls
    BY <2>1 DEF ListInv, LinkInv
  <2>3. \A h \in Heads : Elements(Contents(h)) \subseteq Nodes
    BY <2>2, FreeIsNowhere
  <2>4. CASE pos = Null
    BY <2>2, <2>4 DEF LoopInv, TypeOK, LoopComplete
  <2>5. CASE pos # Null
    <3>1. Elements(Contents(loopHead)) \subseteq Nodes
      BY <2>2, <2>3, <2>5 DEF LoopInv
    <3>2. TypeOK
      BY <2>2, <2>5, <3>1 DEF LoopInv, TypeOK, Cells
    <3>3. pos = loopHead => stayed \subseteq visited
      BY <2>2, <2>5 DEF LoopInv, Met
    <3>4. QED
      BY <3>2, <3>3 DEF LoopComplete
  <2>6. QED
    BY <2>4, <2>5
<1>2. QED
  BY <1>1, ListInvariant, CallsInvariant, PTL

(* ... and visits none of them twice. *)
THEOREM LoopsVisitOnce == Spec => LoopMeetsOnce
<1>1. ListInv /\ [Next]_vars => [ForEachNext => pos' \notin visited \cap stayed]_vars
  BY LoopKeeps
<1>2. QED
  BY <1>1, ListInvariant, PTL DEF Spec, LoopMeetsOnce

(* The links implement the sequences: list_add puts its node first in the  *)
(* list it names and list_add_tail last, list_remove_head takes out and    *)
(* returns the first node, list_del takes its node out of the list it is   *)
(* in, or changes nothing, and no call changes another list.               *)
THEOREM RefinesSequences == Spec => ImplementsSeqLists
<1>1. Init => Seqs!ListsInit
  <2>1. SUFFICES ASSUME Init PROVE Seqs!ListsInit
    OBVIOUS
  <2>2. ASSUME NEW h \in Heads
        PROVE  Contents(h) = <<>>
    <3>1. <<>> \in Seq(Nodes) /\ Len(<<>>) = 0
      BY EmptySeq
    <3>2. next[h] = h
      BY <2>1 DEF Init, Cells
    <3>3. Follows(h, <<>>)
      BY <3>1, <3>2 DEF Follows, Circle, Nth
    <3>4. QED
      BY <3>3, ContentsAre
  <2>3. QED
    BY <2>1, <2>2 DEF Seqs!ListsInit, Init
<1>2. ListInv /\ [Next]_vars => [Seqs!ListsNext]_Seqs!listsVars
  BY StepKeeps
<1>3. QED
  BY <1>1, <1>2, ListInvariant, PTL DEF Spec, ImplementsSeqLists, Seqs!ListsSpec

-----------------------------------------------------------------------------
USE CacheAssumption DEF Lru!LRUAssumption

(* lru.go: a ring with the nodes s after its head.  pre matters on the     *)
(* linked cells only: a node that has been taken out keeps its links.      *)
CacheCells == Nodes \cup {Top}

Ring(g, s) ==
  /\ g.next \in [CacheCells -> CacheCells] /\ g.pre \in [CacheCells -> CacheCells]
  /\ Circle(g.next, Top, s)
  /\ \A c \in Elements(s) \cup {Top} : g.pre[g.next[c]] = c

LEMMA RingFacts ==
  ASSUME NEW g, NEW s, Ring(g, s)
  PROVE  /\ s \in Seq(Nodes) /\ Len(s) \in Nat /\ Elements(s) \subseteq Nodes /\ Top \notin Nodes
         /\ \A c \in Elements(s) \cup {Top} : g.next[c] \in Elements(s) \cup {Top}
         /\ \A c, d \in Elements(s) \cup {Top} : g.next[c] = g.next[d] => c = d
         /\ \A i \in 0..Len(s) : /\ Nth(Top, s, i) \in Elements(s) \cup {Top}
                                 /\ g.next[Nth(Top, s, i)] = Nth(Top, s, i + 1)
                                 /\ g.pre[Nth(Top, s, i + 1)] = Nth(Top, s, i)
<1>1. Circle(g.next, Top, s) /\ Top \notin Nodes
  BY DEF Ring
<1>2. /\ s \in Seq(Nodes) /\ Len(s) \in Nat /\ Elements(s) \subseteq Nodes
      /\ \A i \in 0..(Len(s) + 1) : Nth(Top, s, i) \in Elements(s) \cup {Top}
  BY <1>1, CircleFacts
<1>3. \A i \in 0..Len(s) : g.next[Nth(Top, s, i)] = Nth(Top, s, i + 1)
  BY <1>1 DEF Circle
<1>4. \A c \in Elements(s) \cup {Top} : \E i \in 0..Len(s) : c = Nth(Top, s, i)
  <2>1. Len(s) \in Nat
    BY <1>2
  <2>2. QED
    BY <2>1 DEF Elements, Nth
<1>5. \A i \in 0..Len(s) : {Nth(Top, s, i), Nth(Top, s, i + 1)} \subseteq Elements(s) \cup {Top}
  BY <1>2
<1>6. \A c \in Elements(s) \cup {Top} : g.pre[g.next[c]] = c
  BY DEF Ring
<1>7. ASSUME NEW c \in Elements(s) \cup {Top}
      PROVE  g.next[c] \in Elements(s) \cup {Top}
  <2>1. PICK i \in 0..Len(s) : c = Nth(Top, s, i)
    BY <1>4
  <2>2. QED
    BY <1>3, <1>5, <2>1
<1>8. \A c, d \in Elements(s) \cup {Top} : g.next[c] = g.next[d] => c = d
  BY <1>6
<1>9. \A i \in 0..Len(s) : g.pre[Nth(Top, s, i + 1)] = Nth(Top, s, i)
  BY <1>3, <1>5, <1>6
<1>10. QED
  BY <1>1, <1>2, <1>3, <1>5, <1>6, <1>7, <1>8, <1>9

(* The stores of del. *)
LEMMA DelRing ==
  ASSUME NEW g, NEW s, Ring(g, s), NEW t, NEW k, WithoutAt(t, s, k)
  PROVE  Ring(Lru!Del(g, s[k]), t) /\ Elements(t) = Elements(s) \ {s[k]}
<1>1. PICK n : n = s[k]
  OBVIOUS
<1>2. /\ s \in Seq(Nodes) /\ Len(s) \in Nat /\ Elements(s) \subseteq Nodes /\ Top \notin Nodes
      /\ \A c \in Elements(s) \cup {Top} : g.next[c] \in Elements(s) \cup {Top}
      /\ \A c, d \in Elements(s) \cup {Top} : g.next[c] = g.next[d] => c = d
  BY RingFacts
<1>3. k \in 1..Len(s) /\ k \in 0..Len(s) /\ k - 1 \in 0..Len(s) /\ (k - 1) + 1 = k /\ Nth(Top, s, k) = n
  BY <1>1, <1>2 DEF WithoutAt, Nth
<1>4. PICK p, q : p = Nth(Top, s, k - 1) /\ q = Nth(Top, s, k + 1)
  OBVIOUS
<1>5. /\ p \in Elements(s) \cup {Top} /\ n \in Elements(s)
      /\ g.next[p] = n /\ g.next[n] = q /\ g.pre[n] = p /\ g.pre[q] = n
  <2>1. n \in Elements(s)
    BY <1>1, <1>3 DEF Elements
  <2>2. QED
    BY <1>3, <1>4, <2>1, RingFacts
<1>6. PICK h : h = Lru!Del(g, n)
  OBVIOUS
<1>7. /\ g.next \in [CacheCells -> CacheCells] /\ g.pre \in [CacheCells -> CacheCells]
      /\ \A c \in Elements(s) \cup {Top} : g.pre[g.next[c]] = c
  BY DEF Ring
<1>8. p \in CacheCells /\ q \in CacheCells /\ n \in CacheCells
  BY <1>2, <1>5, <1>7 DEF CacheCells
<1>9. h.next = [g.next EXCEPT ![p] = q] /\ h.pre = [g.pre EXCEPT ![q] = p]
  BY <1>5, <1>6 DEF Lru!Del
<1>10. Circle(h.next, Top, t) /\ Elements(t) = Elements(s) \ {s[k]}
  <2>1. h.next[Nth(Top, s, k - 1)] = Nth(Top, s, k + 1)
    BY <1>4, <1>7, <1>8, <1>9
  <2>2. \A c \in (Elements(s) \cup {Top}) \ {s[k], Nth(Top, s, k - 1)} : h.next[c] = g.next[c]
    BY <1>2, <1>4, <1>7, <1>9 DEF CacheCells
  <2>3. Circle(g.next, Top, s) /\ Top \notin Nodes
    BY DEF Ring
  <2>4. QED
    BY <2>1, <2>2, <2>3, TakenOut
<1>11. h.next \in [CacheCells -> CacheCells] /\ h.pre \in [CacheCells -> CacheCells]
  BY <1>7, <1>8, <1>9
<1>12. ASSUME NEW c \in Elements(t) \cup {Top}
       PROVE  h.pre[h.next[c]] = c
  <2>1. c \in Elements(s) \cup {Top} /\ c # n /\ c \in CacheCells /\ g.next[c] \in CacheCells
    BY <1>1, <1>2, <1>5, <1>10 DEF CacheCells
  <2>2. CASE c = p
    BY <1>7, <1>8, <1>9, <2>2
  <2>3. CASE c # p
    <3>1. h.next[c] = g.next[c] /\ g.next[c] # q
      BY <1>2, <1>5, <1>7, <1>9, <2>1, <2>3
    <3>2. QED
      BY <1>7, <1>9, <2>1, <3>1
  <2>4. QED
    BY <2>2, <2>3
<1>13. QED
  BY <1>1, <1>6, <1>10, <1>11, <1>12 DEF Ring

(* The stores of insert, which puts n first. *)
LEMMA InsertRing ==
  ASSUME NEW g, NEW s, Ring(g, s), NEW n \in Nodes, n \notin Elements(s), NEW t, WithAt(t, s, n, 0)
  PROVE  Ring(Lru!Insert(g, n), t) /\ Elements(t) = Elements(s) \cup {n}
<1>1. /\ s \in Seq(Nodes) /\ Len(s) \in Nat /\ Elements(s) \subseteq Nodes /\ Top \notin Nodes
      /\ \A c \in Elements(s) \cup {Top} : g.next[c] \in Elements(s) \cup {Top}
      /\ \A c, d \in Elements(s) \cup {Top} : g.next[c] = g.next[d] => c = d
  BY RingFacts
<1>2. PICK q : q = g.next[Top]
  OBVIOUS
<1>3. Nth(Top, s, 0) = Top /\ Nth(Top, s, 0 + 1) = q
  <2>1. 0 \in 0..Len(s) /\ Nth(Top, s, 0) = Top
    BY <1>1 DEF Nth
  <2>2. QED
    BY <1>2, <2>1, RingFacts
<1>4. /\ g.next \in [CacheCells -> CacheCells] /\ g.pre \in [CacheCells -> CacheCells]
      /\ \A c \in Elements(s) \cup {Top} : g.pre[g.next[c]] = c
  BY DEF Ring
<1>5. /\ q \in Elements(s) \cup {Top} /\ q # n /\ n # Top
      /\ q \in CacheCells /\ n \in CacheCells /\ Top \in CacheCells
  BY <1>1, <1>2 DEF CacheCells
<1>6. PICK h : h = Lru!Insert(g, n)
  OBVIOUS
<1>7. /\ h.next = [g.next EXCEPT ![n] = q, ![Top] = n]
      /\ h.pre = [g.pre EXCEPT ![n] = Top, ![q] = n]
  BY <1>2, <1>6 DEF Lru!Insert
<1>8. h.next \in [CacheCells -> CacheCells] /\ h.pre \in [CacheCells -> CacheCells]
  BY <1>4, <1>5, <1>7
<1>9. /\ h.next[Top] = n /\ h.next[n] = q /\ h.pre[n] = Top /\ h.pre[q] = n
      /\ \A c \in CacheCells \ {n, Top} : h.next[c] = g.next[c]
      /\ \A c \in CacheCells \ {n, q} : h.pre[c] = g.pre[c]
  BY <1>4, <1>5, <1>7
<1>10. Circle(h.next, Top, t) /\ Elements(t) = Elements(s) \cup {n}
  <2>1. h.next[Nth(Top, s, 0)] = n /\ h.next[n] = Nth(Top, s, 0 + 1)
    BY <1>3, <1>9
  <2>2. \A c \in (Elements(s) \cup {Top}) \ {Nth(Top, s, 0)} : h.next[c] = g.next[c]
    BY <1>1, <1>3, <1>9 DEF CacheCells
  <2>3. Circle(g.next, Top, s) /\ Top \notin Nodes
    BY DEF Ring
  <2>4. QED
    BY <2>1, <2>2, <2>3, Inserted
<1>11. ASSUME NEW c \in Elements(t) \cup {Top}
       PROVE  h.pre[h.next[c]] = c
  <2>1. CASE c = Top \/ c = n
    BY <1>9, <2>1
  <2>2. CASE c # Top /\ c # n
    <3>1. c \in Elements(s) /\ c \in CacheCells /\ g.next[c] \in Elements(s) \cup {Top}
      BY <1>1, <1>10, <2>2 DEF CacheCells
    <3>2. g.next[c] # q /\ g.next[c] # n /\ g.next[c] \in CacheCells
      BY <1>1, <1>2, <2>2, <3>1 DEF CacheCells
    <3>3. QED
      BY <1>4, <1>9, <2>2, <3>1, <3>2
  <2>3. QED
    BY <2>1, <2>2
<1>12. QED
  BY <1>6, <1>8, <1>10, <1>11 DEF Ring

(* NewLRUNode writes the links of a node that is not in the ring. *)
LEMMA AloneRing ==
  ASSUME NEW g, NEW s, Ring(g, s), NEW n \in Nodes, n \notin Elements(s)
  PROVE  Ring(Lru!Alone(g, n), s)
<1>1. /\ s \in Seq(Nodes) /\ Len(s) \in Nat /\ Elements(s) \subseteq Nodes /\ Top \notin Nodes
      /\ \A c \in Elements(s) \cup {Top} : g.next[c] \in Elements(s) \cup {Top}
      /\ \A i \in 0..Len(s) : /\ Nth(Top, s, i) \in Elements(s) \cup {Top}
                              /\ g.next[Nth(Top, s, i)] = Nth(Top, s, i + 1)
  BY RingFacts
<1>2. /\ g.next \in [CacheCells -> CacheCells] /\ g.pre \in [CacheCells -> CacheCells]
      /\ \A c \in Elements(s) \cup {Top} : g.pre[g.next[c]] = c
      /\ \A i, j \in 1..Len(s) : s[i] = s[j] => i = j
  BY DEF Ring, Circle
<1>3. PICK h : h = Lru!Alone(g, n)
  OBVIOUS
<1>4. h.next = [g.next EXCEPT ![n] = n] /\ h.pre = [g.pre EXCEPT ![n] = n]
  BY <1>3 DEF Lru!Alone
<1>5. n \in CacheCells /\ Elements(s) \cup {Top} \subseteq CacheCells \ {n}
  BY <1>1 DEF CacheCells
<1>6. h.next \in [CacheCells -> CacheCells] /\ h.pre \in [CacheCells -> CacheCells]
  BY <1>2, <1>4, <1>5
<1>7. \A c \in Elements(s) \cup {Top} : h.next[c] = g.next[c] /\ h.pre[c] = g.pre[c]
  BY <1>2, <1>4, <1>5
<1>8. Circle(h.next, Top, s)
  BY <1>1, <1>2, <1>7 DEF Circle
<1>9. QED
  BY <1>1, <1>2, <1>3, <1>6, <1>7, <1>8 DEF Ring

(* The map and the ring hold the same nodes.                               *)
Held(s) ==
  /\ Len(s) <= Capacity
  /\ \A n \in Elements(s) : key[n] \in Keys /\ nodes[key[n]] = n
  /\ \A k \in Keys : nodes[k] # Null => nodes[k] \in Elements(s) /\ key[nodes[k]] = k

CacheTypes ==
  /\ nodes \in [Keys -> Nodes \cup {Null}]
  /\ key \in [Nodes -> Keys \cup {Null}]
  /\ val \in [Nodes -> Vals \cup {Null}]

CacheInv == CacheTypes /\ \E s : Ring(ring, s) /\ Held(s)

(* The keys of the ring, in its order. *)
KeyOrder(s) == [i \in 1..Len(s) |-> key[s[i]]]

(* LRU has FiniteSets of its own. *)
LEMMA SameCardinality == \A S : Lru!Cardinality(S) = Cardinality(S)
BY DEF Lru!Cardinality, Cardinality

(* The ring that next describes is the one the abstract view reads. *)
LEMMA OrderIs ==
  ASSUME NEW s, Ring(ring, s)
  PROVE  [i \in 1..Lru!Length |-> key[Lru!Met[i]]] = KeyOrder(s)
<1>0. PICK a : a = 1
  OBVIOUS
<1>00. PICK n : n = Cardinality(Nodes)
  OBVIOUS
<1>1. a \in Nat /\ n \in Nat /\ Lru!Steps = a..(a + n)
  <2>1. Nodes \in SUBSET Cells
    BY DEF Cells
  <2>2. n \in Nat
    <3>1. IsFiniteSet(Nodes)
      BY <2>1, FS_Subset
    <3>2. Cardinality(Nodes) \in Nat
      BY <3>1, FS_CardinalityType
    <3>3. QED
      BY <1>00, <3>2
  <2>3. n + 1 = a + n
    BY <1>0, <2>2
  <2>4. Lru!Steps = a..(n + 1)
    BY <1>0, <1>00, SameCardinality DEF Lru!Steps
  <2>5. QED
    BY <1>0, <2>2, <2>3, <2>4
<1>2. PICK f : f = ring.next
  OBVIOUS
<1>3. Circle(f, Top, s) /\ Top \notin Nodes
  BY <1>2 DEF Ring
<1>4. Len(s) \in Nat /\ Len(s) <= n
  BY <1>00, <1>3, CircleFits, CircleFacts
<1>5. PICK w : w = Lru!Met
  OBVIOUS
<1>6. IsWalk(w, f, Top, a, n)
  <2>1. Lru!Met = CHOOSE m : IsWalk(m, f, Top, a, n)
    BY <1>0, <1>1, <1>2 DEF Lru!Met, IsWalk
  <2>2. \E m : IsWalk(m, f, Top, a, n)
    BY <1>1, WalkExists
  <2>3. QED
    BY <1>5, <2>1, <2>2
<1>7. /\ FirstBack(w, Top, a, n) = a + Len(s)
      /\ \A i \in 1..Len(s) : w[a + (i - 1)] = s[i]
  <2>1. GoesRound(w, f, Top, s, a, n)
    BY <1>1, <1>3, <1>4, <1>6 DEF GoesRound
  <2>2. QED
    BY <2>1, RoundTrip
<1>8. Lru!Length = Len(s)
  <2>1. Lru!Length = FirstBack(w, Top, a, n) - 1
    BY <1>0, <1>1, <1>5 DEF Lru!Length, FirstBack
  <2>2. QED
    BY <1>0, <1>4, <1>7, <2>1
<1>9. ASSUME NEW i \in 1..Len(s)
      PROVE  Lru!Met[i] = s[i]
  <2>1. a + (i - 1) = i
    BY <1>0, <1>4
  <2>2. QED
    BY <1>5, <1>7, <2>1
<1>10. QED
  BY <1>8, <1>9 DEF KeyOrder

LEMMA OrderIsAlways ==
  \A s : Ring(ring, s) => [i \in 1..Lru!Length |-> key[Lru!Met[i]]] = KeyOrder(s)
BY OrderIs

(* The keys are as many as the nodes of the ring, and the same in both.    *)
LEMMA KeysAre ==
  ASSUME CacheTypes, NEW s, Ring(ring, s), Held(s)
  PROVE  /\ Lru!Cached = {key[n] : n \in Elements(s)}
         /\ Cardinality(Lru!Cached) = Len(s)
         /\ KeyOrder(s) \in Seq(Keys) /\ Len(KeyOrder(s)) = Len(s)
<1>1. s \in Seq(Nodes) /\ Len(s) \in Nat /\ Elements(s) \subseteq Nodes /\ Null \notin Nodes
  BY RingFacts
<1>2. \A n \in Elements(s) : key[n] \in Keys /\ nodes[key[n]] = n /\ n # Null
  BY <1>1 DEF Held
<1>3. Lru!Cached = {key[n] : n \in Elements(s)}
  BY <1>2 DEF Lru!Cached, Held
<1>4. KeyOrder(s) \in [1..Len(s) -> Keys]
  BY <1>2 DEF KeyOrder, Elements
<1>5. KeyOrder(s) \in Seq(Keys) /\ Len(KeyOrder(s)) = Len(s)
  BY <1>1, <1>4, SeqDef, LenProperties
<1>6. Cardinality(Lru!Cached) = Len(s)
  <2>1. KeyOrder(s) \in [1..Len(s) -> Lru!Cached]
    BY <1>3 DEF KeyOrder, Elements
  <2>2. \A i, j \in 1..Len(s) : KeyOrder(s)[i] = KeyOrder(s)[j] => i = j
    <3>1. ASSUME NEW i \in 1..Len(s), NEW j \in 1..Len(s), KeyOrder(s)[i] = KeyOrder(s)[j]
          PROVE  i = j
      <4>1. key[s[i]] = key[s[j]]
        BY <3>1 DEF KeyOrder
      <4>2. s[i] \in Elements(s) /\ s[j] \in Elements(s)
        BY DEF Elements
      <4>3. s[i] = s[j]
        BY <1>2, <4>1, <4>2
      <4>4. QED
        BY <4>3 DEF Ring, Circle
    <3>2. QED
      BY <3>1
  <2>3. \A x \in Lru!Cached : \E i \in 1..Len(s) : KeyOrder(s)[i] = x
    BY <1>3 DEF KeyOrder, Elements
  <2>4. KeyOrder(s) \in Bijection(1..Len(s), Lru!Cached)
    BY <2>1, <2>2, <2>3 DEF Bijection, Injection, Surjection, IsInjective
  <2>5. ExistsBijection(1..Len(s), Lru!Cached)
    BY <2>4 DEF ExistsBijection
  <2>6. QED
    BY <1>1, <2>5, FS_CountingElements
<1>7. QED
  BY <1>3, <1>5, <1>6

(* A node that is used becomes the first.                                  *)
Moved(t, s, j) == t = <<s[j]>> \o Without(s, j)

LEMMA RefreshRing ==
  ASSUME NEW g, NEW s, Ring(g, s), NEW t, NEW j \in 1..Len(s), Moved(t, s, j)
  PROVE  /\ Ring(Lru!Refreshed(g, s[j]), t) /\ Elements(t) = Elements(s)
         /\ Len(t) = Len(s)
         /\ \A i \in 1..Len(s) : t[i] = IF i = 1 THEN s[j] ELSE IF i - 1 < j THEN s[i - 1] ELSE s[i]
<1>1. s \in Seq(Nodes) /\ Len(s) \in Nat /\ Elements(s) \subseteq Nodes
  BY RingFacts
<1>2. PICK n : n = s[j]
  OBVIOUS
<1>3. n \in Elements(s) /\ n \in Nodes
  BY <1>1, <1>2 DEF Elements
<1>4. PICK u : u = Without(s, j)
  OBVIOUS
<1>5. /\ u \in Seq(Nodes) /\ Len(u) = Len(s) - 1
      /\ \A i \in 1..(Len(s) - 1) : u[i] = IF i < j THEN s[i] ELSE s[i + 1]
  BY <1>1, <1>4, Elided
<1>6. WithoutAt(u, s, j)
  BY <1>5 DEF WithoutAt
<1>7. PICK h : h = Lru!Del(g, n)
  OBVIOUS
<1>8. Ring(h, u) /\ Elements(u) = Elements(s) \ {n}
  BY <1>2, <1>6, <1>7, DelRing
<1>9. t = <<n>> \o u
  BY <1>2, <1>4 DEF Moved
<1>10. WithAt(t, u, n, 0)
  <2>1. WithAt(<<n>> \o u, u, n, 0)
    BY <1>3, <1>5, AddedAt
  <2>2. QED
    BY <1>9, <2>1
<1>11. Ring(Lru!Insert(h, n), t) /\ Elements(t) = Elements(u) \cup {n}
  BY <1>3, <1>8, <1>10, InsertRing
<1>12. Lru!Refreshed(g, s[j]) = Lru!Insert(h, n)
  BY <1>2, <1>7 DEF Lru!Refreshed
<1>13. /\ Len(t) = Len(u) + 1
       /\ \A i \in 1..(Len(u) + 1) : t[i] = IF i = 1 THEN n ELSE u[i - 1]
  <2>1. /\ Len(<<n>> \o u) = Len(u) + 1
        /\ \A i \in 1..(Len(u) + 1) : (<<n>> \o u)[i] = IF i = 1 THEN n ELSE u[i - 1]
    BY <1>3, <1>5, Prepended
  <2>2. QED
    BY <1>9, <2>1
<1>14. ASSUME NEW i \in 1..Len(s)
       PROVE  t[i] = IF i = 1 THEN s[j] ELSE IF i - 1 < j THEN s[i - 1] ELSE s[i]
  <2>1. i \in 1..(Len(u) + 1)
    BY <1>1, <1>5
  <2>2. CASE i = 1
    BY <1>2, <1>13, <2>1, <2>2
  <2>3. CASE i # 1
    <3>1. i - 1 \in 1..(Len(s) - 1) /\ (i - 1) + 1 = i
      BY <1>1, <2>3
    <3>2. t[i] = u[i - 1]
      BY <1>13, <2>1, <2>3
    <3>3. QED
      BY <1>5, <2>3, <3>1, <3>2
  <2>4. QED
    BY <2>2, <2>3
<1>15. Len(t) = Len(s)
  BY <1>1, <1>5, <1>13
<1>16. QED
  BY <1>3, <1>8, <1>11, <1>12, <1>14, <1>15

(* Get, and Add of a key that is there: the key becomes the first.         *)
LEMMA TouchStep ==
  ASSUME CacheTypes, NEW s, Ring(ring, s), Held(s), NEW k \in Keys, nodes[k] # Null,
         ring' = Lru!Refreshed(ring, nodes[k]), nodes' = nodes, key' = key
  PROVE  \E t : /\ Ring(ring', t) /\ Held(t)'
                /\ \E j \in 1..Len(s) : /\ KeyOrder(s)[j] = k
                                        /\ KeyOrder(t)' = <<k>> \o Without(KeyOrder(s), j)
<1>1. s \in Seq(Nodes) /\ Len(s) \in Nat /\ Elements(s) \subseteq Nodes
  BY RingFacts
<1>2. nodes[k] \in Elements(s) /\ key[nodes[k]] = k
  BY DEF Held
<1>3. PICK j \in 1..Len(s) : s[j] = nodes[k]
  BY <1>2 DEF Elements
<1>4. PICK t : Moved(t, s, j)
  BY DEF Moved
<1>5. /\ Ring(Lru!Refreshed(ring, s[j]), t) /\ Elements(t) = Elements(s) /\ Len(t) = Len(s)
      /\ \A i \in 1..Len(s) : t[i] = IF i = 1 THEN s[j] ELSE IF i - 1 < j THEN s[i - 1] ELSE s[i]
  BY <1>4, RefreshRing
<1>6. Ring(ring', t)
  BY <1>3, <1>5
<1>7. Held(t)'
  <2>1. Elements(t)' = Elements(t)
    BY DEF Elements
  <2>2. QED
    BY <1>5, <2>1 DEF Held
<1>8. PICK o : o = KeyOrder(s)
  OBVIOUS
<1>9. o \in Seq(Keys) /\ Len(o) = Len(s) /\ \A i \in 1..Len(s) : o[i] = key[s[i]]
  BY <1>8, KeysAre DEF KeyOrder
<1>10. PICK p : p = KeyOrder(t)'
  OBVIOUS
<1>11. p = [i \in 1..Len(s) |-> key[t[i]]]
  BY <1>5, <1>10 DEF KeyOrder
<1>12. PICK r : r = <<k>> \o Without(o, j)
  OBVIOUS
<1>13. /\ r \in Seq(Keys) /\ Len(r) = Len(s)
       /\ \A i \in 1..Len(s) : r[i] = IF i = 1 THEN k ELSE IF i - 1 < j THEN o[i - 1] ELSE o[i]
  <2>1. PICK u : u = Without(o, j)
    OBVIOUS
  <2>2. /\ u \in Seq(Keys) /\ Len(u) = Len(s) - 1
        /\ \A i \in 1..(Len(s) - 1) : u[i] = IF i < j THEN o[i] ELSE o[i + 1]
    BY <1>9, <2>1, Elided
  <2>3. /\ <<k>> \o u \in Seq(Keys) /\ Len(<<k>> \o u) = Len(u) + 1
        /\ \A i \in 1..(Len(u) + 1) : (<<k>> \o u)[i] = IF i = 1 THEN k ELSE u[i - 1]
    BY <2>2, Prepended
  <2>4. r = <<k>> \o u
    BY <1>12, <2>1
  <2>5. r \in Seq(Keys) /\ Len(r) = Len(s)
    BY <1>1, <2>2, <2>3, <2>4
  <2>6. ASSUME NEW i \in 1..Len(s)
        PROVE  r[i] = IF i = 1 THEN k ELSE IF i - 1 < j THEN o[i - 1] ELSE o[i]
    <3>1. i \in 1..(Len(u) + 1)
      BY <1>1, <2>2
    <3>2. r[i] = IF i = 1 THEN k ELSE u[i - 1]
      BY <2>3, <2>4, <3>1
    <3>3. CASE i # 1
      <4>1. i - 1 \in 1..(Len(s) - 1) /\ (i - 1) + 1 = i
        BY <1>1, <3>3
      <4>2. QED
        BY <2>2, <3>2, <3>3, <4>1
    <3>4. QED
      BY <3>2, <3>3
  <2>7. QED
    BY <2>5, <2>6
<1>14. p = r
  <2>1. r = [i \in 1..Len(s) |-> r[i]]
    BY <1>13, LenProperties
  <2>2. ASSUME NEW i \in 1..Len(s)
        PROVE  key[t[i]] = r[i]
    <3>1. CASE i = 1
      BY <1>2, <1>3, <1>5, <1>13, <3>1
    <3>2. CASE i # 1 /\ i - 1 < j
      <4>1. i - 1 \in 1..Len(s)
        BY <1>1, <3>2
      <4>2. QED
        BY <1>5, <1>9, <1>13, <3>2, <4>1
    <3>3. CASE i # 1 /\ ~(i - 1 < j)
      BY <1>5, <1>9, <1>13, <3>3
    <3>4. QED
      BY <3>1, <3>2, <3>3
  <2>3. QED
    BY <1>11, <2>1, <2>2
<1>15. KeyOrder(s)[j] = k
  BY <1>2, <1>3, <1>8, <1>9
<1>16. KeyOrder(t)' = <<k>> \o Without(KeyOrder(s), j)
  BY <1>8, <1>10, <1>12, <1>14
<1>17. QED
  BY <1>6, <1>7, <1>15, <1>16

(* A new key becomes the first, before those that stay.                    *)
LEMMA EnterStep ==
  ASSUME CacheTypes, CacheTypes', NEW s, Ring(ring, s), Held(s), NEW k \in Keys, nodes[k] = Null,
         NEW n \in Nodes, n \notin Elements(s),
         NEW g, NEW u, Ring(g, u), Len(u) < Capacity, Elements(u) \subseteq Elements(s),
         ring' = Lru!Insert(Lru!Alone(g, n), n),
         key'[n] = k, \A m \in Nodes \ {n} : key'[m] = key[m],
         nodes'[k] = n,
         \A m \in Elements(u) : nodes'[key[m]] = m,
         \A x \in Keys \ {k} : nodes'[x] # Null => nodes'[x] = nodes[x] /\ nodes[x] \in Elements(u)
  PROVE  \E t : /\ Ring(ring', t) /\ Held(t)'
                /\ KeyOrder(t)' = <<k>> \o KeyOrder(u)
<1>1. /\ u \in Seq(Nodes) /\ Len(u) \in Nat /\ Elements(u) \subseteq Nodes
      /\ Null \notin Nodes /\ Capacity \in Nat
  BY RingFacts
<1>2. n \notin Elements(u)
  OBVIOUS
<1>3. PICK t : t = <<n>> \o u
  OBVIOUS
<1>4. WithAt(t, u, n, 0)
  <2>1. WithAt(<<n>> \o u, u, n, 0)
    BY <1>1, AddedAt
  <2>2. QED
    BY <1>3, <2>1
<1>5. PICK h : h = Lru!Alone(g, n)
  OBVIOUS
<1>6. Ring(h, u)
  BY <1>2, <1>5, AloneRing
<1>7. Ring(Lru!Insert(h, n), t) /\ Elements(t) = Elements(u) \cup {n}
  BY <1>2, <1>4, <1>6, InsertRing
<1>8. Ring(ring', t)
  BY <1>5, <1>7
<1>9. /\ Len(t) = Len(u) + 1
      /\ \A i \in 1..(Len(u) + 1) : t[i] = IF i = 1 THEN n ELSE u[i - 1]
  <2>1. /\ Len(<<n>> \o u) = Len(u) + 1
        /\ \A i \in 1..(Len(u) + 1) : (<<n>> \o u)[i] = IF i = 1 THEN n ELSE u[i - 1]
    BY <1>1, Prepended
  <2>2. QED
    BY <1>3, <2>1
<1>10. \A m \in Elements(u) : key[m] \in Keys /\ key'[m] = key[m]
  BY <1>1, <1>2 DEF Held
<1>11. Held(t)'
  <2>1. Elements(t)' = Elements(t)
    BY DEF Elements
  <2>2. Len(t) <= Capacity
    BY <1>1, <1>9
  <2>3. ASSUME NEW m \in Elements(t)
        PROVE  key'[m] \in Keys /\ nodes'[key'[m]] = m
    BY <1>7, <1>10
  <2>4. ASSUME NEW x \in Keys, nodes'[x] # Null
        PROVE  nodes'[x] \in Elements(t) /\ key'[nodes'[x]] = x
    <3>1. CASE x = k
      BY <1>7, <3>1
    <3>2. CASE x # k
      <4>1. nodes'[x] = nodes[x] /\ nodes[x] \in Elements(u)
        BY <2>4, <3>2
      <4>2. key[nodes[x]] = x
        BY <2>4, <4>1 DEF Held
      <4>3. QED
        BY <1>7, <1>10, <4>1, <4>2
    <3>3. QED
      BY <3>1, <3>2
  <2>5. QED
    BY <2>1, <2>2, <2>3, <2>4 DEF Held
<1>12. PICK o : o = KeyOrder(u)
  OBVIOUS
<1>13. o \in Seq(Keys) /\ Len(o) = Len(u) /\ \A i \in 1..Len(u) : o[i] = key[u[i]]
  <2>1. \A i \in 1..Len(u) : key[u[i]] \in Keys
    BY <1>10 DEF Elements
  <2>2. o \in [1..Len(u) -> Keys] /\ \A i \in 1..Len(u) : o[i] = key[u[i]]
    BY <1>12, <2>1 DEF KeyOrder
  <2>3. o \in Seq(Keys)
    BY <1>1, <2>2, SeqDef
  <2>4. Len(o) = Len(u)
    BY <1>1, <2>2, <2>3, LenProperties
  <2>5. QED
    BY <2>2, <2>3, <2>4
<1>14. PICK r : r = <<k>> \o o
  OBVIOUS
<1>15. /\ r \in Seq(Keys) /\ Len(r) = Len(u) + 1
       /\ \A i \in 1..(Len(u) + 1) : r[i] = IF i = 1 THEN k ELSE o[i - 1]
  <2>1. /\ <<k>> \o o \in Seq(Keys) /\ Len(<<k>> \o o) = Len(o) + 1
        /\ \A i \in 1..(Len(o) + 1) : (<<k>> \o o)[i] = IF i = 1 THEN k ELSE o[i - 1]
    BY <1>13, Prepended
  <2>2. QED
    BY <1>13, <1>14, <2>1
<1>16. PICK p : p = KeyOrder(t)'
  OBVIOUS
<1>17. p = [i \in 1..(Len(u) + 1) |-> key'[t[i]]]
  BY <1>9, <1>16 DEF KeyOrder
<1>18. p = r
  <2>1. r = [i \in 1..(Len(u) + 1) |-> r[i]]
    BY <1>15, LenProperties
  <2>2. ASSUME NEW i \in 1..(Len(u) + 1)
        PROVE  key'[t[i]] = r[i]
    <3>1. CASE i = 1
      BY <1>9, <1>15, <3>1
    <3>2. CASE i # 1
      <4>1. i - 1 \in 1..Len(u)
        BY <1>1, <3>2
      <4>2. u[i - 1] \in Elements(u)
        BY <4>1 DEF Elements
      <4>3. QED
        BY <1>9, <1>10, <1>13, <1>15, <3>2, <4>1, <4>2
    <3>3. QED
      BY <3>1, <3>2
  <2>3. QED
    BY <1>17, <2>1, <2>2
<1>19. KeyOrder(t)' = <<k>> \o KeyOrder(u)
  BY <1>12, <1>14, <1>16, <1>18
<1>20. QED
  BY <1>8, <1>11, <1>19

(* Types: a call stores nodes, keys and values.                            *)
LEMMA CacheTypeStep ==
  ASSUME CacheTypes, Lru!Next
  PROVE  CacheTypes'
<1>1. PICK k \in Keys :
        \/ Lru!Get(k) \/ Lru!GetMissing(k)
        \/ \E v \in Vals : Lru!Replace(k, v) \/ \E n \in Nodes : Lru!AddNew(k, v, n)
  BY DEF Lru!Next
<1>2. CASE Lru!Get(k) \/ Lru!GetMissing(k)
  BY <1>2 DEF CacheTypes, Lru!Get, Lru!GetMissing
<1>3. ASSUME NEW v \in Vals, Lru!Replace(k, v)
      PROVE  CacheTypes'
  BY <1>3 DEF CacheTypes, Lru!Replace
<1>4. ASSUME NEW v \in Vals, NEW n \in Nodes, Lru!AddNew(k, v, n)
      PROVE  CacheTypes'
  BY <1>4 DEF CacheTypes, Lru!AddNew
<1>5. QED
  BY <1>1, <1>2, <1>3, <1>4

(* Add of a new key.  When the cache is full the last node goes, and with  *)
(* it the key it holds.                                                    *)
LEMMA AddNewStep ==
  ASSUME CacheTypes, CacheTypes', NEW s, Ring(ring, s), Held(s), NEW k \in Keys, NEW v \in Vals,
         NEW n \in Nodes, Lru!AddNew(k, v, n)
  PROVE  \E t : /\ Ring(ring', t) /\ Held(t)'
                /\ KeyOrder(t)' = <<k>> \o IF Len(KeyOrder(s)) < Capacity THEN KeyOrder(s)
                                           ELSE SubSeq(KeyOrder(s), 1, Len(KeyOrder(s)) - 1)
<1>1. /\ s \in Seq(Nodes) /\ Len(s) \in Nat /\ Elements(s) \subseteq Nodes /\ Null \notin Nodes
      /\ Capacity \in Nat \ {0}
  BY RingFacts
<1>2. /\ Cardinality(Lru!Cached) = Len(s)
      /\ KeyOrder(s) \in Seq(Keys) /\ Len(KeyOrder(s)) = Len(s)
  BY KeysAre
<1>3. PICK victim : victim = ring.pre[Top]
  OBVIOUS
<1>5. /\ nodes[k] = Null /\ n \notin {nodes[x] : x \in Keys}
      /\ nodes' = [x \in Keys |-> IF x = k THEN n
                                  ELSE IF Len(s) >= Capacity /\ x = key[victim] THEN Null ELSE nodes[x]]
      /\ ring' = Lru!Insert(Lru!Alone(IF Len(s) >= Capacity THEN Lru!Del(ring, victim) ELSE ring, n), n)
      /\ key' = [key EXCEPT ![n] = k]
  <2>1. Lru!Cardinality(Lru!Cached) = Len(s)
    BY <1>2, SameCardinality
  <2>2. QED
    BY <1>3, <2>1 DEF Lru!AddNew
<1>6. \A m \in Elements(s) : key[m] \in Keys /\ nodes[key[m]] = m /\ key[m] # k
  BY <1>1, <1>5 DEF Held
<1>7. n \notin Elements(s)
  BY <1>5, <1>6
<1>8. key'[n] = k /\ \A m \in Nodes \ {n} : key'[m] = key[m]
  BY <1>5 DEF CacheTypes
<1>9. nodes'[k] = n
  BY <1>5
<1>10. \A x \in Keys \ {k} : nodes'[x] = IF Len(s) >= Capacity /\ x = key[victim] THEN Null ELSE nodes[x]
  BY <1>5
<1>11. CASE ~(Len(s) >= Capacity)
  <2>1. Len(s) < Capacity
    BY <1>1, <1>11
  <2>2. ring' = Lru!Insert(Lru!Alone(ring, n), n)
    BY <1>5, <1>11
  <2>3. \A m \in Elements(s) : nodes'[key[m]] = m
    BY <1>6, <1>10, <1>11
  <2>4. \A x \in Keys \ {k} : nodes'[x] # Null => nodes'[x] = nodes[x] /\ nodes[x] \in Elements(s)
    BY <1>10, <1>11 DEF Held
  <2>5. PICK g : g = ring
    OBVIOUS
  <2>6. Ring(g, s) /\ ring' = Lru!Insert(Lru!Alone(g, n), n)
    BY <2>2, <2>5
  <2>7. \E t : Ring(ring', t) /\ Held(t)' /\ KeyOrder(t)' = <<k>> \o KeyOrder(s)
    BY <1>5, <1>7, <1>8, <1>9, <2>1, <2>3, <2>4, <2>6, EnterStep
  <2>8. QED
    BY <1>2, <2>1, <2>7
<1>12. CASE Len(s) >= Capacity
  <2>1. Len(s) = Capacity /\ Len(s) > 0 /\ Len(s) \in 1..Len(s) /\ Len(s) \in 0..Len(s)
    BY <1>1, <1>12 DEF Held
  <2>2. victim = s[Len(s)]
    <3>1. Nth(Top, s, Len(s) + 1) = Top /\ Nth(Top, s, Len(s)) = s[Len(s)]
      BY <1>1, <2>1 DEF Nth
    <3>2. ring.pre[Nth(Top, s, Len(s) + 1)] = Nth(Top, s, Len(s))
      BY <2>1, RingFacts
    <3>3. QED
      BY <1>3, <3>1, <3>2
  <2>3. victim \in Elements(s)
    BY <2>1, <2>2 DEF Elements
  <2>4. PICK u : IsFront(u, s)
    BY DEF IsFront
  <2>5. /\ u \in Seq(Nodes) /\ Len(u) = Len(s) - 1
        /\ \A i \in 1..(Len(s) - 1) : u[i] = s[i]
    BY <1>1, <2>1, <2>4, FrontIs
  <2>6. WithoutAt(u, s, Len(s))
    BY <1>1, <2>1, <2>5 DEF WithoutAt
  <2>7. PICK g : g = Lru!Del(ring, victim)
    OBVIOUS
  <2>8. Ring(g, u) /\ Elements(u) = Elements(s) \ {victim}
    BY <2>2, <2>6, <2>7, DelRing
  <2>9. ring' = Lru!Insert(Lru!Alone(g, n), n)
    BY <1>5, <1>12, <2>7
  <2>10. Len(u) < Capacity /\ Elements(u) \subseteq Elements(s)
    BY <1>1, <2>1, <2>5, <2>8
  <2>11. \A m \in Elements(u) : nodes'[key[m]] = m
    <3>1. ASSUME NEW m \in Elements(u)
          PROVE  nodes'[key[m]] = m
      <4>1. m \in Elements(s) /\ m # victim
        BY <2>8
      <4>2. key[m] # key[victim] /\ key[m] \in Keys \ {k} /\ nodes[key[m]] = m
        BY <1>6, <2>3, <4>1
      <4>3. QED
        BY <1>10, <4>2
    <3>2. QED
      BY <3>1
  <2>12. \A x \in Keys \ {k} : nodes'[x] # Null => nodes'[x] = nodes[x] /\ nodes[x] \in Elements(u)
    <3>1. ASSUME NEW x \in Keys \ {k}, nodes'[x] # Null
          PROVE  nodes'[x] = nodes[x] /\ nodes[x] \in Elements(u)
      <4>1. x # key[victim] /\ nodes'[x] = nodes[x]
        BY <1>10, <1>12, <3>1
      <4>2. nodes[x] \in Elements(s) /\ key[nodes[x]] = x
        BY <3>1, <4>1 DEF Held
      <4>3. QED
        BY <2>8, <4>1, <4>2
    <3>2. QED
      BY <3>1
  <2>13. \E t : Ring(ring', t) /\ Held(t)' /\ KeyOrder(t)' = <<k>> \o KeyOrder(u)
    BY <1>5, <1>7, <1>8, <1>9, <2>8, <2>9, <2>10, <2>11, <2>12, EnterStep
  <2>14. KeyOrder(u) = SubSeq(KeyOrder(s), 1, Len(KeyOrder(s)) - 1)
    <3>1. PICK o : o = KeyOrder(s)
      OBVIOUS
    <3>2. PICK a : IsFront(a, o)
      BY DEF IsFront
    <3>3. o \in Seq(Keys) /\ Len(o) = Len(s) /\ \A i \in 1..Len(s) : o[i] = key[s[i]]
      BY <1>2, <3>1 DEF KeyOrder
    <3>4. /\ a \in Seq(Keys) /\ Len(a) = Len(s) - 1
          /\ \A i \in 1..(Len(s) - 1) : a[i] = o[i]
      BY <2>1, <3>2, <3>3, FrontIs
    <3>5. a = [i \in 1..(Len(s) - 1) |-> a[i]]
      BY <3>4, LenProperties
    <3>6. \A i \in 1..(Len(s) - 1) : a[i] = key[u[i]]
      <4>1. ASSUME NEW i \in 1..(Len(s) - 1)
            PROVE  a[i] = key[u[i]]
        <5>1. i \in 1..Len(s)
          BY <1>1
        <5>2. QED
          BY <2>5, <3>3, <3>4, <5>1
      <4>2. QED
        BY <4>1
    <3>7. KeyOrder(u) = [i \in 1..(Len(s) - 1) |-> key[u[i]]]
      BY <2>5 DEF KeyOrder
    <3>8. KeyOrder(u) = a
      BY <3>5, <3>6, <3>7
    <3>9. QED
      BY <3>1, <3>2, <3>8 DEF IsFront
  <2>15. ~(Len(KeyOrder(s)) < Capacity)
    BY <1>1, <1>2, <2>1
  <2>16. QED
    BY <2>13, <2>14, <2>15
<1>13. QED
  BY <1>11, <1>12

(* The abstract view of the cache. *)
Order == [i \in 1..Lru!Length |-> key[Lru!Met[i]]]
Values == [k \in Lru!Cached |-> val[nodes[k]]]

ViewOfRing ==
  \A t : CacheTypes /\ Ring(ring, t) /\ Held(t) =>
           /\ Order = KeyOrder(t) /\ DOMAIN Order = 1..Len(t)
           /\ Lru!Cache!Range(Order) = Lru!Cached

LEMMA Views == ViewOfRing
<1>1. SUFFICES ASSUME NEW s, CacheTypes, Ring(ring, s), Held(s)
               PROVE  /\ Order = KeyOrder(s) /\ DOMAIN Order = 1..Len(s)
                      /\ Lru!Cache!Range(Order) = Lru!Cached
  BY DEF ViewOfRing
<1>2. Order = KeyOrder(s)
  BY <1>1, OrderIs DEF Order
<1>3. DOMAIN KeyOrder(s) = 1..Len(s)
  BY DEF KeyOrder
<1>4. Lru!Cached = {key[n] : n \in Elements(s)}
  BY <1>1, KeysAre
<1>5. \A i \in 1..Len(s) : KeyOrder(s)[i] = key[s[i]]
  BY DEF KeyOrder
<1>6. {KeyOrder(s)[i] : i \in 1..Len(s)} = {key[n] : n \in Elements(s)}
  BY <1>5 DEF Elements
<1>7. QED
  BY <1>2, <1>3, <1>4, <1>6 DEF Lru!Cache!Range

(* What a call does to the nodes is what the abstract operation does to    *)
(* the keys.                                                               *)
LEMMA CacheStep ==
  ASSUME CacheInv, Lru!Next
  PROVE  CacheInv' /\ Lru!Cache!RecencyNext
<1>1. CacheTypes'
  BY CacheTypeStep DEF CacheInv
<1>2. PICK s : CacheTypes /\ Ring(ring, s) /\ Held(s)
  BY DEF CacheInv
<1>3. PICK o : o = Order
  OBVIOUS
<1>4. o = KeyOrder(s) /\ DOMAIN o = 1..Len(s) /\ Lru!Cache!Range(Order) = Lru!Cached
  BY <1>2, <1>3, Views DEF ViewOfRing
<1>5. PICK k \in Keys :
        \/ Lru!Get(k) \/ Lru!GetMissing(k)
        \/ \E v \in Vals : Lru!Replace(k, v) \/ \E n \in Nodes : Lru!AddNew(k, v, n)
  BY DEF Lru!Next
<1>6. ViewOfRing'
  BY Views, PTL
<1>7. ASSUME NEW t, Ring(ring', t), Held(t)'
      PROVE  CacheInv' /\ Order' = KeyOrder(t)' /\ Lru!Cache!Range(Order)' = Lru!Cached'
  <2>1. Ring(ring, t)'
    BY <1>7 DEF Ring, Circle, Elements, Nth
  <2>2. QED
    BY <1>1, <1>6, <1>7, <2>1 DEF CacheInv, ViewOfRing
<1>8. Lru!Cached' = {x \in Keys : nodes'[x] # Null} /\ Lru!Cached = {x \in Keys : nodes[x] # Null}
  BY DEF Lru!Cached
<1>9. Values = [x \in Lru!Cached |-> val[nodes[x]]] /\ Values' = [x \in Lru!Cached' |-> val'[nodes'[x]]]
  BY DEF Values
<1>10. ASSUME nodes[k] # Null, ring' = Lru!Refreshed(ring, nodes[k]), nodes' = nodes, key' = key
       PROVE  CacheInv' /\ Lru!Cache!Touch(k) /\ Lru!Cache!Range(Order)' = Lru!Cached'
  <2>1. PICK t : /\ Ring(ring', t) /\ Held(t)'
                 /\ \E j \in 1..Len(s) : /\ KeyOrder(s)[j] = k
                                         /\ KeyOrder(t)' = <<k>> \o Without(KeyOrder(s), j)
    BY <1>2, <1>10, TouchStep
  <2>2. CacheInv' /\ Order' = KeyOrder(t)' /\ Lru!Cache!Range(Order)' = Lru!Cached'
    BY <1>7, <2>1
  <2>3. PICK j \in 1..Len(s) : o[j] = k /\ Order' = <<k>> \o Without(o, j)
    BY <1>4, <2>1, <2>2
  <2>4. \E i \in DOMAIN Order : Order[i] = k /\ Order' = <<k>> \o Lru!Cache!RemoveAt(Order, i)
    BY <1>3, <1>4, <2>3 DEF Without, Lru!Cache!RemoveAt
  <2>5. Lru!Cache!Touch(k)
    BY <2>4 DEF Order, Lru!Cache!Touch
  <2>6. QED
    BY <2>2, <2>5
<1>11. CASE Lru!Get(k)
  <2>1. /\ nodes[k] # Null /\ ring' = Lru!Refreshed(ring, nodes[k])
        /\ ret' = <<"get", k, val[nodes[k]]>>
        /\ nodes' = nodes /\ key' = key /\ val' = val
    BY <1>11 DEF Lru!Get
  <2>2. CacheInv' /\ Lru!Cache!Touch(k)
    BY <1>10, <2>1
  <2>3. Values' = Values
    BY <1>8, <1>9, <2>1
  <2>4. ret' = <<"get", k, Values[k]>>
    BY <1>8, <1>9, <2>1
  <2>5. Lru!Cache!Find(k)
    BY <2>2, <2>3, <2>4 DEF Values, Lru!Cache!Find
  <2>6. QED
    BY <2>2, <2>5 DEF Lru!Cache!RecencyNext
<1>12. CASE Lru!GetMissing(k)
  <2>1. nodes[k] = Null /\ ret' = <<"get", k, Null>> /\ UNCHANGED <<nodes, ring, key, val>>
    BY <1>12 DEF Lru!GetMissing
  <2>2. Ring(ring', s) /\ Held(s)' /\ KeyOrder(s)' = KeyOrder(s)
    BY <1>2, <2>1 DEF Held, KeyOrder, Elements
  <2>3. CacheInv' /\ Order' = Order
    BY <1>3, <1>4, <1>7, <2>2
  <2>4. Values' = Values
    BY <1>8, <1>9, <2>1
  <2>5. k \notin Lru!Cache!Range(Order)
    BY <1>4, <1>8, <2>1
  <2>6. Lru!Cache!Miss(k)
    BY <2>1, <2>3, <2>4, <2>5 DEF Order, Values, Lru!Cache!Miss
  <2>7. QED
    BY <2>3, <2>6 DEF Lru!Cache!RecencyNext
<1>13. ASSUME NEW v \in Vals, Lru!Replace(k, v)
       PROVE  CacheInv' /\ Lru!Cache!RecencyNext
  <2>1. /\ nodes[k] # Null /\ ring' = Lru!Refreshed(ring, nodes[k]) /\ ret' = <<"add", k, v>>
        /\ nodes' = nodes /\ key' = key /\ val' = [val EXCEPT ![nodes[k]] = v]
    BY <1>13 DEF Lru!Replace
  <2>2. CacheInv' /\ Lru!Cache!Touch(k) /\ Lru!Cache!Range(Order)' = Lru!Cached'
    BY <1>10, <2>1
  <2>3. \A x \in Lru!Cached : nodes[x] \in Nodes /\ (nodes[x] = nodes[k] => x = k)
    <3>1. nodes[k] \in Elements(s) /\ key[nodes[k]] = k
      BY <1>2, <2>1 DEF Held
    <3>2. \A x \in Lru!Cached : key[nodes[x]] = x /\ nodes[x] \in Elements(s)
      BY <1>2, <1>8 DEF Held
    <3>3. Elements(s) \subseteq Nodes
      BY <1>2, RingFacts
    <3>4. QED
      BY <3>1, <3>2, <3>3
  <2>4. \A x \in Lru!Cached : val'[nodes[x]] = IF x = k THEN v ELSE val[nodes[x]]
    BY <1>2, <2>1, <2>3 DEF CacheTypes
  <2>5. Values' = [x \in Lru!Cache!Range(Order)' |-> IF x = k THEN v ELSE Values[x]]
    BY <1>8, <1>9, <2>1, <2>2, <2>4
  <2>6. Lru!Cache!Put(k, v)
    BY <2>1, <2>2, <2>5 DEF Order, Values, Lru!Cache!Put, Lru!Cache!Range
  <2>7. QED
    BY <2>2, <2>6 DEF Lru!Cache!RecencyNext
<1>14. ASSUME NEW v \in Vals, NEW n \in Nodes, Lru!AddNew(k, v, n)
       PROVE  CacheInv' /\ Lru!Cache!RecencyNext
  <2>1. PICK t :
          /\ Ring(ring', t) /\ Held(t)'
          /\ KeyOrder(t)' = <<k>> \o IF Len(KeyOrder(s)) < Capacity THEN KeyOrder(s)
                                     ELSE SubSeq(KeyOrder(s), 1, Len(KeyOrder(s)) - 1)
    BY <1>1, <1>2, <1>14, AddNewStep
  <2>2. CacheInv' /\ Order' = KeyOrder(t)' /\ Lru!Cache!Range(Order)' = Lru!Cached'
    BY <1>7, <2>1
  <2>3. nodes[k] = Null /\ ret' = <<"add", k, v>> /\ val' = [val EXCEPT ![n] = v]
        /\ n \notin {nodes[x] : x \in Keys} /\ nodes'[k] = n
    BY <1>14 DEF Lru!AddNew
  <2>4. Order' = <<k>> \o IF Len(Order) < Capacity THEN Order ELSE Lru!Cache!Front(Order)
    BY <1>3, <1>4, <2>1, <2>2 DEF Lru!Cache!Front
  <2>5. k \notin Lru!Cache!Range(Order)
    BY <1>4, <1>8, <2>3
  <2>6. Lru!Cache!Enter(k)
    BY <2>4, <2>5 DEF Order, Lru!Cache!Enter
  <2>7. \A x \in Lru!Cached' : x # k => nodes'[x] = nodes[x] /\ x \in Lru!Cached /\ nodes[x] \in Nodes \ {n}
    <3>1. ASSUME NEW x \in Lru!Cached', x # k
          PROVE  nodes'[x] = nodes[x] /\ x \in Lru!Cached /\ nodes[x] \in Nodes \ {n}
      <4>1. x \in Keys /\ nodes'[x] # Null
        BY <1>8
      <4>2. nodes'[x] = nodes[x]
        BY <1>14, <3>1, <4>1 DEF Lru!AddNew
      <4>3. nodes[x] \in Nodes
        BY <1>2, <4>1, <4>2 DEF CacheTypes
      <4>4. QED
        BY <1>8, <2>3, <4>1, <4>2, <4>3
    <3>2. QED
      BY <3>1
  <2>8. \A x \in Lru!Cached' : val'[nodes'[x]] = IF x = k THEN v ELSE Values[x]
    <3>1. val'[n] = v /\ \A m \in Nodes \ {n} : val'[m] = val[m]
      BY <1>2, <2>3 DEF CacheTypes
    <3>2. \A x \in Lru!Cached : Values[x] = val[nodes[x]]
      BY <1>9
    <3>3. QED
      BY <2>3, <2>7, <3>1, <3>2
  <2>9. Values' = [x \in Lru!Cache!Range(Order)' |-> IF x = k THEN v ELSE Values[x]]
    BY <1>9, <2>2, <2>8
  <2>10. Lru!Cache!Put(k, v)
    BY <2>3, <2>6, <2>9 DEF Order, Values, Lru!Cache!Put, Lru!Cache!Range
  <2>11. QED
    BY <2>2, <2>10 DEF Lru!Cache!RecencyNext
<1>15. QED
  BY <1>5, <1>11, <1>12, <1>13, <1>14

(* The ring that NewLRU makes. *)
LEMMA InitRing ==
  ASSUME Lru!Init
  PROVE  Ring(ring, <<>>) /\ Elements(<<>>) = {} /\ Len(<<>>) = 0
<1>1. <<>> \in Seq(Nodes) /\ Len(<<>>) = 0 /\ Elements(<<>>) = {}
  BY EmptySeq DEF Elements
<1>2. ring.next = [n \in CacheCells |-> n] /\ ring.pre = [n \in CacheCells |-> n]
  BY DEF Lru!Init, CacheCells
<1>3. Top \in CacheCells
  BY DEF CacheCells
<1>4. Circle(ring.next, Top, <<>>)
  BY <1>1, <1>2, <1>3 DEF Circle, Nth
<1>5. QED
  BY <1>1, <1>2, <1>3, <1>4 DEF Ring

(* CacheInv is inductive. *)
THEOREM CacheInvariant == Lru!Spec => []CacheInv
<1>1. Lru!Init => CacheInv
  <2>1. SUFFICES ASSUME Lru!Init PROVE CacheInv
    OBVIOUS
  <2>2. CacheTypes
    BY <2>1 DEF Lru!Init, CacheTypes
  <2>3. Ring(ring, <<>>) /\ Elements(<<>>) = {} /\ Len(<<>>) = 0
    BY <2>1, InitRing
  <2>4. Held(<<>>)
    BY <2>1, <2>3 DEF Held, Lru!Init
  <2>5. QED
    BY <2>2, <2>3, <2>4 DEF CacheInv
<1>2. CacheInv /\ [Lru!Next]_Lru!cacheVars => CacheInv'
  <2>1. SUFFICES ASSUME CacheInv, [Lru!Next]_Lru!cacheVars PROVE CacheInv'
    OBVIOUS
  <2>2. CASE Lru!Next
    BY <2>1, <2>2, CacheStep
  <2>3. CASE UNCHANGED Lru!cacheVars
    <3>1. nodes' = nodes /\ ring' = ring /\ key' = key /\ val' = val
      BY <2>3 DEF Lru!cacheVars
    <3>2. PICK s : CacheTypes /\ Ring(ring, s) /\ Held(s)
      BY <2>1 DEF CacheInv
    <3>3. CacheTypes'
      BY <3>1, <3>2 DEF CacheTypes
    <3>4. Held(s)'
      BY <3>1, <3>2 DEF Held, Elements
    <3>5. Ring(ring, s)'
      BY <3>1, <3>2 DEF Ring, Elements, Circle, Nth
    <3>6. QED
      BY <3>3, <3>4, <3>5 DEF CacheInv
  <2>4. QED
    BY <2>1, <2>2, <2>3
<1>3. QED
  BY <1>1, <1>2, PTL DEF Lru!Spec

(* The cache of lru.go keeps the keys in the order of their last use and   *)
(* drops the one used least recently; Add(k, v) leaves v as the value of k *)
(* and of no other key, and Get(k) answers with the value last added for   *)
(* k, or with nothing if k is not there.                                   *)
THEOREM RefinesRecency == Lru!Spec => ImplementsRecency
<1>1. Lru!Init => Lru!Cache!RecencyInit
  <2>1. SUFFICES ASSUME Lru!Init PROVE Lru!Cache!RecencyInit
    OBVIOUS
  <2>2. Ring(ring, <<>>) /\ Len(<<>>) = 0
    BY <2>1, InitRing
  <2>3. Order = <<>>
    <3>1. Order = KeyOrder(<<>>)
      BY <2>2, OrderIs DEF Order
    <3>2. QED
      BY <2>2, <3>1 DEF KeyOrder
  <2>4. Values = <<>> /\ ret = <<"none">>
    BY <2>1 DEF Lru!Init, Values, Lru!Cached
  <2>5. QED
    BY <2>3, <2>4 DEF Lru!Cache!RecencyInit, Order, Values
<1>2. CacheInv /\ [Lru!Next]_Lru!cacheVars => [Lru!Cache!RecencyNext]_Lru!Cache!recencyVars
  <2>1. SUFFICES ASSUME CacheInv, [Lru!Next]_Lru!cacheVars
                 PROVE  [Lru!Cache!RecencyNext]_Lru!Cache!recencyVars
    OBVIOUS
  <2>2. CASE Lru!Next
    BY <2>1, <2>2, CacheStep
  <2>3. CASE UNCHANGED Lru!cacheVars
    BY <2>3 DEF Lru!cacheVars, Lru!Cache!recencyVars, Lru!Length, Lru!Met, Lru!Cached
  <2>4. QED
    BY <2>1, <2>2, <2>3
<1>3. QED
  BY <1>1, <1>2, CacheInvariant, PTL DEF Lru!Spec, ImplementsRecency, Lru!ImplementsRecency, Lru!Cache!RecencySpec

=============================================================================
