--------------------------- MODULE MemPoolProofs ---------------------------
(***************************************************************************)
(* The memory pool for any size, any number of array entries and any       *)
(* request sizes: the slot list, the spare entries and the free queue      *)
(* agree after every sequence of calls, and the pool is a heap.            *)
(***************************************************************************)
EXTENDS MemPool, TLAPS, FiniteSetTheorems, SequenceTheorems

Flag == {SlotFree, SlotUsed}
Slot == [data : 0 .. Units, size : 0 .. Units, flags : Flag,
         prev : Entry \cup {None}, next : Entry \cup {None}]
PoolValue == [slots : [Entry -> Slot], index : [Entry -> Entry], cur : 1 .. MaxSlots]
Waiting == [addr : 0 .. Units - 1, timer : {1, 2}]

\* The stack of unused entries holds each of them once; the rest are listed.
Spare(p) == {p.index[k] : k \in p.cur .. MaxSlots - 1}
Listed(p) == Entry \ Spare(p)
SpareOnce(p) ==
    \A j, k \in p.cur .. MaxSlots - 1 : p.index[j] = p.index[k] => j = k

\* What the links and the sizes of slot i say of its neighbours.
Forward(p, i) ==
    LET s == p.slots[i]
    IN  IF s.data + s.size = Units THEN s.next = None
        ELSE /\ s.next \in Listed(p)
             /\ p.slots[s.next].prev = i
             /\ p.slots[s.next].data = s.data + s.size
Backward(p, i) ==
    LET s == p.slots[i]
    IN  IF i = 0 THEN s.prev = None /\ s.data = 0
        ELSE s.prev \in Listed(p) /\ p.slots[s.prev].next = i

Apart(p, i, j) ==
    \/ p.slots[i].data + p.slots[i].size <= p.slots[j].data
    \/ p.slots[j].data + p.slots[j].size <= p.slots[i].data

Linked(p) ==
    /\ p \in PoolValue
    /\ SpareOnce(p)
    /\ 0 \in Listed(p)
    /\ \A i \in Spare(p) : p.slots[i] = Unused
    /\ \A i \in Listed(p) :
          /\ p.slots[i].size > 0
          /\ p.slots[i].data + p.slots[i].size <= Units
          /\ Forward(p, i)
          /\ Backward(p, i)
    /\ \A i, j \in Listed(p) : i # j => Apart(p, i, j)

Merged(p) ==
    \A i \in Listed(p) : IsFree(p, i) => ~IsFree(p, p.slots[i].next)

Sound(p) == Linked(p) /\ Merged(p)

\* The blocks in use.
BlockAt(p, i) == [addr |-> p.slots[i].data, size |-> p.slots[i].size]
UsedOf(p) == {i \in Listed(p) : p.slots[i].flags = SlotUsed}
BlocksOf(p) == {BlockAt(p, i) : i \in UsedOf(p)}

\* The queue holds addresses of blocks in use, each once.
Deferred(p, q) ==
    /\ q \in Seq(Waiting)
    /\ \A k \in 1 .. Len(q) : \E b \in BlocksOf(p) : b.addr = q[k].addr
    /\ \A j, k \in 1 .. Len(q) : q[j].addr = q[k].addr => j = k

-----------------------------------------------------------------------------
(* Induction over positions, entries and addresses.                        *)

\* A set of numbers that is not empty has a least element.
LEMMA LeastElement ==
    ASSUME NEW T \in SUBSET Nat, T # {}
    PROVE  \E m \in T : \A n \in T : m <= n
<1> DEFINE R == OpToRel(<, Nat)
<1>1. IsWellFoundedOn(R, Nat)
  BY NatLessThanWellFounded
<1>2. \A a, b \in Nat : <<a, b>> \in R <=> a < b
  BY DEF OpToRel
<1> HIDE DEF R
<1>3. PICK x \in T : \A y \in T : ~ (<<y, x>> \in R)
  BY <1>1, WFMin
<1>4. \A y \in T : ~(y < x)
  BY <1>2, <1>3
<1>5. \A y \in T : x <= y
  BY <1>4
<1> QED
  BY <1>5

\* The least element is what Min returns.
LEMMA MinLeast ==
    ASSUME NEW T \in SUBSET Nat, T # {}
    PROVE  Min(T) \in T
BY LeastElement DEF Min

\* What holds of 0 and passes from each number to the next holds up to N.
LEMMA Counting ==
    ASSUME NEW N \in Nat, NEW T, 0 \in T, \A n \in 0 .. N - 1 : n \in T => n + 1 \in T
    PROVE  \A n \in 0 .. N : n \in T
<1> DEFINE Bad == {n \in 0 .. N : n \notin T}
<1>1. Bad \in SUBSET Nat
  OBVIOUS
<1>2. ASSUME Bad # {} PROVE FALSE
  <2>1. PICK m \in Bad : \A n \in Bad : m <= n
    BY <1>1, <1>2, LeastElement
  <2>2. m \in 0 .. N /\ m \notin T /\ m # 0
    BY <2>1
  <2>3. m - 1 \in 0 .. N - 1 /\ m - 1 \in 0 .. N /\ (m - 1) + 1 = m
    BY <2>2
  <2>4. m - 1 \in T
    BY <2>1, <2>2, <2>3
  <2> QED
    BY <2>2, <2>3, <2>4
<1> QED
  BY <1>2

\* f[n] is what steps 0 to n - 1 make of first, for each n up to N; it is in In[n].
IsRun(f, N, first, step, In) ==
    /\ f = [n \in 0 .. N |-> f[n]]
    /\ f[0] = first
    /\ \A n \in 0 .. N : f[n] \in In[n]
    /\ \A n \in 1 .. N : f[n] = step[n - 1][f[n - 1]]

\* Steps that lead from one set to the next can be taken one after the other.
LEMMA Iterated ==
    ASSUME NEW N \in Nat, NEW In, NEW first \in In[0], NEW step,
           \A n \in 0 .. N - 1 : \A s \in In[n] : step[n][s] \in In[n + 1]
    PROVE  \E f : IsRun(f, N, first, step, In)
<1> DEFINE T == {M \in Nat : \E f : IsRun(f, M, first, step, In)}
<1>1. 0 \in T
  <2> DEFINE g == [n \in 0 .. 0 |-> first]
  <2>1. g = [n \in 0 .. 0 |-> g[n]] /\ g[0] = first /\ \A n \in 0 .. 0 : n = 0
    OBVIOUS
  <2> HIDE DEF g
  <2>2. IsRun(g, 0, first, step, In)
    BY <2>1 DEF IsRun
  <2> QED
    BY <2>2
<1>2. ASSUME NEW M \in 0 .. N - 1, M \in T
      PROVE  M + 1 \in T
  <2>1. PICK f : IsRun(f, M, first, step, In)
    BY <1>2
  <2> DEFINE g == [n \in 0 .. M + 1 |-> IF n = M + 1 THEN step[M][f[M]] ELSE f[n]]
  <2>2. /\ g = [n \in 0 .. M + 1 |-> g[n]]
        /\ g[M + 1] = step[M][f[M]]
        /\ \A n \in 0 .. M : g[n] = f[n]
    OBVIOUS
  <2> HIDE DEF g
  <2>3. f[M] \in In[M] /\ g[M + 1] \in In[M + 1]
    BY <2>1, <2>2 DEF IsRun
  <2>4. \A n \in 0 .. M + 1 : g[n] \in In[n]
    <3> TAKE n \in 0 .. M + 1
    <3>1. CASE n = M + 1
      BY <2>3, <3>1
    <3>2. CASE n # M + 1
      <4>1. n \in 0 .. M
        BY <3>2
      <4> QED
        BY <2>1, <2>2, <4>1 DEF IsRun
    <3> QED
      BY <3>1, <3>2
  <2>5. \A n \in 1 .. M + 1 : g[n] = step[n - 1][g[n - 1]]
    <3> TAKE n \in 1 .. M + 1
    <3>1. n - 1 \in 0 .. M
      OBVIOUS
    <3>2. CASE n = M + 1
      <4>1. n - 1 = M /\ M \in 0 .. M
        BY <3>2
      <4>2. g[n] = step[M][f[M]] /\ g[M] = f[M]
        BY <2>2, <3>2, <4>1
      <4> QED
        BY <4>1, <4>2
    <3>3. CASE n # M + 1
      <4>1. n \in 1 .. M /\ n \in 0 .. M
        BY <3>3
      <4> QED
        BY <2>1, <2>2, <3>1, <4>1 DEF IsRun
    <3> QED
      BY <3>2, <3>3
  <2>6. g[0] = first
    <3>1. 0 \in 0 .. M
      OBVIOUS
    <3> QED
      BY <2>1, <2>2, <3>1 DEF IsRun
  <2>7. IsRun(g, M + 1, first, step, In)
    BY <2>2, <2>4, <2>5, <2>6 DEF IsRun
  <2>8. M + 1 \in Nat
    OBVIOUS
  <2> QED
    BY <2>7, <2>8
<1>3. N \in T
  <2> HIDE DEF T
  <2>1. \A n \in 0 .. N : n \in T
    BY <1>1, <1>2, Counting
  <2> QED
    BY <2>1
<1> QED
  BY <1>3

-----------------------------------------------------------------------------
(* The list of a linked pool.                                              *)

\* A walk along the links from slot i to the end of the list.
IsPath(p, i, c) ==
    /\ c \in Seq(Listed(p))
    /\ Len(c) \in Nat \ {0}
    /\ c[1] = i
    /\ p.slots[c[Len(c)]].next = None
    /\ \A k \in 1 .. Len(c) - 1 : p.slots[c[k]].next = c[k + 1]

\* The types of the fields, and what a slot of the list says.
LEMMA SlotTypes ==
    ASSUME NEW p, Linked(p), NEW i \in Entry
    PROVE  /\ p.slots \in [Entry -> Slot] /\ p.index \in [Entry -> Entry]
           /\ p.cur \in 1 .. MaxSlots
           /\ p.slots[i].data \in 0 .. Units /\ p.slots[i].size \in 0 .. Units
           /\ p.slots[i].flags \in Flag
           /\ p.slots[i].prev \in Entry \cup {None}
           /\ p.slots[i].next \in Entry \cup {None}
BY DEF Linked, PoolValue, Slot

LEMMA Constants ==
    /\ Units \in Nat \ {0} /\ MaxSlots \in Nat \ {0, 1} /\ None = -1
    /\ Entry \in SUBSET Nat /\ 0 \in Entry /\ None \notin Entry
BY MemPoolAssumption DEF Entry, None

LEMMA ListedIsEntry ==
    ASSUME NEW p, NEW i \in Listed(p)
    PROVE  i \in Entry /\ i \in Nat /\ i # None
BY Constants DEF Listed

LEMMA SpareIsEntry ==
    ASSUME NEW p, Linked(p), NEW i \in Spare(p)
    PROVE  i \in Entry
<1>1. p.index \in [Entry -> Entry] /\ p.cur \in 1 .. MaxSlots
  BY DEF Linked, PoolValue
<1>2. p.cur .. MaxSlots - 1 \subseteq Entry
  BY <1>1, Constants DEF Entry
<1> QED
  BY <1>1, <1>2 DEF Spare

LEMMA NextListed ==
    ASSUME NEW p, Linked(p), NEW i \in Listed(p)
    PROVE  \/ p.slots[i].next = None
           \/ /\ p.slots[i].next \in Listed(p)
              /\ p.slots[i].data < p.slots[p.slots[i].next].data
<1>1. i \in Entry /\ Units \in Nat
  BY ListedIsEntry, Constants
<1>2. p.slots[i].size > 0 /\ Forward(p, i)
  BY DEF Linked
<1>3. p.slots[i].data \in Nat /\ p.slots[i].size \in Nat
  BY <1>1, SlotTypes
<1> QED
  BY <1>2, <1>3 DEF Forward

\* Every slot of the list leads to its end.
LEMMA PathExists ==
    ASSUME NEW p, Linked(p), NEW i \in Listed(p)
    PROVE  \E c : IsPath(p, i, c)
<1> DEFINE Lost == {j \in Listed(p) : ~ \E c : IsPath(p, j, c)}
           Far  == {Units - p.slots[j].data : j \in Lost}
<1>1. \A j \in Listed(p) : p.slots[j].data \in 0 .. Units
  BY SlotTypes, ListedIsEntry
<1>2. Far \in SUBSET Nat
  BY <1>1, Constants
<1>3. ASSUME Lost # {} PROVE FALSE
  <2>1. PICK j \in Lost : \A k \in Lost :
            Units - p.slots[j].data <= Units - p.slots[k].data
    <3>1. Far # {}
      BY <1>3
    <3>2. PICK m \in Far : \A n \in Far : m <= n
      BY <1>2, <3>1, LeastElement
    <3> QED
      BY <3>2
  <2>2. j \in Listed(p)
    OBVIOUS
  <2>3. CASE p.slots[j].next = None
    <3>1. IsPath(p, j, <<j>>)
      BY <2>2, <2>3 DEF IsPath
    <3> QED
      BY <3>1
  <2>4. CASE p.slots[j].next # None
    <3> DEFINE n == p.slots[j].next
    <3>1. n \in Listed(p) /\ p.slots[j].data < p.slots[n].data
      BY <2>2, <2>4, NextListed
    <3>2. n \notin Lost
      BY <1>1, <2>1, <2>2, <3>1, Constants
    <3>3. PICK c : IsPath(p, n, c)
      BY <3>1, <3>2
    <3> HIDE DEF n
    <3> DEFINE d == <<j>> \o c
    <3>4. c \in Seq(Listed(p)) /\ Len(c) \in Nat \ {0} /\ c[1] = n
      BY <3>3 DEF IsPath
    <3>5. d \in Seq(Listed(p)) /\ Len(d) = Len(c) + 1
      BY <2>2, <3>4
    <3>6. d[1] = j /\ \A k \in 1 .. Len(c) : d[k + 1] = c[k]
      BY <2>2, <3>4
    <3> HIDE DEF d
    <3>7. d[Len(d)] = c[Len(c)]
      BY <3>4, <3>5, <3>6
    <3>8. ASSUME NEW k \in 1 .. Len(d) - 1
          PROVE  p.slots[d[k]].next = d[k + 1]
      <4>1. CASE k = 1
        BY <4>1, <3>4, <3>6 DEF n
      <4>2. CASE k # 1
        <5>1. k - 1 \in 1 .. Len(c) - 1 /\ k \in 1 .. Len(c)
          BY <4>2, <3>4, <3>5
        <5>2. d[k] = c[k - 1] /\ d[k + 1] = c[k]
          <6>1. k - 1 \in 1 .. Len(c) /\ (k - 1) + 1 = k
            BY <5>1
          <6> QED
            BY <5>1, <6>1, <3>6
        <5> QED
          BY <5>1, <5>2, <3>3 DEF IsPath
      <4> QED
        BY <4>1, <4>2
    <3>9. IsPath(p, j, d)
      BY <3>3, <3>4, <3>5, <3>6, <3>7, <3>8 DEF IsPath
    <3> QED
      BY <3>9
  <2> QED
    BY <2>3, <2>4
<1> QED
  BY <1>3

LEMMA PathOrdered ==
    ASSUME NEW p, Linked(p), NEW i, NEW c, IsPath(p, i, c),
           NEW j \in 1 .. Len(c), NEW k \in 1 .. Len(c), j < k
    PROVE  p.slots[c[j]].data < p.slots[c[k]].data
<1> DEFINE At(m) == p.slots[c[m]].data
           Bad == {m \in Nat : \E l \in 1 .. Len(c) :
                      m \in 1 .. Len(c) /\ l < m /\ ~(At(l) < At(m))}
<1>1. \A m \in 1 .. Len(c) : c[m] \in Listed(p)
  BY DEF IsPath
<1>2. \A m \in 1 .. Len(c) : At(m) \in Nat
  BY <1>1, ListedIsEntry, SlotTypes
<1>3. \A m \in 1 .. Len(c) - 1 : At(m) < At(m + 1)
  <2> TAKE m \in 1 .. Len(c) - 1
  <2>1. /\ m \in 1 .. Len(c) /\ m + 1 \in 1 .. Len(c)
        /\ p.slots[c[m]].next = c[m + 1]
    BY DEF IsPath
  <2>2. c[m + 1] # None
    BY <1>1, <2>1, ListedIsEntry
  <2> QED
    BY <1>1, <2>1, <2>2, NextListed
<1> HIDE DEF At
<1>4. ASSUME Bad # {} PROVE FALSE
  <2>1. PICK m \in Bad : \A n \in Bad : m <= n
    BY <1>4, LeastElement
  <2>2. PICK l \in 1 .. Len(c) : m \in 1 .. Len(c) /\ l < m /\ ~(At(l) < At(m))
    BY <2>1
  <2>3. Len(c) \in Nat /\ m - 1 \in 1 .. Len(c) - 1
    BY <2>2 DEF IsPath
  <2>4. At(m - 1) < At(m)
    <3>1. (m - 1) + 1 = m
      BY <2>2
    <3> QED
      BY <1>3, <2>3, <3>1
  <2>5. l # m - 1
    BY <2>2, <2>4
  <2>6. m - 1 \notin Bad /\ m - 1 \in Nat
    BY <2>1, <2>3
  <2>7. At(l) < At(m - 1)
    BY <2>2, <2>3, <2>5, <2>6
  <2>8. m - 1 \in 1 .. Len(c)
    BY <2>3
  <2> QED
    BY <1>2, <2>2, <2>4, <2>7, <2>8
<1>5. k \notin Bad /\ k \in Nat
  BY <1>4
<1>6. At(j) < At(k)
  BY <1>5
<1> QED
  BY <1>6 DEF At

\* The walk from slot 0 meets every slot of the list.
LEMMA PathCovers ==
    ASSUME NEW p, Linked(p), NEW c, IsPath(p, 0, c), NEW i \in Listed(p)
    PROVE  \E k \in 1 .. Len(c) : c[k] = i
<1> DEFINE Missed == {j \in Listed(p) : \A k \in 1 .. Len(c) : c[k] # j}
           Places == {p.slots[j].data : j \in Missed}
<1>1. \A j \in Listed(p) : p.slots[j].data \in Nat
  BY ListedIsEntry, SlotTypes
<1>2. Places \in SUBSET Nat
  BY <1>1
<1>3. ASSUME Missed # {} PROVE FALSE
  <2>1. PICK j \in Missed : \A k \in Missed : p.slots[j].data <= p.slots[k].data
    <3>1. Places # {}
      BY <1>3
    <3>2. PICK m \in Places : \A n \in Places : m <= n
      BY <1>2, <3>1, LeastElement
    <3> QED
      BY <3>2
  <2>2. j # 0
    BY <2>1 DEF IsPath
  <2>3. /\ p.slots[j].prev \in Listed(p)
        /\ p.slots[p.slots[j].prev].next = j
    BY <2>2 DEF Linked, Backward
  <2> DEFINE b == p.slots[j].prev
  <2>4. p.slots[b].data < p.slots[j].data
    <3>1. p.slots[b].next # None
      BY <2>3, ListedIsEntry
    <3> QED
      BY <2>3, <3>1, NextListed
  <2>5. b \notin Missed
    BY <1>1, <2>1, <2>3, <2>4
  <2>6. PICK k \in 1 .. Len(c) : c[k] = b
    BY <2>3, <2>5
  <2>7. k # Len(c)
    BY <2>3, <2>6, ListedIsEntry DEF IsPath
  <2>8. k \in 1 .. Len(c) - 1 /\ k + 1 \in 1 .. Len(c)
    BY <2>7 DEF IsPath
  <2>9. c[k + 1] = j
    BY <2>3, <2>6, <2>8 DEF IsPath
  <2> QED
    BY <2>8, <2>9
<1> QED
  BY <1>3

\* The list has as many slots as the pool counts.
LEMMA ListedCount ==
    ASSUME NEW p, Linked(p)
    PROVE  IsFiniteSet(Listed(p)) /\ Cardinality(Listed(p)) = p.cur
<1> DEFINE K == p.cur .. MaxSlots - 1
           f == [k \in K |-> p.index[k]]
<1>1. p.cur \in 1 .. MaxSlots /\ p.index \in [Entry -> Entry] /\ SpareOnce(p)
  BY DEF Linked, PoolValue
<1>2. K \subseteq Entry
  BY <1>1, Constants DEF Entry
<1>3. IsFiniteSet(K) /\ Cardinality(K) = MaxSlots - p.cur
  <2>1. p.cur \in Int /\ MaxSlots - 1 \in Int /\ p.cur <= MaxSlots
    BY <1>1, Constants
  <2>2. /\ IsFiniteSet(K)
        /\ Cardinality(K) = IF p.cur > MaxSlots - 1 THEN 0
                            ELSE (MaxSlots - 1) - p.cur + 1
    BY <2>1, FS_Interval
  <2> QED
    BY <2>1, <2>2, Constants
<1>4. f \in Bijection(K, Spare(p))
  <2>1. f \in [K -> Spare(p)]
    BY DEF Spare
  <2>2. \A j, k \in K : f[j] = f[k] => j = k
    BY <1>1 DEF SpareOnce
  <2>3. \A s \in Spare(p) : \E k \in K : f[k] = s
    BY DEF Spare
  <2> HIDE DEF f, K
  <2> QED
    BY <2>1, <2>2, <2>3 DEF Bijection, Injection, Surjection, IsInjective
<1>5. IsFiniteSet(Spare(p)) /\ Cardinality(Spare(p)) = MaxSlots - p.cur
  BY <1>3, <1>4, FS_Bijection DEF ExistsBijection
<1>6. IsFiniteSet(Entry) /\ Cardinality(Entry) = MaxSlots
  BY Constants, FS_Interval DEF Entry
<1>7. Spare(p) \subseteq Entry
  BY <1>1, <1>2 DEF Spare
<1>8. /\ IsFiniteSet(Entry \ Spare(p))
      /\ Cardinality(Entry \ Spare(p)) =
         Cardinality(Entry) - Cardinality(Entry \cap Spare(p))
  BY <1>6, FS_Difference
<1>9. Entry \cap Spare(p) = Spare(p)
  BY <1>7
<1> QED
  BY <1>1, <1>5, <1>6, <1>8, <1>9, Constants DEF Listed

LEMMA PathLength ==
    ASSUME NEW p, Linked(p), NEW c, IsPath(p, 0, c)
    PROVE  Len(c) = p.cur
<1>1. c \in [1 .. Len(c) -> Listed(p)] /\ Len(c) \in Nat
  BY DEF IsPath
<1>2. \A j, k \in 1 .. Len(c) : c[j] = c[k] => j = k
  <2> SUFFICES ASSUME NEW j \in 1 .. Len(c), NEW k \in 1 .. Len(c), c[j] = c[k], j # k
               PROVE  FALSE
    OBVIOUS
  <2>1. p.slots[c[j]].data \in Nat
    BY <1>1, ListedIsEntry, SlotTypes
  <2>2. ~(j < k) /\ ~(k < j)
    BY <2>1, PathOrdered
  <2> QED
    BY <1>1, <2>2
<1>3. \A i \in Listed(p) : \E k \in 1 .. Len(c) : c[k] = i
  BY PathCovers
<1>4. c \in Bijection(1 .. Len(c), Listed(p))
  BY <1>1, <1>2, <1>3 DEF Bijection, Injection, Surjection, IsInjective
<1>5. Cardinality(Listed(p)) = Len(c)
  BY <1>1, <1>4, FS_CountingElements DEF ExistsBijection
<1> QED
  BY <1>5, ListedCount

\* What is left of a walk from its place k on.
Suffix(c, k) == SubSeq(c, k, Len(c))

LEMMA SuffixSteps ==
    ASSUME NEW S, NEW c \in Seq(S), Len(c) # 0
    PROVE  /\ Suffix(c, 1) = c
           /\ Suffix(c, Len(c)) = <<c[Len(c)]>>
           /\ \A k \in 1 .. Len(c) - 1 : Suffix(c, k) = <<c[k]>> \o Suffix(c, k + 1)
<1>1. Suffix(c, 1) = c
  BY DEF Suffix
<1>2. Suffix(c, Len(c)) = <<c[Len(c)]>>
  <2> DEFINE a == SubSeq(c, Len(c), Len(c))
             d == <<c[Len(c)]>>
  <2>1. a \in Seq(S) /\ Len(a) = 1 /\ a[1] = c[Len(c)]
    OBVIOUS
  <2>2. d \in Seq(S) /\ Len(d) = 1 /\ d[1] = c[Len(c)]
    OBVIOUS
  <2> HIDE DEF a, d
  <2>3. \A m \in 1 .. Len(a) : a[m] = d[m]
    BY <2>1, <2>2
  <2>4. a = d
    BY <2>1, <2>2, <2>3, SeqEqual
  <2> QED
    BY <2>4 DEF a, d, Suffix
<1>3. ASSUME NEW k \in 1 .. Len(c) - 1
      PROVE  Suffix(c, k) = <<c[k]>> \o Suffix(c, k + 1)
  <2> DEFINE a == SubSeq(c, k, Len(c))
             b == SubSeq(c, k + 1, Len(c))
             d == <<c[k]>> \o b
  <2>1. a \in Seq(S) /\ Len(a) = Len(c) - k + 1
    OBVIOUS
  <2>2. b \in Seq(S) /\ Len(b) = Len(c) - k
    OBVIOUS
  <2>3. d \in Seq(S) /\ Len(d) = Len(c) - k + 1
    BY <2>2
  <2>4. \A m \in 1 .. Len(c) - k + 1 : a[m] = c[k + m - 1]
    OBVIOUS
  <2>5. \A m \in 1 .. Len(c) - k : b[m] = c[k + m]
    OBVIOUS
  <2>6. ASSUME NEW m \in 1 .. Len(c) - k + 1 PROVE d[m] = c[k + m - 1]
    <3>1. CASE m = 1
      BY <3>1, <2>2
    <3>2. CASE m # 1
      <4>1. d[m] = b[m - 1] /\ m - 1 \in 1 .. Len(c) - k
        BY <3>2, <2>2
      <4> QED
        BY <4>1, <2>5
    <3> QED
      BY <3>1, <3>2
  <2> HIDE DEF a, b, d
  <2>7. a = d
    <3>1. \A m \in 1 .. Len(a) : a[m] = d[m]
      BY <2>1, <2>4, <2>6
    <3> QED
      BY <2>1, <2>3, <3>1, SeqEqual
  <2> QED
    BY <2>7 DEF a, b, d, Suffix
<1> QED
  BY <1>1, <1>2, <1>3

\* What the recursion of Chain returns is the walk from slot 0.
LEMMA ChainIsPath ==
    ASSUME NEW p, Linked(p), NEW c, IsPath(p, 0, c)
    PROVE  Chain(p) = c
<1> DEFINE n == Len(c)
           Walk(w, i) == IF p.slots[i].next = None THEN <<i>>
                         ELSE <<i>> \o w[p.slots[i].next]
           IsWalk(w) == w = [i \in Entry |-> Walk(w, i)]
           place(i) == CHOOSE k \in 1 .. n : c[k] = i
           g == [i \in Entry |-> IF i \in Listed(p) THEN Suffix(c, place(i))
                                 ELSE <<i>>]
           w == CHOOSE v : IsWalk(v)
<1>1. c \in Seq(Listed(p)) /\ n \in Nat \ {0} /\ c[1] = 0
  BY DEF IsPath
<1>2. \A k \in 1 .. n : c[k] \in Listed(p)
  BY <1>1
<1>3. \A k \in 1 .. n : place(c[k]) = k
  <2> SUFFICES ASSUME NEW j \in 1 .. n, NEW k \in 1 .. n, c[j] = c[k], j # k
               PROVE  FALSE
    OBVIOUS
  <2>1. p.slots[c[j]].data \in Nat
    BY <1>2, ListedIsEntry, SlotTypes
  <2>2. ~(j < k) /\ ~(k < j)
    BY <2>1, PathOrdered
  <2> QED
    BY <1>1, <2>2
<1>4. /\ Suffix(c, 1) = c
      /\ Suffix(c, n) = <<c[n]>>
      /\ \A k \in 1 .. n - 1 : Suffix(c, k) = <<c[k]>> \o Suffix(c, k + 1)
  BY <1>1, SuffixSteps
<1>5. p.slots[c[n]].next = None
  BY DEF IsPath
<1>6. \A k \in 1 .. n - 1 :
          /\ p.slots[c[k]].next = c[k + 1] /\ c[k + 1] # None
          /\ k \in 1 .. n /\ k + 1 \in 1 .. n
  <2> TAKE k \in 1 .. n - 1
  <2>1. k \in 1 .. n /\ k + 1 \in 1 .. n /\ p.slots[c[k]].next = c[k + 1]
    BY <1>1 DEF IsPath
  <2> QED
    BY <1>2, <2>1, ListedIsEntry
<1> HIDE DEF n, place
<1>7. \A k \in 1 .. n : c[k] \in Entry /\ g[c[k]] = Suffix(c, k)
  BY <1>2, <1>3, ListedIsEntry
<1>8. \A i \in Entry : g[i] = Walk(g, i)
  <2> TAKE i \in Entry
  <2>1. CASE i \notin Listed(p)
    <3>1. p.slots[i].next = None
      BY <2>1 DEF Linked, Listed, Unused
    <3> QED
      BY <2>1, <3>1
  <2>2. CASE i \in Listed(p)
    <3>1. PICK k \in 1 .. n : c[k] = i
      BY <2>2, PathCovers DEF n
    <3>2. g[i] = Suffix(c, k)
      BY <1>7, <3>1
    <3> HIDE DEF g
    <3>3. CASE k = n
      BY <1>4, <1>5, <3>1, <3>2, <3>3
    <3>4. CASE k # n
      <4>1. k \in 1 .. n - 1
        BY <1>1, <3>4
      <4>2. g[c[k + 1]] = Suffix(c, k + 1)
        BY <1>6, <1>7, <4>1
      <4> QED
        BY <1>4, <1>6, <3>1, <3>2, <4>1, <4>2
    <3> QED
      BY <3>3, <3>4
  <2> QED
    BY <2>1, <2>2
<1>9. IsWalk(g)
  <2> DEFINE h == [i \in Entry |-> Walk(g, i)]
  <2>1. DOMAIN g = Entry /\ DOMAIN h = Entry /\ \A i \in Entry : g[i] = h[i]
    BY <1>8
  <2>2. g = [i \in Entry |-> g[i]] /\ h = [i \in Entry |-> h[i]]
    OBVIOUS
  <2> HIDE DEF g, h
  <2>3. g = h
    BY <2>1, <2>2
  <2> QED
    BY <2>3 DEF h
<1> HIDE DEF g
<1>10. IsWalk(w)
  BY <1>9
<1> HIDE DEF w
<1>11. \A i \in Entry : w[i] = Walk(w, i)
  BY <1>10
<1> DEFINE Bad == {k \in 1 .. n : w[c[k]] # Suffix(c, k)}
           Left == {n - k : k \in Bad}
<1>12. ASSUME Bad # {} PROVE FALSE
  <2>1. PICK k \in Bad : \A j \in Bad : n - k <= n - j
    <3>1. Left # {} /\ Left \in SUBSET Nat
      BY <1>1, <1>12
    <3>2. PICK m \in Left : \A l \in Left : m <= l
      BY <3>1, LeastElement
    <3> QED
      BY <3>2
  <2>2. c[k] \in Entry
    BY <1>7, <2>1
  <2>3. w[c[k]] = Walk(w, c[k])
    BY <1>11, <2>2
  <2>4. CASE k = n
    BY <1>4, <1>5, <2>1, <2>3, <2>4
  <2>5. CASE k # n
    <3>1. k \in 1 .. n - 1
      BY <1>1, <2>1, <2>5
    <3>2. k + 1 \notin Bad
      BY <1>1, <2>1, <3>1
    <3>3. w[c[k + 1]] = Suffix(c, k + 1)
      BY <1>6, <3>1, <3>2
    <3> QED
      BY <1>4, <1>6, <2>1, <2>3, <3>1, <3>3
  <2> QED
    BY <2>4, <2>5
<1>13. w[c[1]] = c
  BY <1>1, <1>4, <1>12
<1>14. w[0] = c
  BY <1>1, <1>13
<1> QED
  BY <1>14 DEF Chain, w

\* The list of a linked pool, as the properties read it.
LEMMA ChainListed ==
    ASSUME NEW p, Linked(p)
    PROVE  /\ IsPath(p, 0, Chain(p))
           /\ ToSet(Chain(p)) = Listed(p)
           /\ Len(Chain(p)) = p.cur
<1>1. PICK c : IsPath(p, 0, c)
  <2>1. 0 \in Listed(p)
    BY DEF Linked
  <2> QED
    BY <2>1, PathExists
<1>2. Chain(p) = c
  BY <1>1, ChainIsPath
<1>3. c \in Seq(Listed(p)) /\ DOMAIN c = 1 .. Len(c)
  BY <1>1 DEF IsPath
<1>4. ToSet(c) = Listed(p)
  BY <1>1, <1>3, PathCovers DEF ToSet
<1> QED
  BY <1>1, <1>2, <1>4, PathLength

\* A search along the list finds a member of the set it looks for.
LEMMA FirstMember ==
    ASSUME NEW p, Linked(p), NEW set \in SUBSET Listed(p), set # {}
    PROVE  First(p, set) \in set
<1> DEFINE c == Chain(p)
           K == {k \in DOMAIN c : c[k] \in set}
<1>1. c \in Seq(Listed(p)) /\ DOMAIN c = 1 .. Len(c) /\ ToSet(c) = Listed(p)
  BY ChainListed DEF IsPath
<1>2. K # {}
  BY <1>1 DEF ToSet
<1>3. K \in SUBSET Nat
  BY <1>1
<1>4. Min(K) \in K
  BY <1>2, <1>3, MinLeast
<1> QED
  BY <1>4 DEF First

-----------------------------------------------------------------------------
(* Merging two neighbours.                                                 *)

\* The neighbour behind a slot is another slot, further on, whose own
\* neighbour is a third one.
LEMMA Neighbours ==
    ASSUME NEW p, Linked(p), NEW i \in Listed(p), p.slots[i].next # None
    PROVE  LET j == p.slots[i].next
           IN  /\ j \in Listed(p) /\ i # j /\ j # 0
               /\ p.slots[j].prev = i
               /\ p.slots[j].data = p.slots[i].data + p.slots[i].size
               /\ p.slots[j].next # i /\ p.slots[j].next # j
               /\ p.cur >= 2
<1> DEFINE j == p.slots[i].next
<1>1. i \in Entry /\ Units \in Nat
  BY ListedIsEntry, Constants
<1>2. Forward(p, i)
  BY DEF Linked
<1>3. /\ j \in Listed(p) /\ p.slots[j].prev = i
      /\ p.slots[j].data = p.slots[i].data + p.slots[i].size
  BY <1>2 DEF Forward
<1>4. j \in Entry /\ \A k \in Listed(p) : p.slots[k].data \in Nat
  BY <1>3, ListedIsEntry, SlotTypes
<1>5. p.slots[i].data < p.slots[j].data
  BY <1>3, NextListed
<1>6. p.slots[j].next # None => /\ p.slots[j].next \in Listed(p)
                                /\ p.slots[j].data < p.slots[p.slots[j].next].data
  BY <1>3, NextListed
<1>7. i # j /\ p.slots[j].next # i /\ p.slots[j].next # j
  BY <1>3, <1>4, <1>5, <1>6, ListedIsEntry
<1>8. j # 0
  BY <1>3, ListedIsEntry DEF Linked, Backward
<1>9. p.cur # 1
  <2>1. ~ \E x : Listed(p) = {x}
    BY <1>3, <1>7
  <2> QED
    BY <2>1, ListedCount, FS_Singleton
<1>10. p.cur >= 2
  BY <1>1, <1>9, SlotTypes, Constants
<1> QED
  BY <1>3, <1>7, <1>8, <1>10

\* The fields of a slot, in the order of its type.
Holds(s, data, size, flags, prev, next) ==
    /\ s \in Slot
    /\ s.data = data /\ s.size = size /\ s.flags = flags /\ s.prev = prev /\ s.next = next


LEMMA LinkFields ==
    ASSUME NEW s \in [Entry -> Slot], NEW from \in Entry, NEW to \in Entry \cup {None},
           NEW t, t = Link(s, from, to)
    PROVE  /\ t \in [Entry -> Slot]
           /\ \A k \in Entry \ {to} : t[k] = s[k]
           /\ to # None => Holds(t[to], s[to].data, s[to].size, s[to].flags, from, s[to].next)
<1>1. CASE to = None
  BY <1>1 DEF Link
<1>2. CASE to # None
  <2>1. to \in Entry /\ s[to] \in Slot
    BY <1>2
  <2> DEFINE back == [s[to] EXCEPT !.prev = from]
  <2>2. t = [s EXCEPT ![to] = back]
    BY <1>2 DEF Link
  <2>3. Holds(back, s[to].data, s[to].size, s[to].flags, from, s[to].next)
    BY <2>1 DEF Slot, Holds
  <2> HIDE DEF back
  <2>4. t \in [Entry -> Slot] /\ t[to] = back /\ \A k \in Entry \ {to} : t[k] = s[k]
    BY <2>1, <2>2, <2>3 DEF Holds
  <2> QED
    BY <2>3, <2>4
<1> QED
  BY <1>1, <1>2

\* What Absorb changes, field by field.
LEMMA AbsorbFields ==
    ASSUME NEW p, Linked(p), NEW i \in Listed(p), NEW j, j = p.slots[i].next, j # None,
           NEW a, a = p.slots[j].next, NEW q, q = Absorb(p, i, j)
    PROVE  /\ q = [slots |-> q.slots, index |-> q.index, cur |-> q.cur]
           /\ q.slots \in [Entry -> Slot]
           /\ q.index = [p.index EXCEPT ![p.cur - 1] = j]
           /\ q.cur = p.cur - 1
           /\ Holds(q.slots[i], p.slots[i].data, p.slots[i].size + p.slots[j].size,
                    p.slots[i].flags, p.slots[i].prev, a)
           /\ q.slots[j] = Unused
           /\ a # None => Holds(q.slots[a], p.slots[a].data, p.slots[a].size,
                                p.slots[a].flags, i, p.slots[a].next)
           /\ \A k \in Entry \ {i, j, a} : q.slots[k] = p.slots[k]
<1> DEFINE longer == [p.slots[i] EXCEPT !.size = @ + p.slots[j].size, !.next = a]
           s == [p.slots EXCEPT ![i] = longer, ![j] = Unused]
           t == Link(s, i, a)
<1>1. /\ j \in Listed(p) /\ i # j /\ a # i /\ a # j
      /\ p.slots[j].data = p.slots[i].data + p.slots[i].size
  BY Neighbours
<1>2. i \in Entry /\ j \in Entry /\ a \in Entry \cup {None}
  BY <1>1, ListedIsEntry, SlotTypes
<1>3. p.slots \in [Entry -> Slot] /\ p.slots[i] \in Slot /\ p.slots[j] \in Slot
  BY <1>2, SlotTypes
<1>4. p.slots[i].size + p.slots[j].size \in 0 .. Units
  <2>1. p.slots[j].data + p.slots[j].size <= Units
    BY <1>1 DEF Linked
  <2> QED
    BY <1>1, <1>3, <2>1, Constants DEF Slot
<1>5. Holds(longer, p.slots[i].data, p.slots[i].size + p.slots[j].size,
            p.slots[i].flags, p.slots[i].prev, a)
  BY <1>2, <1>3, <1>4 DEF Slot, Holds
<1>6. Unused \in Slot
  BY Constants DEF Unused, Slot, Flag
<1>7. q = [slots |-> t, index |-> [p.index EXCEPT ![p.cur - 1] = j], cur |-> p.cur - 1]
  BY DEF Absorb
<1> HIDE DEF longer
<1>8. /\ s \in [Entry -> Slot]
      /\ s[i] = longer /\ s[j] = Unused /\ \A k \in Entry \ {i, j} : s[k] = p.slots[k]
  BY <1>1, <1>2, <1>3, <1>5, <1>6 DEF Holds
<1> HIDE DEF s
<1>9. /\ t \in [Entry -> Slot]
      /\ \A k \in Entry \ {a} : t[k] = s[k]
      /\ a # None => Holds(t[a], s[a].data, s[a].size, s[a].flags, i, s[a].next)
  BY <1>2, <1>8, LinkFields
<1>10. /\ t[i] = longer /\ t[j] = Unused
       /\ \A k \in Entry \ {i, j, a} : t[k] = p.slots[k]
       /\ a # None => s[a] = p.slots[a]
  BY <1>1, <1>2, <1>8, <1>9
<1> HIDE DEF t
<1>11. q.slots = t /\ q.index = [p.index EXCEPT ![p.cur - 1] = j] /\ q.cur = p.cur - 1
  BY <1>7
<1>12. q = [slots |-> q.slots, index |-> q.index, cur |-> q.cur]
  BY <1>7
<1> QED
  BY <1>5, <1>9, <1>10, <1>11, <1>12

\* Merging keeps the list linked: it loses the slot swallowed, which joins
\* the spare entries.
LEMMA AbsorbLinked ==
    ASSUME NEW p, Linked(p), NEW i \in Listed(p), NEW j, j = p.slots[i].next, j # None,
           NEW q, q = Absorb(p, i, j)
    PROVE  /\ Linked(q)
           /\ Listed(q) = Listed(p) \ {j}
           /\ \A k \in Listed(q) :
                 /\ q.slots[k].data = p.slots[k].data
                 /\ q.slots[k].flags = p.slots[k].flags
                 /\ q.slots[k].size = IF k = i THEN p.slots[i].size + p.slots[j].size
                                      ELSE p.slots[k].size
                 /\ q.slots[k].next = IF k = i THEN p.slots[j].next ELSE p.slots[k].next
<1> DEFINE a == p.slots[j].next
<1>1. /\ j \in Listed(p) /\ i # j /\ j # 0 /\ a # i /\ a # j
      /\ p.slots[j].prev = i
      /\ p.slots[j].data = p.slots[i].data + p.slots[i].size
      /\ p.cur >= 2
  BY Neighbours
<1>2. /\ i \in Entry /\ j \in Entry /\ a \in Entry \cup {None}
      /\ p.index \in [Entry -> Entry] /\ p.cur \in 1 .. MaxSlots
  BY <1>1, ListedIsEntry, SlotTypes
<1>3. /\ q = [slots |-> q.slots, index |-> q.index, cur |-> q.cur]
      /\ q.slots \in [Entry -> Slot]
      /\ q.index = [p.index EXCEPT ![p.cur - 1] = j]
      /\ q.cur = p.cur - 1
      /\ Holds(q.slots[i], p.slots[i].data, p.slots[i].size + p.slots[j].size,
               p.slots[i].flags, p.slots[i].prev, a)
      /\ q.slots[j] = Unused
      /\ a # None => Holds(q.slots[a], p.slots[a].data, p.slots[a].size,
                           p.slots[a].flags, i, p.slots[a].next)
      /\ \A k \in Entry \ {i, j, a} : q.slots[k] = p.slots[k]
  BY AbsorbFields
<1>4. /\ q.index = [p.index EXCEPT ![p.cur - 1] = j]
      /\ q.cur = p.cur - 1 /\ p.cur - 1 \in Entry /\ p.cur \in Nat
      /\ q.index \in [Entry -> Entry] /\ q.cur \in 1 .. MaxSlots
  <2>1. q.index = [p.index EXCEPT ![p.cur - 1] = j] /\ q.cur = p.cur - 1
    BY <1>3
  <2>2. p.cur - 1 \in Entry /\ p.cur \in Nat /\ p.cur - 1 \in 1 .. MaxSlots
    <3>1. p.cur \in Nat /\ 2 <= p.cur /\ p.cur <= MaxSlots /\ MaxSlots \in Nat
      BY <1>1, <1>2, Constants
    <3> QED
      BY <3>1 DEF Entry
  <2> QED
    BY <1>2, <2>1, <2>2
<1>5. q \in PoolValue
  BY <1>3, <1>4 DEF PoolValue
<1>6. /\ p.cur - 1 \in Entry /\ q.index[p.cur - 1] = j
      /\ \A k \in p.cur .. MaxSlots - 1 : k \in Entry /\ q.index[k] = p.index[k]
      /\ q.cur .. MaxSlots - 1 = {p.cur - 1} \cup (p.cur .. MaxSlots - 1)
  <2>1. \A k \in p.cur .. MaxSlots - 1 : k \in Entry /\ k # p.cur - 1
    BY <1>4, Constants DEF Entry
  <2>2. q.cur .. MaxSlots - 1 = {p.cur - 1} \cup (p.cur .. MaxSlots - 1)
    BY <1>2, <1>4, Constants
  <2> QED
    BY <1>2, <1>4, <2>1, <2>2
<1>7. Spare(q) = Spare(p) \cup {j}
  BY <1>6 DEF Spare
<1>8. Listed(q) = Listed(p) \ {j}
  BY <1>7 DEF Listed
<1>9. SpareOnce(q)
  <2>1. \A k \in p.cur .. MaxSlots - 1 : q.index[k] # j
    BY <1>1, <1>6 DEF Listed, Spare
  <2>2. SpareOnce(p)
    BY DEF Linked
  <2> QED
    BY <1>6, <2>1, <2>2 DEF SpareOnce
<1>10. ASSUME NEW k \in Listed(p), k # j
       PROVE  /\ k \in Entry /\ k # None
              /\ q.slots[k].data = p.slots[k].data
              /\ q.slots[k].flags = p.slots[k].flags
              /\ q.slots[k].size = IF k = i THEN p.slots[i].size + p.slots[j].size
                                   ELSE p.slots[k].size
              /\ q.slots[k].next = IF k = i THEN a ELSE p.slots[k].next
              /\ q.slots[k].prev = IF k = a THEN i ELSE p.slots[k].prev
  <2>1. k \in Entry /\ k # None
    BY ListedIsEntry
  <2> QED
    BY <1>1, <1>3, <1>10, <2>1 DEF Holds
<1>11. \A k \in Spare(q) : q.slots[k] = Unused
  <2> TAKE k \in Spare(q)
  <2>1. CASE k = j
    BY <1>3, <2>1
  <2>2. CASE k # j
    <3>1. k \in Spare(p) /\ k \in Entry
      BY <1>2, <1>6, <1>7, <2>2 DEF Spare
    <3>2. k # i
      BY <3>1 DEF Listed
    <3>3. k # a
      <4>1. a # None => a \in Listed(p)
        BY <1>1, NextListed
      <4> QED
        BY <1>2, <3>1, <4>1, Constants DEF Listed
    <3> QED
      BY <1>3, <2>2, <3>1, <3>2, <3>3 DEF Linked
  <2> QED
    BY <2>1, <2>2
<1>12. /\ \A k \in Listed(p) : /\ p.slots[k].size > 0
                               /\ p.slots[k].data + p.slots[k].size <= Units
                               /\ Forward(p, k) /\ Backward(p, k)
                               /\ p.slots[k].data \in Nat /\ p.slots[k].size \in Nat
       /\ \A k, l \in Listed(p) : k # l => Apart(p, k, l)
  BY SlotTypes, ListedIsEntry DEF Linked
<1>13. 0 \in Listed(q)
  BY <1>1, <1>8 DEF Linked
<1> DEFINE Ends(k) == p.slots[k].data + p.slots[k].size
<1>14. \A k \in Listed(p) :
           IF Ends(k) = Units THEN p.slots[k].next = None
           ELSE /\ p.slots[k].next \in Listed(p)
                /\ p.slots[p.slots[k].next].prev = k
                /\ p.slots[p.slots[k].next].data = Ends(k)
  BY <1>12 DEF Forward
<1>15. \A k \in Listed(p) :
           IF k = 0 THEN p.slots[k].prev = None /\ p.slots[k].data = 0
           ELSE p.slots[k].prev \in Listed(p) /\ p.slots[p.slots[k].prev].next = k
  BY <1>12 DEF Backward
<1>16. ASSUME NEW k \in Listed(q)
       PROVE  q.slots[k].size > 0 /\ q.slots[k].data + q.slots[k].size <= Units
  <2>1. k \in Listed(p) /\ k # j
    BY <1>8
  <2>2. /\ q.slots[k].data = p.slots[k].data
        /\ q.slots[k].size = IF k = i THEN p.slots[i].size + p.slots[j].size
                             ELSE p.slots[k].size
    BY <1>10, <2>1
  <2>3. /\ p.slots[k].data \in Nat /\ p.slots[k].size \in Nat /\ p.slots[k].size > 0
        /\ p.slots[k].data + p.slots[k].size <= Units
        /\ p.slots[j].size \in Nat /\ p.slots[j].data + p.slots[j].size <= Units
    BY <1>1, <1>12, <2>1
  <2> QED
    BY <1>1, <2>2, <2>3, Constants
<1>17. ASSUME NEW k \in Listed(q)
       PROVE  Forward(q, k)
  <2>1. k \in Listed(p) /\ k # j
    BY <1>8
  <2>2. CASE k = i
    <3>1. q.slots[k].data + q.slots[k].size = Ends(j) /\ q.slots[k].next = a
      <4>1. /\ q.slots[k].data = p.slots[i].data /\ q.slots[k].next = a
            /\ q.slots[k].size = p.slots[i].size + p.slots[j].size
        BY <1>10, <2>1, <2>2
      <4>2. /\ p.slots[i].data \in Nat /\ p.slots[i].size \in Nat
            /\ p.slots[j].size \in Nat
        BY <1>1, <1>12
      <4> QED
        BY <1>1, <4>1, <4>2
    <3>2. IF Ends(j) = Units THEN a = None
          ELSE a \in Listed(p) /\ p.slots[a].data = Ends(j)
      BY <1>1, <1>14
    <3>3. a \in Listed(p) => /\ a \in Listed(q) /\ q.slots[a].prev = i
                             /\ q.slots[a].data = p.slots[a].data
      BY <1>1, <1>8, <1>10
    <3> QED
      BY <2>2, <3>1, <3>2, <3>3 DEF Forward
  <2>3. CASE k # i
    <3> DEFINE n == p.slots[k].next
    <3>1. q.slots[k].data + q.slots[k].size = Ends(k) /\ q.slots[k].next = n
      BY <1>10, <2>1, <2>3
    <3>2. n \in Listed(p) /\ p.slots[n].prev = k =>
             n # j /\ n # a
      <4>1. a \in Listed(p) => p.slots[a].prev = j
        BY <1>1, <1>14, ListedIsEntry
      <4> QED
        BY <1>1, <2>1, <2>3, <4>1
    <3>3. n \in Listed(p) /\ n # j /\ n # a =>
             /\ n \in Listed(q) /\ q.slots[n].prev = p.slots[n].prev
             /\ q.slots[n].data = p.slots[n].data
      BY <1>8, <1>10
    <3> QED
      BY <1>14, <2>1, <3>1, <3>2, <3>3 DEF Forward
  <2> QED
    BY <2>2, <2>3
<1>18. ASSUME NEW k \in Listed(q)
       PROVE  Backward(q, k)
  <2>1. k \in Listed(p) /\ k # j
    BY <1>8
  <2>2. CASE k = a
    <3>1. k # 0
      BY <1>1, <1>14, <1>15, <2>1, <2>2, ListedIsEntry
    <3>2. q.slots[k].prev = i /\ i \in Listed(q) /\ q.slots[i].next = a
      BY <1>1, <1>8, <1>10, <2>1, <2>2
    <3> QED
      BY <2>2, <3>1, <3>2 DEF Backward
  <2>3. CASE k # a
    <3> DEFINE b == p.slots[k].prev
    <3>1. q.slots[k].prev = b /\ q.slots[k].data = p.slots[k].data
      BY <1>10, <2>1, <2>3
    <3>2. b \in Listed(p) /\ p.slots[b].next = k => b # j /\ b # i
      BY <2>1, <2>3
    <3>3. b \in Listed(p) /\ b # j /\ b # i =>
             b \in Listed(q) /\ q.slots[b].next = p.slots[b].next
      BY <1>8, <1>10
    <3> QED
      BY <1>15, <2>1, <3>1, <3>2, <3>3 DEF Backward
  <2> QED
    BY <2>2, <2>3
<1>19. ASSUME NEW k \in Listed(q), NEW l \in Listed(q), k # l
       PROVE  Apart(q, k, l)
  <2>1. k \in Listed(p) /\ k # j /\ l \in Listed(p) /\ l # j
    BY <1>8
  <2>2. Apart(p, k, l) /\ Apart(p, j, k) /\ Apart(p, j, l)
    BY <1>1, <1>12, <1>19, <2>1
  <2>3. /\ p.slots[j].data \in Nat /\ p.slots[j].size \in Nat /\ p.slots[j].size > 0
        /\ p.slots[k].data \in Nat /\ p.slots[k].size \in Nat /\ p.slots[k].size > 0
        /\ p.slots[l].data \in Nat /\ p.slots[l].size \in Nat /\ p.slots[l].size > 0
    BY <1>1, <1>12, <2>1
  <2>4. /\ q.slots[k].data = p.slots[k].data /\ q.slots[l].data = p.slots[l].data
        /\ q.slots[k].size = IF k = i THEN p.slots[i].size + p.slots[j].size
                             ELSE p.slots[k].size
        /\ q.slots[l].size = IF l = i THEN p.slots[i].size + p.slots[j].size
                             ELSE p.slots[l].size
    BY <1>10, <2>1
  <2>5. CASE k = i
    BY <1>1, <1>19, <2>2, <2>3, <2>4, <2>5 DEF Apart
  <2>6. CASE l = i
    BY <1>1, <1>19, <2>2, <2>3, <2>4, <2>6 DEF Apart
  <2>7. CASE k # i /\ l # i
    BY <2>2, <2>4, <2>7 DEF Apart
  <2> QED
    BY <2>5, <2>6, <2>7
<1>20. Linked(q)
  BY <1>5, <1>9, <1>11, <1>13, <1>16, <1>17, <1>18, <1>19 DEF Linked
<1> QED
  BY <1>8, <1>10, <1>20

-----------------------------------------------------------------------------
(* Freeing a block.                                                        *)

\* The flags say nothing of the list.
LEMMA Reflagged ==
    ASSUME NEW p, Linked(p), NEW i \in Listed(p), NEW fl \in Flag, NEW q,
           q = [slots |-> q.slots, index |-> q.index, cur |-> q.cur],
           q.index = p.index, q.cur = p.cur, q.slots \in [Entry -> Slot],
           Holds(q.slots[i], p.slots[i].data, p.slots[i].size, fl,
                 p.slots[i].prev, p.slots[i].next),
           \A k \in Entry \ {i} : q.slots[k] = p.slots[k]
    PROVE  /\ Linked(q)
           /\ Listed(q) = Listed(p)
           /\ \A k \in Listed(p) :
                 /\ q.slots[k].data = p.slots[k].data
                 /\ q.slots[k].size = p.slots[k].size
                 /\ q.slots[k].next = p.slots[k].next
                 /\ q.slots[k].flags = IF k = i THEN fl ELSE p.slots[k].flags
<1>1. i \in Entry /\ p.slots \in [Entry -> Slot] /\ p.slots[i] \in Slot
  BY ListedIsEntry, SlotTypes
<1>2. p \in PoolValue
  BY DEF Linked
<1>3. q \in PoolValue
  BY <1>2 DEF PoolValue
<1>4. Spare(q) = Spare(p) /\ Listed(q) = Listed(p) /\ SpareOnce(q)
  BY DEF Spare, Listed, SpareOnce, Linked
<1>5. \A k \in Entry : /\ q.slots[k].data = p.slots[k].data
                       /\ q.slots[k].size = p.slots[k].size
                       /\ q.slots[k].next = p.slots[k].next
                       /\ q.slots[k].prev = p.slots[k].prev
                       /\ q.slots[k].flags = IF k = i THEN fl ELSE p.slots[k].flags
  BY DEF Holds
<1>6. \A k \in Spare(q) : q.slots[k] = Unused
  <2> TAKE k \in Spare(q)
  <2>1. k \in Spare(p) /\ k # i
    BY <1>4 DEF Listed
  <2>2. k \in Entry
    BY <2>1, SpareIsEntry
  <2> QED
    BY <2>1, <2>2 DEF Linked
<1>7. \A k \in Listed(p) : k \in Entry
  BY ListedIsEntry
<1>8. \A k \in Listed(p) : /\ q.slots[k].size > 0
                            /\ q.slots[k].data + q.slots[k].size <= Units
  BY <1>5, <1>7 DEF Linked
<1>9. ASSUME NEW k \in Listed(p) PROVE Forward(q, k)
  <2>1. Forward(p, k)
    BY DEF Linked
  <2> QED
    BY <1>4, <1>5, <1>7, <2>1 DEF Forward
<1>10. ASSUME NEW k \in Listed(p) PROVE Backward(q, k)
  <2>1. Backward(p, k)
    BY DEF Linked
  <2> QED
    BY <1>4, <1>5, <1>7, <2>1 DEF Backward
<1>11. ASSUME NEW k \in Listed(p), NEW l \in Listed(p), k # l PROVE Apart(q, k, l)
  <2>1. Apart(p, k, l)
    BY <1>11 DEF Linked
  <2> QED
    BY <1>5, <1>7, <2>1 DEF Apart
<1>12. 0 \in Listed(p)
  BY DEF Linked
<1>13. Linked(q)
  BY <1>3, <1>4, <1>6, <1>8, <1>9, <1>10, <1>11, <1>12 DEF Linked
<1> QED
  BY <1>4, <1>5, <1>7, <1>13

LEMMA FlagsFree ==
    ASSUME NEW p, Linked(p), NEW i \in Listed(p), NEW q, q = Freed(p, i)
    PROVE  /\ Linked(q)
           /\ Listed(q) = Listed(p)
           /\ \A k \in Listed(p) :
                 /\ q.slots[k].data = p.slots[k].data
                 /\ q.slots[k].size = p.slots[k].size
                 /\ q.slots[k].next = p.slots[k].next
                 /\ q.slots[k].flags = IF k = i THEN SlotFree ELSE p.slots[k].flags
<1> DEFINE s == [p.slots[i] EXCEPT !.flags = SlotFree]
<1>1. i \in Entry /\ p.slots \in [Entry -> Slot] /\ p.slots[i] \in Slot
  BY ListedIsEntry, SlotTypes
<1>2. p = [slots |-> p.slots, index |-> p.index, cur |-> p.cur]
  BY DEF Linked, PoolValue
<1>3. Holds(s, p.slots[i].data, p.slots[i].size, SlotFree, p.slots[i].prev, p.slots[i].next)
  BY <1>1 DEF Slot, Holds, Flag
<1>4. q = [p EXCEPT !.slots[i].flags = SlotFree]
  BY DEF Freed
<1>5. q = [slots |-> [p.slots EXCEPT ![i] = s], index |-> p.index, cur |-> p.cur]
  BY <1>1, <1>2, <1>4
<1>6. SlotFree \in Flag
  BY DEF Flag
<1>7. /\ q.slots = [p.slots EXCEPT ![i] = s] /\ q.index = p.index /\ q.cur = p.cur
      /\ q = [slots |-> q.slots, index |-> q.index, cur |-> q.cur]
  BY <1>5
<1> HIDE DEF s
<1>8. /\ q.slots \in [Entry -> Slot] /\ q.slots[i] = s
      /\ \A k \in Entry \ {i} : q.slots[k] = p.slots[k]
  BY <1>1, <1>3, <1>7 DEF Holds
<1> QED
  BY <1>3, <1>6, <1>7, <1>8, Reflagged

\* Clear on a sound pool: the block is gone, its free neighbours are merged
\* with it, every other block is where it was.
LEMMA ClearSound ==
    ASSUME NEW p, Sound(p), NEW i \in Listed(p), p.slots[i].flags = SlotUsed,
           NEW q, q = Clear(p, i)
    PROVE  /\ Sound(q)
           /\ BlocksOf(q) = BlocksOf(p) \ {BlockAt(p, i)}
           /\ Listed(q) \subseteq Listed(p)
<1> DEFINE n == p.slots[i].next
           b == p.slots[i].prev
<1>a. PICK f : f = Freed(p, i)
  OBVIOUS
<1>b. PICK h : h = IF IsFree(p, n) THEN Absorb(f, i, n) ELSE f
  OBVIOUS
<1>1. Linked(p) /\ Merged(p)
  BY DEF Sound
<1>2. /\ Linked(f) /\ Listed(f) = Listed(p)
      /\ \A k \in Listed(p) :
            /\ f.slots[k].data = p.slots[k].data
            /\ f.slots[k].size = p.slots[k].size
            /\ f.slots[k].next = p.slots[k].next
            /\ f.slots[k].flags = IF k = i THEN SlotFree ELSE p.slots[k].flags
  BY <1>1, <1>a, FlagsFree
<1>3. n # None => /\ n \in Listed(p) /\ n # i /\ p.slots[n].next # i
                  /\ p.slots[n].next # n
  BY <1>1, Neighbours
<1>4. b # None => b \in Listed(p) /\ p.slots[b].next = i
  BY <1>1 DEF Linked, Backward
<1>5. \A k \in Listed(p) : k # None /\ p.slots[k].flags \in {SlotFree, SlotUsed}
                           /\ (p.slots[k].next # None => p.slots[k].next \in Listed(p))
  BY <1>1, ListedIsEntry, SlotTypes, NextListed DEF Flag
<1>6. /\ Linked(h) /\ Listed(h) \subseteq Listed(p)
      /\ i \in Listed(h)
      /\ \A k \in Listed(p) \ Listed(h) : k = n /\ IsFree(p, n)
      /\ \A k \in Listed(h) :
            /\ h.slots[k].data = p.slots[k].data
            /\ h.slots[k].flags = IF k = i THEN SlotFree ELSE p.slots[k].flags
            /\ k # i => /\ h.slots[k].size = p.slots[k].size
                        /\ h.slots[k].next = p.slots[k].next
      /\ h.slots[i].next = IF IsFree(p, n) THEN p.slots[n].next ELSE n
  <2>1. CASE ~IsFree(p, n)
    BY <1>b, <1>2, <2>1
  <2>2. CASE IsFree(p, n)
    <3>1. n \in Listed(p) /\ n # None /\ n # i /\ f.slots[i].next = n
      BY <1>2, <1>3, <2>2 DEF IsFree
    <3>2. h = Absorb(f, i, n) /\ i \in Listed(f)
      BY <1>b, <1>2, <2>2
    <3> HIDE DEF n
    <3>3. /\ Linked(h)
          /\ Listed(h) = Listed(f) \ {n}
          /\ \A k \in Listed(h) :
                /\ h.slots[k].data = f.slots[k].data
                /\ h.slots[k].flags = f.slots[k].flags
                /\ h.slots[k].size = IF k = i THEN f.slots[i].size + f.slots[n].size
                                     ELSE f.slots[k].size
                /\ h.slots[k].next = IF k = i THEN f.slots[n].next ELSE f.slots[k].next
      BY <1>2, <3>1, <3>2, AbsorbLinked
    <3> QED
      BY <1>2, <2>2, <3>1, <3>3
  <2> QED
    BY <2>1, <2>2
<1>7. ~IsFree(h, h.slots[i].next)
  <2>1. h.slots[i].next # None => h.slots[i].next \in Listed(h)
    BY <1>6, NextListed
  <2>2. CASE IsFree(p, n)
    <3>1. ~IsFree(p, p.slots[n].next)
      BY <1>1, <1>3, <2>2 DEF Merged, IsFree
    <3>2. h.slots[i].next = p.slots[n].next /\ p.slots[n].next # i
      BY <1>3, <1>6, <2>2 DEF IsFree
    <3> QED
      BY <1>6, <2>1, <3>1, <3>2 DEF IsFree
  <2>3. CASE ~IsFree(p, n)
    <3>1. h.slots[i].next = n /\ n # i
      BY <1>3, <1>5, <1>6, <2>3
    <3> QED
      BY <1>6, <2>1, <2>3, <3>1 DEF IsFree
  <2> QED
    BY <2>2, <2>3
<1>8. ASSUME NEW k \in Listed(h), k # i, IsFree(h, k), h.slots[k].next # i
      PROVE  ~IsFree(h, h.slots[k].next)
  <2> DEFINE m == p.slots[k].next
  <2>1. k \in Listed(p) /\ IsFree(p, k) /\ h.slots[k].next = m /\ m # i
    BY <1>6, <1>8 DEF IsFree
  <2>2. ~IsFree(p, m)
    BY <1>1, <2>1 DEF Merged
  <2>3. m # None => m \in Listed(h)
    BY <1>6, <2>1, NextListed
  <2> QED
    BY <1>6, <2>1, <2>2, <2>3 DEF IsFree
<1>9. ASSUME NEW k \in Listed(h), h.slots[k].next = i
      PROVE  k = b
  <2>1. k # i
    <3>1. i # None /\ h.slots[i].next # i
      BY <1>3, <1>5, <1>6 DEF IsFree
    <3> QED
      BY <1>9, <3>1
  <2>2. k \in Listed(p) /\ p.slots[k].next = i
    BY <1>6, <1>9, <2>1
  <2>3. p.slots[p.slots[k].next].prev = k
    BY <1>1, <1>5, <2>2, Neighbours
  <2> QED
    BY <2>2, <2>3
<1>10. BlocksOf(h) = BlocksOf(p) \ {BlockAt(p, i)}
  <2>1. \A k \in Listed(h) : h.slots[k].flags = SlotUsed =>
            /\ k # i /\ k \in Listed(p) /\ p.slots[k].flags = SlotUsed
            /\ BlockAt(h, k) = BlockAt(p, k)
    BY <1>6 DEF SlotFree, SlotUsed, BlockAt
  <2>2. \A k \in Listed(p) : p.slots[k].flags = SlotUsed /\ k # i =>
            k \in Listed(h) /\ h.slots[k].flags = SlotUsed
    BY <1>6 DEF SlotFree, SlotUsed, IsFree
  <2>3. \A k \in Listed(p) : k # i => p.slots[k].data # p.slots[i].data
    <3> TAKE k \in Listed(p)
    <3> HAVE k # i
    <3>1. Apart(p, k, i) /\ p.slots[k].size > 0 /\ p.slots[i].size > 0
      BY <1>1 DEF Linked
    <3>2. /\ p.slots[k].data \in Nat /\ p.slots[k].size \in Nat
          /\ p.slots[i].data \in Nat /\ p.slots[i].size \in Nat
      BY <1>1, ListedIsEntry, SlotTypes
    <3> QED
      BY <3>1, <3>2 DEF Apart
  <2>4. \A k \in Listed(p) : k # i => BlockAt(p, k) # BlockAt(p, i)
    BY <2>3 DEF BlockAt
  <2>5. UsedOf(h) = UsedOf(p) \ {i}
    BY <1>6, <2>1, <2>2 DEF UsedOf
  <2>6. \A k \in UsedOf(h) : BlockAt(h, k) = BlockAt(p, k)
    BY <2>1 DEF UsedOf
  <2>7. \A k \in UsedOf(p) : k # i => BlockAt(p, k) # BlockAt(p, i)
    BY <2>4 DEF UsedOf
  <2> QED
    BY <2>5, <2>6, <2>7 DEF BlocksOf
<1>11. q = IF IsFree(p, b) THEN Absorb(h, b, i) ELSE h
  BY <1>a, <1>b DEF Clear
<1>12. CASE ~IsFree(p, b)
  <2>1. q = h
    BY <1>11, <1>12
  <2>2. ASSUME NEW k \in Listed(h), IsFree(h, k) PROVE ~IsFree(h, h.slots[k].next)
    <3>1. CASE k = i
      BY <1>7, <3>1
    <3>2. CASE k # i
      <4>1. h.slots[k].next # i
        BY <1>6, <1>9, <1>12, <2>2, <3>2 DEF IsFree
      <4> QED
        BY <1>8, <2>2, <3>2, <4>1
    <3> QED
      BY <3>1, <3>2
  <2> QED
    BY <1>6, <1>10, <2>1, <2>2 DEF Sound, Merged
<1>13. CASE IsFree(p, b)
  <2>1. b \in Listed(p) /\ p.slots[b].next = i /\ p.slots[b].flags = SlotFree
    BY <1>4, <1>13 DEF IsFree
  <2>2. b # i /\ b # n
    BY <1>1, <1>3, <1>5, <2>1 DEF SlotFree, SlotUsed
  <2>3. b \in Listed(h) /\ h.slots[b].next = i /\ i # None
    BY <1>5, <1>6, <2>1, <2>2
  <2>4. q = Absorb(h, b, i)
    BY <1>11, <1>13
  <2>5. /\ Linked(q) /\ Listed(q) = Listed(h) \ {i}
        /\ \A k \in Listed(q) :
              /\ q.slots[k].data = h.slots[k].data
              /\ q.slots[k].flags = h.slots[k].flags
              /\ q.slots[k].size = IF k = b THEN h.slots[b].size + h.slots[i].size
                                   ELSE h.slots[k].size
              /\ q.slots[k].next = IF k = b THEN h.slots[i].next ELSE h.slots[k].next
    BY <1>6, <2>3, <2>4, AbsorbLinked
  <2>6. ASSUME NEW k \in Listed(q), IsFree(q, k) PROVE ~IsFree(q, q.slots[k].next)
    <3> DEFINE m == q.slots[k].next
    <3>1. m # None => m \in Listed(q)
      BY <2>5, NextListed
    <3>2. CASE k = b
      BY <1>7, <2>5, <3>1, <3>2 DEF IsFree
    <3>3. CASE k # b
      <4>1. k \in Listed(h) /\ k # i /\ IsFree(h, k) /\ m = h.slots[k].next
        BY <2>5, <2>6, <3>3 DEF IsFree
      <4>2. m # i
        BY <1>9, <3>3, <4>1
      <4>3. ~IsFree(h, m)
        BY <1>8, <4>1, <4>2
      <4> QED
        BY <2>5, <3>1, <4>3 DEF IsFree
    <3> QED
      BY <3>2, <3>3
  <2>7. BlocksOf(q) = BlocksOf(h)
    <3>1. h.slots[i].flags = SlotFree /\ h.slots[b].flags = SlotFree
      BY <1>6, <2>1, <2>2, <2>3
    <3>2. \A k \in Listed(h) : h.slots[k].flags = SlotUsed =>
              /\ k \in Listed(q) /\ q.slots[k].flags = SlotUsed
              /\ q.slots[k].data = h.slots[k].data /\ q.slots[k].size = h.slots[k].size
      BY <2>5, <3>1 DEF SlotFree, SlotUsed
    <3>3. \A k \in Listed(q) : q.slots[k].flags = SlotUsed =>
              k \in Listed(h) /\ h.slots[k].flags = SlotUsed
      BY <2>5
    <3>4. UsedOf(q) = UsedOf(h)
      BY <3>2, <3>3 DEF UsedOf
    <3>5. \A k \in UsedOf(h) : BlockAt(q, k) = BlockAt(h, k)
      BY <3>2 DEF UsedOf, BlockAt
    <3> QED
      BY <3>4, <3>5 DEF BlocksOf
  <2> QED
    BY <1>6, <1>10, <2>5, <2>6, <2>7 DEF Sound, Merged
<1> QED
  BY <1>12, <1>13

\* A block is known by its address.
LEMMA OneBlock ==
    ASSUME NEW p, Linked(p), NEW b \in BlocksOf(p), NEW d \in BlocksOf(p),
           b.addr = d.addr
    PROVE  b = d
<1>1. PICK i \in UsedOf(p) : b = BlockAt(p, i)
  BY DEF BlocksOf
<1>2. PICK j \in UsedOf(p) : d = BlockAt(p, j)
  BY DEF BlocksOf
<1>3. CASE i = j
  BY <1>1, <1>2, <1>3
<1>4. CASE i # j
  <2>1. i \in Listed(p) /\ j \in Listed(p)
    BY DEF UsedOf
  <2>2. Apart(p, i, j) /\ p.slots[i].size > 0 /\ p.slots[j].size > 0
    BY <1>4, <2>1 DEF Linked
  <2>3. /\ p.slots[i].data \in Nat /\ p.slots[i].size \in Nat
        /\ p.slots[j].data \in Nat /\ p.slots[j].size \in Nat
    BY <2>1, ListedIsEntry, SlotTypes
  <2>4. p.slots[i].data = p.slots[j].data
    BY <1>1, <1>2 DEF BlockAt
  <2> QED
    BY <2>2, <2>3, <2>4 DEF Apart
<1> QED
  BY <1>3, <1>4

\* Freeing the address of a block frees that block.
LEMMA FreeAddrSound ==
    ASSUME NEW p, Sound(p), NEW b \in BlocksOf(p), NEW q, q = FreeAddr(p, b.addr)
    PROVE  /\ Sound(q) /\ BlocksOf(q) = BlocksOf(p) \ {b}
           /\ Listed(q) \subseteq Listed(p)
<1> DEFINE at == {i \in ToSet(Chain(p)) : p.slots[i].data = b.addr}
<1>1. Linked(p)
  BY DEF Sound
<1>2. ToSet(Chain(p)) = Listed(p)
  BY <1>1, ChainListed
<1>3. PICK i \in UsedOf(p) : b = BlockAt(p, i)
  BY DEF BlocksOf
<1>4. i \in Listed(p) /\ p.slots[i].flags = SlotUsed /\ p.slots[i].data = b.addr
  BY <1>3 DEF UsedOf, BlockAt
<1>5. \A k \in Listed(p) : p.slots[k].data = b.addr => k = i
  <2> TAKE k \in Listed(p)
  <2> HAVE p.slots[k].data = b.addr
  <2>1. /\ p.slots[i].data \in Nat /\ p.slots[i].size \in Nat
        /\ p.slots[k].data \in Nat /\ p.slots[k].size \in Nat
    BY <1>1, <1>4, ListedIsEntry, SlotTypes
  <2>2. k # i => Apart(p, i, k) /\ p.slots[i].size > 0 /\ p.slots[k].size > 0
    BY <1>1, <1>4 DEF Linked
  <2> QED
    BY <1>4, <2>1, <2>2 DEF Apart
<1>6. at = {i}
  BY <1>2, <1>4, <1>5
<1>7. First(p, at) = i
  <2>1. First(p, at) \in at
    BY <1>1, <1>2, <1>6, FirstMember
  <2> QED
    BY <1>6, <2>1
<1>8. q = Clear(p, i)
  BY <1>4, <1>6, <1>7 DEF FreeAddr
<1> QED
  BY <1>3, <1>4, <1>8, ClearSound

-----------------------------------------------------------------------------
(* Taking a block.                                                         *)

\* A slot taken whole changes its flags only.
LEMMA AssignWhole ==
    ASSUME NEW p, Linked(p), NEW i \in Listed(p), NEW fl \in Flag, NEW rf \in Flag,
           NEW q, q = Assign(p, i, p.slots[i].size, fl, rf)
    PROVE  /\ Linked(q)
           /\ Listed(q) = Listed(p)
           /\ \A k \in Listed(p) :
                 /\ q.slots[k].data = p.slots[k].data
                 /\ q.slots[k].size = p.slots[k].size
                 /\ q.slots[k].next = p.slots[k].next
                 /\ q.slots[k].flags = IF k = i THEN fl ELSE p.slots[k].flags
<1> DEFINE kept == [p.slots[i] EXCEPT !.flags = fl, !.size = p.slots[i].size]
<1>1. i \in Entry /\ p.slots \in [Entry -> Slot] /\ p.slots[i] \in Slot
  BY ListedIsEntry, SlotTypes
<1>2. p = [slots |-> p.slots, index |-> p.index, cur |-> p.cur]
  BY DEF Linked, PoolValue
<1>3. Holds(kept, p.slots[i].data, p.slots[i].size, fl, p.slots[i].prev, p.slots[i].next)
  BY <1>1 DEF Slot, Holds
<1>4. q = [p EXCEPT !.slots[i] = kept]
  <2>1. ~(p.slots[i].size < p.slots[i].size)
    BY <1>1 DEF Slot
  <2> QED
    BY <2>1 DEF Assign
<1> HIDE DEF kept
<1>5. q = [slots |-> [p.slots EXCEPT ![i] = kept], index |-> p.index, cur |-> p.cur]
  BY <1>1, <1>2, <1>4
<1>6. /\ q.slots = [p.slots EXCEPT ![i] = kept] /\ q.index = p.index /\ q.cur = p.cur
      /\ q = [slots |-> q.slots, index |-> q.index, cur |-> q.cur]
  BY <1>5
<1>7. /\ q.slots \in [Entry -> Slot] /\ q.slots[i] = kept
      /\ \A k \in Entry \ {i} : q.slots[k] = p.slots[k]
  BY <1>1, <1>3, <1>6 DEF Holds
<1> QED
  BY <1>3, <1>6, <1>7, Reflagged

\* A slot taken in part: what is left is a slot of its own, in the entry on
\* top of the stack.
LEMMA AssignFields ==
    ASSUME NEW p, Linked(p), NEW i \in Listed(p), NEW size \in Nat, 0 < size,
           size < p.slots[i].size, NEW fl \in Flag, NEW rf \in Flag,
           p.cur < MaxSlots, NEW new, new = p.index[p.cur],
           NEW a, a = p.slots[i].next,
           NEW q, q = Assign(p, i, size, fl, rf)
    PROVE  /\ q = [slots |-> q.slots, index |-> q.index, cur |-> q.cur]
           /\ q.slots \in [Entry -> Slot] /\ q.index = p.index /\ q.cur = p.cur + 1
           /\ new \in Entry /\ new \in Spare(p) /\ a # new /\ a # i
           /\ Holds(q.slots[i], p.slots[i].data, size, fl, p.slots[i].prev, new)
           /\ Holds(q.slots[new], p.slots[i].data + size, p.slots[i].size - size, rf, i, a)
           /\ a # None => Holds(q.slots[a], p.slots[a].data, p.slots[a].size,
                                p.slots[a].flags, new, p.slots[a].next)
           /\ \A k \in Entry \ {i, new, a} : q.slots[k] = p.slots[k]
<1> DEFINE old == p.slots[i]
           rest == [data |-> old.data + size, size |-> old.size - size,
                    flags |-> rf, prev |-> i, next |-> old.next]
           short == [old EXCEPT !.flags = fl, !.size = size, !.next = new]
           s == [p.slots EXCEPT ![i] = short, ![new] = rest]
           t == Link(s, new, a)
<1>1. i \in Entry /\ p.slots \in [Entry -> Slot] /\ old \in Slot
  BY ListedIsEntry, SlotTypes
<1>2. /\ new \in Spare(p) /\ new \in Entry
  <2>1. p.index \in [Entry -> Entry] /\ p.cur \in p.cur .. MaxSlots - 1
    BY SlotTypes, Constants
  <2>2. new \in Spare(p)
    BY <2>1 DEF Spare
  <2> QED
    BY <2>2, SpareIsEntry
<1>3. /\ a \in Entry \cup {None} /\ a # i /\ a # new /\ i # new
      /\ a # None => a \in Listed(p)
  <2>1. a # None => a \in Listed(p) /\ a # i
    BY Neighbours
  <2>2. a # None => a \in Entry
    BY <2>1, ListedIsEntry
  <2> QED
    BY <1>1, <1>2, <2>1, <2>2, Constants DEF Listed
<1>4. /\ old.data + old.size <= Units /\ old.data \in Nat /\ old.size \in Nat
      /\ old.data + size \in 0 .. Units /\ old.size - size \in 0 .. Units
      /\ size \in 0 .. Units
  <2>1. old.data + old.size <= Units
    BY DEF Linked
  <2>2. old.data \in Nat /\ old.size \in Nat
    BY <1>1, Constants DEF Slot
  <2> QED
    BY <2>1, <2>2, Constants
<1>5. Holds(rest, old.data + size, old.size - size, rf, i, a)
  BY <1>1, <1>3, <1>4 DEF Slot, Holds
<1>6. Holds(short, old.data, size, fl, old.prev, new)
  BY <1>1, <1>2, <1>4 DEF Slot, Holds
<1>7. q = [slots |-> t, index |-> p.index, cur |-> p.cur + 1]
  BY DEF Assign
<1> HIDE DEF rest, short
<1>8. /\ s \in [Entry -> Slot]
      /\ s[i] = short /\ s[new] = rest /\ \A k \in Entry \ {i, new} : s[k] = p.slots[k]
  BY <1>1, <1>2, <1>3, <1>5, <1>6 DEF Holds
<1> HIDE DEF s
<1>9. /\ t \in [Entry -> Slot]
      /\ \A k \in Entry \ {a} : t[k] = s[k]
      /\ a # None => Holds(t[a], s[a].data, s[a].size, s[a].flags, new, s[a].next)
  BY <1>2, <1>3, <1>8, LinkFields
<1>10. /\ t[i] = short /\ t[new] = rest
       /\ \A k \in Entry \ {i, new, a} : t[k] = p.slots[k]
       /\ a # None => s[a] = p.slots[a]
  BY <1>1, <1>2, <1>3, <1>8, <1>9
<1> HIDE DEF t
<1>11. q.slots = t /\ q.index = p.index /\ q.cur = p.cur + 1
       /\ q = [slots |-> q.slots, index |-> q.index, cur |-> q.cur]
  BY <1>7
<1> QED
  BY <1>2, <1>3, <1>5, <1>6, <1>9, <1>10, <1>11

LEMMA AssignSplit ==
    ASSUME NEW p, Linked(p), NEW i \in Listed(p), NEW size \in Nat, 0 < size,
           size < p.slots[i].size, NEW fl \in Flag, NEW rf \in Flag,
           p.cur < MaxSlots, NEW new, new = p.index[p.cur],
           NEW q, q = Assign(p, i, size, fl, rf)
    PROVE  /\ Linked(q)
           /\ q.cur = p.cur + 1
           /\ new \notin Listed(p)
           /\ Listed(q) = Listed(p) \cup {new}
           /\ \A k \in Listed(p) :
                 /\ q.slots[k].data = p.slots[k].data
                 /\ q.slots[k].size = IF k = i THEN size ELSE p.slots[k].size
                 /\ q.slots[k].flags = IF k = i THEN fl ELSE p.slots[k].flags
                 /\ q.slots[k].next = IF k = i THEN new ELSE p.slots[k].next
           /\ q.slots[new].data = p.slots[i].data + size
           /\ q.slots[new].size = p.slots[i].size - size
           /\ q.slots[new].flags = rf
           /\ q.slots[new].next = p.slots[i].next
<1> DEFINE a == p.slots[i].next
<1>1. /\ q = [slots |-> q.slots, index |-> q.index, cur |-> q.cur]
      /\ q.slots \in [Entry -> Slot] /\ q.index = p.index /\ q.cur = p.cur + 1
      /\ new \in Entry /\ new \in Spare(p) /\ a # new /\ a # i
      /\ Holds(q.slots[i], p.slots[i].data, size, fl, p.slots[i].prev, new)
      /\ Holds(q.slots[new], p.slots[i].data + size, p.slots[i].size - size, rf, i, a)
      /\ a # None => Holds(q.slots[a], p.slots[a].data, p.slots[a].size,
                           p.slots[a].flags, new, p.slots[a].next)
      /\ \A k \in Entry \ {i, new, a} : q.slots[k] = p.slots[k]
  BY AssignFields
<1>2. new \notin Listed(p) /\ new # i /\ new # 0
  BY <1>1 DEF Listed, Linked
<1>3. p.cur \in Nat /\ 1 <= p.cur /\ p.cur < MaxSlots /\ MaxSlots \in Nat
      /\ p.index \in [Entry -> Entry]
  BY SlotTypes, Constants
<1>4. q \in PoolValue
  <2>1. q.cur \in 1 .. MaxSlots /\ q.index \in [Entry -> Entry] /\ q.slots \in [Entry -> Slot]
    BY <1>1, <1>3
  <2> QED
    BY <1>1, <2>1 DEF PoolValue
<1>5. SpareOnce(p)
  BY DEF Linked
<1>6. p.cur .. MaxSlots - 1 = {p.cur} \cup (q.cur .. MaxSlots - 1)
      /\ p.cur \notin q.cur .. MaxSlots - 1
  <2>1. q.cur = p.cur + 1
    BY <1>1
  <2> QED
    BY <1>3, <2>1
<1>7. SpareOnce(q) /\ Spare(q) = Spare(p) \ {new}
  <2>1. q.index = p.index
    BY <1>1
  <2>2. \A k \in q.cur .. MaxSlots - 1 : p.index[k] # new
    BY <1>5, <1>6 DEF SpareOnce
  <2> QED
    BY <1>5, <1>6, <2>1, <2>2 DEF SpareOnce, Spare
<1>8. Listed(q) = Listed(p) \cup {new}
  BY <1>1, <1>7 DEF Listed
<1>9. /\ \A k \in Listed(p) : /\ p.slots[k].size > 0
                              /\ p.slots[k].data + p.slots[k].size <= Units
                              /\ Forward(p, k) /\ Backward(p, k)
                              /\ p.slots[k].data \in Nat /\ p.slots[k].size \in Nat
      /\ \A k, l \in Listed(p) : k # l => Apart(p, k, l)
  BY SlotTypes, ListedIsEntry DEF Linked
<1> DEFINE Ends(k) == p.slots[k].data + p.slots[k].size
<1>10. \A k \in Listed(p) :
           IF Ends(k) = Units THEN p.slots[k].next = None
           ELSE /\ p.slots[k].next \in Listed(p)
                /\ p.slots[p.slots[k].next].prev = k
                /\ p.slots[p.slots[k].next].data = Ends(k)
  BY <1>9 DEF Forward
<1>11. \A k \in Listed(p) :
           IF k = 0 THEN p.slots[k].prev = None /\ p.slots[k].data = 0
           ELSE p.slots[k].prev \in Listed(p) /\ p.slots[p.slots[k].prev].next = k
  BY <1>9 DEF Backward
<1>12. ASSUME NEW k \in Listed(p)
       PROVE  /\ k \in Entry /\ k # None /\ k # new
              /\ q.slots[k].data = p.slots[k].data
              /\ q.slots[k].size = IF k = i THEN size ELSE p.slots[k].size
              /\ q.slots[k].flags = IF k = i THEN fl ELSE p.slots[k].flags
              /\ q.slots[k].next = IF k = i THEN new ELSE p.slots[k].next
              /\ q.slots[k].prev = IF k = a THEN new ELSE p.slots[k].prev
  <2>1. k \in Entry /\ k # None /\ k # new
    BY <1>2, ListedIsEntry
  <2> QED
    BY <1>1, <2>1 DEF Holds
<1>13. /\ q.slots[new].data = p.slots[i].data + size
       /\ q.slots[new].size = p.slots[i].size - size
       /\ q.slots[new].flags = rf
       /\ q.slots[new].next = a
       /\ q.slots[new].prev = i
  BY <1>1 DEF Holds
<1>14. \A k \in Spare(q) : q.slots[k] = Unused
  <2> TAKE k \in Spare(q)
  <2>1. k \in Spare(p) /\ k # new /\ k \in Entry
    BY <1>7, SpareIsEntry
  <2>2. k # i
    BY <2>1 DEF Listed
  <2>3. k # a
    <3>1. a # None => a \in Listed(p)
      BY NextListed
    <3> QED
      BY <2>1, <3>1, Constants DEF Listed
  <2> QED
    BY <1>1, <2>1, <2>2, <2>3 DEF Linked
<1>15. 0 \in Listed(q)
  BY <1>8 DEF Linked
<1>16. a # None => a \in Listed(p) /\ p.slots[a].prev = i /\ a # 0
  <2>1. a # None => a \in Listed(p) /\ p.slots[a].prev = i
    BY <1>10
  <2> QED
    BY <1>11, <2>1, ListedIsEntry
<1>17. /\ p.slots[i].data \in Nat /\ p.slots[i].size \in Nat
       /\ Ends(i) <= Units /\ Units \in Nat
  BY <1>9, Constants
<1>18. ASSUME NEW k \in Listed(q)
       PROVE  q.slots[k].size > 0 /\ q.slots[k].data + q.slots[k].size <= Units
  <2>1. CASE k = new
    BY <1>13, <1>17, <2>1
  <2>2. CASE k = i
    BY <1>12, <1>17, <2>2
  <2>3. CASE k # new /\ k # i
    BY <1>8, <1>9, <1>12, <2>3
  <2> QED
    BY <2>1, <2>2, <2>3
<1>19. ASSUME NEW k \in Listed(q)
       PROVE  Forward(q, k)
  <2>1. CASE k = i
    <3>1. /\ q.slots[k].next = new /\ q.slots[k].data = p.slots[i].data
          /\ q.slots[k].size = size
      BY <1>12, <2>1
    <3> QED
      BY <1>8, <1>13, <1>17, <2>1, <3>1 DEF Forward
  <2>2. CASE k = new
    <3>1. q.slots[k].data + q.slots[k].size = Ends(i) /\ q.slots[k].next = a
      BY <1>13, <1>17, <2>2
    <3>2. a \in Listed(p) => q.slots[a].prev = new /\ q.slots[a].data = p.slots[a].data
      BY <1>12
    <3> QED
      BY <1>8, <1>10, <2>2, <3>1, <3>2 DEF Forward
  <2>3. CASE k # i /\ k # new
    <3> DEFINE n == p.slots[k].next
    <3>1. k \in Listed(p)
      BY <1>8, <2>3
    <3>2. q.slots[k].data + q.slots[k].size = Ends(k) /\ q.slots[k].next = n
      BY <1>12, <2>3, <3>1
    <3>3. n \in Listed(p) /\ p.slots[n].prev = k => n # a
      BY <1>16, <2>3, ListedIsEntry
    <3>4. n \in Listed(p) /\ n # a =>
             q.slots[n].prev = p.slots[n].prev /\ q.slots[n].data = p.slots[n].data
      BY <1>12
    <3> QED
      BY <1>8, <1>10, <3>1, <3>2, <3>3, <3>4 DEF Forward
  <2> QED
    BY <2>1, <2>2, <2>3
<1>20. ASSUME NEW k \in Listed(q)
       PROVE  Backward(q, k)
  <2>1. CASE k = new
    BY <1>2, <1>8, <1>12, <1>13, <2>1 DEF Backward
  <2>2. CASE k = a
    <3>1. k # 0 /\ k \in Listed(p) /\ q.slots[k].prev = new
      BY <1>1, <1>8, <1>12, <1>16, <2>2, ListedIsEntry
    <3> QED
      BY <1>8, <1>13, <2>2, <3>1 DEF Backward
  <2>3. CASE k # new /\ k # a
    <3> DEFINE b == p.slots[k].prev
    <3>1. k \in Listed(p) /\ q.slots[k].prev = b /\ q.slots[k].data = p.slots[k].data
      BY <1>8, <1>12, <2>3
    <3>2. b \in Listed(p) /\ p.slots[b].next = k =>
             b \in Listed(q) /\ q.slots[b].next = k
      BY <1>8, <1>12, <2>3
    <3> QED
      BY <1>11, <3>1, <3>2 DEF Backward
  <2> QED
    BY <2>1, <2>2, <2>3
<1>21. ASSUME NEW k \in Listed(q), NEW l \in Listed(q), k # l
       PROVE  Apart(q, k, l)
  <2> DEFINE Old(m) == IF m = new THEN i ELSE m
  <2>1. /\ Old(k) \in Listed(p) /\ Old(l) \in Listed(p)
        /\ k # new => k \in Listed(p)
        /\ l # new => l \in Listed(p)
    BY <1>8
  <2>2. Old(k) # Old(l) => Apart(p, Old(k), Old(l))
    BY <1>9, <2>1
  <2>3. \A m \in {Old(k), Old(l), i} : p.slots[m].data \in Nat /\ p.slots[m].size \in Nat
    BY <1>9, <2>1
  <2>4. CASE k = new
    <3>1. l # new /\ l \in Listed(p) /\ Old(k) = i /\ Old(l) = l
      BY <1>21, <2>1, <2>4
    <3>2. /\ q.slots[l].data = p.slots[l].data
          /\ q.slots[l].size = IF l = i THEN size ELSE p.slots[l].size
      BY <1>12, <3>1
    <3>3. l # i => Apart(p, i, l)
      BY <2>2, <3>1
    <3>4. p.slots[l].data \in Nat /\ p.slots[l].size \in Nat
      BY <2>3, <3>1
    <3> HIDE DEF Old
    <3> QED
      BY <1>13, <1>17, <2>4, <3>2, <3>3, <3>4 DEF Apart
  <2>5. CASE l = new
    <3>1. k # new /\ k \in Listed(p) /\ Old(l) = i /\ Old(k) = k
      BY <1>21, <2>1, <2>5
    <3>2. /\ q.slots[k].data = p.slots[k].data
          /\ q.slots[k].size = IF k = i THEN size ELSE p.slots[k].size
      BY <1>12, <3>1
    <3>3. k # i => Apart(p, k, i)
      BY <2>2, <3>1
    <3>4. p.slots[k].data \in Nat /\ p.slots[k].size \in Nat
      BY <2>3, <3>1
    <3> HIDE DEF Old
    <3> QED
      BY <1>13, <1>17, <2>5, <3>2, <3>3, <3>4 DEF Apart
  <2>6. CASE k # new /\ l # new
    <3>1. /\ k \in Listed(p) /\ l \in Listed(p) /\ Apart(p, k, l)
          /\ p.slots[k].data \in Nat /\ p.slots[k].size \in Nat
          /\ p.slots[l].data \in Nat /\ p.slots[l].size \in Nat
      BY <1>9, <1>21, <2>1, <2>6
    <3>2. /\ q.slots[k].data = p.slots[k].data
          /\ q.slots[k].size = IF k = i THEN size ELSE p.slots[k].size
          /\ q.slots[l].data = p.slots[l].data
          /\ q.slots[l].size = IF l = i THEN size ELSE p.slots[l].size
      BY <1>12, <3>1
    <3> QED
      BY <1>17, <3>1, <3>2 DEF Apart
  <2> QED
    BY <2>4, <2>5, <2>6
<1>22. Linked(q)
  BY <1>4, <1>7, <1>14, <1>15, <1>18, <1>19, <1>20, <1>21 DEF Linked
<1> QED
  BY <1>1, <1>2, <1>8, <1>12, <1>13, <1>22

\* A block is known by its slot too.
LEMMA OneSlot ==
    ASSUME NEW p, Linked(p), NEW i \in Listed(p), NEW k \in Listed(p), i # k
    PROVE  p.slots[i].data # p.slots[k].data /\ BlockAt(p, i) # BlockAt(p, k)
<1>1. Apart(p, i, k) /\ p.slots[i].size > 0 /\ p.slots[k].size > 0
  BY DEF Linked
<1>2. /\ p.slots[i].data \in Nat /\ p.slots[i].size \in Nat
      /\ p.slots[k].data \in Nat /\ p.slots[k].size \in Nat
  BY ListedIsEntry, SlotTypes
<1>3. p.slots[i].data # p.slots[k].data
  BY <1>1, <1>2 DEF Apart
<1> QED
  BY <1>3 DEF BlockAt

\* The front of a slot behind which nothing is free becomes a block, the rest
\* of it a free slot.
LEMMA TakeFront ==
    ASSUME NEW p, Sound(p), NEW i \in Listed(p), ~IsFree(p, p.slots[i].next),
           NEW size \in Nat, 0 < size, size <= p.slots[i].size, p.cur < MaxSlots,
           NEW q, q = Assign(p, i, size, SlotUsed, SlotFree),
           NEW b, b = [addr |-> p.slots[i].data, size |-> size]
    PROVE  Sound(q) /\ BlocksOf(q) = (BlocksOf(p) \ {BlockAt(p, i)}) \cup {b}
<1>1. Linked(p) /\ Merged(p) /\ SlotUsed \in Flag /\ SlotFree \in Flag
      /\ SlotUsed # SlotFree
  BY DEF Sound, Flag, SlotUsed, SlotFree
<1>2. \A k \in Listed(p) : k # None /\ (p.slots[k].next # None => p.slots[k].next \in Listed(p))
  BY <1>1, ListedIsEntry, NextListed
<1>3. \A k \in Listed(p) : k # i => BlockAt(p, k) # BlockAt(p, i)
  BY <1>1, OneSlot
<1>4. BlocksOf(p) \ {BlockAt(p, i)} = {BlockAt(p, k) : k \in UsedOf(p) \ {i}}
  BY <1>3 DEF BlocksOf, UsedOf
<1>5. CASE size = p.slots[i].size
  <2>1. /\ Linked(q)
        /\ Listed(q) = Listed(p)
        /\ \A k \in Listed(p) :
              /\ q.slots[k].data = p.slots[k].data
              /\ q.slots[k].size = p.slots[k].size
              /\ q.slots[k].next = p.slots[k].next
              /\ q.slots[k].flags = IF k = i THEN SlotUsed ELSE p.slots[k].flags
    BY <1>1, <1>5, AssignWhole
  <2>2. Merged(q)
    BY <1>1, <1>2, <2>1 DEF Merged, IsFree
  <2>3. UsedOf(q) = (UsedOf(p) \ {i}) \cup {i}
    BY <2>1 DEF UsedOf
  <2>4. BlockAt(q, i) = b /\ \A k \in UsedOf(p) : BlockAt(q, k) = BlockAt(p, k)
    BY <1>5, <2>1 DEF BlockAt, UsedOf
  <2>5. BlocksOf(q) = {BlockAt(p, k) : k \in UsedOf(p) \ {i}} \cup {b}
    BY <2>3, <2>4 DEF BlocksOf
  <2> QED
    BY <1>4, <2>1, <2>2, <2>5 DEF Sound
<1>6. CASE size # p.slots[i].size
  <2>1. size < p.slots[i].size
    <3>1. p.slots[i].size \in Nat
      BY <1>1, ListedIsEntry, SlotTypes
    <3> QED
      BY <1>6, <3>1
  <2>2. PICK new : new = p.index[p.cur]
    OBVIOUS
  <2>3. /\ Linked(q)
        /\ new \notin Listed(p)
        /\ Listed(q) = Listed(p) \cup {new}
        /\ \A k \in Listed(p) :
              /\ q.slots[k].data = p.slots[k].data
              /\ q.slots[k].size = IF k = i THEN size ELSE p.slots[k].size
              /\ q.slots[k].flags = IF k = i THEN SlotUsed ELSE p.slots[k].flags
              /\ q.slots[k].next = IF k = i THEN new ELSE p.slots[k].next
        /\ q.slots[new].flags = SlotFree
        /\ q.slots[new].next = p.slots[i].next
    BY <1>1, <2>1, <2>2, AssignSplit
  <2>4. ASSUME NEW k \in Listed(q), IsFree(q, k) PROVE ~IsFree(q, q.slots[k].next)
    <3>1. CASE k = new
      BY <1>1, <1>2, <2>3, <3>1 DEF IsFree
    <3>2. CASE k # new
      <4>1. k \in Listed(p) /\ k # i /\ IsFree(p, k) /\ q.slots[k].next = p.slots[k].next
        BY <1>1, <2>3, <2>4, <3>2 DEF IsFree
      <4>2. ~IsFree(p, p.slots[k].next)
        BY <1>1, <4>1 DEF Merged
      <4> QED
        BY <1>1, <1>2, <2>3, <4>1, <4>2 DEF IsFree
    <3> QED
      BY <3>1, <3>2
  <2>5. UsedOf(q) = (UsedOf(p) \ {i}) \cup {i}
    BY <1>1, <2>3 DEF UsedOf
  <2>6. BlockAt(q, i) = b /\ \A k \in UsedOf(p) \ {i} : BlockAt(q, k) = BlockAt(p, k)
    BY <2>3 DEF BlockAt, UsedOf
  <2>7. BlocksOf(q) = {BlockAt(p, k) : k \in UsedOf(p) \ {i}} \cup {b}
    BY <2>5, <2>6 DEF BlocksOf
  <2> QED
    BY <1>4, <2>3, <2>4, <2>7 DEF Sound, Merged
<1> QED
  BY <1>5, <1>6

\* The back of a free slot becomes a block, its front stays free.
LEMMA TakeBack ==
    ASSUME NEW p, Sound(p), NEW i \in Listed(p), IsFree(p, i),
           NEW size \in Nat, 0 < size, size < p.slots[i].size, p.cur < MaxSlots,
           NEW q, q = Assign(p, i, size, SlotFree, SlotUsed),
           NEW new, new = p.index[p.cur]
    PROVE  /\ Sound(q)
           /\ q.cur = p.cur + 1
           /\ new \in Listed(q) /\ ~IsFree(q, q.slots[new].next)
           /\ q.slots[new].data = p.slots[i].data + size
           /\ q.slots[new].size = p.slots[i].size - size
           /\ BlocksOf(q) = BlocksOf(p) \cup {BlockAt(q, new)}
           /\ BlockAt(q, new) \notin BlocksOf(p)
<1>1. Linked(p) /\ Merged(p) /\ SlotUsed \in Flag /\ SlotFree \in Flag
      /\ SlotUsed # SlotFree
  BY DEF Sound, Flag, SlotUsed, SlotFree
<1>2. \A k \in Listed(p) : k # None /\ (p.slots[k].next # None => p.slots[k].next \in Listed(p))
  BY <1>1, ListedIsEntry, NextListed
<1>3. /\ Linked(q)
      /\ q.cur = p.cur + 1
      /\ new \notin Listed(p)
      /\ Listed(q) = Listed(p) \cup {new}
      /\ \A k \in Listed(p) :
            /\ q.slots[k].data = p.slots[k].data
            /\ q.slots[k].size = IF k = i THEN size ELSE p.slots[k].size
            /\ q.slots[k].flags = IF k = i THEN SlotFree ELSE p.slots[k].flags
            /\ q.slots[k].next = IF k = i THEN new ELSE p.slots[k].next
      /\ q.slots[new].data = p.slots[i].data + size
      /\ q.slots[new].size = p.slots[i].size - size
      /\ q.slots[new].flags = SlotUsed
      /\ q.slots[new].next = p.slots[i].next
  BY <1>1, AssignSplit
<1>4. p.slots[i].flags = SlotFree /\ ~IsFree(p, p.slots[i].next)
  BY <1>1 DEF IsFree, Merged
<1>5. p.slots[i].next # i
  BY <1>1, <1>2, <1>4 DEF IsFree
<1>6. ASSUME NEW k \in Listed(q), IsFree(q, k) PROVE ~IsFree(q, q.slots[k].next)
  <2>1. k # new
    BY <1>1, <1>3, <1>6 DEF IsFree
  <2>2. CASE k = i
    BY <1>1, <1>3, <2>2 DEF IsFree
  <2>3. CASE k # i
    <3>1. k \in Listed(p) /\ IsFree(p, k) /\ q.slots[k].next = p.slots[k].next
      BY <1>3, <1>6, <2>1, <2>3 DEF IsFree
    <3>2. ~IsFree(p, p.slots[k].next)
      BY <1>1, <3>1 DEF Merged
    <3> QED
      BY <1>2, <1>3, <1>4, <3>1, <3>2 DEF IsFree
  <2> QED
    BY <2>2, <2>3
<1>7. ~IsFree(q, q.slots[new].next)
  BY <1>2, <1>3, <1>4 DEF IsFree
<1>8. UsedOf(q) = UsedOf(p) \cup {new}
  BY <1>1, <1>3, <1>4 DEF UsedOf
<1>9. \A k \in UsedOf(p) : BlockAt(q, k) = BlockAt(p, k)
  BY <1>1, <1>3, <1>4 DEF UsedOf, BlockAt
<1>10. BlocksOf(q) = BlocksOf(p) \cup {BlockAt(q, new)}
  BY <1>8, <1>9 DEF BlocksOf
<1>11. \A k \in UsedOf(p) : BlockAt(q, new) # BlockAt(q, k)
  BY <1>3, OneSlot DEF UsedOf
<1>12. BlockAt(q, new) \notin BlocksOf(p)
  BY <1>9, <1>11 DEF BlocksOf
<1> QED
  BY <1>3, <1>6, <1>7, <1>10, <1>12 DEF Sound, Merged

-----------------------------------------------------------------------------
(* The free queue.                                                         *)

IInv == Sound(Pool) /\ Deferred(Pool, queue) /\ freeTimer \in {0, 2}

\* The blocks of a pool that no entry of a queue asks to free.
HeldOf(p, q) == {b \in BlocksOf(p) : \A k \in 1 .. Len(q) : q[k].addr # b.addr}

LEMMA SoundIsPool ==
    ASSUME NEW p, Sound(p)
    PROVE  Linked(p) /\ p \in PoolValue
BY DEF Sound, Linked

\* Flushing the queue takes its blocks out of the pool and no other.
LEMMA FlushedSound ==
    ASSUME IInv
    PROVE  /\ Sound(Flushed) /\ BlocksOf(Flushed) = HeldOf(Pool, queue)
           /\ Listed(Flushed) \subseteq Listed(Pool)
<1> DEFINE N == Len(queue)
           Kept(n) == {b \in BlocksOf(Pool) :
                          \A k \in N - n + 1 .. N : queue[k].addr # b.addr}
           Reached(n) == {p \in PoolValue : /\ Sound(p) /\ BlocksOf(p) = Kept(n)
                                            /\ Listed(p) \subseteq Listed(Pool)}
           In == [n \in Nat |-> Reached(n)]
           step == [n \in 0 .. N - 1 |->
                       [p \in Reached(n) |-> FreeAddr(p, queue[N - n].addr)]]
           Turns(f) == f = [n \in 0 .. N |-> IF n = 0 THEN Pool
                                ELSE FreeAddr(f[n - 1], queue[N - n + 1].addr)]
           freed == CHOOSE f : Turns(f)
<1>1. /\ Sound(Pool) /\ queue \in Seq(Waiting) /\ N \in Nat
      /\ \A k \in 1 .. N : \E b \in BlocksOf(Pool) : b.addr = queue[k].addr
      /\ \A j, k \in 1 .. N : queue[j].addr = queue[k].addr => j = k
  BY DEF IInv, Deferred
<1>2. Pool \in Reached(0)
  <2>1. N - 0 + 1 .. N = {}
    BY <1>1
  <2>2. Kept(0) = BlocksOf(Pool)
    BY <2>1
  <2> QED
    BY <1>1, <2>2, SoundIsPool
<1>3. ASSUME NEW n \in 0 .. N - 1, NEW p \in Reached(n)
      PROVE  FreeAddr(p, queue[N - n].addr) \in Reached(n + 1)
  <2>1. /\ N - n \in 1 .. N /\ Sound(p) /\ BlocksOf(p) = Kept(n)
        /\ Listed(p) \subseteq Listed(Pool)
    BY <1>1, <1>3
  <2>2. PICK b \in BlocksOf(Pool) : b.addr = queue[N - n].addr
    BY <1>1, <2>1
  <2>3. b \in BlocksOf(p)
    <3>1. \A k \in N - n + 1 .. N : k \in 1 .. N /\ k # N - n
      BY <1>1
    <3>2. \A k \in N - n + 1 .. N : queue[k].addr # b.addr
      BY <1>1, <2>1, <2>2, <3>1
    <3> QED
      BY <2>1, <2>2, <3>2
  <2>4. PICK q : q = FreeAddr(p, b.addr)
    OBVIOUS
  <2>5. Sound(q) /\ BlocksOf(q) = BlocksOf(p) \ {b} /\ Listed(q) \subseteq Listed(p)
    BY <2>1, <2>3, <2>4, FreeAddrSound
  <2>6. N - (n + 1) + 1 .. N = {N - n} \cup (N - n + 1 .. N)
    BY <1>1
  <2>7. \A d \in BlocksOf(Pool) : queue[N - n].addr # d.addr <=> d # b
    BY <1>1, <2>2, OneBlock DEF Sound
  <2>8. Kept(n + 1) = Kept(n) \ {b}
    BY <2>6, <2>7
  <2> QED
    BY <2>1, <2>2, <2>4, <2>5, <2>8, SoundIsPool
<1> HIDE DEF Kept
<1>4. \E f : Turns(f)
  <2>1. \A n \in 0 .. N - 1 : \A p \in In[n] : step[n][p] \in In[n + 1]
    BY <1>3
  <2>2. Pool \in In[0] /\ \A n \in 0 .. N : In[n] = Reached(n)
    BY <1>1, <1>2
  <2>3. \A n \in 0 .. N - 1 : \A p \in Reached(n) :
            step[n][p] = FreeAddr(p, queue[N - n].addr)
    OBVIOUS
  <2> HIDE DEF In, step, Reached
  <2>4. PICK M, first, S, T : M = N /\ first = Pool /\ S = step /\ T = In
    OBVIOUS
  <2>5. /\ M \in Nat /\ first \in T[0]
        /\ \A n \in 0 .. M - 1 : \A s \in T[n] : S[n][s] \in T[n + 1]
    BY <1>1, <2>1, <2>2, <2>4
  <2>6. PICK f : IsRun(f, M, first, S, T)
    BY <2>5, Iterated
  <2> DEFINE h == [n \in 0 .. N |-> IF n = 0 THEN Pool
                       ELSE FreeAddr(f[n - 1], queue[N - n + 1].addr)]
  <2>7. ASSUME NEW n \in 0 .. N PROVE f[n] = h[n]
    <3>1. CASE n = 0
      BY <2>4, <2>6, <3>1 DEF IsRun
    <3>2. CASE n # 0
      <4>1. n \in 1 .. N /\ n - 1 \in 0 .. N - 1 /\ n - 1 \in 0 .. N /\ N - (n - 1) = N - n + 1
        BY <1>1, <3>2
      <4>2. f[n - 1] \in Reached(n - 1) /\ f[n] = step[n - 1][f[n - 1]]
        BY <2>2, <2>4, <2>6, <4>1 DEF IsRun
      <4>3. f[n] = FreeAddr(f[n - 1], queue[N - n + 1].addr)
        BY <2>3, <4>1, <4>2
      <4> QED
        BY <3>2, <4>3
    <3> QED
      BY <3>1, <3>2
  <2>8. f = [n \in 0 .. N |-> f[n]] /\ h = [n \in 0 .. N |-> h[n]]
    BY <2>4, <2>6 DEF IsRun
  <2> HIDE DEF h
  <2>9. f = h
    BY <2>7, <2>8
  <2> QED
    BY <2>9 DEF h
<1>5. Turns(freed)
  BY <1>4
<1> HIDE DEF freed
<1> DEFINE T == {n \in 0 .. N : freed[n] \in Reached(n)}
<1>6. 0 \in T
  <2>1. freed[0] = Pool
    BY <1>1, <1>5
  <2> QED
    BY <1>1, <1>2, <2>1
<1>7. ASSUME NEW n \in 0 .. N - 1, n \in T PROVE n + 1 \in T
  <2>1. /\ n + 1 \in 0 .. N /\ n + 1 # 0 /\ (n + 1) - 1 = n
        /\ N - (n + 1) + 1 = N - n /\ freed[n] \in Reached(n)
    BY <1>1, <1>7
  <2>2. freed[n + 1] = FreeAddr(freed[n], queue[N - n].addr)
    BY <1>5, <2>1
  <2> HIDE DEF Reached
  <2>3. freed[n + 1] \in Reached(n + 1)
    BY <1>3, <2>1, <2>2
  <2> QED
    BY <2>1, <2>3
<1>8. N \in T
  <2> HIDE DEF T
  <2>1. \A n \in 0 .. N : n \in T
    BY <1>1, <1>6, <1>7, Counting
  <2> QED
    BY <1>1, <2>1
<1>9. Flushed = freed[N]
  BY DEF Flushed, freed
<1>10. Kept(N) = HeldOf(Pool, queue)
  <2>1. N - N + 1 .. N = 1 .. N
    BY <1>1
  <2> QED
    BY <2>1 DEF Kept, HeldOf
<1> QED
  BY <1>8, <1>9, <1>10

\* An entry that has not run out yet keeps its address.
LEMMA AgedEntry ==
    ASSUME NEW q \in Seq(Waiting), NEW k \in 1 .. Len(q),
           NEW e, e = [q[k] EXCEPT !.timer = @ - 1]
    PROVE  e.addr = q[k].addr /\ (e.timer > 0 => e \in Waiting)
<1>1. q[k] \in Waiting
  BY ElementOfSeq
<1>2. PICK a \in 0 .. Units - 1, m \in {1, 2} : q[k] = [addr |-> a, timer |-> m]
  BY <1>1 DEF Waiting
<1>3. e = [addr |-> a, timer |-> m - 1]
  BY <1>2
<1>4. e.addr = a /\ e.timer = m - 1 /\ q[k].addr = a
  BY <1>2, <1>3
<1>5. m - 1 > 0 => m - 1 \in {1, 2}
  BY <1>2
<1> QED
  BY <1>2, <1>3, <1>4, <1>5 DEF Waiting

\* An entry that has run out is replaced by the last one.
LEMMA DroppedEntry ==
    ASSUME NEW q \in Seq(Waiting), NEW k \in 1 .. Len(q), NEW n, n = Len(q),
           NEW r, r = SubSeq([q EXCEPT ![k] = q[n]], 1, n - 1)
    PROVE  /\ r \in Seq(Waiting) /\ Len(r) = n - 1
           /\ \A j \in 1 .. n - 1 : r[j] = IF j = k THEN q[n] ELSE q[j]
<1>1. n \in Nat /\ n \in 1 .. Len(q)
  BY LenProperties
<1>2. q[n] \in Waiting
  BY <1>1, ElementOfSeq
<1> DEFINE swapped == [q EXCEPT ![k] = q[n]]
<1>3. /\ swapped \in Seq(Waiting) /\ Len(swapped) = n
      /\ \A j \in 1 .. n : swapped[j] = IF j = k THEN q[n] ELSE q[j]
  BY <1>2, ExceptSeq
<1> HIDE DEF swapped
<1>4. \A j \in 1 .. n - 1 : swapped[j] \in Waiting
  BY <1>1, <1>3, ElementOfSeq
<1>5. 1 \in Int /\ n - 1 \in Int
  BY <1>1
<1>6. /\ SubSeq(swapped, 1, n - 1) \in Seq(Waiting)
      /\ Len(SubSeq(swapped, 1, n - 1)) = IF 1 <= n - 1 THEN (n - 1) - 1 + 1 ELSE 0
      /\ \A j \in 1 .. (n - 1) - 1 + 1 : SubSeq(swapped, 1, n - 1)[j] = swapped[1 + j - 1]
  BY <1>4, <1>5, SubSeqProperties
<1>7. r = SubSeq(swapped, 1, n - 1)
  BY DEF swapped
<1> QED
  BY <1>1, <1>3, <1>6, <1>7

\* One turn of the sweep frees at most the block its entry asks for, and does
\* not change which blocks no entry asks for.
LEMMA TickEntrySound ==
    ASSUME NEW s, Sound(s.p), Deferred(s.p, s.q), s.k \in 1 .. Len(s.q),
           NEW t, t = TickEntry(s)
    PROVE  /\ Sound(t.p) /\ Deferred(t.p, t.q) /\ t.k \in Nat \ {0}
           /\ HeldOf(t.p, t.q) = HeldOf(s.p, s.q)
           /\ BlocksOf(t.p) \subseteq BlocksOf(s.p) /\ Listed(t.p) \subseteq Listed(s.p)
           /\ t.k - Len(t.q) = s.k - Len(s.q) + 1
<1> DEFINE k == s.k
           n == Len(s.q)
           e == [s.q[k] EXCEPT !.timer = @ - 1]
           aged == [s.q EXCEPT ![k] = e]
           cut == SubSeq([s.q EXCEPT ![k] = s.q[n]], 1, n - 1)
<1>1. /\ s.q \in Seq(Waiting) /\ n \in Nat /\ k \in 1 .. n
      /\ \A j \in 1 .. n : \E b \in BlocksOf(s.p) : b.addr = s.q[j].addr
      /\ \A i, j \in 1 .. n : s.q[i].addr = s.q[j].addr => i = j
  BY LenProperties DEF Deferred
<1>2. CASE e.timer > 0
  <2>1. t.p = s.p /\ t.q = aged /\ t.k = k + 1
    BY <1>2 DEF TickEntry
  <2>2. /\ aged \in Seq(Waiting) /\ Len(aged) = n
        /\ \A j \in 1 .. n : aged[j].addr = s.q[j].addr
    <3>1. e.addr = s.q[k].addr /\ (e.timer > 0 => e \in Waiting)
      <4>1. PICK q, i : q = s.q /\ i = k
        OBVIOUS
      <4>2. q \in Seq(Waiting) /\ i \in 1 .. Len(q)
        BY <1>1, <4>1
      <4>3. PICK x : x = [q[i] EXCEPT !.timer = @ - 1]
        OBVIOUS
      <4>4. x.addr = q[i].addr /\ (x.timer > 0 => x \in Waiting)
        BY <4>2, <4>3, AgedEntry
      <4>5. x = e
        BY <4>1, <4>3
      <4> HIDE DEF e
      <4> QED
        BY <4>1, <4>4, <4>5
    <3>2. e.timer > 0
      BY <1>2
    <3> HIDE DEF e
    <3>3. /\ aged \in Seq(Waiting) /\ Len(aged) = n
          /\ \A j \in 1 .. n : aged[j] = IF j = k THEN e ELSE s.q[j]
      BY <1>1, <3>1, <3>2, ExceptSeq
    <3> QED
      BY <3>1, <3>3
  <2> HIDE DEF aged, e
  <2>3. Deferred(t.p, t.q)
    BY <1>1, <2>1, <2>2 DEF Deferred
  <2>4. HeldOf(t.p, t.q) = HeldOf(s.p, s.q)
    BY <1>1, <2>1, <2>2 DEF HeldOf
  <2>5. t.k \in Nat \ {0} /\ t.k - Len(t.q) = s.k - Len(s.q) + 1
    BY <1>1, <2>1, <2>2
  <2> QED
    BY <2>1, <2>3, <2>4, <2>5
<1>3. CASE ~(e.timer > 0)
  <2>1. t.p = FreeAddr(s.p, e.addr) /\ t.q = cut /\ t.k = k
    BY <1>3 DEF TickEntry
  <2>2. e.addr = s.q[k].addr
    BY <1>1, AgedEntry
  <2>3. PICK b \in BlocksOf(s.p) : b.addr = s.q[k].addr
    BY <1>1
  <2>4. t.p = FreeAddr(s.p, b.addr)
    BY <2>1, <2>2, <2>3
  <2>5. /\ Sound(t.p) /\ BlocksOf(t.p) = BlocksOf(s.p) \ {b}
        /\ Listed(t.p) \subseteq Listed(s.p)
    BY <2>3, <2>4, FreeAddrSound
  <2>6. /\ cut \in Seq(Waiting) /\ Len(cut) = n - 1
        /\ \A j \in 1 .. n - 1 : cut[j] = IF j = k THEN s.q[n] ELSE s.q[j]
    BY <1>1, DroppedEntry
  <2> HIDE DEF cut, e
  <2>7. \A j \in 1 .. n - 1 : \E i \in 1 .. n :
            i # k /\ cut[j].addr = s.q[i].addr /\ i = IF j = k THEN n ELSE j
    BY <1>1, <2>6
  <2>8. \A i \in 1 .. n : i # k => \E j \in 1 .. n - 1 : cut[j].addr = s.q[i].addr
    <3> TAKE i \in 1 .. n
    <3> HAVE i # k
    <3>1. CASE i = n
      BY <1>1, <2>6, <3>1
    <3>2. CASE i # n
      BY <1>1, <2>6, <3>2
    <3> QED
      BY <3>1, <3>2
  <2>9. \A d \in BlocksOf(s.p) : d.addr = b.addr <=> d = b
    BY OneBlock DEF Sound
  <2>10. \A j \in 1 .. n - 1 : \E d \in BlocksOf(t.p) : d.addr = cut[j].addr
    <3> TAKE j \in 1 .. n - 1
    <3>1. PICK i \in 1 .. n : i # k /\ cut[j].addr = s.q[i].addr
      BY <2>7
    <3>2. PICK d \in BlocksOf(s.p) : d.addr = s.q[i].addr
      BY <1>1
    <3>3. d # b
      BY <1>1, <2>3, <3>1, <3>2
    <3> QED
      BY <2>5, <3>1, <3>2, <3>3
  <2>11. \A i, j \in 1 .. n - 1 : cut[i].addr = cut[j].addr => i = j
    <3> TAKE i, j \in 1 .. n - 1
    <3> HAVE cut[i].addr = cut[j].addr
    <3>1. PICK x \in 1 .. n : /\ x # k /\ cut[i].addr = s.q[x].addr
                              /\ x = IF i = k THEN n ELSE i
      BY <2>7
    <3>2. PICK y \in 1 .. n : /\ y # k /\ cut[j].addr = s.q[y].addr
                              /\ y = IF j = k THEN n ELSE j
      BY <2>7
    <3>3. x = y
      BY <1>1, <3>1, <3>2
    <3>4. i \in Nat /\ j \in Nat /\ i < n /\ j < n
      BY <1>1
    <3> QED
      BY <3>1, <3>2, <3>3, <3>4
  <2>12. Deferred(t.p, t.q)
    <3>1. t.q \in Seq(Waiting) /\ Len(t.q) = n - 1
      BY <2>1, <2>6
    <3>2. \A j \in 1 .. Len(t.q) : \E d \in BlocksOf(t.p) : d.addr = t.q[j].addr
      BY <2>1, <2>10, <3>1
    <3>3. \A i, j \in 1 .. Len(t.q) : t.q[i].addr = t.q[j].addr => i = j
      BY <2>1, <2>11, <3>1
    <3> QED
      BY <3>1, <3>2, <3>3 DEF Deferred
  <2>13. ASSUME NEW d \in BlocksOf(s.p)
         PROVE  (\A i \in 1 .. n : s.q[i].addr # d.addr)
                   <=> d # b /\ \A j \in 1 .. n - 1 : cut[j].addr # d.addr
    <3>1. ASSUME \A i \in 1 .. n : s.q[i].addr # d.addr
          PROVE  d # b /\ \A j \in 1 .. n - 1 : cut[j].addr # d.addr
      BY <1>1, <2>3, <2>7, <3>1
    <3>2. ASSUME d # b, \A j \in 1 .. n - 1 : cut[j].addr # d.addr
          PROVE  \A i \in 1 .. n : s.q[i].addr # d.addr
      BY <2>3, <2>8, <2>9, <3>2
    <3> QED
      BY <3>1, <3>2
  <2>14. HeldOf(t.p, t.q) = HeldOf(s.p, s.q)
    BY <2>1, <2>5, <2>6, <2>13 DEF HeldOf
  <2>15. t.k \in Nat \ {0} /\ t.k - Len(t.q) = s.k - Len(s.q) + 1
    BY <1>1, <2>1, <2>6
  <2> QED
    BY <2>5, <2>12, <2>14, <2>15
<1> QED
  BY <1>2, <1>3

LEMMA TickEntryRecord ==
    ASSUME NEW s, NEW t, t = TickEntry(s)
    PROVE  t = [p |-> t.p, q |-> t.q, k |-> t.k]
BY DEF TickEntry

\* The sweep frees the blocks of the entries that have run out and no other:
\* the blocks no entry asks for are the same before and after.
LEMMA SweptSound ==
    ASSUME IInv
    PROVE  /\ Sound(Swept.p) /\ Deferred(Swept.p, Swept.q)
           /\ HeldOf(Swept.p, Swept.q) = HeldOf(Pool, queue)
           /\ BlocksOf(Swept.p) \subseteq BlocksOf(Pool)
           /\ Listed(Swept.p) \subseteq Listed(Pool)
<1> DEFINE N == Len(queue)
           begin == [p |-> Pool, q |-> queue, k |-> 1]
           Good(s) == /\ Sound(s.p) /\ Deferred(s.p, s.q)
                      /\ HeldOf(s.p, s.q) = HeldOf(Pool, queue)
                      /\ BlocksOf(s.p) \subseteq BlocksOf(Pool)
                      /\ Listed(s.p) \subseteq Listed(Pool)
           Reached(n) == {s \in [p : PoolValue, q : Seq(Waiting), k : Nat \ {0}] :
                             Good(s) /\ s.k - Len(s.q) = 1 - N + n}
           In == [n \in Nat |-> Reached(n)]
           step == [n \in 0 .. N - 1 |-> [s \in Reached(n) |-> TickEntry(s)]]
           Turns(f) == f = [n \in 0 .. N |-> IF n = 0 THEN begin ELSE TickEntry(f[n - 1])]
           turn == CHOOSE f : Turns(f)
<1>1. Sound(Pool) /\ Deferred(Pool, queue) /\ queue \in Seq(Waiting) /\ N \in Nat
  BY LenProperties DEF IInv, Deferred
<1>2. begin \in Reached(0)
  <2>1. begin.p = Pool /\ begin.q = queue /\ begin.k = 1
    OBVIOUS
  <2>2. Good(begin)
    BY <1>1, <2>1
  <2>3. begin.k - Len(begin.q) = 1 - N + 0
    BY <1>1, <2>1
  <2>4. begin \in [p : PoolValue, q : Seq(Waiting), k : Nat \ {0}]
    BY <1>1, SoundIsPool
  <2> HIDE DEF Good, begin
  <2> QED
    BY <2>2, <2>3, <2>4
<1>3. ASSUME NEW n \in 0 .. N - 1, NEW s \in Reached(n), NEW t, t = TickEntry(s)
      PROVE  t \in Reached(n + 1)
  <2>1. /\ s.q \in Seq(Waiting) /\ s.k \in Nat \ {0} /\ s.k - Len(s.q) = 1 - N + n
        /\ Sound(s.p) /\ Deferred(s.p, s.q)
    BY <1>3
  <2>2. Len(s.q) \in Nat
    BY <2>1, LenProperties
  <2>3. s.k \in 1 .. Len(s.q)
    BY <1>1, <2>1, <2>2
  <2>4. /\ Sound(t.p) /\ Deferred(t.p, t.q) /\ t.k \in Nat \ {0}
        /\ HeldOf(t.p, t.q) = HeldOf(s.p, s.q)
        /\ BlocksOf(t.p) \subseteq BlocksOf(s.p) /\ Listed(t.p) \subseteq Listed(s.p)
        /\ t.k - Len(t.q) = s.k - Len(s.q) + 1
    BY <1>3, <2>1, <2>3, TickEntrySound
  <2>5. t.q \in Seq(Waiting) /\ t.p \in PoolValue
    BY <2>4, SoundIsPool DEF Deferred
  <2>6. t = [p |-> t.p, q |-> t.q, k |-> t.k]
    BY <1>3, TickEntryRecord
  <2>7. t.k - Len(t.q) = 1 - N + (n + 1)
    <3>1. t.k \in Int /\ Len(t.q) \in Int /\ n \in Int /\ N \in Int
      BY <1>1, <2>4, <2>5, LenProperties
    <3> QED
      BY <2>1, <2>4, <3>1
  <2>8. Good(s)
    BY <1>3
  <2>9. Good(t)
    BY <2>4, <2>8
  <2>10. t \in [p : PoolValue, q : Seq(Waiting), k : Nat \ {0}]
    BY <2>4, <2>5, <2>6
  <2> HIDE DEF Good
  <2> QED
    BY <2>7, <2>9, <2>10
<1> HIDE DEF begin
<1>4. \E f : Turns(f)
  <2>1. \A n \in 0 .. N - 1 : \A s \in In[n] : step[n][s] \in In[n + 1]
    <3>1. \A n \in 0 .. N - 1 : \A s \in Reached(n) : TickEntry(s) \in Reached(n + 1)
      BY <1>3
    <3> HIDE DEF Reached
    <3> QED
      BY <1>1, <3>1
  <2>2. begin \in In[0] /\ \A n \in 0 .. N : In[n] = Reached(n)
    BY <1>1, <1>2
  <2>3. \A n \in 0 .. N - 1 : \A s \in Reached(n) : step[n][s] = TickEntry(s)
    OBVIOUS
  <2> HIDE DEF In, step, Reached
  <2>4. PICK M, first, S, T : M = N /\ first = begin /\ S = step /\ T = In
    OBVIOUS
  <2>5. /\ M \in Nat /\ first \in T[0]
        /\ \A n \in 0 .. M - 1 : \A s \in T[n] : S[n][s] \in T[n + 1]
    BY <1>1, <2>1, <2>2, <2>4
  <2>6. PICK f : IsRun(f, M, first, S, T)
    BY <2>5, Iterated
  <2> DEFINE h == [n \in 0 .. N |-> IF n = 0 THEN begin ELSE TickEntry(f[n - 1])]
  <2>7. ASSUME NEW n \in 0 .. N PROVE f[n] = h[n]
    <3>1. CASE n = 0
      BY <2>4, <2>6, <3>1 DEF IsRun
    <3>2. CASE n # 0
      <4>1. n \in 1 .. N /\ n - 1 \in 0 .. N - 1 /\ n - 1 \in 0 .. N
        BY <1>1, <3>2
      <4>2. f[n - 1] \in Reached(n - 1) /\ f[n] = step[n - 1][f[n - 1]]
        BY <2>2, <2>4, <2>6, <4>1 DEF IsRun
      <4>3. f[n] = TickEntry(f[n - 1])
        BY <2>3, <4>1, <4>2
      <4> QED
        BY <3>2, <4>3
    <3> QED
      BY <3>1, <3>2
  <2>8. f = [n \in 0 .. N |-> f[n]] /\ h = [n \in 0 .. N |-> h[n]]
    BY <2>4, <2>6 DEF IsRun
  <2> HIDE DEF h
  <2>9. f = h
    BY <2>7, <2>8
  <2> QED
    BY <2>9 DEF h
<1>5. Turns(turn)
  BY <1>4
<1> HIDE DEF turn
<1> DEFINE T == {n \in 0 .. N : turn[n] \in Reached(n)}
<1>6. 0 \in T
  <2>1. turn[0] = begin
    BY <1>1, <1>5
  <2> QED
    BY <1>1, <1>2, <2>1
<1>7. ASSUME NEW n \in 0 .. N - 1, n \in T PROVE n + 1 \in T
  <2>1. /\ n + 1 \in 0 .. N /\ n + 1 # 0 /\ (n + 1) - 1 = n
        /\ turn[n] \in Reached(n)
    BY <1>1, <1>7
  <2>2. turn[n + 1] = TickEntry(turn[n])
    BY <1>5, <2>1
  <2> HIDE DEF Reached
  <2>3. turn[n + 1] \in Reached(n + 1)
    BY <1>3, <2>1, <2>2
  <2> QED
    BY <2>1, <2>3
<1>8. N \in T
  <2> HIDE DEF T
  <2>1. \A n \in 0 .. N : n \in T
    BY <1>1, <1>6, <1>7, Counting
  <2> QED
    BY <1>1, <2>1
<1>9. Swept = turn[N]
  BY DEF Swept, turn, begin
<1>10. turn[N] \in Reached(N)
  BY <1>8
<1>11. Good(turn[N])
  <2> HIDE DEF Good
  <2> QED
    BY <1>10
<1> QED
  BY <1>9, <1>11

-----------------------------------------------------------------------------
(* The pool the variables hold.                                            *)

\* What the operators of the model compute for a sound pool.
LEMMA PoolView ==
    ASSUME Sound(Pool)
    PROVE  /\ slots \in [Entry -> Slot] /\ index \in [Entry -> Entry]
           /\ curNumSlots \in 1 .. MaxSlots
           /\ ToSet(Chain(Pool)) = Listed(Pool)
           /\ Used = UsedOf(Pool)
           /\ Blocks = BlocksOf(Pool)
<1>1. Linked(Pool) /\ Pool \in PoolValue
  BY SoundIsPool
<1>2. Pool.slots = slots /\ Pool.index = index /\ Pool.cur = curNumSlots
  BY DEF Pool
<1>3. /\ Pool.slots \in [Entry -> Slot] /\ Pool.index \in [Entry -> Entry]
      /\ Pool.cur \in 1 .. MaxSlots
  BY <1>1 DEF PoolValue
<1>4. ToSet(Chain(Pool)) = Listed(Pool)
  BY <1>1, ChainListed
<1>5. Used = UsedOf(Pool)
  BY <1>2, <1>4 DEF Used, UsedOf
<1>6. Blocks = BlocksOf(Pool)
  BY <1>2, <1>5 DEF Blocks, BlocksOf, BlockAt
<1> QED
  BY <1>2, <1>3, <1>4, <1>5, <1>6

\* Assigning the variables a pool makes it the pool.
LEMMA Becomes ==
    ASSUME NEW p \in PoolValue, slots' = p.slots, index' = p.index, curNumSlots' = p.cur
    PROVE  Pool' = p
<1>1. p = [slots |-> p.slots, index |-> p.index, cur |-> p.cur]
  BY DEF PoolValue
<1> QED
  BY <1>1 DEF Pool

\* The blocks of a sound pool lie in it and do not overlap.
LEMMA BlocksApart ==
    ASSUME NEW p, Sound(p)
    PROVE  /\ \A b \in BlocksOf(p) : /\ b \in HeapView!Block
                                     /\ b.addr + b.size <= Units
           /\ \A b, d \in BlocksOf(p) : b # d => HeapView!Disjoint(b, d)
<1>1. Linked(p)
  BY DEF Sound
<1>2. ASSUME NEW i \in UsedOf(p)
      PROVE  BlockAt(p, i) \in HeapView!Block /\ p.slots[i].data + p.slots[i].size <= Units
  <2>1. i \in Listed(p) /\ p.slots[i].size > 0 /\ p.slots[i].data + p.slots[i].size <= Units
    BY <1>1 DEF UsedOf, Linked
  <2>2. p.slots[i].data \in 0 .. Units /\ p.slots[i].size \in 0 .. Units /\ Units \in Nat
    BY <1>1, <2>1, ListedIsEntry, SlotTypes, Constants
  <2>3. p.slots[i].data \in 0 .. Units - 1 /\ p.slots[i].size \in 1 .. Units
    BY <2>1, <2>2
  <2> QED
    BY <2>1, <2>3 DEF BlockAt, HeapView!Block
<1>3. ASSUME NEW i \in UsedOf(p), NEW j \in UsedOf(p), BlockAt(p, i) # BlockAt(p, j)
      PROVE  HeapView!Disjoint(BlockAt(p, i), BlockAt(p, j))
  <2>1. i # j /\ i \in Listed(p) /\ j \in Listed(p)
    BY <1>3 DEF UsedOf
  <2>2. Apart(p, i, j)
    BY <1>1, <2>1 DEF Linked
  <2> QED
    BY <2>2 DEF Apart, BlockAt, HeapView!Disjoint
<1>4. \A b \in BlocksOf(p) : b \in HeapView!Block /\ b.addr + b.size <= Units
  <2> TAKE b \in BlocksOf(p)
  <2>1. PICK i \in UsedOf(p) : b = BlockAt(p, i)
    BY DEF BlocksOf
  <2>2. b.addr = p.slots[i].data /\ b.size = p.slots[i].size
    BY <2>1 DEF BlockAt
  <2> QED
    BY <1>2, <2>1, <2>2
<1>5. \A b, d \in BlocksOf(p) : b # d => HeapView!Disjoint(b, d)
  BY <1>3 DEF BlocksOf
<1> QED
  BY <1>4, <1>5

\* Best fit finds a free slot of the list that is large enough.
LEMMA BestFitFits ==
    ASSUME Sound(Pool), NEW size, NEW i, i = BestFit(size), i # None
    PROVE  i \in Listed(Pool) /\ IsFree(Pool, i) /\ slots[i].size >= size
<1> DEFINE fits == {j \in ToSet(Chain(Pool)) : IsFree(Pool, j) /\ slots[j].size >= size}
           best == {j \in fits : \A k \in fits : slots[j].size <= slots[k].size}
<1>1. Linked(Pool) /\ ToSet(Chain(Pool)) = Listed(Pool)
  BY PoolView, SoundIsPool
<1>2. best # {} /\ i = First(Pool, best)
  BY DEF BestFit
<1>3. best \in SUBSET Listed(Pool)
  BY <1>1
<1>4. First(Pool, best) \in best
  <2> HIDE DEF best
  <2> QED
    BY <1>1, <1>2, <1>3, FirstMember
<1> QED
  BY <1>1, <1>2, <1>4

\* Taking the front of a free slot adds one block.
LEMMA FrontAdds ==
    ASSUME NEW p, Sound(p), NEW i \in Listed(p), IsFree(p, i),
           NEW size \in Nat, 0 < size, size <= p.slots[i].size, p.cur < MaxSlots,
           NEW q, q = Assign(p, i, size, SlotUsed, SlotFree)
    PROVE  Sound(q) /\ \E b : b \notin BlocksOf(p) /\ BlocksOf(q) = BlocksOf(p) \cup {b}
<1>1. PICK b : b = [addr |-> p.slots[i].data, size |-> size]
  OBVIOUS
<1>2. Linked(p) /\ ~IsFree(p, p.slots[i].next)
  BY DEF Sound, Merged
<1>3. Sound(q) /\ BlocksOf(q) = (BlocksOf(p) \ {BlockAt(p, i)}) \cup {b}
  BY <1>1, <1>2, TakeFront
<1>4. i \notin UsedOf(p)
  BY DEF UsedOf, IsFree, SlotFree, SlotUsed
<1>5. \A j \in UsedOf(p) : /\ BlockAt(p, j) # BlockAt(p, i)
                           /\ p.slots[j].data # p.slots[i].data
  BY <1>2, <1>4, OneSlot DEF UsedOf
<1>6. BlockAt(p, i) \notin BlocksOf(p)
  BY <1>5 DEF BlocksOf
<1>7. b \notin BlocksOf(p)
  BY <1>1, <1>5 DEF BlocksOf, BlockAt
<1> QED
  BY <1>3, <1>6, <1>7

-----------------------------------------------------------------------------
(* The steps.                                                              *)

\* What the heap's variables stand for.
Held == {b \in Blocks : b.addr \notin Queued}
Parked == {b \in Blocks : b.addr \in Queued}

LEMMA HeapState ==
    IInv => Held = HeldOf(Pool, queue) /\ Parked = BlocksOf(Pool) \ HeldOf(Pool, queue)
<1> SUFFICES ASSUME IInv
             PROVE  Held = HeldOf(Pool, queue) /\ Parked = BlocksOf(Pool) \ HeldOf(Pool, queue)
  OBVIOUS
<1>1. Blocks = BlocksOf(Pool)
  BY PoolView DEF IInv
<1>2. \A b \in BlocksOf(Pool) : b.addr \notin Queued <=> b \in HeldOf(Pool, queue)
  BY DEF Queued, HeldOf
<1> QED
  BY <1>1, <1>2 DEF Held, Parked, HeldOf

LEMMA HeapStateNext ==
    IInv' => (Held = HeldOf(Pool, queue) /\ Parked = BlocksOf(Pool) \ HeldOf(Pool, queue))'
BY HeapState, PTL

\* The invariant after a step, from what the step does.
LEMMA InvariantNext ==
    ASSUME Sound(Pool'), Deferred(Pool', queue'), freeTimer' \in {0, 2}
    PROVE  IInv'
BY DEF IInv

\* A step that adds a block is the heap's Allocate.
LEMMA BlockAdded ==
    ASSUME IInv, NEW b, b \notin BlocksOf(Pool), BlocksOf(Pool') = BlocksOf(Pool) \cup {b},
           Sound(Pool'), queue' = queue, freeTimer' = freeTimer
    PROVE  IInv' /\ HeapView!Next
<1>1. Sound(Pool) /\ Deferred(Pool, queue)
  BY DEF IInv
<1>2. PICK p, q : p = Pool /\ q = Pool'
  OBVIOUS
<1>3. \A d \in BlocksOf(p) : d.addr # b.addr
  BY <1>2, OneBlock DEF Sound
<1>4. Deferred(q, queue)
  BY <1>1, <1>2 DEF Deferred
<1>5. IInv'
  BY <1>2, <1>4, InvariantNext DEF IInv
<1>6. HeldOf(q, queue) = HeldOf(p, queue) \cup {b}
  BY <1>1, <1>2, <1>3 DEF HeldOf, Deferred
<1>7. b \notin HeldOf(p, queue) /\ HeldOf(p, queue) \subseteq BlocksOf(p)
  BY <1>2 DEF HeldOf
<1>8. /\ Held = HeldOf(p, queue) /\ Parked = BlocksOf(p) \ HeldOf(p, queue)
      /\ Held' = HeldOf(q, queue) /\ Parked' = BlocksOf(q) \ HeldOf(q, queue)
  BY <1>2, <1>5, HeapState, HeapStateNext
<1>9. b \in HeapView!Block /\ b.addr + b.size <= Units
      /\ \A other \in BlocksOf(p) : HeapView!Disjoint(b, other)
  BY <1>2, BlocksApart
<1>10. /\ Held' = Held \cup {b} /\ b \in Held' \ Held
       /\ Parked' = Parked /\ Held \cup Parked = BlocksOf(p)
  BY <1>2, <1>6, <1>7, <1>8
<1>11. HeapView!Allocate
  BY <1>9, <1>10 DEF HeapView!Allocate, Held, Parked
<1> QED
  BY <1>5, <1>11 DEF HeapView!Next

\* An allocation takes one entry, or two when a fixed range lies inside a block.
LEMMA AllocStep ==
    ASSUME IInv, EntryLeftForSplit, NEW size \in Sizes, Alloc(size)
    PROVE  IInv' /\ HeapView!Next
<1>1. PICK i, q : i = BestFit(size) /\ q = Assign(Pool, i, size, SlotUsed, SlotFree)
  OBVIOUS
<1>2. Sound(Pool) /\ Pool.cur = curNumSlots /\ Pool.slots = slots
  BY DEF IInv, Pool
<1>3. i \in Listed(Pool) /\ IsFree(Pool, i) /\ slots[i].size >= size
  BY <1>1, <1>2, BestFitFits DEF Alloc
<1>4. size \in Nat /\ 0 < size /\ slots[i].size \in Nat /\ curNumSlots < MaxSlots
  <2>1. size \in 1 .. Units
    BY MemPoolAssumption
  <2>2. i \in Entry /\ slots \in [Entry -> Slot]
    BY <1>2, <1>3, ListedIsEntry, PoolView
  <2> QED
    BY <2>1, <2>2 DEF Slot, EntryLeftForSplit, Alloc
<1>5. PICK p : p = Pool
  OBVIOUS
<1>6. /\ Sound(p) /\ i \in Listed(p) /\ IsFree(p, i) /\ size <= p.slots[i].size
      /\ p.cur < MaxSlots /\ q = Assign(p, i, size, SlotUsed, SlotFree)
  BY <1>1, <1>2, <1>3, <1>4, <1>5
<1>7. Sound(q) /\ \E b : b \notin BlocksOf(p) /\ BlocksOf(q) = BlocksOf(p) \cup {b}
  BY <1>4, <1>6, FrontAdds
<1>8. slots' = q.slots /\ index' = q.index /\ curNumSlots' = q.cur
  BY <1>1 DEF Alloc, Become
<1>9. Pool' = q
  BY <1>7, <1>8, Becomes, SoundIsPool
<1>10. queue' = queue /\ freeTimer' = freeTimer
  BY DEF Alloc
<1> QED
  BY <1>5, <1>7, <1>9, <1>10, BlockAdded

LEMMA AllocFixedStep ==
    ASSUME IInv, EntryLeftForSplit, NEW size \in Sizes, NEW addr \in 0 .. Units - 1,
           AllocFixed(size, addr)
    PROVE  IInv' /\ HeapView!Next
<1>1. PICK p : p = Pool
  OBVIOUS
<1>2. /\ Sound(p) /\ Linked(p) /\ p.cur = curNumSlots /\ p.slots = slots /\ p.index = index
      /\ ToSet(Chain(Pool)) = Listed(p)
  BY <1>1, PoolView, SoundIsPool DEF IInv, Pool
<1>3. PICK i \in Listed(p) :
          /\ IsFree(p, i)
          /\ slots[i].data <= addr
          /\ addr + size <= slots[i].data + slots[i].size
          /\ Become(IF addr = slots[i].data
                    THEN Assign(p, i, size, SlotUsed, SlotFree)
                    ELSE Assign(Assign(p, i, addr - slots[i].data, SlotFree, SlotUsed),
                                index[curNumSlots], size, SlotUsed, SlotFree))
  BY <1>1, <1>2 DEF AllocFixed
<1>4. /\ size \in Nat /\ 0 < size /\ addr \in Nat
      /\ p.slots[i].data \in Nat /\ p.slots[i].size \in Nat
      /\ p.cur + 1 # MaxSlots /\ p.cur < MaxSlots /\ p.cur \in Nat /\ MaxSlots \in Nat
  <2>1. size \in 1 .. Units /\ Units \in Nat
    BY MemPoolAssumption
  <2>2. p.slots[i].data \in 0 .. Units /\ p.slots[i].size \in 0 .. Units
    BY <1>2, ListedIsEntry, SlotTypes
  <2>3. p.cur \in 1 .. MaxSlots /\ MaxSlots \in Nat
    BY <1>1, <1>2, PoolView, Constants
  <2>4. p.cur + 1 # MaxSlots /\ p.cur < MaxSlots
    BY <1>2 DEF AllocFixed, OutOfSlots, EntryLeftForSplit
  <2> QED
    BY <2>1, <2>2, <2>3, <2>4
<1>5. \E q : /\ slots' = q.slots /\ index' = q.index /\ curNumSlots' = q.cur
             /\ Sound(q)
             /\ \E b : b \notin BlocksOf(p) /\ BlocksOf(q) = BlocksOf(p) \cup {b}
  <2>1. CASE addr = slots[i].data
    <3>1. PICK q : q = Assign(p, i, size, SlotUsed, SlotFree)
      OBVIOUS
    <3>2. slots' = q.slots /\ index' = q.index /\ curNumSlots' = q.cur
      BY <1>3, <2>1, <3>1 DEF Become
    <3>3. size <= p.slots[i].size
      BY <1>2, <1>3, <1>4, <2>1
    <3>4. Sound(q) /\ \E b : b \notin BlocksOf(p) /\ BlocksOf(q) = BlocksOf(p) \cup {b}
      BY <1>2, <1>3, <1>4, <3>1, <3>3, FrontAdds
    <3> QED
      BY <3>2, <3>4
  <2>2. CASE addr # slots[i].data
    <3>1. PICK gap, new : gap = addr - slots[i].data /\ new = p.index[p.cur]
      OBVIOUS
    <3>2. PICK m : m = Assign(p, i, gap, SlotFree, SlotUsed)
      OBVIOUS
    <3>3. PICK q : q = Assign(m, new, size, SlotUsed, SlotFree)
      OBVIOUS
    <3>4. slots' = q.slots /\ index' = q.index /\ curNumSlots' = q.cur
      BY <1>2, <1>3, <2>2, <3>1, <3>2, <3>3 DEF Become
    <3>5. gap \in Nat /\ 0 < gap /\ gap < p.slots[i].size /\ size <= p.slots[i].size - gap
      BY <1>2, <1>3, <1>4, <2>2, <3>1
    <3>6. /\ Sound(m) /\ m.cur = p.cur + 1
          /\ new \in Listed(m) /\ ~IsFree(m, m.slots[new].next)
          /\ m.slots[new].size = p.slots[i].size - gap
          /\ BlocksOf(m) = BlocksOf(p) \cup {BlockAt(m, new)}
          /\ BlockAt(m, new) \notin BlocksOf(p)
      BY <1>2, <1>3, <1>4, <3>1, <3>2, <3>5, TakeBack
    <3>7. PICK b : b = [addr |-> m.slots[new].data, size |-> size]
      OBVIOUS
    <3>8. m.cur < MaxSlots /\ size <= m.slots[new].size
      BY <1>4, <3>5, <3>6
    <3>9. Sound(q) /\ BlocksOf(q) = (BlocksOf(m) \ {BlockAt(m, new)}) \cup {b}
      BY <1>4, <3>3, <3>6, <3>7, <3>8, TakeFront
    <3>10. BlocksOf(q) = BlocksOf(p) \cup {b}
      BY <3>6, <3>9
    <3>11. b \notin BlocksOf(p)
      <4>1. PICK d : d = BlockAt(m, new)
        OBVIOUS
      <4>2. b.addr = d.addr /\ d \in BlocksOf(m) /\ d \notin BlocksOf(p)
        BY <3>6, <3>7, <4>1 DEF BlockAt
      <4>3. b \in BlocksOf(m) => b = d
        BY <3>6, <4>2, OneBlock DEF Sound
      <4> QED
        BY <3>6, <4>2, <4>3
    <3> QED
      BY <3>4, <3>9, <3>10, <3>11
  <2> QED
    BY <2>1, <2>2
<1>6. Sound(Pool') /\ \E b : b \notin BlocksOf(p) /\ BlocksOf(Pool') = BlocksOf(p) \cup {b}
  BY <1>5, Becomes, SoundIsPool
<1>7. queue' = queue /\ freeTimer' = freeTimer
  BY DEF AllocFixed
<1> QED
  BY <1>1, <1>6, <1>7, BlockAdded

\* A step that takes away no block but what the queue asks to free is the
\* heap's Reclaim.
LEMMA ReclaimStep ==
    ASSUME IInv, Sound(Pool'), Deferred(Pool', queue'), freeTimer' \in {0, 2},
           HeldOf(Pool', queue') = HeldOf(Pool, queue),
           BlocksOf(Pool') \subseteq BlocksOf(Pool)
    PROVE  IInv' /\ HeapView!Next
<1>1. IInv'
  BY InvariantNext
<1>2. /\ Held = HeldOf(Pool, queue) /\ Parked = BlocksOf(Pool) \ HeldOf(Pool, queue)
      /\ Held' = HeldOf(Pool', queue') /\ Parked' = BlocksOf(Pool') \ HeldOf(Pool', queue')
  BY <1>1, HeapState, HeapStateNext
<1>3. Held' = Held /\ Parked' \subseteq Parked
  BY <1>2
<1>4. HeapView!Reclaim
  BY <1>3 DEF HeapView!Reclaim, Held, Parked
<1> QED
  BY <1>1, <1>4 DEF HeapView!Next

LEMMA TickStep ==
    ASSUME IInv, Tick
    PROVE  IInv' /\ HeapView!Next
<1>1. /\ Sound(Swept.p) /\ Deferred(Swept.p, Swept.q)
      /\ HeldOf(Swept.p, Swept.q) = HeldOf(Pool, queue)
      /\ BlocksOf(Swept.p) \subseteq BlocksOf(Pool)
  BY SweptSound
<1>2. /\ slots' = Swept.p.slots /\ index' = Swept.p.index /\ curNumSlots' = Swept.p.cur
      /\ queue' = Swept.q /\ freeTimer' = freeTimer
  BY DEF Tick, Become
<1>3. Pool' = Swept.p
  BY <1>1, <1>2, Becomes, SoundIsPool
<1>4. freeTimer' \in {0, 2}
  BY <1>2 DEF IInv
<1> QED
  BY <1>1, <1>2, <1>3, <1>4, ReclaimStep

LEMMA SetTimerStep ==
    ASSUME IInv, NEW state \in {0, 2}, SetTimer(state)
    PROVE  IInv' /\ [HeapView!Next]_(HeapView!vars)
<1>1. freeTimer' \in {0, 2}
  BY DEF SetTimer
<1>2. CASE state = 0
  <2>1. Sound(Flushed) /\ BlocksOf(Flushed) = HeldOf(Pool, queue)
    BY FlushedSound
  <2>2. /\ slots' = Flushed.slots /\ index' = Flushed.index /\ curNumSlots' = Flushed.cur
        /\ queue' = <<>>
    BY <1>2 DEF SetTimer, Flush, Become
  <2>3. Pool' = Flushed
    BY <2>1, <2>2, Becomes, SoundIsPool
  <2>4. queue' \in Seq(Waiting) /\ Len(queue') = 0
    BY <2>2, EmptySeq
  <2>5. 1 .. 0 = {}
    OBVIOUS
  <2>6. Deferred(Pool', queue') /\ HeldOf(Pool', queue') = BlocksOf(Pool')
    BY <2>4, <2>5 DEF Deferred, HeldOf
  <2>7. HeldOf(Pool, queue) \subseteq BlocksOf(Pool)
    BY DEF HeldOf
  <2> QED
    BY <1>1, <2>1, <2>3, <2>6, <2>7, ReclaimStep
<1>3. CASE state # 0
  <2>1. UNCHANGED <<slots, index, curNumSlots, queue>>
    BY <1>3 DEF SetTimer
  <2>2. Pool' = Pool /\ queue' = queue
    BY <2>1 DEF Pool
  <2>3. IInv'
    BY <1>1, <2>2, InvariantNext DEF IInv
  <2> QED
    BY <1>1, <2>2, <2>3, ReclaimStep DEF IInv
<1> QED
  BY <1>2, <1>3

LEMMA FreeStep ==
    ASSUME IInv, NEW i \in Entry, Free(i)
    PROVE  IInv' /\ HeapView!Next
<1>1. PICK p, b : p = Pool /\ b = BlockAt(Pool, i)
  OBVIOUS
<1>2. Sound(p) /\ Deferred(p, queue) /\ freeTimer \in {0, 2}
  BY <1>1 DEF IInv
<1>3. i \in UsedOf(p) /\ b.addr = slots[i].data /\ b.addr \notin Queued
  BY <1>1, <1>2, PoolView DEF Free, BlockAt, Pool
<1>4. b \in BlocksOf(p) /\ b.addr \in 0 .. Units - 1
  <2>1. b \in BlocksOf(p)
    BY <1>1, <1>3 DEF BlocksOf
  <2>2. b \in HeapView!Block
    BY <1>2, <2>1, BlocksApart
  <2> QED
    BY <2>1, <2>2 DEF HeapView!Block
<1>5. /\ queue \in Seq(Waiting) /\ Len(queue) \in Nat
      /\ \A k \in 1 .. Len(queue) : queue[k].addr # b.addr
  BY <1>2, <1>3, LenProperties DEF Deferred, Queued
<1>6. b \in HeldOf(p, queue) /\ \A d \in BlocksOf(p) : d.addr = b.addr <=> d = b
  BY <1>2, <1>4, <1>5, OneBlock DEF HeldOf, Sound
<1>7. /\ Sound(Pool') /\ Deferred(Pool', queue') /\ freeTimer' \in {0, 2}
      /\ HeldOf(Pool', queue') = HeldOf(p, queue) \ {b}
      /\ BlocksOf(Pool') \in {BlocksOf(p), BlocksOf(p) \ {b}}
  <2>1. CASE freeTimer = 0
    <3>1. PICK q : q = FreeAddr(p, b.addr)
      OBVIOUS
    <3>2. Sound(q) /\ BlocksOf(q) = BlocksOf(p) \ {b}
      BY <1>2, <1>4, <3>1, FreeAddrSound
    <3>3. /\ slots' = q.slots /\ index' = q.index /\ curNumSlots' = q.cur
          /\ queue' = queue /\ freeTimer' = freeTimer
      BY <1>1, <1>3, <2>1, <3>1 DEF Free, Become
    <3>4. Pool' = q
      BY <3>2, <3>3, Becomes, SoundIsPool
    <3>5. Deferred(q, queue)
      BY <1>2, <1>5, <3>2 DEF Deferred
    <3>6. HeldOf(q, queue) = HeldOf(p, queue) \ {b}
      BY <3>2 DEF HeldOf
    <3> QED
      BY <1>2, <3>2, <3>3, <3>4, <3>5, <3>6
  <2>2. CASE freeTimer # 0
    <3>1. PICK e : e = [addr |-> b.addr, timer |-> freeTimer]
      OBVIOUS
    <3>2. /\ UNCHANGED <<slots, index, curNumSlots, freeTimer>>
          /\ queue' = Append(queue, e)
      BY <1>3, <2>2, <3>1 DEF Free
    <3>3. Pool' = p
      BY <1>1, <3>2 DEF Pool
    <3>4. e \in Waiting /\ e.addr = b.addr
      BY <1>2, <1>4, <2>2, <3>1 DEF Waiting
    <3>5. /\ queue' \in Seq(Waiting) /\ Len(queue') = Len(queue) + 1
          /\ \A k \in 1 .. Len(queue) : queue'[k] = queue[k]
          /\ queue'[Len(queue) + 1] = e
      BY <1>5, <3>2, <3>4, AppendProperties
    <3>6. PICK r, n : r = queue' /\ n = Len(queue)
      OBVIOUS
    <3>7. /\ r \in Seq(Waiting) /\ Len(r) = n + 1 /\ n \in Nat
          /\ \A k \in 1 .. n : r[k].addr = queue[k].addr /\ r[k].addr # b.addr
          /\ r[n + 1].addr = b.addr
      BY <1>5, <3>4, <3>5, <3>6
    <3>8. \A k \in 1 .. n + 1 : k \in 1 .. n \/ k = n + 1
      BY <3>7
    <3>9. \A k \in 1 .. n + 1 : \E d \in BlocksOf(p) : d.addr = r[k].addr
      BY <1>2, <1>4, <3>6, <3>7, <3>8 DEF Deferred
    <3>10. \A j, k \in 1 .. n + 1 : r[j].addr = r[k].addr => j = k
      BY <1>2, <3>6, <3>7, <3>8 DEF Deferred
    <3>11. Deferred(p, r)
      BY <3>7, <3>9, <3>10 DEF Deferred
    <3>12. HeldOf(p, r) = HeldOf(p, queue) \ {b}
      <4>1. ASSUME NEW d \in BlocksOf(p)
            PROVE  (\A k \in 1 .. Len(r) : r[k].addr # d.addr)
                     <=> (\A k \in 1 .. Len(queue) : queue[k].addr # d.addr) /\ d # b
        <5>1. n + 1 \in 1 .. n + 1 /\ \A k \in 1 .. n : k \in 1 .. n + 1
          BY <3>7
        <5> QED
          BY <1>6, <3>6, <3>7, <3>8, <5>1
      <4> QED
        BY <4>1 DEF HeldOf
    <3> QED
      BY <1>2, <3>2, <3>3, <3>6, <3>11, <3>12
  <2> QED
    BY <2>1, <2>2
<1>8. IInv'
  BY <1>7, InvariantNext
<1>9. /\ Held = HeldOf(p, queue) /\ Parked = BlocksOf(p) \ HeldOf(p, queue)
      /\ Held' = HeldOf(Pool', queue') /\ Parked' = BlocksOf(Pool') \ HeldOf(Pool', queue')
  BY <1>1, <1>8, HeapState, HeapStateNext
<1>10. /\ Held' = Held \ {b} /\ b \in Held \ Held'
       /\ Parked' \in {Parked, Parked \cup {b}}
  BY <1>4, <1>6, <1>7, <1>9
<1>11. HeapView!Free
  BY <1>10 DEF HeapView!Free, Held, Parked
<1> QED
  BY <1>8, <1>11 DEF HeapView!Next

\* The pool starts as one free block behind which every entry is spare.
LEMMA InitSound == Init => IInv /\ HeapView!Init
<1> SUFFICES ASSUME Init PROVE IInv /\ HeapView!Init
  OBVIOUS
<1>1. PICK p : p = Pool
  OBVIOUS
<1>2. /\ p.slots = slots /\ p.index = index /\ p.cur = 1
      /\ p = [slots |-> slots, index |-> index, cur |-> 1]
  BY <1>1 DEF Pool, Init
<1>3. /\ Units \in Nat \ {0} /\ MaxSlots \in Nat \ {0, 1} /\ 0 \in Entry
      /\ None \notin Entry
  BY Constants
<1>4. \A k \in Entry : p.index[k] = k
  BY <1>2 DEF Init
<1>5. \A k \in 1 .. MaxSlots - 1 : k \in Entry
  BY <1>3 DEF Entry
<1>6. Spare(p) = 1 .. MaxSlots - 1
  BY <1>2, <1>4, <1>5 DEF Spare
<1>7. Listed(p) = {0}
  BY <1>3, <1>6 DEF Listed, Entry
<1>8. /\ p.slots[0].data = 0 /\ p.slots[0].size = Units /\ p.slots[0].flags = SlotFree
      /\ p.slots[0].prev = None /\ p.slots[0].next = None
  BY <1>2, <1>3 DEF Init, Unused
<1>9. \A k \in 1 .. MaxSlots - 1 : p.slots[k] = Unused
  BY <1>2, <1>5 DEF Init
<1>10. p \in PoolValue
  <2>1. Unused \in Slot
    BY <1>3 DEF Unused, Slot, Flag
  <2>2. [Unused EXCEPT !.size = Units] \in Slot
    BY <1>3 DEF Unused, Slot, Flag
  <2> DEFINE whole == [Unused EXCEPT !.size = Units]
  <2>3. slots = [k \in Entry |-> IF k = 0 THEN whole ELSE Unused]
    BY DEF Init
  <2> HIDE DEF whole
  <2>4. slots \in [Entry -> Slot]
    BY <2>1, <2>2, <2>3 DEF whole
  <2>5. index \in [Entry -> Entry] /\ 1 \in 1 .. MaxSlots
    BY <1>3 DEF Init
  <2> QED
    BY <1>2, <2>4, <2>5 DEF PoolValue
<1>11. SpareOnce(p)
  BY <1>2, <1>4, <1>5 DEF SpareOnce
<1>12. Forward(p, 0) /\ Backward(p, 0)
  BY <1>3, <1>8 DEF Forward, Backward
<1>13. Linked(p)
  BY <1>3, <1>6, <1>7, <1>8, <1>9, <1>10, <1>11, <1>12 DEF Linked
<1>14. Merged(p)
  BY <1>7, <1>8 DEF Merged, IsFree
<1>15. UsedOf(p) = {}
  BY <1>7, <1>8 DEF UsedOf, SlotFree, SlotUsed
<1>16. BlocksOf(p) = {}
  BY <1>15 DEF BlocksOf
<1>17. queue \in Seq(Waiting) /\ Len(queue) = 0 /\ freeTimer = 2
  BY EmptySeq DEF Init
<1>18. 1 .. 0 = {}
  OBVIOUS
<1>19. Deferred(p, queue)
  BY <1>17, <1>18 DEF Deferred
<1>20. IInv
  BY <1>1, <1>13, <1>14, <1>17, <1>19 DEF IInv, Sound
<1>21. Blocks = {}
  BY <1>1, <1>16, <1>20, PoolView DEF IInv
<1> QED
  BY <1>20, <1>21 DEF HeapView!Init

\* Every step keeps the invariant and is a step of the heap, as long as an
\* entry is left for the split an allocation makes.
LEMMA PoolStep ==
    IInv /\ EntryLeftForSplit /\ [Next]_vars => IInv' /\ [HeapView!Next]_(HeapView!vars)
<1> SUFFICES ASSUME IInv, EntryLeftForSplit, [Next]_vars
             PROVE  IInv' /\ [HeapView!Next]_(HeapView!vars)
  OBVIOUS
<1>1. ASSUME NEW size \in Sizes, Alloc(size)
      PROVE  IInv' /\ HeapView!Next
  BY <1>1, AllocStep
<1>2. ASSUME NEW size \in Sizes, NEW addr \in 0 .. Units - 1, AllocFixed(size, addr)
      PROVE  IInv' /\ HeapView!Next
  BY <1>2, AllocFixedStep
<1>3. ASSUME NEW i \in Entry, Free(i)
      PROVE  IInv' /\ HeapView!Next
  BY <1>3, FreeStep
<1>4. ASSUME NEW state \in {0, 2}, SetTimer(state)
      PROVE  IInv' /\ [HeapView!Next]_(HeapView!vars)
  BY <1>4, SetTimerStep
<1>5. CASE Tick
  BY <1>5, TickStep
<1>6. CASE UNCHANGED vars
  <2>1. Pool' = Pool /\ queue' = queue /\ freeTimer' = freeTimer
    BY <1>6 DEF vars, Pool
  <2> QED
    BY <2>1, ReclaimStep DEF IInv
<1> QED
  BY <1>1, <1>2, <1>3, <1>4, <1>5, <1>6 DEF Next

LEMMA InvariantTypes == IInv => TypeOK
<1> SUFFICES ASSUME IInv PROVE TypeOK
  OBVIOUS
<1>1. /\ slots \in [Entry -> Slot] /\ index \in [Entry -> Entry]
      /\ curNumSlots \in 1 .. MaxSlots
  BY PoolView DEF IInv
<1>2. Slot = [data : 0 .. Units, size : 0 .. Units, flags : {0, 1},
              prev : Entry \cup {None}, next : Entry \cup {None}]
  BY DEF Slot, Flag, SlotFree, SlotUsed
<1>3. queue \in Seq(Waiting) /\ freeTimer \in {0, 2} /\ DOMAIN queue = 1 .. Len(queue)
  BY LenProperties DEF IInv, Deferred
<1>4. ToSet(queue) \subseteq Waiting
  BY <1>3, ElementOfSeq DEF ToSet
<1> QED
  BY <1>1, <1>2, <1>3, <1>4 DEF TypeOK, Waiting

LEMMA InvariantSound == IInv => PoolSound
<1> SUFFICES ASSUME IInv PROVE PoolSound
  OBVIOUS
<1>1. PICK p, c : p = Pool /\ c = Chain(Pool)
  OBVIOUS
<1>2. /\ Sound(p) /\ Linked(p) /\ Merged(p) /\ Deferred(p, queue)
      /\ p.slots = slots /\ p.index = index /\ p.cur = curNumSlots
  BY <1>1, SoundIsPool DEF IInv, Sound, Pool
<1>3. /\ IsPath(p, 0, c) /\ ToSet(c) = Listed(p) /\ Len(c) = p.cur
      /\ Used = UsedOf(p)
  BY <1>1, <1>2, ChainListed, PoolView
<1>4. ExactPartition
  <2>1. PICK n : n = Len(c)
    OBVIOUS
  <2>2. /\ n \in Nat \ {0} /\ c[1] = 0 /\ slots[c[n]].next = None
        /\ \A k \in 1 .. n : c[k] \in Listed(p)
        /\ \A k \in 1 .. n - 1 : slots[c[k]].next = c[k + 1]
    BY <1>2, <1>3, <2>1, ElementOfSeq DEF IsPath
  <2>3. \A i \in Listed(p) : slots[i].size > 0 /\ Forward(p, i) /\ Backward(p, i)
    BY <1>2 DEF Linked
  <2>4. 1 \in 1 .. n /\ n \in 1 .. n /\ \A k \in 1 .. n - 1 : k \in 1 .. n /\ k + 1 \in 1 .. n
    BY <2>2
  <2>5. slots[c[1]].data = 0 /\ slots[c[1]].prev = None
    BY <1>2, <2>2, <2>3, <2>4 DEF Backward
  <2>6. None \notin Listed(p)
    BY ListedIsEntry
  <2>7. slots[c[n]].data + slots[c[n]].size = Units
    BY <1>2, <2>2, <2>3, <2>4, <2>6 DEF Forward
  <2>8. ASSUME NEW k \in 1 .. n - 1
        PROVE  /\ slots[c[k]].size > 0
               /\ slots[c[k + 1]].data = slots[c[k]].data + slots[c[k]].size
               /\ slots[c[k + 1]].prev = c[k]
    <3>1. /\ c[k] \in Listed(p) /\ c[k + 1] \in Listed(p) /\ slots[c[k]].next = c[k + 1]
          /\ slots[c[k]].size > 0 /\ Forward(p, c[k]) /\ c[k + 1] # None
      BY <2>2, <2>3, <2>4, <2>6, <2>8
    <3> QED
      BY <1>2, <3>1 DEF Forward
  <2> QED
    BY <1>1, <1>2, <1>3, <2>1, <2>5, <2>7, <2>8 DEF ExactPartition
<1>5. EntriesConserved
  <2>1. Spare(p) \subseteq Entry
    BY <1>2, SpareIsEntry
  <2> QED
    BY <1>1, <1>2, <1>3, <2>1 DEF EntriesConserved, Spare, Listed
<1>6. Coalesced
  BY <1>1, <1>2, <1>3 DEF Coalesced, Merged
<1>7. QueueRefersToBlocks
  <2>1. \A b \in BlocksOf(p) : \E i \in Used : slots[i].data = b.addr
    BY <1>2, <1>3 DEF BlocksOf, BlockAt
  <2> QED
    BY <1>2, <2>1 DEF Deferred, QueueRefersToBlocks
<1> QED
  BY <1>4, <1>5, <1>6, <1>7 DEF PoolSound

LEMMA PoolInvariant == Spec /\ []EntryLeftForSplit => []IInv
<1>1. Init => IInv
  BY InitSound
<1>2. IInv /\ EntryLeftForSplit /\ [Next]_vars => IInv'
  BY PoolStep
<1> QED
  BY <1>1, <1>2, PTL DEF Spec

\* As long as the array has an entry for the slot a split makes, the fields of
\* the pool and of the free queue keep to their ranges.
THEOREM PoolTypes == Spec /\ []EntryLeftForSplit => []TypeOK
BY PoolInvariant, InvariantTypes, PTL

\* As long as the array has an entry for the slot a split makes, the slot list
\* covers the pool once in address order and can be walked both ways, the rest
\* of the array is spare, free neighbours are merged and every deferred free
\* still refers to its block, whatever splits, merges and sweeps came before.
THEOREM PoolStaysSound == Spec /\ []EntryLeftForSplit => []PoolSound
BY PoolInvariant, InvariantSound, PTL

\* As long as the array has an entry for the slot a split makes, a client's
\* block overlaps no other block and stays its own until the client frees it.
THEOREM PoolIsHeap == Spec /\ []EntryLeftForSplit => HeapSpec
<1>1. Init => HeapView!Init
  BY InitSound
<1>2. IInv /\ EntryLeftForSplit /\ [Next]_vars => [HeapView!Next]_(HeapView!vars)
  BY PoolStep
<1> QED
  BY <1>1, <1>2, PoolInvariant, PTL DEF Spec, HeapSpec, HeapView!Spec

-----------------------------------------------------------------------------
(* When an entry is left for the split.                                    *)

\* A pool whose list shrinks or stays has no more entries in use than before.
LEMMA FewerEntries ==
    ASSUME NEW p, Sound(p), NEW q, Sound(q), Listed(q) \subseteq Listed(p)
    PROVE  q.cur <= p.cur
<1>1. /\ IsFiniteSet(Listed(p)) /\ Cardinality(Listed(p)) = p.cur
      /\ Cardinality(Listed(q)) = q.cur
  BY ListedCount, SoundIsPool
<1> QED
  BY <1>1, FS_Subset

\* Frees never take an entry.
LEMMA FreesTakeNone ==
    ASSUME IInv,
           \/ \E i \in Entry : Free(i)
           \/ \E state \in {0, 2} : SetTimer(state)
           \/ Tick
    PROVE  curNumSlots' <= curNumSlots
<1>1. Sound(Pool) /\ curNumSlots \in 1 .. MaxSlots /\ Pool.cur = curNumSlots
  BY PoolView DEF IInv, Pool
<1>2. MaxSlots \in Nat /\ curNumSlots <= curNumSlots
  BY <1>1, Constants
<1>3. ASSUME NEW i \in Entry, Free(i)
      PROVE  curNumSlots' <= curNumSlots
  <2>1. CASE freeTimer = 0
    <3>1. i \in UsedOf(Pool) /\ BlockAt(Pool, i).addr = slots[i].data
      BY <1>1, <1>3, PoolView DEF Free, BlockAt, Pool
    <3>2. PICK p, q, b : /\ p = Pool /\ b = BlockAt(Pool, i)
                         /\ q = FreeAddr(Pool, slots[i].data)
      OBVIOUS
    <3>3. b \in BlocksOf(p) /\ q = FreeAddr(p, b.addr)
      BY <3>1, <3>2 DEF BlocksOf
    <3>4. Sound(q) /\ Listed(q) \subseteq Listed(p)
      BY <1>1, <3>2, <3>3, FreeAddrSound
    <3>5. curNumSlots' = q.cur
      BY <1>3, <2>1, <3>2 DEF Free, Become
    <3> QED
      BY <1>1, <3>2, <3>4, <3>5, FewerEntries
  <2>2. CASE freeTimer # 0
    BY <1>2, <1>3, <2>2 DEF Free
  <2> QED
    BY <2>1, <2>2
<1>4. ASSUME NEW state \in {0, 2}, SetTimer(state)
      PROVE  curNumSlots' <= curNumSlots
  <2>1. CASE state = 0
    <3>1. curNumSlots' = Flushed.cur
      BY <1>4, <2>1 DEF SetTimer, Flush, Become
    <3> QED
      BY <1>1, <3>1, FlushedSound, FewerEntries
  <2>2. CASE state # 0
    BY <1>2, <1>4, <2>2 DEF SetTimer
  <2> QED
    BY <2>1, <2>2
<1>5. CASE Tick
  <2>1. curNumSlots' = Swept.p.cur
    BY <1>5 DEF Tick, Become
  <2> QED
    BY <1>1, <2>1, SweptSound, FewerEntries
<1> QED
  BY <1>3, <1>4, <1>5

LEMMA TypesNext == IInv' => TypeOK'
BY InvariantTypes, PTL

\* The test both allocators make for a spare entry is enough whenever no call
\* takes two of them: the only call that can is mempool_alloc_fixed of a range
\* inside a free block.
THEOREM OneEntryPerCall ==
    Spec /\ [][curNumSlots' <= curNumSlots + 1]_vars => []EntryLeftForSplit
<1> DEFINE Room == IInv /\ curNumSlots < MaxSlots
           Step == curNumSlots' <= curNumSlots + 1
<1>1. Init => Room
  BY InitSound, Constants DEF Init
<1>2. Room => EntryLeftForSplit
  BY DEF EntryLeftForSplit
<1>3. Room /\ [Next]_vars /\ [Step]_vars => Room'
  <2> SUFFICES ASSUME Room, [Next]_vars, [Step]_vars PROVE Room'
    OBVIOUS
  <2>1. IInv'
    BY <1>2, PoolStep
  <2>2. curNumSlots \in Nat /\ MaxSlots \in Nat /\ curNumSlots' \in Nat
    BY <2>1, InvariantTypes, TypesNext, Constants DEF TypeOK
  <2>3. ASSUME ~OutOfSlots, Step PROVE curNumSlots' < MaxSlots
    BY <2>2, <2>3 DEF OutOfSlots
  <2>4. ASSUME curNumSlots' <= curNumSlots PROVE curNumSlots' < MaxSlots
    BY <2>2, <2>4
  <2>5. CASE UNCHANGED vars
    BY <2>1, <2>2, <2>4, <2>5 DEF vars
  <2>6. ASSUME Next, Step PROVE curNumSlots' < MaxSlots
    <3>1. CASE \/ \E size \in Sizes : Alloc(size)
               \/ \E size \in Sizes, addr \in 0 .. Units - 1 : AllocFixed(size, addr)
      BY <2>3, <2>6, <3>1 DEF Alloc, AllocFixed
    <3>2. CASE \/ \E i \in Entry : Free(i)
               \/ \E state \in {0, 2} : SetTimer(state)
               \/ Tick
      BY <2>4, <3>2, FreesTakeNone
    <3> QED
      BY <2>6, <3>1, <3>2 DEF Next
  <2> QED
    BY <2>1, <2>5, <2>6
<1> HIDE DEF Room
<1> QED
  BY <1>1, <1>2, <1>3, PTL DEF Spec

\* Slots in the list hold at least a unit each, so a list is no longer than
\* the pool is large.
LEMMA ListFitsPool ==
    ASSUME NEW p, Linked(p)
    PROVE  p.cur <= Units
<1> DEFINE at == [i \in Listed(p) |-> p.slots[i].data]
<1>1. \A i \in Listed(p) : p.slots[i].data \in 0 .. Units - 1
  <2> TAKE i \in Listed(p)
  <2>1. p.slots[i].data \in 0 .. Units /\ p.slots[i].size \in 0 .. Units /\ Units \in Nat
    BY ListedIsEntry, SlotTypes, Constants
  <2>2. p.slots[i].size > 0 /\ p.slots[i].data + p.slots[i].size <= Units
    BY DEF Linked
  <2> QED
    BY <2>1, <2>2
<1>2. at \in Injection(Listed(p), 0 .. Units - 1)
  BY <1>1, OneSlot DEF Injection, IsInjective
<1>3. Units \in Nat \ {0} /\ 0 \in Int /\ Units - 1 \in Int
  BY Constants
<1>4. IsFiniteSet(0 .. Units - 1) /\ Cardinality(0 .. Units - 1) = Units
  BY <1>3, FS_Interval
<1> HIDE DEF at
<1>5. Cardinality(Listed(p)) <= Cardinality(0 .. Units - 1)
  BY <1>2, <1>4, FS_Injection
<1> QED
  BY <1>4, <1>5, ListedCount

\* An array with more entries than the pool has units never runs out, whatever
\* the calls.
THEOREM EntriesSuffice ==
    ASSUME Units < MaxSlots
    PROVE  Spec => []EntryLeftForSplit
<1>1. IInv => EntryLeftForSplit
  <2> SUFFICES ASSUME IInv PROVE curNumSlots < MaxSlots
    BY DEF EntryLeftForSplit
  <2>1. Linked(Pool) /\ Pool.cur = curNumSlots
    BY SoundIsPool DEF IInv, Pool
  <2>2. curNumSlots <= Units /\ curNumSlots \in 1 .. MaxSlots
    BY <2>1, ListFitsPool, PoolView DEF IInv
  <2> QED
    BY <2>2, Constants
<1>2. Init => IInv
  BY InitSound
<1>3. IInv /\ EntryLeftForSplit /\ [Next]_vars => IInv'
  BY PoolStep
<1> QED
  BY <1>1, <1>2, <1>3, PTL DEF Spec
=============================================================================
