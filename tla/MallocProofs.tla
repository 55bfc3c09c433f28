---------------------------- MODULE MallocProofs ----------------------------
(***************************************************************************)
(* Proofs about the heap (Malloc): as long as the CPU uses no outdated     *)
(* translation, regions never overlap, each is backed by frames of its     *)
(* own, the headers and the free lists agree with what is handed out, and  *)
(* no ASSERT fails.                                                        *)
(***************************************************************************)
EXTENDS Malloc, FiniteSetTheorems, TLAPS

----------------------------------------------------------------------------
\* What \div gives.
LEMMA Quotient ==
    ASSUME NEW u \in Nat, NEW s \in Nat \ {0}
    PROVE  /\ u \div s \in Nat
           /\ (u \div s) * s <= u
           /\ u < (u \div s) * s + s
BY Z3

LEMMA QuotientUnique ==
    ASSUME NEW n \in Nat \ {0}, NEW p \in Nat, NEW x \in 0..n - 1
    PROVE  (p * n + x) \div n = p
BY Z3

LEMMA Multiples ==
    ASSUME NEW s \in Nat \ {0}, NEW i \in Nat, NEW j \in Nat, i < j
    PROVE  i * s + s <= j * s
BY Z3

\* The members of a finite set of numbers are numbered in order, from 0.
LEMMA Ranks ==
    ASSUME NEW S, IsFiniteSet(S), S \subseteq Nat
    PROVE  /\ \A x \in S : Rank(S, x) \in 0..Cardinality(S) - 1
           /\ \A x, y \in S : Rank(S, x) = Rank(S, y) => x = y
           /\ \A i \in 0..Cardinality(S) - 1 : \E x \in S : Rank(S, x) = i
<1> DEFINE below(x) == {y \in S : y < x}
           n == Cardinality(S)
<1>1. n \in Nat /\ \A x \in S : IsFiniteSet(below(x)) /\ below(x) \subseteq S /\ Rank(S, x) \in Nat
  <2>1. n \in Nat BY FS_CardinalityType
  <2>2. ASSUME NEW x \in S PROVE IsFiniteSet(below(x)) /\ below(x) \subseteq S /\ Rank(S, x) \in Nat
    <3>1. below(x) \subseteq S OBVIOUS
    <3>2. IsFiniteSet(below(x)) BY <3>1, FS_Subset
    <3>3. Cardinality(below(x)) \in Nat BY <3>2, FS_CardinalityType
    <3> QED BY <3>1, <3>2, <3>3 DEF Rank
  <2> QED BY <2>1, <2>2
<1>2. \A x, y \in S : x < y => Rank(S, x) < Rank(S, y)
  <2> SUFFICES ASSUME NEW x \in S, NEW y \in S, x < y PROVE Rank(S, x) < Rank(S, y)
    OBVIOUS
  <2>1. below(x) \cup {x} \subseteq below(y) /\ x \notin below(x)
    <3>1. x \in Nat /\ y \in Nat /\ ~(x < x) OBVIOUS
    <3>2. ASSUME NEW z \in S, z < x PROVE z < y
      <4>1. z \in Nat OBVIOUS
      <4> QED BY <3>1, <3>2, <4>1
    <3>3. \A z \in below(x) : z \in below(y) BY <3>2
    <3> QED BY <3>1, <3>3
  <2>2. Cardinality(below(x) \cup {x}) = Cardinality(below(x)) + 1
    BY <1>1, <2>1, FS_AddElement
  <2>3. Cardinality(below(x) \cup {x}) <= Cardinality(below(y))
    BY <2>1, <1>1, FS_Subset
  <2> HIDE DEF below
  <2>4. Cardinality(below(x)) = Rank(S, x) /\ Cardinality(below(y)) = Rank(S, y)
    BY DEF Rank, below
  <2> QED BY <2>2, <2>3, <2>4, <1>1
<1>3. \A x \in S : Rank(S, x) \in 0..n - 1
  <2> SUFFICES ASSUME NEW x \in S PROVE Rank(S, x) \in 0..n - 1
    OBVIOUS
  <2>1. below(x) # S
    <3>1. ~(x < x) BY x \in Nat
    <3> QED BY <3>1
  <2>2. Cardinality(below(x)) <= n /\ Cardinality(below(x)) # n
    BY <1>1, <2>1, FS_Subset
  <2> QED BY <2>2, <1>1 DEF Rank
<1>4. \A x, y \in S : Rank(S, x) = Rank(S, y) => x = y
  <2> SUFFICES ASSUME NEW x \in S, NEW y \in S, x # y PROVE Rank(S, x) # Rank(S, y)
    OBVIOUS
  <2>1. x < y \/ y < x OBVIOUS
  <2>2. Rank(S, x) \in Nat /\ Rank(S, y) \in Nat BY <1>1
  <2>3. Rank(S, x) < Rank(S, y) \/ Rank(S, y) < Rank(S, x) BY <2>1, <1>2
  <2> QED BY <2>2, <2>3
<1>5. ASSUME NEW i \in 0..n - 1 PROVE \E x \in S : Rank(S, x) = i
  <2> DEFINE f == [x \in S |-> Rank(S, x)]
  <2>1. f \in Injection(S, 0..n - 1)
    BY <1>3, <1>4 DEF Injection, IsInjective
  <2>2. IsFiniteSet(0..n - 1) /\ Cardinality(0..n - 1) = n
    BY <1>1, FS_Interval
  <2> HIDE DEF f
  <2>3. f \in Surjection(S, 0..n - 1)
    BY <2>1, <2>2, FS_Injection
  <2>4. \E x \in S : f[x] = i BY <2>3 DEF Surjection
  <2> QED BY <2>4 DEF f
<1> QED BY <1>3, <1>4, <1>5

\* Nth numbers them.
LEMMA NthMember ==
    ASSUME NEW S, IsFiniteSet(S), S \subseteq Nat
    PROVE  /\ \A i \in 0..Cardinality(S) - 1 : Nth(S, i) \in S /\ Rank(S, Nth(S, i)) = i
           /\ \A i, j \in 0..Cardinality(S) - 1 : Nth(S, i) = Nth(S, j) => i = j
           /\ \A x \in S : Rank(S, x) \in 0..Cardinality(S) - 1 /\ Nth(S, Rank(S, x)) = x
<1>1. \A i \in 0..Cardinality(S) - 1 : Nth(S, i) \in S /\ Rank(S, Nth(S, i)) = i
  BY Ranks DEF Nth
<1>2. ASSUME NEW x \in S PROVE Rank(S, x) \in 0..Cardinality(S) - 1 /\ Nth(S, Rank(S, x)) = x
  <2>1. Rank(S, x) \in 0..Cardinality(S) - 1 BY Ranks
  <2>2. Nth(S, Rank(S, x)) \in S /\ Rank(S, Nth(S, Rank(S, x))) = Rank(S, x) BY <1>1, <2>1
  <2>3. \A y, z \in S : Rank(S, y) = Rank(S, z) => y = z BY Ranks
  <2> QED BY <2>1, <2>2, <2>3
<1> QED BY <1>1, <1>2

\* As many as there are have a rank below n.
LEMMA FirstCount ==
    ASSUME NEW S, IsFiniteSet(S), S \subseteq Nat, NEW n \in Nat
    PROVE  LET first == {x \in S : Rank(S, x) < n}
               m == IF n <= Cardinality(S) THEN n ELSE Cardinality(S)
           IN  /\ Cardinality(first) = m
               /\ first = {Nth(S, i) : i \in 0..m - 1}
<1> DEFINE first == {x \in S : Rank(S, x) < n}
           m == IF n <= Cardinality(S) THEN n ELSE Cardinality(S)
           f == [i \in 0..m - 1 |-> Nth(S, i)]
<1>1. Cardinality(S) \in Nat /\ m \in Nat /\ m <= n /\ m <= Cardinality(S)
  BY FS_CardinalityType
<1>2. \A i \in 0..m - 1 : i \in 0..Cardinality(S) - 1 /\ i < n
  BY <1>1
<1>3. \A i \in 0..m - 1 : f[i] \in first
  BY <1>2, NthMember
<1>4. ASSUME NEW x \in first PROVE Rank(S, x) \in 0..m - 1 /\ f[Rank(S, x)] = x
  <2>1. x \in S /\ Rank(S, x) < n /\ Rank(S, x) \in 0..Cardinality(S) - 1 /\ Nth(S, Rank(S, x)) = x
    BY NthMember
  <2>2. Rank(S, x) \in 0..m - 1 BY <2>1, <1>1
  <2> QED BY <2>1, <2>2
<1>5. f \in Injection(0..m - 1, first) /\ f \in Surjection(0..m - 1, first)
  <2>1. \A i, j \in 0..m - 1 : f[i] = f[j] => i = j
    BY <1>2, NthMember
  <2>2. f \in [0..m - 1 -> first] BY <1>3
  <2>3. \A x \in first : \E i \in 0..m - 1 : f[i] = x BY <1>4
  <2> HIDE DEF f, m, first
  <2> QED BY <2>1, <2>2, <2>3 DEF Injection, IsInjective, Surjection
<1>6. IsFiniteSet(0..m - 1) /\ Cardinality(0..m - 1) = m
  <2> HIDE DEF m
  <2>0. m - 1 \in Int /\ 0 \in Int BY <1>1
  <2>1. IsFiniteSet(0..m - 1) /\ Cardinality(0..m - 1) = IF 0 > m - 1 THEN 0 ELSE m - 1 - 0 + 1
    BY <2>0, FS_Interval
  <2> QED BY <2>1, <1>1
<1>7. Cardinality(first) = m
  <2> HIDE DEF f, m, first
  <2>1. Cardinality(first) = Cardinality(0..m - 1)
    BY <1>5, <1>6, FS_Surjection
  <2> QED BY <2>1, <1>6
<1>8. first = {Nth(S, i) : i \in 0..m - 1}
  BY <1>3, <1>4
<1> QED BY <1>7, <1>8

\* A function on 1..n is a sequence.
LEMMA SeqOf ==
    ASSUME NEW T, NEW n \in Nat, NEW f \in [1..n -> T]
    PROVE  f \in Seq(T)
OBVIOUS

\* list_remove() takes out what is in S and nothing else.
LEMMA WithoutElements ==
    ASSUME NEW T, NEW list \in Seq(T), NEW S,
           \A i, j \in DOMAIN list : list[i] = list[j] => i = j
    PROVE  /\ Without(list, S) \in Seq(T)
           /\ \A i, j \in DOMAIN Without(list, S) :
                Without(list, S)[i] = Without(list, S)[j] => i = j
           /\ Range(Without(list, S)) = Range(list) \ S
<1> DEFINE kept == {i \in DOMAIN list : list[i] \notin S}
           n == Cardinality(kept)
           w == Without(list, S)
<1>1. DOMAIN list = 1..Len(list) /\ Len(list) \in Nat
  OBVIOUS
<1>2. IsFiniteSet(kept) /\ kept \subseteq Nat
  <2>1. IsFiniteSet(DOMAIN list) BY <1>1, FS_Interval
  <2>2. kept \subseteq DOMAIN list OBVIOUS
  <2>3. IsFiniteSet(kept) BY <2>1, <2>2, FS_Subset
  <2> QED BY <1>1, <2>2, <2>3
<1>3. n \in Nat
  BY <1>2, FS_CardinalityType
<1>4. w = [j \in 1..n |-> list[Nth(kept, j - 1)]]
  BY DEF Without
<1>5. ASSUME NEW j \in 1..n
      PROVE  /\ j - 1 \in 0..Cardinality(kept) - 1
             /\ Nth(kept, j - 1) \in DOMAIN list
             /\ w[j] = list[Nth(kept, j - 1)] /\ w[j] \notin S /\ w[j] \in T
  <2>1. j - 1 \in 0..Cardinality(kept) - 1 BY <1>3
  <2>2. Nth(kept, j - 1) \in kept
    <3> HIDE DEF kept
    <3> QED BY <2>1, <1>2, NthMember
  <2>3. w[j] = list[Nth(kept, j - 1)] BY <1>4
  <2>4. Nth(kept, j - 1) \in DOMAIN list /\ list[Nth(kept, j - 1)] \notin S BY <2>2
  <2>5. list[Nth(kept, j - 1)] \in T BY <2>4, <1>1
  <2> QED BY <2>1, <2>3, <2>4, <2>5
<1>6. w \in Seq(T)
  <2> HIDE DEF w, n
  <2>1. w \in [1..n -> T] BY <1>4, <1>5
  <2> QED BY <2>1, <1>3
<1>7. DOMAIN w = 1..n
  BY <1>4
<1>8. ASSUME NEW i \in 1..n, NEW j \in 1..n, w[i] = w[j] PROVE i = j
  <2>1. Nth(kept, i - 1) = Nth(kept, j - 1) BY <1>5, <1>8
  <2>2. i - 1 = j - 1
    <3>1. i - 1 \in 0..Cardinality(kept) - 1 /\ j - 1 \in 0..Cardinality(kept) - 1 BY <1>5
    <3> HIDE DEF kept
    <3> QED BY <2>1, <3>1, <1>2, NthMember
  <2> QED BY <2>2
<1>9. Range(w) = Range(list) \ S
  <2>1. ASSUME NEW x \in Range(w) PROVE x \in Range(list) \ S
    <3>1. PICK j \in 1..n : x = w[j] BY <1>7 DEF Range
    <3>2. x = list[Nth(kept, j - 1)] /\ Nth(kept, j - 1) \in DOMAIN list /\ x \notin S
      BY <3>1, <1>5
    <3> HIDE DEF w, kept
    <3> QED BY <3>2 DEF Range
  <2>2. ASSUME NEW x \in Range(list) \ S PROVE x \in Range(w)
    <3>1. PICK i \in DOMAIN list : x = list[i] BY DEF Range
    <3>2. i \in kept BY <3>1
    <3>3. Rank(kept, i) \in 0..Cardinality(kept) - 1 /\ Nth(kept, Rank(kept, i)) = i
      <4> HIDE DEF kept
      <4> QED BY <3>2, <1>2, NthMember
    <3>4. PICK j \in 1..n : Nth(kept, j - 1) = i
      <4>1. Rank(kept, i) + 1 \in 1..n /\ (Rank(kept, i) + 1) - 1 = Rank(kept, i) BY <3>3, <1>3
      <4> QED BY <4>1, <3>3
    <3>5. x = w[j] BY <3>1, <3>4, <1>5
    <3> QED BY <3>5, <1>7 DEF Range
  <2> QED BY <2>1, <2>2
<1> QED BY <1>6, <1>7, <1>8, <1>9

\* The page of an address.
LEMMA PageOfAddress ==
    ASSUME NEW a \in Address
    PROVE  /\ PageOf(a) \in Page
           /\ PageOf(a) * Units <= a /\ a < PageOf(a) * Units + Units
<1>1. Units \in Nat \ {0} /\ NPages \in Nat \ {0} /\ a \in Nat
  BY MallocAssumption DEF Address
<1> DEFINE q == a \div Units
<1>2. q \in Nat /\ q * Units <= a /\ a < q * Units + Units
  BY <1>1, Quotient
<1>3. ~(NPages <= q)
  <2> SUFFICES ASSUME NPages <= q PROVE FALSE
    OBVIOUS
  <2>1. NPages = q \/ NPages < q BY <1>1, <1>2
  <2>2. NPages * Units <= q * Units BY <2>1, <1>1, <1>2, Multiples
  <2>3. a < NPages * Units BY <1>1 DEF Address
  <2> QED BY <1>1, <1>2, <2>2, <2>3
<1> HIDE DEF q
<1>4. q \in 0..NPages - 1 BY <1>1, <1>2, <1>3
<1> QED BY <1>2, <1>4 DEF PageOf, Page, q

\* The addresses of a page.
LEMMA AddressOfPage ==
    ASSUME NEW p \in Page, NEW a \in p * Units..p * Units + Units - 1
    PROVE  a \in Address /\ PageOf(a) = p
<1>1. Units \in Nat \ {0} /\ NPages \in Nat \ {0} /\ p \in Nat /\ p < NPages
  BY MallocAssumption DEF Page
<1>2. p * Units + Units <= NPages * Units
  BY <1>1, Multiples
<1>3. p * Units \in Nat /\ NPages * Units \in Nat
  BY <1>1
<1>4. a \in Address
  BY <1>1, <1>2, <1>3 DEF Address
<1>5. a - p * Units \in 0..Units - 1 /\ p * Units + (a - p * Units) = a
  BY <1>1, <1>3
<1>6. a \div Units = p
  BY <1>1, <1>5, QuotientUnique
<1> QED BY <1>4, <1>6 DEF PageOf

\* The blocks of an arena lie in its page, one behind the other.
LEMMA BlocksInPage ==
    ASSUME NEW p \in Page, NEW s \in Sizes
    PROVE  /\ \A b \in BlocksOf(p, s) :
                /\ b \in Address /\ PageOf(b) = p
                /\ p * Units <= b /\ b + s <= p * Units + Units
           /\ \A b, c \in BlocksOf(p, s) : b # c => b + s <= c \/ c + s <= b
           /\ IsFiniteSet(BlocksOf(p, s))
           /\ Cardinality(BlocksOf(p, s)) = blocks_per_arena(s)
           /\ blocks_per_arena(s) \in Nat \ {0}
           /\ p * Units \in BlocksOf(p, s)
<1> DEFINE m == blocks_per_arena(s)
           at(i) == p * Units + i * s
<1>1. Units \in Nat \ {0} /\ NPages \in Nat \ {0} /\ p \in Nat /\ s \in Nat \ {0} /\ s <= Units
  BY MallocAssumption DEF Page
<1>2. m \in Nat /\ m * s <= Units /\ m # 0
  <2>1. m \in Nat /\ m * s <= Units /\ Units < m * s + s BY <1>1, Quotient DEF blocks_per_arena
  <2>2. m = 0 => m * s = 0 BY <1>1
  <2> QED BY <2>1, <2>2, <1>1
<1> HIDE DEF m
<1>3. BlocksOf(p, s) = {at(i) : i \in 0..m - 1}
  BY DEF BlocksOf, m
<1>4. ASSUME NEW i \in 0..m - 1
      PROVE at(i) \in Nat /\ p * Units <= at(i) /\ at(i) + s <= p * Units + Units
  <2>1. i \in Nat /\ i < m BY <1>2
  <2>2. i * s \in Nat /\ p * Units \in Nat BY <1>1, <2>1
  <2>3. i * s + s <= m * s BY <1>1, <1>2, <2>1, Multiples
  <2>4. i * s + s <= Units BY <1>1, <1>2, <2>2, <2>3
  <2> QED BY <2>2, <2>4, <1>1
<1>5. ASSUME NEW i \in 0..m - 1 PROVE at(i) \in Address /\ PageOf(at(i)) = p
  <2>1. at(i) \in p * Units..p * Units + Units - 1 BY <1>1, <1>4
  <2> QED BY <2>1, AddressOfPage
<1>6. ASSUME NEW i \in 0..m - 1, NEW j \in 0..m - 1, i < j PROVE at(i) + s <= at(j)
  <2>1. i * s + s <= j * s BY <1>1, <1>2, <1>6, Multiples
  <2>2. i * s \in Nat /\ j * s \in Nat /\ p * Units \in Nat BY <1>1, <1>2
  <2> QED BY <2>1, <2>2, <1>1
<1>7. \A i, j \in 0..m - 1 : i # j => at(i) + s <= at(j) \/ at(j) + s <= at(i)
  BY <1>6, <1>2
<1>8. \A i, j \in 0..m - 1 : at(i) = at(j) => i = j
  BY <1>7, <1>4, <1>1
<1>9. IsFiniteSet(BlocksOf(p, s)) /\ Cardinality(BlocksOf(p, s)) = m
  <2> DEFINE f == [i \in 0..m - 1 |-> at(i)]
  <2>1. f \in Surjection(0..m - 1, BlocksOf(p, s))
    <3>1. f \in [0..m - 1 -> BlocksOf(p, s)] /\ \A b \in BlocksOf(p, s) : \E i \in 0..m - 1 : f[i] = b
      BY <1>3
    <3> HIDE DEF f
    <3> QED BY <3>1 DEF Surjection
  <2>2. f \in Injection(0..m - 1, BlocksOf(p, s))
    <3>1. f \in [0..m - 1 -> BlocksOf(p, s)] BY <1>3
    <3>2. \A i, j \in 0..m - 1 : f[i] = f[j] => i = j
      BY <1>8
    <3> HIDE DEF f
    <3> QED BY <3>1, <3>2 DEF Injection, IsInjective
  <2>3. m - 1 \in Int /\ 0 \in Int BY <1>2
  <2>4. IsFiniteSet(0..m - 1) /\ Cardinality(0..m - 1) = IF 0 > m - 1 THEN 0 ELSE m - 1 - 0 + 1
    BY <2>3, FS_Interval
  <2>5. Cardinality(0..m - 1) = m BY <2>4, <1>2
  <2> HIDE DEF f
  <2> QED BY <2>1, <2>2, <2>4, <2>5, FS_Surjection
<1>10. p * Units \in BlocksOf(p, s)
  <2>1. 0 \in 0..m - 1 /\ p * Units + 0 * s = p * Units BY <1>1, <1>2
  <2> QED BY <2>1, <1>3
<1> QED
  <2>1. \A b \in BlocksOf(p, s) :
                /\ b \in Address /\ PageOf(b) = p
                /\ p * Units <= b /\ b + s <= p * Units + Units
    <3> HIDE DEF at
    <3> QED BY <1>3, <1>4, <1>5
  <2>2. \A b, c \in BlocksOf(p, s) : b # c => b + s <= c \/ c + s <= b
    <3> HIDE DEF at
    <3> QED BY <1>3, <1>7
  <2> QED BY <2>1, <2>2, <1>9, <1>10, <1>2 DEF m

----------------------------------------------------------------------------
\* The inductive invariant.  The arena whose header page p holds, NULL if the
\* page is not mapped or holds other data.
arena == [p \in Page |-> IF pte[p] = NULL THEN NULL ELSE header[pte[p]]]

Mapped == {p \in Page : pte[p] # NULL}

\* Pages and frames: each page has a frame of its own, the frames in use are those
\* of the pages, and only they hold headers.
Mapping ==
    /\ Mapped \subseteq vused
    /\ \A p, q \in Mapped : pte[p] = pte[q] => p = q
    /\ pused = {pte[p] : p \in Mapped}
    /\ \A f \in Frame : header[f] # NULL => f \in pused

OfSize(p, s) == p \in Page /\ arena[p] # NULL /\ arena[p].desc = s

\* The free lists hold blocks of mapped arenas of their size, each once.
Lists == \A s \in Sizes :
    /\ \A i, j \in DOMAIN freeList[s] : freeList[s][i] = freeList[s][j] => i = j
    /\ \A b \in Range(freeList[s]) : OfSize(PageOf(b), s) /\ b \in BlocksOf(PageOf(b), s)

\* What is handed out is a block of such an arena, or a run of pages.
Handed == \A r \in live :
    \/ /\ r[2] \in Sizes /\ OfSize(PageOf(r[1]), r[2])
       /\ r[1] \in BlocksOf(PageOf(r[1]), r[2]) /\ r[1] \notin Range(freeList[r[2]])
    \/ /\ OfSize(PageOf(r[1]), NULL)
       /\ r[1] = PageOf(r[1]) * Units /\ r[2] = arena[PageOf(r[1])].cnt * Units

\* An arena of blocks counts its free ones; the others, one at least, are handed out.
Counts == \A p \in Page, s \in Sizes : OfSize(p, s) =>
    /\ arena[p].cnt = Cardinality(BlocksOf(p, s) \cap Range(freeList[s]))
    /\ ~(BlocksOf(p, s) \subseteq Range(freeList[s]))
    /\ \A b \in BlocksOf(p, s) \ Range(freeList[s]) : <<b, s>> \in live

\* A run of pages is mapped, its header is in the first page, and it is handed out.
Runs == \A p \in Page : OfSize(p, NULL) =>
    /\ arena[p].cnt >= 1 /\ p + arena[p].cnt <= NPages
    /\ \A q \in p + 1..p + arena[p].cnt - 1 : q \in Mapped /\ arena[q] = NULL
    /\ <<p * Units, arena[p].cnt * Units>> \in live

\* Unless malloc_page() has failed, no other page is in use.
Whole == ~torn =>
    /\ vused \subseteq Mapped
    /\ \A q \in Mapped : arena[q] = NULL =>
         \E p \in Page : OfSize(p, NULL) /\ q \in p + 1..p + arena[p].cnt - 1

Shape == Mapping /\ Lists /\ Handed /\ Counts /\ Runs /\ Whole

IInv == TypeOK /\ (~stale => fault = "none" /\ Shape)

----------------------------------------------------------------------------
USE MallocAssumption

\* A run of whole pages.
LEMMA RunOfPages ==
    ASSUME NEW p \in Page, NEW n \in Nat \ {0}, p + n <= NPages
    PROVE  /\ \A a \in p * Units..p * Units + n * Units - 1 :
                a \in Address /\ PageOf(a) \in p..p + n - 1
           /\ PageOf(p * Units) = p
           /\ PageOf(p * Units + n * Units - 1) = p + n - 1
           /\ p * Units \in Address /\ n * Units \in 1..NPages * Units
<1> DEFINE m == p + n
           pu == p * Units
           mu == m * Units
           top == NPages * Units
<1>1. Units \in Nat \ {0} /\ NPages \in Nat \ {0} /\ p \in Nat /\ m \in Nat /\ p < m /\ m <= NPages
  BY DEF Page
<1>2. pu \in Nat /\ mu \in Nat /\ top \in Nat /\ pu + Units <= mu /\ n * Units \in Nat
  BY <1>1, Multiples
<1>3. mu <= top
  <2>1. m = NPages \/ m < NPages BY <1>1
  <2>2. m < NPages => mu + Units <= top BY <1>1, Multiples
  <2>3. m = NPages => mu = top OBVIOUS
  <2> HIDE DEF m, mu, top
  <2> QED BY <1>1, <1>2, <2>1, <2>2, <2>3
<1>4. mu = pu + n * Units
  BY <1>1
<1>5. ASSUME NEW a \in pu..mu - 1 PROVE a \in Address /\ PageOf(a) \in p..p + n - 1
  <2>1. a \in Address
    <3>1. a \in 0..top - 1
      <4> HIDE DEF mu, pu, top
      <4> QED BY <1>2, <1>3
    <3> QED BY <3>1 DEF Address
  <2> DEFINE q == PageOf(a)
             qu == q * Units
  <2>2. q \in Nat /\ qu <= a /\ a < qu + Units /\ qu \in Nat
    BY <2>1, <1>1, PageOfAddress DEF Page
  <2> HIDE DEF q
  <2>3. q < p => qu + Units <= pu BY <1>1, <2>2, Multiples
  <2>4. m < q => mu + Units <= qu BY <1>1, <2>2, Multiples
  <2>5. m = q => mu = qu OBVIOUS
  <2> HIDE DEF m, mu, pu, qu
  <2>6. ~(q < p) /\ ~(m < q) /\ ~(m = q) BY <1>1, <1>2, <2>2, <2>3, <2>4, <2>5
  <2>7. q \in p..m - 1 BY <2>6, <2>2, <1>1
  <2>8. m - 1 = p + n - 1 BY <1>1 DEF m
  <2> QED BY <2>1, <2>7, <2>8 DEF q
<1>6. PageOf(pu) = p /\ pu \in Address
  <2>1. pu \in pu..pu + Units - 1 BY <1>1, <1>2
  <2> QED BY <2>1, AddressOfPage
<1>7. PageOf(mu - 1) = p + n - 1
  <2> DEFINE l == m - 1
  <2>1. l \in Page /\ l \in Nat BY <1>1 DEF Page
  <2>2. mu = l * Units + Units BY <1>1
  <2>3. l * Units \in Nat BY <1>1, <2>1
  <2> HIDE DEF mu, l
  <2>4. mu - 1 \in l * Units..l * Units + Units - 1
    <3> DEFINE lu == l * Units
    <3> HIDE DEF lu
    <3>1. mu - 1 \in lu..lu + Units - 1 BY <1>1, <2>2, <2>3 DEF lu
    <3> QED BY <3>1 DEF lu
  <2>5. PageOf(mu - 1) = l BY <2>1, <2>4, AddressOfPage
  <2>6. m - 1 = p + n - 1 BY <1>1
  <2> QED BY <2>5, <2>6 DEF l
<1>8. n * Units \in 1..top
  <2> DEFINE nu == n * Units
  <2> HIDE DEF mu, pu, top, nu
  <2>1. nu \in Nat /\ mu = pu + nu BY <1>2, <1>4 DEF nu
  <2>2. nu \in 1..top BY <2>1, <1>1, <1>2, <1>3
  <2> QED BY <2>2 DEF nu
<1> HIDE DEF mu
<1>9. mu - 1 = p * Units + n * Units - 1
  <2> DEFINE nu == n * Units
  <2>1. mu = pu + nu /\ nu \in Nat BY <1>2, <1>4
  <2> HIDE DEF nu, pu
  <2>2. mu - 1 = pu + nu - 1 BY <2>1, <1>2
  <2> QED BY <2>2 DEF nu, pu
<1>10. \A a \in p * Units..p * Units + n * Units - 1 : a \in Address /\ PageOf(a) \in p..p + n - 1
  BY <1>5, <1>9, Zenon
<1>11. PageOf(p * Units + n * Units - 1) = p + n - 1
  BY <1>7, <1>9, Zenon
<1> QED BY <1>6, <1>8, <1>10, <1>11

\* The frames are finitely many, and so are those that are free.
LEMMA FreeFrames ==
    ASSUME pused \subseteq Frame
    PROVE  /\ IsFiniteSet(Frame \ pused) /\ Frame \ pused \subseteq Nat
           /\ Cardinality(Frame \ pused) \in Nat
<1>1. NFrames - 1 \in Int /\ 0 \in Int /\ Frame \subseteq Nat /\ Frame = 0..NFrames - 1
  BY DEF Frame
<1>2. IsFiniteSet(Frame) BY <1>1, FS_Interval
<1>3. Frame \ pused \subseteq Frame OBVIOUS
<1>4. IsFiniteSet(Frame \ pused) BY <1>2, <1>3, FS_Subset
<1> QED BY <1>1, <1>4, FS_CardinalityType

\* malloc_page() maps free pages to free frames, each to one of its own.
LEMMA PagesTaken ==
    ASSUME TypeOK, Shape, NEW p \in Page, NEW n \in Nat \ {0}, malloc_page(p, n)
    PROVE  LET got == Cardinality(FirstFrames(n))
           IN  /\ got = IF n <= Cardinality(Frame \ pused) THEN n
                        ELSE Cardinality(Frame \ pused)
               /\ got \in Nat /\ got <= n /\ p + n <= NPages
               /\ \A q \in p..p + n - 1 : q \in Page /\ q \notin vused /\ pte[q] = NULL
               /\ fault' = "none"
               /\ pte' \in [Page -> Frame \cup {NULL}]
               /\ vused' \subseteq Page /\ pused' \subseteq Frame
               /\ \A q \in p..p + got - 1 : pte'[q] \in Frame \ pused /\ header[pte'[q]] = NULL
               /\ \A q \in Page \ (p..p + got - 1) : pte'[q] = pte[q]
               /\ Mapped' = Mapped \cup p..p + got - 1
               /\ Mapped' \subseteq vused'
               /\ \A q, r \in Mapped' : pte'[q] = pte'[r] => q = r
               /\ pused' = {pte'[q] : q \in Mapped'}
               /\ pused \subseteq pused'
<1> DEFINE S == Frame \ pused
           got == Cardinality(FirstFrames(n))
           m == IF n <= Cardinality(S) THEN n ELSE Cardinality(S)
<1>0. pused \subseteq Frame /\ vused \subseteq Page /\ pte \in [Page -> Frame \cup {NULL}]
  BY DEF TypeOK
<1>1. IsFiniteSet(S) /\ S \subseteq Nat /\ Cardinality(S) \in Nat
  BY <1>0, FreeFrames
<1> HIDE DEF S
<1>2. got = m /\ FirstFrames(n) = {Nth(S, i) : i \in 0..m - 1}
  <2>1. FirstFrames(n) = {x \in S : Rank(S, x) < n} BY DEF FirstFrames, S
  <2> QED BY <2>1, <1>1, FirstCount
<1> HIDE DEF got
<1>3. got \in Nat /\ got <= n /\ got <= Cardinality(S)
  BY <1>1, <1>2
<1>4. /\ \A i \in 0..got - 1 : NthFree(i) \in S
      /\ \A i, j \in 0..got - 1 : NthFree(i) = NthFree(j) => i = j
      /\ FirstFrames(n) = {NthFree(i) : i \in 0..got - 1}
  <2>1. \A i \in 0..got - 1 : i \in 0..Cardinality(S) - 1 BY <1>1, <1>3
  <2>2. \A i : NthFree(i) = Nth(S, i) BY DEF NthFree, S
  <2> QED BY <2>1, <2>2, <1>1, <1>2, NthMember
<1>5. /\ p \in Nat /\ p + n <= NPages
      /\ \A q \in p..p + n - 1 : q \in Page /\ q \notin vused /\ pte[q] = NULL
  <2>1. p \in Nat /\ NPages \in Nat /\ Page = 0..NPages - 1 BY DEF Page
  <2>2. p + n <= NPages /\ p..p + n - 1 \cap vused = {} BY DEF malloc_page, vaddr_get, Fits
  <2>3. Mapped \subseteq vused BY DEF Shape, Mapping
  <2>4. ASSUME NEW q \in p..p + n - 1 PROVE q \in Page /\ q \notin vused /\ pte[q] = NULL
    <3>1. q \in Page BY <2>1, <2>2
    <3> QED BY <3>1, <2>2, <2>3 DEF Mapped
  <2> QED BY <2>1, <2>2, <2>4
<1>6. p..p + got - 1 \subseteq p..p + n - 1
  BY <1>3, <1>5
<1>7. /\ vused' = vused \cup p..p + n - 1
      /\ pused' = pused \cup FirstFrames(n)
      /\ pte' = [q \in Page |-> IF q \in p..p + got - 1 THEN NthFree(q - p) ELSE pte[q]]
      /\ fault' = "none"
  <2>1. ~ \E q \in p..p + got - 1 : pte[q] # NULL BY <1>5, <1>6
  <2> QED BY <2>1 DEF malloc_page, got
<1>8. ASSUME NEW q \in p..p + got - 1
      PROVE  /\ q - p \in 0..got - 1 /\ q \in Page
             /\ pte'[q] = NthFree(q - p) /\ pte'[q] \in S
  <2>1. q - p \in 0..got - 1 BY <1>3, <1>5
  <2>2. q \in Page BY <1>5, <1>6
  <2> QED BY <2>1, <2>2, <1>4, <1>7
<1>9. \A q \in Page \ (p..p + got - 1) : pte'[q] = pte[q]
  BY <1>7
<1>10. NULL \notin Frame
  BY DEF Frame
<1>11. Mapped' = Mapped \cup p..p + got - 1
  BY <1>8, <1>9, <1>10 DEF Mapped, S
<1>12. pte' \in [Page -> Frame \cup {NULL}]
  <2>1. \A q \in Page : pte'[q] \in Frame \cup {NULL} BY <1>0, <1>8, <1>9 DEF S
  <2> QED BY <2>1, <1>7
<1>13. vused' \subseteq Page /\ pused' \subseteq Frame
  BY <1>0, <1>4, <1>5, <1>7 DEF S
<1>14. \A q \in p..p + got - 1 : pte'[q] \in Frame \ pused /\ header[pte'[q]] = NULL
  BY <1>8 DEF S, Shape, Mapping
<1>15. Mapped' \subseteq vused'
  BY <1>7, <1>11, <1>6 DEF Shape, Mapping
<1>16. \A q \in Mapped : q \notin p..p + got - 1 /\ pte'[q] = pte[q] /\ pte'[q] \in pused
  BY <1>5, <1>6, <1>9 DEF Shape, Mapping, Mapped
<1>17. ASSUME NEW q \in Mapped', NEW r \in Mapped', pte'[q] = pte'[r] PROVE q = r
  <2>1. CASE q \in Mapped /\ r \in Mapped
    BY <2>1, <1>16, <1>17 DEF Shape, Mapping
  <2>2. CASE q \in p..p + got - 1 /\ r \in p..p + got - 1
    <3>1. q - p = r - p BY <2>2, <1>4, <1>8, <1>17
    <3> QED BY <3>1, <2>2, <1>5
  <2>3. CASE q \in Mapped /\ r \in p..p + got - 1
    BY <2>3, <1>14, <1>16, <1>17
  <2>4. CASE r \in Mapped /\ q \in p..p + got - 1
    BY <2>4, <1>14, <1>16, <1>17
  <2> QED BY <2>1, <2>2, <2>3, <2>4, <1>11
<1>18. pused' = {pte'[q] : q \in Mapped'}
  <2>1. pused = {pte'[q] : q \in Mapped} BY <1>16 DEF Shape, Mapping
  <2>2. FirstFrames(n) = {pte'[q] : q \in p..p + got - 1}
    <3>1. \A q \in p..p + got - 1 : pte'[q] \in FirstFrames(n) BY <1>4, <1>8
    <3>2. ASSUME NEW i \in 0..got - 1 PROVE \E q \in p..p + got - 1 : pte'[q] = NthFree(i)
      <4>1. p + i \in p..p + got - 1 /\ (p + i) - p = i BY <1>3, <1>5
      <4> QED BY <4>1, <1>8
    <3> QED BY <3>1, <3>2, <1>4
  <2> QED BY <2>1, <2>2, <1>7, <1>11
<1> QED BY <1>2, <1>3, <1>5, <1>7, <1>9, <1>11, <1>12, <1>13, <1>14, <1>15, <1>17, <1>18 DEF got, S

\* mfree_page() of mapped pages takes them and their frames back.
LEMMA PagesFreed ==
    ASSUME TypeOK, Shape, NEW p \in Page, NEW n \in Nat \ {0}, mfree_page(p, n),
           p..p + n - 1 \subseteq Mapped
    PROVE  /\ pte' \in [Page -> Frame \cup {NULL}]
           /\ header' \in [Frame -> Arena \cup {NULL}]
           /\ vused' = vused \ p..p + n - 1 /\ pused' \subseteq Frame
           /\ Mapped' = Mapped \ p..p + n - 1
           /\ Mapping'
           /\ arena' = [q \in Page |-> IF q \in p..p + n - 1 THEN NULL ELSE arena[q]]
<1> DEFINE run == p..p + n - 1
           freed == {pte[q] : q \in run} \ {NULL}
<1>0. /\ pused \subseteq Frame /\ pte \in [Page -> Frame \cup {NULL}]
      /\ header \in [Frame -> Arena \cup {NULL}]
  BY DEF TypeOK
<1>1. /\ vused' = vused \ run
      /\ pused' = pused \ freed
      /\ pte' = [q \in Page |-> IF q \in run THEN NULL ELSE pte[q]]
      /\ header' = [f \in Frame |-> IF f \in freed THEN NULL ELSE header[f]]
  BY DEF mfree_page
<1>2. run \subseteq Mapped
  OBVIOUS
<1> HIDE DEF run
<1>3. Mapped' = Mapped \ run
  BY <1>1 DEF Mapped
<1>4. \A q \in Mapped' : q \in Mapped /\ q \in Page /\ pte'[q] = pte[q] /\ pte[q] \notin freed
  <2> SUFFICES ASSUME NEW q \in Mapped' PROVE q \in Mapped /\ q \in Page /\ pte'[q] = pte[q] /\ pte[q] \notin freed
    OBVIOUS
  <2>1. q \in Mapped /\ q \in Page /\ pte'[q] = pte[q] BY <1>1, <1>3 DEF Mapped
  <2>2. \A r \in run : pte[r] # pte[q] BY <2>1, <1>2, <1>3 DEF Shape, Mapping
  <2> QED BY <2>1, <2>2
<1>5. freed = {pte[q] : q \in run}
  BY <1>2 DEF Mapped
<1>6. pused' = {pte'[q] : q \in Mapped'}
  <2>1. pused = {pte[q] : q \in Mapped} BY DEF Shape, Mapping
  <2> HIDE DEF freed
  <2>2. \A q \in Mapped : q \in Mapped' \/ q \in run BY <1>3
  <2> QED BY <2>1, <2>2, <1>1, <1>4, <1>5
<1>7. \A f \in Frame : header'[f] # NULL => header'[f] = header[f] /\ f \in pused'
  <2> HIDE DEF freed
  <2> QED BY <1>1 DEF Shape, Mapping
<1>8. Mapping'
  <2>1. Mapped' \subseteq vused' BY <1>1, <1>3 DEF Shape, Mapping
  <2>2. \A q, r \in Mapped' : pte'[q] = pte'[r] => q = r BY <1>4 DEF Shape, Mapping
  <2> QED BY <2>1, <2>2, <1>6, <1>7 DEF Mapping
<1>9. arena' = [q \in Page |-> IF q \in run THEN NULL ELSE arena[q]]
  <2>1. arena' = [q \in Page |-> IF pte'[q] = NULL THEN NULL ELSE header'[pte'[q]]]
    BY DEF arena
  <2>2. ASSUME NEW q \in Page
        PROVE (IF pte'[q] = NULL THEN NULL ELSE header'[pte'[q]]) = IF q \in run THEN NULL ELSE arena[q]
    <3>1. CASE q \in run BY <3>1, <1>1
    <3>2. CASE q \notin run /\ pte[q] = NULL BY <3>2, <1>1 DEF arena
    <3>3. CASE q \notin run /\ pte[q] # NULL
      <4>1. q \in Mapped' /\ pte[q] \in Frame BY <3>3, <1>0, <1>3 DEF Mapped
      <4>2. header'[pte[q]] = header[pte[q]]
        <5> HIDE DEF freed
        <5> QED BY <4>1, <1>4, <1>1
      <4> QED BY <4>1, <4>2, <3>3, <1>4 DEF arena
    <3> QED BY <3>1, <3>2, <3>3
  <2> QED BY <2>1, <2>2
<1>10. pte' \in [Page -> Frame \cup {NULL}] /\ header' \in [Frame -> Arena \cup {NULL}] /\ pused' \subseteq Frame
  <2> HIDE DEF freed
  <2> QED BY <1>0, <1>1
<1> QED BY <1>1, <1>3, <1>8, <1>9, <1>10 DEF run

----------------------------------------------------------------------------
\* The pages of the arena whose header is in page p.
PagesOf(p) == IF arena[p].desc = NULL THEN p..p + arena[p].cnt - 1 ELSE {p}

\* What the invariant says about types.
LEMMA ArenaType ==
    ASSUME TypeOK
    PROVE  /\ \A p \in Page : arena[p] = NULL \/ arena[p] \in Arena
           /\ \A p \in Page : arena[p] # NULL => p \in Mapped
           /\ NULL \notin Sizes /\ NULL \notin Frame /\ Page \subseteq Nat
<1>1. header \in [Frame -> Arena \cup {NULL}] /\ pte \in [Page -> Frame \cup {NULL}]
  BY DEF TypeOK
<1>2. ASSUME NEW p \in Page
      PROVE (arena[p] = NULL \/ arena[p] \in Arena) /\ (arena[p] # NULL => p \in Mapped)
  BY <1>1 DEF arena, Mapped
<1>3. NULL \notin Sizes /\ NULL \notin Frame /\ Page \subseteq Nat
  <2>1. NULL \notin Nat OBVIOUS
  <2>2. Sizes \subseteq Nat OBVIOUS
  <2>3. Frame \subseteq Nat /\ Page \subseteq Nat BY DEF Frame, Page
  <2> QED BY <2>1, <2>2, <2>3
<1> QED BY <1>2, <1>3

\* No page belongs to two arenas.
LEMMA ArenasApart ==
    ASSUME TypeOK, Shape, NEW p \in Page, NEW q \in Page, arena[p] # NULL, arena[q] # NULL,
           NEW x \in PagesOf(p), x \in PagesOf(q)
    PROVE  p = q
<1>1. Page \subseteq Nat /\ arena[p] \in Arena /\ arena[q] \in Arena
  BY ArenaType
<1>2. p \in Nat /\ q \in Nat /\ arena[p].cnt \in Nat /\ arena[q].cnt \in Nat
  BY <1>1 DEF Arena
<1>3. ASSUME NEW a \in Page, arena[a] # NULL, NEW y \in PagesOf(a), y # a
      PROVE  arena[a].desc = NULL /\ y \in a + 1..a + arena[a].cnt - 1 /\ arena[y] = NULL
             /\ \A z \in a + 1..a + arena[a].cnt - 1 : arena[z] = NULL
  <2>1. arena[a].desc = NULL /\ y \in a..a + arena[a].cnt - 1 BY <1>3 DEF PagesOf
  <2>2. a \in Nat /\ arena[a].cnt \in Nat BY <1>3, ArenaType DEF Arena
  <2>3. y \in a + 1..a + arena[a].cnt - 1 BY <2>1, <2>2, <1>3
  <2> QED BY <2>1, <2>3, <1>3 DEF Shape, Runs, OfSize
<1>4. CASE x = p \/ x = q
  BY <1>3, <1>4
<1>5. CASE x # p /\ x # q
  <2>1. /\ x \in p + 1..p + arena[p].cnt - 1 /\ x \in q + 1..q + arena[q].cnt - 1
        /\ \A z \in p + 1..p + arena[p].cnt - 1 : arena[z] = NULL
        /\ \A z \in q + 1..q + arena[q].cnt - 1 : arena[z] = NULL
    BY <1>3, <1>5
  <2>2. p < q => q \in p + 1..p + arena[p].cnt - 1 BY <2>1, <1>2
  <2>3. q < p => p \in q + 1..q + arena[q].cnt - 1 BY <2>1, <1>2
  <2> QED BY <2>1, <2>2, <2>3, <1>2
<1> QED BY <1>4, <1>5

\* What is handed out, by its size.
LEMMA HandedKind ==
    ASSUME TypeOK, Shape, NEW r \in live
    PROVE  LET p == PageOf(r[1])
           IN  /\ r = <<r[1], r[2]>> /\ r[1] \in Address /\ r[2] \in 1..NPages * Units
               /\ p \in Page /\ p \in Mapped /\ arena[p] # NULL /\ arena[p] \in Arena
               /\ \/ /\ arena[p].desc = r[2] /\ r[2] \in Sizes
                     /\ r[1] \in BlocksOf(p, r[2]) /\ r[1] \notin Range(freeList[r[2]])
                  \/ /\ arena[p].desc = NULL /\ r[1] = p * Units /\ r[2] = arena[p].cnt * Units
                     /\ arena[p].cnt \in Nat \ {0} /\ p + arena[p].cnt <= NPages
<1> DEFINE p == PageOf(r[1])
<1>1. r = <<r[1], r[2]>> /\ r[1] \in Address /\ r[2] \in 1..NPages * Units
  BY DEF TypeOK
<1>2. p \in Page
  BY <1>1, PageOfAddress
<1> HIDE DEF p
<1>3. \/ /\ r[2] \in Sizes /\ OfSize(p, r[2])
         /\ r[1] \in BlocksOf(p, r[2]) /\ r[1] \notin Range(freeList[r[2]])
      \/ OfSize(p, NULL) /\ r[1] = p * Units /\ r[2] = arena[p].cnt * Units
  BY DEF Shape, Handed, p
<1>4. p \in Mapped /\ arena[p] # NULL /\ arena[p] \in Arena
  BY <1>2, <1>3, ArenaType DEF OfSize
<1>5. OfSize(p, NULL) => arena[p].cnt \in Nat \ {0} /\ p + arena[p].cnt <= NPages
  <2> SUFFICES ASSUME OfSize(p, NULL) PROVE arena[p].cnt \in Nat \ {0} /\ p + arena[p].cnt <= NPages
    OBVIOUS
  <2>1. arena[p].cnt >= 1 /\ p + arena[p].cnt <= NPages BY <1>2 DEF Shape, Runs
  <2>2. arena[p].cnt \in Nat BY <1>4 DEF Arena
  <2> QED BY <2>1, <2>2
<1>6. \A s : OfSize(p, s) => arena[p].desc = s
  BY DEF OfSize
<1> QED BY <1>1, <1>2, <1>3, <1>4, <1>5, <1>6 DEF p

\* The addresses of what is handed out are in the pages of its arena, which are
\* all mapped.
LEMMA HandedPages ==
    ASSUME TypeOK, Shape, NEW r \in live
    PROVE  LET p == PageOf(r[1])
           IN  /\ \A a \in r[1]..r[1] + r[2] - 1 : a \in Address /\ PageOf(a) \in PagesOf(p)
               /\ p..PageOf(r[1] + r[2] - 1) = PagesOf(p)
               /\ PagesOf(p) \subseteq Mapped
               /\ r[1] \in r[1]..r[1] + r[2] - 1
<1> DEFINE p == PageOf(r[1])
           b == r[1]
           l == r[2]
<1>0. r = <<b, l>> /\ b \in Address /\ l \in 1..NPages * Units /\ p \in Page /\ p \in Mapped
      /\ arena[p] # NULL /\ arena[p] \in Arena
  BY HandedKind
<1>1. b \in Nat /\ l \in Nat \ {0} /\ p \in Nat /\ Units \in Nat \ {0}
  BY <1>0 DEF Address, Page
<1>2. b \in b..b + l - 1
  BY <1>1
<1>3. CASE arena[p].desc = l /\ l \in Sizes /\ b \in BlocksOf(p, l)
  <2>1. p * Units <= b /\ b + l <= p * Units + Units BY <1>0, <1>3, BlocksInPage
  <2>2. PagesOf(p) = {p} BY <1>3, ArenaType DEF PagesOf
  <2>3. ASSUME NEW a \in b..b + l - 1 PROVE a \in Address /\ PageOf(a) = p
    <3> DEFINE pu == p * Units
    <3>1. pu \in Nat BY <1>1
    <3> HIDE DEF p, b, l, pu
    <3>2. a \in pu..pu + Units - 1 BY <2>1, <3>1, <1>1 DEF pu
    <3>3. a \in p * Units..p * Units + Units - 1 BY <3>2 DEF pu
    <3> QED BY <3>3, <1>0, AddressOfPage
  <2>4. b + l - 1 \in b..b + l - 1 BY <1>1
  <2>5. PageOf(b + l - 1) = p BY <2>3, <2>4
  <2>6. p..p = {p} BY <1>1
  <2> HIDE DEF p, b, l
  <2>7. p..PageOf(b + l - 1) = PagesOf(p) BY <2>2, <2>5, <2>6
  <2>8. /\ \A a \in b..b + l - 1 : a \in Address /\ PageOf(a) \in PagesOf(p)
        /\ PagesOf(p) \subseteq Mapped
    BY <2>2, <2>3, <1>0
  <2> QED BY <2>7, <2>8, <1>2 DEF p, b, l
<1>4. CASE arena[p].desc = NULL /\ b = p * Units /\ l = arena[p].cnt * Units
           /\ arena[p].cnt \in Nat \ {0} /\ p + arena[p].cnt <= NPages
  <2> DEFINE n == arena[p].cnt
  <2>1. /\ \A a \in p * Units..p * Units + n * Units - 1 : PageOf(a) \in p..p + n - 1 /\ a \in Address
        /\ PageOf(p * Units + n * Units - 1) = p + n - 1
    BY <1>0, <1>4, RunOfPages
  <2>2. PagesOf(p) = p..p + n - 1 BY <1>4 DEF PagesOf
  <2>3. p..p + n - 1 \subseteq Mapped
    <3>1. \A q \in p + 1..p + n - 1 : q \in Mapped BY <1>0, <1>4 DEF Shape, Runs, OfSize
    <3>2. \A q \in p..p + n - 1 : q = p \/ q \in p + 1..p + n - 1 BY <1>1, <1>4
    <3> QED BY <3>1, <3>2, <1>0
  <2> HIDE DEF p, b, l, n
  <2>4. b = p * Units /\ l = n * Units BY <1>4 DEF n
  <2>5. /\ \A a \in b..b + l - 1 : PageOf(a) \in p..p + n - 1 /\ a \in Address
        /\ PageOf(b + l - 1) = p + n - 1
    BY <2>1, <2>4, Zenon
  <2>6. p..PageOf(b + l - 1) = PagesOf(p) /\ PagesOf(p) \subseteq Mapped
    <3>1. p..PageOf(b + l - 1) = p..p + n - 1 BY <2>5, Zenon
    <3> QED BY <2>2, <2>3, <3>1, Zenon
  <2>7. \A a \in b..b + l - 1 : a \in Address /\ PageOf(a) \in PagesOf(p)
    BY <2>2, <2>5, Zenon
  <2> QED BY <2>6, <2>7, <1>2 DEF p, b, l
<1> QED BY <1>3, <1>4, HandedKind

\* Two regions have no address in common.
Apart == \A r, t \in live : r # t => (r[1]..r[1] + r[2] - 1) \cap (t[1]..t[1] + t[2] - 1) = {}

LEMMA LiveApart == TypeOK /\ Shape => Apart
<1> SUFFICES ASSUME TypeOK, Shape, NEW r \in live, NEW t \in live,
                    NEW a \in r[1]..r[1] + r[2] - 1, a \in t[1]..t[1] + t[2] - 1
             PROVE  r = t
  BY DEF Apart
<1> DEFINE p == PageOf(r[1])
           q == PageOf(t[1])
<1>1. p \in Page /\ q \in Page /\ arena[p] # NULL /\ arena[q] # NULL
  BY HandedKind
<1>2. PageOf(a) \in PagesOf(p) /\ PageOf(a) \in PagesOf(q)
  BY HandedPages
<1>3. p = q
  BY <1>1, <1>2, ArenasApart
<1>4. r = <<r[1], r[2]>> /\ t = <<t[1], t[2]>>
  BY HandedKind
<1>5. CASE arena[p].desc = NULL
  <2>1. r[1] = p * Units /\ r[2] = arena[p].cnt * Units
    BY <1>5, HandedKind, ArenaType
  <2>2. t[1] = p * Units /\ t[2] = arena[p].cnt * Units
    BY <1>3, <1>5, HandedKind, ArenaType
  <2> QED BY <2>1, <2>2, <1>4
<1>6. CASE arena[p].desc # NULL
  <2>1. /\ arena[p].desc = r[2] /\ r[2] \in Sizes /\ r[1] \in BlocksOf(p, r[2])
        /\ t[2] = r[2] /\ t[1] \in BlocksOf(p, r[2])
    BY <1>3, <1>6, HandedKind
  <2>2. r[1] # t[1] => r[1] + r[2] <= t[1] \/ t[1] + r[2] <= r[1]
    BY <1>1, <2>1, BlocksInPage
  <2>3. r[1] \in Nat /\ t[1] \in Nat /\ r[2] \in Nat
    BY HandedKind DEF Address
  <2>4. r[1] = t[1]
    BY <2>1, <2>2, <2>3
  <2> QED BY <2>1, <2>4, <1>4
<1> QED BY <1>5, <1>6

----------------------------------------------------------------------------
\* An access through a translation in date reads the page that is meant.
LEMMA AccessSees ==
    ASSUME TypeOK, NEW p \in Page, NEW table \in [Page -> Frame \cup {NULL}], Access(p, table)
    PROVE  /\ tlb' \in [Page -> Frame \cup {NULL}] /\ stale' \in BOOLEAN
           /\ Seen(p, table) \in Frame \cup {NULL}
           /\ table[p] # NULL => Seen(p, table) \in Frame
           /\ ~stale' => ~stale /\ Seen(p, table) = table[p]
BY DEF TypeOK, Access, Seen

\* A header is written in the frame of page p, which has it alone.
LEMMA HeaderWritten ==
    ASSUME NEW p \in Page, NEW v, p \in Mapped',
           pte' \in [Page -> Frame \cup {NULL}], header \in [Frame -> Arena \cup {NULL}],
           \A q, r \in Mapped' : pte'[q] = pte'[r] => q = r,
           header' = [header EXCEPT ![pte'[p]] = v],
           \A q \in Page : arena[q] = IF pte'[q] = NULL THEN NULL ELSE header[pte'[q]]
    PROVE  arena' = [arena EXCEPT ![p] = v]
<1>1. arena' = [q \in Page |-> IF pte'[q] = NULL THEN NULL ELSE header'[pte'[q]]]
  BY DEF arena
<1>2. DOMAIN arena = Page
  BY DEF arena
<1>3. ASSUME NEW q \in Page
      PROVE (IF pte'[q] = NULL THEN NULL ELSE header'[pte'[q]]) = IF q = p THEN v ELSE arena[q]
  <2>1. CASE q = p BY <2>1 DEF Mapped
  <2>2. CASE q # p /\ pte'[q] = NULL BY <2>2
  <2>3. CASE q # p /\ pte'[q] # NULL
    <3>1. pte'[q] # pte'[p] BY <2>3 DEF Mapped
    <3>2. pte'[q] \in Frame BY <2>3
    <3> QED BY <3>1, <3>2, <2>3
  <2> QED BY <2>1, <2>2, <2>3
<1> QED BY <1>1, <1>2, <1>3

----------------------------------------------------------------------------
\* Every action keeps the invariant.  A run of pages is handed out: its header is
\* in the first, and the others show none.
LEMMA MallocLargeKept ==
    ASSUME IInv, NEW p \in Page, NEW n \in LargeCnts, MallocLarge(p, n)
    PROVE  IInv'
<1> DEFINE run == p..p + n - 1
           a == [desc |-> NULL, cnt |-> n]
           r0 == <<p * Units, n * Units>>
<1>1. TypeOK /\ Shape /\ fault = "none" /\ n \in Nat \ {0} /\ malloc_page(p, n)
  BY DEF IInv, MallocLarge, malloc_page, Sound
<1>2. n <= Cardinality(Frame \ pused)
  BY <1>1, FreeFrames DEF MallocLarge, TypeOK
<1>3. /\ Cardinality(FirstFrames(n)) = n /\ p + n <= NPages
      /\ \A q \in run : q \in Page /\ q \notin vused /\ pte[q] = NULL
      /\ fault' = "none"
      /\ pte' \in [Page -> Frame \cup {NULL}] /\ vused' \subseteq Page /\ pused' \subseteq Frame
      /\ \A q \in run : pte'[q] \in Frame \ pused /\ header[pte'[q]] = NULL
      /\ \A q \in Page \ run : pte'[q] = pte[q]
      /\ Mapped' = Mapped \cup run /\ Mapped' \subseteq vused'
      /\ \A q, r \in Mapped' : pte'[q] = pte'[r] => q = r
      /\ pused' = {pte'[q] : q \in Mapped'} /\ pused \subseteq pused'
  BY <1>1, <1>2, PagesTaken
<1>4. /\ UNCHANGED <<freeList, torn>> /\ live' = live \cup {r0}
      /\ vused' = vused \cup run
  BY DEF MallocLarge, malloc_page
<1>5. /\ header' = [header EXCEPT ![Seen(p, pte')] = a]
      /\ tlb' \in [Page -> Frame \cup {NULL}] /\ stale' \in BOOLEAN
      /\ pte'[p] # NULL /\ Seen(p, pte') \in Frame
      /\ ~stale' => ~stale /\ Seen(p, pte') = pte'[p]
  <2>1. p \in run BY <1>1 DEF Page
  <2>2. pte'[p] # NULL BY <2>1, <1>3, ArenaType, <1>1
  <2>3. Access(p, pte') BY DEF MallocLarge
  <2>4. header' = [header EXCEPT ![Seen(p, pte')] = a] BY DEF MallocLarge
  <2> QED BY <2>2, <2>3, <2>4, <1>1, <1>3, AccessSees
<1>6. /\ PageOf(p * Units) = p /\ p * Units \in Address /\ n * Units \in 1..NPages * Units
      /\ p \in Nat /\ p \in run
  BY <1>1, <1>3, RunOfPages DEF Page
<1>7. a \in Arena /\ a # NULL
  BY <1>1 DEF Arena
<1>8. TypeOK'
  <2>0. header \in [Frame -> Arena \cup {NULL}] BY <1>1 DEF TypeOK
  <2>1. header' \in [Frame -> Arena \cup {NULL}] BY <2>0, <1>5, <1>7, Zenon
  <2>2. live' \subseteq Address \X (1..NPages * Units) BY <1>1, <1>4, <1>6 DEF TypeOK
  <2> QED BY <1>1, <1>3, <1>4, <1>5, <2>1, <2>2 DEF TypeOK
<1>9. ASSUME ~stale' PROVE Shape'
  <2> HIDE DEF run, a, r0
  <2>1. header' = [header EXCEPT ![pte'[p]] = a] BY <1>5, <1>9
  <2>2. \A q \in Page : arena[q] = IF pte'[q] = NULL THEN NULL ELSE header[pte'[q]]
    BY <1>3 DEF arena
  <2>3. arena' = [arena EXCEPT ![p] = a]
    BY <2>1, <2>2, <1>1, <1>3, <1>6, HeaderWritten DEF TypeOK
  <2>4. /\ \A q \in Page : arena'[q] = IF q = p THEN a ELSE arena[q]
        /\ \A q \in run : q \in Page /\ arena[q] = NULL
    BY <2>3, <1>3 DEF arena
  <2>5. \A q, s : OfSize(q, s) => q # p /\ q \notin run /\ OfSize(q, s)' /\ arena'[q] = arena[q]
    BY <2>4, <1>6 DEF OfSize
  <2>6. a.desc = NULL /\ a.cnt = n /\ OfSize(p, NULL)' /\ arena'[p] = a
    BY <2>4, <1>7 DEF OfSize, a
  <2>7. \A q, s : OfSize(q, s)' => (q = p /\ s = NULL) \/ (OfSize(q, s) /\ arena'[q] = arena[q])
    BY <2>4, <2>6 DEF OfSize
  <2>8. Mapping'
    <3>1. \A f \in Frame : header'[f] # NULL => f \in pused'
      BY <2>1, <1>1, <1>3, <1>6 DEF TypeOK, Shape, Mapping
    <3> QED BY <3>1, <1>3 DEF Mapping
  <2>9. Lists'
    BY <2>5, <1>1, <1>4 DEF Shape, Lists
  <2>10. Handed'
    <3>1. ASSUME NEW r \in live
          PROVE \/ /\ r[2] \in Sizes /\ OfSize(PageOf(r[1]), r[2])'
                   /\ r[1] \in BlocksOf(PageOf(r[1]), r[2]) /\ r[1] \notin Range(freeList'[r[2]])
                \/ /\ OfSize(PageOf(r[1]), NULL)'
                   /\ r[1] = PageOf(r[1]) * Units /\ r[2] = arena'[PageOf(r[1])].cnt * Units
      BY <2>5, <1>1, <1>4 DEF Shape, Handed
    <3>2. OfSize(PageOf(r0[1]), NULL)' /\ r0[1] = PageOf(r0[1]) * Units
          /\ r0[2] = arena'[PageOf(r0[1])].cnt * Units
      BY <2>6, <1>6 DEF r0
    <3> QED BY <3>1, <3>2, <1>4 DEF Handed
  <2>11. Counts'
    <3> SUFFICES ASSUME NEW q \in Page, NEW s \in Sizes, OfSize(q, s)'
                 PROVE  /\ arena'[q].cnt = Cardinality(BlocksOf(q, s) \cap Range(freeList'[s]))
                        /\ ~(BlocksOf(q, s) \subseteq Range(freeList'[s]))
                        /\ \A b \in BlocksOf(q, s) \ Range(freeList'[s]) : <<b, s>> \in live'
      BY DEF Counts
    <3>1. OfSize(q, s) /\ arena'[q] = arena[q] BY <2>7, <1>1, ArenaType
    <3> QED BY <3>1, <1>1, <1>4 DEF Shape, Counts
  <2>12. Runs'
    <3> SUFFICES ASSUME NEW q \in Page, OfSize(q, NULL)'
                 PROVE  /\ arena'[q].cnt >= 1 /\ q + arena'[q].cnt <= NPages
                        /\ \A x \in q + 1..q + arena'[q].cnt - 1 : x \in Mapped' /\ arena'[x] = NULL
                        /\ <<q * Units, arena'[q].cnt * Units>> \in live'
      BY DEF Runs
    <3>1. CASE q = p
      <4>1. arena'[q].cnt = n /\ n >= 1 /\ q + n <= NPages BY <3>1, <2>6, <1>1, <1>3
      <4>2. ASSUME NEW x \in q + 1..q + n - 1 PROVE x \in Mapped' /\ arena'[x] = NULL
        <5>1. x \in run /\ x # p BY <3>1, <1>1, <1>6 DEF run
        <5> QED BY <5>1, <2>4, <1>3
      <4> QED BY <4>1, <4>2, <3>1, <1>4 DEF r0
    <3>2. CASE OfSize(q, NULL) /\ arena'[q] = arena[q]
      <4>1. /\ arena'[q].cnt >= 1 /\ q + arena'[q].cnt <= NPages
            /\ \A x \in q + 1..q + arena'[q].cnt - 1 : x \in Mapped /\ arena[x] = NULL
            /\ <<q * Units, arena'[q].cnt * Units>> \in live
        BY <3>2, <1>1 DEF Shape, Runs
      <4>2. \A x \in Mapped : x \in Page /\ x # p BY <1>3, <1>6 DEF Mapped
      <4> QED BY <4>1, <4>2, <2>4, <1>3, <1>4
    <3> QED BY <3>1, <3>2, <2>7
  <2>13. Whole'
    <3> SUFFICES ASSUME ~torn'
                 PROVE  /\ vused' \subseteq Mapped'
                        /\ \A q \in Mapped' : arena'[q] = NULL =>
                             \E x \in Page : OfSize(x, NULL)' /\ q \in x + 1..x + arena'[x].cnt - 1
      BY DEF Whole
    <3>1. /\ vused \subseteq Mapped
          /\ \A q \in Mapped : arena[q] = NULL =>
               \E x \in Page : OfSize(x, NULL) /\ q \in x + 1..x + arena[x].cnt - 1
      BY <1>1, <1>4 DEF Shape, Whole
    <3>2. vused' \subseteq Mapped' BY <3>1, <1>3, <1>4
    <3>3. ASSUME NEW q \in Mapped', arena'[q] = NULL
          PROVE  \E x \in Page : OfSize(x, NULL)' /\ q \in x + 1..x + arena'[x].cnt - 1
      <4>1. CASE q \in Mapped
        <5>1. q \in Page /\ q # p BY <4>1, <1>3, <1>6 DEF Mapped
        <5>2. PICK x \in Page : OfSize(x, NULL) /\ q \in x + 1..x + arena[x].cnt - 1
          BY <5>1, <4>1, <3>1, <3>3, <2>4
        <5> QED BY <5>2, <2>5
      <4>2. CASE q \in run
        <5>1. q # p BY <3>3, <2>6, <1>7 DEF a
        <5>2. q \in p + 1..p + arena'[p].cnt - 1 BY <5>1, <4>2, <2>6, <1>1, <1>6 DEF run
        <5> QED BY <5>2, <2>6
      <4> QED BY <4>1, <4>2, <1>3
    <3> QED BY <3>2, <3>3
  <2> QED BY <2>8, <2>9, <2>10, <2>11, <2>12, <2>13 DEF Shape
<1> QED BY <1>3, <1>8, <1>9 DEF IInv

\* malloc_page() fails: pages stay mapped that nobody knows of.
LEMMA FailureKept ==
    ASSUME IInv, NEW p \in Page, NEW n \in LargeCnts \cup {1}, malloc_page_Fails(p, n)
    PROVE  IInv'
<1> DEFINE got == Cardinality(FirstFrames(n))
           run == p..p + got - 1
<1>1. TypeOK /\ Shape /\ fault = "none" /\ n \in Nat \ {0} /\ malloc_page(p, n)
  BY DEF IInv, malloc_page_Fails, malloc_page, Sound
<1>2. /\ got \in Nat /\ got <= n
      /\ \A q \in p..p + n - 1 : q \in Page /\ q \notin vused /\ pte[q] = NULL
      /\ fault' = "none"
      /\ pte' \in [Page -> Frame \cup {NULL}] /\ vused' \subseteq Page /\ pused' \subseteq Frame
      /\ \A q \in run : pte'[q] \in Frame \ pused /\ header[pte'[q]] = NULL
      /\ \A q \in Page \ run : pte'[q] = pte[q]
      /\ Mapped' = Mapped \cup run /\ Mapped' \subseteq vused'
      /\ \A q, r \in Mapped' : pte'[q] = pte'[r] => q = r
      /\ pused' = {pte'[q] : q \in Mapped'} /\ pused \subseteq pused'
  BY <1>1, PagesTaken
<1> HIDE DEF got
<1>3. UNCHANGED <<header, freeList, live, tlb, stale>> /\ torn' = TRUE
  BY DEF malloc_page_Fails
<1>4. \A q \in run : q \in Page /\ pte[q] = NULL
  BY <1>1, <1>2 DEF Page
<1> HIDE DEF run
<1>5. TypeOK'
  BY <1>1, <1>2, <1>3 DEF TypeOK
<1>6. arena' = arena
  <2>1. arena' = [q \in Page |-> IF pte'[q] = NULL THEN NULL ELSE header[pte'[q]]] BY <1>3 DEF arena
  <2>2. \A q \in Page : (IF pte'[q] = NULL THEN NULL ELSE header[pte'[q]]) = IF pte[q] = NULL THEN NULL ELSE header[pte[q]]
    BY <1>2, <1>4
  <2> QED BY <2>1, <2>2 DEF arena
<1>7. \A q, s : OfSize(q, s)' <=> OfSize(q, s)
  BY <1>6 DEF OfSize
<1>8. Mapping'
  BY <1>1, <1>2, <1>3 DEF Shape, Mapping
<1>9. Lists' /\ Handed' /\ Counts'
  BY <1>1, <1>3, <1>6, <1>7 DEF Shape, Lists, Handed, Counts
<1>10. Runs'
  BY <1>1, <1>2, <1>3, <1>6, <1>7 DEF Shape, Runs
<1>11. Whole'
  BY <1>3 DEF Whole
<1> QED BY <1>2, <1>5, <1>8, <1>9, <1>10, <1>11 DEF IInv, Shape

\* The list of a new arena: all its blocks but the first.
LEMMA ArenaList ==
    ASSUME NEW p \in Page, NEW s \in Sizes, NEW list,
           list = [i \in 1..blocks_per_arena(s) - 1 |-> p * Units + i * s]
    PROVE  /\ list \in Seq(Address)
           /\ \A i, j \in DOMAIN list : list[i] = list[j] => i = j
           /\ Range(list) = BlocksOf(p, s) \ {p * Units}
<1> DEFINE m == blocks_per_arena(s)
           at(i) == p * Units + i * s
<1>1. /\ m \in Nat \ {0} /\ s \in Nat \ {0} /\ p * Units \in Nat
      /\ \A b \in BlocksOf(p, s) : b \in Address
      /\ BlocksOf(p, s) = {at(i) : i \in 0..m - 1}
  <2>1. m \in Nat \ {0} /\ \A b \in BlocksOf(p, s) : b \in Address BY BlocksInPage
  <2>2. s \in Nat \ {0} /\ p * Units \in Nat BY DEF Page
  <2>3. BlocksOf(p, s) = {at(i) : i \in 0..m - 1} BY DEF BlocksOf
  <2> QED BY <2>1, <2>2, <2>3
<1>2. list = [i \in 1..m - 1 |-> at(i)]
  OBVIOUS
<1> HIDE DEF m
<1>3. ASSUME NEW i \in 0..m - 1, NEW j \in 0..m - 1, at(i) = at(j) PROVE i = j
  <2>1. i \in Nat /\ j \in Nat /\ i * s \in Nat /\ j * s \in Nat BY <1>1
  <2>2. i * s = j * s BY <1>1, <1>3, <2>1
  <2>3. i < j => i * s + s <= j * s BY <1>1, <2>1, Multiples
  <2>4. j < i => j * s + s <= i * s BY <1>1, <2>1, Multiples
  <2> QED BY <2>1, <2>2, <2>3, <2>4, <1>1
<1>4. at(0) = p * Units
  BY <1>1
<1>5. \A i \in 1..m - 1 : i \in 0..m - 1 /\ i # 0
  BY <1>1
<1>6. \A i \in 0..m - 1 : i = 0 \/ i \in 1..m - 1
  BY <1>1
<1> HIDE DEF at
<1>7. \A i \in 1..m - 1 : at(i) \in Address
  BY <1>1, <1>5
<1>8. list \in Seq(Address)
  <2> DEFINE k == m - 1
  <2>1. list \in [1..k -> Address] BY <1>2, <1>7
  <2>2. k \in Nat BY <1>1
  <2> HIDE DEF k
  <2> QED BY <2>1, <2>2, SeqOf
<1>9. Range(list) = BlocksOf(p, s) \ {p * Units}
  <2>1. Range(list) = {at(i) : i \in 1..m - 1} BY <1>2 DEF Range
  <2>2. 0 \in 0..m - 1 BY <1>1
  <2>3. \A i \in 1..m - 1 : at(i) \in BlocksOf(p, s) \ {p * Units}
    BY <1>1, <1>3, <1>4, <1>5, <2>2
  <2>4. \A b \in BlocksOf(p, s) \ {p * Units} : \E i \in 1..m - 1 : b = at(i)
    <3> SUFFICES ASSUME NEW b \in BlocksOf(p, s) \ {p * Units} PROVE \E i \in 1..m - 1 : b = at(i)
      OBVIOUS
    <3>1. PICK i \in 0..m - 1 : b = at(i) BY <1>1
    <3>2. b # p * Units OBVIOUS
    <3>3. i # 0 BY <3>1, <3>2, <1>4, Zenon
    <3> QED BY <3>1, <3>3, <1>6
  <2> QED BY <2>1, <2>3, <2>4
<1>10. DOMAIN list = 1..m - 1 /\ \A i \in 1..m - 1 : list[i] = at(i)
  BY <1>2
<1>11. \A i, j \in DOMAIN list : list[i] = list[j] => i = j
  <2> SUFFICES ASSUME NEW i \in 1..m - 1, NEW j \in 1..m - 1, list[i] = list[j] PROVE i = j
    BY <1>10
  <2>1. at(i) = at(j) /\ i \in 0..m - 1 /\ j \in 0..m - 1 BY <1>5, <1>10
  <2> QED BY <2>1, <1>3
<1> QED BY <1>8, <1>9, <1>11

\* A new arena: the first of its blocks is handed out, the others are listed.
LEMMA MallocArenaKept ==
    ASSUME IInv, NEW p \in Page, NEW s \in Sizes, MallocArena(p, s)
    PROVE  IInv'
<1> DEFINE m == blocks_per_arena(s)
           a == [desc |-> s, cnt |-> m - 1]
           r0 == <<p * Units, s>>
           list == [i \in 1..m - 1 |-> p * Units + i * s]
<1>1. TypeOK /\ Shape /\ fault = "none" /\ malloc_page(p, 1) /\ 1 \in Nat \ {0}
  BY DEF IInv, MallocArena, malloc_page, Sound
<1>2. 1 <= Cardinality(Frame \ pused)
  <2>1. IsFiniteSet(Frame \ pused) /\ Cardinality(Frame \ pused) \in Nat BY <1>1, FreeFrames DEF TypeOK
  <2>2. Frame \ pused # {} BY <1>1 DEF MallocArena, TypeOK
  <2>3. Cardinality(Frame \ pused) # 0 BY <2>1, <2>2, FS_EmptySet
  <2> QED BY <2>1, <2>3
<1>3. /\ Cardinality(FirstFrames(1)) = 1 /\ p..p + 1 - 1 = {p}
      /\ p \in Page /\ p \notin vused /\ pte[p] = NULL
      /\ fault' = "none"
      /\ pte' \in [Page -> Frame \cup {NULL}] /\ vused' \subseteq Page /\ pused' \subseteq Frame
      /\ pte'[p] \in Frame /\ header[pte'[p]] = NULL
      /\ \A q \in Page \ {p} : pte'[q] = pte[q]
      /\ Mapped' = Mapped \cup {p} /\ Mapped' \subseteq vused'
      /\ \A q, r \in Mapped' : pte'[q] = pte'[r] => q = r
      /\ pused' = {pte'[q] : q \in Mapped'} /\ pused \subseteq pused'
  <2>1. p..p + 1 - 1 = {p} BY DEF Page
  <2>2. Cardinality(FirstFrames(1)) = 1 BY <1>1, <1>2, PagesTaken
  <2> QED BY <2>1, <2>2, <1>1, PagesTaken
<1>4. /\ UNCHANGED torn /\ live' = live \cup {r0}
      /\ vused' = vused \cup {p} /\ freeList[s] = <<>>
      /\ freeList' = [freeList EXCEPT ![s] = list]
  BY <1>3 DEF MallocArena, malloc_page
<1>5. /\ header' = [header EXCEPT ![Seen(p, pte')] = a]
      /\ tlb' \in [Page -> Frame \cup {NULL}] /\ stale' \in BOOLEAN
      /\ Seen(p, pte') \in Frame
      /\ ~stale' => ~stale /\ Seen(p, pte') = pte'[p]
  <2>1. pte'[p] # NULL BY <1>3, ArenaType, <1>1
  <2>2. Access(p, pte') BY DEF MallocArena
  <2>3. header' = [header EXCEPT ![Seen(p, pte')] = a] BY DEF MallocArena
  <2> QED BY <2>1, <2>2, <2>3, <1>1, <1>3, AccessSees
<1>6. /\ \A b \in BlocksOf(p, s) : b \in Address /\ PageOf(b) = p
      /\ IsFiniteSet(BlocksOf(p, s)) /\ Cardinality(BlocksOf(p, s)) = m
      /\ m \in Nat \ {0} /\ p * Units \in BlocksOf(p, s)
  BY BlocksInPage
<1>7. /\ list \in Seq(Address)
      /\ \A i, j \in DOMAIN list : list[i] = list[j] => i = j
      /\ Range(list) = BlocksOf(p, s) \ {p * Units}
  BY ArenaList
<1> HIDE DEF list, m
<1>8. a \in Arena /\ a # NULL /\ a.desc = s /\ a.cnt = m - 1
  BY <1>6 DEF Arena
<1>9. s \in 1..NPages * Units
  <2> DEFINE top == NPages * Units
  <2>1. Units <= top /\ top \in Nat
    <3>1. 1 < NPages => Units * 1 + Units <= Units * NPages BY Multiples
    <3>2. NPages = 1 \/ 1 < NPages OBVIOUS
    <3>3. NPages = 1 => top = Units OBVIOUS
    <3> QED BY <3>1, <3>2, <3>3
  <2> HIDE DEF top
  <2>2. s \in 1..top BY <2>1
  <2> QED BY <2>2 DEF top
<1>10. TypeOK'
  <2>1. header' \in [Frame -> Arena \cup {NULL}] BY <1>1, <1>5, <1>8 DEF TypeOK
  <2>2. r0 \in Address \X (1..NPages * Units) BY <1>6, <1>9
  <2>3. live' \subseteq Address \X (1..NPages * Units) BY <1>1, <1>4, <2>2 DEF TypeOK
  <2>4. freeList' \in [Sizes -> Seq(Address)] BY <1>1, <1>4, <1>7 DEF TypeOK
  <2> QED BY <1>1, <1>3, <1>4, <1>5, <2>1, <2>3, <2>4 DEF TypeOK
<1>11. ASSUME ~stale' PROVE Shape'
  <2> HIDE DEF a, r0
  <2>1. header' = [header EXCEPT ![pte'[p]] = a] BY <1>5, <1>11
  <2>2. \A q \in Page : arena[q] = IF pte'[q] = NULL THEN NULL ELSE header[pte'[q]]
    BY <1>3 DEF arena
  <2>3. arena' = [arena EXCEPT ![p] = a]
    BY <2>1, <2>2, <1>1, <1>3, HeaderWritten DEF TypeOK
  <2>4. /\ \A q \in Page : arena'[q] = IF q = p THEN a ELSE arena[q]
        /\ arena[p] = NULL
    BY <2>3, <1>3 DEF arena
  <2>5. \A q, t : OfSize(q, t) => q # p /\ OfSize(q, t)' /\ arena'[q] = arena[q]
    BY <2>4 DEF OfSize
  <2>6. OfSize(p, s)' /\ arena'[p] = a
    BY <2>4, <1>8 DEF OfSize
  <2>7. \A q, t : OfSize(q, t)' => (q = p /\ t = s) \/ (OfSize(q, t) /\ arena'[q] = arena[q])
    BY <2>4, <2>6, <1>8 DEF OfSize
  <2>8. /\ freeList'[s] = list /\ Range(freeList[s]) = {}
        /\ \A t \in Sizes : t # s => freeList'[t] = freeList[t]
    BY <1>1, <1>4 DEF TypeOK, Range
  <2>9. \A b \in Range(list) : PageOf(b) = p /\ b \in BlocksOf(p, s)
    BY <1>6, <1>7
  <2>10. Mapping'
    <3>1. \A f \in Frame : header'[f] # NULL => f \in pused'
      BY <2>1, <1>1, <1>3 DEF TypeOK, Shape, Mapping
    <3> QED BY <3>1, <1>3 DEF Mapping
  <2>11. Lists'
    <3> SUFFICES ASSUME NEW t \in Sizes
                 PROVE  /\ \A i, j \in DOMAIN freeList'[t] : freeList'[t][i] = freeList'[t][j] => i = j
                        /\ \A b \in Range(freeList'[t]) : OfSize(PageOf(b), t)' /\ b \in BlocksOf(PageOf(b), t)
      BY DEF Lists
    <3>1. CASE t = s
      BY <3>1, <2>6, <2>8, <2>9, <1>7
    <3>2. CASE t # s
      BY <3>2, <2>5, <2>8, <1>1 DEF Shape, Lists
    <3> QED BY <3>1, <3>2
  <2>12. Handed'
    <3>1. ASSUME NEW r \in live
          PROVE \/ /\ r[2] \in Sizes /\ OfSize(PageOf(r[1]), r[2])'
                   /\ r[1] \in BlocksOf(PageOf(r[1]), r[2]) /\ r[1] \notin Range(freeList'[r[2]])
                \/ /\ OfSize(PageOf(r[1]), NULL)'
                   /\ r[1] = PageOf(r[1]) * Units /\ r[2] = arena'[PageOf(r[1])].cnt * Units
      <4>1. CASE /\ r[2] \in Sizes /\ OfSize(PageOf(r[1]), r[2])
                 /\ r[1] \in BlocksOf(PageOf(r[1]), r[2]) /\ r[1] \notin Range(freeList[r[2]])
        <5>1. OfSize(PageOf(r[1]), r[2])' /\ PageOf(r[1]) # p BY <4>1, <2>5
        <5>2. r[1] \notin Range(freeList'[r[2]]) BY <4>1, <5>1, <2>8, <2>9
        <5> QED BY <4>1, <5>1, <5>2
      <4>2. CASE OfSize(PageOf(r[1]), NULL) /\ r[1] = PageOf(r[1]) * Units
                 /\ r[2] = arena[PageOf(r[1])].cnt * Units
        BY <4>2, <2>5
      <4> QED BY <4>1, <4>2, <1>1 DEF Shape, Handed
    <3>2. /\ r0[2] \in Sizes /\ OfSize(PageOf(r0[1]), r0[2])'
          /\ r0[1] \in BlocksOf(PageOf(r0[1]), r0[2]) /\ r0[1] \notin Range(freeList'[r0[2]])
      <4>1. r0[1] = p * Units /\ r0[2] = s /\ PageOf(r0[1]) = p BY <1>6 DEF r0
      <4> QED BY <4>1, <2>6, <2>8, <1>6, <1>7
    <3> QED BY <3>1, <3>2, <1>4 DEF Handed
  <2>13. Counts'
    <3> SUFFICES ASSUME NEW q \in Page, NEW t \in Sizes, OfSize(q, t)'
                 PROVE  /\ arena'[q].cnt = Cardinality(BlocksOf(q, t) \cap Range(freeList'[t]))
                        /\ ~(BlocksOf(q, t) \subseteq Range(freeList'[t]))
                        /\ \A b \in BlocksOf(q, t) \ Range(freeList'[t]) : <<b, t>> \in live'
      BY DEF Counts
    <3>1. CASE q = p /\ t = s
      <4>1. BlocksOf(p, s) \cap Range(freeList'[s]) = BlocksOf(p, s) \ {p * Units} BY <2>8, <1>7
      <4>2. Cardinality(BlocksOf(p, s) \ {p * Units}) = m - 1 BY <1>6, FS_RemoveElement
      <4>3. BlocksOf(p, s) \ Range(freeList'[s]) = {p * Units} BY <2>8, <1>6, <1>7
      <4>4. <<p * Units, s>> \in live' BY <1>4 DEF r0
      <4> QED BY <3>1, <4>1, <4>2, <4>3, <4>4, <2>6, <1>8
    <3>2. CASE OfSize(q, t) /\ arena'[q] = arena[q]
      <4>1. q # p BY <3>2, <2>5
      <4>2. \A b \in BlocksOf(q, t) : b \in Range(freeList'[t]) <=> b \in Range(freeList[t])
        <5>1. \A b \in BlocksOf(q, t) : PageOf(b) = q BY BlocksInPage
        <5> QED BY <5>1, <4>1, <2>8, <2>9
      <4>3. BlocksOf(q, t) \cap Range(freeList'[t]) = BlocksOf(q, t) \cap Range(freeList[t]) BY <4>2
      <4>4. /\ arena[q].cnt = Cardinality(BlocksOf(q, t) \cap Range(freeList[t]))
            /\ ~(BlocksOf(q, t) \subseteq Range(freeList[t]))
            /\ \A b \in BlocksOf(q, t) \ Range(freeList[t]) : <<b, t>> \in live
        BY <3>2, <1>1 DEF Shape, Counts
      <4> QED BY <3>2, <4>2, <4>3, <4>4, <1>4
    <3> QED BY <3>1, <3>2, <2>7
  <2>14. Runs'
    <3> SUFFICES ASSUME NEW q \in Page, OfSize(q, NULL)'
                 PROVE  /\ arena'[q].cnt >= 1 /\ q + arena'[q].cnt <= NPages
                        /\ \A x \in q + 1..q + arena'[q].cnt - 1 : x \in Mapped' /\ arena'[x] = NULL
                        /\ <<q * Units, arena'[q].cnt * Units>> \in live'
      BY DEF Runs
    <3>1. OfSize(q, NULL) /\ arena'[q] = arena[q] BY <2>7, <1>1, ArenaType
    <3>2. /\ arena'[q].cnt >= 1 /\ q + arena'[q].cnt <= NPages
          /\ \A x \in q + 1..q + arena'[q].cnt - 1 : x \in Mapped /\ arena[x] = NULL
          /\ <<q * Units, arena'[q].cnt * Units>> \in live
      BY <3>1, <1>1 DEF Shape, Runs
    <3>3. \A x \in Mapped : x \in Page /\ x # p BY <1>3 DEF Mapped
    <3> QED BY <3>2, <3>3, <2>4, <1>3, <1>4
  <2>15. Whole'
    <3> SUFFICES ASSUME ~torn'
                 PROVE  /\ vused' \subseteq Mapped'
                        /\ \A q \in Mapped' : arena'[q] = NULL =>
                             \E x \in Page : OfSize(x, NULL)' /\ q \in x + 1..x + arena'[x].cnt - 1
      BY DEF Whole
    <3>1. /\ vused \subseteq Mapped
          /\ \A q \in Mapped : arena[q] = NULL =>
               \E x \in Page : OfSize(x, NULL) /\ q \in x + 1..x + arena[x].cnt - 1
      BY <1>1, <1>4 DEF Shape, Whole
    <3>2. vused' \subseteq Mapped' BY <3>1, <1>3, <1>4
    <3>3. ASSUME NEW q \in Mapped', arena'[q] = NULL
          PROVE  \E x \in Page : OfSize(x, NULL)' /\ q \in x + 1..x + arena'[x].cnt - 1
      <4>1. q # p BY <3>3, <2>6, <1>8
      <4>2. q \in Mapped /\ q \in Page BY <4>1, <1>3 DEF Mapped
      <4>3. PICK x \in Page : OfSize(x, NULL) /\ q \in x + 1..x + arena[x].cnt - 1
        BY <4>1, <4>2, <3>1, <3>3, <2>4
      <4> QED BY <4>3, <2>5
    <3> QED BY <3>2, <3>3
  <2> QED BY <2>10, <2>11, <2>12, <2>13, <2>14, <2>15 DEF Shape
<1> QED BY <1>3, <1>10, <1>11 DEF IInv

\* Taking the head off a list without repetitions.
LEMMA TailElements ==
    ASSUME NEW T, NEW list \in Seq(T), list # <<>>,
           \A i, j \in DOMAIN list : list[i] = list[j] => i = j
    PROVE  /\ Tail(list) \in Seq(T) /\ Head(list) \in Range(list)
           /\ \A i, j \in DOMAIN Tail(list) : Tail(list)[i] = Tail(list)[j] => i = j
           /\ Range(Tail(list)) = Range(list) \ {Head(list)}
<1> DEFINE n == Len(list)
           t == Tail(list)
<1>1. /\ n \in Nat \ {0} /\ DOMAIN list = 1..n /\ Head(list) = list[1]
      /\ t \in Seq(T) /\ DOMAIN t = 1..n - 1 /\ \A i \in 1..n - 1 : t[i] = list[i + 1]
  OBVIOUS
<1> HIDE DEF n, t
<1>2. /\ \A i \in 1..n - 1 : i + 1 \in 1..n /\ i + 1 # 1
      /\ \A i \in 1..n : i = 1 \/ (i - 1 \in 1..n - 1 /\ (i - 1) + 1 = i)
      /\ \A i, j \in 1..n - 1 : i + 1 = j + 1 => i = j
      /\ 1 \in 1..n
  BY <1>1
<1>3. \A i, j \in DOMAIN t : t[i] = t[j] => i = j
  <2> SUFFICES ASSUME NEW i \in 1..n - 1, NEW j \in 1..n - 1, t[i] = t[j] PROVE i = j
    BY <1>1
  <2>1. list[i + 1] = list[j + 1] /\ i + 1 \in DOMAIN list /\ j + 1 \in DOMAIN list
    BY <1>1, <1>2
  <2>2. i + 1 = j + 1 BY <2>1
  <2> QED BY <2>2, <1>2
<1>4. Head(list) \in Range(list)
  BY <1>1, <1>2 DEF Range
<1>5. Range(t) = Range(list) \ {Head(list)}
  <2>1. ASSUME NEW x \in Range(t) PROVE x \in Range(list) \ {Head(list)}
    <3>1. PICK i \in 1..n - 1 : x = list[i + 1] BY <1>1 DEF Range
    <3> QED BY <3>1, <1>1, <1>2 DEF Range
  <2>2. ASSUME NEW x \in Range(list) \ {Head(list)} PROVE x \in Range(t)
    <3>1. PICK i \in 1..n : x = list[i] BY <1>1 DEF Range
    <3>2. i # 1 BY <3>1, <1>1
    <3>3. i - 1 \in 1..n - 1 /\ t[i - 1] = x BY <3>1, <3>2, <1>1, <1>2
    <3> QED BY <3>3, <1>1 DEF Range
  <2> QED BY <2>1, <2>2
<1> QED BY <1>1, <1>3, <1>4, <1>5 DEF t

\* Putting a new element at the end of such a list.
LEMMA AppendElements ==
    ASSUME NEW T, NEW list \in Seq(T), NEW b \in T, b \notin Range(list),
           \A i, j \in DOMAIN list : list[i] = list[j] => i = j
    PROVE  /\ Append(list, b) \in Seq(T)
           /\ \A i, j \in DOMAIN Append(list, b) : Append(list, b)[i] = Append(list, b)[j] => i = j
           /\ Range(Append(list, b)) = Range(list) \cup {b}
<1> DEFINE n == Len(list)
           l == Append(list, b)
<1>1. /\ n \in Nat /\ DOMAIN list = 1..n
      /\ l \in Seq(T) /\ DOMAIN l = 1..n + 1
      /\ l[n + 1] = b /\ \A i \in 1..n : l[i] = list[i]
  OBVIOUS
<1> HIDE DEF n, l
<1>2. /\ \A i \in 1..n : i \in 1..n + 1 /\ i # n + 1 /\ list[i] # b
      /\ \A i \in 1..n + 1 : i = n + 1 \/ i \in 1..n
      /\ n + 1 \in 1..n + 1
  BY <1>1 DEF Range
<1>3. \A i, j \in DOMAIN l : l[i] = l[j] => i = j
  BY <1>1, <1>2
<1>4. Range(l) = Range(list) \cup {b}
  BY <1>1, <1>2 DEF Range
<1> QED BY <1>1, <1>3, <1>4 DEF l

\* The first block of a free list is handed out.
LEMMA MallocBlockKept ==
    ASSUME IInv, NEW s \in Sizes, MallocBlock(s)
    PROVE  IInv'
<1> DEFINE list == freeList[s]
<1>b. PICK b : b = Head(list)
  OBVIOUS
<1>p. PICK p : p = PageOf(b)
  OBVIOUS
<1> DEFINE f == Seen(p, pte)
           a == [arena[p] EXCEPT !.cnt = @ - 1]
           r0 == <<b, s>>
           BS == BlocksOf(p, s)
<1>1. TypeOK /\ Shape /\ fault = "none" /\ list # <<>> /\ list \in Seq(Address)
  BY DEF IInv, MallocBlock, Sound, TypeOK
<1>2. \A i, j \in DOMAIN list : list[i] = list[j] => i = j
  BY <1>1 DEF Shape, Lists
<1>3. /\ Tail(list) \in Seq(Address) /\ b \in Range(list)
      /\ \A i, j \in DOMAIN Tail(list) : Tail(list)[i] = Tail(list)[j] => i = j
      /\ Range(Tail(list)) = Range(list) \ {b}
  BY <1>1, <1>2, <1>b, TailElements
<1>4. OfSize(p, s) /\ b \in BS
  BY <1>1, <1>3, <1>p DEF Shape, Lists
<1>5. /\ p \in Page /\ p \in Mapped /\ arena[p] # NULL /\ arena[p] \in Arena /\ arena[p].desc = s
      /\ arena[p].cnt \in Nat /\ pte[p] # NULL /\ arena[p] = header[pte[p]]
  <2>1. p \in Page /\ arena[p] # NULL /\ arena[p].desc = s BY <1>4 DEF OfSize
  <2>2. p \in Mapped /\ arena[p] \in Arena BY <2>1, <1>1, ArenaType
  <2> QED BY <2>1, <2>2 DEF Mapped, arena, Arena
<1>6. /\ arena[p].cnt = Cardinality(BS \cap Range(list))
      /\ ~(BS \subseteq Range(list))
      /\ \A c \in BS \ Range(list) : <<c, s>> \in live
  BY <1>1, <1>4, <1>5 DEF Shape, Counts
<1>7. /\ \A c \in BS : c \in Address /\ PageOf(c) = p
      /\ IsFiniteSet(BS)
  BY <1>5, BlocksInPage
<1> HIDE DEF BS
<1>8. /\ IsFiniteSet(BS \cap Range(list)) /\ arena[p].cnt # 0
      /\ Cardinality(BS \cap Range(Tail(list))) = arena[p].cnt - 1
  <2>1. IsFiniteSet(BS \cap Range(list)) BY <1>7, FS_Subset
  <2>2. BS \cap Range(Tail(list)) = (BS \cap Range(list)) \ {b} BY <1>3
  <2>3. b \in BS \cap Range(list) BY <1>3, <1>4
  <2>4. Cardinality(BS \cap Range(list)) # 0 BY <2>1, <2>3, FS_EmptySet
  <2> HIDE DEF list
  <2>5. Cardinality((BS \cap Range(list)) \ {b}) = Cardinality(BS \cap Range(list)) - 1
    BY <2>1, <2>3, FS_RemoveElement
  <2> QED BY <2>1, <2>2, <2>4, <2>5, <1>6
<1>9. /\ UNCHANGED <<vused, pused, pte, torn, fault>>
      /\ freeList' = [freeList EXCEPT ![s] = Tail(list)]
      /\ live' = live \cup {r0}
      /\ Access(p, pte)
      /\ header' = IF header[f] = NULL \/ header[f].cnt = 0 THEN header
                   ELSE [header EXCEPT ![f].cnt = @ - 1]
  BY <1>b, <1>p DEF MallocBlock
<1>10. /\ tlb' \in [Page -> Frame \cup {NULL}] /\ stale' \in BOOLEAN
       /\ f \in Frame
       /\ ~stale' => ~stale /\ f = pte[p]
  <2>1. pte \in [Page -> Frame \cup {NULL}] BY <1>1 DEF TypeOK
  <2> QED BY <2>1, <1>1, <1>5, <1>9, AccessSees
<1>11. b \in Address /\ s \in 1..NPages * Units
  <2>1. b \in Address BY <1>4, <1>7
  <2>2. s \in 1..NPages * Units
    <3> DEFINE top == NPages * Units
    <3>1. Units <= top /\ top \in Nat
      <4>1. 1 < NPages => Units * 1 + Units <= Units * NPages BY Multiples
      <4>2. NPages = 1 \/ 1 < NPages OBVIOUS
      <4>3. NPages = 1 => top = Units OBVIOUS
      <4> QED BY <4>1, <4>2, <4>3
    <3> HIDE DEF top
    <3>2. s \in 1..top BY <3>1
    <3> QED BY <3>2 DEF top
  <2> QED BY <2>1, <2>2
<1> HIDE DEF f, list
<1>12. TypeOK'
  <2>1. header' \in [Frame -> Arena \cup {NULL}]
    <3>1. header \in [Frame -> Arena \cup {NULL}] BY <1>1 DEF TypeOK
    <3>2. CASE header[f] = NULL \/ header[f].cnt = 0 BY <3>1, <3>2, <1>9
    <3>3. CASE header[f] # NULL /\ header[f].cnt # 0
      <4>1. header[f] \in Arena BY <3>1, <3>3, <1>10
      <4>2. [header[f] EXCEPT !.cnt = @ - 1] \in Arena BY <4>1, <3>3 DEF Arena
      <4>3. header' = [header EXCEPT ![f] = [header[f] EXCEPT !.cnt = @ - 1]] BY <3>3, <1>9, <3>1
      <4> QED BY <4>2, <4>3, <3>1
    <3> QED BY <3>2, <3>3
  <2>2. live' \subseteq Address \X (1..NPages * Units) BY <1>1, <1>9, <1>11 DEF TypeOK
  <2>3. freeList' \in [Sizes -> Seq(Address)] BY <1>1, <1>3, <1>9 DEF TypeOK
  <2> QED BY <1>1, <1>9, <1>10, <2>1, <2>2, <2>3 DEF TypeOK
<1>13. a \in Arena /\ a # NULL /\ a.desc = s /\ a.cnt = arena[p].cnt - 1
  BY <1>5, <1>8 DEF Arena
<1>14. ASSUME ~stale' PROVE Shape'
  <2> HIDE DEF a, r0
  <2>0. pte' = pte /\ pused' = pused /\ vused' = vused /\ torn' = torn /\ Mapped' = Mapped
        /\ pte \in [Page -> Frame \cup {NULL}] /\ header \in [Frame -> Arena \cup {NULL}]
    BY <1>1, <1>9 DEF TypeOK, Mapped
  <2>1. header' = [header EXCEPT ![pte'[p]] = a]
    <3>1. f = pte[p] /\ header[f] = arena[p] /\ header[f].cnt # 0 BY <1>5, <1>8, <1>10, <1>14
    <3>2. header' = [header EXCEPT ![f].cnt = @ - 1] BY <3>1, <1>5, <1>9
    <3>3. header' = [header EXCEPT ![f] = [header[f] EXCEPT !.cnt = @ - 1]] BY <3>2, <2>0
    <3> QED BY <3>1, <3>3, <2>0 DEF a
  <2>2. \A q \in Page : arena[q] = IF pte'[q] = NULL THEN NULL ELSE header[pte'[q]]
    BY <2>0 DEF arena
  <2>3. arena' = [arena EXCEPT ![p] = a]
    <3>1. \A q, r \in Mapped' : pte'[q] = pte'[r] => q = r BY <2>0, <1>1 DEF Shape, Mapping
    <3> QED BY <3>1, <2>0, <2>1, <2>2, <1>5, HeaderWritten
  <2>4. \A q \in Page : arena'[q] = IF q = p THEN a ELSE arena[q]
    BY <2>3 DEF arena
  <2>5. \A q, t : OfSize(q, t)' <=> OfSize(q, t)
    BY <2>4, <1>5, <1>13 DEF OfSize
  <2>6. \A q \in Page : (arena'[q] = NULL <=> arena[q] = NULL) /\ (q # p => arena'[q] = arena[q])
    BY <2>4, <1>5, <1>13
  <2>7. \A q : OfSize(q, NULL) => q # p /\ q \in Page /\ arena'[q] = arena[q]
    BY <2>6, <1>1, <1>5, ArenaType DEF OfSize
  <2>8. /\ freeList'[s] = Tail(list) /\ list = freeList[s]
        /\ \A t \in Sizes : t # s => freeList'[t] = freeList[t]
    BY <1>1, <1>9 DEF TypeOK, list
  <2>9. \A t \in Sizes : Range(freeList'[t]) \subseteq Range(freeList[t])
    BY <2>8, <1>3
  <2>10. Mapping'
    BY <2>0, <2>1, <1>1, <1>5 DEF Shape, Mapping
  <2>11. Lists'
    <3> SUFFICES ASSUME NEW t \in Sizes
                 PROVE  /\ \A i, j \in DOMAIN freeList'[t] : freeList'[t][i] = freeList'[t][j] => i = j
                        /\ \A c \in Range(freeList'[t]) : OfSize(PageOf(c), t)' /\ c \in BlocksOf(PageOf(c), t)
      BY DEF Lists
    <3>1. \A c \in Range(freeList'[t]) : OfSize(PageOf(c), t)' /\ c \in BlocksOf(PageOf(c), t)
      BY <2>5, <2>9, <1>1 DEF Shape, Lists
    <3>2. \A i, j \in DOMAIN freeList'[t] : freeList'[t][i] = freeList'[t][j] => i = j
      BY <2>8, <1>1, <1>3 DEF Shape, Lists
    <3> QED BY <3>1, <3>2
  <2>12. Handed'
    <3>1. ASSUME NEW r \in live
          PROVE \/ /\ r[2] \in Sizes /\ OfSize(PageOf(r[1]), r[2])'
                   /\ r[1] \in BlocksOf(PageOf(r[1]), r[2]) /\ r[1] \notin Range(freeList'[r[2]])
                \/ /\ OfSize(PageOf(r[1]), NULL)'
                   /\ r[1] = PageOf(r[1]) * Units /\ r[2] = arena'[PageOf(r[1])].cnt * Units
      BY <2>5, <2>7, <2>9, <1>1 DEF Shape, Handed
    <3>2. /\ r0[2] \in Sizes /\ OfSize(PageOf(r0[1]), r0[2])'
          /\ r0[1] \in BlocksOf(PageOf(r0[1]), r0[2]) /\ r0[1] \notin Range(freeList'[r0[2]])
      <4>1. r0[1] = b /\ r0[2] = s BY DEF r0
      <4>3. OfSize(p, s)' /\ b \in BlocksOf(p, s) BY <2>5, <1>4 DEF BS
      <4>4. b \notin Range(freeList'[s]) BY <2>8, <1>3
      <4>5. OfSize(PageOf(b), s)' BY <4>3, <1>p
      <4> QED BY <4>1, <4>3, <4>4, <4>5, <1>p
    <3> QED BY <3>1, <3>2, <1>9 DEF Handed
  <2>13. Counts'
    <3> SUFFICES ASSUME NEW q \in Page, NEW t \in Sizes, OfSize(q, t)'
                 PROVE  /\ arena'[q].cnt = Cardinality(BlocksOf(q, t) \cap Range(freeList'[t]))
                        /\ ~(BlocksOf(q, t) \subseteq Range(freeList'[t]))
                        /\ \A c \in BlocksOf(q, t) \ Range(freeList'[t]) : <<c, t>> \in live'
      BY DEF Counts
    <3>1. CASE q = p
      <4>1. t = s BY <3>1, <2>5, <1>5 DEF OfSize
      <4>2. arena'[q].cnt = Cardinality(BS \cap Range(freeList'[s])) BY <3>1, <2>4, <2>8, <1>8, <1>13
      <4>3. b \in BS /\ b \notin Range(freeList'[s]) BY <2>8, <1>3, <1>4
      <4>4. ASSUME NEW c \in BS \ Range(freeList'[s]) PROVE <<c, s>> \in live'
        <5>1. c = b \/ c \in BS \ Range(list) BY <2>8, <1>3
        <5> QED BY <5>1, <1>6, <1>9 DEF r0
      <4> QED BY <3>1, <4>1, <4>2, <4>3, <4>4 DEF BS
    <3>2. CASE q # p
      <4>1. OfSize(q, t) /\ arena'[q] = arena[q] BY <3>2, <2>5, <2>6
      <4>2. \A c \in BlocksOf(q, t) : c \in Range(freeList'[t]) <=> c \in Range(freeList[t])
        <5>1. \A c \in BlocksOf(q, t) : PageOf(c) = q BY BlocksInPage
        <5>2. \A c \in BlocksOf(q, t) : c # b BY <5>1, <3>2, <1>p
        <5> QED BY <5>2, <2>8, <1>3
      <4>3. BlocksOf(q, t) \cap Range(freeList'[t]) = BlocksOf(q, t) \cap Range(freeList[t]) BY <4>2
      <4>4. /\ arena[q].cnt = Cardinality(BlocksOf(q, t) \cap Range(freeList[t]))
            /\ ~(BlocksOf(q, t) \subseteq Range(freeList[t]))
            /\ \A c \in BlocksOf(q, t) \ Range(freeList[t]) : <<c, t>> \in live
        BY <4>1, <1>1 DEF Shape, Counts
      <4> QED BY <4>1, <4>2, <4>3, <4>4, <1>9
    <3> QED BY <3>1, <3>2
  <2>14. Runs'
    <3> SUFFICES ASSUME NEW q \in Page, OfSize(q, NULL)'
                 PROVE  /\ arena'[q].cnt >= 1 /\ q + arena'[q].cnt <= NPages
                        /\ \A x \in q + 1..q + arena'[q].cnt - 1 : x \in Mapped' /\ arena'[x] = NULL
                        /\ <<q * Units, arena'[q].cnt * Units>> \in live'
      BY DEF Runs
    <3>1. OfSize(q, NULL) /\ arena'[q] = arena[q] BY <2>5, <2>7
    <3>2. /\ arena'[q].cnt >= 1 /\ q + arena'[q].cnt <= NPages
          /\ \A x \in q + 1..q + arena'[q].cnt - 1 : x \in Mapped /\ arena[x] = NULL
          /\ <<q * Units, arena'[q].cnt * Units>> \in live
      BY <3>1, <1>1 DEF Shape, Runs
    <3>3. \A x \in Mapped : x \in Page BY DEF Mapped
    <3> QED BY <3>2, <3>3, <2>0, <2>6, <1>9
  <2>15. Whole'
    <3> SUFFICES ASSUME ~torn'
                 PROVE  /\ vused' \subseteq Mapped'
                        /\ \A q \in Mapped' : arena'[q] = NULL =>
                             \E x \in Page : OfSize(x, NULL)' /\ q \in x + 1..x + arena'[x].cnt - 1
      BY DEF Whole
    <3>1. /\ vused \subseteq Mapped
          /\ \A q \in Mapped : arena[q] = NULL =>
               \E x \in Page : OfSize(x, NULL) /\ q \in x + 1..x + arena[x].cnt - 1
      BY <2>0, <1>1 DEF Shape, Whole
    <3>2. ASSUME NEW q \in Mapped', arena'[q] = NULL
          PROVE  \E x \in Page : OfSize(x, NULL)' /\ q \in x + 1..x + arena'[x].cnt - 1
      <4>1. q \in Mapped /\ q \in Page BY <2>0 DEF Mapped
      <4>2. PICK x \in Page : OfSize(x, NULL) /\ q \in x + 1..x + arena[x].cnt - 1
        BY <4>1, <3>1, <3>2, <2>6
      <4> QED BY <4>2, <2>5, <2>7
    <3> QED BY <3>1, <3>2, <2>0
  <2> QED BY <2>10, <2>11, <2>12, <2>13, <2>14, <2>15 DEF Shape
<1> QED BY <1>1, <1>9, <1>12, <1>14 DEF IInv

----------------------------------------------------------------------------
\* sys_free() gets what was handed out; unless its translation is outdated it reads
\* the header of its arena.
LEMMA FreeStart ==
    ASSUME IInv, NEW b \in Address, NEW p, p = PageOf(b), Sound, FreeReads(b)
    PROVE  /\ TypeOK /\ Shape /\ fault = "none"
           /\ \E len : <<b, len>> \in live
           /\ p \in Page /\ p \in Mapped /\ arena[p] # NULL /\ arena[p] \in Arena
           /\ \A s \in Sizes : b \notin Range(freeList[s])
           /\ tlb' \in [Page -> Frame \cup {NULL}] /\ stale' \in BOOLEAN
           /\ Seen(p, pte) \in Frame
           /\ HeaderOf(b) = header[Seen(p, pte)]
           /\ ~stale' => ~stale /\ Seen(p, pte) = pte[p] /\ HeaderOf(b) = arena[p]
<1>1. TypeOK /\ Shape /\ fault = "none"
  BY DEF IInv, Sound
<1>2. PICK len : <<b, len>> \in live
  BY DEF FreeReads
<1> DEFINE r == <<b, len>>
<1>3. r \in live /\ r[1] = b
  BY <1>2
<1> HIDE DEF r
<1>4. /\ p \in Page /\ p \in Mapped /\ arena[p] # NULL /\ arena[p] \in Arena
      /\ \/ /\ arena[p].desc = r[2] /\ r[2] \in Sizes
            /\ r[1] \in BlocksOf(p, r[2]) /\ r[1] \notin Range(freeList[r[2]])
         \/ arena[p].desc = NULL
  BY <1>1, <1>3, HandedKind
<1>5. ASSUME NEW s \in Sizes, b \in Range(freeList[s]) PROVE FALSE
  <2>1. OfSize(p, s) BY <1>1, <1>5 DEF Shape, Lists
  <2>2. arena[p].desc = s /\ s # NULL BY <2>1, <1>1, ArenaType DEF OfSize
  <2> QED BY <2>2, <1>3, <1>4, <1>5
<1>6. pte[p] # NULL /\ arena[p] = header[pte[p]] /\ pte \in [Page -> Frame \cup {NULL}]
  BY <1>1, <1>4 DEF Mapped, arena, TypeOK
<1>7. Access(p, pte) /\ HeaderOf(b) = header[Seen(p, pte)]
  BY DEF FreeReads, HeaderOf
<1>8. /\ tlb' \in [Page -> Frame \cup {NULL}] /\ stale' \in BOOLEAN
      /\ Seen(p, pte) \in Frame
      /\ ~stale' => ~stale /\ Seen(p, pte) = pte[p]
  BY <1>1, <1>4, <1>6, <1>7, AccessSees
<1> QED BY <1>1, <1>2, <1>4, <1>5, <1>6, <1>7, <1>8

\* mfree_page() of any run keeps the types.
LEMMA FreeType ==
    ASSUME TypeOK, NEW p, NEW n, mfree_page(p, n)
    PROVE  /\ vused' \subseteq Page /\ pused' \subseteq Frame
           /\ pte' \in [Page -> Frame \cup {NULL}]
           /\ header' \in [Frame -> Arena \cup {NULL}]
<1> DEFINE freed == {pte[q] : q \in p..p + n - 1} \ {NULL}
<1>1. /\ vused' = vused \ p..p + n - 1
      /\ pused' = pused \ freed
      /\ pte' = [q \in Page |-> IF q \in p..p + n - 1 THEN NULL ELSE pte[q]]
      /\ header' = [f \in Frame |-> IF f \in freed THEN NULL ELSE header[f]]
  BY DEF mfree_page
<1> HIDE DEF freed
<1> QED BY <1>1 DEF TypeOK

\* The pages of an arena are taken back, with everything in them: the other arenas
\* are as they were.
LEMMA ArenaGone ==
    ASSUME TypeOK, Shape, NEW p \in Page, arena[p] # NULL, NEW run,
           run = PagesOf(p), torn' = torn,
           vused' = vused \ run, Mapped' = Mapped \ run, Mapping',
           arena' = [q \in Page |-> IF q \in run THEN NULL ELSE arena[q]],
           \A s \in Sizes :
             /\ \A i, j \in DOMAIN freeList'[s] : freeList'[s][i] = freeList'[s][j] => i = j
             /\ Range(freeList'[s]) = {x \in Range(freeList[s]) : PageOf(x) # p},
           live' = {r \in live : PageOf(r[1]) # p}
    PROVE  Shape'
<1>0. Page \subseteq Nat /\ NULL \notin Sizes /\ (\A q \in Page : arena[q] = NULL \/ arena[q] \in Arena)
      /\ p \in run
  <2>1. Page \subseteq Nat /\ NULL \notin Sizes /\ (\A q \in Page : arena[q] = NULL \/ arena[q] \in Arena)
    BY ArenaType
  <2>2. arena[p].desc = NULL => arena[p].cnt >= 1 BY DEF Shape, Runs, OfSize
  <2>3. p \in Nat /\ arena[p].cnt \in Nat BY <2>1 DEF Arena
  <2> QED BY <2>1, <2>2, <2>3 DEF PagesOf
<1>1. ASSUME NEW q \in Page, arena[q] # NULL, q # p, NEW x \in PagesOf(q) PROVE x \notin run
  BY <1>1, ArenasApart
<1>2. ASSUME NEW q \in Page, arena[q] # NULL, q # p PROVE arena'[q] = arena[q]
  <2>1. arena[q].desc = NULL => arena[q].cnt >= 1 BY <1>2 DEF Shape, Runs, OfSize
  <2>2. q \in Nat /\ arena[q].cnt \in Nat BY <1>0, <1>2 DEF Arena
  <2>3. q \in PagesOf(q) BY <2>1, <2>2 DEF PagesOf
  <2>4. q \notin run BY <1>1, <1>2, <2>3
  <2> QED BY <2>4
<1>3. \A q, s : OfSize(q, s) /\ q # p => OfSize(q, s)' /\ arena'[q] = arena[q]
  BY <1>2 DEF OfSize
<1>4. \A q, s : OfSize(q, s)' => OfSize(q, s) /\ q # p /\ arena'[q] = arena[q]
  BY <1>0 DEF OfSize
<1>5. \A s \in Sizes : Range(freeList'[s]) \subseteq Range(freeList[s])
                       /\ \A x \in Range(freeList'[s]) : PageOf(x) # p
  OBVIOUS
<1>6. Lists'
  BY <1>3, <1>5 DEF Shape, Lists
<1>7. Handed'
  <2> SUFFICES ASSUME NEW r \in live, PageOf(r[1]) # p
               PROVE  \/ /\ r[2] \in Sizes /\ OfSize(PageOf(r[1]), r[2])'
                         /\ r[1] \in BlocksOf(PageOf(r[1]), r[2]) /\ r[1] \notin Range(freeList'[r[2]])
                      \/ /\ OfSize(PageOf(r[1]), NULL)'
                         /\ r[1] = PageOf(r[1]) * Units /\ r[2] = arena'[PageOf(r[1])].cnt * Units
    BY DEF Handed
  <2> QED BY <1>3, <1>5 DEF Shape, Handed
<1>8. Counts'
  <2> SUFFICES ASSUME NEW q \in Page, NEW t \in Sizes, OfSize(q, t)'
               PROVE  /\ arena'[q].cnt = Cardinality(BlocksOf(q, t) \cap Range(freeList'[t]))
                      /\ ~(BlocksOf(q, t) \subseteq Range(freeList'[t]))
                      /\ \A b \in BlocksOf(q, t) \ Range(freeList'[t]) : <<b, t>> \in live'
    BY DEF Counts
  <2>1. OfSize(q, t) /\ q # p /\ arena'[q] = arena[q] BY <1>4
  <2>2. \A b \in BlocksOf(q, t) : PageOf(b) = q BY BlocksInPage
  <2>3. \A b \in BlocksOf(q, t) : b \in Range(freeList'[t]) <=> b \in Range(freeList[t])
    BY <2>1, <2>2
  <2>4. BlocksOf(q, t) \cap Range(freeList'[t]) = BlocksOf(q, t) \cap Range(freeList[t])
    BY <2>3
  <2>5. /\ arena[q].cnt = Cardinality(BlocksOf(q, t) \cap Range(freeList[t]))
        /\ ~(BlocksOf(q, t) \subseteq Range(freeList[t]))
        /\ \A b \in BlocksOf(q, t) \ Range(freeList[t]) : <<b, t>> \in live
    BY <2>1 DEF Shape, Counts
  <2>6. ASSUME NEW b \in BlocksOf(q, t) \ Range(freeList'[t]) PROVE <<b, t>> \in live'
    <3>1. <<b, t>> \in live BY <2>3, <2>5
    <3>2. <<b, t>>[1] = b /\ PageOf(b) # p BY <2>1, <2>2
    <3> QED BY <3>1, <3>2
  <2> QED BY <2>1, <2>3, <2>4, <2>5, <2>6
<1>9. Runs'
  <2> SUFFICES ASSUME NEW q \in Page, OfSize(q, NULL)'
               PROVE  /\ arena'[q].cnt >= 1 /\ q + arena'[q].cnt <= NPages
                      /\ \A x \in q + 1..q + arena'[q].cnt - 1 : x \in Mapped' /\ arena'[x] = NULL
                      /\ <<q * Units, arena'[q].cnt * Units>> \in live'
    BY DEF Runs
  <2>1. OfSize(q, NULL) /\ q # p /\ arena'[q] = arena[q] /\ arena[q] # NULL /\ arena[q].desc = NULL
    BY <1>4 DEF OfSize
  <2>2. /\ arena[q].cnt >= 1 /\ q + arena[q].cnt <= NPages
        /\ \A x \in q + 1..q + arena[q].cnt - 1 : x \in Mapped /\ arena[x] = NULL
        /\ <<q * Units, arena[q].cnt * Units>> \in live
    BY <2>1 DEF Shape, Runs
  <2>3. q \in Nat /\ arena[q].cnt \in Nat BY <2>1, <1>0 DEF Arena
  <2>4. ASSUME NEW x \in q + 1..q + arena[q].cnt - 1 PROVE x \in Mapped' /\ arena'[x] = NULL
    <3>1. x \in PagesOf(q) BY <2>1, <2>3 DEF PagesOf
    <3>2. x \notin run /\ x \in Page BY <3>1, <2>1, <2>2, <1>1 DEF Mapped
    <3> QED BY <3>2, <2>2
  <2>5. PageOf(q * Units) = q
    BY <2>2, <2>3, RunOfPages
  <2>6. <<q * Units, arena[q].cnt * Units>>[1] = q * Units
    OBVIOUS
  <2>7. <<q * Units, arena[q].cnt * Units>> \in live'
    BY <2>1, <2>2, <2>5, <2>6
  <2> QED BY <2>1, <2>2, <2>4, <2>7
<1>10. Whole'
  <2> SUFFICES ASSUME ~torn
               PROVE  /\ vused' \subseteq Mapped'
                      /\ \A q \in Mapped' : arena'[q] = NULL =>
                           \E x \in Page : OfSize(x, NULL)' /\ q \in x + 1..x + arena'[x].cnt - 1
    BY DEF Whole
  <2>1. /\ vused \subseteq Mapped
        /\ \A q \in Mapped : arena[q] = NULL =>
             \E x \in Page : OfSize(x, NULL) /\ q \in x + 1..x + arena[x].cnt - 1
    BY DEF Shape, Whole
  <2>2. ASSUME NEW q \in Mapped', arena'[q] = NULL
        PROVE  \E x \in Page : OfSize(x, NULL)' /\ q \in x + 1..x + arena'[x].cnt - 1
    <3>1. q \in Mapped /\ q \notin run /\ q \in Page BY DEF Mapped
    <3>2. arena[q] = NULL BY <3>1, <2>2
    <3>3. PICK x \in Page : OfSize(x, NULL) /\ q \in x + 1..x + arena[x].cnt - 1
      BY <3>1, <3>2, <2>1
    <3>4. x # p
      <4> SUFFICES ASSUME x = p PROVE FALSE
        OBVIOUS
      <4>1. arena[p].desc = NULL /\ q \in p + 1..p + arena[p].cnt - 1 BY <3>3 DEF OfSize
      <4>2. p \in Nat /\ arena[p].cnt \in Nat BY <1>0 DEF Arena
      <4>3. q \in PagesOf(p) BY <4>1, <4>2 DEF PagesOf
      <4> QED BY <4>3, <3>1
    <3> QED BY <3>3, <3>4, <1>3
  <2> QED BY <2>1, <2>2
<1> QED BY <1>6, <1>7, <1>8, <1>9, <1>10 DEF Shape

\* A run of pages is given back.
LEMMA FreeLargeKept ==
    ASSUME IInv, NEW b \in Address, FreeLarge(b)
    PROVE  IInv'
<1>p. PICK p : p = PageOf(b)
  OBVIOUS
<1>1. /\ TypeOK /\ Shape /\ fault = "none"
      /\ \E len : <<b, len>> \in live
      /\ p \in Page /\ p \in Mapped /\ arena[p] # NULL /\ arena[p] \in Arena
      /\ tlb' \in [Page -> Frame \cup {NULL}] /\ stale' \in BOOLEAN
      /\ ~stale' => ~stale /\ HeaderOf(b) = arena[p]
  BY <1>p, FreeStart DEF FreeLarge
<1>2. /\ HeaderOf(b) # NULL /\ HeaderOf(b).desc = NULL
      /\ mfree_page(p, HeaderOf(b).cnt)
      /\ live' = {r \in live : r[1] # b}
      /\ UNCHANGED <<freeList, torn, fault>>
  BY <1>p DEF FreeLarge, Forget
<1>3. TypeOK'
  <2>1. /\ vused' \subseteq Page /\ pused' \subseteq Frame
        /\ pte' \in [Page -> Frame \cup {NULL}]
        /\ header' \in [Frame -> Arena \cup {NULL}]
    BY <1>1, <1>2, FreeType
  <2> QED BY <2>1, <1>1, <1>2 DEF TypeOK
<1>4. ASSUME ~stale' PROVE Shape'
  <2> DEFINE n == arena[p].cnt
             run == p..p + n - 1
  <2>1. arena[p].desc = NULL /\ mfree_page(p, n) /\ OfSize(p, NULL)
    <3>1. HeaderOf(b) = arena[p] BY <1>1, <1>4
    <3>2. arena[p].desc = NULL /\ mfree_page(p, arena[p].cnt) BY <3>1, <1>2
    <3> QED BY <3>2, <1>1 DEF OfSize
  <2>2. /\ n >= 1 /\ n \in Nat \ {0} /\ p \in Nat
        /\ \A q \in p + 1..p + n - 1 : q \in Mapped /\ arena[q] = NULL
    <3>1. /\ n >= 1
          /\ \A q \in p + 1..p + n - 1 : q \in Mapped /\ arena[q] = NULL
      BY <1>1, <2>1 DEF Shape, Runs
    <3>2. n \in Nat /\ p \in Nat BY <1>1, ArenaType DEF Arena
    <3> QED BY <3>1, <3>2
  <2>3. run \subseteq Mapped /\ run = PagesOf(p)
    <3>1. \A q \in run : q = p \/ q \in p + 1..p + n - 1 BY <2>2
    <3> QED BY <3>1, <2>1, <2>2, <1>1 DEF PagesOf
  <2>4. /\ vused' = vused \ run /\ Mapped' = Mapped \ run /\ Mapping'
        /\ arena' = [q \in Page |-> IF q \in run THEN NULL ELSE arena[q]]
    <3> HIDE DEF n
    <3> QED BY <1>1, <2>1, <2>2, <2>3, PagesFreed
  <2>5. ASSUME NEW s \in Sizes
        PROVE  /\ \A i, j \in DOMAIN freeList'[s] : freeList'[s][i] = freeList'[s][j] => i = j
               /\ Range(freeList'[s]) = {x \in Range(freeList[s]) : PageOf(x) # p}
    <3>1. freeList'[s] = freeList[s] BY <1>2
    <3>2. \A x \in Range(freeList[s]) : OfSize(PageOf(x), s) BY <1>1 DEF Shape, Lists
    <3>3. \A x \in Range(freeList[s]) : PageOf(x) # p BY <3>2, <2>1, <1>1, ArenaType DEF OfSize
    <3>4. \A i, j \in DOMAIN freeList[s] : freeList[s][i] = freeList[s][j] => i = j
      BY <1>1 DEF Shape, Lists
    <3> QED BY <3>1, <3>3, <3>4
  <2>6. live' = {r \in live : PageOf(r[1]) # p}
    <3>1. ASSUME NEW r \in live, PageOf(r[1]) = p PROVE r[1] = p * Units
      BY <3>1, <1>1, <2>1, HandedKind, ArenaType
    <3>2. PICK len : <<b, len>> \in live BY <1>1
    <3>3. <<b, len>>[1] = b OBVIOUS
    <3>4. b = p * Units BY <3>1, <3>2, <3>3, <1>p
    <3>5. \A r \in live : r[1] = b <=> PageOf(r[1]) = p BY <3>1, <3>4, <1>p
    <3> QED BY <3>5, <1>2
  <2> HIDE DEF run, n
  <2>7. torn' = torn BY <1>2
  <2> QED BY <1>1, <2>3, <2>4, <2>5, <2>6, <2>7, ArenaGone
<1> QED BY <1>1, <1>2, <1>3, <1>4 DEF IInv

\* The last block in use of an arena is given back.
LEMMA FreeArenaKept ==
    ASSUME IInv, NEW b \in Address, FreeArena(b)
    PROVE  IInv'
<1>p. PICK p : p = PageOf(b)
  OBVIOUS
<1>s. PICK s : s = HeaderOf(b).desc
  OBVIOUS
<1> DEFINE list == Append(freeList[s], b)
           BS == BlocksOf(p, s)
<1>1. /\ TypeOK /\ Shape /\ fault = "none"
      /\ \E len : <<b, len>> \in live
      /\ p \in Page /\ p \in Mapped /\ arena[p] # NULL /\ arena[p] \in Arena
      /\ \A t \in Sizes : b \notin Range(freeList[t])
      /\ tlb' \in [Page -> Frame \cup {NULL}] /\ stale' \in BOOLEAN
      /\ HeaderOf(b) \in Arena \cup {NULL}
      /\ ~stale' => ~stale /\ HeaderOf(b) = arena[p]
  <2>1. Seen(p, pte) \in Frame /\ HeaderOf(b) = header[Seen(p, pte)]
    BY <1>p, FreeStart DEF FreeArena
  <2>2. HeaderOf(b) \in Arena \cup {NULL}
    BY <2>1, <1>p, FreeStart DEF FreeArena, TypeOK
  <2> QED BY <2>2, <1>p, FreeStart DEF FreeArena
<1>2. /\ HeaderOf(b) # NULL /\ s # NULL /\ HeaderOf(b).cnt + 1 = blocks_per_arena(s)
      /\ freeList' = [freeList EXCEPT ![s] = Without(list, BS)]
      /\ fault' = IF BS \subseteq Range(list) THEN "none" ELSE "memory.c:455"
      /\ mfree_page(p, 1)
      /\ live' = {r \in live : r[1] # b}
      /\ UNCHANGED torn
  BY <1>p, <1>s DEF FreeArena, Forget
<1>3. s \in Sizes
  BY <1>1, <1>2, <1>s DEF Arena
<1>4. /\ list \in Seq(Address)
      /\ \A i, j \in DOMAIN list : list[i] = list[j] => i = j
      /\ Range(list) = Range(freeList[s]) \cup {b}
  <2>1. \A i, j \in DOMAIN freeList[s] : freeList[s][i] = freeList[s][j] => i = j
    BY <1>1, <1>3 DEF Shape, Lists
  <2>2. freeList[s] \in Seq(Address) /\ b \notin Range(freeList[s])
    BY <1>1, <1>3 DEF TypeOK
  <2> QED BY <2>1, <2>2, AppendElements
<1>5. /\ Without(list, BS) \in Seq(Address)
      /\ \A i, j \in DOMAIN Without(list, BS) : Without(list, BS)[i] = Without(list, BS)[j] => i = j
      /\ Range(Without(list, BS)) = Range(list) \ BS
  <2> HIDE DEF list, BS
  <2> QED BY <1>4, WithoutElements
<1> HIDE DEF list, BS
<1>6. TypeOK'
  <2>1. /\ vused' \subseteq Page /\ pused' \subseteq Frame
        /\ pte' \in [Page -> Frame \cup {NULL}]
        /\ header' \in [Frame -> Arena \cup {NULL}]
    BY <1>1, <1>2, FreeType
  <2>2. freeList' \in [Sizes -> Seq(Address)] BY <1>1, <1>2, <1>5 DEF TypeOK
  <2>3. live' \subseteq Address \X (1..NPages * Units) BY <1>1, <1>2 DEF TypeOK
  <2>4. fault' \in {"none", "memory.c:455"} BY <1>2
  <2> QED BY <2>1, <2>2, <2>3, <2>4, <1>1, <1>2 DEF TypeOK
<1>7. ASSUME ~stale' PROVE Shape' /\ fault' = "none"
  <2>1. arena[p].desc = s /\ OfSize(p, s) /\ arena[p].cnt + 1 = blocks_per_arena(s)
    <3>1. HeaderOf(b) = arena[p] BY <1>1, <1>7
    <3>2. arena[p].desc = s /\ arena[p].cnt + 1 = blocks_per_arena(s) BY <3>1, <1>2, <1>s, Zenon
    <3> QED BY <3>2, <1>1 DEF OfSize
  <2>2. /\ arena[p].cnt = Cardinality(BS \cap Range(freeList[s]))
        /\ \A c \in BS : PageOf(c) = p
        /\ IsFiniteSet(BS) /\ Cardinality(BS) = blocks_per_arena(s)
    BY <1>1, <1>3, <2>1, BlocksInPage DEF Shape, Counts, BS
  <2>3. \A x \in Range(freeList[s]) : x \in BS <=> PageOf(x) = p
    <3>1. \A x \in Range(freeList[s]) : x \in BlocksOf(PageOf(x), s) BY <1>1, <1>3 DEF Shape, Lists
    <3> QED BY <3>1, <2>2 DEF BS
  <2>4. \A r \in live : PageOf(r[1]) = p => r[1] \in BS /\ r[1] \notin Range(freeList[s])
    BY <1>1, <1>3, <2>1, HandedKind, ArenaType DEF BS
  <2>5. b \in BS /\ b \notin Range(freeList[s])
    <3>1. PICK len : <<b, len>> \in live BY <1>1
    <3>2. <<b, len>>[1] = b OBVIOUS
    <3> QED BY <3>1, <3>2, <2>4, <1>p
  <2>6. BS = (BS \cap Range(freeList[s])) \cup {b}
    <3> DEFINE X == BS \cap Range(freeList[s])
    <3>1. IsFiniteSet(X) BY <2>2, FS_Subset
    <3>2. b \notin X BY <2>5
    <3>3. X \cup {b} \subseteq BS BY <2>5
    <3>4. Cardinality(X \cup {b}) = Cardinality(X) + 1
      <4> HIDE DEF X
      <4> QED BY <3>1, <3>2, FS_AddElement
    <3>5. Cardinality(X \cup {b}) = Cardinality(BS) BY <3>4, <2>1, <2>2
    <3> HIDE DEF X
    <3>6. X \cup {b} = BS BY <3>3, <3>5, <2>2, FS_Subset
    <3> QED BY <3>6 DEF X
  <2>7. fault' = "none"
    <3>1. BS \subseteq Range(list) BY <2>6, <1>4
    <3> QED BY <3>1, <1>2
  <2>8. PagesOf(p) = {p} /\ p..p + 1 - 1 = {p} /\ p..p + 1 - 1 \subseteq Mapped
    BY <1>1, <1>2, <2>1 DEF PagesOf, Page
  <2>9. /\ vused' = vused \ {p} /\ Mapped' = Mapped \ {p} /\ Mapping'
        /\ arena' = [q \in Page |-> IF q \in {p} THEN NULL ELSE arena[q]]
    <3>1. /\ vused' = vused \ (p..p + 1 - 1) /\ Mapped' = Mapped \ (p..p + 1 - 1) /\ Mapping'
          /\ arena' = [q \in Page |-> IF q \in p..p + 1 - 1 THEN NULL ELSE arena[q]]
      BY <1>1, <1>2, <2>8, PagesFreed
    <3> QED BY <3>1, <2>8
  <2>10. ASSUME NEW t \in Sizes
         PROVE  /\ \A i, j \in DOMAIN freeList'[t] : freeList'[t][i] = freeList'[t][j] => i = j
                /\ Range(freeList'[t]) = {x \in Range(freeList[t]) : PageOf(x) # p}
    <3>1. CASE t = s
      <4>1. freeList'[t] = Without(list, BS) BY <3>1, <1>1, <1>2, <1>3 DEF TypeOK
      <4>2. Range(list) \ BS = {x \in Range(freeList[s]) : PageOf(x) # p} BY <1>4, <2>3, <2>5
      <4> QED BY <3>1, <4>1, <4>2, <1>5
    <3>2. CASE t # s
      <4>1. freeList'[t] = freeList[t] BY <3>2, <1>1, <1>2 DEF TypeOK
      <4>2. \A x \in Range(freeList[t]) : OfSize(PageOf(x), t) BY <1>1 DEF Shape, Lists
      <4>3. \A x \in Range(freeList[t]) : PageOf(x) # p BY <4>2, <3>2, <2>1 DEF OfSize
      <4>4. \A i, j \in DOMAIN freeList[t] : freeList[t][i] = freeList[t][j] => i = j
        BY <1>1 DEF Shape, Lists
      <4> QED BY <4>1, <4>3, <4>4
    <3> QED BY <3>1, <3>2
  <2>11. live' = {r \in live : PageOf(r[1]) # p}
    <3>1. \A r \in live : r[1] = b <=> PageOf(r[1]) = p BY <2>4, <2>6, <1>p
    <3> QED BY <3>1, <1>2
  <2>12. torn' = torn BY <1>2
  <2>13. Shape' BY <1>1, <2>8, <2>9, <2>10, <2>11, <2>12, ArenaGone
  <2> QED BY <2>7, <2>13
<1> QED BY <1>1, <1>6, <1>7 DEF IInv

\* A block goes back to the list of its size.
LEMMA FreeBlockKept ==
    ASSUME IInv, NEW b \in Address, FreeBlock(b)
    PROVE  IInv'
<1>p. PICK p : p = PageOf(b)
  OBVIOUS
<1>s. PICK s : s = HeaderOf(b).desc
  OBVIOUS
<1> DEFINE list == Append(freeList[s], b)
           BS == BlocksOf(p, s)
           f == Seen(p, pte)
           a == [arena[p] EXCEPT !.cnt = @ + 1]
<1>1. /\ TypeOK /\ Shape /\ fault = "none"
      /\ \E len : <<b, len>> \in live
      /\ p \in Page /\ p \in Mapped /\ arena[p] # NULL /\ arena[p] \in Arena
      /\ \A t \in Sizes : b \notin Range(freeList[t])
      /\ tlb' \in [Page -> Frame \cup {NULL}] /\ stale' \in BOOLEAN
      /\ HeaderOf(b) = header[f] /\ f \in Frame
      /\ ~stale' => ~stale /\ HeaderOf(b) = arena[p] /\ f = pte[p]
  BY <1>p, FreeStart DEF FreeBlock
<1> HIDE DEF f
<1>2. /\ HeaderOf(b) # NULL /\ s # NULL /\ HeaderOf(b).cnt + 1 # blocks_per_arena(s)
      /\ freeList' = [freeList EXCEPT ![s] = list]
      /\ header' = [header EXCEPT ![f].cnt = @ + 1]
      /\ live' = {r \in live : r[1] # b}
      /\ UNCHANGED <<vused, pused, pte, torn, fault>>
  BY <1>p, <1>s DEF FreeBlock, Forget, f
<1>3. /\ header \in [Frame -> Arena \cup {NULL}] /\ header[f] \in Arena /\ s \in Sizes
      /\ header' = [header EXCEPT ![f] = [header[f] EXCEPT !.cnt = @ + 1]]
  <2>1. header \in [Frame -> Arena \cup {NULL}] BY <1>1 DEF TypeOK
  <2>2. header[f] \in Arena BY <2>1, <1>1, <1>2
  <2>3. s \in Sizes BY <2>2, <1>1, <1>2, <1>s DEF Arena
  <2>4. header' = [header EXCEPT ![f] = [header[f] EXCEPT !.cnt = @ + 1]] BY <2>1, <1>1, <1>2
  <2> QED BY <2>1, <2>2, <2>3, <2>4
<1>4. /\ list \in Seq(Address)
      /\ \A i, j \in DOMAIN list : list[i] = list[j] => i = j
      /\ Range(list) = Range(freeList[s]) \cup {b}
  <2>1. \A i, j \in DOMAIN freeList[s] : freeList[s][i] = freeList[s][j] => i = j
    BY <1>1, <1>3 DEF Shape, Lists
  <2>2. freeList[s] \in Seq(Address) /\ b \notin Range(freeList[s])
    BY <1>1, <1>3 DEF TypeOK
  <2> QED BY <2>1, <2>2, AppendElements
<1> HIDE DEF list, BS
<1>5. TypeOK'
  <2>1. header' \in [Frame -> Arena \cup {NULL}]
    <3>1. [header[f] EXCEPT !.cnt = @ + 1] \in Arena BY <1>3 DEF Arena
    <3> QED BY <3>1, <1>3
  <2>2. freeList' \in [Sizes -> Seq(Address)] BY <1>1, <1>2, <1>4 DEF TypeOK
  <2>3. live' \subseteq Address \X (1..NPages * Units) BY <1>1, <1>2 DEF TypeOK
  <2> QED BY <2>1, <2>2, <2>3, <1>1, <1>2 DEF TypeOK
<1>6. ASSUME ~stale' PROVE Shape'
  <2>1. /\ HeaderOf(b) = arena[p] /\ header[f] = arena[p] /\ f = pte[p]
        /\ arena[p].desc = s /\ OfSize(p, s) /\ arena[p].cnt \in Nat
    <3>1. HeaderOf(b) = arena[p] /\ header[f] = arena[p] /\ f = pte[p] BY <1>1, <1>6
    <3>2. arena[p].desc = s BY <3>1, <1>s
    <3> QED BY <3>1, <3>2, <1>1 DEF OfSize, Arena
  <2>2. /\ arena[p].cnt = Cardinality(BS \cap Range(freeList[s]))
        /\ \A c \in BS \ Range(freeList[s]) : <<c, s>> \in live
        /\ \A c \in BS : PageOf(c) = p
        /\ IsFiniteSet(BS) /\ Cardinality(BS) = blocks_per_arena(s)
    BY <1>1, <1>3, <2>1, BlocksInPage DEF Shape, Counts, BS
  <2>3. a \in Arena /\ a # NULL /\ a.desc = s /\ a.cnt = arena[p].cnt + 1
    <3>1. a \in Arena /\ a.desc = s /\ a.cnt = arena[p].cnt + 1 BY <1>1, <2>1 DEF Arena
    <3>2. a # NULL BY <3>1 DEF Arena
    <3> QED BY <3>1, <3>2
  <2>4. \A r \in live : PageOf(r[1]) = p => r[1] \in BS /\ r[1] \notin Range(freeList[s])
    BY <1>1, <1>3, <2>1, HandedKind, ArenaType DEF BS
  <2>5. b \in BS /\ b \notin Range(freeList[s])
    <3>1. PICK len : <<b, len>> \in live BY <1>1
    <3>2. <<b, len>>[1] = b OBVIOUS
    <3> QED BY <3>1, <3>2, <2>4, <1>p
  <2>6. Cardinality(BS \cap Range(list)) = arena[p].cnt + 1
    <3> DEFINE X == BS \cap Range(freeList[s])
    <3>1. IsFiniteSet(X) BY <2>2, FS_Subset
    <3>2. b \notin X BY <2>5
    <3>3. BS \cap Range(list) = X \cup {b} BY <2>5, <1>4
    <3>4. Cardinality(X) = arena[p].cnt BY <2>2
    <3> HIDE DEF X
    <3>5. Cardinality(X \cup {b}) = Cardinality(X) + 1 BY <3>1, <3>2, FS_AddElement
    <3> QED BY <3>3, <3>4, <3>5
  <2>7. ~(BS \subseteq Range(list))
    <3> SUFFICES ASSUME BS \subseteq Range(list) PROVE FALSE
      OBVIOUS
    <3>1. BS \cap Range(list) = BS OBVIOUS
    <3>2. HeaderOf(b).cnt + 1 = blocks_per_arena(s) BY <3>1, <2>1, <2>2, <2>6, Zenon
    <3> QED BY <3>2, <1>2
  <2> HIDE DEF a
  <2>8. pte' = pte /\ pused' = pused /\ vused' = vused /\ torn' = torn /\ Mapped' = Mapped
        /\ pte \in [Page -> Frame \cup {NULL}]
    BY <1>1, <1>2 DEF TypeOK, Mapped
  <2>9. header' = [header EXCEPT ![pte'[p]] = a]
    BY <1>3, <2>1, <2>8 DEF a
  <2>10. arena' = [arena EXCEPT ![p] = a]
    <3>1. \A q, r \in Mapped' : pte'[q] = pte'[r] => q = r BY <2>8, <1>1 DEF Shape, Mapping
    <3>2. \A q \in Page : arena[q] = IF pte'[q] = NULL THEN NULL ELSE header[pte'[q]]
      BY <2>8 DEF arena
    <3> QED BY <3>1, <3>2, <2>8, <2>9, <1>1, <1>3, HeaderWritten
  <2>11. \A q \in Page : arena'[q] = IF q = p THEN a ELSE arena[q]
    BY <2>10 DEF arena
  <2>12. \A q, t : OfSize(q, t)' <=> OfSize(q, t)
    BY <2>11, <2>1, <2>3, <1>1 DEF OfSize
  <2>13. \A q \in Page : (arena'[q] = NULL <=> arena[q] = NULL) /\ (q # p => arena'[q] = arena[q])
    BY <2>11, <2>3, <1>1
  <2>14. \A q : OfSize(q, NULL) => q # p /\ q \in Page /\ arena'[q] = arena[q]
    BY <2>13, <2>1, <1>2 DEF OfSize
  <2>15. /\ freeList'[s] = list
         /\ \A t \in Sizes : t # s => freeList'[t] = freeList[t]
    BY <1>1, <1>2, <1>3 DEF TypeOK
  <2>16. Mapping'
    BY <2>8, <2>9, <1>1, <1>3, <2>1 DEF Shape, Mapping
  <2>17. Lists'
    <3> SUFFICES ASSUME NEW t \in Sizes
                 PROVE  /\ \A i, j \in DOMAIN freeList'[t] : freeList'[t][i] = freeList'[t][j] => i = j
                        /\ \A c \in Range(freeList'[t]) : OfSize(PageOf(c), t)' /\ c \in BlocksOf(PageOf(c), t)
      BY DEF Lists
    <3>1. CASE t = s
      <4>1. ASSUME NEW c \in Range(list) PROVE OfSize(PageOf(c), s)' /\ c \in BlocksOf(PageOf(c), s)
        <5>1. CASE c = b BY <5>1, <1>p, <2>1, <2>5, <2>12 DEF BS
        <5>2. CASE c \in Range(freeList[s]) BY <5>2, <2>12, <1>1, <1>3 DEF Shape, Lists
        <5> QED BY <5>1, <5>2, <1>4
      <4> QED BY <3>1, <4>1, <2>15, <1>4
    <3>2. CASE t # s
      BY <3>2, <2>12, <2>15, <1>1 DEF Shape, Lists
    <3> QED BY <3>1, <3>2
  <2>18. Handed'
    <3> SUFFICES ASSUME NEW r \in live, r[1] # b
                 PROVE \/ /\ r[2] \in Sizes /\ OfSize(PageOf(r[1]), r[2])'
                          /\ r[1] \in BlocksOf(PageOf(r[1]), r[2]) /\ r[1] \notin Range(freeList'[r[2]])
                       \/ /\ OfSize(PageOf(r[1]), NULL)'
                          /\ r[1] = PageOf(r[1]) * Units /\ r[2] = arena'[PageOf(r[1])].cnt * Units
      BY <1>2 DEF Handed
    <3>1. \A t \in Sizes : r[1] \in Range(freeList'[t]) => r[1] \in Range(freeList[t])
      BY <2>15, <1>4
    <3> QED BY <3>1, <2>12, <2>14, <1>1 DEF Shape, Handed
  <2>19. Counts'
    <3> SUFFICES ASSUME NEW q \in Page, NEW t \in Sizes, OfSize(q, t)'
                 PROVE  /\ arena'[q].cnt = Cardinality(BlocksOf(q, t) \cap Range(freeList'[t]))
                        /\ ~(BlocksOf(q, t) \subseteq Range(freeList'[t]))
                        /\ \A c \in BlocksOf(q, t) \ Range(freeList'[t]) : <<c, t>> \in live'
      BY DEF Counts
    <3>0. \A c, t2 : <<c, t2>> \in live /\ c # b => <<c, t2>> \in live'
      BY <1>2
    <3>1. CASE q = p
      <4>1. t = s BY <3>1, <2>1, <2>12 DEF OfSize
      <4>2. arena'[q].cnt = Cardinality(BS \cap Range(freeList'[s])) BY <3>1, <2>3, <2>6, <2>11, <2>15
      <4>3. \A c \in BS \ Range(freeList'[s]) : <<c, s>> \in live'
        BY <3>0, <2>2, <2>15, <1>4
      <4> QED BY <3>1, <4>1, <4>2, <4>3, <2>7, <2>15 DEF BS
    <3>2. CASE q # p
      <4>1. OfSize(q, t) /\ arena'[q] = arena[q] BY <3>2, <2>12, <2>13
      <4>2. \A c \in BlocksOf(q, t) : c # b
        <5>1. \A c \in BlocksOf(q, t) : PageOf(c) = q BY BlocksInPage
        <5> QED BY <5>1, <3>2, <1>p
      <4>3. \A c \in BlocksOf(q, t) : c \in Range(freeList'[t]) <=> c \in Range(freeList[t])
        BY <4>2, <2>15, <1>4
      <4>4. BlocksOf(q, t) \cap Range(freeList'[t]) = BlocksOf(q, t) \cap Range(freeList[t]) BY <4>3
      <4>5. /\ arena[q].cnt = Cardinality(BlocksOf(q, t) \cap Range(freeList[t]))
            /\ ~(BlocksOf(q, t) \subseteq Range(freeList[t]))
            /\ \A c \in BlocksOf(q, t) \ Range(freeList[t]) : <<c, t>> \in live
        BY <4>1, <1>1 DEF Shape, Counts
      <4> QED BY <4>1, <4>2, <4>3, <4>4, <4>5, <3>0
    <3> QED BY <3>1, <3>2
  <2>20. Runs'
    <3> SUFFICES ASSUME NEW q \in Page, OfSize(q, NULL)'
                 PROVE  /\ arena'[q].cnt >= 1 /\ q + arena'[q].cnt <= NPages
                        /\ \A x \in q + 1..q + arena'[q].cnt - 1 : x \in Mapped' /\ arena'[x] = NULL
                        /\ <<q * Units, arena'[q].cnt * Units>> \in live'
      BY DEF Runs
    <3>1. OfSize(q, NULL) /\ arena'[q] = arena[q] /\ q # p BY <2>12, <2>14
    <3>2. /\ arena[q].cnt >= 1 /\ q + arena[q].cnt <= NPages
          /\ \A x \in q + 1..q + arena[q].cnt - 1 : x \in Mapped /\ arena[x] = NULL
          /\ <<q * Units, arena[q].cnt * Units>> \in live
      BY <3>1, <1>1 DEF Shape, Runs
    <3>3. \A x \in Mapped : x \in Page BY DEF Mapped
    <3>4. PageOf(q * Units) = q
      <4>1. arena[q].cnt \in Nat BY <3>1, <1>1, ArenaType DEF OfSize, Arena
      <4> QED BY <4>1, <3>2, RunOfPages
    <3>5. q * Units # b BY <3>1, <3>4, <1>p
    <3>6. <<q * Units, arena[q].cnt * Units>>[1] = q * Units OBVIOUS
    <3>7. <<q * Units, arena[q].cnt * Units>> \in live' BY <3>2, <3>5, <3>6, <1>2
    <3> QED BY <3>1, <3>2, <3>3, <3>7, <2>8, <2>13
  <2>21. Whole'
    <3> SUFFICES ASSUME ~torn'
                 PROVE  /\ vused' \subseteq Mapped'
                        /\ \A q \in Mapped' : arena'[q] = NULL =>
                             \E x \in Page : OfSize(x, NULL)' /\ q \in x + 1..x + arena'[x].cnt - 1
      BY DEF Whole
    <3>1. /\ vused \subseteq Mapped
          /\ \A q \in Mapped : arena[q] = NULL =>
               \E x \in Page : OfSize(x, NULL) /\ q \in x + 1..x + arena[x].cnt - 1
      BY <2>8, <1>1 DEF Shape, Whole
    <3>2. ASSUME NEW q \in Mapped', arena'[q] = NULL
          PROVE  \E x \in Page : OfSize(x, NULL)' /\ q \in x + 1..x + arena'[x].cnt - 1
      <4>1. q \in Mapped /\ q \in Page BY <2>8 DEF Mapped
      <4>2. PICK x \in Page : OfSize(x, NULL) /\ q \in x + 1..x + arena[x].cnt - 1
        BY <4>1, <3>1, <3>2, <2>13
      <4> QED BY <4>2, <2>12, <2>14
    <3> QED BY <3>1, <3>2, <2>8
  <2> QED BY <2>16, <2>17, <2>18, <2>19, <2>20, <2>21 DEF Shape
<1> QED BY <1>1, <1>2, <1>5, <1>6 DEF IInv

\* sys_free() panics only on what an outdated translation shows.
LEMMA FreePanicsKept ==
    ASSUME IInv, NEW b \in Address, FreePanics(b)
    PROVE  IInv'
<1>1. /\ TypeOK /\ Access(PageOf(b), pte)
      /\ fault' = "memory.c:444" /\ HeaderOf(b) = NULL
      /\ UNCHANGED <<vused, pused, pte, header, freeList, live, torn>>
  BY DEF IInv, FreePanics, FreeReads
<1>2. tlb' \in [Page -> Frame \cup {NULL}] /\ stale' \in BOOLEAN
  BY <1>1, PageOfAddress, AccessSees DEF TypeOK
<1>3. TypeOK'
  BY <1>1, <1>2 DEF TypeOK
<1>4. ~stale' => ~stale
  BY <1>1 DEF Access
<1>5. ~stale => FreeReads(b) /\ Sound
  BY DEF FreePanics, FreeReads, Sound
<1>6. stale'
  <2> SUFFICES ASSUME ~stale' PROVE FALSE
    BY <1>2
  <2>1. PICK p : p = PageOf(b) OBVIOUS
  <2>2. HeaderOf(b) = arena[p] /\ arena[p] # NULL BY <2>1, <1>4, <1>5, FreeStart
  <2> QED BY <2>2, <1>1
<1> QED BY <1>3, <1>6 DEF IInv

\* Dropping translations.
LEMMA TranslationsKept ==
    ASSUME IInv, tlb' \in [Page -> Frame \cup {NULL}],
           UNCHANGED <<vused, pused, pte, header, freeList, live, torn, stale, fault>>
    PROVE  IInv'
<1>1. TypeOK'
  BY DEF IInv, TypeOK
<1>2. arena' = arena /\ Mapped' = Mapped
  BY DEF arena, Mapped
<1>3. \A q, s : OfSize(q, s)' <=> OfSize(q, s)
  BY <1>2 DEF OfSize
<1>4. ASSUME Shape PROVE Shape'
  <2>1. Mapping' /\ Lists' /\ Handed'
    BY <1>2, <1>3, <1>4 DEF Shape, Mapping, Lists, Handed
  <2>2. Counts' /\ Runs' /\ Whole'
    BY <1>2, <1>3, <1>4 DEF Shape, Counts, Runs, Whole
  <2> QED BY <2>1, <2>2 DEF Shape
<1> QED BY <1>1, <1>4 DEF IInv

----------------------------------------------------------------------------
LEMMA InitInv == Init => IInv
<1> SUFFICES ASSUME Init PROVE IInv
  OBVIOUS
<1>1. TypeOK
  <2>1. <<>> \in Seq(Address)
    OBVIOUS
  <2>2. freeList \in [Sizes -> Seq(Address)]
    BY <2>1, Zenon DEF Init
  <2>3. /\ pte \in [Page -> Frame \cup {NULL}] /\ tlb \in [Page -> Frame \cup {NULL}]
        /\ header \in [Frame -> Arena \cup {NULL}]
    BY Zenon DEF Init
  <2>4. /\ vused \subseteq Page /\ pused \subseteq Frame
        /\ live \subseteq Address \X (1..NPages * Units)
    BY Zenon DEF Init
  <2>5. /\ torn \in BOOLEAN /\ stale \in BOOLEAN
        /\ fault \in {"none", "memory.c:149", "memory.c:444", "memory.c:455"}
    BY DEF Init
  <2> QED BY <2>2, <2>3, <2>4, <2>5, Zenon DEF TypeOK
<1>2. /\ Mapped = {} /\ \A p \in Page : arena[p] = NULL
      /\ live = {} /\ \A s \in Sizes : freeList[s] = <<>>
  BY DEF Init, Mapped, arena
<1>3. Mapping /\ Whole
  BY <1>2 DEF Init, Mapping, Whole
<1>4. Lists /\ Handed
  <2>1. \A s \in Sizes : DOMAIN freeList[s] = {} /\ Range(freeList[s]) = {}
    <3>1. DOMAIN << >> = {} OBVIOUS
    <3> QED BY <1>2, <3>1 DEF Range
  <2>2. Lists BY <2>1 DEF Lists
  <2>3. Handed BY <1>2 DEF Handed
  <2> QED BY <2>2, <2>3
<1>5. Counts /\ Runs
  BY <1>2 DEF Counts, Runs, OfSize
<1> QED BY <1>1, <1>3, <1>4, <1>5 DEF Init, IInv, Shape

LEMMA NextInv == IInv /\ [Next]_vars => IInv'
<1> SUFFICES ASSUME IInv, [Next]_vars PROVE IInv'
  OBVIOUS
<1>1. ASSUME NEW p \in Page, NEW n \in LargeCnts, MallocLarge(p, n) PROVE IInv'
  BY <1>1, MallocLargeKept
<1>2. ASSUME NEW p \in Page, NEW n \in LargeCnts \cup {1}, malloc_page_Fails(p, n) PROVE IInv'
  BY <1>2, FailureKept
<1>3. ASSUME NEW p \in Page, NEW s \in Sizes, MallocArena(p, s) PROVE IInv'
  BY <1>3, MallocArenaKept
<1>4. ASSUME NEW p \in Page, Evict(p) PROVE IInv'
  BY <1>4, TranslationsKept DEF Evict, IInv, TypeOK
<1>5. ASSUME NEW s \in Sizes, MallocBlock(s) PROVE IInv'
  BY <1>5, MallocBlockKept
<1>6. ASSUME NEW b \in Address, FreeLarge(b) PROVE IInv'
  BY <1>6, FreeLargeKept
<1>7. ASSUME NEW b \in Address, FreeBlock(b) PROVE IInv'
  BY <1>7, FreeBlockKept
<1>8. ASSUME NEW b \in Address, FreeArena(b) PROVE IInv'
  BY <1>8, FreeArenaKept
<1>9. ASSUME NEW b \in Address, FreePanics(b) PROVE IInv'
  BY <1>9, FreePanicsKept
<1>10. CASE page_dir_activate
  BY <1>10, TranslationsKept DEF page_dir_activate
<1>11. CASE UNCHANGED vars
  <2>1. tlb' \in [Page -> Frame \cup {NULL}] BY <1>11 DEF vars, IInv, TypeOK
  <2> QED BY <1>11, <2>1, TranslationsKept DEF vars
<1> QED BY <1>1, <1>2, <1>3, <1>4, <1>5, <1>6, <1>7, <1>8, <1>9, <1>10, <1>11 DEF Next

LEMMA InvHolds == Spec => []IInv
BY InitInv, NextInv, PTL DEF Spec

\* Types: also after a wrong frame has been used.
THEOREM HeapTypeCorrect == Spec => []TypeOK
<1>1. IInv => TypeOK BY DEF IInv
<1> QED BY <1>1, InvHolds, PTL

\* No ASSERT of malloc_page(), sys_malloc() or sys_free() fails (memory.c:149, 444
\* and 455) unless the CPU has used an outdated translation, which
\* page_table_pte_remove() should have dropped.
THEOREM HeapAsserted == Spec => [](~stale => fault = "none")
<1>1. IInv => (~stale => fault = "none") BY DEF IInv
<1> QED BY <1>1, InvHolds, PTL

----------------------------------------------------------------------------
\* The pages of what is handed out have frames of their own, marked used, until
\* sys_free().
THEOREM RegionsBacked == Spec => []Backed
<1>1. IInv => Backed
  <2> SUFFICES ASSUME IInv, ~stale
               PROVE  /\ \A r \in live : \A a \in r[1]..r[1] + r[2] - 1 : pte[PageOf(a)] # NULL
                      /\ \A p \in Page : pte[p] # NULL => p \in vused /\ pte[p] \in pused
                      /\ \A p, q \in Page : p # q /\ pte[p] # NULL => pte[p] # pte[q]
    BY DEF Backed
  <2>1. TypeOK /\ Shape BY DEF IInv
  <2>2. ASSUME NEW r \in live, NEW a \in r[1]..r[1] + r[2] - 1 PROVE pte[PageOf(a)] # NULL
    <3>1. PageOf(a) \in Mapped BY <2>1, HandedPages
    <3> QED BY <3>1 DEF Mapped
  <2>3. \A p \in Page : pte[p] # NULL => p \in vused /\ pte[p] \in pused
    BY <2>1 DEF Shape, Mapping, Mapped
  <2>4. \A p, q \in Page : p # q /\ pte[p] # NULL => pte[p] # pte[q]
    BY <2>1 DEF Shape, Mapping, Mapped
  <2> QED BY <2>2, <2>3, <2>4
<1> QED BY <1>1, InvHolds, PTL

\* A list without repetitions is as long as it has elements.
LEMMA ListLength ==
    ASSUME NEW T, NEW list \in Seq(T), \A i, j \in DOMAIN list : list[i] = list[j] => i = j
    PROVE  Len(list) = Cardinality(Range(list))
<1> DEFINE n == Len(list)
           R == Range(list)
<1>1. n \in Nat /\ DOMAIN list = 1..n /\ list = [i \in 1..n |-> list[i]]
  OBVIOUS
<1>2. \A i \in 1..n : list[i] \in R
  BY <1>1 DEF Range
<1>3. \A x \in R : \E i \in 1..n : list[i] = x
  BY <1>1 DEF Range
<1> HIDE DEF n, R
<1>4. list \in [1..n -> R]
  BY <1>1, <1>2
<1>5. list \in Surjection(1..n, R) /\ list \in Injection(1..n, R)
  BY <1>1, <1>3, <1>4 DEF Surjection, Injection, IsInjective
<1>6. IsFiniteSet(1..n) /\ Cardinality(1..n) = n
  <2>1. 1 \in Int /\ n \in Int BY <1>1
  <2>2. /\ IsFiniteSet(1..n)
        /\ Cardinality(1..n) = IF 1 > n THEN 0 ELSE n - 1 + 1
    BY <2>1, FS_Interval
  <2> QED BY <1>1, <2>2
<1>7. Cardinality(R) = n
  BY <1>5, <1>6, FS_Surjection
<1> QED BY <1>7 DEF n, R

\* The pages in use are those of what is handed out.
LEMMA PagesHandedOut ==
    ASSUME TypeOK, Shape
    PROVE  /\ ArenaPages \subseteq Mapped
           /\ ~torn => Mapped \subseteq ArenaPages
<1> DEFINE span(r) == PageOf(r[1])..PageOf(r[1] + r[2] - 1)
<1>1. ASSUME NEW r \in live PROVE span(r) = PagesOf(PageOf(r[1])) /\ span(r) \subseteq Mapped
  BY HandedPages
<1>2. ArenaPages = UNION {span(r) : r \in live}
  BY DEF ArenaPages
<1>3. ASSUME NEW b, NEW l, <<b, l>> \in live PROVE PagesOf(PageOf(b)) \subseteq ArenaPages
  <2> DEFINE r == <<b, l>>
  <2>1. r \in live /\ r[1] = b BY <1>3
  <2> HIDE DEF r
  <2> QED BY <2>1, <1>1, <1>2
<1>4. ASSUME NEW p \in Page, OfSize(p, NULL)
      PROVE  PagesOf(p) = p..p + arena[p].cnt - 1 /\ PagesOf(p) \subseteq ArenaPages /\ p \in PagesOf(p)
  <2>1. arena[p].cnt \in Nat \ {0} /\ p \in Nat /\ p + arena[p].cnt <= NPages
    <3>1. arena[p].cnt \in Nat /\ p \in Nat BY <1>4, ArenaType DEF OfSize, Arena
    <3>2. arena[p].cnt >= 1 /\ p + arena[p].cnt <= NPages BY <1>4 DEF Shape, Runs
    <3> QED BY <3>1, <3>2
  <2>2. <<p * Units, arena[p].cnt * Units>> \in live BY <1>4 DEF Shape, Runs
  <2>3. PageOf(p * Units) = p BY <2>1, RunOfPages
  <2>4. PagesOf(p) = p..p + arena[p].cnt - 1 BY <1>4 DEF PagesOf, OfSize
  <2>5. PagesOf(p) \subseteq ArenaPages BY <2>2, <2>3, <1>3
  <2>6. p \in p..p + arena[p].cnt - 1 BY <2>1
  <2> QED BY <2>4, <2>5, <2>6
<1>5. ASSUME ~torn, NEW q \in Mapped PROVE q \in ArenaPages
  <2>0. q \in Page BY DEF Mapped
  <2>1. CASE arena[q] = NULL
    <3>1. PICK x \in Page : OfSize(x, NULL) /\ q \in x + 1..x + arena[x].cnt - 1
      BY <1>5, <2>1 DEF Shape, Whole
    <3>2. x \in Nat /\ arena[x].cnt \in Nat BY <3>1, ArenaType DEF OfSize, Arena
    <3>3. q \in x..x + arena[x].cnt - 1 BY <3>1, <3>2
    <3> QED BY <3>1, <3>3, <1>4
  <2>2. CASE OfSize(q, NULL)
    BY <2>0, <2>2, <1>4
  <2>3. CASE arena[q] # NULL /\ arena[q].desc # NULL
    <3> DEFINE s == arena[q].desc
    <3>1. s \in Sizes /\ OfSize(q, s) BY <2>0, <2>3, ArenaType DEF OfSize, Arena
    <3> HIDE DEF s
    <3>2. PICK b \in BlocksOf(q, s) : b \notin Range(freeList[s]) BY <2>0, <3>1 DEF Shape, Counts
    <3>3. <<b, s>> \in live BY <2>0, <3>1, <3>2 DEF Shape, Counts
    <3>4. PageOf(b) = q BY <2>0, <3>1, <3>2, BlocksInPage
    <3>5. q \in PagesOf(q) BY <2>3 DEF PagesOf
    <3> QED BY <3>3, <3>4, <3>5, <1>3
  <2> QED BY <2>0, <2>1, <2>2, <2>3 DEF OfSize
<1>6. ArenaPages \subseteq Mapped
  <2> HIDE DEF span
  <2> QED BY <1>1, <1>2
<1> QED BY <1>5, <1>6

\* The headers, the free lists and the bitmaps agree with what is handed out, and
\* nothing leaks unless malloc_page() has failed half-way.
THEOREM HeapAccounted == Spec => []Accounted
<1>1. IInv => Accounted
  <2> SUFFICES ASSUME IInv, ~stale PROVE Accounted
    BY DEF Accounted
  <2>1. TypeOK /\ Shape BY DEF IInv
  <2>2. ASSUME ~torn PROVE vused = ArenaPages /\ pused = {pte[p] : p \in vused}
    <3>1. vused = Mapped BY <2>1, <2>2 DEF Shape, Mapping, Whole
    <3>2. Mapped = ArenaPages BY <2>1, <2>2, PagesHandedOut
    <3> QED BY <3>1, <3>2, <2>1 DEF Shape, Mapping
  <2>3. ASSUME NEW s \in Sizes PROVE Len(freeList[s]) = Cardinality(Range(freeList[s]))
    <3>1. /\ freeList[s] \in Seq(Address)
          /\ \A i, j \in DOMAIN freeList[s] : freeList[s][i] = freeList[s][j] => i = j
      BY <2>1 DEF TypeOK, Shape, Lists
    <3> QED BY <3>1, ListLength
  <2>4. ASSUME NEW r \in live
        PROVE  LET a == header[pte[PageOf(r[1])]]
               IN  a # NULL /\ (a.desc # NULL =>
                     LET blocks == BlocksOf(PageOf(r[1]), a.desc)
                         isFree == blocks \cap Range(freeList[a.desc])
                     IN  /\ a.desc = r[2] /\ a.cnt = Cardinality(isFree)
                         /\ blocks \ isFree = {b \in blocks : <<b, r[2]>> \in live})
    <3> DEFINE p == PageOf(r[1])
               a == header[pte[p]]
               s == r[2]
    <3>1. /\ p \in Page /\ p \in Mapped /\ arena[p] # NULL
          /\ arena[p].desc # NULL => arena[p].desc = s /\ s \in Sizes
      BY <2>1, HandedKind
    <3>2. a = arena[p] BY <3>1 DEF arena, Mapped
    <3> HIDE DEF a
    <3>3. ASSUME a.desc # NULL
          PROVE  /\ a.desc = s /\ a.cnt = Cardinality(BlocksOf(p, s) \cap Range(freeList[s]))
                 /\ BlocksOf(p, s) \ (BlocksOf(p, s) \cap Range(freeList[s])) =
                      {b \in BlocksOf(p, s) : <<b, s>> \in live}
      <4>1. a.desc = s /\ s \in Sizes /\ OfSize(p, s) BY <3>1, <3>2, <3>3 DEF OfSize
      <4>2. /\ a.cnt = Cardinality(BlocksOf(p, s) \cap Range(freeList[s]))
            /\ \A b \in BlocksOf(p, s) \ Range(freeList[s]) : <<b, s>> \in live
        BY <4>1, <3>1, <3>2, <2>1 DEF Shape, Counts
      <4>3. ASSUME NEW b \in BlocksOf(p, s), <<b, s>> \in live PROVE b \notin Range(freeList[s])
        <5> DEFINE t == <<b, s>>
        <5>1. t \in live /\ t[1] = b /\ t[2] = s BY <4>3
        <5>2. PageOf(b) = p BY <4>1, <3>1, BlocksInPage
        <5> HIDE DEF t, s, p
        <5>3. arena[p].desc = s /\ s # NULL BY <4>1, <3>2, <3>3
        <5> QED BY <5>1, <5>2, <5>3, <2>1, HandedKind
      <4> QED BY <4>1, <4>2, <4>3
    <3> QED BY <3>1, <3>2, <3>3 DEF a
  <2> QED BY <2>2, <2>3, <2>4 DEF Accounted
<1> QED BY <1>1, InvHolds, PTL

----------------------------------------------------------------------------
\* The regions, for the refinement of Heap.
Region(r) == r[1]..r[1] + r[2] - 1

Regional == ~stale => /\ Apart
                      /\ \A r \in live : r[1] \in Region(r) /\ Region(r) \subseteq Address

LEMMA RegionsHold == Spec => []Regional
<1>1. IInv => Regional
  BY LiveApart, HandedPages DEF IInv, Regional, Region
<1> QED BY <1>1, InvHolds, PTL

\* Handing out something new is what Heap calls Malloc.
LEMMA HandOut ==
    ASSUME Regional', ~stale', NEW r0, r0 \notin live, live' = live \cup {r0}
    PROVE  H!Malloc
<1>1. /\ Region(r0) \in SUBSET Address /\ Region(r0) # {}
      /\ \A r \in live : Region(r) \cap Region(r0) = {}
  BY DEF Regional, Apart, Region
<1>2. Region(r0) \cap UNION Regions = {}
  <2>1. Regions = {Region(r) : r \in live} BY DEF Regions, Region
  <2> QED BY <1>1, <2>1
<1>3. Regions' = Regions \cup {Region(r0)}
  BY DEF Regions, Region
<1> QED BY <1>1, <1>2, <1>3 DEF H!Malloc

\* Taking something back is what Heap calls Free.
LEMMA TakeBack ==
    ASSUME Regional, ~stale, NEW b, \E len : <<b, len>> \in live,
           live' = {r \in live : r[1] # b}
    PROVE  H!Free
<1>1. PICK r0 \in live : r0[1] = b
  <2>1. PICK len : <<b, len>> \in live OBVIOUS
  <2>2. <<b, len>>[1] = b OBVIOUS
  <2> QED BY <2>1, <2>2
<1>2. \A r, t \in live : r # t => Region(r) \cap Region(t) = {}
  BY DEF Regional, Apart, Region
<1>3. \A r \in live : r[1] \in Region(r)
  BY DEF Regional
<1>4. ASSUME NEW r \in live PROVE r[1] = b <=> r = r0
  BY <1>1, <1>2, <1>3
<1>5. ASSUME NEW r \in live PROVE Region(r) = Region(r0) <=> r = r0
  BY <1>1, <1>2, <1>3
<1>6. Regions = {Region(r) : r \in live} /\ Regions' = {Region(r) : r \in live'}
  BY DEF Regions, Region
<1>7. Regions' = Regions \ {Region(r0)}
  <2>1. live' = {r \in live : r # r0} BY <1>4
  <2> QED BY <1>5, <1>6, <2>1
<1>8. Region(r0) \in Regions
  BY <1>1, <1>6
<1> QED BY <1>7, <1>8 DEF H!Free

\* What sys_malloc() hands out never overlaps what it has handed out before, and
\* stays its caller's until sys_free(): the heap implements Heap, up to the first use
\* of an outdated translation.
THEOREM HeapImplemented == Spec => ImplementsHeap
<1>1. Init => H!Init
  BY DEF Init, H!Init, Regions
<1>2. IInv /\ Regional /\ Regional' /\ [Next]_vars => [H!Next \/ stale']_Regions
  <2> SUFFICES ASSUME IInv, Regional, Regional', Next, ~stale', live' # live
               PROVE  H!Next
    <3>1. live' = live => Regions' = Regions BY DEF Regions
    <3>2. UNCHANGED vars => live' = live BY DEF vars
    <3> QED BY <3>1, <3>2
  <2>1. ASSUME NEW p \in Page, NEW n \in LargeCnts, MallocLarge(p, n) PROVE H!Next
    <3>1. TypeOK /\ Shape /\ n \in Nat \ {0} /\ malloc_page(p, n)
      BY <2>1 DEF IInv, MallocLarge, malloc_page, Sound
    <3>2. live' = live \cup {<<p * Units, n * Units>>} BY <2>1 DEF MallocLarge
    <3>3. PICK r0 : r0 = <<p * Units, n * Units>> OBVIOUS
    <3>4. live' = live \cup {r0} /\ r0 \notin live BY <3>2, <3>3
    <3> QED BY <3>4, HandOut DEF H!Next
  <2>2. ASSUME NEW p \in Page, NEW s \in Sizes, MallocArena(p, s) PROVE H!Next
    <3>1. live' = live \cup {<<p * Units, s>>} BY <2>2 DEF MallocArena
    <3>2. <<p * Units, s>> \notin live BY <3>1
    <3> QED BY <3>1, <3>2, HandOut DEF H!Next
  <2>3. ASSUME NEW s \in Sizes, MallocBlock(s) PROVE H!Next
    <3>1. PICK r0 : live' = live \cup {r0} BY <2>3 DEF MallocBlock
    <3>2. r0 \notin live BY <3>1
    <3> QED BY <3>1, <3>2, HandOut DEF H!Next
  <2>4. ASSUME NEW b \in Address, FreeLarge(b) \/ FreeBlock(b) \/ FreeArena(b) PROVE H!Next
    <3>1. /\ ~stale /\ \E len : <<b, len>> \in live
          /\ live' = {r \in live : r[1] # b}
      BY <2>4 DEF FreeLarge, FreeBlock, FreeArena, FreeReads, Forget, Sound
    <3> QED BY <3>1, TakeBack DEF H!Next
  <2>5. ASSUME NEW p \in Page, NEW n \in LargeCnts \cup {1}, malloc_page_Fails(p, n) PROVE H!Next
    BY <2>5 DEF malloc_page_Fails
  <2>6. ASSUME NEW b \in Address, FreePanics(b) PROVE H!Next
    BY <2>6 DEF FreePanics
  <2>7. ASSUME NEW p \in Page, Evict(p) \/ page_dir_activate PROVE H!Next
    BY <2>7 DEF Evict, page_dir_activate
  <2> QED BY <2>1, <2>2, <2>3, <2>4, <2>5, <2>6, <2>7 DEF Next, page_dir_activate
<1> QED BY <1>1, <1>2, InvHolds, RegionsHold, PTL DEF Spec, ImplementsHeap
=============================================================================
