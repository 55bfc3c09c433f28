-------------------------- MODULE FileBlocksProofs --------------------------
(***************************************************************************)
(* Proofs about the blocks of files (FileBlocks), for every number of      *)
(* files and blocks and every size of a block and of the two parts of an   *)
(* inode: reads return what was written; and as long as no write has       *)
(* failed half-way, no block is shared, lost or free and in use, and the   *)
(* ASSERTs hold.                                                           *)
(***************************************************************************)
EXTENDS FileBlocks, FiniteSetTheorems, WellFoundedInduction, TLAPS

----------------------------------------------------------------------------
(***************************************************************************)
(* Numbers and sequences.                                                  *)
(***************************************************************************)

\* The parts of an inode are intervals.
LEMMA Parts ==
    /\ IsFiniteSet(Block) /\ Block \subseteq Nat \ {0}
    /\ BLOCK_SIZE \in Nat \ {0} /\ NDirect \in Nat \ {0} /\ NIndirect \in Nat \ {0}
    /\ Total \in Nat /\ NDirect < Total /\ Table = Total
    /\ Direct = 0..NDirect - 1 /\ Indirect = NDirect..Total - 1
    /\ 0 \in Direct /\ 0 \notin Indirect /\ Table \notin Direct /\ Table \notin Indirect
  BY FileBlocksAssumption DEF Total, Table, Direct, Indirect

\* What \div and % give.
LEMMA Division ==
    ASSUME NEW d \in Nat \ {0}, NEW x \in Nat
    PROVE  /\ x \div d \in Nat /\ x % d \in 0..d - 1
           /\ (x \div d) * d <= x /\ x < (x \div d) * d + d
           /\ x = (x \div d) * d + (x % d)
<1>1. x \div d \in Nat /\ (x \div d) * d <= x /\ x < (x \div d) * d + d
  BY Z3
<1>2. x % d \in 0..d - 1
  BY Z3
<1>3. x = d * (x \div d) + (x % d)
  BY Z3
<1>4. d * (x \div d) = (x \div d) * d
  BY <1>1
<1> QED BY <1>1, <1>2, <1>3, <1>4

LEMMA DivisionUnique ==
    ASSUME NEW d \in Nat \ {0}, NEW q \in Nat, NEW o \in 0..d - 1
    PROVE  (q * d + o) \div d = q /\ (q * d + o) % d = o
  BY Z3

LEMMA DivisionMonotone ==
    ASSUME NEW d \in Nat \ {0}, NEW x \in Nat, NEW y \in Nat, x <= y
    PROVE  x \div d <= y \div d
  BY Z3

LEMMA DivisionSmall ==
    ASSUME NEW d \in Nat \ {0}, NEW x \in Nat, NEW m \in Nat, x < m * d
    PROVE  x \div d < m
  BY Z3

\* Every set of natural numbers has a least element.
LEMMA LeastNat ==
    ASSUME NEW S, S \subseteq Nat, S # {}
    PROVE  \E n \in S : \A m \in S : n <= m
<1> DEFINE R == {p \in Nat \X Nat : p[1] < p[2]}
<1>1. IsWellFoundedOn(R, Nat)
  BY NatLessThanWellFounded DEF OpToRel
<1>2. PICK n \in S : \A m \in S : <<m, n>> \notin R
  <2> HIDE DEF R
  <2> QED BY <1>1, WFMin
<1>3. \A m \in S : ~(m < n)
  BY <1>2
<1> QED BY <1>3

\* Concatenation of sequences without common elements.
LEMMA ConcatOnce ==
    ASSUME NEW T, NEW a \in Seq(T), NEW b \in Seq(T),
           \A i, j \in DOMAIN a : a[i] = a[j] => i = j,
           \A i, j \in DOMAIN b : b[i] = b[j] => i = j,
           Range(a) \cap Range(b) = {}
    PROVE  /\ a \o b \in Seq(T)
           /\ \A i, j \in DOMAIN (a \o b) : (a \o b)[i] = (a \o b)[j] => i = j
           /\ Range(a \o b) = Range(a) \cup Range(b)
<1> DEFINE c == a \o b
           m == Len(a)
           k == Len(b)
<1>1. /\ c \in Seq(T) /\ m \in Nat /\ k \in Nat /\ DOMAIN a = 1..m /\ DOMAIN b = 1..k
      /\ DOMAIN c = 1..m + k
  OBVIOUS
<1>2. /\ \A i \in 1..m : c[i] = a[i] /\ a[i] \in Range(a)
      /\ \A i \in 1..k : c[m + i] = b[i] /\ b[i] \in Range(b)
  BY <1>1 DEF Range
<1>3. \A i \in 1..m + k : i \in 1..m \/ (i - m \in 1..k /\ i = m + (i - m))
  BY <1>1
<1>4. Range(c) = {c[i] : i \in 1..m + k} /\ Range(a) = {a[i] : i \in 1..m}
      /\ Range(b) = {b[i] : i \in 1..k}
  BY <1>1 DEF Range
<1> HIDE DEF c, m, k
<1>5. ASSUME NEW i \in 1..m + k, NEW j \in 1..m + k, c[i] = c[j] PROVE i = j
  <2>1. CASE i \in 1..m /\ j \in 1..m BY <1>1, <1>2, <1>5, <2>1
  <2>2. CASE i \in 1..m /\ j - m \in 1..k
    <3>1. c[i] \in Range(a) BY <1>2, <2>2
    <3>2. m + (j - m) = j BY <1>1
    <3>3. c[m + (j - m)] \in Range(b) BY <1>2, <2>2
    <3> QED BY <3>1, <3>2, <3>3, <1>5
  <2>3. CASE i - m \in 1..k /\ j \in 1..m
    <3>1. c[j] \in Range(a) BY <1>2, <2>3
    <3>2. m + (i - m) = i BY <1>1
    <3>3. c[m + (i - m)] \in Range(b) BY <1>2, <2>3
    <3> QED BY <3>1, <3>2, <3>3, <1>5
  <2>4. CASE i - m \in 1..k /\ j - m \in 1..k
    <3>1. m + (i - m) = i /\ m + (j - m) = j BY <1>1
    <3>2. c[i] = b[i - m] /\ c[j] = b[j - m] BY <1>2, <2>4, <3>1
    <3>3. i - m = j - m BY <1>1, <1>5, <2>4, <3>2
    <3> QED BY <3>3, <1>1
  <2> QED BY <1>3, <2>1, <2>2, <2>3, <2>4
<1>6. Range(c) = Range(a) \cup Range(b)
  <2>1. ASSUME NEW x \in Range(c) PROVE x \in Range(a) \cup Range(b)
    <3>1. PICK i \in 1..m + k : x = c[i] BY <1>4
    <3> QED BY <3>1, <1>2, <1>3
  <2>2. ASSUME NEW x \in Range(a) PROVE x \in Range(c)
    <3>1. PICK i \in 1..m : x = a[i] BY <1>4
    <3>2. i \in 1..m + k BY <1>1
    <3> QED BY <3>1, <3>2, <1>2, <1>4
  <2>3. ASSUME NEW x \in Range(b) PROVE x \in Range(c)
    <3>1. PICK i \in 1..k : x = b[i] BY <1>4
    <3>2. m + i \in 1..m + k BY <1>1
    <3>3. c[m + i] = x BY <3>1, <1>2
    <3> QED BY <3>2, <3>3, <1>4
  <2> QED BY <2>1, <2>2, <2>3
<1> QED BY <1>1, <1>5, <1>6 DEF c

\* An interval, listed.
LEMMA ListedInterval ==
    ASSUME NEW u \in Nat, NEW k \in Nat
    PROVE  LET c == [i \in 1..k - u |-> u + i - 1]
           IN  /\ u <= k => c \in Seq(Nat) /\ Len(c) = k - u
               /\ u > k => c = <<>>
               /\ \A i, j \in DOMAIN c : c[i] = c[j] => i = j
               /\ Range(c) = u..k - 1
<1> DEFINE c == [i \in 1..k - u |-> u + i - 1]
<1>1. DOMAIN c = 1..k - u /\ \A i \in 1..k - u : c[i] = u + i - 1
  OBVIOUS
<1>2. \A i, j \in DOMAIN c : c[i] = c[j] => i = j
  BY <1>1
<1>3. Range(c) = u..k - 1
  <2>1. \A i \in 1..k - u : c[i] \in u..k - 1 BY <1>1
  <2>2. \A x \in u..k - 1 : x - u + 1 \in 1..k - u /\ c[x - u + 1] = x BY <1>1
  <2> HIDE DEF c
  <2> QED BY <1>1, <2>1, <2>2 DEF Range
<1>4. u <= k => c \in Seq(Nat) /\ Len(c) = k - u
  <2> SUFFICES ASSUME u <= k PROVE c \in Seq(Nat) /\ Len(c) = k - u
    OBVIOUS
  <2>1. k - u \in Nat OBVIOUS
  <2>2. \A i \in 1..k - u : u + i - 1 \in Nat OBVIOUS
  <2> QED BY <2>1, <2>2
<1>5. u > k => c = <<>>
  <2> SUFFICES ASSUME u > k PROVE c = <<>>
    OBVIOUS
  <2>1. 1..k - u = {} OBVIOUS
  <2>2. DOMAIN c = {} BY <2>1
  <2> QED BY <2>1
<1> QED BY <1>2, <1>3, <1>4, <1>5

\* block_bitmap_alloc() takes blocks that are free, each once.
LEMMA FirstFreeOnce ==
    ASSUME free \subseteq Block, NEW n \in 0..Cardinality(free)
    PROVE  /\ FirstFree(n) \in Seq(free) /\ Len(FirstFree(n)) = n
           /\ \A i, j \in 1..n : FirstFree(n)[i] = FirstFree(n)[j] => i = j
<1> DEFINE below(x) == {c \in free : c < x}
           rank(x) == Cardinality(below(x))
           m == Cardinality(free)
<1>1. IsFiniteSet(free) /\ free \subseteq Nat /\ m \in Nat
  <2>1. IsFiniteSet(free) BY Parts, FS_Subset
  <2> QED BY <2>1, Parts, FS_CardinalityType
<1>2. \A x \in free : IsFiniteSet(below(x)) /\ below(x) \subseteq free /\ rank(x) \in Nat
  <2> SUFFICES ASSUME NEW x \in free
               PROVE  IsFiniteSet(below(x)) /\ below(x) \subseteq free /\ rank(x) \in Nat
    OBVIOUS
  <2>1. below(x) \subseteq free OBVIOUS
  <2>2. IsFiniteSet(below(x)) BY <1>1, <2>1, FS_Subset
  <2> QED BY <2>1, <2>2, FS_CardinalityType
<1>3. \A x, y \in free : x < y => rank(x) < rank(y)
  <2> SUFFICES ASSUME NEW x \in free, NEW y \in free, x < y PROVE rank(x) < rank(y)
    OBVIOUS
  <2>1. below(x) \cup {x} \subseteq below(y) /\ x \notin below(x)
    <3>1. x \in Nat /\ y \in Nat /\ ~(x < x) BY <1>1
    <3>2. ASSUME NEW z \in free, z < x PROVE z < y
      <4>1. z \in Nat BY <1>1
      <4> QED BY <3>1, <3>2, <4>1
    <3>3. \A z \in below(x) : z \in below(y) BY <3>2
    <3> QED BY <3>1, <3>3
  <2>2. Cardinality(below(x) \cup {x}) = rank(x) + 1
    BY <1>2, <2>1, FS_AddElement
  <2>3. Cardinality(below(x) \cup {x}) <= rank(y)
    BY <2>1, <1>2, FS_Subset
  <2> HIDE DEF below
  <2> QED BY <2>2, <2>3, <1>2
<1>4. \A x \in free : rank(x) \in 0..m - 1
  <2> SUFFICES ASSUME NEW x \in free PROVE rank(x) \in 0..m - 1
    OBVIOUS
  <2>1. below(x) # free
    <3>1. ~(x < x) BY <1>1
    <3> QED BY <3>1
  <2>2. rank(x) <= m /\ rank(x) # m
    BY <1>1, <1>2, <2>1, FS_Subset
  <2> QED BY <2>2, <1>1, <1>2
<1>5. \A x, y \in free : rank(x) = rank(y) => x = y
  <2> SUFFICES ASSUME NEW x \in free, NEW y \in free, x # y PROVE rank(x) # rank(y)
    OBVIOUS
  <2>1. x < y \/ y < x BY <1>1
  <2>2. rank(x) \in Nat /\ rank(y) \in Nat BY <1>2
  <2>3. rank(x) < rank(y) \/ rank(y) < rank(x) BY <2>1, <1>3
  <2> HIDE DEF rank
  <2> QED BY <2>2, <2>3
<1>6. \A i \in 0..m - 1 : \E x \in free : rank(x) = i
  <2> DEFINE g == [x \in free |-> rank(x)]
  <2>1. g \in Injection(free, 0..m - 1)
    <3> HIDE DEF rank
    <3> QED BY <1>4, <1>5 DEF Injection, IsInjective
  <2>2. IsFiniteSet(0..m - 1) /\ Cardinality(0..m - 1) = m
    <3>1. 0 \in Int /\ m - 1 \in Int BY <1>1
    <3>2. /\ IsFiniteSet(0..m - 1)
          /\ Cardinality(0..m - 1) = IF 0 > m - 1 THEN 0 ELSE m - 1 - 0 + 1
      BY <3>1, FS_Interval
    <3> QED BY <1>1, <3>2
  <2> HIDE DEF g
  <2>3. g \in Surjection(free, 0..m - 1)
    BY <2>1, <2>2, FS_Injection
  <2>4. \A i \in 0..m - 1 : \E x \in free : g[x] = i BY <2>3 DEF Surjection
  <2> QED BY <2>4 DEF g
<1>7. \A j \in 1..n : FirstFree(n)[j] \in free /\ rank(FirstFree(n)[j]) = j - 1
  <2> SUFFICES ASSUME NEW j \in 1..n
               PROVE  FirstFree(n)[j] \in free /\ rank(FirstFree(n)[j]) = j - 1
    OBVIOUS
  <2>1. j - 1 \in 0..m - 1 BY <1>1
  <2>2. FirstFree(n)[j] = CHOOSE b \in free : rank(b) = j - 1 BY DEF FirstFree
  <2> HIDE DEF rank, m
  <2> QED BY <2>1, <2>2, <1>6
<1>8. FirstFree(n) \in [1..n -> free]
  BY <1>7 DEF FirstFree
<1>9. FirstFree(n) \in Seq(free) /\ Len(FirstFree(n)) = n
  <2>1. n \in Nat BY <1>1
  <2> HIDE DEF rank, m
  <2> QED BY <2>1, <1>8
<1>10. \A i, j \in 1..n : FirstFree(n)[i] = FirstFree(n)[j] => i = j
  <2> HIDE DEF rank
  <2>1. ASSUME NEW i \in 1..n, NEW j \in 1..n, FirstFree(n)[i] = FirstFree(n)[j] PROVE i = j
    <3>1. i - 1 = j - 1 BY <1>7, <2>1
    <3> QED BY <3>1
  <2> QED BY <2>1
<1> QED BY <1>9, <1>10

----------------------------------------------------------------------------
(***************************************************************************)
(* Inodes.                                                                 *)
(***************************************************************************)

\* What an inode names, by index; the table's own block is at Table.
Slot == 0..Total

At(ino, s) == IF s \in Indirect THEN TableOf(ino)[s] ELSE ino.sectors[s]

\* The indices that a file of this size needs.
Used(ino) ==
    IF ino.sectors[0] = 0 THEN {}
    ELSE 0..Blocks(ino.size) - 1 \cup (IF Blocks(ino.size) > NDirect THEN {Table} ELSE {})

\* An inode has the blocks that it needs.  After a write that has failed half-way it
\* may have more, but never in the table.
Sound(ino) ==
    /\ ino \in Inode
    /\ ino.sectors[0] = 0 => ino.size = 0
    /\ Blocks(ino.size) <= Total
    /\ \A s \in Slot : At(ino, s) \in Block \cup {0}
    /\ \A s \in Used(ino) : At(ino, s) # 0
    /\ \A s \in Indirect \ Used(ino) : At(ino, s) = 0
    /\ Table \in Used(ino) => DOMAIN disk[ino.sectors[Table]] = Indirect

LEMMA BlocksOfSize ==
    ASSUME NEW x \in Nat, NEW n \in Nat
    PROVE  Blocks(x) \in Nat \ {0} /\ Blocks(x) <= Blocks(x + n) /\ Blocks(0) = 1
<1>1. x \div BLOCK_SIZE \in Nat /\ (x + n) \div BLOCK_SIZE \in Nat
  <2>1. x + n \in Nat /\ BLOCK_SIZE \in Nat \ {0} BY Parts
  <2>2. x \div BLOCK_SIZE \in Nat BY <2>1, Division
  <2>3. (x + n) \div BLOCK_SIZE \in Nat BY <2>1, Division
  <2> QED BY <2>2, <2>3
<1>2. x \div BLOCK_SIZE <= (x + n) \div BLOCK_SIZE
  <2>1. x + n \in Nat /\ x <= x + n OBVIOUS
  <2> QED BY <2>1, Parts, DivisionMonotone
<1>3. 0 \div BLOCK_SIZE = 0
  BY Parts, Z3
<1> QED BY <1>1, <1>2, <1>3 DEF Blocks

\* The slots for which a write allocates: those that the longer file needs and the
\* file has not needed, each once.
Fresh(ino, n) ==
    (IF ino.sectors[0] = 0 THEN {0} ELSE {})
    \cup (IF Blocks(ino.size + n) > Total THEN {}
          ELSE (IF Blocks(ino.size) <= NDirect /\ NDirect < Blocks(ino.size + n)
                THEN {Table} ELSE {})
               \cup Blocks(ino.size)..Blocks(ino.size + n) - 1)

LEMMA SlotsFresh ==
    ASSUME NEW ino \in Inode, ino.sectors[0] = 0 => ino.size = 0, NEW n \in Nat
    PROVE  /\ Slots(ino, n) \in Seq(Slot)
           /\ \A i, j \in DOMAIN Slots(ino, n) : Slots(ino, n)[i] = Slots(ino, n)[j] => i = j
           /\ Range(Slots(ino, n)) = Fresh(ino, n)
<1> DEFINE used == Blocks(ino.size)
           will == Blocks(ino.size + n)
           a == IF ino.sectors[0] = 0 THEN <<0>> ELSE <<>>
           b == IF used <= NDirect /\ NDirect < will THEN <<Table>> ELSE <<>>
           c == [i \in 1..will - used |-> used + i - 1]
<1>1. /\ used \in Nat \ {0} /\ will \in Nat \ {0} /\ used <= will
      /\ ino.sectors[0] = 0 => used = 1
  BY BlocksOfSize DEF Inode
<1>2. /\ a \in Seq(Slot) /\ \A i, j \in DOMAIN a : a[i] = a[j] => i = j
      /\ Range(a) = IF ino.sectors[0] = 0 THEN {0} ELSE {}
  <2>1. CASE ino.sectors[0] = 0
    <3>1. a = <<0>> /\ 0 \in Slot BY <2>1, Parts DEF Slot
    <3>2. DOMAIN a = {1} /\ a[1] = 0 BY <3>1
    <3>3. a \in Seq(Slot) BY <3>1
    <3> HIDE DEF a
    <3> QED BY <2>1, <3>2, <3>3 DEF Range
  <2>2. CASE ino.sectors[0] # 0
    <3>1. a = <<>> BY <2>2
    <3>2. DOMAIN a = {} /\ a \in Seq(Slot) BY <3>1
    <3> HIDE DEF a
    <3> QED BY <2>2, <3>2 DEF Range
  <2> QED BY <2>1, <2>2
<1>3. /\ b \in Seq(Slot) /\ \A i, j \in DOMAIN b : b[i] = b[j] => i = j
      /\ Range(b) = IF used <= NDirect /\ NDirect < will THEN {Table} ELSE {}
  <2>1. CASE used <= NDirect /\ NDirect < will
    <3>1. b = <<Table>> /\ Table \in Slot BY <2>1, Parts DEF Slot
    <3>2. DOMAIN b = {1} /\ b[1] = Table BY <3>1
    <3>3. b \in Seq(Slot) BY <3>1
    <3> HIDE DEF b
    <3> QED BY <2>1, <3>2, <3>3 DEF Range
  <2>2. CASE ~(used <= NDirect /\ NDirect < will)
    <3>1. b = <<>> BY <2>2
    <3>2. DOMAIN b = {} /\ b \in Seq(Slot) BY <3>1
    <3> HIDE DEF b
    <3> QED BY <2>2, <3>2 DEF Range
  <2> QED BY <2>1, <2>2
<1>4. /\ \A i, j \in DOMAIN c : c[i] = c[j] => i = j
      /\ Range(c) = used..will - 1
      /\ c \in Seq(Nat) /\ Len(c) = will - used
  <2> HIDE DEF used, will
  <2> QED BY <1>1, ListedInterval
<1>5. CASE will > Total
  <2>1. Slots(ino, n) = a \o <<>> BY <1>5 DEF Slots
  <2>2. a \o <<>> = a
    <3> HIDE DEF a
    <3> QED BY <1>2
  <2>3. Fresh(ino, n) = IF ino.sectors[0] = 0 THEN {0} ELSE {}
    BY <1>5 DEF Fresh
  <2> HIDE DEF a, will
  <2> QED BY <2>1, <2>2, <2>3, <1>2, Zenon
<1>6. CASE will <= Total
  <2>1. Slots(ino, n) = a \o (b \o c)
    <3>1. ~(will > Total) BY <1>1, <1>6, Parts
    <3> QED BY <3>1 DEF Slots
  <2>2. c \in Seq(Slot)
    <3>1. \A x \in Range(c) : x \in Slot
      <4> HIDE DEF c, used, will
      <4> QED BY <1>1, <1>4, <1>6, Parts DEF Slot
    <3> HIDE DEF c
    <3>2. \A i \in 1..Len(c) : c[i] \in Slot BY <1>4, <3>1 DEF Range
    <3> QED BY <1>4, <3>2
  <2>3. Range(b) \cap Range(c) = {}
    <3> HIDE DEF b, c, used, will
    <3> QED BY <1>1, <1>3, <1>4, <1>6, Parts
  <2>4. Range(a) \cap (Range(b) \cup Range(c)) = {}
    <3> HIDE DEF a, b, c, used, will
    <3> QED BY <1>1, <1>2, <1>3, <1>4, Parts
  <2> HIDE DEF a, b, c, used, will
  <2>5. /\ b \o c \in Seq(Slot)
        /\ \A i, j \in DOMAIN (b \o c) : (b \o c)[i] = (b \o c)[j] => i = j
        /\ Range(b \o c) = Range(b) \cup Range(c)
    <3>1. b \in Seq(Slot) /\ c \in Seq(Slot) BY <1>3, <2>2
    <3>2. \A i, j \in DOMAIN b : b[i] = b[j] => i = j BY <1>3
    <3>3. \A i, j \in DOMAIN c : c[i] = c[j] => i = j BY <1>4
    <3> QED BY <2>3, <3>1, <3>2, <3>3, ConcatOnce
  <2>6. PICK d : d = b \o c OBVIOUS
  <2>7. /\ a \o d \in Seq(Slot)
        /\ \A i, j \in DOMAIN (a \o d) : (a \o d)[i] = (a \o d)[j] => i = j
        /\ Range(a \o d) = Range(a) \cup Range(d)
    <3>1. /\ d \in Seq(Slot) /\ \A i, j \in DOMAIN d : d[i] = d[j] => i = j
          /\ Range(a) \cap Range(d) = {}
      BY <2>4, <2>5, <2>6, Zenon
    <3>2. a \in Seq(Slot) /\ d \in Seq(Slot) BY <1>2, <3>1
    <3>3. \A i, j \in DOMAIN a : a[i] = a[j] => i = j BY <1>2
    <3>4. \A i, j \in DOMAIN d : d[i] = d[j] => i = j BY <3>1
    <3>5. Range(a) \cap Range(d) = {} BY <3>1
    <3> QED BY <3>2, <3>3, <3>4, <3>5, ConcatOnce
  <2>8. Range(Slots(ino, n)) = Fresh(ino, n)
    <3>1. Range(Slots(ino, n)) = Range(a) \cup (Range(b) \cup Range(c))
      BY <2>1, <2>5, <2>6, <2>7, Zenon
    <3> HIDE DEF Slots
    <3>2. ~(will > Total) BY <1>1, <1>6, Parts
    <3> QED BY <1>2, <1>3, <1>4, <3>1, <3>2 DEF Fresh, used, will
  <2>10. /\ Slots(ino, n) \in Seq(Slot)
         /\ \A i, j \in DOMAIN Slots(ino, n) : Slots(ino, n)[i] = Slots(ino, n)[j] => i = j
    BY <2>1, <2>6, <2>7, Zenon
  <2> QED BY <2>8, <2>10
<1> QED BY <1>1, <1>5, <1>6, Parts

\* An empty table, or the one that is in the block the inode names.
LEMMA TableAt ==
    ASSUME NEW ino \in Inode
    PROVE  /\ ino.size \in Nat /\ DOMAIN ino.sectors = Direct \cup {Table}
           /\ \A s \in Direct \cup {Table} : At(ino, s) = ino.sectors[s] /\ At(ino, s) \in Block \cup {0}
           /\ \A s \in Indirect : At(ino, s) = TableOf(ino)[s]
           /\ ino.sectors[Table] = 0 => \A s \in Indirect : At(ino, s) = 0
           /\ Slot = Direct \cup {Table} \cup Indirect
<1>1. ino.size \in Nat /\ ino.sectors \in [Direct \cup {Table} -> Block \cup {0}]
  BY DEF Inode
<1>2. \A s \in Direct \cup {Table} : At(ino, s) = ino.sectors[s]
  BY Parts DEF At
<1>3. ino.sectors[Table] = 0 => \A s \in Indirect : At(ino, s) = 0
  BY DEF At, TableOf
<1>4. Slot = Direct \cup {Table} \cup Indirect
  BY Parts DEF Slot
<1> QED BY <1>1, <1>2, <1>3, <1>4 DEF At

\* Used, index by index.
LEMMA UsedOf ==
    ASSUME NEW ino \in Inode, Blocks(ino.size) <= Total
    PROVE  /\ Used(ino) \subseteq Slot
           /\ \A s \in Direct \cup Indirect :
                s \in Used(ino) <=> ino.sectors[0] # 0 /\ s < Blocks(ino.size)
           /\ Table \in Used(ino) <=> ino.sectors[0] # 0 /\ Blocks(ino.size) > NDirect
<1>1. Blocks(ino.size) \in Nat \ {0}
  BY BlocksOfSize DEF Inode
<1> HIDE DEF Blocks
<1> QED BY <1>1, Parts DEF Used, Slot

\* A block that is allocated without an ASSERT failing goes where there is none.
LEMMA Unassigned ==
    ASSUME NEW ino, Sound(ino), NEW n \in Nat, NEW s \in Fresh(ino, n), s \in Slot,
           AssertAt(ino, s) = "none"
    PROVE  At(ino, s) = 0
<1>1. ino \in Inode /\ Blocks(ino.size) \in Nat \ {0} /\ Blocks(ino.size + n) \in Nat
  <2>1. ino \in Inode /\ ino.size \in Nat BY TableAt DEF Sound
  <2>2. ino.size + n \in Nat BY <2>1
  <2> QED BY <2>1, <2>2, BlocksOfSize
<1>2. CASE s = Table
  BY <1>1, <1>2, TableAt DEF AssertAt
<1>3. CASE s \in Direct
  <2>1. s # Table BY <1>3, Parts
  <2> QED BY <1>1, <1>3, <2>1, TableAt DEF AssertAt
<1>4. CASE s \in Indirect
  <2>1. s # Table /\ s # 0 BY <1>4, Parts
  <2>2. s >= Blocks(ino.size) BY <1>1, <2>1 DEF Fresh
  <2>3. s \notin Used(ino) BY <1>1, <1>4, <2>2, Parts, UsedOf DEF Sound
  <2> QED BY <1>4, <2>3 DEF Sound
<1> QED BY <1>1, <1>2, <1>3, <1>4, TableAt

\* None fails when the inode has just what it needs.
LEMMA Asserted ==
    ASSUME NEW ino, Sound(ino), NEW n \in Nat, NEW s \in Fresh(ino, n), s \in Slot,
           \A r \in Slot : At(ino, r) # 0 => r \in Used(ino)
    PROVE  AssertAt(ino, s) = "none"
<1>1. /\ ino \in Inode /\ Blocks(ino.size) \in Nat \ {0} /\ Blocks(ino.size + n) \in Nat
      /\ ino.sectors[0] = 0 => Blocks(ino.size) = 1
  <2>1. ino \in Inode /\ ino.size \in Nat BY TableAt DEF Sound
  <2>2. ino.size + n \in Nat BY <2>1
  <2> QED BY <2>1, <2>2, BlocksOfSize DEF Sound
<1>2. s \in Direct \cup {Table} => ino.sectors[s] = 0
  <2> SUFFICES ASSUME s \in Direct \cup {Table}, ino.sectors[s] # 0 PROVE FALSE
    OBVIOUS
  <2>0. At(ino, s) = ino.sectors[s] BY <1>1, TableAt
  <2>1. s \in Used(ino) BY <1>1, <2>0, TableAt
  <2>2. CASE s = Table
    BY <1>1, <2>1, <2>2, Parts, UsedOf DEF Sound, Fresh
  <2>3. CASE s \in Direct
    BY <1>1, <2>1, <2>3, Parts, UsedOf DEF Sound, Fresh
  <2> QED BY <2>2, <2>3
<1>3. s \in Indirect /\ Blocks(ino.size) > NDirect => ino.sectors[Table] # 0
  <2> SUFFICES ASSUME s \in Indirect, Blocks(ino.size) > NDirect PROVE ino.sectors[Table] # 0
    OBVIOUS
  <2>1. ino.sectors[0] # 0 BY <1>1, Parts
  <2>2. Table \in Used(ino) BY <1>1, <2>1, UsedOf DEF Sound
  <2> QED BY <1>1, <2>2, TableAt DEF Sound
<1> QED BY <1>2, <1>3, Parts DEF AssertAt

\* i_sectors after an allocation.
LEMMA AssignedSectors ==
    ASSUME NEW ino \in Inode, NEW slots \in Seq(Slot), NEW lba \in Seq(Block),
           Len(lba) <= Len(slots), \A i, j \in DOMAIN slots : slots[i] = slots[j] => i = j
    PROVE  /\ Assigned(ino, slots, lba) \in [Direct \cup {Table} -> Block \cup {0}]
           /\ \A j \in 1..Len(lba) : /\ lba[j] \in Block /\ slots[j] \in Slot
                                     /\ slots[j] \in Direct \cup {Table} =>
                                          Assigned(ino, slots, lba)[slots[j]] = lba[j]
           /\ \A s \in Direct \cup {Table} :
                (\A j \in 1..Len(lba) : slots[j] # s) =>
                  Assigned(ino, slots, lba)[s] = ino.sectors[s]
<1> DEFINE new(s) == \E j \in 1..Len(lba) : slots[j] = s
           pick(s) == CHOOSE j \in 1..Len(lba) : slots[j] = s
<1>1. ino.sectors \in [Direct \cup {Table} -> Block \cup {0}]
  BY DEF Inode
<1>2. /\ \A j \in 1..Len(lba) : j \in DOMAIN slots /\ lba[j] \in Block /\ slots[j] \in Slot
  OBVIOUS
<1>3. \A s : new(s) => pick(s) \in 1..Len(lba) /\ slots[pick(s)] = s
  OBVIOUS
<1>4. \A j \in 1..Len(lba) : pick(slots[j]) = j
  <2> HIDE DEF pick
  <2> QED BY <1>2, <1>3
<1>5. Assigned(ino, slots, lba) =
        [s \in Direct \cup {Table} |-> IF new(s) THEN lba[pick(s)] ELSE ino.sectors[s]]
  BY <1>1 DEF Assigned
<1> HIDE DEF pick
<1>6. \A s \in Direct \cup {Table} :
        (IF new(s) THEN lba[pick(s)] ELSE ino.sectors[s]) \in Block \cup {0}
  BY <1>1, <1>2, <1>3
<1>7. Assigned(ino, slots, lba) \in [Direct \cup {Table} -> Block \cup {0}]
  <2> HIDE DEF new
  <2> QED BY <1>5, <1>6
<1> QED BY <1>2, <1>4, <1>5, <1>7

----------------------------------------------------------------------------
(***************************************************************************)
(* The invariant.                                                          *)
(***************************************************************************)

\* The inode of a file as its user sees it.
Cur(f) == IF inode[f] # NULL THEN inode[f] ELSE dinode[f]

\* What is on the disk is what is in memory, or lacks what a write that has failed
\* half-way has added there.
Behind(f) ==
    inode[f] # NULL =>
      /\ dinode[f] # NULL /\ inode[f].size = dinode[f].size
      /\ \A s \in Direct \cup {Table} :
           dinode[f].sectors[s] # 0 => dinode[f].sectors[s] = inode[f].sectors[s]

Inodes == \A f \in File :
    /\ Cur(f) # NULL => Sound(Cur(f))
    /\ dinode[f] # NULL => Sound(dinode[f])
    /\ Behind(f)

Positions == \A f \in File :
    /\ (pos[f] = NULL) <=> (inode[f] = NULL)
    /\ pos[f] # NULL => pos[f] \in 0..inode[f].size \cup {Word - 1}

\* No block has two names, none that has a name is free, and what is free holds no
\* table that somebody could find in it.
Apart == \A f, g \in File : Cur(f) # NULL /\ Cur(g) # NULL =>
    \A s, r \in Slot : At(Cur(f), s) # 0 /\ At(Cur(f), s) = At(Cur(g), r) => f = g /\ s = r

Taken == \A f \in File : Cur(f) # NULL => \A s \in Slot : At(Cur(f), s) \notin free

Clean == \A b \in free : DOMAIN disk[b] = Offset

\* The bytes of a file are in blocks of bytes.
Data == \A f \in File : Cur(f) # NULL =>
    \A s \in Used(Cur(f)) \ {Table} : DOMAIN disk[At(Cur(f), s)] = Offset

Names(f, b) == Cur(f) # NULL /\ \E s \in Slot : At(Cur(f), s) = b

\* As long as no write has failed half-way: an inode names what it needs and no more,
\* every block is free or has a name, and only file_read()'s first ASSERT can fail.
Exact ==
    /\ fault \in {"none", "file.c:442"} /\ RangeAsserted
    /\ \A f \in File : inode[f] # NULL => inode[f] = dinode[f]
    /\ \A f \in File : Cur(f) # NULL =>
         \A s \in Slot : At(Cur(f), s) # 0 => s \in Used(Cur(f))
    /\ \A b \in Block \ free : \E f \in File : Names(f, b)

Shape == Inodes /\ Apart /\ Taken /\ Clean /\ Data

IInv == /\ TypeOK /\ disk = [b \in Block |-> disk[b]]
        /\ Shape /\ Positions
        /\ ~torn => Exact

\* An inode names the same blocks as long as its table stays.
LEMMA TableKept ==
    ASSUME NEW ino \in Inode, ino.sectors[Table] # 0 =>
             disk'[ino.sectors[Table]] = disk[ino.sectors[Table]]
    PROVE  /\ \A s \in Slot : At(ino, s)' = At(ino, s)
           /\ TableOf(ino)' = TableOf(ino)
           /\ Sound(ino) => Sound(ino)'
<1>1. TableOf(ino)' = TableOf(ino)
  BY DEF TableOf
<1>2. \A s \in Slot : At(ino, s)' = At(ino, s)
  BY <1>1 DEF At
<1>3. Sound(ino) => Sound(ino)'
  <2> SUFFICES ASSUME Sound(ino) PROVE Sound(ino)'
    OBVIOUS
  <2>1. Used(ino)' = Used(ino) /\ Used(ino) \subseteq Slot /\ Indirect \subseteq Slot
    BY UsedOf, TableAt DEF Sound, Used
  <2>2. Table \in Used(ino) => ino.sectors[Table] # 0
    BY TableAt DEF Sound
  <2> QED BY <1>2, <2>1, <2>2 DEF Sound
<1> QED BY <1>1, <1>2, <1>3

\* A step that works on f leaves the other files as they are, if it writes to no
\* block of theirs.
LEMMA OthersKept ==
    ASSUME Inodes, NEW f \in File,
           \A g \in File \ {f} : inode'[g] = inode[g] /\ dinode'[g] = dinode[g],
           \A g \in File \ {f} : Cur(g) # NULL =>
             \A s \in Slot : At(Cur(g), s) # 0 => disk'[At(Cur(g), s)] = disk[At(Cur(g), s)]
    PROVE  \A g \in File \ {f} :
             /\ Cur(g)' = Cur(g) /\ Behind(g)'
             /\ Cur(g) # NULL => Sound(Cur(g))' /\ \A s \in Slot : At(Cur(g), s)' = At(Cur(g), s)
             /\ dinode[g] # NULL => Sound(dinode[g])'
<1> SUFFICES ASSUME NEW g \in File \ {f}
             PROVE  /\ Cur(g)' = Cur(g) /\ Behind(g)'
                    /\ Cur(g) # NULL =>
                         Sound(Cur(g))' /\ \A s \in Slot : At(Cur(g), s)' = At(Cur(g), s)
                    /\ dinode[g] # NULL => Sound(dinode[g])'
  OBVIOUS
<1>1. inode'[g] = inode[g] /\ dinode'[g] = dinode[g]
  OBVIOUS
<1>2. Cur(g)' = Cur(g) /\ Behind(g)'
  BY <1>1 DEF Cur, Behind, Inodes
<1>3. PICK c : c = Cur(g)
  OBVIOUS
<1>4. PICK d : d = dinode[g]
  OBVIOUS
<1>5. c # NULL => Sound(c)' /\ \A s \in Slot : At(c, s)' = At(c, s)
  <2> SUFFICES ASSUME c # NULL PROVE Sound(c)' /\ \A s \in Slot : At(c, s)' = At(c, s)
    OBVIOUS
  <2>1. Sound(c) /\ c \in Inode BY <1>3 DEF Inodes, Sound
  <2>2. At(c, Table) = c.sectors[Table] /\ Table \in Slot BY <2>1, TableAt
  <2>3. c.sectors[Table] # 0 => disk'[c.sectors[Table]] = disk[c.sectors[Table]]
    BY <1>3, <2>2
  <2> QED BY <2>1, <2>3, TableKept
<1>6. d # NULL => Sound(d)'
  <2> SUFFICES ASSUME d # NULL PROVE Sound(d)'
    OBVIOUS
  <2>1. Sound(d) /\ d \in Inode BY <1>4 DEF Inodes, Sound
  <2>2. c # NULL BY <1>3, <1>4 DEF Cur
  <2>3. c \in Inode BY <1>3, <2>2 DEF Inodes, Sound
  <2>4. d.sectors[Table] # 0 => d.sectors[Table] = c.sectors[Table]
    BY <1>3, <1>4 DEF Inodes, Behind, Cur
  <2>5. At(c, Table) = c.sectors[Table] /\ Table \in Slot BY <2>3, TableAt
  <2>6. d.sectors[Table] # 0 => disk'[d.sectors[Table]] = disk[d.sectors[Table]]
    BY <1>3, <2>2, <2>4, <2>5
  <2> QED BY <2>1, <2>6, TableKept
<1>7. Cur(g) # NULL => Sound(Cur(g))' /\ \A s \in Slot : At(Cur(g), s)' = At(Cur(g), s)
  <2>1. c = Cur(g)' BY <1>2, <1>3
  <2> QED BY <1>3, <1>5, <2>1
<1>8. dinode[g] # NULL => Sound(dinode[g])'
  <2>1. d = dinode'[g] BY <1>1, <1>4
  <2> QED BY <1>4, <1>6, <2>1
<1> QED BY <1>2, <1>7, <1>8

\* A step on f leaves what the other files name and what is in it.
OthersSame(f) == \A g \in File \ {f} :
    /\ Cur(g)' = Cur(g)
    /\ Cur(g) # NULL => \A s \in Slot :
         /\ At(Cur(g), s)' = At(Cur(g), s)
         /\ At(Cur(g), s) # 0 => disk'[At(Cur(g), s)] = disk[At(Cur(g), s)]

\* It leaves the bytes of f, but may add some.
Grows(f) ==
    /\ Cur(f) # NULL /\ Cur(f)' # NULL /\ Cur(f).size <= Cur(f)'.size
    /\ \A s \in Used(Cur(f)) \ {Table} :
         \A o \in Offset : s * BLOCK_SIZE + o < Cur(f).size =>
           /\ At(Cur(f), s)' = At(Cur(f), s)
           /\ disk'[At(Cur(f), s)][o] = disk[At(Cur(f), s)][o]

\* What f names after it, f has named before or was free.
Fits(f) ==
    Cur(f)' # NULL => \A s \in Slot : At(Cur(f), s)' # 0 =>
      /\ At(Cur(f), s)' \in free \/ (Cur(f) # NULL /\ At(Cur(f), s)' = At(Cur(f), s))
      /\ At(Cur(f), s)' \notin free'
      /\ \A r \in Slot : At(Cur(f), r)' = At(Cur(f), s)' => r = s
      /\ s \in Used(Cur(f))' \ {Table} => DOMAIN disk'[At(Cur(f), s)'] = Offset

\* What a step on f must show of f itself.
LEMMA ShapeKept ==
    ASSUME Shape, disk = [b \in Block |-> disk[b]], NEW f \in File,
           \A g \in File \ {f} : inode'[g] = inode[g] /\ dinode'[g] = dinode[g],
           \A b \in Block \ free : Names(f, b) \/ disk'[b] = disk[b],
           Cur(f)' # NULL => Sound(Cur(f))',
           dinode'[f] # NULL => Sound(dinode[f])',
           Behind(f)', Fits(f),
           0 \notin free', free' \subseteq Block,
           \A b \in free' : DOMAIN disk'[b] = Offset,
           \A b \in free' : b \in free \/ Names(f, b)
    PROVE  Shape' /\ OthersSame(f)
<1> USE DEF Fits
<1>1. \A g \in File \ {f} : Cur(g) # NULL => \A s \in Slot : At(Cur(g), s) # 0 =>
        /\ At(Cur(g), s) \in Block \ free
        /\ \A r \in Slot : Cur(f) # NULL => At(Cur(f), r) # At(Cur(g), s)
  <2> SUFFICES ASSUME NEW g \in File \ {f}, Cur(g) # NULL, NEW s \in Slot, At(Cur(g), s) # 0
               PROVE  /\ At(Cur(g), s) \in Block \ free
                      /\ \A r \in Slot : Cur(f) # NULL => At(Cur(f), r) # At(Cur(g), s)
    OBVIOUS
  <2>1. At(Cur(g), s) \in Block \cup {0} BY DEF Shape, Inodes, Sound
  <2>2. At(Cur(g), s) \notin free BY DEF Shape, Taken
  <2>3. \A r \in Slot : Cur(f) # NULL => At(Cur(f), r) # At(Cur(g), s) BY DEF Shape, Apart
  <2> QED BY <2>1, <2>2, <2>3
<1>2. \A g \in File \ {f} : Cur(g) # NULL => \A s \in Slot : At(Cur(g), s) # 0 =>
        disk'[At(Cur(g), s)] = disk[At(Cur(g), s)]
  BY <1>1 DEF Names
<1>3. \A g \in File \ {f} :
        /\ Cur(g)' = Cur(g) /\ Behind(g)'
        /\ Cur(g) # NULL => Sound(Cur(g))' /\ \A s \in Slot : At(Cur(g), s)' = At(Cur(g), s)
        /\ dinode[g] # NULL => Sound(dinode[g])'
  BY <1>2, OthersKept DEF Shape
<1>4. Inodes'
  <2>1. ASSUME NEW g \in File \ {f}
        PROVE  /\ Cur(g)' # NULL => Sound(Cur(g))'
               /\ dinode'[g] # NULL => Sound(dinode[g])'
               /\ Behind(g)'
    BY <1>3
  <2>2. \A g \in File : /\ Cur(g)' # NULL => Sound(Cur(g))'
                        /\ dinode'[g] # NULL => Sound(dinode[g])'
                        /\ Behind(g)'
    BY <2>1
  <2> QED BY <2>2 DEF Inodes
<1>5. Apart'
  <2> SUFFICES ASSUME NEW g \in File, NEW h \in File, Cur(g)' # NULL, Cur(h)' # NULL,
                      NEW s \in Slot, NEW r \in Slot,
                      At(Cur(g), s)' # 0, At(Cur(g), s)' = At(Cur(h), r)'
               PROVE  g = h /\ s = r
    BY DEF Apart
  <2>1. CASE g = f /\ h = f
    BY <2>1
  <2>2. CASE g = f /\ h # f
    <3>1. At(Cur(h), r)' = At(Cur(h), r) /\ Cur(h) # NULL BY <1>3, <2>2
    <3>2. At(Cur(h), r) \in Block \ free
          /\ \A q \in Slot : Cur(f) # NULL => At(Cur(f), q) # At(Cur(h), r)
      BY <1>1, <2>2, <3>1
    <3> QED BY <2>2, <3>1, <3>2
  <2>3. CASE g # f /\ h = f
    <3>1. At(Cur(g), s)' = At(Cur(g), s) /\ Cur(g) # NULL BY <1>3, <2>3
    <3>2. At(Cur(g), s) \in Block \ free
          /\ \A q \in Slot : Cur(f) # NULL => At(Cur(f), q) # At(Cur(g), s)
      BY <1>1, <2>3, <3>1
    <3> QED BY <2>3, <3>1, <3>2
  <2>4. CASE g # f /\ h # f
    <3>1. At(Cur(g), s)' = At(Cur(g), s) /\ At(Cur(h), r)' = At(Cur(h), r)
          /\ Cur(g) # NULL /\ Cur(h) # NULL
      BY <1>3, <2>4
    <3>2. At(Cur(g), s) # 0 /\ At(Cur(g), s) = At(Cur(h), r) BY <3>1
    <3> QED BY <3>1, <3>2 DEF Shape, Apart
  <2> QED BY <2>1, <2>2, <2>3, <2>4
<1>6. Taken'
  <2> SUFFICES ASSUME NEW g \in File, Cur(g)' # NULL, NEW s \in Slot
               PROVE  At(Cur(g), s)' \notin free'
    BY DEF Taken
  <2>1. CASE g = f
    BY <2>1
  <2>2. CASE g # f
    <3>1. At(Cur(g), s)' = At(Cur(g), s) /\ Cur(g) # NULL BY <1>3, <2>2
    <3>2. CASE At(Cur(g), s) = 0 BY <3>1, <3>2
    <3>3. CASE At(Cur(g), s) # 0
      <4>1. At(Cur(g), s) \notin free
            /\ \A q \in Slot : Cur(f) # NULL => At(Cur(f), q) # At(Cur(g), s)
        BY <1>1, <2>2, <3>1, <3>3
      <4> QED BY <3>1, <4>1 DEF Names
    <3> QED BY <3>2, <3>3
  <2> QED BY <2>1, <2>2
<1>7. Clean'
  BY DEF Clean
<1>8. Data'
  <2> SUFFICES ASSUME NEW g \in File, Cur(g)' # NULL, NEW s \in Used(Cur(g))' \ {Table}
               PROVE  DOMAIN disk'[At(Cur(g), s)'] = Offset
    BY DEF Data
  <2>0. s \in Slot /\ At(Cur(g), s)' # 0
    <3>1. Sound(Cur(g))' BY <1>4 DEF Inodes
    <3>2. PICK c : c = Cur(g)' OBVIOUS
    <3>3. c \in Inode /\ Blocks(c.size) <= Total /\ s \in Used(c) BY <3>1, <3>2 DEF Sound, Used
    <3>4. s \in Slot BY <3>3, UsedOf
    <3> QED BY <3>1, <3>4 DEF Sound
  <2>1. CASE g = f
    BY <2>0, <2>1
  <2>2. CASE g # f
    <3>1. At(Cur(g), s)' = At(Cur(g), s) /\ Cur(g) # NULL /\ Cur(g)' = Cur(g)
      BY <1>3, <2>0, <2>2
    <3>2. disk'[At(Cur(g), s)] = disk[At(Cur(g), s)] BY <1>2, <2>0, <2>2, <3>1
    <3>3. s \in Used(Cur(g)) \ {Table} BY <3>1 DEF Used
    <3> QED BY <3>1, <3>2, <3>3 DEF Shape, Data
  <2> QED BY <2>1, <2>2
<1> QED BY <1>2, <1>3, <1>4, <1>5, <1>6, <1>7, <1>8 DEF Shape, OthersSame

LEMMA ExactKept ==
    ASSUME Exact, NEW f \in File,
           \A g \in File \ {f} : inode'[g] = inode[g] /\ dinode'[g] = dinode[g],
           OthersSame(f),
           inode'[f] # NULL => inode'[f] = dinode'[f],
           Cur(f)' # NULL => \A s \in Slot : At(Cur(f), s)' # 0 => s \in Used(Cur(f))',
           \A b \in Block \ free' : b \in free \/ Names(f, b) => Names(f, b)',
           fault' \in {"none", "file.c:442"}, RangeAsserted'
    PROVE  Exact'
<1> USE DEF OthersSame
<1>1. ASSUME NEW g \in File, inode'[g] # NULL PROVE inode'[g] = dinode'[g]
  BY <1>1 DEF Exact
<1>2. ASSUME NEW g \in File, Cur(g)' # NULL, NEW s \in Slot, At(Cur(g), s)' # 0
      PROVE  s \in Used(Cur(g))'
  <2>1. CASE g = f BY <1>2, <2>1
  <2>2. CASE g # f
    <3>1. Cur(g)' = Cur(g) /\ Cur(g) # NULL /\ At(Cur(g), s) # 0 BY <1>2, <2>2
    <3> QED BY <3>1 DEF Exact, Used
  <2> QED BY <2>1, <2>2
<1>3. ASSUME NEW b \in Block \ free' PROVE \E g \in File : Names(g, b)'
  <2>1. CASE b \in free \/ Names(f, b)
    BY <2>1
  <2>2. CASE ~(b \in free \/ Names(f, b))
    <3>1. PICK g \in File : Names(g, b) BY <2>2 DEF Exact
    <3>2. g \in File \ {f} BY <2>2, <3>1
    <3>3. Cur(g)' = Cur(g) /\ \A s \in Slot : At(Cur(g), s)' = At(Cur(g), s)
      BY <3>1, <3>2 DEF Names
    <3>4. PICK s \in Slot : At(Cur(g), s) = b BY <3>1 DEF Names
    <3>5. At(Cur(g), s)' = b /\ Cur(g)' # NULL BY <3>1, <3>3, <3>4 DEF Names
    <3>6. Names(g, b)' BY <3>5 DEF Names
    <3> QED BY <3>6
  <2> QED BY <2>1, <2>2
<1> QED BY <1>1, <1>2, <1>3 DEF Exact

\* An inode that names nothing, of a new file.
LEMMA EmptyInode ==
    ASSUME NEW ino, ino = [size |-> 0, sectors |-> NoBlocks]
    PROVE  Sound(ino) /\ ino # NULL /\ Used(ino) = {} /\ \A s \in Slot : At(ino, s) = 0
<1>1. ino \in Inode /\ ino # NULL /\ ino.size = 0
      /\ \A s \in Direct \cup {Table} : ino.sectors[s] = 0
  <2>1. ino \in Inode BY DEF Inode, NoBlocks
  <2> QED BY <2>1, NullAssumption DEF NoBlocks
<1>2. \A s \in Slot : At(ino, s) = 0
  BY <1>1, TableAt
<1>3. Used(ino) = {}
  BY <1>1, Parts DEF Used
<1>4. Blocks(0) = 1
  <2>1. 0 \in Nat OBVIOUS
  <2> QED BY <2>1, BlocksOfSize
<1>5. Sound(ino)
  <2>1. Blocks(ino.size) <= Total BY <1>1, <1>4, Parts
  <2>2. \A s \in Indirect : At(ino, s) = 0 BY <1>2, <1>1, TableAt
  <2> QED BY <1>1, <1>2, <1>3, <2>1, <2>2 DEF Sound
<1> QED BY <1>1, <1>2, <1>3, <1>5

\* What TypeOK says of the disk.
DiskType == \A b \in Block :
    \/ DOMAIN disk[b] = Offset /\ \A o \in Offset : disk[b][o] \in Byte \cup {NULL}
    \/ disk[b] \in [Indirect -> Block \cup {0}]

\* The two kinds of blocks are told apart.
LEMMA Kinds ==
    ASSUME DiskType
    PROVE  /\ Offset # Indirect
           /\ \A b \in Block : DOMAIN disk[b] = Indirect => disk[b] \in [Indirect -> Block \cup {0}]
           /\ \A b \in Block : DOMAIN disk[b] = Offset =>
                \A o \in Offset : disk[b][o] \in Byte \cup {NULL}
<1>1. 0 \in Offset /\ 0 \notin Indirect
  BY Parts DEF Offset
<1> QED BY <1>1 DEF DiskType

----------------------------------------------------------------------------
(***************************************************************************)
(* The actions keep the invariant.                                         *)
(***************************************************************************)
LEMMA OpenKept ==
    ASSUME IInv, NEW f \in File, file_open(f)
    PROVE  IInv' /\ OthersSame(f) /\ (Cur(f) # NULL => Grows(f))
           /\ Cur(f)' # NULL /\ Cur(f)'.size = IF Cur(f) = NULL THEN 0 ELSE Cur(f).size
<1>0. PICK ino : ino = IF dinode[f] = NULL THEN [size |-> 0, sectors |-> NoBlocks] ELSE dinode[f]
  OBVIOUS
<1>1. /\ fault = "none" /\ pos[f] = NULL /\ inode[f] = NULL
      /\ inode' = [inode EXCEPT ![f] = ino] /\ dinode' = [dinode EXCEPT ![f] = ino]
      /\ pos' = [pos EXCEPT ![f] = 0] /\ got' = <<>>
      /\ UNCHANGED <<free, disk, torn, fault>>
  BY <1>0 DEF file_open, IInv, Positions
<1>2. /\ dinode \in [File -> Inode \cup {NULL}] /\ inode \in [File -> Inode \cup {NULL}]
      /\ pos \in [File -> 0..Word - 1 \cup {NULL}] /\ free \subseteq Block
  BY DEF IInv, TypeOK
<1>3. /\ inode'[f] = ino /\ dinode'[f] = ino /\ pos'[f] = 0
      /\ \A g \in File \ {f} : inode'[g] = inode[g] /\ dinode'[g] = dinode[g] /\ pos'[g] = pos[g]
  BY <1>1, <1>2
<1>4. /\ ino \in Inode /\ ino # NULL /\ Sound(ino)
      /\ Cur(f) = dinode[f] /\ Cur(f)' = ino
      /\ dinode[f] = NULL => Used(ino) = {} /\ \A s \in Slot : At(ino, s) = 0
  <2>1. Cur(f) = dinode[f] BY <1>1 DEF Cur
  <2>2. CASE dinode[f] = NULL
    BY <1>0, <1>3, <2>1, <2>2, EmptyInode DEF Cur, Sound
  <2>3. CASE dinode[f] # NULL
    BY <1>0, <1>3, <2>1, <2>3 DEF Cur, Sound, IInv, Shape, Inodes
  <2> QED BY <2>2, <2>3
<1>5. Sound(ino)' /\ \A s \in Slot : At(ino, s)' = At(ino, s)
  BY <1>1, <1>4, TableKept
<1>6. Behind(f)'
  BY <1>3, <1>4 DEF Behind
<1>7. \A s \in Slot : At(ino, s) # 0 =>
        /\ Cur(f) # NULL /\ At(ino, s) = At(Cur(f), s) /\ At(ino, s) \notin free
        /\ \A r \in Slot : At(ino, r) = At(ino, s) => r = s
        /\ s \in Used(ino) \ {Table} => DOMAIN disk[At(ino, s)] = Offset
  <2> SUFFICES ASSUME NEW s \in Slot, At(ino, s) # 0
               PROVE  /\ Cur(f) # NULL /\ At(ino, s) = At(Cur(f), s) /\ At(ino, s) \notin free
                      /\ \A r \in Slot : At(ino, r) = At(ino, s) => r = s
                      /\ s \in Used(ino) \ {Table} => DOMAIN disk[At(ino, s)] = Offset
    OBVIOUS
  <2>1. Cur(f) = ino BY <1>0, <1>4
  <2> QED BY <1>4, <2>1 DEF IInv, Shape, Taken, Apart, Data
<1>8. 0 \notin free' /\ free' \subseteq Block /\ \A b \in free' : DOMAIN disk'[b] = Offset
  BY <1>1, <1>2, Parts DEF IInv, Shape, Clean
<1>9. Shape' /\ OthersSame(f)
  <2>1. Fits(f)
    <3>1. \A s \in Slot : At(Cur(f), s)' = At(ino, s) BY <1>4, <1>5
    <3>2. Used(Cur(f))' = Used(ino) BY <1>4 DEF Used
    <3> SUFFICES ASSUME NEW s \in Slot, At(Cur(f), s)' # 0
                 PROVE  /\ At(Cur(f), s)' \in free \/ (Cur(f) # NULL /\ At(Cur(f), s)' = At(Cur(f), s))
                        /\ At(Cur(f), s)' \notin free'
                        /\ \A r \in Slot : At(Cur(f), r)' = At(Cur(f), s)' => r = s
                        /\ s \in Used(Cur(f))' \ {Table} => DOMAIN disk'[At(Cur(f), s)'] = Offset
      BY DEF Fits
    <3>3. At(Cur(f), s)' = At(ino, s) /\ At(ino, s) # 0 BY <3>1
    <3>4. At(Cur(f), s)' \notin free' BY <1>1, <1>7, <3>3
    <3>5. Cur(f) # NULL /\ At(Cur(f), s)' = At(Cur(f), s) BY <1>7, <3>3
    <3>6. \A r \in Slot : At(Cur(f), r)' = At(Cur(f), s)' => r = s
      BY <1>7, <3>1, <3>3
    <3>7. s \in Used(Cur(f))' \ {Table} => DOMAIN disk'[At(Cur(f), s)'] = Offset
      BY <1>1, <1>7, <3>2, <3>3
    <3> QED BY <3>4, <3>5, <3>6, <3>7
  <2>2. Sound(Cur(f))' /\ Sound(dinode[f])' BY <1>3, <1>4, <1>5
  <2>3. Shape /\ disk = [b \in Block |-> disk[b]] BY DEF IInv
  <2>4. \A b \in Block \ free : Names(f, b) \/ disk'[b] = disk[b] BY <1>1
  <2>5. \A b \in free' : b \in free \/ Names(f, b) BY <1>1
  <2> QED BY <1>3, <1>6, <1>8, <2>1, <2>2, <2>3, <2>4, <2>5, ShapeKept
<1>10. ASSUME ~torn' PROVE Exact'
  <2>1. Exact BY <1>1, <1>10 DEF IInv
  <2>2. \A s \in Slot : At(Cur(f), s)' # 0 => s \in Used(Cur(f))'
    <3>1. \A s \in Slot : At(ino, s) # 0 => s \in Used(ino) BY <1>0, <1>4, <2>1 DEF Exact
    <3> QED BY <1>4, <1>5, <3>1 DEF Used
  <2>3. \A b \in Block \ free' : b \in free \/ Names(f, b) => Names(f, b)'
    <3> SUFFICES ASSUME NEW b \in Block \ free', Names(f, b) PROVE Names(f, b)'
      BY <1>1
    <3>1. PICK s \in Slot : At(Cur(f), s) = b BY DEF Names
    <3>2. Cur(f) = ino BY <1>0, <1>4 DEF Names
    <3> QED BY <1>4, <1>5, <3>1, <3>2 DEF Names
  <2>4. fault' \in {"none", "file.c:442"} /\ RangeAsserted'
    BY <1>1 DEF RangeAsserted
  <2> QED BY <1>3, <1>9, <2>1, <2>2, <2>3, <2>4, ExactKept
<1>11. TypeOK' /\ disk' = [b \in Block |-> disk'[b]]
  <2>1. 0 \in 0..Word - 1 /\ <<>> \in Seq(Byte \cup {NULL})
    <3>1. <<>> \in Seq(Byte \cup {NULL}) OBVIOUS
    <3> QED BY <3>1, FileBlocksAssumption
  <2>2. pos' \in [File -> 0..Word - 1 \cup {NULL}] BY <1>1, <1>2, <2>1
  <2>3. /\ inode' \in [File -> Inode \cup {NULL}] /\ dinode' \in [File -> Inode \cup {NULL}]
    BY <1>1, <1>2, <1>4
  <2> QED BY <1>1, <2>1, <2>2, <2>3 DEF TypeOK, IInv
<1>12. Positions'
  <2>1. \A g \in File : /\ (pos'[g] = NULL) <=> (inode'[g] = NULL)
                        /\ pos'[g] # NULL => pos'[g] \in 0..inode'[g].size \cup {Word - 1}
    <3>1. 0 # NULL /\ 0 \in 0..ino.size BY <1>4, TableAt, FileBlocksAssumption
    <3> QED BY <1>3, <1>4, <3>1 DEF IInv, Positions
  <2> QED BY <2>1 DEF Positions
<1>13. Cur(f)'.size = IF Cur(f) = NULL THEN 0 ELSE Cur(f).size
  BY <1>0, <1>4
<1>14. Cur(f) # NULL => Grows(f)
  <2> SUFFICES ASSUME Cur(f) # NULL PROVE Grows(f)
    OBVIOUS
  <2>1. Cur(f) = ino BY <1>0, <1>4
  <2>2. Used(ino) \subseteq Slot BY <1>4, UsedOf DEF Sound
  <2>3. \A s \in Used(ino) : At(Cur(f), s)' = At(ino, s) BY <1>4, <1>5, <2>2
  <2>4. disk' = disk /\ ino.size <= ino.size BY <1>1, <1>4, TableAt
  <2> QED BY <1>4, <2>1, <2>3, <2>4 DEF Grows
<1> QED BY <1>4, <1>9, <1>10, <1>11, <1>12, <1>13, <1>14 DEF IInv

\* The inode on the disk names nothing that the one in memory does not.
LEMMA BehindAt ==
    ASSUME Inodes, NEW f \in File, inode[f] # NULL
    PROVE  /\ dinode[f] # NULL /\ Cur(f) = inode[f] /\ inode[f].size = dinode[f].size
           /\ dinode[f] \in Inode /\ inode[f] \in Inode
           /\ Sound(dinode[f]) /\ Sound(inode[f])
           /\ \A s \in Slot : At(dinode[f], s) # 0 => At(dinode[f], s) = At(inode[f], s)
           /\ Used(dinode[f]) \subseteq Used(inode[f])
           /\ \A s \in Used(dinode[f]) : At(dinode[f], s) = At(inode[f], s)
<1>1. PICK d : d = dinode[f]
  OBVIOUS
<1>2. PICK c : c = inode[f]
  OBVIOUS
<1>3. /\ d # NULL /\ Cur(f) = c /\ c.size = d.size /\ d \in Inode /\ c \in Inode
      /\ Sound(d) /\ Sound(c)
      /\ \A s \in Direct \cup {Table} : d.sectors[s] # 0 => d.sectors[s] = c.sectors[s]
  BY <1>1, <1>2 DEF Inodes, Behind, Cur, Sound
<1>4. \A s \in Slot : At(d, s) # 0 => At(d, s) = At(c, s)
  <2> SUFFICES ASSUME NEW s \in Slot, At(d, s) # 0 PROVE At(d, s) = At(c, s)
    OBVIOUS
  <2>1. CASE s \in Direct \cup {Table}
    BY <1>3, <2>1, TableAt
  <2>2. CASE s \in Indirect
    <3>1. d.sectors[Table] # 0 BY <1>3, <2>2, TableAt
    <3>2. TableOf(d) = TableOf(c) BY <1>3, <3>1 DEF TableOf
    <3> QED BY <1>3, <2>2, <3>2, TableAt
  <2> QED BY <1>3, <2>1, <2>2, TableAt
<1>5. Used(d) \subseteq Used(c)
  BY <1>3, Parts DEF Used
<1>6. Used(d) \subseteq Slot
  BY <1>3, UsedOf DEF Sound
<1>7. \A s \in Used(d) : At(d, s) = At(c, s)
  BY <1>3, <1>4, <1>6 DEF Sound
<1> QED BY <1>1, <1>2, <1>3, <1>4, <1>5, <1>7

LEMMA CloseKept ==
    ASSUME IInv, NEW f \in File, file_close(f)
    PROVE  IInv' /\ OthersSame(f) /\ Grows(f) /\ Cur(f)'.size = Cur(f).size
<1>1. /\ pos[f] # NULL /\ inode[f] # NULL
      /\ inode' = [inode EXCEPT ![f] = NULL] /\ pos' = [pos EXCEPT ![f] = NULL]
      /\ got' = <<>> /\ UNCHANGED <<free, disk, dinode, torn, fault>>
  BY DEF file_close, Running, IInv, Positions
<1>2. /\ dinode \in [File -> Inode \cup {NULL}] /\ inode \in [File -> Inode \cup {NULL}]
      /\ pos \in [File -> 0..Word - 1 \cup {NULL}] /\ free \subseteq Block
  BY DEF IInv, TypeOK
<1>3. /\ inode'[f] = NULL /\ dinode'[f] = dinode[f] /\ pos'[f] = NULL
      /\ \A g \in File \ {f} : inode'[g] = inode[g] /\ dinode'[g] = dinode[g] /\ pos'[g] = pos[g]
  BY <1>1, <1>2
<1>4. PICK d : d = dinode[f]
  OBVIOUS
<1>5. /\ d # NULL /\ d \in Inode /\ Sound(d) /\ Cur(f) = inode[f] /\ Cur(f)' = d
      /\ \A s \in Slot : At(d, s) # 0 => At(d, s) = At(Cur(f), s)
      /\ Used(d) \subseteq Used(Cur(f)) /\ Cur(f) # NULL
  BY <1>1, <1>3, <1>4, BehindAt DEF IInv, Shape, Cur
<1>6. Sound(d)' /\ \A s \in Slot : At(d, s)' = At(d, s)
  BY <1>1, <1>5, TableKept
<1>7. Behind(f)'
  BY <1>3 DEF Behind
<1>8. 0 \notin free' /\ free' \subseteq Block /\ \A b \in free' : DOMAIN disk'[b] = Offset
  BY <1>1, <1>2, Parts DEF IInv, Shape, Clean
<1>9. Shape' /\ OthersSame(f)
  <2>1. Fits(f)
    <3>1. \A s \in Slot : At(Cur(f), s)' = At(d, s) BY <1>5, <1>6
    <3>2. Used(Cur(f))' = Used(d) BY <1>5 DEF Used
    <3> SUFFICES ASSUME NEW s \in Slot, At(Cur(f), s)' # 0
                 PROVE  /\ At(Cur(f), s)' \in free \/ (Cur(f) # NULL /\ At(Cur(f), s)' = At(Cur(f), s))
                        /\ At(Cur(f), s)' \notin free'
                        /\ \A r \in Slot : At(Cur(f), r)' = At(Cur(f), s)' => r = s
                        /\ s \in Used(Cur(f))' \ {Table} => DOMAIN disk'[At(Cur(f), s)'] = Offset
      BY DEF Fits
    <3>3. At(Cur(f), s)' = At(d, s) /\ At(d, s) # 0 /\ At(d, s) = At(Cur(f), s) BY <1>5, <3>1
    <3>4. At(Cur(f), s)' \notin free' BY <1>1, <1>5, <3>3 DEF IInv, Shape, Taken
    <3>5. \A r \in Slot : At(Cur(f), r)' = At(Cur(f), s)' => r = s
      <4> SUFFICES ASSUME NEW r \in Slot, At(Cur(f), r)' = At(Cur(f), s)' PROVE r = s
        OBVIOUS
      <4>1. At(d, r) = At(d, s) BY <3>1
      <4>2. At(d, r) = At(Cur(f), r) BY <1>5, <3>3, <4>1
      <4> QED BY <1>5, <3>3, <4>1, <4>2 DEF IInv, Shape, Apart
    <3>6. s \in Used(Cur(f))' \ {Table} => DOMAIN disk'[At(Cur(f), s)'] = Offset
      BY <1>1, <1>5, <3>2, <3>3 DEF IInv, Shape, Data
    <3> QED BY <1>5, <3>3, <3>4, <3>5, <3>6
  <2>2. Sound(Cur(f))' /\ Sound(dinode[f])' BY <1>3, <1>4, <1>5, <1>6
  <2>3. Shape /\ disk = [b \in Block |-> disk[b]] BY DEF IInv
  <2>4. \A b \in Block \ free : Names(f, b) \/ disk'[b] = disk[b] BY <1>1
  <2>5. \A b \in free' : b \in free \/ Names(f, b) BY <1>1
  <2> QED BY <1>3, <1>7, <1>8, <2>1, <2>2, <2>3, <2>4, <2>5, ShapeKept
<1>10. ASSUME ~torn' PROVE Exact'
  <2>1. Exact BY <1>1, <1>10 DEF IInv
  <2>2. d = Cur(f) BY <1>1, <1>4, <1>5, <2>1 DEF Exact
  <2>3. \A s \in Slot : At(Cur(f), s)' # 0 => s \in Used(Cur(f))'
    <3>1. \A s \in Slot : At(d, s) # 0 => s \in Used(d) BY <1>5, <2>1, <2>2 DEF Exact
    <3> QED BY <1>5, <1>6, <3>1 DEF Used
  <2>4. \A b \in Block \ free' : b \in free \/ Names(f, b) => Names(f, b)'
    <3> SUFFICES ASSUME NEW b \in Block \ free', Names(f, b) PROVE Names(f, b)'
      BY <1>1
    <3>1. PICK s \in Slot : At(Cur(f), s) = b BY DEF Names
    <3> QED BY <1>5, <1>6, <2>2, <3>1 DEF Names
  <2>5. fault' \in {"none", "file.c:442"} /\ RangeAsserted'
    <3>1. fault = "none" BY DEF file_close, Running
    <3> QED BY <1>1, <3>1 DEF RangeAsserted
  <2>6. inode'[f] # NULL => inode'[f] = dinode'[f] BY <1>3
  <2> QED BY <1>3, <1>9, <2>1, <2>3, <2>4, <2>5, <2>6, ExactKept
<1>11. TypeOK' /\ disk' = [b \in Block |-> disk'[b]]
  <2>1. <<>> \in Seq(Byte \cup {NULL}) OBVIOUS
  <2>2. pos' \in [File -> 0..Word - 1 \cup {NULL}] BY <1>1, <1>2
  <2>3. inode' \in [File -> Inode \cup {NULL}] BY <1>1, <1>2
  <2> QED BY <1>1, <2>1, <2>2, <2>3 DEF TypeOK, IInv
<1>12. Positions'
  <2>1. \A g \in File : /\ (pos'[g] = NULL) <=> (inode'[g] = NULL)
                        /\ pos'[g] # NULL => pos'[g] \in 0..inode'[g].size \cup {Word - 1}
    BY <1>3 DEF IInv, Positions
  <2> QED BY <2>1 DEF Positions
<1>13. Grows(f) /\ Cur(f)'.size = Cur(f).size
  <2>1. PICK c : c = inode[f] OBVIOUS
  <2>2. /\ c \in Inode /\ Sound(c) /\ c.size = d.size /\ Cur(f) = c
        /\ \A s \in Used(d) : At(d, s) = At(c, s)
    BY <1>1, <1>4, <1>5, <2>1, BehindAt DEF IInv, Shape
  <2>3. c.size \in Nat /\ d.size <= c.size BY <2>2, TableAt
  <2>4. c.size > 0 => Used(c) = Used(d)
    <3>1. c.size > 0 => c.sectors[0] # 0 /\ d.sectors[0] # 0 BY <1>5, <2>2 DEF Sound
    <3> QED BY <2>2, <3>1 DEF Used
  <2>5. ASSUME NEW s \in Used(c) \ {Table}, NEW o \in Offset, s * BLOCK_SIZE + o < c.size
        PROVE  At(Cur(f), s)' = At(c, s) /\ disk'[At(c, s)][o] = disk[At(c, s)][o]
    <3>1. s \in Slot BY <2>2, UsedOf DEF Sound
    <3>2. s * BLOCK_SIZE + o \in Nat
      <4>1. s \in Nat /\ o \in Nat /\ BLOCK_SIZE \in Nat BY <3>1, Parts DEF Slot, Offset
      <4> QED BY <4>1
    <3>3. c.size > 0 BY <2>3, <2>5, <3>2
    <3>4. At(d, s) = At(c, s) BY <2>2, <2>4, <3>3
    <3> QED BY <1>1, <1>5, <1>6, <3>1, <3>4
  <2>6. c.size <= d.size /\ Cur(f)' = d /\ c # NULL BY <1>5, <2>2, <2>3
  <2> QED BY <1>5, <2>2, <2>5, <2>6 DEF Grows
<1> QED BY <1>9, <1>10, <1>11, <1>12, <1>13 DEF IInv

\* What is less than the size of the largest file fits in half a word.
Largest == BLOCK_SIZE * Total

LEMMA SizeFits ==
    /\ Largest \in Nat /\ Word \in Nat /\ 2 * Largest < Word
    /\ \A n \in WriteSizes \cup ReadSizes : n \in Nat /\ n + Largest < Word
    /\ \A z \in Nat : Blocks(z) <= Total => z < Largest
    /\ \A z \in Nat : z < Largest => Blocks(z) <= Total
<1>1. /\ Largest \in Nat /\ Word \in Nat /\ 2 * Largest < Word
      /\ \A n \in WriteSizes \cup ReadSizes : n \in Nat /\ n + Largest < Word
  <2>1. PICK t \in Nat : t = Total BY Parts
  <2>2. PICK b \in Nat : b = BLOCK_SIZE BY Parts
  <2>3. b * t \in Nat /\ 2 * (b * t) = (2 * b) * t BY <2>1, <2>2, Z3
  <2>4. Largest = b * t BY <2>1, <2>2 DEF Largest
  <2>5. (2 * b) * t < Word /\ Word \in Nat
        /\ \A n \in WriteSizes \cup ReadSizes : n \in Nat /\ n + b * t < Word
    BY <2>1, <2>2, FileBlocksAssumption DEF Total
  <2> QED BY <2>3, <2>4, <2>5, Zenon
<1>2. ASSUME NEW z \in Nat PROVE Blocks(z) <= Total <=> z < Largest
  <2>1. z < (z \div BLOCK_SIZE) * BLOCK_SIZE + BLOCK_SIZE /\ z \div BLOCK_SIZE \in Nat
        /\ (z \div BLOCK_SIZE) * BLOCK_SIZE <= z
    BY Parts, Division
  <2>2. PICK q \in Nat : q = z \div BLOCK_SIZE BY <2>1
  <2>3. PICK t \in Nat : t = Total BY Parts
  <2>4. PICK b \in Nat \ {0} : b = BLOCK_SIZE BY Parts
  <2>5. z < q * b + b /\ q * b <= z BY <2>1, <2>2, <2>4
  <2>6. q + 1 <= t => q * b + b <= t * b BY Z3
  <2>7. q >= t => q * b >= t * b BY Z3
  <2>8. t * b = b * t /\ t * b \in Nat /\ q * b \in Nat OBVIOUS
  <2>9. PICK tb \in Nat : tb = t * b BY <2>8
  <2>10. PICK qb \in Nat : qb = q * b BY <2>8
  <2>11. z < tb <=> q + 1 <= t BY <2>5, <2>6, <2>7, <2>9, <2>10
  <2>12. Largest = tb BY <2>3, <2>4, <2>8, <2>9 DEF Largest
  <2>13. Blocks(z) = q + 1 BY <2>2 DEF Blocks
  <2> QED BY <2>3, <2>11, <2>12, <2>13
<1> QED BY <1>1, <1>2

\* Reads, seeks and an ASSERT that fails change none of the files.
LEMMA FilesKept ==
    ASSUME IInv, UNCHANGED <<free, disk, dinode, inode, torn>>,
           \/ pos' = pos
           \/ \E f \in File : pos[f] # NULL /\ \E p \in 0..inode[f].size :
                                pos' = [pos EXCEPT ![f] = p],
           got' \in Seq(Byte \cup {NULL}),
           fault' \in Site \cup {"none"},
           ~torn => fault' \in {"none", "file.c:442"} /\ RangeAsserted'
    PROVE  IInv'
<1>1. \A g \in File : Cur(g)' = Cur(g) /\ Behind(g)' = Behind(g)
  BY DEF Cur, Behind
<1>2. \A ino : TableOf(ino)' = TableOf(ino)
  BY DEF TableOf
<1>3. \A ino, s : At(ino, s)' = At(ino, s)
  BY <1>2 DEF At
<1>4. \A ino : Used(ino)' = Used(ino) /\ Sound(ino)' = Sound(ino)
  BY <1>3 DEF Used, Sound
<1>5. Inodes' /\ Clean'
  BY <1>1, <1>4 DEF IInv, Shape, Inodes, Clean
<1>6. Apart'
  BY <1>1, <1>3 DEF IInv, Shape, Apart
<1>7. Taken'
  BY <1>1, <1>3 DEF IInv, Shape, Taken
<1>8. Data'
  BY <1>1, <1>3, <1>4 DEF IInv, Shape, Data
<1>9. ASSUME ~torn' PROVE Exact'
  <2>1. Exact BY <1>9 DEF IInv
  <2>2. \A b : \A g \in File : Names(g, b)' = Names(g, b) BY <1>1, <1>3 DEF Names
  <2>3. fault' \in {"none", "file.c:442"} /\ RangeAsserted' BY <1>9
  <2>4. \A g \in File : inode'[g] # NULL => inode'[g] = dinode'[g] BY <2>1 DEF Exact
  <2>5. \A g \in File : Cur(g)' # NULL => \A s \in Slot : At(Cur(g), s)' # 0 => s \in Used(Cur(g))'
    BY <1>1, <1>3, <1>4, <2>1 DEF Exact
  <2>6. \A b \in Block \ free' : \E g \in File : Names(g, b)'
    BY <2>1, <2>2 DEF Exact
  <2> QED BY <2>3, <2>4, <2>5, <2>6 DEF Exact
<1>10. CASE pos' = pos
  <2>1. TypeOK' /\ disk' = [b \in Block |-> disk'[b]] BY <1>10 DEF IInv, TypeOK
  <2>2. Positions' BY <1>10 DEF IInv, Positions
  <2> QED BY <1>5, <1>6, <1>7, <1>8, <1>9, <2>1, <2>2 DEF IInv, Shape
<1>11. ASSUME NEW f \in File, pos[f] # NULL,
              \E p \in 0..inode[f].size : pos' = [pos EXCEPT ![f] = p]
       PROVE  IInv'
  <2>1. PICK p \in 0..inode[f].size : pos' = [pos EXCEPT ![f] = p]
    BY <1>11
  <2>2. inode[f] # NULL /\ Sound(inode[f]) /\ inode[f] \in Inode
    BY <1>11, BehindAt DEF IInv, Shape, Positions
  <2>3. p \in 0..Word - 1 /\ p # NULL
    <3>1. PICK z : z = inode[f].size OBVIOUS
    <3>2. z \in Nat /\ Blocks(z) <= Total BY <2>2, <3>1, TableAt DEF Sound
    <3>3. z < Largest /\ Largest \in Nat /\ 2 * Largest < Word BY <3>2, SizeFits
    <3>4. Word \in Nat /\ NULL \notin Nat BY FileBlocksAssumption
    <3> HIDE DEF Largest
    <3> QED BY <3>1, <3>2, <3>3, <3>4
  <2>4. TypeOK' /\ disk' = [b \in Block |-> disk'[b]]
    <3>1. pos' \in [File -> 0..Word - 1 \cup {NULL}] BY <2>1, <2>3 DEF IInv, TypeOK
    <3> QED BY <3>1 DEF IInv, TypeOK
  <2>5. Positions'
    <3>1. pos \in [File -> 0..Word - 1 \cup {NULL}] BY DEF IInv, TypeOK
    <3>2. (\A g \in File : g # f => pos'[g] = pos[g]) /\ pos'[f] = p BY <2>1, <3>1
    <3> QED BY <2>2, <2>3, <3>2 DEF IInv, Positions
  <2> QED BY <1>5, <1>6, <1>7, <1>8, <1>9, <2>4, <2>5 DEF IInv, Shape
<1> QED BY <1>10, <1>11

LEMMA SeekKept ==
    ASSUME IInv, NEW f \in File, NEW p \in Offsets, sys_lseek(f, p)
    PROVE  IInv'
<1>1. /\ pos[f] # NULL /\ p \in 0..inode[f].size /\ pos' = [pos EXCEPT ![f] = p]
      /\ got' = <<>> /\ UNCHANGED <<free, disk, dinode, inode, torn>>
      /\ fault = "none" /\ fault' = "none"
  BY DEF sys_lseek, Running
<1>2. <<>> \in Seq(Byte \cup {NULL})
  OBVIOUS
<1>3. RangeAsserted' /\ fault' \in Site \cup {"none"}
  BY <1>1 DEF RangeAsserted
<1> QED BY <1>1, <1>2, <1>3, FilesKept

\* Each byte of a file is in a block of bytes that its inode names.
LEMMA ByteAt ==
    ASSUME NEW ino, Sound(ino), DiskType, disk = [b \in Block |-> disk[b]],
           \A s \in Used(ino) \ {Table} : DOMAIN disk[At(ino, s)] = Offset,
           NEW at \in 0..ino.size - 1
    PROVE  /\ at \div BLOCK_SIZE \in Used(ino) \ {Table} /\ at % BLOCK_SIZE \in Offset
           /\ BlockOf(ino, at \div BLOCK_SIZE) = At(ino, at \div BLOCK_SIZE)
           /\ disk[BlockOf(ino, at \div BLOCK_SIZE)][at % BLOCK_SIZE] \in Byte \cup {NULL}
<1>1. ino \in Inode /\ ino.size \in Nat /\ Blocks(ino.size) <= Total /\ ino.size # 0
      /\ ino.sectors[0] # 0 /\ at \in Nat /\ at <= ino.size
  <2>1. ino \in Inode /\ ino.size \in Nat BY TableAt DEF Sound
  <2> QED BY <2>1 DEF Sound
<1>2. PICK q \in Nat : q = at \div BLOCK_SIZE
  BY <1>1, Parts, Division
<1>3. q < Blocks(ino.size) /\ Blocks(ino.size) \in Nat
  <2>1. at \div BLOCK_SIZE <= ino.size \div BLOCK_SIZE BY <1>1, Parts, DivisionMonotone
  <2>2. ino.size \div BLOCK_SIZE \in Nat BY <1>1, Parts, Division
  <2> QED BY <1>2, <2>1, <2>2 DEF Blocks
<1>4. q \in Direct \cup Indirect /\ q # Table
  BY <1>1, <1>3, Parts
<1>5. q \in Used(ino)
  BY <1>1, <1>3, <1>4, UsedOf
<1>6. at % BLOCK_SIZE \in Offset
  BY <1>1, Parts, Division DEF Offset
<1>7. BlockOf(ino, q) = At(ino, q)
  BY <1>1, <1>4, TableAt DEF BlockOf
<1>8. At(ino, q) \in Block /\ DOMAIN disk[At(ino, q)] = Offset
  <2>1. q \in Slot BY <1>1, <1>5, UsedOf
  <2> QED BY <1>4, <1>5, <2>1 DEF Sound
<1>9. disk[At(ino, q)][at % BLOCK_SIZE] \in Byte \cup {NULL}
  BY <1>6, <1>8, Kinds
<1> QED BY <1>2, <1>4, <1>5, <1>6, <1>7, <1>9

\* A read from within the file returns what is there, to the end at most; one from
\* before the start fails.
LEMMA ReadWithin ==
    ASSUME IInv, NEW f \in File, NEW count \in ReadSizes, file_read(f, count)
    PROVE  /\ inode[f] # NULL /\ pos[f] # NULL /\ fault = "none"
           /\ fault' \in {"none", "file.c:442", "file.c:475"}
           /\ fault' = "none" =>
                \E size \in Nat \ {0} :
                  /\ pos[f] \in Nat /\ pos[f] + size <= inode[f].size
                  /\ got' = [i \in 1..size |->
                               disk[BlockOf(inode[f], (pos[f] + i - 1) \div BLOCK_SIZE)]
                                   [(pos[f] + i - 1) % BLOCK_SIZE]]
                  /\ pos' = [pos EXCEPT ![f] = pos[f] + size]
           /\ fault' # "none" => UNCHANGED <<got, pos>>
           /\ fault' # "file.c:475"
           /\ RangeAsserted'
<1>1. PICK ino : ino = inode[f]
  OBVIOUS
<1>2. PICK p : p = pos[f]
  OBVIOUS
<1>3. PICK size : size = IF (p + count) % Word > ino.size THEN (ino.size + Word - p) % Word ELSE count
  OBVIOUS
<1>4. PICK last : last = ((p + size) % Word) \div BLOCK_SIZE
  OBVIOUS
<1>5. /\ fault = "none" /\ p # NULL /\ size # 0
      /\ fault' = ReadAssert(ino, p \div BLOCK_SIZE, last)
      /\ fault' = "none" =>
           /\ got' = [i \in 1..size |->
                        disk[BlockOf(ino, (p + i - 1) \div BLOCK_SIZE)][(p + i - 1) % BLOCK_SIZE]]
           /\ pos' = [pos EXCEPT ![f] = p + size]
      /\ fault' # "none" => UNCHANGED <<got, pos>>
      /\ UNCHANGED <<free, disk, dinode, inode, torn>>
  BY <1>1, <1>2, <1>3, <1>4 DEF file_read, Running
<1>6. /\ inode[f] # NULL /\ ino \in Inode /\ Sound(ino) /\ ino.size \in Nat
      /\ Blocks(ino.size) <= Total /\ p \in 0..ino.size \cup {Word - 1}
  <2>1. inode[f] # NULL /\ p \in 0..ino.size \cup {Word - 1}
    BY <1>1, <1>2, <1>5 DEF IInv, Positions
  <2>2. ino \in Inode /\ Sound(ino) BY <1>1, <2>1, BehindAt DEF IInv, Shape
  <2> QED BY <2>1, <2>2, TableAt DEF Sound
<1>7. /\ Largest \in Nat /\ Word \in Nat /\ 2 * Largest < Word /\ ino.size < Largest
      /\ count \in Nat /\ count + Largest < Word
  BY <1>6, SizeFits
<1>8. CASE p \in 0..ino.size
  <2> HIDE DEF Largest
  <2>1. p \in Nat /\ (p + count) % Word = p + count
    <3>1. p + count \in 0..Word - 1 BY <1>6, <1>7, <1>8
    <3> QED BY <1>6, <1>7, <1>8, <3>1, Z3
  <2>2. (ino.size + Word - p) % Word = IF p = 0 THEN ino.size ELSE ino.size - p
    <3>1. ino.size - p \in 0..Word - 1 BY <1>6, <1>7, <1>8
    <3>2. ino.size + Word - p = (ino.size - p) + Word BY <1>6, <1>7, <1>8
    <3>3. PICK x \in 0..Word - 1 : x = ino.size - p BY <3>1
    <3>4. (x + Word) % Word = x BY <1>7, Z3
    <3> QED BY <1>6, <1>8, <3>2, <3>3, <3>4
  <2>3. size \in Nat \ {0} /\ p + size <= ino.size
    <3>1. p + count > ino.size => size = ino.size - p BY <1>3, <1>6, <1>8, <2>1, <2>2
    <3>2. ~(p + count > ino.size) => size = count BY <1>3, <2>1
    <3> QED BY <1>5, <1>6, <1>7, <1>8, <3>1, <3>2
  <2>4. (p + size) % Word = p + size
    <3>1. p + size \in 0..Word - 1 BY <1>6, <1>7, <2>1, <2>3
    <3> QED BY <1>7, <3>1, Z3
  <2>5. last = (p + size) \div BLOCK_SIZE BY <1>4, <2>4
  <2>6. last <= ino.size \div BLOCK_SIZE /\ p \div BLOCK_SIZE <= ino.size \div BLOCK_SIZE
        /\ last \in Nat /\ p \div BLOCK_SIZE \in Nat /\ ino.size \div BLOCK_SIZE \in Nat
    <3>1. p + size \in Nat /\ p + size <= ino.size /\ p <= ino.size BY <1>8, <1>6, <2>1, <2>3
    <3>2. (p + size) \div BLOCK_SIZE <= ino.size \div BLOCK_SIZE
      BY <1>6, <3>1, Parts, DivisionMonotone
    <3>3. p \div BLOCK_SIZE <= ino.size \div BLOCK_SIZE BY <1>6, <2>1, <3>1, Parts, DivisionMonotone
    <3>4. (p + size) \div BLOCK_SIZE \in Nat BY <3>1, Parts, Division
    <3>5. p \div BLOCK_SIZE \in Nat BY <2>1, Parts, Division
    <3>6. ino.size \div BLOCK_SIZE \in Nat BY <1>6, Parts, Division
    <3> QED BY <2>5, <3>2, <3>3, <3>4, <3>5, <3>6
  <2>7. last >= NDirect => ino.sectors[Table] # 0
    <3> SUFFICES ASSUME last >= NDirect PROVE ino.sectors[Table] # 0
      OBVIOUS
    <3>1. Blocks(ino.size) > NDirect BY <2>6, Parts DEF Blocks
    <3>2. ino.size # 0 BY <2>1, <2>3
    <3>3. ino.sectors[0] # 0 BY <1>6, <3>2 DEF Sound
    <3>4. Table \in Used(ino) BY <1>6, <3>1, <3>3, UsedOf
    <3> QED BY <1>6, <3>4, TableAt DEF Sound
  <2>8. fault' \in {"none", "file.c:442"} BY <1>5, <2>7 DEF ReadAssert
  <2>9. fault' = "file.c:442" => ino.size >= (Total - 1) * BLOCK_SIZE
    <3> SUFFICES ASSUME fault' = "file.c:442" PROVE ino.size >= (Total - 1) * BLOCK_SIZE
      OBVIOUS
    <3>1. ino.size \div BLOCK_SIZE >= Total - 1 BY <1>5, <2>6, Parts DEF ReadAssert
    <3>2. PICK q \in Nat : q = ino.size \div BLOCK_SIZE BY <2>6
    <3>3. q * BLOCK_SIZE <= ino.size BY <1>6, <3>2, Parts, Division
    <3>4. PICK t \in Nat : t = Total - 1 BY Parts
    <3>5. PICK b \in Nat : b = BLOCK_SIZE BY Parts
    <3>6. t * b <= q * b BY <3>1, <3>2, <3>4, Z3
    <3>7. PICK tb \in Nat : tb = t * b OBVIOUS
    <3>8. PICK qb \in Nat : qb = q * b OBVIOUS
    <3>9. tb <= ino.size BY <1>6, <3>3, <3>5, <3>6, <3>7, <3>8
    <3> QED BY <1>6, <3>4, <3>5, <3>7, <3>9
  <2>10. RangeAsserted' BY <1>1, <1>5, <1>6, <2>9 DEF RangeAsserted
  <2>11. fault' = "none" =>
           /\ p \in Nat /\ p + size <= ino.size /\ size \in Nat \ {0}
           /\ got' = [i \in 1..size |->
                        disk[BlockOf(ino, (p + i - 1) \div BLOCK_SIZE)][(p + i - 1) % BLOCK_SIZE]]
           /\ pos' = [pos EXCEPT ![f] = p + size]
    BY <1>5, <2>1, <2>3
  <2> QED BY <1>1, <1>2, <1>5, <1>6, <2>8, <2>10, <2>11
<1>9. CASE p = Word - 1 /\ p \notin 0..ino.size
  <2>1. p > ino.size
    <3> HIDE DEF Largest
    <3> QED BY <1>6, <1>7, <1>9
  <2>2. p \div BLOCK_SIZE >= Total - 1
    <3>1. p \in Nat /\ p >= Largest
      <4> HIDE DEF Largest
      <4> QED BY <1>7, <1>9
    <3>2. Blocks(p) > Total
      <4>1. Blocks(p) \in Nat /\ Total \in Nat
        <5>1. 0 \in Nat OBVIOUS
        <5> QED BY <3>1, <5>1, Parts, BlocksOfSize
      <4>2. ~(p < Largest)
        <5> HIDE DEF Largest
        <5> QED BY <1>7, <3>1
      <4> HIDE DEF Largest
      <4> QED BY <3>1, <4>1, <4>2, SizeFits
    <3>3. p \div BLOCK_SIZE \in Nat BY <3>1, Parts, Division
    <3> QED BY <3>2, <3>3, Parts DEF Blocks
  <2>3. fault' = "file.c:442" BY <1>5, <2>2 DEF ReadAssert
  <2>4. RangeAsserted' BY <1>1, <1>2, <1>5, <1>6, <2>1, <2>3 DEF RangeAsserted
  <2> QED BY <1>1, <1>2, <1>5, <1>6, <2>3, <2>4
<1> QED BY <1>6, <1>8, <1>9

LEMMA ReadKept ==
    ASSUME IInv, NEW f \in File, NEW count \in ReadSizes, file_read(f, count)
    PROVE  IInv'
<1>1. /\ inode[f] # NULL /\ pos[f] # NULL /\ fault' \in {"none", "file.c:442", "file.c:475"}
      /\ fault' # "file.c:475" /\ RangeAsserted'
      /\ UNCHANGED <<free, disk, dinode, inode, torn>>
  BY ReadWithin DEF file_read
<1>2. Sound(inode[f]) /\ Cur(f) = inode[f]
  BY <1>1, BehindAt DEF IInv, Shape
<1>3. fault' \in Site \cup {"none"} /\ fault' \in {"none", "file.c:442"}
  BY <1>1 DEF Site
<1>4. CASE fault' # "none"
  <2>1. got' \in Seq(Byte \cup {NULL}) /\ pos' = pos BY <1>4, ReadWithin DEF IInv, TypeOK
  <2> QED BY <1>1, <1>3, <2>1, FilesKept
<1>5. CASE fault' = "none"
  <2>1. PICK size \in Nat \ {0} :
          /\ pos[f] \in Nat /\ pos[f] + size <= inode[f].size
          /\ got' = [i \in 1..size |->
                       disk[BlockOf(inode[f], (pos[f] + i - 1) \div BLOCK_SIZE)]
                           [(pos[f] + i - 1) % BLOCK_SIZE]]
          /\ pos' = [pos EXCEPT ![f] = pos[f] + size]
    BY <1>5, ReadWithin
  <2>2. inode[f].size \in Nat BY <1>2, TableAt DEF Sound
  <2>3. \A i \in 1..size : pos[f] + i - 1 \in 0..inode[f].size - 1
    BY <2>1, <2>2
  <2>4. DiskType /\ \A s \in Used(inode[f]) \ {Table} : DOMAIN disk[At(inode[f], s)] = Offset
    <3>1. DiskType BY DEF IInv, TypeOK, DiskType
    <3>2. Cur(f) # NULL /\ Data BY <1>1, <1>2 DEF IInv, Shape
    <3> QED BY <1>2, <3>1, <3>2 DEF Data
  <2>5. \A i \in 1..size : disk[BlockOf(inode[f], (pos[f] + i - 1) \div BLOCK_SIZE)]
                                [(pos[f] + i - 1) % BLOCK_SIZE] \in Byte \cup {NULL}
    <3> SUFFICES ASSUME NEW i \in 1..size
                 PROVE  disk[BlockOf(inode[f], (pos[f] + i - 1) \div BLOCK_SIZE)]
                            [(pos[f] + i - 1) % BLOCK_SIZE] \in Byte \cup {NULL}
      OBVIOUS
    <3>1. disk = [b \in Block |-> disk[b]] BY DEF IInv
    <3> QED BY <1>2, <2>3, <2>4, <3>1, ByteAt
  <2>6. got' \in Seq(Byte \cup {NULL})
    BY <2>1, <2>5
  <2>7. pos[f] + size \in 0..inode[f].size BY <2>1, <2>2
  <2>8. pos[f] # NULL /\ \E p \in 0..inode[f].size : pos' = [pos EXCEPT ![f] = p]
    BY <1>1, <2>1, <2>7
  <2> QED BY <1>1, <1>3, <2>6, <2>8, FilesKept
<1> QED BY <1>4, <1>5

\* inode_release() frees what the inode names.
LEMMA ReleasedNames ==
    ASSUME NEW ino \in Inode
    PROVE  Released(ino) = {At(ino, s) : s \in Slot} \ {0}
<1>1. /\ DOMAIN ino.sectors = Direct \cup {Table}
      /\ \A s \in Direct \cup {Table} : At(ino, s) = ino.sectors[s]
      /\ \A s \in Indirect : At(ino, s) = TableOf(ino)[s]
      /\ Slot = Direct \cup {Table} \cup Indirect
  BY TableAt
<1>2. DOMAIN TableOf(ino) = Indirect
  BY DEF TableOf
<1>3. Range(ino.sectors) = {At(ino, s) : s \in Direct \cup {Table}}
  BY <1>1 DEF Range
<1>4. Range(TableOf(ino)) = {At(ino, s) : s \in Indirect}
  BY <1>1, <1>2 DEF Range
<1> QED BY <1>1, <1>3, <1>4 DEF Released

LEMMA UnlinkKept ==
    ASSUME IInv, NEW f \in File, sys_unlink(f)
    PROVE  /\ IInv' /\ inode'[f] = NULL
           /\ \/ OthersSame(f) /\ Cur(f) # NULL /\ Cur(f)' = NULL
              \/ UNCHANGED <<disk, dinode, inode>>
<1>1. PICK ino : ino = dinode[f]
  OBVIOUS
<1>2. PICK blocks : blocks = Released(ino)
  OBVIOUS
<1>3. /\ fault = "none" /\ ino # NULL /\ pos[f] = NULL /\ got' = <<>>
      /\ UNCHANGED <<inode, pos, torn>>
      /\ \/ /\ free' = free \cup blocks
            /\ disk' = [b \in Block |-> IF b \in blocks THEN Blank ELSE disk[b]]
            /\ dinode' = [dinode EXCEPT ![f] = NULL]
            /\ UNCHANGED fault
         \/ /\ ino.sectors[Table] # 0 /\ DOMAIN disk[ino.sectors[Table]] = Offset
            /\ fault' = "inode.c:212"
            /\ UNCHANGED <<free, disk, dinode>>
  BY <1>1, <1>2 DEF sys_unlink
<1>4. /\ dinode \in [File -> Inode \cup {NULL}] /\ inode \in [File -> Inode \cup {NULL}]
      /\ pos \in [File -> 0..Word - 1 \cup {NULL}] /\ free \subseteq Block
  BY DEF IInv, TypeOK
<1>5. /\ inode[f] = NULL /\ Cur(f) = ino /\ ino \in Inode /\ Sound(ino)
  BY <1>1, <1>3 DEF IInv, Positions, Shape, Inodes, Cur, Sound
<1>6. /\ blocks = {At(ino, s) : s \in Slot} \ {0} /\ blocks \subseteq Block
      /\ \A b \in blocks : Names(f, b)
  <2>1. blocks = {At(ino, s) : s \in Slot} \ {0} BY <1>2, <1>5, ReleasedNames
  <2> QED BY <1>3, <1>5, <2>1 DEF Sound, Names
<1>7. <<>> \in Seq(Byte \cup {NULL})
  OBVIOUS
<1>8. CASE /\ ino.sectors[Table] # 0 /\ DOMAIN disk[ino.sectors[Table]] = Offset
           /\ fault' = "inode.c:212" /\ UNCHANGED <<free, disk, dinode>>
  <2>1. torn
    <3> SUFFICES ASSUME ~torn PROVE FALSE
      OBVIOUS
    <3>1. Table \in Slot /\ At(ino, Table) = ino.sectors[Table] BY <1>5, TableAt
    <3>2. Table \in Used(ino) BY <1>3, <1>5, <1>8, <3>1 DEF IInv, Exact
    <3>3. DOMAIN disk[ino.sectors[Table]] = Indirect BY <1>5, <3>2 DEF Sound
    <3>4. Offset # Indirect
      <4>1. DiskType BY DEF IInv, TypeOK, DiskType
      <4> QED BY <4>1, Kinds
    <3> QED BY <1>8, <3>3, <3>4
  <2>2. fault' \in Site \cup {"none"} BY <1>8 DEF Site
  <2>3. got' \in Seq(Byte \cup {NULL}) /\ pos' = pos BY <1>3, <1>7
  <2>4. IInv' BY <1>3, <1>8, <2>1, <2>2, <2>3, FilesKept
  <2> QED BY <1>3, <1>5, <1>8, <2>4
<1>9. CASE /\ free' = free \cup blocks
           /\ disk' = [b \in Block |-> IF b \in blocks THEN Blank ELSE disk[b]]
           /\ dinode' = [dinode EXCEPT ![f] = NULL] /\ UNCHANGED fault
  <2>1. /\ inode'[f] = NULL /\ dinode'[f] = NULL
        /\ \A g \in File \ {f} : inode'[g] = inode[g] /\ dinode'[g] = dinode[g]
    BY <1>3, <1>4, <1>5, <1>9
  <2>2. Cur(f)' = NULL /\ Behind(f)' BY <2>1 DEF Cur, Behind
  <2>3. DOMAIN Blank = Offset BY DEF Blank
  <2>4. /\ \A b \in blocks : disk'[b] = Blank
        /\ \A b \in Block \ blocks : disk'[b] = disk[b]
    BY <1>6, <1>9
  <2>5. 0 \notin free' /\ free' \subseteq Block BY <1>4, <1>6, <1>9, Parts
  <2>6. \A b \in free' : DOMAIN disk'[b] = Offset
    <3> SUFFICES ASSUME NEW b \in free' PROVE DOMAIN disk'[b] = Offset
      OBVIOUS
    <3>1. CASE b \in blocks BY <2>3, <2>4, <3>1
    <3>2. CASE b \notin blocks
      BY <1>9, <2>4, <2>5, <3>2 DEF IInv, Shape, Clean
    <3> QED BY <3>1, <3>2
  <2>7. \A b \in free' : b \in free \/ Names(f, b) BY <1>6, <1>9
  <2>8. \A b \in Block \ free : Names(f, b) \/ disk'[b] = disk[b] BY <1>6, <2>4
  <2>9. Shape' /\ OthersSame(f)
    <3>1. Shape /\ disk = [b \in Block |-> disk[b]] BY DEF IInv
    <3>2. Fits(f) BY <2>2 DEF Fits
    <3> QED BY <2>1, <2>2, <2>5, <2>6, <2>7, <2>8, <3>1, <3>2, ShapeKept
  <2>10. ASSUME ~torn' PROVE Exact'
    <3>1. Exact BY <1>3, <2>10 DEF IInv
    <3>2. \A b \in Block \ free' : ~(b \in free \/ Names(f, b))
      <4> SUFFICES ASSUME NEW b \in Block \ free', Names(f, b) PROVE FALSE
        BY <1>9
      <4>1. PICK s \in Slot : At(ino, s) = b BY <1>5 DEF Names
      <4>2. b # 0 BY Parts
      <4> QED BY <1>6, <1>9, <4>1, <4>2
    <3>3. fault' \in {"none", "file.c:442"} /\ RangeAsserted'
      BY <1>3, <1>9 DEF RangeAsserted
    <3> QED BY <2>1, <2>2, <2>9, <3>1, <3>2, <3>3, ExactKept
  <2>11. TypeOK' /\ disk' = [b \in Block |-> disk'[b]]
    <3>1. dinode' \in [File -> Inode \cup {NULL}] BY <1>4, <1>9
    <3>2. \A b \in Block :
            \/ DOMAIN disk'[b] = Offset /\ \A o \in Offset : disk'[b][o] \in Byte \cup {NULL}
            \/ disk'[b] \in [Indirect -> Block \cup {0}]
      <4> SUFFICES ASSUME NEW b \in Block
                   PROVE  \/ /\ DOMAIN disk'[b] = Offset
                             /\ \A o \in Offset : disk'[b][o] \in Byte \cup {NULL}
                          \/ disk'[b] \in [Indirect -> Block \cup {0}]
        OBVIOUS
      <4>1. CASE b \in blocks BY <2>4, <4>1 DEF Blank
      <4>2. CASE b \notin blocks BY <2>4, <4>2 DEF IInv, TypeOK
      <4> QED BY <4>1, <4>2
    <3>3. disk' = [b \in Block |-> disk'[b]] BY <1>9
    <3> QED BY <1>3, <1>7, <1>9, <2>5, <3>1, <3>2, <3>3 DEF TypeOK, IInv
  <2>12. Positions' BY <1>3 DEF IInv, Positions
  <2> QED BY <1>3, <1>5, <2>1, <2>2, <2>9, <2>10, <2>11, <2>12 DEF IInv
<1> QED BY <1>3, <1>8, <1>9

\* What an inode names after the blocks lba have been allocated for the slots, those
\* in the table included.
NewAt(ino, slots, lba, s) ==
    IF \E j \in 1..Len(lba) : slots[j] = s
    THEN lba[CHOOSE j \in 1..Len(lba) : slots[j] = s] ELSE At(ino, s)

\* An allocation without a failed ASSERT: the blocks lba, for the first of the slots.
Asked(ino, n, slots, lba) ==
    /\ slots \in Seq(Slot) /\ Range(slots) = Fresh(ino, n)
    /\ \A i, j \in DOMAIN slots : slots[i] = slots[j] => i = j
    /\ lba \in Seq(free) /\ Len(lba) <= Len(slots)
    /\ \A i, j \in 1..Len(lba) : lba[i] = lba[j] => i = j
    /\ \A j \in 1..Len(lba) : AssertAt(ino, slots[j]) = "none"

\* It gives free blocks, each once, to slots without one, and leaves the others.
Granted(ino, n, slots, lba) ==
    /\ Range(lba) \subseteq free
    /\ \A j \in 1..Len(lba) : /\ slots[j] \in Fresh(ino, n) /\ slots[j] \in Slot
                              /\ NewAt(ino, slots, lba, slots[j]) = lba[j]
                              /\ At(ino, slots[j]) = 0
    /\ \A s \in Slot :
         \/ /\ NewAt(ino, slots, lba, s) = At(ino, s)
            /\ \A j \in 1..Len(lba) : slots[j] # s
         \/ /\ NewAt(ino, slots, lba, s) \in free /\ At(ino, s) = 0
            /\ NewAt(ino, slots, lba, s) \in Range(lba)
            /\ s \in Fresh(ino, n)
            /\ \E j \in 1..Len(lba) : slots[j] = s
    /\ \A s \in Slot : NewAt(ino, slots, lba, s) \in Block \cup {0}
    /\ \A s, r \in Slot :
         NewAt(ino, slots, lba, s) # 0 /\ NewAt(ino, slots, lba, s) = NewAt(ino, slots, lba, r)
           => s = r
    /\ Assigned(ino, slots, lba) \in [Direct \cup {Table} -> Block \cup {0}]
    /\ \A s \in Direct \cup {Table} :
         Assigned(ino, slots, lba)[s] = NewAt(ino, slots, lba, s)

LEMMA Allocated ==
    ASSUME NEW ino \in Inode, Sound(ino), free \subseteq Block,
           \A s \in Slot : At(ino, s) \notin free,
           \A s, r \in Slot : At(ino, s) # 0 /\ At(ino, s) = At(ino, r) => s = r,
           NEW n \in Nat, NEW slots, NEW lba, Asked(ino, n, slots, lba)
    PROVE  Granted(ino, n, slots, lba)
<1> USE DEF Asked
<1>1. /\ Len(lba) \in Nat /\ Len(lba) <= Len(slots) /\ lba \in Seq(Block)
      /\ \A j \in 1..Len(lba) : lba[j] \in free /\ lba[j] \in Range(lba)
                               /\ slots[j] \in Slot /\ slots[j] \in Fresh(ino, n)
                               /\ j \in DOMAIN slots
      /\ Range(lba) \subseteq free
  <2>1. Len(lba) \in Nat /\ Len(lba) <= Len(slots) OBVIOUS
  <2>2. DOMAIN lba = 1..Len(lba) /\ \A j \in 1..Len(lba) : lba[j] \in free OBVIOUS
  <2>3. lba \in Seq(Block) BY <2>2
  <2>4. \A j \in 1..Len(lba) : j \in DOMAIN slots BY <2>1
  <2>5. \A j \in 1..Len(lba) : slots[j] \in Slot /\ slots[j] \in Range(slots)
    BY <2>4 DEF Range
  <2> QED BY <2>1, <2>2, <2>3, <2>4, <2>5 DEF Range
<1>2. \A j \in 1..Len(lba) : At(ino, slots[j]) = 0
  BY <1>1, Unassigned
<1> DEFINE pick(s) == CHOOSE j \in 1..Len(lba) : slots[j] = s
<1>3. \A s : (\E j \in 1..Len(lba) : slots[j] = s) => pick(s) \in 1..Len(lba) /\ slots[pick(s)] = s
  OBVIOUS
<1>4. \A s : NewAt(ino, slots, lba, s) =
                IF \E j \in 1..Len(lba) : slots[j] = s THEN lba[pick(s)] ELSE At(ino, s)
  BY DEF NewAt
<1> HIDE DEF pick
<1>5. \A j \in 1..Len(lba) : NewAt(ino, slots, lba, slots[j]) = lba[j]
  <2> SUFFICES ASSUME NEW j \in 1..Len(lba) PROVE NewAt(ino, slots, lba, slots[j]) = lba[j]
    OBVIOUS
  <2>1. pick(slots[j]) \in 1..Len(lba) /\ slots[pick(slots[j])] = slots[j] BY <1>3
  <2>2. pick(slots[j]) = j BY <1>1, <2>1
  <2> QED BY <1>4, <2>2
<1>6. \A s \in Slot :
         \/ /\ NewAt(ino, slots, lba, s) = At(ino, s)
            /\ \A j \in 1..Len(lba) : slots[j] # s
         \/ /\ NewAt(ino, slots, lba, s) \in free /\ At(ino, s) = 0
            /\ NewAt(ino, slots, lba, s) \in Range(lba)
            /\ s \in Fresh(ino, n)
            /\ \E j \in 1..Len(lba) : slots[j] = s
  <2> SUFFICES ASSUME NEW s \in Slot
               PROVE  \/ /\ NewAt(ino, slots, lba, s) = At(ino, s)
                         /\ \A j \in 1..Len(lba) : slots[j] # s
                      \/ /\ NewAt(ino, slots, lba, s) \in free /\ At(ino, s) = 0
                         /\ NewAt(ino, slots, lba, s) \in Range(lba)
                         /\ s \in Fresh(ino, n)
                         /\ \E j \in 1..Len(lba) : slots[j] = s
    OBVIOUS
  <2>1. CASE \E j \in 1..Len(lba) : slots[j] = s
    <3>1. PICK j \in 1..Len(lba) : slots[j] = s BY <2>1
    <3> QED BY <1>1, <1>2, <1>5, <3>1
  <2>2. CASE \A j \in 1..Len(lba) : slots[j] # s
    BY <1>4, <2>2
  <2> QED BY <2>1, <2>2
<1>7. \A s \in Slot : NewAt(ino, slots, lba, s) \in Block \cup {0}
  <2>1. \A s \in Slot : At(ino, s) \in Block \cup {0} BY DEF Sound
  <2> QED BY <1>6, <2>1
<1>8. ASSUME NEW s \in Slot, NEW r \in Slot, NewAt(ino, slots, lba, s) # 0,
              NewAt(ino, slots, lba, s) = NewAt(ino, slots, lba, r)
       PROVE  s = r
  <2>1. At(ino, s) \notin free /\ At(ino, r) \notin free
    OBVIOUS
  <2>2. CASE NewAt(ino, slots, lba, s) \in free
    <3>1. NewAt(ino, slots, lba, r) \in free BY <1>8, <2>2
    <3>2. PICK i \in 1..Len(lba) : slots[i] = s BY <1>6, <2>1, <2>2
    <3>3. PICK j \in 1..Len(lba) : slots[j] = r BY <1>6, <2>1, <3>1
    <3>4. lba[i] = lba[j] BY <1>5, <1>8, <3>2, <3>3
    <3> QED BY <3>2, <3>3, <3>4
  <2>3. CASE NewAt(ino, slots, lba, s) \notin free
    <3>1. NewAt(ino, slots, lba, r) \notin free BY <1>8, <2>3
    <3>2. NewAt(ino, slots, lba, s) = At(ino, s) BY <1>6, <2>3
    <3>3. NewAt(ino, slots, lba, r) = At(ino, r) BY <1>6, <3>1
    <3> QED BY <1>8, <3>2, <3>3
  <2> QED BY <2>2, <2>3
<1>9. /\ Assigned(ino, slots, lba) \in [Direct \cup {Table} -> Block \cup {0}]
       /\ \A s \in Direct \cup {Table} :
            Assigned(ino, slots, lba)[s] = NewAt(ino, slots, lba, s)
  <2>1. /\ Assigned(ino, slots, lba) \in [Direct \cup {Table} -> Block \cup {0}]
        /\ \A j \in 1..Len(lba) : /\ lba[j] \in Block /\ slots[j] \in Slot
                                  /\ slots[j] \in Direct \cup {Table} =>
                                       Assigned(ino, slots, lba)[slots[j]] = lba[j]
        /\ \A s \in Direct \cup {Table} :
             (\A j \in 1..Len(lba) : slots[j] # s) =>
               Assigned(ino, slots, lba)[s] = ino.sectors[s]
    <3>1. lba \in Seq(Block) BY <1>1
    <3> QED BY <3>1, AssignedSectors, Zenon
  <2>2. ASSUME NEW s \in Direct \cup {Table}
        PROVE  Assigned(ino, slots, lba)[s] = NewAt(ino, slots, lba, s)
    <3>1. s \in Slot /\ At(ino, s) = ino.sectors[s] BY TableAt
    <3>2. CASE \E j \in 1..Len(lba) : slots[j] = s BY <1>5, <2>1, <3>2
    <3>3. CASE \A j \in 1..Len(lba) : slots[j] # s BY <1>4, <2>1, <3>1, <3>3
    <3> QED BY <3>2, <3>3
  <2> QED BY <2>1, <2>2
<1> QED BY <1>1, <1>2, <1>5, <1>6, <1>7, <1>8, <1>9 DEF Granted

\* What file_write() asks for and gets.
LEMMA Allocation ==
    ASSUME free \subseteq Block, NEW ino \in Inode, Sound(ino), NEW n \in Nat,
           NEW slots, slots = Slots(ino, n),
           NEW lba, lba = FirstFree(IF Len(slots) < Cardinality(free) THEN Len(slots)
                                    ELSE Cardinality(free))
    PROVE  /\ slots \in Seq(Slot) /\ Range(slots) = Fresh(ino, n)
           /\ \A i, j \in DOMAIN slots : slots[i] = slots[j] => i = j
           /\ lba \in Seq(free) /\ Len(lba) <= Len(slots)
           /\ \A i, j \in 1..Len(lba) : lba[i] = lba[j] => i = j
<1>1. /\ slots \in Seq(Slot) /\ Range(slots) = Fresh(ino, n)
      /\ \A i, j \in DOMAIN slots : slots[i] = slots[j] => i = j
  BY SlotsFresh DEF Sound
<1>2. Cardinality(free) \in Nat /\ Len(slots) \in Nat
  <2>1. IsFiniteSet(free) BY Parts, FS_Subset
  <2>2. Len(slots) \in Nat BY <1>1
  <2> QED BY <2>1, <2>2, FS_CardinalityType
<1>3. PICK k : k = IF Len(slots) < Cardinality(free) THEN Len(slots) ELSE Cardinality(free)
  OBVIOUS
<1>4. k \in 0..Cardinality(free) /\ k <= Len(slots)
  BY <1>2, <1>3
<1>5. lba = FirstFree(k)
  BY <1>3
<1>6. /\ lba \in Seq(free) /\ Len(lba) = k
      /\ \A i, j \in 1..k : lba[i] = lba[j] => i = j
  BY <1>4, <1>5, FirstFreeOnce
<1> QED BY <1>1, <1>4, <1>6

\* What the invariant says of an open file.
LEMMA OpenFile ==
    ASSUME IInv, NEW f \in File, inode[f] # NULL
    PROVE  /\ inode[f] \in Inode /\ Sound(inode[f]) /\ Cur(f) = inode[f] /\ free \subseteq Block
           /\ \A s \in Slot : At(inode[f], s) \notin free
           /\ \A s, r \in Slot : At(inode[f], s) # 0 /\ At(inode[f], s) = At(inode[f], r) => s = r
           /\ \A s \in Used(inode[f]) \ {Table} : DOMAIN disk[At(inode[f], s)] = Offset
           /\ DiskType
<1>1. inode[f] \in Inode /\ Sound(inode[f]) /\ Cur(f) = inode[f] /\ Cur(f) # NULL
  BY BehindAt DEF IInv, Shape
<1>2. \A s \in Slot : At(Cur(f), s) \notin free
  BY <1>1 DEF IInv, Shape, Taken
<1>3. \A s, r \in Slot : At(Cur(f), s) # 0 /\ At(Cur(f), s) = At(Cur(f), r) => s = r
  BY <1>1 DEF IInv, Shape, Apart
<1>4. \A s \in Used(Cur(f)) \ {Table} : DOMAIN disk[At(Cur(f), s)] = Offset
  BY <1>1 DEF IInv, Shape, Data
<1>5. DiskType /\ free \subseteq Block
  BY DEF IInv, TypeOK, DiskType
<1> QED BY <1>1, <1>2, <1>3, <1>4, <1>5

\* A write that fails half-way: the inode in memory names the blocks that it has got,
\* those for the table excepted.
LEMMA PartialKept ==
    ASSUME IInv, NEW f \in File, inode[f] # NULL, fault = "none",
           NEW n \in Nat, NEW slots, NEW lba, Asked(inode[f], n, slots, lba),
           free' = free \ Range(lba),
           inode' = [inode EXCEPT ![f].sectors = Assigned(inode[f], slots, lba)],
           torn' = TRUE, got' = <<>>, UNCHANGED <<disk, dinode, pos, fault>>
    PROVE  IInv' /\ OthersSame(f) /\ Grows(f) /\ Cur(f)'.size = Cur(f).size
<1>1. PICK ino : ino = inode[f]
  OBVIOUS
<1>2. /\ ino \in Inode /\ Sound(ino) /\ Cur(f) = ino /\ free \subseteq Block /\ ino # NULL
      /\ \A s \in Slot : At(ino, s) \notin free
      /\ \A s, r \in Slot : At(ino, s) # 0 /\ At(ino, s) = At(ino, r) => s = r
      /\ \A s \in Used(ino) \ {Table} : DOMAIN disk[At(ino, s)] = Offset
      /\ DiskType
  BY <1>1, OpenFile
<1>3. /\ Range(lba) \subseteq free
      /\ \A s \in Slot :
           \/ NewAt(ino, slots, lba, s) = At(ino, s)
           \/ NewAt(ino, slots, lba, s) \in free /\ At(ino, s) = 0
                /\ NewAt(ino, slots, lba, s) \in Range(lba)
      /\ \A s \in Slot : NewAt(ino, slots, lba, s) \in Block \cup {0}
      /\ \A s, r \in Slot :
           NewAt(ino, slots, lba, s) # 0 /\ NewAt(ino, slots, lba, s) = NewAt(ino, slots, lba, r)
             => s = r
      /\ Assigned(ino, slots, lba) \in [Direct \cup {Table} -> Block \cup {0}]
      /\ \A s \in Direct \cup {Table} :
           Assigned(ino, slots, lba)[s] = NewAt(ino, slots, lba, s)
  <2>1. Asked(ino, n, slots, lba) BY <1>1
  <2>2. Granted(ino, n, slots, lba) BY <1>2, <2>1, Allocated
  <2> QED BY <2>2 DEF Granted
<1>4. PICK sec : sec = Assigned(ino, slots, lba)
  OBVIOUS
<1>5. PICK new : new = [size |-> ino.size, sectors |-> sec]
  OBVIOUS
<1>6. PICK N : N = [s \in Slot |-> NewAt(ino, slots, lba, s)]
  OBVIOUS
<1>7. /\ \A s \in Slot : \/ N[s] = At(ino, s)
                         \/ N[s] \in free /\ At(ino, s) = 0 /\ N[s] \in Range(lba)
      /\ \A s \in Slot : N[s] \in Block \cup {0}
      /\ \A s, r \in Slot : N[s] # 0 /\ N[s] = N[r] => s = r
      /\ sec \in [Direct \cup {Table} -> Block \cup {0}]
      /\ \A s \in Direct \cup {Table} : s \in Slot /\ sec[s] = N[s]
  <2>1. \A s \in Slot : N[s] = NewAt(ino, slots, lba, s) BY <1>6
  <2>2. \A s \in Direct \cup {Table} : s \in Slot BY <1>2, TableAt
  <2> QED BY <1>3, <1>4, <2>1, <2>2
<1>8. /\ new \in Inode /\ new.size = ino.size /\ new.sectors = sec /\ new # NULL
      /\ ino.size \in Nat
  <2>1. new \in Inode BY <1>2, <1>5, <1>7 DEF Inode
  <2> QED BY <1>2, <1>5, <2>1, NullAssumption, TableAt
<1>9. /\ inode'[f] = new /\ dinode'[f] = dinode[f]
      /\ inode' \in [File -> Inode \cup {NULL}]
      /\ \A g \in File \ {f} : inode'[g] = inode[g] /\ dinode'[g] = dinode[g]
  <2>1. inode \in [File -> Inode \cup {NULL}] BY DEF IInv, TypeOK
  <2>2. [ino EXCEPT !.sectors = sec] = new BY <1>2, <1>5 DEF Inode
  <2>3. inode' = [inode EXCEPT ![f] = new] BY <1>1, <1>4, <2>1, <2>2
  <2> QED BY <1>8, <2>1, <2>3
<1>10. Cur(f)' = new
  BY <1>8, <1>9 DEF Cur
<1>11. /\ \A s \in Direct \cup {Table} : At(new, s) = N[s]
       /\ \A s \in Indirect : At(new, s) = At(ino, s)
  <2>1. \A s \in Direct \cup {Table} : At(new, s) = N[s] BY <1>7, <1>8, TableAt
  <2>2. TableOf(new) = TableOf(ino)
    <3>1. Table \in Slot /\ At(ino, Table) = ino.sectors[Table] /\ sec[Table] = N[Table]
      BY <1>2, <1>7, TableAt
    <3>2. CASE N[Table] = At(ino, Table)
      BY <1>8, <3>1, <3>2 DEF TableOf
    <3>3. CASE N[Table] \in free /\ At(ino, Table) = 0
      <4>1. DOMAIN disk[sec[Table]] = Offset BY <3>1, <3>3 DEF IInv, Shape, Clean
      <4>2. Offset # Indirect BY <1>2, Kinds
      <4> QED BY <1>8, <3>1, <3>3, <4>1, <4>2 DEF TableOf
    <3> QED BY <1>7, <3>1, <3>2, <3>3
  <2>3. \A s \in Indirect : At(new, s) = At(ino, s) BY <1>2, <1>8, <2>2, TableAt
  <2> QED BY <2>1, <2>3
<1>12. \A s \in Slot : \/ At(new, s) = At(ino, s)
                       \/ At(new, s) \in free /\ At(ino, s) = 0 /\ At(new, s) \in Range(lba)
                            /\ s \in Direct \cup {Table}
  BY <1>2, <1>7, <1>11, TableAt
<1>13. 0 \notin free /\ 0 \notin Range(lba) /\ 0 \in Direct
  BY <1>2, <1>3, Parts
<1>14. Used(new) \ {0} \subseteq Used(ino) /\ Used(ino) \subseteq Used(new)
       /\ (0 \in Used(new) => At(new, 0) # 0)
  <2>1. At(new, 0) = sec[0] /\ At(ino, 0) = ino.sectors[0] /\ 0 \in Slot
    BY <1>2, <1>7, <1>8, <1>13, TableAt
  <2>2. ino.sectors[0] # 0 => sec[0] # 0 BY <1>12, <1>13, <2>1
  <2>3. CASE ino.sectors[0] # 0
    <3>1. Used(new) = Used(ino) BY <1>8, <2>2, <2>3 DEF Used
    <3> QED BY <2>1, <2>2, <2>3, <3>1
  <2>4. CASE ino.sectors[0] = 0
    <3>1. Used(ino) = {} BY <2>4 DEF Used
    <3>2. Blocks(new.size) = 1
      <4>1. new.size = 0 /\ 0 \in Nat BY <1>2, <1>8, <2>4 DEF Sound
      <4> QED BY <4>1, BlocksOfSize
    <3>3. 0..0 = {0} OBVIOUS
    <3>4. Used(new) \subseteq {0} BY <3>2, <3>3, Parts DEF Used
    <3>5. 0 \in Used(new) => sec[0] # 0 BY <1>8 DEF Used
    <3> QED BY <2>1, <3>1, <3>4, <3>5
  <2> QED BY <2>3, <2>4
<1>15. Sound(new)
  <2>1. new.sectors[0] = 0 => new.size = 0
    <3>1. 0 \in Slot /\ At(new, 0) = new.sectors[0] /\ At(ino, 0) = ino.sectors[0]
      BY <1>2, <1>8, <1>13, TableAt
    <3>2. new.sectors[0] = 0 => ino.sectors[0] = 0 BY <1>12, <1>13, <3>1
    <3> QED BY <1>2, <1>8, <3>2 DEF Sound
  <2>2. Blocks(new.size) <= Total BY <1>2, <1>8 DEF Sound
  <2>3. \A s \in Slot : At(new, s) \in Block \cup {0} BY <1>2, <1>12 DEF Sound
  <2>4. \A s \in Used(new) : At(new, s) # 0
    <3>1. \A s \in Used(ino) : At(ino, s) # 0 /\ s \in Slot BY <1>2, UsedOf DEF Sound
    <3>2. \A s \in Used(ino) : At(new, s) # 0 BY <1>12, <1>13, <3>1
    <3> QED BY <1>14, <3>2
  <2>5. \A s \in Indirect \ Used(new) : At(new, s) = 0 BY <1>2, <1>11, <1>14 DEF Sound
  <2>6. Table \in Used(new) => DOMAIN disk[new.sectors[Table]] = Indirect
    <3> SUFFICES ASSUME Table \in Used(new) PROVE DOMAIN disk[new.sectors[Table]] = Indirect
      OBVIOUS
    <3>1. Table \in Used(ino) BY <1>14, Parts
    <3>2. Table \in Slot /\ At(ino, Table) = ino.sectors[Table] /\ At(new, Table) = new.sectors[Table]
      BY <1>2, <1>8, TableAt
    <3>3. At(ino, Table) # 0 /\ DOMAIN disk[ino.sectors[Table]] = Indirect BY <1>2, <3>1 DEF Sound
    <3> QED BY <1>12, <3>2, <3>3
  <2> QED BY <1>8, <2>1, <2>2, <2>3, <2>4, <2>5, <2>6 DEF Sound
<1>16. Sound(new)' /\ \A s \in Slot : At(new, s)' = At(new, s)
  BY <1>8, <1>15, TableKept
<1>17. /\ dinode[f] # NULL /\ dinode[f].size = ino.size /\ Sound(dinode[f]) /\ dinode[f] \in Inode
       /\ \A s \in Direct \cup {Table} :
            dinode[f].sectors[s] # 0 => dinode[f].sectors[s] = ino.sectors[s]
  <2>1. /\ dinode[f] # NULL /\ inode[f].size = dinode[f].size
        /\ Sound(dinode[f]) /\ dinode[f] \in Inode
    BY BehindAt DEF IInv, Shape
  <2> QED BY <1>1, <2>1 DEF IInv, Shape, Inodes, Behind
<1>18. Behind(f)'
  <2>1. ASSUME NEW s \in Direct \cup {Table}, dinode'[f].sectors[s] # 0
        PROVE  dinode'[f].sectors[s] = new.sectors[s]
    <3>1. ino.sectors[s] # 0 /\ dinode'[f].sectors[s] = ino.sectors[s] BY <1>9, <1>17, <2>1
    <3>2. s \in Slot /\ At(ino, s) = ino.sectors[s] /\ At(new, s) = new.sectors[s]
      BY <1>2, <1>8, TableAt
    <3> QED BY <1>12, <3>1, <3>2
  <2>2. dinode'[f] # NULL /\ new.size = dinode'[f].size BY <1>8, <1>9, <1>17
  <2> QED BY <1>9, <2>1, <2>2 DEF Behind
<1>19. Shape' /\ OthersSame(f)
  <2>1. Fits(f)
    <3>1. \A s \in Slot : At(Cur(f), s)' = At(new, s) BY <1>10, <1>16
    <3>2. Used(Cur(f))' = Used(new) BY <1>10 DEF Used
    <3> SUFFICES ASSUME NEW s \in Slot, At(Cur(f), s)' # 0
                 PROVE  /\ At(Cur(f), s)' \in free \/ (Cur(f) # NULL /\ At(Cur(f), s)' = At(Cur(f), s))
                        /\ At(Cur(f), s)' \notin free'
                        /\ \A r \in Slot : At(Cur(f), r)' = At(Cur(f), s)' => r = s
                        /\ s \in Used(Cur(f))' \ {Table} => DOMAIN disk'[At(Cur(f), s)'] = Offset
      BY DEF Fits
    <3>3. At(Cur(f), s)' = At(new, s) /\ At(new, s) # 0 BY <3>1
    <3>4. At(Cur(f), s)' \in free \/ (Cur(f) # NULL /\ At(Cur(f), s)' = At(Cur(f), s))
      BY <1>2, <1>12, <3>3
    <3>5. At(Cur(f), s)' \notin free' BY <1>2, <1>12, <3>3
    <3>6. \A r \in Slot : At(Cur(f), r)' = At(Cur(f), s)' => r = s
      <4> SUFFICES ASSUME NEW r \in Slot, At(Cur(f), r)' = At(Cur(f), s)' PROVE r = s
        OBVIOUS
      <4>1. At(new, r) = At(new, s) /\ At(new, r) # 0 BY <3>1, <3>3
      <4>2. CASE At(new, s) \in free
        <5>1. At(ino, s) # At(new, s) /\ At(ino, r) # At(new, r) BY <1>2, <4>1, <4>2
        <5>2. s \in Direct \cup {Table} /\ r \in Direct \cup {Table} BY <1>12, <5>1
        <5> QED BY <1>7, <1>11, <3>3, <4>1, <5>2
      <4>3. CASE At(new, s) \notin free
        <5>1. At(new, s) = At(ino, s) /\ At(new, r) = At(ino, r) BY <1>12, <4>1, <4>3
        <5> QED BY <1>2, <3>3, <4>1, <5>1
      <4> QED BY <4>2, <4>3
    <3>7. s \in Used(Cur(f))' \ {Table} => DOMAIN disk'[At(Cur(f), s)'] = Offset
      <4> SUFFICES ASSUME s \in Used(new) \ {Table} PROVE DOMAIN disk[At(new, s)] = Offset
        BY <3>2, <3>3
      <4>1. CASE At(new, s) \in free BY <4>1 DEF IInv, Shape, Clean
      <4>2. CASE At(new, s) = At(ino, s)
        <5>1. s \in Used(ino)
          <6>1. CASE s # 0 BY <1>14, <6>1
          <6>2. CASE s = 0
            <7>1. ino.sectors[0] # 0 BY <1>2, <1>13, <3>3, <4>2, <6>2, TableAt
            <7> QED BY <1>8, <6>2, <7>1, <1>14 DEF Used
          <6> QED BY <6>1, <6>2
        <5> QED BY <1>2, <4>2, <5>1
      <4> QED BY <1>12, <4>1, <4>2
    <3> QED BY <3>4, <3>5, <3>6, <3>7
  <2>2. Sound(Cur(f))' /\ (dinode'[f] # NULL => Sound(dinode[f])')
    <3>1. PICK d : d = dinode[f] OBVIOUS
    <3>2. Sound(d)' BY <1>17, <3>1, TableKept
    <3>3. d = dinode'[f] BY <1>9, <3>1
    <3> QED BY <1>10, <1>16, <3>2, <3>3
  <2>3. Shape /\ disk = [b \in Block |-> disk[b]] BY DEF IInv
  <2>4. \A b \in Block \ free : Names(f, b) \/ disk'[b] = disk[b] OBVIOUS
  <2>5. \A b \in free' : b \in free \/ Names(f, b) OBVIOUS
  <2>6. 0 \notin free' /\ free' \subseteq Block BY <1>2, <1>13
  <2>7. \A b \in free' : DOMAIN disk'[b] = Offset BY DEF IInv, Shape, Clean
  <2> QED BY <1>9, <1>18, <2>1, <2>2, <2>3, <2>4, <2>5, <2>6, <2>7, ShapeKept
<1>20. TypeOK' /\ disk' = [b \in Block |-> disk'[b]]
  <2>1. <<>> \in Seq(Byte \cup {NULL}) OBVIOUS
  <2>2. free' \subseteq Block BY <1>2
  <2> QED BY <1>9, <2>1, <2>2 DEF TypeOK, IInv
<1>21. Positions'
  <2>1. \A g \in File : inode'[g] = NULL <=> inode[g] = NULL BY <1>8, <1>9
  <2>2. \A g \in File : inode[g] # NULL => inode'[g].size = inode[g].size BY <1>1, <1>8, <1>9
  <2> QED BY <2>1, <2>2 DEF IInv, Positions
<1>22. Grows(f) /\ Cur(f)'.size = Cur(f).size
  <2>1. Used(ino) \subseteq Slot BY <1>2, UsedOf DEF Sound
  <2>2. \A s \in Used(ino) : At(ino, s) # 0 BY <1>2 DEF Sound
  <2>3. \A s \in Used(ino) : At(Cur(f), s)' = At(ino, s) BY <1>10, <1>12, <1>16, <2>1, <2>2
  <2>4. ino.size <= new.size /\ disk' = disk BY <1>8
  <2> QED BY <1>2, <1>8, <1>10, <2>3, <2>4 DEF Grows
<1> QED BY <1>19, <1>20, <1>21, <1>22 DEF IInv

\* The indices of a file that has grown: those it had, and those that have got a block.
LEMMA UsedGrown ==
    ASSUME NEW ino \in Inode, Sound(ino), NEW n \in Nat, Blocks(ino.size + n) <= Total,
           NEW new \in Inode, new.size = ino.size + n, new.sectors[0] # 0
    PROVE  /\ Used(new) = Used(ino) \cup Fresh(ino, n) /\ Used(new) \subseteq Slot
           /\ Used(new) = 0..Blocks(ino.size + n) - 1
                          \cup (IF Blocks(ino.size + n) > NDirect THEN {Table} ELSE {})
           /\ Table \in Fresh(ino, n) => NDirect \in Fresh(ino, n) /\ NDirect \in Indirect
           /\ \A i \in Indirect : i \in Fresh(ino, n) => Table \in Used(new)
<1>1. PICK used : used = Blocks(ino.size)
  OBVIOUS
<1>2. PICK will : will = Blocks(ino.size + n)
  OBVIOUS
<1>3. /\ used \in Nat \ {0} /\ will \in Nat \ {0} /\ used <= will /\ will <= Total
      /\ ino.sectors[0] = 0 => used = 1
  <2>1. ino.size \in Nat BY TableAt
  <2>2. ino.size + n \in Nat BY <2>1
  <2>3. used \in Nat \ {0} /\ used <= will /\ Blocks(0) = 1 BY <1>1, <1>2, <2>1, BlocksOfSize
  <2>4. will \in Nat \ {0}
    <3>1. 0 \in Nat OBVIOUS
    <3> QED BY <1>2, <2>2, <3>1, BlocksOfSize
  <2> QED BY <1>1, <1>2, <2>3, <2>4 DEF Sound
<1>4. Used(new) = 0..will - 1 \cup (IF will > NDirect THEN {Table} ELSE {})
  BY <1>2 DEF Used
<1>5. Used(ino) = IF ino.sectors[0] = 0 THEN {}
                  ELSE 0..used - 1 \cup (IF used > NDirect THEN {Table} ELSE {})
  BY <1>1 DEF Used
<1>6. Fresh(ino, n) = (IF ino.sectors[0] = 0 THEN {0} ELSE {})
                      \cup (IF used <= NDirect /\ NDirect < will THEN {Table} ELSE {})
                      \cup used..will - 1
  <2>1. ~(will > Total) BY <1>3, Parts
  <2> QED BY <1>1, <1>2, <2>1 DEF Fresh
<1>7. Used(new) = Used(ino) \cup Fresh(ino, n)
  <2>1. CASE ino.sectors[0] = 0
    <3>1. used = 1 /\ ~(used > NDirect) /\ used <= NDirect BY <1>3, <2>1, Parts
    <3>2. \A s : s \in 0..will - 1 <=> s = 0 \/ s \in 1..will - 1 BY <1>3
    <3>3. Used(ino) = {} BY <1>5, <2>1
    <3>4. Fresh(ino, n) = {0} \cup (IF NDirect < will THEN {Table} ELSE {}) \cup 1..will - 1
      BY <1>6, <2>1, <3>1
    <3>5. will > NDirect <=> NDirect < will BY <1>3, Parts
    <3> HIDE DEF Table
    <3> QED BY <1>4, <3>2, <3>3, <3>4, <3>5
  <2>2. CASE ino.sectors[0] # 0
    <3>1. Used(ino) = 0..used - 1 \cup (IF used > NDirect THEN {Table} ELSE {}) BY <1>5, <2>2
    <3>2. Fresh(ino, n) = (IF used <= NDirect /\ NDirect < will THEN {Table} ELSE {})
                          \cup used..will - 1
      BY <1>6, <2>2
    <3>3. \A s : s \in 0..will - 1 <=> s \in 0..used - 1 \/ s \in used..will - 1 BY <1>3
    <3>4. will > NDirect <=> used > NDirect \/ (used <= NDirect /\ NDirect < will)
      BY <1>3, Parts
    <3> HIDE DEF Table
    <3> QED BY <1>4, <3>1, <3>2, <3>3, <3>4
  <2> QED BY <2>1, <2>2
<1>8. Used(new) \subseteq Slot
  BY <1>3, <1>4, Parts DEF Slot
<1>9. Table \in Fresh(ino, n) => NDirect \in Fresh(ino, n) /\ NDirect \in Indirect
  BY <1>3, <1>6, Parts
<1>10. \A i \in Indirect : i \in Fresh(ino, n) => Table \in Used(new)
  BY <1>3, <1>4, <1>6, Parts
<1> QED BY <1>2, <1>4, <1>7, <1>8, <1>9, <1>10

\* A write that succeeds: N is what the inode names then, by slot, and new the inode.
Puts(f, ino, n, slots, lba, N, sectors, new) ==
    /\ N = [s \in Slot |-> NewAt(ino, slots, lba, s)]
    /\ sectors = Assigned(ino, slots, lba)
    /\ new = [size |-> ino.size + n, sectors |-> sectors]
    /\ disk' = Written(f, ino, sectors, slots, lba, n)

\* What is on the disk after it.
OnDisk(ino, N, new) ==
    /\ new \in Inode /\ Sound(new)' /\ \A s \in Slot : At(new, s)' = N[s]
    /\ \A b \in Block : (\A s \in Slot : N[s] # b) => disk'[b] = disk[b]
    /\ \A s \in Used(new) \ {Table} :
         /\ DOMAIN disk'[N[s]] = Offset
         /\ \A o \in Offset : s * BLOCK_SIZE + o < ino.size => disk'[N[s]][o] = disk[N[s]][o]
    /\ DiskType' /\ disk' = [b \in Block |-> disk'[b]]

LEMMA WrittenDisk ==
    ASSUME NEW f \in File, NEW ino \in Inode, Sound(ino), DiskType, disk = [b \in Block |-> disk[b]],
           free \subseteq Block,
           \A s \in Slot : At(ino, s) \notin free,
           \A s \in Used(ino) \ {Table} : DOMAIN disk[At(ino, s)] = Offset,
           \A b \in free : DOMAIN disk[b] = Offset,
           NEW n \in Nat, Blocks(ino.size + n) <= Total,
           NEW slots, NEW lba, Asked(ino, n, slots, lba), Granted(ino, n, slots, lba),
           Len(lba) = Len(slots),
           NEW N, NEW sectors, NEW new, Puts(f, ino, n, slots, lba, N, sectors, new)
    PROVE  OnDisk(ino, N, new)
<1> USE DEF Puts
<1> DEFINE got1(i) == \E j \in 1..Len(lba) : slots[j] = i
           at(i) == IF got1(i) THEN lba[CHOOSE j \in 1..Len(lba) : slots[j] = i] ELSE BlockOf(ino, i)
           lo == ino.size \div BLOCK_SIZE
           hi == (ino.size + n - 1) \div BLOCK_SIZE
           byte(i, o) == LET x == i * BLOCK_SIZE + o
                         IN  IF x \in ino.size..ino.size + n - 1 THEN <<f, x>>
                             ELSE IF x < ino.size THEN disk[at(i)][o] ELSE NULL
           table == [i \in Indirect |-> IF got1(i) THEN at(i) ELSE TableOf(ino)[i]]
           tabled == IF \E i \in Indirect : got1(i) THEN [disk EXCEPT ![sectors[Table]] = table]
                     ELSE disk
<1>1. disk' = [b \in Block |-> IF n > 0 /\ \E i \in lo..hi : at(i) = b
                               THEN [o \in Offset |-> byte(CHOOSE i \in lo..hi : at(i) = b, o)]
                               ELSE tabled[b]]
  BY Zenon DEF Written
<1>2. /\ \A s \in Slot : N[s] = NewAt(ino, slots, lba, s)
      /\ \A s \in Slot : N[s] \in Block \cup {0}
      /\ \A s, r \in Slot : N[s] # 0 /\ N[s] = N[r] => s = r
      /\ \A s \in Slot : \/ N[s] = At(ino, s) /\ ~got1(s)
                         \/ N[s] \in free /\ At(ino, s) = 0 /\ s \in Fresh(ino, n) /\ got1(s)
      /\ sectors \in [Direct \cup {Table} -> Block \cup {0}]
      /\ \A s \in Direct \cup {Table} : s \in Slot /\ sectors[s] = N[s]
  <2>1. \A s \in Slot : N[s] = NewAt(ino, slots, lba, s) OBVIOUS
  <2>2. \A s \in Direct \cup {Table} : s \in Slot BY TableAt
  <2>3. /\ sectors \in [Direct \cup {Table} -> Block \cup {0}]
        /\ \A s \in Direct \cup {Table} : sectors[s] = NewAt(ino, slots, lba, s)
    BY DEF Granted
  <2>4. \A s \in Direct \cup {Table} : sectors[s] = N[s] BY <2>1, <2>2, <2>3
  <2>5. \A s \in Slot : \/ NewAt(ino, slots, lba, s) = At(ino, s) /\ ~got1(s)
                        \/ /\ NewAt(ino, slots, lba, s) \in free /\ At(ino, s) = 0
                           /\ s \in Fresh(ino, n) /\ got1(s)
    BY DEF Granted
  <2>6. \A s \in Slot : NewAt(ino, slots, lba, s) \in Block \cup {0} BY DEF Granted
  <2>7. \A s, r \in Slot :
          NewAt(ino, slots, lba, s) # 0 /\ NewAt(ino, slots, lba, s) = NewAt(ino, slots, lba, r)
           => s = r
    BY DEF Granted
  <2> HIDE DEF got1
  <2> QED BY <2>1, <2>2, <2>3, <2>4, <2>5, <2>6, <2>7
<1>3. \A i \in Slot : got1(i) <=> i \in Fresh(ino, n)
  <2>1. ASSUME NEW i \in Slot, i \in Fresh(ino, n) PROVE got1(i)
    <3>1. i \in Range(slots) /\ slots \in Seq(Slot) BY <2>1 DEF Asked
    <3>2. PICK j \in 1..Len(slots) : slots[j] = i BY <3>1 DEF Range
    <3> QED BY <3>2
  <2> HIDE DEF got1
  <2> QED BY <1>2, <2>1
<1>4. \A i \in Direct \cup Indirect : i \in Slot /\ at(i) = N[i]
  <2> SUFFICES ASSUME NEW i \in Direct \cup Indirect PROVE i \in Slot /\ at(i) = N[i]
    OBVIOUS
  <2>1. i \in Slot /\ BlockOf(ino, i) = At(ino, i)
    BY TableAt DEF BlockOf
  <2>2. at(i) = NewAt(ino, slots, lba, i) BY <2>1 DEF NewAt
  <2> HIDE DEF at
  <2> QED BY <1>2, <2>1, <2>2
<1>5. /\ new \in Inode /\ new.size = ino.size + n /\ new.sectors = sectors
      /\ ino.size \in Nat /\ ino.size + n \in Nat
  <2>1. ino.size \in Nat BY TableAt
  <2> QED BY <1>2, <2>1 DEF Inode
<1>6. 0 \notin Block /\ 0 \notin free /\ 0 \in Direct /\ 0 \in Slot
  <2>1. 0 \notin Block /\ 0 \in Direct BY Parts
  <2> HIDE DEF got1
  <2> QED BY <1>2, <2>1
<1>7. sectors[0] # 0
  <2>1. sectors[0] = N[0] /\ At(ino, 0) = ino.sectors[0]
    <3>1. At(ino, 0) = ino.sectors[0] BY <1>6, TableAt
    <3>2. 0 \in Direct \cup {Table} BY <1>6
    <3> HIDE DEF got1
    <3> QED BY <1>2, <3>1, <3>2
  <2>2. CASE ino.sectors[0] = 0
    <3>1. 0 \in Fresh(ino, n) BY <2>2 DEF Fresh
    <3>2. got1(0) BY <1>3, <1>6, <3>1
    <3> HIDE DEF got1
    <3> QED BY <1>2, <1>6, <2>1, <3>2
  <2>3. CASE ino.sectors[0] # 0
    <3> HIDE DEF got1
    <3> QED BY <1>2, <1>6, <2>1, <2>3
  <2> QED BY <2>2, <2>3
<1> HIDE DEF got1, at, table
<1>8. PICK will : will = Blocks(ino.size + n)
  OBVIOUS
<1>9. /\ Used(new) = Used(ino) \cup Fresh(ino, n) /\ Used(new) \subseteq Slot
      /\ Used(new) = 0..will - 1 \cup (IF will > NDirect THEN {Table} ELSE {})
      /\ Table \in Fresh(ino, n) => NDirect \in Fresh(ino, n) /\ NDirect \in Indirect
      /\ \A i \in Indirect : i \in Fresh(ino, n) => Table \in Used(new)
  BY <1>5, <1>7, <1>8, UsedGrown
<1>10. \A s \in Used(new) : N[s] \in Block
  <2> SUFFICES ASSUME NEW s \in Used(new) PROVE N[s] \in Block
    OBVIOUS
  <2>1. s \in Slot BY <1>9
  <2>2. CASE s \in Used(ino)
    <3>1. At(ino, s) # 0 /\ At(ino, s) \in Block BY <2>1, <2>2 DEF Sound
    <3> QED BY <1>2, <2>1, <3>1
  <2>3. CASE s \in Fresh(ino, n)
    <3>1. got1(s) BY <1>3, <2>1, <2>3
    <3> QED BY <1>2, <2>1, <3>1
  <2> QED BY <1>9, <2>2, <2>3
<1>11. n > 0 => \A i \in lo..hi : i \in Used(new) \ {Table} /\ i \in Direct \cup Indirect
  <2> SUFFICES ASSUME n > 0, NEW i \in lo..hi
               PROVE  i \in Used(new) \ {Table} /\ i \in Direct \cup Indirect
    OBVIOUS
  <2>1. ino.size + n - 1 \in Nat /\ ino.size + n - 1 <= ino.size + n BY <1>5
  <2>2. hi <= (ino.size + n) \div BLOCK_SIZE /\ hi \in Nat
    <3>1. hi <= (ino.size + n) \div BLOCK_SIZE BY <1>5, <2>1, Parts, DivisionMonotone
    <3>2. hi \in Nat BY <2>1, Parts, Division
    <3> QED BY <3>1, <3>2
  <2>3. (ino.size + n) \div BLOCK_SIZE \in Nat BY <1>5, Parts, Division
  <2>4. lo \in Nat BY <1>5, Parts, Division
  <2>5. will = (ino.size + n) \div BLOCK_SIZE + 1 BY <1>8 DEF Blocks
  <2>6. PICK x \in Nat : x = (ino.size + n) \div BLOCK_SIZE BY <2>3
  <2>7. PICK h \in Nat : h = hi BY <2>2
  <2>8. PICK l \in Nat : l = lo BY <2>4
  <2>9. i \in l..h BY <2>7, <2>8
  <2>10. h <= x /\ will = x + 1 /\ will <= Total BY <1>8, <2>2, <2>5, <2>6, <2>7
  <2>11. i \in 0..will - 1 /\ i \in 0..Total - 1 BY <2>9, <2>10, Parts
  <2>12. i # Table /\ i \in Direct \cup Indirect BY <2>11, Parts
  <2> QED BY <1>9, <2>11, <2>12
<1>12. \A b \in Block :
         IF n > 0 /\ \E i \in lo..hi : N[i] = b
         THEN \E i \in lo..hi : N[i] = b /\ disk'[b] = [o \in Offset |-> byte(i, o)]
         ELSE disk'[b] = tabled[b]
  <2> SUFFICES ASSUME NEW b \in Block
               PROVE  IF n > 0 /\ \E i \in lo..hi : N[i] = b
                      THEN \E i \in lo..hi : N[i] = b /\ disk'[b] = [o \in Offset |-> byte(i, o)]
                      ELSE disk'[b] = tabled[b]
    OBVIOUS
  <2> DEFINE c == CHOOSE i \in lo..hi : at(i) = b
  <2>1. n > 0 => \A i \in lo..hi : at(i) = N[i]
    <3> HIDE DEF lo, hi
    <3> QED BY <1>4, <1>11
  <2>2. CASE n > 0 /\ \E i \in lo..hi : N[i] = b
    <3>1. \E i \in lo..hi : at(i) = b
      <4> HIDE DEF lo, hi
      <4> QED BY <2>1, <2>2
    <3>2. c \in lo..hi /\ at(c) = b
      <4> HIDE DEF lo, hi
      <4> QED BY <3>1
    <3>3. disk'[b] = [o \in Offset |-> byte(c, o)]
      <4> HIDE DEF lo, hi, byte, tabled
      <4> QED BY <1>1, <2>2, <3>1
    <3> HIDE DEF lo, hi, c, byte, tabled
    <3> QED BY <2>1, <2>2, <3>2, <3>3
  <2>3. CASE ~(n > 0 /\ \E i \in lo..hi : N[i] = b)
    <3>1. ~(n > 0 /\ \E i \in lo..hi : at(i) = b)
      <4> HIDE DEF lo, hi
      <4> QED BY <2>1, <2>3
    <3>2. disk'[b] = tabled[b]
      <4> HIDE DEF lo, hi, byte, tabled
      <4> QED BY <1>1, <3>1
    <3> HIDE DEF lo, hi, c, byte, tabled
    <3> QED BY <2>3, <3>2
  <2> QED BY <2>2, <2>3
<1>13. PICK tn : tn = \E i \in Indirect : got1(i)
  OBVIOUS
<1>14. /\ tn => Table \in Used(new) /\ sectors[Table] = N[Table] /\ N[Table] \in Block
       /\ ~tn => N[Table] = At(ino, Table) /\ \A i \in Indirect : N[i] = At(ino, i)
       /\ Table \in Slot /\ Indirect \subseteq Slot /\ sectors[Table] = N[Table]
  <2>1. Table \in Slot /\ Indirect \subseteq Slot BY TableAt
  <2>2. tn => Table \in Used(new) BY <1>3, <1>9, <1>13, <2>1
  <2>3. sectors[Table] = N[Table] BY <1>2
  <2>4. ~tn => Table \notin Fresh(ino, n) BY <1>3, <1>9, <1>13, <2>1
  <2>5. ~tn => N[Table] = At(ino, Table) BY <1>2, <2>1, <2>4
  <2>6. ~tn => \A i \in Indirect : N[i] = At(ino, i) BY <1>2, <1>13, <2>1
  <2> QED BY <1>10, <2>1, <2>2, <2>3, <2>5, <2>6
<1>15. /\ tn => \A b \in Block : tabled[b] = IF b = N[Table] THEN table ELSE disk[b]
       /\ ~tn => tabled = disk
  <2>1. tn => tabled = [disk EXCEPT ![N[Table]] = table] BY <1>13, <1>14
  <2>2. ~tn => tabled = disk BY <1>13
  <2> HIDE DEF tabled
  <2> QED BY <2>1, <2>2
<1>16. DOMAIN table = Indirect /\ \A i \in Indirect : table[i] = N[i]
  <2>1. \A i \in Indirect : TableOf(ino)[i] = At(ino, i) BY TableAt
  <2>2. \A i \in Indirect : ~got1(i) => N[i] = At(ino, i) BY <1>2, <1>14
  <2> QED BY <1>4, <2>1, <2>2 DEF table
<1> HIDE DEF lo, hi, byte, tabled
<1>17. N[Table] # 0 => ~(n > 0 /\ \E i \in lo..hi : N[i] = N[Table])
  <2> SUFFICES ASSUME N[Table] # 0, n > 0, NEW i \in lo..hi, N[i] = N[Table] PROVE FALSE
    OBVIOUS
  <2>1. i \in Slot /\ i # Table BY <1>4, <1>11
  <2> QED BY <1>2, <1>14, <2>1
<1>18. \A s \in Slot : At(new, s)' = N[s]
  <2>1. \A s \in Direct \cup {Table} : At(new, s)' = N[s]
    <3>1. \A s \in Direct \cup {Table} : s \notin Indirect BY Parts
    <3> QED BY <1>2, <1>5, <3>1 DEF At
  <2>2. \A i \in Indirect : TableOf(new)'[i] = N[i]
    <3>1. CASE tn
      <4>1. disk'[N[Table]] = table BY <1>12, <1>14, <1>15, <1>17, <3>1, Parts
      <4>2. N[Table] # 0 BY <1>14, <3>1, Parts
      <4>3. TableOf(new)' = table BY <1>5, <1>14, <1>16, <4>1, <4>2 DEF TableOf
      <4> QED BY <1>16, <4>3
    <3>2. CASE ~tn
      <4>1. N[Table] # 0 => disk'[N[Table]] = disk[N[Table]]
        BY <1>2, <1>12, <1>14, <1>15, <1>17, <3>2
      <4>2. At(ino, Table) = ino.sectors[Table] BY TableAt
      <4>3. TableOf(new)' = TableOf(ino) BY <1>5, <1>14, <3>2, <4>1, <4>2 DEF TableOf
      <4>4. \A i \in Indirect : TableOf(ino)[i] = At(ino, i) BY TableAt
      <4> QED BY <1>14, <3>2, <4>3, <4>4
    <3> QED BY <3>1, <3>2
  <2>3. \A i \in Indirect : At(new, i)' = N[i] BY <2>2 DEF At
  <2>4. Slot = Direct \cup {Table} \cup Indirect BY TableAt
  <2> QED BY <2>1, <2>3, <2>4
<1>19. \A b \in Block : (\A s \in Slot : N[s] # b) => disk'[b] = disk[b]
  <2> SUFFICES ASSUME NEW b \in Block, \A s \in Slot : N[s] # b PROVE disk'[b] = disk[b]
    OBVIOUS
  <2>1. ~(n > 0 /\ \E i \in lo..hi : N[i] = b)
    <3>1. n > 0 => \A i \in lo..hi : i \in Slot BY <1>4, <1>11
    <3> QED BY <3>1
  <2>2. disk'[b] = tabled[b] BY <1>12, <2>1
  <2> QED BY <1>14, <1>15, <2>2
<1>20. \A s \in Used(new) \ {Table} : DOMAIN disk[N[s]] = Offset
  <2> SUFFICES ASSUME NEW s \in Used(new) \ {Table} PROVE DOMAIN disk[N[s]] = Offset
    OBVIOUS
  <2>1. s \in Slot BY <1>9
  <2>2. CASE N[s] \in free BY <2>2
  <2>3. CASE N[s] = At(ino, s) /\ ~got1(s)
    <3>1. s \in Used(ino) BY <1>3, <1>9, <2>1, <2>3
    <3> QED BY <2>3, <3>1
  <2> QED BY <1>2, <2>1, <2>2, <2>3
<1>21. \A i \in Used(new) \ {Table} : \A o \in Offset :
         /\ i \in Direct \cup Indirect => byte(i, o) \in Byte \cup {NULL}
         /\ i \in Direct \cup Indirect /\ i * BLOCK_SIZE + o < ino.size => byte(i, o) = disk[N[i]][o]
  <2> SUFFICES ASSUME NEW i \in Used(new) \ {Table}, NEW o \in Offset, i \in Direct \cup Indirect
               PROVE  /\ byte(i, o) \in Byte \cup {NULL}
                      /\ i * BLOCK_SIZE + o < ino.size => byte(i, o) = disk[N[i]][o]
    OBVIOUS
  <2>1. disk[N[i]][o] \in Byte \cup {NULL} BY <1>10, <1>20, Kinds
  <2>2. PICK x : x = i * BLOCK_SIZE + o OBVIOUS
  <2>3. x \in Nat
    <3>1. i \in Nat /\ o \in Nat /\ BLOCK_SIZE \in Nat BY Parts DEF Offset
    <3> QED BY <2>2, <3>1
  <2>4. byte(i, o) = IF x \in ino.size..ino.size + n - 1 THEN <<f, x>>
                     ELSE IF x < ino.size THEN disk[N[i]][o] ELSE NULL
    BY <1>4, <2>2 DEF byte
  <2>5. <<f, x>> \in Byte BY <2>3 DEF Byte
  <2>6. x < ino.size => x \notin ino.size..ino.size + n - 1 BY <1>5, <2>3
  <2> QED BY <2>1, <2>2, <2>4, <2>5, <2>6
<1>22. \A s \in Used(new) \ {Table} :
         /\ DOMAIN disk'[N[s]] = Offset
         /\ \A o \in Offset : s * BLOCK_SIZE + o < ino.size => disk'[N[s]][o] = disk[N[s]][o]
  <2> SUFFICES ASSUME NEW s \in Used(new) \ {Table}
               PROVE  /\ DOMAIN disk'[N[s]] = Offset
                      /\ \A o \in Offset : s * BLOCK_SIZE + o < ino.size =>
                           disk'[N[s]][o] = disk[N[s]][o]
    OBVIOUS
  <2>1. s \in Slot /\ N[s] \in Block /\ N[s] # 0 BY <1>9, <1>10, Parts
  <2>2. CASE n > 0 /\ \E i \in lo..hi : N[i] = N[s]
    <3>1. PICK i \in lo..hi : N[i] = N[s] /\ disk'[N[s]] = [o \in Offset |-> byte(i, o)]
      BY <1>12, <2>1, <2>2
    <3>2. i \in Used(new) \ {Table} /\ i \in Direct \cup Indirect /\ i \in Slot
      BY <1>4, <1>11, <2>2
    <3>3. \A r, q \in Slot : N[r] # 0 /\ N[r] = N[q] => r = q BY <1>2
    <3>4. i = s BY <2>1, <3>1, <3>2, <3>3
    <3>5. disk'[N[s]] = [o \in Offset |-> byte(s, o)] BY <3>1, <3>4
    <3>6. DOMAIN disk'[N[s]] = Offset /\ \A o \in Offset : disk'[N[s]][o] = byte(s, o) BY <3>5
    <3>7. s \in Direct \cup Indirect BY <3>2, <3>4
    <3>8. \A o \in Offset : s * BLOCK_SIZE + o < ino.size => byte(s, o) = disk[N[s]][o]
      BY <1>21, <3>7, Zenon
    <3> QED BY <3>6, <3>8, Zenon
  <2>3. CASE ~(n > 0 /\ \E i \in lo..hi : N[i] = N[s])
    <3>1. disk'[N[s]] = tabled[N[s]] BY <1>12, <2>1, <2>3
    <3>2. N[s] # N[Table] BY <1>2, <1>14, <2>1
    <3>3. tabled[N[s]] = disk[N[s]] BY <1>15, <2>1, <3>2
    <3> QED BY <1>20, <3>1, <3>3
  <2> QED BY <2>2, <2>3
<1>23. DiskType'
  <2> SUFFICES ASSUME NEW b \in Block
               PROVE  \/ DOMAIN disk'[b] = Offset /\ \A o \in Offset : disk'[b][o] \in Byte \cup {NULL}
                      \/ disk'[b] \in [Indirect -> Block \cup {0}]
    BY DEF DiskType
  <2>1. CASE n > 0 /\ \E i \in lo..hi : N[i] = b
    <3>1. PICK i \in lo..hi : N[i] = b /\ disk'[b] = [o \in Offset |-> byte(i, o)]
      BY <1>12, <2>1
    <3>2. i \in Used(new) \ {Table} /\ i \in Direct \cup Indirect BY <1>11, <2>1
    <3>3. DOMAIN disk'[b] = Offset /\ \A o \in Offset : disk'[b][o] = byte(i, o) BY <3>1
    <3> QED BY <1>21, <3>2, <3>3
  <2>2. CASE ~(n > 0 /\ \E i \in lo..hi : N[i] = b)
    <3>1. disk'[b] = tabled[b] BY <1>12, <2>2
    <3>2. CASE tabled[b] = disk[b] BY <3>1, <3>2 DEF DiskType
    <3>3. CASE tabled[b] = table
      <4>1. table = [i \in Indirect |-> table[i]] BY DEF table
      <4>2. \A i \in Indirect : table[i] \in Block \cup {0} BY <1>2, <1>14, <1>16
      <4>3. table \in [Indirect -> Block \cup {0}] BY <4>1, <4>2
      <4> QED BY <3>1, <3>3, <4>3
    <3> QED BY <1>15, <3>2, <3>3
  <2> QED BY <2>1, <2>2
<1>24. disk' = [b \in Block |-> disk'[b]]
  BY <1>1
<1>25. Sound(new)'
  <2>1. new.sectors[0] # 0 BY <1>5, <1>7
  <2>2. Blocks(new.size) <= Total BY <1>5
  <2>3. \A s \in Slot : At(new, s)' \in Block \cup {0} BY <1>2, <1>18
  <2>4. \A s \in Used(new) : At(new, s)' # 0
    <3> SUFFICES ASSUME NEW s \in Used(new) PROVE At(new, s)' # 0
      OBVIOUS
    <3>1. s \in Slot BY <1>9
    <3>2. At(new, s)' = N[s] /\ N[s] \in Block BY <1>10, <1>18, <3>1
    <3> QED BY <1>6, <3>2
  <2>5. \A s \in Indirect \ Used(new) : At(new, s)' = 0
    <3> SUFFICES ASSUME NEW s \in Indirect \ Used(new) PROVE At(new, s)' = 0
      OBVIOUS
    <3>1. s \in Slot /\ s \notin Fresh(ino, n) /\ s \notin Used(ino) BY <1>9, <1>14
    <3>2. N[s] = At(ino, s) BY <1>2, <3>1
    <3> QED BY <1>18, <3>1, <3>2 DEF Sound
  <2>6. Table \in Used(new) => DOMAIN disk'[new.sectors[Table]] = Indirect
    <3> SUFFICES ASSUME Table \in Used(new) PROVE DOMAIN disk'[N[Table]] = Indirect
      BY <1>5, <1>14
    <3>0. N[Table] \in Block /\ N[Table] # 0 BY <1>10, Parts
    <3>1. disk'[N[Table]] = tabled[N[Table]] BY <1>12, <1>17, <3>0
    <3>2. CASE tn
      <4>1. tabled[N[Table]] = table BY <1>15, <3>0, <3>2
      <4> QED BY <1>16, <3>1, <4>1
    <3>3. CASE ~tn
      <4>1. Table \in Used(ino) BY <1>2, <1>3, <1>6, <1>9, <1>14, <3>0, <3>3
      <4>2. At(ino, Table) = ino.sectors[Table] BY TableAt
      <4>3. DOMAIN disk[ino.sectors[Table]] = Indirect BY <4>1 DEF Sound
      <4> QED BY <1>14, <1>15, <3>1, <3>3, <4>2, <4>3
    <3> QED BY <3>2, <3>3
  <2>7. Used(new)' = Used(new) BY DEF Used
  <2> QED BY <1>5, <2>1, <2>2, <2>3, <2>4, <2>5, <2>6, <2>7 DEF Sound
<1> QED BY <1>5, <1>18, <1>19, <1>22, <1>23, <1>24, <1>25 DEF OnDisk

\* A write that succeeds.
LEMMA GrownKept ==
    ASSUME IInv, NEW f \in File, inode[f] # NULL, fault = "none",
           NEW n \in Nat, Blocks(inode[f].size + n) <= Total,
           NEW slots, NEW lba, Asked(inode[f], n, slots, lba), Len(lba) = Len(slots),
           free' = free \ Range(lba),
           NEW sectors, sectors = Assigned(inode[f], slots, lba),
           disk' = Written(f, inode[f], sectors, slots, lba, n),
           NEW new, new = [size |-> inode[f].size + n, sectors |-> sectors],
           inode' = [inode EXCEPT ![f] = new], dinode' = [dinode EXCEPT ![f] = new],
           pos' = [pos EXCEPT ![f] = (inode[f].size + n + Word - 1) % Word],
           got' = <<>>, UNCHANGED <<torn, fault>>
    PROVE  /\ IInv' /\ OthersSame(f) /\ Grows(f) /\ Cur(f)'.size = Cur(f).size + n
           /\ pos'[f] = IF Cur(f)'.size = 0 THEN Word - 1 ELSE Cur(f)'.size - 1
<1>1. PICK ino : ino = inode[f]
  OBVIOUS
<1>2. PICK N : N = [s \in Slot |-> NewAt(ino, slots, lba, s)]
  OBVIOUS
<1>3. /\ ino \in Inode /\ Sound(ino) /\ Cur(f) = ino /\ free \subseteq Block /\ ino # NULL
      /\ \A s \in Slot : At(ino, s) \notin free
      /\ \A s, r \in Slot : At(ino, s) # 0 /\ At(ino, s) = At(ino, r) => s = r
      /\ \A s \in Used(ino) \ {Table} : DOMAIN disk[At(ino, s)] = Offset
      /\ DiskType
  BY <1>1, OpenFile
<1>4. Asked(ino, n, slots, lba) /\ Granted(ino, n, slots, lba)
  <2>1. Asked(ino, n, slots, lba) BY <1>1
  <2>2. Granted(ino, n, slots, lba) BY <1>3, <2>1, Allocated
  <2> QED BY <2>1, <2>2
<1>5. /\ \A s \in Slot : \/ N[s] = At(ino, s) /\ s \notin Fresh(ino, n)
                         \/ /\ N[s] \in free /\ At(ino, s) = 0 /\ N[s] \in Range(lba)
                            /\ s \in Fresh(ino, n)
      /\ \A s, r \in Slot : N[s] # 0 /\ N[s] = N[r] => s = r
      /\ Range(lba) \subseteq free
      /\ \A b \in Range(lba) : \E s \in Slot : N[s] = b
      /\ sectors \in [Direct \cup {Table} -> Block \cup {0}]
  <2>1. \A s \in Slot : N[s] = NewAt(ino, slots, lba, s) BY <1>2
  <2>2. \A s \in Fresh(ino, n) : \E j \in 1..Len(lba) : slots[j] = s
    <3>1. slots \in Seq(Slot) /\ Range(slots) = Fresh(ino, n) BY <1>4 DEF Asked
    <3> QED BY <3>1 DEF Range
  <2>3. \A s \in Slot :
          \/ /\ NewAt(ino, slots, lba, s) = At(ino, s)
             /\ \A j \in 1..Len(lba) : slots[j] # s
          \/ /\ NewAt(ino, slots, lba, s) \in free /\ At(ino, s) = 0
             /\ NewAt(ino, slots, lba, s) \in Range(lba)
             /\ s \in Fresh(ino, n)
    BY <1>4 DEF Granted
  <2>4. \A s, r \in Slot :
         NewAt(ino, slots, lba, s) # 0 /\ NewAt(ino, slots, lba, s) = NewAt(ino, slots, lba, r)
           => s = r
    BY <1>4 DEF Granted
  <2>5. \A b \in Range(lba) : \E s \in Slot : NewAt(ino, slots, lba, s) = b
    <3>1. lba \in Seq(free) BY <1>4 DEF Asked
    <3>2. \A j \in 1..Len(lba) : slots[j] \in Slot /\ NewAt(ino, slots, lba, slots[j]) = lba[j]
      BY <1>4 DEF Granted
    <3> QED BY <3>1, <3>2 DEF Range
  <2>6. Range(lba) \subseteq free /\ sectors \in [Direct \cup {Table} -> Block \cup {0}]
    BY <1>1, <1>4 DEF Granted
  <2> QED BY <2>1, <2>2, <2>3, <2>4, <2>5, <2>6
<1>6. /\ new \in Inode /\ Sound(new)' /\ \A s \in Slot : At(new, s)' = N[s]
      /\ \A b \in Block : (\A s \in Slot : N[s] # b) => disk'[b] = disk[b]
      /\ \A s \in Used(new) \ {Table} :
           /\ DOMAIN disk'[N[s]] = Offset
           /\ \A o \in Offset : s * BLOCK_SIZE + o < ino.size => disk'[N[s]][o] = disk[N[s]][o]
      /\ DiskType' /\ disk' = [b \in Block |-> disk'[b]]
  <2>1. disk = [b \in Block |-> disk[b]] /\ \A b \in free : DOMAIN disk[b] = Offset
    BY DEF IInv, Shape, Clean
  <2>2. Puts(f, ino, n, slots, lba, N, sectors, new) /\ Blocks(ino.size + n) <= Total
    BY <1>1, <1>2 DEF Puts
  <2>3. \A s \in Slot : At(ino, s) \notin free BY <1>3
  <2>4. \A s \in Used(ino) \ {Table} : DOMAIN disk[At(ino, s)] = Offset BY <1>3
  <2>5. ino \in Inode /\ Sound(ino) /\ free \subseteq Block /\ DiskType BY <1>3
  <2>6. OnDisk(ino, N, new) BY <1>4, <2>1, <2>2, <2>3, <2>4, <2>5, WrittenDisk
  <2> QED BY <2>6 DEF OnDisk
<1>7. new # NULL /\ new.size = ino.size + n /\ ino.size \in Nat /\ new.size \in Nat
  <2>1. ino.size \in Nat BY <1>3, TableAt
  <2>2. new.size = ino.size + n BY <1>1
  <2> QED BY <1>6, <2>1, <2>2, NullAssumption
<1>8. /\ inode'[f] = new /\ dinode'[f] = new
      /\ inode' \in [File -> Inode \cup {NULL}] /\ dinode' \in [File -> Inode \cup {NULL}]
      /\ \A g \in File \ {f} : inode'[g] = inode[g] /\ dinode'[g] = dinode[g]
  <2>1. inode \in [File -> Inode \cup {NULL}] /\ dinode \in [File -> Inode \cup {NULL}]
    BY DEF IInv, TypeOK
  <2> QED BY <1>6, <2>1
<1>9. Cur(f)' = new
  BY <1>7, <1>8 DEF Cur
<1>10. /\ Used(new) = Used(ino) \cup Fresh(ino, n) /\ Used(new) \subseteq Slot
       /\ Fresh(ino, n) \subseteq Used(new) /\ Used(ino) \subseteq Used(new)
  <2>1. new.sectors[0] # 0
    <3>1. new.sectors[0] = 0 => new.size = 0 BY <1>6 DEF Sound
    <3>2. 0 \in Used(ino) \/ 0 \in Fresh(ino, n)
      <4>1. ino.sectors[0] = 0 => 0 \in Fresh(ino, n) BY DEF Fresh
      <4>2. ino.sectors[0] # 0 => 0 \in Used(ino)
        <5>1. Blocks(ino.size) \in Nat \ {0}
          <6>1. 0 \in Nat OBVIOUS
          <6> QED BY <1>7, <6>1, BlocksOfSize
        <5> QED BY <5>1 DEF Used
      <4> QED BY <4>1, <4>2
    <3>3. 0 \in Slot /\ 0 \in Direct /\ 0 \notin Block BY <1>3, Parts, TableAt
    <3>4. 0 \in Used(ino) => At(ino, 0) # 0 BY <1>3 DEF Sound
    <3>5. N[0] # 0 BY <1>3, <1>5, <3>2, <3>3, <3>4
    <3>6. At(new, 0)' = new.sectors[0] BY <3>3, Parts DEF At
    <3> QED BY <1>6, <3>3, <3>5, <3>6
  <2>2. Blocks(ino.size + n) <= Total BY <1>1
  <2> QED BY <1>3, <1>6, <1>7, <2>1, <2>2, UsedGrown
<1>11. 0 \notin free /\ 0 \notin Range(lba)
  BY <1>3, <1>5, Parts
<1>12. Fits(f)
  <2>1. \A s \in Slot : At(Cur(f), s)' = N[s] BY <1>6, <1>9
  <2>2. Used(Cur(f))' = Used(new) BY <1>9 DEF Used
  <2>3. ASSUME NEW s \in Slot, N[s] # 0
        PROVE  /\ N[s] \in free \/ (Cur(f) # NULL /\ N[s] = At(Cur(f), s))
               /\ N[s] \notin free'
               /\ \A r \in Slot : N[r] = N[s] => r = s
               /\ s \in Used(new) \ {Table} => DOMAIN disk'[N[s]] = Offset
    <3>1. N[s] \in free \/ (Cur(f) # NULL /\ N[s] = At(Cur(f), s)) BY <1>3, <1>5
    <3>2. N[s] \notin free' BY <1>3, <1>5
    <3>3. \A r \in Slot : N[r] = N[s] => r = s BY <1>5, <2>3
    <3>4. s \in Used(new) \ {Table} => DOMAIN disk'[N[s]] = Offset BY <1>6
    <3> QED BY <3>1, <3>2, <3>3, <3>4
  <2> QED BY <2>1, <2>2, <2>3 DEF Fits
<1>13. \A b \in Block \ free : Names(f, b) \/ disk'[b] = disk[b]
  <2> SUFFICES ASSUME NEW b \in Block \ free, ~Names(f, b) PROVE disk'[b] = disk[b]
    OBVIOUS
  <2>1. \A s \in Slot : N[s] # b BY <1>3, <1>5 DEF Names
  <2> QED BY <1>6, <2>1
<1>14. Shape' /\ OthersSame(f)
  <2>1. Sound(Cur(f))' /\ Sound(dinode[f])' BY <1>6, <1>8, <1>9
  <2>2. Behind(f)' BY <1>7, <1>8 DEF Behind
  <2>3. Shape /\ disk = [b \in Block |-> disk[b]] BY DEF IInv
  <2>4. 0 \notin free' /\ free' \subseteq Block /\ \A b \in free' : b \in free \/ Names(f, b)
    BY <1>3, <1>11
  <2>5. \A b \in free' : DOMAIN disk'[b] = Offset
    <3> SUFFICES ASSUME NEW b \in free' PROVE DOMAIN disk'[b] = Offset
      OBVIOUS
    <3>1. b \in Block /\ b \in free /\ b \notin Range(lba) BY <1>3
    <3>2. \A s \in Slot : N[s] # b BY <1>3, <1>5, <3>1
    <3>3. disk'[b] = disk[b] BY <1>6, <3>1, <3>2
    <3> QED BY <3>1, <3>3 DEF IInv, Shape, Clean
  <2> QED BY <1>8, <1>12, <1>13, <2>1, <2>2, <2>3, <2>4, <2>5, ShapeKept
<1>15. ASSUME ~torn' PROVE Exact'
  <2>1. Exact BY <1>15 DEF IInv
  <2>2. inode'[f] # NULL => inode'[f] = dinode'[f] BY <1>8
  <2>3. \A s \in Slot : At(Cur(f), s)' # 0 => s \in Used(Cur(f))'
    <3>1. \A s \in Slot : At(ino, s) # 0 => s \in Used(ino) BY <1>3, <2>1 DEF Exact
    <3>2. Used(Cur(f))' = Used(new) BY <1>9 DEF Used
    <3>3. \A s \in Slot : N[s] # 0 => s \in Used(new) BY <1>5, <1>10, <3>1
    <3> QED BY <1>6, <1>9, <3>2, <3>3
  <2>4. \A b \in Block \ free' : b \in free \/ Names(f, b) => Names(f, b)'
    <3> SUFFICES ASSUME NEW b \in Block \ free', b \in free \/ Names(f, b) PROVE Names(f, b)'
      OBVIOUS
    <3>1. \E s \in Slot : N[s] = b
      <4>1. CASE b \in free BY <1>5, <4>1
      <4>2. CASE Names(f, b)
        <5>1. PICK s \in Slot : At(ino, s) = b BY <1>3, <4>2 DEF Names
        <5>2. b # 0 BY Parts
        <5>3. N[s] = b BY <1>3, <1>5, <5>1, <5>2, UsedOf DEF Sound
        <5> QED BY <5>3
      <4> QED BY <4>1, <4>2
    <3>2. PICK s \in Slot : N[s] = b BY <3>1
    <3>3. At(Cur(f), s)' = b /\ Cur(f)' # NULL BY <1>6, <1>7, <1>9, <3>2
    <3> QED BY <3>3 DEF Names
  <2>5. fault' \in {"none", "file.c:442"} /\ RangeAsserted' BY DEF RangeAsserted
  <2> QED BY <1>8, <1>14, <2>1, <2>2, <2>3, <2>4, <2>5, ExactKept
<1>16. PICK z \in Nat : z = new.size
  BY <1>7
<1>17. z < Largest /\ Largest \in Nat /\ Word \in Nat /\ 2 * Largest < Word
  <2>1. Blocks(z) <= Total BY <1>1, <1>7, <1>16
  <2> QED BY <1>16, <2>1, SizeFits
<1>18. /\ pos'[f] = IF z = 0 THEN Word - 1 ELSE z - 1
       /\ \A g \in File \ {f} : pos'[g] = pos[g]
       /\ pos'[f] \in 0..Word - 1
  <2> HIDE DEF Largest
  <2>1. pos \in [File -> 0..Word - 1 \cup {NULL}] BY DEF IInv, TypeOK
  <2>2. pos'[f] = (z + Word - 1) % Word BY <1>1, <1>7, <1>16, <2>1
  <2>3. (z + Word - 1) % Word = IF z = 0 THEN Word - 1 ELSE z - 1
    <3>1. CASE z = 0
      <4>1. z + Word - 1 = Word - 1 /\ Word - 1 \in 0..Word - 1 BY <1>17, <3>1
      <4> QED BY <1>17, <3>1, <4>1, Z3
    <3>2. CASE z # 0
      <4>1. PICK x \in 0..Word - 1 : x = z - 1 BY <1>17, <3>2
      <4>2. z + Word - 1 = x + Word BY <1>17, <4>1
      <4>3. (x + Word) % Word = x BY <1>17, Z3
      <4> QED BY <3>2, <4>1, <4>2, <4>3
    <3> QED BY <3>1, <3>2
  <2> QED BY <1>17, <2>1, <2>2, <2>3
<1>19. TypeOK' /\ disk' = [b \in Block |-> disk'[b]]
  <2>1. <<>> \in Seq(Byte \cup {NULL}) OBVIOUS
  <2>2. free' \subseteq Block BY <1>3
  <2>3. pos' \in [File -> 0..Word - 1 \cup {NULL}]
    <3>1. pos \in [File -> 0..Word - 1 \cup {NULL}] BY DEF IInv, TypeOK
    <3>2. PICK x : x = pos'[f] OBVIOUS
    <3>3. pos' = [pos EXCEPT ![f] = x] BY <3>1, <3>2
    <3> QED BY <1>18, <3>1, <3>2, <3>3
  <2>4. \A b \in Block :
          \/ DOMAIN disk'[b] = Offset /\ \A o \in Offset : disk'[b][o] \in Byte \cup {NULL}
          \/ disk'[b] \in [Indirect -> Block \cup {0}]
    BY <1>6 DEF DiskType
  <2> QED BY <1>6, <1>8, <2>1, <2>2, <2>3, <2>4 DEF TypeOK, IInv
<1>20. Positions'
  <2>1. ASSUME NEW g \in File
        PROVE  /\ (pos'[g] = NULL) <=> (inode'[g] = NULL)
               /\ pos'[g] # NULL => pos'[g] \in 0..inode'[g].size \cup {Word - 1}
    <3>1. CASE g = f
      <4>1. pos'[f] # NULL BY <1>18, FileBlocksAssumption
      <4>2. pos'[f] \in 0..z \cup {Word - 1} BY <1>18
      <4> QED BY <1>7, <1>8, <1>16, <3>1, <4>1, <4>2
    <3>2. CASE g # f
      BY <1>8, <1>18, <3>2 DEF IInv, Positions
    <3> QED BY <3>1, <3>2
  <2> QED BY <2>1 DEF Positions
<1>21. Grows(f)
  <2>1. Used(ino) \subseteq Slot BY <1>10
  <2>2. \A s \in Used(ino) : At(ino, s) # 0 BY <1>3 DEF Sound
  <2>3. \A s \in Used(ino) : N[s] = At(ino, s) BY <1>5, <2>1, <2>2
  <2>4. ASSUME NEW s \in Used(ino) \ {Table}, NEW o \in Offset, s * BLOCK_SIZE + o < ino.size
        PROVE  At(Cur(f), s)' = At(ino, s) /\ disk'[At(ino, s)][o] = disk[At(ino, s)][o]
    <3>1. At(Cur(f), s)' = N[s] BY <1>6, <1>9, <2>1
    <3>2. disk'[N[s]][o] = disk[N[s]][o] BY <1>6, <1>10, <2>4, Zenon
    <3> QED BY <2>3, <3>1, <3>2
  <2>5. ino.size <= new.size BY <1>7
  <2> QED BY <1>3, <1>7, <1>9, <2>4, <2>5 DEF Grows
<1>22. Cur(f)'.size = Cur(f).size + n
  BY <1>3, <1>7, <1>9
<1>23. pos'[f] = IF Cur(f)'.size = 0 THEN Word - 1 ELSE Cur(f)'.size - 1
  BY <1>9, <1>16, <1>18
<1> QED BY <1>14, <1>15, <1>19, <1>20, <1>21, <1>22, <1>23 DEF IInv

\* What a write does, with names for what it computes.
Writes(f, n, slots, lba, sectors, new) ==
    /\ inode[f] # NULL /\ pos[f] # NULL /\ fault = "none" /\ got' = <<>>
    /\ slots = Slots(inode[f], n)
    /\ lba = FirstFree(IF Len(slots) < Cardinality(free) THEN Len(slots)
                       ELSE Cardinality(free))
    /\ sectors = Assigned(inode[f], slots, lba)
    /\ new = [size |-> inode[f].size + n, sectors |-> sectors]

Refused(f, slots, lba) ==
    /\ \E j \in 1..Len(lba) : /\ AssertAt(inode[f], slots[j]) # "none"
                              /\ fault' = AssertAt(inode[f], slots[j])
    /\ UNCHANGED <<free, disk, dinode, inode, pos, torn>>

Fails(f, sectors, lba) ==
    /\ free' = free \ Range(lba)
    /\ inode' = [inode EXCEPT ![f].sectors = sectors]
    /\ torn' = (torn \/ lba # <<>>)
    /\ UNCHANGED <<disk, dinode, pos, fault>>

Succeeds(f, n, slots, lba, sectors, new) ==
    /\ Len(lba) = Len(slots) /\ Blocks(inode[f].size + n) <= Total
    /\ free' = free \ Range(lba)
    /\ disk' = Written(f, inode[f], sectors, slots, lba, n)
    /\ inode' = [inode EXCEPT ![f] = new] /\ dinode' = [dinode EXCEPT ![f] = new]
    /\ pos' = [pos EXCEPT ![f] = (inode[f].size + n + Word - 1) % Word]
    /\ UNCHANGED <<torn, fault>>

LEMMA WriteCases ==
    ASSUME IInv, NEW f \in File, NEW n \in WriteSizes, file_write(f, n)
    PROVE  \E slots, lba, sectors, new :
             /\ Writes(f, n, slots, lba, sectors, new)
             /\ \/ Refused(f, slots, lba)
                \/ /\ Asked(inode[f], n, slots, lba)
                   /\ \/ Fails(f, sectors, lba)
                      \/ Succeeds(f, n, slots, lba, sectors, new)
<1>1. PICK slots : slots = Slots(inode[f], n)
  OBVIOUS
<1>2. PICK lba : lba = FirstFree(IF Len(slots) < Cardinality(free) THEN Len(slots)
                                 ELSE Cardinality(free))
  OBVIOUS
<1>3. PICK sectors : sectors = Assigned(inode[f], slots, lba)
  OBVIOUS
<1>4. PICK new : new = [size |-> inode[f].size + n, sectors |-> sectors]
  OBVIOUS
<1>5. PICK bad : bad = {j \in 1..Len(lba) : AssertAt(inode[f], slots[j]) # "none"}
  OBVIOUS
<1>6. /\ fault = "none" /\ pos[f] # NULL /\ got' = <<>>
      /\ \/ /\ bad # {}
            /\ fault' = AssertAt(inode[f], slots[Min(bad)])
            /\ UNCHANGED <<free, disk, dinode, inode, pos, torn>>
         \/ /\ bad = {}
            /\ Fails(f, sectors, lba)
         \/ /\ bad = {}
            /\ Len(lba) = Len(slots) /\ Blocks(inode[f].size + n) <= Total
            /\ free' = free \ Range(lba)
            /\ disk' = Written(f, inode[f], sectors, slots, lba, n)
            /\ inode' = [inode EXCEPT ![f] = new]
            /\ dinode' = [dinode EXCEPT ![f] = inode'[f]]
            /\ pos' = [pos EXCEPT ![f] = (inode[f].size + n + Word - 1) % Word]
            /\ UNCHANGED <<torn, fault>>
  BY <1>1, <1>2, <1>3, <1>4, <1>5 DEF file_write, Running, Fails
<1>7. inode[f] # NULL
  BY <1>6 DEF IInv, Positions
<1>8. Writes(f, n, slots, lba, sectors, new)
  BY <1>1, <1>2, <1>3, <1>4, <1>6, <1>7 DEF Writes
<1>9. n \in Nat
  BY SizeFits
<1>10. /\ slots \in Seq(Slot) /\ Range(slots) = Fresh(inode[f], n)
       /\ \A i, j \in DOMAIN slots : slots[i] = slots[j] => i = j
       /\ lba \in Seq(free) /\ Len(lba) <= Len(slots)
       /\ \A i, j \in 1..Len(lba) : lba[i] = lba[j] => i = j
  <2>1. free \subseteq Block /\ inode[f] \in Inode /\ Sound(inode[f])
    BY <1>7, OpenFile
  <2> QED BY <1>1, <1>2, <1>9, <2>1, Allocation
<1>11. CASE bad # {}
  <2>1. fault' = AssertAt(inode[f], slots[Min(bad)])
        /\ UNCHANGED <<free, disk, dinode, inode, pos, torn>>
    BY <1>6, <1>11
  <2>2. Min(bad) \in bad
    <3>1. Len(lba) \in Nat /\ bad \in SUBSET Nat BY <1>5, <1>10
    <3>3. \E m \in bad : \A k \in bad : m <= k BY <1>11, <3>1, LeastNat
    <3> QED BY <3>3 DEF Min
  <2>3. Refused(f, slots, lba) BY <1>5, <2>1, <2>2 DEF Refused
  <2> QED BY <1>8, <2>3
<1>12. CASE bad = {}
  <2>1. \A j \in 1..Len(lba) : AssertAt(inode[f], slots[j]) = "none" BY <1>5, <1>12
  <2>2. Asked(inode[f], n, slots, lba) BY <1>10, <2>1 DEF Asked
  <2>3. CASE Fails(f, sectors, lba) BY <1>8, <2>2, <2>3
  <2>4. CASE ~Fails(f, sectors, lba)
    <3>1. inode'[f] = new
      <4>1. inode \in [File -> Inode \cup {NULL}] BY DEF IInv, TypeOK
      <4> QED BY <1>6, <1>12, <2>4, <4>1
    <3>2. Succeeds(f, n, slots, lba, sectors, new)
      BY <1>6, <1>12, <2>4, <3>1 DEF Succeeds
    <3> QED BY <1>8, <2>2, <3>2
  <2> QED BY <2>3, <2>4
<1> QED BY <1>11, <1>12

\* What a write makes of the file: it leaves it alone, adds blocks that hold none of
\* its bytes, or adds bytes.
Outcome(f, n) ==
    \/ UNCHANGED <<disk, dinode, inode, pos>>
    \/ OthersSame(f) /\ Grows(f) /\ Cur(f)'.size = Cur(f).size /\ pos' = pos
    \/ /\ OthersSame(f) /\ Grows(f) /\ Cur(f)'.size = Cur(f).size + n
       /\ \E p : pos' = [pos EXCEPT ![f] = p]
       /\ pos'[f] = IF Cur(f)'.size = 0 THEN Word - 1 ELSE Cur(f)'.size - 1

LEMMA WriteKept ==
    ASSUME IInv, NEW f \in File, NEW n \in WriteSizes, file_write(f, n)
    PROVE  IInv' /\ pos[f] # NULL /\ got' = <<>> /\ Outcome(f, n)
<1>1. PICK slots, lba, sectors, new :
        /\ Writes(f, n, slots, lba, sectors, new)
        /\ \/ Refused(f, slots, lba)
           \/ /\ Asked(inode[f], n, slots, lba)
              /\ \/ Fails(f, sectors, lba)
                 \/ Succeeds(f, n, slots, lba, sectors, new)
  BY WriteCases
<1>2. /\ inode[f] # NULL /\ pos[f] # NULL /\ fault = "none" /\ got' = <<>> /\ n \in Nat
      /\ sectors = Assigned(inode[f], slots, lba)
      /\ new = [size |-> inode[f].size + n, sectors |-> sectors]
  BY <1>1, SizeFits DEF Writes
<1>3. <<>> \in Seq(Byte \cup {NULL})
  OBVIOUS
<1>4. CASE Refused(f, slots, lba)
  <2>1. PICK j \in 1..Len(lba) : /\ AssertAt(inode[f], slots[j]) # "none"
                                 /\ fault' = AssertAt(inode[f], slots[j])
    BY <1>4 DEF Refused
  <2>2. UNCHANGED <<free, disk, dinode, inode, pos, torn>> BY <1>4 DEF Refused
  <2>3. fault' \in Site \cup {"none"} BY <2>1 DEF AssertAt, Site
  <2>4. torn
    <3> SUFFICES ASSUME ~torn PROVE FALSE OBVIOUS
    <3>1. PICK ino : ino = inode[f] OBVIOUS
    <3>2. ino \in Inode /\ Sound(ino) /\ free \subseteq Block /\ Cur(f) = ino /\ ino # NULL
      BY <1>2, <3>1, OpenFile
    <3>3. \A r \in Slot : At(ino, r) # 0 => r \in Used(ino) BY <3>2 DEF IInv, Exact
    <3>4. slots = Slots(ino, n)
          /\ lba = FirstFree(IF Len(slots) < Cardinality(free) THEN Len(slots)
                             ELSE Cardinality(free))
      BY <1>1, <3>1 DEF Writes
    <3>5. slots \in Seq(Slot) /\ Range(slots) = Fresh(ino, n)
          /\ lba \in Seq(free) /\ Len(lba) <= Len(slots)
      BY <1>2, <3>2, <3>4, Allocation
    <3>6. slots[j] \in Fresh(ino, n) /\ slots[j] \in Slot
      <4>1. j \in DOMAIN slots BY <3>5
      <4> QED BY <3>5, <4>1 DEF Range
    <3>7. AssertAt(ino, slots[j]) = "none" BY <1>2, <3>2, <3>3, <3>6, Asserted
    <3> QED BY <2>1, <3>1, <3>7
  <2>5. IInv' BY <1>2, <1>3, <2>2, <2>3, <2>4, FilesKept
  <2> QED BY <1>2, <2>2, <2>5 DEF Outcome
<1>5. CASE Asked(inode[f], n, slots, lba) /\ Fails(f, sectors, lba)
  <2>1. /\ free' = free \ Range(lba)
        /\ inode' = [inode EXCEPT ![f].sectors = sectors]
        /\ torn' = (torn \/ lba # <<>>)
        /\ UNCHANGED <<disk, dinode, pos, fault>>
    BY <1>5 DEF Fails
  <2>2. CASE lba = <<>>
    <3>1. inode[f] \in Inode /\ inode \in [File -> Inode \cup {NULL}]
      BY <1>2, OpenFile DEF IInv, TypeOK
    <3>2. sectors = inode[f].sectors
      BY <1>2, <2>2, <3>1 DEF Assigned, Inode
    <3>3. inode' = inode BY <2>1, <3>1, <3>2 DEF Inode
    <3>4. free' = free BY <2>1, <2>2 DEF Range
    <3>5. torn' = torn /\ torn \in BOOLEAN BY <2>1, <2>2 DEF IInv, TypeOK
    <3>6. RangeAsserted' BY <1>2, <2>1 DEF RangeAsserted
    <3>7. IInv' BY <1>2, <1>3, <2>1, <3>3, <3>4, <3>5, <3>6, FilesKept
    <3> QED BY <1>2, <2>1, <3>3, <3>7 DEF Outcome
  <2>3. CASE lba # <<>>
    <3>1. torn' = TRUE BY <2>1, <2>3
    <3>2. inode' = [inode EXCEPT ![f].sectors = Assigned(inode[f], slots, lba)]
      BY <1>2, <2>1
    <3>3. Asked(inode[f], n, slots, lba) BY <1>5
    <3>4. IInv' /\ OthersSame(f) /\ Grows(f) /\ Cur(f)'.size = Cur(f).size
      BY <1>2, <2>1, <3>1, <3>2, <3>3, PartialKept
    <3> QED BY <1>2, <2>1, <3>4 DEF Outcome
  <2> QED BY <2>2, <2>3
<1>6. CASE Asked(inode[f], n, slots, lba) /\ Succeeds(f, n, slots, lba, sectors, new)
  <2>1. /\ Len(lba) = Len(slots) /\ Blocks(inode[f].size + n) <= Total
        /\ free' = free \ Range(lba)
        /\ disk' = Written(f, inode[f], sectors, slots, lba, n)
        /\ inode' = [inode EXCEPT ![f] = new] /\ dinode' = [dinode EXCEPT ![f] = new]
        /\ pos' = [pos EXCEPT ![f] = (inode[f].size + n + Word - 1) % Word]
        /\ UNCHANGED <<torn, fault>>
    BY <1>6 DEF Succeeds
  <2>2. Asked(inode[f], n, slots, lba) BY <1>6
  <2>3. /\ IInv' /\ OthersSame(f) /\ Grows(f) /\ Cur(f)'.size = Cur(f).size + n
        /\ pos'[f] = IF Cur(f)'.size = 0 THEN Word - 1 ELSE Cur(f)'.size - 1
    BY <1>2, <2>1, <2>2, GrownKept
  <2> QED BY <1>2, <2>1, <2>3 DEF Outcome
<1> QED BY <1>1, <1>4, <1>5, <1>6

LEMMA InitKept == Init => IInv
<1> SUFFICES ASSUME Init PROVE IInv
  OBVIOUS
<1> USE DEF Init
<1>1. \A f \in File : Cur(f) = NULL /\ inode[f] = NULL /\ dinode[f] = NULL /\ pos[f] = NULL
  BY DEF Cur
<1>2. TypeOK
  <2>1. <<>> \in Seq(Byte \cup {NULL}) OBVIOUS
  <2>2. \A b \in Block : DOMAIN disk[b] = Offset /\ \A o \in Offset : disk[b][o] = NULL
    BY DEF Blank
  <2> QED BY <2>1, <2>2 DEF TypeOK
<1>3. disk = [b \in Block |-> disk[b]]
  OBVIOUS
<1>4. Shape
  BY <1>1 DEF Shape, Inodes, Behind, Apart, Taken, Clean, Data, Blank
<1>5. Positions
  BY <1>1 DEF Positions
<1>6. Exact
  BY <1>1 DEF Exact, RangeAsserted
<1> QED BY <1>2, <1>3, <1>4, <1>5, <1>6 DEF IInv

LEMMA NextKept == IInv /\ [Next]_vars => IInv'
<1> SUFFICES ASSUME IInv, [Next]_vars PROVE IInv'
  OBVIOUS
<1>1. ASSUME NEW f \in File, file_open(f) PROVE IInv'
  BY <1>1, OpenKept
<1>2. ASSUME NEW f \in File, file_close(f) PROVE IInv'
  BY <1>2, CloseKept
<1>3. ASSUME NEW f \in File, sys_unlink(f) PROVE IInv'
  BY <1>3, UnlinkKept
<1>4. ASSUME NEW f \in File, NEW n \in WriteSizes, file_write(f, n) PROVE IInv'
  BY <1>4, WriteKept
<1>5. ASSUME NEW f \in File, NEW n \in ReadSizes, file_read(f, n) PROVE IInv'
  BY <1>5, ReadKept
<1>6. ASSUME NEW f \in File, NEW p \in Offsets, sys_lseek(f, p) PROVE IInv'
  BY <1>6, SeekKept
<1>7. CASE UNCHANGED vars
  <2>1. UNCHANGED <<free, disk, dinode, inode, torn>> /\ pos' = pos /\ got' = got /\ fault' = fault
    BY <1>7 DEF vars
  <2>2. got' \in Seq(Byte \cup {NULL}) /\ fault' \in Site \cup {"none"}
    BY <2>1 DEF IInv, TypeOK
  <2>3. ~torn => fault' \in {"none", "file.c:442"} /\ RangeAsserted'
    BY <2>1 DEF IInv, Exact, RangeAsserted
  <2> QED BY <2>1, <2>2, <2>3, FilesKept
<1> QED BY <1>1, <1>2, <1>3, <1>4, <1>5, <1>6, <1>7 DEF Next

----------------------------------------------------------------------------
(***************************************************************************)
(* The theorems.                                                           *)
(***************************************************************************)

THEOREM FilesInvariant == Spec => []IInv
<1>1. Init => IInv
  BY InitKept
<1>2. IInv /\ [Next]_vars => IInv'
  BY NextKept
<1> QED BY <1>1, <1>2, PTL DEF Spec

\* The inodes, the tables and the blocks keep their form, through every write that
\* succeeds, fails half-way or is stopped: fd_pos stays a number of 32 bits, and no
\* entry of a table or of i_sectors leaves the blocks of the partition.
THEOREM FilesTypeCorrect == Spec => []TypeOK
<1>1. IInv => TypeOK
  BY DEF IInv
<1> QED BY <1>1, FilesInvariant, PTL

\* As long as no write has failed half-way, no ASSERT of an allocation fails, nor
\* file_read()'s second one or the one that bitmap_set() makes of what inode_release()
\* gives it; file_read()'s first one fails only for a file that reaches into the last
\* block it may have or a position behind the end.
THEOREM AllocationsAsserted == Spec => []AssertedUnlessTorn
<1>1. IInv => AssertedUnlessTorn
  BY DEF IInv, Exact, AssertedUnlessTorn, AllocationAsserted
<1> QED BY <1>1, FilesInvariant, PTL

\* An inode that names what its size needs names this many blocks.
LEMMA NamedCount ==
    ASSUME NEW ino, Sound(ino), ino # NULL,
           \A s \in Slot : At(ino, s) # 0 => s \in Used(ino),
           \A s, r \in Slot : At(ino, s) # 0 /\ At(ino, s) = At(ino, r) => s = r
    PROVE  Cardinality(Named(ino)) =
             IF ino.sectors[0] = 0 THEN 0
             ELSE Blocks(ino.size) + (IF Blocks(ino.size) > NDirect THEN 1 ELSE 0)
<1>1. ino \in Inode /\ ino.size \in Nat /\ Used(ino) \subseteq Slot
  BY TableAt, UsedOf DEF Sound
<1>2. Named(ino) = {At(ino, s) : s \in Used(ino)}
  <2>1. Named(ino) = {At(ino, s) : s \in Slot} \ {0}
    BY <1>1, ReleasedNames DEF Named, Released
  <2>2. \A s \in Used(ino) : At(ino, s) # 0 BY DEF Sound
  <2> QED BY <1>1, <2>1, <2>2
<1>3. PICK B \in Nat \ {0} : B = Blocks(ino.size)
  <2>1. 0 \in Nat OBVIOUS
  <2> QED BY <1>1, <2>1, BlocksOfSize
<1>4. B <= Total
  BY <1>3 DEF Sound
<1>5. /\ IsFiniteSet(Used(ino))
      /\ Cardinality(Used(ino)) = IF ino.sectors[0] = 0 THEN 0
                                  ELSE B + (IF B > NDirect THEN 1 ELSE 0)
  <2>1. CASE ino.sectors[0] = 0
    BY <2>1, FS_EmptySet DEF Used
  <2>2. CASE ino.sectors[0] # 0
    <3>1. 0 \in Int /\ B - 1 \in Int OBVIOUS
    <3>2. /\ IsFiniteSet(0..B - 1)
          /\ Cardinality(0..B - 1) = IF 0 > B - 1 THEN 0 ELSE B - 1 - 0 + 1
      BY <3>1, FS_Interval
    <3>3. IsFiniteSet(0..B - 1) /\ Cardinality(0..B - 1) = B BY <3>2
    <3>4. Table \notin 0..B - 1 BY <1>4, Parts
    <3>5. /\ IsFiniteSet((0..B - 1) \cup {Table})
          /\ Cardinality((0..B - 1) \cup {Table}) = B + 1
      BY <3>3, <3>4, FS_AddElement
    <3>6. Used(ino) = 0..B - 1 \cup (IF B > NDirect THEN {Table} ELSE {})
      BY <1>3, <2>2 DEF Used
    <3>7. CASE B > NDirect
      BY <2>2, <3>5, <3>6, <3>7
    <3>8. CASE ~(B > NDirect)
      <4>1. Used(ino) = 0..B - 1 BY <3>6, <3>8
      <4>2. Cardinality(Used(ino)) = B + 0 BY <3>3, <4>1
      <4> QED BY <2>2, <3>3, <3>8, <4>1, <4>2
    <3> QED BY <3>7, <3>8
  <2> QED BY <2>1, <2>2
<1>6. PICK g : g = [s \in Used(ino) |-> At(ino, s)]
  OBVIOUS
<1>7. g \in Bijection(Used(ino), Named(ino))
  <2>1. \A s \in Used(ino) : At(ino, s) # 0 BY DEF Sound
  <2>2. \A s, r \in Used(ino) : At(ino, s) = At(ino, r) => s = r BY <1>1, <2>1
  <2>3. g \in [Used(ino) -> Named(ino)] BY <1>2, <1>6
  <2>4. \A s, r \in Used(ino) : g[s] = g[r] => s = r BY <1>6, <2>2
  <2>5. \A b \in Named(ino) : \E s \in Used(ino) : g[s] = b BY <1>2, <1>6
  <2> QED BY <2>3, <2>4, <2>5 DEF Bijection, Injection, Surjection, IsInjective
<1>8. Cardinality(Named(ino)) = Cardinality(Used(ino))
  <2>1. ExistsBijection(Used(ino), Named(ino)) BY <1>7 DEF ExistsBijection
  <2> QED BY <1>5, <2>1, FS_Bijection
<1> QED BY <1>3, <1>5, <1>8

\* As long as no write has failed half-way, the bitmap of blocks is exact: every block
\* is free or belongs to one file, in one place, and each file has the blocks that its
\* size needs, its indirect table included.
THEOREM BlocksStayAccounted == Spec => []BlocksAccounted
<1>1. ASSUME IInv, ~torn
      PROVE  /\ \A f, g \in File : f # g => Owned(f) \cap Owned(g) = {}
             /\ free = Block \ UNION {Owned(f) : f \in File}
             /\ \A f \in File : \A ino \in {inode[f], dinode[f]} \ {NULL} :
                  Cardinality(Named(ino)) =
                    IF ino.sectors[0] = 0 THEN 0
                    ELSE Blocks(ino.size) + (IF Blocks(ino.size) > NDirect THEN 1 ELSE 0)
  <2>1. Exact /\ free \subseteq Block BY <1>1 DEF IInv, TypeOK
  <2>2. ASSUME NEW f \in File
        PROVE  /\ Owned(f) = Named(Cur(f))
               /\ \A ino \in {inode[f], dinode[f]} \ {NULL} : ino = Cur(f)
    BY <2>1 DEF Owned, Cur, Exact, Named
  <2>3. ASSUME NEW f \in File
        PROVE  \A b : b \in Owned(f) <=> b # 0 /\ Names(f, b)
    <3>1. CASE Cur(f) = NULL BY <2>2, <3>1 DEF Named, Names
    <3>2. CASE Cur(f) # NULL
      <4>1. PICK ino : ino = Cur(f) OBVIOUS
      <4>2. ino \in Inode BY <1>1, <3>2, <4>1 DEF IInv, Shape, Inodes, Sound
      <4>3. Named(ino) = {At(ino, s) : s \in Slot} \ {0}
        BY <3>2, <4>1, <4>2, ReleasedNames DEF Named, Released
      <4> QED BY <2>2, <3>2, <4>1, <4>3 DEF Names
    <3> QED BY <3>1, <3>2
  <2>4. \A f, g \in File : f # g => Owned(f) \cap Owned(g) = {}
    BY <1>1, <2>3 DEF Names, IInv, Shape, Apart
  <2>5. \A f \in File : Owned(f) \cap free = {}
    BY <1>1, <2>3 DEF Names, IInv, Shape, Taken
  <2>6. \A b \in Block \ free : \E f \in File : b \in Owned(f)
    <3>1. 0 \notin Block BY Parts
    <3> QED BY <2>1, <2>3, <3>1 DEF Exact
  <2>7. free = Block \ UNION {Owned(f) : f \in File}
    BY <2>1, <2>5, <2>6
  <2>8. ASSUME NEW f \in File, Cur(f) # NULL
        PROVE  Cardinality(Named(Cur(f))) =
                 IF Cur(f).sectors[0] = 0 THEN 0
                 ELSE Blocks(Cur(f).size) + (IF Blocks(Cur(f).size) > NDirect THEN 1 ELSE 0)
    <3>1. PICK ino : ino = Cur(f) OBVIOUS
    <3>2. Sound(ino) /\ ino # NULL BY <1>1, <2>8, <3>1 DEF IInv, Shape, Inodes
    <3>3. \A s \in Slot : At(ino, s) # 0 => s \in Used(ino) BY <2>1, <2>8, <3>1 DEF Exact
    <3>4. \A s, r \in Slot : At(ino, s) # 0 /\ At(ino, s) = At(ino, r) => s = r
      BY <1>1, <2>8, <3>1 DEF IInv, Shape, Apart
    <3> QED BY <3>1, <3>2, <3>3, <3>4, NamedCount
  <2>9. \A f \in File : \A ino \in {inode[f], dinode[f]} \ {NULL} :
          Cardinality(Named(ino)) =
            IF ino.sectors[0] = 0 THEN 0
            ELSE Blocks(ino.size) + (IF Blocks(ino.size) > NDirect THEN 1 ELSE 0)
    BY <2>2, <2>8, Zenon
  <2> QED BY <2>4, <2>7, <2>9
<1>2. IInv => BlocksAccounted
  BY <1>1 DEF BlocksAccounted
<1> QED BY <1>2, FilesInvariant, PTL

----------------------------------------------------------------------------
(***************************************************************************)
(* The refinement: a file is a sequence of bytes.                          *)
(***************************************************************************)

\* The bytes of each file, one by one, and the block that holds each.
Bytes == \A f \in File :
    /\ Cur(f) = NULL => Content[f] = NULL
    /\ Cur(f) # NULL =>
         /\ Cur(f).size \in Nat /\ Cur(f).size < Word - 1
         /\ Content[f] \in Seq(Byte \cup {NULL}) /\ Len(Content[f]) = Cur(f).size
         /\ Content[f] # NULL
         /\ \A i \in 1..Cur(f).size : \E s \in Used(Cur(f)) \ {Table}, o \in Offset :
              /\ s * BLOCK_SIZE + o < Cur(f).size
              /\ s = (i - 1) \div BLOCK_SIZE /\ o = (i - 1) % BLOCK_SIZE
              /\ Content[f][i] = disk[At(Cur(f), s)][o]
              /\ Content[f][i] = disk[BlockOf(Cur(f), s)][o]
              /\ At(Cur(f), s) # 0 /\ s \in Slot

LEMMA ContentBytes == IInv => Bytes
<1> SUFFICES ASSUME IInv, NEW f \in File, Cur(f) # NULL
             PROVE  /\ Cur(f).size \in Nat /\ Cur(f).size < Word - 1
                    /\ Content[f] \in Seq(Byte \cup {NULL}) /\ Len(Content[f]) = Cur(f).size
                    /\ Content[f] # NULL
                    /\ \A i \in 1..Cur(f).size : \E s \in Used(Cur(f)) \ {Table}, o \in Offset :
                         /\ s * BLOCK_SIZE + o < Cur(f).size
                         /\ s = (i - 1) \div BLOCK_SIZE /\ o = (i - 1) % BLOCK_SIZE
                         /\ Content[f][i] = disk[At(Cur(f), s)][o]
                         /\ Content[f][i] = disk[BlockOf(Cur(f), s)][o]
                         /\ At(Cur(f), s) # 0 /\ s \in Slot
  <2>1. \A f \in File : Cur(f) = NULL => Content[f] = NULL BY DEF Content, Cur
  <2> QED BY <2>1 DEF Bytes
<1>1. PICK ino : ino = Cur(f)
  OBVIOUS
<1>2. /\ ino # NULL /\ Sound(ino) /\ ino.size \in Nat /\ Used(ino) \subseteq Slot
      /\ \A s \in Used(ino) : At(ino, s) # 0
      /\ DiskType /\ disk = [b \in Block |-> disk[b]]
      /\ \A s \in Used(ino) \ {Table} : DOMAIN disk[At(ino, s)] = Offset
  <2>1. Sound(ino) /\ \A s \in Used(ino) \ {Table} : DOMAIN disk[At(ino, s)] = Offset
    BY <1>1 DEF IInv, Shape, Inodes, Data
  <2>2. ino.size \in Nat /\ Used(ino) \subseteq Slot BY <2>1, TableAt, UsedOf DEF Sound
  <2>3. DiskType /\ disk = [b \in Block |-> disk[b]] BY DEF IInv, TypeOK, DiskType
  <2> QED BY <1>1, <2>1, <2>2, <2>3 DEF Sound
<1>3. PICK z \in Nat : z = ino.size
  BY <1>2
<1>4. z < Word - 1
  <2>1. z < Largest BY <1>2, <1>3, SizeFits DEF Sound
  <2>2. Largest \in Nat /\ Word \in Nat /\ 2 * Largest < Word BY SizeFits
  <2> HIDE DEF Largest
  <2> QED BY <2>1, <2>2
<1>5. Content[f] = [i \in 1..z |->
                      disk[BlockOf(ino, (i - 1) \div BLOCK_SIZE)][(i - 1) % BLOCK_SIZE]]
  BY <1>1, <1>2, <1>3 DEF Content, Cur
<1>6. ASSUME NEW i \in 1..z
      PROVE  /\ (i - 1) \div BLOCK_SIZE \in Used(ino) \ {Table}
             /\ (i - 1) % BLOCK_SIZE \in Offset
             /\ ((i - 1) \div BLOCK_SIZE) * BLOCK_SIZE + ((i - 1) % BLOCK_SIZE) = i - 1
             /\ BlockOf(ino, (i - 1) \div BLOCK_SIZE) = At(ino, (i - 1) \div BLOCK_SIZE)
             /\ disk[BlockOf(ino, (i - 1) \div BLOCK_SIZE)][(i - 1) % BLOCK_SIZE]
                  \in Byte \cup {NULL}
  <2>1. PICK x \in 0..z - 1 : x = i - 1 OBVIOUS
  <2>2. x \in 0..ino.size - 1 BY <1>3, <2>1
  <2>3. /\ x \div BLOCK_SIZE \in Used(ino) \ {Table} /\ x % BLOCK_SIZE \in Offset
        /\ BlockOf(ino, x \div BLOCK_SIZE) = At(ino, x \div BLOCK_SIZE)
        /\ disk[BlockOf(ino, x \div BLOCK_SIZE)][x % BLOCK_SIZE] \in Byte \cup {NULL}
    BY <1>2, <2>2, ByteAt
  <2>4. x = (x \div BLOCK_SIZE) * BLOCK_SIZE + (x % BLOCK_SIZE)
    <3>1. x \in Nat BY <2>1
    <3> QED BY <3>1, Parts, Division
  <2> QED BY <2>1, <2>3, <2>4, Zenon
<1>7. Content[f] \in Seq(Byte \cup {NULL}) /\ Len(Content[f]) = z
  BY <1>5, <1>6
<1>8. Content[f] # NULL
  <2>1. NULL \notin Seq(Byte \cup {NULL}) BY FileBlocksAssumption DEF Byte
  <2> QED BY <1>7, <2>1
<1>9. ASSUME NEW i \in 1..z
      PROVE  \E s \in Used(ino) \ {Table}, o \in Offset :
               /\ s * BLOCK_SIZE + o < z
               /\ s = (i - 1) \div BLOCK_SIZE /\ o = (i - 1) % BLOCK_SIZE
               /\ Content[f][i] = disk[At(ino, s)][o]
               /\ Content[f][i] = disk[BlockOf(ino, s)][o]
               /\ At(ino, s) # 0 /\ s \in Slot
  <2>1. PICK s \in Used(ino) \ {Table} : s = (i - 1) \div BLOCK_SIZE BY <1>6
  <2>2. PICK o \in Offset : o = (i - 1) % BLOCK_SIZE BY <1>6
  <2>3. s * BLOCK_SIZE + o = i - 1 /\ BlockOf(ino, s) = At(ino, s) BY <1>6, <2>1, <2>2
  <2>4. Content[f][i] = disk[BlockOf(ino, s)][o] BY <1>5, <2>1, <2>2
  <2>5. s * BLOCK_SIZE + o < z BY <2>3
  <2>6. At(ino, s) # 0 /\ s \in Slot BY <1>2
  <2> QED BY <2>1, <2>2, <2>3, <2>4, <2>5, <2>6
<1> QED BY <1>1, <1>2, <1>3, <1>4, <1>7, <1>8, <1>9

\* Sequences are equal when their elements are.
LEMMA SameSeq ==
    ASSUME NEW T, NEW a \in Seq(T), NEW b \in Seq(T), Len(a) = Len(b),
           \A i \in 1..Len(a) : a[i] = b[i]
    PROVE  a = b
  OBVIOUS

\* The bytes of the other files stay.
LEMMA OthersBytes ==
    ASSUME Bytes, Bytes', NEW f \in File, OthersSame(f), NEW g \in File \ {f}
    PROVE  Content'[g] = Content[g]
<1>1. Cur(g)' = Cur(g)
  BY DEF OthersSame
<1>2. CASE Cur(g) = NULL
  BY <1>1, <1>2 DEF Bytes
<1>3. CASE Cur(g) # NULL
  <2>1. PICK z : z = Cur(g).size OBVIOUS
  <2>2. /\ z \in Nat /\ Content[g] \in Seq(Byte \cup {NULL}) /\ Len(Content[g]) = z
        /\ Content'[g] \in Seq(Byte \cup {NULL}) /\ Len(Content'[g]) = z
    BY <1>1, <1>3, <2>1 DEF Bytes
  <2>3. ASSUME NEW i \in 1..z PROVE Content'[g][i] = Content[g][i]
    <3>1. PICK s \in Used(Cur(g)) \ {Table}, o \in Offset :
            /\ s = (i - 1) \div BLOCK_SIZE /\ o = (i - 1) % BLOCK_SIZE
            /\ Content[g][i] = disk[At(Cur(g), s)][o]
            /\ At(Cur(g), s) # 0 /\ s \in Slot
      BY <1>3, <2>1, <2>3 DEF Bytes
    <3>2. /\ At(Cur(g), s)' = At(Cur(g), s)
          /\ disk'[At(Cur(g), s)] = disk[At(Cur(g), s)]
      BY <1>3, <3>1 DEF OthersSame
    <3>3. Content'[g][i] = disk'[At(Cur(g), (i - 1) \div BLOCK_SIZE)'][(i - 1) % BLOCK_SIZE]
      BY <1>1, <1>3, <2>1, <2>3 DEF Bytes
    <3> QED BY <3>1, <3>2, <3>3
  <2> QED BY <2>2, <2>3, SameSeq
<1> QED BY <1>2, <1>3

\* The bytes of a file that grows stay where they are.
LEMMA GrownBytes ==
    ASSUME Bytes, Bytes', NEW f \in File, Grows(f)
    PROVE  /\ Len(Content[f]) = Cur(f).size /\ Len(Content'[f]) = Cur(f)'.size
           /\ Cur(f).size \in Nat /\ Cur(f)'.size \in Nat /\ Cur(f)'.size < Word - 1
           /\ Content[f] # NULL /\ Content'[f] # NULL
           /\ SubSeq(Content'[f], 1, Len(Content[f])) = Content[f]
           /\ Cur(f)'.size = Cur(f).size => Content'[f] = Content[f]
<1>1. Cur(f) # NULL /\ Cur(f)' # NULL
  BY DEF Grows
<1>2. PICK y : y = Cur(f).size
  OBVIOUS
<1>3. PICK z : z = Cur(f)'.size
  OBVIOUS
<1>4. /\ y \in Nat /\ Content[f] \in Seq(Byte \cup {NULL}) /\ Len(Content[f]) = y
      /\ Content[f] # NULL
  BY <1>1, <1>2 DEF Bytes
<1>5. /\ z \in Nat /\ z < Word - 1 /\ Content'[f] \in Seq(Byte \cup {NULL})
      /\ Len(Content'[f]) = z /\ Content'[f] # NULL
  BY <1>1, <1>3 DEF Bytes
<1>6. y <= z
  BY <1>2, <1>3 DEF Grows
<1>7. ASSUME NEW i \in 1..y PROVE Content'[f][i] = Content[f][i]
  <2>1. PICK s \in Used(Cur(f)) \ {Table}, o \in Offset :
          /\ s * BLOCK_SIZE + o < Cur(f).size
          /\ s = (i - 1) \div BLOCK_SIZE /\ o = (i - 1) % BLOCK_SIZE
          /\ Content[f][i] = disk[At(Cur(f), s)][o]
    BY <1>1, <1>2, <1>7 DEF Bytes
  <2>2. At(Cur(f), s)' = At(Cur(f), s) /\ disk'[At(Cur(f), s)][o] = disk[At(Cur(f), s)][o]
    BY <2>1 DEF Grows
  <2>3. i \in 1..z BY <1>4, <1>5, <1>6
  <2>4. Content'[f][i] = disk'[At(Cur(f), (i - 1) \div BLOCK_SIZE)'][(i - 1) % BLOCK_SIZE]
    BY <1>1, <1>3, <2>3 DEF Bytes
  <2> QED BY <2>1, <2>2, <2>4
<1>8. SubSeq(Content'[f], 1, y) = Content[f]
  <2>1. /\ SubSeq(Content'[f], 1, y) \in Seq(Byte \cup {NULL})
        /\ Len(SubSeq(Content'[f], 1, y)) = y
        /\ \A i \in 1..y : SubSeq(Content'[f], 1, y)[i] = Content'[f][i]
    BY <1>4, <1>5, <1>6
  <2> QED BY <1>4, <1>7, <2>1, SameSeq
<1>9. z = y => Content'[f] = Content[f]
  BY <1>4, <1>5, <1>7, SameSeq
<1> QED BY <1>2, <1>3, <1>4, <1>5, <1>8, <1>9

\* The content of the files after a step on f.
LEMMA ContentOne ==
    ASSUME NEW f \in File, \A g \in File \ {f} : Content'[g] = Content[g]
    PROVE  /\ Content' = [Content EXCEPT ![f] = Content'[f]]
           /\ Content'[f] = Content[f] => Content' = Content
<1>1. Content = [g \in File |-> Content[g]] /\ Content' = [g \in File |-> Content'[g]]
  BY DEF Content
<1> HIDE DEF Content
<1> QED BY <1>1

\* fd_pos as the abstract file has it.
LEMMA PosOf ==
    ASSUME pos \in [File -> 0..Word - 1 \cup {NULL}]
    PROVE  /\ Word \in Nat /\ Word > 1 /\ NULL \notin Int
           /\ \A f \in File : /\ (Pos[f] = NULL) <=> (pos[f] = NULL)
                              /\ pos[f] # Word - 1 => Pos[f] = pos[f]
           /\ \A f \in File : \A p :
                pos' = [pos EXCEPT ![f] = p] =>
                  Pos' = [Pos EXCEPT ![f] = IF p = Word - 1 THEN -1 ELSE p]
<1>1. Word \in Nat /\ Word > 1 /\ NULL \notin Int
  <2>1. Word \in Nat /\ NULL \notin Int BY FileBlocksAssumption
  <2>2. Largest \in Nat /\ 2 * Largest < Word BY SizeFits
  <2>3. Largest > 0
    <3>1. PICK b \in Nat \ {0} : b = BLOCK_SIZE BY Parts
    <3>2. PICK t \in Nat \ {0} : t = Total BY Parts
    <3>3. b * t > 0 BY Z3
    <3> QED BY <3>1, <3>2, <3>3 DEF Largest
  <2> HIDE DEF Largest
  <2> QED BY <2>1, <2>2, <2>3
<1>2. ASSUME NEW f \in File
      PROVE  /\ (Pos[f] = NULL) <=> (pos[f] = NULL)
             /\ pos[f] # Word - 1 => Pos[f] = pos[f]
  BY <1>1 DEF Pos
<1>3. ASSUME NEW f \in File, NEW p, pos' = [pos EXCEPT ![f] = p]
      PROVE  Pos' = [Pos EXCEPT ![f] = IF p = Word - 1 THEN -1 ELSE p]
  BY <1>3 DEF Pos
<1> QED BY <1>1, <1>2, <1>3

LEMMA OpenStep ==
    ASSUME IInv, Bytes, Bytes', NEW f \in File, file_open(f)
    PROVE  F!Open(f)
<1>1. /\ pos[f] = NULL /\ pos' = [pos EXCEPT ![f] = 0] /\ got' = <<>>
      /\ OthersSame(f) /\ (Cur(f) # NULL => Grows(f))
      /\ Cur(f)' # NULL /\ Cur(f)'.size = IF Cur(f) = NULL THEN 0 ELSE Cur(f).size
  BY OpenKept DEF file_open
<1>2. Pos[f] = NULL /\ Pos' = [Pos EXCEPT ![f] = 0]
  <2>1. pos \in [File -> 0..Word - 1 \cup {NULL}] BY DEF IInv, TypeOK
  <2>2. Word > 1 /\ Word \in Nat BY <2>1, PosOf
  <2>3. Pos' = [Pos EXCEPT ![f] = IF 0 = Word - 1 THEN -1 ELSE 0] BY <1>1, <2>1, PosOf
  <2>4. 0 # Word - 1 BY <2>2
  <2>5. Pos[f] = NULL BY <1>1, <2>1, PosOf
  <2> QED BY <2>3, <2>4, <2>5
<1>3. \A g \in File \ {f} : Content'[g] = Content[g]
  BY <1>1, OthersBytes
<1>4. CASE Cur(f) = NULL
  <2>1. Content[f] = NULL BY <1>4 DEF Bytes
  <2>2. Content'[f] \in Seq(Byte \cup {NULL}) /\ Len(Content'[f]) = 0
    BY <1>1, <1>4 DEF Bytes
  <2>3. Content'[f] = <<>> BY <2>2
  <2>4. Content' = [Content EXCEPT ![f] = <<>>] BY <1>3, <2>3, ContentOne
  <2> QED BY <1>1, <1>2, <2>1, <2>4 DEF F!Open
<1>5. CASE Cur(f) # NULL
  <2>1. Grows(f) /\ Cur(f)'.size = Cur(f).size BY <1>1, <1>5
  <2>2. Content[f] # NULL /\ Content'[f] = Content[f] BY <2>1, GrownBytes
  <2>3. Content' = Content BY <1>3, <2>2, ContentOne
  <2> QED BY <1>1, <1>2, <2>2, <2>3 DEF F!Open
<1> QED BY <1>4, <1>5

LEMMA CloseStep ==
    ASSUME IInv, Bytes, Bytes', NEW f \in File, file_close(f)
    PROVE  F!Close(f)
<1>1. /\ pos[f] # NULL /\ pos' = [pos EXCEPT ![f] = NULL] /\ got' = <<>>
      /\ OthersSame(f) /\ Grows(f) /\ Cur(f)'.size = Cur(f).size
  BY CloseKept DEF file_close, Running
<1>2. Pos[f] # NULL /\ Pos' = [Pos EXCEPT ![f] = NULL]
  <2>1. pos \in [File -> 0..Word - 1 \cup {NULL}] BY DEF IInv, TypeOK
  <2>2. Word > 1 /\ Word \in Nat /\ NULL \notin Int BY <2>1, PosOf
  <2>3. Pos' = [Pos EXCEPT ![f] = IF NULL = Word - 1 THEN -1 ELSE NULL] BY <1>1, <2>1, PosOf
  <2>4. NULL # Word - 1 BY <2>2
  <2> QED BY <1>1, <2>1, <2>3, <2>4, PosOf
<1>3. Content' = Content
  <2>1. Content'[f] = Content[f] BY <1>1, GrownBytes
  <2>2. \A g \in File \ {f} : Content'[g] = Content[g] BY <1>1, OthersBytes
  <2> QED BY <2>1, <2>2, ContentOne
<1> QED BY <1>1, <1>2, <1>3 DEF F!Close

\* What changes no inode and no block changes no content.
LEMMA SameContent ==
    ASSUME UNCHANGED <<disk, dinode, inode>>
    PROVE  Content' = Content
  BY DEF Content, BlockOf, TableOf

LEMMA UnlinkStep ==
    ASSUME IInv, Bytes, Bytes', NEW f \in File, sys_unlink(f)
    PROVE  F!Fail \/ F!Remove(f)
<1>1. /\ pos[f] = NULL /\ pos' = pos /\ got' = <<>>
      /\ \/ OthersSame(f) /\ Cur(f) # NULL /\ Cur(f)' = NULL
         \/ UNCHANGED <<disk, dinode, inode>>
  BY UnlinkKept DEF sys_unlink
<1>2. Pos[f] = NULL /\ Pos' = Pos
  <2>1. pos \in [File -> 0..Word - 1 \cup {NULL}] BY DEF IInv, TypeOK
  <2>2. Pos' = Pos BY <1>1 DEF Pos
  <2> QED BY <1>1, <2>1, <2>2, PosOf
<1>3. CASE UNCHANGED <<disk, dinode, inode>>
  <2>1. Content' = Content BY <1>3, SameContent
  <2> QED BY <1>1, <1>2, <2>1 DEF F!Fail
<1>4. CASE OthersSame(f) /\ Cur(f) # NULL /\ Cur(f)' = NULL
  <2>1. Content[f] # NULL /\ Content'[f] = NULL BY <1>4 DEF Bytes
  <2>2. \A g \in File \ {f} : Content'[g] = Content[g] BY <1>4, OthersBytes
  <2>3. Content' = [Content EXCEPT ![f] = NULL] BY <2>1, <2>2, ContentOne
  <2> QED BY <1>1, <1>2, <2>1, <2>3 DEF F!Remove
<1> QED BY <1>1, <1>3, <1>4

LEMMA WriteStep ==
    ASSUME IInv, Bytes, Bytes', NEW f \in File, NEW n \in WriteSizes, file_write(f, n)
    PROVE  F!Fail \/ F!Write(f)
<1>1. pos[f] # NULL /\ got' = <<>> /\ Outcome(f, n)
  BY WriteKept
<1>2. pos \in [File -> 0..Word - 1 \cup {NULL}]
  BY DEF IInv, TypeOK
<1>3. CASE UNCHANGED <<disk, dinode, inode, pos>>
  <2>1. Content' = Content BY <1>3, SameContent
  <2>2. Pos' = Pos BY <1>3 DEF Pos
  <2> QED BY <1>1, <2>1, <2>2 DEF F!Fail
<1>4. CASE OthersSame(f) /\ Grows(f) /\ Cur(f)'.size = Cur(f).size /\ pos' = pos
  <2>1. Content'[f] = Content[f] BY <1>4, GrownBytes
  <2>2. \A g \in File \ {f} : Content'[g] = Content[g] BY <1>4, OthersBytes
  <2>3. Content' = Content BY <2>1, <2>2, ContentOne
  <2>4. Pos' = Pos BY <1>4 DEF Pos
  <2> QED BY <1>1, <2>3, <2>4 DEF F!Fail
<1>5. CASE /\ OthersSame(f) /\ Grows(f) /\ Cur(f)'.size = Cur(f).size + n
           /\ \E p : pos' = [pos EXCEPT ![f] = p]
           /\ pos'[f] = IF Cur(f)'.size = 0 THEN Word - 1 ELSE Cur(f)'.size - 1
  <2>1. PICK z : z = Cur(f)'.size OBVIOUS
  <2>2. /\ z \in Nat /\ z < Word - 1 /\ Len(Content'[f]) = z
        /\ SubSeq(Content'[f], 1, Len(Content[f])) = Content[f]
    BY <1>5, <2>1, GrownBytes
  <2>3. \A g \in File \ {f} : Content'[g] = Content[g] BY <1>5, OthersBytes
  <2>4. Content' = [Content EXCEPT ![f] = Content'[f]] BY <2>3, ContentOne
  <2>5. Pos' = [Pos EXCEPT ![f] = Len(Content'[f]) - 1]
    <3>1. PICK p : pos' = [pos EXCEPT ![f] = p] BY <1>5
    <3>2. p = IF z = 0 THEN Word - 1 ELSE z - 1 BY <1>2, <1>5, <2>1, <3>1
    <3>3. Word \in Nat BY <1>2, PosOf
    <3>4. (IF p = Word - 1 THEN -1 ELSE p) = z - 1 BY <2>2, <3>2, <3>3
    <3>5. Pos' = [Pos EXCEPT ![f] = IF p = Word - 1 THEN -1 ELSE p] BY <1>2, <3>1, PosOf
    <3> QED BY <2>2, <3>4, <3>5
  <2>6. Pos[f] # NULL BY <1>1, <1>2, PosOf
  <2> QED BY <1>1, <2>2, <2>4, <2>5, <2>6 DEF F!Write
<1> QED BY <1>1, <1>3, <1>4, <1>5 DEF Outcome

LEMMA ReadStep ==
    ASSUME IInv, Bytes, NEW f \in File, NEW count \in ReadSizes, file_read(f, count)
    PROVE  F!Read(f) \/ UNCHANGED F!vars
<1>1. /\ inode[f] # NULL /\ pos[f] # NULL /\ UNCHANGED <<disk, dinode, inode>>
      /\ fault' = "none" =>
           \E size \in Nat \ {0} :
             /\ pos[f] \in Nat /\ pos[f] + size <= inode[f].size
             /\ got' = [i \in 1..size |->
                          disk[BlockOf(inode[f], (pos[f] + i - 1) \div BLOCK_SIZE)]
                              [(pos[f] + i - 1) % BLOCK_SIZE]]
             /\ pos' = [pos EXCEPT ![f] = pos[f] + size]
      /\ fault' # "none" => UNCHANGED <<got, pos>>
  BY ReadWithin DEF file_read
<1>2. Content' = Content
  BY <1>1, SameContent
<1>3. pos \in [File -> 0..Word - 1 \cup {NULL}]
  BY DEF IInv, TypeOK
<1>4. CASE fault' # "none"
  <2>1. Pos' = Pos BY <1>1, <1>4 DEF Pos
  <2> QED BY <1>1, <1>2, <1>4, <2>1 DEF F!vars
<1>5. CASE fault' = "none"
  <2>1. PICK size \in Nat \ {0} :
          /\ pos[f] \in Nat /\ pos[f] + size <= inode[f].size
          /\ got' = [i \in 1..size |->
                       disk[BlockOf(inode[f], (pos[f] + i - 1) \div BLOCK_SIZE)]
                           [(pos[f] + i - 1) % BLOCK_SIZE]]
          /\ pos' = [pos EXCEPT ![f] = pos[f] + size]
    BY <1>1, <1>5
  <2>2. PICK p \in Nat : p = pos[f] BY <2>1
  <2>3. PICK z : z = Cur(f).size OBVIOUS
  <2>4. Cur(f) = inode[f] /\ Cur(f) # NULL BY <1>1 DEF Cur
  <2>5. /\ z \in Nat /\ z < Word - 1 /\ Len(Content[f]) = z
        /\ Content[f] \in Seq(Byte \cup {NULL})
    BY <2>3, <2>4 DEF Bytes
  <2>6. p + size <= z /\ p + size \in Nat BY <2>1, <2>2, <2>3, <2>4
  <2>7. ASSUME NEW i \in 1..size PROVE got'[i] = Content[f][p + i]
    <3>1. p + i \in 1..z /\ (p + i) - 1 = p + i - 1 BY <2>5, <2>6
    <3>2. PICK x \in 1..z : x = p + i BY <3>1
    <3>3. Content[f][x] = disk[BlockOf(Cur(f), (x - 1) \div BLOCK_SIZE)][(x - 1) % BLOCK_SIZE]
      BY <2>3, <2>4, <3>2 DEF Bytes
    <3>4. x - 1 = p + i - 1 BY <3>1, <3>2
    <3>5. got'[i] = disk[BlockOf(inode[f], (p + i - 1) \div BLOCK_SIZE)]
                        [(p + i - 1) % BLOCK_SIZE]
      BY <2>1, <2>2
    <3> QED BY <2>4, <3>2, <3>3, <3>4, <3>5
  <2>8. got' = SubSeq(Content[f], p + 1, p + size)
    <3>1. /\ SubSeq(Content[f], p + 1, p + size) \in Seq(Byte \cup {NULL})
          /\ Len(SubSeq(Content[f], p + 1, p + size)) = size
          /\ \A i \in 1..size : SubSeq(Content[f], p + 1, p + size)[i] = Content[f][p + i]
      BY <2>5, <2>6
    <3>2. \A i \in 1..size : Content[f][p + i] \in Byte \cup {NULL}
      BY <2>5, <2>6
    <3>3. got' \in Seq(Byte \cup {NULL}) /\ Len(got') = size
      <4>1. \A i \in 1..size : got'[i] \in Byte \cup {NULL} BY <2>7, <3>2
      <4>2. got' \in [1..size -> Byte \cup {NULL}] BY <2>1, <4>1
      <4> QED BY <4>2
    <3> QED BY <2>7, <3>1, <3>3, SameSeq
  <2>9. Pos[f] = p /\ p # -1 /\ p # NULL
    <3>1. Word \in Nat /\ NULL \notin Int BY <1>3, PosOf
    <3>2. pos[f] # Word - 1 BY <2>1, <2>2, <2>5, <2>6, <3>1
    <3> QED BY <1>3, <2>2, <3>1, <3>2, PosOf
  <2>10. Pos' = [Pos EXCEPT ![f] = p + size]
    <3>1. Pos' = [Pos EXCEPT ![f] = IF p + size = Word - 1 THEN -1 ELSE p + size]
      BY <1>3, <2>1, <2>2, PosOf
    <3>2. Word \in Nat BY <1>3, PosOf
    <3>3. p + size # Word - 1 BY <2>5, <2>6, <3>2
    <3> QED BY <3>1, <3>3
  <2>11. p + size \in p + 1..Len(Content[f]) BY <2>5, <2>6
  <2> QED BY <1>2, <2>8, <2>9, <2>10, <2>11 DEF F!Read
<1> QED BY <1>4, <1>5

LEMMA SeekStep ==
    ASSUME IInv, Bytes, NEW f \in File, NEW p \in Offsets, sys_lseek(f, p)
    PROVE  F!Seek(f)
<1>1. /\ pos[f] # NULL /\ p \in 0..inode[f].size /\ pos' = [pos EXCEPT ![f] = p]
      /\ got' = <<>> /\ UNCHANGED <<disk, dinode, inode>>
  BY DEF sys_lseek, Running
<1>2. Content' = Content
  BY <1>1, SameContent
<1>3. pos \in [File -> 0..Word - 1 \cup {NULL}]
  BY DEF IInv, TypeOK
<1>4. Cur(f) = inode[f] /\ Cur(f) # NULL
  BY <1>1 DEF Cur, IInv, Positions
<1>5. PICK z : z = Cur(f).size
  OBVIOUS
<1>6. z \in Nat /\ z < Word - 1 /\ Len(Content[f]) = z
  BY <1>4, <1>5 DEF Bytes
<1>7. Pos' = [Pos EXCEPT ![f] = p]
  <2>1. Pos' = [Pos EXCEPT ![f] = IF p = Word - 1 THEN -1 ELSE p] BY <1>1, <1>3, PosOf
  <2>2. Word \in Nat BY <1>3, PosOf
  <2>3. p # Word - 1 BY <1>1, <1>4, <1>5, <1>6, <2>2
  <2> QED BY <2>1, <2>3
<1>8. Pos[f] # NULL /\ p \in 0..Len(Content[f])
  BY <1>1, <1>3, <1>4, <1>5, <1>6, PosOf
<1> QED BY <1>1, <1>2, <1>7, <1>8 DEF F!Seek

\* Reads return what was written: each file, through its direct and indirect blocks,
\* across closing and reopening it and whatever the other files do, is a sequence of
\* bytes that grows at its end or not at all, also when a write fails half-way.
THEOREM FilesImplemented == Spec => ReadsBack
<1>1. IInv => Bytes
  BY ContentBytes
<1>2. Init => F!Init
  <2>1. Init => Content = [f \in File |-> NULL] BY DEF Init, Content
  <2>2. Init => Pos = [f \in File |-> NULL]
    <3>1. Word \in Nat /\ NULL \notin Int BY FileBlocksAssumption
    <3>2. NULL # Word - 1 BY <3>1
    <3> QED BY <3>2 DEF Init, Pos
  <2> QED BY <2>1, <2>2 DEF Init, F!Init
<1>3. IInv /\ Bytes /\ Bytes' /\ [Next]_vars => [F!Next]_F!vars
  <2> SUFFICES ASSUME IInv, Bytes, Bytes', [Next]_vars PROVE [F!Next]_F!vars
    OBVIOUS
  <2>1. ASSUME NEW f \in File, file_open(f) PROVE F!Next
    BY <2>1, OpenStep DEF F!Next
  <2>2. ASSUME NEW f \in File, file_close(f) PROVE F!Next
    BY <2>2, CloseStep DEF F!Next
  <2>3. ASSUME NEW f \in File, sys_unlink(f) PROVE F!Next
    BY <2>3, UnlinkStep DEF F!Next
  <2>4. ASSUME NEW f \in File, NEW n \in WriteSizes, file_write(f, n) PROVE F!Next
    BY <2>4, WriteStep DEF F!Next
  <2>5. ASSUME NEW f \in File, NEW n \in ReadSizes, file_read(f, n)
        PROVE  F!Next \/ UNCHANGED F!vars
    BY <2>5, ReadStep DEF F!Next
  <2>6. ASSUME NEW f \in File, NEW p \in Offsets, sys_lseek(f, p) PROVE F!Next
    BY <2>6, SeekStep DEF F!Next
  <2>7. CASE UNCHANGED vars
    <3>1. UNCHANGED <<disk, dinode, inode, pos, got>> BY <2>7 DEF vars
    <3>2. Content' = Content BY <3>1, SameContent
    <3>3. Pos' = Pos BY <3>1 DEF Pos
    <3> QED BY <3>1, <3>2, <3>3 DEF F!vars
  <2> QED BY <2>1, <2>2, <2>3, <2>4, <2>5, <2>6, <2>7 DEF Next
<1> QED BY <1>1, <1>2, <1>3, FilesInvariant, PTL DEF Spec, ReadsBack, F!Spec
=============================================================================
