-------------------------- MODULE OpenFilesProofs --------------------------
(***************************************************************************)
(* Theorems about OpenFiles for every number of processes, names, inodes,  *)
(* slots, descriptors and pages: no inode is freed under a slot; a file    *)
(* has one writer and one inode in memory; outside the slots and inodes    *)
(* that were hurt every count is exact and no bad pointer is followed; a   *)
(* descriptor keeps its file.                                              *)
(***************************************************************************)
EXTENDS OpenFiles, FiniteSetTheorems, TLAPS

(***************************************************************************)
(* Numbers, sequences and loops.                                           *)
(***************************************************************************)

\* Slots, inodes and pages are different addresses, and NULL is none of them.
LEMMA Addresses ==
    /\ MAX_INODES \in Nat /\ MAX_FILE_OPEN \in Nat /\ MAX_FDS \in Nat
    /\ MAX_CACHED \in Nat /\ MAX_PIPES \in Nat
    /\ Slot \subseteq Nat /\ Obj \subseteq Nat /\ Fd \subseteq Nat /\ Ino \subseteq Nat
    /\ Page \subseteq Int
    /\ Slot \cap Obj = {} /\ Obj \cap Page = {} /\ Slot \cap Page = {}
    /\ NULL \notin Slot /\ NULL \notin Obj /\ NULL \notin Page /\ NULL \notin Ino
    /\ -1 \notin Slot /\ -1 \notin Obj /\ NULL # -1
  BY OpenFilesAssumption DEF Slot, Obj, Fd, Ino, Page

LEMMA FiniteSlots ==
    IsFiniteSet(Slot) /\ IsFiniteSet(Fd) /\ IsFiniteSet(Obj)
<1>1. /\ 1 \in Int /\ MAX_FILE_OPEN \in Int /\ MAX_FDS \in Int
      /\ MAX_FILE_OPEN + 1 \in Int /\ MAX_FILE_OPEN + MAX_CACHED \in Int
  BY Addresses
<1>2. IsFiniteSet(1..MAX_FILE_OPEN) BY <1>1, FS_Interval
<1>3. IsFiniteSet(1..MAX_FDS) BY <1>1, FS_Interval
<1>4. IsFiniteSet(MAX_FILE_OPEN + 1..MAX_FILE_OPEN + MAX_CACHED) BY <1>1, FS_Interval
<1> QED BY <1>2, <1>3, <1>4 DEF Slot, Fd, Obj

LEMMA LeastNat ==
    ASSUME NEW S, S \subseteq Nat, S # {}
    PROVE  \E n \in S : \A m \in S : n <= m
<1> DEFINE R == {p \in Nat \X Nat : p[1] < p[2]}
<1>1. IsWellFoundedOn(R, Nat)
  BY NatLessThanWellFounded DEF OpToRel
<1>2. PICK n \in S : \A m \in S : <<m, n>> \notin R
  <2> HIDE DEF R
  <2> QED BY <1>1, WFMin
<1>3. \A m \in S : ~(m < n)
  BY <1>2
<1> QED BY <1>3

\* Least() finds the first free one.
LEMMA LeastMember ==
    ASSUME NEW a \in Int, NEW S, S \subseteq Int, S # {}, \A x \in S : a <= x
    PROVE  Least(S) \in S /\ \A j \in S : Least(S) <= j
<1> DEFINE T == {n \in Nat : a + n \in S}
<1>1. T # {}
  <2>1. PICK x \in S : TRUE OBVIOUS
  <2>2. x - a \in Nat /\ a + (x - a) = x BY <2>1
  <2> QED BY <2>1, <2>2
<1>2. PICK n \in T : \A k \in T : n <= k
  <2> HIDE DEF T
  <2>1. T \subseteq Nat BY DEF T
  <2> QED BY <1>1, <2>1, LeastNat
<1>3. a + n \in S /\ n \in Nat OBVIOUS
<1>4. ASSUME NEW j \in S PROVE a + n <= j
  <2>1. j - a \in Nat /\ a + (j - a) = j BY DEF T
  <2>2. j - a \in T BY <2>1
  <2>3. n <= j - a BY <1>2, <2>2
  <2> QED BY <2>1, <2>3, <1>3
<1>5. \E i \in S : \A j \in S : i <= j BY <1>3, <1>4
<1> QED BY <1>5 DEF Least

\* Induction over the passes of a loop.
LEMMA Passes ==
    ASSUME NEW N \in Nat, NEW S, 0 \in S, \A i \in 1..N : i - 1 \in S => i \in S
    PROVE  \A i \in 0..N : i \in S
<1> DEFINE T == {i \in 0..N : i \notin S}
<1>1. ASSUME T # {} PROVE FALSE
  <2>1. T \subseteq Nat OBVIOUS
  <2>2. PICK n \in T : \A k \in T : n <= k
    <3> HIDE DEF T
    <3> QED BY <1>1, <2>1, LeastNat
  <2>3. n \in 1..N /\ n - 1 \in T /\ ~(n <= n - 1) OBVIOUS
  <2> QED BY <2>2, <2>3
<1> QED BY <1>1

\* A list without repetitions.
Once(list) == \A i, j \in DOMAIN list : list[i] = list[j] => i = j

LEMMA Concatenation ==
    ASSUME NEW T, NEW a \in Seq(T), NEW b \in Seq(T)
    PROVE  /\ a \o b \in Seq(T) /\ Len(a \o b) = Len(a) + Len(b)
           /\ \A j \in 1..Len(a) + Len(b) :
                (a \o b)[j] = IF j <= Len(a) THEN a[j] ELSE b[j - Len(a)]
  OBVIOUS

\* list_push() of an element that is not in the list.
LEMMA PushOnce ==
    ASSUME NEW T, NEW list \in Seq(T), Once(list), NEW x \in T, x \notin Range(list)
    PROVE  /\ <<x>> \o list \in Seq(T) /\ Once(<<x>> \o list)
           /\ Range(<<x>> \o list) = Range(list) \cup {x}
<1> DEFINE u == <<x>> \o list
<1>1. /\ Len(list) \in Nat /\ DOMAIN list = 1..Len(list)
      /\ <<x>> \in Seq(T) /\ Len(<<x>>) = 1 /\ <<x>>[1] = x
  OBVIOUS
<1>2. /\ u \in Seq(T) /\ Len(u) = 1 + Len(list)
      /\ \A j \in 1..1 + Len(list) : u[j] = IF j <= 1 THEN x ELSE list[j - 1]
  <2>1. \A j \in 1..1 + Len(list) : j <= 1 => <<x>>[j] = x BY <1>1
  <2> QED BY <1>1, <2>1, Concatenation
<1> HIDE DEF u
<1>3. DOMAIN u = 1..1 + Len(list) BY <1>2
<1>4. ASSUME NEW j \in DOMAIN u, j # 1 PROVE j - 1 \in DOMAIN list /\ u[j] = list[j - 1]
  BY <1>1, <1>2, <1>3, <1>4
<1>5. u[1] = x /\ 1 \in DOMAIN u BY <1>1, <1>2, <1>3
<1>6. Once(u)
  <2> SUFFICES ASSUME NEW i \in DOMAIN u, NEW j \in DOMAIN u, u[i] = u[j] PROVE i = j
    BY DEF Once
  <2>1. CASE i = 1 \/ j = 1 BY <1>4, <1>5, <2>1 DEF Range
  <2>2. CASE i # 1 /\ j # 1
    <3>1. i - 1 = j - 1 BY <1>4, <2>2 DEF Once
    <3> QED BY <3>1, <1>3
  <2> QED BY <2>1, <2>2
<1>7. Range(u) = Range(list) \cup {x}
  <2>1. ASSUME NEW i \in DOMAIN list PROVE list[i] \in Range(u)
    <3>1. i + 1 \in DOMAIN u /\ i + 1 # 1 /\ (i + 1) - 1 = i BY <1>1, <1>3
    <3>2. u[i + 1] = list[i] BY <3>1, <1>4
    <3> QED BY <3>1, <3>2 DEF Range
  <2>2. x \in Range(u) BY <1>5 DEF Range
  <2>3. ASSUME NEW i \in DOMAIN u PROVE u[i] \in Range(list) \cup {x}
    BY <1>4, <1>5 DEF Range
  <2> QED BY <2>1, <2>2, <2>3 DEF Range
<1> QED BY <1>2, <1>6, <1>7 DEF u

\* list_remove() unlinks one element.
LEMMA RemoveOnce ==
    ASSUME NEW T, NEW list \in Seq(T), Once(list), NEW t \in Range(list)
    PROVE  /\ RemoveFirst(list, t) \in Seq(T) /\ Once(RemoveFirst(list, t))
           /\ Range(RemoveFirst(list, t)) = Range(list) \ {t}
<1>0. DOMAIN list = 1..Len(list) /\ Len(list) \in Nat OBVIOUS
<1>1. PICK i \in 1..Len(list) : list[i] = t
  BY <1>0 DEF Range
<1>2. {j \in 1..Len(list) : list[j] = t} = {i}
  BY <1>0, <1>1 DEF Once
<1>3. SelectInSeq(list, LAMBDA v : v = t) = i
  <2>1. Min({i}) = i
    BY DEF Min
  <2>2. SelectInSeq(list, LAMBDA v : v = t) =
          IF {j \in 1..Len(list) : list[j] = t} # {}
          THEN Min({j \in 1..Len(list) : list[j] = t}) ELSE 0
    BY DEF SelectInSeq
  <2> QED BY <1>2, <2>1, <2>2
<1> DEFINE u == RemoveFirst(list, t)
           front == SubSeq(list, 1, i - 1)
           back == SubSeq(list, i + 1, Len(list))
<1>4. u = front \o back
  BY <1>1, <1>3 DEF RemoveFirst, RemoveAt
<1>5. /\ front \in Seq(T) /\ Len(front) = i - 1
      /\ \A j \in 1..i - 1 : front[j] = list[j]
  OBVIOUS
<1>6. /\ back \in Seq(T) /\ Len(back) = Len(list) - i
      /\ \A j \in 1..Len(list) - i : back[j] = list[i + j]
  OBVIOUS
<1> HIDE DEF front, back
<1>7. /\ front \o back \in Seq(T) /\ Len(front \o back) = Len(list) - 1
      /\ \A j \in 1..Len(list) - 1 :
           (front \o back)[j] = IF j <= i - 1 THEN front[j] ELSE back[j - (i - 1)]
  <2>1. /\ front \o back \in Seq(T)
        /\ Len(front \o back) = Len(front) + Len(back)
        /\ \A j \in 1..Len(front) + Len(back) :
             (front \o back)[j] = IF j <= Len(front) THEN front[j] ELSE back[j - Len(front)]
    BY <1>5, <1>6, Concatenation
  <2>2. Len(front) + Len(back) = Len(list) - 1
    BY <1>0, <1>5, <1>6
  <2> QED BY <1>5, <2>1, <2>2
<1>8. \A j \in 1..Len(list) - 1 : u[j] = list[IF j < i THEN j ELSE j + 1]
  <2> SUFFICES ASSUME NEW j \in 1..Len(list) - 1
               PROVE  u[j] = list[IF j < i THEN j ELSE j + 1]
    OBVIOUS
  <2> HIDE DEF u
  <2>1. CASE j < i
    <3>1. j \in 1..i - 1 /\ j <= i - 1 BY <1>0, <2>1
    <3> QED BY <1>4, <1>5, <1>7, <2>1, <3>1
  <2>2. CASE ~(j < i)
    <3>1. j - (i - 1) \in 1..Len(list) - i /\ i + (j - (i - 1)) = j + 1 /\ ~(j <= i - 1)
      BY <1>0, <2>2
    <3> QED BY <1>4, <1>6, <1>7, <2>2, <3>1
  <2> QED BY <2>1, <2>2
<1>9. u \in Seq(T) /\ DOMAIN u = 1..Len(list) - 1
  <2> HIDE DEF u
  <2> QED BY <1>4, <1>7
<1> HIDE DEF u
<1>10. \A j \in DOMAIN u : /\ (IF j < i THEN j ELSE j + 1) \in DOMAIN list \ {i}
                           /\ u[j] = list[IF j < i THEN j ELSE j + 1]
  BY <1>0, <1>8, <1>9
<1>11. Once(u)
  <2> SUFFICES ASSUME NEW j \in DOMAIN u, NEW h \in DOMAIN u, u[j] = u[h] PROVE j = h
    BY DEF Once
  <2>1. (IF j < i THEN j ELSE j + 1) = (IF h < i THEN h ELSE h + 1)
    BY <1>10 DEF Once
  <2> QED BY <2>1, <1>9
<1>12. Range(u) = Range(list) \ {t}
  <2>1. ASSUME NEW j \in DOMAIN u PROVE u[j] \in Range(list) \ {t}
    <3>1. PICK h \in DOMAIN list \ {i} : u[j] = list[h] BY <1>10
    <3> QED BY <1>0, <1>1, <3>1 DEF Once, Range
  <2>2. ASSUME NEW h \in DOMAIN list, list[h] # t PROVE list[h] \in Range(u)
    <3>1. CASE h < i
      <4>1. h \in DOMAIN u BY <1>0, <1>9, <3>1
      <4> QED BY <4>1, <3>1, <1>10 DEF Range
    <3>2. CASE ~(h < i)
      <4>1. h # i BY <1>1, <2>2
      <4>2. h - 1 \in DOMAIN u /\ ~(h - 1 < i) /\ (h - 1) + 1 = h BY <1>0, <1>9, <3>2, <4>1
      <4>3. u[h - 1] = list[h] BY <4>2, <1>10
      <4> QED BY <4>2, <4>3 DEF Range
    <3> QED BY <3>1, <3>2
  <2> QED BY <2>1, <2>2 DEF Range
<1> QED BY <1>9, <1>11, <1>12 DEF u

\* An element of a list without repetitions is there once.
LEMMA OnceCounted ==
    ASSUME NEW T, NEW list \in Seq(T), Once(list), NEW x \in Range(list)
    PROVE  Cardinality({j \in DOMAIN list : list[j] = x}) = 1
<1>1. PICK i \in DOMAIN list : list[i] = x BY DEF Range
<1>2. {j \in DOMAIN list : list[j] = x} = {i} BY <1>1 DEF Once
<1> QED BY <1>2, FS_Singleton

\* The loop of update_inode_open_cnts(), one descriptor after the other.
LEMMA CountLoop ==
    ASSUME NEW s, NEW q
    PROVE  \E done : /\ done[0] = s
                     /\ \A i \in 1..MAX_FDS : done[i] = CountedFd(done[i - 1], q, i)
                     /\ update_inode_open_cnts(s, q) = done[MAX_FDS]
<1>0. MAX_FDS \in Nat BY Addresses
<1> DEFINE S == {k \in 0..MAX_FDS :
                   \E h : h = [i \in 0..k |-> IF i = 0 THEN s ELSE CountedFd(h[i - 1], q, i)]}
<1>1. 0 \in S
  <2> DEFINE h == [i \in 0..0 |-> s]
  <2>1. h = [i \in 0..0 |-> IF i = 0 THEN s ELSE CountedFd(h[i - 1], q, i)] OBVIOUS
  <2> HIDE DEF h
  <2> QED BY <1>0, <2>1
<1>2. ASSUME NEW k \in 1..MAX_FDS, k - 1 \in S PROVE k \in S
  <2>1. PICK h : h = [i \in 0..k - 1 |-> IF i = 0 THEN s ELSE CountedFd(h[i - 1], q, i)]
    BY <1>2
  <2> DEFINE e == [i \in 0..k |-> IF i = k THEN CountedFd(h[k - 1], q, k) ELSE h[i]]
  <2>2. /\ h[0] = s /\ \A i \in 1..k - 1 : h[i] = CountedFd(h[i - 1], q, i)
    BY <2>1
  <2>3. \A i \in 0..k : e[i] = IF i = 0 THEN s ELSE CountedFd(e[i - 1], q, i)
    <3> SUFFICES ASSUME NEW i \in 0..k
                 PROVE  e[i] = IF i = 0 THEN s ELSE CountedFd(e[i - 1], q, i)
      OBVIOUS
    <3>1. CASE i = 0 BY <2>2, <3>1
    <3>2. CASE i # 0
      <4>1. e[i - 1] = h[i - 1] BY <3>2
      <4> QED BY <2>2, <3>2, <4>1
    <3> QED BY <3>1, <3>2
  <2>4. e = [i \in 0..k |-> IF i = 0 THEN s ELSE CountedFd(e[i - 1], q, i)]
    <3>1. e = [i \in 0..k |-> e[i]] OBVIOUS
    <3> HIDE DEF e
    <3> QED BY <2>3, <3>1
  <2> HIDE DEF e
  <2> QED BY <2>4
<1>3. MAX_FDS \in S
  <2> HIDE DEF S
  <2> QED BY <1>0, <1>1, <1>2, Passes
<1> DEFINE done == CHOOSE h : h = [i \in 0..MAX_FDS |->
                                     IF i = 0 THEN s ELSE CountedFd(h[i - 1], q, i)]
<1>4. done = [i \in 0..MAX_FDS |-> IF i = 0 THEN s ELSE CountedFd(done[i - 1], q, i)]
  BY <1>3
<1>5. update_inode_open_cnts(s, q) = done[MAX_FDS]
  BY DEF update_inode_open_cnts
<1> HIDE DEF done
<1>6. done[0] = s /\ \A i \in 1..MAX_FDS : done[i] = CountedFd(done[i - 1], q, i)
  BY <1>0, <1>4
<1> QED BY <1>5, <1>6

\* The loop of release_prog_resource(), one descriptor after the other.
LEMMA ReleaseLoop ==
    ASSUME NEW s, NEW p
    PROVE  \E done : /\ done[0] = s
                     /\ \A i \in 1..MAX_FDS : done[i] = ReleasedFd(done[i - 1], p, i)
                     /\ release_prog_resource(s, p) = done[MAX_FDS]
<1>0. MAX_FDS \in Nat BY Addresses
<1> DEFINE S == {k \in 0..MAX_FDS :
                   \E h : h = [i \in 0..k |-> IF i = 0 THEN s ELSE ReleasedFd(h[i - 1], p, i)]}
<1>1. 0 \in S
  <2> DEFINE h == [i \in 0..0 |-> s]
  <2>1. h = [i \in 0..0 |-> IF i = 0 THEN s ELSE ReleasedFd(h[i - 1], p, i)] OBVIOUS
  <2> HIDE DEF h
  <2> QED BY <1>0, <2>1
<1>2. ASSUME NEW k \in 1..MAX_FDS, k - 1 \in S PROVE k \in S
  <2>1. PICK h : h = [i \in 0..k - 1 |-> IF i = 0 THEN s ELSE ReleasedFd(h[i - 1], p, i)]
    BY <1>2
  <2> DEFINE e == [i \in 0..k |-> IF i = k THEN ReleasedFd(h[k - 1], p, k) ELSE h[i]]
  <2>2. /\ h[0] = s /\ \A i \in 1..k - 1 : h[i] = ReleasedFd(h[i - 1], p, i)
    BY <2>1
  <2>3. \A i \in 0..k : e[i] = IF i = 0 THEN s ELSE ReleasedFd(e[i - 1], p, i)
    <3> SUFFICES ASSUME NEW i \in 0..k
                 PROVE  e[i] = IF i = 0 THEN s ELSE ReleasedFd(e[i - 1], p, i)
      OBVIOUS
    <3>1. CASE i = 0 BY <2>2, <3>1
    <3>2. CASE i # 0
      <4>1. e[i - 1] = h[i - 1] BY <3>2
      <4> QED BY <2>2, <3>2, <4>1
    <3> QED BY <3>1, <3>2
  <2>4. e = [i \in 0..k |-> IF i = 0 THEN s ELSE ReleasedFd(e[i - 1], p, i)]
    <3>1. e = [i \in 0..k |-> e[i]] OBVIOUS
    <3> HIDE DEF e
    <3> QED BY <2>3, <3>1
  <2> HIDE DEF e
  <2> QED BY <2>4
<1>3. MAX_FDS \in S
  <2> HIDE DEF S
  <2> QED BY <1>0, <1>1, <1>2, Passes
<1> DEFINE done == CHOOSE h : h = [i \in 0..MAX_FDS |->
                                     IF i = 0 THEN s ELSE ReleasedFd(h[i - 1], p, i)]
<1>4. done = [i \in 0..MAX_FDS |-> IF i = 0 THEN s ELSE ReleasedFd(done[i - 1], p, i)]
  BY <1>3
<1>5. release_prog_resource(s, p) = done[MAX_FDS]
  BY DEF release_prog_resource
<1> HIDE DEF done
<1>6. done[0] = s /\ \A i \in 1..MAX_FDS : done[i] = ReleasedFd(done[i - 1], p, i)
  BY <1>0, <1>4
<1> QED BY <1>5, <1>6

----------------------------------------------------------------------------
(***************************************************************************)
(* What the operators on f do to each field, and the types of the result.  *)
(***************************************************************************)

LEMMA FieldTypes ==
    ASSUME NEW s \in OpenFilesState
    PROVE  /\ s.fds \in [Process -> [Fd -> Slot \cup {-1}]]
           /\ s.table \in [Slot -> FileState]
           /\ s.inode \in [Obj -> InodeState \cup {NULL}]
           /\ s.open_inodes \in Seq(Obj)
           /\ s.pages \subseteq Page /\ s.fault \in Site \cup {"none"}
           /\ s.hurt \subseteq Slot \cup Obj
           /\ s.undenied \subseteq Obj /\ s.removed \subseteq Obj
  BY DEF OpenFilesState

\* The fields of an inode in memory.
LEMMA LiveInode ==
    ASSUME NEW s \in OpenFilesState, NEW o \in Obj, s.inode[o] # NULL
    PROVE  /\ s.inode[o] \in InodeState
           /\ s.inode[o].i_no \in Ino /\ s.inode[o].i_open_cnts \in Int
           /\ s.inode[o].write_deny \in BOOLEAN
<1>1. s.inode[o] \in InodeState BY FieldTypes
<1> QED BY <1>1 DEF InodeState

LEMMA SlotTypes ==
    ASSUME NEW s \in OpenFilesState, NEW g \in Slot
    PROVE  /\ s.table[g] \in FileState
           /\ s.table[g].fd_inode \in Obj \cup Page \cup {NULL}
           /\ s.table[g].fd_pos \in Int
           /\ s.table[g].fd_flag \in {"r", "w", "pipe"}
<1>1. s.table[g] \in FileState BY FieldTypes
<1> QED BY <1>1 DEF FileState

\* A pointer the kernel must not follow is all that Fault() notes.
LEMMA FaultEffect ==
    ASSUME NEW s \in OpenFilesState, NEW line \in Site
    PROVE  /\ Fault(s, line) \in OpenFilesState
           /\ Fault(s, line).fds = s.fds /\ Fault(s, line).table = s.table
           /\ Fault(s, line).inode = s.inode /\ Fault(s, line).open_inodes = s.open_inodes
           /\ Fault(s, line).pages = s.pages /\ Fault(s, line).hurt = s.hurt
           /\ Fault(s, line).undenied = s.undenied /\ Fault(s, line).removed = s.removed
           /\ Fault(s, line).fault = IF s.fault = "none" THEN line ELSE s.fault
           /\ Fault(s, line).fault # "none"
<1>1. line # "none" BY DEF Site
<1> QED BY <1>1 DEF Fault, OpenFilesState

\* Equal in all that a call may change in the inodes, s the state before.
SameInodes(s, t) ==
    /\ t.inode = s.inode /\ t.open_inodes = s.open_inodes
    /\ t.undenied = s.undenied /\ t.removed = s.removed

\* inode_close(): one user less, nothing at all but a fault, or the inode is gone.
InodeDropped(s, t, o) ==
    /\ t.inode[o] # NULL /\ t.inode[o].i_no = s.inode[o].i_no
    /\ s.inode[o].i_open_cnts # 1
    /\ t.inode[o].i_open_cnts = s.inode[o].i_open_cnts - 1
    /\ t.open_inodes = s.open_inodes /\ t.hurt = s.hurt
    /\ t.undenied = s.undenied /\ t.removed = s.removed /\ t.fault = s.fault
InodeAstray(s, t, o) ==
    /\ t.inode[o] # NULL /\ t.inode[o].i_no = s.inode[o].i_no
    /\ s.inode[o].i_open_cnts = 1 /\ t.inode[o].i_open_cnts = 1
    /\ o \notin Range(s.open_inodes)
    /\ t.open_inodes = s.open_inodes /\ t.hurt = s.hurt
    /\ t.undenied = s.undenied /\ t.removed = s.removed
    /\ t.fault = IF s.fault = "none" THEN "inode.c:141" ELSE s.fault
InodeFreed(s, t, o) ==
    /\ s.inode[o].i_open_cnts = 1 /\ t.inode[o] = NULL
    /\ o \in Range(s.open_inodes)
    /\ Once(t.open_inodes) /\ Range(t.open_inodes) = Range(s.open_inodes) \ {o}
    /\ t.hurt = s.hurt \ {o} /\ t.undenied = s.undenied \ {o}
    /\ t.removed = s.removed \ {o} /\ t.fault = s.fault
InodeClosed(s, t, o) ==
    /\ \A x \in Obj \ {o} : t.inode[x] = s.inode[x]
    /\ InodeDropped(s, t, o) \/ InodeAstray(s, t, o) \/ InodeFreed(s, t, o)

LEMMA InodeCloseEffect ==
    ASSUME NEW s \in OpenFilesState, Once(s.open_inodes), NEW o \in Obj, s.inode[o] # NULL
    PROVE  LET t == inode_close(s, o)
           IN  /\ t \in OpenFilesState
               /\ t.fds = s.fds /\ t.table = s.table /\ t.pages = s.pages
               /\ InodeClosed(s, t, o)
               /\ t.inode[o] # NULL => t.inode[o].write_deny = s.inode[o].write_deny
<1> DEFINE t == inode_close(s, o)
           n == s.inode[o].i_open_cnts
<1>1. s.inode[o] \in InodeState /\ n \in Int BY LiveInode
<1>2. CASE n # 1
  <2> DEFINE y == [s.inode EXCEPT ![o].i_open_cnts = n - 1]
  <2>1. t = [s EXCEPT !.inode = y] BY <1>2 DEF inode_close
  <2>2. /\ y \in [Obj -> InodeState \cup {NULL}]
        /\ \A x \in Obj \ {o} : y[x] = s.inode[x]
        /\ y[o] \in InodeState /\ y[o].i_no = s.inode[o].i_no /\ y[o].i_open_cnts = n - 1
        /\ y[o].write_deny = s.inode[o].write_deny
    BY <1>1, FieldTypes DEF InodeState
  <2> HIDE DEF y
  <2>3. y[o] # NULL BY <2>2, NullAssumption
  <2>4. /\ t \in OpenFilesState /\ t.inode = y
        /\ t.fds = s.fds /\ t.table = s.table /\ t.pages = s.pages
        /\ t.open_inodes = s.open_inodes /\ t.hurt = s.hurt
        /\ t.undenied = s.undenied /\ t.removed = s.removed /\ t.fault = s.fault
    BY <2>1, <2>2 DEF OpenFilesState
  <2>5. InodeDropped(s, t, o) BY <1>2, <2>2, <2>3, <2>4 DEF InodeDropped
  <2> QED BY <2>2, <2>4, <2>5 DEF InodeClosed
<1>3. CASE n = 1 /\ o \notin Range(s.open_inodes)
  <2>1. t = Fault(s, "inode.c:141") BY <1>3 DEF inode_close
  <2>2. "inode.c:141" \in Site BY DEF Site
  <2>3. InodeAstray(s, t, o) BY <1>3, <2>1, <2>2, FaultEffect DEF InodeAstray
  <2> QED BY <2>1, <2>2, <2>3, FaultEffect DEF InodeClosed
<1>4. CASE n = 1 /\ o \in Range(s.open_inodes)
  <2> DEFINE y == [s.inode EXCEPT ![o] = NULL]
             l == RemoveFirst(s.open_inodes, o)
             h == s.hurt \ {o}
             u == s.undenied \ {o}
             e == s.removed \ {o}
  <2>1. t = [s EXCEPT !.inode = y, !.open_inodes = l, !.hurt = h, !.undenied = u, !.removed = e]
    BY <1>4 DEF inode_close
  <2>2. /\ y \in [Obj -> InodeState \cup {NULL}] /\ y[o] = NULL
        /\ \A x \in Obj \ {o} : y[x] = s.inode[x]
        /\ h \subseteq Slot \cup Obj /\ u \subseteq Obj /\ e \subseteq Obj
    BY FieldTypes
  <2>3. l \in Seq(Obj) /\ Once(l) /\ Range(l) = Range(s.open_inodes) \ {o}
    BY <1>4, FieldTypes, RemoveOnce
  <2> HIDE DEF y, l, h, u, e
  <2>4. /\ t \in OpenFilesState /\ t.inode = y
        /\ t.fds = s.fds /\ t.table = s.table /\ t.pages = s.pages
        /\ t.open_inodes = l /\ t.hurt = h
        /\ t.undenied = u /\ t.removed = e /\ t.fault = s.fault
    BY <2>1, <2>2, <2>3 DEF OpenFilesState
  <2>5. InodeFreed(s, t, o) BY <1>4, <2>2, <2>3, <2>4 DEF InodeFreed, h, u, e
  <2> QED BY <2>2, <2>4, <2>5 DEF InodeClosed
<1> QED BY <1>2, <1>3, <1>4

\* What a close leaves of the inodes, u the state after the history was noted.
InodesAfterClose(u, t, o) ==
    /\ o = NULL => /\ SameInodes(u, t) /\ t.hurt = u.hurt /\ t.table = u.table
                   /\ t.fault = IF u.fault = "none" THEN "file.c:208" ELSE u.fault
    /\ o \in Page => SameInodes(u, t) /\ t.hurt = u.hurt /\ t.fault = u.fault
    /\ o \in Obj => InodeClosed(u, t, o)

\* Slot g is given up, the others stay.
SlotClosed(s, t, g) ==
    /\ t.table[g].fd_inode = NULL
    /\ t.table[g].fd_flag = s.table[g].fd_flag
    /\ t.table[g].fd_pos = s.table[g].fd_pos
    /\ \A h \in Slot \ {g} : t.table[h] = s.table[h]

LEMMA FileCloseEffect ==
    ASSUME NEW s \in OpenFilesState, Once(s.open_inodes), NEW g \in Slot,
           s.table[g].fd_inode \in Obj => s.inode[s.table[g].fd_inode] # NULL
    PROVE  LET t == file_close(s, g)
           IN  /\ t \in OpenFilesState
               /\ t.fds = s.fds /\ t.pages = s.pages
               /\ SlotClosed(s, t, g)
               /\ InodesAfterClose(s, t, s.table[g].fd_inode)
<1> DEFINE t == file_close(s, g)
<1>1. PICK o : o = s.table[g].fd_inode OBVIOUS
<1>2. o \in Obj \cup Page \cup {NULL} /\ s.table[g] \in FileState BY <1>1, SlotTypes
<1>3. CASE o = NULL
  <2>1. t = Fault(s, "file.c:208") BY <1>1, <1>3 DEF file_close
  <2>2. "file.c:208" \in Site BY DEF Site
  <2>3. NULL \notin Page /\ NULL \notin Obj BY Addresses
  <2>4. /\ t \in OpenFilesState /\ t.fds = s.fds /\ t.pages = s.pages /\ t.table = s.table
        /\ SameInodes(s, t) /\ t.hurt = s.hurt
        /\ t.fault = IF s.fault = "none" THEN "file.c:208" ELSE s.fault
    BY <2>1, <2>2, FaultEffect DEF SameInodes
  <2>5. SlotClosed(s, t, g) BY <1>1, <1>3, <2>4 DEF SlotClosed
  <2>6. InodesAfterClose(s, t, o) BY <1>3, <2>3, <2>4 DEF InodesAfterClose
  <2> QED BY <1>1, <2>4, <2>5, <2>6
<1> DEFINE Given(c) == [c.table EXCEPT ![g].fd_inode = NULL]
<1>4. ASSUME NEW c \in OpenFilesState, c.table = s.table, t = [c EXCEPT !.table[g].fd_inode = NULL]
      PROVE  /\ t \in OpenFilesState /\ SlotClosed(s, t, g)
             /\ t.fds = c.fds /\ t.pages = c.pages /\ t.inode = c.inode
             /\ t.open_inodes = c.open_inodes /\ t.hurt = c.hurt
             /\ t.undenied = c.undenied /\ t.removed = c.removed /\ t.fault = c.fault
  <2> DEFINE y == [s.table EXCEPT ![g].fd_inode = NULL]
  <2>1. t = [c EXCEPT !.table = y] BY <1>4
  <2>2. /\ y \in [Slot -> FileState] /\ y[g].fd_inode = NULL
        /\ y[g].fd_flag = s.table[g].fd_flag /\ y[g].fd_pos = s.table[g].fd_pos
        /\ \A h \in Slot \ {g} : y[h] = s.table[h]
    BY <1>2, FieldTypes DEF FileState
  <2> HIDE DEF y
  <2>3. /\ t \in OpenFilesState /\ t.table = y
        /\ t.fds = c.fds /\ t.pages = c.pages /\ t.inode = c.inode
        /\ t.open_inodes = c.open_inodes /\ t.hurt = c.hurt
        /\ t.undenied = c.undenied /\ t.removed = c.removed /\ t.fault = c.fault
    BY <2>1, <2>2 DEF OpenFilesState
  <2> QED BY <2>2, <2>3 DEF SlotClosed
<1>5. CASE o \in Page
  <2>1. o \notin Obj /\ o # NULL BY <1>5, Addresses
  <2>2. t = [s EXCEPT !.table[g].fd_inode = NULL] BY <1>1, <2>1 DEF file_close
  <2>3. InodesAfterClose(s, t, o) BY <1>4, <2>1, <2>2 DEF InodesAfterClose, SameInodes
  <2> QED BY <1>1, <1>4, <2>2, <2>3
<1>6. CASE o \in Obj
  <2>1. s.inode[o] # NULL /\ o # NULL /\ o \notin Page BY <1>1, <1>6, Addresses
  <2> DEFINE y == [s.inode EXCEPT ![o].write_deny = FALSE]
             v == [s EXCEPT !.inode = y]
             c == inode_close(v, o)
  <2>2. s.inode[o] \in InodeState BY <1>6, <2>1, LiveInode
  <2>3. /\ y \in [Obj -> InodeState \cup {NULL}]
        /\ \A x \in Obj \ {o} : y[x] = s.inode[x]
        /\ y[o] \in InodeState /\ y[o].i_no = s.inode[o].i_no
        /\ y[o].i_open_cnts = s.inode[o].i_open_cnts
    BY <1>6, <2>2, FieldTypes DEF InodeState
  <2>4. y[o] # NULL BY <2>3, NullAssumption
  <2>5. t = [c EXCEPT !.table[g].fd_inode = NULL] BY <1>1, <1>6, <2>1 DEF file_close
  <2> HIDE DEF y
  <2>6. /\ v \in OpenFilesState /\ v.inode = y
        /\ v.fds = s.fds /\ v.table = s.table /\ v.pages = s.pages
        /\ v.open_inodes = s.open_inodes /\ v.hurt = s.hurt
        /\ v.undenied = s.undenied /\ v.removed = s.removed /\ v.fault = s.fault
    BY <2>3 DEF OpenFilesState
  <2> HIDE DEF v
  <2>7. Once(v.open_inodes) /\ v.inode[o] # NULL BY <2>4, <2>6
  <2>8. /\ c \in OpenFilesState
        /\ c.fds = v.fds /\ c.table = v.table /\ c.pages = v.pages
        /\ InodeClosed(v, c, o)
    BY <1>6, <2>6, <2>7, InodeCloseEffect
  <2> HIDE DEF c
  <2>9. c.table = s.table BY <2>6, <2>8
  <2>10. /\ t \in OpenFilesState /\ SlotClosed(s, t, g)
         /\ t.fds = c.fds /\ t.pages = c.pages /\ t.inode = c.inode
         /\ t.open_inodes = c.open_inodes /\ t.hurt = c.hurt
         /\ t.undenied = c.undenied /\ t.removed = c.removed /\ t.fault = c.fault
    <3> HIDE DEF t
    <3> QED BY <1>4, <2>5, <2>8, <2>9
  <2> HIDE DEF t
  <2>11. InodeClosed(s, t, o)
    <3>1. \A x \in Obj \ {o} : t.inode[x] = s.inode[x] BY <2>3, <2>6, <2>8, <2>10 DEF InodeClosed
    <3>2. CASE InodeDropped(v, c, o)
      <4>1. InodeDropped(s, t, o) BY <3>2, <2>3, <2>6, <2>10 DEF InodeDropped
      <4> QED BY <3>1, <4>1 DEF InodeClosed
    <3>3. CASE InodeAstray(v, c, o)
      <4>1. InodeAstray(s, t, o) BY <3>3, <2>3, <2>6, <2>10 DEF InodeAstray
      <4> QED BY <3>1, <4>1 DEF InodeClosed
    <3>4. CASE InodeFreed(v, c, o)
      <4>1. InodeFreed(s, t, o) BY <3>4, <2>3, <2>6, <2>10 DEF InodeFreed
      <4> QED BY <3>1, <4>1 DEF InodeClosed
    <3> QED BY <2>8, <3>2, <3>3, <3>4 DEF InodeClosed
  <2>12. InodesAfterClose(s, t, o) BY <1>6, <2>1, <2>11 DEF InodesAfterClose
  <2>13. t.fds = s.fds /\ t.pages = s.pages BY <2>6, <2>8, <2>10
  <2> QED BY <1>1, <2>10, <2>12, <2>13 DEF t
<1> QED BY <1>2, <1>3, <1>5, <1>6

\* Noted() changes nothing but the history.
NotedHurt(s, d, g) ==
    IF Leads(s, g) \subseteq {d} THEN s.hurt
    ELSE s.hurt \cup {g} \cup ({s.table[g].fd_inode} \cap Obj)
NotedUndenied(s, g) ==
    s.undenied \cup {x \in {s.table[g].fd_inode} \cap Obj :
                       \E h \in Holding(s, x) \ {g} : s.table[h].fd_flag = "w"}

LEMMA NotedEffect ==
    ASSUME NEW s \in OpenFilesState, NEW d, NEW g \in Slot
    PROVE  /\ Noted(s, d, g) \in OpenFilesState
           /\ Noted(s, d, g).fds = s.fds /\ Noted(s, d, g).table = s.table
           /\ Noted(s, d, g).pages = s.pages
           /\ Noted(s, d, g).inode = s.inode /\ Noted(s, d, g).open_inodes = s.open_inodes
           /\ Noted(s, d, g).removed = s.removed /\ Noted(s, d, g).fault = s.fault
           /\ Noted(s, d, g).hurt = NotedHurt(s, d, g)
           /\ Noted(s, d, g).undenied = NotedUndenied(s, g)
<1>1. NotedHurt(s, d, g) \subseteq Slot \cup Obj BY FieldTypes DEF NotedHurt
<1>2. NotedUndenied(s, g) \subseteq Obj BY FieldTypes DEF NotedUndenied
<1>3. Noted(s, d, g) = [s EXCEPT !.hurt = NotedHurt(s, d, g), !.undenied = NotedUndenied(s, g)]
  BY DEF Noted, NotedHurt, NotedUndenied
<1> QED BY <1>1, <1>2, <1>3 DEF OpenFilesState

\* Descriptor fd of p leads to x, the others to what they led to.
Redirected(s, t, p, fd, x) ==
    /\ t.fds[p][fd] = x
    /\ \A q \in Process, e \in Fd : q # p \/ e # fd => t.fds[q][e] = s.fds[q][e]

LEMMA SetFdEffect ==
    ASSUME NEW s \in OpenFilesState, NEW p \in Process, NEW fd \in Fd, NEW x \in Slot \cup {-1}
    PROVE  LET t == [s EXCEPT !.fds[p][fd] = x]
           IN  /\ t \in OpenFilesState /\ Redirected(s, t, p, fd, x)
               /\ t.table = s.table /\ t.pages = s.pages /\ t.inode = s.inode
               /\ t.open_inodes = s.open_inodes /\ t.hurt = s.hurt
               /\ t.undenied = s.undenied /\ t.removed = s.removed /\ t.fault = s.fault
<1> DEFINE y == [s.fds EXCEPT ![p][fd] = x]
           t == [s EXCEPT !.fds = y]
<1>1. [s EXCEPT !.fds[p][fd] = x] = t OBVIOUS
<1>2. /\ y \in [Process -> [Fd -> Slot \cup {-1}]]
      /\ y[p][fd] = x
      /\ \A q \in Process, e \in Fd : q # p \/ e # fd => y[q][e] = s.fds[q][e]
  BY FieldTypes
<1> HIDE DEF y
<1>3. /\ t \in OpenFilesState /\ t.fds = y
      /\ t.table = s.table /\ t.pages = s.pages /\ t.inode = s.inode
      /\ t.open_inodes = s.open_inodes /\ t.hurt = s.hurt
      /\ t.undenied = s.undenied /\ t.removed = s.removed /\ t.fault = s.fault
  BY <1>2 DEF OpenFilesState
<1>4. Redirected(s, t, p, fd, x) BY <1>2, <1>3 DEF Redirected
<1> QED BY <1>1, <1>3, <1>4

\* sys_close() of descriptor fd, u is the state with the history noted.
DescriptorClosed(s, t, p, fd) ==
    LET g == s.fds[p][fd]
        u == Noted(s, <<p, fd>>, g)
    IN  /\ Redirected(s, t, p, fd, -1)
        /\ SlotClosed(s, t, g) /\ t.pages = s.pages
        /\ InodesAfterClose(u, t, s.table[g].fd_inode)

LEMMA SysCloseEffect ==
    ASSUME NEW s \in OpenFilesState, Once(s.open_inodes), NEW p \in Process, NEW fd \in Fd,
           s.fds[p][fd] # -1,
           \A g \in Slot : s.table[g].fd_inode \in Obj => s.inode[s.table[g].fd_inode] # NULL
    PROVE  sys_close(s, p, fd) \in OpenFilesState /\ DescriptorClosed(s, sys_close(s, p, fd), p, fd)
<1> DEFINE g == s.fds[p][fd]
           u == Noted(s, <<p, fd>>, g)
           c == file_close(u, g)
           t == [c EXCEPT !.fds[p][fd] = -1]
<1>1. sys_close(s, p, fd) = t BY DEF sys_close
<1>2. g \in Slot BY FieldTypes
<1> HIDE DEF g
<1>3. /\ u \in OpenFilesState
      /\ u.fds = s.fds /\ u.table = s.table /\ u.pages = s.pages
      /\ u.inode = s.inode /\ u.open_inodes = s.open_inodes
  <2>1. PICK d : d = <<p, fd>> OBVIOUS
  <2>2. /\ Noted(s, d, g) \in OpenFilesState
        /\ Noted(s, d, g).fds = s.fds /\ Noted(s, d, g).table = s.table
        /\ Noted(s, d, g).pages = s.pages /\ Noted(s, d, g).inode = s.inode
        /\ Noted(s, d, g).open_inodes = s.open_inodes
    BY <1>2, NotedEffect
  <2> QED BY <2>1, <2>2
<1> HIDE DEF u
<1>4. /\ c \in OpenFilesState /\ c.fds = u.fds /\ c.pages = u.pages
      /\ SlotClosed(u, c, g) /\ InodesAfterClose(u, c, u.table[g].fd_inode)
  <2>1. Once(u.open_inodes) BY <1>3
  <2>2. u.table[g].fd_inode \in Obj => u.inode[u.table[g].fd_inode] # NULL BY <1>2, <1>3
  <2> QED BY <1>2, <1>3, <2>1, <2>2, FileCloseEffect
<1> HIDE DEF c
<1>5. /\ t \in OpenFilesState /\ Redirected(c, t, p, fd, -1)
      /\ t.table = c.table /\ t.pages = c.pages /\ t.inode = c.inode
      /\ t.open_inodes = c.open_inodes /\ t.hurt = c.hurt
      /\ t.undenied = c.undenied /\ t.removed = c.removed /\ t.fault = c.fault
  <2>1. -1 \in Slot \cup {-1} OBVIOUS
  <2> QED BY <1>4, <2>1, SetFdEffect
<1> HIDE DEF t
<1>6. Redirected(s, t, p, fd, -1) BY <1>3, <1>4, <1>5 DEF Redirected
<1>7. SlotClosed(s, t, g) BY <1>3, <1>4, <1>5 DEF SlotClosed
<1>8. InodesAfterClose(u, t, s.table[g].fd_inode)
  <2>1. InodesAfterClose(u, c, s.table[g].fd_inode) BY <1>3, <1>4
  <2> QED BY <2>1, <1>5 DEF InodesAfterClose, SameInodes, InodeClosed, InodeDropped,
                        InodeAstray, InodeFreed
<1>9. DescriptorClosed(s, t, p, fd)
  <2>1. t.pages = s.pages BY <1>3, <1>4, <1>5
  <2> QED BY <1>6, <1>7, <1>8, <2>1 DEF DescriptorClosed, g, u
<1> QED BY <1>1, <1>5, <1>9

\* fork, one descriptor: nothing, a fault, or one user more of a pipe or an inode.
Counts(s, t, q, fd) ==
    LET g == s.fds[q][fd]
        o == s.table[g].fd_inode
    IN  /\ t.fds = s.fds /\ t.pages = s.pages /\ t.hurt = s.hurt
        /\ t.open_inodes = s.open_inodes /\ t.undenied = s.undenied /\ t.removed = s.removed
        /\ g = -1 => t = s
        /\ g # -1 /\ s.table[g].fd_flag = "pipe" =>
             /\ t.inode = s.inode /\ t.fault = s.fault
             /\ t.table[g].fd_inode = o /\ t.table[g].fd_flag = "pipe"
             /\ t.table[g].fd_pos = s.table[g].fd_pos + 1
             /\ \A h \in Slot \ {g} : t.table[h] = s.table[h]
        /\ g # -1 /\ s.table[g].fd_flag # "pipe" /\ o \in Obj =>
             /\ t.table = s.table /\ t.fault = s.fault
             /\ t.inode[o] # NULL /\ t.inode[o].i_no = s.inode[o].i_no
             /\ t.inode[o].i_open_cnts = s.inode[o].i_open_cnts + 1
             /\ t.inode[o].write_deny = s.inode[o].write_deny
             /\ \A x \in Obj \ {o} : t.inode[x] = s.inode[x]
        /\ g # -1 /\ s.table[g].fd_flag # "pipe" /\ o \notin Obj =>
             /\ t.table = s.table /\ t.inode = s.inode
             /\ t.fault = IF s.fault = "none" THEN "fork.c:108" ELSE s.fault

LEMMA CountedFdEffect ==
    ASSUME NEW s \in OpenFilesState, NEW q \in Process, NEW fd \in Fd,
           \A g \in Slot : s.table[g].fd_inode \in Obj => s.inode[s.table[g].fd_inode] # NULL
    PROVE  CountedFd(s, q, fd) \in OpenFilesState /\ Counts(s, CountedFd(s, q, fd), q, fd)
<1> DEFINE t == CountedFd(s, q, fd)
<1>1. PICK g : g = s.fds[q][fd] OBVIOUS
<1>2. PICK o : o = s.table[g].fd_inode OBVIOUS
<1>3. g \in Slot \cup {-1} BY <1>1, FieldTypes
<1>4. CASE g = -1
  <2>1. t = s BY <1>1, <1>4 DEF CountedFd
  <2> QED BY <1>1, <1>4, <2>1 DEF Counts
<1>5. CASE g # -1 /\ s.table[g].fd_flag = "pipe"
  <2> DEFINE y == [s.table EXCEPT ![g].fd_pos = @ + 1]
  <2>1. t = [s EXCEPT !.table = y] BY <1>1, <1>5 DEF CountedFd
  <2>2. g \in Slot /\ s.table[g] \in FileState /\ s.table[g].fd_pos \in Int BY <1>3, <1>5, SlotTypes
  <2>3. /\ y \in [Slot -> FileState] /\ y[g].fd_inode = o /\ y[g].fd_flag = "pipe"
        /\ y[g].fd_pos = s.table[g].fd_pos + 1
        /\ \A h \in Slot \ {g} : y[h] = s.table[h]
    BY <1>2, <1>5, <2>2, FieldTypes DEF FileState
  <2> HIDE DEF y
  <2>4. /\ t \in OpenFilesState /\ t.table = y
        /\ t.fds = s.fds /\ t.pages = s.pages /\ t.inode = s.inode
        /\ t.open_inodes = s.open_inodes /\ t.hurt = s.hurt
        /\ t.undenied = s.undenied /\ t.removed = s.removed /\ t.fault = s.fault
    BY <2>1, <2>3 DEF OpenFilesState
  <2> HIDE DEF t
  <2>5. Counts(s, t, q, fd) BY <1>1, <1>2, <1>5, <2>3, <2>4 DEF Counts
  <2> QED BY <2>4, <2>5 DEF t
<1>6. CASE g # -1 /\ s.table[g].fd_flag # "pipe" /\ o \in Obj
  <2> DEFINE y == [s.inode EXCEPT ![o].i_open_cnts = @ + 1]
  <2>1. t = [s EXCEPT !.inode = y] BY <1>1, <1>2, <1>6 DEF CountedFd
  <2>2. g \in Slot BY <1>3, <1>6
  <2>3. s.inode[o] # NULL BY <1>2, <1>6, <2>2
  <2>4. s.inode[o] \in InodeState /\ s.inode[o].i_open_cnts \in Int BY <1>6, <2>3, LiveInode
  <2>5. /\ y \in [Obj -> InodeState \cup {NULL}] /\ y[o] \in InodeState
        /\ y[o].i_no = s.inode[o].i_no /\ y[o].write_deny = s.inode[o].write_deny
        /\ y[o].i_open_cnts = s.inode[o].i_open_cnts + 1
        /\ \A x \in Obj \ {o} : y[x] = s.inode[x]
    BY <1>6, <2>4, FieldTypes DEF InodeState
  <2>6. y[o] # NULL BY <2>5, NullAssumption
  <2> HIDE DEF y
  <2>7. /\ t \in OpenFilesState /\ t.inode = y
        /\ t.fds = s.fds /\ t.pages = s.pages /\ t.table = s.table
        /\ t.open_inodes = s.open_inodes /\ t.hurt = s.hurt
        /\ t.undenied = s.undenied /\ t.removed = s.removed /\ t.fault = s.fault
    BY <2>1, <2>5 DEF OpenFilesState
  <2> HIDE DEF t
  <2>8. Counts(s, t, q, fd) BY <1>1, <1>2, <1>6, <2>5, <2>6, <2>7 DEF Counts
  <2> QED BY <2>7, <2>8 DEF t
<1>7. CASE g # -1 /\ s.table[g].fd_flag # "pipe" /\ o \notin Obj
  <2>1. t = Fault(s, "fork.c:108") BY <1>1, <1>2, <1>7 DEF CountedFd
  <2>2. "fork.c:108" \in Site BY DEF Site
  <2>3. /\ t \in OpenFilesState /\ t.inode = s.inode
        /\ t.fds = s.fds /\ t.pages = s.pages /\ t.table = s.table
        /\ t.open_inodes = s.open_inodes /\ t.hurt = s.hurt
        /\ t.undenied = s.undenied /\ t.removed = s.removed
        /\ t.fault = IF s.fault = "none" THEN "fork.c:108" ELSE s.fault
    BY <2>1, <2>2, FaultEffect
  <2> HIDE DEF t
  <2>4. Counts(s, t, q, fd) BY <1>1, <1>2, <1>7, <2>3 DEF Counts
  <2> QED BY <2>3, <2>4 DEF t
<1> QED BY <1>4, <1>5, <1>6, <1>7

\* exit, one descriptor: a file is closed, a pipe loses an end and with its last
\* one its page.
PipeLeft(s, t, p, fd) ==
    LET g == s.fds[p][fd]
    IN  /\ Redirected(s, t, p, fd, -1) /\ SameInodes(s, t)
        /\ t.hurt = s.hurt /\ t.fault = s.fault
        /\ \A h \in Slot \ {g} : t.table[h] = s.table[h]
        /\ t.table[g].fd_flag = "pipe"
        /\ t.table[g].fd_pos = s.table[g].fd_pos - 1
        /\ IF s.table[g].fd_pos = 1
           THEN s.table[g].fd_inode \in Page /\ t.table[g].fd_inode = NULL
           ELSE t.table[g].fd_inode = s.table[g].fd_inode

Releases(s, t, p, fd) ==
    LET g == s.fds[p][fd]
    IN  /\ g = -1 => t = s
        /\ g # -1 /\ s.table[g].fd_flag # "pipe" => DescriptorClosed(s, t, p, fd)
        /\ g # -1 /\ s.table[g].fd_flag = "pipe" =>
             \/ PipeLeft(s, t, p, fd)
             \/ /\ s.table[g].fd_inode \notin Page
                /\ t.fds = s.fds /\ t.table = s.table /\ SameInodes(s, t) /\ t.hurt = s.hurt
                /\ t.fault = IF s.fault = "none" THEN "wait_exit.c:58" ELSE s.fault

LEMMA ReleasedFdEffect ==
    ASSUME NEW s \in OpenFilesState, Once(s.open_inodes), NEW p \in Process, NEW fd \in Fd,
           \A g \in Slot : s.table[g].fd_inode \in Obj => s.inode[s.table[g].fd_inode] # NULL
    PROVE  ReleasedFd(s, p, fd) \in OpenFilesState /\ Releases(s, ReleasedFd(s, p, fd), p, fd)
<1> DEFINE t == ReleasedFd(s, p, fd)
<1>1. PICK g : g = s.fds[p][fd] OBVIOUS
<1>2. g \in Slot \cup {-1} BY <1>1, FieldTypes
<1>3. CASE g = -1
  <2>1. t = s BY <1>1, <1>3 DEF ReleasedFd
  <2> QED BY <1>1, <1>3, <2>1 DEF Releases
<1>4. CASE g # -1 /\ s.table[g].fd_flag # "pipe"
  <2>1. t = sys_close(s, p, fd) BY <1>1, <1>4 DEF ReleasedFd
  <2>2. s.fds[p][fd] # -1 BY <1>1, <1>4
  <2>3. t \in OpenFilesState /\ DescriptorClosed(s, t, p, fd) BY <2>1, <2>2, SysCloseEffect
  <2> HIDE DEF t
  <2>4. Releases(s, t, p, fd) BY <1>1, <1>4, <2>3 DEF Releases
  <2> QED BY <2>3, <2>4 DEF t
<1>5. CASE g # -1 /\ s.table[g].fd_flag = "pipe"
  <2>1. /\ g \in Slot /\ s.table[g] \in FileState /\ s.table[g].fd_pos \in Int
        /\ s.fds[p][fd] # -1
    BY <1>1, <1>2, <1>5, SlotTypes
  <2> DEFINE n == s.table[g].fd_pos - 1
             y == [s.table EXCEPT ![g].fd_pos = n]
             z == [y EXCEPT ![g].fd_inode = NULL]
             c == [s EXCEPT !.table = y]
             d == [c EXCEPT !.fds[p][fd] = -1]
  <2>2. /\ y \in [Slot -> FileState] /\ y[g].fd_inode = s.table[g].fd_inode
        /\ y[g].fd_flag = "pipe" /\ y[g].fd_pos = s.table[g].fd_pos - 1
        /\ \A h \in Slot \ {g} : y[h] = s.table[h]
    <3>1. n \in Int BY <2>1
    <3>2. s.table[g].fd_flag \in {"r", "w", "pipe"} /\ s.table[g].fd_inode \in Obj \cup Page \cup {NULL}
      BY <2>1, SlotTypes
    <3> HIDE DEF n
    <3>3. y \in [Slot -> FileState] BY <2>1, <3>1, FieldTypes DEF FileState
    <3>4. /\ y[g].fd_inode = s.table[g].fd_inode
          /\ y[g].fd_flag = "pipe" /\ y[g].fd_pos = n
          /\ \A h \in Slot \ {g} : y[h] = s.table[h]
      BY <1>5, <2>1, FieldTypes DEF FileState
    <3> QED BY <3>3, <3>4 DEF n
  <2>3. /\ z \in [Slot -> FileState] /\ z[g].fd_inode = NULL
        /\ z[g].fd_flag = "pipe" /\ z[g].fd_pos = s.table[g].fd_pos - 1
        /\ \A h \in Slot \ {g} : z[h] = s.table[h]
    <3>1. y[g] \in FileState BY <2>1, <2>2
    <3> HIDE DEF y
    <3> QED BY <2>1, <2>2, <3>1 DEF FileState
  <2>4. [s EXCEPT !.table[g].fd_pos = @ - 1, !.fds[p][fd] = -1] = d OBVIOUS
  <2> HIDE DEF y, z
  <2>5. /\ c \in OpenFilesState /\ c.table = y
        /\ c.fds = s.fds /\ c.pages = s.pages /\ c.inode = s.inode
        /\ c.open_inodes = s.open_inodes /\ c.hurt = s.hurt
        /\ c.undenied = s.undenied /\ c.removed = s.removed /\ c.fault = s.fault
    BY <2>2 DEF OpenFilesState
  <2> HIDE DEF c
  <2>6. /\ d \in OpenFilesState /\ Redirected(c, d, p, fd, -1)
        /\ d.table = c.table /\ d.pages = c.pages /\ d.inode = c.inode
        /\ d.open_inodes = c.open_inodes /\ d.hurt = c.hurt
        /\ d.undenied = c.undenied /\ d.removed = c.removed /\ d.fault = c.fault
    <3>1. -1 \in Slot \cup {-1} OBVIOUS
    <3> QED BY <2>5, <3>1, SetFdEffect
  <2> HIDE DEF d
  <2>7. Redirected(s, d, p, fd, -1) /\ SameInodes(s, d) /\ d.hurt = s.hurt /\ d.fault = s.fault
    BY <2>5, <2>6 DEF Redirected, SameInodes
  <2>8. CASE s.table[g].fd_pos # 1
    <3>1. t = d BY <1>1, <1>5, <2>4, <2>8 DEF ReleasedFd
    <3>2. PipeLeft(s, d, p, fd) BY <1>1, <2>2, <2>5, <2>6, <2>7, <2>8 DEF PipeLeft
    <3> QED BY <1>1, <1>5, <2>6, <3>1, <3>2 DEF Releases
  <2>9. CASE s.table[g].fd_pos = 1 /\ s.table[g].fd_inode \notin Page
    <3>1. t = Fault(s, "wait_exit.c:58") BY <1>1, <1>5, <2>9 DEF ReleasedFd
    <3>2. "wait_exit.c:58" \in Site BY DEF Site
    <3>3. /\ t \in OpenFilesState /\ t.fds = s.fds /\ t.table = s.table /\ SameInodes(s, t)
          /\ t.hurt = s.hurt
          /\ t.fault = IF s.fault = "none" THEN "wait_exit.c:58" ELSE s.fault
      BY <3>1, <3>2, FaultEffect DEF SameInodes
    <3> HIDE DEF t
    <3>4. Releases(s, t, p, fd) BY <1>1, <1>5, <2>9, <3>3 DEF Releases
    <3> QED BY <3>3, <3>4 DEF t
  <2>10. CASE s.table[g].fd_pos = 1 /\ s.table[g].fd_inode \in Page
    <3> DEFINE w == s.pages \cup {s.table[g].fd_inode}
               e == [d EXCEPT !.pages = w, !.table = z]
    <3>1. t = e
      <4>1. t = [d EXCEPT !.pages = @ \cup {s.table[g].fd_inode}, !.table[g].fd_inode = NULL]
        BY <1>1, <1>5, <2>4, <2>10 DEF ReleasedFd
      <4>2. d.pages = s.pages /\ d.table = y BY <2>5, <2>6
      <4> QED BY <4>1, <4>2 DEF z
    <3>2. w \subseteq Page BY <2>10, FieldTypes
    <3> HIDE DEF w
    <3>3. /\ e \in OpenFilesState /\ e.table = z /\ e.fds = d.fds /\ e.inode = d.inode
          /\ e.open_inodes = d.open_inodes /\ e.hurt = d.hurt
          /\ e.undenied = d.undenied /\ e.removed = d.removed /\ e.fault = d.fault
      BY <2>3, <2>6, <3>2 DEF OpenFilesState
    <3> HIDE DEF e
    <3>4. Redirected(s, e, p, fd, -1) /\ SameInodes(s, e) /\ e.hurt = s.hurt /\ e.fault = s.fault
      BY <2>7, <3>3 DEF Redirected, SameInodes
    <3>5. PipeLeft(s, e, p, fd) BY <1>1, <2>3, <2>10, <3>3, <3>4 DEF PipeLeft
    <3> QED BY <1>1, <1>5, <3>1, <3>3, <3>5 DEF Releases
  <2> QED BY <2>8, <2>9, <2>10
<1> QED BY <1>3, <1>4, <1>5

\* pcb_fd_install(): a free descriptor of p leads to g, or the slot is lost.
Installed(s, t, p, g) ==
    /\ t.table = s.table /\ t.pages = s.pages /\ SameInodes(s, t) /\ t.fault = s.fault
    /\ \/ \E fd \in Fd : /\ s.fds[p][fd] = -1 /\ Redirected(s, t, p, fd, g)
                         /\ t.hurt = s.hurt
       \/ t.fds = s.fds /\ t.hurt = s.hurt \cup {g} \cup ({s.table[g].fd_inode} \cap Obj)

LEMMA InstallEffect ==
    ASSUME NEW s \in OpenFilesState, NEW p \in Process, NEW g \in Slot
    PROVE  pcb_fd_install(s, p, g) \in OpenFilesState /\ Installed(s, pcb_fd_install(s, p, g), p, g)
<1> DEFINE t == pcb_fd_install(s, p, g)
           free == {fd \in Fd : s.fds[p][fd] = -1}
<1>1. CASE free # {}
  <2>1. PICK k : k = Least(free) OBVIOUS
  <2>2. k \in free
    <3>0. Fd \subseteq Nat BY Addresses
    <3>3. free \subseteq Fd OBVIOUS
    <3>2. 0 \in Int OBVIOUS
    <3> HIDE DEF free
    <3>1. free \subseteq Int /\ (\A x \in free : 0 <= x) BY <3>0, <3>3
    <3> QED BY <1>1, <2>1, <3>1, <3>2, LeastMember
  <2>3. t = [s EXCEPT !.fds[p][k] = g] BY <1>1, <2>1 DEF pcb_fd_install
  <2>4. k \in Fd /\ s.fds[p][k] = -1 /\ g \in Slot \cup {-1} BY <2>2
  <2> HIDE DEF t
  <2>5. /\ t \in OpenFilesState /\ Redirected(s, t, p, k, g)
        /\ t.table = s.table /\ t.pages = s.pages /\ t.inode = s.inode
        /\ t.open_inodes = s.open_inodes /\ t.hurt = s.hurt
        /\ t.undenied = s.undenied /\ t.removed = s.removed /\ t.fault = s.fault
    BY <2>3, <2>4, SetFdEffect
  <2>6. Installed(s, t, p, g) BY <2>4, <2>5 DEF Installed, SameInodes
  <2> QED BY <2>5, <2>6 DEF t
<1>2. CASE free = {}
  <2> DEFINE h == s.hurt \cup {g} \cup ({s.table[g].fd_inode} \cap Obj)
  <2>1. t = [s EXCEPT !.hurt = h] BY <1>2 DEF pcb_fd_install
  <2>2. h \subseteq Slot \cup Obj BY FieldTypes
  <2> HIDE DEF h, t
  <2>3. /\ t \in OpenFilesState /\ t.hurt = h /\ t.fds = s.fds
        /\ t.table = s.table /\ t.pages = s.pages /\ t.inode = s.inode
        /\ t.open_inodes = s.open_inodes
        /\ t.undenied = s.undenied /\ t.removed = s.removed /\ t.fault = s.fault
    BY <2>1, <2>2 DEF OpenFilesState
  <2>4. Installed(s, t, p, g) BY <2>3 DEF Installed, SameInodes, h
  <2> QED BY <2>3, <2>4 DEF t
<1> QED BY <1>1, <1>2

\* Settled() clears idle slots and changes nothing else.
Idle(s, g) == s.table[g].fd_inode = NULL /\ Leads(s, g) = {} /\ ~Filling(g)

Cleared(s, t) ==
    /\ t.fds = s.fds /\ t.pages = s.pages /\ SameInodes(s, t) /\ t.fault = s.fault
    /\ t.hurt \subseteq s.hurt
    /\ s.fault # "none" => t.hurt = s.hurt
    /\ \A x \in s.hurt \ t.hurt : x \in Slot /\ Idle(s, x)
    /\ \A g \in Slot : t.table[g] = s.table[g] \/ (t.table[g] = Empty /\ Idle(s, g))

LEMMA SettledEffect ==
    ASSUME NEW s \in OpenFilesState
    PROVE  Settled(s) \in OpenFilesState /\ Cleared(s, Settled(s))
<1> DEFINE t == Settled(s)
           idle == {g \in FreeSlots(s) : Leads(s, g) = {} /\ ~Filling(g)}
           h == s.hurt \ idle
           y == [g \in Slot |-> IF g \in idle THEN Empty ELSE s.table[g]]
<1>1. CASE s.fault # "none"
  <2>1. t = s BY <1>1 DEF Settled
  <2> QED BY <2>1 DEF Cleared, SameInodes
<1>2. CASE s.fault = "none"
  <2>1. t = [s EXCEPT !.hurt = h, !.table = y] BY <1>2 DEF Settled
  <2>2. h \subseteq Slot \cup Obj BY FieldTypes
  <2>3. Empty \in FileState BY DEF Empty, FileState
  <2>4. \A g \in Slot : g \in idle <=> Idle(s, g) BY DEF Idle, FreeSlots
  <2>5. \A x \in s.hurt \ h : x \in Slot /\ Idle(s, x) BY <2>4 DEF FreeSlots
  <2> HIDE DEF idle
  <2>6. y \in [Slot -> FileState] BY <2>3, FieldTypes
  <2>7. \A g \in Slot : y[g] = s.table[g] \/ (y[g] = Empty /\ Idle(s, g)) BY <2>4
  <2>8. h \subseteq s.hurt OBVIOUS
  <2> HIDE DEF h, y, t
  <2>9. /\ t \in OpenFilesState /\ t.hurt = h /\ t.table = y /\ t.fds = s.fds
        /\ t.pages = s.pages /\ t.inode = s.inode /\ t.open_inodes = s.open_inodes
        /\ t.undenied = s.undenied /\ t.removed = s.removed /\ t.fault = s.fault
    BY <2>1, <2>2, <2>6 DEF OpenFilesState
  <2>10. Cleared(s, t) BY <1>2, <2>5, <2>7, <2>8, <2>9 DEF Cleared, SameInodes
  <2> QED BY <2>9, <2>10 DEF t
<1> QED BY <1>1, <1>2

\* inode_open(): an inode of the list has one user more, or a new one its first.
InodeShared(s, t, i, o) ==
    /\ o \in Range(s.open_inodes) /\ s.inode[o].i_no = i
    /\ t.inode[o] # NULL /\ t.inode[o].i_no = i
    /\ t.inode[o].i_open_cnts = s.inode[o].i_open_cnts + 1
    /\ t.inode[o].write_deny = s.inode[o].write_deny
    /\ t.open_inodes = s.open_inodes
InodeRead(s, t, i, o) ==
    /\ s.inode[o] = NULL /\ o \notin Range(s.open_inodes)
    /\ t.inode[o] # NULL /\ t.inode[o].i_no = i
    /\ t.inode[o].i_open_cnts = 1 /\ t.inode[o].write_deny = FALSE
    /\ Once(t.open_inodes) /\ Range(t.open_inodes) = Range(s.open_inodes) \cup {o}
InodeOpened(s, t, i, o) ==
    /\ t.fds = s.fds /\ t.table = s.table /\ t.pages = s.pages /\ t.hurt = s.hurt
    /\ t.undenied = s.undenied /\ t.removed = s.removed /\ t.fault = s.fault
    /\ \A x \in Obj \ {o} : t.inode[x] = s.inode[x]
    /\ InodeShared(s, t, i, o) \/ InodeRead(s, t, i, o)

\* Cached() finds the number in the list if it is there.
LEMMA CachedFinds ==
    ASSUME NEW s \in OpenFilesState, NEW i
    PROVE  /\ Cached(s, i) # NULL => /\ Cached(s, i) \in Obj
                                     /\ Cached(s, i) \in Range(s.open_inodes)
                                     /\ s.inode[Cached(s, i)].i_no = i
           /\ Cached(s, i) = NULL => \A x \in Range(s.open_inodes) : s.inode[x].i_no # i
<1> DEFINE at == {j \in DOMAIN s.open_inodes : s.inode[s.open_inodes[j]].i_no = i}
<1>1. /\ s.open_inodes \in Seq(Obj) /\ DOMAIN s.open_inodes = 1..Len(s.open_inodes)
      /\ Len(s.open_inodes) \in Nat
      /\ \A j \in DOMAIN s.open_inodes : s.open_inodes[j] \in Obj
  BY FieldTypes
<1>2. CASE at = {}
  <2>1. Cached(s, i) = NULL BY <1>2 DEF Cached
  <2>2. \A x \in Range(s.open_inodes) : s.inode[x].i_no # i BY <1>2 DEF Range
  <2> QED BY <2>1, <2>2
<1>3. CASE at # {}
  <2>1. PICK k : k = Least(at) OBVIOUS
  <2>2. k \in at
    <3>1. at \subseteq Int /\ (\A x \in at : 0 <= x) BY <1>1
    <3>2. 0 \in Int OBVIOUS
    <3> HIDE DEF at
    <3> QED BY <1>3, <2>1, <3>1, <3>2, LeastMember
  <2>3. Cached(s, i) = s.open_inodes[k] BY <1>3, <2>1 DEF Cached
  <2>4. s.open_inodes[k] \in Obj /\ s.open_inodes[k] \in Range(s.open_inodes)
    BY <1>1, <2>2 DEF Range
  <2> QED BY <2>2, <2>3, <2>4, Addresses
<1> QED BY <1>2, <1>3

LEMMA InodeOpenEffect ==
    ASSUME NEW s \in OpenFilesState, Once(s.open_inodes), NEW i \in Ino, NEW o \in Obj,
           \A x \in Range(s.open_inodes) : s.inode[x] # NULL,
           o = Cached(s, i) \/ s.inode[o] = NULL
    PROVE  inode_open(s, i, o) \in OpenFilesState /\ InodeOpened(s, inode_open(s, i, o), i, o)
<1> DEFINE t == inode_open(s, i, o)
<1>1. CASE o = Cached(s, i)
  <2>1. o # NULL /\ o \in Range(s.open_inodes) /\ s.inode[o].i_no = i
    BY <1>1, Addresses, CachedFinds
  <2>2. s.inode[o] \in InodeState /\ s.inode[o].i_open_cnts \in Int BY <2>1, LiveInode
  <2> DEFINE y == [s.inode EXCEPT ![o].i_open_cnts = @ + 1]
  <2>3. t = [s EXCEPT !.inode = y] BY <1>1 DEF inode_open
  <2>4. /\ y \in [Obj -> InodeState \cup {NULL}] /\ y[o] \in InodeState
        /\ y[o].i_no = s.inode[o].i_no /\ y[o].write_deny = s.inode[o].write_deny
        /\ y[o].i_open_cnts = s.inode[o].i_open_cnts + 1
        /\ \A x \in Obj \ {o} : y[x] = s.inode[x]
    BY <2>2, FieldTypes DEF InodeState
  <2>5. y[o] # NULL BY <2>4, NullAssumption
  <2> HIDE DEF y, t
  <2>6. /\ t \in OpenFilesState /\ t.inode = y
        /\ t.fds = s.fds /\ t.pages = s.pages /\ t.table = s.table
        /\ t.open_inodes = s.open_inodes /\ t.hurt = s.hurt
        /\ t.undenied = s.undenied /\ t.removed = s.removed /\ t.fault = s.fault
    BY <2>3, <2>4 DEF OpenFilesState
  <2>7. InodeShared(s, t, i, o) BY <2>1, <2>4, <2>5, <2>6 DEF InodeShared
  <2>8. InodeOpened(s, t, i, o) BY <2>4, <2>6, <2>7 DEF InodeOpened
  <2> QED BY <2>6, <2>8 DEF t
<1>2. CASE s.inode[o] = NULL
  <2>1. o # Cached(s, i) /\ o \notin Range(s.open_inodes) BY <1>2, Addresses, CachedFinds
  <2> DEFINE v == [i_no |-> i, i_open_cnts |-> 1, write_deny |-> FALSE]
             y == [s.inode EXCEPT ![o] = v]
             l == <<o>> \o s.open_inodes
  <2>3. t = [s EXCEPT !.inode = y, !.open_inodes = l] BY <2>1 DEF inode_open
  <2>4. v \in InodeState /\ v.i_no = i /\ v.i_open_cnts = 1 /\ v.write_deny = FALSE
    BY DEF InodeState
  <2>5. v # NULL BY <2>4, NullAssumption
  <2> HIDE DEF v
  <2>6. /\ y \in [Obj -> InodeState \cup {NULL}] /\ y[o] = v
        /\ \A x \in Obj \ {o} : y[x] = s.inode[x]
    BY <2>4, FieldTypes
  <2>7. l \in Seq(Obj) /\ Once(l) /\ Range(l) = Range(s.open_inodes) \cup {o}
    BY <2>1, FieldTypes, PushOnce
  <2> HIDE DEF y, l, t
  <2>8. /\ t \in OpenFilesState /\ t.inode = y /\ t.open_inodes = l
        /\ t.fds = s.fds /\ t.pages = s.pages /\ t.table = s.table /\ t.hurt = s.hurt
        /\ t.undenied = s.undenied /\ t.removed = s.removed /\ t.fault = s.fault
    BY <2>3, <2>6, <2>7 DEF OpenFilesState
  <2>9. InodeRead(s, t, i, o) BY <1>2, <2>1, <2>4, <2>5, <2>6, <2>7, <2>8 DEF InodeRead
  <2>10. InodeOpened(s, t, i, o) BY <2>6, <2>8, <2>9 DEF InodeOpened
  <2> QED BY <2>8, <2>10 DEF t
<1> QED BY <1>1, <1>2

\* A slot is filled, g leads to x now.
SlotFilled(s, t, g, x, pos, flag) ==
    /\ t.fds = s.fds /\ SameInodes(s, t) /\ t.fault = s.fault
    /\ t.table[g].fd_inode = x /\ t.table[g].fd_pos = pos /\ t.table[g].fd_flag = flag
    /\ \A h \in Slot \ {g} : t.table[h] = s.table[h]
    /\ t.hurt = Filled(s, g, x)

LEMMA FilledType ==
    ASSUME NEW s \in OpenFilesState, NEW g \in Slot, NEW x
    PROVE  Filled(s, g, x) \subseteq Slot \cup Obj
  BY FieldTypes DEF Filled

Fill(s, g, x, pos, flag) ==
    [s EXCEPT !.table[g] = [fd_inode |-> x, fd_pos |-> pos, fd_flag |-> flag],
              !.hurt = Filled(s, g, x)]

LEMMA FillEffect ==
    ASSUME NEW s \in OpenFilesState, NEW g \in Slot, NEW x \in Obj \cup Page, NEW pos \in Int,
           NEW flag \in {"r", "w", "pipe"}
    PROVE  /\ Fill(s, g, x, pos, flag) \in OpenFilesState
           /\ Fill(s, g, x, pos, flag).pages = s.pages
           /\ SlotFilled(s, Fill(s, g, x, pos, flag), g, x, pos, flag)
<1> DEFINE e == [fd_inode |-> x, fd_pos |-> pos, fd_flag |-> flag]
           y == [s.table EXCEPT ![g] = e]
           h == Filled(s, g, x)
           t == [s EXCEPT !.table = y, !.hurt = h]
<1>1. Fill(s, g, x, pos, flag) = t BY DEF Fill
<1>2. e \in FileState /\ e.fd_inode = x /\ e.fd_pos = pos /\ e.fd_flag = flag
  BY DEF FileState
<1> HIDE DEF e
<1>3. y \in [Slot -> FileState] /\ y[g] = e /\ \A k \in Slot \ {g} : y[k] = s.table[k]
  BY <1>2, FieldTypes
<1>4. h \subseteq Slot \cup Obj BY FilledType
<1> HIDE DEF y, h
<1>5. /\ t \in OpenFilesState /\ t.hurt = h /\ t.table = y /\ t.fds = s.fds
      /\ t.pages = s.pages /\ t.inode = s.inode /\ t.open_inodes = s.open_inodes
      /\ t.undenied = s.undenied /\ t.removed = s.removed /\ t.fault = s.fault
  BY <1>3, <1>4 DEF OpenFilesState
<1>6. SlotFilled(s, t, g, x, pos, flag)
  BY <1>2, <1>3, <1>5 DEF SlotFilled, SameInodes, h
<1> QED BY <1>1, <1>5, <1>6

\* write_deny is set.
Denied(s, t, o) ==
    /\ t.fds = s.fds /\ t.table = s.table /\ t.hurt = s.hurt /\ t.fault = s.fault
    /\ t.open_inodes = s.open_inodes /\ t.undenied = s.undenied /\ t.removed = s.removed
    /\ \A x \in Obj \ {o} : t.inode[x] = s.inode[x]
    /\ t.inode[o] # NULL /\ t.inode[o].i_no = s.inode[o].i_no
    /\ t.inode[o].i_open_cnts = s.inode[o].i_open_cnts /\ t.inode[o].write_deny = TRUE

LEMMA DenyEffect ==
    ASSUME NEW s \in OpenFilesState, NEW o \in Obj, s.inode[o] # NULL
    PROVE  LET t == [s EXCEPT !.inode[o].write_deny = TRUE]
           IN  t \in OpenFilesState /\ t.pages = s.pages /\ Denied(s, t, o)
<1> DEFINE y == [s.inode EXCEPT ![o].write_deny = TRUE]
           t == [s EXCEPT !.inode = y]
<1>1. [s EXCEPT !.inode[o].write_deny = TRUE] = t OBVIOUS
<1>2. s.inode[o] \in InodeState BY LiveInode
<1>3. /\ y \in [Obj -> InodeState \cup {NULL}] /\ y[o] \in InodeState
      /\ y[o].i_no = s.inode[o].i_no /\ y[o].i_open_cnts = s.inode[o].i_open_cnts
      /\ y[o].write_deny = TRUE
      /\ \A x \in Obj \ {o} : y[x] = s.inode[x]
  BY <1>2, FieldTypes DEF InodeState
<1>4. y[o] # NULL BY <1>3, NullAssumption
<1> HIDE DEF y
<1>5. /\ t \in OpenFilesState /\ t.inode = y
      /\ t.fds = s.fds /\ t.pages = s.pages /\ t.table = s.table
      /\ t.open_inodes = s.open_inodes /\ t.hurt = s.hurt
      /\ t.undenied = s.undenied /\ t.removed = s.removed /\ t.fault = s.fault
  BY <1>3 DEF OpenFilesState
<1>6. Denied(s, t, o) BY <1>3, <1>4, <1>5 DEF Denied
<1> QED BY <1>1, <1>5, <1>6

\* The second writer is refused and keeps the slot.
Refused(s, t, g, o) ==
    /\ t.fds = s.fds /\ t.table = s.table /\ SameInodes(s, t) /\ t.fault = s.fault
    /\ t.hurt = s.hurt \cup {g, o}

\* The steps of file_open() after the inode is there.
OpenedFrom(s, r, u, v, t, p, g, i, o, flag) ==
    /\ InodeOpened(s, r, i, o)
    /\ SlotFilled(r, u, g, o, 0, flag)
    /\ \/ flag = "w" /\ r.inode[o].write_deny = TRUE /\ Refused(u, t, g, o)
       \/ /\ flag = "w" /\ r.inode[o].write_deny = FALSE
          /\ Denied(u, v, o) /\ Installed(v, t, p, g)
       \/ flag = "r" /\ Installed(u, t, p, g)

LEMMA FileOpenedSteps ==
    ASSUME NEW s \in OpenFilesState, Once(s.open_inodes), NEW i \in Ino, NEW o \in Obj,
           \A x \in Range(s.open_inodes) : s.inode[x] # NULL,
           o = Cached(s, i) \/ s.inode[o] = NULL,
           NEW p \in Process, NEW g \in Slot, NEW flag \in {"r", "w"}
    PROVE  /\ FileOpened(s, p, g, i, o, flag) \in OpenFilesState
           /\ \E r, u, v \in OpenFilesState :
                OpenedFrom(s, r, u, v, FileOpened(s, p, g, i, o, flag), p, g, i, o, flag)
<1> DEFINE t == FileOpened(s, p, g, i, o, flag)
           r == inode_open(s, i, o)
           u == Fill(r, g, o, 0, flag)
           v == [u EXCEPT !.inode[o].write_deny = TRUE]
<1>1. r \in OpenFilesState /\ InodeOpened(s, r, i, o) BY InodeOpenEffect
<1>2. Filled(s, g, o) = Filled(r, g, o)
  <2> HIDE DEF r
  <2>1. r.fds = s.fds /\ r.hurt = s.hurt BY <1>1 DEF InodeOpened
  <2> QED BY <2>1 DEF Filled, Leads
<1>3. t = IF flag = "r" THEN pcb_fd_install(u, p, g)
          ELSE IF u.inode[o].write_deny THEN [u EXCEPT !.hurt = @ \cup {g, o}]
          ELSE pcb_fd_install(v, p, g)
  BY <1>2 DEF FileOpened, Fill
<1> HIDE DEF r, t
<1>4. u \in OpenFilesState /\ SlotFilled(r, u, g, o, 0, flag)
  <2>1. o \in Obj \cup Page /\ 0 \in Int /\ flag \in {"r", "w", "pipe"} OBVIOUS
  <2> QED BY <1>1, <2>1, FillEffect
<1> HIDE DEF u
<1>5. u.inode = r.inode /\ r.inode[o] # NULL /\ u.inode[o] # NULL
  BY <1>1, <1>4 DEF SlotFilled, SameInodes, InodeOpened, InodeShared, InodeRead
<1>6. r.inode[o].write_deny \in BOOLEAN BY <1>1, <1>5, LiveInode
<1>7. v \in OpenFilesState /\ Denied(u, v, o) BY <1>4, <1>5, DenyEffect
<1> HIDE DEF v
<1>8. CASE flag = "r"
  <2>1. t = pcb_fd_install(u, p, g) BY <1>3, <1>8
  <2>2. t \in OpenFilesState /\ Installed(u, t, p, g) BY <1>4, <2>1, InstallEffect
  <2>3. OpenedFrom(s, r, u, v, t, p, g, i, o, flag) BY <1>1, <1>4, <1>8, <2>2 DEF OpenedFrom
  <2> QED BY <1>1, <1>4, <1>7, <2>2, <2>3 DEF t
<1>9. CASE flag = "w" /\ r.inode[o].write_deny = FALSE
  <2>1. t = pcb_fd_install(v, p, g) BY <1>3, <1>5, <1>9
  <2>2. t \in OpenFilesState /\ Installed(v, t, p, g) BY <1>7, <2>1, InstallEffect
  <2>3. OpenedFrom(s, r, u, v, t, p, g, i, o, flag) BY <1>1, <1>4, <1>7, <1>9, <2>2 DEF OpenedFrom
  <2> QED BY <1>1, <1>4, <1>7, <2>2, <2>3 DEF t
<1>10. CASE flag = "w" /\ r.inode[o].write_deny = TRUE
  <2> DEFINE h == u.hurt \cup {g, o}
  <2>1. t = [u EXCEPT !.hurt = h] BY <1>3, <1>5, <1>10
  <2>2. h \subseteq Slot \cup Obj BY <1>4, FieldTypes
  <2> HIDE DEF h
  <2>3. /\ t \in OpenFilesState /\ t.hurt = h /\ t.table = u.table /\ t.fds = u.fds
        /\ t.inode = u.inode /\ t.open_inodes = u.open_inodes
        /\ t.undenied = u.undenied /\ t.removed = u.removed /\ t.fault = u.fault
    BY <1>4, <2>1, <2>2 DEF OpenFilesState
  <2>4. Refused(u, t, g, o) BY <2>3 DEF Refused, SameInodes, h
  <2>5. OpenedFrom(s, r, u, v, t, p, g, i, o, flag) BY <1>1, <1>4, <1>10, <2>4 DEF OpenedFrom
  <2> QED BY <1>1, <1>4, <1>7, <2>3, <2>5 DEF t
<1> QED BY <1>6, <1>8, <1>9, <1>10

----------------------------------------------------------------------------
(***************************************************************************)
(* Covered: the inode that a file_create() makes, m, is not listed yet; an *)
(* inode may have one user that is no slot, r.                             *)
(***************************************************************************)
Maker == IF call # NULL /\ call.op = "create" THEN call.obj ELSE NULL
Target == IF call # NULL /\ call.op = "create" THEN call.slot ELSE NULL
Releaser == IF call # NULL /\ call.op = "unlink" THEN call.obj ELSE NULL

\* What a slot holds is in memory.
Held(s) == \A g \in Slot : s.table[g].fd_inode \in Obj => s.inode[s.table[g].fd_inode] # NULL

Counted(s, m, r) ==
    \A o \in Obj : s.inode[o] # NULL /\ o # m =>
      /\ s.inode[o].i_open_cnts >= 1
      /\ s.inode[o].i_open_cnts >= Cardinality(Holding(s, o)) + (IF o = r THEN 1 ELSE 0)

Listed(s, m) ==
    /\ Once(s.open_inodes)
    /\ Range(s.open_inodes) = {o \in Obj : s.inode[o] # NULL /\ o # m}

Pending(s, m, r, w) ==
    /\ m # NULL => s.inode[m] # NULL /\ r = NULL /\ Holding(s, m) \subseteq {w}
    /\ r # NULL => s.inode[r] # NULL

Cover(s, m, r, w) == Held(s) /\ Counted(s, m, r) /\ Listed(s, m) /\ Pending(s, m, r, w)

CoverInv == Cover(f, Maker, Releaser, Target)

LEMMA HoldingFinite ==
    ASSUME NEW s, NEW o
    PROVE  IsFiniteSet(Holding(s, o)) /\ Cardinality(Holding(s, o)) \in Nat
<1>1. Holding(s, o) \subseteq Slot BY DEF Holding
<1>2. IsFiniteSet(Holding(s, o)) BY <1>1, FiniteSlots, FS_Subset
<1> QED BY <1>2, FS_CardinalityType

LEMMA HoldingFewer ==
    ASSUME NEW s, NEW t, NEW o, Holding(t, o) \subseteq Holding(s, o)
    PROVE  Cardinality(Holding(t, o)) <= Cardinality(Holding(s, o))
  BY HoldingFinite, FS_Subset

\* Slots that are cleared or taken by a page disturb nothing.
LEMMA CoverKept ==
    ASSUME NEW s \in OpenFilesState, NEW t \in OpenFilesState,
           NEW m \in Obj \cup {NULL}, NEW r \in Obj \cup {NULL}, NEW w, Cover(s, m, r, w),
           t.inode = s.inode, t.open_inodes = s.open_inodes,
           \A g \in Slot : t.table[g].fd_inode = s.table[g].fd_inode \/ t.table[g].fd_inode \notin Obj
    PROVE  Cover(t, m, r, w)
<1>1. \A o \in Obj : Holding(t, o) \subseteq Holding(s, o) BY DEF Holding
<1>2. Held(t) BY DEF Cover, Held
<1>3. Counted(t, m, r)
  <2> SUFFICES ASSUME NEW o \in Obj, t.inode[o] # NULL, o # m
               PROVE  /\ t.inode[o].i_open_cnts >= 1
                      /\ t.inode[o].i_open_cnts >= Cardinality(Holding(t, o)) + (IF o = r THEN 1 ELSE 0)
    BY DEF Counted
  <2>1. Cardinality(Holding(t, o)) <= Cardinality(Holding(s, o)) BY <1>1, HoldingFewer
  <2>2. /\ s.inode[o].i_open_cnts >= 1
        /\ s.inode[o].i_open_cnts >= Cardinality(Holding(s, o)) + (IF o = r THEN 1 ELSE 0)
    BY DEF Cover, Counted
  <2>3. s.inode[o].i_open_cnts \in Int BY LiveInode
  <2>4. Cardinality(Holding(t, o)) \in Nat /\ Cardinality(Holding(s, o)) \in Nat BY HoldingFinite
  <2> QED BY <2>1, <2>2, <2>3, <2>4
<1>4. Listed(t, m) BY DEF Cover, Listed
<1>5. Pending(t, m, r, w) BY <1>1 DEF Cover, Pending
<1> QED BY <1>2, <1>3, <1>4, <1>5 DEF Cover

\* An inode that has one user less: from the slot or call that gives it up.
LEMMA CoverClose ==
    ASSUME NEW s \in OpenFilesState, NEW u \in OpenFilesState, NEW t \in OpenFilesState,
           NEW m \in Obj \cup {NULL}, NEW r \in Obj \cup {NULL}, NEW e \in Obj \cup {NULL}, NEW w,
           Cover(s, m, r, w), NEW o \in Obj,
           u.inode = s.inode, u.open_inodes = s.open_inodes, InodeClosed(u, t, o),
           e = r \/ (e = NULL /\ r = o),
           \A g \in Slot : t.table[g].fd_inode = s.table[g].fd_inode \/ t.table[g].fd_inode \notin Obj,
           s.inode[o] # NULL,
           Cardinality(Holding(t, o)) + (IF o = e THEN 1 ELSE 0) + 1
             <= Cardinality(Holding(s, o)) + (IF o = r THEN 1 ELSE 0)
    PROVE  Cover(t, m, e, w)
<1>1. \A x \in Obj : Holding(t, x) \subseteq Holding(s, x) BY DEF Holding
<1>2. \A x \in Obj : /\ Cardinality(Holding(t, x)) <= Cardinality(Holding(s, x))
                     /\ Cardinality(Holding(t, x)) \in Nat /\ Cardinality(Holding(s, x)) \in Nat
  BY <1>1, HoldingFewer, HoldingFinite
<1>3. \A x \in Obj \ {o} : t.inode[x] = s.inode[x] BY DEF InodeClosed
<1>4. s.inode[o].i_open_cnts \in Int BY LiveInode
<1>5. o # m => /\ s.inode[o].i_open_cnts >= 1
               /\ s.inode[o].i_open_cnts >= Cardinality(Holding(s, o)) + (IF o = r THEN 1 ELSE 0)
  BY DEF Cover, Counted
<1>6. Once(s.open_inodes) /\ Range(s.open_inodes) = {x \in Obj : s.inode[x] # NULL /\ x # m}
  BY DEF Cover, Listed
<1>7. NULL \notin Obj BY Addresses
<1>8. ASSUME NEW x \in Obj \ {o}, t.inode[x] # NULL, x # m
      PROVE  /\ t.inode[x].i_open_cnts >= 1
             /\ t.inode[x].i_open_cnts >= Cardinality(Holding(t, x)) + (IF x = e THEN 1 ELSE 0)
  <2>1. /\ s.inode[x].i_open_cnts >= 1
        /\ s.inode[x].i_open_cnts >= Cardinality(Holding(s, x)) + (IF x = r THEN 1 ELSE 0)
    BY <1>3, <1>8 DEF Cover, Counted
  <2>2. s.inode[x].i_open_cnts \in Int BY <1>3, <1>8, LiveInode
  <2>3. x = e => x = r BY <1>7
  <2> QED BY <1>2, <1>3, <2>1, <2>2, <2>3
<1>9. CASE InodeDropped(u, t, o)
  <2>1. /\ t.inode[o] # NULL /\ s.inode[o].i_open_cnts # 1
        /\ t.inode[o].i_open_cnts = s.inode[o].i_open_cnts - 1
        /\ t.open_inodes = s.open_inodes
    BY <1>9 DEF InodeDropped
  <2>2. Held(t) BY <1>3, <2>1 DEF Cover, Held
  <2>3. Counted(t, m, e)
    <3>1. o # m => /\ t.inode[o].i_open_cnts >= 1
                   /\ t.inode[o].i_open_cnts >= Cardinality(Holding(t, o)) + (IF o = e THEN 1 ELSE 0)
      BY <1>2, <1>4, <1>5, <2>1
    <3> QED BY <1>8, <3>1 DEF Counted
  <2>4. Listed(t, m)
    <3>1. {x \in Obj : s.inode[x] # NULL /\ x # m} = {x \in Obj : t.inode[x] # NULL /\ x # m}
      BY <1>3, <2>1
    <3> QED BY <1>6, <2>1, <3>1 DEF Listed
  <2>5. Pending(t, m, e, w) BY <1>1, <1>3, <1>7, <2>1 DEF Cover, Pending
  <2> QED BY <2>2, <2>3, <2>4, <2>5 DEF Cover
<1>10. CASE InodeAstray(u, t, o)
  <2>1. t.inode[o] # NULL /\ t.open_inodes = s.open_inodes /\ o = m
    BY <1>6, <1>10 DEF InodeAstray
  <2>2. Held(t) BY <1>3, <2>1 DEF Cover, Held
  <2>3. Counted(t, m, e) BY <1>8, <2>1 DEF Counted
  <2>4. Listed(t, m)
    <3>1. {x \in Obj : s.inode[x] # NULL /\ x # m} = {x \in Obj : t.inode[x] # NULL /\ x # m}
      BY <1>3, <2>1
    <3> QED BY <1>6, <2>1, <3>1 DEF Listed
  <2>5. Pending(t, m, e, w) BY <1>1, <1>3, <1>7, <2>1 DEF Cover, Pending
  <2> QED BY <2>2, <2>3, <2>4, <2>5 DEF Cover
<1>11. CASE InodeFreed(u, t, o)
  <2>1. /\ t.inode[o] = NULL /\ s.inode[o].i_open_cnts = 1 /\ o \in Range(s.open_inodes)
        /\ Once(t.open_inodes) /\ Range(t.open_inodes) = Range(s.open_inodes) \ {o}
    BY <1>11 DEF InodeFreed
  <2>2. o # m BY <1>6, <2>1
  <2>3. Cardinality(Holding(t, o)) = 0 /\ o # e
    BY <1>2, <1>5, <2>1, <2>2
  <2>4. Holding(t, o) = {} BY <2>3, HoldingFinite, FS_EmptySet
  <2>5. Held(t)
    <3> SUFFICES ASSUME NEW g \in Slot, t.table[g].fd_inode \in Obj
                 PROVE  t.inode[t.table[g].fd_inode] # NULL
      BY DEF Held
    <3>1. t.table[g].fd_inode # o BY <2>4 DEF Holding
    <3>2. s.inode[t.table[g].fd_inode] # NULL BY DEF Cover, Held
    <3> QED BY <1>3, <3>1, <3>2
  <2>6. Counted(t, m, e) BY <1>8, <2>1 DEF Counted
  <2>7. Listed(t, m)
    <3>1. {x \in Obj : t.inode[x] # NULL /\ x # m} = {x \in Obj : s.inode[x] # NULL /\ x # m} \ {o}
      BY <1>3, <2>1
    <3> QED BY <1>6, <2>1, <3>1 DEF Listed
  <2>8. Pending(t, m, e, w) BY <1>1, <1>3, <1>7, <2>2, <2>3 DEF Cover, Pending
  <2> QED BY <2>5, <2>6, <2>7, <2>8 DEF Cover
<1> QED BY <1>9, <1>10, <1>11 DEF InodeClosed

\* inode_open() counts a user that no slot shows yet.
LEMMA CoverOpen ==
    ASSUME NEW s \in OpenFilesState, NEW t \in OpenFilesState, NEW w,
           Cover(s, NULL, NULL, w), NEW o \in Obj, NEW i, InodeOpened(s, t, i, o)
    PROVE  Cover(t, NULL, o, w)
<1>1. \A x \in Obj : Holding(t, x) = Holding(s, x) BY DEF Holding, InodeOpened
<1>2. \A x \in Obj : Cardinality(Holding(s, x)) \in Nat BY HoldingFinite
<1>3. /\ \A x \in Obj \ {o} : t.inode[x] = s.inode[x]
      /\ t.inode[o] # NULL
      /\ t.table = s.table
  BY DEF InodeOpened, InodeShared, InodeRead
<1>4. NULL \notin Obj BY Addresses
<1>5. Once(s.open_inodes) /\ Range(s.open_inodes) = {x \in Obj : s.inode[x] # NULL}
  BY <1>4 DEF Cover, Listed
<1>6. Held(t) BY <1>3 DEF Cover, Held
<1>7. ASSUME NEW x \in Obj \ {o}, t.inode[x] # NULL
      PROVE  /\ t.inode[x].i_open_cnts >= 1
             /\ t.inode[x].i_open_cnts >= Cardinality(Holding(t, x)) + (IF x = o THEN 1 ELSE 0)
  <2>1. /\ s.inode[x].i_open_cnts >= 1
        /\ s.inode[x].i_open_cnts >= Cardinality(Holding(s, x)) + (IF x = NULL THEN 1 ELSE 0)
    BY <1>3, <1>4, <1>7 DEF Cover, Counted
  <2>2. s.inode[x].i_open_cnts \in Int BY <1>3, <1>7, LiveInode
  <2> QED BY <1>1, <1>2, <1>3, <1>4, <2>1, <2>2
<1>8. CASE InodeShared(s, t, i, o)
  <2>1. /\ t.inode[o].i_open_cnts = s.inode[o].i_open_cnts + 1
        /\ t.open_inodes = s.open_inodes /\ s.inode[o] # NULL
    BY <1>5, <1>8 DEF InodeShared
  <2>2. /\ s.inode[o].i_open_cnts >= 1
        /\ s.inode[o].i_open_cnts >= Cardinality(Holding(s, o)) + (IF o = NULL THEN 1 ELSE 0)
    BY <1>4, <2>1 DEF Cover, Counted
  <2>3. s.inode[o].i_open_cnts \in Int BY <2>1, LiveInode
  <2>4. /\ t.inode[o].i_open_cnts >= 1
        /\ t.inode[o].i_open_cnts >= Cardinality(Holding(t, o)) + 1
    BY <1>1, <1>2, <1>4, <2>1, <2>2, <2>3
  <2>5. Counted(t, NULL, o) BY <1>7, <2>4 DEF Counted
  <2>6. Listed(t, NULL)
    <3>1. {x \in Obj : s.inode[x] # NULL} = {x \in Obj : t.inode[x] # NULL /\ x # NULL}
      BY <1>3, <1>4, <2>1
    <3> QED BY <1>5, <2>1, <3>1 DEF Listed
  <2>7. Pending(t, NULL, o, w) BY <1>3 DEF Pending
  <2> QED BY <1>6, <2>5, <2>6, <2>7 DEF Cover
<1>9. CASE InodeRead(s, t, i, o)
  <2>1. /\ s.inode[o] = NULL /\ t.inode[o].i_open_cnts = 1
        /\ Once(t.open_inodes) /\ Range(t.open_inodes) = Range(s.open_inodes) \cup {o}
    BY <1>9 DEF InodeRead
  <2>2. Holding(s, o) = {} BY <2>1 DEF Cover, Held, Holding
  <2>3. Cardinality(Holding(t, o)) = 0 BY <1>1, <2>2, FS_EmptySet
  <2>4. Counted(t, NULL, o)
    <3>1. /\ t.inode[o].i_open_cnts >= 1
          /\ t.inode[o].i_open_cnts >= Cardinality(Holding(t, o)) + (IF o = o THEN 1 ELSE 0)
      BY <2>1, <2>3
    <3> QED BY <1>7, <3>1 DEF Counted
  <2>5. Listed(t, NULL)
    <3>1. {x \in Obj : s.inode[x] # NULL} \cup {o} = {x \in Obj : t.inode[x] # NULL /\ x # NULL}
      BY <1>3, <1>4
    <3> QED BY <1>5, <2>1, <3>1 DEF Listed
  <2>6. Pending(t, NULL, o, w) BY <1>3 DEF Pending
  <2> QED BY <1>6, <2>4, <2>5, <2>6 DEF Cover
<1> QED BY <1>8, <1>9 DEF InodeOpened

\* The slot is that user.
LEMMA CoverFill ==
    ASSUME NEW s \in OpenFilesState, NEW t \in OpenFilesState, NEW w,
           NEW o \in Obj, Cover(s, NULL, o, w), NEW g \in Slot, NEW pos, NEW flag,
           SlotFilled(s, t, g, o, pos, flag)
    PROVE  Cover(t, NULL, NULL, w)
<1>1. /\ t.inode = s.inode /\ t.open_inodes = s.open_inodes
      /\ t.table[g].fd_inode = o /\ \A h \in Slot \ {g} : t.table[h] = s.table[h]
  BY DEF SlotFilled, SameInodes
<1>2. NULL \notin Obj /\ s.inode[o] # NULL BY Addresses DEF Cover, Pending
<1>3. Held(t) BY <1>1, <1>2 DEF Cover, Held
<1>4. Counted(t, NULL, NULL)
  <2> SUFFICES ASSUME NEW x \in Obj, t.inode[x] # NULL
               PROVE  /\ t.inode[x].i_open_cnts >= 1
                      /\ t.inode[x].i_open_cnts >= Cardinality(Holding(t, x)) + (IF x = NULL THEN 1 ELSE 0)
    BY DEF Counted
  <2>1. /\ s.inode[x].i_open_cnts >= 1
        /\ s.inode[x].i_open_cnts >= Cardinality(Holding(s, x)) + (IF x = o THEN 1 ELSE 0)
    BY <1>1, <1>2 DEF Cover, Counted
  <2>2. s.inode[x].i_open_cnts \in Int BY <1>1, LiveInode
  <2>3. /\ IsFiniteSet(Holding(s, x)) /\ Cardinality(Holding(s, x)) \in Nat
        /\ IsFiniteSet(Holding(t, x)) /\ Cardinality(Holding(t, x)) \in Nat
    BY HoldingFinite
  <2>4. CASE x = o
    <3>1. Holding(t, x) \subseteq Holding(s, x) \cup {g} BY <1>1 DEF Holding
    <3>2. /\ IsFiniteSet(Holding(s, x) \cup {g})
          /\ Cardinality(Holding(s, x) \cup {g}) =
               IF g \in Holding(s, x) THEN Cardinality(Holding(s, x)) ELSE Cardinality(Holding(s, x)) + 1
      BY <2>3, FS_AddElement
    <3>3. Cardinality(Holding(t, x)) <= Cardinality(Holding(s, x) \cup {g})
      BY <3>1, <3>2, FS_Subset
    <3> QED BY <1>1, <1>2, <2>1, <2>2, <2>3, <2>4, <3>2, <3>3
  <2>5. CASE x # o
    <3>1. Holding(t, x) \subseteq Holding(s, x) BY <1>1, <2>5 DEF Holding
    <3>2. Cardinality(Holding(t, x)) <= Cardinality(Holding(s, x)) BY <3>1, HoldingFewer
    <3> QED BY <1>1, <1>2, <2>1, <2>2, <2>3, <2>5, <3>2
  <2> QED BY <2>4, <2>5
<1>5. Listed(t, NULL) BY <1>1 DEF Cover, Listed
<1>6. Pending(t, NULL, NULL, w) BY DEF Pending
<1> QED BY <1>3, <1>4, <1>5, <1>6 DEF Cover

LEMMA CoverDeny ==
    ASSUME NEW s \in OpenFilesState, NEW t \in OpenFilesState,
           NEW m \in Obj \cup {NULL}, NEW r \in Obj \cup {NULL}, NEW w,
           Cover(s, m, r, w), NEW o \in Obj, s.inode[o] # NULL, Denied(s, t, o)
    PROVE  Cover(t, m, r, w)
<1>1. /\ t.table = s.table /\ t.open_inodes = s.open_inodes
      /\ \A x \in Obj : t.inode[x] # NULL <=> s.inode[x] # NULL
      /\ \A x \in Obj : t.inode[x].i_open_cnts = s.inode[x].i_open_cnts
  BY DEF Denied
<1>2. \A x \in Obj : Holding(t, x) = Holding(s, x) BY <1>1 DEF Holding
<1>3. Held(t) BY <1>1 DEF Cover, Held
<1>4. Counted(t, m, r)
  <2> SUFFICES ASSUME NEW x \in Obj, t.inode[x] # NULL, x # m
               PROVE  /\ t.inode[x].i_open_cnts >= 1
                      /\ t.inode[x].i_open_cnts >= Cardinality(Holding(t, x)) + (IF x = r THEN 1 ELSE 0)
    BY DEF Counted
  <2> QED BY <1>1, <1>2 DEF Cover, Counted
<1>5. Listed(t, m)
  <2>1. {x \in Obj : s.inode[x] # NULL /\ x # m} = {x \in Obj : t.inode[x] # NULL /\ x # m} BY <1>1
  <2> QED BY <1>1, <2>1 DEF Cover, Listed
<1>6. Pending(t, m, r, w) BY <1>1, <1>2 DEF Cover, Pending
<1> QED BY <1>3, <1>4, <1>5, <1>6 DEF Cover

\* fork adds users only.
LEMMA CoverCounts ==
    ASSUME NEW s \in OpenFilesState, NEW t \in OpenFilesState,
           NEW m \in Obj \cup {NULL}, NEW r \in Obj \cup {NULL}, NEW w,
           Cover(s, m, r, w), NEW q \in Process, NEW fd \in Fd, Counts(s, t, q, fd)
    PROVE  Cover(t, m, r, w)
<1> DEFINE g == s.fds[q][fd]
           o == s.table[g].fd_inode
<1>1. g \in Slot \cup {-1} BY FieldTypes
<1>2. CASE g = -1 BY <1>2 DEF Counts
<1>3. CASE g # -1 /\ (s.table[g].fd_flag = "pipe" \/ o \notin Obj)
  <2>1. /\ t.inode = s.inode /\ t.open_inodes = s.open_inodes
        /\ \A h \in Slot : t.table[h].fd_inode = s.table[h].fd_inode
    BY <1>1, <1>3 DEF Counts
  <2> QED BY <2>1, CoverKept
<1>4. CASE g # -1 /\ s.table[g].fd_flag # "pipe" /\ o \in Obj
  <2>1. g \in Slot BY <1>1, <1>4
  <2>2. s.inode[o] # NULL BY <1>4, <2>1 DEF Cover, Held
  <2>3. /\ t.table = s.table /\ t.open_inodes = s.open_inodes /\ t.inode[o] # NULL
        /\ t.inode[o].i_open_cnts = s.inode[o].i_open_cnts + 1
        /\ \A x \in Obj \ {o} : t.inode[x] = s.inode[x]
    BY <1>4 DEF Counts
  <2>4. s.inode[o].i_open_cnts \in Int BY <1>4, <2>2, LiveInode
  <2> HIDE DEF o, g
  <2>5. \A x \in Obj : Holding(t, x) = Holding(s, x) BY <2>3 DEF Holding
  <2>6. \A x \in Obj : t.inode[x] # NULL <=> s.inode[x] # NULL BY <2>2, <2>3
  <2>7. Held(t) BY <2>3, <2>6 DEF Cover, Held
  <2>8. Counted(t, m, r)
    <3> SUFFICES ASSUME NEW x \in Obj, t.inode[x] # NULL, x # m
                 PROVE  /\ t.inode[x].i_open_cnts >= 1
                        /\ t.inode[x].i_open_cnts >= Cardinality(Holding(t, x)) + (IF x = r THEN 1 ELSE 0)
      BY DEF Counted
    <3>1. /\ s.inode[x].i_open_cnts >= 1
          /\ s.inode[x].i_open_cnts >= Cardinality(Holding(s, x)) + (IF x = r THEN 1 ELSE 0)
      BY <2>6 DEF Cover, Counted
    <3>2. Cardinality(Holding(s, x)) \in Nat BY HoldingFinite
    <3>3. s.inode[x].i_open_cnts \in Int BY <2>6, LiveInode
    <3>4. t.inode[x].i_open_cnts >= s.inode[x].i_open_cnts BY <2>3, <2>4, <3>3
    <3>5. t.inode[x].i_open_cnts \in Int BY LiveInode
    <3> QED BY <2>5, <3>1, <3>2, <3>3, <3>4, <3>5
  <2>9. Listed(t, m)
    <3>1. {x \in Obj : s.inode[x] # NULL /\ x # m} = {x \in Obj : t.inode[x] # NULL /\ x # m} BY <2>6
    <3> QED BY <2>3, <3>1 DEF Cover, Listed
  <2>10. Pending(t, m, r, w)
    <3>1. m # NULL => Holding(t, m) = Holding(s, m) BY <2>5
    <3>2. NULL \notin Obj BY Addresses
    <3> QED BY <2>6, <3>1, <3>2 DEF Cover, Pending
  <2> QED BY <2>7, <2>8, <2>9, <2>10 DEF Cover
<1> QED BY <1>1, <1>2, <1>3, <1>4

\* A descriptor is closed: the slot had counted for its inode.
LEMMA CoverDescriptorClosed ==
    ASSUME NEW s \in OpenFilesState, NEW t \in OpenFilesState,
           NEW m \in Obj \cup {NULL}, NEW r \in Obj \cup {NULL}, NEW w,
           Cover(s, m, r, w), NEW p \in Process, NEW fd \in Fd,
           s.fds[p][fd] # -1, DescriptorClosed(s, t, p, fd)
    PROVE  Cover(t, m, r, w)
<1>1. PICK g \in Slot : g = s.fds[p][fd] BY FieldTypes
<1>2. PICK o \in Obj \cup Page \cup {NULL} : o = s.table[g].fd_inode BY SlotTypes
<1>3. PICK d : d = <<p, fd>> OBVIOUS
<1>4. PICK u : u = Noted(s, d, g) OBVIOUS
<1>5. u \in OpenFilesState /\ u.inode = s.inode /\ u.open_inodes = s.open_inodes
      /\ u.table = s.table
  BY <1>4, NotedEffect
<1>6. SlotClosed(s, t, g) /\ InodesAfterClose(u, t, o)
  BY <1>1, <1>2, <1>3, <1>4 DEF DescriptorClosed
<1>7. NULL \notin Obj /\ NULL \notin Page /\ Obj \cap Page = {} BY Addresses
<1>8. /\ t.table[g].fd_inode = NULL
      /\ \A h \in Slot : t.table[h].fd_inode = s.table[h].fd_inode \/ t.table[h].fd_inode \notin Obj
      /\ \A h \in Slot \ {g} : t.table[h] = s.table[h]
  BY <1>6, <1>7 DEF SlotClosed
<1>9. CASE o \notin Obj
  <2>1. t.inode = s.inode /\ t.open_inodes = s.open_inodes
    BY <1>5, <1>6, <1>9 DEF InodesAfterClose, SameInodes
  <2> QED BY <1>8, <2>1, CoverKept
<1>10. CASE o \in Obj
  <2>1. InodeClosed(u, t, o) BY <1>6, <1>10 DEF InodesAfterClose
  <2>2. s.inode[o] # NULL BY <1>2, <1>10 DEF Cover, Held
  <2>3. Holding(t, o) = Holding(s, o) \ {g} /\ g \in Holding(s, o)
    BY <1>2, <1>7, <1>8, <1>10 DEF Holding
  <2>4. /\ Cardinality(Holding(t, o)) = Cardinality(Holding(s, o)) - 1
        /\ Cardinality(Holding(s, o)) \in Nat
    BY <2>3, HoldingFinite, FS_RemoveElement
  <2>5. Cardinality(Holding(t, o)) + (IF o = r THEN 1 ELSE 0) + 1
          <= Cardinality(Holding(s, o)) + (IF o = r THEN 1 ELSE 0)
    BY <2>4
  <2> QED BY <1>5, <1>8, <1>10, <2>1, <2>2, <2>5, CoverClose
<1> QED BY <1>9, <1>10

\* exit, one descriptor.
LEMMA CoverReleases ==
    ASSUME NEW s \in OpenFilesState, NEW t \in OpenFilesState,
           NEW m \in Obj \cup {NULL}, NEW r \in Obj \cup {NULL}, NEW w,
           Cover(s, m, r, w), NEW p \in Process, NEW fd \in Fd, Releases(s, t, p, fd)
    PROVE  Cover(t, m, r, w)
<1>1. PICK g \in Slot \cup {-1} : g = s.fds[p][fd] BY FieldTypes
<1>2. CASE g = -1 BY <1>1, <1>2 DEF Releases
<1>3. CASE g # -1 /\ s.table[g].fd_flag # "pipe"
  <2>1. s.fds[p][fd] # -1 /\ DescriptorClosed(s, t, p, fd) BY <1>1, <1>3 DEF Releases
  <2> QED BY <2>1, CoverDescriptorClosed
<1>4. CASE g # -1 /\ s.table[g].fd_flag = "pipe"
  <2>1. NULL \notin Obj BY Addresses
  <2>2. /\ t.inode = s.inode /\ t.open_inodes = s.open_inodes
        /\ \A h \in Slot : t.table[h].fd_inode = s.table[h].fd_inode \/ t.table[h].fd_inode \notin Obj
    BY <1>1, <1>4, <2>1 DEF Releases, PipeLeft, SameInodes
  <2> QED BY <2>2, CoverKept
<1> QED BY <1>2, <1>3, <1>4

----------------------------------------------------------------------------
(***************************************************************************)
(* What each call does to f.                                               *)
(***************************************************************************)

\* The first free slot, inode and page.
LEMMA FirstFree ==
    ASSUME NEW s \in OpenFilesState
    PROVE  /\ FreeSlots(s) # {} => /\ Least(FreeSlots(s)) \in Slot
                                   /\ s.table[Least(FreeSlots(s))].fd_inode = NULL
           /\ FreeObjs(s) # {} => /\ Least(FreeObjs(s)) \in Obj
                                  /\ s.inode[Least(FreeObjs(s))] = NULL
           /\ s.pages # {} => Least(s.pages) \in s.pages
           /\ \A S \in SUBSET Ino : S # {} => Least(S) \in S
<1>1. ASSUME NEW S, S \subseteq Nat, S # {} PROVE Least(S) \in S
  <2>1. 0 \in Int /\ S \subseteq Int /\ \A x \in S : 0 <= x BY <1>1
  <2> QED BY <1>1, <2>1, LeastMember
<1>2. FreeSlots(s) \subseteq Nat /\ FreeObjs(s) \subseteq Nat
  BY Addresses DEF FreeSlots, FreeObjs
<1>3. ASSUME s.pages # {} PROVE Least(s.pages) \in s.pages
  <2>1. s.pages \subseteq Page BY FieldTypes
  <2>2. -MAX_PIPES \in Int /\ s.pages \subseteq Int /\ \A x \in s.pages : -MAX_PIPES <= x
    BY <2>1, Addresses DEF Page
  <2> QED BY <1>3, <2>2, LeastMember
<1>4. FreeSlots(s) # {} => Least(FreeSlots(s)) \in FreeSlots(s) BY <1>1, <1>2
<1>5. FreeObjs(s) # {} => Least(FreeObjs(s)) \in FreeObjs(s) BY <1>1, <1>2
<1>6. \A S \in SUBSET Ino : S # {} => Least(S) \in S BY <1>1, Addresses
<1> QED BY <1>3, <1>4, <1>5, <1>6 DEF FreeSlots, FreeObjs

\* file_create() before its transfers: a slot holds an inode that nobody counts.
Made(s, t, g, o, i, flag) ==
    /\ t.fds = s.fds /\ t.open_inodes = s.open_inodes /\ t.removed = s.removed
    /\ t.fault = s.fault
    /\ \A x \in Obj \ {o} : t.inode[x] = s.inode[x]
    /\ t.inode[o] # NULL /\ t.inode[o].i_no = i /\ t.inode[o].i_open_cnts = 0
    /\ t.table[g].fd_inode = o /\ t.table[g].fd_pos = 0 /\ t.table[g].fd_flag = flag
    /\ \A h \in Slot \ {g} : t.table[h] = s.table[h]
    /\ t.hurt = Filled(s, g, o)
    /\ t.undenied = IF flag = "w" THEN s.undenied \cup {o} ELSE s.undenied

Make(s, g, o, i, flag) ==
    [s EXCEPT !.inode[o] = [i_no |-> i, i_open_cnts |-> 0, write_deny |-> FALSE],
              !.table[g] = [fd_inode |-> o, fd_pos |-> 0, fd_flag |-> flag],
              !.hurt = Filled(s, g, o),
              !.undenied = IF flag = "w" THEN @ \cup {o} ELSE @]

LEMMA MadeEffect ==
    ASSUME NEW s \in OpenFilesState, NEW g \in Slot, NEW o \in Obj, NEW i \in Ino,
           NEW flag \in {"r", "w"}
    PROVE  Make(s, g, o, i, flag) \in OpenFilesState /\ Made(s, Make(s, g, o, i, flag), g, o, i, flag)
<1> DEFINE a == [i_no |-> i, i_open_cnts |-> 0, write_deny |-> FALSE]
           e == [fd_inode |-> o, fd_pos |-> 0, fd_flag |-> flag]
           x == [s.inode EXCEPT ![o] = a]
           y == [s.table EXCEPT ![g] = e]
           h == Filled(s, g, o)
           u == IF flag = "w" THEN s.undenied \cup {o} ELSE s.undenied
           t == [s EXCEPT !.inode = x, !.table = y, !.hurt = h, !.undenied = u]
<1>1. a \in InodeState /\ a.i_no = i /\ a.i_open_cnts = 0 BY DEF InodeState
<1>2. a # NULL BY <1>1, NullAssumption
<1>3. e \in FileState /\ e.fd_inode = o /\ e.fd_pos = 0 /\ e.fd_flag = flag BY DEF FileState
<1>4. Make(s, g, o, i, flag) = t BY DEF Make
<1> HIDE DEF a, e
<1>5. /\ x \in [Obj -> InodeState \cup {NULL}] /\ x[o] = a
      /\ \A k \in Obj \ {o} : x[k] = s.inode[k]
  BY <1>1, FieldTypes
<1>6. /\ y \in [Slot -> FileState] /\ y[g] = e /\ \A k \in Slot \ {g} : y[k] = s.table[k]
  BY <1>3, FieldTypes
<1>7. h \subseteq Slot \cup Obj BY FilledType
<1>8. u \subseteq Obj BY FieldTypes
<1> HIDE DEF x, y, h, u
<1>9. /\ t \in OpenFilesState /\ t.inode = x /\ t.table = y /\ t.hurt = h /\ t.undenied = u
      /\ t.fds = s.fds /\ t.open_inodes = s.open_inodes
      /\ t.removed = s.removed /\ t.fault = s.fault
  BY <1>5, <1>6, <1>7, <1>8 DEF OpenFilesState
<1> HIDE DEF t
<1>10. Made(s, t, g, o, i, flag)
  BY <1>1, <1>2, <1>3, <1>5, <1>6, <1>9 DEF Made, h, u
<1> QED BY <1>4, <1>9, <1>10

\* file_create() after them: the inode is listed and has its first user.
Linked(s, t, o) ==
    /\ t.fds = s.fds /\ t.table = s.table /\ t.hurt = s.hurt /\ t.fault = s.fault
    /\ t.undenied = s.undenied /\ t.removed = s.removed
    /\ \A x \in Obj \ {o} : t.inode[x] = s.inode[x]
    /\ t.inode[o] # NULL /\ t.inode[o].i_no = s.inode[o].i_no
    /\ t.inode[o].i_open_cnts = 1 /\ t.inode[o].write_deny = s.inode[o].write_deny
    /\ Once(t.open_inodes) /\ Range(t.open_inodes) = Range(s.open_inodes) \cup {o}

LEMMA LinkedEffect ==
    ASSUME NEW s \in OpenFilesState, NEW o \in Obj, s.inode[o] # NULL,
           Once(s.open_inodes), o \notin Range(s.open_inodes)
    PROVE  LET t == [s EXCEPT !.open_inodes = <<o>> \o @, !.inode[o].i_open_cnts = 1]
           IN  t \in OpenFilesState /\ Linked(s, t, o)
<1> DEFINE l == <<o>> \o s.open_inodes
           y == [s.inode EXCEPT ![o].i_open_cnts = 1]
           t == [s EXCEPT !.open_inodes = l, !.inode = y]
<1>1. [s EXCEPT !.open_inodes = <<o>> \o @, !.inode[o].i_open_cnts = 1] = t OBVIOUS
<1>2. s.inode[o] \in InodeState BY LiveInode
<1>3. /\ y \in [Obj -> InodeState \cup {NULL}] /\ y[o] \in InodeState
      /\ y[o].i_no = s.inode[o].i_no /\ y[o].i_open_cnts = 1
      /\ y[o].write_deny = s.inode[o].write_deny
      /\ \A x \in Obj \ {o} : y[x] = s.inode[x]
  BY <1>2, FieldTypes DEF InodeState
<1>4. y[o] # NULL BY <1>3, NullAssumption
<1>5. l \in Seq(Obj) /\ Once(l) /\ Range(l) = Range(s.open_inodes) \cup {o}
  BY FieldTypes, PushOnce
<1> HIDE DEF y, l
<1>6. /\ t \in OpenFilesState /\ t.inode = y /\ t.open_inodes = l
      /\ t.fds = s.fds /\ t.table = s.table /\ t.hurt = s.hurt
      /\ t.undenied = s.undenied /\ t.removed = s.removed /\ t.fault = s.fault
  BY <1>3, <1>5 DEF OpenFilesState
<1>7. Linked(s, t, o) BY <1>3, <1>4, <1>5, <1>6 DEF Linked
<1> QED BY <1>1, <1>6, <1>7

\* file_create() gives up: the slot and the inode are free again.
Unmade(s, t, g, o) ==
    /\ t.fds = s.fds /\ t.open_inodes = s.open_inodes /\ t.removed = s.removed
    /\ t.fault = s.fault
    /\ t.inode[o] = NULL /\ \A x \in Obj \ {o} : t.inode[x] = s.inode[x]
    /\ t.table[g] = Empty /\ \A h \in Slot \ {g} : t.table[h] = s.table[h]
    /\ t.hurt = s.hurt \ {o} /\ t.undenied = s.undenied \ {o}

LEMMA UnmadeEffect ==
    ASSUME NEW s \in OpenFilesState, NEW g \in Slot, NEW o \in Obj
    PROVE  LET t == [s EXCEPT !.inode[o] = NULL, !.table[g] = Empty,
                              !.hurt = @ \ {o}, !.undenied = @ \ {o}]
           IN  t \in OpenFilesState /\ Unmade(s, t, g, o)
<1> DEFINE x == [s.inode EXCEPT ![o] = NULL]
           y == [s.table EXCEPT ![g] = Empty]
           h == s.hurt \ {o}
           u == s.undenied \ {o}
           t == [s EXCEPT !.inode = x, !.table = y, !.hurt = h, !.undenied = u]
<1>1. [s EXCEPT !.inode[o] = NULL, !.table[g] = Empty, !.hurt = @ \ {o}, !.undenied = @ \ {o}] = t
  OBVIOUS
<1>2. /\ x \in [Obj -> InodeState \cup {NULL}] /\ x[o] = NULL
      /\ \A k \in Obj \ {o} : x[k] = s.inode[k]
  BY FieldTypes
<1>3. Empty \in FileState BY DEF Empty, FileState
<1>4. /\ y \in [Slot -> FileState] /\ y[g] = Empty /\ \A k \in Slot \ {g} : y[k] = s.table[k]
  BY <1>3, FieldTypes
<1>5. h \subseteq Slot \cup Obj /\ u \subseteq Obj BY FieldTypes
<1> HIDE DEF x, y, h, u
<1>6. /\ t \in OpenFilesState /\ t.inode = x /\ t.table = y /\ t.hurt = h /\ t.undenied = u
      /\ t.fds = s.fds /\ t.open_inodes = s.open_inodes
      /\ t.removed = s.removed /\ t.fault = s.fault
  BY <1>2, <1>4, <1>5 DEF OpenFilesState
<1>7. Unmade(s, t, g, o) BY <1>2, <1>4, <1>6 DEF Unmade, h, u
<1> QED BY <1>1, <1>6, <1>7

\* The file of inode number i is gone.
Gone(s, t, i) ==
    /\ t.fds = s.fds /\ t.table = s.table /\ t.inode = s.inode /\ t.hurt = s.hurt
    /\ t.open_inodes = s.open_inodes /\ t.undenied = s.undenied /\ t.fault = s.fault
    /\ t.removed = s.removed \cup {o \in Obj : s.inode[o] # NULL /\ s.inode[o].i_no = i}

LEMMA GoneEffect ==
    ASSUME NEW s \in OpenFilesState, NEW i
    PROVE  LET t == [s EXCEPT !.removed = @ \cup {o \in Obj \ FreeObjs(s) : s.inode[o].i_no = i}]
           IN  t \in OpenFilesState /\ Gone(s, t, i)
<1> DEFINE e == s.removed \cup {o \in Obj : s.inode[o] # NULL /\ s.inode[o].i_no = i}
           t == [s EXCEPT !.removed = e]
<1>1. {o \in Obj \ FreeObjs(s) : s.inode[o].i_no = i} =
        {o \in Obj : s.inode[o] # NULL /\ s.inode[o].i_no = i}
  BY DEF FreeObjs
<1>2. [s EXCEPT !.removed = @ \cup {o \in Obj \ FreeObjs(s) : s.inode[o].i_no = i}] = t
  BY <1>1
<1>3. e \subseteq Obj BY FieldTypes
<1> HIDE DEF e
<1>4. /\ t \in OpenFilesState /\ t.inode = s.inode /\ t.table = s.table /\ t.hurt = s.hurt
      /\ t.undenied = s.undenied /\ t.fds = s.fds /\ t.open_inodes = s.open_inodes
      /\ t.removed = e /\ t.fault = s.fault
  BY <1>3 DEF OpenFilesState
<1>5. Gone(s, t, i) BY <1>4 DEF Gone, e
<1> QED BY <1>2, <1>4, <1>5

\* A pipe's page leaves the free ones and fills a slot.
LEMMA PipeFillEffect ==
    ASSUME NEW s \in OpenFilesState, NEW g \in Slot, NEW page \in Page
    PROVE  LET t == [s EXCEPT !.table[g] = [fd_inode |-> page, fd_pos |-> 2, fd_flag |-> "pipe"],
                              !.pages = @ \ {page},
                              !.hurt = Filled(s, g, page)]
           IN  t \in OpenFilesState /\ SlotFilled(s, t, g, page, 2, "pipe")
<1> DEFINE e == [fd_inode |-> page, fd_pos |-> 2, fd_flag |-> "pipe"]
           y == [s.table EXCEPT ![g] = e]
           h == Filled(s, g, page)
           w == s.pages \ {page}
           t == [s EXCEPT !.table = y, !.pages = w, !.hurt = h]
<1>1. [s EXCEPT !.table[g] = e, !.pages = @ \ {page}, !.hurt = Filled(s, g, page)] = t OBVIOUS
<1>2. e \in FileState /\ e.fd_inode = page /\ e.fd_pos = 2 /\ e.fd_flag = "pipe"
  BY DEF FileState
<1> HIDE DEF e
<1>3. y \in [Slot -> FileState] /\ y[g] = e /\ \A k \in Slot \ {g} : y[k] = s.table[k]
  BY <1>2, FieldTypes
<1>4. h \subseteq Slot \cup Obj /\ w \subseteq Page BY FilledType, FieldTypes
<1> HIDE DEF y, h, w
<1>5. /\ t \in OpenFilesState /\ t.hurt = h /\ t.table = y /\ t.fds = s.fds
      /\ t.inode = s.inode /\ t.open_inodes = s.open_inodes
      /\ t.undenied = s.undenied /\ t.removed = s.removed /\ t.fault = s.fault
  BY <1>3, <1>4 DEF OpenFilesState
<1>6. SlotFilled(s, t, g, page, 2, "pipe")
  BY <1>2, <1>3, <1>5 DEF SlotFilled, SameInodes, h
<1> QED BY <1>1, <1>5, <1>6 DEF e

\* fork() copies the descriptors.
Copied(s, t, p, q) ==
    /\ \A fd \in Fd : t.fds[q][fd] = s.fds[p][fd]
    /\ \A k \in Process \ {q} : \A fd \in Fd : t.fds[k][fd] = s.fds[k][fd]
    /\ t.table = s.table /\ SameInodes(s, t) /\ t.hurt = s.hurt /\ t.fault = s.fault

LEMMA CopiedEffect ==
    ASSUME NEW s \in OpenFilesState, NEW p \in Process, NEW q \in Process
    PROVE  LET t == [s EXCEPT !.fds[q] = s.fds[p]]
           IN  t \in OpenFilesState /\ Copied(s, t, p, q)
<1> DEFINE y == [s.fds EXCEPT ![q] = s.fds[p]]
           t == [s EXCEPT !.fds = y]
<1>1. [s EXCEPT !.fds[q] = s.fds[p]] = t OBVIOUS
<1>2. /\ y \in [Process -> [Fd -> Slot \cup {-1}]] /\ y[q] = s.fds[p]
      /\ \A k \in Process \ {q} : y[k] = s.fds[k]
  BY FieldTypes
<1> HIDE DEF y
<1>3. /\ t \in OpenFilesState /\ t.fds = y /\ t.table = s.table /\ t.hurt = s.hurt
      /\ t.inode = s.inode /\ t.open_inodes = s.open_inodes
      /\ t.undenied = s.undenied /\ t.removed = s.removed /\ t.fault = s.fault
  BY <1>2 DEF OpenFilesState
<1>4. Copied(s, t, p, q) BY <1>2, <1>3 DEF Copied, SameInodes
<1> QED BY <1>1, <1>3, <1>4

\* The calls, one after the other; x is the state of f after the call.
Opens(s, x, p, g, i, o, flag) ==
    \E r, u, v, t \in OpenFilesState : OpenedFrom(s, r, u, v, t, p, g, i, o, flag) /\ Cleared(t, x)
Links(s, x, p, g, o) ==
    \E u, t \in OpenFilesState : Linked(s, u, o) /\ Installed(u, t, p, g) /\ Cleared(t, x)
Unmakes(s, x, g, o) ==
    \E t \in OpenFilesState : Unmade(s, t, g, o) /\ Cleared(t, x)
Forgets(s, x, i, o) ==
    \E u, t \in OpenFilesState :
      /\ Gone(s, u, i) /\ InodeClosed(u, t, o) /\ t.fds = s.fds /\ t.table = s.table
      /\ t.inode[o] # NULL => t.inode[o].write_deny = s.inode[o].write_deny
      /\ Cleared(t, x)
Closes(s, x, p, fd) ==
    \E t \in OpenFilesState : DescriptorClosed(s, t, p, fd) /\ Cleared(t, x)
Pipes(s, x, p, g, page) ==
    \E u, v, t \in OpenFilesState :
      /\ SlotFilled(s, u, g, page, 2, "pipe")
      /\ Installed(u, v, p, g) /\ Installed(v, t, p, g) /\ Cleared(t, x)
Forks(s, x, done, p, q) ==
    /\ \A i \in 0..MAX_FDS : done[i] \in OpenFilesState
    /\ Copied(s, done[0], p, q)
    /\ \A i \in 1..MAX_FDS : Counts(done[i - 1], done[i], q, i)
    /\ Cleared(done[MAX_FDS], x)
Exits(s, x, done, p) ==
    /\ \A i \in 0..MAX_FDS : done[i] \in OpenFilesState
    /\ done[0] = s
    /\ \A i \in 1..MAX_FDS : Releases(done[i - 1], done[i], p, i)
    /\ Cleared(done[MAX_FDS], x)
\* A bad pointer is followed: the machine stops, nothing else changes.
Faults(s, x, line) ==
    /\ s.fault = "none" /\ x.fault = line
    /\ x.fds = s.fds /\ x.table = s.table /\ SameInodes(s, x) /\ x.hurt = s.hurt

LEMMA CoverCleared ==
    ASSUME NEW s \in OpenFilesState, NEW t \in OpenFilesState,
           NEW m \in Obj \cup {NULL}, NEW r \in Obj \cup {NULL}, NEW w, Cover(s, m, r, w),
           Cleared(s, t)
    PROVE  Cover(t, m, r, w)
<1>1. NULL \notin Obj /\ Empty.fd_inode = NULL BY Addresses DEF Empty
<1>2. /\ t.inode = s.inode /\ t.open_inodes = s.open_inodes
      /\ \A g \in Slot : t.table[g].fd_inode = s.table[g].fd_inode \/ t.table[g].fd_inode \notin Obj
  BY <1>1 DEF Cleared, SameInodes
<1> QED BY <1>2, CoverKept

LEMMA CoverInstalled ==
    ASSUME NEW s \in OpenFilesState, NEW t \in OpenFilesState,
           NEW m \in Obj \cup {NULL}, NEW r \in Obj \cup {NULL}, NEW w, Cover(s, m, r, w),
           NEW p, NEW g, Installed(s, t, p, g)
    PROVE  Cover(t, m, r, w)
<1>1. t.inode = s.inode /\ t.open_inodes = s.open_inodes /\ t.table = s.table
  BY DEF Installed, SameInodes
<1> QED BY <1>1, CoverKept

\* open: the inode and the slot.
LEMMA OpensEffect ==
    ASSUME NEW s \in OpenFilesState, NEW w, Cover(s, NULL, NULL, w), NEW i \in Ino, NEW o \in Obj,
           o = Cached(s, i) \/ s.inode[o] = NULL,
           NEW p \in Process, NEW g \in Slot, NEW flag \in {"r", "w"}
    PROVE  LET x == Settled(FileOpened(s, p, g, i, o, flag))
           IN  x \in OpenFilesState /\ Opens(s, x, p, g, i, o, flag) /\ Cover(x, NULL, NULL, w)
<1> DEFINE t == FileOpened(s, p, g, i, o, flag)
<1>1. Once(s.open_inodes) /\ \A y \in Range(s.open_inodes) : s.inode[y] # NULL
  BY DEF Cover, Listed
<1>2. t \in OpenFilesState
  BY <1>1, FileOpenedSteps
<1>3. PICK r \in OpenFilesState, u \in OpenFilesState, v \in OpenFilesState :
        OpenedFrom(s, r, u, v, t, p, g, i, o, flag)
  BY <1>1, FileOpenedSteps
<1> HIDE DEF t
<1>4. Settled(t) \in OpenFilesState /\ Cleared(t, Settled(t)) BY <1>2, SettledEffect
<1>5. Opens(s, Settled(t), p, g, i, o, flag) BY <1>2, <1>3, <1>4 DEF Opens
<1>6. InodeOpened(s, r, i, o) /\ SlotFilled(r, u, g, o, 0, flag) BY <1>3 DEF OpenedFrom
<1>7. Cover(r, NULL, o, w) BY <1>6, CoverOpen
<1>8. Cover(u, NULL, NULL, w) BY <1>6, <1>7, CoverFill
<1>9. u.inode[o] # NULL
  BY <1>6 DEF SlotFilled, SameInodes, InodeOpened, InodeShared, InodeRead
<1>10. Cover(t, NULL, NULL, w)
  <2>1. CASE Refused(u, t, g, o)
    <3>1. t.inode = u.inode /\ t.open_inodes = u.open_inodes /\ t.table = u.table
      BY <2>1 DEF Refused, SameInodes
    <3> QED BY <1>2, <1>8, <3>1, CoverKept
  <2>2. CASE Denied(u, v, o) /\ Installed(v, t, p, g)
    <3>1. Cover(v, NULL, NULL, w) BY <1>8, <1>9, <2>2, CoverDeny
    <3> QED BY <1>2, <2>2, <3>1, CoverInstalled
  <2>3. CASE Installed(u, t, p, g) BY <1>2, <1>8, <2>3, CoverInstalled
  <2> QED BY <1>3, <2>1, <2>2, <2>3 DEF OpenedFrom
<1>11. Cover(Settled(t), NULL, NULL, w) BY <1>2, <1>4, <1>10, CoverCleared
<1> QED BY <1>4, <1>5, <1>11 DEF t

\* file_create() makes an inode for slot g.
LEMMA CoverMade ==
    ASSUME NEW s \in OpenFilesState, NEW t \in OpenFilesState, NEW w, Cover(s, NULL, NULL, w),
           NEW g \in Slot, NEW o \in Obj, NEW i, NEW flag, s.inode[o] = NULL, Made(s, t, g, o, i, flag)
    PROVE  Cover(t, o, NULL, g)
<1>1. /\ t.inode[o] # NULL /\ t.open_inodes = s.open_inodes
      /\ \A x \in Obj \ {o} : t.inode[x] = s.inode[x]
      /\ t.table[g].fd_inode = o /\ \A h \in Slot \ {g} : t.table[h] = s.table[h]
  BY DEF Made
<1>2. NULL \notin Obj BY Addresses
<1>3. \A h \in Slot : s.table[h].fd_inode # o BY DEF Cover, Held
<1>4. /\ \A x \in Obj \ {o} : Holding(t, x) \subseteq Holding(s, x)
      /\ Holding(t, o) \subseteq {g}
  BY <1>1, <1>3 DEF Holding
<1>5. Held(t) BY <1>1, <1>3 DEF Cover, Held
<1>6. Counted(t, o, NULL)
  <2> SUFFICES ASSUME NEW x \in Obj, t.inode[x] # NULL, x # o
               PROVE  /\ t.inode[x].i_open_cnts >= 1
                      /\ t.inode[x].i_open_cnts >= Cardinality(Holding(t, x)) + (IF x = NULL THEN 1 ELSE 0)
    BY DEF Counted
  <2>1. /\ s.inode[x].i_open_cnts >= 1
        /\ s.inode[x].i_open_cnts >= Cardinality(Holding(s, x)) + (IF x = NULL THEN 1 ELSE 0)
    BY <1>1, <1>2 DEF Cover, Counted
  <2>2. Cardinality(Holding(t, x)) <= Cardinality(Holding(s, x)) BY <1>4, HoldingFewer
  <2>3. s.inode[x].i_open_cnts \in Int BY <1>1, LiveInode
  <2>4. Cardinality(Holding(t, x)) \in Nat /\ Cardinality(Holding(s, x)) \in Nat BY HoldingFinite
  <2> QED BY <1>1, <1>2, <2>1, <2>2, <2>3, <2>4
<1>7. Listed(t, o)
  <2>1. {x \in Obj : s.inode[x] # NULL /\ x # NULL} = {x \in Obj : t.inode[x] # NULL /\ x # o}
    BY <1>1, <1>2
  <2> QED BY <1>1, <2>1 DEF Cover, Listed
<1>8. Pending(t, o, NULL, g) BY <1>1, <1>4 DEF Pending
<1> QED BY <1>5, <1>6, <1>7, <1>8 DEF Cover

\* Now it is listed: the slot is its one user.
LEMMA CoverLinked ==
    ASSUME NEW s \in OpenFilesState, NEW t \in OpenFilesState, NEW w, NEW o \in Obj,
           Cover(s, o, NULL, w), NEW v, Linked(s, t, o)
    PROVE  Cover(t, NULL, NULL, v)
<1>1. /\ t.table = s.table /\ t.inode[o] # NULL /\ t.inode[o].i_open_cnts = 1
      /\ \A x \in Obj \ {o} : t.inode[x] = s.inode[x]
      /\ Once(t.open_inodes) /\ Range(t.open_inodes) = Range(s.open_inodes) \cup {o}
  BY DEF Linked
<1>2. NULL \notin Obj BY Addresses
<1>3. /\ \A x \in Obj : Holding(t, x) = Holding(s, x)
      /\ Holding(s, o) \subseteq {w}
  BY <1>1, <1>2 DEF Holding, Cover, Pending
<1>4. Cardinality(Holding(t, o)) <= 1
  <2>1. IsFiniteSet({w}) /\ Cardinality({w}) = 1 BY FS_Singleton
  <2>2. Cardinality(Holding(t, o)) <= Cardinality({w}) BY <1>3, <2>1, FS_Subset
  <2> QED BY <2>1, <2>2
<1>5. Held(t) BY <1>1 DEF Cover, Held
<1>6. Counted(t, NULL, NULL)
  <2> SUFFICES ASSUME NEW x \in Obj, t.inode[x] # NULL
               PROVE  /\ t.inode[x].i_open_cnts >= 1
                      /\ t.inode[x].i_open_cnts >= Cardinality(Holding(t, x)) + (IF x = NULL THEN 1 ELSE 0)
    BY DEF Counted
  <2>1. Cardinality(Holding(t, x)) \in Nat BY HoldingFinite
  <2>2. CASE x = o BY <1>1, <1>2, <1>4, <2>1, <2>2
  <2>3. CASE x # o BY <1>1, <1>2, <1>3, <2>3 DEF Cover, Counted
  <2> QED BY <2>2, <2>3
<1>7. Listed(t, NULL)
  <2>1. {x \in Obj : s.inode[x] # NULL /\ x # o} \cup {o} = {x \in Obj : t.inode[x] # NULL /\ x # NULL}
    BY <1>1, <1>2
  <2> QED BY <1>1, <2>1 DEF Cover, Listed
<1>8. Pending(t, NULL, NULL, v) BY DEF Pending
<1> QED BY <1>5, <1>6, <1>7, <1>8 DEF Cover

LEMMA LinksEffect ==
    ASSUME NEW s \in OpenFilesState, NEW w, NEW o \in Obj, Cover(s, o, NULL, w),
           NEW p \in Process, NEW g \in Slot, NEW v
    PROVE  LET x == Settled(pcb_fd_install(
                      [s EXCEPT !.open_inodes = <<o>> \o @, !.inode[o].i_open_cnts = 1], p, g))
           IN  x \in OpenFilesState /\ Links(s, x, p, g, o) /\ Cover(x, NULL, NULL, v)
<1> DEFINE u == [s EXCEPT !.open_inodes = <<o>> \o @, !.inode[o].i_open_cnts = 1]
           t == pcb_fd_install(u, p, g)
<1>1. /\ s.inode[o] # NULL /\ Once(s.open_inodes) /\ o \notin Range(s.open_inodes)
  BY Addresses DEF Cover, Listed, Pending
<1>2. u \in OpenFilesState /\ Linked(s, u, o) BY <1>1, LinkedEffect
<1> HIDE DEF u
<1>3. t \in OpenFilesState /\ Installed(u, t, p, g) BY <1>2, InstallEffect
<1> HIDE DEF t
<1>4. Settled(t) \in OpenFilesState /\ Cleared(t, Settled(t)) BY <1>3, SettledEffect
<1>5. Links(s, Settled(t), p, g, o) BY <1>2, <1>3, <1>4 DEF Links
<1>6. Cover(u, NULL, NULL, v) BY <1>2, CoverLinked
<1>7. Cover(t, NULL, NULL, v) BY <1>2, <1>3, <1>6, CoverInstalled
<1>8. Cover(Settled(t), NULL, NULL, v) BY <1>3, <1>4, <1>7, CoverCleared
<1> QED BY <1>4, <1>5, <1>8 DEF t, u

LEMMA UnmakesEffect ==
    ASSUME NEW s \in OpenFilesState, NEW g \in Slot, NEW o \in Obj, Cover(s, o, NULL, g), NEW v
    PROVE  LET x == Settled([s EXCEPT !.inode[o] = NULL, !.table[g] = Empty,
                                      !.hurt = @ \ {o}, !.undenied = @ \ {o}])
           IN  x \in OpenFilesState /\ Unmakes(s, x, g, o) /\ Cover(x, NULL, NULL, v)
<1> DEFINE t == [s EXCEPT !.inode[o] = NULL, !.table[g] = Empty,
                          !.hurt = @ \ {o}, !.undenied = @ \ {o}]
<1>1. t \in OpenFilesState /\ Unmade(s, t, g, o) BY UnmadeEffect
<1> HIDE DEF t
<1>2. Settled(t) \in OpenFilesState /\ Cleared(t, Settled(t)) BY <1>1, SettledEffect
<1>3. Unmakes(s, Settled(t), g, o) BY <1>1, <1>2 DEF Unmakes
<1>4. NULL \notin Obj /\ Empty.fd_inode = NULL BY Addresses DEF Empty
<1>5. /\ t.inode[o] = NULL /\ \A x \in Obj \ {o} : t.inode[x] = s.inode[x]
      /\ t.table[g] = Empty /\ \A h \in Slot \ {g} : t.table[h] = s.table[h]
      /\ t.open_inodes = s.open_inodes
  BY <1>1 DEF Unmade
<1>6. Holding(s, o) \subseteq {g} BY <1>4 DEF Cover, Pending
<1>7. \A x \in Obj : Holding(t, x) \subseteq Holding(s, x) BY <1>4, <1>5 DEF Holding
<1>8. \A h \in Slot : t.table[h].fd_inode # o BY <1>4, <1>5, <1>6 DEF Holding
<1>9. Held(t) BY <1>4, <1>5, <1>8 DEF Cover, Held
<1>10. Counted(t, NULL, NULL)
  <2> SUFFICES ASSUME NEW x \in Obj, t.inode[x] # NULL
               PROVE  /\ t.inode[x].i_open_cnts >= 1
                      /\ t.inode[x].i_open_cnts >= Cardinality(Holding(t, x)) + (IF x = NULL THEN 1 ELSE 0)
    BY DEF Counted
  <2>1. /\ s.inode[x].i_open_cnts >= 1 /\ x # o
        /\ s.inode[x].i_open_cnts >= Cardinality(Holding(s, x)) + (IF x = NULL THEN 1 ELSE 0)
    BY <1>4, <1>5 DEF Cover, Counted
  <2>2. Cardinality(Holding(t, x)) <= Cardinality(Holding(s, x)) BY <1>7, HoldingFewer
  <2>3. s.inode[x].i_open_cnts \in Int BY <1>5, <2>1, LiveInode
  <2>4. Cardinality(Holding(t, x)) \in Nat /\ Cardinality(Holding(s, x)) \in Nat BY HoldingFinite
  <2> QED BY <1>4, <1>5, <2>1, <2>2, <2>3, <2>4
<1>11. Listed(t, NULL)
  <2>1. {x \in Obj : s.inode[x] # NULL /\ x # o} = {x \in Obj : t.inode[x] # NULL /\ x # NULL}
    BY <1>4, <1>5
  <2> QED BY <1>5, <2>1 DEF Cover, Listed
<1>12. Cover(t, NULL, NULL, v) BY <1>9, <1>10, <1>11 DEF Cover, Pending
<1>13. Cover(Settled(t), NULL, NULL, v) BY <1>1, <1>2, <1>12, CoverCleared
<1> QED BY <1>2, <1>3, <1>13 DEF t

\* inode_release() closes what it has opened.
LEMMA ForgetsEffect ==
    ASSUME NEW s \in OpenFilesState, NEW o \in Obj, NEW w, Cover(s, NULL, o, w), NEW i
    PROVE  LET x == Settled(inode_close(
                      [s EXCEPT !.removed = @ \cup {y \in Obj \ FreeObjs(s) : s.inode[y].i_no = i}], o))
           IN  x \in OpenFilesState /\ Forgets(s, x, i, o) /\ Cover(x, NULL, NULL, w)
<1> DEFINE u == [s EXCEPT !.removed = @ \cup {y \in Obj \ FreeObjs(s) : s.inode[y].i_no = i}]
           t == inode_close(u, o)
<1>1. u \in OpenFilesState /\ Gone(s, u, i) BY GoneEffect
<1> HIDE DEF u
<1>2. /\ u.fds = s.fds /\ u.table = s.table /\ u.inode = s.inode /\ u.open_inodes = s.open_inodes
  BY <1>1 DEF Gone
<1>3. s.inode[o] # NULL /\ Once(s.open_inodes) BY Addresses DEF Cover, Listed, Pending
<1>4. /\ t \in OpenFilesState /\ t.fds = u.fds /\ t.table = u.table /\ InodeClosed(u, t, o)
      /\ t.inode[o] # NULL => t.inode[o].write_deny = s.inode[o].write_deny
  BY <1>1, <1>2, <1>3, InodeCloseEffect
<1> HIDE DEF t
<1>5. Settled(t) \in OpenFilesState /\ Cleared(t, Settled(t)) BY <1>4, SettledEffect
<1>6. Forgets(s, Settled(t), i, o) BY <1>1, <1>2, <1>4, <1>5 DEF Forgets
<1>7. NULL \notin Obj BY Addresses
<1>8. Cardinality(Holding(t, o)) + (IF o = NULL THEN 1 ELSE 0) + 1
        <= Cardinality(Holding(s, o)) + (IF o = o THEN 1 ELSE 0)
  <2>1. Holding(t, o) = Holding(s, o) BY <1>2, <1>4 DEF Holding
  <2>2. Cardinality(Holding(s, o)) \in Nat BY HoldingFinite
  <2> QED BY <1>7, <2>1, <2>2
<1>9. Cover(t, NULL, NULL, w) BY <1>1, <1>2, <1>3, <1>4, <1>8, CoverClose
<1>10. Cover(Settled(t), NULL, NULL, w) BY <1>4, <1>5, <1>9, CoverCleared
<1> QED BY <1>5, <1>6, <1>10 DEF t, u

LEMMA ClosesEffect ==
    ASSUME NEW s \in OpenFilesState, NEW m \in Obj \cup {NULL}, NEW r \in Obj \cup {NULL}, NEW w,
           Cover(s, m, r, w), NEW p \in Process, NEW fd \in Fd, s.fds[p][fd] # -1
    PROVE  LET x == Settled(sys_close(s, p, fd))
           IN  x \in OpenFilesState /\ Closes(s, x, p, fd) /\ Cover(x, m, r, w)
<1> DEFINE t == sys_close(s, p, fd)
<1>1. t \in OpenFilesState /\ DescriptorClosed(s, t, p, fd)
  BY SysCloseEffect DEF Cover, Listed, Held
<1> HIDE DEF t
<1>2. Settled(t) \in OpenFilesState /\ Cleared(t, Settled(t)) BY <1>1, SettledEffect
<1>3. Closes(s, Settled(t), p, fd) BY <1>1, <1>2 DEF Closes
<1>4. Cover(t, m, r, w) BY <1>1, CoverDescriptorClosed
<1>5. Cover(Settled(t), m, r, w) BY <1>1, <1>2, <1>4, CoverCleared
<1> QED BY <1>2, <1>3, <1>5 DEF t

LEMMA PipesEffect ==
    ASSUME NEW s \in OpenFilesState, NEW m \in Obj \cup {NULL}, NEW r \in Obj \cup {NULL}, NEW w,
           Cover(s, m, r, w), NEW p \in Process, NEW g \in Slot, NEW page \in Page
    PROVE  LET u == [s EXCEPT !.table[g] = [fd_inode |-> page, fd_pos |-> 2, fd_flag |-> "pipe"],
                              !.pages = @ \ {page},
                              !.hurt = Filled(s, g, page)]
               x == Settled(pcb_fd_install(pcb_fd_install(u, p, g), p, g))
           IN  x \in OpenFilesState /\ Pipes(s, x, p, g, page) /\ Cover(x, m, r, w)
<1> DEFINE u == [s EXCEPT !.table[g] = [fd_inode |-> page, fd_pos |-> 2, fd_flag |-> "pipe"],
                          !.pages = @ \ {page},
                          !.hurt = Filled(s, g, page)]
           v == pcb_fd_install(u, p, g)
           t == pcb_fd_install(v, p, g)
<1>1. u \in OpenFilesState /\ SlotFilled(s, u, g, page, 2, "pipe") BY PipeFillEffect
<1> HIDE DEF u
<1>2. v \in OpenFilesState /\ Installed(u, v, p, g) BY <1>1, InstallEffect
<1> HIDE DEF v
<1>3. t \in OpenFilesState /\ Installed(v, t, p, g) BY <1>2, InstallEffect
<1> HIDE DEF t
<1>4. Settled(t) \in OpenFilesState /\ Cleared(t, Settled(t)) BY <1>3, SettledEffect
<1>5. Pipes(s, Settled(t), p, g, page) BY <1>1, <1>2, <1>3, <1>4 DEF Pipes
<1>6. Cover(u, m, r, w)
  <2>1. Obj \cap Page = {} BY Addresses
  <2>2. /\ u.inode = s.inode /\ u.open_inodes = s.open_inodes
        /\ \A h \in Slot : u.table[h].fd_inode = s.table[h].fd_inode \/ u.table[h].fd_inode \notin Obj
    BY <1>1, <2>1 DEF SlotFilled, SameInodes
  <2> QED BY <1>1, <2>2, CoverKept
<1>7. Cover(v, m, r, w) BY <1>1, <1>2, <1>6, CoverInstalled
<1>8. Cover(t, m, r, w) BY <1>2, <1>3, <1>7, CoverInstalled
<1>9. Cover(Settled(t), m, r, w) BY <1>3, <1>4, <1>8, CoverCleared
<1> QED BY <1>4, <1>5, <1>9 DEF t, v, u

LEMMA ForksEffect ==
    ASSUME NEW s \in OpenFilesState, NEW m \in Obj \cup {NULL}, NEW r \in Obj \cup {NULL}, NEW w,
           Cover(s, m, r, w), NEW p \in Process, NEW q \in Process
    PROVE  LET x == Settled(update_inode_open_cnts([s EXCEPT !.fds[q] = s.fds[p]], q))
           IN  x \in OpenFilesState /\ (\E done : Forks(s, x, done, p, q)) /\ Cover(x, m, r, w)
<1> DEFINE u == [s EXCEPT !.fds[q] = s.fds[p]]
           t == update_inode_open_cnts(u, q)
<1>0. MAX_FDS \in Nat /\ Fd = 1..MAX_FDS BY Addresses DEF Fd
<1>1. u \in OpenFilesState /\ Copied(s, u, p, q) BY CopiedEffect
<1> HIDE DEF u
<1>2. Cover(u, m, r, w)
  <2>1. u.inode = s.inode /\ u.open_inodes = s.open_inodes /\ u.table = s.table
    BY <1>1 DEF Copied, SameInodes
  <2> QED BY <1>1, <2>1, CoverKept
<1>3. PICK done : /\ done[0] = u
                  /\ \A i \in 1..MAX_FDS : done[i] = CountedFd(done[i - 1], q, i)
                  /\ t = done[MAX_FDS]
  BY CountLoop
<1> HIDE DEF t
<1> DEFINE S == {i \in 0..MAX_FDS : done[i] \in OpenFilesState /\ Cover(done[i], m, r, w)}
<1>4. ASSUME NEW i \in 1..MAX_FDS, i - 1 \in S
      PROVE  i \in S /\ Counts(done[i - 1], done[i], q, i)
  <2>1. done[i - 1] \in OpenFilesState /\ Cover(done[i - 1], m, r, w) BY <1>4
  <2>2. done[i] = CountedFd(done[i - 1], q, i) /\ i \in Fd BY <1>0, <1>3
  <2>3. \A g \in Slot : done[i - 1].table[g].fd_inode \in Obj =>
                          done[i - 1].inode[done[i - 1].table[g].fd_inode] # NULL
    BY <2>1 DEF Cover, Held
  <2>4. done[i] \in OpenFilesState /\ Counts(done[i - 1], done[i], q, i)
    BY <2>1, <2>2, <2>3, CountedFdEffect
  <2>5. Cover(done[i], m, r, w) BY <2>1, <2>2, <2>4, CoverCounts
  <2> QED BY <2>4, <2>5
<1>5. 0 \in S BY <1>0, <1>1, <1>2, <1>3
<1>6. \A i \in 0..MAX_FDS : i \in S
  <2> HIDE DEF S
  <2> QED BY <1>0, <1>4, <1>5, Passes
<1>7. t \in OpenFilesState /\ Cover(t, m, r, w) BY <1>0, <1>3, <1>6
<1>8. Settled(t) \in OpenFilesState /\ Cleared(t, Settled(t)) BY <1>7, SettledEffect
<1>9. \A i \in 1..MAX_FDS : Counts(done[i - 1], done[i], q, i)
  <2> HIDE DEF S
  <2> QED BY <1>0, <1>4, <1>6
<1>10. Forks(s, Settled(t), done, p, q) BY <1>1, <1>3, <1>6, <1>8, <1>9 DEF Forks
<1>11. Cover(Settled(t), m, r, w) BY <1>7, <1>8, CoverCleared
<1> QED BY <1>8, <1>10, <1>11 DEF t, u

LEMMA ExitsEffect ==
    ASSUME NEW s \in OpenFilesState, NEW m \in Obj \cup {NULL}, NEW r \in Obj \cup {NULL}, NEW w,
           Cover(s, m, r, w), NEW p \in Process
    PROVE  LET x == Settled(release_prog_resource(s, p))
           IN  x \in OpenFilesState /\ (\E done : Exits(s, x, done, p)) /\ Cover(x, m, r, w)
<1> DEFINE t == release_prog_resource(s, p)
<1>0. MAX_FDS \in Nat /\ Fd = 1..MAX_FDS BY Addresses DEF Fd
<1>3. PICK done : /\ done[0] = s
                  /\ \A i \in 1..MAX_FDS : done[i] = ReleasedFd(done[i - 1], p, i)
                  /\ t = done[MAX_FDS]
  BY ReleaseLoop
<1> HIDE DEF t
<1> DEFINE S == {i \in 0..MAX_FDS : done[i] \in OpenFilesState /\ Cover(done[i], m, r, w)}
<1>4. ASSUME NEW i \in 1..MAX_FDS, i - 1 \in S
      PROVE  i \in S /\ Releases(done[i - 1], done[i], p, i)
  <2>1. done[i - 1] \in OpenFilesState /\ Cover(done[i - 1], m, r, w) BY <1>4
  <2>2. done[i] = ReleasedFd(done[i - 1], p, i) /\ i \in Fd BY <1>0, <1>3
  <2>3. /\ Once(done[i - 1].open_inodes)
        /\ \A g \in Slot : done[i - 1].table[g].fd_inode \in Obj =>
                          done[i - 1].inode[done[i - 1].table[g].fd_inode] # NULL
    BY <2>1 DEF Cover, Held, Listed
  <2>4. done[i] \in OpenFilesState /\ Releases(done[i - 1], done[i], p, i)
    BY <2>1, <2>2, <2>3, ReleasedFdEffect
  <2>5. Cover(done[i], m, r, w) BY <2>1, <2>2, <2>4, CoverReleases
  <2> QED BY <2>4, <2>5
<1>5. 0 \in S BY <1>0, <1>3
<1>6. \A i \in 0..MAX_FDS : i \in S
  <2> HIDE DEF S
  <2> QED BY <1>0, <1>4, <1>5, Passes
<1>7. t \in OpenFilesState /\ Cover(t, m, r, w) BY <1>0, <1>3, <1>6
<1>8. Settled(t) \in OpenFilesState /\ Cleared(t, Settled(t)) BY <1>7, SettledEffect
<1>9. \A i \in 1..MAX_FDS : Releases(done[i - 1], done[i], p, i)
  <2> HIDE DEF S
  <2> QED BY <1>0, <1>4, <1>6
<1>10. Exits(s, Settled(t), done, p) BY <1>3, <1>6, <1>8, <1>9 DEF Exits
<1>11. Cover(Settled(t), m, r, w) BY <1>7, <1>8, CoverCleared
<1> QED BY <1>8, <1>10, <1>11 DEF t

\* What the call in progress is.
LEMMA CallTypes ==
    ASSUME TypeOK, call # NULL
    PROVE  /\ call \in CallState /\ call.p \in Process
           /\ call.op = "open" => call.ino \in Ino /\ call.slot \in Slot /\ call.flag \in {"r", "w"}
           /\ call.op = "create" => call.name \in Name /\ call.slot \in Slot /\ call.obj \in Obj
           /\ call.op = "unlink" => call.name \in Name /\ call.ino \in Ino /\ call.obj \in Obj \cup {NULL}
  BY DEF TypeOK, CallState

\* The pending users of both kinds are of one call.
LEMMA CoverTypes ==
    ASSUME TypeOK
    PROVE  /\ f \in OpenFilesState
           /\ Maker \in Obj \cup {NULL} /\ Releaser \in Obj \cup {NULL} /\ Target \in Slot \cup {NULL}
           /\ call = NULL => Maker = NULL /\ Releaser = NULL /\ Target = NULL
           /\ call # NULL /\ call.op = "create" =>
                Maker = call.obj /\ Releaser = NULL /\ Target = call.slot
           /\ call # NULL /\ call.op = "unlink" =>
                Maker = NULL /\ Releaser = call.obj /\ Target = NULL
           /\ call # NULL /\ call.op = "open" => Maker = NULL /\ Releaser = NULL /\ Target = NULL
  BY CallTypes DEF TypeOK, Maker, Releaser, Target

LEMMA CallRecords ==
    /\ \A p \in Process, i \in Ino, g \in Slot, flag \in {"r", "w"} :
         /\ [op |-> "open", p |-> p, ino |-> i, slot |-> g, flag |-> flag] \in CallState
         /\ [op |-> "open", p |-> p, ino |-> i, slot |-> g, flag |-> flag] # NULL
    /\ \A p \in Process, n \in Name, g \in Slot, o \in Obj :
         /\ [op |-> "create", p |-> p, name |-> n, slot |-> g, obj |-> o] \in CallState
         /\ [op |-> "create", p |-> p, name |-> n, slot |-> g, obj |-> o] # NULL
    /\ \A p \in Process, n \in Name, i \in Ino, o \in Obj \cup {NULL} :
         /\ [op |-> "unlink", p |-> p, name |-> n, ino |-> i, obj |-> o] \in CallState
         /\ [op |-> "unlink", p |-> p, name |-> n, ino |-> i, obj |-> o] # NULL
  BY NullAssumption DEF CallState

Inductive == TypeOK /\ CoverInv

LEMMA OpenCachedStep ==
    ASSUME Inductive, NEW p \in Process, NEW n \in Name, NEW flag \in {"r", "w"},
           OpenCached(p, n, flag)
    PROVE  /\ Inductive'
           /\ \E g \in Slot, o \in Obj :
                /\ f.table[g].fd_inode = NULL /\ o = Cached(f, entry[n])
                /\ Opens(f, f', p, g, entry[n], o, flag)
<1> USE DEF Inductive
<1>1. PICK g : g = Least(FreeSlots(f)) OBVIOUS
<1>2. PICK o : o = Cached(f, entry[n]) OBVIOUS
<1>3. f \in OpenFilesState /\ entry[n] \in Ino /\ call = NULL
  BY DEF OpenCached, ReadyForDisk, TypeOK
<1>4. g \in Slot /\ f.table[g].fd_inode = NULL BY <1>1, <1>3, FirstFree DEF OpenCached
<1>5. o \in Obj BY <1>2, <1>3, CachedFinds DEF OpenCached
<1>6. Cover(f, NULL, NULL, NULL) BY <1>3, CoverTypes DEF CoverInv
<1>7. f' = Settled(FileOpened(f, p, g, entry[n], o, flag)) /\ UNCHANGED <<alive, entry, bitmap, call, rw>>
  BY <1>1, <1>2 DEF OpenCached
<1>8. f' \in OpenFilesState /\ Opens(f, f', p, g, entry[n], o, flag) /\ Cover(f', NULL, NULL, NULL)
  BY <1>2, <1>3, <1>4, <1>5, <1>6, <1>7, OpensEffect
<1>9. TypeOK' BY <1>7, <1>8 DEF TypeOK
<1>10. CoverInv' BY <1>3, <1>7, <1>8 DEF CoverInv, Maker, Releaser, Target
<1> QED BY <1>2, <1>4, <1>5, <1>8, <1>9, <1>10

LEMMA OpenStep ==
    ASSUME Inductive, NEW p \in Process, NEW n \in Name, NEW flag \in {"r", "w"}, Open(p, n, flag)
    PROVE  /\ Inductive' /\ f' = f
           /\ call' # NULL /\ call'.op = "open" /\ call'.p = p /\ call'.ino = entry[n]
           /\ call'.slot \in Slot /\ f.table[call'.slot].fd_inode = NULL
<1> USE DEF Inductive
<1>1. PICK g : g = Least(FreeSlots(f)) OBVIOUS
<1>3. f \in OpenFilesState /\ entry[n] \in Ino /\ call = NULL
  BY DEF Open, ReadyForDisk, TypeOK
<1>4. g \in Slot /\ f.table[g].fd_inode = NULL BY <1>1, <1>3, FirstFree DEF Open
<1>5. /\ call' = [op |-> "open", p |-> p, ino |-> entry[n], slot |-> g, flag |-> flag]
      /\ UNCHANGED <<f, alive, entry, bitmap, rw>>
  BY <1>1 DEF Open
<1>6. call' \in CallState /\ call' # NULL BY <1>3, <1>4, <1>5, CallRecords
<1>7. TypeOK' BY <1>5, <1>6 DEF TypeOK
<1>8. Cover(f, NULL, NULL, NULL) BY <1>3, CoverTypes DEF CoverInv
<1>9. CoverInv' BY <1>5, <1>8 DEF CoverInv, Maker, Releaser, Target
<1> QED BY <1>4, <1>5, <1>6, <1>7, <1>9

LEMMA OpenReadStep ==
    ASSUME Inductive, OpenRead
    PROVE  /\ Inductive'
           /\ call # NULL /\ call.op = "open" /\ call.p \in Process /\ call.slot \in Slot
           /\ call.ino \in Ino
           /\ \E o \in Obj : /\ f.inode[o] = NULL
                             /\ Opens(f, f', call.p, call.slot, call.ino, o, call.flag)
<1> USE DEF Inductive
<1>1. PICK o : o = Least(FreeObjs(f)) OBVIOUS
<1>2. f \in OpenFilesState /\ call # NULL /\ call.op = "open"
  BY DEF OpenRead, Continues, TypeOK
<1>3. call.p \in Process /\ call.ino \in Ino /\ call.slot \in Slot /\ call.flag \in {"r", "w"}
  BY <1>2, CallTypes
<1>4. o \in Obj /\ f.inode[o] = NULL BY <1>1, <1>2, FirstFree DEF OpenRead
<1>6. Cover(f, NULL, NULL, NULL) BY <1>2, CoverTypes DEF CoverInv
<1>7. /\ f' = Settled(FileOpened(f, call.p, call.slot, call.ino, o, call.flag)) /\ call' = NULL
      /\ UNCHANGED <<alive, entry, bitmap, rw>>
  BY <1>1 DEF OpenRead
<1>8. /\ f' \in OpenFilesState /\ Opens(f, f', call.p, call.slot, call.ino, o, call.flag)
      /\ Cover(f', NULL, NULL, NULL)
  BY <1>2, <1>3, <1>4, <1>6, <1>7, OpensEffect
<1>9. TypeOK' BY <1>7, <1>8 DEF TypeOK
<1>10. CoverInv' BY <1>7, <1>8 DEF CoverInv, Maker, Releaser, Target
<1> QED BY <1>2, <1>3, <1>4, <1>8, <1>9, <1>10

LEMMA CreateStep ==
    ASSUME Inductive, NEW p \in Process, NEW n \in Name, NEW flag \in {"r", "w"},
           Create(p, n, flag)
    PROVE  /\ Inductive'
           /\ \E g \in Slot, o \in Obj, i \in Ino \ bitmap :
                /\ f.table[g].fd_inode = NULL /\ f.inode[o] = NULL
                /\ Made(f, f', g, o, i, flag) /\ bitmap' = bitmap \cup {i}
                /\ call' # NULL
                /\ call' = [op |-> "create", p |-> p, name |-> n, slot |-> g, obj |-> o]
<1> USE DEF Inductive
<1>1. PICK g : g = Least(FreeSlots(f)) OBVIOUS
<1>2. PICK o : o = Least(FreeObjs(f)) OBVIOUS
<1>3. PICK i : i = Least(Ino \ bitmap) OBVIOUS
<1>4. f \in OpenFilesState /\ bitmap \subseteq Ino /\ call = NULL
  BY DEF Create, ReadyForDisk, TypeOK
<1>5. /\ g \in Slot /\ f.table[g].fd_inode = NULL
      /\ o \in Obj /\ f.inode[o] = NULL
  BY <1>1, <1>2, <1>4, FirstFree DEF Create
<1>6. i \in Ino \ bitmap
  <2>1. Ino \ bitmap # {} /\ Ino \ bitmap \in SUBSET Ino BY DEF Create
  <2> QED BY <1>3, <1>4, <2>1, FirstFree
<1>7. /\ bitmap' = bitmap \cup {i}
      /\ f' = Make(f, g, o, i, flag)
      /\ call' = [op |-> "create", p |-> p, name |-> n, slot |-> g, obj |-> o]
      /\ UNCHANGED <<alive, entry, rw>>
  BY <1>1, <1>2, <1>3 DEF Create, Make
<1>8. f' \in OpenFilesState /\ Made(f, f', g, o, i, flag)
  BY <1>4, <1>5, <1>6, <1>7, MadeEffect
<1>9. Cover(f, NULL, NULL, NULL) BY <1>4, CoverTypes DEF CoverInv
<1>10. Cover(f', o, NULL, g) BY <1>4, <1>5, <1>8, <1>9, CoverMade
<1>11. call' \in CallState /\ call' # NULL BY <1>5, <1>7, CallRecords
<1>12. TypeOK' BY <1>4, <1>6, <1>7, <1>8, <1>11 DEF TypeOK
<1>13. CoverInv' BY <1>7, <1>10, <1>11 DEF CoverInv, Maker, Releaser, Target
<1> QED BY <1>5, <1>6, <1>7, <1>8, <1>11, <1>12, <1>13

\* The parameters of a file_create() in progress.
LEMMA CreateCall ==
    ASSUME Inductive, Continues("create")
    PROVE  /\ call # NULL /\ call.op = "create" /\ call.p \in Process /\ call.slot \in Slot
           /\ call.obj \in Obj /\ call.name \in Name
           /\ f \in OpenFilesState /\ Cover(f, call.obj, NULL, call.slot)
           /\ f.inode[call.obj] # NULL
<1>1. call # NULL /\ call.op = "create" BY DEF Continues
<1>2. /\ call.p \in Process /\ call.slot \in Slot /\ call.obj \in Obj /\ call.name \in Name
      /\ f \in OpenFilesState
  BY <1>1, CallTypes DEF Inductive, TypeOK
<1>3. Cover(f, call.obj, NULL, call.slot) BY <1>1, CoverTypes DEF Inductive, CoverInv
<1>4. f.inode[call.obj] # NULL BY <1>2, <1>3, Addresses DEF Cover, Pending
<1> QED BY <1>1, <1>2, <1>3, <1>4

LEMMA CreatedStep ==
    ASSUME Inductive, Created
    PROVE  Inductive' /\ Links(f, f', call.p, call.slot, call.obj)
<1> USE DEF Inductive
<1>1. /\ call # NULL /\ call.op = "create" /\ call.p \in Process /\ call.slot \in Slot
      /\ call.obj \in Obj /\ call.name \in Name
      /\ f \in OpenFilesState /\ Cover(f, call.obj, NULL, call.slot)
      /\ f.inode[call.obj] # NULL
  BY CreateCall DEF Created
<1> DEFINE o == call.obj
           s == [f EXCEPT !.open_inodes = <<o>> \o @, !.inode[o].i_open_cnts = 1]
<1>2. /\ entry' = [entry EXCEPT ![call.name] = f.inode[o].i_no]
      /\ f' = Settled(pcb_fd_install(s, call.p, call.slot))
      /\ call' = NULL /\ UNCHANGED <<alive, bitmap, rw>>
  BY DEF Created
<1>3. /\ f' \in OpenFilesState /\ Links(f, f', call.p, call.slot, o) /\ Cover(f', NULL, NULL, NULL)
  BY <1>1, <1>2, LinksEffect
<1>4. f.inode[o].i_no \in Ino BY <1>1, LiveInode
<1> HIDE DEF o, s
<1>5. TypeOK' BY <1>2, <1>3, <1>4 DEF TypeOK
<1>6. CoverInv' BY <1>2, <1>3 DEF CoverInv, Maker, Releaser, Target
<1> QED BY <1>3, <1>5, <1>6 DEF o

LEMMA CreateFailsStep ==
    ASSUME Inductive, CreateFails
    PROVE  Inductive' /\ Unmakes(f, f', call.slot, call.obj)
<1> USE DEF Inductive
<1>1. /\ call # NULL /\ call.op = "create" /\ call.p \in Process /\ call.slot \in Slot
      /\ call.obj \in Obj /\ call.name \in Name
      /\ f \in OpenFilesState /\ Cover(f, call.obj, NULL, call.slot)
      /\ f.inode[call.obj] # NULL
  BY CreateCall DEF CreateFails
<1>2. PICK o : o = call.obj OBVIOUS
<1>3. PICK g : g = call.slot OBVIOUS
<1>4. /\ bitmap' = bitmap \ {f.inode[o].i_no}
      /\ f' = Settled([f EXCEPT !.inode[o] = NULL, !.table[g] = Empty,
                                !.hurt = @ \ {o}, !.undenied = @ \ {o}])
      /\ call' = NULL /\ UNCHANGED <<alive, entry, rw>>
  BY <1>2, <1>3 DEF CreateFails
<1>5. /\ f' \in OpenFilesState /\ Unmakes(f, f', g, o) /\ Cover(f', NULL, NULL, NULL)
  BY <1>1, <1>2, <1>3, <1>4, UnmakesEffect
<1>6. TypeOK' BY <1>4, <1>5 DEF TypeOK
<1>7. CoverInv' BY <1>4, <1>5 DEF CoverInv, Maker, Releaser, Target
<1> QED BY <1>2, <1>3, <1>5, <1>6, <1>7

LEMMA UnlinkStep ==
    ASSUME Inductive, NEW p \in Process, NEW n \in Name, Unlink(p, n)
    PROVE  /\ Inductive' /\ f' = f /\ call' # NULL
           /\ call' = [op |-> "unlink", p |-> p, name |-> n, ino |-> entry[n], obj |-> NULL]
<1> USE DEF Inductive
<1>1. f \in OpenFilesState /\ entry[n] \in Ino /\ call = NULL
  BY DEF Unlink, ReadyForDisk, TypeOK
<1>2. /\ call' = [op |-> "unlink", p |-> p, name |-> n, ino |-> entry[n], obj |-> NULL]
      /\ UNCHANGED <<f, alive, entry, bitmap, rw>>
  BY DEF Unlink
<1>3. call' \in CallState /\ call' # NULL BY <1>1, <1>2, CallRecords
<1>4. TypeOK' BY <1>2, <1>3 DEF TypeOK
<1>5. Cover(f, NULL, NULL, NULL) BY <1>1, CoverTypes DEF CoverInv
<1>6. CoverInv' BY <1>2, <1>5 DEF CoverInv, Maker, Releaser, Target
<1> QED BY <1>2, <1>3, <1>4, <1>6

LEMMA UnlinkOpensStep ==
    ASSUME Inductive, UnlinkOpens
    PROVE  /\ Inductive'
           /\ call # NULL /\ call.op = "unlink" /\ call.name \in Name /\ call.ino \in Ino
           /\ \E o \in Obj : /\ o = Cached(f, call.ino) \/
                                (Cached(f, call.ino) = NULL /\ f.inode[o] = NULL)
                             /\ InodeOpened(f, f', call.ino, o)
                             /\ call' # NULL /\ call' = [call EXCEPT !.obj = o]
<1> USE DEF Inductive
<1>1. /\ f \in OpenFilesState /\ call # NULL /\ call.op = "unlink" /\ call.obj = NULL
      /\ call.p \in Process /\ call.name \in Name /\ call.ino \in Ino /\ call \in CallState
  BY CallTypes DEF UnlinkOpens, Continues, TypeOK
<1>2. PICK c : c = Cached(f, call.ino) OBVIOUS
<1>3. PICK o : o = IF c = NULL THEN Least(FreeObjs(f)) ELSE c OBVIOUS
<1>4. o \in Obj /\ (o = Cached(f, call.ino) \/ (Cached(f, call.ino) = NULL /\ f.inode[o] = NULL))
  BY <1>1, <1>2, <1>3, FirstFree, CachedFinds DEF UnlinkOpens
<1>5. Cover(f, NULL, NULL, NULL) BY <1>1, CoverTypes DEF CoverInv
<1>6. Once(f.open_inodes) /\ \A x \in Range(f.open_inodes) : f.inode[x] # NULL
  BY <1>5 DEF Cover, Listed
<1>7. /\ entry' = [entry EXCEPT ![call.name] = NULL]
      /\ f' = inode_open(f, call.ino, o)
      /\ call' = [call EXCEPT !.obj = o]
      /\ UNCHANGED <<alive, bitmap, rw>>
  BY <1>2, <1>3 DEF UnlinkOpens
<1>8. f' \in OpenFilesState /\ InodeOpened(f, f', call.ino, o)
  BY <1>1, <1>4, <1>6, <1>7, InodeOpenEffect
<1>9. Cover(f', NULL, o, NULL) BY <1>1, <1>4, <1>5, <1>8, CoverOpen
<1>10. call' \in CallState /\ call' # NULL /\ call'.op = "unlink" /\ call'.obj = o
  <2>1. call' = [op |-> "unlink", p |-> call.p, name |-> call.name, ino |-> call.ino, obj |-> o]
    BY <1>1, <1>7 DEF CallState
  <2> QED BY <1>1, <1>4, <2>1, CallRecords
<1>11. TypeOK' BY <1>7, <1>8, <1>10 DEF TypeOK
<1>12. CoverInv' BY <1>9, <1>10 DEF CoverInv, Maker, Releaser, Target
<1> QED BY <1>1, <1>4, <1>7, <1>8, <1>10, <1>11, <1>12

LEMMA UnlinkedStep ==
    ASSUME Inductive, Unlinked
    PROVE  /\ Inductive'
           /\ call # NULL /\ call.op = "unlink" /\ call.obj \in Obj /\ call.ino \in Ino
           /\ f.inode[call.obj] # NULL
           /\ Forgets(f, f', call.ino, call.obj)
<1> USE DEF Inductive
<1>1. /\ f \in OpenFilesState /\ call # NULL /\ call.op = "unlink" /\ call.obj \in Obj
      /\ call.ino \in Ino
  BY CallTypes DEF Unlinked, Continues, TypeOK
<1>2. PICK i : i = call.ino OBVIOUS
<1>3. PICK o : o = call.obj OBVIOUS
<1>4. Cover(f, NULL, o, NULL) BY <1>1, <1>3, CoverTypes DEF CoverInv
<1>5. /\ bitmap' = bitmap \ {i}
      /\ f' = Settled(inode_close(
                [f EXCEPT !.removed = @ \cup {y \in Obj \ FreeObjs(f) : f.inode[y].i_no = i}], o))
      /\ call' = NULL /\ UNCHANGED <<alive, entry, rw>>
  BY <1>2, <1>3 DEF Unlinked
<1>6. f' \in OpenFilesState /\ Forgets(f, f', i, o) /\ Cover(f', NULL, NULL, NULL)
  BY <1>1, <1>3, <1>4, <1>5, ForgetsEffect
<1>7. TypeOK' BY <1>5, <1>6 DEF TypeOK
<1>8. CoverInv' BY <1>5, <1>6 DEF CoverInv, Maker, Releaser, Target
<1>9. f.inode[o] # NULL BY <1>1, <1>3, <1>4, Addresses DEF Cover, Pending
<1> QED BY <1>1, <1>2, <1>3, <1>6, <1>7, <1>8, <1>9

\* A fault disturbs nothing else.
LEMMA FaultsEffect ==
    ASSUME NEW s \in OpenFilesState, NEW line \in Site, s.fault = "none"
    PROVE  Fault(s, line) \in OpenFilesState /\ Faults(s, Fault(s, line), line)
  BY FaultEffect DEF Faults, SameInodes

\* A call that leaves the call in progress alone.
LEMMA InductiveKept ==
    ASSUME Inductive, f' \in OpenFilesState, alive' \subseteq Process, rw' \in [Process -> Slot \cup {NULL}],
           UNCHANGED <<entry, bitmap, call>>, Cover(f', Maker, Releaser, Target)
    PROVE  Inductive'
<1>1. TypeOK' BY DEF Inductive, TypeOK
<1>2. Maker' = Maker /\ Releaser' = Releaser /\ Target' = Target BY DEF Maker, Releaser, Target
<1>3. CoverInv' BY <1>2 DEF CoverInv
<1> QED BY <1>1, <1>3 DEF Inductive

LEMMA CoverFaults ==
    ASSUME NEW s \in OpenFilesState, NEW t \in OpenFilesState, NEW m \in Obj \cup {NULL},
           NEW r \in Obj \cup {NULL}, NEW w, Cover(s, m, r, w), NEW line, Faults(s, t, line)
    PROVE  Cover(t, m, r, w)
<1>1. t.inode = s.inode /\ t.open_inodes = s.open_inodes /\ t.table = s.table
  BY DEF Faults, SameInodes
<1> QED BY <1>1, CoverKept

LEMMA TransferStep ==
    ASSUME Inductive, NEW p \in Process, NEW fd \in Fd, Transfer(p, fd)
    PROVE  /\ Inductive'
           /\ f.fds[p][fd] \in Slot /\ f.table[f.fds[p][fd]].fd_flag # "pipe"
           /\ \/ f' = f /\ rw' = [rw EXCEPT ![p] = f.fds[p][fd]]
              \/ f.table[f.fds[p][fd]].fd_inode = NULL /\ Faults(f, f', "file.c:218") /\ rw' = rw
<1> USE DEF Inductive
<1>0. PICK g : g = f.fds[p][fd] OBVIOUS
<1>1. /\ f \in OpenFilesState /\ g \in Slot /\ f.fault = "none" /\ f.table[g].fd_flag # "pipe"
      /\ alive \subseteq Process /\ rw \in [Process -> Slot \cup {NULL}]
      /\ UNCHANGED <<alive, entry, bitmap, call>>
  BY <1>0, FieldTypes DEF TypeOK, Transfer, Ready
<1>2. CASE f.table[g].fd_inode = NULL
  <2>1. f' = Fault(f, "file.c:218") /\ rw' = rw BY <1>0, <1>2 DEF Transfer
  <2>2. f' \in OpenFilesState /\ Faults(f, f', "file.c:218")
    BY <1>1, <2>1, FaultsEffect DEF Site
  <2>3. Cover(f', Maker, Releaser, Target) BY <1>1, <2>2, CoverFaults, CoverTypes DEF CoverInv
  <2>4. Inductive' BY <1>1, <2>1, <2>2, <2>3, InductiveKept
  <2> QED BY <1>0, <1>1, <1>2, <2>1, <2>2, <2>4
<1>3. CASE f.table[g].fd_inode # NULL
  <2>1. f' = f /\ rw' = [rw EXCEPT ![p] = g] BY <1>0, <1>3 DEF Transfer
  <2>2. rw' \in [Process -> Slot \cup {NULL}] BY <1>1, <2>1
  <2>3. Cover(f', Maker, Releaser, Target) BY <2>1 DEF CoverInv
  <2>4. Inductive' BY <1>1, <2>1, <2>2, <2>3, InductiveKept
  <2> QED BY <1>0, <1>1, <2>1, <2>4
<1> QED BY <1>2, <1>3

LEMMA TransferredStep ==
    ASSUME Inductive, NEW p \in Process, Transferred(p)
    PROVE  /\ Inductive' /\ rw[p] \in Slot
           /\ \/ f' = f
              \/ f.table[rw[p]].fd_inode \notin Obj /\ Faults(f, f', "file.c:218")
<1> USE DEF Inductive
<1>1. /\ f \in OpenFilesState /\ rw[p] \in Slot /\ f.fault = "none"
      /\ alive \subseteq Process /\ rw \in [Process -> Slot \cup {NULL}]
      /\ rw' = [rw EXCEPT ![p] = NULL]
      /\ UNCHANGED <<alive, entry, bitmap, call>>
  BY DEF TypeOK, Transferred
<1>2. rw' \in [Process -> Slot \cup {NULL}] BY <1>1
<1>3. CASE f.table[rw[p]].fd_inode \notin Obj
  <2>1. f' = Fault(f, "file.c:218") BY <1>3 DEF Transferred
  <2>2. f' \in OpenFilesState /\ Faults(f, f', "file.c:218")
    BY <1>1, <2>1, FaultsEffect DEF Site
  <2>3. Cover(f', Maker, Releaser, Target) BY <1>1, <2>2, CoverFaults, CoverTypes DEF CoverInv
  <2>4. Inductive' BY <1>1, <1>2, <2>2, <2>3, InductiveKept
  <2> QED BY <1>1, <1>3, <2>2, <2>4
<1>4. CASE f.table[rw[p]].fd_inode \in Obj
  <2>1. f' = f BY <1>4 DEF Transferred
  <2>2. Cover(f', Maker, Releaser, Target) BY <2>1 DEF CoverInv
  <2>3. Inductive' BY <1>1, <1>2, <2>1, <2>2, InductiveKept
  <2> QED BY <1>1, <2>1, <2>3
<1> QED BY <1>3, <1>4

LEMMA CloseStep ==
    ASSUME Inductive, NEW p \in Process, NEW fd \in Fd, Close(p, fd)
    PROVE  Inductive' /\ f.fds[p][fd] \in Slot /\ Closes(f, f', p, fd)
<1> USE DEF Inductive
<1>1. /\ f \in OpenFilesState /\ f.fds[p][fd] # -1
      /\ alive \subseteq Process /\ rw \in [Process -> Slot \cup {NULL}]
      /\ f' = Settled(sys_close(f, p, fd))
      /\ UNCHANGED <<alive, entry, bitmap, call, rw>>
  BY DEF TypeOK, Close
<1>2. f' \in OpenFilesState /\ Closes(f, f', p, fd) /\ Cover(f', Maker, Releaser, Target)
  BY <1>1, ClosesEffect, CoverTypes DEF CoverInv
<1>3. Inductive' BY <1>1, <1>2, InductiveKept
<1>4. f.fds[p][fd] \in Slot BY <1>1, FieldTypes
<1> QED BY <1>2, <1>3, <1>4

LEMMA PipeStep ==
    ASSUME Inductive, NEW p \in Process, sys_pipe(p)
    PROVE  /\ Inductive'
           /\ \/ \E g \in Slot, page \in Page :
                   f.table[g].fd_inode = NULL /\ Pipes(f, f', p, g, page)
              \/ Faults(f, f', "pipe.c:17") \/ Faults(f, f', "pipe.c:19")
<1> USE DEF Inductive
<1>1. PICK g : g = Least(FreeSlots(f)) OBVIOUS
<1>2. PICK page : page = Least(f.pages) OBVIOUS
<1>3. /\ f \in OpenFilesState /\ f.fault = "none"
      /\ alive \subseteq Process /\ rw \in [Process -> Slot \cup {NULL}]
      /\ UNCHANGED <<alive, entry, bitmap, call, rw>>
  BY DEF TypeOK, sys_pipe, Ready
<1>4. Cover(f, Maker, Releaser, Target) /\ Maker \in Obj \cup {NULL} /\ Releaser \in Obj \cup {NULL}
  BY CoverTypes DEF CoverInv
<1>5. ASSUME NEW line \in {"pipe.c:17", "pipe.c:19"}, f' = Fault(f, line)
      PROVE  Inductive' /\ Faults(f, f', line)
  <2>1. f' \in OpenFilesState /\ Faults(f, f', line) BY <1>3, <1>5, FaultsEffect DEF Site
  <2>2. Cover(f', Maker, Releaser, Target) BY <1>3, <1>4, <2>1, CoverFaults
  <2> QED BY <1>3, <2>1, <2>2, InductiveKept
<1>6. CASE FreeSlots(f) = {}
  <2>1. f' = Fault(f, "pipe.c:17") BY <1>6 DEF sys_pipe
  <2> QED BY <1>5, <2>1
<1>7. CASE FreeSlots(f) # {} /\ f.pages = {}
  <2>1. f' = Fault(f, "pipe.c:19") BY <1>7 DEF sys_pipe
  <2> QED BY <1>5, <2>1
<1>8. CASE FreeSlots(f) # {} /\ f.pages # {}
  <2> DEFINE u == [f EXCEPT !.table[g] = [fd_inode |-> page, fd_pos |-> 2, fd_flag |-> "pipe"],
                            !.pages = @ \ {page},
                            !.hurt = Filled(f, g, page)]
  <2>1. f' = Settled(pcb_fd_install(pcb_fd_install(u, p, g), p, g))
    BY <1>1, <1>2, <1>8 DEF sys_pipe
  <2>2. g \in Slot /\ f.table[g].fd_inode = NULL /\ page \in Page
    BY <1>1, <1>2, <1>3, <1>8, FirstFree, FieldTypes
  <2>3. f' \in OpenFilesState /\ Pipes(f, f', p, g, page) /\ Cover(f', Maker, Releaser, Target)
    BY <1>3, <1>4, <2>1, <2>2, PipesEffect
  <2>4. Inductive' BY <1>3, <2>3, InductiveKept
  <2> QED BY <2>2, <2>3, <2>4
<1> QED BY <1>6, <1>7, <1>8

LEMMA ForkStep ==
    ASSUME Inductive, NEW p \in Process, NEW q \in Process, sys_fork(p, q)
    PROVE  Inductive' /\ \E done : Forks(f, f', done, p, q)
<1> USE DEF Inductive
<1>1. /\ f \in OpenFilesState
      /\ alive' \subseteq Process /\ rw' \in [Process -> Slot \cup {NULL}]
      /\ f' = Settled(update_inode_open_cnts([f EXCEPT !.fds[q] = f.fds[p]], q))
      /\ UNCHANGED <<entry, bitmap, call>>
  BY DEF TypeOK, sys_fork
<1>2. f' \in OpenFilesState /\ (\E done : Forks(f, f', done, p, q)) /\ Cover(f', Maker, Releaser, Target)
  BY <1>1, ForksEffect, CoverTypes DEF CoverInv
<1>3. Inductive' BY <1>1, <1>2, InductiveKept
<1> QED BY <1>2, <1>3

LEMMA ExitStep ==
    ASSUME Inductive, NEW p \in Process, sys_exit(p)
    PROVE  Inductive' /\ \E done : Exits(f, f', done, p)
<1> USE DEF Inductive
<1>1. /\ f \in OpenFilesState
      /\ alive' \subseteq Process /\ rw' \in [Process -> Slot \cup {NULL}]
      /\ f' = Settled(release_prog_resource(f, p))
      /\ UNCHANGED <<entry, bitmap, call>>
  BY DEF TypeOK, sys_exit
<1>2. f' \in OpenFilesState /\ (\E done : Exits(f, f', done, p)) /\ Cover(f', Maker, Releaser, Target)
  BY <1>1, ExitsEffect, CoverTypes DEF CoverInv
<1>3. Inductive' BY <1>1, <1>2, InductiveKept
<1> QED BY <1>2, <1>3

LEMMA InductiveInit == Init => Inductive
<1> SUFFICES ASSUME Init PROVE Inductive OBVIOUS
<1>0. NULL \notin Obj /\ Empty.fd_inode = NULL /\ Empty \in FileState
  BY Addresses DEF Empty, FileState
<1>1. /\ f.fds = [p \in Process |-> [fd \in Fd |-> -1]] /\ f.table = [g \in Slot |-> Empty]
      /\ f.inode = [o \in Obj |-> NULL] /\ f.open_inodes = <<>> /\ f.pages = Page
      /\ f.fault = "none" /\ f.hurt = {} /\ f.undenied = {} /\ f.removed = {}
      /\ call = NULL
  BY DEF Init
<1>2. f \in OpenFilesState
  <2>1. /\ [p \in Process |-> [fd \in Fd |-> -1]] \in [Process -> [Fd -> Slot \cup {-1}]]
        /\ [g \in Slot |-> Empty] \in [Slot -> FileState]
        /\ [o \in Obj |-> NULL] \in [Obj -> InodeState \cup {NULL}]
        /\ <<>> \in Seq(Obj)
    BY <1>0
  <2> QED BY <2>1 DEF Init, OpenFilesState
<1>3. TypeOK BY <1>2 DEF Init, TypeOK
<1>4. Cover(f, NULL, NULL, NULL)
  <2>1. Held(f) BY <1>0, <1>1 DEF Held
  <2>2. Counted(f, NULL, NULL) BY <1>1 DEF Counted
  <2>3. Listed(f, NULL)
    <3>1. Range(f.open_inodes) = {} BY <1>1 DEF Range
    <3> QED BY <1>1, <3>1 DEF Listed, Once
  <2> QED BY <2>1, <2>2, <2>3 DEF Cover, Pending
<1>5. CoverInv BY <1>1, <1>4 DEF CoverInv, Maker, Releaser, Target
<1> QED BY <1>3, <1>5 DEF Inductive

LEMMA InductiveNext == Inductive /\ [Next]_vars => Inductive'
<1> SUFFICES ASSUME Inductive, [Next]_vars PROVE Inductive' OBVIOUS
<1>1. CASE UNCHANGED vars
  BY <1>1 DEF Inductive, TypeOK, CoverInv, Maker, Releaser, Target, vars
<1>2. CASE \E p \in Process : Step(p)
  <2>1. PICK p \in Process : Step(p) BY <1>2
  <2>2. CASE \E n \in Name, flag \in {"r", "w"} :
               OpenCached(p, n, flag) \/ Open(p, n, flag) \/ Create(p, n, flag)
    BY <2>2, OpenCachedStep, OpenStep, CreateStep
  <2>3. CASE \E n \in Name : Unlink(p, n) BY <2>3, UnlinkStep
  <2>4. CASE \E fd \in Fd : Transfer(p, fd) \/ Close(p, fd) BY <2>4, TransferStep, CloseStep
  <2>5. CASE Transferred(p) \/ sys_pipe(p) \/ sys_exit(p)
    BY <2>5, TransferredStep, PipeStep, ExitStep
  <2>6. CASE \E q \in Process : sys_fork(p, q) BY <2>6, ForkStep
  <2> QED BY <2>1, <2>2, <2>3, <2>4, <2>5, <2>6 DEF Step
<1>3. CASE OpenRead BY <1>3, OpenReadStep
<1>4. CASE Created BY <1>4, CreatedStep
<1>5. CASE CreateFails BY <1>5, CreateFailsStep
<1>6. CASE UnlinkOpens BY <1>6, UnlinkOpensStep
<1>7. CASE Unlinked BY <1>7, UnlinkedStep
<1> QED BY <1>1, <1>2, <1>3, <1>4, <1>5, <1>6, <1>7 DEF Next

LEMMA InductiveAlways == Spec => []Inductive
  BY InductiveInit, InductiveNext, PTL DEF Spec

\* The state keeps its types: a descriptor leads to a slot or is free, a slot
\* holds an inode, a page or nothing, whatever the calls do in between.
THEOREM OpenFilesTyped == Spec => []TypeOK
<1>1. Inductive => TypeOK BY DEF Inductive
<1> QED BY <1>1, InductiveAlways, PTL

\* file_open(), file_close(), fork and exit never free an inode under a slot:
\* what a slot holds is in memory, the list has it once, and its count covers
\* all slots that hold it.
THEOREM OpenFilesCovered == Spec => []Covered
<1>1. ASSUME Inductive PROVE Covered
  <2>1. f \in OpenFilesState /\ Cover(f, Maker, Releaser, Target)
    BY <1>1 DEF Inductive, TypeOK, CoverInv
  <2>2. \A o \in Obj : (Making(o) <=> o = Maker) /\ (Releasing(o) <=> o = Releaser)
    BY Addresses DEF Making, Releasing, Maker, Releaser
  <2> SUFFICES ASSUME NEW o \in Obj
               PROVE  /\ Holding(f, o) # {} => Live(o)
                      /\ Live(o) /\ ~Making(o) =>
                           /\ Cardinality({j \in DOMAIN f.open_inodes : f.open_inodes[j] = o}) = 1
                           /\ f.inode[o].i_open_cnts >=
                                Cardinality(Holding(f, o)) + (IF Releasing(o) THEN 1 ELSE 0)
                      /\ o \in Range(f.open_inodes) => Live(o)
    BY DEF Covered
  <2>3. Holding(f, o) # {} => Live(o) BY <2>1 DEF Cover, Held, Holding, Live
  <2>4. ASSUME Live(o), ~Making(o)
        PROVE  /\ Cardinality({j \in DOMAIN f.open_inodes : f.open_inodes[j] = o}) = 1
               /\ f.inode[o].i_open_cnts >=
                    Cardinality(Holding(f, o)) + (IF Releasing(o) THEN 1 ELSE 0)
    <3>1. f.open_inodes \in Seq(Obj) /\ Once(f.open_inodes) /\ o \in Range(f.open_inodes)
      BY <2>1, <2>2, <2>4, FieldTypes DEF Cover, Listed, Live
    <3>2. Cardinality({j \in DOMAIN f.open_inodes : f.open_inodes[j] = o}) = 1
      BY <3>1, OnceCounted
    <3>3. f.inode[o].i_open_cnts >= Cardinality(Holding(f, o)) + (IF Releasing(o) THEN 1 ELSE 0)
      BY <2>1, <2>2, <2>4 DEF Cover, Counted, Live
    <3> QED BY <3>2, <3>3
  <2>5. o \in Range(f.open_inodes) => Live(o) BY <2>1 DEF Cover, Listed, Live
  <2> QED BY <2>3, <2>4, <2>5
<1> QED BY <1>1, InductiveAlways, PTL


----------------------------------------------------------------------------
(***************************************************************************)
(* OneWriter: an inode has one writer and write_deny, unless it is noted   *)
(* that nobody denies a second one.                                        *)
(***************************************************************************)
Writers(s, o) == {g \in Holding(s, o) \ s.hurt : s.table[g].fd_flag = "w"}

Guarded(s, o) ==
    o \notin s.undenied =>
      /\ \A g, h \in Writers(s, o) : g = h
      /\ Writers(s, o) # {} => s.inode[o].write_deny = TRUE

AllGuarded(s) == \A o \in Obj : Guarded(s, o)

\* As long as no writer is new, and write_deny stays where one is left.
LEMMA GuardedKept ==
    ASSUME NEW s, NEW t, NEW o, Guarded(s, o),
           Writers(t, o) \subseteq Writers(s, o),
           o \in s.undenied => o \in t.undenied \/ Writers(t, o) = {},
           Writers(t, o) # {} => t.inode[o].write_deny = s.inode[o].write_deny
    PROVE  Guarded(t, o)
  BY DEF Guarded

LEMMA GuardedInstalled ==
    ASSUME NEW s, NEW t, NEW p, NEW g, AllGuarded(s), Installed(s, t, p, g)
    PROVE  AllGuarded(t)
<1> SUFFICES ASSUME NEW o \in Obj PROVE Guarded(t, o) BY DEF AllGuarded
<1>1. Guarded(s, o) BY DEF AllGuarded
<1>2. Writers(t, o) \subseteq Writers(s, o) BY DEF Installed, Writers, Holding
<1>3. t.undenied = s.undenied /\ t.inode = s.inode BY DEF Installed, SameInodes
<1> QED BY <1>1, <1>2, <1>3, GuardedKept

LEMMA GuardedCleared ==
    ASSUME NEW s, NEW t, AllGuarded(s), Cleared(s, t)
    PROVE  AllGuarded(t)
<1> SUFFICES ASSUME NEW o \in Obj PROVE Guarded(t, o) BY DEF AllGuarded
<1>0. NULL \notin Obj /\ Empty.fd_inode = NULL BY Addresses DEF Empty
<1>1. Guarded(s, o) BY DEF AllGuarded
<1>2. Writers(t, o) \subseteq Writers(s, o)
  <2> SUFFICES ASSUME NEW g \in Writers(t, o) PROVE g \in Writers(s, o) OBVIOUS
  <2>1. g \in Slot /\ t.table[g].fd_inode = o /\ g \notin t.hurt /\ t.table[g].fd_flag = "w"
    BY DEF Writers, Holding
  <2>2. t.table[g] = s.table[g] BY <1>0, <2>1 DEF Cleared
  <2>3. g \notin s.hurt BY <1>0, <2>1, <2>2 DEF Cleared, Idle
  <2> QED BY <2>1, <2>2, <2>3 DEF Writers, Holding
<1>3. t.undenied = s.undenied /\ t.inode = s.inode BY DEF Cleared, SameInodes
<1> QED BY <1>1, <1>2, <1>3, GuardedKept

\* inode_open() changes no writer.
LEMMA GuardedOpened ==
    ASSUME NEW s \in OpenFilesState, NEW t, NEW w, Cover(s, NULL, NULL, w), NEW i, NEW o \in Obj,
           AllGuarded(s), InodeOpened(s, t, i, o)
    PROVE  AllGuarded(t)
<1> SUFFICES ASSUME NEW x \in Obj PROVE Guarded(t, x) BY DEF AllGuarded
<1>1. Guarded(s, x) BY DEF AllGuarded
<1>2. Writers(t, x) = Writers(s, x) /\ t.undenied = s.undenied
  BY DEF InodeOpened, Writers, Holding
<1>3. Writers(t, x) # {} => t.inode[x].write_deny = s.inode[x].write_deny
  <2>1. CASE x # o BY <2>1 DEF InodeOpened
  <2>2. CASE x = o /\ InodeShared(s, t, i, o) BY <2>2 DEF InodeShared
  <2>3. CASE x = o /\ s.inode[o] = NULL
    BY <1>2, <2>3 DEF Cover, Held, Writers, Holding
  <2> QED BY <2>1, <2>2, <2>3 DEF InodeOpened, InodeRead
<1> QED BY <1>1, <1>2, <1>3, GuardedKept

\* A slot that is filled gives up what it held.
LEMMA GuardedElsewhere ==
    ASSUME NEW s, NEW t, NEW g \in Slot, NEW o, AllGuarded(s),
           t.table[g].fd_inode = o, \A h \in Slot \ {g} : t.table[h] = s.table[h],
           \A h \in Slot \ {g} : h \in t.hurt <=> h \in s.hurt,
           NEW x \in Obj \ {o}, t.inode[x] = s.inode[x], x \in s.undenied => x \in t.undenied
    PROVE  Guarded(t, x)
<1>1. Writers(t, x) \subseteq Writers(s, x) BY DEF Writers, Holding
<1>2. Guarded(s, x) BY DEF AllGuarded
<1> QED BY <1>1, <1>2, GuardedKept

\* file_open(): the second writer is refused.
LEMMA GuardedOpens ==
    ASSUME NEW s \in OpenFilesState, NEW x \in OpenFilesState, NEW w, Cover(s, NULL, NULL, w),
           AllGuarded(s), NEW i, NEW o \in Obj, NEW p, NEW g \in Slot, NEW flag \in {"r", "w"},
           Opens(s, x, p, g, i, o, flag)
    PROVE  AllGuarded(x)
<1>1. PICK r \in OpenFilesState, u \in OpenFilesState, v \in OpenFilesState, t \in OpenFilesState :
        OpenedFrom(s, r, u, v, t, p, g, i, o, flag) /\ Cleared(t, x)
  BY DEF Opens
<1>2. InodeOpened(s, r, i, o) /\ SlotFilled(r, u, g, o, 0, flag) BY <1>1 DEF OpenedFrom
<1>3. AllGuarded(r) BY <1>2, GuardedOpened
<1>4. /\ u.inode = r.inode /\ u.undenied = r.undenied
      /\ u.table[g].fd_inode = o /\ u.table[g].fd_flag = flag
      /\ \A h \in Slot \ {g} : u.table[h] = r.table[h]
  BY <1>2 DEF SlotFilled, SameInodes
<1>5. Slot \cap Obj = {} BY Addresses
<1>6. \A h \in Slot \ {g} : h \in u.hurt <=> h \in r.hurt
  BY <1>2, <1>5 DEF SlotFilled, Filled
<1>7. \A y \in Obj \ {o} : Guarded(u, y) BY <1>3, <1>4, <1>6, GuardedElsewhere
<1>8. Guarded(r, o) BY <1>3 DEF AllGuarded
<1>9. \A h \in Writers(u, o) : h # g => h \in Writers(r, o)
  BY <1>4, <1>6 DEF Writers, Holding
<1>10. AllGuarded(t)
  <2>1. CASE flag = "r" /\ Installed(u, t, p, g)
    <3>1. Writers(u, o) \subseteq Writers(r, o) BY <1>4, <1>9, <2>1 DEF Writers
    <3>2. Guarded(u, o) BY <1>4, <1>8, <3>1, GuardedKept
    <3>3. AllGuarded(u) BY <1>7, <3>2 DEF AllGuarded
    <3> QED BY <2>1, <3>3, GuardedInstalled
  <2>2. CASE Refused(u, t, g, o)
    <3>1. /\ t.table = u.table /\ t.inode = u.inode /\ t.undenied = u.undenied
          /\ t.hurt = u.hurt \cup {g, o}
      BY <2>2 DEF Refused, SameInodes
    <3>2. \A y \in Obj : Writers(t, y) \subseteq Writers(u, y) BY <3>1 DEF Writers, Holding
    <3>3. \A y \in Obj \ {o} : Guarded(t, y) BY <1>7, <3>1, <3>2, GuardedKept
    <3>4. Writers(t, o) \subseteq Writers(r, o) BY <1>9, <3>1, <3>2 DEF Writers
    <3>5. Guarded(t, o) BY <1>4, <1>8, <3>1, <3>4, GuardedKept
    <3> QED BY <3>3, <3>5 DEF AllGuarded
  <2>3. CASE r.inode[o].write_deny = FALSE /\ Denied(u, v, o) /\ Installed(v, t, p, g)
    <3>1. /\ v.table = u.table /\ v.hurt = u.hurt /\ v.undenied = u.undenied
          /\ \A y \in Obj \ {o} : v.inode[y] = u.inode[y]
          /\ v.inode[o].write_deny = TRUE
      BY <2>3 DEF Denied
    <3>2. \A y \in Obj : Writers(v, y) = Writers(u, y) BY <3>1 DEF Writers, Holding
    <3>3. \A y \in Obj \ {o} : Guarded(v, y) BY <1>7, <3>1, <3>2, GuardedKept
    <3>4. o \notin r.undenied => Writers(r, o) = {} BY <1>8, <2>3 DEF Guarded
    <3>5. Guarded(v, o) BY <1>4, <1>9, <3>1, <3>2, <3>4 DEF Guarded
    <3>6. AllGuarded(v) BY <3>3, <3>5 DEF AllGuarded
    <3> QED BY <2>3, <3>6, GuardedInstalled
  <2> QED BY <1>1, <2>1, <2>2, <2>3 DEF OpenedFrom
<1> QED BY <1>1, <1>10, GuardedCleared

\* file_create() sets no write_deny: a writer it makes is noted.
LEMMA GuardedMade ==
    ASSUME NEW s \in OpenFilesState, NEW t, NEW w, Cover(s, NULL, NULL, w), AllGuarded(s),
           NEW g \in Slot, NEW o \in Obj, NEW i, NEW flag \in {"r", "w"}, s.inode[o] = NULL,
           Made(s, t, g, o, i, flag)
    PROVE  AllGuarded(t)
<1>1. /\ t.table[g].fd_inode = o /\ t.table[g].fd_flag = flag
      /\ \A h \in Slot \ {g} : t.table[h] = s.table[h]
      /\ \A x \in Obj \ {o} : t.inode[x] = s.inode[x]
      /\ t.undenied = IF flag = "w" THEN s.undenied \cup {o} ELSE s.undenied
  BY DEF Made
<1>2. Slot \cap Obj = {} BY Addresses
<1>3. \A h \in Slot \ {g} : h \in t.hurt <=> h \in s.hurt
  <2>1. t.hurt = Filled(s, g, o) BY DEF Made
  <2> QED BY <1>2, <2>1 DEF Filled
<1>4. ASSUME NEW x \in Obj \ {o} PROVE Guarded(t, x)
  <2>1. t.inode[x] = s.inode[x] /\ (x \in s.undenied => x \in t.undenied) BY <1>1
  <2> QED BY <1>1, <1>3, <2>1, GuardedElsewhere
<1>5. Guarded(t, o)
  <2>1. \A h \in Slot : s.table[h].fd_inode # o BY DEF Cover, Held
  <2>2. flag = "r" => Writers(t, o) = {} BY <1>1, <2>1 DEF Writers, Holding
  <2> QED BY <1>1, <2>2 DEF Guarded
<1> QED BY <1>4, <1>5 DEF AllGuarded

LEMMA GuardedLinks ==
    ASSUME NEW s, NEW x, AllGuarded(s), NEW p, NEW g, NEW o \in Obj, Links(s, x, p, g, o)
    PROVE  AllGuarded(x)
<1>1. PICK u \in OpenFilesState, t \in OpenFilesState :
        Linked(s, u, o) /\ Installed(u, t, p, g) /\ Cleared(t, x)
  BY DEF Links
<1>2. AllGuarded(u)
  <2> SUFFICES ASSUME NEW y \in Obj PROVE Guarded(u, y) BY DEF AllGuarded
  <2>1. /\ Writers(u, y) = Writers(s, y) /\ u.undenied = s.undenied
        /\ u.inode[y].write_deny = s.inode[y].write_deny
    BY <1>1 DEF Linked, Writers, Holding
  <2>2. Guarded(s, y) BY DEF AllGuarded
  <2> QED BY <2>1, <2>2, GuardedKept
<1> QED BY <1>1, <1>2, GuardedInstalled, GuardedCleared

LEMMA GuardedUnmakes ==
    ASSUME NEW s \in OpenFilesState, NEW x, AllGuarded(s), NEW g \in Slot, NEW o \in Obj,
           Cover(s, o, NULL, g), Unmakes(s, x, g, o)
    PROVE  AllGuarded(x)
<1>1. PICK t \in OpenFilesState : Unmade(s, t, g, o) /\ Cleared(t, x) BY DEF Unmakes
<1>2. NULL \notin Obj /\ Empty.fd_inode = NULL /\ Slot \cap Obj = {} BY Addresses DEF Empty
<1>3. Holding(s, o) \subseteq {g} BY <1>2 DEF Cover, Pending
<1>4. /\ t.table[g].fd_inode = NULL /\ \A h \in Slot \ {g} : t.table[h] = s.table[h]
      /\ \A y \in Obj \ {o} : t.inode[y] = s.inode[y]
      /\ t.hurt = s.hurt \ {o} /\ t.undenied = s.undenied \ {o}
  BY <1>1, <1>2 DEF Unmade
<1>5. AllGuarded(t)
  <2> SUFFICES ASSUME NEW y \in Obj PROVE Guarded(t, y) BY DEF AllGuarded
  <2>1. CASE y = o
    <3>1. Writers(t, y) = {} BY <1>2, <1>3, <1>4, <2>1 DEF Writers, Holding
    <3> QED BY <3>1 DEF Guarded
  <2>2. CASE y # o
    <3>1. Writers(t, y) \subseteq Writers(s, y) BY <1>2, <1>4 DEF Writers, Holding
    <3>2. Guarded(s, y) BY DEF AllGuarded
    <3> QED BY <1>4, <2>2, <3>1, <3>2, GuardedKept
  <2> QED BY <2>1, <2>2
<1> QED BY <1>1, <1>5, GuardedCleared

LEMMA GuardedForgets ==
    ASSUME NEW s \in OpenFilesState, NEW x, AllGuarded(s), NEW i, NEW o \in Obj, NEW w,
           Cover(s, NULL, o, w), NEW y \in OpenFilesState,
           Forgets(s, x, i, o)
    PROVE  AllGuarded(x)
<1>1. PICK u \in OpenFilesState, t \in OpenFilesState :
        /\ Gone(s, u, i) /\ InodeClosed(u, t, o) /\ t.fds = s.fds /\ t.table = s.table
        /\ t.inode[o] # NULL => t.inode[o].write_deny = s.inode[o].write_deny
        /\ Cleared(t, x)
  BY DEF Forgets
<1>2. Slot \cap Obj = {} /\ s.inode[o] # NULL BY Addresses DEF Cover, Pending
<1>3. u.inode = s.inode /\ u.hurt = s.hurt /\ u.undenied = s.undenied /\ u.open_inodes = s.open_inodes
  BY <1>1 DEF Gone
<1>4. /\ \A k \in Obj \ {o} : t.inode[k] = s.inode[k]
      /\ \A h \in Slot : h \in t.hurt <=> h \in s.hurt
      /\ \A k \in Obj \ {o} : k \in t.undenied <=> k \in s.undenied
      /\ t.inode[o] # NULL => t.undenied = s.undenied
  BY <1>1, <1>2, <1>3 DEF InodeClosed, InodeDropped, InodeAstray, InodeFreed
<1>5. \A k \in Obj : Writers(t, k) = Writers(s, k) BY <1>1, <1>4 DEF Writers, Holding
<1>6. AllGuarded(t)
  <2> SUFFICES ASSUME NEW k \in Obj PROVE Guarded(t, k) BY DEF AllGuarded
  <2>1. Guarded(s, k) BY DEF AllGuarded
  <2>2. CASE k # o \/ t.inode[o] # NULL BY <1>1, <1>4, <1>5, <2>1, <2>2, GuardedKept
  <2>3. CASE k = o /\ t.inode[o] = NULL
    <3>1. Holding(t, o) = {}
      <4>1. InodeFreed(u, t, o)
        BY <1>1, <2>3 DEF InodeClosed, InodeDropped, InodeAstray
      <4>2. s.inode[o].i_open_cnts = 1 BY <1>3, <4>1 DEF InodeFreed
      <4>3. s.inode[o].i_open_cnts >= Cardinality(Holding(s, o)) + 1
        BY <1>2, Addresses DEF Cover, Counted
      <4>4. Cardinality(Holding(s, o)) = 0 BY <4>2, <4>3, HoldingFinite
      <4>5. Holding(s, o) = {} BY <4>4, HoldingFinite, FS_EmptySet
      <4> QED BY <1>1, <4>5 DEF Holding
    <3>2. Writers(t, o) = {} BY <3>1 DEF Writers
    <3> QED BY <2>3, <3>2 DEF Guarded
  <2> QED BY <2>2, <2>3
<1> QED BY <1>1, <1>6, GuardedCleared

\* file_close() clears write_deny: a writer that is left is noted.
LEMMA GuardedClosed ==
    ASSUME NEW s \in OpenFilesState, NEW t \in OpenFilesState,
           NEW m \in Obj \cup {NULL}, NEW r \in Obj \cup {NULL}, NEW w, Cover(s, m, r, w),
           AllGuarded(s), NEW p \in Process, NEW fd \in Fd, s.fds[p][fd] # -1,
           DescriptorClosed(s, t, p, fd)
    PROVE  AllGuarded(t)
<1>1. PICK g \in Slot : g = s.fds[p][fd] BY FieldTypes
<1>2. PICK o \in Obj \cup Page \cup {NULL} : o = s.table[g].fd_inode BY SlotTypes
<1>3. PICK d : d = <<p, fd>> OBVIOUS
<1>4. PICK u : u = Noted(s, d, g) OBVIOUS
<1>5. /\ u.inode = s.inode /\ u.hurt = NotedHurt(s, d, g) /\ u.undenied = NotedUndenied(s, g)
  BY <1>4, NotedEffect
<1>6. SlotClosed(s, t, g) /\ InodesAfterClose(u, t, o)
  BY <1>1, <1>2, <1>3, <1>4 DEF DescriptorClosed
<1>7. NULL \notin Obj /\ Obj \cap Page = {} /\ Slot \cap Obj = {} BY Addresses
<1>8. /\ \A h \in Slot : h \in s.hurt => h \in u.hurt
      /\ \A k \in Obj : k \in s.undenied => k \in u.undenied
      /\ o \in Obj /\ o \notin u.undenied =>
           \A h \in Holding(s, o) \ {g} : s.table[h].fd_flag # "w"
  BY <1>2, <1>5 DEF NotedHurt, NotedUndenied
<1>9. /\ t.table[g].fd_inode = NULL /\ \A h \in Slot \ {g} : t.table[h] = s.table[h]
  BY <1>6 DEF SlotClosed
<1>10. /\ \A h \in Slot : h \in u.hurt => h \in t.hurt
       /\ \A k \in Obj \ {o} : t.inode[k] = s.inode[k] /\ (k \in u.undenied => k \in t.undenied)
       /\ o \in Obj => (t.inode[o] # NULL => t.undenied = u.undenied)
  <2>1. CASE o \notin Obj BY <1>2, <1>5, <1>6, <1>7, <2>1 DEF InodesAfterClose, SameInodes
  <2>2. CASE o \in Obj
    <3>1. InodeClosed(u, t, o) BY <1>6, <2>2 DEF InodesAfterClose
    <3> QED BY <1>5, <1>7, <2>2, <3>1 DEF InodeClosed, InodeDropped, InodeAstray, InodeFreed
  <2> QED BY <2>1, <2>2
<1>11. \A k \in Obj : Writers(t, k) \subseteq Writers(s, k)
  BY <1>7, <1>8, <1>9, <1>10 DEF Writers, Holding
<1> SUFFICES ASSUME NEW k \in Obj PROVE Guarded(t, k) BY DEF AllGuarded
<1>12. Guarded(s, k) BY DEF AllGuarded
<1>13. CASE k # o BY <1>8, <1>10, <1>11, <1>12, <1>13, GuardedKept
<1>14. CASE k = o /\ t.inode[o] # NULL
  <2>1. k \notin t.undenied => Writers(t, k) = {}
    BY <1>7, <1>8, <1>9, <1>10, <1>14 DEF Writers, Holding
  <2> QED BY <2>1 DEF Guarded
<1>15. CASE k = o /\ t.inode[o] = NULL
  <2>1. Cover(t, m, r, w) BY CoverDescriptorClosed
  <2>2. Writers(t, k) = {} BY <1>15, <2>1 DEF Cover, Held, Writers, Holding
  <2> QED BY <2>2 DEF Guarded
<1> QED BY <1>13, <1>14, <1>15

LEMMA GuardedReleases ==
    ASSUME NEW s \in OpenFilesState, NEW t \in OpenFilesState,
           NEW m \in Obj \cup {NULL}, NEW r \in Obj \cup {NULL}, NEW w, Cover(s, m, r, w),
           AllGuarded(s), NEW p \in Process, NEW fd \in Fd, Releases(s, t, p, fd)
    PROVE  AllGuarded(t)
<1>1. PICK g \in Slot \cup {-1} : g = s.fds[p][fd] BY FieldTypes
<1>2. CASE g = -1 BY <1>1, <1>2 DEF Releases
<1>3. CASE g # -1 /\ s.table[g].fd_flag # "pipe"
  <2>1. s.fds[p][fd] # -1 /\ DescriptorClosed(s, t, p, fd) BY <1>1, <1>3 DEF Releases
  <2> QED BY <2>1, GuardedClosed
<1>4. CASE g # -1 /\ s.table[g].fd_flag = "pipe"
  <2>1. /\ t.inode = s.inode /\ t.undenied = s.undenied /\ t.hurt = s.hurt
        /\ t.table[g].fd_flag = "pipe"
        /\ \A h \in Slot \ {g} : t.table[h] = s.table[h]
    BY <1>1, <1>4 DEF Releases, PipeLeft, SameInodes
  <2> SUFFICES ASSUME NEW k \in Obj PROVE Guarded(t, k) BY DEF AllGuarded
  <2>2. Writers(t, k) \subseteq Writers(s, k) BY <2>1 DEF Writers, Holding
  <2>3. Guarded(s, k) BY DEF AllGuarded
  <2> QED BY <2>1, <2>2, <2>3, GuardedKept
<1> QED BY <1>2, <1>3, <1>4

LEMMA GuardedCounts ==
    ASSUME NEW s \in OpenFilesState, NEW t \in OpenFilesState, AllGuarded(s),
           NEW q \in Process, NEW fd \in Fd, Counts(s, t, q, fd)
    PROVE  AllGuarded(t)
<1>1. PICK g \in Slot \cup {-1} : g = s.fds[q][fd] BY FieldTypes
<1>2. PICK o : o = s.table[g].fd_inode OBVIOUS
<1>3. t.hurt = s.hurt /\ t.undenied = s.undenied BY DEF Counts
<1>4. /\ \A h \in Slot : t.table[h] = s.table[h] \/ t.table[h].fd_flag = "pipe"
      /\ \A k \in Obj : t.inode[k].write_deny = s.inode[k].write_deny
  <2>1. CASE g = -1 BY <1>1, <2>1 DEF Counts
  <2>2. CASE g # -1 /\ s.table[g].fd_flag = "pipe" BY <1>1, <2>2 DEF Counts
  <2>3. CASE g # -1 /\ s.table[g].fd_flag # "pipe" /\ o \in Obj BY <1>1, <1>2, <2>3 DEF Counts
  <2>4. CASE g # -1 /\ s.table[g].fd_flag # "pipe" /\ o \notin Obj BY <1>1, <1>2, <2>4 DEF Counts
  <2> QED BY <2>1, <2>2, <2>3, <2>4
<1> SUFFICES ASSUME NEW k \in Obj PROVE Guarded(t, k) BY DEF AllGuarded
<1>5. Writers(t, k) \subseteq Writers(s, k) BY <1>3, <1>4 DEF Writers, Holding
<1>6. Guarded(s, k) BY DEF AllGuarded
<1> QED BY <1>3, <1>4, <1>5, <1>6, GuardedKept

WriterInv == AllGuarded(f)

LEMMA WriterForks ==
    ASSUME NEW s \in OpenFilesState, NEW x, AllGuarded(s), NEW done, NEW p \in Process, NEW q \in Process,
           Forks(s, x, done, p, q)
    PROVE  AllGuarded(x)
<1>0. MAX_FDS \in Nat /\ Fd = 1..MAX_FDS BY Addresses DEF Fd
<1>1. /\ \A i \in 0..MAX_FDS : done[i] \in OpenFilesState
      /\ Copied(s, done[0], p, q) /\ Cleared(done[MAX_FDS], x)
      /\ \A i \in 1..MAX_FDS : Counts(done[i - 1], done[i], q, i)
  BY DEF Forks
<1> DEFINE S == {i \in 0..MAX_FDS : AllGuarded(done[i])}
<1>2. 0 \in S
  <2>1. AllGuarded(done[0])
    BY <1>1 DEF Copied, SameInodes, AllGuarded, Guarded, Writers, Holding
  <2> QED BY <1>0, <2>1
<1>3. ASSUME NEW i \in 1..MAX_FDS, i - 1 \in S PROVE i \in S
  <2>1. i - 1 \in 0..MAX_FDS /\ i \in 0..MAX_FDS /\ i \in Fd BY <1>0
  <2>2. done[i - 1] \in OpenFilesState /\ done[i] \in OpenFilesState /\ AllGuarded(done[i - 1])
    BY <1>1, <1>3, <2>1
  <2>3. Counts(done[i - 1], done[i], q, i) BY <1>1
  <2>4. AllGuarded(done[i]) BY <2>1, <2>2, <2>3, GuardedCounts
  <2> QED BY <2>1, <2>4
<1>4. MAX_FDS \in S
  <2> HIDE DEF S
  <2> QED BY <1>0, <1>2, <1>3, Passes
<1> QED BY <1>1, <1>4, GuardedCleared

LEMMA WriterExits ==
    ASSUME NEW s \in OpenFilesState, NEW x, AllGuarded(s), NEW done, NEW p \in Process,
           NEW m \in Obj \cup {NULL}, NEW r \in Obj \cup {NULL}, NEW w, Cover(s, m, r, w),
           Exits(s, x, done, p)
    PROVE  AllGuarded(x)
<1>0. MAX_FDS \in Nat /\ Fd = 1..MAX_FDS BY Addresses DEF Fd
<1>1. /\ \A i \in 0..MAX_FDS : done[i] \in OpenFilesState
      /\ done[0] = s /\ Cleared(done[MAX_FDS], x)
      /\ \A i \in 1..MAX_FDS : Releases(done[i - 1], done[i], p, i)
  BY DEF Exits
<1> DEFINE S == {i \in 0..MAX_FDS : AllGuarded(done[i]) /\ Cover(done[i], m, r, w)}
<1>2. 0 \in S BY <1>0, <1>1
<1>3. ASSUME NEW i \in 1..MAX_FDS, i - 1 \in S PROVE i \in S
  <2>1. i - 1 \in 0..MAX_FDS /\ i \in 0..MAX_FDS /\ i \in Fd BY <1>0
  <2>2. /\ done[i - 1] \in OpenFilesState /\ done[i] \in OpenFilesState
        /\ AllGuarded(done[i - 1]) /\ Cover(done[i - 1], m, r, w)
    BY <1>1, <1>3, <2>1
  <2>3. Releases(done[i - 1], done[i], p, i) BY <1>1
  <2>4. AllGuarded(done[i]) BY <2>1, <2>2, <2>3, GuardedReleases
  <2>5. Cover(done[i], m, r, w) BY <2>1, <2>2, <2>3, CoverReleases
  <2> QED BY <2>1, <2>4, <2>5
<1>4. MAX_FDS \in S
  <2> HIDE DEF S
  <2> QED BY <1>0, <1>2, <1>3, Passes
<1> QED BY <1>1, <1>4, GuardedCleared

LEMMA WriterFaults ==
    ASSUME NEW s, NEW t, AllGuarded(s), NEW line, Faults(s, t, line)
    PROVE  AllGuarded(t)
  BY DEF Faults, SameInodes, AllGuarded, Guarded, Writers, Holding

LEMMA WriterNext == Inductive /\ WriterInv /\ [Next]_vars => WriterInv'
<1> SUFFICES ASSUME Inductive, WriterInv, [Next]_vars PROVE AllGuarded(f')
  BY DEF WriterInv
<1> USE DEF WriterInv
<1>0. /\ f \in OpenFilesState /\ Cover(f, Maker, Releaser, Target)
      /\ Maker \in Obj \cup {NULL} /\ Releaser \in Obj \cup {NULL}
  BY CoverTypes DEF Inductive, CoverInv
<1>00. Inductive' => f' \in OpenFilesState BY DEF Inductive, TypeOK
<1>1. CASE UNCHANGED vars BY <1>1 DEF vars
<1>2. ASSUME NEW p \in Process, NEW n \in Name, NEW flag \in {"r", "w"}, OpenCached(p, n, flag)
      PROVE  AllGuarded(f')
  <2>1. PICK g \in Slot, o \in Obj : Opens(f, f', p, g, entry[n], o, flag)
    BY <1>2, OpenCachedStep
  <2>2. call = NULL BY <1>2 DEF OpenCached, ReadyForDisk
  <2>3. Cover(f, NULL, NULL, Target) BY <1>0, <2>2 DEF Maker, Releaser
  <2>4. f' \in OpenFilesState BY <1>2, <1>00, OpenCachedStep
  <2> QED BY <1>0, <2>1, <2>3, <2>4, GuardedOpens
<1>3. ASSUME NEW p \in Process, NEW n \in Name, NEW flag \in {"r", "w"}, Open(p, n, flag)
      PROVE  AllGuarded(f')
  BY <1>3, OpenStep
<1>4. ASSUME NEW p \in Process, NEW n \in Name, NEW flag \in {"r", "w"}, Create(p, n, flag)
      PROVE  AllGuarded(f')
  <2>1. PICK g \in Slot, o \in Obj, i \in Ino \ bitmap :
          f.inode[o] = NULL /\ Made(f, f', g, o, i, flag)
    BY <1>4, CreateStep
  <2>2. call = NULL BY <1>4 DEF Create, ReadyForDisk
  <2>3. Cover(f, NULL, NULL, Target) BY <1>0, <2>2 DEF Maker, Releaser
  <2> QED BY <1>0, <2>1, <2>3, GuardedMade
<1>5. ASSUME NEW p \in Process, NEW n \in Name, Unlink(p, n) PROVE AllGuarded(f')
  BY <1>5, UnlinkStep
<1>6. ASSUME NEW p \in Process, NEW fd \in Fd, Transfer(p, fd) PROVE AllGuarded(f')
  BY <1>6, TransferStep, WriterFaults
<1>7. ASSUME NEW p \in Process, NEW fd \in Fd, Close(p, fd) PROVE AllGuarded(f')
  <2>1. Closes(f, f', p, fd) /\ f.fds[p][fd] # -1 BY <1>7, CloseStep DEF Close
  <2>2. PICK t \in OpenFilesState : DescriptorClosed(f, t, p, fd) /\ Cleared(t, f')
    BY <2>1 DEF Closes
  <2>3. AllGuarded(t) BY <1>0, <2>1, <2>2, GuardedClosed
  <2> QED BY <2>2, <2>3, GuardedCleared
<1>8. ASSUME NEW p \in Process, Transferred(p) PROVE AllGuarded(f')
  BY <1>8, TransferredStep, WriterFaults
<1>9. ASSUME NEW p \in Process, sys_pipe(p) PROVE AllGuarded(f')
  <2>1. CASE Faults(f, f', "pipe.c:17") \/ Faults(f, f', "pipe.c:19") BY <2>1, WriterFaults
  <2>2. ASSUME NEW g \in Slot, NEW page \in Page, Pipes(f, f', p, g, page) PROVE AllGuarded(f')
    <3>1. PICK u \in OpenFilesState, v \in OpenFilesState, t \in OpenFilesState :
            /\ SlotFilled(f, u, g, page, 2, "pipe")
            /\ Installed(u, v, p, g) /\ Installed(v, t, p, g) /\ Cleared(t, f')
      BY <2>2 DEF Pipes
    <3>2. AllGuarded(u)
      <4>1. /\ u.inode = f.inode /\ u.undenied = f.undenied /\ u.hurt = Filled(f, g, page)
            /\ u.table[g].fd_inode = page /\ \A h \in Slot \ {g} : u.table[h] = f.table[h]
        BY <3>1 DEF SlotFilled, SameInodes
      <4>2. Obj \cap Page = {} /\ Slot \cap Page = {} BY Addresses
      <4>3. \A h \in Slot \ {g} : h \in u.hurt <=> h \in f.hurt BY <4>1, <4>2 DEF Filled
      <4>4. \A y \in Obj : y \in Obj \ {page} BY <4>2
      <4> QED BY <4>1, <4>3, <4>4, GuardedElsewhere DEF AllGuarded
    <3> QED BY <3>1, <3>2, GuardedInstalled, GuardedCleared
  <2> QED BY <1>9, <2>1, <2>2, PipeStep
<1>10. ASSUME NEW p \in Process, NEW q \in Process, sys_fork(p, q) PROVE AllGuarded(f')
  <2>1. PICK done : Forks(f, f', done, p, q) BY <1>10, ForkStep
  <2> QED BY <1>0, <2>1, WriterForks
<1>11. ASSUME NEW p \in Process, sys_exit(p) PROVE AllGuarded(f')
  <2>1. PICK done : Exits(f, f', done, p) BY <1>11, ExitStep
  <2> QED BY <1>0, <2>1, WriterExits
<1>12. CASE OpenRead
  <2>1. PICK o \in Obj : Opens(f, f', call.p, call.slot, call.ino, o, call.flag)
    BY <1>12, OpenReadStep
  <2>2. call # NULL /\ call.op = "open" /\ call.slot \in Slot /\ call.flag \in {"r", "w"}
    BY <1>12, CallTypes DEF OpenRead, Continues, Inductive
  <2>3. Cover(f, NULL, NULL, Target) BY <1>0, <2>2, CoverTypes DEF Inductive
  <2>4. f' \in OpenFilesState BY <1>12, <1>00, OpenReadStep
  <2> QED BY <1>0, <2>1, <2>2, <2>3, <2>4, GuardedOpens
<1>13. CASE Created
  <2>1. Links(f, f', call.p, call.slot, call.obj) BY <1>13, CreatedStep
  <2>2. call.obj \in Obj BY <1>13, CreateCall DEF Created
  <2> QED BY <1>0, <2>1, <2>2, GuardedLinks
<1>14. CASE CreateFails
  <2>1. Unmakes(f, f', call.slot, call.obj) BY <1>14, CreateFailsStep
  <2>2. call.obj \in Obj /\ call.slot \in Slot /\ Cover(f, call.obj, NULL, call.slot)
    BY <1>14, CreateCall DEF CreateFails
  <2> QED BY <1>0, <2>1, <2>2, GuardedUnmakes
<1>15. CASE UnlinkOpens
  <2>1. PICK o \in Obj : InodeOpened(f, f', call.ino, o) BY <1>15, UnlinkOpensStep
  <2>2. call # NULL /\ call.op = "unlink" /\ call.obj = NULL BY <1>15 DEF UnlinkOpens, Continues
  <2>3. Cover(f, NULL, NULL, Target) BY <1>0, <2>2, CoverTypes DEF Inductive
  <2> QED BY <1>0, <2>1, <2>3, GuardedOpened
<1>16. CASE Unlinked
  <2>1. call # NULL /\ call.op = "unlink" /\ call.obj \in Obj /\ Forgets(f, f', call.ino, call.obj)
    BY <1>16, UnlinkedStep
  <2>2. Cover(f, NULL, call.obj, Target) BY <1>0, <2>1, CoverTypes DEF Inductive
  <2> QED BY <1>0, <2>1, <2>2, GuardedForgets
<1>17. CASE \E p \in Process : Step(p)
  BY <1>17, <1>2, <1>3, <1>4, <1>5, <1>6, <1>7, <1>8, <1>9, <1>10, <1>11 DEF Step
<1> QED BY <1>1, <1>12, <1>13, <1>14, <1>15, <1>16, <1>17 DEF Next

\* file_open() refuses a second writer of a file: two slots that are open for
\* writing hold the same inode only if it is noted why nothing denied it, that
\* file_create() made the first or file_close() of another one cleared the flag.
THEOREM OpenFilesOneWriter == Spec => []OneWriter
<1>1. Init => WriterInv
  <2> SUFFICES ASSUME Init PROVE AllGuarded(f) BY DEF WriterInv
  <2>1. f.table = [g \in Slot |-> Empty] BY DEF Init
  <2>2. NULL \notin Obj /\ Empty.fd_inode = NULL BY Addresses DEF Empty
  <2>3. \A o \in Obj : Writers(f, o) = {} BY <2>1, <2>2 DEF Writers, Holding
  <2> QED BY <2>3 DEF AllGuarded, Guarded
<1>2. WriterInv => OneWriter
  <2> SUFFICES ASSUME WriterInv, NEW o \in Obj, o \notin f.undenied
               PROVE  ~(Cardinality({g \in Holding(f, o) \ f.hurt : f.table[g].fd_flag = "w"}) > 1)
    BY DEF OneWriter
  <2>1. \A g, h \in Writers(f, o) : g = h BY DEF WriterInv, AllGuarded, Guarded
  <2>2. CASE Writers(f, o) = {} BY <2>2, FS_EmptySet DEF Writers
  <2>3. CASE Writers(f, o) # {}
    <3>1. PICK g : Writers(f, o) = {g} BY <2>1, <2>3
    <3>2. Cardinality(Writers(f, o)) = 1 BY <3>1, FS_Singleton
    <3> QED BY <3>2 DEF Writers
  <2> QED BY <2>2, <2>3
<1> QED BY <1>1, <1>2, WriterNext, InductiveAlways, PTL DEF Spec


----------------------------------------------------------------------------
(***************************************************************************)
(* Accounted and NoFault: outside what was hurt, the counts are exact.     *)
(* The descriptors are D, which in the middle of a fork are those that are *)
(* counted already; m and w are the inode and the slot that a              *)
(* file_create() makes, r the inode that has one more user than its slots  *)
(* show, v a slot that k more descriptors will lead to.                    *)
(***************************************************************************)
Ends == Process \X Fd
At(D, d) == D[d[1]][d[2]]
Lead(D, g) == {d \in Ends : At(D, d) = g}
Users(s, D, o) == {d \in Ends : At(D, d) \in Holding(s, o)}
Used(D) == {d \in Ends : At(D, d) # -1}

SlotRight(s, D, w, v, k, g) ==
    /\ (s.table[g].fd_inode # NULL) <=> (Lead(D, g) # {} \/ g = w \/ g = v)
    /\ s.table[g].fd_inode \in Page =>
         s.table[g].fd_pos = Cardinality(Lead(D, g)) + (IF g = v THEN k ELSE 0)

CountRight(s, D, m, r, o) ==
    s.inode[o] # NULL /\ o # m =>
      s.inode[o].i_open_cnts = Cardinality(Users(s, D, o)) + (IF o = r THEN 1 ELSE 0)

SlotsRight(s, D, w, v, k) == \A g \in Slot \ s.hurt : SlotRight(s, D, w, v, k, g)
CountsRight(s, D, m, r) == \A o \in Obj \ s.hurt : CountRight(s, D, m, r, o)

HurtClosed(s) ==
    \A g \in Slot : g \in s.hurt /\ s.table[g].fd_inode \in Obj => s.table[g].fd_inode \in s.hurt

FlagsRight(s) ==
    \A g \in Slot : /\ s.table[g].fd_inode \in Page => s.table[g].fd_flag = "pipe"
                    /\ s.table[g].fd_inode \in Obj => s.table[g].fd_flag # "pipe"

MakerRight(s, D, m, w) ==
    w # NULL => /\ m \notin s.hurt => w \notin s.hurt
                /\ w \notin s.hurt => Lead(D, w) = {} /\ s.table[w].fd_inode = m

Tallied(s, D, m, w, r, v, k) ==
    /\ IsFiniteSet(Used(D))
    /\ SlotsRight(s, D, w, v, k) /\ CountsRight(s, D, m, r)
    /\ HurtClosed(s) /\ FlagsRight(s) /\ MakerRight(s, D, m, w)

LEMMA OneMore ==
    ASSUME NEW S, IsFiniteSet(S), NEW d, d \notin S
    PROVE  /\ IsFiniteSet(S \cup {d}) /\ Cardinality(S) \in Nat
           /\ Cardinality(S \cup {d}) = Cardinality(S) + 1
  BY FS_AddElement, FS_CardinalityType

LEMMA OneFewer ==
    ASSUME NEW S, IsFiniteSet(S), NEW d \in S
    PROVE  /\ IsFiniteSet(S \ {d}) /\ Cardinality(S) \in Nat /\ Cardinality(S) >= 1
           /\ Cardinality(S \ {d}) = Cardinality(S) - 1
<1>1. Cardinality(S) \in Nat /\ Cardinality(S \ {d}) = Cardinality(S) - 1 /\ IsFiniteSet(S \ {d})
  BY FS_RemoveElement, FS_CardinalityType
<1>2. Cardinality(S \ {d}) \in Nat BY <1>1, FS_CardinalityType
<1> QED BY <1>1, <1>2

LEMMA UsedFinite ==
    ASSUME NEW D, IsFiniteSet(Used(D))
    PROVE  /\ \A g \in Slot : IsFiniteSet(Lead(D, g)) /\ Cardinality(Lead(D, g)) \in Nat
           /\ \A s, o : IsFiniteSet(Users(s, D, o)) /\ Cardinality(Users(s, D, o)) \in Nat
<1>1. ASSUME NEW g \in Slot PROVE Lead(D, g) \subseteq Used(D)
  BY Addresses DEF Lead, Used
<1>2. ASSUME NEW s, NEW o PROVE Users(s, D, o) \subseteq Used(D)
  BY Addresses DEF Users, Used, Holding
<1> QED BY <1>1, <1>2, FS_Subset, FS_CardinalityType

\* One descriptor changes.
Moved(D, E, d, x) ==
    At(E, d) = x /\ \A e \in Ends \ {d} : At(E, e) = At(D, e)

LEMMA RedirectedMoved ==
    ASSUME NEW s, NEW t, NEW p \in Process, NEW fd \in Fd, NEW x, Redirected(s, t, p, fd, x)
    PROVE  <<p, fd>> \in Ends /\ At(s.fds, <<p, fd>>) = s.fds[p][fd]
             /\ Moved(s.fds, t.fds, <<p, fd>>, x)
<1>1. t.fds[p][fd] = x BY DEF Redirected
<1>2. ASSUME NEW e \in Ends \ {<<p, fd>>} PROVE t.fds[e[1]][e[2]] = s.fds[e[1]][e[2]]
  <2>1. e[1] \in Process /\ e[2] \in Fd /\ (e[1] # p \/ e[2] # fd) BY DEF Ends
  <2> QED BY <2>1 DEF Redirected
<1> QED BY <1>1, <1>2 DEF Moved, At, Ends

LEMMA LeadGrows ==
    ASSUME NEW D, NEW E, NEW d \in Ends, NEW x \in Slot, IsFiniteSet(Used(D)),
           At(D, d) = -1, Moved(D, E, d, x)
    PROVE  /\ IsFiniteSet(Used(E)) /\ d \in Lead(E, x)
           /\ Cardinality(Lead(E, x)) = Cardinality(Lead(D, x)) + 1
           /\ \A h \in Slot \ {x} : Lead(E, h) = Lead(D, h)
<1>0. -1 \notin Slot BY Addresses
<1>1. Lead(E, x) = Lead(D, x) \cup {d} /\ d \notin Lead(D, x)
  BY <1>0 DEF Lead, Moved
<1>2. \A h \in Slot \ {x} : Lead(E, h) = Lead(D, h) BY <1>0 DEF Lead, Moved
<1>3. Used(E) = Used(D) \cup {d} BY <1>0 DEF Used, Moved
<1>4. IsFiniteSet(Used(E)) BY <1>3, FS_AddElement
<1>5. Cardinality(Lead(E, x)) = Cardinality(Lead(D, x)) + 1 BY <1>1, UsedFinite, OneMore
<1> QED BY <1>1, <1>2, <1>4, <1>5

LEMMA LeadShrinks ==
    ASSUME NEW D, NEW E, NEW d \in Ends, IsFiniteSet(Used(D)),
           At(D, d) \in Slot, Moved(D, E, d, -1)
    PROVE  /\ IsFiniteSet(Used(E)) /\ d \in Lead(D, At(D, d))
           /\ Lead(E, At(D, d)) = Lead(D, At(D, d)) \ {d}
           /\ Cardinality(Lead(E, At(D, d))) = Cardinality(Lead(D, At(D, d))) - 1
           /\ \A h \in Slot \ {At(D, d)} : Lead(E, h) = Lead(D, h)
<1>0. -1 \notin Slot BY Addresses
<1>1. PICK g \in Slot : g = At(D, d) OBVIOUS
<1>2. Lead(E, g) = Lead(D, g) \ {d} /\ d \in Lead(D, g)
  BY <1>0, <1>1 DEF Lead, Moved
<1>3. \A h \in Slot \ {g} : Lead(E, h) = Lead(D, h) BY <1>0, <1>1 DEF Lead, Moved
<1>4. Used(E) \subseteq Used(D) BY <1>0, <1>1 DEF Used, Moved
<1>5. IsFiniteSet(Used(E)) BY <1>4, FS_Subset
<1>6. Cardinality(Lead(E, g)) = Cardinality(Lead(D, g)) - 1 BY <1>2, UsedFinite, OneFewer
<1> QED BY <1>1, <1>2, <1>3, <1>5, <1>6

\* Settled() forgets that an idle slot was hurt.
LEMMA TalliedCleared ==
    ASSUME NEW s \in OpenFilesState, NEW t \in OpenFilesState, NEW m, NEW w, NEW r,
           m \in Obj \cup {NULL}, w = NULL \/ (w \in Slot /\ Filling(w)),
           Tallied(s, s.fds, m, w, r, NULL, 0), Cleared(s, t)
    PROVE  Tallied(t, t.fds, m, w, r, NULL, 0)
<1>1. PICK D : D = s.fds OBVIOUS
<1>2. t.fds = D /\ t.inode = s.inode /\ Tallied(s, D, m, w, r, NULL, 0)
  BY <1>1 DEF Cleared, SameInodes
<1>3. NULL \notin Obj /\ NULL \notin Page /\ NULL \notin Slot /\ Slot \cap Obj = {} /\ Empty.fd_inode = NULL
  BY Addresses DEF Empty
<1>4. \A g \in Slot : /\ t.table[g].fd_inode = s.table[g].fd_inode
                      /\ s.table[g].fd_inode # NULL => t.table[g] = s.table[g]
  BY <1>3 DEF Cleared, Idle
<1>5. \A g \in Slot : g \notin t.hurt /\ g \in s.hurt =>
        s.table[g].fd_inode = NULL /\ Lead(D, g) = {} /\ g # w
  <2> SUFFICES ASSUME NEW g \in Slot, g \notin t.hurt, g \in s.hurt
               PROVE  s.table[g].fd_inode = NULL /\ Lead(D, g) = {} /\ g # w
    OBVIOUS
  <2>1. Idle(s, g) BY DEF Cleared
  <2>2. Leads(s, g) = Lead(D, g) BY <1>1 DEF Leads, Lead, At, Ends
  <2> QED BY <1>3, <2>1, <2>2 DEF Idle
<1>6. t.hurt \subseteq s.hurt /\ \A o \in Obj : o \in s.hurt => o \in t.hurt
  BY <1>3 DEF Cleared
<1>7. SlotsRight(t, D, w, NULL, 0)
  <2>1. ASSUME NEW g \in Slot, g \notin t.hurt, g \notin s.hurt
        PROVE  SlotRight(t, D, w, NULL, 0, g)
    <3>1. SlotRight(s, D, w, NULL, 0, g) BY <1>2, <2>1 DEF Tallied, SlotsRight
    <3>2. t.table[g] = s.table[g] \/ (t.table[g].fd_inode = NULL /\ s.table[g].fd_inode = NULL)
      BY <1>4
    <3> QED BY <1>3, <3>1, <3>2 DEF SlotRight
  <2>2. ASSUME NEW g \in Slot, g \notin t.hurt, g \in s.hurt
        PROVE  SlotRight(t, D, w, NULL, 0, g)
    BY <1>3, <1>4, <1>5, <2>2 DEF SlotRight
  <2> QED BY <2>1, <2>2 DEF SlotsRight
<1>8. \A o : Holding(t, o) = Holding(s, o) BY <1>4 DEF Holding
<1>9. CountsRight(t, D, m, r)
  BY <1>2, <1>6, <1>8 DEF Tallied, CountsRight, CountRight, Users
<1>10. HurtClosed(t) BY <1>2, <1>4, <1>6 DEF Tallied, HurtClosed
<1>11. FlagsRight(t) BY <1>2, <1>3, <1>4 DEF Tallied, FlagsRight
<1>12. MakerRight(t, D, m, w)
  <2> SUFFICES ASSUME w # NULL
               PROVE  /\ m \notin t.hurt => w \notin t.hurt
                      /\ w \notin t.hurt => Lead(D, w) = {} /\ t.table[w].fd_inode = m
    BY DEF MakerRight
  <2>1. w \in Slot /\ ~Idle(s, w) BY DEF Idle
  <2>2. w \in s.hurt <=> w \in t.hurt BY <1>6, <2>1 DEF Cleared
  <2>3. m \in s.hurt <=> m \in t.hurt
    <3>1. m \notin Slot BY <1>3
    <3> QED BY <1>6, <3>1 DEF Cleared
  <2> QED BY <1>2, <1>4, <2>1, <2>2, <2>3 DEF Tallied, MakerRight
<1> QED BY <1>2, <1>7, <1>9, <1>10, <1>11, <1>12 DEF Tallied

\* A call in progress and the process that makes it: who makes an inode knows
\* its slot.
Calls(m, w) == m \in Obj \cup {NULL} /\ w \in Slot \cup {NULL} /\ (w # NULL => m # NULL)

LEMMA SlotRightSame ==
    ASSUME NEW s, NEW t, NEW D, NEW E, NEW w, NEW v, NEW k, NEW g, SlotRight(s, D, w, v, k, g),
           t.table[g].fd_inode = s.table[g].fd_inode, t.table[g].fd_pos = s.table[g].fd_pos,
           Lead(E, g) = Lead(D, g)
    PROVE  SlotRight(t, E, w, v, k, g)
  BY DEF SlotRight

LEMMA CountRightSame ==
    ASSUME NEW s, NEW t, NEW D, NEW E, NEW m, NEW r, NEW o, CountRight(s, D, m, r, o),
           t.inode[o] = s.inode[o], Users(t, E, o) = Users(s, D, o)
    PROVE  CountRight(t, E, m, r, o)
  BY DEF CountRight

\* A close gives up one descriptor and its slot; other descriptors of the slot
\* are hurt.
LEMMA TallyClosed ==
    ASSUME NEW s \in OpenFilesState, NEW t \in OpenFilesState, NEW m, NEW w, Calls(m, w),
           NEW r \in Obj \cup {NULL}, Cover(s, m, r, w), s.fault = "none",
           Tallied(s, s.fds, m, w, r, NULL, 0),
           NEW p \in Process, NEW fd \in Fd, s.fds[p][fd] # -1, DescriptorClosed(s, t, p, fd)
    PROVE  IF t.fault = "none" THEN Tallied(t, t.fds, m, w, r, NULL, 0)
           ELSE t.hurt \cap Slot # {}
<1>1. PICK g \in Slot : g = s.fds[p][fd] BY FieldTypes
<1>2. PICK o \in Obj \cup Page \cup {NULL} : o = s.table[g].fd_inode BY SlotTypes
<1>3. PICK d : d = <<p, fd>> OBVIOUS
<1>4. PICK u : u = Noted(s, d, g) OBVIOUS
<1>5. PICK D : D = s.fds OBVIOUS
<1>6. PICK E : E = t.fds OBVIOUS
<1> DEFINE Alone == Lead(D, g) \subseteq {d}
<1>7. /\ NULL \notin Obj /\ NULL \notin Page /\ NULL \notin Slot
      /\ Obj \cap Page = {} /\ Slot \cap Obj = {} /\ -1 \notin Slot
  BY Addresses
<1>8. /\ u.inode = s.inode /\ u.open_inodes = s.open_inodes /\ u.table = s.table
      /\ u.fault = "none"
      /\ u.hurt = IF Alone THEN s.hurt ELSE s.hurt \cup {g} \cup ({o} \cap Obj)
  <2>1. Leads(s, g) = Lead(D, g) BY <1>5 DEF Leads, Lead, At, Ends
  <2>2. NotedHurt(s, d, g) = IF Alone THEN s.hurt ELSE s.hurt \cup {g} \cup ({o} \cap Obj)
    BY <1>2, <2>1 DEF NotedHurt
  <2> HIDE DEF Alone
  <2>3. /\ u.inode = s.inode /\ u.open_inodes = s.open_inodes /\ u.table = s.table
        /\ u.fault = s.fault /\ u.hurt = NotedHurt(s, d, g)
    BY <1>4, NotedEffect
  <2> QED BY <2>2, <2>3
<1>9. /\ Redirected(s, t, p, fd, -1) /\ SlotClosed(s, t, g) /\ InodesAfterClose(u, t, o)
  BY <1>1, <1>2, <1>3, <1>4 DEF DescriptorClosed
<1>10. d \in Ends /\ At(D, d) = g /\ Moved(D, E, d, -1)
  <2>1. -1 \in Int OBVIOUS
  <2> QED BY <1>1, <1>3, <1>5, <1>6, <1>9, <2>1, RedirectedMoved
<1>11. Tallied(s, D, m, w, r, NULL, 0) BY <1>5
<1>12. /\ IsFiniteSet(Used(E)) /\ d \in Lead(D, g) /\ Lead(E, g) = Lead(D, g) \ {d}
       /\ \A h \in Slot \ {g} : Lead(E, h) = Lead(D, h)
  BY <1>10, <1>11, LeadShrinks DEF Tallied
<1>13. /\ t.table[g].fd_inode = NULL /\ t.table[g].fd_flag = s.table[g].fd_flag
       /\ \A h \in Slot \ {g} : t.table[h] = s.table[h]
  BY <1>9 DEF SlotClosed
<1>14. g \notin s.hurt => o # NULL /\ g # w
  BY <1>2, <1>7, <1>11, <1>12 DEF Tallied, SlotsRight, SlotRight, MakerRight
<1>15. g \in s.hurt /\ o \in Obj => o \in s.hurt BY <1>2, <1>11 DEF Tallied, HurtClosed
<1> HIDE DEF Alone
\* What follows when no bad pointer is followed.
<1>16. ASSUME \A h \in Slot : h \in t.hurt <=> h \in u.hurt,
              \A x \in Obj \ {o} : t.inode[x] = s.inode[x] /\ (x \in t.hurt <=> x \in s.hurt),
              o \in Obj => \/ InodeDropped(u, t, o)
                           \/ t.inode[o] = NULL /\ Holding(t, o) = {} /\ o # m
       PROVE  Tallied(t, E, m, w, r, NULL, 0)
  <2>1. \A h \in Slot : h \notin t.hurt => h \notin s.hurt BY <1>8, <1>16
  <2>2. \A h \in Slot \ {g} : h \in t.hurt <=> h \in s.hurt BY <1>7, <1>8, <1>16
  <2>3. SlotsRight(t, E, w, NULL, 0)
    <3> SUFFICES ASSUME NEW h \in Slot, h \notin t.hurt PROVE SlotRight(t, E, w, NULL, 0, h)
      BY DEF SlotsRight
    <3>1. SlotRight(s, D, w, NULL, 0, h) BY <1>11, <2>1 DEF Tallied, SlotsRight
    <3>2. CASE h # g BY <1>12, <1>13, <3>1, <3>2, SlotRightSame
    <3>3. CASE h = g
      <4>1. Alone BY <1>8, <1>16, <3>3
      <4>2. Lead(E, g) = {} BY <1>12, <4>1 DEF Alone
      <4> QED BY <1>7, <1>13, <1>14, <2>1, <3>3, <4>2 DEF SlotRight
    <3> QED BY <3>2, <3>3
  <2>4. \A x \in Obj \ {o} : Holding(t, x) = Holding(s, x)
    BY <1>2, <1>7, <1>13 DEF Holding
  <2>5. CountsRight(t, E, m, r)
    <3> SUFFICES ASSUME NEW x \in Obj, x \notin t.hurt PROVE CountRight(t, E, m, r, x)
      BY DEF CountsRight
    <3>1. CASE x # o
      <4>1. CountRight(s, D, m, r, x) BY <1>11, <1>16, <3>1 DEF Tallied, CountsRight
      <4>2. g \notin Holding(s, x) BY <1>2, <3>1 DEF Holding
      <4>3. -1 \notin Holding(s, x) BY <1>7 DEF Holding
      <4>4. Users(t, E, x) = Users(s, D, x)
        BY <1>10, <2>4, <3>1, <4>2, <4>3 DEF Users, Moved
      <4> QED BY <1>16, <3>1, <4>1, <4>4, CountRightSame
    <3>2. CASE x = o /\ t.inode[o] # NULL /\ o # m
      <4>1. InodeDropped(u, t, o) BY <1>16, <3>2
      <4>2. t.hurt = u.hurt BY <4>1 DEF InodeDropped
      <4>3. Alone /\ o \notin s.hurt BY <1>8, <3>2, <4>2
      <4>4. Lead(D, g) = {d} BY <1>12, <4>3 DEF Alone
      <4>5. g \in Holding(s, o) /\ Holding(t, o) = Holding(s, o) \ {g}
        BY <1>2, <1>7, <1>13, <3>2 DEF Holding
      <4>6. Users(t, E, o) = Users(s, D, o) \ {d} /\ d \in Users(s, D, o)
        <5>1. -1 \notin Holding(t, o) BY <1>7 DEF Holding
        <5>2. \A e \in Ends : At(D, e) = g => e = d BY <4>4 DEF Lead
        <5> QED BY <1>10, <4>5, <5>1, <5>2 DEF Users, Moved
      <4>7. s.inode[o] # NULL BY <1>2, <3>2 DEF Cover, Held
      <4>8. s.inode[o].i_open_cnts = Cardinality(Users(s, D, o)) + (IF o = r THEN 1 ELSE 0)
        BY <1>11, <3>2, <4>3, <4>7 DEF Tallied, CountsRight, CountRight
      <4>9. t.inode[o].i_open_cnts = s.inode[o].i_open_cnts - 1
        BY <1>8, <4>1 DEF InodeDropped
      <4>10. /\ Cardinality(Users(t, E, o)) = Cardinality(Users(s, D, o)) - 1
             /\ Cardinality(Users(s, D, o)) \in Nat
        BY <1>11, <4>6, UsedFinite, OneFewer DEF Tallied
      <4>11. t.inode[o].i_open_cnts = Cardinality(Users(t, E, o)) + (IF o = r THEN 1 ELSE 0)
        BY <4>8, <4>9, <4>10
      <4> QED BY <3>2, <4>11 DEF CountRight
    <3>3. CASE x = o /\ (t.inode[o] = NULL \/ o = m) BY <3>3 DEF CountRight
    <3> QED BY <3>1, <3>2, <3>3
  <2>6. HurtClosed(t)
    <3> SUFFICES ASSUME NEW h \in Slot, h \in t.hurt, t.table[h].fd_inode \in Obj
                 PROVE  t.table[h].fd_inode \in t.hurt
      BY DEF HurtClosed
    <3>1. PICK x \in Obj : x = t.table[h].fd_inode OBVIOUS
    <3>2. h # g /\ x = s.table[h].fd_inode BY <1>7, <1>13, <3>1
    <3>3. h \in s.hurt BY <2>2, <3>2
    <3>4. x \in s.hurt BY <1>11, <3>1, <3>2, <3>3 DEF Tallied, HurtClosed
    <3>5. CASE x # o BY <1>16, <3>1, <3>4, <3>5
    <3>6. CASE x = o
      <4>1. InodeDropped(u, t, o) BY <1>16, <3>1, <3>6 DEF Holding
      <4>2. t.hurt = u.hurt BY <4>1 DEF InodeDropped
      <4> QED BY <1>8, <3>1, <3>4, <3>6, <4>2
    <3> QED BY <3>5, <3>6
  <2>7. FlagsRight(t) BY <1>7, <1>11, <1>13 DEF Tallied, FlagsRight
  <2>8. MakerRight(t, E, m, w)
    <3> SUFFICES ASSUME w # NULL
                 PROVE  /\ m \notin t.hurt => w \notin t.hurt
                        /\ w \notin t.hurt => Lead(E, w) = {} /\ t.table[w].fd_inode = m
      BY DEF MakerRight
    <3>1. w \in Slot /\ m \in Obj BY DEF Calls
    <3>2. /\ m \notin s.hurt => w \notin s.hurt
          /\ w \notin s.hurt => Lead(D, w) = {} /\ s.table[w].fd_inode = m
      BY <1>11 DEF Tallied, MakerRight
    <3>3. m \notin t.hurt => m \notin s.hurt
      <4>1. CASE m # o BY <1>16, <3>1, <4>1
      <4>2. CASE m = o
        <5>1. t.hurt = u.hurt BY <1>16, <3>1, <4>2 DEF InodeDropped
        <5> QED BY <1>8, <5>1
      <4> QED BY <4>1, <4>2
    <3>4. w \notin s.hurt => w # g BY <1>12, <3>2
    <3>5. w \notin s.hurt => w \notin t.hurt BY <2>2, <3>1, <3>4
    <3>6. w \notin t.hurt => w \notin s.hurt BY <2>1, <3>1
    <3> QED BY <1>12, <1>13, <3>1, <3>2, <3>3, <3>4, <3>5, <3>6
  <2> QED BY <1>12, <2>3, <2>5, <2>6, <2>7, <2>8 DEF Tallied
<1>17. CASE o = NULL
  <2>1. t.hurt = u.hurt BY <1>9, <1>17 DEF InodesAfterClose
  <2>2. g \in t.hurt BY <1>8, <1>14, <1>17, <2>1
  <2>3. t.fault # "none" BY <1>8, <1>9, <1>17 DEF InodesAfterClose
  <2> QED BY <2>2, <2>3
<1>18. CASE o \in Page
  <2>1. t.hurt = u.hurt /\ t.inode = s.inode /\ t.fault = "none"
    BY <1>8, <1>9, <1>18 DEF InodesAfterClose, SameInodes
  <2>2. \A x \in Obj \ {o} : t.inode[x] = s.inode[x] /\ (x \in t.hurt <=> x \in s.hurt)
    BY <1>7, <1>8, <1>18, <2>1
  <2>3. o \notin Obj BY <1>7, <1>18
  <2> QED BY <1>6, <1>16, <2>1, <2>2, <2>3
<1>19. CASE o \in Obj
  <2>1. InodeClosed(u, t, o) BY <1>9, <1>19 DEF InodesAfterClose
  <2>2. s.inode[o] # NULL BY <1>2, <1>19 DEF Cover, Held
  <2>3. \A x \in Obj \ {o} : t.inode[x] = s.inode[x] BY <1>8, <2>1 DEF InodeClosed
  <2>4. CASE InodeAstray(u, t, o)
    <3>1. o = m BY <1>8, <1>19, <2>2, <2>4 DEF InodeAstray, Cover, Listed
    <3>2. g = w BY <1>2, <1>7, <1>19, <3>1 DEF Cover, Pending, Holding
    <3>3. g \in s.hurt /\ t.hurt = u.hurt BY <1>14, <2>4, <3>2 DEF InodeAstray
    <3>4. t.fault # "none" BY <1>8, <2>4 DEF InodeAstray
    <3> QED BY <1>8, <3>3, <3>4
  <2>5. CASE InodeDropped(u, t, o)
    <3>1. t.hurt = u.hurt /\ t.fault = "none" BY <1>8, <2>5 DEF InodeDropped
    <3>2. \A x \in Obj \ {o} : x \in t.hurt <=> x \in s.hurt BY <1>7, <1>8, <3>1
    <3> QED BY <1>6, <1>16, <2>3, <2>5, <3>1, <3>2
  <2>6. CASE InodeFreed(u, t, o)
    <3>1. t.hurt = u.hurt \ {o} /\ t.fault = "none" /\ t.inode[o] = NULL
      BY <1>8, <2>6 DEF InodeFreed
    <3>2. \A x \in Obj \ {o} : x \in t.hurt <=> x \in s.hurt BY <1>7, <1>8, <3>1
    <3>3. \A h \in Slot : h \in t.hurt <=> h \in u.hurt BY <1>7, <1>19, <3>1
    <3>4. o # m /\ s.inode[o].i_open_cnts = 1 BY <1>8, <1>19, <2>6 DEF InodeFreed, Cover, Listed
    <3>5. Holding(t, o) = Holding(s, o) \ {g} /\ g \in Holding(s, o)
      BY <1>2, <1>7, <1>13, <1>19 DEF Holding
    <3>6. Holding(t, o) = {}
      <4>1. /\ Cardinality(Holding(t, o)) = Cardinality(Holding(s, o)) - 1
            /\ Cardinality(Holding(s, o)) \in Nat /\ Cardinality(Holding(t, o)) \in Nat
            /\ IsFiniteSet(Holding(t, o))
        BY <3>5, HoldingFinite, FS_RemoveElement
      <4>2. 1 >= Cardinality(Holding(s, o)) + (IF o = r THEN 1 ELSE 0)
        BY <1>19, <2>2, <3>4 DEF Cover, Counted
      <4>3. Cardinality(Holding(t, o)) = 0 BY <4>1, <4>2
      <4> QED BY <4>1, <4>3, FS_EmptySet
    <3> QED BY <1>6, <1>16, <2>3, <3>1, <3>2, <3>3, <3>4, <3>6
  <2> QED BY <2>1, <2>4, <2>5, <2>6 DEF InodeClosed
<1> QED BY <1>17, <1>18, <1>19

\* What holds of the counts: as long as no bad pointer has been followed they
\* are right, and when one has been there is a slot that was hurt.
Tally(s, D, m, w, r) ==
    IF s.fault = "none" THEN Tallied(s, D, m, w, r, NULL, 0) ELSE s.hurt \cap Slot # {}

\* exit leaves a pipe.
LEMMA TallyPipeLeft ==
    ASSUME NEW s \in OpenFilesState, NEW t \in OpenFilesState, NEW m, NEW w, Calls(m, w),
           NEW r \in Obj \cup {NULL}, Tallied(s, s.fds, m, w, r, NULL, 0),
           NEW p \in Process, NEW fd \in Fd, s.fds[p][fd] # -1,
           s.table[s.fds[p][fd]].fd_flag = "pipe", PipeLeft(s, t, p, fd)
    PROVE  Tallied(t, t.fds, m, w, r, NULL, 0)
<1>1. PICK g \in Slot : g = s.fds[p][fd] BY FieldTypes
<1>2. PICK d : d = <<p, fd>> OBVIOUS
<1>3. PICK D : D = s.fds OBVIOUS
<1>4. PICK E : E = t.fds OBVIOUS
<1>5. /\ NULL \notin Obj /\ NULL \notin Page /\ NULL \notin Slot /\ Obj \cap Page = {} /\ -1 \notin Slot
  BY Addresses
<1>6. /\ Redirected(s, t, p, fd, -1) /\ t.inode = s.inode /\ t.hurt = s.hurt
      /\ \A h \in Slot \ {g} : t.table[h] = s.table[h]
      /\ s.table[g].fd_flag = "pipe" /\ t.table[g].fd_flag = "pipe"
      /\ t.table[g].fd_pos = s.table[g].fd_pos - 1
      /\ IF s.table[g].fd_pos = 1
         THEN s.table[g].fd_inode \in Page /\ t.table[g].fd_inode = NULL
         ELSE t.table[g].fd_inode = s.table[g].fd_inode
  BY <1>1 DEF PipeLeft, SameInodes
<1>7. d \in Ends /\ At(D, d) = g /\ Moved(D, E, d, -1)
  <2>1. -1 \in Int OBVIOUS
  <2> QED BY <1>1, <1>2, <1>3, <1>4, <1>6, <2>1, RedirectedMoved
<1>8. Tallied(s, D, m, w, r, NULL, 0) BY <1>3
<1>9. /\ IsFiniteSet(Used(E)) /\ d \in Lead(D, g)
      /\ Cardinality(Lead(E, g)) = Cardinality(Lead(D, g)) - 1
      /\ \A h \in Slot \ {g} : Lead(E, h) = Lead(D, h)
  BY <1>7, <1>8, LeadShrinks DEF Tallied
<1>10. s.table[g].fd_inode \notin Obj BY <1>6, <1>8 DEF Tallied, FlagsRight
<1>11. t.table[g].fd_inode \notin Obj BY <1>5, <1>6, <1>10
<1>12. SlotsRight(t, E, w, NULL, 0)
  <2> SUFFICES ASSUME NEW h \in Slot, h \notin t.hurt PROVE SlotRight(t, E, w, NULL, 0, h)
    BY DEF SlotsRight
  <2>1. SlotRight(s, D, w, NULL, 0, h) BY <1>6, <1>8 DEF Tallied, SlotsRight
  <2>2. CASE h # g BY <1>6, <1>9, <2>1, <2>2, SlotRightSame
  <2>3. CASE h = g
    <3>1. g # w BY <1>5, <1>6, <1>8, <1>9, <2>3 DEF Tallied, MakerRight
    <3>2. s.table[g].fd_inode \in Page
      BY <1>9, <1>10, <2>1, <2>3, SlotTypes DEF SlotRight
    <3>3. s.table[g].fd_pos = Cardinality(Lead(D, g))
      <4>1. Cardinality(Lead(D, g)) \in Nat BY <1>8, UsedFinite DEF Tallied
      <4> QED BY <1>5, <2>1, <2>3, <3>2, <4>1 DEF SlotRight
    <3>4. IsFiniteSet(Lead(E, g)) /\ Cardinality(Lead(E, g)) \in Nat BY <1>9, UsedFinite
    <3>5. Lead(E, g) = {} <=> Cardinality(Lead(E, g)) = 0 BY <3>4, FS_EmptySet
    <3>6. Cardinality(Lead(D, g)) \in Nat BY <1>8, UsedFinite DEF Tallied
    <3>7. s.table[g].fd_pos = 1 <=> Cardinality(Lead(E, g)) = 0 BY <1>9, <3>3, <3>4, <3>6
    <3>8. (t.table[g].fd_inode # NULL) <=> Lead(E, g) # {} BY <1>5, <1>6, <3>2, <3>5, <3>7
    <3>9. t.table[g].fd_pos = Cardinality(Lead(E, g)) BY <1>6, <1>9, <3>3
    <3>10. Cardinality(Lead(E, g)) = Cardinality(Lead(E, g)) + 0 BY <3>4
    <3> QED BY <1>5, <2>3, <3>1, <3>8, <3>9, <3>10 DEF SlotRight
  <2> QED BY <2>2, <2>3
<1>13. CountsRight(t, E, m, r)
  <2> SUFFICES ASSUME NEW x \in Obj, x \notin t.hurt PROVE CountRight(t, E, m, r, x)
    BY DEF CountsRight
  <2>1. CountRight(s, D, m, r, x) BY <1>6, <1>8 DEF Tallied, CountsRight
  <2>2. Holding(t, x) = Holding(s, x) BY <1>6, <1>10, <1>11 DEF Holding
  <2>3. g \notin Holding(s, x) /\ -1 \notin Holding(s, x) BY <1>5, <1>10 DEF Holding
  <2>4. Users(t, E, x) = Users(s, D, x) BY <1>7, <2>2, <2>3 DEF Users, Moved
  <2> QED BY <1>6, <2>1, <2>4, CountRightSame
<1>14. HurtClosed(t) BY <1>6, <1>8, <1>11 DEF Tallied, HurtClosed
<1>15. FlagsRight(t) BY <1>6, <1>8, <1>11 DEF Tallied, FlagsRight
<1>16. MakerRight(t, E, m, w)
  <2>1. w # NULL => w \in Slot BY DEF Calls
  <2> QED BY <1>6, <1>8, <1>9, <2>1 DEF Tallied, MakerRight
<1> QED BY <1>4, <1>9, <1>12, <1>13, <1>14, <1>15, <1>16 DEF Tallied

\* exit, one descriptor.
LEMMA TallyReleases ==
    ASSUME NEW s \in OpenFilesState, NEW t \in OpenFilesState, NEW m, NEW w, Calls(m, w),
           NEW r \in Obj \cup {NULL}, Cover(s, m, r, w), Tally(s, s.fds, m, w, r),
           NEW p \in Process, NEW fd \in Fd, Releases(s, t, p, fd)
    PROVE  Tally(t, t.fds, m, w, r)
<1>1. PICK g \in Slot \cup {-1} : g = s.fds[p][fd] BY FieldTypes
<1>2. NULL \notin Page /\ NULL \notin Obj /\ NULL \notin Slot /\ Slot \cap Obj = {} BY Addresses
<1>3. CASE g = -1 BY <1>1, <1>3 DEF Releases
<1>4. CASE g # -1 /\ s.fault # "none"
  <2>1. s.hurt \cap Slot # {} BY <1>4 DEF Tally
  <2>2. CASE s.table[g].fd_flag = "pipe"
    <3>1. t.fault # "none" /\ t.hurt = s.hurt
      BY <1>1, <1>4, <2>2 DEF Releases, PipeLeft
    <3> QED BY <2>1, <3>1 DEF Tally
  <2>3. CASE s.table[g].fd_flag # "pipe"
    <3>1. DescriptorClosed(s, t, p, fd) BY <1>1, <1>4, <2>3 DEF Releases
    <3>2. PICK o \in Obj \cup Page \cup {NULL} : o = s.table[g].fd_inode BY <1>4, SlotTypes
    <3>3. PICK d : d = <<p, fd>> OBVIOUS
    <3>4. PICK u : u = Noted(s, d, g) OBVIOUS
    <3>5. u.fault = s.fault /\ s.hurt \subseteq u.hurt
      <4>1. u.fault = s.fault /\ u.hurt = NotedHurt(s, d, g) BY <1>4, <3>4, NotedEffect
      <4> QED BY <4>1 DEF NotedHurt
    <3>6. InodesAfterClose(u, t, o) BY <1>1, <3>1, <3>2, <3>3, <3>4 DEF DescriptorClosed
    <3>7. t.fault # "none" /\ u.hurt \cap Slot \subseteq t.hurt
      <4>1. CASE o = NULL BY <1>4, <3>5, <3>6, <4>1 DEF InodesAfterClose
      <4>2. CASE o \in Page BY <1>4, <3>5, <3>6, <4>2 DEF InodesAfterClose
      <4>3. CASE o \in Obj
        <5>1. InodeClosed(u, t, o) BY <3>6, <4>3 DEF InodesAfterClose
        <5> QED BY <1>2, <1>4, <3>5, <4>3, <5>1
                DEF InodeClosed, InodeDropped, InodeAstray, InodeFreed
      <4> QED BY <4>1, <4>2, <4>3
    <3>8. t.hurt \cap Slot # {} BY <2>1, <3>5, <3>7
    <3> QED BY <3>7, <3>8 DEF Tally
  <2> QED BY <2>2, <2>3
<1>5. CASE g # -1 /\ s.fault = "none"
  <2>1. Tallied(s, s.fds, m, w, r, NULL, 0) BY <1>5 DEF Tally
  <2>2. CASE s.table[g].fd_flag # "pipe"
    <3>1. DescriptorClosed(s, t, p, fd) BY <1>1, <1>5, <2>2 DEF Releases
    <3> QED BY <1>1, <1>5, <2>1, <3>1, TallyClosed DEF Tally
  <2>3. CASE s.table[g].fd_flag = "pipe" /\ PipeLeft(s, t, p, fd)
    <3>1. t.fault = "none" BY <1>5, <2>3 DEF PipeLeft
    <3>2. Tallied(t, t.fds, m, w, r, NULL, 0) BY <1>1, <1>5, <2>1, <2>3, TallyPipeLeft
    <3> QED BY <3>1, <3>2 DEF Tally
  <2>4. CASE s.table[g].fd_flag = "pipe" /\ ~PipeLeft(s, t, p, fd)
    <3>1. s.table[g].fd_inode \notin Page /\ t.hurt = s.hurt /\ t.fault # "none"
      BY <1>1, <1>5, <2>4 DEF Releases
    <3>2. s.table[g].fd_inode = NULL
      BY <1>5, <2>1, <2>4, <3>1, SlotTypes DEF Tallied, FlagsRight
    <3>3. <<p, fd>> \in Lead(s.fds, g) BY <1>1 DEF Lead, At, Ends
    <3>4. g \in s.hurt BY <1>5, <2>1, <3>2, <3>3 DEF Tallied, SlotsRight, SlotRight
    <3> QED BY <1>5, <3>1, <3>4 DEF Tally
  <2> QED BY <2>2, <2>3, <2>4
<1> QED BY <1>3, <1>4, <1>5

\* fork counts one descriptor of the child: it leads where one of the parent's
\* does.
LEMMA TallyCounts ==
    ASSUME NEW s \in OpenFilesState, NEW t \in OpenFilesState, NEW m, NEW w, Calls(m, w),
           NEW r \in Obj \cup {NULL}, Cover(s, m, r, w), NEW D, NEW E, Tally(s, D, m, w, r),
           NEW q \in Process, NEW fd \in Fd, Counts(s, t, q, fd), s.fds[q][fd] # -1,
           At(D, <<q, fd>>) = -1, Moved(D, E, <<q, fd>>, s.fds[q][fd]),
           Lead(D, s.fds[q][fd]) # {}
    PROVE  Tally(t, E, m, w, r)
<1>1. PICK g \in Slot : g = s.fds[q][fd] BY FieldTypes
<1>2. PICK o \in Obj \cup Page \cup {NULL} : o = s.table[g].fd_inode BY SlotTypes
<1>3. PICK d : d = <<q, fd>> OBVIOUS
<1>4. /\ NULL \notin Obj /\ NULL \notin Page /\ NULL \notin Slot /\ Obj \cap Page = {} /\ -1 \notin Slot
  BY Addresses
<1>5. d \in Ends /\ At(D, d) = -1 /\ Moved(D, E, d, g) /\ Lead(D, g) # {} BY <1>1, <1>3 DEF Ends
<1>6. t.hurt = s.hurt BY DEF Counts
<1>7. CASE s.fault # "none"
  <2>1. t.fault # "none" BY <1>1, <1>7 DEF Counts
  <2> QED BY <1>6, <1>7, <2>1 DEF Tally
<1>8. CASE s.fault = "none"
  <2>1. Tallied(s, D, m, w, r, NULL, 0) BY <1>8 DEF Tally
  <2>2. /\ IsFiniteSet(Used(E)) /\ d \in Lead(E, g)
        /\ Cardinality(Lead(E, g)) = Cardinality(Lead(D, g)) + 1
        /\ \A h \in Slot \ {g} : Lead(E, h) = Lead(D, h)
    BY <1>5, <2>1, LeadGrows DEF Tallied
  <2>3. g \notin s.hurt => o # NULL /\ g # w
    BY <1>2, <1>4, <1>5, <2>1 DEF Tallied, SlotsRight, SlotRight, MakerRight
  <2>4. g \in s.hurt /\ o \in Obj => o \in s.hurt BY <1>2, <2>1 DEF Tallied, HurtClosed
  \* The slots and inodes that are not concerned.
  <2>5. ASSUME \A h \in Slot : /\ t.table[h].fd_inode = s.table[h].fd_inode
                               /\ t.table[h].fd_flag = s.table[h].fd_flag,
               \A h \in Slot \ {g} : t.table[h] = s.table[h],
               \A x \in Obj \ {o} : t.inode[x] = s.inode[x],
               g \notin s.hurt => SlotRight(t, E, w, NULL, 0, g),
               o \in Obj /\ o \notin s.hurt => CountRight(t, E, m, r, o)
        PROVE  Tallied(t, E, m, w, r, NULL, 0)
    <3>1. SlotsRight(t, E, w, NULL, 0)
      <4> SUFFICES ASSUME NEW h \in Slot, h \notin s.hurt, h # g
                   PROVE  SlotRight(t, E, w, NULL, 0, h)
        BY <1>6, <2>5 DEF SlotsRight
      <4>1. SlotRight(s, D, w, NULL, 0, h) BY <2>1 DEF Tallied, SlotsRight
      <4> QED BY <2>2, <2>5, <4>1, SlotRightSame
    <3>2. \A x : Holding(t, x) = Holding(s, x) BY <2>5 DEF Holding
    <3>3. CountsRight(t, E, m, r)
      <4> SUFFICES ASSUME NEW x \in Obj, x \notin s.hurt, x # o
                   PROVE  CountRight(t, E, m, r, x)
        BY <1>6, <2>5 DEF CountsRight
      <4>1. CountRight(s, D, m, r, x) BY <2>1 DEF Tallied, CountsRight
      <4>2. g \notin Holding(s, x) /\ -1 \notin Holding(s, x) BY <1>2, <1>4 DEF Holding
      <4>3. Users(t, E, x) = Users(s, D, x) BY <1>5, <3>2, <4>2 DEF Users, Moved
      <4> QED BY <2>5, <4>1, <4>3, CountRightSame
    <3>4. HurtClosed(t) BY <1>6, <2>1, <2>5 DEF Tallied, HurtClosed
    <3>5. FlagsRight(t) BY <2>1, <2>5 DEF Tallied, FlagsRight
    <3>6. MakerRight(t, E, m, w)
      <4>1. w # NULL => w \in Slot BY DEF Calls
      <4>2. w # NULL /\ w \notin s.hurt => w # g /\ Lead(D, w) = {}
        BY <1>5, <2>1 DEF Tallied, MakerRight
      <4> QED BY <1>6, <2>1, <2>2, <2>5, <4>1, <4>2 DEF Tallied, MakerRight
    <3> QED BY <2>2, <3>1, <3>3, <3>4, <3>5, <3>6 DEF Tallied
  <2>6. CASE s.table[g].fd_flag = "pipe"
    <3>1. /\ t.inode = s.inode /\ t.fault = s.fault
          /\ t.table[g].fd_inode = o /\ t.table[g].fd_flag = "pipe"
          /\ t.table[g].fd_pos = s.table[g].fd_pos + 1
          /\ \A h \in Slot \ {g} : t.table[h] = s.table[h]
      BY <1>1, <1>2, <2>6 DEF Counts
    <3>2. o \notin Obj BY <1>2, <2>1, <2>6 DEF Tallied, FlagsRight
    <3>3. ASSUME g \notin s.hurt PROVE SlotRight(t, E, w, NULL, 0, g)
      <4>1. SlotRight(s, D, w, NULL, 0, g) BY <2>1, <3>3 DEF Tallied, SlotsRight
      <4>2. Cardinality(Lead(D, g)) \in Nat /\ Cardinality(Lead(E, g)) \in Nat
        BY <2>1, <2>2, UsedFinite DEF Tallied
      <4>3. o \in Page => s.table[g].fd_pos = Cardinality(Lead(D, g)) + (IF g = NULL THEN 0 ELSE 0)
        BY <1>2, <4>1 DEF SlotRight
      <4>4. o \in Page => t.table[g].fd_pos = Cardinality(Lead(E, g)) + (IF g = NULL THEN 0 ELSE 0)
        BY <2>2, <3>1, <4>2, <4>3
      <4>5. o # NULL /\ Lead(E, g) # {} BY <2>2, <2>3, <3>3
      <4> QED BY <3>1, <4>4, <4>5 DEF SlotRight
    <3>4. Tallied(t, E, m, w, r, NULL, 0) BY <1>2, <2>5, <2>6, <3>1, <3>2, <3>3
    <3> QED BY <1>8, <3>1, <3>4 DEF Tally
  <2>7. CASE s.table[g].fd_flag # "pipe" /\ o \in Obj
    <3>1. /\ t.table = s.table /\ t.fault = s.fault /\ t.inode[o] # NULL
          /\ t.inode[o].i_open_cnts = s.inode[o].i_open_cnts + 1
          /\ \A x \in Obj \ {o} : t.inode[x] = s.inode[x]
      BY <1>1, <1>2, <2>7 DEF Counts
    <3>2. ASSUME g \notin s.hurt PROVE SlotRight(t, E, w, NULL, 0, g)
      BY <1>2, <1>4, <2>2, <2>3, <2>7, <3>1, <3>2 DEF SlotRight
    <3>3. ASSUME o \notin s.hurt PROVE CountRight(t, E, m, r, o)
      <4>1. s.inode[o] # NULL BY <1>2, <2>7 DEF Cover, Held
      <4>2. Holding(t, o) = Holding(s, o) BY <3>1 DEF Holding
      <4>3. g \in Holding(s, o) /\ -1 \notin Holding(s, o) BY <1>2, <1>4 DEF Holding
      <4>4. Users(t, E, o) = Users(s, D, o) \cup {d} /\ d \notin Users(s, D, o)
        BY <1>5, <4>2, <4>3 DEF Users, Moved
      <4>5. /\ Cardinality(Users(t, E, o)) = Cardinality(Users(s, D, o)) + 1
            /\ Cardinality(Users(s, D, o)) \in Nat
        BY <2>1, <4>4, UsedFinite, OneMore DEF Tallied
      <4>6. o # m => s.inode[o].i_open_cnts = Cardinality(Users(s, D, o)) + (IF o = r THEN 1 ELSE 0)
        BY <2>1, <2>7, <3>3, <4>1 DEF Tallied, CountsRight, CountRight
      <4>7. o # m => t.inode[o].i_open_cnts = Cardinality(Users(t, E, o)) + (IF o = r THEN 1 ELSE 0)
        BY <3>1, <4>5, <4>6
      <4> QED BY <4>7 DEF CountRight
    <3>4. Tallied(t, E, m, w, r, NULL, 0) BY <2>5, <3>1, <3>2, <3>3
    <3> QED BY <1>8, <3>1, <3>4 DEF Tally
  <2>8. CASE s.table[g].fd_flag # "pipe" /\ o \notin Obj
    <3>1. t.fault # "none" BY <1>1, <1>2, <1>8, <2>8 DEF Counts
    <3>2. o = NULL BY <1>2, <2>1, <2>8 DEF Tallied, FlagsRight
    <3> QED BY <1>6, <2>3, <3>1, <3>2 DEF Tally
  <2> QED BY <2>6, <2>7, <2>8
<1> QED BY <1>7, <1>8

\* Tallied() looks at the slots, the inodes and the history.
LEMMA TalliedSame ==
    ASSUME NEW s, NEW t, NEW D, NEW m, NEW w, NEW r, NEW v, NEW k, Tallied(s, D, m, w, r, v, k),
           t.table = s.table, t.inode = s.inode, t.hurt = s.hurt
    PROVE  Tallied(t, D, m, w, r, v, k)
<1>1. \A o : Holding(t, o) = Holding(s, o) BY DEF Holding
<1>2. SlotsRight(t, D, w, v, k) BY DEF Tallied, SlotsRight, SlotRight
<1>3. CountsRight(t, D, m, r)
  BY <1>1 DEF Tallied, CountsRight, CountRight, Users
<1> QED BY <1>2, <1>3 DEF Tallied, HurtClosed, FlagsRight, MakerRight

LEMMA TallyCleared ==
    ASSUME NEW s \in OpenFilesState, NEW t \in OpenFilesState, NEW m, NEW w, NEW r,
           m \in Obj \cup {NULL}, w = NULL \/ (w \in Slot /\ Filling(w)),
           Tally(s, s.fds, m, w, r), Cleared(s, t)
    PROVE  Tally(t, t.fds, m, w, r)
<1>1. t.fault = s.fault BY DEF Cleared
<1>2. CASE s.fault = "none" BY <1>1, <1>2, TalliedCleared DEF Tally
<1>3. CASE s.fault # "none"
  <2>1. t.hurt = s.hurt BY <1>3 DEF Cleared
  <2> QED BY <1>1, <1>3, <2>1 DEF Tally
<1> QED BY <1>2, <1>3

\* exit: all descriptors of p, one after the other.
LEMMA TallyExits ==
    ASSUME NEW s \in OpenFilesState, NEW x \in OpenFilesState, NEW m, NEW w, Calls(m, w),
           w = NULL \/ Filling(w),
           NEW r \in Obj \cup {NULL}, Cover(s, m, r, w), Tally(s, s.fds, m, w, r),
           NEW p \in Process, NEW done, Exits(s, x, done, p)
    PROVE  Tally(x, x.fds, m, w, r)
<1>0. MAX_FDS \in Nat /\ Fd = 1..MAX_FDS BY Addresses DEF Fd
<1>1. /\ \A i \in 0..MAX_FDS : done[i] \in OpenFilesState
      /\ done[0] = s
      /\ \A i \in 1..MAX_FDS : Releases(done[i - 1], done[i], p, i)
      /\ Cleared(done[MAX_FDS], x)
  BY DEF Exits
<1>2. m \in Obj \cup {NULL} /\ w \in Slot \cup {NULL} BY DEF Calls
<1> DEFINE S == {i \in 0..MAX_FDS : /\ Cover(done[i], m, r, w)
                                    /\ Tally(done[i], done[i].fds, m, w, r)}
<1>3. 0 \in S BY <1>0, <1>1
<1>4. ASSUME NEW i \in 1..MAX_FDS, i - 1 \in S PROVE i \in S
  <2>1. i \in Fd /\ i \in 0..MAX_FDS /\ i - 1 \in 0..MAX_FDS BY <1>0
  <2>2. done[i - 1] \in OpenFilesState /\ done[i] \in OpenFilesState
        /\ Releases(done[i - 1], done[i], p, i)
    BY <1>1, <2>1
  <2>3. Cover(done[i - 1], m, r, w) /\ Tally(done[i - 1], done[i - 1].fds, m, w, r) BY <1>4
  <2>4. Cover(done[i], m, r, w) BY <1>2, <2>1, <2>2, <2>3, CoverReleases
  <2>5. Tally(done[i], done[i].fds, m, w, r) BY <2>1, <2>2, <2>3, TallyReleases
  <2> QED BY <2>1, <2>4, <2>5
<1>5. \A i \in 0..MAX_FDS : i \in S
  <2> HIDE DEF S
  <2> QED BY <1>0, <1>3, <1>4, Passes
<1>6. done[MAX_FDS] \in OpenFilesState /\ Tally(done[MAX_FDS], done[MAX_FDS].fds, m, w, r)
  BY <1>0, <1>1, <1>5
<1> HIDE DEF S
<1> QED BY <1>1, <1>2, <1>6, TallyCleared

\* fork: the descriptors of q are counted one after the other.
CountedUpTo(F, q, i) == [k \in Process |-> [e \in Fd |-> IF k = q /\ e > i THEN -1 ELSE F[k][e]]]

LEMMA TallyForks ==
    ASSUME NEW s \in OpenFilesState, NEW x \in OpenFilesState, NEW m, NEW w, Calls(m, w),
           w = NULL \/ Filling(w),
           NEW r \in Obj \cup {NULL}, Cover(s, m, r, w), Tally(s, s.fds, m, w, r),
           NEW p \in Process, NEW q \in Process, p # q, \A fd \in Fd : s.fds[q][fd] = -1,
           NEW done, Forks(s, x, done, p, q)
    PROVE  Tally(x, x.fds, m, w, r)
<1>0. MAX_FDS \in Nat /\ Fd = 1..MAX_FDS BY Addresses DEF Fd
<1>1. /\ \A i \in 0..MAX_FDS : done[i] \in OpenFilesState
      /\ Copied(s, done[0], p, q)
      /\ \A i \in 1..MAX_FDS : Counts(done[i - 1], done[i], q, i)
      /\ Cleared(done[MAX_FDS], x)
  BY DEF Forks
<1>2. m \in Obj \cup {NULL} /\ w \in Slot \cup {NULL} BY DEF Calls
<1>3. PICK F : F = done[0].fds OBVIOUS
<1>4. /\ F \in [Process -> [Fd -> Slot \cup {-1}]]
      /\ \A fd \in Fd : F[q][fd] = s.fds[p][fd]
      /\ \A k \in Process \ {q} : \A fd \in Fd : F[k][fd] = s.fds[k][fd]
      /\ done[0].table = s.table /\ done[0].inode = s.inode /\ done[0].hurt = s.hurt
      /\ done[0].open_inodes = s.open_inodes /\ done[0].fault = s.fault
  <2>1. done[0] \in OpenFilesState BY <1>0, <1>1
  <2> QED BY <1>1, <1>3, <2>1, FieldTypes DEF Copied, SameInodes
<1>5. CountedUpTo(F, q, 0) = s.fds
  <2>1. s.fds \in [Process -> [Fd -> Slot \cup {-1}]] BY FieldTypes
  <2>2. ASSUME NEW k \in Process
        PROVE  s.fds[k] = [e \in Fd |-> IF k = q /\ e > 0 THEN -1 ELSE F[k][e]]
    <3>1. \A e \in Fd : s.fds[k][e] = IF k = q /\ e > 0 THEN -1 ELSE F[k][e]
      <4>1. \A e \in Fd : e > 0 BY <1>0
      <4> QED BY <1>4, <4>1
    <3> QED BY <2>1, <3>1
  <2>3. s.fds = [k \in Process |-> s.fds[k]] BY <2>1
  <2> QED BY <2>2, <2>3 DEF CountedUpTo
<1>6. CountedUpTo(F, q, MAX_FDS) = F
  <2>1. ASSUME NEW k \in Process
        PROVE  F[k] = [e \in Fd |-> IF k = q /\ e > MAX_FDS THEN -1 ELSE F[k][e]]
    <3>1. \A e \in Fd : F[k][e] = IF k = q /\ e > MAX_FDS THEN -1 ELSE F[k][e]
      BY <1>0
    <3> QED BY <1>4, <3>1
  <2>2. F = [k \in Process |-> F[k]] BY <1>4
  <2> QED BY <2>1, <2>2 DEF CountedUpTo
<1> DEFINE S == {i \in 0..MAX_FDS : /\ Cover(done[i], m, r, w) /\ done[i].fds = F
                                    /\ Tally(done[i], CountedUpTo(F, q, i), m, w, r)}
<1>7. 0 \in S
  <2>1. done[0] \in OpenFilesState BY <1>0, <1>1
  <2>2. Cover(done[0], m, r, w) BY <1>2, <1>4, <2>1, CoverKept
  <2>3. Tally(done[0], s.fds, m, w, r) BY <1>4, TalliedSame DEF Tally
  <2> QED BY <1>0, <1>3, <1>5, <2>2, <2>3
<1>8. ASSUME NEW i \in 1..MAX_FDS, i - 1 \in S PROVE i \in S
  <2>1. i \in Fd /\ i \in 0..MAX_FDS /\ i - 1 \in 0..MAX_FDS BY <1>0
  <2>2. done[i - 1] \in OpenFilesState /\ done[i] \in OpenFilesState
        /\ Counts(done[i - 1], done[i], q, i)
    BY <1>1, <2>1
  <2>3. /\ Cover(done[i - 1], m, r, w) /\ done[i - 1].fds = F
        /\ Tally(done[i - 1], CountedUpTo(F, q, i - 1), m, w, r)
    BY <1>8
  <2>4. Cover(done[i], m, r, w) BY <1>2, <2>1, <2>2, <2>3, CoverCounts
  <2>5. done[i].fds = F BY <2>2, <2>3 DEF Counts
  <2> DEFINE D == CountedUpTo(F, q, i - 1)
             E == CountedUpTo(F, q, i)
  <2>6. /\ At(D, <<q, i>>) = -1 /\ Moved(D, E, <<q, i>>, F[q][i])
        /\ \A k \in Process, e \in Fd : k # q => D[k][e] = F[k][e]
    <3>1. \A e \in Fd : (e > i - 1 <=> e > i \/ e = i) BY <1>0
    <3>2. ASSUME NEW d \in Ends \ {<<q, i>>} PROVE E[d[1]][d[2]] = D[d[1]][d[2]]
      <4>1. d[1] \in Process /\ d[2] \in Fd /\ (d[1] # q \/ d[2] # i) BY DEF Ends
      <4>2. d[1] = q => (d[2] > i - 1 <=> d[2] > i) BY <3>1, <4>1
      <4> QED BY <4>1, <4>2 DEF CountedUpTo
    <3>3. i > i - 1 /\ ~(i > i) BY <1>0
    <3> QED BY <2>1, <3>2, <3>3 DEF CountedUpTo, At, Moved
  <2>7. CASE F[q][i] = -1
    <3>1. done[i] = done[i - 1] BY <2>2, <2>3, <2>7 DEF Counts
    <3>2. ASSUME NEW k \in Process PROVE D[k] = E[k]
      <4>1. ASSUME NEW e \in Fd
            PROVE  (IF k = q /\ e > i - 1 THEN -1 ELSE F[k][e]) = IF k = q /\ e > i THEN -1 ELSE F[k][e]
        <5>1. e > i - 1 <=> e > i \/ e = i BY <1>0
        <5> QED BY <2>7, <5>1
      <4> QED BY <4>1 DEF CountedUpTo
    <3>3. D = E BY <3>2 DEF CountedUpTo
    <3> HIDE DEF D, E
    <3> QED BY <2>1, <2>3, <2>4, <2>5, <3>1, <3>3 DEF D, E
  <2>8. CASE F[q][i] # -1
    <3>1. PICK g : g = F[q][i] OBVIOUS
    <3>2. <<p, i>> \in Lead(D, g) BY <1>4, <2>1, <2>6, <3>1 DEF Lead, At, Ends
    <3>3. Tally(done[i], E, m, w, r)
      <4> HIDE DEF D, E
      <4>0. PICK a \in OpenFilesState, b \in OpenFilesState : a = done[i - 1] /\ b = done[i]
        BY <2>2
      <4>1. Tally(a, D, m, w, r) /\ Cover(a, m, r, w) /\ Counts(a, b, q, i)
        BY <2>2, <2>3, <4>0 DEF D
      <4>2. a.fds[q][i] = F[q][i] BY <2>3, <4>0
      <4>3. Lead(D, a.fds[q][i]) # {} BY <3>1, <3>2, <4>2
      <4>4. At(D, <<q, i>>) = -1 /\ Moved(D, E, <<q, i>>, a.fds[q][i]) BY <2>6, <4>2
      <4>5. a.fds[q][i] # -1 BY <2>8, <4>2
      <4>6. Tally(b, E, m, w, r) BY <2>1, <4>1, <4>3, <4>4, <4>5, TallyCounts
      <4> QED BY <4>0, <4>6
    <3> QED BY <2>1, <2>4, <2>5, <3>3
  <2> QED BY <2>7, <2>8
<1>9. \A i \in 0..MAX_FDS : i \in S
  <2> HIDE DEF S
  <2> QED BY <1>0, <1>7, <1>8, Passes
<1>10. done[MAX_FDS] \in OpenFilesState /\ Tally(done[MAX_FDS], done[MAX_FDS].fds, m, w, r)
  BY <1>0, <1>1, <1>6, <1>9
<1> HIDE DEF S
<1> QED BY <1>1, <1>2, <1>10, TallyCleared

\* inode_open(): the inode has one user that is no slot.
LEMMA TallyOpened ==
    ASSUME NEW s \in OpenFilesState, NEW t \in OpenFilesState, NEW u, Cover(s, NULL, NULL, u),
           NEW D, Tallied(s, D, NULL, NULL, NULL, NULL, 0),
           NEW o \in Obj, NEW i, InodeOpened(s, t, i, o)
    PROVE  Tallied(t, D, NULL, NULL, o, NULL, 0)
<1>0. NULL \notin Obj BY Addresses
<1>1. t.table = s.table /\ t.hurt = s.hurt /\ \A x \in Obj \ {o} : t.inode[x] = s.inode[x]
  BY DEF InodeOpened
<1>2. \A x : Holding(t, x) = Holding(s, x) /\ Users(t, D, x) = Users(s, D, x)
  BY <1>1 DEF Holding, Users
<1>3. SlotsRight(t, D, NULL, NULL, 0) BY <1>1 DEF Tallied, SlotsRight, SlotRight
<1>4. CountsRight(t, D, NULL, o)
  <2> SUFFICES ASSUME NEW x \in Obj, x \notin s.hurt PROVE CountRight(t, D, NULL, o, x)
    BY <1>1 DEF CountsRight
  <2>1. CountRight(s, D, NULL, NULL, x) BY DEF Tallied, CountsRight
  <2>2. CASE x # o
    <3>1. t.inode[x] = s.inode[x] /\ Users(t, D, x) = Users(s, D, x) BY <1>1, <1>2, <2>2
    <3>2. x # NULL BY <1>0
    <3>3. (IF x = o THEN 1 ELSE 0) = (IF x = NULL THEN 1 ELSE 0) BY <2>2, <3>2
    <3> QED BY <2>1, <2>2, <3>1, <3>2, <3>3 DEF CountRight
  <2>3. CASE x = o /\ InodeShared(s, t, i, o)
    <3>1. s.inode[o] # NULL BY <2>3 DEF Cover, Listed, InodeShared
    <3>2. s.inode[o].i_open_cnts = Cardinality(Users(s, D, o)) + 0
      BY <1>0, <2>1, <2>3, <3>1 DEF CountRight
    <3>3. Cardinality(Users(s, D, o)) \in Nat BY UsedFinite DEF Tallied
    <3>4. t.inode[o].i_open_cnts = Cardinality(Users(t, D, o)) + 1
      BY <1>2, <2>3, <3>2, <3>3 DEF InodeShared
    <3> QED BY <2>3, <3>4 DEF CountRight
  <2>4. CASE x = o /\ InodeRead(s, t, i, o)
    <3>1. Holding(s, o) = {} BY <2>4 DEF InodeRead, Cover, Held, Holding
    <3>2. Cardinality(Users(t, D, o)) = 0 BY <1>2, <3>1, FS_EmptySet DEF Users
    <3> QED BY <2>4, <3>2 DEF CountRight, InodeRead
  <2> QED BY <2>2, <2>3, <2>4 DEF InodeOpened
<1>5. HurtClosed(t) /\ FlagsRight(t) /\ MakerRight(t, D, NULL, NULL)
  BY <1>1 DEF Tallied, HurtClosed, FlagsRight, MakerRight
<1> QED BY <1>3, <1>4, <1>5 DEF Tallied

\* What Filled() says of the slots and the inodes.
LEMMA FilledHurt ==
    ASSUME NEW s, NEW g \in Slot, NEW x
    PROVE  /\ \A h \in Slot \ {g} : h \in Filled(s, g, x) <=> h \in s.hurt
           /\ g \in Filled(s, g, x) <=> (Lead(s.fds, g) # {} \/ Filling(g))
           /\ \A o \in Obj : o \in Filled(s, g, x) <=> (o \in s.hurt \/ (o = x /\ g \in Filled(s, g, x)))
<1>1. Leads(s, g) = Lead(s.fds, g) BY DEF Leads, Lead, At, Ends
<1>2. Slot \cap Obj = {} BY Addresses
<1> QED BY <1>1, <1>2 DEF Filled

\* file_open() fills its slot: one descriptor more will lead to it.
LEMMA TallyFilled ==
    ASSUME NEW s \in OpenFilesState, NEW t \in OpenFilesState, NEW o \in Obj, NEW g \in Slot,
           Tallied(s, s.fds, NULL, NULL, o, NULL, 0), s.table[g].fd_inode \notin Obj,
           ~Filling(g), NEW flag \in {"r", "w"}, SlotFilled(s, t, g, o, 0, flag)
    PROVE  /\ Tallied(t, t.fds, NULL, NULL, o, g, 0)
           /\ o \notin t.hurt => g \notin t.hurt
           /\ t.table[g].fd_inode = o
<1>0. PICK D : D = s.fds OBVIOUS
<1>1. /\ NULL \notin Obj /\ NULL \notin Page /\ NULL \notin Slot /\ Obj \cap Page = {}
      /\ Slot \cap Obj = {}
  BY Addresses
<1>2. /\ t.fds = D /\ t.inode = s.inode /\ t.hurt = Filled(s, g, o)
      /\ t.table[g].fd_inode = o /\ t.table[g].fd_flag = flag
      /\ \A h \in Slot \ {g} : t.table[h] = s.table[h]
  BY <1>0 DEF SlotFilled, SameInodes
<1>3. Tallied(s, D, NULL, NULL, o, NULL, 0) BY <1>0
<1>4. /\ \A h \in Slot \ {g} : h \in t.hurt <=> h \in s.hurt
      /\ g \in t.hurt <=> Lead(D, g) # {}
      /\ \A x \in Obj : x \in t.hurt <=> (x \in s.hurt \/ (x = o /\ g \in t.hurt))
  BY <1>0, <1>2, FilledHurt
<1>5. SlotsRight(t, D, NULL, g, 0)
  <2> SUFFICES ASSUME NEW h \in Slot, h \notin t.hurt PROVE SlotRight(t, D, NULL, g, 0, h)
    BY DEF SlotsRight
  <2>1. CASE h # g
    <3>1. SlotRight(s, D, NULL, NULL, 0, h) BY <1>3, <1>4, <2>1 DEF Tallied, SlotsRight
    <3> QED BY <1>1, <1>2, <2>1, <3>1 DEF SlotRight
  <2>2. CASE h = g BY <1>1, <1>2, <2>2 DEF SlotRight
  <2> QED BY <2>1, <2>2
<1>6. CountsRight(t, D, NULL, o)
  <2> SUFFICES ASSUME NEW x \in Obj, x \notin t.hurt PROVE CountRight(t, D, NULL, o, x)
    BY DEF CountsRight
  <2>1. CountRight(s, D, NULL, o, x) BY <1>3, <1>4 DEF Tallied, CountsRight
  <2>2. Users(t, D, x) = Users(s, D, x)
    <3>1. CASE x # o
      <4>1. Holding(t, x) = Holding(s, x) BY <1>2, <3>1 DEF Holding
      <4> QED BY <4>1 DEF Users
    <3>2. CASE x = o
      <4>1. Holding(t, x) = Holding(s, x) \cup {g} BY <1>2, <3>2 DEF Holding
      <4>2. \A d \in Ends : At(D, d) # g BY <1>4, <3>2 DEF Lead
      <4> QED BY <4>1, <4>2 DEF Users
    <3> QED BY <3>1, <3>2
  <2> QED BY <1>2, <2>1, <2>2, CountRightSame
<1>7. HurtClosed(t)
  <2> SUFFICES ASSUME NEW h \in Slot, h \in t.hurt, t.table[h].fd_inode \in Obj
               PROVE  t.table[h].fd_inode \in t.hurt
    BY DEF HurtClosed
  <2>1. CASE h = g BY <1>2, <1>4, <2>1
  <2>2. CASE h # g BY <1>2, <1>3, <1>4, <2>2 DEF Tallied, HurtClosed
  <2> QED BY <2>1, <2>2
<1>8. FlagsRight(t)
  <2> SUFFICES ASSUME NEW h \in Slot
               PROVE  /\ t.table[h].fd_inode \in Page => t.table[h].fd_flag = "pipe"
                      /\ t.table[h].fd_inode \in Obj => t.table[h].fd_flag # "pipe"
    BY DEF FlagsRight
  <2>1. CASE h = g BY <1>1, <1>2, <2>1
  <2>2. CASE h # g BY <1>2, <1>3, <2>2 DEF Tallied, FlagsRight
  <2> QED BY <2>1, <2>2
<1>9. MakerRight(t, D, NULL, NULL) BY DEF MakerRight
<1>10. o \notin t.hurt => g \notin t.hurt BY <1>4
<1> QED BY <1>2, <1>3, <1>5, <1>6, <1>7, <1>8, <1>9, <1>10 DEF Tallied

\* write_deny does not count.
LEMMA TallyDenied ==
    ASSUME NEW s, NEW t, NEW D, NEW m, NEW w, NEW r, NEW v, NEW k, Tallied(s, D, m, w, r, v, k),
           NEW o \in Obj, s.inode[o] # NULL, Denied(s, t, o)
    PROVE  Tallied(t, D, m, w, r, v, k)
<1>1. /\ t.table = s.table /\ t.hurt = s.hurt
      /\ \A x \in Obj : t.inode[x] # NULL => s.inode[x] # NULL
      /\ \A x \in Obj : t.inode[x].i_open_cnts = s.inode[x].i_open_cnts
  BY DEF Denied
<1>2. \A x : Users(t, D, x) = Users(s, D, x) BY <1>1 DEF Holding, Users
<1>3. SlotsRight(t, D, w, v, k) BY <1>1 DEF Tallied, SlotsRight, SlotRight
<1>4. CountsRight(t, D, m, r) BY <1>1, <1>2 DEF Tallied, CountsRight, CountRight
<1> QED BY <1>1, <1>3, <1>4 DEF Tallied, HurtClosed, FlagsRight, MakerRight

\* pcb_fd_install(): a descriptor is free, or the slot is lost.
LEMMA InstalledMoved ==
    ASSUME NEW s \in OpenFilesState, NEW t \in OpenFilesState, NEW p \in Process, NEW g \in Slot,
           Installed(s, t, p, g), IsFiniteSet(Used(s.fds))
    PROVE  \/ /\ t.hurt = s.hurt /\ IsFiniteSet(Used(t.fds)) /\ Lead(t.fds, g) # {}
              /\ Cardinality(Lead(t.fds, g)) = Cardinality(Lead(s.fds, g)) + 1
              /\ \A h \in Slot \ {g} : Lead(t.fds, h) = Lead(s.fds, h)
              /\ \E d \in Ends : At(s.fds, d) = -1 /\ Moved(s.fds, t.fds, d, g)
           \/ t.fds = s.fds /\ t.hurt = s.hurt \cup {g} \cup ({s.table[g].fd_inode} \cap Obj)
<1>1. CASE \E fd \in Fd : s.fds[p][fd] = -1 /\ Redirected(s, t, p, fd, g) /\ t.hurt = s.hurt
  <2>1. PICK fd \in Fd : s.fds[p][fd] = -1 /\ Redirected(s, t, p, fd, g) /\ t.hurt = s.hurt
    BY <1>1
  <2>2. PICK d : d = <<p, fd>> OBVIOUS
  <2>3. d \in Ends /\ At(s.fds, d) = -1 /\ Moved(s.fds, t.fds, d, g)
    BY <2>1, <2>2, RedirectedMoved
  <2>4. PICK D : D = s.fds OBVIOUS
  <2>5. PICK E : E = t.fds OBVIOUS
  <2>6. /\ IsFiniteSet(Used(E)) /\ d \in Lead(E, g)
        /\ Cardinality(Lead(E, g)) = Cardinality(Lead(D, g)) + 1
        /\ \A h \in Slot \ {g} : Lead(E, h) = Lead(D, h)
    BY <2>3, <2>4, <2>5, LeadGrows
  <2> QED BY <2>1, <2>3, <2>4, <2>5, <2>6
<1>2. CASE t.fds = s.fds /\ t.hurt = s.hurt \cup {g} \cup ({s.table[g].fd_inode} \cap Obj)
  BY <1>2
<1> QED BY <1>1, <1>2 DEF Installed

LEMMA TallyInstalled ==
    ASSUME NEW s \in OpenFilesState, NEW t \in OpenFilesState, NEW p \in Process, NEW g \in Slot,
           NEW o \in Obj, Tallied(s, s.fds, NULL, NULL, o, g, 0),
           o \notin s.hurt => g \notin s.hurt, g \notin s.hurt => s.table[g].fd_inode = o,
           Installed(s, t, p, g)
    PROVE  Tallied(t, t.fds, NULL, NULL, NULL, NULL, 0)
<1>0. PICK D : D = s.fds OBVIOUS
<1>00. PICK E : E = t.fds OBVIOUS
<1>1. /\ NULL \notin Obj /\ NULL \notin Page /\ NULL \notin Slot /\ Obj \cap Page = {}
      /\ Slot \cap Obj = {} /\ -1 \notin Slot
  BY Addresses
<1>2. t.table = s.table /\ t.inode = s.inode BY DEF Installed, SameInodes
<1>3. Tallied(s, D, NULL, NULL, o, g, 0) BY <1>0
<1>4. \A x : Holding(t, x) = Holding(s, x) BY <1>2 DEF Holding
<1>5. \A x \in Obj \ s.hurt : x # o => g \notin Holding(s, x)
  BY <1>3 DEF Holding, Tallied, HurtClosed
<1>6. FlagsRight(t) BY <1>2, <1>3 DEF Tallied, FlagsRight
<1>7. MakerRight(t, E, NULL, NULL) BY DEF MakerRight
<1>8. ASSUME t.hurt = s.hurt, IsFiniteSet(Used(E)), Lead(E, g) # {},
             \A h \in Slot \ {g} : Lead(E, h) = Lead(D, h),
             NEW d \in Ends, At(D, d) = -1, Moved(D, E, d, g)
      PROVE  Tallied(t, E, NULL, NULL, NULL, NULL, 0)
  <2>1. SlotsRight(t, E, NULL, NULL, 0)
    <3> SUFFICES ASSUME NEW h \in Slot, h \notin s.hurt PROVE SlotRight(t, E, NULL, NULL, 0, h)
      BY <1>8 DEF SlotsRight
    <3>1. SlotRight(s, D, NULL, g, 0, h) BY <1>3 DEF Tallied, SlotsRight
    <3>2. CASE h # g
      <4>1. t.table[h] = s.table[h] /\ Lead(E, h) = Lead(D, h) BY <1>2, <1>8, <3>2
      <4> QED BY <1>1, <3>1, <3>2, <4>1 DEF SlotRight
    <3>3. CASE h = g BY <1>1, <1>2, <1>8, <3>3 DEF SlotRight
    <3> QED BY <3>2, <3>3
  <2>2. CountsRight(t, E, NULL, NULL)
    <3> SUFFICES ASSUME NEW x \in Obj, x \notin s.hurt PROVE CountRight(t, E, NULL, NULL, x)
      BY <1>8 DEF CountsRight
    <3>1. CountRight(s, D, NULL, o, x) BY <1>3 DEF Tallied, CountsRight
    <3>2. -1 \notin Holding(s, x) /\ x # NULL BY <1>1 DEF Holding
    <3>3. CASE x # o
      <4>1. g \notin Holding(s, x) BY <1>5, <3>3
      <4>2. Users(t, E, x) = Users(s, D, x) BY <1>4, <1>8, <3>2, <4>1 DEF Users, Moved
      <4>3. (IF x = o THEN 1 ELSE 0) = (IF x = NULL THEN 1 ELSE 0) BY <3>2, <3>3
      <4> QED BY <1>2, <3>1, <4>2, <4>3 DEF CountRight
    <3>4. CASE x = o
      <4>1. g \in Holding(s, o) BY <3>4 DEF Holding
      <4>2. Users(t, E, o) = Users(s, D, o) \cup {d} /\ d \notin Users(s, D, o)
        BY <1>4, <1>8, <3>2, <3>4, <4>1 DEF Users, Moved
      <4>3. /\ Cardinality(Users(t, E, o)) = Cardinality(Users(s, D, o)) + 1
            /\ Cardinality(Users(s, D, o)) \in Nat
        BY <1>3, <4>2, UsedFinite, OneMore DEF Tallied
      <4>4. s.inode[o] # NULL =>
              t.inode[o].i_open_cnts = Cardinality(Users(t, E, o)) + (IF o = NULL THEN 1 ELSE 0)
        <5>1. s.inode[o] # NULL => s.inode[o].i_open_cnts = Cardinality(Users(s, D, o)) + 1
          BY <1>1, <3>1, <3>4 DEF CountRight
        <5> QED BY <1>1, <1>2, <4>3, <5>1
      <4> QED BY <1>2, <3>4, <4>4 DEF CountRight
    <3> QED BY <3>3, <3>4
  <2>3. HurtClosed(t) BY <1>2, <1>3, <1>8 DEF Tallied, HurtClosed
  <2> QED BY <1>6, <1>7, <1>8, <2>1, <2>2, <2>3 DEF Tallied
<1>9. ASSUME E = D, t.hurt = s.hurt \cup {g} \cup ({s.table[g].fd_inode} \cap Obj)
      PROVE  Tallied(t, E, NULL, NULL, NULL, NULL, 0)
  <2>1. SlotsRight(t, D, NULL, NULL, 0)
    <3> SUFFICES ASSUME NEW h \in Slot, h \notin s.hurt, h # g PROVE SlotRight(t, D, NULL, NULL, 0, h)
      BY <1>9 DEF SlotsRight
    <3>1. SlotRight(s, D, NULL, g, 0, h) BY <1>3 DEF Tallied, SlotsRight
    <3> QED BY <1>1, <1>2, <3>1 DEF SlotRight
  <2>2. CountsRight(t, D, NULL, NULL)
    <3> SUFFICES ASSUME NEW x \in Obj, x \notin t.hurt PROVE CountRight(t, D, NULL, NULL, x)
      BY DEF CountsRight
    <3>1. x \notin s.hurt /\ x # o BY <1>9
    <3>2. CountRight(s, D, NULL, o, x) BY <1>3, <3>1 DEF Tallied, CountsRight
    <3>3. Users(t, D, x) = Users(s, D, x) BY <1>4 DEF Users
    <3>4. (IF x = o THEN 1 ELSE 0) = (IF x = NULL THEN 1 ELSE 0) BY <1>1, <3>1
    <3> QED BY <1>2, <3>2, <3>3, <3>4 DEF CountRight
  <2>3. HurtClosed(t)
    <3> SUFFICES ASSUME NEW h \in Slot, h \in t.hurt, t.table[h].fd_inode \in Obj
                 PROVE  t.table[h].fd_inode \in t.hurt
      BY DEF HurtClosed
    <3>1. CASE h = g BY <1>2, <1>9, <3>1
    <3>2. CASE h # g
      <4>1. h \in s.hurt BY <1>1, <1>9, <3>2
      <4> QED BY <1>2, <1>3, <1>9, <4>1 DEF Tallied, HurtClosed
    <3> QED BY <3>1, <3>2
  <2> QED BY <1>3, <1>6, <1>7, <1>9, <2>1, <2>2, <2>3 DEF Tallied
<1>10. \/ /\ t.hurt = s.hurt /\ IsFiniteSet(Used(E)) /\ Lead(E, g) # {}
          /\ \A h \in Slot \ {g} : Lead(E, h) = Lead(D, h)
          /\ \E d \in Ends : At(D, d) = -1 /\ Moved(D, E, d, g)
       \/ E = D /\ t.hurt = s.hurt \cup {g} \cup ({s.table[g].fd_inode} \cap Obj)
  BY <1>0, <1>00, <1>3, InstalledMoved DEF Tallied
<1>11. Tallied(t, E, NULL, NULL, NULL, NULL, 0) BY <1>8, <1>9, <1>10
<1> QED BY <1>00, <1>11

LEMMA TallyRefused ==
    ASSUME NEW s \in OpenFilesState, NEW t \in OpenFilesState, NEW g \in Slot, NEW o \in Obj,
           Tallied(s, s.fds, NULL, NULL, o, g, 0), s.table[g].fd_inode = o, Refused(s, t, g, o)
    PROVE  Tallied(t, t.fds, NULL, NULL, NULL, NULL, 0)
<1>0. PICK D : D = s.fds OBVIOUS
<1>1. NULL \notin Obj /\ NULL \notin Slot /\ Slot \cap Obj = {} BY Addresses
<1>2. t.fds = D /\ t.table = s.table /\ t.inode = s.inode /\ t.hurt = s.hurt \cup {g, o}
  BY <1>0 DEF Refused, SameInodes
<1>3. Tallied(s, D, NULL, NULL, o, g, 0) BY <1>0
<1>4. SlotsRight(t, D, NULL, NULL, 0)
  <2> SUFFICES ASSUME NEW h \in Slot, h \notin s.hurt, h # g PROVE SlotRight(t, D, NULL, NULL, 0, h)
    BY <1>2 DEF SlotsRight
  <2>1. SlotRight(s, D, NULL, g, 0, h) BY <1>3 DEF Tallied, SlotsRight
  <2> QED BY <1>1, <1>2, <2>1 DEF SlotRight
<1>5. CountsRight(t, D, NULL, NULL)
  <2> SUFFICES ASSUME NEW x \in Obj, x \notin t.hurt PROVE CountRight(t, D, NULL, NULL, x)
    BY DEF CountsRight
  <2>1. x \notin s.hurt /\ x # o BY <1>2
  <2>2. CountRight(s, D, NULL, o, x) BY <1>3, <2>1 DEF Tallied, CountsRight
  <2>3. Users(t, D, x) = Users(s, D, x) BY <1>2 DEF Users, Holding
  <2>4. (IF x = o THEN 1 ELSE 0) = (IF x = NULL THEN 1 ELSE 0) BY <1>1, <2>1
  <2> QED BY <1>2, <2>2, <2>3, <2>4 DEF CountRight
<1>6. HurtClosed(t)
  <2> SUFFICES ASSUME NEW h \in Slot, h \in t.hurt, t.table[h].fd_inode \in Obj
               PROVE  t.table[h].fd_inode \in t.hurt
    BY DEF HurtClosed
  <2>1. CASE h = g BY <1>2, <2>1
  <2>2. CASE h # g
    <3>1. h \in s.hurt BY <1>1, <1>2, <2>2
    <3> QED BY <1>2, <1>3, <3>1 DEF Tallied, HurtClosed
  <2> QED BY <2>1, <2>2
<1>7. FlagsRight(t) /\ MakerRight(t, D, NULL, NULL)
  BY <1>2, <1>3 DEF Tallied, FlagsRight, MakerRight
<1> QED BY <1>2, <1>3, <1>4, <1>5, <1>6, <1>7 DEF Tallied

\* open, all of it.
LEMMA TallyOpens ==
    ASSUME NEW s \in OpenFilesState, NEW x \in OpenFilesState, NEW u0, Cover(s, NULL, NULL, u0),
           Tallied(s, s.fds, NULL, NULL, NULL, NULL, 0), NEW p \in Process, NEW g \in Slot,
           s.table[g].fd_inode \notin Obj, ~Filling(g), NEW i, NEW o \in Obj,
           NEW flag \in {"r", "w"}, Opens(s, x, p, g, i, o, flag)
    PROVE  Tallied(x, x.fds, NULL, NULL, NULL, NULL, 0)
<1>1. PICK r \in OpenFilesState, u \in OpenFilesState, v \in OpenFilesState, t \in OpenFilesState :
        OpenedFrom(s, r, u, v, t, p, g, i, o, flag) /\ Cleared(t, x)
  BY DEF Opens
<1>2. /\ InodeOpened(s, r, i, o) /\ SlotFilled(r, u, g, o, 0, flag)
      /\ Refused(u, t, g, o) \/ (Denied(u, v, o) /\ Installed(v, t, p, g)) \/ Installed(u, t, p, g)
  BY <1>1 DEF OpenedFrom
<1>3. r.fds = s.fds /\ r.table = s.table /\ r.inode[o] # NULL
  BY <1>2 DEF InodeOpened, InodeShared, InodeRead
<1>4. Tallied(r, r.fds, NULL, NULL, o, NULL, 0)
  <2>1. PICK D : D = s.fds OBVIOUS
  <2>2. Tallied(r, D, NULL, NULL, o, NULL, 0) BY <1>2, <2>1, TallyOpened
  <2> QED BY <1>3, <2>1, <2>2
<1>5. r.table[g].fd_inode \notin Obj BY <1>3
<1>6. /\ Tallied(u, u.fds, NULL, NULL, o, g, 0)
      /\ o \notin u.hurt => g \notin u.hurt
      /\ u.table[g].fd_inode = o
  BY <1>2, <1>4, <1>5, TallyFilled
<1>7. u.inode[o] # NULL BY <1>2, <1>3 DEF SlotFilled, SameInodes
<1>8. Tallied(t, t.fds, NULL, NULL, NULL, NULL, 0)
  <2>1. CASE Refused(u, t, g, o) BY <1>6, <2>1, TallyRefused
  <2>2. CASE Installed(u, t, p, g) BY <1>6, <2>2, TallyInstalled
  <2>3. CASE Denied(u, v, o) /\ Installed(v, t, p, g)
    <3>1. PICK D : D = u.fds OBVIOUS
    <3>2. Tallied(v, D, NULL, NULL, o, g, 0) BY <1>6, <1>7, <2>3, <3>1, TallyDenied
    <3>3. v.fds = D /\ v.hurt = u.hurt /\ v.table = u.table BY <2>3, <3>1 DEF Denied
    <3>4. Tallied(v, v.fds, NULL, NULL, o, g, 0) BY <3>2, <3>3
    <3>5. /\ o \notin v.hurt => g \notin v.hurt
          /\ g \notin v.hurt => v.table[g].fd_inode = o
      BY <1>6, <3>3
    <3> QED BY <2>3, <3>4, <3>5, TallyInstalled
  <2> QED BY <1>2, <2>1, <2>2, <2>3
<1>9. NULL \in Obj \cup {NULL} OBVIOUS
<1> QED BY <1>1, <1>8, <1>9, TalliedCleared

\* file_create(): nothing leads to the slot yet, which its call fills.
LEMMA TallyMade ==
    ASSUME NEW s \in OpenFilesState, NEW t \in OpenFilesState, NEW u0, Cover(s, NULL, NULL, u0),
           Tallied(s, s.fds, NULL, NULL, NULL, NULL, 0), NEW g \in Slot, NEW o \in Obj, NEW i,
           NEW flag \in {"r", "w"}, s.table[g].fd_inode = NULL, s.inode[o] = NULL, ~Filling(g),
           Made(s, t, g, o, i, flag)
    PROVE  Tallied(t, t.fds, o, g, NULL, NULL, 0)
<1>0. PICK D : D = s.fds OBVIOUS
<1>1. /\ NULL \notin Obj /\ NULL \notin Page /\ NULL \notin Slot /\ Obj \cap Page = {}
      /\ Slot \cap Obj = {}
  BY Addresses
<1>2. /\ t.fds = D /\ t.hurt = Filled(s, g, o)
      /\ \A x \in Obj \ {o} : t.inode[x] = s.inode[x]
      /\ t.table[g].fd_inode = o /\ t.table[g].fd_flag = flag
      /\ \A h \in Slot \ {g} : t.table[h] = s.table[h]
  BY <1>0 DEF Made
<1>3. Tallied(s, D, NULL, NULL, NULL, NULL, 0) BY <1>0
<1>4. /\ \A h \in Slot \ {g} : h \in t.hurt <=> h \in s.hurt
      /\ g \in t.hurt <=> Lead(D, g) # {}
      /\ \A x \in Obj : x \in t.hurt <=> (x \in s.hurt \/ (x = o /\ g \in t.hurt))
  BY <1>0, <1>2, FilledHurt
<1>5. SlotsRight(t, D, g, NULL, 0)
  <2> SUFFICES ASSUME NEW h \in Slot, h \notin t.hurt PROVE SlotRight(t, D, g, NULL, 0, h)
    BY DEF SlotsRight
  <2>1. CASE h # g
    <3>1. SlotRight(s, D, NULL, NULL, 0, h) BY <1>3, <1>4, <2>1 DEF Tallied, SlotsRight
    <3> QED BY <1>1, <1>2, <2>1, <3>1 DEF SlotRight
  <2>2. CASE h = g BY <1>1, <1>2, <2>2 DEF SlotRight
  <2> QED BY <2>1, <2>2
<1>6. CountsRight(t, D, o, NULL)
  <2> SUFFICES ASSUME NEW x \in Obj, x \notin t.hurt, x # o PROVE CountRight(t, D, o, NULL, x)
    BY DEF CountsRight, CountRight
  <2>1. CountRight(s, D, NULL, NULL, x) BY <1>3, <1>4 DEF Tallied, CountsRight
  <2>2. Holding(t, x) = Holding(s, x) BY <1>1, <1>2 DEF Holding
  <2>3. Users(t, D, x) = Users(s, D, x) BY <2>2 DEF Users
  <2>4. s.inode[x] # NULL =>
          s.inode[x].i_open_cnts = Cardinality(Users(s, D, x)) + (IF x = NULL THEN 1 ELSE 0)
    BY <1>1, <2>1 DEF CountRight
  <2> QED BY <1>2, <2>3, <2>4 DEF CountRight
<1>7. HurtClosed(t)
  <2> SUFFICES ASSUME NEW h \in Slot, h \in t.hurt, t.table[h].fd_inode \in Obj
               PROVE  t.table[h].fd_inode \in t.hurt
    BY DEF HurtClosed
  <2>1. CASE h = g BY <1>2, <1>4, <2>1
  <2>2. CASE h # g BY <1>2, <1>3, <1>4, <2>2 DEF Tallied, HurtClosed
  <2> QED BY <2>1, <2>2
<1>8. FlagsRight(t)
  <2> SUFFICES ASSUME NEW h \in Slot
               PROVE  /\ t.table[h].fd_inode \in Page => t.table[h].fd_flag = "pipe"
                      /\ t.table[h].fd_inode \in Obj => t.table[h].fd_flag # "pipe"
    BY DEF FlagsRight
  <2>1. CASE h = g BY <1>1, <1>2, <2>1
  <2>2. CASE h # g BY <1>2, <1>3, <2>2 DEF Tallied, FlagsRight
  <2> QED BY <2>1, <2>2
<1>9. MakerRight(t, D, o, g) BY <1>2, <1>4 DEF MakerRight
<1> QED BY <1>2, <1>3, <1>5, <1>6, <1>7, <1>8, <1>9 DEF Tallied

LEMMA TallyLinked ==
    ASSUME NEW s \in OpenFilesState, NEW t \in OpenFilesState, NEW g \in Slot, NEW o \in Obj,
           Cover(s, o, NULL, g), NEW D, Tallied(s, D, o, g, NULL, NULL, 0), Linked(s, t, o)
    PROVE  /\ Tallied(t, D, NULL, NULL, o, g, 0)
           /\ o \notin t.hurt => g \notin t.hurt
           /\ g \notin t.hurt => t.table[g].fd_inode = o
<1>1. NULL \notin Obj /\ NULL \notin Slot BY Addresses
<1>2. /\ t.table = s.table /\ t.hurt = s.hurt /\ t.inode[o].i_open_cnts = 1
      /\ \A x \in Obj \ {o} : t.inode[x] = s.inode[x]
  BY DEF Linked
<1>3. /\ o \notin s.hurt => g \notin s.hurt
      /\ g \notin s.hurt => Lead(D, g) = {} /\ s.table[g].fd_inode = o
  BY <1>1 DEF Tallied, MakerRight
<1>4. \A x : Holding(t, x) = Holding(s, x) /\ Users(t, D, x) = Users(s, D, x)
  BY <1>2 DEF Holding, Users
<1>5. SlotsRight(t, D, NULL, g, 0)
  <2> SUFFICES ASSUME NEW h \in Slot, h \notin s.hurt PROVE SlotRight(t, D, NULL, g, 0, h)
    BY <1>2 DEF SlotsRight
  <2>1. SlotRight(s, D, g, NULL, 0, h) BY DEF Tallied, SlotsRight
  <2>2. CASE h # g BY <1>1, <1>2, <2>1, <2>2 DEF SlotRight
  <2>3. CASE h = g
    <3>1. s.table[g].fd_inode = o /\ o \notin Page BY <1>3, <2>3, Addresses
    <3> QED BY <1>1, <1>2, <2>3, <3>1 DEF SlotRight
  <2> QED BY <2>2, <2>3
<1>6. CountsRight(t, D, NULL, o)
  <2> SUFFICES ASSUME NEW x \in Obj, x \notin s.hurt PROVE CountRight(t, D, NULL, o, x)
    BY <1>2 DEF CountsRight
  <2>1. CASE x # o
    <3>1. CountRight(s, D, o, NULL, x) BY DEF Tallied, CountsRight
    <3>2. (IF x = o THEN 1 ELSE 0) = (IF x = NULL THEN 1 ELSE 0) BY <1>1, <2>1
    <3>3. s.inode[x] # NULL =>
            s.inode[x].i_open_cnts = Cardinality(Users(s, D, x)) + (IF x = NULL THEN 1 ELSE 0)
      BY <2>1, <3>1 DEF CountRight
    <3>4. t.inode[x] # NULL =>
            t.inode[x].i_open_cnts = Cardinality(Users(t, D, x)) + (IF x = o THEN 1 ELSE 0)
      BY <1>2, <1>4, <2>1, <3>2, <3>3
    <3> QED BY <3>4 DEF CountRight
  <2>2. CASE x = o
    <3>1. Lead(D, g) = {} BY <1>3, <2>2
    <3>2. Holding(s, o) \subseteq {g} BY <1>1 DEF Cover, Pending
    <3>3. Users(t, D, o) = {} BY <1>4, <3>1, <3>2 DEF Users, Lead
    <3>4. Cardinality(Users(t, D, o)) = 0 BY <3>3, FS_EmptySet
    <3> QED BY <1>2, <2>2, <3>4 DEF CountRight
  <2> QED BY <2>1, <2>2
<1>7. HurtClosed(t) /\ FlagsRight(t) /\ MakerRight(t, D, NULL, NULL)
  BY <1>2 DEF Tallied, HurtClosed, FlagsRight, MakerRight
<1>8. IsFiniteSet(Used(D)) BY DEF Tallied
<1> QED BY <1>2, <1>3, <1>5, <1>6, <1>7, <1>8 DEF Tallied

LEMMA TallyLinks ==
    ASSUME NEW s \in OpenFilesState, NEW x \in OpenFilesState, NEW p \in Process, NEW g \in Slot,
           NEW o \in Obj, Cover(s, o, NULL, g), Tallied(s, s.fds, o, g, NULL, NULL, 0),
           Links(s, x, p, g, o)
    PROVE  Tallied(x, x.fds, NULL, NULL, NULL, NULL, 0)
<1>1. PICK u \in OpenFilesState, t \in OpenFilesState :
        Linked(s, u, o) /\ Installed(u, t, p, g) /\ Cleared(t, x)
  BY DEF Links
<1>2. PICK D : D = s.fds OBVIOUS
<1>3. /\ Tallied(u, D, NULL, NULL, o, g, 0)
      /\ o \notin u.hurt => g \notin u.hurt
      /\ g \notin u.hurt => u.table[g].fd_inode = o
  BY <1>1, <1>2, TallyLinked
<1>4. u.fds = D BY <1>1, <1>2 DEF Linked
<1>5. Tallied(u, u.fds, NULL, NULL, o, g, 0) BY <1>3, <1>4
<1>6. Tallied(t, t.fds, NULL, NULL, NULL, NULL, 0) BY <1>1, <1>3, <1>5, TallyInstalled
<1>7. NULL \in Obj \cup {NULL} OBVIOUS
<1> QED BY <1>1, <1>6, <1>7, TalliedCleared

\* file_create() takes back what it has made.
LEMMA TallyUnmakes ==
    ASSUME NEW s \in OpenFilesState, NEW x \in OpenFilesState, NEW g \in Slot,
           NEW o \in Obj, Cover(s, o, NULL, g), Tallied(s, s.fds, o, g, NULL, NULL, 0),
           Unmakes(s, x, g, o)
    PROVE  Tallied(x, x.fds, NULL, NULL, NULL, NULL, 0)
<1>0. PICK t \in OpenFilesState : Unmade(s, t, g, o) /\ Cleared(t, x) BY DEF Unmakes
<1>00. PICK D : D = s.fds OBVIOUS
<1>1. /\ NULL \notin Obj /\ NULL \notin Slot /\ NULL \notin Page /\ Slot \cap Obj = {}
      /\ Empty.fd_inode = NULL
  BY Addresses DEF Empty
<1>2. /\ t.fds = D /\ t.hurt = s.hurt \ {o} /\ t.inode[o] = NULL
      /\ \A y \in Obj \ {o} : t.inode[y] = s.inode[y]
      /\ t.table[g].fd_inode = NULL /\ \A h \in Slot \ {g} : t.table[h] = s.table[h]
  BY <1>0, <1>00, <1>1 DEF Unmade
<1>3. Tallied(s, D, o, g, NULL, NULL, 0) BY <1>00
<1>4. g \notin s.hurt => Lead(D, g) = {} /\ s.table[g].fd_inode = o
  BY <1>1, <1>3 DEF Tallied, MakerRight
<1>5. SlotsRight(t, D, NULL, NULL, 0)
  <2> SUFFICES ASSUME NEW h \in Slot, h \notin t.hurt PROVE SlotRight(t, D, NULL, NULL, 0, h)
    BY DEF SlotsRight
  <2>0. h \notin s.hurt BY <1>1, <1>2
  <2>1. SlotRight(s, D, g, NULL, 0, h) BY <1>3, <2>0 DEF Tallied, SlotsRight
  <2>2. CASE h # g BY <1>1, <1>2, <2>1, <2>2 DEF SlotRight
  <2>3. CASE h = g BY <1>1, <1>2, <1>4, <2>0, <2>3 DEF SlotRight
  <2> QED BY <2>2, <2>3
<1>6. CountsRight(t, D, NULL, NULL)
  <2> SUFFICES ASSUME NEW y \in Obj, y \notin t.hurt, y # o PROVE CountRight(t, D, NULL, NULL, y)
    BY <1>2 DEF CountsRight, CountRight
  <2>1. CountRight(s, D, o, NULL, y) BY <1>2, <1>3 DEF Tallied, CountsRight
  <2>2. s.table[g].fd_inode # y BY <1>2, <1>3, <1>4 DEF Tallied, HurtClosed
  <2>3. Holding(t, y) = Holding(s, y) BY <1>1, <1>2, <2>2 DEF Holding
  <2>4. Users(t, D, y) = Users(s, D, y) BY <2>3 DEF Users
  <2>5. s.inode[y] # NULL =>
          s.inode[y].i_open_cnts = Cardinality(Users(s, D, y)) + (IF y = NULL THEN 1 ELSE 0)
    BY <2>1 DEF CountRight
  <2> QED BY <1>2, <2>4, <2>5 DEF CountRight
<1>7. HurtClosed(t)
  <2> SUFFICES ASSUME NEW h \in Slot, h \in t.hurt, t.table[h].fd_inode \in Obj
               PROVE  t.table[h].fd_inode \in t.hurt
    BY DEF HurtClosed
  <2>1. h # g /\ h \in s.hurt BY <1>1, <1>2
  <2>2. s.table[h].fd_inode # o BY <1>1, <2>1 DEF Cover, Pending, Holding
  <2> QED BY <1>2, <1>3, <2>1, <2>2 DEF Tallied, HurtClosed
<1>8. FlagsRight(t)
  <2> SUFFICES ASSUME NEW h \in Slot
               PROVE  /\ t.table[h].fd_inode \in Page => t.table[h].fd_flag = "pipe"
                      /\ t.table[h].fd_inode \in Obj => t.table[h].fd_flag # "pipe"
    BY DEF FlagsRight
  <2>1. CASE h = g BY <1>1, <1>2, <2>1
  <2>2. CASE h # g BY <1>2, <1>3, <2>2 DEF Tallied, FlagsRight
  <2> QED BY <2>1, <2>2
<1>9. MakerRight(t, D, NULL, NULL) BY DEF MakerRight
<1>10. Tallied(t, t.fds, NULL, NULL, NULL, NULL, 0)
  BY <1>2, <1>3, <1>5, <1>6, <1>7, <1>8, <1>9 DEF Tallied
<1>11. NULL \in Obj \cup {NULL} OBVIOUS
<1> QED BY <1>0, <1>10, <1>11, TalliedCleared

\* inode_release() closes the inode it has opened.
LEMMA TallyForgets ==
    ASSUME NEW s \in OpenFilesState, NEW x \in OpenFilesState, NEW u0,
           NEW o \in Obj, Cover(s, NULL, o, u0), Tallied(s, s.fds, NULL, NULL, o, NULL, 0),
           NEW i, Forgets(s, x, i, o)
    PROVE  x.fault = s.fault /\ Tallied(x, x.fds, NULL, NULL, NULL, NULL, 0)
<1>0. PICK u \in OpenFilesState, t \in OpenFilesState :
        /\ Gone(s, u, i) /\ InodeClosed(u, t, o) /\ t.fds = s.fds /\ t.table = s.table
        /\ Cleared(t, x)
  BY DEF Forgets
<1>00. PICK D : D = s.fds OBVIOUS
<1>1. NULL \notin Obj /\ Slot \cap Obj = {} BY Addresses
<1>2. /\ u.inode = s.inode /\ u.hurt = s.hurt /\ u.open_inodes = s.open_inodes
      /\ u.fault = s.fault
  BY <1>0 DEF Gone
<1>3. Tallied(s, D, NULL, NULL, o, NULL, 0) /\ t.fds = D BY <1>0, <1>00
<1>4. s.inode[o] # NULL /\ o \in Range(u.open_inodes) BY <1>1, <1>2 DEF Cover, Pending, Listed
<1>5. InodeDropped(u, t, o) \/ InodeFreed(u, t, o) BY <1>0, <1>4 DEF InodeClosed, InodeAstray
<1>6. /\ t.fault = s.fault
      /\ \A y \in Obj \ {o} : t.inode[y] = s.inode[y]
      /\ \A y \in (Slot \cup Obj) \ {o} : y \in t.hurt <=> y \in s.hurt
  BY <1>0, <1>2, <1>5 DEF InodeClosed, InodeDropped, InodeFreed
<1>7. SlotsRight(t, D, NULL, NULL, 0)
  BY <1>0, <1>1, <1>3, <1>6 DEF Tallied, SlotsRight, SlotRight
<1>8. \A y : Users(t, D, y) = Users(s, D, y) BY <1>0 DEF Users, Holding
<1>9. CountsRight(t, D, NULL, NULL)
  <2> SUFFICES ASSUME NEW y \in Obj, y \notin t.hurt PROVE CountRight(t, D, NULL, NULL, y)
    BY DEF CountsRight
  <2>1. CASE y # o
    <3>1. CountRight(s, D, NULL, o, y) BY <1>3, <1>6, <2>1 DEF Tallied, CountsRight
    <3>2. (IF y = o THEN 1 ELSE 0) = (IF y = NULL THEN 1 ELSE 0) BY <1>1, <2>1
    <3>3. s.inode[y] # NULL =>
            s.inode[y].i_open_cnts = Cardinality(Users(s, D, y)) + (IF y = o THEN 1 ELSE 0)
      BY <1>1, <3>1 DEF CountRight
    <3>4. t.inode[y] # NULL =>
            t.inode[y].i_open_cnts = Cardinality(Users(t, D, y)) + (IF y = NULL THEN 1 ELSE 0)
      BY <1>6, <1>8, <2>1, <3>2, <3>3
    <3> QED BY <3>4 DEF CountRight
  <2>2. CASE y = o /\ InodeDropped(u, t, o)
    <3>1. o \notin s.hurt BY <1>2, <2>2 DEF InodeDropped
    <3>2. s.inode[o].i_open_cnts = Cardinality(Users(s, D, o)) + 1
      BY <1>1, <1>3, <1>4, <3>1 DEF Tallied, CountsRight, CountRight
    <3>3. Cardinality(Users(s, D, o)) \in Nat BY <1>3, UsedFinite DEF Tallied
    <3>4. t.inode[o].i_open_cnts = Cardinality(Users(t, D, o)) + 0
      BY <1>2, <1>8, <2>2, <3>2, <3>3 DEF InodeDropped
    <3> QED BY <1>1, <2>2, <3>4 DEF CountRight
  <2>3. CASE y = o /\ InodeFreed(u, t, o) BY <2>3 DEF CountRight, InodeFreed
  <2> QED BY <1>5, <2>1, <2>2, <2>3
<1>10. HurtClosed(t)
  <2> SUFFICES ASSUME NEW h \in Slot, h \in t.hurt, s.table[h].fd_inode \in Obj
               PROVE  s.table[h].fd_inode \in t.hurt
    BY <1>0 DEF HurtClosed
  <2>1. h \in s.hurt BY <1>1, <1>6
  <2>2. s.table[h].fd_inode \in s.hurt BY <1>3, <2>1 DEF Tallied, HurtClosed
  <2>3. CASE s.table[h].fd_inode # o BY <1>6, <2>2, <2>3
  <2>4. CASE s.table[h].fd_inode = o /\ InodeDropped(u, t, o)
    BY <1>2, <2>2, <2>4 DEF InodeDropped
  <2>5. CASE s.table[h].fd_inode = o /\ InodeFreed(u, t, o)
    <3>1. s.inode[o].i_open_cnts = 1 BY <1>2, <2>5 DEF InodeFreed
    <3>2. 1 >= Cardinality(Holding(s, o)) + 1 BY <1>1, <1>4, <3>1 DEF Cover, Counted
    <3>3. IsFiniteSet(Holding(s, o)) /\ Cardinality(Holding(s, o)) \in Nat BY HoldingFinite
    <3>4. Cardinality(Holding(s, o)) = 0 BY <3>2, <3>3
    <3>5. Holding(s, o) = {} BY <3>3, <3>4, FS_EmptySet
    <3> QED BY <2>5, <3>5 DEF Holding
  <2> QED BY <1>5, <2>3, <2>4, <2>5
<1>11. FlagsRight(t) /\ MakerRight(t, D, NULL, NULL)
  BY <1>0, <1>3 DEF Tallied, FlagsRight, MakerRight
<1>12. Tallied(t, t.fds, NULL, NULL, NULL, NULL, 0)
  BY <1>3, <1>7, <1>9, <1>10, <1>11 DEF Tallied
<1>13. x.fault = s.fault BY <1>0, <1>6 DEF Cleared
<1>14. NULL \in Obj \cup {NULL} OBVIOUS
<1> QED BY <1>0, <1>12, <1>13, <1>14, TalliedCleared

\* pipe(): two descriptors will lead to the slot; a file_create() that has
\* filled it loses it.
LEMMA TallyPiped ==
    ASSUME NEW s \in OpenFilesState, NEW t \in OpenFilesState, NEW m, NEW w, Calls(m, w),
           w # NULL => Filling(w), NEW r \in Obj \cup {NULL},
           Tallied(s, s.fds, m, w, r, NULL, 0), NEW g \in Slot, s.table[g].fd_inode = NULL,
           Filling(g) => g = w, NEW page \in Page, SlotFilled(s, t, g, page, 2, "pipe")
    PROVE  /\ Tallied(t, t.fds, m, w, r, g, 2)
           /\ g = w => g \in t.hurt
           /\ t.table[g].fd_inode \in Page
<1>0. PICK D : D = s.fds OBVIOUS
<1>1. /\ NULL \notin Obj /\ NULL \notin Page /\ NULL \notin Slot /\ Obj \cap Page = {}
      /\ Slot \cap Obj = {}
  BY Addresses
<1>2. /\ t.fds = D /\ t.inode = s.inode /\ t.hurt = Filled(s, g, page)
      /\ t.table[g].fd_inode = page /\ t.table[g].fd_flag = "pipe" /\ t.table[g].fd_pos = 2
      /\ \A h \in Slot \ {g} : t.table[h] = s.table[h]
  BY <1>0 DEF SlotFilled, SameInodes
<1>3. Tallied(s, D, m, w, r, NULL, 0) BY <1>0
<1>4. /\ \A h \in Slot \ {g} : h \in t.hurt <=> h \in s.hurt
      /\ g \in t.hurt <=> (Lead(D, g) # {} \/ g = w)
      /\ \A x \in Obj : x \in t.hurt <=> x \in s.hurt
  BY <1>0, <1>1, <1>2, FilledHurt
<1>5. SlotsRight(t, D, w, g, 2)
  <2> SUFFICES ASSUME NEW h \in Slot, h \notin t.hurt PROVE SlotRight(t, D, w, g, 2, h)
    BY DEF SlotsRight
  <2>1. CASE h # g
    <3>1. SlotRight(s, D, w, NULL, 0, h) BY <1>3, <1>4, <2>1 DEF Tallied, SlotsRight
    <3> QED BY <1>1, <1>2, <2>1, <3>1 DEF SlotRight
  <2>2. CASE h = g
    <3>1. Lead(D, g) = {} BY <1>4, <2>2
    <3>2. Cardinality(Lead(D, g)) + 2 = 2 BY <3>1, FS_EmptySet
    <3> QED BY <1>1, <1>2, <2>2, <3>2 DEF SlotRight
  <2> QED BY <2>1, <2>2
<1>6. CountsRight(t, D, m, r)
  <2> SUFFICES ASSUME NEW x \in Obj, x \notin t.hurt PROVE CountRight(t, D, m, r, x)
    BY DEF CountsRight
  <2>1. CountRight(s, D, m, r, x) BY <1>3, <1>4 DEF Tallied, CountsRight
  <2>2. Holding(t, x) = Holding(s, x) BY <1>1, <1>2 DEF Holding
  <2>3. Users(t, D, x) = Users(s, D, x) BY <2>2 DEF Users
  <2> QED BY <1>2, <2>1, <2>3, CountRightSame
<1>7. HurtClosed(t)
  <2> SUFFICES ASSUME NEW h \in Slot, h \in t.hurt, t.table[h].fd_inode \in Obj
               PROVE  t.table[h].fd_inode \in t.hurt
    BY DEF HurtClosed
  <2>1. h # g BY <1>1, <1>2
  <2> QED BY <1>2, <1>3, <1>4, <2>1 DEF Tallied, HurtClosed
<1>8. FlagsRight(t)
  <2> SUFFICES ASSUME NEW h \in Slot
               PROVE  /\ t.table[h].fd_inode \in Page => t.table[h].fd_flag = "pipe"
                      /\ t.table[h].fd_inode \in Obj => t.table[h].fd_flag # "pipe"
    BY DEF FlagsRight
  <2>1. CASE h = g BY <1>1, <1>2, <2>1
  <2>2. CASE h # g BY <1>2, <1>3, <2>2 DEF Tallied, FlagsRight
  <2> QED BY <2>1, <2>2
<1>9. MakerRight(t, D, m, w)
  <2> SUFFICES ASSUME w # NULL
               PROVE  /\ m \notin t.hurt => w \notin t.hurt
                      /\ w \notin t.hurt => Lead(D, w) = {} /\ t.table[w].fd_inode = m
    BY DEF MakerRight
  <2>1. w \in Slot /\ m \in Obj BY DEF Calls
  <2>2. /\ m \notin s.hurt => w \notin s.hurt
        /\ w \notin s.hurt => Lead(D, w) = {} /\ s.table[w].fd_inode = m
    BY <1>3 DEF Tallied, MakerRight
  <2>3. m \notin t.hurt => w \notin t.hurt
    <3>1. m \notin t.hurt => w # g BY <1>1, <1>4, <2>1, <2>2
    <3> QED BY <1>4, <2>1, <2>2, <3>1
  <2>4. w \notin t.hurt => w # g /\ w \notin s.hurt BY <1>4, <2>1
  <2> QED BY <1>2, <2>1, <2>2, <2>3, <2>4
<1>10. (g = w => g \in t.hurt) /\ t.table[g].fd_inode \in Page BY <1>2, <1>4
<1> QED BY <1>2, <1>3, <1>5, <1>6, <1>7, <1>8, <1>9, <1>10 DEF Tallied

\* Both descriptors are installed in the same way, k are left.
LEMMA TallyPipeInstalled ==
    ASSUME NEW s \in OpenFilesState, NEW t \in OpenFilesState, NEW m, NEW w, Calls(m, w),
           NEW r \in Obj \cup {NULL}, NEW p \in Process, NEW g \in Slot,
           NEW k \in Nat, Tallied(s, s.fds, m, w, r, g, k),
           s.table[g].fd_inode \in Page, g = w => g \in s.hurt, Installed(s, t, p, g),
           NEW v, v = g \/ (v = NULL /\ k = 1)
    PROVE  /\ Tallied(t, t.fds, m, w, r, v, k - 1)
           /\ t.table[g].fd_inode \in Page
           /\ g = w => g \in t.hurt
<1>0. PICK D : D = s.fds OBVIOUS
<1>00. PICK E : E = t.fds OBVIOUS
<1>1. /\ NULL \notin Obj /\ NULL \notin Page /\ NULL \notin Slot /\ Obj \cap Page = {}
      /\ Slot \cap Obj = {} /\ -1 \notin Slot
  BY Addresses
<1>2. t.table = s.table /\ t.inode = s.inode BY DEF Installed, SameInodes
<1>3. Tallied(s, D, m, w, r, g, k) BY <1>0
<1>4. \A x : Holding(t, x) = Holding(s, x) BY <1>2 DEF Holding
<1>5. \A x \in Obj : g \notin Holding(s, x) /\ -1 \notin Holding(s, x) BY <1>1 DEF Holding
<1>6. FlagsRight(t) BY <1>2, <1>3 DEF Tallied, FlagsRight
<1>7. \A h \in Slot \ {g} : h # v BY <1>1
<1>8. w # NULL => w \in Slot /\ m \in Obj BY DEF Calls
<1>9. ASSUME t.hurt = s.hurt, IsFiniteSet(Used(E)), Lead(E, g) # {},
             Cardinality(Lead(E, g)) = Cardinality(Lead(D, g)) + 1,
             \A h \in Slot \ {g} : Lead(E, h) = Lead(D, h),
             NEW d \in Ends, At(D, d) = -1, Moved(D, E, d, g)
      PROVE  Tallied(t, E, m, w, r, v, k - 1)
  <2>1. SlotsRight(t, E, w, v, k - 1)
    <3> SUFFICES ASSUME NEW h \in Slot, h \notin s.hurt PROVE SlotRight(t, E, w, v, k - 1, h)
      BY <1>9 DEF SlotsRight
    <3>1. SlotRight(s, D, w, g, k, h) BY <1>3 DEF Tallied, SlotsRight
    <3>2. CASE h # g
      <4>1. t.table[h] = s.table[h] /\ Lead(E, h) = Lead(D, h) BY <1>2, <1>9, <3>2
      <4> QED BY <1>7, <3>1, <3>2, <4>1 DEF SlotRight
    <3>3. CASE h = g
      <4>1. Cardinality(Lead(D, g)) \in Nat BY <1>3, UsedFinite DEF Tallied
      <4>2. s.table[g].fd_pos = Cardinality(Lead(D, g)) + k BY <3>1, <3>3 DEF SlotRight
      <4>3. t.table[g].fd_pos = Cardinality(Lead(E, g)) + (IF g = v THEN k - 1 ELSE 0)
        BY <1>1, <1>2, <1>9, <4>1, <4>2
      <4> QED BY <1>1, <1>2, <1>9, <3>3, <4>3 DEF SlotRight
    <3> QED BY <3>2, <3>3
  <2>2. CountsRight(t, E, m, r)
    <3> SUFFICES ASSUME NEW x \in Obj, x \notin s.hurt PROVE CountRight(t, E, m, r, x)
      BY <1>9 DEF CountsRight
    <3>1. CountRight(s, D, m, r, x) BY <1>3 DEF Tallied, CountsRight
    <3>2. Users(t, E, x) = Users(s, D, x) BY <1>4, <1>5, <1>9 DEF Users, Moved
    <3> QED BY <1>2, <3>1, <3>2, CountRightSame
  <2>3. HurtClosed(t) BY <1>2, <1>3, <1>9 DEF Tallied, HurtClosed
  <2>4. MakerRight(t, E, m, w) BY <1>2, <1>3, <1>8, <1>9 DEF Tallied, MakerRight
  <2> QED BY <1>6, <1>9, <2>1, <2>2, <2>3, <2>4 DEF Tallied
<1>10. ASSUME E = D, t.hurt = s.hurt \cup {g} \cup ({s.table[g].fd_inode} \cap Obj)
       PROVE  Tallied(t, E, m, w, r, v, k - 1)
  <2>0. t.hurt = s.hurt \cup {g} BY <1>1, <1>10
  <2>1. SlotsRight(t, D, w, v, k - 1)
    <3> SUFFICES ASSUME NEW h \in Slot, h \notin s.hurt, h # g PROVE SlotRight(t, D, w, v, k - 1, h)
      BY <2>0 DEF SlotsRight
    <3>1. SlotRight(s, D, w, g, k, h) BY <1>3 DEF Tallied, SlotsRight
    <3> QED BY <1>2, <1>7, <3>1 DEF SlotRight
  <2>2. CountsRight(t, D, m, r)
    <3> SUFFICES ASSUME NEW x \in Obj, x \notin s.hurt PROVE CountRight(t, D, m, r, x)
      BY <2>0 DEF CountsRight
    <3>1. CountRight(s, D, m, r, x) BY <1>3 DEF Tallied, CountsRight
    <3>2. Users(t, D, x) = Users(s, D, x) BY <1>4 DEF Users
    <3> QED BY <1>2, <3>1, <3>2, CountRightSame
  <2>3. HurtClosed(t)
    <3> SUFFICES ASSUME NEW h \in Slot, h \in t.hurt, s.table[h].fd_inode \in Obj
                 PROVE  s.table[h].fd_inode \in s.hurt
      BY <1>2, <2>0 DEF HurtClosed
    <3>1. h \in s.hurt BY <1>1, <2>0
    <3> QED BY <1>3, <3>1 DEF Tallied, HurtClosed
  <2>4. MakerRight(t, D, m, w)
    <3> SUFFICES ASSUME w # NULL
                 PROVE  /\ m \notin t.hurt => w \notin t.hurt
                        /\ w \notin t.hurt => Lead(D, w) = {} /\ t.table[w].fd_inode = m
      BY DEF MakerRight
    <3>1. /\ m \notin s.hurt => w \notin s.hurt
          /\ w \notin s.hurt => Lead(D, w) = {} /\ s.table[w].fd_inode = m
      BY <1>3 DEF Tallied, MakerRight
    <3> QED BY <1>1, <1>2, <1>8, <2>0, <3>1
  <2> QED BY <1>3, <1>6, <1>10, <2>1, <2>2, <2>3, <2>4 DEF Tallied
<1>11. \/ /\ t.hurt = s.hurt /\ IsFiniteSet(Used(E)) /\ Lead(E, g) # {}
          /\ Cardinality(Lead(E, g)) = Cardinality(Lead(D, g)) + 1
          /\ \A h \in Slot \ {g} : Lead(E, h) = Lead(D, h)
          /\ \E d \in Ends : At(D, d) = -1 /\ Moved(D, E, d, g)
       \/ E = D /\ t.hurt = s.hurt \cup {g} \cup ({s.table[g].fd_inode} \cap Obj)
  BY <1>0, <1>00, <1>3, InstalledMoved DEF Tallied
<1>12. Tallied(t, E, m, w, r, v, k - 1) BY <1>9, <1>10, <1>11
<1>13. g = w => g \in t.hurt BY DEF Installed
<1> QED BY <1>00, <1>2, <1>12, <1>13

LEMMA TallyPipes ==
    ASSUME NEW s \in OpenFilesState, NEW x \in OpenFilesState, NEW m, NEW w, Calls(m, w),
           w # NULL => Filling(w), NEW r \in Obj \cup {NULL},
           Tallied(s, s.fds, m, w, r, NULL, 0), NEW p \in Process, NEW g \in Slot,
           s.table[g].fd_inode = NULL, Filling(g) => g = w, NEW page \in Page,
           Pipes(s, x, p, g, page)
    PROVE  Tallied(x, x.fds, m, w, r, NULL, 0)
<1>1. PICK u \in OpenFilesState, v \in OpenFilesState, t \in OpenFilesState :
        /\ SlotFilled(s, u, g, page, 2, "pipe")
        /\ Installed(u, v, p, g) /\ Installed(v, t, p, g) /\ Cleared(t, x)
  BY DEF Pipes
<1>2. Tallied(u, u.fds, m, w, r, g, 2) /\ (g = w => g \in u.hurt) /\ u.table[g].fd_inode \in Page
  BY <1>1, TallyPiped
<1>3. Tallied(v, v.fds, m, w, r, g, 1) /\ (g = w => g \in v.hurt) /\ v.table[g].fd_inode \in Page
  <2>1. 2 \in Nat /\ 2 - 1 = 1 OBVIOUS
  <2>2. /\ Tallied(v, v.fds, m, w, r, g, 2 - 1)
        /\ (g = w => g \in v.hurt) /\ v.table[g].fd_inode \in Page
    BY <1>1, <1>2, <2>1, TallyPipeInstalled
  <2> QED BY <2>1, <2>2
<1>4. Tallied(t, t.fds, m, w, r, NULL, 0)
  <2>1. 1 \in Nat /\ 1 - 1 = 0 OBVIOUS
  <2>2. Tallied(t, t.fds, m, w, r, NULL, 1 - 1) BY <1>1, <1>3, <2>1, TallyPipeInstalled
  <2> QED BY <2>1, <2>2
<1>5. m \in Obj \cup {NULL} /\ (w = NULL \/ (w \in Slot /\ Filling(w))) BY DEF Calls
<1> QED BY <1>1, <1>4, <1>5, TalliedCleared

----------------------------------------------------------------------------
(***************************************************************************)
(* What the other processes see of a call of process p: their descriptors  *)
(* stay, and a slot that is read or written does not become a pipe unless  *)
(* it is noted.                                                            *)
(***************************************************************************)
WaitOK(s, d, g) ==
    d \in Ends /\ At(s.fds, d) = g /\ (g \in s.hurt \/ s.table[g].fd_flag # "pipe")

Aside(s, t, p) ==
    /\ \A d \in Ends : d[1] # p => At(t.fds, d) = At(s.fds, d)
    /\ \A d \in Ends, g \in Slot : d[1] # p /\ WaitOK(s, d, g) => WaitOK(t, d, g)

\* No slot gets an inode.
Mild(s, t) == \A g \in Slot : s.table[g].fd_inode \notin Obj => t.table[g].fd_inode \notin Obj

LEMMA AsideTwice ==
    ASSUME NEW s, NEW t, NEW u, NEW p, Aside(s, t, p), Aside(t, u, p)
    PROVE  Aside(s, u, p)
  BY DEF Aside

LEMMA AsideHurt ==
    ASSUME NEW s, NEW t, NEW p, \A d \in Ends : d[1] # p => At(t.fds, d) = At(s.fds, d),
           \A g \in Slot : g \in s.hurt => g \in t.hurt,
           \A g \in Slot : t.table[g].fd_flag = s.table[g].fd_flag
    PROVE  Aside(s, t, p)
  BY DEF Aside, WaitOK

LEMMA AsideFilled ==
    ASSUME NEW s, NEW t, NEW p, NEW g \in Slot, NEW x, t.fds = s.fds, t.hurt = Filled(s, g, x),
           \A h \in Slot \ {g} : t.table[h] = s.table[h]
    PROVE  Aside(s, t, p)
<1>1. \A h \in Slot \ {g} : h \in t.hurt <=> h \in s.hurt BY FilledHurt
<1>2. Lead(s.fds, g) # {} => g \in t.hurt BY FilledHurt
<1>3. ASSUME NEW d \in Ends, NEW h \in Slot, WaitOK(s, d, h) PROVE WaitOK(t, d, h)
  <2>1. CASE h = g
    <3>1. d \in Lead(s.fds, g) BY <1>3, <2>1 DEF WaitOK, Lead
    <3> QED BY <1>2, <1>3, <2>1, <3>1 DEF WaitOK
  <2>2. CASE h # g BY <1>1, <1>3, <2>2 DEF WaitOK
  <2> QED BY <2>1, <2>2
<1> QED BY <1>3 DEF Aside

LEMMA AsideInstalled ==
    ASSUME NEW s, NEW t, NEW p \in Process, NEW g \in Slot, Installed(s, t, p, g)
    PROVE  Aside(s, t, p) /\ Mild(s, t)
<1>1. \A d \in Ends : d[1] # p => At(t.fds, d) = At(s.fds, d)
  <2> SUFFICES ASSUME NEW d \in Ends, d[1] # p PROVE t.fds[d[1]][d[2]] = s.fds[d[1]][d[2]]
    BY DEF At
  <2>1. d[1] \in Process /\ d[2] \in Fd BY DEF Ends
  <2> QED BY <2>1 DEF Installed, Redirected
<1>2. t.table = s.table /\ s.hurt \subseteq t.hurt BY DEF Installed
<1>3. Aside(s, t, p) BY <1>1, <1>2, AsideHurt
<1> QED BY <1>2, <1>3 DEF Mild

LEMMA AsideCleared ==
    ASSUME NEW s, NEW t, NEW p, Cleared(s, t)
    PROVE  Aside(s, t, p) /\ Mild(s, t)
<1>1. NULL \notin Obj /\ Empty.fd_inode = NULL /\ Empty.fd_flag # "pipe" BY Addresses DEF Empty
<1>2. t.fds = s.fds BY DEF Cleared
<1>3. ASSUME NEW d \in Ends, NEW g \in Slot, WaitOK(s, d, g) PROVE WaitOK(t, d, g)
  <2>1. d \in Leads(s, g) BY <1>3 DEF WaitOK, Leads, Ends, At
  <2>2. ~Idle(s, g) BY <2>1 DEF Idle
  <2>3. g \in s.hurt => g \in t.hurt BY <2>2 DEF Cleared
  <2>4. t.table[g] = s.table[g] BY <2>2 DEF Cleared
  <2> QED BY <1>2, <1>3, <2>3, <2>4 DEF WaitOK
<1>4. Mild(s, t) BY <1>1 DEF Cleared, Mild
<1> QED BY <1>2, <1>3, <1>4 DEF Aside

LEMMA AsideClosed ==
    ASSUME NEW s \in OpenFilesState, NEW t \in OpenFilesState, NEW p \in Process, NEW fd \in Fd,
           s.fds[p][fd] # -1, DescriptorClosed(s, t, p, fd)
    PROVE  Aside(s, t, p) /\ Mild(s, t)
<1>1. PICK g \in Slot : g = s.fds[p][fd] BY FieldTypes
<1>2. PICK o \in Obj \cup Page \cup {NULL} : o = s.table[g].fd_inode BY SlotTypes
<1>3. PICK d : d = <<p, fd>> OBVIOUS
<1>4. PICK u : u = Noted(s, d, g) OBVIOUS
<1>5. Redirected(s, t, p, fd, -1) /\ SlotClosed(s, t, g) /\ InodesAfterClose(u, t, o)
  BY <1>1, <1>2, <1>3, <1>4 DEF DescriptorClosed
<1>6. s.hurt \subseteq u.hurt
  <2>1. u.hurt = NotedHurt(s, d, g) BY <1>4, NotedEffect
  <2> QED BY <2>1 DEF NotedHurt
<1>7. NULL \notin Obj /\ Slot \cap Obj = {} BY Addresses
<1>8. \A h \in Slot : h \in u.hurt => h \in t.hurt
  <2>1. CASE o \notin Obj BY <1>5, <2>1 DEF InodesAfterClose
  <2>2. CASE o \in Obj
    <3>1. InodeClosed(u, t, o) BY <1>5, <2>2 DEF InodesAfterClose
    <3> QED BY <1>7, <2>2, <3>1 DEF InodeClosed, InodeDropped, InodeAstray, InodeFreed
  <2> QED BY <2>1, <2>2
<1>9. \A e \in Ends : e[1] # p => At(t.fds, e) = At(s.fds, e)
  <2> SUFFICES ASSUME NEW e \in Ends, e[1] # p PROVE t.fds[e[1]][e[2]] = s.fds[e[1]][e[2]]
    BY DEF At
  <2>1. e[1] \in Process /\ e[2] \in Fd BY DEF Ends
  <2> QED BY <1>5, <2>1 DEF Redirected
<1>10. \A h \in Slot : t.table[h].fd_flag = s.table[h].fd_flag BY <1>5 DEF SlotClosed
<1>11. Aside(s, t, p) BY <1>6, <1>8, <1>9, <1>10, AsideHurt
<1>12. Mild(s, t) BY <1>5, <1>7 DEF SlotClosed, Mild
<1> QED BY <1>11, <1>12

\* exit, one descriptor: as long as no bad pointer is followed it is given up.
LEMMA AsideReleases ==
    ASSUME NEW s \in OpenFilesState, NEW t \in OpenFilesState, NEW p \in Process, NEW fd \in Fd,
           Releases(s, t, p, fd)
    PROVE  /\ Aside(s, t, p) /\ Mild(s, t)
           /\ t.fault = "none" => /\ s.fault = "none" /\ t.fds[p][fd] = -1
                                  /\ \A e \in Fd \ {fd} : t.fds[p][e] = s.fds[p][e]
<1>1. PICK g \in Slot \cup {-1} : g = s.fds[p][fd] BY FieldTypes
<1>2. NULL \notin Obj /\ Slot \cap Obj = {} BY Addresses
<1>3. CASE g = -1
  <2>1. t = s BY <1>1, <1>3 DEF Releases
  <2> QED BY <1>1, <1>3, <2>1 DEF Aside, Mild
<1>4. CASE g # -1 /\ s.table[g].fd_flag # "pipe"
  <2>1. DescriptorClosed(s, t, p, fd) BY <1>1, <1>4 DEF Releases
  <2>2. Aside(s, t, p) /\ Mild(s, t) BY <1>1, <1>4, <2>1, AsideClosed
  <2>3. PICK o \in Obj \cup Page \cup {NULL} : o = s.table[g].fd_inode BY <1>4, SlotTypes
  <2>4. PICK d : d = <<p, fd>> OBVIOUS
  <2>5. PICK u : u = Noted(s, d, g) OBVIOUS
  <2>6. u.fault = s.fault BY <1>4, <2>5, NotedEffect
  <2>7. InodesAfterClose(u, t, o) /\ Redirected(s, t, p, fd, -1)
    BY <1>1, <2>1, <2>3, <2>4, <2>5 DEF DescriptorClosed
  <2>8. s.fault # "none" => t.fault # "none"
    <3>1. CASE o = NULL BY <2>6, <2>7, <3>1 DEF InodesAfterClose
    <3>2. CASE o \in Page BY <2>6, <2>7, <3>2 DEF InodesAfterClose
    <3>3. CASE o \in Obj
      <4>1. InodeClosed(u, t, o) BY <2>7, <3>3 DEF InodesAfterClose
      <4> QED BY <2>6, <4>1 DEF InodeClosed, InodeDropped, InodeAstray, InodeFreed
    <3> QED BY <3>1, <3>2, <3>3
  <2> QED BY <2>2, <2>7, <2>8 DEF Redirected
<1>5. CASE g # -1 /\ PipeLeft(s, t, p, fd) /\ s.table[g].fd_flag = "pipe"
  <2>1. /\ Redirected(s, t, p, fd, -1) /\ t.hurt = s.hurt /\ t.fault = s.fault
        /\ \A h \in Slot : t.table[h].fd_flag = s.table[h].fd_flag
        /\ \A h \in Slot : t.table[h].fd_inode = s.table[h].fd_inode \/ t.table[h].fd_inode = NULL
    BY <1>1, <1>5 DEF PipeLeft
  <2>2. \A e \in Ends : e[1] # p => At(t.fds, e) = At(s.fds, e)
    <3> SUFFICES ASSUME NEW e \in Ends, e[1] # p PROVE t.fds[e[1]][e[2]] = s.fds[e[1]][e[2]]
      BY DEF At
    <3>1. e[1] \in Process /\ e[2] \in Fd BY DEF Ends
    <3> QED BY <2>1, <3>1 DEF Redirected
  <2>3. Aside(s, t, p) BY <2>1, <2>2, AsideHurt
  <2>4. Mild(s, t) BY <1>2, <2>1 DEF Mild
  <2> QED BY <2>1, <2>3, <2>4 DEF Redirected
<1>6. CASE g # -1 /\ ~PipeLeft(s, t, p, fd) /\ s.table[g].fd_flag = "pipe"
  <2>1. t.fds = s.fds /\ t.table = s.table /\ t.hurt = s.hurt /\ t.fault # "none"
    BY <1>1, <1>6 DEF Releases
  <2> QED BY <2>1, AsideHurt DEF Mild
<1> QED BY <1>3, <1>4, <1>5, <1>6

LEMMA AsideCounts ==
    ASSUME NEW s \in OpenFilesState, NEW t \in OpenFilesState, NEW q \in Process, NEW fd \in Fd,
           Counts(s, t, q, fd)
    PROVE  Aside(s, t, q) /\ Mild(s, t)
<1>1. PICK g \in Slot \cup {-1} : g = s.fds[q][fd] BY FieldTypes
<1>2. t.fds = s.fds /\ t.hurt = s.hurt BY DEF Counts
<1>3. \A h \in Slot : t.table[h].fd_flag = s.table[h].fd_flag /\ t.table[h].fd_inode = s.table[h].fd_inode
  <2>1. CASE g = -1 BY <1>1, <2>1 DEF Counts
  <2>2. CASE g # -1 /\ s.table[g].fd_flag = "pipe" BY <1>1, <2>2 DEF Counts
  <2>3. CASE g # -1 /\ s.table[g].fd_flag # "pipe"
    <3>1. t.table = s.table BY <1>1, <2>3 DEF Counts
    <3> QED BY <3>1
  <2> QED BY <2>1, <2>2, <2>3
<1>4. Aside(s, t, q) BY <1>2, <1>3, AsideHurt
<1> QED BY <1>3, <1>4 DEF Mild

LEMMA AsideCopied ==
    ASSUME NEW s, NEW t, NEW p \in Process, NEW q \in Process, Copied(s, t, p, q)
    PROVE  Aside(s, t, q) /\ Mild(s, t)
<1>1. \A e \in Ends : e[1] # q => At(t.fds, e) = At(s.fds, e)
  <2> SUFFICES ASSUME NEW e \in Ends, e[1] # q PROVE t.fds[e[1]][e[2]] = s.fds[e[1]][e[2]]
    BY DEF At
  <2>1. e[1] \in Process /\ e[2] \in Fd BY DEF Ends
  <2> QED BY <2>1 DEF Copied
<1>2. Aside(s, t, q) BY <1>1, AsideHurt DEF Copied
<1> QED BY <1>2 DEF Copied, Mild

\* The calls.
LEMMA AsideOpens ==
    ASSUME NEW s, NEW x, NEW p \in Process, NEW g \in Slot, NEW i, NEW o, NEW flag,
           Opens(s, x, p, g, i, o, flag)
    PROVE  Aside(s, x, p)
<1>1. PICK r \in OpenFilesState, u \in OpenFilesState, v \in OpenFilesState, t \in OpenFilesState :
        OpenedFrom(s, r, u, v, t, p, g, i, o, flag) /\ Cleared(t, x)
  BY DEF Opens
<1>2. Aside(s, r, p)
  <2>1. r.fds = s.fds /\ r.table = s.table /\ r.hurt = s.hurt BY <1>1 DEF OpenedFrom, InodeOpened
  <2> QED BY <2>1, AsideHurt
<1>3. Aside(r, u, p)
  <2>1. /\ u.fds = r.fds /\ u.hurt = Filled(r, g, o)
        /\ \A h \in Slot \ {g} : u.table[h] = r.table[h]
    BY <1>1 DEF OpenedFrom, SlotFilled
  <2> QED BY <2>1, AsideFilled
<1>4. Aside(u, t, p)
  <2>1. CASE Refused(u, t, g, o)
    <3>1. t.fds = u.fds /\ t.table = u.table /\ u.hurt \subseteq t.hurt BY <2>1 DEF Refused
    <3> QED BY <3>1, AsideHurt
  <2>2. CASE Denied(u, v, o) /\ Installed(v, t, p, g)
    <3>1. v.fds = u.fds /\ v.table = u.table /\ v.hurt = u.hurt BY <2>2 DEF Denied
    <3>2. Aside(u, v, p) BY <3>1, AsideHurt
    <3>3. Aside(v, t, p) BY <2>2, AsideInstalled
    <3> QED BY <3>2, <3>3, AsideTwice
  <2>3. CASE Installed(u, t, p, g) BY <2>3, AsideInstalled
  <2> QED BY <1>1, <2>1, <2>2, <2>3 DEF OpenedFrom
<1>5. Aside(t, x, p) BY <1>1, AsideCleared
<1>6. Aside(s, u, p) BY <1>2, <1>3, AsideTwice
<1>7. Aside(s, t, p) BY <1>4, <1>6, AsideTwice
<1> QED BY <1>5, <1>7, AsideTwice

LEMMA AsideLinks ==
    ASSUME NEW s, NEW x, NEW p \in Process, NEW g \in Slot, NEW o, Links(s, x, p, g, o)
    PROVE  Aside(s, x, p)
<1>1. PICK u \in OpenFilesState, t \in OpenFilesState :
        Linked(s, u, o) /\ Installed(u, t, p, g) /\ Cleared(t, x)
  BY DEF Links
<1>2. u.fds = s.fds /\ u.table = s.table /\ u.hurt = s.hurt BY <1>1 DEF Linked
<1>3. Aside(s, u, p) BY <1>2, AsideHurt
<1>4. Aside(u, t, p) /\ Aside(t, x, p) BY <1>1, AsideInstalled, AsideCleared
<1>5. Aside(s, t, p) BY <1>3, <1>4, AsideTwice
<1> QED BY <1>4, <1>5, AsideTwice

LEMMA AsideUnmakes ==
    ASSUME NEW s, NEW x, NEW p, NEW g \in Slot, NEW o \in Obj, Unmakes(s, x, g, o)
    PROVE  Aside(s, x, p)
<1>1. PICK t \in OpenFilesState : Unmade(s, t, g, o) /\ Cleared(t, x) BY DEF Unmakes
<1>2. Slot \cap Obj = {} /\ Empty.fd_flag # "pipe" BY Addresses DEF Empty
<1>3. /\ t.fds = s.fds /\ t.hurt = s.hurt \ {o} /\ t.table[g].fd_flag # "pipe"
      /\ \A h \in Slot \ {g} : t.table[h] = s.table[h]
  BY <1>1, <1>2 DEF Unmade
<1>4. Aside(s, t, p) BY <1>2, <1>3 DEF Aside, WaitOK
<1>5. Aside(t, x, p) BY <1>1, AsideCleared
<1> QED BY <1>4, <1>5, AsideTwice

LEMMA AsideForgets ==
    ASSUME NEW s, NEW x, NEW p, NEW i, NEW o \in Obj, Forgets(s, x, i, o)
    PROVE  Aside(s, x, p)
<1>1. PICK u \in OpenFilesState, t \in OpenFilesState :
        /\ Gone(s, u, i) /\ InodeClosed(u, t, o) /\ t.fds = s.fds /\ t.table = s.table
        /\ Cleared(t, x)
  BY DEF Forgets
<1>2. Slot \cap Obj = {} BY Addresses
<1>3. u.hurt = s.hurt BY <1>1 DEF Gone
<1>4. \A h \in Slot : h \in s.hurt => h \in t.hurt
  BY <1>1, <1>2, <1>3 DEF InodeClosed, InodeDropped, InodeAstray, InodeFreed
<1>5. Aside(s, t, p) BY <1>1, <1>4, AsideHurt
<1>6. Aside(t, x, p) BY <1>1, AsideCleared
<1> QED BY <1>5, <1>6, AsideTwice

LEMMA AsideMade ==
    ASSUME NEW s, NEW x, NEW p, NEW g \in Slot, NEW o, NEW i, NEW flag, Made(s, x, g, o, i, flag)
    PROVE  Aside(s, x, p)
<1>1. /\ x.fds = s.fds /\ x.hurt = Filled(s, g, o)
      /\ \A h \in Slot \ {g} : x.table[h] = s.table[h]
  BY DEF Made
<1> QED BY <1>1, AsideFilled

LEMMA AsideCloses ==
    ASSUME NEW s \in OpenFilesState, NEW x, NEW p \in Process, NEW fd \in Fd,
           s.fds[p][fd] # -1, Closes(s, x, p, fd)
    PROVE  Aside(s, x, p) /\ Mild(s, x)
<1>1. PICK t \in OpenFilesState : DescriptorClosed(s, t, p, fd) /\ Cleared(t, x) BY DEF Closes
<1>2. Aside(s, t, p) /\ Mild(s, t) BY <1>1, AsideClosed
<1>3. Aside(t, x, p) /\ Mild(t, x) BY <1>1, AsideCleared
<1>4. Aside(s, x, p) BY <1>2, <1>3, AsideTwice
<1> QED BY <1>2, <1>3, <1>4 DEF Mild

LEMMA AsidePipes ==
    ASSUME NEW s, NEW x, NEW p \in Process, NEW g \in Slot, NEW page \in Page,
           Pipes(s, x, p, g, page)
    PROVE  Aside(s, x, p) /\ Mild(s, x)
<1>1. PICK u \in OpenFilesState, v \in OpenFilesState, t \in OpenFilesState :
        /\ SlotFilled(s, u, g, page, 2, "pipe")
        /\ Installed(u, v, p, g) /\ Installed(v, t, p, g) /\ Cleared(t, x)
  BY DEF Pipes
<1>2. /\ u.fds = s.fds /\ u.hurt = Filled(s, g, page) /\ u.table[g].fd_inode = page
      /\ \A h \in Slot \ {g} : u.table[h] = s.table[h]
  BY <1>1 DEF SlotFilled
<1>3. Aside(s, u, p) BY <1>2, AsideFilled
<1>4. Mild(s, u) BY <1>2, Addresses DEF Mild
<1>5. Aside(u, v, p) /\ Mild(u, v) BY <1>1, AsideInstalled
<1>6. Aside(v, t, p) /\ Mild(v, t) BY <1>1, AsideInstalled
<1>7. Aside(t, x, p) /\ Mild(t, x) BY <1>1, AsideCleared
<1>8. Aside(s, v, p) BY <1>3, <1>5, AsideTwice
<1>9. Aside(s, t, p) BY <1>6, <1>8, AsideTwice
<1>10. Aside(s, x, p) BY <1>7, <1>9, AsideTwice
<1> QED BY <1>4, <1>5, <1>6, <1>7, <1>10 DEF Mild

LEMMA AsideForks ==
    ASSUME NEW s \in OpenFilesState, NEW x, NEW p \in Process, NEW q \in Process, NEW done,
           Forks(s, x, done, p, q)
    PROVE  Aside(s, x, q) /\ Mild(s, x)
<1>0. MAX_FDS \in Nat /\ Fd = 1..MAX_FDS BY Addresses DEF Fd
<1>1. /\ \A i \in 0..MAX_FDS : done[i] \in OpenFilesState
      /\ Copied(s, done[0], p, q)
      /\ \A i \in 1..MAX_FDS : Counts(done[i - 1], done[i], q, i)
      /\ Cleared(done[MAX_FDS], x)
  BY DEF Forks
<1> DEFINE S == {i \in 0..MAX_FDS : Aside(s, done[i], q) /\ Mild(s, done[i])}
<1>2. 0 \in S BY <1>0, <1>1, AsideCopied
<1>3. ASSUME NEW i \in 1..MAX_FDS, i - 1 \in S PROVE i \in S
  <2>1. i \in Fd /\ i \in 0..MAX_FDS /\ i - 1 \in 0..MAX_FDS BY <1>0
  <2>2. Aside(done[i - 1], done[i], q) /\ Mild(done[i - 1], done[i]) BY <1>1, <2>1, AsideCounts
  <2>3. Aside(s, done[i], q) BY <1>3, <2>2, AsideTwice
  <2>4. Mild(s, done[i]) BY <1>3, <2>2 DEF Mild
  <2> QED BY <2>1, <2>3, <2>4
<1>4. \A i \in 0..MAX_FDS : i \in S
  <2> HIDE DEF S
  <2> QED BY <1>0, <1>2, <1>3, Passes
<1>5. Aside(s, done[MAX_FDS], q) /\ Mild(s, done[MAX_FDS]) BY <1>0, <1>4
<1>6. Aside(done[MAX_FDS], x, q) /\ Mild(done[MAX_FDS], x) BY <1>1, AsideCleared
<1>7. Aside(s, x, q) BY <1>5, <1>6, AsideTwice
<1> QED BY <1>5, <1>6, <1>7 DEF Mild

LEMMA AsideExits ==
    ASSUME NEW s \in OpenFilesState, NEW x, NEW p \in Process, NEW done, Exits(s, x, done, p)
    PROVE  /\ Aside(s, x, p) /\ Mild(s, x)
           /\ x.fault = "none" => \A fd \in Fd : x.fds[p][fd] = -1
<1>0. MAX_FDS \in Nat /\ Fd = 1..MAX_FDS BY Addresses DEF Fd
<1>1. /\ \A i \in 0..MAX_FDS : done[i] \in OpenFilesState
      /\ done[0] = s
      /\ \A i \in 1..MAX_FDS : Releases(done[i - 1], done[i], p, i)
      /\ Cleared(done[MAX_FDS], x)
  BY DEF Exits
<1> DEFINE S == {i \in 0..MAX_FDS :
                   /\ Aside(s, done[i], p) /\ Mild(s, done[i])
                   /\ done[i].fault = "none" => \A e \in Fd : e <= i => done[i].fds[p][e] = -1}
<1>2. 0 \in S
  <2>1. Aside(s, s, p) /\ Mild(s, s) BY DEF Aside, Mild
  <2>2. \A e \in Fd : ~(e <= 0) BY <1>0
  <2> QED BY <1>0, <1>1, <2>1, <2>2
<1>3. ASSUME NEW i \in 1..MAX_FDS, i - 1 \in S PROVE i \in S
  <2>1. i \in Fd /\ i \in 0..MAX_FDS /\ i - 1 \in 0..MAX_FDS BY <1>0
  <2>2. PICK a \in OpenFilesState, b \in OpenFilesState : a = done[i - 1] /\ b = done[i]
    BY <1>1, <2>1
  <2>3. /\ Aside(a, b, p) /\ Mild(a, b)
        /\ b.fault = "none" => /\ a.fault = "none" /\ b.fds[p][i] = -1
                               /\ \A e \in Fd \ {i} : b.fds[p][e] = a.fds[p][e]
    BY <1>1, <2>1, <2>2, AsideReleases
  <2>4. /\ Aside(s, a, p) /\ Mild(s, a)
        /\ a.fault = "none" => \A e \in Fd : e <= i - 1 => a.fds[p][e] = -1
    BY <1>3, <2>2
  <2>5. Aside(s, b, p) BY <2>3, <2>4, AsideTwice
  <2>6. Mild(s, b) BY <2>3, <2>4 DEF Mild
  <2>7. ASSUME b.fault = "none", NEW e \in Fd, e <= i PROVE b.fds[p][e] = -1
    <3>1. e = i \/ e <= i - 1 BY <1>0, <2>7
    <3> QED BY <2>3, <2>4, <2>7, <3>1
  <2> QED BY <2>1, <2>2, <2>5, <2>6, <2>7
<1>4. \A i \in 0..MAX_FDS : i \in S
  <2> HIDE DEF S
  <2> QED BY <1>0, <1>2, <1>3, Passes
<1>5. PICK b : b = done[MAX_FDS] OBVIOUS
<1>6. /\ Aside(s, b, p) /\ Mild(s, b)
      /\ b.fault = "none" => \A e \in Fd : e <= MAX_FDS => b.fds[p][e] = -1
  BY <1>0, <1>4, <1>5
<1>7. Cleared(b, x) BY <1>1, <1>5
<1> HIDE DEF S
<1>8. Aside(b, x, p) /\ Mild(b, x) BY <1>7, AsideCleared
<1>9. Aside(s, x, p) BY <1>6, <1>8, AsideTwice
<1>10. x.fds = b.fds /\ x.fault = b.fault BY <1>7 DEF Cleared
<1>11. \A e \in Fd : e <= MAX_FDS BY <1>0
<1> QED BY <1>6, <1>8, <1>9, <1>10, <1>11 DEF Mild

\* Who is waiting.  A process that is not alive has no descriptor; one that
\* waits in file_read() or file_write() is alive and has the descriptor it waits
\* on; the process of the call in progress does nothing else, and the slot that
\* an open call has chosen holds no inode.
Resting(s, A) == \A q \in Process \ A : \A fd \in Fd : s.fds[q][fd] = -1
Waits(s, A, R) ==
    \A q \in Process : R[q] # NULL => q \in A /\ \E fd \in Fd : WaitOK(s, <<q, fd>>, R[q])
CallRight(s, A, R, c) ==
    c # NULL => /\ c.p \in A /\ R[c.p] = NULL
                /\ c.op = "open" => s.table[c.slot].fd_inode \notin Obj

\* Only what a pipe lacks stops the machine while no slot is hurt.
Excused(s) == s.fault \notin {"none", "pipe.c:17", "pipe.c:19"} => s.hurt \cap Slot # {}

Right(s, A, R, c, m, w, r) ==
    /\ Tallied(s, s.fds, m, w, r, NULL, 0)
    /\ Resting(s, A) /\ Waits(s, A, R) /\ CallRight(s, A, R, c)

AccInv == Excused(f) /\ (f.fault = "none" => Right(f, alive, rw, call, Maker, Target, Releaser))

\* A call of p, after which the processes of B are alive.
LEMMA ActorsKept ==
    ASSUME NEW s, NEW t, NEW A, NEW B, NEW R \in [Process -> Slot \cup {NULL}], NEW p \in Process,
           Resting(s, A), Waits(s, A, R), Aside(s, t, p), R[p] = NULL,
           A \ {p} \subseteq B, p \in B \/ \A fd \in Fd : t.fds[p][fd] = -1
    PROVE  Resting(t, B) /\ Waits(t, B, R)
<1>1. ASSUME NEW q \in Process \ B, NEW fd \in Fd PROVE t.fds[q][fd] = -1
  <2>1. CASE q = p BY <1>1, <2>1
  <2>2. CASE q # p
    <3>1. <<q, fd>> \in Ends /\ <<q, fd>>[1] = q BY <1>1 DEF Ends
    <3>2. At(t.fds, <<q, fd>>) = At(s.fds, <<q, fd>>) BY <2>2, <3>1 DEF Aside
    <3>3. t.fds[q][fd] = s.fds[q][fd] BY <3>2 DEF At
    <3>4. q \in Process \ A BY <1>1, <2>2
    <3> QED BY <3>3, <3>4 DEF Resting
  <2> QED BY <2>1, <2>2
<1>2. ASSUME NEW q \in Process, R[q] # NULL
      PROVE  q \in B /\ \E fd \in Fd : WaitOK(t, <<q, fd>>, R[q])
  <2>1. q # p /\ R[q] \in Slot BY <1>2
  <2>2. q \in A BY <1>2 DEF Waits
  <2>3. PICK fd \in Fd : WaitOK(s, <<q, fd>>, R[q]) BY <1>2 DEF Waits
  <2>4. <<q, fd>> \in Ends /\ <<q, fd>>[1] # p BY <2>1 DEF Ends
  <2>5. WaitOK(t, <<q, fd>>, R[q]) BY <2>1, <2>3, <2>4 DEF Aside
  <2> QED BY <2>1, <2>2, <2>5
<1>3. Resting(t, B) BY <1>1 DEF Resting
<1>4. Waits(t, B, R) BY <1>2 DEF Waits
<1> QED BY <1>3, <1>4

LEMMA CallKept ==
    ASSUME NEW s, NEW t, NEW A, NEW B, NEW R, NEW c, CallRight(s, A, R, c), Mild(s, t),
           c # NULL => c.p \in B, c # NULL /\ c.op = "open" => c.slot \in Slot
    PROVE  CallRight(t, B, R, c)
  BY DEF CallRight, Mild

\* What a call in progress is filling.
LEMMA CallUsers ==
    ASSUME TypeOK
    PROVE  /\ Calls(Maker, Target) /\ Releaser \in Obj \cup {NULL}
           /\ Target = NULL \/ Filling(Target)
           /\ \A g \in Slot : Filling(g) => g = Target
           /\ call = NULL \/ call.op # "create" => \A g \in Slot : ~Filling(g)
<1>1. NULL \notin Obj BY Addresses
<1>2. /\ Maker \in Obj \cup {NULL} /\ Target \in Slot \cup {NULL} /\ Releaser \in Obj \cup {NULL}
      /\ call # NULL /\ call.op = "create" => call.obj \in Obj
  BY CoverTypes, CallTypes
<1> QED BY <1>1, <1>2 DEF Calls, Maker, Target, Filling

\* The state before a step.
LEMMA AccBefore ==
    ASSUME Inductive, AccInv, f.fault = "none"
    PROVE  /\ f \in OpenFilesState /\ Cover(f, Maker, Releaser, Target)
           /\ Tallied(f, f.fds, Maker, Target, Releaser, NULL, 0)
           /\ Tally(f, f.fds, Maker, Target, Releaser)
           /\ Resting(f, alive) /\ Waits(f, alive, rw) /\ CallRight(f, alive, rw, call)
           /\ rw \in [Process -> Slot \cup {NULL}] /\ alive \subseteq Process
           /\ call # NULL => call.p \in alive /\ rw[call.p] = NULL
           /\ call = NULL => Maker = NULL /\ Target = NULL /\ Releaser = NULL
           /\ call # NULL /\ call.op = "open" => Maker = NULL /\ Target = NULL /\ Releaser = NULL
           /\ call # NULL /\ call.op = "create" =>
                Maker = call.obj /\ Target = call.slot /\ Releaser = NULL
           /\ call # NULL /\ call.op = "unlink" =>
                Maker = NULL /\ Target = NULL /\ Releaser = call.obj
  BY CoverTypes DEF Inductive, TypeOK, CoverInv, AccInv, Right, Tally, CallRight

\* A step after which no call is in progress.
LEMMA AccIdle ==
    ASSUME f'.fault = "none", call' = NULL, Tallied(f', f'.fds, NULL, NULL, NULL, NULL, 0),
           Resting(f', alive'), Waits(f', alive', rw')
    PROVE  AccInv'
<1>1. Maker' = NULL /\ Target' = NULL /\ Releaser' = NULL BY DEF Maker, Target, Releaser
<1>2. CallRight(f', alive', rw', call') BY DEF CallRight
<1>3. Right(f', alive', rw', call', Maker', Target', Releaser') BY <1>1, <1>2 DEF Right
<1> QED BY <1>3 DEF AccInv, Excused

\* A step that leaves the call in progress alone.
LEMMA AccKept ==
    ASSUME UNCHANGED call, Tally(f', f'.fds, Maker, Target, Releaser),
           f'.fault = "none" => /\ Resting(f', alive') /\ Waits(f', alive', rw')
                                /\ CallRight(f', alive', rw', call)
    PROVE  AccInv'
<1>1. Maker' = Maker /\ Target' = Target /\ Releaser' = Releaser BY DEF Maker, Target, Releaser
<1>2. ASSUME f'.fault = "none" PROVE Right(f', alive', rw', call', Maker', Target', Releaser')
  BY <1>1, <1>2 DEF Right, Tally
<1>3. Excused(f') BY DEF Excused, Tally
<1> QED BY <1>2, <1>3 DEF AccInv

\* file_open() follows no bad pointer.
LEMMA OpensFault ==
    ASSUME NEW s, NEW x, NEW p, NEW g, NEW i, NEW o, NEW flag, Opens(s, x, p, g, i, o, flag)
    PROVE  x.fault = s.fault
  BY DEF Opens, OpenedFrom, InodeOpened, SlotFilled, Refused, Denied, Installed, Cleared

LEMMA AccOpenCached ==
    ASSUME Inductive, AccInv, NEW p \in Process, NEW n \in Name, NEW flag \in {"r", "w"},
           OpenCached(p, n, flag)
    PROVE  AccInv'
<1>1. PICK g \in Slot, o \in Obj :
        f.table[g].fd_inode = NULL /\ Opens(f, f', p, g, entry[n], o, flag)
  BY OpenCachedStep
<1>2. /\ f.fault = "none" /\ p \in alive /\ rw[p] = NULL /\ call = NULL
      /\ UNCHANGED <<alive, call, rw>>
  BY DEF OpenCached, ReadyForDisk, Ready
<1>3. NULL \notin Obj BY Addresses
<1>4. /\ Tallied(f, f.fds, NULL, NULL, NULL, NULL, 0) /\ Cover(f, NULL, NULL, NULL)
      /\ Resting(f, alive) /\ Waits(f, alive, rw) /\ f \in OpenFilesState /\ ~Filling(g)
      /\ rw \in [Process -> Slot \cup {NULL}]
  BY <1>2, AccBefore, CallUsers DEF Inductive
<1>5. f' \in OpenFilesState BY OpenCachedStep DEF Inductive, TypeOK
<1>6. Tallied(f', f'.fds, NULL, NULL, NULL, NULL, 0) BY <1>1, <1>3, <1>4, <1>5, TallyOpens
<1>7. Aside(f, f', p) BY <1>1, AsideOpens
<1>8. Resting(f', alive) /\ Waits(f', alive, rw) BY <1>2, <1>4, <1>7, ActorsKept
<1>9. f'.fault = "none" BY <1>1, <1>2, OpensFault
<1> QED BY <1>2, <1>6, <1>8, <1>9, AccIdle

LEMMA AccOpen ==
    ASSUME Inductive, AccInv, NEW p \in Process, NEW n \in Name, NEW flag \in {"r", "w"},
           Open(p, n, flag)
    PROVE  AccInv'
<1>1. /\ f' = f /\ call' # NULL /\ call'.op = "open" /\ call'.p = p /\ call'.slot \in Slot
      /\ f.table[call'.slot].fd_inode = NULL
  BY OpenStep
<1>2. /\ f.fault = "none" /\ p \in alive /\ rw[p] = NULL /\ call = NULL
      /\ UNCHANGED <<alive, rw>>
  BY DEF Open, ReadyForDisk, Ready
<1>3. /\ Tallied(f, f.fds, NULL, NULL, NULL, NULL, 0) /\ Resting(f, alive) /\ Waits(f, alive, rw)
  BY <1>2, AccBefore
<1>4. Maker' = NULL /\ Target' = NULL /\ Releaser' = NULL BY <1>1 DEF Maker, Target, Releaser
<1>5. CallRight(f', alive', rw', call') BY <1>1, <1>2, Addresses DEF CallRight
<1>6. Right(f', alive', rw', call', Maker', Target', Releaser')
  BY <1>1, <1>2, <1>3, <1>4, <1>5 DEF Right
<1> QED BY <1>1, <1>2, <1>6 DEF AccInv, Excused

LEMMA AccOpenRead ==
    ASSUME Inductive, AccInv, OpenRead
    PROVE  AccInv'
<1>1. /\ call # NULL /\ call.op = "open" /\ call.p \in Process /\ call.slot \in Slot
      /\ call.ino \in Ino
  BY OpenReadStep
<1>2. PICK p \in Process, g \in Slot, i \in Ino, flag \in {"r", "w"} :
        p = call.p /\ g = call.slot /\ i = call.ino /\ flag = call.flag
  BY <1>1, CallTypes DEF Inductive
<1>3. PICK o \in Obj : Opens(f, f', p, g, i, o, flag) BY <1>2, OpenReadStep
<1>4. f.fault = "none" /\ call' = NULL /\ UNCHANGED <<alive, rw>> BY DEF OpenRead, Continues
<1>5. /\ Tallied(f, f.fds, NULL, NULL, NULL, NULL, 0) /\ Cover(f, NULL, NULL, NULL)
      /\ Resting(f, alive) /\ Waits(f, alive, rw) /\ f \in OpenFilesState /\ ~Filling(g)
      /\ rw \in [Process -> Slot \cup {NULL}] /\ p \in alive /\ rw[p] = NULL
      /\ f.table[g].fd_inode \notin Obj
  BY <1>1, <1>2, <1>4, AccBefore, CallUsers DEF Inductive, CallRight
<1>6. f' \in OpenFilesState BY OpenReadStep DEF Inductive, TypeOK
<1>7. Tallied(f', f'.fds, NULL, NULL, NULL, NULL, 0) BY <1>3, <1>5, <1>6, TallyOpens
<1>8. Aside(f, f', p) BY <1>3, AsideOpens
<1>9. Resting(f', alive) /\ Waits(f', alive, rw) BY <1>5, <1>8, ActorsKept
<1>10. f'.fault = "none" BY <1>3, <1>4, OpensFault
<1> QED BY <1>4, <1>7, <1>9, <1>10, AccIdle

LEMMA AccCreate ==
    ASSUME Inductive, AccInv, NEW p \in Process, NEW n \in Name, NEW flag \in {"r", "w"},
           Create(p, n, flag)
    PROVE  AccInv'
<1>1. PICK g \in Slot, o \in Obj, i \in Ino \ bitmap :
        /\ f.table[g].fd_inode = NULL /\ f.inode[o] = NULL /\ Made(f, f', g, o, i, flag)
        /\ call' # NULL /\ call' = [op |-> "create", p |-> p, name |-> n, slot |-> g, obj |-> o]
  BY CreateStep
<1>2. /\ f.fault = "none" /\ p \in alive /\ rw[p] = NULL /\ call = NULL
      /\ UNCHANGED <<alive, rw>>
  BY DEF Create, ReadyForDisk, Ready
<1>3. /\ Tallied(f, f.fds, NULL, NULL, NULL, NULL, 0) /\ Cover(f, NULL, NULL, NULL)
      /\ Resting(f, alive) /\ Waits(f, alive, rw) /\ f \in OpenFilesState /\ ~Filling(g)
      /\ rw \in [Process -> Slot \cup {NULL}]
  BY <1>2, AccBefore, CallUsers DEF Inductive
<1>4. f' \in OpenFilesState BY CreateStep DEF Inductive, TypeOK
<1>5. Tallied(f', f'.fds, o, g, NULL, NULL, 0) BY <1>1, <1>3, <1>4, TallyMade
<1>6. Aside(f, f', p) BY <1>1, AsideMade
<1>7. Resting(f', alive) /\ Waits(f', alive, rw) BY <1>2, <1>3, <1>6, ActorsKept
<1>8. f'.fault = "none" BY <1>1, <1>2 DEF Made
<1>9. Maker' = o /\ Target' = g /\ Releaser' = NULL BY <1>1 DEF Maker, Target, Releaser
<1>10. CallRight(f', alive', rw', call') BY <1>1, <1>2 DEF CallRight
<1>11. Right(f', alive', rw', call', Maker', Target', Releaser')
  BY <1>2, <1>5, <1>7, <1>9, <1>10 DEF Right
<1> QED BY <1>8, <1>11 DEF AccInv, Excused

LEMMA AccCreated ==
    ASSUME Inductive, AccInv, Created \/ CreateFails
    PROVE  AccInv'
<1>1. Continues("create") BY DEF Created, CreateFails
<1>2. /\ call # NULL /\ call.op = "create" /\ call.p \in Process /\ call.slot \in Slot
      /\ call.obj \in Obj
  BY <1>1, CreateCall
<1>3. PICK p \in Process, g \in Slot, o \in Obj : p = call.p /\ g = call.slot /\ o = call.obj
  BY <1>2
<1>4. f.fault = "none" /\ call' = NULL /\ UNCHANGED <<alive, rw>>
  BY DEF Created, CreateFails, Continues
<1>5. /\ Tallied(f, f.fds, o, g, NULL, NULL, 0) /\ Cover(f, o, NULL, g)
      /\ Resting(f, alive) /\ Waits(f, alive, rw) /\ f \in OpenFilesState
      /\ rw \in [Process -> Slot \cup {NULL}] /\ p \in alive /\ rw[p] = NULL
  BY <1>2, <1>3, <1>4, AccBefore
<1>6. f' \in OpenFilesState BY CreatedStep, CreateFailsStep DEF Inductive, TypeOK
<1>7. Links(f, f', p, g, o) \/ Unmakes(f, f', g, o) BY <1>3, CreatedStep, CreateFailsStep
<1>8. Tallied(f', f'.fds, NULL, NULL, NULL, NULL, 0)
  BY <1>5, <1>6, <1>7, TallyLinks, TallyUnmakes
<1>9. Aside(f, f', p) BY <1>7, AsideLinks, AsideUnmakes
<1>10. Resting(f', alive) /\ Waits(f', alive, rw) BY <1>5, <1>9, ActorsKept
<1>11. f'.fault = "none"
  BY <1>4, <1>7 DEF Links, Unmakes, Linked, Unmade, Installed, Cleared
<1> QED BY <1>4, <1>8, <1>10, <1>11, AccIdle

LEMMA AccUnlink ==
    ASSUME Inductive, AccInv, NEW p \in Process, NEW n \in Name, Unlink(p, n)
    PROVE  AccInv'
<1>1. /\ f' = f /\ call' # NULL
      /\ call' = [op |-> "unlink", p |-> p, name |-> n, ino |-> entry[n], obj |-> NULL]
  BY UnlinkStep
<1>2. /\ f.fault = "none" /\ p \in alive /\ rw[p] = NULL /\ call = NULL
      /\ UNCHANGED <<alive, rw>>
  BY DEF Unlink, ReadyForDisk, Ready
<1>3. /\ Tallied(f, f.fds, NULL, NULL, NULL, NULL, 0) /\ Resting(f, alive) /\ Waits(f, alive, rw)
  BY <1>2, AccBefore
<1>4. Maker' = NULL /\ Target' = NULL /\ Releaser' = NULL BY <1>1 DEF Maker, Target, Releaser
<1>5. CallRight(f', alive', rw', call') BY <1>1, <1>2 DEF CallRight
<1>6. Right(f', alive', rw', call', Maker', Target', Releaser')
  BY <1>1, <1>2, <1>3, <1>4, <1>5 DEF Right
<1> QED BY <1>1, <1>2, <1>6 DEF AccInv, Excused

LEMMA AccUnlinkOpens ==
    ASSUME Inductive, AccInv, UnlinkOpens
    PROVE  AccInv'
<1>1. PICK o \in Obj : InodeOpened(f, f', call.ino, o) /\ call' # NULL /\ call' = [call EXCEPT !.obj = o]
  BY UnlinkOpensStep
<1>2. /\ f.fault = "none" /\ call # NULL /\ call.op = "unlink" /\ call.obj = NULL
      /\ call \in CallState /\ call.p \in Process /\ UNCHANGED <<alive, rw>>
  BY CallTypes DEF UnlinkOpens, Continues, Inductive
<1>3. PICK p \in Process : p = call.p BY <1>2
<1>4. /\ Tallied(f, f.fds, NULL, NULL, NULL, NULL, 0) /\ Cover(f, NULL, NULL, NULL)
      /\ Resting(f, alive) /\ Waits(f, alive, rw) /\ f \in OpenFilesState
      /\ rw \in [Process -> Slot \cup {NULL}] /\ p \in alive /\ rw[p] = NULL
  BY <1>2, <1>3, AccBefore
<1>5. f' \in OpenFilesState BY UnlinkOpensStep DEF Inductive, TypeOK
<1>6. f'.fds = f.fds /\ f'.hurt = f.hurt /\ f'.table = f.table /\ f'.fault = "none"
  BY <1>1, <1>2 DEF InodeOpened
<1>7. Tallied(f', f'.fds, NULL, NULL, o, NULL, 0) BY <1>1, <1>4, <1>5, <1>6, TallyOpened
<1>8. Aside(f, f', p) BY <1>6, AsideHurt
<1>9. Resting(f', alive) /\ Waits(f', alive, rw) BY <1>4, <1>8, ActorsKept
<1>10. call'.op = "unlink" /\ call'.obj = o /\ call'.p = p BY <1>1, <1>2, <1>3 DEF CallState
<1>11. Maker' = NULL /\ Target' = NULL /\ Releaser' = o
  BY <1>1, <1>10 DEF Maker, Target, Releaser
<1>12. CallRight(f', alive', rw', call') BY <1>2, <1>4, <1>10 DEF CallRight
<1>13. Right(f', alive', rw', call', Maker', Target', Releaser')
  BY <1>2, <1>7, <1>9, <1>11, <1>12 DEF Right
<1> QED BY <1>6, <1>13 DEF AccInv, Excused

LEMMA AccUnlinked ==
    ASSUME Inductive, AccInv, Unlinked
    PROVE  AccInv'
<1>1. /\ call # NULL /\ call.op = "unlink" /\ call.obj \in Obj /\ call.p \in Process
  BY UnlinkedStep, CallTypes DEF Inductive
<1>2. PICK p \in Process, o \in Obj : p = call.p /\ o = call.obj BY <1>1
<1>3. Forgets(f, f', call.ino, o) BY <1>2, UnlinkedStep
<1>4. f.fault = "none" /\ call' = NULL /\ UNCHANGED <<alive, rw>> BY DEF Unlinked, Continues
<1>5. /\ Tallied(f, f.fds, NULL, NULL, o, NULL, 0) /\ Cover(f, NULL, o, NULL)
      /\ Resting(f, alive) /\ Waits(f, alive, rw) /\ f \in OpenFilesState
      /\ rw \in [Process -> Slot \cup {NULL}] /\ p \in alive /\ rw[p] = NULL
  BY <1>1, <1>2, <1>4, AccBefore
<1>6. f' \in OpenFilesState BY UnlinkedStep DEF Inductive, TypeOK
<1>7. f'.fault = "none" /\ Tallied(f', f'.fds, NULL, NULL, NULL, NULL, 0)
  BY <1>3, <1>4, <1>5, <1>6, TallyForgets
<1>8. Aside(f, f', p) BY <1>3, AsideForgets
<1>9. Resting(f', alive) /\ Waits(f', alive, rw) BY <1>5, <1>8, ActorsKept
<1> QED BY <1>4, <1>7, <1>9, AccIdle

LEMMA TallyFaults ==
    ASSUME NEW s \in OpenFilesState, NEW t, NEW m, NEW w, NEW r,
           NEW line \in Site, Faults(s, t, line), NEW g \in s.hurt \cap Slot
    PROVE  Tally(t, t.fds, m, w, r) /\ t.fault # "none"
  BY DEF Tally, Faults, Site

\* A slot that a descriptor leads to and that nothing has hurt holds something;
\* what is no pipe is a file.
LEMMA LedTo ==
    ASSUME NEW s \in OpenFilesState, NEW D, NEW m, NEW w, NEW r, Tallied(s, D, m, w, r, NULL, 0),
           NEW d \in Ends, NEW g \in Slot, At(D, d) = g, g \notin s.hurt
    PROVE  /\ s.table[g].fd_inode # NULL
           /\ s.table[g].fd_flag # "pipe" => s.table[g].fd_inode \in Obj
<1>1. d \in Lead(D, g) BY DEF Lead
<1>2. s.table[g].fd_inode # NULL BY <1>1 DEF Tallied, SlotsRight, SlotRight
<1>3. s.table[g].fd_inode \in Obj \cup Page \cup {NULL} BY SlotTypes
<1> QED BY <1>2, <1>3 DEF Tallied, FlagsRight

LEMMA AccTransfer ==
    ASSUME Inductive, AccInv, NEW p \in Process, NEW fd \in Fd, Transfer(p, fd)
    PROVE  AccInv'
<1>1. PICK g \in Slot : g = f.fds[p][fd] BY TransferStep
<1>2. f.table[g].fd_flag # "pipe" BY <1>1, TransferStep
<1>3. \/ f' = f /\ rw' = [rw EXCEPT ![p] = g]
      \/ f.table[g].fd_inode = NULL /\ Faults(f, f', "file.c:218")
  BY <1>1, TransferStep
<1>4. /\ f.fault = "none" /\ p \in alive /\ rw[p] = NULL /\ (call # NULL => call.p # p)
      /\ UNCHANGED <<alive, call>>
  BY DEF Transfer, Ready
<1>5. /\ Tallied(f, f.fds, Maker, Target, Releaser, NULL, 0)
      /\ Tally(f, f.fds, Maker, Target, Releaser)
      /\ Resting(f, alive) /\ Waits(f, alive, rw) /\ f \in OpenFilesState
      /\ rw \in [Process -> Slot \cup {NULL}] /\ CallRight(f, alive, rw, call)
      /\ call # NULL => call.p \in Process
  BY <1>4, AccBefore, CallTypes DEF Inductive
<1>6. <<p, fd>> \in Ends /\ At(f.fds, <<p, fd>>) = g BY <1>1 DEF Ends, At
<1>7. CASE f' = f /\ rw' = [rw EXCEPT ![p] = g]
  <2>1. WaitOK(f, <<p, fd>>, g) BY <1>2, <1>6 DEF WaitOK
  <2>2. Waits(f', alive', rw')
    <3> SUFFICES ASSUME NEW q \in Process, rw'[q] # NULL
                 PROVE  q \in alive /\ \E e \in Fd : WaitOK(f, <<q, e>>, rw'[q])
      BY <1>4, <1>7 DEF Waits
    <3>1. CASE q = p BY <1>4, <1>5, <1>7, <2>1, <3>1
    <3>2. CASE q # p
      <4>1. rw'[q] = rw[q] BY <1>5, <1>7, <3>2
      <4> QED BY <1>5, <4>1 DEF Waits
    <3> QED BY <3>1, <3>2
  <2>3. CallRight(f', alive', rw', call) BY <1>4, <1>5, <1>7 DEF CallRight
  <2>4. Resting(f', alive') BY <1>4, <1>5, <1>7
  <2>5. Tally(f', f'.fds, Maker, Target, Releaser) BY <1>5, <1>7
  <2> QED BY <1>4, <2>2, <2>3, <2>4, <2>5, AccKept
<1>8. CASE f.table[g].fd_inode = NULL /\ Faults(f, f', "file.c:218")
  <2>1. g \in f.hurt BY <1>5, <1>6, <1>8, LedTo
  <2>2. Tally(f', f'.fds, Maker, Target, Releaser) /\ f'.fault # "none"
    BY <1>5, <1>8, <2>1, TallyFaults DEF Site
  <2> QED BY <1>4, <2>2, AccKept
<1> QED BY <1>3, <1>7, <1>8

LEMMA AccTransferred ==
    ASSUME Inductive, AccInv, NEW p \in Process, Transferred(p)
    PROVE  AccInv'
<1>1. PICK g \in Slot : g = rw[p] BY TransferredStep
<1>2. f' = f \/ (f.table[g].fd_inode \notin Obj /\ Faults(f, f', "file.c:218"))
  BY <1>1, TransferredStep
<1>3. /\ f.fault = "none" /\ call = NULL /\ rw[p] # NULL
      /\ rw' = [rw EXCEPT ![p] = NULL] /\ UNCHANGED <<alive, call>>
  BY DEF Transferred
<1>4. /\ Tallied(f, f.fds, Maker, Target, Releaser, NULL, 0)
      /\ Tally(f, f.fds, Maker, Target, Releaser)
      /\ Resting(f, alive) /\ Waits(f, alive, rw) /\ f \in OpenFilesState
      /\ rw \in [Process -> Slot \cup {NULL}]
  BY <1>3, AccBefore
<1>5. CASE f' = f
  <2>1. Waits(f', alive', rw')
    <3> SUFFICES ASSUME NEW q \in Process, rw'[q] # NULL
                 PROVE  q \in alive /\ \E e \in Fd : WaitOK(f, <<q, e>>, rw'[q])
      BY <1>3, <1>5 DEF Waits
    <3>1. rw'[q] = rw[q] BY <1>3, <1>4
    <3> QED BY <1>4, <3>1 DEF Waits
  <2>2. CallRight(f', alive', rw', call) BY <1>3 DEF CallRight
  <2> QED BY <1>3, <1>4, <1>5, <2>1, <2>2, AccKept
<1>6. CASE f.table[g].fd_inode \notin Obj /\ Faults(f, f', "file.c:218")
  <2>1. PICK fd \in Fd : WaitOK(f, <<p, fd>>, g) BY <1>1, <1>3, <1>4 DEF Waits
  <2>2. g \in f.hurt BY <1>4, <1>6, <2>1, LedTo DEF WaitOK
  <2>3. Tally(f', f'.fds, Maker, Target, Releaser) /\ f'.fault # "none"
    BY <1>4, <1>6, <2>2, TallyFaults DEF Site
  <2> QED BY <1>3, <2>3, AccKept
<1> QED BY <1>2, <1>5, <1>6

LEMMA AccClose ==
    ASSUME Inductive, AccInv, NEW p \in Process, NEW fd \in Fd, Close(p, fd)
    PROVE  AccInv'
<1>1. Closes(f, f', p, fd) BY CloseStep
<1>2. /\ f.fault = "none" /\ p \in alive /\ rw[p] = NULL /\ f.fds[p][fd] # -1
      /\ UNCHANGED <<alive, call, rw>>
  BY DEF Close, Ready
<1>3. /\ Tallied(f, f.fds, Maker, Target, Releaser, NULL, 0) /\ Cover(f, Maker, Releaser, Target)
      /\ Resting(f, alive) /\ Waits(f, alive, rw) /\ f \in OpenFilesState
      /\ rw \in [Process -> Slot \cup {NULL}] /\ CallRight(f, alive, rw, call)
      /\ call # NULL => call.p \in alive
      /\ call # NULL /\ call.op = "open" => call.slot \in Slot
  BY <1>2, AccBefore, CallTypes DEF Inductive
<1>4. /\ Calls(Maker, Target) /\ Releaser \in Obj \cup {NULL} /\ Maker \in Obj \cup {NULL}
      /\ Target = NULL \/ (Target \in Slot /\ Filling(Target))
  BY CallUsers DEF Inductive, Calls
<1>5. f' \in OpenFilesState BY CloseStep DEF Inductive, TypeOK
<1>6. PICK t \in OpenFilesState : DescriptorClosed(f, t, p, fd) /\ Cleared(t, f')
  BY <1>1 DEF Closes
<1>7. Tally(t, t.fds, Maker, Target, Releaser)
  <2>1. IF t.fault = "none" THEN Tallied(t, t.fds, Maker, Target, Releaser, NULL, 0)
        ELSE t.hurt \cap Slot # {}
    BY <1>2, <1>3, <1>4, <1>6, TallyClosed
  <2> QED BY <2>1 DEF Tally
<1>8. Tally(f', f'.fds, Maker, Target, Releaser) BY <1>4, <1>5, <1>6, <1>7, TallyCleared
<1>9. Aside(f, f', p) /\ Mild(f, f') BY <1>1, <1>2, <1>3, AsideCloses
<1>10. Resting(f', alive) /\ Waits(f', alive, rw) BY <1>2, <1>3, <1>9, ActorsKept
<1>11. CallRight(f', alive, rw, call) BY <1>3, <1>9, CallKept
<1> QED BY <1>2, <1>8, <1>10, <1>11, AccKept

LEMMA AccPipe ==
    ASSUME Inductive, AccInv, NEW p \in Process, sys_pipe(p)
    PROVE  AccInv'
<1>1. /\ f.fault = "none" /\ p \in alive /\ rw[p] = NULL
      /\ UNCHANGED <<alive, call, rw>>
  BY DEF sys_pipe, Ready
<1>2. CASE Faults(f, f', "pipe.c:17") \/ Faults(f, f', "pipe.c:19")
  <2>1. f'.fault \in {"pipe.c:17", "pipe.c:19"} BY <1>2 DEF Faults
  <2> QED BY <2>1 DEF AccInv, Excused
<1>3. ASSUME NEW g \in Slot, NEW page \in Page, f.table[g].fd_inode = NULL, Pipes(f, f', p, g, page)
      PROVE  AccInv'
  <2>1. /\ Tallied(f, f.fds, Maker, Target, Releaser, NULL, 0)
        /\ Resting(f, alive) /\ Waits(f, alive, rw) /\ f \in OpenFilesState
        /\ rw \in [Process -> Slot \cup {NULL}] /\ CallRight(f, alive, rw, call)
        /\ call # NULL => call.p \in alive
        /\ call # NULL /\ call.op = "open" => call.slot \in Slot
    BY <1>1, AccBefore, CallTypes DEF Inductive
  <2>2. /\ Calls(Maker, Target) /\ Releaser \in Obj \cup {NULL}
        /\ Target # NULL => Filling(Target)
        /\ Filling(g) => g = Target
    BY CallUsers DEF Inductive
  <2>3. f' \in OpenFilesState BY PipeStep DEF Inductive, TypeOK
  <2>4. Tallied(f', f'.fds, Maker, Target, Releaser, NULL, 0)
    BY <1>3, <2>1, <2>2, <2>3, TallyPipes
  <2>5. f'.fault = "none" BY <1>1, <1>3 DEF Pipes, SlotFilled, Installed, Cleared
  <2>6. Tally(f', f'.fds, Maker, Target, Releaser) BY <2>4, <2>5 DEF Tally
  <2>7. Aside(f, f', p) /\ Mild(f, f') BY <1>3, AsidePipes
  <2>8. Resting(f', alive) /\ Waits(f', alive, rw) BY <1>1, <2>1, <2>7, ActorsKept
  <2>9. CallRight(f', alive, rw, call) BY <2>1, <2>7, CallKept
  <2> QED BY <1>1, <2>6, <2>8, <2>9, AccKept
<1> QED BY <1>2, <1>3, PipeStep

LEMMA AccFork ==
    ASSUME Inductive, AccInv, NEW p \in Process, NEW q \in Process, sys_fork(p, q)
    PROVE  AccInv'
<1>1. PICK done : Forks(f, f', done, p, q) BY ForkStep
<1>2. /\ f.fault = "none" /\ p \in alive /\ q \notin alive /\ p # q
      /\ alive' = alive \cup {q} /\ UNCHANGED <<call, rw>>
  BY DEF sys_fork, Ready
<1>3. /\ Tally(f, f.fds, Maker, Target, Releaser) /\ Cover(f, Maker, Releaser, Target)
      /\ Resting(f, alive) /\ Waits(f, alive, rw) /\ f \in OpenFilesState
      /\ rw \in [Process -> Slot \cup {NULL}] /\ CallRight(f, alive, rw, call)
      /\ call # NULL => call.p \in alive
      /\ call # NULL /\ call.op = "open" => call.slot \in Slot
  BY <1>2, AccBefore, CallTypes DEF Inductive
<1>4. /\ Calls(Maker, Target) /\ Releaser \in Obj \cup {NULL}
      /\ Target = NULL \/ Filling(Target)
  BY CallUsers DEF Inductive
<1>5. f' \in OpenFilesState BY ForkStep DEF Inductive, TypeOK
<1>6. (\A fd \in Fd : f.fds[q][fd] = -1) /\ rw[q] = NULL BY <1>2, <1>3 DEF Resting, Waits
<1>7. Tally(f', f'.fds, Maker, Target, Releaser)
  BY <1>1, <1>2, <1>3, <1>4, <1>5, <1>6, TallyForks
<1>8. Aside(f, f', q) /\ Mild(f, f') BY <1>1, <1>3, AsideForks
<1>9. Resting(f', alive') /\ Waits(f', alive', rw) BY <1>2, <1>3, <1>6, <1>8, ActorsKept
<1>10. CallRight(f', alive', rw, call) BY <1>2, <1>3, <1>8, CallKept
<1> QED BY <1>2, <1>7, <1>9, <1>10, AccKept

LEMMA AccExit ==
    ASSUME Inductive, AccInv, NEW p \in Process, sys_exit(p)
    PROVE  AccInv'
<1>1. PICK done : Exits(f, f', done, p) BY ExitStep
<1>2. /\ f.fault = "none" /\ p \in alive /\ rw[p] = NULL /\ (call # NULL => call.p # p)
      /\ alive' = alive \ {p} /\ UNCHANGED <<call, rw>>
  BY DEF sys_exit, Ready
<1>3. /\ Tally(f, f.fds, Maker, Target, Releaser) /\ Cover(f, Maker, Releaser, Target)
      /\ Resting(f, alive) /\ Waits(f, alive, rw) /\ f \in OpenFilesState
      /\ rw \in [Process -> Slot \cup {NULL}] /\ CallRight(f, alive, rw, call)
      /\ call # NULL => call.p \in alive'
      /\ call # NULL /\ call.op = "open" => call.slot \in Slot
  BY <1>2, AccBefore, CallTypes DEF Inductive
<1>4. /\ Calls(Maker, Target) /\ Releaser \in Obj \cup {NULL}
      /\ Target = NULL \/ Filling(Target)
  BY CallUsers DEF Inductive
<1>5. f' \in OpenFilesState BY ExitStep DEF Inductive, TypeOK
<1>6. Tally(f', f'.fds, Maker, Target, Releaser) BY <1>1, <1>3, <1>4, <1>5, TallyExits
<1>7. Aside(f, f', p) /\ Mild(f, f') BY <1>1, <1>3, AsideExits
<1>8. ASSUME f'.fault = "none"
      PROVE  /\ Resting(f', alive') /\ Waits(f', alive', rw)
             /\ CallRight(f', alive', rw, call)
  <2>1. \A fd \in Fd : f'.fds[p][fd] = -1 BY <1>1, <1>3, <1>8, AsideExits
  <2>2. Resting(f', alive') /\ Waits(f', alive', rw) BY <1>2, <1>3, <1>7, <2>1, ActorsKept
  <2> QED BY <1>3, <1>7, <2>2, CallKept
<1> QED BY <1>2, <1>6, <1>8, AccKept

LEMMA AccInit == Init => AccInv
<1> SUFFICES ASSUME Init PROVE AccInv OBVIOUS
<1>0. NULL \notin Obj /\ NULL \notin Page /\ NULL \notin Slot /\ -1 \notin Slot /\ Empty.fd_inode = NULL
  BY Addresses DEF Empty
<1>1. /\ f.fds = [p \in Process |-> [fd \in Fd |-> -1]] /\ f.table = [g \in Slot |-> Empty]
      /\ f.inode = [o \in Obj |-> NULL] /\ f.fault = "none" /\ f.hurt = {}
      /\ call = NULL /\ rw = [p \in Process |-> NULL]
  BY DEF Init
<1>2. \A d \in Ends : At(f.fds, d) = -1 BY <1>1 DEF Ends, At
<1>3. Used(f.fds) = {} /\ \A g \in Slot : Lead(f.fds, g) = {} BY <1>0, <1>2 DEF Used, Lead
<1>4. IsFiniteSet(Used(f.fds)) BY <1>3, FS_EmptySet
<1>5. SlotsRight(f, f.fds, NULL, NULL, 0) BY <1>0, <1>1, <1>3 DEF SlotsRight, SlotRight
<1>6. CountsRight(f, f.fds, NULL, NULL) BY <1>1 DEF CountsRight, CountRight
<1>7. HurtClosed(f) /\ FlagsRight(f) BY <1>0, <1>1 DEF HurtClosed, FlagsRight
<1>8. Tallied(f, f.fds, NULL, NULL, NULL, NULL, 0)
  BY <1>4, <1>5, <1>6, <1>7 DEF Tallied, MakerRight
<1>9. Resting(f, alive) /\ Waits(f, alive, rw) /\ CallRight(f, alive, rw, call)
  BY <1>1 DEF Resting, Waits, CallRight
<1>10. Maker = NULL /\ Target = NULL /\ Releaser = NULL BY <1>1 DEF Maker, Target, Releaser
<1> QED BY <1>1, <1>8, <1>9, <1>10 DEF AccInv, Excused, Right

LEMMA AccNext == Inductive /\ AccInv /\ [Next]_vars => AccInv'
<1> SUFFICES ASSUME Inductive, AccInv, [Next]_vars PROVE AccInv' OBVIOUS
<1>1. CASE UNCHANGED vars
  BY <1>1 DEF vars, AccInv, Maker, Target, Releaser
<1>2. CASE \E p \in Process : Step(p)
  <2>1. PICK p \in Process : Step(p) BY <1>2
  <2>2. CASE \E n \in Name, flag \in {"r", "w"} :
               OpenCached(p, n, flag) \/ Open(p, n, flag) \/ Create(p, n, flag)
    BY <2>2, AccOpenCached, AccOpen, AccCreate
  <2>3. CASE \E n \in Name : Unlink(p, n) BY <2>3, AccUnlink
  <2>4. CASE \E fd \in Fd : Transfer(p, fd) \/ Close(p, fd) BY <2>4, AccTransfer, AccClose
  <2>5. CASE Transferred(p) \/ sys_pipe(p) \/ sys_exit(p)
    BY <2>5, AccTransferred, AccPipe, AccExit
  <2>6. CASE \E q \in Process : sys_fork(p, q) BY <2>6, AccFork
  <2> QED BY <2>1, <2>2, <2>3, <2>4, <2>5, <2>6 DEF Step
<1>3. CASE OpenRead BY <1>3, AccOpenRead
<1>4. CASE Created \/ CreateFails BY <1>4, AccCreated
<1>5. CASE UnlinkOpens BY <1>5, AccUnlinkOpens
<1>6. CASE Unlinked BY <1>6, AccUnlinked
<1> QED BY <1>1, <1>2, <1>3, <1>4, <1>5, <1>6 DEF Next

\* Whatever fork, exit, close and the calls that wait for the disk do to one
\* slot, the counts that file_open(), sys_close(), update_inode_open_cnts() and
\* release_prog_resource() keep are the numbers of descriptors, a slot is taken
\* as long as one leads to it, and no inode is left that nobody has open.
THEOREM OpenFilesAccounted == Spec => []Accounted
<1>1. ASSUME Inductive, AccInv PROVE Accounted
  <2> SUFFICES ASSUME f.fault = "none"
               PROVE  /\ \A g \in Slot \ f.hurt :
                           /\ (f.table[g].fd_inode # NULL) <=> (Leads(f, g) # {} \/ Filling(g))
                           /\ f.table[g].fd_inode \in Page =>
                                f.table[g].fd_pos = Cardinality(Leads(f, g))
                      /\ \A o \in Obj \ f.hurt :
                           Live(o) /\ ~Making(o) =>
                             f.inode[o].i_open_cnts =
                               Cardinality(UNION {Leads(f, g) : g \in Holding(f, o)})
                                 + (IF Releasing(o) THEN 1 ELSE 0)
    BY DEF Accounted
  <2>1. /\ f \in OpenFilesState /\ Tallied(f, f.fds, Maker, Target, Releaser, NULL, 0)
    BY <1>1, AccBefore
  <2>2. NULL \notin Slot /\ NULL \notin Obj BY Addresses
  <2>3. \A g \in Slot : Filling(g) <=> g = Target BY <2>2 DEF Filling, Target
  <2>4. \A o \in Obj : (Making(o) <=> o = Maker) /\ (Releasing(o) <=> o = Releaser)
    BY <2>2 DEF Making, Releasing, Maker, Releaser
  <2>5. \A g : Leads(f, g) = Lead(f.fds, g) BY DEF Leads, Lead, Ends, At
  <2>6. ASSUME NEW g \in Slot \ f.hurt
        PROVE  /\ (f.table[g].fd_inode # NULL) <=> (Leads(f, g) # {} \/ Filling(g))
               /\ f.table[g].fd_inode \in Page => f.table[g].fd_pos = Cardinality(Leads(f, g))
    <3>1. SlotRight(f, f.fds, Target, NULL, 0, g) BY <2>1 DEF Tallied, SlotsRight
    <3>2. Cardinality(Lead(f.fds, g)) \in Nat BY <2>1, UsedFinite DEF Tallied
    <3> QED BY <2>2, <2>3, <2>5, <3>1, <3>2 DEF SlotRight
  <2>7. ASSUME NEW o \in Obj \ f.hurt, Live(o), ~Making(o)
        PROVE  f.inode[o].i_open_cnts =
                 Cardinality(UNION {Leads(f, g) : g \in Holding(f, o)})
                   + (IF Releasing(o) THEN 1 ELSE 0)
    <3>1. CountRight(f, f.fds, Maker, Releaser, o) BY <2>1 DEF Tallied, CountsRight
    <3>2. UNION {Leads(f, g) : g \in Holding(f, o)} = Users(f, f.fds, o)
      BY DEF Users, Leads, Ends, At
    <3> QED BY <2>4, <2>7, <3>1, <3>2 DEF CountRight, Live
  <2> QED BY <2>6, <2>7
<1> QED BY <1>1, AccInit, AccNext, InductiveAlways, PTL DEF Spec

\* file_close(), file_read(), fork and exit follow no pointer that they must
\* not, unless a slot was closed under another descriptor or overwritten before.
THEOREM OpenFilesNoFault == Spec => []NoFault
<1>1. AccInv => NoFault BY DEF AccInv, Excused, NoFault
<1> QED BY <1>1, AccInit, AccNext, InductiveAlways, PTL DEF Spec

----------------------------------------------------------------------------
(***************************************************************************)
(* DescriptorsKeep: what a slot holds changes only by its last descriptor. *)
(***************************************************************************)
\* No slot outside X gets or loses an inode or a page.
Stays(s, t, X) == \A g \in Slot \ X : t.table[g].fd_inode = s.table[g].fd_inode

LEMMA StaysCleared ==
    ASSUME NEW s, NEW t, Cleared(s, t)
    PROVE  Stays(s, t, {})
  BY DEF Cleared, Stays, Idle, Empty

\* The calls.
LEMMA StaysCalls ==
    ASSUME NEW s, NEW x, NEW p, NEW g \in Slot
    PROVE  /\ \A i, o, flag : Opens(s, x, p, g, i, o, flag) => Stays(s, x, {g})
           /\ \A i, o, flag : Made(s, x, g, o, i, flag) => Stays(s, x, {g})
           /\ \A o : Links(s, x, p, g, o) => Stays(s, x, {})
           /\ \A o : Unmakes(s, x, g, o) => Stays(s, x, {g})
           /\ \A i, o : Forgets(s, x, i, o) => Stays(s, x, {})
           /\ \A page : Pipes(s, x, p, g, page) => Stays(s, x, {g})
           /\ \A fd : Closes(s, x, p, fd) => Stays(s, x, {s.fds[p][fd]})
<1>1. ASSUME NEW i, NEW o, NEW flag, Opens(s, x, p, g, i, o, flag) PROVE Stays(s, x, {g})
  <2>1. PICK r \in OpenFilesState, u \in OpenFilesState, v \in OpenFilesState, t \in OpenFilesState :
          OpenedFrom(s, r, u, v, t, p, g, i, o, flag) /\ Cleared(t, x)
    BY <1>1 DEF Opens
  <2>2. r.table = s.table /\ (\A h \in Slot \ {g} : u.table[h] = r.table[h])
    BY <2>1 DEF OpenedFrom, InodeOpened, SlotFilled
  <2>3. t.table = u.table BY <2>1 DEF OpenedFrom, Refused, Denied, Installed
  <2>4. Stays(t, x, {}) BY <2>1, StaysCleared
  <2> QED BY <2>2, <2>3, <2>4 DEF Stays
<1>2. ASSUME NEW i, NEW o, NEW flag, Made(s, x, g, o, i, flag) PROVE Stays(s, x, {g})
  BY <1>2 DEF Made, Stays
<1>3. ASSUME NEW o, Links(s, x, p, g, o) PROVE Stays(s, x, {})
  <2>1. PICK u \in OpenFilesState, t \in OpenFilesState :
          Linked(s, u, o) /\ Installed(u, t, p, g) /\ Cleared(t, x)
    BY <1>3 DEF Links
  <2>2. t.table = s.table BY <2>1 DEF Linked, Installed
  <2>3. Stays(t, x, {}) BY <2>1, StaysCleared
  <2> QED BY <2>2, <2>3 DEF Stays
<1>4. ASSUME NEW o, Unmakes(s, x, g, o) PROVE Stays(s, x, {g})
  <2>1. PICK t \in OpenFilesState : Unmade(s, t, g, o) /\ Cleared(t, x) BY <1>4 DEF Unmakes
  <2>2. \A h \in Slot \ {g} : t.table[h] = s.table[h] BY <2>1 DEF Unmade
  <2>3. Stays(t, x, {}) BY <2>1, StaysCleared
  <2> QED BY <2>2, <2>3 DEF Stays
<1>5. ASSUME NEW i, NEW o, Forgets(s, x, i, o) PROVE Stays(s, x, {})
  <2>1. PICK t \in OpenFilesState : t.table = s.table /\ Cleared(t, x) BY <1>5 DEF Forgets
  <2>2. Stays(t, x, {}) BY <2>1, StaysCleared
  <2> QED BY <2>1, <2>2 DEF Stays
<1>6. ASSUME NEW page, Pipes(s, x, p, g, page) PROVE Stays(s, x, {g})
  <2>1. PICK u \in OpenFilesState, v \in OpenFilesState, t \in OpenFilesState :
          /\ SlotFilled(s, u, g, page, 2, "pipe")
          /\ Installed(u, v, p, g) /\ Installed(v, t, p, g) /\ Cleared(t, x)
    BY <1>6 DEF Pipes
  <2>2. t.table = u.table /\ \A h \in Slot \ {g} : u.table[h] = s.table[h]
    BY <2>1 DEF SlotFilled, Installed
  <2>3. Stays(t, x, {}) BY <2>1, StaysCleared
  <2> QED BY <2>2, <2>3 DEF Stays
<1>7. ASSUME NEW fd, Closes(s, x, p, fd) PROVE Stays(s, x, {s.fds[p][fd]})
  <2>1. PICK t \in OpenFilesState : DescriptorClosed(s, t, p, fd) /\ Cleared(t, x)
    BY <1>7 DEF Closes
  <2>2. \A h \in Slot \ {s.fds[p][fd]} : t.table[h] = s.table[h]
    BY <2>1 DEF DescriptorClosed, SlotClosed
  <2>3. Stays(t, x, {}) BY <2>1, StaysCleared
  <2> QED BY <2>2, <2>3 DEF Stays
<1> QED BY <1>1, <1>2, <1>3, <1>4, <1>5, <1>6, <1>7

\* fork counts, it gives and takes nothing.
LEMMA StaysForks ==
    ASSUME NEW s, NEW x, NEW p, NEW q \in Process, NEW done, Forks(s, x, done, p, q)
    PROVE  Stays(s, x, {})
<1>0. MAX_FDS \in Nat /\ Fd = 1..MAX_FDS BY Addresses DEF Fd
<1>1. /\ \A i \in 0..MAX_FDS : done[i] \in OpenFilesState
      /\ Copied(s, done[0], p, q) /\ Cleared(done[MAX_FDS], x)
      /\ \A i \in 1..MAX_FDS : Counts(done[i - 1], done[i], q, i)
  BY DEF Forks
<1> DEFINE S == {i \in 0..MAX_FDS : Stays(s, done[i], {})}
<1>2. 0 \in S BY <1>0, <1>1 DEF Copied, Stays
<1>3. ASSUME NEW i \in 1..MAX_FDS, i - 1 \in S PROVE i \in S
  <2>1. i - 1 \in 0..MAX_FDS /\ i \in 0..MAX_FDS /\ i \in Fd BY <1>0
  <2>2. PICK a \in OpenFilesState, b \in OpenFilesState : a = done[i - 1] /\ b = done[i]
    BY <1>1, <2>1
  <2>3. Counts(a, b, q, i) /\ Stays(s, a, {}) BY <1>1, <1>3, <2>2
  <2>4. PICK g \in Slot \cup {-1} : g = a.fds[q][i] BY <2>1, FieldTypes
  <2>5. Stays(a, b, {})
    <3>1. CASE g = -1 BY <2>3, <2>4, <3>1 DEF Counts, Stays
    <3>2. CASE g # -1 /\ a.table[g].fd_flag = "pipe" BY <2>3, <2>4, <3>2 DEF Counts, Stays
    <3>3. CASE g # -1 /\ a.table[g].fd_flag # "pipe" BY <2>3, <2>4, <3>3 DEF Counts, Stays
    <3> QED BY <3>1, <3>2, <3>3
  <2>6. Stays(s, b, {}) BY <2>3, <2>5 DEF Stays
  <2> QED BY <2>1, <2>2, <2>6
<1>4. MAX_FDS \in S
  <2> HIDE DEF S
  <2> QED BY <1>0, <1>2, <1>3, Passes
<1>5. Stays(done[MAX_FDS], x, {}) BY <1>1, StaysCleared
<1> QED BY <1>4, <1>5 DEF Stays

KeptBy(s, b, d, g) ==
    /\ Lead(b.fds, g) \subseteq {d}
    /\ At(b.fds, d) = g => b.table[g].fd_inode = s.table[g].fd_inode

\* exit: a slot that only descriptor d leads to keeps what it holds as long as
\* d leads to it.
LEMMA StaysExits ==
    ASSUME NEW s \in OpenFilesState, NEW x, NEW p \in Process, NEW done, Exits(s, x, done, p),
           NEW d \in Ends, NEW g \in Slot, Lead(s.fds, g) = {d}, At(x.fds, d) = g
    PROVE  x.table[g].fd_inode = s.table[g].fd_inode
<1>0. MAX_FDS \in Nat /\ Fd = 1..MAX_FDS /\ -1 \notin Slot BY Addresses DEF Fd
<1>1. /\ \A i \in 0..MAX_FDS : done[i] \in OpenFilesState
      /\ done[0] = s /\ Cleared(done[MAX_FDS], x)
      /\ \A i \in 1..MAX_FDS : Releases(done[i - 1], done[i], p, i)
  BY DEF Exits
<1> DEFINE S == {i \in 0..MAX_FDS : KeptBy(s, done[i], d, g)}
<1>2. 0 \in S
  <2>1. KeptBy(s, s, d, g) BY DEF KeptBy
  <2> QED BY <1>0, <1>1, <2>1
<1>3. ASSUME NEW i \in 1..MAX_FDS, i - 1 \in S PROVE i \in S
  <2>1. i - 1 \in 0..MAX_FDS /\ i \in 0..MAX_FDS /\ i \in Fd BY <1>0
  <2>2. PICK a \in OpenFilesState, b \in OpenFilesState : a = done[i - 1] /\ b = done[i]
    BY <1>1, <2>1
  <2>3. Releases(a, b, p, i) /\ KeptBy(s, a, d, g) BY <1>1, <1>3, <2>2
  <2>4. PICK h \in Slot \cup {-1} : h = a.fds[p][i] BY <2>1, FieldTypes
  <2>5. KeptBy(s, b, d, g)
    <3>1. CASE h = -1
      <4>1. b = a BY <2>3, <2>4, <3>1 DEF Releases
      <4> QED BY <2>3, <4>1
    <3>2. CASE h # -1 /\ b.fds = a.fds /\ b.table = a.table BY <2>3, <3>2 DEF KeptBy
    <3>3. CASE h # -1 /\ (DescriptorClosed(a, b, p, i) \/ PipeLeft(a, b, p, i))
      <4>1. /\ Redirected(a, b, p, i, -1)
            /\ \A y \in Slot \ {h} : b.table[y] = a.table[y]
        BY <2>4, <3>3 DEF DescriptorClosed, SlotClosed, PipeLeft
      <4>2. PICK e \in Ends : e = <<p, i>> BY <2>1 DEF Ends
      <4>3. At(a.fds, e) = h /\ Moved(a.fds, b.fds, e, -1)
        BY <2>1, <2>4, <4>1, <4>2, RedirectedMoved
      <4>4. Lead(b.fds, g) \subseteq Lead(a.fds, g) BY <1>0, <4>3 DEF Lead, Moved
      <4>5. ASSUME At(b.fds, d) = g PROVE b.table[g].fd_inode = s.table[g].fd_inode
        <5>1. d # e BY <1>0, <4>3, <4>5 DEF Moved
        <5>2. At(a.fds, d) = g BY <4>3, <4>5, <5>1 DEF Moved
        <5>3. h # g
          <6>1. h = g => e \in Lead(a.fds, g) BY <4>3 DEF Lead
          <6>2. Lead(a.fds, g) \subseteq {d} BY <2>3 DEF KeptBy
          <6> QED BY <5>1, <6>1, <6>2
        <5> QED BY <2>3, <4>1, <5>2, <5>3 DEF KeptBy
      <4> QED BY <2>3, <4>4, <4>5 DEF KeptBy
    <3>4. \/ DescriptorClosed(a, b, p, i) \/ PipeLeft(a, b, p, i) \/ h = -1
          \/ b.fds = a.fds /\ b.table = a.table
      BY <2>3, <2>4 DEF Releases
    <3> QED BY <3>1, <3>2, <3>3, <3>4
  <2> QED BY <2>1, <2>2, <2>5
<1>4. MAX_FDS \in S
  <2> HIDE DEF S
  <2> QED BY <1>0, <1>2, <1>3, Passes
<1>5. x.fds = done[MAX_FDS].fds BY <1>1 DEF Cleared
<1>6. Stays(done[MAX_FDS], x, {}) BY <1>1, StaysCleared
<1>7. KeptBy(s, done[MAX_FDS], d, g) BY <1>4
<1> QED BY <1>5, <1>6, <1>7 DEF Stays, KeptBy

\* Once a bad pointer has been followed nothing happens any more.
LEMMA Stopped ==
    ASSUME [Next]_vars, f.fault # "none"
    PROVE  UNCHANGED vars
  BY DEF Next, Step, OpenCached, Open, Create, Unlink, Transfer, Transferred, Close, sys_pipe,
         sys_fork, sys_exit, OpenRead, Created, CreateFails, UnlinkOpens, Unlinked, Continues,
         ReadyForDisk, Ready

\* A step by which descriptor d keeps slot g.
Keeps(s, t, d, g) ==
    At(s.fds, d) = g /\ At(t.fds, d) = g /\ Lead(s.fds, g) = {d} =>
      t.table[g].fd_inode = s.table[g].fd_inode

LEMMA KeepsNext ==
    ASSUME Inductive, AccInv, [Next]_vars, NEW d \in Ends, NEW g \in Slot, g \notin f.hurt
    PROVE  Keeps(f, f', d, g) \/ (call # NULL /\ call.op = "open" /\ call.slot = g)
<1> SUFFICES ASSUME At(f.fds, d) = g, At(f'.fds, d) = g, Lead(f.fds, g) = {d}
             PROVE  \/ f'.table[g].fd_inode = f.table[g].fd_inode
                    \/ call # NULL /\ call.op = "open" /\ call.slot = g
  BY DEF Keeps
<1>1. CASE UNCHANGED vars BY <1>1 DEF vars
<1>2. f.fault = "none" => f.table[g].fd_inode # NULL /\ f \in OpenFilesState
  <2> SUFFICES ASSUME f.fault = "none" PROVE f.table[g].fd_inode # NULL /\ f \in OpenFilesState
    OBVIOUS
  <2>1. f \in OpenFilesState /\ Tallied(f, f.fds, Maker, Target, Releaser, NULL, 0)
    BY AccBefore
  <2> QED BY <2>1, LedTo
<1>3. ASSUME NEW h, f.table[h].fd_inode = NULL, f.fault = "none", Stays(f, f', {h})
      PROVE  f'.table[g].fd_inode = f.table[g].fd_inode
  BY <1>2, <1>3 DEF Stays
<1>4. ASSUME Stays(f, f', {}) PROVE f'.table[g].fd_inode = f.table[g].fd_inode
  BY <1>4 DEF Stays
<1>5. ASSUME NEW p \in Process, NEW n \in Name, NEW flag \in {"r", "w"}, OpenCached(p, n, flag)
      PROVE  f'.table[g].fd_inode = f.table[g].fd_inode
  <2>1. PICK h \in Slot, o \in Obj :
          f.table[h].fd_inode = NULL /\ Opens(f, f', p, h, entry[n], o, flag)
    BY <1>5, OpenCachedStep
  <2>2. f.fault = "none" BY <1>5 DEF OpenCached, ReadyForDisk, Ready
  <2> QED BY <1>3, <2>1, <2>2, StaysCalls
<1>6. ASSUME NEW p \in Process, NEW n \in Name, NEW flag \in {"r", "w"}, Open(p, n, flag)
      PROVE  f'.table[g].fd_inode = f.table[g].fd_inode
  BY <1>6, OpenStep
<1>7. ASSUME NEW p \in Process, NEW n \in Name, NEW flag \in {"r", "w"}, Create(p, n, flag)
      PROVE  f'.table[g].fd_inode = f.table[g].fd_inode
  <2>1. PICK h \in Slot, o \in Obj, i \in Ino \ bitmap :
          f.table[h].fd_inode = NULL /\ Made(f, f', h, o, i, flag)
    BY <1>7, CreateStep
  <2>2. f.fault = "none" BY <1>7 DEF Create, ReadyForDisk, Ready
  <2> QED BY <1>3, <2>1, <2>2, StaysCalls
<1>8. ASSUME NEW p \in Process, NEW n \in Name, Unlink(p, n)
      PROVE  f'.table[g].fd_inode = f.table[g].fd_inode
  BY <1>8, UnlinkStep
<1>9. ASSUME NEW p \in Process, NEW fd \in Fd, Transfer(p, fd)
      PROVE  f'.table[g].fd_inode = f.table[g].fd_inode
  BY <1>9, TransferStep DEF Faults
<1>10. ASSUME NEW p \in Process, NEW fd \in Fd, Close(p, fd)
       PROVE  f'.table[g].fd_inode = f.table[g].fd_inode
  <2>1. Closes(f, f', p, fd) /\ f.fds[p][fd] \in Slot BY <1>10, CloseStep
  <2>2. PICK h \in Slot : h = f.fds[p][fd] BY <2>1
  <2>3. Stays(f, f', {h}) BY <2>1, <2>2, StaysCalls
  <2>4. h # g
    <3>1. PICK t \in OpenFilesState : DescriptorClosed(f, t, p, fd) /\ Cleared(t, f')
      BY <2>1 DEF Closes
    <3>2. f'.fds[p][fd] = -1 BY <3>1 DEF DescriptorClosed, Redirected, Cleared
    <3>3. <<p, fd>> \in Ends /\ At(f.fds, <<p, fd>>) = h /\ At(f'.fds, <<p, fd>>) = -1
      BY <2>2, <3>2 DEF Ends, At
    <3>4. -1 \notin Slot BY Addresses
    <3>5. h = g => <<p, fd>> \in Lead(f.fds, g) BY <3>3 DEF Lead
    <3> QED BY <3>3, <3>4, <3>5
  <2> QED BY <2>3, <2>4 DEF Stays
<1>11. ASSUME NEW p \in Process, Transferred(p)
       PROVE  f'.table[g].fd_inode = f.table[g].fd_inode
  BY <1>11, TransferredStep DEF Faults
<1>12. ASSUME NEW p \in Process, sys_pipe(p)
       PROVE  f'.table[g].fd_inode = f.table[g].fd_inode
  <2>1. CASE Faults(f, f', "pipe.c:17") \/ Faults(f, f', "pipe.c:19") BY <2>1 DEF Faults
  <2>2. ASSUME NEW h \in Slot, NEW page \in Page, f.table[h].fd_inode = NULL, Pipes(f, f', p, h, page)
        PROVE  f'.table[g].fd_inode = f.table[g].fd_inode
    <3>1. f.fault = "none" BY <1>12 DEF sys_pipe, Ready
    <3> QED BY <1>3, <2>2, <3>1, StaysCalls
  <2> QED BY <1>12, <2>1, <2>2, PipeStep
<1>13. ASSUME NEW p \in Process, NEW q \in Process, sys_fork(p, q)
       PROVE  f'.table[g].fd_inode = f.table[g].fd_inode
  BY <1>4, <1>13, ForkStep, StaysForks
<1>14. ASSUME NEW p \in Process, sys_exit(p)
       PROVE  f'.table[g].fd_inode = f.table[g].fd_inode
  <2>1. f.fault = "none" BY <1>14 DEF sys_exit, Ready
  <2>2. PICK done : Exits(f, f', done, p) BY <1>14, ExitStep
  <2> QED BY <1>2, <2>1, <2>2, StaysExits
<1>15. CASE OpenRead
  <2>1. call # NULL /\ call.op = "open" /\ call.slot \in Slot BY <1>15, OpenReadStep
  <2>2. Stays(f, f', {call.slot}) BY <1>15, OpenReadStep, StaysCalls
  <2> QED BY <2>1, <2>2 DEF Stays
<1>16. CASE Created
  <2>1. Links(f, f', call.p, call.slot, call.obj) /\ call.slot \in Slot
    BY <1>16, CreatedStep, CreateCall DEF Created
  <2> QED BY <1>4, <2>1, StaysCalls
<1>17. CASE CreateFails
  <2>1. Unmakes(f, f', call.slot, call.obj) BY <1>17, CreateFailsStep
  <2>2. call.slot \in Slot /\ call # NULL /\ call.op = "create"
    BY <1>17, CreateCall DEF CreateFails
  <2>3. Stays(f, f', {call.slot}) BY <2>1, <2>2, StaysCalls
  <2>4. call.slot # g
    <3>1. f.fault = "none" BY <1>17 DEF CreateFails, Continues
    <3>2. Tallied(f, f.fds, call.obj, call.slot, NULL, NULL, 0) BY <2>2, <3>1, AccBefore
    <3>3. call.slot \notin f.hurt => Lead(f.fds, call.slot) = {}
      BY <2>2, <3>2, Addresses DEF Tallied, MakerRight
    <3> QED BY <3>3
  <2> QED BY <2>3, <2>4 DEF Stays
<1>18. CASE UnlinkOpens BY <1>18, UnlinkOpensStep DEF InodeOpened
<1>19. CASE Unlinked
  <2>1. Forgets(f, f', call.ino, call.obj) BY <1>19, UnlinkedStep
  <2> QED BY <1>4, <2>1, StaysCalls
<1>20. CASE \E p \in Process : Step(p)
  BY <1>20, <1>5, <1>6, <1>7, <1>8, <1>9, <1>10, <1>11, <1>12, <1>13, <1>14 DEF Step
<1> QED BY <1>1, <1>15, <1>16, <1>17, <1>18, <1>19, <1>20 DEF Next

\* A descriptor leads to the same open file for as long as its process keeps
\* it, although the table of open files is one for all processes, calls choose
\* their slot before they sleep, and exit gives all descriptors up in a loop.
THEOREM OpenFilesDescriptorsKeep == Spec => DescriptorsKeep
<1>1. ASSUME Inductive, AccInv, [Next]_vars
      PROVE  [\A p \in Process, fd \in Fd :
                LET g == f.fds[p][fd]
                IN  g # -1 /\ f'.fds[p][fd] = g /\ Cardinality(Leads(f, g)) = 1
                      => \/ f'.table[g].fd_inode = f.table[g].fd_inode
                         \/ g \in f.hurt
                         \/ call # NULL /\ call.op = "open" /\ call.slot = g]_vars
  <2> SUFFICES ASSUME NEW p \in Process, NEW fd \in Fd, NEW g, g = f.fds[p][fd],
                      g # -1, f'.fds[p][fd] = g, Cardinality(Leads(f, g)) = 1
               PROVE  \/ f'.table[g].fd_inode = f.table[g].fd_inode
                      \/ g \in f.hurt
                      \/ call # NULL /\ call.op = "open" /\ call.slot = g
    OBVIOUS
  <2>1. f \in OpenFilesState BY <1>1 DEF Inductive, TypeOK
  <2>2. g \in Slot BY <2>1, FieldTypes
  <2>3. PICK d \in Ends : d = <<p, fd>> BY DEF Ends
  <2>4. At(f.fds, d) = g /\ At(f'.fds, d) = g BY <2>3 DEF At
  <2>5. CASE f.fault = "none"
    <3>1. Lead(f.fds, g) = {d}
      <4>1. Leads(f, g) = Lead(f.fds, g) BY DEF Leads, Lead, Ends, At
      <4>2. IsFiniteSet(Lead(f.fds, g)) BY <1>1, <2>2, <2>5, AccBefore, UsedFinite DEF Tallied
      <4>3. PICK e : Lead(f.fds, g) = {e} BY <4>1, <4>2, FS_Singleton
      <4>4. d \in Lead(f.fds, g) BY <2>4 DEF Lead
      <4> QED BY <4>3, <4>4
    <3>2. g \notin f.hurt =>
            Keeps(f, f', d, g) \/ (call # NULL /\ call.op = "open" /\ call.slot = g)
      BY <1>1, <2>2, KeepsNext
    <3> QED BY <2>4, <3>1, <3>2 DEF Keeps
  <2>6. CASE f.fault # "none"
    <3>1. UNCHANGED vars BY <1>1, <2>6, Stopped
    <3> QED BY <3>1 DEF vars
  <2> QED BY <2>5, <2>6
<1> QED BY <1>1, AccInit, AccNext, InductiveAlways, PTL DEF Spec, DescriptorsKeep

----------------------------------------------------------------------------
(***************************************************************************)
(* OneCopy: the numbers of the inodes in memory, the entries and the       *)
(* bitmap.  It needs Accounted: an inode that no slot holds and no call    *)
(* uses has been freed, so no number in memory is free in the bitmap.      *)
(***************************************************************************)
Single(s) ==
    \A o, u \in Obj \ s.hurt :
      s.inode[o] # NULL /\ s.inode[u] # NULL /\ s.inode[o].i_no = s.inode[u].i_no => o = u

\* Of a file that is gone only what was hurt is left.
Remnants(s) == \A o \in s.removed : s.inode[o] # NULL /\ o \in s.hurt

Allotted(s, bm) ==
    \A g \in Slot, o \in Obj \ s.hurt :
      s.table[g].fd_inode = o /\ s.inode[o] # NULL => s.inode[o].i_no \in bm

Copies(s, bm) == Single(s) /\ Remnants(s) /\ Allotted(s, bm)

Entries(en, bm) ==
    \A n \in Name : en[n] # NULL => en[n] \in bm /\ \A k \in Name : en[k] = en[n] => k = n

\* No slot holds an inode of number i, no inode has it.
Unheld(s, i) ==
    \A g \in Slot, o \in Obj : s.table[g].fd_inode = o /\ s.inode[o] # NULL => s.inode[o].i_no # i
Absent(s, i) == \A o \in Obj : s.inode[o] # NULL => s.inode[o].i_no # i

\* An open call reads what nobody has in memory, a create call has a number of
\* its own, an unlink call one that no slot holds.
CallCopies(s, en, bm, c) ==
    /\ c # NULL /\ c.op = "open" => c.ino \in bm /\ Absent(s, c.ino)
    /\ c # NULL /\ c.op = "create" =>
         LET i == s.inode[c.obj].i_no
         IN  /\ i \in bm /\ c.obj \notin s.removed /\ \A n \in Name : en[n] # i
             /\ \A o \in Obj \ s.hurt : s.inode[o] # NULL /\ s.inode[o].i_no = i => o = c.obj
    /\ c # NULL /\ c.op = "unlink" =>
         /\ \A n \in Name : en[n] = c.ino => n = c.name /\ c.obj = NULL
         /\ c.obj # NULL => s.inode[c.obj].i_no = c.ino
         /\ Unheld(s, c.ino)

CopyInv == Copies(f, bitmap) /\ Entries(entry, bitmap) /\ CallCopies(f, entry, bitmap, call)

\* Inodes are closed, slots given up, nothing new comes.
Thins(s, t) ==
    /\ \A o \in Obj : t.inode[o] # NULL =>
         /\ s.inode[o] # NULL /\ t.inode[o].i_no = s.inode[o].i_no
         /\ o \in s.hurt => o \in t.hurt
    /\ \A g \in Slot : t.table[g].fd_inode \in Obj => t.table[g].fd_inode = s.table[g].fd_inode
Shrinks(s, t) ==
    /\ Thins(s, t) /\ t.removed \subseteq s.removed
    /\ \A o \in t.removed : s.inode[o] # NULL => t.inode[o] # NULL

LEMMA ThinsKeeps ==
    ASSUME NEW s, NEW t, NEW bm, Thins(s, t), Single(s), Allotted(s, bm)
    PROVE  Single(t) /\ Allotted(t, bm)
<1>1. \A o \in Obj \ t.hurt : t.inode[o] # NULL =>
        o \in Obj \ s.hurt /\ s.inode[o] # NULL /\ t.inode[o].i_no = s.inode[o].i_no
  BY DEF Thins
<1>2. Single(t) BY <1>1 DEF Single
<1>3. Allotted(t, bm)
  <2> SUFFICES ASSUME NEW g \in Slot, NEW o \in Obj \ t.hurt, t.table[g].fd_inode = o, t.inode[o] # NULL
               PROVE  t.inode[o].i_no \in bm
    BY DEF Allotted
  <2>1. s.table[g].fd_inode = o BY DEF Thins
  <2> QED BY <1>1, <2>1 DEF Allotted
<1> QED BY <1>2, <1>3

LEMMA CopiesShrink ==
    ASSUME NEW s, NEW t \in OpenFilesState, NEW bm, Shrinks(s, t), Copies(s, bm)
    PROVE  Copies(t, bm)
<1>1. Single(t) /\ Allotted(t, bm) BY ThinsKeeps DEF Shrinks, Copies
<1>2. t.removed \subseteq Obj BY FieldTypes
<1>3. Remnants(t)
  <2> SUFFICES ASSUME NEW o \in t.removed PROVE t.inode[o] # NULL /\ o \in t.hurt
    BY DEF Remnants
  <2>1. o \in Obj /\ s.inode[o] # NULL /\ o \in s.hurt BY <1>2 DEF Shrinks, Copies, Remnants
  <2> QED BY <2>1 DEF Shrinks, Thins
<1> QED BY <1>1, <1>3 DEF Copies

LEMMA UnheldThins ==
    ASSUME NEW s, NEW t, NEW i, Thins(s, t)
    PROVE  /\ Unheld(s, i) => Unheld(t, i)
           /\ Absent(s, i) => Absent(t, i)
  BY DEF Thins, Unheld, Absent

LEMMA ShrinksTwice ==
    ASSUME NEW s, NEW t, NEW u \in OpenFilesState, Shrinks(s, t), Shrinks(t, u)
    PROVE  Shrinks(s, u)
<1>1. Thins(s, u) BY DEF Shrinks, Thins
<1> QED BY <1>1 DEF Shrinks

LEMMA ShrinksSame ==
    ASSUME NEW s, NEW t, t.table = s.table, t.inode = s.inode, t.removed = s.removed,
           \A o \in Obj : o \in s.hurt => o \in t.hurt
    PROVE  Shrinks(s, t)
  BY DEF Shrinks, Thins

LEMMA ShrinksCleared ==
    ASSUME NEW s, NEW t, Cleared(s, t)
    PROVE  Shrinks(s, t)
<1>1. NULL \notin Obj /\ Empty.fd_inode = NULL /\ Slot \cap Obj = {} BY Addresses DEF Empty
<1>2. t.inode = s.inode /\ t.removed = s.removed BY DEF Cleared, SameInodes
<1>3. \A g \in Slot : t.table[g].fd_inode \in Obj => t.table[g].fd_inode = s.table[g].fd_inode
  BY <1>1 DEF Cleared
<1>4. \A o \in Obj : o \in s.hurt => o \in t.hurt BY <1>1 DEF Cleared
<1> QED BY <1>2, <1>3, <1>4 DEF Shrinks, Thins

LEMMA ShrinksInstalled ==
    ASSUME NEW s, NEW t, NEW p, NEW g, Installed(s, t, p, g)
    PROVE  Shrinks(s, t)
<1>1. t.table = s.table /\ t.inode = s.inode /\ t.removed = s.removed /\ s.hurt \subseteq t.hurt
  BY DEF Installed, SameInodes
<1> QED BY <1>1, ShrinksSame

\* inode_close().
LEMMA ThinsClosed ==
    ASSUME NEW s, NEW t, NEW o \in Obj, s.inode[o] # NULL, InodeClosed(s, t, o)
    PROVE  \A y \in Obj : t.inode[y] # NULL =>
             /\ s.inode[y] # NULL /\ t.inode[y].i_no = s.inode[y].i_no
             /\ y \in s.hurt => y \in t.hurt
<1>1. CASE InodeDropped(s, t, o) \/ InodeAstray(s, t, o)
  BY <1>1 DEF InodeClosed, InodeDropped, InodeAstray
<1>2. CASE InodeFreed(s, t, o) BY <1>2 DEF InodeClosed, InodeFreed
<1> QED BY <1>1, <1>2 DEF InodeClosed

LEMMA ShrinksClosed ==
    ASSUME NEW s \in OpenFilesState, NEW t \in OpenFilesState, Held(s), NEW p \in Process, NEW fd \in Fd,
           s.fds[p][fd] # -1, DescriptorClosed(s, t, p, fd)
    PROVE  Shrinks(s, t)
<1>1. PICK g \in Slot : g = s.fds[p][fd] BY FieldTypes
<1>2. PICK u : u = Noted(s, <<p, fd>>, g) OBVIOUS
<1>3. /\ u.inode = s.inode /\ u.removed = s.removed /\ s.hurt \subseteq u.hurt
      /\ u.table = s.table
  <2>1. s.hurt \subseteq NotedHurt(s, <<p, fd>>, g) BY DEF NotedHurt
  <2>2. /\ u.inode = s.inode /\ u.removed = s.removed /\ u.table = s.table
        /\ u.hurt = NotedHurt(s, <<p, fd>>, g)
    BY <1>2, NotedEffect
  <2> QED BY <2>1, <2>2
<1>4. PICK o : o = s.table[g].fd_inode OBVIOUS
<1>5. o \in Obj \cup Page \cup {NULL} BY <1>4, SlotTypes
<1>6. InodesAfterClose(u, t, o) /\ SlotClosed(s, t, g)
  BY <1>1, <1>2, <1>4 DEF DescriptorClosed
<1>7. \A h \in Slot : t.table[h].fd_inode \in Obj => t.table[h].fd_inode = s.table[h].fd_inode
  BY <1>6, Addresses DEF SlotClosed
<1>8. CASE o \notin Obj
  <2>1. SameInodes(u, t) /\ t.hurt = u.hurt BY <1>5, <1>6, <1>8 DEF InodesAfterClose
  <2>2. t.inode = s.inode /\ t.removed = s.removed /\ s.hurt \subseteq t.hurt
    BY <1>3, <2>1 DEF SameInodes
  <2> QED BY <1>7, <2>2 DEF Shrinks, Thins
<1>9. CASE o \in Obj
  <2>1. InodeClosed(u, t, o) /\ u.inode[o] # NULL
    BY <1>3, <1>4, <1>6, <1>9 DEF InodesAfterClose, Held
  <2>2. \A y \in Obj : t.inode[y] # NULL =>
             /\ u.inode[y] # NULL /\ t.inode[y].i_no = u.inode[y].i_no
             /\ y \in u.hurt => y \in t.hurt
    BY <1>9, <2>1, ThinsClosed
  <2>3. Thins(s, t) BY <1>3, <1>7, <2>2 DEF Thins
  <2>4. t.removed \subseteq s.removed /\ \A y \in t.removed : s.inode[y] # NULL => t.inode[y] # NULL
    <3>1. t.removed \subseteq Obj BY FieldTypes
    <3>2. CASE InodeDropped(u, t, o) \/ InodeAstray(u, t, o)
      BY <1>3, <2>1, <3>1, <3>2 DEF InodeClosed, InodeDropped, InodeAstray
    <3>3. CASE InodeFreed(u, t, o) BY <1>3, <2>1, <3>1, <3>3 DEF InodeClosed, InodeFreed
    <3> QED BY <2>1, <3>2, <3>3 DEF InodeClosed
  <2> QED BY <2>3, <2>4 DEF Shrinks
<1> QED BY <1>8, <1>9

\* The calls that open nothing.
LEMMA ShrinksReleases ==
    ASSUME NEW s \in OpenFilesState, NEW t \in OpenFilesState, Held(s), NEW p \in Process, NEW fd \in Fd,
           Releases(s, t, p, fd)
    PROVE  Shrinks(s, t)
<1>1. PICK g \in Slot \cup {-1} : g = s.fds[p][fd] BY FieldTypes
<1>2. CASE g = -1
  <2>1. t = s BY <1>1, <1>2 DEF Releases
  <2> QED BY <2>1, ShrinksSame
<1>3. CASE g # -1 /\ s.table[g].fd_flag # "pipe"
  <2>1. DescriptorClosed(s, t, p, fd) BY <1>1, <1>3 DEF Releases
  <2> QED BY <1>1, <1>3, <2>1, ShrinksClosed
<1>4. CASE g # -1 /\ s.table[g].fd_flag = "pipe"
  <2>1. CASE PipeLeft(s, t, p, fd)
    <3>1. /\ t.inode = s.inode /\ t.removed = s.removed /\ t.hurt = s.hurt
          /\ \A h \in Slot \ {g} : t.table[h] = s.table[h]
          /\ t.table[g].fd_inode \in {NULL, s.table[g].fd_inode}
      BY <1>1, <2>1 DEF PipeLeft, SameInodes
    <3>2. \A h \in Slot : t.table[h].fd_inode \in Obj => t.table[h].fd_inode = s.table[h].fd_inode
      BY <3>1, Addresses
    <3> QED BY <3>1, <3>2 DEF Shrinks, Thins
  <2>2. CASE t.table = s.table /\ SameInodes(s, t) /\ t.hurt = s.hurt
    BY <2>2, ShrinksSame DEF SameInodes
  <2> QED BY <1>1, <1>4, <2>1, <2>2 DEF Releases
<1> QED BY <1>2, <1>3, <1>4

\* What Counts() says of the inodes and the slots.
LEMMA CountsCases ==
    ASSUME NEW s, NEW t, NEW q, NEW fd, NEW g, NEW o, g = s.fds[q][fd], o = s.table[g].fd_inode,
           Counts(s, t, q, fd)
    PROVE  /\ t.hurt = s.hurt /\ t.removed = s.removed
           /\ g = -1 => t = s
           /\ g # -1 /\ s.table[g].fd_flag = "pipe" =>
                /\ t.inode = s.inode /\ t.table[g].fd_inode = s.table[g].fd_inode
                /\ \A h \in Slot \ {g} : t.table[h] = s.table[h]
           /\ g # -1 /\ s.table[g].fd_flag # "pipe" /\ o \in Obj =>
                /\ t.table = s.table /\ t.inode[o] # NULL /\ t.inode[o].i_no = s.inode[o].i_no
                /\ \A x \in Obj \ {o} : t.inode[x] = s.inode[x]
           /\ g # -1 /\ s.table[g].fd_flag # "pipe" /\ o \notin Obj =>
                t.table = s.table /\ t.inode = s.inode
<1>1. t.hurt = s.hurt BY Zenon DEF Counts
<1>2. t.removed = s.removed BY Zenon DEF Counts
<1>3. g = -1 => t = s BY Zenon DEF Counts
<1>4. g # -1 /\ s.table[g].fd_flag = "pipe" =>
        /\ t.inode = s.inode /\ t.table[g].fd_inode = s.table[g].fd_inode
        /\ \A h \in Slot \ {g} : t.table[h] = s.table[h]
  BY Zenon DEF Counts
<1>5. g # -1 /\ s.table[g].fd_flag # "pipe" /\ o \in Obj =>
        /\ t.table = s.table /\ t.inode[o] # NULL /\ t.inode[o].i_no = s.inode[o].i_no
        /\ \A x \in Obj \ {o} : t.inode[x] = s.inode[x]
  BY Zenon DEF Counts
<1>6. g # -1 /\ s.table[g].fd_flag # "pipe" /\ o \notin Obj => t.table = s.table /\ t.inode = s.inode
  BY Zenon DEF Counts
<1> QED BY <1>1, <1>2, <1>3, <1>4, <1>5, <1>6
LEMMA ShrinksCounts ==
    ASSUME NEW s \in OpenFilesState, NEW t \in OpenFilesState, Held(s), NEW q \in Process, NEW fd \in Fd,
           Counts(s, t, q, fd)
    PROVE  Shrinks(s, t)
<1>1. PICK g \in Slot \cup {-1} : g = s.fds[q][fd] BY FieldTypes
<1>2. PICK o : o = s.table[g].fd_inode OBVIOUS
<1>3. t.removed = s.removed /\ t.hurt = s.hurt BY <1>1, <1>2, CountsCases
<1>4. CASE g = -1
  <2>1. t = s BY <1>1, <1>4 DEF Counts
  <2> QED BY <2>1, ShrinksSame
<1>5. CASE g # -1 /\ s.table[g].fd_flag = "pipe"
  <2>1. /\ t.inode = s.inode /\ t.table[g].fd_inode = s.table[g].fd_inode
        /\ \A h \in Slot \ {g} : t.table[h] = s.table[h]
    BY <1>1, <1>2, <1>5, CountsCases
  <2>2. \A h \in Slot : t.table[h].fd_inode = s.table[h].fd_inode BY <2>1
  <2> QED BY <1>3, <2>1, <2>2 DEF Shrinks, Thins
<1>6. CASE g # -1 /\ s.table[g].fd_flag # "pipe" /\ o \in Obj
  <2>1. s.inode[o] # NULL BY <1>2, <1>6 DEF Held
  <2>2. /\ t.table = s.table /\ t.inode[o] # NULL /\ t.inode[o].i_no = s.inode[o].i_no
        /\ \A x \in Obj \ {o} : t.inode[x] = s.inode[x]
    BY <1>1, <1>2, <1>6, CountsCases
  <2>3. \A x \in Obj : t.inode[x] # NULL => s.inode[x] # NULL /\ t.inode[x].i_no = s.inode[x].i_no
    BY <2>1, <2>2
  <2>4. \A x \in Obj : s.inode[x] # NULL => t.inode[x] # NULL BY <2>2
  <2>5. s.removed \subseteq Obj BY FieldTypes
  <2> QED BY <1>3, <2>2, <2>3, <2>4, <2>5 DEF Shrinks, Thins
<1>7. CASE g # -1 /\ s.table[g].fd_flag # "pipe" /\ o \notin Obj
  <2>1. t.table = s.table /\ t.inode = s.inode BY <1>1, <1>2, <1>7, CountsCases
  <2> QED BY <1>3, <2>1, ShrinksSame
<1> QED BY <1>4, <1>5, <1>6, <1>7

LEMMA ShrinksForks ==
    ASSUME NEW s \in OpenFilesState, NEW x \in OpenFilesState, NEW m \in Obj \cup {NULL},
           NEW r \in Obj \cup {NULL}, NEW w, Cover(s, m, r, w), NEW p \in Process, NEW q \in Process,
           NEW done, Forks(s, x, done, p, q)
    PROVE  Shrinks(s, x)
<1>0. MAX_FDS \in Nat /\ Fd = 1..MAX_FDS BY Addresses DEF Fd
<1>1. /\ \A i \in 0..MAX_FDS : done[i] \in OpenFilesState
      /\ Copied(s, done[0], p, q) /\ Cleared(done[MAX_FDS], x)
      /\ \A i \in 1..MAX_FDS : Counts(done[i - 1], done[i], q, i)
  BY DEF Forks
<1> DEFINE S == {i \in 0..MAX_FDS : Shrinks(s, done[i]) /\ Cover(done[i], m, r, w)}
<1>2. 0 \in S
  <2>1. PICK u \in OpenFilesState : u = done[0] BY <1>0, <1>1
  <2>2. /\ u.inode = s.inode /\ u.open_inodes = s.open_inodes /\ u.table = s.table
        /\ u.removed = s.removed /\ u.hurt = s.hurt
    BY <1>1, <2>1 DEF Copied, SameInodes
  <2>3. Cover(u, m, r, w) BY <2>2, CoverKept
  <2>4. Shrinks(s, u) BY <2>2, ShrinksSame
  <2> QED BY <1>0, <2>1, <2>3, <2>4
<1>3. ASSUME NEW i \in 1..MAX_FDS, i - 1 \in S PROVE i \in S
  <2>1. i - 1 \in 0..MAX_FDS /\ i \in 0..MAX_FDS /\ i \in Fd BY <1>0
  <2>2. PICK a \in OpenFilesState, b \in OpenFilesState : a = done[i - 1] /\ b = done[i]
    BY <1>1, <2>1
  <2>3. Counts(a, b, q, i) /\ Shrinks(s, a) /\ Cover(a, m, r, w) BY <1>1, <1>3, <2>2
  <2>4. Held(a) BY <2>3 DEF Cover
  <2>5. Shrinks(s, b) BY <2>1, <2>3, <2>4, ShrinksCounts, ShrinksTwice
  <2>6. Cover(b, m, r, w) BY <2>1, <2>3, CoverCounts
  <2> QED BY <2>1, <2>2, <2>5, <2>6
<1>4. MAX_FDS \in S
  <2> HIDE DEF S
  <2> QED BY <1>0, <1>2, <1>3, Passes
<1> QED BY <1>1, <1>4, ShrinksCleared, ShrinksTwice

LEMMA ShrinksExits ==
    ASSUME NEW s \in OpenFilesState, NEW x \in OpenFilesState, NEW m \in Obj \cup {NULL},
           NEW r \in Obj \cup {NULL}, NEW w, Cover(s, m, r, w), NEW p \in Process,
           NEW done, Exits(s, x, done, p)
    PROVE  Shrinks(s, x)
<1>0. MAX_FDS \in Nat /\ Fd = 1..MAX_FDS BY Addresses DEF Fd
<1>1. /\ \A i \in 0..MAX_FDS : done[i] \in OpenFilesState
      /\ done[0] = s /\ Cleared(done[MAX_FDS], x)
      /\ \A i \in 1..MAX_FDS : Releases(done[i - 1], done[i], p, i)
  BY DEF Exits
<1> DEFINE S == {i \in 0..MAX_FDS : Shrinks(s, done[i]) /\ Cover(done[i], m, r, w)}
<1>2. 0 \in S
  <2>1. Shrinks(s, s) BY ShrinksSame
  <2> QED BY <1>0, <1>1, <2>1
<1>3. ASSUME NEW i \in 1..MAX_FDS, i - 1 \in S PROVE i \in S
  <2>1. i - 1 \in 0..MAX_FDS /\ i \in 0..MAX_FDS /\ i \in Fd BY <1>0
  <2>2. PICK a \in OpenFilesState, b \in OpenFilesState : a = done[i - 1] /\ b = done[i]
    BY <1>1, <2>1
  <2>3. Releases(a, b, p, i) /\ Shrinks(s, a) /\ Cover(a, m, r, w) BY <1>1, <1>3, <2>2
  <2>4. Held(a) BY <2>3 DEF Cover
  <2>5. Shrinks(s, b) BY <2>1, <2>3, <2>4, ShrinksReleases, ShrinksTwice
  <2>6. Cover(b, m, r, w) BY <2>1, <2>3, CoverReleases
  <2> QED BY <2>1, <2>2, <2>5, <2>6
<1>4. MAX_FDS \in S
  <2> HIDE DEF S
  <2> QED BY <1>0, <1>2, <1>3, Passes
<1> QED BY <1>1, <1>4, ShrinksCleared, ShrinksTwice

LEMMA ShrinksCloses ==
    ASSUME NEW s \in OpenFilesState, NEW x \in OpenFilesState, Held(s), NEW p \in Process, NEW fd \in Fd,
           s.fds[p][fd] # -1, Closes(s, x, p, fd)
    PROVE  Shrinks(s, x)
<1>1. PICK t \in OpenFilesState : DescriptorClosed(s, t, p, fd) /\ Cleared(t, x) BY DEF Closes
<1> QED BY <1>1, ShrinksClosed, ShrinksCleared, ShrinksTwice

LEMMA ShrinksPipes ==
    ASSUME NEW s \in OpenFilesState, NEW x \in OpenFilesState, NEW p \in Process, NEW g \in Slot,
           NEW page \in Page, Pipes(s, x, p, g, page)
    PROVE  Shrinks(s, x)
<1>1. PICK u \in OpenFilesState, v \in OpenFilesState, t \in OpenFilesState :
        /\ SlotFilled(s, u, g, page, 2, "pipe")
        /\ Installed(u, v, p, g) /\ Installed(v, t, p, g) /\ Cleared(t, x)
  BY DEF Pipes
<1>2. Shrinks(s, u)
  <2>1. /\ u.inode = s.inode /\ u.removed = s.removed /\ u.hurt = Filled(s, g, page)
        /\ u.table[g].fd_inode = page /\ \A h \in Slot \ {g} : u.table[h] = s.table[h]
    BY <1>1 DEF SlotFilled, SameInodes
  <2>2. \A o \in Obj : o \in s.hurt => o \in u.hurt BY <2>1, FilledHurt
  <2>3. \A h \in Slot : u.table[h].fd_inode \in Obj => u.table[h].fd_inode = s.table[h].fd_inode
    BY <2>1, Addresses
  <2> QED BY <2>1, <2>2, <2>3 DEF Shrinks, Thins
<1>3. Shrinks(u, v) /\ Shrinks(v, t) /\ Shrinks(t, x)
  BY <1>1, ShrinksInstalled, ShrinksCleared
<1> QED BY <1>2, <1>3, ShrinksTwice

LEMMA ShrinksLinks ==
    ASSUME NEW s \in OpenFilesState, NEW x \in OpenFilesState, NEW p \in Process, NEW g \in Slot,
           NEW o \in Obj, s.inode[o] # NULL, Links(s, x, p, g, o)
    PROVE  Shrinks(s, x)
<1>1. PICK u \in OpenFilesState, t \in OpenFilesState :
        Linked(s, u, o) /\ Installed(u, t, p, g) /\ Cleared(t, x)
  BY DEF Links
<1>2. Shrinks(s, u)
  <2>1. s.removed \subseteq Obj BY FieldTypes
  <2> QED BY <1>1, <2>1 DEF Linked, Shrinks, Thins
<1> QED BY <1>1, <1>2, ShrinksInstalled, ShrinksCleared, ShrinksTwice

LEMMA ShrinksUnmakes ==
    ASSUME NEW s \in OpenFilesState, NEW x \in OpenFilesState, NEW g \in Slot, NEW o \in Obj,
           o \notin s.removed, Unmakes(s, x, g, o)
    PROVE  Shrinks(s, x) /\ x.inode[o] = NULL
<1>1. PICK t \in OpenFilesState : Unmade(s, t, g, o) /\ Cleared(t, x) BY DEF Unmakes
<1>2. Shrinks(s, t)
  <2>1. s.removed \subseteq Obj \ {o} BY FieldTypes
  <2>2. \A h \in Slot : t.table[h].fd_inode \in Obj => t.table[h].fd_inode = s.table[h].fd_inode
    BY <1>1, Addresses DEF Unmade, Empty
  <2> QED BY <1>1, <2>1, <2>2 DEF Unmade, Shrinks, Thins
<1>3. x.inode = t.inode /\ t.inode[o] = NULL BY <1>1 DEF Cleared, SameInodes, Unmade
<1> QED BY <1>1, <1>2, <1>3, ShrinksCleared, ShrinksTwice

LEMMA ShrinksFaults ==
    ASSUME NEW s, NEW t, NEW line, Faults(s, t, line)
    PROVE  Shrinks(s, t)
  BY ShrinksSame DEF Faults, SameInodes

\* inode_open(): the inode is in the list, or no inode has the number.
LEMMA CopiesOpened ==
    ASSUME NEW s \in OpenFilesState, NEW t \in OpenFilesState, NEW m, NEW r, NEW w, Cover(s, m, r, w),
           NEW bm, Copies(s, bm), NEW o \in Obj, NEW i,
           s.inode[o] = NULL => Absent(s, i), InodeOpened(s, t, i, o)
    PROVE  /\ Copies(t, bm) /\ t.inode[o] # NULL /\ t.inode[o].i_no = i
           /\ Unheld(s, i) => Unheld(t, i)
<1>1. /\ t.table = s.table /\ t.hurt = s.hurt /\ t.removed = s.removed
      /\ \A x \in Obj \ {o} : t.inode[x] = s.inode[x]
      /\ t.inode[o] # NULL /\ t.inode[o].i_no = i
  BY DEF InodeOpened, InodeShared, InodeRead
<1>2. s.removed \subseteq Obj BY FieldTypes
<1>3. CASE InodeShared(s, t, i, o)
  <2>1. s.inode[o] # NULL /\ s.inode[o].i_no = i BY <1>3 DEF InodeShared, Cover, Listed
  <2>2. Shrinks(s, t) BY <1>1, <1>2, <2>1 DEF Shrinks, Thins
  <2>3. Thins(s, t) BY <2>2 DEF Shrinks
  <2> QED BY <1>1, <2>2, <2>3, CopiesShrink, UnheldThins
<1>4. CASE InodeRead(s, t, i, o)
  <2>1. s.inode[o] = NULL /\ Absent(s, i) BY <1>4 DEF InodeRead
  <2>2. \A x \in Obj \ {o} : t.inode[x] # NULL => t.inode[x].i_no # i BY <1>1, <2>1 DEF Absent
  <2>3. Single(t) BY <1>1, <2>2 DEF Single, Copies
  <2>4. Remnants(t) BY <1>1, <1>2, <2>1 DEF Remnants, Copies
  <2>5. \A g \in Slot : s.table[g].fd_inode # o BY <2>1 DEF Cover, Held
  <2>6. Allotted(t, bm)
    <3> SUFFICES ASSUME NEW g \in Slot, NEW x \in Obj \ t.hurt, t.table[g].fd_inode = x, t.inode[x] # NULL
                 PROVE  t.inode[x].i_no \in bm
      BY DEF Allotted
    <3>1. x # o /\ t.inode[x] = s.inode[x] BY <1>1, <2>5
    <3> QED BY <1>1, <3>1 DEF Copies, Allotted
  <2>7. ASSUME Unheld(s, i), NEW g \in Slot, NEW x \in Obj, t.table[g].fd_inode = x, t.inode[x] # NULL
        PROVE  t.inode[x].i_no # i
    <3>1. x # o BY <1>1, <2>5, <2>7
    <3> QED BY <2>2, <2>7, <3>1
  <2>8. Unheld(s, i) => Unheld(t, i) BY <2>7 DEF Unheld
  <2> QED BY <1>1, <2>3, <2>4, <2>6, <2>8 DEF Copies
<1> QED BY <1>3, <1>4 DEF InodeOpened

\* open, all of it.
LEMMA CopiesOpens ==
    ASSUME NEW s \in OpenFilesState, NEW x \in OpenFilesState, NEW m, NEW r, NEW w, Cover(s, m, r, w),
           NEW bm, Copies(s, bm), NEW p, NEW g \in Slot, NEW o \in Obj, NEW i \in bm, NEW flag,
           s.inode[o] = NULL => Absent(s, i), Opens(s, x, p, g, i, o, flag)
    PROVE  Copies(x, bm)
<1>1. PICK a \in OpenFilesState, u \in OpenFilesState, v \in OpenFilesState, t \in OpenFilesState :
        OpenedFrom(s, a, u, v, t, p, g, i, o, flag) /\ Cleared(t, x)
  BY DEF Opens
<1>2. Copies(a, bm) /\ a.inode[o] # NULL /\ a.inode[o].i_no = i
  BY <1>1, CopiesOpened DEF OpenedFrom
<1>3. Copies(u, bm)
  <2>1. /\ u.inode = a.inode /\ u.removed = a.removed /\ u.hurt = Filled(a, g, o)
        /\ u.table[g].fd_inode = o /\ \A h \in Slot \ {g} : u.table[h] = a.table[h]
    BY <1>1 DEF OpenedFrom, SlotFilled, SameInodes
  <2>2. \A y \in Obj : y \in a.hurt => y \in u.hurt
    <3>1. \A y \in Obj : y \in a.hurt => y \in Filled(a, g, o) BY FilledHurt
    <3> QED BY <2>1, <3>1
  <2>3. Single(u) BY <1>2, <2>1, <2>2 DEF Single, Copies
  <2>4. a.removed \subseteq Obj BY FieldTypes
  <2>5. Remnants(u) BY <1>2, <2>1, <2>2, <2>4 DEF Remnants, Copies
  <2>6. Allotted(u, bm)
    <3> SUFFICES ASSUME NEW h \in Slot, NEW y \in Obj \ u.hurt, u.table[h].fd_inode = y, u.inode[y] # NULL
                 PROVE  u.inode[y].i_no \in bm
      BY DEF Allotted
    <3>1. CASE h = g BY <1>2, <2>1, <3>1
    <3>2. CASE h # g BY <1>2, <2>1, <2>2, <3>2 DEF Copies, Allotted
    <3> QED BY <3>1, <3>2
  <2> QED BY <2>3, <2>5, <2>6 DEF Copies
<1>4. Copies(t, bm)
  <2>1. CASE Refused(u, t, g, o)
    <3>1. Shrinks(u, t) BY <2>1, ShrinksSame DEF Refused, SameInodes
    <3> QED BY <1>3, <3>1, CopiesShrink
  <2>2. CASE Denied(u, v, o) /\ Installed(v, t, p, g)
    <3>1. u.inode[o] # NULL BY <1>1, <1>2 DEF OpenedFrom, SlotFilled, SameInodes
    <3>2. u.removed \subseteq Obj BY FieldTypes
    <3>3. Shrinks(u, v) BY <2>2, <3>1, <3>2 DEF Denied, Shrinks, Thins
    <3>4. Shrinks(v, t) BY <2>2, ShrinksInstalled
    <3> QED BY <1>3, <3>3, <3>4, CopiesShrink
  <2>3. CASE Installed(u, t, p, g) BY <1>3, <2>3, ShrinksInstalled, CopiesShrink
  <2> QED BY <1>1, <2>1, <2>2, <2>3 DEF OpenedFrom
<1> QED BY <1>1, <1>4, ShrinksCleared, CopiesShrink

\* file_create() takes a number that is free: an inode that has it is hurt.
LEMMA CopiesMade ==
    ASSUME NEW s \in OpenFilesState, NEW t \in OpenFilesState, NEW bm, Copies(s, bm),
           NEW g \in Slot, NEW o \in Obj, NEW i, NEW flag, i \notin bm, s.inode[o] = NULL,
           NEW bn, bn = bm \cup {i},
           \A x \in Obj \ s.hurt : s.inode[x] # NULL => s.inode[x].i_no \in bm,
           Made(s, t, g, o, i, flag)
    PROVE  /\ Copies(t, bn) /\ o \notin t.removed
           /\ \A x \in Obj \ t.hurt : t.inode[x] # NULL /\ t.inode[x].i_no = i => x = o
<1>1. /\ t.removed = s.removed /\ t.hurt = Filled(s, g, o)
      /\ \A x \in Obj \ {o} : t.inode[x] = s.inode[x]
      /\ t.inode[o] # NULL /\ t.inode[o].i_no = i
      /\ t.table[g].fd_inode = o /\ \A h \in Slot \ {g} : t.table[h] = s.table[h]
  BY DEF Made
<1>2. \A x \in Obj : x \in s.hurt => x \in t.hurt BY <1>1, FilledHurt
<1>3. \A x \in Obj \ t.hurt : t.inode[x] # NULL /\ x # o => t.inode[x].i_no \in bm
  BY <1>1, <1>2
<1>4. \A x \in Obj \ t.hurt : t.inode[x] # NULL /\ t.inode[x].i_no = i => x = o BY <1>3
<1>5. s.removed \subseteq Obj \ {o}
  <2>1. s.removed \subseteq Obj BY FieldTypes
  <2> QED BY <2>1 DEF Copies, Remnants
<1>6. Single(t)
  <2> SUFFICES ASSUME NEW x \in Obj \ t.hurt, NEW y \in Obj \ t.hurt, t.inode[x] # NULL,
                      t.inode[y] # NULL, t.inode[x].i_no = t.inode[y].i_no
               PROVE  x = y
    BY DEF Single
  <2>1. CASE x = o \/ y = o BY <1>1, <1>4, <2>1
  <2>2. CASE x # o /\ y # o BY <1>1, <1>2, <2>2 DEF Copies, Single
  <2> QED BY <2>1, <2>2
<1>7. Remnants(t) BY <1>1, <1>2, <1>5 DEF Remnants, Copies
<1>8. Allotted(t, bn) BY <1>1, <1>3 DEF Allotted
<1> QED BY <1>1, <1>4, <1>5, <1>6, <1>7, <1>8 DEF Copies

\* inode_release(): what has the number and is not hurt is the inode it has
\* opened, which nobody else has, and which is freed.
LEMMA CopiesForget ==
    ASSUME NEW s \in OpenFilesState, NEW x \in OpenFilesState, NEW bm, Copies(s, bm),
           NEW o \in Obj, NEW i, s.inode[o] # NULL, s.inode[o].i_no = i, o \in Range(s.open_inodes),
           Unheld(s, i), o \notin s.hurt => s.inode[o].i_open_cnts = 1,
           \A y \in Obj \ s.hurt : s.inode[y] # NULL /\ s.inode[y].i_no = i => y = o,
           Forgets(s, x, i, o)
    PROVE  Copies(x, bm \ {i})
<1>1. PICK u \in OpenFilesState, t \in OpenFilesState :
        Gone(s, u, i) /\ InodeClosed(u, t, o) /\ t.table = s.table /\ Cleared(t, x)
  BY DEF Forgets
<1>2. /\ u.table = s.table /\ u.inode = s.inode /\ u.hurt = s.hurt /\ u.open_inodes = s.open_inodes
      /\ u.removed = s.removed \cup {y \in Obj : s.inode[y] # NULL /\ s.inode[y].i_no = i}
  BY <1>1 DEF Gone
<1>3. \A y \in Obj : t.inode[y] # NULL =>
        /\ s.inode[y] # NULL /\ t.inode[y].i_no = s.inode[y].i_no
        /\ y \in s.hurt => y \in t.hurt
  BY <1>1, <1>2, ThinsClosed
<1>4. Thins(s, t) BY <1>1, <1>3 DEF Thins
<1>5. Single(t) /\ Allotted(t, bm) BY <1>4, ThinsKeeps DEF Copies
<1>6. Unheld(t, i) BY <1>4, UnheldThins
<1>7. Allotted(t, bm \ {i}) BY <1>5, <1>6 DEF Allotted, Unheld
<1>8. Remnants(t)
  <2>1. s.removed \subseteq Obj BY FieldTypes
  <2>2. \A y \in u.removed : y \in Obj /\ s.inode[y] # NULL /\ (y \in s.hurt \/ y = o)
    BY <1>2, <2>1 DEF Copies, Remnants
  <2>3. CASE InodeDropped(u, t, o)
    <3>1. o \in s.hurt BY <1>2, <2>3 DEF InodeDropped
    <3>2. t.removed = u.removed /\ t.hurt = s.hurt /\ t.inode[o] # NULL
          /\ \A y \in Obj \ {o} : t.inode[y] = s.inode[y]
      BY <1>1, <1>2, <2>3 DEF InodeClosed, InodeDropped
    <3> QED BY <2>2, <3>1, <3>2 DEF Remnants
  <2>4. CASE InodeFreed(u, t, o)
    <3>1. t.removed = u.removed \ {o} /\ t.hurt = s.hurt \ {o}
          /\ \A y \in Obj \ {o} : t.inode[y] = s.inode[y]
      BY <1>1, <1>2, <2>4 DEF InodeClosed, InodeFreed
    <3> QED BY <2>2, <3>1 DEF Remnants
  <2>5. ~InodeAstray(u, t, o) BY <1>2 DEF InodeAstray
  <2> QED BY <1>1, <2>3, <2>4, <2>5 DEF InodeClosed
<1>9. Copies(t, bm \ {i}) BY <1>5, <1>7, <1>8 DEF Copies
<1> QED BY <1>1, <1>9, ShrinksCleared, CopiesShrink

\* An inode that is not hurt and that no call uses is held by a slot.
LEMMA OpenHeld ==
    ASSUME Inductive, AccInv, f.fault = "none", NEW o \in Obj \ f.hurt, f.inode[o] # NULL,
           o # Maker, o # Releaser
    PROVE  \E g \in Slot : f.table[g].fd_inode = o
<1>1. f \in OpenFilesState /\ CountRight(f, f.fds, Maker, Releaser, o)
      /\ Cover(f, Maker, Releaser, Target)
  BY AccBefore DEF Tallied, CountsRight
<1>2. f.inode[o].i_open_cnts = Cardinality(Users(f, f.fds, o)) + 0 BY <1>1 DEF CountRight
<1>3. f.inode[o].i_open_cnts >= 1 BY <1>1 DEF Cover, Counted
<1>4. Users(f, f.fds, o) # {}
  <2> SUFFICES ASSUME Users(f, f.fds, o) = {} PROVE FALSE OBVIOUS
  <2>1. Cardinality(Users(f, f.fds, o)) = 0 BY FS_EmptySet
  <2> QED BY <1>2, <1>3, <2>1
<1>5. Holding(f, o) # {} BY <1>4 DEF Users
<1> QED BY <1>5 DEF Holding

\* A step that leaves the entries, the bitmap and the call in progress alone.
LEMMA CopyKept ==
    ASSUME Inductive, Inductive', CopyInv, Shrinks(f, f'), UNCHANGED <<entry, bitmap, call>>
    PROVE  CopyInv'
<1>1. f' \in OpenFilesState /\ TypeOK BY DEF Inductive, TypeOK
<1>2. Maker' = Maker /\ Releaser' = Releaser /\ Target' = Target BY DEF Maker, Releaser, Target
<1>3. Pending(f', Maker, Releaser, Target) BY <1>2 DEF Inductive, CoverInv, Cover
<1>4. Copies(f', bitmap) BY <1>1, CopiesShrink DEF CopyInv
<1>5. Thins(f, f') BY DEF Shrinks
<1>6. CallCopies(f, entry, bitmap, call) BY DEF CopyInv
<1>7. NULL \notin Obj BY Addresses
<1>8. ASSUME call # NULL, call.op = "open"
      PROVE  call.ino \in bitmap /\ Absent(f', call.ino)
  <2>1. call.ino \in bitmap /\ Absent(f, call.ino) BY <1>6, <1>8 DEF CallCopies
  <2> QED BY <1>5, <2>1, UnheldThins
<1>9. ASSUME call # NULL, call.op = "create"
      PROVE  LET i == f'.inode[call.obj].i_no
             IN  /\ i \in bitmap /\ call.obj \notin f'.removed /\ \A n \in Name : entry[n] # i
                 /\ \A o \in Obj \ f'.hurt : f'.inode[o] # NULL /\ f'.inode[o].i_no = i => o = call.obj
  <2>1. PICK m : m = call.obj OBVIOUS
  <2>2. m \in Obj /\ Maker = m BY <1>1, <1>9, <2>1, CallTypes, CoverTypes
  <2>3. f'.inode[m] # NULL BY <1>3, <1>7, <2>2 DEF Pending
  <2>4. PICK i : i = f.inode[m].i_no OBVIOUS
  <2>5. f'.inode[m].i_no = i BY <1>5, <2>2, <2>3, <2>4 DEF Thins
  <2>6. /\ i \in bitmap /\ m \notin f.removed /\ \A n \in Name : entry[n] # i
        /\ \A o \in Obj \ f.hurt : f.inode[o] # NULL /\ f.inode[o].i_no = i => o = m
    BY <1>6, <1>9, <2>1, <2>4 DEF CallCopies
  <2>7. m \notin f'.removed BY <2>6 DEF Shrinks
  <2>8. ASSUME NEW o \in Obj \ f'.hurt, f'.inode[o] # NULL, f'.inode[o].i_no = i PROVE o = m
    <3>1. o \in Obj \ f.hurt /\ f.inode[o] # NULL /\ f.inode[o].i_no = i BY <1>5, <2>8 DEF Thins
    <3> QED BY <2>6, <3>1
  <2> QED BY <2>1, <2>5, <2>6, <2>7, <2>8
<1>10. ASSUME call # NULL, call.op = "unlink"
       PROVE  /\ \A n \in Name : entry[n] = call.ino => n = call.name /\ call.obj = NULL
              /\ call.obj # NULL => f'.inode[call.obj].i_no = call.ino
              /\ Unheld(f', call.ino)
  <2>1. /\ \A n \in Name : entry[n] = call.ino => n = call.name /\ call.obj = NULL
        /\ call.obj # NULL => f.inode[call.obj].i_no = call.ino
        /\ Unheld(f, call.ino)
    BY <1>6, <1>10 DEF CallCopies
  <2>2. Unheld(f', call.ino) BY <1>5, <2>1, UnheldThins
  <2>3. ASSUME call.obj # NULL PROVE f'.inode[call.obj].i_no = call.ino
    <3>1. PICK o : o = call.obj OBVIOUS
    <3>2. o \in Obj /\ Releaser = o BY <1>1, <1>10, <2>3, <3>1, CallTypes, CoverTypes
    <3>3. f'.inode[o] # NULL BY <1>3, <1>7, <3>2 DEF Pending
    <3>4. f'.inode[o].i_no = f.inode[o].i_no BY <1>5, <3>2, <3>3 DEF Thins
    <3> QED BY <2>1, <2>3, <3>1, <3>4
  <2> QED BY <2>1, <2>2, <2>3
<1>11. CallCopies(f', entry, bitmap, call) BY <1>8, <1>9, <1>10 DEF CallCopies
<1> QED BY <1>4, <1>11 DEF CopyInv

\* What all calls but open, create and unlink do.
LEMMA CopyOthers ==
    ASSUME Inductive, Inductive', AccInv, CopyInv, NEW p \in Process,
           \/ \E fd \in Fd : Transfer(p, fd) \/ Close(p, fd)
           \/ Transferred(p) \/ sys_pipe(p) \/ sys_exit(p)
           \/ \E q \in Process : sys_fork(p, q)
    PROVE  CopyInv'
<1>1. /\ f \in OpenFilesState /\ f' \in OpenFilesState /\ Cover(f, Maker, Releaser, Target)
      /\ Maker \in Obj \cup {NULL} /\ Releaser \in Obj \cup {NULL}
  BY CoverTypes DEF Inductive, TypeOK, CoverInv
<1>2. Shrinks(f, f)
  BY ShrinksSame
<1>3. UNCHANGED <<entry, bitmap, call>>
  BY DEF Transfer, Transferred, Close, sys_pipe, sys_exit, sys_fork
<1>4. ASSUME NEW fd \in Fd, Transfer(p, fd) PROVE Shrinks(f, f')
  <2>1. f' = f \/ Faults(f, f', "file.c:218") BY <1>4, TransferStep
  <2> QED BY <1>2, <2>1, ShrinksFaults
<1>5. ASSUME Transferred(p) PROVE Shrinks(f, f')
  <2>1. f' = f \/ Faults(f, f', "file.c:218") BY <1>5, TransferredStep
  <2> QED BY <1>2, <2>1, ShrinksFaults
<1>6. ASSUME NEW fd \in Fd, Close(p, fd) PROVE Shrinks(f, f')
  <2>1. Closes(f, f', p, fd) BY <1>6, CloseStep
  <2>2. Held(f) /\ f.fds[p][fd] # -1 BY <1>1, <1>6 DEF Cover, Close
  <2> QED BY <1>1, <2>1, <2>2, ShrinksCloses
<1>7. ASSUME sys_pipe(p) PROVE Shrinks(f, f')
  <2>1. \/ \E g \in Slot, page \in Page : Pipes(f, f', p, g, page)
        \/ Faults(f, f', "pipe.c:17") \/ Faults(f, f', "pipe.c:19")
    BY <1>7, PipeStep
  <2> QED BY <1>1, <2>1, ShrinksPipes, ShrinksFaults
<1>8. ASSUME sys_exit(p) PROVE Shrinks(f, f')
  <2>1. PICK done : Exits(f, f', done, p) BY <1>8, ExitStep
  <2> QED BY <1>1, <2>1, ShrinksExits
<1>9. ASSUME NEW q \in Process, sys_fork(p, q) PROVE Shrinks(f, f')
  <2>1. PICK done : Forks(f, f', done, p, q) BY <1>9, ForkStep
  <2> QED BY <1>1, <2>1, ShrinksForks
<1>10. Shrinks(f, f') BY <1>4, <1>5, <1>6, <1>7, <1>8, <1>9
<1> QED BY <1>3, <1>10, CopyKept

\* A step after which no call is in progress.
LEMMA CopyIdle ==
    ASSUME call' = NULL, Copies(f', bitmap'), Entries(entry', bitmap')
    PROVE  CopyInv'
  BY DEF CopyInv, CallCopies

\* A number that is not in the list is not in memory, as long as no call makes
\* an inode.
LEMMA AbsentUncached ==
    ASSUME NEW s \in OpenFilesState, Listed(s, NULL), NEW i, Cached(s, i) = NULL
    PROVE  Absent(s, i)
<1>1. NULL \notin Obj BY Addresses
<1>2. \A x \in Range(s.open_inodes) : s.inode[x].i_no # i BY CachedFinds
<1>3. \A x \in Obj : s.inode[x] # NULL => x \in Range(s.open_inodes) BY <1>1 DEF Listed
<1> QED BY <1>2, <1>3 DEF Absent

LEMMA CopyOpenCached ==
    ASSUME Inductive, CopyInv, NEW p \in Process, NEW n \in Name, NEW flag \in {"r", "w"},
           OpenCached(p, n, flag)
    PROVE  CopyInv'
<1>1. PICK i : i = entry[n] OBVIOUS
<1>2. PICK g \in Slot, o \in Obj : o = Cached(f, i) /\ Opens(f, f', p, g, i, o, flag)
  BY <1>1, OpenCachedStep
<1>3. /\ call = NULL /\ i # NULL /\ Cached(f, i) # NULL
      /\ UNCHANGED <<entry, bitmap, call>>
  BY <1>1 DEF OpenCached, ReadyForDisk
<1>4. f \in OpenFilesState /\ Cover(f, NULL, NULL, NULL)
  BY <1>3, CoverTypes DEF Inductive, CoverInv
<1>5. f' \in OpenFilesState BY OpenCachedStep DEF Inductive, TypeOK
<1>6. Copies(f, bitmap) /\ Entries(entry, bitmap) BY DEF CopyInv
<1>7. i \in bitmap BY <1>1, <1>3, <1>6 DEF Entries
<1>8. f.inode[o] # NULL BY <1>2, <1>3, <1>4, CachedFinds DEF Cover, Listed
<1>9. Copies(f', bitmap) BY <1>2, <1>4, <1>5, <1>6, <1>7, <1>8, CopiesOpens
<1> QED BY <1>3, <1>6, <1>9, CopyIdle

LEMMA CopyOpen ==
    ASSUME Inductive, CopyInv, NEW p \in Process, NEW n \in Name, NEW flag \in {"r", "w"},
           Open(p, n, flag)
    PROVE  CopyInv'
<1>1. PICK i : i = entry[n] OBVIOUS
<1>2. f' = f /\ call'.op = "open" /\ call'.ino = i BY <1>1, OpenStep
<1>3. call = NULL /\ i # NULL /\ Cached(f, i) = NULL /\ UNCHANGED <<entry, bitmap>>
  BY <1>1 DEF Open, ReadyForDisk
<1>4. f \in OpenFilesState /\ Cover(f, NULL, NULL, NULL)
  BY <1>3, CoverTypes DEF Inductive, CoverInv
<1>5. Copies(f, bitmap) /\ Entries(entry, bitmap) BY DEF CopyInv
<1>6. i \in bitmap BY <1>1, <1>3, <1>5 DEF Entries
<1>7. Absent(f, i) BY <1>3, <1>4, AbsentUncached DEF Cover
<1>8. CallCopies(f', entry', bitmap', call') BY <1>2, <1>3, <1>6, <1>7 DEF CallCopies
<1> QED BY <1>2, <1>3, <1>5, <1>8 DEF CopyInv

LEMMA CopyOpenRead ==
    ASSUME Inductive, CopyInv, OpenRead
    PROVE  CopyInv'
<1>1. /\ call # NULL /\ call.op = "open" /\ call.p \in Process /\ call.slot \in Slot
      /\ call.ino \in Ino
  BY OpenReadStep
<1>2. PICK p \in Process, g \in Slot, i \in Ino, flag \in {"r", "w"} :
        p = call.p /\ g = call.slot /\ i = call.ino /\ flag = call.flag
  BY <1>1, CallTypes DEF Inductive
<1>3. PICK o \in Obj : Opens(f, f', p, g, i, o, flag) BY <1>2, OpenReadStep
<1>4. call' = NULL /\ UNCHANGED <<entry, bitmap>> BY DEF OpenRead
<1>5. f \in OpenFilesState /\ Cover(f, NULL, NULL, NULL)
  BY <1>1, CoverTypes DEF Inductive, CoverInv
<1>6. f' \in OpenFilesState BY OpenReadStep DEF Inductive, TypeOK
<1>7. Copies(f, bitmap) /\ Entries(entry, bitmap) /\ CallCopies(f, entry, bitmap, call)
  BY DEF CopyInv
<1>8. i \in bitmap /\ Absent(f, i) BY <1>1, <1>2, <1>7 DEF CallCopies
<1>9. Copies(f', bitmap) BY <1>3, <1>5, <1>6, <1>7, <1>8, CopiesOpens
<1> QED BY <1>4, <1>7, <1>9, CopyIdle

LEMMA CopyCreate ==
    ASSUME Inductive, AccInv, CopyInv, NEW p \in Process, NEW n \in Name, NEW flag \in {"r", "w"},
           Create(p, n, flag)
    PROVE  CopyInv'
<1>1. PICK g \in Slot, o \in Obj, i \in Ino \ bitmap :
        /\ f.table[g].fd_inode = NULL /\ f.inode[o] = NULL /\ Made(f, f', g, o, i, flag)
        /\ bitmap' = bitmap \cup {i}
        /\ call' # NULL /\ call' = [op |-> "create", p |-> p, name |-> n, slot |-> g, obj |-> o]
  BY CreateStep
<1>2. f.fault = "none" /\ call = NULL /\ UNCHANGED entry BY DEF Create, ReadyForDisk, Ready
<1>3. f \in OpenFilesState /\ Maker = NULL /\ Releaser = NULL
  BY <1>2, CoverTypes DEF Inductive
<1>4. f' \in OpenFilesState BY CreateStep DEF Inductive, TypeOK
<1>5. Copies(f, bitmap) /\ Entries(entry, bitmap) BY DEF CopyInv
<1>6. ASSUME NEW x \in Obj \ f.hurt, f.inode[x] # NULL PROVE f.inode[x].i_no \in bitmap
  <2>1. x # NULL BY Addresses
  <2>2. PICK h \in Slot : f.table[h].fd_inode = x BY <1>2, <1>3, <1>6, <2>1, OpenHeld
  <2> QED BY <1>5, <1>6, <2>2 DEF Copies, Allotted
<1>7. /\ Copies(f', bitmap') /\ o \notin f'.removed
      /\ \A x \in Obj \ f'.hurt : f'.inode[x] # NULL /\ f'.inode[x].i_no = i => x = o
  <2>0. bitmap' = bitmap \cup {i} BY <1>1
  <2>1. i \notin bitmap /\ f.inode[o] = NULL /\ Made(f, f', g, o, i, flag) BY <1>1
  <2>2. \A x \in Obj \ f.hurt : f.inode[x] # NULL => f.inode[x].i_no \in bitmap BY <1>6
  <2>3. /\ Copies(f', bitmap') /\ o \notin f'.removed
        /\ \A x \in Obj \ f'.hurt : f'.inode[x] # NULL /\ f'.inode[x].i_no = i => x = o
    BY <1>3, <1>4, <1>5, <2>0, <2>1, <2>2, CopiesMade
  <2> QED BY <2>3
<1>8. f'.inode[o].i_no = i BY <1>1 DEF Made
<1>9. NULL \notin Ino BY Addresses
<1>10. Entries(entry', bitmap') BY <1>1, <1>2, <1>5 DEF Entries
<1>11. \A k \in Name : entry'[k] # i BY <1>1, <1>2, <1>5, <1>9 DEF Entries
<1>12. call'.op = "create" /\ call'.obj = o BY <1>1
<1>13. CallCopies(f', entry', bitmap', call')
  BY <1>1, <1>7, <1>8, <1>11, <1>12 DEF CallCopies
<1> QED BY <1>7, <1>10, <1>13 DEF CopyInv

LEMMA CopyCreated ==
    ASSUME Inductive, CopyInv, Created
    PROVE  CopyInv'
<1>1. /\ call # NULL /\ call.op = "create" /\ call.p \in Process /\ call.slot \in Slot
      /\ call.obj \in Obj /\ call.name \in Name /\ f \in OpenFilesState
      /\ f.inode[call.obj] # NULL
  BY CreateCall DEF Created
<1>0. PICK i : i = f.inode[call.obj].i_no OBVIOUS
<1>2. PICK o \in Obj, n \in Name : o = call.obj /\ n = call.name /\ i = f.inode[o].i_no
  BY <1>0, <1>1
<1>3. /\ entry' = [entry EXCEPT ![n] = i] /\ call' = NULL /\ UNCHANGED bitmap
  BY <1>2 DEF Created
<1>4. Links(f, f', call.p, call.slot, o) BY <1>2, CreatedStep
<1>5. f' \in OpenFilesState BY CreatedStep DEF Inductive, TypeOK
<1>6. Copies(f, bitmap) /\ Entries(entry, bitmap) /\ CallCopies(f, entry, bitmap, call)
  BY DEF CopyInv
<1>7. Shrinks(f, f') BY <1>1, <1>2, <1>4, <1>5, ShrinksLinks
<1>8. Copies(f', bitmap) BY <1>5, <1>6, <1>7, CopiesShrink
<1>9. i \in bitmap /\ \A k \in Name : entry[k] # i BY <1>1, <1>2, <1>6 DEF CallCopies
<1>10. entry \in [Name -> Ino \cup {NULL}] BY DEF Inductive, TypeOK
<1>11. entry'[n] = i /\ \A k \in Name \ {n} : entry'[k] = entry[k] BY <1>3, <1>10
<1>12. Entries(entry', bitmap) BY <1>6, <1>9, <1>11 DEF Entries
<1> QED BY <1>3, <1>8, <1>12, CopyIdle

LEMMA CopyCreateFails ==
    ASSUME Inductive, CopyInv, CreateFails
    PROVE  CopyInv'
<1>1. /\ call # NULL /\ call.op = "create" /\ call.slot \in Slot /\ call.obj \in Obj
      /\ f \in OpenFilesState
  BY CreateCall DEF CreateFails
<1>0. PICK i : i = f.inode[call.obj].i_no OBVIOUS
<1>2. PICK o \in Obj, g \in Slot : o = call.obj /\ g = call.slot /\ i = f.inode[o].i_no
  BY <1>0, <1>1
<1>3. bitmap' = bitmap \ {i} /\ call' = NULL /\ UNCHANGED entry BY <1>2 DEF CreateFails
<1>4. Unmakes(f, f', g, o) BY <1>2, CreateFailsStep
<1>5. f' \in OpenFilesState BY CreateFailsStep DEF Inductive, TypeOK
<1>6. Copies(f, bitmap) /\ Entries(entry, bitmap) /\ CallCopies(f, entry, bitmap, call)
  BY DEF CopyInv
<1>7. /\ i \in bitmap /\ o \notin f.removed /\ \A n \in Name : entry[n] # i
      /\ \A x \in Obj \ f.hurt : f.inode[x] # NULL /\ f.inode[x].i_no = i => x = o
  BY <1>1, <1>2, <1>6 DEF CallCopies
<1>8. Shrinks(f, f') /\ f'.inode[o] = NULL BY <1>1, <1>4, <1>5, <1>7, ShrinksUnmakes
<1>9. Copies(f', bitmap) BY <1>5, <1>6, <1>8, CopiesShrink
<1>10. \A x \in Obj \ f'.hurt : f'.inode[x] # NULL =>
         /\ x \in Obj \ f.hurt /\ f.inode[x] # NULL /\ f'.inode[x].i_no = f.inode[x].i_no
  BY <1>8 DEF Shrinks, Thins
<1>11. \A x \in Obj \ f'.hurt : f'.inode[x] # NULL => f'.inode[x].i_no # i
  BY <1>7, <1>8, <1>10
<1>12. Allotted(f', bitmap') BY <1>3, <1>9, <1>11 DEF Copies, Allotted
<1>13. Entries(entry', bitmap') BY <1>3, <1>6, <1>7 DEF Entries
<1>14. Copies(f', bitmap') BY <1>9, <1>12 DEF Copies
<1> QED BY <1>3, <1>13, <1>14, CopyIdle

LEMMA CopyUnlink ==
    ASSUME Inductive, CopyInv, NEW p \in Process, NEW n \in Name, Unlink(p, n)
    PROVE  CopyInv'
<1>1. PICK i : i = entry[n] OBVIOUS
<1>2. f' = f /\ call' = [op |-> "unlink", p |-> p, name |-> n, ino |-> i, obj |-> NULL]
  BY <1>1, UnlinkStep
<1>3. /\ i # NULL /\ UNCHANGED <<entry, bitmap>>
      /\ \A g \in Slot : f.table[g].fd_inode \in Obj => f.inode[f.table[g].fd_inode].i_no # i
  BY <1>1 DEF Unlink
<1>4. Copies(f, bitmap) /\ Entries(entry, bitmap) BY DEF CopyInv
<1>5. Unheld(f, i) BY <1>3 DEF Unheld
<1>6. \A k \in Name : entry[k] = i => k = n BY <1>1, <1>3, <1>4 DEF Entries
<1>7. call'.op = "unlink" /\ call'.ino = i /\ call'.name = n /\ call'.obj = NULL BY <1>2
<1>8. CallCopies(f', entry', bitmap', call')
  BY <1>2, <1>3, <1>5, <1>6, <1>7 DEF CallCopies
<1> QED BY <1>2, <1>3, <1>4, <1>8 DEF CopyInv

LEMMA CopyUnlinkOpens ==
    ASSUME Inductive, CopyInv, UnlinkOpens
    PROVE  CopyInv'
<1>1. /\ call # NULL /\ call.op = "unlink" /\ call.obj = NULL /\ call \in CallState
      /\ call.name \in Name /\ call.ino \in Ino
  BY CallTypes DEF UnlinkOpens, Continues, Inductive
<1>2. PICK n \in Name, i \in Ino : n = call.name /\ i = call.ino BY <1>1
<1>3. PICK o \in Obj :
        /\ o = Cached(f, i) \/ (Cached(f, i) = NULL /\ f.inode[o] = NULL)
        /\ InodeOpened(f, f', i, o) /\ call' = [call EXCEPT !.obj = o]
  BY <1>2, UnlinkOpensStep
<1>4. entry' = [entry EXCEPT ![n] = NULL] /\ UNCHANGED bitmap BY <1>2 DEF UnlinkOpens
<1>5. f \in OpenFilesState /\ Cover(f, NULL, NULL, NULL)
  BY <1>1, CoverTypes DEF Inductive, CoverInv
<1>6. f' \in OpenFilesState BY UnlinkOpensStep DEF Inductive, TypeOK
<1>7. NULL \notin Obj /\ NULL \notin Ino BY Addresses
<1>8. Copies(f, bitmap) /\ Entries(entry, bitmap) /\ CallCopies(f, entry, bitmap, call)
  BY DEF CopyInv
<1>9. Unheld(f, i) /\ \A k \in Name : entry[k] = i => k = n
  BY <1>1, <1>2, <1>8 DEF CallCopies
<1>10. ASSUME f.inode[o] = NULL PROVE Absent(f, i)
  <2>1. CASE o = Cached(f, i)
    <3>1. f.inode[o] # NULL BY <1>5, <1>7, <2>1, CachedFinds DEF Cover, Listed
    <3> QED BY <1>10, <3>1
  <2>2. CASE Cached(f, i) = NULL BY <1>5, <2>2, AbsentUncached DEF Cover
  <2> QED BY <1>3, <2>1, <2>2
<1>11. Copies(f', bitmap) /\ f'.inode[o].i_no = i /\ Unheld(f', i)
  BY <1>3, <1>5, <1>6, <1>8, <1>9, <1>10, CopiesOpened
<1>12. entry \in [Name -> Ino \cup {NULL}] BY DEF Inductive, TypeOK
<1>13. entry'[n] = NULL /\ \A k \in Name \ {n} : entry'[k] = entry[k] BY <1>4, <1>12
<1>14. Entries(entry', bitmap) BY <1>8, <1>13 DEF Entries
<1>15. \A k \in Name : entry'[k] # i BY <1>7, <1>9, <1>13
<1>16. call'.op = "unlink" /\ call'.obj = o /\ call'.ino = i
  BY <1>1, <1>2, <1>3 DEF CallState
<1>17. CallCopies(f', entry', bitmap', call') BY <1>11, <1>15, <1>16 DEF CallCopies
<1> QED BY <1>4, <1>11, <1>14, <1>17 DEF CopyInv

LEMMA CopyUnlinked ==
    ASSUME Inductive, AccInv, CopyInv, Unlinked
    PROVE  CopyInv'
<1>1. /\ call # NULL /\ call.op = "unlink" /\ call.obj \in Obj /\ call.ino \in Ino
      /\ f.inode[call.obj] # NULL
  BY UnlinkedStep
<1>2. PICK o \in Obj, i \in Ino : o = call.obj /\ i = call.ino BY <1>1
<1>3. Forgets(f, f', i, o) /\ f.inode[o] # NULL BY <1>2, UnlinkedStep
<1>4. f.fault = "none" /\ bitmap' = bitmap \ {i} /\ call' = NULL /\ UNCHANGED entry
  BY <1>2 DEF Unlinked, Continues
<1>5. /\ f \in OpenFilesState /\ Cover(f, NULL, o, NULL) /\ Maker = NULL /\ Releaser = o
      /\ Tallied(f, f.fds, NULL, NULL, o, NULL, 0)
  BY <1>1, <1>2, <1>4, AccBefore
<1>6. f' \in OpenFilesState BY UnlinkedStep DEF Inductive, TypeOK
<1>7. NULL \notin Obj BY Addresses
<1>8. Copies(f, bitmap) /\ Entries(entry, bitmap) /\ CallCopies(f, entry, bitmap, call)
  BY DEF CopyInv
<1>9. f.inode[o].i_no = i /\ Unheld(f, i) /\ \A k \in Name : entry[k] # i
  BY <1>1, <1>2, <1>7, <1>8 DEF CallCopies
<1>10. o \in Range(f.open_inodes) BY <1>3, <1>5, <1>7 DEF Cover, Listed
<1>11. ASSUME o \notin f.hurt PROVE f.inode[o].i_open_cnts = 1
  <2>1. Holding(f, o) = {} BY <1>3, <1>9 DEF Holding, Unheld
  <2>2. Users(f, f.fds, o) = {} BY <2>1 DEF Users
  <2>3. Cardinality(Users(f, f.fds, o)) = 0 BY <2>2, FS_EmptySet
  <2>4. CountRight(f, f.fds, NULL, o, o) BY <1>5, <1>11 DEF Tallied, CountsRight
  <2>5. f.inode[o].i_open_cnts = 0 + 1 BY <1>3, <1>7, <2>3, <2>4 DEF CountRight
  <2> QED BY <2>5
<1>12. ASSUME NEW y \in Obj \ f.hurt, f.inode[y] # NULL, f.inode[y].i_no = i PROVE y = o
  <2> SUFFICES ASSUME y # o PROVE FALSE OBVIOUS
  <2>1. PICK g \in Slot : f.table[g].fd_inode = y BY <1>4, <1>5, <1>7, <1>12, OpenHeld
  <2> QED BY <1>9, <1>12, <2>1 DEF Unheld
<1>13. Copies(f', bitmap')
  BY <1>3, <1>4, <1>5, <1>6, <1>8, <1>9, <1>10, <1>11, <1>12, CopiesForget
<1>14. Entries(entry', bitmap') BY <1>4, <1>8, <1>9 DEF Entries
<1> QED BY <1>4, <1>13, <1>14, CopyIdle

LEMMA CopyInit == Init => CopyInv
<1> SUFFICES ASSUME Init PROVE CopyInv OBVIOUS
<1>1. /\ f.inode = [o \in Obj |-> NULL] /\ f.removed = {} /\ entry = [n \in Name |-> NULL]
      /\ call = NULL
  BY DEF Init
<1>2. Copies(f, bitmap) BY <1>1 DEF Copies, Single, Remnants, Allotted
<1>3. Entries(entry, bitmap) BY <1>1 DEF Entries
<1> QED BY <1>1, <1>2, <1>3 DEF CopyInv, CallCopies

LEMMA CopyNext == Inductive /\ Inductive' /\ AccInv /\ CopyInv /\ [Next]_vars => CopyInv'
<1> SUFFICES ASSUME Inductive, Inductive', AccInv, CopyInv, [Next]_vars PROVE CopyInv' OBVIOUS
<1>1. CASE UNCHANGED vars BY <1>1 DEF vars, CopyInv
<1>2. CASE \E p \in Process : Step(p)
  <2>1. PICK p \in Process : Step(p) BY <1>2
  <2>2. CASE \E n \in Name, flag \in {"r", "w"} :
               OpenCached(p, n, flag) \/ Open(p, n, flag) \/ Create(p, n, flag)
    BY <2>2, CopyOpenCached, CopyOpen, CopyCreate
  <2>3. CASE \E n \in Name : Unlink(p, n) BY <2>3, CopyUnlink
  <2>4. CASE \/ \E fd \in Fd : Transfer(p, fd) \/ Close(p, fd)
             \/ Transferred(p) \/ sys_pipe(p) \/ sys_exit(p)
             \/ \E q \in Process : sys_fork(p, q)
    BY <2>4, CopyOthers
  <2> QED BY <2>1, <2>2, <2>3, <2>4 DEF Step
<1>3. CASE OpenRead BY <1>3, CopyOpenRead
<1>4. CASE Created BY <1>4, CopyCreated
<1>5. CASE CreateFails BY <1>5, CopyCreateFails
<1>6. CASE UnlinkOpens BY <1>6, CopyUnlinkOpens
<1>7. CASE Unlinked BY <1>7, CopyUnlinked
<1> QED BY <1>1, <1>2, <1>3, <1>4, <1>5, <1>6, <1>7 DEF Next

\* Although sys_unlink() and inode_open() sleep between looking and acting, no
\* file is in memory twice, and what a slot holds is a file that still exists:
\* its number is taken in the bitmap and no new file gets it.
THEOREM OpenFilesOneCopy == Spec => []OneCopy
<1>1. ASSUME Inductive, CopyInv PROVE OneCopy
  <2>1. Copies(f, bitmap) BY <1>1 DEF CopyInv
  <2> SUFFICES ASSUME NEW o \in Obj \ f.hurt, Live(o)
               PROVE  /\ \A u \in Obj \ f.hurt :
                            Live(u) /\ f.inode[u].i_no = f.inode[o].i_no => u = o
                      /\ o \in f.removed => Holding(f, o) = {}
                      /\ Holding(f, o) # {} => f.inode[o].i_no \in bitmap
    BY DEF OneCopy
  <2>2. f.inode[o] # NULL BY DEF Live
  <2>3. \A u \in Obj \ f.hurt : Live(u) /\ f.inode[u].i_no = f.inode[o].i_no => u = o
    BY <2>1, <2>2 DEF Copies, Single, Live
  <2>4. o \notin f.removed BY <2>1 DEF Copies, Remnants
  <2>5. Holding(f, o) # {} => f.inode[o].i_no \in bitmap
    BY <2>1, <2>2 DEF Copies, Allotted, Holding
  <2> QED BY <2>3, <2>4, <2>5
<1> QED BY <1>1, CopyInit, CopyNext, AccInit, AccNext, InductiveNext, InductiveAlways, PTL DEF Spec
=============================================================================
