----------------------------- MODULE Namespace -----------------------------
(***************************************************************************)
(* Paths, directories and working directories of Winx: the system calls of *)
(* fs/fs.c that walk the tree of directories, with what they allocate and  *)
(* release and with the counts of references to the inodes in memory.      *)
(*                                                                         *)
(* One call runs at a time, so each is an action; a call that fails        *)
(* without a trace is left out.  Paths are absolute and without "." and    *)
(* "..": the shell's wash_path() makes them so.  A directory has one block *)
(* (Directory models the others) and a file at most one.                   *)
(*                                                                         *)
(* Nothing keeps a directory that is somebody's working directory, or is   *)
(* open, from being removed.  Its inode is then reused while a stale copy  *)
(* stays in memory.  The model ends with such a removal: what follows but  *)
(* getcwd() is not modelled.                                               *)
(***************************************************************************)
EXTENDS Naturals, Sequences, FiniteSets, FiniteSetsExt, SequencesExt

CONSTANTS
    Process,
    Name,      \* names of files, "." and ".." not among them
    Inode,     \* inode numbers: 0 is the root's (4096)
    Block,     \* data blocks, as numbered in the bitmap: 0 is the root's
    MaxDepth,  \* bound: names in a path
    MaxOpen,   \* bound: files and directories open at one time
    MaxRefs,   \* bound: the count at which no more references are lost
    NULL

ASSUME NamespaceAssumption ==
    /\ Inode \subseteq Nat /\ Block \subseteq Nat
    /\ IsFiniteSet(Inode) /\ IsFiniteSet(Block)
    /\ 0 \in Inode /\ 0 \in Block
    /\ MaxDepth \in Nat \ {0} /\ MaxOpen \in Nat /\ MaxRefs \in Nat
    /\ NULL \notin Name \cup Inode \cup Block

VARIABLES
    used,    \* the set bits of the inode bitmap
    taken,   \* the set bits of the block bitmap
    inode,   \* the inodes, as inode_open() gives them
    data,    \* the directory that each block holds, NULL: other data
    cnt,     \* i_open_cnts, 0 when the inode is not in memory
    files,   \* the files each process has open
    dir,     \* the directory each process has open
    cwd,     \* cwd_inode_nr
    leaky,   \* the directories whose count has a reference nobody will close
    orphan,  \* the directories removed while somebody referred to them
    fault    \* the ASSERT that failed, "none" before that

vars == <<used, taken, inode, data, cnt, files, dir, cwd, leaky, orphan, fault>>

Root == 0

Path == BoundedSeq(Name, MaxDepth)

Kind == {"dir", "file"}   \* FT_DIRECTORY, FT_REGULAR
Entry == [ino : Inode, type : Kind]

\* A directory's block: its "." and "..", and the other entries by name.
DirBlock == [self : Inode, up : Inode, names : [Name -> Entry \cup {NULL}]]

TypeOK ==
    /\ used \subseteq Inode /\ taken \subseteq Block
    /\ inode \in [Inode -> [size : Nat, block : Block \cup {NULL}]]
    /\ data \in [Block -> DirBlock \cup {NULL}]
    /\ cnt \in [Inode -> Nat]
    /\ files \subseteq Process \X Inode
    /\ dir \in [Process -> Inode \cup {NULL}]
    /\ cwd \in [Process -> Inode]
    /\ leaky \subseteq Inode /\ orphan \subseteq Inode
    /\ fault \in {"none", "fs.c:711"}

Empty(self, up) == [self |-> self, up |-> up, names |-> [n \in Name |-> NULL]]

Zero == [size |-> 0, block |-> NULL]

\* partition_format() and open_root_dir().
Init ==
    /\ used = {Root} /\ taken = {0}
    /\ inode = [i \in Inode |-> IF i = Root THEN [size |-> 2, block |-> 0] ELSE Zero]
    /\ data = [b \in Block |-> IF b = 0 THEN Empty(Root, Root) ELSE NULL]
    /\ cnt = [i \in Inode |-> IF i = Root THEN 1 ELSE 0]
    /\ files = {}
    /\ dir = [p \in Process |-> NULL]
    /\ cwd = [p \in Process |-> Root]
    /\ leaky = {} /\ orphan = {} /\ fault = "none"

----------------------------------------------------------------------------
NamesOf(d) == data[inode[d].block].names

\* Mutant of search_file: the parent of a directory that is found is forgotten.
search_file_NoParent(path) ==
    LET walk[i \in 0..Len(path)] ==
          IF i = 0
          THEN [ino |-> Root, type |-> "dir", parent |-> Root, last |-> Root, depth |-> 0]
          ELSE LET w == walk[i - 1]
                   e == NamesOf(w.last)[path[i]]
               IN  IF w.ino = NULL \/ w.type = "file" THEN w
                   ELSE IF e = NULL
                   THEN [w EXCEPT !.ino = NULL, !.parent = w.last, !.depth = i]
                   ELSE [ino |-> e.ino, type |-> e.type,
                         parent |-> IF e.type = "dir" THEN Root ELSE w.last,
                         last |-> IF e.type = "dir" THEN e.ino ELSE w.last, depth |-> i]
    IN  walk[Len(path)]

\* search_file(): the inode found, or NULL, its type, the directory it is or would
\* be in, and the number of names that were looked up.  The walk ends at the first
\* name that is missing or is a regular file's; last is the directory it has got to.
search_file(path) ==
    LET walk[i \in 0..Len(path)] ==
          IF i = 0
          THEN [ino |-> Root, type |-> "dir", parent |-> Root, last |-> Root, depth |-> 0]
          ELSE LET w == walk[i - 1]
                   e == NamesOf(w.last)[path[i]]
               IN  IF w.ino = NULL \/ w.type = "file" THEN w
                   ELSE IF e = NULL
                   THEN [w EXCEPT !.ino = NULL, !.parent = w.last, !.depth = i]
                   ELSE [ino |-> e.ino, type |-> e.type, parent |-> w.last,
                         last |-> IF e.type = "dir" THEN e.ino ELSE w.last, depth |-> i]
    IN  walk[Len(path)]

Found(s) == s.ino # NULL

\* Nothing is at the path, and what it would be in is there: the depth of the path
\* is that of the path searched.
Vacant(path) == ~Found(search_file(path)) /\ search_file(path).depth = Len(path)

\* inode_bitmap_alloc() and block_bitmap_alloc().
FreeInode == Min(Inode \ used)
FreeBlock == Min(Block \ taken)

Calm == fault = "none" /\ orphan = {}

OpenCnt == Cardinality(files) + Cardinality({p \in Process : dir[p] # NULL})

----------------------------------------------------------------------------
\* sys_open() with O_CREAT: file_create().
create(p, path) ==
    LET d == search_file(path).parent
        i == FreeInode
    IN  /\ Calm /\ Vacant(path) /\ used # Inode /\ OpenCnt < MaxOpen
        /\ used' = used \cup {i}
        /\ data' = [data EXCEPT ![inode[d].block].names[Last(path)] =
                                  [ino |-> i, type |-> "file"]]
        /\ inode' = [inode EXCEPT ![i] = Zero, ![d].size = @ + 1]
        /\ cnt' = [cnt EXCEPT ![i] = 1]
        /\ files' = files \cup {<<p, i>>}
        /\ UNCHANGED <<taken, dir, cwd, leaky, orphan, fault>>

\* sys_open() of a file that exists: the directory that search_file() has opened,
\* unless it is the root, is not closed.
open(p, path) ==
    LET s == search_file(path)
        d == s.parent
        lost == {d} \ {Root}
    IN  /\ Calm /\ Found(s) /\ s.type = "file" /\ s.depth = Len(path)
        /\ <<p, s.ino>> \notin files /\ OpenCnt < MaxOpen
        /\ \A i \in lost : cnt[i] < MaxRefs
        /\ files' = files \cup {<<p, s.ino>>}
        /\ cnt' = [i \in Inode |-> IF i \in lost \cup {s.ino} THEN cnt[i] + 1 ELSE cnt[i]]
        /\ leaky' = leaky \cup lost
        /\ UNCHANGED <<used, taken, inode, data, dir, cwd, orphan, fault>>

sys_close(p, i) ==
    /\ Calm /\ <<p, i>> \in files
    /\ files' = files \ {<<p, i>>}
    /\ cnt' = [cnt EXCEPT ![i] = @ - 1]
    /\ UNCHANGED <<used, taken, inode, data, dir, cwd, leaky, orphan, fault>>

\* sys_write() to an empty file gives it a block.
sys_write(p, i) ==
    /\ Calm /\ <<p, i>> \in files /\ inode[i].block = NULL
    /\ taken # Block
    /\ taken' = taken \cup {FreeBlock}
    /\ inode' = [inode EXCEPT ![i] = [size |-> 1, block |-> FreeBlock]]
    /\ data' = [data EXCEPT ![FreeBlock] = NULL]
    /\ UNCHANGED <<used, cnt, files, dir, cwd, leaky, orphan, fault>>

\* delete_dir_entry() of i in d, then inode_release() of i: an inode that stays in
\* memory keeps what it was.
Removes(d, i) ==
    /\ data' = [data EXCEPT ![inode[d].block].names =
                  [n \in Name |-> IF @[n] # NULL /\ @[n].ino = i THEN NULL ELSE @[n]]]
    /\ used' = used \ {i}
    /\ taken' = taken \ {inode[i].block}
    /\ inode' = [inode EXCEPT ![d].size = @ - 1, ![i] = IF cnt[i] > 0 THEN @ ELSE Zero]

\* Mutant of sys_unlink: open files are not looked for.
sys_unlink_InUse(path) ==
    LET s == search_file(path)
    IN  /\ Calm /\ Found(s) /\ s.type = "file"
        /\ Removes(s.parent, s.ino)
        /\ UNCHANGED <<cnt, files, dir, cwd, leaky, orphan, fault>>

\* sys_unlink(), of a file that nobody has open.  The path may go on behind the
\* file's name, nobody compares the depths.
sys_unlink(path) ==
    LET s == search_file(path)
    IN  /\ Calm /\ Found(s) /\ s.type = "file"
        /\ \A p \in Process : <<p, s.ino>> \notin files
        /\ Removes(s.parent, s.ino)
        /\ UNCHANGED <<cnt, files, dir, cwd, leaky, orphan, fault>>

\* Mutant of sys_mkdir: ".." is the new directory itself.
sys_mkdir_Up(path) ==
    LET d == search_file(path).parent
        i == FreeInode
        b == FreeBlock
    IN  /\ Calm /\ Vacant(path) /\ used # Inode /\ taken # Block
        /\ used' = used \cup {i} /\ taken' = taken \cup {b}
        /\ data' = [data EXCEPT ![b] = Empty(i, i),
                      ![inode[d].block].names[Last(path)] = [ino |-> i, type |-> "dir"]]
        /\ inode' = [inode EXCEPT ![i] = [size |-> 2, block |-> b], ![d].size = @ + 1]
        /\ UNCHANGED <<cnt, files, dir, cwd, leaky, orphan, fault>>

sys_mkdir(path) ==
    LET d == search_file(path).parent
        i == FreeInode
        b == FreeBlock
    IN  /\ Calm /\ Vacant(path) /\ used # Inode /\ taken # Block
        /\ used' = used \cup {i} /\ taken' = taken \cup {b}
        /\ data' = [data EXCEPT ![b] = Empty(i, d),
                      ![inode[d].block].names[Last(path)] = [ino |-> i, type |-> "dir"]]
        /\ inode' = [inode EXCEPT ![i] = [size |-> 2, block |-> b], ![d].size = @ + 1]
        /\ UNCHANGED <<cnt, files, dir, cwd, leaky, orphan, fault>>

\* Somebody refers to the directory i.
Referred(i) == cnt[i] > 0 \/ \E p \in Process : cwd[p] = i

\* Mutant of sys_rmdir: a directory with entries is removed, too.
sys_rmdir_NotEmpty(path) ==
    LET s == search_file(path)
    IN  /\ Calm /\ path # <<>> /\ Found(s) /\ s.type = "dir"
        /\ Removes(s.parent, s.ino)
        /\ orphan' = IF Referred(s.ino) THEN {s.ino} ELSE {}
        /\ UNCHANGED <<cnt, files, dir, cwd, leaky, fault>>

\* sys_rmdir(), of an empty directory.  Its callers do not pass "/" (builtin_cmd.c).
sys_rmdir(path) ==
    LET s == search_file(path)
    IN  /\ Calm /\ path # <<>> /\ Found(s) /\ s.type = "dir"
        /\ inode[s.ino].size = 2
        /\ Removes(s.parent, s.ino)
        /\ orphan' = IF Referred(s.ino) THEN {s.ino} ELSE {}
        /\ UNCHANGED <<cnt, files, dir, cwd, leaky, fault>>

sys_chdir(p, path) ==
    LET s == search_file(path)
    IN  /\ Calm /\ Found(s) /\ s.type = "dir"
        /\ cwd' = [cwd EXCEPT ![p] = s.ino]
        /\ UNCHANGED <<used, taken, inode, data, cnt, files, dir, leaky, orphan, fault>>

\* sys_opendir(): the root's is the one that is always open.
sys_opendir(p, path) ==
    LET s == search_file(path)
    IN  /\ Calm /\ Found(s) /\ s.type = "dir"
        /\ dir[p] = NULL /\ OpenCnt < MaxOpen
        /\ dir' = [dir EXCEPT ![p] = s.ino]
        /\ cnt' = IF s.ino = Root THEN cnt ELSE [cnt EXCEPT ![s.ino] = @ + 1]
        /\ UNCHANGED <<used, taken, inode, data, files, cwd, leaky, orphan, fault>>

sys_closedir(p) ==
    /\ Calm /\ dir[p] # NULL
    /\ dir' = [dir EXCEPT ![p] = NULL]
    /\ cnt' = IF dir[p] = Root THEN cnt ELSE [cnt EXCEPT ![dir[p]] = @ - 1]
    /\ UNCHANGED <<used, taken, inode, data, files, cwd, leaky, orphan, fault>>

----------------------------------------------------------------------------
\* sys_getcwd(): from the working directory up by "..", the name of each directory
\* being looked for in its parent; NULL if it is not there.
sys_getcwd(p) ==
    LET up[k \in 0..Cardinality(Inode)] ==
          IF k = 0 THEN [ino |-> cwd[p], path |-> <<>>]
          ELSE LET c == up[k - 1]
                   d == data[inode[c.ino].block].up
                   names == {n \in Name : NamesOf(d)[n] # NULL /\ NamesOf(d)[n].ino = c.ino}
               IN  IF c.ino = Root \/ c.path = NULL THEN c
                   ELSE [ino |-> d, path |-> IF names = {} THEN NULL
                                             ELSE <<CHOOSE n \in names : TRUE>> \o c.path]
    IN  up[Cardinality(Inode)].path

\* get_parent_dir_inode_nr() asserts that a working directory has a block.
GetcwdFails(p) ==
    /\ fault = "none" /\ cwd[p] # Root
    /\ inode[cwd[p]].block = NULL
    /\ fault' = "fs.c:711"
    /\ UNCHANGED <<used, taken, inode, data, cnt, files, dir, cwd, leaky, orphan>>

Next ==
    \/ \E path \in Path : sys_unlink(path) \/ sys_mkdir(path) \/ sys_rmdir(path)
    \/ \E p \in Process :
         \/ \E path \in Path :
              create(p, path) \/ open(p, path) \/ sys_chdir(p, path) \/ sys_opendir(p, path)
         \/ \E i \in Inode : sys_close(p, i) \/ sys_write(p, i)
         \/ sys_closedir(p) \/ GetcwdFails(p)

Spec == Init /\ [][Next]_vars

----------------------------------------------------------------------------
\* What each path leads to.
tree == [path \in Path |->
           LET s == search_file(path)
           IN  IF Found(s) /\ s.depth = Len(path) THEN s.type ELSE NULL]

T == INSTANCE Tree

\* Whatever the calls allocate, release and reuse, paths form a tree of which one
\* call adds or removes one leaf: nothing moves, appears at two paths, or hides
\* what is below it.
ImplementsTree == T!Spec

\* The entries: <<directory, name>>.
Links == {l \in used \X Name : /\ inode[l[1]].block # NULL /\ data[inode[l[1]].block] # NULL
                               /\ NamesOf(l[1])[l[2]] # NULL}
Target(l) == NamesOf(l[1])[l[2]]

\* Each inode in use but the root's is named by one entry of one directory, and by
\* none if it is free; a directory's "." and ".." are itself and that directory,
\* i_size counts its entries; each block in use belongs to one inode.
Linked ==
    /\ \A i \in Inode \ {Root} :
         Cardinality({l \in Links : Target(l).ino = i}) = IF i \in used THEN 1 ELSE 0
    /\ \A l \in Links : Target(l).type = "dir" =>
         LET i == Target(l).ino
         IN  /\ data[inode[i].block].self = i /\ data[inode[i].block].up = l[1]
             /\ inode[i].size = 2 + Cardinality({m \in Links : m[1] = i})
    /\ taken = {inode[i].block : i \in used} \ {NULL}
    /\ \A i, j \in used : inode[i].block = inode[j].block /\ inode[i].block # NULL => i = j

\* A file's count is the number of its descriptors, a directory's at least that of
\* its readers: more only if a file in it has been opened (fs.c:366).  So what no
\* descriptor refers to is read from the disk again.
Handles(i) ==
    Cardinality({f \in files : f[2] = i})
      + (IF i = Root THEN 1 ELSE Cardinality({p \in Process : dir[p] = i}))

CountsExact ==
    \A i \in Inode : \/ cnt[i] = Handles(i) /\ i \notin leaky
                     \/ cnt[i] > Handles(i) /\ i \in leaky

\* getcwd() gives a path that leads back to the working directory, as long as no
\* working directory has been removed.
GetcwdResolves ==
    orphan = {} =>
      \A p \in Process : LET path == sys_getcwd(p)
                         IN  path # NULL /\ search_file(path).ino = cwd[p]

\* A working directory has a block (fs.c:711).
CwdAsserted == fault # "fs.c:711"
=============================================================================
