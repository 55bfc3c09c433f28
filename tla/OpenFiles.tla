------------------------------ MODULE OpenFiles ------------------------------
(***************************************************************************)
(* Open files of Winx: the table of open files that all processes share    *)
(* (file.c), each process's descriptors, the inodes kept in memory         *)
(* (inode.c), pipes (pipe.c), and what fork and exit do to them.           *)
(*                                                                         *)
(* A system call runs with interrupts disabled except where it waits for   *)
(* the disk.  The lock of the channel keeps a second call that needs the   *)
(* disk out until the first has ended (Serialized in Locks), but close,    *)
(* pipe, fork and exit need no disk and run while another call waits.  So  *)
(* "call" is the one call that is in the middle of its transfers, and "rw" *)
(* the slot of each process that waits in file_read() or file_write(),     *)
(* which look at the slot before they first ask for the disk and after.    *)
(*                                                                         *)
(* A pipe's page is stored in the slot's fd_inode as well, and sys_close() *)
(* takes it for an inode: i_open_cnts lies in the pipe's buffer, which     *)
(* nobody writes, so it is decremented from 0 and the page stays.          *)
(***************************************************************************)
EXTENDS Integers, FiniteSets, Sequences, SequencesExt

CONSTANTS
    Process,        \* PCBs
    Name,           \* file names in one directory
    MAX_INODES,     \* inode numbers 1..MAX_INODES
    MAX_FILE_OPEN,  \* slots of the file table
    MAX_FDS,        \* descriptors of a process above stderr
    MAX_CACHED,     \* bound: inodes in memory
    MAX_PIPES,      \* kernel pages left for pipes
    MAX_COUNT,      \* bound: count of an inode or a pipe (lost ones add up)
    MAX_HURT,       \* bound: slots that are hurt at a time
    NULL

Ino == 1..MAX_INODES
Slot == 1..MAX_FILE_OPEN
Fd == 1..MAX_FDS

\* Addresses: of inodes in memory (no number is both one and a slot), of pages.
Obj == MAX_FILE_OPEN + 1..MAX_FILE_OPEN + MAX_CACHED
Page == -MAX_PIPES..-1

ASSUME OpenFilesAssumption ==
    /\ {MAX_INODES, MAX_FILE_OPEN, MAX_FDS, MAX_CACHED, MAX_PIPES, MAX_COUNT,
      MAX_HURT} \subseteq Nat
    /\ NULL \notin Int

VARIABLES
    f,       \* what needs no disk; see OpenFilesState
    alive,   \* processes that have been forked and have not exited
    entry,   \* inode number of each name, NULL without an entry
    bitmap,  \* inode numbers in use
    call,    \* the call that waits for one of its disk transfers, or NULL
    rw       \* the slot a process reads or writes, or NULL

vars == <<f, alive, entry, bitmap, call, rw>>

FileState == [fd_inode : Obj \cup Page \cup {NULL}, fd_pos : Int,
              fd_flag : {"r", "w", "pipe"}]
InodeState == [i_no : Ino, i_open_cnts : Int, write_deny : BOOLEAN]

\* Where the kernel uses a pointer it must not.
Site == {"file.c:208", "file.c:218", "fork.c:108", "inode.c:141", "pipe.c:17",
         "pipe.c:19", "wait_exit.c:58"}

\* fds: task_struct.fd_table from descriptor 3 on, -1 is free; table:
\* file_table, where fd_pos is kept for pipes only, the number of their
\* descriptors; inode and open_inodes: the inodes in memory and their list,
\* newest first; pages: free kernel pages; fault: the machine stops there.
\* The last three are history: hurt, the slots closed or overwritten while
\* another descriptor led to them or taken without one leading to them, and the
\* inodes in them; undenied, the inodes that have a writer and no write_deny
\* any more; removed, the inodes of files that are gone.
OpenFilesState ==
    [fds : [Process -> [Fd -> Slot \cup {-1}]], table : [Slot -> FileState],
     inode : [Obj -> InodeState \cup {NULL}], open_inodes : Seq(Obj),
     pages : SUBSET Page, fault : Site \cup {"none"},
     hurt : SUBSET (Slot \cup Obj), undenied : SUBSET Obj, removed : SUBSET Obj]

CallState ==
    [op : {"open"}, p : Process, ino : Ino, slot : Slot, flag : {"r", "w"}]
      \cup [op : {"create"}, p : Process, name : Name, slot : Slot, obj : Obj]
      \cup [op : {"unlink"}, p : Process, name : Name, ino : Ino, obj : Obj \cup {NULL}]

ASSUME NullAssumption == NULL \notin InodeState \cup CallState

TypeOK ==
    /\ f \in OpenFilesState
    /\ alive \subseteq Process
    /\ entry \in [Name -> Ino \cup {NULL}]
    /\ bitmap \subseteq Ino
    /\ call \in CallState \cup {NULL}
    /\ rw \in [Process -> Slot \cup {NULL}]

Empty == [fd_inode |-> NULL, fd_pos |-> 0, fd_flag |-> "r"]

Init ==
    /\ f = [fds |-> [p \in Process |-> [fd \in Fd |-> -1]],
            table |-> [g \in Slot |-> Empty],
            inode |-> [o \in Obj |-> NULL], open_inodes |-> <<>>, pages |-> Page,
            fault |-> "none", hurt |-> {}, undenied |-> {}, removed |-> {}]
    /\ \E p \in Process : alive = {p}
    /\ entry = [n \in Name |-> NULL]
    /\ bitmap = {}
    /\ call = NULL
    /\ rw = [p \in Process |-> NULL]

----------------------------------------------------------------------------
\* Operators on f.
Least(S) == CHOOSE i \in S : \A j \in S : i <= j

Fault(s, line) == IF s.fault = "none" THEN [s EXCEPT !.fault = line] ELSE s

FreeSlots(s) == {g \in Slot : s.table[g].fd_inode = NULL}

\* The descriptors, of all processes, that lead to slot g.
Leads(s, g) == {d \in Process \X Fd : s.fds[d[1]][d[2]] = g}

\* The slots that hold inode o.
Holding(s, o) == {g \in Slot : s.table[g].fd_inode = o}

\* pcb_fd_install(): the first free descriptor; without one the slot stays
\* taken and nothing leads to it.
pcb_fd_install(s, p, g) ==
    LET free == {fd \in Fd : s.fds[p][fd] = -1}
    IN  IF free # {} THEN [s EXCEPT !.fds[p][Least(free)] = g]
        ELSE [s EXCEPT !.hurt = @ \cup {g} \cup ({s.table[g].fd_inode} \cap Obj)]

\* The inode in memory for number i, or NULL.
Cached(s, i) ==
    LET at == {j \in DOMAIN s.open_inodes : s.inode[s.open_inodes[j]].i_no = i}
    IN  IF at = {} THEN NULL ELSE s.open_inodes[Least(at)]

FreeObjs(s) == {o \in Obj : s.inode[o] = NULL}

\* inode_open(): finds o in the list, or has read it and puts it there.
inode_open(s, i, o) ==
    IF o = Cached(s, i) THEN [s EXCEPT !.inode[o].i_open_cnts = @ + 1]
    ELSE [s EXCEPT !.inode[o] = [i_no |-> i, i_open_cnts |-> 1, write_deny |-> FALSE],
                   !.open_inodes = <<o>> \o @]

\* Mutant: inode_close() frees the memory and leaves the list.
inode_close_StaysListed(s, o) ==
    IF s.inode[o].i_open_cnts # 1 THEN [s EXCEPT !.inode[o].i_open_cnts = @ - 1]
    ELSE [s EXCEPT !.inode[o] = NULL, !.hurt = @ \ {o},
                   !.undenied = @ \ {o}, !.removed = @ \ {o}]

\* inode_close(): the last close takes it out of the list and frees it.
inode_close(s, o) ==
    IF s.inode[o].i_open_cnts # 1 THEN [s EXCEPT !.inode[o].i_open_cnts = @ - 1]
    ELSE IF o \notin Range(s.open_inodes) THEN Fault(s, "inode.c:141")
    ELSE [s EXCEPT !.inode[o] = NULL,
                   !.open_inodes = RemoveFirst(@, o),
                   !.hurt = @ \ {o}, !.undenied = @ \ {o}, !.removed = @ \ {o}]

\* The history of a close of slot g through descriptor d.
Noted(s, d, g) ==
    LET o == {s.table[g].fd_inode} \cap Obj
    IN  [s EXCEPT
           !.hurt = IF Leads(s, g) \subseteq {d} THEN @ ELSE @ \cup {g} \cup o,
           !.undenied = @ \cup {x \in o : \E h \in Holding(s, x) \ {g} :
                                             s.table[h].fd_flag = "w"}]

\* file_close(): whoever closes, write_deny is cleared and the slot given up.
file_close(s, g) ==
    LET o == s.table[g].fd_inode
        c == IF o \in Obj THEN inode_close([s EXCEPT !.inode[o].write_deny = FALSE], o) ELSE s
    IN  IF o = NULL THEN Fault(s, "file.c:208")
        ELSE [c EXCEPT !.table[g].fd_inode = NULL]

\* Mutant: sys_close() leaves the descriptor.
sys_close_Keeps(s, p, fd) ==
    LET g == s.fds[p][fd] IN file_close(Noted(s, <<p, fd>>, g), g)

sys_close(s, p, fd) ==
    LET g == s.fds[p][fd]
    IN  [file_close(Noted(s, <<p, fd>>, g), g) EXCEPT !.fds[p][fd] = -1]

\* fork: one more descriptor of process q, a copy of its parent's.
\* Mutant: fork does not count a pipe.
CountedFd_Inodes(s, q, fd) ==
    LET g == s.fds[q][fd]
        o == s.table[g].fd_inode
    IN  IF g = -1 THEN s
        ELSE IF s.table[g].fd_flag = "pipe" THEN s
        ELSE IF o \in Obj THEN [s EXCEPT !.inode[o].i_open_cnts = @ + 1]
        ELSE Fault(s, "fork.c:108")

CountedFd(s, q, fd) ==
    LET g == s.fds[q][fd]
        o == s.table[g].fd_inode
    IN  IF g = -1 THEN s
        ELSE IF s.table[g].fd_flag = "pipe" THEN [s EXCEPT !.table[g].fd_pos = @ + 1]
        ELSE IF o \in Obj THEN [s EXCEPT !.inode[o].i_open_cnts = @ + 1]
        ELSE Fault(s, "fork.c:108")

update_inode_open_cnts(s, q) ==
    LET done[i \in 0..MAX_FDS] == IF i = 0 THEN s ELSE CountedFd(done[i - 1], q, i)
    IN  done[MAX_FDS]

\* exit: one descriptor of p.  (The entry of a pipe is not cleared, it goes with
\* the process.)
ReleasedFd(s, p, fd) ==
    LET g == s.fds[p][fd]
        d == [s EXCEPT !.table[g].fd_pos = @ - 1, !.fds[p][fd] = -1]
    IN  IF g = -1 THEN s
        ELSE IF s.table[g].fd_flag # "pipe" THEN sys_close(s, p, fd)
        ELSE IF s.table[g].fd_pos # 1 THEN d
        ELSE IF s.table[g].fd_inode \notin Page THEN Fault(s, "wait_exit.c:58")
        ELSE [d EXCEPT !.pages = @ \cup {s.table[g].fd_inode}, !.table[g].fd_inode = NULL]

release_prog_resource(s, p) ==
    LET done[i \in 0..MAX_FDS] == IF i = 0 THEN s ELSE ReleasedFd(done[i - 1], p, i)
    IN  done[MAX_FDS]

\* The slot that a file_create() has filled and not installed yet.
Filling(g) == call # NULL /\ call.op = "create" /\ call.slot = g

\* The history when x is put in slot g: a slot that nothing leads to starts anew.
Filled(s, g, x) ==
    IF Leads(s, g) = {} /\ ~Filling(g) THEN s.hurt \ {g}
    ELSE s.hurt \cup {g} \cup ({x} \cap Obj)

\* A slot is no longer hurt when it is free and nothing leads to it.  What is
\* left in it is not read before it is written, so it is not kept in the model.
Settled(s) ==
    LET idle == {g \in FreeSlots(s) : Leads(s, g) = {} /\ ~Filling(g)}
    IN  IF s.fault # "none" THEN s
        ELSE [s EXCEPT !.hurt = @ \ idle,
                       !.table = [g \in Slot |-> IF g \in idle THEN Empty ELSE @[g]]]

----------------------------------------------------------------------------
Bounded(s) ==
    /\ \A o \in Obj : s.inode[o] # NULL => s.inode[o].i_open_cnts <= MAX_COUNT
    /\ \A g \in Slot : s.table[g].fd_pos <= MAX_COUNT
    /\ Cardinality(s.hurt \cap Slot) <= MAX_HURT

\* p is in user mode and can make a system call.
Ready(p) ==
    /\ f.fault = "none" /\ p \in alive /\ rw[p] = NULL
    /\ call # NULL => call.p # p

\* p makes a call that needs the disk: it gets the channel once no other call
\* is between its transfers.
ReadyForDisk(p) == Ready(p) /\ call = NULL

Continues(op) == f.fault = "none" /\ call # NULL /\ call.op = op

\* Mutant: file_open() does not set write_deny.
FileOpened_NoDeny(s, p, g, i, o, flag) ==
    LET r == inode_open(s, i, o)
        t == [r EXCEPT !.table[g] = [fd_inode |-> o, fd_pos |-> 0, fd_flag |-> flag],
                       !.hurt = Filled(s, g, o)]
    IN  pcb_fd_install(t, p, g)

\* The rest of file_open() once the inode is there: the slot is filled whatever
\* has happened to it meanwhile; a second writer is refused but keeps the slot.
FileOpened(s, p, g, i, o, flag) ==
    LET r == inode_open(s, i, o)
        t == [r EXCEPT !.table[g] = [fd_inode |-> o, fd_pos |-> 0, fd_flag |-> flag],
                       !.hurt = Filled(s, g, o)]
    IN  IF flag = "r" THEN pcb_fd_install(t, p, g)
        ELSE IF t.inode[o].write_deny THEN [t EXCEPT !.hurt = @ \cup {g, o}]
        ELSE pcb_fd_install([t EXCEPT !.inode[o].write_deny = TRUE], p, g)

\* sys_open() without O_CREAT: the slot is chosen, then an inode that is not in
\* memory has to be read.
OpenCached(p, n, flag) ==
    /\ ReadyForDisk(p) /\ entry[n] # NULL
    /\ FreeSlots(f) # {} /\ Cached(f, entry[n]) # NULL
    /\ f' = Settled(FileOpened(f, p, Least(FreeSlots(f)), entry[n], Cached(f, entry[n]), flag))
    /\ UNCHANGED <<alive, entry, bitmap, call, rw>>

Open(p, n, flag) ==
    /\ ReadyForDisk(p) /\ entry[n] # NULL
    /\ FreeSlots(f) # {} /\ Cached(f, entry[n]) = NULL
    /\ call' = [op |-> "open", p |-> p, ino |-> entry[n], slot |-> Least(FreeSlots(f)),
                flag |-> flag]
    /\ UNCHANGED <<f, alive, entry, bitmap, rw>>

OpenRead ==
    /\ Continues("open") /\ FreeObjs(f) # {}
    /\ f' = Settled(FileOpened(f, call.p, call.slot, call.ino, Least(FreeObjs(f)), call.flag))
    /\ call' = NULL
    /\ UNCHANGED <<alive, entry, bitmap, rw>>

\* sys_open() with O_CREAT: file_create() fills the slot before it writes the
\* entry, the inode and the bitmap; only then the inode is listed and counted.
\* It never sets write_deny.
Create(p, n, flag) ==
    LET i == Least(Ino \ bitmap)
        o == Least(FreeObjs(f))
        g == Least(FreeSlots(f))
    IN  /\ ReadyForDisk(p) /\ entry[n] = NULL
        /\ Ino \ bitmap # {} /\ FreeObjs(f) # {} /\ FreeSlots(f) # {}
        /\ bitmap' = bitmap \cup {i}
        /\ f' = [f EXCEPT
                   !.inode[o] = [i_no |-> i, i_open_cnts |-> 0, write_deny |-> FALSE],
                   !.table[g] = [fd_inode |-> o, fd_pos |-> 0, fd_flag |-> flag],
                   !.hurt = Filled(f, g, o),
                   !.undenied = IF flag = "w" THEN @ \cup {o} ELSE @]
        /\ call' = [op |-> "create", p |-> p, name |-> n, slot |-> g, obj |-> o]
        /\ UNCHANGED <<alive, entry, rw>>

Created ==
    LET o == call.obj
        s == [f EXCEPT !.open_inodes = <<o>> \o @, !.inode[o].i_open_cnts = 1]
    IN  /\ Continues("create")
        /\ entry' = [entry EXCEPT ![call.name] = f.inode[o].i_no]
        /\ f' = Settled(pcb_fd_install(s, call.p, call.slot))
        /\ call' = NULL
        /\ UNCHANGED <<alive, bitmap, rw>>

\* The entry does not fit in the directory: everything is taken back.
CreateFails ==
    LET o == call.obj
    IN  /\ Continues("create")
        /\ bitmap' = bitmap \ {f.inode[o].i_no}
        /\ f' = Settled([f EXCEPT !.inode[o] = NULL, !.table[call.slot] = Empty,
                                  !.hurt = @ \ {o}, !.undenied = @ \ {o}])
        /\ call' = NULL
        /\ UNCHANGED <<alive, entry, rw>>

\* Mutant: sys_unlink() does not look at the table of open files.
Unlink_Unchecked(p, n) ==
    /\ ReadyForDisk(p) /\ entry[n] # NULL
    /\ call' = [op |-> "unlink", p |-> p, name |-> n, ino |-> entry[n], obj |-> NULL]
    /\ UNCHANGED <<f, alive, entry, bitmap, rw>>

\* sys_unlink() of a file that no slot holds: delete_dir_entry() waits for the
\* disk, then inode_release() opens the inode, frees what it has, and closes it.
Unlink(p, n) ==
    /\ ReadyForDisk(p) /\ entry[n] # NULL
    /\ \A g \in Slot : f.table[g].fd_inode \in Obj =>
          f.inode[f.table[g].fd_inode].i_no # entry[n]
    /\ call' = [op |-> "unlink", p |-> p, name |-> n, ino |-> entry[n], obj |-> NULL]
    /\ UNCHANGED <<f, alive, entry, bitmap, rw>>

UnlinkOpens ==
    LET c == Cached(f, call.ino)
        o == IF c = NULL THEN Least(FreeObjs(f)) ELSE c
    IN  /\ Continues("unlink") /\ call.obj = NULL
        /\ c # NULL \/ FreeObjs(f) # {}
        /\ entry' = [entry EXCEPT ![call.name] = NULL]
        /\ f' = inode_open(f, call.ino, o)
        /\ call' = [call EXCEPT !.obj = o]
        /\ UNCHANGED <<alive, bitmap, rw>>

Unlinked ==
    LET old == {o \in Obj \ FreeObjs(f) : f.inode[o].i_no = call.ino}
    IN  /\ Continues("unlink") /\ call.obj # NULL
        /\ bitmap' = bitmap \ {call.ino}
        /\ f' = Settled(inode_close([f EXCEPT !.removed = @ \cup old], call.obj))
        /\ call' = NULL
        /\ UNCHANGED <<alive, entry, rw>>

----------------------------------------------------------------------------
\* sys_read() and sys_write() on a file.  (Both treat a pipe's page as an inode;
\* pipe_read() and pipe_write() have no caller.  No program does it.)
Transfer(p, fd) ==
    LET g == f.fds[p][fd]
    IN  /\ Ready(p) /\ g # -1 /\ f.table[g].fd_flag # "pipe"
        /\ IF f.table[g].fd_inode = NULL
           THEN f' = Fault(f, "file.c:218") /\ UNCHANGED rw
           ELSE rw' = [rw EXCEPT ![p] = g] /\ UNCHANGED f
        /\ UNCHANGED <<alive, entry, bitmap, call>>

\* The transfer ends: the slot is looked at again after each wait.
Transferred(p) ==
    /\ f.fault = "none" /\ call = NULL /\ rw[p] # NULL
    /\ f' = IF f.table[rw[p]].fd_inode \in Obj THEN f ELSE Fault(f, "file.c:218")
    /\ rw' = [rw EXCEPT ![p] = NULL]
    /\ UNCHANGED <<alive, entry, bitmap, call>>

Close(p, fd) ==
    /\ Ready(p) /\ f.fds[p][fd] # -1
    /\ f' = Settled(sys_close(f, p, fd))
    /\ UNCHANGED <<alive, entry, bitmap, call, rw>>

\* sys_pipe() uses the slot and the page before it looks whether it got them.
sys_pipe(p) ==
    LET g == Least(FreeSlots(f))
        page == Least(f.pages)
        s == [f EXCEPT !.table[g] = [fd_inode |-> page, fd_pos |-> 2, fd_flag |-> "pipe"],
                       !.pages = @ \ {page},
                       !.hurt = Filled(f, g, page)]
    IN  /\ Ready(p)
        /\ f' = IF FreeSlots(f) = {} THEN Fault(f, "pipe.c:17")
                ELSE IF f.pages = {} THEN Fault(f, "pipe.c:19")
                ELSE Settled(pcb_fd_install(pcb_fd_install(s, p, g), p, g))
        /\ UNCHANGED <<alive, entry, bitmap, call, rw>>

\* fork() copies the descriptors, q is a new PCB.
sys_fork(p, q) ==
    /\ Ready(p) /\ q \notin alive
    /\ f' = Settled(update_inode_open_cnts([f EXCEPT !.fds[q] = f.fds[p]], q))
    /\ alive' = alive \cup {q}
    /\ UNCHANGED <<entry, bitmap, call, rw>>

\* exit() of a process that is not the last.
sys_exit(p) ==
    /\ Ready(p) /\ alive # {p}
    /\ f' = Settled(release_prog_resource(f, p))
    /\ alive' = alive \ {p}
    /\ UNCHANGED <<entry, bitmap, call, rw>>

Step(p) ==
    \/ \E n \in Name, flag \in {"r", "w"} :
         OpenCached(p, n, flag) \/ Open(p, n, flag) \/ Create(p, n, flag)
    \/ \E n \in Name : Unlink(p, n)
    \/ \E fd \in Fd : Transfer(p, fd) \/ Close(p, fd)
    \/ Transferred(p) \/ sys_pipe(p) \/ sys_exit(p)
    \/ \E q \in Process : sys_fork(p, q)

Next ==
    /\ \/ \E p \in Process : Step(p)
       \/ OpenRead \/ Created \/ CreateFails \/ UnlinkOpens \/ Unlinked
    /\ Bounded(f')

Spec == Init /\ [][Next]_vars

----------------------------------------------------------------------------
Live(o) == f.inode[o] # NULL

\* The inode that a file_create() makes, that an inode_release() has open.
Making(o) == call # NULL /\ call.op = "create" /\ call.obj = o
Releasing(o) == call # NULL /\ call.op = "unlink" /\ call.obj = o

\* A slot in use holds a live inode, which the list has once and whose count
\* covers all slots that hold it, whatever was shared, refused or overwritten:
\* inode_close() never frees an inode that a slot still points to.
Covered ==
    \A o \in Obj :
      /\ Holding(f, o) # {} => Live(o)
      /\ Live(o) /\ ~Making(o) =>
           /\ Cardinality({j \in DOMAIN f.open_inodes : f.open_inodes[j] = o}) = 1
           /\ f.inode[o].i_open_cnts >=
                Cardinality(Holding(f, o)) + (IF Releasing(o) THEN 1 ELSE 0)
      /\ o \in Range(f.open_inodes) => Live(o)

\* Outside what was hurt, nothing leaks and nothing dangles: a slot is taken as
\* long as a descriptor leads to it, the inode's count and the pipe's count are
\* the number of descriptors, and an inode that nobody has open is not kept.
Accounted ==
    f.fault = "none" =>
      /\ \A g \in Slot \ f.hurt :
           /\ (f.table[g].fd_inode # NULL) <=> (Leads(f, g) # {} \/ Filling(g))
           /\ f.table[g].fd_inode \in Page => f.table[g].fd_pos = Cardinality(Leads(f, g))
      /\ \A o \in Obj \ f.hurt :
           Live(o) /\ ~Making(o) =>
             f.inode[o].i_open_cnts =
               Cardinality(UNION {Leads(f, g) : g \in Holding(f, o)})
                 + (IF Releasing(o) THEN 1 ELSE 0)

\* There is one inode in memory per number, and no slot holds one whose file has
\* been removed, although sys_unlink() and inode_open() sleep between looking
\* and acting.
OneCopy ==
    \A o \in Obj \ f.hurt :
      Live(o) => /\ \A u \in Obj \ f.hurt :
                      Live(u) /\ f.inode[u].i_no = f.inode[o].i_no => u = o
                 /\ o \in f.removed => Holding(f, o) = {}
                 /\ Holding(f, o) # {} => f.inode[o].i_no \in bitmap

\* A file that is open for writing is not opened for writing again, unless it
\* was created by its writer or somebody else has closed it in between.
OneWriter ==
    \A o \in Obj :
      Cardinality({g \in Holding(f, o) \ f.hurt : f.table[g].fd_flag = "w"}) > 1
        => o \in f.undenied

\* A descriptor keeps leading to the same open file as long as its process keeps
\* it, unless another descriptor of the same slot closes it or a pipe has taken
\* the slot that an open call had chosen.
DescriptorsKeep ==
    [][\A p \in Process, fd \in Fd :
         LET g == f.fds[p][fd]
         IN  g # -1 /\ f'.fds[p][fd] = g /\ Cardinality(Leads(f, g)) = 1
               => \/ f'.table[g].fd_inode = f.table[g].fd_inode
                  \/ g \in f.hurt
                  \/ call # NULL /\ call.op = "open" /\ call.slot = g]_vars

\* The kernel follows a pointer it must not only after a slot was hurt, or where
\* sys_pipe() runs out of slots or pages.
NoFault ==
    f.fault \notin {"none", "pipe.c:17", "pipe.c:19"} => f.hurt \cap Slot # {}
=============================================================================
