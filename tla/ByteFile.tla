------------------------------ MODULE ByteFile ------------------------------
(***************************************************************************)
(* What file_write() and file_read() promise for a few files: a file is a  *)
(* sequence of bytes that grows at its end, whatever the position of the   *)
(* descriptor, or not at all; a read returns what is there from the        *)
(* position on and moves the position behind it.                           *)
(***************************************************************************)
EXTENDS Integers, Sequences

CONSTANTS File, NULL

VARIABLES content, \* the bytes of each file, NULL if it does not exist
          pos,     \* the position of the file's descriptor, NULL if not open
          got      \* what the last call returned, no bytes unless it was a read

vars == <<content, pos, got>>

Init == /\ content = [f \in File |-> NULL]
        /\ pos = [f \in File |-> NULL]
        /\ got = <<>>

Open(f) == /\ pos[f] = NULL
           /\ content' = IF content[f] = NULL THEN [content EXCEPT ![f] = <<>>] ELSE content
           /\ pos' = [pos EXCEPT ![f] = 0]
           /\ got' = <<>>

Close(f) == /\ pos[f] # NULL
            /\ pos' = [pos EXCEPT ![f] = NULL]
            /\ got' = <<>> /\ UNCHANGED content

Remove(f) == /\ content[f] # NULL /\ pos[f] = NULL
             /\ content' = [content EXCEPT ![f] = NULL]
             /\ got' = <<>> /\ UNCHANGED pos

\* A write appends, and leaves the position on the last byte of the file: before
\* its start if there is none.
Write(f) == LET old == content[f]
                new == content'[f]
            IN  /\ pos[f] # NULL
                /\ content' = [content EXCEPT ![f] = new]
                /\ SubSeq(new, 1, Len(old)) = old
                /\ pos' = [pos EXCEPT ![f] = Len(new) - 1]
                /\ got' = <<>>

Read(f) == /\ pos[f] # NULL /\ pos[f] # -1
           /\ \E end \in pos[f] + 1..Len(content[f]) :
                /\ got' = SubSeq(content[f], pos[f] + 1, end)
                /\ pos' = [pos EXCEPT ![f] = end]
           /\ UNCHANGED content

Seek(f) == /\ pos[f] # NULL
           /\ \E p \in 0..Len(content[f]) : pos' = [pos EXCEPT ![f] = p]
           /\ got' = <<>> /\ UNCHANGED content

\* A write that fails, or has nothing to write, changes nothing.
Fail == got' = <<>> /\ UNCHANGED <<content, pos>>

Next == Fail \/ \E f \in File :
          Open(f) \/ Close(f) \/ Remove(f) \/ Write(f) \/ Read(f) \/ Seek(f)

Spec == Init /\ [][Next]_vars
=============================================================================
