------------------------------- MODULE ByteFile -------------------------------
(***************************************************************************)
(* What a caller of the FAT VFS layer may rely on for one path: the file  *)
(* is a sequence of bytes shared by every handle open on it (spec.md 6.3:  *)
(* "byte-stream I/O"), each handle has its own position, a write past the *)
(* end fills the gap with zero bytes, and unlink of a file that is open   *)
(* is refused with "busy" (spec.md 5).  ret is the result of the last     *)
(* call: which handle, which operation, the error or "none", the bytes a  *)
(* read returned and the count a write reported.                          *)
(***************************************************************************)
EXTENDS Naturals, Sequences

CONSTANTS Handles,  \* handle slots
          Byte,     \* byte values a caller writes
          Zero,     \* the byte a gap reads as
          MaxCount, \* largest byte count of one read or write
          MaxPos    \* largest position a seek sets

VARIABLES exists,   \* the path names a file
          bytes,    \* its contents
          hmode,    \* handle -> "closed", "R", "W" or "RW"
          pos,      \* handle -> file position
          ret       \* result of the last call

vars == <<exists, bytes, hmode, pos, ret>>

Modes == {"R", "W", "RW"}
Readable == {"R", "RW"}
Writable == {"W", "RW"}

Result(h, op, err, data, n) == [h |-> h, op |-> op, err |-> err, data |-> data, n |-> n]
Ok(h, op) == Result(h, op, "none", <<>>, 0)

\* The contents after writing d at offset p.
Overwrite(s, p, d) ==
    LET len == IF Len(s) > p + Len(d) THEN Len(s) ELSE p + Len(d) IN
    [i \in 1..len |-> IF p < i /\ i <= p + Len(d) THEN d[i - p]
                      ELSE IF i <= Len(s) THEN s[i] ELSE Zero]

Init == /\ exists \in BOOLEAN
        /\ bytes \in Seq(Byte \cup {Zero})
        /\ ~exists => bytes = <<>>
        /\ hmode = [h \in Handles |-> "closed"]
        /\ pos = [h \in Handles |-> 0]
        /\ ret = Ok("path", "none")

Open(h, m, trunc, creat) ==
    /\ hmode[h] = "closed"
    /\ IF ~exists /\ ~creat
       THEN ret' = Result(h, "open", "ENOENT", <<>>, 0) /\ UNCHANGED <<exists, bytes, hmode, pos>>
       ELSE /\ exists' = TRUE
            /\ bytes' = IF ~exists \/ (trunc /\ m \in Writable) THEN <<>> ELSE bytes
            /\ hmode' = [hmode EXCEPT ![h] = m]
            /\ pos' = [pos EXCEPT ![h] = 0]
            /\ ret' = Ok(h, "open")

Close(h) ==
    /\ hmode[h] # "closed"
    /\ hmode' = [hmode EXCEPT ![h] = "closed"]
    /\ pos' = [pos EXCEPT ![h] = 0]
    /\ ret' = Ok(h, "close")
    /\ UNCHANGED <<exists, bytes>>

Read(h, n) ==
    /\ hmode[h] # "closed"
    /\ IF hmode[h] \notin Readable
       THEN ret' = Result(h, "read", "EBADF", <<>>, 0) /\ UNCHANGED pos
       ELSE LET d == IF pos[h] >= Len(bytes) THEN <<>>
                     ELSE SubSeq(bytes, pos[h] + 1,
                                 IF pos[h] + n < Len(bytes) THEN pos[h] + n ELSE Len(bytes))
            IN /\ pos' = [pos EXCEPT ![h] = @ + Len(d)]
               /\ ret' = Result(h, "read", "none", d, Len(d))
    /\ UNCHANGED <<exists, bytes, hmode>>

Write(h, d) ==
    /\ hmode[h] # "closed"
    /\ IF hmode[h] \notin Writable
       THEN ret' = Result(h, "write", "EBADF", <<>>, 0) /\ UNCHANGED <<bytes, pos>>
       ELSE /\ bytes' = Overwrite(bytes, pos[h], d)
            /\ pos' = [pos EXCEPT ![h] = @ + Len(d)]
            /\ ret' = Result(h, "write", "none", <<>>, Len(d))
    /\ UNCHANGED <<exists, hmode>>

Seek(h, p) ==
    /\ hmode[h] # "closed"
    /\ pos' = [pos EXCEPT ![h] = p]
    /\ ret' = Ok(h, "seek")
    /\ UNCHANGED <<exists, bytes, hmode>>

\* unlink names the path, not a handle.
Unlink ==
    /\ exists
    /\ IF \E k \in Handles : hmode[k] # "closed"
       THEN ret' = Result("path", "unlink", "EBUSY", <<>>, 0) /\ UNCHANGED <<exists, bytes>>
       ELSE exists' = FALSE /\ bytes' = <<>> /\ ret' = Ok("path", "unlink")
    /\ UNCHANGED <<hmode, pos>>

Next == \/ Unlink
        \/ \E h \in Handles :
          \/ \E m \in Modes, t, c \in BOOLEAN : Open(h, m, t, c)
          \/ Close(h)
          \/ \E n \in 1..MaxCount : Read(h, n)
          \/ \E k \in 1..MaxCount : \E d \in [1..k -> Byte] : Write(h, d)
          \/ \E p \in 0..MaxPos : Seek(h, p)

Spec == Init /\ [][Next]_vars
================================================================================
