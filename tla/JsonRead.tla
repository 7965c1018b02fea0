------------------------------ MODULE JsonRead ------------------------------
(***************************************************************************)
(* JsonOpen and readfl of Jparser/parser.c: a file is opened, its size is  *)
(* asked for, and read is called until it returns nothing, each time with  *)
(* the whole buffer.  Then the buffer is ended with a zero and lexed.      *)
(*                                                                         *)
(* A byte of the file is its position, counted from 1.  Other processes    *)
(* may change the length of the file at any time; a read may deliver a     *)
(* part of what is there, be interrupted, or fail.                         *)
(***************************************************************************)
EXTENDS Integers, Sequences

CONSTANTS MaxLength,        \* bound on the length of the file
          MallocMayFail,
          Junk              \* what malloc left in the buffer, or an unset rdbytes

ASSUME MaxLengthAssumption == MaxLength \in Nat
ASSUME MallocAssumption == MallocMayFail \in BOOLEAN
ASSUME JunkAssumption == Junk \notin Int

VARIABLES file,       \* length of the file
          offset,     \* of the descriptor
          sz,         \* st_size, as fstat gave it
          bf, rdbytes, errno,
          pc, ret

vars == <<file, offset, sz, bf, rdbytes, errno, pc, ret>>

NUL == 0

Init == /\ file \in 0 .. MaxLength
        /\ offset = 0 /\ sz = 0 /\ bf = <<>>
        /\ rdbytes = Junk /\ errno = "none"
        /\ pc = "open" /\ ret = "none"

\* Another process writes to the file or truncates it.
FileChanges == /\ pc \notin {"done", "undefined"}
               /\ file' \in 0 .. MaxLength
               /\ UNCHANGED <<offset, sz, bf, rdbytes, errno, pc, ret>>

Return(value) == pc' = "done" /\ ret' = value

-----------------------------------------------------------------------------
\* JsonOpen.  An empty name, or one that open refuses, is the same to the caller.
Open == /\ pc = "open"
        /\ \/ pc' = "stat" /\ UNCHANGED <<errno, ret>>
           \/ Return("null") /\ errno' = "other"
        /\ UNCHANGED <<file, offset, sz, bf, rdbytes>>

Stat == /\ pc = "stat"
        /\ \/ sz' = file /\ pc' = "init" /\ UNCHANGED <<errno, ret>>
           \/ Return("null") /\ errno' = "other" /\ UNCHANGED sz
        /\ UNCHANGED <<file, offset, bf, rdbytes>>

InitObject == /\ pc = "init"
              /\ \/ pc' = "alloc" /\ UNCHANGED <<errno, ret>>
                 \/ MallocMayFail /\ Return("null") /\ errno' = "other"
              /\ UNCHANGED <<file, offset, sz, bf, rdbytes>>

-----------------------------------------------------------------------------
\* readfl.  Whatever it returns, JsonOpen returns the object.
ExactBuffer(n) == [i \in 1 .. n |-> Junk]          \* a mutant: no room for the zero
Buffer(n)      == [i \in 1 .. n + 1 |-> Junk]

Allocate == /\ pc = "alloc"
            /\ \/ /\ bf' = Buffer(sz) /\ errno' = "none"
                  /\ pc' = "read" /\ UNCHANGED ret
               \/ /\ MallocMayFail /\ UNCHANGED bf /\ errno' = "other"
                  /\ Return("object")
            /\ UNCHANGED <<file, offset, sz, rdbytes>>

\* read gave n bytes: they go to the start of the buffer.
ReadPiece == /\ pc = "read"
             /\ \E n \in 1 .. sz :
                  /\ offset + n <= file
                  /\ bf' = [i \in DOMAIN bf |-> IF i <= n THEN offset + i ELSE bf[i]]
                  /\ offset' = offset + n
                  /\ rdbytes' = n
             /\ UNCHANGED <<file, sz, errno, pc, ret>>

ReadInterrupted == /\ pc = "read"
                   /\ errno' = "EINTR" /\ rdbytes' = -1
                   /\ UNCHANGED <<file, offset, sz, bf, pc, ret>>

\* read gave nothing, which ends the loop unless errno says EINTR, if only from an
\* earlier read.
GoesOnAlways == TRUE                               \* two mutants
GoesOnNever  == FALSE
GoesOn       == errno = "EINTR"

ReadNothing == /\ pc = "read"
               /\ sz = 0 \/ offset >= file
               /\ \/ GoesOn /\ rdbytes' = 0 /\ UNCHANGED pc
                  \/ ~GoesOn /\ pc' = "end" /\ UNCHANGED rdbytes
               /\ UNCHANGED <<file, offset, sz, bf, errno, ret>>

ReadFails == /\ pc = "read"
             /\ errno' = "other"
             /\ Return("object")
             /\ UNCHANGED <<file, offset, sz, bf, rdbytes>>

\* bf[rdbytes] = 0, where the buffer has such a byte.
TerminateAtSize == sz                              \* a mutant: the size of the file
TerminateAt     == rdbytes

InBuffer == TerminateAt # Junk /\ TerminateAt + 1 \in DOMAIN bf

Terminate ==
  /\ pc = "end"
  /\ \/ InBuffer /\ bf' = [bf EXCEPT ![TerminateAt + 1] = NUL] /\ pc' = "lex"
     \/ ~InBuffer /\ UNCHANGED bf /\ pc' = "undefined"
  /\ UNCHANGED <<file, offset, sz, rdbytes, errno, ret>>

\* The lexer may return anything; JsonLexer says what it makes of the text.
Lex == /\ pc = "lex"
       /\ Return("object")
       /\ UNCHANGED <<file, offset, sz, bf, rdbytes, errno>>

\* The steps of the program that nobody else has to cause.
Program == \/ Open \/ Stat \/ InitObject
           \/ Allocate \/ ReadPiece \/ ReadNothing \/ Terminate \/ Lex

Next == Program \/ ReadInterrupted \/ ReadFails \/ FileChanges

Spec     == Init /\ [][Next]_vars
FairSpec == Spec /\ WF_vars(Program)

-----------------------------------------------------------------------------
Byte == {Junk} \cup 0 .. MaxLength

\* From its allocation on the buffer has one byte more than the file had.
TypeOK == /\ file \in 0 .. MaxLength /\ offset \in 0 .. MaxLength
          /\ sz \in 0 .. MaxLength
          /\ pc \in {"open", "stat", "init", "alloc", "read", "end", "lex", "done",
                     "undefined"}
          /\ bf \in {<<>>} \cup [1 .. sz + 1 -> Byte]
          /\ pc \in {"read", "end", "lex"} => bf \in [1 .. sz + 1 -> Byte]
          /\ rdbytes \in {Junk} \cup -1 .. MaxLength
          /\ errno \in {"none", "EINTR", "other"}
          /\ ret \in {"none", "null", "object"}

\* Where the loop ends normally, the place of the terminating zero is in the buffer, or
\* rdbytes was never set because the first read gave nothing (parser.c:598-606).  The
\* -1 of an interrupted read, or the 0 after it, never come there.
TerminatorInside == pc = "end" => \/ rdbytes = Junk /\ offset = 0
                                  \/ rdbytes \in 1 .. sz

\* However the file was delivered, and however it changed in between, the text that is
\* lexed is one piece of the file, the last that was read: never the bytes of two reads
\* or of none.
TextIsLastPiece ==
  pc = "lex" => /\ rdbytes \in 1 .. sz
                /\ \A i \in 1 .. rdbytes : bf[i] = offset - rdbytes + i
                /\ bf[rdbytes + 1] = NUL

\* JsonOpen returns, unless a read is interrupted: errno is cleared once, before the
\* loop, and then the end of the file does not end it (parser.c:597-598).
Returns == <>(pc \in {"done", "undefined"} \/ errno = "EINTR")
=============================================================================
