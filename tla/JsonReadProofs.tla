--------------------------- MODULE JsonReadProofs ---------------------------
(***************************************************************************)
(* Proofs about JsonRead, for a file of any length.                        *)
(***************************************************************************)
EXTENDS JsonRead, TLAPS

\* Before the first read nothing is known, and in the loop, as long as errno does not
\* say EINTR, the buffer starts with the last piece.
Pieces == /\ pc \in {"open", "stat", "init", "alloc"} =>
               bf = <<>> /\ rdbytes = Junk /\ offset = 0
          /\ pc \in {"end", "lex"} => errno # "EINTR"
          /\ pc \in {"read", "end"} /\ errno # "EINTR" =>
               \/ rdbytes = Junk /\ offset = 0
               \/ /\ rdbytes \in 1 .. sz
                  /\ \A i \in 1 .. rdbytes : bf[i] = offset - rdbytes + i

Inv == TypeOK /\ Pieces /\ TerminatorInside /\ TextIsLastPiece

LEMMA InitInv == Init => Inv
<1> USE MaxLengthAssumption, JunkAssumption
<1>1. Init => TypeOK
  BY DEF Init, TypeOK, Byte
<1>2. Init => Pieces /\ TerminatorInside /\ TextIsLastPiece
  BY DEF Init, Pieces, TerminatorInside, TextIsLastPiece
<1> QED
  BY <1>1, <1>2 DEF Inv

LEMMA StepInv == Inv /\ [Next]_vars => Inv'
<1> SUFFICES ASSUME Inv, [Next]_vars PROVE Inv'
  OBVIOUS
<1> USE MaxLengthAssumption, MallocAssumption, JunkAssumption
<1> USE DEF Inv, TypeOK, Byte, Pieces, TerminatorInside, TextIsLastPiece, Return
<1>u. CASE UNCHANGED vars
  BY <1>u DEF vars
<1>1. CASE Open
  BY <1>1 DEF Open
<1>2. CASE Stat
  BY <1>2 DEF Stat
<1>3. CASE InitObject
  BY <1>3 DEF InitObject
<1>4. CASE Allocate
  BY <1>4 DEF Allocate, Buffer
<1>5. CASE ReadPiece
  BY <1>5 DEF ReadPiece
<1>6. CASE ReadInterrupted
  BY <1>6 DEF ReadInterrupted
<1>7. CASE ReadNothing
  BY <1>7 DEF ReadNothing, GoesOn
<1>8. CASE ReadFails
  BY <1>8 DEF ReadFails
<1>9. CASE Terminate
  <2>1. pc = "end" /\ bf \in [1 .. sz + 1 -> Byte] /\ DOMAIN bf = 1 .. sz + 1
    BY <1>9 DEF Terminate
  <2>2. CASE InBuffer
    <3>1. rdbytes \in 1 .. sz /\ \A i \in 1 .. rdbytes : bf[i] = offset - rdbytes + i
      BY <2>1, <2>2 DEF InBuffer, TerminateAt
    <3>2. bf' = [bf EXCEPT ![rdbytes + 1] = 0] /\ pc' = "lex"
      BY <1>9, <2>2 DEF Terminate, TerminateAt, NUL
    <3>3. bf' \in [1 .. sz + 1 -> Byte]
      <4>1. 0 \in Byte
        OBVIOUS
      <4> HIDE DEF Inv, TypeOK, Byte, Pieces, TerminatorInside, TextIsLastPiece
      <4> QED
        BY <2>1, <3>2, <4>1
    <3>4. \A i \in 1 .. rdbytes : bf'[i] = bf[i]
      BY <2>1, <3>1, <3>2
    <3>5. bf'[rdbytes + 1] = 0
      BY <2>1, <3>1, <3>2
    <3>6. UNCHANGED <<file, offset, sz, rdbytes, errno, ret>>
      BY <1>9 DEF Terminate
    <3>7. TypeOK'
      BY <3>2, <3>3, <3>6
    <3>8. Pieces' /\ TerminatorInside'
      BY <2>1, <3>2, <3>6
    <3>9. TextIsLastPiece'
      BY <3>1, <3>2, <3>4, <3>5, <3>6 DEF NUL
    <3> QED
      BY <3>7, <3>8, <3>9
  <2>3. CASE ~InBuffer
    BY <1>9, <2>1, <2>3 DEF Terminate
  <2> QED
    BY <2>2, <2>3
<1>10. CASE Lex
  BY <1>10 DEF Lex
<1>11. CASE FileChanges
  BY <1>11 DEF FileChanges
<1> HIDE DEF Inv
<1> QED
  BY <1>u, <1>1, <1>2, <1>3, <1>4, <1>5, <1>6, <1>7, <1>8, <1>9, <1>10, <1>11
  DEF Next, Program

THEOREM InvHolds == Spec => []Inv
BY InitInv, StepInv, PTL DEF Spec

\* The variables of JsonOpen and readfl keep their types.
THEOREM ReadTypes == Spec => []TypeOK
<1>1. Inv => TypeOK
  BY DEF Inv
<1> QED
  BY <1>1, InvHolds, PTL

\* The terminating zero is written inside the buffer, or its place was never set.
THEOREM TerminatorIsInside == Spec => []TerminatorInside
<1>1. Inv => TerminatorInside
  BY DEF Inv
<1> QED
  BY <1>1, InvHolds, PTL

\* The text that is lexed is the last piece that was read, for every length of the
\* file and every way to deliver it.
THEOREM LexesLastPiece == Spec => []TextIsLastPiece
<1>1. Inv => TextIsLastPiece
  BY DEF Inv
<1> QED
  BY <1>1, InvHolds, PTL
=============================================================================
