------------------------------- MODULE MCJVec -------------------------------
(***************************************************************************)
(* The first vector is created empty, with a size field of one byte, or    *)
(* for three members, with one of two.  With three values to a byte the    *)
(* fields are full at two and at eight members.                            *)
(***************************************************************************)
EXTENDS JVec

OneByteOrTwo == {0, 3}
=============================================================================
