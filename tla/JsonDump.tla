------------------------------ MODULE JsonDump ------------------------------
(***************************************************************************)
(* dumpbf of Jparser/parser.c, after any calls on the table of JsonStore:  *)
(* it writes the member "data", follows its nd, and takes the head of the  *)
(* next bucket when there is none.  The bucket counter sztbe is not        *)
(* initialised.  The layout of what is written is not modelled, and the    *)
(* buffer has room for it, as the code assumes (line 829).                 *)
(***************************************************************************)
EXTENDS JsonStore, SequencesExt

VARIABLES pc,            \* "calls" on the table, the "loop" of dumpbf, how it ended
          data, sztbe,
          out            \* the members written

dumpVars == <<pc, data, sztbe, out>>
allVars  == <<vars, dumpVars>>

InitDump == Init /\ pc = "calls" /\ data = Null /\ sztbe = 0 /\ out = <<>>

Call == pc = "calls" /\ NextAll /\ UNCHANGED dumpVars

\* Every counter from Buckets on is the same to the loop.
Counters == 0 .. Buckets

DumpStart == /\ pc = "calls" /\ ret # "undefined"
             /\ pc' = "loop"
             /\ data' = head[0]
             /\ sztbe' \in Counters
             /\ UNCHANGED <<vars, out>>

\* The object has no buffer and malloc has none; or JsonInit was not followed by a
\* read, so that __buf was never set.
DumpFails == /\ pc = "calls" /\ ret # "undefined"
             /\ pc' \in {"failed", "undefined"}
             /\ UNCHANGED <<vars, data, sztbe, out>>

\* Mutants: a last member is not written; the bucket counter is increased twice or
\* not at all.
WrittenEarly(n) == IF nd[n] = Null THEN out ELSE Append(out, n)
Written(n)      == Append(out, n)
BucketSkipped   == sztbe + 2
SameBucket      == sztbe
BucketAfter     == sztbe + 1

DumpMember == /\ pc = "loop" /\ data # Null
              /\ out' = Written(data)
              /\ data' = nd[data]
              /\ UNCHANGED <<vars, pc, sztbe>>

DumpBucket == /\ pc = "loop" /\ data = Null /\ sztbe < Buckets
              /\ data' = head[sztbe]
              /\ sztbe' = BucketAfter
              /\ UNCHANGED <<vars, pc, out>>

DumpEnds == /\ pc = "loop" /\ data = Null /\ sztbe >= Buckets
            /\ pc' = "done"
            /\ UNCHANGED <<vars, data, sztbe, out>>

Dump == DumpStart \/ DumpFails \/ DumpMember \/ DumpBucket \/ DumpEnds

NextDump == Call \/ Dump

SpecDump == /\ InitDump /\ [][NextDump]_allVars
            /\ WF_allVars(DumpMember \/ DumpBucket \/ DumpEnds)

-----------------------------------------------------------------------------
\* The types: what is written are nodes, and the counter never passes the buckets.
DumpTypeOK == /\ pc \in {"calls", "loop", "done", "failed", "undefined"}
              /\ data \in Node \cup {Null} /\ sztbe \in Counters
              /\ out \in Seq(Node)

\* The members met when following nd from node n, at most one of each bucket
\* (LinksOrdered).
Chain(n) == LET from[k \in 0 .. Buckets] ==
                  [m \in Node \cup {Null} |-> IF k = 0 \/ m = Null THEN <<>>
                                             ELSE <<m>> \o from[k - 1][nd[m]]]
            IN from[Buckets][n]

\* What dumpbf has written when it is done: the chain of the first bucket, and then the
\* chains of the buckets from some one on, which may be the first again.
WritesChains ==
  pc = "done" =>
    \E b \in Counters :
      out = Chain(head[0]) \o FlattenSeq([i \in 1 .. Buckets - b |-> Chain(head[b + i - 1])])

\* A dump ends, after whatever calls: the loop has no bound but the ends of the chains.
DumpReturns == (pc = "loop") ~> (pc = "done")
=============================================================================
