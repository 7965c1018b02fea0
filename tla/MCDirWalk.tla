----------------------------- MODULE MCDirWalk -----------------------------
(***************************************************************************)
(* Both walks through small trees.  A behaviour has one of them walk; the  *)
(* other one stays as it was called.                                       *)
(***************************************************************************)
EXTENDS DirWalk

CONSTANTS BufSz, PwdSizes, a, b, c, e, f, g

ASSUME OldWalkAssumption == BufSz \in Nat /\ PwdSizes \subseteq Nat

VARIABLES walker,
          ostreams, opdir, obkfd, odepth, oprog, odir, opath, ocwd, omem, obufsz, opwd,
          odropped, orefused, ostatus

oldVars == <<ostreams, opdir, obkfd, odepth, oprog, odir, opath, ocwd, omem, obufsz, opwd,
             odropped, orefused, ostatus>>

O == INSTANCE OldDirWalk WITH streams <- ostreams, pdir <- opdir, bkfd <- obkfd,
       rddir_stat <- odepth, prog_stat <- oprog, dir <- odir, path <- opath, cwd <- ocwd,
       mem <- omem, bufsz <- obufsz, pwd <- opwd, dropped <- odropped, refused <- orefused,
       status <- ostatus

\* Five directories in several shapes, one more with a dotted name, and a file.
MCTrees == {t \in [Node -> Dir \cup {Outside}] :
              /\ t[Root] = Outside /\ t[a] = Root
              /\ t[b] \in {Root, a} /\ t[c] \in {a, b} /\ t[e] \in {Root, c}
              /\ t[f] = c /\ t[g] = b}

\* Each node has a name of its own, or the directories c and e have one name.
MCNamings == {[n \in Node |-> n], [n \in Node |-> IF n = e THEN c ELSE n]}

MCInit == /\ Init /\ O!Init
          /\ walker \in {"new", "old"}
          /\ walker = "new" => omem /\ opwd = 0 /\ ~O!OneNameEach
          /\ walker = "old" => omem \/ opwd <= BufSz

MCNext == /\ UNCHANGED walker
          /\ \/ walker = "new" /\ Next /\ UNCHANGED oldVars
             \/ walker = "old" /\ O!Next /\ UNCHANGED walkVars

MCSpec == /\ MCInit /\ [][MCNext]_<<walker, treeVars, walkVars, oldVars>>
          /\ WF_walkVars(walker = "new" /\ Walk /\ UNCHANGED <<walker, oldVars>>)

NewWalkEnds == (walker = "new") => WalkEnds
OldWalkAccounts == O!OldWalkAccounts
=============================================================================
