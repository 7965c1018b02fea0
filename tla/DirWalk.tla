------------------------------ MODULE DirWalk ------------------------------
(***************************************************************************)
(* mvprog_rdpath of backup/bin/mvdir.c: a walk that lists a directory with *)
(* one stream and, for each directory in it, goes on with the stream of    *)
(* that one, the outer streams on a stack.  Names are looked up in the     *)
(* working directory, which the walk moves only when it needs it: rs says  *)
(* that it has caught up with the stream, ts that the last directory met   *)
(* was refused and its stack entry is the stream that is read.             *)
(***************************************************************************)
EXTENDS FileTree

CONSTANT MVPROG_BKSZ    \* entries of the stack, 1024 in the code

ASSUME StackAssumption == MVPROG_BKSZ \in Nat \ {0}

VARIABLES pdir,         \* PDIR, the directory whose stream is read
          bkfd, rddir_stat,   \* the stack of the outer streams, and its depth
          rs, ts, dir,
          cwd,          \* the working directory
          left,         \* of each directory, the entries its stream has not delivered
          opened,       \* the directories with a stream: none is ever closed
          lines,        \* printed: the working directory's path, or NULL, and the file
          status        \* "walking", or what it ended in: "done", "null" or "undefined"

walkVars == <<pdir, bkfd, rddir_stat, rs, ts, dir, cwd, left, opened, lines, status>>

None  == "none"
HasFd == Cardinality(opened) < fds

-----------------------------------------------------------------------------
Init == /\ TreeInit
        /\ pdir = Root /\ dir = name[Root] /\ cwd = Outside
        /\ bkfd = [i \in 0 .. MVPROG_BKSZ - 1 |-> None] /\ rddir_stat = 0
        /\ rs = FALSE /\ ts = FALSE
        /\ left = [d \in Dir |-> IF d = Root THEN Children(Root) ELSE {}]
        /\ opened = {Root} /\ lines = {} /\ status = "walking"

\* A stream need not deliver an entry that is removed.
AtEnd == left[pdir] \subseteq gone

ReturnNull == status' = "null"

\* The end of the outermost stream, which the function reaches without a return value.
Return == /\ AtEnd /\ rddir_stat = 0
          /\ status' = "done" /\ left' = [left EXCEPT ![pdir] = {}]
          /\ UNCHANGED <<pdir, bkfd, rddir_stat, rs, ts, dir, cwd, opened, lines>>

\* A mutant: it always leaves the working directory, also when it never entered it.
GoesUpAlways == ~ts
GoesUp == rs /\ ~ts

\* Two mutants: the streams are popped two at a time; the depth is lowered after its use.
PoppedTwo == IF rddir_stat > 1 THEN rddir_stat - 2 ELSE 0
PoppedLate == rddir_stat
Popped == rddir_stat - 1

EndOfDir == /\ AtEnd /\ rddir_stat > 0
            /\ left' = [left EXCEPT ![pdir] = {}]
            /\ pdir' = bkfd[Popped] /\ rddir_stat' = Popped
            /\ \/ GoesUp /\ CanFail(cwd) /\ ReturnNull /\ UNCHANGED <<cwd, rs, ts, dir>>
               \/ /\ ~GoesUp \/ CanLeave(cwd)
                  /\ cwd' = IF GoesUp THEN up[cwd] ELSE cwd
                  /\ ts' = FALSE /\ rs' = TRUE /\ dir' = "."
                  /\ UNCHANGED status
            /\ UNCHANGED <<bkfd, opened, lines>>

Skip(n) == /\ name[n] \in Dotted
           /\ UNCHANGED <<pdir, bkfd, rddir_stat, rs, ts, dir, cwd, opened, lines, status>>

\* getcwd returns NULL where the working directory was removed, which printf is given.
PrintName(n) == /\ n \notin Dir /\ name[n] \notin Dotted
                /\ lines' = lines \cup {<<IF cwd \in gone THEN None ELSE cwd, n>>}
                /\ UNCHANGED <<pdir, bkfd, rddir_stat, rs, ts, dir, cwd, opened, status>>

\* Before a directory of a stream's is opened, the first one, the walk goes where the name
\* dir leads to.
Behind  == ~rs /\ ~ts
Goes(h) == IF Behind THEN CanEnter(cwd, dir, h) ELSE h = cwd

\* Where the stream goes on the stack: over its own entry, when it has one.  A mutant has
\* it there twice.
PushedTwice == rddir_stat
Pushed == IF ts THEN rddir_stat - 1 ELSE rddir_stat

Lost(n) == /\ n \in Dir /\ name[n] \notin Dotted
           /\ \A h \in Dir \cup {Outside} : ~Goes(h)
           /\ ReturnNull
           /\ UNCHANGED <<pdir, bkfd, rddir_stat, rs, ts, dir, cwd, opened, lines>>

\* The stack has no place for the stream.
Overflow(n) == /\ n \in Dir /\ name[n] \notin Dotted
               /\ \E h \in Dir \cup {Outside} : Goes(h) /\ cwd' = h
               /\ Pushed \notin DOMAIN bkfd /\ status' = "undefined"
               /\ UNCHANGED <<pdir, bkfd, rddir_stat, rs, ts, dir, opened, lines>>

\* What is opened is what has the entry's name in the working directory.
Enter(n) == /\ n \in Dir /\ name[n] \notin Dotted
            /\ \E h \in Dir \cup {Outside} : Goes(h) /\ cwd' = h
            /\ Pushed \in DOMAIN bkfd
            /\ bkfd' = [bkfd EXCEPT ![Pushed] = pdir] /\ rddir_stat' = Pushed + 1
            /\ dir' = name[n]
            /\ \/ /\ HasFd
                  /\ \E m \in Dir : /\ CanOpen(cwd', name[n], m)
                                    /\ pdir' = m /\ opened' = opened \cup {m}
                  /\ rs' = FALSE /\ ts' = FALSE
                  /\ UNCHANGED status
               \/ /\ HasFd /\ Refused(cwd', name[n])
                  /\ rs' = TRUE /\ ts' = TRUE
                  /\ UNCHANGED <<pdir, opened, status>>
               \/ /\ HasFd => /\ \A m \in Dir : ~CanOpen(cwd', name[n], m)
                              /\ ~Refused(cwd', name[n])
                  /\ ReturnNull
                  /\ UNCHANGED <<pdir, opened, rs, ts>>
            /\ UNCHANGED lines

\* A mutant: a stream is started anew.
RestAnew(n) == Children(pdir)
Rest(n) == left[pdir] \ {n}

\* One round of the loop for the entry n.  A stream just opened delivers what is there.
Readdir(n) == /\ n \in left[pdir]
              /\ (Skip(n) \/ PrintName(n) \/ Lost(n) \/ Overflow(n) \/ Enter(n))
            /\ left' = [d \in Dir |-> IF d = pdir THEN Rest(n)
                                      ELSE IF d = pdir' THEN Children(d) ELSE left[d]]

Walk == /\ status = "walking"
        /\ (Return \/ EndOfDir \/ \E n \in Node : Readdir(n))
        /\ UNCHANGED treeVars

Next == Walk \/ (status = "walking" /\ Others /\ UNCHANGED walkVars)

\* The process that walks is scheduled, whatever the others do.
Spec == Init /\ [][Next]_<<treeVars, walkVars>> /\ WF_walkVars(Walk)

-----------------------------------------------------------------------------
WalkTypeOK == /\ pdir \in Dir /\ cwd \in Dir \cup {Outside}
              /\ dir \in {name[n] : n \in Node} \cup {"."}
              /\ bkfd \in [0 .. MVPROG_BKSZ - 1 -> Dir \cup {None}]
              /\ rddir_stat \in 0 .. MVPROG_BKSZ
              /\ rs \in BOOLEAN /\ ts \in BOOLEAN
              /\ left \in [Dir -> SUBSET Node] /\ opened \subseteq Dir
              /\ lines \subseteq (Dir \cup {Outside, None}) \X (Node \ Dir)
              /\ status \in {"walking", "done", "null", "undefined"}

\* Also after refusals, whose stack entry is used again, and whatever is removed, the
\* streams on the stack are those of the directories from the root down to the one read.
\* A stream that has no place there takes more descriptors than the stack has entries.
StackIsPath ==
  /\ status = "walking" =>
       /\ ts => rddir_stat > 0 /\ bkfd[rddir_stat - 1] = pdir
       /\ LET depth == IF ts THEN rddir_stat - 1 ELSE rddir_stat
              Stream(i) == IF i = depth THEN pdir ELSE bkfd[i]
          IN Stream(0) = Root /\ \A i \in 1 .. depth : up[Stream(i)] = Stream(i - 1)
  /\ status = "undefined" => MVPROG_BKSZ < fds

\* The two flags always know where the process is: in the directory whose stream it reads,
\* or in the one above it; a file is printed with the path of one of these, and without
\* one only when its directory was removed.
CwdFollowsStream ==
  /\ status = "walking" => cwd = IF rs THEN pdir ELSE up[pdir]
  /\ \A line \in lines : LET d == up[line[2]]
                         IN line[1] \in {d, up[d]} \/ (line[1] = None /\ d \in gone)

\* Unless it returns NULL the walk has dealt with every entry of what it listed, each one
\* once: no stream on the stack is lost or read again.
Traverses == INSTANCE Traversal WITH Entry <- Node,
               todo <- (UNION {left[d] : d \in Dir}) \ gone,
               listed <- opened,
               outcome <- IF status = "undefined" THEN "null" ELSE status
WalkTraverses == Traverses!Spec

\* A walk comes to its end, whatever is removed or refused meanwhile.
WalkEnds == <>(status # "walking")
=============================================================================
