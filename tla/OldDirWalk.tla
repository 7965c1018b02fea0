----------------------------- MODULE OldDirWalk -----------------------------
(***************************************************************************)
(* mvprog_rdpath of backup/c.c, which DirWalk's came after: it goes into a *)
(* directory before it opens one of that, never goes up, and after the     *)
(* first end of a stream takes the path that mvprog_getcwd returns for the *)
(* directory whose stream it goes on with.  So it may open a directory     *)
(* that only has the name of the one it looks for, and one twice: streams  *)
(* have numbers, in the order they were opened.                            *)
(***************************************************************************)
EXTENDS FileTree, Integers, Sequences

CONSTANTS MVPROG_BKSZ,  \* entries of the stack, 1024 in the code
          BufSz,        \* size of the buffer for a path, 1024 in the code
          PwdSizes      \* lengths of $PWD, 0 when it is unset or empty

VARIABLES streams,        \* of each stream, its directory and what it has not delivered
          pdir, bkfd,     \* the numbers of the one that is read, and of those on the stack
          rddir_stat,     \* the depth of the stack, or Wrapped
          prog_stat,
          dir, path,      \* a name, or a path when it came from mvprog_getcwd; or NULL
          cwd,
          mem, bufsz,     \* the buffer was obtained, and what is known of its size
          pwd,            \* the length of $PWD, which names Outside
          dropped,        \* the streams that a refusal took from the stack
          refused,        \* the directories that were refused
          status          \* "walking", "done", "null", or "undefined"

vars == <<streams, pdir, bkfd, rddir_stat, prog_stat, dir, path, cwd,
          mem, bufsz, pwd, dropped, refused, status>>

NULL    == "NULL"
Wrapped == -1
HasFd   == Len(streams) < fds

-----------------------------------------------------------------------------
Init == /\ streams = <<[at |-> Root, left |-> Children(Root)]>> /\ pdir = 1
        /\ dir = name[Root] /\ path = FALSE /\ cwd = Outside
        /\ bkfd = [i \in 0 .. MVPROG_BKSZ - 1 |-> 0] /\ rddir_stat = 0 /\ prog_stat = 1
        /\ mem \in BOOLEAN /\ bufsz = BufSz /\ pwd \in PwdSizes
        /\ dropped = {} /\ refused = {}
        /\ status = "walking"

\* A path is found from the root of the file system down.
Reachable[d \in Dir \cup {Outside}] ==
  d # Outside => d \notin gone /\ Search(d) /\ Reachable[up[d]]

\* mvprog_getcwd: $PWD, as the program was given it, or else the working directory's path.
\* A buffer that $PWD fits into is not what it is copied to: that pointer was never set.
Found(d, size) == dir' = d /\ path' = TRUE /\ bufsz' = size /\ UNCHANGED status
NoMemory       == dir' = NULL /\ path' = FALSE /\ UNCHANGED <<bufsz, status>>
mvprog_getcwd ==
  \/ pwd > 0 /\ mem /\ pwd <= bufsz /\ status' = "undefined" /\ UNCHANGED <<dir, path, bufsz>>
  \/ pwd > 0 /\ (~mem \/ pwd > bufsz) /\ (Found(Outside, pwd) \/ NoMemory)
  \/ pwd = 0 /\ cwd \notin gone /\ Found(cwd, bufsz)
  \/ pwd = 0 /\ (~mem \/ cwd \in gone) /\ NoMemory

\* The streams when of the one that is read the entries l are left.
With(l)  == [streams EXCEPT ![pdir] = [at |-> streams[pdir].at, left |-> l]]

AtEnd    == streams[pdir].left \subseteq gone
Finished == streams' = With({})

Return == /\ AtEnd /\ rddir_stat = 0
          /\ status' = "done" /\ Finished
          /\ UNCHANGED <<pdir, bkfd, rddir_stat, prog_stat, dir, path, cwd, bufsz, dropped, refused>>

\* A mutant: the streams are popped two at a time.
PoppedTwo == IF rddir_stat > 1 THEN rddir_stat - 2 ELSE 0
Popped == rddir_stat - 1

EndOfDir == /\ AtEnd /\ rddir_stat > 0
            /\ Finished
            /\ pdir' = bkfd[Popped] /\ rddir_stat' = Popped
            /\ \/ /\ prog_stat > 0
                  /\ prog_stat' = prog_stat - 1 /\ dir' = "." /\ path' = FALSE
                  /\ UNCHANGED <<bufsz, status>>
               \/ prog_stat = 0 /\ mvprog_getcwd /\ UNCHANGED prog_stat
            /\ UNCHANGED <<bkfd, cwd, dropped, refused>>

\* What lies behind the stack is taken for a stream.
Underflow == /\ AtEnd /\ rddir_stat = Wrapped
             /\ status' = "undefined" /\ Finished
             /\ UNCHANGED <<pdir, bkfd, rddir_stat, prog_stat, dir, path, cwd, bufsz, dropped, refused>>

Delivered(n) == With(streams[pdir].left \ {n})

\* An entry with a dotted name, or a file, which is printed by its name only.
Pass(n) == /\ name[n] \in Dotted \/ n \notin Dir
           /\ streams' = Delivered(n)
           /\ UNCHANGED <<pdir, bkfd, rddir_stat, dir, path, cwd, dropped, refused, status>>

Place   == Dir \cup {Outside}
Goes(h) == IF path THEN h = dir /\ Reachable[h] ELSE dir # NULL /\ CanEnter(cwd, dir, h)

Lost(n) == /\ n \in Dir /\ name[n] \notin Dotted
           /\ \A h \in Place : ~Goes(h)
           /\ status' = "null" /\ streams' = Delivered(n)
           /\ UNCHANGED <<pdir, bkfd, rddir_stat, dir, path, cwd, dropped, refused>>

Overflow(n) == /\ n \in Dir /\ name[n] \notin Dotted
               /\ \E h \in Place : Goes(h) /\ cwd' = h
               /\ rddir_stat \notin DOMAIN bkfd
               /\ status' = "undefined" /\ streams' = Delivered(n)
               /\ UNCHANGED <<pdir, bkfd, rddir_stat, dir, path, dropped, refused>>

Push(n) == /\ n \in Dir /\ name[n] \notin Dotted
           /\ rddir_stat \in DOMAIN bkfd
           /\ bkfd' = [bkfd EXCEPT ![rddir_stat] = pdir]

\* What is opened is what has the entry's name in the working directory.
Open(n) == /\ Push(n) /\ HasFd
           /\ \E h \in Place, m \in Dir :
                /\ Goes(h) /\ cwd' = h /\ CanOpen(h, name[n], m)
                /\ streams' = Append(Delivered(n), [at |-> m, left |-> Children(m)])
           /\ pdir' = Len(streams) + 1 /\ rddir_stat' = rddir_stat + 1
           /\ dir' = name[n] /\ path' = FALSE
           /\ UNCHANGED <<dropped, refused, status>>

\* After a refusal the walk goes to where a pointer points that was never set, which is no
\* path, or some, and goes on with the stream that it read, and one less on the stack.
Refusal(n) == /\ Push(n) /\ HasFd
              /\ \E h \in Place : /\ Goes(h) /\ Refused(h, name[n])
                                  /\ \E k \in Place : (k = h \/ Reachable[k]) /\ cwd' = k
              /\ streams' = Delivered(n)
              /\ rddir_stat' = IF rddir_stat = 0 THEN Wrapped ELSE rddir_stat - 1
              /\ dropped' = dropped \cup (IF rddir_stat > 0 THEN {bkfd[rddir_stat - 1]} ELSE {})
              /\ refused' = refused \cup {n}
              /\ UNCHANGED <<pdir, dir, path, status>>

GivesUp(n) == /\ Push(n)
              /\ \E h \in Place :
                   /\ Goes(h) /\ cwd' = h
                   /\ HasFd => ~Refused(h, name[n]) /\ \A m \in Dir : ~CanOpen(h, name[n], m)
              /\ status' = "null" /\ streams' = Delivered(n)
              /\ UNCHANGED <<pdir, rddir_stat, dir, path, dropped, refused>>

Readdir(n) == /\ n \in streams[pdir].left
              /\ (Pass(n) \/ Lost(n) \/ Overflow(n) \/ Open(n) \/ Refusal(n) \/ GivesUp(n))
              /\ UNCHANGED <<prog_stat, bufsz>>

Walk == /\ status = "walking"
        /\ (Return \/ EndOfDir \/ Underflow \/ \E n \in Node : Readdir(n))
        /\ UNCHANGED <<mem, pwd, treeVars>>

Next == Walk \/ (status = "walking" /\ Others /\ UNCHANGED vars)

Spec == TreeInit /\ Init /\ [][Next]_<<treeVars, vars>>

-----------------------------------------------------------------------------
\* No two directories of the tree have one name.
OneNameEach == \A m, n \in Dir : name[m] = name[n] => m = n

\* A walk that ends without NULL has read each of its streams to the end, except those that
\* a refusal took from the stack.  Only where no two directories have one name are these
\* streams what a walk should read: no directory is listed twice, and of what was read to
\* the end each directory that is still there was listed, or refused.
OldWalkAccounts ==
  /\ status = "done" => \A i \in DOMAIN streams : streams[i].left = {} \/ i \in dropped
  /\ OneNameEach =>
       /\ \A i, j \in DOMAIN streams : streams[i].at = streams[j].at => i = j
       /\ status = "done" =>
            \A i \in DOMAIN streams \ dropped, n \in Dir \ (gone \cup refused) :
              up[n] = streams[i].at /\ name[n] \notin Dotted =>
                \E j \in DOMAIN streams : streams[j].at = n
=============================================================================
