------------------------------ MODULE FileTree ------------------------------
(***************************************************************************)
(* The part of a file system that the walks of backup/bin/mvdir.c and      *)
(* backup/c.c go through: a tree of directories and files, from which      *)
(* others remove what is empty, and whose permissions they change.  No     *)
(* directory is moved, and nothing is made anew.                           *)
(***************************************************************************)
EXTENDS Naturals, FiniteSets

CONSTANTS Node, Dir,    \* files and directories, and those that are directories
          Root,         \* the directory the walk is called with
          Outside,      \* the working directory at that time
          Trees,        \* functions that give each node its directory
          Namings,      \* functions that give each node its name
          Dotted,       \* the names of at most two characters, the first one a dot
          Limits,       \* how many files a process can have open, besides those it has
          MaxChanges    \* bound on what others remove and refuse

ASSUME NodeAssumption == Dir \subseteq Node /\ Root \in Dir /\ Outside \notin Node
ASSUME TreeAssumption == \A t \in Trees : t \in [Node -> Dir \cup {Outside}] /\ t[Root] = Outside
ASSUME NamingAssumption == \A s \in Namings : DOMAIN s = Node /\ \A n \in Node : s[n] \notin {".", "NULL"}
ASSUME LimitAssumption == Limits \subseteq Nat \ {0} /\ MaxChanges \in Nat

VARIABLES up, name, \* the tree, as it was in the beginning, and the names in it
          fds,      \* how many files the process can have open
          perm,     \* whether a directory may be read ("r") and entered ("x")
          gone      \* removed since

treeVars == <<up, name, fds, perm, gone>>

All == {"r", "x"}

\* A directory has one entry of a name, other directories may have one of the same name.
TreeInit == /\ up \in Trees /\ name \in Namings /\ fds \in Limits
            /\ \A m, n \in Node : up[m] = up[n] /\ name[m] = name[n] => m = n
            /\ perm = [d \in Dir |-> All] /\ gone = {}

Children(d) == {n \in Node \ gone : up[n] = d}

\* chdir and open take names relative to the working directory d, which has to be entered
\* for that.  What the name s stands for is the node of that name in that directory.
Search(d)         == d # Outside => "x" \in perm[d]
Named(d, s, n)    == n \in Node \ gone /\ up[n] = d /\ name[n] = s
CanEnter(d, s, n) == Search(d) /\ ((s = "." /\ n = d) \/ (Named(d, s, n) /\ Search(n)))
CanOpen(d, s, n)  == Search(d) /\ Named(d, s, n) /\ "r" \in perm[n]
Refused(d, s)     == Search(d) => \E n \in Dir : Named(d, s, n) /\ "r" \notin perm[n]

\* The directory above, which a removed one may still lead to.
CanLeave(d)  == d # Outside /\ Search(d) /\ Search(up[d])
CanFail(d)   == ~CanLeave(d) \/ d \in gone

-----------------------------------------------------------------------------
\* What others do is bounded, two refusals counting as much as three removals.
Changes == 2 * Cardinality(gone) + 3 * Cardinality({d \in Dir : perm[d] # All})

Remove == /\ Changes + 2 <= MaxChanges
          /\ \E n \in Node \ (gone \cup {Root}) : Children(n) = {} /\ gone' = gone \cup {n}
          /\ UNCHANGED <<up, name, fds, perm>>

Refuse == /\ Changes + 3 <= MaxChanges
          /\ \E d \in Dir, p \in SUBSET All : /\ perm[d] = All /\ p # All
                                              /\ perm' = [perm EXCEPT ![d] = p]
          /\ UNCHANGED <<up, name, fds, gone>>

Others == Remove \/ Refuse
=============================================================================
