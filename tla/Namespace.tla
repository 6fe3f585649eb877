----------------------------- MODULE Namespace -----------------------------
(***************************************************************************)
(* What simplefs promises about the root directory, with no locks, blocks *)
(* or caches: a set of allocated inode numbers and a directory mapping     *)
(* names to them.  An inode is allocated before a name is linked to it, a  *)
(* name is linked only to an allocated inode no other name holds, and an   *)
(* inode is freed only once no name holds it.  Each step changes one name  *)
(* or one inode.                                                           *)
(***************************************************************************)
EXTENDS Naturals, Functions

CONSTANTS Names,     \* file names
          Inos,      \* inode numbers
          Reserved   \* inode numbers allocated from mount on (the root's)

VARIABLES dir,       \* dir[n] is the inode n names, or 0
          inodes     \* the allocated inode numbers

Linked == Range(dir) \ {0}

Alloc(i) == /\ i \notin inodes
            /\ inodes' = inodes \cup {i}
            /\ UNCHANGED dir

Link(n, i) == /\ dir[n] = 0
              /\ i \in inodes \ (Reserved \cup Linked)
              /\ dir' = [dir EXCEPT ![n] = i]
              /\ UNCHANGED inodes

Unlink(n) == /\ dir[n] # 0
             /\ dir' = [dir EXCEPT ![n] = 0]
             /\ UNCHANGED inodes

Free(i) == /\ i \in inodes \ (Reserved \cup Linked)
           /\ inodes' = inodes \ {i}
           /\ UNCHANGED dir

Init == /\ dir = [n \in Names |-> 0]
        /\ inodes = Reserved

Next == \/ \E i \in Inos : Alloc(i) \/ Free(i)
        \/ \E n \in Names : Unlink(n) \/ \E i \in Inos : Link(n, i)

Spec == Init /\ [][Next]_<<dir, inodes>>

====
