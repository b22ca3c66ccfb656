----------------------------- MODULE MCJournal -----------------------------
EXTENDS Journal, TLC

Load(ring, objs, par, tnx, changes, crashes, writes, ops) ==
    [ring |-> ring, objs |-> objs, par |-> par, tnx |-> tnx, changes |-> changes,
     crashes |-> crashes, writes |-> writes, ops |-> ops]
MCOwner == [x \in Indirect |-> CHOOSE i \in Inodes : TRUE]

(* Two writers of one file, also unlocking early; a ring that wraps, with  *)
(* the freemap, evictions and a crash; operations that fail, an indirect   *)
(* block and a crash during the second mount; a racing walk.               *)
MCLoads ==
    {Load(7, Inodes, 2, 2, 1, 0, 0, {"link"}),
     Load(4, Inodes \cup {Map}, 1, 3, 1, 1, 0, {}),
     Load(4, Inodes \cup {Map}, 1, 2, 1, 1, 1, {}),
     Load(4, Inodes \cup Indirect, 1, 2, 1, 2, 1, {"fail"}),
     Load(5, Inodes, 1, 2, 1, 0, 1, {"compact"})}
LeftoverLoads == {Load(4, Inodes \cup {Map}, 1, 3, 1, 0, 1, {})}
Symmetry == Permutations(Writers)
============================================================================
