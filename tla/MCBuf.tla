------------------------------- MODULE MCBuf -------------------------------
EXTENDS Buf, TLC

Load(max, reserve, ops) == [max |-> max, reserve |-> reserve, ops |-> ops]
MCLoads ==
    {Load(2, 1, ops) : ops \in {
        {"sync", "invalidate", "syncer"}, {"syncer", "help", "flush"},
        {"sync", "umount"}, {"sync", "drop", "eio"}, {"nomem", "syncer", "eio"}}}
    \cup {Load(2, 2, {"drop", "sync", "syncer"}), Load(3, 1, {"drop", "sync"})}
InvalidateLoads == {Load(2, 1, {"sync", "invalidate"})}

Symmetry == Permutations(Clients) \cup Permutations(Blocks)
=============================================================================
