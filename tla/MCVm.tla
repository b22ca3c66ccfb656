-------------------------------- MODULE MCVm --------------------------------
(* The machines TLC looks at.  Each is small, and together they meet: a fork  *)
(* and a shrinking heap whose pages the kernel evicts or the paging daemon    *)
(* writes out at any moment; a swap disk that fills up; two cpus whose threads *)
(* migrate while pages are written out, forked and unmapped.                  *)
EXTENDS Vm

Machine(n, blocks, h, work) ==
    [ncpus |-> n, kernel |-> 1, swap |-> blocks, heap |-> h, ops |-> work]

MCLoads == {Machine(1, 4, 0, {"fork", "kthread"}),
            Machine(1, 2, 0, {"fork", "kthread"}),
            Machine(1, 4, 0, {"fork", "daemon"}),
            Machine(1, 4, 0, {"sbrk", "kthread"}),
            Machine(1, 4, 0, {"sbrk", "daemon"}),
            Machine(2, 4, 0, {"daemon", "kthread"}),
            Machine(2, 4, 0, {"fork"}),
            Machine(2, 4, 1, {"sbrk"})}

\* Two cpus, and a kernel thread that takes a page from a running process.
RaceLoads == {Machine(2, 4, 1, {"kthread"})}
=============================================================================
