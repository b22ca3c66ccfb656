------------------------------- MODULE MCSched -------------------------------
(* Instances of Sched for TLC.                                             *)
EXTENDS Sched, TLC

CONSTANTS t1, t2, t3, t4

MCBoot == (1 :> t1) @@ (2 :> t2)

\* A thread is forked, and sleepers, wakers and evictions meet; or two threads are ready
\* behind each other, and migrate while one exits and the other processor falls idle.
MCLoads == {[ready |-> <<>>, new |-> {t3},
             calls |-> t1 :> <<{"fork"}, {"sleep"}>> @@ t2 :> <<{"wake", "evict"}>>
                       @@ t3 :> <<{"sleep", "exit", "evict"}>> @@ t4 :> <<>>],
            [ready |-> <<t3, t4>>, new |-> {},
             calls |-> t1 :> <<>> @@ t2 :> <<{"exit", "evict"}>> @@ t3 :> <<{"exit"}>> @@ t4 :> <<>>]}
==============================================================================
