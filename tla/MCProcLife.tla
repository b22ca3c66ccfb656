----------------------------- MODULE MCProcLife -----------------------------
(***************************************************************************)
(* ProcLife and PidTable for TLC.  A behaviour is one of fork, exit and    *)
(* waitpid with few pids, or one of pids alone that goes through several   *)
(* wrap-arounds of the counter; t_procs and t_recent are its table.        *)
(***************************************************************************)
EXTENDS ProcLife

VARIABLES part, t_procs, t_recent

\* 15 is PROC_MAX - 1 modulo PROC_MAX, as 32767 is modulo 128.
T == INSTANCE PidTable WITH PID_MAX <- 15, pt_procs <- t_procs, pt_most_recent_pid <- t_recent

MCInit ==
    /\ part \in {"life", "pids"}
    /\ Init
    /\ T!Init

MCNext ==
    /\ UNCHANGED part
    /\ \/ part = "life" /\ Next /\ UNCHANGED <<t_procs, t_recent>>
       \/ part = "pids" /\ T!Next /\ UNCHANGED vars

MCSpec == MCInit /\ [][MCNext]_<<part, vars, t_procs, t_recent>>

\* The property of the second part, stated and explained in PidTable
FreshPid == T!FreshPid
=============================================================================
