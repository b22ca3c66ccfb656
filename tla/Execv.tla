------------------------------- MODULE Execv -------------------------------
(***************************************************************************)
(* sys_execv (kern/syscall/execv.c): the copy buffer, the file, the two    *)
(* address spaces and the kernel heap it handles, with every early return. *)
(* What a call returns (an errno) is not told apart; each call that can    *)
(* fail succeeds or fails.  as_define_stack always returns 0, so the path  *)
(* after its failure is not taken.                                         *)
(***************************************************************************)
EXTENDS CopyBuf, Integers

CONSTANTS AddrSpaces,  \* the address spaces memory has room for
          NoAS,        \* a NULL address space
          MaxArgs      \* bound on the number of arguments

ASSUME ExecvAssumption == /\ NoAS \notin AddrSpaces /\ MaxArgs \in Nat

VARIABLES pc,           \* where each process is in sys_execv
          p_addrspace,  \* the process's address space
          old_as, new_as,
          live,         \* the address spaces created and not destroyed
          opened,       \* the program's vnode is open
          args,         \* length of the list at arg_list_head
          argptrs,      \* argptrs: "none", "NULL" or "block"
          heap          \* blocks this call allocated and has not freed

execvars == <<pc, p_addrspace, old_as, new_as, live, opened, args, argptrs, heap>>
vars == <<cbvars, execvars>>

Init ==
  /\ cb_create
  /\ pc = [p \in Procs |-> "run"]
  /\ p_addrspace \in [Procs -> AddrSpaces]
  /\ \A p, q \in Procs : p_addrspace[p] = p_addrspace[q] => p = q
  /\ live = {p_addrspace[p] : p \in Procs}
  /\ old_as = [p \in Procs |-> NoAS] /\ new_as = [p \in Procs |-> NoAS]
  /\ opened = [p \in Procs |-> FALSE]
  /\ args = [p \in Procs |-> 0]
  /\ argptrs = [p \in Procs |-> "none"]
  /\ heap = [p \in Procs |-> 0]

Goto(p, l) == pc' = [pc EXCEPT ![p] = l]
proc_setas(p, as) == p_addrspace' = [p_addrspace EXCEPT ![p] = as]
vfs_close(p) == opened' = [opened EXCEPT ![p] = FALSE]

\* free_nodes(arg_list_head) after blocks more were allocated.
free_nodes(p, blocks) ==
  /\ heap' = [heap EXCEPT ![p] = @ + blocks - args[p]]
  /\ args' = [args EXCEPT ![p] = 0]

sys_execv(p) ==
  /\ pc[p] = "run"
  /\ cb_acquire(p)
  /\ Goto(p, "name")
  /\ UNCHANGED <<p_addrspace, old_as, new_as, live, opened, args, argptrs, heap>>

\* A step of cb_acquire or cb_release.
cb_step(p) == CbStep(p) /\ UNCHANGED execvars

\* No program name, a bad one, or no such file.
name_error(p) ==
  /\ pc[p] = "name" /\ cb_release(p)
  /\ Goto(p, "error")
  /\ UNCHANGED <<p_addrspace, old_as, new_as, live, opened, args, argptrs, heap>>

vfs_open(p) ==
  /\ pc[p] = "name" /\ Outside(p)
  /\ opened' = [opened EXCEPT ![p] = TRUE]
  /\ Goto(p, "args")
  /\ UNCHANGED <<cbvars, p_addrspace, old_as, new_as, live, args, argptrs, heap>>

arg_node(p) ==
  /\ pc[p] = "args" /\ args[p] < MaxArgs
  /\ args' = [args EXCEPT ![p] = @ + 1]
  /\ heap' = [heap EXCEPT ![p] = @ + 1]
  /\ UNCHANGED <<cbvars, pc, p_addrspace, old_as, new_as, live, opened, argptrs>>

\* kmalloc fails, or copyin fails with new_node allocated and not on the list;
\* as_create fails.
args_error(p) ==
  /\ pc[p] = "args" /\ cb_release(p)
  /\ vfs_close(p)
  /\ \E blocks \in {0, 1} : free_nodes(p, blocks)
  /\ Goto(p, "error")
  /\ UNCHANGED <<p_addrspace, old_as, new_as, live, argptrs>>

as_create(p) ==
  /\ pc[p] = "args"
  /\ \E as \in AddrSpaces \ live :
       /\ live' = live \cup {as}
       /\ new_as' = [new_as EXCEPT ![p] = as]
       /\ proc_setas(p, as)
  /\ old_as' = [old_as EXCEPT ![p] = p_addrspace[p]]
  /\ Goto(p, "load")
  /\ UNCHANGED <<cbvars, opened, args, argptrs, heap>>

\* Mutant: the old address space is not put back.
load_elf_error_StaysInNew(p) ==
  /\ pc[p] = "load" /\ cb_release(p)
  /\ vfs_close(p)
  /\ free_nodes(p, 0)
  /\ Goto(p, "error")
  /\ UNCHANGED <<p_addrspace, old_as, new_as, live, argptrs>>

\* Mutant: returns with the copy buffer.
load_elf_error_KeepsBuffer(p) ==
  /\ pc[p] = "load"
  /\ vfs_close(p)
  /\ proc_setas(p, old_as[p])
  /\ free_nodes(p, 0)
  /\ Goto(p, "error")
  /\ UNCHANGED <<cbvars, old_as, new_as, live, argptrs>>

load_elf_error(p) ==
  /\ pc[p] = "load" /\ cb_release(p)
  /\ vfs_close(p)
  /\ proc_setas(p, old_as[p])
  /\ free_nodes(p, 0)
  /\ Goto(p, "error")
  /\ UNCHANGED <<old_as, new_as, live, argptrs>>

\* The program is loaded; argptrs is allocated, which is not checked.
load_elf(p) ==
  /\ pc[p] = "load"
  /\ vfs_close(p)
  /\ \E r \in {"NULL", "block"} :
       /\ argptrs' = [argptrs EXCEPT ![p] = r]
       /\ heap' = [heap EXCEPT ![p] = @ + (IF r = "block" THEN 1 ELSE 0)]
  /\ proc_setas(p, old_as[p])
  /\ Goto(p, "in")
  /\ UNCHANGED <<cbvars, old_as, new_as, live, args>>

\* Mutant: frees the argument's node once more.
copyinstr_error_FreesTwice(p) ==
  /\ pc[p] = "in" /\ args[p] > 0 /\ cb_release(p)
  /\ live' = live \ {new_as[p]}
  /\ free_nodes(p, -1)
  /\ Goto(p, "error")
  /\ UNCHANGED <<p_addrspace, old_as, new_as, opened, argptrs>>

\* copyinstr of an argument fails, or all of them are longer than ARG_MAX: by
\* then the argument's node is freed, with no difference for what is left.
copyinstr_error(p) ==
  /\ pc[p] = "in" /\ args[p] > 0 /\ cb_release(p)
  /\ live' = live \ {new_as[p]}
  /\ free_nodes(p, 0)
  /\ Goto(p, "error")
  /\ UNCHANGED <<p_addrspace, old_as, new_as, opened, argptrs>>

copyinstr(p) ==
  /\ pc[p] = "in" /\ args[p] > 0
  /\ args' = [args EXCEPT ![p] = @ - 1]
  /\ heap' = [heap EXCEPT ![p] = @ - 1]
  /\ proc_setas(p, new_as[p])
  /\ Goto(p, "out")
  /\ UNCHANGED <<cbvars, old_as, new_as, live, opened, argptrs>>

\* Mutant: the new address space is destroyed while it is the process's.
copyoutstr_error_Destroyed(p) ==
  /\ pc[p] = "out" /\ cb_release(p)
  /\ live' = live \ {new_as[p]}
  /\ free_nodes(p, 0)
  /\ Goto(p, "error")
  /\ UNCHANGED <<p_addrspace, old_as, new_as, opened, argptrs>>

copyoutstr_error(p) ==
  /\ pc[p] = "out" /\ cb_release(p)
  /\ proc_setas(p, old_as[p])
  /\ live' = live \ {new_as[p]}
  /\ free_nodes(p, 0)
  /\ Goto(p, "error")
  /\ UNCHANGED <<old_as, new_as, opened, argptrs>>

\* The argument is in the new address space, and its address goes to
\* argptrs[i]: with argptrs NULL the kernel takes a fault (no program maps
\* page 0).
copyoutstr(p) ==
  /\ pc[p] = "out"
  /\ proc_setas(p, old_as[p])
  /\ Goto(p, IF argptrs[p] = "NULL" THEN "fault" ELSE "in")
  /\ UNCHANGED <<cbvars, old_as, new_as, live, opened, args, argptrs, heap>>

args_done(p) ==
  /\ pc[p] = "in" /\ args[p] = 0 /\ cb_release(p)
  /\ Goto(p, "done")
  /\ UNCHANGED <<p_addrspace, old_as, new_as, live, opened, args, argptrs, heap>>

\* cb_release has returned: switch to the new address space.
to_new_as(p) ==
  /\ pc[p] = "done" /\ Outside(p)
  /\ proc_setas(p, new_as[p])
  /\ Goto(p, "argv")
  /\ UNCHANGED <<cbvars, old_as, new_as, live, opened, args, argptrs, heap>>

free_argptrs(p) == heap' = [heap EXCEPT ![p] = @ - (IF argptrs[p] = "block" THEN 1 ELSE 0)]

\* Mutant: releases the copy buffer, which args_done has released.
copyout_error_ReleasesAgain(p) ==
  /\ pc[p] = "argv" /\ cb_release(p)
  /\ proc_setas(p, old_as[p])
  /\ live' = live \ {new_as[p]}
  /\ free_argptrs(p)
  /\ Goto(p, "error")
  /\ UNCHANGED <<old_as, new_as, opened, args, argptrs>>

copyout_error(p) ==
  /\ pc[p] = "argv"
  /\ proc_setas(p, old_as[p])
  /\ live' = live \ {new_as[p]}
  /\ free_argptrs(p)
  /\ Goto(p, "error")
  /\ UNCHANGED <<cbvars, old_as, new_as, opened, args, argptrs>>

\* Mutant: argptrs is not freed.
enter_new_process_KeepsBlock(p) ==
  /\ pc[p] = "argv"
  /\ live' = live \ {old_as[p]}
  /\ Goto(p, "entered")
  /\ UNCHANGED <<cbvars, p_addrspace, old_as, new_as, opened, args, argptrs, heap>>

\* argv is written; the old address space is destroyed.
enter_new_process(p) ==
  /\ pc[p] = "argv"
  /\ free_argptrs(p)
  /\ live' = live \ {old_as[p]}
  /\ Goto(p, "entered")
  /\ UNCHANGED <<cbvars, p_addrspace, old_as, new_as, opened, args, argptrs>>

\* Back in user mode: of the new program, or of the old one after an error.
\* The call's local variables are gone.
return_to_user(p) ==
  /\ pc[p] = "entered" \/ (pc[p] = "error" /\ Outside(p))
  /\ Goto(p, "run")
  /\ old_as' = [old_as EXCEPT ![p] = NoAS]
  /\ new_as' = [new_as EXCEPT ![p] = NoAS]
  /\ argptrs' = [argptrs EXCEPT ![p] = "none"]
  /\ heap' = [heap EXCEPT ![p] = 0]
  /\ UNCHANGED <<cbvars, p_addrspace, live, opened, args>>

Step(p) == \/ cb_step(p) \/ name_error(p) \/ vfs_open(p) \/ arg_node(p) \/ args_error(p)
           \/ as_create(p) \/ load_elf_error(p) \/ load_elf(p)
           \/ copyinstr_error(p) \/ copyinstr(p) \/ copyoutstr_error(p) \/ copyoutstr(p)
           \/ args_done(p) \/ to_new_as(p) \/ copyout_error(p) \/ enter_new_process(p)
           \/ return_to_user(p)

\* The kernel has stopped at a fault in kernel mode.
Halted == \E p \in Procs : pc[p] = "fault"

Next == ~Halted /\ \E p \in Procs : sys_execv(p) \/ Step(p)

Spec == Init /\ [][Next]_vars

\* A process inside sys_execv keeps being scheduled.
FairSpec == Spec /\ \A p \in Procs : WF_vars(~Halted /\ Step(p))
-----------------------------------------------------------------------------
(* Properties *)

\* Type invariant.
TypeOK ==
  /\ CbTypeOK
  /\ pc \in [Procs -> {"run", "name", "args", "load", "in", "out", "done", "argv",
                       "entered", "error", "fault"}]
  /\ p_addrspace \in [Procs -> AddrSpaces]
  /\ old_as \in [Procs -> AddrSpaces \cup {NoAS}]
  /\ new_as \in [Procs -> AddrSpaces \cup {NoAS}]
  /\ live \subseteq AddrSpaces
  /\ opened \in [Procs -> BOOLEAN]
  /\ args \in [Procs -> 0..MaxArgs]
  /\ argptrs \in [Procs -> {"none", "NULL", "block"}]
  /\ heap \in [Procs -> 0..(MaxArgs + 1)]

\* On every path sys_execv keeps the protocol of the copy buffers: it acquires
\* one, has it when it releases it, and does not release it twice.
UsesCopyBuf == CbSpec

\* A process in user mode has no copy buffer and no open program file.
NothingHeldInUser ==
  \A p \in Procs : pc[p] = "run" => cb_pc[p] = "out" /\ ~opened[p]

\* The address space a process runs on is never one that was destroyed, nor
\* another process's.
RunsOnOwnSpace ==
  /\ \A p \in Procs : p_addrspace[p] \in live
  /\ \A p, q \in Procs : p_addrspace[p] = p_addrspace[q] => p = q

\* A call that fails leaves the process on the address space it came with, and
\* one that succeeds on the new one.
SpaceAfterCall ==
  \A p \in Procs :
    /\ pc[p] = "error" => old_as[p] \in {NoAS, p_addrspace[p]}
    /\ pc[p] = "entered" => p_addrspace[p] = new_as[p]

\* A call that succeeds has freed all the kernel memory it allocated.
SuccessFreesAll == \A p \in Procs : pc[p] = "entered" => heap[p] = 0 /\ args[p] = 0

\* "p_addrspace will go away when curproc is destroyed", says the return after
\* load_elf fails: every address space is some process's, or one that a call
\* under way still has to destroy or to switch to.
NewSpaceGoesAway ==
  \A as \in live : \E p \in Procs :
    \/ p_addrspace[p] = as
    \/ pc[p] \in {"load", "in", "out", "done", "argv"} /\ as \in {old_as[p], new_as[p]}

\* The address spaces only p knows of: the one it runs on and, in the middle of
\* a call, the one it came with and the one it is about to enter.
InCall(p) == pc[p] \in {"load", "in", "out", "done", "argv", "fault"}
Spaces(p) == {p_addrspace[p]} \cup (IF InCall(p) THEN {old_as[p], new_as[p]} ELSE {})

\* What p holds at each place of sys_execv: the buffer, the file, and of the
\* two address spaces the one that is current.
HoldsByPlace(p) ==
  /\ pc[p] = "run" => cb_pc[p] = "out"
  /\ pc[p] = "name" => cb_pc[p] \in {"P", "choose", "held"}
  /\ pc[p] \in {"args", "load", "in", "out", "fault"} => cb_pc[p] = "held"
  /\ pc[p] \in {"done", "error"} => cb_pc[p] \in {"clear", "V", "out"}
  /\ pc[p] \in {"argv", "entered"} => cb_pc[p] = "out"
  /\ opened[p] <=> pc[p] \in {"args", "load"}
  /\ pc[p] \in {"run", "name", "args"} => old_as[p] = NoAS /\ new_as[p] = NoAS
  /\ InCall(p) => old_as[p] # NoAS /\ new_as[p] # NoAS /\ old_as[p] # new_as[p]
  /\ pc[p] \in {"load", "out", "argv", "entered"} => p_addrspace[p] = new_as[p]
  /\ pc[p] \in {"in", "done", "fault"} => p_addrspace[p] = old_as[p]
  /\ pc[p] = "error" => old_as[p] \in {NoAS, p_addrspace[p]}

\* The kernel memory p's call has: the list of arguments, and argptrs.
Blocks(p) == args[p] + (IF argptrs[p] = "block" THEN 1 ELSE 0)
HeapByPlace(p) ==
  /\ pc[p] \notin {"args", "load", "in", "out", "fault"} => args[p] = 0
  /\ pc[p] \in {"run", "name", "args", "load"} => argptrs[p] = "none"
  /\ pc[p] \notin {"entered", "error"} => heap[p] = Blocks(p)
  /\ pc[p] = "entered" => heap[p] = 0
  /\ pc[p] = "error" => heap[p] \in {0, 1}

\* The inductive invariant: every address space that a process knows of is
\* there, and no other process knows of it.
IndInv ==
  /\ TypeOK
  /\ \A p \in Procs : HoldsByPlace(p) /\ HeapByPlace(p) /\ Spaces(p) \subseteq live
  /\ \A p, q \in Procs : Spaces(p) \cap Spaces(q) # {} => p = q

\* While processes wait for a copy buffer, one of them gets one, however the
\* calls that have the buffers end; unless the kernel faulted.
BufferHandedOn ==
  (\E p \in Procs : cb_pc[p] = "P") ~>
    (\E p \in Procs : cb_pc[p] = "choose") \/ Halted
=============================================================================
