---------------------------- MODULE ExecvProofs ----------------------------
(***************************************************************************)
(* Proofs about modules CopyBuf and Execv, for any finite set of           *)
(* processes, any number of copy buffers and address spaces and any bound  *)
(* on the arguments.                                                       *)
(***************************************************************************)
EXTENDS Execv, FiniteSetTheorems, TLAPS

-----------------------------------------------------------------------------
(* The pool of copy buffers by itself (module CopyBuf) *)

\* The processes in transit and the free buffers can be counted.
LEMMA CountsFinite ==
  /\ IsFiniteSet(InTransit) /\ IsFiniteSet(Free)
  /\ Cardinality(InTransit) \in Nat /\ Cardinality(Free) \in Nat
<1>1. InTransit \in SUBSET Procs /\ Free \in SUBSET Slots
  BY DEF InTransit, Free
<1>2. IsFiniteSet(Slots)
  BY FS_Interval, CopyBufAssumption DEF Slots
<1>3. IsFiniteSet(InTransit) /\ IsFiniteSet(Free)
  BY <1>1, <1>2, FS_Subset, CopyBufAssumption
<1>4. QED
  BY <1>3, FS_CardinalityType

\* The pool cb_create makes satisfies the invariant: all buffers are free and
\* counted by the semaphore.
LEMMA CreateInv == cb_create => CbInv
<1> SUFFICES ASSUME cb_create PROVE CbInv
  OBVIOUS
<1>1. CbTypeOK /\ OneBufferEach
  BY CopyBufAssumption DEF cb_create, CbTypeOK, OneBufferEach
<1>2. InTransit = {} /\ Free = Slots
  BY DEF cb_create, InTransit, Free
<1>3. Cardinality(Slots) = CPY_BUF_MAX
  BY FS_Interval, CopyBufAssumption DEF Slots
<1>4. QED
  BY <1>1, <1>2, <1>3, FS_EmptySet, CopyBufAssumption DEF cb_create, CbInv, UnitsAreBuffers

\* Calling cb_acquire or cb_release disturbs nothing.
LEMMA CallInv ==
  ASSUME CbInv, NEW p \in Procs,
         \/ cb_pc[p] = "out" /\ cb_acquire(p)
         \/ cb_pc[p] = "held" /\ cb_release(p)
  PROVE  CbInv'
<1>1. CbTypeOK' /\ OneBufferEach'
  BY DEF CbInv, CbTypeOK, OneBufferEach, cb_acquire, cb_release, CbGoto
<1>2. InTransit' = InTransit /\ Free' = Free /\ cb_sem' = cb_sem
  BY DEF CbInv, CbTypeOK, cb_acquire, cb_release, CbGoto, InTransit, Free
<1>3. QED
  BY <1>1, <1>2 DEF CbInv, UnitsAreBuffers

\* P and V of cb_sem: a unit moves between the count and the process.
LEMMA SemInv ==
  ASSUME CbInv, NEW p \in Procs, cb_acquire_P(p) \/ cb_release_V(p)
  PROVE  CbInv'
<1>1. CbTypeOK' /\ OneBufferEach'
  BY DEF CbInv, CbTypeOK, OneBufferEach, cb_acquire_P, cb_release_V, CbGoto
<1>2. Free' = Free
  BY DEF cb_acquire_P, cb_release_V, Free
<1>3. CASE cb_acquire_P(p)
  <2>1. p \notin InTransit /\ InTransit' = InTransit \cup {p}
    BY <1>3 DEF CbInv, CbTypeOK, cb_acquire_P, CbGoto, InTransit
  <2>2. Cardinality(InTransit') = Cardinality(InTransit) + 1
    BY Zenon, <2>1, CountsFinite, FS_AddElement
  <2>3. QED
    BY <1>1, <1>2, <1>3, <2>2, CountsFinite
       DEF CbInv, CbTypeOK, UnitsAreBuffers, cb_acquire_P
<1>4. CASE cb_release_V(p)
  <2>1. p \in InTransit /\ InTransit' = InTransit \ {p}
    BY <1>4 DEF CbInv, CbTypeOK, cb_release_V, CbGoto, InTransit
  <2>2. Cardinality(InTransit') = Cardinality(InTransit) - 1
    BY Zenon, <2>1, CountsFinite, FS_RemoveElement
  <2>3. QED
    BY <1>1, <1>2, <1>4, <2>2, CountsFinite
       DEF CbInv, CbTypeOK, UnitsAreBuffers, cb_release_V
<1>5. QED
  BY <1>3, <1>4

\* Choosing a buffer: the process leaves transit and the buffer stops being
\* free.
LEMMA ChooseInv ==
  ASSUME CbInv, NEW p \in Procs, cb_acquire_choose(p)
  PROVE  CbInv'
<1>1. PICK i \in Slots : /\ cb_alloc[i] = NoProc
                         /\ cb_alloc' = [cb_alloc EXCEPT ![i] = p]
  BY Zenon DEF cb_acquire_choose
<1>2. /\ cb_pc' = [cb_pc EXCEPT ![p] = "held"] /\ cb_pc[p] = "choose"
      /\ cb_sem' = cb_sem
  BY DEF cb_acquire_choose, CbGoto
<1>3. CbTypeOK'
  BY <1>1, <1>2 DEF CbInv, CbTypeOK
<1>4. OneBufferEach'
  <2>1. \A j \in Slots : cb_alloc'[j] = p <=> j = i
    BY <1>1, <1>2 DEF CbInv, CbTypeOK, OneBufferEach
  <2>2. \A q \in Procs \ {p} : \A j \in Slots : cb_alloc'[j] = q <=> cb_alloc[j] = q
    BY <1>1, CopyBufAssumption DEF CbInv, CbTypeOK
  <2>3. \A q \in Procs \ {p} : cb_pc'[q] = cb_pc[q]
    BY <1>2 DEF CbInv, CbTypeOK
  <2>4. cb_pc'[p] = "held"
    BY <1>2 DEF CbInv, CbTypeOK
  <2>5. QED
    BY <2>1, <2>2, <2>3, <2>4 DEF CbInv, OneBufferEach
<1>5. p \in InTransit /\ InTransit' = InTransit \ {p}
  BY <1>2 DEF CbInv, CbTypeOK, InTransit
<1>6. i \in Free /\ Free' = Free \ {i}
  BY <1>1, CopyBufAssumption DEF CbInv, CbTypeOK, Free
<1>7. /\ Cardinality(InTransit') = Cardinality(InTransit) - 1
      /\ Cardinality(Free') = Cardinality(Free) - 1
  BY Zenon, <1>5, <1>6, CountsFinite, FS_RemoveElement
<1>8. QED
  BY <1>2, <1>3, <1>4, <1>7, CountsFinite DEF CbInv, CbTypeOK, UnitsAreBuffers

\* Giving a buffer back: the buffer is free and the process in transit.
LEMMA ClearInv ==
  ASSUME CbInv, NEW p \in Procs, cb_release_clear(p)
  PROVE  CbInv'
<1>1. PICK i \in Slots : /\ cb_alloc[i] = p
                         /\ cb_alloc' = [cb_alloc EXCEPT ![i] = NoProc]
  BY Zenon DEF cb_release_clear
<1>2. /\ cb_pc' = [cb_pc EXCEPT ![p] = "V"] /\ cb_pc[p] = "clear"
      /\ cb_sem' = cb_sem
  BY DEF cb_release_clear, CbGoto
<1>3. CbTypeOK'
  BY <1>1, <1>2 DEF CbInv, CbTypeOK
<1>4. OneBufferEach'
  <2>0. PICK k \in Slots : \A j \in Slots : cb_alloc[j] = p <=> j = k
    BY <1>2 DEF CbInv, OneBufferEach
  <2>1. \A j \in Slots : cb_alloc'[j] # p
    BY <1>1, <2>0, CopyBufAssumption DEF CbInv, CbTypeOK
  <2>2. \A q \in Procs \ {p} : \A j \in Slots : cb_alloc'[j] = q <=> cb_alloc[j] = q
    BY <1>1, CopyBufAssumption DEF CbInv, CbTypeOK
  <2>3. \A q \in Procs \ {p} : cb_pc'[q] = cb_pc[q]
    BY <1>2 DEF CbInv, CbTypeOK
  <2>4. cb_pc'[p] = "V"
    BY <1>2 DEF CbInv, CbTypeOK
  <2>5. QED
    BY <2>1, <2>2, <2>3, <2>4 DEF CbInv, OneBufferEach
<1>5. p \notin InTransit /\ InTransit' = InTransit \cup {p}
  BY <1>2 DEF CbInv, CbTypeOK, InTransit
<1>6. i \notin Free /\ Free' = Free \cup {i}
  BY <1>1, CopyBufAssumption DEF CbInv, CbTypeOK, Free
<1>7. /\ Cardinality(InTransit') = Cardinality(InTransit) + 1
      /\ Cardinality(Free') = Cardinality(Free) + 1
  BY Zenon, <1>5, <1>6, CountsFinite, FS_AddElement
<1>8. QED
  BY <1>2, <1>3, <1>4, <1>7, CountsFinite DEF CbInv, CbTypeOK, UnitsAreBuffers

\* The invariant holds in every reachable state of a pool whose callers keep
\* the protocol.
THEOREM CopyBufInvariant == CbSpec => []CbInv
<1>1. CbInv /\ [CbNext]_cbvars => CbInv'
  <2> SUFFICES ASSUME CbInv, [CbNext]_cbvars PROVE CbInv'
    OBVIOUS
  <2>1. CASE UNCHANGED cbvars
    BY <2>1 DEF cbvars, CbInv, CbTypeOK, UnitsAreBuffers, OneBufferEach, InTransit, Free
  <2>2. ASSUME NEW p \in Procs,
               \/ cb_pc[p] = "out" /\ cb_acquire(p)
               \/ cb_pc[p] = "held" /\ cb_release(p)
               \/ CbStep(p)
        PROVE  CbInv'
    BY <2>2, CallInv, SemInv, ChooseInv, ClearInv DEF CbStep
  <2>3. QED
    BY <2>1, <2>2 DEF CbNext
<1>2. QED
  BY <1>1, CreateInv, PTL DEF CbSpec

\* KASSERT(chosen != -1) in cb_acquire never fails and cb_release never
\* panics: a process past P has a unit, so UnitsAreBuffers leaves a free
\* buffer for it.
THEOREM CopyBufLoopsFind == CbSpec => []LoopsFind
<1>1. CbInv => LoopsFind
  <2> SUFFICES ASSUME CbInv, NEW p \in Procs
               PROVE  /\ cb_pc[p] = "choose" => \E i \in Slots : cb_alloc[i] = NoProc
                      /\ cb_pc[p] = "clear" => \E i \in Slots : cb_alloc[i] = p
    BY DEF LoopsFind
  <2>1. ASSUME cb_pc[p] = "choose"
        PROVE  \E i \in Slots : cb_alloc[i] = NoProc
    <3>1. InTransit # {}
      BY <2>1 DEF InTransit
    <3>2. Cardinality(InTransit) # 0
      BY <3>1, CountsFinite, FS_EmptySet
    <3>3. Cardinality(Free) # 0
      BY <3>2, CountsFinite DEF CbInv, CbTypeOK, UnitsAreBuffers
    <3>4. Free # {}
      BY <3>3, FS_EmptySet
    <3>5. QED
      BY <3>4 DEF Free
  <2>2. ASSUME cb_pc[p] = "clear"
        PROVE  \E i \in Slots : cb_alloc[i] = p
    BY <2>2 DEF CbInv, OneBufferEach
  <2>3. QED
    BY <2>1, <2>2
<1>2. QED
  BY <1>1, CopyBufInvariant, PTL

-----------------------------------------------------------------------------
(* execv *)

\* A step of p changes nothing that another process holds.
Alone(p) ==
  \A q \in Procs \ {p} :
    /\ cb_pc'[q] = cb_pc[q] /\ pc'[q] = pc[q]
    /\ p_addrspace'[q] = p_addrspace[q] /\ old_as'[q] = old_as[q] /\ new_as'[q] = new_as[q]
    /\ opened'[q] = opened[q] /\ args'[q] = args[q]
    /\ argptrs'[q] = argptrs[q] /\ heap'[q] = heap[q]

\* A step of p that keeps p's part of the invariant keeps all of it, if p
\* destroys and forgets only what it has and takes only new address spaces.
LEMMA StepInv ==
  ASSUME IndInv, NEW p \in Procs, TypeOK', Alone(p),
         HoldsByPlace(p)', HeapByPlace(p)',
         Spaces(p)' \subseteq live',
         Spaces(p)' \subseteq Spaces(p) \cup (live' \ live),
         live \ Spaces(p) \subseteq live'
  PROVE  IndInv'
<1>1. ASSUME NEW q \in Procs \ {p}
      PROVE  /\ HoldsByPlace(q)' /\ HeapByPlace(q)'
             /\ Spaces(q)' = Spaces(q) /\ Spaces(q) \subseteq live'
             /\ Spaces(q) \cap Spaces(p)' = {}
  <2>1. HoldsByPlace(q)'
    BY <1>1 DEF IndInv, Alone, HoldsByPlace, InCall
  <2>2. HeapByPlace(q)'
    BY <1>1 DEF IndInv, Alone, HeapByPlace, Blocks
  <2>3. Spaces(q)' = Spaces(q)
    BY <1>1 DEF Alone, Spaces, InCall
  <2>4. Spaces(q) \cap Spaces(p) = {} /\ Spaces(q) \subseteq live
    BY <1>1 DEF IndInv
  <2>5. QED
    BY <2>1, <2>2, <2>3, <2>4
<1>2. \A q \in Procs : HoldsByPlace(q)' /\ HeapByPlace(q)' /\ Spaces(q)' \subseteq live'
  BY <1>1
<1>3. ASSUME NEW q \in Procs, NEW r \in Procs, q # r
      PROVE  Spaces(q)' \cap Spaces(r)' = {}
  <2>1. CASE q = p
    BY <1>1, <1>3, <2>1
  <2>2. CASE r = p
    BY <1>1, <1>3, <2>2
  <2>3. CASE q # p /\ r # p
    BY <1>1, <1>3, <2>3 DEF IndInv
  <2>4. QED
    BY <2>1, <2>2, <2>3
<1>4. QED
  BY <1>2, <1>3 DEF IndInv

\* The invariant holds when every process is in user mode.
LEMMA InitInv == Init => IndInv
<1> SUFFICES ASSUME Init PROVE IndInv
  OBVIOUS
<1>1. TypeOK
  BY CreateInv, ExecvAssumption DEF Init, TypeOK, CbInv
<1>2. ASSUME NEW p \in Procs PROVE HoldsByPlace(p) /\ HeapByPlace(p) /\ Spaces(p) = {p_addrspace[p]}
  BY ExecvAssumption DEF Init, cb_create, HoldsByPlace, HeapByPlace, Blocks, Spaces, InCall
<1>3. QED
  BY <1>1, <1>2 DEF Init, IndInv

\* The steps of cb_acquire and cb_release.
LEMMA CbStepInv == ASSUME IndInv, NEW p \in Procs, cb_step(p) PROVE IndInv'
<1> USE DEF cb_step, execvars
<1>1. TypeOK'
  BY DEF IndInv, TypeOK, CbTypeOK, CbStep, cb_acquire_P, cb_acquire_choose, cb_release_clear,
         cb_release_V, CbGoto
<1>2. Alone(p)
  BY DEF IndInv, TypeOK, CbTypeOK, CbStep, cb_acquire_P, cb_acquire_choose, cb_release_clear,
         cb_release_V, CbGoto, Alone
<1>3. HoldsByPlace(p)'
  BY DEF IndInv, TypeOK, CbTypeOK, CbStep, cb_acquire_P, cb_acquire_choose, cb_release_clear,
         cb_release_V, CbGoto, HoldsByPlace, InCall
<1>4. HeapByPlace(p)' /\ Spaces(p)' = Spaces(p)
  BY DEF IndInv, HeapByPlace, Blocks, Spaces, InCall
<1>5. QED
  BY <1>1, <1>2, <1>3, <1>4, StepInv DEF IndInv

\* The call up to as_create: the process is on its own address space and knows
\* of no other.
LEMMA EarlyInv ==
  ASSUME IndInv, NEW p \in Procs, sys_execv(p) \/ name_error(p) \/ vfs_open(p) \/
         arg_node(p) \/ args_error(p)
  PROVE  IndInv'
<1>1. TypeOK'
  <2>1. TypeOK /\ HoldsByPlace(p) /\ HeapByPlace(p)
    BY DEF IndInv
  <2>2. args[p] \in 0..MaxArgs /\ heap[p] \in 0..(MaxArgs + 1)
    BY <2>1 DEF TypeOK
  <2>3. CASE sys_execv(p)
    BY <2>1, <2>2, <2>3, ExecvAssumption DEF TypeOK, CbTypeOK, sys_execv, Goto, cb_acquire,
       CbGoto, HoldsByPlace, InCall, HeapByPlace, Blocks
  <2>4. CASE name_error(p)
    BY <2>1, <2>2, <2>4, ExecvAssumption DEF TypeOK, CbTypeOK, name_error, Goto,
       cb_release, CbGoto, HoldsByPlace, InCall, HeapByPlace, Blocks
  <2>5. CASE vfs_open(p)
    BY <2>1, <2>2, <2>5, ExecvAssumption DEF TypeOK, CbTypeOK, vfs_open, Goto, cbvars,
       HoldsByPlace, InCall, HeapByPlace, Blocks
  <2>6. CASE arg_node(p)
    BY <2>1, <2>2, <2>6, ExecvAssumption DEF TypeOK, CbTypeOK, arg_node, cbvars,
       HoldsByPlace, InCall, HeapByPlace, Blocks
  <2>7. CASE args_error(p)
    <3>1. PICK blocks \in {0, 1} : free_nodes(p, blocks)
      BY <2>7 DEF args_error
    <3>2. args[p] \in Nat /\ heap[p] = args[p]
      BY <2>1, <2>2, <2>7 DEF args_error, HeapByPlace, Blocks
    <3>3. heap[p] + blocks - args[p] \in 0..(MaxArgs + 1)
      BY <3>2, ExecvAssumption
    <3>4. heap' \in [Procs -> 0..(MaxArgs + 1)] /\ args' \in [Procs -> 0..MaxArgs]
      BY <2>1, <3>1, <3>3, ExecvAssumption DEF TypeOK, free_nodes
    <3>5. QED
      BY Zenon, <2>1, <2>7, <3>4 DEF TypeOK, CbTypeOK, args_error, Goto, cb_release, CbGoto, vfs_close
  <2>8. QED
    BY <2>3, <2>4, <2>5, <2>6, <2>7
<1>2. Alone(p)
  BY DEF IndInv, TypeOK, CbTypeOK, sys_execv, name_error, vfs_open, arg_node, args_error, Goto,
     free_nodes, vfs_close, cb_acquire, cb_release, CbGoto, Outside, cbvars, Alone
<1>3. HoldsByPlace(p)'
  BY ExecvAssumption DEF IndInv, TypeOK, CbTypeOK, sys_execv, name_error, vfs_open, arg_node,
     args_error, Goto, free_nodes, vfs_close, cb_acquire, cb_release, CbGoto, Outside, cbvars,
     HoldsByPlace, InCall, Spaces
<1>4. HeapByPlace(p)'
  BY ExecvAssumption DEF IndInv, TypeOK, CbTypeOK, sys_execv, name_error, vfs_open, arg_node,
     args_error, Goto, free_nodes, vfs_close, cb_acquire, cb_release, CbGoto, Outside,
     HeapByPlace, Blocks
<1>5. /\ Spaces(p)' \subseteq live'
      /\ Spaces(p)' \subseteq Spaces(p) \cup (live' \ live)
      /\ live \ Spaces(p) \subseteq live'
  BY ExecvAssumption DEF IndInv, TypeOK, CbTypeOK, sys_execv, name_error, vfs_open, arg_node,
     args_error, Goto, free_nodes, vfs_close, cb_acquire, cb_release, CbGoto, Outside,
     HoldsByPlace, InCall, Spaces
<1>6. QED
  BY <1>1, <1>2, <1>3, <1>4, <1>5, StepInv

\* as_create: the new address space is one that nobody knows of.
LEMMA CreateSpaceInv ==
  ASSUME IndInv, NEW p \in Procs, as_create(p)
  PROVE  IndInv'
<1>1. PICK as \in AddrSpaces \ live :
        /\ live' = live \cup {as}
        /\ new_as' = [new_as EXCEPT ![p] = as]
        /\ p_addrspace' = [p_addrspace EXCEPT ![p] = as]
  BY Zenon DEF as_create, proc_setas
<1>2. /\ TypeOK /\ HoldsByPlace(p) /\ HeapByPlace(p)
      /\ p_addrspace[p] \in live /\ p_addrspace[p] # as
  BY Zenon, <1>1 DEF IndInv, Spaces
<1>3. /\ old_as' = [old_as EXCEPT ![p] = p_addrspace[p]]
      /\ pc[p] = "args" /\ pc' = [pc EXCEPT ![p] = "load"]
      /\ UNCHANGED <<cb_pc, cb_sem, cb_alloc, opened, args, argptrs, heap>>
  BY DEF as_create, Goto, cbvars
<1>4. TypeOK'
  BY Zenon, <1>1, <1>2, <1>3 DEF TypeOK, CbTypeOK
<1>5. Alone(p)
  BY <1>1, <1>2, <1>3 DEF TypeOK, Alone
<1>6. /\ pc'[p] = "load" /\ p_addrspace'[p] = as /\ new_as'[p] = as
      /\ old_as'[p] = p_addrspace[p] /\ cb_pc'[p] = cb_pc[p] /\ opened'[p] = opened[p]
  BY <1>1, <1>2, <1>3 DEF TypeOK
<1>7. HoldsByPlace(p)'
  BY Zenon, <1>1, <1>2, <1>3, <1>6, ExecvAssumption DEF HoldsByPlace, InCall, TypeOK
<1>8. HeapByPlace(p)'
  BY <1>2, <1>3, <1>6 DEF HeapByPlace, Blocks
<1>9. Spaces(p) = {p_addrspace[p]} /\ Spaces(p)' = {as, p_addrspace[p]}
  BY Zenon, <1>3, <1>6 DEF Spaces, InCall
<1>10. QED
  BY Zenon, <1>1, <1>2, <1>4, <1>5, <1>7, <1>8, <1>9, StepInv

\* load_elf: the process goes back to the address space it came with, and the
\* new one stays its own unless the call fails.
LEMMA LoadInv ==
  ASSUME IndInv, NEW p \in Procs, load_elf_error(p) \/ load_elf(p)
  PROVE  IndInv'
<1>1. TypeOK'
  <2>1. TypeOK /\ HoldsByPlace(p) /\ HeapByPlace(p)
    BY DEF IndInv
  <2>2. args[p] \in 0..MaxArgs /\ heap[p] \in 0..(MaxArgs + 1)
    BY <2>1 DEF TypeOK
  <2>3. CASE load_elf_error(p)
    BY <2>1, <2>2, <2>3, ExecvAssumption DEF TypeOK, CbTypeOK, load_elf_error, Goto,
       cb_release, CbGoto, vfs_close, proc_setas, free_nodes, HoldsByPlace, InCall,
       HeapByPlace, Blocks
  <2>4. CASE load_elf(p)
    BY <2>1, <2>2, <2>4, ExecvAssumption DEF TypeOK, CbTypeOK, load_elf, Goto, cbvars,
       vfs_close, proc_setas, HoldsByPlace, InCall, HeapByPlace, Blocks
  <2>5. QED
    BY <2>3, <2>4
<1>2. Alone(p)
  BY DEF IndInv, TypeOK, CbTypeOK, load_elf_error, load_elf, Goto, free_nodes, vfs_close,
     proc_setas, cb_acquire, cb_release, CbGoto, Outside, cbvars, Alone
<1>3. HoldsByPlace(p)'
  BY ExecvAssumption DEF IndInv, TypeOK, CbTypeOK, load_elf_error, load_elf, Goto, free_nodes,
     vfs_close, proc_setas, cb_acquire, cb_release, CbGoto, Outside, cbvars, HoldsByPlace,
     InCall, Spaces
<1>4. HeapByPlace(p)'
  BY ExecvAssumption DEF IndInv, TypeOK, CbTypeOK, load_elf_error, load_elf, Goto, free_nodes,
     vfs_close, proc_setas, cb_acquire, cb_release, CbGoto, Outside, HeapByPlace, Blocks
<1>5. /\ Spaces(p)' \subseteq live'
      /\ Spaces(p)' \subseteq Spaces(p) \cup (live' \ live)
      /\ live \ Spaces(p) \subseteq live'
  BY ExecvAssumption DEF IndInv, TypeOK, CbTypeOK, load_elf_error, load_elf, Goto, free_nodes,
     vfs_close, proc_setas, cb_acquire, cb_release, CbGoto, Outside, HoldsByPlace, InCall,
     Spaces
<1>6. QED
  BY <1>1, <1>2, <1>3, <1>4, <1>5, StepInv

\* The copy loop: the process goes to and fro between its two address spaces.
LEMMA CopyInv ==
  ASSUME IndInv, NEW p \in Procs, copyinstr(p) \/ copyoutstr(p) \/ args_done(p) \/
         to_new_as(p)
  PROVE  IndInv'
<1>1. TypeOK'
  <2>1. TypeOK /\ HoldsByPlace(p) /\ HeapByPlace(p)
    BY DEF IndInv
  <2>2. args[p] \in 0..MaxArgs /\ heap[p] \in 0..(MaxArgs + 1)
    BY <2>1 DEF TypeOK
  <2>3. CASE copyinstr(p)
    BY <2>1, <2>2, <2>3, ExecvAssumption DEF TypeOK, CbTypeOK, copyinstr, Goto, cbvars,
       proc_setas, HoldsByPlace, InCall, HeapByPlace, Blocks
  <2>4. CASE copyoutstr(p)
    BY <2>1, <2>2, <2>4, ExecvAssumption DEF TypeOK, CbTypeOK, copyoutstr, Goto, cbvars,
       proc_setas, HoldsByPlace, InCall, HeapByPlace, Blocks
  <2>5. CASE args_done(p)
    BY <2>1, <2>2, <2>5, ExecvAssumption DEF TypeOK, CbTypeOK, args_done, Goto, cb_release,
       CbGoto, HoldsByPlace, InCall, HeapByPlace, Blocks
  <2>6. CASE to_new_as(p)
    BY <2>1, <2>2, <2>6, ExecvAssumption DEF TypeOK, CbTypeOK, to_new_as, Goto, cbvars,
       proc_setas, HoldsByPlace, InCall, HeapByPlace, Blocks
  <2>7. QED
    BY <2>3, <2>4, <2>5, <2>6
<1>2. Alone(p)
  BY DEF IndInv, TypeOK, CbTypeOK, copyinstr, copyoutstr, args_done, to_new_as, Goto,
     proc_setas, cb_acquire, cb_release, CbGoto, Outside, cbvars, Alone
<1>3. HoldsByPlace(p)'
  BY ExecvAssumption DEF IndInv, TypeOK, CbTypeOK, copyinstr, copyoutstr, args_done, to_new_as,
     Goto, proc_setas, cb_acquire, cb_release, CbGoto, Outside, cbvars, HoldsByPlace, InCall,
     Spaces
<1>4. HeapByPlace(p)'
  BY ExecvAssumption DEF IndInv, TypeOK, CbTypeOK, copyinstr, copyoutstr, args_done, to_new_as,
     Goto, proc_setas, cb_acquire, cb_release, CbGoto, Outside, HeapByPlace, Blocks
<1>5. /\ Spaces(p)' \subseteq live'
      /\ Spaces(p)' \subseteq Spaces(p) \cup (live' \ live)
      /\ live \ Spaces(p) \subseteq live'
  BY ExecvAssumption DEF IndInv, TypeOK, CbTypeOK, copyinstr, copyoutstr, args_done, to_new_as,
     Goto, proc_setas, cb_acquire, cb_release, CbGoto, Outside, HoldsByPlace, InCall, Spaces
<1>6. QED
  BY <1>1, <1>2, <1>3, <1>4, <1>5, StepInv

\* An error destroys the new address space when the process is back on the old
\* one.
LEMMA CopyErrorInv ==
  ASSUME IndInv, NEW p \in Procs, copyinstr_error(p) \/ copyoutstr_error(p) \/
         copyout_error(p)
  PROVE  IndInv'
<1>1. TypeOK'
  <2>1. TypeOK /\ HoldsByPlace(p) /\ HeapByPlace(p)
    BY DEF IndInv
  <2>2. args[p] \in 0..MaxArgs /\ heap[p] \in 0..(MaxArgs + 1)
    BY <2>1 DEF TypeOK
  <2>3. CASE copyinstr_error(p)
    BY <2>1, <2>2, <2>3, ExecvAssumption DEF TypeOK, CbTypeOK, copyinstr_error, Goto,
       cb_release, CbGoto, free_nodes, HoldsByPlace, InCall, HeapByPlace, Blocks
  <2>4. CASE copyoutstr_error(p)
    BY <2>1, <2>2, <2>4, ExecvAssumption DEF TypeOK, CbTypeOK, copyoutstr_error, Goto,
       cb_release, CbGoto, proc_setas, free_nodes, HoldsByPlace, InCall, HeapByPlace,
       Blocks
  <2>5. CASE copyout_error(p)
    BY <2>1, <2>2, <2>5, ExecvAssumption DEF TypeOK, CbTypeOK, copyout_error, Goto, cbvars,
       proc_setas, free_argptrs, HoldsByPlace, InCall, HeapByPlace, Blocks
  <2>6. QED
    BY <2>3, <2>4, <2>5
<1>2. Alone(p)
  BY DEF IndInv, TypeOK, CbTypeOK, copyinstr_error, copyoutstr_error, copyout_error, Goto,
     free_nodes, free_argptrs, proc_setas, cb_acquire, cb_release, CbGoto, Outside, cbvars,
     Alone
<1>3. HoldsByPlace(p)'
  BY ExecvAssumption DEF IndInv, TypeOK, CbTypeOK, copyinstr_error, copyoutstr_error,
     copyout_error, Goto, free_nodes, free_argptrs, proc_setas, cb_acquire, cb_release, CbGoto,
     Outside, cbvars, HoldsByPlace, InCall, Spaces
<1>4. HeapByPlace(p)'
  BY ExecvAssumption DEF IndInv, TypeOK, CbTypeOK, copyinstr_error, copyoutstr_error,
     copyout_error, Goto, free_nodes, free_argptrs, proc_setas, cb_acquire, cb_release, CbGoto,
     Outside, HeapByPlace, Blocks
<1>5. /\ Spaces(p)' \subseteq live'
      /\ Spaces(p)' \subseteq Spaces(p) \cup (live' \ live)
      /\ live \ Spaces(p) \subseteq live'
  BY ExecvAssumption DEF IndInv, TypeOK, CbTypeOK, copyinstr_error, copyoutstr_error,
     copyout_error, Goto, free_nodes, free_argptrs, proc_setas, cb_acquire, cb_release, CbGoto,
     Outside, HoldsByPlace, InCall, Spaces
<1>6. QED
  BY <1>1, <1>2, <1>3, <1>4, <1>5, StepInv

\* A call that succeeds destroys the old address space.
LEMMA EnterInv ==
  ASSUME IndInv, NEW p \in Procs, enter_new_process(p)
  PROVE  IndInv'
<1>1. TypeOK'
  BY ExecvAssumption DEF IndInv, TypeOK, CbTypeOK, enter_new_process, Goto, free_argptrs,
     cb_acquire, cb_release, CbGoto, Outside, cbvars, HoldsByPlace, HeapByPlace, Blocks
<1>2. Alone(p)
  BY DEF IndInv, TypeOK, CbTypeOK, enter_new_process, Goto, free_argptrs, cb_acquire,
     cb_release, CbGoto, Outside, cbvars, Alone
<1>3. HoldsByPlace(p)'
  BY ExecvAssumption DEF IndInv, TypeOK, CbTypeOK, enter_new_process, Goto, free_argptrs,
     cb_acquire, cb_release, CbGoto, Outside, cbvars, HoldsByPlace, InCall, Spaces
<1>4. HeapByPlace(p)'
  BY ExecvAssumption DEF IndInv, TypeOK, CbTypeOK, enter_new_process, Goto, free_argptrs,
     cb_acquire, cb_release, CbGoto, Outside, HeapByPlace, Blocks
<1>5. /\ Spaces(p)' \subseteq live'
      /\ Spaces(p)' \subseteq Spaces(p) \cup (live' \ live)
      /\ live \ Spaces(p) \subseteq live'
  BY ExecvAssumption DEF IndInv, TypeOK, CbTypeOK, enter_new_process, Goto, free_argptrs,
     cb_acquire, cb_release, CbGoto, Outside, HoldsByPlace, InCall, Spaces
<1>6. QED
  BY <1>1, <1>2, <1>3, <1>4, <1>5, StepInv

\* Back in user mode the call's variables are forgotten.
LEMMA ReturnInv ==
  ASSUME IndInv, NEW p \in Procs, return_to_user(p)
  PROVE  IndInv'
<1>1. TypeOK'
  BY ExecvAssumption DEF IndInv, TypeOK, CbTypeOK, return_to_user, Goto, cb_acquire, cb_release,
     CbGoto, Outside, cbvars, HoldsByPlace, HeapByPlace, Blocks
<1>2. Alone(p)
  BY DEF IndInv, TypeOK, CbTypeOK, return_to_user, Goto, cb_acquire, cb_release, CbGoto,
     Outside, cbvars, Alone
<1>3. HoldsByPlace(p)'
  BY ExecvAssumption DEF IndInv, TypeOK, CbTypeOK, return_to_user, Goto, cb_acquire, cb_release,
     CbGoto, Outside, cbvars, HoldsByPlace, InCall, Spaces
<1>4. HeapByPlace(p)'
  BY ExecvAssumption DEF IndInv, TypeOK, CbTypeOK, return_to_user, Goto, cb_acquire, cb_release,
     CbGoto, Outside, HeapByPlace, Blocks
<1>5. /\ Spaces(p)' \subseteq live'
      /\ Spaces(p)' \subseteq Spaces(p) \cup (live' \ live)
      /\ live \ Spaces(p) \subseteq live'
  BY ExecvAssumption DEF IndInv, TypeOK, CbTypeOK, return_to_user, Goto, cb_acquire, cb_release,
     CbGoto, Outside, HoldsByPlace, InCall, Spaces
<1>6. QED
  BY <1>1, <1>2, <1>3, <1>4, <1>5, StepInv
\* Every step keeps the invariant.
LEMMA NextInv == IndInv /\ [Next]_vars => IndInv'
<1> SUFFICES ASSUME IndInv, [Next]_vars PROVE IndInv'
  OBVIOUS
<1>1. CASE UNCHANGED vars
  BY ZenonT(40), <1>1 DEF vars, cbvars, execvars, IndInv, TypeOK, CbTypeOK, HoldsByPlace, HeapByPlace,
     Blocks, Spaces, InCall
<1>2. ASSUME NEW p \in Procs, sys_execv(p) \/ Step(p) PROVE IndInv'
  BY <1>2, CbStepInv, EarlyInv, CreateSpaceInv, LoadInv, CopyInv, CopyErrorInv, EnterInv,
     ReturnInv DEF Step
<1>3. QED
  BY <1>1, <1>2 DEF Next

\* The invariant of sys_execv: what a process holds is determined by where it
\* is in the call, and no two processes know of the same address space.
THEOREM ExecvInvariant == Spec => []IndInv
<1>1. QED
  BY InitInv, NextInv, PTL DEF Spec

\* However a call ends, on every early return, the process is back in user mode
\* without a copy buffer and without the program's file.
THEOREM ExecvNothingHeldInUser == Spec => []NothingHeldInUser
<1>1. IndInv => NothingHeldInUser
  BY DEF IndInv, HoldsByPlace, NothingHeldInUser
<1>2. QED
  BY <1>1, ExecvInvariant, PTL

\* as_destroy is never called for the address space a process runs on, in any
\* interleaving of calls, and no two processes run on the same one.
THEOREM ExecvRunsOnOwnSpace == Spec => []RunsOnOwnSpace
<1>1. IndInv => RunsOnOwnSpace
  BY DEF IndInv, Spaces, RunsOnOwnSpace
<1>2. QED
  BY <1>1, ExecvInvariant, PTL

\* A failed call is back on the address space it came with; one that succeeds
\* is on the new one.
THEOREM ExecvSpaceAfterCall == Spec => []SpaceAfterCall
<1>1. IndInv => SpaceAfterCall
  BY DEF IndInv, HoldsByPlace, SpaceAfterCall
<1>2. QED
  BY <1>1, ExecvInvariant, PTL

\* A call that enters the new program has freed every block it allocated.
THEOREM ExecvSuccessFreesAll == Spec => []SuccessFreesAll
<1>1. IndInv => SuccessFreesAll
  BY DEF IndInv, HeapByPlace, SuccessFreesAll
<1>2. QED
  BY <1>1, ExecvInvariant, PTL

\* sys_execv keeps the protocol of the copy buffers: each of its steps is a step
\* the pool allows its callers, or leaves the pool alone.
THEOREM ExecvUsesCopyBuf == Spec => UsesCopyBuf
<1>1. Init => cb_create
  BY DEF Init
<1>2. IndInv /\ [Next]_vars => [CbNext]_cbvars
  <2> SUFFICES ASSUME IndInv, [Next]_vars PROVE [CbNext]_cbvars
    OBVIOUS
  <2>1. CASE UNCHANGED vars
    BY <2>1 DEF vars
  <2>2. ASSUME NEW p \in Procs, cb_step(p) PROVE [CbNext]_cbvars
    BY <2>2 DEF cb_step, CbNext
  <2>3. ASSUME NEW p \in Procs, sys_execv(p) PROVE [CbNext]_cbvars
    BY <2>3 DEF sys_execv, IndInv, HoldsByPlace, CbNext
  <2>4. ASSUME NEW p \in Procs, name_error(p) \/ args_error(p) \/ load_elf_error(p) \/
               copyinstr_error(p) \/ copyoutstr_error(p) \/ args_done(p)
        PROVE  [CbNext]_cbvars
    BY <2>4 DEF name_error, args_error, load_elf_error, copyinstr_error, copyoutstr_error,
       args_done, IndInv, HoldsByPlace, CbNext, cb_release, Outside
  <2>5. ASSUME NEW p \in Procs, vfs_open(p) \/ arg_node(p) \/ as_create(p) \/ load_elf(p) \/
               copyinstr(p) \/ copyoutstr(p) \/ to_new_as(p) \/ copyout_error(p) \/
               enter_new_process(p) \/ return_to_user(p)
        PROVE  [CbNext]_cbvars
    BY <2>5 DEF vfs_open, arg_node, as_create, load_elf, copyinstr, copyoutstr, to_new_as,
       copyout_error, enter_new_process, return_to_user
  <2>6. QED
    BY <2>1, <2>2, <2>3, <2>4, <2>5 DEF Next, Step
<1>3. QED
  BY <1>1, <1>2, ExecvInvariant, PTL DEF Spec, UsesCopyBuf, CbSpec

\* Under any number of concurrent calls of sys_execv cb_acquire finds a buffer
\* once it is past the semaphore (its KASSERT), and cb_release does not panic.
THEOREM ExecvLoopsFind == Spec => []LoopsFind
<1>1. QED
  BY ExecvUsesCopyBuf, CopyBufLoopsFind, PTL DEF UsesCopyBuf
============================================================================
