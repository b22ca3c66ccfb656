-------------------------- MODULE FileTableProofs --------------------------
(***************************************************************************)
(* Proofs about module FileTable, for any finite set of processes, any     *)
(* sizes of the tables and any number of forks, as long as no count        *)
(* reaches the largest value of an unsigned.                               *)
(***************************************************************************)
EXTENDS FileTable, FiniteSetTheorems, TLAPS

-----------------------------------------------------------------------------
(* Counts and handles *)

\* A count that stays in range is not changed by the modulus, and every count
\* is in range.
LEMMA CountMod ==
  /\ \A n \in 0..(RefMod - 1) : n % RefMod = n
  /\ \A n \in Int : n % RefMod \in 0..(RefMod - 1)
  BY FileTableAssumption

\* fh_incref and fh_decref change the count alone, and so does fh_close when
\* there is another reference.
LEMMA HandleCounts ==
  ASSUME NEW fh \in Handle
  PROVE  /\ fh # NULL
         /\ \A n \in {-1, 1} :
              /\ AddRef(fh, n) \in Handle /\ AddRef(fh, n) # NULL
              /\ AddRef(fh, n).off = fh.off /\ AddRef(fh, n).use_lock = fh.use_lock
              /\ fh.ref + n \in 0..(RefMod - 1) => AddRef(fh, n).ref = fh.ref + n
         /\ ~Last(fh) => AddRef(fh, -1).ref = fh.ref - 1
<1>1. fh.ref \in 0..(RefMod - 1) /\ fh # NULL
  BY Zenon, FileTableAssumption DEF Handle
<1>2. ASSUME NEW n \in {-1, 1}
      PROVE  /\ AddRef(fh, n) \in Handle /\ AddRef(fh, n) # NULL
             /\ AddRef(fh, n).off = fh.off /\ AddRef(fh, n).use_lock = fh.use_lock
             /\ fh.ref + n \in 0..(RefMod - 1) => AddRef(fh, n).ref = fh.ref + n
  <2>1. (fh.ref + n) % RefMod \in 0..(RefMod - 1)
    BY <1>1, CountMod, FileTableAssumption
  <2>2. AddRef(fh, n) \in Handle
    BY Zenon, <2>1 DEF AddRef, Handle
  <2>3. QED
    BY Zenon, <2>2, CountMod, FileTableAssumption DEF AddRef, Handle
<1>3. fh.ref > 1 => fh.ref - 1 \in 0..(RefMod - 1) /\ fh.ref + (-1) = fh.ref - 1
  BY <1>1, FileTableAssumption
<1>4. ~Last(fh) => AddRef(fh, -1).ref = fh.ref - 1
  <2>1. ~Last(fh) => fh.ref > 1
    BY <1>1, FileTableAssumption DEF Last
  <2>2. QED
    BY Zenon, <1>2, <1>3, <2>1
<1>5. QED
  BY Zenon, <1>1, <1>2, <1>4

\* The arguments of a call.
LEMMA ArgsType ==
  /\ NoArg \in Args
  /\ \A fd, new \in FDs : /\ [NoArg EXCEPT !.fd = fd] \in Args
                          /\ [NoArg EXCEPT !.fd = fd, !.new = new] \in Args
  /\ \A a \in Args, fd \in FDs, l \in {"run", "dup", "exit"} :
       [a EXCEPT !.gone = fd, !.to = l] \in Args
<1>1. 0 \in FDs /\ 0 \in 0..OPEN_MAX /\ FDs \subseteq 0..OPEN_MAX
  BY FileTableAssumption DEF FDs
<1>2. NoArg \in Args
  BY Zenon, <1>1 DEF NoArg, Args
<1>3. QED
  BY Zenon, <1>1, <1>2 DEF Args

\* What TypeOK says of one process.
LEMMA TypeOf ==
  ASSUME TypeOK, NEW p \in Procs
  PROVE  /\ \A fd \in FDs : p_fds[p][fd] \in Slots \cup {FD_FREE}
         /\ arg[p] \in Args /\ arg[p].fd \in 0..OPEN_MAX /\ arg[p].new \in FDs
         /\ arg[p].gone \in FDs /\ arg[p].to \in {"run", "dup", "exit"}
<1>1. p_fds[p] \in [FDs -> Slots \cup {FD_FREE}] /\ arg[p] \in Args
  BY Zenon DEF TypeOK
<1>2. \A fd \in FDs : p_fds[p][fd] \in Slots \cup {FD_FREE}
  BY Zenon, <1>1
<1>3. /\ arg[p].fd \in 0..OPEN_MAX /\ arg[p].new \in FDs
      /\ arg[p].gone \in FDs /\ arg[p].to \in {"run", "dup", "exit"}
  BY Zenon, <1>1 DEF Args
<1>4. QED
  BY Zenon, <1>1, <1>2, <1>3

\* The offset and the holder of the lock change by themselves.
WithOffset(fh, o, u) == [fh EXCEPT !.off = o, !.use_lock = u]

LEMMA HandleFields ==
  ASSUME NEW fh \in Handle, NEW o \in 0..MaxOff, NEW u \in Procs \cup {NoProc}
  PROVE  /\ WithOffset(fh, o, u) \in Handle /\ WithOffset(fh, o, u).ref = fh.ref
         /\ WithOffset(fh, o, u).off = o /\ WithOffset(fh, o, u).use_lock = u
<1> DEFINE once == [fh EXCEPT !.off = o]
           new == [once EXCEPT !.use_lock = u]
<1>1. once \in Handle /\ once.ref = fh.ref /\ once.off = o
  BY Zenon DEF Handle
<1> HIDE DEF once
<1>2. new \in Handle /\ new.ref = once.ref /\ new.off = once.off /\ new.use_lock = u
  BY Zenon, <1>1 DEF Handle
<1>3. WithOffset(fh, o, u) = new
  BY Zenon DEF once, WithOffset
<1>4. QED
  BY Zenon, <1>1, <1>2, <1>3

-----------------------------------------------------------------------------
(* The descriptors that refer to a slot *)

Fds == [Procs -> [FDs -> Slots \cup {FD_FREE}]]
Count(fds, i) == Cardinality(RefsTo(fds, i))

LEMMA CountFinite ==
  ASSUME NEW fds, NEW i
  PROVE  IsFiniteSet(RefsTo(fds, i)) /\ Count(fds, i) \in Nat
<1>1. IsFiniteSet(FDs)
  BY FS_Interval, FileTableAssumption DEF FDs
<1>2. IsFiniteSet(Procs \X FDs)
  BY Zenon, <1>1, FS_Product, FileTableAssumption
<1>3. RefsTo(fds, i) \in SUBSET (Procs \X FDs)
  BY Zenon DEF RefsTo
<1>4. QED
  BY Zenon, <1>2, <1>3, FS_Subset, FS_CardinalityType DEF Count

\* No descriptor refers to a slot exactly if the count is 0.
LEMMA CountZero ==
  ASSUME NEW fds, NEW i
  PROVE  RefsTo(fds, i) = {} <=> Count(fds, i) = 0
  BY Zenon, CountFinite, FS_EmptySet DEF Count

\* A descriptor in use counts for its slot, and two of them count twice.
LEMMA CountInUse ==
  ASSUME NEW fds, NEW i, NEW p \in Procs, NEW fd \in FDs, fds[p][fd] = i
  PROVE  /\ Count(fds, i) >= 1
         /\ \A q \in Procs, g \in FDs :
              fds[q][g] = i /\ ~(q = p /\ g = fd) => Count(fds, i) >= 2
<1> DEFINE rest == RefsTo(fds, i) \ {<<p, fd>>}
<1>1. <<p, fd>> \in RefsTo(fds, i)
  BY Zenon DEF RefsTo
<1>2. /\ IsFiniteSet(rest) /\ Cardinality(rest) = Count(fds, i) - 1
      /\ Cardinality(rest) \in Nat
  BY Zenon, <1>1, CountFinite, FS_RemoveElement, FS_CardinalityType DEF Count
<1>3. ASSUME NEW q \in Procs, NEW g \in FDs, fds[q][g] = i, ~(q = p /\ g = fd)
      PROVE  Count(fds, i) >= 2
  <2>1. <<q, g>> \in rest
    BY Zenon, <1>3 DEF RefsTo
  <2>2. Cardinality(rest) # 0
    BY Zenon, <1>2, <2>1, FS_EmptySet
  <2>3. QED
    BY <1>2, <2>2, CountFinite
<1>4. QED
  BY <1>2, <1>3, CountFinite

\* What setting one descriptor does to the counts of all slots.
SetFD(fds, p, fd, v) == [fds EXCEPT ![p][fd] = v]

LEMMA CountSet ==
  ASSUME NEW fds \in Fds, NEW p \in Procs, NEW fd \in FDs, NEW v \in Slots \cup {FD_FREE}, NEW i
  PROVE  Count(SetFD(fds, p, fd, v), i) =
            Count(fds, i) + (IF v = i THEN 1 ELSE 0) - (IF fds[p][fd] = i THEN 1 ELSE 0)
<1> DEFINE r == <<p, fd>>
           new == SetFD(fds, p, fd, v)
<1>1. \A q \in Procs, g \in FDs : new[q][g] = IF <<q, g>> = r THEN v ELSE fds[q][g]
  BY Zenon DEF Fds, SetFD
<1>2. RefsTo(new, i) = IF v = i THEN RefsTo(fds, i) \cup {r} ELSE RefsTo(fds, i) \ {r}
  BY <1>1 DEF RefsTo
<1>3. r \in RefsTo(fds, i) <=> fds[p][fd] = i
  BY Zenon DEF RefsTo
<1>4. Cardinality(RefsTo(fds, i) \cup {r}) =
        IF r \in RefsTo(fds, i) THEN Count(fds, i) ELSE Count(fds, i) + 1
  BY Zenon, CountFinite, FS_AddElement DEF Count
<1>5. Cardinality(RefsTo(fds, i) \ {r}) =
        IF r \in RefsTo(fds, i) THEN Count(fds, i) - 1 ELSE Count(fds, i)
  BY Zenon, CountFinite, FS_RemoveElement DEF Count
<1>6. QED
  BY <1>2, <1>3, <1>4, <1>5, CountFinite DEF Count

-----------------------------------------------------------------------------
(* Steps *)

\* Where nothing happens to descriptors and handles the counts stay right.
LEMMA CountsKept ==
  ASSUME TableInv, UNCHANGED <<p_fds, ft_fhs, failed>>
  PROVE  RefsCoverFds' /\ OpenedExact'
<1>1. QED
  BY Zenon DEF TableInv, RefsCoverFds, OpenedExact, Sound, Referring

\* A step of p leaves alone what other processes are doing.
Alone(p) ==
  \A q \in Procs \ {p} : pc'[q] = pc[q] /\ arg'[q] = arg[q] /\ p_fds'[q] = p_fds[q]

LEMMA OthersKept ==
  ASSUME TableInv, NEW p \in Procs, pc[p] # "new", Alone(p),
         pc'[p] = "fork" => pc[p] = "fork" /\ arg'[p].child = arg[p].child
  PROVE  (\A q \in Procs \ {p} : FdsByPlace(q)') /\ OneParent'
<1>1. ASSUME NEW q \in Procs \ {p} PROVE FdsByPlace(q)'
  <2>1. FdsByPlace(q) /\ pc'[q] = pc[q] /\ arg'[q] = arg[q] /\ p_fds'[q] = p_fds[q]
    BY Zenon, <1>1 DEF TableInv, Alone
  <2>2. CASE pc[q] = "fork"
    <3>1. arg[q].child \in Procs \ {p}
      BY Zenon, <2>1, <2>2 DEF FdsByPlace
    <3>2. QED
      BY <2>1, <2>2, <3>1 DEF FdsByPlace, Alone
  <2>3. CASE pc[q] # "fork"
    BY Zenon, <2>1, <2>3 DEF FdsByPlace, InUse
  <2>4. QED
    BY Zenon, <2>2, <2>3
<1>2. OneParent'
  BY DEF TableInv, OneParent, Alone
<1>3. QED
  BY Zenon, <1>1, <1>2

\* The calls before they take ft_lock, and the end of a process.
LEMMA CallInv ==
  ASSUME TableInv, NEW p \in Procs,
         sys_close(p) \/ sys_dup2(p) \/ use_get(p) \/ kern__exit(p) \/ exit_done(p)
  PROVE  TableInv'
<1>1. /\ UNCHANGED <<p_fds, ft_fhs, off, forks, failed>> /\ TypeOK /\ pc[p] # "new"
      /\ \E l \in {"close", "dup_close", "dup", "use", "exit", "none"} :
           pc' = [pc EXCEPT ![p] = l]
      /\ \E a \in Args :
           arg' = [arg EXCEPT ![p] = a]
  <2>1. QED
    BY Zenon, ArgsType DEF TableInv, TypeOK, sys_close, sys_dup2, use_get, kern__exit, exit_done,
       Call, Goto, User
<1>2. TypeOK'
  BY <1>1 DEF TypeOK
<1>3. Alone(p) /\ pc'[p] \notin {"fork", "io"}
  BY Zenon, <1>1 DEF TypeOK, Alone
<1>4. FdsByPlace(p)'
  <2>1. CASE sys_close(p) \/ use_get(p)
    <3>1. PICK fd \in FDs : p_fds[p][fd] # FD_FREE /\ arg' = [arg EXCEPT ![p] = [NoArg EXCEPT !.fd = fd]]
      BY Zenon, <2>1 DEF sys_close, use_get, Call
    <3>2. arg'[p].fd = fd /\ pc'[p] \in {"close", "use"}
      BY Zenon, <1>1, <2>1, <3>1 DEF TypeOK, sys_close, use_get, Call, Goto, NoArg
    <3>3. QED
      BY Zenon, <1>1, <3>1, <3>2 DEF FdsByPlace, InUse
  <2>2. CASE sys_dup2(p)
    <3>1. PICK fd \in FDs, new \in FDs :
            /\ fd # new /\ p_fds[p][fd] # FD_FREE
            /\ arg' = [arg EXCEPT ![p] = [NoArg EXCEPT !.fd = fd, !.new = new]]
            /\ pc' = [pc EXCEPT ![p] = IF p_fds[p][new] = FD_FREE THEN "dup" ELSE "dup_close"]
      BY Zenon, <2>2 DEF sys_dup2, Call, Goto
    <3>2. arg'[p].fd = fd /\ arg'[p].new = new
      BY Zenon, <1>1, <3>1 DEF TypeOK, NoArg
    <3>3. QED
      BY Zenon, <1>1, <3>1, <3>2 DEF TypeOK, FdsByPlace, InUse
  <2>3. CASE kern__exit(p)
    BY Zenon, <1>1, <2>3 DEF TypeOK, kern__exit, Call, Goto, FdsByPlace
  <2>4. CASE exit_done(p)
    BY <1>1, <2>4 DEF TypeOK, exit_done, Call, Goto, FdsByPlace, NoFDs
  <2>5. QED
    BY Zenon, <2>1, <2>2, <2>3, <2>4
<1>5. OffsetStable'
  BY <1>1, <1>3 DEF TableInv, OffsetStable, Alone, Using, Sound
<1>6. QED
  BY Zenon, <1>1, <1>2, <1>3, <1>4, <1>5, OthersKept, CountsKept DEF TableInv

\* The two invariants on the counts, in terms of Count, before and after a step.
Covered(fds, fhs, S) ==
  \A i \in S : Count(fds, i) # 0 => fhs[i] # NULL /\ fhs[i].ref >= Count(fds, i)
Exact(fds, fhs, how) ==
  \A i \in Slots \ StdFDs : fhs[i] # NULL =>
    fhs[i].ref >= 1 /\ ("late" \notin how => fhs[i].ref = Count(fds, i))

LEMMA RefsAsCounts ==
  /\ RefsCoverFds <=> Covered(p_fds, ft_fhs, Sound)
  /\ RefsCoverFds' <=> Covered(p_fds', ft_fhs', Sound')
  /\ OpenedExact <=> Exact(p_fds, ft_fhs, failed)
  /\ OpenedExact' <=> Exact(p_fds', ft_fhs', failed')
  BY Zenon, CountZero DEF RefsCoverFds, OpenedExact, Referring, Count, Covered, Exact

\* sys_open: the slot was empty, so no descriptor refers to it.
LEMMA OpenInv == ASSUME TableInv, NEW p \in Procs, sys_open(p) PROVE TableInv'
<1>1. PICK fd \in FDs, i \in Slots :
        /\ p_fds[p][fd] = FD_FREE /\ ft_fhs[i] = NULL
        /\ ft_fhs' = [ft_fhs EXCEPT ![i] = fh_init(TRUE)]
        /\ p_fds' = [p_fds EXCEPT ![p][fd] = i]
  BY Zenon DEF sys_open
<1>2. TypeOK /\ pc[p] = "run" /\ UNCHANGED <<pc, arg, off, forks, failed>>
  BY Zenon DEF TableInv, sys_open, User
<1>3. PICK fh \in Handle : fh = fh_init(TRUE) /\ fh.ref = 1 /\ fh # NULL
  <2>1. 1 \in 0..(RefMod - 1) /\ 0 \in 0..MaxOff
    BY FileTableAssumption
  <2>2. fh_init(TRUE) \in Handle
    BY Zenon, <2>1 DEF fh_init, Handle
  <2>3. QED
    BY Zenon, <2>2, FileTableAssumption DEF fh_init
<1>4. TypeOK'
  BY Zenon, <1>1, <1>2, <1>3 DEF TypeOK
<1>5. Alone(p)
  BY Zenon, <1>1, <1>2 DEF TypeOK, Alone
<1>6. FdsByPlace(p)'
  BY Zenon, <1>2, <1>4 DEF TypeOK, FdsByPlace
<1>7. \A j \in Slots : /\ ft_fhs'[j] = IF j = i THEN fh ELSE ft_fhs[j]
                       /\ Count(p_fds', j) = Count(p_fds, j) + (IF j = i THEN 1 ELSE 0)
  <2>1. \A j \in Slots : p_fds[p][fd] # j
    BY <1>1, FileTableAssumption DEF Slots, FD_FREE
  <2>2. \A j \in Slots : ft_fhs'[j] = IF j = i THEN fh ELSE ft_fhs[j]
    BY Zenon, <1>1, <1>2, <1>3 DEF TypeOK
  <2>3. p_fds \in Fds /\ i \in Slots \cup {FD_FREE}
    BY Zenon, <1>2 DEF TypeOK, Fds
  <2>4. ASSUME NEW j \in Slots PROVE Count(p_fds', j) = Count(p_fds, j) + (IF j = i THEN 1 ELSE 0)
    <3>1. Count(SetFD(p_fds, p, fd, i), j) =
            Count(p_fds, j) + (IF i = j THEN 1 ELSE 0) - (IF p_fds[p][fd] = j THEN 1 ELSE 0)
      BY <2>3, CountSet
    <3>2. p_fds' = SetFD(p_fds, p, fd, i)
      BY Zenon, <1>1 DEF SetFD
    <3>3. QED
      BY <2>1, <3>1, <3>2, CountFinite
  <2>5. QED
    BY Zenon, <2>2, <2>4
<1>8. Slots \ StdFDs \subseteq Sound /\ Sound \subseteq Slots /\ Sound' = Sound
  BY Zenon, <1>2 DEF Sound
<1>9. i \in Sound => Count(p_fds, i) = 0
  BY Zenon, <1>1, RefsAsCounts DEF TableInv, Covered
<1>10. /\ ft_fhs'[i] # NULL /\ ft_fhs'[i].ref = 1
       /\ i \in Sound => Count(p_fds', i) = 1
  <2>1. fh # NULL /\ fh.ref = 1
    BY Zenon, <1>3
  <2>2. ft_fhs'[i] = fh /\ (i \in Sound => Count(p_fds', i) = 1)
    BY <1>7, <1>9
  <2>3. QED
    BY Zenon, <2>1, <2>2
<1>11. Covered(p_fds', ft_fhs', Sound) /\ Exact(p_fds', ft_fhs', failed)
  <2>1. Covered(p_fds, ft_fhs, Sound) /\ Exact(p_fds, ft_fhs, failed)
    BY Zenon, RefsAsCounts DEF TableInv
  <2>2. ASSUME NEW j \in Sound, Count(p_fds', j) # 0
        PROVE  ft_fhs'[j] # NULL /\ ft_fhs'[j].ref >= Count(p_fds', j)
    <3>1. CASE j = i
      BY <3>1, <1>8, <1>10
    <3>2. CASE j # i
      BY <2>1, <2>2, <3>2, <1>7, <1>8, CountFinite DEF Covered
    <3>3. QED
      BY Zenon, <3>1, <3>2
  <2>3. ASSUME NEW j \in Slots \ StdFDs, ft_fhs'[j] # NULL
        PROVE  ft_fhs'[j].ref >= 1 /\ ("late" \notin failed => ft_fhs'[j].ref = Count(p_fds', j))
    <3>1. CASE j = i
      BY <3>1, <1>8, <1>10
    <3>2. CASE j # i
      BY <2>1, <2>3, <3>2, <1>7, CountFinite DEF Exact
    <3>3. QED
      BY Zenon, <3>1, <3>2
  <2>4. QED
    BY Zenon, <2>2, <2>3 DEF Covered, Exact
<1>12. OffsetStable'
  <2> SUFFICES ASSUME NEW q \in Procs, pc[q] = "io", Using(q)' \in Sound
               PROVE  /\ ft_fhs'[Using(q)'] # NULL
                      /\ ft_fhs'[Using(q)'].off = off[q]
                      /\ ft_fhs'[Using(q)'].use_lock = q
    BY Zenon, <1>2, <1>8 DEF OffsetStable
  <2>1. Using(q)' = Using(q) /\ Using(q) \in Slots
    BY Zenon, <1>2, <1>5, <1>8 DEF Alone, Using
  <2>2. Using(q) # i
    BY Zenon, <1>1, <2>1, <1>8 DEF TableInv, OffsetStable
  <2>3. QED
    BY <1>7, <2>1, <2>2 DEF TableInv, OffsetStable
<1>13. QED
  BY Zenon, <1>2, <1>4, <1>5, <1>6, <1>8, <1>11, <1>12, OthersKept, RefsAsCounts DEF TableInv

\* A failed assertion, and a step that changes nothing.
LEMMA StutterInv ==
  ASSUME TableInv, UNCHANGED <<pc, arg, p_fds, ft_fhs, off, forks, failed>>
  PROVE  TableInv'
<1>1. TypeOK' /\ OneParent' /\ OffsetStable' /\ \A p \in Procs : FdsByPlace(p)'
  BY DEF TableInv, TypeOK, OneParent, OffsetStable, FdsByPlace, InUse, Using, Sound
<1>2. QED
  BY Zenon, <1>1, CountsKept DEF TableInv

\* What happens to the handles of slots other than i is nothing, and the count
\* of slot i goes along with the number of its descriptors: the invariants on
\* the counts are kept.
LEMMA SlotStep ==
  ASSUME TableInv, UNCHANGED failed, NEW i \in Slots,
         \A j \in Slots \ {i} : ft_fhs'[j] = ft_fhs[j] /\ Count(p_fds', j) <= Count(p_fds, j)
                                /\ (j \notin StdFDs => Count(p_fds', j) = Count(p_fds, j)),
         i \in Sound /\ Count(p_fds', i) # 0 =>
           ft_fhs'[i] # NULL /\ ft_fhs'[i].ref >= Count(p_fds', i),
         i \notin StdFDs /\ ft_fhs'[i] # NULL =>
           ft_fhs'[i].ref >= 1 /\ ("late" \notin failed => ft_fhs'[i].ref = Count(p_fds', i))
  PROVE  RefsCoverFds' /\ OpenedExact'
<1>1. Slots \ StdFDs \subseteq Sound /\ Sound \subseteq Slots /\ Sound' = Sound
  BY Zenon DEF Sound
<1>2. Covered(p_fds, ft_fhs, Sound) /\ Exact(p_fds, ft_fhs, failed)
  BY Zenon, RefsAsCounts DEF TableInv
<1>3. ASSUME NEW j \in Sound, Count(p_fds', j) # 0
      PROVE  ft_fhs'[j] # NULL /\ ft_fhs'[j].ref >= Count(p_fds', j)
  <2>1. CASE j # i
    <3>1. Count(p_fds, j) \in Nat /\ Count(p_fds', j) \in Nat /\ j \in Slots \ {i}
      BY Zenon, <1>1, <2>1, CountFinite
    <3>2. Count(p_fds', j) <= Count(p_fds, j) /\ ft_fhs'[j] = ft_fhs[j] /\ Count(p_fds, j) # 0
      BY <1>3, <3>1
    <3>3. ft_fhs[j] # NULL /\ ft_fhs[j].ref >= Count(p_fds, j) /\ ft_fhs[j].ref \in Nat
      BY <1>1, <1>2, <3>2, FileTableAssumption DEF Covered, TableInv, TypeOK, Handle
    <3>4. QED
      BY <3>1, <3>2, <3>3
  <2>2. QED
    BY Zenon, <1>3, <2>1
<1>4. ASSUME NEW j \in Slots \ StdFDs, ft_fhs'[j] # NULL
      PROVE  ft_fhs'[j].ref >= 1 /\ ("late" \notin failed => ft_fhs'[j].ref = Count(p_fds', j))
  BY Zenon, <1>2, <1>4 DEF Exact
<1>5. QED
  BY Zenon, <1>1, <1>3, <1>4, RefsAsCounts DEF Covered, Exact

\* A handle that keeps its offset and the holder of its lock keeps what reads and writes rely on.
LEMMA OffsetKept ==
  ASSUME TableInv, UNCHANGED off, failed \subseteq failed',
         \A q \in Procs : pc'[q] = "io" =>
           pc[q] = "io" /\ arg'[q] = arg[q] /\ p_fds'[q] = p_fds[q],
         \A i \in Slots : ft_fhs[i] # NULL =>
           /\ ft_fhs'[i] # NULL /\ ft_fhs'[i].off = ft_fhs[i].off
           /\ ft_fhs'[i].use_lock = ft_fhs[i].use_lock
  PROVE  OffsetStable'
<1> SUFFICES ASSUME NEW q \in Procs, pc'[q] = "io", Using(q)' \in Sound'
             PROVE  /\ ft_fhs'[Using(q)'] # NULL
                    /\ ft_fhs'[Using(q)'].off = off'[q]
                    /\ ft_fhs'[Using(q)'].use_lock = q
  BY Zenon DEF OffsetStable
<1>1. pc[q] = "io" /\ Using(q)' = Using(q)
  BY Zenon DEF Using
<1>2. Using(q) \in Slots /\ Using(q) \in Sound
  BY Zenon, <1>1 DEF Sound
<1>3. QED
  BY <1>1, <1>2 DEF TableInv, OffsetStable

\* A descriptor of slot i becomes free, and its handle loses a reference or,
\* when no other descriptor refers to it, goes.
LEMMA DropInv ==
  ASSUME TableInv, NEW p \in Procs, NEW fd \in FDs, NEW i \in Slots, p_fds[p][fd] = i,
         NEW cl \in Handle \cup {NULL}, pc[p] \notin {"new", "fork"}, pc'[p] \notin {"fork", "io"},
         ft_fhs' = [ft_fhs EXCEPT ![i] = cl], p_fds' = SetFD(p_fds, p, fd, FD_FREE),
         TypeOK', Alone(p), FdsByPlace(p)', UNCHANGED <<off, forks, failed>>,
         cl # NULL => /\ ft_fhs[i] # NULL /\ ~Last(ft_fhs[i]) /\ cl.ref = ft_fhs[i].ref - 1
                      /\ cl.off = ft_fhs[i].off /\ cl.use_lock = ft_fhs[i].use_lock,
         cl = NULL /\ i \in Sound =>
            \A q \in Procs, g \in FDs : p_fds[q][g] = i => q = p /\ g = fd
  PROVE  TableInv'
<1>1. TypeOK
  BY Zenon DEF TableInv
<1>2. \A j \in Slots : /\ ft_fhs'[j] = IF j = i THEN cl ELSE ft_fhs[j]
                       /\ Count(p_fds', j) = Count(p_fds, j) - (IF j = i THEN 1 ELSE 0)
  <2>1. \A j \in Slots : ft_fhs'[j] = IF j = i THEN cl ELSE ft_fhs[j]
    BY Zenon, <1>1 DEF TypeOK
  <2>2. ASSUME NEW j \in Slots
        PROVE  Count(p_fds', j) = Count(p_fds, j) - (IF j = i THEN 1 ELSE 0)
    <3>1. FD_FREE # j
      BY FileTableAssumption DEF Slots, FD_FREE
    <3>2. Count(SetFD(p_fds, p, fd, FD_FREE), j) =
            Count(p_fds, j) + (IF FD_FREE = j THEN 1 ELSE 0) - (IF p_fds[p][fd] = j THEN 1 ELSE 0)
      BY <1>1, CountSet DEF TypeOK, Fds
    <3>3. QED
      BY <3>1, <3>2, CountFinite
  <2>3. QED
    BY Zenon, <2>1, <2>2
<1>3. Count(p_fds, i) \in Nat /\ Count(p_fds, i) >= 1
  BY Zenon, CountInUse, CountFinite
<1>4. /\ cl = NULL /\ i \in Sound => Count(p_fds, i) = 1
      /\ cl # NULL /\ i \in Sound => ft_fhs[i].ref >= Count(p_fds, i)
      /\ cl # NULL /\ i \notin StdFDs => ("late" \notin failed => ft_fhs[i].ref = Count(p_fds, i))
      /\ cl # NULL => ft_fhs[i].ref \in Nat /\ ft_fhs[i].ref >= 2
  <2>1. ASSUME cl = NULL, i \in Sound PROVE Count(p_fds, i) = 1
    <3>1. RefsTo(p_fds, i) = {<<p, fd>>}
      BY <2>1 DEF RefsTo
    <3>2. Cardinality({<<p, fd>>}) = 1
      BY Zenon, FS_Singleton
    <3>3. QED
      BY Zenon, <3>1, <3>2 DEF Count
  <2>2. ASSUME cl # NULL
        PROVE  /\ i \in Sound => ft_fhs[i].ref >= Count(p_fds, i)
               /\ i \notin StdFDs => ("late" \notin failed => ft_fhs[i].ref = Count(p_fds, i))
    BY <1>3, <2>2, RefsAsCounts DEF TableInv, Covered, Exact
  <2>3. ASSUME cl # NULL PROVE ft_fhs[i].ref \in Nat /\ ft_fhs[i].ref >= 2
    <3>1. ft_fhs[i] \in Handle
      BY Zenon, <1>1, <2>3 DEF TypeOK
    <3>2. ft_fhs[i].ref \in Nat
      BY <3>1, FileTableAssumption DEF Handle
    <3>3. QED
      BY <2>3, <3>2 DEF Last
  <2>4. QED
    BY Zenon, <2>1, <2>2, <2>3
<1>5. RefsCoverFds' /\ OpenedExact'
  <2>1. ft_fhs'[i] = cl /\ Count(p_fds', i) = Count(p_fds, i) - 1
    BY Zenon, <1>2
  <2>2. i \in Sound /\ Count(p_fds', i) # 0 =>
          ft_fhs'[i] # NULL /\ ft_fhs'[i].ref >= Count(p_fds', i)
    BY <1>3, <1>4, <2>1
  <2>3. i \notin StdFDs /\ ft_fhs'[i] # NULL =>
          ft_fhs'[i].ref >= 1 /\ ("late" \notin failed => ft_fhs'[i].ref = Count(p_fds', i))
    BY <1>3, <1>4, <2>1
  <2>4. \A j \in Slots \ {i} : ft_fhs'[j] = ft_fhs[j] /\ Count(p_fds', j) = Count(p_fds, j)
    BY <1>2, CountFinite
  <2>5. QED
    BY <2>2, <2>3, <2>4, SlotStep, CountFinite
<1>6. OffsetStable'
  <2> SUFFICES ASSUME NEW q \in Procs, pc'[q] = "io", Using(q)' \in Sound'
               PROVE  /\ ft_fhs'[Using(q)'] # NULL
                      /\ ft_fhs'[Using(q)'].off = off'[q]
                      /\ ft_fhs'[Using(q)'].use_lock = q
    BY Zenon DEF OffsetStable
  <2>1. q # p /\ pc[q] = "io"
    BY Zenon DEF Alone
  <2>2. Using(q)' = Using(q) /\ Using(q) \in Slots /\ Using(q) \in Sound
    BY Zenon, <2>1 DEF Alone, Using, Sound
  <2>3. /\ ft_fhs[Using(q)] # NULL /\ ft_fhs[Using(q)].off = off[q]
        /\ ft_fhs[Using(q)].use_lock = q
    BY Zenon, <2>1, <2>2 DEF TableInv, OffsetStable
  <2>4. CASE Using(q) # i
    BY Zenon, <1>2, <2>2, <2>3, <2>4
  <2>5. CASE Using(q) = i
    <3>1. arg[q].fd \in FDs /\ p_fds[q][arg[q].fd] = i
      BY Zenon, <2>1, <2>5 DEF TableInv, FdsByPlace, InUse, Using
    <3>2. cl # NULL
      BY Zenon, <2>1, <2>2, <2>5, <3>1
    <3>3. QED
      BY Zenon, <1>2, <2>2, <2>3, <2>5, <3>2
  <2>6. QED
    BY Zenon, <2>4, <2>5
<1>7. QED
  BY Zenon, <1>5, <1>6, OthersKept DEF TableInv

\* ft_close, as close, dup2 and exit call it, up to the decision of fh_close.
LEMMA CloseInv ==
  ASSUME TableInv, NEW p \in Procs, NEW fd \in FDs, p_fds[p][fd] # FD_FREE,
         NEW l \in {"run", "dup", "exit"}, CloseFD(p, fd, l), pc[p] \notin {"new", "fork"},
         l = "dup" => pc[p] = "dup_close" /\ fd = arg[p].new
  PROVE  TableInv'
<1>0. PICK i : i = p_fds[p][fd]
  BY Zenon
<1>1. TypeOK /\ i \in Slots
  <2>1. TypeOK
    BY Zenon DEF TableInv
  <2>2. p_fds[p][fd] \in Slots \cup {FD_FREE}
    BY Zenon, <2>1, TypeOf
  <2>3. QED
    BY Zenon, <1>0, <2>1, <2>2
<1>2. CASE ft_fhs[i] = NULL
  BY Zenon, <1>0, <1>2, StutterInv DEF CloseFD, Fail
<1>3. CASE ft_fhs[i] # NULL /\ ~Last(ft_fhs[i])
  <2>1. PICK cl \in Handle :
          /\ ft_fhs' = [ft_fhs EXCEPT ![i] = cl] /\ cl.ref = ft_fhs[i].ref - 1
          /\ cl.off = ft_fhs[i].off /\ cl.use_lock = ft_fhs[i].use_lock
    <3>1. ft_fhs[i] \in Handle
      BY Zenon, <1>1, <1>3 DEF TypeOK
    <3>2. ft_fhs' = [ft_fhs EXCEPT ![i] = AddRef(ft_fhs[i], -1)]
      BY Zenon, <1>0, <1>3 DEF CloseFD
    <3>3. QED
      BY Zenon, <1>3, <3>1, <3>2, HandleCounts
  <2>2. /\ p_fds' = SetFD(p_fds, p, fd, FD_FREE) /\ pc' = [pc EXCEPT ![p] = l]
        /\ UNCHANGED <<arg, off, forks, failed>>
    BY Zenon, <1>0, <1>3 DEF CloseFD, Goto, SetFD
  <2>3. TypeOK'
    BY Zenon, <1>1, <2>1, <2>2 DEF TypeOK, SetFD
  <2>4. Alone(p) /\ pc'[p] = l /\ arg'[p] = arg[p]
        /\ \A g \in FDs : p_fds'[p][g] = IF g = fd THEN FD_FREE ELSE p_fds[p][g]
    BY Zenon, <1>1, <2>2 DEF TypeOK, Alone, SetFD
  <2>5. FdsByPlace(p)'
    BY <2>4 DEF TableInv, FdsByPlace, InUse
  <2>6. QED
    BY Zenon, <1>0, <1>1, <1>3, <2>1, <2>2, <2>3, <2>4, <2>5, DropInv, FileTableAssumption
<1>4. CASE ft_fhs[i] # NULL /\ Last(ft_fhs[i])
  <2>1. /\ UNCHANGED <<p_fds, ft_fhs, off, forks, failed>> /\ pc' = [pc EXCEPT ![p] = "free"]
        /\ arg' = [arg EXCEPT ![p] = [arg[p] EXCEPT !.gone = fd, !.to = l]]
    BY Zenon, <1>0, <1>4 DEF CloseFD, Call, Goto
  <2>2. [arg[p] EXCEPT !.gone = fd, !.to = l] \in Args /\ arg[p] \in Args
    BY Zenon, <1>1, ArgsType DEF TypeOK
  <2>3. TypeOK'
    BY Zenon, <1>1, <2>1, <2>2 DEF TypeOK
  <2>4. Alone(p) /\ pc'[p] = "free"
    BY Zenon, <1>1, <2>1 DEF TypeOK, Alone
  <2>5. /\ arg'[p].gone = fd /\ arg'[p].to = l /\ arg'[p].fd = arg[p].fd /\ arg'[p].new = arg[p].new
    BY Zenon, <1>1, <2>1, <2>2 DEF TypeOK, Args
  <2>6. FdsByPlace(p)'
    BY Zenon, <2>1, <2>4, <2>5 DEF TableInv, FdsByPlace, InUse
  <2>7. OffsetStable'
    BY Zenon, <2>1, <2>4, OffsetKept DEF Alone
  <2>8. QED
    BY Zenon, <2>1, <2>3, <2>4, <2>6, <2>7, OthersKept, CountsKept DEF TableInv
<1>5. QED
  BY Zenon, <1>2, <1>3, <1>4

\* The rest of fh_close: nobody else refers to the handle that is freed.
LEMMA FreeInv ==
  ASSUME TableInv, FreedAlone, NEW p \in Procs, fh_close(p)
  PROVE  TableInv'
<1>0. PICK fd, i, l : fd = arg[p].gone /\ i = p_fds[p][fd] /\ l = arg[p].to
  BY Zenon
<1>1. /\ TypeOK /\ pc[p] = "free" /\ fd \in FDs /\ i \in Slots /\ arg[p] \in Args
      /\ l \in {"run", "dup", "exit"} /\ 0 \in FDs
  <2>1. TypeOK /\ FdsByPlace(p) /\ pc[p] = "free"
    BY Zenon DEF TableInv, fh_close
  <2>2. fd \in FDs /\ i # FD_FREE /\ arg[p] \in Args
    BY Zenon, <1>0, <2>1 DEF FdsByPlace, InUse, TypeOK
  <2>3. i \in Slots /\ l \in {"run", "dup", "exit"}
    <3>1. p_fds[p][fd] \in Slots \cup {FD_FREE} /\ arg[p].to \in {"run", "dup", "exit"}
      BY Zenon, <2>1, <2>2, TypeOf
    <3>2. QED
      BY Zenon, <1>0, <2>2, <3>1
  <2>4. QED
    BY Zenon, <2>1, <2>2, <2>3, FileTableAssumption, ArgsType DEF Args, NoArg
<1>2. /\ ft_fhs' = [ft_fhs EXCEPT ![i] = NULL] /\ p_fds' = SetFD(p_fds, p, fd, FD_FREE)
      /\ pc' = [pc EXCEPT ![p] = l]
      /\ arg' = [arg EXCEPT ![p] = [arg[p] EXCEPT !.gone = 0, !.to = "run"]]
      /\ UNCHANGED <<off, forks, failed>>
  BY Zenon, <1>0 DEF fh_close, Call, Goto, SetFD
<1>3. /\ [arg[p] EXCEPT !.gone = 0, !.to = "run"] \in Args
      /\ arg'[p].fd = arg[p].fd /\ arg'[p].new = arg[p].new
  <2>1. \A a \in Args : LET b == [a EXCEPT !.gone = 0, !.to = "run"] IN
                       b \in Args /\ b.fd = a.fd /\ b.new = a.new
    BY Zenon, <1>1, ArgsType DEF Args
  <2>2. arg'[p] = [arg[p] EXCEPT !.gone = 0, !.to = "run"]
    BY Zenon, <1>1, <1>2 DEF TypeOK
  <2>3. QED
    BY Zenon, <1>1, <2>1, <2>2
<1>4. TypeOK'
  BY Zenon, <1>1, <1>2, <1>3 DEF TypeOK, SetFD
<1>5. Alone(p) /\ pc'[p] = l /\ \A g \in FDs : p_fds'[p][g] = IF g = fd THEN FD_FREE ELSE p_fds[p][g]
  BY Zenon, <1>1, <1>2 DEF TypeOK, Alone, SetFD
<1>6. FdsByPlace(p)'
  BY <1>0, <1>1, <1>3, <1>5 DEF TableInv, FdsByPlace, InUse
<1>7. i \in Sound => \A q \in Procs, g \in FDs : p_fds[q][g] = i => q = p /\ g = fd
  <2>1. i \in Sound => p_fds[p][arg[p].gone] \in Sound
    BY Zenon, <1>0
  <2>2. i \in Sound => \A q \in Procs, g \in FDs :
          p_fds[q][g] = p_fds[p][arg[p].gone] => q = p /\ g = arg[p].gone
    BY Zenon, <1>1, <2>1 DEF FreedAlone
  <2>3. QED
    BY Zenon, <1>0, <2>2
<1>8. /\ p_fds[p][fd] = i /\ pc[p] \notin {"new", "fork"} /\ pc'[p] \notin {"fork", "io"}
      /\ NULL \in Handle \cup {NULL}
  BY Zenon, <1>0, <1>1, <1>5
<1>9. QED
  BY ZenonT(30), <1>1, <1>2, <1>4, <1>5, <1>6, <1>7, <1>8, DropInv

\* dup2: the handle gets a reference for the new descriptor.
LEMMA DupInv ==
  ASSUME TableInv, CountsBelowMax, NEW p \in Procs, dup2_incref(p)
  PROVE  TableInv'
<1> DEFINE i == p_fds[p][arg[p].fd]
           fh == ft_fhs[i]
           up == AddRef(fh, 1)
<1>1. /\ TypeOK /\ pc[p] = "dup" /\ arg[p].fd \in FDs /\ arg[p].new \in FDs /\ i \in Slots
      /\ p_fds[p][arg[p].new] = FD_FREE /\ fh # NULL
  <2>1. TypeOK /\ FdsByPlace(p) /\ pc[p] = "dup" /\ fh # NULL
    BY Zenon DEF TableInv, dup2_incref
  <2>2. /\ arg[p] \in Args /\ arg[p].fd \in FDs /\ i # FD_FREE
        /\ p_fds[p][arg[p].new] = FD_FREE
    BY Zenon, <2>1 DEF TypeOK, FdsByPlace, InUse
  <2>3. arg[p].new \in FDs /\ i \in Slots \cup {FD_FREE}
    BY Zenon, <2>1, <2>2, TypeOf
  <2>4. QED
    BY Zenon, <2>1, <2>2, <2>3
<1>2. /\ ft_fhs' = [ft_fhs EXCEPT ![i] = up]
      /\ p_fds' = SetFD(p_fds, p, arg[p].new, i)
      /\ pc' = [pc EXCEPT ![p] = "run"]
      /\ UNCHANGED <<arg, off, forks, failed>>
  BY Zenon DEF dup2_incref, Goto, SetFD
<1>3. /\ fh.ref \in Nat /\ up \in Handle /\ up # NULL
      /\ up.off = fh.off /\ up.use_lock = fh.use_lock
      /\ i \in Sound => up.ref = fh.ref + 1
  <2>1. fh \in Handle
    BY Zenon, <1>1 DEF TypeOK
  <2>2. fh.ref \in 0..(RefMod - 1)
    BY Zenon, <2>1 DEF Handle
  <2>3. i \in Sound => fh.ref + 1 \in 0..(RefMod - 1)
    BY <1>1, <2>2, FileTableAssumption DEF CountsBelowMax
  <2>4. fh.ref \in Nat
    BY <2>2, FileTableAssumption
  <2> HIDE DEF fh
  <2>5. /\ up \in Handle /\ up # NULL /\ up.off = fh.off /\ up.use_lock = fh.use_lock
        /\ (fh.ref + 1 \in 0..(RefMod - 1) => up.ref = fh.ref + 1)
    BY Zenon, <2>1, HandleCounts
  <2>6. QED
    BY Zenon, <2>3, <2>4, <2>5
<1> HIDE DEF i, fh, up
<1>4. TypeOK'
  BY Zenon, <1>1, <1>2, <1>3 DEF TypeOK, SetFD
<1>5. Alone(p) /\ pc'[p] = "run"
  BY Zenon, <1>1, <1>2 DEF TypeOK, Alone, SetFD
<1>6. FdsByPlace(p)'
  BY Zenon, <1>5 DEF FdsByPlace
<1>7. \A j \in Slots : /\ ft_fhs'[j] = IF j = i THEN up ELSE ft_fhs[j]
                       /\ Count(p_fds', j) = Count(p_fds, j) + (IF j = i THEN 1 ELSE 0)
  <2>1. \A j \in Slots : ft_fhs'[j] = IF j = i THEN up ELSE ft_fhs[j]
    BY Zenon, <1>1, <1>2 DEF TypeOK
  <2>2. ASSUME NEW j \in Slots
        PROVE  Count(p_fds', j) = Count(p_fds, j) + (IF j = i THEN 1 ELSE 0)
    <3>1. p_fds[p][arg[p].new] # j
      BY <1>1, FileTableAssumption DEF Slots, FD_FREE
    <3>2. Count(SetFD(p_fds, p, arg[p].new, i), j) =
            Count(p_fds, j) + (IF i = j THEN 1 ELSE 0)
              - (IF p_fds[p][arg[p].new] = j THEN 1 ELSE 0)
      BY SMTT(20), <1>1, CountSet DEF TypeOK, Fds
    <3>3. QED
      BY <1>2, <3>1, <3>2, CountFinite
  <2>3. QED
    BY Zenon, <2>1, <2>2
<1>8. RefsCoverFds' /\ OpenedExact'
  <2>1. /\ ft_fhs'[i] = up /\ Count(p_fds', i) = Count(p_fds, i) + 1
        /\ Count(p_fds, i) \in Nat /\ Count(p_fds, i) >= 1
    BY Zenon, <1>1, <1>7, CountInUse, CountFinite DEF i
  <2>2. /\ i \in Sound => fh.ref >= Count(p_fds, i)
        /\ i \notin StdFDs => i \in Sound /\ ("late" \notin failed => fh.ref = Count(p_fds, i))
    BY <1>1, <2>1, RefsAsCounts DEF TableInv, Covered, Exact, fh, Sound
  <2>3. \A j \in Slots \ {i} : ft_fhs'[j] = ft_fhs[j] /\ Count(p_fds', j) = Count(p_fds, j)
    BY <1>7, CountFinite
  <2>4. i \in Sound /\ Count(p_fds', i) # 0 =>
          ft_fhs'[i] # NULL /\ ft_fhs'[i].ref >= Count(p_fds', i)
    BY <1>3, <2>1, <2>2
  <2>5. i \notin StdFDs /\ ft_fhs'[i] # NULL =>
          ft_fhs'[i].ref >= 1 /\ ("late" \notin failed => ft_fhs'[i].ref = Count(p_fds', i))
    BY <1>3, <2>1, <2>2
  <2>6. QED
    BY <1>1, <1>2, <2>3, <2>4, <2>5, SlotStep, CountFinite DEF fh
<1>9. OffsetStable'
  <2>1. \A j \in Slots : ft_fhs[j] # NULL =>
          /\ ft_fhs'[j] # NULL /\ ft_fhs'[j].off = ft_fhs[j].off
          /\ ft_fhs'[j].use_lock = ft_fhs[j].use_lock
    BY Zenon, <1>3, <1>7 DEF fh
  <2>2. QED
    BY Zenon, <1>2, <1>5, <2>1, OffsetKept DEF Alone
<1>10. QED
  BY Zenon, <1>1, <1>4, <1>5, <1>6, <1>8, <1>9, OthersKept DEF TableInv

\* lseek, read and write: only the holder of fh_use_lock moves the offset.
LEMMA UseInv ==
  ASSUME TableInv, NEW p \in Procs, sys_lseek(p) \/ readwrite_start(p) \/ readwrite_end(p)
  PROVE  TableInv'
<1> DEFINE i == Using(p)
<1>1. /\ TypeOK /\ pc[p] \in {"use", "io"} /\ arg[p].fd \in FDs /\ i \in Slots
      /\ ft_fhs[i] # NULL /\ ft_fhs[i] \in Handle
      /\ UNCHANGED <<arg, p_fds, forks, failed>>
  <2>1. TypeOK /\ FdsByPlace(p)
    BY Zenon DEF TableInv
  <2>2. /\ pc[p] \in {"use", "io"} /\ ft_fhs[i] # NULL
        /\ UNCHANGED <<arg, p_fds, forks, failed>>
    BY Zenon DEF sys_lseek, readwrite_start, readwrite_end
  <2>3. arg[p].fd \in FDs /\ i \in Slots
    BY <2>1, <2>2 DEF TypeOK, FdsByPlace, InUse, Using
  <2>4. QED
    BY Zenon, <2>1, <2>2, <2>3 DEF TypeOK
<1>2. PICK o \in 0..MaxOff, u \in Procs \cup {NoProc}, l \in {"run", "io"}, n \in 0..MaxOff :
        /\ ft_fhs' = [ft_fhs EXCEPT ![i] = WithOffset(ft_fhs[i], o, u)]
        /\ pc' = [pc EXCEPT ![p] = l]
        /\ off' = [off EXCEPT ![p] = n]
        /\ ft_fhs[i].use_lock \in {NoProc, p} \/ i \notin Sound
        /\ l = "io" => u = p /\ n = o
  <2>1. CASE sys_lseek(p)
    <3>1. PICK o \in 0..MaxOff : ft_fhs' = [ft_fhs EXCEPT ![i].off = o]
      BY Zenon, <2>1 DEF sys_lseek
    <3>2. [ft_fhs[i] EXCEPT !.off = o] = WithOffset(ft_fhs[i], o, NoProc)
      BY Zenon, <1>1, <2>1 DEF sys_lseek, Handle, WithOffset
    <3>3. off' = [off EXCEPT ![p] = off[p]] /\ off[p] \in 0..MaxOff
      BY Zenon, <1>1, <2>1 DEF sys_lseek, TypeOK
    <3>4. ft_fhs' = [ft_fhs EXCEPT ![i] = WithOffset(ft_fhs[i], o, NoProc)]
      BY Zenon, <1>1, <3>1, <3>2 DEF TypeOK
    <3>5. pc' = [pc EXCEPT ![p] = "run"] /\ ft_fhs[i].use_lock = NoProc
      BY Zenon, <2>1 DEF sys_lseek, Goto
    <3>6. QED
      BY Zenon, <3>3, <3>4, <3>5
  <2>2. CASE readwrite_start(p)
    <3>1. ft_fhs[i].off \in 0..MaxOff
      BY Zenon, <1>1 DEF Handle
    <3>2. [ft_fhs[i] EXCEPT !.use_lock = p] =
            WithOffset(ft_fhs[i], ft_fhs[i].off, p)
      BY Zenon, <1>1 DEF Handle, WithOffset
    <3>3. ft_fhs' = [ft_fhs EXCEPT ![i] = WithOffset(ft_fhs[i], ft_fhs[i].off, p)]
      BY Zenon, <1>1, <2>2, <3>2 DEF readwrite_start, TypeOK
    <3>4. /\ pc' = [pc EXCEPT ![p] = "io"] /\ off' = [off EXCEPT ![p] = ft_fhs[i].off]
          /\ ft_fhs[i].use_lock = NoProc
      BY Zenon, <2>2 DEF readwrite_start, Goto
    <3>5. QED
      BY Zenon, <3>1, <3>3, <3>4
  <2>3. CASE readwrite_end(p)
    <3>1. PICK n \in 0..(MaxOff - off[p]) :
            ft_fhs' = [ft_fhs EXCEPT ![i].off = off[p] + n, ![i].use_lock = NoProc]
      BY Zenon, <2>3 DEF readwrite_end
    <3>2. off[p] + n \in 0..MaxOff /\ 0 \in 0..MaxOff
      BY <1>1, <3>1, FileTableAssumption DEF TypeOK
    <3>3. ft_fhs' = [ft_fhs EXCEPT ![i] = WithOffset(ft_fhs[i], off[p] + n, NoProc)]
      BY Zenon, <1>1, <3>1 DEF TypeOK, WithOffset
    <3>4. pc' = [pc EXCEPT ![p] = "run"] /\ off' = [off EXCEPT ![p] = 0] /\ pc[p] = "io"
      BY Zenon, <2>3 DEF readwrite_end, Goto
    <3>5. ft_fhs[i].use_lock = p \/ i \notin Sound
      BY Zenon, <3>4 DEF TableInv, OffsetStable
    <3>6. QED
      BY Zenon, <3>2, <3>3, <3>4, <3>5
  <2>4. QED
    BY Zenon, <2>1, <2>2, <2>3
<1> HIDE DEF i
<1>3. \A j \in Slots : ft_fhs'[j] =
        IF j = i THEN WithOffset(ft_fhs[i], o, u) ELSE ft_fhs[j]
  BY Zenon, <1>1, <1>2 DEF TypeOK
<1>4. /\ ft_fhs'[i] \in Handle /\ ft_fhs'[i] # NULL /\ ft_fhs'[i].ref = ft_fhs[i].ref
      /\ ft_fhs'[i].off = o /\ ft_fhs'[i].use_lock = u
  <2> DEFINE new == WithOffset(ft_fhs[i], o, u)
  <2>1. new \in Handle /\ new.ref = ft_fhs[i].ref /\ new.off = o /\ new.use_lock = u
    BY <1>1, HandleFields
  <2>2. ft_fhs'[i] = new
    BY Zenon, <1>1, <1>3
  <2> HIDE DEF new
  <2>3. QED
    BY Zenon, <2>1, <2>2, FileTableAssumption
<1>5. TypeOK'
  <2>1. ft_fhs' \in [Slots -> Handle \cup {NULL}]
    BY Zenon, <1>1, <1>2, <1>4 DEF TypeOK
  <2>2. QED
    BY Zenon, <1>1, <1>2, <2>1 DEF TypeOK
<1>6. Alone(p) /\ pc'[p] = l /\ off'[p] = n /\ \A q \in Procs \ {p} : off'[q] = off[q]
  BY Zenon, <1>1, <1>2 DEF TypeOK, Alone
<1>7. FdsByPlace(p)'
  BY Zenon, <1>1, <1>2, <1>6 DEF TableInv, FdsByPlace, InUse
<1>8. RefsCoverFds' /\ OpenedExact'
  <2>1. \A j \in Slots : Count(p_fds', j) = Count(p_fds, j) /\ Count(p_fds, j) \in Nat
    BY Zenon, <1>1, CountFinite
  <2>2. /\ i \in Sound /\ Count(p_fds', i) # 0 =>
            ft_fhs'[i] # NULL /\ ft_fhs'[i].ref >= Count(p_fds', i)
        /\ i \notin StdFDs /\ ft_fhs'[i] # NULL =>
            ft_fhs'[i].ref >= 1 /\ ("late" \notin failed => ft_fhs'[i].ref = Count(p_fds', i))
    BY Zenon, <1>1, <1>4, <2>1, RefsAsCounts DEF TableInv, Covered, Exact
  <2>3. \A j \in Slots \ {i} : ft_fhs'[j] = ft_fhs[j]
    BY Zenon, <1>3
  <2>4. QED
    BY <1>1, <2>1, <2>2, <2>3, SlotStep
<1>9. OffsetStable'
  <2> SUFFICES ASSUME NEW q \in Procs, pc'[q] = "io", Using(q)' \in Sound'
               PROVE  /\ ft_fhs'[Using(q)'] # NULL
                      /\ ft_fhs'[Using(q)'].off = off'[q]
                      /\ ft_fhs'[Using(q)'].use_lock = q
    BY Zenon DEF OffsetStable
  <2>1. Using(q)' = Using(q) /\ Using(q) \in Slots /\ Using(q) \in Sound
    BY Zenon, <1>1 DEF Using, Sound
  <2>2. CASE q = p
    BY Zenon, <1>2, <1>4, <1>6, <2>1, <2>2 DEF i
  <2>3. CASE q # p
    <3>1. pc[q] = "io" /\ off'[q] = off[q]
      BY Zenon, <1>6, <2>3 DEF Alone
    <3>2. /\ ft_fhs[Using(q)] # NULL /\ ft_fhs[Using(q)].off = off[q]
          /\ ft_fhs[Using(q)].use_lock = q
      BY Zenon, <2>1, <3>1 DEF TableInv, OffsetStable
    <3>3. Using(q) # i
      BY Zenon, <1>2, <2>1, <2>3, <3>2, FileTableAssumption
    <3>4. QED
      BY Zenon, <1>3, <2>1, <3>1, <3>2, <3>3
  <2>4. QED
    BY Zenon, <2>2, <2>3
<1>10. QED
  BY Zenon, <1>1, <1>2, <1>5, <1>6, <1>7, <1>8, <1>9, OthersKept DEF TableInv

\* The console's slots and descriptors are among the others.
LEMMA StdRanges ==
  /\ StdFDs \subseteq FDs /\ StdFDs \subseteq Slots /\ FD_FREE \notin Slots
  /\ \A fd \in FDs : Fresh(fd) \in Slots \cup {FD_FREE} /\ (Fresh(fd) \in Slots => Fresh(fd) \in StdFDs)
<1>1. StdFDs \subseteq FDs /\ StdFDs \subseteq Slots /\ FD_FREE \notin Slots
  BY FileTableAssumption DEF StdFDs, FDs, Slots, FD_FREE
<1>2. QED
  BY Zenon, <1>1 DEF Fresh

\* proc_create when kstrdup fails: the console's counts are not to be relied on.
LEMMA StrdupInv == ASSUME TableInv, NEW p \in Procs, proc_create_strdup(p) PROVE TableInv'
<1>1. CASE StdGone
  BY Zenon, <1>1, StutterInv DEF proc_create_strdup, Fail
<1>2. CASE ~StdGone
  <2>1. /\ TypeOK /\ ft_fhs' = StdRefs(-1) /\ forks < MaxForks /\ forks' = forks + 1
        /\ failed' = failed \cup {"strdup"} /\ UNCHANGED <<pc, arg, p_fds, off>>
    BY Zenon, <1>2 DEF TableInv, proc_create_strdup
  <2>2. \A i \in Slots : /\ ft_fhs'[i] \in Handle \cup {NULL}
                         /\ i \notin StdFDs => ft_fhs'[i] = ft_fhs[i]
                         /\ ft_fhs[i] # NULL => /\ ft_fhs'[i] # NULL /\ ft_fhs'[i].off = ft_fhs[i].off
                                                /\ ft_fhs'[i].use_lock = ft_fhs[i].use_lock
    <3> SUFFICES ASSUME NEW i \in Slots
                 PROVE  /\ ft_fhs'[i] \in Handle \cup {NULL}
                        /\ i \notin StdFDs => ft_fhs'[i] = ft_fhs[i]
                        /\ ft_fhs[i] # NULL => /\ ft_fhs'[i] # NULL /\ ft_fhs'[i].off = ft_fhs[i].off
                                               /\ ft_fhs'[i].use_lock = ft_fhs[i].use_lock
      BY Zenon
    <3>1. CASE i \in StdFDs
      <4>1. ft_fhs[i] \in Handle /\ ft_fhs'[i] = AddRef(ft_fhs[i], -1)
        BY Zenon, <1>2, <2>1, <3>1 DEF TypeOK, StdGone, StdRefs
      <4>2. QED
        BY Zenon, <3>1, <4>1, HandleCounts
    <3>2. CASE i \notin StdFDs
      BY Zenon, <2>1, <3>2 DEF TypeOK, StdRefs
    <3>3. QED
      BY Zenon, <3>1, <3>2
  <2>3. TypeOK'
    <3>1. DOMAIN ft_fhs' = Slots /\ ft_fhs' = [i \in Slots |-> ft_fhs'[i]]
      BY Zenon, <2>1 DEF StdRefs
    <3>2. ft_fhs' \in [Slots -> Handle \cup {NULL}]
      BY Zenon, <2>2, <3>1
    <3>3. forks' \in 0..MaxForks
      BY <2>1, FileTableAssumption DEF TypeOK
    <3>4. QED
      BY Zenon, <2>1, <3>2, <3>3 DEF TypeOK
  <2>4. OneParent' /\ \A q \in Procs : FdsByPlace(q)'
    BY Zenon, <2>1 DEF TableInv, OneParent, FdsByPlace, InUse
  <2>5. RefsCoverFds' /\ OpenedExact'
    <3>1. Sound' = Slots \ StdFDs /\ Slots \ StdFDs \subseteq Sound
      BY Zenon, <2>1 DEF Sound
    <3>2. Covered(p_fds, ft_fhs, Sound) /\ Exact(p_fds, ft_fhs, failed)
      BY Zenon, RefsAsCounts DEF TableInv
    <3>3. Covered(p_fds, ft_fhs', Slots \ StdFDs) /\ Exact(p_fds, ft_fhs', failed')
      BY Zenon, <2>1, <2>2, <3>1, <3>2 DEF Covered, Exact
    <3>4. QED
      BY Zenon, <2>1, <3>1, <3>3, RefsAsCounts
  <2>6. OffsetStable'
    BY Zenon, <2>1, <2>2, OffsetKept
  <2>7. QED
    BY Zenon, <2>3, <2>4, <2>5, <2>6 DEF TableInv
<1>3. QED
  BY Zenon, <1>1, <1>2

\* proc_create: each of the console's handles gets a reference for the child.
LEMMA CreateInv ==
  ASSUME TableInv, CountsBelowMax, NEW p \in Procs, proc_create(p)
  PROVE  TableInv'
<1>1. CASE StdGone
  BY Zenon, <1>1, StutterInv DEF proc_create, Fail
<1>2. CASE ~StdGone
  <2> DEFINE std == [fd \in FDs |-> IF fd \in StdFDs THEN fd ELSE FD_FREE]
  <2>1. /\ TypeOK /\ pc[p] = "run" /\ ft_fhs' = StdRefs(1)
        /\ forks < MaxForks /\ forks' = forks + 1 /\ UNCHANGED <<off, failed>>
    BY Zenon, <1>2 DEF TableInv, proc_create
  <2>2. PICK c \in Procs : /\ pc[c] = "none"
                           /\ pc' = [pc EXCEPT ![p] = "fork", ![c] = "new"]
                           /\ arg' = [arg EXCEPT ![p] = [NoArg EXCEPT !.child = c]]
                           /\ p_fds' = [p_fds EXCEPT ![c] = std]
    BY Zenon, <1>2 DEF proc_create
  <2> HIDE DEF std
  <2>3. /\ c # p /\ pc'[p] = "fork" /\ pc'[c] = "new" /\ p_fds'[c] = std
        /\ \A q \in Procs \ {c} : p_fds'[q] = p_fds[q]
        /\ \A q \in Procs \ {p, c} : pc'[q] = pc[q] /\ arg'[q] = arg[q]
    BY Zenon, <2>1, <2>2 DEF TypeOK
  <2>4. /\ [NoArg EXCEPT !.child = c] \in Args
        /\ arg'[p].child = c
    <3>1. [NoArg EXCEPT !.child = c] \in Args /\ [NoArg EXCEPT !.child = c].child = c
      BY Zenon, ArgsType DEF Args
    <3>2. QED
      BY Zenon, <2>1, <2>2, <3>1 DEF TypeOK
  <2>5. \A i \in Slots : /\ ft_fhs'[i] \in Handle \cup {NULL}
                         /\ i \notin StdFDs => ft_fhs'[i] = ft_fhs[i]
                         /\ i \in StdFDs => /\ ft_fhs'[i] # NULL /\ ft_fhs[i].ref \in Nat
                                            /\ i \in Sound => ft_fhs'[i].ref = ft_fhs[i].ref + 1
                         /\ ft_fhs[i] # NULL => /\ ft_fhs'[i] # NULL /\ ft_fhs'[i].off = ft_fhs[i].off
                                                /\ ft_fhs'[i].use_lock = ft_fhs[i].use_lock
    <3> SUFFICES ASSUME NEW i \in Slots
                 PROVE  /\ ft_fhs'[i] \in Handle \cup {NULL}
                        /\ i \notin StdFDs => ft_fhs'[i] = ft_fhs[i]
                        /\ i \in StdFDs => /\ ft_fhs'[i] # NULL /\ ft_fhs[i].ref \in Nat
                                           /\ i \in Sound => ft_fhs'[i].ref = ft_fhs[i].ref + 1
                        /\ ft_fhs[i] # NULL => /\ ft_fhs'[i] # NULL /\ ft_fhs'[i].off = ft_fhs[i].off
                                               /\ ft_fhs'[i].use_lock = ft_fhs[i].use_lock
      BY Zenon
    <3>1. CASE i \in StdFDs
      <4>1. ft_fhs[i] \in Handle /\ ft_fhs'[i] = AddRef(ft_fhs[i], 1) /\ ft_fhs[i] # NULL
        BY Zenon, <1>2, <2>1, <3>1 DEF TypeOK, StdGone, StdRefs
      <4>2. ft_fhs[i].ref \in 0..(RefMod - 1)
        BY Zenon, <4>1 DEF Handle
      <4>3. i \in Sound => ft_fhs[i].ref + 1 \in 0..(RefMod - 1)
        BY <4>1, <4>2, FileTableAssumption DEF CountsBelowMax
      <4>4. QED
        BY <3>1, <4>1, <4>2, <4>3, HandleCounts, FileTableAssumption
    <3>2. CASE i \notin StdFDs
      BY Zenon, <2>1, <3>2 DEF TypeOK, StdRefs
    <3>3. QED
      BY Zenon, <3>1, <3>2
  <2>6. TypeOK'
    <3>1. DOMAIN ft_fhs' = Slots /\ ft_fhs' = [i \in Slots |-> ft_fhs'[i]]
      BY Zenon, <2>1 DEF StdRefs
    <3>2. ft_fhs' \in [Slots -> Handle \cup {NULL}]
      BY Zenon, <2>5, <3>1
    <3>3. forks' \in 0..MaxForks
      BY <2>1, FileTableAssumption DEF TypeOK
    <3>4. std \in [FDs -> Slots \cup {FD_FREE}]
      BY Zenon, StdRanges DEF std
    <3>5. p_fds' \in [Procs -> [FDs -> Slots \cup {FD_FREE}]]
      BY Zenon, <2>1, <2>2, <3>4 DEF TypeOK
    <3>6. arg' \in [Procs -> Args]
      BY Zenon, <2>1, <2>2, <2>4 DEF TypeOK
    <3>7. QED
      BY Zenon, <2>1, <2>2, <3>2, <3>3, <3>5, <3>6 DEF TypeOK
  <2>7. \A q \in Procs : FdsByPlace(q)'
    <3>1. FdsByPlace(p)'
      <4>1. \A fd \in FDs : p_fds'[c][fd] = Fresh(fd)
        BY Zenon, <2>3 DEF std, Fresh
      <4>2. QED
        BY Zenon, <2>3, <2>4, <4>1 DEF FdsByPlace
    <3>2. FdsByPlace(c)'
      BY Zenon, <2>3 DEF FdsByPlace
    <3>3. ASSUME NEW q \in Procs \ {p, c} PROVE FdsByPlace(q)'
      <4>1. /\ FdsByPlace(q) /\ pc'[q] = pc[q] /\ arg'[q] = arg[q] /\ p_fds'[q] = p_fds[q]
            /\ pc[q] = "fork" => arg[q].child \in Procs \ {p, c}
        BY Zenon, <2>1, <2>2, <2>3 DEF TableInv, FdsByPlace
      <4>2. QED
        BY <2>3, <4>1 DEF FdsByPlace, InUse
    <3>4. QED
      BY Zenon, <3>1, <3>2, <3>3
  <2>8. OneParent'
    <3>1. \A q \in Procs : q # p /\ pc'[q] = "fork" =>
            pc[q] = "fork" /\ arg'[q] = arg[q] /\ arg[q].child # c
      BY <2>2, <2>3 DEF TableInv, FdsByPlace
    <3>2. QED
      BY <2>4, <3>1 DEF TableInv, OneParent
  <2>9. RefsCoverFds' /\ OpenedExact'
    <3>1. \A j \in Slots : Count(p_fds', j) = Count(p_fds, j) + (IF j \in StdFDs THEN 1 ELSE 0)
      <4> SUFFICES ASSUME NEW j \in Slots
                   PROVE  Count(p_fds', j) = Count(p_fds, j) + (IF j \in StdFDs THEN 1 ELSE 0)
        BY Zenon
      <4>1. \A fd \in FDs : p_fds[c][fd] # j
        BY Zenon, <2>2, StdRanges DEF TableInv, FdsByPlace
      <4>2. \A fd \in FDs : p_fds'[c][fd] = j <=> fd = j /\ j \in StdFDs
        BY <2>3, StdRanges DEF std
      <4>3. RefsTo(p_fds', j) = RefsTo(p_fds, j) \cup (IF j \in StdFDs THEN {<<c, j>>} ELSE {})
        BY <2>3, <4>1, <4>2, StdRanges DEF RefsTo
      <4>4. <<c, j>> \notin RefsTo(p_fds, j)
        BY Zenon, <4>1 DEF RefsTo
      <4>5. Cardinality(RefsTo(p_fds, j) \cup {<<c, j>>}) = Count(p_fds, j) + 1
        BY Zenon, <4>4, CountFinite, FS_AddElement DEF Count
      <4>6. CASE j \in StdFDs
        BY Zenon, <4>3, <4>5, <4>6 DEF Count
      <4>7. CASE j \notin StdFDs
        <5>1. RefsTo(p_fds', j) = RefsTo(p_fds, j)
          BY Zenon, <4>3, <4>7
        <5>2. QED
          BY <4>7, <5>1, CountFinite DEF Count
      <4>8. QED
        BY Zenon, <4>6, <4>7
    <3>2. Sound' = Sound /\ Slots \ StdFDs \subseteq Sound /\ Sound \subseteq Slots
      BY Zenon, <2>1 DEF Sound
    <3>3. Covered(p_fds, ft_fhs, Sound) /\ Exact(p_fds, ft_fhs, failed)
      BY Zenon, RefsAsCounts DEF TableInv
    <3>4. ASSUME NEW j \in Sound, Count(p_fds', j) # 0
          PROVE  ft_fhs'[j] # NULL /\ ft_fhs'[j].ref >= Count(p_fds', j)
      <4>1. j \in Slots /\ Count(p_fds, j) \in Nat
        BY Zenon, <3>2, CountFinite
      <4>2. CASE j \in StdFDs
        <5>1. /\ ft_fhs'[j] # NULL /\ ft_fhs[j].ref \in Nat /\ ft_fhs'[j].ref = ft_fhs[j].ref + 1
              /\ Count(p_fds', j) = Count(p_fds, j) + 1
          BY Zenon, <2>5, <3>1, <4>1, <4>2
        <5>2. ft_fhs[j].ref >= Count(p_fds, j)
          BY <3>3, <4>1, <5>1 DEF Covered
        <5>3. QED
          BY <4>1, <5>1, <5>2
      <4>3. CASE j \notin StdFDs
        <5>1. ft_fhs'[j] = ft_fhs[j] /\ Count(p_fds', j) = Count(p_fds, j)
          BY <2>5, <3>1, <4>1, <4>3
        <5>2. QED
          BY Zenon, <3>3, <3>4, <5>1 DEF Covered
      <4>4. QED
        BY Zenon, <4>2, <4>3
    <3>5. \A j \in Slots \ StdFDs : ft_fhs'[j] = ft_fhs[j] /\ Count(p_fds', j) = Count(p_fds, j)
      BY <2>5, <3>1, CountFinite
    <3>6. QED
      BY Zenon, <2>1, <3>2, <3>3, <3>4, <3>5, RefsAsCounts DEF Covered, Exact
  <2>10. OffsetStable'
    <3>1. \A q \in Procs : pc'[q] = "io" =>
            pc[q] = "io" /\ arg'[q] = arg[q] /\ p_fds'[q] = p_fds[q]
      BY Zenon, <2>3
    <3>2. QED
      BY Zenon, <2>1, <2>5, <3>1, OffsetKept
  <2>11. QED
    BY Zenon, <2>6, <2>7, <2>8, <2>9, <2>10 DEF TableInv
<1>3. QED
  BY Zenon, <1>1, <1>2

\* A round of fork_common's loop: the child's descriptor gets a reference of its
\* own, in place of the console's that proc_create took.
LEMMA CopyFdInv ==
  ASSUME TableInv, CountsBelowMax, NEW p \in Procs, fork_copy_fd(p)
  PROVE  TableInv'
<1>0. PICK fd, c, i : fd = arg[p].fd /\ c = arg[p].child /\ i = p_fds[p][fd]
  BY Zenon
<1>1. /\ TypeOK /\ pc[p] = "fork" /\ fd \in FDs /\ fd \in Nat /\ c \in Procs /\ pc[c] = "new"
      /\ c # p /\ i \in Slots \cup {FD_FREE}
      /\ \A g \in FDs : g >= fd => p_fds[c][g] = Fresh(g)
  <2>1. TypeOK /\ FdsByPlace(p) /\ pc[p] = "fork" /\ fd < OPEN_MAX /\ fd \in 0..OPEN_MAX
    <3>1. TypeOK /\ FdsByPlace(p) /\ pc[p] = "fork" /\ arg[p].fd < OPEN_MAX
      BY Zenon DEF TableInv, fork_copy_fd
    <3>2. arg[p].fd \in 0..OPEN_MAX
      BY Zenon, <3>1 DEF TypeOK, Args
    <3>3. QED
      BY Zenon, <1>0, <3>1, <3>2
  <2>2. fd \in FDs /\ fd \in Nat
    BY <2>1, FileTableAssumption DEF FDs
  <2>3. QED
    BY <1>0, <2>1, <2>2 DEF TypeOK, FdsByPlace
<1>2. CASE i # FD_FREE /\ ft_fhs[i] = NULL
  BY Zenon, <1>0, <1>2, StutterInv DEF fork_copy_fd, Fail
<1>3. CASE i # FD_FREE => ft_fhs[i] # NULL
  <2>1. /\ p_fds' = SetFD(p_fds, c, fd, i)
        /\ ft_fhs' = IF i = FD_FREE THEN ft_fhs ELSE [ft_fhs EXCEPT ![i] = AddRef(@, 1)]
        /\ arg' = [arg EXCEPT ![p].fd = @ + 1]
        /\ UNCHANGED <<pc, off, forks, failed>>
    BY Zenon, <1>0, <1>3 DEF fork_copy_fd, SetFD
  <2>2. i # FD_FREE =>
          /\ i \in Slots /\ ft_fhs[i].ref \in Nat
          /\ AddRef(ft_fhs[i], 1) \in Handle /\ AddRef(ft_fhs[i], 1) # NULL
          /\ AddRef(ft_fhs[i], 1).off = ft_fhs[i].off
          /\ AddRef(ft_fhs[i], 1).use_lock = ft_fhs[i].use_lock
          /\ i \in Sound => AddRef(ft_fhs[i], 1).ref = ft_fhs[i].ref + 1
    <3> SUFFICES ASSUME i # FD_FREE
                 PROVE  /\ i \in Slots /\ ft_fhs[i].ref \in Nat
                        /\ AddRef(ft_fhs[i], 1) \in Handle /\ AddRef(ft_fhs[i], 1) # NULL
                        /\ AddRef(ft_fhs[i], 1).off = ft_fhs[i].off
                        /\ AddRef(ft_fhs[i], 1).use_lock = ft_fhs[i].use_lock
                        /\ i \in Sound => AddRef(ft_fhs[i], 1).ref = ft_fhs[i].ref + 1
      BY Zenon
    <3>1. i \in Slots /\ ft_fhs[i] \in Handle /\ ft_fhs[i] # NULL
      BY Zenon, <1>1, <1>3 DEF TypeOK
    <3>2. ft_fhs[i].ref \in 0..(RefMod - 1)
      BY Zenon, <3>1 DEF Handle
    <3>3. i \in Sound => ft_fhs[i].ref + 1 \in 0..(RefMod - 1)
      BY <3>1, <3>2, FileTableAssumption DEF CountsBelowMax
    <3>4. ASSUME NEW fh \in Handle
          PROVE  /\ AddRef(fh, 1) \in Handle /\ AddRef(fh, 1) # NULL
                 /\ AddRef(fh, 1).off = fh.off /\ AddRef(fh, 1).use_lock = fh.use_lock
                 /\ fh.ref + 1 \in 0..(RefMod - 1) => AddRef(fh, 1).ref = fh.ref + 1
      BY Zenon, HandleCounts
    <3>5. QED
      BY <3>1, <3>2, <3>3, <3>4, FileTableAssumption
  <2>3. /\ arg'[p].fd = fd + 1 /\ arg'[p].child = c /\ arg'[p].new = arg[p].new
        /\ arg' \in [Procs -> Args]
        /\ \A q \in Procs \ {p} : arg'[q] = arg[q]
    <3>1. fd + 1 \in 0..OPEN_MAX
      BY <1>1, FileTableAssumption DEF FDs
    <3>2. arg[p] \in Args /\ arg \in [Procs -> Args]
      BY Zenon, <1>1 DEF TypeOK
    <3>3. \A a \in Args, n \in 0..OPEN_MAX : LET b == [a EXCEPT !.fd = n] IN
            b \in Args /\ b.fd = n /\ b.child = a.child /\ b.new = a.new
      BY Zenon DEF Args
    <3>4. arg' = [arg EXCEPT ![p] = [arg[p] EXCEPT !.fd = fd + 1]]
      BY Zenon, <1>0, <2>1
    <3>5. arg'[p] = [arg[p] EXCEPT !.fd = fd + 1] /\ \A q \in Procs \ {p} : arg'[q] = arg[q]
      BY Zenon, <3>2, <3>4
    <3>6. QED
      BY Zenon, <1>0, <3>1, <3>2, <3>3, <3>4, <3>5
  <2>4. /\ p_fds' \in [Procs -> [FDs -> Slots \cup {FD_FREE}]]
        /\ \A q \in Procs \ {c} : p_fds'[q] = p_fds[q]
        /\ \A g \in FDs : p_fds'[c][g] = IF g = fd THEN i ELSE p_fds[c][g]
    BY Zenon, <1>1, <2>1 DEF TypeOK, SetFD
  <2>5. TypeOK'
    <3>1. ft_fhs' \in [Slots -> Handle \cup {NULL}]
      BY Zenon, <1>1, <2>1, <2>2 DEF TypeOK
    <3>2. QED
      BY Zenon, <1>1, <2>1, <2>3, <2>4, <3>1 DEF TypeOK
  <2>6. \A q \in Procs : FdsByPlace(q)'
    <3>1. FdsByPlace(p)'
      <4>1. \A g \in FDs : g >= fd + 1 => g # fd /\ g >= fd
        BY <1>1, FileTableAssumption DEF FDs
      <4>2. QED
        BY <1>1, <2>1, <2>3, <2>4, <4>1 DEF FdsByPlace
    <3>2. FdsByPlace(c)'
      BY Zenon, <1>1, <2>1 DEF FdsByPlace
    <3>3. ASSUME NEW q \in Procs \ {p, c} PROVE FdsByPlace(q)'
      <4>1. /\ FdsByPlace(q) /\ pc'[q] = pc[q] /\ arg'[q] = arg[q] /\ p_fds'[q] = p_fds[q]
            /\ pc[q] = "fork" => arg[q].child \in Procs \ {c}
        BY <1>0, <1>1, <2>1, <2>3, <2>4, <3>3 DEF TableInv, FdsByPlace, OneParent
      <4>2. QED
        BY SMTT(20), <2>1, <2>4, <4>1 DEF FdsByPlace, InUse
    <3>4. QED
      BY Zenon, <3>1, <3>2, <3>3
  <2>7. OneParent'
    <3>1. \A q \in Procs : arg'[q].child = arg[q].child
      BY Zenon, <1>0, <2>3
    <3>2. QED
      BY Zenon, <2>1, <3>1 DEF TableInv, OneParent
  <2>8. RefsCoverFds' /\ OpenedExact'
    <3>1. \A j \in Slots :
            /\ Count(p_fds, j) \in Nat
            /\ Count(p_fds', j) = Count(p_fds, j) + (IF i = j THEN 1 ELSE 0) - (IF Fresh(fd) = j THEN 1 ELSE 0)
            /\ Fresh(fd) = j => j \in StdFDs
      <4>1. p_fds[c][fd] = Fresh(fd) /\ p_fds \in Fds
        BY <1>1 DEF TypeOK, Fds
      <4>2. ASSUME NEW j \in Slots
            PROVE  Count(SetFD(p_fds, c, fd, i), j) = Count(p_fds, j)
                     + (IF i = j THEN 1 ELSE 0) - (IF p_fds[c][fd] = j THEN 1 ELSE 0)
        BY <1>1, <4>1, CountSet
      <4>3. QED
        BY Zenon, <1>1, <2>1, <4>1, <4>2, CountFinite, StdRanges
    <3>2. CASE i = FD_FREE
      <4>1. \A j \in Slots : /\ ft_fhs'[j] = ft_fhs[j] /\ Count(p_fds', j) <= Count(p_fds, j)
                             /\ j \notin StdFDs => Count(p_fds', j) = Count(p_fds, j)
        BY <2>1, <3>1, <3>2, StdRanges
      <4>2. Sound' = Sound /\ Sound \subseteq Slots
        BY Zenon, <2>1 DEF Sound
      <4>3. Covered(p_fds, ft_fhs, Sound) /\ Exact(p_fds, ft_fhs, failed)
        BY Zenon, RefsAsCounts DEF TableInv
      <4>4. ASSUME NEW j \in Sound, Count(p_fds', j) # 0
            PROVE  ft_fhs'[j] # NULL /\ ft_fhs'[j].ref >= Count(p_fds', j)
        <5>1. /\ j \in Slots /\ Count(p_fds, j) \in Nat /\ Count(p_fds', j) \in Nat
              /\ Count(p_fds', j) <= Count(p_fds, j) /\ ft_fhs'[j] = ft_fhs[j]
          BY Zenon, <4>1, <4>2, CountFinite
        <5>2. ft_fhs[j] # NULL /\ ft_fhs[j].ref >= Count(p_fds, j)
          BY <4>3, <4>4, <5>1 DEF Covered
        <5>3. ft_fhs[j].ref \in Nat
          BY <1>1, <5>1, <5>2, FileTableAssumption DEF TypeOK, Handle
        <5>4. QED
          BY <5>1, <5>2, <5>3
      <4>5. Exact(p_fds', ft_fhs', failed)
        BY Zenon, <4>1, <4>3 DEF Exact
      <4>6. QED
        BY Zenon, <2>1, <4>2, <4>4, <4>5, RefsAsCounts DEF Covered
    <3>3. CASE i # FD_FREE
      <4>1. /\ i \in Slots /\ ft_fhs[i] # NULL /\ ft_fhs[i].ref \in Nat
            /\ ft_fhs'[i] # NULL /\ (i \in Sound => ft_fhs'[i].ref = ft_fhs[i].ref + 1)
        BY Zenon, <1>1, <1>3, <2>1, <2>2, <3>3 DEF TypeOK
      <4>2. \A j \in Slots \ {i} : ft_fhs'[j] = ft_fhs[j] /\ Count(p_fds', j) <= Count(p_fds, j)
                                   /\ (j \notin StdFDs => Count(p_fds', j) = Count(p_fds, j))
        <5>1. \A j \in Slots \ {i} : ft_fhs'[j] = ft_fhs[j]
          BY Zenon, <1>1, <2>1, <3>3 DEF TypeOK
        <5>2. QED
          BY <3>1, <5>1
      <4>3. /\ Count(p_fds, i) \in Nat /\ Count(p_fds', i) <= Count(p_fds, i) + 1
            /\ Count(p_fds', i) \in Nat /\ Count(p_fds, i) >= 1
            /\ i \notin StdFDs => Count(p_fds', i) = Count(p_fds, i) + 1
        BY <1>0, <1>1, <3>1, <4>1, CountInUse, CountFinite
      <4>4. /\ i \in Sound => ft_fhs[i].ref >= Count(p_fds, i)
            /\ i \notin StdFDs => i \in Sound /\ ("late" \notin failed => ft_fhs[i].ref = Count(p_fds, i))
        BY <4>1, <4>3, RefsAsCounts DEF TableInv, Covered, Exact, Sound
      <4>5. i \in Sound /\ Count(p_fds', i) # 0 =>
              ft_fhs'[i] # NULL /\ ft_fhs'[i].ref >= Count(p_fds', i)
        BY <4>1, <4>3, <4>4
      <4>6. i \notin StdFDs /\ ft_fhs'[i] # NULL =>
              ft_fhs'[i].ref >= 1 /\ ("late" \notin failed => ft_fhs'[i].ref = Count(p_fds', i))
        BY <4>1, <4>3, <4>4
      <4>7. QED
        BY Zenon, <2>1, <4>1, <4>2, <4>5, <4>6, SlotStep
    <3>4. QED
      BY Zenon, <3>2, <3>3
  <2>9. OffsetStable'
    <3>1. \A q \in Procs : pc'[q] = "io" =>
            pc[q] = "io" /\ arg'[q] = arg[q] /\ p_fds'[q] = p_fds[q]
      BY Zenon, <1>1, <2>1, <2>3, <2>4
    <3>2. \A j \in Slots : ft_fhs[j] # NULL =>
            /\ ft_fhs'[j] # NULL /\ ft_fhs'[j].off = ft_fhs[j].off
            /\ ft_fhs'[j].use_lock = ft_fhs[j].use_lock
      BY Zenon, <1>1, <2>1, <2>2 DEF TypeOK
    <3>3. QED
      BY Zenon, <2>1, <3>1, <3>2, OffsetKept
  <2>10. QED
    BY Zenon, <2>5, <2>6, <2>7, <2>8, <2>9 DEF TableInv
<1>4. QED
  BY Zenon, <1>2, <1>3

\* The end of fork_common, with the child running or, no memory left, gone
\* without a close: descriptors go, and the counts stay.
LEMMA EndForkInv ==
  ASSUME TableInv, NEW p \in Procs, fork_done(p) \/ fork_late_failure(p)
  PROVE  TableInv'
<1>0. PICK c : c = arg[p].child
  BY Zenon
<1>1. /\ TypeOK /\ pc[p] = "fork" /\ c \in Procs /\ pc[c] = "new" /\ c # p
      /\ arg' = [arg EXCEPT ![p] = NoArg] /\ UNCHANGED <<ft_fhs, off, forks>>
  BY Zenon, <1>0 DEF TableInv, FdsByPlace, fork_done, fork_late_failure
<1>2. /\ pc' \in [Procs -> {"none", "new", "run", "close", "dup_close", "dup", "use", "io", "fork", "exit",
                        "free"}]
      /\ pc'[p] = "run" /\ pc'[c] \in {"run", "none"}
      /\ \A q \in Procs \ {p, c} : pc'[q] = pc[q]
  BY Zenon, <1>0, <1>1 DEF TypeOK, fork_done, fork_late_failure
<1>3. /\ p_fds' \in [Procs -> [FDs -> Slots \cup {FD_FREE}]]
      /\ \A q \in Procs \ {c} : p_fds'[q] = p_fds[q]
      /\ \A fd \in FDs : p_fds'[c][fd] \in {p_fds[c][fd], FD_FREE}
      /\ pc'[c] = "none" => \A fd \in FDs : p_fds'[c][fd] = FD_FREE
  BY <1>0, <1>1, <1>2 DEF TypeOK, fork_done, fork_late_failure, NoFDs
<1>4. /\ failed \subseteq failed' /\ failed' \subseteq failed \cup {"late"}
      /\ "late" \notin failed' => p_fds' = p_fds
  BY Zenon DEF fork_done, fork_late_failure
<1>5. TypeOK'
  <2>1. NoArg \in Args
    BY Zenon, ArgsType
  <2>2. QED
    BY Zenon, <1>1, <1>2, <1>3, <1>4, <2>1 DEF TypeOK
<1>6. \A q \in Procs \ {p} : arg'[q] = arg[q]
  BY Zenon, <1>1 DEF TypeOK
<1>7. \A q \in Procs : FdsByPlace(q)'
  <2>1. FdsByPlace(p)' /\ FdsByPlace(c)'
    BY Zenon, <1>2, <1>3 DEF FdsByPlace
  <2>2. ASSUME NEW q \in Procs \ {p, c} PROVE FdsByPlace(q)'
    <3>1. /\ FdsByPlace(q) /\ pc'[q] = pc[q] /\ arg'[q] = arg[q] /\ p_fds'[q] = p_fds[q]
      BY Zenon, <1>2, <1>3, <1>6 DEF TableInv
    <3>2. CASE pc[q] = "fork"
      <4>1. arg[q].child \in Procs \ {p, c}
        BY Zenon, <1>0, <1>1, <3>1, <3>2 DEF TableInv, FdsByPlace, OneParent
      <4>2. QED
        BY <1>2, <1>3, <3>1, <3>2, <4>1 DEF FdsByPlace
    <3>3. CASE pc[q] # "fork"
      BY Zenon, <3>1, <3>3 DEF FdsByPlace, InUse
    <3>4. QED
      BY Zenon, <3>2, <3>3
  <2>3. QED
    BY Zenon, <2>1, <2>2
<1>8. OneParent'
  BY <1>2, <1>6 DEF TableInv, OneParent
<1>9. RefsCoverFds' /\ OpenedExact'
  <2>1. ASSUME NEW j \in Slots
        PROVE  /\ Count(p_fds', j) \in Nat /\ Count(p_fds, j) \in Nat
               /\ Count(p_fds', j) <= Count(p_fds, j)
    <3>1. RefsTo(p_fds', j) \subseteq RefsTo(p_fds, j)
      <4>1. \A q \in Procs, fd \in FDs : p_fds'[q][fd] = j => p_fds[q][fd] = j
        BY Zenon, <1>3, StdRanges
      <4>2. QED
        BY Zenon, <4>1 DEF RefsTo
    <3>2. QED
      BY Zenon, <3>1, CountFinite, FS_Subset DEF Count
  <2>2. Covered(p_fds, ft_fhs, Sound) /\ Exact(p_fds, ft_fhs, failed)
    BY Zenon, RefsAsCounts DEF TableInv
  <2>3. Sound' = Sound /\ Sound \subseteq Slots
    BY Zenon, <1>4 DEF Sound
  <2>4. ASSUME NEW j \in Sound, Count(p_fds', j) # 0
        PROVE  ft_fhs'[j] # NULL /\ ft_fhs'[j].ref >= Count(p_fds', j)
    <3>1. j \in Slots
      BY Zenon, <2>3
    <3>2. ft_fhs[j] # NULL /\ ft_fhs[j].ref >= Count(p_fds, j)
      BY <2>1, <2>2, <2>4, <3>1 DEF Covered
    <3>3. ft_fhs[j].ref \in Nat
      BY <1>1, <3>1, <3>2, FileTableAssumption DEF TypeOK, Handle
    <3>4. QED
      BY <1>1, <2>1, <3>1, <3>2, <3>3
  <2>5. Exact(p_fds', ft_fhs', failed')
    BY Zenon, <1>1, <1>4, <2>2 DEF Exact
  <2>6. QED
    BY Zenon, <2>3, <2>4, <2>5, RefsAsCounts DEF Covered
<1>10. OffsetStable'
  <2>1. \A q \in Procs : pc'[q] = "io" =>
          pc[q] = "io" /\ arg'[q] = arg[q] /\ p_fds'[q] = p_fds[q]
    BY Zenon, <1>2, <1>3, <1>6
  <2>2. QED
    BY Zenon, <1>1, <1>4, <2>1, OffsetKept
<1>11. QED
  BY Zenon, <1>5, <1>7, <1>8, <1>9, <1>10 DEF TableInv

-----------------------------------------------------------------------------
(* The handle that fh_close frees *)

\* Nobody gets a reference to a handle that is being freed if every descriptor
\* that changes becomes free or a copy of one whose process is not freeing.
LEMMA AloneKept ==
  ASSUME TableInv, FreedAlone, failed \subseteq failed',
         \A q \in Procs : pc'[q] = "free" =>
           pc[q] = "free" /\ arg'[q] = arg[q] /\ p_fds'[q] = p_fds[q],
         \A q \in Procs, fd \in FDs :
           \/ p_fds'[q][fd] \in {p_fds[q][fd], FD_FREE}
           \/ \E r \in Procs, g \in FDs : p_fds'[q][fd] = p_fds[r][g] /\ pc[r] # "free"
  PROVE  FreedAlone'
<1> SUFFICES ASSUME NEW p \in Procs, pc'[p] = "free", p_fds'[p][arg'[p].gone] \in Sound',
                    NEW q \in Procs, NEW fd \in FDs, p_fds'[q][fd] = p_fds'[p][arg'[p].gone]
             PROVE  q = p /\ fd = arg'[p].gone
  BY Zenon DEF FreedAlone
<1>1. pc[p] = "free" /\ arg'[p] = arg[p] /\ p_fds'[p] = p_fds[p]
  BY Zenon
<1>2. PICK i : i = p_fds[p][arg[p].gone]
  BY Zenon
<1>3. p_fds'[q][fd] = i /\ i \in Sound
  BY Zenon, <1>1, <1>2 DEF Sound
<1>4. i # FD_FREE
  BY Zenon, <1>1, <1>2 DEF TableInv, FdsByPlace, InUse
<1>5. \A r \in Procs, g \in FDs : p_fds[r][g] = i => r = p /\ g = arg[p].gone
  <2>1. p_fds[p][arg[p].gone] \in Sound
    BY Zenon, <1>2, <1>3
  <2>2. \A r \in Procs, g \in FDs :
          p_fds[r][g] = p_fds[p][arg[p].gone] => r = p /\ g = arg[p].gone
    BY Zenon, <1>1, <2>1 DEF FreedAlone
  <2>3. QED
    BY Zenon, <1>2, <2>2
<1>6. p_fds[q][fd] = i
  <2>1. \A r \in Procs, g \in FDs : p_fds[r][g] = i => pc[r] = "free"
    BY Zenon, <1>1, <1>5
  <2>2. QED
    BY Zenon, <1>3, <1>4, <2>1
<1>7. QED
  BY Zenon, <1>1, <1>5, <1>6

\* The console descriptors of the kernel's process stay: it neither opens nor
\* closes nor exits.
LEMMA ConsoleStep ==
  ASSUME ConsoleKept, NEW p \in Procs, Alone(p), p # kproc PROVE ConsoleKept'
  BY Zenon, FileTableAssumption DEF ConsoleKept, Alone

\* The calls that hold no lock over the step, or take ft_lock when nobody has it.
LEMMA FreedCallInv ==
  ASSUME IndInv, NEW p \in Procs,
         \/ sys_open(p) \/ sys_close(p) \/ sys_dup2(p) \/ dup2_incref(p) \/ use_get(p)
         \/ sys_lseek(p) \/ readwrite_start(p) \/ readwrite_end(p) \/ kern__exit(p) \/ exit_done(p)
  PROVE  ConsoleKept' /\ FreedAlone'
<1>1. TypeOK /\ TableInv /\ FreedAlone /\ ConsoleKept /\ FdsByPlace(p)
  BY Zenon DEF IndInv, TableInv
<1>2. p # kproc /\ pc[p] # "free"
  BY Zenon, <1>1 DEF ConsoleKept, User, sys_open, sys_close, sys_dup2, dup2_incref, use_get,
     sys_lseek, readwrite_start, readwrite_end, kern__exit, exit_done
<1>3. /\ failed' = failed
      /\ pc' = pc \/ \E l \in {"close", "dup", "dup_close", "run", "use", "io", "exit", "none"} :
                       pc' = [pc EXCEPT ![p] = l]
      /\ arg' = arg \/ \E a : arg' = [arg EXCEPT ![p] = a]
      /\ p_fds' = p_fds \/ \E fd \in FDs, i \in Slots : p_fds' = SetFD(p_fds, p, fd, i)
  <2>1. CASE sys_open(p)
    BY Zenon, <2>1 DEF sys_open, SetFD
  <2>2. CASE sys_dup2(p)
    BY Zenon, <2>2 DEF sys_dup2, Call, Goto
  <2>3. CASE dup2_incref(p)
    <3>1. arg[p].fd \in FDs /\ p_fds[p][arg[p].fd] # FD_FREE /\ arg[p] \in Args
      BY Zenon, <1>1, <2>3 DEF dup2_incref, FdsByPlace, InUse, TypeOK
    <3>2. arg[p].new \in FDs /\ p_fds[p][arg[p].fd] \in Slots
      BY Zenon, <1>1, <3>1, TypeOf
    <3>3. QED
      BY Zenon, <2>3, <3>2 DEF dup2_incref, Goto, SetFD
  <2>4. CASE sys_close(p) \/ use_get(p) \/ kern__exit(p) \/ exit_done(p)
    BY Zenon, <2>4 DEF sys_close, use_get, kern__exit, exit_done, Call, Goto
  <2>5. CASE sys_lseek(p) \/ readwrite_start(p) \/ readwrite_end(p)
    BY Zenon, <2>5 DEF sys_lseek, readwrite_start, readwrite_end, Goto
  <2>6. QED
    BY Zenon, <2>1, <2>2, <2>3, <2>4, <2>5
<1>4. /\ \A q \in Procs \ {p} : pc'[q] = pc[q] /\ arg'[q] = arg[q] /\ p_fds'[q] = p_fds[q]
      /\ pc'[p] # "free"
  <2>1. (\A q \in Procs \ {p} : pc'[q] = pc[q]) /\ pc'[p] # "free"
    BY Zenon, <1>1, <1>2, <1>3 DEF TypeOK
  <2>2. \A q \in Procs \ {p} : arg'[q] = arg[q]
    BY Zenon, <1>1, <1>3 DEF TypeOK
  <2>3. \A q \in Procs \ {p} : p_fds'[q] = p_fds[q]
    BY Zenon, <1>1, <1>3 DEF TypeOK, SetFD
  <2>4. QED
    BY Zenon, <2>1, <2>2, <2>3
<1>5. ConsoleKept'
  BY Zenon, <1>1, <1>2, <1>4, ConsoleStep DEF Alone
<1>6. CASE sys_open(p)
  <2>1. \A q \in Procs : pc[q] # "free"
    BY Zenon, <1>6 DEF sys_open, ft_unlocked
  <2>2. QED
    BY Zenon, <1>4, <1>5, <2>1 DEF FreedAlone
<1>7. CASE ~sys_open(p)
  <2>1. \A q \in Procs, fd \in FDs :
           \/ p_fds'[q][fd] = p_fds[q][fd]
           \/ \E r \in Procs, g \in FDs : p_fds'[q][fd] = p_fds[r][g] /\ pc[r] # "free"
    <3>1. CASE dup2_incref(p)
      <4>1. arg[p].fd \in FDs
        BY Zenon, <1>1, <3>1 DEF dup2_incref, FdsByPlace, InUse
      <4>2. p_fds' = SetFD(p_fds, p, arg[p].new, p_fds[p][arg[p].fd])
        BY Zenon, <3>1 DEF dup2_incref, SetFD
      <4>3. \A q \in Procs, fd \in FDs :
              p_fds'[q][fd] \in {p_fds[q][fd], p_fds[p][arg[p].fd]}
        BY Zenon, <1>1, <4>2 DEF TypeOK, SetFD
      <4>4. QED
        BY Zenon, <1>2, <4>1, <4>3
    <3>2. CASE ~dup2_incref(p)
      <4>1. p_fds' = p_fds
        BY Zenon, <1>7, <3>2 DEF sys_close, sys_dup2, use_get, sys_lseek, readwrite_start,
           readwrite_end, kern__exit, exit_done
      <4>2. QED
        BY Zenon, <4>1
    <3>3. QED
      BY Zenon, <3>1, <3>2
  <2>2. \A q \in Procs : pc'[q] = "free" =>
           pc[q] = "free" /\ arg'[q] = arg[q] /\ p_fds'[q] = p_fds[q]
    BY Zenon, <1>4
  <2>3. QED
    BY Zenon, <1>1, <1>3, <1>5, <2>1, <2>2, AloneKept
<1>8. QED
  BY Zenon, <1>6, <1>7

\* fork: a child's descriptors are copies of the kernel's console descriptors
\* or of its parent's.
LEMMA FreedForkInv ==
  ASSUME IndInv, NEW p \in Procs,
         \/ proc_create(p) \/ proc_create_strdup(p) \/ fork_copy_fd(p)
         \/ fork_done(p) \/ fork_late_failure(p)
  PROVE  ConsoleKept' /\ FreedAlone'
<1>1. TypeOK /\ TableInv /\ FreedAlone /\ ConsoleKept /\ FdsByPlace(p)
  BY Zenon DEF IndInv, TableInv
<1>2. pc[kproc] # "free" /\ pc[kproc] # "new" /\ pc[kproc] # "none"
      /\ \A fd \in StdFDs : fd \in FDs /\ p_fds[kproc][fd] = fd
  BY Zenon, <1>1, StdRanges DEF ConsoleKept
<1>3. CASE UNCHANGED <<pc, arg, p_fds>>
  <2>1. failed \subseteq failed'
    BY Zenon DEF proc_create, proc_create_strdup, fork_copy_fd, fork_done, fork_late_failure, Fail
  <2>2. FreedAlone'
    BY Zenon, <1>1, <1>3, <2>1, AloneKept
  <2>3. QED
    BY Zenon, <1>1, <1>3, <2>2 DEF ConsoleKept
<1>4. ASSUME NEW c \in Procs, pc[c] \in {"none", "new"}, failed \subseteq failed',
             pc[p] \in {"run", "fork"}, pc'[p] \in {"run", "fork"},
             pc'[c] \in {"new", "run", "none"},
             \A q \in Procs \ {p, c} : pc'[q] = pc[q],
             \A q \in Procs \ {p} : arg'[q] = arg[q],
             \A q \in Procs \ {c} : p_fds'[q] = p_fds[q],
             \A fd \in FDs :
               p_fds'[c][fd] \in {p_fds[c][fd], FD_FREE, p_fds[p][fd], p_fds[kproc][fd]}
      PROVE  ConsoleKept' /\ FreedAlone'
  <2>1. c # kproc /\ pc[c] # "free" /\ pc[p] # "free"
    BY Zenon, <1>2, <1>4
  <2>2. ConsoleKept'
    BY Zenon, <1>1, <1>4, <2>1, FileTableAssumption DEF ConsoleKept
  <2>3. \A q \in Procs : pc'[q] = "free" =>
           pc[q] = "free" /\ arg'[q] = arg[q] /\ p_fds'[q] = p_fds[q]
    BY Zenon, <1>4
  <2>4. \A q \in Procs, fd \in FDs :
           \/ p_fds'[q][fd] \in {p_fds[q][fd], FD_FREE}
           \/ \E r \in Procs, g \in FDs : p_fds'[q][fd] = p_fds[r][g] /\ pc[r] # "free"
    BY Zenon, <1>2, <1>4, <2>1, FileTableAssumption
  <2>5. QED
    BY Zenon, <1>1, <1>4, <2>2, <2>3, <2>4, AloneKept
<1>5. CASE proc_create(p) /\ ~UNCHANGED <<pc, arg, p_fds>>
  <2>1. PICK c \in Procs :
          /\ pc[c] = "none" /\ pc[p] = "run" /\ failed' = failed
          /\ pc' = [pc EXCEPT ![p] = "fork", ![c] = "new"]
          /\ arg' = [arg EXCEPT ![p] = [NoArg EXCEPT !.child = c]]
          /\ p_fds' = [p_fds EXCEPT ![c] = [fd \in FDs |-> IF fd \in StdFDs THEN fd ELSE FD_FREE]]
    BY Zenon, <1>5 DEF proc_create, Fail
  <2>2. \A fd \in FDs : p_fds'[c][fd] \in {FD_FREE, p_fds[kproc][fd]}
    BY Zenon, <1>1, <1>2, <2>1 DEF TypeOK
  <2>3. /\ pc'[p] = "fork" /\ pc'[c] = "new" /\ \A q \in Procs \ {p, c} : pc'[q] = pc[q]
        /\ \A q \in Procs \ {p} : arg'[q] = arg[q]
        /\ \A q \in Procs \ {c} : p_fds'[q] = p_fds[q]
    BY Zenon, <1>1, <2>1 DEF TypeOK
  <2>4. QED
    BY Zenon, <1>4, <2>1, <2>2, <2>3
<1>6. CASE fork_copy_fd(p) /\ ~UNCHANGED <<pc, arg, p_fds>>
  <2>1. PICK c, fd : c = arg[p].child /\ fd = arg[p].fd
    BY Zenon
  <2>2. /\ pc[p] = "fork" /\ failed' = failed /\ pc' = pc
        /\ p_fds' = SetFD(p_fds, c, fd, p_fds[p][fd])
        /\ arg' = [arg EXCEPT ![p].fd = @ + 1]
    BY Zenon, <1>6, <2>1 DEF fork_copy_fd, Fail, SetFD
  <2>3. c \in Procs /\ pc[c] = "new"
    BY Zenon, <1>1, <2>1, <2>2 DEF FdsByPlace
  <2>4. /\ \A q \in Procs \ {c} : p_fds'[q] = p_fds[q]
        /\ \A g \in FDs : p_fds'[c][g] \in {p_fds[c][g], p_fds[p][g]}
    BY Zenon, <1>1, <2>2, <2>3 DEF TypeOK, SetFD
  <2>5. \A q \in Procs \ {p} : arg'[q] = arg[q]
    BY Zenon, <1>1, <2>2 DEF TypeOK
  <2>6. QED
    BY Zenon, <1>4, <2>2, <2>3, <2>4, <2>5
<1>7. CASE fork_done(p) \/ fork_late_failure(p)
  <2>1. PICK c : c = arg[p].child
    BY Zenon
  <2>2. /\ pc[p] = "fork" /\ failed \subseteq failed' /\ arg' = [arg EXCEPT ![p] = NoArg]
        /\ \E l \in {"run", "none"} : pc' = [pc EXCEPT ![p] = "run", ![c] = l]
        /\ p_fds' = p_fds \/ p_fds' = [p_fds EXCEPT ![c] = NoFDs]
    BY Zenon, <1>7, <2>1 DEF fork_done, fork_late_failure
  <2>3. c \in Procs /\ pc[c] = "new" /\ c # p
    BY Zenon, <1>1, <2>1, <2>2 DEF FdsByPlace
  <2>4. /\ \A q \in Procs \ {c} : p_fds'[q] = p_fds[q]
        /\ \A g \in FDs : p_fds'[c][g] \in {p_fds[c][g], FD_FREE}
    <3>1. CASE p_fds' = p_fds
      BY Zenon, <3>1
    <3>2. CASE p_fds' = [p_fds EXCEPT ![c] = NoFDs]
      <4>1. p_fds'[c] = NoFDs /\ \A q \in Procs \ {c} : p_fds'[q] = p_fds[q]
        BY Zenon, <1>1, <2>3, <3>2 DEF TypeOK
      <4>2. QED
        BY Zenon, <4>1 DEF NoFDs
    <3>3. QED
      BY Zenon, <2>2, <3>1, <3>2
  <2>5. /\ pc'[p] = "run" /\ pc'[c] \in {"run", "none"}
        /\ \A q \in Procs \ {p, c} : pc'[q] = pc[q]
        /\ \A q \in Procs \ {p} : arg'[q] = arg[q]
    BY Zenon, <1>1, <2>2, <2>3 DEF TypeOK
  <2>6. QED
    BY Zenon, <1>4, <2>2, <2>3, <2>4, <2>5
<1>8. CASE proc_create_strdup(p)
  BY Zenon, <1>3, <1>8 DEF proc_create_strdup, Fail
<1>9. QED
  BY Zenon, <1>3, <1>5, <1>6, <1>7, <1>8

\* fh_close decides under fh_ref_lock that nobody else refers to the handle: its
\* count, which covers the descriptors that do, is at most one.
LEMMA FreedCloseInv ==
  ASSUME IndInv, NEW p \in Procs, NEW fd \in FDs, p_fds[p][fd] # FD_FREE,
         NEW l \in {"run", "dup", "exit"}, CloseFD(p, fd, l), pc[p] \notin {"run", "fork"}
  PROVE  ConsoleKept' /\ FreedAlone'
<1>0. PICK i : i = p_fds[p][fd]
  BY Zenon
<1>1. /\ TypeOK /\ TableInv /\ FreedAlone /\ ConsoleKept /\ i \in Slots /\ p # kproc
      /\ \A q \in Procs : pc[q] # "free"
  <2>1. TypeOK /\ TableInv /\ FreedAlone /\ ConsoleKept
    BY Zenon DEF IndInv, TableInv
  <2>2. p_fds[p][fd] \in Slots
    BY Zenon, <2>1, TypeOf
  <2>3. \A q \in Procs : pc[q] # "free"
    BY Zenon DEF CloseFD, ft_unlocked
  <2>4. QED
    BY Zenon, <1>0, <2>1, <2>2, <2>3 DEF ConsoleKept
<1>2. CASE ft_fhs[i] = NULL
  <2>1. UNCHANGED <<pc, arg, p_fds, failed>>
    BY Zenon, <1>0, <1>2 DEF CloseFD, Fail
  <2>2. QED
    BY Zenon, <1>1, <2>1 DEF ConsoleKept, FreedAlone
<1>3. CASE ft_fhs[i] # NULL /\ ~Last(ft_fhs[i])
  <2>1. p_fds' = SetFD(p_fds, p, fd, FD_FREE) /\ pc' = [pc EXCEPT ![p] = l] /\ arg' = arg
    BY Zenon, <1>0, <1>3 DEF CloseFD, Goto, SetFD
  <2>2. Alone(p) /\ pc'[p] # "free"
    BY Zenon, <1>1, <2>1 DEF TypeOK, Alone, SetFD
  <2>3. QED
    BY Zenon, <1>1, <2>2, ConsoleStep DEF Alone, FreedAlone
<1>4. CASE ft_fhs[i] # NULL /\ Last(ft_fhs[i])
  <2>1. /\ UNCHANGED <<p_fds, failed>> /\ pc' = [pc EXCEPT ![p] = "free"]
        /\ arg' = [arg EXCEPT ![p] = [arg[p] EXCEPT !.gone = fd, !.to = l]]
    BY Zenon, <1>0, <1>4 DEF CloseFD, Call, Goto
  <2>2. Alone(p)
    BY Zenon, <1>1, <2>1 DEF TypeOK, Alone
  <2>3. arg'[p].gone = fd
    <3>1. \A a \in Args : [a EXCEPT !.gone = fd, !.to = l].gone = fd
      BY Zenon DEF Args
    <3>2. arg'[p] = [arg[p] EXCEPT !.gone = fd, !.to = l] /\ arg[p] \in Args
      BY Zenon, <1>1, <2>1 DEF TypeOK
    <3>3. QED
      BY Zenon, <3>1, <3>2
  <2>4. ASSUME NEW q \in Procs, NEW g \in FDs, p_fds[q][g] = i, ~(q = p /\ g = fd), i \in Sound
        PROVE  FALSE
    <3>0. p_fds[p][fd] = i
      BY Zenon, <1>0
    <3>1. Count(p_fds, i) >= 2 /\ Count(p_fds, i) \in Nat
      <4>1. \A r \in Procs, h \in FDs :
              p_fds[r][h] = i /\ ~(r = p /\ h = fd) => Count(p_fds, i) >= 2
        BY Zenon, <3>0, CountInUse
      <4>2. Count(p_fds, i) >= 2
        BY Zenon, <2>4, <4>1
      <4>3. QED
        BY Zenon, <4>2, CountFinite
    <3>2. Covered(p_fds, ft_fhs, Sound)
      BY Zenon, <1>1, RefsAsCounts DEF TableInv
    <3>3. Count(p_fds, i) # 0
      BY <3>1
    <3>4. ft_fhs[i].ref >= Count(p_fds, i)
      BY Zenon, <2>4, <3>2, <3>3 DEF Covered
    <3>5. ft_fhs[i].ref \in Nat
      BY <1>1, <1>4, FileTableAssumption DEF TypeOK, Handle
    <3>6. QED
      BY <1>4, <3>1, <3>4, <3>5 DEF Last
  <2>5. FreedAlone'
    <3> SUFFICES ASSUME NEW r \in Procs, pc'[r] = "free", p_fds'[r][arg'[r].gone] \in Sound',
                        NEW q \in Procs, NEW g \in FDs, p_fds'[q][g] = p_fds'[r][arg'[r].gone]
                 PROVE  q = r /\ g = arg'[r].gone
      BY Zenon DEF FreedAlone
    <3>1. r = p
      BY Zenon, <1>1, <2>2 DEF Alone
    <3>2. i \in Sound /\ p_fds[q][g] = i
      BY Zenon, <1>0, <2>1, <2>3, <3>1 DEF Sound
    <3>3. QED
      BY Zenon, <2>3, <2>4, <3>1, <3>2
  <2>6. QED
    BY Zenon, <1>1, <2>2, <2>5, ConsoleStep
<1>5. QED
  BY Zenon, <1>2, <1>3, <1>4

LEMMA FreedFreeInv == ASSUME IndInv, NEW p \in Procs, fh_close(p) PROVE ConsoleKept' /\ FreedAlone'
<1>1. TypeOK /\ TableInv /\ FreedAlone /\ ConsoleKept /\ pc[p] = "free" /\ p # kproc
  BY Zenon DEF IndInv, TableInv, ConsoleKept, fh_close
<1>2. PICK fd, l : fd = arg[p].gone /\ l = arg[p].to
  BY Zenon
<1>3. l # "free"
  BY Zenon, <1>1, <1>2, TypeOf
<1>4. /\ p_fds' = SetFD(p_fds, p, fd, FD_FREE) /\ pc' = [pc EXCEPT ![p] = l] /\ failed' = failed
      /\ \E a : arg' = [arg EXCEPT ![p] = a]
  BY Zenon, <1>2 DEF fh_close, Call, Goto, SetFD
<1>5. Alone(p) /\ pc'[p] # "free"
  BY Zenon, <1>1, <1>3, <1>4 DEF TypeOK, Alone, SetFD
<1>6. \A q \in Procs, g \in FDs : p_fds'[q][g] \in {p_fds[q][g], FD_FREE}
  BY Zenon, <1>1, <1>4 DEF TypeOK, SetFD
<1>7. \A q \in Procs : pc'[q] = "free" => pc[q] = "free" /\ arg'[q] = arg[q] /\ p_fds'[q] = p_fds[q]
  BY Zenon, <1>5 DEF Alone
<1>8. QED
  BY Zenon, <1>1, <1>4, <1>5, <1>6, <1>7, AloneKept, ConsoleStep

-----------------------------------------------------------------------------
(* The theorems *)

LEMMA InitInv == Init => IndInv
<1> SUFFICES ASSUME Init PROVE IndInv
  BY Zenon
<1>1. TypeOK
  <2>1. fh_init(FALSE) \in Handle
    BY FileTableAssumption DEF fh_init, Handle
  <2>2. NoArg \in Args
    BY Zenon, ArgsType
  <2>3. ft_fhs \in [Slots -> Handle \cup {NULL}]
    BY Zenon, <2>1 DEF Init
  <2>4. /\ pc = [p \in Procs |-> IF p = kproc THEN "run" ELSE "none"]
        /\ arg = [p \in Procs |-> NoArg]
        /\ p_fds = [p \in Procs |-> [fd \in FDs |-> IF p = kproc /\ fd \in StdFDs THEN fd ELSE FD_FREE]]
        /\ off = [p \in Procs |-> 0] /\ forks = 0 /\ failed = {}
    BY Zenon DEF Init
  <2>5. p_fds \in [Procs -> [FDs -> Slots \cup {FD_FREE}]]
    BY Zenon, <2>4, StdRanges
  <2>6. QED
    BY <2>2, <2>3, <2>4, <2>5, FileTableAssumption DEF TypeOK
<1>2. /\ \A p \in Procs : pc[p] \in {"run", "none"}
      /\ \A p \in Procs, fd \in FDs : p_fds[p][fd] = IF p = kproc /\ fd \in StdFDs THEN fd ELSE FD_FREE
      /\ \A p \in Procs : pc[p] = "none" => p # kproc
  BY Zenon, FileTableAssumption DEF Init
<1>3. (\A p \in Procs : FdsByPlace(p)) /\ OneParent /\ OffsetStable
  BY Zenon, <1>2 DEF FdsByPlace, OneParent, OffsetStable
<1>4. OpenedExact
  BY Zenon DEF Init, OpenedExact
<1>5. RefsCoverFds
  <2> SUFFICES ASSUME NEW i \in Slots, Referring(i) # {}
               PROVE  ft_fhs[i] # NULL /\ ft_fhs[i].ref >= Cardinality(Referring(i))
    BY Zenon DEF RefsCoverFds, Sound, Init
  <2>1. i \in StdFDs /\ Referring(i) = {<<kproc, i>>}
    BY <1>2, StdRanges DEF Referring, RefsTo
  <2>2. Cardinality(Referring(i)) = 1
    BY Zenon, <2>1, FS_Singleton
  <2>3. ft_fhs[i] \in Handle /\ ft_fhs[i].ref = 1
    BY <2>1, FileTableAssumption DEF Init, fh_init, Handle
  <2>4. QED
    BY <2>2, <2>3, FileTableAssumption
<1>6. ConsoleKept /\ FreedAlone
  <2>1. kproc \in Procs /\ StdFDs \subseteq FDs /\ pc[kproc] = "run"
    BY Zenon, StdRanges, FileTableAssumption DEF Init
  <2>2. QED
    BY Zenon, <1>2, <2>1 DEF ConsoleKept, FreedAlone
<1>7. QED
  BY Zenon, <1>1, <1>3, <1>4, <1>5, <1>6 DEF TableInv, IndInv

\* Every step of every call keeps the invariant, as long as no count is at the
\* largest value of an unsigned.
LEMMA NextInv == IndInv /\ CountsBelowMax /\ [Next]_vars => IndInv'
<1> SUFFICES ASSUME IndInv, CountsBelowMax, [Next]_vars PROVE IndInv'
  BY Zenon
<1>0. TableInv /\ FreedAlone
  BY Zenon DEF IndInv
<1>1. ASSUME UNCHANGED <<pc, arg, p_fds, ft_fhs, off, forks, failed>> PROVE IndInv'
  <2>1. TableInv'
    BY Zenon, <1>0, <1>1, StutterInv
  <2>2. ConsoleKept' /\ FreedAlone'
    BY Zenon, <1>0, <1>1, AloneKept DEF IndInv, ConsoleKept
  <2>3. QED
    BY Zenon, <2>1, <2>2 DEF IndInv
<1>2. CASE Next
  <2>1. PICK p \in Procs :
          \/ sys_open(p) \/ sys_close(p) \/ close_locked(p) \/ fh_close(p) \/ ft_get_fails(p)
          \/ sys_dup2(p) \/ dup2_close(p) \/ dup2_incref(p)
          \/ use_get(p) \/ sys_lseek(p) \/ readwrite_start(p) \/ readwrite_end(p) \/ freed_use(p)
          \/ proc_create(p) \/ proc_create_strdup(p) \/ fork_copy_fd(p)
          \/ fork_done(p) \/ fork_late_failure(p)
          \/ kern__exit(p) \/ exit_close(p) \/ exit_done(p)
    BY Zenon, <1>2 DEF Next
  <2>2. CASE close_locked(p)
    <3>1. pc[p] = "close" /\ arg[p].fd \in FDs /\ p_fds[p][arg[p].fd] # FD_FREE
      BY Zenon, <1>0, <2>2 DEF close_locked, TableInv, FdsByPlace, InUse
    <3>2. PICK fd \in FDs : fd = arg[p].fd
      BY Zenon, <3>1
    <3>3. CloseFD(p, fd, "run")
      BY Zenon, <2>2, <3>2 DEF close_locked
    <3>4. QED
      BY Zenon, <1>0, <3>1, <3>2, <3>3, CloseInv, FreedCloseInv DEF IndInv
  <2>3. CASE dup2_close(p)
    <3>1. pc[p] = "dup_close" /\ arg[p].new \in FDs /\ p_fds[p][arg[p].new] # FD_FREE
      BY Zenon, <1>0, <2>3 DEF dup2_close, TableInv, FdsByPlace, InUse
    <3>2. PICK fd \in FDs : fd = arg[p].new
      BY Zenon, <3>1
    <3>3. CloseFD(p, fd, "dup")
      BY Zenon, <2>3, <3>2 DEF dup2_close
    <3>4. QED
      BY Zenon, <1>0, <3>1, <3>2, <3>3, CloseInv, FreedCloseInv DEF IndInv
  <2>4. CASE exit_close(p)
    <3>1. PICK fd \in FDs : pc[p] = "exit" /\ p_fds[p][fd] # FD_FREE /\ CloseFD(p, fd, "exit")
      BY Zenon, <2>4 DEF exit_close
    <3>2. QED
      BY Zenon, <1>0, <3>1, CloseInv, FreedCloseInv DEF IndInv
  <2>5. CASE ft_get_fails(p) \/ freed_use(p)
    BY Zenon, <1>1, <2>5 DEF ft_get_fails, freed_use, Fail
  <2>6. CASE fh_close(p)
    BY Zenon, <1>0, <2>6, FreeInv, FreedFreeInv DEF IndInv
  <2>7. CASE \/ proc_create(p) \/ proc_create_strdup(p) \/ fork_copy_fd(p)
             \/ fork_done(p) \/ fork_late_failure(p)
    <3>1. TableInv'
      BY Zenon, <1>0, <2>7, CreateInv, StrdupInv, CopyFdInv, EndForkInv
    <3>2. QED
      BY Zenon, <2>7, <3>1, FreedForkInv DEF IndInv
  <2>8. CASE \/ sys_open(p) \/ sys_close(p) \/ sys_dup2(p) \/ dup2_incref(p) \/ use_get(p)
             \/ sys_lseek(p) \/ readwrite_start(p) \/ readwrite_end(p)
             \/ kern__exit(p) \/ exit_done(p)
    <3>1. TableInv'
      BY Zenon, <1>0, <2>8, OpenInv, CallInv, DupInv, UseInv
    <3>2. QED
      BY Zenon, <2>8, <3>1, FreedCallInv DEF IndInv
  <2>9. QED
    BY Zenon, <2>1, <2>2, <2>3, <2>4, <2>5, <2>6, <2>7, <2>8
<1>3. QED
  BY Zenon, <1>1, <1>2 DEF vars

\* While no count reaches the largest unsigned, the invariant holds of every
\* state: filetable.c, sys_open, sys_close, sys_dup2, the reads and writes,
\* fork_common and kern__exit in any interleaving, with forks that fail.  A
\* fork that fails late leaves references behind, so after 2^32 of them a count
\* does wrap; the hypothesis says it has not.
THEOREM FileTableInvariant == Spec /\ []CountsBelowMax => []IndInv
<1>1. QED
  BY InitInv, NextInv, PTL DEF Spec

\* Then a close never frees a handle that another descriptor still refers to.
THEOREM FileTableRefsCoverFds == Spec /\ []CountsBelowMax => []RefsCoverFds
<1>1. IndInv => RefsCoverFds
  BY Zenon DEF IndInv, TableInv
<1>2. QED
  BY <1>1, FileTableInvariant, PTL

\* And the offset that a read or a write started at is still the handle's when
\* it ends, whatever the processes that share it do.
THEOREM FileTableOffsetStable == Spec /\ []CountsBelowMax => []OffsetStable
<1>1. IndInv => OffsetStable
  BY Zenon DEF IndInv, TableInv
<1>2. QED
  BY <1>1, FileTableInvariant, PTL

\* And a file that sys_open opened is closed with its last descriptor, unless
\* a fork failed late.
THEOREM FileTableNoHandleLeft == Spec /\ []CountsBelowMax => []NoHandleLeft
<1>1. IndInv => NoHandleLeft
  <2> SUFFICES ASSUME IndInv, "late" \notin failed, NEW i \in Slots \ StdFDs,
                      Referring(i) = {}, ft_fhs[i] # NULL
               PROVE  FALSE
    BY Zenon DEF NoHandleLeft
  <2>1. ft_fhs[i].ref >= 1 /\ ft_fhs[i].ref = Cardinality(Referring(i))
    BY Zenon DEF IndInv, TableInv, OpenedExact
  <2>2. Cardinality(Referring(i)) = 0
    BY Zenon, FS_EmptySet
  <2>3. QED
    BY <2>1, <2>2
<1>2. QED
  BY <1>1, FileTableInvariant, PTL
=============================================================================
