--------------------------- MODULE TcbFieldsProofs --------------------------
(***************************************************************************)
(* The steps of the tracer keep the inductive invariant of TcbFieldsSteps, *)
(* and so every property of TcbFields holds for any number of processes,   *)
(* descriptors, directories and programs.                                  *)
(***************************************************************************)
EXTENDS TcbFieldsSteps, FiniteSetTheorems, NaturalsInduction

\* Most leaves are first-order reasoning about sets and functions: Zenon is tried first.
USE Zenon, SMTT(20)

\* The order of the entries.
Below == {ij \in Nat \X Nat : ij[1] < ij[2]}

\* Every set of entries has a least one.
LEMMA BelowWellFounded == IsWellFoundedOn(Below, Nat)
BY NatLessThanWellFounded DEF Below, OpToRel

\* A set of entries that is not empty has a least one.
LEMMA LeastEntry ==
    ASSUME NEW S, S \subseteq Nat, S # {}
    PROVE  (CHOOSE e \in S : \A f \in S : e <= f) \in S
<1>1. PICK x \in S : \A y \in S : ~(<<y, x>> \in Below)
  <2>1. \E x \in S : \A y \in S : ~(<<y, x>> \in Below)
    BY BelowWellFounded, WFMin
  <2>2. QED
    BY <2>1
<1>2. \A y \in S : x <= y
  <2>1. TAKE y \in S
  <2>2. x \in Nat /\ y \in Nat
    OBVIOUS
  <2>3. y < x => <<y, x>> \in Below
    BY <2>2 DEF Below
  <2>4. QED
    BY <1>1, <2>2, <2>3, SMT
<1>3. QED
  BY <1>2

\* alloc_tcb finds an entry that nobody uses for a process that has none: there are as many
\* entries as processes.
LEMMA FreeEntry ==
    ASSUME TypeOK, NEW q \in Pids, entry[q] = 0
    PROVE  /\ FirstFree \in Entries
           /\ \A p \in Pids : entry[p] # FirstFree
<1> DEFINE used == {entry[p] : p \in Pids \ {q}}
           free == Entries \ {entry[p] : p \in Pids}
<1>1. IsFiniteSet(Pids) /\ IsFiniteSet(Pids \ {q}) /\ Cardinality(Pids) \in Nat
      /\ Cardinality(Pids \ {q}) = Cardinality(Pids) - 1
  BY FieldsAssumption, FS_RemoveElement, FS_CardinalityType
<1>2. IsFiniteSet(used) /\ Cardinality(used) <= Cardinality(Pids \ {q})
  <2> DEFINE f == [p \in Pids \ {q} |-> entry[p]]
  <2>1. f \in Surjection(Pids \ {q}, used)
    BY DEF Surjection
  <2> HIDE DEF f, used
  <2>2. QED
    BY <1>1, <2>1, FS_Surjection
<1>3. IsFiniteSet(Entries) /\ Cardinality(Entries) = Cardinality(Pids)
  BY <1>1, FS_Interval, SMT DEF Entries
<1>4. ~(Entries \subseteq used)
  <2>1. SUFFICES ASSUME Entries \subseteq used PROVE FALSE
    OBVIOUS
  <2>2. Cardinality(Entries) <= Cardinality(used)
    BY <1>2, <2>1, FS_Subset
  <2>3. QED
    BY <1>1, <1>2, <1>3, <2>2, FS_CardinalityType, SMT
<1>5. free # {}
  BY <1>4, SMT DEF Entries
<1>6. free \subseteq Nat
  BY SMT DEF Entries
<1>7. (CHOOSE e \in free : \A f \in free : e <= f) \in free
  BY <1>5, <1>6, LeastEntry
<1>8. QED
  BY <1>7 DEF FirstFree

\* The first process is set up before it runs.
LEMMA InitHolds == Init => IInv
<1> SUFFICES ASSUME Init PROVE IInv
  OBVIOUS
<1>1. 1 \in Entries
  <2>1. Cardinality(Pids) \in Nat /\ Cardinality(Pids) # 0
    BY FieldsAssumption, FS_CardinalityType, FS_EmptySet
  <2>2. QED
    BY <2>1, SMT DEF Entries
<1>2. PICK d \in Dirs :
        /\ cwd = [p \in Pids |-> IF p = Root THEN d ELSE Null]
        /\ tcb = [e \in Entries |-> [Blank EXCEPT !.current_dir = IF e = 1 THEN d ELSE Null]]
  BY DEF Init
<1>3. /\ tcb \in [Entries -> Tcbs]
      /\ \A e \in Entries : /\ tcb[e].current_dir = IF e = 1 THEN d ELSE Null
                            /\ tcb[e].p_ignores = Null
                            /\ tcb[e].perceived_program_fullpath = Null
                            /\ tcb[e].opened_file_paths = [f \in Fds |-> Null]
  BY <1>2 DEF Blank, Tcbs
<1>4. /\ exec_mode \in BOOLEAN /\ prov_mode \in BOOLEAN /\ calls \subseteq Ops
      /\ left \in [calls : Nat, clones : Nat] /\ down = FALSE
  BY FieldsAssumption DEF Init
<1>5. TypeOK
  BY <1>1, <1>2, <1>3, <1>4 DEF Init, TypeOK, Tcbs, Running, Names
<1>6. Slots
  BY <1>1, SMT DEF Init, Slots, Running
<1>7. Groups
  BY <1>2, FieldsAssumption DEF Init, Groups, Executes, Alive, Running
<1>8. Births
  BY DEF Init, Births, Unborn
<1>9. Openers
  BY NullAssumption DEF Init, Openers, Unused
<1>10. ASSUME NEW p \in Pids PROVE Known(p)
  <2>1. CallMade(p) /\ Waits(p) /\ CloseKnown(p)
    BY DEF Init, CallMade, Waits, CloseKnown
  <2>2. DirKnown(p)
    BY <1>1, <1>2, <1>3, SMT DEF Init, DirKnown, Ready, Running
  <2>3. ProgramKnown(p)
    BY <1>1, <1>3 DEF Init, ProgramKnown, Ready, Running, Executes, IgnoresOf, PerceivedOf
  <2>4. FilesKnown(p)
    <3>1. \A f \in Fds : fds[grp[p]][f].by # p
      BY NullAssumption DEF Init, Unused
    <3>2. stage[p] \in Running => entry[p] = 1
      BY DEF Init, Running
    <3>3. \A f \in Fds : tcb[1].opened_file_paths[f] = Null
      BY <1>1, <1>3, SMT
    <3>4. QED
      BY <3>1, <3>2, <3>3 DEF FilesKnown
  <2>5. QED
    BY <2>1, <2>2, <2>3, <2>4 DEF Known
<1>11. QED
  BY <1>5, <1>6, <1>7, <1>8, <1>9, <1>10 DEF IInv
-----------------------------------------------------------------------------
(* The exit of a call. *)

\* p goes on, and nobody else moves.
Left(p) ==
    /\ stage[p] = "done" /\ stage'[p] = "user" /\ cur'[p] = NoCall
    /\ stage' \in [Pids -> Stages] /\ rval' \in [Pids -> Names]
    /\ cur' \in [Pids -> Calls \cup {NoCall}] /\ close_rec' \in [Pids -> Dirs \cup {Null}]
    /\ \A q \in Pids \ {p} : /\ stage'[q] = stage[q] /\ cur'[q] = cur[q]
                             /\ rval'[q] = rval[q] /\ close_rec'[q] = close_rec[q]
    /\ UsesDirAtExit(p) => "early" \notin behind[p]
    /\ UNCHANGED <<exec_mode, prov_mode, calls, down, left, grp, cwd, fds, prog, entry, parent>>

\* Leaves does so.
LEMMA LeavesIsLeft ==
    ASSUME IInv, NEW p \in Pids, Leaves(p)
    PROVE  Left(p)
<1>1. UsesDirAtExit(p) => "early" \notin behind[p]
  BY NotEarly DEF Leaves
<1>2. QED
  BY <1>1 DEF IInv, TypeOK, Leaves, Left, modes, kernel, Stages, Running, Names

\* The exit of a call keeps the invariant when it leaves the fields of the other processes
\* alone and what is known of p is right.
LEMMA LeaveMoves ==
    ASSUME IInv, NEW p \in Pids, Left(p), TypeOK', Known(p)', StaysEarly(p),
           \A q \in Pids \ {p} : opened'[q] = opened[q] /\ behind'[q] = behind[q],
           \A e \in Entries : e # entry[p] => tcb'[e] = tcb[e]
    PROVE  IInv'
<1>1. \A q \in Pids \ {p} : Alive(q) /\ stage[q] # "new" => tcb'[entry[q]] = tcb[entry[q]]
  <2>1. stage[p] = "done"
    BY DEF Left
  <2>2. \A q \in Pids \ {p} : Alive(q) /\ stage[q] # "new" =>
            entry[q] \in Entries /\ entry[q] # entry[p]
    BY <2>1, HasEntry DEF IInv, Alive, Running
  <2>3. QED
    BY <2>2
<1>2. Moves(p)
  BY <1>1 DEF Moves, SameMode, Same, Left
<1>3. ~Executes(p, {"call", "done"})' /\ cwd' = cwd /\ fds' = fds
  BY DEF Left, Executes
<1>4. QED
  BY <1>2, <1>3, DirsKept, MoveStep

\* So does the exit of a call of a process whose fork event is handled, when the fields of p
\* are right.
LEMMA LeaveStep ==
    ASSUME IInv, NEW p \in Pids, Left(p), TypeOK',
           \A q \in Pids \ {p} : opened'[q] = opened[q] /\ behind'[q] = behind[q],
           \A e \in Entries : e # entry[p] => tcb'[e] = tcb[e],
           "early" \notin behind[p], "early" \notin behind'[p],
           tcb'[entry[p]].current_dir \in Dirs,
           "dir" \notin behind'[p] => tcb'[entry[p]].current_dir = cwd[grp[p]],
           exec_mode /\ "ignores" \notin behind'[p] =>
               tcb'[entry[p]].p_ignores = IgnoresOf(prog[grp[p]]),
           exec_mode /\ "program" \notin behind'[p] =>
               tcb'[entry[p]].perceived_program_fullpath = PerceivedOf(prog[grp[p]]),
           \A f \in Fds : prov_mode /\ fds[grp[p]][f].by = p =>
               fds[grp[p]][f].path = tcb'[entry[p]].opened_file_paths[f],
           \A f \in Fds : tcb'[entry[p]].opened_file_paths[f] # Null => f \in opened'[p]
    PROVE  IInv'
<1>1. CallMade(p)' /\ Waits(p)' /\ CloseKnown(p)'
  BY DEF CallMade, Waits, CloseKnown, Left
<1>2. DirKnown(p)'
  BY DEF DirKnown, Left
<1>3. ProgramKnown(p)'
  BY DEF ProgramKnown, Executes, Left
<1>4. FilesKnown(p)'
  BY DEF FilesKnown, Left
<1>5. Known(p)' /\ StaysEarly(p)
  BY <1>1, <1>2, <1>3, <1>4 DEF Known, StaysEarly
<1>6. QED
  BY <1>5, LeaveMoves

\* What is known of p at the exit of its call.
LEMMA ExitFacts ==
    ASSUME IInv, NEW p \in Pids, stage[p] = "done", "early" \notin behind[p]
    PROVE  /\ cur[p] \in Calls /\ entry[p] \in Entries /\ tcb[entry[p]] \in Tcbs
           /\ cwd[grp[p]] \in Dirs
           /\ \A q \in Pids : q # p => entry[q] # entry[p]
           /\ tcb[entry[p]].current_dir \in Dirs
           /\ exec_mode /\ "ignores" \notin behind[p] =>
                  tcb[entry[p]].p_ignores = IgnoresOf(prog[grp[p]])
           /\ exec_mode /\ "program" \notin behind[p] =>
                  tcb[entry[p]].perceived_program_fullpath = PerceivedOf(prog[grp[p]])
           /\ \A f \in Fds : tcb[entry[p]].opened_file_paths[f] # Null => f \in opened[p]
<1>1. /\ entry[p] \in Entries /\ tcb[entry[p]] \in Tcbs
      /\ \A q \in Pids : q # p => entry[q] # entry[p]
  BY HasEntry DEF IInv, Running
<1>2. cur[p] \in Calls /\ cwd[grp[p]] \in Dirs
  BY InCall
<1>3. QED
  BY <1>1, <1>2 DEF IInv, Known, DirKnown, ProgramKnown, FilesKnown, Ready, Running, Executes

\* current_dir of one entry is set.
LEMMA SetDir ==
    ASSUME NEW T \in [Entries -> Tcbs], NEW e \in Entries, NEW d \in Dirs, NEW U,
           U = [T EXCEPT ![e].current_dir = d]
    PROVE  /\ U \in [Entries -> Tcbs]
           /\ \A g \in Entries : g # e => U[g] = T[g]
           /\ U[e].current_dir = d /\ U[e].p_ignores = T[e].p_ignores
           /\ U[e].perceived_program_fullpath = T[e].perceived_program_fullpath
           /\ U[e].opened_file_paths = T[e].opened_file_paths
<1> DEFINE u == [T[e] EXCEPT !.current_dir = d]
<1>1. T[e] \in Tcbs
  OBVIOUS
<1>2. /\ u \in Tcbs /\ u.current_dir = d /\ u.p_ignores = T[e].p_ignores
      /\ u.perceived_program_fullpath = T[e].perceived_program_fullpath
      /\ u.opened_file_paths = T[e].opened_file_paths
  BY <1>1 DEF Tcbs
<1>3. U = [T EXCEPT ![e] = u]
  OBVIOUS
<1> HIDE DEF u
<1>4. U \in [Entries -> Tcbs] /\ U[e] = u /\ \A g \in Entries : g # e => U[g] = T[g]
  BY <1>2, <1>3
<1>5. QED
  BY <1>2, <1>4

\* The exit of a chdir: the directory is read from the kernel.
LEMMA FchdirStep ==
    ASSUME IInv, NEW p \in Pids, CDE_end_fchdir(p)
    PROVE  IInv'
<1>1. stage[p] = "done" /\ Left(p) /\ "early" \notin behind[p]
  BY LeavesIsLeft DEF CDE_end_fchdir, Leaves, Left, UsesDirAtExit
<1>2. /\ tcb' \in [Entries -> Tcbs]
      /\ \A e \in Entries : e # entry[p] => tcb'[e] = tcb[e]
      /\ tcb'[entry[p]].current_dir = cwd[grp[p]]
      /\ tcb'[entry[p]].p_ignores = tcb[entry[p]].p_ignores
      /\ tcb'[entry[p]].perceived_program_fullpath = tcb[entry[p]].perceived_program_fullpath
      /\ tcb'[entry[p]].opened_file_paths = tcb[entry[p]].opened_file_paths
  <2>1. tcb \in [Entries -> Tcbs] /\ tcb' = [tcb EXCEPT ![entry[p]].current_dir = cwd[grp[p]]]
    BY DEF CDE_end_fchdir, IInv, TypeOK, Tcbs
  <2>2. QED
    BY <1>1, <2>1, ExitFacts, SetDir, SMT
<1>3. /\ behind' \in [Pids -> SUBSET {"dir", "ignores", "program", "early"}] /\ opened' = opened
      /\ \A q \in Pids \ {p} : behind'[q] = behind[q]
      /\ "ignores" \in behind[p] => "ignores" \in behind'[p]
      /\ "program" \in behind[p] => "program" \in behind'[p]
      /\ "early" \in behind'[p] => "early" \in behind[p]
  BY DEF CDE_end_fchdir, IInv, TypeOK
<1>4. TypeOK'
  BY <1>1, <1>2, <1>3 DEF Left, IInv, TypeOK, Tcbs, Stages
<1>5. \A f \in Fds : prov_mode /\ fds[grp[p]][f].by = p =>
          fds[grp[p]][f].path = tcb[entry[p]].opened_file_paths[f]
  BY <1>1 DEF IInv, Known, FilesKnown, Running, CDE_end_fchdir
<1>6. QED
  BY <1>1, <1>2, <1>3, <1>4, <1>5, ExitFacts, LeaveStep, SMT

\* The exit of a getcwd in audit mode: the answer is taken.
LEMMA GetcwdExitStep ==
    ASSUME IInv, NEW p \in Pids, CDE_end_getcwd(p)
    PROVE  IInv'
<1>1. stage[p] = "done" /\ Left(p) /\ "early" \notin behind[p]
  BY LeavesIsLeft DEF CDE_end_getcwd, Leaves, Left, UsesDirAtExit
<1>2. rval[p] \in Dirs /\ ("dir" \notin behind[p] => rval[p] = cwd[grp[p]])
  BY <1>1 DEF CDE_end_getcwd, IInv, Known, CallMade
<1>3. /\ tcb' \in [Entries -> Tcbs]
      /\ \A e \in Entries : e # entry[p] => tcb'[e] = tcb[e]
      /\ tcb'[entry[p]].current_dir = rval[p]
      /\ tcb'[entry[p]].p_ignores = tcb[entry[p]].p_ignores
      /\ tcb'[entry[p]].perceived_program_fullpath = tcb[entry[p]].perceived_program_fullpath
      /\ tcb'[entry[p]].opened_file_paths = tcb[entry[p]].opened_file_paths
  <2>1. tcb \in [Entries -> Tcbs] /\ tcb' = [tcb EXCEPT ![entry[p]].current_dir = rval[p]]
    BY DEF CDE_end_getcwd, IInv, TypeOK, Tcbs
  <2>2. QED
    BY <1>1, <1>2, <2>1, ExitFacts, SetDir, SMT
<1>4. /\ behind' \in [Pids -> SUBSET {"dir", "ignores", "program", "early"}] /\ opened' = opened
      /\ \A q \in Pids \ {p} : behind'[q] = behind[q]
      /\ "ignores" \in behind[p] => "ignores" \in behind'[p]
      /\ "program" \in behind[p] => "program" \in behind'[p]
      /\ "early" \in behind'[p] => "early" \in behind[p]
      /\ "dir" \notin behind'[p] => "dir" \notin behind[p] \/ rval[p] = cwd[grp[p]]
  BY DEF CDE_end_getcwd, IInv, TypeOK
<1>5. TypeOK'
  BY <1>1, <1>3, <1>4 DEF Left, IInv, TypeOK, Tcbs, Stages
<1>6. \A f \in Fds : prov_mode /\ fds[grp[p]][f].by = p =>
          fds[grp[p]][f].path = tcb[entry[p]].opened_file_paths[f]
  BY <1>1 DEF IInv, Known, FilesKnown, Running, CDE_end_getcwd
<1>7. QED
  BY <1>1, <1>2, <1>3, <1>4, <1>5, <1>6, ExitFacts, LeaveStep, SMT

\* The exit of an open with provenance: the path is stored, made with current_dir.
LEMMA OpenExitStep ==
    ASSUME IInv, NEW p \in Pids, print_open_prov(p)
    PROVE  IInv'
<1>1. stage[p] = "done" /\ Left(p) /\ "early" \notin behind[p]
  BY LeavesIsLeft DEF print_open_prov, Leaves, Left, UsesDirAtExit
<1>2. rval[p] \in Fds /\ cur[p].op = "open" /\ prov_mode
  BY <1>1 DEF print_open_prov, IInv, Known, CallMade
<1>3. /\ tcb' \in [Entries -> Tcbs]
      /\ \A e \in Entries : e # entry[p] => tcb'[e] = tcb[e]
      /\ tcb'[entry[p]].current_dir = tcb[entry[p]].current_dir
      /\ tcb'[entry[p]].p_ignores = tcb[entry[p]].p_ignores
      /\ tcb'[entry[p]].perceived_program_fullpath = tcb[entry[p]].perceived_program_fullpath
      /\ tcb'[entry[p]].opened_file_paths[rval[p]] = tcb[entry[p]].current_dir
      /\ \A f \in Fds : f # rval[p] => tcb'[entry[p]].opened_file_paths[f] =
                                           tcb[entry[p]].opened_file_paths[f]
  <2> DEFINE e == entry[p]
             f == rval[p]
             d == tcb[entry[p]].current_dir
  <2>1. tcb \in [Entries -> Tcbs] /\ tcb' = [tcb EXCEPT ![e].opened_file_paths[f] = d]
    BY DEF print_open_prov, IInv, TypeOK, Tcbs
  <2>2. e \in Entries /\ f \in Fds /\ d \in Dirs
    BY <1>1, <1>2, ExitFacts
  <2> HIDE DEF e, f, d
  <2> DEFINE o == [tcb[e].opened_file_paths EXCEPT ![f] = d]
             u == [tcb[e] EXCEPT !.opened_file_paths = o]
  <2>3. tcb[e] \in Tcbs /\ tcb' = [tcb EXCEPT ![e] = u]
    BY <2>1, <2>2
  <2>4. /\ o \in [Fds -> Dirs \cup {Null}] /\ o[f] = d
        /\ \A g \in Fds : g # f => o[g] = tcb[e].opened_file_paths[g]
    BY <2>2, <2>3 DEF Tcbs
  <2> HIDE DEF o
  <2>5. /\ u \in Tcbs /\ u.current_dir = tcb[e].current_dir /\ u.p_ignores = tcb[e].p_ignores
        /\ u.perceived_program_fullpath = tcb[e].perceived_program_fullpath
        /\ u.opened_file_paths = o
    BY <2>3, <2>4 DEF Tcbs
  <2> HIDE DEF u
  <2>6. tcb' \in [Entries -> Tcbs] /\ tcb'[e] = u /\ \A g \in Entries : g # e => tcb'[g] = tcb[g]
    BY <2>1, <2>2, <2>3, <2>5
  <2>7. QED
    BY <2>4, <2>5, <2>6 DEF e, f, d
<1>4. /\ opened' \in [Pids -> SUBSET Fds] /\ behind' = behind
      /\ \A q \in Pids \ {p} : opened'[q] = opened[q]
      /\ opened'[p] = opened[p] \cup {rval[p]}
  BY <1>2 DEF print_open_prov, IInv, TypeOK
<1>5. TypeOK'
  BY <1>1, <1>3, <1>4 DEF Left, IInv, TypeOK, Tcbs, Stages
<1>6. \A f \in Fds : prov_mode /\ fds[grp[p]][f].by = p =>
          fds[grp[p]][f].path = tcb'[entry[p]].opened_file_paths[f]
  BY <1>1, <1>2, <1>3 DEF IInv, Known, FilesKnown, Running
<1>7. \A f \in Fds : tcb'[entry[p]].opened_file_paths[f] # Null => f \in opened'[p]
  BY <1>1, <1>3, <1>4, ExitFacts
<1>8. "dir" \notin behind[p] => tcb[entry[p]].current_dir = cwd[grp[p]]
  BY <1>1, <1>2 DEF IInv, Known, DirKnown, Ready, Moved, Running
<1>9. QED
  BY <1>1, <1>3, <1>4, <1>5, <1>6, <1>7, <1>8, ExitFacts, LeaveStep

\* The other exits, at which no field changes.
LEMMA ExitStep ==
    ASSUME IInv, NEW p \in Pids, Exit(p)
    PROVE  IInv'
<1>1. stage[p] = "done" /\ Left(p) /\ UNCHANGED <<tcb, opened, behind>>
  BY LeavesIsLeft DEF Exit, Leaves
<1>2. TypeOK'
  BY <1>1 DEF Left, IInv, TypeOK, Stages
<1>3. CASE "early" \in behind[p]
  <2>1. ~Moved(p)
    BY <1>1, <1>3 DEF Left, UsesDirAtExit, Moved
  <2>2. Known(p)
    BY DEF IInv
  <2>3. StaysEarly(p)
    BY <1>1, <2>1 DEF StaysEarly, StaysUnborn, Unborn, Left
  <2>4. CallMade(p)' /\ Waits(p)' /\ CloseKnown(p)'
    BY <1>1, <2>2 DEF Known, CallMade, Waits, CloseKnown, Left, Running
  <2>5. DirKnown(p)' /\ ProgramKnown(p)'
    BY <1>1, <1>3 DEF DirKnown, ProgramKnown, Ready
  <2>6. FilesKnown(p)'
    <3>1. grp[p] \in Pids /\ \A f \in Fds : fds[grp[p]][f].by # p
      BY <1>3, Types DEF IInv, Openers, Unborn
    <3>2. \A f \in Fds : tcb[entry[p]].opened_file_paths[f] = Null
      BY <1>3, <2>2 DEF Known, Waits
    <3>3. QED
      BY <1>1, <3>1, <3>2 DEF FilesKnown, Left
  <2>7. QED
    BY <1>1, <1>2, <2>3, <2>4, <2>5, <2>6, LeaveMoves DEF Known
<1>4. CASE "early" \notin behind[p]
  <2>1. "dir" \notin behind[p] => tcb[entry[p]].current_dir = cwd[grp[p]]
    BY <1>1, <1>4 DEF IInv, Known, DirKnown, Ready, Moved, Running, Exit
  <2>2. \A f \in Fds : prov_mode /\ fds[grp[p]][f].by = p =>
            fds[grp[p]][f].path = tcb[entry[p]].opened_file_paths[f]
    BY <1>1, FailedAssumption, SMT DEF IInv, Known, FilesKnown, Running, Exit
  <2>3. QED
    BY <1>1, <1>2, <1>4, <2>1, <2>2, ExitFacts, LeaveStep
<1>5. QED
  BY <1>3, <1>4
-----------------------------------------------------------------------------
(* New children. *)

\* Thread groups stay as they are when nobody joins one and no call begins.
LEMMA SameGroups ==
    ASSUME Groups, grp' = grp, cwd' = cwd,
           \A p \in Pids : /\ Alive(p)' => Alive(p)
                           /\ stage'[p] = "unused" => stage[p] = "unused"
                           /\ stage'[p] \in {"call", "done"} =>
                                  stage'[p] = stage[p] /\ cur'[p] = cur[p]
    PROVE  Groups'
<1>1. ASSUME NEW p \in Pids, Executes(p, {"call", "done"})' PROVE Single(p)'
  <2>1. Single(p)
    BY <1>1 DEF Groups, Executes
  <2>2. p \in Group(p)' /\ Group(p)' \subseteq Group(p)
    BY <1>1, <2>1 DEF Group, Executes, Alive, Running, Single
  <2>3. QED
    BY <2>1, <2>2 DEF Single
<1>2. QED
  BY <1>1 DEF Groups

\* A child that stops first is held in an entry of its own that knows nothing.
LEMMA FirstStopStep ==
    ASSUME IInv, NEW q \in Pids, FirstStop(q)
    PROVE  IInv'
<1> DEFINE e == FirstFree
           u == alloc_tcb_cde_fields(tcb[e])
<1>1. /\ stage[q] = "new" /\ entry' = [entry EXCEPT ![q] = e]
      /\ tcb' = [tcb EXCEPT ![e] = u] /\ stage' = [stage EXCEPT ![q] = "held"]
      /\ parent' = [parent EXCEPT ![e] = 0]
      /\ UNCHANGED <<exec_mode, prov_mode, calls, down, left, grp, cwd, fds, prog, cur, rval,
                     close_rec, opened, behind>>
  BY DEF FirstStop, modes, kernel
<1>2. e \in Entries /\ \A p \in Pids : entry[p] # e
  <2>1. entry[q] = 0
    BY <1>1 DEF IInv, Slots, Running
  <2>2. QED
    BY <2>1, FreeEntry DEF IInv
<1> HIDE DEF e
<1>3. /\ u \in Tcbs /\ u.current_dir = Null /\ u.p_ignores = Null
      /\ u.opened_file_paths = [f \in Fds |-> Null]
  BY <1>2, Types, AllocFields
<1> HIDE DEF u
<1>4. /\ tcb' \in [Entries -> Tcbs] /\ tcb'[e] = u /\ \A g \in Entries : g # e => tcb'[g] = tcb[g]
      /\ entry' \in [Pids -> Entries \cup {0}] /\ entry'[q] = e
      /\ \A p \in Pids \ {q} : entry'[p] = entry[p]
      /\ stage' \in [Pids -> Stages] /\ stage'[q] = "held"
      /\ \A p \in Pids \ {q} : stage'[p] = stage[p]
  BY <1>1, <1>2, <1>3, Types DEF Stages
<1>5. TypeOK'
  <2>1. parent' \in [Entries -> Entries \cup {0}]
    BY <1>1 DEF IInv, TypeOK
  <2>2. QED
    BY <1>1, <1>4, <2>1 DEF IInv, TypeOK, Tcbs, Stages
<1>6. \A p \in Pids \ {q} : Same(p)
  <2>1. ASSUME NEW p \in Pids \ {q}, Alive(p), stage[p] # "new"
        PROVE  tcb'[entry[p]] = tcb[entry[p]]
    <3>1. entry[p] \in Entries
      BY <2>1, HasEntry DEF IInv, Alive
    <3>2. QED
      BY <1>2, <1>4, <3>1
  <2>2. QED
    BY <1>1, <1>4, <2>1 DEF Same
<1>7. Slots'
  <2>1. e # 0
    BY <1>2, SMT DEF Entries
  <2>2. QED
    BY <1>1, <1>2, <1>4, <2>1, SMT DEF IInv, Slots, Running
<1>8. Groups'
  <2>1. \A p \in Pids : /\ Alive(p)' => Alive(p)
                        /\ stage'[p] = "unused" => stage[p] = "unused"
                        /\ stage'[p] \in {"call", "done"} => stage'[p] = stage[p]
    BY <1>1, <1>4 DEF Alive
  <2>2. QED
    BY <1>1, <2>1, SameGroups DEF IInv
<1>9. Births'
  <2>1. ASSUME NEW p \in Pids, stage[p] = "event" PROVE StaysUnborn(rval[p])
    <3>1. PICK r \in Pids : r = rval[p] /\ rval'[p] = r /\ Unborn(r)
      BY <1>1, <2>1 DEF IInv, Births, Inherits
    <3>2. CASE r = q
      BY <1>1, <1>4, <3>1, <3>2 DEF StaysUnborn, Unborn, Moved
    <3>3. CASE r # q
      BY <1>6, <3>1, <3>3, SameUnborn DEF IInv, StaysUnborn
    <3>4. QED
      BY <3>2, <3>3
  <2>2. \A p \in Pids : /\ stage'[p] = "event" <=> stage[p] = "event"
                        /\ stage[p] = "event" => Same(p)
                        /\ Unborn(p)' => Unborn(p)
    BY <1>1, <1>4, <1>6 DEF Unborn
  <2>3. SameMode
    BY <1>1 DEF SameMode
  <2>4. QED
    BY <2>1, <2>2, <2>3, SameBirths DEF IInv
<1>10. Openers'
  BY <1>1, <1>4, SMT DEF IInv, Openers, Unborn
<1>11. Known(q)'
  <2>1. cur'[q] = NoCall /\ "early" \notin behind'[q]
    BY <1>1 DEF IInv, Known, CallMade, Waits, Running
  <2>2. Waits(q)'
    BY <1>3, <1>4, <2>1 DEF Waits
  <2>3. QED
    BY <1>4, <2>1, <2>2 DEF Known, CallMade, DirKnown, ProgramKnown, FilesKnown, CloseKnown, Ready,
                            Running
<1>12. \A p \in Pids \ {q} : Known(p)'
  BY <1>1, <1>6, SameKnown DEF IInv, SameMode
<1>13. QED
  BY <1>5, <1>7, <1>8, <1>9, <1>10, <1>11, <1>12 DEF IInv

\* What the fork event of p does for the child q, which has no entry yet, is held, or runs: its
\* entry, which no other process has, gets the fields of p.
Adopted(p, q) ==
    /\ stage[p] = "event" /\ q \in Pids /\ Unborn(q) /\ q = rval[p] /\ HasDir(p)
    /\ entry'[q] # 0 /\ entry'[p] = entry[p] /\ tcb'[entry[p]] = tcb[entry[p]]
    /\ \A r \in Pids \ {q} : entry'[r] = entry[r] /\ entry[r] # entry'[q]
    /\ tcb'[entry'[q]].current_dir = tcb[entry[p]].current_dir
    /\ tcb'[entry'[q]].p_ignores = tcb[entry[p]].p_ignores
    /\ "program" \notin behind'[q] =>
           tcb'[entry'[q]].perceived_program_fullpath = tcb[entry[p]].perceived_program_fullpath
    /\ \A f \in Fds : tcb'[entry'[q]].opened_file_paths[f] = Null
    /\ behind[q] \ {"early"} \subseteq behind'[q] /\ "early" \notin behind'[q]
    /\ behind'[p] = behind[p] /\ stage'[p] = "user"
    /\ stage'[q] = IF stage[q] \in {"new", "held"} THEN "user" ELSE stage[q]
    /\ \A r \in Pids \ {p} : rval'[r] = rval[r]
    /\ \A r \in Pids \ {p, q} : Same(r)
    /\ UNCHANGED <<exec_mode, prov_mode, grp, cwd, fds, prog, cur, opened, close_rec>>

\* handle_new_child does so.
LEMMA HandlerAdopts ==
    ASSUME IInv, NEW p \in Pids, handle_new_child(p)
    PROVE  Adopted(p, rval[p]) /\ TypeOK'
<1> DEFINE q == rval[p]
           e == IF stage[q] = "new" THEN FirstFree ELSE entry[q]
           t == IF stage[q] = "new" THEN alloc_tcb_cde_fields(tcb[e]) ELSE tcb[e]
           u == CDE_init_tcb_dir_fields(t, tcb[entry[p]])
           x == IF grp[p] # p THEN parent[entry[p]] ELSE entry[p]
           b == (behind[q] \ {"early"}) \cup
                    IF t.perceived_program_fullpath = Null THEN {} ELSE {"program"}
           s == IF stage[q] \in {"new", "held"} THEN "user" ELSE stage[q]
<1>1. q \in Pids /\ Unborn(q) /\ p # q /\ stage[p] = "event" /\ HasDir(p)
  BY DEF IInv, Births, Inherits, handle_new_child
<1>2. /\ entry' = [entry EXCEPT ![q] = e]
      /\ tcb' = [tcb EXCEPT ![e] = u]
      /\ parent' = [parent EXCEPT ![e] = x]
      /\ behind' = [behind EXCEPT ![q] = b]
      /\ stage' = [stage EXCEPT ![p] = "user", ![q] = s]
      /\ rval' = [rval EXCEPT ![p] = Failed]
      /\ UNCHANGED <<exec_mode, prov_mode, calls, down, left, grp, cwd, fds, prog, cur, close_rec,
                     opened>>
  BY <1>1, Types DEF handle_new_child, modes, kernel
<1>3. /\ entry[p] \in Entries /\ tcb[entry[p]] \in Tcbs
      /\ \A r \in Pids : r # p => entry[r] # entry[p]
  BY <1>1, HasEntry DEF IInv, Running
<1>4. /\ e \in Entries /\ t \in Tcbs /\ t.opened_file_paths = [f \in Fds |-> Null]
      /\ \A r \in Pids \ {q} : entry[r] # e
  <2>1. CASE stage[q] # "new"
    <3>1. stage[q] = "held" \/ "early" \in behind[q]
      BY <1>1, <2>1 DEF Unborn
    <3>2. stage[q] \in Running \cup {"held"}
      BY <1>1, <3>1 DEF IInv, Known, Waits
    <3>3. /\ entry[q] \in Entries /\ tcb[entry[q]] \in Tcbs
          /\ \A r \in Pids \ {q} : entry[r] # entry[q]
      BY <1>1, <3>2, HasEntry DEF IInv
    <3>4. tcb[entry[q]].opened_file_paths = [f \in Fds |-> Null]
      BY <1>1, <3>1 DEF IInv, Known, Waits
    <3>5. QED
      BY <2>1, <3>3, <3>4
  <2>2. CASE stage[q] = "new"
    <3>1. entry[q] = 0
      BY <1>1, <2>2 DEF IInv, Slots, Running
    <3>2. FirstFree \in Entries /\ \A r \in Pids : entry[r] # FirstFree
      BY <1>1, <3>1, FreeEntry DEF IInv
    <3>3. /\ alloc_tcb_cde_fields(tcb[FirstFree]) \in Tcbs
          /\ alloc_tcb_cde_fields(tcb[FirstFree]).opened_file_paths = [f \in Fds |-> Null]
      BY <3>2, Types, AllocFields
    <3>4. QED
      BY <2>2, <3>2, <3>3
  <2>3. QED
    BY <2>1, <2>2
<1> HIDE DEF t, e
<1>5. /\ u \in Tcbs /\ u.current_dir = tcb[entry[p]].current_dir
      /\ u.p_ignores = tcb[entry[p]].p_ignores
      /\ t.perceived_program_fullpath = Null =>
             u.perceived_program_fullpath = tcb[entry[p]].perceived_program_fullpath
      /\ \A f \in Fds : u.opened_file_paths[f] = Null
  BY <1>3, <1>4, ChildFields, SMT
<1> HIDE DEF u
<1>6. /\ tcb' \in [Entries -> Tcbs] /\ tcb'[e] = u
      /\ \A g \in Entries : g # e => tcb'[g] = tcb[g]
      /\ entry' \in [Pids -> Entries \cup {0}] /\ entry'[q] = e /\ e # 0
      /\ \A r \in Pids \ {q} : entry'[r] = entry[r]
  <2>1. e # 0
    BY <1>4, SMT DEF Entries
  <2>2. QED
    BY <1>1, <1>2, <1>4, <1>5, <2>1, Types
<1>7. /\ behind' \in [Pids -> SUBSET {"dir", "ignores", "program", "early"}]
      /\ \A r \in Pids \ {q} : behind'[r] = behind[r]
      /\ behind[q] \ {"early"} \subseteq behind'[q] /\ "early" \notin behind'[q]
      /\ "program" \notin behind'[q] => t.perceived_program_fullpath = Null
  BY <1>1, <1>2 DEF IInv, TypeOK
<1> HIDE DEF b
<1>8. /\ stage' \in [Pids -> Stages] /\ stage'[p] = "user" /\ stage'[q] = s
      /\ \A r \in Pids \ {p, q} : stage'[r] = stage[r]
      /\ rval' \in [Pids -> Names] /\ \A r \in Pids \ {p} : rval'[r] = rval[r]
  <2>1. s \in Stages
    BY <1>1, Types DEF Stages, Running
  <2> HIDE DEF s
  <2>2. QED
    BY <1>1, <1>2, <2>1, Types DEF IInv, TypeOK, Stages, Running, Names
<1>9. TypeOK'
  <2>1. parent \in [Entries -> Entries \cup {0}]
    BY DEF IInv, TypeOK
  <2>2. x \in Entries \cup {0}
    BY <1>3, <2>1
  <2> HIDE DEF x
  <2>3. parent' \in [Entries -> Entries \cup {0}]
    BY <1>2, <1>4, <2>1, <2>2
  <2>4. QED
    BY <1>2, <1>6, <1>7, <1>8, <2>3 DEF IInv, TypeOK, Tcbs, Stages
<1>10. \A r \in Pids \ {p, q} : Same(r)
  <2>1. ASSUME NEW r \in Pids \ {p, q}, Alive(r), stage[r] # "new"
        PROVE  tcb'[entry[r]] = tcb[entry[r]]
    <3>1. entry[r] \in Entries /\ entry[r] # e
      BY <1>4, <2>1, HasEntry DEF IInv, Alive
    <3>2. QED
      BY <1>6, <3>1
  <2>2. QED
    BY <1>2, <1>6, <1>7, <1>8, <2>1 DEF Same
<1>11. entry'[p] = entry[p] /\ tcb'[entry[p]] = tcb[entry[p]] /\ behind'[p] = behind[p]
  BY <1>1, <1>3, <1>4, <1>6, <1>7
<1>12. QED
  BY <1>1, <1>2, <1>4, <1>5, <1>6, <1>7, <1>8, <1>9, <1>10, <1>11 DEF Adopted

\* The fork event keeps the invariant.
LEMMA AdoptStep ==
    ASSUME IInv, NEW p \in Pids, NEW q \in Pids, Adopted(p, q), TypeOK'
    PROVE  IInv'
<1>1. /\ p # q /\ cur[p] = NoCall /\ SameMode /\ Inherits(p, q) /\ Known(p) /\ Known(q)
      /\ \A r \in Pids \ {p, q} : Same(r) /\ stage'[r] = stage[r]
  BY DEF IInv, Known, CallMade, Births, Inherits, Adopted, SameMode, Same
<1>2. /\ stage[p] = "event" /\ stage'[p] = "user"
      /\ "early" \notin behind[p] /\ behind'[p] = behind[p]
      /\ Unborn(q) /\ "early" \notin behind'[q] /\ q = rval[p]
      /\ stage'[q] \in Running
      /\ \/ stage'[q] = stage[q]
         \/ stage[q] \in {"new", "held"} /\ stage'[q] = "user" /\ cur[q] = NoCall
  <2>1. /\ stage[p] = "event" /\ stage'[p] = "user" /\ "early" \notin behind[p]
        /\ behind'[p] = behind[p] /\ Unborn(q) /\ "early" \notin behind'[q] /\ q = rval[p]
    BY NotEarly DEF Adopted
  <2>2. CASE stage[q] \in {"new", "held"}
    BY <1>1, <2>1, <2>2 DEF Adopted, Running, Known, CallMade
  <2>3. CASE stage[q] \notin {"new", "held"}
    <3>1. stage'[q] = stage[q] /\ "early" \in behind[q]
      BY <2>1, <2>3 DEF Adopted, Unborn
    <3>2. QED
      BY <1>1, <2>1, <3>1 DEF Known, Waits
  <2>4. QED
    BY <2>1, <2>2, <2>3
<1>3. ~Unborn(p) /\ ~Unborn(p)' /\ ~Unborn(q)'
      /\ \A r \in Pids \ {p, q} : Unborn(r)' <=> Unborn(r)
  BY <1>1, <1>2 DEF Unborn, Same, Running
<1>4. Slots'
  <2>1. \A r \in Pids : entry'[r] # 0 <=> stage'[r] \in Running \cup {"held", "dead", "zombie"}
    <3>1. entry'[q] # 0 /\ entry'[p] = entry[p] /\ \A r \in Pids \ {p, q} : entry'[r] = entry[r]
      BY DEF Adopted
    <3>2. QED
      BY <1>1, <1>2, <3>1 DEF IInv, Slots, Running
  <2>2. entry'[q] # 0 /\ \A r \in Pids \ {q} : entry'[r] = entry[r] /\ entry[r] # entry'[q]
    BY DEF Adopted
  <2>3. QED
    BY <2>1, <2>2 DEF IInv, Slots
<1>5. Groups'
  <2>1. \A r \in Pids : /\ Alive(r)' => Alive(r)
                        /\ stage'[r] = "unused" => stage[r] = "unused"
                        /\ stage'[r] \in {"call", "done"} => stage'[r] = stage[r]
    <3>1. Alive(p) /\ Alive(q)
      BY <1>1, <1>2 DEF Alive, Running, Unborn, Known, Waits
    <3>2. QED
      BY <1>1, <1>2, <3>1 DEF Alive, Running
  <2>2. grp' = grp /\ cwd' = cwd /\ cur' = cur
    BY DEF Adopted
  <2>3. QED
    BY <2>1, <2>2, SameGroups DEF IInv
<1>6. Births'
  <2>1. ASSUME NEW r \in Pids, stage'[r] = "event"
        PROVE  /\ stage[r] = "event" /\ rval'[r] = rval[r] /\ r # p
               /\ Inherits(r, rval[r])'
    <3>1. r # p /\ stage[r] = "event" /\ rval'[r] = rval[r]
      BY <1>1, <1>2, <2>1 DEF Adopted
    <3>2. PICK t \in Pids : t = rval[r] /\ Inherits(r, t) /\ Unborn(t)
      BY <3>1 DEF IInv, Births, Inherits
    <3>3. t \in Pids \ {p, q}
      BY <1>2, <1>3, <3>1, <3>2 DEF IInv, Births
    <3>4. Same(t) /\ StaysUnborn(t)
      BY <1>1, <3>2, <3>3, SameUnborn DEF IInv
    <3>5. Inherits(r, t)'
      <4>1. CASE r = q
        <5>1. "early" \in behind[r]
          BY <1>2, <3>1, <4>1 DEF Unborn
        <5>2. /\ "dir" \in behind'[t]
              /\ exec_mode => "ignores" \in behind'[t] /\ "program" \in behind'[t]
          BY <3>2, <3>4, <5>1 DEF Inherits, StaysUnborn
        <5>3. Unborn(t)' /\ r # t /\ exec_mode' = exec_mode
          BY <1>1, <3>2, <3>4 DEF Inherits, StaysUnborn, SameMode
        <5>4. QED
          BY <5>2, <5>3 DEF Inherits
      <4>2. CASE r # q
        BY <1>1, <3>1, <3>2, <3>4, <4>2, SameInherits
      <4>3. QED
        BY <4>1, <4>2
    <3>6. QED
      BY <3>1, <3>2, <3>5
  <2>2. ASSUME NEW t \in Pids, Unborn(t)' PROVE \E r \in Pids : stage'[r] = "event" /\ rval'[r] = t
    <3>1. Unborn(t) /\ t # q
      BY <1>3, <2>2
    <3>2. PICK r \in Pids : stage[r] = "event" /\ rval[r] = t
      BY <3>1 DEF IInv, Births
    <3>3. r # p
      BY <1>2, <3>1, <3>2
    <3>4. QED
      BY <1>1, <3>2, <3>3 DEF Adopted
  <2>3. QED
    BY <2>1, <2>2 DEF IInv, Births
<1>7. Openers'
  BY <1>1, <1>2, <1>3 DEF IInv, Openers, Adopted, Running
<1>8. Known(p)'
  <2>1. /\ stage[p] = "event" /\ stage'[p] = "user" /\ cur'[p] = NoCall /\ opened'[p] = opened[p]
        /\ tcb'[entry'[p]] = tcb[entry[p]] /\ behind'[p] = behind[p]
        /\ UNCHANGED <<grp, cwd, fds, prog>>
    BY <1>1 DEF Adopted
  <2>2. CallMade(p)' /\ Waits(p)' /\ CloseKnown(p)'
    BY <1>2, <2>1 DEF CallMade, Waits, CloseKnown
  <2>3. DirKnown(p)'
    BY <1>1, <2>1 DEF Known, DirKnown, Ready, Moved, Running
  <2>4. ProgramKnown(p)'
    BY <1>1, <2>1 DEF Known, ProgramKnown, Ready, Running, Executes, SameMode
  <2>5. FilesKnown(p)'
    BY <1>1, <2>1 DEF Known, FilesKnown, Running, SameMode
  <2>6. QED
    BY <2>2, <2>3, <2>4, <2>5 DEF Known
<1>9. Known(q)'
  <2>1. /\ cur'[q] = cur[q] /\ rval'[q] = rval[q] /\ close_rec'[q] = close_rec[q]
        /\ opened'[q] = opened[q] /\ behind[q] \ {"early"} \subseteq behind'[q]
        /\ UNCHANGED <<grp, cwd, fds, prog>>
    BY <1>1 DEF Adopted
  <2>2. CallMade(q)' /\ Waits(q)' /\ CloseKnown(q)'
    <3>1. CallMade(q)'
      BY <1>1, <1>2, <2>1 DEF Known, CallMade
    <3>2. Waits(q)'
      BY <1>2 DEF Waits, Running
    <3>3. CloseKnown(q)'
      BY <1>1, <1>2, <2>1 DEF Known, CloseKnown, SameMode
    <3>4. QED
      BY <3>1, <3>2, <3>3
  <2>3. DirKnown(q)'
    <3>1. tcb[entry[p]].current_dir \in Dirs
      BY <1>1, <1>2 DEF Known, DirKnown, Ready, Running
    <3>2. Moved(q) => Moved(q)'
      BY <1>2, <2>1 DEF Moved, Unborn
    <3>3. QED
      BY <1>1, <2>1, <3>1, <3>2 DEF DirKnown, Inherits, Adopted
  <2>4. ProgramKnown(q)'
    <3>1. exec_mode => ~Executes(q, {"call"})'
      BY <1>1, <1>2, <2>1 DEF Known, Waits, Unborn, UsesDir, Executes, Running
    <3>2. QED
      BY <1>1, <2>1, <3>1 DEF ProgramKnown, Inherits, Adopted
  <2>5. FilesKnown(q)'
    <3>1. grp[q] \in Pids
      BY Types
    <3>2. \A f \in Fds : fds[grp[q]][f].by # q
      BY <1>2, <3>1 DEF IInv, Openers
    <3>3. QED
      BY <3>2 DEF FilesKnown, Adopted
  <2>6. QED
    BY <2>2, <2>3, <2>4, <2>5 DEF Known
<1>10. \A r \in Pids \ {p, q} : Known(r)'
  BY <1>1, SameKnown DEF IInv
<1>11. QED
  BY <1>4, <1>5, <1>6, <1>7, <1>8, <1>9, <1>10 DEF IInv
-----------------------------------------------------------------------------
(* The end of a process. *)

\* q, which was held, is restarted by the end of another process.
Resumed(q) ==
    /\ stage[q] = "held" /\ stage'[q] = "user" /\ behind'[q] = behind[q] \cup {"early"}
    /\ entry'[q] = entry[q] /\ tcb'[entry[q]] = tcb[entry[q]]

\* What resume_from_tcp and droptcb do: the entry of p goes, unless p leads threads that have
\* theirs; with the last thread the entry of its leader goes, which had ended before.
Gone(p) ==
    /\ stage[p] \in {"user", "dead"} /\ stage'[p] \in {"gone", "zombie"}
    /\ "early" \notin behind[p]
    /\ \A q \in Pids : /\ (entry'[q] # 0 <=> stage'[q] \in Running \cup {"held", "dead", "zombie"})
                       /\ entry'[q] \in {entry[q], 0}
                       /\ q = p \/ stage[q] = "zombie" => behind'[q] \subseteq behind[q]
    /\ \A q \in Pids \ {p} : stage[q] # "zombie" => Same(q) \/ Resumed(q)
    /\ \A q \in Pids : stage[q] = "zombie" => stage'[q] \in {"zombie", "gone"}
    /\ UNCHANGED <<exec_mode, prov_mode, grp, cwd, fds, prog, cur, rval>>

\* They do so.
LEMMA DropIsGone ==
    ASSUME IInv, NEW p \in Pids, stage[p] \in {"user", "dead"}, "early" \notin behind[p],
           NEW rs \in SUBSET Resumable(p), resume_and_droptcb(p, rs),
           UNCHANGED <<modes, left, kernel, cur, rval, close_rec>>
    PROVE  Gone(p) /\ TypeOK'
<1> DEFINE ps == Dropped(p)
<1>1. ps \subseteq Pids /\ \A q \in ps : q = p \/ stage[q] = "zombie"
  BY Types DEF Dropped
<1>2. rs \subseteq Pids /\ \A q \in rs : stage[q] = "held"
  BY DEF Resumable
<1>3. /\ stage' = [q \in Pids |-> IF q \in ps THEN "gone" ELSE IF q = p THEN "zombie"
                                 ELSE IF q \in rs THEN "user" ELSE stage[q]]
      /\ tcb' = [e \in Entries |-> IF \E q \in ps : entry[q] = e THEN free_tcb_cde_fields(tcb[e])
                                                                ELSE tcb[e]]
      /\ entry' = [q \in Pids |-> IF q \in ps THEN 0 ELSE entry[q]]
      /\ parent' = [e \in Entries |-> IF \E q \in ps : entry[q] = e THEN 0 ELSE parent[e]]
      /\ opened' = [q \in Pids |-> IF q \in ps THEN {} ELSE opened[q]]
      /\ behind' = [q \in Pids |-> IF q \in ps THEN {} ELSE IF q \in rs
                                  THEN behind[q] \cup {"early"} ELSE behind[q]]
  BY DEF resume_and_droptcb
<1>4. UNCHANGED <<exec_mode, prov_mode, calls, down, left, grp, cwd, fds, prog, cur, rval,
                  close_rec>>
  BY DEF modes, kernel
<1> HIDE DEF ps
<1>5. TypeOK'
  <2>1. \A e \in Entries : tcb[e] \in Tcbs /\ free_tcb_cde_fields(tcb[e]) \in Tcbs
    BY Types, FreeFields
  <2>2. tcb' \in [Entries -> Tcbs]
    BY <1>3, <2>1
  <2>3. stage' \in [Pids -> Stages] /\ entry' \in [Pids -> Entries \cup {0}]
    BY <1>3, Types DEF Stages, Running
  <2>4. opened' \in [Pids -> SUBSET Fds] /\ parent' \in [Entries -> Entries \cup {0}]
    BY <1>3 DEF IInv, TypeOK
  <2>5. behind' \in [Pids -> SUBSET {"dir", "ignores", "program", "early"}]
    BY <1>3 DEF IInv, TypeOK
  <2>6. QED
    BY <1>4, <2>2, <2>3, <2>4, <2>5 DEF IInv, TypeOK, Tcbs, Stages
<1>6. \A q \in Pids : (entry'[q] # 0 <=> stage'[q] \in Running \cup {"held", "dead", "zombie"})
  BY <1>1, <1>2, <1>3 DEF IInv, Slots, Running
<1>7. ASSUME NEW q \in Pids \ {p}, stage[q] # "zombie" PROVE Same(q) \/ Resumed(q)
  <2>1. q \notin ps
    BY <1>1, <1>7
  <2>2. Alive(q) /\ stage[q] # "new" => tcb'[entry[q]] = tcb[entry[q]]
    <3>1. SUFFICES ASSUME Alive(q), stage[q] # "new" PROVE tcb'[entry[q]] = tcb[entry[q]]
      OBVIOUS
    <3>2. entry[q] \in Entries /\ \A r \in Pids : r # q => entry[r] # entry[q]
      BY <3>1, HasEntry DEF IInv, Alive
    <3>3. QED
      BY <1>1, <1>3, <2>1, <3>2
  <2>3. entry'[q] = entry[q] /\ opened'[q] = opened[q]
    BY <1>3, <1>7, <2>1
  <2>4. CASE q \in rs
    BY <1>2, <1>3, <2>1, <2>2, <2>3, <2>4 DEF Resumed, Alive
  <2>5. CASE q \notin rs
    <3>1. stage'[q] = stage[q] /\ behind'[q] = behind[q]
      BY <1>3, <1>7, <2>1, <2>5
    <3>2. QED
      BY <1>4, <2>2, <2>3, <3>1 DEF Same
  <2>6. QED
    BY <2>4, <2>5
<1>8. \A q \in Pids : q = p \/ stage[q] = "zombie" =>
          stage'[q] \in {"gone", "zombie"} /\ behind'[q] \subseteq behind[q]
  BY <1>2, <1>3
<1>9. \A q \in Pids : entry'[q] \in {entry[q], 0}
  BY <1>3
<1>10. QED
  BY <1>4, <1>5, <1>6, <1>7, <1>8, <1>9 DEF Gone

\* The end of a process keeps the invariant.
LEMMA GoneStep ==
    ASSUME IInv, NEW p \in Pids, Gone(p), TypeOK'
    PROVE  IInv'
<1>1. \A q \in Pids : stage'[q] \notin {"gone", "zombie"} =>
          q # p /\ stage[q] # "zombie" /\ (Same(q) \/ Resumed(q))
  BY DEF Gone
<1>2. \A q \in Pids : stage'[q] \notin {"gone", "zombie"} =>
          \/ stage'[q] = stage[q]
          \/ stage[q] = "held" /\ stage'[q] = "user"
  BY <1>1 DEF Same, Resumed
<1>3. UNCHANGED <<grp, cwd, fds, cur, prog, rval>> /\ SameMode
  BY DEF Gone, SameMode
<1>4. ASSUME NEW q \in Pids, stage'[q] \in {"gone", "zombie"}
      PROVE  "early" \notin behind[q] /\ "early" \notin behind'[q] /\ stage[q] # "event"
             /\ stage[q] \notin {"new", "held", "call", "done"}
  <2>1. CASE q = p \/ stage[q] = "zombie"
    BY <2>1 DEF Gone, IInv, Known, Waits, Running
  <2>2. CASE q # p /\ stage[q] # "zombie"
    BY <1>4, <2>2 DEF Gone, Same, Resumed, IInv, Known, Waits, Running
  <2>3. QED
    BY <2>1, <2>2
<1>5. Slots'
  BY DEF IInv, Slots, Gone
<1>6. Groups'
  <2>1. \A q \in Pids : /\ Alive(q)' => Alive(q)
                        /\ stage'[q] = "unused" => stage[q] = "unused"
                        /\ stage'[q] \in {"call", "done"} => stage'[q] = stage[q]
    BY <1>2 DEF Alive, Running
  <2>2. QED
    BY <1>3, <2>1, SameGroups DEF IInv
<1>7. \A q \in Pids : Unborn(q)' <=> Unborn(q)
  <2>1. TAKE q \in Pids
  <2>2. CASE stage'[q] \in {"gone", "zombie"}
    BY <1>4, <2>2 DEF Unborn
  <2>3. CASE stage'[q] \notin {"gone", "zombie"}
    BY <1>1, <2>3 DEF Unborn, Same, Resumed
  <2>4. QED
    BY <2>2, <2>3
<1>8. Births'
  <2>1. ASSUME NEW q \in Pids, stage[q] = "event" PROVE StaysUnborn(rval[q])
    <3>1. PICK r \in Pids : r = rval[q] /\ rval'[q] = r /\ Unborn(r)
      BY <1>3, <2>1 DEF IInv, Births, Inherits
    <3>2. r # p /\ stage[r] # "zombie"
      BY <3>1 DEF Gone, Unborn, IInv, Known, Waits, Running
    <3>3. CASE Same(r)
      BY <3>1, <3>3, SameUnborn DEF IInv, StaysUnborn
    <3>4. CASE Resumed(r)
      <4>1. Unborn(r)'
        BY <1>7, <3>1
      <4>2. QED
        BY <1>3, <3>1, <3>4, <4>1 DEF StaysUnborn, Resumed, Moved
    <3>5. QED
      BY <3>2, <3>3, <3>4 DEF Gone
  <2>2. \A q \in Pids : /\ stage'[q] = "event" <=> stage[q] = "event"
                        /\ stage[q] = "event" => Same(q)
    BY <1>1, <1>2, <1>4 DEF Resumed
  <2>3. QED
    BY <1>3, <1>7, <2>1, <2>2, SameBirths DEF IInv
<1>9. Openers'
  <2>1. \A q \in Pids : stage'[q] = "unused" => stage[q] = "unused"
    BY <1>2
  <2>2. QED
    BY <1>3, <1>7, <2>1 DEF IInv, Openers
<1>10. ASSUME NEW q \in Pids PROVE Known(q)'
  <2>1. CASE stage'[q] \in {"gone", "zombie"}
    <3>1. cur[q] = NoCall
      BY <1>4, <2>1 DEF IInv, Known, CallMade
    <3>2. QED
      BY <1>3, <1>4, <2>1, <3>1, IdleKnown DEF Running
  <2>2. CASE Same(q)
    BY <1>3, <2>2, SameKnown DEF IInv
  <2>3. CASE Resumed(q)
    <3>1. Known(q) /\ Unborn(q) /\ grp[q] \in Pids
      BY <2>3, Types DEF IInv, Resumed, Unborn
    <3>2. stage'[q] = "user" /\ cur'[q] = NoCall /\ "early" \in behind'[q]
      BY <1>3, <2>3, <3>1 DEF Resumed, Known, CallMade
    <3>3. CallMade(q)' /\ CloseKnown(q)' /\ DirKnown(q)' /\ ProgramKnown(q)'
      BY <3>2 DEF CallMade, CloseKnown, DirKnown, ProgramKnown, Ready
    <3>4. /\ tcb'[entry'[q]].current_dir = Null /\ tcb'[entry'[q]].p_ignores = Null
          /\ tcb'[entry'[q]].opened_file_paths = [f \in Fds |-> Null]
      BY <2>3, <3>1 DEF Resumed, Known, Waits
    <3>5. Waits(q)'
      BY <3>2, <3>4 DEF Waits, Running
    <3>6. FilesKnown(q)'
      <4>1. \A f \in Fds : fds'[grp'[q]][f].by # q
        BY <1>3, <3>1 DEF IInv, Openers
      <4>2. \A f \in Fds : tcb'[entry'[q]].opened_file_paths[f] = Null
        BY <3>4
      <4>3. QED
        BY <4>1, <4>2 DEF FilesKnown
    <3>7. QED
      BY <3>3, <3>5, <3>6 DEF Known
  <2>4. QED
    BY <1>1, <2>1, <2>2, <2>3
<1>11. QED
  BY <1>5, <1>6, <1>8, <1>9, <1>10 DEF IInv
-----------------------------------------------------------------------------
(* The theorems. *)

\* Nothing changes when nobody moves, whether or not the tracer dies.
LEMMA StutterStep ==
    ASSUME IInv, down' \in BOOLEAN,
           UNCHANGED <<exec_mode, prov_mode, calls, left, stage, grp, cwd, fds, prog, cur, rval>>,
           UNCHANGED <<entry, parent, tcb, close_rec, opened, behind>>
    PROVE  IInv'
<1>1. SameMode /\ \A p \in Pids : Same(p)
  BY DEF SameMode, Same
<1>2. TypeOK'
  BY DEF IInv, TypeOK
<1>3. /\ \A p \in Pids : Unborn(p)' <=> Unborn(p)
      /\ \A p \in Pids : stage'[p] = "event" <=> stage[p] = "event"
  BY DEF Unborn
<1>4. Slots' /\ Openers'
  BY <1>3 DEF IInv, Slots, Openers
<1>5. Groups'
  BY SameGroups DEF IInv, Alive
<1>6. Births'
  <2>1. ASSUME NEW p \in Pids, stage[p] = "event" PROVE StaysUnborn(rval[p])
    <3>1. PICK r \in Pids : r = rval[p] /\ rval'[p] = r /\ Unborn(r)
      BY <2>1 DEF IInv, Births, Inherits
    <3>2. QED
      BY <1>1, <3>1, SameUnborn DEF IInv, StaysUnborn
  <2>2. QED
    BY <1>1, <1>3, <2>1, SameBirths DEF IInv
<1>7. \A p \in Pids : Known(p)'
  BY <1>1, SameKnown DEF IInv
<1>8. QED
  BY <1>2, <1>4, <1>5, <1>6, <1>7 DEF IInv

\* Every step keeps the invariant.
LEMMA NextStep ==
    ASSUME IInv, [Next]_vars
    PROVE  IInv'
<1>1. ASSUME NEW p \in Pids, NEW c \in Calls,
             Enter(p, c) \/ EnterClose(p, c) \/ EnterExecve(p, c) \/ DetachTracer(p, c)
      PROVE  IInv'
  <2>1. CASE DetachTracer(p, c)
    <3>1. Gone(p) /\ TypeOK'
      BY <2>1, NotEarly, DropIsGone DEF DetachTracer
    <3>2. QED
      BY <3>1, GoneStep
  <2>2. QED
    BY <1>1, <2>1, EnterStep, EnterCloseStep, EnterExecveStep
<1>2. ASSUME NEW p \in Pids, \E q \in Pids, thread \in BOOLEAN : Clone(p, q, thread)
      PROVE  IInv'
  <2>1. \E q \in Pids : Cloned(p, q) /\ TypeOK'
    BY <1>2, CloneIsCloned
  <2>2. QED
    BY <2>1, CloneStep
<1>3. ASSUME NEW p \in Pids, ProcessStep(p)
      PROVE  IInv'
  BY <1>1, <1>2, <1>3, FailStep, ChdirStep, GetcwdStep, CloseStep, ExecveStep, NewDescriptorStep,
     KillStep DEF ProcessStep
<1>4. ASSUME NEW p \in Pids, TracerStep(p)
      PROVE  IInv'
  <2>1. CASE handle_new_child(p)
    <3>1. Adopted(p, rval[p]) /\ TypeOK'
      BY <2>1, HandlerAdopts
    <3>2. rval[p] \in Pids
      BY <3>1 DEF Adopted
    <3>3. QED
      BY <3>1, <3>2, AdoptStep
  <2>2. CASE Reap(p)
    <3>1. stage[p] = "dead" /\ "early" \notin behind[p]
      BY <2>2 DEF Reap, IInv, Known, Waits, Running
    <3>2. Gone(p) /\ TypeOK'
      BY <2>2, <3>1, DropIsGone DEF Reap
    <3>3. QED
      BY <3>2, GoneStep
  <2>3. CASE Abort(p)
    BY <2>3, StutterStep DEF Abort, kernel
  <2>4. QED
    BY <1>4, <2>1, <2>2, <2>3, FirstStopStep, FchdirStep, GetcwdExitStep, OpenExitStep, ExitStep
       DEF TracerStep
<1>5. CASE UNCHANGED vars \/ Over
  <2>1. /\ UNCHANGED <<exec_mode, prov_mode, calls, left, stage, grp, cwd, fds, prog, cur, rval>>
        /\ UNCHANGED <<entry, parent, tcb, close_rec, opened, behind, down>>
    BY <1>5 DEF Over, vars, modes, kernel
  <2>2. down \in BOOLEAN
    BY DEF IInv, TypeOK
  <2>3. QED
    BY <2>1, <2>2, StutterStep
<1>6. QED
  BY <1>3, <1>4, <1>5 DEF Next

\* The tracer dies only while a child runs whose fork event is still to come.
Doomed == down => \E p \in Pids : "early" \in behind[p]

\* Every step keeps that, too.
LEMMA DoomedStep ==
    ASSUME IInv, Doomed, [Next]_vars
    PROVE  Doomed'
<1>1. ASSUME NEW p \in Pids, Abort(p) PROVE Doomed'
  <2>1. stage[p] \in Running /\ ~HasDir(p) /\ behind' = behind
    BY <1>1 DEF Abort
  <2>2. "early" \in behind[p]
    BY <2>1, NullAssumption DEF IInv, Known, DirKnown, Ready, HasDir
  <2>3. QED
    BY <2>1, <2>2 DEF Doomed
<1>2. CASE UNCHANGED vars \/ Over
  <2>1. down' = down /\ behind' = behind
    BY <1>2 DEF Over, vars, modes
  <2>2. QED
    BY <2>1 DEF Doomed
<1>3. ASSUME NEW p \in Pids, ~down, ProcessStep(p) PROVE ~down'
  <2>1. UNCHANGED modes
    BY <1>3 DEF ProcessStep, Enter, EnterClose, EnterExecve, DetachTracer, Clone, Fail, Chdir,
                Getcwd, Close, Execve, NewDescriptor, Performed, Kill
  <2>2. QED
    BY <1>3, <2>1 DEF modes
<1>4. ASSUME NEW p \in Pids, ~down, TracerStep(p), ~Abort(p) PROVE ~down'
  <2>1. UNCHANGED modes
    BY <1>4 DEF TracerStep, FirstStop, handle_new_child, CDE_end_fchdir, CDE_end_getcwd,
                print_open_prov, Exit, Leaves, Reap
  <2>2. QED
    BY <1>4, <2>1 DEF modes
<1>5. QED
  BY <1>1, <1>2, <1>3, <1>4 DEF Next, Doomed

\* The inductive invariant holds, from the first process set up by startup_child on, through
\* children that are held, recycled into the entries of dead processes, and let run early.
THEOREM Invariance == Spec => [](IInv /\ Doomed)
<1>1. Init => IInv /\ Doomed
  BY InitHolds DEF Init, Doomed
<1>2. IInv /\ Doomed /\ [Next]_vars => (IInv /\ Doomed)'
  BY NextStep, DoomedStep
<1>3. QED
  BY <1>1, <1>2, PTL DEF Spec

\* Every field of an entry has its type, with any number of processes, descriptors and programs.
THEOREM FieldsTyped == Spec => []TypeOK
<1>1. IInv => TypeOK
  BY DEF IInv
<1>2. QED
  BY <1>1, Invariance, PTL

\* What the assertions of CDE_init_tcb_dir_fields say of child and parent: a process that runs
\* has a directory and an entry of its own, unless resume_from_tcp let it run before its fork
\* event, which is then still to come; a child that waits for the event has nothing set; and only
\* such an early child makes the tracer die.
THEOREM ProcessesPrepared == Spec => []Prepared
<1>1. IInv /\ Doomed => Prepared
  <2> SUFFICES ASSUME IInv, Doomed PROVE Prepared
    OBVIOUS
  <2>1. \A p \in Pids : stage[p] \in Running =>
            entry[p] # 0 /\ ("early" \notin behind[p] => tcb[entry[p]].current_dir # Null)
    BY NullAssumption DEF IInv, Slots, Known, DirKnown, Ready
  <2>2. \A p \in Pids : stage[p] = "held" \/ "early" \in behind[p] =>
            /\ tcb[entry[p]].current_dir = Null /\ tcb[entry[p]].p_ignores = Null
            /\ \E r \in Pids : stage[r] = "event" /\ rval[r] = p
    BY DEF IInv, Known, Waits, Births, Unborn
  <2>3. QED
    BY <2>1, <2>2 DEF IInv, Slots, Prepared, Doomed
<1>2. QED
  BY <1>1, Invariance, PTL

\* current_dir is the directory of every process whose fork event is handled, unless another of
\* its threads moved, or it was made by a process that ran early.
THEOREM DirectoryIsCurrent == Spec => []DirCurrent
<1>1. IInv => DirCurrent
  BY DEF IInv, Known, DirKnown, Ready, Moved, DirCurrent, Outside
<1>2. QED
  BY <1>1, Invariance, PTL

\* p_ignores belongs to the program that runs, unless an execve failed.
THEOREM IgnoresAreCurrent == Spec => []IgnoresCurrent
<1>1. IInv => IgnoresCurrent
  BY DEF IInv, Known, ProgramKnown, Ready, IgnoresCurrent, Outside, Executes, IgnoresOf
<1>2. QED
  BY <1>1, Invariance, PTL

\* /proc/self/exe names the program that runs, unless it is known to be behind.
THEOREM ExecutableIsCurrent == Spec => []ExeCurrent
<1>1. IInv => ExeCurrent
  BY DEF IInv, Known, ProgramKnown, Ready, ExeCurrent, Outside, Executes, PerceivedOf
<1>2. QED
  BY <1>1, Invariance, PTL

\* A CLOSE record names the file that the process opened at the descriptor.
THEOREM CloseRecordsAreRight == Spec => []CloseNamesOpen
<1>1. IInv => CloseNamesOpen
  BY DEF IInv, Known, CloseKnown, CloseNamesOpen
<1>2. QED
  BY <1>1, Invariance, PTL
=============================================================================
