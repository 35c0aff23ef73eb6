--------------------------- MODULE TcbFieldsSteps ---------------------------
(***************************************************************************)
(* The inductive invariant behind the properties of TcbFields, and the     *)
(* proofs that the steps of the traced processes keep it.  What is known   *)
(* of a process depends on its own part of the state only, so most of a    *)
(* step's proof is that it leaves the part of every other process alone.   *)
(***************************************************************************)
EXTENDS TcbFields, TLAPS

\* Most leaves are first-order reasoning about sets and functions: Zenon is tried first.
USE Zenon, SMTT(20)

Stages == Running \cup {"unused", "new", "held", "dead", "zombie", "gone"}

Tcbs == [current_dir : Dirs \cup {Null}, p_ignores : Programs \cup {Null},
         perceived_program_fullpath : Programs \cup {Null},
         opened_file_paths : [Fds -> Dirs \cup {Null}]]

\* An execve, at its stop or on its way.
Executes(p, s) == stage[p] \in s /\ cur[p].op = "execve"

\* What CDE_begin_execve sets for program x, or for a process that executed nothing yet.
IgnoresOf(x) == IF x # Null /\ KindOf[x] = "ignores" THEN ExeOf[x] ELSE Null
PerceivedOf(x) == IF x # Null /\ KindOf[x] = "loader" THEN ExeOf[x] ELSE Null

\* Which processes have an entry, and that nobody shares one.
Slots ==
    /\ \A p \in Pids : entry[p] # 0 <=> stage[p] \in Running \cup {"held", "dead", "zombie"}
    /\ \A p, q \in Pids : p # q /\ entry[p] # 0 => entry[p] # entry[q]

\* Thread groups: the leader leads itself, an unused id is in no other group, an execve is
\* alone in its group, and the directory lives as long as one thread.
Groups ==
    /\ \A p \in Pids : grp[grp[p]] = grp[p]
    /\ \A p, q \in Pids : stage[p] = "unused" => (grp[q] = p <=> q = p)
    /\ \A p \in Pids : Executes(p, {"call", "done"}) => Single(p)
    /\ \A p \in Pids : Alive(p) => cwd[grp[p]] \in Dirs

\* The fork event of q is still to come.  It has not run, or was let run early.
Unborn(q) == stage[q] \in {"new", "held"} \/ "early" \in behind[q]

\* p is at the exit of a chdir that moved it.
Moved(p) == stage[p] = "done" /\ cur[p].op = "chdir" /\ rval[p] # Failed

\* The entry of p, at its fork event, holds what its child q is about to be given, unless p
\* itself has been given nothing yet: then the child is known to be behind.
Inherits(p, q) ==
    /\ q \in Pids /\ Unborn(q) /\ p # q
    /\ "dir" \notin behind[q] => Moved(q) \/ tcb[entry[p]].current_dir = cwd[grp[q]]
    /\ exec_mode /\ "ignores" \notin behind[q] =>
           tcb[entry[p]].p_ignores = IgnoresOf(prog[grp[q]])
    /\ exec_mode /\ "program" \notin behind[q] =>
           tcb[entry[p]].perceived_program_fullpath = PerceivedOf(prog[grp[q]])
    /\ "early" \in behind[p] =>
           "dir" \in behind[q] /\ (exec_mode => "ignores" \in behind[q] /\ "program" \in behind[q])

\* Every fork event is about a child of its own, and every unborn child has one.
Births ==
    /\ \A p \in Pids : stage[p] = "event" => Inherits(p, rval[p])
    /\ \A p, q \in Pids : stage[p] = "event" /\ stage[q] = "event" /\ rval[p] = rval[q] => p = q
    /\ \A q \in Pids : Unborn(q) => \E p \in Pids : stage[p] = "event" /\ rval[p] = q

\* Only a process that was prepared has opened a file whose path the tracer can find.
Openers ==
    \A p, q \in Pids : \A f \in Fds : fds[p][f].by = q => stage[q] # "unused" /\ ~Unborn(q)

\* p has a call between its entry and its exit only, and what it returned has the type of the
\* call.
CallMade(p) ==
    /\ stage[p] \in {"call", "done"} => cur[p] \in Calls
    /\ stage[p] \notin {"call", "done"} => cur[p] = NoCall
    /\ stage[p] = "done" /\ rval[p] # Failed =>
            /\ cur[p].op = "open" => rval[p] \in Fds
            /\ cur[p].op = "getcwd" =>
                /\ rval[p] \in Dirs
                /\ "dir" \notin behind[p] => rval[p] = cwd[grp[p]]
            /\ cur[p].op = "execve" => prog[grp[p]] = cur[p].prog

\* The entry of a process that is held, or runs early, knows nothing; one that runs early is in
\* no call whose handler uses current_dir at the entry.
Waits(p) ==
    /\ stage[p] = "held" \/ "early" \in behind[p] =>
        /\ tcb[entry[p]].current_dir = Null /\ tcb[entry[p]].p_ignores = Null
        /\ tcb[entry[p]].opened_file_paths = [f \in Fds |-> Null]
    /\ "early" \in behind[p] =>
        stage[p] \in Running /\ (stage[p] \in {"call", "done"} => ~UsesDir(cur[p]))

\* p runs, and its fork event is handled.
Ready(p) == stage[p] \in Running /\ "early" \notin behind[p]

\* The directory is known up to the moment a chdir of the process succeeds.
DirKnown(p) ==
    Ready(p) =>
        /\ tcb[entry[p]].current_dir \in Dirs
        /\ "dir" \notin behind[p] => Moved(p) \/ tcb[entry[p]].current_dir = cwd[grp[p]]

\* What execve sets, in exec mode: that of the program that runs, except while an execve is
\* under way, when it is already that of the next program.
ProgramKnown(p) ==
    Ready(p) /\ exec_mode =>
        /\ "ignores" \notin behind[p] =>
               \/ Executes(p, {"call"})
               \/ tcb[entry[p]].p_ignores = IgnoresOf(prog[grp[p]])
        /\ "program" \notin behind[p] =>
               \/ Executes(p, {"call"}) /\ KindOf[cur[p].prog] = "loader"
               \/ tcb[entry[p]].perceived_program_fullpath = PerceivedOf(prog[grp[p]])
        /\ Executes(p, {"call"}) =>
               /\ tcb[entry[p]].p_ignores = IgnoresOf(cur[p].prog)
               /\ KindOf[cur[p].prog] = "loader" =>
                      tcb[entry[p]].perceived_program_fullpath = ExeOf[cur[p].prog]

\* The stored path of a descriptor that the process opened is the path of it, once the exit
\* of the open is handled; until then it is current_dir that is about to be stored.
FilesKnown(p) ==
    \A f \in Fds : stage[p] \in Running =>
        /\ prov_mode /\ fds[grp[p]][f].by = p =>
               fds[grp[p]][f].path =
                   IF stage[p] = "done" /\ cur[p].op = "open" /\ rval[p] = f
                   THEN tcb[entry[p]].current_dir
                   ELSE tcb[entry[p]].opened_file_paths[f]
        /\ tcb[entry[p]].opened_file_paths[f] # Null => f \in opened[p]

\* What CloseNamesOpen says of p.
CloseKnown(p) ==
    stage[p] = "call" /\ cur[p].op = "close" /\ prov_mode =>
        /\ fds[grp[p]][cur[p].fd].by = p => close_rec[p] = fds[grp[p]][cur[p].fd].path
        /\ close_rec[p] # Null => cur[p].fd \in opened[p]

Known(p) == /\ CallMade(p) /\ Waits(p) /\ DirKnown(p) /\ ProgramKnown(p)
            /\ FilesKnown(p) /\ CloseKnown(p)

IInv == TypeOK /\ Slots /\ Groups /\ Births /\ Openers /\ \A p \in Pids : Known(p)
-----------------------------------------------------------------------------
(* What a step leaves alone. *)

\* The part of the state that Known(p) and Inherits are about is as it was, or the tracer is
\* known to be behind.
Same(p) ==
    /\ stage'[p] = stage[p] /\ cur'[p] = cur[p] /\ rval'[p] = rval[p] /\ grp'[p] = grp[p]
    /\ close_rec'[p] = close_rec[p] /\ ("early" \in behind'[p] <=> "early" \in behind[p])
    /\ Alive(p) =>
           /\ entry'[p] = entry[p]
           /\ stage[p] # "new" => tcb'[entry[p]] = tcb[entry[p]]
           /\ opened'[p] = opened[p] /\ behind[p] \subseteq behind'[p]
           /\ prog'[grp[p]] = prog[grp[p]]
           /\ "dir" \notin behind'[p] => cwd'[grp[p]] = cwd[grp[p]]
           /\ \A f \in Fds : fds'[grp[p]][f].by = p => fds'[grp[p]][f] = fds[grp[p]][f]

SameMode == exec_mode' = exec_mode /\ prov_mode' = prov_mode

\* The arguments of a call have the type of the call.
LEMMA CallArgs ==
    ASSUME NEW c \in Calls
    PROVE  /\ c.op \in Ops
           /\ c.op = "chdir" => c.dir \in Dirs
           /\ c.op = "close" => c.fd \in Fds
           /\ c.op = "execve" => c.prog \in Programs
BY DEF Calls, Ops

\* What is known of a process stays true when its part of the state stays.
LEMMA SameKnown ==
    ASSUME NEW p \in Pids, Same(p), SameMode, Known(p)
    PROVE  Known(p)'
<1>1. CallMade(p)'
  BY DEF Same, Known, CallMade, Alive, Running
<1>2. Waits(p)'
  BY DEF Same, SameMode, Known, Waits, UsesDir, Alive, Running
<1>3. DirKnown(p)' /\ (Ready(p)' <=> Ready(p))
  BY DEF Same, Known, DirKnown, Ready, Moved, Alive, Running
<1>4. ProgramKnown(p)'
  <2>1. Executes(p, {"call"})' <=> Executes(p, {"call"})
    BY DEF Same, Executes
  <2>2. QED
    BY <1>3, <2>1 DEF Same, SameMode, Known, ProgramKnown, Ready, Alive, Running
<1>5. FilesKnown(p)'
  BY SMT DEF Same, SameMode, Known, FilesKnown, Alive, Running
<1>6. CloseKnown(p)'
  <2>1. SUFFICES ASSUME stage[p] = "call", cur[p].op = "close", prov_mode
                 PROVE  CloseKnown(p)'
    BY DEF CloseKnown, Same, SameMode
  <2>2. cur[p].fd \in Fds
    BY <2>1, CallArgs DEF Known, CallMade
  <2>3. QED
    BY <2>1, <2>2 DEF Same, Known, CloseKnown, Alive, Running
<1>7. QED
  BY <1>1, <1>2, <1>3, <1>4, <1>5, <1>6 DEF Known

\* Nothing is said of a process before it is born and after its end.
LEMMA IdleKnown ==
    ASSUME NEW p \in Pids, stage'[p] \notin Running \cup {"held"}, cur'[p] = NoCall,
           "early" \notin behind'[p]
    PROVE  Known(p)'
BY DEF Known, CallMade, Waits, DirKnown, ProgramKnown, FilesKnown, CloseKnown, Ready, Running

\* The fork event of q is still to come, and the tracer is behind in what it was before.
StaysUnborn(q) ==
    /\ Unborn(q)' /\ grp'[q] = grp[q]
    /\ "dir" \in behind[q] => "dir" \in behind'[q]
    /\ "dir" \notin behind'[q] => Moved(q)' \/ (~Moved(q) /\ cwd'[grp[q]] = cwd[grp[q]])
    /\ exec_mode => /\ "ignores" \in behind[q] => "ignores" \in behind'[q]
                    /\ "program" \in behind[q] => "program" \in behind'[q]
                    /\ prog'[grp[q]] = prog[grp[q]]

\* So it is when the part of q stays.
LEMMA SameUnborn ==
    ASSUME NEW q \in Pids, Same(q), Known(q), Unborn(q)
    PROVE  StaysUnborn(q)
<1>1. Alive(q)
  BY DEF Unborn, Known, Waits, Alive
<1>2. Unborn(q)' /\ (Moved(q)' <=> Moved(q))
  BY DEF Same, Unborn, Moved
<1>3. QED
  BY <1>1, <1>2 DEF Same, StaysUnborn

\* What a parent holds for its child stays true when its part stays and the child is unborn.
LEMMA SameInherits ==
    ASSUME SameMode, NEW p \in Pids, stage[p] = "event", Same(p), NEW q, Inherits(p, q),
           StaysUnborn(q)
    PROVE  Inherits(p, q)'
<1>1. /\ entry'[p] = entry[p] /\ tcb'[entry[p]] = tcb[entry[p]]
      /\ "early" \in behind'[p] => "early" \in behind[p]
  BY DEF Same, Alive, Running
<1>2. q \in Pids /\ Unborn(q)' /\ p # q
  BY DEF Inherits, StaysUnborn
<1>3. "dir" \notin behind'[q] => Moved(q)' \/ tcb[entry[p]].current_dir = cwd'[grp'[q]]
  BY DEF Inherits, StaysUnborn
<1>4. /\ exec_mode /\ "ignores" \notin behind'[q] =>
             tcb[entry[p]].p_ignores = IgnoresOf(prog'[grp'[q]])
      /\ exec_mode /\ "program" \notin behind'[q] =>
             tcb[entry[p]].perceived_program_fullpath = PerceivedOf(prog'[grp'[q]])
  BY DEF Inherits, StaysUnborn
<1>5. "early" \in behind'[p] => /\ "dir" \in behind'[q]
                                /\ exec_mode => "ignores" \in behind'[q] /\ "program" \in behind'[q]
  BY <1>1 DEF Inherits, StaysUnborn
<1>6. QED
  BY <1>1, <1>2, <1>3, <1>4, <1>5 DEF Inherits, SameMode, IgnoresOf, PerceivedOf

\* The children of parents that do not move still inherit.
LEMMA SameBirths ==
    ASSUME Births, SameMode,
           \A p \in Pids : /\ stage'[p] = "event" <=> stage[p] = "event"
                           /\ stage[p] = "event" => Same(p) /\ StaysUnborn(rval[p]),
           \A q \in Pids : Unborn(q)' => Unborn(q)
    PROVE  Births'
<1>1. \A p \in Pids : stage'[p] = "event" =>
          stage[p] = "event" /\ rval'[p] = rval[p] /\ Inherits(p, rval[p])'
  <2>1. TAKE p \in Pids
  <2>2. HAVE stage'[p] = "event"
  <2>3. stage[p] = "event" /\ Same(p) /\ StaysUnborn(rval[p]) /\ Inherits(p, rval[p])
    BY <2>2 DEF Births
  <2>4. PICK q \in Pids : q = rval[p]
    BY <2>3 DEF Inherits
  <2>5. Inherits(p, q) /\ StaysUnborn(q) /\ rval'[p] = q
    BY <2>3, <2>4 DEF Same
  <2>6. Inherits(p, q)'
    BY <2>3, <2>5, SameInherits
  <2>7. QED
    BY <2>3, <2>4, <2>5, <2>6
<1>2. \A q \in Pids : Unborn(q)' => \E p \in Pids : stage'[p] = "event" /\ rval'[p] = q
  BY <1>1 DEF Births
<1>3. QED
  BY <1>1, <1>2 DEF Births

\* A step of p alone, which runs before it and runs or has ended after it.
Moves(p) ==
    /\ stage[p] \in {"user", "call", "done"} /\ stage'[p] \in {"user", "call", "done", "dead"}
    /\ SameMode /\ grp' = grp /\ entry' = entry
    /\ \A q \in Pids \ {p} : Same(q)

\* The fork event of p stays to come, if it is: p runs early.
StaysEarly(p) ==
    /\ "early" \in behind[p] => StaysUnborn(p)
    /\ "early" \in behind'[p] => "early" \in behind[p]

\* Such a step keeps the invariant when p makes an execve alone in its group, its group keeps
\* a directory, it takes descriptors for nobody else, and only once it is prepared, and the
\* tracer's knowledge of p is right.
LEMMA MoveStep ==
    ASSUME IInv, NEW p \in Pids, Moves(p), TypeOK', Known(p)', StaysEarly(p),
           Executes(p, {"call", "done"})' => Single(p),
           \A q \in Pids : Alive(q)' => cwd'[grp[q]] \in Dirs,
           \A q \in Pids, f \in Fds : \/ fds'[q][f] = fds[q][f] \/ fds'[q][f].by \notin Pids
                                      \/ fds'[q][f].by = p /\ "early" \notin behind[p]
    PROVE  IInv'
<1>1. /\ \A q \in Pids \ {p} : stage'[q] = stage[q] /\ cur'[q] = cur[q]
      /\ \A q \in Pids : stage'[q] = "unused" <=> stage[q] = "unused"
      /\ \A q \in Pids : Alive(q)' => Alive(q)
  BY DEF Moves, Same, Alive, Running
<1>2. Slots'
  BY <1>1 DEF IInv, Slots, Moves, Running
<1>3. Groups'
  <2>1. ASSUME NEW q \in Pids, Executes(q, {"call", "done"})' PROVE Single(q)'
    <3>1. Single(q) /\ stage'[q] \in {"call", "done"}
      BY <1>1, <2>1, SMT DEF IInv, Groups, Executes
    <3>2. Alive(q)' /\ Group(q)' \subseteq Group(q) /\ q \in Group(q)'
      BY <1>1, <3>1 DEF Alive, Group, Running, Moves
    <3>3. QED
      BY <3>1, <3>2 DEF Single, Moves
  <2>2. QED
    BY <1>1, <2>1, SMT DEF IInv, Groups, Moves
<1>4. Births'
  <2>1. ASSUME NEW q \in Pids, stage[q] = "event" PROVE StaysUnborn(rval[q])
    <3>1. PICK r \in Pids : r = rval[q] /\ rval'[q] = r /\ Unborn(r)
      BY <2>1 DEF IInv, Births, Inherits, Moves, Same
    <3>2. CASE r = p
      BY <3>1, <3>2 DEF Moves, Unborn, StaysEarly, StaysUnborn
    <3>3. CASE r # p
      BY <3>1, <3>3, SameUnborn DEF IInv, Moves, StaysUnborn
    <3>4. QED
      BY <3>2, <3>3
  <2>2. \A q \in Pids : stage'[q] = "event" <=> stage[q] = "event"
    BY <1>1 DEF Moves
  <2>3. \A q \in Pids : stage[q] = "event" => Same(q)
    BY DEF Moves
  <2>4. \A q \in Pids : Unborn(q)' => Unborn(q)
    BY <1>1 DEF Unborn, Moves, Same, StaysEarly
  <2>5. QED
    BY <2>1, <2>2, <2>3, <2>4, SameBirths DEF IInv, Moves
<1>5. Openers'
  <2>1. ASSUME NEW q \in Pids, NEW r \in Pids, NEW f \in Fds, fds'[q][f].by = r
        PROVE  stage'[r] # "unused" /\ ~Unborn(r)'
    <3>1. stage[r] # "unused" /\ ~Unborn(r)
      <4>1. CASE fds'[q][f] = fds[q][f]
        BY <2>1, <4>1 DEF IInv, Openers
      <4>2. CASE fds'[q][f] # fds[q][f]
        BY <2>1, <4>2 DEF Moves, Unborn
      <4>3. QED
        BY <4>1, <4>2
    <3>2. QED
      BY <1>1, <3>1 DEF Unborn, Moves, Same, StaysEarly
  <2>2. QED
    BY <2>1 DEF Openers
<1>6. \A q \in Pids : Known(q)'
  BY SameKnown DEF IInv, Moves
<1>7. QED
  BY <1>2, <1>3, <1>4, <1>5, <1>6 DEF IInv
-----------------------------------------------------------------------------
(* A child is made. *)

\* q is a new thread of p, or a new process with a copy of what p has.
Cloned(p, q) ==
    /\ stage[p] = "user" /\ stage[q] = "unused"
    /\ stage'[p] = "event" /\ stage'[q] = "new" /\ rval'[p] = q
    /\ "early" \notin behind'[q] /\ behind[p] \ {"early"} \subseteq behind'[q]
    /\ "early" \in behind[p] =>
           "dir" \in behind'[q] /\ "ignores" \in behind'[q] /\ "program" \in behind'[q]
    /\ grp'[p] = grp[p] /\ (grp'[q] = q \/ grp'[q] = grp[p])
    /\ cwd'[grp'[q]] = cwd[grp[p]] /\ prog'[grp'[q]] = prog[grp[p]]
    /\ cwd'[grp[p]] = cwd[grp[p]] /\ prog'[grp[p]] = prog[grp[p]] /\ fds'[grp[p]] = fds[grp[p]]
    /\ \A r \in Pids : fds'[r] = fds[r] \/ fds'[r] = fds[grp[p]]
    /\ behind'[p] = behind[p]
    /\ \A r \in Pids \ {p, q} : Same(r) /\ stage'[r] = stage[r] /\ grp'[r] = grp[r]
                                /\ cwd'[grp[r]] = cwd[grp[r]]
    /\ UNCHANGED <<exec_mode, prov_mode, cur, entry, tcb, opened>>

\* What the kernel holds has its type.
KernelTyped ==
    /\ grp \in [Pids -> Pids] /\ cwd \in [Pids -> Dirs \cup {Null}]
    /\ prog \in [Pids -> Programs \cup {Null}]
    /\ fds \in [Pids -> [Fds -> {Unused, Other} \cup [by : Pids, path : Dirs]]]

\* A thread shares what the group of p has, a process gets a copy of it.
LEMMA CloneShares ==
    ASSUME KernelTyped, NEW p \in Pids, NEW q \in Pids, NEW thread \in BOOLEAN,
           Clone(p, q, thread), grp[q] = q, \A r \in Pids \ {q} : grp[r] # q, p # q
    PROVE  /\ KernelTyped'
           /\ grp'[q] = q \/ grp'[q] = grp[p]
           /\ cwd'[grp'[q]] = cwd[grp[p]] /\ prog'[grp'[q]] = prog[grp[p]]
           /\ fds'[q] = fds[q] \/ fds'[q] = fds[grp[p]]
           /\ \A r \in Pids \ {q} : grp'[r] = grp[r] /\ cwd'[r] = cwd[r] /\ prog'[r] = prog[r]
                                    /\ fds'[r] = fds[r]
<1>1. CASE thread
  <2>1. grp' = [grp EXCEPT ![q] = grp[p]] /\ cwd' = cwd /\ fds' = fds /\ prog' = prog
    BY <1>1 DEF Clone
  <2>2. QED
    BY <2>1 DEF KernelTyped
<1>2. CASE ~thread
  <2>1. /\ cwd' = [cwd EXCEPT ![q] = cwd[grp[p]]] /\ fds' = [fds EXCEPT ![q] = fds[grp[p]]]
        /\ prog' = [prog EXCEPT ![q] = prog[grp[p]]] /\ grp' = grp
    BY <1>2 DEF Clone
  <2>2. QED
    BY <2>1 DEF KernelTyped
<1>3. QED
  BY <1>1, <1>2

\* Both kinds of clone do so.
LEMMA CloneIsCloned ==
    ASSUME IInv, NEW p \in Pids, NEW q \in Pids, NEW thread \in BOOLEAN, Clone(p, q, thread)
    PROVE  Cloned(p, q) /\ TypeOK'
<1>1. /\ stage[p] = "user" /\ stage[q] = "unused"
      /\ left.clones > 0 /\ left' = [left EXCEPT !.clones = left.clones - 1]
      /\ stage' = [stage EXCEPT ![p] = "event", ![q] = "new"]
      /\ rval' = [rval EXCEPT ![p] = q]
      /\ behind' = [behind EXCEPT ![q] = IF "early" \in behind[p] THEN {"dir", "ignores", "program"}
                                                                 ELSE behind[p]]
      /\ UNCHANGED <<exec_mode, prov_mode, calls, down, cur, entry, parent, tcb, close_rec, opened>>
  BY DEF Clone, modes
<1>2. KernelTyped /\ Groups
  BY DEF IInv, TypeOK, KernelTyped
<1>3. p # q /\ grp[q] = q /\ \A r \in Pids : grp[r] \in Pids /\ (r # q => grp[r] # q)
  BY <1>1, <1>2 DEF KernelTyped, Groups
<1>4. /\ left \in [calls : Nat, clones : Nat] /\ rval \in [Pids -> Names]
      /\ stage \in [Pids -> Stages]
      /\ behind \in [Pids -> SUBSET {"dir", "ignores", "program", "early"}]
  BY DEF IInv, TypeOK, Stages
<1>5. /\ left' \in [calls : Nat, clones : Nat] /\ rval' \in [Pids -> Names]
      /\ stage' \in [Pids -> Stages]
      /\ behind' \in [Pids -> SUBSET {"dir", "ignores", "program", "early"}]
  BY <1>1, <1>4, SMT DEF Names, Stages, Running
<1>6. /\ stage'[p] = "event" /\ stage'[q] = "new" /\ rval'[p] = q
      /\ "early" \notin behind'[q] /\ behind[p] \ {"early"} \subseteq behind'[q]
      /\ "early" \in behind[p] =>
             "dir" \in behind'[q] /\ "ignores" \in behind'[q] /\ "program" \in behind'[q]
      /\ \A r \in Pids \ {p, q} : stage'[r] = stage[r]
      /\ \A r \in Pids \ {p} : rval'[r] = rval[r]
      /\ \A r \in Pids \ {q} : behind'[r] = behind[r]
  BY <1>1, <1>3, <1>4
<1>7. /\ KernelTyped'
      /\ grp'[q] = q \/ grp'[q] = grp[p]
      /\ cwd'[grp'[q]] = cwd[grp[p]] /\ prog'[grp'[q]] = prog[grp[p]]
      /\ fds'[q] = fds[q] \/ fds'[q] = fds[grp[p]]
      /\ \A r \in Pids \ {q} : grp'[r] = grp[r] /\ cwd'[r] = cwd[r] /\ prog'[r] = prog[r]
                               /\ fds'[r] = fds[r]
  BY <1>2, <1>3, CloneShares, SMT
<1>8. TypeOK'
  BY <1>1, <1>5, <1>7 DEF IInv, TypeOK, KernelTyped, Stages
<1>9. UNCHANGED <<exec_mode, prov_mode, cur, entry, tcb, close_rec, opened>>
  BY <1>1
<1>10. \A r \in Pids \ {p, q} : Same(r) /\ cwd'[grp[r]] = cwd[grp[r]]
  BY <1>3, <1>6, <1>7, <1>9, SMT DEF Same
<1>11. QED
  BY <1>1, <1>3, <1>6, <1>7, <1>8, <1>10 DEF Cloned

\* The groups stay apart when q joins the group of p or starts one.
LEMMA CloneGroups ==
    ASSUME NEW p \in Pids, NEW q \in Pids, p # q, Groups, grp[q] = q,
           \A r \in Pids : grp[r] \in Pids /\ (r # q => grp[r] # q),
           stage[p] = "user", stage'[p] = "event", stage'[q] = "new",
           grp'[q] = q \/ grp'[q] = grp[p], cur' = cur, cwd'[grp'[q]] = cwd[grp[p]],
           \A r \in Pids \ {q} : grp'[r] = grp[r] /\ cwd'[grp[r]] = cwd[grp[r]],
           \A r \in Pids \ {p, q} : stage'[r] = stage[r]
    PROVE  Groups'
<1>1. \A r \in Pids : grp'[grp'[r]] = grp'[r]
  BY SMT DEF Groups
<1>2. \A r, t \in Pids : stage'[r] = "unused" => (grp'[t] = r <=> t = r)
  BY SMT DEF Groups
<1>3. \A r \in Pids \ {q} : Alive(r)' <=> Alive(r)
  BY DEF Alive, Running
<1>4. ASSUME NEW r \in Pids, Executes(r, {"call", "done"})' PROVE Single(r)'
  <2>1. r # p /\ r # q /\ Single(r)
    BY <1>4 DEF Groups, Executes
  <2>2. grp[r] = r /\ grp[p] # r
    BY <2>1 DEF Single, Group, Alive, Running
  <2>3. grp'[r] = r /\ grp'[q] # r
    BY <2>1, <2>2
  <2>4. Group(r)' = {r}
    BY <1>3, <2>1, <2>2, <2>3 DEF Single, Group
  <2>5. QED
    BY <2>3, <2>4 DEF Single
<1>5. ASSUME NEW r \in Pids, Alive(r)' PROVE (cwd[grp[r]] \in Dirs)'
  <2>1. cwd[grp[p]] \in Dirs
    BY DEF Groups, Alive, Running
  <2>2. CASE r \in {p, q}
    BY <2>1, <2>2
  <2>3. CASE r \notin {p, q}
    BY <1>3, <1>5, <2>3 DEF Groups
  <2>4. QED
    BY <2>2, <2>3
<1>6. QED
  BY <1>1, <1>2, <1>4, <1>5 DEF Groups

\* What the child is to inherit is in the entry of p.
LEMMA CloneInherits ==
    ASSUME NEW p \in Pids, NEW q \in Pids, Cloned(p, q), Known(p)
    PROVE  Inherits(p, q)'
<1>1. stage[p] = "user" /\ ~Executes(p, {"call"}) /\ p # q /\ Unborn(q)' /\ grp'[p] = grp[p]
  BY DEF Cloned, Executes, Unborn
<1>2. CASE "early" \in behind[p]
  BY <1>1, <1>2 DEF Inherits, Cloned
<1>3. CASE "early" \notin behind[p]
  <2>1. "dir" \notin behind[p] => tcb[entry[p]].current_dir = cwd[grp[p]]
    BY <1>1, <1>3 DEF Known, DirKnown, Ready, Moved, Running
  <2>2. /\ exec_mode /\ "ignores" \notin behind[p] =>
                tcb[entry[p]].p_ignores = IgnoresOf(prog[grp[p]])
        /\ exec_mode /\ "program" \notin behind[p] =>
                tcb[entry[p]].perceived_program_fullpath = PerceivedOf(prog[grp[p]])
    BY <1>1, <1>3 DEF Known, ProgramKnown, Ready, Running
  <2>3. behind[p] \subseteq behind'[q] /\ "early" \notin behind'[p]
    BY <1>3 DEF Cloned
  <2>4. QED
    BY <1>1, <2>1, <2>2, <2>3 DEF Inherits, Cloned
<1>4. QED
  BY <1>2, <1>3

\* What the tracer knows of the parent stays true.
LEMMA CloneKnown ==
    ASSUME NEW p \in Pids, NEW q \in Pids, Cloned(p, q), Known(p)
    PROVE  Known(p)'
<1>1. /\ stage[p] = "user" /\ stage'[p] = "event" /\ cur' = cur /\ rval'[p] = q
      /\ exec_mode' = exec_mode /\ prov_mode' = prov_mode
      /\ grp'[p] = grp[p] /\ behind'[p] = behind[p] /\ opened' = opened
      /\ entry' = entry /\ tcb' = tcb
      /\ cwd'[grp[p]] = cwd[grp[p]] /\ prog'[grp[p]] = prog[grp[p]]
      /\ fds'[grp[p]] = fds[grp[p]]
  BY DEF Cloned
<1>2. CallMade(p)' /\ Waits(p)' /\ CloseKnown(p)'
  BY <1>1 DEF Known, CallMade, Waits, CloseKnown, Running
<1>3. DirKnown(p)'
  BY <1>1 DEF Known, DirKnown, Ready, Moved, Running
<1>4. ProgramKnown(p)'
  BY <1>1 DEF Known, ProgramKnown, Ready, Running, Executes
<1>5. FilesKnown(p)'
  BY <1>1 DEF Known, FilesKnown, Running
<1>6. QED
  BY <1>2, <1>3, <1>4, <1>5 DEF Known

\* The parent stops for the event, with what the child is to inherit.
LEMMA CloneStep ==
    ASSUME IInv, NEW p \in Pids, NEW q \in Pids, Cloned(p, q), TypeOK'
    PROVE  IInv'
<1>1. Slots /\ Groups /\ Births /\ Openers /\ Known(p) /\ Known(q)
  BY DEF IInv
<1>2. /\ p # q /\ grp[p] \in Pids /\ grp[p] # q /\ grp[q] = q
      /\ \A r \in Pids : grp[r] \in Pids /\ (r # q => grp[r] # q)
  BY <1>1 DEF IInv, TypeOK, Groups, Cloned
<1>3. Slots'
  BY <1>1 DEF Slots, Cloned, Running
<1>4. Groups'
  BY <1>1, <1>2, CloneGroups, SMT DEF Cloned
<1>5. Births'
  <2>1. Inherits(p, q)'
    BY <1>1, CloneInherits
  <2>2. \A r \in Pids : r # q => (Unborn(r)' <=> Unborn(r))
    BY DEF Cloned, Same, Unborn
  <2>3. ~Unborn(q)
    BY <1>1 DEF Known, Waits, Unborn, Running, Cloned
  <2>4. ASSUME NEW r \in Pids \ {p}, stage'[r] = "event"
        PROVE  /\ stage[r] = "event" /\ rval'[r] = rval[r] /\ rval[r] # q
               /\ Inherits(r, rval[r])'
    <3>1. stage[r] = "event" /\ r # q /\ Same(r) /\ rval'[r] = rval[r] /\ SameMode
      BY <2>4 DEF Cloned, Same, SameMode
    <3>2. PICK t \in Pids : t = rval[r] /\ Inherits(r, t) /\ Unborn(t) /\ t # q
      BY <1>1, <2>3, <3>1 DEF Births, Inherits
    <3>3. StaysUnborn(t)
      <4>1. CASE t = p
        BY <2>2, <3>2, <4>1 DEF Cloned, StaysUnborn, Moved
      <4>2. CASE t # p
        BY <3>2, <4>2, SameUnborn DEF Cloned, IInv
      <4>3. QED
        BY <4>1, <4>2
    <3>4. Inherits(r, t)'
      BY <3>1, <3>2, <3>3, SameInherits
    <3>5. QED
      BY <3>1, <3>2, <3>4
  <2>5. rval'[p] = q /\ stage'[p] = "event" /\ stage[p] = "user"
    BY DEF Cloned
  <2>6. \A r \in Pids : stage'[r] = "event" => Inherits(r, rval[r])'
    BY <2>1, <2>4, <2>5
  <2>7. ASSUME NEW t \in Pids, Unborn(t)' PROVE \E r \in Pids : stage'[r] = "event" /\ rval'[r] = t
    <3>1. CASE t = q
      BY <2>5, <3>1
    <3>2. CASE t # q
      <4>1. PICK r \in Pids : stage[r] = "event" /\ rval[r] = t
        BY <1>1, <2>2, <2>7, <3>2 DEF Births
      <4>2. QED
        BY <2>5, <4>1 DEF Cloned, Same
    <3>3. QED
      BY <3>1, <3>2
  <2>8. QED
    BY <1>1, <2>4, <2>5, <2>6, <2>7 DEF Births
<1>6. Openers'
  <2>1. ASSUME NEW r \in Pids, NEW t \in Pids, NEW f \in Fds, fds'[r][f].by = t
        PROVE  stage'[t] # "unused" /\ ~Unborn(t)'
    <3>1. fds[r][f].by = t \/ fds[grp[p]][f].by = t
      BY <2>1 DEF Cloned
    <3>2. stage[t] # "unused" /\ ~Unborn(t)
      BY <1>1, <1>2, <3>1 DEF Openers
    <3>3. QED
      BY <3>2 DEF Cloned, Same, Unborn
  <2>2. QED
    BY <2>1 DEF Openers
<1>7. Known(p)'
  BY <1>1, CloneKnown
<1>8. Known(q)'
  <2>1. stage'[q] = "new" /\ cur'[q] = NoCall /\ "early" \notin behind'[q]
    BY <1>1 DEF Known, CallMade, Cloned
  <2>2. QED
    BY <2>1, IdleKnown DEF Running
<1>9. \A r \in Pids \ {p, q} : Known(r)'
  BY SameKnown DEF IInv, Cloned, SameMode
<1>10. QED
  BY <1>3, <1>4, <1>5, <1>6, <1>7, <1>8, <1>9 DEF IInv
-----------------------------------------------------------------------------
(* Facts about the operators of TcbFields. *)

\* alloc_tcb_cde_fields clears all but the program.
LEMMA AllocFields ==
    ASSUME NEW t \in Tcbs
    PROVE  /\ alloc_tcb_cde_fields(t) \in Tcbs
           /\ alloc_tcb_cde_fields(t).current_dir = Null
           /\ alloc_tcb_cde_fields(t).p_ignores = Null
           /\ alloc_tcb_cde_fields(t).perceived_program_fullpath = t.perceived_program_fullpath
           /\ alloc_tcb_cde_fields(t).opened_file_paths = [f \in Fds |-> Null]
BY DEF Tcbs, alloc_tcb_cde_fields

\* free_tcb_cde_fields gives fields of the same type.
LEMMA FreeFields ==
    ASSUME NEW t \in Tcbs
    PROVE  free_tcb_cde_fields(t) \in Tcbs
BY DEF Tcbs, free_tcb_cde_fields

\* CDE_init_tcb_dir_fields copies the parent's fields, the program only where there is none.
LEMMA ChildFields ==
    ASSUME NEW t \in Tcbs, NEW u \in Tcbs
    PROVE  /\ CDE_init_tcb_dir_fields(t, u) \in Tcbs
           /\ CDE_init_tcb_dir_fields(t, u).current_dir = u.current_dir
           /\ CDE_init_tcb_dir_fields(t, u).p_ignores = u.p_ignores
           /\ t.perceived_program_fullpath = Null =>
                  CDE_init_tcb_dir_fields(t, u).perceived_program_fullpath =
                      u.perceived_program_fullpath
           /\ CDE_init_tcb_dir_fields(t, u).opened_file_paths = t.opened_file_paths
BY DEF Tcbs, CDE_init_tcb_dir_fields

\* CDE_begin_execve sets, in exec mode, what belongs to the next program.
LEMMA ExecveFields ==
    ASSUME NEW t \in Tcbs, NEW x \in Programs, exec_mode \in BOOLEAN
    PROVE  /\ CDE_begin_execve(t, x) \in Tcbs
           /\ CDE_begin_execve(t, x).current_dir = t.current_dir
           /\ exec_mode => CDE_begin_execve(t, x).p_ignores = IgnoresOf(x)
           /\ ~exec_mode => CDE_begin_execve(t, x).p_ignores = Null
           /\ exec_mode => CDE_begin_execve(t, x).perceived_program_fullpath =
                  IF KindOf[x] = "loader" THEN ExeOf[x] ELSE t.perceived_program_fullpath
           /\ CDE_begin_execve(t, x).opened_file_paths = t.opened_file_paths
<1>1. ExeOf[x] \in Programs /\ x # Null
  BY KindAssumption, NullAssumption
<1>2. CDE_begin_execve(t, x) \in Tcbs
  BY <1>1 DEF Tcbs, CDE_begin_execve
<1>3. QED
  BY <1>1, <1>2 DEF Tcbs, CDE_begin_execve, IgnoresOf

\* The entry of a process that runs is in the table, and is that of no other process.
LEMMA HasEntry ==
    ASSUME TypeOK, Slots, NEW p \in Pids, stage[p] \in Running \cup {"held", "dead", "zombie"}
    PROVE  /\ entry[p] \in Entries /\ tcb[entry[p]] \in Tcbs
           /\ \A q \in Pids : q # p => entry[q] # entry[p]
<1>1. entry[p] \in Entries
  BY DEF TypeOK, Slots
<1>2. tcb[entry[p]] \in Tcbs
  BY <1>1 DEF TypeOK, Tcbs
<1>3. QED
  BY <1>1, <1>2 DEF Slots

\* The fields that the types of a process's own variables give.
LEMMA Types ==
    ASSUME IInv
    PROVE  /\ exec_mode \in BOOLEAN /\ prov_mode \in BOOLEAN
           /\ tcb \in [Entries -> Tcbs] /\ stage \in [Pids -> Stages]
           /\ entry \in [Pids -> Entries \cup {0}] /\ grp \in [Pids -> Pids]
BY DEF IInv, TypeOK, Tcbs, Stages

\* A process that has a directory set does not run early.
LEMMA NotEarly ==
    ASSUME IInv, NEW p \in Pids, HasDir(p)
    PROVE  "early" \notin behind[p]
BY DEF IInv, Known, Waits, HasDir

\* A process in a call has a call that is its group's own when it is an execve.
LEMMA InCall ==
    ASSUME IInv, NEW p \in Pids, stage[p] \in {"call", "done"}
    PROVE  /\ cur[p] \in Calls /\ cwd[grp[p]] \in Dirs /\ grp[p] \in Pids
           /\ cur[p].op = "execve" => Single(p)
BY DEF IInv, TypeOK, Known, CallMade, Groups, Alive, Running, Executes
-----------------------------------------------------------------------------
(* The entry of a call. *)

\* p goes on to the kernel, and nobody else moves.
Entered(p, c) ==
    /\ stage'[p] = "call" /\ cur'[p] = c /\ left' \in [calls : Nat, clones : Nat]
    /\ UsesDir(c) => "early" \notin behind[p]
    /\ stage' \in [Pids -> Stages] /\ cur' \in [Pids -> Calls \cup {NoCall}]
    /\ \A q \in Pids \ {p} : stage'[q] = stage[q] /\ cur'[q] = cur[q]

\* A call that goes on to the kernel moves its process alone.
LEMMA GoesOn ==
    ASSUME IInv, NEW p \in Pids, NEW c \in Calls, Goes(p, c)
    PROVE  Entered(p, c)
<1>1. UsesDir(c) => "early" \notin behind[p]
  BY NotEarly DEF Goes
<1>2. left' \in [calls : Nat, clones : Nat]
  <2>1. /\ left \in [calls : Nat, clones : Nat] /\ left.calls > 0
        /\ left' = [left EXCEPT !.calls = left.calls - 1]
    BY DEF IInv, TypeOK, Goes
  <2>2. QED
    BY <2>1, SMT
<1>3. QED
  BY <1>1, <1>2, SMT DEF IInv, TypeOK, Goes, Entered, Stages, Running

\* A process that runs early and enters a call still waits for its fork event.
LEMMA EnteredEarly ==
    ASSUME NEW p \in Pids, NEW c, stage[p] = "user", Entered(p, c), Known(p),
           exec_mode' = exec_mode, grp' = grp, cwd' = cwd, prog' = prog, behind' = behind,
           entry' = entry, tcb'[entry[p]].current_dir = tcb[entry[p]].current_dir,
           "early" \in behind[p] => tcb'[entry[p]].p_ignores = Null,
           tcb'[entry[p]].opened_file_paths = tcb[entry[p]].opened_file_paths
    PROVE  Waits(p)' /\ StaysEarly(p)
<1>1. StaysEarly(p)
  BY DEF StaysEarly, StaysUnborn, Unborn, Moved, Entered
<1>2. Waits(p)'
  BY DEF Known, Waits, Entered, UsesDir, Running
<1>3. QED
  BY <1>1, <1>2

\* The groups have their directories as long as nobody is born.
LEMMA DirsKept ==
    ASSUME IInv, NEW p \in Pids, Moves(p), cwd' = cwd
    PROVE  \A q \in Pids : Alive(q)' => cwd'[grp[q]] \in Dirs
<1>1. \A q \in Pids : Alive(q)' => Alive(q)
  BY DEF Moves, Same, Alive, Running
<1>2. QED
  BY <1>1 DEF IInv, Groups

\* The entry of a call whose handler changes nothing.
LEMMA EnterStep ==
    ASSUME IInv, NEW p \in Pids, NEW c \in Calls, Enter(p, c)
    PROVE  IInv'
<1>1. /\ stage[p] = "user" /\ c.op \notin {"close", "execve"} /\ Entered(p, c)
      /\ UNCHANGED <<exec_mode, prov_mode, calls, down, grp, cwd, fds, prog, rval, entry, parent,
                     tcb, close_rec, opened, behind>>
  BY GoesOn DEF Enter, modes, kernel
<1>2. TypeOK'
  BY <1>1 DEF IInv, TypeOK, Entered, Stages
<1>3. Moves(p)
  BY <1>1 DEF Moves, SameMode, Same, Entered
<1>4. Known(p)' /\ StaysEarly(p)
  <2>1. Known(p)
    BY DEF IInv
  <2>2. CallMade(p)' /\ CloseKnown(p)'
    BY <1>1 DEF CallMade, CloseKnown, Entered
  <2>3. DirKnown(p)'
    BY <1>1, <2>1 DEF Known, DirKnown, Ready, Moved, Running, Entered
  <2>4. ProgramKnown(p)'
    BY <1>1, <2>1 DEF Known, ProgramKnown, Ready, Running, Entered, Executes
  <2>5. FilesKnown(p)'
    BY <1>1, <2>1 DEF Known, FilesKnown, Running, Entered
  <2>6. Waits(p)' /\ StaysEarly(p)
    BY <1>1, <2>1, EnteredEarly DEF Known, Waits
  <2>7. QED
    BY <2>2, <2>3, <2>4, <2>5, <2>6 DEF Known
<1>5. ~Executes(p, {"call", "done"})'
  BY <1>1 DEF Executes, Entered
<1>6. QED
  BY <1>1, <1>2, <1>3, <1>4, <1>5, DirsKept, MoveStep

\* The entry of a close, with its record.
LEMMA EnterCloseStep ==
    ASSUME IInv, NEW p \in Pids, NEW c \in Calls, EnterClose(p, c)
    PROVE  IInv'
<1>1. /\ stage[p] = "user" /\ c.op = "close" /\ Entered(p, c)
      /\ UNCHANGED <<exec_mode, prov_mode, calls, down, grp, cwd, fds, prog, rval, entry, parent,
                     tcb, opened, behind>>
  BY GoesOn DEF EnterClose, modes, kernel
<1>2. c.fd \in Fds /\ tcb[entry[p]].opened_file_paths[c.fd] \in Dirs \cup {Null}
  <2>1. c.fd \in Fds
    BY <1>1, CallArgs
  <2>2. tcb[entry[p]] \in Tcbs
    BY <1>1, HasEntry DEF IInv, Running
  <2>3. QED
    BY <2>1, <2>2 DEF Tcbs
<1>3. /\ close_rec' \in [Pids -> Dirs \cup {Null}]
      /\ prov_mode => close_rec'[p] = tcb[entry[p]].opened_file_paths[c.fd]
      /\ \A q \in Pids \ {p} : close_rec'[q] = close_rec[q]
  <2> DEFINE v == IF prov_mode THEN tcb[entry[p]].opened_file_paths[c.fd] ELSE Null
  <2>1. /\ v \in Dirs \cup {Null} /\ close_rec' = [close_rec EXCEPT ![p] = v]
        /\ prov_mode => v = tcb[entry[p]].opened_file_paths[c.fd]
    BY <1>2 DEF EnterClose, print_close_prov
  <2>2. close_rec \in [Pids -> Dirs \cup {Null}]
    BY DEF IInv, TypeOK
  <2> HIDE DEF v
  <2>3. QED
    BY <2>1, <2>2
<1>4. TypeOK'
  BY <1>1, <1>3 DEF IInv, TypeOK, Entered, Stages
<1>5. Moves(p)
  BY <1>1, <1>3 DEF Moves, SameMode, Same, Entered
<1>6. Known(p)' /\ StaysEarly(p)
  <2>1. Known(p)
    BY DEF IInv
  <2>2. CallMade(p)'
    BY <1>1 DEF CallMade, Entered
  <2>3. DirKnown(p)'
    BY <1>1, <2>1 DEF Known, DirKnown, Ready, Moved, Running, Entered
  <2>4. ProgramKnown(p)'
    BY <1>1, <2>1 DEF Known, ProgramKnown, Ready, Running, Entered, Executes
  <2>5. FilesKnown(p)'
    BY <1>1, <2>1 DEF Known, FilesKnown, Running, Entered
  <2>6. CloseKnown(p)'
    BY <1>1, <1>2, <1>3, <2>1 DEF Known, FilesKnown, CloseKnown, Running, Entered
  <2>7. Waits(p)' /\ StaysEarly(p)
    BY <1>1, <2>1, EnteredEarly DEF Known, Waits
  <2>8. QED
    BY <2>2, <2>3, <2>4, <2>5, <2>6, <2>7 DEF Known
<1>7. ~Executes(p, {"call", "done"})'
  BY <1>1 DEF Executes, Entered
<1>8. QED
  BY <1>1, <1>4, <1>5, <1>6, <1>7, DirsKept, MoveStep

\* What is known of p once it has entered the execve c, its entry then holding u.
LEMMA ExecveKnown ==
    ASSUME NEW p \in Pids, NEW c \in Calls, NEW u, Known(p), Waits(p)', stage[p] = "user",
           c.op = "execve", stage'[p] = "call", cur'[p] = c, grp'[p] = grp[p],
           UNCHANGED <<exec_mode, prov_mode, cwd, fds, prog, entry, opened, behind>>,
           tcb'[entry[p]] = u, u.current_dir = tcb[entry[p]].current_dir,
           exec_mode => u.p_ignores = IgnoresOf(c.prog),
           exec_mode => u.perceived_program_fullpath =
               IF KindOf[c.prog] = "loader" THEN ExeOf[c.prog]
               ELSE tcb[entry[p]].perceived_program_fullpath,
           u.opened_file_paths = tcb[entry[p]].opened_file_paths
    PROVE  Known(p)'
<1>1. CallMade(p)' /\ CloseKnown(p)'
  BY DEF CallMade, CloseKnown
<1>2. DirKnown(p)'
  BY DEF Known, DirKnown, Ready, Moved, Running
<1>3. ProgramKnown(p)'
  BY DEF Known, ProgramKnown, Ready, Running, Executes
<1>4. FilesKnown(p)'
  BY DEF Known, FilesKnown, Running
<1>5. QED
  BY <1>1, <1>2, <1>3, <1>4 DEF Known

\* The entry of an execve, where CDE_begin_execve changes the fields at once.
LEMMA EnterExecveStep ==
    ASSUME IInv, NEW p \in Pids, NEW c \in Calls, EnterExecve(p, c)
    PROVE  IInv'
<1> DEFINE u == CDE_begin_execve(tcb[entry[p]], c.prog)
<1>1. /\ stage[p] = "user" /\ c.op = "execve" /\ Single(p) /\ Entered(p, c)
      /\ tcb' = [tcb EXCEPT ![entry[p]] = u]
      /\ UNCHANGED <<exec_mode, prov_mode, calls, down, grp, cwd, fds, prog, rval, entry, parent,
                     close_rec, opened, behind>>
  BY GoesOn DEF EnterExecve, modes, kernel
<1>2. /\ entry[p] \in Entries /\ tcb[entry[p]] \in Tcbs
      /\ \A q \in Pids : q # p => entry[q] # entry[p]
  BY <1>1, HasEntry DEF IInv, Running
<1>3. c.prog \in Programs
  BY <1>1, CallArgs
<1>4. /\ u \in Tcbs /\ u.current_dir = tcb[entry[p]].current_dir
      /\ exec_mode => u.p_ignores = IgnoresOf(c.prog)
      /\ ~exec_mode => u.p_ignores = Null
      /\ exec_mode => u.perceived_program_fullpath =
             IF KindOf[c.prog] = "loader" THEN ExeOf[c.prog]
             ELSE tcb[entry[p]].perceived_program_fullpath
      /\ u.opened_file_paths = tcb[entry[p]].opened_file_paths
  BY <1>2, <1>3, ExecveFields, Types
<1> HIDE DEF u
<1>5. /\ tcb' \in [Entries -> Tcbs] /\ tcb'[entry[p]] = u
      /\ \A e \in Entries : e # entry[p] => tcb'[e] = tcb[e]
  BY <1>1, <1>2, <1>4, Types
<1>6. TypeOK'
  BY <1>1, <1>5 DEF IInv, TypeOK, Entered, Stages, Tcbs
<1>7. Moves(p)
  <2>1. ASSUME NEW q \in Pids \ {p}, Alive(q), stage[q] # "new" PROVE tcb'[entry[q]] = tcb[entry[q]]
    <3>1. entry[q] \in Entries
      BY <2>1, HasEntry DEF IInv, Alive
    <3>2. QED
      BY <1>2, <1>5, <3>1
  <2>2. QED
    BY <1>1, <2>1 DEF Moves, SameMode, Same, Entered
<1>8. Known(p)' /\ StaysEarly(p)
  <2>1. Known(p)
    BY DEF IInv
  <2>2. stage'[p] = "call" /\ cur'[p] = c
    BY <1>1 DEF Entered
  <2>3. "early" \in behind[p] => ~exec_mode
    BY <1>1 DEF Entered, UsesDir
  <2>4. Waits(p)' /\ StaysEarly(p)
    BY <1>1, <1>4, <1>5, <2>1, <2>3, EnteredEarly
  <2>5. QED
    BY <1>1, <1>4, <1>5, <2>1, <2>2, <2>4, ExecveKnown
<1>9. QED
  BY <1>1, <1>6, <1>7, <1>8, DirsKept, MoveStep
-----------------------------------------------------------------------------
(* The kernel performs the call. *)

\* p is at the exit of its call, and nobody else moves.
AtExit(p, r) ==
    /\ stage'[p] = "done" /\ rval'[p] = r
    /\ stage' \in [Pids -> Stages] /\ rval' \in [Pids -> Names]
    /\ \A q \in Pids \ {p} : stage'[q] = stage[q] /\ rval'[q] = rval[q]
    /\ UNCHANGED <<exec_mode, prov_mode, calls, down, left, grp, cur, entry, parent, tcb,
                   close_rec, opened>>

\* A call that is performed moves its process alone.
LEMMA IsPerformed ==
    ASSUME IInv, NEW p \in Pids, NEW r \in Names, Performed(p, r)
    PROVE  AtExit(p, r)
BY DEF IInv, TypeOK, Performed, AtExit, Stages, Running, modes

\* A process that runs early and is at the exit of a call still waits for its fork event.
LEMMA AtExitEarly ==
    ASSUME NEW p \in Pids, NEW r, stage[p] = "call", AtExit(p, r), Known(p),
           "early" \in behind'[p] <=> "early" \in behind[p],
           "dir" \in behind[p] => "dir" \in behind'[p],
           exec_mode /\ "early" \in behind[p] =>
               behind[p] \subseteq behind'[p] /\ prog'[grp[p]] = prog[grp[p]],
           (cur[p].op = "chdir" /\ r # Failed) \/ cwd'[grp[p]] = cwd[grp[p]]
    PROVE  Waits(p)' /\ StaysEarly(p)
<1>1. Waits(p)'
  BY DEF Known, Waits, UsesDir, AtExit, Running
<1>2. ~Moved(p) /\ (cur[p].op = "chdir" /\ r # Failed => Moved(p)')
  BY DEF Moved, AtExit
<1>3. StaysEarly(p)
  BY <1>2 DEF StaysEarly, StaysUnborn, Unborn, AtExit
<1>4. QED
  BY <1>1, <1>3

\* Most calls change nothing that is known of the program.
LEMMA ProgramKept ==
    ASSUME NEW p \in Pids, NEW r, stage[p] = "call", AtExit(p, r), Known(p),
           cur[p].op # "execve", prog' = prog, behind'[p] = behind[p]
    PROVE  ProgramKnown(p)'
BY DEF Known, ProgramKnown, Ready, Running, AtExit, Executes

\* A call that opens nothing, for a process whose descriptors stay or are closed.
LEMMA FilesKept ==
    ASSUME NEW p \in Pids, NEW r, stage[p] = "call", AtExit(p, r), Known(p),
           r \notin Fds \/ cur[p].op # "open",
           \A f \in Fds : fds'[grp[p]][f].by = p => fds'[grp[p]][f] = fds[grp[p]][f]
    PROVE  FilesKnown(p)'
BY DEF Known, FilesKnown, Running, AtExit

\* An execve that returns is alone in its group.
LEMMA StillAlone ==
    ASSUME IInv, NEW p \in Pids, NEW r, stage[p] = "call", AtExit(p, r)
    PROVE  Executes(p, {"call", "done"})' => Single(p)
<1>1. cur'[p].op = "execve" => Executes(p, {"call", "done"})
  BY DEF AtExit, Executes
<1>2. QED
  BY <1>1 DEF IInv, Groups, Executes

\* A call fails.
LEMMA FailStep ==
    ASSUME IInv, NEW p \in Pids, Fail(p)
    PROVE  IInv'
<1>1. stage[p] = "call" /\ AtExit(p, Failed) /\ UNCHANGED <<cwd, fds, prog>>
  BY IsPerformed DEF Fail, Names
<1>2. /\ behind' \in [Pids -> SUBSET {"dir", "ignores", "program", "early"}]
      /\ \A q \in Pids \ {p} : behind'[q] = behind[q]
      /\ behind[p] \subseteq behind'[p] /\ ("early" \in behind'[p] <=> "early" \in behind[p])
      /\ cur[p].op = "execve" /\ exec_mode =>
             /\ "ignores" \in behind'[p]
             /\ KindOf[cur[p].prog] = "loader" => "program" \in behind'[p]
  BY DEF Fail, IInv, TypeOK
<1>3. TypeOK'
  BY <1>1, <1>2 DEF IInv, TypeOK, AtExit, Stages
<1>4. Moves(p)
  BY <1>1, <1>2 DEF Moves, SameMode, Same, AtExit
<1>5. Known(p)' /\ StaysEarly(p)
  <2>1. Known(p)
    BY DEF IInv
  <2>2. CallMade(p)' /\ CloseKnown(p)'
    BY <1>1, <2>1 DEF Known, CallMade, CloseKnown, AtExit
  <2>3. DirKnown(p)'
    BY <1>1, <1>2, <2>1 DEF Known, DirKnown, Ready, Moved, Running, AtExit
  <2>4. ProgramKnown(p)'
    BY <1>1, <1>2, <2>1 DEF Known, ProgramKnown, Ready, Running, AtExit, Executes
  <2>5. FilesKnown(p)'
    BY <1>1, <2>1, FailedAssumption, FilesKept
  <2>6. "early" \in behind[p] => behind'[p] = behind[p]
    BY <1>1, <2>1 DEF Fail, Known, Waits, UsesDir, IInv, TypeOK
  <2>7. Waits(p)' /\ StaysEarly(p)
    BY <1>1, <1>2, <2>1, <2>6, AtExitEarly
  <2>8. QED
    BY <2>2, <2>3, <2>4, <2>5, <2>7 DEF Known
<1>6. QED
  BY <1>1, <1>3, <1>4, <1>5, StillAlone, DirsKept, MoveStep

\* A process changes its directory, and that of its other threads.
LEMMA ChdirStep ==
    ASSUME IInv, NEW p \in Pids, Chdir(p)
    PROVE  IInv'
<1>1. /\ stage[p] = "call" /\ cur[p].op = "chdir" /\ AtExit(p, "ok") /\ UNCHANGED <<fds, prog>>
  BY IsPerformed DEF Chdir, Names
<1>2. /\ cwd' \in [Pids -> Dirs \cup {Null}] /\ cwd'[grp[p]] \in Dirs
      /\ \A q \in Pids : grp[q] # grp[p] => cwd'[grp[q]] = cwd[grp[q]]
  <2>1. cur[p].dir \in Dirs /\ grp[p] \in Pids
    BY <1>1, InCall, CallArgs
  <2>2. QED
    BY <2>1 DEF Chdir, IInv, TypeOK
<1>3. /\ behind' \in [Pids -> SUBSET {"dir", "ignores", "program", "early"}]
      /\ \A q \in Pids : /\ behind[q] \subseteq behind'[q]
                         /\ "early" \in behind'[q] <=> "early" \in behind[q]
      /\ \A q \in Pids \ {p} : Alive(q) /\ grp[q] = grp[p] => "dir" \in behind'[q]
      /\ behind'[p] = behind[p]
  BY DEF Chdir, IInv, TypeOK, Group
<1>4. TypeOK'
  BY <1>1, <1>2, <1>3 DEF IInv, TypeOK, AtExit, Stages
<1>5. Moves(p)
  BY <1>1, <1>2, <1>3 DEF Moves, SameMode, Same, AtExit
<1>6. Known(p)' /\ StaysEarly(p)
  <2>1. Known(p)
    BY DEF IInv
  <2>2. CallMade(p)' /\ CloseKnown(p)'
    BY <1>1, <2>1 DEF Known, CallMade, CloseKnown, AtExit
  <2>3. DirKnown(p)'
    <3>1. Moved(p)' /\ behind'[p] = behind[p] /\ tcb' = tcb /\ entry' = entry
      BY <1>1, <1>3 DEF Moved, AtExit, Failed
    <3>2. QED
      BY <1>1, <2>1, <3>1 DEF Known, DirKnown, Ready, Running
  <2>4. ProgramKnown(p)'
    BY <1>1, <1>3, <2>1, ProgramKept
  <2>5. FilesKnown(p)'
    BY <1>1, <2>1, FilesKept
  <2>6. Waits(p)' /\ StaysEarly(p)
    BY <1>1, <1>3, <2>1, AtExitEarly DEF Failed
  <2>7. QED
    BY <2>2, <2>3, <2>4, <2>5, <2>6 DEF Known
<1>7. \A q \in Pids : Alive(q)' => cwd'[grp[q]] \in Dirs
  <2>1. \A q \in Pids : Alive(q)' => Alive(q)
    BY <1>1 DEF AtExit, Alive, Running
  <2>2. QED
    BY <1>2, <2>1 DEF IInv, Groups
<1>8. QED
  BY <1>1, <1>4, <1>5, <1>6, <1>7, StillAlone, MoveStep

\* A process asks for its directory.
LEMMA GetcwdStep ==
    ASSUME IInv, NEW p \in Pids, Getcwd(p)
    PROVE  IInv'
<1>1. /\ stage[p] = "call" /\ cur[p].op = "getcwd" /\ cwd[grp[p]] \in Dirs
      /\ AtExit(p, cwd[grp[p]]) /\ UNCHANGED <<cwd, fds, prog, behind>>
  BY InCall, IsPerformed DEF Getcwd, Names
<1>2. TypeOK'
  BY <1>1 DEF IInv, TypeOK, AtExit, Stages
<1>3. Moves(p)
  BY <1>1 DEF Moves, SameMode, Same, AtExit
<1>4. Known(p)' /\ StaysEarly(p)
  <2>1. Known(p)
    BY DEF IInv
  <2>2. CallMade(p)' /\ CloseKnown(p)'
    BY <1>1, <2>1 DEF Known, CallMade, CloseKnown, AtExit
  <2>3. DirKnown(p)'
    BY <1>1, <2>1 DEF Known, DirKnown, Ready, Moved, Running, AtExit
  <2>4. ProgramKnown(p)'
    BY <1>1, <2>1, ProgramKept
  <2>5. FilesKnown(p)'
    BY <1>1, <2>1, FilesKept
  <2>6. Waits(p)' /\ StaysEarly(p)
    BY <1>1, <2>1, AtExitEarly
  <2>7. QED
    BY <2>2, <2>3, <2>4, <2>5, <2>6 DEF Known
<1>5. QED
  BY <1>1, <1>2, <1>3, <1>4, StillAlone, DirsKept, MoveStep

\* A process gets a new descriptor.
LEMMA NewDescriptorStep ==
    ASSUME IInv, NEW p \in Pids, NEW f \in Fds, NewDescriptor(p, f)
    PROVE  IInv'
<1>1. /\ stage[p] = "call" /\ cur[p].op \in {"open", "dup"} /\ AtExit(p, f)
      /\ UNCHANGED <<cwd, prog, behind>> /\ cwd[grp[p]] \in Dirs /\ grp[p] \in Pids
  BY InCall, IsPerformed DEF NewDescriptor, Names
<1>2. PICK d \in {Other} \cup [by : {p}, path : Dirs] :
           /\ fds' = [fds EXCEPT ![grp[p]] = [fds[grp[p]] EXCEPT ![f] = d]]
           /\ d # Other => /\ cur[p].op = "open" /\ cur[p].base = "cwd"
                           /\ "dir" \notin behind[p] /\ d.path = cwd[grp[p]]
  <2> DEFINE v == IF cur[p].op = "open" /\ cur[p].base = "cwd" /\ "dir" \notin behind[p]
                  THEN [by |-> p, path |-> cwd[grp[p]]] ELSE Other
  <2>1. /\ v \in {Other} \cup [by : {p}, path : Dirs]
        /\ v # Other => /\ cur[p].op = "open" /\ cur[p].base = "cwd"
                        /\ "dir" \notin behind[p] /\ v.path = cwd[grp[p]]
    BY <1>1
  <2>2. fds' = [fds EXCEPT ![grp[p]][f] = v]
    BY DEF NewDescriptor
  <2> HIDE DEF v
  <2>3. fds' = [fds EXCEPT ![grp[p]] = [fds[grp[p]] EXCEPT ![f] = v]]
    BY <2>2
  <2>4. QED
    BY <2>1, <2>3
<1>3. (d = Other => d.by \notin Pids) /\ (d # Other => d.by = p /\ "early" \notin behind[p])
  <2>1. d # Other => "early" \notin behind[p]
    BY <1>1, <1>2 DEF IInv, Known, Waits, UsesDir
  <2>2. QED
    BY <2>1, NullAssumption, SMT DEF Other
<1>4. /\ fds' \in [Pids -> [Fds -> {Unused, Other} \cup [by : Pids, path : Dirs]]]
      /\ \A q \in Pids, g \in Fds : fds'[q][g] = IF q = grp[p] /\ g = f THEN d ELSE fds[q][g]
  BY <1>1, <1>2 DEF IInv, TypeOK
<1>5. TypeOK'
  BY <1>1, <1>4 DEF IInv, TypeOK, AtExit, Stages
<1>6. Moves(p)
  <2>1. ASSUME NEW q \in Pids \ {p}, NEW g \in Fds, fds'[grp[q]][g].by = q
        PROVE  fds'[grp[q]][g] = fds[grp[q]][g]
    BY <1>3, <1>4, <2>1, Types, SMT
  <2>2. QED
    BY <1>1, <2>1 DEF Moves, SameMode, Same, AtExit
<1>7. Known(p)' /\ StaysEarly(p)
  <2>1. Known(p)
    BY DEF IInv
  <2>2. CallMade(p)' /\ CloseKnown(p)'
    BY <1>1, <2>1 DEF Known, CallMade, CloseKnown, AtExit
  <2>3. DirKnown(p)'
    BY <1>1, <2>1 DEF Known, DirKnown, Ready, Moved, Running, AtExit
  <2>4. ProgramKnown(p)'
    BY <1>1, <2>1, ProgramKept
  <2>5. FilesKnown(p)'
    <3>1. d.by = p => cur[p].op = "open" /\ d.path = tcb[entry[p]].current_dir
      BY <1>1, <1>2, <1>3, <2>1 DEF Known, DirKnown, Ready, Moved, Running
    <3>2. \A g \in Fds : fds'[grp[p]][g] = IF g = f THEN d ELSE fds[grp[p]][g]
      BY <1>1, <1>4
    <3>3. QED
      BY <1>1, <2>1, <3>1, <3>2 DEF Known, FilesKnown, Running, AtExit
  <2>6. Waits(p)' /\ StaysEarly(p)
    BY <1>1, <2>1, AtExitEarly
  <2>7. QED
    BY <2>2, <2>3, <2>4, <2>5, <2>6 DEF Known
<1>8. \A q \in Pids, g \in Fds : \/ fds'[q][g] = fds[q][g] \/ fds'[q][g].by \notin Pids
                                 \/ fds'[q][g].by = p /\ "early" \notin behind[p]
  BY <1>3, <1>4
<1>9. QED
  BY <1>1, <1>5, <1>6, <1>7, <1>8, StillAlone, DirsKept, MoveStep

\* A process closes a descriptor.
LEMMA CloseStep ==
    ASSUME IInv, NEW p \in Pids, Close(p)
    PROVE  IInv'
<1>1. /\ stage[p] = "call" /\ cur[p].op = "close" /\ AtExit(p, "ok")
      /\ UNCHANGED <<cwd, prog, behind>> /\ grp[p] \in Pids
  BY InCall, IsPerformed DEF Close, Names
<1>2. cur[p].fd \in Fds
  BY <1>1, InCall, CallArgs
<1>3. /\ fds' \in [Pids -> [Fds -> {Unused, Other} \cup [by : Pids, path : Dirs]]]
      /\ \A q \in Pids, g \in Fds : fds'[q][g] = fds[q][g] \/ fds'[q][g].by \notin Pids
  <2>1. Unused.by \notin Pids
    BY NullAssumption DEF Unused
  <2>2. fds' = [fds EXCEPT ![grp[p]] = [fds[grp[p]] EXCEPT ![cur[p].fd] = Unused]]
    BY DEF Close
  <2>3. QED
    BY <1>1, <1>2, <2>1, <2>2 DEF IInv, TypeOK
<1>4. TypeOK'
  BY <1>1, <1>3 DEF IInv, TypeOK, AtExit, Stages
<1>5. \A q \in Pids, g \in Fds : fds'[grp[q]][g].by = q => fds'[grp[q]][g] = fds[grp[q]][g]
  BY <1>3, Types, SMT
<1>6. Moves(p)
  BY <1>1, <1>5 DEF Moves, SameMode, Same, AtExit
<1>7. Known(p)' /\ StaysEarly(p)
  <2>1. Known(p)
    BY DEF IInv
  <2>2. CallMade(p)' /\ CloseKnown(p)'
    BY <1>1, <2>1 DEF Known, CallMade, CloseKnown, AtExit
  <2>3. DirKnown(p)'
    BY <1>1, <2>1 DEF Known, DirKnown, Ready, Moved, Running, AtExit
  <2>4. ProgramKnown(p)'
    BY <1>1, <2>1, ProgramKept
  <2>5. FilesKnown(p)'
    BY <1>1, <1>5, <2>1, FilesKept
  <2>6. Waits(p)' /\ StaysEarly(p)
    BY <1>1, <2>1, AtExitEarly
  <2>7. QED
    BY <2>2, <2>3, <2>4, <2>5, <2>6 DEF Known
<1>8. QED
  BY <1>1, <1>3, <1>4, <1>6, <1>7, StillAlone, DirsKept, MoveStep

\* A process goes on with another program, for which the fields are set already.
LEMMA ExecveStep ==
    ASSUME IInv, NEW p \in Pids, Execve(p)
    PROVE  IInv'
<1>1. /\ stage[p] = "call" /\ cur[p].op = "execve" /\ AtExit(p, "ok")
      /\ UNCHANGED <<cwd, fds>>
  BY IsPerformed DEF Execve, Names
<1>2. Single(p) /\ cur[p].prog \in Programs /\ cur[p].prog # Null
  BY <1>1, InCall, CallArgs, NullAssumption
<1>3. /\ prog' \in [Pids -> Programs \cup {Null}] /\ prog'[p] = cur[p].prog
      /\ \A q \in Pids : q # p => prog'[q] = prog[q]
  BY <1>2 DEF Execve, IInv, TypeOK, Single
<1>4. /\ behind' \in [Pids -> SUBSET {"dir", "ignores", "program", "early"}]
      /\ \A q \in Pids \ {p} : behind'[q] = behind[q]
      /\ "dir" \in behind'[p] <=> "dir" \in behind[p]
      /\ "early" \in behind'[p] <=> "early" \in behind[p]
      /\ \/ KindOf[cur[p].prog] = "loader" \/ "program" \in behind'[p]
         \/ tcb[entry[p]].perceived_program_fullpath = Null
  BY DEF Execve, IInv, TypeOK
<1>5. TypeOK'
  BY <1>1, <1>3, <1>4 DEF IInv, TypeOK, AtExit, Stages
<1>6. Moves(p)
  <2>1. \A q \in Pids \ {p} : Alive(q) => grp[q] # p
    BY <1>2 DEF Single, Group
  <2>2. \A q \in Pids : grp[q] \in Pids
    BY Types
  <2>3. QED
    BY <1>1, <1>3, <1>4, <2>1, <2>2 DEF Moves, SameMode, Same, AtExit
<1>7. Known(p)' /\ StaysEarly(p)
  <2>1. Known(p) /\ grp[p] = p
    BY <1>2 DEF IInv, Single
  <2>2. "early" \in behind[p] => ~exec_mode
    BY <1>1, <2>1 DEF Known, Waits, UsesDir
  <2>3. CallMade(p)' /\ CloseKnown(p)'
    BY <1>1, <1>3, <2>1 DEF Known, CallMade, CloseKnown, AtExit
  <2>4. DirKnown(p)'
    BY <1>1, <1>4, <2>1 DEF Known, DirKnown, Ready, Moved, Running, AtExit
  <2>5. ProgramKnown(p)'
    <3>1. exec_mode => /\ tcb[entry[p]].p_ignores = IgnoresOf(cur[p].prog)
                       /\ KindOf[cur[p].prog] = "loader" =>
                              tcb[entry[p]].perceived_program_fullpath = ExeOf[cur[p].prog]
      BY <1>1, <2>1, <2>2 DEF Known, ProgramKnown, Ready, Executes, Running
    <3>2. exec_mode /\ "program" \notin behind'[p] =>
              tcb[entry[p]].perceived_program_fullpath = PerceivedOf(cur[p].prog)
      BY <1>2, <1>4, <3>1 DEF PerceivedOf
    <3>3. ~Executes(p, {"call"})'
      BY <1>1 DEF AtExit, Executes
    <3>4. QED
      BY <1>1, <1>3, <2>1, <3>1, <3>2, <3>3 DEF ProgramKnown, AtExit
  <2>6. FilesKnown(p)'
    BY <1>1, <2>1, FilesKept
  <2>7. Waits(p)' /\ StaysEarly(p)
    BY <1>1, <1>4, <2>1, <2>2, AtExitEarly
  <2>8. QED
    BY <2>3, <2>4, <2>5, <2>6, <2>7 DEF Known
<1>8. QED
  BY <1>1, <1>2, <1>5, <1>6, <1>7, DirsKept, MoveStep

\* A process ends.
LEMMA KillStep ==
    ASSUME IInv, NEW p \in Pids, Kill(p)
    PROVE  IInv'
<1>1. /\ stage[p] \in {"user", "call", "done"} /\ stage' = [stage EXCEPT ![p] = "dead"]
      /\ stage' \in [Pids -> Stages]
      /\ cur' = [cur EXCEPT ![p] = NoCall] /\ rval' = [rval EXCEPT ![p] = Failed]
      /\ close_rec' = [close_rec EXCEPT ![p] = Null]
      /\ UNCHANGED <<exec_mode, prov_mode, calls, down, left, grp, entry, parent, tcb, opened,
                     behind>>
  BY Types DEF Kill, modes, Stages
<1>2. \A q \in Pids : grp[q] \in Pids
  BY Types
<1>3. /\ cwd' \in [Pids -> Dirs \cup {Null}] /\ prog' \in [Pids -> Programs \cup {Null}]
      /\ \A q \in Pids \ {p} : Alive(q) =>
             cwd'[grp[q]] = cwd[grp[q]] /\ prog'[grp[q]] = prog[grp[q]]
  <2>1. CASE Group(p) = {p}
    <3>1. \A q \in Pids \ {p} : Alive(q) => grp[q] # grp[p]
      BY <2>1 DEF Group
    <3>2. QED
      BY <1>2, <2>1, <3>1 DEF Kill, IInv, TypeOK
  <2>2. CASE Group(p) # {p}
    BY <2>2 DEF Kill, IInv, TypeOK
  <2>3. QED
    BY <2>1, <2>2
<1>4. /\ fds' \in [Pids -> [Fds -> {Unused, Other} \cup [by : Pids, path : Dirs]]]
      /\ \A q \in Pids, g \in Fds : fds'[q][g] = fds[q][g] \/ fds'[q][g].by \notin Pids
  <2>1. Unused.by \notin Pids
    BY NullAssumption DEF Unused
  <2>2. \/ fds' = fds
        \/ fds' = [fds EXCEPT ![grp[p]] = [f \in Fds |-> Unused]]
    BY DEF Kill
  <2>3. fds \in [Pids -> [Fds -> {Unused, Other} \cup [by : Pids, path : Dirs]]]
    BY DEF IInv, TypeOK
  <2>4. \A q \in Pids : fds'[q] = fds[q] \/ fds'[q] = [f \in Fds |-> Unused]
    BY <1>2, <2>2, <2>3
  <2>5. \A q \in Pids, g \in Fds : fds'[q][g] = fds[q][g] \/ fds'[q][g] = Unused
    BY <2>4
  <2>6. fds' \in [Pids -> [Fds -> {Unused, Other} \cup [by : Pids, path : Dirs]]]
    BY <1>2, <2>2, <2>3, SMT
  <2>7. QED
    BY <2>1, <2>5, <2>6
<1>5. TypeOK'
  BY <1>1, <1>3, <1>4 DEF IInv, TypeOK, Stages, Names
<1>6. Moves(p)
  <2>1. \A q \in Pids, g \in Fds : fds'[grp[q]][g].by = q => fds'[grp[q]][g] = fds[grp[q]][g]
    BY <1>2, <1>4
  <2>2. \A q \in Pids \ {p} : /\ stage'[q] = stage[q] /\ cur'[q] = cur[q]
                              /\ rval'[q] = rval[q] /\ close_rec'[q] = close_rec[q]
    BY <1>1 DEF IInv, TypeOK
  <2>3. stage'[p] = "dead"
    BY <1>1, Types
  <2>4. QED
    BY <1>1, <1>3, <2>1, <2>2, <2>3 DEF Moves, SameMode, Same
<1>7. stage'[p] = "dead" /\ cur'[p] = NoCall /\ "early" \notin behind[p]
  BY <1>1, NotEarly DEF IInv, TypeOK, Kill
<1>8. Known(p)' /\ ~Executes(p, {"call", "done"})' /\ StaysEarly(p)
  BY <1>1, <1>7, IdleKnown DEF Executes, Running, StaysEarly
<1>9. \A q \in Pids : Alive(q)' => cwd'[grp[q]] \in Dirs
  <2>1. \A q \in Pids : Alive(q)' => Alive(q) /\ q # p
    BY <1>6, <1>7 DEF Moves, Same, Alive, Running
  <2>2. QED
    BY <1>3, <2>1 DEF IInv, Groups
<1>10. QED
  BY <1>4, <1>5, <1>6, <1>8, <1>9, MoveStep
=============================================================================
