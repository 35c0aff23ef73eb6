----------------------------- MODULE TcbFields ------------------------------
(***************************************************************************)
(* What the tracer remembers of each traced process in its table entry, by *)
(* alloc_tcb_cde_fields and CDE_init_tcb_dir_fields of strace-4.6/cde.c:   *)
(* the working directory, the options of an ignored program, the program   *)
(* that /proc/self/exe names, and the paths of the files it opened.        *)
(*                                                                         *)
(* The kernel holds the truth: a directory and descriptors for each group  *)
(* of threads, and the program the group runs.  The tracer sees a call     *)
(* only at its entry and at its exit; between the two the kernel performs  *)
(* it and other processes go on.  Entries of dead processes are recycled,  *)
(* and a child may stop before or after the fork event of its parent.  One *)
(* that stops first is held; but the end of another process, whose parent  *)
(* pointer is stale, may let it run before anything is set for it.         *)
(*                                                                         *)
(* Left out: a child that ends, or is let go, before the fork event of its *)
(* parent is handled (TcbTable has that), clone with CLONE_PARENT and      *)
(* vfork by a thread, which give a child another parent (TcbTable too),    *)
(* and an execve by a process that has several threads.                    *)
(***************************************************************************)
EXTENDS Integers, FiniteSets

CONSTANTS
    Pids,       \* process and thread ids, each used at most once
    Root,       \* the process started by startup_child
    Dirs,       \* directories
    Fds,        \* descriptors, all below max_open_files()
    Programs,   \* programs that execve names
    KindOf,     \* how CDE_begin_execve treats each of them, by KindAssumption
    ExeOf,      \* the executable each runs: itself, or the interpreter of a script
    Modes,      \* what to start in: Cde_exec_mode, Prov_prov_mode, the calls that programs
                \* make, and how many of them they make, and how many children, in all
    Null        \* the null pointer

Kinds == {"loader",     \* run through the dynamic loader of the package
          "direct",     \* run as it is: static, ignored, or missing in the package
          "ignores",    \* named in process_ignores
          "tracer"}     \* another cde or ptu

Ops == {"chdir",    \* chdir, fchdir
        "getcwd",
        "open",     \* open, openat, of a relative name
        "dup",      \* any other call that makes a descriptor
        "close",
        "execve"}

ASSUME KindAssumption == KindOf \in [Programs -> Kinds] /\ ExeOf \in [Programs -> Programs]
ASSUME FieldsAssumption ==
    /\ Root \in Pids /\ IsFiniteSet(Pids)
    /\ Modes \subseteq BOOLEAN \X BOOLEAN \X (SUBSET Ops) \X Nat \X Nat
ASSUME NullAssumption == Null \notin Dirs \cup Programs \cup Pids

VARIABLES
    exec_mode,  \* Cde_exec_mode
    prov_mode,  \* Prov_prov_mode
    calls,      \* the calls that programs make
    down,       \* the tracer has died, of an assertion or a null pointer
    left,       \* how many more of them, and how many more children, they make
    \* the kernel, by process or by leader of a thread group
    stage,      \* where each process is
    grp,        \* the leader of its thread group
    cwd,        \* working directory of the group
    fds,        \* descriptors of the group
    prog,       \* the program that the group last executed
    cur,        \* the call that a process is in
    rval,       \* what the call returned, once it is performed
    \* the tracer
    entry,      \* the entry of each process in the table, or 0
    parent,     \* the entry that the parent pointer of each entry leads to, or 0
    tcb,        \* the fields of each entry
    close_rec,  \* the path in the CLOSE record of the call that a process is in
    \* history
    opened,     \* the descriptors that the open records of a process are about
    behind      \* what the tracer's fields for a process are known to miss, and whether it
                \* was let run before its fork event: "early"

modes == <<exec_mode, prov_mode, calls, down>>
kernel == <<grp, cwd, fds, prog>>
vars == <<modes, left, stage, kernel, cur, rval, entry, parent, tcb, close_rec, opened, behind>>

Entries == 1 .. Cardinality(Pids)

\* A descriptor: unused, of no known origin, or opened by a process with a path.
Unused == [by |-> Null, path |-> "unused"]
Other == [by |-> Null, path |-> "other"]

NoCall == [op |-> "none"]
Calls ==
    [op : {"chdir"}, dir : Dirs] \cup [op : {"open"}, base : {"cwd", "descriptor"}]
    \cup [op : {"close"}, fd : Fds] \cup [op : {"execve"}, prog : Programs]
    \cup [op : {"getcwd", "dup"}]

Failed == "error"

\* An error is told from a descriptor and from a directory that a call returns.
ASSUME FailedAssumption == Failed \notin Dirs \cup Fds

Running == {"user", "call", "event", "done"}
Alive(p) == stage[p] \in Running \cup {"new", "held"}
Group(p) == {q \in Pids : grp[q] = grp[p] /\ Alive(q)}

Single(p) == grp[p] = p /\ Group(p) = {p}

\* The entry has been used by nobody yet.
Blank == [current_dir |-> Null, p_ignores |-> Null, perceived_program_fullpath |-> Null,
          opened_file_paths |-> [f \in Fds |-> Null]]

Init ==
    /\ \E m \in Modes : exec_mode = m[1] /\ prov_mode = m[2] /\ calls = m[3]
                     /\ left = [calls |-> m[4], clones |-> m[5]]
    /\ down = FALSE
    /\ stage = [p \in Pids |-> IF p = Root THEN "user" ELSE "unused"]
    /\ grp = [p \in Pids |-> p]
    /\ \E d \in Dirs :
        /\ cwd = [p \in Pids |-> IF p = Root THEN d ELSE Null]
        /\ tcb = [e \in Entries |-> [Blank EXCEPT !.current_dir = IF e = 1 THEN d ELSE Null]]
    /\ fds = [p \in Pids |-> [f \in Fds |-> Unused]]
    /\ prog = [p \in Pids |-> Null]
    /\ cur = [p \in Pids |-> NoCall]
    /\ rval = [p \in Pids |-> Failed]
    /\ entry = [p \in Pids |-> IF p = Root THEN 1 ELSE 0]
    /\ parent = [e \in Entries |-> 0]
    /\ close_rec = [p \in Pids |-> Null]
    /\ opened = [p \in Pids |-> {}]
    /\ behind = [p \in Pids |-> {}]
-----------------------------------------------------------------------------
(* Table entries. *)

\* alloc_tcb takes the first entry that is not in use.
FirstFree ==
    LET free == Entries \ {entry[p] : p \in Pids}
    IN  CHOOSE e \in free : \A f \in free : e <= f

\* Mutant: the array of paths of the last user of the entry is kept.
alloc_tcb_cde_fields_kept(t) == [t EXCEPT !.current_dir = Null, !.p_ignores = Null]

alloc_tcb_cde_fields(t) ==
    [t EXCEPT !.current_dir = Null, !.p_ignores = Null,
              !.opened_file_paths = [f \in Fds |-> Null]]

free_tcb_cde_fields(t) == [t EXCEPT !.current_dir = Null, !.p_ignores = Null]

\* Mutant: the program is not inherited.
CDE_init_tcb_dir_fields_alone(t, u) ==
    [t EXCEPT !.current_dir = u.current_dir, !.p_ignores = u.p_ignores]

\* The fields t of a child, from those of its parent, u.
CDE_init_tcb_dir_fields(t, u) ==
    [t EXCEPT !.current_dir = u.current_dir,
              !.p_ignores = u.p_ignores,
              !.perceived_program_fullpath = IF @ = Null THEN u.perceived_program_fullpath
                                                         ELSE @]

\* The entries that go with that of p: the entry of a leader is kept while its threads have
\* theirs, and dropped with the last of them.
Dropped(p) ==
    LET Threads(l) == {r \in Pids \ {p, l} : grp[r] = l /\ entry[r] # 0} IN
    IF grp[p] = p
    THEN IF Threads(p) = {} THEN {p} ELSE {}
    ELSE {p} \cup {l \in {grp[p]} : stage[l] = "zombie" /\ Threads(l) = {}}

\* resume_from_tcp: the process that is held in the entry which the parent pointer of p's leads
\* to.  That one has no children yet, so the pointer is stale: the parent had the entry before.
\* Whether the waitpid left in the entry matches is not followed here.
Resumable(p) == {q \in Pids : stage[q] = "held" /\ entry[q] = parent[entry[p]]}

\* handle_group_exit and detach: the end of p restarts the processes in rs, and its entry goes.
resume_and_droptcb(p, rs) ==
    LET ps == Dropped(p) IN
    /\ rs \subseteq Resumable(p)
    /\ stage' = [q \in Pids |-> IF q \in ps THEN "gone" ELSE IF q = p THEN "zombie"
                               ELSE IF q \in rs THEN "user" ELSE stage[q]]
    /\ tcb' = [e \in Entries |-> IF \E q \in ps : entry[q] = e THEN free_tcb_cde_fields(tcb[e])
                                                               ELSE tcb[e]]
    /\ entry' = [q \in Pids |-> IF q \in ps THEN 0 ELSE entry[q]]
    /\ parent' = [e \in Entries |-> IF \E q \in ps : entry[q] = e THEN 0 ELSE parent[e]]
    /\ opened' = [q \in Pids |-> IF q \in ps THEN {} ELSE opened[q]]
    /\ behind' = [q \in Pids |-> IF q \in ps THEN {} ELSE IF q \in rs THEN behind[q] \cup {"early"}
                                ELSE behind[q]]
-----------------------------------------------------------------------------
(* The entry of a call: the handler runs, and the process goes on to the kernel. *)

HasDir(p) == tcb[entry[p]].current_dir # Null

\* Handlers that use current_dir at the entry, whatever the name: redirect_filename_into_cderoot
\* and copy_file_into_cde_root for a relative name, extract_sandboxed_pwd for an execve.
UsesDir(c) == (c.op = "open" /\ c.base = "cwd") \/ (c.op = "execve" /\ exec_mode)

Goes(p, c) ==
    /\ UsesDir(c) => HasDir(p)
    /\ left.calls > 0 /\ left' = [left EXCEPT !.calls = @ - 1]
    /\ cur' = [cur EXCEPT ![p] = c]
    /\ stage' = [stage EXCEPT ![p] = "call"]

\* Calls whose handlers change none of the fields at their entry.
Enter(p, c) ==
    /\ stage[p] = "user" /\ c.op \notin {"close", "execve"}
    /\ Goes(p, c)
    /\ UNCHANGED <<modes, kernel, rval, entry, parent, tcb, close_rec, opened, behind>>

\* The record names the path stored for the descriptor, if there is one.
print_close_prov(p, f) ==
    close_rec' = [close_rec EXCEPT ![p] =
                    IF prov_mode THEN tcb[entry[p]].opened_file_paths[f] ELSE Null]

EnterClose(p, c) ==
    /\ stage[p] = "user" /\ c.op = "close"
    /\ print_close_prov(p, c.fd)
    /\ Goes(p, c)
    /\ UNCHANGED <<modes, kernel, rval, entry, parent, tcb, opened, behind>>

\* Mutant: p_ignores is not cleared.
CDE_begin_execve_kept(t, x) ==
    [t EXCEPT
        !.p_ignores = IF exec_mode /\ KindOf[x] = "ignores" THEN ExeOf[x] ELSE @,
        !.perceived_program_fullpath = IF exec_mode /\ KindOf[x] = "loader" THEN ExeOf[x] ELSE @]

\* p_ignores is cleared first; only a program that goes through the loader is remembered.
CDE_begin_execve(t, x) ==
    [t EXCEPT
        !.p_ignores = IF exec_mode /\ KindOf[x] = "ignores" THEN ExeOf[x] ELSE Null,
        !.perceived_program_fullpath = IF exec_mode /\ KindOf[x] = "loader" THEN ExeOf[x] ELSE @]

EnterExecve(p, c) ==
    /\ stage[p] = "user" /\ c.op = "execve" /\ Single(p)
    /\ KindOf[c.prog] # "tracer"
    /\ tcb' = [tcb EXCEPT ![entry[p]] = CDE_begin_execve(@, c.prog)]
    /\ Goes(p, c)
    /\ UNCHANGED <<modes, kernel, rval, entry, parent, close_rec, opened, behind>>

\* A process that executes another tracer is let go, and is no longer traced; every process
\* has TCB_ATTACHED.
DetachTracer(p, c) ==
    /\ stage[p] = "user" /\ c.op = "execve" /\ Single(p)
    /\ KindOf[c.prog] = "tracer" /\ HasDir(p)
    /\ \E rs \in SUBSET Resumable(p) : resume_and_droptcb(p, rs)
    /\ UNCHANGED <<modes, left, kernel, cur, rval, close_rec>>
-----------------------------------------------------------------------------
(* The kernel performs the call; the process stops at the exit of it. *)

Performed(p, r) ==
    /\ rval' = [rval EXCEPT ![p] = r]
    /\ stage' = [stage EXCEPT ![p] = "done"]
    /\ UNCHANGED <<modes, left, grp, cur, entry, parent, tcb, close_rec, opened>>

\* Any of these calls may fail, and then changes nothing.  The tracer has already changed
\* the fields for an execve that fails, in exec mode.
Fail(p) ==
    /\ stage[p] = "call"
    /\ behind' = [behind EXCEPT ![p] = @ \cup
                    IF cur[p].op # "execve" \/ ~exec_mode THEN {}
                    ELSE IF KindOf[cur[p].prog] = "loader" THEN {"ignores", "program"}
                    ELSE {"ignores"}]
    /\ Performed(p, Failed)
    /\ UNCHANGED <<cwd, fds, prog>>

\* The directory changes for the other threads as well, and the tracer is not told of them.
Chdir(p) ==
    /\ stage[p] = "call" /\ cur[p].op = "chdir"
    /\ cwd' = [cwd EXCEPT ![grp[p]] = cur[p].dir]
    /\ behind' = [q \in Pids |-> IF q \in Group(p) \ {p} THEN behind[q] \cup {"dir"}
                                                         ELSE behind[q]]
    /\ Performed(p, "ok")
    /\ UNCHANGED <<fds, prog>>

Getcwd(p) ==
    /\ stage[p] = "call" /\ cur[p].op = "getcwd"
    /\ Performed(p, cwd[grp[p]])
    /\ UNCHANGED <<cwd, fds, prog, behind>>

\* A new descriptor.  The path of a file opened relative to a descriptor, or where the
\* directory of p is not known, is not one that the tracer could find.
NewDescriptor(p, f) ==
    /\ stage[p] = "call" /\ cur[p].op \in {"open", "dup"}
    /\ fds[grp[p]][f] = Unused
    /\ fds' = [fds EXCEPT ![grp[p]][f] =
                 IF cur[p].op = "open" /\ cur[p].base = "cwd" /\ "dir" \notin behind[p]
                 THEN [by |-> p, path |-> cwd[grp[p]]] ELSE Other]
    /\ Performed(p, f)
    /\ UNCHANGED <<cwd, prog, behind>>

Close(p) ==
    /\ stage[p] = "call" /\ cur[p].op = "close"
    /\ fds[grp[p]][cur[p].fd] # Unused
    /\ fds' = [fds EXCEPT ![grp[p]][cur[p].fd] = Unused]
    /\ Performed(p, "ok")
    /\ UNCHANGED <<cwd, prog, behind>>

\* A program that does not go through the loader leaves what was remembered of the last
\* one that did.
Execve(p) ==
    /\ stage[p] = "call" /\ cur[p].op = "execve"
    /\ prog' = [prog EXCEPT ![grp[p]] = cur[p].prog]
    /\ behind' = [behind EXCEPT ![p] = (@ \ {"ignores", "program"}) \cup
                    IF /\ KindOf[cur[p].prog] # "loader"
                       /\ tcb[entry[p]].perceived_program_fullpath # Null
                    THEN {"program"} ELSE {}]
    /\ Performed(p, "ok")
    /\ UNCHANGED <<cwd, fds>>

\* A child is made: a thread, or a process with copies of the directory, the descriptors
\* and the program.  Its parent stops for the fork event.  What the child of a process that
\* has no fields yet will get is not followed.
Clone(p, q, thread) ==
    /\ stage[p] = "user" /\ stage[q] = "unused"
    /\ left.clones > 0 /\ left' = [left EXCEPT !.clones = @ - 1]
    /\ stage' = [stage EXCEPT ![p] = "event", ![q] = "new"]
    /\ rval' = [rval EXCEPT ![p] = q]
    /\ IF thread
       THEN grp' = [grp EXCEPT ![q] = grp[p]] /\ UNCHANGED <<cwd, fds, prog>>
       ELSE /\ cwd' = [cwd EXCEPT ![q] = cwd[grp[p]]]
            /\ fds' = [fds EXCEPT ![q] = fds[grp[p]]]
            /\ prog' = [prog EXCEPT ![q] = prog[grp[p]]]
            /\ UNCHANGED grp
    /\ behind' = [behind EXCEPT ![q] = IF "early" \in behind[p] THEN {"dir", "ignores", "program"}
                                                               ELSE behind[p]]
    /\ UNCHANGED <<modes, cur, entry, parent, tcb, close_rec, opened>>
-----------------------------------------------------------------------------
(* What the tracer does at the stops. *)

\* The child stops before its parent's event was handled: it is held, in an entry that
\* knows nothing.
FirstStop(q) ==
    /\ stage[q] = "new"
    /\ entry' = [entry EXCEPT ![q] = FirstFree]
    /\ parent' = [parent EXCEPT ![FirstFree] = 0]
    /\ tcb' = [tcb EXCEPT ![FirstFree] = alloc_tcb_cde_fields(@)]
    /\ stage' = [stage EXCEPT ![q] = "held"]
    /\ UNCHANGED <<modes, left, kernel, cur, rval, close_rec, opened, behind>>

\* Mutant: the fields of a child that was held are not set.
handle_new_child_held(p) ==
    LET q == rval[p]
        e == IF stage[q] = "new" THEN FirstFree ELSE entry[q]
    IN
    /\ stage[p] = "event" /\ HasDir(p)
    /\ entry' = [entry EXCEPT ![q] = e]
    /\ parent' = [parent EXCEPT ![e] = entry[p]]
    /\ tcb' = IF stage[q] # "new" THEN tcb
              ELSE [tcb EXCEPT ![e] =
                      CDE_init_tcb_dir_fields(alloc_tcb_cde_fields(@), tcb[entry[p]])]
    /\ behind' = [behind EXCEPT ![q] = @ \ {"early"}]
    /\ stage' = [stage EXCEPT ![p] = "user", ![q] = IF @ \in {"new", "held"} THEN "user" ELSE @]
    /\ rval' = [rval EXCEPT ![p] = Failed]
    /\ UNCHANGED <<modes, left, kernel, cur, close_rec, opened>>

\* The fork event of p.  The child has no entry yet, or is held in one, or is found running,
\* "in weird state".  A recycled entry keeps the program of the process that had it.  The child
\* of a thread is made a child of the leader.
handle_new_child(p) ==
    LET q == rval[p]
        e == IF stage[q] = "new" THEN FirstFree ELSE entry[q]
        t == IF stage[q] = "new" THEN alloc_tcb_cde_fields(tcb[e]) ELSE tcb[e]
    IN
    /\ stage[p] = "event" /\ HasDir(p)
    /\ entry' = [entry EXCEPT ![q] = e]
    /\ parent' = [parent EXCEPT ![e] = IF grp[p] # p THEN parent[entry[p]] ELSE entry[p]]
    /\ tcb' = [tcb EXCEPT ![e] = CDE_init_tcb_dir_fields(t, tcb[entry[p]])]
    /\ behind' = [behind EXCEPT ![q] = (@ \ {"early"}) \cup
                    IF t.perceived_program_fullpath = Null THEN {} ELSE {"program"}]
    /\ stage' = [stage EXCEPT ![p] = "user", ![q] = IF @ \in {"new", "held"} THEN "user" ELSE @]
    /\ rval' = [rval EXCEPT ![p] = Failed]
    /\ UNCHANGED <<modes, left, kernel, cur, close_rec, opened>>

\* Handlers that use current_dir at the exit: print_open_prov even after a failure.
UsesDirAtExit(p) ==
    cur[p].op = "open" \/ (cur[p].op \in {"chdir", "getcwd"} /\ rval[p] # Failed)

Leaves(p) ==
    /\ stage[p] = "done" /\ (UsesDirAtExit(p) => HasDir(p))
    /\ stage' = [stage EXCEPT ![p] = "user"]
    /\ cur' = [cur EXCEPT ![p] = NoCall]
    /\ rval' = [rval EXCEPT ![p] = Failed]
    /\ close_rec' = [close_rec EXCEPT ![p] = Null]
    /\ UNCHANGED <<modes, left, kernel, entry, parent>>

\* Mutant: takes the argument of the call.
CDE_end_fchdir_arg(p) ==
    /\ cur[p].op = "chdir" /\ rval[p] # Failed
    /\ tcb' = [tcb EXCEPT ![entry[p]].current_dir = cur[p].dir]
    /\ behind' = [behind EXCEPT ![p] = @ \ {"dir"}]
    /\ UNCHANGED opened
    /\ Leaves(p)

\* Reads the directory from the kernel at the exit, not the argument of the call.
CDE_end_fchdir(p) ==
    /\ cur[p].op = "chdir" /\ rval[p] # Failed
    /\ tcb' = [tcb EXCEPT ![entry[p]].current_dir = cwd[grp[p]]]
    /\ behind' = [behind EXCEPT ![p] = @ \ {"dir"}]
    /\ UNCHANGED opened
    /\ Leaves(p)

\* Mutant: the result is not tested.
CDE_end_getcwd_untested(p) ==
    /\ cur[p].op = "getcwd" /\ ~exec_mode
    /\ tcb' = [tcb EXCEPT ![entry[p]].current_dir = rval[p]]
    /\ behind' = [behind EXCEPT ![p] = IF rval[p] = cwd[grp[p]] THEN @ \ {"dir"} ELSE @]
    /\ UNCHANGED opened
    /\ Leaves(p)

\* Takes what the call returned, in audit mode.
CDE_end_getcwd(p) ==
    /\ cur[p].op = "getcwd" /\ rval[p] # Failed /\ ~exec_mode
    /\ tcb' = [tcb EXCEPT ![entry[p]].current_dir = rval[p]]
    /\ behind' = [behind EXCEPT ![p] = IF rval[p] = cwd[grp[p]] THEN @ \ {"dir"} ELSE @]
    /\ UNCHANGED opened
    /\ Leaves(p)

\* The path is made absolute with current_dir, also for openat with a descriptor.
print_open_prov(p) ==
    LET t == tcb[entry[p]] IN
    /\ cur[p].op = "open" /\ rval[p] # Failed /\ prov_mode
    /\ tcb' = [tcb EXCEPT ![entry[p]].opened_file_paths[rval[p]] = t.current_dir]
    /\ opened' = [opened EXCEPT ![p] = @ \cup {rval[p]}]
    /\ UNCHANGED behind
    /\ Leaves(p)

\* The other exits change none of the fields.
Exit(p) ==
    /\ \/ rval[p] = Failed
       \/ cur[p].op \in {"close", "dup", "execve"}
       \/ cur[p].op = "getcwd" /\ exec_mode
       \/ cur[p].op = "open" /\ ~prov_mode
    /\ UNCHANGED <<tcb, opened, behind>>
    /\ Leaves(p)

\* The tracer dies where a handler uses current_dir of an entry that has none, at the entry of
\* a call (a chdir or an execve may also have an absolute name), at the exit of one, or at the
\* fork event of a child that has children itself.
Abort(p) ==
    /\ stage[p] \in Running /\ ~HasDir(p)
    /\ \/ stage[p] = "user" /\ left.calls > 0 /\ calls \cap {"chdir", "open", "execve"} # {}
       \/ stage[p] = "done" /\ UsesDirAtExit(p)
       \/ stage[p] = "event"
    /\ down' = TRUE
    /\ UNCHANGED <<exec_mode, prov_mode, calls, left, stage, kernel, cur, rval, entry, parent, tcb,
                   close_rec, opened, behind>>

\* A process ends; with the last thread of it, its directory and descriptors.
Kill(p) ==
    /\ stage[p] \in {"user", "call", "done"} /\ HasDir(p)
    /\ stage' = [stage EXCEPT ![p] = "dead"]
    /\ cur' = [cur EXCEPT ![p] = NoCall]
    /\ rval' = [rval EXCEPT ![p] = Failed]
    /\ close_rec' = [close_rec EXCEPT ![p] = Null]
    /\ IF Group(p) = {p}
       THEN /\ cwd' = [cwd EXCEPT ![grp[p]] = Null]
            /\ fds' = [fds EXCEPT ![grp[p]] = [f \in Fds |-> Unused]]
            /\ prog' = [prog EXCEPT ![grp[p]] = Null]
       ELSE UNCHANGED <<cwd, fds, prog>>
    /\ UNCHANGED <<modes, left, grp, entry, parent, tcb, opened, behind>>

\* The tracer learns of the end.
Reap(p) ==
    /\ stage[p] = "dead"
    /\ \E rs \in SUBSET Resumable(p) : resume_and_droptcb(p, rs)
    /\ UNCHANGED <<modes, left, kernel, cur, rval, close_rec>>

ProcessStep(p) ==
    \/ \E c \in {x \in Calls : x.op \in calls} :
           Enter(p, c) \/ EnterClose(p, c) \/ EnterExecve(p, c) \/ DetachTracer(p, c)
    \/ \E q \in Pids, thread \in BOOLEAN : Clone(p, q, thread)
    \/ Fail(p) \/ Chdir(p) \/ Getcwd(p) \/ Close(p) \/ Execve(p)
    \/ \E f \in Fds : NewDescriptor(p, f)
    \/ Kill(p)

TracerStep(p) ==
    \/ FirstStop(p) \/ handle_new_child(p)
    \/ CDE_end_fchdir(p) \/ CDE_end_getcwd(p) \/ print_open_prov(p) \/ Exit(p)
    \/ Reap(p) \/ Abort(p)

\* trace returns once no process is left.
Over == (down \/ \A p \in Pids : entry[p] = 0 /\ ~Alive(p)) /\ UNCHANGED vars

Next == Over \/ (~down /\ \E p \in Pids : ProcessStep(p) \/ TracerStep(p))

Spec == Init /\ [][Next]_vars
-----------------------------------------------------------------------------
Names == Pids \cup {"ok", Failed} \cup Dirs \cup Fds

TypeOK ==
    /\ exec_mode \in BOOLEAN /\ prov_mode \in BOOLEAN /\ down \in BOOLEAN
    /\ calls \subseteq Ops /\ left \in [calls : Nat, clones : Nat]
    /\ stage \in [Pids -> Running \cup {"unused", "new", "held", "dead", "zombie", "gone"}]
    /\ grp \in [Pids -> Pids]
    /\ cwd \in [Pids -> Dirs \cup {Null}]
    /\ fds \in [Pids -> [Fds -> {Unused, Other} \cup [by : Pids, path : Dirs]]]
    /\ prog \in [Pids -> Programs \cup {Null}]
    /\ cur \in [Pids -> Calls \cup {NoCall}]
    /\ rval \in [Pids -> Names]
    /\ entry \in [Pids -> Entries \cup {0}]
    /\ parent \in [Entries -> Entries \cup {0}]
    /\ tcb \in [Entries -> [current_dir : Dirs \cup {Null},
                            p_ignores : Programs \cup {Null},
                            perceived_program_fullpath : Programs \cup {Null},
                            opened_file_paths : [Fds -> Dirs \cup {Null}]]]
    /\ close_rec \in [Pids -> Dirs \cup {Null}]
    /\ opened \in [Pids -> SUBSET Fds]
    /\ behind \in [Pids -> SUBSET {"dir", "ignores", "program", "early"}]

\* p runs, its fork event is handled, and it is in none of the given calls.
Outside(p, ops) ==
    /\ stage[p] \in Running /\ "early" \notin behind[p]
    /\ ~(stage[p] \in {"call", "done"} /\ cur[p].op \in ops)

\* current_dir is the directory of every process whose fork event is handled, up to the exit of
\* its own chdir, unless another thread of it has moved, or it was made by a process that ran
\* before its own fork event: through fork, recycled entries, children that are held or found
\* running, and failed calls (CDE_end_fchdir, CDE_init_tcb_dir_fields).
DirCurrent ==
    \A p \in Pids :
        Outside(p, {"chdir"}) /\ "dir" \notin behind[p] => tcb[entry[p]].current_dir = cwd[grp[p]]

\* In exec mode p_ignores belongs to the program that the process runs, unless an execve of
\* the process failed since (CDE_begin_execve clears it before the result is known).
IgnoresCurrent ==
    \A p \in Pids :
        Outside(p, {"execve"}) /\ exec_mode /\ "ignores" \notin behind[p] =>
            tcb[entry[p]].p_ignores =
                IF prog[grp[p]] # Null /\ KindOf[prog[grp[p]]] = "ignores"
                THEN ExeOf[prog[grp[p]]] ELSE Null

\* In exec mode perceived_program_fullpath, which readlink gives for /proc/self/exe, is the
\* executable of a process that goes through the loader, and not set for another, unless an
\* execve failed, a program that does not go through the loader followed one that does, or
\* the entry was that of a dead process.
ExeCurrent ==
    \A p \in Pids :
        Outside(p, {"execve"}) /\ exec_mode /\ "program" \notin behind[p] =>
            tcb[entry[p]].perceived_program_fullpath =
                IF prog[grp[p]] # Null /\ KindOf[prog[grp[p]]] = "loader"
                THEN ExeOf[prog[grp[p]]] ELSE Null

\* A CLOSE record names the file that the process itself opened at the descriptor, when the
\* descriptor closed is one it opened; and there is none for a descriptor at which it never
\* opened a file (print_close_prov).
CloseNamesOpen ==
    \A p \in Pids : stage[p] = "call" /\ cur[p].op = "close" /\ prov_mode =>
        /\ fds[grp[p]][cur[p].fd].by = p => close_rec[p] = fds[grp[p]][cur[p].fd].path
        /\ close_rec[p] # Null => cur[p].fd \in opened[p]

\* What the assertions of CDE_init_tcb_dir_fields say of child and parent.  A process runs with
\* its directory set, in an entry of its own, unless it is a child that resume_from_tcp let run
\* before the fork event of its parent, which is still to come.  Nothing is set for such a
\* child, nor for one that is held.  Only on account of such a child does the tracer die where
\* it uses current_dir.
Prepared ==
    /\ \A p \in Pids : stage[p] \in Running =>
            entry[p] # 0 /\ ("early" \notin behind[p] => tcb[entry[p]].current_dir # Null)
    /\ \A p \in Pids : stage[p] = "held" \/ "early" \in behind[p] =>
            /\ tcb[entry[p]].current_dir = Null /\ tcb[entry[p]].p_ignores = Null
            /\ \E r \in Pids : stage[r] = "event" /\ rval[r] = p
    /\ \A p, q \in Pids : p # q /\ entry[p] # 0 => entry[p] # entry[q]
    /\ down => \E p \in Pids : "early" \in behind[p]
=============================================================================
