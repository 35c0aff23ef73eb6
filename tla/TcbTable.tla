------------------------------ MODULE TcbTable ------------------------------
(***************************************************************************)
(* The table of traced processes of strace-4.6/strace.c, with the handlers *)
(* of process.c that keep it: allocation and expansion, the association of *)
(* a child with its parent, the suspension of a parent that waits, thread  *)
(* group leaders kept as zombies, detaching and dropping.                  *)
(*                                                                         *)
(* One iteration of trace() handles one status that wait4 returned; it is  *)
(* one action here, since the tracer is sequential and the process it      *)
(* handles is stopped.  What is not sequential is the order in which the   *)
(* statuses of different processes arrive: a child's first stop may come   *)
(* before or after the fork event of its parent, and a process may be      *)
(* killed in any state.                                                    *)
(***************************************************************************)
EXTENDS Integers, FiniteSets

CONSTANTS
    Pids,       \* process and thread ids, each used at most once
    Root,       \* the process started by startup_child
    NoPid,      \* pid of an unused table entry
    Null,       \* the null pointer to an entry
    AnyPid,     \* the -1 of waitpid: any child
    FirstSize,  \* initial tcbtabsize
    Kinds,      \* the ways to create a process that the program uses
    Signals,    \* whether fatal signals may hit the traced processes
    Strangers   \* whether programs wait for pids that are not their children

AllKinds == {"fork",        \* clone without the two flags below
             "vfork",       \* the vfork system call, handled by sys_vfork
             "thread",      \* clone with CLONE_THREAD
             "parent"}      \* clone with CLONE_PARENT

ASSUME RootAssumption == Root \in Pids /\ IsFiniteSet(Pids)
ASSUME NoneAssumption == NoPid \notin Pids /\ AnyPid \notin Pids /\ Null \notin Nat
ASSUME SizeAssumption == FirstSize \in Nat \ {0}
ASSUME KindsAssumption == Kinds \subseteq AllKinds /\ {Signals, Strangers} \subseteq BOOLEAN

VARIABLES
    tab,        \* tcbtab: the entries, tcbtabsize of them
    nprocs,     \* number of entries in use, as the tracer counts them
    task,       \* the kernel's state of each process
    event,      \* the child that a process at its fork event created, and how
    leader,     \* thread group of each process, named by its leader
    ppid,       \* the kernel's parent of each thread group
    exit_code,  \* whether the exit code is still 0 or was taken from Root's death
    over        \* trace() has returned and cleanup() has run

table == <<tab, nprocs>>
family == <<event, leader, ppid>>
vars == <<tab, nprocs, task, event, leader, ppid, exit_code, over>>
-----------------------------------------------------------------------------
\* "born": stopped at its start, not reported yet.  "heldborn": reported and not
\* restarted.  "fork": stopped at its fork event, not reported yet.  "heldwait":
\* stopped on entry to wait4 and not restarted.  "inwait": inside wait4.
\* "died": killed, not reported to the tracer yet.  "gone": detached, or its death
\* was reported.  "reaped": waited for by its parent.
TaskStates == {"unborn", "born", "heldborn", "run", "fork", "heldwait", "inwait",
               "died", "gone", "reaped"}

\* Tasks whose next stop or death wait4 will report to the tracer.
Traced == TaskStates \ {"unborn", "gone", "reaped"}

Slots == DOMAIN tab
InUse == {s \in Slots : tab[s].pid # NoPid}

\* pid2tcb.
Tcb(p) == IF \E s \in Slots : tab[s].pid = p
          THEN CHOOSE s \in Slots : tab[s].pid = p
          ELSE Null

HasTcb(p) == \E s \in Slots : tab[s].pid = p

\* An entry fresh from calloc; a waitpid of 0 counts as waiting for any child.
Unused == [pid |-> NoPid, parent |-> Null, nchildren |-> 0, nzombies |-> 0,
           nthreads |-> 0, nwaiting |-> 0, waitpid |-> AnyPid,
           thread |-> FALSE, exiting |-> FALSE, suspended |-> FALSE]

NoEvent == [child |-> NoPid, kind |-> "none"]

Least(S) == CHOOSE s \in S : \A r \in S : s <= r

\* The two variables the table's functions work on, as one value.
Table == [tab |-> tab, n |-> nprocs]
Store(t) == tab' = t.tab /\ nprocs' = t.n
-----------------------------------------------------------------------------
\* alloc_tcb and expand_tcbtab: the table doubles when the count says it is full,
\* and the first free entry is taken; its waitpid is left as it was.
Expanded(t) ==
    LET size == Cardinality(DOMAIN t.tab) IN
    IF t.n = size
    THEN [s \in 0 .. 2 * size - 1 |-> IF s < size THEN t.tab[s] ELSE Unused]
    ELSE t.tab

FreeSlot(t) == Least({s \in DOMAIN Expanded(t) : Expanded(t)[s].pid = NoPid})

Alloc(t, p, held) ==
    [tab |-> [Expanded(t) EXCEPT ![FreeSlot(t)] =
                 [Unused EXCEPT !.pid = p, !.suspended = held,
                                !.waitpid = Expanded(t)[FreeSlot(t)].waitpid]],
     n |-> t.n + 1]

\* droptcb goes on from a thread to its parent when it was the last thread of a zombie.
LastOfZombie(tb, r) ==
    /\ tb[r].thread
    /\ LET q == tb[r].parent IN
       tb[q].pid # NoPid /\ tb[q].nthreads = 1 /\ tb[q].exiting

\* The entries that droptcb(s), which calls itself, frees: the smallest set that has s
\* and the parent of each last thread in it.
Dropped(tb, s) ==
    LET S == {s} \cup {r \in DOMAIN tb : tb[r].pid # NoPid /\ tb[r].exiting}
        Closed(X) == s \in X /\ \A r \in X : LastOfZombie(tb, r) => tb[r].parent \in X
    IN  IF ~LastOfZombie(tb, s) THEN {s}
        ELSE {r \in S : \A X \in SUBSET S : Closed(X) => r \in X}

\* Mutant: the count of threads is not kept.
LoseProcesses(e, children, threads) ==
    [e EXCEPT !.nchildren = @ - children, !.nzombies = @ + children]

\* droptcb updates the counters of a parent, whatever the parent pointer of the entry
\* that goes now points at.
LoseChildren(e, children, threads) ==
    [e EXCEPT !.nchildren = @ - children,
              !.nthreads = @ - threads,
              !.nzombies = @ + children]

Clear(e) ==
    [e EXCEPT !.pid = NoPid, !.parent = Null, !.thread = FALSE,
              !.exiting = FALSE, !.suspended = FALSE]

\* The entry q without its children among the entries D.
Bereaved(tb, q, D) ==
    LoseChildren(tb[q], Cardinality({r \in D : tb[r].parent = q}),
                 Cardinality({r \in D : tb[r].thread /\ tb[r].parent = q}))

Freed(t, D) ==
    [tab |-> [r \in DOMAIN t.tab |-> IF r \in D THEN Clear(Bereaved(t.tab, r, D))
                                                ELSE Bereaved(t.tab, r, D)],
     n |-> t.n - Cardinality(D)]

\* The entry of a leader whose threads are left becomes a zombie.
Linger(e) == [e EXCEPT !.exiting = TRUE]

\* Mutant: an entry that was dropped already is dropped again.
DropTwice(t, s) ==
    IF t.tab[s].nthreads > 0 THEN [t EXCEPT !.tab[s] = Linger(@)]
    ELSE Freed(t, Dropped(t.tab, s))

\* Mutant: a leader does not wait for its threads.
DropNow(t, s) ==
    IF t.tab[s].pid = NoPid THEN t ELSE Freed(t, Dropped(t.tab, s))

\* droptcb: a leader whose threads are left is kept as a zombie, another entry is
\* freed, and the last thread to go takes the zombie of its leader with it.
Drop(t, s) ==
    IF t.tab[s].pid = NoPid THEN t
    ELSE IF t.tab[s].nthreads > 0 THEN [t EXCEPT !.tab[s] = Linger(@)]
    ELSE Freed(t, Dropped(t.tab, s))

\* resume_from_tcp: the entries that the end of s resumes.
WaitingThreads(tb, s) ==
    {r \in DOMAIN tb \ {s} : tb[r].parent = tb[s].parent /\ tb[r].thread /\ tb[r].suspended}

Woken(tb, s) ==
    LET q == tb[s].parent
        parent == IF tb[q].suspended /\ tb[q].waitpid \in {AnyPid, tb[s].pid}
                  THEN {q} ELSE {}
        specific == {r \in WaitingThreads(tb, s) : tb[r].waitpid = tb[s].pid}
        wild == {r \in WaitingThreads(tb, s) : tb[r].waitpid = AnyPid}
    IN  IF q = Null THEN {}
        ELSE IF tb[q].nwaiting <= 0 THEN parent
        ELSE IF parent \cup specific # {} THEN parent \cup specific
        ELSE IF wild # {} THEN {Least(wild)}
        ELSE {}

\* Mutant: nclone_waiting is not decremented.
ResumeUncounted(tb, woken) ==
    [s \in DOMAIN tb |-> [tb[s] EXCEPT !.suspended = @ /\ s \notin woken]]

\* resume, for each of a set of entries.
Release(e, woken, threads) ==
    [e EXCEPT !.suspended = @ /\ ~woken, !.nwaiting = @ - threads]

Resume(tb, woken) ==
    [s \in DOMAIN tb |->
       Release(tb[s], s \in woken,
               Cardinality({r \in woken : tb[r].thread /\ tb[r].parent = s}))]

\* handle_group_exit for a process that has died.
Leave(t, s) == Drop([t EXCEPT !.tab = Resume(@, Woken(@, s))], s)

\* detach: a leader that lingers only because of this thread goes as well (droptcb
\* has already seen to it, and finds its pid cleared).
Detach(t, s) ==
    LET q == t.tab[s].parent IN
    IF t.tab[s].thread /\ t.tab[q].nthreads = 1 /\ t.tab[q].exiting
    THEN Drop(Leave(t, s), q)
    ELSE Leave(t, s)

\* What the kernel does with the processes that a PTRACE_SYSCALL restarts.
Restart(tk, pids) ==
    [p \in Pids |-> IF p \notin pids THEN tk[p]
                    ELSE CASE tk[p] = "heldborn" -> "run"
                           [] tk[p] = "heldwait" -> "inwait"
                           [] OTHER -> tk[p]]

WokenPids(s) == {tab[r].pid : r \in Woken(tab, s)}
-----------------------------------------------------------------------------
Init ==
    /\ tab = [[s \in 0 .. FirstSize - 1 |-> Unused] EXCEPT ![0].pid = Root]
    /\ nprocs = 1
    /\ task = [p \in Pids |-> IF p = Root THEN "run" ELSE "unborn"]
    /\ event = [p \in Pids |-> NoEvent]
    /\ leader = [p \in Pids |-> p]
    /\ ppid = [p \in Pids |-> NoPid]
    /\ exit_code = "zero"
    /\ over = FALSE

\* Kernel: p creates c, which stops at once; p stops at its fork event.
ForkCall(p, c, k) ==
    /\ task[p] = "run" /\ task[c] = "unborn"
    /\ task' = [task EXCEPT ![p] = "fork", ![c] = "born"]
    /\ event' = [event EXCEPT ![p] = [child |-> c, kind |-> k]]
    /\ leader' = [leader EXCEPT ![c] = IF k = "thread" THEN leader[p] ELSE c]
    /\ ppid' = [ppid EXCEPT ![c] = IF k = "parent" THEN ppid[leader[p]] ELSE leader[p]]
    /\ UNCHANGED <<table, exit_code, over>>

\* trace: the first stop of c.  A process that is not in the table is entered as
\* suspended, until its parent's event tells whose child it is.
FirstStop(c) ==
    /\ task[c] = "born"
    /\ IF HasTcb(c)
       THEN task' = [task EXCEPT ![c] = "run"] /\ UNCHANGED table
       ELSE task' = [task EXCEPT ![c] = "heldborn"] /\ Store(Alloc(Table, c, TRUE))
    /\ UNCHANGED <<family, exit_code, over>>

\* Mutant: the child's first stop may have created its entry.
AttachedAnew(t, c) == Alloc(t, c, FALSE)

\* handle_new_child: the entry of the child c, created if need be.
Attached(t, c) ==
    IF \E r \in DOMAIN t.tab : t.tab[r].pid = c THEN t ELSE Alloc(t, c, FALSE)

\* The entry that handle_new_child makes the parent, before CLONE_PARENT: a clone by
\* a thread is associated with the thread's leader, a vfork is not.
NewParent(tb, s, k) ==
    IF k # "vfork" /\ tb[s].thread /\ tb[s].parent # Null THEN tb[s].parent ELSE s

FinalParent(tb, s, k) ==
    IF k = "parent" THEN tb[NewParent(tb, s, k)].parent ELSE NewParent(tb, s, k)

Adopt(e, q, thread) == [e EXCEPT !.parent = q, !.suspended = FALSE, !.thread = thread]

GainChild(e, thread) ==
    [e EXCEPT !.nchildren = @ + 1, !.nthreads = @ + (IF thread THEN 1 ELSE 0)]

\* The child in entry r gets the parent q, and q counts it.
Linked(tb, r, q, thread) ==
    LET adopted == [tb EXCEPT ![r] = Adopt(@, q, thread)] IN
    IF q = Null THEN adopted
    ELSE [adopted EXCEPT ![q] = GainChild(@, thread)]

AddChild(t, s, c, k) ==
    LET u == Attached(t, c)
        r == CHOOSE x \in DOMAIN u.tab : u.tab[x].pid = c
    IN  [u EXCEPT !.tab = Linked(@, r, FinalParent(@, s, k), k = "thread")]

\* handle_ptrace_event: p reports its fork event and both processes go on.
ForkEvent(p) ==
    /\ task[p] = "fork"
    /\ Store(AddChild(Table, Tcb(p), event[p].child, event[p].kind))
    /\ task' = Restart([task EXCEPT ![p] = "run"], {event[p].child})
    /\ event' = [event EXCEPT ![p] = NoEvent]
    /\ UNCHANGED <<leader, ppid, exit_code, over>>

\* internal_wait on entry: whether p, which calls waitpid(w), is made to block.
Family(s) == IF tab[s].thread THEN tab[s].parent ELSE s

GotKids(s) == tab[Family(s)].nchildren > tab[Family(s)].nthreads

WaitsForNone(s, w) ==
    \/ tab[s].nzombies > 0 /\ (w = AnyPid \/ ~HasTcb(w))
    \/ /\ w # AnyPid
       /\ \/ ~HasTcb(w)
          \/ tab[Tcb(w)].parent # Family(s)
          \/ tab[Tcb(w)].exiting

Blocks(s, w) == GotKids(s) /\ ~WaitsForNone(s, w)

Hold(e, w) == [e EXCEPT !.suspended = TRUE, !.waitpid = w]

Suspend(s, w) ==
    LET held == [tab EXCEPT ![s] = Hold(@, w)] IN
    IF tab[s].thread
    THEN [held EXCEPT ![tab[s].parent].nwaiting = @ + 1]
    ELSE held

Awaited(p) ==
    {AnyPid} \cup {c \in Pids : Strangers \/ ppid[c] = leader[p]}

WaitCall(p, w) ==
    /\ task[p] = "run"
    /\ IF Blocks(Tcb(p), w)
       THEN tab' = Suspend(Tcb(p), w) /\ task' = [task EXCEPT ![p] = "heldwait"]
       ELSE tab' = tab /\ task' = [task EXCEPT ![p] = "inwait"]
    /\ UNCHANGED <<nprocs, family, exit_code, over>>

\* A call with WNOHANG is not made to block.
WaitNoHang(p) ==
    /\ task[p] = "run"
    /\ task' = [task EXCEPT ![p] = "inwait"]
    /\ UNCHANGED <<table, family, exit_code, over>>

\* Mutant: nzombies is not tested.
CountsReapedAlways(p, r) == ~HasTcb(r)

\* internal_wait on return from wait4: it reaped the child r, or it returned no
\* child (an error, or nothing to report under WNOHANG).
CountsReaped(p, r) == tab[Tcb(p)].nzombies > 0 /\ ~HasTcb(r)

WaitReaps(p, r) ==
    /\ task[p] = "inwait"
    /\ task[r] = "gone" /\ leader[r] = r /\ ppid[r] = leader[p]
    /\ tab' = IF CountsReaped(p, r)
              THEN [tab EXCEPT ![Tcb(p)].nzombies = @ - 1] ELSE tab
    /\ task' = [task EXCEPT ![p] = "run", ![r] = "reaped"]
    /\ UNCHANGED <<nprocs, family, exit_code, over>>

WaitFails(p) ==
    /\ task[p] = "inwait"
    /\ task' = [task EXCEPT ![p] = "run"]
    /\ UNCHANGED <<table, family, exit_code, over>>

\* internal_exit of _exit, then detach: p leaves alone.  So does a process whose
\* execve of another tracer CDE_begin_execve lets go.
Exit(p) ==
    /\ task[p] = "run"
    /\ Store(Detach(Table, Tcb(p)))
    /\ task' = Restart([task EXCEPT ![p] = "gone"], WokenPids(Tcb(p)))
    /\ UNCHANGED <<family, exit_code, over>>

Threads(p) == {q \in Pids : leader[q] = leader[p] /\ task[q] \in Traced}

\* internal_exit of exit_group, or a fatal signal without a handler, through
\* handle_group_exit, or a process that is killed while trace_syscall looks at it:
\* p is detached and the other threads of its group die.
GroupExit(p) ==
    /\ task[p] = "run" \/ (Signals /\ task[p] = "inwait")
    /\ Store(Detach(Table, Tcb(p)))
    /\ task' = Restart([q \in Pids |-> IF q = p THEN "gone"
                                       ELSE IF q \in Threads(p) THEN "died"
                                       ELSE task[q]],
                       WokenPids(Tcb(p)))
    /\ UNCHANGED <<family, exit_code, over>>

\* Kernel: SIGKILL ends every thread of p's group, whatever it is doing.
Kill(p) ==
    /\ Signals /\ task[p] \in Traced \ {"died"}
    /\ task' = [q \in Pids |-> IF q \in Threads(p) THEN "died" ELSE task[q]]
    /\ UNCHANGED <<table, family, exit_code, over>>

\* Deaths that wait4 reports to the tracer: those of traced processes, and that of
\* Root, its own child, even after the detach.  A leader's comes after its threads'.
Reportable(p) ==
    /\ task[p] = "died" \/ (p = Root /\ task[p] = "gone")
    /\ p = leader[p] => Threads(p) \subseteq {p}

\* trace: the death of p is reported.  A pid that is not in the table is entered as
\* suspended, and the status of a suspended process is skipped.
Heard(p) == IF HasTcb(p) THEN ~tab[Tcb(p)].suspended ELSE FALSE

Buried(p) ==
    IF ~HasTcb(p) THEN Alloc(Table, p, TRUE)
    ELSE IF Heard(p) THEN Leave(Table, Tcb(p))
    ELSE Table

Death(p) ==
    /\ Reportable(p)
    /\ Store(Buried(p))
    /\ task' = Restart([task EXCEPT ![p] = IF p = Root THEN "reaped" ELSE "gone"],
                       IF Heard(p) THEN WokenPids(Tcb(p)) ELSE {})
    /\ exit_code' = IF Heard(p) /\ p = Root THEN "child" ELSE exit_code
    /\ UNCHANGED <<family, over>>

\* cleanup, for one entry.
CleanStep(t, s) == IF t.tab[s].pid = NoPid THEN t ELSE Detach(t, s)

\* Mutant: the last entry of the table is left out.
CleanupShort(t) ==
    LET size == Cardinality(DOMAIN t.tab)
        f[i \in 0 .. size - 1] == IF i = 0 THEN t ELSE CleanStep(f[i - 1], i - 1)
    IN  f[size - 1]

\* cleanup: every entry left is detached, in the order of the table.
Cleanup(t) ==
    LET size == Cardinality(DOMAIN t.tab)
        f[i \in 0 .. size] == IF i = 0 THEN t ELSE CleanStep(f[i - 1], i - 1)
    IN  f[size]

\* wait4 says that there is nobody left to report anything.
Nobody == \A p \in Pids : task[p] \notin Traced /\ ~Reportable(p)

\* Mutant: the tracer exits as soon as the first process is gone.
TraceEndWithRoot ==
    /\ nprocs = 0 \/ Nobody \/ task[Root] = "gone"
    /\ over' = TRUE
    /\ UNCHANGED <<table, task, family, exit_code>>

\* trace returns when its count is 0 or wait4 fails; main then calls cleanup.
TraceEnd ==
    /\ nprocs = 0 \/ Nobody
    /\ Store(Cleanup(Table))
    /\ over' = TRUE
    /\ UNCHANGED <<task, family, exit_code>>

Ended == over /\ UNCHANGED vars

\* One iteration of trace, for a status of p.
Iteration(p) ==
    \/ FirstStop(p)
    \/ ForkEvent(p)
    \/ Death(p)

\* A system call or a fatal signal of p, with the iteration that handles it.
Call(p) ==
    \/ \E c \in Pids, k \in Kinds : ForkCall(p, c, k)
    \/ \E w \in Awaited(p) : WaitCall(p, w)
    \/ WaitNoHang(p)
    \/ \E r \in Pids : WaitReaps(p, r)
    \/ WaitFails(p)
    \/ Exit(p)
    \/ GroupExit(p)
    \/ Kill(p)

\* The condition of the loop of trace.
Going == ~over /\ nprocs # 0

Next ==
    \/ Going /\ \E p \in Pids : Iteration(p) \/ Call(p)
    \/ ~over /\ TraceEnd
    \/ Ended

Spec == Init /\ [][Next]_vars

\* trace handles every status that wait4 has for it, and returns when there is none
\* left.  Of the traced program it is assumed that no process runs for ever: one
\* that is let run again and again exits at last, and a wait4 that is let run
\* returns.
Fairness ==
    /\ \A p \in Pids : WF_vars(Going /\ Iteration(p))
    /\ WF_vars(~over /\ TraceEnd)
    /\ \A p \in Pids : SF_vars(Going /\ (Exit(p) \/ GroupExit(p)))
    /\ \A p \in Pids : WF_vars(Going /\ (WaitFails(p) \/ \E r \in Pids : WaitReaps(p, r)))

FairSpec == Spec /\ Fairness
-----------------------------------------------------------------------------
\* Every field keeps to its values: the counters of threads, waiting threads and
\* zombies never drop below 0, and a parent pointer leads into the table.
TypeOK ==
    /\ Slots = 0 .. Cardinality(Slots) - 1
    /\ \A s \in Slots :
          tab[s] \in [pid : Pids \cup {NoPid}, parent : Slots \cup {Null},
                      nchildren : Int, nzombies : Nat, nthreads : Nat, nwaiting : Nat,
                      waitpid : Pids \cup {AnyPid},
                      thread : BOOLEAN, exiting : BOOLEAN, suspended : BOOLEAN]
    /\ nprocs \in Nat
    /\ task \in [Pids -> TaskStates]
    /\ event \in [Pids -> [child : Pids, kind : AllKinds] \cup {NoEvent}]
    /\ leader \in [Pids -> Pids]
    /\ ppid \in [Pids -> Pids \cup {NoPid}]
    /\ exit_code \in {"zero", "child"}
    /\ over \in BOOLEAN

\* nprocs is the number of entries in use, so that alloc_tcb always finds a free
\* entry after expand_tcbtab ("bug in alloc_tcb" is unreachable), and trace does
\* not return while an entry is in use.
CountExact == nprocs = Cardinality(InUse)

\* No two entries have the same pid: pid2tcb is unambiguous however the first stop
\* of a child and the fork event of its parent are ordered.
PidsUnique == \A r, s \in InUse : tab[r].pid = tab[s].pid => r = s

\* The entry a thread points to is in use and is that of a process of the same thread
\* group, so that detach, droptcb, resume and internal_wait may follow tcp->parent
\* without a test.  It need not be the leader's: a thread that ran before its own fork
\* event was handled is not marked as a thread yet, and becomes a parent of threads.
ThreadsHaveLeader ==
    \A s \in InUse : tab[s].thread =>
        /\ tab[s].parent \in InUse
        /\ leader[tab[tab[s].parent].pid] = leader[tab[s].pid]

\* nclone_threads counts the threads of an entry in use: a leader is neither dropped
\* while it has threads nor kept as a zombie when they are gone.
ThreadCount ==
    \A s \in InUse :
        /\ tab[s].nthreads = Cardinality({r \in InUse : tab[r].thread /\ tab[r].parent = s})
        /\ tab[s].exiting => tab[s].nthreads > 0

\* nclone_waiting counts the suspended threads of an entry in use.
WaitCount ==
    \A s \in InUse : tab[s].nwaiting =
        Cardinality({r \in InUse : tab[r].thread /\ tab[r].parent = s /\ tab[r].suspended})

\* The child p of a process at its fork event runs before that event is handled.
RanEarly(p) ==
    \E q \in Pids : task[q] = "fork" /\ event[q].child = p
                   /\ task[p] \notin {"born", "heldborn", "died"}

Held == {"heldborn", "heldwait"}

\* A process that the tracer leaves stopped, a parent in internal_wait or a child
\* reported before its parent's event, is restarted at last: every exit that a
\* parent is held for goes through resume_from_tcp.  It may fail once a child runs
\* before its parent's event (see NewbornWaits), for the parent is then held for a
\* child whose exit has been handled already.
HeldReleased ==
    [](\A p \in Pids : ~RanEarly(p)) =>
        \A p \in Pids : task[p] \in Held ~> task[p] \notin Held

\* trace returns only when no traced process is left, stopped children that have not
\* been reported yet included.
TraceOutlivesAll == over => \A p \in Pids : task[p] \notin Traced

\* cleanup goes through the table once and leaves no entry in use, although a leader that
\* comes before its threads is only marked there, and entries of processes whose death was
\* skipped are still suspended.
Emptied == over => InUse = {} /\ nprocs = 0
-----------------------------------------------------------------------------
\* What comments of the code claim, and the code does not keep.

\* strace.c, trace: "Leave the child suspended until the parent returns from its
\* system call": a child reported first is restarted by its parent's event alone.
NewbornWaits ==
    [][\A p \in Pids : task[p] = "heldborn" /\ task'[p] = "run" =>
          \E q \in Pids : event[q].child = p /\ event'[q] = NoEvent]_vars

\* strace.c, trace, on why a status of a suspended process may be skipped: the kernel
\* reports "the process status again", so it is never the report of a death.
SkippedIsRepeat ==
    \A p \in Pids : Going /\ Reportable(p) /\ HasTcb(p) => ~tab[Tcb(p)].suspended

\* NEWS: "When command exits, strace now exits with the same exit status": when trace
\* has returned, the exit code has been taken from the death of Root.
ExitStatusKept == over => exit_code = "child"
=============================================================================
