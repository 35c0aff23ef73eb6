--------------------------- MODULE TcbTableThreads ---------------------------
(***************************************************************************)
(* The theorems about the threads in the table of traced processes: the    *)
(* counters of threads and of waiting threads are exact and every thread   *)
(* is with its group, from an inductive invariant of their own.            *)
(***************************************************************************)
EXTENDS TcbTableProofs, TcbTableGroups

\* Most leaves are first-order reasoning about sets and functions: Zenon is tried first.
USE Zenon, SMTT(20)

\* Stopped or running tasks whose next report the tracer waits for.
Awake == {"born", "run", "fork", "inwait"}

\* An entry is that of a process that exists, and a suspended one that of a process
\* that is held or has ended.
Settled(tb, tk) ==
    \A s \in Used(tb) : /\ tk[tb[s].pid] # "unborn"
                        /\ tk[tb[s].pid] \in Awake => ~tb[s].suspended

\* The child of a process at its fork event exists, is no thread in the table yet, is
\* related to it if it is to be a thread, and is nobody else's.
Pending(tb, tk, ev, R) ==
    /\ \A p \in Pids : tk[p] = "fork" =>
          /\ tk[ev[p].child] # "unborn"
          /\ ev[p].kind = "thread" => <<p, ev[p].child>> \in R
          /\ \A s \in Used(tb) : tb[s].pid = ev[p].child => ~tb[s].thread
    /\ \A p, q \in Pids :
          tk[p] = "fork" /\ tk[q] = "fork" /\ ev[p].child = ev[q].child => p = q

\* The processes that share a thread group, in an order in which they were created.
Orders(ld) ==
    {{e \in Pids \X Pids : ld[e[1]] = ld[e[2]] /\ rk[e[1]] < rk[e[2]]} : rk \in [Pids -> Nat]}

\* What the counters of threads rest on, beyond IInv. A thread points to a process of its
\* group that is older than it.
GInv ==
    /\ leader \in [Pids -> Pids] /\ ppid \in [Pids -> Pids \cup {NoPid}]
    /\ exit_code \in {"zero", "child"} /\ over \in BOOLEAN
    /\ ~over => /\ Grouped(tab) /\ Settled(tab, task)
                /\ \E R \in Orders(leader) : Related(tab, R) /\ Pending(tab, task, event, R)
-----------------------------------------------------------------------------
\* From tk to tn no process is born, wakes up or comes to its fork event.
Onward(tk, tn) ==
    \A q \in Pids : /\ tk[q] # "unborn" => tn[q] # "unborn"
                    /\ tn[q] \in Awake => tk[q] \in Awake
                    /\ tn[q] = "fork" => tk[q] = "fork"

\* Steps of the tasks that leave the entries alone.
LEMMA OnwardKeeps ==
    ASSUME IInv, ~over, Settled(tab, task), NEW R, Pending(tab, task, event, R),
           NEW tn, Onward(task, tn)
    PROVE  Settled(tab, tn) /\ Pending(tab, tn, event, R)
<1>1. /\ \A s \in Used(tab) : tab[s].pid \in Pids
      /\ \A p \in Pids : task[p] = "fork" => event[p].child \in Pids
    BY ProcessesKnown
<1>2. Settled(tab, tn)
    BY <1>1 DEF Settled, Onward
<1>3. Pending(tab, tn, event, R)
    BY <1>1 DEF Pending, Onward
<1>. QED
    BY <1>2, <1>3

\* A process leaves the table, by resume_from_tcp and droptcb: what it wakes up is not
\* suspended any more.
LEMMA LeavingSettles ==
    ASSUME IInv, ~over, NEW size, Counted(Table, size), NEW s \in 0 .. size - 1,
           Settled(tab, task), NEW R, Related(tab, R), Pending(tab, task, event, R),
           NEW u, Counted(u, size), Grouped(u.tab),
           Calmer(tab, u.tab, size, Woken(tab, s)),
           NEW tk \in [Pids -> TaskStates],
           \A q \in Pids : tk[q] = task[q] \/ tk[q] \in {"died", "gone", "reaped"},
           NEW tn, tn = Restart(tk, WokenPids(s))
    PROVE  /\ Related(u.tab, R) /\ Settled(u.tab, tn)
           /\ Pending(u.tab, tn, event, R)
<1>. DEFINE W == Woken(tab, s)
<1>1. Table.tab = tab
    BY DEF Table
<1>2. /\ \A r \in Used(tab) : tab[r].pid \in Pids
      /\ \A p \in Pids : task[p] = "fork" => event[p].child \in Pids
    BY ProcessesKnown
<1>3. Related(u.tab, R)
    BY <1>1, GroupedThreaded, CalmerRelated
<1>4. /\ DOMAIN tab = 0 .. size - 1 /\ DOMAIN u.tab = 0 .. size - 1
      /\ \A r, x \in Used(tab) : tab[r].pid = tab[x].pid => r = x
    BY <1>1 DEF Counted, Sized
<1>5. \A r \in W : r \in 0 .. size - 1
    BY <1>1, WokenSuspended
<1>6. \A q \in Pids : /\ tn[q] = "fork" => task[q] = "fork"
                      /\ task[q] # "unborn" => tn[q] # "unborn"
                      /\ q \notin WokenPids(s) => tn[q] = tk[q]
    BY DEF Restart, TaskStates
<1>7. \A r \in Used(u.tab) : /\ r \in Used(tab) /\ u.tab[r].pid = tab[r].pid
                             /\ u.tab[r].suspended => tab[r].suspended /\ r \notin W
                             /\ u.tab[r].thread => tab[r].thread
    BY <1>4 DEF Calmer, Used
<1>. HIDE DEF W
<1>8. ASSUME NEW r \in Used(u.tab), tn[u.tab[r].pid] \in Awake, u.tab[r].suspended
      PROVE  FALSE
    <2>1. r \in Used(tab) /\ tab[r].suspended /\ r \notin W /\ u.tab[r].pid = tab[r].pid
        BY <1>7, <1>8
    <2>2. tab[r].pid \notin WokenPids(s)
        <3>. SUFFICES ASSUME NEW x \in W, tab[x].pid = tab[r].pid PROVE FALSE
            BY DEF WokenPids, W
        <3>1. x \in Used(tab)
            BY <1>4, <1>5, <2>1 DEF Used
        <3>. QED
            BY <1>4, <2>1, <3>1
    <2>3. tab[r].pid \in Pids
        BY <1>2, <2>1
    <2>4. tk[tab[r].pid] \in Awake
        BY <1>6, <1>8, <2>1, <2>2, <2>3
    <2>5. task[tab[r].pid] \in Awake
        BY <2>3, <2>4 DEF Awake
    <2>. QED
        BY <1>1, <2>1, <2>5 DEF Settled
<1>9. Settled(u.tab, tn)
    BY <1>1, <1>2, <1>6, <1>7, <1>8, SMT DEF Settled
<1>10. Pending(u.tab, tn, event, R)
    <2>1. ASSUME NEW p \in Pids, tn[p] = "fork"
          PROVE  /\ tn[event[p].child] # "unborn"
                 /\ event[p].kind = "thread" => <<p, event[p].child>> \in R
                 /\ \A r \in Used(u.tab) : u.tab[r].pid = event[p].child => ~u.tab[r].thread
        BY <1>1, <1>2, <1>6, <1>7, <2>1, SMT DEF Pending
    <2>2. \A p, q \in Pids : tn[p] = "fork" /\ tn[q] = "fork" /\ event[p].child = event[q].child
                             => p = q
        BY <1>1, <1>6 DEF Pending
    <2>. QED
        BY <2>1, <2>2 DEF Pending
<1>. QED
    BY <1>3, <1>9, <1>10

\* alloc_tcb for the process p, in the table of the first stop or of a late death: its
\* entry is suspended, and p is not awake.
LEMMA EnteringSettles ==
    ASSUME IInv, ~over, NEW size, Counted(Table, size), NEW p \in Pids,
           Grouped(tab), Settled(tab, task),
           NEW R, Related(tab, R), Pending(tab, task, event, R),
           p \notin PidsOf(tab), NEW tn, Onward(task, tn), tn[p] \notin Awake \cup {"unborn"}
    PROVE  LET u == Alloc(Table, p, TRUE) IN
           /\ Grouped(u.tab) /\ Related(u.tab, R) /\ Settled(u.tab, tn)
           /\ Pending(u.tab, tn, event, R)
<1>. DEFINE u == Alloc(Table, p, TRUE)
<1>1. Table.tab = tab
    BY DEF Table
<1>2. PICK sz, f : Allocated(Table, u, p, TRUE, size, sz, f)
    BY AllocEntries
<1>3. Settled(tab, tn) /\ Pending(tab, tn, event, R)
    BY <1>1, OnwardKeeps
<1>. HIDE DEF u
<1>4. Grouped(u.tab) /\ Related(u.tab, R)
    BY <1>1, <1>2, AllocatedGroups
<1>5. ASSUME NEW r \in Used(u.tab)
      PROVE  \/ u.tab[r].pid = p /\ ~u.tab[r].thread
             \/ r \in Used(tab) /\ u.tab[r] = tab[r]
    <2>1. r \in 0 .. sz - 1 /\ u.tab[r].pid # NoPid
        BY <1>2 DEF Used, Allocated
    <2>2. CASE r = f
        BY <1>2, <2>2 DEF Allocated
    <2>3. CASE r # f
        <3>1. u.tab[r] = IF r < size THEN tab[r] ELSE Unused
            BY <1>1, <1>2, <2>1, <2>3 DEF Allocated
        <3>2. r < size /\ u.tab[r] = tab[r]
            BY <2>1, <3>1, SMT DEF Unused
        <3>3. DOMAIN tab = 0 .. size - 1 /\ size \in Nat /\ sz \in Nat
            BY <1>1, <1>2 DEF Counted, Sized, Allocated
        <3>. QED
            BY <2>1, <3>2, <3>3, SMT DEF Used
    <2>. QED
        BY <2>2, <2>3
<1>6. Settled(u.tab, tn)
    BY <1>3, <1>5 DEF Settled
<1>7. Pending(u.tab, tn, event, R)
    <2>1. ASSUME NEW q \in Pids, tn[q] = "fork", NEW r \in Used(u.tab),
                 u.tab[r].pid = event[q].child
          PROVE  ~u.tab[r].thread
        BY <1>3, <1>5, <2>1 DEF Pending
    <2>. QED
        BY <1>3, <2>1 DEF Pending
<1>. QED
    BY <1>4, <1>6, <1>7 DEF u

\* An order relates processes of one group.
LEMMA OrdersGroup ==
    ASSUME NEW ld, NEW R \in Orders(ld), NEW x, NEW y, <<x, y>> \in R
    PROVE  ld[x] = ld[y]
    BY SMT DEF Orders

\* Older than older is older.
LEMMA OrdersTransitive ==
    ASSUME NEW ld, NEW R \in Orders(ld)
    PROVE  \A x, y, z : <<x, y>> \in R /\ <<y, z>> \in R => <<x, z>> \in R
<1>1. PICK rk \in [Pids -> Nat] :
          R = {e \in Pids \X Pids : ld[e[1]] = ld[e[2]] /\ rk[e[1]] < rk[e[2]]}
    BY DEF Orders
<1>2. \A x, y : <<x, y>> \in R <=> x \in Pids /\ y \in Pids /\ ld[x] = ld[y] /\ rk[x] < rk[y]
    BY <1>1
<1>. QED
    BY <1>2, SMT

\* Nobody is older than itself.
LEMMA OrdersStrict ==
    ASSUME NEW ld, NEW R \in Orders(ld)
    PROVE  R \subseteq Pids \X Pids /\ \A x : ~(<<x, x>> \in R)
<1>1. PICK rk \in [Pids -> Nat] :
          R = {e \in Pids \X Pids : ld[e[1]] = ld[e[2]] /\ rk[e[1]] < rk[e[2]]}
    BY DEF Orders
<1>2. \A n \in Nat : ~(n < n)
    BY SMT
<1>3. ASSUME NEW x, <<x, x>> \in R PROVE FALSE
    <2>1. x \in Pids /\ rk[x] < rk[x]
        BY <1>1, <1>3
    <2>. QED
        BY <1>2, <2>1
<1>. QED
    BY <1>1, <1>3

\* The variables that the steps of the table leave alone.
LEMMA GroupsOf ==
    ASSUME GInv, ~over, over' = over, leader' = leader, ppid' = ppid,
           exit_code' \in {"zero", "child"}, NEW R \in Orders(leader),
           Grouped(tab'), Related(tab', R), Settled(tab', task'),
           Pending(tab', task', event', R)
    PROVE  GInv'
<1>1. leader' \in [Pids -> Pids] /\ ppid' \in [Pids -> Pids \cup {NoPid}] /\ over' \in BOOLEAN
    BY DEF GInv
<1>2. R \in Orders(leader')
    OBVIOUS
<1>. QED
    BY <1>1, <1>2 DEF GInv

\* startup_child: Root has the only entry, and no threads.
LEMMA InitGroups == Init => GInv
<1>. SUFFICES ASSUME Init PROVE GInv
    OBVIOUS
<1>. DEFINE tb == [[s \in 0 .. FirstSize - 1 |-> Unused] EXCEPT ![0].pid = Root]
<1>1. FirstSize \in Nat \ {0} /\ Root \in Pids /\ Root # NoPid
    BY RootAssumption, NoneAssumption, SizeAssumption
<1>2. /\ DOMAIN tb = 0 .. FirstSize - 1
      /\ \A s \in 0 .. FirstSize - 1 :
            /\ tb[s].thread = FALSE /\ tb[s].exiting = FALSE /\ tb[s].suspended = FALSE
            /\ tb[s].nthreads = 0 /\ tb[s].nwaiting = 0 /\ tb[s].nzombies = 0
            /\ tb[s].pid = IF s = 0 THEN Root ELSE NoPid
    BY <1>1 DEF Unused
<1>3. tab = tb /\ task = [p \in Pids |-> IF p = Root THEN "run" ELSE "unborn"]
    BY DEF Init
<1>. HIDE DEF tb
<1>4. ASSUME NEW q \in DOMAIN tb PROVE GroupedEntry(tb, q)
    <2>1. ThreadsOf(tb, q) = {}
        BY <1>2 DEF ThreadsOf
    <2>2. WaitingOf(tb, q) = {}
        BY <1>2 DEF WaitingOf
    <2>3. Cardinality({}) = 0
        BY FS_EmptySet
    <2>. QED
        BY <1>2, <1>4, <2>1, <2>2, <2>3, SMT DEF GroupedEntry
<1>5. Grouped(tb)
    BY <1>4 DEF Grouped
<1>6. PICK R \in Orders(leader) : Related(tb, R)
    <2>. DEFINE rk == [p \in Pids |-> 0]
                S == {e \in Pids \X Pids : leader[e[1]] = leader[e[2]] /\ rk[e[1]] < rk[e[2]]}
    <2>1. rk \in [Pids -> Nat]
        OBVIOUS
    <2>. HIDE DEF rk
    <2>2. S \in Orders(leader)
        BY <2>1 DEF Orders
    <2>. HIDE DEF S
    <2>. QED
        BY <1>2, <2>2 DEF Related
<1>7. Settled(tb, task)
    BY <1>1, <1>2, <1>3 DEF Settled, Used
<1>8. Pending(tb, task, event, R)
    BY <1>3 DEF Pending
<1>. QED
    BY <1>3, <1>5, <1>6, <1>7, <1>8 DEF GInv, Init

\* trace, at the first stop of a process.
LEMMA FirstStopGroups ==
    ASSUME IInv, GInv, ~over, NEW c \in Pids, FirstStop(c)
    PROVE  GInv'
<1>1. /\ task \in [Pids -> TaskStates] /\ Matches(Table, task) /\ task[c] = "born"
      /\ UNCHANGED <<event, leader, ppid, exit_code, over>> /\ Table.tab = tab
    BY DEF IInv, FirstStop, family, Table
<1>2. PICK size : Counted(Table, size)
    BY <1>1 DEF Matches
<1>3. PICK R \in Orders(leader) :
          /\ Grouped(tab) /\ Related(tab, R) /\ Settled(tab, task)
          /\ Pending(tab, task, event, R) /\ exit_code \in {"zero", "child"}
    BY DEF GInv
<1>4. CASE HasTcb(c)
    <2>1. task' = [task EXCEPT ![c] = "run"] /\ tab' = tab
        BY <1>4 DEF FirstStop, table
    <2>2. task'[c] = "run" /\ \A q \in Pids \ {c} : task'[q] = task[q]
        BY <1>1, <2>1
    <2>3. Onward(task, task')
        BY <1>1, <2>2 DEF Onward, Awake
    <2>4. Settled(tab, task') /\ Pending(tab, task', event, R)
        BY <1>3, <2>3, OnwardKeeps
    <2>. QED
        BY <1>1, <1>3, <2>1, <2>4, GroupsOf
<1>5. CASE ~HasTcb(c)
    <2>1. task' = [task EXCEPT ![c] = "heldborn"] /\ tab' = Alloc(Table, c, TRUE).tab
        BY <1>5 DEF FirstStop, Store
    <2>2. c \notin PidsOf(tab)
        BY <1>2, <1>5, TcbFound
    <2>3. task'[c] = "heldborn" /\ \A q \in Pids \ {c} : task'[q] = task[q]
        BY <1>1, <2>1
    <2>4. Onward(task, task') /\ task'[c] \notin Awake \cup {"unborn"}
        BY <1>1, <2>3 DEF Onward, Awake
    <2>5. /\ Grouped(tab') /\ Related(tab', R) /\ Settled(tab', task')
          /\ Pending(tab', task', event, R)
        BY <1>2, <1>3, <2>1, <2>2, <2>4, EnteringSettles
    <2>. QED
        BY <1>1, <1>3, <2>5, GroupsOf
<1>. QED
    BY <1>4, <1>5

\* trace, when a death is reported.
LEMMA DeathGroups ==
    ASSUME IInv, GInv, ~over, NEW p \in Pids, Death(p)
    PROVE  GInv'
<1>. DEFINE tk == [task EXCEPT ![p] = IF p = Root THEN "reaped" ELSE "gone"]
            S == IF Heard(p) THEN WokenPids(Tcb(p)) ELSE {}
<1>1. /\ task \in [Pids -> TaskStates] /\ Matches(Table, task)
      /\ UNCHANGED <<event, leader, ppid, over>> /\ Table.tab = tab
      /\ task' = Restart(tk, S) /\ tab' = Buried(p).tab
    BY DEF IInv, Death, family, Table, Store
<1>2. PICK size : Counted(Table, size)
    BY <1>1 DEF Matches
<1>3. PICK R \in Orders(leader) :
          /\ Grouped(tab) /\ Related(tab, R) /\ Settled(tab, task)
          /\ Pending(tab, task, event, R)
    BY DEF GInv
<1>4. exit_code' \in {"zero", "child"}
    BY DEF GInv, Death
<1>5. /\ tk \in [Pids -> TaskStates] /\ tk[p] \in {"gone", "reaped"}
      /\ \A q \in Pids \ {p} : tk[q] = task[q]
    BY <1>1 DEF TaskStates
<1>6. ASSUME ~Heard(p) PROVE Onward(task, task') /\ task'[p] \notin Awake \cup {"unborn"}
    <2>1. task' = Restart(tk, {})
        BY <1>1, <1>6
    <2>. HIDE DEF tk
    <2>2. \A q \in Pids : task'[q] = tk[q]
        BY <2>1 DEF Restart
    <2>. QED
        BY <1>5, <2>2 DEF Onward, Awake
<1>. HIDE DEF tk
<1>7. CASE ~HasTcb(p)
    <2>1. ~Heard(p) /\ tab' = Alloc(Table, p, TRUE).tab
        BY <1>1, <1>7 DEF Heard, Buried
    <2>2. p \notin PidsOf(tab)
        BY <1>2, <1>7, TcbFound
    <2>3. /\ Grouped(tab') /\ Related(tab', R) /\ Settled(tab', task')
          /\ Pending(tab', task', event, R)
        BY <1>2, <1>3, <1>6, <2>1, <2>2, EnteringSettles
    <2>. QED
        BY <1>1, <1>3, <1>4, <2>3, GroupsOf
<1>8. CASE HasTcb(p) /\ Heard(p)
    <2>. DEFINE u == Leave(Table, Tcb(p))
    <2>1. tab' = u.tab /\ task' = Restart(tk, WokenPids(Tcb(p)))
        BY <1>1, <1>8 DEF Buried
    <2>2. Tcb(p) \in 0 .. size - 1 /\ ~Table.tab[Tcb(p)].suspended
        BY <1>1, <1>2, <1>8, TcbFound DEF Heard
    <2>3. Grouped(u.tab) /\ Calmer(tab, u.tab, size, Woken(tab, Tcb(p)))
        BY <1>1, <1>2, <1>3, <2>2, GroupedThreaded, LeaveGroups
    <2>4. Counted(u, size)
        BY <1>2, <2>2, LeaveShrinks DEF Shrunk
    <2>. HIDE DEF u
    <2>5. \A q \in Pids : tk[q] = task[q] \/ tk[q] \in {"died", "gone", "reaped"}
        BY <1>5
    <2>6. /\ Related(u.tab, R) /\ Settled(u.tab, task')
          /\ Pending(u.tab, task', event, R)
        BY <1>2, <1>3, <1>5, <2>1, <2>2, <2>3, <2>4, <2>5, LeavingSettles
    <2>. QED
        BY <1>1, <1>3, <1>4, <2>1, <2>3, <2>6, GroupsOf
<1>9. CASE HasTcb(p) /\ ~Heard(p)
    <2>1. tab' = tab
        BY <1>1, <1>9 DEF Buried
    <2>2. Settled(tab, task') /\ Pending(tab, task', event, R)
        BY <1>3, <1>6, <1>9, OnwardKeeps
    <2>. QED
        BY <1>1, <1>3, <1>4, <2>1, <2>2, GroupsOf
<1>. QED
    BY <1>7, <1>8, <1>9

\* handle_ptrace_event: the child gets its place and both processes go on.
LEMMA ForkEventGroups ==
    ASSUME IInv, GInv, ~over, NEW p \in Pids, ForkEvent(p)
    PROVE  GInv'
<1>. DEFINE c == event[p].child
            k == event[p].kind
            u == AddChild(Table, Tcb(p), c, k)
            tk == [task EXCEPT ![p] = "run"]
<1>1. /\ task \in [Pids -> TaskStates] /\ Matches(Table, task) /\ task[p] = "fork"
      /\ event' = [event EXCEPT ![p] = NoEvent]
      /\ UNCHANGED <<leader, ppid, exit_code, over>> /\ Table.tab = tab
      /\ event \in [Pids -> [child : Pids, kind : AllKinds] \cup {NoEvent}]
    BY DEF IInv, ForkEvent, Table
<1>2. PICK size : Counted(Table, size)
    BY <1>1 DEF Matches
<1>3. PICK R \in Orders(leader) :
          /\ Grouped(tab) /\ Related(tab, R) /\ Settled(tab, task)
          /\ Pending(tab, task, event, R) /\ exit_code \in {"zero", "child"}
    BY DEF GInv
<1>4. /\ \A s \in Used(tab) : tab[s].pid \in Pids
      /\ \A q \in Pids : task[q] = "fork" => event[q].child \in Pids
    BY ProcessesKnown
<1>5. Tcb(p) \in 0 .. size - 1 /\ tab[Tcb(p)].pid = p
    <2>1. p \in PidsOf(tab)
        BY <1>1 DEF Matches, Active
    <2>. QED
        BY <1>2, <2>1, TcbFound
<1>6. tab' = u.tab /\ task' = Restart(tk, {c})
    BY DEF ForkEvent, Store
<1>7. c \in Pids /\ task[c] # "unborn" /\ (k = "thread" => <<p, c>> \in R)
    BY <1>1, <1>3, <1>4 DEF Pending
<1>8. \A r \in 0 .. size - 1 : tab[r].pid = c => ~tab[r].thread
    <2>1. c # NoPid /\ DOMAIN tab = 0 .. size - 1
        BY <1>1, <1>2, <1>7, NoneAssumption DEF Counted, Sized
    <2>. QED
        BY <1>1, <1>3, <2>1 DEF Pending, Used
<1>9. \A q \in Pids \ {p} : task[q] = "fork" => event[q].child # c
    BY <1>1, <1>3 DEF Pending
<1>. HIDE DEF c, k
<1>10. Grouped(u.tab) /\ Related(u.tab, R) /\ Adopted(tab, u.tab, c)
    <2>1. Tcb(p) \in 0 .. size - 1 /\ Table.tab[Tcb(p)].pid # NoPid
        BY <1>1, <1>5, NoneAssumption
    <2>2. \A r \in 0 .. size - 1 : Table.tab[r].pid = c => ~Table.tab[r].thread
        BY <1>1, <1>8
    <2>3. /\ k = "thread" => <<Table.tab[Tcb(p)].pid, c>> \in R
          /\ \A x, y, z : <<x, y>> \in R /\ <<y, z>> \in R => <<x, z>> \in R
        BY <1>1, <1>3, <1>5, <1>7, OrdersTransitive
    <2>4. Grouped(Table.tab) /\ Related(Table.tab, R)
        BY <1>1, <1>3
    <2>. QED
        BY <1>1, <1>2, <1>7, <2>1, <2>2, <2>3, <2>4, AddChildGroups
<1>. HIDE DEF u
<1>11. /\ \A q \in Pids : task[q] # "unborn" => task'[q] # "unborn"
       /\ \A q \in Pids \ {p, c} : task'[q] = task[q]
       /\ task'[p] = "run" \/ (p = c /\ task'[p] # "fork")
       /\ c # p => task'[c] \notin {"unborn", "fork"} \/ task'[c] = task[c]
    BY <1>1, <1>6, <1>7 DEF Restart, TaskStates
<1>12. ASSUME NEW r \in Used(u.tab)
       PROVE  /\ task'[u.tab[r].pid] # "unborn"
              /\ task'[u.tab[r].pid] \in Awake => ~u.tab[r].suspended
    <2>1. CASE u.tab[r].pid = c /\ ~u.tab[r].suspended
        BY <1>7, <1>11, <2>1
    <2>2. CASE /\ u.tab[r].pid # c /\ r \in DOMAIN tab /\ u.tab[r].pid = tab[r].pid
               /\ u.tab[r].suspended => tab[r].suspended
        <3>1. r \in Used(tab)
            BY <2>2 DEF Used
        <3>2. task[tab[r].pid] # "unborn" /\ (task[tab[r].pid] \in Awake => ~tab[r].suspended)
            BY <1>3, <3>1 DEF Settled
        <3>3. tab[r].pid \in Pids
            BY <1>4, <3>1
        <3>4. CASE tab[r].pid = p
            BY <1>1, <1>11, <2>2, <3>2, <3>4 DEF Awake
        <3>5. CASE tab[r].pid # p
            BY <1>11, <2>2, <3>2, <3>3, <3>5
        <3>. QED
            BY <3>4, <3>5
    <2>. QED
        BY <1>10, <2>1, <2>2 DEF Adopted
<1>13. Settled(u.tab, task')
    BY <1>12 DEF Settled
<1>14. ASSUME NEW q \in Pids, task'[q] = "fork"
       PROVE  q # p /\ task[q] = "fork" /\ event'[q] = event[q]
    BY <1>1, <1>11, <1>14
<1>15. ASSUME NEW q \in Pids, task'[q] = "fork"
       PROVE  /\ task'[event'[q].child] # "unborn"
              /\ event'[q].kind = "thread" => <<q, event'[q].child>> \in R
              /\ \A r \in Used(u.tab) : u.tab[r].pid = event'[q].child => ~u.tab[r].thread
    <2>1. q # p /\ task[q] = "fork" /\ event'[q] = event[q]
        BY <1>14, <1>15
    <2>2. /\ event[q].child \in Pids /\ task[event[q].child] # "unborn"
          /\ event[q].kind = "thread" => <<q, event[q].child>> \in R
        BY <1>3, <1>4, <2>1 DEF Pending
    <2>3. ASSUME NEW r \in Used(u.tab), u.tab[r].pid = event[q].child
          PROVE  ~u.tab[r].thread
        <3>1. u.tab[r].pid # c
            BY <1>9, <2>1, <2>3
        <3>2. /\ r \in DOMAIN tab /\ u.tab[r].pid = tab[r].pid
              /\ u.tab[r].thread => tab[r].thread
            BY <1>10, <3>1 DEF Adopted
        <3>3. r \in Used(tab)
            BY <3>2 DEF Used
        <3>. QED
            BY <1>3, <2>1, <2>3, <3>2, <3>3 DEF Pending
    <2>. QED
        BY <1>11, <2>1, <2>2, <2>3
<1>16. \A q, r \in Pids : task'[q] = "fork" /\ task'[r] = "fork"
                          /\ event'[q].child = event'[r].child => q = r
    BY <1>3, <1>14 DEF Pending
<1>17. Pending(u.tab, task', event', R)
    BY <1>15, <1>16 DEF Pending
<1>. QED
    BY <1>1, <1>3, <1>6, <1>10, <1>13, <1>17, GroupsOf

\* A fork of the traced program: nothing in the table is about the child yet.
LEMMA ForkCallGroups ==
    ASSUME IInv, GInv, ~over, NEW p \in Pids, NEW c \in Pids, NEW k \in Kinds, ForkCall(p, c, k)
    PROVE  GInv'
<1>1. /\ task \in [Pids -> TaskStates] /\ task[p] = "run" /\ task[c] = "unborn"
      /\ task' = [task EXCEPT ![p] = "fork", ![c] = "born"] /\ over' = over /\ tab' = tab
      /\ event' = [event EXCEPT ![p] = [child |-> c, kind |-> k]]
      /\ leader' = [leader EXCEPT ![c] = IF k = "thread" THEN leader[p] ELSE c]
      /\ ppid' = [ppid EXCEPT ![c] = IF k = "parent" THEN ppid[leader[p]] ELSE leader[p]]
      /\ exit_code' = exit_code
      /\ event \in [Pids -> [child : Pids, kind : AllKinds] \cup {NoEvent}]
    BY DEF IInv, ForkCall, table
<1>2. PICK R \in Orders(leader) :
          /\ Grouped(tab) /\ Related(tab, R) /\ Settled(tab, task)
          /\ Pending(tab, task, event, R) /\ exit_code \in {"zero", "child"}
          /\ leader \in [Pids -> Pids] /\ ppid \in [Pids -> Pids \cup {NoPid}]
    BY DEF GInv
<1>3. /\ \A s \in Used(tab) : tab[s].pid \in Pids
      /\ \A q \in Pids : task[q] = "fork" => event[q].child \in Pids
    BY ProcessesKnown
<1>4. p # c /\ task'[p] = "fork" /\ task'[c] = "born" /\ \A q \in Pids \ {p, c} : task'[q] = task[q]
    BY <1>1
<1>5. /\ event'[p].child = c /\ event'[p].kind = k
      /\ \A q \in Pids \ {p} : event'[q] = event[q]
    BY <1>1
<1>6. /\ leader' \in [Pids -> Pids] /\ ppid' \in [Pids -> Pids \cup {NoPid}]
      /\ \A q \in Pids \ {c} : leader'[q] = leader[q]
      /\ k = "thread" => leader'[c] = leader[p]
    BY <1>1, <1>2
<1>7. \A s \in Used(tab) : tab[s].pid # c
    BY <1>1, <1>2 DEF Settled
<1>8. PICK S \in Orders(leader') :
          /\ \A x, y \in Pids \ {c} : <<x, y>> \in R => <<x, y>> \in S
          /\ k = "thread" => <<p, c>> \in S
    <2>1. PICK rk \in [Pids -> Nat] :
              R = {e \in Pids \X Pids : leader[e[1]] = leader[e[2]] /\ rk[e[1]] < rk[e[2]]}
        BY <1>2 DEF Orders
    <2>. DEFINE rn == [rk EXCEPT ![c] = rk[p] + 1]
                S == {e \in Pids \X Pids : leader'[e[1]] = leader'[e[2]] /\ rn[e[1]] < rn[e[2]]}
    <2>2. /\ rn \in [Pids -> Nat] /\ rn[c] = rk[p] + 1
          /\ \A q \in Pids \ {c} : rn[q] = rk[q]
        BY SMT
    <2>. HIDE DEF rn
    <2>3. S \in Orders(leader')
        BY <2>2 DEF Orders
    <2>4. ASSUME NEW x \in Pids \ {c}, NEW y \in Pids \ {c}, <<x, y>> \in R PROVE <<x, y>> \in S
        BY <1>6, <2>1, <2>2, <2>4
    <2>5. ASSUME k = "thread" PROVE <<p, c>> \in S
        BY <1>4, <1>6, <2>1, <2>2, <2>5, SMT
    <2>. HIDE DEF S
    <2>. QED
        BY <2>3, <2>4, <2>5
<1>9. Related(tab, S)
    <2>. SUFFICES ASSUME NEW r \in DOMAIN tab, tab[r].thread
                  PROVE  <<tab[tab[r].parent].pid, tab[r].pid>> \in S
        BY DEF Related
    <2>1. PICK size : Counted(Table, size)
        BY DEF IInv, Matches
    <2>2. /\ tab \in [0 .. size - 1 -> EntryOf(0 .. size - 1)]
          /\ tab[r].parent # Null
        BY <2>1 DEF Counted, Sized, Table
    <2>3. tab[r].parent \in DOMAIN tab
        BY <2>2 DEF EntryOf
    <2>4. r \in ThreadsOf(tab, tab[r].parent)
        BY DEF ThreadsOf
    <2>5. r \in Used(tab) /\ tab[r].parent \in Used(tab)
        BY <1>2, <2>3, <2>4 DEF Grouped, GroupedEntry, Used
    <2>. QED
        BY <1>2, <1>3, <1>7, <1>8, <2>5 DEF Related
<1>10. Settled(tab, task')
    BY <1>1, <1>2, <1>3, <1>4, <1>7 DEF Settled, Awake
<1>11. ASSUME NEW q \in Pids, task'[q] = "fork"
       PROVE  /\ task'[event'[q].child] # "unborn"
              /\ event'[q].kind = "thread" => <<q, event'[q].child>> \in S
              /\ \A r \in Used(tab) : tab[r].pid = event'[q].child => ~tab[r].thread
    <2>1. CASE q = p
        BY <1>4, <1>5, <1>7, <1>8, <2>1
    <2>2. CASE q # p
        <3>1. task[q] = "fork" /\ event'[q] = event[q] /\ q # c
            BY <1>4, <1>5, <1>11, <2>2
        <3>2. event[q].child \in Pids /\ event[q].child # c
            BY <1>1, <1>2, <1>3, <3>1 DEF Pending
        <3>. QED
            BY <1>2, <1>4, <1>8, <3>1, <3>2 DEF Pending
    <2>. QED
        BY <2>1, <2>2
<1>12. ASSUME NEW q \in Pids, NEW r \in Pids, task'[q] = "fork", task'[r] = "fork",
              event'[q].child = event'[r].child
       PROVE  q = r
    <2>1. ASSUME NEW x \in Pids \ {p}, task'[x] = "fork"
          PROVE  task[x] = "fork" /\ event'[x].child = event[x].child /\ event[x].child # c
        <3>1. x # c /\ task[x] = "fork"
            BY <1>4, <2>1
        <3>. QED
            BY <1>1, <1>2, <1>5, <3>1 DEF Pending
    <2>. QED
        BY <1>2, <1>5, <1>12, <2>1 DEF Pending
<1>13. Pending(tab, task', event', S)
    BY <1>11, <1>12 DEF Pending
<1>. QED
    BY <1>1, <1>2, <1>6, <1>9, <1>10, <1>13 DEF GInv

\* Steps of the tasks alone.
LEMMA TasksGroups ==
    ASSUME IInv, GInv, ~over, tab' = tab, Onward(task, task'),
           UNCHANGED <<family, exit_code, over>>
    PROVE  GInv'
<1>1. PICK R \in Orders(leader) :
          /\ Grouped(tab) /\ Related(tab, R) /\ Settled(tab, task)
          /\ Pending(tab, task, event, R) /\ exit_code \in {"zero", "child"}
    BY DEF GInv
<1>2. Settled(tab, task') /\ Pending(tab, task', event, R)
    BY <1>1, OnwardKeeps
<1>. QED
    BY <1>1, <1>2, GroupsOf DEF family

\* SIGKILL.
LEMMA KillGroups ==
    ASSUME IInv, GInv, ~over, NEW p \in Pids, Kill(p)
    PROVE  GInv'
<1>1. /\ task \in [Pids -> TaskStates] /\ tab' = tab /\ UNCHANGED <<family, exit_code, over>>
      /\ task' = [q \in Pids |-> IF q \in Threads(p) THEN "died" ELSE task[q]]
    BY DEF IInv, Kill, table
<1>2. Onward(task, task')
    BY <1>1 DEF Onward, Awake
<1>. QED
    BY <1>1, <1>2, TasksGroups

\* What internal_wait makes of the entry x when it holds the process of s.
HeldEntry(tb, s, x, e) ==
    /\ e.pid = tb[x].pid /\ e.parent = tb[x].parent /\ e.thread = tb[x].thread
    /\ e.exiting = tb[x].exiting /\ e.nthreads = tb[x].nthreads /\ e.nzombies = tb[x].nzombies
    /\ x = s => e.suspended = TRUE
    /\ x # s => e.suspended = tb[x].suspended
    /\ tb[s].thread /\ tb[s].parent = x => e.nwaiting = tb[x].nwaiting + 1
    /\ ~tb[s].thread \/ tb[s].parent # x => e.nwaiting = tb[x].nwaiting

\* internal_wait holds a process, one entry at a time.
LEMMA SuspendEntries ==
    ASSUME NEW size, Counted(Table, size), NEW s \in 0 .. size - 1,
           NEW w \in Pids \cup {AnyPid}
    PROVE  /\ DOMAIN Suspend(s, w) = 0 .. size - 1
           /\ \A x \in 0 .. size - 1 : HeldEntry(tab, s, x, Suspend(s, w)[x])
<1>. DEFINE held == [tab EXCEPT ![s] = Hold(tab[s], w)]
            q == tab[s].parent
<1>1. /\ tab \in [0 .. size - 1 -> EntryOf(0 .. size - 1)]
      /\ \A r \in 0 .. size - 1 : tab[r].thread => tab[r].parent # Null
    BY DEF Counted, Sized, Table
<1>2. Hold(tab[s], w) \in EntryOf(0 .. size - 1)
    BY <1>1, EntriesKept
<1>3. /\ Hold(tab[s], w).pid = tab[s].pid /\ Hold(tab[s], w).parent = tab[s].parent
      /\ Hold(tab[s], w).thread = tab[s].thread /\ Hold(tab[s], w).exiting = tab[s].exiting
      /\ Hold(tab[s], w).nthreads = tab[s].nthreads /\ Hold(tab[s], w).nwaiting = tab[s].nwaiting
      /\ Hold(tab[s], w).nzombies = tab[s].nzombies /\ Hold(tab[s], w).suspended = TRUE
    <2>1. tab[s] \in EntryOf(0 .. size - 1)
        BY <1>1
    <2>. QED
        BY <2>1 DEF Hold, EntryOf
<1>4. /\ held \in [0 .. size - 1 -> EntryOf(0 .. size - 1)]
      /\ held[s] = Hold(tab[s], w) /\ \A x \in 0 .. size - 1 : x # s => held[x] = tab[x]
    BY <1>1, <1>2
<1>5. Suspend(s, w) = IF tab[s].thread THEN [held EXCEPT ![q].nwaiting = @ + 1] ELSE held
    BY DEF Suspend
<1>6. tab[s].thread => q \in 0 .. size - 1
    BY <1>1 DEF EntryOf
<1>. HIDE DEF held
<1>7. ASSUME NEW x \in 0 .. size - 1
      PROVE  /\ held[x].pid = tab[x].pid /\ held[x].parent = tab[x].parent
             /\ held[x].thread = tab[x].thread /\ held[x].exiting = tab[x].exiting
             /\ held[x].nthreads = tab[x].nthreads /\ held[x].nzombies = tab[x].nzombies
             /\ x = s => held[x].suspended = TRUE
             /\ x # s => held[x].suspended = tab[x].suspended
             /\ held[x].nwaiting = tab[x].nwaiting /\ tab[x].nwaiting \in Int
    <2>1. tab[x].nwaiting \in Int
        BY <1>1 DEF EntryOf
    <2>2. CASE x = s
        BY <1>3, <1>4, <2>1, <2>2
    <2>3. CASE x # s
        BY <1>4, <2>1, <2>3
    <2>. QED
        BY <2>2, <2>3
<1>8. CASE ~tab[s].thread
    <2>1. ASSUME NEW x \in 0 .. size - 1 PROVE HeldEntry(tab, s, x, held[x])
        BY <1>7, <1>8 DEF HeldEntry
    <2>. QED
        BY <1>4, <1>5, <1>8, <2>1
<1>9. CASE tab[s].thread
    <2>. DEFINE rec == [held[q] EXCEPT !.nwaiting = held[q].nwaiting + 1]
                v == [held EXCEPT ![q] = rec]
    <2>1. held[q] \in EntryOf(0 .. size - 1) /\ q \in 0 .. size - 1
        BY <1>4, <1>6, <1>9
    <2>2. Suspend(s, w) = v
        BY <1>4, <1>5, <1>9, <2>1 DEF EntryOf
    <2>3. /\ rec.pid = held[q].pid /\ rec.parent = held[q].parent
          /\ rec.thread = held[q].thread /\ rec.exiting = held[q].exiting
          /\ rec.nthreads = held[q].nthreads /\ rec.nzombies = held[q].nzombies
          /\ rec.suspended = held[q].suspended /\ rec.nwaiting = held[q].nwaiting + 1
        BY <2>1 DEF EntryOf
    <2>. HIDE DEF rec
    <2>4. DOMAIN v = 0 .. size - 1 /\ v[q] = rec /\ \A x \in 0 .. size - 1 : x # q => v[x] = held[x]
        BY <1>4, <2>1
    <2>. HIDE DEF v
    <2>5. ASSUME NEW x \in 0 .. size - 1 PROVE HeldEntry(tab, s, x, v[x])
        <3>1. CASE x = q
            BY <1>7, <1>9, <2>3, <2>4, <3>1 DEF HeldEntry
        <3>2. CASE x # q
            <4>1. v[x] = held[x] /\ tab[s].parent # x
                BY <2>4, <3>2
            <4>. QED
                BY <1>7, <4>1 DEF HeldEntry
        <3>. QED
            BY <3>1, <3>2
    <2>. QED
        BY <2>2, <2>4, <2>5
<1>. QED
    BY <1>8, <1>9

\* nclone_waiting counts the thread that internal_wait holds.
LEMMA SuspendGroups ==
    ASSUME NEW size, Counted(Table, size), Grouped(tab), NEW s \in 0 .. size - 1,
           ~tab[s].suspended, ~tab[s].exiting, NEW w \in Pids \cup {AnyPid}
    PROVE  /\ Grouped(Suspend(s, w))
           /\ \A R : Related(tab, R) => Related(Suspend(s, w), R)
<1>. DEFINE v == Suspend(s, w)
<1>1. DOMAIN v = 0 .. size - 1 /\ \A x \in 0 .. size - 1 : HeldEntry(tab, s, x, v[x])
    BY SuspendEntries
<1>2. /\ tab \in [0 .. size - 1 -> EntryOf(0 .. size - 1)] /\ DOMAIN tab = 0 .. size - 1
      /\ \A r \in 0 .. size - 1 : tab[r].thread => tab[r].parent # Null
      /\ Table.tab = tab
    BY DEF Counted, Sized, Table
<1>. HIDE DEF v
<1>3. ASSUME NEW x \in 0 .. size - 1
      PROVE  /\ v[x].pid = tab[x].pid /\ v[x].parent = tab[x].parent
             /\ v[x].thread = tab[x].thread /\ v[x].exiting = tab[x].exiting
             /\ v[x].nthreads = tab[x].nthreads /\ v[x].nzombies = tab[x].nzombies
             /\ v[x].suspended <=> (x = s \/ tab[x].suspended)
    BY <1>1 DEF HeldEntry
<1>4. \A x : ThreadsOf(v, x) = ThreadsOf(tab, x)
    BY <1>1, <1>2, <1>3, SMT DEF ThreadsOf
<1>5. ASSUME NEW x \in 0 .. size - 1 PROVE v[x].nwaiting = Cardinality(WaitingOf(v, x))
    <2>1. tab[x].nwaiting = Cardinality(WaitingOf(tab, x))
        BY <1>2 DEF Grouped, GroupedEntry
    <2>2. CASE tab[s].thread /\ tab[s].parent = x
        <3>1. WaitingOf(v, x) = WaitingOf(tab, x) \cup {s} /\ s \notin WaitingOf(tab, x)
            BY <1>1, <1>2, <1>3, <2>2, SMT DEF WaitingOf
        <3>2. IsFiniteSet(WaitingOf(tab, x))
            BY <1>2, ThreadsFinite
        <3>3. Cardinality(WaitingOf(tab, x) \cup {s}) = Cardinality(WaitingOf(tab, x)) + 1
            BY <3>1, <3>2, FS_AddElement
        <3>4. v[x].nwaiting = tab[x].nwaiting + 1
            BY <1>1, <2>2 DEF HeldEntry
        <3>. QED
            BY <2>1, <3>1, <3>3, <3>4
    <2>3. CASE ~(tab[s].thread /\ tab[s].parent = x)
        <3>1. WaitingOf(v, x) = WaitingOf(tab, x)
            BY <1>1, <1>2, <1>3, <2>3, SMT DEF WaitingOf
        <3>2. v[x].nwaiting = tab[x].nwaiting
            BY <1>1, <2>3 DEF HeldEntry
        <3>. QED
            BY <2>1, <3>1, <3>2
    <2>. QED
        BY <2>2, <2>3
<1>6. ASSUME NEW x \in DOMAIN v PROVE GroupedEntry(v, x)
    <2>1. x \in 0 .. size - 1 /\ GroupedEntry(tab, x)
        BY <1>1, <1>2 DEF Grouped
    <2>. QED
        BY <1>3, <1>4, <1>5, <2>1 DEF GroupedEntry
<1>7. ASSUME NEW R, Related(tab, R) PROVE Related(v, R)
    <2>. SUFFICES ASSUME NEW r \in 0 .. size - 1, v[r].thread
                  PROVE  <<v[v[r].parent].pid, v[r].pid>> \in R
        BY <1>1 DEF Related
    <2>1. tab[r].thread /\ tab[r].parent \in 0 .. size - 1
        BY <1>2, <1>3 DEF EntryOf
    <2>. QED
        BY <1>2, <1>3, <1>7, <2>1, ZenonT(60) DEF Related
<1>8. Grouped(v) /\ \A R : Related(tab, R) => Related(v, R)
    BY <1>6, <1>7 DEF Grouped
<1>. QED
    BY <1>8 DEF v

\* internal_wait on entry: the process it holds is not awake.
LEMMA WaitCallGroups ==
    ASSUME IInv, GInv, ~over, NEW p \in Pids, NEW w \in Awaited(p), WaitCall(p, w)
    PROVE  GInv'
<1>1. /\ task \in [Pids -> TaskStates] /\ task[p] = "run" /\ Matches(Table, task)
      /\ UNCHANGED <<family, exit_code, over>> /\ Table.tab = tab
    BY DEF IInv, WaitCall, Table
<1>2. PICK size : Counted(Table, size)
    BY <1>1 DEF Matches
<1>3. PICK R \in Orders(leader) :
          /\ Grouped(tab) /\ Related(tab, R) /\ Settled(tab, task)
          /\ Pending(tab, task, event, R) /\ exit_code \in {"zero", "child"}
    BY DEF GInv
<1>4. CASE ~Blocks(Tcb(p), w)
    <2>1. tab' = tab /\ task' = [task EXCEPT ![p] = "inwait"]
        BY <1>4 DEF WaitCall
    <2>2. Onward(task, task')
        BY <1>1, <2>1 DEF Onward, Awake
    <2>. QED
        BY <1>1, <2>1, <2>2, TasksGroups
<1>5. CASE Blocks(Tcb(p), w)
    <2>. DEFINE s == Tcb(p)
                v == Suspend(s, w)
    <2>1. tab' = v /\ task' = [task EXCEPT ![p] = "heldwait"]
        BY <1>5 DEF WaitCall
    <2>2. s \in 0 .. size - 1 /\ tab[s].pid = p
        <3>1. p \in PidsOf(tab)
            BY <1>1 DEF Matches, Active
        <3>. QED
            BY <1>2, <3>1, TcbFound
    <2>3. w \in Pids \cup {AnyPid}
        BY DEF Awaited
    <2>4. DOMAIN tab = 0 .. size - 1 /\ s \in Used(tab)
        BY <1>1, <1>2, <2>2, NoneAssumption DEF Counted, Sized, Used
    <2>. HIDE DEF s
    <2>5. ~tab[s].suspended
        BY <1>1, <1>3, <2>2, <2>4 DEF Settled, Awake
    <2>6. ~tab[s].exiting
        BY <1>1, <2>2, <2>4 DEF Matches, Exiting, Finished
    <2>7. Grouped(v) /\ Related(v, R)
        BY <1>2, <1>3, <2>2, <2>3, <2>5, <2>6, SuspendGroups
    <2>8. DOMAIN v = 0 .. size - 1 /\ \A x \in 0 .. size - 1 : HeldEntry(tab, s, x, v[x])
        BY <1>2, <2>2, <2>3, SuspendEntries
    <2>. HIDE DEF v
    <2>9. task'[p] = "heldwait" /\ \A q \in Pids \ {p} : task'[q] = task[q]
        BY <1>1, <2>1
    <2>10. Onward(task, task')
        BY <1>1, <2>9 DEF Onward, Awake
    <2>11. Settled(tab, task') /\ Pending(tab, task', event, R)
        BY <1>3, <2>10, OnwardKeeps
    <2>12. ASSUME NEW x \in Used(v)
           PROVE  x \in Used(tab) /\ v[x].pid = tab[x].pid /\ v[x].thread = tab[x].thread
                  /\ (x # s => v[x].suspended = tab[x].suspended)
        BY <2>4, <2>8 DEF HeldEntry, Used
    <2>13. Settled(v, task')
        BY <2>2, <2>9, <2>11, <2>12 DEF Settled, Awake
    <2>14. Pending(v, task', event, R)
        <3>1. ASSUME NEW q \in Pids, task'[q] = "fork", NEW x \in Used(v),
                     v[x].pid = event[q].child
              PROVE  ~v[x].thread
            BY <2>11, <2>12, <3>1 DEF Pending
        <3>. QED
            BY <2>11, <3>1 DEF Pending
    <2>. QED
        BY <1>1, <1>3, <2>1, <2>7, <2>13, <2>14, GroupsOf DEF family
<1>. QED
    BY <1>4, <1>5

\* internal_wait on return: nzombies of the caller is decremented only above 0.
LEMMA WaitReapsGroups ==
    ASSUME IInv, GInv, ~over, NEW p \in Pids, NEW r \in Pids, WaitReaps(p, r)
    PROVE  GInv'
<1>. DEFINE s == Tcb(p)
<1>1. /\ task \in [Pids -> TaskStates] /\ Matches(Table, task) /\ task[p] = "inwait"
      /\ task[r] = "gone" /\ task' = [task EXCEPT ![p] = "run", ![r] = "reaped"]
      /\ UNCHANGED <<family, exit_code, over>> /\ Table.tab = tab
    BY DEF IInv, WaitReaps, Table
<1>2. PICK size : Counted(Table, size)
    BY <1>1 DEF Matches
<1>3. PICK R \in Orders(leader) :
          /\ Grouped(tab) /\ Related(tab, R) /\ Settled(tab, task)
          /\ Pending(tab, task, event, R) /\ exit_code \in {"zero", "child"}
    BY DEF GInv
<1>4. Onward(task, task')
    BY <1>1 DEF Onward, Awake
<1>5. Settled(tab, task') /\ Pending(tab, task', event, R)
    BY <1>3, <1>4, OnwardKeeps
<1>6. CASE ~CountsReaped(p, r)
    <2>1. tab' = tab
        BY <1>6 DEF WaitReaps
    <2>. QED
        BY <1>1, <1>4, <2>1, TasksGroups
<1>7. CASE CountsReaped(p, r)
    <2>1. tab' = [tab EXCEPT ![s].nzombies = @ - 1] /\ tab[s].nzombies > 0
        BY <1>7 DEF WaitReaps, CountsReaped
    <2>2. s \in 0 .. size - 1
        <3>1. p \in PidsOf(tab)
            BY <1>1 DEF Matches, Active
        <3>. QED
            BY <1>2, <3>1, TcbFound
    <2>3. /\ tab \in [0 .. size - 1 -> EntryOf(0 .. size - 1)]
          /\ \A x \in 0 .. size - 1 : tab[x].thread => tab[x].parent # Null
        BY <1>2 DEF Counted, Sized, Table
    <2>. DEFINE rec == [tab[s] EXCEPT !.nzombies = tab[s].nzombies - 1]
    <2>4. tab[s] \in EntryOf(0 .. size - 1)
        BY <2>2, <2>3
    <2>. HIDE DEF s
    <2>5. /\ rec.pid = tab[s].pid /\ rec.parent = tab[s].parent
          /\ rec.thread = tab[s].thread /\ rec.exiting = tab[s].exiting
          /\ rec.suspended = tab[s].suspended
          /\ rec.nthreads = tab[s].nthreads /\ rec.nwaiting = tab[s].nwaiting
          /\ rec.nzombies >= 0
        BY <2>1, <2>4, SMT DEF EntryOf
    <2>6. tab' = [tab EXCEPT ![s] = rec]
        BY <2>1, <2>2, <2>3 DEF EntryOf
    <2>. HIDE DEF rec
    <2>7. DOMAIN tab' = 0 .. size - 1 /\ DOMAIN tab = 0 .. size - 1
        BY <2>2, <2>3, <2>6
    <2>8. ASSUME NEW x \in 0 .. size - 1
          PROVE  /\ tab'[x].pid = tab[x].pid /\ tab'[x].parent = tab[x].parent
                 /\ tab'[x].thread = tab[x].thread /\ tab'[x].exiting = tab[x].exiting
                 /\ tab'[x].suspended = tab[x].suspended
                 /\ tab'[x].nthreads = tab[x].nthreads /\ tab'[x].nwaiting = tab[x].nwaiting
                 /\ tab[x].nzombies >= 0 => tab'[x].nzombies >= 0
        BY <2>2, <2>3, <2>5, <2>6
    <2>9. \A x : ThreadsOf(tab', x) = ThreadsOf(tab, x)
        BY <2>7, <2>8 DEF ThreadsOf
    <2>10. \A x : WaitingOf(tab', x) = WaitingOf(tab, x)
        BY <2>7, <2>8 DEF WaitingOf
    <2>11. ASSUME NEW x \in 0 .. size - 1 PROVE GroupedEntry(tab', x)
        <3>1. GroupedEntry(tab, x)
            BY <1>3, <2>7 DEF Grouped
        <3>. QED
            BY <2>8, <2>9, <2>10, <3>1 DEF GroupedEntry
    <2>12. Grouped(tab')
        BY <2>7, <2>11 DEF Grouped
    <2>13. Related(tab', R)
        <3>. SUFFICES ASSUME NEW x \in 0 .. size - 1, tab'[x].thread
                      PROVE  <<tab'[tab'[x].parent].pid, tab'[x].pid>> \in R
            BY <2>7 DEF Related
        <3>1. tab[x].thread /\ tab[x].parent \in 0 .. size - 1
            BY <2>3, <2>8 DEF EntryOf
        <3>2. <<tab[tab[x].parent].pid, tab[x].pid>> \in R
            BY <1>3, <2>7, <3>1 DEF Related
        <3>3. /\ tab'[x].pid = tab[x].pid /\ tab'[x].parent = tab[x].parent
              /\ tab'[tab[x].parent].pid = tab[tab[x].parent].pid
            BY <2>8, <3>1
        <3>. QED
            BY <3>2, <3>3
    <2>14. ASSUME NEW x \in Used(tab')
           PROVE  x \in Used(tab) /\ tab'[x].pid = tab[x].pid /\ tab'[x].thread = tab[x].thread
                  /\ tab'[x].suspended = tab[x].suspended
        BY <2>7, <2>8 DEF Used
    <2>15. Settled(tab', task')
        BY <1>5, <2>14 DEF Settled
    <2>16. Pending(tab', task', event, R)
        <3>1. ASSUME NEW q \in Pids, task'[q] = "fork", NEW x \in Used(tab'),
                     tab'[x].pid = event[q].child
              PROVE  ~tab'[x].thread
            <4>1. x \in Used(tab) /\ tab[x].pid = event[q].child
                BY <2>14, <3>1
            <4>2. ~tab[x].thread
                BY <1>5, <3>1, <4>1 DEF Pending
            <4>. QED
                BY <2>14, <4>2
        <3>. QED
            BY <1>5, <3>1 DEF Pending
    <2>. QED
        BY <1>1, <1>3, <2>12, <2>13, <2>15, <2>16, GroupsOf DEF family
<1>. QED
    BY <1>6, <1>7

\* A wait4 that does not block or that reaps nothing.
LEMMA WaitAloneGroups ==
    ASSUME IInv, GInv, ~over, NEW p \in Pids, WaitNoHang(p) \/ WaitFails(p)
    PROVE  GInv'
<1>1. /\ task \in [Pids -> TaskStates] /\ tab' = tab /\ UNCHANGED <<family, exit_code, over>>
      /\ task[p] \in Awake \ {"unborn"}
      /\ \E b \in {"run", "inwait"} : task' = [task EXCEPT ![p] = b]
    BY DEF IInv, WaitNoHang, WaitFails, table, Awake
<1>2. Onward(task, task')
    BY <1>1 DEF Onward, Awake
<1>. QED
    BY <1>1, <1>2, TasksGroups

\* A process leaves by itself or with its group: detach.
LEMMA DetachLeavesGroups ==
    ASSUME IInv, GInv, ~over, UNCHANGED <<family, exit_code, over>>, NEW p \in Pids,
           task[p] \in {"run", "inwait"}, Store(Detach(Table, Tcb(p))),
           NEW tk \in [Pids -> TaskStates],
           \A q \in Pids : tk[q] = task[q] \/ tk[q] \in {"died", "gone", "reaped"},
           task' = Restart(tk, WokenPids(Tcb(p)))
    PROVE  GInv'
<1>. DEFINE s == Tcb(p)
            u == Detach(Table, s)
<1>1. /\ task \in [Pids -> TaskStates] /\ Matches(Table, task) /\ Table.tab = tab
      /\ tab' = u.tab
    BY DEF IInv, Table, Store
<1>2. PICK size : Counted(Table, size)
    BY <1>1 DEF Matches
<1>3. PICK R \in Orders(leader) :
          /\ Grouped(tab) /\ Related(tab, R) /\ Settled(tab, task)
          /\ Pending(tab, task, event, R) /\ exit_code \in {"zero", "child"}
    BY DEF GInv
<1>4. s \in 0 .. size - 1 /\ tab[s].pid = p
    <2>1. p \in PidsOf(tab)
        BY <1>1 DEF Matches, Active
    <2>. QED
        BY <1>2, <2>1, TcbFound
<1>5. ~Table.tab[s].suspended
    <2>1. s \in Used(tab)
        BY <1>1, <1>2, <1>4, NoneAssumption DEF Counted, Sized, Used
    <2>. QED
        BY <1>1, <1>3, <1>4, <2>1 DEF Settled, Awake
<1>6. Grouped(u.tab) /\ Calmer(tab, u.tab, size, Woken(tab, s))
    BY <1>1, <1>2, <1>3, <1>4, <1>5, GroupedThreaded, DetachGroups
<1>7. Counted(u, size)
    BY <1>2, <1>4, DetachShrinks DEF Shrunk
<1>. HIDE DEF u, s
<1>8. /\ Related(u.tab, R) /\ Settled(u.tab, task')
      /\ Pending(u.tab, task', event, R)
    <2>1. task' = Restart(tk, WokenPids(s))
        BY DEF s
    <2>. QED
        BY <1>1, <1>2, <1>3, <1>4, <1>6, <1>7, <2>1, LeavingSettles
<1>. QED
    BY <1>1, <1>3, <1>6, <1>8, GroupsOf DEF family

\* _exit, exit_group and fatal signals.
LEMMA ExitGroups ==
    ASSUME IInv, GInv, ~over, NEW p \in Pids, Exit(p) \/ GroupExit(p)
    PROVE  GInv'
<1>1. task \in [Pids -> TaskStates]
    BY DEF IInv
<1>2. CASE Exit(p)
    <2>. DEFINE tk == [task EXCEPT ![p] = "gone"]
    <2>1. /\ tk \in [Pids -> TaskStates]
          /\ \A q \in Pids : tk[q] = task[q] \/ tk[q] \in {"died", "gone", "reaped"}
        BY <1>1 DEF TaskStates
    <2>2. /\ UNCHANGED <<family, exit_code, over>> /\ task[p] \in {"run", "inwait"}
          /\ Store(Detach(Table, Tcb(p))) /\ task' = Restart(tk, WokenPids(Tcb(p)))
        BY <1>2 DEF Exit
    <2>. HIDE DEF tk
    <2>. QED
        BY <2>1, <2>2, DetachLeavesGroups
<1>3. CASE GroupExit(p)
    <2>. DEFINE tk == [q \in Pids |-> IF q = p THEN "gone"
                                      ELSE IF q \in Threads(p) THEN "died" ELSE task[q]]
    <2>1. /\ tk \in [Pids -> TaskStates]
          /\ \A q \in Pids : tk[q] = task[q] \/ tk[q] \in {"died", "gone", "reaped"}
        BY <1>1 DEF TaskStates
    <2>2. /\ UNCHANGED <<family, exit_code, over>> /\ task[p] \in {"run", "inwait"}
          /\ Store(Detach(Table, Tcb(p))) /\ task' = Restart(tk, WokenPids(Tcb(p)))
        BY <1>3 DEF GroupExit
    <2>. HIDE DEF tk
    <2>. QED
        BY <2>1, <2>2, DetachLeavesGroups
<1>. QED
    BY <1>2, <1>3
-----------------------------------------------------------------------------
\* Every step keeps the threads in order.
LEMMA StepGroups == IInv /\ GInv /\ [Next]_vars => GInv'
<1>. SUFFICES ASSUME IInv, GInv, [Next]_vars PROVE GInv'
    OBVIOUS
<1>1. CASE ~over /\ \E p \in Pids : Iteration(p) \/ Call(p)
    <2>. PICK p \in Pids : Iteration(p) \/ Call(p)
        BY <1>1
    <2>1. CASE Iteration(p)
        BY <1>1, <2>1, FirstStopGroups, ForkEventGroups, DeathGroups DEF Iteration
    <2>2. CASE \E c \in Pids, k \in Kinds : ForkCall(p, c, k)
        BY <1>1, <2>2, ForkCallGroups
    <2>3. CASE \E w \in Awaited(p) : WaitCall(p, w)
        BY <1>1, <2>3, WaitCallGroups
    <2>4. CASE WaitNoHang(p) \/ WaitFails(p)
        BY <1>1, <2>4, WaitAloneGroups
    <2>5. CASE \E r \in Pids : WaitReaps(p, r)
        BY <1>1, <2>5, WaitReapsGroups
    <2>6. CASE Exit(p) \/ GroupExit(p)
        BY <1>1, <2>6, ExitGroups
    <2>7. CASE Kill(p)
        BY <1>1, <2>7, KillGroups
    <2>. QED
        BY <2>1, <2>2, <2>3, <2>4, <2>5, <2>6, <2>7 DEF Call
<1>2. CASE TraceEnd
    BY <1>2 DEF TraceEnd, family, GInv
<1>3. CASE UNCHANGED vars
    BY <1>3 DEF vars, GInv
<1>. QED
    BY <1>1, <1>2, <1>3 DEF Next, Going, Ended

\* The threads of the table are in order as long as trace runs, for any number of
\* processes and any order of their statuses.
THEOREM ThreadsInvariance == Spec => []GInv
    BY Invariance, InitGroups, StepGroups, PTL DEF Spec

\* The two invariants give the properties of the entries.
LEMMA EntriesOfGInv ==
    IInv /\ GInv => (~over => TypeOK /\ ThreadsHaveLeader /\ ThreadCount /\ WaitCount)
<1>. SUFFICES ASSUME IInv, GInv, ~over
              PROVE  TypeOK /\ ThreadsHaveLeader /\ ThreadCount /\ WaitCount
    OBVIOUS
<1>1. PICK size : Counted(Table, size)
    BY DEF IInv, Matches
<1>2. /\ tab \in [0 .. size - 1 -> EntryOf(0 .. size - 1)] /\ size \in Nat \ {0}
      /\ \A r \in 0 .. size - 1 : tab[r].thread => tab[r].parent # Null
      /\ nprocs = Cardinality(Used(tab)) /\ Table.tab = tab
    BY <1>1 DEF Counted, Sized, Table
<1>3. Slots = 0 .. size - 1 /\ InUse = Used(tab) /\ Used(tab) \subseteq 0 .. size - 1
    BY <1>2 DEF Slots, InUse, Used
<1>4. Cardinality(Slots) = size
    BY <1>2, <1>3, FS_Interval, SMT
<1>5. Grouped(tab) /\ \E R \in Orders(leader) : Related(tab, R)
    BY DEF GInv
<1>6. ASSUME NEW s \in 0 .. size - 1
      PROVE  /\ tab[s].nthreads \in Nat /\ tab[s].nwaiting \in Nat /\ tab[s].nzombies \in Nat
             /\ tab[s].nthreads = Cardinality(ThreadsOf(tab, s))
             /\ tab[s].nwaiting = Cardinality(WaitingOf(tab, s))
             /\ tab[s].exiting => ThreadsOf(tab, s) # {}
             /\ ThreadsOf(tab, s) # {} => tab[s].pid # NoPid
    <2>1. GroupedEntry(tab, s)
        BY <1>2, <1>5 DEF Grouped
    <2>2. Cardinality(ThreadsOf(tab, s)) \in Nat /\ Cardinality(WaitingOf(tab, s)) \in Nat
        BY <1>1, <1>2, ThreadsFinite
    <2>3. tab[s].nzombies \in Int
        BY <1>2 DEF EntryOf
    <2>. QED
        BY <2>1, <2>2, <2>3, SMT DEF GroupedEntry
<1>7. nprocs \in Nat
    BY <1>2, UsedFinite
<1>8. TypeOK
    <2>1. ASSUME NEW s \in Slots
          PROVE  tab[s] \in [pid : Pids \cup {NoPid}, parent : Slots \cup {Null},
                             nchildren : Int, nzombies : Nat, nthreads : Nat, nwaiting : Nat,
                             waitpid : Pids \cup {AnyPid},
                             thread : BOOLEAN, exiting : BOOLEAN, suspended : BOOLEAN]
        <3>1. tab[s] \in EntryOf(0 .. size - 1)
            BY <1>2, <1>3
        <3>. QED
            BY <1>3, <1>6, <3>1 DEF EntryOf
    <2>. QED
        BY <1>3, <1>4, <1>7, <2>1 DEF TypeOK, IInv, GInv
<1>9. ThreadsHaveLeader
    <2>. SUFFICES ASSUME NEW s \in InUse, tab[s].thread
                  PROVE  /\ tab[s].parent \in InUse
                         /\ leader[tab[tab[s].parent].pid] = leader[tab[s].pid]
        BY DEF ThreadsHaveLeader
    <2>1. s \in 0 .. size - 1 /\ tab[s].parent \in 0 .. size - 1
        BY <1>2, <1>3 DEF EntryOf
    <2>2. s \in ThreadsOf(tab, tab[s].parent)
        BY <1>2, <2>1 DEF ThreadsOf
    <2>3. tab[s].parent \in InUse
        BY <1>2, <1>3, <1>6, <2>1, <2>2 DEF Used
    <2>4. PICK R \in Orders(leader) : Related(tab, R)
        BY <1>5
    <2>5. <<tab[tab[s].parent].pid, tab[s].pid>> \in R
        BY <1>2, <2>1, <2>4 DEF Related
    <2>6. leader[tab[tab[s].parent].pid] = leader[tab[s].pid]
        BY <2>5, OrdersGroup, SMT
    <2>. QED
        BY <2>3, <2>6
<1>10. ASSUME NEW r \in 0 .. size - 1, tab[r].thread PROVE r \in InUse
    BY <1>2, <1>3, <1>5, <1>10 DEF Grouped, GroupedEntry, Used
<1>11. ThreadCount
    <2>. SUFFICES ASSUME NEW s \in InUse
                  PROVE  /\ tab[s].nthreads =
                            Cardinality({r \in InUse : tab[r].thread /\ tab[r].parent = s})
                         /\ tab[s].exiting => tab[s].nthreads > 0
        BY DEF ThreadCount
    <2>1. {r \in InUse : tab[r].thread /\ tab[r].parent = s} = ThreadsOf(tab, s)
        BY <1>2, <1>3, <1>10 DEF ThreadsOf
    <2>2. s \in 0 .. size - 1
        BY <1>3
    <2>3. Cardinality(ThreadsOf(tab, s)) = 0 <=> ThreadsOf(tab, s) = {}
        BY <1>1, <1>2, ThreadsFinite, FS_EmptySet
    <2>4. tab[s].nthreads = Cardinality(ThreadsOf(tab, s)) /\ tab[s].nthreads \in Nat
        BY <1>6, <2>2
    <2>5. tab[s].exiting => ThreadsOf(tab, s) # {}
        BY <1>6, <2>2
    <2>6. tab[s].exiting => tab[s].nthreads > 0
        BY <2>3, <2>4, <2>5, SMT
    <2>. QED
        BY <2>1, <2>4, <2>6
<1>12. WaitCount
    <2>. SUFFICES ASSUME NEW s \in InUse
                  PROVE  tab[s].nwaiting =
                         Cardinality({r \in InUse :
                                        tab[r].thread /\ tab[r].parent = s /\ tab[r].suspended})
        BY DEF WaitCount
    <2>1. {r \in InUse : tab[r].thread /\ tab[r].parent = s /\ tab[r].suspended} = WaitingOf(tab, s)
        BY <1>2, <1>3, <1>10 DEF WaitingOf
    <2>2. s \in 0 .. size - 1
        BY <1>3
    <2>. QED
        BY <1>6, <2>1, <2>2
<1>. QED
    BY <1>8, <1>9, <1>11, <1>12

\* What is left of the table when cleanup has run: free entries.
EInv == over => \E size : Counted(Table, size) /\ Threaded(tab) /\ Used(tab) = {}

\* trace returns and cleanup runs.
LEMMA TraceEndEmpties ==
    ASSUME IInv, GInv, ~over, TraceEnd
    PROVE  EInv'
<1>. DEFINE u == Cleanup(Table)
<1>1. PICK size : Counted(Table, size)
    BY DEF IInv, Matches
<1>2. PICK R \in Orders(leader) : Grouped(tab) /\ Related(tab, R)
    BY DEF GInv
<1>3. Table.tab = tab
    BY DEF Table
<1>4. Cleaned(u, size, R, size)
    BY <1>1, <1>2, <1>3, GroupedThreaded, CleanupDone
<1>5. Store(u)
    BY DEF TraceEnd
<1>. HIDE DEF u
<1>6. /\ R \subseteq Pids \X Pids /\ \A x : ~(<<x, x>> \in R)
      /\ \A x, y, z : <<x, y>> \in R /\ <<y, z>> \in R => <<x, z>> \in R
    BY <1>2, OrdersStrict, OrdersTransitive
<1>7. Used(u.tab) = {}
    BY <1>4, <1>6, NoZombieLeft
<1>8. Counted(u, size) /\ Threaded(u.tab)
    BY <1>4 DEF Cleaned
<1>9. Table' = u /\ tab' = u.tab
    BY <1>5, <1>8, Stored DEF Store
<1>. QED
    BY <1>7, <1>8, <1>9 DEF EInv

\* Nothing happens after cleanup.
LEMMA StepEmpties == IInv /\ GInv /\ EInv /\ [Next]_vars => EInv'
<1>. SUFFICES ASSUME IInv, GInv, EInv, [Next]_vars PROVE EInv'
    OBVIOUS
<1>1. CASE ~over /\ \E p \in Pids : Iteration(p) \/ Call(p)
    <2>1. ~over'
        BY <1>1 DEF Iteration, Call, FirstStop, ForkEvent, Death, ForkCall, WaitCall, WaitNoHang,
                    WaitReaps, WaitFails, Exit, GroupExit, Kill
    <2>. QED
        BY <2>1 DEF EInv
<1>2. CASE ~over /\ TraceEnd
    BY <1>2, TraceEndEmpties
<1>3. CASE UNCHANGED vars
    <2>1. over' = over /\ Table' = Table /\ tab' = tab
        BY <1>3 DEF vars, Table
    <2>. QED
        BY <2>1 DEF EInv
<1>. QED
    BY <1>1, <1>2, <1>3 DEF Next, Going, Ended

\* cleanup has emptied the table, whatever trace left in it.
LEMMA EmptiesInvariance == Spec => []EInv
<1>1. Init => EInv
    BY DEF Init, EInv
<1>. QED
    BY <1>1, Invariance, ThreadsInvariance, StepEmpties, PTL DEF Spec

\* An empty table has the properties of the entries.
LEMMA EntriesOfEInv ==
    IInv /\ GInv /\ EInv => (over => /\ TypeOK /\ ThreadsHaveLeader /\ ThreadCount /\ WaitCount
                                    /\ CountExact /\ PidsUnique /\ InUse = {} /\ nprocs = 0)
<1>. SUFFICES ASSUME IInv, GInv, EInv, over
              PROVE  /\ TypeOK /\ ThreadsHaveLeader /\ ThreadCount /\ WaitCount
                     /\ CountExact /\ PidsUnique /\ InUse = {} /\ nprocs = 0
    OBVIOUS
<1>1. PICK size : Counted(Table, size) /\ Threaded(tab) /\ Used(tab) = {}
    BY DEF EInv
<1>2. /\ tab \in [0 .. size - 1 -> EntryOf(0 .. size - 1)] /\ size \in Nat \ {0}
      /\ nprocs = Cardinality(Used(tab)) /\ Table.tab = tab
    BY <1>1 DEF Counted, Sized, Table
<1>3. Slots = 0 .. size - 1 /\ InUse = {}
    BY <1>1, <1>2 DEF Slots, InUse, Used
<1>4. Cardinality(Slots) = size
    BY <1>2, <1>3, FS_Interval, SMT
<1>5. nprocs = 0 /\ CountExact
    BY <1>1, <1>2, <1>3, FS_EmptySet DEF CountExact
<1>6. ASSUME NEW s \in 0 .. size - 1
      PROVE  tab[s].nthreads \in Nat /\ tab[s].nwaiting \in Nat /\ tab[s].nzombies \in Nat
    <2>1. ThreadedEntry(tab, s)
        BY <1>1, <1>2 DEF Threaded
    <2>2. Cardinality(ThreadsOf(tab, s)) \in Nat /\ Cardinality(WaitingOf(tab, s)) \in Nat
        BY <1>1, <1>2, ThreadsFinite
    <2>3. tab[s].nzombies \in Int /\ tab[s].nwaiting \in Int
        BY <1>2 DEF EntryOf
    <2>. QED
        BY <2>1, <2>2, <2>3, SMT DEF ThreadedEntry
<1>7. TypeOK
    <2>1. ASSUME NEW s \in Slots
          PROVE  tab[s] \in [pid : Pids \cup {NoPid}, parent : Slots \cup {Null},
                             nchildren : Int, nzombies : Nat, nthreads : Nat, nwaiting : Nat,
                             waitpid : Pids \cup {AnyPid},
                             thread : BOOLEAN, exiting : BOOLEAN, suspended : BOOLEAN]
        <3>1. tab[s] \in EntryOf(0 .. size - 1)
            BY <1>2, <1>3
        <3>. QED
            BY <1>3, <1>6, <3>1 DEF EntryOf
    <2>2. nprocs \in Nat
        BY <1>5, SMT
    <2>. QED
        BY <1>3, <1>4, <2>1, <2>2 DEF TypeOK, IInv, GInv
<1>. QED
    BY <1>3, <1>5, <1>7 DEF ThreadsHaveLeader, ThreadCount, WaitCount, PidsUnique

\* Every field of the table keeps to its values: the counters that droptcb, resume and
\* internal_wait decrement never drop below 0, in cleanup either.
THEOREM TableTyped == Spec => []TypeOK
    BY Invariance, ThreadsInvariance, EmptiesInvariance, EntriesOfGInv, EntriesOfEInv, PTL

\* nprocs is exact: alloc_tcb never runs into "bug in alloc_tcb", and the loop of trace
\* ends with an empty table.
THEOREM CountIsExact == Spec => []CountExact
    BY Invariance, ThreadsInvariance, EmptiesInvariance, CountOfIInv, EntriesOfEInv, PTL

\* pid2tcb is unambiguous.
THEOREM PidsAreUnique == Spec => []PidsUnique
    BY Invariance, ThreadsInvariance, EmptiesInvariance, CountOfIInv, EntriesOfEInv, PTL

\* A thread's parent pointer leads to a process of its group: detach, droptcb, resume and
\* internal_wait may follow tcp->parent without a test.
THEOREM ThreadsAreLed == Spec => []ThreadsHaveLeader
    BY Invariance, ThreadsInvariance, EmptiesInvariance, EntriesOfGInv, EntriesOfEInv, PTL

\* nclone_threads is exact: droptcb neither frees a leader that has threads nor keeps one
\* that has none.
THEOREM ThreadCountIsExact == Spec => []ThreadCount
    BY Invariance, ThreadsInvariance, EmptiesInvariance, EntriesOfGInv, EntriesOfEInv, PTL

\* nclone_waiting is exact: resume_from_tcp looks for a waiting thread exactly when there
\* is one.
THEOREM WaitCountIsExact == Spec => []WaitCount
    BY Invariance, ThreadsInvariance, EmptiesInvariance, EntriesOfGInv, EntriesOfEInv, PTL

\* One pass of cleanup empties the table: the leaders that it only marks go with the last
\* of their threads, and no two zombies keep each other.
THEOREM CleanupEmpties == Spec => []Emptied
<1>1. IInv /\ GInv /\ EInv => Emptied
    BY EntriesOfEInv DEF Emptied
<1>. QED
    BY <1>1, Invariance, ThreadsInvariance, EmptiesInvariance, PTL
=============================================================================
