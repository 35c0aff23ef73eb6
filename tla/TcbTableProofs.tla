--------------------------- MODULE TcbTableProofs ---------------------------
(***************************************************************************)
(* While trace runs, the count of the table of traced processes is exact   *)
(* and its pids are unique, and trace returns only when nothing it traces  *)
(* runs, for any number of processes, any first size of the table and any  *)
(* order of statuses.                                                      *)
(***************************************************************************)
EXTENDS TcbTableSteps

\* Most leaves are first-order reasoning about sets and functions: Zenon is tried first.
USE Zenon, SMTT(20)

Active == {"run", "fork", "heldborn", "heldwait", "inwait"}
Finished == {"gone", "reaped"}

\* A process that runs or is held has an entry, and one whose entry lingers has ended.
Matches(t, tk) ==
    /\ \E size : Counted(t, size)
    /\ \A p \in Pids : tk[p] \in Active => p \in PidsOf(t.tab)
    /\ \A p \in Exiting(t.tab) : tk[p] \in Finished

IInv ==
    /\ task \in [Pids -> TaskStates]
    /\ event \in [Pids -> [child : Pids, kind : AllKinds] \cup {NoEvent}]
    /\ \A p \in Pids : task[p] = "fork" => event[p] # NoEvent
    /\ ~over => Matches(Table, task)
-----------------------------------------------------------------------------
\* The pids of the table are those of processes, and zombies are among them.
LEMMA PidsInTable ==
    ASSUME NEW t, NEW size, Counted(t, size)
    PROVE  PidsOf(t.tab) \subseteq Pids /\ Exiting(t.tab) \subseteq PidsOf(t.tab)
    BY SMT DEF Counted, Sized, PidsOf, Exiting, Used, EntryOf

\* pid2tcb finds the entry of a process that has one.
LEMMA TcbFound ==
    ASSUME NEW size, Counted(Table, size), NEW p \in Pids
    PROVE  /\ HasTcb(p) <=> p \in PidsOf(tab)
           /\ p \in PidsOf(tab) => Tcb(p) \in 0 .. size - 1 /\ tab[Tcb(p)].pid = p
<1>1. tab \in [0 .. size - 1 -> EntryOf(0 .. size - 1)] /\ p # NoPid
    BY NoneAssumption DEF Counted, Sized, Table
<1>2. HasTcb(p) <=> p \in PidsOf(tab)
    BY <1>1 DEF HasTcb, Slots, PidsOf, Used
<1>3. ASSUME HasTcb(p) PROVE Tcb(p) \in 0 .. size - 1 /\ tab[Tcb(p)].pid = p
    BY <1>1, <1>3 DEF HasTcb, Tcb, Slots
<1>. QED
    BY <1>2, <1>3

\* ptrace_restart changes nothing that Matches depends on.
LEMMA RestartKeeps ==
    ASSUME NEW tk \in [Pids -> TaskStates], NEW S
    PROVE  /\ Restart(tk, S) \in [Pids -> TaskStates]
           /\ \A p \in Pids : /\ Restart(tk, S)[p] \in Active <=> tk[p] \in Active
                              /\ tk[p] \in Finished => Restart(tk, S)[p] \in Finished
                              /\ Restart(tk, S)[p] = "fork" <=> tk[p] = "fork"
    BY DEF Restart, TaskStates, Active, Finished

\* The process p leaves, and the others go on.
LEMMA LeavingMatches ==
    ASSUME NEW t, NEW u, NEW size, NEW tk \in [Pids -> TaskStates],
           NEW tn \in [Pids -> TaskStates], NEW p \in Pids,
           Counted(t, size), Matches(t, tk), Shrunk(t, u, size, {p}),
           tn[p] \in Finished,
           \A q \in Pids \ {p} : /\ tn[q] \in Active => tk[q] \in Active
                                 /\ tk[q] \in Finished => tn[q] \in Finished
    PROVE  Matches(u, tn)
<1>1. Exiting(t.tab) \subseteq Pids
    BY PidsInTable
<1>2. Active \cap Finished = {}
    BY DEF Active, Finished
<1>3. ASSUME NEW q \in Pids, tn[q] \in Active PROVE q \in PidsOf(u.tab)
    <2>1. q # p /\ tk[q] \in Active
        BY <1>2, <1>3
    <2>2. q \in PidsOf(t.tab) /\ q \notin Exiting(t.tab)
        BY <1>2, <2>1 DEF Matches
    <2>. QED
        BY <2>1, <2>2 DEF Shrunk
<1>4. ASSUME NEW q \in Exiting(u.tab) PROVE tn[q] \in Finished
    BY <1>1, <1>4 DEF Shrunk, Matches
<1>. QED
    BY <1>3, <1>4 DEF Matches, Shrunk

\* Entries are added or changed in other fields, none is dropped.
LEMMA StayingMatches ==
    ASSUME NEW t, NEW u, NEW tk \in [Pids -> TaskStates],
           NEW tn \in [Pids -> TaskStates],
           Matches(t, tk), \E size : Counted(u, size),
           PidsOf(t.tab) \subseteq PidsOf(u.tab), Exiting(u.tab) \subseteq Exiting(t.tab),
           \A q \in Pids : /\ tn[q] \in Active => tk[q] \in Active \/ q \in PidsOf(u.tab)
                           /\ tk[q] \in Finished => tn[q] \in Finished
    PROVE  Matches(u, tn)
<1>1. Exiting(t.tab) \subseteq Pids
    BY PidsInTable DEF Matches
<1>. QED
    BY <1>1 DEF Matches
-----------------------------------------------------------------------------
\* The two variables of the table after Store.
LEMMA Stored ==
    ASSUME NEW t, NEW size, Counted(t, size), Store(t)
    PROVE  Table' = t
    BY DEF Store, Table, Counted

\* startup_child leaves one entry in use, that of Root.
LEMMA InitHolds == Init => IInv
<1>. SUFFICES ASSUME Init PROVE IInv
    OBVIOUS
<1>. DEFINE tb == [[s \in 0 .. FirstSize - 1 |-> Unused] EXCEPT ![0].pid = Root]
<1>1. FirstSize \in Nat \ {0} /\ Root \in Pids /\ Root # NoPid
    BY RootAssumption, NoneAssumption, SizeAssumption
<1>2. Unused \in EntryOf(0 .. FirstSize - 1) /\ Unused.pid = NoPid /\ Unused.thread = FALSE
      /\ Unused.exiting = FALSE
    BY SMT DEF Unused, EntryOf
<1>3. /\ tb \in [0 .. FirstSize - 1 -> EntryOf(0 .. FirstSize - 1)]
      /\ tb[0].pid = Root /\ \A s \in 0 .. FirstSize - 1 : s # 0 => tb[s].pid = NoPid
      /\ \A s \in 0 .. FirstSize - 1 : tb[s].thread = FALSE /\ tb[s].exiting = FALSE
    BY <1>1, <1>2, SMT DEF EntryOf
<1>4. tab = tb /\ nprocs = 1
    BY DEF Init
<1>. HIDE DEF tb
<1>5. Used(tb) = {0}
    BY <1>1, <1>3, SMT DEF Used
<1>6. Cardinality(Used(tb)) = 1
    BY <1>5, FS_Singleton
<1>7. Sized(tb, FirstSize)
    BY <1>3, <1>5 DEF Sized
<1>8. Counted(Table, FirstSize)
    BY <1>1, <1>4, <1>6, <1>7, CountedTable DEF Table
<1>9. PidsOf(tab) = {Root} /\ Exiting(tab) = {}
    BY <1>1, <1>3, <1>4, <1>5, SMT DEF PidsOf, Exiting
<1>10. Table.tab = tab
    BY DEF Table
<1>11. Matches(Table, task)
    BY <1>8, <1>9, <1>10 DEF Matches, Init, Active
<1>. QED
    BY <1>11 DEF IInv, Init, TaskStates

\* trace, at the first stop of a process.
LEMMA FirstStopHolds ==
    ASSUME IInv, ~over, NEW c \in Pids, FirstStop(c)
    PROVE  IInv'
<1>1. /\ task \in [Pids -> TaskStates] /\ Matches(Table, task) /\ task[c] = "born"
      /\ UNCHANGED <<event, over>> /\ Table.tab = tab
    BY DEF IInv, FirstStop, family, Table
<1>2. PICK size : Counted(Table, size)
    BY <1>1 DEF Matches
<1>3. CASE HasTcb(c)
    <2>1. task' = [task EXCEPT ![c] = "run"] /\ Table' = Table
        BY <1>3 DEF FirstStop, table, Table
    <2>2. c \in PidsOf(tab)
        BY <1>2, <1>3, TcbFound
    <2>3. /\ task' \in [Pids -> TaskStates] /\ task'[c] = "run"
          /\ \A q \in Pids \ {c} : task'[q] = task[q]
        BY <1>1, <2>1 DEF TaskStates
    <2>4. Matches(Table, task')
        BY <1>1, <1>2, <2>2, <2>3, StayingMatches, SMT DEF Finished
    <2>. QED
        BY <1>1, <2>1, <2>3, <2>4 DEF IInv
<1>4. CASE ~HasTcb(c)
    <2>. DEFINE u == Alloc(Table, c, TRUE)
    <2>1. task' = [task EXCEPT ![c] = "heldborn"] /\ Store(u)
        BY <1>4 DEF FirstStop
    <2>2. c \notin PidsOf(Table.tab)
        BY <1>1, <1>2, <1>4, TcbFound
    <2>3. /\ \E sz : Counted(u, sz)
          /\ PidsOf(u.tab) = PidsOf(Table.tab) \cup {c}
          /\ Exiting(u.tab) \subseteq Exiting(Table.tab)
        BY <1>2, <2>2, AllocKeeps
    <2>. HIDE DEF u
    <2>4. Table' = u
        BY <2>1, <2>3, Stored
    <2>5. /\ task' \in [Pids -> TaskStates] /\ task'[c] = "heldborn"
          /\ \A q \in Pids \ {c} : task'[q] = task[q]
        BY <1>1, <2>1 DEF TaskStates
    <2>6. Matches(u, task')
        BY <1>1, <2>3, <2>5, StayingMatches, SMT DEF Finished
    <2>. QED
        BY <1>1, <2>4, <2>5, <2>6 DEF IInv
<1>. QED
    BY <1>3, <1>4

\* handle_ptrace_event.
LEMMA ForkEventHolds ==
    ASSUME IInv, ~over, NEW p \in Pids, ForkEvent(p)
    PROVE  IInv'
<1>. DEFINE c == event[p].child
            k == event[p].kind
            u == AddChild(Table, Tcb(p), c, k)
            tk == [task EXCEPT ![p] = "run"]
<1>1. /\ task \in [Pids -> TaskStates] /\ Matches(Table, task) /\ task[p] = "fork"
      /\ event \in [Pids -> [child : Pids, kind : AllKinds] \cup {NoEvent}]
      /\ event' = [event EXCEPT ![p] = NoEvent] /\ over' = over /\ Table.tab = tab
      /\ event[p] # NoEvent
    BY DEF IInv, ForkEvent, Table
<1>2. c \in Pids
    BY <1>1
<1>3. PICK size : Counted(Table, size)
    BY <1>1 DEF Matches
<1>4. p \in PidsOf(tab)
    BY <1>1 DEF Matches, Active
<1>5. Tcb(p) \in 0 .. size - 1
    BY <1>3, <1>4, TcbFound
<1>6. Store(u) /\ task' = Restart(tk, {c})
    BY DEF ForkEvent
<1>. HIDE DEF c, k
<1>7. /\ \E sz : Counted(u, sz)
      /\ PidsOf(u.tab) = PidsOf(Table.tab) \cup {c}
      /\ Exiting(u.tab) \subseteq Exiting(Table.tab)
    BY <1>2, <1>3, <1>5, AddChildKeeps
<1>. HIDE DEF u
<1>8. Table' = u
    BY <1>6, <1>7, Stored
<1>9. tk \in [Pids -> TaskStates] /\ tk[p] = "run" /\ \A q \in Pids \ {p} : tk[q] = task[q]
    BY <1>1 DEF TaskStates
<1>. HIDE DEF tk
<1>10. /\ task' \in [Pids -> TaskStates]
       /\ \A q \in Pids : /\ task'[q] \in Active <=> tk[q] \in Active
                          /\ tk[q] \in Finished => task'[q] \in Finished
                          /\ task'[q] = "fork" <=> tk[q] = "fork"
    BY <1>6, <1>9, RestartKeeps
<1>11. \A q \in Pids : /\ task'[q] \in Active => task[q] \in Active \/ q \in PidsOf(u.tab)
                       /\ task[q] \in Finished => task'[q] \in Finished
    BY <1>1, <1>4, <1>7, <1>9, <1>10 DEF Finished
<1>12. Matches(u, task')
    BY <1>1, <1>7, <1>10, <1>11, StayingMatches
<1>13. \A q \in Pids : task'[q] = "fork" => event'[q] # NoEvent
    BY <1>1, <1>9, <1>10 DEF IInv
<1>14. event' \in [Pids -> [child : Pids, kind : AllKinds] \cup {NoEvent}]
    BY <1>1
<1>. QED
    BY <1>8, <1>10, <1>12, <1>13, <1>14 DEF IInv

\* trace, when a death is reported.
LEMMA DeathHolds ==
    ASSUME IInv, ~over, NEW p \in Pids, Death(p)
    PROVE  IInv'
<1>. DEFINE tk == [task EXCEPT ![p] = IF p = Root THEN "reaped" ELSE "gone"]
            S == IF Heard(p) THEN WokenPids(Tcb(p)) ELSE {}
<1>1. /\ task \in [Pids -> TaskStates] /\ Matches(Table, task)
      /\ UNCHANGED <<event, over>> /\ Table.tab = tab
      /\ task' = Restart(tk, S) /\ Store(Buried(p))
    BY DEF IInv, Death, family, Table
<1>2. PICK size : Counted(Table, size)
    BY <1>1 DEF Matches
<1>3. tk \in [Pids -> TaskStates] /\ tk[p] \in Finished /\ \A q \in Pids \ {p} : tk[q] = task[q]
    BY <1>1 DEF TaskStates, Finished
<1>. HIDE DEF tk, S
<1>4. /\ task' \in [Pids -> TaskStates]
      /\ \A q \in Pids : /\ task'[q] \in Active <=> tk[q] \in Active
                         /\ tk[q] \in Finished => task'[q] \in Finished
                         /\ task'[q] = "fork" <=> tk[q] = "fork"
    BY <1>1, <1>3, RestartKeeps
<1>5. /\ task'[p] \in Finished
      /\ \A q \in Pids \ {p} : /\ task'[q] \in Active => task[q] \in Active
                               /\ task[q] \in Finished => task'[q] \in Finished
                               /\ task'[q] = "fork" => task[q] = "fork"
    BY <1>3, <1>4
<1>6. \A q \in Pids : /\ task'[q] \in Active => task[q] \in Active
                      /\ task[q] \in Finished => task'[q] \in Finished
                      /\ task'[q] = "fork" => task[q] = "fork"
    BY <1>5 DEF Active, Finished
<1>7. Matches(Table', task')
    <2>1. CASE ~HasTcb(p)
        <3>. DEFINE u == Alloc(Table, p, TRUE)
        <3>1. Store(u)
            BY <1>1, <2>1 DEF Buried
        <3>2. p \notin PidsOf(Table.tab)
            BY <1>1, <1>2, <2>1, TcbFound
        <3>3. /\ \E sz : Counted(u, sz)
              /\ PidsOf(u.tab) = PidsOf(Table.tab) \cup {p}
              /\ Exiting(u.tab) \subseteq Exiting(Table.tab)
            BY <1>2, <3>2, AllocKeeps
        <3>. HIDE DEF u
        <3>4. Table' = u
            BY <3>1, <3>3, Stored
        <3>5. Matches(u, task')
            BY <1>1, <1>4, <1>6, <3>3, StayingMatches
        <3>. QED
            BY <3>4, <3>5
    <2>2. CASE HasTcb(p) /\ Heard(p)
        <3>. DEFINE u == Leave(Table, Tcb(p))
        <3>1. Store(u)
            BY <1>1, <2>2 DEF Buried
        <3>2. Tcb(p) \in 0 .. size - 1 /\ Table.tab[Tcb(p)].pid = p
            BY <1>1, <1>2, <2>2, TcbFound
        <3>3. Shrunk(Table, u, size, {p})
            BY <1>2, <3>2, LeaveShrinks
        <3>. HIDE DEF u
        <3>4. Table' = u
            BY <3>1, <3>3, Stored DEF Shrunk
        <3>5. Matches(u, task')
            BY <1>1, <1>2, <1>4, <1>5, <3>3, LeavingMatches
        <3>. QED
            BY <3>4, <3>5
    <2>3. CASE HasTcb(p) /\ ~Heard(p)
        <3>1. Store(Table)
            BY <1>1, <2>3 DEF Buried
        <3>2. Table' = Table
            BY <1>2, <3>1, Stored
        <3>3. Matches(Table, task')
            BY <1>1, <1>2, <1>4, <1>6, StayingMatches
        <3>. QED
            BY <3>2, <3>3
    <2>. QED
        BY <2>1, <2>2, <2>3
<1>. QED
    BY <1>1, <1>4, <1>6, <1>7 DEF IInv

\* Steps of the kernel that leave the table alone.
LEMMA TableAloneHolds ==
    ASSUME IInv, ~over, Table' = Table, over' = over,
           task' \in [Pids -> TaskStates],
           event' \in [Pids -> [child : Pids, kind : AllKinds] \cup {NoEvent}],
           \A q \in Pids : /\ task'[q] \in Active => task[q] \in Active
                           /\ task[q] \in Finished => task'[q] \in Finished
                           /\ task'[q] = "fork" => event'[q] # NoEvent
    PROVE  IInv'
<1>1. task \in [Pids -> TaskStates] /\ Matches(Table, task)
    BY DEF IInv
<1>2. \E size : Counted(Table, size)
    BY <1>1 DEF Matches
<1>3. Matches(Table, task')
    BY <1>1, <1>2, StayingMatches
<1>. QED
    BY <1>3 DEF IInv

\* A fork of the traced program: the child gets its entry later.
LEMMA ForkCallHolds ==
    ASSUME IInv, ~over, NEW p \in Pids, NEW c \in Pids, NEW k \in Kinds, ForkCall(p, c, k)
    PROVE  IInv'
<1>1. /\ task \in [Pids -> TaskStates] /\ task[p] = "run" /\ task[c] = "unborn"
      /\ task' = [task EXCEPT ![p] = "fork", ![c] = "born"] /\ over' = over
      /\ event' = [event EXCEPT ![p] = [child |-> c, kind |-> k]] /\ Table' = Table
      /\ event \in [Pids -> [child : Pids, kind : AllKinds] \cup {NoEvent}]
    BY DEF IInv, ForkCall, table, Table
<1>2. [child |-> c, kind |-> k] \in [child : Pids, kind : AllKinds]
    BY KindsAssumption
<1>3. [child |-> c, kind |-> k] # NoEvent
    BY NoneAssumption DEF NoEvent
<1>4. p # c /\ task'[p] = "fork" /\ task'[c] = "born" /\ task' \in [Pids -> TaskStates]
      /\ \A q \in Pids \ {p, c} : task'[q] = task[q]
    BY <1>1 DEF TaskStates
<1>5. /\ event' \in [Pids -> [child : Pids, kind : AllKinds] \cup {NoEvent}]
      /\ event'[p] # NoEvent /\ \A q \in Pids \ {p} : event'[q] = event[q]
    BY <1>1, <1>2, <1>3
<1>6. \A q \in Pids : task[q] = "fork" => event[q] # NoEvent
    BY DEF IInv
<1>. QED
    BY <1>1, <1>4, <1>5, <1>6, TableAloneHolds DEF Active, Finished

\* SIGKILL: the processes end, their entries stay until their deaths are reported.
LEMMA KillHolds ==
    ASSUME IInv, ~over, NEW p \in Pids, Kill(p)
    PROVE  IInv'
<1>1. /\ task \in [Pids -> TaskStates] /\ UNCHANGED <<event, over>> /\ Table' = Table
      /\ task' = [q \in Pids |-> IF q \in Threads(p) THEN "died" ELSE task[q]]
      /\ event \in [Pids -> [child : Pids, kind : AllKinds] \cup {NoEvent}]
      /\ \A q \in Pids : task[q] = "fork" => event[q] # NoEvent
    BY DEF IInv, Kill, table, family, Table
<1>2. \A q \in Threads(p) : task[q] \notin Finished
    BY DEF Threads, Traced, Finished
<1>3. task' \in [Pids -> TaskStates]
    BY <1>1 DEF TaskStates
<1>. QED
    BY <1>1, <1>2, <1>3, TableAloneHolds DEF Active, Finished

\* Steps of a running process or of one in wait4 that change other fields only.
LEMMA TableAlikeHolds ==
    ASSUME IInv, ~over, over' = over, event' = event, nprocs' = nprocs,
           NEW size, Counted(Table, size), Alike(tab, tab', size),
           task' \in [Pids -> TaskStates],
           \A q \in Pids : /\ task'[q] \in Active => task[q] \in Active
                           /\ task[q] \in Finished => task'[q] \in Finished
                           /\ task'[q] # "fork" \/ task[q] = "fork"
    PROVE  IInv'
<1>1. task \in [Pids -> TaskStates] /\ Matches(Table, task) /\ Table.tab = tab
      /\ Table.n = nprocs
    BY DEF IInv, Table
<1>2. /\ Counted([tab |-> tab', n |-> nprocs], size)
      /\ PidsOf(tab') = PidsOf(tab) /\ Exiting(tab') = Exiting(tab)
    BY <1>1, AlikeKeeps
<1>3. Table' = [tab |-> tab', n |-> nprocs]
    BY DEF Table
<1>4. (Table').tab = tab'
    BY <1>3
<1>5. Matches(Table', task')
    BY <1>1, <1>2, <1>3, <1>4, StayingMatches
<1>. QED
    BY <1>5 DEF IInv

\* internal_wait holds a process: its entry and the count of its leader change.
LEMMA SuspendAlike ==
    ASSUME NEW size, Counted(Table, size), NEW s \in 0 .. size - 1,
           NEW w \in Pids \cup {AnyPid}
    PROVE  Alike(tab, Suspend(s, w), size)
<1>. DEFINE held == [tab EXCEPT ![s] = Hold(tab[s], w)]
            q == tab[s].parent
<1>1. /\ tab \in [0 .. size - 1 -> EntryOf(0 .. size - 1)]
      /\ \A r \in 0 .. size - 1 : tab[r].thread => tab[r].parent # Null
    BY DEF Counted, Sized, Table
<1>2. /\ Hold(tab[s], w) \in EntryOf(0 .. size - 1)
      /\ Hold(tab[s], w).pid = tab[s].pid /\ Hold(tab[s], w).exiting = tab[s].exiting
      /\ Hold(tab[s], w).thread = tab[s].thread /\ Hold(tab[s], w).parent = tab[s].parent
    <2>1. tab[s] \in EntryOf(0 .. size - 1)
        BY <1>1
    <2>2. Hold(tab[s], w) \in EntryOf(0 .. size - 1)
        BY <2>1, EntriesKept
    <2>. QED
        BY <2>1, <2>2 DEF Hold, EntryOf
<1>3. Alike(tab, held, size)
    BY <1>1, <1>2 DEF Alike
<1>4. Suspend(s, w) = IF tab[s].thread THEN [held EXCEPT ![q].nwaiting = @ + 1] ELSE held
    BY DEF Suspend
<1>5. tab[s].thread => q \in 0 .. size - 1
    BY <1>1 DEF EntryOf
<1>. HIDE DEF held, q
<1>6. CASE ~tab[s].thread
    BY <1>3, <1>4, <1>6
<1>7. CASE tab[s].thread
    <2>1. held \in [0 .. size - 1 -> EntryOf(0 .. size - 1)] /\ q \in 0 .. size - 1
        BY <1>3, <1>5, <1>7 DEF Alike
    <2>. DEFINE rec == [held[q] EXCEPT !.nwaiting = held[q].nwaiting + 1]
    <2>2. Suspend(s, w) = [held EXCEPT ![q] = rec]
        BY <1>4, <1>7, <2>1 DEF EntryOf
    <2>3. /\ rec \in EntryOf(0 .. size - 1) /\ rec.pid = held[q].pid
          /\ rec.exiting = held[q].exiting /\ rec.thread = held[q].thread
          /\ rec.parent = held[q].parent
        BY <2>1, SMT DEF EntryOf
    <2>. HIDE DEF rec
    <2>. QED
        BY <1>3, <2>1, <2>2, <2>3 DEF Alike
<1>. QED
    BY <1>6, <1>7

\* A table is like itself.
LEMMA SameAlike ==
    ASSUME NEW size, Counted(Table, size)
    PROVE  Alike(tab, tab, size)
    BY DEF Counted, Sized, Alike, Table

\* internal_wait on entry.
LEMMA WaitCallHolds ==
    ASSUME IInv, ~over, NEW p \in Pids, NEW w \in Awaited(p), WaitCall(p, w)
    PROVE  IInv'
<1>1. /\ task \in [Pids -> TaskStates] /\ task[p] = "run" /\ Matches(Table, task)
      /\ event' = event /\ over' = over /\ nprocs' = nprocs /\ Table.tab = tab
    BY DEF IInv, WaitCall, family, Table
<1>2. PICK size : Counted(Table, size)
    BY <1>1 DEF Matches
<1>3. Tcb(p) \in 0 .. size - 1
    <2>1. p \in PidsOf(tab)
        BY <1>1 DEF Matches, Active
    <2>. QED
        BY <1>2, <2>1, TcbFound
<1>4. w \in Pids \cup {AnyPid}
    BY DEF Awaited
<1>5. Alike(tab, tab', size)
    BY <1>2, <1>3, <1>4, SuspendAlike, SameAlike DEF WaitCall
<1>6. \E b \in {"heldwait", "inwait"} : task' = [task EXCEPT ![p] = b]
    BY DEF WaitCall
<1>7. /\ task' \in [Pids -> TaskStates] /\ task'[p] \in {"heldwait", "inwait"}
      /\ \A q \in Pids \ {p} : task'[q] = task[q]
    BY <1>1, <1>6 DEF TaskStates
<1>8. \A q \in Pids : /\ task'[q] \in Active => task[q] \in Active
                      /\ task[q] \in Finished => task'[q] \in Finished
                      /\ task'[q] # "fork" \/ task[q] = "fork"
    BY <1>1, <1>7 DEF Active, Finished
<1>. QED
    BY <1>1, <1>2, <1>5, <1>7, <1>8, TableAlikeHolds

\* internal_wait on return, and a wait4 that does not block.
LEMMA WaitReturnHolds ==
    ASSUME IInv, ~over, NEW p \in Pids,
           WaitNoHang(p) \/ WaitFails(p) \/ \E r \in Pids : WaitReaps(p, r)
    PROVE  IInv'
<1>1. /\ task \in [Pids -> TaskStates] /\ Matches(Table, task) /\ task[p] \in {"run", "inwait"}
      /\ event' = event /\ over' = over /\ nprocs' = nprocs /\ Table.tab = tab
    BY DEF IInv, WaitNoHang, WaitFails, WaitReaps, family, table, Table
<1>2. PICK size : Counted(Table, size)
    BY <1>1 DEF Matches
<1>3. /\ task' \in [Pids -> TaskStates] /\ task'[p] \in {"run", "inwait"}
      /\ \A q \in Pids \ {p} :
            task'[q] = task[q] \/ (task[q] = "gone" /\ task'[q] = "reaped")
    BY <1>1 DEF WaitNoHang, WaitFails, WaitReaps, TaskStates
<1>4. \A q \in Pids : /\ task'[q] \in Active => task[q] \in Active
                      /\ task[q] \in Finished => task'[q] \in Finished
                      /\ task'[q] # "fork" \/ task[q] = "fork"
    BY <1>1, <1>3 DEF Active, Finished
<1>5. Alike(tab, tab', size)
    <2>1. CASE tab' = tab
        BY <1>2, <2>1, SameAlike
    <2>2. CASE tab' # tab
        <3>1. tab' = [tab EXCEPT ![Tcb(p)].nzombies = @ - 1]
            BY <2>2 DEF WaitNoHang, WaitFails, WaitReaps, table
        <3>2. Tcb(p) \in 0 .. size - 1
            <4>1. p \in PidsOf(tab)
                BY <1>1 DEF Matches, Active
            <4>. QED
                BY <1>2, <4>1, TcbFound
        <3>3. /\ tab \in [0 .. size - 1 -> EntryOf(0 .. size - 1)]
              /\ \A r \in 0 .. size - 1 : tab[r].thread => tab[r].parent # Null
            BY <1>2 DEF Counted, Sized, Table
        <3>. DEFINE rec == [tab[Tcb(p)] EXCEPT !.nzombies = tab[Tcb(p)].nzombies - 1]
        <3>4. /\ rec \in EntryOf(0 .. size - 1) /\ rec.pid = tab[Tcb(p)].pid
              /\ rec.exiting = tab[Tcb(p)].exiting /\ rec.thread = tab[Tcb(p)].thread
              /\ rec.parent = tab[Tcb(p)].parent
            BY <3>2, <3>3, SMT DEF EntryOf
        <3>5. tab' = [tab EXCEPT ![Tcb(p)] = rec]
            BY <3>1, <3>2, <3>3 DEF EntryOf
        <3>. HIDE DEF rec
        <3>. QED
            BY <3>2, <3>3, <3>4, <3>5 DEF Alike
    <2>. QED
        BY <2>1, <2>2
<1>. QED
    BY <1>1, <1>2, <1>3, <1>4, <1>5, TableAlikeHolds

\* A process leaves by itself or with its group: detach.
LEMMA DetachHolds ==
    ASSUME IInv, ~over, over' = over, event' = event, NEW p \in Pids, task[p] \in Active,
           Store(Detach(Table, Tcb(p))), task' \in [Pids -> TaskStates],
           task'[p] \in Finished,
           \A q \in Pids \ {p} : /\ task'[q] \in Active => task[q] \in Active
                                 /\ task[q] \in Finished => task'[q] \in Finished
                                 /\ task'[q] # "fork" \/ task[q] = "fork"
    PROVE  IInv'
<1>. DEFINE u == Detach(Table, Tcb(p))
<1>1. task \in [Pids -> TaskStates] /\ Matches(Table, task) /\ Table.tab = tab
    BY DEF IInv, Table
<1>2. PICK size : Counted(Table, size)
    BY <1>1 DEF Matches
<1>3. Tcb(p) \in 0 .. size - 1 /\ Table.tab[Tcb(p)].pid = p
    <2>1. p \in PidsOf(tab)
        BY <1>1 DEF Matches
    <2>. QED
        BY <1>1, <1>2, <2>1, TcbFound
<1>4. Shrunk(Table, u, size, {p})
    BY <1>2, <1>3, DetachShrinks
<1>5. Store(u)
    OBVIOUS
<1>. HIDE DEF u
<1>6. Table' = u
    BY <1>4, <1>5, Stored DEF Shrunk
<1>7. Matches(u, task')
    BY <1>1, <1>2, <1>4, LeavingMatches
<1>8. \A q \in Pids : task'[q] = "fork" => event'[q] # NoEvent
    BY DEF IInv, Finished
<1>. QED
    BY <1>6, <1>7, <1>8 DEF IInv

\* _exit.
LEMMA ExitHolds ==
    ASSUME IInv, ~over, NEW p \in Pids, Exit(p)
    PROVE  IInv'
<1>. DEFINE tk == [task EXCEPT ![p] = "gone"]
            S == WokenPids(Tcb(p))
<1>1. /\ task \in [Pids -> TaskStates] /\ task[p] = "run" /\ event' = event /\ over' = over
      /\ Store(Detach(Table, Tcb(p))) /\ task' = Restart(tk, S)
    BY DEF IInv, Exit, family
<1>2. tk \in [Pids -> TaskStates] /\ tk[p] = "gone" /\ \A q \in Pids \ {p} : tk[q] = task[q]
    BY <1>1 DEF TaskStates
<1>. HIDE DEF tk, S
<1>3. /\ task' \in [Pids -> TaskStates]
      /\ \A q \in Pids : /\ task'[q] \in Active <=> tk[q] \in Active
                         /\ tk[q] \in Finished => task'[q] \in Finished
                         /\ task'[q] = "fork" <=> tk[q] = "fork"
    BY <1>1, <1>2, RestartKeeps
<1>4. task[p] \in Active /\ task'[p] \in Finished
    BY <1>1, <1>2, <1>3 DEF Active, Finished
<1>. QED
    BY <1>1, <1>2, <1>3, <1>4, DetachHolds

\* exit_group and fatal signals.
LEMMA GroupExitHolds ==
    ASSUME IInv, ~over, NEW p \in Pids, GroupExit(p)
    PROVE  IInv'
<1>. DEFINE tk == [q \in Pids |-> IF q = p THEN "gone"
                                  ELSE IF q \in Threads(p) THEN "died" ELSE task[q]]
            S == WokenPids(Tcb(p))
<1>1. /\ task \in [Pids -> TaskStates] /\ task[p] \in {"run", "inwait"}
      /\ event' = event /\ over' = over
      /\ Store(Detach(Table, Tcb(p))) /\ task' = Restart(tk, S)
    BY DEF IInv, GroupExit, family
<1>2. \A q \in Threads(p) : task[q] \notin Finished
    BY DEF Threads, Traced, Finished
<1>3. /\ tk \in [Pids -> TaskStates] /\ tk[p] = "gone"
      /\ \A q \in Pids \ {p} : tk[q] = task[q] \/ (tk[q] = "died" /\ task[q] \notin Finished)
    BY <1>1, <1>2 DEF TaskStates
<1>. HIDE DEF tk, S
<1>4. /\ task' \in [Pids -> TaskStates]
      /\ \A q \in Pids : /\ task'[q] \in Active <=> tk[q] \in Active
                         /\ tk[q] \in Finished => task'[q] \in Finished
                         /\ task'[q] = "fork" <=> tk[q] = "fork"
    BY <1>1, <1>3, RestartKeeps, SMT
<1>5. task[p] \in Active /\ task'[p] \in Finished
    BY <1>1, <1>3, <1>4 DEF Active, Finished
<1>6. \A q \in Pids \ {p} : /\ task'[q] \in Active => task[q] \in Active
                            /\ task[q] \in Finished => task'[q] \in Finished
                            /\ task'[q] # "fork" \/ task[q] = "fork"
    BY <1>3, <1>4 DEF Active
<1>. QED
    BY <1>1, <1>4, <1>5, <1>6, DetachHolds
-----------------------------------------------------------------------------
\* Every step keeps the inductive invariant.
LEMMA StepHolds == IInv /\ [Next]_vars => IInv'
<1>. SUFFICES ASSUME IInv, [Next]_vars PROVE IInv'
    OBVIOUS
<1>1. CASE ~over /\ \E p \in Pids : Iteration(p) \/ Call(p)
    <2>. PICK p \in Pids : Iteration(p) \/ Call(p)
        BY <1>1
    <2>1. CASE Iteration(p)
        BY <1>1, <2>1, FirstStopHolds, ForkEventHolds, DeathHolds DEF Iteration
    <2>2. CASE \E c \in Pids, k \in Kinds : ForkCall(p, c, k)
        BY <1>1, <2>2, ForkCallHolds
    <2>3. CASE \E w \in Awaited(p) : WaitCall(p, w)
        BY <1>1, <2>3, WaitCallHolds
    <2>4. CASE WaitNoHang(p) \/ WaitFails(p) \/ \E r \in Pids : WaitReaps(p, r)
        BY <1>1, <2>4, WaitReturnHolds
    <2>5. CASE Exit(p)
        BY <1>1, <2>5, ExitHolds
    <2>6. CASE GroupExit(p)
        BY <1>1, <2>6, GroupExitHolds
    <2>7. CASE Kill(p)
        BY <1>1, <2>7, KillHolds
    <2>. QED
        BY <2>1, <2>2, <2>3, <2>4, <2>5, <2>6, <2>7 DEF Call
<1>2. CASE TraceEnd
    BY <1>2 DEF TraceEnd, family, IInv
<1>3. CASE UNCHANGED vars
    <2>1. task' = task /\ event' = event /\ over' = over /\ Table' = Table
        BY <1>3 DEF vars, Table
    <2>. QED
        BY <2>1 DEF IInv
<1>. QED
    BY <1>1, <1>2, <1>3 DEF Next, Going, Ended

\* Every process that runs has its entry, and only ended ones have an entry that lingers,
\* as long as trace runs.
THEOREM Invariance == Spec => []IInv
    BY InitHolds, StepHolds, PTL DEF Spec

\* The inductive invariant gives the two properties.
LEMMA CountOfIInv == IInv => (~over => CountExact /\ PidsUnique)
<1>. SUFFICES ASSUME IInv, ~over PROVE CountExact /\ PidsUnique
    OBVIOUS
<1>1. PICK size : Counted(Table, size)
    BY DEF IInv, Matches
<1>2. Table.tab = tab /\ Table.n = nprocs /\ InUse = Used(tab)
    BY DEF Table, InUse, Used, Slots
<1>. QED
    BY <1>1, <1>2 DEF Counted, Sized, CountExact, PidsUnique

\* The entries in use are those of processes, and the child of a fork event is one.
LEMMA ProcessesKnown ==
    ASSUME IInv, ~over
    PROVE  /\ \A s \in Used(tab) : tab[s].pid \in Pids
           /\ \A p \in Pids : task[p] = "fork" => event[p].child \in Pids
<1>1. PICK size : Counted(Table, size)
    BY DEF IInv, Matches
<1>2. tab \in [0 .. size - 1 -> EntryOf(0 .. size - 1)]
    BY <1>1 DEF Counted, Sized, Table
<1>3. \A s \in Used(tab) : tab[s].pid \in Pids
    BY <1>2 DEF Used, EntryOf
<1>4. ASSUME NEW p \in Pids, task[p] = "fork" PROVE event[p].child \in Pids
    <2>1. event[p] \in [child : Pids, kind : AllKinds]
        BY <1>4 DEF IInv
    <2>. QED
        BY <2>1
<1>. QED
    BY <1>3, <1>4
-----------------------------------------------------------------------------
\* No fatal signals and no threads: a process ends by its own exit alone.
Quiet == ~Signals /\ "thread" \notin Kinds

\* A child that has not been reported yet has its entry from its parent's event, or
\* the parent, which has an entry, is still at that event.
Heralded(tb, tk, ev) ==
    \A c \in Pids : tk[c] = "born" =>
        c \in PidsOf(tb) \/ \E p \in Pids : tk[p] = "fork" /\ ev[p].child = c

Alone(tk, ld) == \A p \in Pids : ld[p] = p /\ tk[p] # "died"

\* When trace returns: nobody who runs or is held is left, and without signals and
\* threads nobody at all.
OInv ==
    /\ over => \A p \in Pids : task[p] \notin Active
    /\ Quiet => /\ Alone(task, leader)
                /\ ~over => Heralded(tab, task, event)
                /\ TraceOutlivesAll

\* Steps that drop the entries of P at most.
LEMMA HeraldedKept ==
    ASSUME IInv, ~over, Heralded(tab, task, event), NEW P, NEW ub, NEW tn,
           PidsOf(tab) \ (P \cup Exiting(tab)) \subseteq PidsOf(ub),
           \A q \in Pids : /\ tn[q] = "born" => task[q] = "born" /\ q \notin P
                           /\ task[q] = "fork" => tn[q] = "fork"
    PROVE  Heralded(ub, tn, event)
<1>. SUFFICES ASSUME NEW c \in Pids, tn[c] = "born", c \notin PidsOf(ub)
              PROVE  \E p \in Pids : tn[p] = "fork" /\ event[p].child = c
    BY DEF Heralded
<1>1. task[c] = "born" /\ c \notin P
    OBVIOUS
<1>2. c \notin Exiting(tab)
    BY <1>1 DEF IInv, Matches, Table, Finished
<1>3. c \notin PidsOf(tab)
    BY <1>1, <1>2
<1>. QED
    BY <1>1, <1>3 DEF Heralded

\* What is left to show of a step while trace runs.
LEMMA OInvOf ==
    ASSUME ~over, over' = over,
           Quiet => Alone(task', leader') /\ Heralded(tab', task', event')
    PROVE  OInv'
    BY DEF OInv, TraceOutlivesAll

\* ptrace_restart is not about newborns, fork events and deaths.
LEMMA RestartQuiet ==
    ASSUME NEW tk \in [Pids -> TaskStates], NEW S, NEW q \in Pids
    PROVE  /\ Restart(tk, S)[q] = "born" <=> tk[q] = "born"
           /\ Restart(tk, S)[q] = "fork" <=> tk[q] = "fork"
           /\ Restart(tk, S)[q] = "died" <=> tk[q] = "died"
    BY DEF Restart, TaskStates

\* trace, at the first stop of a process.
LEMMA FirstStopOutlives ==
    ASSUME IInv, OInv, ~over, NEW c \in Pids, FirstStop(c)
    PROVE  OInv'
<1>. SUFFICES ASSUME Quiet PROVE Alone(task', leader') /\ Heralded(tab', task', event')
    BY OInvOf DEF FirstStop
<1>1. /\ task \in [Pids -> TaskStates] /\ task[c] = "born" /\ Table.tab = tab
      /\ UNCHANGED <<event, leader>> /\ Alone(task, leader) /\ Heralded(tab, task, event)
      /\ Matches(Table, task)
    BY DEF IInv, OInv, FirstStop, family, Table
<1>2. PICK size : Counted(Table, size)
    BY <1>1 DEF Matches
<1>3. task'[c] \in {"run", "heldborn"} /\ \A q \in Pids \ {c} : task'[q] = task[q]
    BY <1>1 DEF FirstStop
<1>4. PidsOf(tab) \subseteq PidsOf(tab')
    <2>1. CASE HasTcb(c)
        BY <2>1 DEF FirstStop, table
    <2>2. CASE ~HasTcb(c)
        <3>1. tab' = Alloc(Table, c, TRUE).tab
            BY <2>2 DEF FirstStop, Store
        <3>2. c \notin PidsOf(Table.tab)
            BY <1>1, <1>2, <2>2, TcbFound
        <3>3. PidsOf(Alloc(Table, c, TRUE).tab) = PidsOf(Table.tab) \cup {c}
            BY <1>2, <3>2, AllocKeeps
        <3>. QED
            BY <1>1, <3>1, <3>3
    <2>. QED
        BY <2>1, <2>2
<1>5. Heralded(tab', task', event)
    BY <1>1, <1>3, <1>4, SMT DEF Heralded
<1>. QED
    BY <1>1, <1>3, <1>5 DEF Alone

\* handle_ptrace_event: the child has its entry.
LEMMA ForkEventOutlives ==
    ASSUME IInv, OInv, ~over, NEW p \in Pids, ForkEvent(p)
    PROVE  OInv'
<1>. SUFFICES ASSUME Quiet PROVE Alone(task', leader') /\ Heralded(tab', task', event')
    BY OInvOf DEF ForkEvent
<1>. DEFINE c == event[p].child
            k == event[p].kind
            u == AddChild(Table, Tcb(p), c, k)
            tk == [task EXCEPT ![p] = "run"]
<1>1. /\ task \in [Pids -> TaskStates] /\ Matches(Table, task) /\ task[p] = "fork"
      /\ event \in [Pids -> [child : Pids, kind : AllKinds] \cup {NoEvent}]
      /\ event' = [event EXCEPT ![p] = NoEvent] /\ leader' = leader /\ Table.tab = tab
      /\ Alone(task, leader) /\ Heralded(tab, task, event)
    BY DEF IInv, OInv, ForkEvent, Table
<1>2. PICK size : Counted(Table, size)
    BY <1>1 DEF Matches
<1>3. c \in Pids
    BY <1>1, ProcessesKnown
<1>4. Tcb(p) \in 0 .. size - 1
    <2>1. p \in PidsOf(tab)
        BY <1>1 DEF Matches, Active
    <2>. QED
        BY <1>2, <2>1, TcbFound
<1>5. tab' = u.tab /\ task' = Restart(tk, {c})
    BY DEF ForkEvent, Store
<1>6. tk \in [Pids -> TaskStates] /\ tk[p] = "run" /\ \A q \in Pids \ {p} : tk[q] = task[q]
    BY <1>1 DEF TaskStates
<1>. HIDE DEF tk, c, k
<1>7. PidsOf(u.tab) = PidsOf(Table.tab) \cup {c}
    BY <1>2, <1>3, <1>4, AddChildKeeps, SMT
<1>. HIDE DEF u
<1>8. \A q \in Pids : /\ task'[q] = "born" <=> tk[q] = "born"
                      /\ task'[q] = "fork" <=> tk[q] = "fork"
                      /\ task'[q] = "died" <=> tk[q] = "died"
    BY <1>5, <1>6, RestartQuiet, SMT
<1>9. Alone(task', leader')
    BY <1>1, <1>6, <1>8 DEF Alone
<1>10. ASSUME NEW x \in Pids, task'[x] = "born", x \notin PidsOf(tab')
       PROVE  \E q \in Pids : task'[q] = "fork" /\ event'[q].child = x
    <2>1. task[x] = "born" /\ x \notin PidsOf(tab) /\ x # c
        BY <1>1, <1>5, <1>6, <1>7, <1>8, <1>10
    <2>2. PICK q \in Pids : task[q] = "fork" /\ event[q].child = x
        BY <1>1, <2>1 DEF Heralded
    <2>3. q # p
        BY <2>1, <2>2 DEF c
    <2>. QED
        BY <1>1, <1>6, <1>8, <2>2, <2>3
<1>. QED
    BY <1>9, <1>10 DEF Heralded

\* trace, when a death is reported: only that of Root, which is gone, can be.
LEMMA DeathOutlives ==
    ASSUME IInv, OInv, ~over, NEW p \in Pids, Death(p)
    PROVE  OInv'
<1>. SUFFICES ASSUME Quiet PROVE Alone(task', leader') /\ Heralded(tab', task', event')
    BY OInvOf DEF Death
<1>. DEFINE tk == [task EXCEPT ![p] = IF p = Root THEN "reaped" ELSE "gone"]
            S == IF Heard(p) THEN WokenPids(Tcb(p)) ELSE {}
<1>1. /\ task \in [Pids -> TaskStates] /\ Matches(Table, task) /\ Table.tab = tab
      /\ UNCHANGED <<event, leader>> /\ task' = Restart(tk, S) /\ tab' = Buried(p).tab
      /\ Alone(task, leader) /\ Heralded(tab, task, event)
    BY DEF IInv, OInv, Death, family, Table, Store
<1>2. PICK size : Counted(Table, size)
    BY <1>1 DEF Matches
<1>3. task[p] = "gone"
    BY <1>1 DEF Death, Reportable, Alone
<1>4. /\ tk \in [Pids -> TaskStates] /\ tk[p] \in {"gone", "reaped"}
      /\ \A q \in Pids \ {p} : tk[q] = task[q]
    BY <1>1 DEF TaskStates
<1>. HIDE DEF tk, S
<1>5. \A q \in Pids : /\ task'[q] = "born" <=> tk[q] = "born"
                      /\ task'[q] = "fork" <=> tk[q] = "fork"
                      /\ task'[q] = "died" <=> tk[q] = "died"
    BY <1>1, <1>4, RestartQuiet, SMT
<1>6. Alone(task', leader')
    BY <1>1, <1>4, <1>5 DEF Alone
<1>7. PidsOf(tab) \ ({p} \cup Exiting(tab)) \subseteq PidsOf(tab')
    <2>1. CASE ~HasTcb(p)
        <3>1. tab' = Alloc(Table, p, TRUE).tab
            BY <1>1, <2>1 DEF Buried
        <3>2. p \notin PidsOf(Table.tab)
            BY <1>1, <1>2, <2>1, TcbFound
        <3>3. PidsOf(Alloc(Table, p, TRUE).tab) = PidsOf(Table.tab) \cup {p}
            BY <1>2, <3>2, AllocKeeps
        <3>. QED
            BY <1>1, <3>1, <3>3
    <2>2. CASE HasTcb(p) /\ Heard(p)
        <3>1. tab' = Leave(Table, Tcb(p)).tab
            BY <1>1, <2>2 DEF Buried
        <3>2. Tcb(p) \in 0 .. size - 1 /\ Table.tab[Tcb(p)].pid = p
            BY <1>1, <1>2, <2>2, TcbFound
        <3>3. Shrunk(Table, Leave(Table, Tcb(p)), size, {p})
            BY <1>2, <3>2, LeaveShrinks
        <3>. QED
            BY <1>1, <3>1, <3>3 DEF Shrunk
    <2>3. CASE HasTcb(p) /\ ~Heard(p)
        BY <1>1, <2>3 DEF Buried
    <2>. QED
        BY <2>1, <2>2, <2>3
<1>8. \A q \in Pids : /\ task'[q] = "born" => task[q] = "born" /\ q \notin {p}
                      /\ task[q] = "fork" => task'[q] = "fork"
    BY <1>3, <1>4, <1>5
<1>9. Heralded(tab', task', event)
    BY <1>1, <1>7, <1>8, HeraldedKept
<1>. QED
    BY <1>1, <1>6, <1>9

\* A fork of the traced program: its parent heralds the child.
LEMMA ForkCallOutlives ==
    ASSUME IInv, OInv, ~over, NEW p \in Pids, NEW c \in Pids, NEW k \in Kinds, ForkCall(p, c, k)
    PROVE  OInv'
<1>. SUFFICES ASSUME Quiet PROVE Alone(task', leader') /\ Heralded(tab', task', event')
    BY OInvOf DEF ForkCall
<1>1. /\ task \in [Pids -> TaskStates] /\ task[p] = "run" /\ task[c] = "unborn"
      /\ task' = [task EXCEPT ![p] = "fork", ![c] = "born"] /\ tab' = tab
      /\ event' = [event EXCEPT ![p] = [child |-> c, kind |-> k]]
      /\ leader' = [leader EXCEPT ![c] = IF k = "thread" THEN leader[p] ELSE c]
      /\ event \in [Pids -> [child : Pids, kind : AllKinds] \cup {NoEvent}]
      /\ Alone(task, leader) /\ Heralded(tab, task, event)
    BY DEF IInv, OInv, ForkCall, table
<1>2. k # "thread"
    BY DEF Quiet
<1>3. p # c /\ task'[p] = "fork" /\ task'[c] = "born" /\ \A q \in Pids \ {p, c} : task'[q] = task[q]
    BY <1>1
<1>4. event'[p].child = c /\ \A q \in Pids \ {p} : event'[q] = event[q]
    BY <1>1
<1>5. Alone(task', leader')
    <2>1. \A q \in Pids : leader'[q] = q \/ leader'[q] = leader[q]
        BY <1>1, <1>2, SMT
    <2>. QED
        BY <1>1, <1>3, <2>1 DEF Alone
<1>6. ASSUME NEW x \in Pids, task'[x] = "born", x \notin PidsOf(tab')
      PROVE  \E q \in Pids : task'[q] = "fork" /\ event'[q].child = x
    <2>1. CASE x = c
        BY <1>3, <1>4, <2>1
    <2>2. CASE x # c
        <3>1. task[x] = "born" /\ x \notin PidsOf(tab)
            BY <1>1, <1>3, <1>6, <2>2
        <3>2. PICK q \in Pids : task[q] = "fork" /\ event[q].child = x
            BY <1>1, <3>1 DEF Heralded
        <3>. QED
            BY <1>1, <1>3, <1>4, <3>2
    <2>. QED
        BY <2>1, <2>2
<1>. QED
    BY <1>5, <1>6 DEF Heralded

\* wait4, on entry and on return: the table keeps its pids.
LEMMA WaitsOutlive ==
    ASSUME IInv, OInv, ~over, NEW p \in Pids,
           \/ \E w \in Awaited(p) : WaitCall(p, w)
           \/ WaitNoHang(p) \/ WaitFails(p) \/ \E r \in Pids : WaitReaps(p, r)
    PROVE  OInv'
<1>. SUFFICES ASSUME Quiet PROVE Alone(task', leader') /\ Heralded(tab', task', event')
    BY OInvOf DEF WaitCall, WaitNoHang, WaitFails, WaitReaps
<1>1. /\ task \in [Pids -> TaskStates] /\ Matches(Table, task) /\ Table.tab = tab
      /\ Alone(task, leader) /\ Heralded(tab, task, event)
    BY DEF IInv, OInv, Table
<1>2. PICK size : Counted(Table, size)
    BY <1>1 DEF Matches
<1>3. UNCHANGED <<event, leader>> /\ task[p] \in {"run", "inwait"}
    BY DEF WaitCall, WaitNoHang, WaitFails, WaitReaps, family
<1>4. /\ task'[p] \in {"run", "inwait", "heldwait"}
      /\ \A q \in Pids \ {p} : task'[q] = task[q] \/ (task[q] = "gone" /\ task'[q] = "reaped")
    BY <1>1 DEF WaitCall, WaitNoHang, WaitFails, WaitReaps
<1>5. Tcb(p) \in 0 .. size - 1
    <2>1. p \in PidsOf(tab)
        BY <1>1, <1>3 DEF Matches, Active
    <2>. QED
        BY <1>2, <2>1, TcbFound
<1>6. PidsOf(tab') = PidsOf(tab)
    <2>1. CASE tab' = tab
        BY <2>1
    <2>2. CASE \E w \in Awaited(p) : tab' = Suspend(Tcb(p), w)
        <3>1. PICK w \in Awaited(p) : tab' = Suspend(Tcb(p), w)
            BY <2>2
        <3>2. w \in Pids \cup {AnyPid}
            BY DEF Awaited
        <3>3. Alike(tab, tab', size)
            BY <1>2, <1>5, <3>1, <3>2, SuspendAlike
        <3>. QED
            BY <1>1, <1>2, <3>3, AlikeKeeps
    <2>3. CASE tab' = [tab EXCEPT ![Tcb(p)].nzombies = @ - 1]
        <3>1. tab \in [0 .. size - 1 -> EntryOf(0 .. size - 1)]
            BY <1>1, <1>2 DEF Counted, Sized
        <3>2. DOMAIN tab' = DOMAIN tab /\ \A r \in DOMAIN tab : tab'[r].pid = tab[r].pid
            BY <1>5, <2>3, <3>1 DEF EntryOf
        <3>3. Used(tab') = Used(tab)
            BY <3>2 DEF Used
        <3>. QED
            BY <3>2, <3>3 DEF PidsOf, Used
    <2>. QED
        BY <2>1, <2>2, <2>3 DEF WaitCall, WaitNoHang, WaitFails, WaitReaps, table
<1>7. Alone(task', leader')
    BY <1>1, <1>3, <1>4 DEF Alone
<1>8. \A q \in Pids : /\ task'[q] = "born" => task[q] = "born"
                      /\ task[q] = "fork" => task'[q] = "fork"
    BY <1>3, <1>4
<1>9. Heralded(tab', task', event)
    BY <1>1, <1>6, <1>8 DEF Heralded
<1>. QED
    BY <1>3, <1>7, <1>9

\* _exit and exit_group: p is alone in its group, so nobody is killed with it.
LEMMA ExitOutlives ==
    ASSUME IInv, OInv, ~over, NEW p \in Pids, Exit(p) \/ GroupExit(p)
    PROVE  OInv'
<1>. SUFFICES ASSUME Quiet PROVE Alone(task', leader') /\ Heralded(tab', task', event')
    BY OInvOf DEF Exit, GroupExit
<1>1. /\ task \in [Pids -> TaskStates] /\ Matches(Table, task) /\ Table.tab = tab
      /\ Alone(task, leader) /\ Heralded(tab, task, event)
    BY DEF IInv, OInv, Table
<1>2. PICK size : Counted(Table, size)
    BY <1>1 DEF Matches
<1>3. /\ task[p] = "run" /\ UNCHANGED <<event, leader>>
      /\ tab' = Detach(Table, Tcb(p)).tab
    BY DEF Exit, GroupExit, Quiet, family, Store
<1>4. \A q \in Pids : q \in Threads(p) => q = p
    BY <1>1 DEF Threads, Alone
<1>5. \E tk \in [Pids -> TaskStates] :
          /\ tk[p] = "gone" /\ \A q \in Pids \ {p} : tk[q] = task[q]
          /\ \E S : task' = Restart(tk, S)
    <2>1. CASE Exit(p)
        <3>. DEFINE tk == [task EXCEPT ![p] = "gone"]
        <3>1. tk \in [Pids -> TaskStates] /\ tk[p] = "gone" /\ \A q \in Pids \ {p} : tk[q] = task[q]
            BY <1>1 DEF TaskStates
        <3>2. task' = Restart(tk, WokenPids(Tcb(p)))
            BY <2>1 DEF Exit
        <3>. HIDE DEF tk
        <3>. QED
            BY <3>1, <3>2
    <2>2. CASE GroupExit(p)
        <3>. DEFINE tk == [q \in Pids |-> IF q = p THEN "gone"
                                          ELSE IF q \in Threads(p) THEN "died" ELSE task[q]]
        <3>1. tk \in [Pids -> TaskStates] /\ tk[p] = "gone" /\ \A q \in Pids \ {p} : tk[q] = task[q]
            BY <1>1, <1>4 DEF TaskStates
        <3>2. task' = Restart(tk, WokenPids(Tcb(p)))
            BY <2>2 DEF GroupExit
        <3>. HIDE DEF tk
        <3>. QED
            BY <3>1, <3>2
    <2>. QED
        BY <2>1, <2>2
<1>6. PICK tk \in [Pids -> TaskStates] :
          /\ tk[p] = "gone" /\ \A q \in Pids \ {p} : tk[q] = task[q]
          /\ \E S : task' = Restart(tk, S)
    BY <1>5
<1>7. \A q \in Pids : /\ task'[q] = "born" <=> tk[q] = "born"
                      /\ task'[q] = "fork" <=> tk[q] = "fork"
                      /\ task'[q] = "died" <=> tk[q] = "died"
    BY <1>6, RestartQuiet, SMT
<1>8. Alone(task', leader')
    BY <1>1, <1>3, <1>6, <1>7 DEF Alone
<1>9. PidsOf(tab) \ ({p} \cup Exiting(tab)) \subseteq PidsOf(tab')
    <2>1. Tcb(p) \in 0 .. size - 1 /\ Table.tab[Tcb(p)].pid = p
        <3>1. p \in PidsOf(tab)
            BY <1>1, <1>3 DEF Matches, Active
        <3>. QED
            BY <1>1, <1>2, <3>1, TcbFound
    <2>2. Shrunk(Table, Detach(Table, Tcb(p)), size, {p})
        BY <1>2, <2>1, DetachShrinks
    <2>. QED
        BY <1>1, <1>3, <2>2 DEF Shrunk
<1>10. \A q \in Pids : /\ task'[q] = "born" => task[q] = "born" /\ q \notin {p}
                       /\ task[q] = "fork" => task'[q] = "fork"
    BY <1>3, <1>6, <1>7
<1>11. Heralded(tab', task', event)
    BY <1>1, <1>9, <1>10, HeraldedKept
<1>. QED
    BY <1>3, <1>8, <1>11

\* trace returns: its count is 0 or wait4 knows of nobody.
LEMMA TraceEndOutlives ==
    ASSUME IInv, OInv, ~over, TraceEnd
    PROVE  OInv'
<1>1. /\ task \in [Pids -> TaskStates] /\ Matches(Table, task) /\ Table.tab = tab
      /\ Table.n = nprocs /\ task' = task /\ leader' = leader /\ over'
    BY DEF IInv, TraceEnd, family, Table
<1>2. PICK size : Counted(Table, size)
    BY <1>1 DEF Matches
<1>3. CASE Nobody
    <2>1. \A p \in Pids : task[p] \notin Traced
        BY <1>3 DEF Nobody
    <2>2. Active \subseteq Traced
        BY DEF Active, Traced, TaskStates
    <2>. QED
        BY <1>1, <2>1, <2>2 DEF OInv, TraceOutlivesAll
<1>4. CASE nprocs = 0
    <2>1. Used(tab) = {}
        <3>1. tab \in [0 .. size - 1 -> EntryOf(0 .. size - 1)] /\ size \in Nat
              /\ nprocs = Cardinality(Used(tab))
            BY <1>1, <1>2 DEF Counted, Sized
        <3>2. IsFiniteSet(Used(tab))
            BY <3>1, UsedFinite
        <3>. QED
            BY <1>4, <3>1, <3>2, FS_EmptySet
    <2>2. PidsOf(tab) = {}
        BY <2>1 DEF PidsOf
    <2>3. \A p \in Pids : task[p] \notin Active
        BY <1>1, <2>2 DEF Matches
    <2>4. ASSUME Quiet PROVE Alone(task, leader) /\ \A p \in Pids : task[p] \notin Traced
        <3>1. Alone(task, leader) /\ Heralded(tab, task, event)
            BY <2>4 DEF OInv
        <3>2. \A p \in Pids : task[p] # "born"
            BY <2>2, <2>3, <3>1 DEF Heralded, Active
        <3>3. Traced = Active \cup {"born", "died"}
            BY DEF Traced, TaskStates, Active
        <3>. QED
            BY <2>3, <3>1, <3>2, <3>3 DEF Alone
    <2>. QED
        BY <1>1, <2>3, <2>4 DEF OInv, TraceOutlivesAll
<1>. QED
    BY <1>3, <1>4 DEF TraceEnd

\* Every step keeps it.
LEMMA StepOutlives == IInv /\ OInv /\ [Next]_vars => OInv'
<1>. SUFFICES ASSUME IInv, OInv, [Next]_vars PROVE OInv'
    OBVIOUS
<1>1. CASE ~over /\ \E p \in Pids : Iteration(p) \/ Call(p)
    <2>. PICK p \in Pids : Iteration(p) \/ Call(p)
        BY <1>1
    <2>1. CASE Iteration(p)
        BY <1>1, <2>1, FirstStopOutlives, ForkEventOutlives, DeathOutlives DEF Iteration
    <2>2. CASE \E c \in Pids, k \in Kinds : ForkCall(p, c, k)
        BY <1>1, <2>2, ForkCallOutlives
    <2>3. CASE \/ \E w \in Awaited(p) : WaitCall(p, w)
               \/ WaitNoHang(p) \/ WaitFails(p) \/ \E r \in Pids : WaitReaps(p, r)
        BY <1>1, <2>3, WaitsOutlive
    <2>4. CASE Exit(p) \/ GroupExit(p)
        BY <1>1, <2>4, ExitOutlives
    <2>5. CASE Kill(p)
        BY <1>1, <2>5, OInvOf DEF Kill, Quiet
    <2>. QED
        BY <2>1, <2>2, <2>3, <2>4, <2>5 DEF Call
<1>2. CASE ~over /\ TraceEnd
    BY <1>2, TraceEndOutlives
<1>3. CASE UNCHANGED vars
    BY <1>3 DEF vars, OInv, TraceOutlivesAll
<1>. QED
    BY <1>1, <1>2, <1>3 DEF Next, Going, Ended

\* startup_child.
LEMMA InitOutlives == Init => OInv
    BY DEF Init, OInv, TraceOutlivesAll, Alone, Heralded

\* When trace has returned, no process that it restarted or holds is left.
NoneLeftRunning == over => \A p \in Pids : task[p] \notin Active

\* trace does not return while a process runs, waits, is held or is at its fork event,
\* whatever signals and threads there are: only a child that was never reported, or a
\* death, can be left behind.
THEOREM RunningAreAwaited == Spec => []NoneLeftRunning
<1>1. OInv => NoneLeftRunning
    BY DEF OInv, NoneLeftRunning
<1>. QED
    BY <1>1, Invariance, InitOutlives, StepOutlives, PTL DEF Spec

\* Without fatal signals and threads trace returns only when no traced process is left,
\* children that have not been reported yet included.
THEOREM TraceWaitsForAll == Spec => [](Quiet => TraceOutlivesAll)
<1>1. OInv => (Quiet => TraceOutlivesAll)
    BY DEF OInv
<1>. QED
    BY <1>1, Invariance, InitOutlives, StepOutlives, PTL DEF Spec
=============================================================================
