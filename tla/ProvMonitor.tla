---------------------------- MODULE ProvMonitor ----------------------------
(***************************************************************************)
(* The list of audited processes (pidlist) and the provenance log of       *)
(* strace-4.6/provenance.c.  Two threads of the tracer share both: the     *)
(* tracing thread, which registers a process when its execve succeeds and  *)
(* removes it when it calls exit, and the monitor thread                   *)
(* (capture_cont_prov), which samples the memory use of every registered   *)
(* process once a second and closes the log when the list becomes empty.   *)
(*                                                                         *)
(* A step is one access to shared state, so that what mut_pidlist protects *)
(* (the list) and what nothing protects (the monitor's reads of pc, the    *)
(* log file) interleave as they do in the program.                         *)
(***************************************************************************)
EXTENDS Integers

CONSTANTS
    Pids,       \* process ids the traced program may use, each at most once
    Root,       \* the process started by startup_child
    NoPid,      \* the zero that fills the static array before its first use
    PVLen,      \* length of pidlist.pv (1000 in the code)
    MaxExecs    \* bound: successful execve calls in a behaviour

ASSUME RootAssumption == Root \in Pids
ASSUME NoPidAssumption == NoPid \notin Pids
ASSUME BoundAssumption == PVLen \in Nat /\ MaxExecs \in Nat /\ MaxExecs <= PVLen

VARIABLES
    proc,       \* kernel view of every process
    pv, pc,     \* struct PidList: the array and the number of entries in use
    mutex,      \* owner of mut_pidlist, or "free"
    destroyed,  \* mut_pidlist has been destroyed
    logfile,    \* prov_logfile: "open", or "closed" after fclose
    last,       \* kind of the last record the log holds about each process
    at,         \* control point of each thread
    idx,        \* local variable i of print_curr_prov and rm_pid_prov
    ret,        \* where print_curr_prov returns to
    arg,        \* tcp->pid of the tracing thread's current handler
    status,     \* the tracer process itself
    nexec,      \* number of registrations so far
    registered, \* history: the entries added so far
    victim,     \* history: the entry a thread has decided to remove
    retired     \* history: the entries removed so far

vars == <<proc, pv, pc, mutex, destroyed, logfile, last, at, idx, ret, arg,
          status, nexec, registered, victim, retired>>

list    == <<pv, pc, nexec, registered, retired>>
control == <<at, idx, ret, arg, victim>>
-----------------------------------------------------------------------------
Tracer  == "tracer"
Monitor == "monitor"
Threads == {Tracer, Monitor}

\* "live": traced.  "gone": no longer traced, /proc/<pid> still there (it is
\* finishing its exit, or a zombie, or was detached).  "reaped": no /proc/<pid>.
ProcStates == {"absent", "live", "gone", "reaped"}

Kinds == {"none", "SPAWN", "IO", "EXECVE2", "MEM", "EXIT", "LEXIT"}

\* An array element is a pid; the number beside it is the registration that
\* stored it, which the code does not have and never reads.
Entry == (Pids \cup {NoPid}) \X Nat

CurLabels  == {"curlock", "curtest", "curmem", "curlost", "curswap", "curdec",
               "curunlock"}
AddLabels  == {"addlock", "addstore", "addinc", "addunlock"}
RmLabels   == {"rmcheck", "rmlock", "rmfind", "rmswap", "rmdec", "rmunlock"}
LogLabels  == {"logio", "logdetach", "logspawn", "logexecve2", "logexit"}
TracerLabels  == CurLabels \cup AddLabels \cup RmLabels \cup LogLabels \cup {"idle"}
MonitorLabels == CurLabels \cup {"first", "loop", "destroy", "close", "done"}

\* The monitor has left its sampling loop.
Stopping == {"destroy", "close", "done"}

Slots    == 0 .. (pc - 1)
Listed   == {pv[i] : i \in Slots}
-----------------------------------------------------------------------------
Init ==
    /\ proc = [p \in Pids |-> IF p = Root THEN "live" ELSE "absent"]
    /\ pv = [i \in 0 .. (PVLen - 1) |-> <<NoPid, 0>>]
    /\ pc = 0
    /\ mutex = "free"
    /\ destroyed = FALSE
    /\ logfile = "open"
    /\ last = [p \in Pids |-> "none"]
    /\ at = [t \in Threads |-> IF t = Tracer THEN "idle" ELSE "first"]
    /\ idx = [t \in Threads |-> 0]
    /\ ret = [t \in Threads |-> IF t = Tracer THEN "idle" ELSE "loop"]
    /\ arg = Root
    /\ status = "running"
    /\ nexec = 0
    /\ registered = {}
    /\ victim = [t \in Threads |-> <<NoPid, 0>>]
    /\ retired = {}

Goto(t, label) == at' = [at EXCEPT ![t] = label]

\* fprintf(prov_logfile, ...).  On a FILE that was closed the call is
\* undefined: the record is lost, or the tracer dies (CrashOnWrite).
Write(t, p, kind, next) ==
    /\ last' = IF logfile = "open" THEN [last EXCEPT ![p] = kind] ELSE last
    /\ Goto(t, next)

CrashOnWrite(t) ==
    /\ logfile = "closed"
    /\ at[t] \in LogLabels \cup {"curmem", "curlost"}
    /\ status' = "crashed"
    /\ UNCHANGED <<proc, list, mutex, destroyed, logfile, last, control>>

\* pthread_mutex_lock(&mut_pidlist).  The result is ignored: on a destroyed
\* mutex the call fails at once and the caller goes on without it.
Lock(t, from, next) ==
    /\ at[t] = from
    /\ IF destroyed THEN UNCHANGED mutex
                    ELSE mutex = "free" /\ mutex' = t
    /\ Goto(t, next)

Unlock(t, from, next) ==
    /\ at[t] = from
    /\ mutex' = IF mutex = t THEN "free" ELSE mutex
    /\ Goto(t, next)
-----------------------------------------------------------------------------
(* print_curr_prov, called by both threads.                                *)

\* Mutant: the mutex is not taken.
CurLockFree(t) ==
    /\ at[t] = "curlock"
    /\ Goto(t, "curtest")
    /\ idx' = [idx EXCEPT ![t] = 0]
    /\ UNCHANGED <<proc, list, mutex, destroyed, logfile, last, ret, arg, status, victim>>

CurLock(t) ==
    /\ Lock(t, "curlock", "curtest")
    /\ idx' = [idx EXCEPT ![t] = 0]
    /\ UNCHANGED <<proc, list, destroyed, logfile, last, ret, arg, status, victim>>

\* Mutant: a failed fopen is not noticed.
AlwaysStat(p) == p \in Pids

\* fopen of /proc/<pid>/stat succeeds.
HasStat(p) == p \in Pids /\ proc[p] # "reaped"

\* The loop test, and fopen of /proc/<pv[i]>/stat.
CurTest(t) ==
    /\ at[t] = "curtest"
    /\ IF idx[t] < pc
       THEN /\ victim' = [victim EXCEPT ![t] = pv[idx[t]]]
            /\ Goto(t, IF HasStat(pv[idx[t]][1]) THEN "curmem" ELSE "curlost")
       ELSE Goto(t, "curunlock") /\ UNCHANGED victim
    /\ UNCHANGED <<proc, list, mutex, destroyed, logfile, last, idx, ret, arg, status>>

\* Mutant: i is not advanced past a live process.
CurMemStay(t) ==
    /\ at[t] = "curmem"
    /\ Write(t, pv[idx[t]][1], "MEM", "curtest")
    /\ UNCHANGED <<proc, list, mutex, destroyed, logfile, idx, ret, arg, status, victim>>

CurMem(t) ==
    /\ at[t] = "curmem"
    /\ Write(t, pv[idx[t]][1], "MEM", "curtest")
    /\ idx' = [idx EXCEPT ![t] = @ + 1]
    /\ UNCHANGED <<proc, list, mutex, destroyed, logfile, ret, arg, status, victim>>

CurLost(t) ==
    /\ at[t] = "curlost"
    /\ Write(t, pv[idx[t]][1], "LEXIT", "curswap")
    /\ UNCHANGED <<proc, list, mutex, destroyed, logfile, idx, ret, arg, status, victim>>

\* Mutant: the last entry is not copied into the gap.
DropLast(t) ==
    /\ retired' = retired \cup {victim[t]}
    /\ UNCHANGED <<pv, pc, nexec, registered>>

\* pv[i] = pv[pc-1]: the last entry takes the place of the removed one.
MoveLast(t) ==
    /\ pv' = [pv EXCEPT ![idx[t]] = pv[pc - 1]]
    /\ retired' = retired \cup {victim[t]}
    /\ UNCHANGED <<pc, nexec, registered>>

CurSwap(t) ==
    /\ at[t] = "curswap"
    /\ MoveLast(t)
    /\ Goto(t, "curdec")
    /\ UNCHANGED <<proc, mutex, destroyed, logfile, last, idx, ret, arg, status, victim>>

\* pc--, and "continue": i moves on, past the entry just moved to slot i.
CurDec(t) ==
    /\ at[t] = "curdec"
    /\ pc' = pc - 1
    /\ idx' = [idx EXCEPT ![t] = @ + 1]
    /\ Goto(t, "curtest")
    /\ UNCHANGED <<proc, pv, nexec, registered, retired, mutex, destroyed, logfile, last, ret,
                   arg, status, victim>>

\* Leaving print_curr_prov or rm_pid_prov: i goes out of scope.
DropLocals(t) ==
    /\ idx' = [idx EXCEPT ![t] = 0]
    /\ victim' = [victim EXCEPT ![t] = <<NoPid, 0>>]

CurUnlock(t) ==
    /\ Unlock(t, "curunlock", ret[t])
    /\ DropLocals(t)
    /\ UNCHANGED <<proc, list, destroyed, logfile, last, ret, arg, status>>

PrintCurr(t) ==
    CurLock(t) \/ CurTest(t) \/ CurMem(t) \/ CurLost(t) \/ CurSwap(t)
               \/ CurDec(t) \/ CurUnlock(t)
-----------------------------------------------------------------------------
(* add_pid_prov: called by print_end_execve_prov.                          *)

AddLock ==
    /\ Lock(Tracer, "addlock", "addstore")
    /\ UNCHANGED <<proc, list, destroyed, logfile, last, idx, ret, arg, status, victim>>

AddStore ==
    /\ at[Tracer] = "addstore"
    /\ pv' = [pv EXCEPT ![pc] = <<arg, nexec>>]
    /\ Goto(Tracer, "addinc")
    /\ UNCHANGED <<proc, pc, nexec, registered, retired, mutex, destroyed, logfile,
                   last, idx, ret, arg, status, victim>>

AddInc ==
    /\ at[Tracer] = "addinc"
    /\ pc' = pc + 1
    /\ nexec' = nexec + 1
    /\ registered' = registered \cup {<<arg, nexec>>}
    /\ Goto(Tracer, "addunlock")
    /\ UNCHANGED <<proc, pv, retired, mutex, destroyed, logfile, last, idx, ret, arg,
                   status, victim>>

AddUnlock ==
    /\ Unlock(Tracer, "addunlock", "curlock")
    /\ ret' = [ret EXCEPT ![Tracer] = "idle"]
    /\ UNCHANGED <<proc, list, destroyed, logfile, last, idx, arg, status, victim>>

AddPid == AddLock \/ AddStore \/ AddInc \/ AddUnlock
-----------------------------------------------------------------------------
(* rm_pid_prov: called by print_exit_prov.                                 *)

\* Mutant: off by one, the only entry is left in the list.
RmCheckOne ==
    /\ at[Tracer] = "rmcheck"
    /\ IF pc <= 1
       THEN Goto(Tracer, "logexit") /\ UNCHANGED ret
       ELSE Goto(Tracer, "curlock") /\ ret' = [ret EXCEPT ![Tracer] = "rmlock"]
    /\ UNCHANGED <<proc, list, mutex, destroyed, logfile, last, idx, arg, status, victim>>

\* if (pidlist.pc<=0) return;  read without the mutex.
RmCheck ==
    /\ at[Tracer] = "rmcheck"
    /\ IF pc <= 0
       THEN Goto(Tracer, "logexit") /\ UNCHANGED ret
       ELSE Goto(Tracer, "curlock") /\ ret' = [ret EXCEPT ![Tracer] = "rmlock"]
    /\ UNCHANGED <<proc, list, mutex, destroyed, logfile, last, idx, arg, status, victim>>

RmLock ==
    /\ Lock(Tracer, "rmlock", "rmfind")
    /\ UNCHANGED <<proc, list, destroyed, logfile, last, idx, ret, arg, status, victim>>

\* Mutant: no test of i < pc after the search.
RmFindAlways ==
    /\ at[Tracer] = "rmfind"
    /\ Goto(Tracer, IF \E i \in Slots : pv[i][1] = arg THEN "rmswap" ELSE "rmdec")
    /\ UNCHANGED <<proc, list, mutex, destroyed, logfile, last, idx, ret, arg, status, victim>>

\* The linear search stops at the first slot that holds the pid.
RmFind ==
    /\ at[Tracer] = "rmfind"
    /\ \/ \E i \in Slots :
             /\ pv[i][1] = arg
             /\ \A j \in Slots : j < i => pv[j][1] # arg
             /\ idx' = [idx EXCEPT ![Tracer] = i]
             /\ victim' = [victim EXCEPT ![Tracer] = pv[i]]
             /\ Goto(Tracer, "rmswap")
       \/ /\ \A i \in Slots : pv[i][1] # arg
          /\ Goto(Tracer, "rmunlock")
          /\ UNCHANGED <<idx, victim>>
    /\ UNCHANGED <<proc, list, mutex, destroyed, logfile, last, ret, arg, status>>

RmSwap ==
    /\ at[Tracer] = "rmswap"
    /\ MoveLast(Tracer)
    /\ Goto(Tracer, "rmdec")
    /\ UNCHANGED <<proc, mutex, destroyed, logfile, last, idx, ret, arg, status, victim>>

RmDec ==
    /\ at[Tracer] = "rmdec"
    /\ pc' = pc - 1
    /\ Goto(Tracer, "rmunlock")
    /\ UNCHANGED <<proc, pv, nexec, registered, retired, mutex, destroyed, logfile, last, idx,
                   ret, arg, status, victim>>

RmUnlock ==
    /\ Unlock(Tracer, "rmunlock", "logexit")
    /\ DropLocals(Tracer)
    /\ UNCHANGED <<proc, list, destroyed, logfile, last, ret, arg, status>>

RmPid == RmCheck \/ RmLock \/ RmFind \/ RmSwap \/ RmDec \/ RmUnlock
-----------------------------------------------------------------------------
(* The handlers of the tracing thread, from the stop that starts them.  No *)
(* handler starts before the previous one has returned to trace().         *)

Begin(p, label) ==
    /\ at[Tracer] = "idle"
    /\ proc[p] = "live"
    /\ arg' = p
    /\ Goto(Tracer, label)
    /\ UNCHANGED <<list, mutex, destroyed, logfile, last, idx, ret, status, victim>>

\* A handler that only writes records: print_begin_execve_prov, print_io_prov,
\* print_close_prov, print_ptrace_prov.
BeginRecord(p) == Begin(p, "logio") /\ UNCHANGED proc

\* CDE_begin_execve of a tracing binary writes a record and detaches.
BeginDetach(p) == Begin(p, "logdetach") /\ UNCHANGED proc

\* handle_new_child, then print_spawn_prov(child).  Root calls execve before
\* anything else, so no process exists beside it until one has succeeded.
BeginSpawn(p, child) ==
    /\ at[Tracer] = "idle"
    /\ nexec > 0
    /\ proc[p] = "live"
    /\ proc[child] = "absent"
    /\ proc' = [proc EXCEPT ![child] = "live"]
    /\ arg' = child
    /\ Goto(Tracer, "logspawn")
    /\ UNCHANGED <<list, mutex, destroyed, logfile, last, idx, ret, status, victim>>

\* Mutant: the process is registered without its EXECVE2 record.
EndExecveUnlogged(p) == nexec < MaxExecs /\ Begin(p, "addlock") /\ UNCHANGED proc

\* CDE_end_execve of a call that returned 0.
EndExecve(p) == nexec < MaxExecs /\ Begin(p, "logexecve2") /\ UNCHANGED proc

\* internal_exit on entry to exit or exit_group.
InternalExit(p) == Begin(p, "rmcheck") /\ UNCHANGED proc

LogRecord ==
    /\ \/ at[Tracer] = "logio"      /\ Write(Tracer, arg, "IO", "idle")
       \/ at[Tracer] = "logspawn"   /\ Write(Tracer, arg, "SPAWN", "idle")
       \/ at[Tracer] = "logexecve2" /\ Write(Tracer, arg, "EXECVE2", "addlock")
    /\ UNCHANGED <<proc, list, mutex, destroyed, logfile, idx, ret, arg, status, victim>>

\* The record, then detach(): EXIT at an exit, EXECVE at a nested tracer.
LogAndDetach ==
    /\ \/ at[Tracer] = "logexit"   /\ Write(Tracer, arg, "EXIT", "idle")
       \/ at[Tracer] = "logdetach" /\ Write(Tracer, arg, "IO", "idle")
    /\ proc' = [proc EXCEPT ![arg] = "gone"]
    /\ UNCHANGED <<list, mutex, destroyed, logfile, idx, ret, arg, status, victim>>

\* trace() learns that a process was killed; nothing is logged.
KilledBySignal(p) ==
    /\ at[Tracer] = "idle"
    /\ proc[p] = "live"
    /\ proc' = [proc EXCEPT ![p] = "gone"]
    /\ UNCHANGED <<list, mutex, destroyed, logfile, last, control, status>>

\* trace() has no process left, main returns and the process exits: stdio
\* flushes the log if it is still open, and the monitor ends with it.
TracerExit ==
    /\ at[Tracer] = "idle"
    /\ \A p \in Pids : proc[p] # "live"
    /\ status' = "exited"
    /\ UNCHANGED <<proc, list, mutex, destroyed, logfile, last, control>>
-----------------------------------------------------------------------------
(* capture_cont_prov.                                                      *)

MonitorFirst ==
    /\ at[Monitor] = "first"
    /\ pc # 0
    /\ Goto(Monitor, "loop")
    /\ UNCHANGED <<proc, list, mutex, destroyed, logfile, last, idx, ret, arg, status, victim>>

MonitorLoop ==
    /\ at[Monitor] = "loop"
    /\ Goto(Monitor, IF pc > 0 THEN "curlock" ELSE "destroy")
    /\ UNCHANGED <<proc, list, mutex, destroyed, logfile, last, idx, ret, arg, status, victim>>

\* pthread_mutex_destroy fails on a mutex that is held.
MonitorDestroy ==
    /\ at[Monitor] = "destroy"
    /\ destroyed' = (mutex = "free")
    /\ Goto(Monitor, "close")
    /\ UNCHANGED <<proc, list, mutex, logfile, last, idx, ret, arg, status, victim>>

MonitorClose ==
    /\ at[Monitor] = "close"
    /\ logfile' = "closed"
    /\ Goto(Monitor, "done")
    /\ UNCHANGED <<proc, list, mutex, destroyed, last, idx, ret, arg, status, victim>>

CaptureContProv == MonitorFirst \/ MonitorLoop \/ MonitorDestroy \/ MonitorClose
-----------------------------------------------------------------------------
\* The kernel: a process that is no longer traced is reaped by its parent.
Reap(p) ==
    /\ proc[p] = "gone"
    /\ proc' = [proc EXCEPT ![p] = "reaped"]
    /\ UNCHANGED <<list, mutex, destroyed, logfile, last, control, status>>

TracerStep == PrintCurr(Tracer) \/ AddPid \/ RmPid \/ LogRecord \/ LogAndDetach
MonitorStep == PrintCurr(Monitor) \/ CaptureContProv

Event(p) == BeginRecord(p) \/ BeginDetach(p) \/ EndExecve(p) \/ InternalExit(p)
                           \/ KilledBySignal(p)

Running ==
    \/ TracerStep
    \/ MonitorStep
    \/ \E p \in Pids : Event(p)
    \/ \E p, child \in Pids : BeginSpawn(p, child)
    \/ \E p \in Pids : Reap(p)
    \/ \E t \in Threads : CrashOnWrite(t)
    \/ TracerExit

\* After exit or a crash nothing moves.
Ended == status # "running" /\ UNCHANGED vars

Next == (status = "running" /\ Running) \/ Ended

\* The scheduler runs both threads; the traced program owes nothing.  The
\* monitor sleeps for a second between two sweeps, without the mutex, so that
\* the tracing thread gets it (strong fairness); the other way round the tracing
\* thread takes the mutex only finitely often.
Fairness ==
    /\ SF_vars(status = "running" /\ TracerStep)
    /\ WF_vars(status = "running" /\ MonitorStep)

Spec == Init /\ [][Next]_vars
FairSpec == Spec /\ Fairness
-----------------------------------------------------------------------------
DataOK ==
    /\ proc \in [Pids -> ProcStates]
    /\ pv \in [0 .. (PVLen - 1) -> Entry]
    /\ pc \in 0 .. MaxExecs
    /\ mutex \in Threads \cup {"free"}
    /\ destroyed \in BOOLEAN
    /\ logfile \in {"open", "closed"}
    /\ last \in [Pids -> Kinds]
    /\ idx \in [Threads -> 0 .. PVLen]
    /\ arg \in Pids
    /\ status \in {"running", "exited", "crashed"}
    /\ nexec \in 0 .. MaxExecs
    /\ registered \subseteq Entry
    /\ victim \in [Threads -> Entry]
    /\ retired \subseteq Entry

ControlOK ==
    /\ at \in [Threads -> TracerLabels \cup MonitorLabels]
    /\ at[Tracer] \in TracerLabels
    /\ at[Monitor] \in MonitorLabels
    /\ ret \in [Threads -> {"idle", "rmlock", "loop"}]
    /\ ret[Monitor] = "loop"
    /\ ret[Tracer] \in {"idle", "rmlock"}

\* Every variable keeps to the values the code can give it; in particular the
\* count of list entries never drops below zero, whichever thread removes, no
\* thread points past the array, and print_curr_prov returns to its caller.
TypeOK == DataOK /\ ControlOK

\* A thread has copied the last entry over the removed one and has not yet
\* decremented pc.
MidRemoval == \E t \in Threads : at[t] \in {"curdec", "rmdec"}

\* The list never loses or duplicates an entry: outside the two-store window of
\* a removal it holds, once each, exactly the registrations that were not
\* removed on purpose.  This is what mut_pidlist is for: print_curr_prov removes
\* in both threads while add_pid_prov and rm_pid_prov change the same slots.
PidlistExact ==
    ~MidRemoval =>
        /\ Listed = registered \ retired
        /\ \A i, j \in Slots : pv[i] = pv[j] => i = j

\* The tracing thread is inside print_exit_prov for p.
Exiting(p) == arg = p /\ \/ at[Tracer] \in RmLabels \cup {"logexit"}
                         \/ at[Tracer] \in CurLabels /\ ret[Tracer] = "rmlock"

\* A process that is still traced and has not called exit is never dropped from
\* the list: LEXIT removals only hit processes that have disappeared, and the
\* swap in one thread never overwrites the entry another thread relies on.
LiveProcessesListed ==
    \A e \in registered : proc[e[1]] = "live" /\ ~Exiting(e[1]) => e \in Listed

\* p called execve successfully at most once.
RegisteredOnce(p) ==
    \A e, f \in registered : e[1] = p /\ f[1] = p => e = f

\* EXIT is the last record of a process that was registered only once: once
\* print_exit_prov has written it, no late MEM sample or LEXIT of the monitor
\* follows, since rm_pid_prov took the entry out first.
ExitIsLast ==
    [][\A p \in Pids :
         last[p] = "EXIT" /\ RegisteredOnce(p) => last'[p] = "EXIT"]_vars

\* A sample never precedes the process's EXECVE2 record: the monitor cannot see
\* an entry before print_end_execve_prov has logged the execve, although the
\* log itself has no lock.
SampleAfterExecve ==
    [][\A p \in Pids :
         last'[p] \in {"MEM", "LEXIT"} => last[p] \notin {"none", "SPAWN"}]_vars

\* A listed process that disappears is eventually taken off the list, although
\* each sweep skips the entry it has just moved; unless the monitor has already
\* left its loop, or PTU is over.
DeadReported ==
    \A n \in 0 .. (MaxExecs - 1), p \in Pids :
        (<<p, n>> \in Listed /\ proc[p] = "reaped")
            ~> (<<p, n>> \notin Listed \/ at[Monitor] \in Stopping \/ status # "running")

\* Every handler returns to trace(): the two threads never block each other for
\* good on mut_pidlist, not even around its destruction.
HandlerReturns ==
    at[Tracer] # "idle" ~> at[Tracer] = "idle" \/ status # "running"
-----------------------------------------------------------------------------
\* capture_cont_prov: "Ok to stop when there is no more pid, since by then, the
\* original tracded process should have stopped."  If stopping is OK then no
\* handler reaches a write to the log it closes.
StopWhenNoPidIsOk ==
    ~(logfile = "closed" /\ at[Tracer] \in LogLabels)

\* rm_pid_prov: "remove input pid from pidlist array".  When it is done and
\* print_exit_prov goes on to log EXIT, the pid is not in the array.
RmPidRemoves ==
    at[Tracer] = "logexit" => \A e \in Listed : e[1] # arg
=============================================================================
