----------------------------- MODULE ShmInject ------------------------------
(***************************************************************************)
(* How the tracer rewrites the paths of system calls (strace-4.6/cde.c,    *)
(* syscall.c).  At the entry of a call it writes the redirected paths into *)
(* a shared memory segment and points argument registers there.  A process *)
(* that has not attached the segment is first made to: its call is         *)
(* replaced by shmat, and repeated afterwards.                             *)
(*                                                                         *)
(* A stop of a process is handled by one action, for the process stays     *)
(* stopped meanwhile.  What the model interleaves is the stops of several  *)
(* processes with the kernel, with signal handlers that run between the    *)
(* set-up and the repeated call, with processes created in between, with   *)
(* execve, which drops the attached segment, and with SIGKILL.             *)
(***************************************************************************)
EXTENDS Integers, Sequences

CONSTANTS
    Pids,       \* process ids, used again after a process is gone
    Root,       \* the first process
    Null,       \* no address
    Calls,      \* the calls of the program: [op, paths]
    NoCall,     \* no call
    Ignored,    \* paths that redirect_filename_into_cderoot leaves alone
    Relative,   \* paths that are relative to a directory descriptor
    Static,     \* executables without a program interpreter
    Absent,     \* executables that the package does not hold
    WordSizes,  \* which processes may be the 32-bit ones
    Tracers,    \* executables for which is_cde_binary holds
    MaxSignals  \* bound on the number of signal handlers that run

\* The calls that the model tells apart: open, stat, chdir, mkdir, ...; openat,
\* unlinkat, ...; link, symlink, rename; linkat, renameat; symlinkat; execve; calls
\* without paths.  ArgPos has the positions of their path arguments.
Ops == {"one", "at", "two", "twoat", "symat", "exec", "none"}

ArgPos(op) == CASE op \in {"one", "exec"} -> <<1>>
                [] op = "at" -> <<2>>
                [] op = "two" -> <<1, 2>>
                [] op = "twoat" -> <<2, 4>>
                [] op = "symat" -> <<1, 3>>
                [] OTHER -> <<>>

Shmat == [op |-> "shmat", paths |-> <<>>]

ASSUME PidsAssumption ==
    Root \in Pids /\ WordSizes \subseteq SUBSET Pids /\ MaxSignals \in Nat
ASSUME CallsAssumption ==
    \A c \in Calls : c.op \in Ops /\ DOMAIN c.paths = DOMAIN ArgPos(c.op)
ASSUME NoneAssumption ==
    NoCall \notin Calls \cup {Shmat} /\ Null \notin {"segment", "error"}

VARIABLES
    exec_mode,      \* Cde_exec_mode
    emu,            \* the processes that are 32-bit programs
    personality,    \* current_personality = 1: one variable for all processes
    insyscall,      \* TCB_INSYSCALL of each tcb
    childshm,       \* where each process has attached its segment, for the tracer
    setting_up_shm, \* the call in progress is the injected shmat
    saved_regs,     \* the call that begin_setup_shmat replaced, until it is restored
    localshm,       \* what the tracer wrote into the segment of each process
    stage,          \* where each process is
    cur,            \* the call in its registers
    regs,           \* its registers: 0, or which string of the segment they point to
    rval,           \* the result of the last call it performed
    attached,       \* whether its segment is attached in its address space
    again,          \* at each level, the call that the next instruction repeats
    pending, level, \* the contexts of each process, see SyscallService
    view,           \* what the kernel read for the last call it performed
    recorded,       \* EXECVE records of the execve in progress at each level
    nsignals,       \* signal handlers so far
    over            \* how the trace ended, if it did

tcbs == <<insyscall, childshm, setting_up_shm, saved_regs, localshm>>
context == <<again, pending, level, nsignals>>
modes == <<exec_mode, emu>>
vars == <<exec_mode, emu, personality, insyscall, childshm, setting_up_shm, saved_regs,
          localshm, stage, cur, regs, rval, attached, again, pending, level, view,
          recorded, nsignals, over>>
-----------------------------------------------------------------------------
\* "enter", "leave": stopped at the entry or the exit of a call.  "trap": stopped by
\* the SIGTRAP that follows an execve.  "dead": killed, and not yet reported.
Stages == {"unused", "user", "enter", "kernel", "leave", "trap", "dead"}
Live == {p \in Pids : stage[p] \notin {"unused", "dead"}}

\* argreg, the registers of the first four arguments.
argreg(e) == IF e THEN <<"rbx", "rcx", "rdx", "rsi">> ELSE <<"rdi", "rsi", "rdx", "r10">>
Registers == {"rbx", "rcx", "rdx", "rsi", "rdi", "r10"}
Own == [r \in Registers |-> 0]

\* A path as the program wrote it, and as it is in the package; the package's loader,
\* which runs a dynamically linked executable.
Host(x) == <<"host", x>>
Redirected(x) == <<"package", x>>
Loader == <<"package", "loader">>
Fault == <<"fault", "fault">>

Redirects(x) == x \notin Ignored

\* The at-calls leave a path that is relative to a directory descriptor to the kernel.
Punts(c) ==
    \/ c.op = "at" /\ c.paths[1] \in Relative
    \/ c.op = "twoat" /\ (c.paths[1] \in Relative \/ c.paths[2] \in Relative)
    \/ c.op = "symat" /\ c.paths[2] \in Relative

\* CDE_begin_execve, before it asks for the segment: executables that are let alone,
\* because they are ignored (exec mode) or because they cannot be found where the
\* tracer looks for them, in the package or, in audit mode, on the host.
Untouched(m, x) == x \in Absent \/ (m /\ ~Redirects(x))
Detaches(c) == c.op = "exec" /\ c.paths[1] \in Tracers
Dynamic(m, c) == c.op = "exec" /\ ~Untouched(m, c.paths[1]) /\ c.paths[1] \notin Static
-----------------------------------------------------------------------------
\* The registers that the modify_syscall functions write, which are those of argreg
\* except for a fourth argument of a 64-bit process.
Written(e, c) ==
    IF c.op = "twoat" /\ ~e THEN <<"rsi", "rcx">>
    ELSE [i \in DOMAIN ArgPos(c.op) |-> argreg(e)[ArgPos(c.op)[i]]]

\* modify_syscall_*: the paths that are redirected are stored one after the other,
\* and the register of each points to its string.
Point(e, c, strings) ==
    [r \in Registers |->
        IF \E i \in strings : Written(e, c)[i] = r
        THEN IF r = Written(e, c)[1] \/ 1 \notin strings THEN 1 ELSE 2
        ELSE 0]

\* The indices of the paths that exec mode redirects.
ToRedirect(c) ==
    IF Punts(c) \/ (c.op = "exec" /\ Untouched(TRUE, c.paths[1])) THEN {}
    ELSE {i \in DOMAIN c.paths : Redirects(c.paths[i])}

\* What is then written into the segment.
InPackage(c, i) == IF c.op = "exec" /\ c.paths[i] \notin Static THEN Loader
                   ELSE Redirected(c.paths[i])

Strings(c) ==
    IF ToRedirect(c) = {1, 2} THEN <<InPackage(c, 1), InPackage(c, 2)>>
    ELSE [k \in 1 .. 1 |-> InPackage(c, CHOOSE i \in ToRedirect(c) : TRUE)]

\* Whether the handler of the entry of c asks for the segment.  The functions for two
\* arguments do so before they look at the paths; an execve does in both modes, once
\* it needs the loader.
NeedsShm(m, c) ==
    \/ Dynamic(m, c)
    \/ m /\ c.op \in {"one", "at", "exec"} /\ ToRedirect(c) # {}
    \/ m /\ c.op \in {"two", "twoat", "symat"} /\ ~Punts(c)

\* What the kernel reads for each path argument of p's call c.
Read(p, c) ==
    [i \in DOMAIN c.paths |->
        LET k == regs[p][argreg(p \in emu)[ArgPos(c.op)[i]]] IN
        IF k = 0 THEN Host(c.paths[i])
        ELSE IF childshm[p] # "segment" \/ ~attached[p]
                \/ k \notin DOMAIN localshm[p] THEN Fault
        ELSE localshm[p][k]]
-----------------------------------------------------------------------------
Idle == [l \in 1 .. 2 |-> NoCall]
NoneRecorded == [l \in 1 .. 2 |-> 0]

Init ==
    /\ exec_mode \in BOOLEAN
    /\ emu \in WordSizes
    /\ personality = FALSE
    /\ insyscall = [p \in Pids |-> FALSE]
    /\ childshm = [p \in Pids |-> Null]
    /\ setting_up_shm = [p \in Pids |-> FALSE]
    /\ saved_regs = [p \in Pids |-> NoCall]
    /\ localshm = [p \in Pids |-> <<>>]
    /\ stage = [p \in Pids |-> IF p = Root THEN "user" ELSE "unused"]
    /\ cur = [p \in Pids |-> NoCall]
    /\ regs = [p \in Pids |-> Own]
    /\ rval = [p \in Pids |-> "ok"]
    /\ attached = [p \in Pids |-> FALSE]
    /\ again = [p \in Pids |-> Idle]
    /\ pending = [p \in Pids |-> Idle]
    /\ level = [p \in Pids |-> 1]
    /\ view = [p \in Pids |-> <<>>]
    /\ recorded = [p \in Pids |-> NoneRecorded]
    /\ nsignals = 0
    /\ over = "no"

\* The call of p is over.  What its registers and its segment hold no longer matters:
\* the program loads the registers before its next call, and the tracer writes the
\* strings of that call before it points there.
Forget(p) ==
    /\ cur' = [cur EXCEPT ![p] = NoCall]
    /\ regs' = [regs EXCEPT ![p] = Own]
    /\ rval' = [rval EXCEPT ![p] = "ok"]
    /\ localshm' = [localshm EXCEPT ![p] = <<>>]
    /\ view' = [view EXCEPT ![p] = <<>>]

\* The program: p makes a call, or executes again the instruction that was backed up.
Enter(p, c) ==
    /\ stage' = [stage EXCEPT ![p] = "enter"]
    /\ cur' = [cur EXCEPT ![p] = c]
    /\ regs' = [regs EXCEPT ![p] = Own]
    /\ UNCHANGED <<modes, personality, tcbs, rval, attached, level, nsignals, over>>

Issue(p, c) ==
    /\ stage[p] = "user" /\ again[p][level[p]] = NoCall
    /\ Enter(p, c)
    /\ pending' = [pending EXCEPT ![p][level[p]] = c]
    /\ UNCHANGED <<again, view, recorded>>

Repeat(p) ==
    /\ stage[p] = "user" /\ again[p][level[p]] # NoCall
    /\ Enter(p, again[p][level[p]])
    /\ again' = [again EXCEPT ![p][level[p]] = NoCall]
    /\ UNCHANGED <<pending, view, recorded>>

\* A signal handler starts; its frame keeps the registers.  It returns.
Signal(p) ==
    /\ stage[p] = "user" /\ level[p] = 1 /\ nsignals < MaxSignals
    /\ level' = [level EXCEPT ![p] = 2]
    /\ nsignals' = nsignals + 1
    /\ UNCHANGED <<modes, personality, tcbs, stage, cur, regs, rval, attached, again, pending,
                   view, recorded, over>>

SigReturn(p) ==
    /\ stage[p] = "user" /\ level[p] = 2 /\ again[p][2] = NoCall
    /\ level' = [level EXCEPT ![p] = 1]
    /\ UNCHANGED <<modes, personality, tcbs, stage, cur, regs, rval, attached, again, pending,
                   nsignals, view, recorded, over>>

\* p creates q.  alloc_tcb_cde_fields gives q a segment of its own, which is attached
\* nowhere yet: what q inherits, or shares after vfork, is the segment of p.
Fork(p, q) ==
    /\ stage[p] = "user" /\ again[p][level[p]] = NoCall /\ stage[q] = "unused"
    /\ stage' = [stage EXCEPT ![q] = "user"]
    /\ cur' = [cur EXCEPT ![q] = NoCall]
    /\ attached' = [attached EXCEPT ![q] = FALSE]
    /\ childshm' = [childshm EXCEPT ![q] = Null]
    /\ setting_up_shm' = [setting_up_shm EXCEPT ![q] = FALSE]
    /\ localshm' = [localshm EXCEPT ![q] = <<>>]
    /\ insyscall' = [insyscall EXCEPT ![q] = FALSE]
    /\ again' = [again EXCEPT ![q] = again[p]]
    /\ pending' = [pending EXCEPT ![q] = pending[p]]
    /\ level' = [level EXCEPT ![q] = level[p]]
    /\ view' = [view EXCEPT ![q] = <<>>]
    /\ recorded' = [recorded EXCEPT ![q] = recorded[p]]
    /\ UNCHANGED <<modes, personality, saved_regs, regs, rval, nsignals, over>>
-----------------------------------------------------------------------------
\* Kernel: the call in the registers of a process that was let go on.
Performed(p, r) ==
    /\ stage' = [stage EXCEPT ![p] = "leave"]
    /\ rval' = [rval EXCEPT ![p] = r]
    /\ UNCHANGED <<modes, personality, tcbs, cur, regs, nsignals, over>>

Attach(p) ==
    /\ stage[p] = "kernel" /\ cur[p] = Shmat
    /\ Performed(p, "ok")
    /\ attached' = [attached EXCEPT ![p] = TRUE]
    /\ UNCHANGED <<again, pending, level, view, recorded>>

AttachFails(p) ==
    /\ stage[p] = "kernel" /\ cur[p] = Shmat
    /\ Performed(p, "error")
    /\ UNCHANGED <<attached, again, pending, level, view, recorded>>

\* Any other call than a successful execve: its result is of no interest here.
Perform(p) ==
    /\ stage[p] = "kernel" /\ cur[p] # Shmat
    /\ Performed(p, "error")
    /\ view' = [view EXCEPT ![p] = Read(p, cur[p])]
    /\ pending' = [pending EXCEPT ![p][level[p]] = NoCall]
    /\ UNCHANGED <<attached, again, level, recorded>>

Become(p) ==
    /\ stage[p] = "kernel" /\ cur[p].op = "exec" /\ Read(p, cur[p])[1] # Fault
    /\ Performed(p, "ok")
    /\ view' = [view EXCEPT ![p] = Read(p, cur[p])]
    /\ attached' = [attached EXCEPT ![p] = FALSE]
    /\ again' = [again EXCEPT ![p] = Idle]
    /\ pending' = [pending EXCEPT ![p] = Idle]
    /\ level' = [level EXCEPT ![p] = 1]
    /\ recorded' = [recorded EXCEPT ![p] = NoneRecorded]

\* SIGKILL, in any state; the tracer hears of it later, and droptcb frees the entry.
Kill(p) ==
    /\ p \in Live
    /\ stage' = [stage EXCEPT ![p] = "dead"]
    /\ again' = [again EXCEPT ![p] = Idle]
    /\ pending' = [pending EXCEPT ![p] = Idle]
    /\ level' = [level EXCEPT ![p] = 1]
    /\ recorded' = [recorded EXCEPT ![p] = NoneRecorded]
    /\ attached' = [attached EXCEPT ![p] = FALSE]
    /\ Forget(p)
    /\ UNCHANGED <<modes, personality, insyscall, childshm, setting_up_shm, saved_regs,
                   nsignals, over>>

free_tcb(p) ==
    /\ stage' = [stage EXCEPT ![p] = "unused"]
    /\ insyscall' = [insyscall EXCEPT ![p] = FALSE]
    /\ childshm' = [childshm EXCEPT ![p] = Null]
    /\ setting_up_shm' = [setting_up_shm EXCEPT ![p] = FALSE]
    /\ saved_regs' = [saved_regs EXCEPT ![p] = NoCall]
    /\ Forget(p)
    /\ UNCHANGED <<nsignals, over>>

Reap(p) ==
    /\ stage[p] = "dead"
    /\ free_tcb(p)
    /\ UNCHANGED <<modes, personality, again, pending, level, attached, recorded>>
-----------------------------------------------------------------------------
\* Mutant: the registers are kept after they were changed.
begin_setup_shmat_late(p) ==
    /\ saved_regs' = [saved_regs EXCEPT ![p] = Shmat]
    /\ cur' = [cur EXCEPT ![p] = Shmat]
    /\ setting_up_shm' = [setting_up_shm EXCEPT ![p] = TRUE]
    /\ UNCHANGED <<regs, localshm, recorded>>

\* Mutant: the execve is recorded although its handler will run again.
begin_setup_shmat_recorded(p) ==
    /\ saved_regs' = [saved_regs EXCEPT ![p] = cur[p]]
    /\ cur' = [cur EXCEPT ![p] = Shmat]
    /\ setting_up_shm' = [setting_up_shm EXCEPT ![p] = TRUE]
    /\ recorded' = [recorded EXCEPT ![p][level[p]] = @ + 1]
    /\ UNCHANGED <<regs, localshm>>

\* begin_setup_shmat: the registers are kept and the call becomes shmat.
begin_setup_shmat(p) ==
    /\ saved_regs' = [saved_regs EXCEPT ![p] = cur[p]]
    /\ cur' = [cur EXCEPT ![p] = Shmat]
    /\ setting_up_shm' = [setting_up_shm EXCEPT ![p] = TRUE]
    /\ UNCHANGED <<regs, localshm, recorded>>

\* The handler of the entry of a call that goes on: in exec mode its paths are
\* rewritten, in audit mode an execve is recorded.
modify_syscall(p) ==
    /\ IF exec_mode /\ ToRedirect(cur[p]) # {}
       THEN /\ localshm' = [localshm EXCEPT ![p] = Strings(cur[p])]
            /\ regs' = [regs EXCEPT ![p] = Point(p \in emu, cur[p], ToRedirect(cur[p]))]
       ELSE UNCHANGED <<localshm, regs>>
    /\ recorded' = IF ~exec_mode /\ cur[p].op = "exec"
                   THEN [recorded EXCEPT ![p][level[p]] = @ + 1] ELSE recorded
    /\ UNCHANGED <<saved_regs, cur, setting_up_shm>>

Injects(p) == NeedsShm(exec_mode, cur[p]) /\ childshm[p] = Null

\* trace_syscall_entering: get_scno looks at the word size of p, the handler of the
\* call runs, and p is restarted.
trace_syscall_entering(p) ==
    /\ personality' = (p \in emu)
    /\ IF Injects(p) THEN begin_setup_shmat(p) ELSE modify_syscall(p)
    /\ insyscall' = [insyscall EXCEPT ![p] = TRUE]
    /\ stage' = [stage EXCEPT ![p] = "kernel"]
    /\ UNCHANGED <<modes, childshm, rval, attached, context, view, over>>

\* CDE_begin_execve of another tracer: the process is let go.
DetachTracer(p) ==
    /\ personality' = (p \in emu)
    /\ free_tcb(p)
    /\ attached' = [attached EXCEPT ![p] = FALSE]
    /\ recorded' = [recorded EXCEPT ![p] = NoneRecorded]
    /\ again' = [again EXCEPT ![p] = Idle]
    /\ pending' = [pending EXCEPT ![p] = Idle]
    /\ level' = [level EXCEPT ![p] = 1]
    /\ UNCHANGED modes

\* finish_setup_shmat asserts that the call was the shmat of p's word size, as the
\* word size of the last process that entered a call says, and for a 32-bit process
\* that it succeeded.  A 64-bit process whose shmat failed gets its error as address.
FinishAsserts(p) ==
    /\ cur[p] = Shmat
    /\ (p \in emu) = personality
    /\ personality => rval[p] = "ok"

\* Mutant: the call is not repeated.
finish_setup_shmat_once(p) ==
    /\ childshm' = [childshm EXCEPT ![p] = IF rval[p] = "ok" THEN "segment" ELSE "error"]
    /\ saved_regs' = [saved_regs EXCEPT ![p] = NoCall]
    /\ setting_up_shm' = [setting_up_shm EXCEPT ![p] = FALSE]
    /\ UNCHANGED again

\* Mutant: the attached address is not kept.
finish_setup_shmat_lost(p) ==
    /\ again' = [again EXCEPT ![p][level[p]] = saved_regs[p]]
    /\ saved_regs' = [saved_regs EXCEPT ![p] = NoCall]
    /\ setting_up_shm' = [setting_up_shm EXCEPT ![p] = FALSE]
    /\ UNCHANGED childshm

\* Mutant: setting_up_shm is not reset.
finish_setup_shmat_open(p) ==
    /\ childshm' = [childshm EXCEPT ![p] = IF rval[p] = "ok" THEN "segment" ELSE "error"]
    /\ again' = [again EXCEPT ![p][level[p]] = saved_regs[p]]
    /\ saved_regs' = [saved_regs EXCEPT ![p] = NoCall]
    /\ UNCHANGED setting_up_shm

\* finish_setup_shmat, when its assertions hold: the saved registers are restored,
\* with the instruction pointer backed up.
finish_setup_shmat(p) ==
    /\ childshm' = [childshm EXCEPT ![p] = IF rval[p] = "ok" THEN "segment" ELSE "error"]
    /\ again' = [again EXCEPT ![p][level[p]] = saved_regs[p]]
    /\ saved_regs' = [saved_regs EXCEPT ![p] = NoCall]
    /\ setting_up_shm' = [setting_up_shm EXCEPT ![p] = FALSE]

\* Mutant: childshm is cleared only when the execve has failed.
CDE_end_execve_failed(p) ==
    IF exec_mode /\ rval[p] = "error"
    THEN childshm' = [childshm EXCEPT ![p] = Null] ELSE UNCHANGED childshm

\* CDE_end_execve, whether the execve succeeded or not.
CDE_end_execve(p) ==
    IF exec_mode THEN childshm' = [childshm EXCEPT ![p] = Null] ELSE UNCHANGED childshm

\* trace_syscall_exiting: the set-up is finished, or the exit handler of the call
\* runs, and p is restarted.
trace_syscall_exiting(p) ==
    /\ IF setting_up_shm[p]
       THEN FinishAsserts(p) /\ finish_setup_shmat(p) /\ UNCHANGED recorded
       ELSE /\ (p \in emu) = personality
            /\ IF cur[p].op = "exec" THEN CDE_end_execve(p) ELSE UNCHANGED childshm
            /\ recorded' = [recorded EXCEPT ![p][level[p]] = 0]
            /\ UNCHANGED <<again, saved_regs, setting_up_shm>>
    /\ insyscall' = [insyscall EXCEPT ![p] = FALSE]
    /\ stage' = [stage EXCEPT ![p] = IF cur[p].op = "exec" /\ rval[p] = "ok" THEN "trap"
                                     ELSE "user"]
    /\ Forget(p)
    /\ UNCHANGED <<modes, personality, attached, pending, level, nsignals, over>>

\* syscall_fixup: a stop that finds no call in progress and is not the entry of one
\* (rax is not -ENOSYS) is ignored, once get_scno has read the word size of the process.
StrayExit(p) ==
    /\ stage' = [stage EXCEPT ![p] = "user"]
    /\ personality' = (p \in emu)
    /\ UNCHANGED <<modes, tcbs, cur, regs, rval, attached, context, view, recorded, over>>

Stopped(p) == stage[p] \in {"enter", "leave", "trap"}

\* trace_syscall: TCB_INSYSCALL alone says whether a stop is an entry or an exit.
trace_syscall(p) ==
    /\ Stopped(p)
    /\ \/ ~insyscall[p] /\ stage[p] = "enter" /\ ~Detaches(cur[p]) /\ trace_syscall_entering(p)
       \/ ~insyscall[p] /\ stage[p] = "enter" /\ Detaches(cur[p]) /\ DetachTracer(p)
       \/ ~insyscall[p] /\ stage[p] # "enter" /\ StrayExit(p)
       \/ insyscall[p] /\ trace_syscall_exiting(p)

\* The tracer ends: an assertion of finish_setup_shmat fails ("abort"), or the exit of
\* a call is handled with the system call table of the other word size, after which
\* the model does not follow the trace ("lost").
Ends(p) ==
    /\ Stopped(p) /\ insyscall[p]
    /\ \/ setting_up_shm[p] /\ ~FinishAsserts(p) /\ over' = "abort"
       \/ ~setting_up_shm[p] /\ (p \in emu) # personality /\ over' = "lost"
    /\ UNCHANGED <<modes, personality, tcbs, stage, cur, regs, rval, attached, context, view,
                   recorded>>

Kernel(p) == Attach(p) \/ AttachFails(p) \/ Perform(p) \/ Become(p)

Program(p) ==
    \/ \E c \in Calls : Issue(p, c)
    \/ Signal(p) \/ SigReturn(p)
    \/ \E q \in Pids : Fork(p, q)
    \/ Kill(p)

Ended == (over # "no" \/ \A p \in Pids : stage[p] = "unused") /\ UNCHANGED vars

\* A process that is in a call, or about to repeat one, is moved on: by the tracer when
\* it is stopped, by the kernel, by itself.
Proceed(p) ==
    over = "no" /\ (trace_syscall(p) \/ Ends(p) \/ Kernel(p) \/ Repeat(p))

Next ==
    \/ \E p \in Pids : Proceed(p) \/ (over = "no" /\ (Program(p) \/ Reap(p)))
    \/ Ended

Spec == Init /\ [][Next]_vars

\* The tracer handles every stop, the kernel performs what it is let perform, and a
\* process that may run executes its next instruction.  What the program calls, and
\* whether its signal handlers return, is up to it.
Fairness == \A p \in Pids : WF_vars(Proceed(p))

FairSpec == Spec /\ Fairness
-----------------------------------------------------------------------------
TypeOK ==
    /\ exec_mode \in BOOLEAN /\ emu \subseteq Pids /\ personality \in BOOLEAN
    /\ insyscall \in [Pids -> BOOLEAN]
    /\ childshm \in [Pids -> {Null, "segment", "error"}]
    /\ setting_up_shm \in [Pids -> BOOLEAN]
    /\ saved_regs \in [Pids -> Calls \cup {NoCall}]
    /\ stage \in [Pids -> Stages]
    /\ cur \in [Pids -> Calls \cup {NoCall, Shmat}]
    /\ regs \in [Pids -> [Registers -> 0 .. 2]]
    /\ rval \in [Pids -> {"ok", "error"}]
    /\ attached \in [Pids -> BOOLEAN]
    /\ again \in [Pids -> [1 .. 2 -> Calls \cup {NoCall}]]
    /\ pending \in [Pids -> [1 .. 2 -> Calls \cup {NoCall}]]
    /\ level \in [Pids -> 1 .. 2]
    /\ recorded \in [Pids -> [1 .. 2 -> Nat]]
    /\ nsignals \in 0 .. MaxSignals
    /\ over \in {"no", "abort", "lost"}

\* An execve has replaced the address space of p and its exit is still to be handled.
AfterExecve(p) == stage[p] = "leave" /\ cur[p].op = "exec" /\ rval[p] = "ok"

\* In exec mode the address that the tracer writes into the registers of a process is
\* that of its segment, attached in the address space the process has now: forks,
\* vforks, failed and successful execves and recycled table entries included.
SegmentAttached ==
    exec_mode => \A p \in Live : childshm[p] = "segment" /\ ~AfterExecve(p) => attached[p]

\* In audit mode an execve is recorded once before the kernel performs it, although
\* its handler runs twice when the segment must be attached first, and although a
\* signal handler may call execve in between.
RecordedOnce ==
    \A p \in Pids : ~exec_mode /\ stage[p] = "kernel" /\ cur[p].op = "exec" =>
                       recorded[p][level[p]] = 1

\* The assertions of finish_setup_shmat never fail because something else than its
\* shmat has returned: only when the shmat of a 32-bit process has failed, or when
\* programs of both word sizes are traced.
AbortOnlyOnFailure ==
    over = "abort" =>
        \E p \in Pids : /\ setting_up_shm[p] /\ cur[p] = Shmat
                        /\ \/ p \in emu /\ rval[p] = "error"
                           \/ \E q \in Pids : (q \in emu) # (p \in emu)

\* What the kernel is to read for the paths of a call.  Two exceptions are the code's:
\* an executable that the package lacks is looked for on the host, and a fourth
\* argument of a 64-bit process is not redirected.
Rewritten(m, e, c, i) == m /\ i \in ToRedirect(c) /\ ~(c.op = "twoat" /\ i = 2 /\ ~e)

Promised(m, e, c) ==
    [i \in DOMAIN c.paths |-> IF Rewritten(m, e, c, i) THEN InPackage(c, i) ELSE Host(c.paths[i])]

\* What it reads instead when the shmat of a 64-bit process failed.
Broken(m, e, c) ==
    [i \in DOMAIN c.paths |-> IF Rewritten(m, e, c, i) THEN Fault ELSE Host(c.paths[i])]

Service == INSTANCE SyscallService WITH
               Unread <- <<>>, Seen <- Promised, Faulty <- Broken,
               broken <- {p \in Pids : childshm[p] = "error"}

\* The injected shmat and the repetition of the call are invisible: every call of the
\* program is performed at most once, with the paths promised for it, and after a
\* set-up the interrupted call is performed before the process goes on.
ServiceSpec == Service!Spec

\* A call that a process has made is performed at last, unless a signal handler runs
\* first, the process is killed, or the tracer ends: the set-up does not go on for
\* ever.
CallPerformed ==
    \A p \in Pids :
        pending[p][level[p]] # NoCall ~> pending[p][level[p]] = NoCall \/ over # "no"
=============================================================================
