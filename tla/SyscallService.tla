--------------------------- MODULE SyscallService ---------------------------
(***************************************************************************)
(* What the tracer owes to the program it replays, as the program sees it: *)
(* a system call that a process makes is performed at most once, nothing   *)
(* is performed that the process did not call, and the kernel reads the    *)
(* paths that were promised for the call.  The set-up of the shared        *)
(* memory through which paths are rewritten does not show.                 *)
(*                                                                         *)
(* A process runs at level 1, or at level 2 in a signal handler that       *)
(* interrupted level 1; at each level it has at most one call pending.     *)
(***************************************************************************)
EXTENDS Integers

CONSTANTS
    Pids,           \* processes
    Calls,          \* system calls with their path arguments
    NoCall,         \* no call is pending
    Unread,         \* no call was performed and has not returned
    Seen(_, _, _),  \* the paths that the kernel is to read, by mode, word size and call
    Faulty(_, _, _) \* what it reads when the process has no usable shared memory

VARIABLES
    exec_mode,  \* whether paths are redirected
    emu,        \* the 32-bit processes
    pending,    \* the call that each process waits for, at each level
    level,      \* the level each process runs at
    view,       \* what the kernel read for a call that was performed
    broken      \* the processes whose shared memory could not be set up

svars == <<exec_mode, emu, pending, level, view, broken>>

Idle == [l \in 1 .. 2 |-> NoCall]

Init ==
    /\ exec_mode \in BOOLEAN
    /\ emu \subseteq Pids
    /\ pending = [p \in Pids |-> Idle]
    /\ level = [p \in Pids |-> 1]
    /\ view = [p \in Pids |-> Unread]
    /\ broken = {}

\* What the kernel reads for the call c of p.
Read(p, c) ==
    IF p \in broken THEN Faulty(exec_mode, p \in emu, c) ELSE Seen(exec_mode, p \in emu, c)

\* The process calls.
Issue(p, c) ==
    /\ pending[p][level[p]] = NoCall
    /\ pending' = [pending EXCEPT ![p][level[p]] = c]
    /\ UNCHANGED <<level, view, broken>>

\* The kernel performs the pending call, once.
Perform(p) ==
    LET c == pending[p][level[p]] IN
    /\ c # NoCall
    /\ pending' = [pending EXCEPT ![p][level[p]] = NoCall]
    /\ view' = [view EXCEPT ![p] = Read(p, c)]
    /\ UNCHANGED <<level, broken>>

\* The kernel performs an execve that succeeds: the interrupted level is gone too.
Become(p) ==
    LET c == pending[p][level[p]] IN
    /\ c # NoCall
    /\ pending' = [pending EXCEPT ![p] = Idle]
    /\ level' = [level EXCEPT ![p] = 1]
    /\ view' = [view EXCEPT ![p] = Read(p, c)]
    /\ UNCHANGED broken

\* The call returns.
Return(p) ==
    /\ pending[p][level[p]] = NoCall
    /\ view' = [view EXCEPT ![p] = Unread]
    /\ broken' \in {broken, broken \ {p}}
    /\ UNCHANGED <<pending, level>>

\* A signal handler starts, and returns with no call of its own pending.
Interrupt(p) ==
    /\ level[p] = 1
    /\ level' = [level EXCEPT ![p] = 2]
    /\ UNCHANGED <<pending, view, broken>>

HandlerReturn(p) ==
    /\ level[p] = 2 /\ pending[p][2] = NoCall
    /\ level' = [level EXCEPT ![p] = 1]
    /\ UNCHANGED <<pending, view, broken>>

\* A child starts with the contexts of its parent, and with nothing to share.
Spawn(p, q) ==
    /\ pending[p][level[p]] = NoCall
    /\ pending' = [pending EXCEPT ![q] = pending[p]]
    /\ level' = [level EXCEPT ![q] = level[p]]
    /\ view' = [view EXCEPT ![q] = Unread]
    /\ broken' = broken \ {q}

\* The process dies, whatever it was doing.
Die(p) ==
    /\ pending' = [pending EXCEPT ![p] = Idle]
    /\ level' = [level EXCEPT ![p] = 1]
    /\ view' = [view EXCEPT ![p] = Unread]
    /\ broken' \in {broken, broken \ {p}}

\* The shared memory of a process cannot be set up, or its entry is recycled.
Break(p) == broken' = broken \cup {p} /\ UNCHANGED <<pending, level, view>>
Renew(p) == broken' = broken \ {p} /\ UNCHANGED <<pending, level, view>>

Next ==
    /\ UNCHANGED <<exec_mode, emu>>
    /\ \E p \in Pids :
        \/ \E c \in Calls : Issue(p, c)
        \/ Perform(p) \/ Become(p) \/ Return(p)
        \/ Interrupt(p) \/ HandlerReturn(p)
        \/ \E q \in Pids \ {p} : Spawn(p, q)
        \/ Die(p) \/ Break(p) \/ Renew(p)

Spec == Init /\ [][Next]_svars
=============================================================================
