------------------------- MODULE ProvMonitorProofs -------------------------
(***************************************************************************)
(* Proofs about ProvMonitor, for every set of processes, every length of   *)
(* the array and every number of registrations that fits in it.            *)
(***************************************************************************)
EXTENDS ProvMonitor, TLAPS

\* Most leaves are first-order reasoning about sets and functions: Zenon is tried first.
USE Zenon, SMTT(20)

\* The control points between a pthread_mutex_lock and its unlock.
Critical == {"curtest", "curmem", "curlost", "curswap", "curdec", "curunlock",
             "addstore", "addinc", "addunlock",
             "rmfind", "rmswap", "rmdec", "rmunlock"}

\* At most one thread is inside a critical section, the owner of the mutex as
\* long as there is one; it is destroyed only after the monitor's last sweep.
Exclusion ==
    /\ ~(at[Tracer] \in Critical /\ at[Monitor] \in Critical)
    /\ ~destroyed => \A t \in Threads : at[t] \in Critical <=> mutex = t
    /\ destroyed => at[Monitor] \in {"close", "done"} /\ mutex = "free"

\* There is room for the entry that a handler is about to store, and a removal
\* points at a used slot.
Bounds ==
    /\ pc <= nexec
    /\ at[Tracer] \in {"logexecve2", "addlock", "addstore", "addinc"} => nexec < MaxExecs
    /\ at[Tracer] = "addinc" => pv[pc] = <<arg, nexec>>
    /\ \A t \in Threads :
         at[t] \in {"curmem", "curlost", "curswap", "curdec", "rmswap", "rmdec"}
            => idx[t] < pc

\* Number of entries, not counting the one that a removal is about to drop.
Size == IF MidRemoval THEN pc - 1 ELSE pc

\* The used part of the array holds the registrations not yet removed, once each.
Exact ==
    /\ \A i \in 0 .. (Size - 1) : pv[i] \in registered /\ pv[i] \notin retired
    /\ \A e \in registered : e \notin retired => \E i \in 0 .. (Size - 1) : pv[i] = e
    /\ \A i, j \in 0 .. (Size - 1) : pv[i] = pv[j] => i = j
    /\ \A e \in registered : e[1] \in Pids /\ e[2] < nexec
    /\ retired \subseteq registered

\* What a thread in the middle of a removal has found out about its victim.
Victims ==
    /\ \A t \in Threads :
         /\ at[t] \in {"curmem", "curlost", "curswap", "rmswap"} => victim[t] = pv[idx[t]]
         /\ at[t] \in {"curlost", "curswap"} => proc[victim[t][1]] = "reaped"
    /\ at[Tracer] = "rmswap" => victim[Tracer][1] = arg

\* The process of the current handler is stopped, thus alive; only a process
\* that is exiting or no longer there has been removed.
Alive ==
    /\ at[Tracer] # "idle" => proc[arg] = "live"
    /\ \A e \in registered : proc[e[1]] # "absent"
    /\ \A e \in retired : proc[e[1]] = "live" => Exiting(e[1])
    /\ at[Tracer] = "logspawn" => \A e \in registered : e[1] # arg

\* The entry of a process that has logged EXIT, or is about to, is gone.
Exited ==
    /\ \A p \in Pids : last[p] = "EXIT" => proc[p] \in {"gone", "reaped"}
    /\ \A p \in Pids : last[p] = "EXIT" /\ RegisteredOnce(p)
         => \A e \in registered : e[1] = p => e \in retired
    /\ at[Tracer] \in {"rmdec", "rmunlock", "logexit"} /\ RegisteredOnce(arg)
         => \A e \in registered : e[1] = arg => e \in retired

\* The log knows the execve of every registered process.
Logged ==
    logfile = "open" =>
        /\ \A e \in registered : last[e[1]] \notin {"none", "SPAWN"}
        /\ at[Tracer] \in {"addlock", "addstore", "addinc"}
             => last[arg] \notin {"none", "SPAWN"}

IInv == TypeOK /\ Exclusion /\ Bounds /\ Exact /\ Victims /\ Alive /\ Exited /\ Logged
-----------------------------------------------------------------------------
\* The constants are such that every slot the code can name is in the array.
LEMMA Constants ==
    /\ PVLen \in Nat /\ MaxExecs \in Nat /\ MaxExecs <= PVLen
    /\ Root \in Pids /\ NoPid \notin Pids
    /\ Tracer \in Threads /\ Monitor \in Threads /\ Tracer # Monitor
    /\ \A t \in Threads : t = Tracer \/ t = Monitor
  BY RootAssumption, NoPidAssumption, BoundAssumption DEF Threads, Tracer, Monitor

\* Moving a thread to another of its labels keeps the control points typed.
LEMMA GotoTyped ==
    ASSUME ControlOK, NEW t \in Threads, NEW label, Goto(t, label),
           t = Tracer => label \in TracerLabels,
           t = Monitor => label \in MonitorLabels
    PROVE  /\ at' \in [Threads -> TracerLabels \cup MonitorLabels]
           /\ at'[Tracer] \in TracerLabels
           /\ at'[Monitor] \in MonitorLabels
<1>1. t = Tracer \/ t = Monitor
  BY DEF Threads
<1> QED
  BY <1>1 DEF ControlOK, Goto, Threads, Tracer, Monitor

\* The data keep their types.
LEMMA DataStep ==
    ASSUME TypeOK, Bounds, Running
    PROVE  DataOK'
<1> USE Constants DEF TypeOK, DataOK, list, control
<1>1. ASSUME NEW t \in Threads, CurLock(t) PROVE DataOK'
  BY <1>1, SMT DEF CurLock, Lock
<1>2. ASSUME NEW t \in Threads, CurTest(t) PROVE DataOK'
  <2>1. idx[t] < pc => pv[idx[t]] \in Entry
    BY SMT
  <2> QED
    BY <1>2, <2>1 DEF CurTest
<1>3. ASSUME NEW t \in Threads, CurMem(t) PROVE DataOK'
  <2>1. idx[t] + 1 \in 0 .. PVLen
    BY <1>3, SMT DEF CurMem, Bounds
  <2> QED
    BY <1>3, <2>1 DEF CurMem, Write, Kinds
<1>4. ASSUME NEW t \in Threads, CurLost(t) PROVE DataOK'
  BY <1>4 DEF CurLost, Write, Kinds
<1>5. ASSUME NEW t \in Threads, MoveLast(t), idx[t] < pc
      PROVE  pv' \in [0 .. (PVLen - 1) -> Entry] /\ retired' \subseteq Entry
             /\ UNCHANGED <<pc, nexec, registered>>
  <2>1. pv[pc - 1] \in Entry /\ victim[t] \in Entry
    BY <1>5, SMT
  <2> QED
    BY <1>5, <2>1 DEF MoveLast
<1>6. ASSUME NEW t \in Threads, CurSwap(t) PROVE DataOK'
  <2>1. MoveLast(t) /\ idx[t] < pc
    BY <1>6 DEF CurSwap, Bounds
  <2> QED
    BY <1>5, <1>6, <2>1 DEF CurSwap
<1>7. ASSUME NEW t \in Threads, CurDec(t) PROVE DataOK'
  <2>1. idx[t] + 1 \in 0 .. PVLen /\ pc - 1 \in 0 .. MaxExecs
    BY <1>7, SMT DEF CurDec, Bounds
  <2> QED
    BY <1>7, <2>1 DEF CurDec
<1>8. ASSUME NEW t \in Threads, DropLocals(t)
      PROVE  idx' \in [Threads -> 0 .. PVLen] /\ victim' \in [Threads -> Entry]
  BY <1>8, SMT DEF DropLocals, Entry
<1>9. ASSUME NEW t \in Threads, CurUnlock(t) PROVE DataOK'
  BY <1>8, <1>9 DEF CurUnlock, Unlock
<1>10. CASE AddLock \/ AddUnlock
  BY <1>10 DEF AddLock, AddUnlock, Lock, Unlock
<1>11. CASE AddStore
  <2>1. <<arg, nexec>> \in Entry
    BY SMT DEF Entry
  <2> QED
    BY <1>11, <2>1 DEF AddStore
<1>12. CASE AddInc
  <2>1. <<arg, nexec>> \in Entry
    BY SMT DEF Entry
  <2>2. pc + 1 \in 0 .. MaxExecs /\ nexec + 1 \in 0 .. MaxExecs
    BY <1>12, SMT DEF AddInc, Bounds
  <2> QED
    BY <1>12, <2>1, <2>2 DEF AddInc
<1>13. CASE RmCheck \/ RmLock
  BY <1>13 DEF RmCheck, RmLock, Lock
<1>14. CASE RmFind
  <2>1. \A i \in Slots : i \in 0 .. PVLen /\ pv[i] \in Entry
    BY SMT DEF Slots
  <2> QED
    BY <1>14, <2>1 DEF RmFind
<1>15. CASE RmSwap
  <2>1. MoveLast(Tracer) /\ idx[Tracer] < pc
    BY <1>15 DEF RmSwap, Bounds
  <2> QED
    BY <1>5, <1>15, <2>1 DEF RmSwap
<1>16. CASE RmDec
  BY <1>16, SMT DEF RmDec, Bounds
<1>17. CASE RmUnlock
  BY <1>8, <1>17 DEF RmUnlock, Unlock
<1>18. CASE LogRecord \/ LogAndDetach
  BY <1>18 DEF LogRecord, LogAndDetach, Write, Kinds, ProcStates
<1>19. CASE CaptureContProv
  BY <1>19 DEF CaptureContProv, MonitorFirst, MonitorLoop, MonitorDestroy, MonitorClose
<1>20. ASSUME NEW p \in Pids, Event(p) \/ Reap(p) PROVE DataOK'
  BY <1>20 DEF Event, BeginRecord, BeginDetach, EndExecve, InternalExit, KilledBySignal,
               Begin, Reap, ProcStates
<1>21. ASSUME NEW p \in Pids, NEW child \in Pids, BeginSpawn(p, child) PROVE DataOK'
  BY <1>21 DEF BeginSpawn, ProcStates
<1>22. CASE TracerExit \/ \E t \in Threads : CrashOnWrite(t)
  BY <1>22 DEF TracerExit, CrashOnWrite
<1> QED
  BY <1>1, <1>2, <1>3, <1>4, <1>6, <1>7, <1>9, <1>10, <1>11, <1>12, <1>13, <1>14, <1>15,
     <1>16, <1>17, <1>18, <1>19, <1>20, <1>21, <1>22
  DEF Running, TracerStep, MonitorStep, PrintCurr, AddPid, RmPid

\* Both threads run print_curr_prov; the other labels belong to one of them.
LEMMA LabelSets ==
    /\ CurLabels \subseteq TracerLabels /\ CurLabels \subseteq MonitorLabels
    /\ AddLabels \cup RmLabels \cup LogLabels \cup {"idle"} \subseteq TracerLabels
    /\ {"first", "loop", "destroy", "close", "done"} \subseteq MonitorLabels
  BY DEF TracerLabels, MonitorLabels

\* The control points and return addresses keep their types.
LEMMA ControlStep ==
    ASSUME TypeOK, Running
    PROVE  ControlOK'
<1> USE Constants, LabelSets DEF TypeOK
<1>1. ASSUME NEW t \in Threads, NEW label, Goto(t, label), UNCHANGED ret,
             t = Tracer => label \in TracerLabels,
             t = Monitor => label \in MonitorLabels
      PROVE  ControlOK'
  BY <1>1, GotoTyped DEF ControlOK
<1>2. ASSUME NEW t \in Threads, PrintCurr(t) PROVE ControlOK'
  <2>1. PICK label : Goto(t, label) /\ (label \in CurLabels \/ label = ret[t])
    BY <1>2 DEF PrintCurr, CurLock, CurTest, CurMem, CurLost, CurSwap, CurDec, CurUnlock,
                Lock, Unlock, Write, CurLabels
  <2>2. UNCHANGED ret
    BY <1>2 DEF PrintCurr, CurLock, CurTest, CurMem, CurLost, CurSwap, CurDec, CurUnlock
  <2>3. ret[Tracer] \in TracerLabels /\ ret[Monitor] \in MonitorLabels
    BY DEF ControlOK, RmLabels
  <2> QED
    BY <1>1, <2>1, <2>2, <2>3
<1>3. ASSUME NEW label \in CurLabels \cup AddLabels \cup RmLabels \cup LogLabels \cup {"idle"},
             Goto(Tracer, label), UNCHANGED ret
      PROVE  ControlOK'
  BY <1>1, <1>3
<1>4. CASE AddPid
  <2>1. CASE AddUnlock
    <3>1. Goto(Tracer, "curlock") /\ ret' = [ret EXCEPT ![Tracer] = "idle"]
      BY <2>1 DEF AddUnlock, Unlock
    <3>2. "curlock" \in TracerLabels
      BY DEF CurLabels
    <3> QED
      BY <3>1, <3>2, GotoTyped DEF ControlOK
  <2>2. CASE AddLock \/ AddStore \/ AddInc
    <3>1. \E label \in AddLabels : Goto(Tracer, label) /\ UNCHANGED ret
      BY <2>2 DEF AddLock, AddStore, AddInc, Lock, AddLabels
    <3> QED
      BY <1>3, <3>1
  <2> QED
    BY <1>4, <2>1, <2>2 DEF AddPid
<1>5. CASE RmPid
  <2>1. CASE RmCheck /\ pc > 0
    <3>1. Goto(Tracer, "curlock") /\ ret' = [ret EXCEPT ![Tracer] = "rmlock"]
      BY <2>1, SMT DEF RmCheck, DataOK
    <3>2. "curlock" \in TracerLabels
      BY DEF CurLabels
    <3> QED
      BY <3>1, <3>2, GotoTyped DEF ControlOK
  <2>2. CASE (RmCheck /\ ~(pc > 0)) \/ RmLock \/ RmFind \/ RmSwap \/ RmDec \/ RmUnlock
    <3>1. \E label \in RmLabels \cup LogLabels : Goto(Tracer, label) /\ UNCHANGED ret
      BY <2>2, SMT DEF RmCheck, RmLock, RmFind, RmSwap, RmDec, RmUnlock, Lock, Unlock,
                  RmLabels, LogLabels, DataOK
    <3> QED
      BY <1>3, <3>1
  <2> QED
    BY <1>5, <2>1, <2>2 DEF RmPid
<1>6. CASE LogRecord \/ LogAndDetach
  <2>1. \E label \in AddLabels \cup {"idle"} : Goto(Tracer, label) /\ UNCHANGED ret
    BY <1>6 DEF LogRecord, LogAndDetach, Write, AddLabels
  <2> QED
    BY <1>3, <2>1
<1>7. CASE CaptureContProv
  <2>1. \E label \in CurLabels \cup {"first", "loop", "destroy", "close", "done"} :
          Goto(Monitor, label) /\ UNCHANGED ret
    BY <1>7 DEF CaptureContProv, MonitorFirst, MonitorLoop, MonitorDestroy, MonitorClose,
                CurLabels
  <2> QED
    BY <1>1, <2>1
<1>8. ASSUME NEW p \in Pids, NEW child \in Pids,
             \/ BeginRecord(p) \/ BeginDetach(p) \/ EndExecve(p) \/ InternalExit(p)
             \/ BeginSpawn(p, child)
      PROVE  ControlOK'
  <2>1. \E label \in RmLabels \cup LogLabels : Goto(Tracer, label) /\ UNCHANGED ret
    BY <1>8 DEF BeginRecord, BeginDetach, EndExecve, InternalExit, BeginSpawn, Begin,
                RmLabels, LogLabels
  <2> QED
    BY <1>3, <2>1
<1>9. ASSUME NEW p \in Pids, NEW t \in Threads,
             KilledBySignal(p) \/ Reap(p) \/ TracerExit \/ CrashOnWrite(t)
      PROVE  ControlOK'
  BY <1>9 DEF KilledBySignal, Reap, TracerExit, CrashOnWrite, control, ControlOK
<1> QED
  BY <1>2, <1>4, <1>5, <1>6, <1>7, <1>8, <1>9
  DEF Running, TracerStep, MonitorStep, Event

\* A step within or outside the critical sections keeps their exclusion.
LEMMA ExclusionStay ==
    ASSUME ControlOK, Exclusion, NEW t \in Threads, NEW label, Goto(t, label),
           UNCHANGED <<mutex, destroyed>>,
           at[t] \in Critical <=> label \in Critical,
           t = Monitor /\ destroyed => label \in {"close", "done"}
    PROVE  Exclusion'
  BY Constants DEF ControlOK, Exclusion, Goto

\* Taking the mutex keeps the exclusion, also when the mutex no longer exists.
LEMMA ExclusionLock ==
    ASSUME ControlOK, Exclusion, NEW t \in Threads, NEW from, NEW next, Lock(t, from, next),
           UNCHANGED destroyed, next \in Critical, from \notin Critical,
           t = Monitor => from \notin {"close", "done"}
    PROVE  Exclusion'
<1> USE Constants DEF ControlOK, Exclusion, Lock, Goto
<1>1. \A u \in Threads : at'[u] = IF u = t THEN next ELSE at[u]
  OBVIOUS
<1>2. CASE destroyed
  BY <1>1, <1>2 DEF Critical
<1>3. CASE ~destroyed
  BY <1>1, <1>3 DEF Threads, Tracer, Monitor
<1> QED
  BY <1>2, <1>3

\* Releasing it does as well.
LEMMA ExclusionUnlock ==
    ASSUME ControlOK, Exclusion, NEW t \in Threads, NEW from, NEW next, Unlock(t, from, next),
           UNCHANGED destroyed, from \in Critical, next \notin Critical,
           t = Monitor => from \notin {"close", "done"}
    PROVE  Exclusion'
<1> USE Constants DEF ControlOK, Exclusion, Unlock, Goto
<1>1. \A u \in Threads : at'[u] = IF u = t THEN next ELSE at[u]
  OBVIOUS
<1>2. CASE destroyed
  BY <1>1, <1>2 DEF Critical
<1>3. CASE ~destroyed
  BY <1>1, <1>3 DEF Threads, Tracer, Monitor
<1> QED
  BY <1>2, <1>3

\* mut_pidlist excludes the threads from each other's critical sections.
LEMMA ExclusionStep ==
    ASSUME TypeOK, Exclusion, Running
    PROVE  Exclusion'
<1> USE Constants DEF TypeOK
<1>1. ASSUME NEW t \in Threads, CurLock(t) PROVE Exclusion'
  BY <1>1, ExclusionLock DEF CurLock, Critical
<1>2. ASSUME NEW t \in Threads,
             CurTest(t) \/ CurMem(t) \/ CurLost(t) \/ CurSwap(t) \/ CurDec(t)
      PROVE  Exclusion'
  <2>1. /\ UNCHANGED <<mutex, destroyed>>
        /\ at[t] \in Critical /\ at[t] \notin {"close", "done"}
        /\ \E label \in Critical : Goto(t, label)
    BY <1>2 DEF CurTest, CurMem, CurLost, CurSwap, CurDec, Write, Critical
  <2>2. ~(t = Monitor /\ destroyed)
    BY <2>1 DEF Exclusion
  <2> QED
    BY <2>1, <2>2, ExclusionStay
<1>3. ASSUME NEW t \in Threads, CurUnlock(t) PROVE Exclusion'
  <2>1. ret[t] \notin Critical
    BY DEF ControlOK, Critical
  <2> QED
    BY <1>3, <2>1, ExclusionUnlock DEF CurUnlock, Critical
<1>4. CASE AddLock \/ RmLock
  BY <1>4, ExclusionLock DEF AddLock, RmLock, Critical
<1>5. CASE AddUnlock \/ RmUnlock
  BY <1>5, ExclusionUnlock DEF AddUnlock, RmUnlock, Critical
<1>6. CASE AddStore \/ AddInc \/ RmFind \/ RmSwap \/ RmDec
  <2>1. /\ UNCHANGED <<mutex, destroyed>> /\ at[Tracer] \in Critical
        /\ \E label \in Critical : Goto(Tracer, label)
    BY <1>6 DEF AddStore, AddInc, RmFind, RmSwap, RmDec, Critical
  <2> QED
    BY <2>1, ExclusionStay
<1>7. ASSUME NEW p \in Pids, NEW child \in Pids,
             \/ RmCheck \/ LogRecord \/ LogAndDetach \/ BeginRecord(p) \/ BeginDetach(p)
             \/ EndExecve(p) \/ InternalExit(p) \/ BeginSpawn(p, child)
      PROVE  Exclusion'
  <2>1. /\ UNCHANGED <<mutex, destroyed>> /\ at[Tracer] \notin Critical
        /\ \E label : Goto(Tracer, label) /\ label \notin Critical
    BY <1>7, SMT DEF RmCheck, LogRecord, LogAndDetach, BeginRecord, BeginDetach, EndExecve,
                InternalExit, BeginSpawn, Begin, Write, Critical
  <2> QED
    BY <2>1, ExclusionStay
<1>8. CASE MonitorFirst \/ MonitorLoop \/ MonitorClose
  <2>1. /\ UNCHANGED <<mutex, destroyed>> /\ at[Monitor] \notin Critical
        /\ \E label : Goto(Monitor, label) /\ label \notin Critical
                     /\ (at[Monitor] \in {"close", "done"} => label \in {"close", "done"})
    BY <1>8 DEF MonitorFirst, MonitorLoop, MonitorClose, Critical
  <2> QED
    BY <2>1, ExclusionStay DEF Exclusion
<1>9. CASE MonitorDestroy
  <2>1. at'[Monitor] = "close" /\ at'[Tracer] = at[Tracer] /\ at[Monitor] = "destroy"
    BY <1>9 DEF MonitorDestroy, Goto, ControlOK
  <2>2. destroyed' = (mutex = "free") /\ mutex' = mutex /\ ~destroyed
    BY <1>9, <2>1 DEF MonitorDestroy, Exclusion
  <2>3. "close" \notin Critical /\ "destroy" \notin Critical
    BY DEF Critical
  <2> QED
    BY <2>1, <2>2, <2>3 DEF Exclusion
<1>10. ASSUME NEW p \in Pids, NEW t \in Threads,
              KilledBySignal(p) \/ Reap(p) \/ TracerExit \/ CrashOnWrite(t)
       PROVE  Exclusion'
  BY <1>10, SMT DEF KilledBySignal, Reap, TracerExit, CrashOnWrite, control, Exclusion
<1> QED
  BY <1>1, <1>2, <1>3, <1>4, <1>5, <1>6, <1>7, <1>8, <1>9, <1>10
  DEF Running, TracerStep, MonitorStep, PrintCurr, AddPid, RmPid, CaptureContProv, Event

\* Removals point at used slots, and a registration has a free one.
LEMMA BoundsStep ==
    ASSUME TypeOK, Exclusion, Bounds, Running
    PROVE  Bounds'
<1> USE Constants DEF TypeOK, DataOK, Bounds, Goto, list, control
<1> USE DEF ControlOK
<1>1. ASSUME NEW t \in Threads, CurLock(t) \/ CurTest(t) PROVE Bounds'
  BY <1>1, SMT DEF CurLock, CurTest, Lock
<1>2. ASSUME NEW t \in Threads, CurMem(t) \/ CurLost(t) PROVE Bounds'
  <2>1. CASE CurMem(t)
    BY <2>1 DEF CurMem, Write
  <2>2. CASE CurLost(t)
    BY <2>2 DEF CurLost, Write
  <2> QED
    BY <1>2, <2>1, <2>2
<1>3. ASSUME NEW t \in Threads, CurSwap(t) PROVE Bounds'
  BY <1>3 DEF CurSwap, MoveLast, Exclusion, Critical
<1>4. ASSUME NEW t \in Threads, CurDec(t) PROVE Bounds'
  BY <1>4, SMT DEF CurDec, Exclusion, Critical
<1>5. ASSUME NEW t \in Threads, CurUnlock(t) PROVE Bounds'
  BY <1>5 DEF CurUnlock, Unlock, DropLocals
<1>6. CASE AddLock \/ AddUnlock
  BY <1>6, SMT DEF AddLock, AddUnlock, Lock, Unlock
<1>7. CASE AddStore
  BY <1>7, SMT DEF AddStore
<1>8. CASE AddInc
  BY <1>8, SMT DEF AddInc
<1>9. CASE RmCheck \/ RmLock \/ RmUnlock
  BY <1>9, SMT DEF RmCheck, RmLock, RmUnlock, Lock, Unlock, DropLocals
<1>10. CASE RmFind
  BY <1>10, SMT DEF RmFind, Slots
<1>11. CASE RmSwap
  BY <1>11 DEF RmSwap, MoveLast
<1>12. CASE RmDec
  BY <1>12, SMT DEF RmDec, Exclusion, Critical
<1>13. CASE LogRecord \/ LogAndDetach
  BY <1>13, SMT DEF LogRecord, LogAndDetach, Write
<1>14. CASE CaptureContProv
  BY <1>14 DEF CaptureContProv, MonitorFirst, MonitorLoop, MonitorDestroy, MonitorClose
<1>15. ASSUME NEW p \in Pids, NEW child \in Pids, Event(p) \/ Reap(p) \/ BeginSpawn(p, child)
       PROVE  Bounds'
  BY <1>15, SMT DEF Event, BeginRecord, BeginDetach, EndExecve, InternalExit, KilledBySignal,
               Begin, BeginSpawn, Reap
<1>16. CASE TracerExit \/ \E t \in Threads : CrashOnWrite(t)
  BY <1>16 DEF TracerExit, CrashOnWrite
<1> QED
  BY <1>1, <1>2, <1>3, <1>4, <1>5, <1>6, <1>7, <1>8, <1>9, <1>10, <1>11, <1>12, <1>13, <1>14,
     <1>15, <1>16
  DEF Running, TracerStep, MonitorStep, PrintCurr, AddPid, RmPid

\* Overwriting the victim with the last entry removes the victim and nothing else.
LEMMA MoveLastExact ==
    ASSUME TypeOK, Bounds, Exact, NEW t \in Threads, MoveLast(t), idx[t] < pc,
           victim[t] = pv[idx[t]], ~MidRemoval, MidRemoval'
    PROVE  Exact'
<1> USE Constants DEF TypeOK, DataOK, MoveLast
<1>1. Size = pc /\ Size' = pc - 1
  BY DEF Size
<1>2. idx[t] \in 0 .. (pc - 1) /\ pc - 1 \in 0 .. (pc - 1) /\ pc <= PVLen
  BY SMT
<1>3. \A i \in 0 .. (pc - 2) : pv'[i] = IF i = idx[t] THEN pv[pc - 1] ELSE pv[i]
  BY <1>2, SMT
<1>4. \A i \in 0 .. (pc - 1) : pv[i] = victim[t] => i = idx[t]
  BY <1>1, <1>2, SMT DEF Exact
<1>5. \A i \in 0 .. (pc - 2) : pv'[i] \in registered /\ pv'[i] \notin retired'
  BY <1>1, <1>2, <1>3, <1>4, SMT DEF Exact
<1>6. \A e \in registered : e \notin retired' => \E i \in 0 .. (pc - 2) : pv'[i] = e
  <2> SUFFICES ASSUME NEW e \in registered, e \notin retired, e # victim[t]
               PROVE  \E i \in 0 .. (pc - 2) : pv'[i] = e
    OBVIOUS
  <2>1. PICK i \in 0 .. (pc - 1) : pv[i] = e
    BY <1>1 DEF Exact
  <2>2. CASE i = pc - 1
    <3>1. idx[t] # pc - 1
      BY <2>1, <2>2
    <3>2. idx[t] \in 0 .. (pc - 2)
      BY <1>2, <3>1, SMT
    <3> QED
      BY <1>3, <2>1, <2>2, <3>2
  <2>3. CASE i # pc - 1
    <3>1. i \in 0 .. (pc - 2) /\ i # idx[t]
      BY <2>1, <2>3, SMT
    <3> QED
      BY <1>3, <2>1, <3>1
  <2> QED
    BY <2>2, <2>3
<1>7. \A i, j \in 0 .. (pc - 2) : pv'[i] = pv'[j] => i = j
  BY <1>1, <1>2, <1>3, SMT DEF Exact
<1>8. \A e \in registered : e[1] \in Pids /\ e[2] < nexec
  BY DEF Exact
<1>9. retired' \subseteq registered
  BY <1>1, <1>2, SMT DEF Exact
<1> QED
  BY <1>1, <1>5, <1>6, <1>7, <1>8, <1>9, SMT DEF Exact

\* The array holds the registrations not yet removed, once each.
LEMMA ExactStep ==
    ASSUME TypeOK, Exclusion, Bounds, Exact, Victims, Running
    PROVE  Exact'
<1> USE Constants DEF TypeOK
<1>1. ASSUME UNCHANGED list, MidRemoval' <=> MidRemoval PROVE Exact'
  BY <1>1 DEF Exact, Size, list
<1>2. ASSUME NEW t \in Threads, NEW label, Goto(t, label), UNCHANGED list,
             at[t] \notin {"curdec", "rmdec"}, label \notin {"curdec", "rmdec"}
      PROVE  Exact'
  <2>1. MidRemoval' <=> MidRemoval
    BY <1>2 DEF MidRemoval, Goto, ControlOK
  <2> QED
    BY <1>1, <1>2, <2>1
<1>3. ASSUME NEW t \in Threads, at[t] \in {"curswap", "rmswap"}, MoveLast(t),
             Goto(t, "curdec") \/ Goto(t, "rmdec")
      PROVE  Exact'
  <2>1. ~MidRemoval
    BY <1>3 DEF MidRemoval, Exclusion, Critical
  <2>2. MidRemoval'
    BY <1>3 DEF MidRemoval, Goto, ControlOK
  <2>3. victim[t] = pv[idx[t]] /\ idx[t] < pc
    BY <1>3 DEF Victims, Bounds
  <2> QED
    BY <1>3, <2>1, <2>2, <2>3, MoveLastExact
<1>4. ASSUME NEW t \in Threads, at[t] \in {"curdec", "rmdec"}, pc' = pc - 1,
             UNCHANGED <<pv, nexec, registered, retired>>,
             Goto(t, "curtest") \/ Goto(t, "rmunlock")
      PROVE  Exact'
  <2>1. MidRemoval /\ ~MidRemoval'
    BY <1>4 DEF MidRemoval, Goto, ControlOK, Exclusion, Critical
  <2>2. Size' = Size
    BY <1>4, <2>1 DEF Size
  <2> QED
    BY <1>4, <2>2 DEF Exact
<1>5. ASSUME NEW t \in Threads, PrintCurr(t) PROVE Exact'
  <2>1. CASE CurLock(t) \/ CurTest(t)
    BY <1>2, <2>1 DEF CurLock, CurTest, Lock
  <2>2. CASE CurMem(t) \/ CurLost(t)
    BY <1>2, <2>2 DEF CurMem, CurLost, Write
  <2>3. CASE CurSwap(t)
    BY <1>3, <2>3 DEF CurSwap
  <2>4. CASE CurDec(t)
    BY <1>4, <2>4 DEF CurDec
  <2>5. CASE CurUnlock(t)
    BY <1>2, <2>5 DEF CurUnlock, Unlock, ControlOK
  <2> QED
    BY <1>5, <2>1, <2>2, <2>3, <2>4, <2>5 DEF PrintCurr
<1>6. CASE AddLock \/ AddUnlock
  BY <1>2, <1>6 DEF AddLock, AddUnlock, Lock, Unlock
<1>7. CASE AddStore
  <2>1. ~MidRemoval /\ ~MidRemoval'
    BY <1>7 DEF AddStore, MidRemoval, Goto, ControlOK, Exclusion, Critical
  <2>2. \A i \in 0 .. (pc - 1) : pv'[i] = pv[i]
    <3>1. pv \in [0 .. (PVLen - 1) -> Entry] /\ pc \in Nat /\ pc <= PVLen
      BY SMT DEF DataOK
    <3>2. pv' = [pv EXCEPT ![pc] = <<arg, nexec>>]
      BY <1>7 DEF AddStore
    <3> QED
      BY <3>1, <3>2, SMT
  <2>3. Size = pc /\ Size' = pc
    BY <1>7, <2>1 DEF Size, AddStore
  <2>4. UNCHANGED <<nexec, registered, retired>>
    BY <1>7 DEF AddStore
  <2> QED
    BY <2>2, <2>3, <2>4, SMT DEF Exact
<1>8. CASE AddInc
  <2>1. ~MidRemoval /\ ~MidRemoval'
    BY <1>8 DEF AddInc, MidRemoval, Goto, ControlOK, Exclusion, Critical
  <2>2. Size = pc /\ Size' = pc + 1
    BY <1>8, <2>1 DEF Size, AddInc
  <2> DEFINE new == <<arg, nexec>>
  <2>3. pv[pc] = new /\ new[1] \in Pids /\ new[2] = nexec
    BY <1>8 DEF AddInc, Bounds, DataOK
  <2>4. new \notin registered /\ new \notin retired
    BY <2>3, SMT DEF Exact, DataOK
  <2>5. registered' = registered \cup {new} /\ nexec' = nexec + 1 /\ UNCHANGED <<pv, retired>>
    BY <1>8 DEF AddInc
  <2>6. pc \in Nat /\ nexec \in Nat
    BY SMT DEF DataOK
  <2> HIDE DEF new
  <2>7. \A i \in 0 .. pc : pv[i] \in registered' /\ pv[i] \notin retired
    <3>1. \A i \in 0 .. (pc - 1) : pv[i] \in registered /\ pv[i] \notin retired
      BY <2>2 DEF Exact
    <3>2. \A i \in 0 .. pc : i \in 0 .. (pc - 1) \/ i = pc
      BY <2>6, SMT
    <3> QED
      BY <2>3, <2>4, <2>5, <3>1, <3>2
  <2>8. \A e \in registered' : e \notin retired => \E i \in 0 .. pc : pv[i] = e
    BY <2>2, <2>3, <2>5, <2>6, SMT DEF Exact
  <2>9. \A i, j \in 0 .. pc : pv[i] = pv[j] => i = j
    BY <2>2, <2>3, <2>4, <2>6, SMT DEF Exact
  <2>10. \A e \in registered' : e[1] \in Pids /\ e[2] < nexec'
    <3>1. \A e \in registered : e[2] \in Nat
      BY DEF DataOK, Entry
    <3> QED
      BY <2>3, <2>5, <2>6, <3>1, SMT DEF Exact
  <2>11. Size' - 1 = pc
    BY <2>2, <2>6, SMT
  <2>12. retired' \subseteq registered'
    BY <2>5 DEF Exact
  <2> QED
    BY <2>5, <2>7, <2>8, <2>9, <2>10, <2>11, <2>12 DEF Exact
<1>9. CASE RmCheck \/ RmLock \/ RmFind \/ RmUnlock
  BY <1>2, <1>9 DEF RmCheck, RmLock, RmFind, RmUnlock, Lock, Unlock
<1>10. CASE RmSwap
  BY <1>3, <1>10 DEF RmSwap
<1>11. CASE RmDec
  BY <1>4, <1>11 DEF RmDec
<1>12. CASE LogRecord \/ LogAndDetach
  BY <1>2, <1>12 DEF LogRecord, LogAndDetach, Write
<1>13. CASE CaptureContProv
  BY <1>2, <1>13 DEF CaptureContProv, MonitorFirst, MonitorLoop, MonitorDestroy, MonitorClose
<1>14. ASSUME NEW p \in Pids, NEW child \in Pids,
              \/ BeginRecord(p) \/ BeginDetach(p) \/ EndExecve(p) \/ InternalExit(p)
              \/ BeginSpawn(p, child)
       PROVE  Exact'
  BY <1>2, <1>14 DEF BeginRecord, BeginDetach, EndExecve, InternalExit, BeginSpawn, Begin
<1>15. ASSUME NEW p \in Pids, NEW t \in Threads,
              KilledBySignal(p) \/ Reap(p) \/ TracerExit \/ CrashOnWrite(t)
       PROVE  Exact'
  BY <1>1, <1>15 DEF KilledBySignal, Reap, TracerExit, CrashOnWrite, control, MidRemoval
<1> QED
  BY <1>5, <1>6, <1>7, <1>8, <1>9, <1>10, <1>11, <1>12, <1>13, <1>14, <1>15
  DEF Running, TracerStep, MonitorStep, AddPid, RmPid, Event

\* A thread that removes knows its victim, and the victim is gone or exiting.
LEMMA VictimsStep ==
    ASSUME TypeOK, Exclusion, Bounds, Exact, Victims, Alive, Running
    PROVE  Victims'
<1> DEFINE Removing == {"curmem", "curlost", "curswap", "rmswap"}
<1> USE Constants DEF TypeOK, Goto
<1>1. ASSUME NEW t \in Threads, NEW label, Goto(t, label), label \notin Removing,
             UNCHANGED <<pv, proc>>, t = Tracer \/ UNCHANGED arg,
             \A u \in Threads : u # t => idx'[u] = idx[u] /\ victim'[u] = victim[u]
      PROVE  Victims'
  <2>1. \A u \in Threads : at'[u] \in Removing => u # t /\ at'[u] = at[u]
    BY <1>1 DEF ControlOK
  <2>2. at'[Tracer] = "rmswap" => UNCHANGED arg
    BY <1>1, <2>1
  <2> QED
    BY <1>1, <2>1, <2>2 DEF Victims
<1>2. ASSUME NEW t \in Threads, CurLock(t) \/ CurMem(t) \/ CurDec(t) \/ CurUnlock(t)
      PROVE  Victims'
  <2>1. \A u \in Threads : u # t => idx'[u] = idx[u] /\ victim'[u] = victim[u]
    BY <1>2 DEF CurLock, CurMem, CurDec, CurUnlock, DropLocals, DataOK
  <2>2. UNCHANGED <<pv, proc, arg>>
    BY <1>2 DEF CurLock, CurMem, CurDec, CurUnlock, list
  <2>3. \E label : Goto(t, label) /\ label \notin Removing
    BY <1>2 DEF CurLock, CurMem, CurDec, CurUnlock, Lock, Unlock, Write, ControlOK
  <2> QED
    BY <1>1, <2>1, <2>2, <2>3
<1>3. ASSUME NEW t \in Threads, CurTest(t) PROVE Victims'
  <2>1. CASE idx[t] < pc
    <3>1. ~MidRemoval
      BY <1>3 DEF CurTest, MidRemoval, Exclusion, Critical
    <3>2. pv[idx[t]][1] \in Pids
      BY <2>1, <3>1, SMT DEF Exact, Size, DataOK
    <3>3. ~HasStat(pv[idx[t]][1]) => proc[pv[idx[t]][1]] = "reaped"
      BY <3>2 DEF HasStat
    <3>4. /\ at'[t] \in {"curmem", "curlost"}
          /\ at'[t] = "curlost" => proc[pv[idx[t]][1]] = "reaped"
          /\ \A u \in Threads : u # t => at'[u] = at[u]
      BY <1>3, <2>1, <3>3 DEF CurTest, ControlOK
    <3>5. /\ victim'[t] = pv[idx[t]]
          /\ \A u \in Threads : u # t => victim'[u] = victim[u]
      BY <1>3, <2>1 DEF CurTest, DataOK
    <3>6. UNCHANGED <<pv, proc, arg, idx>>
      BY <1>3 DEF CurTest, list
    <3>7. ASSUME NEW u \in Threads
          PROVE  /\ at'[u] \in Removing => victim'[u] = pv'[idx'[u]]
                 /\ at'[u] \in {"curlost", "curswap"} => proc'[victim'[u][1]] = "reaped"
      <4>1. CASE u = t
        BY <3>4, <3>5, <3>6, <4>1
      <4>2. CASE u # t
        BY <3>4, <3>5, <3>6, <4>2 DEF Victims
      <4> QED
        BY <4>1, <4>2
    <3>8. at'[Tracer] = "rmswap" => victim'[Tracer][1] = arg'
      BY <3>4, <3>5, <3>6 DEF Victims
    <3> QED
      BY <3>7, <3>8 DEF Victims
  <2>2. CASE ~(idx[t] < pc)
    <3>1. Goto(t, "curunlock") /\ UNCHANGED <<pv, proc, arg, idx, victim>>
      BY <1>3, <2>2 DEF CurTest, list
    <3> QED
      BY <1>1, <3>1
  <2> QED
    BY <2>1, <2>2
<1>4. ASSUME NEW t \in Threads, CurLost(t) PROVE Victims'
  BY <1>4 DEF CurLost, Write, Victims, ControlOK, list
<1>5. ASSUME NEW t \in Threads, CurSwap(t) PROVE Victims'
  <2>1. \A u \in Threads : at'[u] \notin Removing
    BY <1>5 DEF CurSwap, Exclusion, Critical, ControlOK
  <2> QED
    BY <2>1 DEF Victims
<1>6. CASE AddLock \/ AddInc \/ AddUnlock \/ LogRecord
  <2>1. UNCHANGED <<pv, proc, idx, victim>>
    BY <1>6 DEF AddLock, AddInc, AddUnlock, LogRecord, list
  <2>2. \E label : Goto(Tracer, label) /\ label \notin Removing
    BY <1>6 DEF AddLock, AddInc, AddUnlock, LogRecord, Lock, Unlock, Write
  <2> QED
    BY <1>1, <2>1, <2>2
<1>7. CASE AddStore
  <2>1. \A u \in Threads : at'[u] \notin Removing
    BY <1>7 DEF AddStore, Exclusion, Critical, ControlOK
  <2> QED
    BY <2>1 DEF Victims
<1>8. CASE RmCheck \/ RmLock \/ RmDec \/ RmUnlock
  <2>1. UNCHANGED <<pv, proc>> /\ idx'[Monitor] = idx[Monitor]
                              /\ victim'[Monitor] = victim[Monitor]
    BY <1>8 DEF RmCheck, RmLock, RmDec, RmUnlock, DropLocals, list, DataOK
  <2>2. \E label : Goto(Tracer, label) /\ label \notin Removing
    BY <1>8 DEF RmCheck, RmLock, RmDec, RmUnlock, Lock, Unlock
  <2> QED
    BY <1>1, <2>1, <2>2
<1>9. CASE RmFind
  <2>1. CASE at'[Tracer] = "rmswap"
    <3>1. PICK i \in Slots : /\ pv[i][1] = arg
                             /\ idx' = [idx EXCEPT ![Tracer] = i]
                             /\ victim' = [victim EXCEPT ![Tracer] = pv[i]]
      BY <1>9, <2>1 DEF RmFind, ControlOK
    <3>2. UNCHANGED <<pv, proc, arg>> /\ at' = [at EXCEPT ![Tracer] = "rmswap"]
      BY <1>9, <2>1 DEF RmFind, list, ControlOK
    <3> QED
      BY <3>1, <3>2 DEF Victims, ControlOK, DataOK
  <2>2. CASE at'[Tracer] # "rmswap"
    <3>1. Goto(Tracer, "rmunlock") /\ UNCHANGED <<pv, proc, idx, victim>>
      BY <1>9, <2>2 DEF RmFind, list, ControlOK
    <3> QED
      BY <1>1, <3>1
  <2> QED
    BY <2>1, <2>2
<1>10. CASE RmSwap
  BY <1>10 DEF RmSwap, MoveLast, Exclusion, Critical, Victims, ControlOK
<1>11. ASSUME NEW t \in Threads, CrashOnWrite(t) \/ TracerExit PROVE Victims'
  BY <1>11 DEF TracerExit, CrashOnWrite, list, control, Victims
<1>12. CASE CaptureContProv
  <2>1. UNCHANGED <<pv, proc, idx, victim, arg>>
    BY <1>12 DEF CaptureContProv, MonitorFirst, MonitorLoop, MonitorDestroy, MonitorClose, list
  <2>2. \E label : Goto(Monitor, label) /\ label \notin Removing
    BY <1>12 DEF CaptureContProv, MonitorFirst, MonitorLoop, MonitorDestroy, MonitorClose
  <2> QED
    BY <1>1, <2>1, <2>2
<1>13. ASSUME NEW p \in Pids,
              BeginRecord(p) \/ BeginDetach(p) \/ EndExecve(p) \/ InternalExit(p)
       PROVE  Victims'
  <2>1. UNCHANGED <<pv, proc, idx, victim>>
    BY <1>13 DEF BeginRecord, BeginDetach, EndExecve, InternalExit, Begin, list
  <2>2. \E label : Goto(Tracer, label) /\ label \notin Removing
    BY <1>13 DEF BeginRecord, BeginDetach, EndExecve, InternalExit, Begin
  <2> QED
    BY <1>1, <2>1, <2>2
<1>14. ASSUME NEW p \in Pids, proc[p] # "reaped", NEW s, proc' = [proc EXCEPT ![p] = s],
              UNCHANGED <<pv, idx, victim>>,
              \/ UNCHANGED <<at, arg>>
              \/ \E label : Goto(Tracer, label) /\ label \notin Removing
       PROVE  Victims'
  BY <1>14, SMT DEF Victims, ControlOK, DataOK
<1>15. CASE LogAndDetach
  <2>1. arg \in Pids /\ proc[arg] # "reaped"
    BY <1>15 DEF LogAndDetach, Alive, DataOK
  <2> QED
    BY <1>14, <1>15, <2>1 DEF LogAndDetach, Write, list
<1>16. ASSUME NEW p \in Pids, NEW child \in Pids, BeginSpawn(p, child) PROVE Victims'
  <2>1. /\ proc[child] # "reaped" /\ proc' = [proc EXCEPT ![child] = "live"]
        /\ UNCHANGED <<pv, idx, victim>>
    BY <1>16 DEF BeginSpawn, list
  <2>2. Goto(Tracer, "logspawn") /\ "logspawn" \notin Removing
    BY <1>16 DEF BeginSpawn
  <2> QED
    BY <1>14, <2>1, <2>2
<1>17. ASSUME NEW p \in Pids, KilledBySignal(p) \/ Reap(p) PROVE Victims'
  BY <1>14, <1>17 DEF KilledBySignal, Reap, list, control
<1> QED
  BY <1>2, <1>3, <1>4, <1>5, <1>6, <1>7, <1>8, <1>9, <1>10, <1>11, <1>12, <1>13, <1>15, <1>16,
     <1>17
  DEF Running, TracerStep, MonitorStep, PrintCurr, AddPid, RmPid, Event

\* The entry that a thread is about to overwrite is a registration.
LEMMA VictimListed ==
    ASSUME TypeOK, Exclusion, Bounds, Exact, Victims,
           NEW t \in Threads, at[t] \in {"curswap", "rmswap"}
    PROVE  victim[t] \in registered
<1>1. ~MidRemoval
  BY DEF MidRemoval, Exclusion, Critical, Threads
<1>2. victim[t] = pv[idx[t]] /\ idx[t] < pc
  BY DEF Victims, Bounds
<1>3. idx[t] \in 0 .. (Size - 1)
  BY <1>1, <1>2, Constants, SMT DEF Size, TypeOK, DataOK
<1> QED
  BY <1>2, <1>3 DEF Exact

\* The current process is alive, and removed ones are exiting or gone.
LEMMA AliveStep ==
    ASSUME TypeOK, Exclusion, Bounds, Exact, Victims, Alive, Running
    PROVE  Alive'
<1> USE Constants DEF TypeOK, Goto
<1>1. /\ arg \in Pids /\ \A e \in registered : e[1] \in Pids /\ e \in Entry
      /\ retired \subseteq registered
  BY DEF DataOK, Exact
<1>2. ASSUME UNCHANGED <<proc, registered, retired, arg>>,
             at'[Tracer] # "idle" => at[Tracer] # "idle", at'[Tracer] # "logspawn",
             Exiting(arg) => Exiting(arg)' \/ at[Tracer] = "logspawn"
      PROVE  Alive'
  BY <1>1, <1>2 DEF Alive, Exiting
<1>3. ASSUME UNCHANGED <<proc, registered, retired, arg>>, at'[Tracer] = at[Tracer],
             ret'[Tracer] = ret[Tracer]
      PROVE  Alive'
  BY <1>3 DEF Alive, Exiting
<1>4. ASSUME PrintCurr(Monitor), ~CurSwap(Monitor) PROVE Alive'
  BY <1>3, <1>4 DEF PrintCurr, CurLock, CurTest, CurMem, CurLost, CurDec, CurUnlock, Lock,
                    Unlock, Write, list, ControlOK
<1>5. ASSUME PrintCurr(Tracer), ~CurSwap(Tracer) PROVE Alive'
  <2>1. UNCHANGED <<proc, registered, retired, arg, ret>>
    BY <1>5 DEF PrintCurr, CurLock, CurTest, CurMem, CurLost, CurDec, CurUnlock, list
  <2>2. at[Tracer] \in CurLabels /\ (at'[Tracer] \in CurLabels \/ at'[Tracer] = ret[Tracer])
    BY <1>5 DEF PrintCurr, CurLock, CurTest, CurMem, CurLost, CurDec, CurUnlock, Lock,
                Unlock, Write, CurLabels, ControlOK
  <2>3. at'[Tracer] # "logspawn" /\ at[Tracer] # "idle"
    BY <2>2 DEF CurLabels, ControlOK
  <2>4. Exiting(arg) => Exiting(arg)'
    BY <2>1, <2>2 DEF Exiting, CurLabels, RmLabels, ControlOK
  <2> QED
    BY <1>2, <2>1, <2>3, <2>4
<1>6. ASSUME NEW t \in Threads, MoveLast(t), UNCHANGED <<proc, arg, ret>>,
             victim[t] \in registered,
             \A p \in Pids : p = victim[t][1] /\ proc[p] = "live" => Exiting(p)',
             \A p \in Pids : Exiting(p) => Exiting(p)',
             at'[Tracer] # "idle" => at[Tracer] # "idle",
             at'[Tracer] = "logspawn" => at[Tracer] = "logspawn"
      PROVE  Alive'
  <2>1. registered' = registered /\ retired' = retired \cup {victim[t]}
    BY <1>6 DEF MoveLast
  <2>2. \A e \in retired' : proc'[e[1]] = "live" => Exiting(e[1])'
    <3> SUFFICES ASSUME NEW e \in retired', NEW p \in Pids, p = e[1], proc[p] = "live"
                 PROVE  Exiting(p)'
      BY <1>1, <1>6, <2>1
    <3> QED
      BY <1>6, <2>1 DEF Alive
  <2> QED
    BY <1>1, <1>6, <2>1, <2>2 DEF Alive
<1>7. ASSUME NEW t \in Threads, at[t] \in {"curswap", "rmswap"} PROVE victim[t] \in registered
  BY <1>7, VictimListed
<1>8. ASSUME NEW t \in Threads, CurSwap(t) PROVE Alive'
  <2>1. proc[victim[t][1]] = "reaped"
    BY <1>8 DEF CurSwap, Victims
  <2>2. \/ at'[Tracer] = at[Tracer]
        \/ at[Tracer] = "curswap" /\ at'[Tracer] = "curdec"
    BY <1>8 DEF CurSwap, ControlOK
  <2>3. UNCHANGED <<proc, arg, ret>>
    BY <1>8 DEF CurSwap
  <2>4. \A p \in Pids : Exiting(p) => Exiting(p)'
    BY <2>2, <2>3 DEF Exiting, CurLabels, RmLabels
  <2> QED
    BY <1>6, <1>7, <1>8, <2>1, <2>2, <2>3, <2>4 DEF CurSwap
<1>9. CASE RmSwap
  <2>1. victim[Tracer][1] = arg
    BY <1>9 DEF RmSwap, Victims
  <2>2. at[Tracer] = "rmswap" /\ at'[Tracer] = "rmdec"
    BY <1>9 DEF RmSwap, ControlOK
  <2>3. UNCHANGED <<proc, arg, ret>>
    BY <1>9 DEF RmSwap
  <2>4. \A p \in Pids : (p = arg => Exiting(p)') /\ (Exiting(p) => Exiting(p)')
    BY <2>2, <2>3 DEF Exiting, RmLabels
  <2> QED
    BY <1>6, <1>7, <1>9, <2>1, <2>2, <2>3, <2>4 DEF RmSwap
<1>10. CASE AddLock \/ AddStore \/ AddUnlock
  BY <1>2, <1>10 DEF AddLock, AddStore, AddUnlock, Lock, Unlock, list, ControlOK, Exiting,
                     RmLabels, CurLabels
<1>11. CASE AddInc
  <2>1. at[Tracer] = "addinc" /\ at'[Tracer] = "addunlock" /\ UNCHANGED <<proc, arg, ret, retired>>
    BY <1>11 DEF AddInc, ControlOK
  <2>2. registered' = registered \cup {<<arg, nexec>>} /\ proc[arg] = "live"
    BY <1>11, <2>1 DEF AddInc, Alive
  <2>3. \A p : ~Exiting(p)
    BY <2>1 DEF Exiting, RmLabels, CurLabels
  <2>4. \A e \in registered' : proc'[e[1]] # "absent"
    BY <2>1, <2>2, SMT DEF Alive
  <2>5. \A e \in retired' : proc'[e[1]] # "live"
    BY <2>1, <2>3 DEF Alive
  <2> QED
    BY <2>1, <2>2, <2>4, <2>5 DEF Alive
<1>12. CASE RmCheck \/ RmLock \/ RmFind \/ RmDec \/ RmUnlock
  <2>1. UNCHANGED <<proc, registered, retired, arg>>
    BY <1>12 DEF RmCheck, RmLock, RmFind, RmDec, RmUnlock, list
  <2>2. at[Tracer] \in RmLabels
    BY <1>12 DEF RmCheck, RmLock, RmFind, RmDec, RmUnlock, Lock, Unlock, RmLabels
  <2>3. \/ at'[Tracer] \in RmLabels \cup {"logexit"}
        \/ at'[Tracer] \in CurLabels /\ ret'[Tracer] = "rmlock"
    BY <1>12 DEF RmCheck, RmLock, RmFind, RmDec, RmUnlock, Lock, Unlock, RmLabels, CurLabels,
                 ControlOK
  <2>4. Exiting(arg)' /\ at'[Tracer] # "logspawn" /\ at[Tracer] # "idle"
    BY <2>1, <2>2, <2>3 DEF Exiting, RmLabels, CurLabels
  <2> QED
    BY <1>2, <2>1, <2>4
<1>13. CASE LogRecord
  BY <1>2, <1>13 DEF LogRecord, Write, list, ControlOK, Exiting, RmLabels, CurLabels
<1>14. CASE LogAndDetach
  <2>1. proc' = [proc EXCEPT ![arg] = "gone"] /\ UNCHANGED <<registered, retired>>
    BY <1>14 DEF LogAndDetach, list
  <2>2. at'[Tracer] = "idle"
    BY <1>14 DEF LogAndDetach, Write, ControlOK
  <2>3. \A p : Exiting(p) => p = arg
    BY DEF Exiting
  <2> QED
    BY <1>1, <2>1, <2>2, <2>3 DEF Alive, DataOK
<1>15. CASE CaptureContProv
  BY <1>3, <1>15 DEF CaptureContProv, MonitorFirst, MonitorLoop, MonitorDestroy, MonitorClose,
                     list, ControlOK
<1>16. at[Tracer] = "idle" => \A p : ~Exiting(p)
  BY DEF Exiting, RmLabels, CurLabels
<1>17. ASSUME NEW p \in Pids,
              BeginRecord(p) \/ BeginDetach(p) \/ EndExecve(p) \/ InternalExit(p)
       PROVE  Alive'
  <2>1. at[Tracer] = "idle" /\ proc[p] = "live" /\ arg' = p /\ at'[Tracer] # "logspawn"
        /\ UNCHANGED <<proc, registered, retired>>
    BY <1>17 DEF BeginRecord, BeginDetach, EndExecve, InternalExit, Begin, list, ControlOK
  <2> QED
    BY <1>16, <2>1 DEF Alive
<1>18. ASSUME NEW p \in Pids, NEW child \in Pids, BeginSpawn(p, child) PROVE Alive'
  <2>1. at[Tracer] = "idle" /\ proc[child] = "absent" /\ arg' = child
        /\ proc' = [proc EXCEPT ![child] = "live"] /\ UNCHANGED <<registered, retired>>
    BY <1>18 DEF BeginSpawn, list
  <2> QED
    BY <1>1, <1>16, <2>1 DEF Alive, DataOK
<1>19. ASSUME NEW p \in Pids, KilledBySignal(p) \/ Reap(p) PROVE Alive'
  <2>1. UNCHANGED <<registered, retired, at, arg, ret>>
    BY <1>19 DEF KilledBySignal, Reap, list, control
  <2>2. \/ at[Tracer] = "idle" /\ proc' = [proc EXCEPT ![p] = "gone"]
        \/ proc[p] = "gone" /\ proc' = [proc EXCEPT ![p] = "reaped"]
    BY <1>19 DEF KilledBySignal, Reap
  <2>3. \A q \in Pids : Exiting(q)' <=> Exiting(q)
    BY <2>1 DEF Exiting
  <2> QED
    BY <1>1, <2>1, <2>2, <2>3 DEF Alive, DataOK
<1>20. CASE TracerExit \/ \E t \in Threads : CrashOnWrite(t)
  BY <1>3, <1>20 DEF TracerExit, CrashOnWrite, list, control
<1> QED
  BY <1>4, <1>5, <1>8, <1>9, <1>10, <1>11, <1>12, <1>13, <1>14, <1>15, <1>17, <1>18, <1>19, <1>20
  DEF Running, TracerStep, MonitorStep, AddPid, RmPid, Event

\* print_exit_prov has removed the entry before it logs EXIT.
LEMMA ExitedStep ==
    ASSUME TypeOK, Exclusion, Bounds, Exact, Victims, Alive, Exited, Running
    PROVE  Exited'
<1> DEFINE Removed == {"rmdec", "rmunlock", "logexit"}
<1> USE Constants DEF TypeOK
<1>1. /\ arg \in Pids /\ \A e \in registered : e[1] \in Pids
      /\ pc \in Nat /\ last \in [Pids -> Kinds] /\ proc \in [Pids -> ProcStates]
  <2>1. \A e \in registered : e[1] \in Pids
    BY DEF Exact
  <2> QED
    BY <2>1, SMT DEF DataOK
<1>2. ASSUME UNCHANGED <<proc, registered>>, retired \subseteq retired',
             \A p \in Pids : last'[p] = "EXIT" => last[p] = "EXIT",
             at'[Tracer] \in Removed => at[Tracer] \in Removed /\ UNCHANGED arg
      PROVE  Exited'
  <2>1. \A p \in Pids : RegisteredOnce(p)' <=> RegisteredOnce(p)
    BY <1>2 DEF RegisteredOnce
  <2>2. \A p \in Pids : last'[p] = "EXIT" => proc'[p] \in {"gone", "reaped"}
    BY <1>2 DEF Exited
  <2>3. \A p \in Pids : last'[p] = "EXIT" /\ RegisteredOnce(p)'
          => \A e \in registered' : e[1] = p => e \in retired'
    BY <1>2, <2>1 DEF Exited
  <2>4. at'[Tracer] \in Removed /\ RegisteredOnce(arg)'
          => \A e \in registered' : e[1] = arg' => e \in retired'
    BY <1>2 DEF Exited, RegisteredOnce
  <2> QED
    BY <2>2, <2>3, <2>4 DEF Exited
<1>3. ASSUME NEW t \in Threads, PrintCurr(t) PROVE Exited'
  <2>1. UNCHANGED <<proc, registered, arg>> /\ retired \subseteq retired'
    BY <1>3 DEF PrintCurr, CurLock, CurTest, CurMem, CurLost, CurSwap, CurDec, CurUnlock,
                MoveLast, list
  <2>2. \A p \in Pids : last'[p] = "EXIT" => last[p] = "EXIT"
    BY <1>1, <1>3 DEF PrintCurr, CurLock, CurTest, CurMem, CurLost, CurSwap, CurDec, CurUnlock,
                      Write
  <2>3. at'[Tracer] \in Removed => at[Tracer] \in Removed
    BY <1>3 DEF PrintCurr, CurLock, CurTest, CurMem, CurLost, CurSwap, CurDec, CurUnlock,
                Write, Lock, Unlock, Goto, ControlOK
  <2> QED
    BY <1>2, <2>1, <2>2, <2>3
<1>4. CASE AddLock \/ AddStore \/ AddUnlock \/ RmLock \/ RmDec \/ RmUnlock
  <2>1. UNCHANGED <<proc, registered, retired, arg, last>>
    BY <1>4 DEF AddLock, AddStore, AddUnlock, RmLock, RmDec, RmUnlock, list
  <2>2. at'[Tracer] \in Removed => at[Tracer] \in Removed
    BY <1>4 DEF AddLock, AddStore, AddUnlock, RmLock, RmDec, RmUnlock, Lock, Unlock, Goto,
                ControlOK
  <2> QED
    BY <1>2, <2>1, <2>2
<1>5. CASE AddInc
  <2>1. at[Tracer] = "addinc" /\ at'[Tracer] = "addunlock" /\ UNCHANGED <<proc, retired, last>>
        /\ registered' = registered \cup {<<arg, nexec>>}
    BY <1>5 DEF AddInc, Goto, ControlOK
  <2>2. last[arg] # "EXIT"
    BY <1>1, <2>1 DEF Alive, Exited
  <2>3. \A p \in Pids : RegisteredOnce(p)' => RegisteredOnce(p)
    BY <2>1 DEF RegisteredOnce
  <2>4. \A p \in Pids : last'[p] = "EXIT" => proc'[p] \in {"gone", "reaped"}
    BY <2>1 DEF Exited
  <2>5. ASSUME NEW p \in Pids, last'[p] = "EXIT", RegisteredOnce(p)',
               NEW e \in registered', e[1] = p
        PROVE  e \in retired'
    <3>1. e \in registered
      BY <2>1, <2>2, <2>5, SMT
    <3>2. last[p] = "EXIT" /\ RegisteredOnce(p)
      BY <2>1, <2>3, <2>5
    <3> QED
      BY <2>1, <2>5, <3>1, <3>2 DEF Exited
  <2> QED
    BY <2>1, <2>4, <2>5 DEF Exited
<1>6. ASSUME NEW label, at'[Tracer] = label,
             UNCHANGED <<proc, registered, arg, last>>, retired \subseteq retired',
             RegisteredOnce(arg) => \A e \in registered : e[1] = arg => e \in retired'
      PROVE  Exited'
  BY <1>6 DEF Exited, RegisteredOnce
<1>7. CASE RmCheck
  <2>1. CASE pc <= 0
    <3>1. Size = 0
      BY <1>1, <2>1, SMT DEF Size, MidRemoval, Bounds, DataOK
    <3>2. 0 .. (Size - 1) = {}
      BY <3>1, SMT
    <3>3. \A e \in registered : e \in retired
      BY <3>2 DEF Exact
    <3> QED
      BY <1>6, <1>7, <3>3 DEF RmCheck, list
  <2>2. CASE ~(pc <= 0)
    BY <1>2, <1>7, <2>2 DEF RmCheck, list, Goto, ControlOK
  <2> QED
    BY <2>1, <2>2
<1>8. CASE RmFind
  <2>1. UNCHANGED <<proc, registered, retired, arg, last>>
    BY <1>8 DEF RmFind, list
  <2>2. CASE \A i \in Slots : pv[i][1] # arg
    <3>1. Size = pc
      BY <1>8 DEF Size, MidRemoval, RmFind, Exclusion, Critical
    <3>2. \A e \in registered : e[1] = arg => e \in retired
      BY <2>2, <3>1 DEF Exact, Slots
    <3> QED
      BY <1>6, <2>1, <3>2
  <2>3. CASE ~\A i \in Slots : pv[i][1] # arg
    <3>1. at'[Tracer] = "rmswap"
      BY <1>8, <2>3 DEF RmFind, Goto, ControlOK
    <3> QED
      BY <1>2, <2>1, <3>1
  <2> QED
    BY <2>2, <2>3
<1>9. CASE RmSwap
  <2>1. at[Tracer] = "rmswap"
    BY <1>9 DEF RmSwap
  <2>2. victim[Tracer] \in registered /\ victim[Tracer][1] = arg
    BY <2>1, VictimListed DEF Victims
  <2>3. UNCHANGED <<proc, registered, arg, last>> /\ retired' = retired \cup {victim[Tracer]}
    BY <1>9 DEF RmSwap, MoveLast
  <2>4. RegisteredOnce(arg) => \A e \in registered : e[1] = arg => e \in retired'
    BY <2>2, <2>3 DEF RegisteredOnce
  <2> QED
    BY <1>6, <2>3, <2>4
<1>10. CASE LogRecord
  <2>1. UNCHANGED <<proc, registered, retired, arg>> /\ at'[Tracer] \notin Removed
    BY <1>10 DEF LogRecord, Write, list, Goto, ControlOK
  <2>2. \A p \in Pids : last'[p] = "EXIT" => last[p] = "EXIT"
    BY <1>1, <1>10 DEF LogRecord, Write
  <2> QED
    BY <1>2, <2>1, <2>2
<1>11. CASE LogAndDetach
  <2>1. /\ proc' = [proc EXCEPT ![arg] = "gone"] /\ UNCHANGED <<registered, retired>>
        /\ at'[Tracer] = "idle"
    BY <1>11 DEF LogAndDetach, Write, list, Goto, ControlOK
  <2>2. \A p \in Pids : last'[p] = "EXIT" => last[p] = "EXIT" \/ (p = arg /\ at[Tracer] = "logexit")
    <3>1. CASE at[Tracer] = "logexit"
      <4>1. last' = last \/ last' = [last EXCEPT ![arg] = "EXIT"]
        BY <1>11, <3>1 DEF LogAndDetach, Write
      <4> QED
        BY <1>1, <3>1, <4>1
    <3>2. CASE at[Tracer] = "logdetach"
      <4>1. last' = last \/ last' = [last EXCEPT ![arg] = "IO"]
        BY <1>11, <3>2 DEF LogAndDetach, Write
      <4> QED
        BY <1>1, <4>1
    <3> QED
      BY <1>11, <3>1, <3>2 DEF LogAndDetach
  <2>3. \A p \in Pids : RegisteredOnce(p)' <=> RegisteredOnce(p)
    BY <2>1 DEF RegisteredOnce
  <2> QED
    BY <1>1, <2>1, <2>2, <2>3 DEF Exited
<1>12. CASE CaptureContProv
  BY <1>2, <1>12 DEF CaptureContProv, MonitorFirst, MonitorLoop, MonitorDestroy, MonitorClose,
                     list, Goto, ControlOK
<1>13. ASSUME NEW p \in Pids,
              BeginRecord(p) \/ BeginDetach(p) \/ EndExecve(p) \/ InternalExit(p)
       PROVE  Exited'
  BY <1>2, <1>13 DEF BeginRecord, BeginDetach, EndExecve, InternalExit, Begin, list, Goto,
                     ControlOK
<1>14. ASSUME NEW p \in Pids, NEW s, proc' = [proc EXCEPT ![p] = s],
              proc[p] = "absent" \/ s \in {"gone", "reaped"},
              UNCHANGED <<registered, retired, last>>,
              at'[Tracer] \in Removed => at[Tracer] \in Removed /\ UNCHANGED arg
       PROVE  Exited'
  <2>1. \A q \in Pids : RegisteredOnce(q)' <=> RegisteredOnce(q)
    BY <1>14 DEF RegisteredOnce
  <2>2. \A q \in Pids : last'[q] = "EXIT" => proc'[q] \in {"gone", "reaped"}
    BY <1>1, <1>14 DEF Exited
  <2>3. \A q \in Pids : last'[q] = "EXIT" /\ RegisteredOnce(q)'
          => \A e \in registered' : e[1] = q => e \in retired'
    BY <1>14, <2>1 DEF Exited
  <2>4. at'[Tracer] \in Removed /\ RegisteredOnce(arg)'
          => \A e \in registered' : e[1] = arg' => e \in retired'
    BY <1>1, <1>14, <2>1 DEF Exited, RegisteredOnce
  <2> QED
    BY <2>2, <2>3, <2>4 DEF Exited
<1>15. ASSUME NEW p \in Pids, NEW child \in Pids, BeginSpawn(p, child) PROVE Exited'
  BY <1>14, <1>15 DEF BeginSpawn, list, Goto, ControlOK
<1>16. ASSUME NEW p \in Pids, KilledBySignal(p) \/ Reap(p) PROVE Exited'
  BY <1>14, <1>16 DEF KilledBySignal, Reap, list, control
<1>17. CASE TracerExit \/ \E t \in Threads : CrashOnWrite(t)
  BY <1>2, <1>17 DEF TracerExit, CrashOnWrite, list, control
<1> QED
  BY <1>3, <1>4, <1>5, <1>7, <1>8, <1>9, <1>10, <1>11, <1>12, <1>13, <1>15, <1>16, <1>17
  DEF Running, TracerStep, MonitorStep, AddPid, RmPid, Event

\* The EXECVE2 record of a process is in the log before the process is listed.
LEMMA LoggedStep ==
    ASSUME TypeOK, Alive, Exact, Logged, Running
    PROVE  Logged'
<1> DEFINE Early  == {"none", "SPAWN"}
           Adding == {"addlock", "addstore", "addinc"}
<1> USE Constants DEF TypeOK
<1>1. arg \in Pids /\ last \in [Pids -> Kinds] /\ \A e \in registered : e[1] \in Pids
  BY DEF DataOK, Exact
<1>2. ASSUME UNCHANGED registered, logfile' = "open" => logfile = "open",
             \A p \in Pids : last'[p] \in Early => last[p] \in Early,
             at'[Tracer] \in Adding => at[Tracer] \in Adding /\ UNCHANGED arg
      PROVE  Logged'
  BY <1>1, <1>2 DEF Logged
<1>3. ASSUME NEW t \in Threads, PrintCurr(t) PROVE Logged'
  <2>1. UNCHANGED <<registered, logfile, arg>>
    BY <1>3 DEF PrintCurr, CurLock, CurTest, CurMem, CurLost, CurSwap, CurDec, CurUnlock,
                MoveLast, list
  <2>2. \A p \in Pids : last'[p] \in Early => last[p] \in Early
    BY <1>1, <1>3 DEF PrintCurr, CurLock, CurTest, CurMem, CurLost, CurSwap, CurDec, CurUnlock,
                      Write
  <2>3. at'[Tracer] \in Adding => at[Tracer] \in Adding
    BY <1>3 DEF PrintCurr, CurLock, CurTest, CurMem, CurLost, CurSwap, CurDec, CurUnlock,
                Write, Lock, Unlock, Goto, ControlOK
  <2> QED
    BY <1>2, <2>1, <2>2, <2>3
<1>4. CASE AddLock \/ AddStore \/ AddUnlock \/ RmPid
  <2>1. UNCHANGED <<registered, logfile, arg, last>>
    BY <1>4 DEF AddLock, AddStore, AddUnlock, RmPid, RmCheck, RmLock, RmFind, RmSwap, RmDec,
                RmUnlock, MoveLast, list
  <2>2. at'[Tracer] \in Adding => at[Tracer] \in Adding
    BY <1>4 DEF AddLock, AddStore, AddUnlock, RmPid, RmCheck, RmLock, RmFind, RmSwap, RmDec,
                RmUnlock, Lock, Unlock, Goto, ControlOK
  <2> QED
    BY <1>2, <2>1, <2>2
<1>5. CASE AddInc
  <2>1. /\ at[Tracer] = "addinc" /\ at'[Tracer] = "addunlock"
        /\ UNCHANGED <<logfile, last>> /\ registered' = registered \cup {<<arg, nexec>>}
    BY <1>5 DEF AddInc, Goto, ControlOK
  <2> QED
    BY <2>1, SMT DEF Logged
<1>6. CASE LogRecord
  <2>1. UNCHANGED <<registered, logfile, arg>>
    BY <1>6 DEF LogRecord, list
  <2>2. CASE at[Tracer] = "logio"
    <3>1. (last' = last \/ last' = [last EXCEPT ![arg] = "IO"]) /\ at'[Tracer] = "idle"
      BY <1>6, <2>2 DEF LogRecord, Write, Goto, ControlOK
    <3> QED
      BY <1>1, <1>2, <2>1, <3>1
  <2>3. CASE at[Tracer] = "logspawn"
    <3>1. (last' = last \/ last' = [last EXCEPT ![arg] = "SPAWN"]) /\ at'[Tracer] = "idle"
      BY <1>6, <2>3 DEF LogRecord, Write, Goto, ControlOK
    <3>2. \A e \in registered : e[1] # arg
      BY <2>3 DEF Alive
    <3> QED
      BY <1>1, <2>1, <3>1, <3>2 DEF Logged
  <2>4. CASE at[Tracer] = "logexecve2"
    <3>1. logfile = "open" => last' = [last EXCEPT ![arg] = "EXECVE2"]
      BY <1>6, <2>4 DEF LogRecord, Write
    <3> QED
      BY <1>1, <2>1, <3>1 DEF Logged
  <2> QED
    BY <1>6, <2>2, <2>3, <2>4 DEF LogRecord
<1>7. CASE LogAndDetach
  <2>1. UNCHANGED <<registered, logfile, arg>> /\ at'[Tracer] = "idle"
    BY <1>7 DEF LogAndDetach, Write, list, Goto, ControlOK
  <2>2. last' = last \/ last' = [last EXCEPT ![arg] = "EXIT"]
                     \/ last' = [last EXCEPT ![arg] = "IO"]
    BY <1>7 DEF LogAndDetach, Write
  <2> QED
    BY <1>1, <1>2, <2>1, <2>2
<1>8. CASE CaptureContProv
  BY <1>2, <1>8 DEF CaptureContProv, MonitorFirst, MonitorLoop, MonitorDestroy, MonitorClose,
                    list, Goto, ControlOK
<1>9. ASSUME NEW p \in Pids, NEW child \in Pids,
             \/ BeginRecord(p) \/ BeginDetach(p) \/ EndExecve(p) \/ InternalExit(p)
             \/ BeginSpawn(p, child)
      PROVE  Logged'
  BY <1>2, <1>9 DEF BeginRecord, BeginDetach, EndExecve, InternalExit, Begin, BeginSpawn, list,
                    Goto, ControlOK
<1>10. ASSUME NEW p \in Pids, NEW t \in Threads,
              KilledBySignal(p) \/ Reap(p) \/ TracerExit \/ CrashOnWrite(t)
       PROVE  Logged'
  BY <1>2, <1>10 DEF KilledBySignal, Reap, TracerExit, CrashOnWrite, list, control
<1> QED
  BY <1>3, <1>4, <1>5, <1>6, <1>7, <1>8, <1>9, <1>10
  DEF Running, TracerStep, MonitorStep, AddPid, Event
-----------------------------------------------------------------------------
\* The inductive invariant holds in the state init_prov and startup_child leave.
LEMMA InitInv == Init => IInv
<1> SUFFICES ASSUME Init PROVE IInv
  OBVIOUS
<1> USE Constants DEF Init
<1>1. TypeOK
  <2>1. DataOK
    <3>1. <<NoPid, 0>> \in Entry
      BY DEF Entry
    <3>2. pv \in [0 .. (PVLen - 1) -> Entry] /\ victim \in [Threads -> Entry]
      BY <3>1
    <3>3. proc \in [Pids -> ProcStates] /\ last \in [Pids -> Kinds]
      BY DEF ProcStates, Kinds
    <3>4. idx \in [Threads -> 0 .. PVLen] /\ pc \in 0 .. MaxExecs /\ nexec \in 0 .. MaxExecs
      BY SMT
    <3>5. destroyed \in BOOLEAN /\ registered \subseteq Entry /\ retired \subseteq Entry
      OBVIOUS
    <3>6. /\ mutex \in Threads \cup {"free"} /\ logfile \in {"open", "closed"} /\ arg \in Pids
          /\ status \in {"running", "exited", "crashed"}
      OBVIOUS
    <3> QED
      BY <3>2, <3>3, <3>4, <3>5, <3>6 DEF DataOK
  <2>2. ControlOK
    BY DEF ControlOK, TracerLabels, MonitorLabels, Threads, Tracer, Monitor
  <2> QED
    BY <2>1, <2>2 DEF TypeOK
<1>2. at[Tracer] = "idle" /\ at[Monitor] = "first" /\ ~MidRemoval
  BY DEF MidRemoval
<1>3. Exclusion
  BY <1>2 DEF Exclusion, Critical, Threads, Tracer, Monitor
<1>4. Bounds /\ Victims
  BY <1>2, SMT DEF Bounds, Victims
<1>5. Exact
  <2>1. 0 .. (Size - 1) = {} /\ registered = {} /\ retired = {}
    BY <1>2, SMT DEF Size
  <2> QED
    BY <2>1 DEF Exact
<1>6. Alive /\ Exited /\ Logged
  BY <1>2 DEF Alive, Exited, Logged
<1> QED
  BY <1>1, <1>3, <1>4, <1>5, <1>6 DEF IInv

\* Every step preserves it.
LEMMA NextInv == IInv /\ [Next]_vars => IInv'
<1> SUFFICES ASSUME IInv, [Next]_vars PROVE IInv'
  OBVIOUS
<1>1. CASE Running
  BY <1>1, DataStep, ControlStep, ExclusionStep, BoundsStep, ExactStep, VictimsStep, AliveStep,
     ExitedStep, LoggedStep
  DEF IInv, TypeOK
<1>2. CASE UNCHANGED vars
  <2> USE <1>2 DEF vars
  <2>1. TypeOK'
    BY DEF IInv, TypeOK, DataOK, ControlOK
  <2>2. Exclusion' /\ Bounds'
    BY DEF IInv, Exclusion, Bounds
  <2>3. Exact'
    BY DEF IInv, Exact, Size, MidRemoval
  <2>4. Victims' /\ Alive'
    BY DEF IInv, Victims, Alive, Exiting
  <2>5. Exited' /\ Logged'
    BY DEF IInv, Exited, RegisteredOnce, Logged
  <2> QED
    BY <2>1, <2>2, <2>3, <2>4, <2>5 DEF IInv
<1> QED
  BY <1>1, <1>2 DEF Next, Ended

\* It is therefore an invariant of the audit.
THEOREM Invariance == Spec => []IInv
  BY InitInv, NextInv, PTL DEF Spec

\* Type correctness: pidlist.pc stays between zero and the number of
\* registrations whatever the two threads remove, and no index leaves the array.
THEOREM TypeCorrect == Spec => []TypeOK
<1>1. IInv => TypeOK
  BY DEF IInv
<1> QED
  BY <1>1, Invariance, PTL

\* add_pid_prov, rm_pid_prov and print_curr_prov never lose or duplicate an
\* entry, for any number of processes and any interleaving of the two threads.
THEOREM PidlistIsExact == Spec => []PidlistExact
<1>1. IInv => PidlistExact
  <2> SUFFICES ASSUME IInv, ~MidRemoval
               PROVE  /\ Listed = registered \ retired
                      /\ \A i, j \in Slots : pv[i] = pv[j] => i = j
    BY DEF PidlistExact
  <2>1. Slots = 0 .. (Size - 1)
    BY DEF Slots, Size
  <2>2. \A e : e \in Listed <=> e \in registered /\ e \notin retired
    BY <2>1, SMT DEF Listed, IInv, Exact
  <2> QED
    BY <2>1, <2>2 DEF IInv, Exact
<1> QED
  BY <1>1, Invariance, PTL

\* A traced process that has not called exit stays listed.
THEOREM LiveStaysListed == Spec => []LiveProcessesListed
<1>1. IInv => LiveProcessesListed
  <2> SUFFICES ASSUME IInv, NEW e \in registered, proc[e[1]] = "live", ~Exiting(e[1])
               PROVE  e \in Listed
    BY DEF LiveProcessesListed
  <2>1. e \notin retired
    BY DEF IInv, Alive
  <2>2. PICK i \in 0 .. (Size - 1) : pv[i] = e
    BY <2>1 DEF IInv, Exact
  <2>3. i \in Slots
    BY <2>2, SMT DEF Slots, Size, IInv, TypeOK, DataOK
  <2> QED
    BY <2>2, <2>3 DEF Listed
<1> QED
  BY <1>1, Invariance, PTL
-----------------------------------------------------------------------------
\* Who can write which record about p: a sweep that has p at its index, or the
\* handler of p.
LEMMA Writers ==
    ASSUME IInv, Running, NEW p \in Pids, last'[p] # last[p]
    PROVE  /\ logfile = "open"
           /\ \/ \E t \in Threads : /\ at[t] \in {"curmem", "curlost"}
                                    /\ p = pv[idx[t]][1]
              \/ /\ at[Tracer] # "idle" /\ p = arg
                 /\ last'[p] \notin {"MEM", "LEXIT"}
<1> USE Constants
<1>1. last \in [Pids -> Kinds] /\ arg \in Pids
  BY DEF IInv, TypeOK, DataOK
<1>2. CASE \E t \in Threads : CurMem(t) \/ CurLost(t)
  BY <1>1, <1>2 DEF CurMem, CurLost, Write
<1>3. CASE LogRecord \/ LogAndDetach
  <2>1. /\ at[Tracer] # "idle" /\ last' # last
        /\ \E kind \in {"IO", "SPAWN", "EXECVE2", "EXIT"} :
             last' = IF logfile = "open" THEN [last EXCEPT ![arg] = kind] ELSE last
    BY <1>3 DEF LogRecord, LogAndDetach, Write
  <2> QED
    BY <1>1, <2>1
<1>4. CASE UNCHANGED last
  BY <1>4
<1>5. \/ UNCHANGED last \/ LogRecord \/ LogAndDetach
      \/ \E t \in Threads : CurMem(t) \/ CurLost(t)
  BY DEF Running, TracerStep, MonitorStep, PrintCurr, AddPid, RmPid, CaptureContProv, Event,
         CurLock, CurTest, CurSwap, CurDec, CurUnlock, AddLock, AddStore, AddInc, AddUnlock,
         RmCheck, RmLock, RmFind, RmSwap, RmDec, RmUnlock, MonitorFirst, MonitorLoop,
         MonitorDestroy, MonitorClose, BeginRecord, BeginDetach, EndExecve, InternalExit,
         BeginSpawn, Begin, KilledBySignal, Reap, TracerExit, CrashOnWrite
<1> QED
  BY <1>2, <1>3, <1>4, <1>5

\* An entry under a sweep's index is registered and not removed.
LEMMA SweptEntry ==
    ASSUME IInv, NEW t \in Threads, at[t] \in {"curmem", "curlost"}
    PROVE  pv[idx[t]] \in registered /\ pv[idx[t]] \notin retired
<1>1. ~MidRemoval
  BY Constants DEF MidRemoval, IInv, Exclusion, Critical
<1>2. idx[t] \in 0 .. (Size - 1)
  BY <1>1, SMT DEF Size, IInv, Bounds, TypeOK, DataOK
<1> QED
  BY <1>2 DEF IInv, Exact

\* No sample or LEXIT follows the EXIT record of a process registered once.
THEOREM ExitRecordIsLast == Spec => ExitIsLast
<1>1. IInv /\ [Next]_vars
      => [\A p \in Pids : last[p] = "EXIT" /\ RegisteredOnce(p) => last'[p] = "EXIT"]_vars
  <2> SUFFICES ASSUME IInv, Running, NEW p \in Pids, last[p] = "EXIT", RegisteredOnce(p),
                      last'[p] # last[p]
               PROVE  FALSE
    BY DEF Next, Ended
  <2>1. ~\E t \in Threads : at[t] \in {"curmem", "curlost"} /\ p = pv[idx[t]][1]
    BY SweptEntry DEF IInv, Exited
  <2>2. ~(at[Tracer] # "idle" /\ p = arg)
    BY DEF IInv, Exited, Alive
  <2> QED
    BY <2>1, <2>2, Writers
<1> QED
  BY <1>1, Invariance, PTL DEF Spec, ExitIsLast

\* No sample of a process precedes its EXECVE2 record.
THEOREM SamplesFollowExecve == Spec => SampleAfterExecve
<1>1. IInv /\ [Next]_vars
      => [\A p \in Pids :
            last'[p] \in {"MEM", "LEXIT"} => last[p] \notin {"none", "SPAWN"}]_vars
  <2> SUFFICES ASSUME IInv, Running, NEW p \in Pids, last'[p] \in {"MEM", "LEXIT"},
                      last[p] \in {"none", "SPAWN"}
               PROVE  FALSE
    BY DEF Next, Ended
  <2>1. last'[p] # last[p]
    OBVIOUS
  <2>2. logfile = "open" /\ \E t \in Threads : /\ at[t] \in {"curmem", "curlost"}
                                               /\ p = pv[idx[t]][1]
    BY <2>1, Writers
  <2> QED
    BY <2>2, SweptEntry DEF IInv, Logged
<1> QED
  BY <1>1, Invariance, PTL DEF Spec, SampleAfterExecve
=============================================================================
