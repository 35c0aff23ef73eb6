-------------------------- MODULE ShmInjectProofs ---------------------------
(***************************************************************************)
(* The theorems about ShmInject: its invariants, from an inductive         *)
(* invariant that every step keeps, and that it implements SyscallService. *)
(***************************************************************************)
EXTENDS ShmInject, TLAPS

\* Most leaves are first-order reasoning about sets and functions: Zenon is tried first.
USE Zenon, SMTT(20)

\* The call of p that its registers hold is on its way, and is p's own.
OwnCall(p) == stage[p] \in {"kernel", "leave"} /\ ~setting_up_shm[p]

\* TCB_INSYSCALL agrees with where p is.
InStep(p) ==
    /\ stage[p] \in {"kernel", "leave"} => insyscall[p]
    /\ stage[p] \in {"unused", "user", "enter", "trap"} => ~insyscall[p]

\* While the segment is set up, the registers hold the injected shmat and saved_regs
\* the call that p waits for.
SetUp(p) ==
    /\ setting_up_shm[p] /\ stage[p] # "dead" =>
           /\ stage[p] \in {"kernel", "leave"} /\ cur[p] = Shmat
           /\ saved_regs[p] \in Calls /\ saved_regs[p] = pending[p][level[p]]
           /\ stage[p] = "leave" /\ rval[p] = "ok" => attached[p]
    /\ cur[p] = Shmat => setting_up_shm[p] /\ stage[p] \in {"kernel", "leave"}

\* Otherwise they hold the call that p waits for, until it is performed.
InRegisters(p) ==
    /\ stage[p] = "enter" \/ OwnCall(p) => cur[p] \in Calls
    /\ stage[p] = "enter" \/ (OwnCall(p) /\ stage[p] = "kernel") => cur[p] = pending[p][level[p]]
    /\ OwnCall(p) /\ stage[p] = "leave" => pending[p][level[p]] = NoCall

\* The calls that p waits for and is not in are those that it will repeat.
Backed(p) ==
    /\ stage[p] \notin {"enter", "kernel", "leave"} => again[p] = pending[p]
    /\ stage[p] \in {"enter", "kernel", "leave"} => again[p][level[p]] = NoCall
    /\ \A l \in 1 .. 2 : l # level[p] => again[p][l] = pending[p][l]

\* The registers and the strings of a call that was let go on.
Pointed(p) ==
    /\ stage[p] = "enter" => regs[p] = Own
    /\ OwnCall(p) /\ stage[p] = "kernel" =>
           IF exec_mode /\ ToRedirect(cur[p]) # {}
           THEN /\ localshm[p] = Strings(cur[p])
                /\ regs[p] = Point(p \in emu, cur[p], ToRedirect(cur[p]))
                /\ childshm[p] # Null
           ELSE regs[p] = Own

Viewed(p) == view[p] # <<>> => OwnCall(p) /\ stage[p] = "leave"

Segment(p) ==
    exec_mode /\ p \in Live /\ childshm[p] = "segment" /\ ~AfterExecve(p) => attached[p]

Records(p) ==
    /\ ~exec_mode /\ OwnCall(p) /\ stage[p] = "kernel" /\ cur[p].op = "exec" =>
           recorded[p][level[p]] = 1
    /\ \A l \in 1 .. 2 : l # level[p] \/ ~OwnCall(p) => recorded[p][l] = 0

\* A call that finds the other word size has met a process of that size.
Sizes(p) ==
    stage[p] \in {"kernel", "leave"} /\ (p \in emu) # personality =>
        \E q \in Pids : (q \in emu) # (p \in emu)

PInv(p) == /\ InStep(p) /\ SetUp(p) /\ InRegisters(p) /\ Backed(p) /\ Pointed(p)
           /\ Viewed(p) /\ Segment(p) /\ Records(p)

\* The variables that TypeOK leaves out.
Tables == view = [p \in Pids |-> view[p]] /\ localshm = [p \in Pids |-> localshm[p]]

Typed == TypeOK /\ Tables

IInv == Typed /\ (\A p \in Pids : PInv(p) /\ Sizes(p)) /\ AbortOnlyOnFailure

\* Nothing about r changes.
Same(r) ==
    /\ insyscall'[r] = insyscall[r] /\ childshm'[r] = childshm[r]
    /\ setting_up_shm'[r] = setting_up_shm[r] /\ saved_regs'[r] = saved_regs[r]
    /\ localshm'[r] = localshm[r] /\ stage'[r] = stage[r] /\ cur'[r] = cur[r]
    /\ regs'[r] = regs[r] /\ rval'[r] = rval[r] /\ attached'[r] = attached[r]
    /\ again'[r] = again[r] /\ pending'[r] = pending[r] /\ level'[r] = level[r]
    /\ view'[r] = view[r] /\ recorded'[r] = recorded[r]

\* A step of p, as far as the others and the tracer's word size are concerned.
StepOf(p) ==
    /\ \A r \in Pids \ {p} : Same(r)
    /\ exec_mode' = exec_mode /\ emu' = emu /\ over = "no" /\ over' = "no"
    /\ \/ personality' = (p \in emu)
       \/ /\ personality' = personality
          /\ stage'[p] \in {"kernel", "leave"} => stage[p] \in {"kernel", "leave"}
-----------------------------------------------------------------------------
\* Registers as the program loads them.
LEMMA OwnType == Own \in [Registers -> 0 .. 2]
  BY SMT DEF Own

\* The injected call is none of the program's.
LEMMA ShmatIsNoCall == Shmat \notin Calls /\ Shmat.op = "shmat" /\ Shmat # NoCall
  BY CallsAssumption, NoneAssumption DEF Shmat, Ops

\* A call whose paths are redirected asks for the segment first.
LEMMA RedirectNeeds ==
  ASSUME NEW c \in Calls, ToRedirect(c) # {}
  PROVE  NeedsShm(TRUE, c)
<1>1. c.op \in Ops /\ DOMAIN c.paths = DOMAIN ArgPos(c.op)
  BY CallsAssumption
<1>2. c.op # "none"
  <2>1. DOMAIN c.paths # {}
    BY DEF ToRedirect
  <2>. QED
    BY <1>1, <2>1, SMT DEF ArgPos
<1>3. ~Punts(c)
  BY DEF ToRedirect
<1>. QED
  BY <1>1, <1>2, <1>3 DEF Ops, NeedsShm

\* modify_syscall leaves registers in range.
LEMMA PointType ==
  ASSUME NEW e \in BOOLEAN, NEW c \in Calls, NEW strings
  PROVE  Point(e, c, strings) \in [Registers -> 0 .. 2]
  BY SMT DEF Point

\* The register of the i-th path points to the string written for it, if there is one.
Leads(e, c, i, registers, strings) ==
    LET k == registers[argreg(e)[ArgPos(c.op)[i]]] IN
    IF Rewritten(TRUE, e, c, i)
    THEN k # 0 /\ k \in DOMAIN strings /\ strings[k] = InPackage(c, i)
    ELSE k = 0

\* The registers through which the kernel reads a redirected path point to the string
\* that was written for it, and the others are the program's.
LEMMA StringsRead ==
  ASSUME NEW e \in BOOLEAN, NEW c \in Calls, ToRedirect(c) # {}, NEW i \in DOMAIN c.paths
  PROVE  Leads(e, c, i, Point(e, c, ToRedirect(c)), Strings(c))
<1>. DEFINE T == ToRedirect(c)
            k == Point(e, c, T)[argreg(e)[ArgPos(c.op)[i]]]
<1>1. c.op \in Ops /\ DOMAIN c.paths = DOMAIN ArgPos(c.op)
  BY CallsAssumption
<1>2. T \subseteq DOMAIN c.paths
  BY DEF ToRedirect
<1>3. CASE c.op \in {"one", "exec", "at"}
  <2>1. DOMAIN c.paths = {1} /\ T = {1} /\ i = 1
    BY <1>1, <1>2, <1>3, SMT DEF ArgPos
  <2>2. Strings(c) = [n \in 1 .. 1 |-> InPackage(c, 1)]
    BY <2>1, SMT DEF Strings
  <2>3. argreg(e)[ArgPos(c.op)[1]] \in Registers /\ Written(e, c)[1] = argreg(e)[ArgPos(c.op)[1]]
    BY <1>3, SMT DEF ArgPos, argreg, Registers, Written
  <2>4. k = 1
    BY <2>1, <2>3 DEF Point
  <2>. QED
    BY <1>3, <2>1, <2>2, <2>4, SMT DEF Leads, Rewritten
<1>4. CASE c.op \in {"two", "twoat", "symat"}
  <2>. DEFINE W == Written(e, c)
              A(n) == argreg(e)[ArgPos(c.op)[n]]
  <2>1. DOMAIN c.paths = {1, 2} /\ (T = {1} \/ T = {2} \/ T = {1, 2}) /\ i \in {1, 2}
    <3>1. DOMAIN c.paths = {1, 2}
      BY <1>1, <1>4, SMT DEF ArgPos
    <3>. QED
      BY <3>1, <1>2
  <2>2. /\ A(1) \in Registers /\ A(2) \in Registers /\ A(1) # A(2) /\ W[1] = A(1)
        /\ W[2] \in Registers /\ W[2] # A(1)
        /\ IF c.op = "twoat" /\ ~e THEN W[2] # A(2) ELSE W[2] = A(2)
    <3>1. CASE c.op = "two"
      BY <3>1, SMT DEF ArgPos, argreg, Registers, Written
    <3>2. CASE c.op = "symat"
      BY <3>2, SMT DEF ArgPos, argreg, Registers, Written
    <3>3. CASE c.op = "twoat" /\ e
      BY <3>3, SMT DEF ArgPos, argreg, Registers, Written
    <3>4. CASE c.op = "twoat" /\ ~e
      BY <3>4 DEF ArgPos, argreg, Registers, Written
    <3>. QED
      BY <1>4, <3>1, <3>2, <3>3, <3>4
  <2>3. CASE T = {1}
    <3>1. Strings(c) = [n \in 1 .. 1 |-> InPackage(c, 1)]
      BY <2>3, SMT DEF Strings
    <3>2. k = IF i = 1 THEN 1 ELSE 0
      BY <2>1, <2>2, <2>3 DEF Point
    <3>. QED
      BY <2>1, <2>3, <3>1, <3>2, SMT DEF Leads, Rewritten
  <2>4. CASE T = {2}
    <3>1. Strings(c) = [n \in 1 .. 1 |-> InPackage(c, 2)]
      BY <2>4, SMT DEF Strings
    <3>2. k = IF i = 2 /\ ~(c.op = "twoat" /\ ~e) THEN 1 ELSE 0
      BY <2>1, <2>2, <2>4 DEF Point
    <3>. QED
      BY <2>1, <2>4, <3>1, <3>2, SMT DEF Leads, Rewritten
  <2>5. CASE T = {1, 2}
    <3>1. Strings(c) = <<InPackage(c, 1), InPackage(c, 2)>>
      BY <2>5 DEF Strings
    <3>2. k = IF i = 1 THEN 1 ELSE IF c.op = "twoat" /\ ~e THEN 0 ELSE 2
      BY <2>1, <2>2, <2>5 DEF Point
    <3>. QED
      BY <2>1, <2>5, <3>1, <3>2, SMT DEF Leads, Rewritten
  <2>. QED
    BY <2>1, <2>3, <2>4, <2>5
<1>5. CASE c.op = "none"
  BY <1>1, <1>5, SMT DEF ArgPos
<1>. QED
  BY <1>1, <1>3, <1>4, <1>5 DEF Ops

\* What the kernel reads for a call that was let go on.
LEMMA ReadsPromised ==
  ASSUME IInv, NEW p \in Pids, OwnCall(p), stage[p] = "kernel"
  PROVE  Read(p, cur[p]) = IF childshm[p] = "error" THEN Broken(exec_mode, p \in emu, cur[p])
                           ELSE Promised(exec_mode, p \in emu, cur[p])
<1>. DEFINE c == cur[p]
            e == p \in emu
<1>1. c \in Calls /\ c.op \in Ops /\ DOMAIN c.paths = DOMAIN ArgPos(c.op)
  BY CallsAssumption DEF IInv, PInv, InRegisters
<1>2. CASE exec_mode /\ ToRedirect(c) # {}
  <2>1. /\ localshm[p] = Strings(c) /\ regs[p] = Point(e, c, ToRedirect(c))
        /\ childshm[p] \in {"segment", "error"}
    BY <1>2 DEF IInv, PInv, Pointed, Typed, TypeOK
  <2>2. childshm[p] = "segment" => attached[p]
    BY <1>2 DEF IInv, PInv, Segment, AfterExecve, Live
  <2>3. ASSUME NEW i \in DOMAIN c.paths
        PROVE  Leads(e, c, i, regs[p], localshm[p])
    <3>1. e \in BOOLEAN
      BY SMT
    <3>. QED
      BY <1>1, <1>2, <2>1, <3>1, StringsRead
  <2>4. exec_mode = TRUE
    BY <1>2 DEF IInv, Typed, TypeOK
  <2>5. CASE childshm[p] = "error"
    BY <2>3, <2>4, <2>5 DEF Read, Broken, Leads
  <2>6. CASE childshm[p] = "segment"
    BY <2>2, <2>3, <2>4, <2>6 DEF Read, Promised, Leads
  <2>. QED
    BY <2>1, <2>5, <2>6
<1>3. CASE ~(exec_mode /\ ToRedirect(c) # {})
  <2>1. regs[p] = Own
    BY <1>3 DEF IInv, PInv, Pointed
  <2>2. \A i \in DOMAIN c.paths : argreg(e)[ArgPos(c.op)[i]] \in Registers
    BY <1>1, SMT DEF ArgPos, argreg, Registers, Ops
  <2>3. \A i \in DOMAIN c.paths : regs[p][argreg(e)[ArgPos(c.op)[i]]] = 0
    BY <2>1, <2>2 DEF Own
  <2>4. \A i \in DOMAIN c.paths : ~Rewritten(exec_mode, e, c, i)
    BY <1>3 DEF Rewritten
  <2>. QED
    BY <2>3, <2>4 DEF Read, Broken, Promised
<1>. QED
  BY <1>2, <1>3
-----------------------------------------------------------------------------
\* The invariant of a process is about that process only.
LEMMA Frame ==
  ASSUME NEW r \in Pids, PInv(r), Same(r), exec_mode' = exec_mode, emu' = emu
  PROVE  PInv(r)'
<1>1. InStep(r)'
  BY DEF PInv, Same, InStep
<1>2. SetUp(r)'
  BY DEF PInv, Same, SetUp
<1>3. InRegisters(r)'
  BY DEF PInv, Same, InRegisters, OwnCall
<1>4. Backed(r)'
  BY DEF PInv, Same, Backed
<1>5. Pointed(r)'
  BY DEF PInv, Same, Pointed, OwnCall
<1>6. Viewed(r)'
  BY DEF PInv, Same, Viewed, OwnCall
<1>7. Segment(r)'
  BY DEF PInv, Same, Segment, Live, AfterExecve
<1>8. Records(r)'
  BY DEF PInv, Same, Records, OwnCall
<1>. QED
  BY <1>1, <1>2, <1>3, <1>4, <1>5, <1>6, <1>7, <1>8 DEF PInv

\* The contexts of a process that has none.
LEMMA IdleType ==
  /\ Idle \in [1 .. 2 -> Calls \cup {NoCall}] /\ \A l \in 1 .. 2 : Idle[l] = NoCall
  /\ NoneRecorded \in [1 .. 2 -> Nat] /\ \A l \in 1 .. 2 : NoneRecorded[l] = 0
  BY DEF Idle, NoneRecorded

\* Assigning to one level of one process.
LEMMA Level ==
  ASSUME NEW S, NEW f \in [Pids -> [1 .. 2 -> S]], NEW p \in Pids, NEW l \in 1 .. 2, NEW v \in S
  PROVE  /\ [f EXCEPT ![p][l] = v] \in [Pids -> [1 .. 2 -> S]]
         /\ [f EXCEPT ![p][l] = v][p][l] = v
         /\ \A k \in 1 .. 2 : k # l => [f EXCEPT ![p][l] = v][p][k] = f[p][k]
  OBVIOUS

\* Two tables of both levels are equal if they agree at each.
LEMMA SameLevels ==
  ASSUME NEW S, NEW f \in [1 .. 2 -> S], NEW g \in [1 .. 2 -> S],
         \A l \in 1 .. 2 : f[l] = g[l]
  PROVE  f = g
  BY SMT

\* A step of p keeps the invariant if it keeps that of p.
LEMMA StepKeeps ==
  ASSUME IInv, NEW p \in Pids, StepOf(p), Typed', PInv(p)'
  PROVE  IInv'
<1>1. ASSUME NEW r \in Pids PROVE PInv(r)'
  BY Frame DEF IInv, StepOf
<1>2. ASSUME NEW r \in Pids PROVE Sizes(r)'
  <2>1. CASE r = p
    BY <2>1 DEF IInv, StepOf, Sizes
  <2>2. CASE r # p
    BY <2>2 DEF IInv, StepOf, Sizes, Same
  <2>. QED
    BY <2>1, <2>2
<1>3. AbortOnlyOnFailure'
  BY DEF StepOf, AbortOnlyOnFailure
<1>. QED
  BY <1>1, <1>2, <1>3 DEF IInv
-----------------------------------------------------------------------------
\* The program makes a call.
LEMMA IssueKeeps ==
  ASSUME IInv, NEW p \in Pids, over = "no",
         NEW c \in Calls, Issue(p, c)
  PROVE  IInv'
<1>1. TypeOK'
  BY OwnType DEF IInv, Typed, TypeOK, Stages, Issue, Enter, tcbs, context, modes
<1>2. Tables'
  BY DEF IInv, Typed, Tables, Issue, Enter, tcbs, context, modes
<1>3. StepOf(p)
  BY DEF IInv, Typed, TypeOK, Tables, StepOf, Same, Issue, Enter, tcbs, context, modes
<1>4. InStep(p)'
  BY DEF IInv, Typed, TypeOK, Tables, PInv, InStep, Issue, Enter, tcbs, context, modes
<1>5. SetUp(p)'
  BY ShmatIsNoCall DEF IInv, Typed, TypeOK, Tables, PInv, SetUp, Issue, Enter, tcbs,
     context, modes, InStep
<1>6. InRegisters(p)'
  BY DEF IInv, Typed, TypeOK, Tables, PInv, InRegisters, Issue, Enter, tcbs, context,
     modes, OwnCall
<1>7. Backed(p)'
  BY DEF IInv, Typed, TypeOK, Tables, PInv, Backed, Issue, Enter, tcbs, context, modes
<1>8. Pointed(p)'
  BY DEF IInv, Typed, TypeOK, Tables, PInv, Pointed, Issue, Enter, tcbs, context, modes,
     OwnCall
<1>9. Viewed(p)'
  BY DEF IInv, Typed, TypeOK, Tables, PInv, Viewed, Issue, Enter, tcbs, context, modes,
     OwnCall
<1>10. Segment(p)'
  BY DEF IInv, Typed, TypeOK, Tables, PInv, Segment, Issue, Enter, tcbs, context, modes,
     Live, AfterExecve
<1>11. Records(p)'
  BY DEF IInv, Typed, TypeOK, Tables, PInv, Records, Issue, Enter, tcbs, context, modes,
     OwnCall
<1>. QED
  BY <1>1, <1>2, <1>3, <1>4, <1>5, <1>6, <1>7, <1>8, <1>9, <1>10, <1>11,
     StepKeeps DEF PInv, Typed

\* The instruction that was backed up is executed again.
LEMMA RepeatKeeps ==
  ASSUME IInv, NEW p \in Pids, over = "no",
         Repeat(p)
  PROVE  IInv'
<1>1. TypeOK'
  BY OwnType, SMT DEF IInv, Typed, TypeOK, Stages, Repeat, Enter, tcbs, context, modes
<1>2. Tables'
  BY DEF IInv, Typed, Tables, Repeat, Enter, tcbs, context, modes
<1>3. StepOf(p)
  BY DEF IInv, Typed, TypeOK, Tables, StepOf, Same, Repeat, Enter, tcbs, context, modes
<1>4. InStep(p)'
  BY DEF IInv, Typed, TypeOK, Tables, PInv, InStep, Repeat, Enter, tcbs, context, modes
<1>5. SetUp(p)'
  BY ShmatIsNoCall, SMT DEF IInv, Typed, TypeOK, Tables, PInv, SetUp, Repeat, Enter, tcbs,
     context, modes, InStep
<1>6. InRegisters(p)'
  BY SMT DEF IInv, Typed, TypeOK, Tables, PInv, InRegisters, Repeat, Enter, tcbs, context,
     modes, OwnCall, Backed
<1>7. Backed(p)'
  BY SMT DEF IInv, Typed, TypeOK, Tables, PInv, Backed, Repeat, Enter, tcbs, context, modes
<1>8. Pointed(p)'
  BY DEF IInv, Typed, TypeOK, Tables, PInv, Pointed, Repeat, Enter, tcbs, context, modes,
     OwnCall
<1>9. Viewed(p)'
  BY DEF IInv, Typed, TypeOK, Tables, PInv, Viewed, Repeat, Enter, tcbs, context, modes,
     OwnCall
<1>10. Segment(p)'
  BY DEF IInv, Typed, TypeOK, Tables, PInv, Segment, Repeat, Enter, tcbs, context, modes,
     Live, AfterExecve
<1>11. Records(p)'
  BY DEF IInv, Typed, TypeOK, Tables, PInv, Records, Repeat, Enter, tcbs, context, modes,
     OwnCall
<1>. QED
  BY <1>1, <1>2, <1>3, <1>4, <1>5, <1>6, <1>7, <1>8, <1>9, <1>10, <1>11,
     StepKeeps DEF PInv, Typed

\* A signal handler starts.
LEMMA SignalKeeps ==
  ASSUME IInv, NEW p \in Pids, over = "no",
         Signal(p)
  PROVE  IInv'
<1>1. TypeOK'
  BY PidsAssumption, SMT DEF IInv, Typed, TypeOK, Stages, Signal, tcbs, context, modes
<1>2. Tables'
  BY DEF IInv, Typed, Tables, Signal, tcbs, context, modes
<1>3. StepOf(p)
  BY DEF IInv, Typed, TypeOK, Tables, StepOf, Same, Signal, tcbs, context, modes
<1>4. InStep(p)'
  BY DEF IInv, Typed, TypeOK, Tables, PInv, InStep, Signal, tcbs, context, modes
<1>5. SetUp(p)'
  BY DEF IInv, Typed, TypeOK, Tables, PInv, SetUp, Signal, tcbs, context, modes
<1>6. InRegisters(p)'
  BY DEF IInv, Typed, TypeOK, Tables, PInv, InRegisters, Signal, tcbs, context, modes,
     OwnCall
<1>7. Backed(p)'
  BY DEF IInv, Typed, TypeOK, Tables, PInv, Backed, Signal, tcbs, context, modes
<1>8. Pointed(p)'
  BY DEF IInv, Typed, TypeOK, Tables, PInv, Pointed, Signal, tcbs, context, modes, OwnCall
<1>9. Viewed(p)'
  BY DEF IInv, Typed, TypeOK, Tables, PInv, Viewed, Signal, tcbs, context, modes, OwnCall
<1>10. Segment(p)'
  BY DEF IInv, Typed, TypeOK, Tables, PInv, Segment, Signal, tcbs, context, modes, Live,
     AfterExecve
<1>11. Records(p)'
  BY DEF IInv, Typed, TypeOK, Tables, PInv, Records, Signal, tcbs, context, modes,
     OwnCall, SetUp
<1>. QED
  BY <1>1, <1>2, <1>3, <1>4, <1>5, <1>6, <1>7, <1>8, <1>9, <1>10, <1>11,
     StepKeeps DEF PInv, Typed

\* A signal handler returns.
LEMMA SigReturnKeeps ==
  ASSUME IInv, NEW p \in Pids, over = "no",
         SigReturn(p)
  PROVE  IInv'
<1>1. TypeOK'
  BY SMT DEF IInv, Typed, TypeOK, Stages, SigReturn, tcbs, context, modes
<1>2. Tables'
  BY DEF IInv, Typed, Tables, SigReturn, tcbs, context, modes
<1>3. StepOf(p)
  BY DEF IInv, Typed, TypeOK, Tables, StepOf, Same, SigReturn, tcbs, context, modes
<1>4. InStep(p)'
  BY DEF IInv, Typed, TypeOK, Tables, PInv, InStep, SigReturn, tcbs, context, modes
<1>5. SetUp(p)'
  BY DEF IInv, Typed, TypeOK, Tables, PInv, SetUp, SigReturn, tcbs, context, modes
<1>6. InRegisters(p)'
  BY DEF IInv, Typed, TypeOK, Tables, PInv, InRegisters, SigReturn, tcbs, context, modes,
     OwnCall
<1>7. Backed(p)'
  BY DEF IInv, Typed, TypeOK, Tables, PInv, Backed, SigReturn, tcbs, context, modes
<1>8. Pointed(p)'
  BY DEF IInv, Typed, TypeOK, Tables, PInv, Pointed, SigReturn, tcbs, context, modes,
     OwnCall
<1>9. Viewed(p)'
  BY DEF IInv, Typed, TypeOK, Tables, PInv, Viewed, SigReturn, tcbs, context, modes,
     OwnCall
<1>10. Segment(p)'
  BY DEF IInv, Typed, TypeOK, Tables, PInv, Segment, SigReturn, tcbs, context, modes,
     Live, AfterExecve
<1>11. Records(p)'
  BY DEF IInv, Typed, TypeOK, Tables, PInv, Records, SigReturn, tcbs, context, modes,
     OwnCall, SetUp
<1>. QED
  BY <1>1, <1>2, <1>3, <1>4, <1>5, <1>6, <1>7, <1>8, <1>9, <1>10, <1>11,
     StepKeeps DEF PInv, Typed

\* A process is created, with an entry of alloc_tcb_cde_fields.
LEMMA ForkKeeps ==
  ASSUME IInv, NEW p \in Pids, NEW q \in Pids, over = "no",
         Fork(p, q)
  PROVE  IInv'
<1>0. stage[p] = "user" /\ p # q
  BY DEF Fork
<1>1. TypeOK'
  BY DEF IInv, Typed, TypeOK, Stages, Fork, tcbs, context, modes
<1>2. Tables'
  BY DEF IInv, Typed, Tables, Fork, tcbs, context, modes
<1>3. StepOf(q)
  BY DEF IInv, Typed, TypeOK, Tables, StepOf, Same, Fork, tcbs, context, modes
<1>4. InStep(q)'
  BY DEF IInv, Typed, TypeOK, Tables, PInv, InStep, Fork, tcbs, context, modes
<1>5. SetUp(q)'
  BY ShmatIsNoCall, SMT DEF IInv, Typed, TypeOK, Tables, PInv, SetUp, Fork, tcbs, context,
     modes
<1>6. InRegisters(q)'
  BY DEF IInv, Typed, TypeOK, Tables, PInv, InRegisters, Fork, tcbs, context, modes,
     OwnCall
<1>7. Backed(q)'
  BY DEF IInv, Typed, TypeOK, Tables, PInv, Backed, Fork, tcbs, context, modes
<1>8. Pointed(q)'
  BY DEF IInv, Typed, TypeOK, Tables, PInv, Pointed, Fork, tcbs, context, modes, OwnCall
<1>9. Viewed(q)'
  BY DEF IInv, Typed, TypeOK, Tables, PInv, Viewed, Fork, tcbs, context, modes, OwnCall
<1>10. Segment(q)'
  BY NoneAssumption DEF IInv, Typed, TypeOK, Tables, PInv, Segment, Fork, tcbs, context,
     modes, Live, AfterExecve
<1>11. Records(q)'
  <2>1. \A l \in 1 .. 2 : recorded[p][l] = 0
    BY <1>0 DEF IInv, PInv, Records, OwnCall
  <2>2. recorded'[q] = recorded[p] /\ stage'[q] = "user"
    BY DEF Fork, IInv, Typed, TypeOK
  <2>. QED
    BY <2>1, <2>2 DEF Records, OwnCall
<1>. QED
  BY <1>1, <1>2, <1>3, <1>4, <1>5, <1>6, <1>7, <1>8, <1>9, <1>10, <1>11,
     StepKeeps DEF PInv, Typed

\* The injected shmat attaches the segment.
LEMMA AttachKeeps ==
  ASSUME IInv, NEW p \in Pids, over = "no",
         Attach(p)
  PROVE  IInv'
<1>0. stage[p] = "kernel" /\ cur[p] = Shmat /\ setting_up_shm[p]
  BY DEF Attach, IInv, PInv, SetUp
<1>1. TypeOK'
  BY DEF IInv, Typed, TypeOK, Stages, Attach, Performed, tcbs, context, modes
<1>2. Tables'
  BY DEF IInv, Typed, Tables, Attach, Performed, tcbs, context, modes
<1>3. StepOf(p)
  BY DEF IInv, Typed, TypeOK, Tables, StepOf, Same, Attach, Performed, tcbs, context,
     modes
<1>4. InStep(p)'
  BY DEF IInv, Typed, TypeOK, Tables, PInv, InStep, Attach, Performed, tcbs, context,
     modes
<1>5. SetUp(p)'
  BY DEF IInv, Typed, TypeOK, Tables, PInv, SetUp, Attach, Performed, tcbs, context, modes
<1>6. InRegisters(p)'
  BY <1>0 DEF IInv, Typed, TypeOK, Tables, PInv, InRegisters, Attach, Performed, tcbs,
     context, modes, OwnCall
<1>7. Backed(p)'
  BY DEF IInv, Typed, TypeOK, Tables, PInv, Backed, Attach, Performed, tcbs, context,
     modes
<1>8. Pointed(p)'
  BY DEF IInv, Typed, TypeOK, Tables, PInv, Pointed, Attach, Performed, tcbs, context,
     modes, OwnCall
<1>9. Viewed(p)'
  BY <1>0 DEF IInv, Typed, TypeOK, Tables, PInv, Viewed, Attach, Performed, tcbs,
     context, modes, OwnCall
<1>10. Segment(p)'
  BY DEF IInv, Typed, TypeOK, Tables, PInv, Segment, Attach, Performed, tcbs, context,
     modes, Live, AfterExecve
<1>11. Records(p)'
  BY <1>0 DEF IInv, Typed, TypeOK, Tables, PInv, Records, Attach, Performed, tcbs,
     context, modes, OwnCall
<1>. QED
  BY <1>1, <1>2, <1>3, <1>4, <1>5, <1>6, <1>7, <1>8, <1>9, <1>10, <1>11,
     StepKeeps DEF PInv, Typed

\* The injected shmat fails.
LEMMA AttachFailsKeeps ==
  ASSUME IInv, NEW p \in Pids, over = "no",
         AttachFails(p)
  PROVE  IInv'
<1>0. stage[p] = "kernel" /\ cur[p] = Shmat /\ setting_up_shm[p]
  BY DEF AttachFails, IInv, PInv, SetUp
<1>1. TypeOK'
  BY DEF IInv, Typed, TypeOK, Stages, AttachFails, Performed, tcbs, context, modes
<1>2. Tables'
  BY DEF IInv, Typed, Tables, AttachFails, Performed, tcbs, context, modes
<1>3. StepOf(p)
  BY DEF IInv, Typed, TypeOK, Tables, StepOf, Same, AttachFails, Performed, tcbs,
     context, modes
<1>4. InStep(p)'
  BY DEF IInv, Typed, TypeOK, Tables, PInv, InStep, AttachFails, Performed, tcbs,
     context, modes
<1>5. SetUp(p)'
  BY DEF IInv, Typed, TypeOK, Tables, PInv, SetUp, AttachFails, Performed, tcbs, context,
     modes
<1>6. InRegisters(p)'
  BY <1>0 DEF IInv, Typed, TypeOK, Tables, PInv, InRegisters, AttachFails, Performed,
     tcbs, context, modes, OwnCall
<1>7. Backed(p)'
  BY DEF IInv, Typed, TypeOK, Tables, PInv, Backed, AttachFails, Performed, tcbs,
     context, modes
<1>8. Pointed(p)'
  BY DEF IInv, Typed, TypeOK, Tables, PInv, Pointed, AttachFails, Performed, tcbs,
     context, modes, OwnCall
<1>9. Viewed(p)'
  BY <1>0 DEF IInv, Typed, TypeOK, Tables, PInv, Viewed, AttachFails, Performed, tcbs,
     context, modes, OwnCall
<1>10. Segment(p)'
  BY DEF IInv, Typed, TypeOK, Tables, PInv, Segment, AttachFails, Performed, tcbs,
     context, modes, Live, AfterExecve
<1>11. Records(p)'
  BY <1>0 DEF IInv, Typed, TypeOK, Tables, PInv, Records, AttachFails, Performed, tcbs,
     context, modes, OwnCall
<1>. QED
  BY <1>1, <1>2, <1>3, <1>4, <1>5, <1>6, <1>7, <1>8, <1>9, <1>10, <1>11,
     StepKeeps DEF PInv, Typed

\* The kernel performs a call of the program.
LEMMA PerformKeeps ==
  ASSUME IInv, NEW p \in Pids, over = "no",
         Perform(p)
  PROVE  IInv'
<1>0. stage[p] = "kernel" /\ cur[p] # Shmat /\ ~setting_up_shm[p]
  BY ShmatIsNoCall DEF Perform, IInv, PInv, SetUp
<1>1. TypeOK'
  BY DEF IInv, Typed, TypeOK, Stages, Perform, Performed, tcbs, context, modes
<1>2. Tables'
  BY DEF IInv, Typed, Tables, Perform, Performed, tcbs, context, modes
<1>3. StepOf(p)
  BY DEF IInv, Typed, TypeOK, Tables, StepOf, Same, Perform, Performed, tcbs, context,
     modes
<1>4. InStep(p)'
  BY <1>0 DEF IInv, Typed, TypeOK, Tables, PInv, InStep, Perform, Performed, tcbs,
     context, modes
<1>5. SetUp(p)'
  BY <1>0 DEF IInv, Typed, TypeOK, Tables, PInv, SetUp, Perform, Performed, tcbs,
     context, modes
<1>6. InRegisters(p)'
  BY <1>0 DEF IInv, Typed, TypeOK, Tables, PInv, InRegisters, Perform, Performed, tcbs,
     context, modes, OwnCall
<1>7. Backed(p)'
  BY <1>0 DEF IInv, Typed, TypeOK, Tables, PInv, Backed, Perform, Performed, tcbs,
     context, modes
<1>8. Pointed(p)'
  BY <1>0 DEF IInv, Typed, TypeOK, Tables, PInv, Pointed, Perform, Performed, tcbs,
     context, modes, OwnCall
<1>9. Viewed(p)'
  BY <1>0 DEF IInv, Typed, TypeOK, Tables, PInv, Viewed, Perform, Performed, tcbs,
     context, modes, OwnCall
<1>10. Segment(p)'
  BY <1>0 DEF IInv, Typed, TypeOK, Tables, PInv, Segment, Perform, Performed, tcbs,
     context, modes, Live, AfterExecve
<1>11. Records(p)'
  BY <1>0 DEF IInv, Typed, TypeOK, Tables, PInv, Records, Perform, Performed, tcbs,
     context, modes, OwnCall
<1>. QED
  BY <1>1, <1>2, <1>3, <1>4, <1>5, <1>6, <1>7, <1>8, <1>9, <1>10, <1>11,
     StepKeeps DEF PInv, Typed

\* The kernel performs an execve that succeeds.
LEMMA BecomeKeeps ==
  ASSUME IInv, NEW p \in Pids, over = "no",
         Become(p)
  PROVE  IInv'
<1>0. stage[p] = "kernel" /\ cur[p] # Shmat /\ ~setting_up_shm[p]
  BY ShmatIsNoCall DEF Become, IInv, PInv, SetUp
<1>1. TypeOK'
  BY IdleType, SMT DEF IInv, Typed, TypeOK, Stages, Become, Performed, tcbs, context, modes
<1>2. Tables'
  BY DEF IInv, Typed, Tables, Become, Performed, tcbs, context, modes
<1>3. StepOf(p)
  BY DEF IInv, Typed, TypeOK, Tables, StepOf, Same, Become, Performed, tcbs, context,
     modes
<1>4. InStep(p)'
  BY <1>0 DEF IInv, Typed, TypeOK, Tables, PInv, InStep, Become, Performed, tcbs,
     context, modes
<1>5. SetUp(p)'
  BY <1>0 DEF IInv, Typed, TypeOK, Tables, PInv, SetUp, Become, Performed, tcbs, context,
     modes
<1>6. InRegisters(p)'
  BY <1>0, IdleType, SMT DEF IInv, Typed, TypeOK, Tables, PInv, InRegisters, Become,
     Performed, tcbs, context, modes, OwnCall
<1>7. Backed(p)'
  BY <1>0, IdleType, SMT DEF IInv, Typed, TypeOK, Tables, PInv, Backed, Become, Performed,
     tcbs, context, modes
<1>8. Pointed(p)'
  BY <1>0 DEF IInv, Typed, TypeOK, Tables, PInv, Pointed, Become, Performed, tcbs,
     context, modes, OwnCall
<1>9. Viewed(p)'
  BY <1>0 DEF IInv, Typed, TypeOK, Tables, PInv, Viewed, Become, Performed, tcbs,
     context, modes, OwnCall
<1>10. Segment(p)'
  BY <1>0 DEF IInv, Typed, TypeOK, Tables, PInv, Segment, Become, Performed, tcbs,
     context, modes, Live, AfterExecve
<1>11. Records(p)'
  BY <1>0, IdleType DEF IInv, Typed, TypeOK, Tables, PInv, Records, Become, Performed,
     tcbs, context, modes, OwnCall
<1>. QED
  BY <1>1, <1>2, <1>3, <1>4, <1>5, <1>6, <1>7, <1>8, <1>9, <1>10, <1>11,
     StepKeeps DEF PInv, Typed

\* A process is killed.
LEMMA KillKeeps ==
  ASSUME IInv, NEW p \in Pids, over = "no",
         Kill(p)
  PROVE  IInv'
<1>1. TypeOK'
  BY OwnType, IdleType, SMT DEF IInv, Typed, TypeOK, Stages, Kill, Forget, tcbs, context, modes
<1>2. Tables'
  BY DEF IInv, Typed, Tables, Kill, Forget, tcbs, context, modes
<1>3. StepOf(p)
  BY DEF IInv, Typed, TypeOK, Tables, StepOf, Same, Kill, Forget, tcbs, context, modes
<1>4. InStep(p)'
  BY DEF IInv, Typed, TypeOK, Tables, PInv, InStep, Kill, Forget, tcbs, context, modes
<1>5. SetUp(p)'
  BY ShmatIsNoCall, SMT DEF IInv, Typed, TypeOK, Tables, PInv, SetUp, Kill, Forget, tcbs,
     context, modes
<1>6. InRegisters(p)'
  BY DEF IInv, Typed, TypeOK, Tables, PInv, InRegisters, Kill, Forget, tcbs, context,
     modes, OwnCall
<1>7. Backed(p)'
  BY DEF IInv, Typed, TypeOK, Tables, PInv, Backed, Kill, Forget, tcbs, context, modes
<1>8. Pointed(p)'
  BY DEF IInv, Typed, TypeOK, Tables, PInv, Pointed, Kill, Forget, tcbs, context, modes,
     OwnCall
<1>9. Viewed(p)'
  BY DEF IInv, Typed, TypeOK, Tables, PInv, Viewed, Kill, Forget, tcbs, context, modes,
     OwnCall
<1>10. Segment(p)'
  BY DEF IInv, Typed, TypeOK, Tables, PInv, Segment, Kill, Forget, tcbs, context, modes,
     Live, AfterExecve
<1>11. Records(p)'
  BY IdleType DEF IInv, Typed, TypeOK, Tables, PInv, Records, Kill, Forget, tcbs,
     context, modes, OwnCall
<1>. QED
  BY <1>1, <1>2, <1>3, <1>4, <1>5, <1>6, <1>7, <1>8, <1>9, <1>10, <1>11,
     StepKeeps DEF PInv, Typed

\* The tracer frees the entry of a dead process.
LEMMA ReapKeeps ==
  ASSUME IInv, NEW p \in Pids, over = "no",
         Reap(p)
  PROVE  IInv'
<1>1. TypeOK'
  BY OwnType DEF IInv, Typed, TypeOK, Stages, Reap, free_tcb, Forget, tcbs, context, modes
<1>2. Tables'
  BY DEF IInv, Typed, Tables, Reap, free_tcb, Forget, tcbs, context, modes
<1>3. StepOf(p)
  BY DEF IInv, Typed, TypeOK, Tables, StepOf, Same, Reap, free_tcb, Forget, tcbs,
     context, modes
<1>4. InStep(p)'
  BY DEF IInv, Typed, TypeOK, Tables, PInv, InStep, Reap, free_tcb, Forget, tcbs,
     context, modes
<1>5. SetUp(p)'
  BY ShmatIsNoCall, SMT DEF IInv, Typed, TypeOK, Tables, PInv, SetUp, Reap, free_tcb, Forget,
     tcbs, context, modes
<1>6. InRegisters(p)'
  BY DEF IInv, Typed, TypeOK, Tables, PInv, InRegisters, Reap, free_tcb, Forget, tcbs,
     context, modes, OwnCall
<1>7. Backed(p)'
  BY DEF IInv, Typed, TypeOK, Tables, PInv, Backed, Reap, free_tcb, Forget, tcbs,
     context, modes
<1>8. Pointed(p)'
  BY DEF IInv, Typed, TypeOK, Tables, PInv, Pointed, Reap, free_tcb, Forget, tcbs,
     context, modes, OwnCall
<1>9. Viewed(p)'
  BY DEF IInv, Typed, TypeOK, Tables, PInv, Viewed, Reap, free_tcb, Forget, tcbs,
     context, modes, OwnCall
<1>10. Segment(p)'
  BY DEF IInv, Typed, TypeOK, Tables, PInv, Segment, Reap, free_tcb, Forget, tcbs,
     context, modes, Live, AfterExecve
<1>11. Records(p)'
  BY DEF IInv, Typed, TypeOK, Tables, PInv, Records, Reap, free_tcb, Forget, tcbs,
     context, modes, OwnCall
<1>. QED
  BY <1>1, <1>2, <1>3, <1>4, <1>5, <1>6, <1>7, <1>8, <1>9, <1>10, <1>11,
     StepKeeps DEF PInv, Typed
-----------------------------------------------------------------------------
\* The steps of the tracer.

\* At the entry of a call, begin_setup_shmat replaces it.
LEMMA InjectKeeps ==
  ASSUME IInv, NEW p \in Pids, over = "no",
         ~insyscall[p], stage[p] = "enter", trace_syscall_entering(p), Injects(p)
  PROVE  IInv'
<1>0. cur[p] \in Calls /\ ~setting_up_shm[p] /\ childshm[p] = Null
  BY DEF IInv, PInv, InRegisters, SetUp, Injects
<1>1. TypeOK'
  <2>1. /\ exec_mode' \in BOOLEAN /\ emu' \subseteq Pids /\ personality' \in BOOLEAN
        /\ insyscall' \in [Pids -> BOOLEAN] /\ attached' \in [Pids -> BOOLEAN]
        /\ over' \in {"no", "abort", "lost"} /\ nsignals' \in 0 .. MaxSignals
    BY SMT DEF IInv, Typed, TypeOK, Stages, trace_syscall_entering, begin_setup_shmat, tcbs,
       context, modes
  <2>2. /\ childshm' \in [Pids -> {Null, "segment", "error"}]
        /\ setting_up_shm' \in [Pids -> BOOLEAN]
        /\ saved_regs' \in [Pids -> Calls \cup {NoCall}]
    BY <1>0 DEF IInv, Typed, TypeOK, Stages, trace_syscall_entering, begin_setup_shmat,
       tcbs, context, modes
  <2>3. /\ cur' \in [Pids -> Calls \cup {NoCall, Shmat}] /\ stage' \in [Pids -> Stages]
        /\ rval' \in [Pids -> {"ok", "error"}] /\ level' \in [Pids -> 1 .. 2]
    BY DEF IInv, Typed, TypeOK, Stages, trace_syscall_entering, begin_setup_shmat, tcbs,
       context, modes
  <2>4. regs' \in [Pids -> [Registers -> 0 .. 2]]
    BY DEF IInv, Typed, TypeOK, Stages, trace_syscall_entering, begin_setup_shmat, tcbs,
       context, modes
  <2>5. again' \in [Pids -> [1 .. 2 -> Calls \cup {NoCall}]]
    BY DEF IInv, Typed, TypeOK, Stages, trace_syscall_entering, begin_setup_shmat, tcbs,
       context, modes
  <2>6. pending' \in [Pids -> [1 .. 2 -> Calls \cup {NoCall}]]
    BY DEF IInv, Typed, TypeOK, Stages, trace_syscall_entering, begin_setup_shmat, tcbs,
       context, modes
  <2>7. recorded' \in [Pids -> [1 .. 2 -> Nat]]
    BY DEF IInv, Typed, TypeOK, Stages, trace_syscall_entering, begin_setup_shmat, tcbs,
       context, modes
  <2>. QED
    BY <2>1, <2>2, <2>3, <2>4, <2>5, <2>6, <2>7 DEF TypeOK
<1>2. Tables'
  BY DEF IInv, Typed, Tables, trace_syscall_entering, begin_setup_shmat, tcbs,
     context, modes
<1>3. StepOf(p)
  BY DEF IInv, Typed, TypeOK, Tables, StepOf, Same, trace_syscall_entering,
     begin_setup_shmat, tcbs, context, modes
<1>4. InStep(p)'
  BY DEF IInv, Typed, TypeOK, Tables, PInv, InStep, trace_syscall_entering,
     begin_setup_shmat, tcbs, context, modes
<1>5. SetUp(p)'
  <2>1. cur[p] = pending[p][level[p]]
    BY DEF IInv, PInv, InRegisters
  <2>2. /\ saved_regs'[p] = cur[p] /\ cur'[p] = Shmat /\ setting_up_shm'[p] /\ stage'[p] = "kernel"
        /\ pending' = pending /\ level' = level
    BY DEF IInv, Typed, TypeOK, trace_syscall_entering, begin_setup_shmat, context
  <2>. QED
    BY <1>0, <2>1, <2>2 DEF SetUp
<1>6. InRegisters(p)'
  BY <1>0 DEF IInv, Typed, TypeOK, Tables, PInv, InRegisters, trace_syscall_entering,
     begin_setup_shmat, tcbs, context, modes, OwnCall
<1>7. Backed(p)'
  BY DEF IInv, Typed, TypeOK, Tables, PInv, Backed, trace_syscall_entering,
     begin_setup_shmat, tcbs, context, modes
<1>8. Pointed(p)'
  BY DEF IInv, Typed, TypeOK, Tables, PInv, Pointed, trace_syscall_entering,
     begin_setup_shmat, tcbs, context, modes, OwnCall
<1>9. Viewed(p)'
  BY <1>0 DEF IInv, Typed, TypeOK, Tables, PInv, Viewed, trace_syscall_entering,
     begin_setup_shmat, tcbs, context, modes, OwnCall
<1>10. Segment(p)'
  BY <1>0, NoneAssumption DEF IInv, Typed, TypeOK, Tables, PInv, Segment,
     trace_syscall_entering, begin_setup_shmat, tcbs, context, modes, Live, AfterExecve
<1>11. Records(p)'
  <2>1. \A l \in 1 .. 2 : recorded[p][l] = 0
    BY DEF IInv, PInv, Records, OwnCall
  <2>2. recorded' = recorded /\ setting_up_shm'[p]
    BY DEF IInv, Typed, TypeOK, trace_syscall_entering, begin_setup_shmat
  <2>. QED
    BY <2>1, <2>2 DEF Records, OwnCall
<1>. QED
  BY <1>1, <1>2, <1>3, <1>4, <1>5, <1>6, <1>7, <1>8, <1>9, <1>10, <1>11,
     StepKeeps DEF PInv, Typed

\* At the entry of a call, its paths are rewritten or the execve is recorded.
LEMMA ModifyKeeps ==
  ASSUME IInv, NEW p \in Pids, over = "no",
         ~insyscall[p], stage[p] = "enter", trace_syscall_entering(p), ~Injects(p)
  PROVE  IInv'
<1>0. cur[p] \in Calls /\ ~setting_up_shm[p] /\ (p \in emu) \in BOOLEAN
  <2>1. (p \in emu) \in BOOLEAN
    BY SMT
  <2>. QED
    BY <2>1 DEF IInv, PInv, InRegisters, SetUp
<1>0a. exec_mode /\ ToRedirect(cur[p]) # {} => childshm[p] # Null
  BY <1>0, RedirectNeeds DEF Injects, IInv, Typed, TypeOK
<1>0b. recorded' = IF ~exec_mode /\ cur[p].op = "exec"
                   THEN [recorded EXCEPT ![p][level[p]] = recorded[p][level[p]] + 1]
                   ELSE recorded
  BY DEF trace_syscall_entering, modify_syscall
<1>1. TypeOK'
  <2>1. /\ exec_mode' \in BOOLEAN /\ emu' \subseteq Pids /\ personality' \in BOOLEAN
        /\ insyscall' \in [Pids -> BOOLEAN] /\ attached' \in [Pids -> BOOLEAN]
        /\ over' \in {"no", "abort", "lost"} /\ nsignals' \in 0 .. MaxSignals
    BY SMT DEF IInv, Typed, TypeOK, Stages, trace_syscall_entering, modify_syscall, tcbs,
       context, modes
  <2>2. /\ childshm' \in [Pids -> {Null, "segment", "error"}]
        /\ setting_up_shm' \in [Pids -> BOOLEAN]
        /\ saved_regs' \in [Pids -> Calls \cup {NoCall}]
    BY DEF IInv, Typed, TypeOK, Stages, trace_syscall_entering, modify_syscall, tcbs,
       context, modes
  <2>3. /\ cur' \in [Pids -> Calls \cup {NoCall, Shmat}] /\ stage' \in [Pids -> Stages]
        /\ rval' \in [Pids -> {"ok", "error"}] /\ level' \in [Pids -> 1 .. 2]
    BY DEF IInv, Typed, TypeOK, Stages, trace_syscall_entering, modify_syscall, tcbs,
       context, modes
  <2>4. regs' \in [Pids -> [Registers -> 0 .. 2]]
    <3>1. CASE exec_mode /\ ToRedirect(cur[p]) # {}
      <4>1. Point(p \in emu, cur[p], ToRedirect(cur[p])) \in [Registers -> 0 .. 2]
        BY <1>0, PointType
      <4>2. regs' = [regs EXCEPT ![p] = Point(p \in emu, cur[p], ToRedirect(cur[p]))]
        BY <3>1 DEF trace_syscall_entering, modify_syscall
      <4>. QED
        BY <4>1, <4>2 DEF IInv, Typed, TypeOK
    <3>2. CASE ~(exec_mode /\ ToRedirect(cur[p]) # {})
      BY <3>2 DEF IInv, Typed, TypeOK, trace_syscall_entering, modify_syscall
    <3>. QED
      BY <3>1, <3>2
  <2>5. again' \in [Pids -> [1 .. 2 -> Calls \cup {NoCall}]]
    BY DEF IInv, Typed, TypeOK, Stages, trace_syscall_entering, modify_syscall, tcbs,
       context, modes
  <2>6. pending' \in [Pids -> [1 .. 2 -> Calls \cup {NoCall}]]
    BY DEF IInv, Typed, TypeOK, Stages, trace_syscall_entering, modify_syscall, tcbs,
       context, modes
  <2>7. recorded' \in [Pids -> [1 .. 2 -> Nat]]
    <3>1. level[p] \in 1 .. 2 /\ recorded \in [Pids -> [1 .. 2 -> Nat]]
      BY DEF IInv, Typed, TypeOK
    <3>. QED
      BY <1>0b, <3>1, Level, SMT
  <2>. QED
    BY <2>1, <2>2, <2>3, <2>4, <2>5, <2>6, <2>7 DEF TypeOK
<1>2. Tables'
  BY DEF IInv, Typed, Tables, trace_syscall_entering, modify_syscall, tcbs,
     context, modes
<1>3. StepOf(p)
  BY DEF IInv, Typed, TypeOK, Tables, StepOf, Same, trace_syscall_entering,
     modify_syscall, tcbs, context, modes
<1>4. InStep(p)'
  BY DEF IInv, Typed, TypeOK, Tables, PInv, InStep, trace_syscall_entering,
     modify_syscall, tcbs, context, modes
<1>5. SetUp(p)'
  BY <1>0, ShmatIsNoCall DEF IInv, Typed, TypeOK, Tables, PInv, SetUp,
     trace_syscall_entering, modify_syscall, tcbs, context, modes
<1>6. InRegisters(p)'
  BY <1>0 DEF IInv, Typed, TypeOK, Tables, PInv, InRegisters, trace_syscall_entering,
     modify_syscall, tcbs, context, modes, OwnCall
<1>7. Backed(p)'
  BY DEF IInv, Typed, TypeOK, Tables, PInv, Backed, trace_syscall_entering,
     modify_syscall, tcbs, context, modes
<1>8. Pointed(p)'
  <2>1. /\ cur'[p] = cur[p] /\ childshm'[p] = childshm[p] /\ exec_mode' = exec_mode
        /\ emu' = emu
    BY DEF trace_syscall_entering, modify_syscall, modes
  <2>2. stage'[p] = "kernel"
    BY DEF IInv, Typed, TypeOK, trace_syscall_entering
  <2>3. CASE exec_mode /\ ToRedirect(cur[p]) # {}
    <3>1. /\ localshm'[p] = Strings(cur[p])
          /\ regs'[p] = Point(p \in emu, cur[p], ToRedirect(cur[p]))
      BY <2>3 DEF IInv, Typed, TypeOK, Tables, trace_syscall_entering, modify_syscall
    <3>. QED
      BY <1>0a, <2>1, <2>2, <2>3, <3>1 DEF Pointed
  <2>4. CASE ~(exec_mode /\ ToRedirect(cur[p]) # {})
    <3>1. regs'[p] = regs[p] /\ regs[p] = Own
      BY <2>4 DEF IInv, PInv, Pointed, trace_syscall_entering, modify_syscall
    <3>. QED
      BY <2>1, <2>2, <2>4, <3>1 DEF Pointed
  <2>. QED
    BY <2>3, <2>4
<1>9. Viewed(p)'
  BY <1>0 DEF IInv, Typed, TypeOK, Tables, PInv, Viewed, trace_syscall_entering,
     modify_syscall, tcbs, context, modes, OwnCall
<1>10. Segment(p)'
  BY DEF IInv, Typed, TypeOK, Tables, PInv, Segment, trace_syscall_entering,
     modify_syscall, tcbs, context, modes, Live, AfterExecve
<1>11. Records(p)'
  <2>1. \A l \in 1 .. 2 : recorded[p][l] = 0
    BY DEF IInv, PInv, Records, OwnCall
  <2>2. /\ cur'[p] = cur[p] /\ exec_mode' = exec_mode /\ level'[p] = level[p]
        /\ level[p] \in 1 .. 2 /\ stage'[p] = "kernel" /\ ~setting_up_shm'[p]
    <3>1. cur'[p] = cur[p] /\ exec_mode' = exec_mode /\ level'[p] = level[p]
      BY DEF trace_syscall_entering, modify_syscall, modes, context
    <3>2. level[p] \in 1 .. 2 /\ setting_up_shm' = setting_up_shm
      BY DEF IInv, Typed, TypeOK, trace_syscall_entering, modify_syscall, tcbs
    <3>3. stage'[p] = "kernel"
      BY DEF IInv, Typed, TypeOK, trace_syscall_entering
    <3>. QED
      BY <1>0, <3>1, <3>2, <3>3
  <2>3. CASE ~exec_mode /\ cur[p].op = "exec"
    <3>1. recorded' = [recorded EXCEPT ![p][level[p]] = 1]
      <4>1. recorded[p][level[p]] + 1 = 1
        BY <2>1, <2>2, SMT
      <4>. QED
        BY <1>0b, <2>3, <4>1
    <3>2. recorded \in [Pids -> [1 .. 2 -> Nat]] /\ 1 \in Nat
      BY DEF IInv, Typed, TypeOK
    <3>3. recorded'[p][level[p]] = 1 /\ \A l \in 1 .. 2 : l # level[p] => recorded'[p][l] = 0
      BY <2>1, <2>2, <3>1, <3>2, Level, SMT
    <3>. QED
      BY <2>2, <3>3 DEF Records, OwnCall
  <2>4. CASE ~(~exec_mode /\ cur[p].op = "exec")
    BY <1>0b, <2>1, <2>2, <2>4 DEF Records, OwnCall
  <2>. QED
    BY <2>3, <2>4
<1>. QED
  BY <1>1, <1>2, <1>3, <1>4, <1>5, <1>6, <1>7, <1>8, <1>9, <1>10, <1>11,
     StepKeeps DEF PInv, Typed

\* A nested tracer is detached.
LEMMA DetachKeeps ==
  ASSUME IInv, NEW p \in Pids, over = "no",
         stage[p] = "enter", DetachTracer(p)
  PROVE  IInv'
<1>1. TypeOK'
  BY OwnType, IdleType, SMT DEF IInv, Typed, TypeOK, Stages, DetachTracer, free_tcb, Forget,
     tcbs, context, modes
<1>2. Tables'
  BY DEF IInv, Typed, Tables, DetachTracer, free_tcb, Forget, tcbs, context, modes
<1>3. StepOf(p)
  BY DEF IInv, Typed, TypeOK, Tables, StepOf, Same, DetachTracer, free_tcb, Forget, tcbs,
     context, modes
<1>4. InStep(p)'
  BY DEF IInv, Typed, TypeOK, Tables, PInv, InStep, DetachTracer, free_tcb, Forget, tcbs,
     context, modes
<1>5. SetUp(p)'
  BY ShmatIsNoCall, SMT DEF IInv, Typed, TypeOK, Tables, PInv, SetUp, DetachTracer, free_tcb,
     Forget, tcbs, context, modes
<1>6. InRegisters(p)'
  BY DEF IInv, Typed, TypeOK, Tables, PInv, InRegisters, DetachTracer, free_tcb, Forget,
     tcbs, context, modes, OwnCall
<1>7. Backed(p)'
  BY DEF IInv, Typed, TypeOK, Tables, PInv, Backed, DetachTracer, free_tcb, Forget, tcbs,
     context, modes
<1>8. Pointed(p)'
  BY DEF IInv, Typed, TypeOK, Tables, PInv, Pointed, DetachTracer, free_tcb, Forget,
     tcbs, context, modes, OwnCall
<1>9. Viewed(p)'
  BY DEF IInv, Typed, TypeOK, Tables, PInv, Viewed, DetachTracer, free_tcb, Forget, tcbs,
     context, modes, OwnCall
<1>10. Segment(p)'
  BY DEF IInv, Typed, TypeOK, Tables, PInv, Segment, DetachTracer, free_tcb, Forget,
     tcbs, context, modes, Live, AfterExecve
<1>11. Records(p)'
  BY IdleType DEF IInv, Typed, TypeOK, Tables, PInv, Records, DetachTracer, free_tcb,
     Forget, tcbs, context, modes, OwnCall
<1>. QED
  BY <1>1, <1>2, <1>3, <1>4, <1>5, <1>6, <1>7, <1>8, <1>9, <1>10, <1>11,
     StepKeeps DEF PInv, Typed

\* At the exit of the injected shmat, finish_setup_shmat restores the call.
LEMMA FinishKeeps ==
  ASSUME IInv, NEW p \in Pids, over = "no",
         Stopped(p), insyscall[p], setting_up_shm[p], trace_syscall_exiting(p)
  PROVE  IInv'
<1>0. stage[p] = "leave" /\ cur[p].op # "exec" /\ (rval[p] = "ok" => attached[p])
  BY ShmatIsNoCall DEF Stopped, IInv, PInv, SetUp, InStep
<1>0a. again' = [again EXCEPT ![p][level[p]] = saved_regs[p]]
  BY DEF trace_syscall_exiting, finish_setup_shmat
<1>1. TypeOK'
  <2>1. /\ exec_mode' \in BOOLEAN /\ emu' \subseteq Pids /\ personality' \in BOOLEAN
        /\ insyscall' \in [Pids -> BOOLEAN] /\ attached' \in [Pids -> BOOLEAN]
        /\ over' \in {"no", "abort", "lost"} /\ nsignals' \in 0 .. MaxSignals
    BY DEF IInv, Typed, TypeOK, Stages, trace_syscall_exiting, finish_setup_shmat,
       Forget, tcbs, context, modes
  <2>2. /\ childshm' \in [Pids -> {Null, "segment", "error"}]
        /\ setting_up_shm' \in [Pids -> BOOLEAN]
        /\ saved_regs' \in [Pids -> Calls \cup {NoCall}]
    BY <1>0 DEF IInv, Typed, TypeOK, Stages, trace_syscall_exiting, finish_setup_shmat,
       Forget, tcbs, context, modes
  <2>3. /\ cur' \in [Pids -> Calls \cup {NoCall, Shmat}] /\ stage' \in [Pids -> Stages]
        /\ rval' \in [Pids -> {"ok", "error"}] /\ level' \in [Pids -> 1 .. 2]
    BY <1>0 DEF IInv, Typed, TypeOK, Stages, trace_syscall_exiting, finish_setup_shmat,
       Forget, tcbs, context, modes
  <2>4. regs' \in [Pids -> [Registers -> 0 .. 2]]
    BY OwnType DEF IInv, Typed, TypeOK, Stages, trace_syscall_exiting,
       finish_setup_shmat, Forget, tcbs, context, modes
  <2>5. again' \in [Pids -> [1 .. 2 -> Calls \cup {NoCall}]]
    <3>1. /\ level[p] \in 1 .. 2 /\ saved_regs[p] \in Calls \cup {NoCall}
          /\ again \in [Pids -> [1 .. 2 -> Calls \cup {NoCall}]]
      BY DEF IInv, Typed, TypeOK
    <3>. QED
      BY <1>0a, <3>1, Level
  <2>6. pending' \in [Pids -> [1 .. 2 -> Calls \cup {NoCall}]]
    BY DEF IInv, Typed, TypeOK, Stages, trace_syscall_exiting, finish_setup_shmat,
       Forget, tcbs, context, modes
  <2>7. recorded' \in [Pids -> [1 .. 2 -> Nat]]
    BY DEF IInv, Typed, TypeOK, Stages, trace_syscall_exiting, finish_setup_shmat,
       Forget, tcbs, context, modes
  <2>. QED
    BY <2>1, <2>2, <2>3, <2>4, <2>5, <2>6, <2>7 DEF TypeOK
<1>2. Tables'
  BY DEF IInv, Typed, Tables, trace_syscall_exiting, finish_setup_shmat, Forget,
     tcbs, context, modes
<1>3. StepOf(p)
  BY <1>0 DEF IInv, Typed, TypeOK, Tables, StepOf, Same, trace_syscall_exiting,
     finish_setup_shmat, Forget, tcbs, context, modes
<1>4. InStep(p)'
  BY <1>0 DEF IInv, Typed, TypeOK, Tables, PInv, InStep, trace_syscall_exiting,
     finish_setup_shmat, Forget, tcbs, context, modes
<1>5. SetUp(p)'
  BY ShmatIsNoCall, SMT DEF IInv, Typed, TypeOK, Tables, PInv, SetUp, trace_syscall_exiting,
     finish_setup_shmat, Forget, tcbs, context, modes
<1>6. InRegisters(p)'
  BY <1>0 DEF IInv, Typed, TypeOK, Tables, PInv, InRegisters, trace_syscall_exiting,
     finish_setup_shmat, Forget, tcbs, context, modes, OwnCall
<1>7. Backed(p)'
  <2>1. /\ stage'[p] \in {"user", "trap"} /\ pending' = pending /\ level' = level
        /\ again'[p] \in [1 .. 2 -> Calls \cup {NoCall}]
        /\ pending[p] \in [1 .. 2 -> Calls \cup {NoCall}]
    <3>1. TypeOK /\ stage \in [Pids -> Stages]
      BY DEF IInv, Typed, TypeOK
    <3>. QED
      BY <1>0, <1>1, <3>1 DEF TypeOK, trace_syscall_exiting
  <2>2. ASSUME NEW l \in 1 .. 2 PROVE again'[p][l] = pending[p][l]
    <3>1. /\ level[p] \in 1 .. 2 /\ saved_regs[p] \in Calls \cup {NoCall}
          /\ again \in [Pids -> [1 .. 2 -> Calls \cup {NoCall}]]
      BY DEF IInv, Typed, TypeOK
    <3>2. saved_regs[p] = pending[p][level[p]]
      BY <1>0 DEF IInv, PInv, SetUp
    <3>3. l # level[p] => again[p][l] = pending[p][l]
      BY DEF IInv, PInv, Backed
    <3>4. /\ again'[p][level[p]] = saved_regs[p]
          /\ \A k \in 1 .. 2 : k # level[p] => again'[p][k] = again[p][k]
      BY <1>0a, <3>1, Level, SMT
    <3>. QED
      BY <3>2, <3>3, <3>4
  <2>3. again'[p] = pending[p]
    BY <2>1, <2>2, SameLevels, SMT
  <2>. QED
    BY <2>1, <2>2, <2>3 DEF Backed
<1>8. Pointed(p)'
  BY <1>0 DEF IInv, Typed, TypeOK, Tables, PInv, Pointed, trace_syscall_exiting,
     finish_setup_shmat, Forget, tcbs, context, modes, OwnCall
<1>9. Viewed(p)'
  BY <1>0 DEF IInv, Typed, TypeOK, Tables, PInv, Viewed, trace_syscall_exiting,
     finish_setup_shmat, Forget, tcbs, context, modes, OwnCall
<1>10. Segment(p)'
  BY <1>0 DEF IInv, Typed, TypeOK, Tables, PInv, Segment, trace_syscall_exiting,
     finish_setup_shmat, Forget, tcbs, context, modes, Live, AfterExecve
<1>11. Records(p)'
  BY <1>0, SMT DEF IInv, Typed, TypeOK, Tables, PInv, Records, trace_syscall_exiting,
     finish_setup_shmat, Forget, tcbs, context, modes, OwnCall
<1>. QED
  BY <1>1, <1>2, <1>3, <1>4, <1>5, <1>6, <1>7, <1>8, <1>9, <1>10, <1>11,
     StepKeeps DEF PInv, Typed

\* At the exit of a call of the program, its handler runs.
LEMMA ExitKeeps ==
  ASSUME IInv, NEW p \in Pids, over = "no",
         Stopped(p), insyscall[p], ~setting_up_shm[p], trace_syscall_exiting(p)
  PROVE  IInv'
<1>0. stage[p] = "leave" /\ cur[p] \in Calls /\ pending[p][level[p]] = NoCall
  BY DEF Stopped, IInv, PInv, InStep, InRegisters, OwnCall
<1>0a. recorded' = [recorded EXCEPT ![p][level[p]] = 0]
  BY DEF trace_syscall_exiting
<1>1. TypeOK'
  <2>1. /\ exec_mode' \in BOOLEAN /\ emu' \subseteq Pids /\ personality' \in BOOLEAN
        /\ insyscall' \in [Pids -> BOOLEAN] /\ attached' \in [Pids -> BOOLEAN]
        /\ over' \in {"no", "abort", "lost"} /\ nsignals' \in 0 .. MaxSignals
    BY DEF IInv, Typed, TypeOK, Stages, trace_syscall_exiting, CDE_end_execve, Forget,
       tcbs, context, modes
  <2>2. /\ childshm' \in [Pids -> {Null, "segment", "error"}]
        /\ setting_up_shm' \in [Pids -> BOOLEAN]
        /\ saved_regs' \in [Pids -> Calls \cup {NoCall}]
    BY DEF IInv, Typed, TypeOK, Stages, trace_syscall_exiting, CDE_end_execve, Forget,
       tcbs, context, modes
  <2>3. /\ cur' \in [Pids -> Calls \cup {NoCall, Shmat}] /\ stage' \in [Pids -> Stages]
        /\ rval' \in [Pids -> {"ok", "error"}] /\ level' \in [Pids -> 1 .. 2]
    BY DEF IInv, Typed, TypeOK, Stages, trace_syscall_exiting, CDE_end_execve, Forget,
       tcbs, context, modes
  <2>4. regs' \in [Pids -> [Registers -> 0 .. 2]]
    BY OwnType DEF IInv, Typed, TypeOK, Stages, trace_syscall_exiting, CDE_end_execve,
       Forget, tcbs, context, modes
  <2>5. again' \in [Pids -> [1 .. 2 -> Calls \cup {NoCall}]]
    BY DEF IInv, Typed, TypeOK, Stages, trace_syscall_exiting, CDE_end_execve, Forget,
       tcbs, context, modes
  <2>6. pending' \in [Pids -> [1 .. 2 -> Calls \cup {NoCall}]]
    BY DEF IInv, Typed, TypeOK, Stages, trace_syscall_exiting, CDE_end_execve, Forget,
       tcbs, context, modes
  <2>7. recorded' \in [Pids -> [1 .. 2 -> Nat]]
    <3>1. level[p] \in 1 .. 2 /\ recorded \in [Pids -> [1 .. 2 -> Nat]] /\ 0 \in Nat
      BY DEF IInv, Typed, TypeOK
    <3>. QED
      BY <1>0a, <3>1, Level
  <2>. QED
    BY <2>1, <2>2, <2>3, <2>4, <2>5, <2>6, <2>7 DEF TypeOK
<1>2. Tables'
  BY DEF IInv, Typed, Tables, trace_syscall_exiting, CDE_end_execve, Forget, tcbs,
     context, modes
<1>3. StepOf(p)
  BY DEF IInv, Typed, TypeOK, Tables, StepOf, Same, trace_syscall_exiting,
     CDE_end_execve, Forget, tcbs, context, modes
<1>4. InStep(p)'
  BY DEF IInv, Typed, TypeOK, Tables, PInv, InStep, trace_syscall_exiting,
     CDE_end_execve, Forget, tcbs, context, modes
<1>5. SetUp(p)'
  BY ShmatIsNoCall DEF IInv, Typed, TypeOK, Tables, PInv, SetUp, trace_syscall_exiting,
     CDE_end_execve, Forget, tcbs, context, modes
<1>6. InRegisters(p)'
  BY DEF IInv, Typed, TypeOK, Tables, PInv, InRegisters, trace_syscall_exiting,
     CDE_end_execve, Forget, tcbs, context, modes, OwnCall
<1>7. Backed(p)'
  <2>1. /\ stage'[p] \in {"user", "trap"} /\ pending' = pending /\ level' = level
        /\ again'[p] \in [1 .. 2 -> Calls \cup {NoCall}]
        /\ pending[p] \in [1 .. 2 -> Calls \cup {NoCall}]
    <3>1. TypeOK /\ stage \in [Pids -> Stages]
      BY DEF IInv, Typed, TypeOK
    <3>. QED
      BY <1>0, <1>1, <3>1 DEF TypeOK, trace_syscall_exiting
  <2>2. ASSUME NEW l \in 1 .. 2 PROVE again'[p][l] = pending[p][l]
    BY <1>0, SMT DEF IInv, PInv, Backed, trace_syscall_exiting
  <2>3. again'[p] = pending[p]
    BY <2>1, <2>2, SameLevels, SMT
  <2>. QED
    BY <2>1, <2>2, <2>3 DEF Backed
<1>8. Pointed(p)'
  BY DEF IInv, Typed, TypeOK, Tables, PInv, Pointed, trace_syscall_exiting,
     CDE_end_execve, Forget, tcbs, context, modes, OwnCall
<1>9. Viewed(p)'
  BY DEF IInv, Typed, TypeOK, Tables, PInv, Viewed, trace_syscall_exiting,
     CDE_end_execve, Forget, tcbs, context, modes, OwnCall
<1>10. Segment(p)'
  <2>1. CASE cur[p].op = "exec"
    <3>1. exec_mode => childshm'[p] = Null
      BY <2>1 DEF IInv, Typed, TypeOK, trace_syscall_exiting, CDE_end_execve
    <3>2. exec_mode' = exec_mode
      BY DEF trace_syscall_exiting, modes
    <3>. QED
      BY <3>1, <3>2, NoneAssumption DEF Segment
  <2>2. CASE cur[p].op # "exec"
    <3>1. childshm' = childshm /\ attached' = attached /\ exec_mode' = exec_mode
      BY <2>2 DEF trace_syscall_exiting, modes
    <3>2. exec_mode /\ childshm[p] = "segment" => attached[p]
      BY <1>0, <2>2 DEF IInv, PInv, Segment, Live, AfterExecve
    <3>. QED
      BY <3>1, <3>2 DEF Segment
  <2>. QED
    BY <2>1, <2>2
<1>11. Records(p)'
  <2>1. level[p] \in 1 .. 2 /\ recorded \in [Pids -> [1 .. 2 -> Nat]] /\ 0 \in Nat
    BY DEF IInv, Typed, TypeOK
  <2>2. \A l \in 1 .. 2 : l # level[p] => recorded[p][l] = 0
    BY DEF IInv, PInv, Records
  <2>3. \A l \in 1 .. 2 : recorded'[p][l] = 0
    BY <1>0a, <2>1, <2>2, Level, SMT
  <2>4. stage'[p] \in {"user", "trap"}
    BY DEF IInv, Typed, TypeOK, trace_syscall_exiting
  <2>. QED
    BY <2>3, <2>4 DEF Records, OwnCall
<1>. QED
  BY <1>1, <1>2, <1>3, <1>4, <1>5, <1>6, <1>7, <1>8, <1>9, <1>10, <1>11,
     StepKeeps DEF PInv, Typed

\* The stop after a successful execve is ignored.
LEMMA StrayKeeps ==
  ASSUME IInv, NEW p \in Pids, over = "no",
         Stopped(p), ~insyscall[p], stage[p] # "enter", StrayExit(p)
  PROVE  IInv'
<1>0. stage[p] = "trap"
  BY DEF Stopped, IInv, PInv, InStep
<1>1. TypeOK'
  BY DEF IInv, Typed, TypeOK, Stages, StrayExit, tcbs, context, modes
<1>2. Tables'
  BY DEF IInv, Typed, Tables, StrayExit, tcbs, context, modes
<1>3. StepOf(p)
  BY DEF IInv, Typed, TypeOK, Tables, StepOf, Same, StrayExit, tcbs, context, modes
<1>4. InStep(p)'
  BY <1>0 DEF IInv, Typed, TypeOK, Tables, PInv, InStep, StrayExit, tcbs, context, modes
<1>5. SetUp(p)'
  BY <1>0 DEF IInv, Typed, TypeOK, Tables, PInv, SetUp, StrayExit, tcbs, context, modes
<1>6. InRegisters(p)'
  BY <1>0 DEF IInv, Typed, TypeOK, Tables, PInv, InRegisters, StrayExit, tcbs, context,
     modes, OwnCall
<1>7. Backed(p)'
  BY <1>0 DEF IInv, Typed, TypeOK, Tables, PInv, Backed, StrayExit, tcbs, context, modes
<1>8. Pointed(p)'
  BY <1>0 DEF IInv, Typed, TypeOK, Tables, PInv, Pointed, StrayExit, tcbs, context,
     modes, OwnCall
<1>9. Viewed(p)'
  BY <1>0 DEF IInv, Typed, TypeOK, Tables, PInv, Viewed, StrayExit, tcbs, context, modes,
     OwnCall
<1>10. Segment(p)'
  BY <1>0 DEF IInv, Typed, TypeOK, Tables, PInv, Segment, StrayExit, tcbs, context,
     modes, Live, AfterExecve
<1>11. Records(p)'
  BY <1>0 DEF IInv, Typed, TypeOK, Tables, PInv, Records, StrayExit, tcbs, context,
     modes, OwnCall
<1>. QED
  BY <1>1, <1>2, <1>3, <1>4, <1>5, <1>6, <1>7, <1>8, <1>9, <1>10, <1>11,
     StepKeeps DEF PInv, Typed

\* The tracer ends at an assertion, or is lost.
LEMMA EndsKeeps ==
  ASSUME IInv, NEW p \in Pids, Ends(p)
  PROVE  IInv'
<1>1. stage[p] = "leave" /\ (setting_up_shm[p] => cur[p] = Shmat)
  BY DEF Ends, Stopped, IInv, PInv, InStep, SetUp
<1>2. Typed'
  BY DEF Ends, IInv, Typed, TypeOK, Tables, tcbs, context, modes
<1>3. ASSUME NEW r \in Pids PROVE PInv(r)'
  <2>1. Same(r) /\ exec_mode' = exec_mode /\ emu' = emu
    BY DEF Ends, Same, tcbs, context, modes
  <2>. QED
    BY <2>1, Frame DEF IInv
<1>4. ASSUME NEW r \in Pids PROVE Sizes(r)'
  BY DEF Ends, IInv, Sizes, modes
<1>5. AbortOnlyOnFailure'
  <2>1. CASE over' = "abort" /\ setting_up_shm[p] /\ (p \in emu) # personality
    BY <1>1, <2>1 DEF Ends, IInv, Sizes, AbortOnlyOnFailure, tcbs, context, modes
  <2>2. CASE over' = "abort" /\ setting_up_shm[p] /\ (p \in emu) = personality
    BY <1>1, <2>2 DEF Ends, FinishAsserts, IInv, Typed, TypeOK, AbortOnlyOnFailure, tcbs,
       context, modes
  <2>3. CASE over' # "abort"
    BY <2>3 DEF AbortOnlyOnFailure
  <2>. QED
    BY <2>1, <2>2, <2>3 DEF Ends
<1>. QED
  BY <1>2, <1>3, <1>4, <1>5 DEF IInv
-----------------------------------------------------------------------------
\* The initial states, which alloc_tcb_cde_fields leaves.
LEMMA InitInv == ASSUME Init PROVE IInv
<1>1. Typed
  <2>1. emu \subseteq Pids /\ 0 \in 0 .. MaxSignals
    BY PidsAssumption, SMT DEF Init
  <2>2. Idle \in [1 .. 2 -> Calls \cup {NoCall}] /\ NoneRecorded \in [1 .. 2 -> Nat]
    BY DEF Idle, NoneRecorded
  <2>3. TypeOK
    <3>1. /\ insyscall \in [Pids -> BOOLEAN] /\ setting_up_shm \in [Pids -> BOOLEAN]
          /\ attached \in [Pids -> BOOLEAN] /\ exec_mode \in BOOLEAN /\ personality \in BOOLEAN
      BY DEF Init
    <3>2. stage \in [Pids -> Stages] /\ rval \in [Pids -> {"ok", "error"}]
      BY DEF Init, Stages
    <3>3. /\ childshm \in [Pids -> {Null, "segment", "error"}]
          /\ saved_regs \in [Pids -> Calls \cup {NoCall}]
          /\ cur \in [Pids -> Calls \cup {NoCall, Shmat}]
      BY DEF Init
    <3>4. regs \in [Pids -> [Registers -> 0 .. 2]] /\ level \in [Pids -> 1 .. 2]
      BY OwnType, SMT DEF Init
    <3>5. /\ again \in [Pids -> [1 .. 2 -> Calls \cup {NoCall}]]
          /\ pending \in [Pids -> [1 .. 2 -> Calls \cup {NoCall}]]
          /\ recorded \in [Pids -> [1 .. 2 -> Nat]]
      BY <2>2 DEF Init
    <3>6. nsignals \in 0 .. MaxSignals /\ over \in {"no", "abort", "lost"}
      BY <2>1 DEF Init
    <3>. QED
      BY <2>1, <3>1, <3>2, <3>3, <3>4, <3>5, <3>6 DEF TypeOK
  <2>4. Tables
    BY DEF Init, Tables
  <2>. QED
    BY <2>3, <2>4 DEF Typed
<1>2. ASSUME NEW p \in Pids PROVE PInv(p)
  <2>. /\ stage[p] \in {"user", "unused"} /\ ~insyscall[p] /\ ~setting_up_shm[p] /\ cur[p] = NoCall
       /\ childshm[p] = Null /\ again[p] = Idle /\ pending[p] = Idle /\ view[p] = <<>>
       /\ recorded[p] = NoneRecorded
    BY DEF Init
  <2>1. InStep(p) /\ Backed(p) /\ Viewed(p)
    BY DEF InStep, Backed, Viewed
  <2>2. SetUp(p) /\ Segment(p)
    BY ShmatIsNoCall, NoneAssumption DEF SetUp, Segment
  <2>3. InRegisters(p) /\ Pointed(p) /\ Records(p)
    BY DEF InRegisters, Pointed, Records, OwnCall, NoneRecorded
  <2>. QED
    BY <2>1, <2>2, <2>3 DEF PInv
<1>3. ASSUME NEW p \in Pids PROVE Sizes(p)
  BY DEF Init, Sizes
<1>4. AbortOnlyOnFailure
  BY DEF Init, AbortOnlyOnFailure
<1>. QED
  BY <1>1, <1>2, <1>3, <1>4 DEF IInv

\* Nothing happens.
LEMMA StutterKeeps == ASSUME IInv, UNCHANGED vars PROVE IInv'
<1>1. Typed'
  BY DEF IInv, Typed, TypeOK, Tables, vars
<1>2. ASSUME NEW p \in Pids PROVE PInv(p)'
  <2>1. Same(p) /\ exec_mode' = exec_mode /\ emu' = emu
    BY DEF Same, vars
  <2>. QED
    BY <2>1, Frame DEF IInv
<1>3. ASSUME NEW p \in Pids PROVE Sizes(p)'
  BY DEF IInv, Sizes, vars
<1>4. AbortOnlyOnFailure'
  BY DEF IInv, AbortOnlyOnFailure, vars
<1>. QED
  BY <1>1, <1>2, <1>3, <1>4 DEF IInv

\* A stop that the tracer handles.
LEMMA TraceSyscallKeeps ==
  ASSUME IInv, NEW p \in Pids, over = "no", trace_syscall(p)
  PROVE  IInv'
<1>1. CASE ~insyscall[p] /\ stage[p] = "enter" /\ trace_syscall_entering(p)
  BY <1>1, InjectKeeps, ModifyKeeps
<1>2. CASE stage[p] = "enter" /\ DetachTracer(p)
  BY <1>2, DetachKeeps
<1>3. CASE ~insyscall[p] /\ stage[p] # "enter" /\ StrayExit(p)
  BY <1>3, StrayKeeps DEF trace_syscall
<1>4. CASE insyscall[p] /\ trace_syscall_exiting(p)
  BY <1>4, FinishKeeps, ExitKeeps DEF trace_syscall
<1>. QED
  BY <1>1, <1>2, <1>3, <1>4 DEF trace_syscall

\* Every step keeps the invariant.
LEMMA NextKeeps == ASSUME IInv, [Next]_vars PROVE IInv'
<1>1. ASSUME NEW p \in Pids, Proceed(p) PROVE IInv'
  BY <1>1, TraceSyscallKeeps, EndsKeeps, AttachKeeps, AttachFailsKeeps, PerformKeeps,
     BecomeKeeps,
     RepeatKeeps DEF Proceed, Kernel
<1>2. ASSUME NEW p \in Pids, over = "no", Program(p) PROVE IInv'
  BY <1>2, IssueKeeps, SignalKeeps, SigReturnKeeps, ForkKeeps, KillKeeps DEF Program
<1>3. ASSUME NEW p \in Pids, over = "no", Reap(p) PROVE IInv'
  BY <1>3, ReapKeeps
<1>4. CASE Ended \/ UNCHANGED vars
  BY <1>4, StutterKeeps DEF Ended
<1>. QED
  BY <1>1, <1>2, <1>3, <1>4 DEF Next

\* The inductive invariant holds in every reachable state.
THEOREM Invariance == Spec => []IInv
<1>. QED
  BY InitInv, NextKeeps, PTL DEF Spec

\* The types of the tracer's fields and of the processes' state, for any number of
\* processes and signals.
THEOREM TypeCorrect == Spec => []TypeOK
<1>1. IInv => TypeOK
  BY DEF IInv, Typed
<1>. QED
  BY <1>1, Invariance, PTL

\* The address that modify_syscall writes into registers is that of an attached segment.
THEOREM AttachedWhereWritten == Spec => []SegmentAttached
<1>1. IInv => SegmentAttached
  BY DEF IInv, PInv, Segment, SegmentAttached, Live
<1>. QED
  BY <1>1, Invariance, PTL

\* The handler of an execve that is run twice records it once.
THEOREM ExecveRecordedOnce == Spec => []RecordedOnce
<1>1. IInv => RecordedOnce
  <2>. SUFFICES ASSUME IInv, NEW p \in Pids, ~exec_mode, stage[p] = "kernel", cur[p].op = "exec"
                PROVE  recorded[p][level[p]] = 1
    BY DEF RecordedOnce
  <2>1. OwnCall(p)
    BY ShmatIsNoCall DEF IInv, PInv, SetUp, OwnCall
  <2>. QED
    BY <2>1 DEF IInv, PInv, Records
<1>. QED
  BY <1>1, Invariance, PTL

\* The assertions of finish_setup_shmat fail only for a failed shmat of a 32-bit process,
\* or for programs of both word sizes.
THEOREM AbortsExplained == Spec => []AbortOnlyOnFailure
<1>1. IInv => AbortOnlyOnFailure
  BY DEF IInv
<1>. QED
  BY <1>1, Invariance, PTL
-----------------------------------------------------------------------------
SNext == Service!Next \/ UNCHANGED Service!svars

\* A step that changes nothing of what the program sees.
LEMMA Unseen ==
  ASSUME UNCHANGED modes, UNCHANGED <<pending, level, view, childshm>>
  PROVE  SNext
  BY DEF SNext, Service!svars, modes

\* A call is made.
LEMMA IssueServes ==
  ASSUME IInv, NEW p \in Pids, NEW c \in Calls, Issue(p, c)
  PROVE  SNext
<1>1. pending[p][level[p]] = NoCall
  BY DEF Issue, IInv, PInv, Backed
<1>2. Service!Issue(p, c)
  BY <1>1 DEF Issue, Enter, tcbs, Service!Issue
<1>. QED
  BY <1>2 DEF SNext, Service!Next, Issue, Enter, modes

\* A signal handler starts or returns.
LEMMA HandlerServes ==
  ASSUME IInv, NEW p \in Pids, Signal(p) \/ SigReturn(p)
  PROVE  SNext
<1>1. CASE Signal(p)
  BY <1>1 DEF SNext, Service!Next, Service!Interrupt, Signal, tcbs, modes
<1>2. CASE SigReturn(p)
  <2>1. pending[p][2] = NoCall
    BY <1>2 DEF SigReturn, IInv, PInv, Backed
  <2>. QED
    BY <1>2, <2>1 DEF SNext, Service!Next, Service!HandlerReturn, SigReturn, tcbs, modes
<1>. QED
  BY <1>1, <1>2

\* A process is created.
LEMMA ForkServes ==
  ASSUME IInv, NEW p \in Pids, NEW q \in Pids, Fork(p, q)
  PROVE  SNext
<1>1. p # q /\ pending[p][level[p]] = NoCall
  BY DEF Fork, IInv, PInv, Backed
<1>2. {r \in Pids : childshm'[r] = "error"} = {r \in Pids : childshm[r] = "error"} \ {q}
  BY NoneAssumption DEF Fork, IInv, Typed, TypeOK
<1>3. Service!Spawn(p, q)
  BY <1>1, <1>2 DEF Fork, Service!Spawn
<1>. QED
  BY <1>1, <1>3 DEF SNext, Service!Next, Fork, modes

\* The kernel performs the pending call and reads the promised paths.
LEMMA CallServes ==
  ASSUME IInv, NEW p \in Pids, Perform(p) \/ Become(p)
  PROVE  SNext
<1>1. stage[p] = "kernel" /\ cur[p] # Shmat
  BY ShmatIsNoCall DEF Perform, Become
<1>2. OwnCall(p)
  BY <1>1 DEF IInv, PInv, SetUp, OwnCall
<1>3. cur[p] \in Calls /\ cur[p] = pending[p][level[p]] /\ cur[p] # NoCall
  BY <1>1, <1>2, NoneAssumption DEF IInv, PInv, InRegisters
<1>4. Read(p, cur[p]) = Service!Read(p, cur[p])
  BY <1>1, <1>2, ReadsPromised DEF Service!Read
<1>5. UNCHANGED modes /\ UNCHANGED childshm
  BY DEF Perform, Become, Performed, tcbs
<1>6. CASE Perform(p)
  <2>1. Service!Perform(p)
    BY <1>3, <1>4, <1>5, <1>6 DEF Service!Perform, Perform
  <2>. QED
    BY <1>5, <2>1 DEF SNext, Service!Next, modes
<1>7. CASE Become(p)
  <2>1. Service!Become(p)
    BY <1>3, <1>4, <1>5, <1>7 DEF Service!Become, Become, Service!Idle, Idle
  <2>. QED
    BY <1>5, <2>1 DEF SNext, Service!Next, modes
<1>. QED
  BY <1>6, <1>7

\* A process is killed, or let go with its execve of a tracer.
LEMMA DeathServes ==
  ASSUME IInv, NEW p \in Pids, Kill(p) \/ (stage[p] = "enter" /\ DetachTracer(p))
  PROVE  SNext
<1>1. CASE Kill(p)
  <2>1. Service!Die(p)
    BY <1>1 DEF Kill, Forget, Service!Die, Service!Idle, Idle
  <2>. QED
    BY <1>1, <2>1 DEF SNext, Service!Next, Kill, modes
<1>2. CASE DetachTracer(p)
  <2>1. {r \in Pids : childshm'[r] = "error"} = {r \in Pids : childshm[r] = "error"} \ {p}
    BY <1>2, NoneAssumption DEF DetachTracer, free_tcb, IInv, Typed, TypeOK
  <2>2. Service!Die(p)
    BY <1>2, <2>1 DEF DetachTracer, free_tcb, Forget, Service!Die, Service!Idle, Idle
  <2>. QED
    BY <1>2, <2>2 DEF SNext, Service!Next, DetachTracer, modes
<1>. QED
  BY <1>1, <1>2

\* An entry is freed.
LEMMA ReapServes ==
  ASSUME IInv, NEW p \in Pids, Reap(p)
  PROVE  SNext
<1>1. {r \in Pids : childshm'[r] = "error"} = {r \in Pids : childshm[r] = "error"} \ {p}
  BY NoneAssumption DEF Reap, free_tcb, IInv, Typed, TypeOK
<1>2. view[p] = <<>> /\ view = [r \in Pids |-> view[r]]
  BY DEF Reap, IInv, Typed, Tables, PInv, Viewed, OwnCall
<1>3. view' = view
  BY <1>2 DEF Reap, free_tcb, Forget
<1>4. Service!Renew(p)
  BY <1>1, <1>3 DEF Service!Renew, Reap
<1>. QED
  BY <1>4 DEF SNext, Service!Next, Reap, modes

\* The set-up ends: the program does not see it, except for a segment that could not be attached.
LEMMA FinishServes ==
  ASSUME IInv, NEW p \in Pids, Stopped(p), insyscall[p], setting_up_shm[p], trace_syscall_exiting(p)
  PROVE  SNext
<1>1. view[p] = <<>> /\ view = [r \in Pids |-> view[r]]
  BY DEF IInv, Typed, Tables, PInv, Viewed, OwnCall
<1>2. view' = view
  BY <1>1 DEF trace_syscall_exiting, Forget
<1>3. childshm' = [childshm EXCEPT ![p] = IF rval[p] = "ok" THEN "segment" ELSE "error"]
  BY DEF trace_syscall_exiting, finish_setup_shmat
<1>4. UNCHANGED modes /\ UNCHANGED <<pending, level>>
  BY DEF trace_syscall_exiting
<1>5. CASE rval[p] = "ok"
  <2>1. {r \in Pids : childshm'[r] = "error"} = {r \in Pids : childshm[r] = "error"} \ {p}
    BY <1>3, <1>5 DEF IInv, Typed, TypeOK
  <2>2. Service!Renew(p)
    BY <1>2, <1>4, <2>1 DEF Service!Renew
  <2>. QED
    BY <1>4, <2>2 DEF SNext, Service!Next, modes
<1>6. CASE rval[p] # "ok"
  <2>1. {r \in Pids : childshm'[r] = "error"} = {r \in Pids : childshm[r] = "error"} \cup {p}
    BY <1>3, <1>6 DEF IInv, Typed, TypeOK
  <2>2. Service!Break(p)
    BY <1>2, <1>4, <2>1 DEF Service!Break
  <2>. QED
    BY <1>4, <2>2 DEF SNext, Service!Next, modes
<1>. QED
  BY <1>5, <1>6

\* A call returns.
LEMMA ExitServes ==
  ASSUME IInv, NEW p \in Pids, Stopped(p), insyscall[p], ~setting_up_shm[p],
         trace_syscall_exiting(p)
  PROVE  SNext
<1>1. pending[p][level[p]] = NoCall
  BY DEF Stopped, IInv, PInv, InStep, InRegisters, OwnCall
<1>2. childshm' = childshm \/ childshm' = [childshm EXCEPT ![p] = Null]
  BY DEF trace_syscall_exiting, CDE_end_execve
<1>3. {r \in Pids : childshm'[r] = "error"} \in
          {{r \in Pids : childshm[r] = "error"}, {r \in Pids : childshm[r] = "error"} \ {p}}
  <2>1. CASE childshm' = childshm
    BY <2>1
  <2>2. CASE childshm' = [childshm EXCEPT ![p] = Null]
    <3>1. {r \in Pids : childshm'[r] = "error"} = {r \in Pids : childshm[r] = "error"} \ {p}
      BY <2>2, NoneAssumption DEF IInv, Typed, TypeOK
    <3>. QED
      BY <3>1
  <2>. QED
    BY <1>2, <2>1, <2>2
<1>4. Service!Return(p)
  BY <1>1, <1>3 DEF Service!Return, trace_syscall_exiting, Forget
<1>. QED
  BY <1>4 DEF SNext, Service!Next, trace_syscall_exiting, modes

\* A stop that the tracer handles.
LEMMA TracerServes ==
  ASSUME IInv, NEW p \in Pids, trace_syscall(p)
  PROVE  SNext
<1>1. CASE trace_syscall_entering(p)
  <2>1. UNCHANGED modes /\ UNCHANGED <<pending, level, view, childshm>>
    BY <1>1 DEF trace_syscall_entering, context
  <2>. QED
    BY <2>1, Unseen
<1>2. CASE stage[p] = "enter" /\ DetachTracer(p)
  BY <1>2, DeathServes
<1>3. CASE StrayExit(p)
  <2>1. UNCHANGED modes /\ UNCHANGED <<pending, level, view, childshm>>
    BY <1>3 DEF StrayExit, context, tcbs
  <2>. QED
    BY <2>1, Unseen
<1>4. CASE insyscall[p] /\ trace_syscall_exiting(p)
  BY <1>4, FinishServes, ExitServes DEF trace_syscall
<1>. QED
  BY <1>1, <1>2, <1>3, <1>4 DEF trace_syscall

\* Every step is a step of the service, or is not seen.
LEMMA NextServes == ASSUME IInv, [Next]_vars PROVE SNext
<1>1. ASSUME NEW p \in Pids, Ends(p) \/ Attach(p) \/ AttachFails(p) \/ Repeat(p) PROVE SNext
  <2>1. UNCHANGED modes /\ UNCHANGED <<pending, level, view, childshm>>
    BY <1>1 DEF Ends, Attach, AttachFails, Performed, Repeat, Enter, tcbs, context
  <2>. QED
    BY <2>1, Unseen
<1>2. ASSUME NEW p \in Pids, Proceed(p) PROVE SNext
  BY <1>1, <1>2, TracerServes, CallServes DEF Proceed, Kernel
<1>3. ASSUME NEW p \in Pids, Program(p) PROVE SNext
  BY <1>3, IssueServes, HandlerServes, ForkServes, DeathServes DEF Program
<1>4. ASSUME NEW p \in Pids, Reap(p) PROVE SNext
  BY <1>4, ReapServes
<1>5. CASE Ended \/ UNCHANGED vars
  <2>1. UNCHANGED modes /\ UNCHANGED <<pending, level, view, childshm>>
    BY <1>5 DEF Ended, vars, modes
  <2>. QED
    BY <2>1, Unseen
<1>. QED
  BY <1>2, <1>3, <1>4, <1>5 DEF Next

\* The tracer implements the service: replacing a call by shmat and repeating it is
\* invisible, and the kernel reads the promised paths, for any processes, calls, paths
\* and signals.
THEOREM Implements == Spec => ServiceSpec
<1>1. Init => Service!Init
  BY PidsAssumption, NoneAssumption, SMT DEF Init, Service!Init, Service!Idle, Idle
<1>2. IInv /\ [Next]_vars => [Service!Next]_(Service!svars)
  BY NextServes DEF SNext
<1>. QED
  BY <1>1, <1>2, Invariance, PTL DEF Spec, ServiceSpec, Service!Spec
=============================================================================
