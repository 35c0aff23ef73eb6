--------------------------- MODULE TcbTableGroups ---------------------------
(***************************************************************************)
(* Lemmas on the thread groups in the table of traced processes: each      *)
(* function of the table keeps the counters of threads and of waiting      *)
(* threads exact, and each thread pointed to a process related to it;      *)
(* cleanup leaves no entry in use.                                         *)
(***************************************************************************)
EXTENDS TcbTableSteps

\* Most leaves are first-order reasoning about sets and functions: Zenon is tried first.
USE Zenon, SMTT(20)

\* The threads that point to an entry, and those of them that wait.
ThreadsOf(tb, q) == {r \in DOMAIN tb : tb[r].thread /\ tb[r].parent = q}
WaitingOf(tb, q) == {r \in DOMAIN tb : tb[r].thread /\ tb[r].parent = q /\ tb[r].suspended}

\* The counter of threads is exact, in entries not in use as well, and no waiting thread
\* is left out; an entry that threads point to is in use; a zombie has threads.
ThreadedEntry(tb, q) ==
    /\ tb[q].thread => tb[q].pid # NoPid
    /\ tb[q].nthreads = Cardinality(ThreadsOf(tb, q))
    /\ tb[q].nwaiting >= Cardinality(WaitingOf(tb, q))
    /\ tb[q].nzombies >= 0
    /\ ThreadsOf(tb, q) # {} => tb[q].pid # NoPid
    /\ tb[q].exiting => ThreadsOf(tb, q) # {}

Threaded(tb) == \A q \in DOMAIN tb : ThreadedEntry(tb, q)

\* The counter of waiting threads is exact as well, and a zombie runs no more.  So it is
\* while trace runs; cleanup drops suspended threads without counting them.
GroupedEntry(tb, q) ==
    /\ tb[q].thread => tb[q].pid # NoPid
    /\ tb[q].nthreads = Cardinality(ThreadsOf(tb, q))
    /\ tb[q].nwaiting = Cardinality(WaitingOf(tb, q))
    /\ tb[q].nzombies >= 0
    /\ ThreadsOf(tb, q) # {} => tb[q].pid # NoPid
    /\ tb[q].exiting => ThreadsOf(tb, q) # {} /\ ~tb[q].suspended

Grouped(tb) == \A q \in DOMAIN tb : GroupedEntry(tb, q)

\* A thread points to a process that is related to it.
Related(tb, R) ==
    \A r \in DOMAIN tb : tb[r].thread => <<tb[tb[r].parent].pid, tb[r].pid>> \in R

\* The threads of an entry are a finite set.
LEMMA ThreadsFinite ==
    ASSUME NEW t, NEW size, Counted(t, size), NEW q
    PROVE  /\ IsFiniteSet(ThreadsOf(t.tab, q)) /\ IsFiniteSet(WaitingOf(t.tab, q))
           /\ Cardinality(ThreadsOf(t.tab, q)) \in Nat
           /\ Cardinality(WaitingOf(t.tab, q)) \in Nat
<1>1. DOMAIN t.tab = 0 .. size - 1 /\ size \in Nat
    BY DEF Counted, Sized
<1>2. IsFiniteSet(0 .. size - 1)
    BY <1>1, FS_Interval, SMT
<1>3. ThreadsOf(t.tab, q) \subseteq 0 .. size - 1 /\ WaitingOf(t.tab, q) \subseteq 0 .. size - 1
    BY <1>1 DEF ThreadsOf, WaitingOf
<1>. QED
    BY <1>2, <1>3, FS_Subset, FS_CardinalityType

\* Exact counters leave nobody out.
LEMMA GroupedThreaded ==
    ASSUME NEW t, NEW size, Counted(t, size), Grouped(t.tab)
    PROVE  Threaded(t.tab)
<1>. SUFFICES ASSUME NEW q \in DOMAIN t.tab PROVE ThreadedEntry(t.tab, q)
    BY DEF Threaded
<1>1. GroupedEntry(t.tab, q)
    BY DEF Grouped
<1>2. Cardinality(WaitingOf(t.tab, q)) \in Nat
    BY ThreadsFinite
<1>3. t.tab[q].nwaiting >= Cardinality(WaitingOf(t.tab, q))
    BY <1>1, <1>2, SMT DEF GroupedEntry
<1>. QED
    BY <1>1, <1>3 DEF GroupedEntry, ThreadedEntry

\* alloc_tcb: nobody points to the new entry as its thread.
LEMMA AllocatedGroups ==
    ASSUME NEW t, NEW size, Counted(t, size), Grouped(t.tab), NEW p \in Pids,
           NEW u, NEW held, NEW sz, NEW f, Allocated(t, u, p, held, size, sz, f)
    PROVE  Grouped(u.tab) /\ \A R : Related(t.tab, R) => Related(u.tab, R)
<1>1. /\ t.tab \in [0 .. size - 1 -> EntryOf(0 .. size - 1)] /\ size \in Nat \ {0}
      /\ \A r \in 0 .. size - 1 : t.tab[r].thread => t.tab[r].parent # Null
    BY DEF Counted, Sized
<1>2. /\ sz \in Nat \ {0} /\ size <= sz /\ f \in 0 .. sz - 1
      /\ u.tab \in [0 .. sz - 1 -> EntryOf(0 .. sz - 1)]
      /\ \A r \in 0 .. sz - 1 : r # f => u.tab[r] = IF r < size THEN t.tab[r] ELSE Unused
      /\ f < size => t.tab[f].pid = NoPid
      /\ u.tab[f].pid = p /\ u.tab[f].thread = FALSE /\ u.tab[f].exiting = FALSE
      /\ u.tab[f].nthreads = 0 /\ u.tab[f].nwaiting = 0 /\ u.tab[f].nzombies = 0
    BY DEF Allocated
<1>3. /\ ~Unused.thread /\ ~Unused.exiting
      /\ Unused.nthreads = 0 /\ Unused.nwaiting = 0 /\ Unused.nzombies = 0
    BY DEF Unused
<1>4. \A r \in 0 .. size - 1 : r # f => u.tab[r] = t.tab[r] /\ r \in 0 .. sz - 1
    BY <1>1, <1>2, SMT
<1>5. \A r \in 0 .. sz - 1 : r # f /\ ~(r \in 0 .. size - 1) => u.tab[r] = Unused
    BY <1>1, <1>2, SMT
<1>6. f \in 0 .. size - 1 => ~t.tab[f].thread /\ ThreadsOf(t.tab, f) = {}
    BY <1>1, <1>2, SMT DEF Grouped, GroupedEntry
<1>7. \A r \in 0 .. sz - 1 : u.tab[r].thread =>
          r # f /\ r \in 0 .. size - 1 /\ u.tab[r] = t.tab[r] /\ t.tab[r].parent \in 0 .. size - 1
    BY <1>1, <1>2, <1>3, <1>4, <1>5 DEF EntryOf
<1>8. \A q : ThreadsOf(u.tab, q) = ThreadsOf(t.tab, q) /\ WaitingOf(u.tab, q) = WaitingOf(t.tab, q)
    <2>. TAKE q
    <2>1. \A r : r \in ThreadsOf(t.tab, q) => r # f
        BY <1>1, <1>6 DEF ThreadsOf
    <2>2. ThreadsOf(u.tab, q) = ThreadsOf(t.tab, q)
        BY <1>1, <1>2, <1>4, <1>7, <2>1 DEF ThreadsOf
    <2>3. \A r \in ThreadsOf(t.tab, q) : u.tab[r] = t.tab[r]
        BY <1>1, <1>4, <2>1 DEF ThreadsOf
    <2>4. /\ WaitingOf(u.tab, q) = {r \in ThreadsOf(u.tab, q) : u.tab[r].suspended}
          /\ WaitingOf(t.tab, q) = {r \in ThreadsOf(t.tab, q) : t.tab[r].suspended}
        BY DEF ThreadsOf, WaitingOf
    <2>. QED
        BY <2>2, <2>3, <2>4
<1>9. \A q : ~(q \in 0 .. size - 1) => ThreadsOf(t.tab, q) = {} /\ WaitingOf(t.tab, q) = {}
    BY <1>1 DEF ThreadsOf, WaitingOf, EntryOf
<1>10. Cardinality({}) = 0
    BY FS_EmptySet
<1>11. ASSUME NEW q \in 0 .. sz - 1 PROVE GroupedEntry(u.tab, q)
    <2>1. CASE q # f /\ q \in 0 .. size - 1
        <3>1. GroupedEntry(t.tab, q) /\ u.tab[q] = t.tab[q]
            BY <1>1, <1>4, <2>1 DEF Grouped
        <3>. QED
            BY <1>8, <3>1 DEF GroupedEntry
    <2>2. CASE q # f /\ ~(q \in 0 .. size - 1)
        <3>1. u.tab[q] = Unused /\ ThreadsOf(u.tab, q) = {} /\ WaitingOf(u.tab, q) = {}
            BY <1>5, <1>8, <1>9, <2>2
        <3>. QED
            BY <1>3, <1>10, <3>1, SMT DEF GroupedEntry
    <2>3. CASE q = f
        <3>1. ThreadsOf(u.tab, f) = {}
            BY <1>6, <1>8, <1>9
        <3>2. WaitingOf(u.tab, f) = {}
            BY <3>1 DEF ThreadsOf, WaitingOf
        <3>. QED
            BY <1>2, <1>10, <2>3, <3>1, <3>2, SMT DEF GroupedEntry
    <2>. QED
        BY <2>1, <2>2, <2>3
<1>12. ASSUME NEW R, Related(t.tab, R), NEW r \in 0 .. sz - 1, u.tab[r].thread
       PROVE  <<u.tab[u.tab[r].parent].pid, u.tab[r].pid>> \in R
    <2>1. /\ r \in 0 .. size - 1 /\ u.tab[r] = t.tab[r] /\ t.tab[r].thread
          /\ t.tab[r].parent \in 0 .. size - 1
        BY <1>7, <1>12
    <2>2. r \in ThreadsOf(t.tab, t.tab[r].parent)
        BY <1>1, <2>1 DEF ThreadsOf
    <2>3. t.tab[r].parent # f
        BY <1>6, <2>1, <2>2
    <2>4. u.tab[t.tab[r].parent] = t.tab[t.tab[r].parent]
        BY <1>4, <2>1, <2>3
    <2>. QED
        BY <1>1, <1>12, <2>1, <2>4 DEF Related
<1>13. DOMAIN u.tab = 0 .. sz - 1
    BY <1>2
<1>14. Grouped(u.tab)
    BY <1>11, <1>13 DEF Grouped
<1>15. ASSUME NEW R, Related(t.tab, R) PROVE Related(u.tab, R)
    BY <1>12, <1>13, <1>15 DEF Related
<1>. QED
    BY <1>14, <1>15

\* An entry that droptcb frees besides s was reached from its last thread.
LEMMA DroppedReached ==
    ASSUME NEW t, NEW size, Counted(t, size), NEW s \in 0 .. size - 1, t.tab[s].pid # NoPid,
           NEW q \in Dropped(t.tab, s), q # s
    PROVE  \E r \in Dropped(t.tab, s) : LastOfZombie(t.tab, r) /\ t.tab[r].parent = q
<1>. DEFINE D == Dropped(t.tab, s)
            X == D \ {q}
<1>. SUFFICES ASSUME \A r \in D : LastOfZombie(t.tab, r) => t.tab[r].parent # q PROVE FALSE
    OBVIOUS
<1>1. s \in D /\ \A r \in D : LastOfZombie(t.tab, r) => t.tab[r].parent \in D
    BY DroppedSet
<1>2. s \in X /\ \A r \in X : LastOfZombie(t.tab, r) => t.tab[r].parent \in X
    BY <1>1
<1>3. X \in SUBSET D
    OBVIOUS
<1>4. X = D
    <2>. HIDE DEF X
    <2>. QED
        BY <1>2, <1>3, DroppedSet
<1>. QED
    BY <1>4

\* Where droptcb goes on from the entry x to its parent y, it frees x and what it frees
\* from y.
LEMMA DroppedGoesOn ==
    ASSUME NEW t, NEW size, Counted(t, size), NEW x \in 0 .. size - 1, t.tab[x].pid # NoPid,
           LastOfZombie(t.tab, x)
    PROVE  Dropped(t.tab, x) \subseteq {x} \cup Dropped(t.tab, t.tab[x].parent)
<1>. DEFINE y == t.tab[x].parent
            C == Dropped(t.tab, x)
            E == Dropped(t.tab, y)
            X == C \cap ({x} \cup E)
<1>1. y \in 0 .. size - 1 /\ t.tab[y].pid # NoPid
    BY DEF LastOfZombie, Counted, Sized, EntryOf
<1>2. x \in C /\ \A r \in C : LastOfZombie(t.tab, r) => t.tab[r].parent \in C
    BY DroppedSet
<1>. HIDE DEF y
<1>3. y \in E /\ \A r \in E : LastOfZombie(t.tab, r) => t.tab[r].parent \in E
    BY <1>1, DroppedSet
<1>4. x \in X /\ \A r \in X : LastOfZombie(t.tab, r) => t.tab[r].parent \in X
    BY <1>2, <1>3 DEF y
<1>5. X \in SUBSET C
    OBVIOUS
<1>6. X = C
    <2>. HIDE DEF X
    <2>. QED
        BY <1>4, <1>5, DroppedSet
<1>. QED
    BY <1>6 DEF y

\* droptcb stops at an entry that is not the last thread of a zombie.
LEMMA DroppedStops ==
    ASSUME NEW t, NEW size, Counted(t, size), NEW x \in 0 .. size - 1, t.tab[x].pid # NoPid,
           ~LastOfZombie(t.tab, x)
    PROVE  Dropped(t.tab, x) = {x}
<1>1. x \in Dropped(t.tab, x)
    BY DroppedSet
<1>2. {x} \in SUBSET Dropped(t.tab, x)
    BY <1>1
<1>3. x \in {x} /\ \A r \in {x} : LastOfZombie(t.tab, r) => t.tab[r].parent \in {x}
    OBVIOUS
<1>. DEFINE X == {x}
<1>. HIDE DEF X
<1>4. X = Dropped(t.tab, x)
    BY <1>2, <1>3, DroppedSet DEF X
<1>. QED
    BY <1>4 DEF X

\* No zombie is left without threads: droptcb goes from entry to entry along one path,
\* so it frees all threads of a zombie only when it frees the last one, and then it
\* goes on to the zombie.
LEMMA ZombieKeepsThread ==
    ASSUME NEW t, NEW size, Counted(t, size), Threaded(t.tab),
           NEW s \in 0 .. size - 1, t.tab[s].pid # NoPid,
           NEW q \in 0 .. size - 1, t.tab[q].exiting, q \notin Dropped(t.tab, s)
    PROVE  ~(ThreadsOf(t.tab, q) \subseteq Dropped(t.tab, s))
<1>. DEFINE D == Dropped(t.tab, s)
            T == ThreadsOf(t.tab, q)
<1>. SUFFICES ASSUME T \subseteq D PROVE FALSE
    OBVIOUS
<1>1. /\ DOMAIN t.tab = 0 .. size - 1
      /\ T # {} /\ t.tab[q].pid # NoPid /\ t.tab[q].nthreads = Cardinality(T)
    BY DEF Counted, Sized, Threaded, ThreadedEntry
<1>2. \A r \in T : t.tab[r].thread /\ t.tab[r].parent = q
    BY DEF ThreadsOf
<1>3. /\ s \in D /\ D \subseteq Used(t.tab)
      /\ \A r \in D : LastOfZombie(t.tab, r) => t.tab[r].parent \in D
    BY DroppedSet
<1>4. \A r \in D : r \in 0 .. size - 1 /\ t.tab[r].pid # NoPid
    BY <1>1, <1>3 DEF Used
<1>. HIDE DEF D, T
<1>5. \A r \in T : r \in D /\ ~LastOfZombie(t.tab, r)
    BY <1>2, <1>3 DEF D
<1>6. PICK r1 \in T : TRUE
    BY <1>1
<1>7. T # {r1}
    <2>1. SUFFICES ASSUME T = {r1} PROVE FALSE
        OBVIOUS
    <2>2. Cardinality({r1}) = 1
        BY FS_Singleton
    <2>. QED
        BY <1>1, <1>2, <1>5, <2>1, <2>2 DEF LastOfZombie
<1>8. PICK r2 \in T : r2 # r1
    BY <1>6, <1>7
<1>. DEFINE Both(x) == r1 \in Dropped(t.tab, x) /\ r2 \in Dropped(t.tab, x)
            X == {x \in D : Both(x)}
<1>9. ~Both(r1) /\ ~Both(r2)
    <2>1. Dropped(t.tab, r1) = {r1} /\ Dropped(t.tab, r2) = {r2}
        BY <1>4, <1>5, DroppedStops
    <2>. QED
        BY <1>8, <2>1
<1>10. s \in X
    BY <1>3, <1>5 DEF D
<1>11. ASSUME NEW x \in X, LastOfZombie(t.tab, x) PROVE t.tab[x].parent \in X
    <2>1. x \in D /\ t.tab[x].parent \in D /\ x # r1 /\ x # r2
        BY <1>3, <1>9, <1>11
    <2>2. Dropped(t.tab, x) \subseteq {x} \cup Dropped(t.tab, t.tab[x].parent)
        BY <1>4, <1>11, <2>1, DroppedGoesOn
    <2>. QED
        BY <2>1, <2>2
<1>12. X = D
    <2>1. X \in SUBSET D
        OBVIOUS
    <2>. HIDE DEF X
    <2>. QED
        BY <1>10, <1>11, <2>1, DroppedSet DEF D
<1>. QED
    BY <1>5, <1>9, <1>12

\* The entries in use in ub were so in tb: none of them has become a thread or is
\* suspended anew, and those of W are not suspended.
Calmer(tb, ub, size, W) ==
    \A r \in 0 .. size - 1 : ub[r].pid # NoPid =>
        /\ ub[r].pid = tb[r].pid
        /\ ub[r].suspended => tb[r].suspended /\ r \notin W
        /\ ub[r].thread => tb[r].thread /\ ub[r].parent = tb[r].parent

\* A thread that is left points to an entry that is left.
LEMMA CalmerRelated ==
    ASSUME NEW t, NEW size, Counted(t, size), NEW u, Counted(u, size), Threaded(u.tab),
           NEW W, Calmer(t.tab, u.tab, size, W), NEW R, Related(t.tab, R)
    PROVE  Related(u.tab, R)
<1>. SUFFICES ASSUME NEW r \in DOMAIN u.tab, u.tab[r].thread
              PROVE  <<u.tab[u.tab[r].parent].pid, u.tab[r].pid>> \in R
    BY DEF Related
<1>. DEFINE q == u.tab[r].parent
<1>1. DOMAIN t.tab = 0 .. size - 1 /\ DOMAIN u.tab = 0 .. size - 1
    BY DEF Counted, Sized
<1>2. u.tab[r].pid # NoPid /\ q \in 0 .. size - 1
    BY <1>1 DEF Threaded, ThreadedEntry, Counted, Sized, EntryOf
<1>3. u.tab[q].pid # NoPid
    <2>1. r \in ThreadsOf(u.tab, q)
        BY DEF ThreadsOf
    <2>. QED
        BY <1>1, <1>2, <2>1 DEF Threaded, ThreadedEntry
<1>4. /\ u.tab[r].pid = t.tab[r].pid /\ t.tab[r].thread /\ t.tab[r].parent = q
      /\ u.tab[q].pid = t.tab[q].pid
    BY <1>1, <1>2, <1>3 DEF Calmer
<1>. HIDE DEF q
<1>5. <<t.tab[t.tab[r].parent].pid, t.tab[r].pid>> \in R
    BY <1>1, <1>4 DEF Related
<1>. QED
    BY <1>4, <1>5 DEF q

\* droptcb of an entry without threads.
LEMMA FreedGroups ==
    ASSUME NEW t, NEW size, Counted(t, size), Threaded(t.tab),
           NEW s \in 0 .. size - 1, t.tab[s].pid # NoPid, ~(t.tab[s].nthreads > 0)
    PROVE  LET v == Freed(t, Dropped(t.tab, s)).tab IN
           /\ Threaded(v) /\ Calmer(t.tab, v, size, {})
           /\ Grouped(t.tab) /\ ~t.tab[s].suspended => Grouped(v)
<1>. DEFINE D == Dropped(t.tab, s)
            v == Freed(t, D).tab
            T(q) == ThreadsOf(t.tab, q)
<1>1. /\ t.tab \in [0 .. size - 1 -> EntryOf(0 .. size - 1)] /\ size \in Nat \ {0}
      /\ DOMAIN t.tab = 0 .. size - 1
    BY DEF Counted, Sized
<1>2. /\ s \in D /\ D \subseteq Used(t.tab)
      /\ \A r \in D : r = s \/ t.tab[r].exiting
    BY DroppedSet
<1>3. \A q \in D : q # s => \E r \in D : LastOfZombie(t.tab, r) /\ t.tab[r].parent = q
    BY DroppedReached, SMT
<1>4. ASSUME NEW q \in 0 .. size - 1, t.tab[q].exiting, q \notin D PROVE ~(T(q) \subseteq D)
    BY <1>4, ZombieKeepsThread
<1>. HIDE DEF D
<1>5. D \subseteq 0 .. size - 1
    BY <1>1, <1>2 DEF Used
<1>6. /\ v \in [0 .. size - 1 -> EntryOf(0 .. size - 1)]
      /\ \A r \in 0 .. size - 1 : FreedEntry(t.tab, D, r, v[r])
    BY <1>5, FreedEntries
<1>. HIDE DEF v
<1>7. /\ \A r \in D : ~v[r].thread /\ ~v[r].exiting /\ v[r].pid = NoPid
      /\ \A r \in 0 .. size - 1 : r \notin D =>
            /\ v[r].pid = t.tab[r].pid /\ v[r].parent = t.tab[r].parent
            /\ v[r].thread = t.tab[r].thread /\ v[r].exiting = t.tab[r].exiting
            /\ v[r].suspended = t.tab[r].suspended
    BY <1>5, <1>6 DEF FreedEntry, SameButCounts
<1>9. \A q : ThreadsOf(v, q) = T(q) \ D
    BY <1>1, <1>6, <1>7 DEF ThreadsOf
<1>10. \A q : WaitingOf(v, q) = WaitingOf(t.tab, q) \ D
    BY <1>1, <1>6, <1>7 DEF WaitingOf
<1>11. ASSUME NEW q \in D PROVE T(q) \subseteq D
    <2>1. CASE q = s
        <3>1. Cardinality(T(s)) = t.tab[s].nthreads /\ IsFiniteSet(T(s))
              /\ Cardinality(T(s)) \in Nat
            BY <1>1, ThreadsFinite DEF Threaded, ThreadedEntry
        <3>2. T(s) = {}
            BY <3>1, FS_EmptySet, SMT
        <3>. QED
            BY <2>1, <3>2
    <2>2. CASE q # s
        <3>1. PICK r \in D : LastOfZombie(t.tab, r) /\ t.tab[r].parent = q
            BY <1>3, <2>2
        <3>2. r \in T(q) /\ t.tab[q].nthreads = 1 /\ q \in 0 .. size - 1
            BY <1>1, <1>5, <3>1 DEF LastOfZombie, ThreadsOf
        <3>3. IsFiniteSet(T(q)) /\ Cardinality(T(q)) = 1
            BY <1>1, <3>2, ThreadsFinite DEF Threaded, ThreadedEntry
        <3>4. PICK x : T(q) = {x}
            BY <3>3, FS_Singleton
        <3>. QED
            BY <3>1, <3>2, <3>4
    <2>. QED
        BY <2>1, <2>2
<1>12. ASSUME NEW q \in 0 .. size - 1 PROVE ThreadedEntry(v, q)
    <2>1. ThreadedEntry(t.tab, q) /\ t.tab[q] \in EntryOf(0 .. size - 1)
        BY <1>1 DEF Threaded
    <2>2. v[q].thread => v[q].pid # NoPid
        BY <1>7, <2>1 DEF ThreadedEntry
    <2>3. v[q].nthreads = Cardinality(ThreadsOf(v, q))
        <3>1. IsFiniteSet(T(q))
            BY ThreadsFinite
        <3>2. {x \in D : t.tab[x].thread /\ t.tab[x].parent = q} = T(q) \cap D
            BY <1>1, <1>5 DEF ThreadsOf
        <3>3. v[q].nthreads = t.tab[q].nthreads - Cardinality(T(q) \cap D)
            BY <1>6, <3>2 DEF FreedEntry
        <3>4. Cardinality(T(q) \ D) = Cardinality(T(q)) - Cardinality(T(q) \cap D)
            BY <3>1, FS_Difference
        <3>. QED
            BY <1>9, <2>1, <3>3, <3>4 DEF ThreadedEntry
    <2>4. v[q].nwaiting >= Cardinality(WaitingOf(v, q))
        <3>1. IsFiniteSet(WaitingOf(t.tab, q)) /\ Cardinality(WaitingOf(t.tab, q)) \in Nat
            BY ThreadsFinite
        <3>2. /\ Cardinality(WaitingOf(v, q)) <= Cardinality(WaitingOf(t.tab, q))
              /\ Cardinality(WaitingOf(v, q)) \in Nat
            BY <1>10, <3>1, FS_Subset, FS_CardinalityType
        <3>3. v[q].nwaiting = t.tab[q].nwaiting /\ t.tab[q].nwaiting \in Int
            BY <1>6, <2>1 DEF FreedEntry, EntryOf
        <3>4. t.tab[q].nwaiting >= Cardinality(WaitingOf(t.tab, q))
            BY <2>1 DEF ThreadedEntry
        <3>. QED
            BY <3>1, <3>2, <3>3, <3>4, SMT
    <2>5. v[q].nzombies >= 0
        <3>1. t.tab[q].nzombies \in Int
            BY <2>1 DEF EntryOf
        <3>2. t.tab[q].nzombies >= 0
            BY <2>1 DEF ThreadedEntry
        <3>3. v[q].nzombies \in Int /\ v[q].nzombies >= t.tab[q].nzombies
            BY <1>6 DEF FreedEntry
        <3>. QED
            BY <3>1, <3>2, <3>3, SMT
    <2>6. ThreadsOf(v, q) # {} => v[q].pid # NoPid
        BY <1>7, <1>9, <1>11, <2>1 DEF ThreadedEntry
    <2>7. v[q].exiting => ThreadsOf(v, q) # {}
        BY <1>4, <1>7, <1>9, <2>1 DEF ThreadedEntry
    <2>. QED
        BY <2>2, <2>3, <2>4, <2>5, <2>6, <2>7 DEF ThreadedEntry
<1>13. Threaded(v)
    BY <1>6, <1>12 DEF Threaded
<1>14. Calmer(t.tab, v, size, {})
    BY <1>7 DEF Calmer
<1>15. ASSUME Grouped(t.tab), ~t.tab[s].suspended PROVE Grouped(v)
    <2>1. \A r \in D : ~t.tab[r].suspended
        BY <1>1, <1>2, <1>5, <1>15 DEF Grouped, GroupedEntry
    <2>2. \A q : WaitingOf(v, q) = WaitingOf(t.tab, q)
        BY <1>10, <2>1 DEF WaitingOf
    <2>3. ASSUME NEW q \in 0 .. size - 1
          PROVE  /\ v[q].nwaiting = Cardinality(WaitingOf(v, q))
                 /\ v[q].exiting => ~v[q].suspended
        <3>1. GroupedEntry(t.tab, q)
            BY <1>1, <1>15 DEF Grouped
        <3>2. v[q].nwaiting = t.tab[q].nwaiting
            BY <1>6 DEF FreedEntry
        <3>. QED
            BY <1>7, <2>2, <3>1, <3>2 DEF GroupedEntry
    <2>. QED
        BY <1>6, <1>12, <2>3 DEF Grouped, GroupedEntry, ThreadedEntry
<1>. QED
    BY <1>13, <1>14, <1>15 DEF D, v

\* droptcb of a leader whose threads are left.
LEMMA LingerGroups ==
    ASSUME NEW t, NEW size, Counted(t, size), Threaded(t.tab),
           NEW s \in 0 .. size - 1, t.tab[s].pid # NoPid, t.tab[s].nthreads > 0
    PROVE  LET v == Drop(t, s).tab IN
           /\ Threaded(v) /\ Calmer(t.tab, v, size, {})
           /\ Grouped(t.tab) /\ ~t.tab[s].suspended => Grouped(v)
<1>. DEFINE v == Drop(t, s).tab
<1>1. t.tab \in [0 .. size - 1 -> EntryOf(0 .. size - 1)] /\ t.tab[s] \in EntryOf(0 .. size - 1)
    BY DEF Counted, Sized
<1>2. /\ v \in [0 .. size - 1 -> EntryOf(0 .. size - 1)]
      /\ v[s] = Linger(t.tab[s]) /\ \A r \in 0 .. size - 1 : r # s => v[r] = t.tab[r]
    BY LingerTable, SMT
<1>. HIDE DEF v
<1>3. /\ v[s].pid = t.tab[s].pid /\ v[s].thread = t.tab[s].thread
      /\ v[s].parent = t.tab[s].parent /\ v[s].suspended = t.tab[s].suspended
      /\ v[s].nthreads = t.tab[s].nthreads /\ v[s].nwaiting = t.tab[s].nwaiting
      /\ v[s].nzombies = t.tab[s].nzombies
    BY <1>1, <1>2 DEF Linger, EntryOf
<1>4. \A r \in 0 .. size - 1 :
          /\ v[r].pid = t.tab[r].pid /\ v[r].thread = t.tab[r].thread
          /\ v[r].parent = t.tab[r].parent /\ v[r].suspended = t.tab[r].suspended
          /\ v[r].nthreads = t.tab[r].nthreads /\ v[r].nwaiting = t.tab[r].nwaiting
          /\ v[r].nzombies = t.tab[r].nzombies
          /\ r # s => v[r].exiting = t.tab[r].exiting
    BY <1>2, <1>3
<1>5. \A q : ThreadsOf(v, q) = ThreadsOf(t.tab, q) /\ WaitingOf(v, q) = WaitingOf(t.tab, q)
    <2>. TAKE q
    <2>1. ThreadsOf(v, q) = ThreadsOf(t.tab, q)
        BY <1>1, <1>2, <1>4 DEF ThreadsOf
    <2>2. WaitingOf(v, q) = WaitingOf(t.tab, q)
        BY <1>1, <1>2, <1>4 DEF WaitingOf
    <2>. QED
        BY <2>1, <2>2
<1>6. ThreadsOf(t.tab, s) # {}
    <2>1. t.tab[s].nthreads = Cardinality(ThreadsOf(t.tab, s))
        BY <1>1 DEF Threaded, ThreadedEntry
    <2>2. Cardinality({}) = 0
        BY FS_EmptySet
    <2>. QED
        BY <2>1, <2>2, SMT
<1>7. ASSUME NEW q \in 0 .. size - 1 PROVE ThreadedEntry(v, q)
    <2>1. ThreadedEntry(t.tab, q)
        BY <1>1 DEF Threaded
    <2>. QED
        BY <1>4, <1>5, <1>6, <2>1 DEF ThreadedEntry
<1>8. Threaded(v) /\ Calmer(t.tab, v, size, {})
    BY <1>2, <1>4, <1>7 DEF Threaded, Calmer
<1>9. ASSUME Grouped(t.tab), ~t.tab[s].suspended, NEW q \in 0 .. size - 1
      PROVE  GroupedEntry(v, q)
    <2>1. GroupedEntry(t.tab, q)
        BY <1>1, <1>9 DEF Grouped
    <2>. QED
        BY <1>4, <1>5, <1>6, <1>9, <2>1 DEF GroupedEntry
<1>10. Grouped(t.tab) /\ ~t.tab[s].suspended => Grouped(v)
    BY <1>2, <1>9 DEF Grouped
<1>. QED
    BY <1>8, <1>10 DEF v

\* droptcb keeps the counter of threads exact, and that of waiting threads unless it drops
\* a suspended entry.
LEMMA DropGroups ==
    ASSUME NEW t, NEW size, Counted(t, size), Threaded(t.tab), NEW s \in 0 .. size - 1
    PROVE  LET v == Drop(t, s).tab IN
           /\ Threaded(v) /\ Calmer(t.tab, v, size, {})
           /\ Grouped(t.tab) /\ ~t.tab[s].suspended => Grouped(v)
<1>1. CASE t.tab[s].pid = NoPid
    BY <1>1 DEF Drop, Calmer
<1>2. CASE t.tab[s].pid # NoPid /\ t.tab[s].nthreads > 0
    BY <1>2, LingerGroups
<1>3. CASE t.tab[s].pid # NoPid /\ ~(t.tab[s].nthreads > 0)
    <2>1. Drop(t, s) = Freed(t, Dropped(t.tab, s))
        BY <1>3 DEF Drop
    <2>. QED
        BY <1>3, <2>1, FreedGroups
<1>. QED
    BY <1>1, <1>2, <1>3

\* resume_from_tcp resumes suspended entries only.
LEMMA WokenSuspended ==
    ASSUME NEW t, NEW size, Counted(t, size), NEW s \in 0 .. size - 1
    PROVE  \A r \in Woken(t.tab, s) : r \in 0 .. size - 1 /\ t.tab[r].suspended
<1>. DEFINE q == t.tab[s].parent
            wild == {r \in WaitingThreads(t.tab, s) : t.tab[r].waitpid = AnyPid}
<1>1. t.tab \in [0 .. size - 1 -> EntryOf(0 .. size - 1)] /\ size \in Nat
    BY DEF Counted, Sized
<1>2. Woken(t.tab, s) \subseteq 0 .. size - 1
    BY WokenInTable
<1>3. \A r \in WaitingThreads(t.tab, s) : t.tab[r].suspended
    BY DEF WaitingThreads
<1>4. wild # {} => Least(wild) \in wild
    <2>1. wild \subseteq Nat
        BY <1>1, SMT DEF WaitingThreads
    <2>. HIDE DEF wild
    <2>. QED
        BY <2>1, LeastExists
<1>5. \A r \in Woken(t.tab, s) : t.tab[r].suspended
    BY <1>3, <1>4 DEF Woken
<1>. QED
    BY <1>2, <1>5

\* resume of suspended entries keeps the counters exact: each thread resumed is one
\* less to wait.
LEMMA ResumeGroups ==
    ASSUME NEW t, NEW size, Counted(t, size), Threaded(t.tab),
           NEW W, \A r \in W : r \in 0 .. size - 1 /\ t.tab[r].suspended
    PROVE  LET v == Resume(t.tab, W) IN
           /\ Threaded(v) /\ Calmer(t.tab, v, size, W)
           /\ Grouped(t.tab) => Grouped(v)
<1>. DEFINE v == Resume(t.tab, W)
            n(q) == Cardinality({r \in W : t.tab[r].thread /\ t.tab[r].parent = q})
<1>1. /\ t.tab \in [0 .. size - 1 -> EntryOf(0 .. size - 1)] /\ size \in Nat
      /\ DOMAIN t.tab = 0 .. size - 1
    BY DEF Counted, Sized
<1>2. v = [q \in 0 .. size - 1 |-> Release(t.tab[q], q \in W, n(q))]
    BY <1>1 DEF Resume
<1>. HIDE DEF v, n
<1>3. ASSUME NEW q \in 0 .. size - 1
      PROVE  /\ v[q].pid = t.tab[q].pid /\ v[q].exiting = t.tab[q].exiting
             /\ v[q].thread = t.tab[q].thread /\ v[q].parent = t.tab[q].parent
             /\ v[q].nthreads = t.tab[q].nthreads /\ v[q].nzombies = t.tab[q].nzombies
             /\ v[q].nwaiting = t.tab[q].nwaiting - n(q)
             /\ v[q].suspended <=> t.tab[q].suspended /\ q \notin W
    <2>1. t.tab[q] \in EntryOf(0 .. size - 1)
        BY <1>1
    <2>2. v[q] = Release(t.tab[q], q \in W, n(q))
        BY <1>2
    <2>. QED
        BY <2>1, <2>2 DEF Release, EntryOf
<1>4. DOMAIN v = 0 .. size - 1
    BY <1>2
<1>5. \A q : ThreadsOf(v, q) = ThreadsOf(t.tab, q)
    BY <1>1, <1>3, <1>4 DEF ThreadsOf
<1>6. \A q : WaitingOf(v, q) = WaitingOf(t.tab, q) \ W
    BY <1>1, <1>3, <1>4 DEF WaitingOf
<1>7. \A q : n(q) = Cardinality(WaitingOf(t.tab, q) \cap W)
    <2>. TAKE q
    <2>1. {r \in W : t.tab[r].thread /\ t.tab[r].parent = q} = WaitingOf(t.tab, q) \cap W
        BY <1>1 DEF WaitingOf
    <2>. QED
        BY <2>1 DEF n
<1>8. ASSUME NEW q \in 0 .. size - 1
      PROVE  /\ Cardinality(WaitingOf(v, q)) = Cardinality(WaitingOf(t.tab, q)) - n(q)
             /\ Cardinality(WaitingOf(t.tab, q)) \in Nat /\ n(q) \in Nat
             /\ v[q].nwaiting = t.tab[q].nwaiting - n(q)
    <2>1. IsFiniteSet(WaitingOf(t.tab, q)) /\ Cardinality(WaitingOf(t.tab, q)) \in Nat
        BY ThreadsFinite
    <2>2. /\ IsFiniteSet(WaitingOf(t.tab, q) \cap W)
          /\ Cardinality(WaitingOf(t.tab, q) \ W)
                = Cardinality(WaitingOf(t.tab, q)) - Cardinality(WaitingOf(t.tab, q) \cap W)
        BY <2>1, FS_Difference, FS_Intersection
    <2>3. n(q) \in Nat
        BY <1>7, <2>2, FS_CardinalityType
    <2>. QED
        BY <1>3, <1>6, <1>7, <2>1, <2>2, <2>3
<1>9. ASSUME NEW q \in 0 .. size - 1 PROVE ThreadedEntry(v, q)
    <2>1. ThreadedEntry(t.tab, q) /\ t.tab[q].nwaiting \in Int
        BY <1>1 DEF Threaded, EntryOf
    <2>2. v[q].nwaiting >= Cardinality(WaitingOf(v, q))
        <3>1. t.tab[q].nwaiting >= Cardinality(WaitingOf(t.tab, q))
            BY <2>1 DEF ThreadedEntry
        <3>. QED
            BY <1>8, <2>1, <3>1, SMT
    <2>. QED
        BY <1>3, <1>5, <2>1, <2>2 DEF ThreadedEntry
<1>10. ASSUME Grouped(t.tab), NEW q \in 0 .. size - 1 PROVE GroupedEntry(v, q)
    <2>1. GroupedEntry(t.tab, q)
        BY <1>1, <1>10 DEF Grouped
    <2>2. v[q].nwaiting = Cardinality(WaitingOf(v, q))
        BY <1>8, <2>1 DEF GroupedEntry
    <2>3. v[q].exiting => ThreadsOf(v, q) # {} /\ ~v[q].suspended
        BY <1>3, <1>5, <2>1 DEF GroupedEntry
    <2>. QED
        BY <1>3, <1>5, <2>1, <2>2, <2>3 DEF GroupedEntry
<1>11. /\ Threaded(v) /\ Calmer(t.tab, v, size, W)
       /\ Grouped(t.tab) => Grouped(v)
    BY <1>3, <1>4, <1>9, <1>10 DEF Threaded, Grouped, Calmer
<1>. QED
    BY <1>11 DEF v

\* Two such changes, one after the other.
LEMMA CalmerTwice ==
    ASSUME NEW size, NEW tb, NEW ub, NEW vb, NEW W,
           Calmer(tb, ub, size, W), Calmer(ub, vb, size, {})
    PROVE  Calmer(tb, vb, size, W)
    BY DEF Calmer

\* handle_group_exit of a process that died.
LEMMA LeaveGroups ==
    ASSUME NEW t, NEW size, Counted(t, size), Threaded(t.tab), NEW s \in 0 .. size - 1
    PROVE  LET v == Leave(t, s).tab IN
           /\ Threaded(v) /\ Calmer(t.tab, v, size, Woken(t.tab, s))
           /\ Grouped(t.tab) /\ ~t.tab[s].suspended => Grouped(v)
<1>. DEFINE W == Woken(t.tab, s)
            rt == Resume(t.tab, W)
            u == [tab |-> rt, n |-> t.n]
            v == Leave(t, s).tab
<1>1. Leave(t, s) = Drop(u, s)
    BY SMT DEF Leave, Counted
<1>2. \A r \in W : r \in 0 .. size - 1 /\ t.tab[r].suspended
    BY WokenSuspended
<1>. HIDE DEF W
<1>3. Threaded(rt) /\ Calmer(t.tab, rt, size, W) /\ (Grouped(t.tab) => Grouped(rt))
    BY <1>2, ResumeGroups
<1>4. Alike(t.tab, rt, size)
    BY <1>2, ResumeAlike
<1>5. u.tab = rt
    OBVIOUS
<1>. HIDE DEF rt
<1>6. Counted(u, size) /\ rt[s].pid = t.tab[s].pid
    BY <1>4, AlikeKeeps DEF Alike
<1>. HIDE DEF u
<1>7. /\ Threaded(v) /\ Calmer(rt, v, size, {})
      /\ Grouped(rt) /\ ~rt[s].suspended => Grouped(v)
    BY <1>1, <1>3, <1>5, <1>6, DropGroups
<1>. HIDE DEF v
<1>8. Calmer(t.tab, v, size, W)
    BY <1>3, <1>7, CalmerTwice
<1>9. ASSUME Grouped(t.tab), ~t.tab[s].suspended PROVE Grouped(v)
    <2>1. CASE t.tab[s].pid # NoPid
        BY <1>3, <1>6, <1>7, <1>9, <2>1 DEF Calmer
    <2>2. CASE t.tab[s].pid = NoPid
        BY <1>1, <1>3, <1>5, <1>6, <1>9, <2>2 DEF Drop, v
    <2>. QED
        BY <2>1, <2>2
<1>. QED
    BY <1>7, <1>8, <1>9 DEF W, v

\* detach: the leader that lingered because of this thread is gone already.
LEMMA DetachGroups ==
    ASSUME NEW t, NEW size, Counted(t, size), Threaded(t.tab), NEW s \in 0 .. size - 1
    PROVE  LET v == Detach(t, s).tab IN
           /\ Threaded(v) /\ Calmer(t.tab, v, size, Woken(t.tab, s))
           /\ Grouped(t.tab) /\ ~t.tab[s].suspended => Grouped(v)
<1>. DEFINE q == t.tab[s].parent
            u == Leave(t, s)
            W == Woken(t.tab, s)
            last == t.tab[s].thread /\ t.tab[q].nthreads = 1 /\ t.tab[q].exiting
<1>1. /\ Threaded(u.tab) /\ Calmer(t.tab, u.tab, size, W)
      /\ Grouped(t.tab) /\ ~t.tab[s].suspended => Grouped(u.tab)
    BY LeaveGroups
<1>2. CASE ~last
    <2>1. Detach(t, s) = u
        BY <1>2 DEF Detach
    <2>. QED
        BY <1>1, <2>1
<1>3. CASE last
    <2>. DEFINE v == Drop(u, q).tab
    <2>1. Detach(t, s).tab = v
        BY <1>3 DEF Detach
    <2>2. q \in 0 .. size - 1 /\ (Grouped(t.tab) => ~t.tab[q].suspended)
        BY <1>3 DEF Counted, Sized, EntryOf, Grouped, GroupedEntry
    <2>3. Counted(u, size)
        BY LeaveShrinks DEF Shrunk
    <2>. HIDE DEF u, q, W
    <2>4. /\ Threaded(v) /\ Calmer(u.tab, v, size, {})
          /\ Grouped(u.tab) /\ ~u.tab[q].suspended => Grouped(v)
        BY <1>1, <2>2, <2>3, DropGroups
    <2>5. u.tab[q].pid = NoPid => v = u.tab
        BY DEF Drop
    <2>. HIDE DEF v
    <2>6. Calmer(t.tab, v, size, W)
        BY <1>1, <2>4, CalmerTwice
    <2>7. ASSUME Grouped(t.tab), ~t.tab[s].suspended PROVE Grouped(v)
        BY <1>1, <2>2, <2>4, <2>5, <2>7 DEF Calmer
    <2>. QED
        BY <2>1, <2>4, <2>6, <2>7 DEF W
<1>. QED
    BY <1>2, <1>3

\* What handle_new_child makes of the entry x when it links the child r, created in the
\* way k, to q.
LinkedEntry(tb, r, q, k, x, e) ==
    /\ e.pid = tb[x].pid /\ e.exiting = tb[x].exiting
    /\ x # r => /\ e.parent = tb[x].parent /\ e.thread = tb[x].thread
                /\ e.suspended = tb[x].suspended
    /\ x = r => e.parent = q /\ (e.thread <=> k = "thread") /\ ~e.suspended
    /\ x = q /\ k = "thread" => e.nthreads = tb[x].nthreads + 1
    /\ x # q \/ k # "thread" => e.nthreads = tb[x].nthreads
    /\ e.nwaiting = tb[x].nwaiting /\ e.nzombies = tb[x].nzombies

\* handle_new_child's link, one entry at a time.
LEMMA LinkedEntries ==
    ASSUME NEW t, NEW size, Counted(t, size), NEW r \in 0 .. size - 1,
           NEW q \in 0 .. size - 1 \cup {Null}, NEW k
    PROVE  /\ DOMAIN Linked(t.tab, r, q, k = "thread") = 0 .. size - 1
           /\ \A x \in 0 .. size - 1 :
                 LinkedEntry(t.tab, r, q, k, x, Linked(t.tab, r, q, k = "thread")[x])
<1>. DEFINE th == (k = "thread")
            c == Adopt(t.tab[r], q, th)
            a == [t.tab EXCEPT ![r] = c]
<1>1. t.tab \in [0 .. size - 1 -> EntryOf(0 .. size - 1)] /\ t.tab[r] \in EntryOf(0 .. size - 1)
    BY DEF Counted, Sized
<1>2. th \in BOOLEAN
    OBVIOUS
<1>3. c \in EntryOf(0 .. size - 1)
    BY <1>1, <1>2, EntriesKept
<1>4. /\ c.pid = t.tab[r].pid /\ c.exiting = t.tab[r].exiting
      /\ (c.thread <=> th) /\ c.parent = q /\ ~c.suspended
      /\ c.nthreads = t.tab[r].nthreads /\ c.nwaiting = t.tab[r].nwaiting
      /\ c.nzombies = t.tab[r].nzombies
    BY <1>1 DEF Adopt, EntryOf
<1>. HIDE DEF c
<1>5. /\ a \in [0 .. size - 1 -> EntryOf(0 .. size - 1)]
      /\ a[r] = c /\ \A x \in 0 .. size - 1 : x # r => a[x] = t.tab[x]
    BY <1>1, <1>3
<1>6. Linked(t.tab, r, q, k = "thread") =
          IF q = Null THEN a ELSE [a EXCEPT ![q] = GainChild(a[q], th)]
    BY DEF Linked, c
<1>. HIDE DEF a
<1>7. CASE q = Null
    <2>1. ~(q \in 0 .. size - 1)
        BY <1>7, NoneAssumption, SMT DEF Counted
    <2>2. ASSUME NEW x \in 0 .. size - 1 PROVE LinkedEntry(t.tab, r, q, k, x, a[x])
        <3>1. CASE x = r
            BY <1>4, <1>5, <2>1, <3>1 DEF LinkedEntry
        <3>2. CASE x # r
            BY <1>5, <2>1, <3>2 DEF LinkedEntry
        <3>. QED
            BY <3>1, <3>2
    <2>. QED
        BY <1>5, <1>6, <1>7, <2>2
<1>8. CASE q # Null
    <2>. DEFINE g == GainChild(a[q], th)
                v == [a EXCEPT ![q] = g]
    <2>1. q \in 0 .. size - 1 /\ a[q] \in EntryOf(0 .. size - 1)
        BY <1>5, <1>8
    <2>2. /\ SameButCounts(a[q], g)
          /\ th => g.nthreads = a[q].nthreads + 1
          /\ ~th => g.nthreads = a[q].nthreads
          /\ g.nwaiting = a[q].nwaiting /\ g.nzombies = a[q].nzombies
        BY <2>1, SMT DEF GainChild, SameButCounts, EntryOf
    <2>. HIDE DEF g
    <2>3. v[q] = g /\ \A x \in 0 .. size - 1 : x # q => v[x] = a[x]
        BY <1>5, <2>1
    <2>4. DOMAIN v = 0 .. size - 1
        BY <1>5
    <2>5. Linked(t.tab, r, q, k = "thread") = v
        BY <1>6, <1>8 DEF g
    <2>. HIDE DEF v
    <2>6. ASSUME NEW x \in 0 .. size - 1 PROVE LinkedEntry(t.tab, r, q, k, x, v[x])
        <3>1. CASE x = q /\ x = r
            BY <1>4, <1>5, <2>2, <2>3, <3>1, SMT DEF LinkedEntry, SameButCounts
        <3>2. CASE x = q /\ x # r
            BY <1>5, <2>2, <2>3, <3>2 DEF LinkedEntry, SameButCounts
        <3>3. CASE x # q /\ x = r
            BY <1>4, <1>5, <2>3, <3>3 DEF LinkedEntry
        <3>4. CASE x # q /\ x # r
            BY <1>5, <2>3, <3>4 DEF LinkedEntry
        <3>. QED
            BY <3>1, <3>2, <3>3, <3>4
    <2>. QED
        BY <2>4, <2>5, <2>6
<1>. QED
    BY <1>7, <1>8

\* handle_new_child's link of a child that is no thread yet: its parent counts it as a
\* thread exactly if it becomes one.
LEMMA LinkedGroups ==
    ASSUME NEW t, NEW size, Counted(t, size), Grouped(t.tab), NEW r \in 0 .. size - 1,
           NEW q \in 0 .. size - 1 \cup {Null}, NEW k,
           t.tab[r].pid # NoPid, ~t.tab[r].thread,
           NEW R, Related(t.tab, R),
           k = "thread" => /\ q # Null /\ t.tab[q].pid # NoPid
                           /\ <<t.tab[q].pid, t.tab[r].pid>> \in R
    PROVE  /\ Grouped(Linked(t.tab, r, q, k = "thread"))
           /\ Related(Linked(t.tab, r, q, k = "thread"), R)
<1>. DEFINE v == Linked(t.tab, r, q, k = "thread")
            th == (k = "thread")
<1>1. /\ t.tab \in [0 .. size - 1 -> EntryOf(0 .. size - 1)]
      /\ DOMAIN t.tab = 0 .. size - 1
    BY DEF Counted, Sized
<1>2. /\ DOMAIN v = 0 .. size - 1
      /\ \A x \in 0 .. size - 1 : LinkedEntry(t.tab, r, q, k, x, v[x])
    BY LinkedEntries
<1>. HIDE DEF v
<1>3. \A x \in 0 .. size - 1 :
          /\ v[x].pid = t.tab[x].pid /\ v[x].exiting = t.tab[x].exiting
          /\ v[x].nwaiting = t.tab[x].nwaiting /\ v[x].nzombies = t.tab[x].nzombies
          /\ v[x].suspended => t.tab[x].suspended
          /\ x # r => /\ v[x].parent = t.tab[x].parent /\ v[x].thread = t.tab[x].thread
                      /\ v[x].suspended = t.tab[x].suspended
    BY <1>2 DEF LinkedEntry
<1>4. v[r].parent = q /\ (v[r].thread <=> th) /\ ~v[r].suspended
    BY <1>2 DEF LinkedEntry
<1>5. ASSUME NEW x PROVE WaitingOf(v, x) = WaitingOf(t.tab, x)
    <2>1. \A y \in 0 .. size - 1 :
             v[y].thread /\ v[y].parent = x /\ v[y].suspended
             <=> t.tab[y].thread /\ t.tab[y].parent = x /\ t.tab[y].suspended
        BY <1>3, <1>4
    <2>. QED
        BY <1>1, <1>2, <2>1 DEF WaitingOf
<1>6. \A x : x # q \/ ~th => ThreadsOf(v, x) = ThreadsOf(t.tab, x)
    BY <1>1, <1>2, <1>3, <1>4, SMT DEF ThreadsOf
<1>7. th => ThreadsOf(v, q) = ThreadsOf(t.tab, q) \cup {r} /\ r \notin ThreadsOf(t.tab, q)
    BY <1>1, <1>2, <1>3, <1>4, SMT DEF ThreadsOf
<1>8. \A x : ThreadsOf(t.tab, x) \subseteq ThreadsOf(v, x)
    BY <1>6, <1>7
<1>9. ASSUME NEW x \in 0 .. size - 1 PROVE v[x].nthreads = Cardinality(ThreadsOf(v, x))
    <2>1. t.tab[x].nthreads = Cardinality(ThreadsOf(t.tab, x))
        BY <1>1 DEF Grouped, GroupedEntry
    <2>2. CASE x # q \/ ~th
        BY <1>2, <1>6, <2>1, <2>2 DEF LinkedEntry
    <2>3. CASE x = q /\ th
        <3>1. v[x].nthreads = t.tab[x].nthreads + 1
            BY <1>2, <2>3 DEF LinkedEntry
        <3>2. IsFiniteSet(ThreadsOf(t.tab, q))
            BY ThreadsFinite
        <3>3. Cardinality(ThreadsOf(t.tab, q) \cup {r}) = Cardinality(ThreadsOf(t.tab, q)) + 1
            BY <1>7, <2>3, <3>2, FS_AddElement
        <3>. QED
            BY <1>7, <2>1, <2>3, <3>1, <3>3
    <2>. QED
        BY <2>2, <2>3
<1>10. ASSUME NEW x \in 0 .. size - 1 PROVE GroupedEntry(v, x)
    <2>1. GroupedEntry(t.tab, x)
        BY <1>1 DEF Grouped
    <2>2. v[x].thread => v[x].pid # NoPid
        BY <1>3, <2>1 DEF GroupedEntry
    <2>3. ThreadsOf(v, x) # {} => v[x].pid # NoPid
        BY <1>3, <1>6, <2>1 DEF GroupedEntry
    <2>4. v[x].exiting => ThreadsOf(v, x) # {} /\ ~v[x].suspended
        BY <1>3, <1>8, <2>1 DEF GroupedEntry
    <2>5. v[x].nwaiting = Cardinality(WaitingOf(v, x)) /\ v[x].nzombies >= 0
        BY <1>3, <1>5, <2>1 DEF GroupedEntry
    <2>. QED
        BY <1>9, <2>2, <2>3, <2>4, <2>5 DEF GroupedEntry
<1>11. ASSUME NEW x \in 0 .. size - 1, v[x].thread
       PROVE  <<v[v[x].parent].pid, v[x].pid>> \in R
    <2>1. CASE x = r
        <3>1. th /\ q \in 0 .. size - 1
            BY <1>4, <1>11, <2>1
        <3>2. v[q].pid = t.tab[q].pid /\ v[r].pid = t.tab[r].pid /\ v[x].parent = q
            BY <1>3, <1>4, <2>1, <3>1
        <3>. QED
            BY <2>1, <3>1, <3>2
    <2>2. CASE x # r
        <3>1. t.tab[x].thread /\ v[x].parent = t.tab[x].parent /\ v[x].pid = t.tab[x].pid
            BY <1>3, <1>11, <2>2
        <3>2. t.tab[x].parent \in 0 .. size - 1
            BY <1>1, <3>1 DEF Counted, Sized, EntryOf
        <3>3. v[t.tab[x].parent].pid = t.tab[t.tab[x].parent].pid
            BY <1>3, <3>2
        <3>4. <<t.tab[t.tab[x].parent].pid, t.tab[x].pid>> \in R
            BY <1>1, <3>1 DEF Related
        <3>. QED
            BY <3>1, <3>3, <3>4
    <2>. QED
        BY <2>1, <2>2
<1>12. Grouped(v) /\ Related(v, R)
    BY <1>2, <1>10, <1>11 DEF Grouped, Related
<1>. QED
    BY <1>12 DEF v

\* handle_new_child: the entry of the child, created if need be, is no thread's yet.
LEMMA AttachedGroups ==
    ASSUME NEW t, NEW size, Counted(t, size), Grouped(t.tab), NEW c \in Pids,
           \A r \in 0 .. size - 1 : t.tab[r].pid = c => ~t.tab[r].thread,
           NEW R, Related(t.tab, R)
    PROVE  /\ Grouped(Attached(t, c).tab) /\ Related(Attached(t, c).tab, R)
           /\ \A r \in Used(t.tab) : Attached(t, c).tab[r] = t.tab[r]
           /\ \A r \in Used(Attached(t, c).tab) :
                 \/ Attached(t, c).tab[r].pid = c /\ ~Attached(t, c).tab[r].thread
                 \/ r \in DOMAIN t.tab /\ Attached(t, c).tab[r] = t.tab[r]
<1>1. DOMAIN t.tab = 0 .. size - 1
    BY DEF Counted, Sized
<1>2. CASE \E r \in DOMAIN t.tab : t.tab[r].pid = c
    <2>1. Attached(t, c) = t
        BY <1>2 DEF Attached
    <2>. QED
        BY <2>1 DEF Used
<1>3. CASE ~ \E r \in DOMAIN t.tab : t.tab[r].pid = c
    <2>. DEFINE u == Alloc(t, c, FALSE)
    <2>1. Attached(t, c) = u
        BY <1>3 DEF Attached
    <2>2. c \notin PidsOf(t.tab)
        BY <1>3 DEF PidsOf, Used
    <2>3. PICK sz, f : Allocated(t, u, c, FALSE, size, sz, f)
        BY AllocEntries
    <2>. HIDE DEF u
    <2>4. Grouped(u.tab) /\ Related(u.tab, R)
        BY <2>3, AllocatedGroups
    <2>5. ASSUME NEW r \in Used(t.tab) PROVE u.tab[r] = t.tab[r]
        <3>1. r \in 0 .. size - 1 /\ t.tab[r].pid # NoPid /\ size \in Nat
            BY <1>1 DEF Used, Counted
        <3>. QED
            BY <2>3, <3>1, SMT DEF Allocated
    <2>6. ASSUME NEW r \in Used(u.tab)
          PROVE  \/ u.tab[r].pid = c /\ ~u.tab[r].thread
                 \/ r \in DOMAIN t.tab /\ u.tab[r] = t.tab[r]
        <3>1. r \in 0 .. sz - 1 /\ u.tab[r].pid # NoPid
            BY <2>3 DEF Used, Allocated
        <3>2. CASE r = f
            BY <2>3, <3>2 DEF Allocated
        <3>3. CASE r # f
            <4>1. u.tab[r] = IF r < size THEN t.tab[r] ELSE Unused
                BY <2>3, <3>1, <3>3 DEF Allocated
            <4>2. r < size /\ u.tab[r] = t.tab[r]
                BY <3>1, <4>1, SMT DEF Unused
            <4>3. size \in Nat /\ sz \in Nat
                BY <2>3 DEF Counted, Allocated
            <4>. QED
                BY <1>1, <3>1, <4>2, <4>3, SMT
        <3>. QED
            BY <3>2, <3>3
    <2>. QED
        BY <2>1, <2>4, <2>5, <2>6
<1>. QED
    BY <1>2, <1>3

\* The entries in use in ub are that of c, not suspended, and entries that were in use
\* in tb and have neither become a thread's nor been suspended.
Adopted(tb, ub, c) ==
    \A r \in Used(ub) :
        \/ ub[r].pid = c /\ ~ub[r].suspended
        \/ /\ ub[r].pid # c /\ r \in DOMAIN tb /\ ub[r].pid = tb[r].pid
           /\ ub[r].suspended => tb[r].suspended
           /\ ub[r].thread => tb[r].thread

\* handle_new_child keeps the counters exact: a thread of a thread is counted by the
\* leader they share.
LEMMA AddChildGroups ==
    ASSUME NEW t, NEW size, Counted(t, size), Grouped(t.tab),
           NEW s \in 0 .. size - 1, t.tab[s].pid # NoPid, NEW c \in Pids, NEW k,
           \A r \in 0 .. size - 1 : t.tab[r].pid = c => ~t.tab[r].thread,
           NEW R, \A x, y, z : <<x, y>> \in R /\ <<y, z>> \in R => <<x, z>> \in R,
           Related(t.tab, R), k = "thread" => <<t.tab[s].pid, c>> \in R
    PROVE  /\ Grouped(AddChild(t, s, c, k).tab) /\ Related(AddChild(t, s, c, k).tab, R)
           /\ Adopted(t.tab, AddChild(t, s, c, k).tab, c)
<1>. DEFINE u == Attached(t, c)
            r == CHOOSE x \in DOMAIN u.tab : u.tab[x].pid = c
            q == FinalParent(u.tab, s, k)
            l == Linked(u.tab, r, q, k = "thread")
<1>1. PICK sz : Counted(u, sz)
    BY AttachedKeeps
<1>2. PidsOf(u.tab) = PidsOf(t.tab) \cup {c} /\ DOMAIN t.tab \subseteq DOMAIN u.tab
    BY AttachedKeeps
<1>3. AddChild(t, s, c, k).tab = l
    <2>1. AddChild(t, s, c, k) = [u EXCEPT !.tab = l]
        BY DEF AddChild
    <2>2. u = [tab |-> u.tab, n |-> u.n]
        BY <1>1 DEF Counted
    <2>. HIDE DEF u, l
    <2>. QED
        BY <2>1, <2>2
<1>4. /\ Grouped(u.tab) /\ Related(u.tab, R)
      /\ \A x \in Used(t.tab) : u.tab[x] = t.tab[x]
      /\ \A x \in Used(u.tab) : \/ u.tab[x].pid = c /\ ~u.tab[x].thread
                                \/ x \in DOMAIN t.tab /\ u.tab[x] = t.tab[x]
    BY AttachedGroups
<1>. HIDE DEF u
<1>5. /\ u.tab \in [0 .. sz - 1 -> EntryOf(0 .. sz - 1)] /\ sz \in Nat \ {0}
      /\ \A x \in 0 .. sz - 1 : u.tab[x].thread => u.tab[x].parent # Null
      /\ DOMAIN t.tab = 0 .. size - 1
    BY <1>1 DEF Counted, Sized
<1>6. s \in 0 .. sz - 1 /\ u.tab[s] = t.tab[s]
    BY <1>2, <1>4, <1>5 DEF Used
<1>7. r \in 0 .. sz - 1 /\ u.tab[r].pid = c /\ c # NoPid
    <2>1. \E x \in DOMAIN u.tab : u.tab[x].pid = c
        BY <1>2 DEF PidsOf, Used
    <2>. QED
        BY <1>5, <2>1, NoneAssumption
<1>. HIDE DEF r
<1>8. ~u.tab[r].thread
    BY <1>4, <1>5, <1>7 DEF Used
<1>9. NewParent(u.tab, s, k) \in 0 .. sz - 1
    BY <1>5, <1>6 DEF NewParent, EntryOf
<1>10. q \in 0 .. sz - 1 \cup {Null}
    BY <1>5, <1>9 DEF FinalParent, EntryOf
<1>11. ASSUME k = "thread"
       PROVE  q # Null /\ u.tab[q].pid # NoPid /\ <<u.tab[q].pid, u.tab[r].pid>> \in R
    <2>1. q = IF u.tab[s].thread THEN u.tab[s].parent ELSE s
        BY <1>5, <1>6, <1>11 DEF FinalParent, NewParent
    <2>2. q \in 0 .. sz - 1
        <3>1. u.tab[s].thread => u.tab[s].parent \in 0 .. sz - 1
            BY <1>5, <1>6 DEF EntryOf
        <3>. QED
            BY <1>6, <2>1, <3>1
    <2>3. <<u.tab[s].pid, c>> \in R
        BY <1>6, <1>11
    <2>. HIDE DEF q
    <2>. SUFFICES u.tab[q].pid # NoPid /\ <<u.tab[q].pid, c>> \in R
        BY <1>5, <1>7, <2>2, NoneAssumption, SMT
    <2>4. CASE u.tab[s].thread
        <3>1. s \in ThreadsOf(u.tab, q) /\ DOMAIN u.tab = 0 .. sz - 1
            BY <1>5, <1>6, <2>1, <2>4 DEF ThreadsOf
        <3>2. u.tab[q].pid # NoPid
            BY <1>4, <2>2, <3>1 DEF Grouped, GroupedEntry
        <3>3. <<u.tab[q].pid, u.tab[s].pid>> \in R
            BY <1>4, <1>6, <2>1, <2>4, <3>1 DEF Related
        <3>. QED
            BY <2>3, <3>2, <3>3
    <2>5. CASE ~u.tab[s].thread
        BY <1>6, <2>1, <2>3, <2>5
    <2>. QED
        BY <2>4, <2>5
<1>. HIDE DEF q
<1>12. Grouped(l) /\ Related(l, R)
    BY <1>1, <1>4, <1>7, <1>8, <1>10, <1>11, LinkedGroups
<1>13. /\ DOMAIN l = 0 .. sz - 1
       /\ \A x \in 0 .. sz - 1 : LinkedEntry(u.tab, r, q, k, x, l[x])
    BY <1>1, <1>7, <1>10, LinkedEntries
<1>. HIDE DEF l
<1>14. ASSUME NEW x \in Used(l)
       PROVE  \/ l[x].pid = c /\ ~l[x].suspended
              \/ /\ l[x].pid # c /\ x \in DOMAIN t.tab /\ l[x].pid = t.tab[x].pid
                 /\ l[x].suspended => t.tab[x].suspended
                 /\ l[x].thread => t.tab[x].thread
    <2>1. x \in 0 .. sz - 1 /\ l[x].pid # NoPid
        BY <1>13 DEF Used
    <2>2. CASE x = r
        BY <1>7, <1>13, <2>1, <2>2 DEF LinkedEntry
    <2>3. CASE x # r
        <3>1. /\ l[x].pid = u.tab[x].pid /\ l[x].thread = u.tab[x].thread
              /\ l[x].suspended = u.tab[x].suspended
            BY <1>13, <2>1, <2>3 DEF LinkedEntry
        <3>2. x \in Used(u.tab) /\ r \in Used(u.tab)
            BY <1>5, <1>7, <2>1, <3>1 DEF Used
        <3>3. u.tab[x].pid # c
            BY <1>1, <1>7, <2>3, <3>2 DEF Counted, Sized
        <3>4. x \in DOMAIN t.tab /\ u.tab[x] = t.tab[x]
            BY <1>4, <3>2, <3>3
        <3>. QED
            BY <3>1, <3>3, <3>4
    <2>. QED
        BY <2>2, <2>3
<1>. QED
    BY <1>3, <1>12, <1>14 DEF Adopted
-----------------------------------------------------------------------------
\* cleanup is through with the entry r: it is free, or a zombie that goes with its last
\* thread.
Done(tb, r) == tb[r].pid = NoPid \/ tb[r].exiting

\* From tb to ub no entry becomes one to see to again.
Undone(tb, ub, size) == \A r \in 0 .. size - 1 : Done(tb, r) => Done(ub, r)

\* droptcb is through with its entry.
LEMMA DropDone ==
    ASSUME NEW t, NEW size, Counted(t, size), NEW s \in 0 .. size - 1
    PROVE  Undone(t.tab, Drop(t, s).tab, size) /\ Done(Drop(t, s).tab, s)
<1>1. CASE t.tab[s].pid = NoPid
    BY <1>1 DEF Drop, Undone, Done
<1>2. CASE t.tab[s].pid # NoPid /\ ~(t.tab[s].nthreads > 0)
    <2>. DEFINE D == Dropped(t.tab, s)
                v == Freed(t, D).tab
    <2>1. Drop(t, s).tab = v
        BY <1>2 DEF Drop
    <2>2. s \in D /\ D \subseteq 0 .. size - 1
        BY <1>2, DroppedSet DEF Used, Counted, Sized
    <2>. HIDE DEF D
    <2>3. \A r \in 0 .. size - 1 : FreedEntry(t.tab, D, r, v[r])
        BY <2>2, FreedEntries
    <2>. HIDE DEF v
    <2>4. \A r \in 0 .. size - 1 :
              IF r \in D THEN v[r].pid = NoPid
              ELSE v[r].pid = t.tab[r].pid /\ v[r].exiting = t.tab[r].exiting
        BY <2>3 DEF FreedEntry, SameButCounts
    <2>. QED
        BY <2>1, <2>2, <2>4 DEF Undone, Done
<1>3. CASE t.tab[s].pid # NoPid /\ t.tab[s].nthreads > 0
    <2>. DEFINE v == Drop(t, s).tab
    <2>1. v[s] = Linger(t.tab[s]) /\ \A r \in 0 .. size - 1 : r # s => v[r] = t.tab[r]
        BY <1>3, LingerTable
    <2>2. Linger(t.tab[s]).exiting
        BY DEF Linger, Counted, Sized, EntryOf
    <2>. HIDE DEF v
    <2>3. Undone(t.tab, v, size) /\ Done(v, s)
        BY <2>1, <2>2 DEF Undone, Done
    <2>. QED
        BY <2>3 DEF v
<1>. QED
    BY <1>1, <1>2, <1>3

\* So is detach.
LEMMA DetachDone ==
    ASSUME NEW t, NEW size, Counted(t, size), NEW s \in 0 .. size - 1
    PROVE  Undone(t.tab, Detach(t, s).tab, size) /\ Done(Detach(t, s).tab, s)
<1>. DEFINE rt == Resume(t.tab, Woken(t.tab, s))
            w == [tab |-> rt, n |-> t.n]
            u == Leave(t, s)
            q == t.tab[s].parent
            last == t.tab[s].thread /\ t.tab[q].nthreads = 1 /\ t.tab[q].exiting
<1>1. u = Drop(w, s)
    BY SMT DEF Leave, Counted
<1>2. Alike(t.tab, rt, size)
    BY WokenInTable, ResumeAlike
<1>. HIDE DEF rt
<1>3. Counted(w, size) /\ Undone(t.tab, w.tab, size)
    BY <1>2, AlikeKeeps DEF Undone, Done, Alike
<1>. HIDE DEF w
<1>4. Undone(w.tab, Drop(w, s).tab, size) /\ Done(Drop(w, s).tab, s)
    BY <1>3, DropDone
<1>5. Undone(t.tab, u.tab, size) /\ Done(u.tab, s)
    BY <1>1, <1>3, <1>4 DEF Undone
<1>6. Counted(u, size)
    BY LeaveShrinks DEF Shrunk
<1>. HIDE DEF u
<1>7. CASE ~last
    <2>1. Detach(t, s) = u
        BY <1>7 DEF Detach, u
    <2>. QED
        BY <1>5, <2>1
<1>8. CASE last
    <2>1. Detach(t, s) = Drop(u, q)
        BY <1>8 DEF Detach, u
    <2>2. q \in 0 .. size - 1
        BY <1>8 DEF Counted, Sized, EntryOf
    <2>. HIDE DEF q
    <2>3. Undone(u.tab, Drop(u, q).tab, size)
        BY <1>6, <2>2, DropDone
    <2>. QED
        BY <1>5, <2>1, <2>3 DEF Undone
<1>. QED
    BY <1>7, <1>8

\* What holds before the round i of the loop of cleanup.
Cleaned(u, size, R, i) ==
    /\ Counted(u, size) /\ Threaded(u.tab) /\ Related(u.tab, R)
    /\ \A r \in 0 .. i - 1 : Done(u.tab, r)

\* A round of the loop.
LEMMA CleanStepKeeps ==
    ASSUME NEW u, NEW size \in Nat, NEW R, NEW i \in 0 .. size - 1, Cleaned(u, size, R, i)
    PROVE  Cleaned(CleanStep(u, i), size, R, i + 1)
<1>. DEFINE v == CleanStep(u, i)
<1>1. Counted(u, size) /\ Threaded(u.tab) /\ Related(u.tab, R)
    BY DEF Cleaned
<1>2. \A r \in 0 .. i : r \in 0 .. size - 1 /\ (r # i => Done(u.tab, r))
    <2>1. \A r \in 0 .. i : r \in 0 .. size - 1 /\ (r # i => r \in 0 .. i - 1)
        BY SMT
    <2>. QED
        BY <2>1 DEF Cleaned
<1>3. /\ Counted(v, size) /\ Threaded(v.tab) /\ Related(v.tab, R)
      /\ Undone(u.tab, v.tab, size) /\ Done(v.tab, i)
    <2>1. CASE u.tab[i].pid = NoPid
        BY <1>1, <2>1 DEF CleanStep, Undone, Done
    <2>2. CASE u.tab[i].pid # NoPid
        <3>1. v = Detach(u, i)
            BY <2>2 DEF CleanStep
        <3>2. Counted(v, size)
            BY <1>1, <3>1, DetachShrinks DEF Shrunk
        <3>3. Threaded(v.tab) /\ Calmer(u.tab, v.tab, size, Woken(u.tab, i))
            BY <1>1, <3>1, DetachGroups
        <3>4. Undone(u.tab, v.tab, size) /\ Done(v.tab, i)
            BY <1>1, <3>1, DetachDone
        <3>. HIDE DEF v
        <3>5. Related(v.tab, R)
            BY <1>1, <3>2, <3>3, CalmerRelated
        <3>. QED
            BY <3>2, <3>3, <3>4, <3>5
    <2>. QED
        BY <2>1, <2>2
<1>. HIDE DEF v
<1>4. \A r \in 0 .. i : Done(v.tab, r)
    BY <1>2, <1>3 DEF Undone
<1>5. 0 .. (i + 1) - 1 = 0 .. i
    BY SMT
<1>. QED
    BY <1>3, <1>4, <1>5 DEF Cleaned, v

\* The tables after each round of the loop.
Runs(f, t, n) == f = [i \in 0 .. n |-> IF i = 0 THEN t ELSE CleanStep(f[i - 1], i - 1)]

\* There is such a sequence of tables, since each is made from the one before.
LEMMA RunExists ==
    ASSUME NEW t, NEW n \in Nat
    PROVE  \E f : Runs(f, t, n)
<1>. DEFINE S == {m \in Nat : ~\E f : Runs(f, t, m)}
<1>. SUFFICES ASSUME S # {} PROVE FALSE
    OBVIOUS
<1>1. PICK m \in S : \A y \in S : ~(<<y, m>> \in Below)
    BY BelowIsWellFounded, WFMin
<1>2. CASE m = 0
    <2>. DEFINE f == [i \in 0 .. 0 |-> t]
    <2>1. Runs(f, t, 0)
        BY SMT DEF Runs
    <2>. QED
        BY <1>2, <2>1
<1>3. CASE m # 0
    <2>1. m \in Nat /\ m - 1 \in Nat /\ <<m - 1, m>> \in Below
        BY <1>3, SMT DEF Below
    <2>2. PICK f : Runs(f, t, m - 1)
        BY <1>1, <2>1
    <2>. DEFINE g == [i \in 0 .. m |-> IF i < m THEN f[i] ELSE CleanStep(f[m - 1], m - 1)]
    <2>3. ASSUME NEW i \in 0 .. m
          PROVE  g[i] = IF i = 0 THEN t ELSE CleanStep(g[i - 1], i - 1)
        <3>1. CASE i = m
            BY <1>3, <2>1, <3>1, SMT
        <3>2. CASE i # m
            <4>1. i \in 0 .. m - 1 /\ g[i] = f[i] /\ (i # 0 => g[i - 1] = f[i - 1])
                BY <2>1, <3>2, SMT
            <4>2. f[i] = IF i = 0 THEN t ELSE CleanStep(f[i - 1], i - 1)
                BY <2>2, <4>1 DEF Runs
            <4>. QED
                BY <4>1, <4>2
        <3>. QED
            BY <3>1, <3>2
    <2>4. g = [i \in 0 .. m |-> g[i]]
        OBVIOUS
    <2>. HIDE DEF g
    <2>5. Runs(g, t, m)
        BY <2>3, <2>4 DEF Runs
    <2>. QED
        BY <2>5
<1>. QED
    BY <1>2, <1>3

\* cleanup sees to every entry.
LEMMA CleanupDone ==
    ASSUME NEW t, NEW size, Counted(t, size), Threaded(t.tab), NEW R, Related(t.tab, R)
    PROVE  Cleaned(Cleanup(t), size, R, size)
<1>. DEFINE f == CHOOSE g : Runs(g, t, size)
<1>1. Cardinality(DOMAIN t.tab) = size /\ size \in Nat
    BY UsedFinite DEF Counted, Sized
<1>2. Cleanup(t) = f[size]
    BY <1>1 DEF Cleanup, Runs
<1>3. Runs(f, t, size)
    BY <1>1, RunExists
<1>. HIDE DEF f
<1>4. \A i \in 0 .. size : f[i] = IF i = 0 THEN t ELSE CleanStep(f[i - 1], i - 1)
    BY <1>3 DEF Runs
<1>. DEFINE S == {i \in 0 .. size : ~Cleaned(f[i], size, R, i)}
<1>5. S = {}
    <2>. SUFFICES ASSUME S # {} PROVE FALSE
        OBVIOUS
    <2>1. S \subseteq Nat
        BY <1>1, SMT
    <2>. HIDE DEF S
    <2>2. PICK m \in S : \A y \in S : ~(<<y, m>> \in Below)
        BY <2>1, BelowIsWellFounded, WFMin
    <2>3. m \in 0 .. size /\ ~Cleaned(f[m], size, R, m)
        BY <2>2 DEF S
    <2>4. CASE m = 0
        <3>1. f[0] = t /\ 0 .. 0 - 1 = {}
            BY <1>1, <1>4, SMT
        <3>. QED
            BY <2>3, <2>4, <3>1 DEF Cleaned
    <2>5. CASE m # 0
        <3>1. /\ m - 1 \in 0 .. size /\ m - 1 \in 0 .. size - 1 /\ (m - 1) + 1 = m
              /\ <<m - 1, m>> \in Below
            BY <1>1, <2>3, <2>5, SMT DEF Below
        <3>2. Cleaned(f[m - 1], size, R, m - 1)
            BY <2>2, <3>1 DEF S
        <3>3. Cleaned(CleanStep(f[m - 1], m - 1), size, R, (m - 1) + 1)
            BY <1>1, <3>1, <3>2, CleanStepKeeps
        <3>. QED
            BY <1>4, <2>3, <2>5, <3>1, <3>3
    <2>. QED
        BY <2>4, <2>5
<1>6. size \in 0 .. size
    BY <1>1, SMT
<1>. QED
    BY <1>2, <1>5, <1>6

\* What a sequence of zombies, each pointed to by a thread that is a zombie itself, would
\* need: a process that is younger than all others.  So no zombie is left.
LEMMA NoZombieLeft ==
    ASSUME NEW u, NEW size, NEW R, Cleaned(u, size, R, size),
           R \subseteq Pids \X Pids, \A x : ~(<<x, x>> \in R),
           \A x, y, z : <<x, y>> \in R /\ <<y, z>> \in R => <<x, z>> \in R
    PROVE  Used(u.tab) = {}
<1>. DEFINE A(p) == {x \in Pids : <<p, x>> \in R}
            S == {Cardinality(A(u.tab[q].pid)) : q \in Used(u.tab)}
<1>1. /\ u.tab \in [0 .. size - 1 -> EntryOf(0 .. size - 1)] /\ size \in Nat
      /\ \A r \in 0 .. size - 1 : u.tab[r].thread => u.tab[r].parent # Null
      /\ Threaded(u.tab) /\ Related(u.tab, R) /\ \A r \in 0 .. size - 1 : Done(u.tab, r)
    BY DEF Cleaned, Counted, Sized
<1>2. \A p : IsFiniteSet(A(p)) /\ Cardinality(A(p)) \in Nat
    <2>. TAKE p
    <2>1. IsFiniteSet(A(p))
        BY RootAssumption, FS_Subset
    <2>. QED
        BY <2>1, FS_CardinalityType
<1>3. ASSUME NEW q \in Used(u.tab)
      PROVE  \E r \in Used(u.tab) : <<u.tab[q].pid, u.tab[r].pid>> \in R
    <2>1. q \in 0 .. size - 1 /\ u.tab[q].exiting
        BY <1>1 DEF Used, Done
    <2>2. PICK r \in ThreadsOf(u.tab, q) : TRUE
        BY <1>1, <2>1 DEF Threaded, ThreadedEntry
    <2>3. r \in 0 .. size - 1 /\ u.tab[r].thread /\ u.tab[r].parent = q
        BY <1>1, <2>2 DEF ThreadsOf
    <2>4. r \in Used(u.tab)
        BY <1>1, <2>3 DEF Threaded, ThreadedEntry, Used
    <2>5. <<u.tab[q].pid, u.tab[r].pid>> \in R
        BY <1>1, <2>3 DEF Related
    <2>. QED
        BY <2>4, <2>5
<1>4. ASSUME NEW x, NEW y, <<x, y>> \in R
      PROVE  Cardinality(A(y)) < Cardinality(A(x))
    <2>1. A(y) \subseteq A(x) /\ y \in A(x) /\ y \notin A(y)
        BY <1>4
    <2>2. A(y) # A(x)
        BY <2>1
    <2>. HIDE DEF A
    <2>3. Cardinality(A(y)) <= Cardinality(A(x)) /\ Cardinality(A(y)) # Cardinality(A(x))
        BY <1>2, <2>1, <2>2, FS_Subset
    <2>. QED
        BY <1>2, <2>3, SMT
<1>. SUFFICES ASSUME Used(u.tab) # {} PROVE FALSE
    OBVIOUS
<1>. HIDE DEF A
<1>5. S # {} /\ S \subseteq Nat
    BY <1>2
<1>6. PICK q \in Used(u.tab) : \A r \in Used(u.tab) :
          ~(<<Cardinality(A(u.tab[r].pid)), Cardinality(A(u.tab[q].pid))>> \in Below)
    <2>. HIDE DEF S
    <2>1. PICK m \in S : \A y \in S : ~(<<y, m>> \in Below)
        BY <1>5, BelowIsWellFounded, WFMin
    <2>. QED
        BY <2>1 DEF S
<1>7. PICK r \in Used(u.tab) : <<u.tab[q].pid, u.tab[r].pid>> \in R
    BY <1>3
<1>8. Cardinality(A(u.tab[r].pid)) < Cardinality(A(u.tab[q].pid))
    BY <1>4, <1>7
<1>9. <<Cardinality(A(u.tab[r].pid)), Cardinality(A(u.tab[q].pid))>> \in Below
    BY <1>2, <1>8 DEF Below
<1>. QED
    BY <1>6, <1>9
=============================================================================
