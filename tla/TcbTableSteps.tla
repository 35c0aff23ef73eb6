--------------------------- MODULE TcbTableSteps ---------------------------
(***************************************************************************)
(* Lemmas on the functions of the table of traced processes, one by one:   *)
(* what each keeps of a table whose count is exact and whose pids are      *)
(* unique, and which pids it enters or drops.                              *)
(***************************************************************************)
EXTENDS TcbTable, FiniteSetTheorems, WellFoundedInduction, TLAPS

\* Most leaves are first-order reasoning about sets and functions: Zenon is tried first.
USE Zenon, SMTT(20)

EntryOf(S) ==
    [pid : Pids \cup {NoPid}, parent : S \cup {Null},
     nchildren : Int, nzombies : Int, nthreads : Int, nwaiting : Int,
     waitpid : Pids \cup {AnyPid}, thread : BOOLEAN, exiting : BOOLEAN, suspended : BOOLEAN]

Used(tb) == {s \in DOMAIN tb : tb[s].pid # NoPid}
PidsOf(tb) == {tb[s].pid : s \in Used(tb)}
Exiting(tb) == {tb[s].pid : s \in {r \in Used(tb) : tb[r].exiting}}

\* A table of the given size, whose threads have parents and whose pids are unique.
Sized(tb, size) ==
    /\ tb \in [0 .. size - 1 -> EntryOf(0 .. size - 1)]
    /\ \A s \in 0 .. size - 1 : tb[s].thread => tb[s].parent # Null
    /\ \A r, s \in Used(tb) : tb[r].pid = tb[s].pid => r = s

\* The same with its count.
Counted(t, size) ==
    /\ t = [tab |-> t.tab, n |-> t.n]
    /\ size \in Nat \ {0}
    /\ Sized(t.tab, size)
    /\ t.n = Cardinality(Used(t.tab))

-----------------------------------------------------------------------------
Below == {ss \in Nat \X Nat : ss[1] < ss[2]}

\* The order of the naturals, as a relation, is well-founded.
LEMMA BelowIsWellFounded == IsWellFoundedOn(Below, Nat)
<1>1. OpToRel(<, Nat) = Below
    BY DEF OpToRel, Below
<1>. QED
    BY <1>1, NatLessThanWellFounded

\* A set of numbers that is not empty has a least one: alloc_tcb's scan stops at it.
LEMMA LeastExists ==
    ASSUME NEW S, S \subseteq Nat, S # {}
    PROVE  Least(S) \in S
<1>1. \E x \in S : \A y \in S : ~(<<y, x>> \in Below)
    BY BelowIsWellFounded, WFMin
<1>2. PICK x \in S : \A y \in S : ~(<<y, x>> \in Below)
    BY <1>1
<1>3. \A y \in S : x <= y
    <2>. TAKE y \in S
    <2>1. x \in Nat /\ y \in Nat
        OBVIOUS
    <2>2. y < x => <<y, x>> \in Below
        BY <2>1 DEF Below
    <2>. QED
        BY <1>2, <2>1, <2>2, SMT
<1>. QED
    BY <1>3 DEF Least

\* The entries in use are finitely many, and some entry is free when the count is below
\* the size.
LEMMA UsedFinite ==
    ASSUME NEW tb, NEW size \in Nat, DOMAIN tb = 0 .. size - 1
    PROVE  /\ IsFiniteSet(0 .. size - 1) /\ Cardinality(0 .. size - 1) = size
           /\ IsFiniteSet(Used(tb)) /\ Cardinality(Used(tb)) \in Nat
           /\ Cardinality(Used(tb)) <= size
           /\ Cardinality(Used(tb)) = size => Used(tb) = 0 .. size - 1
<1>1. IsFiniteSet(0 .. size - 1) /\ Cardinality(0 .. size - 1) = size
    BY FS_Interval, SMT
<1>2. Used(tb) \subseteq 0 .. size - 1
    BY DEF Used
<1>. QED
    BY <1>1, <1>2, FS_Subset, FS_CardinalityType, SMT

\* An entry of a small table is an entry of a larger one.
LEMMA EntryGrows ==
    ASSUME NEW S, NEW T, S \subseteq T
    PROVE  EntryOf(S) \subseteq EntryOf(T)
    BY DEF EntryOf

\* The entry that alloc_tcb fills in.
Entered(p, held, w) == [Unused EXCEPT !.pid = p, !.suspended = held, !.waitpid = w]

\* The entry that alloc_tcb fills in has the types of an entry.
LEMMA EntryEntered ==
    ASSUME NEW S, NEW p \in Pids, NEW w \in Pids \cup {AnyPid}
    PROVE  \A held \in BOOLEAN : Entered(p, held, w) \in EntryOf(S)
<1>1. Unused \in [pid : Pids \cup {NoPid}, parent : S \cup {Null},
                  nchildren : Int, nzombies : Int, nthreads : Int, nwaiting : Int,
                  waitpid : Pids \cup {AnyPid}, thread : BOOLEAN, exiting : BOOLEAN,
                  suspended : BOOLEAN]
    BY SMT DEF Unused
<1>. QED
    BY <1>1 DEF EntryOf, Entered

\* The table u is t with p in the entry f, after an expansion to sz entries if need be.
Allocated(t, u, p, held, size, sz, f) ==
    /\ sz \in Nat \ {0} /\ size <= sz /\ f \in 0 .. sz - 1
    /\ u = [tab |-> u.tab, n |-> t.n + 1]
    /\ u.tab \in [0 .. sz - 1 -> EntryOf(0 .. sz - 1)]
    /\ \A r \in 0 .. sz - 1 : r # f => u.tab[r] = IF r < size THEN t.tab[r] ELSE Unused
    /\ f < size => t.tab[f].pid = NoPid
    /\ u.tab[f].pid = p /\ u.tab[f].thread = FALSE /\ u.tab[f].exiting = FALSE
    /\ u.tab[f].suspended = held
    /\ u.tab[f].nthreads = 0 /\ u.tab[f].nwaiting = 0 /\ u.tab[f].nzombies = 0

\* alloc_tcb finds a free entry, whatever the table's size.
LEMMA AllocEntries ==
    ASSUME NEW t, NEW size, Counted(t, size), NEW p \in Pids, NEW held \in BOOLEAN
    PROVE  \E sz, f : Allocated(t, Alloc(t, p, held), p, held, size, sz, f)
<1>. DEFINE sz == IF t.n = size THEN 2 * size ELSE size
            e == Expanded(t)
            f == FreeSlot(t)
            rec == Entered(p, held, e[f].waitpid)
            nt == [e EXCEPT ![f] = rec]
<1>1. /\ size \in Nat \ {0} /\ DOMAIN t.tab = 0 .. size - 1
      /\ t.tab \in [0 .. size - 1 -> EntryOf(0 .. size - 1)]
      /\ Cardinality(DOMAIN t.tab) = size
    BY UsedFinite DEF Counted, Sized
<1>2. sz \in Nat \ {0} /\ size <= sz /\ (t.n = size => size < sz)
    BY <1>1, SMT
<1>3. /\ DOMAIN e = 0 .. sz - 1
      /\ \A s \in 0 .. sz - 1 : e[s] = IF s < size THEN t.tab[s] ELSE Unused
    BY <1>1, <1>2, SMT DEF Expanded
<1>4. Unused \in EntryOf(0 .. sz - 1) /\ Unused.pid = NoPid
    BY SMT DEF Unused, EntryOf
<1>5. \A s \in 0 .. sz - 1 : e[s] \in EntryOf(0 .. sz - 1)
    <2>. TAKE s \in 0 .. sz - 1
    <2>1. CASE s < size
        <3>1. s \in 0 .. size - 1
            BY <1>1, <2>1, SMT
        <3>2. e[s] \in EntryOf(0 .. size - 1)
            BY <1>1, <1>3, <2>1, <3>1
        <3>3. 0 .. size - 1 \subseteq 0 .. sz - 1
            BY <1>1, <1>2, SMT
        <3>. HIDE DEF sz, e
        <3>. QED
            BY <3>2, <3>3, EntryGrows
    <2>. QED
        BY <1>1, <1>3, <1>4, <2>1
<1>6. Used(e) = Used(t.tab) /\ \A s \in Used(e) : e[s] = t.tab[s] /\ s \in 0 .. size - 1
    BY <1>1, <1>2, <1>3, <1>4, SMT DEF Used
<1>7. {s \in DOMAIN e : e[s].pid = NoPid} # {}
    <2>1. CASE t.n = size
        BY <1>1, <1>2, <1>3, <1>4, <2>1, SMT
    <2>2. CASE t.n # size
        <3>1. Used(t.tab) # 0 .. size - 1
            BY <1>1, <2>2, UsedFinite DEF Counted
        <3>2. PICK s \in 0 .. size - 1 : t.tab[s].pid = NoPid
            BY <1>1, <3>1 DEF Used
        <3>. QED
            BY <1>1, <1>2, <1>3, <3>2, SMT
    <2>. QED
        BY <2>1, <2>2
<1>8. f \in 0 .. sz - 1 /\ e[f].pid = NoPid
    <2>1. {s \in DOMAIN e : e[s].pid = NoPid} \subseteq Nat
        BY <1>2, <1>3, SMT
    <2>. HIDE DEF sz, e
    <2>2. f \in {s \in DOMAIN e : e[s].pid = NoPid}
        BY <1>7, <2>1, LeastExists DEF FreeSlot, e
    <2>. QED
        BY <1>3, <2>2
<1>9. Alloc(t, p, held) = [tab |-> nt, n |-> t.n + 1]
    BY DEF Alloc, Entered
<1>. HIDE DEF sz, e, f
<1>10. /\ rec \in EntryOf(0 .. sz - 1)
       /\ rec.pid = p /\ rec.thread = FALSE /\ rec.exiting = FALSE /\ rec.suspended = held
       /\ rec.nthreads = 0 /\ rec.nwaiting = 0 /\ rec.nzombies = 0
    <2>1. e[f].waitpid \in Pids \cup {AnyPid}
        BY <1>5, <1>8 DEF EntryOf
    <2>2. rec \in EntryOf(0 .. sz - 1)
        BY <2>1, EntryEntered
    <2>3. /\ rec.pid = p /\ rec.thread = FALSE /\ rec.exiting = FALSE /\ rec.suspended = held
          /\ rec.nthreads = 0 /\ rec.nwaiting = 0 /\ rec.nzombies = 0
        BY DEF Entered, Unused
    <2>. QED
        BY <2>2, <2>3
<1>. HIDE DEF rec
<1>11. /\ nt \in [0 .. sz - 1 -> EntryOf(0 .. sz - 1)]
       /\ nt[f] = rec /\ \A s \in 0 .. sz - 1 : s # f => nt[s] = e[s]
    BY <1>3, <1>5, <1>8, <1>10
<1>. HIDE DEF nt
<1>12. f < size => t.tab[f].pid = NoPid
    BY <1>3, <1>8
<1>13. Allocated(t, [tab |-> nt, n |-> t.n + 1], p, held, size, sz, f)
    BY <1>2, <1>3, <1>8, <1>10, <1>11, <1>12 DEF Allocated
<1>. QED
    BY <1>9, <1>13

\* alloc_tcb: one more entry in use.
LEMMA AllocatedKeeps ==
    ASSUME NEW t, NEW size, Counted(t, size), NEW p \in Pids, p \notin PidsOf(t.tab),
           NEW u, NEW held, NEW sz, NEW f, Allocated(t, u, p, held, size, sz, f)
    PROVE  /\ Counted(u, sz)
           /\ PidsOf(u.tab) = PidsOf(t.tab) \cup {p}
           /\ Exiting(u.tab) \subseteq Exiting(t.tab)
           /\ DOMAIN t.tab \subseteq DOMAIN u.tab
           /\ \A r \in Used(t.tab) : r # f /\ u.tab[r] = t.tab[r]
<1>1. /\ t.tab \in [0 .. size - 1 -> EntryOf(0 .. size - 1)] /\ size \in Nat \ {0}
      /\ \A r \in 0 .. size - 1 : t.tab[r].thread => t.tab[r].parent # Null
      /\ \A r, x \in Used(t.tab) : t.tab[r].pid = t.tab[x].pid => r = x
      /\ t.n = Cardinality(Used(t.tab))
    BY DEF Counted, Sized
<1>2. /\ sz \in Nat \ {0} /\ size <= sz /\ f \in 0 .. sz - 1
      /\ u = [tab |-> u.tab, n |-> t.n + 1]
      /\ u.tab \in [0 .. sz - 1 -> EntryOf(0 .. sz - 1)]
      /\ \A r \in 0 .. sz - 1 : r # f => u.tab[r] = IF r < size THEN t.tab[r] ELSE Unused
      /\ f < size => t.tab[f].pid = NoPid
      /\ u.tab[f].pid = p /\ u.tab[f].thread = FALSE /\ u.tab[f].exiting = FALSE
    BY DEF Allocated
<1>3. p # NoPid /\ Unused.pid = NoPid /\ ~Unused.thread
    BY NoneAssumption DEF Unused
<1>4. Used(u.tab) = Used(t.tab) \cup {f} /\ f \notin Used(t.tab)
    <2>1. f \notin Used(t.tab) /\ f \in Used(u.tab)
        BY <1>1, <1>2, <1>3, SMT DEF Used
    <2>2. \A r \in 0 .. sz - 1 : r # f => (r \in Used(u.tab) <=> r \in Used(t.tab))
        BY <1>1, <1>2, <1>3, SMT DEF Used
    <2>3. Used(u.tab) \subseteq 0 .. sz - 1 /\ Used(t.tab) \subseteq 0 .. sz - 1
        BY <1>1, <1>2, SMT DEF Used
    <2>. QED
        BY <1>2, <2>1, <2>2, <2>3
<1>5. \A r \in Used(t.tab) : r # f /\ u.tab[r] = t.tab[r] /\ r \in 0 .. size - 1
    BY <1>1, <1>2, <1>4, SMT DEF Used
<1>6. \A r \in Used(t.tab) : t.tab[r].pid # p
    BY DEF PidsOf
<1>7. \A r, x \in Used(u.tab) : u.tab[r].pid = u.tab[x].pid => r = x
    BY <1>1, <1>2, <1>4, <1>5, <1>6
<1>8. \A r \in 0 .. sz - 1 : u.tab[r].thread => u.tab[r].parent # Null
    BY <1>1, <1>2, <1>3, SMT
<1>9. u.n = Cardinality(Used(u.tab))
    <2>1. IsFiniteSet(Used(t.tab)) /\ Cardinality(Used(t.tab)) \in Nat
        BY <1>1, UsedFinite
    <2>2. Cardinality(Used(t.tab) \cup {f}) = Cardinality(Used(t.tab)) + 1
        BY <1>4, <2>1, FS_AddElement
    <2>3. u.n = t.n + 1
        BY <1>2, SMT
    <2>. QED
        BY <1>1, <1>4, <2>2, <2>3
<1>10. Counted(u, sz)
    <2>1. Sized(u.tab, sz)
        BY <1>2, <1>7, <1>8 DEF Sized
    <2>2. u = [tab |-> u.tab, n |-> u.n]
        BY <1>2
    <2>. QED
        BY <1>2, <1>9, <2>1, <2>2 DEF Counted
<1>11. PidsOf(u.tab) = PidsOf(t.tab) \cup {p}
    BY <1>2, <1>4, <1>5, SMT DEF PidsOf
<1>12. Exiting(u.tab) \subseteq Exiting(t.tab)
    BY <1>2, <1>4, <1>5 DEF Exiting
<1>13. DOMAIN t.tab \subseteq DOMAIN u.tab
    BY <1>1, <1>2, SMT
<1>. QED
    BY <1>5, <1>10, <1>11, <1>12, <1>13

\* The same of alloc_tcb itself.
LEMMA AllocKeeps ==
    ASSUME NEW t, NEW size, Counted(t, size),
           NEW p \in Pids, p \notin PidsOf(t.tab), NEW held \in BOOLEAN
    PROVE  /\ \E sz : Counted(Alloc(t, p, held), sz)
           /\ PidsOf(Alloc(t, p, held).tab) = PidsOf(t.tab) \cup {p}
           /\ Exiting(Alloc(t, p, held).tab) \subseteq Exiting(t.tab)
           /\ DOMAIN t.tab \subseteq DOMAIN Alloc(t, p, held).tab
<1>1. PICK sz, f : Allocated(t, Alloc(t, p, held), p, held, size, sz, f)
    BY AllocEntries
<1>. QED
    BY <1>1, AllocatedKeeps, SMT
-----------------------------------------------------------------------------
\* A table that differs in fields that the count and the pids do not depend on.
Alike(tb, ub, size) ==
    /\ ub \in [0 .. size - 1 -> EntryOf(0 .. size - 1)]
    /\ \A r \in 0 .. size - 1 : /\ ub[r].pid = tb[r].pid /\ ub[r].exiting = tb[r].exiting
                                /\ ub[r].thread => ub[r].parent # Null

\* Such a change keeps the count exact and the pids what they are.
LEMMA AlikeKeeps ==
    ASSUME NEW t, NEW size, Counted(t, size), NEW ub, Alike(t.tab, ub, size)
    PROVE  /\ Counted([tab |-> ub, n |-> t.n], size)
           /\ PidsOf(ub) = PidsOf(t.tab) /\ Exiting(ub) = Exiting(t.tab)
<1>1. /\ t.tab \in [0 .. size - 1 -> EntryOf(0 .. size - 1)]
      /\ ub \in [0 .. size - 1 -> EntryOf(0 .. size - 1)]
    BY DEF Counted, Sized, Alike
<1>2. Used(ub) = Used(t.tab) /\ \A s \in Used(ub) : ub[s].pid = t.tab[s].pid
    BY <1>1 DEF Used, Alike
<1>3. PidsOf(ub) = PidsOf(t.tab)
    BY <1>2 DEF PidsOf
<1>4. Exiting(ub) = Exiting(t.tab)
    BY <1>1, <1>2, SMT DEF Exiting, Alike, Used
<1>5. \A r, s \in Used(ub) : ub[r].pid = ub[s].pid => r = s
    BY <1>2 DEF Counted, Sized
<1>6. Counted([tab |-> ub, n |-> t.n], size)
    BY <1>1, <1>2, <1>5 DEF Counted, Sized, Alike
<1>. QED
    BY <1>3, <1>4, <1>6

\* What the functions on one entry leave of the fields above.
LEMMA EntriesKept ==
    ASSUME NEW S, NEW e \in EntryOf(S)
    PROVE  /\ \A n, m \in Nat : LoseChildren(e, n, m) \in EntryOf(S)
           /\ \A th \in BOOLEAN : GainChild(e, th) \in EntryOf(S)
           /\ \A q \in S \cup {Null}, th \in BOOLEAN : Adopt(e, q, th) \in EntryOf(S)
           /\ \A w \in Pids \cup {AnyPid} : Hold(e, w) \in EntryOf(S)
           /\ \A b \in BOOLEAN, n \in Nat : Release(e, b, n) \in EntryOf(S)
           /\ Clear(e) \in EntryOf(S) /\ Linger(e) \in EntryOf(S)
<1>1. ASSUME NEW n \in Nat, NEW m \in Nat PROVE LoseChildren(e, n, m) \in EntryOf(S)
    <2>1. e.nchildren \in Int /\ e.nthreads \in Int /\ e.nzombies \in Int
        BY DEF EntryOf
    <2>2. e.nchildren - n \in Int /\ e.nzombies + n \in Int /\ e.nthreads - m \in Int
        BY <1>1, <2>1, SMT
    <2>. QED
        BY <2>2 DEF LoseChildren, EntryOf
<1>2. ASSUME NEW th \in BOOLEAN PROVE GainChild(e, th) \in EntryOf(S)
    <2>1. e.nchildren \in Int /\ e.nthreads \in Int
        BY DEF EntryOf
    <2>2. e.nchildren + 1 \in Int /\ e.nthreads + (IF th THEN 1 ELSE 0) \in Int
        BY <2>1, SMT
    <2>. QED
        BY <2>2 DEF GainChild, EntryOf
<1>3. ASSUME NEW q \in S \cup {Null}, NEW th \in BOOLEAN PROVE Adopt(e, q, th) \in EntryOf(S)
    BY <1>3 DEF Adopt, EntryOf
<1>4. ASSUME NEW w \in Pids \cup {AnyPid} PROVE Hold(e, w) \in EntryOf(S)
    BY <1>4 DEF Hold, EntryOf
<1>5. ASSUME NEW b \in BOOLEAN, NEW n \in Nat PROVE Release(e, b, n) \in EntryOf(S)
    <2>1. e.nwaiting \in Int /\ e.suspended \in BOOLEAN
        BY DEF EntryOf
    <2>2. e.nwaiting - n \in Int /\ (e.suspended /\ ~b) \in BOOLEAN
        BY <2>1, <1>5, SMT
    <2>. QED
        BY <2>2 DEF Release, EntryOf
<1>6. Clear(e) \in EntryOf(S) /\ Linger(e) \in EntryOf(S)
    BY DEF Clear, Linger, EntryOf
<1>. QED
    BY <1>1, <1>2, <1>3, <1>4, <1>5, <1>6

\* Entries that differ in their counters only.
SameButCounts(e, f) ==
    /\ f.pid = e.pid /\ f.parent = e.parent /\ f.thread = e.thread
    /\ f.exiting = e.exiting /\ f.suspended = e.suspended

\* droptcb on the parent's entry touches its counters only.
LEMMA LoseChildrenFields ==
    ASSUME NEW S, NEW e \in EntryOf(S), NEW n, NEW m
    PROVE  /\ SameButCounts(e, LoseChildren(e, n, m))
           /\ LoseChildren(e, n, m).nthreads = e.nthreads - m
           /\ LoseChildren(e, n, m).nwaiting = e.nwaiting
           /\ LoseChildren(e, n, m).nzombies = e.nzombies + n
    BY DEF LoseChildren, SameButCounts, EntryOf

\* handle_new_child on the parent's entry touches its counters only.
LEMMA GainChildFields ==
    ASSUME NEW S, NEW e \in EntryOf(S), NEW th
    PROVE  /\ SameButCounts(e, GainChild(e, th))
           /\ GainChild(e, th).nthreads = e.nthreads + (IF th THEN 1 ELSE 0)
           /\ GainChild(e, th).nwaiting = e.nwaiting
           /\ GainChild(e, th).nzombies = e.nzombies
    BY DEF GainChild, SameButCounts, EntryOf

\* handle_new_child on the child's entry sets its parent and lets it go on.
LEMMA AdoptFields ==
    ASSUME NEW S, NEW e \in EntryOf(S), NEW q, NEW th
    PROVE  /\ Adopt(e, q, th).pid = e.pid /\ Adopt(e, q, th).exiting = e.exiting
           /\ Adopt(e, q, th).thread = th /\ Adopt(e, q, th).parent = q
           /\ Adopt(e, q, th).suspended = FALSE
           /\ Adopt(e, q, th).nthreads = e.nthreads /\ Adopt(e, q, th).nwaiting = e.nwaiting
           /\ Adopt(e, q, th).nzombies = e.nzombies
    BY DEF Adopt, EntryOf

\* internal_wait on the entry of the caller touches what it waits for only.
LEMMA HoldFields ==
    ASSUME NEW S, NEW e \in EntryOf(S), NEW w
    PROVE  /\ Hold(e, w).pid = e.pid /\ Hold(e, w).exiting = e.exiting
           /\ Hold(e, w).thread = e.thread /\ Hold(e, w).parent = e.parent
           /\ Hold(e, w).suspended = TRUE
           /\ Hold(e, w).nthreads = e.nthreads /\ Hold(e, w).nwaiting = e.nwaiting
           /\ Hold(e, w).nzombies = e.nzombies
    BY DEF Hold, EntryOf

\* resume touches the suspension and the count of waiting threads only.
LEMMA ReleaseFields ==
    ASSUME NEW S, NEW e \in EntryOf(S), NEW b, NEW n
    PROVE  /\ Release(e, b, n).pid = e.pid /\ Release(e, b, n).exiting = e.exiting
           /\ Release(e, b, n).thread = e.thread /\ Release(e, b, n).parent = e.parent
           /\ Release(e, b, n).suspended = (e.suspended /\ ~b)
           /\ Release(e, b, n).nthreads = e.nthreads /\ Release(e, b, n).nwaiting = e.nwaiting - n
           /\ Release(e, b, n).nzombies = e.nzombies
    BY DEF Release, EntryOf

\* An entry that droptcb clears is free and no thread's; its counters stay.
LEMMA ClearFields ==
    ASSUME NEW S, NEW e \in EntryOf(S)
    PROVE  /\ Clear(e).pid = NoPid /\ Clear(e).thread = FALSE /\ Clear(e).parent = Null
           /\ Clear(e).exiting = FALSE /\ Clear(e).suspended = FALSE
           /\ Clear(e).nthreads = e.nthreads /\ Clear(e).nwaiting = e.nwaiting
           /\ Clear(e).nzombies = e.nzombies
    BY DEF Clear, EntryOf

\* A leader that lingers keeps the rest of its entry.
LEMMA LingerFields ==
    ASSUME NEW S, NEW e \in EntryOf(S)
    PROVE  /\ Linger(e).pid = e.pid /\ Linger(e).thread = e.thread
           /\ Linger(e).parent = e.parent /\ Linger(e).suspended = e.suspended
           /\ Linger(e).exiting = TRUE
           /\ Linger(e).nthreads = e.nthreads /\ Linger(e).nwaiting = e.nwaiting
           /\ Linger(e).nzombies = e.nzombies
    BY DEF Linger, EntryOf

\* resume, of any entries of the table.
LEMMA ResumeAlike ==
    ASSUME NEW t, NEW size, Counted(t, size), NEW woken, woken \subseteq 0 .. size - 1
    PROVE  Alike(t.tab, Resume(t.tab, woken), size)
<1>. DEFINE n(s) == Cardinality({r \in woken : t.tab[r].thread /\ t.tab[r].parent = s})
<1>1. /\ t.tab \in [0 .. size - 1 -> EntryOf(0 .. size - 1)] /\ size \in Nat
      /\ \A r \in 0 .. size - 1 : t.tab[r].thread => t.tab[r].parent # Null
    BY DEF Counted, Sized
<1>2. \A s : n(s) \in Nat
    <2>1. IsFiniteSet(0 .. size - 1)
        BY <1>1, FS_Interval, SMT
    <2>2. \A s : IsFiniteSet({r \in woken : t.tab[r].thread /\ t.tab[r].parent = s})
        BY <2>1, FS_Subset
    <2>. QED
        BY <2>2, FS_CardinalityType
<1>3. Resume(t.tab, woken) = [s \in 0 .. size - 1 |-> Release(t.tab[s], s \in woken, n(s))]
    BY <1>1 DEF Resume
<1>. HIDE DEF n
<1>4. ASSUME NEW s \in 0 .. size - 1
      PROVE  /\ Release(t.tab[s], s \in woken, n(s)) \in EntryOf(0 .. size - 1)
             /\ Release(t.tab[s], s \in woken, n(s)).pid = t.tab[s].pid
             /\ Release(t.tab[s], s \in woken, n(s)).exiting = t.tab[s].exiting
             /\ Release(t.tab[s], s \in woken, n(s)).thread = t.tab[s].thread
             /\ Release(t.tab[s], s \in woken, n(s)).parent = t.tab[s].parent
    <2>1. t.tab[s] \in EntryOf(0 .. size - 1) /\ n(s) \in Nat /\ (s \in woken) \in BOOLEAN
        BY <1>1, <1>2, SMT
    <2>2. ASSUME NEW b \in BOOLEAN
          PROVE Release(t.tab[s], b, n(s)) \in EntryOf(0 .. size - 1)
        BY <2>1, EntriesKept
    <2>3. ASSUME NEW b
          PROVE /\ Release(t.tab[s], b, n(s)).pid = t.tab[s].pid
             /\ Release(t.tab[s], b, n(s)).exiting = t.tab[s].exiting
             /\ Release(t.tab[s], b, n(s)).thread = t.tab[s].thread
             /\ Release(t.tab[s], b, n(s)).parent = t.tab[s].parent
        BY <2>1, ReleaseFields, SMT
    <2>. QED
        BY <2>1, <2>2, <2>3
<1>. QED
    BY <1>1, <1>3, <1>4, SMT DEF Alike

\* resume_from_tcp resumes entries of the table.
LEMMA WokenInTable ==
    ASSUME NEW t, NEW size, Counted(t, size), NEW s \in 0 .. size - 1
    PROVE  Woken(t.tab, s) \subseteq 0 .. size - 1
<1>. DEFINE q == t.tab[s].parent
            wild == {r \in WaitingThreads(t.tab, s) : t.tab[r].waitpid = AnyPid}
<1>1. t.tab \in [0 .. size - 1 -> EntryOf(0 .. size - 1)] /\ size \in Nat
    BY DEF Counted, Sized
<1>2. CASE q = Null
    BY <1>2 DEF Woken
<1>3. CASE q # Null
    <2>1. q \in 0 .. size - 1
        BY <1>1, <1>3 DEF EntryOf
    <2>2. WaitingThreads(t.tab, s) \subseteq 0 .. size - 1
        BY <1>1 DEF WaitingThreads
    <2>3. wild # {} => Least(wild) \in 0 .. size - 1
        <3>1. wild \subseteq 0 .. size - 1 /\ wild \subseteq Nat
            BY <1>1, <2>2, SMT
        <3>. HIDE DEF wild
        <3>. QED
            BY <3>1, LeastExists
    <2>. QED
        BY <1>3, <2>1, <2>2, <2>3 DEF Woken
<1>. QED
    BY <1>2, <1>3

\* A table and its count, as one value.
LEMMA CountedTable ==
    ASSUME NEW tb, NEW n, NEW size \in Nat \ {0},
           Sized(tb, size), n = Cardinality(Used(tb))
    PROVE  Counted([tab |-> tb, n |-> n], size)
    BY DEF Counted

\* What droptcb makes of each entry when those of D are freed.
FreedEntry(tb, D, r, e) ==
    /\ r \in D => /\ e.pid = NoPid /\ e.parent = Null /\ e.thread = FALSE
                  /\ e.exiting = FALSE /\ e.suspended = FALSE
    /\ r \notin D => SameButCounts(tb[r], e)
    /\ e.nthreads = tb[r].nthreads - Cardinality({x \in D : tb[x].thread /\ tb[x].parent = r})
    /\ e.nwaiting = tb[r].nwaiting
    /\ e.nzombies \in Int /\ e.nzombies >= tb[r].nzombies

\* The part of droptcb that frees entries, one entry at a time.
LEMMA FreedEntries ==
    ASSUME NEW t, NEW size, Counted(t, size), NEW D, D \subseteq 0 .. size - 1
    PROVE  /\ Freed(t, D) = [tab |-> Freed(t, D).tab, n |-> t.n - Cardinality(D)]
           /\ Freed(t, D).tab \in [0 .. size - 1 -> EntryOf(0 .. size - 1)]
           /\ \A r \in 0 .. size - 1 : FreedEntry(t.tab, D, r, Freed(t, D).tab[r])
<1>. DEFINE v == Freed(t, D).tab
            n(r) == Cardinality({x \in D : t.tab[x].parent = r})
            m(r) == Cardinality({x \in D : t.tab[x].thread /\ t.tab[x].parent = r})
            b(r) == LoseChildren(t.tab[r], n(r), m(r))
<1>1. t.tab \in [0 .. size - 1 -> EntryOf(0 .. size - 1)] /\ size \in Nat
    BY DEF Counted, Sized
<1>2. \A r : n(r) \in Nat /\ m(r) \in Nat
    <2>1. IsFiniteSet(0 .. size - 1)
        BY <1>1, FS_Interval, SMT
    <2>2. \A r : /\ IsFiniteSet({x \in D : t.tab[x].parent = r})
                 /\ IsFiniteSet({x \in D : t.tab[x].thread /\ t.tab[x].parent = r})
        BY <2>1, FS_Subset
    <2>. QED
        BY <2>2, FS_CardinalityType
<1>3. /\ Freed(t, D) = [tab |-> v, n |-> t.n - Cardinality(D)]
      /\ v = [r \in 0 .. size - 1 |-> IF r \in D THEN Clear(b(r)) ELSE b(r)]
    BY <1>1 DEF Freed, Bereaved
<1>. HIDE DEF v, n
<1>4. ASSUME NEW r \in 0 .. size - 1
      PROVE  v[r] \in EntryOf(0 .. size - 1) /\ FreedEntry(t.tab, D, r, v[r])
    <2>1. t.tab[r] \in EntryOf(0 .. size - 1) /\ n(r) \in Nat /\ m(r) \in Nat
        BY <1>1, <1>2
    <2>2. t.tab[r].nzombies \in Int
        BY <2>1 DEF EntryOf
    <2>. HIDE DEF m
    <2>3. /\ b(r) \in EntryOf(0 .. size - 1) /\ SameButCounts(t.tab[r], b(r))
          /\ b(r).nthreads = t.tab[r].nthreads - m(r) /\ b(r).nwaiting = t.tab[r].nwaiting
          /\ b(r).nzombies = t.tab[r].nzombies + n(r)
        <3>1. b(r) \in EntryOf(0 .. size - 1)
            BY <2>1, EntriesKept
        <3>. QED
            BY <2>1, <3>1, LoseChildrenFields, SMT
    <2>. HIDE DEF b
    <2>4. CASE r \in D
        <3>1. v[r] = Clear(b(r))
            BY <1>3, <2>4
        <3>2. /\ Clear(b(r)) \in EntryOf(0 .. size - 1)
              /\ Clear(b(r)).pid = NoPid /\ Clear(b(r)).thread = FALSE
              /\ Clear(b(r)).parent = Null
              /\ Clear(b(r)).exiting = FALSE /\ Clear(b(r)).suspended = FALSE
              /\ Clear(b(r)).nthreads = b(r).nthreads /\ Clear(b(r)).nwaiting = b(r).nwaiting
              /\ Clear(b(r)).nzombies = b(r).nzombies
            BY <2>3, EntriesKept, ClearFields
        <3>. QED
            BY <2>1, <2>2, <2>3, <2>4, <3>1, <3>2, SMT DEF FreedEntry, m
    <2>5. CASE r \notin D
        BY <1>3, <2>1, <2>2, <2>3, <2>5, SMT DEF FreedEntry, m
    <2>. QED
        BY <2>4, <2>5
<1>. QED
    BY <1>3, <1>4 DEF v

\* The part of droptcb that frees entries: so many less in use.
LEMMA FreedKeeps ==
    ASSUME NEW t, NEW size, Counted(t, size), NEW D, D \subseteq Used(t.tab)
    PROVE  /\ Counted(Freed(t, D), size)
           /\ PidsOf(t.tab) \ {t.tab[r].pid : r \in D} \subseteq PidsOf(Freed(t, D).tab)
           /\ Exiting(Freed(t, D).tab) \subseteq Exiting(t.tab)
           /\ \A r \in 0 .. size - 1 : Freed(t, D).tab[r].pid \in {t.tab[r].pid, NoPid}
<1>. DEFINE v == Freed(t, D).tab
<1>1. /\ t.tab \in [0 .. size - 1 -> EntryOf(0 .. size - 1)] /\ size \in Nat \ {0}
      /\ \A r \in 0 .. size - 1 : t.tab[r].thread => t.tab[r].parent # Null
      /\ \A r, x \in Used(t.tab) : t.tab[r].pid = t.tab[x].pid => r = x
      /\ t.n = Cardinality(Used(t.tab))
    BY DEF Counted, Sized
<1>2. D \subseteq 0 .. size - 1
    BY <1>1 DEF Used
<1>3. /\ Freed(t, D) = [tab |-> v, n |-> t.n - Cardinality(D)]
      /\ v \in [0 .. size - 1 -> EntryOf(0 .. size - 1)]
      /\ \A r \in 0 .. size - 1 : FreedEntry(t.tab, D, r, v[r])
    BY <1>2, FreedEntries
<1>. HIDE DEF v
<1>4. /\ \A r \in D : v[r].pid = NoPid /\ v[r].thread = FALSE
      /\ \A r \in 0 .. size - 1 : r \notin D => SameButCounts(t.tab[r], v[r])
    BY <1>2, <1>3 DEF FreedEntry
<1>5. Used(v) = Used(t.tab) \ D /\ \A r \in Used(v) : SameButCounts(t.tab[r], v[r])
    BY <1>1, <1>2, <1>3, <1>4, SMT DEF Used, SameButCounts
<1>6. Cardinality(Used(v)) = t.n - Cardinality(D)
    <2>1. IsFiniteSet(Used(t.tab))
        BY <1>1, UsedFinite
    <2>2. /\ IsFiniteSet(D) /\ Used(t.tab) \cap D = D
          /\ Cardinality(Used(t.tab) \ D)
                = Cardinality(Used(t.tab)) - Cardinality(Used(t.tab) \cap D)
        BY <2>1, FS_Subset, FS_Difference
    <2>. QED
        BY <1>1, <1>5, <2>2
<1>7. Counted(Freed(t, D), size)
    <2>1. \A r, x \in Used(v) : v[r].pid = v[x].pid => r = x
        BY <1>1, <1>5 DEF SameButCounts
    <2>2. \A r \in 0 .. size - 1 : v[r].thread => v[r].parent # Null
        BY <1>1, <1>4 DEF SameButCounts
    <2>3. Sized(v, size)
        BY <1>3, <2>1, <2>2 DEF Sized
    <2>. QED
        BY <1>1, <1>3, <1>6, <2>3, CountedTable, SMT
<1>8. PidsOf(t.tab) \ {t.tab[r].pid : r \in D} \subseteq PidsOf(v)
    BY <1>5, SMT DEF PidsOf, SameButCounts
<1>9. Exiting(v) \subseteq Exiting(t.tab)
    BY <1>5, SMT DEF Exiting, SameButCounts
<1>10. \A r \in 0 .. size - 1 : v[r].pid \in {t.tab[r].pid, NoPid}
    BY <1>4 DEF SameButCounts
<1>. QED
    BY <1>7, <1>8, <1>9, <1>10 DEF v

\* The entries that droptcb frees are in use, and besides s they are zombies; the set
\* is closed, and the smallest such.
LEMMA DroppedSet ==
    ASSUME NEW t, NEW size, Counted(t, size), NEW s \in 0 .. size - 1, t.tab[s].pid # NoPid
    PROVE  /\ s \in Dropped(t.tab, s) /\ Dropped(t.tab, s) \subseteq Used(t.tab)
           /\ \A r \in Dropped(t.tab, s) : r = s \/ t.tab[r].exiting
           /\ \A r \in Dropped(t.tab, s) : LastOfZombie(t.tab, r) =>
                 t.tab[r].parent \in Dropped(t.tab, s)
           /\ \A X \in SUBSET Dropped(t.tab, s) :
                 s \in X /\ (\A r \in X : LastOfZombie(t.tab, r) => t.tab[r].parent \in X)
                 => X = Dropped(t.tab, s)
<1>. DEFINE S == {s} \cup {r \in DOMAIN t.tab : t.tab[r].pid # NoPid /\ t.tab[r].exiting}
            Closed(X) == s \in X /\ \A r \in X : LastOfZombie(t.tab, r) => t.tab[r].parent \in X
            D == Dropped(t.tab, s)
<1>1. D = {r \in S : \A X \in SUBSET S : Closed(X) => r \in X}
    <2>1. CASE LastOfZombie(t.tab, s)
        BY <2>1 DEF Dropped
    <2>2. CASE ~LastOfZombie(t.tab, s)
        <3>1. D = {s} /\ Closed({s}) /\ {s} \in SUBSET S
            BY <2>2 DEF Dropped
        <3>. QED
            BY <3>1
    <2>. QED
        BY <2>1, <2>2
<1>2. t.tab \in [0 .. size - 1 -> EntryOf(0 .. size - 1)]
    BY DEF Counted, Sized
<1>3. S \subseteq Used(t.tab) /\ s \in S /\ \A r \in S : r = s \/ t.tab[r].exiting
    BY <1>2 DEF Used
<1>4. ASSUME NEW r \in D, LastOfZombie(t.tab, r) PROVE t.tab[r].parent \in D
    <2>1. r \in 0 .. size - 1
        BY <1>1, <1>2, <1>3 DEF Used
    <2>2. t.tab[r].parent \in 0 .. size - 1
        BY <1>2, <1>4, <2>1 DEF LastOfZombie, Counted, Sized, EntryOf
    <2>3. t.tab[r].parent \in S
        BY <1>2, <1>4, <2>2 DEF LastOfZombie
    <2>. QED
        BY <1>1, <1>4, <2>3
<1>5. ASSUME NEW X \in SUBSET D, Closed(X) PROVE X = D
    BY <1>1, <1>5
<1>. HIDE DEF S, D
<1>6. s \in D /\ D \subseteq S
    BY <1>1, <1>3
<1>. QED
    BY <1>3, <1>4, <1>5, <1>6 DEF D

\* The table u is what is left of t when the entries of P are dropped: besides P, only
\* zombies of leaders go, and only P may become zombies.
Shrunk(t, u, size, P) ==
    /\ Counted(u, size)
    /\ PidsOf(t.tab) \ (P \cup Exiting(t.tab)) \subseteq PidsOf(u.tab)
    /\ Exiting(u.tab) \subseteq Exiting(t.tab) \cup P
    /\ \A r \in 0 .. size - 1 : u.tab[r].pid \in {t.tab[r].pid, NoPid}

\* A leader that becomes a zombie.
LEMMA LingerTable ==
    ASSUME NEW t, NEW size, Counted(t, size), NEW s \in 0 .. size - 1,
           t.tab[s].pid # NoPid, t.tab[s].nthreads > 0
    PROVE  /\ Drop(t, s) = [tab |-> Drop(t, s).tab, n |-> t.n]
           /\ Drop(t, s).tab \in [0 .. size - 1 -> EntryOf(0 .. size - 1)]
           /\ Drop(t, s).tab[s] = Linger(t.tab[s])
           /\ \A r \in 0 .. size - 1 : r # s => Drop(t, s).tab[r] = t.tab[r]
<1>. DEFINE tb == [t.tab EXCEPT ![s] = Linger(t.tab[s])]
<1>1. /\ t.tab \in [0 .. size - 1 -> EntryOf(0 .. size - 1)]
      /\ t = [tab |-> t.tab, n |-> t.n]
    BY DEF Counted, Sized
<1>2. Linger(t.tab[s]) \in EntryOf(0 .. size - 1)
    BY <1>1, EntriesKept
<1>3. Drop(t, s) = [tab |-> tb, n |-> t.n]
    <2>1. Drop(t, s) = [t EXCEPT !.tab[s] = Linger(@)]
        BY DEF Drop
    <2>. QED
        BY <1>1, <2>1
<1>4. /\ tb \in [0 .. size - 1 -> EntryOf(0 .. size - 1)] /\ tb[s] = Linger(t.tab[s])
      /\ \A r \in 0 .. size - 1 : r # s => tb[r] = t.tab[r]
    BY <1>1, <1>2
<1>. HIDE DEF tb
<1>. QED
    BY <1>3, <1>4, SMT

\* droptcb.
LEMMA DropShrinks ==
    ASSUME NEW t, NEW size, Counted(t, size), NEW s \in 0 .. size - 1
    PROVE  Shrunk(t, Drop(t, s), size, {t.tab[s].pid})
<1>1. CASE t.tab[s].pid = NoPid
    BY <1>1 DEF Drop, Shrunk
<1>2. CASE t.tab[s].pid # NoPid /\ ~(t.tab[s].nthreads > 0)
    <2>. DEFINE D == Dropped(t.tab, s)
    <2>1. Drop(t, s) = Freed(t, D)
        BY <1>2 DEF Drop
    <2>2. s \in D /\ D \subseteq Used(t.tab) /\ \A r \in D : r = s \/ t.tab[r].exiting
        BY <1>2, DroppedSet
    <2>. HIDE DEF D
    <2>3. /\ Counted(Freed(t, D), size)
          /\ PidsOf(t.tab) \ {t.tab[r].pid : r \in D} \subseteq PidsOf(Freed(t, D).tab)
          /\ Exiting(Freed(t, D).tab) \subseteq Exiting(t.tab)
          /\ \A r \in 0 .. size - 1 : Freed(t, D).tab[r].pid \in {t.tab[r].pid, NoPid}
        BY <2>2, FreedKeeps
    <2>4. {t.tab[r].pid : r \in D} \subseteq {t.tab[s].pid} \cup Exiting(t.tab)
        BY <2>2 DEF Exiting
    <2>. QED
        BY <2>1, <2>3, <2>4 DEF Shrunk
<1>3. CASE t.tab[s].pid # NoPid /\ t.tab[s].nthreads > 0
    <2>. DEFINE w == Drop(t, s)
                u == w.tab
    <2>1. /\ t.tab \in [0 .. size - 1 -> EntryOf(0 .. size - 1)] /\ size \in Nat \ {0}
          /\ \A r \in 0 .. size - 1 : t.tab[r].thread => t.tab[r].parent # Null
          /\ \A r, x \in Used(t.tab) : t.tab[r].pid = t.tab[x].pid => r = x
          /\ t.n = Cardinality(Used(t.tab))
        BY DEF Counted, Sized
    <2>3. /\ w = [tab |-> u, n |-> t.n]
          /\ u \in [0 .. size - 1 -> EntryOf(0 .. size - 1)]
          /\ u[s] = Linger(t.tab[s]) /\ \A r \in 0 .. size - 1 : r # s => u[r] = t.tab[r]
        BY <1>3, LingerTable, SMT
    <2>. HIDE DEF u, w
    <2>4. \A r \in 0 .. size - 1 :
              /\ u[r].pid = t.tab[r].pid /\ u[r].thread = t.tab[r].thread
              /\ u[r].parent = t.tab[r].parent
              /\ r # s => u[r].exiting = t.tab[r].exiting
        <3>1. t.tab[s] \in EntryOf(0 .. size - 1)
            BY <2>1
        <3>2. /\ u[s].pid = t.tab[s].pid /\ u[s].thread = t.tab[s].thread
              /\ u[s].parent = t.tab[s].parent
            BY <2>3, <3>1 DEF Linger, EntryOf
        <3>. QED
            BY <2>3, <3>2
    <2>5. Used(u) = Used(t.tab) /\ \A r \in Used(u) : r \in 0 .. size - 1
        BY <2>1, <2>3, <2>4, SMT DEF Used
    <2>6. PidsOf(u) = PidsOf(t.tab)
        BY <2>4, <2>5 DEF PidsOf
    <2>7. Exiting(u) \subseteq Exiting(t.tab) \cup {t.tab[s].pid}
        BY <2>4, <2>5, SMT DEF Exiting
    <2>8. Counted(w, size)
        <3>1. \A r, x \in Used(u) : u[r].pid = u[x].pid => r = x
            BY <2>1, <2>4, <2>5
        <3>2. Sized(u, size)
            BY <2>1, <2>3, <2>4, <3>1 DEF Sized
        <3>. QED
            BY <2>1, <2>3, <2>5, <3>2, CountedTable
    <2>. QED
        BY <2>4, <2>6, <2>7, <2>8 DEF Shrunk, u, w
<1>. QED
    BY <1>1, <1>2, <1>3

\* handle_group_exit of a process that died.
LEMMA LeaveShrinks ==
    ASSUME NEW t, NEW size, Counted(t, size), NEW s \in 0 .. size - 1
    PROVE  Shrunk(t, Leave(t, s), size, {t.tab[s].pid})
<1>. DEFINE rt == Resume(t.tab, Woken(t.tab, s))
            u == [tab |-> rt, n |-> t.n]
<1>1. Alike(t.tab, rt, size)
    BY WokenInTable, ResumeAlike
<1>2. Leave(t, s) = Drop(u, s)
    BY SMT DEF Leave, Counted
<1>. HIDE DEF rt
<1>3. Counted(u, size) /\ PidsOf(u.tab) = PidsOf(t.tab) /\ Exiting(u.tab) = Exiting(t.tab)
    BY <1>1, AlikeKeeps
<1>4. \A r \in 0 .. size - 1 : u.tab[r].pid = t.tab[r].pid
    BY <1>1 DEF Alike
<1>. HIDE DEF u
<1>5. Shrunk(u, Drop(u, s), size, {u.tab[s].pid})
    BY <1>3, DropShrinks
<1>. QED
    BY <1>2, <1>3, <1>4, <1>5 DEF Shrunk

\* detach.
LEMMA DetachShrinks ==
    ASSUME NEW t, NEW size, Counted(t, size), NEW s \in 0 .. size - 1
    PROVE  Shrunk(t, Detach(t, s), size, {t.tab[s].pid})
<1>. DEFINE q == t.tab[s].parent
            u == Leave(t, s)
            last == t.tab[s].thread /\ t.tab[q].nthreads = 1 /\ t.tab[q].exiting
<1>1. Shrunk(t, u, size, {t.tab[s].pid})
    BY LeaveShrinks
<1>2. CASE ~last
    <2>1. Detach(t, s) = u
        BY <1>2 DEF Detach
    <2>. QED
        BY <1>1, <2>1
<1>3. CASE last
    <2>1. Detach(t, s) = Drop(u, q)
        BY <1>3 DEF Detach
    <2>2. q \in 0 .. size - 1
        BY <1>3 DEF Counted, Sized, EntryOf
    <2>3. t.tab[q].pid # NoPid => t.tab[q].pid \in Exiting(t.tab)
        BY <1>3, <2>2 DEF Exiting, Used, Counted, Sized
    <2>. HIDE DEF u, q
    <2>4. Counted(u, size)
        BY <1>1 DEF Shrunk
    <2>5. Shrunk(u, Drop(u, q), size, {u.tab[q].pid})
        BY <2>2, <2>4, DropShrinks
    <2>6. u.tab[q].pid \in {t.tab[q].pid, NoPid}
        BY <1>1, <2>2 DEF Shrunk
    <2>7. NoPid \notin PidsOf(t.tab) /\ NoPid \notin Exiting(Drop(u, q).tab)
        BY DEF PidsOf, Exiting, Used
    <2>. QED
        BY <1>1, <2>1, <2>3, <2>5, <2>6, <2>7 DEF Shrunk
<1>. QED
    BY <1>2, <1>3

\* handle_new_child: the child's entry is created unless it is there.
LEMMA AttachedKeeps ==
    ASSUME NEW t, NEW size, Counted(t, size), NEW c \in Pids
    PROVE  /\ \E sz : Counted(Attached(t, c), sz)
           /\ PidsOf(Attached(t, c).tab) = PidsOf(t.tab) \cup {c}
           /\ Exiting(Attached(t, c).tab) \subseteq Exiting(t.tab)
           /\ DOMAIN t.tab \subseteq DOMAIN Attached(t, c).tab
<1>1. c # NoPid
    BY NoneAssumption
<1>2. CASE \E r \in DOMAIN t.tab : t.tab[r].pid = c
    <2>1. c \in PidsOf(t.tab)
        BY <1>1, <1>2 DEF PidsOf, Used
    <2>. QED
        BY <1>2, <2>1 DEF Attached
<1>3. CASE ~ \E r \in DOMAIN t.tab : t.tab[r].pid = c
    <2>1. c \notin PidsOf(t.tab)
        BY <1>3 DEF PidsOf, Used
    <2>2. Attached(t, c) = Alloc(t, c, FALSE)
        BY <1>3 DEF Attached
    <2>3. /\ \E sz : Counted(Alloc(t, c, FALSE), sz)
          /\ PidsOf(Alloc(t, c, FALSE).tab) = PidsOf(t.tab) \cup {c}
          /\ Exiting(Alloc(t, c, FALSE).tab) \subseteq Exiting(t.tab)
          /\ DOMAIN t.tab \subseteq DOMAIN Alloc(t, c, FALSE).tab
        BY <2>1, AllocKeeps
    <2>. QED
        BY <2>2, <2>3
<1>. QED
    BY <1>2, <1>3

\* handle_new_child's link between the child and its parent.
LEMMA LinkedAlike ==
    ASSUME NEW t, NEW size, Counted(t, size), NEW r \in 0 .. size - 1,
           NEW q \in 0 .. size - 1 \cup {Null}, NEW th \in BOOLEAN, th => q # Null
    PROVE  Alike(t.tab, Linked(t.tab, r, q, th), size)
<1>. DEFINE a == [t.tab EXCEPT ![r] = Adopt(t.tab[r], q, th)]
<1>1. /\ t.tab \in [0 .. size - 1 -> EntryOf(0 .. size - 1)]
      /\ \A x \in 0 .. size - 1 : t.tab[x].thread => t.tab[x].parent # Null
    BY DEF Counted, Sized
<1>2. Adopt(t.tab[r], q, th) \in EntryOf(0 .. size - 1)
    BY <1>1, EntriesKept
<1>3. /\ Adopt(t.tab[r], q, th).pid = t.tab[r].pid
      /\ Adopt(t.tab[r], q, th).exiting = t.tab[r].exiting
      /\ Adopt(t.tab[r], q, th).thread = th /\ Adopt(t.tab[r], q, th).parent = q
    <2>1. t.tab[r] \in EntryOf(0 .. size - 1)
        BY <1>1
    <2>. QED
        BY <2>1 DEF Adopt, EntryOf
<1>4. Alike(t.tab, a, size)
    BY <1>1, <1>2, <1>3 DEF Alike
<1>5. Linked(t.tab, r, q, th) = IF q = Null THEN a ELSE [a EXCEPT ![q] = GainChild(a[q], th)]
    BY DEF Linked
<1>. HIDE DEF a
<1>6. CASE q = Null
    BY <1>4, <1>5, <1>6
<1>7. CASE q # Null
    <2>1. a \in [0 .. size - 1 -> EntryOf(0 .. size - 1)] /\ q \in 0 .. size - 1
        BY <1>4, <1>7 DEF Alike
    <2>2. GainChild(a[q], th) \in EntryOf(0 .. size - 1)
        BY <2>1, EntriesKept
    <2>3. SameButCounts(a[q], GainChild(a[q], th))
        BY <2>1, GainChildFields
    <2>. QED
        BY <1>4, <1>5, <1>7, <2>1, <2>2, <2>3 DEF Alike, SameButCounts
<1>. QED
    BY <1>6, <1>7

\* handle_new_child: the child has an entry afterwards, and no entry is lost.
LEMMA AddChildKeeps ==
    ASSUME NEW t, NEW size, Counted(t, size), NEW s \in 0 .. size - 1, NEW c \in Pids, NEW k
    PROVE  /\ \E sz : Counted(AddChild(t, s, c, k), sz)
           /\ PidsOf(AddChild(t, s, c, k).tab) = PidsOf(t.tab) \cup {c}
           /\ Exiting(AddChild(t, s, c, k).tab) \subseteq Exiting(t.tab)
<1>. DEFINE u == Attached(t, c)
            r == CHOOSE x \in DOMAIN u.tab : u.tab[x].pid = c
            q == FinalParent(u.tab, s, k)
            th == (k = "thread")
            l == Linked(u.tab, r, q, th)
<1>1. PICK sz : Counted(u, sz)
    BY AttachedKeeps
<1>2. /\ PidsOf(u.tab) = PidsOf(t.tab) \cup {c} /\ Exiting(u.tab) \subseteq Exiting(t.tab)
      /\ DOMAIN t.tab \subseteq DOMAIN u.tab
    BY AttachedKeeps
<1>3. AddChild(t, s, c, k) = [tab |-> l, n |-> u.n]
    <2>1. AddChild(t, s, c, k) = [u EXCEPT !.tab = l]
        BY DEF AddChild
    <2>2. u = [tab |-> u.tab, n |-> u.n]
        BY <1>1 DEF Counted
    <2>. HIDE DEF u, l
    <2>. QED
        BY <2>1, <2>2
<1>. HIDE DEF u
<1>4. u.tab \in [0 .. sz - 1 -> EntryOf(0 .. sz - 1)] /\ sz \in Nat \ {0}
    BY <1>1 DEF Counted, Sized
<1>5. s \in 0 .. sz - 1
    BY <1>2, <1>4 DEF Counted, Sized
<1>6. r \in 0 .. sz - 1
    <2>1. \E x \in DOMAIN u.tab : u.tab[x].pid = c
        BY <1>2 DEF PidsOf, Used
    <2>. QED
        BY <1>4, <2>1
<1>. HIDE DEF r
<1>7. NewParent(u.tab, s, k) \in 0 .. sz - 1
    BY <1>4, <1>5 DEF NewParent, EntryOf
<1>8. q \in 0 .. sz - 1 \cup {Null}
    BY <1>4, <1>7 DEF FinalParent, EntryOf
<1>9. th => q # Null
    BY <1>4, <1>7, NoneAssumption, SMT DEF FinalParent
<1>10. th \in BOOLEAN
    OBVIOUS
<1>. HIDE DEF q, th
<1>11. Alike(u.tab, l, sz)
    BY <1>1, <1>6, <1>8, <1>9, <1>10, LinkedAlike
<1>. HIDE DEF l
<1>12. /\ Counted([tab |-> l, n |-> u.n], sz)
       /\ PidsOf(l) = PidsOf(u.tab) /\ Exiting(l) = Exiting(u.tab)
    BY <1>1, <1>11, AlikeKeeps
<1>. QED
    BY <1>2, <1>3, <1>12, SMT
=============================================================================
