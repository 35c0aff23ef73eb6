------------------------------ MODULE Package -------------------------------
(***************************************************************************)
(* The package that an audit builds: the handlers of file operations in    *)
(* strace-4.6/cde.c, around the calls that the traced processes make.      *)
(*                                                                         *)
(* Some handlers change the package at the entry of a call, before the     *)
(* kernel performs it, some at its exit; other processes go on between.    *)
(* A handler itself is one step: what the kernel does meanwhile for a      *)
(* process that names what the handler looks at is in "overtaken", of      *)
(* which nothing is claimed.  current_dir is right here (TcbFields tells   *)
(* when it is not), so a process has one working directory.  Left out:     *)
(* writes to a file in place, the rename of a directory, mknod, programs   *)
(* that use the directory of the package or are not traced, options for    *)
(* one program (p_ignores, in TcbFields), other packages as sources, and   *)
(* replay, where these handlers only rewrite paths (ShmInject).            *)
(***************************************************************************)
EXTENDS Mirror, FiniteSets

CONSTANTS
    Pids,       \* traced processes
    Starts,     \* a sequence of what to start with: the host's tree, the calls that the
                \* program makes, and left, how many are made in all
    Ignored,    \* paths that match the ignore_exact, ignore_prefix, ignore_substr options
    Redirected  \* paths that match the redirect options, which are tested first

VARIABLES
    world,      \* the host's tree, the package, and whether the tracer is down
    start,      \* which of the starts it was
    left,       \* how many more are made
    stage,      \* where each process is
    call,       \* the call that it is in
    u_rval,     \* whether that call succeeded
    cwd,        \* the working directory of each process
    reach,      \* history: what the call that each process is in names and looks at, as long as
                \* the package may differ from the host on account of it
    ahead,      \* history: whether the package has followed the call at its entry
    seen,       \* history: the paths through which a file was found and mirrored
    excused     \* history: what happened that the package is known not to follow

vars == <<world, start, left, stage, call, u_rval, cwd, reach, ahead, seen, excused>>

Calls == Starts[start].calls

\* A call names one or two paths; each is absolute ("abs"), relative to the working directory
\* ("cwd"), or relative to a directory that a descriptor stands for ("fd").  The descriptor
\* may be AT_FDCWD with the upper half of its register clear, which is the working directory
\* to the kernel only ("low").
NoCall == [op |-> "none"]
Paths(c) == {c.arg} \cup (IF c.op \in {"link", "rename"} THEN {c.arg2} ELSE {})

\* The path that the kernel takes, and the one that the tracer makes of it.
Full(p, a) ==
    (CASE a.base = "abs" -> <<>> [] a.base \in {"cwd", "low"} -> cwd[p] [] a.base = "fd" -> a.dir)
    \o a.path
Traced(p, a) == canonicalize_path((IF a.base = "abs" THEN <<>> ELSE cwd[p]) \o a.path)
Punts(c) == \E a \in Paths(c) : a.base \in {"fd", "low"}

ignore_path(path) == path \notin Redirected /\ path \in Ignored

\* Copies at the path with this name, unless it is ignored; see create_mirror_file for newer.
copy_file_into_cde_root(w, path, newer) ==
    IF ignore_path(path) THEN w ELSE create_mirror_file(w, path, newer)

\* The calls that the package follows at their entry only.
AtEntry == {"unlink", "link", "symlink"}

Newer(w, path) ==
    LET src == stat(w, "host", path)
        dst == stat(w, "pkg", path)
    IN  IF Found(src) /\ Found(dst) /\ Node(w, src) = Node(w, dst) THEN {TRUE} ELSE BOOLEAN
-----------------------------------------------------------------------------
(* What the package is known not to follow. *)

LinkTarget(t, l) == IF t[l].abs THEN t[l].to ELSE Front(l) \o t[l].to

\* The text of a path leads elsewhere than the path: a ".." follows a link.
Lexical(w, path) == lstat(w, "host", path) # lstat(w, "host", canonicalize_path(path))

\* More ".." than there are directories: the host's root stops them, cde-root does not.
Excess(path) ==
    \E i \in DOMAIN path :
        2 * Cardinality({j \in 1 .. i : path[j] = ".."}) > i

\* What is wrong with the links of the host, and with those of the package.
Links(t) == {l \in DOMAIN t : t[l].kind = "link"}
LinkFaults(w) ==
    LET Targets(t) == {LinkTarget(t, l) : l \in Links(t)}
    IN  {"cycle" : l \in {k \in Links(w.host) : stat(w, "host", k) = Loop}}
        \cup {"lexical" : q \in {r \in Targets(w.host) \cup Targets(w.pkg) : Lexical(w, r)}}
        \cup {"excess" : q \in {r \in Targets(w.host) \cup Targets(w.pkg) : Excess(r)}}
        \cup {"absolute" : l \in {k \in Links(w.pkg) : w.pkg[k].abs}}

NewFaults == IF world' = world THEN {} ELSE LinkFaults(world')

\* A link of the package that leads to a directory on the host, but to none in the package.
Dangling(w) ==
    \E l \in Links(w.pkg) :
        Kind(w, stat(w, "host", l)) = "dir" /\ Kind(w, stat(w, "pkg", l)) # "dir"

\* The names of the host that are looked at on the way along a path.
RECURSIVE Visits(_, _, _, _)
Visits(w, pos, path, fuel) ==
    IF path = <<>> \/ Kind(w, pos) # "dir" THEN {}
    ELSE IF Head(path) = ".." THEN Visits(w, Up(pos), Tail(path), fuel)
    ELSE LET next == [pos EXCEPT !.at = Append(@, Head(path))]
             n == w.host[next.at]
         IN  {next.at} \cup
             IF next.at \notin DOMAIN w.host THEN {}
             ELSE IF n.kind # "link" THEN Visits(w, next, Tail(path), fuel)
             ELSE IF fuel = 0 THEN {}
             ELSE Visits(w, IF n.abs THEN Root("host") ELSE pos, n.to \o Tail(path), fuel - 1)

Changing(c) == c.op \notin {"access", "chdir"}

\* What a call looks at, and the names among them that it may make or remove.
Reach(w, p, c) ==
    LET visits == UNION {Visits(w, Root("host"), Full(p, a), MaxLinks)
                             \cup Visits(w, Root("host"), Traced(p, a), MaxLinks) : a \in Paths(c)}
    IN  [visits |-> visits,
         names |-> IF ~Changing(c) THEN {}
                   ELSE IF c.op = "creat" THEN visits
                   ELSE {NameIn(w, "host", Full(p, a)).at : a \in Paths(c)} \cap visits]
NoReach == [visits |-> {}, names |-> {}]

\* A call names what another one, that is in progress, looks at.
Overtakes(r, p) ==
    \E q \in Pids \ {p} : r.names \cap reach[q].visits # {} \/ r.visits \cap reach[q].names # {}

\* The package has the directory in which a name is, but the handler does not come to it: the
\* options tell to ignore the path, or the package lacks a link on the way.
Hidden(w, path) ==
    LET src == NameIn(w, "host", path) IN
    /\ Found(src) /\ Front(src.at) \in DOMAIN w.pkg
    /\ ignore_path(path) \/ NameIn(w, "pkg", path) # [in |-> "pkg", at |-> src.at]

\* A rename between two names of one file does nothing.
SameFile(w, old, new) ==
    LET pos == lstat(w, "host", old)
        pos2 == lstat(w, "host", new)
    IN  /\ Kind(w, pos) \in {"file", "link"} /\ Found(pos2)
        /\ pos = pos2 \/ (Kind(w, pos) = "file" /\ Node(w, pos) = Node(w, pos2))

\* The cases in which the package does not follow a call, apart from links: a link to a link;
\* a file renamed over one that the package has, or to another name of its own, which does
\* nothing; a name that is hidden from the handler; and a handler that takes a path for
\* relative to the working directory, or does nothing, because of a descriptor.
Unfollowed(w, p, c) ==
    LET path == Traced(p, c.arg)
        path2 == IF c.op \in {"link", "rename"} THEN Traced(p, c.arg2) ELSE <<>>
        src == lstat(w, "host", path)
    IN
    {x \in {"lexical"} : c.op # "creat" /\ \E a \in Paths(c) : Lexical(w, Full(p, a))}
    \cup {x \in {"linked"} : c.op = "link" /\ Kind(w, src) = "link"}
    \cup {x \in {"replaced"} :
             /\ c.op = "rename"
             /\ NameIn(w, "host", path2).at \in DOMAIN w.pkg \/ SameFile(w, path, path2)}
    \cup {x \in {"hidden"} :
             \/ c.op \in {"unlink", "rmdir", "rename"} /\ src.at \in DOMAIN w.pkg /\ Hidden(w, path)
             \/ c.op = "symlink" /\ Hidden(w, path)
             \/ c.op \in {"link", "rename"} /\ Hidden(w, path2)}
    \cup {x \in {"descriptor"} :
             \/ c.op \in AtEntry /\ Punts(c)
             \/ c.op # "creat" /\ \E a \in Paths(c) : a.base = "fd"}
-----------------------------------------------------------------------------
Init ==
    /\ start \in DOMAIN Starts
    /\ world = Place(World(Starts[start].host, [q \in {<<>>} |-> Dir]), "host", PackageDir, Dir)
    /\ left = Starts[start].left
    /\ stage = [p \in Pids |-> "user"]
    /\ call = [p \in Pids |-> NoCall]
    /\ u_rval = [p \in Pids |-> FALSE]
    /\ cwd = [p \in Pids |-> <<>>]
    /\ reach = [p \in Pids |-> NoReach]
    /\ ahead = [p \in Pids |-> FALSE]
    /\ seen = {}
    /\ excused = LinkFaults(world)
-----------------------------------------------------------------------------
(* The handlers at the entry of a call give the world that they leave. *)

CDE_begin_standard_fileop(w, path, newer) == copy_file_into_cde_root(w, path, newer)

\* Mutant: the host's file is removed.
CDE_begin_file_unlink_host(w, path) == IF ignore_path(path) THEN w ELSE Unlink(w, "host", path)

\* Mutant: a directory is removed as well.
CDE_begin_file_unlink_any(w, path) ==
    LET pos == lstat(w, "pkg", path) IN
    IF ignore_path(path) \/ ~Found(pos) THEN w ELSE Without(w, pos)

CDE_begin_file_unlink(w, path) == IF ignore_path(path) THEN w ELSE Unlink(w, "pkg", path)

\* A link to what is there, in the package: of the node itself, also of a link.
link_in_package(w, pos, new) ==
    IF w.down \/ ignore_path(new) \/ Kind(w, pos) \notin {"file", "link"} THEN w
    ELSE Place(w, "pkg", new, Node(w, pos))

CDE_begin_file_link(w, old, new, newer) ==
    LET w1 == copy_file_into_cde_root(w, old, newer) IN
    link_in_package(w1, IF ignore_path(old) THEN Missing ELSE lstat(w1, "pkg", old), new)

\* The target is not changed.
CDE_begin_file_symlink(w, c, new) ==
    IF ignore_path(new) THEN w ELSE Place(w, "pkg", new, Link(c.abs, c.to))

Begin(w, p, c, newer) ==
    LET path == Traced(p, c.arg) IN
    CASE Punts(c) \/ c.op = "rename" -> w
      [] c.op \in {"access", "creat", "chdir", "mkdir", "rmdir"} /\ ~Punts(c) ->
            CDE_begin_standard_fileop(w, path, newer)
      [] c.op = "unlink" /\ ~Punts(c) -> CDE_begin_file_unlink(w, path)
      [] c.op = "link" /\ ~Punts(c) -> CDE_begin_file_link(w, path, Traced(p, c.arg2), newer)
      [] c.op = "symlink" /\ ~Punts(c) -> CDE_begin_file_symlink(w, c, path)

\* A file was found through the path, and it was mirrored.
Mirrored(w, p, c) ==
    IF /\ c.op \in {"access", "creat"} /\ ~Punts(c)
       /\ ~ignore_path(Traced(p, c.arg))
       /\ Kind(w, stat(w, "host", Traced(p, c.arg))) = "file"
    THEN {Traced(p, c.arg)} ELSE {}

Enter(p, c) ==
    /\ stage[p] = "user" /\ left > 0 /\ ~world.down
    /\ \E newer \in Newer(world, Traced(p, c.arg)) : world' = Begin(world, p, c, newer)
    /\ stage' = [stage EXCEPT ![p] = "called"]
    /\ call' = [call EXCEPT ![p] = c]
    /\ left' = left - 1
    /\ seen' = seen \cup Mirrored(world, p, c)
    /\ LET r == Reach(world, p, c) IN
       /\ reach' = [reach EXCEPT ![p] = IF c.op = "access" THEN NoReach ELSE r]
       /\ excused' = excused \cup NewFaults
              \cup (IF Overtakes(r, p) THEN {"overtaken"} ELSE {})
              \cup (IF c.op \in AtEntry THEN Unfollowed(world, p, c) ELSE {})
    /\ ahead' = [ahead EXCEPT ![p] = c.op \in AtEntry /\ world' # world]
    /\ UNCHANGED <<start, u_rval, cwd>>
-----------------------------------------------------------------------------
(* The kernel performs the call, on the host. *)

Renames(w, old, new) ==
    /\ Kind(w, lstat(w, "host", old)) \in {"file", "link"}
    /\ Kind(w, lstat(w, "host", new)) # "dir" /\ ~SameFile(w, old, new)

\* The name at which a file is made: that of the last link's target.
RECURSIVE Final(_, _, _)
Final(w, path, fuel) ==
    LET pos == lstat(w, "host", path) IN
    IF Kind(w, pos) # "link" \/ fuel = 0 THEN path
    ELSE Final(w, LinkTarget(w.host, pos.at), fuel - 1)

NewFile(w) ==
    File(1 + Max({0} \cup UNION {{t[q].id : q \in {r \in DOMAIN t : t[r].kind = "file"}} :
                                    t \in {w.host, w.pkg}}))

\* What a call leaves on the host, which stays as it is when it cannot be made.
Result(w, p, c) ==
    LET path == Full(p, c.arg)
        pos == lstat(w, "host", path)
        path2 == IF c.op \in {"link", "rename"} THEN Full(p, c.arg2) ELSE <<>>
        w1 == Unlink(w, "host", path2)
    IN  CASE c.op \in {"access", "chdir"} -> w
          [] c.op = "creat" -> Place(w, "host", Final(w, path, MaxLinks), NewFile(w))
          [] c.op = "mkdir" -> Place(w, "host", path, Dir)
          [] c.op = "rmdir" -> Rmdir(w, "host", path)
          [] c.op = "unlink" -> Unlink(w, "host", path)
          [] c.op = "symlink" -> Place(w, "host", path, Link(c.abs, c.to))
          [] c.op = "link" ->
                IF Kind(w, pos) \notin {"file", "link"} THEN w
                ELSE Place(w, "host", path2, Node(w, pos))
          [] c.op = "rename" ->
                IF Renames(w, path, path2) /\ CanPlace(w1, "host", path2)
                THEN Unlink(Place(w1, "host", path2, Node(w, pos)), "host", path) ELSE w

\* Whether the call can be made, on the host.
Succeeds(w, p, c) ==
    LET to == stat(w, "host", Full(p, c.arg)) IN
    CASE c.op = "access" -> Found(to)
      [] c.op = "chdir" -> Kind(w, to) = "dir"
      [] c.op = "creat" -> Kind(w, to) = "file" \/ Result(w, p, c) # w
      [] c.op = "rename" -> SameFile(w, Full(p, c.arg), Full(p, c.arg2)) \/ Result(w, p, c) # w
      [] OTHER -> Result(w, p, c) # w

\* The paths through which a file was found that no longer lead where they led, or that lead
\* somewhere again, because of a file or a link that was made: it is in the package from the
\* next use of the path on.
Forgotten(w, p, c) ==
    IF \/ c.op \in {"creat", "symlink"}
       \/ c.op = "rename" /\ Kind(w, lstat(w, "host", Full(p, c.arg))) = "link"
    THEN {q \in seen : stat(Result(w, p, c), "host", q) # stat(w, "host", q)} ELSE {}

\* A call that succeeds.  No process removes the working directory of another.
Perform(p) ==
    LET c == call[p]
        to == stat(world, "host", Full(p, c.arg))
    IN
    /\ stage[p] = "called" /\ ~world.down
    /\ Succeeds(world, p, c)
    /\ world' = Result(world, p, c)
    /\ cwd' = IF c.op = "chdir" THEN [cwd EXCEPT ![p] = to.at] ELSE cwd
    /\ \A q \in Pids : cwd[q] \in DOMAIN world'.host
    /\ stage' = [stage EXCEPT ![p] = "performed"]
    /\ u_rval' = [u_rval EXCEPT ![p] = TRUE]
    /\ seen' = seen \ Forgotten(world, p, c)
    /\ excused' = excused \cup NewFaults
           \cup (IF Changing(c) /\ c.op \notin AtEntry THEN Unfollowed(world, p, c) ELSE {})
           \cup (IF c.op = "symlink" /\ Dangling(world') THEN {"dangling"} ELSE {})
    /\ reach' = [reach EXCEPT ![p] = IF c.op \in AtEntry \cup {"creat"} THEN NoReach ELSE @]
    /\ ahead' = [ahead EXCEPT ![p] = FALSE]
    /\ UNCHANGED <<start, left, call>>

\* A call that fails, for want of permission or because of what is on the host.
Fail(p) ==
    /\ stage[p] = "called" /\ ~world.down
    /\ stage' = [stage EXCEPT ![p] = "performed"]
    /\ u_rval' = [u_rval EXCEPT ![p] = FALSE]
    /\ excused' = excused \cup (IF ahead[p] THEN {"failed"} ELSE {})
    /\ reach' = [reach EXCEPT ![p] = NoReach]
    /\ ahead' = [ahead EXCEPT ![p] = FALSE]
    /\ UNCHANGED <<world, start, left, call, cwd, seen>>
-----------------------------------------------------------------------------
(* The handlers at the exit of a call. *)

make_mirror_dirs_in_cde_package(w, path) == create_mirror_dirs(w, path, FALSE, MaxLinks)

CDE_end_fchdir(w, p) ==
    IF ignore_path(cwd[p]) THEN w ELSE make_mirror_dirs_in_cde_package(w, cwd[p])

\* Without a test of the options.
CDE_end_mkdir(w, path) == make_mirror_dirs_in_cde_package(w, path)

CDE_end_rmdir(w, path) == IF ignore_path(path) THEN w ELSE Rmdir(w, "pkg", path)

\* Mutant: the old name stays in the package.
CDE_end_file_rename_copy(w, old, new, newer) == copy_file_into_cde_root(w, new, newer)

CDE_end_file_rename(w, old, new, newer) ==
    copy_file_into_cde_root(IF ignore_path(old) THEN w ELSE Unlink(w, "pkg", old), new, newer)

\* The tests of descriptors are made at the entry only.
End(w, p, c, newer) ==
    LET path == Traced(p, c.arg) IN
    CASE ~u_rval[p] \/ c.op \in AtEntry \cup {"access", "creat"} -> w
      [] c.op = "chdir" /\ u_rval[p] -> CDE_end_fchdir(w, p)
      [] c.op = "mkdir" /\ u_rval[p] -> CDE_end_mkdir(w, path)
      [] c.op = "rmdir" /\ u_rval[p] -> CDE_end_rmdir(w, path)
      [] c.op = "rename" /\ u_rval[p] -> CDE_end_file_rename(w, path, Traced(p, c.arg2), newer)

Leave(p) ==
    LET c == call[p] IN
    /\ stage[p] = "performed" /\ ~world.down
    /\ \E newer \in IF c.op = "rename" THEN Newer(world, Traced(p, c.arg2)) ELSE {TRUE} :
           world' = End(world, p, c, newer)
    /\ excused' = excused \cup NewFaults
    /\ stage' = [stage EXCEPT ![p] = "user"]
    /\ call' = [call EXCEPT ![p] = NoCall]
    /\ u_rval' = [u_rval EXCEPT ![p] = FALSE]
    /\ reach' = [reach EXCEPT ![p] = NoReach]
    /\ UNCHANGED <<start, left, cwd, ahead, seen>>

\* The tracer goes on as long as its processes do.
Over == (world.down \/ (left = 0 /\ \A p \in Pids : stage[p] = "user")) /\ UNCHANGED vars

Next ==
    \/ \E p \in Pids : (\E c \in Calls : Enter(p, c)) \/ Perform(p) \/ Fail(p) \/ Leave(p)
    \/ Over

Spec == Init /\ [][Next]_vars
-----------------------------------------------------------------------------
Faults == {"cycle", "lexical", "excess", "absolute", "dangling", "linked", "replaced",
           "hidden", "descriptor", "failed", "overtaken"}

IsTree(t) ==
    /\ <<>> \in DOMAIN t /\ t[<<>>] = Dir
    /\ \A q \in DOMAIN t \ {<<>>} : Front(q) \in DOMAIN t /\ t[Front(q)] = Dir

\* Both trees are trees: what is in a directory goes before the directory does.
TypeOK ==
    /\ world.down \in BOOLEAN /\ IsTree(world.host) /\ IsTree(world.pkg)
    /\ left \in Nat
    /\ stage \in [Pids -> {"user", "called", "performed"}]
    /\ \A p \in Pids : call[p] \in Calls \cup {NoCall}
    /\ u_rval \in [Pids -> BOOLEAN]
    /\ \A p \in Pids : cwd[p] \in DOMAIN world.host
    /\ \A p \in Pids : reach[p].names \subseteq reach[p].visits
    /\ ahead \in [Pids -> BOOLEAN]
    /\ excused \subseteq Faults

Quiet == ~world.down /\ \A p \in Pids : stage[p] = "user"

\* Whenever no call is in progress, a path through which a file was found leads, redirected
\* into the package, to the same file there, as long as it leads to one on the host: through
\* links of any kind, and whatever was linked, renamed, removed and made since.  The
\* exceptions are the faults, and files and links that the program made at the path since.
Reproduced ==
    Quiet /\ excused \subseteq {"cycle"} =>
        \A path \in seen :
            LET src == stat(world, "host", path)
                dst == stat(world, "pkg", path)
            IN  Kind(world, src) = "file" =>
                    dst.in = "pkg" /\ Node(world, dst) = Node(world, src)

\* Whenever no call is in progress, and there was no fault, what the package has at a path is
\* what the host has there, with absolute links made relative: nothing outlives its removal
\* from the host.
NoLeftover ==
    Quiet /\ excused \subseteq {"cycle"} =>
        \A q \in DOMAIN world.pkg :
            /\ q \in DOMAIN world.host
            /\ LET n == world.host[q] IN
               world.pkg[q] = IF n.kind = "link" /\ n.abs
                              THEN Link(FALSE, [i \in 1 .. Len(q) - 1 |-> ".."] \o n.to) ELSE n

\* An assertion of okapi.c, its exit or an endless recursion ends the audit only after one of
\* the faults.
NoAbort == world.down => excused # {}

\* The handlers change nothing on the host, unless there was one of the faults: no link of the
\* package leads out of it.
HostUntouched ==
    [][/\ \E p \in Pids : stage'[p] # stage[p] /\ stage'[p] # "performed"
       /\ excused \subseteq {"cycle"}
       => world'.host = world.host]_vars
=============================================================================
