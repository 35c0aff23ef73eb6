------------------------------- MODULE Mirror -------------------------------
(***************************************************************************)
(* Copying of files, directories and links from the host into cde-root, by *)
(* strace-4.6/okapi.c.                                                     *)
(*                                                                         *)
(* A path is a sequence of names and "..", from the root of its tree.  A   *)
(* tree is a function from the paths that exist, without "..", to nodes.   *)
(* A world holds the host's tree and the package's, and tells whether the  *)
(* tracer went down: a failed assertion, exit(1), or a recursion that does *)
(* not end.  A hard link and a copy of a file have the file's id.          *)
(***************************************************************************)
EXTENDS Integers, Sequences, SequencesExt

CONSTANTS
    MaxLinks,   \* links followed before the kernel, or the tracer's stack, gives up
    PackageDir  \* CDE_PACKAGE_DIR, the directory of the host that cde-root is in

Dir == [kind |-> "dir"]
File(i) == [kind |-> "file", id |-> i]
Link(abs, to) == [kind |-> "link", abs |-> abs, to |-> to]

World(h, p) == [host |-> h, pkg |-> p, down |-> FALSE]
Down(w) == [w EXCEPT !.down = TRUE]
-----------------------------------------------------------------------------
(* The kernel's view of paths. *)

Missing == [in |-> "nowhere", at |-> <<>>]
Loop == [in |-> "loop", at |-> <<>>]
Root(t) == [in |-> t, at |-> <<>>]
Found(pos) == pos.in \in {"host", "pkg"}
Node(w, pos) == w[pos.in][pos.at]
Kind(w, pos) == IF Found(pos) THEN Node(w, pos).kind ELSE "none"

\* The parent of the host's root is the root; that of cde-root is a directory of the host.
Up(pos) ==
    IF pos.at # <<>> THEN [pos EXCEPT !.at = Front(@)]
    ELSE IF pos.in = "host" THEN pos ELSE [in |-> "host", at |-> PackageDir]

\* Where a path leads from pos; a link at its end is followed if follow is TRUE.  An
\* absolute link leads to the host, also from the package.
RECURSIVE Walk(_, _, _, _, _)
Walk(w, pos, path, follow, fuel) ==
    IF ~Found(pos) \/ path = <<>> THEN pos
    ELSE IF Kind(w, pos) # "dir" THEN Missing
    ELSE IF Head(path) = ".." THEN Walk(w, Up(pos), Tail(path), follow, fuel)
    ELSE LET next == [pos EXCEPT !.at = Append(@, Head(path))] IN
         IF next.at \notin DOMAIN w[next.in] THEN Missing
         ELSE IF Kind(w, next) = "link" /\ (follow \/ Len(path) > 1)
         THEN IF fuel = 0 THEN Loop
              ELSE LET n == Node(w, next)
                       from == IF n.abs THEN Root("host") ELSE pos
                   IN  Walk(w, from, n.to \o Tail(path), follow, fuel - 1)
         ELSE Walk(w, next, Tail(path), follow, fuel)

lstat(w, t, path) == Walk(w, Root(t), path, FALSE, MaxLinks)
stat(w, t, path) == Walk(w, Root(t), path, TRUE, MaxLinks)

\* Where the name at the end of a path is, or would be.
NameIn(w, t, path) ==
    LET d == stat(w, t, Front(path)) IN
    IF Kind(w, d) = "dir" THEN [d EXCEPT !.at = Append(@, Last(path))] ELSE Missing

Children(w, pos) == {q \in DOMAIN w[pos.in] : q # <<>> /\ Front(q) = pos.at}

\* The node is made unless something is there; the world stays as it is when it cannot be.
CanPlace(w, t, path) ==
    path # <<>> /\ lstat(w, t, path) = Missing /\ Kind(w, stat(w, t, Front(path))) = "dir"
Place(w, t, path, n) ==
    IF ~CanPlace(w, t, path) THEN w
    ELSE LET q == NameIn(w, t, path) IN
         [w EXCEPT ![q.in] = [r \in DOMAIN @ \cup {q.at} |-> IF r = q.at THEN n ELSE @[r]]]

Without(w, pos) == [w EXCEPT ![pos.in] = [r \in DOMAIN @ \ {pos.at} |-> @[r]]]
Unlink(w, t, path) ==
    LET pos == lstat(w, t, path) IN
    IF Kind(w, pos) \in {"file", "link"} THEN Without(w, pos) ELSE w
Rmdir(w, t, path) ==
    LET pos == lstat(w, t, path) IN
    IF Kind(w, pos) = "dir" /\ pos.at # <<>> /\ Children(w, pos) = {} THEN Without(w, pos) ELSE w
-----------------------------------------------------------------------------
(* okapi.c *)

\* Removes "..", by the text of the path alone.
canonicalize_path(path) ==
    FoldLeft(LAMBDA p, n : IF n # ".." THEN Append(p, n) ELSE IF p = <<>> THEN p ELSE Front(p),
             <<>>, path)

path_pop(path) == IF path = <<>> THEN path ELSE Front(path)

\* A hard link, or else a copy: only a missing directory makes both fail, and then copying
\* ends the tracer.  What is at the destination already stays.
link_or_copy(w, path, i) ==
    IF Found(lstat(w, "pkg", path)) THEN w
    ELSE IF CanPlace(w, "pkg", path) THEN Place(w, "pkg", path, File(i)) ELSE Down(w)

RECURSIVE create_mirror_symlink_and_target(_, _, _)

\* Makes one directory in the package, or the link that is in its place on the host.
mirror_dir(w, dn, kind, fuel) ==
    CASE kind = "none" -> w
      [] kind = "link" -> create_mirror_symlink_and_target(w, dn, fuel)
      [] kind = "file" -> Down(w)
      [] kind = "dir" -> Place(w, "pkg", dn, Dir)

\* The directories that lead to the path p, from the i-th on.
RECURSIVE mirror_dirs_from(_, _, _, _)
mirror_dirs_from(w, p, i, fuel) ==
    IF w.down \/ i > Len(p) THEN w
    ELSE mirror_dirs_from(
            IF Found(lstat(w, "pkg", SubSeq(p, 1, i))) THEN w
            ELSE mirror_dir(w, SubSeq(p, 1, i), Kind(w, lstat(w, "host", SubSeq(p, 1, i))), fuel),
            p, i + 1, fuel)

create_mirror_dirs(w, path, pop_one, fuel) ==
    mirror_dirs_from(w, IF pop_one THEN path_pop(canonicalize_path(path))
                                   ELSE canonicalize_path(path), 1, fuel)

\* A regular file, after the directories that lead to it.
mirror_regular(w, path, i) == IF w.down THEN w ELSE link_or_copy(w, path, i)

\* Mutant: one ".." too few.
relative_symlink_target_short(depth, to) == [i \in 1 .. depth - 1 |-> ".."] \o to

\* An absolute target, as seen from a directory of the given depth.
relative_symlink_target(depth, to) == [i \in 1 .. depth |-> ".."] \o to

\* What the link leads to, at pos on the host.
mirror_target(w, target, pos, fuel) ==
    CASE w.down \/ ~Found(pos) -> w
      [] Kind(w, pos) = "link" -> create_mirror_symlink_and_target(w, target, fuel)
      [] Kind(w, pos) = "dir" -> create_mirror_dirs(w, target, FALSE, fuel)
      [] Kind(w, pos) = "file" ->
            mirror_regular(create_mirror_dirs(w, target, TRUE, fuel),
                           canonicalize_path(target), Node(w, pos).id)

\* The link n in the directory dir, with an absolute target made relative.
mirror_link(w, path, n, dir) ==
    Place(w, "pkg", path,
          Link(FALSE, IF n.abs THEN relative_symlink_target(Len(dir), n.to) ELSE n.to))

mirror_link_and_target(w, path, n, dir, target, fuel) ==
    LET w1 == mirror_link(create_mirror_dirs(w, path, TRUE, fuel), path, n, dir) IN
    mirror_target(w1, target, lstat(w1, "host", target), fuel)

\* The link, then what it leads to, link by link.
create_mirror_symlink_and_target(w, path, fuel) ==
    IF fuel = 0 THEN Down(w)
    ELSE LET n == Node(w, lstat(w, "host", path))
             dir == stat(w, "host", Front(path)).at
         IN  mirror_link_and_target(w, path, n, dir, IF n.abs THEN n.to ELSE dir \o n.to, fuel - 1)

\* Mutant: the directories that lead to a file are not made.
mirror_file_bare(w, path, n, fresh) ==
    CASE fresh -> w
      [] n.kind = "link" /\ ~fresh -> create_mirror_symlink_and_target(w, path, MaxLinks)
      [] n.kind = "dir" /\ ~fresh -> create_mirror_dirs(w, path, FALSE, MaxLinks)
      [] n.kind = "file" /\ ~fresh -> mirror_regular(w, path, n.id)

\* The node n of the host, unless it leads to a file and the package has one that is fresh.
mirror_file(w, path, n, fresh) ==
    CASE fresh -> w
      [] n.kind = "link" /\ ~fresh -> create_mirror_symlink_and_target(w, path, MaxLinks)
      [] n.kind = "dir" /\ ~fresh -> create_mirror_dirs(w, path, FALSE, MaxLinks)
      [] n.kind = "file" /\ ~fresh ->
            mirror_regular(create_mirror_dirs(w, path, TRUE, MaxLinks), path, n.id)

\* newer tells whether what the path leads to in the package was modified no earlier than
\* what it leads to on the host.
create_mirror_file(w, path, newer) ==
    LET pos == lstat(w, "host", path) IN
    IF ~Found(pos) THEN w
    ELSE mirror_file(w, path, Node(w, pos),
            /\ newer
            /\ Kind(w, stat(w, "host", path)) = "file"
            /\ Found(stat(w, "pkg", path)))
=============================================================================
