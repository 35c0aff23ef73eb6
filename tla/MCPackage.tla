----------------------------- MODULE MCPackage ------------------------------
(***************************************************************************)
(* Instances of Package for TLC.                                           *)
(***************************************************************************)
EXTENDS Package, TLC

CONSTANTS p1, p2

Abs(path) == [base |-> "abs", path |-> path]
Rel(path) == [base |-> "cwd", path |-> path]
At(d, path) == [base |-> "fd", dir |-> d, path |-> path]
Low(path) == [base |-> "low", path |-> path]
One(op, a) == [op |-> op, arg |-> a]
Two(op, a, b) == [op |-> op, arg |-> a, arg2 |-> b]
Sym(abs, to, a) == [op |-> "symlink", abs |-> abs, to |-> to, arg |-> a]

\* Links of both kinds, to files, directories and links.
Linked ==
    (<<>> :> Dir) @@ (<<"d">> :> Dir) @@ (<<"d", "f">> :> File(1)) @@ (<<"g">> :> File(2))
    @@ (<<"d", "a">> :> Link(TRUE, <<"g">>)) @@ (<<"d", "r">> :> Link(FALSE, <<"..", "e", "f">>))
    @@ (<<"e">> :> Link(TRUE, <<"d">>)) @@ (<<"c">> :> Link(FALSE, <<"e", "a">>))

\* A cycle and a link to nothing.
Cyclic ==
    (<<>> :> Dir) @@ (<<"d">> :> Dir) @@ (<<"d", "f">> :> File(1)) @@ (<<"g">> :> File(2))
    @@ (<<"c">> :> Link(FALSE, <<"d", "c">>)) @@ (<<"d", "c">> :> Link(TRUE, <<"c">>))
    @@ (<<"n">> :> Link(FALSE, <<"d", "x">>))

\* A link with too many "..".
Outward ==
    (<<>> :> Dir) @@ (<<"d">> :> Dir) @@ (<<"d", "f">> :> File(1))
    @@ (<<"x">> :> Link(FALSE, <<"..", "..", "d">>))

\* A link to a directory of another depth.
Deep ==
    (<<>> :> Dir) @@ (<<"d">> :> Dir) @@ (<<"d", "s">> :> Dir) @@ (<<"d", "f">> :> File(1))
    @@ (<<"e">> :> Link(TRUE, <<"d", "s">>))

\* An empty directory, in which a name is ignored, and a link to it.
Bare ==
    (<<>> :> Dir) @@ (<<"d">> :> Dir) @@ (<<"g">> :> File(1)) @@ (<<"e">> :> Link(FALSE, <<"d">>))

FileCalls ==
    {One("access", Abs(<<"c">>)), One("access", Abs(<<"d", "r">>)),
     One("access", Abs(<<"d", "f">>)), One("access", Abs(<<"e", "..", "g">>)),
     One("creat", Abs(<<"g">>)), One("unlink", Abs(<<"g">>)), One("unlink", Abs(<<"e", "f">>)),
     One("unlink", Abs(<<"e">>)), One("unlink", Abs(<<"d">>)),
     Two("link", Abs(<<"g">>), Abs(<<"n">>)), Two("link", Abs(<<"d", "a">>), Abs(<<"n">>)),
     Two("rename", Abs(<<"d", "f">>), Abs(<<"g">>)), Two("rename", Abs(<<"g">>), Abs(<<"n">>)),
     Two("rename", Abs(<<"d", "a">>), Abs(<<"h">>)), Sym(FALSE, <<"d", "f">>, Abs(<<"n">>))}

DirCalls ==
    {One("access", Abs(<<"c">>)), One("access", Rel(<<"f">>)), One("access", Abs(<<"n", "f">>)),
     One("access", At(<<"d">>, <<"f">>)), One("chdir", Abs(<<"e">>)), One("mkdir", Rel(<<"n">>)),
     One("mkdir", At(<<"d">>, <<"g">>)), One("rmdir", Rel(<<"n">>)), One("creat", Rel(<<"n">>)),
     Two("link", Abs(<<"g">>), Rel(<<"n">>)), Two("rename", Abs(<<"g">>), Rel(<<"n">>)),
     Two("rename", At(<<"d">>, <<"f">>), Abs(<<"n">>)), One("unlink", Low(<<"g">>)),
     Sym(TRUE, <<"d">>, Abs(<<"m">>)), One("unlink", Abs(<<"m", "f">>)),
     Sym(FALSE, <<"x">>, Abs(<<"d">>)), Sym(FALSE, <<"d">>, Abs(<<"n">>))}

CyclicCalls ==
    {One("access", Abs(<<"c">>)), One("access", Abs(<<"n">>)), One("access", Abs(<<"d", "f">>)),
     One("unlink", Abs(<<"c">>)), One("creat", Abs(<<"n">>)),
     Two("rename", Abs(<<"g">>), Abs(<<"d", "x">>)), One("access", Abs(<<"d", "x">>)),
     Two("rename", Abs(<<"n">>), Abs(<<"d", "g">>))}

OutwardCalls == {One(op, Abs(<<"x", "f">>)) : op \in {"access", "unlink"}}

DeepCalls ==
    {One("access", Abs(<<"d", "f">>)), One("unlink", Abs(<<"e", "..", "f">>)),
     One("mkdir", Abs(<<"e", "n">>)), One("rmdir", Abs(<<"e", "n">>)),
     Two("rename", Abs(<<"d", "f">>), Abs(<<"e", "f">>)),
     Two("link", Abs(<<"e">>), Abs(<<"d", "s", "n">>))}

LongCalls ==
    {One("access", Abs(<<"c">>)), One("access", Abs(<<"d", "r">>)), One("unlink", Abs(<<"g">>)),
     Two("rename", Abs(<<"d", "f">>), Abs(<<"g">>)), Two("rename", Abs(<<"n">>), Abs(<<"d", "f">>)),
     Two("link", Abs(<<"g">>), Abs(<<"n">>))}

BareCalls ==
    {One(op, Abs(<<"d", "n">>)) : op \in {"access", "creat", "mkdir", "rmdir"}}
    \cup {One(op, Abs(<<"e", "n">>)) : op \in {"access", "rmdir", "unlink"}}
    \cup {One("rmdir", Abs(<<"d">>)), Two("link", Abs(<<"g">>), Abs(<<"e", "n">>)),
          Two("rename", Abs(<<"g">>), Abs(<<"d", "m">>)),
          Two("rename", Abs(<<"g">>), Abs(<<"e", "m">>))}

MCStarts == <<[host |-> Linked, calls |-> LongCalls, left |-> 5],
             [host |-> Linked, calls |-> FileCalls, left |-> 3],
             [host |-> Linked, calls |-> DirCalls, left |-> 3],
             [host |-> Cyclic, calls |-> CyclicCalls, left |-> 4],
             [host |-> Deep, calls |-> DeepCalls, left |-> 3],
             [host |-> Outward, calls |-> OutwardCalls, left |-> 2],
             [host |-> Bare, calls |-> BareCalls, left |-> 4]>>
MCIgnored == {<<"d", "n">>, <<"h">>}
MCPackageDir == <<"k">>
MCRedirected == {<<"h">>}

\* The processes play the same part.
Symmetry == Permutations({p1, p2})
=============================================================================
