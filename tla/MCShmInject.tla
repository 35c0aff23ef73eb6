---------------------------- MODULE MCShmInject -----------------------------
(* Two processes, whose ids are used again, and one signal handler. *)
EXTENDS ShmInject, TLC

CONSTANTS p1, p2

MCPids == {p1, p2}

Call(op, paths) == [op |-> op, paths |-> paths]

\* "a" and "b" are redirected, "dyn" is a dynamically linked executable.
MCCalls == {Call("twoat", <<"a", "b">>), Call("symat", <<"ign", "b">>), Call("exec", <<"dyn">>),
            Call("exec", <<"cde">>)}

MCIgnored == {"ign"}
MCRelative == {"rel"}
MCStatic == {"static"}
MCAbsent == {"absent"}
MCTracers == {"cde"}
MCWordSizes == {{p2}}
=============================================================================
