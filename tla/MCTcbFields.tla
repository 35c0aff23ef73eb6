---------------------------- MODULE MCTcbFields -----------------------------
(***************************************************************************)
(* Instances of TcbFields for TLC.                                         *)
(***************************************************************************)
EXTENDS TcbFields, TLC

CONSTANTS a, b, p1, p2, p3, p4, sh, script, static, plugin, tracer

MCFds == {"fd"}
MCModes == {<<FALSE, TRUE, {"chdir", "getcwd", "open", "dup", "close"}, 2, 2>>,
            <<FALSE, TRUE, {"chdir", "getcwd", "open", "dup", "close"}, 1, 3>>,
            <<FALSE, TRUE, {"chdir", "getcwd"}, 3, 2>>,
            <<FALSE, TRUE, {"open", "dup", "close"}, 4, 1>>,
            <<TRUE, FALSE, {"chdir", "execve"}, 3, 1>>,
            <<TRUE, FALSE, {"execve"}, 2, 2>>,
            <<TRUE, FALSE, {"getcwd", "open"}, 2, 2>>,
            <<TRUE, FALSE, {"getcwd"}, 1, 3>>}
MCPrograms == {sh, script, static, plugin, tracer}
MCKindOf == (sh :> "loader") @@ (script :> "loader") @@ (static :> "direct")
            @@ (plugin :> "ignores") @@ (tracer :> "tracer")
MCExeOf == [x \in MCPrograms |-> IF x = script THEN sh ELSE x]

\* The children, and the directories, play the same part.
Symmetry == Permutations({p2, p3, p4}) \cup Permutations({a, b})
=============================================================================
