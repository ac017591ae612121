---------------------------- MODULE MCPolicyGate ----------------------------
(* A server run makes two calls and a command line run one; each of them     *)
(* writes the one note that can be remembered, sends something, pays, reads,  *)
(* or appends to a log.  The server's calls are interchangeable.             *)
EXTENDS PolicyGate, TLC

CONSTANTS a1, a2, b1, server, cli, note

MCRunOf == a1 :> server @@ a2 :> server @@ b1 :> cli

MCProposals == {[effect |-> "write",   key |-> note, builtIn |-> FALSE],
                [effect |-> "network", key |-> None, builtIn |-> FALSE],
                [effect |-> "payment", key |-> None, builtIn |-> FALSE],
                [effect |-> "read",    key |-> None, builtIn |-> FALSE],
                [effect |-> "write",   key |-> None, builtIn |-> TRUE]}

\* No plugins; plugins that agree, deny or fail; one database for all or two.
MCEngines == {[mode |-> "manual", plugins |-> "absent",           oneDb |-> FALSE],
              [mode |-> "off",    plugins |-> "absent",           oneDb |-> FALSE],
              [mode |-> "manual", plugins |-> "deny",             oneDb |-> FALSE],
              [mode |-> "manual", plugins |-> "require_approval", oneDb |-> TRUE],
              [mode |-> "off",    plugins |-> "error",            oneDb |-> TRUE]}

Symmetry == Permutations({a1, a2})
=============================================================================
