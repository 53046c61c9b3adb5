------------------------- MODULE MCPolicyEnforcement -------------------------
(* The instance of PolicyEnforcement for TLC: a unit with a policy, a unit    *)
(* below it, an account with a policy of its own and one without the key      *)
(* scps, and a policy of a user's.                                            *)
EXTENDS PolicyEnforcement, TLC

MCTop == "sub" :> "ou" @@ "own" :> "ou" @@ "free" :> "ou"

MCRank ==
    [x \in {"Full", "Guard", "root", "own"} |-> 1] @@ [x \in {"Extra", "ou", "free"} |-> 2]
    @@ [x \in {"Foreign", "sub"} |-> 3]

Config(ou, own) ==
    [policies |-> {"Guard", "Extra"}, scps |-> "ou" :> ou @@ "own" :> own @@ "free" :> Unset]

First == Config({"Guard"}, {"Extra"})
Second == Config({"Extra"}, {})
MCConfigs == {First, Second}
=============================================================================
