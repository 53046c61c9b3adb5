--------------------------- MODULE MCCidrAssignment ---------------------------
(* The instance of CidrAssignment for TLC: two dynamic VPCs of one name in two *)
(* accounts and a VPC that looks its two ranges up.  The pools hold eight and  *)
(* four addresses, so that ranges of sizes 1, 2 and 4 meet, leave holes and    *)
(* run out.                                                                    *)
EXTENDS CidrAssignment, TLC

Range(first, size) == [first |-> first, size |-> size]
Item(key, pool, range, order) == [key |-> key, pool |-> pool, range |-> range, order |-> order]

MCPoolOrder == <<"main", "extra">>
MCPoolRange == "main" :> Range(8, 8) @@ "extra" :> Range(4, 4)
MCSite == "a" :> "app" @@ "b" :> "app" @@ "c" :> "core" @@ "unit" :> "core"
MCUnit == "a" :> "none" @@ "b" :> "none" @@ "c" :> "unit"
MCVpcCidrs ==
    "a" :> <<[pool |-> "main", size |-> 2], [pool |-> "extra", size |-> 2]>>
    @@ "b" :> <<[pool |-> "main", size |-> 4]>>
    @@ "c" :> <<>>
MCVpcSubnets ==
    "a" :> <<[subnet |-> "web", pool |-> "main", size |-> 1],
             [subnet |-> "db", pool |-> "extra", size |-> 2]>>
    @@ "b" :> <<[subnet |-> "web", pool |-> "main", size |-> 1],
                [subnet |-> "db", pool |-> "main", size |-> 2]>>
    @@ "c" :> <<[subnet |-> "web", pool |-> "main", size |-> 1]>>
MCEntered ==
    "unit" :> {Item("unit", "main", Range(9, 1), 1), Item("unit", "extra", Range(4, 1), 2)}
MCEnteredSubnets ==
    "unit" :> {[key |-> "unit", subnet |-> "web", range |-> Range(9, 1)]}
=============================================================================
