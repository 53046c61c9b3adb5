--------------------------- MODULE MCNetworkOutputs ---------------------------
(* One VPC of the account, which grows, shrinks and empties its lists, and two *)
(* shared ones, which come and go beside it.                                   *)
EXTENDS NetworkOutputs, TLC

CONSTANTS own, endpoints, central, web, app, private, public, azA, azB

MCVpcs == {own, endpoints, central}

Both == {"groups", "nets"}

Small == own :> [groups |-> {}, nets |-> {<<private, azA>>}, keys |-> {"nets"}]
Large == own :> [groups |-> {web, app}, nets |-> {<<private, azA>>, <<private, azB>>}, keys |-> Both]
Empty == own :> [groups |-> {}, nets |-> {}, keys |-> Both]
Bare == own :> [groups |-> {app}, nets |-> {}, keys |-> {"groups"}]
Endpoints == endpoints :> [groups |-> {web}, nets |-> {<<public, azA>>}, keys |-> Both]
Central == central :> [groups |-> {web}, nets |-> {}, keys |-> Both]

MCConfigs == {<<>>, Small, Large, Large @@ Endpoints, Endpoints @@ Central, Small @@ Central,
              Empty @@ Endpoints, Bare}

=============================================================================
