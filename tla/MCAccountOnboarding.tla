------------------------- MODULE MCAccountOnboarding -------------------------
(* Instances of AccountOnboarding for TLC.                                   *)
EXTENDS AccountOnboarding

CONSTANTS master, a, b, core, dev

MCAccounts == {master, a, b}
MCMandatory == {master}
MCOUs == {core, dev}
MCOuOf == [x \in MCAccounts |-> IF x = master THEN core ELSE dev]

Compared(scope, targets) == [scope |-> scope, targets |-> targets, override |-> FALSE]
Overriding(scope, targets) == [scope |-> scope, targets |-> targets, override |-> TRUE]

MCInputs ==
    {Compared("FULL", {}),
     NewAccounts,
     Compared("GLOBAL-OPTIONS", {}),
     Compared("ACCOUNT", {"NEW"}),
     Compared("ACCOUNT", {a}),
     Compared("OU", {dev}),
     Overriding("OU", {core})}

\* The smaller instance of the runs that show where the documents are wrong.
OneNewAccount == {master, a}
OneOuOf == [x \in OneNewAccount |-> IF x = master THEN core ELSE dev]
EveryNewScope == {Compared("FULL", {}), NewAccounts}

NoOwnScps == {}
OwnScpsOfB == {b}
=============================================================================
