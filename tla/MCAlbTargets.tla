----------------------------- MODULE MCAlbTargets -----------------------------
(* Two applications that may want the same priority, and change it or the target. *)
EXTENDS AlbTargets

CONSTANTS app1, app2, ip1, ip2

MCSpecs == {[target |-> "http", condition |-> "img", priority |-> 10],
            [target |-> "https", condition |-> "img", priority |-> 10],
            [target |-> "http", condition |-> "img", priority |-> 20]}

MCAddresses == {{ip1}, {ip2}}

\* No step compares addresses of two names, so that one start stands for the others.
MCFirstDns == [i \in {app1, app2} |-> {ip1}]

=============================================================================
