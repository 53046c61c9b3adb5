----------------------------- MODULE MCConfigRepo -----------------------------
(* Instances of ConfigRepo for TLC.                                          *)
EXTENDS ConfigRepo

CONSTANTS a, b, e

Both == {a, b}
OnlyA == {a}
Nobody == {}
OneEdit == {e}
InRoot == [x \in OneEdit |-> "root"]
InSplit == [x \in OneEdit |-> "split"]
=============================================================================
