------------------------- MODULE MCSessionBootstrap -------------------------
(* Instances of SessionBootstrap for TLC.                                  *)
EXTENDS SessionBootstrap, TLC

CONSTANT SharedLoads \* how often pages are loaded when several tabs are used

\* Tabs are told apart by nothing but their names.
Symmetric == Permutations(Tabs)

Untouched(t) == page[t].at = "app" /\ kept[t] = <<>> /\ load[t] = NewLoad

\* A tab alone is followed further than several of them.
Within == loads <= SharedLoads \/ \E t \in Tabs : \A u \in Tabs \ {t} : Untouched(u)
=============================================================================
