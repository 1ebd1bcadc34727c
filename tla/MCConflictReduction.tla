------------------------ MODULE MCConflictReduction ------------------------
(* Theories for TLC: up to two worlds that decide all literals but one,    *)
(* and three that decide all of them.                                      *)
EXTENDS ConflictReduction

CONSTANTS x, y, z

World(true, free) == [true |-> true, false |-> (1 .. 5) \ (true \cup free)]
FullWorlds == {World(s, {}) : s \in SUBSET (1 .. 5)}
PartialWorlds == FullWorlds \cup {World(s, {5}) : s \in SUBSET (1 .. 4)}

Some(worlds) == {w \in worlds : w.true # 1 .. 4 /\ w.true # 1 .. 5}
SomeTheories ==
    LET full == Some(FullWorlds)
    IN {{}} \cup {{v, w} : v, w \in Some(PartialWorlds)} \cup {{u, v, w} : u, v \in full, w \in {w \in full : w.true \subseteq 1 .. 3}}

(* The first and the last literal and l have a variable in common, and so  *)
(* have the second and the third.                                          *)
SharedVariables == <<{x}, {y}, {y, z}, {x}, {x}>>

AllMethods == Linear \cup Ranges \cup Connected
=============================================================================
