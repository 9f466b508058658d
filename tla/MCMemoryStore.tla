----------------------------- MODULE MCMemoryStore -----------------------------
(* Instances of MemoryStore for TLC.                                       *)
EXTENDS MemoryStore, TLC

CONSTANTS home, lamp, kitchen, bedroom, purpose, place, reading, sleeping,
          inKitchen, inBedroom, ref1, ref2, w1, w2, absent

MCTargetOf == (inKitchen :> kitchen) @@ (inBedroom :> bedroom)
MCSlotOf == [v \in {inKitchen, inBedroom} |-> "located_in"]
NoTarget == [v \in {} |-> home]

P(s, k, v, src) == [subject |-> s, key |-> k, value |-> v, source |-> src, ref |-> ref1]

(* Everything present, and the lamp removed from Home Assistant.           *)
LampCatalogs == {[active |-> {home, lamp}, relations |-> {}], [active |-> {home}, relations |-> {}]}

(* Two or three callers with something to say about the same purpose.      *)
Opinions == {P(lamp, purpose, reading, "user_explicit"), P(lamp, purpose, sleeping, "observation"),
             P(lamp, purpose, sleeping, "user_explicit")}

(* Where Home Assistant says the lamp is, and whether it still has both    *)
(* rooms, against what a change proved and what was seen.                  *)
PlaceCatalogs ==
    {[active |-> {home, lamp, kitchen, bedroom}, relations |-> {<<lamp, inKitchen>>}],
     [active |-> {home, lamp, bedroom}, relations |-> {<<lamp, inBedroom>>}]}
Places == {P(lamp, place, inKitchen, "antigravity_change"), P(lamp, purpose, inBedroom, "observation")}
LampAnywhere == {<<lamp, inKitchen>>, <<lamp, inBedroom>>}

(* Two statements of the user that cannot both hold.                       *)
Disagreement == {P(lamp, purpose, reading, "user_explicit"), P(lamp, purpose, sleeping, "user_explicit")}

Interchangeable == Permutations(Workers)

ASecondSight == {<<"observation", ref2>>}
=============================================================================
