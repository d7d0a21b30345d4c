------------------------------ MODULE MCItems ------------------------------
(* Items for TLC: a column of two cells, and ways to begin.                 *)
EXTENDS Items

MCItemSet == {"chest", "furnace", "leaves", "coal", "sand", "meat", "steak",
              "leather", "helmet", "pick"}
MCBlocks == {"chest", "furnace", "leaves", "coal", "sand"}
MCTools == {"pick"}
MCArmour == {"helmet"}
MCMeals == {"meat", "steak"}
MCBurnTime == [i \in MCItemSet |-> IF i = "coal" THEN 4 ELSE 0]
MCSmeltsTo == [i \in {"meat"} |-> "steak"]
MCRecipes ==
  {[inputs |-> <<[item |-> "leather", count |-> 1]>>, output |-> "helmet", count |-> 1]}
MCKit == <<"pick">>
MCLoot == [c \in {"a"} |-> <<Stack("leather", 1)>>]
MCMobDrops == <<Stack("meat", 2), Stack("leather", 1)>>
MCWorth == [i \in MCItemSet |-> IF i = "pick" THEN 0 ELSE 1]

\* The worlds, and what happens in each besides the players' requests.
World(a, b) == [c \in Cells |-> IF c = "a" THEN a ELSE b]
MCColumns == {{"a", "b"}}
MCBelow == [c \in {"a"} |-> "b"]
Begin(world, players, refusals, away, slain, renewed, hit) ==
  [world |-> world, active |-> players, refused |-> refusals, aways |-> away,
   kills |-> slain, lives |-> renewed, bites |-> hit, falls |-> 0]
Hosting(begin, fallen) == [begin EXCEPT !.falls = fallen]
MCStarts ==
  { Begin(World("coal", "furnace"), {"p1"}, 0, 0, 1, 0, 0),
    Begin(World("chest", Air), {"p1"}, 1, 0, 0, 0, 0),
    Begin(World("chest", Air), {"p1"}, 0, 1, 0, 0, 0),
    Begin(World("chest", Air), {"p1", "p2"}, 0, 0, 0, 1, 0),
    Begin(World("leaves", Air), {"p1"}, 0, 1, 1, 1, 1),
    Hosting(Begin(World("sand", Air), {"p1"}, 0, 1, 0, 0, 0), 2),
    Hosting(Begin(World("sand", "chest"), {"p1"}, 0, 1, 0, 0, 0), 1) }
=============================================================================
