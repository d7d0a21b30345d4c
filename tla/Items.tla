------------------------------- MODULE Items -------------------------------
(***************************************************************************)
(* What players own on the server: inventories, worn armour, the blocks    *)
(* they break and place, chests and furnaces, crafting, eating, dungeon    *)
(* loot.  Every action is the handler of one request, or one part of a     *)
(* tick; they run one after the other on the server's thread.  Reach, line *)
(* of sight and attack cooldowns only forbid steps and are left out.       *)
(*                                                                         *)
(* The world is reduced to a few cells.  A column may be away or being     *)
(* generated again at any time, and world_set_block may refuse to write    *)
(* into one that is being lit or meshed (ChunkPipeline says when).  At a   *)
(* host the main thread's block physics writes to the same world: between  *)
(* any two requests, and without a record in the overlay (GravityBlocks    *)
(* says which cells it looks at).                                          *)
(***************************************************************************)
EXTENDS Integers, Sequences, FiniteSets, SequencesExt

CONSTANTS
  Players,       \* the client slots of the server
  Cells,         \* positions of blocks
  Columns,       \* the sets of cells that come and go together
  Below,         \* a cell -> the cell under it
  SlotCount,     \* INVENTORY_SLOTS
  ChestSlots,    \* CHEST_SLOTS
  StackLimit,    \* the most of one item in a slot (64)
  Durability,    \* uses of a new tool or piece of armour
  MaxFood, FoodRestore,
  CookTime,      \* SMELT_TICKS_PER_ITEM
  Air,           \* the empty item and the empty block
  Items, Blocks, Tools, Armour, Meals,
  Chest, Furnace, FoodBlock,  \* blocks the code names
  Sand,          \* the one block that falls
  BurnTime,      \* fuel_burn_ticks of every item
  SmeltsTo,      \* smelting_result, for the items that can be smelted
  Recipes,       \* [inputs : sequence of [item, count], output, count]
  Kit,           \* the starter kit, a sequence of tools
  Loot,          \* dungeon cells -> the stacks their chest is filled with
  MobDrops,      \* mob_loot: the stacks a slain mob leaves
  Starts         \* the blocks of the cells and the players at the start, and
                 \* bounds on what may happen besides the players' requests:
                 \* [world, active, refused, aways, kills, lives, bites, falls];
                 \* a dedicated server has no block physics: falls = 0

\* The recipe table: no recipe names an ingredient twice.
ASSUME RecipesAssumption ==
  \A r \in Recipes :
    /\ r.inputs \in Seq([item : Items, count : Nat])
    /\ \A j, k \in DOMAIN r.inputs : r.inputs[j].item = r.inputs[k].item => j = k
    /\ r.output \in Items /\ r.count \in Nat

ASSUME ItemsAssumption ==
  /\ SlotCount \in Nat \ {0} /\ ChestSlots \in Nat /\ ChestSlots >= 3
  /\ StackLimit \in Nat \ {0} /\ Durability \in Nat \ {0}
  /\ MaxFood \in Nat /\ FoodRestore \in Nat \ {0} /\ CookTime \in Nat \ {0}
  /\ Air \notin Items
  /\ Blocks \cup Tools \cup Armour \cup Meals \subseteq Items
  /\ {Chest, Furnace, FoodBlock, Sand} \subseteq Blocks
  /\ Chest # Furnace /\ Sand \notin {Chest, Furnace}
  /\ Columns \subseteq SUBSET Cells
  /\ DOMAIN Below \subseteq Cells /\ \A c \in DOMAIN Below : Below[c] \in Cells
  /\ BurnTime \in [Items -> Nat]
  /\ DOMAIN SmeltsTo \subseteq Items
  /\ \A i \in DOMAIN SmeltsTo : SmeltsTo[i] \in Items \ Tools
  /\ Kit \in Seq(Items)
  /\ IsFiniteSet(Players) /\ IsFiniteSet(Cells) /\ DOMAIN Loot \subseteq Cells
  /\ \A s \in Starts :
       /\ s.active \subseteq Players /\ s.world \in [Cells -> Blocks \cup {Air}]
       /\ {s.refused, s.aways, s.kills, s.lives, s.bites, s.falls} \subseteq Nat

VARIABLES
  inv,       \* inventory of every player
  armor,     \* worn piece of every player
  food,      \* hunger of every player
  active,    \* players that are connected
  solid,     \* per cell: the block its column has when it is next generated
  live,      \* per cell: the block in the server's world
  ready,     \* cells whose column is there and generated
  entities,  \* s->block_entities
  rolled,    \* history: dungeon chests that were filled with loot
  twice,     \* history: dungeon chests that were filled again
  refused,   \* history: cells a write to which was refused
  blind,     \* history: cells written while their column was away
  sim,       \* where the block physics of the host is: <<>>, or what it is
             \* about to do and the cell it does it for
  stirred,   \* history: cells whose block the block physics replaced
  falls,     \* history: blocks of sand that fell a cell
  start,     \* one of Starts
  aways, kills, lives, bites

worldVars == <<solid, live, ready>>
histVars == <<refused, blind>>
counters == <<aways, kills, lives, bites>>
hostVars == <<sim, stirred, falls>>
vars == <<inv, armor, food, active, worldVars, entities, rolled, twice,
          histVars, counters, hostVars, start>>

Empty == [item |-> Air, count |-> 0, dur |-> 0]
Slots == 1 .. SlotCount
Stack(item, n) == [item |-> item, count |-> n, dur |-> 0]
Bare == [i \in Slots |-> Empty]
Bounded(n, most) == IF n < 0 THEN 0 ELSE IF n > most THEN most ELSE n

-----------------------------------------------------------------------------
(* Stacks: inventory.c and container.c.                                    *)

StackMax(item) == IF item \in Tools THEN 1 ELSE StackLimit

\* What a slot may hold: the item is air exactly if the count is zero, no stack
\* is over the limit, and tools do not stack.
Stacks ==
  {st \in [item : Items \cup {Air}, count : 0 .. StackLimit, dur : 0 .. Durability] :
     /\ st.item = Air <=> st.count = 0
     /\ st.count <= StackMax(st.item)}

\* The loot tables: what is found in a dungeon fits into its chest.
ASSUME LootAssumption ==
  /\ MobDrops \in Seq(Stacks)
  /\ \A c \in DOMAIN Loot : Loot[c] \in Seq(Stacks) /\ Len(Loot[c]) <= ChestSlots

\* What the slots take of item when stacks are topped up, and when empty slots
\* are filled.
TopUp(stacks, item) ==
  [i \in DOMAIN stacks |-> IF stacks[i].item = item
                             THEN StackMax(item) - stacks[i].count ELSE 0]
Filling(stacks, item) ==
  [i \in DOMAIN stacks |-> IF stacks[i].count = 0 THEN StackMax(item) ELSE 0]

\* The sums of the first i numbers of a sequence, for every i.
Sums(numbers) ==
  LET sum[i \in 0 .. Len(numbers)] ==
        IF i = 0 THEN 0 ELSE sum[i - 1] + numbers[i]
  IN  [i \in 0 .. Len(numbers) |-> sum[i]]

\* What every slot takes of n items, one pass over the slots after the other.
Puts(stacks, item, n) ==
  LET top == TopUp(stacks, item)
      fill == Filling(stacks, item)
      topped == Sums(top)
      filled == Sums(fill)
      rest == n - Bounded(topped[Len(stacks)], n)
  IN  [i \in DOMAIN stacks |-> Bounded(n - topped[i - 1], top[i])
                               + Bounded(rest - filled[i - 1], fill[i])]

\* inventory_add_item and container_add: the slots, and what did not fit.
Filled(stacks, item, n, dur) ==
  LET put == Puts(stacks, item, n)
  IN  [i \in DOMAIN stacks |->
        IF put[i] = 0 THEN stacks[i]
        ELSE [item |-> item, count |-> stacks[i].count + put[i],
              dur |-> IF stacks[i].count = 0 THEN dur ELSE stacks[i].dur]]

Leftover(stacks, item, n) == n - Sums(Puts(stacks, item, n))[Len(stacks)]

\* A tool that is added is a new one.
FreshDur(item) == IF item \in Tools THEN Durability ELSE 0
Added(stacks, st) == IF st.count = 0 THEN stacks
                     ELSE Filled(stacks, st.item, st.count, FreshDur(st.item))

\* A list of stacks, poured into others one by one; what does not fit is lost.
Poured(stacks, list) == FoldLeft(Added, stacks, list)

Less(stack, n) ==
  IF stack.count = n THEN Empty ELSE [stack EXCEPT !.count = @ - n]

\* inventory_consume
Consumed(stacks, i) == [stacks EXCEPT ![i] = Less(@, 1)]

\* inventory_count over the first i slots, for every i.
CountIn(stacks, item) ==
  Sums([i \in DOMAIN stacks |->
         IF stacks[i].item = item THEN stacks[i].count ELSE 0])

\* inventory_remove, once it is known that there is enough.
Removed(stacks, item, n) ==
  LET count == CountIn(stacks, item)
  IN  [i \in DOMAIN stacks |->
        IF stacks[i].item # item THEN stacks[i]
        ELSE Less(stacks[i], Bounded(n - count[i - 1], stacks[i].count))]

\* The inputs of a recipe, removed one by one.
Spent(stacks, inputs) ==
  FoldLeft(LAMBDA rest, in : Removed(rest, in.item, in.count), stacks, inputs)

\* A point of wear: the last one uses a tool or a piece of armour up.
Worn(piece) == IF piece.dur <= 1 THEN Empty ELSE [piece EXCEPT !.dur = @ - 1]

\* inventory_damage_tool
Damaged(stacks, i) ==
  IF stacks[i].item \notin Tools THEN stacks ELSE [stacks EXCEPT ![i] = Worn(@)]

-----------------------------------------------------------------------------
(* Block entities: server_block_entity.c.                                  *)

IsContainer(b) == b \in {Chest, Furnace}
Capacity(kind) == IF kind = Chest THEN ChestSlots ELSE 3
Entity(c, kind) ==
  [pos |-> c, kind |-> kind, viewers |-> {}, burn |-> 0, cook |-> 0,
   slots |-> [i \in 1 .. Capacity(kind) |-> Empty]]

\* sbe_find: the first entity at the position; 0 is NULL.
Find(c) ==
  IF \E k \in DOMAIN entities : entities[k].pos = c
    THEN CHOOSE k \in DOMAIN entities :
           /\ entities[k].pos = c
           /\ \A j \in 1 .. k - 1 : entities[j].pos # c
    ELSE 0

\* sbe_create, which leaves an entity that is there as it is.
Created(c, kind) ==
  IF Find(c) # 0 THEN entities ELSE Append(entities, Entity(c, kind))

\* sbe_destroy_return moves the last entity into the place of the k-th.
WithoutEntity(k) ==
  [i \in 1 .. Len(entities) - 1 |->
    IF i = k THEN Last(entities) ELSE entities[i]]

\* The container that container_transfer_... is given: a furnace's three slots
\* are copied into an empty chest, and the first three are copied back.
AsChest(e) == IF e.kind = Chest THEN e.slots
              ELSE [i \in 1 .. ChestSlots |-> IF i <= 3 THEN e.slots[i] ELSE Empty]
WithSlots(e, stacks) ==
  [e EXCEPT !.slots = IF e.kind = Chest THEN stacks ELSE SubSeq(stacks, 1, 3)]

\* furnace_tick for one tick.
CanSmelt(e) ==
  /\ e.slots[1].count > 0 /\ e.slots[1].item \in DOMAIN SmeltsTo
  /\ \/ e.slots[3].count = 0
     \/ /\ e.slots[3].item = SmeltsTo[e.slots[1].item]
        /\ e.slots[3].count < StackLimit

HasFuel(e) == e.slots[2].count > 0 /\ BurnTime[e.slots[2].item] > 0

Lit(e) ==
  IF e.burn > 0 THEN e
  ELSE [e EXCEPT !.burn = BurnTime[e.slots[2].item], !.slots[2] = Less(@, 1)]

\* Mutant of Burned: the result is made without using up an input.
BurnedFree(e) ==
  IF e.cook + 1 < CookTime THEN [e EXCEPT !.burn = @ - 1, !.cook = @ + 1]
  ELSE [e EXCEPT !.burn = @ - 1, !.cook = @ + 1 - CookTime,
                 !.slots[3] = Stack(SmeltsTo[e.slots[1].item], @.count + 1)]

Burned(e) ==
  IF e.cook + 1 < CookTime THEN [e EXCEPT !.burn = @ - 1, !.cook = @ + 1]
  ELSE [e EXCEPT !.burn = @ - 1, !.cook = @ + 1 - CookTime,
                 !.slots[1] = Less(@, 1),
                 !.slots[3] = Stack(SmeltsTo[e.slots[1].item], @.count + 1)]

Ticked(e) ==
  IF e.kind = Furnace /\ CanSmelt(e) /\ (e.burn > 0 \/ HasFuel(e))
    THEN Burned(Lit(e)) ELSE e

-----------------------------------------------------------------------------
(* The world: world_get_block, server_persist_edit.                        *)

\* A column that is away reads as air.
BlockAt(c) == IF c \in ready THEN live[c] ELSE Air

\* The overlay takes the block in any case, the live world may refuse it.
PersistEdit(c, b) ==
  /\ solid' = [solid EXCEPT ![c] = b]
  /\ \/ /\ live' = IF c \in ready THEN [live EXCEPT ![c] = b] ELSE live
        /\ UNCHANGED refused
     \/ /\ c \in ready /\ live[c] # b
        /\ Cardinality(refused) < start.refused
        /\ refused' = refused \cup {c}
        /\ UNCHANGED live
  /\ blind' = IF c \in ready THEN blind ELSE blind \cup {c}
  /\ UNCHANGED ready

\* world_update frees a column, on the thread of the block physics.
ColumnGone(column) ==
  /\ aways < start.aways /\ column \subseteq ready /\ sim = <<>>
  /\ ready' = ready \ column /\ aways' = aways + 1
  /\ UNCHANGED <<inv, armor, food, active, solid, live, entities, rolled, twice,
                 histVars, kills, lives, bites>>

\* A worker has generated it again, and laid the overlay over it.
ColumnBack(column) ==
  /\ column \cap ready = {}
  /\ ready' = ready \cup column
  /\ live' = [c \in Cells |-> IF c \in column THEN solid[c] ELSE live[c]]
  /\ UNCHANGED <<inv, armor, food, active, solid, entities, rolled, twice,
                 histVars, counters>>

\* Mutant of Fills: a chest that is tracked is filled all the same.
FillsAgain(c) == c \in DOMAIN Loot /\ BlockAt(c) = Chest

\* server_populate_dungeon_chunk for the column of c: a chest that has no
\* entity and still stands is given its loot.  Fills(c) is its condition.
Fills(c) == c \in DOMAIN Loot /\ Find(c) = 0 /\ BlockAt(c) = Chest

LootChest(c) ==
  [Entity(c, Chest) EXCEPT
    !.slots = [i \in 1 .. ChestSlots |->
                IF i \in DOMAIN Loot[c] THEN Loot[c][i] ELSE Empty]]

RollHistory(c) ==
  /\ rolled' = rolled \cup {c}
  /\ twice' = IF c \in rolled THEN twice \cup {c} ELSE twice

\* server_send_chunk populates the column it sends.
StreamColumn(c) ==
  /\ Fills(c)
  /\ entities' = Append(entities, LootChest(c))
  /\ RollHistory(c)
  /\ UNCHANGED <<inv, armor, food, active, worldVars, histVars, counters>>

-----------------------------------------------------------------------------
(* Requests of player p.                                                   *)

KitInventory == Poured(Bare, [k \in DOMAIN Kit |-> Stack(Kit[k], 1)])

\* Mutant of BreakBlock: the contents are handed out, the entity is kept.
BreakBlockKeeps(p, c) ==
  LET b == BlockAt(c)
      k == IF IsContainer(b) THEN Find(c) ELSE 0
      taken == Added(inv[p], Stack(b, 1))
      poured == IF k = 0 THEN taken ELSE Poured(taken, entities[k].slots)
  IN  /\ b \in Blocks
      /\ Leftover(inv[p], b, 1) = 0
      /\ \E i \in Slots : inv' = [inv EXCEPT ![p] = Damaged(poured, i)]
      /\ PersistEdit(c, Air)
      /\ UNCHANGED <<armor, food, active, entities, rolled, twice, counters>>

\* handle_block_break: the block goes to the inventory, then what was in it;
\* the tool in a slot the client names
\* wears.
BreakBlock(p, c) ==
  LET b == BlockAt(c)
      k == IF IsContainer(b) THEN Find(c) ELSE 0
      taken == Added(inv[p], Stack(b, 1))
      poured == IF k = 0 THEN taken ELSE Poured(taken, entities[k].slots)
  IN  /\ b \in Blocks
      /\ Leftover(inv[p], b, 1) = 0
      /\ \E i \in Slots : inv' = [inv EXCEPT ![p] = Damaged(poured, i)]
      /\ entities' = IF k = 0 THEN entities ELSE WithoutEntity(k)
      /\ PersistEdit(c, Air)
      /\ UNCHANGED <<armor, food, active, rolled, twice, counters>>

\* handle_block_place, when the food block in the hand is eaten.
EatFoodBlock(p, i) ==
  /\ inv[p][i].item = FoodBlock /\ food[p] < MaxFood
  /\ food' = [food EXCEPT ![p] = Bounded(@ + FoodRestore, MaxFood)]
  /\ inv' = [inv EXCEPT ![p] = Consumed(@, i)]
  /\ UNCHANGED <<armor, active, worldVars, entities, rolled, twice, histVars,
                 counters>>

\* handle_block_place: a block goes where the world has none.
PlaceBlock(p, c, i) ==
  LET b == inv[p][i].item
  IN  /\ b \in Blocks /\ ~ (b = FoodBlock /\ food[p] < MaxFood)
      /\ BlockAt(c) = Air
      /\ inv' = [inv EXCEPT ![p] = Consumed(@, i)]
      /\ entities' = IF IsContainer(b) THEN Created(c, b) ELSE entities
      /\ PersistEdit(c, b)
      /\ UNCHANGED <<armor, food, active, rolled, twice, counters>>

\* handle_container_open: a dungeon chest is filled before it is first shown.
ContainerOpen(p, c) ==
  LET found == IF Fills(c) THEN Append(entities, LootChest(c)) ELSE entities
  IN  \E k \in DOMAIN found :
        /\ found[k].pos = c /\ (Find(c) \in {0, k})
        /\ entities' = [found EXCEPT ![k].viewers = @ \cup {p}]
        /\ IF Fills(c) THEN RollHistory(c) ELSE UNCHANGED <<rolled, twice>>
        /\ UNCHANGED <<inv, armor, food, active, worldVars, histVars, counters>>

ContainerClose(p, c) ==
  /\ Find(c) # 0
  /\ entities' = [entities EXCEPT ![Find(c)].viewers = @ \ {p}]
  /\ UNCHANGED <<inv, armor, food, active, worldVars, rolled, twice, histVars,
                 counters>>

\* Mutant of TakeOut: the slot is emptied whatever was moved.
TakeOutAll(p, c, i, n) ==
  LET k == Find(c)
      stack == entities[k].slots[i]
      want == Bounded(n, stack.count)
      moved == want - Leftover(inv[p], stack.item, want)
  IN  /\ k # 0
      /\ i \in DOMAIN entities[k].slots
      /\ moved > 0
      /\ inv' = [inv EXCEPT ![p] = Added(@, [stack EXCEPT !.count = want])]
      /\ entities' = [entities EXCEPT ![k].slots[i] = Empty]
      /\ UNCHANGED <<armor, food, active, worldVars, rolled, twice, histVars,
                     counters>>

\* handle_container_action towards the inventory: container_transfer_to_inventory.
TakeOut(p, c, i, n) ==
  LET k == Find(c)
      stack == entities[k].slots[i]
      want == Bounded(n, stack.count)
      moved == want - Leftover(inv[p], stack.item, want)
  IN  /\ k # 0
      /\ i \in DOMAIN entities[k].slots
      /\ moved > 0
      /\ inv' = [inv EXCEPT ![p] = Added(@, [stack EXCEPT !.count = want])]
      /\ entities' = [entities EXCEPT ![k].slots[i] = Less(@, moved)]
      /\ UNCHANGED <<armor, food, active, worldVars, rolled, twice, histVars,
                     counters>>

\* handle_container_action from the inventory: container_transfer_from_inventory.
PutIn(p, c, i, n) ==
  LET k == Find(c)
      stack == inv[p][i]
      want == Bounded(n, stack.count)
      moved == want - Leftover(AsChest(entities[k]), stack.item, want)
  IN  /\ k # 0
      /\ moved > 0
      /\ inv' = [inv EXCEPT ![p][i] = Less(@, moved)]
      /\ entities' = [entities EXCEPT ![k] =
                        WithSlots(@, Filled(AsChest(@), stack.item, want, 0))]
      /\ UNCHANGED <<armor, food, active, worldVars, rolled, twice, histVars,
                     counters>>

\* handle_craft works on a copy, and keeps it only if the output fits.
Craft(p, r) ==
  LET used == Spent(inv[p], r.inputs)
  IN  /\ \A k \in DOMAIN r.inputs :
           CountIn(inv[p], r.inputs[k].item)[SlotCount] >= r.inputs[k].count
      /\ Leftover(used, r.output, r.count) = 0
      /\ inv' = [inv EXCEPT ![p] = Added(used, Stack(r.output, r.count))]
      /\ UNCHANGED <<armor, food, active, worldVars, entities, rolled, twice,
                     histVars, counters>>

\* handle_equip: the slot is exchanged for the piece that was worn.
Equip(p, i) ==
  LET stack == inv[p][i]
      piece == [stack EXCEPT !.count = 1, !.dur = IF @ = 0 THEN Durability ELSE @]
  IN  /\ stack.item \in Armour
      /\ armor' = [armor EXCEPT ![p] = piece]
      /\ inv' = [inv EXCEPT ![p][i] = armor[p]]
      /\ UNCHANGED <<food, active, worldVars, entities, rolled, twice, histVars,
                     counters>>

\* handle_eat
Eat(p, i) ==
  /\ inv[p][i].item \in Meals /\ food[p] < MaxFood
  /\ food' = [food EXCEPT ![p] = Bounded(@ + FoodRestore, MaxFood)]
  /\ inv' = [inv EXCEPT ![p] = Consumed(@, i)]
  /\ UNCHANGED <<armor, active, worldVars, entities, rolled, twice, histVars,
                 counters>>

-----------------------------------------------------------------------------
(* Parts of a tick, and players that come and go.                          *)

\* sbe_tick_furnaces
FurnaceTick ==
  /\ entities' = [k \in DOMAIN entities |-> Ticked(entities[k])]
  /\ entities' # entities
  /\ UNCHANGED <<inv, armor, food, active, worldVars, rolled, twice, histVars,
                 counters>>

\* handle_mob_attack, when the mob dies: award_mob_loot.
AwardMobLoot(p) ==
  /\ kills < start.kills
  /\ kills' = kills + 1
  /\ inv' = [inv EXCEPT ![p] = Poured(@, MobDrops)]
  /\ UNCHANGED <<armor, food, active, worldVars, entities, rolled, twice,
                 histVars, aways, lives, bites>>

\* survival_apply_exhaustion takes a point of food.
Hunger(p) ==
  /\ bites < start.bites /\ food[p] > 0
  /\ bites' = bites + 1
  /\ food' = [food EXCEPT ![p] = @ - 1]
  /\ UNCHANGED <<inv, armor, active, worldVars, entities, rolled, twice, histVars,
                 aways, kills, lives>>

\* server_wear_armor, for one point of wear.
WearArmor(p) ==
  /\ bites < start.bites /\ armor[p] # Empty
  /\ bites' = bites + 1
  /\ armor' = [armor EXCEPT ![p] = Worn(@)]
  /\ UNCHANGED <<inv, food, active, worldVars, entities, rolled, twice, histVars,
                 aways, kills, lives>>

Renewed(p) ==
  /\ lives < start.lives
  /\ lives' = lives + 1
  /\ inv' = [inv EXCEPT ![p] = KitInventory]
  /\ armor' = [armor EXCEPT ![p] = Empty]
  /\ food' = [food EXCEPT ![p] = MaxFood]
  /\ UNCHANGED <<worldVars, entities, rolled, twice, histVars, aways, kills, bites>>

\* server_kill_player
Die(p) == p \in active /\ Renewed(p) /\ UNCHANGED active

\* alloc_client
Join(p) == p \notin active /\ Renewed(p) /\ active' = active \cup {p}

\* Mutant of Leave: the viewer bits are not cleared.
LeaveLooking(p) ==
  /\ p \in active
  /\ active' = active \ {p}
  /\ UNCHANGED <<inv, armor, food, worldVars, entities, rolled, twice, histVars,
                 counters>>

\* disconnect_client with sbe_clear_viewer_all
Leave(p) ==
  /\ p \in active
  /\ active' = active \ {p}
  /\ entities' = [k \in DOMAIN entities |->
                    [entities[k] EXCEPT !.viewers = @ \ {p}]]
  /\ UNCHANGED <<inv, armor, food, worldVars, rolled, twice, histVars, counters>>

-----------------------------------------------------------------------------
(* The block physics of the host: gravity_tick and water_tick.  It reads   *)
(* and writes the live world cell by cell.  Water is no block here: a cell *)
(* that has some, or loses it, has none.                                   *)

Acts == {"below", "fill", "clear", "flow"}

\* The next cell has sand.
LookAt(c) ==
  /\ falls < start.falls /\ sim = <<>>
  /\ c \in DOMAIN Below /\ BlockAt(c) = Sand
  /\ sim' = <<"below", c>>
  /\ UNCHANGED <<live, stirred, falls>>

\* There is nothing under it.
LookBelow(c) ==
  /\ sim = <<"below", c>> /\ BlockAt(Below[c]) = Air
  /\ sim' = <<"fill", c>>
  /\ UNCHANGED <<live, stirred, falls>>

\* The first write, on what was read.
Fall(c) ==
  /\ sim = <<"fill", c>> /\ Below[c] \in ready
  /\ live' = [live EXCEPT ![Below[c]] = Sand]
  /\ stirred' = stirred \cup {Below[c]}
  /\ falls' = falls + 1
  /\ sim' = <<"clear", c>>

\* The second one, whatever is in the cell by now.  It is not refused when the
\* first was not: only world_update makes a column busy, on this same thread.
Clear(c) ==
  /\ sim = <<"clear", c>>
  /\ live' = [live EXCEPT ![c] = Air]
  /\ stirred' = stirred \cup {c}
  /\ sim' = <<>>
  /\ UNCHANGED falls

\* A cell of water, or one that water may flow to.
LookForWater(c) ==
  /\ start.falls > 0 /\ sim = <<>>
  /\ c \in ready /\ live[c] = Air
  /\ sim' = <<"flow", c>>
  /\ UNCHANGED <<live, stirred, falls>>

\* It gets some or loses it, whatever is in the cell by now.
Flow(c) ==
  /\ sim = <<"flow", c>>
  /\ live' = [live EXCEPT ![c] = Air]
  /\ stirred' = IF live[c] = Air THEN stirred ELSE stirred \cup {c}
  /\ sim' = <<>>
  /\ UNCHANGED falls

\* The sand has something under it, or the column is busy.
Pass ==
  /\ sim # <<>> /\ sim[1] # "clear"
  /\ sim' = <<>>
  /\ UNCHANGED <<live, stirred, falls>>

Physics ==
  /\ \/ \E c \in Cells : \/ LookAt(c) \/ LookBelow(c) \/ Fall(c) \/ Clear(c)
                         \/ LookForWater(c) \/ Flow(c)
     \/ Pass
  /\ UNCHANGED <<inv, armor, food, active, solid, ready, entities, rolled, twice,
                 histVars, counters>>

-----------------------------------------------------------------------------
Init ==
  /\ start \in Starts
  /\ inv = [p \in Players |-> KitInventory]
  /\ armor = [p \in Players |-> Empty]
  /\ food = [p \in Players |-> MaxFood]
  /\ active = start.active
  /\ solid = start.world /\ live = solid /\ ready = Cells
  /\ entities = <<>> /\ rolled = {} /\ twice = {}
  /\ refused = {} /\ blind = {}
  /\ aways = 0 /\ kills = 0 /\ lives = 0 /\ bites = 0
  /\ sim = <<>> /\ stirred = {} /\ falls = 0

Transfer(p) ==
  \E c \in Cells, n \in 1 .. StackLimit :
    \/ \E i \in 1 .. ChestSlots : TakeOut(p, c, i, n)
    \/ \E i \in Slots : PutIn(p, c, i, n)

Request(p) ==
  \/ \E c \in Cells : BreakBlock(p, c) \/ \E i \in Slots : PlaceBlock(p, c, i)
  \/ \E c \in Cells : ContainerOpen(p, c) \/ ContainerClose(p, c)
  \/ \E i \in Slots : EatFoodBlock(p, i) \/ Equip(p, i) \/ Eat(p, i)
  \/ Transfer(p)
  \/ \E r \in Recipes : Craft(p, r)

Step ==
  \/ \E p \in active : Request(p) \/ AwardMobLoot(p) \/ Hunger(p) \/ WearArmor(p)
  \/ \E p \in Players : Die(p) \/ Join(p) \/ Leave(p)
  \/ \E column \in Columns : ColumnGone(column) \/ ColumnBack(column)
  \/ \E c \in Cells : StreamColumn(c)
  \/ FurnaceTick

Next ==
  /\ (Step /\ UNCHANGED hostVars) \/ Physics
  /\ UNCHANGED start

Spec == Init /\ [][Next]_vars

-----------------------------------------------------------------------------
(* Properties.                                                             *)

\* Every slot of every inventory, chest and furnace holds what a slot may hold,
\* and what is worn is armour.
TypeOK ==
  /\ inv \in [Players -> [Slots -> Stacks]]
  /\ armor \in [Players -> {st \in Stacks : st.item \in Armour \cup {Air}}]
  /\ food \in [Players -> 0 .. MaxFood] /\ active \subseteq Players
  /\ solid \in [Cells -> Blocks \cup {Air}] /\ live \in [Cells -> Blocks \cup {Air}]
  /\ ready \subseteq Cells /\ refused \subseteq Cells /\ blind \subseteq Cells
  /\ rolled \subseteq DOMAIN Loot /\ twice \subseteq rolled
  /\ \A k \in DOMAIN entities :
       LET e == entities[k]
       IN  /\ e.pos \in Cells /\ e.kind \in {Chest, Furnace}
           /\ e.viewers \subseteq Players
           /\ e.slots \in [1 .. Capacity(e.kind) -> Stacks]
           /\ e.burn \in Nat /\ e.cook \in 0 .. CookTime - 1
  /\ aways \in 0 .. start.aways /\ kills \in 0 .. start.kills
  /\ lives \in 0 .. start.lives /\ bites \in 0 .. start.bites
  /\ sim \in {<<>>} \cup (Acts \X Cells) /\ stirred \subseteq Cells
  /\ falls \in Nat

\* A chest or furnace is tracked once, and where it is tracked it stands: in
\* what is saved, and so in the world.  It goes wrong in three ways: where the
\* live world refused an edit, where a block was placed into a column that was
\* away, and where the host's block physics wrote over the block.
EntitiesStand ==
  /\ \A j, k \in DOMAIN entities : entities[j].pos = entities[k].pos => j = k
  /\ \A k \in DOMAIN entities :
       entities[k].pos \notin refused \cup blind \cup stirred
         => solid[entities[k].pos] = entities[k].kind

\* Whoever is sent the contents of a container is connected: the next client
\* in the slot does not inherit what the former one was looking at.
ViewersAreHere == \A k \in DOMAIN entities : entities[k].viewers \subseteq active

\* What a stack, and what all stacks of a function of stacks are worth.
WorthOf(stacks, worth) ==
  Sums([i \in DOMAIN stacks |->
         IF stacks[i].count = 0 THEN 0 ELSE stacks[i].count * worth[stacks[i].item]])
    [Len(stacks)]

Total(f) == FoldFunction(LAMBDA a, b : a + b, 0, f)

\* All there is: carried, worn, stored, standing in the world, burning.
Wealth(worth) ==
  Total([p \in active |-> WorthOf(inv[p], worth) + WorthOf(<<armor[p]>>, worth)])
  + Total([k \in DOMAIN entities |-> WorthOf(entities[k].slots, worth)])
  + Total([c \in Cells |-> IF solid[c] = Air THEN 0 ELSE worth[solid[c]]])

\* All there may be: what stood in the world, what mobs have dropped, and the
\* loot of every dungeon chest that was opened, once.
Given(worth) ==
  Total([c \in Cells |-> IF start.world[c] = Air THEN 0 ELSE worth[start.world[c]]])
  + kills * WorthOf(MobDrops, worth)
  + Total([c \in rolled |-> WorthOf(Loot[c], worth)])

\* What the inputs of a recipe are worth.
CostOf(inputs, worth) ==
  Sums([k \in DOMAIN inputs |-> inputs[k].count * worth[inputs[k].item]])[Len(inputs)]

CONSTANT Worth  \* of every item: a recipe's output is worth no more than its inputs

ASSUME WorthAssumption ==
  /\ Worth \in [Items -> Nat]
  /\ \A k \in DOMAIN Kit : Worth[Kit[k]] = 0
  /\ \A i \in DOMAIN SmeltsTo : Worth[SmeltsTo[i]] <= Worth[i]
  /\ \A r \in Recipes : r.count * Worth[r.output] <= CostOf(r.inputs, Worth)

\* Nothing is had twice, by whatever sequence of breaking, placing, storing,
\* smelting, crafting, equipping, dying and leaving.  Starter kits are worth
\* nothing.  It goes wrong in two ways: where the live world refused an edit, and
\* at a host by sand that fell, which can be broken where it lies and again where
\* the overlay has it: no block but sand, and each one once for each of its falls.
NothingIsDoubled ==
  refused = {} => Wealth(Worth) <= Given(Worth) + falls * Worth[Sand]

\* A dungeon chest gives its loot once in the life of a server, however often it
\* is looted, broken, put back and streamed again, as long as no edit was refused.
LootIsGivenOnce == twice \subseteq refused

\* Storing and taking out moves items and neither makes nor loses one.  It goes
\* wrong in one way: of what player p puts from slot i into the furnace at c, what
\* does not fit is lost.
Overflows(p, c, i) ==
  LET k == Find(c)
      stored == inv[p][i].count - inv'[p][i].count
  IN  /\ k # 0 /\ entities[k].kind = Furnace /\ entities'[k] # entities[k]
      /\ stored > 0 /\ Leftover(entities[k].slots, inv[p][i].item, stored) > 0

Transferred ==
  inv' # inv /\ entities' # entities /\ Len(entities') = Len(entities)

TransfersConserve ==
  [][Transferred
       => \/ Wealth(Worth)' = Wealth(Worth)
          \/ \E p \in active, c \in Cells, i \in Slots : Overflows(p, c, i)]_vars

\* server.c: armour is unstackable, so that the slot held one piece, and the
\* piece worn before goes back to the slot.  Putting armour on loses nothing.
EquipConserves ==
  [][\A p \in active : (\E i \in Slots : Equip(p, i)) => Wealth(Worth)' = Wealth(Worth)]_vars
=============================================================================
