----------------------------- MODULE ItemsProofs ----------------------------
(***************************************************************************)
(* Proofs about Items, for any players, cells, items and recipes: chests   *)
(* and furnaces are tracked once and where they stand, dungeon loot is     *)
(* given once, only connected players look into containers, every slot is  *)
(* well formed, nothing is had twice, and transfers conserve what they move.*)
(*                                                                         *)
(* The first part is about where entities are, for which the slots do not  *)
(* matter.  The second one keeps books of what is carried, stored, standing*)
(* in the world and found; StackProofs says what an action does to slots.  *)
(***************************************************************************)
EXTENDS StackProofs

-----------------------------------------------------------------------------
(* The list of entities.                                                   *)

Shaped(e) == DOMAIN e = Fields /\ e.pos \in Cells /\ e.kind \in {Chest, Furnace}

IsList(s) == \E S : s \in Seq(S)

Listed == /\ IsList(entities)
          /\ \A k \in DOMAIN entities : Shaped(entities[k])

OneEach ==
  \A j, k \in DOMAIN entities : entities[j].pos = entities[k].pos => j = k

Tracked(c) == \E k \in DOMAIN entities : entities[k].pos = c

\* The domain of a list.
LEMMA ListDomain ==
  ASSUME NEW s, IsList(s)
  PROVE  Len(s) \in Nat /\ DOMAIN s = 1 .. Len(s) /\ s = [k \in DOMAIN s |-> s[k]]
BY DEF IsList

\* A list whose entries change is a list.
LEMMA ListMapped ==
  ASSUME NEW s, IsList(s), NEW t, t = [k \in DOMAIN s |-> t[k]]
  PROVE  IsList(t) /\ DOMAIN t = DOMAIN s
<1>1. Len(s) \in Nat /\ DOMAIN s = 1 .. Len(s)
  BY ListDomain
<1> DEFINE T == {t[k] : k \in DOMAIN s}
<1>2. t \in [1 .. Len(s) -> T]
  BY <1>1
<1> HIDE DEF T
<1>3. t \in Seq(T)
  BY <1>1, <1>2
<1> QED  BY <1>1, <1>2, <1>3 DEF IsList

\* t is s with one more entry, e.
OneMore(s, e, t) ==
  /\ IsList(t) /\ DOMAIN t = DOMAIN s \cup {Len(s) + 1}
  /\ Len(s) + 1 \notin DOMAIN s
  /\ \A k \in DOMAIN s : t[k] = s[k]
  /\ t[Len(s) + 1] = e

\* Append adds one entry.
LEMMA ListAppended ==
  ASSUME NEW s, IsList(s), NEW e
  PROVE  OneMore(s, e, Append(s, e))
<1>1. PICK S : s \in Seq(S)
  BY DEF IsList
<1>2. s \in Seq(S \cup {e})
  BY <1>1
<1>3. Append(s, e) \in Seq(S \cup {e})
  BY <1>2
<1> QED  BY <1>2, <1>3 DEF OneMore, IsList

\* sbe_find finds the entity at a position if there is one.
LEMMA FindActs ==
  ASSUME Listed, OneEach, NEW c
  PROVE  /\ Find(c) = 0 <=> ~Tracked(c)
         /\ Tracked(c) => Find(c) \in DOMAIN entities /\ entities[Find(c)].pos = c
<1>1. Len(entities) \in Nat /\ DOMAIN entities = 1 .. Len(entities)
  BY ListDomain DEF Listed
<1>2. CASE ~Tracked(c)
  BY <1>2 DEF Find, Tracked
<1>3. CASE Tracked(c)
  <2>1. PICK k \in DOMAIN entities : entities[k].pos = c
    BY <1>3 DEF Tracked
  <2>2. \A j \in 1 .. k - 1 : entities[j].pos # c
    BY <1>1, <2>1 DEF OneEach
  <2> DEFINE First(i) == /\ entities[i].pos = c
                         /\ \A j \in 1 .. i - 1 : entities[j].pos # c
  <2>3. First(k)
    BY <2>1, <2>2
  <2>4. Find(c) = CHOOSE i \in DOMAIN entities : First(i)
    BY <2>1 DEF Find
  <2>5. Find(c) \in DOMAIN entities /\ First(Find(c))
    BY <2>1, <2>3, <2>4
  <2> QED  BY <1>1, <1>3, <2>5
<1> QED  BY <1>2, <1>3

-----------------------------------------------------------------------------
(* The invariant.                                                          *)

WorldTyped ==
  /\ solid \in [Cells -> Blocks \cup {Air}] /\ live \in [Cells -> Blocks \cup {Air}]
  /\ ready \subseteq Cells /\ rolled \subseteq Cells /\ active \subseteq Players

\* What the world shows is what is saved, unless it refused an edit or the block
\* physics wrote there, which leaves sand or nothing.
LiveIsSaved == \A c \in ready \ (refused \cup stirred) : live[c] = solid[c]
LiveIsKnown ==
  \A c \in ready \ refused : live[c] = solid[c] \/ live[c] \in {Sand, Air}

Standing ==
  \A k \in DOMAIN entities :
    entities[k].pos \notin refused \cup blind \cup stirred
      => solid[entities[k].pos] = entities[k].kind

\* A dungeon chest that was filled keeps its entity for as long as it stands, so
\* that server_populate_dungeon_chunk leaves it alone.
LootTracked == \A c \in rolled \ refused : solid[c] = Chest => Tracked(c)

ItemsInv ==
  /\ WorldTyped /\ Listed /\ OneEach /\ LiveIsSaved /\ LiveIsKnown /\ Standing
  /\ LootTracked /\ LootIsGivenOnce /\ ViewersAreHere

\* Air is no block, chests, furnaces and sand are.
LEMMA Solids ==
  /\ Air \notin Blocks /\ Chest \in Blocks /\ Furnace \in Blocks /\ Chest # Air
  /\ Sand \in Blocks /\ Sand # Air /\ Chest # Sand
BY ItemsAssumption

\* The invariant holds at the start.
LEMMA ItemsInit == Init => ItemsInv
<1> SUFFICES ASSUME Init PROVE ItemsInv
  OBVIOUS
<1>1. entities = <<>> /\ DOMAIN entities = {} /\ rolled = {} /\ twice = {}
  BY DEF Init
<1>2. WorldTyped /\ LiveIsSaved /\ LiveIsKnown
  BY <1>1, ItemsAssumption DEF Init, WorldTyped, LiveIsSaved, LiveIsKnown
<1>3. IsList(entities)
  <2>1. entities \in Seq({})
    BY <1>1
  <2> QED  BY <2>1 DEF IsList
<1>4. Listed /\ OneEach /\ Standing /\ LootTracked /\ LootIsGivenOnce /\ ViewersAreHere
  BY <1>1, <1>3 DEF Listed, OneEach, Standing, LootTracked, LootIsGivenOnce,
                    ViewersAreHere
<1> QED  BY <1>2, <1>4 DEF ItemsInv

-----------------------------------------------------------------------------
(* Steps that change neither the world nor where entities are.             *)

\* The entities keep their places and kinds.
Alike == /\ entities' = [k \in DOMAIN entities |-> entities'[k]]
         /\ \A k \in DOMAIN entities :
              /\ DOMAIN entities'[k] = Fields
              /\ entities'[k].pos = entities[k].pos
              /\ entities'[k].kind = entities[k].kind
              /\ entities'[k].viewers \subseteq active'

\* Entities that stay the same are alike.
LEMMA SameIsAlike ==
  ASSUME ItemsInv, UNCHANGED entities, active \subseteq active'
  PROVE  Alike
<1>1. IsList(entities)
  BY DEF ItemsInv, Listed
<1>2. entities = [k \in DOMAIN entities |-> entities[k]]
  BY <1>1, ListDomain
<1> QED  BY <1>2 DEF ItemsInv, Listed, Shaped, ViewersAreHere, Alike

\* Alike entities keep what the invariant says of them.
LEMMA AlikeKeeps ==
  ASSUME ItemsInv, Alike
  PROVE  /\ Listed' /\ OneEach' /\ ViewersAreHere'
         /\ \A c : Tracked(c)' <=> Tracked(c)
         /\ UNCHANGED <<solid, refused, blind, stirred>> => Standing'
<1>1. Listed /\ OneEach /\ Standing
  BY DEF ItemsInv
<1>2. IsList(entities)' /\ DOMAIN entities' = DOMAIN entities
  BY <1>1, ListMapped DEF Listed, Alike
<1>3. \A k \in DOMAIN entities :
        /\ DOMAIN entities'[k] = Fields
        /\ entities'[k].pos = entities[k].pos
        /\ entities'[k].kind = entities[k].kind
        /\ entities'[k].viewers \subseteq active'
  BY DEF Alike
<1>4. Listed'
  BY <1>1, <1>2, <1>3 DEF Listed, Shaped
<1> QED
  BY <1>1, <1>2, <1>3, <1>4 DEF OneEach, ViewersAreHere, Tracked, Standing

\* A step that changes neither the world nor where entities are keeps the invariant.
LEMMA QuietStep ==
  ASSUME ItemsInv, Alike, UNCHANGED <<worldVars, rolled, twice, histVars, stirred>>,
         active' \subseteq Players
  PROVE  ItemsInv'
<1>1. Listed' /\ OneEach' /\ ViewersAreHere' /\ Standing'
      /\ \A c : Tracked(c)' <=> Tracked(c)
  BY AlikeKeeps DEF worldVars, histVars
<1>2. WorldTyped' /\ LiveIsSaved' /\ LiveIsKnown' /\ LootIsGivenOnce'
  BY DEF ItemsInv, WorldTyped, LiveIsSaved, LiveIsKnown, LootIsGivenOnce, worldVars,
         histVars
<1>3. LootTracked'
  BY <1>1 DEF ItemsInv, LootTracked, worldVars, histVars
<1> QED  BY <1>1, <1>2, <1>3 DEF ItemsInv

\* One entity changes and keeps its place and kind.
LEMMA OneChanged ==
  ASSUME ItemsInv, NEW k \in DOMAIN entities, NEW v,
         entities' = [entities EXCEPT ![k] = v],
         DOMAIN v = Fields, v.pos = entities[k].pos, v.kind = entities[k].kind,
         v.viewers \subseteq active', active \subseteq active'
  PROVE  Alike
<1>1. /\ entities = [j \in DOMAIN entities |-> entities[j]]
      /\ \A j \in DOMAIN entities : DOMAIN entities[j] = Fields
                                    /\ entities[j].viewers \subseteq active
  BY ListDomain DEF ItemsInv, Listed, Shaped, ViewersAreHere
<1>2. /\ entities' = [j \in DOMAIN entities |-> entities'[j]]
      /\ entities'[k] = v /\ \A j \in DOMAIN entities \ {k} : entities'[j] = entities[j]
  BY <1>1
<1> QED  BY <1>1, <1>2 DEF Alike

\* An entity with other slots or viewers.
LEMMA WithFields ==
  ASSUME NEW e, DOMAIN e = Fields
  PROVE  /\ \A x : /\ DOMAIN [e EXCEPT !.slots = x] = Fields
                   /\ [e EXCEPT !.slots = x].pos = e.pos
                   /\ [e EXCEPT !.slots = x].kind = e.kind
                   /\ [e EXCEPT !.slots = x].viewers = e.viewers
         /\ \A x : /\ DOMAIN [e EXCEPT !.viewers = x] = Fields
                   /\ [e EXCEPT !.viewers = x].pos = e.pos
                   /\ [e EXCEPT !.viewers = x].kind = e.kind
                   /\ [e EXCEPT !.viewers = x].viewers = x
                   /\ [e EXCEPT !.viewers = x].slots = e.slots
                   /\ [e EXCEPT !.viewers = x].burn = e.burn
                   /\ [e EXCEPT !.viewers = x].cook = e.cook
BY DEF Fields

\* A furnace's tick changes what it holds and how far it has burned.
LEMMA TickedFields ==
  ASSUME NEW e, DOMAIN e = Fields
  PROVE  /\ DOMAIN Ticked(e) = Fields /\ Ticked(e).pos = e.pos
         /\ Ticked(e).kind = e.kind /\ Ticked(e).viewers = e.viewers
<1>1. /\ DOMAIN Lit(e) = Fields /\ Lit(e).pos = e.pos
      /\ Lit(e).kind = e.kind /\ Lit(e).viewers = e.viewers
  BY DEF Lit, Fields
<1>2. ASSUME NEW f, DOMAIN f = Fields
      PROVE  /\ DOMAIN Burned(f) = Fields /\ Burned(f).pos = f.pos
             /\ Burned(f).kind = f.kind /\ Burned(f).viewers = f.viewers
  BY <1>2 DEF Burned, Fields
<1> QED  BY <1>1, <1>2 DEF Ticked

\* The requests and parts of a tick that change no block.
LEMMA QuietRequest ==
  ASSUME ItemsInv, UNCHANGED stirred, NEW p \in active,
         \/ \E i \in Slots : EatFoodBlock(p, i) \/ Equip(p, i) \/ Eat(p, i)
         \/ (\E r \in Recipes : Craft(p, r)) \/ Transfer(p)
         \/ \E c \in Cells : ContainerClose(p, c)
         \/ AwardMobLoot(p) \/ Hunger(p) \/ WearArmor(p)
  PROVE  ItemsInv'
<1>1. UNCHANGED <<worldVars, rolled, twice, histVars, active>>
  BY DEF EatFoodBlock, Equip, Eat, Craft, Transfer, TakeOut, PutIn, ContainerClose,
         AwardMobLoot, Hunger, WearArmor, counters
<1>2. SUFFICES Alike
  BY <1>1, QuietStep DEF ItemsInv, WorldTyped
<1>3. ASSUME UNCHANGED entities PROVE Alike
  BY <1>1, <1>3, SameIsAlike
<1>4. ASSUME NEW c \in Cells, Find(c) # 0
      PROVE  /\ Find(c) \in DOMAIN entities /\ DOMAIN entities[Find(c)] = Fields
             /\ entities[Find(c)].viewers \subseteq active
  <2>1. Find(c) \in DOMAIN entities
    BY <1>4, FindActs DEF ItemsInv
  <2> QED  BY <2>1 DEF ItemsInv, Listed, Shaped, ViewersAreHere
<1>5. ASSUME NEW c \in Cells, ContainerClose(p, c) PROVE Alike
  <2> DEFINE v == [entities[Find(c)] EXCEPT !.viewers = @ \ {p}]
  <2>1. Find(c) # 0 /\ entities' = [entities EXCEPT ![Find(c)] = v]
    BY <1>5 DEF ContainerClose
  <2>2. /\ DOMAIN v = Fields /\ v.pos = entities[Find(c)].pos
        /\ v.kind = entities[Find(c)].kind /\ v.viewers \subseteq active'
    BY <1>1, <1>4, <2>1, WithFields
  <2> HIDE DEF v
  <2> QED  BY <1>1, <1>4, <2>1, <2>2, OneChanged
<1>6. ASSUME NEW c \in Cells, NEW n \in 1 .. StackLimit, NEW i \in 1 .. ChestSlots,
             TakeOut(p, c, i, n)
      PROVE  Alike
  <2>1. PICK x : Find(c) # 0
          /\ entities' = [entities EXCEPT ![Find(c)] =
                            [entities[Find(c)] EXCEPT !.slots = x]]
    BY <1>6 DEF TakeOut
  <2> DEFINE v == [entities[Find(c)] EXCEPT !.slots = x]
  <2>2. /\ DOMAIN v = Fields /\ v.pos = entities[Find(c)].pos
        /\ v.kind = entities[Find(c)].kind /\ v.viewers \subseteq active'
    BY <1>1, <1>4, <2>1, WithFields
  <2> HIDE DEF v
  <2> QED  BY <1>1, <1>4, <2>1, <2>2, OneChanged DEF v
<1>7. ASSUME NEW c \in Cells, NEW n \in 1 .. StackLimit, NEW i \in Slots,
             PutIn(p, c, i, n)
      PROVE  Alike
  <2>1. PICK x : Find(c) # 0
          /\ entities' = [entities EXCEPT ![Find(c)] =
                            [entities[Find(c)] EXCEPT !.slots = x]]
    BY <1>7 DEF PutIn, WithSlots
  <2> DEFINE v == [entities[Find(c)] EXCEPT !.slots = x]
  <2>2. /\ DOMAIN v = Fields /\ v.pos = entities[Find(c)].pos
        /\ v.kind = entities[Find(c)].kind /\ v.viewers \subseteq active'
    BY <1>1, <1>4, <2>1, WithFields
  <2> HIDE DEF v
  <2> QED  BY <1>1, <1>4, <2>1, <2>2, OneChanged DEF v
<1>8. CASE Transfer(p)
  BY <1>6, <1>7, <1>8 DEF Transfer
<1>9. CASE ~Transfer(p) /\ ~\E c \in Cells : ContainerClose(p, c)
  <2>1. UNCHANGED entities
    BY <1>9 DEF EatFoodBlock, Equip, Eat, Craft, AwardMobLoot, Hunger, WearArmor
  <2> QED  BY <1>3, <2>1
<1> QED  BY <1>5, <1>8, <1>9

\* Players that come and go, and furnaces that burn.
LEMMA PlayersStep ==
  ASSUME ItemsInv, UNCHANGED stirred,
         FurnaceTick \/ \E p \in Players : Die(p) \/ Join(p) \/ Leave(p)
  PROVE  ItemsInv'
<1>1. /\ UNCHANGED <<worldVars, rolled, twice, histVars>>
      /\ active' \subseteq Players
  BY DEF Die, Join, Leave, Renewed, FurnaceTick, ItemsInv, WorldTyped
<1>2. SUFFICES Alike
  BY <1>1, QuietStep
<1>3. \A k \in DOMAIN entities : DOMAIN entities[k] = Fields
                                 /\ entities[k].viewers \subseteq active
  BY DEF ItemsInv, Listed, Shaped, ViewersAreHere
<1>4. ASSUME NEW p \in Players, Die(p) \/ Join(p) PROVE Alike
  BY <1>4, SameIsAlike DEF Die, Join, Renewed
<1>5. ASSUME NEW p \in Players, Leave(p) PROVE Alike
  <2>1. /\ entities' = [k \in DOMAIN entities |->
                          [entities[k] EXCEPT !.viewers = entities[k].viewers \ {p}]]
        /\ active' = active \ {p}
    BY <1>5 DEF Leave
  <2>2. ASSUME NEW k \in DOMAIN entities
        PROVE  /\ DOMAIN entities'[k] = Fields
               /\ entities'[k].pos = entities[k].pos
               /\ entities'[k].kind = entities[k].kind
               /\ entities'[k].viewers = entities[k].viewers \ {p}
    <3> DEFINE v == [entities[k] EXCEPT !.viewers = entities[k].viewers \ {p}]
    <3>1. entities'[k] = v
      BY <2>1
    <3>2. /\ DOMAIN v = Fields /\ v.pos = entities[k].pos
          /\ v.kind = entities[k].kind /\ v.viewers = entities[k].viewers \ {p}
      BY <1>3, WithFields
    <3> HIDE DEF v
    <3> QED  BY <3>1, <3>2
  <2>3. entities' = [k \in DOMAIN entities |-> entities'[k]]
    BY <2>1
  <2> QED  BY <1>3, <2>1, <2>2, <2>3 DEF Alike
<1>6. CASE FurnaceTick
  <2>1. /\ entities' = [k \in DOMAIN entities |-> Ticked(entities[k])]
        /\ active' = active
    BY <1>6 DEF FurnaceTick
  <2>2. ASSUME NEW k \in DOMAIN entities
        PROVE  /\ DOMAIN entities'[k] = Fields
               /\ entities'[k].pos = entities[k].pos
               /\ entities'[k].kind = entities[k].kind
               /\ entities'[k].viewers \subseteq active'
    BY <1>3, <2>1, TickedFields
  <2>3. entities' = [k \in DOMAIN entities |-> entities'[k]]
    BY <2>1
  <2> QED  BY <2>2, <2>3 DEF Alike
<1> QED  BY <1>4, <1>5, <1>6

-----------------------------------------------------------------------------
(* Steps that add and remove entities.                                     *)

\* sbe_create puts an entity where none is.
LEMMA EntityAdded ==
  ASSUME Listed, OneEach, ViewersAreHere, NEW c \in Cells, ~Tracked(c),
         NEW e, Shaped(e), e.pos = c, e.viewers \subseteq active, UNCHANGED active,
         OneMore(entities, e, entities')
  PROVE  /\ Listed' /\ OneEach' /\ ViewersAreHere'
         /\ \A d : Tracked(d)' <=> Tracked(d) \/ d = c
         /\ \A k \in DOMAIN entities' : \/ /\ k \in DOMAIN entities
                                           /\ entities'[k] = entities[k]
                                        \/ entities'[k] = e
<1>2. /\ IsList(entities)'
      /\ DOMAIN entities' = DOMAIN entities \cup {Len(entities) + 1}
      /\ Len(entities) + 1 \notin DOMAIN entities
      /\ \A k \in DOMAIN entities : entities'[k] = entities[k]
      /\ entities'[Len(entities) + 1] = e
  BY DEF OneMore, IsList
<1>3. \A k \in DOMAIN entities : entities[k].pos # c
  BY DEF Tracked
<1>4. Listed'
  BY <1>2 DEF Listed, Shaped
<1>5. OneEach'
  BY <1>2, <1>3 DEF OneEach
<1>6. ViewersAreHere'
  BY <1>2 DEF ViewersAreHere
<1>7. \A d : Tracked(d)' <=> Tracked(d) \/ d = c
  BY <1>2 DEF Tracked
<1> QED  BY <1>2, <1>4, <1>5, <1>6, <1>7

\* sbe_destroy_return forgets one entity and keeps the others.
LEMMA EntityRemoved ==
  ASSUME Listed, OneEach, ViewersAreHere, NEW k \in DOMAIN entities,
         UNCHANGED active, entities' = WithoutEntity(k)
  PROVE  /\ Listed' /\ OneEach' /\ ViewersAreHere'
         /\ \A d : Tracked(d)' <=> Tracked(d) /\ d # entities[k].pos
         /\ \A i \in DOMAIN entities' :
              \E j \in DOMAIN entities \ {k} : entities'[i] = entities[j]
<1>1. PICK n \in Nat : n = Len(entities) /\ DOMAIN entities = 1 .. n
  BY ListDomain DEF Listed
<1> DEFINE From(i) == IF i = k THEN n ELSE i
<1>2. k \in 1 .. n /\ entities' = [i \in 1 .. n - 1 |-> entities[From(i)]]
  BY <1>1 DEF WithoutEntity, Last
<1>3. /\ \A i \in 1 .. n - 1 : From(i) \in 1 .. n /\ From(i) # k
      /\ \A i, j \in 1 .. n - 1 : From(i) = From(j) => i = j
      /\ \A j \in 1 .. n : j # k => \E i \in 1 .. n - 1 : From(i) = j
  <2>1. ASSUME NEW j \in 1 .. n, j # k PROVE \E i \in 1 .. n - 1 : From(i) = j
    <3>1. CASE j = n
      <4>1. k \in 1 .. n - 1 /\ From(k) = j
        BY <1>2, <2>1, <3>1
      <4> QED  BY <4>1
    <3>2. CASE j # n
      <4>1. j \in 1 .. n - 1 /\ From(j) = j
        BY <1>2, <2>1, <3>2
      <4> QED  BY <4>1
    <3> QED  BY <3>1, <3>2
  <2>2. /\ \A i \in 1 .. n - 1 : From(i) \in 1 .. n /\ From(i) # k
        /\ \A i, j \in 1 .. n - 1 : From(i) = From(j) => i = j
    BY <1>2
  <2> QED  BY <2>1, <2>2
<1> HIDE DEF From
<1>4. /\ DOMAIN entities' = 1 .. n - 1
      /\ \A i \in 1 .. n - 1 : entities'[i] = entities[From(i)]
  BY <1>2
<1>5. IsList(entities)'
  <2> DEFINE T == {entities'[i] : i \in 1 .. n - 1}
  <2>1. entities' \in [1 .. n - 1 -> T]
    BY <1>2, <1>4
  <2>2. n - 1 \in Nat
    BY <1>2
  <2> HIDE DEF T
  <2>3. entities' \in Seq(T)
    BY <2>1, <2>2
  <2> QED  BY <2>3 DEF IsList
<1>6. Listed'
  BY <1>1, <1>3, <1>4, <1>5 DEF Listed, Shaped
<1>7. OneEach'
  <2>1. ASSUME NEW i \in 1 .. n - 1, NEW j \in 1 .. n - 1,
               entities'[i].pos = entities'[j].pos
        PROVE  i = j
    <3>1. From(i) \in 1 .. n /\ From(j) \in 1 .. n
      BY <1>3
    <3>2. entities[From(i)].pos = entities[From(j)].pos
      BY <1>4, <2>1
    <3>3. From(i) = From(j)
      BY <1>1, <3>1, <3>2 DEF OneEach
    <3> QED  BY <1>3, <3>3
  <2> QED  BY <1>4, <2>1 DEF OneEach
<1>8. ViewersAreHere'
  BY <1>1, <1>3, <1>4 DEF ViewersAreHere
<1>9. ASSUME NEW d PROVE Tracked(d)' <=> Tracked(d) /\ d # entities[k].pos
  <2>1. ASSUME NEW i \in 1 .. n - 1, entities'[i].pos = d
        PROVE  Tracked(d) /\ d # entities[k].pos
    BY <1>1, <1>2, <1>3, <1>4, <2>1 DEF Tracked, OneEach
  <2>2. ASSUME NEW j \in 1 .. n, entities[j].pos = d, d # entities[k].pos
        PROVE  \E i \in 1 .. n - 1 : entities'[i].pos = d
    <3>1. PICK i \in 1 .. n - 1 : From(i) = j
      BY <1>3, <2>2
    <3> QED  BY <1>4, <2>2, <3>1
  <2> QED  BY <1>1, <1>4, <2>1, <2>2 DEF Tracked
<1> QED  BY <1>1, <1>3, <1>4, <1>6, <1>7, <1>8, <1>9

\* A dungeon chest that is filled was never filled before: a filled one that
\* stands, as far as the server's world is right about it, is tracked.
LEMMA FillStep ==
  ASSUME ItemsInv, NEW c \in Cells, Fills(c), RollHistory(c),
         NEW e, Shaped(e), e.pos = c, e.kind = Chest, e.viewers \subseteq active,
         OneMore(entities, e, entities'),
         UNCHANGED <<worldVars, histVars, active, stirred>>
  PROVE  ItemsInv'
<1> USE DEF worldVars, histVars
<1>1. ~Tracked(c) /\ BlockAt(c) = Chest
  BY FindActs DEF Fills, ItemsInv
<1>2. c \in ready /\ live[c] = Chest
  BY <1>1, Solids DEF BlockAt
<1>3. c \notin refused => solid[c] = Chest
  BY <1>2, Solids DEF ItemsInv, LiveIsKnown
<1>4. c \in rolled => c \in refused
  BY <1>1, <1>3 DEF ItemsInv, LootTracked
<1>5. /\ Listed' /\ OneEach' /\ ViewersAreHere'
      /\ \A d : Tracked(d)' <=> Tracked(d) \/ d = c
      /\ \A k \in DOMAIN entities' : \/ /\ k \in DOMAIN entities
                                        /\ entities'[k] = entities[k]
                                     \/ entities'[k] = e
  BY <1>1, EntityAdded DEF ItemsInv
<1>6. Standing'
  BY <1>3, <1>5 DEF ItemsInv, Standing
<1>7. LootTracked' /\ LootIsGivenOnce'
  BY <1>4, <1>5 DEF ItemsInv, LootTracked, LootIsGivenOnce, RollHistory
<1>8. WorldTyped' /\ LiveIsSaved' /\ LiveIsKnown'
  BY DEF ItemsInv, WorldTyped, LiveIsSaved, LiveIsKnown, RollHistory
<1> QED  BY <1>5, <1>6, <1>7, <1>8 DEF ItemsInv

\* A new entity.
LEMMA NewEntity ==
  ASSUME NEW c \in Cells, NEW kind \in {Chest, Furnace}
  PROVE  /\ Shaped(Entity(c, kind)) /\ Entity(c, kind).pos = c
         /\ Entity(c, kind).kind = kind /\ Entity(c, kind).viewers = {}
BY DEF Entity, Shaped, Fields

\* A new dungeon chest.
LEMMA NewLootChest ==
  ASSUME NEW c \in Cells
  PROVE  /\ Shaped(LootChest(c)) /\ LootChest(c).pos = c
         /\ LootChest(c).kind = Chest /\ LootChest(c).viewers = {}
<1>1. \E x : LootChest(c) = [Entity(c, Chest) EXCEPT !.slots = x]
  BY DEF LootChest
<1>2. PICK x : LootChest(c) = [Entity(c, Chest) EXCEPT !.slots = x]
  BY <1>1
<1> DEFINE e == Entity(c, Chest)
<1>3. Shaped(e) /\ e.pos = c /\ e.kind = Chest /\ e.viewers = {}
  BY NewEntity
<1> HIDE DEF e
<1>4. LootChest(c) = [e EXCEPT !.slots = x]
  BY <1>2 DEF e
<1> QED  BY <1>3, <1>4, WithFields DEF Shaped

\* server_send_chunk.
LEMMA StreamStep ==
  ASSUME ItemsInv, UNCHANGED stirred, NEW c \in Cells, StreamColumn(c)
  PROVE  ItemsInv'
<1>1. /\ Fills(c) /\ RollHistory(c) /\ entities' = Append(entities, LootChest(c))
      /\ UNCHANGED <<worldVars, histVars, active>>
  BY DEF StreamColumn
<1>2. OneMore(entities, LootChest(c), entities')
  BY <1>1, ListAppended DEF ItemsInv, Listed
<1> DEFINE e == LootChest(c)
<1>3. Shaped(e) /\ e.pos = c /\ e.kind = Chest /\ e.viewers \subseteq active
  BY NewLootChest
<1> HIDE DEF e
<1> QED  BY <1>1, <1>2, <1>3, FillStep DEF e

\* handle_container_open shows the chest it has just filled.
LEMMA OpenFills ==
  ASSUME ItemsInv, NEW p, NEW c \in Cells, ContainerOpen(p, c), Fills(c)
  PROVE  /\ RollHistory(c)
         /\ \E v : /\ Shaped(v) /\ v.pos = c /\ v.kind = Chest /\ v.viewers = {p}
                  /\ v.slots = LootChest(c).slots
                  /\ v.burn = LootChest(c).burn /\ v.cook = LootChest(c).cook
                  /\ OneMore(entities, v, entities')
<1> DEFINE chest == LootChest(c)
           found == Append(entities, chest)
           v == [chest EXCEPT !.viewers = chest.viewers \cup {p}]
<1>1. PICK k \in DOMAIN found :
        /\ found[k].pos = c
        /\ entities' = [found EXCEPT ![k] =
                         [found[k] EXCEPT !.viewers = found[k].viewers \cup {p}]]
        /\ RollHistory(c)
  BY DEF ContainerOpen
<1>2. ~Tracked(c)
  BY FindActs DEF Fills, ItemsInv
<1>3. Shaped(chest) /\ chest.pos = c /\ chest.kind = Chest /\ chest.viewers = {}
  BY NewLootChest
<1> HIDE DEF chest
<1>4. /\ Shaped(v) /\ v.pos = c /\ v.kind = Chest /\ v.viewers = {p}
      /\ v.slots = chest.slots /\ v.burn = chest.burn /\ v.cook = chest.cook
  BY <1>3, WithFields DEF Shaped
<1>5. OneMore(entities, chest, found)
  BY ListAppended DEF ItemsInv, Listed
<1> HIDE DEF found
<1>6. k = Len(entities) + 1
  BY <1>1, <1>2, <1>5 DEF OneMore, Tracked
<1>7. entities' = [found EXCEPT ![k] = v]
  BY <1>1, <1>5, <1>6 DEF OneMore
<1> HIDE DEF v
<1>8. /\ DOMAIN entities' = DOMAIN found /\ entities'[k] = v
      /\ \A j \in DOMAIN found \ {k} : entities'[j] = found[j]
      /\ entities' = [j \in DOMAIN found |-> entities'[j]]
  BY <1>1, <1>7
<1>9. IsList(entities')
  BY <1>5, <1>8, ListMapped DEF OneMore
<1>10. OneMore(entities, v, entities')
  BY <1>5, <1>6, <1>8, <1>9 DEF OneMore
<1> QED  BY <1>1, <1>4, <1>10 DEF chest

\* handle_container_open.
LEMMA OpenStep ==
  ASSUME ItemsInv, UNCHANGED stirred, NEW p \in active, NEW c \in Cells,
         ContainerOpen(p, c)
  PROVE  ItemsInv'
<1>1. UNCHANGED <<worldVars, histVars, active>>
  BY DEF ContainerOpen
<1>2. CASE ~Fills(c)
  <2>1. PICK k \in DOMAIN entities :
          entities' = [entities EXCEPT ![k] =
                        [entities[k] EXCEPT !.viewers = entities[k].viewers \cup {p}]]
    BY <1>2 DEF ContainerOpen
  <2>2. DOMAIN entities[k] = Fields /\ entities[k].viewers \subseteq active
    BY DEF ItemsInv, Listed, Shaped, ViewersAreHere
  <2> DEFINE v == [entities[k] EXCEPT !.viewers = entities[k].viewers \cup {p}]
  <2>3. /\ DOMAIN v = Fields /\ v.pos = entities[k].pos /\ v.kind = entities[k].kind
        /\ v.viewers \subseteq active'
    BY <1>1, <2>2, WithFields
  <2>4. entities' = [entities EXCEPT ![k] = v]
    BY <2>1
  <2> HIDE DEF v
  <2>5. Alike
    BY <1>1, <2>3, <2>4, OneChanged
  <2> QED
    BY <1>1, <1>2, <2>5, QuietStep DEF ContainerOpen, ItemsInv, WorldTyped
<1>3. CASE Fills(c)
  <2>1. PICK v : /\ Shaped(v) /\ v.pos = c /\ v.kind = Chest /\ v.viewers = {p}
                  /\ OneMore(entities, v, entities')
    BY <1>3, OpenFills
  <2>2. RollHistory(c)
    BY <1>3, OpenFills
  <2> QED  BY <1>1, <1>3, <2>1, <2>2, FillStep
<1> QED  BY <1>2, <1>3

-----------------------------------------------------------------------------
(* Steps that change the world.                                            *)

\* A column goes or comes back.
LEMMA ColumnStep ==
  ASSUME ItemsInv, UNCHANGED stirred, NEW column \in Columns,
         ColumnGone(column) \/ ColumnBack(column)
  PROVE  ItemsInv'
<1>1. UNCHANGED <<active, solid, entities, rolled, twice, refused, blind>>
  BY DEF ColumnGone, ColumnBack, histVars
<1>2. Listed' /\ OneEach' /\ ViewersAreHere' /\ Standing'
      /\ \A d : Tracked(d)' <=> Tracked(d)
  BY <1>1, SameIsAlike, AlikeKeeps
<1>3. LootTracked' /\ LootIsGivenOnce'
  BY <1>1, <1>2 DEF ItemsInv, LootTracked, LootIsGivenOnce
<1>4. column \subseteq Cells /\ WorldTyped /\ LiveIsSaved /\ LiveIsKnown
  BY ItemsAssumption DEF ItemsInv
<1>5. WorldTyped' /\ LiveIsSaved' /\ LiveIsKnown'
  BY <1>1, <1>4 DEF WorldTyped, LiveIsSaved, LiveIsKnown, ColumnGone, ColumnBack
<1> QED  BY <1>2, <1>3, <1>5 DEF ItemsInv

\* gravity_tick and water_tick write to the live world alone, sand or nothing.
LEMMA PhysicsWrites ==
  ASSUME ItemsInv, Physics
  PROVE  /\ UNCHANGED <<active, solid, ready, entities, rolled, twice, refused, blind>>
         /\ stirred \subseteq stirred' /\ stirred' \subseteq Cells \cup stirred
         /\ \/ UNCHANGED <<live, falls>>
            \/ /\ \E c \in Cells : live' = [live EXCEPT ![c] = Air] /\ c \in stirred'
               /\ UNCHANGED falls
            \/ /\ \E c \in Cells : live' = [live EXCEPT ![c] = Sand] /\ c \in stirred'
               /\ falls' = falls + 1
<1>1. live \in [Cells -> Blocks \cup {Air}] /\ ready \subseteq Cells
  BY DEF ItemsInv, WorldTyped
<1>2. UNCHANGED <<active, solid, ready, entities, rolled, twice, refused, blind>>
  BY DEF Physics, histVars
<1>3. ASSUME NEW c \in Cells, LookAt(c) \/ LookBelow(c) \/ LookForWater(c)
      PROVE  UNCHANGED <<live, falls, stirred>>
  BY <1>3 DEF LookAt, LookBelow, LookForWater
<1>4. Pass => UNCHANGED <<live, falls, stirred>>
  BY DEF Pass
<1>5. ASSUME NEW c \in Cells, Fall(c)
      PROVE  \E d \in Cells : /\ live' = [live EXCEPT ![d] = Sand]
                              /\ stirred' = stirred \cup {d} /\ falls' = falls + 1
  BY <1>1, <1>5 DEF Fall
<1>6. ASSUME NEW c \in Cells, Clear(c)
      PROVE  /\ live' = [live EXCEPT ![c] = Air]
             /\ stirred' = stirred \cup {c} /\ UNCHANGED falls
  BY <1>6 DEF Clear
<1>7. ASSUME NEW c \in Cells, Flow(c)
      PROVE  /\ \/ UNCHANGED <<live, stirred>>
                \/ /\ live' = [live EXCEPT ![c] = Air]
                   /\ stirred' = stirred \cup {c}
             /\ UNCHANGED falls
  BY <1>1, <1>7 DEF Flow
<1>8. \/ \E c \in Cells : \/ LookAt(c) \/ LookBelow(c) \/ Fall(c) \/ Clear(c)
                          \/ LookForWater(c) \/ Flow(c)
      \/ Pass
  BY DEF Physics
<1> QED  BY <1>2, <1>3, <1>4, <1>5, <1>6, <1>7, <1>8

\* The block physics keeps the invariant: what it writes is accounted for.
LEMMA PhysicsStep ==
  ASSUME ItemsInv, Physics
  PROVE  ItemsInv'
<1>1. /\ UNCHANGED <<active, solid, ready, entities, rolled, twice, refused, blind>>
      /\ stirred \subseteq stirred'
      /\ \/ UNCHANGED live
         \/ \E c \in Cells : \E b \in {Sand, Air} :
              live' = [live EXCEPT ![c] = b] /\ c \in stirred'
  BY PhysicsWrites
<1>2. Listed' /\ OneEach' /\ ViewersAreHere' /\ \A d : Tracked(d)' <=> Tracked(d)
  BY <1>1, SameIsAlike, AlikeKeeps
<1>3. Standing'
  BY <1>1 DEF ItemsInv, Standing
<1>4. LootTracked' /\ LootIsGivenOnce'
  BY <1>1, <1>2 DEF ItemsInv, LootTracked, LootIsGivenOnce
<1>5. WorldTyped /\ LiveIsSaved /\ LiveIsKnown
  BY DEF ItemsInv
<1>6. CASE UNCHANGED live
  <2>1. WorldTyped' /\ LiveIsSaved' /\ LiveIsKnown'
    BY <1>1, <1>5, <1>6 DEF WorldTyped, LiveIsSaved, LiveIsKnown
  <2> QED  BY <1>2, <1>3, <1>4, <2>1 DEF ItemsInv
<1>7. ASSUME NEW c \in Cells, NEW b \in {Sand, Air},
             live' = [live EXCEPT ![c] = b], c \in stirred'
      PROVE  ItemsInv'
  <2>1. /\ live' \in [Cells -> Blocks \cup {Air}] /\ live'[c] \in {Sand, Air}
        /\ \A d \in Cells \ {c} : live'[d] = live[d]
    BY <1>5, <1>7, Solids DEF WorldTyped
  <2>2. WorldTyped' /\ LiveIsSaved' /\ LiveIsKnown'
    BY <1>1, <1>5, <1>7, <2>1 DEF WorldTyped, LiveIsSaved, LiveIsKnown
  <2> QED  BY <1>2, <1>3, <1>4, <2>2 DEF ItemsInv
<1> QED  BY <1>1, <1>6, <1>7

\* server_persist_edit: where the live world does not take the block, and where
\* there is no live world, the histories say so.
LEMMA PersistActs ==
  ASSUME ItemsInv, NEW c \in Cells, NEW b \in Blocks \cup {Air}, PersistEdit(c, b),
         UNCHANGED <<active, rolled, twice, stirred>>
  PROVE  /\ WorldTyped' /\ LiveIsSaved' /\ LiveIsKnown' /\ LootIsGivenOnce'
         /\ solid' = [solid EXCEPT ![c] = b] /\ solid'[c] = b
         /\ \A d \in Cells \ {c} : solid'[d] = solid[d]
         /\ refused \subseteq refused' /\ blind \subseteq blind'
         /\ c \in ready \/ c \in blind'
<1>1. WorldTyped /\ LiveIsSaved /\ LiveIsKnown /\ LootIsGivenOnce
  BY DEF ItemsInv
<1>2. /\ solid' = [solid EXCEPT ![c] = b] /\ UNCHANGED ready
      /\ refused \subseteq refused' /\ blind \subseteq blind' /\ (c \in ready \/ c \in blind')
      /\ \/ live' = [live EXCEPT ![c] = b]
         \/ live' = live /\ (c \in refused' \/ c \notin ready)
  BY DEF PersistEdit
<1>3. solid'[c] = b /\ \A d \in Cells \ {c} : solid'[d] = solid[d]
  BY <1>1, <1>2 DEF WorldTyped
<1>4. WorldTyped'
  BY <1>1, <1>2 DEF WorldTyped
<1>5. LiveIsSaved' /\ LiveIsKnown'
  BY <1>1, <1>2, <1>3 DEF WorldTyped, LiveIsSaved, LiveIsKnown
<1>6. LootIsGivenOnce'
  BY <1>1, <1>2 DEF LootIsGivenOnce
<1> QED  BY <1>2, <1>3, <1>4, <1>5, <1>6

\* handle_block_place.
LEMMA PlaceStep ==
  ASSUME ItemsInv, UNCHANGED stirred, NEW p \in active, NEW c \in Cells,
         NEW i \in Slots, PlaceBlock(p, c, i)
  PROVE  ItemsInv'
<1>1. PICK b \in Blocks :
        /\ BlockAt(c) = Air /\ PersistEdit(c, b)
        /\ entities' = IF IsContainer(b) THEN Created(c, b) ELSE entities
        /\ UNCHANGED <<active, rolled, twice>>
  BY DEF PlaceBlock
<1>2. /\ WorldTyped' /\ LiveIsSaved' /\ LiveIsKnown' /\ LootIsGivenOnce'
      /\ solid'[c] = b /\ \A d \in Cells \ {c} : solid'[d] = solid[d]
      /\ refused \subseteq refused' /\ blind \subseteq blind'
      /\ c \in ready \/ c \in blind'
  BY <1>1, PersistActs
<1>3. Listed /\ OneEach /\ ViewersAreHere /\ LiveIsSaved /\ Standing /\ WorldTyped
      /\ LootTracked
  BY DEF ItemsInv
<1>4. \A k \in DOMAIN entities : entities[k].pos \in Cells
  BY <1>3 DEF Listed, Shaped
<1>5. CASE IsContainer(b) /\ ~Tracked(c)
  <2> DEFINE e == Entity(c, b)
  <2>1. Shaped(e) /\ e.pos = c /\ e.kind = b /\ e.viewers = {}
    BY <1>5, NewEntity DEF IsContainer
  <2>2. entities' = Append(entities, e)
    BY <1>1, <1>3, <1>5, FindActs DEF Created
  <2> HIDE DEF e
  <2>3. OneMore(entities, e, entities')
    BY <1>3, <2>2, ListAppended DEF Listed
  <2>4. /\ Listed' /\ OneEach' /\ ViewersAreHere'
        /\ \A d : Tracked(d)' <=> Tracked(d) \/ d = c
        /\ \A k \in DOMAIN entities' : \/ /\ k \in DOMAIN entities
                                          /\ entities'[k] = entities[k]
                                       \/ entities'[k] = e
    BY <1>1, <1>3, <1>5, <2>1, <2>3, EntityAdded
  <2>5. Standing'
    BY <1>2, <1>3, <1>4, <1>5, <2>1, <2>4 DEF Standing, Tracked
  <2>6. LootTracked'
    BY <1>1, <1>2, <1>3, <2>4 DEF LootTracked, WorldTyped
  <2> QED  BY <1>2, <2>4, <2>5, <2>6 DEF ItemsInv
<1>6. CASE ~(IsContainer(b) /\ ~Tracked(c))
  <2>1. UNCHANGED entities
    BY <1>1, <1>3, <1>6, FindActs DEF Created
  <2>2. Listed' /\ OneEach' /\ ViewersAreHere' /\ \A d : Tracked(d)' <=> Tracked(d)
    BY <1>1, <2>1, SameIsAlike, AlikeKeeps
  <2>3. Tracked(c) => c \in refused' \cup blind' \cup stirred'
    <3>1. SUFFICES ASSUME NEW k \in DOMAIN entities, entities[k].pos = c,
                          c \notin refused' \cup blind' \cup stirred'
                   PROVE  FALSE
      BY DEF Tracked
    <3>2. c \in ready /\ c \notin refused \cup blind \cup stirred
      BY <1>2, <3>1
    <3>3. solid[c] = Air
      BY <1>1, <1>3, <3>2 DEF BlockAt, LiveIsSaved
    <3>4. entities[k].kind \in {Chest, Furnace} /\ solid[c] = entities[k].kind
      BY <1>3, <3>1, <3>2 DEF Listed, Shaped, Standing
    <3> QED  BY <3>3, <3>4, Solids
  <2>4. Standing'
    BY <1>2, <1>3, <1>4, <2>1, <2>3 DEF Standing, Tracked
  <2>5. LootTracked'
    <3>1. ASSUME NEW d \in rolled \ refused', solid'[d] = Chest PROVE Tracked(d)
      <4>1. CASE d = c
        BY <1>2, <1>6, <3>1, <4>1 DEF IsContainer
      <4>2. CASE d # c
        BY <1>2, <1>3, <3>1, <4>2 DEF LootTracked, WorldTyped
      <4> QED  BY <4>1, <4>2
    <3> QED  BY <1>1, <2>2, <3>1 DEF LootTracked
  <2> QED  BY <1>2, <2>2, <2>4, <2>5 DEF ItemsInv
<1> QED  BY <1>5, <1>6

\* handle_block_break.
LEMMA BreakStep ==
  ASSUME ItemsInv, UNCHANGED stirred, NEW p \in active, NEW c \in Cells,
         BreakBlock(p, c)
  PROVE  ItemsInv'
<1> DEFINE k == IF IsContainer(BlockAt(c)) THEN Find(c) ELSE 0
<1>1. /\ BlockAt(c) \in Blocks /\ PersistEdit(c, Air)
      /\ entities' = IF k = 0 THEN entities ELSE WithoutEntity(k)
      /\ UNCHANGED <<active, rolled, twice>>
  BY DEF BreakBlock
<1>2. /\ WorldTyped' /\ LiveIsSaved' /\ LiveIsKnown' /\ LootIsGivenOnce'
      /\ solid'[c] = Air /\ \A d \in Cells \ {c} : solid'[d] = solid[d]
      /\ refused \subseteq refused' /\ blind \subseteq blind'
  BY <1>1, PersistActs
<1>3. Listed /\ OneEach /\ ViewersAreHere /\ LiveIsSaved /\ Standing /\ WorldTyped
      /\ LootTracked
  BY DEF ItemsInv
<1>4. \A j \in DOMAIN entities : entities[j].pos \in Cells
  BY <1>3 DEF Listed, Shaped
<1>5. c \in ready /\ live[c] = BlockAt(c)
  BY <1>1, Solids DEF BlockAt
<1>6. CASE k # 0
  <2>1. k = Find(c) /\ Tracked(c)
    BY <1>3, <1>6, FindActs
  <2>2. k \in DOMAIN entities /\ entities[k].pos = c
    BY <1>3, <2>1, FindActs
  <2> HIDE DEF k
  <2>3. entities' = WithoutEntity(k)
    BY <1>1, <1>6
  <2>4. /\ Listed' /\ OneEach' /\ ViewersAreHere'
        /\ \A d : Tracked(d)' <=> Tracked(d) /\ d # entities[k].pos
        /\ \A i \in DOMAIN entities' :
             \E j \in DOMAIN entities \ {k} : entities'[i] = entities[j]
    BY <1>1, <1>3, <2>2, <2>3, EntityRemoved
  <2>5. \A j \in DOMAIN entities \ {k} : entities[j].pos # c
    BY <1>3, <2>2 DEF OneEach
  <2>6. Standing'
    BY <1>2, <1>3, <1>4, <2>4, <2>5 DEF Standing
  <2>7. LootTracked'
    BY <1>1, <1>2, <1>3, <2>2, <2>4, Solids DEF LootTracked, WorldTyped
  <2> QED  BY <1>2, <2>4, <2>6, <2>7 DEF ItemsInv
<1>7. CASE k = 0
  <2>1. UNCHANGED entities
    BY <1>1, <1>7
  <2>2. Listed' /\ OneEach' /\ ViewersAreHere' /\ \A d : Tracked(d)' <=> Tracked(d)
    BY <1>1, <2>1, SameIsAlike, AlikeKeeps
  <2>3. Tracked(c) => c \in refused' \cup blind' \cup stirred'
    <3>1. SUFFICES ASSUME NEW j \in DOMAIN entities, entities[j].pos = c,
                          c \notin refused' \cup blind' \cup stirred'
                   PROVE  FALSE
      BY DEF Tracked
    <3>2. c \notin refused \cup blind \cup stirred
      BY <1>2, <3>1
    <3>3. solid[c] = BlockAt(c)
      BY <1>3, <1>5, <3>2 DEF LiveIsSaved
    <3>4. entities[j].kind \in {Chest, Furnace} /\ solid[c] = entities[j].kind
      BY <1>3, <3>1, <3>2 DEF Listed, Shaped, Standing
    <3>5. Find(c) = 0
      BY <1>7, <3>3, <3>4 DEF IsContainer
    <3> QED  BY <1>3, <3>1, <3>5, FindActs DEF Tracked
  <2> HIDE DEF k
  <2>4. Standing'
    BY <1>2, <1>3, <1>4, <2>1, <2>3 DEF Standing, Tracked
  <2>5. LootTracked'
    BY <1>1, <1>2, <1>3, <2>2, Solids DEF LootTracked, WorldTyped
  <2> QED  BY <1>2, <2>2, <2>4, <2>5 DEF ItemsInv
<1> QED  BY <1>6, <1>7

\* Every action keeps the invariant.
LEMMA ItemsStep == ASSUME ItemsInv, [Next]_vars PROVE ItemsInv'
<1>1. CASE UNCHANGED vars
  <2>1. UNCHANGED <<worldVars, rolled, twice, histVars, entities, active, stirred>>
    BY <1>1 DEF vars, hostVars
  <2>2. Alike
    BY <2>1, SameIsAlike
  <2> QED  BY <2>1, <2>2, QuietStep DEF ItemsInv, WorldTyped
<1>2. ASSUME UNCHANGED stirred, NEW p \in active, Request(p) PROVE ItemsInv'
  BY <1>2, BreakStep, PlaceStep, OpenStep, QuietRequest DEF Request
<1>3. ASSUME UNCHANGED stirred, NEW p \in active,
             AwardMobLoot(p) \/ Hunger(p) \/ WearArmor(p)
      PROVE  ItemsInv'
  BY <1>3, QuietRequest
<1>4. ASSUME UNCHANGED stirred, NEW c \in Cells, StreamColumn(c)
      PROVE  ItemsInv'
  BY <1>4, StreamStep
<1>5. ASSUME UNCHANGED stirred, NEW column \in Columns,
             ColumnGone(column) \/ ColumnBack(column)
      PROVE  ItemsInv'
  BY <1>5, ColumnStep
<1>6. ASSUME UNCHANGED stirred,
             FurnaceTick \/ \E p \in Players : Die(p) \/ Join(p) \/ Leave(p)
      PROVE  ItemsInv'
  BY <1>6, PlayersStep
<1>7. ASSUME Step, UNCHANGED stirred PROVE ItemsInv'
  BY <1>2, <1>3, <1>4, <1>5, <1>6, <1>7 DEF Step
<1> QED  BY <1>1, <1>7, PhysicsStep DEF Next, hostVars

-----------------------------------------------------------------------------
(* What is carried, stored, standing and found.                            *)

Pieces == {st \in Stacks : st.item \in Armour \cup {Air}}

PlayersTyped ==
  /\ inv \in [Players -> Row(SlotCount)] /\ armor \in [Players -> Pieces]
  /\ food \in [Players -> 0 .. MaxFood]

EntitiesHold == \A k \in DOMAIN entities : Holds(entities[k])

Purse(p) == WorthOf(inv[p], Worth) + WorthOf(<<armor[p]>>, Worth)
Carried == Total([p \in active |-> Purse(p)])
Stored == Total([k \in DOMAIN entities |-> WorthOf(entities[k].slots, Worth)])
Price(b) == IF b = Air THEN 0 ELSE Worth[b]
Built == Total([c \in Cells |-> Price(solid[c])])
Begun == Total([c \in Cells |-> Price(start.world[c])])
Dropped == kills * WorthOf(MobDrops, Worth)
Looted == Total([c \in rolled |-> WorthOf(Loot[c], Worth)])

\* Wealth and Given by their parts.
LEMMA BooksAre ==
  Wealth(Worth) = Carried + Stored + Built /\ Given(Worth) = Begun + Dropped + Looted
BY DEF Wealth, Given, Carried, Purse, Stored, Built, Begun, Price, Dropped, Looted

\* One piece, as a row of stacks.
LEMMA PieceWorth ==
  ASSUME NEW st \in Stacks
  PROVE  WorthOf(<<st>>, Worth) = Value(st) /\ Value(st) \in Nat
<1>1. PICK n \in Nat : n = 1
  OBVIOUS
<1>2. PICK s : s = <<st>>
  OBVIOUS
<1>3. s \in Row(n) /\ s[1] = st
  BY <1>1, <1>2 DEF Row
<1>4. PICK v : v = Values(n, s)
  OBVIOUS
<1>5. v \in Numbers(n) /\ WorthOf(s, Worth) = Sums(v)[n]
  BY <1>3, <1>4, WorthOfRow
<1>6. v[1] = Value(st) /\ Value(st) \in Nat
  BY <1>1, <1>3, <1>4, ValueTyped DEF Values
<1>7. Sums(v)[0] = 0 /\ \A i \in 1 .. n : Sums(v)[i] = Sums(v)[i - 1] + v[i]
  BY <1>5, SumsRecursion
<1>8. Sums(v)[1] = Sums(v)[0] + v[1]
  BY <1>1, <1>7
<1> QED  BY <1>1, <1>2, <1>5, <1>6, <1>7, <1>8

\* What a player carries and wears.
LEMMA PurseTyped ==
  ASSUME PlayersTyped, NEW p \in Players
  PROVE  /\ SlotCount \in Nat /\ inv[p] \in Row(SlotCount) /\ WorthOf(inv[p], Worth) \in Nat
         /\ armor[p] \in Stacks /\ Value(armor[p]) \in Nat
         /\ Purse(p) = WorthOf(inv[p], Worth) + Value(armor[p]) /\ Purse(p) \in Nat
<1>1. /\ inv[p] \in Row(SlotCount) /\ armor[p] \in Stacks /\ SlotCount \in Nat
  BY ItemsAssumption DEF PlayersTyped, Pieces
<1> QED  BY <1>1, WorthOfRow, PieceWorth DEF Purse

\* The same after a step.
LEMMA PurseTypedNext ==
  ASSUME PlayersTyped', NEW p \in Players
  PROVE  /\ inv'[p] \in Row(SlotCount) /\ WorthOf(inv'[p], Worth) \in Nat
         /\ armor'[p] \in Stacks /\ Value(armor'[p]) \in Nat
         /\ Purse(p)' = WorthOf(inv'[p], Worth) + Value(armor'[p]) /\ Purse(p)' \in Nat
<1>1. /\ inv'[p] \in Row(SlotCount) /\ armor'[p] \in Stacks /\ SlotCount \in Nat
  BY ItemsAssumption DEF PlayersTyped, Pieces
<1> QED  BY <1>1, WorthOfRow, PieceWorth DEF Purse

\* What players carry is worth a natural number.
LEMMA CarriedTyped ==
  ASSUME PlayersTyped, active \subseteq Players
  PROVE  Carried \in Nat
<1>1. PICK f : f = [p \in active |-> Purse(p)]
  OBVIOUS
<1>2. f \in [active -> Nat] /\ IsFiniteSet(active)
  BY <1>1, PurseTyped, FS_Subset, ItemsAssumption
<1>3. Total(f) \in Nat
  BY <1>2, TotalNatural
<1> QED  BY <1>1, <1>3 DEF Carried

\* One player's things change.
LEMMA CarriedChanged ==
  ASSUME PlayersTyped, PlayersTyped', active \subseteq Players, UNCHANGED active,
         NEW p \in active,
         \A q \in Players \ {p} : inv'[q] = inv[q] /\ armor'[q] = armor[q]
  PROVE  Carried' = Carried - Purse(p) + Purse(p)'
<1>1. PICK f : f = [q \in active |-> Purse(q)]
  OBVIOUS
<1>2. PICK h : h = [q \in active |-> Purse(q)']
  OBVIOUS
<1>3. Carried = Total(f) /\ Carried' = Total(h)
  BY <1>1, <1>2 DEF Carried
<1>4. /\ \A q \in active : Purse(q) \in Nat /\ Purse(q)' \in Nat
      /\ IsFiniteSet(active)
  BY PurseTyped, PurseTypedNext, FS_Subset, ItemsAssumption
<1>5. f \in [active -> Int] /\ h \in [active -> Int] /\ IsFiniteSet(active)
  BY <1>1, <1>2, <1>4
<1>6. \A q \in active \ {p} : h[q] = f[q]
  BY <1>1, <1>2 DEF Purse
<1>7. Total(h) = Total(f) - f[p] + h[p]
  BY <1>5, <1>6, TotalChanged
<1> QED  BY <1>1, <1>2, <1>3, <1>7

\* A player comes, another one's things stay as they are.
LEMMA CarriedJoined ==
  ASSUME PlayersTyped, PlayersTyped', active \subseteq Players, NEW p \in Players \ active,
         active' = active \cup {p},
         \A q \in Players \ {p} : inv'[q] = inv[q] /\ armor'[q] = armor[q]
  PROVE  Carried' = Carried + Purse(p)'
<1>1. PICK f : f = [q \in active |-> Purse(q)]
  OBVIOUS
<1>2. PICK h : h = [q \in active \cup {p} |-> Purse(q)']
  OBVIOUS
<1>3. Carried = Total(f) /\ Carried' = Total(h)
  BY <1>1, <1>2 DEF Carried
<1>4. /\ \A q \in active : Purse(q) \in Nat
      /\ \A q \in active \cup {p} : Purse(q)' \in Nat
      /\ IsFiniteSet(active)
  BY PurseTyped, PurseTypedNext, FS_Subset, ItemsAssumption
<1>5. f \in [active -> Int] /\ h \in [active \cup {p} -> Int] /\ p \notin active
  BY <1>1, <1>2, <1>4
<1>6. \A q \in active : h[q] = f[q]
  BY <1>1, <1>2, <1>5 DEF Purse
<1>7. Total(h) = Total(f) + h[p]
  BY <1>4, <1>5, <1>6, TotalAdded
<1> QED  BY <1>2, <1>3, <1>7

\* A player goes.
LEMMA CarriedLeft ==
  ASSUME PlayersTyped, active \subseteq Players, NEW p \in active,
         active' = active \ {p}, UNCHANGED <<inv, armor>>
  PROVE  Carried = Carried' + Purse(p) /\ Purse(p) \in Nat
<1>1. PICK f : f = [q \in active |-> Purse(q)]
  OBVIOUS
<1>2. PICK h : h = [q \in active \ {p} |-> f[q]]
  OBVIOUS
<1>3. Carried = Total(f) /\ Carried' = Total(h)
  <2>1. h = [q \in active' |-> Purse(q)']
    BY <1>1, <1>2 DEF Purse
  <2> QED  BY <1>1, <2>1 DEF Carried
<1>4. /\ \A q \in active : Purse(q) \in Nat
      /\ IsFiniteSet(active)
  BY PurseTyped, FS_Subset, ItemsAssumption
<1>5. f \in [active -> Int]
  BY <1>1, <1>4
<1>6. Total(f) = f[p] + Total(h)
  BY <1>2, <1>4, <1>5, TotalTaken
<1>7. Total(h) \in Int
  <2>1. h \in [active \ {p} -> Int] /\ IsFiniteSet(active \ {p})
    BY <1>2, <1>4, <1>5, FS_RemoveElement
  <2> QED  BY <2>1, TotalTyped
<1> QED  BY <1>1, <1>3, <1>4, <1>6, <1>7

-----------------------------------------------------------------------------

\* What a container holds is worth a natural number.
LEMMA HoldsTyped ==
  ASSUME NEW e, Holds(e)
  PROVE  WorthOf(e.slots, Worth) \in Nat
<1>1. PICK n \in Nat : n = Capacity(e.kind)
  BY CapacityTyped DEF Holds
<1>2. e.slots \in Row(n)
  BY <1>1 DEF Holds
<1> QED  BY <1>2, WorthOfRow

\* A list has finitely many entries.
LEMMA EntitiesFinite ==
  ASSUME NEW s, IsList(s)
  PROVE  IsFiniteSet(DOMAIN s)
<1>1. Len(s) \in Nat /\ DOMAIN s = 1 .. Len(s)
  BY ListDomain
<1> QED  BY <1>1, FS_Interval

\* What is stored is worth a natural number.
LEMMA StoredTyped ==
  ASSUME Listed, EntitiesHold
  PROVE  Stored \in Nat
<1>1. PICK f : f = [k \in DOMAIN entities |-> WorthOf(entities[k].slots, Worth)]
  OBVIOUS
<1>2. f \in [DOMAIN entities -> Nat] /\ IsFiniteSet(DOMAIN entities)
  BY <1>1, HoldsTyped, EntitiesFinite DEF Listed, EntitiesHold
<1>3. Total(f) \in Nat
  BY <1>2, TotalNatural
<1> QED  BY <1>1, <1>3 DEF Stored

\* No slot of a container changes.
LEMMA StoredSame ==
  ASSUME DOMAIN entities' = DOMAIN entities,
         \A k \in DOMAIN entities : entities'[k].slots = entities[k].slots
  PROVE  Stored' = Stored
<1>1. PICK f : f = [k \in DOMAIN entities |-> WorthOf(entities[k].slots, Worth)]
  OBVIOUS
<1>2. f = [k \in DOMAIN entities' |-> WorthOf(entities'[k].slots, Worth)]
  BY <1>1
<1> QED  BY <1>1, <1>2 DEF Stored

\* The slots of one entity change.
LEMMA StoredChanged ==
  ASSUME Listed, EntitiesHold, EntitiesHold', DOMAIN entities' = DOMAIN entities,
         NEW x \in DOMAIN entities,
         \A k \in DOMAIN entities \ {x} : entities'[k] = entities[k]
  PROVE  Stored' = Stored - WorthOf(entities[x].slots, Worth)
                   + WorthOf(entities'[x].slots, Worth)
<1>1. PICK D : D = DOMAIN entities
  OBVIOUS
<1>2. PICK f : f = [k \in D |-> WorthOf(entities[k].slots, Worth)]
  OBVIOUS
<1>3. PICK h : h = [k \in D |-> WorthOf(entities'[k].slots, Worth)]
  OBVIOUS
<1>4. Stored = Total(f) /\ Stored' = Total(h)
  BY <1>1, <1>2, <1>3 DEF Stored
<1>5. IsFiniteSet(D) /\ x \in D /\ f \in [D -> Int] /\ h \in [D -> Int]
  BY <1>1, <1>2, <1>3, HoldsTyped, EntitiesFinite DEF Listed, EntitiesHold
<1>6. \A k \in D \ {x} : h[k] = f[k]
  BY <1>1, <1>2, <1>3
<1>7. Total(h) = Total(f) - f[x] + h[x]
  BY <1>5, <1>6, TotalChanged
<1> QED  BY <1>2, <1>3, <1>4, <1>5, <1>7

\* A container with its contents is added.
LEMMA StoredAdded ==
  ASSUME Listed, EntitiesHold, NEW e, Holds(e), OneMore(entities, e, entities')
  PROVE  EntitiesHold' /\ Stored' = Stored + WorthOf(e.slots, Worth)
<1>1. PICK D : D = DOMAIN entities
  OBVIOUS
<1>2. PICK x : x = Len(entities) + 1
  OBVIOUS
<1>3. /\ DOMAIN entities' = D \cup {x} /\ x \notin D /\ entities'[x] = e
      /\ \A k \in D : entities'[k] = entities[k]
  BY <1>1, <1>2 DEF OneMore
<1>4. EntitiesHold'
  BY <1>1, <1>3 DEF EntitiesHold
<1>5. PICK f : f = [k \in D |-> WorthOf(entities[k].slots, Worth)]
  OBVIOUS
<1>6. PICK h : h = [k \in D \cup {x} |-> WorthOf(entities'[k].slots, Worth)]
  OBVIOUS
<1>7. Stored = Total(f) /\ Stored' = Total(h)
  BY <1>1, <1>3, <1>5, <1>6 DEF Stored
<1>8. IsFiniteSet(D) /\ f \in [D -> Int]
  BY <1>1, <1>5, HoldsTyped, EntitiesFinite DEF Listed, EntitiesHold
<1>9. h \in [D \cup {x} -> Int]
  BY <1>3, <1>4, <1>6, HoldsTyped DEF EntitiesHold
<1>10. \A k \in D : h[k] = f[k]
  BY <1>3, <1>5, <1>6
<1>11. Total(h) = Total(f) + h[x]
  BY <1>3, <1>8, <1>9, <1>10, TotalAdded
<1> QED  BY <1>3, <1>4, <1>6, <1>7, <1>11

\* Every entity holds at most what it held.
LEMMA StoredShrinks ==
  ASSUME Listed, EntitiesHold, EntitiesHold', DOMAIN entities' = DOMAIN entities,
         \A k \in DOMAIN entities : WorthOf(entities'[k].slots, Worth)
                                    <= WorthOf(entities[k].slots, Worth)
  PROVE  Stored' <= Stored
<1>1. PICK D : D = DOMAIN entities
  OBVIOUS
<1>2. PICK f : f = [k \in D |-> WorthOf(entities[k].slots, Worth)]
  OBVIOUS
<1>3. PICK h : h = [k \in D |-> WorthOf(entities'[k].slots, Worth)]
  OBVIOUS
<1>4. Stored = Total(f) /\ Stored' = Total(h)
  BY <1>1, <1>2, <1>3 DEF Stored
<1>5. IsFiniteSet(D) /\ f \in [D -> Int] /\ h \in [D -> Int]
  BY <1>1, <1>2, <1>3, HoldsTyped, EntitiesFinite DEF Listed, EntitiesHold
<1>6. \A k \in D : h[k] <= f[k]
  BY <1>1, <1>2, <1>3
<1>7. Total(h) <= Total(f)
  BY <1>5, <1>6, TotalMonotone
<1> QED  BY <1>4, <1>7

\* sbe_destroy_return: the last entity takes the place of the one that goes.
LEMMA StoredRemoved ==
  ASSUME Listed, EntitiesHold, NEW x \in DOMAIN entities, entities' = WithoutEntity(x)
  PROVE  /\ EntitiesHold' /\ Len(entities') = Len(entities) - 1
         /\ Stored' = Stored - WorthOf(entities[x].slots, Worth)
<1>1. PICK n \in Nat : n = Len(entities) /\ DOMAIN entities = 1 .. n
  BY ListDomain DEF Listed
<1>2. x \in 1 .. n /\ n \in 1 .. n /\ n - 1 \in Nat
      /\ entities' = [i \in 1 .. n - 1 |-> IF i = x THEN entities[n] ELSE entities[i]]
  BY <1>1 DEF WithoutEntity, Last
<1>3. /\ DOMAIN entities' = 1 .. n - 1
      /\ \A i \in 1 .. n - 1 : entities'[i] = IF i = x THEN entities[n] ELSE entities[i]
  BY <1>2
<1>4. EntitiesHold'
  BY <1>1, <1>2, <1>3 DEF EntitiesHold
<1>5. Len(entities') = n - 1
  <2> DEFINE T == {entities'[i] : i \in 1 .. n - 1}
  <2>1. entities' \in [1 .. n - 1 -> T]
    BY <1>2, <1>3
  <2> HIDE DEF T
  <2> QED  BY <1>2, <2>1
<1>6. PICK D : D = 1 .. n - 1
  OBVIOUS
<1>7. n \notin D /\ 1 .. n = D \cup {n} /\ IsFiniteSet(D)
  <2>1. n \notin D /\ 1 .. n = D \cup {n}
    BY <1>2, <1>6
  <2>2. 1 \in Int /\ n - 1 \in Int
    BY <1>2
  <2>3. IsFiniteSet(1 .. n - 1)
    BY <2>2, FS_Interval
  <2> QED  BY <1>6, <2>1, <2>3
<1>8. PICK f : f = [k \in D \cup {n} |-> WorthOf(entities[k].slots, Worth)]
  OBVIOUS
<1>9. PICK g : g = [k \in D |-> WorthOf(entities[k].slots, Worth)]
  OBVIOUS
<1>10. PICK h : h = [k \in D |-> WorthOf(entities'[k].slots, Worth)]
  OBVIOUS
<1>11. Stored = Total(f) /\ Stored' = Total(h)
  BY <1>1, <1>3, <1>6, <1>7, <1>8, <1>10 DEF Stored
<1>12. f \in [D \cup {n} -> Int]
  BY <1>1, <1>7, <1>8, HoldsTyped DEF EntitiesHold
<1>13. g \in [D -> Int]
  BY <1>1, <1>7, <1>9, HoldsTyped DEF EntitiesHold
<1>14. h \in [D -> Int]
  BY <1>3, <1>4, <1>6, <1>10, HoldsTyped DEF EntitiesHold
<1>15. Total(f) = Total(g) + f[n]
  <2>1. \A k \in D : f[k] = g[k]
    BY <1>8, <1>9
  <2> QED  BY <1>7, <1>12, <1>13, <2>1, TotalAdded
<1>16. Total(g) \in Int
  BY <1>7, <1>13, TotalTyped
<1>17. f[n] \in Int
  BY <1>12
<1>18. CASE x = n
  <2>1. \A k \in D : h[k] = g[k]
    BY <1>3, <1>6, <1>7, <1>9, <1>10, <1>18
  <2>2. h = g
    BY <1>13, <1>14, <2>1
  <2>3. f[n] = WorthOf(entities[x].slots, Worth)
    BY <1>8, <1>18
  <2> QED  BY <1>1, <1>4, <1>5, <1>11, <1>15, <1>16, <1>17, <2>2, <2>3
<1>19. CASE x # n
  <2>1. x \in D
    BY <1>2, <1>7, <1>19
  <2>2. \A k \in D \ {x} : h[k] = g[k]
    BY <1>3, <1>6, <1>9, <1>10
  <2>3. Total(h) = Total(g) - g[x] + h[x]
    BY <1>7, <1>13, <1>14, <2>1, <2>2, TotalChanged
  <2>4. h[x] = f[n] /\ g[x] = WorthOf(entities[x].slots, Worth) /\ g[x] \in Int
    BY <1>3, <1>6, <1>8, <1>9, <1>10, <1>13, <2>1
  <2> QED  BY <1>1, <1>4, <1>5, <1>11, <1>15, <1>16, <1>17, <2>3, <2>4
<1> QED  BY <1>18, <1>19

-----------------------------------------------------------------------------

\* A block is worth a natural number.
LEMMA PriceTyped == \A b \in Blocks \cup {Air} : Price(b) \in Nat
BY ItemsAssumption, WorthAssumption DEF Price

\* What stands is worth a natural number.
LEMMA BuiltTyped ==
  ASSUME solid \in [Cells -> Blocks \cup {Air}]
  PROVE  Built \in Nat
<1>1. PICK f : f = [c \in Cells |-> Price(solid[c])]
  OBVIOUS
<1>2. f \in [Cells -> Nat] /\ IsFiniteSet(Cells)
  BY <1>1, PriceTyped, ItemsAssumption
<1>3. Total(f) \in Nat
  BY <1>2, TotalNatural
<1> QED  BY <1>1, <1>3 DEF Built

\* One block changes.
LEMMA BuiltChanged ==
  ASSUME solid \in [Cells -> Blocks \cup {Air}], NEW c \in Cells,
         NEW b \in Blocks \cup {Air}, solid' = [solid EXCEPT ![c] = b]
  PROVE  /\ Built' = Built - Price(solid[c]) + Price(b)
         /\ Price(solid[c]) \in Nat /\ Price(b) \in Nat
<1>1. PICK f : f = [d \in Cells |-> Price(solid[d])]
  OBVIOUS
<1>2. PICK h : h = [d \in Cells |-> Price(solid'[d])]
  OBVIOUS
<1>3. Built = Total(f) /\ Built' = Total(h)
  BY <1>1, <1>2 DEF Built, Price
<1>4. /\ solid' \in [Cells -> Blocks \cup {Air}] /\ solid'[c] = b
      /\ \A d \in Cells \ {c} : solid'[d] = solid[d]
  OBVIOUS
<1>5. f \in [Cells -> Int] /\ h \in [Cells -> Int] /\ IsFiniteSet(Cells)
  <2>1. \A d \in Cells : Price(solid[d]) \in Nat /\ Price(solid'[d]) \in Nat
    BY <1>4, PriceTyped
  <2> QED  BY <1>1, <1>2, <2>1, ItemsAssumption
<1>6. \A d \in Cells \ {c} : h[d] = f[d]
  BY <1>1, <1>2, <1>4
<1>7. Total(h) = Total(f) - f[c] + h[c]
  BY <1>5, <1>6, TotalChanged
<1>8. f[c] = Price(solid[c]) /\ h[c] = Price(b)
  BY <1>1, <1>2, <1>4
<1>9. Price(solid[c]) \in Nat /\ Price(b) \in Nat
  BY PriceTyped
<1> QED  BY <1>3, <1>7, <1>8, <1>9

\* Sand that lies where what is saved has none: the block physics of a host put it
\* there, or moved it away and the column has not been generated again since.
Stray(c) ==
  IF c \in ready /\ live[c] = Sand /\ solid[c] # Sand THEN Worth[Sand] ELSE 0
Loose == Total([c \in Cells |-> Stray(c)])

\* What blocks of sand that fell may be worth a second time.
Sunk == falls * Worth[Sand]

\* What can be broken in the world, less what falls account for.
Ground == Built + Loose - Sunk

\* Stray sand is worth a natural number.
LEMMA StrayTyped == Worth[Sand] \in Nat /\ \A c \in Cells : Stray(c) \in Nat
BY Solids, ItemsAssumption, WorthAssumption DEF Stray

\* The same after a step.
LEMMA StrayTypedNext == \A c \in Cells : Stray(c)' \in Nat
BY StrayTyped DEF Stray

\* All stray sand is worth a natural number.
LEMMA LooseTyped == Loose \in Nat
<1>1. PICK f : f = [c \in Cells |-> Stray(c)]
  OBVIOUS
<1>2. f \in [Cells -> Nat] /\ IsFiniteSet(Cells)
  BY <1>1, StrayTyped, ItemsAssumption
<1>3. Total(f) \in Nat
  BY <1>2, TotalNatural
<1> QED  BY <1>1, <1>3 DEF Loose

\* Stray sand comes and goes at one cell.
LEMMA LooseChanged ==
  ASSUME NEW c \in Cells, \A d \in Cells \ {c} : Stray(d)' = Stray(d)
  PROVE  Loose' = Loose - Stray(c) + Stray(c)'
<1>1. PICK f : f = [d \in Cells |-> Stray(d)]
  OBVIOUS
<1>2. PICK h : h = [d \in Cells |-> Stray(d)']
  OBVIOUS
<1>3. f \in [Cells -> Int] /\ h \in [Cells -> Int] /\ IsFiniteSet(Cells)
  <2>1. \A d \in Cells : Stray(d) \in Nat /\ Stray(d)' \in Nat
    BY StrayTyped, StrayTypedNext
  <2> QED  BY <1>1, <1>2, <2>1, ItemsAssumption
<1>4. \A d \in Cells \ {c} : h[d] = f[d]
  BY <1>1, <1>2
<1>5. Total(h) = Total(f) - f[c] + h[c]
  BY <1>3, <1>4, TotalChanged
<1>6. Loose = Total(f) /\ Loose' = Total(h)
  BY <1>1, <1>2 DEF Loose
<1> QED  BY <1>1, <1>2, <1>5, <1>6

\* Stray sand goes with its column.
LEMMA LooseShrinks ==
  ASSUME \A c \in Cells : Stray(c)' <= Stray(c)
  PROVE  Loose' <= Loose /\ Loose' \in Int
<1>1. PICK f : f = [c \in Cells |-> Stray(c)]
  OBVIOUS
<1>2. PICK h : h = [c \in Cells |-> Stray(c)']
  OBVIOUS
<1>3. f \in [Cells -> Int] /\ h \in [Cells -> Int] /\ IsFiniteSet(Cells)
  <2>1. \A c \in Cells : Stray(c) \in Nat /\ Stray(c)' \in Nat
    BY StrayTyped, StrayTypedNext
  <2> QED  BY <1>1, <1>2, <2>1, ItemsAssumption
<1>4. \A c \in Cells : h[c] <= f[c]
  BY <1>1, <1>2
<1>5. Total(h) <= Total(f) /\ Total(h) \in Int
  BY <1>3, <1>4, TotalMonotone, TotalTyped
<1> QED  BY <1>1, <1>2, <1>5 DEF Loose

\* What stood at the start is worth a natural number.
LEMMA BegunTyped ==
  ASSUME start \in Starts
  PROVE  Begun \in Nat
<1>1. start.world \in [Cells -> Blocks \cup {Air}]
  BY ItemsAssumption
<1>2. PICK f : f = [c \in Cells |-> Price(start.world[c])]
  OBVIOUS
<1>3. f \in [Cells -> Nat] /\ IsFiniteSet(Cells)
  BY <1>1, <1>2, PriceTyped, ItemsAssumption
<1>4. Total(f) \in Nat
  BY <1>3, TotalNatural
<1> QED  BY <1>2, <1>4 DEF Begun

\* What a mob leaves, and what mobs have left.
LEMMA DropsTyped ==
  /\ WorthOf(MobDrops, Worth) \in Nat
  /\ \A n \in Nat : \A s \in Row(n) :
       /\ Poured(s, MobDrops) \in Row(n)
       /\ WorthOf(Poured(s, MobDrops), Worth) <= WorthOf(s, Worth) + WorthOf(MobDrops, Worth)
<1>1. PICK m \in Nat : m = Len(MobDrops)
  BY LootAssumption
<1>2. MobDrops \in Row(m)
  BY <1>1, LootAssumption DEF Row
<1> QED  BY <1>2, WorthOfRow, PouredStacks

\* The loot that was found is worth a natural number.
LEMMA LootedTyped ==
  ASSUME rolled \subseteq DOMAIN Loot
  PROVE  Looted \in Nat
<1>1. PICK f : f = [c \in rolled |-> WorthOf(Loot[c], Worth)]
  OBVIOUS
<1>2. f \in [rolled -> Nat] /\ IsFiniteSet(rolled)
  BY <1>1, LootActs, FS_Subset, ItemsAssumption
<1>3. Total(f) \in Nat
  BY <1>2, TotalNatural
<1> QED  BY <1>1, <1>3 DEF Looted

\* One more dungeon chest is found.
LEMMA LootedAdded ==
  ASSUME rolled \subseteq DOMAIN Loot, NEW c \in DOMAIN Loot, c \notin rolled,
         rolled' = rolled \cup {c}
  PROVE  Looted' = Looted + WorthOf(Loot[c], Worth)
<1>1. PICK f : f = [d \in rolled |-> WorthOf(Loot[d], Worth)]
  OBVIOUS
<1>2. PICK h : h = [d \in rolled \cup {c} |-> WorthOf(Loot[d], Worth)]
  OBVIOUS
<1>3. IsFiniteSet(rolled)
  BY FS_Subset, ItemsAssumption
<1>4. f \in [rolled -> Int]
  BY <1>1, LootActs
<1>5. h \in [rolled \cup {c} -> Int]
  BY <1>2, LootActs
<1>6. \A d \in rolled : h[d] = f[d]
  BY <1>1, <1>2
<1>7. Total(h) = Total(f) + h[c]
  BY <1>3, <1>4, <1>5, <1>6, TotalAdded
<1>8. Looted = Total(f) /\ Looted' = Total(h)
  BY <1>1, <1>2 DEF Looted
<1> QED  BY <1>2, <1>7, <1>8

\* The total of zeros is zero.
LEMMA TotalNothing ==
  ASSUME NEW D, IsFiniteSet(D), NEW f \in [D -> Int], \A x \in D : f[x] = 0
  PROVE  Total(f) = 0
<1>1. PICK g : PartialTotals(f, D, g) /\ Total(f) = g[D]
  BY TotalFold
<1> DEFINE P == {s \in SUBSET D : g[s] = 0}
<1>2. \A s \in SUBSET D : (\A x \in s : s \ {x} \in P) => s \in P
  <2>1. SUFFICES ASSUME NEW s \in SUBSET D, \A x \in s : s \ {x} \in P
                 PROVE  g[s] = 0
    OBVIOUS
  <2>2. CASE s = {}
    BY <1>1, <2>2 DEF PartialTotals
  <2>3. CASE s # {}
    <3>1. PICK x : x = Chosen(s)
      OBVIOUS
    <3>2. x \in s
      BY <2>3, <3>1 DEF Chosen
    <3>3. g[s] = f[x] + g[s \ {x}]
      BY <1>1, <3>2, AnyElementFirst
    <3>4. g[s \ {x}] = 0 /\ f[x] = 0
      BY <2>1, <3>2
    <3> QED  BY <3>3, <3>4
  <2> QED  BY <2>2, <2>3
<1> HIDE DEF P
<1>3. \A s \in SUBSET D : s \in P
  BY <1>2, SubsetInduction
<1>4. D \in P
  BY <1>3
<1> QED  BY <1>1, <1>4 DEF P

-----------------------------------------------------------------------------

CountersTyped ==
  /\ aways \in 0 .. start.aways /\ kills \in 0 .. start.kills
  /\ lives \in 0 .. start.lives /\ bites \in 0 .. start.bites

HistoriesTyped ==
  /\ start \in Starts /\ CountersTyped
  /\ rolled \subseteq DOMAIN Loot /\ twice \subseteq rolled
  /\ refused \subseteq Cells /\ blind \subseteq Cells

HostTyped ==
  /\ sim \in {<<>>} \cup (Acts \X Cells) /\ stirred \subseteq Cells /\ falls \in Nat

OwnersInv == ItemsInv /\ HistoriesTyped /\ HostTyped /\ PlayersTyped /\ EntitiesHold

\* No more is had than before, apart from what mobs drop and chests were given.
Thrifty ==
  refused' = {} =>
    Carried' + Stored' + Ground' - Dropped' - Looted'
      <= Carried + Stored + Ground - Dropped - Looted

Kept == PlayersTyped' /\ EntitiesHold' /\ Thrifty

\* The bounds of a start are numbers.
LEMMA StartTyped ==
  ASSUME start \in Starts
  PROVE  /\ start.aways \in Nat /\ start.kills \in Nat /\ start.lives \in Nat
         /\ start.bites \in Nat
BY ItemsAssumption

\* The histories and the counters stay within their bounds, and a refusal is never
\* forgotten.
LEMMA HistoriesStep ==
  ASSUME HistoriesTyped, ItemsInv, [Next]_vars
  PROVE  HistoriesTyped' /\ refused \subseteq refused'
<1>0. /\ aways \in Nat /\ kills \in Nat /\ lives \in Nat /\ bites \in Nat
      /\ start.aways \in Nat /\ start.kills \in Nat /\ start.lives \in Nat
      /\ start.bites \in Nat
  BY StartTyped DEF HistoriesTyped, CountersTyped
<1> DEFINE Quiet == UNCHANGED <<rolled, twice, refused, blind, start>>
           Still == UNCHANGED <<counters, start>>
<1>1. ASSUME Quiet, CountersTyped' PROVE HistoriesTyped' /\ refused \subseteq refused'
  BY <1>1 DEF HistoriesTyped
<1>2. Still => CountersTyped'
  BY DEF HistoriesTyped, CountersTyped, counters
<1>3. ASSUME NEW c \in Cells, NEW b, PersistEdit(c, b), UNCHANGED <<rolled, twice>>, Still
      PROVE  HistoriesTyped' /\ refused \subseteq refused'
  <2>1. /\ refused \subseteq refused' /\ refused' \subseteq refused \cup {c}
        /\ blind' \subseteq blind \cup {c}
    BY <1>3 DEF PersistEdit
  <2> QED  BY <1>2, <1>3, <2>1 DEF HistoriesTyped
<1>4. ASSUME NEW c \in Cells, Fills(c), RollHistory(c), UNCHANGED histVars, Still
      PROVE  HistoriesTyped' /\ refused \subseteq refused'
  BY <1>2, <1>4 DEF HistoriesTyped, RollHistory, Fills, histVars
<1>5. ASSUME NEW p \in active, Request(p), UNCHANGED start
      PROVE  HistoriesTyped' /\ refused \subseteq refused'
  <2>1. ASSUME NEW c \in Cells, BreakBlock(p, c)
        PROVE  HistoriesTyped' /\ refused \subseteq refused'
    <3>1. PersistEdit(c, Air) /\ UNCHANGED <<rolled, twice>> /\ Still
      BY <1>5, <2>1 DEF BreakBlock
    <3> HIDE DEF Still
    <3> QED  BY <1>3, <3>1
  <2>2. ASSUME NEW c \in Cells, NEW i \in Slots, PlaceBlock(p, c, i)
        PROVE  HistoriesTyped' /\ refused \subseteq refused'
    <3>1. PersistEdit(c, inv[p][i].item) /\ UNCHANGED <<rolled, twice>> /\ Still
      BY <1>5, <2>2 DEF PlaceBlock
    <3> HIDE DEF Still
    <3> QED  BY <1>3, <3>1
  <2>3. ASSUME NEW c \in Cells, ContainerOpen(p, c)
        PROVE  HistoriesTyped' /\ refused \subseteq refused'
    <3>1. /\ Still /\ UNCHANGED histVars
          /\ IF Fills(c) THEN RollHistory(c) ELSE UNCHANGED <<rolled, twice>>
      BY <1>5, <2>3 DEF ContainerOpen
    <3>2. Fills(c) \/ Quiet
      BY <3>1 DEF histVars
    <3> HIDE DEF Still, Quiet
    <3> QED  BY <1>1, <1>2, <1>4, <3>1, <3>2
  <2>4. ASSUME \/ \E c \in Cells : ContainerClose(p, c)
               \/ \E i \in Slots : EatFoodBlock(p, i) \/ Equip(p, i) \/ Eat(p, i)
               \/ Transfer(p) \/ \E r \in Recipes : Craft(p, r)
        PROVE  HistoriesTyped' /\ refused \subseteq refused'
    <3>1. Quiet /\ Still
      BY <1>5, <2>4 DEF ContainerClose, EatFoodBlock, Equip, Eat, Transfer, TakeOut, PutIn,
                        Craft, histVars
    <3> HIDE DEF Still, Quiet
    <3> QED  BY <1>1, <1>2, <3>1
  <2> QED  BY <1>5, <2>1, <2>2, <2>3, <2>4 DEF Request
<1>6. ASSUME UNCHANGED start,
             \/ \E p \in active : AwardMobLoot(p) \/ Hunger(p) \/ WearArmor(p)
             \/ \E p \in Players : Die(p) \/ Join(p) \/ Leave(p)
             \/ \E column \in Columns : ColumnGone(column) \/ ColumnBack(column)
             \/ FurnaceTick
      PROVE  HistoriesTyped' /\ refused \subseteq refused'
  <2>1. Quiet
    BY <1>6 DEF AwardMobLoot, Hunger, WearArmor, Die, Join, Renewed, Leave, ColumnGone,
                ColumnBack, FurnaceTick, histVars
  <2>2. CountersTyped'
    BY <1>0, <1>6 DEF AwardMobLoot, Hunger, WearArmor, Die, Join, Renewed, Leave, ColumnGone,
                ColumnBack, FurnaceTick, counters, HistoriesTyped, CountersTyped
  <2> HIDE DEF Quiet
  <2> QED  BY <1>1, <2>1, <2>2
<1>7. ASSUME NEW c \in Cells, StreamColumn(c), UNCHANGED start
      PROVE  HistoriesTyped' /\ refused \subseteq refused'
  <2>1. Fills(c) /\ RollHistory(c) /\ UNCHANGED histVars /\ Still
    BY <1>7 DEF StreamColumn
  <2> HIDE DEF Still
  <2> QED  BY <1>4, <2>1
<1>8. CASE UNCHANGED vars
  <2>1. Quiet /\ Still
    BY <1>8 DEF vars, histVars
  <2> HIDE DEF Still, Quiet
  <2> QED  BY <1>1, <1>2, <2>1
<1>9. ASSUME Physics, UNCHANGED start PROVE HistoriesTyped' /\ refused \subseteq refused'
  <2>1. Quiet /\ Still
    BY <1>9 DEF Physics, histVars
  <2> HIDE DEF Still, Quiet
  <2> QED  BY <1>1, <1>2, <2>1
<1> QED  BY <1>5, <1>6, <1>7, <1>8, <1>9 DEF Next, Step

\* What is known of the block physics keeps its type.
LEMMA HostStep ==
  ASSUME HostTyped, ItemsInv, [Next]_vars
  PROVE  HostTyped'
<1>1. CASE UNCHANGED hostVars
  BY <1>1 DEF HostTyped, hostVars
<1>2. CASE Physics
  <2>1. /\ falls' \in Nat /\ stirred' \subseteq Cells
    BY <1>2, PhysicsWrites DEF HostTyped
  <2>2. sim' \in {<<>>} \cup (Acts \X Cells)
    BY <1>2 DEF Physics, LookAt, LookBelow, Fall, Clear, LookForWater, Flow, Pass, Acts
  <2> QED  BY <2>1, <2>2 DEF HostTyped
<1> QED  BY <1>1, <1>2 DEF Next, vars

-----------------------------------------------------------------------------
(* Steps of one player.                                                    *)

\* What a step that leaves the rest alone leaves as it was.
LEMMA SameAmounts ==
  /\ UNCHANGED <<solid, live, ready, falls>> => Ground' = Ground
  /\ UNCHANGED kills => Dropped' = Dropped
  /\ UNCHANGED rolled => Looted' = Looted
  /\ UNCHANGED <<inv, armor, active>> => Carried' = Carried
  /\ UNCHANGED entities => Stored' = Stored
BY DEF Ground, Built, Loose, Stray, Sunk, Dropped, Looted, Carried, Purse, Stored

\* All amounts are natural numbers.
LEMMA AmountsTyped ==
  ASSUME OwnersInv
  PROVE  /\ Carried \in Nat /\ Stored \in Nat /\ Built \in Nat
         /\ Looted \in Nat /\ Dropped \in Nat /\ kills \in Nat
         /\ WorthOf(MobDrops, Worth) \in Nat
         /\ Loose \in Nat /\ Sunk \in Nat /\ Ground \in Int
<1>1. /\ Carried \in Nat /\ Stored \in Nat /\ Built \in Nat /\ Looted \in Nat
  BY CarriedTyped, StoredTyped, BuiltTyped, LootedTyped
     DEF OwnersInv, ItemsInv, WorldTyped, HistoriesTyped
<1>2. WorthOf(MobDrops, Worth) \in Nat
  BY DropsTyped
<1>3. kills \in Nat
  BY StartTyped DEF OwnersInv, HistoriesTyped, CountersTyped
<1>4. PICK k \in Nat : k = kills
  BY <1>3
<1>5. PICK w \in Nat : w = WorthOf(MobDrops, Worth)
  BY <1>2
<1>6. Dropped = k * w
  BY <1>4, <1>5 DEF Dropped
<1>7. k * w \in Nat
  BY Product
<1>8. Loose \in Nat /\ Sunk \in Nat
  <2>1. falls \in Nat /\ Worth[Sand] \in Nat
    BY StrayTyped DEF OwnersInv, HostTyped
  <2>2. falls * Worth[Sand] \in Nat
    BY <2>1, Product
  <2> QED  BY <2>2, LooseTyped DEF Sunk
<1>9. Ground \in Int
  BY <1>1, <1>8 DEF Ground
<1> QED  BY <1>1, <1>2, <1>3, <1>6, <1>7, <1>8, <1>9

\* g is f with v in place of what it had at x.
Replaced(f, x, v, g) == g = [f EXCEPT ![x] = v]

\* One player's inventory changes.
LEMMA InventoryReplaced ==
  ASSUME OwnersInv, NEW p \in active, NEW t \in Row(SlotCount), Replaced(inv, p, t, inv'),
         UNCHANGED <<active, armor>>, food' \in [Players -> 0 .. MaxFood]
  PROVE  /\ PlayersTyped' /\ WorthOf(t, Worth) \in Nat
         /\ WorthOf(inv[p], Worth) \in Nat
         /\ Carried' = Carried - WorthOf(inv[p], Worth) + WorthOf(t, Worth)
<1>1. /\ PlayersTyped /\ active \subseteq Players /\ p \in Players /\ SlotCount \in Nat
      /\ Carried \in Nat
  BY AmountsTyped, ItemsAssumption DEF OwnersInv, ItemsInv, WorldTyped
<1>2. /\ inv' \in [Players -> Row(SlotCount)] /\ inv'[p] = t
      /\ \A q \in Players \ {p} : inv'[q] = inv[q] /\ armor'[q] = armor[q]
  BY <1>1 DEF Replaced, PlayersTyped
<1>3. PlayersTyped'
  BY <1>1, <1>2 DEF PlayersTyped
<1>4. Carried' = Carried - Purse(p) + Purse(p)'
  BY <1>1, <1>2, <1>3, CarriedChanged
<1>5. /\ Purse(p) = WorthOf(inv[p], Worth) + Value(armor[p]) /\ Value(armor[p]) \in Nat
      /\ WorthOf(inv[p], Worth) \in Nat
  BY <1>1, PurseTyped
<1>6. /\ Purse(p)' = WorthOf(inv'[p], Worth) + Value(armor'[p])
      /\ WorthOf(inv'[p], Worth) \in Nat
  BY <1>1, <1>3, PurseTypedNext
<1>7. /\ Purse(p)' = WorthOf(t, Worth) + Value(armor[p])
      /\ WorthOf(t, Worth) \in Nat
  BY <1>2, <1>6
<1> QED  BY <1>1, <1>3, <1>4, <1>5, <1>7

\* What a player does to the own inventory does not make it worth more.
LEMMA InventoryStep ==
  ASSUME OwnersInv, NEW p \in active, NEW t \in Row(SlotCount), Replaced(inv, p, t, inv'),
         UNCHANGED <<active, armor, solid, live, ready, falls, entities, rolled, kills>>,
         food' \in [Players -> 0 .. MaxFood],
         WorthOf(t, Worth) <= WorthOf(inv[p], Worth)
  PROVE  Kept
<1>1. /\ PlayersTyped' /\ WorthOf(t, Worth) \in Nat /\ WorthOf(inv[p], Worth) \in Nat
      /\ Carried' = Carried - WorthOf(inv[p], Worth) + WorthOf(t, Worth)
  BY InventoryReplaced
<1>2. Ground' = Ground /\ Dropped' = Dropped /\ Looted' = Looted /\ Stored' = Stored
  BY SameAmounts
<1>3. EntitiesHold'
  BY DEF OwnersInv, EntitiesHold
<1> QED  BY <1>1, <1>2, <1>3, AmountsTyped DEF Kept, Thrifty

\* What a step needs to know of a player.
LEMMA OwnerTyped ==
  ASSUME OwnersInv, NEW p \in active
  PROVE  /\ p \in Players /\ inv[p] \in Row(SlotCount) /\ SlotCount \in Nat
         /\ WorthOf(inv[p], Worth) \in Nat /\ armor[p] \in Pieces
         /\ Slots = 1 .. SlotCount /\ food \in [Players -> 0 .. MaxFood]
         /\ Value(armor[p]) \in Nat
<1>1. PlayersTyped /\ p \in Players
  BY DEF OwnersInv, ItemsInv, WorldTyped
<1> QED  BY <1>1, PurseTyped DEF PlayersTyped, Slots

\* Eating leaves hunger within its bounds.
LEMMA FedTyped ==
  ASSUME food \in [Players -> 0 .. MaxFood], NEW p \in Players
  PROVE  [food EXCEPT ![p] = Bounded(food[p] + FoodRestore, MaxFood)]
           \in [Players -> 0 .. MaxFood]
<1>1. /\ food[p] + FoodRestore \in Int /\ MaxFood \in Nat
  BY ItemsAssumption
<1>2. Bounded(food[p] + FoodRestore, MaxFood) \in 0 .. MaxFood
  BY <1>1, BoundedActs
<1> QED  BY <1>2

\* A piece of food or a block is taken out of a slot.
LEMMA ConsumedStep ==
  ASSUME OwnersInv, NEW p \in active, NEW i \in Slots, inv[p][i].item \in Items,
         inv' = [inv EXCEPT ![p] = Consumed(inv[p], i)]
  PROVE  \E t \in Row(SlotCount) :
           /\ Replaced(inv, p, t, inv')
           /\ WorthOf(t, Worth) = WorthOf(inv[p], Worth) - Worth[inv[p][i].item]
           /\ Worth[inv[p][i].item] \in Nat
<1>1. /\ inv[p] \in Row(SlotCount) /\ SlotCount \in Nat /\ i \in 1 .. SlotCount
  BY OwnerTyped
<1>2. PICK s \in Row(SlotCount) : s = inv[p]
  BY <1>1
<1>3. /\ Consumed(s, i) \in Row(SlotCount) /\ Worth[s[i].item] \in Nat
      /\ WorthOf(Consumed(s, i), Worth) = WorthOf(s, Worth) - Worth[s[i].item]
  BY <1>1, <1>2, ConsumedActs
<1> QED  BY <1>2, <1>3 DEF Replaced

\* handle_eat, and handle_block_place with food in the hand.
LEMMA EatKeeps ==
  ASSUME OwnersInv, UNCHANGED falls, NEW p \in active, NEW i \in Slots, EatFoodBlock(p, i) \/ Eat(p, i)
  PROVE  Kept
<1>1. /\ inv[p][i].item \in Items
      /\ inv' = [inv EXCEPT ![p] = Consumed(inv[p], i)]
      /\ food' = [food EXCEPT ![p] = Bounded(food[p] + FoodRestore, MaxFood)]
      /\ UNCHANGED <<active, armor, solid, live, ready, falls, entities, rolled, kills>>
  BY ItemsAssumption DEF EatFoodBlock, Eat, worldVars, counters
<1>2. PICK t \in Row(SlotCount) :
           /\ Replaced(inv, p, t, inv')
           /\ WorthOf(t, Worth) = WorthOf(inv[p], Worth) - Worth[inv[p][i].item]
           /\ Worth[inv[p][i].item] \in Nat
  BY <1>1, ConsumedStep
<1>3. /\ WorthOf(inv[p], Worth) \in Nat /\ food' \in [Players -> 0 .. MaxFood]
  BY <1>1, OwnerTyped, FedTyped
<1>4. WorthOf(t, Worth) <= WorthOf(inv[p], Worth)
  BY <1>2, <1>3
<1> QED  BY <1>1, <1>2, <1>3, <1>4, InventoryStep

\* handle_craft: the output is worth no more than the inputs.
LEMMA CraftKeeps ==
  ASSUME OwnersInv, UNCHANGED falls, NEW p \in active, NEW r \in Recipes, Craft(p, r)
  PROVE  Kept
<1>1. /\ inv[p] \in Row(SlotCount) /\ SlotCount \in Nat
      /\ food \in [Players -> 0 .. MaxFood]
  BY OwnerTyped
<1>2. PICK s \in Row(SlotCount) : s = inv[p]
  BY <1>1
<1>3. PICK t : t = Added(Spent(s, r.inputs), Stack(r.output, r.count))
  OBVIOUS
<1>4. \A k \in DOMAIN r.inputs : CountIn(s, r.inputs[k].item)[SlotCount] >= r.inputs[k].count
  BY <1>2 DEF Craft
<1>5. t \in Row(SlotCount) /\ WorthOf(t, Worth) <= WorthOf(s, Worth)
  BY <1>1, <1>3, <1>4, CraftedActs
<1>6. /\ inv' = [inv EXCEPT ![p] = t]
      /\ UNCHANGED <<active, armor, food, solid, live, ready, falls, entities, rolled, kills>>
  BY <1>2, <1>3 DEF Craft, worldVars, counters
<1> QED  BY <1>1, <1>2, <1>5, <1>6, InventoryStep DEF Replaced

\* handle_equip: the slot held one piece at least, and gets the one worn before.
LEMMA EquipKeeps ==
  ASSUME OwnersInv, UNCHANGED falls, NEW p \in active, NEW i \in Slots, Equip(p, i)
  PROVE  Kept
<1>1. /\ inv[p] \in Row(SlotCount) /\ SlotCount \in Nat /\ i \in 1 .. SlotCount
      /\ p \in Players /\ active \subseteq Players /\ PlayersTyped
      /\ armor[p] \in Stacks /\ Value(armor[p]) \in Nat
      /\ food \in [Players -> 0 .. MaxFood]
  BY OwnerTyped DEF OwnersInv, ItemsInv, WorldTyped, Pieces
<1>2. PICK s \in Row(SlotCount) : s = inv[p]
  BY <1>1
<1>3. PICK st \in Stacks : st = s[i]
  BY <1>1 DEF Row
<1>4. PICK dur : dur = IF st.dur = 0 THEN Durability ELSE st.dur
  OBVIOUS
<1>5. PICK piece : piece = [st EXCEPT !.count = 1, !.dur = dur]
  OBVIOUS
<1>6. PICK worn \in Stacks : worn = armor[p]
  BY <1>1
<1>7. PICK t : t = [s EXCEPT ![i] = worn]
  OBVIOUS
<1>8. /\ st.item \in Armour
      /\ inv' = [inv EXCEPT ![p] = t]
      /\ armor' = [armor EXCEPT ![p] = piece]
      /\ UNCHANGED <<active, food, solid, live, ready, falls, entities, rolled, kills>>
  BY <1>2, <1>3, <1>4, <1>5, <1>6, <1>7 DEF Equip, worldVars, counters
<1>9. /\ t \in Row(SlotCount)
      /\ WorthOf(t, Worth) = WorthOf(s, Worth) - Value(s[i]) + Value(worn)
  BY <1>1, <1>7, SlotChanged
<1>10. /\ st \in [item : Items \cup {Air}, count : 0 .. StackLimit, dur : 0 .. Durability]
       /\ st.item \in Items /\ st.count # 0 /\ st.count \in Nat
       /\ Worth[st.item] \in Nat
  BY <1>8, StackFields, ItemsAssumption, WorthAssumption
<1>11. piece = [item |-> st.item, count |-> 1, dur |-> dur] /\ dur \in 0 .. Durability
  <2>1. dur \in 0 .. Durability
    BY <1>4, <1>10, ItemsAssumption
  <2>2. DOMAIN st = {"item", "count", "dur"}
    BY <1>10
  <2> QED  BY <1>5, <2>1, <2>2
<1>12. /\ piece \in Stacks /\ piece.item \in Armour /\ piece.item = st.item
       /\ piece.count = 1
  <2>1. 1 \in 1 .. StackMax(st.item)
    BY StackMaxTyped
  <2>2. piece \in Stacks
    BY <1>10, <1>11, <2>1, StackMade
  <2> QED  BY <1>8, <1>11, <2>2
<1>13. Value(piece) <= Value(st) /\ Value(piece) \in Nat /\ Value(st) \in Nat
  <2>1. PICK w \in Nat : w = Worth[st.item]
    BY <1>10
  <2>2. PICK k \in Nat : k = st.count - 1
    BY <1>10
  <2>3. k * w \in Nat
    BY Product
  <2>4. (k + 1) * w = k * w + w
    OBVIOUS
  <2>5. Value(st) = (k + 1) * w
    BY <1>10, <2>1, <2>2 DEF Value
  <2>6. Value(piece) = w
    BY <1>12, <2>1 DEF Value
  <2> QED  BY <2>3, <2>4, <2>5, <2>6
<1>14. /\ inv' \in [Players -> Row(SlotCount)] /\ inv'[p] = t
       /\ armor' \in [Players -> Pieces] /\ armor'[p] = piece
       /\ \A q \in Players \ {p} : inv'[q] = inv[q] /\ armor'[q] = armor[q]
  <2>1. piece \in Pieces
    BY <1>12 DEF Pieces
  <2>2. inv \in [Players -> Row(SlotCount)] /\ armor \in [Players -> Pieces]
    BY <1>1 DEF PlayersTyped
  <2> QED  BY <1>1, <1>8, <1>9, <2>1, <2>2
<1>15. PlayersTyped'
  BY <1>1, <1>8, <1>14 DEF PlayersTyped
<1>16. Carried' = Carried - Purse(p) + Purse(p)'
  BY <1>1, <1>8, <1>14, <1>15, CarriedChanged
<1>17. /\ Purse(p) = WorthOf(s, Worth) + Value(worn) /\ WorthOf(s, Worth) \in Nat
       /\ Value(worn) \in Nat
  BY <1>1, <1>2, <1>6, PurseTyped
<1>18. /\ Purse(p)' = WorthOf(t, Worth) + Value(piece)
  BY <1>1, <1>14, <1>15, PurseTypedNext
<1>19. Carried' <= Carried /\ Carried' \in Int
  BY <1>3, <1>9, <1>13, <1>16, <1>17, <1>18, AmountsTyped
<1>20. Ground' = Ground /\ Dropped' = Dropped /\ Looted' = Looted /\ Stored' = Stored
  BY <1>8, SameAmounts
<1>21. EntitiesHold'
  BY <1>8 DEF OwnersInv, EntitiesHold
<1> QED  BY <1>15, <1>19, <1>20, <1>21, AmountsTyped DEF Kept, Thrifty

\* survival_apply_exhaustion
LEMMA HungerKeeps ==
  ASSUME OwnersInv, UNCHANGED falls, NEW p \in active, Hunger(p)
  PROVE  Kept
<1>1. /\ UNCHANGED <<inv, armor, active, solid, live, ready, falls, entities, rolled, kills>>
      /\ food[p] > 0 /\ food' = [food EXCEPT ![p] = food[p] - 1]
  BY DEF Hunger, worldVars
<1>2. food \in [Players -> 0 .. MaxFood] /\ p \in Players /\ MaxFood \in Nat
  BY OwnerTyped, ItemsAssumption
<1>3. food[p] - 1 \in 0 .. MaxFood
  BY <1>1, <1>2
<1>4. PlayersTyped'
  BY <1>1, <1>2, <1>3 DEF OwnersInv, PlayersTyped
<1>5. /\ Ground' = Ground /\ Dropped' = Dropped /\ Looted' = Looted /\ Stored' = Stored
      /\ Carried' = Carried
  BY <1>1, SameAmounts
<1>6. EntitiesHold'
  BY <1>1 DEF OwnersInv, EntitiesHold
<1> QED  BY <1>4, <1>5, <1>6, AmountsTyped DEF Kept, Thrifty

\* server_wear_armor
LEMMA WearKeeps ==
  ASSUME OwnersInv, UNCHANGED falls, NEW p \in active, WearArmor(p)
  PROVE  Kept
<1>1. /\ p \in Players /\ active \subseteq Players /\ PlayersTyped
      /\ armor[p] \in Pieces
  BY OwnerTyped DEF OwnersInv, ItemsInv, WorldTyped
<1>2. PICK worn \in Stacks : worn = armor[p] /\ worn.item \in Armour \cup {Air}
  BY <1>1 DEF Pieces
<1>3. PICK piece : piece = Worn(worn)
  OBVIOUS
<1>4. /\ armor' = [armor EXCEPT ![p] = piece]
      /\ UNCHANGED <<inv, active, food, solid, live, ready, falls, entities, rolled, kills>>
  BY <1>2, <1>3 DEF WearArmor, worldVars
<1>5. piece \in Stacks /\ Value(piece) <= Value(worn) /\ piece.item \in {worn.item, Air}
  BY <1>3, WornActs
<1>6. piece \in Pieces
  BY <1>2, <1>5 DEF Pieces
<1>7. /\ armor' \in [Players -> Pieces] /\ armor'[p] = piece
      /\ \A q \in Players \ {p} : inv'[q] = inv[q] /\ armor'[q] = armor[q]
  BY <1>1, <1>4, <1>6 DEF PlayersTyped
<1>8. PlayersTyped'
  BY <1>1, <1>4, <1>7 DEF PlayersTyped
<1>9. Carried' = Carried - Purse(p) + Purse(p)'
  BY <1>1, <1>4, <1>7, <1>8, CarriedChanged
<1>10. /\ Purse(p) = WorthOf(inv[p], Worth) + Value(worn)
       /\ WorthOf(inv[p], Worth) \in Nat /\ Value(worn) \in Nat
  BY <1>1, <1>2, PurseTyped
<1>11. Purse(p)' = WorthOf(inv[p], Worth) + Value(piece) /\ Value(piece) \in Nat
  BY <1>1, <1>4, <1>7, <1>8, PurseTypedNext
<1>12. Carried' <= Carried /\ Carried' \in Int
  BY <1>5, <1>9, <1>10, <1>11, AmountsTyped
<1>13. Ground' = Ground /\ Dropped' = Dropped /\ Looted' = Looted /\ Stored' = Stored
  BY <1>4, SameAmounts
<1>14. EntitiesHold'
  BY <1>4 DEF OwnersInv, EntitiesHold
<1> QED  BY <1>8, <1>12, <1>13, <1>14, AmountsTyped DEF Kept, Thrifty

\* award_mob_loot
LEMMA AwardKeeps ==
  ASSUME OwnersInv, UNCHANGED falls, NEW p \in active, AwardMobLoot(p)
  PROVE  Kept
<1>1. /\ inv[p] \in Row(SlotCount) /\ SlotCount \in Nat
      /\ food \in [Players -> 0 .. MaxFood]
  BY OwnerTyped
<1>2. PICK s \in Row(SlotCount) : s = inv[p]
  BY <1>1
<1>3. PICK t : t = Poured(s, MobDrops)
  OBVIOUS
<1>4. PICK w \in Nat : w = WorthOf(MobDrops, Worth)
  BY DropsTyped
<1>5. t \in Row(SlotCount) /\ WorthOf(t, Worth) <= WorthOf(s, Worth) + w
  BY <1>1, <1>3, <1>4, DropsTyped
<1>6. /\ inv' = [inv EXCEPT ![p] = t] /\ kills' = kills + 1
      /\ UNCHANGED <<active, armor, food, solid, live, ready, falls, entities, rolled>>
  BY <1>2, <1>3 DEF AwardMobLoot, worldVars
<1>7. /\ PlayersTyped' /\ WorthOf(t, Worth) \in Nat /\ WorthOf(s, Worth) \in Nat
      /\ Carried' = Carried - WorthOf(s, Worth) + WorthOf(t, Worth)
  BY <1>1, <1>2, <1>5, <1>6, InventoryReplaced DEF Replaced
<1>8. Dropped' = Dropped + w
  <2>1. PICK k \in Nat : k = kills
    BY AmountsTyped
  <2>2. Dropped = k * w /\ Dropped' = (k + 1) * w
    BY <1>4, <1>6, <2>1 DEF Dropped
  <2>3. (k + 1) * w = k * w + w
    OBVIOUS
  <2> QED  BY <2>2, <2>3
<1>9. Ground' = Ground /\ Looted' = Looted /\ Stored' = Stored
  BY <1>6, SameAmounts
<1>10. EntitiesHold'
  BY <1>6 DEF OwnersInv, EntitiesHold
<1> QED  BY <1>5, <1>7, <1>8, <1>9, <1>10, AmountsTyped DEF Kept, Thrifty

\* Who dies or joins has the starter kit, which is worth nothing, and no armour.
LEMMA RenewedActs ==
  ASSUME OwnersInv, UNCHANGED falls, NEW p \in Players, Renewed(p)
  PROVE  /\ PlayersTyped' /\ Purse(p)' = 0
         /\ \A q \in Players \ {p} : inv'[q] = inv[q] /\ armor'[q] = armor[q]
         /\ UNCHANGED <<solid, live, ready, falls, entities, rolled, kills>>
<1>1. PlayersTyped /\ MaxFood \in 0 .. MaxFood
  BY ItemsAssumption DEF OwnersInv
<1>2. PICK t \in Row(SlotCount) : t = KitInventory /\ WorthOf(t, Worth) = 0
  BY KitActs
<1>3. PICK piece \in Pieces : piece = Empty
  BY EmptyMade DEF Pieces
<1>4. Value(piece) = 0
  BY <1>3, EmptyMade DEF Value
<1>5. /\ inv' = [inv EXCEPT ![p] = t] /\ armor' = [armor EXCEPT ![p] = piece]
      /\ food' = [food EXCEPT ![p] = MaxFood]
      /\ UNCHANGED <<solid, live, ready, falls, entities, rolled, kills>>
  BY <1>2, <1>3 DEF Renewed, worldVars
<1>6. /\ inv' \in [Players -> Row(SlotCount)] /\ armor' \in [Players -> Pieces]
      /\ food' \in [Players -> 0 .. MaxFood] /\ inv'[p] = t /\ armor'[p] = piece
      /\ \A q \in Players \ {p} : inv'[q] = inv[q] /\ armor'[q] = armor[q]
  BY <1>1, <1>5 DEF PlayersTyped
<1>7. PlayersTyped'
  BY <1>6 DEF PlayersTyped
<1>8. Purse(p)' = WorthOf(inv'[p], Worth) + Value(armor'[p])
  BY <1>7, PurseTypedNext
<1>9. Purse(p)' = 0
  BY <1>2, <1>4, <1>6, <1>8
<1> QED  BY <1>5, <1>6, <1>7, <1>9

\* server_kill_player and alloc_client.
LEMMA ComeKeeps ==
  ASSUME OwnersInv, UNCHANGED falls, NEW p \in Players, Die(p) \/ Join(p)
  PROVE  Kept
<1>1. /\ PlayersTyped /\ active \subseteq Players /\ Renewed(p)
  BY DEF OwnersInv, ItemsInv, WorldTyped, Die, Join
<1>2. /\ PlayersTyped' /\ Purse(p)' = 0
      /\ \A q \in Players \ {p} : inv'[q] = inv[q] /\ armor'[q] = armor[q]
      /\ UNCHANGED <<solid, live, ready, falls, entities, rolled, kills>>
  BY <1>1, RenewedActs
<1>3. /\ Ground' = Ground /\ Dropped' = Dropped /\ Looted' = Looted /\ Stored' = Stored
      /\ EntitiesHold'
  BY <1>2, SameAmounts DEF OwnersInv, EntitiesHold
<1>4. Carried \in Nat /\ Carried' \in Int /\ Carried' <= Carried
  <2>1. CASE Die(p)
    <3>1. p \in active /\ UNCHANGED active
      BY <2>1 DEF Die
    <3>2. Carried' = Carried - Purse(p) + Purse(p)'
      BY <1>1, <1>2, <3>1, CarriedChanged
    <3>3. Purse(p) \in Nat
      BY <1>1, PurseTyped
    <3> QED  BY <1>2, <3>2, <3>3, AmountsTyped
  <2>2. CASE Join(p)
    <3>1. p \in Players \ active /\ active' = active \cup {p}
      BY <2>2 DEF Join
    <3>2. Carried' = Carried + Purse(p)'
      BY <1>1, <1>2, <3>1, CarriedJoined
    <3> QED  BY <1>2, <3>2, AmountsTyped
  <2> QED  BY <2>1, <2>2
<1> QED  BY <1>2, <1>3, <1>4, AmountsTyped DEF Kept, Thrifty

-----------------------------------------------------------------------------
(* Steps of the containers.                                                *)

\* The viewers of containers change, what they hold does not.
LEMMA SlotsSame ==
  ASSUME EntitiesHold, DOMAIN entities' = DOMAIN entities,
         \A k \in DOMAIN entities :
           \/ entities'[k] = entities[k]
           \/ \E x : entities'[k] = [entities[k] EXCEPT !.viewers = x]
  PROVE  EntitiesHold' /\ Stored' = Stored
<1>1. ASSUME NEW k \in DOMAIN entities
      PROVE  Holds(entities'[k]) /\ entities'[k].slots = entities[k].slots
  <2>1. PICK e : e = entities[k] /\ Holds(e)
    BY DEF EntitiesHold
  <2>2. ASSUME NEW x, entities'[k] = [e EXCEPT !.viewers = x]
        PROVE  Holds(entities'[k]) /\ entities'[k].slots = e.slots
    <3>1. PICK f : f = [e EXCEPT !.viewers = x]
      OBVIOUS
    <3>2. /\ DOMAIN f = Fields /\ f.kind = e.kind /\ f.slots = e.slots
          /\ f.burn = e.burn /\ f.cook = e.cook
      BY <2>1, <3>1 DEF Holds, Fields
    <3>3. Holds(f)
      BY <2>1, <3>2 DEF Holds
    <3> QED  BY <2>2, <3>1, <3>2, <3>3
  <2> QED  BY <2>1, <2>2
<1>2. EntitiesHold'
  BY <1>1 DEF EntitiesHold
<1>3. Stored' = Stored
  BY <1>1, StoredSame
<1> QED  BY <1>2, <1>3

\* One container's viewers change.
LEMMA ViewerSet ==
  ASSUME EntitiesHold, NEW k \in DOMAIN entities, NEW x,
         entities' = [entities EXCEPT ![k] = [entities[k] EXCEPT !.viewers = x]]
  PROVE  EntitiesHold' /\ Stored' = Stored
<1>1. PICK f : f = [entities[k] EXCEPT !.viewers = x]
  OBVIOUS
<1>2. entities' = [entities EXCEPT ![k] = f]
  BY <1>1
<1>3. /\ DOMAIN entities' = DOMAIN entities /\ entities'[k] = f
      /\ \A j \in DOMAIN entities \ {k} : entities'[j] = entities[j]
  BY <1>2
<1>4. \A j \in DOMAIN entities :
        \/ entities'[j] = entities[j]
        \/ \E y : entities'[j] = [entities[j] EXCEPT !.viewers = y]
  BY <1>1, <1>3
<1> QED  BY <1>3, <1>4, SlotsSame

\* disconnect_client: the inventory is gone with the player.
LEMMA LeaveKeeps ==
  ASSUME OwnersInv, UNCHANGED falls, NEW p \in Players, Leave(p)
  PROVE  Kept
<1>1. /\ p \in active /\ active' = active \ {p}
      /\ DOMAIN entities' = DOMAIN entities
      /\ \A k \in DOMAIN entities :
           entities'[k] = [entities[k] EXCEPT !.viewers = entities[k].viewers \ {p}]
      /\ UNCHANGED <<inv, armor, food, solid, live, ready, falls, rolled, kills>>
  BY DEF Leave, worldVars, counters
<1>2. EntitiesHold' /\ Stored' = Stored
  BY <1>1, SlotsSame DEF OwnersInv
<1>3. PlayersTyped' /\ PlayersTyped /\ active \subseteq Players
  BY <1>1 DEF OwnersInv, PlayersTyped, ItemsInv, WorldTyped
<1>4. Carried = Carried' + Purse(p) /\ Purse(p) \in Nat
  BY <1>1, <1>3, CarriedLeft
<1>5. Carried' \in Int
  <2>2. PICK f : f = [q \in active' |-> Purse(q)']
    OBVIOUS
  <2>3. IsFiniteSet(active') /\ active' \subseteq Players
    BY <1>1, <1>3, FS_Subset, ItemsAssumption
  <2>4. \A q \in active' : Purse(q)' \in Nat
    BY <1>3, <2>3, PurseTypedNext
  <2>5. f \in [active' -> Int]
    BY <2>2, <2>4
  <2>6. Total(f) \in Int
    BY <2>3, <2>5, TotalTyped
  <2> QED  BY <2>2, <2>6 DEF Carried
<1>6. Ground' = Ground /\ Dropped' = Dropped /\ Looted' = Looted
  BY <1>1, SameAmounts
<1> QED  BY <1>2, <1>3, <1>4, <1>5, <1>6, AmountsTyped DEF Kept, Thrifty

\* handle_container_close.
LEMMA CloseKeeps ==
  ASSUME OwnersInv, UNCHANGED falls, NEW p \in active, NEW c \in Cells, ContainerClose(p, c)
  PROVE  Kept
<1>1. PICK k : k = Find(c)
  OBVIOUS
<1>2. /\ k # 0
      /\ entities' = [entities EXCEPT ![k] =
                        [entities[k] EXCEPT !.viewers = entities[k].viewers \ {p}]]
      /\ UNCHANGED <<inv, armor, food, active, solid, live, ready, falls, rolled, kills>>
  BY <1>1 DEF ContainerClose, worldVars, counters
<1>3. k \in DOMAIN entities
  BY <1>1, <1>2, FindActs DEF OwnersInv, ItemsInv
<1>4. EntitiesHold' /\ Stored' = Stored
  BY <1>2, <1>3, ViewerSet DEF OwnersInv
<1>5. PlayersTyped'
  BY <1>2 DEF OwnersInv, PlayersTyped
<1>6. Ground' = Ground /\ Dropped' = Dropped /\ Looted' = Looted /\ Carried' = Carried
  BY <1>2, SameAmounts
<1> QED  BY <1>4, <1>5, <1>6, AmountsTyped DEF Kept, Thrifty

\* sbe_tick_furnaces
LEMMA FurnacesKeep ==
  ASSUME OwnersInv, UNCHANGED falls, FurnaceTick
  PROVE  Kept
<1>1. /\ DOMAIN entities' = DOMAIN entities
      /\ \A k \in DOMAIN entities : entities'[k] = Ticked(entities[k])
      /\ UNCHANGED <<inv, armor, food, active, solid, live, ready, falls, rolled, kills>>
  BY DEF FurnaceTick, worldVars, counters
<1>2. ASSUME NEW k \in DOMAIN entities
      PROVE  /\ Holds(entities'[k])
             /\ WorthOf(entities'[k].slots, Worth) <= WorthOf(entities[k].slots, Worth)
  <2>1. PICK e : e = entities[k] /\ Holds(e)
    BY DEF OwnersInv, EntitiesHold
  <2> QED  BY <1>1, <2>1, TickedActs
<1>3. EntitiesHold' /\ EntitiesHold /\ Listed
  BY <1>1, <1>2 DEF OwnersInv, ItemsInv, EntitiesHold
<1>4. Stored' <= Stored
  BY <1>1, <1>2, <1>3, StoredShrinks
<1>5. Stored' \in Int
  <2>1. PICK f : f = [k \in DOMAIN entities |-> WorthOf(entities'[k].slots, Worth)]
    OBVIOUS
  <2>2. f \in [DOMAIN entities -> Int] /\ IsFiniteSet(DOMAIN entities)
    BY <1>2, <1>3, <2>1, HoldsTyped, EntitiesFinite DEF Listed
  <2>3. Total(f) \in Int
    BY <2>2, TotalTyped
  <2> QED  BY <1>1, <2>1, <2>3 DEF Stored
<1>6. PlayersTyped'
  BY <1>1 DEF OwnersInv, PlayersTyped
<1>7. Ground' = Ground /\ Dropped' = Dropped /\ Looted' = Looted /\ Carried' = Carried
  BY <1>1, SameAmounts
<1> QED  BY <1>3, <1>4, <1>5, <1>6, <1>7, AmountsTyped DEF Kept, Thrifty

\* A dungeon chest is a container.
LEMMA LootChestHolds ==
  ASSUME NEW c \in Cells, c \in DOMAIN Loot
  PROVE  Holds(LootChest(c))
<1>1. \E x : LootChest(c) = [Entity(c, Chest) EXCEPT !.slots = x]
  BY DEF LootChest
<1>2. PICK x : LootChest(c) = [Entity(c, Chest) EXCEPT !.slots = x]
  BY <1>1
<1>3. /\ DOMAIN LootChest(c) = Fields /\ LootChest(c).kind = Chest
      /\ LootChest(c).burn = 0 /\ LootChest(c).cook = 0
  BY <1>2 DEF Entity, Fields
<1>4. LootChest(c).slots \in Row(ChestSlots)
  BY LootActs
<1>5. Capacity(Chest) = ChestSlots /\ 0 \in 0 .. CookTime - 1
  BY ItemsAssumption DEF Capacity
<1> QED  BY <1>3, <1>4, <1>5 DEF Holds

\* server_populate_dungeon_chunk: what a chest is filled with is on the books,
\* for it is filled the first time.
LEMMA FillKeeps ==
  ASSUME OwnersInv, NEW c \in Cells, Fills(c), RollHistory(c),
         NEW e, Holds(e), e.slots = LootChest(c).slots, OneMore(entities, e, entities'),
         UNCHANGED <<inv, armor, food, active, solid, live, ready, falls, kills, refused>>
  PROVE  Kept
<1>1. /\ c \in DOMAIN Loot /\ rolled' = rolled \cup {c} /\ rolled \subseteq DOMAIN Loot
      /\ Listed /\ EntitiesHold
  BY DEF Fills, RollHistory, OwnersInv, HistoriesTyped, ItemsInv
<1>2. refused = {} => c \notin rolled
  <2>1. ~Tracked(c) /\ BlockAt(c) = Chest
    BY FindActs DEF Fills, OwnersInv, ItemsInv
  <2>2. c \in ready /\ live[c] = Chest
    BY <2>1, Solids DEF BlockAt
  <2>3. c \notin refused => solid[c] = Chest
    BY <2>2, Solids DEF OwnersInv, ItemsInv, LiveIsKnown
  <2> QED  BY <2>1, <2>3 DEF OwnersInv, ItemsInv, LootTracked
<1>3. EntitiesHold' /\ Stored' = Stored + WorthOf(e.slots, Worth)
  BY <1>1, StoredAdded
<1>4. WorthOf(e.slots, Worth) = WorthOf(Loot[c], Worth) /\ WorthOf(Loot[c], Worth) \in Nat
  BY <1>1, LootActs
<1>5. refused = {} => Looted' = Looted + WorthOf(Loot[c], Worth)
  BY <1>1, <1>2, LootedAdded
<1>6. Ground' = Ground /\ Dropped' = Dropped /\ Carried' = Carried
  BY SameAmounts
<1>7. PlayersTyped'
  BY DEF OwnersInv, PlayersTyped
<1> QED  BY <1>3, <1>4, <1>5, <1>6, <1>7, AmountsTyped DEF Kept, Thrifty

\* server_send_chunk.
LEMMA StreamKeeps ==
  ASSUME OwnersInv, UNCHANGED falls, NEW c \in Cells, StreamColumn(c)
  PROVE  Kept
<1>1. /\ Fills(c) /\ RollHistory(c) /\ c \in DOMAIN Loot
      /\ UNCHANGED <<inv, armor, food, active, solid, live, ready, falls, kills, refused>>
  BY DEF StreamColumn, Fills, worldVars, histVars, counters
<1>2. OneMore(entities, LootChest(c), entities')
  BY ListAppended DEF StreamColumn, OwnersInv, ItemsInv, Listed
<1>3. Holds(LootChest(c))
  BY <1>1, LootChestHolds
<1>4. PICK e : e = LootChest(c)
  OBVIOUS
<1>5. Holds(e) /\ e.slots = LootChest(c).slots /\ OneMore(entities, e, entities')
  BY <1>2, <1>3, <1>4
<1> QED  BY <1>1, <1>5, FillKeeps

\* handle_container_open.
LEMMA OpenKeeps ==
  ASSUME OwnersInv, UNCHANGED falls, NEW p \in active, NEW c \in Cells, ContainerOpen(p, c)
  PROVE  Kept
<1>1. UNCHANGED <<inv, armor, food, active, solid, live, ready, falls, kills, refused>>
  BY DEF ContainerOpen, worldVars, histVars, counters
<1>2. CASE Fills(c)
  <2>1. PICK v : /\ Shaped(v) /\ v.kind = Chest /\ v.slots = LootChest(c).slots
                 /\ v.burn = LootChest(c).burn /\ v.cook = LootChest(c).cook
                 /\ OneMore(entities, v, entities')
    BY <1>2, OpenFills DEF OwnersInv
  <2>2. RollHistory(c)
    BY <1>2, OpenFills DEF OwnersInv
  <2>3. Holds(LootChest(c)) /\ LootChest(c).kind = Chest
    BY <1>2, LootChestHolds, NewLootChest DEF Fills
  <2>4. Holds(v)
    BY <2>1, <2>3 DEF Holds, Shaped
  <2> QED  BY <1>1, <1>2, <2>1, <2>2, <2>4, FillKeeps
<1>3. CASE ~Fills(c)
  <2>1. /\ rolled' = rolled
        /\ \E k \in DOMAIN entities : \E x :
             entities' = [entities EXCEPT ![k] = [entities[k] EXCEPT !.viewers = x]]
    BY <1>3 DEF ContainerOpen
  <2>2. PICK k \in DOMAIN entities : \E x :
             entities' = [entities EXCEPT ![k] = [entities[k] EXCEPT !.viewers = x]]
    BY <2>1
  <2>3. PICK x : entities' = [entities EXCEPT ![k] = [entities[k] EXCEPT !.viewers = x]]
    BY <2>2
  <2>4. EntitiesHold' /\ Stored' = Stored
    BY <2>3, ViewerSet DEF OwnersInv
  <2>5. /\ Ground' = Ground /\ Dropped' = Dropped /\ Looted' = Looted /\ Carried' = Carried
        /\ PlayersTyped'
    BY <1>1, <2>1, SameAmounts DEF OwnersInv, PlayersTyped
  <2> QED  BY <2>4, <2>5, AmountsTyped DEF Kept, Thrifty
<1> QED  BY <1>2, <1>3

-----------------------------------------------------------------------------
(* Steps that change the world.                                            *)

\* world_update: a column that goes and comes back changes nothing that is had.
LEMMA ColumnKeeps ==
  ASSUME OwnersInv, UNCHANGED falls, NEW column \in Columns,
         ColumnGone(column) \/ ColumnBack(column)
  PROVE  Kept
<1>1. UNCHANGED <<inv, armor, food, active, solid, falls, entities, rolled, kills>>
  BY DEF ColumnGone, ColumnBack, counters
<1>2. /\ Dropped' = Dropped /\ Looted' = Looted /\ Carried' = Carried
      /\ Stored' = Stored /\ PlayersTyped' /\ EntitiesHold'
  BY <1>1, SameAmounts DEF OwnersInv, PlayersTyped, EntitiesHold
<1>3. ASSUME NEW c \in Cells PROVE Stray(c)' <= Stray(c)
  <2>0. Stray(c) \in Nat /\ 0 <= 0
    BY StrayTyped
  <2>1. CASE c \notin ready'
    <3>1. Stray(c)' = 0
      BY <2>1 DEF Stray
    <3> QED  BY <2>0, <3>1
  <2>2. CASE c \in column /\ ColumnBack(column)
    <3>1. live'[c] = solid[c]
      BY <2>2 DEF ColumnBack
    <3>2. Stray(c)' = 0
      BY <1>1, <3>1 DEF Stray
    <3> QED  BY <2>0, <3>2
  <2>3. CASE c \in ready' /\ ~ (c \in column /\ ColumnBack(column))
    <3>1. c \in ready /\ live'[c] = live[c]
      BY <2>3 DEF ColumnGone, ColumnBack
    <3>2. Stray(c)' = Stray(c)
      BY <1>1, <2>3, <3>1 DEF Stray
    <3> QED  BY <2>0, <3>2
  <2> QED  BY <2>1, <2>2, <2>3
<1>4. Loose' <= Loose /\ Loose' \in Int
  BY <1>3, LooseShrinks
<1>5. Built' = Built /\ Sunk' = Sunk
  BY <1>1 DEF Built, Sunk
<1>6. Ground' <= Ground /\ Ground' \in Int
  BY <1>4, <1>5, AmountsTyped DEF Ground
<1> QED  BY <1>2, <1>6, AmountsTyped DEF Kept, Thrifty

\* gravity_tick: what it moves is there once more until the column is generated
\* again, and is on the books as a fall; water_tick makes nothing.
LEMMA PhysicsKeeps ==
  ASSUME OwnersInv, Physics
  PROVE  Kept
<1>0. ItemsInv /\ live \in [Cells -> Blocks \cup {Air}]
  BY DEF OwnersInv, ItemsInv, WorldTyped
<1>1. UNCHANGED <<inv, armor, food, active, solid, ready, entities, rolled, kills>>
  BY DEF Physics, counters
<1>2. /\ Dropped' = Dropped /\ Looted' = Looted /\ Carried' = Carried
      /\ Stored' = Stored /\ PlayersTyped' /\ EntitiesHold' /\ Built' = Built
  BY <1>1, SameAmounts DEF OwnersInv, PlayersTyped, EntitiesHold, Built
<1>3. SUFFICES Ground' <= Ground /\ Ground' \in Int
  BY <1>2, AmountsTyped DEF Kept, Thrifty
<1>4. \/ UNCHANGED <<live, falls>>
      \/ (\E c \in Cells : live' = [live EXCEPT ![c] = Air]) /\ UNCHANGED falls
      \/ (\E c \in Cells : live' = [live EXCEPT ![c] = Sand]) /\ falls' = falls + 1
  BY <1>0, PhysicsWrites
<1>5. CASE UNCHANGED <<live, falls>>
  BY <1>1, <1>5, SameAmounts, AmountsTyped
<1>6. ASSUME NEW c \in Cells, NEW b, live' = [live EXCEPT ![c] = b]
      PROVE  /\ Loose' = Loose - Stray(c) + Stray(c)' /\ live'[c] = b
             /\ Stray(c) \in Nat /\ Stray(c)' \in Nat
  <2>1. live'[c] = b /\ \A d \in Cells \ {c} : live'[d] = live[d]
    BY <1>0, <1>6
  <2>2. \A d \in Cells \ {c} : Stray(d)' = Stray(d)
    BY <1>1, <2>1 DEF Stray
  <2> QED  BY <2>1, <2>2, LooseChanged, StrayTyped, StrayTypedNext
<1>7. ASSUME NEW c \in Cells, live' = [live EXCEPT ![c] = Air], UNCHANGED falls
      PROVE  Ground' <= Ground /\ Ground' \in Int
  <2>1. Stray(c)' = 0
    BY <1>6, <1>7, Solids DEF Stray
  <2>2. Sunk' = Sunk
    BY <1>7 DEF Sunk
  <2>3. Loose' = Loose - Stray(c) + Stray(c)' /\ Stray(c) \in Nat
    BY <1>6, <1>7
  <2> QED  BY <1>2, <2>1, <2>2, <2>3, AmountsTyped DEF Ground
<1>8. ASSUME NEW c \in Cells, live' = [live EXCEPT ![c] = Sand], falls' = falls + 1
      PROVE  Ground' <= Ground /\ Ground' \in Int
  <2>1. PICK w \in Nat : w = Worth[Sand]
    BY StrayTyped
  <2>2. PICK k \in Nat : k = falls
    BY DEF OwnersInv, HostTyped
  <2>3. Stray(c)' <= w
    BY <2>1 DEF Stray
  <2>4. Sunk = k * w /\ Sunk' = (k + 1) * w
    BY <1>8, <2>1, <2>2 DEF Sunk
  <2>5. (k + 1) * w = k * w + w
    OBVIOUS
  <2>6. Loose' = Loose - Stray(c) + Stray(c)' /\ Stray(c) \in Nat /\ Stray(c)' \in Nat
    BY <1>6, <1>8
  <2>7. Sunk' = Sunk + w
    BY <2>4, <2>5
  <2> QED  BY <1>2, <2>3, <2>6, <2>7, AmountsTyped DEF Ground
<1> QED  BY <1>4, <1>5, <1>7, <1>8

\* server_persist_edit: what is saved changes at the cell, and where the live
\* world takes the edit no stray sand is left there.
LEMMA EditActs ==
  ASSUME OwnersInv, UNCHANGED falls, NEW c \in Cells, NEW b \in Blocks \cup {Air},
         PersistEdit(c, b)
  PROVE  /\ refused' = {} => /\ refused = {}
                             /\ Ground' = Ground - Price(solid[c]) - Stray(c) + Price(b)
         /\ Price(solid[c]) \in Nat /\ Price(b) \in Nat /\ Stray(c) \in Nat
<1>1. /\ solid \in [Cells -> Blocks \cup {Air}] /\ live \in [Cells -> Blocks \cup {Air}]
      /\ solid' = [solid EXCEPT ![c] = b] /\ refused \subseteq refused'
      /\ UNCHANGED ready
  BY DEF PersistEdit, OwnersInv, ItemsInv, WorldTyped
<1>2. /\ Built' = Built - Price(solid[c]) + Price(b)
      /\ Price(solid[c]) \in Nat /\ Price(b) \in Nat
  BY <1>1, BuiltChanged
<1>3. ASSUME refused' = {}
      PROVE  Ground' = Ground - Price(solid[c]) - Stray(c) + Price(b)
  <2>1. live' = IF c \in ready THEN [live EXCEPT ![c] = b] ELSE live
    BY <1>3 DEF PersistEdit
  <2>2. \A d \in Cells \ {c} : Stray(d)' = Stray(d)
    BY <1>1, <2>1 DEF Stray
  <2>3. Stray(c)' = 0
    BY <1>1, <2>1 DEF Stray
  <2>4. Loose' = Loose - Stray(c)
    BY <2>2, <2>3, LooseChanged, StrayTyped, AmountsTyped
  <2>5. Sunk' = Sunk
    BY DEF Sunk
  <2> QED  BY <1>2, <2>4, <2>5, AmountsTyped, StrayTyped DEF Ground
<1> QED  BY <1>1, <1>2, <1>3, StrayTyped

\* A new container is empty.
LEMMA NewEntityHolds ==
  ASSUME NEW c \in Cells, NEW kind \in {Chest, Furnace}
  PROVE  Holds(Entity(c, kind)) /\ WorthOf(Entity(c, kind).slots, Worth) = 0
<1>1. PICK n \in Nat : n = Capacity(kind)
  BY CapacityTyped
<1>2. PICK s : s = [i \in 1 .. n |-> Empty]
  OBVIOUS
<1>3. s \in Row(n) /\ \A i \in 1 .. n : s[i].count = 0
  BY <1>2, EmptyMade DEF Row
<1>4. WorthOf(s, Worth) = 0
  BY <1>3, NothingIsWorthNothing
<1>5. /\ DOMAIN Entity(c, kind) = Fields /\ Entity(c, kind).kind = kind
      /\ Entity(c, kind).burn = 0 /\ Entity(c, kind).cook = 0
      /\ Entity(c, kind).slots = s
  BY <1>1, <1>2 DEF Entity, Fields
<1>6. 0 \in 0 .. CookTime - 1
  BY ItemsAssumption
<1> QED  BY <1>1, <1>3, <1>4, <1>5, <1>6 DEF Holds

\* handle_block_place: the block leaves the inventory and stands in the world.
LEMMA PlaceKeeps ==
  ASSUME OwnersInv, UNCHANGED falls, NEW p \in active, NEW c \in Cells, NEW i \in Slots,
         PlaceBlock(p, c, i)
  PROVE  Kept
<1>1. PICK b \in Blocks : b = inv[p][i].item
  BY DEF PlaceBlock
<1>2. /\ inv' = [inv EXCEPT ![p] = Consumed(inv[p], i)] /\ PersistEdit(c, b)
      /\ entities' = IF IsContainer(b) THEN Created(c, b) ELSE entities
      /\ UNCHANGED <<armor, food, active, rolled, kills>>
  BY <1>1 DEF PlaceBlock, counters
<1>3. b \in Items /\ b # Air
  BY ItemsAssumption
<1>4. PICK t \in Row(SlotCount) :
           /\ Replaced(inv, p, t, inv')
           /\ WorthOf(t, Worth) = WorthOf(inv[p], Worth) - Worth[b]
           /\ Worth[b] \in Nat
  BY <1>1, <1>2, <1>3, ConsumedStep
<1>5. /\ PlayersTyped' /\ WorthOf(t, Worth) \in Nat /\ WorthOf(inv[p], Worth) \in Nat
      /\ Carried' = Carried - WorthOf(inv[p], Worth) + WorthOf(t, Worth)
  BY <1>2, <1>4, InventoryReplaced, OwnerTyped
<1>6. /\ refused' = {} => Ground' = Ground - Price(solid[c]) - Stray(c) + Price(b)
      /\ Price(solid[c]) \in Nat /\ Stray(c) \in Nat
  BY <1>2, EditActs
<1>7. Price(b) = Worth[b]
  BY <1>3 DEF Price
<1>8. EntitiesHold' /\ Stored' = Stored
  <2>1. CASE UNCHANGED entities
    BY <2>1, SameAmounts DEF OwnersInv, EntitiesHold
  <2>2. CASE entities' # entities
    <3>1. b \in {Chest, Furnace} /\ entities' = Append(entities, Entity(c, b))
      BY <1>2, <2>2 DEF IsContainer, Created
    <3>2. PICK e : e = Entity(c, b)
      OBVIOUS
    <3>3. Holds(e) /\ WorthOf(e.slots, Worth) = 0
      BY <3>1, <3>2, NewEntityHolds
    <3>4. OneMore(entities, e, entities')
      BY <3>1, <3>2, ListAppended DEF OwnersInv, ItemsInv, Listed
    <3>5. EntitiesHold' /\ Stored' = Stored + WorthOf(e.slots, Worth)
      BY <3>3, <3>4, StoredAdded DEF OwnersInv, ItemsInv
    <3> QED  BY <3>3, <3>5, AmountsTyped
  <2> QED  BY <2>1, <2>2
<1>9. Dropped' = Dropped /\ Looted' = Looted
  BY <1>2, SameAmounts
<1> QED  BY <1>4, <1>5, <1>6, <1>7, <1>8, <1>9, AmountsTyped DEF Kept, Thrifty

\* handle_block_break: the block leaves the world and what was in it is moved to
\* the inventory, as far as there is room.
LEMMA BreakKeeps ==
  ASSUME OwnersInv, UNCHANGED falls, NEW p \in active, NEW c \in Cells, BreakBlock(p, c)
  PROVE  Kept
<1>1. PICK b \in Blocks : b = BlockAt(c)
  BY DEF BreakBlock
<1>2. PICK k : k = IF IsContainer(b) THEN Find(c) ELSE 0
  OBVIOUS
<1>3. PICK s \in Row(SlotCount) : s = inv[p]
  BY OwnerTyped
<1>4. PICK taken : taken = Added(s, Stack(b, 1))
  OBVIOUS
<1>5. PICK poured : poured = IF k = 0 THEN taken ELSE Poured(taken, entities[k].slots)
  OBVIOUS
<1>6. /\ \E i \in Slots : inv' = [inv EXCEPT ![p] = Damaged(poured, i)]
      /\ entities' = IF k = 0 THEN entities ELSE WithoutEntity(k)
      /\ PersistEdit(c, Air)
      /\ UNCHANGED <<armor, food, active, rolled, kills>>
  BY <1>1, <1>2, <1>3, <1>4, <1>5 DEF BreakBlock, counters
<1>7. SlotCount \in Nat /\ Slots = 1 .. SlotCount /\ food \in [Players -> 0 .. MaxFood]
  BY OwnerTyped
<1>8. b \in Items /\ b # Air /\ Worth[b] \in Nat
  BY ItemsAssumption, WorthAssumption
<1>9. taken \in Row(SlotCount) /\ WorthOf(taken, Worth) <= WorthOf(s, Worth) + Worth[b]
  <2>1. PICK st : st = Stack(b, 1)
    OBVIOUS
  <2>2. st.count = 1 /\ st.item = b
    BY <2>1 DEF Stack
  <2>3. Deal(st) /\ Value(st) = Worth[b]
    BY <1>8, <2>2 DEF Deal, Value
  <2>4. /\ Added(s, st) \in Row(SlotCount)
        /\ WorthOf(Added(s, st), Worth) <= WorthOf(s, Worth) + Value(st)
    BY <1>7, <2>3, AddedActs
  <2> QED  BY <1>4, <2>1, <2>3, <2>4
<1>10. PICK w \in Nat :
         /\ k # 0 => k \in DOMAIN entities /\ w = WorthOf(entities[k].slots, Worth)
         /\ k = 0 => w = 0
  <2>1. CASE k = 0
    BY <2>1
  <2>2. CASE k # 0
    <3>1. k \in DOMAIN entities
      BY <1>2, <2>2, FindActs DEF OwnersInv, ItemsInv
    <3>2. WorthOf(entities[k].slots, Worth) \in Nat
      BY <3>1, HoldsTyped DEF OwnersInv, EntitiesHold
    <3> QED  BY <2>2, <3>1, <3>2
  <2> QED  BY <2>1, <2>2
<1>11. poured \in Row(SlotCount) /\ WorthOf(poured, Worth) <= WorthOf(taken, Worth) + w
  <2>0. WorthOf(taken, Worth) \in Nat
    BY <1>7, <1>9, WorthOfRow
  <2>1. CASE k = 0
    BY <1>5, <1>9, <1>10, <2>0, <2>1
  <2>2. CASE k # 0
    <3>1. PICK e : e = entities[k] /\ Holds(e)
      BY <1>10, <2>2 DEF OwnersInv, EntitiesHold
    <3>2. PICK m \in Nat : m = Capacity(e.kind)
      BY <3>1, CapacityTyped DEF Holds
    <3>3. e.slots \in Row(m)
      BY <3>1, <3>2 DEF Holds
    <3>4. /\ Poured(taken, e.slots) \in Row(SlotCount)
          /\ WorthOf(Poured(taken, e.slots), Worth)
               <= WorthOf(taken, Worth) + WorthOf(e.slots, Worth)
      BY <1>7, <1>9, <3>3, PouredStacks
    <3> QED  BY <1>5, <1>10, <2>2, <3>1, <3>4
  <2> QED  BY <2>1, <2>2
<1>12. PICK i \in Slots : inv' = [inv EXCEPT ![p] = Damaged(poured, i)]
  BY <1>6
<1>13. PICK t : t = Damaged(poured, i)
  OBVIOUS
<1>14. t \in Row(SlotCount) /\ WorthOf(t, Worth) <= WorthOf(poured, Worth)
  BY <1>7, <1>11, <1>13, DamagedActs
<1>15. /\ PlayersTyped' /\ WorthOf(t, Worth) \in Nat /\ WorthOf(s, Worth) \in Nat
       /\ Carried' = Carried - WorthOf(s, Worth) + WorthOf(t, Worth)
  BY <1>3, <1>6, <1>7, <1>12, <1>13, <1>14, InventoryReplaced DEF Replaced
<1>16. /\ refused' = {} =>
            /\ refused = {}
            /\ Ground' = Ground - Price(solid[c]) - Stray(c) + Price(Air)
       /\ Price(solid[c]) \in Nat /\ Stray(c) \in Nat
  BY <1>6, EditActs
<1>17. Price(Air) = 0
  BY DEF Price
<1>18. refused = {} => Price(solid[c]) + Stray(c) >= Worth[b]
  <2>1. c \in ready /\ live[c] = b
    BY <1>1, <1>8 DEF BlockAt
  <2>2. refused = {} => solid[c] = b \/ b = Sand
    BY <1>8, <2>1 DEF OwnersInv, ItemsInv, LiveIsKnown
  <2>3. solid[c] = b => Price(solid[c]) = Worth[b]
    BY <1>8 DEF Price
  <2>4. b = Sand /\ solid[c] # b => Stray(c) = Worth[b]
    BY <2>1 DEF Stray
  <2> QED  BY <1>8, <1>16, <2>2, <2>3, <2>4
<1>19. EntitiesHold' /\ Stored' = Stored - w
  <2>1. CASE k = 0
    <3>1. UNCHANGED entities
      BY <1>6, <2>1
    <3> QED  BY <1>10, <2>1, <3>1, SameAmounts, AmountsTyped DEF OwnersInv, EntitiesHold
  <2>2. CASE k # 0
    <3>1. k \in DOMAIN entities /\ entities' = WithoutEntity(k)
          /\ w = WorthOf(entities[k].slots, Worth)
      BY <1>6, <1>10, <2>2
    <3>2. /\ EntitiesHold' /\ Stored' = Stored - WorthOf(entities[k].slots, Worth)
      BY <3>1, StoredRemoved DEF OwnersInv, ItemsInv
    <3> QED  BY <3>1, <3>2
  <2> QED  BY <2>1, <2>2
<1>20. Dropped' = Dropped /\ Looted' = Looted
  BY <1>6, SameAmounts
<1>21. WorthOf(taken, Worth) \in Nat /\ WorthOf(poured, Worth) \in Nat
  BY <1>7, <1>9, <1>11, WorthOfRow
<1>22. WorthOf(t, Worth) <= WorthOf(s, Worth) + Worth[b] + w
  BY <1>8, <1>9, <1>11, <1>14, <1>15, <1>21
<1>23. Thrifty
  BY <1>8, <1>15, <1>16, <1>17, <1>18, <1>19, <1>20, <1>22, AmountsTyped DEF Thrifty
<1> QED  BY <1>15, <1>19, <1>23 DEF Kept

-----------------------------------------------------------------------------
(* Moving items between an inventory and a container.                      *)

\* One container changes.
LEMMA EntityReplaced ==
  ASSUME OwnersInv, NEW k \in DOMAIN entities, NEW v, Holds(v),
         Replaced(entities, k, v, entities')
  PROVE  /\ EntitiesHold'
         /\ Stored' = Stored - WorthOf(entities[k].slots, Worth) + WorthOf(v.slots, Worth)
<1>1. /\ DOMAIN entities' = DOMAIN entities /\ entities'[k] = v
      /\ \A j \in DOMAIN entities \ {k} : entities'[j] = entities[j]
  BY DEF Replaced
<1>2. EntitiesHold /\ Listed
  BY DEF OwnersInv, ItemsInv
<1>3. EntitiesHold'
  BY <1>1, <1>2 DEF EntitiesHold
<1>4. Stored' = Stored - WorthOf(entities[k].slots, Worth)
                + WorthOf(entities'[k].slots, Worth)
  BY <1>1, <1>2, <1>3, StoredChanged
<1> QED  BY <1>1, <1>3, <1>4

\* What is carried and stored together stays the same.
Moved == /\ PlayersTyped' /\ EntitiesHold'
         /\ Carried' \in Int /\ Stored' \in Int
         /\ Carried' + Stored' <= Carried + Stored

\* sbe_find finds a container.
LEMMA FoundEntity ==
  ASSUME OwnersInv, NEW c, Find(c) # 0
  PROVE  Find(c) \in DOMAIN entities /\ Holds(entities[Find(c)])
<1>1. Find(c) \in DOMAIN entities
  BY FindActs DEF OwnersInv, ItemsInv
<1> QED  BY <1>1 DEF OwnersInv, EntitiesHold

\* container_transfer_to_inventory
LEMMA TakeOutMoves ==
  ASSUME OwnersInv, NEW p \in active, NEW c \in Cells, NEW i \in 1 .. ChestSlots,
         NEW n \in 1 .. StackLimit, TakeOut(p, c, i, n)
  PROVE  Moved /\ Carried' + Stored' = Carried + Stored
<1>1. PICK k : k = Find(c)
  OBVIOUS
<1>2. k # 0 /\ k \in DOMAIN entities
  BY <1>1, FoundEntity DEF TakeOut
<1>3. PICK e : e = entities[k] /\ Holds(e)
  BY <1>1, <1>2, FoundEntity
<1>4. PICK m \in Nat : m = Capacity(e.kind)
  BY <1>3, CapacityTyped DEF Holds
<1>5. PICK t \in Row(m) : t = e.slots
  BY <1>3, <1>4 DEF Holds
<1>6. PICK s \in Row(SlotCount) : s = inv[p]
  BY OwnerTyped
<1>7. SlotCount \in Nat /\ food \in [Players -> 0 .. MaxFood] /\ n \in Nat
  BY OwnerTyped
<1>8. PICK want : want = Bounded(n, t[i].count)
  OBVIOUS
<1>9. PICK moved : moved = want - Leftover(s, t[i].item, want)
  OBVIOUS
<1>10. PICK u : u = Added(s, [t[i] EXCEPT !.count = want])
  OBVIOUS
<1>11. PICK r : r = [t EXCEPT ![i] = Less(t[i], moved)]
  OBVIOUS
<1>12. PICK v : v = [e EXCEPT !.slots = r]
  OBVIOUS
<1>13. /\ i \in 1 .. m /\ moved > 0
       /\ Replaced(inv, p, u, inv')
       /\ Replaced(entities, k, v, entities')
       /\ UNCHANGED <<active, armor, food>>
  <2>1. i \in DOMAIN t /\ moved > 0
    BY <1>1, <1>3, <1>5, <1>6, <1>8, <1>9 DEF TakeOut
  <2>2. inv' = [inv EXCEPT ![p] = u]
    BY <1>1, <1>3, <1>5, <1>6, <1>8, <1>10 DEF TakeOut
  <2>3. entities' = [entities EXCEPT ![k] =
                      [entities[k] EXCEPT !.slots =
                        [entities[k].slots EXCEPT ![i] =
                          Less(entities[k].slots[i],
                               Bounded(n, entities[k].slots[i].count)
                                 - Leftover(inv[p], entities[k].slots[i].item,
                                            Bounded(n, entities[k].slots[i].count)))]]]
    BY <1>1 DEF TakeOut
  <2>4. entities' = [entities EXCEPT ![k] = v]
    BY <1>3, <1>5, <1>6, <1>8, <1>9, <1>11, <1>12, <2>3
  <2>5. UNCHANGED <<active, armor, food>>
    BY DEF TakeOut
  <2>6. DOMAIN t = 1 .. m
    BY DEF Row
  <2> QED  BY <2>1, <2>2, <2>4, <2>5, <2>6 DEF Replaced
<1>14. /\ Added(s, Portion(t[i], want)) \in Row(SlotCount)
       /\ Drawn(t, i, moved) \in Row(m)
       /\ \E w \in Nat :
            /\ WorthOf(Added(s, Portion(t[i], want)), Worth)
                 = WorthOf(s, Worth) + w
            /\ WorthOf(Drawn(t, i, moved), Worth)
                 = WorthOf(t, Worth) - w
  BY <1>7, <1>8, <1>9, <1>13, TakenActs
<1>15. /\ u \in Row(SlotCount) /\ r \in Row(m)
       /\ \E w \in Nat : /\ WorthOf(u, Worth) = WorthOf(s, Worth) + w
                         /\ WorthOf(r, Worth) = WorthOf(t, Worth) - w
  BY <1>10, <1>11, <1>14 DEF Portion, Drawn
<1>16. PICK w \in Nat : /\ WorthOf(u, Worth) = WorthOf(s, Worth) + w
                        /\ WorthOf(r, Worth) = WorthOf(t, Worth) - w
  BY <1>15
<1>17. Holds(v) /\ v.slots = r
  <2>1. /\ DOMAIN v = Fields /\ v.kind = e.kind /\ v.slots = r
        /\ v.burn = e.burn /\ v.cook = e.cook
    BY <1>3, <1>12 DEF Holds, Fields
  <2> QED  BY <1>3, <1>4, <1>15, <2>1 DEF Holds
<1>18. /\ EntitiesHold'
       /\ Stored' = Stored - WorthOf(t, Worth) + WorthOf(r, Worth)
  BY <1>2, <1>3, <1>5, <1>13, <1>17, EntityReplaced
<1>19. /\ PlayersTyped' /\ WorthOf(u, Worth) \in Nat /\ WorthOf(s, Worth) \in Nat
       /\ Carried' = Carried - WorthOf(s, Worth) + WorthOf(u, Worth)
  BY <1>6, <1>7, <1>13, <1>15, InventoryReplaced
<1>20. WorthOf(t, Worth) \in Nat
  BY WorthOfRow
<1> QED  BY <1>16, <1>18, <1>19, <1>20, AmountsTyped DEF Moved

\* container_transfer_from_inventory: what a furnace has no slot for is lost.
LEMMA PutInMoves ==
  ASSUME OwnersInv, NEW p \in active, NEW c \in Cells, NEW i \in Slots,
         NEW n \in 1 .. StackLimit, PutIn(p, c, i, n)
  PROVE  Moved /\ (\/ Carried' + Stored' = Carried + Stored
                   \/ Overflows(p, c, i) \/ entities' = entities)
<1>1. PICK k : k = Find(c)
  OBVIOUS
<1>2. k # 0 /\ k \in DOMAIN entities
  BY <1>1, FoundEntity DEF PutIn
<1>3. PICK e : e = entities[k] /\ Holds(e)
  BY <1>1, <1>2, FoundEntity
<1>4. PICK m \in Nat : m = ChestSlots
  BY ItemsAssumption
<1>5. PICK t \in Row(m) : t = AsChest(e) /\ WorthOf(t, Worth) = WorthOf(e.slots, Worth)
  BY <1>3, <1>4, AsChestActs
<1>6. PICK s \in Row(SlotCount) : s = inv[p]
  BY OwnerTyped
<1>7. /\ SlotCount \in Nat /\ food \in [Players -> 0 .. MaxFood] /\ n \in Nat
      /\ i \in 1 .. SlotCount
  BY OwnerTyped
<1>8. PICK want : want = Bounded(n, s[i].count)
  OBVIOUS
<1>9. PICK moved : moved = want - Leftover(t, s[i].item, want)
  OBVIOUS
<1>10. PICK u : u = [s EXCEPT ![i] = Less(s[i], moved)]
  OBVIOUS
<1>11. PICK r : r = Filled(t, s[i].item, want, 0)
  OBVIOUS
<1>12. PICK v : v = WithSlots(e, r)
  OBVIOUS
<1>13. /\ moved > 0 /\ Replaced(inv, p, u, inv') /\ Replaced(entities, k, v, entities')
       /\ UNCHANGED <<active, armor, food>>
  <2>1. moved > 0
    BY <1>1, <1>3, <1>5, <1>6, <1>8, <1>9 DEF PutIn
  <2>2. inv' = [inv EXCEPT ![p] =
                 [inv[p] EXCEPT ![i] =
                   Less(inv[p][i],
                        Bounded(n, inv[p][i].count)
                          - Leftover(AsChest(entities[k]), inv[p][i].item,
                                     Bounded(n, inv[p][i].count)))]]
    BY <1>1 DEF PutIn
  <2>3. inv' = [inv EXCEPT ![p] = u]
    BY <1>3, <1>5, <1>6, <1>8, <1>9, <1>10, <2>2
  <2>4. entities' = [entities EXCEPT ![k] =
                      WithSlots(entities[k],
                                Filled(AsChest(entities[k]), inv[p][i].item,
                                       Bounded(n, inv[p][i].count), 0))]
    BY <1>1 DEF PutIn
  <2>5. entities' = [entities EXCEPT ![k] = v]
    BY <1>3, <1>5, <1>6, <1>8, <1>11, <1>12, <2>4
  <2>6. UNCHANGED <<active, armor, food>>
    BY DEF PutIn
  <2> QED  BY <2>1, <2>3, <2>5, <2>6 DEF Replaced
<1>14. /\ Drawn(s, i, moved) \in Row(SlotCount)
       /\ Filled(t, s[i].item, want, 0) \in Row(m)
       /\ \E w \in Nat :
            /\ WorthOf(Drawn(s, i, moved), Worth)
                 = WorthOf(s, Worth) - w
            /\ WorthOf(Filled(t, s[i].item, want, 0), Worth)
                 = WorthOf(t, Worth) + w
  BY <1>7, <1>8, <1>9, <1>13, GivenActs
<1>15. /\ u \in Row(SlotCount) /\ r \in Row(m)
       /\ \E w \in Nat : /\ WorthOf(u, Worth) = WorthOf(s, Worth) - w
                         /\ WorthOf(r, Worth) = WorthOf(t, Worth) + w
  BY <1>10, <1>11, <1>14 DEF Drawn
<1>16. PICK w \in Nat : /\ WorthOf(u, Worth) = WorthOf(s, Worth) - w
                        /\ WorthOf(r, Worth) = WorthOf(t, Worth) + w
  BY <1>15
<1>17. r \in Row(ChestSlots)
  BY <1>4, <1>15
<1>18. /\ Holds(v) /\ WorthOf(v.slots, Worth) <= WorthOf(r, Worth)
       /\ (e.kind = Chest \/ \A j \in 4 .. ChestSlots : r[j].count = 0)
            => WorthOf(v.slots, Worth) = WorthOf(r, Worth)
  BY <1>3, <1>12, <1>17, WithSlotsActs
<1>19. /\ EntitiesHold'
       /\ Stored' = Stored - WorthOf(t, Worth) + WorthOf(v.slots, Worth)
  BY <1>2, <1>3, <1>5, <1>13, <1>18, EntityReplaced
<1>20. /\ PlayersTyped' /\ WorthOf(u, Worth) \in Nat /\ WorthOf(s, Worth) \in Nat
       /\ Carried' = Carried - WorthOf(s, Worth) + WorthOf(u, Worth)
  BY <1>6, <1>7, <1>13, <1>15, InventoryReplaced
<1>21. WorthOf(t, Worth) \in Nat /\ WorthOf(v.slots, Worth) \in Nat
  BY <1>18, WorthOfRow, HoldsTyped
<1>22. Moved
  BY <1>16, <1>18, <1>19, <1>20, <1>21, AmountsTyped DEF Moved
<1>23. ASSUME ~Overflows(p, c, i), entities' # entities
       PROVE  WorthOf(v.slots, Worth) = WorthOf(r, Worth)
  <2>1. CASE e.kind = Chest
    BY <1>18, <2>1
  <2>2. CASE e.kind # Chest
    <3>1. e.kind = Furnace
      BY <1>3, <2>2 DEF Holds
    <3>2. PICK st \in Stacks : st = s[i]
      BY <1>7 DEF Row
    <3>3. /\ st.item \in Items /\ st.count \in Nat /\ want \in 0 .. st.count
          /\ moved \in Nat
      BY <1>7, <1>8, <1>9, <1>13, <3>2, MovedActs
    <3>4. s[i].count - u[i].count = moved
      <4>1. u[i] = Less(st, moved)
        BY <1>7, <1>10, <3>2 DEF Row
      <4>2. DOMAIN st = {"item", "count", "dur"}
        BY DEF Stacks
      <4>3. Less(st, moved).count = st.count - moved
        BY <3>3, <4>2, EmptyMade DEF Less
      <4> QED  BY <3>2, <3>3, <4>1, <4>3
    <3>5. ~(Leftover(e.slots, st.item, moved) > 0)
      <4>1. inv'[p] = u
        BY <1>13, OwnerTyped DEF Replaced, OwnersInv, PlayersTyped
      <4>2. entities'[k] # entities[k]
        <5>1. entities' = [entities EXCEPT ![k] = v]
          BY <1>13 DEF Replaced
        <5>2. entities = [j \in DOMAIN entities |-> entities[j]]
          BY ListDomain DEF OwnersInv, ItemsInv, Listed
        <5> QED  BY <1>2, <1>23, <5>1, <5>2
      <4> QED  BY <1>1, <1>2, <1>3, <1>6, <1>13, <1>23, <3>1, <3>2, <3>4, <4>1, <4>2
                  DEF Overflows
    <3>6. PICK q \in Nat : q = 3
      OBVIOUS
    <3>7. e.slots \in Row(q)
      BY <1>3, <3>1, <3>6, ThreeSlots
    <3>8. 0 \in 0 .. Durability
      BY ItemsAssumption
    <3>9. Leftover(e.slots, st.item, moved) \in 0 .. moved
      BY <3>3, <3>7, <3>8, FilledActs
    <3>10. Leftover(e.slots, st.item, moved) = 0
      BY <3>3, <3>5, <3>9
    <3>11. \A j \in 4 .. ChestSlots :
             Filled(AsChest(e), st.item, want, 0)[j].count = 0
      BY <1>3, <1>5, <1>9, <3>1, <3>2, <3>3, <3>10, NothingBeyond
    <3> QED  BY <1>5, <1>11, <1>18, <3>2, <3>11
  <2> QED  BY <2>1, <2>2
<1>24. ASSUME ~Overflows(p, c, i), entities' # entities
       PROVE  Carried' + Stored' = Carried + Stored
  BY <1>16, <1>19, <1>20, <1>21, <1>23, <1>24, AmountsTyped
<1> QED  BY <1>22, <1>24

\* handle_container_action.
LEMMA TransferKeeps ==
  ASSUME OwnersInv, UNCHANGED falls, NEW p \in active, Transfer(p)
  PROVE  Kept
<1>1. Moved
  BY TakeOutMoves, PutInMoves DEF Transfer
<1>2. UNCHANGED <<solid, live, ready, falls, rolled, kills>>
  BY DEF Transfer, TakeOut, PutIn, worldVars, counters
<1>3. Ground' = Ground /\ Dropped' = Dropped /\ Looted' = Looted
  BY <1>2, SameAmounts
<1> QED  BY <1>1, <1>3, AmountsTyped DEF Moved, Kept, Thrifty

-----------------------------------------------------------------------------
(* The books.                                                              *)

\* What is had beyond what mobs dropped and chests were given stood in the world
\* at the start.
Balanced == refused = {} => Carried + Stored + Ground - Dropped - Looted <= Begun

\* At the start the players have their kits, and nothing is stored.
LEMMA OwnersInit == Init => OwnersInv /\ Balanced
<1> SUFFICES ASSUME Init PROVE OwnersInv /\ Balanced
  OBVIOUS
<1>1. ItemsInv
  BY ItemsInit
<1>2. /\ start \in Starts /\ active \subseteq Players /\ IsFiniteSet(active)
      /\ start.world \in [Cells -> Blocks \cup {Air}]
  <2>1. start \in Starts /\ active = start.active
    BY DEF Init
  <2>2. active \subseteq Players /\ start.world \in [Cells -> Blocks \cup {Air}]
    BY <2>1, ItemsAssumption
  <2> QED  BY <2>1, <2>2, FS_Subset, ItemsAssumption
<1>3. HistoriesTyped /\ HostTyped
  BY <1>2, StartTyped DEF Init, HistoriesTyped, CountersTyped, HostTyped
<1>4. PICK t \in Row(SlotCount) : t = KitInventory /\ WorthOf(t, Worth) = 0
  BY KitActs
<1>5. PICK piece \in Pieces : piece = Empty
  BY EmptyMade DEF Pieces
<1>6. Value(piece) = 0
  BY <1>5, EmptyMade DEF Value
<1>7. /\ inv = [p \in Players |-> t] /\ armor = [p \in Players |-> piece]
      /\ food = [p \in Players |-> MaxFood] /\ MaxFood \in 0 .. MaxFood
  BY <1>4, <1>5, ItemsAssumption DEF Init
<1>8. PlayersTyped
  BY <1>7 DEF PlayersTyped
<1>9. DOMAIN entities = {}
  BY DEF Init
<1>10. EntitiesHold
  BY <1>9 DEF EntitiesHold
<1>11. Carried = 0
  <2>1. PICK f : f = [p \in active |-> Purse(p)]
    OBVIOUS
  <2>2. \A p \in active : Purse(p) = 0
    BY <1>2, <1>4, <1>6, <1>7, <1>8, PurseTyped
  <2>3. f \in [active -> Int] /\ \A p \in active : f[p] = 0
    BY <2>1, <2>2
  <2>4. Total(f) = 0
    BY <1>2, <2>3, TotalNothing
  <2> QED  BY <2>1, <2>4 DEF Carried
<1>12. Stored = 0
  <2>1. PICK D : D = DOMAIN entities /\ D = {}
    BY <1>9
  <2>2. PICK f : f = [k \in D |-> WorthOf(entities[k].slots, Worth)]
    OBVIOUS
  <2>3. f \in [D -> Int] /\ IsFiniteSet(D)
    BY <2>1, <2>2, FS_EmptySet
  <2>4. Total(f) = 0
    BY <2>1, <2>3, TotalTyped
  <2> QED  BY <2>1, <2>2, <2>4 DEF Stored
<1>13. Looted = 0
  <2>1. PICK D : D = rolled /\ D = {}
    BY DEF Init
  <2>2. PICK f : f = [c \in D |-> WorthOf(Loot[c], Worth)]
    OBVIOUS
  <2>3. f \in [D -> Int] /\ IsFiniteSet(D)
    BY <2>1, <2>2, FS_EmptySet
  <2>4. Total(f) = 0
    BY <2>1, <2>3, TotalTyped
  <2> QED  BY <2>1, <2>2, <2>4 DEF Looted
<1>14. Ground = Begun /\ Begun \in Nat
  <2>1. solid = start.world /\ live = solid /\ falls = 0
    BY DEF Init
  <2>2. Built = Begun /\ Begun \in Nat
    BY <1>2, <2>1, BegunTyped DEF Built, Begun
  <2>3. Loose = 0
    <3>1. PICK f : f = [c \in Cells |-> Stray(c)]
      OBVIOUS
    <3>2. f \in [Cells -> Int] /\ (\A c \in Cells : f[c] = 0) /\ IsFiniteSet(Cells)
      BY <2>1, <3>1, ItemsAssumption DEF Stray
    <3>3. Total(f) = 0
      BY <3>2, TotalNothing
    <3> QED  BY <3>1, <3>3 DEF Loose
  <2>4. Sunk = 0
    <3>1. PICK w \in Int : w = Worth[Sand]
      BY StrayTyped
    <3> QED  BY <2>1, <3>1, ZeroTimes DEF Sunk
  <2> QED  BY <2>2, <2>3, <2>4 DEF Ground
<1>15. Dropped = 0
  <2>1. PICK w \in Int : w = WorthOf(MobDrops, Worth)
    BY DropsTyped
  <2>2. kills = 0
    BY DEF Init
  <2> QED  BY <2>1, <2>2, ZeroTimes DEF Dropped
<1>16. Balanced
  BY <1>11, <1>12, <1>13, <1>14, <1>15 DEF Balanced
<1> QED  BY <1>1, <1>3, <1>8, <1>10, <1>16 DEF OwnersInv

\* Every action keeps the invariant and is thrifty.
LEMMA OwnersStep ==
  ASSUME OwnersInv, [Next]_vars
  PROVE  OwnersInv' /\ Thrifty /\ refused \subseteq refused'
<1>1. ItemsInv' /\ HistoriesTyped' /\ HostTyped' /\ refused \subseteq refused'
  BY ItemsStep, HistoriesStep, HostStep DEF OwnersInv
<1>2. Kept
  <2>1. CASE UNCHANGED vars
    <3>1. UNCHANGED <<inv, armor, food, active, solid, live, ready, falls, entities, rolled, kills>>
      BY <2>1 DEF vars, worldVars, counters, hostVars
    <3>2. /\ Ground' = Ground /\ Dropped' = Dropped /\ Looted' = Looted
          /\ Carried' = Carried /\ Stored' = Stored /\ PlayersTyped' /\ EntitiesHold'
      BY <3>1, SameAmounts DEF OwnersInv, PlayersTyped, EntitiesHold
    <3> QED  BY <3>2, AmountsTyped DEF Kept, Thrifty
  <2>2. ASSUME UNCHANGED falls, NEW p \in active, Request(p) PROVE Kept
    BY <2>2, BreakKeeps, PlaceKeeps, OpenKeeps, CloseKeeps, EatKeeps, EquipKeeps,
       TransferKeeps, CraftKeeps DEF Request
  <2>3. ASSUME UNCHANGED falls, NEW p \in active,
               AwardMobLoot(p) \/ Hunger(p) \/ WearArmor(p)
        PROVE  Kept
    BY <2>3, AwardKeeps, HungerKeeps, WearKeeps
  <2>4. ASSUME UNCHANGED falls, NEW p \in Players, Die(p) \/ Join(p) \/ Leave(p)
        PROVE  Kept
    BY <2>4, ComeKeeps, LeaveKeeps
  <2>5. ASSUME UNCHANGED falls, NEW column \in Columns,
               ColumnGone(column) \/ ColumnBack(column)
        PROVE  Kept
    BY <2>5, ColumnKeeps
  <2>6. ASSUME UNCHANGED falls, NEW c \in Cells, StreamColumn(c) PROVE Kept
    BY <2>6, StreamKeeps
  <2>7. ASSUME UNCHANGED falls, FurnaceTick PROVE Kept
    BY <2>7, FurnacesKeep
  <2>8. ASSUME Step, UNCHANGED falls PROVE Kept
    BY <2>2, <2>3, <2>4, <2>5, <2>6, <2>7, <2>8 DEF Step
  <2> QED  BY <2>1, <2>8, PhysicsKeeps DEF Next, hostVars
<1> QED  BY <1>1, <1>2 DEF Kept, OwnersInv

\* The amounts are numbers after a step, too.
LEMMA AmountsTypedNext ==
  OwnersInv' => /\ Carried' \in Nat /\ Stored' \in Nat /\ Ground' \in Int
                /\ Looted' \in Nat /\ Dropped' \in Nat
<1> DEFINE Amounts == /\ Carried \in Nat /\ Stored \in Nat /\ Ground \in Int
                      /\ Looted \in Nat /\ Dropped \in Nat
<1>1. OwnersInv => Amounts
  BY AmountsTyped
<1>2. OwnersInv' => Amounts'
  BY <1>1, PTL
<1> QED  BY <1>2

\* The books stay balanced.
LEMMA BooksStep ==
  ASSUME OwnersInv, Balanced, [Next]_vars
  PROVE  OwnersInv' /\ Balanced'
<1>1. OwnersInv' /\ Thrifty /\ refused \subseteq refused'
  BY OwnersStep
<1>2. Begun' = Begun
  BY DEF Next, vars, Begun
<1>3. Begun \in Nat
  BY BegunTyped DEF OwnersInv, HistoriesTyped
<1>4. PICK a \in Int : a = Carried + Stored + Ground - Dropped - Looted
  BY AmountsTyped
<1>5. /\ Carried' \in Nat /\ Stored' \in Nat /\ Ground' \in Int
      /\ Looted' \in Nat /\ Dropped' \in Nat
  BY <1>1, AmountsTypedNext
<1>6. ASSUME refused' = {}
      PROVE  Carried' + Stored' + Ground' - Dropped' - Looted' <= Begun
  <2>1. refused = {}
    BY <1>1, <1>6
  <2>2. Carried' + Stored' + Ground' - Dropped' - Looted' <= a
    BY <1>1, <1>4, <1>6 DEF Thrifty
  <2>3. a <= Begun
    BY <1>4, <2>1 DEF Balanced
  <2>4. ASSUME NEW c \in Nat, NEW s \in Nat, NEW u \in Int, NEW d \in Nat, NEW l \in Nat,
               c + s + u - d - l <= a
        PROVE  c + s + u - d - l <= Begun
    BY <1>3, <2>3, <2>4
  <2> QED  BY <1>5, <2>2, <2>4
<1> QED  BY <1>1, <1>2, <1>6 DEF Balanced

\* Inventories, containers and the books, after every request and every part of
\* a tick: the inductive invariant of the properties below.
LEMMA OwnersInvariant == Spec => [](OwnersInv /\ Balanced)
<1>1. Init => OwnersInv /\ Balanced
  BY OwnersInit
<1>2. OwnersInv /\ Balanced /\ [Next]_vars => (OwnersInv /\ Balanced)'
  BY BooksStep
<1> QED  BY <1>1, <1>2, PTL DEF Spec

-----------------------------------------------------------------------------
(* The theorems.                                                           *)

\* Inventories, containers, their viewers and the blocks they stand on fit
\* together after every request and tick of server_tick: the inductive invariant
\* of which the properties below are parts.
LEMMA ItemsInvariant == Spec => []ItemsInv
<1>1. Init => ItemsInv
  BY ItemsInit
<1>2. ItemsInv /\ [Next]_vars => ItemsInv'
  BY ItemsStep
<1> QED  BY <1>1, <1>2, PTL DEF Spec

\* sbe_create, sbe_destroy_return and server_populate_dungeon_chunk keep one
\* entity for a position, and where one is tracked its block stands, unless the
\* live world refused an edit there, a block was placed while the column was away,
\* or a host's gravity_tick or water_tick wrote over the block.
THEOREM EntitiesAlwaysStand == Spec => []EntitiesStand
<1>1. ItemsInv => EntitiesStand
  BY DEF ItemsInv, OneEach, Standing, EntitiesStand
<1> QED  BY <1>1, ItemsInvariant, PTL

\* server_populate_dungeon_chunk and handle_container_open fill a dungeon chest
\* once in the life of a server, unless the live world refused an edit of it.
THEOREM LootOnce == Spec => []LootIsGivenOnce
<1>1. ItemsInv => LootIsGivenOnce
  BY DEF ItemsInv
<1> QED  BY <1>1, ItemsInvariant, PTL

\* sbe_clear_viewer_all: who leaves no longer looks into any container, so that
\* the next client in the slot is sent no contents.
THEOREM ViewersConnected == Spec => []ViewersAreHere
<1>1. ItemsInv => ViewersAreHere
  BY DEF ItemsInv
<1> QED  BY <1>1, ItemsInvariant, PTL

\* Every slot of every inventory, chest and furnace holds what a slot may hold
\* after inventory_add_item, inventory_consume, container_transfer_to_inventory,
\* furnace_tick and all the handlers that call them.
THEOREM ItemsTypeCorrect == Spec => []TypeOK
<1>1. ASSUME OwnersInv PROVE TypeOK
  <2>1. /\ ItemsInv /\ HistoriesTyped /\ HostTyped /\ PlayersTyped /\ EntitiesHold
    BY <1>1 DEF OwnersInv
  <2>2. ASSUME NEW k \in DOMAIN entities
        PROVE  LET e == entities[k]
               IN  /\ e.pos \in Cells /\ e.kind \in {Chest, Furnace}
                   /\ e.viewers \subseteq Players
                   /\ e.slots \in [1 .. Capacity(e.kind) -> Stacks]
                   /\ e.burn \in Nat /\ e.cook \in 0 .. CookTime - 1
    BY <2>1 DEF ItemsInv, Listed, Shaped, WorldTyped, ViewersAreHere, EntitiesHold,
                Holds, Row
  <2>3. /\ inv \in [Players -> [Slots -> Stacks]]
        /\ armor \in [Players -> {st \in Stacks : st.item \in Armour \cup {Air}}]
        /\ food \in [Players -> 0 .. MaxFood]
    BY <2>1 DEF PlayersTyped, Row, Slots, Pieces
  <2> QED  BY <2>1, <2>2, <2>3 DEF TypeOK, ItemsInv, WorldTyped, HistoriesTyped,
                                  CountersTyped, HostTyped
<1> QED  BY <1>1, OwnersInvariant, PTL

\* No sequence of breaking, placing, storing, taking out, smelting, crafting,
\* equipping, wearing out, dying, leaving and joining makes the players and their
\* containers richer than what stood in the world, what mobs dropped and what the
\* dungeon chests held once, as long as the live world refuses no edit
\* (handle_block_break gives the block to whoever breaks it, and one that was not
\* removed could be broken again), but for one block of sand for each time that
\* gravity_tick let one fall without telling the overlay.
THEOREM PossessionsAreGiven == Spec => []NothingIsDoubled
<1>1. ASSUME OwnersInv, Balanced PROVE NothingIsDoubled
  <2>1. /\ Wealth(Worth) = Carried + Stored + Built
        /\ Given(Worth) = Begun + Dropped + Looted
    BY BooksAre
  <2>2. Begun \in Nat
    BY <1>1, BegunTyped DEF OwnersInv, HistoriesTyped
  <2>3. /\ Carried \in Nat /\ Stored \in Nat /\ Built \in Nat
        /\ Looted \in Nat /\ Dropped \in Nat /\ Loose \in Nat /\ Sunk \in Nat
    BY <1>1, AmountsTyped
  <2>4. ASSUME refused = {} PROVE Wealth(Worth) <= Given(Worth) + Sunk
    BY <1>1, <2>1, <2>2, <2>3, <2>4 DEF Balanced, Ground
  <2> QED  BY <2>4 DEF NothingIsDoubled, Sunk
<1> QED  BY <1>1, OwnersInvariant, PTL

\* Only a transfer changes an inventory and a container at once and leaves the
\* number of containers as it is.
LEMMA OnlyTransfers ==
  ASSUME OwnersInv, Next, Transferred
  PROVE  \E p \in active : Transfer(p)
<1> SUFFICES ASSUME \A p \in active : ~Transfer(p) PROVE FALSE
  OBVIOUS
<1>1. inv' # inv /\ entities' # entities /\ Len(entities') = Len(entities)
  BY DEF Transferred
<1>2. ASSUME NEW p \in active, NEW c \in Cells, BreakBlock(p, c) PROVE FALSE
  <2>0. PICK k : k = IF IsContainer(BlockAt(c)) THEN Find(c) ELSE 0
    OBVIOUS
  <2>1. entities' = IF k = 0 THEN entities ELSE WithoutEntity(k)
    BY <1>2, <2>0 DEF BreakBlock
  <2>2. k # 0 /\ entities' = WithoutEntity(k) /\ k = Find(c)
    BY <1>1, <2>0, <2>1
  <2>3. k \in DOMAIN entities
    BY <2>2, FoundEntity
  <2>4. Len(entities') = Len(entities) - 1
    BY <2>2, <2>3, StoredRemoved DEF OwnersInv, ItemsInv
  <2>5. Len(entities) \in Nat
    BY ListDomain DEF OwnersInv, ItemsInv, Listed
  <2> QED  BY <1>1, <2>4, <2>5
<1>3. ASSUME NEW p \in active, NEW c \in Cells, NEW i \in Slots, PlaceBlock(p, c, i)
      PROVE  FALSE
  <2>1. \E e : entities' = Append(entities, e)
    BY <1>1, <1>3 DEF PlaceBlock, Created
  <2>2. PICK e : entities' = Append(entities, e)
    BY <2>1
  <2>3. PICK S : entities \in Seq(S)
    BY DEF OwnersInv, ItemsInv, Listed, IsList
  <2>4. Len(entities') = Len(entities) + 1 /\ Len(entities) \in Nat
    <3>1. entities \in Seq(S \cup {e})
      BY <2>3
    <3> QED  BY <2>2, <3>1
  <2> QED  BY <1>1, <2>4
<1>4. ASSUME NEW p \in active, Request(p) PROVE FALSE
  BY <1>1, <1>2, <1>3, <1>4
     DEF Request, ContainerOpen, ContainerClose, EatFoodBlock, Equip, Eat, Craft
<1>5. UNCHANGED inv \/ UNCHANGED entities \/ \E p \in active : Request(p)
  BY DEF Next, Step, AwardMobLoot, Hunger, WearArmor, Die, Join, Renewed, Leave,
         ColumnGone, ColumnBack, StreamColumn, FurnaceTick, Physics
<1> QED  BY <1>1, <1>4, <1>5

\* container_transfer_to_inventory and container_transfer_from_inventory neither
\* make nor lose an item, but for a furnace whose slots are taken: what a player
\* puts into it is copied into a chest first, and what is beyond the third slot of
\* the copy is lost.
THEOREM MovingConserves == Spec => TransfersConserve
<1>1. ASSUME OwnersInv, [Next]_vars
      PROVE  [Transferred
                => \/ Wealth(Worth)' = Wealth(Worth)
                   \/ \E p \in active, c \in Cells, i \in Slots : Overflows(p, c, i)]_vars
  <2>1. SUFFICES ASSUME Next, Transferred,
                        ~\E p \in active, c \in Cells, i \in Slots : Overflows(p, c, i)
                 PROVE  Wealth(Worth)' = Wealth(Worth)
    BY <1>1
  <2>2. PICK p \in active : Transfer(p)
    BY <1>1, <2>1, OnlyTransfers
  <2>3. Carried' + Stored' = Carried + Stored
    BY <1>1, <2>1, <2>2, TakeOutMoves, PutInMoves DEF Transfer, Transferred
  <2>4. Moved
    BY <1>1, <2>2, TakeOutMoves, PutInMoves DEF Transfer
  <2>5. Built' = Built
    BY <2>2 DEF Transfer, TakeOut, PutIn, worldVars, Built
  <2>6. /\ Wealth(Worth) = Carried + Stored + Built
        /\ Wealth(Worth)' = Carried' + Stored' + Built'
    BY DEF Wealth, Carried, Purse, Stored, Built, Price
  <2>7. /\ Carried \in Nat /\ Stored \in Nat /\ Built \in Nat
        /\ Carried' \in Int /\ Stored' \in Int
    BY <1>1, <2>4, AmountsTyped DEF Moved
  <2> QED  BY <2>3, <2>5, <2>6, <2>7
<1> QED  BY <1>1, OwnersInvariant, PTL DEF Spec, TransfersConserve
=============================================================================
