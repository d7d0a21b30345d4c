CONSTANTS
  Players = {"p1", "p2"}
  Cells = {"a", "b"}
  Columns <- MCColumns
  Below <- MCBelow
  SlotCount = 2
  ChestSlots = 4
  StackLimit = 2
  Durability = 1
  MaxFood = 1
  FoodRestore = 1
  CookTime = 2
  Air = air
  Items <- MCItemSet
  Blocks <- MCBlocks
  Tools <- MCTools
  Armour <- MCArmour
  Meals <- MCMeals
  Chest = "chest"
  Furnace = "furnace"
  FoodBlock = "leaves"
  Sand = "sand"
  BurnTime <- MCBurnTime
  SmeltsTo <- MCSmeltsTo
  Recipes <- MCRecipes
  Kit <- MCKit
  Loot <- MCLoot
  MobDrops <- MCMobDrops
  Starts <- MCStarts
  Worth <- MCWorth
SPECIFICATION Spec
INVARIANTS
  ViewersAreHere
  
  
  
PROPERTIES
  TransfersConserve
CHECK_DEADLOCK FALSE
