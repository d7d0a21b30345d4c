--------------------------- MODULE TerrainProofs ---------------------------
(***************************************************************************)
(* Proofs about GravityBlocks, for every height of the world, every limit  *)
(* and every number of edits: no block hangs unseen.  And about Terrain,   *)
(* for every set of columns, every radius, budget and limit: what has been *)
(* streamed is there, and the client's copy follows the server's blocks.   *)
(***************************************************************************)
EXTENDS MCTerrain, FiniteSetTheorems, TLAPS

\* A cell that is visited has been taken from todo and is not the floor, and a
\* cell that received a block is kept for the next tick.
Visiting ==
  /\ scan \in {"below", "fill", "clear"} => cur \in todo /\ cur > 0
  /\ moved \subseteq next

TickInv == Gravity!TypeOK /\ Visiting

-----------------------------------------------------------------------------
(* Types.                                                                  *)

LEMMA CellsAre == ASSUME Gravity!GravityAssumption
                  PROVE  /\ 0 \in Gravity!Cells
                         /\ \A y \in Gravity!Cells : y \in Nat
                         /\ \A y \in Gravity!Cells : y > 0 => y - 1 \in Gravity!Cells
BY DEF Gravity!GravityAssumption, Gravity!Cells

LEMMA TickInvInit ==
  ASSUME Gravity!GravityAssumption, Gravity!Init
  PROVE  TickInv
BY DEF Gravity!Init, TickInv, Gravity!TypeOK, Visiting,
   Gravity!GravityAssumption, Gravity!Cells, Gravity!Near, Gravity!Edits

LEMMA TickInvStep ==
  ASSUME Gravity!GravityAssumption, TickInv, [Gravity!Next]_Gravity!vars
  PROVE  TickInv'
<1> USE DEF TickInv, Gravity!TypeOK, Visiting, Gravity!tickVars
<1>1. ASSUME NEW y \in Gravity!Cells, NEW block \in Gravity!Blocks,
             Gravity!Edit(y, block)
      PROVE  TickInv'
  <2>1. written' \in 0 .. MaxEdits /\ written' \in 1 .. MaxEdits
    BY <1>1 DEF Gravity!Edit, Gravity!GravityAssumption
  <2>2. told' \subseteq Gravity!Edits
    BY <1>1, <2>1 DEF Gravity!Edit, Gravity!Edits
  <2>3. cells' \in [Gravity!Cells -> Gravity!Blocks]
    BY <1>1 DEF Gravity!Edit
  <2> QED  BY <1>1, <2>1, <2>2, <2>3 DEF Gravity!Edit
<1>2. ASSUME NEW e \in told, Gravity!Receive(e) PROVE TickInv'
  BY <1>2 DEF Gravity!Receive, Gravity!Near
<1>3. CASE Gravity!Wake
  BY <1>3 DEF Gravity!Wake, Gravity!Woken, Gravity!Near
<1>4. CASE Gravity!BeginTick
  BY <1>4 DEF Gravity!BeginTick
<1>5. CASE Gravity!TickFarAway
  BY <1>5 DEF Gravity!TickFarAway
<1>6. CASE Gravity!LookBelow
  BY <1>6 DEF Gravity!LookBelow, Gravity!Leave
<1>7. CASE Gravity!Fill
  BY <1>7 DEF Gravity!Fill, Gravity!Blocks
<1>8. CASE Gravity!Retry
  BY <1>8 DEF Gravity!Retry, Gravity!Leave
<1>9. CASE Gravity!Clear
  <2>1. cur - 1 \in Gravity!Cells
    BY <1>9, CellsAre DEF Gravity!Clear
  <2>2. moved' \subseteq next' /\ next' \subseteq Gravity!Cells
    BY <1>9, <2>1 DEF Gravity!Clear, Gravity!Disturbed
  <2>3. cells' \in [Gravity!Cells -> Gravity!Blocks]
    BY <1>9 DEF Gravity!Clear, Gravity!Blocks
  <2> QED  BY <1>9, <2>1, <2>2, <2>3 DEF Gravity!Clear, Gravity!Leave
<1>10. CASE Gravity!EndTick
  BY <1>10 DEF Gravity!EndTick
<1>11. ASSUME NEW y \in Gravity!Cells, Gravity!Visit(y) PROVE TickInv'
  BY <1>11 DEF Gravity!Visit
<1>12. CASE UNCHANGED Gravity!vars
  BY <1>12 DEF Gravity!vars
<1> QED
  BY <1>1, <1>2, <1>3, <1>4, <1>5, <1>6, <1>7, <1>8, <1>9, <1>10, <1>11, <1>12
     DEF Gravity!Next, Gravity!Tick

\* Types of every variable of gravity_tick and of the changes on their way.
THEOREM TypeCorrect == Gravity!Spec => []Gravity!TypeOK
<1>1. Gravity!Init => TickInv
  BY TickInvInit, MCTerrainAssumption
<1>2. TickInv /\ [Gravity!Next]_Gravity!vars => TickInv'
  BY TickInvStep, MCTerrainAssumption
<1>3. TickInv => Gravity!TypeOK
  BY DEF TickInv
<1> QED
  BY <1>1, <1>2, <1>3, PTL DEF Gravity!Spec

-----------------------------------------------------------------------------
(* Nothing hangs unseen.  One lemma per group of actions says why a cell   *)
(* that hangs after the step is watched then.                              *)

Hanging(y) == cells[y] = "sand" /\ cells[y - 1] = "air"
Seen(y) == y \in Gravity!Watched \cup lapsed

HangInv == TickInv /\ \A y \in Gravity!Cells \ {0} : Hanging(y) => Seen(y)

LEMMA HangInvInit ==
  ASSUME Gravity!GravityAssumption, Gravity!Init
  PROVE  HangInv
<1>1. TickInv
  BY TickInvInit
<1>2. ASSUME NEW y \in Gravity!Cells \ {0}, Hanging(y) PROVE Seen(y)
  <2>1. y \in Gravity!Near(y)
    BY CellsAre DEF Gravity!Near
  <2>2. CASE active = UNION {Gravity!Near(z) :
                             z \in {z \in Gravity!Cells : cells[z] = "sand"}}
    <3>1. y \in active
      BY <1>2, <2>1, <2>2 DEF Hanging
    <3> QED  BY <3>1 DEF Gravity!Init, Seen, Gravity!Watched
  <2>3. CASE lapsed = Gravity!Cells
    BY <2>3 DEF Seen
  <2> QED  BY <2>2, <2>3 DEF Gravity!Init
<1> QED  BY <1>1, <1>2 DEF HangInv

\* The server writes one cell; the change that announces it covers that cell
\* and the one above.
LEMMA EditIsSeen ==
  ASSUME Gravity!GravityAssumption, HangInv,
         NEW z \in Gravity!Cells, NEW block \in Gravity!Blocks,
         Gravity!Edit(z, block),
         NEW y \in Gravity!Cells \ {0}, Hanging(y)'
  PROVE  Seen(y)'
<1> USE DEF Gravity!Edit, Gravity!tickVars
<1>1. CASE y \in {z, z + 1}
  <2>1. y \in Gravity!Near(z)
    BY <1>1, CellsAre DEF Gravity!Near
  <2>2. [number |-> written', at |-> z] \in told'
    OBVIOUS
  <2>3. \E e \in told' : y \in Gravity!Near(e.at)
    BY <2>1, <2>2
  <2>4. y \in Gravity!Watched'
    BY <2>3 DEF Gravity!Watched
  <2> QED  BY <2>4 DEF Seen
<1>2. CASE y \notin {z, z + 1}
  <2>1. y # z /\ y - 1 # z
    BY <1>2, CellsAre
  <2>2. y \in Gravity!Cells /\ y - 1 \in Gravity!Cells
    BY CellsAre
  <2>3. cells'[y] = cells[y] /\ cells'[y - 1] = cells[y - 1]
    BY <2>1, <2>2 DEF HangInv, TickInv, Gravity!TypeOK
  <2>4. Seen(y)
    BY <2>3 DEF HangInv, Hanging
  <2>5. Gravity!Watched \subseteq Gravity!Watched'
    BY DEF Gravity!Watched
  <2> QED  BY <2>4, <2>5 DEF Seen
<1> QED  BY <1>1, <1>2

\* A change that is received goes to the pending ones or lapses; one that is
\* pending becomes active.
LEMMA NewsAreSeen ==
  ASSUME HangInv, (\E e \in told : Gravity!Receive(e)) \/ Gravity!Wake,
         NEW y \in Gravity!Cells \ {0}, Hanging(y)'
  PROVE  Seen(y)'
<1>1. Seen(y)
  BY DEF HangInv, Hanging, Gravity!Receive, Gravity!Wake
<1>2. CASE Gravity!Wake
  <2>1. y \in Gravity!Watched' \cup lapsed'
    BY <1>1, <1>2 DEF Seen, Gravity!Watched, Gravity!Wake, Gravity!Woken,
       Gravity!tickVars
  <2> QED  BY <2>1 DEF Seen
<1>3. ASSUME NEW e \in told, Gravity!Receive(e) PROVE Seen(y)'
  <2> USE <1>3 DEF Gravity!Receive, Gravity!tickVars
  <2>1. CASE y \in Gravity!Near(e.at)
    BY <2>1 DEF Seen, Gravity!Watched
  <2>2. CASE y \notin Gravity!Near(e.at)
    BY <1>1, <2>2 DEF Seen, Gravity!Watched
  <2> QED  BY <2>1, <2>2
<1> QED  BY <1>2, <1>3

\* Cells leave the sets of the physics only when they do not hang.
LEMMA LookingIsSafe ==
  ASSUME Gravity!GravityAssumption, HangInv,
         \/ Gravity!BeginTick \/ Gravity!TickFarAway \/ Gravity!LookBelow
         \/ Gravity!Retry \/ Gravity!EndTick
         \/ \E z \in Gravity!Cells : Gravity!Visit(z),
         NEW y \in Gravity!Cells \ {0}, Hanging(y)'
  PROVE  Seen(y)'
<1> USE DEF Gravity!tickVars
<1>1. Hanging(y)
  BY DEF Hanging, Gravity!BeginTick, Gravity!TickFarAway, Gravity!LookBelow,
     Gravity!Retry, Gravity!EndTick, Gravity!Visit
<1>2. Seen(y)
  BY <1>1 DEF HangInv
<1>3. CASE Gravity!BeginTick
  BY <1>2, <1>3 DEF Gravity!BeginTick, Seen, Gravity!Watched
<1>4. CASE Gravity!TickFarAway
  BY <1>2, <1>4 DEF Gravity!TickFarAway, Seen, Gravity!Watched
<1>5. CASE Gravity!LookBelow
  <2>1. y = cur => scan' = "fill" /\ UNCHANGED todo
    BY <1>1, <1>5 DEF Gravity!LookBelow, Hanging
  <2> QED  BY <1>2, <1>5, <2>1 DEF Gravity!LookBelow, Gravity!Leave, Seen,
              Gravity!Watched
<1>6. CASE Gravity!Retry
  BY <1>2, <1>6 DEF Gravity!Retry, Gravity!Leave, Seen, Gravity!Watched
<1>7. CASE Gravity!EndTick
  BY <1>2, <1>7 DEF Gravity!EndTick, Seen, Gravity!Watched
<1>8. ASSUME NEW z \in Gravity!Cells, Gravity!Visit(z) PROVE Seen(y)'
  <2>1. y > 0
    BY CellsAre
  <2>2. y = z /\ y \notin moved => UNCHANGED todo
    BY <1>1, <1>8, <2>1 DEF Gravity!Visit, Hanging
  <2>3. y \in moved => y \in next
    BY DEF HangInv, TickInv, Visiting
  <2> QED  BY <1>2, <1>8, <2>2, <2>3 DEF Gravity!Visit, Seen, Gravity!Watched
<1> QED
  BY <1>3, <1>4, <1>5, <1>6, <1>7, <1>8

\* While a block falls, the cell it falls into is watched, and so is afterwards
\* the cell above the one it left.
LEMMA FallingIsSafe ==
  ASSUME Gravity!GravityAssumption, HangInv, Gravity!Fill \/ Gravity!Clear,
         NEW y \in Gravity!Cells \ {0}, Hanging(y)'
  PROVE  Seen(y)'
<1> USE DEF Gravity!tickVars
<1>1. /\ cur \in Gravity!Cells /\ cur > 0 /\ cur - 1 \in Gravity!Cells
      /\ y - 1 \in Gravity!Cells /\ y > 0
  BY CellsAre DEF HangInv, TickInv, Gravity!TypeOK, Visiting, Gravity!Fill,
     Gravity!Clear
<1>2. cells \in [Gravity!Cells -> Gravity!Blocks]
  BY DEF HangInv, TickInv, Gravity!TypeOK
<1>3. CASE Gravity!Fill
  <2>1. CASE y = cur - 1
    BY <1>3, <2>1 DEF Gravity!Fill, Seen, Gravity!Watched
  <2>2. CASE y # cur - 1
    <3>1. Hanging(y)
      BY <1>1, <1>2, <1>3, <2>2 DEF Gravity!Fill, Hanging
    <3>2. Seen(y)
      BY <3>1 DEF HangInv
    <3> QED  BY <1>3, <3>2 DEF Gravity!Fill, Seen, Gravity!Watched
  <2> QED  BY <2>1, <2>2
<1>4. CASE Gravity!Clear
  <2>1. y # cur
    BY <1>1, <1>2, <1>4 DEF Gravity!Clear, Hanging
  <2>2. CASE y \in Gravity!Disturbed
    BY <1>4, <2>2 DEF Gravity!Clear, Gravity!Leave, Seen, Gravity!Watched
  <2>3. CASE y \notin Gravity!Disturbed
    <3>1. y # cur + 1 /\ y # cur - 1
      BY <1>1, <2>3 DEF Gravity!Disturbed
    <3>2. y - 1 # cur
      BY <1>1, <3>1, CellsAre
    <3>3. Hanging(y)
      BY <1>1, <1>2, <1>4, <2>1, <3>2 DEF Gravity!Clear, Hanging
    <3>4. Seen(y)
      BY <3>3 DEF HangInv
    <3> QED
      BY <1>4, <2>1, <2>3, <3>1, <3>4 DEF Gravity!Clear, Gravity!Leave, Seen,
         Gravity!Watched
  <2> QED  BY <2>2, <2>3
<1> QED  BY <1>3, <1>4

LEMMA HangInvStep ==
  ASSUME Gravity!GravityAssumption, HangInv, [Gravity!Next]_Gravity!vars
  PROVE  HangInv'
<1>1. TickInv'
  BY TickInvStep DEF HangInv
<1>2. ASSUME NEW y \in (Gravity!Cells \ {0})', Hanging(y)' PROVE Seen(y)'
  <2> y \in Gravity!Cells \ {0}
    BY DEF Gravity!Cells
  <2>1. ASSUME NEW z \in Gravity!Cells, NEW block \in Gravity!Blocks,
               Gravity!Edit(z, block)
        PROVE  Seen(y)'
    BY <1>2, <2>1, EditIsSeen
  <2>2. CASE (\E e \in told : Gravity!Receive(e)) \/ Gravity!Wake
    BY <1>2, <2>2, NewsAreSeen
  <2>3. CASE \/ Gravity!BeginTick \/ Gravity!TickFarAway \/ Gravity!LookBelow
             \/ Gravity!Retry \/ Gravity!EndTick
             \/ \E z \in Gravity!Cells : Gravity!Visit(z)
    BY <1>2, <2>3, LookingIsSafe
  <2>4. CASE Gravity!Fill \/ Gravity!Clear
    BY <1>2, <2>4, FallingIsSafe
  <2>5. CASE UNCHANGED Gravity!vars
    BY <1>2, <2>5 DEF Gravity!vars, Gravity!tickVars, HangInv, Hanging, Seen,
       Gravity!Watched
  <2> QED  BY <2>1, <2>2, <2>3, <2>4, <2>5 DEF Gravity!Next, Gravity!Tick
<1> QED  BY <1>1, <1>2 DEF HangInv

\* No gravity block hangs in the air unseen (gravity_tick, block_physics.c),
\* whatever the server edits between any two accesses of the physics.
THEOREM NothingHangsUnseen == Gravity!Spec => []NothingHangs
<1>1. Gravity!Init => HangInv
  BY HangInvInit, MCTerrainAssumption
<1>2. HangInv /\ [Gravity!Next]_Gravity!vars => HangInv'
  BY HangInvStep, MCTerrainAssumption
<1>3. HangInv => NothingHangs
  BY DEF HangInv, NothingHangs, Gravity!NothingHangs, Hanging, Seen
<1> QED
  BY <1>1, <1>2, <1>3, PTL DEF Gravity!Spec

-----------------------------------------------------------------------------
(* The terrain and its copy.  First what happens to the places of messages *)
(* when one is taken out or some are appended.                             *)

\* Where the k-th message was before the i-th was taken out, and where it is
\* afterwards.
Before(i, k) == IF k < i THEN k ELSE k + 1
After(i, k) == IF k < i THEN k ELSE k - 1

LEMMA RemoveAtPlaces ==
  ASSUME NEW S, NEW s \in Seq(S), NEW i \in 1 .. Len(s)
  PROVE  /\ RemoveAt(s, i) \in Seq(S)
         /\ \A k \in DOMAIN RemoveAt(s, i) :
              /\ Before(i, k) \in DOMAIN s /\ Before(i, k) # i
              /\ RemoveAt(s, i)[k] = s[Before(i, k)]
         /\ \A k \in DOMAIN s :
              k # i => /\ After(i, k) \in DOMAIN RemoveAt(s, i)
                       /\ Before(i, After(i, k)) = k
<1> DEFINE a == SubSeq(s, 1, i - 1)
           b == SubSeq(s, i + 1, Len(s))
<1>1. /\ a \in Seq(S) /\ Len(a) = i - 1
      /\ \A k \in 1 .. i - 1 : a[k] = s[k]
  OBVIOUS
<1>2. /\ b \in Seq(S) /\ Len(b) = Len(s) - i
      /\ \A k \in 1 .. Len(s) - i : b[k] = s[k + i]
  OBVIOUS
<1>3. RemoveAt(s, i) = a \o b
  BY DEF RemoveAt
<1> HIDE DEF a, b
<1>4. /\ a \o b \in Seq(S) /\ Len(a \o b) = Len(s) - 1
      /\ \A k \in 1 .. Len(s) - 1 : (a \o b)[k] = s[Before(i, k)]
  <2>1. /\ a \o b \in Seq(S) /\ Len(a \o b) = Len(a) + Len(b)
        /\ \A k \in 1 .. Len(a) + Len(b) :
             (a \o b)[k] = IF k <= Len(a) THEN a[k] ELSE b[k - Len(a)]
    <3>1. a \in Seq(S) /\ b \in Seq(S)
      BY <1>1, <1>2
    <3> QED  BY <3>1
  <2>2. Len(s) \in Nat /\ Len(a) + Len(b) = Len(s) - 1
    BY <1>1, <1>2
  <2>3. ASSUME NEW k \in 1 .. Len(s) - 1 PROVE (a \o b)[k] = s[Before(i, k)]
    <3>1. CASE k < i
      <4>1. k <= Len(a) /\ k \in 1 .. i - 1
        BY <1>1, <2>2, <3>1
      <4>2. (a \o b)[k] = a[k]
        BY <1>1, <2>1, <2>2, <4>1
      <4>3. a[k] = s[k]
        BY <1>1, <4>1
      <4> QED  BY <3>1, <4>2, <4>3 DEF Before
    <3>2. CASE ~(k < i)
      <4>1. k > Len(a) /\ k - Len(a) \in 1 .. Len(s) - i /\ k - Len(a) + i = k + 1
        BY <1>1, <2>2, <3>2
      <4>2. (a \o b)[k] = b[k - Len(a)]
        BY <1>1, <2>1, <2>2, <3>2, <4>1
      <4>3. b[k - Len(a)] = s[k + 1]
        BY <1>2, <4>1
      <4> QED  BY <3>2, <4>2, <4>3 DEF Before
    <3> QED  BY <3>1, <3>2
  <2> QED  BY <2>1, <2>2, <2>3
<1> DEFINE r == a \o b
<1>5. /\ RemoveAt(s, i) = r /\ r \in Seq(S) /\ Len(r) = Len(s) - 1
      /\ \A k \in 1 .. Len(s) - 1 : r[k] = s[Before(i, k)]
  BY <1>3, <1>4
<1> HIDE DEF r
<1>6. DOMAIN r = 1 .. Len(s) - 1 /\ DOMAIN s = 1 .. Len(s) /\ Len(s) \in Nat
  BY <1>5
<1> QED
  BY <1>5, <1>6 DEF Before, After

LEMMA ConcatPlaces ==
  ASSUME NEW S, NEW s \in Seq(S), NEW t \in Seq(S)
  PROVE  /\ s \o t \in Seq(S) /\ Len(s \o t) = Len(s) + Len(t)
         /\ \A k \in DOMAIN s : k \in DOMAIN (s \o t) /\ (s \o t)[k] = s[k]
         /\ \A k \in DOMAIN t :
              /\ Len(s) + k \in DOMAIN (s \o t)
              /\ (s \o t)[Len(s) + k] = t[k]
         /\ \A k \in DOMAIN (s \o t) :
              k \in DOMAIN s \/ (k - Len(s) \in DOMAIN t /\ k > Len(s))
OBVIOUS

-----------------------------------------------------------------------------
(* What a tick sends.                                                      *)

LEMMA WithinFinite ==
  ASSUME NEW p \in Columns, NEW r \in Nat
  PROVE  IsFiniteSet(Within(p, r))
<1>1. p \in Int /\ \A c \in Columns : c \in Int
  BY TerrainAssumption
<1>2. ASSUME NEW c \in Within(p, r) PROVE c \in (p - r) .. (p + r)
  <2>1. c \in Int /\ (IF p < c THEN c - p ELSE p - c) <= r
    BY <1>1 DEF Within, Distance
  <2> QED  BY <1>1, <2>1
<1>3. IsFiniteSet((p - r) .. (p + r))
  BY <1>1, FS_Interval
<1> QED  BY <1>2, <1>3, FS_Subset

\* An order of a finite set is a sequence that has each element once.
LEMMA OrderCovers ==
  ASSUME NEW S, IsFiniteSet(S), NEW s \in SetToSeqs(S)
  PROVE  /\ s \in Seq(S)
         /\ \A x \in S : \E k \in DOMAIN s : s[k] = x
         /\ \A j, k \in DOMAIN s : s[j] = s[k] => j = k
<1> DEFINE n == Cardinality(S)
<1>1. n \in Nat
  BY FS_CardinalityType
<1>2. s \in [1 .. n -> S] /\ \A j, k \in 1 .. n : j # k => s[j] # s[k]
  BY DEF SetToSeqs
<1>3. IsFiniteSet(1 .. n) /\ Cardinality(1 .. n) = n
  BY <1>1, FS_Interval
<1> HIDE DEF n
<1>4. s \in Injection(1 .. n, S)
  BY <1>2 DEF Injection, IsInjective
<1>5. s \in Surjection(1 .. n, S)
  BY <1>3, <1>4, FS_Injection DEF n
<1>6. \A x \in S : \E k \in 1 .. n : s[k] = x
  BY <1>5 DEF Surjection
<1> QED  BY <1>1, <1>2, <1>6

\* Unloads for what is out of range, and then the columns that were chosen, but
\* for those that a worker is at and those that are too large.
UnloadsOf(p, u) ==
  \A k \in DOMAIN u : u[k].kind = "unload" /\ u[k].col \in ToUnload(p)

ColumnsOf(p, d) ==
  /\ \A k \in DOMAIN d :
       /\ d[k].kind = "data" /\ d[k].block = live'[d[k].col]
       /\ d[k].col \in ToSend(p) /\ Updated(p)[d[k].col] # "generating"
  /\ \A c \in ToSend(p) \ Oversized :
       Updated(p)[c] # "generating" => \E k \in DOMAIN d : d[k].col = c
  /\ \A j, k \in DOMAIN d : d[j].col = d[k].col => j = k

LEMMA TickSends ==
  ASSUME TypeOK, streamed \subseteq Within(center, Radius),
         live' \in [Columns -> Blocks], NEW p \in Places, ServerTick(p)
  PROVE  \E u \in Seq(Message), d \in Seq(Message) :
           net' = (net \o u) \o d /\ UnloadsOf(p, u) /\ ColumnsOf(p, d)
<1> DEFINE now == Updated(p)
           gone == ToUnload(p)
           chosen == ToSend(p)
           sending == chosen \ ({c \in chosen : now[c] = "generating"} \cup Oversized)
<1>1. PICK unloads \in SetToSeqs(gone), sends \in SetToSeqs(sending) :
        net' = net \o [i \in DOMAIN unloads |-> Msg("unload", unloads[i], 0)]
                   \o [i \in DOMAIN sends |->
                         Msg("data", sends[i], live'[sends[i]])]
  BY DEF ServerTick
<1>2. gone \subseteq Columns /\ chosen \subseteq Columns
  BY DEF ToUnload, ToSend, Within, TypeOK
<1>3. unloads \in Seq(gone)
  <2>1. IsFiniteSet(Within(center, Radius))
    BY WithinFinite, TerrainAssumption DEF TypeOK
  <2>2. IsFiniteSet(gone)
    BY <2>1, FS_Subset DEF ToUnload
  <2> QED  BY <2>2, OrderCovers
<1>4. IsFiniteSet(sending)
  <2>1. IsFiniteSet(Within(p, Radius))
    BY WithinFinite, TerrainAssumption
  <2>2. sending \subseteq Within(p, Radius)
    BY DEF ToSend
  <2> QED  BY <2>1, <2>2, FS_Subset
<1>5. /\ sends \in Seq(sending)
      /\ \A c \in sending : \E k \in DOMAIN sends : sends[k] = c
      /\ \A j, k \in DOMAIN sends : sends[j] = sends[k] => j = k
  BY <1>4, OrderCovers
<1> DEFINE u == [i \in DOMAIN unloads |-> Msg("unload", unloads[i], 0)]
           d == [i \in DOMAIN sends |-> Msg("data", sends[i], live'[sends[i]])]
<1>6. u \in Seq(Message) /\ UnloadsOf(p, u)
  <2>1. \A c \in gone : Msg("unload", c, 0) \in Message
    BY <1>2, TerrainAssumption DEF Msg, Message, Blocks
  <2>2. u \in Seq(Message)
    BY <1>3, <2>1
  <2> QED  BY <1>3, <2>2 DEF UnloadsOf, Msg
<1>7. d \in Seq(Message)
  <2>1. \A c \in sending : Msg("data", c, live'[c]) \in Message
    BY <1>2 DEF Msg, Message
  <2> QED  BY <1>5, <2>1
<1>8. DOMAIN d = DOMAIN sends /\ \A k \in DOMAIN d : d[k].kind = "data"
        /\ d[k].col = sends[k] /\ d[k].block = live'[sends[k]]
  BY DEF Msg
<1>9. ColumnsOf(p, d)
  <2>1. \A k \in DOMAIN sends : sends[k] \in sending
    BY <1>5
  <2>2. \A c \in chosen \ Oversized : now[c] # "generating" => c \in sending
    OBVIOUS
  <2>3. \A c \in sending : c \in chosen /\ now[c] # "generating"
    OBVIOUS
  <2> HIDE DEF sending, d
  <2> QED  BY <1>5, <1>8, <2>1, <2>2, <2>3 DEF ColumnsOf
<1> QED  BY <1>1, <1>6, <1>7, <1>9

-----------------------------------------------------------------------------
(* The last of some places.                                                *)

LEMMA Smallest ==
  ASSUME NEW S \in SUBSET Nat, S # {}
  PROVE  \E x \in S : \A y \in S : x <= y
<1> DEFINE less == OpToRel(<, Nat)
<1>1. IsWellFoundedOn(less, Nat)
  BY NatLessThanWellFounded
<1>2. \A x, y \in Nat : y < x => <<y, x>> \in less
  BY DEF OpToRel
<1> HIDE DEF less
<1>3. PICK x \in S : \A y \in S : <<y, x>> \notin less
  BY <1>1, WFMin
<1>4. \A y \in S : ~(y < x)
  BY <1>2, <1>3
<1>5. \A y \in S : x <= y
  BY <1>4, SMT
<1> QED  BY <1>5

LEMMA MaxIsLast ==
  ASSUME NEW n \in Nat, NEW S \in SUBSET (1 .. n), S # {}
  PROVE  Max(S) \in S /\ \A y \in S : y <= Max(S)
<1> DEFINE mirrored == {k \in Nat : n - k \in S}
<1>1. \A y \in S : n - y \in Nat /\ n - (n - y) = y
  OBVIOUS
<1>2. mirrored \in SUBSET Nat /\ mirrored # {}
  BY <1>1
<1>3. PICK z \in mirrored : \A y \in mirrored : z <= y
  BY <1>2, Smallest
<1>4. \A y \in S : n - y \in mirrored
  BY <1>1
<1>5. \A y \in S : n - z >= y
  BY <1>3, <1>4
<1>6. \E x \in S : \A y \in S : x >= y
  BY <1>3, <1>5
<1>7. Max(S) \in S /\ \A y \in S : Max(S) >= y
  BY <1>6 DEF Max
<1> QED  BY <1>7

LEMMA PlacesAreBounded ==
  ASSUME TypeOK, NEW c
  PROVE  /\ Sent(c) \in SUBSET (1 .. Len(net)) /\ Len(net) \in Nat
         /\ News(c) \in SUBSET (1 .. Len(changes)) /\ Len(changes) \in Nat
BY DEF Sent, News, TypeOK

-----------------------------------------------------------------------------
(* A frame of the client: jobs end and begin, columns out of range are     *)
(* freed, and the pending changes are applied.                             *)

LEMMA FrameDoes ==
  ASSUME TypeOK, Frame
  PROVE  /\ UNCHANGED <<serverVars, trail, net, here, skipped, edits, moves, faults>>
         /\ strayed \subseteq strayed' /\ strayed' \in SUBSET Columns
         /\ changes' = <<>> /\ missed \subseteq missed' /\ missed' \in SUBSET Columns
         /\ have' \in [Columns -> {"absent", "idle", "busy"}]
         /\ copy' \in [Columns -> Blocks]
         /\ \A c \in Columns :
              /\ Present(c)' => Present(c)
              /\ Present(c) /\ ~Present(c)' /\ c \in streamed => c \in strayed'
              /\ News(c) = {} => copy'[c] = copy[c]
              /\ Present(c)' /\ News(c) # {} /\ c \notin missed'
                   => copy'[c] = changes[Max(News(c))].block
<1>1. /\ UNCHANGED <<serverVars, trail, net, here, skipped, edits, moves, faults>>
      /\ changes' = <<>>
  BY DEF Frame
<1>2. PICK ended \in SUBSET {c \in Columns : have[c] = "busy"} :
      LET idle == {c \in Columns : have[c] = "idle"} \cup ended
          kept == {c \in Columns : Present(c)}
                    \ (idle \ Within(here, Radius + Margin))
      IN  \E begun \in SUBSET (idle \cap kept) :
            LET busy == (kept \ idle) \cup begun
            IN
                /\ have' = [c \in Columns |-> IF c \in busy THEN "busy"
                                               ELSE IF c \in kept THEN "idle" ELSE "absent"]
                /\ copy' = [c \in Columns |->
                              IF c \in kept \ busy /\ News(c) # {}
                                THEN changes[Max(News(c))].block ELSE copy[c]]
                /\ missed' = missed \cup {c \in busy : News(c) # {}}
                /\ strayed' = strayed \cup
                     ((streamed \cap idle) \ Within(here, Radius + Margin))
  BY DEF Frame
<1> DEFINE idle == {c \in Columns : have[c] = "idle"} \cup ended
           kept == {c \in Columns : Present(c)}
                     \ (idle \ Within(here, Radius + Margin))
<1>3. PICK begun \in SUBSET (idle \cap kept) :
        LET busy == (kept \ idle) \cup begun
        IN
            /\ have' = [c \in Columns |-> IF c \in busy THEN "busy"
                                           ELSE IF c \in kept THEN "idle" ELSE "absent"]
            /\ copy' = [c \in Columns |->
                          IF c \in kept \ busy /\ News(c) # {}
                            THEN changes[Max(News(c))].block ELSE copy[c]]
            /\ missed' = missed \cup {c \in busy : News(c) # {}}
            /\ strayed' = strayed \cup
                 ((streamed \cap idle) \ Within(here, Radius + Margin))
  BY <1>2
<1> DEFINE busy == (kept \ idle) \cup begun
<1>4.
      /\ have' = [c \in Columns |-> IF c \in busy THEN "busy"
                                     ELSE IF c \in kept THEN "idle" ELSE "absent"]
      /\ copy' = [c \in Columns |->
                    IF c \in kept \ busy /\ News(c) # {}
                      THEN changes[Max(News(c))].block ELSE copy[c]]
      /\ missed' = missed \cup {c \in busy : News(c) # {}}
      /\ strayed' = strayed \cup
           ((streamed \cap idle) \ Within(here, Radius + Margin))
  BY <1>3
<1>5. /\ kept \subseteq Columns /\ busy \subseteq kept
      /\ \A c \in kept : Present(c)
      /\ \A c \in Columns :
           Present(c) /\ c \notin kept =>
             c \in idle \ Within(here, Radius + Margin)
  OBVIOUS
<1>6. strayed \subseteq strayed' /\ strayed' \in SUBSET Columns
  BY <1>4 DEF TypeOK
<1> HIDE DEF idle, kept, busy
<1>7. \A c \in Columns : News(c) # {} => changes[Max(News(c))].block \in Blocks
  <2> TAKE c \in Columns
  <2> HAVE News(c) # {}
  <2>1. News(c) \in SUBSET (1 .. Len(changes)) /\ Len(changes) \in Nat
    BY PlacesAreBounded
  <2>2. Max(News(c)) \in News(c)
    BY <2>1, MaxIsLast
  <2>3. changes[Max(News(c))] \in Change
    BY <2>1, <2>2 DEF TypeOK
  <2> QED  BY <2>3 DEF Change
<1>8. copy' \in [Columns -> Blocks]
  BY <1>4, <1>7 DEF TypeOK
<1>9. have' \in [Columns -> {"absent", "idle", "busy"}]
  BY <1>4
<1>10. \A c \in Columns : Present(c)' <=> c \in kept
  BY <1>4, <1>5 DEF Present
<1>11. missed \subseteq missed' /\ missed' \in SUBSET Columns
  BY <1>4, <1>5 DEF TypeOK
<1>12. ASSUME NEW c \in Columns
       PROVE  /\ News(c) = {} => copy'[c] = copy[c]
              /\ c \in kept /\ News(c) # {} /\ c \notin missed'
                   => copy'[c] = changes[Max(News(c))].block
  BY <1>4
<1>13. ASSUME NEW c \in Columns, Present(c), ~Present(c)', c \in streamed
       PROVE  c \in strayed'
  BY <1>4, <1>5, <1>10, <1>13
<1> QED
  BY <1>1, <1>5, <1>6, <1>8, <1>9, <1>10, <1>11, <1>12, <1>13

-----------------------------------------------------------------------------
(* Types of the terrain, and where the streamed columns are.               *)

\* What is recorded as streamed is around the client's last known place.
InRange == streamed \subseteq Within(center, Radius)

LEMMA TickTyped ==
  ASSUME TypeOK, InRange, NEW p \in Places, ServerTick(p), trail' \in Seq(Places)
  PROVE  TypeOK'
<1>1. ToSend(p) \subseteq Columns /\ ToUnload(p) \subseteq Columns
  BY DEF ToUnload, ToSend, Within, TypeOK
<1>2. live' \in [Columns -> Blocks]
  BY DEF ServerTick, TypeOK
<1>3. net' \in Seq(Message)
  <2>1. PICK u \in Seq(Message), d \in Seq(Message) : net' = (net \o u) \o d
    BY <1>2, TickSends DEF InRange
  <2>2. net \o u \in Seq(Message)
    BY ConcatPlaces DEF TypeOK
  <2> QED  BY <2>1, <2>2, ConcatPlaces
<1>4. made' \in [Columns -> {"absent", "generating", "made"}]
  <2>1. Updated(p) \in [Columns -> {"absent", "generating", "made"}]
    BY DEF Updated, TypeOK
  <2> QED  BY <2>1 DEF ServerTick
<1>5. /\ streamed' \in SUBSET Columns /\ skipped' \in SUBSET Columns
      /\ strayed' \in SUBSET Columns
  BY <1>1 DEF ServerTick, TypeOK
<1> QED
  BY <1>2, <1>3, <1>4, <1>5 DEF ServerTick, TypeOK, clientVars

\* A tick takes in none or some of the positions on their way.
LEMMA TickTakes ==
  ASSUME TypeOK, NEW k \in 0 .. Len(trail), Tick(k)
  PROVE  /\ trail' \in Seq(Places)
         /\ \E p \in Places : ServerTick(p)
<1>1. trail \in Seq(Places) /\ center \in Places
  BY DEF TypeOK
<1>2. trail' \in Seq(Places)
  BY <1>1 DEF Tick
<1>3. (IF k = 0 THEN center ELSE trail[k]) \in Places
  BY <1>1
<1> QED  BY <1>2, <1>3 DEF Tick

LEMMA TerrainTyped ==
  ASSUME TypeOK, InRange, [Next]_vars
  PROVE  TypeOK'
<1> USE TerrainAssumption DEF TypeOK, clientVars, serverVars, historyVars
<1>1. ASSUME NEW c \in EditedColumns, Edit(c) PROVE TypeOK'
  <2>1. edits' \in Blocks /\ edits' \in 0 .. MaxEdits /\ c \in Columns
    BY <1>1 DEF Edit, Blocks
  <2>2. net' \in Seq(Message)
    <3>1. Msg("change", c, edits') \in Message
      BY <2>1 DEF Msg, Message
    <3> QED  BY <1>1, <3>1 DEF Edit
  <2>3. made' \in [Columns -> {"absent", "generating", "made"}]
    BY <1>1 DEF Edit
  <2>4. live' \in [Columns -> Blocks] /\ overlay' \in [Columns -> Blocks]
    BY <1>1, <2>1 DEF Edit
  <2>5. missed' \in SUBSET Columns
    BY <1>1, <2>1 DEF Edit
  <2> QED  BY <1>1, <2>1, <2>2, <2>3, <2>4, <2>5 DEF Edit
<1>2. ASSUME NEW c \in Columns, Generated(c) PROVE TypeOK'
  BY <1>2 DEF Generated
<1>3. ASSUME NEW k \in 0 .. Len(trail), Tick(k) PROVE TypeOK'
  BY <1>3, TickTakes, TickTyped
<1>4. ASSUME NEW p \in Places, Move(p) PROVE TypeOK'
  BY <1>4 DEF Move
<1>5. ASSUME NEW i \in DOMAIN net, Deliver(i) PROVE TypeOK'
  <2> DEFINE m == net[i]
  <2>0. m \in Message
    OBVIOUS
  <2> HIDE DEF m
  <2>1. m.col \in Columns /\ m.block \in Blocks
    BY <2>0 DEF Message
  <2>2. net' \in Seq(Message)
    BY <1>5, RemoveAtPlaces DEF Deliver
  <2>3. faults' \in 0 .. MaxFaults
    BY <1>5 DEF Deliver
  <2>4. missed' \in SUBSET Columns
    BY <1>5, <2>1 DEF Deliver, m
  <2>5. InsertChunk(m) \/ EvictChunk(m) \/ KeepChange(m)
    BY <1>5 DEF Deliver, m
  <2>6. /\ have' \in [Columns -> {"absent", "idle", "busy"}]
        /\ copy' \in [Columns -> Blocks]
        /\ changes' \in Seq(Change) /\ Len(changes') <= PendingLimit
    <3>1. CASE InsertChunk(m)
      BY <2>1, <3>1 DEF InsertChunk
    <3>2. CASE EvictChunk(m)
      BY <2>1, <3>2 DEF EvictChunk
    <3>3. CASE KeepChange(m)
      <4>1. [col |-> m.col, block |-> m.block] \in Change
        BY <2>1 DEF Change
      <4> QED  BY <3>3, <4>1 DEF KeepChange
    <3> QED  BY <2>5, <3>1, <3>2, <3>3
  <2> QED
    BY <1>5, <2>2, <2>3, <2>4, <2>6 DEF Deliver
<1>6. CASE Frame
  <2>1. /\ changes' = <<>> /\ missed' \in SUBSET Columns
        /\ have' \in [Columns -> {"absent", "idle", "busy"}]
        /\ copy' \in [Columns -> Blocks]
        /\ UNCHANGED <<serverVars, trail, net, here, skipped, edits, moves, faults>>
        /\ strayed' \in SUBSET Columns
    BY <1>6, FrameDoes
  <2>2. changes' \in Seq(Change) /\ Len(changes') <= PendingLimit
    BY <2>1
  <2> QED  BY <2>1, <2>2
<1>7. ASSUME NEW i \in DOMAIN net, Lose(i) PROVE TypeOK'
  <2> DEFINE m == net[i]
  <2>0. m \in Message
    OBVIOUS
  <2> HIDE DEF m
  <2>1. m.col \in Columns
    BY <2>0 DEF Message
  <2>2. missed' \in SUBSET Columns /\ faults' \in 0 .. MaxFaults
    <3>1. missed' = missed \/ missed' = missed \cup {m.col}
      BY <1>7 DEF Lose, m
    <3>2. faults' \in 0 .. MaxFaults
      BY <1>7 DEF Lose
    <3> QED  BY <2>1, <3>1, <3>2
  <2>3. net' \in Seq(Message)
    BY <1>7, RemoveAtPlaces DEF Lose
  <2> QED  BY <1>7, <2>2, <2>3 DEF Lose
<1>8. CASE UNCHANGED vars
  BY <1>8 DEF vars
<1> QED
  BY <1>1, <1>2, <1>3, <1>4, <1>5, <1>6, <1>7, <1>8 DEF Next

-----------------------------------------------------------------------------
(* Messages on their way, before and after a tick and a delivery.          *)

LEMMA TickPlaces ==
  ASSUME TypeOK, InRange, NEW p \in Places, ServerTick(p),
         live' \in [Columns -> Blocks]
  PROVE  /\ \A k \in DOMAIN net : k \in DOMAIN net' /\ net'[k] = net[k]
         /\ \A k \in DOMAIN net' :
              \/ k \in DOMAIN net
              \/ /\ \A j \in DOMAIN net : j < k
                 /\ \/ net'[k].kind = "unload" /\ net'[k].col \in ToUnload(p)
                    \/ /\ net'[k].kind = "data"
                       /\ net'[k].col \in ToSend(p)
                       /\ net'[k].block = live'[net'[k].col]
                       /\ Updated(p)[net'[k].col] # "generating"
         /\ \A c \in ToSend(p) \ Oversized :
              Updated(p)[c] # "generating" =>
                \E k \in DOMAIN net' \ DOMAIN net :
                  net'[k].kind = "data" /\ net'[k].col = c
         /\ \A j, k \in DOMAIN net' \ DOMAIN net :
              /\ net'[j].kind = "data" /\ net'[k].kind = "data"
              /\ net'[j].col = net'[k].col
              => j = k
<1>1. PICK u \in Seq(Message), d \in Seq(Message) :
        net' = (net \o u) \o d /\ UnloadsOf(p, u) /\ ColumnsOf(p, d)
  BY TickSends DEF InRange
<1> DEFINE nu == net \o u
<1>2. net \in Seq(Message) /\ Len(net) \in Nat /\ DOMAIN net = 1 .. Len(net)
  BY DEF TypeOK
<1>3. /\ nu \in Seq(Message) /\ Len(nu) = Len(net) + Len(u)
      /\ \A k \in DOMAIN net : k \in DOMAIN nu /\ nu[k] = net[k]
      /\ \A k \in DOMAIN u : nu[Len(net) + k] = u[k]
      /\ \A k \in DOMAIN nu :
           k \in DOMAIN net \/ (k - Len(net) \in DOMAIN u /\ k > Len(net))
  BY <1>2, ConcatPlaces
<1> HIDE DEF nu
<1>4. /\ \A k \in DOMAIN nu : k \in DOMAIN net' /\ net'[k] = nu[k]
      /\ \A k \in DOMAIN d : /\ Len(nu) + k \in DOMAIN net'
                             /\ net'[Len(nu) + k] = d[k]
      /\ \A k \in DOMAIN net' :
           k \in DOMAIN nu \/ (k - Len(nu) \in DOMAIN d /\ k > Len(nu))
  BY <1>1, <1>3, ConcatPlaces DEF nu
<1>5. /\ Len(u) \in Nat /\ DOMAIN u = 1 .. Len(u)
      /\ Len(d) \in Nat /\ DOMAIN d = 1 .. Len(d)
      /\ Len(nu) \in Nat /\ DOMAIN nu = 1 .. Len(nu) /\ Len(nu) >= Len(net)
      /\ \A k \in DOMAIN net' : k \in Nat
  <2>1. net' \in Seq(Message)
    BY <1>1, <1>3, ConcatPlaces DEF nu
  <2> QED  BY <1>2, <1>3, <2>1
<1>6. \A k \in DOMAIN net : k \in DOMAIN net' /\ net'[k] = net[k]
  BY <1>3, <1>4
<1>7. ASSUME NEW k \in DOMAIN net', k \notin DOMAIN net
      PROVE  \/ /\ k - Len(net) \in DOMAIN u /\ k > Len(net)
                /\ net'[k] = u[k - Len(net)]
             \/ /\ k - Len(nu) \in DOMAIN d /\ k > Len(nu) /\ k > Len(net)
                /\ net'[k] = d[k - Len(nu)]
  <2>1. CASE k \in DOMAIN nu
    <3>1. /\ k - Len(net) \in DOMAIN u /\ k > Len(net)
          /\ net'[k] = nu[k] /\ nu[Len(net) + (k - Len(net))] = u[k - Len(net)]
      BY <1>3, <1>4, <1>7, <2>1
    <3>2. Len(net) + (k - Len(net)) = k
      BY <1>2, <1>5
    <3> QED  BY <3>1, <3>2
  <2>2. CASE k - Len(nu) \in DOMAIN d /\ k > Len(nu)
    <3>1. k \in Nat /\ k > Len(net)
      BY <1>2, <1>5, <2>2
    <3>2. Len(nu) + (k - Len(nu)) = k
      BY <1>5, <3>1
    <3> QED  BY <1>4, <2>2, <3>1, <3>2
  <2> QED  BY <1>4, <2>1, <2>2
<1>8. ASSUME NEW k \in DOMAIN net', k \notin DOMAIN net
      PROVE  /\ \A j \in DOMAIN net : j < k
             /\ \/ net'[k].kind = "unload" /\ net'[k].col \in ToUnload(p)
                \/ /\ net'[k].kind = "data"
                   /\ net'[k].col \in ToSend(p)
                   /\ net'[k].block = live'[net'[k].col]
                   /\ Updated(p)[net'[k].col] # "generating"
  <2>1. \A j \in DOMAIN net : j < k
    BY <1>2, <1>5, <1>7, <1>8
  <2> QED  BY <1>1, <1>7, <1>8, <2>1 DEF UnloadsOf, ColumnsOf
<1>9. ASSUME NEW c \in ToSend(p) \ Oversized, Updated(p)[c] # "generating"
       PROVE  \E k \in DOMAIN net' \ DOMAIN net :
                net'[k].kind = "data" /\ net'[k].col = c
  <2>1. PICK k \in DOMAIN d : d[k].kind = "data" /\ d[k].col = c
    BY <1>1, <1>9 DEF ColumnsOf
  <2>2. Len(nu) + k \in DOMAIN net' \ DOMAIN net /\ net'[Len(nu) + k] = d[k]
    BY <1>2, <1>3, <1>4, <1>5
  <2> QED  BY <2>1, <2>2
<1>10. ASSUME NEW j \in DOMAIN net' \ DOMAIN net, NEW k \in DOMAIN net' \ DOMAIN net,
              net'[j].kind = "data", net'[k].kind = "data",
              net'[j].col = net'[k].col
       PROVE  j = k
  <2>1. /\ j - Len(nu) \in DOMAIN d /\ net'[j] = d[j - Len(nu)]
        /\ k - Len(nu) \in DOMAIN d /\ net'[k] = d[k - Len(nu)]
    BY <1>1, <1>7, <1>10 DEF UnloadsOf
  <2>2. j - Len(nu) = k - Len(nu)
    BY <1>1, <1>10, <2>1 DEF ColumnsOf
  <2>3. j \in Int /\ k \in Int /\ Len(nu) \in Int
    BY <1>1, <1>3, <1>5, <1>7
  <2> QED  BY <2>2, <2>3
<1> QED  BY <1>6, <1>8, <1>9, <1>10

LEMMA TakenPlaces ==
  ASSUME TypeOK, NEW i \in DOMAIN net, net' = RemoveAt(net, i)
  PROVE  /\ i \in Nat /\ DOMAIN net \subseteq Nat /\ DOMAIN net' \subseteq Nat
         /\ \A k \in DOMAIN net' : /\ Before(i, k) \in DOMAIN net \ {i}
                                   /\ net'[k] = net[Before(i, k)]
         /\ \A k \in DOMAIN net \ {i} : /\ After(i, k) \in DOMAIN net'
                                        /\ Before(i, After(i, k)) = k
         /\ \A j, k \in Nat : /\ j < k <=> Before(i, j) < Before(i, k)
                              /\ j <= k <=> Before(i, j) <= Before(i, k)
<1>1. net \in Seq(Message) /\ i \in 1 .. Len(net) /\ net' = RemoveAt(net, i)
  BY DEF TypeOK
<1>2. /\ net' \in Seq(Message)
      /\ \A k \in DOMAIN net' : /\ Before(i, k) \in DOMAIN net \ {i}
                                /\ net'[k] = net[Before(i, k)]
      /\ \A k \in DOMAIN net \ {i} : /\ After(i, k) \in DOMAIN net'
                                     /\ Before(i, After(i, k)) = k
  BY <1>1, RemoveAtPlaces
<1>3. i \in Nat /\ DOMAIN net \subseteq Nat /\ DOMAIN net' \subseteq Nat
  BY <1>1, <1>2
<1>4. \A j, k \in Nat : /\ j < k <=> Before(i, j) < Before(i, k)
                        /\ j <= k <=> Before(i, j) <= Before(i, k)
  BY <1>3 DEF Before
<1> QED  BY <1>2, <1>3, <1>4

-----------------------------------------------------------------------------
(* What one message does to the client's copy of a column.                 *)

LEMMA OnItsWay ==
  ASSUME TypeOK, NEW i \in DOMAIN net
  PROVE  /\ net[i].kind \in {"data", "change", "unload"}
         /\ net[i].col \in Columns /\ net[i].block \in Blocks /\ i \in Nat
<1>1. net[i] \in Message /\ i \in Nat
  BY DEF TypeOK
<1> QED  BY <1>1 DEF Message

LEMMA DeliverDoes ==
  ASSUME TypeOK, NEW i \in DOMAIN net, Deliver(i), NEW c \in Columns
  PROVE  /\ UNCHANGED <<streamed, skipped, strayed, overlay, live, made, here>>
         /\ net' = RemoveAt(net, i)
         /\ missed \subseteq missed'
         /\ net[i].col # c => have'[c] = have[c] /\ copy'[c] = copy[c]
         /\ c \notin missed' /\ net[i].col = c =>
              /\ \A j \in 1 .. i - 1 : net[j].col # c
              /\ net[i].kind = "data" =>
                   Present(c)' /\ copy'[c] = net[i].block
              /\ net[i].kind = "change" =>
                   changes' = Append(changes, [col |-> c, block |-> net[i].block])
         /\ net[i].kind = "data" => UNCHANGED changes
         /\ net[i].kind = "unload" =>
              UNCHANGED <<copy, changes>> /\ (Present(c)' => Present(c))
         /\ net[i].kind = "change" =>
              /\ UNCHANGED <<have, copy>>
              /\ \/ UNCHANGED changes
                 \/ changes' = Append(changes, [col |-> net[i].col,
                                                block |-> net[i].block])
<1> PICK m : m = net[i]
  OBVIOUS
<1>1. /\ m.kind \in {"data", "change", "unload"} /\ m.col \in Columns
      /\ have \in [Columns -> {"absent", "idle", "busy"}]
      /\ copy \in [Columns -> Blocks]
      /\ Len(changes) \in Nat /\ Len(changes) <= PendingLimit
  BY OnItsWay DEF TypeOK
<1>2. /\ UNCHANGED <<streamed, skipped, strayed, overlay, live, made, here>>
      /\ net' = RemoveAt(net, i)
      /\ missed \subseteq missed'
      /\ InsertChunk(m) \/ EvictChunk(m) \/ KeepChange(m)
      /\ m.col \notin missed' =>
           /\ \A j \in 1 .. i - 1 : net[j].col # m.col
           /\ m.kind = "data" => have[m.col] # "busy"
           /\ m.kind = "change" => Len(changes) # PendingLimit
  BY DEF Deliver, serverVars
<1>3. CASE InsertChunk(m)
  BY <1>1, <1>2, <1>3 DEF InsertChunk, Present
<1>4. CASE EvictChunk(m)
  BY <1>1, <1>2, <1>4 DEF EvictChunk, Present
<1>5. CASE KeepChange(m)
  <2>1. m.col \notin missed' =>
          changes' = Append(changes, [col |-> m.col, block |-> m.block])
    <3>1. m.col \notin missed' => Len(changes) < PendingLimit
      BY <1>1, <1>2, <1>5, TerrainAssumption DEF KeepChange
    <3> QED  BY <1>5, <3>1 DEF KeepChange
  <2> QED  BY <1>1, <1>2, <1>5, <2>1 DEF KeepChange, Present
<1> QED  BY <1>2, <1>3, <1>4, <1>5

-----------------------------------------------------------------------------
(* What is recorded as streamed is there: of the columns and unloads on    *)
(* their way the last one is the column, and where none is on its way the  *)
(* client has the column, unless it has freed it as strayed.               *)

Stream(c) == {i \in DOMAIN net : net[i].col = c /\ net[i].kind # "change"}

Streamed(c) ==
  /\ \A i \in Stream(c) :
       (\A k \in Stream(c) : k <= i) => net[i].kind = "data"
  /\ Stream(c) = {} => Present(c)

Told == streamed \ (Oversized \cup skipped \cup missed \cup strayed)

StreamInv == TypeOK /\ InRange /\ \A c \in Told : Streamed(c)

LEMMA StreamInvInit == Init => StreamInv
<1> SUFFICES ASSUME Init PROVE StreamInv
  OBVIOUS
<1> USE TerrainAssumption
<1>1. TypeOK
  <2>1. <<>> \in Seq(Message) /\ <<>> \in Seq(Change) /\ Len(<<>>) = 0
    OBVIOUS
  <2>2. 0 \in Blocks
    BY DEF Blocks
  <2> QED  BY <2>1, <2>2 DEF Init, TypeOK
<1>2. InRange
  BY DEF Init, InRange
<1> QED  BY <1>1, <1>2 DEF Init, StreamInv, Told

LEMMA InRangeStep ==
  ASSUME TypeOK, InRange, [Next]_vars
  PROVE  InRange'
<1> USE DEF InRange
<1>1. ASSUME NEW p \in Places, ServerTick(p) PROVE InRange'
  <2>1. center' = p /\ streamed' = (streamed \ ToUnload(p)) \cup ToSend(p)
    BY <1>1 DEF ServerTick
  <2>2. streamed' \subseteq Within(p, Radius)
    BY <2>1 DEF ToUnload, ToSend
  <2> QED  BY <2>1, <2>2 DEF Within, Distance
<1>2. ASSUME NEW k \in 0 .. Len(trail), Tick(k) PROVE InRange'
  BY <1>1, <1>2, TickTakes
<1>3. ASSUME UNCHANGED <<center, streamed>> PROVE InRange'
  BY <1>3 DEF Within, Distance
<1>4. ASSUME NEW c \in EditedColumns, Edit(c) PROVE InRange'
  BY <1>3, <1>4 DEF Edit
<1>5. ASSUME NEW c \in Columns, Generated(c) PROVE InRange'
  BY <1>3, <1>5 DEF Generated
<1>6. ASSUME NEW p \in Places, Move(p) PROVE InRange'
  BY <1>3, <1>6 DEF Move, serverVars
<1>7. ASSUME NEW i \in DOMAIN net, Deliver(i) \/ Lose(i) PROVE InRange'
  BY <1>3, <1>7 DEF Deliver, Lose, serverVars
<1>8. CASE Frame
  BY <1>3, <1>8, FrameDoes DEF serverVars
<1>9. CASE UNCHANGED vars
  BY <1>3, <1>9 DEF vars, serverVars
<1> QED
  BY <1>2, <1>4, <1>5, <1>6, <1>7, <1>8, <1>9 DEF Next

\* A step that leaves the columns and unloads on their way alone.
LEMMA StreamStands ==
  ASSUME NEW c, Streamed(c), Stream(c)' = Stream(c), Present(c) => Present(c)',
         \A i \in Stream(c) : net'[i].kind = net[i].kind
  PROVE  Streamed(c)'
BY DEF Streamed

LEMMA EditStreams ==
  ASSUME StreamInv, NEW e \in EditedColumns, Edit(e), NEW c \in Told'
  PROVE  Streamed(c)'
<1>1. /\ net' = Append(net, Msg("change", e, edits'))
      /\ UNCHANGED <<streamed, skipped, strayed, have>> /\ missed \subseteq missed'
  BY DEF Edit, clientVars
<1>2. c \in Told /\ (Present(c) => Present(c)')
  BY <1>1 DEF Told, Present
<1>3. net \in Seq(Message)
  BY DEF StreamInv, TypeOK
<1>4. /\ \A i \in DOMAIN net : i \in DOMAIN net' /\ net'[i] = net[i]
      /\ \A i \in DOMAIN net' : i \in DOMAIN net \/ net'[i].kind = "change"
  BY <1>1, <1>3 DEF Msg
<1>5. Stream(c)' = Stream(c) /\ \A i \in Stream(c) : net'[i].kind = net[i].kind
  BY <1>4 DEF Stream
<1> QED  BY <1>2, <1>5, StreamStands DEF StreamInv

LEMMA TickStreams ==
  ASSUME StreamInv, NEW p \in Places, ServerTick(p), trail' \in Seq(Places),
         NEW c \in Told'
  PROVE  Streamed(c)'
<1>1. /\ streamed' = (streamed \ ToUnload(p)) \cup ToSend(p)
      /\ skipped' = (skipped \ ToUnload(p))
           \cup {d \in ToSend(p) : Updated(p)[d] = "generating"}
      /\ strayed' = strayed \ ToUnload(p)
      /\ UNCHANGED <<missed, have>>
  BY DEF ServerTick, clientVars
<1>2. /\ \A k \in DOMAIN net : k \in DOMAIN net' /\ net'[k] = net[k]
      /\ \A k \in DOMAIN net' :
           \/ k \in DOMAIN net
           \/ /\ \A j \in DOMAIN net : j < k
              /\ \/ net'[k].kind = "unload" /\ net'[k].col \in ToUnload(p)
                 \/ net'[k].kind = "data" /\ net'[k].col \in ToSend(p)
      /\ \A d \in ToSend(p) \ Oversized :
           Updated(p)[d] # "generating" =>
             \E k \in DOMAIN net' \ DOMAIN net :
               net'[k].kind = "data" /\ net'[k].col = d
  BY TickPlaces, TickTyped DEF StreamInv, TypeOK
<1>3. c \notin ToUnload(p) /\ c \notin Oversized /\ c \notin skipped'
  BY <1>1 DEF Told, ToUnload, ToSend
<1>4. CASE c \in ToSend(p)
  <2>1. PICK e \in DOMAIN net' \ DOMAIN net :
          net'[e].kind = "data" /\ net'[e].col = c
    BY <1>1, <1>2, <1>3, <1>4
  <2>2. e \in Stream(c)' /\ \A j \in DOMAIN net : j < e
    BY <1>2, <2>1 DEF Stream
  <2>3. ASSUME NEW i \in Stream(c)', \A k \in Stream(c)' : k <= i
        PROVE  net'[i].kind = "data"
    <3>1. i \notin DOMAIN net
      <4>1. ASSUME i \in DOMAIN net PROVE FALSE
        <5>1. i < e /\ e <= i
          BY <2>2, <2>3, <4>1
        <5>2. i \in Int /\ e \in Int
          BY <4>1, <2>1, TickTyped DEF StreamInv, TypeOK
        <5> QED  BY <5>1, <5>2
      <4> QED  BY <4>1
    <3> QED  BY <1>2, <1>3, <2>3, <3>1 DEF Stream
  <2> QED  BY <2>2, <2>3 DEF Streamed
<1>5. CASE c \notin ToSend(p)
  <2>1. c \in Told /\ (Present(c) => Present(c)')
    BY <1>1, <1>3, <1>5 DEF Told, Present
  <2>2. Stream(c)' = Stream(c) /\ \A i \in Stream(c) : net'[i].kind = net[i].kind
    BY <1>2, <1>3, <1>5 DEF Stream
  <2> QED  BY <2>1, <2>2, StreamStands DEF StreamInv
<1> QED  BY <1>4, <1>5

\* A message is taken out.  The last of what is left was the last before,
\* unless the last was taken: that was the column.
LEMMA TakenStreams ==
  ASSUME TypeOK, NEW i \in DOMAIN net, net' = RemoveAt(net, i),
         NEW c, Streamed(c),
         i \in Stream(c) /\ net[i].kind = "data" =>
           Present(c)' /\ \A j \in Stream(c) : i <= j,
         i \notin Stream(c) /\ Present(c) => Present(c)'
  PROVE  Streamed(c)'
<1>1. /\ i \in Nat /\ DOMAIN net \subseteq Nat /\ DOMAIN net' \subseteq Nat
      /\ \A k \in DOMAIN net' : /\ Before(i, k) \in DOMAIN net \ {i}
                                /\ net'[k] = net[Before(i, k)]
      /\ \A k \in DOMAIN net \ {i} : /\ After(i, k) \in DOMAIN net'
                                     /\ Before(i, After(i, k)) = k
      /\ \A j, k \in Nat : /\ j < k <=> Before(i, j) < Before(i, k)
                           /\ j <= k <=> Before(i, j) <= Before(i, k)
  BY TakenPlaces
<1>2. /\ \A k \in Stream(c)' : /\ Before(i, k) \in Stream(c) \ {i}
                               /\ net'[k] = net[Before(i, k)]
      /\ \A k \in Stream(c) \ {i} : /\ After(i, k) \in Stream(c)'
                                    /\ Before(i, After(i, k)) = k
      /\ Stream(c) \subseteq Nat /\ Stream(c)' \subseteq Nat
  BY <1>1 DEF Stream
<1>3. ASSUME NEW k \in Stream(c)', \A j \in Stream(c)' : j <= k
      PROVE  net'[k].kind = "data"
  <2>1. \A j \in Stream(c) \ {i} : j <= Before(i, k)
    BY <1>1, <1>2, <1>3
  <2>2. Before(i, k) \in Stream(c) \ {i} /\ net'[k] = net[Before(i, k)]
    BY <1>2
  <2>3. i \in Stream(c) => i <= Before(i, k)
    <3>1. SUFFICES ASSUME i \in Stream(c), ~(i <= Before(i, k)) PROVE FALSE
      OBVIOUS
    <3>2. \A j \in Stream(c) : j <= i
      BY <1>1, <1>2, <2>1, <2>2, <3>1
    <3>3. net[i].kind = "data"
      BY <3>1, <3>2 DEF Streamed
    <3> QED  BY <2>2, <3>1, <3>3
  <2>4. \A j \in Stream(c) : j <= Before(i, k)
    BY <2>1, <2>3
  <2> QED  BY <2>2, <2>4 DEF Streamed
<1>4. ASSUME Stream(c)' = {} PROVE Present(c)'
  <2>1. Stream(c) \subseteq {i}
    BY <1>2, <1>4
  <2>2. CASE i \in Stream(c)
    <3>1. \A k \in Stream(c) : k <= i
      BY <1>1, <2>1
    <3>2. net[i].kind = "data"
      BY <2>2, <3>1 DEF Streamed
    <3> QED  BY <2>2, <3>2
  <2>3. CASE i \notin Stream(c)
    BY <2>1, <2>3 DEF Streamed
  <2> QED  BY <2>2, <2>3
<1> QED  BY <1>3, <1>4 DEF Streamed

LEMMA DeliveryStreams ==
  ASSUME StreamInv, NEW i \in DOMAIN net, Deliver(i), NEW c \in Told'
  PROVE  Streamed(c)'
<1>1. UNCHANGED <<streamed, skipped, strayed>> /\ missed \subseteq missed'
  BY DEF Deliver, serverVars
<1>2. c \in Told /\ c \in Columns /\ c \notin missed' /\ Streamed(c) /\ TypeOK
  BY <1>1 DEF Told, StreamInv, TypeOK
<1>3. /\ net[i].col # c => have'[c] = have[c]
      /\ net[i].col = c =>
           /\ \A j \in 1 .. i - 1 : net[j].col # c
           /\ net[i].kind = "data" => Present(c)'
      /\ net[i].kind = "change" => have' = have
      /\ net' = RemoveAt(net, i) /\ i \in Nat
  BY <1>2, DeliverDoes, OnItsWay
<1>4. ASSUME i \in Stream(c), NEW j \in Stream(c) PROVE i <= j
  <2>1. net[i].col = c /\ net[j].col = c /\ j \in Nat /\ j >= 1
    BY <1>2, <1>4 DEF Stream, TypeOK
  <2> QED  BY <1>3, <2>1
<1>5. i \in Stream(c) /\ net[i].kind = "data" => Present(c)'
  BY <1>3 DEF Stream
<1>6. i \notin Stream(c) /\ Present(c) => Present(c)'
  BY <1>3 DEF Stream, Present
<1> QED  BY <1>2, <1>3, <1>4, <1>5, <1>6, TakenStreams

\* What is lost makes its column a missed one, unless it is an unload.
LEMMA LossStreams ==
  ASSUME StreamInv, NEW i \in DOMAIN net, Lose(i), NEW c \in Told'
  PROVE  Streamed(c)'
<1>1. /\ UNCHANGED <<streamed, skipped, strayed, have>> /\ missed \subseteq missed'
      /\ net' = RemoveAt(net, i)
      /\ net[i].kind # "unload" => net[i].col \in missed'
  BY DEF Lose, serverVars, clientVars
<1>2. c \in Told /\ c \notin missed' /\ Streamed(c) /\ TypeOK
  BY <1>1 DEF Told, StreamInv
<1>3. i \in Stream(c) => net[i].kind # "data"
  BY <1>1, <1>2 DEF Stream
<1>4. Present(c) => Present(c)'
  BY <1>1 DEF Present
<1> QED  BY <1>1, <1>2, <1>3, <1>4, TakenStreams

\* A frame frees a streamed column only as strayed.
LEMMA FrameStreams ==
  ASSUME StreamInv, Frame, NEW c \in Told'
  PROVE  Streamed(c)'
<1>1. /\ UNCHANGED <<streamed, net, skipped>>
      /\ missed \subseteq missed' /\ strayed \subseteq strayed'
      /\ \A d \in Columns :
           Present(d) /\ ~Present(d)' /\ d \in streamed => d \in strayed'
  BY FrameDoes DEF StreamInv, serverVars
<1>2. c \in Told /\ c \in streamed /\ c \notin strayed' /\ c \in Columns
  BY <1>1 DEF Told, StreamInv, TypeOK
<1>3. Stream(c)' = Stream(c) /\ \A i \in Stream(c) : net'[i].kind = net[i].kind
  BY <1>1 DEF Stream
<1>4. Present(c) => Present(c)'
  BY <1>1, <1>2
<1> QED  BY <1>2, <1>3, <1>4, StreamStands DEF StreamInv

LEMMA StreamInvStep == ASSUME StreamInv, [Next]_vars PROVE StreamInv'
<1>1. TypeOK' /\ InRange'
  BY TerrainTyped, InRangeStep DEF StreamInv
<1>2. ASSUME NEW c \in Told' PROVE Streamed(c)'
  <2>1. ASSUME NEW e \in EditedColumns, Edit(e) PROVE Streamed(c)'
    BY <1>2, <2>1, EditStreams
  <2>2. ASSUME UNCHANGED <<streamed, net, have, skipped, missed, strayed>>
        PROVE  Streamed(c)'
    BY <1>2, <2>2 DEF StreamInv, Told, Streamed, Stream, Present
  <2>3. ASSUME NEW e \in Columns, Generated(e) PROVE Streamed(c)'
    BY <2>2, <2>3 DEF Generated, clientVars, historyVars
  <2>4. ASSUME NEW k \in 0 .. Len(trail), Tick(k) PROVE Streamed(c)'
    BY <1>2, <2>4, TickTakes, TickStreams DEF StreamInv
  <2>5. ASSUME NEW p \in Places, Move(p) PROVE Streamed(c)'
    BY <2>2, <2>5 DEF Move, serverVars, historyVars
  <2>6. ASSUME NEW i \in DOMAIN net, Deliver(i) \/ Lose(i) PROVE Streamed(c)'
    BY <1>2, <2>6, DeliveryStreams, LossStreams
  <2>7. CASE Frame
    BY <1>2, <2>7, FrameStreams
  <2>8. CASE UNCHANGED vars
    BY <2>2, <2>8 DEF vars, serverVars, clientVars, historyVars
  <2> QED
    BY <2>1, <2>3, <2>4, <2>5, <2>6, <2>7, <2>8 DEF Next
<1> QED  BY <1>1, <1>2 DEF StreamInv

LEMMA StreamInvariant == Spec => []StreamInv
BY StreamInvInit, StreamInvStep, PTL DEF Spec

\* Types of the terrain and of its copy.
THEOREM TerrainTypeCorrect == Spec => []TypeOK
<1>1. StreamInv => TypeOK
  BY DEF StreamInv
<1> QED  BY <1>1, StreamInvariant, PTL

\* What server_stream_chunks has recorded as streamed is at the client or on
\* its way (server.c, world.c), for every number of columns, every radius and
\* every order of edits, ticks, deliveries, losses and frames, and however far
\* the player jumps, but for columns that were skipped, are too large, were
\* missed, or that the client freed before the server knew where it was.
THEOREM StreamedColumnsAreThere == Spec => []StreamedIsThere
<1>1. StreamInv => StreamedIsThere
  <2> SUFFICES ASSUME StreamInv, NEW c \in Told
               PROVE  IF Stream(c) = {} THEN Present(c)
                      ELSE net[Max(Stream(c))].kind = "data"
    BY DEF StreamedIsThere, Told, Stream
  <2>1. Stream(c) \in SUBSET (1 .. Len(net)) /\ Len(net) \in Nat
    BY DEF StreamInv, TypeOK, Stream
  <2>2. Stream(c) # {} =>
          Max(Stream(c)) \in Stream(c) /\ \A k \in Stream(c) : k <= Max(Stream(c))
    BY <2>1, MaxIsLast
  <2> QED  BY <2>2 DEF StreamInv, Streamed
<1> QED  BY <1>1, StreamInvariant, PTL

-----------------------------------------------------------------------------
(* The copy follows the server's block.  The newest block on its way is    *)
(* the overlay's; where none is on its way it is the newest that is kept   *)
(* for the end of the frame, and where none is kept it is the copy.  A     *)
(* column that is sent shows the block that was last sent before it, so    *)
(* that it may replace a copy for which a change is still kept.            *)

Follows(c) ==
  /\ made[c] = "made" => live[c] = overlay[c]
  /\ \A i \in Sent(c) :
       (\A k \in Sent(c) : k <= i) => net[i].block = overlay[c]
  /\ Sent(c) = {} =>
       \A i \in News(c) :
         (\A k \in News(c) : k <= i) => changes[i].block = overlay[c]
  /\ Sent(c) = {} /\ News(c) = {} /\ Present(c) => copy[c] = overlay[c]
  /\ \A i, j \in Sent(c) :
       i < j /\ net[j].kind = "data" /\ (\A k \in Sent(c) : k <= i \/ j <= k)
         => net[i].block = net[j].block
  /\ \A i \in News(c), j \in Sent(c) :
       (\A k \in News(c) : k <= i) /\ (\A k \in Sent(c) : j <= k)
       /\ net[j].kind = "data" => changes[i].block = net[j].block

FollowInv == StreamInv /\ \A c \in Columns \ missed : Follows(c)

\* A step after which nothing new of the column is on its way or kept.
LEMMA FollowStands ==
  ASSUME NEW c, Follows(c), Sent(c)' = Sent(c), News(c)' = News(c),
         \A i \in Sent(c) : net'[i] = net[i],
         \A i \in News(c) : changes'[i] = changes[i],
         overlay'[c] = overlay[c], copy'[c] = copy[c],
         Present(c)' => Present(c), made'[c] = "made" => live'[c] = overlay[c]
  PROVE  Follows(c)'
BY DEF Follows

\* A step that sends one more block of the column.
LEMMA FollowMore ==
  ASSUME TypeOK, TypeOK', NEW c, Follows(c), NEW n \in Nat,
         Sent(c)' = Sent(c) \cup {n}, \A k \in Sent(c) : k < n,
         \A k \in Sent(c) : net'[k] = net[k],
         UNCHANGED changes, net'[n].block = overlay'[c],
         net'[n].kind = "data" => overlay'[c] = overlay[c],
         made'[c] = "made" => live'[c] = overlay'[c]
  PROVE  Follows(c)'
<1>1. /\ Sent(c) \in SUBSET Nat /\ News(c)' = News(c)
  BY PlacesAreBounded DEF News
<1>2. ASSUME NEW i \in Sent(c)', \A k \in Sent(c)' : k <= i
      PROVE  net'[i].block = overlay'[c]
  <2>1. ~(i < n)
    BY <1>1, <1>2
  <2> QED  BY <1>1, <1>2, <2>1
<1>3. ASSUME NEW i \in Sent(c)', NEW j \in Sent(c)', i < j,
             net'[j].kind = "data", \A k \in Sent(c)' : k <= i \/ j <= k
      PROVE  net'[i].block = net'[j].block
  <2>1. i \in Sent(c) /\ i # n
    BY <1>1, <1>3
  <2>2. CASE j = n
    <3>1. \A k \in Sent(c) : k <= i
      BY <1>1, <1>3, <2>2
    <3>2. net[i].block = overlay[c]
      BY <2>1, <3>1 DEF Follows
    <3> QED  BY <1>3, <2>1, <2>2, <3>2
  <2>3. CASE j # n
    <3>1. j \in Sent(c) /\ net[j].kind = "data" /\ net[j] = net'[j]
      BY <1>3, <2>3
    <3> QED  BY <1>3, <2>1, <3>1 DEF Follows
  <2> QED  BY <2>2, <2>3
<1>4. ASSUME NEW i \in News(c), NEW j \in Sent(c)', \A k \in News(c) : k <= i,
             \A k \in Sent(c)' : j <= k, net'[j].kind = "data"
      PROVE  changes[i].block = net'[j].block
  <2>1. CASE j = n
    <3>1. Sent(c) = {}
      BY <1>1, <1>4, <2>1
    <3> QED  BY <1>4, <2>1, <3>1 DEF Follows
  <2>2. CASE j # n
    <3>1. j \in Sent(c) /\ net[j].kind = "data" /\ net[j] = net'[j]
      BY <1>4, <2>2
    <3> QED  BY <1>4, <3>1 DEF Follows
  <2> QED  BY <2>1, <2>2
<1>5. Sent(c)' # {}
  OBVIOUS
<1> QED  BY <1>1, <1>2, <1>3, <1>4, <1>5 DEF Follows

LEMMA EditFollows ==
  ASSUME FollowInv, TypeOK', NEW e \in EditedColumns, Edit(e),
         NEW c \in Columns \ missed'
  PROVE  Follows(c)'
<1>1. /\ net' = Append(net, Msg("change", e, edits'))
      /\ overlay' = [overlay EXCEPT ![e] = edits']
      /\ \/ /\ made' = [made EXCEPT ![e] = IF @ = "absent" THEN "made" ELSE @]
            /\ live' = [live EXCEPT ![e] = edits']
         \/ e \in missed' /\ UNCHANGED <<made, live>>
      /\ UNCHANGED <<have, copy, changes>> /\ missed \subseteq missed'
  BY DEF Edit, clientVars
<1>2. Follows(c) /\ TypeOK
  BY <1>1 DEF FollowInv, StreamInv
<1>3. /\ net \in Seq(Message) /\ overlay \in [Columns -> Blocks]
      /\ live \in [Columns -> Blocks] /\ e \in Columns
      /\ made \in [Columns -> {"absent", "generating", "made"}]
  BY <1>2, TerrainAssumption DEF TypeOK
<1> PICK n : n = Len(net) + 1
  OBVIOUS
<1>4. /\ n \in Nat /\ n \notin DOMAIN net /\ \A i \in DOMAIN net : i < n
      /\ \A i \in DOMAIN net : net'[i] = net[i]
      /\ DOMAIN net' = DOMAIN net \cup {n}
      /\ net'[n] = Msg("change", e, edits')
  BY <1>1, <1>3
<1>5. net'[n].kind = "change" /\ net'[n].col = e /\ net'[n].block = edits'
  BY <1>4 DEF Msg
<1>6. CASE c = e
  <2>1. /\ Sent(c)' = Sent(c) \cup {n} /\ \A k \in Sent(c) : k < n
        /\ \A k \in Sent(c) : net'[k] = net[k]
    BY <1>4, <1>5, <1>6 DEF Sent
  <2>2. overlay'[c] = edits' /\ live'[c] = edits'
    BY <1>1, <1>3, <1>6
  <2> QED  BY <1>1, <1>2, <1>4, <1>5, <2>1, <2>2, FollowMore
<1>7. CASE c # e
  <2>1. Sent(c)' = Sent(c) /\ \A k \in Sent(c) : net'[k] = net[k]
    BY <1>4, <1>5, <1>7 DEF Sent
  <2>2. /\ overlay'[c] = overlay[c] /\ live'[c] = live[c] /\ made'[c] = made[c]
        /\ News(c)' = News(c) /\ (Present(c)' => Present(c))
    BY <1>1, <1>3, <1>7 DEF News, Present
  <2>3. made[c] = "made" => live[c] = overlay[c]
    BY <1>2 DEF Follows
  <2> QED  BY <1>1, <1>2, <2>1, <2>2, <2>3, FollowStands
<1> QED  BY <1>6, <1>7

LEMMA TickFollows ==
  ASSUME FollowInv, TypeOK', NEW p \in Places, ServerTick(p),
         NEW c \in Columns \ missed'
  PROVE  Follows(c)'
<1>1. /\ UNCHANGED <<overlay, have, copy, changes, missed>>
      /\ made'[c] = IF c \in ToSend(p) /\ Updated(p)[c] = "absent" THEN "made"
                    ELSE Updated(p)[c]
      /\ live'[c] = IF c \in ToSend(p) /\ Updated(p)[c] = "absent"
                      THEN overlay[c] ELSE live[c]
  BY DEF ServerTick, clientVars
<1>2. Follows(c) /\ TypeOK /\ InRange /\ made[c] \in {"absent", "generating", "made"}
  BY <1>1 DEF FollowInv, StreamInv, TypeOK
<1>3. made'[c] = "made" => live'[c] = overlay[c]
  BY <1>1, <1>2 DEF Updated, Follows
<1>4. /\ \A k \in DOMAIN net : k \in DOMAIN net' /\ net'[k] = net[k]
      /\ \A k \in DOMAIN net' :
           \/ k \in DOMAIN net
           \/ /\ \A j \in DOMAIN net : j < k
              /\ \/ net'[k].kind = "unload"
                 \/ /\ net'[k].kind = "data" /\ net'[k].col \in ToSend(p)
                    /\ net'[k].block = live'[net'[k].col]
                    /\ Updated(p)[net'[k].col] # "generating"
      /\ \A j, k \in DOMAIN net' \ DOMAIN net :
           /\ net'[j].kind = "data" /\ net'[k].kind = "data"
           /\ net'[j].col = net'[k].col
           => j = k
  <2>1. live' \in [Columns -> Blocks]
    BY DEF TypeOK
  <2> QED  BY <1>2, <2>1, TickPlaces
<1>5. News(c)' = News(c) /\ (Present(c)' => Present(c))
  BY <1>1 DEF News, Present
<1>6. CASE \E n \in Sent(c)' : n \notin DOMAIN net
  <2>1. PICK n \in Sent(c)' : n \notin DOMAIN net
    BY <1>6
  <2>2. /\ net'[n].kind = "data" /\ net'[n].col = c /\ c \in ToSend(p)
        /\ net'[n].block = live'[c] /\ Updated(p)[c] # "generating"
        /\ n \in DOMAIN net' \ DOMAIN net /\ \A j \in DOMAIN net : j < n
    BY <1>4, <2>1 DEF Sent
  <2>3. live'[c] = overlay[c]
    BY <1>1, <1>2, <2>2 DEF Updated, Follows
  <2>4. Sent(c)' = Sent(c) \cup {n}
    <3>1. \A k \in Sent(c)' : k \in DOMAIN net \/ k = n
      BY <1>4, <2>2 DEF Sent
    <3> QED  BY <1>4, <2>1, <3>1 DEF Sent
  <2>5. n \in Nat
    BY <2>2 DEF TypeOK
  <2>6. \A k \in Sent(c) : k < n /\ net'[k] = net[k]
    BY <1>4, <2>2 DEF Sent
  <2> QED
    BY <1>1, <1>2, <1>3, <2>2, <2>3, <2>4, <2>5, <2>6, FollowMore
<1>7. CASE \A n \in Sent(c)' : n \in DOMAIN net
  <2>1. Sent(c)' = Sent(c) /\ \A k \in Sent(c) : net'[k] = net[k]
    BY <1>4, <1>7 DEF Sent
  <2> QED  BY <1>1, <1>2, <1>3, <1>5, <2>1, FollowStands
<1> QED  BY <1>6, <1>7

\* A message that holds no block of the column is taken out.
LEMMA OtherTaken ==
  ASSUME TypeOK, NEW i \in DOMAIN net, net' = RemoveAt(net, i),
         NEW c, Follows(c), i \notin Sent(c),
         News(c)' = News(c), \A k \in News(c) : changes'[k] = changes[k],
         overlay'[c] = overlay[c], copy'[c] = copy[c],
         Present(c)' => Present(c), made'[c] = "made" => live'[c] = overlay[c]
  PROVE  Follows(c)'
<1>1. /\ \A k \in Sent(c)' : Before(i, k) \in Sent(c) /\ net'[k] = net[Before(i, k)]
      /\ \A k \in Sent(c) : /\ After(i, k) \in Sent(c)'
                            /\ Before(i, After(i, k)) = k
      /\ Sent(c) \subseteq Nat /\ Sent(c)' \subseteq Nat
      /\ \A j, k \in Nat : /\ j < k <=> Before(i, j) < Before(i, k)
                           /\ j <= k <=> Before(i, j) <= Before(i, k)
  BY TakenPlaces DEF Sent
<1>2. ASSUME NEW n \in Sent(c)', \A k \in Sent(c)' : k <= n
      PROVE  net'[n].block = overlay'[c]
  <2>1. \A k \in Sent(c) : k <= Before(i, n)
    BY <1>1, <1>2
  <2> QED  BY <1>1, <2>1 DEF Follows
<1>3. ASSUME NEW n \in Sent(c)', NEW j \in Sent(c)', n < j,
             net'[j].kind = "data", \A k \in Sent(c)' : k <= n \/ j <= k
      PROVE  net'[n].block = net'[j].block
  <2>1. \A k \in Sent(c) : k <= Before(i, n) \/ Before(i, j) <= k
    BY <1>1, <1>3
  <2>2. Before(i, n) < Before(i, j) /\ net[Before(i, j)].kind = "data"
    BY <1>1, <1>3
  <2> QED  BY <1>1, <2>1, <2>2 DEF Follows
<1>4. ASSUME NEW n \in News(c), NEW j \in Sent(c)', \A k \in News(c) : k <= n,
             \A k \in Sent(c)' : j <= k, net'[j].kind = "data"
      PROVE  changes[n].block = net'[j].block
  <2>1. \A k \in Sent(c) : Before(i, j) <= k
    BY <1>1, <1>4
  <2> QED  BY <1>1, <1>4, <2>1 DEF Follows
<1>5. Sent(c)' = {} <=> Sent(c) = {}
  BY <1>1
<1> QED  BY <1>2, <1>3, <1>4, <1>5 DEF Follows

\* What is lost holds no block of a column that was not missed.
LEMMA LossFollows ==
  ASSUME FollowInv, NEW i \in DOMAIN net, Lose(i), NEW c \in Columns \ missed'
  PROVE  Follows(c)'
<1>1. /\ UNCHANGED <<made, live, overlay, have, copy, changes>>
      /\ missed \subseteq missed' /\ net' = RemoveAt(net, i)
      /\ net[i].kind # "unload" => net[i].col \in missed'
  BY DEF Lose, serverVars, clientVars
<1>2. Follows(c) /\ TypeOK /\ i \notin Sent(c)
  BY <1>1 DEF FollowInv, StreamInv, Sent
<1>3. /\ News(c)' = News(c) /\ Present(c)' = Present(c)
      /\ made[c] = "made" => live[c] = overlay[c]
  BY <1>1, <1>2 DEF News, Present, Follows
<1> QED  BY <1>1, <1>2, <1>3, OtherTaken

LEMMA FrameFollows ==
  ASSUME FollowInv, Frame, NEW c \in Columns \ missed'
  PROVE  Follows(c)'
<1>1. /\ UNCHANGED <<made, live, overlay, net>> /\ missed \subseteq missed'
      /\ changes' = <<>> /\ (Present(c)' => Present(c))
      /\ News(c) = {} => copy'[c] = copy[c]
      /\ Present(c)' /\ News(c) # {} => copy'[c] = changes[Max(News(c))].block
  BY FrameDoes DEF FollowInv, StreamInv, serverVars
<1>2. Follows(c) /\ TypeOK
  BY <1>1 DEF FollowInv, StreamInv
<1>3. Sent(c)' = Sent(c) /\ News(c)' = {}
  BY <1>1 DEF Sent, News
<1>4. ASSUME Sent(c) = {}, Present(c)' PROVE copy'[c] = overlay[c]
  <2>1. CASE News(c) = {}
    BY <1>1, <1>2, <1>4, <2>1 DEF Follows
  <2>2. CASE News(c) # {}
    <3>1. Max(News(c)) \in News(c) /\ \A k \in News(c) : k <= Max(News(c))
      BY <1>2, <2>2, PlacesAreBounded, MaxIsLast
    <3> QED  BY <1>1, <1>2, <1>4, <2>2, <3>1 DEF Follows
  <2> QED  BY <2>1, <2>2
<1> QED  BY <1>1, <1>2, <1>3, <1>4 DEF Follows

LEMMA DeliveryFollows ==
  ASSUME FollowInv, TypeOK', NEW i \in DOMAIN net, Deliver(i),
         NEW c \in Columns \ missed'
  PROVE  Follows(c)'
<1>1. /\ UNCHANGED <<made, live, overlay>> /\ missed \subseteq missed'
      /\ net[i].col # c => have'[c] = have[c] /\ copy'[c] = copy[c]
      /\ net[i].col = c =>
           /\ \A j \in 1 .. i - 1 : net[j].col # c
           /\ net[i].kind = "data" => copy'[c] = net[i].block
           /\ net[i].kind = "change" =>
                changes' = Append(changes, [col |-> c, block |-> net[i].block])
      /\ net[i].kind = "data" => UNCHANGED changes
      /\ net[i].kind = "unload" =>
           UNCHANGED <<copy, changes>> /\ (Present(c)' => Present(c))
      /\ net[i].kind = "change" =>
           /\ UNCHANGED <<have, copy>>
           /\ \/ UNCHANGED changes
              \/ changes' = Append(changes, [col |-> net[i].col,
                                             block |-> net[i].block])
      /\ net[i].kind \in {"data", "change", "unload"} /\ i \in Nat
      /\ net' = RemoveAt(net, i)
  BY DeliverDoes, OnItsWay DEF FollowInv, StreamInv
<1>2. Follows(c) /\ TypeOK
  BY <1>1 DEF FollowInv, StreamInv
<1>3. /\ Sent(c) \subseteq Nat /\ Sent(c)' \subseteq Nat
      /\ \A k \in Sent(c)' : /\ Before(i, k) \in Sent(c) \ {i}
                             /\ net'[k] = net[Before(i, k)]
      /\ \A k \in Sent(c) \ {i} : /\ After(i, k) \in Sent(c)'
                                  /\ Before(i, After(i, k)) = k
      /\ \A j, k \in Nat : /\ j < k <=> Before(i, j) < Before(i, k)
                           /\ j <= k <=> Before(i, j) <= Before(i, k)
  BY <1>1, <1>2, TakenPlaces DEF Sent
<1>4. ASSUME i \in Sent(c), NEW k \in Sent(c) PROVE i <= k
  <2>1. net[i].col = c /\ net[k].col = c /\ k \in DOMAIN net /\ net \in Seq(Message)
    BY <1>2, <1>4 DEF Sent, TypeOK
  <2>2. k \notin 1 .. i - 1
    BY <1>1, <2>1
  <2> QED  BY <1>1, <2>1, <2>2
<1>5. ASSUME NEW n \in Sent(c)', \A k \in Sent(c)' : k <= n
      PROVE  net'[n].block = overlay'[c]
  <2>1. \A k \in Sent(c) \ {i} : k <= Before(i, n)
    BY <1>3, <1>5
  <2>2. \A k \in Sent(c) : k <= Before(i, n)
    BY <1>3, <1>4, <2>1
  <2> QED  BY <1>1, <1>2, <1>3, <2>2 DEF Follows
<1>6. ASSUME NEW n \in Sent(c)', NEW j \in Sent(c)', n < j,
             net'[j].kind = "data", \A k \in Sent(c)' : k <= n \/ j <= k
      PROVE  net'[n].block = net'[j].block
  <2>1. \A k \in Sent(c) \ {i} : k <= Before(i, n) \/ Before(i, j) <= k
    BY <1>3, <1>6
  <2>2. \A k \in Sent(c) : k <= Before(i, n) \/ Before(i, j) <= k
    BY <1>3, <1>4, <2>1
  <2>3. Before(i, n) < Before(i, j) /\ net[Before(i, j)].kind = "data"
    BY <1>3, <1>6
  <2> QED  BY <1>2, <1>3, <2>2, <2>3 DEF Follows
<1>7. CASE i \notin Sent(c)
  <2>1. net[i].col # c \/ net[i].kind = "unload"
    BY <1>1, <1>7 DEF Sent
  <2>2. /\ News(c)' = News(c) /\ \A k \in News(c) : changes'[k] = changes[k]
    <3>1. CASE UNCHANGED changes
      BY <3>1 DEF News
    <3>2. CASE net[i].col # c /\ changes' = Append(changes,
                 [col |-> net[i].col, block |-> net[i].block])
      <4>1. /\ \A k \in DOMAIN changes : /\ k \in DOMAIN changes'
                                         /\ changes'[k] = changes[k]
            /\ \A k \in DOMAIN changes' :
                 k \in DOMAIN changes \/ changes'[k].col = net[i].col
        BY <1>2, <3>2 DEF TypeOK
      <4> QED  BY <3>2, <4>1 DEF News
    <3> QED  BY <1>1, <2>1, <3>1, <3>2
  <2>3. copy'[c] = copy[c] /\ (Present(c)' => Present(c))
    BY <1>1, <2>1 DEF Present
  <2>4. made'[c] = "made" => live'[c] = overlay[c]
    BY <1>1, <1>2 DEF Follows
  <2> QED  BY <1>1, <1>2, <1>7, <2>2, <2>3, <2>4, OtherTaken
<1>8. ASSUME i \in Sent(c), Sent(c)' = {} PROVE net[i].block = overlay[c]
  <2>1. Sent(c) = {i}
    BY <1>3, <1>8
  <2> QED  BY <1>1, <1>2, <2>1 DEF Follows
<1>9. \* The next one repeats this one's block if it is the column.
      ASSUME i \in Sent(c), NEW j \in Sent(c)', \A k \in Sent(c)' : j <= k,
             net'[j].kind = "data"
      PROVE  net[i].block = net'[j].block
  <2>1. \A k \in Sent(c) \ {i} : Before(i, j) <= k
    BY <1>3, <1>9
  <2>2. \A k \in Sent(c) : k <= i \/ Before(i, j) <= k
    BY <1>3, <1>4, <1>9, <2>1
  <2>3. i < Before(i, j) /\ net[Before(i, j)].kind = "data"
    BY <1>3, <1>4, <1>9
  <2> QED  BY <1>2, <1>3, <1>9, <2>2, <2>3 DEF Follows
<1>10. CASE i \in Sent(c) /\ net[i].kind = "data"
  <2>1. copy'[c] = net[i].block /\ UNCHANGED changes /\ News(c)' = News(c)
    BY <1>1, <1>10 DEF Sent, News
  <2>2. ASSUME NEW n \in News(c), \A k \in News(c) : k <= n
        PROVE  changes[n].block = net[i].block
    BY <1>2, <1>4, <1>10, <2>2 DEF Follows
  <2> QED
    BY <1>1, <1>2, <1>5, <1>6, <1>8, <1>9, <1>10, <2>1, <2>2 DEF Follows
<1>11. CASE i \in Sent(c) /\ net[i].kind = "change"
  <2>1. changes' = Append(changes, [col |-> c, block |-> net[i].block])
    BY <1>1, <1>11 DEF Sent
  <2> PICK n : n = Len(changes) + 1
    OBVIOUS
  <2>2. /\ n \in News(c)' /\ \A k \in News(c)' : k <= n
        /\ changes'[n].block = net[i].block /\ News(c)' \subseteq Nat
    BY <1>2, <2>1 DEF TypeOK, News
  <2>3. \A m \in News(c)' : (\A k \in News(c)' : k <= m) => m = n
    BY <2>2
  <2> QED
    BY <1>1, <1>2, <1>5, <1>6, <1>8, <1>9, <1>11, <2>2, <2>3 DEF Follows
<1>12. i \in Sent(c) => net[i].kind # "unload"
  BY DEF Sent
<1> QED  BY <1>1, <1>7, <1>10, <1>11, <1>12

LEMMA FollowInvInit == Init => FollowInv
<1> SUFFICES ASSUME Init PROVE FollowInv
  OBVIOUS
<1>1. StreamInv
  BY StreamInvInit
<1>2. \A c \in Columns : Sent(c) = {} /\ News(c) = {} /\ ~Present(c)
  BY DEF Init, Sent, News, Present
<1> QED  BY <1>1, <1>2 DEF Init, FollowInv, Follows

LEMMA FollowInvStep == ASSUME FollowInv, [Next]_vars PROVE FollowInv'
<1>1. StreamInv' /\ TypeOK' /\ TypeOK
  BY StreamInvStep DEF FollowInv, StreamInv
<1>2. ASSUME NEW c \in Columns \ missed' PROVE Follows(c)'
  <2>1. ASSUME NEW e \in EditedColumns, Edit(e) PROVE Follows(c)'
    BY <1>1, <1>2, <2>1, EditFollows
  <2>2. ASSUME UNCHANGED <<net, overlay, have, copy, changes, missed>>,
               made'[c] = "made" => live'[c] = overlay[c]
        PROVE  Follows(c)'
    <3>1. /\ Sent(c)' = Sent(c) /\ News(c)' = News(c) /\ Follows(c)
          /\ Present(c)' <=> Present(c)
      BY <1>2, <2>2 DEF Sent, News, FollowInv, Present
    <3> QED  BY <2>2, <3>1, FollowStands
  <2>3. c \notin missed /\ made[c] = "made" => live[c] = overlay[c]
    BY <1>2 DEF FollowInv, Follows
  <2>4. ASSUME NEW e \in Columns, Generated(e) PROVE Follows(c)'
    <3>1. UNCHANGED <<net, overlay, have, copy, changes, missed>>
      BY <2>4 DEF Generated, clientVars, historyVars
    <3>2. made'[c] = "made" => live'[c] = overlay[c]
      <4>1. /\ made' = [made EXCEPT ![e] = "made"]
            /\ live' = [live EXCEPT ![e] = overlay[e]]
        BY <2>4 DEF Generated
      <4>2. /\ made \in [Columns -> {"absent", "generating", "made"}]
            /\ live \in [Columns -> Blocks]
        BY <1>1 DEF TypeOK
      <4>3. c \notin missed
        BY <1>2, <3>1
      <4> QED  BY <1>2, <2>3, <4>1, <4>2, <4>3
    <3> QED  BY <2>2, <3>1, <3>2
  <2>5. ASSUME NEW k \in 0 .. Len(trail), Tick(k) PROVE Follows(c)'
    BY <1>1, <1>2, <2>5, TickTakes, TickFollows
  <2>6. ASSUME NEW p \in Places, Move(p) PROVE Follows(c)'
    BY <1>2, <2>2, <2>3, <2>6 DEF Move, serverVars, historyVars
  <2>7. ASSUME NEW i \in DOMAIN net, Deliver(i) \/ Lose(i) PROVE Follows(c)'
    BY <1>1, <1>2, <2>7, DeliveryFollows, LossFollows
  <2>8. CASE Frame
    BY <1>2, <2>8, FrameFollows
  <2>9. CASE UNCHANGED vars
    BY <1>2, <2>2, <2>3, <2>9 DEF vars, serverVars, clientVars, historyVars
  <2> QED
    BY <2>1, <2>4, <2>5, <2>6, <2>7, <2>8, <2>9 DEF Next
<1> QED  BY <1>1, <1>2 DEF FollowInv

LEMMA FollowInvariant == Spec => []FollowInv
BY FollowInvInit, FollowInvStep, PTL DEF Spec

\* The client's block of a column is the server's, or is going to be when what
\* is on its way has arrived (client_poll, world_insert_network_chunk and the
\* pending block changes of main.c against server_persist_edit), whatever the
\* order of edits, ticks, deliveries, losses, evictions and frames, but for
\* columns that were missed.
THEOREM CopiesFollow == Spec => []CopyFollows
<1>1. FollowInv => CopyFollows
  <2> SUFFICES ASSUME FollowInv, NEW c \in Columns \ missed,
                      Present(c) \/ (\E i \in DOMAIN net :
                        net[i].kind = "data" /\ net[i].col = c)
               PROVE  Expected(c) = overlay[c]
    BY DEF CopyFollows
  <2>1. Follows(c) /\ TypeOK
    BY DEF FollowInv, StreamInv
  <2>2. /\ Sent(c) # {} =>
             Max(Sent(c)) \in Sent(c) /\ \A k \in Sent(c) : k <= Max(Sent(c))
        /\ News(c) # {} =>
             Max(News(c)) \in News(c) /\ \A k \in News(c) : k <= Max(News(c))
    BY <2>1, PlacesAreBounded, MaxIsLast
  <2>3. CASE Sent(c) # {}
    BY <2>1, <2>2, <2>3 DEF Follows, Expected
  <2>4. CASE Sent(c) = {} /\ News(c) # {}
    BY <2>1, <2>2, <2>4 DEF Follows, Expected
  <2>5. CASE Sent(c) = {} /\ News(c) = {}
    <3>1. Present(c)
      BY <2>5 DEF Sent
    <3> QED  BY <2>1, <2>5, <3>1 DEF Follows, Expected
  <2> QED  BY <2>3, <2>4, <2>5
<1> QED  BY <1>1, FollowInvariant, PTL

=============================================================================
