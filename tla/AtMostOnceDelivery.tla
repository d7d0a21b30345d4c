------------------------- MODULE AtMostOnceDelivery -------------------------
(***************************************************************************)
(* What the reliable channel of src/src/reliable.h promises the game code: *)
(* the messages of one direction are numbered in the order they are sent,  *)
(* and each of them is handed to the receiving game code at most once, in  *)
(* any order.  A message may never be handed over.                         *)
(***************************************************************************)
EXTENDS Naturals

CONSTANT MaxSends       \* bound on the messages of one connection

VARIABLES
  sent,                 \* how many messages the sender has sent
  handed                \* [message number -> times handed to the game code]

vars == <<sent, handed>>

Messages == 0 .. MaxSends - 1

Init ==
  /\ sent = 0
  /\ handed = [n \in Messages |-> 0]

Send ==
  /\ sent < MaxSends
  /\ sent' = sent + 1
  /\ UNCHANGED handed

\* Only what was sent is handed over, and only the first time.
Hand(n) ==
  /\ n < sent
  /\ handed[n] = 0
  /\ handed' = [handed EXCEPT ![n] = 1]
  /\ UNCHANGED sent

Next == Send \/ \E n \in Messages : Hand(n)

Spec == Init /\ [][Next]_vars
=============================================================================
