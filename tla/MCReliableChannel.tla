------------------------- MODULE MCReliableChannel -------------------------
(***************************************************************************)
(* Small channels for TLC, and columns of blocks that cross one.           *)
(*                                                                         *)
(* The sizes of the channel keep the ratios of the code where they matter: *)
(* the window divides the sequence space and is twice the shifted word, so *)
(* that a gap can be wider than the word, and MaxSends exceeds the         *)
(* sequence space so that seq wraps.                                       *)
(*                                                                         *)
(* ChunkTransfer takes from the channel that a message is handed over at   *)
(* most once, late, in any order or never, and nothing else: a behaviour   *)
(* is about the messages of the channel or about the fragments of columns. *)
(***************************************************************************)
EXTENDS ReliableChannel, ChunkTransfer

VARIABLE about

ChannelInit == Init /\ TransferInit /\ about \in {"messages", "columns"}

ChannelNext ==
  \/ about = "messages" /\ Next /\ UNCHANGED <<about, transferVars>>
  \/ about = "columns" /\ TransferNext /\ UNCHANGED <<about, vars>>

ChannelSpec == ChannelInit /\ [][ChannelNext]_<<about, vars, transferVars>>
=============================================================================
