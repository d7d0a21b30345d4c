-------------------------- MODULE MCChunkPipeline --------------------------
(***************************************************************************)
(* Small worlds for TLC: three columns in a row, numbered from west to     *)
(* east.                                                                   *)
(***************************************************************************)
EXTENDS ChunkPipeline

MCChunks == 1 .. 3
MCNeighbors == [c \in MCChunks |-> {c - 1, c + 1} \cap MCChunks]

\* One edit, on the eastern edge of the first column.
MCEdits == {"edge"}
MCHome == [e \in MCEdits |-> 1]
MCBorders == [e \in MCEdits |-> {2}]

\* A player who stays and loads two columns, as a host and as a remote client.
Stay(fed, columns) ==
  [networkFed |-> fed, sent |-> columns, near |-> <<{1, 2}>>,
   kept |-> <<{1, 2}>>, reads |-> {}, edits |-> MCEdits, moves |-> 0]

\* A host's player who leaves for a place from which the first column is beyond
\* the unload radius, with jobs under way or not.  The radius is one column wider
\* than what is loaded, not four.
Leave(near, kept, reads, n) ==
  [networkFed |-> FALSE, sent |-> {}, near |-> near, kept |-> kept,
   reads |-> reads, edits |-> {}, moves |-> n]

\* It comes back; the second column, loaded with the first, is kept.
Return == Leave(<<{1, 2}, {}>>, <<{1, 2}, {2}>>, {}, 2)
\* The second column is there for the server's reads only.
Shared == Leave(<<{1}, {}>>, <<{1, 2}, {2}>>, {2}, 1)
\* The server reads the third column for somebody else, near the player only
\* once the player has gone there.
Elsewhere == Leave(<<{1}, {3}>>, <<{1, 2}, {2, 3}>>, {3}, 1)

MCSettings ==
  {Stay(FALSE, {}), Stay(TRUE, {1, 2}), Return, Shared, Elsewhere}

\* The remote client only.
MCRemote == {Stay(TRUE, {1, 2})}
=============================================================================
