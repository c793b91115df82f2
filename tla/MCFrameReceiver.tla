--------------------------- MODULE MCFrameReceiver ---------------------------
(* FrameReceiver with a ring of three descriptors and a queue of one slot.  *)
EXTENDS FrameReceiver

CONSTANTS ev, wk
MCProducers == {ev}
MCConsumers == {wk}
MCItems == [index : 1 .. Descs + 1, segs : SUBSET Desc]
MCWorld(p, f) == [pace |-> p, faults |-> f]
MCWorlds ==
  {MCWorld("free", {"save"}), MCWorld("betweenScans", {"event", "engine"}),
   MCWorld("betweenScans", {"read"}), MCWorld("onePerScan", {})}
MCReadWorld == {MCWorld("betweenScans", {"read"})}
=============================================================================
