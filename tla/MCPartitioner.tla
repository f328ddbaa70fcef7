--------------------------- MODULE MCPartitioner ---------------------------
EXTENDS Partitioner

\* Decode: four layers of 1 GB resident, of which a token touches 3/4 GB.
MCDecode == [layers |-> 4, weights |-> 2, kv |-> 1, slots |-> 2, prefix |-> 0]
MCPrefill == [layers |-> 4, weights |-> 2, kv |-> 1, slots |-> 1, prefix |-> 0]
MCDraft == [layers |-> 1, weights |-> 1, kv |-> 0, slots |-> 1, prefix |-> 0]

Node(cap, ms, bw) == [cap |-> cap, ms |-> ms, bw |-> bw, absent |-> FALSE]
MCProfiles ==
  {Node(0, 1, 0), Node(2, 1, 0), Node(3, 1, 0), Node(3, 4, 0), Node(3, 0, 250), Node(4, 2, 0),
   Node(5, 1, 0), Node(2, 0, 0), [Node(4, 1, 0) EXCEPT !.absent = TRUE]}
MCFloors == {-1, 0, 150}
=============================================================================
