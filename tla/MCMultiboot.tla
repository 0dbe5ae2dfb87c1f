---------------------------- MODULE MCMultiboot -----------------------------
(***************************************************************************)
(* Up to three tags: two sizes that need padding and one that needs none,  *)
(* and memory maps of no, one and two regions, the last of a size that     *)
(* leaves the next tag to be padded.                                       *)
(***************************************************************************)
EXTENDS Multiboot

Plain(size) == [type |-> "OTHER", size |-> size, entry_size |-> 0, regions |-> 0]
Map(entry_size, regions) ==
  [type |-> "MMAP", size |-> MapHeader + entry_size * regions,
   entry_size |-> entry_size, regions |-> regions]

MCTags == {Plain(8), Plain(9), Plain(15), Map(24, 0), Map(24, 2), Map(20, 1)}
MCInfos == UNION {[1 .. n -> MCTags] : n \in 0 .. 3}
MCAddresses == {16, 20}
MCMagics == {"MAGIC", "other"}

=============================================================================
