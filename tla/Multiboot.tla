----------------------------- MODULE Multiboot ------------------------------
(***************************************************************************)
(* kernel/kernel/multiboot.c: validate_boot walks the information that the *)
(* boot loader left in memory, tag by tag and, in a memory map, region by  *)
(* region, with byte pointers.                                             *)
(*                                                                         *)
(* The loader's side is the Multiboot 2 format: an eight byte header with  *)
(* the total size, then tags, each padded to a multiple of eight bytes,    *)
(* the last of type END. Of a tag only its type, its size and the sizes    *)
(* inside a memory map are kept; what validate_boot prints of its contents *)
(* is left out. Pointers are offsets from the start of the information.    *)
(***************************************************************************)
EXTENDS Naturals, Sequences, FiniteSets

CONSTANTS
  Infos,           \* the sequences of tags that a loader may leave
  Addresses,       \* the physical addresses it may leave them at
  Magics,          \* what it may leave in eax
  KERNEL_VIRTUAL_BASE

MULTIBOOT2_BOOTLOADER_MAGIC == "MAGIC"
MapHeader == 16    \* bytes of a memory map before its first region

Tag == [type : {"END", "MMAP", "OTHER"}, size : Nat, entry_size : Nat, regions : Nat]

EndTag == [type |-> "END", size |-> 8, entry_size |-> 0, regions |-> 0]

(* What the format guarantees. *)
ASSUME MultibootAssumption ==
  /\ Infos \subseteq Seq(Tag)
  /\ \A info \in Infos : \A i \in DOMAIN info :
       /\ info[i].type \in {"MMAP", "OTHER"}
       /\ info[i].size >= 8
       /\ info[i].type = "MMAP" =>
            /\ info[i].entry_size >= 1
            /\ info[i].size = MapHeader + info[i].entry_size * info[i].regions
  /\ KERNEL_VIRTUAL_BASE \in Nat
  /\ KERNEL_VIRTUAL_BASE % 8 = 0
  /\ Addresses \subseteq 0 .. (KERNEL_VIRTUAL_BASE - 1)

VARIABLES
  info,     \* the tags the loader left, without the END tag
  magic,    \* validate_boot's arguments
  addr,
  pc,       \* "called", "tag", "region", "returned"
  tag,      \* offset of the tag
  mmap,     \* offset of the region
  visited,  \* history: the tags printed, by offset
  printed,  \* history: the regions printed, by offset
  total     \* what "Total multiboot info size" reports

vars == <<info, magic, addr, pc, tag, mmap, visited, printed, total>>

-----------------------------------------------------------------------------
(* The loader's memory. *)

Padded(size) == 8 * ((size + 7) \div 8)

(* Where tag i of tags starts. *)
Offset(tags) ==
  LET start[i \in 1 .. (Len(tags) + 1)] ==
        IF i = 1 THEN 8 ELSE start[i - 1] + Padded(tags[i - 1].size)
  IN  start

(* The size field of the header. *)
InfoSize(tags) == Offset(tags)[Len(tags) + 1] + EndTag.size

TagStarts == {Offset(info)[i] : i \in 1 .. (Len(info) + 1)}

(* What the walk reads at an offset: anywhere but at a tag there are zeros, *)
(* which is type END too.                                                   *)
Zeros == [type |-> "END", size |-> 0, entry_size |-> 0, regions |-> 0]

TagAt(offset) ==
  IF \E i \in DOMAIN info : Offset(info)[i] = offset
  THEN info[CHOOSE i \in DOMAIN info : Offset(info)[i] = offset]
  ELSE IF offset \in TagStarts THEN EndTag ELSE Zeros

Init ==
  /\ info \in Infos
  /\ magic \in Magics
  /\ addr \in Addresses
  /\ pc = "called"
  /\ tag = 0
  /\ mmap = 0
  /\ visited = <<>>
  /\ printed = <<>>
  /\ total = 0

-----------------------------------------------------------------------------
(* validate_boot. *)

Accepts == magic = MULTIBOOT2_BOOTLOADER_MAGIC /\ addr % 8 = 0

Reject ==
  /\ pc = "called"
  /\ ~Accepts
  /\ pc' = "returned"
  /\ UNCHANGED <<info, magic, addr, tag, mmap, visited, printed, total>>

(* A physical address is moved to the higher half, where the same bytes are.*)
Begin ==
  /\ pc = "called"
  /\ Accepts
  /\ addr' = IF addr < KERNEL_VIRTUAL_BASE THEN addr + KERNEL_VIRTUAL_BASE ELSE addr
  /\ tag' = 8
  /\ pc' = "tag"
  /\ UNCHANGED <<info, magic, mmap, visited, printed, total>>

Unpadded(size) == size

(* (size + 7) & ~7 *)
RoundUp(size) == (size + 7) - ((size + 7) % 8)

NextTag == tag' = tag + RoundUp(TagAt(tag).size)

PlainTag ==
  /\ pc = "tag"
  /\ TagAt(tag).type = "OTHER"
  /\ visited' = Append(visited, tag)
  /\ NextTag
  /\ UNCHANGED <<info, magic, addr, pc, mmap, printed, total>>

MemoryMap ==
  /\ pc = "tag"
  /\ TagAt(tag).type = "MMAP"
  /\ visited' = Append(visited, tag)
  /\ mmap' = tag + MapHeader
  /\ pc' = "region"
  /\ UNCHANGED <<info, magic, addr, tag, printed, total>>

OneRegionMore == mmap <= tag + TagAt(tag).size

InsideMap == mmap < tag + TagAt(tag).size

Region ==
  /\ pc = "region"
  /\ InsideMap
  /\ printed' = Append(printed, mmap)
  /\ mmap' = mmap + TagAt(tag).entry_size
  /\ UNCHANGED <<info, magic, addr, pc, tag, visited, total>>

EndOfMap ==
  /\ pc = "region"
  /\ ~InsideMap
  /\ NextTag
  /\ pc' = "tag"
  /\ UNCHANGED <<info, magic, addr, mmap, visited, printed, total>>

ExpectsSizeZero ==
  /\ pc = "tag"
  /\ TagAt(tag).size = 0
  /\ NextTag
  /\ total' = tag'
  /\ pc' = "returned"
  /\ UNCHANGED <<info, magic, addr, mmap, visited, printed>>

Finish ==
  /\ pc = "tag"
  /\ TagAt(tag).type = "END"
  /\ NextTag
  /\ total' = tag'
  /\ pc' = "returned"
  /\ UNCHANGED <<info, magic, addr, mmap, visited, printed>>

Next == Reject \/ Begin \/ PlainTag \/ MemoryMap \/ Region \/ EndOfMap \/ Finish

(* Nothing interrupts the CPU. *)
Spec == Init /\ [][Next]_vars /\ WF_vars(Next)

-----------------------------------------------------------------------------
(* The pointers of the walk stay within the size that the loader announced.*)
TypeOK ==
  /\ info \in Infos
  /\ magic \in Magics
  /\ addr \in Nat
  /\ pc \in {"called", "tag", "region", "returned"}
  /\ tag \in 0 .. InfoSize(info)
  /\ mmap \in 0 .. InfoSize(info)
  /\ visited \in Seq(Nat)
  /\ printed \in Seq(Nat)
  /\ total \in Nat

(* The walk reads a tag only where the loader put one, and a region only    *)
(* inside its map: (size + 7) & ~7 is the format's padding, for tags of any *)
(* size.                                                                    *)
WalkStaysOnTags ==
  /\ pc \in {"tag", "region"} => tag \in TagStarts
  /\ pc = "region" => mmap <= tag + TagAt(tag).size

(* The regions of the map in tag i, by offset. *)
RegionsOf(i) ==
  IF info[i].type = "MMAP"
  THEN {Offset(info)[i] + MapHeader + j * info[i].entry_size : j \in 0 .. (info[i].regions - 1)}
  ELSE {}

AllRegions == UNION {RegionsOf(i) : i \in DOMAIN info}

(* Information that is accepted is printed completely: each tag once, in    *)
(* order, each region of each map once, and the total that is reported at   *)
(* the end is the size the loader wrote into the header.                    *)
WalkIsComplete ==
  pc = "returned" /\ Accepts =>
    /\ visited = [i \in DOMAIN info |-> Offset(info)[i]]
    /\ {printed[i] : i \in DOMAIN printed} = AllRegions
    /\ Len(printed) = Cardinality(AllRegions)
    /\ total = InfoSize(info)

(* validate_boot returns to boot.S. *)
WalkEnds == <>(pc = "returned")

=============================================================================
