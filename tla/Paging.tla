------------------------------- MODULE Paging -------------------------------
(***************************************************************************)
(* kernel/kernel/paging.c over the page tables that                        *)
(* kernel/arch/i386/boot.S leaves behind: the frame bitmap, the page       *)
(* directory and the page tables as contents of physical frames, the CPU's *)
(* translation cache, and the callers of the paging interface.             *)
(*                                                                         *)
(* Units. A physical address is a multiple of PAGE_SIZE everywhere in the  *)
(* interface's uses, so it is its frame number here and NULL is frame 0; a *)
(* virtual page is the pair <<pdindex, ptindex>> that "virt_addr >> 22"    *)
(* and "(virt_addr >> 12) & 0x3FF" take from an address; the offset in the *)
(* page is left out. An entry of a directory or table is the frame in its  *)
(* PAGE_FRAME bits when PAGE_PRESENT is set and NotPresent otherwise: the  *)
(* kernel runs in ring 0 with CR0.WP clear, so no other flag changes what  *)
(* an access does.                                                         *)
(***************************************************************************)
EXTENDS Naturals, FiniteSets

CONSTANTS
  Entries,            \* entries of a directory or a table (1024)
  TOTAL_FRAMES,       \* frames the bitmap tracks (16384)
  KERNEL_PAGE_NUMBER, \* directory index of KERNEL_VIRTUAL_BASE (768)
  LowFrames,          \* the frames below 1 MB
  KernelFrames,       \* kernel_physical_start .. kernel_physical_end
  BootDirectory,      \* the frame of boot_page_directory
  BootTable,          \* the frame of boot_page_table1
  ClientPages,        \* the virtual pages that callers map
  NotPresent,         \* an entry without PAGE_PRESENT
  TlbCapacity         \* how many translations the TLB caches

Index == 0 .. (Entries - 1)
Frame == 0 .. (TOTAL_FRAMES - 1)
VPage == Index \X Index
Entry == Frame \cup {NotPresent}

NULL == 0

(* The last directory entry maps the directory itself. *)
Recursive == Entries - 1

(* What init_paging marks as used: low memory and the kernel's image. *)
Reserved == LowFrames \cup KernelFrames

(* The directory entries under which callers map pages. *)
ClientDirs == {v[1] : v \in ClientPages}

(* The virtual page at KERNEL_VIRTUAL_BASE + f * PAGE_SIZE. *)
P2V(f) == <<KERNEL_PAGE_NUMBER + (f \div Entries), f % Entries>>

(***************************************************************************)
(* The boot page table has Entries entries, so the kernel window reaches   *)
(* the first Entries frames. The linker script and boot.S put the          *)
(* directory, the table and the whole image there; callers map pages       *)
(* outside the identity map, the kernel window (as long as the physical    *)
(* memory the bitmap tracks) and the recursive entry.                      *)
(***************************************************************************)
Sizes ==
  /\ Entries \in Nat \ {0}
  /\ TOTAL_FRAMES \in Nat
  /\ Entries <= TOTAL_FRAMES
  /\ TlbCapacity \in Nat
  /\ NotPresent \notin Nat

ImageInWindow ==
  /\ LowFrames \subseteq Index
  /\ KernelFrames \subseteq Index
  /\ NULL \in LowFrames
  /\ BootDirectory \in KernelFrames
  /\ BootTable \in KernelFrames
  /\ BootDirectory # BootTable
  /\ KERNEL_PAGE_NUMBER \in Index \ {0, Recursive}
  /\ \A f \in Frame : KERNEL_PAGE_NUMBER + (f \div Entries) < Recursive

ClientsOutside ==
  /\ ClientPages \subseteq VPage
  /\ ClientDirs \cap {0, KERNEL_PAGE_NUMBER, Recursive} = {}
  /\ \A f \in Frame : P2V(f)[1] \notin ClientDirs

ASSUME SizeAssumption == Sizes
ASSUME LayoutAssumption == ImageInWindow
ASSUME ClientAssumption == ClientsOutside

VARIABLES
  used,    \* frame_bitmap: the frames whose bit is set
  mem,     \* the entries each frame holds when read as a directory or table
  cr3,     \* the frame of the directory the CPU walks
  current, \* current_page_directory: the frame it points at, through P2V
  tlb,     \* the translations the CPU has cached
  held,    \* the pages kmalloc_physical_page gave out and callers still have
  cpu      \* "booted" until init_paging, then "running"; "faulted" for good

vars == <<used, mem, cr3, current, tlb, held, cpu>>

ZeroPage == [i \in Index |-> NotPresent]

(* What a frame holds that nobody cleared: every entry looks present. *)
JunkPage == [i \in Index |-> NULL]

EmptyTlb == [v \in VPage |-> NotPresent]

-----------------------------------------------------------------------------
(* The CPU's view. *)

(* The page walk from CR3. *)
Walk(v) ==
  LET pde == mem[cr3][v[1]]
  IN  IF pde = NotPresent THEN NotPresent ELSE mem[pde][v[2]]

(* The frame an access to v reaches: a cached translation wins. *)
Translate(v) == IF tlb[v] # NotPresent THEN tlb[v] ELSE Walk(v)

(* The frame the kernel reaches when it dereferences P2V(f). *)
Deref(f) == Translate(P2V(f))

Cached == {v \in VPage : tlb[v] # NotPresent}

NoFlush(v) == UNCHANGED tlb

flush_tlb_entry(v) == tlb' = [tlb EXCEPT ![v] = NotPresent]

(* The CPU may cache any translation that a walk yields, at any time. *)
TlbFill(v) ==
  /\ cpu # "faulted"
  /\ tlb[v] = NotPresent
  /\ Walk(v) # NotPresent
  /\ Cardinality(Cached) < TlbCapacity
  /\ tlb' = [tlb EXCEPT ![v] = Walk(v)]
  /\ UNCHANGED <<used, mem, cr3, current, held, cpu>>

TlbEvict(v) ==
  /\ cpu # "faulted"
  /\ tlb[v] # NotPresent
  /\ tlb' = [tlb EXCEPT ![v] = NotPresent]
  /\ UNCHANGED <<used, mem, cr3, current, held, cpu>>

-----------------------------------------------------------------------------
(* The frame allocator. *)

(* A frame past the end of the bitmap is ignored. *)
set_frame(f) == used' = used \cup ({f} \cap Frame)

clear_frame(f) == used' = used \ ({f} \cap Frame)

AnyFreeFrame(f) == f \in Frame

(* The scan of the bitmap, word by word and bit by bit, stops at the free   *)
(* frame with the lowest number.                                            *)
first_free_frame(f) ==
  /\ f \in Frame \ used
  /\ \A g \in Frame \ used : f <= g

NoFreeFrame == Frame \subseteq used

(* alloc_frame returns f; the caller takes f = 0 for a failure. *)
alloc_frame(f) ==
  /\ first_free_frame(f)
  /\ set_frame(f)

KeepsBit(f) == UNCHANGED used

free_frame(f) == clear_frame(f)

SkipsMemset(f) == mem[Deref(f)]

(* What memset(P2V(f), 0, PAGE_SIZE) leaves in the frame it reaches. *)
ClearedPage(f) == ZeroPage

(***************************************************************************)
(* No IDT is ever loaded, so the fault of an access through an unmapped    *)
(* P2V address cannot be handled: the CPU shuts down.                      *)
(***************************************************************************)
Fault ==
  /\ cpu' = "faulted"
  /\ UNCHANGED <<mem, tlb, held>>

-----------------------------------------------------------------------------
(* The interface. *)

ForgetsKernel ==
  /\ cpu = "booted"
  /\ used' = LowFrames \cap Frame
  /\ current' = cr3
  /\ mem' = [mem EXCEPT ![Deref(cr3)][Recursive] = cr3]
  /\ tlb' = EmptyTlb
  /\ cpu' = "running"
  /\ UNCHANGED <<cr3, held>>

RecursesOverWindow ==
  /\ cpu = "booted"
  /\ used' = Reserved \cap Frame
  /\ current' = cr3
  /\ mem' = [mem EXCEPT ![Deref(cr3)][KERNEL_PAGE_NUMBER] = cr3]
  /\ tlb' = EmptyTlb
  /\ cpu' = "running"
  /\ UNCHANGED <<cr3, held>>

(* Clears the bitmap, marks low memory and the kernel, adopts the directory *)
(* in CR3 and maps it into itself. Reloading CR3 empties the TLB.           *)
init_paging ==
  /\ cpu = "booted"
  /\ used' = Reserved \cap Frame
  /\ current' = cr3
  /\ mem' = [mem EXCEPT ![Deref(cr3)][Recursive] = cr3]
  /\ tlb' = EmptyTlb
  /\ cpu' = "running"
  /\ UNCHANGED <<cr3, held>>

kmalloc_physical_page ==
  /\ cpu = "running"
  /\ UNCHANGED <<cr3, current>>
  /\ \/ NoFreeFrame /\ UNCHANGED <<used, mem, tlb, held, cpu>>
     \/ \E f \in Frame :
          /\ alloc_frame(f)
          /\ IF f = NULL THEN UNCHANGED <<mem, tlb, held, cpu>>
             ELSE IF Deref(f) = NotPresent THEN Fault
             ELSE /\ mem' = [mem EXCEPT ![Deref(f)] = ClearedPage(f)]
                  /\ held' = held \cup {f}
                  /\ UNCHANGED <<tlb, cpu>>

(* Callers return pages they were given and have unmapped, as               *)
(* test_memory_mapping does; NULL is ignored.                               *)
kfree_physical_page(f) ==
  /\ cpu = "running"
  /\ f \in held
  /\ \A v \in ClientPages : Walk(v) # f
  /\ f # NULL /\ free_frame(f)
  /\ held' = held \ {f}
  /\ UNCHANGED <<mem, cr3, current, tlb, cpu>>

(* The directory entry that get_page_table reads through P2V. *)
PageDirectoryEntry(v) == mem[Deref(current)][v[1]]

(* map_page_to_frame with the page table already there. *)
MapInTable(v, f) ==
  /\ PageDirectoryEntry(v) # NotPresent
  /\ mem' = [mem EXCEPT ![Deref(PageDirectoryEntry(v))][v[2]] = f]
  /\ flush_tlb_entry(v)
  /\ UNCHANGED <<used, held, cpu>>

(* map_page_to_frame when get_page_table has to create the page table: the  *)
(* new table is cleared, entered in the directory, and gets its first entry.*)
MapInNewTable(v, f) ==
  /\ PageDirectoryEntry(v) = NotPresent
  /\ \E t \in Frame :
       /\ alloc_frame(t)
       /\ IF t = NULL THEN UNCHANGED <<mem, tlb, held, cpu>>
          ELSE IF Deref(t) = NotPresent THEN Fault
          ELSE /\ mem' = [mem EXCEPT ![Deref(t)] = [ClearedPage(t) EXCEPT ![v[2]] = f],
                                     ![Deref(current)][v[1]] = t]
               /\ flush_tlb_entry(v)
               /\ UNCHANGED <<held, cpu>>

(* map_page_to_frame with no table and no frame for one: nothing happens,   *)
(* and the void result does not say so.                                     *)
MapWithoutMemory(v) ==
  /\ PageDirectoryEntry(v) = NotPresent
  /\ NoFreeFrame
  /\ UNCHANGED <<used, mem, tlb, held, cpu>>

(* Callers map only pages that they hold. *)
map_page_to_frame(v, f) ==
  /\ cpu = "running"
  /\ f \in held
  /\ \/ MapInTable(v, f)
     \/ MapInNewTable(v, f)
     \/ MapWithoutMemory(v)
  /\ UNCHANGED <<cr3, current>>

unmap_page(v) ==
  /\ cpu = "running"
  /\ \/ /\ PageDirectoryEntry(v) = NotPresent
        /\ UNCHANGED <<mem, tlb>>
     \/ /\ PageDirectoryEntry(v) # NotPresent
        /\ mem' = [mem EXCEPT ![Deref(PageDirectoryEntry(v))][v[2]] = NotPresent]
        /\ flush_tlb_entry(v)
  /\ UNCHANGED <<used, cr3, current, held, cpu>>

IgnoresPresentBit(v) ==
  IF PageDirectoryEntry(v) = NotPresent THEN BootTable
  ELSE mem[Deref(PageDirectoryEntry(v))][v[2]]

(* The software walk: a frame, or NULL for a page that is not mapped. *)
get_physical_address(v) ==
  LET pde == PageDirectoryEntry(v)
      pte == mem[Deref(pde)][v[2]]
  IN  IF pde = NotPresent \/ pte = NotPresent THEN NULL ELSE pte

LoadsVirtualAddress(dir) ==
  /\ cpu = "running"
  /\ current' = dir
  /\ cr3' = KERNEL_PAGE_NUMBER * Entries + dir
  /\ tlb' = EmptyTlb
  /\ UNCHANGED <<used, mem, held, cpu>>

(* The one directory the kernel has is boot.S's; loading CR3 empties the TLB.*)
switch_page_directory(dir) ==
  /\ cpu = "running"
  /\ current' = dir
  /\ cr3' = dir
  /\ tlb' = EmptyTlb
  /\ UNCHANGED <<used, mem, held, cpu>>

(* A caller stores through a page it knows to be mapped. *)
ClientWrite(v) ==
  /\ cpu = "running"
  /\ get_physical_address(v) # NULL
  /\ IF Translate(v) = NotPresent THEN Fault
     ELSE /\ mem' = [mem EXCEPT ![Translate(v)] = JunkPage]
          /\ UNCHANGED <<tlb, held, cpu>>
  /\ UNCHANGED <<used, cr3, current>>

-----------------------------------------------------------------------------
(***************************************************************************)
(* setup_page_tables maps one table twice, at 0 and at KERNEL_PAGE_NUMBER; *)
(* the rest of memory holds whatever was there before.                     *)
(***************************************************************************)
BootMemory ==
  [f \in Frame |->
     IF f = BootDirectory
     THEN [ZeroPage EXCEPT ![0] = BootTable, ![KERNEL_PAGE_NUMBER] = BootTable]
     ELSE IF f = BootTable THEN [i \in Index |-> i]
     ELSE JunkPage]

(* Paging has just been switched on; the bitmap is the zeroed .bss. *)
Init ==
  /\ used = {}
  /\ mem = BootMemory
  /\ cr3 = BootDirectory
  /\ current = NotPresent
  /\ tlb = EmptyTlb
  /\ held = {}
  /\ cpu = "booted"

Next ==
  \/ init_paging
  \/ kmalloc_physical_page
  \/ \E f \in Frame : kfree_physical_page(f)
  \/ \E v \in ClientPages, f \in Frame : map_page_to_frame(v, f)
  \/ \E v \in ClientPages : unmap_page(v)
  \/ \E v \in ClientPages : ClientWrite(v)
  \/ switch_page_directory(BootDirectory)
  \/ \E v \in VPage : TlbFill(v)
  \/ \E v \in VPage : TlbEvict(v)

Spec == Init /\ [][Next]_vars

-----------------------------------------------------------------------------
(* The frames that serve as page tables of callers' pages. *)
TableFrames == {mem[cr3][p] : p \in ClientDirs} \ {NotPresent}

(* Frames, entries and the CPU state are in range: no call puts a frame     *)
(* number into an entry, CR3 or the bitmap that the machine does not have.  *)
TypeOK ==
  /\ used \subseteq Frame
  /\ mem \in [Frame -> [Index -> Entry]]
  /\ cr3 \in Frame
  /\ current \in Entry
  /\ tlb \in [VPage -> Entry]
  /\ held \subseteq Frame
  /\ cpu \in {"booted", "running", "faulted"}

(* Every bit of frame_bitmap has exactly one reason to be set: the frame is *)
(* reserved, or a caller holds it, or it is a page table, and never two of  *)
(* these; so no sequence of calls leaks a frame or hands one out twice.     *)
FrameAccounting ==
  cpu = "running" =>
    /\ used = Reserved \cup held \cup TableFrames
    /\ held \cap TableFrames = {}
    /\ Reserved \cap (held \cup TableFrames) = {}

(* Whatever the CPU has cached, an access to a caller's virtual page reaches*)
(* a frame that callers hold, or faults: never a page table, the kernel's   *)
(* image or a page that was freed and given to somebody else.               *)
Isolation ==
  \A v \in ClientPages : Translate(v) \in held \cup {NotPresent}

(* A cached translation is the one a page walk would give: map_page_to_frame*)
(* and unmap_page flush every translation that they change.                 *)
TlbCoherent == \A v \in Cached : tlb[v] = Walk(v)

(* The kernel reaches physical frame f through P2V(f), for every frame that *)
(* boot_page_table1 maps, whatever callers have mapped and written since.   *)
WindowIntact == \A f \in Index : Deref(f) = f

(* get_physical_address answers what the CPU would do with the address.     *)
LookupAgrees ==
  cpu = "running" =>
    \A v \in VPage :
      get_physical_address(v) = IF Translate(v) = NotPresent THEN NULL
                                ELSE Translate(v)

(* The machine may stop in the middle of a call only for want of frames     *)
(* that P2V reaches: every frame that boot_page_table1 maps is in use, and  *)
(* the bitmap has given out one that it does not map.                       *)
FaultsOnlyWhenWindowFull ==
  cpu = "faulted" => Index \subseteq used /\ used \ Index # {}

(* kmalloc_physical_page returns "Physical address of the allocated page,   *)
(* or NULL on failure", and map_page_to_frame returns: neither faults.      *)
NoFault == cpu # "faulted"

(* The paging subsystem implements the address space that callers are       *)
(* promised: a page handed out was nobody's, a map or unmap changes one     *)
(* virtual page, a new page table brings no mapping of its own.             *)
Promise ==
  INSTANCE AddressSpace WITH
    Pages <- ClientPages,
    Allocatable <- Frame \ Reserved,
    None <- NotPresent,
    mapping <- [v \in ClientPages |-> Walk(v)]

ImplementsAddressSpace == Promise!Spec

=============================================================================
