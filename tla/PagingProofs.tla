---------------------------- MODULE PagingProofs ----------------------------
(***************************************************************************)
(* Proofs about Paging, for every size of page table, number of frames,    *)
(* kernel image, set of callers' pages and TLB.                            *)
(*                                                                         *)
(* None of the safety properties is inductive by itself: an allocator that *)
(* trusts its bitmap is safe only while the page tables are where the      *)
(* bitmap says, the page tables are reached through the kernel window only *)
(* while nobody overwrites the boot table, and nobody overwrites it only   *)
(* while callers' translations, cached ones included, lead to pages that   *)
(* callers hold. PagingInv states the three together.                      *)
(***************************************************************************)
EXTENDS Paging, TLAPS

(* What the directory and the table of boot.S hold from init_paging on. *)
BootTablesInv ==
  /\ cr3 = BootDirectory
  /\ cpu # "booted" => current = BootDirectory
  /\ mem[BootDirectory][0] = BootTable
  /\ mem[BootDirectory][KERNEL_PAGE_NUMBER] = BootTable
  /\ mem[BootDirectory][Recursive] = IF cpu = "booted" THEN NotPresent ELSE BootDirectory
  /\ \A p \in Index \ (ClientDirs \cup {0, KERNEL_PAGE_NUMBER, Recursive}) :
       mem[BootDirectory][p] = NotPresent
  /\ \A i \in Index : mem[BootTable][i] = i

(* Callers' page tables are frames of their own, no two directory entries  *)
(* share one, and their entries lead to pages that callers hold.            *)
ClientTablesInv ==
  /\ held \subseteq Index \ Reserved
  /\ \A p \in ClientDirs :
       mem[BootDirectory][p] # NotPresent =>
         /\ mem[BootDirectory][p] \in Index \ (Reserved \cup held)
         /\ \A i \in Index :
              /\ mem[mem[BootDirectory][p]][i] \in held \cup {NotPresent}
              /\ <<p, i>> \notin ClientPages => mem[mem[BootDirectory][p]][i] = NotPresent
  /\ \A p, q \in ClientDirs :
       mem[BootDirectory][p] = mem[BootDirectory][q] /\ mem[BootDirectory][p] # NotPresent
         => p = q

BitmapInv ==
  /\ cpu = "booted" =>
       held = {} /\ \A p \in ClientDirs : mem[BootDirectory][p] = NotPresent
  /\ cpu = "running" => used = Reserved \cup held \cup TableFrames

PagingInv ==
  TypeOK /\ BootTablesInv /\ ClientTablesInv /\ BitmapInv /\ TlbCoherent

-----------------------------------------------------------------------------
(* Division, as P2V uses it. *)
LEMMA DivBelow ==
  ASSUME NEW n \in Nat, n > 0, NEW f \in Nat, f < n
  PROVE  f \div n = 0 /\ f % n = f
<1>1. f \div n = 0  OBVIOUS
<1>2. f % n = f  OBVIOUS
<1>3. QED  BY <1>1, <1>2

LEMMA DivAbove ==
  ASSUME NEW n \in Nat, n > 0, NEW f \in Nat, f >= n
  PROVE  f \div n \in Nat /\ f \div n >= 1 /\ f % n \in 0 .. (n - 1)
<1>1. f \div n \in Nat  OBVIOUS
<1>2. f \div n >= 1  OBVIOUS
<1>3. f % n \in 0 .. (n - 1)  OBVIOUS
<1>4. QED  BY <1>1, <1>2, <1>3

(* The boot table's frames are one directory entry of the kernel window,    *)
(* and every later frame falls under a later entry, which boot.S leaves     *)
(* empty and callers leave alone.                                           *)
LEMMA WindowIndex ==
  /\ \A f \in Index : P2V(f) = <<KERNEL_PAGE_NUMBER, f>>
  /\ \A f \in Frame \ Index :
       /\ P2V(f) \in VPage
       /\ P2V(f)[1] \in Index \ (ClientDirs \cup {0, KERNEL_PAGE_NUMBER, Recursive})
<1>1. ASSUME NEW f \in Index PROVE P2V(f) = <<KERNEL_PAGE_NUMBER, f>>
  <2>1. f \in Nat /\ f < Entries /\ Entries \in Nat /\ Entries > 0
    BY SizeAssumption DEF Index, Sizes
  <2>2. f \div Entries = 0 /\ f % Entries = f
    BY <2>1, DivBelow
  <2>3. KERNEL_PAGE_NUMBER \in Nat
    BY SizeAssumption, LayoutAssumption DEF Index, Sizes, ImageInWindow
  <2>4. KERNEL_PAGE_NUMBER + (f \div Entries) = KERNEL_PAGE_NUMBER
    BY <2>2, <2>3
  <2>5. QED
    BY <2>2, <2>4 DEF P2V
<1>2. ASSUME NEW f \in Frame \ Index
      PROVE  /\ P2V(f) \in VPage
             /\ P2V(f)[1] \in Index \ (ClientDirs \cup {0, KERNEL_PAGE_NUMBER, Recursive})
  <2>1. f \in Nat /\ f >= Entries /\ Entries \in Nat /\ Entries > 0
    BY SizeAssumption DEF Index, Frame, Sizes
  <2>2. f \div Entries \in Nat /\ f \div Entries >= 1 /\ f % Entries \in Index
    BY <2>1, DivAbove DEF Index
  <2> DEFINE d == f \div Entries
             m == f % Entries
  <2>3. P2V(f) = <<KERNEL_PAGE_NUMBER + d, m>>
    BY DEF P2V
  <2>4. KERNEL_PAGE_NUMBER + d < Recursive /\ KERNEL_PAGE_NUMBER + d \notin ClientDirs
    <3>1. KERNEL_PAGE_NUMBER + d < Recursive
      BY LayoutAssumption DEF ImageInWindow
    <3>2. P2V(f)[1] \notin ClientDirs
      BY ClientAssumption DEF ClientsOutside
    <3>3. QED
      BY <2>3, <3>1, <3>2
  <2>5. KERNEL_PAGE_NUMBER \in Nat /\ KERNEL_PAGE_NUMBER > 0 /\ Recursive = Entries - 1
    BY SizeAssumption, LayoutAssumption DEF Index, Recursive, Sizes, ImageInWindow
  <2> HIDE DEF d, m
  <2>6. d \in Nat /\ d >= 1 /\ m \in Index
    BY <2>2 DEF d, m
  <2>7. /\ KERNEL_PAGE_NUMBER + d \in Index
        /\ KERNEL_PAGE_NUMBER + d \notin {0, KERNEL_PAGE_NUMBER, Recursive}
    BY <2>1, <2>4, <2>5, <2>6 DEF Index
  <2>8. QED
    BY <2>3, <2>4, <2>6, <2>7 DEF VPage
<1>3. QED
  BY <1>1, <1>2

(* The layout without its arithmetic. *)
LEMMA Layout ==
  /\ Index \subseteq Frame
  /\ NotPresent \notin Frame
  /\ BootDirectory \in Index /\ BootTable \in Index /\ BootDirectory # BootTable
  /\ BootDirectory \in Reserved /\ BootTable \in Reserved /\ NULL \in Reserved
  /\ Reserved \subseteq Index
  /\ Reserved \cap Frame = Reserved
  /\ {0, KERNEL_PAGE_NUMBER, Recursive} \subseteq Index
  /\ KERNEL_PAGE_NUMBER # 0 /\ KERNEL_PAGE_NUMBER # Recursive /\ Recursive # 0
  /\ ClientDirs \subseteq Index
  /\ ClientDirs \cap {0, KERNEL_PAGE_NUMBER, Recursive} = {}
  /\ \A v \in ClientPages : /\ v \in VPage
                            /\ v[1] \in ClientDirs
                            /\ v[2] \in Index
                            /\ v = <<v[1], v[2]>>
<1>1. /\ Index \subseteq Frame
      /\ NotPresent \notin Frame
      /\ KERNEL_PAGE_NUMBER \in Index /\ Recursive \in Index /\ 0 \in Index
      /\ KERNEL_PAGE_NUMBER # 0 /\ KERNEL_PAGE_NUMBER # Recursive /\ Recursive # 0
  BY SizeAssumption, LayoutAssumption DEF Index, Frame, Recursive, Sizes, ImageInWindow
<1>2. /\ LowFrames \subseteq Index /\ KernelFrames \subseteq Index
      /\ NULL \in LowFrames /\ BootDirectory \in KernelFrames
      /\ BootTable \in KernelFrames /\ BootDirectory # BootTable
  BY LayoutAssumption DEF ImageInWindow
<1>3. /\ ClientPages \subseteq Index \X Index
      /\ ClientDirs \cap {0, KERNEL_PAGE_NUMBER, Recursive} = {}
  BY ClientAssumption DEF VPage, ClientsOutside
<1>4. QED
  BY <1>1, <1>2, <1>3 DEF Reserved, ClientDirs, VPage

-----------------------------------------------------------------------------
(* With a coherent TLB an access does what a page walk does. *)
LEMMA TranslateIsWalk ==
  ASSUME TlbCoherent
  PROVE  \A v \in VPage : Translate(v) = Walk(v)
BY DEF TlbCoherent, Cached, Translate

(* The kernel window reaches every frame of the boot table, and only those. *)
LEMMA DerefWindow ==
  ASSUME TypeOK, BootTablesInv, TlbCoherent
  PROVE  /\ \A f \in Index : Deref(f) = f
         /\ \A f \in Frame \ Index : Deref(f) = NotPresent
<1>1. ASSUME NEW f \in Index PROVE Deref(f) = f
  <2>1. P2V(f) = <<KERNEL_PAGE_NUMBER, f>> /\ P2V(f) \in VPage
    BY WindowIndex, Layout DEF VPage
  <2>2. mem[cr3][KERNEL_PAGE_NUMBER] = BootTable /\ mem[BootTable][f] = f
    BY DEF BootTablesInv
  <2>3. BootTable # NotPresent
    BY Layout
  <2>4. Walk(P2V(f)) = f
    BY <2>1, <2>2, <2>3 DEF Walk
  <2>5. QED
    BY <2>1, <2>4, TranslateIsWalk DEF Deref
<1>2. ASSUME NEW f \in Frame \ Index PROVE Deref(f) = NotPresent
  <2>1. P2V(f) \in VPage /\ mem[cr3][P2V(f)[1]] = NotPresent
    BY WindowIndex DEF BootTablesInv
  <2>2. QED
    BY <2>1, TranslateIsWalk DEF Deref, Walk
<1>3. QED
  BY <1>1, <1>2

(* Every entry of the directory leads to a frame that the window reaches. *)
LEMMA DirectoryEntries ==
  ASSUME PagingInv
  PROVE  \A p \in Index : /\ mem[BootDirectory][p] \in Index \cup {NotPresent}
                          /\ \/ mem[BootDirectory][p] \in {NotPresent, BootDirectory, BootTable}
                             \/ p \in ClientDirs
BY Layout DEF PagingInv, BootTablesInv, ClientTablesInv

(* A frame that is not reserved is neither of boot.S's tables; one that     *)
(* callers hold is no page table.                                           *)
LEMMA HeldIsNoTable ==
  ASSUME PagingInv, NEW f \in held
  PROVE  /\ f \in Index /\ f # BootDirectory /\ f # BootTable
         /\ \A p \in ClientDirs : mem[BootDirectory][p] # f
BY Layout DEF PagingInv, ClientTablesInv

(* The bitmap's free frames are nobody's. *)
LEMMA FreeIsNobodys ==
  ASSUME PagingInv, cpu = "running", NEW f \in Frame \ used
  PROVE  /\ f # NULL /\ f # BootDirectory /\ f # BootTable
         /\ f \notin Reserved /\ f \notin held
         /\ \A p \in ClientDirs : mem[BootDirectory][p] # f
<1>1. used = Reserved \cup held \cup TableFrames
  BY DEF PagingInv, BitmapInv
<1>2. \A p \in ClientDirs : mem[BootDirectory][p] # f
  BY <1>1, Layout DEF PagingInv, BootTablesInv, TableFrames
<1>3. QED
  BY <1>1, <1>2, Layout

(* Overwriting a frame that is no table changes no walk and no table: what  *)
(* a memset of a new page and a caller's write have in common.              *)
LEMMA DataWrite ==
  ASSUME PagingInv, NEW f \in Frame, NEW page \in [Index -> Entry],
         f # BootDirectory, f # BootTable,
         \A p \in ClientDirs : mem[BootDirectory][p] # f,
         mem' = [mem EXCEPT ![f] = page],
         cr3' = cr3
  PROVE  /\ mem' \in [Frame -> [Index -> Entry]]
         /\ mem'[BootDirectory] = mem[BootDirectory]
         /\ mem'[BootTable] = mem[BootTable]
         /\ \A p \in ClientDirs :
              mem[BootDirectory][p] # NotPresent =>
                mem'[mem[BootDirectory][p]] = mem[mem[BootDirectory][p]]
         /\ TableFrames' = TableFrames
         /\ \A v \in VPage : Walk(v)' = Walk(v)
<1>1. mem \in [Frame -> [Index -> Entry]] /\ cr3 = BootDirectory
  BY DEF PagingInv, TypeOK, BootTablesInv
<1>2. mem' \in [Frame -> [Index -> Entry]]
  BY <1>1
<1>3. \A g \in Frame : g # f => mem'[g] = mem[g]
  BY <1>1
<1>4. mem'[BootDirectory] = mem[BootDirectory] /\ mem'[BootTable] = mem[BootTable]
  BY <1>3, Layout
<1>5. \A p \in Index : mem[BootDirectory][p] # NotPresent =>
        mem'[mem[BootDirectory][p]] = mem[mem[BootDirectory][p]]
  BY <1>3, DirectoryEntries, Layout
<1>6. TableFrames' = TableFrames
  BY <1>1, <1>4 DEF TableFrames
<1>7. \A v \in VPage : Walk(v)' = Walk(v)
  BY <1>1, <1>4, <1>5 DEF Walk, VPage
<1>8. QED
  BY <1>2, <1>4, <1>5, <1>6, <1>7, Layout

-----------------------------------------------------------------------------
(* Initiation: what setup_page_tables and the zeroed .bss establish. *)
LEMMA InitPagingInv == Init => PagingInv
<1> SUFFICES ASSUME Init PROVE PagingInv
  OBVIOUS
<1>1. /\ ZeroPage \in [Index -> Entry]
      /\ JunkPage \in [Index -> Entry]
      /\ [i \in Index |-> i] \in [Index -> Entry]
      /\ EmptyTlb \in [VPage -> Entry]
  BY Layout DEF ZeroPage, JunkPage, EmptyTlb, Entry, NULL
<1>2. /\ mem[BootDirectory] = [ZeroPage EXCEPT ![0] = BootTable, ![KERNEL_PAGE_NUMBER] = BootTable]
      /\ mem[BootTable] = [i \in Index |-> i]
      /\ mem \in [Frame -> [Index -> Entry]]
  BY <1>1, Layout DEF Init, BootMemory, Entry
<1>3. \A p \in Index : mem[BootDirectory][p] =
                         IF p \in {0, KERNEL_PAGE_NUMBER} THEN BootTable ELSE NotPresent
  BY <1>2, Layout DEF ZeroPage
<1>4. TypeOK
  BY <1>1, <1>2, Layout DEF Init, TypeOK, Entry
<1>5. BootTablesInv
  BY <1>2, <1>3, Layout DEF Init, BootTablesInv
<1>6. \A p \in ClientDirs : mem[BootDirectory][p] = NotPresent
  BY <1>3, Layout
<1>7. ClientTablesInv /\ BitmapInv
  BY <1>6 DEF Init, ClientTablesInv, BitmapInv
<1>8. TlbCoherent
  BY DEF Init, TlbCoherent, Cached, EmptyTlb
<1>9. QED
  BY <1>4, <1>5, <1>7, <1>8 DEF PagingInv

(* init_paging: only the recursive entry of the directory changes. *)
LEMMA StepInitPaging ==
  ASSUME PagingInv, init_paging
  PROVE  /\ PagingInv'
         /\ held' = held
         /\ \A w \in ClientPages : Walk(w)' = Walk(w)
<1> USE DEF PagingInv
<1>1. /\ mem \in [Frame -> [Index -> Entry]]
      /\ cr3 = BootDirectory /\ cr3' = BootDirectory /\ current' = BootDirectory
      /\ cpu = "booted" /\ cpu' = "running" /\ held = {} /\ held' = {}
      /\ tlb' = EmptyTlb
      /\ used' = Reserved
  BY Layout DEF TypeOK, init_paging, BootTablesInv, BitmapInv
<1>2. mem' = [mem EXCEPT ![BootDirectory][Recursive] = BootDirectory]
  BY <1>1, DerefWindow, Layout DEF init_paging
<1>3. /\ mem' \in [Frame -> [Index -> Entry]]
      /\ \A g \in Frame : g # BootDirectory => mem'[g] = mem[g]
      /\ \A p \in Index : mem'[BootDirectory][p] =
                            IF p = Recursive THEN BootDirectory ELSE mem[BootDirectory][p]
  BY <1>1, <1>2, Layout DEF Entry
<1>4. TypeOK'
  BY <1>1, <1>3, Layout DEF TypeOK, EmptyTlb, Entry
<1>5. BootTablesInv'
  BY <1>1, <1>3, Layout DEF BootTablesInv
<1>6. \A p \in ClientDirs : mem'[BootDirectory][p] = NotPresent
  BY <1>1, <1>3, Layout DEF BitmapInv
<1>7. ClientTablesInv' /\ BitmapInv'
  BY <1>1, <1>6 DEF ClientTablesInv, BitmapInv, TableFrames
<1>8. TlbCoherent'
  BY <1>1 DEF TlbCoherent, Cached, EmptyTlb
<1>9. \A w \in ClientPages : Walk(w)' = Walk(w)
  BY <1>1, <1>3, <1>6, Layout DEF Walk
<1>10. QED
  BY <1>1, <1>4, <1>5, <1>7, <1>8, <1>9

(* kmalloc_physical_page: the frame it clears is nobody's. *)
LEMMA StepKmalloc ==
  ASSUME PagingInv, kmalloc_physical_page
  PROVE  /\ PagingInv'
         /\ held' = held \/ \E f \in Frame \ (Reserved \cup held) : held' = held \cup {f}
         /\ \A w \in ClientPages : Walk(w)' = Walk(w)
<1>1. CASE NoFreeFrame /\ UNCHANGED <<used, mem, tlb, held, cpu>>
  <2>1. UNCHANGED <<used, mem, cr3, current, tlb, held, cpu>>
    BY <1>1 DEF kmalloc_physical_page
  <2>2. \A w \in ClientPages : Walk(w)' = Walk(w)
    BY <2>1 DEF Walk
  <2>3. QED
    BY <2>1, <2>2 DEF PagingInv, TypeOK, BootTablesInv, ClientTablesInv,
                      BitmapInv, TlbCoherent, TableFrames, Cached, Walk
<1>2. ASSUME NEW f \in Frame, alloc_frame(f),
             IF f = NULL THEN UNCHANGED <<mem, tlb, held, cpu>>
             ELSE IF Deref(f) = NotPresent THEN Fault
             ELSE /\ mem' = [mem EXCEPT ![Deref(f)] = ClearedPage(f)]
                  /\ held' = held \cup {f}
                  /\ UNCHANGED <<tlb, cpu>>
      PROVE  /\ PagingInv'
             /\ held' = held \/ \E g \in Frame \ (Reserved \cup held) : held' = held \cup {g}
             /\ \A w \in ClientPages : Walk(w)' = Walk(w)
  <2>1. f \in Frame \ used /\ used' = used \cup {f} /\ cpu = "running"
        /\ cr3' = cr3 /\ current' = current
    BY <1>2 DEF alloc_frame, set_frame, first_free_frame, kmalloc_physical_page
  <2>2. /\ f # NULL /\ f # BootDirectory /\ f # BootTable
        /\ f \notin Reserved /\ f \notin held
        /\ \A p \in ClientDirs : mem[BootDirectory][p] # f
    BY <2>1, FreeIsNobodys
  <2>3. CASE f \notin Index
    <3>1. cpu' = "faulted" /\ UNCHANGED <<mem, tlb, held>>
      BY <1>2, <2>2, <2>3, DerefWindow DEF PagingInv, Fault
    <3>2. \A w \in ClientPages : Walk(w)' = Walk(w)
      BY <2>1, <3>1 DEF Walk
    <3>3. QED
      BY <2>1, <3>1, <3>2 DEF PagingInv, TypeOK, BootTablesInv, ClientTablesInv, BitmapInv,
                        TlbCoherent, Cached, Walk
  <2>4. CASE f \in Index
    <3>1. Deref(f) = f
      BY <2>4, DerefWindow DEF PagingInv
    <3>2. /\ mem' = [mem EXCEPT ![f] = ZeroPage]
          /\ held' = held \cup {f} /\ UNCHANGED <<tlb, cpu>>
      BY <1>2, <2>2, <2>4, <3>1, Layout DEF ClearedPage
    <3>3. ZeroPage \in [Index -> Entry]
      BY DEF ZeroPage, Entry
    <3>4. /\ mem' \in [Frame -> [Index -> Entry]]
          /\ mem'[BootDirectory] = mem[BootDirectory]
          /\ mem'[BootTable] = mem[BootTable]
          /\ \A p \in ClientDirs :
               mem[BootDirectory][p] # NotPresent =>
                 mem'[mem[BootDirectory][p]] = mem[mem[BootDirectory][p]]
          /\ TableFrames' = TableFrames
          /\ \A v \in VPage : Walk(v)' = Walk(v)
      BY <2>1, <2>2, <3>2, <3>3, DataWrite
    <3>5. TypeOK' /\ BootTablesInv'
      BY <2>1, <3>2, <3>4 DEF PagingInv, TypeOK, BootTablesInv
    <3>6. ClientTablesInv'
      BY <2>2, <2>4, <3>2, <3>4 DEF PagingInv, ClientTablesInv
    <3>7. BitmapInv'
      BY <2>1, <3>2, <3>4 DEF PagingInv, BitmapInv
    <3>8. TlbCoherent'
      BY <3>2, <3>4 DEF PagingInv, TlbCoherent, Cached
    <3>9. QED
      BY <2>2, <3>2, <3>4, <3>5, <3>6, <3>7, <3>8, Layout DEF PagingInv
  <2>5. QED
    BY <2>3, <2>4
<1>3. QED
  BY <1>1, <1>2 DEF kmalloc_physical_page

(* kfree_physical_page: the page that goes is in no page table. *)
LEMMA StepKfree ==
  ASSUME PagingInv, NEW f \in Frame, kfree_physical_page(f)
  PROVE  /\ PagingInv'
         /\ f \in held /\ held' = held \ {f}
         /\ \A w \in ClientPages : Walk(w) # f /\ Walk(w)' = Walk(w)
<1>1. /\ cpu = "running" /\ f \in held /\ used' = used \ {f} /\ held' = held \ {f}
      /\ UNCHANGED <<mem, cr3, current, tlb, cpu>>
      /\ \A v \in ClientPages : Walk(v) # f
  BY DEF kfree_physical_page, free_frame, clear_frame
<1>2. /\ f \notin Reserved /\ \A p \in ClientDirs : mem[BootDirectory][p] # f
  BY <1>1, HeldIsNoTable DEF PagingInv, ClientTablesInv
<1>3. TypeOK' /\ BootTablesInv' /\ TlbCoherent'
  BY <1>1 DEF PagingInv, TypeOK, BootTablesInv, TlbCoherent, Cached, Walk
<1>4. ClientTablesInv'
  <2>1. ASSUME NEW p \in ClientDirs, mem[BootDirectory][p] # NotPresent, NEW i \in Index
        PROVE  mem[mem[BootDirectory][p]][i] # f
    <3>1. CASE <<p, i>> \in ClientPages
      BY <1>1, <2>1, <3>1 DEF Walk, PagingInv, BootTablesInv
    <3>2. CASE <<p, i>> \notin ClientPages
      BY <1>1, <2>1, <3>2, HeldIsNoTable, Layout DEF PagingInv, ClientTablesInv
    <3>3. QED
      BY <3>1, <3>2
  <2>2. QED
    BY <1>1, <2>1 DEF PagingInv, ClientTablesInv
<1>5. BitmapInv'
  <2>1. f \notin TableFrames /\ TableFrames' = TableFrames
    BY <1>1, <1>2 DEF TableFrames, PagingInv, BootTablesInv
  <2>2. QED
    BY <1>1, <1>2, <2>1 DEF PagingInv, BitmapInv
<1>6. \A w \in ClientPages : Walk(w)' = Walk(w)
  BY <1>1 DEF Walk
<1>7. QED
  BY <1>1, <1>3, <1>4, <1>5, <1>6 DEF PagingInv

(* The directory entry that get_page_table finds is the one the CPU walks,  *)
(* and for a caller's page it is a table that no other entry shares.        *)
LEMMA GetPageTable ==
  ASSUME PagingInv, cpu = "running", NEW v \in ClientPages
  PROVE  /\ PageDirectoryEntry(v) = mem[BootDirectory][v[1]]
         /\ PageDirectoryEntry(v) # NotPresent =>
              /\ PageDirectoryEntry(v) \in Index \ (Reserved \cup held)
              /\ Deref(PageDirectoryEntry(v)) = PageDirectoryEntry(v)
<1>1. current = BootDirectory /\ Deref(BootDirectory) = BootDirectory
  BY DerefWindow, Layout DEF PagingInv, BootTablesInv
<1>2. PageDirectoryEntry(v) = mem[BootDirectory][v[1]]
  BY <1>1 DEF PageDirectoryEntry
<1>3. v[1] \in ClientDirs
  BY Layout
<1>4. PageDirectoryEntry(v) # NotPresent => PageDirectoryEntry(v) \in Index \ (Reserved \cup held)
  BY <1>2, <1>3 DEF PagingInv, ClientTablesInv
<1>5. QED
  BY <1>2, <1>4, DerefWindow DEF PagingInv

(* One store into a directory or table leaves every other entry as it was. *)
LEMMA EntryWrite ==
  ASSUME NEW m \in [Frame -> [Index -> Entry]], NEW t \in Frame, NEW i \in Index,
         NEW e \in Entry
  PROVE  /\ [m EXCEPT ![t][i] = e] \in [Frame -> [Index -> Entry]]
         /\ \A g \in Frame : g # t => [m EXCEPT ![t][i] = e][g] = m[g]
         /\ \A j \in Index : [m EXCEPT ![t][i] = e][t][j] = IF j = i THEN e ELSE m[t][j]
OBVIOUS

(* Writing one entry of the table of a caller's page and flushing that page *)
(* is all that map_page_to_frame and unmap_page do to an existing table.    *)
LEMMA TableWrite ==
  ASSUME PagingInv, cpu = "running", NEW v \in ClientPages,
         NEW e \in held \cup {NotPresent},
         PageDirectoryEntry(v) # NotPresent,
         mem' = [mem EXCEPT ![Deref(PageDirectoryEntry(v))][v[2]] = e],
         flush_tlb_entry(v),
         UNCHANGED <<used, cr3, current, held, cpu>>
  PROVE  /\ PagingInv'
         /\ Walk(v)' = e
         /\ \A w \in VPage : w # v => Walk(w)' = Walk(w)
<1> DEFINE t == mem[BootDirectory][v[1]]
<1>1. /\ t \in Index \ (Reserved \cup held) /\ t # NotPresent
      /\ t # BootDirectory /\ t # BootTable
      /\ mem' = [mem EXCEPT ![t][v[2]] = e]
  <2>1. /\ PageDirectoryEntry(v) = t /\ t # NotPresent /\ t \in Index \ (Reserved \cup held)
        /\ Deref(PageDirectoryEntry(v)) = t
    BY GetPageTable
  <2> QED
    BY <2>1, Layout
<1>2. /\ v \in VPage /\ v[1] \in ClientDirs /\ v[1] \in Index /\ v[2] \in Index
      /\ v = <<v[1], v[2]>>
  BY Layout
<1>3. mem \in [Frame -> [Index -> Entry]] /\ e \in Entry /\ cr3 = BootDirectory
  BY DEF PagingInv, TypeOK, BootTablesInv, Entry
<1> HIDE DEF t
<1>4. /\ mem' \in [Frame -> [Index -> Entry]]
      /\ \A g \in Frame : g # t => mem'[g] = mem[g]
      /\ \A i \in Index : mem'[t][i] = IF i = v[2] THEN e ELSE mem[t][i]
  <2>1. t \in Frame
    BY <1>1, Layout
  <2>2. QED
    BY ONLY <1>1, <1>2, <1>3, <2>1, EntryWrite
<1>5. mem'[BootDirectory] = mem[BootDirectory] /\ mem'[BootTable] = mem[BootTable]
  BY <1>1, <1>4, Layout
<1>6. \A p \in Index : p # v[1] /\ mem[BootDirectory][p] # NotPresent =>
        mem'[mem[BootDirectory][p]] = mem[mem[BootDirectory][p]]
  <2>1. \A p \in Index : mem[BootDirectory][p] = t => p = v[1]
    <3>1. \A p \in Index : mem[BootDirectory][p] = t => p \in ClientDirs
      BY <1>1, DirectoryEntries
    <3>2. \A p \in ClientDirs : mem[BootDirectory][p] = t => p = v[1]
      BY <1>1, <1>2 DEF PagingInv, ClientTablesInv, t
    <3>3. QED
      BY <3>1, <3>2
  <2>2. QED
    BY <1>4, <2>1, DirectoryEntries, Layout
<1>7. Walk(v)' = e
  BY <1>1, <1>2, <1>3, <1>4, <1>5 DEF Walk, t
<1>8. ASSUME NEW w \in VPage, w # v PROVE Walk(w)' = Walk(w)
  <2>1. w[1] \in Index /\ w[2] \in Index /\ w = <<w[1], w[2]>>
    BY DEF VPage
  <2>2. CASE w[1] = v[1]
    <3>1. w[2] # v[2]
      BY <1>2, <1>8, <2>1, <2>2
    <3>2. QED
      BY <1>3, <1>4, <1>5, <2>1, <2>2, <3>1 DEF Walk, t
  <2>3. CASE w[1] # v[1]
    BY <1>3, <1>5, <1>6, <2>1, <2>3 DEF Walk
  <2>4. QED
    BY <2>2, <2>3
<1>9. tlb' = [tlb EXCEPT ![v] = NotPresent] /\ tlb \in [VPage -> Entry]
  BY DEF flush_tlb_entry, PagingInv, TypeOK
<1>10. TypeOK'
  BY <1>4, <1>9 DEF PagingInv, TypeOK, Entry
<1>11. BootTablesInv'
  BY <1>5 DEF PagingInv, BootTablesInv
<1>12. ClientTablesInv'
  <2>1. ASSUME NEW p \in ClientDirs, mem[BootDirectory][p] # NotPresent, NEW i \in Index
        PROVE  /\ mem'[mem[BootDirectory][p]][i] \in held \cup {NotPresent}
               /\ <<p, i>> \notin ClientPages => mem'[mem[BootDirectory][p]][i] = NotPresent
    <3>1. /\ mem[mem[BootDirectory][p]][i] \in held \cup {NotPresent}
          /\ <<p, i>> \notin ClientPages => mem[mem[BootDirectory][p]][i] = NotPresent
      BY <2>1 DEF PagingInv, ClientTablesInv
    <3>2. CASE p = v[1]
      BY <1>2, <1>4, <3>1, <3>2 DEF t
    <3>3. CASE p # v[1]
      BY <1>6, <2>1, <3>1, <3>3, Layout
    <3>4. QED
      BY <3>2, <3>3
  <2>2. QED
    BY <1>5, <2>1 DEF PagingInv, ClientTablesInv
<1>13. BitmapInv'
  BY <1>3, <1>5 DEF PagingInv, BitmapInv, TableFrames
<1>14. TlbCoherent'
  BY <1>8, <1>9 DEF PagingInv, TlbCoherent, Cached
<1>15. QED
  BY <1>7, <1>8, <1>10, <1>11, <1>12, <1>13, <1>14 DEF PagingInv

(* What get_page_table and map_page_to_frame write when there is no table   *)
(* yet: a frame with one entry, and the directory entry that leads to it.   *)
LEMMA NewTableContents ==
  ASSUME PagingInv, cpu = "running", NEW v \in ClientPages, NEW f \in held,
         NEW t \in Frame \ used, t \in Index,
         mem' = [mem EXCEPT ![Deref(t)] = [ClearedPage(t) EXCEPT ![v[2]] = f],
                            ![Deref(current)][v[1]] = t]
  PROVE  /\ mem' \in [Frame -> [Index -> Entry]]
         /\ \A i \in Index : mem'[t][i] = IF i = v[2] THEN f ELSE NotPresent
         /\ \A g \in Frame : g # t /\ g # BootDirectory => mem'[g] = mem[g]
         /\ \A p \in Index : mem'[BootDirectory][p] =
                               IF p = v[1] THEN t ELSE mem[BootDirectory][p]
<1> DEFINE page == [ZeroPage EXCEPT ![v[2]] = f]
           m == [mem EXCEPT ![t] = page]
<1>1. t # BootDirectory /\ v[1] \in Index /\ v[2] \in Index /\ t \in Frame /\ BootDirectory \in Frame
  BY FreeIsNobodys, Layout
<1>2. /\ mem \in [Frame -> [Index -> Entry]] /\ f \in Entry /\ t \in Entry
      /\ current = BootDirectory
  BY DEF PagingInv, TypeOK, BootTablesInv, Entry
<1>3. mem' = [m EXCEPT ![BootDirectory][v[1]] = t]
  BY <1>2, DerefWindow, Layout DEF PagingInv, ClearedPage
<1>4. /\ page \in [Index -> Entry]
      /\ \A i \in Index : page[i] = IF i = v[2] THEN f ELSE NotPresent
  BY <1>1, <1>2 DEF ZeroPage, Entry
<1> HIDE DEF page
<1>5. /\ m \in [Frame -> [Index -> Entry]]
      /\ m[t] = page /\ \A g \in Frame : g # t => m[g] = mem[g]
  BY ONLY <1>1, <1>2, <1>4
<1> HIDE DEF m
<1>6. QED
  BY ONLY <1>1, <1>2, <1>3, <1>4, <1>5, EntryWrite

(* A new page table brings no mapping but the one map_page_to_frame puts in *)
(* it, and disturbs no other table and no cached translation.               *)
LEMMA TableCreate ==
  ASSUME PagingInv, cpu = "running", NEW v \in ClientPages, NEW f \in held,
         NEW t \in Frame \ used, t \in Index,
         mem[BootDirectory][v[1]] = NotPresent,
         mem' \in [Frame -> [Index -> Entry]],
         \A i \in Index : mem'[t][i] = IF i = v[2] THEN f ELSE NotPresent,
         \A g \in Frame : g # t /\ g # BootDirectory => mem'[g] = mem[g],
         \A p \in Index : mem'[BootDirectory][p] = IF p = v[1] THEN t ELSE mem[BootDirectory][p],
         used' = used \cup {t},
         flush_tlb_entry(v),
         UNCHANGED <<cr3, current, held, cpu>>
  PROVE  /\ PagingInv'
         /\ Walk(v)' = f
         /\ \A w \in ClientPages : w # v => Walk(w)' = Walk(w)
<1>1. /\ t # BootDirectory /\ t # BootTable /\ t \notin Reserved /\ t \notin held
      /\ \A p \in ClientDirs : mem[BootDirectory][p] # t
  BY FreeIsNobodys
<1>2. /\ v \in VPage /\ v[1] \in ClientDirs /\ v[1] \in Index /\ v[2] \in Index
      /\ v = <<v[1], v[2]>>
      /\ v[1] \notin {0, KERNEL_PAGE_NUMBER, Recursive}
      /\ t \in Frame /\ BootDirectory \in Frame
  BY Layout
<1>3. cr3 = BootDirectory /\ cr3' = BootDirectory /\ f # NotPresent /\ t # NotPresent
  BY Layout DEF PagingInv, TypeOK, BootTablesInv
<1>4. mem[BootDirectory][v[1]] = NotPresent
  OBVIOUS
<1>5. \A i \in Index : mem'[t][i] = IF i = v[2] THEN f ELSE NotPresent
  OBVIOUS
<1>6. /\ \A g \in Frame : g # t /\ g # BootDirectory => mem'[g] = mem[g]
      /\ \A p \in Index : mem'[BootDirectory][p] = IF p = v[1] THEN t ELSE mem[BootDirectory][p]
  OBVIOUS
<1>7. mem'[BootTable] = mem[BootTable]
  BY <1>1, <1>6, Layout
<1>8. \A p \in ClientDirs : p # v[1] /\ mem[BootDirectory][p] # NotPresent =>
        mem'[mem[BootDirectory][p]] = mem[mem[BootDirectory][p]]
  BY <1>1, <1>6, Layout DEF PagingInv, ClientTablesInv
<1>9. Walk(v)' = f
  BY <1>2, <1>3, <1>5, <1>6, Layout DEF Walk
<1>10. ASSUME NEW w \in ClientPages, w # v PROVE Walk(w)' = Walk(w)
  <2>1. w[1] \in ClientDirs /\ w[1] \in Index /\ w[2] \in Index /\ w = <<w[1], w[2]>>
    BY Layout
  <2>2. CASE w[1] = v[1]
    <3>1. w[2] # v[2]
      BY <1>2, <1>10, <2>1, <2>2
    <3>2. QED
      BY <1>2, <1>3, <1>4, <1>5, <1>6, <2>1, <2>2, <3>1, Layout DEF Walk
  <2>3. CASE w[1] # v[1]
    BY <1>3, <1>6, <1>8, <2>1, <2>3 DEF Walk
  <2>4. QED
    BY <2>2, <2>3
<1>11. tlb' = [tlb EXCEPT ![v] = NotPresent] /\ tlb \in [VPage -> Entry]
  BY DEF flush_tlb_entry, PagingInv, TypeOK
<1>12. TypeOK'
  BY <1>2, <1>6, <1>11 DEF PagingInv, TypeOK, Entry
<1>13. BootTablesInv'
  <2>1. \A p \in Index \ ClientDirs : mem'[BootDirectory][p] = mem[BootDirectory][p]
    BY <1>2, <1>6
  <2>2. QED
    BY <1>7, <2>1, Layout DEF PagingInv, BootTablesInv
<1>14. ClientTablesInv'
  <2>1. ASSUME NEW p \in ClientDirs, mem'[BootDirectory][p] # NotPresent
        PROVE  /\ mem'[BootDirectory][p] \in Index \ (Reserved \cup held)
               /\ \A i \in Index :
                    /\ mem'[mem'[BootDirectory][p]][i] \in held \cup {NotPresent}
                    /\ <<p, i>> \notin ClientPages => mem'[mem'[BootDirectory][p]][i] = NotPresent
    <3>1. CASE p = v[1]
      BY <1>1, <1>2, <1>5, <1>6, <3>1
    <3>2. CASE p # v[1]
      <4>1. mem'[BootDirectory][p] = mem[BootDirectory][p]
        BY <1>6, <3>2, Layout
      <4>2. mem'[mem[BootDirectory][p]] = mem[mem[BootDirectory][p]]
        BY <1>8, <2>1, <3>2, <4>1
      <4>3. QED
        BY <2>1, <4>1, <4>2 DEF PagingInv, ClientTablesInv
    <3>3. QED
      BY <3>1, <3>2
  <2>2. ASSUME NEW p \in ClientDirs, NEW q \in ClientDirs,
               mem'[BootDirectory][p] = mem'[BootDirectory][q],
               mem'[BootDirectory][p] # NotPresent
        PROVE  p = q
    <3>1. p \in Index /\ q \in Index
      BY Layout
    <3>2. QED
      BY <1>1, <1>6, <2>2, <3>1 DEF PagingInv, ClientTablesInv
  <2>3. QED
    BY <2>1, <2>2 DEF PagingInv, ClientTablesInv
<1>15. BitmapInv'
  <2>1. TableFrames' = TableFrames \cup {t}
    <3>1. TableFrames' = {mem'[BootDirectory][p] : p \in ClientDirs} \ {NotPresent}
      BY <1>3 DEF TableFrames
    <3>2. TableFrames = {mem[BootDirectory][p] : p \in ClientDirs} \ {NotPresent}
      BY <1>3 DEF TableFrames
    <3>3. \A p \in ClientDirs : mem'[BootDirectory][p] = IF p = v[1] THEN t ELSE mem[BootDirectory][p]
      BY <1>6, Layout
    <3>4. t \in TableFrames'
      BY <1>2, <1>3, <3>1, <3>3
    <3>5. \A x \in TableFrames : x \in TableFrames'
      BY <1>4, <3>1, <3>2, <3>3
    <3>6. \A x \in TableFrames' : x \in TableFrames \/ x = t
      BY <3>1, <3>2, <3>3
    <3>7. QED
      BY <3>4, <3>5, <3>6
  <2>2. QED
    BY <2>1 DEF PagingInv, BitmapInv
<1>16. TlbCoherent'
  <2>1. ASSUME NEW w \in VPage, w # v, Walk(w) # NotPresent PROVE Walk(w)' = Walk(w)
    <3>1. w[1] \in Index /\ w[2] \in Index /\ w = <<w[1], w[2]>>
      BY DEF VPage
    <3>2. mem[BootDirectory][w[1]] # NotPresent
      BY <1>3, <2>1 DEF Walk
    <3>3. w[1] # v[1] /\ mem'[BootDirectory][w[1]] = mem[BootDirectory][w[1]]
      BY <1>4, <1>6, <3>1, <3>2
    <3>4. CASE mem[BootDirectory][w[1]] = BootDirectory
      <4>1. Walk(w) = mem[BootDirectory][w[2]] /\ w[2] # v[1]
        BY <1>3, <1>4, <2>1, <3>2, <3>4 DEF Walk
      <4>2. QED
        BY <1>3, <1>6, <3>1, <3>2, <3>3, <3>4, <4>1 DEF Walk
    <3>5. CASE mem[BootDirectory][w[1]] = BootTable
      BY <1>3, <1>7, <3>2, <3>3, <3>5 DEF Walk
    <3>6. CASE w[1] \in ClientDirs
      BY <1>3, <1>8, <3>2, <3>3, <3>6 DEF Walk
    <3>7. QED
      BY <3>1, <3>2, <3>4, <3>5, <3>6, DirectoryEntries
  <2>2. QED
    BY <1>11, <2>1 DEF PagingInv, TlbCoherent, Cached
<1>17. QED
  BY <1>9, <1>10, <1>12, <1>13, <1>14, <1>15, <1>16 DEF PagingInv

(* map_page_to_frame, whichever way get_page_table goes. Either nothing that *)
(* callers can see changes, or the page v leads to f and no other page       *)
(* moves.                                                                    *)
LEMMA StepMap ==
  ASSUME PagingInv, NEW v \in ClientPages, NEW f \in Frame, map_page_to_frame(v, f)
  PROVE  /\ PagingInv'
         /\ held' = held
         /\ \/ \A w \in ClientPages : Walk(w)' = Walk(w)
            \/ /\ Walk(v)' = f
               /\ \A w \in ClientPages : w # v => Walk(w)' = Walk(w)
<1>1. cpu = "running" /\ f \in held /\ UNCHANGED <<cr3, current>>
  BY DEF map_page_to_frame
<1>2. CASE MapInTable(v, f)
  <2>1. /\ PageDirectoryEntry(v) # NotPresent
        /\ mem' = [mem EXCEPT ![Deref(PageDirectoryEntry(v))][v[2]] = f]
        /\ flush_tlb_entry(v)
        /\ UNCHANGED <<used, cr3, current, held, cpu>>
    BY <1>1, <1>2 DEF MapInTable
  <2>2. /\ PagingInv' /\ Walk(v)' = f
        /\ \A w \in VPage : w # v => Walk(w)' = Walk(w)
    BY <1>1, <2>1, TableWrite
  <2>3. QED
    BY <2>1, <2>2, Layout
<1>3. CASE MapInNewTable(v, f)
  <2>1. PICK t \in Frame :
          /\ alloc_frame(t)
          /\ IF t = NULL THEN UNCHANGED <<mem, tlb, held, cpu>>
             ELSE IF Deref(t) = NotPresent THEN Fault
             ELSE /\ mem' = [mem EXCEPT ![Deref(t)] = [ClearedPage(t) EXCEPT ![v[2]] = f],
                                        ![Deref(current)][v[1]] = t]
                  /\ flush_tlb_entry(v)
                  /\ UNCHANGED <<held, cpu>>
    BY <1>3 DEF MapInNewTable
  <2>2. t \in Frame \ used /\ used' = used \cup {t}
    BY <2>1 DEF alloc_frame, set_frame, first_free_frame
  <2>3. t # NULL
    BY <1>1, <2>2, FreeIsNobodys
  <2>4. CASE t \notin Index
    <3>1. cpu' = "faulted" /\ UNCHANGED <<mem, tlb, held>>
      BY <2>1, <2>2, <2>3, <2>4, DerefWindow DEF PagingInv, Fault
    <3>2. \A w \in ClientPages : Walk(w)' = Walk(w)
      BY <1>1, <3>1 DEF Walk
    <3>3. QED
      BY <1>1, <2>2, <3>1, <3>2 DEF PagingInv, TypeOK, BootTablesInv, ClientTablesInv, BitmapInv,
                        TlbCoherent, Cached, Walk
  <2>5. CASE t \in Index
    <3>1. Deref(t) # NotPresent
      BY <2>5, DerefWindow, Layout DEF PagingInv
    <3>2. /\ mem' = [mem EXCEPT ![Deref(t)] = [ClearedPage(t) EXCEPT ![v[2]] = f],
                                ![Deref(current)][v[1]] = t]
          /\ flush_tlb_entry(v)
          /\ UNCHANGED <<cr3, current, held, cpu>>
      BY <1>1, <2>1, <2>3, <3>1
    <3>3. /\ mem' \in [Frame -> [Index -> Entry]]
          /\ \A i \in Index : mem'[t][i] = IF i = v[2] THEN f ELSE NotPresent
          /\ \A g \in Frame : g # t /\ g # BootDirectory => mem'[g] = mem[g]
          /\ \A p \in Index : mem'[BootDirectory][p] =
                                IF p = v[1] THEN t ELSE mem[BootDirectory][p]
      BY <1>1, <2>2, <2>5, <3>2, NewTableContents
    <3>4. mem[BootDirectory][v[1]] = NotPresent
      BY <1>1, <1>3, GetPageTable DEF MapInNewTable
    <3>5. /\ PagingInv' /\ Walk(v)' = f
          /\ \A w \in ClientPages : w # v => Walk(w)' = Walk(w)
      <4>1. mem' \in [Frame -> [Index -> Entry]]
        BY ONLY <3>3
      <4>2. \A i \in Index : mem'[t][i] = IF i = v[2] THEN f ELSE NotPresent
        BY ONLY <3>3
      <4>3. \A g \in Frame : g # t /\ g # BootDirectory => mem'[g] = mem[g]
        BY ONLY <3>3
      <4>4. \A p \in Index : mem'[BootDirectory][p] =
                              IF p = v[1] THEN t ELSE mem[BootDirectory][p]
        BY ONLY <3>3
      <4>5. /\ PagingInv /\ v \in ClientPages /\ f \in held /\ cpu = "running"
            /\ t \in Frame \ used /\ t \in Index /\ used' = used \cup {t}
            /\ flush_tlb_entry(v) /\ UNCHANGED <<cr3, current, held, cpu>>
        BY <1>1, <2>2, <2>5, <3>2
      <4>6. QED
        BY ONLY <4>1, <4>2, <4>3, <4>4, <4>5, <3>4, TableCreate, Zenon
    <3>6. QED
      BY <3>2, <3>5
  <2>6. QED
    BY <2>4, <2>5
<1>4. CASE MapWithoutMemory(v)
  <2>1. UNCHANGED <<used, mem, cr3, current, tlb, held, cpu>>
    BY <1>1, <1>4 DEF MapWithoutMemory
  <2>2. \A w \in ClientPages : Walk(w)' = Walk(w)
    BY <2>1 DEF Walk
  <2>3. QED
    BY <2>1, <2>2 DEF PagingInv, TypeOK, BootTablesInv, ClientTablesInv, BitmapInv,
                      TlbCoherent, TableFrames, Cached, Walk
<1>5. QED
  BY <1>2, <1>3, <1>4 DEF map_page_to_frame

(* unmap_page: at most the page v loses its mapping. *)
LEMMA StepUnmap ==
  ASSUME PagingInv, NEW v \in ClientPages, unmap_page(v)
  PROVE  /\ PagingInv'
         /\ held' = held
         /\ \/ \A w \in ClientPages : Walk(w)' = Walk(w)
            \/ /\ Walk(v)' = NotPresent
               /\ \A w \in ClientPages : w # v => Walk(w)' = Walk(w)
<1>1. cpu = "running" /\ UNCHANGED <<used, cr3, current, held, cpu>>
  BY DEF unmap_page
<1>2. CASE UNCHANGED <<mem, tlb>>
  <2>1. \A w \in ClientPages : Walk(w)' = Walk(w)
    BY <1>1, <1>2 DEF Walk
  <2>2. QED
    BY <1>1, <1>2, <2>1 DEF PagingInv, TypeOK, BootTablesInv, ClientTablesInv, BitmapInv,
                            TlbCoherent, TableFrames, Cached, Walk
<1>3. CASE /\ PageDirectoryEntry(v) # NotPresent
           /\ mem' = [mem EXCEPT ![Deref(PageDirectoryEntry(v))][v[2]] = NotPresent]
           /\ flush_tlb_entry(v)
  <2>1. /\ PagingInv' /\ Walk(v)' = NotPresent
        /\ \A w \in VPage : w # v => Walk(w)' = Walk(w)
    BY <1>1, <1>3, TableWrite
  <2>2. QED
    BY <1>1, <2>1, Layout
<1>4. QED
  BY <1>2, <1>3 DEF unmap_page

(* A caller's write lands in a page that callers hold. *)
LEMMA StepClientWrite ==
  ASSUME PagingInv, NEW v \in ClientPages, ClientWrite(v)
  PROVE  /\ PagingInv'
         /\ held' = held
         /\ \A w \in ClientPages : Walk(w)' = Walk(w)
<1>1. /\ cpu = "running" /\ UNCHANGED <<used, cr3, current>>
      /\ IF Translate(v) = NotPresent THEN Fault
         ELSE /\ mem' = [mem EXCEPT ![Translate(v)] = JunkPage]
              /\ UNCHANGED <<tlb, held, cpu>>
  BY DEF ClientWrite
<1>2. Translate(v) \in held \cup {NotPresent}
  <2>1. v \in VPage /\ v[1] \in ClientDirs /\ v[2] \in Index
    BY Layout
  <2>2. Walk(v) \in held \cup {NotPresent}
    BY <2>1 DEF Walk, PagingInv, BootTablesInv, ClientTablesInv
  <2>3. QED
    BY <2>1, <2>2, TranslateIsWalk DEF PagingInv
<1>3. CASE Translate(v) = NotPresent
  <2>1. cpu' = "faulted" /\ UNCHANGED <<mem, tlb, held>>
    BY <1>1, <1>3 DEF Fault
  <2>2. \A w \in ClientPages : Walk(w)' = Walk(w)
    BY <1>1, <2>1 DEF Walk
  <2>3. QED
    BY <1>1, <2>1, <2>2 DEF PagingInv, TypeOK, BootTablesInv, ClientTablesInv, BitmapInv,
                            TlbCoherent, Cached, Walk
<1>4. CASE Translate(v) # NotPresent
  <2> DEFINE f == Translate(v)
  <2>1. f \in held /\ mem' = [mem EXCEPT ![f] = JunkPage] /\ UNCHANGED <<tlb, held, cpu>>
    BY <1>1, <1>2, <1>4
  <2> HIDE DEF f
  <2>2. /\ f \in Frame /\ f # BootDirectory /\ f # BootTable
        /\ \A p \in ClientDirs : mem[BootDirectory][p] # f
    BY <2>1, HeldIsNoTable, Layout
  <2>3. JunkPage \in [Index -> Entry]
    BY Layout DEF JunkPage, Entry
  <2>4. /\ mem' \in [Frame -> [Index -> Entry]]
        /\ mem'[BootDirectory] = mem[BootDirectory]
        /\ mem'[BootTable] = mem[BootTable]
        /\ \A p \in ClientDirs :
             mem[BootDirectory][p] # NotPresent =>
               mem'[mem[BootDirectory][p]] = mem[mem[BootDirectory][p]]
        /\ TableFrames' = TableFrames
        /\ \A w \in VPage : Walk(w)' = Walk(w)
    BY <1>1, <2>1, <2>2, <2>3, DataWrite
  <2>5. TypeOK' /\ BootTablesInv'
    BY <1>1, <2>1, <2>4 DEF PagingInv, TypeOK, BootTablesInv
  <2>6. ClientTablesInv'
    BY <2>1, <2>4 DEF PagingInv, ClientTablesInv
  <2>7. BitmapInv'
    BY <1>1, <2>1, <2>4 DEF PagingInv, BitmapInv
  <2>8. TlbCoherent'
    BY <2>1, <2>4 DEF PagingInv, TlbCoherent, Cached
  <2>9. QED
    BY <2>1, <2>4, <2>5, <2>6, <2>7, <2>8, Layout DEF PagingInv
<1>5. QED
  BY <1>3, <1>4

(* The steps that touch only the TLB: a CR3 load, a fill, an eviction. *)
LEMMA StepTlb ==
  ASSUME PagingInv,
         \/ switch_page_directory(BootDirectory)
         \/ \E v \in VPage : TlbFill(v)
         \/ \E v \in VPage : TlbEvict(v)
  PROVE  /\ PagingInv'
         /\ held' = held
         /\ \A w \in ClientPages : Walk(w)' = Walk(w)
<1> USE DEF PagingInv
<1>1. UNCHANGED <<used, mem, cr3, current, held, cpu>>
  BY DEF switch_page_directory, TlbFill, TlbEvict, BootTablesInv
<1>2. \A w \in VPage : Walk(w)' = Walk(w)
  BY <1>1 DEF Walk
<1>3. tlb' \in [VPage -> Entry] /\ \A w \in VPage : tlb'[w] \in {NotPresent, tlb[w], Walk(w)}
  <2>1. tlb \in [VPage -> Entry] /\ NotPresent \in Entry
    BY DEF TypeOK, Entry
  <2>2. CASE switch_page_directory(BootDirectory)
    BY <2>1, <2>2 DEF switch_page_directory, EmptyTlb
  <2>3. CASE \E v \in VPage : TlbFill(v)
    <3>1. PICK v \in VPage : tlb' = [tlb EXCEPT ![v] = Walk(v)]
      BY <2>3 DEF TlbFill
    <3>2. Walk(v) \in Entry
      <4>1. v[1] \in Index /\ v[2] \in Index
        BY DEF VPage
      <4>2. mem[cr3][v[1]] \in Index \cup {NotPresent}
        BY <4>1, DirectoryEntries DEF BootTablesInv
      <4>3. QED
        BY <4>1, <4>2, Layout DEF Walk, TypeOK, Entry
    <3>3. QED
      BY <2>1, <3>1, <3>2
  <2>4. CASE \E v \in VPage : TlbEvict(v)
    BY <2>1, <2>4 DEF TlbEvict
  <2>5. QED
    BY <2>2, <2>3, <2>4
<1>4. TypeOK' /\ BootTablesInv' /\ ClientTablesInv' /\ BitmapInv'
  BY <1>1, <1>3 DEF TypeOK, BootTablesInv, ClientTablesInv, BitmapInv, TableFrames
<1>5. TlbCoherent'
  BY <1>2, <1>3 DEF TlbCoherent, Cached
<1>6. QED
  BY <1>1, <1>2, <1>4, <1>5, Layout

(* PagingInv is inductive. *)
LEMMA StepPagingInv == PagingInv /\ [Next]_vars => PagingInv'
<1> SUFFICES ASSUME PagingInv, [Next]_vars PROVE PagingInv'
  OBVIOUS
<1>1. CASE init_paging
  BY <1>1, StepInitPaging
<1>2. CASE kmalloc_physical_page
  BY <1>2, StepKmalloc
<1>3. CASE \E f \in Frame : kfree_physical_page(f)
  BY <1>3, StepKfree
<1>4. CASE \E v \in ClientPages, f \in Frame : map_page_to_frame(v, f)
  BY <1>4, StepMap
<1>5. CASE \E v \in ClientPages : unmap_page(v)
  BY <1>5, StepUnmap
<1>6. CASE \E v \in ClientPages : ClientWrite(v)
  BY <1>6, StepClientWrite
<1>7. CASE \/ switch_page_directory(BootDirectory)
           \/ \E v \in VPage : TlbFill(v)
           \/ \E v \in VPage : TlbEvict(v)
  BY <1>7, StepTlb
<1>8. CASE UNCHANGED vars
  BY <1>8 DEF vars, PagingInv, TypeOK, BootTablesInv, ClientTablesInv, BitmapInv,
              TlbCoherent, TableFrames, Cached, Walk
<1>9. QED
  BY <1>1, <1>2, <1>3, <1>4, <1>5, <1>6, <1>7, <1>8 DEF Next

(* Whatever callers do within the interface, the machine stays in PagingInv. *)
THEOREM PagingInvariant == Spec => []PagingInv
<1>1. QED
  BY InitPagingInv, StepPagingInv, PTL DEF Spec

-----------------------------------------------------------------------------
(* The properties that the runs check, for every instance. *)

(* Type correctness of the paging state. *)
THEOREM TypeCorrect == Spec => []TypeOK
<1>1. PagingInv => TypeOK
  BY DEF PagingInv
<1>2. QED
  BY <1>1, PagingInvariant, PTL

(* No sequence of calls to kmalloc_physical_page, kfree_physical_page,      *)
(* map_page_to_frame and unmap_page leaks a frame or gives one two uses.    *)
THEOREM FramesAccountedFor == Spec => []FrameAccounting
<1>1. ASSUME PagingInv PROVE FrameAccounting
  <2>1. held \cap TableFrames = {} /\ Reserved \cap (held \cup TableFrames) = {}
    BY <1>1, HeldIsNoTable DEF PagingInv, BootTablesInv, ClientTablesInv, TableFrames
  <2>2. QED
    BY <1>1, <2>1 DEF PagingInv, BitmapInv, FrameAccounting
<1>2. QED
  BY <1>1, PagingInvariant, PTL

(* An access to a caller's page reaches a page that callers hold, whatever  *)
(* the TLB has cached.                                                      *)
THEOREM ClientsIsolated == Spec => []Isolation
<1>1. ASSUME PagingInv, NEW v \in ClientPages PROVE Translate(v) \in held \cup {NotPresent}
  <2>1. v \in VPage /\ v[1] \in ClientDirs /\ v[2] \in Index
    BY Layout
  <2>2. Walk(v) \in held \cup {NotPresent}
    BY <1>1, <2>1 DEF Walk, PagingInv, BootTablesInv, ClientTablesInv
  <2>3. QED
    BY <1>1, <2>1, <2>2, TranslateIsWalk DEF PagingInv
<1>2. PagingInv => Isolation
  BY <1>1 DEF Isolation
<1>3. QED
  BY <1>2, PagingInvariant, PTL

(* map_page_to_frame and unmap_page leave no stale translation behind. *)
THEOREM TlbStaysCoherent == Spec => []TlbCoherent
<1>1. PagingInv => TlbCoherent
  BY DEF PagingInv
<1>2. QED
  BY <1>1, PagingInvariant, PTL

(* P2V keeps reaching every frame that boot_page_table1 maps. *)
THEOREM WindowStaysIntact == Spec => []WindowIntact
<1>1. PagingInv => WindowIntact
  BY DerefWindow DEF PagingInv, WindowIntact
<1>2. QED
  BY <1>1, PagingInvariant, PTL

(* The software walk of get_physical_address and the CPU's walk agree. *)
LEMMA LookupIsTranslate ==
  ASSUME PagingInv, cpu = "running", NEW v \in VPage
  PROVE  get_physical_address(v) = IF Translate(v) = NotPresent THEN NULL ELSE Translate(v)
<1>1. v[1] \in Index /\ Translate(v) = Walk(v)
  BY TranslateIsWalk DEF PagingInv, VPage
<1>2. cr3 = BootDirectory /\ PageDirectoryEntry(v) = mem[BootDirectory][v[1]]
  BY DerefWindow, Layout DEF PagingInv, BootTablesInv, PageDirectoryEntry
<1>3. PageDirectoryEntry(v) # NotPresent => Deref(PageDirectoryEntry(v)) = PageDirectoryEntry(v)
  BY <1>1, <1>2, DirectoryEntries, DerefWindow DEF PagingInv
<1>4. QED
  BY <1>1, <1>2, <1>3 DEF get_physical_address, Walk

(* get_physical_address answers what the CPU would do with the address. *)
THEOREM LookupCorrect == Spec => []LookupAgrees
<1>1. PagingInv => LookupAgrees
  BY LookupIsTranslate DEF LookupAgrees
<1>2. QED
  BY <1>1, PagingInvariant, PTL

(* A frame that P2V does not reach is handed out only when all frames that  *)
(* it does reach are in use: the allocator takes the lowest.                *)
LEMMA BeyondWindow ==
  ASSUME PagingInv, NEW f \in Frame, alloc_frame(f), Deref(f) = NotPresent
  PROVE  (Index \subseteq used /\ used \ Index # {})'
<1>1. f \in Nat /\ f \notin Index
  BY DerefWindow, Layout DEF PagingInv, Frame
<1>2. f >= Entries
  BY <1>1, SizeAssumption DEF Index, Sizes
<1>3. used' = used \cup {f}
  BY DEF alloc_frame, set_frame
<1>4. ASSUME NEW g \in Index  PROVE g \in used
  <2>1. g \in Frame /\ ~(f <= g)
    BY <1>2, SizeAssumption DEF Index, Frame, Sizes
  <2>2. QED
    BY <2>1 DEF alloc_frame, first_free_frame
<1>5. QED
  BY <1>1, <1>3, <1>4

(* However much memory the bitmap tracks, no call of the interface faults   *)
(* while one of the frames that boot_page_table1 maps is left. With the     *)
(* code's 64 MB and 4 MB the frames beyond do get their turn: see the run   *)
(* that violates NoFault.                                                   *)
THEOREM FaultsOnlyWhenFull == Spec => []FaultsOnlyWhenWindowFull
<1>1. Init => FaultsOnlyWhenWindowFull
  BY DEF Init, FaultsOnlyWhenWindowFull
<1>2. ASSUME PagingInv, FaultsOnlyWhenWindowFull, [Next]_vars
      PROVE  FaultsOnlyWhenWindowFull'
  <2>1. CASE cpu = "faulted"
    <3>1. UNCHANGED vars
      BY <1>2, <2>1 DEF Next, init_paging, kmalloc_physical_page, kfree_physical_page,
         map_page_to_frame, unmap_page, ClientWrite, switch_page_directory, TlbFill, TlbEvict
    <3>2. QED
      BY <1>2, <3>1 DEF vars, FaultsOnlyWhenWindowFull
  <2>2. CASE cpu # "faulted"
    <3>1. SUFFICES ASSUME cpu' = "faulted"
                   PROVE  (Index \subseteq used /\ used \ Index # {})'
      BY DEF FaultsOnlyWhenWindowFull
    <3>2. \A v \in ClientPages : cpu = "running" /\ get_physical_address(v) # NULL =>
                                   Translate(v) # NotPresent
      BY <1>2, LookupIsTranslate, Layout
    <3>3. \E f \in Frame : alloc_frame(f) /\ Deref(f) = NotPresent
      <4>1. CASE kmalloc_physical_page
        BY <2>2, <3>1, <4>1 DEF kmalloc_physical_page
      <4>2. CASE \E v \in ClientPages, f \in Frame : map_page_to_frame(v, f)
        BY <2>2, <3>1, <4>2 DEF map_page_to_frame, MapInTable, MapInNewTable, MapWithoutMemory
      <4>3. CASE \E v \in ClientPages : ClientWrite(v)
        BY <2>2, <3>1, <3>2, <4>3 DEF ClientWrite
      <4>4. QED
        BY <1>2, <2>2, <3>1, <4>1, <4>2, <4>3 DEF Next, vars, init_paging, kfree_physical_page,
           unmap_page, switch_page_directory, TlbFill, TlbEvict
    <3>4. QED
      BY <1>2, <3>3, BeyondWindow
  <2>3. QED
    BY <2>1, <2>2
<1>3. QED
  BY <1>1, <1>2, PagingInvariant, PTL DEF Spec

(* A step of the machine is a step of the address space callers are         *)
(* promised, or invisible to them.                                          *)
LEMMA StepPromise ==
  ASSUME PagingInv, [Next]_vars
  PROVE  [Promise!Next]_(Promise!vars)
<1> DEFINE map == [v \in ClientPages |-> Walk(v)]
           mapNext == [v \in ClientPages |-> Walk(v)']
<1>1. ASSUME held' = held, \A w \in ClientPages : Walk(w)' = Walk(w)
      PROVE  UNCHANGED Promise!vars
  BY <1>1 DEF Promise!vars
<1>2. CASE init_paging
  BY <1>1, <1>2, StepInitPaging
<1>3. CASE kmalloc_physical_page
  <2>1. mapNext = map
    BY <1>3, StepKmalloc
  <2>2. CASE held' = held
    BY <1>1, <1>3, <2>2, StepKmalloc
  <2>3. CASE \E f \in Frame \ (Reserved \cup held) : held' = held \cup {f}
    BY <2>1, <2>3 DEF Promise!Next, Promise!Alloc
  <2>4. QED
    BY <1>3, <2>2, <2>3, StepKmalloc
<1>4. CASE \E f \in Frame : kfree_physical_page(f)
  <2>1. PICK f \in Frame : kfree_physical_page(f)
    BY <1>4
  <2>2. /\ f \in held /\ held' = held \ {f}
        /\ \A w \in ClientPages : Walk(w) # f /\ Walk(w)' = Walk(w)
    BY <2>1, StepKfree
  <2>3. mapNext = map
    BY <2>2
  <2>4. QED
    BY <2>2, <2>3 DEF Promise!Next, Promise!Free
<1>5. CASE \E v \in ClientPages, f \in Frame : map_page_to_frame(v, f)
  <2>1. PICK v \in ClientPages, f \in Frame : map_page_to_frame(v, f)
    BY <1>5
  <2>2. f \in held /\ held' = held
    BY <2>1, StepMap DEF map_page_to_frame
  <2>3. CASE \A w \in ClientPages : Walk(w)' = Walk(w)
    BY <1>1, <2>2, <2>3
  <2>4. CASE Walk(v)' = f /\ \A w \in ClientPages : w # v => Walk(w)' = Walk(w)
    <3>1. mapNext = [map EXCEPT ![v] = f]
      BY <2>4
    <3>2. QED
      BY <2>2, <3>1 DEF Promise!Next, Promise!Map
  <2>5. QED
    BY <2>1, <2>3, <2>4, StepMap
<1>6. CASE \E v \in ClientPages : unmap_page(v)
  <2>1. PICK v \in ClientPages : unmap_page(v)
    BY <1>6
  <2>2. held' = held
    BY <2>1, StepUnmap
  <2>3. CASE \A w \in ClientPages : Walk(w)' = Walk(w)
    BY <1>1, <2>2, <2>3
  <2>4. CASE Walk(v)' = NotPresent /\ \A w \in ClientPages : w # v => Walk(w)' = Walk(w)
    <3>1. mapNext = [map EXCEPT ![v] = NotPresent]
      BY <2>4
    <3>2. QED
      BY <2>2, <3>1 DEF Promise!Next, Promise!Unmap
  <2>5. QED
    BY <2>1, <2>3, <2>4, StepUnmap
<1>7. CASE \E v \in ClientPages : ClientWrite(v)
  BY <1>1, <1>7, StepClientWrite
<1>8. CASE \/ switch_page_directory(BootDirectory)
           \/ \E v \in VPage : TlbFill(v)
           \/ \E v \in VPage : TlbEvict(v)
  BY <1>1, <1>8, StepTlb
<1>9. CASE UNCHANGED vars
  BY <1>1, <1>9 DEF vars, Walk
<1>10. QED
  BY <1>2, <1>3, <1>4, <1>5, <1>6, <1>7, <1>8, <1>9 DEF Next

(* paging.c implements the address space that its callers are promised. *)
THEOREM PagingImplementsAddressSpace == Spec => ImplementsAddressSpace
<1>1. Init => Promise!Init
  <2> SUFFICES ASSUME Init PROVE Promise!Init
    OBVIOUS
  <2>1. PagingInv /\ held = {} /\ cpu = "booted" /\ cr3 = BootDirectory
    BY InitPagingInv DEF Init
  <2>2. \A v \in ClientPages : Walk(v) = NotPresent
    BY <2>1, Layout DEF Walk, PagingInv, BitmapInv
  <2>3. QED
    BY <2>1, <2>2 DEF Promise!Init
<1>2. QED
  BY <1>1, StepPromise, PagingInvariant, PTL DEF Spec, ImplementsAddressSpace, Promise!Spec

=============================================================================
