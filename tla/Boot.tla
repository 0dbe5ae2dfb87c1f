-------------------------------- MODULE Boot --------------------------------
(***************************************************************************)
(* kernel/arch/i386/boot.S up to kernel_main, and kernel/kernel/gdt.c: the *)
(* registers that carry the loader's arguments, the page tables being      *)
(* built while the code that builds them runs at another address than it   *)
(* was linked for, and the segments.                                       *)
(*                                                                         *)
(* An address is "low" (physical, or identity mapped) or "high" (above     *)
(* KERNEL_VIRTUAL_BASE) and the frame it means. The variables of Paging    *)
(* have their meaning here too; its rules hold once CR0.PG is set.         *)
(*                                                                         *)
(* validate_boot and setup_gdt call printf before the terminal has a       *)
(* buffer and before any echo to COM1 is on. What those calls do to the    *)
(* cursor is in Terminal; here they only store through the NULL buffer.    *)
(***************************************************************************)
EXTENDS Integers, Sequences, TLC

CONSTANTS
  Entries, TOTAL_FRAMES, KERNEL_PAGE_NUMBER, LowFrames, KernelFrames,
  BootDirectory, BootTable, ClientPages, NotPresent, TlbCapacity, \* see Paging
  BootstrapFrame,  \* .bootstrap_text, linked low
  TextFrame,       \* .text, with all the strings of boot.S, linked high
  VgaFrame,        \* the VGA buffer
  StackPages,      \* STACK_SIZE
  Magics,          \* what the loader may leave in eax
  Infos            \* the frames to which ebx may point

VARIABLES
  used, mem, cr3, current, tlb, held, cpu,   \* see Paging
  pc,         \* the routine that runs next
  pg,         \* CR0.PG
  magic,      \* eax and ebx as the loader set them
  info,
  edi, esi,
  args,       \* what is pushed for validate_boot, the first argument first
  tag,        \* the frame of the tag that validate_boot's loop is at
  banner,     \* the message in the first row of the screen
  segments    \* the descriptor behind each segment register

paging == <<used, mem, cr3, current, tlb, held, cpu>>
boot == <<pc, pg, magic, info, edi, esi, args, tag, banner, segments>>

P == INSTANCE Paging

(* The boot stack is .bootstrap_bss, the pages after boot_page_table1. The  *)
(* first pushes go to the last of them. .bootstrap_bss is nobits: the loader *)
(* has cleared it, and the pages that the stack has not reached still are.  *)
StackFrame == BootTable + StackPages
Cleared == (BootTable + 1) .. (BootTable + StackPages - 1)

ASSUME BootAssumption ==
  /\ P!Sizes /\ P!ImageInWindow /\ P!ClientsOutside
  /\ StackPages \in Nat \ {0, 1}
  /\ {BootstrapFrame, TextFrame, StackFrame} \cup Cleared \subseteq KernelFrames
  /\ VgaFrame \in LowFrames

-----------------------------------------------------------------------------
(* The CPU reaches a frame through an address of the given half. Without    *)
(* paging there is no memory at the high addresses.                         *)
Reaches(half, f) ==
  IF pg THEN P!Translate(IF half = "low" THEN <<0, f>> ELSE P!P2V(f)) = f
  ELSE half = "low"

(* Runs the routine at pc, which fetches code and touches data at the given *)
(* addresses; an address that is not mapped faults, with nobody to handle it.*)
Run(routine, then, touched) ==
  /\ pc = routine
  /\ cpu # "faulted"
  /\ IF \A a \in touched : Reaches(a[1], a[2])
     THEN pc' = then /\ UNCHANGED cpu
     ELSE cpu' = "faulted" /\ UNCHANGED pc

(* early_print_string reads a string of .text and stores it at 0xB8000. If  *)
(* there is no memory at the string's address, the bus answers: with zero,  *)
(* which ends the loop.                                                     *)
EarlyPrint(message) ==
  banner' = IF Reaches("high", TextFrame) THEN message ELSE banner

(* Or with ones: the loop copies them on and on, through the VGA buffer to  *)
(* the kernel's image at 1 MB, and over itself.                             *)
BusFloatsHigh ==
  /\ pc \in {"multiboot_entry", "setup_page_tables"}
  /\ ~Reaches("high", TextFrame)
  /\ pc' = "lost"
  /\ banner' = "noise"
  /\ UNCHANGED <<mem, cr3, tlb, cpu, pg, edi, esi, args, tag, segments>>

multiboot_entry ==
  /\ Run("multiboot_entry", "setup_page_tables", {<<"low", BootstrapFrame>>, <<"low", VgaFrame>>})
  /\ edi' = info
  /\ esi' = magic
  /\ EarlyPrint("boot_message")
  /\ UNCHANGED <<mem, cr3, tlb, pg, args, tag, segments>>

FillsFromOne ==
  [mem EXCEPT ![BootDirectory] = [P!ZeroPage EXCEPT ![0] = BootTable,
                                                    ![KERNEL_PAGE_NUMBER] = BootTable],
              ![BootTable] = [i \in P!Index |-> i + 1]]

MapsHighOnly ==
  [mem EXCEPT ![BootDirectory] = [P!ZeroPage EXCEPT ![KERNEL_PAGE_NUMBER] = BootTable],
              ![BootTable] = [i \in P!Index |-> i]]

(* One entry per frame, and the table in two entries of the directory. *)
PageTables ==
  [mem EXCEPT ![BootDirectory] = [P!ZeroPage EXCEPT ![0] = BootTable,
                                                    ![KERNEL_PAGE_NUMBER] = BootTable],
              ![BootTable] = [i \in P!Index |-> i]]

ClearsDirectoryLast == BootDirectory + 1

(* The directory is cleared, then the table filled, with stosl, which leaves *)
(* edi behind what it wrote last.                                           *)
LeftInEdi == BootTable + 1

setup_page_tables ==
  /\ Run("setup_page_tables", "enable_paging", {<<"low", BootstrapFrame>>, <<"low", VgaFrame>>})
  /\ mem' = PageTables
  /\ edi' = LeftInEdi
  /\ EarlyPrint("page_tables_setup")
  /\ UNCHANGED <<cr3, tlb, pg, esi, args, tag, segments>>

EnablePaging ==
  /\ Run("enable_paging", "jump", {<<"low", BootstrapFrame>>})
  /\ cr3' = BootDirectory
  /\ pg' = TRUE
  /\ tlb' = P!EmptyTlb
  /\ UNCHANGED <<mem, edi, esi, args, tag, banner, segments>>

(* The first instructions after the switch still run at their low address. *)
JumpHigh ==
  /\ Run("jump", "higher_half", {<<"low", BootstrapFrame>>})
  /\ UNCHANGED <<mem, cr3, tlb, pg, edi, esi, args, tag, banner, segments>>

(* The stack moves to its high address; the arguments are pushed there. *)
higher_half ==
  /\ Run("higher_half", "validate_boot",
         {<<"high", TextFrame>>, <<"high", StackFrame>>, <<"high", VgaFrame>>})
  /\ args' = <<esi, edi>>
  /\ EarlyPrint("higher_half_message")
  /\ UNCHANGED <<mem, cr3, tlb, pg, edi, esi, tag, segments>>

(* Reads the size of the information through KERNEL_VIRTUAL_BASE if the     *)
(* magic is right, and goes on to the first tag behind it. Frames are       *)
(* aligned to 8 bytes.                                                      *)
validate_boot ==
  LET valid == args[1] = "MULTIBOOT2_BOOTLOADER_MAGIC"
  IN  /\ Run("validate_boot", IF valid THEN "walk_tags" ELSE "setup_gdt",
             {<<"high", TextFrame>>, <<"high", StackFrame>>, <<"low", P!NULL>>}
               \cup (IF valid THEN {<<"high", args[2]>>} ELSE {}))
      /\ tag' = IF valid THEN args[2] ELSE tag
      /\ UNCHANGED <<mem, cr3, tlb, pg, edi, esi, args, banner, segments>>

(* Where the loop over the tags may go from a frame; NotPresent stands for   *)
(* its end. A zero word is the end tag. The information that the loader has *)
(* made ends too, as Multiboot shows. Anything else may be any type and any *)
(* size: the walk goes on to any frame, to this one again, or ends.         *)
TagsAt(f) ==
  IF f \in Cleared \cup {info} THEN {NotPresent} ELSE {NotPresent} \cup P!Frame

(* One frame of the loop: the tags and their strings and regions in it. The *)
(* size of the end tag is read, too.                                        *)
walk_tags ==
  \E next \in TagsAt(tag) :
    /\ Run("walk_tags", IF next = NotPresent THEN "setup_gdt" ELSE "walk_tags",
           {<<"high", TextFrame>>, <<"high", StackFrame>>, <<"low", P!NULL>>, <<"high", tag>>})
    /\ tag' = next
    /\ UNCHANGED <<mem, cr3, tlb, pg, edi, esi, args, banner, segments>>

-----------------------------------------------------------------------------
(* gdt.c. A 32 bit number is the pair of its 16 bit halves, high half first. *)

Zero32 == <<0, 0>>
Ones32 == <<65535, 65535>>

GDT_KERNEL_CODE_SEGMENT_SELECTOR == 8
GDT_KERNEL_DATA_SEGMENT_SELECTOR == 16
GDT_CODE_SEGMENT_PL0 == 154     \* 0x9A
GDT_DATA_SEGMENT_PL0 == 146     \* 0x92

SegmentRegisters == {"cs", "ds", "es", "fs", "gs", "ss"}

GranularityLost(base, limit, access, gran) ==
  [base_low    |-> base[2],
   base_middle |-> base[1] % 256,
   base_high   |-> (base[1] \div 256) % 256,
   limit_low   |-> limit[2],
   granularity |-> (limit[1] % 16) + (gran % 16),
   access      |-> access]

gdt_set_entry(base, limit, access, gran) ==
  [base_low    |-> base[2],
   base_middle |-> base[1] % 256,
   base_high   |-> (base[1] \div 256) % 256,
   limit_low   |-> limit[2],
   granularity |-> (limit[1] % 16) + 16 * (gran \div 16),
   access      |-> access]

(* The CPU's reading of an entry. *)
Bit(n, byte) == (byte \div (2 ^ n)) % 2 = 1

Descriptor(entry) ==
  [base     |-> <<entry.base_high * 256 + entry.base_middle, entry.base_low>>,
   limit    |-> <<entry.granularity % 16, entry.limit_low>>,
   pages    |-> Bit(7, entry.granularity),
   wide     |-> Bit(6, entry.granularity),
   present  |-> Bit(7, entry.access),
   ring     |-> (entry.access \div 32) % 4,
   code     |-> Bit(3, entry.access),
   writable |-> ~Bit(3, entry.access) /\ Bit(1, entry.access)]

(* lgdt, the data segments' registers, and the far jump that reloads cs. *)
setup_gdt ==
  LET gdt == <<gdt_set_entry(Zero32, Zero32, 0, 0),
               gdt_set_entry(Zero32, Ones32, GDT_CODE_SEGMENT_PL0, 207),
               gdt_set_entry(Zero32, Ones32, GDT_DATA_SEGMENT_PL0, 207)>>
      selector(r) == IF r = "cs" THEN GDT_KERNEL_CODE_SEGMENT_SELECTOR
                     ELSE GDT_KERNEL_DATA_SEGMENT_SELECTOR
  IN  /\ Run("setup_gdt", "terminal_initialize",
             {<<"high", TextFrame>>, <<"high", StackFrame>>, <<"low", P!NULL>>})
      /\ segments' = [r \in SegmentRegisters |-> Descriptor(gdt[1 + (selector(r) \div 8)])]
      /\ UNCHANGED <<mem, cr3, tlb, pg, edi, esi, args, tag, banner>>

(* get_vga_buffer asks whether paging is on. The screen is cleared. *)
terminal_initialize ==
  /\ Run("terminal_initialize", "kernel_main",
         {<<"high", TextFrame>>, <<"high", StackFrame>>,
          <<IF pg THEN "high" ELSE "low", VgaFrame>>})
  /\ banner' = "cleared"
  /\ UNCHANGED <<mem, cr3, tlb, pg, edi, esi, args, tag, segments>>

-----------------------------------------------------------------------------
(* The loader has put the image in memory; .bootstrap_data is zero. *)
Init ==
  /\ used = {} /\ current = NotPresent /\ held = {} /\ cpu = "booted"
  /\ mem = [f \in P!Frame |-> IF f \in {BootDirectory, BootTable} THEN P!ZeroPage ELSE P!JunkPage]
  /\ cr3 = NotPresent
  /\ tlb = P!EmptyTlb
  /\ pc = "multiboot_entry"
  /\ pg = FALSE
  /\ magic \in Magics /\ info \in Infos
  /\ edi = NotPresent /\ esi = NotPresent
  /\ args = <<>>
  /\ tag = NotPresent
  /\ banner = "loader"
  /\ segments = [r \in SegmentRegisters |-> "loader"]

BootStep ==
  /\ \/ multiboot_entry
     \/ setup_page_tables
     \/ EnablePaging
     \/ JumpHigh
     \/ higher_half
     \/ validate_boot
     \/ walk_tags
     \/ setup_gdt
     \/ terminal_initialize
     \/ BusFloatsHigh
  /\ UNCHANGED <<used, current, held, magic, info>>

(* What the TLB does, once it is used. *)
TlbStep ==
  /\ pg
  /\ \E v \in P!VPage : P!TlbFill(v) \/ P!TlbEvict(v)
  /\ UNCHANGED boot

-----------------------------------------------------------------------------
(* From setup_gdt on every segment register spans all 4 GB in ring 0, cs for *)
(* 32 bit code and the others for data that can be written.                 *)
SegmentsFlat ==
  pc \in {"terminal_initialize", "kernel_main", "hlt"} =>
    \A r \in SegmentRegisters :
      segments[r] = [base |-> Zero32, limit |-> <<15, 65535>>, pages |-> TRUE, wide |-> TRUE,
                     present |-> TRUE, ring |-> 0, code |-> r = "cs", writable |-> r # "cs"]

-----------------------------------------------------------------------------
(* What comments say, and the code does not do. *)

(* "Store multiboot info for kernel (saved earlier in edi/esi)" (boot.S):    *)
(* validate_boot gets what the loader left in eax and ebx.                   *)
ArgumentsArrive == pc = "validate_boot" => args = <<magic, info>>

(* "Print a message to indicate we're starting" (boot.S): the message is on  *)
(* the screen when the page tables are about to be set up.                   *)
EarlyMessageShown == pc = "setup_page_tables" => banner = "boot_message"

=============================================================================
