------------------------------- MODULE Kernel -------------------------------
(***************************************************************************)
(* The kernel from the loader's jump to the last hlt: boot.S (Boot), then  *)
(* the script of kernel/kernel/kernel.c, which calls paging.c (Paging) and *)
(* the console's layers (Console). The CPU executes one call at a time;    *)
(* the TLB fills and evicts entries in between.                            *)
(*                                                                         *)
(* A message is a name for its text and counts as one line. The lines that *)
(* the calls of paging.c write stand in the script beside the call: those  *)
(* of the paths taken when frames are left, which UncheckedResultsGood is  *)
(* about.                                                                  *)
(***************************************************************************)
EXTENDS Boot, FiniteSets

CONSTANT test_virt_addr   \* 0xD0000000, as the page it is in

VARIABLES
  terminal_serial_output, putchar_serial_output, serial_output_enabled,
  debug_level, debug_target, debug_initialized, call, out, halted, \* see Console
  line,        \* the call of kernel_main that is next
  pages,       \* page1, page2, page3
  read_value,  \* what test_memory_mapping read back
  serial_ok,   \* serial_init_com1's answer
  shown        \* what each device was sent since kernel_main began

console == <<terminal_serial_output, putchar_serial_output, serial_output_enabled,
             debug_level, debug_target, debug_initialized, call, out, halted>>
main == <<line, pages, read_value, serial_ok, shown>>
vars == <<paging, boot, console, main>>

C == INSTANCE Console WITH
       CR <- "CR", LF <- "LF", Texts <- {}, Strings <- {}, Dumps <- {},
       LogLevels <- {}, Exceptions <- {}

(* The free frames of the window that the test needs: three pages, a table. *)
ASSUME KernelAssumption ==
  /\ ClientPages = {test_virt_addr}
  /\ Cardinality(P!Index \ P!Reserved) >= 4

-----------------------------------------------------------------------------
(* The script. *)

Do(routine, arg) == [routine |-> routine, arg |-> arg]
Say(text) == Do("printf", text)
Log(level, text) == Do("debug_log", [level |-> level, text |-> text])
Error(text) == Log(C!ERROR, text)
Info(text) == Log(C!INFO, text)
Debug(text) == Log(C!DEBUG, text)
Trace(text) == Log(C!TRACE, text)

test_debugging_levels ==
  <<Error("an error"), Log(C!WARNING, "a warning"), Info("an info"), Debug("a debug"),
    Trace("a trace"), Say("redirection")>>

(* Whether an address is above KERNEL_VIRTUAL_BASE; linker.ld puts .text,   *)
(* and kernel_main in it, there.                                            *)
is_higher_half_address(half) == half = "high"

HalfCheck ==
  IF is_higher_half_address("high")
  THEN <<Info("in the higher half")>>
  ELSE <<Error("not in the higher half"), Do("panic", "not in the higher half")>>

print_kernel_memory_layout ==
  <<Say("layout"), Say("virtual start"), Say("virtual end"), Say("physical start"),
    Say("physical end"), Say("size")>>

print_paging_info ==
  <<Say("paging info"), Say("enabled"), Say("CR3"), Say("directory"), Say("used frames"),
    Say("free frames"), Trace("directory")>>

init_paging ==
  <<Say("initializing paging"), Say("marking"), Say("current directory"), Do("init_paging", 0),
    Info("paging initialized"), Say("paging initialized")>>

Allocate == <<Do("kmalloc_physical_page", 0), Debug("allocated")>>

Free(n) == <<Debug("freeing"), Do("kfree_physical_page", n)>>

FreesTooEarly == Allocate \o Free(1) \o Allocate \o Allocate

AllocatePages == Allocate \o Allocate \o Allocate

FreesBeforeUnmapping == Free(1) \o Free(2) \o Free(3) \o <<Do("unmap_page", 0)>>

LosesPage3 == <<Do("unmap_page", 0)>> \o Free(1) \o Free(2)

CleanUp ==
  <<Debug("cleaning up"), Say("cleaning up"), Say("unmapping"),
    Debug("unmapping"), Trace("existing table"), Do("unmap_page", 0), Trace("unmapped"),
    Say("freeing pages")>>
  \o Free(1) \o Free(2) \o Free(3)

(* page1 is mapped at 0xD0000000, through a page table that has to be made. *)
test_memory_mapping ==
  <<Info("testing"), Say("testing")>>
  \o AllocatePages
  \o <<Say("page 1"), Say("page 2"), Say("page 3"), Say("mapping"),
       Debug("mapping"), Do("map_page_to_frame", 1), Debug("allocated"),
       Trace("new table"), Trace("mapped"),
       Debug("writing"), Say("writing"), Do("write", 0),
       Do("flush_tlb_entry", 0),
       Do("read", 0), Say("reading back"), Do("report", 0)>>
  \o CleanUp

NoEcho ==
  <<Do("printf_enable_serial", FALSE),
    Do("putchar_enable_serial", FALSE),
    Do("debug_set_level", C!DEBUG),
    Do("debug_set_target", C!Devices)>>

(* The terminal alone sends to COM1, whether or not there is a port. *)
Switches ==
  <<Do("terminal_enable_serial", TRUE),
    Do("printf_enable_serial", FALSE),
    Do("putchar_enable_serial", FALSE),
    Do("debug_set_level", C!DEBUG),
    Do("debug_set_target", C!Devices)>>

kernel_main ==
  <<Do("debug_init", 0)>> \o Switches
  \o <<Info("starting"), Info("serial enabled")>> \o test_debugging_levels
  \o <<Say("kernel_main at")>> \o HalfCheck
  \o print_kernel_memory_layout
  \o init_paging \o print_paging_info
  \o test_memory_mapping \o print_paging_info
  \o <<Info("dump"), Do("debug_hex_dump", [i \in 1 .. 8 |-> "dump row"]),
       Info("targets"),
       Do("debug_set_target", {C!VGA}), Info("only on VGA"),
       Do("debug_set_target", {C!SERIAL}), Info("only in serial log"),
       Do("debug_set_target", C!Devices), Info("in both"),
       Info("booted"), Say("booted")>>

(* After kernel_main returns, boot.S prints its last message and halts. *)
Program == kernel_main \o <<Say("System halted."), Do("hlt", 0)>>

-----------------------------------------------------------------------------
(* Executing it. *)

Call(routine) ==
  /\ Program[line].routine = routine
  /\ line' = line + 1

Arg == Program[line].arg

IsText(c) == c \notin {"CR", "LF"}

TextOnly(c) == C!When(IsText(c), <<c>>)

ConsoleCall ==
  /\ \/ Call("debug_init") /\ serial_ok' \in BOOLEAN /\ C!debug_init(serial_ok')
     \/ /\ UNCHANGED serial_ok
        /\ \/ Call("terminal_enable_serial") /\ C!terminal_enable_serial(Arg)
           \/ Call("printf_enable_serial") /\ C!printf_enable_serial(Arg)
           \/ Call("putchar_enable_serial") /\ C!putchar_enable_serial(Arg)
           \/ Call("debug_set_level") /\ C!debug_set_level(Arg)
           \/ Call("debug_set_target") /\ C!debug_set_target(Arg)
           \/ Call("debug_log") /\ C!debug_log(Arg.level, <<Arg.text>>)
           \/ Call("printf") /\ C!printf(<<Arg, "LF">>)
           \/ Call("debug_hex_dump") /\ C!debug_hex_dump(Arg)
           \/ Call("panic") /\ C!panic(<<Arg>>)
           \/ /\ Call("report")
              /\ IF read_value = "0xDEADBEEF" THEN C!debug_log(C!INFO, <<"test passed">>)
                 ELSE C!debug_log(C!ERROR, <<"test failed">>)
  /\ shown' = [d \in C!Devices |-> shown[d] \o C!ForEach(TextOnly, out'[d])]
  /\ UNCHANGED <<paging, boot, pages, read_value>>

(* test_memory_mapping takes what it is given: it asks for no NULL, and it  *)
(* maps, writes and frees without asking whether the call before succeeded. *)
PagingCall ==
  /\ \/ /\ Call("init_paging") /\ P!init_paging
        /\ UNCHANGED <<pages, read_value>>
     \/ /\ Call("kmalloc_physical_page") /\ P!kmalloc_physical_page
        /\ pages' = Append(pages, IF held' = held THEN P!NULL
                                  ELSE CHOOSE f \in held' : f \notin held)
        /\ UNCHANGED read_value
     \/ /\ Call("map_page_to_frame")
        /\ \/ P!MapInTable(test_virt_addr, pages[Arg])
           \/ P!MapInNewTable(test_virt_addr, pages[Arg])
           \/ P!MapWithoutMemory(test_virt_addr)
        /\ UNCHANGED <<cr3, current, pages, read_value>>
     \/ /\ Call("write")
        /\ IF P!Translate(test_virt_addr) = NotPresent THEN P!Fault
           ELSE /\ mem' = [mem EXCEPT ![P!Translate(test_virt_addr)] = P!JunkPage]
                /\ UNCHANGED <<tlb, held, cpu>>
        /\ UNCHANGED <<used, cr3, current, pages, read_value>>
     \/ /\ Call("flush_tlb_entry") /\ P!flush_tlb_entry(test_virt_addr)
        /\ UNCHANGED <<used, mem, cr3, current, held, cpu, pages, read_value>>
     \/ /\ Call("read")
        /\ IF P!Translate(test_virt_addr) = NotPresent THEN P!Fault /\ UNCHANGED read_value
           ELSE /\ read_value' = IF mem[P!Translate(test_virt_addr)] = P!JunkPage
                                 THEN "0xDEADBEEF" ELSE "other"
                /\ UNCHANGED <<mem, tlb, held, cpu>>
        /\ UNCHANGED <<used, cr3, current, pages>>
     \/ /\ Call("unmap_page") /\ P!unmap_page(test_virt_addr)
        /\ UNCHANGED <<pages, read_value>>
     \/ /\ Call("kfree_physical_page")
        /\ IF pages[Arg] = P!NULL THEN UNCHANGED used ELSE P!free_frame(pages[Arg])
        /\ held' = held \ {pages[Arg]}
        /\ UNCHANGED <<mem, cr3, current, tlb, cpu, pages, read_value>>
  /\ UNCHANGED <<boot, console, serial_ok, shown>>

Halt ==
  /\ Program[line].routine = "hlt"
  /\ pc' = "hlt"
  /\ UNCHANGED <<paging, pg, magic, info, edi, esi, args, tag, banner, segments, console, main>>

(* All that a call of the script fetches, pushes, reads and writes besides  *)
(* what paging.c is asked for: the image with its code, data and stack, and *)
(* the VGA buffer, at their high addresses.                                 *)
ScriptReaches == \A f \in KernelFrames \cup {VgaFrame} : Reaches("high", f)

ScriptStep ==
  /\ pc = "kernel_main" /\ cpu # "faulted"
  /\ IF ScriptReaches THEN ConsoleCall \/ PagingCall \/ Halt
     ELSE P!Fault /\ UNCHANGED <<used, cr3, current, boot, console, main>>

CpuStep ==
  \/ BootStep /\ UNCHANGED <<console, main>>
  \/ ScriptStep

(* boot.S's hlt loop, panic's, and the loop that overwrites itself. *)
Stopped == (pc \in {"hlt", "lost"} \/ halted) /\ UNCHANGED vars

KernelInit ==
  /\ Init
  /\ C!Init
  /\ line = 1
  /\ pages = <<>>
  /\ read_value = "none"
  /\ serial_ok = FALSE
  /\ shown = C!Silence

Next ==
  \/ CpuStep
  \/ TlbStep /\ UNCHANGED <<console, main>>
  \/ Stopped

(* Interrupts are off: nothing keeps the CPU from its next instruction. *)
Spec == KernelInit /\ [][Next]_vars /\ WF_vars(CpuStep)

-----------------------------------------------------------------------------
(* The program counter stays in the script, the paging state and the pages  *)
(* are frames, the serial log and the screen get texts of the script only.  *)
TypeOK ==
  /\ line \in 1 .. Len(Program)
  /\ pages \in Seq(P!Frame) /\ Len(pages) <= 3
  /\ used \subseteq P!Frame /\ held \subseteq P!Frame
  /\ mem \in [P!Frame -> [P!Index -> P!Entry]]
  /\ read_value \in {"none", "0xDEADBEEF", "other"}
  /\ Len(args) \in {0, 2}
  /\ \A d \in C!Devices : \A i \in DOMAIN shown[d] : IsText(shown[d][i])

(* boot.S leaves paging.c the tables it expects, and test_memory_mapping is  *)
(* one of the callers that Paging's theorems are about: it maps only pages   *)
(* it holds and frees none that is mapped. So what PagingProofs proves of    *)
(* all callers is true of this kernel.                                      *)
tables == IF pg THEN mem ELSE P!BootMemory
root == IF pg THEN cr3 ELSE BootDirectory

Client == INSTANCE Paging WITH mem <- tables, cr3 <- root

ImplementsPaging == Client!Spec

(* No access of the boot code or of the script goes to an address that is    *)
(* not mapped: not while the page tables change under the running code, not  *)
(* in validate_boot's walk over memory that is not the loader's, not in a    *)
(* call of the script, whose code, stack and screen stay where they were     *)
(* while paging.c changes the tables, and not through a NULL that            *)
(* test_memory_mapping does not look for.                                    *)
NoAccessFaults == cpu # "faulted"

(* With frames enough, the results that test_memory_mapping does not check   *)
(* are good: three different pages, none of them NULL, the pattern comes     *)
(* back whatever the TLB holds, and the passed test is what is reported.     *)
UncheckedResultsGood ==
  /\ \A i, j \in DOMAIN pages :
       pages[i] \notin P!Reserved /\ (i # j => pages[i] # pages[j])
  /\ read_value # "other"
  /\ pc = "hlt" => \E i \in DOMAIN shown[C!VGA] : shown[C!VGA][i] = "test passed"

(* At the end the script has returned what it took: nobody holds a page, the *)
(* test address is unmapped for the CPU too, and of the frames only the page *)
(* table that map_page_to_frame made stays in use, for good.                 *)
CleansUp ==
  pc = "hlt" =>
    /\ held = {}
    /\ P!Translate(test_virt_addr) = NotPresent
    /\ used = P!Reserved \cup P!TableFrames
    /\ Cardinality(P!TableFrames) = 1

(* "The implementation redirects all kernel output to both the VGA console   *)
(* and COM1 serial port" (docs/SERIAL_DEBUG.md): from kernel_main on the     *)
(* serial log has the screen's lines in the screen's order, through all      *)
(* changes of switches, targets and layers; debug_init's own two lines are   *)
(* missing if it found no port, and only they.                               *)
LogMirrorsScreen ==
  shown[C!SERIAL] = IF serial_ok THEN shown[C!VGA]
                    ELSE SubSeq(shown[C!VGA], 3, Len(shown[C!VGA]))

(* Unless the loop of the first message runs away, the kernel gets through   *)
(* its script to boot.S's hlt, however long the TLB keeps changing: though   *)
(* validate_boot is given the wrong address, what it finds there ends its    *)
(* walk, and no call panics or faults (Serial shows that the writers' waits  *)
(* end).                                                                     *)
ReachesHalt == <>(pc \in {"hlt", "lost"})

-----------------------------------------------------------------------------
(* What comments and documents say, and the code does not do. *)

(* kernel_main logs "This message should only appear on VGA (not in serial   *)
(* log)" and "This message should only appear in serial log (not on VGA)";   *)
(* the targets are "VGA text console only" and "Serial port only"            *)
(* (docs/SERIAL_DEBUG.md).                                                   *)
TestLinesGoWhereTheySay ==
  LET Has(d, text) == \E i \in DOMAIN shown[d] : shown[d][i] = text
  IN  pc = "hlt" =>
        /\ Has(C!VGA, "only on VGA") /\ ~Has(C!SERIAL, "only on VGA")
        /\ Has(C!SERIAL, "only in serial log") /\ ~Has(C!VGA, "only in serial log")

=============================================================================
