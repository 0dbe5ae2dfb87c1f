---------------------------- MODULE KernelProofs ----------------------------
(***************************************************************************)
(* Proofs about Boot and Kernel, for every layout of the image, number of  *)
(* frames, size of the page tables and TLB that meet the assumptions: the  *)
(* whole run from the loader's jump to the last hlt.                       *)
(*                                                                         *)
(* Lemma Script says what stands on each of the 93 lines of the script.    *)
(* KernelInv ties the line that is next to what boot.S has built, to the   *)
(* pages that the memory test holds at that line and to the mapping of its *)
(* address; the rest of it is PagingInv, kept because every step of the    *)
(* kernel is a step that Paging allows its callers (lemma StepKernelInv),  *)
(* which is the refinement as well. ShownInv is about the console: after   *)
(* the second line of the script the log grows by the screen's lines,      *)
(* whichever layer writes and whatever the targets are.                    *)
(***************************************************************************)
EXTENDS Kernel, Induction, FiniteSetTheorems

-----------------------------------------------------------------------------
(* The script. *)

(* The three commands with a truth value, as wholes. *)
EchoOn == Do("terminal_enable_serial", TRUE)
PrintfOff == Do("printf_enable_serial", FALSE)
PutcharOff == Do("putchar_enable_serial", FALSE)

IsSpeech(c) ==
  \/ c.routine = "printf" /\ IsText(c.arg)
  \/ c.routine = "debug_log" /\ c.arg.level \in 1 .. 5 /\ IsText(c.arg.text)

(* The lines that do more than print a message. *)
Special ==
  {1, 2, 3, 4, 5, 6, 26, 38, 40, 42, 49, 55, 56, 57, 59, 65, 69, 71, 73, 82, 84, 86, 88, 93}

(* What command may stand on line i. *)
Scripted(i, c) ==
  /\ i \notin Special => IsSpeech(c)
  /\ i = 1 => c.routine = "debug_init"
  /\ i = 2 => c = EchoOn
  /\ i = 3 => c = PrintfOff
  /\ i = 4 => c = PutcharOff
  /\ i = 5 => c.routine = "debug_set_level" /\ c.arg = C!DEBUG
  /\ i \in {6, 88} => c.routine = "debug_set_target" /\ c.arg = C!Devices
  /\ i = 26 => c.routine = "init_paging"
  /\ i \in {38, 40, 42} => c.routine = "kmalloc_physical_page"
  /\ i = 49 => c.routine = "map_page_to_frame" /\ c.arg = 1
  /\ i = 55 => c.routine = "write"
  /\ i = 56 => c.routine = "flush_tlb_entry"
  /\ i = 57 => c.routine = "read"
  /\ i = 59 => c.routine = "report"
  /\ i = 65 => c.routine = "unmap_page"
  /\ i = 69 => c.routine = "kfree_physical_page" /\ c.arg = 1
  /\ i = 71 => c.routine = "kfree_physical_page" /\ c.arg = 2
  /\ i = 73 => c.routine = "kfree_physical_page" /\ c.arg = 3
  /\ i = 82 => c.routine = "debug_hex_dump" /\ c.arg = [row \in 1 .. 8 |-> "dump row"]
  /\ i = 84 => c.routine = "debug_set_target" /\ c.arg = {C!VGA}
  /\ i = 86 => c.routine = "debug_set_target" /\ c.arg = {C!SERIAL}
  /\ i = 93 => c.routine = "hlt"

Elements(s) == {s[i] : i \in 1 .. Len(s)}

(* s has n commands, fit for the lines after the k-th. *)
Fits(s, n, k) ==
  /\ s \in Seq(Elements(s)) /\ Len(s) = n
  /\ \A i \in 1 .. n : Scripted(k + i, s[i])

(* c fits every line that only prints. *)
Spoken(c) == \A i : i \notin Special => Scripted(i, c)

(* Messages fit the lines that only print. *)
LEMMA SpokenCommands ==
  \A t : IsText(t) =>
    /\ Spoken(Say(t)) /\ Spoken(Error(t)) /\ Spoken(Log(C!WARNING, t))
    /\ Spoken(Info(t)) /\ Spoken(Debug(t)) /\ Spoken(Trace(t))
<1>1. ASSUME NEW i, i \notin Special, NEW c, IsSpeech(c)  PROVE Scripted(i, c)
  BY <1>1 DEF Scripted, Special
<1>2. \A c : IsSpeech(c) => Spoken(c)
  BY <1>1, Zenon DEF Spoken
<1>3. \A t : IsText(t) => IsSpeech(Say(t)) /\ \A l \in 1 .. 5 : IsSpeech(Log(l, t))
  BY DEF Say, Log, Do, IsSpeech
<1> QED
  BY <1>2, <1>3 DEF Error, Info, Debug, Trace, C!ERROR, C!WARNING, C!INFO, C!DEBUG, C!TRACE

(* One block after another. *)
LEMMA Joined ==
  ASSUME NEW s, NEW t, NEW n \in Nat, NEW m \in Nat, NEW k \in Nat, NEW q, q = n + m,
         Fits(s, n, k), Fits(t, m, k + n)
  PROVE  Fits(s \o t, q, k)
<1> DEFINE V == Elements(s) \cup Elements(t)
           u == s \o t
<1>1. s \in Seq(V) /\ t \in Seq(V) /\ Len(s) = n /\ Len(t) = m
  BY DEF Fits
<1> HIDE DEF V
<1>2. u \in Seq(V) /\ Len(u) = n + m /\ \A i \in 1 .. Len(u) : u[i] = IF i <= n THEN s[i] ELSE t[i - n]
  BY <1>1, ConcatProperties
<1> HIDE DEF u
<1>3. u \in Seq(Elements(u))
  BY <1>2 DEF Elements
<1>4. ASSUME NEW i \in 1 .. (n + m)  PROVE Scripted(k + i, u[i])
  <2>1. CASE i <= n
    <3>1. i \in 1 .. n /\ u[i] = s[i]
      BY <1>2, <2>1
    <3> QED
      BY <3>1 DEF Fits
  <2>2. CASE i > n
    <3>1. i - n \in 1 .. m /\ u[i] = t[i - n] /\ (k + n) + (i - n) = k + i
      BY <1>2, <2>2
    <3> QED
      BY <3>1 DEF Fits
  <2> QED
    BY <2>1, <2>2
<1> QED
  BY <1>2, <1>3, <1>4 DEF Fits, u

(* A tuple of 1 command. *)
LEMMA Tuple1 ==
  ASSUME NEW k \in Nat, NEW a1,
         /\ Scripted(k + 1, a1)
  PROVE  Fits(<<a1>>, 1, k)
BY DEF Fits, Elements

(* A tuple of 2 commands. *)
LEMMA Tuple2 ==
  ASSUME NEW k \in Nat, NEW a1, NEW a2,
         /\ Scripted(k + 1, a1) /\ Scripted(k + 2, a2)
  PROVE  Fits(<<a1, a2>>, 2, k)
BY DEF Fits, Elements

(* A tuple of 6 commands. *)
LEMMA Tuple6 ==
  ASSUME NEW k \in Nat, NEW a1, NEW a2, NEW a3, NEW a4, NEW a5, NEW a6,
         /\ Scripted(k + 1, a1) /\ Scripted(k + 2, a2) /\ Scripted(k + 3, a3)
         /\ Scripted(k + 4, a4) /\ Scripted(k + 5, a5) /\ Scripted(k + 6, a6)
  PROVE  Fits(<<a1, a2, a3, a4, a5, a6>>, 6, k)
BY DEF Fits, Elements

(* A tuple of 7 commands. *)
LEMMA Tuple7 ==
  ASSUME NEW k \in Nat, NEW a1, NEW a2, NEW a3, NEW a4, NEW a5, NEW a6, NEW a7,
         /\ Scripted(k + 1, a1) /\ Scripted(k + 2, a2) /\ Scripted(k + 3, a3)
         /\ Scripted(k + 4, a4) /\ Scripted(k + 5, a5) /\ Scripted(k + 6, a6)
         /\ Scripted(k + 7, a7)
  PROVE  Fits(<<a1, a2, a3, a4, a5, a6, a7>>, 7, k)
BY DEF Fits, Elements

(* A tuple of 8 commands. *)
LEMMA Tuple8 ==
  ASSUME NEW k \in Nat, NEW a1, NEW a2, NEW a3, NEW a4, NEW a5, NEW a6, NEW a7, NEW a8,
         /\ Scripted(k + 1, a1) /\ Scripted(k + 2, a2) /\ Scripted(k + 3, a3)
         /\ Scripted(k + 4, a4) /\ Scripted(k + 5, a5) /\ Scripted(k + 6, a6)
         /\ Scripted(k + 7, a7) /\ Scripted(k + 8, a8)
  PROVE  Fits(<<a1, a2, a3, a4, a5, a6, a7, a8>>, 8, k)
BY DEF Fits, Elements

(* A tuple of 11 commands. *)
LEMMA Tuple11 ==
  ASSUME NEW k \in Nat, NEW a1, NEW a2, NEW a3, NEW a4, NEW a5, NEW a6, NEW a7, NEW a8,
         NEW a9, NEW a10, NEW a11,
         /\ Scripted(k + 1, a1) /\ Scripted(k + 2, a2) /\ Scripted(k + 3, a3)
         /\ Scripted(k + 4, a4) /\ Scripted(k + 5, a5) /\ Scripted(k + 6, a6)
         /\ Scripted(k + 7, a7) /\ Scripted(k + 8, a8) /\ Scripted(k + 9, a9)
         /\ Scripted(k + 10, a10) /\ Scripted(k + 11, a11)
  PROVE  Fits(<<a1, a2, a3, a4, a5, a6, a7, a8, a9, a10, a11>>, 11, k)
BY DEF Fits, Elements

(* A tuple of 16 commands. *)
LEMMA Tuple16 ==
  ASSUME NEW k \in Nat, NEW a1, NEW a2, NEW a3, NEW a4, NEW a5, NEW a6, NEW a7, NEW a8,
         NEW a9, NEW a10, NEW a11, NEW a12, NEW a13, NEW a14, NEW a15, NEW a16,
         /\ Scripted(k + 1, a1) /\ Scripted(k + 2, a2) /\ Scripted(k + 3, a3)
         /\ Scripted(k + 4, a4) /\ Scripted(k + 5, a5) /\ Scripted(k + 6, a6)
         /\ Scripted(k + 7, a7) /\ Scripted(k + 8, a8) /\ Scripted(k + 9, a9)
         /\ Scripted(k + 10, a10) /\ Scripted(k + 11, a11) /\ Scripted(k + 12, a12)
         /\ Scripted(k + 13, a13) /\ Scripted(k + 14, a14) /\ Scripted(k + 15, a15)
         /\ Scripted(k + 16, a16)
  PROVE  Fits(<<a1, a2, a3, a4, a5, a6, a7, a8, a9, a10, a11, a12, a13, a14, a15, a16>>, 16, k)
BY DEF Fits, Elements

(* The first call. *)
LEMMA FirstCall == Fits(<<Do("debug_init", 0)>>, 1, 0)
<1>1. Scripted(0 + 1, Do("debug_init", 0))
  BY DEF Scripted, Special, Do
<1> QED
  BY <1>1, Tuple1

(* The switches. *)
LEMMA SwitchCalls == Fits(Switches, 5, 1)
<1> DEFINE d == Do("debug_set_level", C!DEBUG)
           e == Do("debug_set_target", C!Devices)
           s == <<EchoOn, PrintfOff, PutcharOff, d, e>>
<1>1. Switches = s
  BY DEF Switches, EchoOn, PrintfOff, PutcharOff
<1>2. /\ d.routine = "debug_set_level" /\ d.arg = C!DEBUG
      /\ e.routine = "debug_set_target" /\ e.arg = C!Devices
  BY DEF Do
<1> HIDE DEF d, e
<1>3. /\ Len(s) = 5 /\ s[1] = EchoOn /\ s[2] = PrintfOff /\ s[3] = PutcharOff
      /\ s[4] = d /\ s[5] = e
  OBVIOUS
<1>4. s \in Seq(Elements(s))
  BY DEF Elements
<1> HIDE DEF s
<1>5. Scripted(1 + 1, EchoOn) /\ Scripted(1 + 2, PrintfOff) /\ Scripted(1 + 3, PutcharOff)
  BY DEF Scripted, Special
<1>6. Scripted(1 + 4, d) /\ Scripted(1 + 5, e)
  BY <1>2 DEF Scripted, Special
<1>7. ASSUME NEW i \in 1 .. 5  PROVE Scripted(1 + i, s[i])
  <2>1. i = 1 \/ i = 2 \/ i = 3 \/ i = 4 \/ i = 5
    OBVIOUS
  <2> QED
    BY <1>3, <1>5, <1>6, <2>1
<1> QED
  BY <1>1, <1>3, <1>4, <1>7 DEF Fits

(* The first messages. *)
LEMMA Starting == Fits(<<Info("starting"), Info("serial enabled")>>, 2, 6)
<1>1. /\ IsText("starting") /\ IsText("serial enabled")
  BY DEF IsText
<1>2. /\ Spoken(Info("starting")) /\ Spoken(Info("serial enabled"))
  BY <1>1, SpokenCommands, Zenon
<1>3. /\ 6 + 1 \notin Special /\ 6 + 2 \notin Special
  BY DEF Special
<1>4. /\ Scripted(6 + 1, Info("starting")) /\ Scripted(6 + 2, Info("serial enabled"))
  BY <1>2, <1>3, Zenon DEF Spoken
<1> QED
  BY <1>4, Tuple2

(* One line per level. *)
LEMMA LevelTest == Fits(test_debugging_levels, 6, 8)
<1>1. /\ IsText("an error") /\ IsText("a warning") /\ IsText("an info") /\ IsText("a debug")
      /\ IsText("a trace") /\ IsText("redirection")
  BY DEF IsText
<1>2. /\ Spoken(Error("an error")) /\ Spoken(Log(C!WARNING, "a warning"))
      /\ Spoken(Info("an info")) /\ Spoken(Debug("a debug")) /\ Spoken(Trace("a trace"))
      /\ Spoken(Say("redirection"))
  BY <1>1, SpokenCommands, Zenon
<1>3. /\ 8 + 1 \notin Special /\ 8 + 2 \notin Special /\ 8 + 3 \notin Special
      /\ 8 + 4 \notin Special /\ 8 + 5 \notin Special /\ 8 + 6 \notin Special
  BY DEF Special
<1>4. /\ Scripted(8 + 1, Error("an error")) /\ Scripted(8 + 2, Log(C!WARNING, "a warning"))
      /\ Scripted(8 + 3, Info("an info")) /\ Scripted(8 + 4, Debug("a debug"))
      /\ Scripted(8 + 5, Trace("a trace")) /\ Scripted(8 + 6, Say("redirection"))
  BY <1>2, <1>3, Zenon DEF Spoken
<1> QED
  BY <1>4, Tuple6 DEF test_debugging_levels

(* Where kernel_main is. *)
LEMMA MainAt == Fits(<<Say("kernel_main at")>>, 1, 14)
<1>1. /\ IsText("kernel_main at")
  BY DEF IsText
<1>2. /\ Spoken(Say("kernel_main at"))
  BY <1>1, SpokenCommands, Zenon
<1>3. /\ 14 + 1 \notin Special
  BY DEF Special
<1>4. /\ Scripted(14 + 1, Say("kernel_main at"))
  BY <1>2, <1>3, Zenon DEF Spoken
<1> QED
  BY <1>4, Tuple1

(* kernel_main is in the higher half, so there is no panic here. *)
LEMMA InHigherHalf == Fits(HalfCheck, 1, 15)
<1>1. /\ IsText("in the higher half")
  BY DEF IsText
<1>2. /\ Spoken(Info("in the higher half"))
  BY <1>1, SpokenCommands, Zenon
<1>3. /\ 15 + 1 \notin Special
  BY DEF Special
<1>4. /\ Scripted(15 + 1, Info("in the higher half"))
  BY <1>2, <1>3, Zenon DEF Spoken
<1> QED
  BY <1>4, Tuple1 DEF HalfCheck, is_higher_half_address

(* The layout. *)
LEMMA LayoutLines == Fits(print_kernel_memory_layout, 6, 16)
<1>1. /\ IsText("layout") /\ IsText("virtual start") /\ IsText("virtual end")
      /\ IsText("physical start") /\ IsText("physical end") /\ IsText("size")
  BY DEF IsText
<1>2. /\ Spoken(Say("layout")) /\ Spoken(Say("virtual start")) /\ Spoken(Say("virtual end"))
      /\ Spoken(Say("physical start")) /\ Spoken(Say("physical end")) /\ Spoken(Say("size"))
  BY <1>1, SpokenCommands, Zenon
<1>3. /\ 16 + 1 \notin Special /\ 16 + 2 \notin Special /\ 16 + 3 \notin Special
      /\ 16 + 4 \notin Special /\ 16 + 5 \notin Special /\ 16 + 6 \notin Special
  BY DEF Special
<1>4. /\ Scripted(16 + 1, Say("layout")) /\ Scripted(16 + 2, Say("virtual start"))
      /\ Scripted(16 + 3, Say("virtual end")) /\ Scripted(16 + 4, Say("physical start"))
      /\ Scripted(16 + 5, Say("physical end")) /\ Scripted(16 + 6, Say("size"))
  BY <1>2, <1>3, Zenon DEF Spoken
<1> QED
  BY <1>4, Tuple6 DEF print_kernel_memory_layout

(* init_paging and its messages. *)
LEMMA InitPagingLines == Fits(init_paging, 6, 22)
<1>1. /\ IsText("initializing paging") /\ IsText("marking") /\ IsText("current directory")
      /\ IsText("paging initialized")
  BY DEF IsText
<1>2. /\ Spoken(Say("initializing paging")) /\ Spoken(Say("marking"))
      /\ Spoken(Say("current directory")) /\ Spoken(Info("paging initialized"))
      /\ Spoken(Say("paging initialized"))
  BY <1>1, SpokenCommands, Zenon
<1>3. /\ 22 + 1 \notin Special /\ 22 + 2 \notin Special /\ 22 + 3 \notin Special
      /\ 22 + 5 \notin Special /\ 22 + 6 \notin Special
  BY DEF Special
<1>4. /\ Scripted(22 + 1, Say("initializing paging")) /\ Scripted(22 + 2, Say("marking"))
      /\ Scripted(22 + 3, Say("current directory"))
      /\ Scripted(22 + 5, Info("paging initialized"))
      /\ Scripted(22 + 6, Say("paging initialized"))
  BY <1>2, <1>3, Zenon DEF Spoken
<1>5. /\ Scripted(22 + 4, Do("init_paging", 0))
  BY DEF Scripted, Special, Do
<1> QED
  BY <1>4, <1>5, Tuple6 DEF init_paging

(* The numbers of print_paging_info, before the test. *)
LEMMA InfoLinesBefore == Fits(print_paging_info, 7, 28)
<1>1. /\ IsText("paging info") /\ IsText("enabled") /\ IsText("CR3") /\ IsText("directory")
      /\ IsText("used frames") /\ IsText("free frames")
  BY DEF IsText
<1>2. /\ Spoken(Say("paging info")) /\ Spoken(Say("enabled")) /\ Spoken(Say("CR3"))
      /\ Spoken(Say("directory")) /\ Spoken(Say("used frames")) /\ Spoken(Say("free frames"))
      /\ Spoken(Trace("directory"))
  BY <1>1, SpokenCommands, Zenon
<1>3. /\ 28 + 1 \notin Special /\ 28 + 2 \notin Special /\ 28 + 3 \notin Special
      /\ 28 + 4 \notin Special /\ 28 + 5 \notin Special /\ 28 + 6 \notin Special
      /\ 28 + 7 \notin Special
  BY DEF Special
<1>4. /\ Scripted(28 + 1, Say("paging info")) /\ Scripted(28 + 2, Say("enabled"))
      /\ Scripted(28 + 3, Say("CR3")) /\ Scripted(28 + 4, Say("directory"))
      /\ Scripted(28 + 5, Say("used frames")) /\ Scripted(28 + 6, Say("free frames"))
      /\ Scripted(28 + 7, Trace("directory"))
  BY <1>2, <1>3, Zenon DEF Spoken
<1> QED
  BY <1>4, Tuple7 DEF print_paging_info

(* And after it. *)
LEMMA InfoLinesAfter == Fits(print_paging_info, 7, 73)
<1>1. /\ IsText("paging info") /\ IsText("enabled") /\ IsText("CR3") /\ IsText("directory")
      /\ IsText("used frames") /\ IsText("free frames")
  BY DEF IsText
<1>2. /\ Spoken(Say("paging info")) /\ Spoken(Say("enabled")) /\ Spoken(Say("CR3"))
      /\ Spoken(Say("directory")) /\ Spoken(Say("used frames")) /\ Spoken(Say("free frames"))
      /\ Spoken(Trace("directory"))
  BY <1>1, SpokenCommands, Zenon
<1>3. /\ 73 + 1 \notin Special /\ 73 + 2 \notin Special /\ 73 + 3 \notin Special
      /\ 73 + 4 \notin Special /\ 73 + 5 \notin Special /\ 73 + 6 \notin Special
      /\ 73 + 7 \notin Special
  BY DEF Special
<1>4. /\ Scripted(73 + 1, Say("paging info")) /\ Scripted(73 + 2, Say("enabled"))
      /\ Scripted(73 + 3, Say("CR3")) /\ Scripted(73 + 4, Say("directory"))
      /\ Scripted(73 + 5, Say("used frames")) /\ Scripted(73 + 6, Say("free frames"))
      /\ Scripted(73 + 7, Trace("directory"))
  BY <1>2, <1>3, Zenon DEF Spoken
<1> QED
  BY <1>4, Tuple7 DEF print_paging_info

(* The three allocations. *)
LEMMA AllocationCalls == Fits(AllocatePages, 6, 37)
<1>1. IsText("allocated")
  BY DEF IsText
<1>2. Spoken(Debug("allocated"))
  BY <1>1, SpokenCommands, Zenon
<1>3. /\ 37 + 2 \notin Special /\ 39 + 2 \notin Special /\ 41 + 2 \notin Special
  BY DEF Special
<1>4. /\ Scripted(37 + 2, Debug("allocated")) /\ Scripted(39 + 2, Debug("allocated"))
      /\ Scripted(41 + 2, Debug("allocated"))
  BY <1>2, <1>3, Zenon DEF Spoken
<1>5. /\ Scripted(37 + 1, Do("kmalloc_physical_page", 0))
      /\ Scripted(39 + 1, Do("kmalloc_physical_page", 0))
      /\ Scripted(41 + 1, Do("kmalloc_physical_page", 0))
  BY DEF Scripted, Special, Do
<1>6. Fits(Allocate, 2, 37) /\ Fits(Allocate, 2, 39) /\ Fits(Allocate, 2, 41)
  BY <1>4, <1>5, Tuple2 DEF Allocate
<1>7. Fits(Allocate \o Allocate, 4, 37)
  BY <1>6, Joined
<1> QED
  BY <1>6, <1>7, Joined DEF AllocatePages

(* Page 1 is mapped, written and read back. *)
LEMMA UseLines == Fits(
    <<Say("page 1"), Say("page 2"), Say("page 3"), Say("mapping"),
         Debug("mapping"), Do("map_page_to_frame", 1), Debug("allocated"),
         Trace("new table"), Trace("mapped"), Debug("writing"), Say("writing"), Do("write", 0),
         Do("flush_tlb_entry", 0), Do("read", 0), Say("reading back"), Do("report", 0)>>, 16, 43)
<1>1. /\ IsText("page 1") /\ IsText("page 2") /\ IsText("page 3") /\ IsText("mapping")
      /\ IsText("allocated") /\ IsText("new table") /\ IsText("mapped") /\ IsText("writing")
      /\ IsText("reading back")
  BY DEF IsText
<1>2. /\ Spoken(Say("page 1")) /\ Spoken(Say("page 2")) /\ Spoken(Say("page 3"))
      /\ Spoken(Say("mapping")) /\ Spoken(Debug("mapping")) /\ Spoken(Debug("allocated"))
      /\ Spoken(Trace("new table")) /\ Spoken(Trace("mapped")) /\ Spoken(Debug("writing"))
      /\ Spoken(Say("writing")) /\ Spoken(Say("reading back"))
  BY <1>1, SpokenCommands, Zenon
<1>3. /\ 43 + 1 \notin Special /\ 43 + 2 \notin Special /\ 43 + 3 \notin Special
      /\ 43 + 4 \notin Special /\ 43 + 5 \notin Special /\ 43 + 7 \notin Special
      /\ 43 + 8 \notin Special /\ 43 + 9 \notin Special /\ 43 + 10 \notin Special
      /\ 43 + 11 \notin Special /\ 43 + 15 \notin Special
  BY DEF Special
<1>4. /\ Scripted(43 + 1, Say("page 1")) /\ Scripted(43 + 2, Say("page 2"))
      /\ Scripted(43 + 3, Say("page 3")) /\ Scripted(43 + 4, Say("mapping"))
      /\ Scripted(43 + 5, Debug("mapping")) /\ Scripted(43 + 7, Debug("allocated"))
      /\ Scripted(43 + 8, Trace("new table")) /\ Scripted(43 + 9, Trace("mapped"))
      /\ Scripted(43 + 10, Debug("writing")) /\ Scripted(43 + 11, Say("writing"))
      /\ Scripted(43 + 15, Say("reading back"))
  BY <1>2, <1>3, Zenon DEF Spoken
<1>5. /\ Scripted(43 + 6, Do("map_page_to_frame", 1)) /\ Scripted(43 + 12, Do("write", 0))
      /\ Scripted(43 + 13, Do("flush_tlb_entry", 0)) /\ Scripted(43 + 14, Do("read", 0))
      /\ Scripted(43 + 16, Do("report", 0))
  BY DEF Scripted, Special, Do
<1> QED
  BY <1>4, <1>5, Tuple16

(* Unmapping, and the three pages returned. *)
LEMMA CleanUpCalls == Fits(CleanUp, 14, 59)
<1> DEFINE s == <<Debug("cleaning up"), Say("cleaning up"), Say("unmapping"),
                  Debug("unmapping"), Trace("existing table"), Do("unmap_page", 0),
                  Trace("unmapped"), Say("freeing pages")>>
<1>1. Fits(s, 8, 59)
  <2>1. /\ IsText("cleaning up") /\ IsText("unmapping") /\ IsText("existing table")
        /\ IsText("unmapped") /\ IsText("freeing pages")
    BY DEF IsText
  <2>2. /\ Spoken(Debug("cleaning up")) /\ Spoken(Say("cleaning up"))
        /\ Spoken(Say("unmapping")) /\ Spoken(Debug("unmapping"))
        /\ Spoken(Trace("existing table")) /\ Spoken(Trace("unmapped"))
        /\ Spoken(Say("freeing pages"))
    BY <2>1, SpokenCommands, Zenon
  <2>3. /\ 59 + 1 \notin Special /\ 59 + 2 \notin Special /\ 59 + 3 \notin Special
        /\ 59 + 4 \notin Special /\ 59 + 5 \notin Special /\ 59 + 7 \notin Special
        /\ 59 + 8 \notin Special
    BY DEF Special
  <2>4. /\ Scripted(59 + 1, Debug("cleaning up")) /\ Scripted(59 + 2, Say("cleaning up"))
        /\ Scripted(59 + 3, Say("unmapping")) /\ Scripted(59 + 4, Debug("unmapping"))
        /\ Scripted(59 + 5, Trace("existing table")) /\ Scripted(59 + 7, Trace("unmapped"))
        /\ Scripted(59 + 8, Say("freeing pages"))
    BY <2>2, <2>3, Zenon DEF Spoken
  <2>5. /\ Scripted(59 + 6, Do("unmap_page", 0))
    BY DEF Scripted, Special, Do
  <2> QED
    BY <2>4, <2>5, Tuple8
<1>2. Fits(Free(1), 2, 67) /\ Fits(Free(2), 2, 69) /\ Fits(Free(3), 2, 71)
  <2>1. IsText("freeing")
    BY DEF IsText
  <2>2. Spoken(Debug("freeing"))
    BY <2>1, SpokenCommands, Zenon
  <2>3. /\ 67 + 1 \notin Special /\ 69 + 1 \notin Special /\ 71 + 1 \notin Special
    BY DEF Special
  <2>4. /\ Scripted(67 + 1, Debug("freeing")) /\ Scripted(69 + 1, Debug("freeing"))
        /\ Scripted(71 + 1, Debug("freeing"))
    BY <2>2, <2>3, Zenon DEF Spoken
  <2>5. /\ Scripted(67 + 2, Do("kfree_physical_page", 1))
        /\ Scripted(69 + 2, Do("kfree_physical_page", 2))
        /\ Scripted(71 + 2, Do("kfree_physical_page", 3))
    BY DEF Scripted, Special, Do
  <2> QED
    BY <2>4, <2>5, Tuple2 DEF Free
<1> HIDE DEF s
<1>3. Fits(s \o Free(1), 10, 59)
  BY <1>1, <1>2, Joined
<1>4. Fits(s \o Free(1) \o Free(2), 12, 59)
  BY <1>2, <1>3, Joined
<1>5. Fits(s \o Free(1) \o Free(2) \o Free(3), 14, 59)
  BY <1>2, <1>4, Joined
<1> QED
  BY <1>5 DEF CleanUp, s

(* The memory test. *)
LEMMA MemoryTest == Fits(test_memory_mapping, 38, 35)
<1> DEFINE a == <<Info("testing"), Say("testing")>>
           b ==
    <<Say("page 1"), Say("page 2"), Say("page 3"), Say("mapping"),
         Debug("mapping"), Do("map_page_to_frame", 1), Debug("allocated"),
         Trace("new table"), Trace("mapped"), Debug("writing"), Say("writing"), Do("write", 0),
         Do("flush_tlb_entry", 0), Do("read", 0), Say("reading back"), Do("report", 0)>>
<1>1. Fits(a, 2, 35)
  <2>1. /\ IsText("testing")
    BY DEF IsText
  <2>2. /\ Spoken(Info("testing")) /\ Spoken(Say("testing"))
    BY <2>1, SpokenCommands, Zenon
  <2>3. /\ 35 + 1 \notin Special /\ 35 + 2 \notin Special
    BY DEF Special
  <2>4. /\ Scripted(35 + 1, Info("testing")) /\ Scripted(35 + 2, Say("testing"))
    BY <2>2, <2>3, Zenon DEF Spoken
  <2> QED
    BY <2>4, Tuple2
<1>2. Fits(b, 16, 43)
  BY UseLines
<1> HIDE DEF a, b
<1>3. Fits(a \o AllocatePages, 8, 35)
  BY <1>1, AllocationCalls, Joined
<1>4. Fits(a \o AllocatePages \o b, 24, 35)
  BY <1>2, <1>3, Joined
<1>5. Fits(a \o AllocatePages \o b \o CleanUp, 38, 35)
  BY <1>4, CleanUpCalls, Joined
<1> QED
  BY <1>5 DEF test_memory_mapping, a, b

(* The dump and the targets. *)
LEMMA TargetLines == Fits(
    <<Info("dump"), Do("debug_hex_dump", [i \in 1 .. 8 |-> "dump row"]), Info("targets"),
      Do("debug_set_target", {C!VGA}), Info("only on VGA"),
      Do("debug_set_target", {C!SERIAL}), Info("only in serial log"),
      Do("debug_set_target", C!Devices), Info("in both"), Info("booted"), Say("booted")>>, 11, 80)
<1>1. /\ IsText("dump") /\ IsText("targets") /\ IsText("only on VGA")
      /\ IsText("only in serial log") /\ IsText("in both") /\ IsText("booted")
  BY DEF IsText
<1>2. /\ Spoken(Info("dump")) /\ Spoken(Info("targets")) /\ Spoken(Info("only on VGA"))
      /\ Spoken(Info("only in serial log")) /\ Spoken(Info("in both")) /\ Spoken(Info("booted"))
      /\ Spoken(Say("booted"))
  BY <1>1, SpokenCommands, Zenon
<1>3. /\ 80 + 1 \notin Special /\ 80 + 3 \notin Special /\ 80 + 5 \notin Special
      /\ 80 + 7 \notin Special /\ 80 + 9 \notin Special /\ 80 + 10 \notin Special
      /\ 80 + 11 \notin Special
  BY DEF Special
<1>4. /\ Scripted(80 + 1, Info("dump")) /\ Scripted(80 + 3, Info("targets"))
      /\ Scripted(80 + 5, Info("only on VGA")) /\ Scripted(80 + 7, Info("only in serial log"))
      /\ Scripted(80 + 9, Info("in both")) /\ Scripted(80 + 10, Info("booted"))
      /\ Scripted(80 + 11, Say("booted"))
  BY <1>2, <1>3, Zenon DEF Spoken
<1>5. /\ Scripted(80 + 2, Do("debug_hex_dump", [i \in 1 .. 8 |-> "dump row"]))
      /\ Scripted(80 + 4, Do("debug_set_target", {C!VGA}))
      /\ Scripted(80 + 6, Do("debug_set_target", {C!SERIAL}))
      /\ Scripted(80 + 8, Do("debug_set_target", C!Devices))
  BY DEF Scripted, Special, Do
<1> QED
  BY <1>4, <1>5, Tuple11

(* The end. *)
LEMMA LastLines == Fits(<<Say("System halted."), Do("hlt", 0)>>, 2, 91)
<1>1. /\ IsText("System halted.")
  BY DEF IsText
<1>2. /\ Spoken(Say("System halted."))
  BY <1>1, SpokenCommands, Zenon
<1>3. /\ 91 + 1 \notin Special
  BY DEF Special
<1>4. /\ Scripted(91 + 1, Say("System halted."))
  BY <1>2, <1>3, Zenon DEF Spoken
<1>5. /\ Scripted(91 + 2, Do("hlt", 0))
  BY DEF Scripted, Special, Do
<1> QED
  BY <1>4, <1>5, Tuple2

(* The script, line by line: what Scripted says of each line is so. *)
LEMMA Script == Fits(Program, 93, 0)
<1> DEFINE a == <<Do("debug_init", 0)>>
           b == <<Info("starting"), Info("serial enabled")>>
           c == <<Say("kernel_main at")>>
           d ==
    <<Info("dump"), Do("debug_hex_dump", [i \in 1 .. 8 |-> "dump row"]), Info("targets"),
      Do("debug_set_target", {C!VGA}), Info("only on VGA"),
      Do("debug_set_target", {C!SERIAL}), Info("only in serial log"),
      Do("debug_set_target", C!Devices), Info("in both"), Info("booted"), Say("booted")>>
           e == <<Say("System halted."), Do("hlt", 0)>>
<1>1. Fits(a, 1, 0) /\ Fits(b, 2, 6) /\ Fits(c, 1, 14) /\ Fits(d, 11, 80) /\ Fits(e, 2, 91)
  BY FirstCall, Starting, MainAt, TargetLines, LastLines
<1> HIDE DEF a, b, c, d, e
<1> DEFINE s1 == a \o Switches
           s2 == s1 \o b
           s3 == s2 \o test_debugging_levels
           s4 == s3 \o c
           s5 == s4 \o HalfCheck
           s6 == s5 \o print_kernel_memory_layout
           s7 == s6 \o init_paging
           s8 == s7 \o print_paging_info
           s9 == s8 \o test_memory_mapping
           s10 == s9 \o print_paging_info
           s11 == s10 \o d
<1>2. Fits(s1, 6, 0)
  BY <1>1, SwitchCalls, Joined
<1> HIDE DEF s1
<1>3. Fits(s2, 8, 0)
  BY <1>1, <1>2, Joined
<1> HIDE DEF s2
<1>4. Fits(s3, 14, 0)
  BY <1>3, LevelTest, Joined
<1> HIDE DEF s3
<1>5. Fits(s4, 15, 0)
  BY <1>1, <1>4, Joined
<1> HIDE DEF s4
<1>6. Fits(s5, 16, 0)
  BY <1>5, InHigherHalf, Joined
<1> HIDE DEF s5
<1>7. Fits(s6, 22, 0)
  BY <1>6, LayoutLines, Joined
<1> HIDE DEF s6
<1>8. Fits(s7, 28, 0)
  BY <1>7, InitPagingLines, Joined
<1> HIDE DEF s7
<1>9. Fits(s8, 35, 0)
  BY <1>8, InfoLinesBefore, Joined
<1> HIDE DEF s8
<1>10. Fits(s9, 73, 0)
  BY <1>9, MemoryTest, Joined
<1> HIDE DEF s9
<1>11. Fits(s10, 80, 0)
  BY <1>10, InfoLinesAfter, Joined
<1> HIDE DEF s10
<1>12. Fits(s11, 91, 0)
  BY <1>1, <1>11, Joined
<1> HIDE DEF s11
<1>13. Fits(s11 \o e, 93, 0)
  BY <1>1, <1>12, Joined
<1> QED
  BY <1>13 DEF Program, kernel_main, s1, s2, s3, s4, s5, s6, s7, s8, s9, s10, s11, a, b, c, d, e

-----------------------------------------------------------------------------
(* What the script's lines say of the routine that is called. *)
LEMMA Lines ==
  ASSUME NEW i \in 1 .. 93
  PROVE  /\ Program[i].routine = "init_paging" => i = 26
         /\ Program[i].routine = "kmalloc_physical_page" => i \in {38, 40, 42}
         /\ Program[i].routine = "map_page_to_frame" => i = 49 /\ Program[i].arg = 1
         /\ Program[i].routine = "write" => i = 55
         /\ Program[i].routine = "flush_tlb_entry" => i = 56
         /\ Program[i].routine = "read" => i = 57
         /\ Program[i].routine = "report" => i = 59
         /\ Program[i].routine = "unmap_page" => i = 65
         /\ Program[i].routine = "kfree_physical_page" =>
              \/ i = 69 /\ Program[i].arg = 1
              \/ i = 71 /\ Program[i].arg = 2
              \/ i = 73 /\ Program[i].arg = 3
         /\ Program[i].routine = "hlt" => i = 93
         /\ Program[i].routine # "panic"
         /\ Program[i].routine = "debug_init" => i = 1
<1> DEFINE c == Program[i]
<1>1. Scripted(i, c)
  <2>1. \A j \in 1 .. 93 : Scripted(0 + j, Program[j])
    BY Script, Zenon DEF Fits
  <2>2. 0 + i = i
    OBVIOUS
  <2> QED
    BY <2>1, <2>2, Zenon DEF c
<1> HIDE DEF c
<1>2. /\ EchoOn.routine = "terminal_enable_serial"
      /\ PrintfOff.routine = "printf_enable_serial"
      /\ PutcharOff.routine = "putchar_enable_serial"
  BY Zenon DEF EchoOn, PrintfOff, PutcharOff, Do
<1>3. CASE i \notin Special
  BY <1>1, <1>3 DEF Scripted, IsSpeech, c
<1>4. CASE i \in {1, 2, 3, 4, 5, 6, 82, 84, 86, 88}
  BY <1>1, <1>2, <1>4 DEF Scripted, c
<1>5. CASE i \in {26, 38, 40, 42, 49, 55, 56, 57, 59, 65, 69, 71, 73, 93}
  BY <1>1, <1>5 DEF Scripted, c
<1> QED
  BY <1>3, <1>4, <1>5 DEF Special

-----------------------------------------------------------------------------
(* Paging's theorems, about the tables that boot.S makes and the script uses: *)
(* while paging is off, the tables that will be there when it is on.          *)
PP == INSTANCE PagingProofs WITH mem <- tables, cr3 <- root

(* Boot's assumptions are Paging's. *)
LEMMA Assumed == PP!Sizes /\ PP!ImageInWindow /\ PP!ClientsOutside
BY BootAssumption DEF P!Sizes, P!ImageInWindow, P!ClientsOutside, P!ClientDirs, P!Index, P!Frame,
     P!VPage, P!Recursive, P!NULL, P!P2V, PP!Sizes, PP!ImageInWindow, PP!ClientsOutside,
     PP!ClientDirs, PP!Index, PP!Frame, PP!VPage, PP!Recursive, PP!NULL, PP!P2V

(* The constants of the two instances of Paging are the same. *)
LEMMA Same ==
  /\ P!Index = PP!Index /\ P!Frame = PP!Frame /\ P!VPage = PP!VPage /\ P!Entry = PP!Entry
  /\ P!NULL = PP!NULL /\ P!NULL = 0 /\ P!Reserved = PP!Reserved
  /\ P!ZeroPage = PP!ZeroPage /\ P!JunkPage = PP!JunkPage /\ P!EmptyTlb = PP!EmptyTlb
  /\ P!BootMemory = PP!BootMemory
  /\ P!Recursive = PP!Recursive /\ P!ClientDirs = PP!ClientDirs
  /\ \A f : P!P2V(f) = PP!P2V(f)
BY DEF P!Index, PP!Index, P!Frame, PP!Frame, P!VPage, PP!VPage, P!Entry, PP!Entry, P!NULL, PP!NULL,
       P!Reserved, PP!Reserved, P!ZeroPage, PP!ZeroPage, P!JunkPage, PP!JunkPage,
       P!EmptyTlb, PP!EmptyTlb, P!BootMemory, PP!BootMemory, P!P2V, PP!P2V,
       P!Recursive, PP!Recursive, P!ClientDirs, PP!ClientDirs

(* Once paging is on, so are the CPU's translations. *)
LEMMA SameWalk ==
  ASSUME pg
  PROVE  /\ tables = mem /\ root = cr3
         /\ \A v : P!Walk(v) = PP!Walk(v) /\ P!Translate(v) = PP!Translate(v)
         /\ \A f : P!Deref(f) = PP!Deref(f)
<1>1. tables = mem /\ root = cr3
  BY DEF tables, root
<1>2. \A v : P!Walk(v) = PP!Walk(v)
  BY <1>1 DEF P!Walk, PP!Walk
<1>3. \A v : P!Translate(v) = PP!Translate(v)
  BY <1>2 DEF P!Translate, PP!Translate
<1>4. \A f : P!Deref(f) = PP!Deref(f)
  BY <1>3, Same DEF P!Deref, PP!Deref
<1> QED
  BY <1>1, <1>2, <1>3, <1>4

(* What Paging's layout means for the test's page and the kernel's frames. *)
LEMMA TestPage ==
  /\ ClientPages = {test_virt_addr}
  /\ test_virt_addr \in ClientPages /\ test_virt_addr \in PP!VPage
  /\ test_virt_addr[1] \in PP!Index /\ test_virt_addr[2] \in PP!Index
  /\ PP!ClientDirs = {test_virt_addr[1]}
  /\ test_virt_addr[1] \notin {0, KERNEL_PAGE_NUMBER, PP!Recursive}
<1>1. ClientPages = {test_virt_addr}
  BY KernelAssumption
<1>2. PP!ClientDirs = {test_virt_addr[1]}
  BY <1>1 DEF PP!ClientDirs
<1>3. test_virt_addr \in ClientPages
  BY <1>1
<1> QED
  BY <1>1, <1>2, <1>3, PP!Layout, Assumed

(* The frames of the image are in the window. *)
LEMMA Frames ==
  /\ BootstrapFrame \in PP!Index /\ TextFrame \in PP!Index /\ VgaFrame \in PP!Index
  /\ StackFrame \in PP!Index /\ Cleared \subseteq PP!Index /\ 0 \in PP!Index
  /\ LeftInEdi \in Cleared
  /\ KernelFrames \cup {VgaFrame} \subseteq PP!Index
<1>1. KernelFrames \subseteq PP!Index /\ LowFrames \subseteq PP!Index
  BY Assumed DEF PP!ImageInWindow
<1> QED
  <2>1. LeftInEdi \in Cleared
    <3>1. BootTable \in Nat
      BY PP!Layout, Assumed DEF PP!Index
    <3> QED
      BY <3>1, BootAssumption DEF LeftInEdi, Cleared
  <2> QED
    BY <1>1, <2>1, BootAssumption, PP!Layout, Assumed

-----------------------------------------------------------------------------
(* The invariant. *)

Paged == {"jump", "higher_half", "validate_boot", "walk_tags", "setup_gdt",
          "terminal_initialize", "kernel_main", "hlt"}

(* boot.S: paging is on from the jump on; before, the TLB is empty and the   *)
(* tables are being made. What validate_boot is given is the address behind  *)
(* the boot table, the far end of the stack, which is mapped and still zero: *)
(* its walk ends at the first tag.                                           *)
BootInv ==
  /\ pc \in Paged \cup {"multiboot_entry", "setup_page_tables", "enable_paging", "lost"}
  /\ pc \in Paged => pg = TRUE
  /\ pc \notin Paged => pg = FALSE
  /\ ~pg => tlb = P!EmptyTlb
  /\ pc \in {"multiboot_entry", "setup_page_tables"} =>
       mem = [f \in P!Frame |->
                IF f \in {BootDirectory, BootTable} THEN P!ZeroPage ELSE P!JunkPage]
  /\ pc = "enable_paging" => mem = P!BootMemory
  /\ mem \in [P!Frame -> [P!Index -> P!Entry]]
  /\ pc \in {"enable_paging", "jump", "higher_half"} => edi = LeftInEdi
  /\ pc = "validate_boot" => args[2] = LeftInEdi
  /\ pc = "walk_tags" => tag = LeftInEdi
  /\ Len(args) \in {0, 2}
  /\ line > 1 => pc \in {"kernel_main", "hlt"}
  /\ pc = "hlt" => line = 93
  /\ SegmentsFlat

(* The pages the script has taken, and of these given back, before a line. *)
Taken == IF line <= 38 THEN 0 ELSE IF line <= 40 THEN 1 ELSE IF line <= 42 THEN 2 ELSE 3
Freed == IF line <= 69 THEN 0 ELSE IF line <= 71 THEN 1 ELSE IF line <= 73 THEN 2 ELSE 3

PagesInv ==
  /\ line \in 1 .. 93
  /\ cpu = IF line <= 26 THEN "booted" ELSE "running"
  /\ pages \in Seq(P!Index \ P!Reserved) /\ Len(pages) = Taken
  /\ \A i, j \in 1 .. Taken : i # j => pages[i] # pages[j]
  /\ held = {pages[i] : i \in (Freed + 1) .. Taken}

(* The page table is made on line 49, page 1 is mapped from there to line    *)
(* 65, and has the pattern between the lines that write and read it.         *)
MappingInv ==
  /\ (tables[BootDirectory][test_virt_addr[1]] = NotPresent) = (line <= 49)
  /\ PP!Walk(test_virt_addr) = IF line \in 50 .. 65 THEN pages[1] ELSE NotPresent
  /\ line \in 56 .. 57 => tables[pages[1]] = P!JunkPage
  /\ read_value = IF line >= 58 THEN "0xDEADBEEF" ELSE "none"

KernelInv ==
  /\ BootInv
  /\ PagesInv
  /\ MappingInv
  /\ PP!PagingInv

(* The initial states. *)
LEMMA InitKernelInv == KernelInit => KernelInv
<1> SUFFICES ASSUME KernelInit  PROVE KernelInv
  OBVIOUS
<1>0. Init
  BY DEF KernelInit
<1>1. /\ pc = "multiboot_entry" /\ pg = FALSE /\ line = 1 /\ pages = <<>>
      /\ used = {} /\ current = NotPresent /\ held = {} /\ cpu = "booted"
      /\ tlb = P!EmptyTlb /\ args = <<>> /\ read_value = "none"
      /\ tables = P!BootMemory /\ root = BootDirectory
      /\ mem = [f \in P!Frame |->
                  IF f \in {BootDirectory, BootTable} THEN P!ZeroPage ELSE P!JunkPage]
  BY <1>0 DEF KernelInit, Init, tables, root
<1>2. PP!PagingInv
  <2>1. PP!Init
    BY <1>1, Same DEF PP!Init
  <2> QED
    BY <2>1, PP!InitPagingInv, Assumed
<1>3. P!ZeroPage \in [P!Index -> P!Entry] /\ P!JunkPage \in [P!Index -> P!Entry]
  BY PP!Layout, Assumed, Same DEF P!ZeroPage, P!JunkPage, P!Entry
<1>4. BootInv
  <2>1. mem \in [P!Frame -> [P!Index -> P!Entry]]
    BY <1>1, <1>3
  <2> QED
    BY <1>1, <2>1 DEF BootInv, Paged, SegmentsFlat
<1>5. PagesInv
  BY <1>1 DEF PagesInv, Taken, Freed
<1>6. MappingInv
  <2>1. PP!BootMemory[BootDirectory][test_virt_addr[1]] = NotPresent
    BY TestPage, PP!Layout, Assumed DEF PP!BootMemory, PP!ZeroPage
  <2> QED
    BY <1>1, <2>1, Same DEF MappingInv, PP!Walk
<1> QED
  BY <1>2, <1>4, <1>5, <1>6 DEF KernelInv

-----------------------------------------------------------------------------
(* The boot code. *)

(* A step that Paging does not see. *)
LEMMA PagingStutters ==
  ASSUME KernelInv, UNCHANGED <<used, current, tlb, held, cpu>>, tables' = tables, root' = root,
         UNCHANGED main
  PROVE  UNCHANGED PP!vars /\ PP!PagingInv' /\ PagesInv' /\ MappingInv'
<1>1. UNCHANGED PP!vars
  BY DEF PP!vars
<1>2. PP!PagingInv'
  BY <1>1, PP!StepPagingInv, Assumed DEF KernelInv
<1>3. PagesInv'
  BY DEF KernelInv, PagesInv, Taken, Freed, main
<1>4. PP!Walk(test_virt_addr)' = PP!Walk(test_virt_addr)
  BY DEF PP!Walk
<1>5. MappingInv'
  BY <1>4 DEF KernelInv, MappingInv, main
<1> QED
  BY <1>1, <1>2, <1>3, <1>5

(* All of the window is mapped twice from the jump on. *)
LEMMA AllReached ==
  ASSUME KernelInv, NEW f \in PP!Index
  PROVE  Reaches("low", f) /\ (pg => Reaches("high", f))
<1>1. CASE ~pg
  BY <1>1 DEF Reaches
<1>2. CASE pg
  <2>1. /\ PP!TypeOK /\ PP!BootTablesInv /\ PP!TlbCoherent
    BY DEF KernelInv, PP!PagingInv
  <2>2. \A v \in PP!VPage : PP!Translate(v) = PP!Walk(v)
    BY <2>1, PP!TranslateIsWalk, Assumed
  <2>3. <<0, f>> \in PP!VPage
    BY PP!Layout, Assumed DEF PP!VPage
  <2>4. PP!Walk(<<0, f>>) = f
    BY <2>1, PP!Layout, Assumed DEF PP!Walk, PP!BootTablesInv
  <2>5. P!Translate(<<0, f>>) = f
    BY <1>2, <2>2, <2>3, <2>4, SameWalk
  <2>6. P!Translate(P!P2V(f)) = f
    <3>1. PP!Deref(f) = f
      BY <2>1, PP!DerefWindow, Assumed
    <3> QED
      BY <1>2, <3>1, Same, SameWalk DEF PP!Deref
  <2> QED
    BY <1>2, <2>5, <2>6 DEF Reaches
<1> QED
  BY <1>1, <1>2

(* So a routine that stays in the window runs to its end. *)
LEMMA Runs ==
  ASSUME KernelInv, NEW routine, NEW then, NEW touched, Run(routine, then, touched),
         \A a \in touched : a[2] \in PP!Index /\ (a[1] = "low" \/ (a[1] = "high" /\ pg))
  PROVE  pc = routine /\ pc' = then /\ UNCHANGED cpu
<1>1. \A a \in touched : Reaches(a[1], a[2])
  <2>1. ASSUME NEW a \in touched  PROVE Reaches(a[1], a[2])
    <3>1. a[2] \in PP!Index /\ (a[1] = "low" \/ (a[1] = "high" /\ pg))
      OBVIOUS
    <3>2. Reaches("low", a[2]) /\ (pg => Reaches("high", a[2]))
      BY <3>1, AllReached
    <3>3. CASE a[1] = "low"
      BY <3>2, <3>3
    <3>4. CASE a[1] = "high" /\ pg
      BY <3>2, <3>4
    <3> QED
      BY <3>1, <3>3, <3>4
  <2> QED
    BY <2>1, Zenon
<1> QED
  BY <1>1, Zenon DEF Run

(* multiboot_entry runs without paging. *)
LEMMA EntryStep ==
  ASSUME KernelInv, multiboot_entry, UNCHANGED <<used, current, held, main>>
  PROVE  KernelInv' /\ UNCHANGED PP!vars
<1>1. pc = "multiboot_entry" /\ pc' = "setup_page_tables" /\ UNCHANGED cpu
  <2> DEFINE touched == {<<"low", BootstrapFrame>>, <<"low", VgaFrame>>}
  <2>1. \A a \in touched : a[2] \in PP!Index /\ a[1] = "low"
    BY Frames
  <2>2. Run("multiboot_entry", "setup_page_tables", touched)
    BY DEF multiboot_entry
  <2> HIDE DEF touched
  <2> QED
    BY <2>1, <2>2, Runs
<1>2. UNCHANGED <<mem, cr3, tlb, pg, args, segments>> /\ pg = FALSE
  BY <1>1 DEF multiboot_entry, KernelInv, BootInv, Paged
<1>3. tables' = tables /\ root' = root
  BY <1>2 DEF tables, root
<1>4. UNCHANGED PP!vars /\ PP!PagingInv' /\ PagesInv' /\ MappingInv'
  BY <1>1, <1>2, <1>3, PagingStutters
<1>5. BootInv'
  BY <1>1, <1>2 DEF KernelInv, BootInv, Paged, SegmentsFlat, main
<1> QED
  BY <1>4, <1>5 DEF KernelInv

(* Any step of the boot code that leaves the tables alone. *)
LEMMA BootStutters ==
  ASSUME KernelInv, UNCHANGED <<used, current, tlb, held, cpu, main>>,
         UNCHANGED <<mem, cr3, pg>>, BootInv'
  PROVE  KernelInv' /\ UNCHANGED PP!vars
<1>1. tables' = tables /\ root' = root
  BY DEF tables, root
<1>2. UNCHANGED PP!vars /\ PP!PagingInv' /\ PagesInv' /\ MappingInv'
  BY <1>1, PagingStutters
<1> QED
  BY <1>2 DEF KernelInv

(* setup_page_tables makes the tables that Paging starts from. *)
LEMMA SetupTablesStep ==
  ASSUME KernelInv, setup_page_tables, UNCHANGED <<used, current, held, main>>
  PROVE  KernelInv' /\ UNCHANGED PP!vars
<1>1. pc = "setup_page_tables" /\ pc' = "enable_paging" /\ UNCHANGED cpu
  <2> DEFINE touched == {<<"low", BootstrapFrame>>, <<"low", VgaFrame>>}
  <2>1. \A a \in touched : a[2] \in PP!Index /\ a[1] = "low"
    BY Frames
  <2>2. Run("setup_page_tables", "enable_paging", touched)
    BY DEF setup_page_tables
  <2> HIDE DEF touched
  <2> QED
    BY <2>1, <2>2, Runs
<1>2. /\ UNCHANGED <<cr3, tlb, pg, esi, args, segments>> /\ pg = FALSE
      /\ mem' = PageTables /\ edi' = LeftInEdi
      /\ mem = [f \in P!Frame |->
                  IF f \in {BootDirectory, BootTable} THEN P!ZeroPage ELSE P!JunkPage]
  BY <1>1 DEF setup_page_tables, KernelInv, BootInv, Paged
<1>3. tables' = tables /\ root' = root
  BY <1>2 DEF tables, root
<1>4. UNCHANGED PP!vars /\ PP!PagingInv' /\ PagesInv' /\ MappingInv'
  BY <1>1, <1>2, <1>3, PagingStutters
<1>5. mem' = P!BootMemory
  <2>1. BootDirectory \in P!Frame /\ BootTable \in P!Frame /\ BootDirectory # BootTable
    BY PP!Layout, Assumed, Same
  <2> QED
    BY <1>2, <2>1 DEF PageTables, P!BootMemory
<1>6. P!BootMemory \in [P!Frame -> [P!Index -> P!Entry]]
  <2>1. P!ZeroPage \in [P!Index -> P!Entry] /\ P!JunkPage \in [P!Index -> P!Entry]
    BY PP!Layout, Assumed, Same DEF P!ZeroPage, P!JunkPage, P!Entry
  <2>2. [i \in P!Index |-> i] \in [P!Index -> P!Entry] /\ BootTable \in P!Entry
    BY PP!Layout, Assumed, Same DEF P!Entry
  <2> QED
    BY <2>1, <2>2 DEF P!BootMemory
<1>7. BootInv'
  BY <1>1, <1>2, <1>5, <1>6 DEF KernelInv, BootInv, Paged, SegmentsFlat, main
<1> QED
  BY <1>4, <1>7 DEF KernelInv

(* With paging on, the tables are the ones that were made. *)
LEMMA EnableStep ==
  ASSUME KernelInv, EnablePaging, UNCHANGED <<used, current, held, main>>
  PROVE  KernelInv' /\ UNCHANGED PP!vars
<1>1. pc = "enable_paging" /\ pc' = "jump" /\ UNCHANGED cpu
  <2> DEFINE touched == {<<"low", BootstrapFrame>>}
  <2>1. \A a \in touched : a[2] \in PP!Index /\ a[1] = "low"
    BY Frames
  <2>2. Run("enable_paging", "jump", touched)
    BY DEF EnablePaging
  <2> HIDE DEF touched
  <2> QED
    BY <2>1, <2>2, Runs
<1>2. /\ UNCHANGED <<mem, edi, esi, args, segments>> /\ pg = FALSE /\ pg' = TRUE
      /\ mem = P!BootMemory /\ tlb' = tlb /\ cr3' = BootDirectory
  BY <1>1 DEF EnablePaging, KernelInv, BootInv, Paged
<1>3. tables' = tables /\ root' = root
  BY <1>2 DEF tables, root
<1>4. UNCHANGED PP!vars /\ PP!PagingInv' /\ PagesInv' /\ MappingInv'
  BY <1>1, <1>2, <1>3, PagingStutters
<1>5. BootInv'
  BY <1>1, <1>2 DEF KernelInv, BootInv, Paged, SegmentsFlat, main
<1> QED
  BY <1>4, <1>5 DEF KernelInv

(* The jump, at the low address. *)
LEMMA JumpStep ==
  ASSUME KernelInv, JumpHigh, UNCHANGED <<used, current, held, main>>
  PROVE  KernelInv' /\ UNCHANGED PP!vars
<1>1. pc = "jump" /\ pc' = "higher_half" /\ UNCHANGED cpu
  <2> DEFINE touched == {<<"low", BootstrapFrame>>}
  <2>1. \A a \in touched : a[2] \in PP!Index /\ a[1] = "low"
    BY Frames
  <2>2. Run("jump", "higher_half", touched)
    BY DEF JumpHigh
  <2> HIDE DEF touched
  <2> QED
    BY <2>1, <2>2, Runs
<1>2. UNCHANGED <<mem, cr3, tlb, pg, edi, esi, args, segments>>
  BY DEF JumpHigh
<1>3. BootInv'
  BY <1>1, <1>2 DEF KernelInv, BootInv, Paged, SegmentsFlat, main
<1> QED
  BY <1>1, <1>2, <1>3, BootStutters

(* The arguments are pushed on the stack at its high address. *)
LEMMA HigherHalfStep ==
  ASSUME KernelInv, higher_half, UNCHANGED <<used, current, held, main>>
  PROVE  KernelInv' /\ UNCHANGED PP!vars
<1>1. pc = "higher_half" /\ pc' = "validate_boot" /\ UNCHANGED cpu
  <2> DEFINE touched == {<<"high", TextFrame>>, <<"high", StackFrame>>, <<"high", VgaFrame>>}
  <2>1. Run("higher_half", "validate_boot", touched)
    BY DEF higher_half
  <2>2. pg
    BY <2>1 DEF Run, KernelInv, BootInv, Paged
  <2>3. \A a \in touched : a[2] \in PP!Index /\ a[1] = "high"
    BY Frames
  <2> HIDE DEF touched
  <2> QED
    BY <2>1, <2>2, <2>3, Runs
<1>2. UNCHANGED <<mem, cr3, tlb, pg, edi, esi, segments>> /\ args' = <<esi, edi>>
  BY DEF higher_half
<1>3. BootInv'
  BY <1>1, <1>2 DEF KernelInv, BootInv, Paged, SegmentsFlat, main
<1> QED
  BY <1>1, <1>2, <1>3, BootStutters

(* validate_boot reads the frame behind the boot table, if anything. *)
LEMMA ValidateStep ==
  ASSUME KernelInv, validate_boot, UNCHANGED <<used, current, held, main>>
  PROVE  KernelInv' /\ UNCHANGED PP!vars
<1> DEFINE valid == args[1] = "MULTIBOOT2_BOOTLOADER_MAGIC"
           then == IF valid THEN "walk_tags" ELSE "setup_gdt"
<1>1. /\ pc = "validate_boot" /\ pc' = then /\ UNCHANGED cpu
      /\ args[2] = LeftInEdi
  <2> DEFINE read == IF valid THEN {<<"high", args[2]>>} ELSE {}
             touched == {<<"high", TextFrame>>, <<"high", StackFrame>>, <<"low", P!NULL>>}
                          \cup read
  <2>1. Run("validate_boot", then, touched)
    BY Zenon DEF validate_boot
  <2>2. pg /\ args[2] = LeftInEdi
    BY <2>1 DEF Run, KernelInv, BootInv, Paged
  <2>3. \A a \in read : a = <<"high", args[2]>>
    OBVIOUS
  <2>4. LeftInEdi \in PP!Index
    BY Frames
  <2> HIDE DEF read, then
  <2>5. \A a \in touched : a[2] \in PP!Index /\ (a[1] = "low" \/ a[1] = "high")
    BY <2>2, <2>3, <2>4, Frames, Same
  <2> HIDE DEF touched
  <2> QED
    BY <2>1, <2>2, <2>5, Runs
<1>2. /\ UNCHANGED <<mem, cr3, tlb, pg, edi, esi, args, segments>>
      /\ tag' = IF valid THEN args[2] ELSE tag
  BY Zenon DEF validate_boot
<1>3. BootInv'
  BY <1>1, <1>2 DEF KernelInv, BootInv, Paged, SegmentsFlat, main
<1> QED
  BY <1>1, <1>2, <1>3, BootStutters

(* The walk ends in the cleared page that it begins in. *)
LEMMA WalkStep ==
  ASSUME KernelInv, walk_tags, UNCHANGED <<used, current, held, main>>
  PROVE  KernelInv' /\ UNCHANGED PP!vars
<1>1. PICK next \in TagsAt(tag) :
        /\ Run("walk_tags", IF next = NotPresent THEN "setup_gdt" ELSE "walk_tags",
               {<<"high", TextFrame>>, <<"high", StackFrame>>, <<"low", P!NULL>>, <<"high", tag>>})
        /\ UNCHANGED <<mem, cr3, tlb, pg, edi, esi, args, segments>>
  BY Zenon DEF walk_tags
<1>2. pc = "walk_tags" /\ pg /\ tag \in Cleared
  BY <1>1, Frames DEF Run, KernelInv, BootInv, Paged
<1>3. next = NotPresent
  BY <1>2 DEF TagsAt
<1>4. pc = "walk_tags" /\ pc' = "setup_gdt" /\ UNCHANGED cpu
  <2> DEFINE touched == {<<"high", TextFrame>>, <<"high", StackFrame>>, <<"low", P!NULL>>,
                         <<"high", tag>>}
  <2>1. Run("walk_tags", "setup_gdt", touched)
    BY <1>1, <1>3
  <2>2. tag \in PP!Index
    BY <1>2, Frames
  <2>3. \A a \in touched : a[2] \in PP!Index /\ (a[1] = "low" \/ a[1] = "high")
    BY <2>2, Frames, Same
  <2> HIDE DEF touched
  <2> QED
    BY <1>2, <2>1, <2>3, Runs
<1>5. BootInv'
  BY <1>1, <1>4 DEF KernelInv, BootInv, Paged, SegmentsFlat, main
<1> QED
  BY <1>1, <1>4, <1>5, BootStutters

(* Truth values, numbers and descriptors, as wholes. *)
Yes == TRUE
No == FALSE
AllPages == <<15, 65535>>
CodeEntry == gdt_set_entry(Zero32, Ones32, GDT_CODE_SEGMENT_PL0, 207)
DataEntry == gdt_set_entry(Zero32, Ones32, GDT_DATA_SEGMENT_PL0, 207)

Segment(b, l, p, w, here, r, c, d) ==
  [base |-> b, limit |-> l, pages |-> p, wide |-> w, present |-> here, ring |-> r,
   code |-> c, writable |-> d]

(* The descriptors that gdt_set_entry makes are flat. *)
LEMMA CodeIsFlat ==
  Descriptor(CodeEntry) =
    Segment(Zero32, AllPages, Yes, Yes, Yes, 0, Yes, No)
<1> DEFINE e == CodeEntry
<1>1. /\ e.base_low = 0 /\ e.base_middle = 0 /\ e.base_high = 0 /\ e.limit_low = 65535
      /\ e.granularity = 207 /\ e.access = 154
  BY DEF CodeEntry, gdt_set_entry, Zero32, Ones32, GDT_CODE_SEGMENT_PL0
<1> HIDE DEF e
<1>2. Bit(7, e.granularity) = Yes /\ Bit(6, e.granularity) = Yes
  <2>1. 2 ^ 7 = 128 /\ 2 ^ 6 = 64
    OBVIOUS
  <2> QED
    BY <1>1, <2>1 DEF Bit, Yes, No
<1>3. Bit(7, e.access) = Yes /\ Bit(3, e.access) = Yes
  <2>1. 2 ^ 7 = 128 /\ 2 ^ 3 = 8
    OBVIOUS
  <2> QED
    BY <1>1, <2>1 DEF Bit, Yes, No
<1>4. /\ <<e.base_high * 256 + e.base_middle, e.base_low>> = Zero32
      /\ <<e.granularity % 16, e.limit_low>> = AllPages
      /\ (e.access \div 32) % 4 = 0
  BY <1>1 DEF Zero32, AllPages
<1>5. (~Bit(3, e.access) /\ Bit(1, e.access)) = No
  BY <1>3 DEF Yes, No
<1>6. Descriptor(e) =
        Segment(<<e.base_high * 256 + e.base_middle, e.base_low>>,
                <<e.granularity % 16, e.limit_low>>, Bit(7, e.granularity),
                Bit(6, e.granularity), Bit(7, e.access), (e.access \div 32) % 4,
                Bit(3, e.access), ~Bit(3, e.access) /\ Bit(1, e.access))
  BY Zenon DEF Descriptor, Segment
<1> QED
  BY <1>2, <1>3, <1>4, <1>5, <1>6, ZenonT(40) DEF e

(* And so are the data segments'. *)
LEMMA DataIsFlat ==
  Descriptor(DataEntry) =
    Segment(Zero32, AllPages, Yes, Yes, Yes, 0, No, Yes)
<1> DEFINE e == DataEntry
<1>1. /\ e.base_low = 0 /\ e.base_middle = 0 /\ e.base_high = 0 /\ e.limit_low = 65535
      /\ e.granularity = 207 /\ e.access = 146
  BY DEF DataEntry, gdt_set_entry, Zero32, Ones32, GDT_DATA_SEGMENT_PL0
<1> HIDE DEF e
<1>2. Bit(7, e.granularity) = Yes /\ Bit(6, e.granularity) = Yes
  <2>1. 2 ^ 7 = 128 /\ 2 ^ 6 = 64
    OBVIOUS
  <2> QED
    BY <1>1, <2>1 DEF Bit, Yes, No
<1>3. Bit(7, e.access) = Yes /\ Bit(3, e.access) = No /\ Bit(1, e.access) = Yes
  <2>1. 2 ^ 7 = 128 /\ 2 ^ 3 = 8 /\ 2 ^ 1 = 2
    OBVIOUS
  <2> QED
    BY <1>1, <2>1 DEF Bit, Yes, No
<1>4. /\ <<e.base_high * 256 + e.base_middle, e.base_low>> = Zero32
      /\ <<e.granularity % 16, e.limit_low>> = AllPages
      /\ (e.access \div 32) % 4 = 0
  BY <1>1 DEF Zero32, AllPages
<1>5. (~Bit(3, e.access) /\ Bit(1, e.access)) = Yes
  BY <1>3 DEF Yes, No
<1>6. Descriptor(e) =
        Segment(<<e.base_high * 256 + e.base_middle, e.base_low>>,
                <<e.granularity % 16, e.limit_low>>, Bit(7, e.granularity),
                Bit(6, e.granularity), Bit(7, e.access), (e.access \div 32) % 4,
                Bit(3, e.access), ~Bit(3, e.access) /\ Bit(1, e.access))
  BY Zenon DEF Descriptor, Segment
<1> QED
  BY <1>2, <1>3, <1>4, <1>5, <1>6, ZenonT(40) DEF e

(* setup_gdt loads them. *)
LEMMA GdtStep ==
  ASSUME KernelInv, setup_gdt, UNCHANGED <<used, current, held, main>>
  PROVE  KernelInv' /\ UNCHANGED PP!vars
<1>1. pc = "setup_gdt" /\ pc' = "terminal_initialize" /\ UNCHANGED cpu
  <2> DEFINE touched == {<<"high", TextFrame>>, <<"high", StackFrame>>, <<"low", P!NULL>>}
  <2>1. Run("setup_gdt", "terminal_initialize", touched)
    BY DEF setup_gdt
  <2>2. pg
    BY <2>1 DEF Run, KernelInv, BootInv, Paged
  <2>3. \A a \in touched : a[2] \in PP!Index /\ (a[1] = "low" \/ a[1] = "high")
    BY Frames, Same
  <2> HIDE DEF touched
  <2> QED
    BY <2>1, <2>2, <2>3, Runs
<1>2. UNCHANGED <<mem, cr3, tlb, pg, edi, esi, args>>
  BY DEF setup_gdt
<1>3. SegmentsFlat'
  <2> DEFINE null == gdt_set_entry(Zero32, Zero32, 0, 0)
             selector(r) == IF r = "cs" THEN GDT_KERNEL_CODE_SEGMENT_SELECTOR
                            ELSE GDT_KERNEL_DATA_SEGMENT_SELECTOR
             gdt == <<null, CodeEntry, DataEntry>>
             flat(r) == Segment(Zero32, AllPages, Yes, Yes, Yes, 0, r = "cs", r # "cs")
  <2>1. segments' = [r \in SegmentRegisters |-> Descriptor(gdt[1 + (selector(r) \div 8)])]
    BY DEF setup_gdt, CodeEntry, DataEntry
  <2> HIDE DEF null
  <2>2. \A r : gdt[1 + (selector(r) \div 8)] = IF r = "cs" THEN CodeEntry ELSE DataEntry
    BY DEF GDT_KERNEL_CODE_SEGMENT_SELECTOR, GDT_KERNEL_DATA_SEGMENT_SELECTOR
  <2> HIDE DEF gdt, selector
  <2>3. ASSUME NEW r \in SegmentRegisters  PROVE segments'[r] = flat(r)
    <3>1. segments'[r] = Descriptor(gdt[1 + (selector(r) \div 8)])
      BY <2>1
    <3>2. CASE r = "cs"
      <4>1. (r = "cs") = Yes /\ (r # "cs") = No
        BY <3>2 DEF Yes, No
      <4>2. segments'[r] = Descriptor(CodeEntry)
        BY <2>2, <3>1, <3>2
      <4> QED
        BY <4>1, <4>2, CodeIsFlat, Zenon
    <3>3. CASE r # "cs"
      <4>1. (r = "cs") = No /\ (r # "cs") = Yes
        BY <3>3 DEF Yes, No
      <4>2. segments'[r] = Descriptor(DataEntry)
        BY <2>2, <3>1, <3>3
      <4> QED
        BY <4>1, <4>2, DataIsFlat, Zenon
    <3> QED
      BY <3>2, <3>3, Zenon
  <2> HIDE DEF flat
  <2>4. SUFFICES ASSUME NEW r \in SegmentRegisters
        PROVE  segments'[r] =
                 [base |-> Zero32, limit |-> <<15, 65535>>, pages |-> TRUE, wide |-> TRUE,
                  present |-> TRUE, ring |-> 0, code |-> r = "cs", writable |-> r # "cs"]
    BY DEF SegmentsFlat
  <2>5. flat(r) = [base |-> Zero32, limit |-> <<15, 65535>>, pages |-> TRUE, wide |-> TRUE,
                   present |-> TRUE, ring |-> 0, code |-> r = "cs", writable |-> r # "cs"]
    BY DEF flat, Segment, Yes, AllPages
  <2>6. segments'[r] = flat(r)
    BY <2>3
  <2> QED
    BY <2>5, <2>6
<1>4. BootInv'
  BY <1>1, <1>2, <1>3 DEF KernelInv, BootInv, Paged, main
<1> QED
  BY <1>1, <1>2, <1>4, BootStutters

(* terminal_initialize, the last call before kernel_main. *)
LEMMA TerminalStep ==
  ASSUME KernelInv, terminal_initialize, UNCHANGED <<used, current, held, main>>
  PROVE  KernelInv' /\ UNCHANGED PP!vars
<1>1. pc = "terminal_initialize" /\ pc' = "kernel_main" /\ UNCHANGED cpu
  <2> DEFINE touched == {<<"high", TextFrame>>, <<"high", StackFrame>>,
                         <<IF pg THEN "high" ELSE "low", VgaFrame>>}
  <2>1. Run("terminal_initialize", "kernel_main", touched)
    BY DEF terminal_initialize
  <2>2. pg
    BY <2>1 DEF Run, KernelInv, BootInv, Paged
  <2>3. \A a \in touched : a[2] \in PP!Index /\ a[1] = "high"
    BY <2>2, Frames
  <2> HIDE DEF touched
  <2> QED
    BY <2>1, <2>2, <2>3, Runs
<1>2. UNCHANGED <<mem, cr3, tlb, pg, edi, esi, args, segments>>
  BY DEF terminal_initialize
<1>3. BootInv'
  <2>1. SegmentsFlat'
    BY <1>1, <1>2 DEF KernelInv, BootInv, SegmentsFlat
  <2> QED
    BY <1>1, <1>2, <2>1 DEF KernelInv, BootInv, Paged, main
<1> QED
  BY <1>1, <1>2, <1>3, BootStutters

(* The loop that overwrites itself never comes to paging. *)
LEMMA LostStep ==
  ASSUME KernelInv, BusFloatsHigh, UNCHANGED <<used, current, held, main>>
  PROVE  KernelInv' /\ UNCHANGED PP!vars
<1>1. /\ pc \in {"multiboot_entry", "setup_page_tables"} /\ pc' = "lost"
      /\ UNCHANGED <<mem, cr3, tlb, cpu, pg, edi, esi, args, segments>>
  BY DEF BusFloatsHigh
<1>2. BootInv'
  BY <1>1 DEF KernelInv, BootInv, Paged, SegmentsFlat, main
<1> QED
  BY <1>1, <1>2, BootStutters

(* All of the boot code. *)
LEMMA BootSteps ==
  ASSUME KernelInv, BootStep, UNCHANGED main
  PROVE  KernelInv' /\ UNCHANGED PP!vars
<1>1. UNCHANGED <<used, current, held, main>>
  BY DEF BootStep
<1> QED
  BY <1>1, EntryStep, SetupTablesStep, EnableStep, JumpStep, HigherHalfStep, ValidateStep, WalkStep,
     GdtStep, TerminalStep, LostStep DEF BootStep

-----------------------------------------------------------------------------
(* The script's calls. *)

(* The lines that call paging.c or touch the mapped page, and the last one. *)
PagingLines == {26, 38, 40, 42, 49, 55, 56, 57, 65, 69, 71, 73, 93}

(* The other lines call the console. *)
LEMMA OtherLines ==
  ASSUME NEW i \in 1 .. 93,
         Program[i].routine \in {"debug_init", "terminal_enable_serial", "printf_enable_serial",
           "putchar_enable_serial", "debug_set_level", "debug_set_target", "debug_log", "printf",
           "debug_hex_dump", "panic", "report"}
  PROVE  i \notin PagingLines
<1> DEFINE c == Program[i]
<1>1. Scripted(i, c)
  <2>1. \A j \in 1 .. 93 : Scripted(0 + j, Program[j])
    BY Script, Zenon DEF Fits
  <2>2. 0 + i = i
    OBVIOUS
  <2> QED
    BY <2>1, <2>2, Zenon DEF c
<1> HIDE DEF c
<1>2. i \in PagingLines => c.routine \in {"init_paging", "kmalloc_physical_page",
        "map_page_to_frame", "write", "flush_tlb_entry", "read", "unmap_page",
        "kfree_physical_page", "hlt"}
  BY <1>1 DEF Scripted, PagingLines
<1> QED
  BY <1>2 DEF c

(* The TLB may fill and evict at any time once paging is on. *)
LEMMA TlbSteps ==
  ASSUME KernelInv, TlbStep, UNCHANGED main
  PROVE  KernelInv' /\ PP!Next
<1>1. pg /\ pg' /\ UNCHANGED boot
  BY DEF TlbStep, boot
<1>2. tables = mem /\ root = cr3 /\ tables' = mem' /\ root' = cr3'
  BY <1>1 DEF tables, root
<1>3. PICK v \in P!VPage : P!TlbFill(v) \/ P!TlbEvict(v)
  BY DEF TlbStep
<1>4. PP!TlbFill(v) \/ PP!TlbEvict(v)
  <2>1. P!Cached = PP!Cached
    BY Same DEF P!Cached, PP!Cached
  <2>2. P!Walk(v) = PP!Walk(v)
    BY <1>1, SameWalk
  <2>3. CASE P!TlbFill(v)
    <3>1. P!Cardinality(P!Cached) = PP!Cardinality(PP!Cached)
      BY <2>1, Zenon DEF P!Cardinality, PP!Cardinality
    <3> QED
      BY <1>2, <2>2, <2>3, <3>1 DEF P!TlbFill, PP!TlbFill
  <2>4. CASE P!TlbEvict(v)
    BY <1>2, <2>4 DEF P!TlbEvict, PP!TlbEvict
  <2> QED
    BY <1>3, <2>3, <2>4
<1>5. v \in PP!VPage
  BY Same
<1>6. PP!PagingInv' /\ \A w \in ClientPages : PP!Walk(w)' = PP!Walk(w)
  BY <1>4, <1>5, PP!StepTlb, Assumed DEF KernelInv
<1>7. UNCHANGED <<used, mem, cr3, current, held, cpu>>
  BY <1>3 DEF P!TlbFill, P!TlbEvict
<1>8. PagesInv'
  BY <1>7 DEF KernelInv, PagesInv, Taken, Freed, main
<1>9. MappingInv'
  BY <1>2, <1>6, <1>7, TestPage DEF KernelInv, MappingInv, main
<1>10. BootInv'
  BY <1>1, <1>7 DEF KernelInv, BootInv, boot, Paged, SegmentsFlat, main
<1>11. PP!Next
  BY <1>4, <1>5 DEF PP!Next
<1> QED
  BY <1>6, <1>8, <1>9, <1>10, <1>11 DEF KernelInv

(* Output moves the script on and leaves memory alone. *)
LEMMA ConsoleCalls ==
  ASSUME KernelInv, pc = "kernel_main", ConsoleCall
  PROVE  KernelInv' /\ UNCHANGED PP!vars
<1>1. /\ UNCHANGED <<paging, boot, pages, read_value>> /\ line' = line + 1 /\ pc = "kernel_main"
      /\ line \in 1 .. 93
  BY DEF ConsoleCall, Call, KernelInv, PagesInv
<1>2. line \notin PagingLines
  <2>1. Program[line].routine \in {"debug_init", "terminal_enable_serial", "printf_enable_serial",
          "putchar_enable_serial", "debug_set_level", "debug_set_target", "debug_log", "printf",
          "debug_hex_dump", "panic", "report"}
    BY DEF ConsoleCall, Call
  <2> QED
    BY <1>1, <2>1, OtherLines
<1>3. Taken' = Taken /\ Freed' = Freed
  BY <1>1, <1>2 DEF Taken, Freed, PagingLines
<1>4. tables' = tables /\ root' = root /\ UNCHANGED PP!vars
  BY <1>1 DEF paging, boot, tables, root, PP!vars
<1>5. PP!PagingInv'
  BY <1>4, PP!StepPagingInv, Assumed DEF KernelInv
<1>6. PagesInv'
  BY <1>1, <1>2, <1>3 DEF KernelInv, PagesInv, PagingLines, paging
<1>7. PP!Walk(test_virt_addr)' = PP!Walk(test_virt_addr)
  BY <1>4 DEF PP!Walk
<1>8. MappingInv'
  BY <1>1, <1>2, <1>4, <1>7 DEF KernelInv, MappingInv, PagingLines
<1>9. BootInv'
  BY <1>1, <1>2 DEF KernelInv, BootInv, boot, paging, Paged, SegmentsFlat
<1> QED
  BY <1>4, <1>5, <1>6, <1>8, <1>9 DEF KernelInv

(* The last line halts. *)
LEMMA HaltStep ==
  ASSUME KernelInv, pc = "kernel_main", Halt
  PROVE  KernelInv' /\ UNCHANGED PP!vars
<1>1. /\ pc = "kernel_main" /\ pc' = "hlt" /\ Program[line].routine = "hlt"
      /\ UNCHANGED <<used, mem, cr3, current, tlb, held, cpu>>
      /\ UNCHANGED <<pg, edi, args, segments>> /\ UNCHANGED main
  BY DEF Halt, paging
<1>2. line = 93
  <2>1. line \in 1 .. 93
    BY DEF KernelInv, PagesInv
  <2> QED
    BY <1>1, <2>1, Lines
<1>3. BootInv'
  BY <1>1, <1>2 DEF KernelInv, BootInv, Paged, SegmentsFlat, main
<1> QED
  BY <1>1, <1>3, BootStutters

-----------------------------------------------------------------------------
(* With paging on, paging.c's calls are Paging's. *)
LEMMA SameCalls ==
  ASSUME pg, pg'
  PROVE  /\ \A v : P!PageDirectoryEntry(v) = PP!PageDirectoryEntry(v)
         /\ P!init_paging => PP!init_paging
         /\ P!kmalloc_physical_page => PP!kmalloc_physical_page
         /\ P!NoFreeFrame = PP!NoFreeFrame
         /\ \A f : P!alloc_frame(f) = PP!alloc_frame(f)
         /\ \A v : P!flush_tlb_entry(v) = PP!flush_tlb_entry(v)
         /\ \A f : P!ClearedPage(f) = PP!ZeroPage /\ PP!ClearedPage(f) = PP!ZeroPage
<1>1. tables = mem /\ root = cr3 /\ tables' = mem' /\ root' = cr3'
  BY DEF tables, root
<1>2. \A v : P!PageDirectoryEntry(v) = PP!PageDirectoryEntry(v)
  BY <1>1, SameWalk DEF P!PageDirectoryEntry, PP!PageDirectoryEntry
<1>3. P!init_paging => PP!init_paging
  BY <1>1, Same, SameWalk DEF P!init_paging, PP!init_paging
<1>4. P!kmalloc_physical_page => PP!kmalloc_physical_page
  BY <1>1, Same, SameWalk DEF P!kmalloc_physical_page, PP!kmalloc_physical_page,
    P!NoFreeFrame, PP!NoFreeFrame, P!alloc_frame, PP!alloc_frame, P!first_free_frame,
    PP!first_free_frame, P!set_frame, PP!set_frame, P!Fault, PP!Fault, P!ClearedPage, PP!ClearedPage
<1>5. P!NoFreeFrame = PP!NoFreeFrame
  BY Same DEF P!NoFreeFrame, PP!NoFreeFrame
<1>6. \A f : P!alloc_frame(f) = PP!alloc_frame(f)
  BY Same DEF P!alloc_frame, PP!alloc_frame, P!first_free_frame, PP!first_free_frame,
    P!set_frame, PP!set_frame
<1>7. \A v : P!flush_tlb_entry(v) = PP!flush_tlb_entry(v)
  BY DEF P!flush_tlb_entry, PP!flush_tlb_entry
<1>8. \A f : P!ClearedPage(f) = PP!ZeroPage /\ PP!ClearedPage(f) = PP!ZeroPage
  BY Same DEF P!ClearedPage, PP!ClearedPage
<1> QED
  BY <1>2, <1>3, <1>4, <1>5, <1>6, <1>7, <1>8

(* The script, in kernel_main, with paging on. *)
LEMMA InScript ==
  ASSUME KernelInv, pc = "kernel_main", UNCHANGED boot
  PROVE  /\ pg /\ pg' /\ tables = mem /\ root = cr3 /\ tables' = mem' /\ root' = cr3'
         /\ line \in 1 .. 93
<1>1. pg
  BY DEF KernelInv, BootInv, Paged
<1>2. pg'
  BY <1>1 DEF boot
<1> QED
  BY <1>1, <1>2 DEF tables, root, KernelInv, PagesInv

(* A call that keeps the boot code's variables. *)
LEMMA ScriptKeepsBoot ==
  ASSUME KernelInv, pc = "kernel_main", UNCHANGED boot, line' \in 1 .. 93,
         PP!PagingInv'
  PROVE  BootInv'
<1>1. pg /\ pg' /\ tables' = mem'
  BY InScript
<1>2. mem' \in [P!Frame -> [P!Index -> P!Entry]]
  BY <1>1, Same DEF PP!PagingInv, PP!TypeOK
<1> QED
  BY <1>1, <1>2 DEF KernelInv, BootInv, boot, Paged, SegmentsFlat

(* One more element. *)
LEMMA OneMore ==
  ASSUME NEW S, IsFiniteSet(S), NEW n \in Nat, Cardinality(S) <= n, NEW x
  PROVE  IsFiniteSet(S \cup {x}) /\ Cardinality(S \cup {x}) \in Nat /\ Cardinality(S \cup {x}) <= n + 1
<1>1. Cardinality(S) \in Nat
  BY FS_CardinalityType
<1>2. IsFiniteSet(S \cup {x}) /\ Cardinality(S \cup {x}) = IF x \in S THEN Cardinality(S)
                                                          ELSE Cardinality(S) + 1
  BY FS_AddElement
<1> QED
  BY <1>1, <1>2

(* The frames suffice for three pages and a table. *)
LEMMA FreeFrame ==
  ASSUME NEW a, NEW b, NEW c
  PROVE  \E f \in PP!Index \ PP!Reserved : f \notin {a, b, c}
<1> DEFINE S == PP!Index \ PP!Reserved
<1>1. Cardinality(S) >= 4
  BY KernelAssumption, Same
<1> HIDE DEF S
<1>2. SUFFICES ASSUME S \subseteq {a, b, c}  PROVE FALSE
  BY DEF S
<1>4. IsFiniteSet({a}) /\ Cardinality({a}) = 1
  BY FS_Singleton
<1>5. IsFiniteSet({a} \cup {b}) /\ Cardinality({a} \cup {b}) \in Nat /\ Cardinality({a} \cup {b}) <= 2
  <2> DEFINE T == {a}
  <2>1. IsFiniteSet(T) /\ Cardinality(T) <= 1
    BY <1>4
  <2> HIDE DEF T
  <2>2. IsFiniteSet(T \cup {b}) /\ Cardinality(T \cup {b}) \in Nat /\ Cardinality(T \cup {b}) <= 1 + 1
    BY <2>1, OneMore
  <2> QED
    BY <2>2 DEF T
<1>6. /\ IsFiniteSet(({a} \cup {b}) \cup {c}) /\ Cardinality(({a} \cup {b}) \cup {c}) \in Nat
      /\ Cardinality(({a} \cup {b}) \cup {c}) <= 3
  <2> DEFINE T == {a} \cup {b}
  <2>1. IsFiniteSet(T) /\ Cardinality(T) <= 2
    BY <1>5
  <2> HIDE DEF T
  <2>2. IsFiniteSet(T \cup {c}) /\ Cardinality(T \cup {c}) \in Nat /\ Cardinality(T \cup {c}) <= 2 + 1
    BY <2>1, OneMore
  <2> QED
    BY <2>2 DEF T
<1>7. ({a} \cup {b}) \cup {c} = {a, b, c}
  OBVIOUS
<1>8. Cardinality(S) <= Cardinality({a, b, c}) /\ IsFiniteSet(S)
  BY <1>2, <1>6, <1>7, FS_Subset
<1>9. Cardinality(S) \in Nat
  BY <1>8, FS_CardinalityType
<1> QED
  BY <1>1, <1>6, <1>7, <1>8, <1>9

-----------------------------------------------------------------------------
(* The calls of paging.c. *)

(* init_paging, on line 26. *)
LEMMA InitPagingCall ==
  ASSUME KernelInv, pc = "kernel_main", UNCHANGED boot, Call("init_paging"), P!init_paging,
         UNCHANGED <<pages, read_value>>
  PROVE  KernelInv' /\ PP!Next
<1>1. pc = "kernel_main" /\ line' = line + 1 /\ Program[line].routine = "init_paging"
  BY DEF Call
<1>2. /\ pg /\ pg' /\ tables = mem /\ root = cr3 /\ tables' = mem' /\ root' = cr3'
      /\ line \in 1 .. 93
  BY <1>1, InScript
<1>3. line = 26 /\ line' = 27
  <2>1. line = 26
    BY <1>1, <1>2, Lines, Zenon
  <2> QED
    BY <1>1, <2>1
<1>4. PP!init_paging
  BY <1>2, SameCalls
<1>5. PP!PagingInv' /\ held' = held /\ \A w \in ClientPages : PP!Walk(w)' = PP!Walk(w)
  BY <1>4, PP!StepInitPaging, Assumed DEF KernelInv
<1>6. cpu' = "running"
  BY <1>4 DEF PP!init_paging
<1>7. tables'[BootDirectory][test_virt_addr[1]] = tables[BootDirectory][test_virt_addr[1]]
  <2>1. PP!TypeOK /\ PP!BootTablesInv /\ PP!TlbCoherent
    BY DEF KernelInv, PP!PagingInv
  <2>2. root = BootDirectory /\ tables \in [PP!Frame -> [PP!Index -> PP!Entry]]
    BY <2>1 DEF PP!TypeOK, PP!BootTablesInv
  <2>3. PP!Deref(root) = BootDirectory
    BY <2>1, <2>2, PP!DerefWindow, PP!Layout, Assumed
  <2>4. tables' = [tables EXCEPT ![BootDirectory][PP!Recursive] = root]
    BY <1>4, <2>3 DEF PP!init_paging
  <2>5. BootDirectory \in PP!Frame /\ test_virt_addr[1] \in PP!Index
        /\ test_virt_addr[1] # PP!Recursive
    BY TestPage, PP!Layout, Assumed
  <2> QED
    BY <2>2, <2>4, <2>5
<1>8. PagesInv'
  BY <1>3, <1>5, <1>6 DEF KernelInv, PagesInv, Taken, Freed
<1>9. MappingInv'
  BY <1>3, <1>5, <1>7, TestPage DEF KernelInv, MappingInv
<1>10. BootInv'
  BY <1>1, <1>3, <1>5, ScriptKeepsBoot
<1>11. PP!Next
  BY <1>4 DEF PP!Next
<1> QED
  BY <1>5, <1>8, <1>9, <1>10, <1>11 DEF KernelInv

(* From then on the bitmap has the reserved frames, the pages held and the   *)
(* page table, if it is there; and while pages are taken there is a frame    *)
(* left in the window.                                                       *)
LEMMA Bitmap ==
  ASSUME KernelInv, line > 26
  PROVE  /\ cpu = "running"
         /\ used = PP!Reserved \cup held \cup PP!TableFrames
         /\ line <= 49 => PP!TableFrames = {}
         /\ line > 49 => PP!TableFrames = {tables[BootDirectory][test_virt_addr[1]]}
         /\ line <= 49 => \E f \in PP!Index : f \notin used
<1>1. cpu = "running"
  BY DEF KernelInv, PagesInv
<1>2. used = PP!Reserved \cup held \cup PP!TableFrames
  BY <1>1 DEF KernelInv, PP!PagingInv, PP!BitmapInv
<1>3. PP!TableFrames = {tables[BootDirectory][test_virt_addr[1]]} \ {NotPresent}
  BY TestPage DEF KernelInv, PP!PagingInv, PP!BootTablesInv, PP!TableFrames
<1>4. /\ line <= 49 => PP!TableFrames = {}
      /\ line > 49 => PP!TableFrames = {tables[BootDirectory][test_virt_addr[1]]}
  BY <1>3 DEF KernelInv, PagesInv, MappingInv
<1>5. ASSUME line <= 49  PROVE \E f \in PP!Index : f \notin used
  <2>1. held \subseteq {pages[1], pages[2], pages[3]}
    BY DEF KernelInv, PagesInv, Taken, Freed
  <2>2. PICK f \in PP!Index \ PP!Reserved : f \notin {pages[1], pages[2], pages[3]}
    BY FreeFrame
  <2> QED
    BY <1>2, <1>4, <1>5, <2>1, <2>2
<1> QED
  BY <1>1, <1>2, <1>4, <1>5

(* So the first free frame is in the window, and nobody's. *)
LEMMA FirstFree ==
  ASSUME KernelInv, line > 26, line <= 49, NEW f \in PP!Frame, PP!alloc_frame(f)
  PROVE  /\ f \in PP!Index \ (PP!Reserved \cup held) /\ f \in PP!Frame \ used /\ f # PP!NULL
         /\ PP!Deref(f) = f /\ used' = used \cup {f}
<1>1. f \in PP!Frame \ used /\ used' = used \cup {f}
  BY DEF PP!alloc_frame, PP!first_free_frame, PP!set_frame
<1>2. PICK g \in PP!Index : g \notin used
  BY Bitmap
<1>3. g \in PP!Frame /\ f <= g
  BY <1>2, PP!Layout, Assumed DEF PP!alloc_frame, PP!first_free_frame
<1>4. f \in PP!Index
  BY <1>1, <1>2, <1>3, Assumed DEF PP!Index, PP!Frame, PP!Sizes
<1>5. PP!Deref(f) = f
  BY <1>4, PP!DerefWindow, Assumed DEF KernelInv, PP!PagingInv
<1>6. f \notin PP!Reserved /\ f \notin held /\ f # PP!NULL
  BY <1>1, Bitmap, PP!FreeIsNobodys, Assumed DEF KernelInv
<1> QED
  BY <1>1, <1>4, <1>5, <1>6

(* kmalloc_physical_page, on lines 38, 40 and 42: a page of its own. *)
LEMMA KmallocCall ==
  ASSUME KernelInv, pc = "kernel_main", UNCHANGED boot, Call("kmalloc_physical_page"), P!kmalloc_physical_page,
         pages' = Append(pages, IF held' = held THEN P!NULL
                                ELSE CHOOSE f \in held' : f \notin held),
         UNCHANGED read_value
  PROVE  KernelInv' /\ PP!Next
<1>1. /\ pc = "kernel_main" /\ line' = line + 1
      /\ Program[line].routine = "kmalloc_physical_page"
  BY DEF Call
<1>2. /\ pg /\ pg' /\ tables = mem /\ root = cr3 /\ tables' = mem' /\ root' = cr3'
      /\ line \in 1 .. 93
  BY <1>1, InScript
<1>3. line \in {38, 40, 42}
  BY <1>1, <1>2, Lines, Zenon
<1>4. PP!kmalloc_physical_page
  BY <1>2, SameCalls
<1>5. PP!PagingInv' /\ \A w \in ClientPages : PP!Walk(w)' = PP!Walk(w)
  BY <1>4, PP!StepKmalloc, Assumed DEF KernelInv
<1>6. line > 26 /\ line <= 49
  BY <1>3
<1>7. PICK f \in PP!Frame :
        /\ PP!alloc_frame(f)
        /\ IF f = PP!NULL THEN UNCHANGED <<tables, tlb, held, cpu>>
           ELSE IF PP!Deref(f) = NotPresent THEN PP!Fault
           ELSE /\ tables' = [tables EXCEPT ![PP!Deref(f)] = PP!ClearedPage(f)]
                /\ held' = held \cup {f}
                /\ UNCHANGED <<tlb, cpu>>
  <2>1. ~PP!NoFreeFrame
    <3>1. PICK g \in PP!Index : g \notin used
      BY <1>6, Bitmap
    <3>2. g \in PP!Frame
      BY PP!Layout, Assumed
    <3> QED
      BY <3>1, <3>2 DEF PP!NoFreeFrame
  <2> QED
    BY <1>4, <2>1 DEF PP!kmalloc_physical_page
<1>8. /\ f \in PP!Index \ (PP!Reserved \cup held) /\ f # PP!NULL /\ PP!Deref(f) = f
  BY <1>6, <1>7, FirstFree
<1>9. /\ tables' = [tables EXCEPT ![f] = PP!ClearedPage(f)] /\ held' = held \cup {f}
      /\ UNCHANGED cpu
  <2>1. f # NotPresent
    BY PP!Layout, Assumed
  <2> QED
    BY <1>7, <1>8, <2>1
<1>10. pages' = Append(pages, f)
  <2>1. held' # held /\ (CHOOSE g \in held' : g \notin held) = f
    BY <1>8, <1>9
  <2> QED
    BY <2>1
<1>11. tables'[BootDirectory] = tables[BootDirectory]
  <2>1. f # BootDirectory /\ BootDirectory \in PP!Frame
    BY <1>8, PP!Layout, Assumed
  <2>2. tables \in [PP!Frame -> [PP!Index -> PP!Entry]]
    BY DEF KernelInv, PP!PagingInv, PP!TypeOK
  <2> QED
    BY <1>9, <2>1, <2>2
<1>12. PagesInv'
  <2>1. /\ pages \in Seq(P!Index \ P!Reserved) /\ Len(pages) = Taken /\ f \in P!Index \ P!Reserved
        /\ Taken \in 0 .. 2 /\ Taken' = Taken + 1 /\ Freed = 0 /\ Freed' = 0
        /\ held = {pages[i] : i \in 1 .. Taken}
        /\ \A i, j \in 1 .. Taken : i # j => pages[i] # pages[j]
        /\ cpu = "running"
    BY <1>1, <1>3, <1>8, Same DEF KernelInv, PagesInv, Taken, Freed
  <2>2. /\ pages' \in Seq(P!Index \ P!Reserved) /\ Len(pages') = Taken + 1
        /\ \A i \in 1 .. Taken : pages'[i] = pages[i]
        /\ pages'[Taken + 1] = f
    BY <1>10, <2>1
  <2>3. \A i \in 1 .. Taken : pages[i] # f
    BY <1>8, <2>1
  <2> DEFINE n == Taken
             q == pages'
  <2>4. n \in 0 .. 2
    BY <2>1
  <2>5. /\ \A i \in 1 .. n : q[i] = pages[i]
        /\ q[n + 1] = f
        /\ \A i \in 1 .. n : pages[i] # f
        /\ \A i, j \in 1 .. n : i # j => pages[i] # pages[j]
        /\ held = {pages[i] : i \in 1 .. n}
    BY <2>1, <2>2, <2>3
  <2> HIDE DEF n, q
  <2>6. \A i \in 1 .. (n + 1) : i \in 1 .. n \/ i = n + 1
    BY <2>4
  <2>7. 1 .. n \subseteq 1 .. (n + 1) /\ n + 1 \in 1 .. (n + 1)
    BY <2>4
  <2>8. held' = {q[i] : i \in 1 .. (n + 1)}
    <3>1. ASSUME NEW x \in held'  PROVE \E i \in 1 .. (n + 1) : q[i] = x
      BY <1>9, <2>5, <2>7
    <3>2. ASSUME NEW i \in 1 .. (n + 1)  PROVE q[i] \in held'
      BY <1>9, <2>5, <2>6
    <3> QED
      BY <3>1, <3>2
  <2>9. \A i, j \in 1 .. (n + 1) : i # j => q[i] # q[j]
    BY <2>5, <2>6
  <2>10. /\ line' \in 1 .. 93 /\ cpu' = "running" /\ ~(line' <= 26)
         /\ Taken' = n + 1 /\ Freed' + 1 = 1 /\ q = pages'
    BY <1>1, <1>3, <1>9, <2>1 DEF n, q
  <2>11. q \in Seq(P!Index \ P!Reserved) /\ Len(q) = n + 1
    BY <2>2 DEF n, q
  <2>12. /\ held' = {pages'[i] : i \in (Freed' + 1) .. Taken'}
         /\ \A i, j \in 1 .. Taken' : i # j => pages'[i] # pages'[j]
    <3>1. (Freed' + 1) .. Taken' = 1 .. (n + 1) /\ 1 .. Taken' = 1 .. (n + 1)
      BY <2>10
    <3> QED
      BY <2>8, <2>9, <3>1, Zenon DEF q
  <2> QED
    BY <2>10, <2>11, <2>12 DEF PagesInv
<1>13. MappingInv'
  <2>1. line' \in {39, 41, 43}
    BY <1>1, <1>3
  <2>2. line <= 49 /\ line' <= 49 /\ line' \notin 50 .. 65 /\ line \notin 50 .. 65
        /\ line' \notin 56 .. 57 /\ ~(line >= 58) /\ ~(line' >= 58)
    BY <1>3, <2>1
  <2>3. PP!Walk(test_virt_addr)' = PP!Walk(test_virt_addr)
    BY <1>5, TestPage
  <2> QED
    BY <1>11, <2>2, <2>3 DEF KernelInv, MappingInv
<1>14. BootInv'
  BY <1>1, <1>3, <1>5, ScriptKeepsBoot
<1>15. PP!Next
  BY <1>4 DEF PP!Next
<1> QED
  BY <1>5, <1>12, <1>13, <1>14, <1>15 DEF KernelInv

(* map_page_to_frame, on line 49: page 1, through a new page table. *)
LEMMA MapCall ==
  ASSUME KernelInv, pc = "kernel_main", UNCHANGED boot, Call("map_page_to_frame"),
         \/ P!MapInTable(test_virt_addr, pages[Arg])
         \/ P!MapInNewTable(test_virt_addr, pages[Arg])
         \/ P!MapWithoutMemory(test_virt_addr),
         UNCHANGED <<cr3, current, pages, read_value>>
  PROVE  KernelInv' /\ PP!Next
<1> DEFINE v == test_virt_addr
           f == pages[1]
<1>1. /\ pc = "kernel_main" /\ line' = line + 1
      /\ Program[line].routine = "map_page_to_frame"
  BY DEF Call
<1>2. /\ pg /\ pg' /\ tables = mem /\ root = cr3 /\ tables' = mem' /\ root' = cr3'
      /\ line \in 1 .. 93
  BY <1>1, InScript
<1>3. line = 49 /\ Arg = 1
  BY <1>1, <1>2, Lines, Zenon DEF Arg
<1>4. /\ cpu = "running" /\ v \in ClientPages /\ f \in held /\ f \in PP!Index
      /\ tables[BootDirectory][v[1]] = NotPresent /\ line > 26 /\ line <= 49
  <2>1. Taken = 3 /\ Freed = 0
    BY <1>3 DEF Taken, Freed
  <2>2. f \in held
    BY <2>1 DEF KernelInv, PagesInv
  <2> QED
    BY <1>3, <2>2, TestPage, Bitmap, PP!HeldIsNoTable, Assumed DEF KernelInv, MappingInv
<1> HIDE DEF v, f
<1>5. PP!PageDirectoryEntry(v) = NotPresent /\ P!PageDirectoryEntry(v) = NotPresent
  BY <1>2, <1>4, SameCalls, PP!GetPageTable, Assumed DEF KernelInv
<1>6. P!MapInNewTable(v, f)
  <2>1. ~P!NoFreeFrame
    <3>1. PICK g \in PP!Index : g \notin used
      BY <1>4, Bitmap
    <3>2. g \in PP!Frame
      BY PP!Layout, Assumed
    <3> QED
      BY <3>1, <3>2, Same DEF P!NoFreeFrame
  <2>2. ~P!MapInTable(v, pages[Arg])
    BY <1>5 DEF P!MapInTable
  <2>3. ~P!MapWithoutMemory(v)
    BY <2>1 DEF P!MapWithoutMemory
  <2> QED
    BY <1>3, <2>2, <2>3 DEF v, f
<1>7. PICK t \in P!Frame :
        /\ P!alloc_frame(t)
        /\ IF t = P!NULL THEN UNCHANGED <<mem, tlb, held, cpu>>
           ELSE IF P!Deref(t) = NotPresent THEN P!Fault
           ELSE /\ mem' = [mem EXCEPT ![P!Deref(t)] = [P!ClearedPage(t) EXCEPT ![v[2]] = f],
                                      ![P!Deref(current)][v[1]] = t]
                /\ P!flush_tlb_entry(v)
                /\ UNCHANGED <<held, cpu>>
  BY <1>6 DEF P!MapInNewTable
<1>8. /\ t \in PP!Frame /\ PP!alloc_frame(t) /\ t \in PP!Index /\ t # P!NULL
      /\ t \in PP!Frame \ used /\ P!Deref(t) = t /\ PP!Deref(t) = t /\ used' = used \cup {t}
      /\ t # NotPresent
  <2>1. t \in PP!Frame /\ PP!alloc_frame(t)
    BY <1>2, <1>7, Same, SameCalls
  <2> QED
    BY <1>2, <1>4, <2>1, FirstFree, Same, SameWalk, PP!Layout, Assumed
<1>9. /\ mem' = [mem EXCEPT ![P!Deref(t)] = [P!ClearedPage(t) EXCEPT ![v[2]] = f],
                            ![P!Deref(current)][v[1]] = t]
      /\ P!flush_tlb_entry(v) /\ UNCHANGED <<held, cpu>>
  BY <1>7, <1>8
<1>10. /\ tables' = [tables EXCEPT ![PP!Deref(t)] = [PP!ClearedPage(t) EXCEPT ![v[2]] = f],
                                  ![PP!Deref(current)][v[1]] = t]
       /\ PP!flush_tlb_entry(v) /\ UNCHANGED <<root, current, held, cpu>>
  <2>1. P!Deref(t) = PP!Deref(t) /\ P!Deref(current) = PP!Deref(current)
    BY <1>2, SameWalk
  <2>2. P!ClearedPage(t) = PP!ClearedPage(t) /\ (P!flush_tlb_entry(v) = PP!flush_tlb_entry(v))
    BY <1>2, SameCalls
  <2> QED
    BY <1>2, <1>9, <2>1, <2>2
<1>11. PP!PagingInv
  BY DEF KernelInv
<1>12. /\ tables' \in [PP!Frame -> [PP!Index -> PP!Entry]]
       /\ \A i \in PP!Index : tables'[t][i] = IF i = v[2] THEN f ELSE NotPresent
       /\ \A g \in PP!Frame : g # t /\ g # BootDirectory => tables'[g] = tables[g]
       /\ \A p \in PP!Index : tables'[BootDirectory][p] =
                                IF p = v[1] THEN t ELSE tables[BootDirectory][p]
  BY <1>11, <1>4, <1>8, <1>10, PP!NewTableContents, Assumed, Zenon
<1>13. PP!map_page_to_frame(v, f) /\ f \in PP!Frame
  <2>1. PP!MapInNewTable(v, f)
    BY <1>5, <1>8, <1>10, Same DEF PP!MapInNewTable
  <2> QED
    BY <1>4, <1>10, <2>1, PP!Layout, Assumed DEF PP!map_page_to_frame
<1>14. PP!PagingInv'
  BY <1>11, <1>4, <1>13, PP!StepMap, Assumed
<1>15. PP!Walk(v)' = f
  <2>1. root' = BootDirectory /\ v[1] \in PP!Index /\ v[2] \in PP!Index
    BY <1>11, <1>10, TestPage DEF PP!PagingInv, PP!BootTablesInv, v
  <2> QED
    BY <1>8, <1>12, <2>1 DEF PP!Walk
<1>16. line' = 50
  BY <1>1, <1>3
<1>17. PagesInv'
  BY <1>3, <1>10, <1>16 DEF KernelInv, PagesInv, Taken, Freed
<1>18. MappingInv'
  <2>1. tables'[BootDirectory][v[1]] = t
    BY <1>12, TestPage DEF v
  <2> QED
    BY <1>3, <1>8, <1>15, <1>16, <2>1 DEF KernelInv, MappingInv, v, f
<1>19. BootInv'
  BY <1>1, <1>14, <1>16, ScriptKeepsBoot
<1>20. PP!Next
  BY <1>4, <1>13 DEF PP!Next
<1> QED
  BY <1>14, <1>17, <1>18, <1>19, <1>20 DEF KernelInv

(* Between the map and the unmap, every access to the test's page reaches    *)
(* page 1, whatever the TLB holds.                                           *)
LEMMA Mapped ==
  ASSUME KernelInv, pc = "kernel_main", line \in 50 .. 65
  PROVE  /\ P!Translate(test_virt_addr) = pages[1] /\ PP!Translate(test_virt_addr) = pages[1]
         /\ pages[1] # NotPresent /\ pages[1] \in held /\ pages[1] \in PP!Frame
         /\ pages[1] # BootDirectory /\ pages[1] # 0
<1>1. pg
  BY DEF KernelInv, BootInv, Paged
<1>2. PP!Walk(test_virt_addr) = pages[1]
  BY DEF KernelInv, MappingInv
<1>3. PP!Translate(test_virt_addr) = PP!Walk(test_virt_addr)
  BY TestPage, PP!TranslateIsWalk, Assumed DEF KernelInv, PP!PagingInv
<1>4. pages[1] \in held
  <2>1. Taken = 3 /\ Freed = 0
    BY DEF Taken, Freed
  <2> QED
    BY <2>1 DEF KernelInv, PagesInv
<1>5. held \subseteq PP!Index \ PP!Reserved
  BY DEF KernelInv, PP!PagingInv, PP!ClientTablesInv
<1> QED
  BY <1>1, <1>2, <1>3, <1>4, <1>5, SameWalk, Same, PP!Layout, Assumed

(* The write, on line 55. *)
LEMMA WriteCall ==
  ASSUME KernelInv, pc = "kernel_main", UNCHANGED boot, Call("write"),
         IF P!Translate(test_virt_addr) = NotPresent THEN P!Fault
         ELSE /\ mem' = [mem EXCEPT ![P!Translate(test_virt_addr)] = P!JunkPage]
              /\ UNCHANGED <<tlb, held, cpu>>,
         UNCHANGED <<used, cr3, current, pages, read_value>>
  PROVE  KernelInv' /\ PP!Next
<1>1. pc = "kernel_main" /\ line' = line + 1 /\ Program[line].routine = "write"
  BY DEF Call
<1>2. /\ pg /\ pg' /\ tables = mem /\ root = cr3 /\ tables' = mem' /\ root' = cr3'
      /\ line \in 1 .. 93
  BY <1>1, InScript
<1>3. line = 55
  BY <1>1, <1>2, Lines, Zenon
<1>4. /\ P!Translate(test_virt_addr) = pages[1] /\ PP!Translate(test_virt_addr) = pages[1]
      /\ pages[1] # NotPresent /\ pages[1] \in held /\ pages[1] \in PP!Frame
      /\ pages[1] # BootDirectory /\ pages[1] # 0
  BY <1>1, <1>3, Mapped
<1>5. tables' = [tables EXCEPT ![pages[1]] = PP!JunkPage] /\ UNCHANGED <<tlb, held, cpu>>
  BY <1>2, <1>4, Same
<1>6. PP!ClientWrite(test_virt_addr)
  <2>1. cpu = "running"
    BY <1>3, Bitmap
  <2>2. PP!get_physical_address(test_virt_addr) # PP!NULL
    <3>1. PP!get_physical_address(test_virt_addr) = pages[1]
      BY <1>4, <2>1, TestPage, PP!LookupIsTranslate, Assumed DEF KernelInv
    <3> QED
      BY <1>4, <3>1, Same
  <2> QED
    BY <1>2, <1>4, <1>5, <2>1, <2>2 DEF PP!ClientWrite
<1>7. PP!PagingInv' /\ \A w \in ClientPages : PP!Walk(w)' = PP!Walk(w)
  BY <1>6, TestPage, PP!StepClientWrite, Assumed DEF KernelInv
<1>8. tables'[BootDirectory] = tables[BootDirectory] /\ tables'[pages[1]] = PP!JunkPage
  <2>1. tables \in [PP!Frame -> [PP!Index -> PP!Entry]] /\ BootDirectory \in PP!Frame
    BY PP!Layout, Assumed DEF KernelInv, PP!PagingInv, PP!TypeOK
  <2> QED
    BY <1>4, <1>5, <2>1
<1>9. line' = 56
  BY <1>1, <1>3
<1>10. PagesInv'
  BY <1>3, <1>5, <1>9 DEF KernelInv, PagesInv, Taken, Freed
<1>11. MappingInv'
  <2>1. PP!Walk(test_virt_addr)' = PP!Walk(test_virt_addr)
    BY <1>7, TestPage
  <2> QED
    BY <1>3, <1>8, <1>9, <2>1, Same DEF KernelInv, MappingInv
<1>12. BootInv'
  BY <1>1, <1>7, <1>9, ScriptKeepsBoot
<1>13. PP!Next
  BY <1>6, TestPage DEF PP!Next
<1> QED
  BY <1>7, <1>10, <1>11, <1>12, <1>13 DEF KernelInv

(* flush_tlb_entry, on line 56: no more than an eviction. *)
LEMMA FlushCall ==
  ASSUME KernelInv, pc = "kernel_main", UNCHANGED boot, Call("flush_tlb_entry"), P!flush_tlb_entry(test_virt_addr),
         UNCHANGED <<used, mem, cr3, current, held, cpu, pages, read_value>>
  PROVE  KernelInv' /\ [PP!Next]_(PP!vars)
<1>1. pc = "kernel_main" /\ line' = line + 1 /\ Program[line].routine = "flush_tlb_entry"
  BY DEF Call
<1>2. /\ pg /\ pg' /\ tables = mem /\ root = cr3 /\ tables' = mem' /\ root' = cr3'
      /\ line \in 1 .. 93
  BY <1>1, InScript
<1>3. line = 56
  BY <1>1, <1>2, Lines, Zenon
<1>4. [PP!Next]_(PP!vars)
  <2>1. tlb \in [PP!VPage -> PP!Entry]
    BY DEF KernelInv, PP!PagingInv, PP!TypeOK
  <2>2. CASE tlb[test_virt_addr] = NotPresent
    <3>1. tlb' = tlb
      BY <2>1, <2>2, TestPage DEF P!flush_tlb_entry
    <3> QED
      BY <1>2, <3>1 DEF PP!vars
  <2>3. CASE tlb[test_virt_addr] # NotPresent
    <3>1. cpu = "running"
      BY <1>3, Bitmap
    <3>2. PP!TlbEvict(test_virt_addr)
      BY <1>2, <2>3, <3>1 DEF PP!TlbEvict, P!flush_tlb_entry
    <3> QED
      BY <3>2, TestPage DEF PP!Next
  <2> QED
    BY <2>2, <2>3
<1>5. PP!PagingInv'
  BY <1>4, PP!StepPagingInv, Assumed DEF KernelInv
<1>6. line' = 57
  BY <1>1, <1>3
<1>7. PagesInv'
  BY <1>3, <1>6 DEF KernelInv, PagesInv, Taken, Freed
<1>8. MappingInv'
  <2>1. PP!Walk(test_virt_addr)' = PP!Walk(test_virt_addr)
    BY <1>2 DEF PP!Walk
  <2> QED
    BY <1>2, <1>3, <1>6, <2>1 DEF KernelInv, MappingInv
<1>9. BootInv'
  BY <1>1, <1>5, <1>6, ScriptKeepsBoot
<1> QED
  BY <1>4, <1>5, <1>7, <1>8, <1>9 DEF KernelInv

(* The read, on line 57: the pattern comes back. *)
LEMMA ReadCall ==
  ASSUME KernelInv, pc = "kernel_main", UNCHANGED boot, Call("read"),
         IF P!Translate(test_virt_addr) = NotPresent THEN P!Fault /\ UNCHANGED read_value
         ELSE /\ read_value' = IF mem[P!Translate(test_virt_addr)] = P!JunkPage
                               THEN "0xDEADBEEF" ELSE "other"
              /\ UNCHANGED <<mem, tlb, held, cpu>>,
         UNCHANGED <<used, cr3, current, pages>>
  PROVE  KernelInv' /\ UNCHANGED PP!vars
<1>1. pc = "kernel_main" /\ line' = line + 1 /\ Program[line].routine = "read"
  BY DEF Call
<1>2. /\ pg /\ pg' /\ tables = mem /\ root = cr3 /\ tables' = mem' /\ root' = cr3'
      /\ line \in 1 .. 93
  BY <1>1, InScript
<1>3. line = 57
  BY <1>1, <1>2, Lines, Zenon
<1>4. P!Translate(test_virt_addr) = pages[1] /\ pages[1] # NotPresent
  BY <1>1, <1>3, Mapped
<1>5. tables[pages[1]] = P!JunkPage
  BY <1>3 DEF KernelInv, MappingInv
<1>6. read_value' = "0xDEADBEEF" /\ UNCHANGED <<mem, tlb, held, cpu>>
  BY <1>2, <1>4, <1>5
<1>7. UNCHANGED PP!vars
  BY <1>2, <1>6 DEF PP!vars
<1>8. PP!PagingInv'
  BY <1>7, PP!StepPagingInv, Assumed DEF KernelInv
<1>9. line' = 58
  BY <1>1, <1>3
<1>10. PagesInv'
  BY <1>3, <1>6, <1>9 DEF KernelInv, PagesInv, Taken, Freed
<1>11. MappingInv'
  <2>1. PP!Walk(test_virt_addr)' = PP!Walk(test_virt_addr)
    BY <1>7 DEF PP!Walk, PP!vars
  <2> QED
    BY <1>2, <1>3, <1>6, <1>9, <2>1 DEF KernelInv, MappingInv
<1>12. BootInv'
  BY <1>1, <1>8, <1>9, ScriptKeepsBoot
<1> QED
  BY <1>7, <1>8, <1>10, <1>11, <1>12 DEF KernelInv

(* unmap_page, on line 65: the table stays, the mapping goes. *)
LEMMA UnmapCall ==
  ASSUME KernelInv, pc = "kernel_main", UNCHANGED boot, Call("unmap_page"), P!unmap_page(test_virt_addr),
         UNCHANGED <<pages, read_value>>
  PROVE  KernelInv' /\ PP!Next
<1> DEFINE v == test_virt_addr
           t == tables[BootDirectory][v[1]]
<1>1. pc = "kernel_main" /\ line' = line + 1 /\ Program[line].routine = "unmap_page"
  BY DEF Call
<1>2. /\ pg /\ pg' /\ tables = mem /\ root = cr3 /\ tables' = mem' /\ root' = cr3'
      /\ line \in 1 .. 93
  BY <1>1, InScript
<1>3. line = 65
  BY <1>1, <1>2, Lines, Zenon
<1>4. cpu = "running" /\ v \in ClientPages /\ t # NotPresent
  BY <1>3, TestPage, Bitmap DEF KernelInv, MappingInv
<1> HIDE DEF v
<1>5. /\ PP!PageDirectoryEntry(v) = t /\ t \in PP!Index \ PP!Reserved /\ PP!Deref(t) = t
      /\ P!PageDirectoryEntry(v) = t /\ P!Deref(t) = t
  <2>1. PP!PageDirectoryEntry(v) = t /\ t \in PP!Index \ PP!Reserved /\ PP!Deref(t) = t
    BY <1>4, PP!GetPageTable, Assumed DEF KernelInv
  <2> QED
    BY <1>2, <2>1, SameWalk, SameCalls
<1> HIDE DEF t
<1>6. /\ tables' = [tables EXCEPT ![t][v[2]] = NotPresent] /\ PP!flush_tlb_entry(v)
      /\ UNCHANGED <<used, root, current, held, cpu>>
  <2>1. P!flush_tlb_entry(v) = PP!flush_tlb_entry(v)
    BY <1>2, SameCalls
  <2> QED
    BY <1>2, <1>4, <1>5, <2>1 DEF P!unmap_page, v
<1>7. PP!unmap_page(v)
  BY <1>4, <1>5, <1>6 DEF PP!unmap_page
<1>8. PP!PagingInv' /\ held' = held
  BY <1>4, <1>7, PP!StepUnmap, Assumed DEF KernelInv
<1>9. tables'[BootDirectory] = tables[BootDirectory] /\ tables'[t][v[2]] = NotPresent
  <2>1. /\ tables \in [PP!Frame -> [PP!Index -> PP!Entry]] /\ BootDirectory \in PP!Frame
        /\ t \in PP!Frame /\ t # BootDirectory /\ v[2] \in PP!Index
    BY <1>4, <1>5, PP!Layout, Assumed DEF KernelInv, PP!PagingInv, PP!TypeOK
  <2> QED
    BY <1>6, <2>1
<1>10. PP!Walk(v)' = NotPresent
  <2>1. root' = BootDirectory
    BY <1>6 DEF KernelInv, PP!PagingInv, PP!BootTablesInv
  <2> QED
    BY <1>9, <2>1 DEF PP!Walk, t
<1>11. line' = 66
  BY <1>1, <1>3
<1>12. PagesInv'
  BY <1>3, <1>6, <1>11 DEF KernelInv, PagesInv, Taken, Freed
<1>13. MappingInv'
  BY <1>3, <1>9, <1>10, <1>11 DEF KernelInv, MappingInv, v
<1>14. BootInv'
  BY <1>1, <1>8, <1>11, ScriptKeepsBoot
<1>15. PP!Next
  BY <1>4, <1>7 DEF PP!Next
<1> QED
  BY <1>8, <1>12, <1>13, <1>14, <1>15 DEF KernelInv

(* kfree_physical_page, on lines 69, 71 and 73: pages 1, 2 and 3, which are  *)
(* mapped no more.                                                           *)
LEMMA KfreeCall ==
  ASSUME KernelInv, pc = "kernel_main", UNCHANGED boot, Call("kfree_physical_page"),
         IF pages[Arg] = P!NULL THEN UNCHANGED used ELSE P!free_frame(pages[Arg]),
         held' = held \ {pages[Arg]},
         UNCHANGED <<mem, cr3, current, tlb, cpu, pages, read_value>>
  PROVE  KernelInv' /\ PP!Next
<1> DEFINE n == Freed + 1
           f == pages[n]
<1>1. pc = "kernel_main" /\ line' = line + 1 /\ Program[line].routine = "kfree_physical_page"
  BY DEF Call
<1>2. /\ pg /\ pg' /\ tables = mem /\ root = cr3 /\ tables' = mem' /\ root' = cr3'
      /\ line \in 1 .. 93
  BY <1>1, InScript
<1>3. \/ line = 69 /\ Arg = 1
      \/ line = 71 /\ Arg = 2
      \/ line = 73 /\ Arg = 3
  BY <1>1, <1>2, Lines, Zenon DEF Arg
<1>4. /\ line \in {69, 71, 73} /\ line' \in {70, 72, 74} /\ Arg = n /\ n \in 1 .. 3
      /\ Taken = 3 /\ Taken' = 3 /\ Freed' = n
  BY <1>1, <1>3 DEF Taken, Freed
<1>5. /\ pages \in Seq(P!Index \ P!Reserved) /\ Len(pages) = 3
      /\ held = {pages[i] : i \in n .. 3}
      /\ \A i, j \in 1 .. 3 : i # j => pages[i] # pages[j]
  BY <1>4 DEF KernelInv, PagesInv
<1> HIDE DEF n
<1>6. /\ f \in held /\ f \in PP!Index \ PP!Reserved /\ f \in PP!Frame /\ f # PP!NULL /\ f # P!NULL
      /\ cpu = "running"
  <2>1. f \in held /\ f \in P!Index \ P!Reserved
    BY <1>4, <1>5
  <2> QED
    BY <1>4, <2>1, Same, Bitmap, PP!Layout, Assumed
<1>7. used' = used \ {f} /\ held' = held \ {f}
  BY <1>4, <1>6, Same DEF P!free_frame, P!clear_frame
<1>8. PP!Walk(test_virt_addr) = NotPresent
  BY <1>4 DEF KernelInv, MappingInv
<1>9. PP!kfree_physical_page(f)
  <2>1. \A v \in ClientPages : PP!Walk(v) # f
    BY <1>6, <1>8, TestPage, PP!Layout, Assumed
  <2>2. PP!free_frame(f)
    BY <1>6, <1>7 DEF PP!free_frame, PP!clear_frame
  <2> QED
    BY <1>2, <1>6, <1>7, <2>1, <2>2 DEF PP!kfree_physical_page
<1>10. PP!PagingInv'
  BY <1>6, <1>9, PP!StepKfree, Assumed DEF KernelInv
<1>11. PagesInv'
  <2>1. held' = {pages[i] : i \in (n + 1) .. 3}
    <3>1. n .. 3 = {n} \cup ((n + 1) .. 3) /\ n \notin (n + 1) .. 3
      BY <1>4
    <3>2. \A i \in (n + 1) .. 3 : pages[i] # f /\ i \in n .. 3
      BY <1>4, <1>5
    <3>3. ASSUME NEW x \in held'  PROVE \E i \in (n + 1) .. 3 : x = pages[i]
      BY <1>5, <1>7, <3>1
    <3>4. ASSUME NEW i \in (n + 1) .. 3  PROVE pages[i] \in held'
      BY <1>5, <1>7, <3>2
    <3> QED
      BY <3>3, <3>4
  <2>2. /\ line' \in 1 .. 93 /\ cpu' = "running" /\ ~(line' <= 26) /\ pages' = pages
    BY <1>4, <1>6
  <2>3. /\ (Freed' + 1) .. Taken' = (n + 1) .. 3 /\ 1 .. Taken' = 1 .. 3
    BY <1>4
  <2>4. held' = {pages'[i] : i \in (Freed' + 1) .. Taken'}
    BY <2>1, <2>2, <2>3, Zenon
  <2>5. \A i, j \in 1 .. Taken' : i # j => pages'[i] # pages'[j]
    BY <1>5, <2>2, <2>3, Zenon
  <2>6. pages' \in Seq(P!Index \ P!Reserved) /\ Len(pages') = Taken'
    BY <1>4, <1>5, <2>2
  <2> QED
    BY <2>2, <2>4, <2>5, <2>6 DEF PagesInv
<1>12. MappingInv'
  <2>1. PP!Walk(test_virt_addr)' = PP!Walk(test_virt_addr)
    BY <1>2 DEF PP!Walk
  <2>2. /\ ~(line <= 49) /\ ~(line' <= 49) /\ line' \notin 50 .. 65 /\ line \notin 50 .. 65
        /\ line' \notin 56 .. 57 /\ line >= 58 /\ line' >= 58
    BY <1>4
  <2> QED
    BY <1>2, <2>1, <2>2 DEF KernelInv, MappingInv
<1>13. BootInv'
  <2>1. line' \in 1 .. 93
    BY <1>4
  <2> QED
    BY <1>1, <1>10, <2>1, ScriptKeepsBoot
<1>14. PP!Next
  BY <1>6, <1>9 DEF PP!Next
<1> QED
  BY <1>10, <1>11, <1>12, <1>13, <1>14 DEF KernelInv

(* All of the calls of paging.c. *)
LEMMA PagingCalls ==
  ASSUME KernelInv, pc = "kernel_main", PagingCall
  PROVE  KernelInv' /\ [PP!Next]_(PP!vars)
<1>0. UNCHANGED boot
  BY DEF PagingCall
<1>1. CASE Call("init_paging") /\ P!init_paging /\ UNCHANGED <<pages, read_value>>
  BY <1>0, <1>1, InitPagingCall
<1>2. CASE /\ Call("kmalloc_physical_page") /\ P!kmalloc_physical_page
           /\ pages' = Append(pages, IF held' = held THEN P!NULL
                                     ELSE CHOOSE f \in held' : f \notin held)
           /\ UNCHANGED read_value
  BY <1>0, <1>2, KmallocCall
<1>3. CASE /\ Call("map_page_to_frame")
           /\ \/ P!MapInTable(test_virt_addr, pages[Arg])
              \/ P!MapInNewTable(test_virt_addr, pages[Arg])
              \/ P!MapWithoutMemory(test_virt_addr)
           /\ UNCHANGED <<cr3, current, pages, read_value>>
  BY <1>0, <1>3, MapCall
<1>4. CASE /\ Call("write")
           /\ IF P!Translate(test_virt_addr) = NotPresent THEN P!Fault
              ELSE /\ mem' = [mem EXCEPT ![P!Translate(test_virt_addr)] = P!JunkPage]
                   /\ UNCHANGED <<tlb, held, cpu>>
           /\ UNCHANGED <<used, cr3, current, pages, read_value>>
  BY <1>0, <1>4, WriteCall
<1>5. CASE /\ Call("flush_tlb_entry") /\ P!flush_tlb_entry(test_virt_addr)
           /\ UNCHANGED <<used, mem, cr3, current, held, cpu, pages, read_value>>
  BY <1>0, <1>5, FlushCall
<1>6. CASE /\ Call("read")
           /\ IF P!Translate(test_virt_addr) = NotPresent THEN P!Fault /\ UNCHANGED read_value
              ELSE /\ read_value' = IF mem[P!Translate(test_virt_addr)] = P!JunkPage
                                    THEN "0xDEADBEEF" ELSE "other"
                   /\ UNCHANGED <<mem, tlb, held, cpu>>
           /\ UNCHANGED <<used, cr3, current, pages>>
  BY <1>0, <1>6, ReadCall
<1>7. CASE Call("unmap_page") /\ P!unmap_page(test_virt_addr) /\ UNCHANGED <<pages, read_value>>
  BY <1>0, <1>7, UnmapCall
<1>8. CASE /\ Call("kfree_physical_page")
           /\ IF pages[Arg] = P!NULL THEN UNCHANGED used ELSE P!free_frame(pages[Arg])
           /\ held' = held \ {pages[Arg]}
           /\ UNCHANGED <<mem, cr3, current, tlb, cpu, pages, read_value>>
  BY <1>0, <1>8, KfreeCall
<1> QED
  BY <1>1, <1>2, <1>3, <1>4, <1>5, <1>6, <1>7, <1>8 DEF PagingCall

(* A step of the script is one of its calls: whatever paging.c has done, the *)
(* image, the stack and the screen are mapped.                               *)
LEMMA ScriptSteps ==
  ASSUME KernelInv, ScriptStep
  PROVE  pc = "kernel_main" /\ (ConsoleCall \/ PagingCall \/ Halt)
<1>1. pc = "kernel_main"
  BY DEF ScriptStep
<1>2. pg
  BY <1>1 DEF KernelInv, BootInv, Paged
<1>3. ScriptReaches
  <2>1. ASSUME NEW f \in KernelFrames \cup {VgaFrame}  PROVE Reaches("high", f)
    <3>1. f \in PP!Index
      BY Frames
    <3> QED
      BY <1>2, <3>1, AllReached
  <2> QED
    BY <2>1, Zenon DEF ScriptReaches
<1> QED
  BY <1>1, <1>3, Zenon DEF ScriptStep

(* KernelInv is inductive, and every step of the kernel is one that Paging   *)
(* allows its callers, or none of Paging's.                                  *)
LEMMA StepKernelInv ==
  ASSUME KernelInv, [Next]_vars
  PROVE  KernelInv' /\ [PP!Next]_(PP!vars)
<1>1. CASE BootStep /\ UNCHANGED <<console, main>>
  BY <1>1, BootSteps
<1>2. CASE pc = "kernel_main" /\ ConsoleCall
  BY <1>2, ConsoleCalls
<1>3. CASE pc = "kernel_main" /\ PagingCall
  BY <1>3, PagingCalls
<1>4. CASE pc = "kernel_main" /\ Halt
  BY <1>4, HaltStep
<1>5. CASE TlbStep /\ UNCHANGED <<console, main>>
  BY <1>5, TlbSteps
<1>6. CASE UNCHANGED vars
  <2>1. /\ UNCHANGED <<used, current, tlb, held, cpu, main>> /\ UNCHANGED <<mem, cr3, pg>>
        /\ UNCHANGED boot
    BY <1>6 DEF vars, paging, boot
  <2>2. BootInv'
    BY <2>1 DEF KernelInv, BootInv, boot, Paged, SegmentsFlat, main
  <2> QED
    BY <2>1, <2>2, BootStutters
<1> QED
  BY <1>1, <1>2, <1>3, <1>4, <1>5, <1>6, ScriptSteps DEF Next, CpuStep, Stopped

-----------------------------------------------------------------------------
(* The theorems. *)

(* From the loader's jump to the last hlt, the kernel stays in KernelInv. *)
THEOREM KernelInvariant == Spec => []KernelInv
<1> QED
  BY InitKernelInv, StepKernelInv, PTL DEF Spec

(* No access of boot.S, of validate_boot's walk or of kernel_main faults:    *)
(* the code that switches paging on is mapped where it runs, the walk does   *)
(* not leave the page that it is misdirected to, the image, the stack and    *)
(* the screen stay mapped, and test_memory_mapping never gets the NULL that  *)
(* it does not look for.                                                     *)
THEOREM KernelNeverFaults == Spec => []NoAccessFaults
<1>1. KernelInv => NoAccessFaults
  BY DEF KernelInv, PagesInv, NoAccessFaults
<1> QED
  BY <1>1, KernelInvariant, PTL

(* What gdt.c encodes is what the CPU decodes: flat segments from setup_gdt  *)
(* to the end.                                                               *)
THEOREM SegmentsStayFlat == Spec => []SegmentsFlat
<1>1. KernelInv => SegmentsFlat
  BY DEF KernelInv, BootInv
<1> QED
  BY <1>1, KernelInvariant, PTL

(* At the end only the page table that map_page_to_frame made is in use.     *)
THEOREM KernelCleansUp == Spec => []CleansUp
<1>1. ASSUME KernelInv, pc = "hlt"
      PROVE  /\ held = {}
             /\ P!Translate(test_virt_addr) = NotPresent
             /\ used = P!Reserved \cup P!TableFrames
             /\ Cardinality(P!TableFrames) = 1
  <2>1. pg /\ line = 93
    BY <1>1 DEF KernelInv, BootInv, Paged
  <2>2. held = {}
    <3>1. Taken = 3 /\ Freed = 3
      BY <2>1 DEF Taken, Freed
    <3> QED
      BY <1>1, <3>1 DEF KernelInv, PagesInv
  <2>3. PP!Translate(test_virt_addr) = NotPresent
    <3>1. PP!Walk(test_virt_addr) = NotPresent
      BY <1>1, <2>1 DEF KernelInv, MappingInv
    <3> QED
      BY <1>1, <3>1, TestPage, PP!TranslateIsWalk, Assumed DEF KernelInv, PP!PagingInv
  <2>4. P!TableFrames = PP!TableFrames
    BY <2>1, SameWalk, Same DEF P!TableFrames, PP!TableFrames
  <2>5. used = PP!Reserved \cup PP!TableFrames
    BY <1>1, <2>1, <2>2, Bitmap
  <2>6. PP!TableFrames = {tables[BootDirectory][test_virt_addr[1]]}
    BY <1>1, <2>1, Bitmap
  <2>7. Cardinality(PP!TableFrames) = 1
    BY <2>6, FS_Singleton
  <2> QED
    BY <2>1, <2>2, <2>3, <2>4, <2>5, <2>7, SameWalk, Same
<1>2. KernelInv => CleansUp
  BY <1>1 DEF CleansUp
<1> QED
  BY <1>2, KernelInvariant, PTL

(* Paging's actions are the same in both of its instances. *)
LEMMA SameActions == (PP!Next => Client!Next) /\ (PP!Init => Client!Init)
<1>1. /\ PP!Index = Client!Index /\ PP!Frame = Client!Frame /\ PP!VPage = Client!VPage
      /\ PP!NULL = Client!NULL /\ PP!Reserved = Client!Reserved
      /\ PP!ZeroPage = Client!ZeroPage /\ PP!JunkPage = Client!JunkPage
      /\ PP!EmptyTlb = Client!EmptyTlb /\ PP!BootMemory = Client!BootMemory
      /\ PP!Recursive = Client!Recursive
      /\ \A f : PP!P2V(f) = Client!P2V(f)
  BY DEF PP!Index, Client!Index, PP!Frame, Client!Frame, PP!VPage, Client!VPage, PP!NULL, Client!NULL,
         PP!Reserved, Client!Reserved, PP!ZeroPage, Client!ZeroPage, PP!JunkPage, Client!JunkPage,
         PP!EmptyTlb, Client!EmptyTlb, PP!BootMemory, Client!BootMemory, PP!P2V, Client!P2V,
         PP!Recursive, Client!Recursive
<1>2. \A v : PP!Walk(v) = Client!Walk(v)
  BY DEF PP!Walk, Client!Walk
<1>3. \A v : PP!Translate(v) = Client!Translate(v)
  BY <1>2 DEF PP!Translate, Client!Translate
<1>4. \A f : PP!Deref(f) = Client!Deref(f)
  BY <1>1, <1>3 DEF PP!Deref, Client!Deref
<1>5. \A v : PP!PageDirectoryEntry(v) = Client!PageDirectoryEntry(v)
  BY <1>4 DEF PP!PageDirectoryEntry, Client!PageDirectoryEntry
<1>6. /\ PP!NoFreeFrame = Client!NoFreeFrame
      /\ \A f : PP!alloc_frame(f) = Client!alloc_frame(f)
      /\ \A f : PP!free_frame(f) = Client!free_frame(f)
      /\ \A f : PP!ClearedPage(f) = Client!ClearedPage(f)
      /\ \A v : PP!flush_tlb_entry(v) = Client!flush_tlb_entry(v)
      /\ PP!Fault = Client!Fault
  BY <1>1 DEF PP!NoFreeFrame, Client!NoFreeFrame, PP!alloc_frame, Client!alloc_frame,
       PP!first_free_frame, Client!first_free_frame, PP!set_frame, Client!set_frame,
       PP!free_frame, Client!free_frame, PP!clear_frame, Client!clear_frame,
       PP!ClearedPage, Client!ClearedPage, PP!flush_tlb_entry, Client!flush_tlb_entry,
       PP!Fault, Client!Fault
<1>7. PP!init_paging => Client!init_paging
  BY <1>1, <1>4 DEF PP!init_paging, Client!init_paging
<1>8. PP!kmalloc_physical_page => Client!kmalloc_physical_page
  BY <1>1, <1>4, <1>6 DEF PP!kmalloc_physical_page, Client!kmalloc_physical_page
<1>9. \A f : PP!kfree_physical_page(f) => Client!kfree_physical_page(f)
  BY <1>1, <1>2, <1>6 DEF PP!kfree_physical_page, Client!kfree_physical_page
<1>10. ASSUME NEW v, NEW f, PP!map_page_to_frame(v, f)  PROVE Client!map_page_to_frame(v, f)
  <2>1. PP!MapInTable(v, f) => Client!MapInTable(v, f)
    BY <1>4, <1>5, <1>6 DEF PP!MapInTable, Client!MapInTable
  <2>2. PP!MapInNewTable(v, f) => Client!MapInNewTable(v, f)
    BY <1>1, <1>4, <1>5, <1>6 DEF PP!MapInNewTable, Client!MapInNewTable
  <2>3. PP!MapWithoutMemory(v) => Client!MapWithoutMemory(v)
    BY <1>5, <1>6 DEF PP!MapWithoutMemory, Client!MapWithoutMemory
  <2> QED
    BY <1>10, <2>1, <2>2, <2>3 DEF PP!map_page_to_frame, Client!map_page_to_frame
<1>11. \A v : PP!unmap_page(v) => Client!unmap_page(v)
  BY <1>4, <1>5, <1>6 DEF PP!unmap_page, Client!unmap_page
<1>12. \A v : PP!ClientWrite(v) => Client!ClientWrite(v)
  BY <1>1, <1>3, <1>4, <1>5, <1>6 DEF PP!ClientWrite, Client!ClientWrite,
     PP!get_physical_address, Client!get_physical_address
<1>13. \A d : PP!switch_page_directory(d) => Client!switch_page_directory(d)
  BY <1>1 DEF PP!switch_page_directory, Client!switch_page_directory
<1>14. ASSUME NEW v, PP!TlbFill(v)  PROVE Client!TlbFill(v)
  <2>1. PP!Cached = Client!Cached
    BY <1>1 DEF PP!Cached, Client!Cached
  <2>2. PP!Cardinality(PP!Cached) = Client!Cardinality(Client!Cached)
    BY <2>1, Zenon DEF PP!Cardinality, Client!Cardinality
  <2> QED
    BY <1>2, <1>14, <2>2 DEF PP!TlbFill, Client!TlbFill
<1>15. \A v : PP!TlbEvict(v) => Client!TlbEvict(v)
  BY DEF PP!TlbEvict, Client!TlbEvict
<1>16. PP!Next => Client!Next
  BY <1>1, <1>7, <1>8, <1>9, <1>10, <1>11, <1>12, <1>13, <1>14, <1>15 DEF PP!Next, Client!Next
<1>17. PP!Init => Client!Init
  BY <1>1 DEF PP!Init, Client!Init
<1> QED
  BY <1>16, <1>17

(* The kernel is one of the callers that Paging is about, on the tables that *)
(* boot.S makes: all of Paging's theorems are true of it.                    *)
THEOREM KernelImplementsPaging == Spec => ImplementsPaging
<1>1. KernelInit => Client!Init
  <2>1. ASSUME KernelInit  PROVE PP!Init
    <3>1. /\ used = {} /\ current = NotPresent /\ held = {} /\ cpu = "booted"
          /\ tlb = P!EmptyTlb /\ tables = P!BootMemory /\ root = BootDirectory
      BY <2>1 DEF KernelInit, Init, tables, root
    <3> QED
      BY <3>1, Same DEF PP!Init
  <2> QED
    BY <2>1, SameActions
<1>2. KernelInv /\ [Next]_vars => [Client!Next]_(Client!vars)
  <2> SUFFICES ASSUME KernelInv, [Next]_vars  PROVE [Client!Next]_(Client!vars)
    OBVIOUS
  <2>1. [PP!Next]_(PP!vars)
    BY StepKernelInv
  <2>2. UNCHANGED PP!vars => UNCHANGED Client!vars
    BY DEF PP!vars, Client!vars
  <2> QED
    BY <2>1, <2>2, SameActions
<1> QED
  BY <1>1, <1>2, KernelInvariant, PTL DEF Spec, ImplementsPaging, Client!Spec

-----------------------------------------------------------------------------
(* The console. *)

(* The texts that the script and debug.c's own lines can print. *)
Passed == "test passed"
Failed == "test failed"
Initialized == "initialized"
SerialOk == "serial ok"
SerialFailed == "serial failed"
DumpRow == "dump row"
Said ==
  {t \in {Program[i].arg : i \in 1 .. 93} \cup {Program[i].arg.text : i \in 1 .. 93}
           \cup {Passed, Failed, Initialized, SerialOk, SerialFailed, DumpRow} :
     IsText(t)}
Chars == Said \cup {"CR", "LF"}

(* A character's text, and its echo. *)
TextOf == [c \in Chars |-> TextOnly(c)]
EchoOf == [c \in Chars |-> C!CrLf(c)]

(* Both of Sequences' operators are the same. *)
LEMMA SameFlatten == \A s : C!FlattenSeq(s) = FlattenSeq(s)
BY Zenon DEF C!FlattenSeq, FlattenSeq

(* What the two make of a character. *)
LEMMA CharFacts ==
  /\ "CR" # "LF" /\ "CR" \notin Said /\ "LF" \notin Said
  /\ TextOf \in [Chars -> Seq(Said)] /\ EchoOf \in [Chars -> Seq(Chars)]
  /\ \A t \in Said : TextOf[t] = <<t>> /\ EchoOf[t] = <<t>>
  /\ TextOf["CR"] = <<>> /\ TextOf["LF"] = <<>>
  /\ EchoOf["CR"] = <<"CR">> /\ EchoOf["LF"] = <<"CR", "LF">>
<1>1. /\ "CR" # "LF" /\ ~IsText("CR") /\ ~IsText("LF")
  BY DEF IsText
<1>2. \A t \in Said : IsText(t)
  BY Zenon DEF Said
<1>3. "CR" \notin Said /\ "LF" \notin Said
  BY <1>1, <1>2
<1>4. \A t \in Said : t # "CR" /\ t # "LF" /\ t \in Chars
  BY <1>3 DEF Chars
<1>5. \A t \in Said : TextOf[t] = <<t>> /\ EchoOf[t] = <<t>>
  BY <1>2, <1>4 DEF TextOf, EchoOf, TextOnly, C!When, C!CrLf
<1>6. /\ TextOf["CR"] = <<>> /\ TextOf["LF"] = <<>>
      /\ EchoOf["CR"] = <<"CR">> /\ EchoOf["LF"] = <<"CR", "LF">>
  BY <1>1 DEF TextOf, EchoOf, TextOnly, C!When, C!CrLf, Chars
<1>7. ASSUME NEW c \in Chars  PROVE TextOf[c] \in Seq(Said) /\ EchoOf[c] \in Seq(Chars)
  <2>1. CASE c \in Said
    <3>1. TextOf[c] = <<c>> /\ EchoOf[c] = <<c>>
      BY <1>5, <2>1
    <3>2. <<c>> \in Seq(Said) /\ <<c>> \in Seq(Chars)
      BY <2>1
    <3> QED
      BY <3>1, <3>2
  <2>2. CASE c = "CR" \/ c = "LF"
    <3>1. <<"CR">> \in Seq(Chars) /\ <<"CR", "LF">> \in Seq(Chars) /\ <<>> \in Seq(Said)
      BY DEF Chars
    <3> QED
      BY <1>6, <2>2, <3>1, Zenon
  <2> QED
    BY <2>1, <2>2 DEF Chars
<1>8. TextOf \in [Chars -> Seq(Said)] /\ EchoOf \in [Chars -> Seq(Chars)]
  BY <1>7 DEF TextOf, EchoOf
<1> QED
  BY <1>1, <1>3, <1>5, <1>6, <1>8

(* FlatMap on short strings. *)
LEMMA ShortStrings ==
  ASSUME NEW V, NEW F \in [Chars -> Seq(V)], NEW a \in Chars, NEW b \in Chars, NEW c \in Chars
  PROVE  /\ FlatMap(F, <<>>) = <<>> /\ FlatMap(F, <<a>>) = F[a]
         /\ FlatMap(F, <<a, b>>) = F[a] \o F[b]
         /\ FlatMap(F, <<a, b, c>>) = (F[a] \o F[b]) \o F[c]
<1>1. PieceByPiece(Chars, V, F)
  BY FlatMapUnfolds
<1>2. /\ FlatMap(F, <<>>) = <<>>
      /\ \A s \in Seq(Chars) : \A e \in Chars : FlatMap(F, Append(s, e)) = FlatMap(F, s) \o F[e]
  BY <1>1 DEF PieceByPiece
<1>3. F[a] \in Seq(V)
  OBVIOUS
<1>4. FlatMap(F, <<a>>) = F[a]
  <2>1. <<>> \in Seq(Chars) /\ <<a>> = Append(<<>>, a) /\ <<>> \o F[a] = F[a]
    BY <1>3
  <2>2. FlatMap(F, Append(<<>>, a)) = FlatMap(F, <<>>) \o F[a]
    BY <1>2, <2>1
  <2> QED
    BY <1>2, <2>1, <2>2
<1>5. FlatMap(F, <<a, b>>) = F[a] \o F[b]
  <2>1. <<a>> \in Seq(Chars) /\ <<a, b>> = Append(<<a>>, b)
    OBVIOUS
  <2> QED
    BY <1>2, <1>4, <2>1
<1>6. FlatMap(F, <<a, b, c>>) = (F[a] \o F[b]) \o F[c]
  <2>1. <<a, b>> \in Seq(Chars) /\ <<a, b, c>> = Append(<<a, b>>, c)
    OBVIOUS
  <2> QED
    BY <1>2, <1>5, <2>1
<1> QED
  BY <1>2, <1>4, <1>5, <1>6

(* A line of debug.c with one text. *)
LEMMA LineOf ==
  ASSUME NEW t
  PROVE  C!DebugLine(<<t>>) = <<t, "CR", "LF">>
<1> DEFINE V == {t, "CR", "LF"}
           l == <<t>> \o <<"CR", "LF">>
           m == <<t, "CR", "LF">>
<1>1. <<t>> \in Seq(V) /\ <<"CR", "LF">> \in Seq(V) /\ m \in Seq(V)
  OBVIOUS
<1>2. Len(<<t>>) = 1 /\ Len(<<"CR", "LF">>) = 2 /\ Len(m) = 3
  OBVIOUS
<1> HIDE DEF V
<1>3. /\ l \in Seq(V) /\ Len(l) = 3
      /\ \A i \in 1 .. 3 : l[i] = IF i <= 1 THEN <<t>>[i] ELSE <<"CR", "LF">>[i - 1]
  BY <1>1, <1>2, ConcatProperties
<1> HIDE DEF l
<1>4. \A i \in 1 .. 3 : l[i] = m[i]
  <2>1. ASSUME NEW i \in 1 .. 3  PROVE l[i] = m[i]
    <3>1. CASE i = 1
      BY <1>3, <3>1
    <3>2. CASE i = 2
      BY <1>3, <3>2
    <3>3. CASE i = 3
      BY <1>3, <3>3
    <3> QED
      BY <3>1, <3>2, <3>3
  <2> QED
    BY <2>1
<1> HIDE DEF m
<1>5. l = m
  BY <1>1, <1>2, <1>3, <1>4, SeqEqual
<1> QED
  BY <1>5 DEF C!DebugLine, l, m

(* A line's text is the text. *)
LEMMA LineTexts ==
  /\ FlatMap(TextOf, <<>>) = <<>> /\ FlatMap(EchoOf, <<>>) = <<>>
  /\ \A t \in Said : /\ <<t, "CR", "LF">> \in Seq(Chars) /\ <<t, "LF">> \in Seq(Chars)
                     /\ FlatMap(TextOf, <<t, "CR", "LF">>) = <<t>>
                     /\ FlatMap(TextOf, <<t, "LF">>) = <<t>>
<1>1. "CR" \in Chars /\ "LF" \in Chars /\ \A t \in Said : t \in Chars
  BY DEF Chars
<1>2. FlatMap(TextOf, <<>>) = <<>> /\ FlatMap(EchoOf, <<>>) = <<>>
  BY <1>1, ShortStrings, CharFacts
<1>3. ASSUME NEW t \in Said
      PROVE  /\ <<t, "CR", "LF">> \in Seq(Chars) /\ <<t, "LF">> \in Seq(Chars)
             /\ FlatMap(TextOf, <<t, "CR", "LF">>) = <<t>>
             /\ FlatMap(TextOf, <<t, "LF">>) = <<t>>
  <2>1. /\ FlatMap(TextOf, <<t, "CR", "LF">>) = (TextOf[t] \o TextOf["CR"]) \o TextOf["LF"]
        /\ FlatMap(TextOf, <<t, "LF">>) = TextOf[t] \o TextOf["LF"]
    <3>1. t \in Chars /\ TextOf \in [Chars -> Seq(Said)]
      BY <1>1, CharFacts
    <3> QED
      BY <1>1, <3>1, ShortStrings, ZenonT(40)
  <2>2. TextOf[t] = <<t>> /\ TextOf["CR"] = <<>> /\ TextOf["LF"] = <<>>
    BY CharFacts
  <2>3. <<t>> \o <<>> = <<t>>
    OBVIOUS
  <2>4. <<t, "CR", "LF">> \in Seq(Chars) /\ <<t, "LF">> \in Seq(Chars)
    BY <1>1
  <2> QED
    BY <2>1, <2>2, <2>3, <2>4, Zenon
<1> QED
  BY <1>2, <1>3

(* The echo adds carriage returns, and no text. *)
LEMMA EchoKeepsText ==
  \A s \in Seq(Chars) : /\ FlatMap(TextOf, s) \in Seq(Said) /\ FlatMap(EchoOf, s) \in Seq(Chars)
                        /\ FlatMap(TextOf, FlatMap(EchoOf, s)) = FlatMap(TextOf, s)
<1>1. \A c \in Chars : TextOf[c] = FlatMap(TextOf, EchoOf[c])
  <2>1. ASSUME NEW c \in Chars  PROVE TextOf[c] = FlatMap(TextOf, EchoOf[c])
    <3>1. FlatMap(TextOf, <<c>>) = TextOf[c]
      BY ShortStrings, CharFacts
    <3>2. CASE c # "LF"
      BY <3>1, <3>2, CharFacts DEF Chars
    <3>3. CASE c = "LF"
      <4>1. "CR" \in Chars /\ "LF" \in Chars
        BY DEF Chars
      <4>2. FlatMap(TextOf, <<"CR", "LF">>) = TextOf["CR"] \o TextOf["LF"]
        BY <4>1, ShortStrings, CharFacts
      <4>3. <<>> \o <<>> = <<>>
        OBVIOUS
      <4> QED
        BY <3>3, <4>2, <4>3, CharFacts, Zenon
    <3> QED
      BY <3>2, <3>3
  <2> QED
    BY <2>1, Zenon
<1>2. Composes(Chars, Said, TextOf)
  BY FlatMapCompose, CharFacts
<1>3. \A s \in Seq(Chars) : FlatMap(TextOf, s) = FlatMap(TextOf, FlatMap(EchoOf, s))
  <2>1. EchoOf \in [Chars -> Seq(Chars)] /\ TextOf \in [Chars -> Seq(Said)]
    BY CharFacts
  <2> QED
    BY <1>1, <1>2, <2>1, Zenon DEF Composes
<1>4. PieceByPiece(Chars, Said, TextOf) /\ PieceByPiece(Chars, Chars, EchoOf)
  BY FlatMapUnfolds, CharFacts
<1> QED
  BY <1>3, <1>4 DEF PieceByPiece

(* The console's operators as FlatMaps. *)
LEMMA TextsAsFlatMap ==
  ASSUME NEW s \in Seq(Chars)
  PROVE  C!ForEach(TextOnly, s) = FlatMap(TextOf, s)
<1>1. \A i \in DOMAIN s : s[i] \in Chars
  OBVIOUS
<1>2. \A i \in DOMAIN s : TextOf[s[i]] = TextOnly(s[i])
  BY <1>1 DEF TextOf
<1>3. [i \in DOMAIN s |-> TextOnly(s[i])] = [i \in DOMAIN s |-> TextOf[s[i]]]
  BY <1>2
<1> QED
  BY <1>3, SameFlatten, Zenon DEF FlatMap, C!ForEach

(* With the echo on, terminal_write and printf's print are the echo. *)
LEMMA EchoesAsFlatMap ==
  ASSUME NEW s \in Seq(Chars), terminal_serial_output
  PROVE  C!terminal_write(s) = FlatMap(EchoOf, s) /\ C!ForEach(C!print, s) = FlatMap(EchoOf, s)
<1>1. ASSUME NEW c \in Chars
      PROVE  EchoOf[c] = C!terminal_putchar(c) /\ EchoOf[c] = C!print(c)
  <2>1. EchoOf[c] = C!CrLf(c) /\ EchoOf[c] \in Seq(Chars)
    BY CharFacts DEF EchoOf
  <2>2. EchoOf[c] \o <<>> = EchoOf[c]
    BY <2>1
  <2>3. EchoOf[c] = C!terminal_putchar(c)
    BY <2>1 DEF C!terminal_putchar, C!When
  <2>4. C!print(c) = (EchoOf[c] \o <<>>) \o <<>>
    BY <2>3 DEF C!print, C!putchar_bytes, C!When
  <2> QED
    BY <2>2, <2>3, <2>4
<1>2. \A i \in DOMAIN s : s[i] \in Chars
  OBVIOUS
<1>3. /\ [i \in DOMAIN s |-> C!terminal_putchar(s[i])] = [i \in DOMAIN s |-> EchoOf[s[i]]]
      /\ [i \in DOMAIN s |-> C!print(s[i])] = [i \in DOMAIN s |-> EchoOf[s[i]]]
  BY <1>1, <1>2
<1> QED
  BY <1>3, SameFlatten, Zenon DEF FlatMap, C!ForEach, C!terminal_write

(* On which lines the console's routines are called, and with what. *)
LEMMA Outputs ==
  ASSUME NEW i \in 1 .. 93
  PROVE  /\ Program[i].routine = "terminal_enable_serial" => i = 2 /\ Program[i] = EchoOn
         /\ Program[i].routine = "printf_enable_serial" => i = 3
         /\ Program[i].routine = "putchar_enable_serial" => i = 4
         /\ Program[i].routine = "debug_set_level" => i = 5 /\ Program[i].arg = C!DEBUG
         /\ Program[i].routine = "debug_set_target" =>
              i \in {6, 84, 86, 88} /\ (i = 6 => Program[i].arg = C!Devices)
         /\ Program[i].routine = "debug_log" => i \notin Special /\ IsText(Program[i].arg.text)
         /\ Program[i].routine = "printf" => i \notin Special /\ IsText(Program[i].arg)
         /\ Program[i].routine = "debug_hex_dump" =>
              i = 82 /\ Program[i].arg = [row \in 1 .. 8 |-> "dump row"]
<1> DEFINE c == Program[i]
           r == c.routine
           a == c.arg
           Dump == [row \in 1 .. 8 |-> "dump row"]
<1>1. Scripted(i, c)
  <2>1. \A j \in 1 .. 93 : Scripted(0 + j, Program[j])
    BY Script, Zenon DEF Fits
  <2>2. 0 + i = i
    OBVIOUS
  <2> QED
    BY <2>1, <2>2, Zenon DEF c
<1>2. /\ EchoOn.routine = "terminal_enable_serial"
      /\ PrintfOff.routine = "printf_enable_serial"
      /\ PutcharOff.routine = "putchar_enable_serial"
  BY Zenon DEF EchoOn, PrintfOff, PutcharOff, Do
<1> HIDE DEF c
<1>3. /\ i = 1 => r = "debug_init"
      /\ i = 2 => r = "terminal_enable_serial" /\ c = EchoOn
      /\ i = 3 => r = "printf_enable_serial"
      /\ i = 4 => r = "putchar_enable_serial"
      /\ i = 5 => r = "debug_set_level" /\ a = C!DEBUG
      /\ i \in {6, 88} => r = "debug_set_target" /\ a = C!Devices
      /\ i = 84 => r = "debug_set_target"
      /\ i = 86 => r = "debug_set_target"
      /\ i = 82 => r = "debug_hex_dump" /\ a = Dump
  <2>1. /\ i = 2 => c = EchoOn
        /\ i = 3 => c = PrintfOff
        /\ i = 4 => c = PutcharOff
    BY <1>1, Zenon DEF Scripted
  <2>2. /\ i = 2 => r = "terminal_enable_serial"
        /\ i = 3 => r = "printf_enable_serial"
        /\ i = 4 => r = "putchar_enable_serial"
    BY <1>2, <2>1, Zenon
  <2>3. /\ i = 1 => r = "debug_init"
        /\ i = 5 => r = "debug_set_level" /\ a = C!DEBUG
        /\ i \in {6, 88} => r = "debug_set_target" /\ a = C!Devices
    BY <1>1, Zenon DEF Scripted
  <2>4. /\ i = 82 => r = "debug_hex_dump" /\ a = Dump
        /\ i = 84 => r = "debug_set_target"
        /\ i = 86 => r = "debug_set_target"
    BY <1>1, Zenon DEF Scripted
  <2> QED
    BY <2>1, <2>2, <2>3, <2>4, Zenon
<1>4. /\ i = 26 => r = "init_paging"
      /\ i \in {38, 40, 42} => r = "kmalloc_physical_page"
      /\ i = 49 => r = "map_page_to_frame"
      /\ i = 55 => r = "write"
      /\ i = 56 => r = "flush_tlb_entry"
      /\ i = 57 => r = "read"
      /\ i = 59 => r = "report"
      /\ i = 65 => r = "unmap_page"
      /\ i = 69 => r = "kfree_physical_page"
      /\ i = 71 => r = "kfree_physical_page"
      /\ i = 73 => r = "kfree_physical_page"
      /\ i = 93 => r = "hlt"
  BY <1>1, Zenon DEF Scripted
<1>5. i \notin Special =>
        \/ r = "printf" /\ IsText(a)
        \/ r = "debug_log" /\ IsText(a.text)
  <2>1. i \notin Special => IsSpeech(c)
    BY <1>1, Zenon DEF Scripted
  <2> QED
    BY <2>1, Zenon DEF IsSpeech
<1> HIDE DEF r, a, Dump
<1>6. /\ r = "terminal_enable_serial" => i = 2 /\ c = EchoOn
      /\ r = "printf_enable_serial" => i = 3
      /\ r = "putchar_enable_serial" => i = 4
      /\ r = "debug_set_level" => i = 5 /\ a = C!DEBUG
      /\ r = "debug_set_target" => i \in {6, 84, 86, 88} /\ (i = 6 => a = C!Devices)
      /\ r = "debug_log" => i \notin Special /\ IsText(a.text)
      /\ r = "printf" => i \notin Special /\ IsText(a)
      /\ r = "debug_hex_dump" => i = 82 /\ a = Dump
  <2>1. CASE i \notin Special
    BY <1>5, <2>1
  <2>2. CASE i \in {1, 2, 3, 4, 5, 6, 82, 84, 86, 88}
    BY <1>3, <2>2
  <2>3. CASE i \in {26, 38, 40, 42, 49, 55, 56, 57, 59, 65, 69, 71, 73, 93}
    BY <1>4, <2>3
  <2>4. i \in Special =>
          \/ i \in {1, 2, 3, 4, 5, 6, 82, 84, 86, 88}
          \/ i \in {26, 38, 40, 42, 49, 55, 56, 57, 59, 65, 69, 71, 73, 93}
    BY DEF Special
  <2> QED
    BY <2>1, <2>2, <2>3, <2>4, Zenon
<1> QED
  BY <1>6, Zenon DEF r, a, c, Dump

-----------------------------------------------------------------------------
(* The screen and the log: both get the same texts once the terminal echoes. *)

(* The log has the screen's texts, but for two if there is no port. *)
Mirrors(screen, log, ok) ==
  IF ok THEN log = screen
  ELSE \E first \in Seq(Said) : Len(first) = 2 /\ screen = first \o log

Shows(text) == \E i \in 1 .. Len(shown[C!VGA]) : shown[C!VGA][i] = text

ShownInv ==
  /\ shown \in [C!Devices -> Seq(Said)]
  /\ line <= 2 => terminal_serial_output = FALSE
  /\ line >= 3 => terminal_serial_output = TRUE
  /\ line = 1 => shown = C!Silence
  /\ line >= 2 => Mirrors(shown[C!VGA], shown[C!SERIAL], serial_ok)
  /\ line >= 6 => debug_level = C!DEBUG
  /\ line \in 7 .. 84 => debug_target = C!Devices
  /\ line >= 60 => Shows(Passed)

(* What a call shows on the devices. *)
LEMMA CallShows ==
  ASSUME ShownInv, NEW o \in Seq(Chars), NEW p \in Seq(Chars),
         out'[C!VGA] = o, out'[C!SERIAL] = p,
         shown' = [d \in C!Devices |-> shown[d] \o C!ForEach(TextOnly, out'[d])]
  PROVE  /\ shown' \in [C!Devices -> Seq(Said)]
         /\ shown'[C!VGA] = shown[C!VGA] \o FlatMap(TextOf, o)
         /\ shown'[C!SERIAL] = shown[C!SERIAL] \o FlatMap(TextOf, p)
         /\ FlatMap(TextOf, o) \in Seq(Said) /\ FlatMap(TextOf, p) \in Seq(Said)
<1>1. C!Devices = {C!VGA, C!SERIAL}
  BY DEF C!Devices
<1>2. /\ C!ForEach(TextOnly, out'[C!VGA]) = FlatMap(TextOf, o)
      /\ C!ForEach(TextOnly, out'[C!SERIAL]) = FlatMap(TextOf, p)
  BY TextsAsFlatMap, Zenon
<1>3. FlatMap(TextOf, o) \in Seq(Said) /\ FlatMap(TextOf, p) \in Seq(Said)
  BY EchoKeepsText, Zenon
<1>4. /\ shown'[C!VGA] = shown[C!VGA] \o FlatMap(TextOf, o)
      /\ shown'[C!SERIAL] = shown[C!SERIAL] \o FlatMap(TextOf, p)
  <2>1. C!VGA \in C!Devices /\ C!SERIAL \in C!Devices
    BY <1>1
  <2>2. /\ shown'[C!VGA] = shown[C!VGA] \o C!ForEach(TextOnly, out'[C!VGA])
        /\ shown'[C!SERIAL] = shown[C!SERIAL] \o C!ForEach(TextOnly, out'[C!SERIAL])
    BY <2>1, Zenon
  <2> QED
    BY <1>2, <2>2, Zenon
<1>5. shown[C!VGA] \in Seq(Said) /\ shown[C!SERIAL] \in Seq(Said)
  BY <1>1 DEF ShownInv
<1>6. /\ shown[C!VGA] \o FlatMap(TextOf, o) \in Seq(Said)
      /\ shown[C!SERIAL] \o FlatMap(TextOf, p) \in Seq(Said)
  BY <1>3, <1>5, ConcatProperties
<1>7. shown' \in [C!Devices -> Seq(Said)]
  <2>1. \A d \in C!Devices : shown'[d] \in Seq(Said)
    BY <1>1, <1>4, <1>6
  <2>2. shown' = [d \in C!Devices |-> shown'[d]]
    OBVIOUS
  <2> QED
    BY <2>1, <2>2
<1> QED
  BY <1>3, <1>4, <1>7, Zenon

(* The same text after both keeps the mirror. *)
LEMMA MirrorGrows ==
  ASSUME NEW s \in Seq(Said), NEW l \in Seq(Said), NEW t \in Seq(Said), NEW ok, Mirrors(s, l, ok)
  PROVE  Mirrors(s \o t, l \o t, ok)
<1>1. CASE ok
  BY <1>1 DEF Mirrors
<1>2. CASE ~ok
  <2>1. PICK first \in Seq(Said) : Len(first) = 2 /\ s = first \o l
    BY <1>2 DEF Mirrors
  <2>2. s \o t = first \o (l \o t)
    BY <2>1, ConcatAssociative
  <2> QED
    BY <1>2, <2>1, <2>2 DEF Mirrors
<1> QED
  BY <1>1, <1>2

(* Any call after line 2 that writes to the echoing terminal. *)
LEMMA EchoedCall ==
  ASSUME ShownInv, line \in 3 .. 92, line' = line + 1, NEW o \in Seq(Chars),
         out'[C!VGA] = o, out'[C!SERIAL] = FlatMap(EchoOf, o),
         shown' = [d \in C!Devices |-> shown[d] \o C!ForEach(TextOnly, out'[d])],
         UNCHANGED <<terminal_serial_output, serial_ok>>,
         line + 1 >= 6 => debug_level' = C!DEBUG,
         line + 1 \in 7 .. 84 => debug_target' = C!Devices,
         line = 59 => FlatMap(TextOf, o) = <<Passed>>
  PROVE  ShownInv'
<1> DEFINE t == FlatMap(TextOf, o)
<1>1. FlatMap(EchoOf, o) \in Seq(Chars) /\ FlatMap(TextOf, FlatMap(EchoOf, o)) = t
  BY EchoKeepsText, Zenon
<1>2. /\ shown' \in [C!Devices -> Seq(Said)] /\ t \in Seq(Said)
      /\ shown'[C!VGA] = shown[C!VGA] \o t
      /\ shown'[C!SERIAL] = shown[C!SERIAL] \o t
  BY <1>1, CallShows
<1> HIDE DEF t
<1>3. shown[C!VGA] \in Seq(Said) /\ shown[C!SERIAL] \in Seq(Said)
  BY DEF ShownInv, C!Devices
<1>4. Mirrors(shown'[C!VGA], shown'[C!SERIAL], serial_ok')
  <2>1. Mirrors(shown[C!VGA], shown[C!SERIAL], serial_ok)
    BY DEF ShownInv
  <2>2. Mirrors(shown[C!VGA] \o t, shown[C!SERIAL] \o t, serial_ok)
    BY <1>2, <1>3, <2>1, MirrorGrows
  <2> QED
    BY <1>2, <2>2, Zenon
<1>5. line + 1 >= 60 => Shows(Passed)'
  <2> SUFFICES ASSUME line + 1 >= 60  PROVE Shows(Passed)'
    OBVIOUS
  <2> DEFINE s == shown[C!VGA]
             q == shown'[C!VGA]
  <2>1. /\ q = s \o t /\ Len(q) = Len(s) + Len(t) /\ Len(s) \in Nat /\ Len(t) \in Nat
        /\ \A i \in 1 .. Len(q) : q[i] = IF i <= Len(s) THEN s[i] ELSE t[i - Len(s)]
    <3>1. s \in Seq(Said) /\ t \in Seq(Said) /\ q = s \o t
      BY <1>2, <1>3, Zenon DEF s, q
    <3> HIDE DEF s, q
    <3>2. Len(s \o t) = Len(s) + Len(t) /\ Len(s) \in Nat /\ Len(t) \in Nat
      BY <3>1, ConcatProperties
    <3>3. \A i \in 1 .. (Len(s) + Len(t)) : (s \o t)[i] = IF i <= Len(s) THEN s[i] ELSE t[i - Len(s)]
      BY <3>1, ConcatProperties
    <3> QED
      BY <3>1, <3>2, <3>3
  <2> HIDE DEF s, q
  <2>2. \E i \in 1 .. Len(q) : q[i] = Passed
    <3>1. CASE line = 59
      <4>1. t = <<Passed>> /\ Len(t) = 1 /\ t[1] = Passed
        BY <3>1 DEF t
      <4>2. Len(s) + 1 \in 1 .. Len(q) /\ ~(Len(s) + 1 <= Len(s)) /\ (Len(s) + 1) - Len(s) = 1
        BY <2>1, <4>1
      <4>3. q[Len(s) + 1] = t[1]
        BY <2>1, <4>2
      <4> QED
        BY <4>1, <4>2, <4>3
    <3>2. CASE line # 59
      <4>1. PICK i \in 1 .. Len(s) : s[i] = Passed
        BY <3>2 DEF ShownInv, Shows, s
      <4>2. i \in 1 .. Len(q) /\ i <= Len(s)
        BY <2>1
      <4>3. q[i] = s[i]
        BY <2>1, <4>2
      <4> QED
        BY <4>1, <4>2, <4>3
    <3> QED
      BY <3>1, <3>2
  <2> QED
    BY <2>2 DEF Shows, q
<1>6. line' >= 3 /\ ~(line' <= 2) /\ line' # 1 /\ line' >= 2 /\ terminal_serial_output = TRUE
  BY DEF ShownInv
<1> QED
  BY <1>2, <1>4, <1>5, <1>6 DEF ShownInv

(* The texts of the script and of debug.c. *)
LEMMA Sayings ==
  /\ \A i \in 1 .. 93 : /\ IsText(Program[i].arg) => Program[i].arg \in Said
                        /\ IsText(Program[i].arg.text) => Program[i].arg.text \in Said
  /\ Passed \in Said /\ Initialized \in Said /\ SerialOk \in Said /\ SerialFailed \in Said
  /\ DumpRow \in Said
<1>1. /\ IsText(Passed) /\ IsText(Initialized) /\ IsText(SerialOk) /\ IsText(SerialFailed)
      /\ IsText(DumpRow)
  BY DEF IsText, Passed, Initialized, SerialOk, SerialFailed, DumpRow
<1> QED
  BY <1>1, Zenon DEF Said

(* What a line of debug.c puts on the screen, and in the log while the       *)
(* terminal echoes.                                                          *)
LineOn(target, t) == IF C!VGA \in target THEN <<t, "CR", "LF">> ELSE <<>>

(* The two are the same but for the echo. *)
LEMMA LineEchoed ==
  ASSUME terminal_serial_output, NEW target, NEW t \in Said
  PROVE  /\ LineOn(target, t) \in Seq(Chars)
         /\ C!debug_write(target, C!DebugLine(<<t>>))[C!VGA] = LineOn(target, t)
         /\ C!debug_write(target, C!DebugLine(<<t>>))[C!SERIAL] = FlatMap(EchoOf, LineOn(target, t))
<1> DEFINE l == <<t, "CR", "LF">>
           e == FlatMap(EchoOf, l)
<1>1. C!VGA \in C!Devices /\ C!SERIAL \in C!Devices /\ C!VGA # C!SERIAL
  BY DEF C!Devices, C!VGA, C!SERIAL
<1>2. l \in Seq(Chars) /\ <<>> \in Seq(Chars) /\ FlatMap(EchoOf, <<>>) = <<>>
  <2>1. <<>> \in Seq(Chars)
    OBVIOUS
  <2> QED
    BY <2>1, LineTexts, Zenon
<1>3. C!DebugLine(<<t>>) = l
  BY LineOf, Zenon
<1> HIDE DEF l
<1>4. C!terminal_write(l) = e /\ e \in Seq(Chars)
  BY <1>2, EchoesAsFlatMap, EchoKeepsText, Zenon
<1>5. LineOn(target, t) = IF C!VGA \in target THEN l ELSE <<>>
  BY DEF LineOn, l
<1>6. /\ C!debug_write(target, l)[C!VGA] = C!When(C!VGA \in target, l)
      /\ C!debug_write(target, l)[C!SERIAL] =
           C!When(C!VGA \in target, C!terminal_write(l))
             \o C!When(C!SERIAL \in target /\ ~terminal_serial_output, l)
  BY <1>1, Zenon DEF C!debug_write
<1>7. C!When(C!SERIAL \in target /\ ~terminal_serial_output, l) = <<>>
  BY Zenon DEF C!When
<1> HIDE DEF e
<1>8. CASE C!VGA \in target
  <2>1. LineOn(target, t) = l /\ C!When(C!VGA \in target, l) = l
    BY <1>5, <1>8, Zenon DEF C!When
  <2>2. C!When(C!VGA \in target, C!terminal_write(l)) = e
    BY <1>4, <1>8, Zenon DEF C!When
  <2>3. e \o <<>> = e
    BY <1>4
  <2> QED
    BY <1>2, <1>3, <1>6, <1>7, <2>1, <2>2, <2>3, Zenon DEF e
<1>9. CASE C!VGA \notin target
  <2>1. LineOn(target, t) = <<>> /\ C!When(C!VGA \in target, l) = <<>>
    BY <1>5, <1>9, Zenon DEF C!When
  <2>2. C!When(C!VGA \in target, C!terminal_write(l)) = <<>>
    BY <1>9, Zenon DEF C!When
  <2>3. <<>> \o <<>> = <<>>
    OBVIOUS
  <2> QED
    BY <1>2, <1>3, <1>6, <1>7, <2>1, <2>2, <2>3, Zenon
<1> QED
  BY <1>8, <1>9

(* A call that writes nothing. *)
LEMMA QuietCall ==
  ASSUME ShownInv, line \in 3 .. 92, line # 59, line' = line + 1, out' = C!Silence,
         shown' = [d \in C!Devices |-> shown[d] \o C!ForEach(TextOnly, out'[d])],
         UNCHANGED <<terminal_serial_output, serial_ok>>,
         line + 1 >= 6 => debug_level' = C!DEBUG,
         line + 1 \in 7 .. 84 => debug_target' = C!Devices
  PROVE  ShownInv'
<1> DEFINE o == <<>>
<1>1. o \in Seq(Chars)
  OBVIOUS
<1>2. out'[C!VGA] = o /\ out'[C!SERIAL] = o
  BY DEF C!Silence, C!Devices
<1>3. FlatMap(EchoOf, o) = o
  BY LineTexts, Zenon
<1> HIDE DEF o
<1> QED
  BY <1>1, <1>2, <1>3, EchoedCall

(* debug_log. *)
LEMMA LogShows ==
  ASSUME ShownInv, line \in 7 .. 92, line # 84, line' = line + 1, UNCHANGED serial_ok,
         NEW level \in 1 .. 5, NEW t \in Said, C!debug_log(level, <<t>>),
         shown' = [d \in C!Devices |-> shown[d] \o C!ForEach(TextOnly, out'[d])],
         line = 59 => level = 3 /\ t = Passed
  PROVE  ShownInv'
<1>1. /\ out' = C!debug_format_and_write(level, debug_level, debug_target, <<t>>)
      /\ UNCHANGED <<terminal_serial_output, debug_level, debug_target>>
  BY Zenon DEF C!debug_log, C!Says, C!switches, C!debug
<1>2. terminal_serial_output /\ debug_level = 4
  BY DEF ShownInv, C!DEBUG
<1>3. line + 1 >= 6 => debug_level' = C!DEBUG
  BY <1>1, <1>2 DEF C!DEBUG
<1>4. line + 1 \in 7 .. 84 => debug_target' = C!Devices
  BY <1>1 DEF ShownInv
<1>5. CASE level > debug_level
  <2>1. out' = C!Silence
    BY <1>1, <1>5, Zenon DEF C!debug_format_and_write
  <2>2. line # 59 /\ line \in 3 .. 92
    BY <1>2, <1>5
  <2> QED
    BY <1>1, <1>3, <1>4, <2>1, <2>2, QuietCall
<1>6. CASE ~(level > debug_level)
  <2>1. out' = C!debug_write(debug_target, C!DebugLine(<<t>>))
    BY <1>1, <1>6, Zenon DEF C!debug_format_and_write
  <2> DEFINE o == LineOn(debug_target, t)
  <2>2. o \in Seq(Chars) /\ out'[C!VGA] = o /\ out'[C!SERIAL] = FlatMap(EchoOf, o)
    BY <1>2, <2>1, LineEchoed, Zenon
  <2>3. line = 59 => FlatMap(TextOf, o) = <<Passed>>
    <3> SUFFICES ASSUME line = 59  PROVE FlatMap(TextOf, o) = <<Passed>>
      OBVIOUS
    <3>1. C!VGA \in debug_target /\ t = Passed
      BY DEF ShownInv, C!Devices
    <3>2. o = <<t, "CR", "LF">>
      BY <3>1, Zenon DEF LineOn
    <3> QED
      BY <3>1, <3>2, LineTexts, Zenon
  <2> HIDE DEF o
  <2>4. line \in 3 .. 92 /\ UNCHANGED <<terminal_serial_output, serial_ok>>
    BY <1>1
  <2> QED
    BY <1>3, <1>4, <2>2, <2>3, <2>4, EchoedCall, ZenonT(40)
<1> QED
  BY <1>5, <1>6

(* printf. *)
LEMMA PrintfShows ==
  ASSUME ShownInv, line \in 7 .. 92, line # 84, line # 59, line' = line + 1, UNCHANGED serial_ok,
         NEW t \in Said, C!printf(<<t, "LF">>),
         shown' = [d \in C!Devices |-> shown[d] \o C!ForEach(TextOnly, out'[d])]
  PROVE  ShownInv'
<1> DEFINE o == <<t, "LF">>
<1>1. /\ out' = C!Sent(o, C!ForEach(C!print, o))
      /\ UNCHANGED <<terminal_serial_output, debug_level, debug_target>>
  BY Zenon DEF C!printf, C!Says, C!switches, C!debug
<1>2. terminal_serial_output
  BY DEF ShownInv
<1>3. o \in Seq(Chars)
  BY LineTexts
<1> HIDE DEF o
<1>4. C!ForEach(C!print, o) = FlatMap(EchoOf, o)
  BY <1>2, <1>3, EchoesAsFlatMap, Zenon
<1>5. C!VGA \in C!Devices /\ C!SERIAL \in C!Devices /\ C!VGA # C!SERIAL
  BY DEF C!Devices, C!VGA, C!SERIAL
<1>6. out'[C!VGA] = o /\ out'[C!SERIAL] = FlatMap(EchoOf, o)
  BY <1>1, <1>4, <1>5, Zenon DEF C!Sent
<1>7. line + 1 >= 6 => debug_level' = C!DEBUG
  BY <1>1 DEF ShownInv
<1>8. line + 1 \in 7 .. 84 => debug_target' = C!Devices
  BY <1>1 DEF ShownInv
<1> QED
  BY <1>1, <1>3, <1>6, <1>7, <1>8, EchoedCall

(* debug_hex_dump, whose rows are lines of their own. *)
LEMMA DumpShows ==
  ASSUME ShownInv, line = 82, line' = line + 1, UNCHANGED serial_ok,
         NEW rows \in Seq(Said), C!debug_hex_dump(rows),
         shown' = [d \in C!Devices |-> shown[d] \o C!ForEach(TextOnly, out'[d])]
  PROVE  ShownInv'
<1> DEFINE W(t) == C!debug_write(debug_target, C!DebugLine(<<t>>))
           F == [t \in Said |-> LineOn(debug_target, t)]
           K == [t \in Said |-> FlatMap(EchoOf, F[t])]
           o == FlatMap(F, rows)
<1>1. /\ out' = [d \in C!Devices |->
                   C!ForEach(LAMBDA row : C!debug_write(debug_target, C!DebugLine(<<row>>))[d], rows)]
      /\ UNCHANGED <<terminal_serial_output, debug_level, debug_target>>
  BY DEF C!debug_hex_dump, C!Says, C!switches, C!debug
<1>2. terminal_serial_output
  BY DEF ShownInv
<1>3. ASSUME NEW t \in Said
      PROVE  W(t)[C!VGA] = F[t] /\ W(t)[C!SERIAL] = K[t] /\ F[t] \in Seq(Chars)
  <2>1. F[t] = LineOn(debug_target, t) /\ K[t] = FlatMap(EchoOf, F[t])
    OBVIOUS
  <2> HIDE DEF F, K
  <2> QED
    BY <1>2, <2>1, LineEchoed, Zenon
<1>4. \A t \in Said : F[t] \in Seq(Chars) /\ K[t] \in Seq(Chars) /\ K[t] = FlatMap(EchoOf, F[t])
  <2>1. \A t \in Said : K[t] = FlatMap(EchoOf, F[t])
    OBVIOUS
  <2>2. \A t \in Said : F[t] \in Seq(Chars)
    BY <1>3, Zenon
  <2> HIDE DEF F, K
  <2> QED
    BY <2>1, <2>2, EchoKeepsText, Zenon
<1>5. F \in [Said -> Seq(Chars)] /\ K \in [Said -> Seq(Chars)]
  <2>1. F = [t \in Said |-> F[t]] /\ K = [t \in Said |-> K[t]]
    OBVIOUS
  <2> HIDE DEF F, K
  <2> QED
    BY <1>4, <2>1
<1> HIDE DEF F, K
<1>6. o \in Seq(Chars) /\ FlatMap(K, rows) = FlatMap(EchoOf, o)
  <2>1. PieceByPiece(Said, Chars, F)
    BY <1>5, FlatMapUnfolds
  <2>2. Composes(Chars, Chars, EchoOf)
    BY FlatMapCompose, CharFacts
  <2> QED
    BY <1>4, <1>5, <2>1, <2>2, Zenon DEF PieceByPiece, Composes
<1>7. ASSUME NEW d \in C!Devices, NEW G \in [Said -> Seq(Chars)], \A t \in Said : W(t)[d] = G[t]
      PROVE  C!ForEach(LAMBDA row : C!debug_write(debug_target, C!DebugLine(<<row>>))[d], rows) = FlatMap(G, rows)
  <2>1. \A i \in DOMAIN rows : rows[i] \in Said
    OBVIOUS
  <2>2. [i \in DOMAIN rows |-> C!debug_write(debug_target, C!DebugLine(<<rows[i]>>))[d]] = [i \in DOMAIN rows |-> G[rows[i]]]
    BY <1>7, <2>1
  <2> QED
    BY <2>2, SameFlatten DEF C!ForEach, FlatMap
<1>8. C!VGA \in C!Devices /\ C!SERIAL \in C!Devices
  BY DEF C!Devices
<1>9. /\ out'[C!VGA] = C!ForEach(LAMBDA row : C!debug_write(debug_target, C!DebugLine(<<row>>))[C!VGA], rows)
      /\ out'[C!SERIAL] = C!ForEach(LAMBDA row : C!debug_write(debug_target, C!DebugLine(<<row>>))[C!SERIAL], rows)
  BY <1>1, <1>8
<1>10. out'[C!VGA] = o /\ out'[C!SERIAL] = FlatMap(EchoOf, o)
  <2>1. C!ForEach(LAMBDA row : C!debug_write(debug_target, C!DebugLine(<<row>>))[C!VGA], rows) = FlatMap(F, rows)
    BY <1>3, <1>5, <1>7, <1>8
  <2>2. C!ForEach(LAMBDA row : C!debug_write(debug_target, C!DebugLine(<<row>>))[C!SERIAL], rows) = FlatMap(K, rows)
    BY <1>3, <1>5, <1>7, <1>8
  <2> QED
    BY <1>6, <1>9, <2>1, <2>2
<1> HIDE DEF o
<1>11. /\ line + 1 >= 6 => debug_level' = C!DEBUG
       /\ line + 1 \in 7 .. 84 => debug_target' = C!Devices
       /\ line \in 3 .. 92 /\ line # 59
  BY <1>1 DEF ShownInv
<1> QED
  BY <1>1, <1>6, <1>10, <1>11, EchoedCall

(* A line of debug.c while the terminal is silent. *)
LEMMA LineNotEchoed ==
  ASSUME terminal_serial_output = FALSE, NEW target, C!VGA \in target, NEW t \in Said
  PROVE  /\ C!debug_write(target, C!DebugLine(<<t>>))[C!VGA] = <<t, "CR", "LF">>
         /\ C!debug_write(target, C!DebugLine(<<t>>))[C!SERIAL] =
              IF C!SERIAL \in target THEN <<t, "CR", "LF">> ELSE <<>>
<1> DEFINE l == <<t, "CR", "LF">>
           Mute == [c \in Chars |-> <<>>]
<1>1. C!VGA \in C!Devices /\ C!SERIAL \in C!Devices /\ C!VGA # C!SERIAL
  BY DEF C!Devices, C!VGA, C!SERIAL
<1>2. C!DebugLine(<<t>>) = l
  BY LineOf, Zenon
<1>3. l \in Seq(Chars)
  BY LineTexts, Zenon
<1>4. C!terminal_write(l) = <<>>
  <2>1. \A c : C!terminal_putchar(c) = <<>>
    BY DEF C!terminal_putchar, C!When
  <2>2. Mute \in [Chars -> Seq(Chars)] /\ \A c \in Chars : Mute[c] = <<>>
    OBVIOUS
  <2>3. t \in Chars /\ "CR" \in Chars /\ "LF" \in Chars
    BY DEF Chars
  <2> HIDE DEF Mute
  <2>4. FlatMap(Mute, l) = (Mute[t] \o Mute["CR"]) \o Mute["LF"]
    BY <2>2, <2>3, ShortStrings, ZenonT(40)
  <2>5. <<>> \o <<>> = <<>>
    OBVIOUS
  <2>6. FlatMap(Mute, l) = <<>>
    BY <2>2, <2>3, <2>4, <2>5, Zenon
  <2> HIDE DEF l
  <2>7. \A i \in DOMAIN l : l[i] \in Chars
    BY <1>3
  <2>8. [i \in DOMAIN l |-> C!terminal_putchar(l[i])] = [i \in DOMAIN l |-> Mute[l[i]]]
    BY <2>1, <2>2, <2>7
  <2> QED
    BY <2>6, <2>8, SameFlatten, Zenon DEF FlatMap, C!ForEach, C!terminal_write
<1> HIDE DEF l
<1>5. /\ C!debug_write(target, l)[C!VGA] = C!When(C!VGA \in target, l)
      /\ C!debug_write(target, l)[C!SERIAL] =
           C!When(C!VGA \in target, C!terminal_write(l))
             \o C!When(C!SERIAL \in target /\ ~terminal_serial_output, l)
  BY <1>1, Zenon DEF C!debug_write
<1>6. /\ C!When(C!VGA \in target, l) = l
      /\ C!When(C!VGA \in target, C!terminal_write(l)) = <<>>
      /\ C!When(C!SERIAL \in target /\ ~terminal_serial_output, l)
           = IF C!SERIAL \in target THEN l ELSE <<>>
  BY <1>4 DEF C!When
<1>7. <<>> \o l = l /\ <<>> \o <<>> = <<>>
  BY <1>3
<1> QED
  BY <1>2, <1>5, <1>6, <1>7, Zenon DEF l

(* The texts of two lines. *)
LEMMA TwoLines ==
  ASSUME NEW t \in Said, NEW u \in Said
  PROVE  /\ <<t, "CR", "LF">> \o <<u, "CR", "LF">> \in Seq(Chars)
         /\ FlatMap(TextOf, <<t, "CR", "LF">> \o <<u, "CR", "LF">>) = <<t, u>>
<1> DEFINE l == <<t, "CR", "LF">>
           m == <<u, "CR", "LF">>
<1>1. /\ l \in Seq(Chars) /\ m \in Seq(Chars)
      /\ FlatMap(TextOf, l) = <<t>> /\ FlatMap(TextOf, m) = <<u>>
  BY LineTexts, Zenon
<1> HIDE DEF l, m
<1>2. Distributes(Chars, Said, TextOf)
  BY FlatMapConcat, CharFacts
<1>3. FlatMap(TextOf, l \o m) = <<t>> \o <<u>>
  BY <1>1, <1>2, Zenon DEF Distributes
<1>4. <<t>> \o <<u>> = <<t, u>>
  <2>1. <<t>> \in Seq(Said) /\ <<u>> \in Seq(Said) /\ <<t, u>> = Append(<<t>>, u)
    OBVIOUS
  <2>2. Append(<<t>>, u) = <<t>> \o <<u>>
    BY <2>1, AppendIsConcat
  <2> QED
    BY <2>1, <2>2, Zenon
<1>5. l \o m \in Seq(Chars)
  BY <1>1, ConcatProperties
<1> QED
  BY <1>3, <1>4, <1>5, Zenon DEF l, m

(* debug_init: two lines, also in the log if there is a port. *)
LEMMA InitShows ==
  ASSUME ShownInv, line = 1, line' = 2, serial_ok' \in BOOLEAN, C!debug_init(serial_ok'),
         shown' = [d \in C!Devices |-> shown[d] \o C!ForEach(TextOnly, out'[d])]
  PROVE  ShownInv'
<1> DEFINE T == {C!VGA} \cup (IF serial_ok' THEN {C!SERIAL} ELSE {})
           u == IF serial_ok' THEN SerialOk ELSE SerialFailed
           l == <<Initialized, "CR", "LF">>
           m == <<u, "CR", "LF">>
           A == C!debug_write(T, C!DebugLine(<<Initialized>>))
           B == C!debug_write(T, C!DebugLine(<<u>>))
<1>1. C!VGA \in C!Devices /\ C!SERIAL \in C!Devices /\ C!VGA # C!SERIAL
  BY DEF C!Devices, C!VGA, C!SERIAL
<1>2. C!VGA \in T /\ (C!SERIAL \in T <=> serial_ok')
  BY <1>1
<1>3. u \in Said /\ Initialized \in Said
  BY Sayings
<1>4. terminal_serial_output' = terminal_serial_output /\ terminal_serial_output = FALSE
  <2>1. UNCHANGED C!switches
    BY Zenon DEF C!debug_init
  <2>2. terminal_serial_output' = terminal_serial_output
    BY <2>1 DEF C!switches
  <2>3. terminal_serial_output = FALSE
    BY DEF ShownInv
  <2> QED
    BY <2>2, <2>3
<1>5. out' = C!Both(A, B)
  <2>1. ~(C!INFO > C!INFO) /\ ~(C!WARNING > C!INFO)
    BY DEF C!INFO, C!WARNING
  <2>2. \A t : /\ C!debug_format_and_write(C!INFO, C!INFO, T, <<t>>) = C!debug_write(T, C!DebugLine(<<t>>))
               /\ C!debug_format_and_write(C!WARNING, C!INFO, T, <<t>>) = C!debug_write(T, C!DebugLine(<<t>>))
    BY <2>1, Zenon DEF C!debug_format_and_write
  <2>3. /\ debug_target' = T
        /\ out' = C!Both(C!debug_format_and_write(C!INFO, C!INFO, debug_target', <<Initialized>>),
                    IF serial_ok'
                    THEN C!debug_format_and_write(C!INFO, C!INFO, debug_target', <<SerialOk>>)
                    ELSE C!debug_format_and_write(C!WARNING, C!INFO, debug_target', <<SerialFailed>>))
    BY Zenon DEF C!debug_init, C!Says, Initialized, SerialOk, SerialFailed
  <2> HIDE DEF T
  <2>4. CASE serial_ok'
    BY <2>2, <2>3, <2>4, Zenon
  <2>5. CASE ~serial_ok'
    BY <2>2, <2>3, <2>5, Zenon
  <2> QED
    BY <2>4, <2>5
<1> HIDE DEF T, u
<1>6. /\ A[C!VGA] = l /\ B[C!VGA] = m
      /\ A[C!SERIAL] = IF serial_ok' THEN l ELSE <<>>
      /\ B[C!SERIAL] = IF serial_ok' THEN m ELSE <<>>
  BY <1>2, <1>3, <1>4, LineNotEchoed, Zenon
<1>7. out'[C!VGA] = A[C!VGA] \o B[C!VGA] /\ out'[C!SERIAL] = A[C!SERIAL] \o B[C!SERIAL]
  BY <1>1, <1>5, Zenon DEF C!Both
<1> HIDE DEF A, B
<1>8. l \o m \in Seq(Chars) /\ FlatMap(TextOf, l \o m) = <<Initialized, u>>
  BY <1>3, TwoLines, Zenon
<1> HIDE DEF l, m
<1> DEFINE o == l \o m
           p == IF serial_ok' THEN o ELSE <<>>
           first == <<Initialized, u>>
<1>9. first \in Seq(Said) /\ Len(first) = 2
  BY <1>3
<1> HIDE DEF first
<1>10. /\ o \in Seq(Chars) /\ p \in Seq(Chars) /\ FlatMap(TextOf, o) = first
       /\ FlatMap(TextOf, p) = IF serial_ok' THEN first ELSE <<>>
  <2>1. <<>> \in Seq(Chars)
    OBVIOUS
  <2>2. FlatMap(TextOf, o) = first
    BY <1>8, Zenon DEF o, first
  <2> HIDE DEF o
  <2> QED
    BY <1>8, <2>1, <2>2, LineTexts, Zenon DEF p, o
<1>11. out'[C!VGA] = o /\ out'[C!SERIAL] = p
  <2>1. <<>> \o <<>> = <<>>
    OBVIOUS
  <2> QED
    BY <1>6, <1>7, <2>1, Zenon DEF o, p
<1> HIDE DEF o, p
<1>12. /\ shown' \in [C!Devices -> Seq(Said)]
       /\ shown'[C!VGA] = shown[C!VGA] \o first
       /\ shown'[C!SERIAL] = shown[C!SERIAL] \o FlatMap(TextOf, p)
  BY <1>10, <1>11, CallShows
<1>13. shown[C!VGA] = <<>> /\ shown[C!SERIAL] = <<>>
  BY <1>1 DEF ShownInv, C!Silence
<1>14. Mirrors(shown'[C!VGA], shown'[C!SERIAL], serial_ok')
  <2>1. <<>> \o first = first /\ first \o <<>> = first /\ <<>> \o <<>> = <<>>
    BY <1>9
  <2>2. shown'[C!VGA] = first /\ shown'[C!SERIAL] = IF serial_ok' THEN first ELSE <<>>
    BY <1>10, <1>12, <1>13, <2>1, Zenon
  <2> QED
    BY <1>9, <2>1, <2>2, Zenon DEF Mirrors
<1> QED
  BY <1>4, <1>12, <1>14 DEF ShownInv

(* The switches that the script sets before it prints. *)
LEMMA EchoSwitchShows ==
  ASSUME ShownInv, line = 2, line' = 3, UNCHANGED serial_ok, C!terminal_enable_serial(Arg),
         Program[line] = EchoOn,
         shown' = [d \in C!Devices |-> shown[d] \o C!ForEach(TextOnly, out'[d])]
  PROVE  ShownInv'
<1> DEFINE o == <<>>
<1>1. out' = C!Silence /\ terminal_serial_output' = Arg
  BY Zenon DEF C!terminal_enable_serial
<1>2. terminal_serial_output' = TRUE
  <2>1. Arg = EchoOn.arg
    BY Zenon DEF Arg
  <2>2. EchoOn.arg = TRUE
    BY Zenon DEF EchoOn, Do
  <2> QED
    BY <1>1, <2>1, <2>2, Zenon
<1>3. o \in Seq(Chars)
  OBVIOUS
<1>4. out'[C!VGA] = o /\ out'[C!SERIAL] = o
  BY <1>1 DEF C!Silence, C!Devices
<1>5. FlatMap(TextOf, o) = <<>>
  BY LineTexts, Zenon
<1> HIDE DEF o
<1>6. /\ shown' \in [C!Devices -> Seq(Said)]
      /\ shown'[C!VGA] = shown[C!VGA] \o <<>> /\ shown'[C!SERIAL] = shown[C!SERIAL] \o <<>>
  <2>1. /\ shown' \in [C!Devices -> Seq(Said)]
        /\ shown'[C!VGA] = shown[C!VGA] \o FlatMap(TextOf, o)
        /\ shown'[C!SERIAL] = shown[C!SERIAL] \o FlatMap(TextOf, o)
    BY <1>3, <1>4, CallShows
  <2> QED
    BY <1>5, <2>1, Zenon
<1>7. shown[C!VGA] \in Seq(Said) /\ shown[C!SERIAL] \in Seq(Said)
  BY DEF ShownInv, C!Devices
<1>8. shown'[C!VGA] = shown[C!VGA] /\ shown'[C!SERIAL] = shown[C!SERIAL]
  BY <1>6, <1>7
<1>9. Mirrors(shown[C!VGA], shown[C!SERIAL], serial_ok)
  BY DEF ShownInv
<1>10. Mirrors(shown'[C!VGA], shown'[C!SERIAL], serial_ok')
  BY <1>8, <1>9, Zenon
<1> QED
  BY <1>2, <1>6, <1>10 DEF ShownInv

(* The other switches and the targets: none of them stops the echo. *)
LEMMA SwitchShows ==
  ASSUME ShownInv, line \in 3 .. 92, line' = line + 1, UNCHANGED serial_ok,
         \/ line = 3 /\ C!printf_enable_serial(Arg)
         \/ line = 4 /\ C!putchar_enable_serial(Arg)
         \/ line = 5 /\ C!debug_set_level(Arg) /\ Arg = C!DEBUG
         \/ /\ line \in {6, 84, 86, 88} /\ C!debug_set_target(Arg)
            /\ line = 6 => Arg = C!Devices,
         shown' = [d \in C!Devices |-> shown[d] \o C!ForEach(TextOnly, out'[d])]
  PROVE  ShownInv'
<1>1. line # 59
  OBVIOUS
<1>2. CASE (line = 3 /\ C!printf_enable_serial(Arg)) \/ (line = 4 /\ C!putchar_enable_serial(Arg))
  <2>1. out' = C!Silence /\ UNCHANGED terminal_serial_output
    BY <1>2, Zenon DEF C!printf_enable_serial, C!putchar_enable_serial
  <2>2. ~(line + 1 >= 6) /\ ~(line + 1 \in 7 .. 84)
    BY <1>2
  <2> QED
    BY <1>1, <2>1, <2>2, QuietCall
<1>3. CASE line = 5 /\ C!debug_set_level(Arg) /\ Arg = C!DEBUG
  <2>1. /\ out' = C!Silence /\ UNCHANGED terminal_serial_output
        /\ debug_level' = IF Arg \in C!NONE .. C!TRACE THEN Arg ELSE debug_level
    BY <1>3, Zenon DEF C!debug_set_level, C!switches
  <2>2. debug_level' = C!DEBUG
    BY <1>3, <2>1 DEF C!NONE, C!TRACE, C!DEBUG
  <2>3. ~(line + 1 \in 7 .. 84)
    BY <1>3
  <2> QED
    BY <1>1, <2>1, <2>2, <2>3, QuietCall
<1>4. CASE /\ line \in {6, 84, 86, 88} /\ C!debug_set_target(Arg)
           /\ line = 6 => Arg = C!Devices
  <2>1. /\ out' = C!Silence /\ UNCHANGED <<terminal_serial_output, debug_level>>
        /\ debug_target' = Arg
    BY <1>4, Zenon DEF C!debug_set_target, C!switches
  <2>2. debug_level' = C!DEBUG
    BY <1>4, <2>1 DEF ShownInv
  <2>3. line + 1 \in 7 .. 84 => debug_target' = C!Devices
    BY <1>4, <2>1
  <2> QED
    BY <1>1, <2>1, <2>2, <2>3, QuietCall
<1> QED
  BY <1>2, <1>3, <1>4

(* All of the console's calls: none leaves the log behind the screen, though *)
(* three of them change debug.c's targets.                                   *)
LEMMA ConsoleShows ==
  ASSUME KernelInv, pc = "kernel_main", ShownInv, ConsoleCall
  PROVE  ShownInv'
<1>0. line \in 1 .. 93 /\ line' = line + 1 /\ line + 1 \in 1 .. 93
  <2>1. line \in 1 .. 93 /\ line' = line + 1
    BY DEF ConsoleCall, Call, KernelInv, PagesInv
  <2>2. KernelInv'
    BY ConsoleCalls
  <2> QED
    BY <2>1, <2>2 DEF KernelInv, PagesInv
<1>1. line \in 1 .. 92 /\ line' = line + 1
  BY <1>0
<1>2. shown' = [d \in C!Devices |-> shown[d] \o C!ForEach(TextOnly, out'[d])]
  BY Zenon DEF ConsoleCall
<1>3. CASE Call("debug_init") /\ serial_ok' \in BOOLEAN /\ C!debug_init(serial_ok')
  <2>1. line = 1
    BY <1>0, <1>3, Lines, Zenon DEF Call
  <2>2. line' = 2
    BY <1>1, <2>1
  <2> QED
    BY <1>2, <1>3, <2>1, <2>2, InitShows, Zenon
<1>4. CASE UNCHANGED serial_ok /\ Call("terminal_enable_serial") /\ C!terminal_enable_serial(Arg)
  <2>1. line = 2 /\ Program[line] = EchoOn
    BY <1>0, <1>4, Outputs, Zenon DEF Call
  <2>2. line' = 3
    BY <1>1, <2>1
  <2> QED
    BY <1>2, <1>4, <2>1, <2>2, EchoSwitchShows, Zenon
<1>5. CASE /\ UNCHANGED serial_ok
           /\ \/ Call("printf_enable_serial") /\ C!printf_enable_serial(Arg)
              \/ Call("putchar_enable_serial") /\ C!putchar_enable_serial(Arg)
              \/ Call("debug_set_level") /\ C!debug_set_level(Arg)
              \/ Call("debug_set_target") /\ C!debug_set_target(Arg)
  <2>1. \/ line = 3 /\ C!printf_enable_serial(Arg)
        \/ line = 4 /\ C!putchar_enable_serial(Arg)
        \/ line = 5 /\ C!debug_set_level(Arg) /\ Arg = C!DEBUG
        \/ /\ line \in {6, 84, 86, 88} /\ C!debug_set_target(Arg)
           /\ line = 6 => Arg = C!Devices
    BY <1>0, <1>5, Outputs, Zenon DEF Call, Arg
  <2>2. line \in 3 .. 92
    BY <1>1, <2>1
  <2> QED
    BY <1>1, <1>2, <1>5, <2>1, <2>2, SwitchShows, Zenon
<1>6. CASE UNCHANGED serial_ok /\ Call("debug_log") /\ C!debug_log(Arg.level, <<Arg.text>>)
  <2>1. line \notin Special /\ IsText(Arg.text)
    BY <1>0, <1>6, Outputs, Zenon DEF Call, Arg
  <2>2. line \in 7 .. 92 /\ line # 84 /\ line # 59
    BY <1>1, <2>1 DEF Special
  <2>3. Arg.text \in Said
    BY <1>0, <2>1, Sayings, Zenon DEF Arg
  <2>4. Arg.level \in 1 .. 5
    <3>1. \A j \in 1 .. 93 : Scripted(0 + j, Program[j])
      BY Script, Zenon DEF Fits
    <3>2. 0 + line = line
      BY <1>0
    <3>3. Scripted(line, Program[line])
      BY <1>0, <3>1, <3>2, Zenon
    <3>4. IsSpeech(Program[line])
      BY <2>1, <3>3, Zenon DEF Scripted
    <3>5. Program[line].routine # "printf"
      BY <1>6 DEF Call
    <3> QED
      BY <3>4, <3>5, Zenon DEF IsSpeech, Arg
  <2> QED
    BY <1>1, <1>2, <1>6, <2>2, <2>3, <2>4, LogShows, Zenon
<1>7. CASE UNCHANGED serial_ok /\ Call("printf") /\ C!printf(<<Arg, "LF">>)
  <2>1. line \notin Special /\ IsText(Arg)
    BY <1>0, <1>7, Outputs, Zenon DEF Call, Arg
  <2>2. line \in 7 .. 92 /\ line # 84 /\ line # 59
    BY <1>1, <2>1 DEF Special
  <2>3. Arg \in Said
    BY <1>0, <2>1, Sayings, Zenon DEF Arg
  <2> QED
    BY <1>1, <1>2, <1>7, <2>2, <2>3, PrintfShows, Zenon
<1>8. CASE UNCHANGED serial_ok /\ Call("debug_hex_dump") /\ C!debug_hex_dump(Arg)
  <2>1. line = 82 /\ Arg = [row \in 1 .. 8 |-> DumpRow]
    BY <1>0, <1>8, Outputs, Zenon DEF Call, Arg, DumpRow
  <2>2. [row \in 1 .. 8 |-> DumpRow] \in Seq(Said)
    BY Sayings
  <2>3. Arg \in Seq(Said)
    BY <2>1, <2>2, Zenon
  <2> QED
    BY <1>1, <1>2, <1>8, <2>1, <2>3, DumpShows, Zenon
<1>9. CASE Call("panic")
  BY <1>0, <1>9, Lines, Zenon DEF Call
<1>10. CASE /\ UNCHANGED serial_ok /\ Call("report")
            /\ IF read_value = "0xDEADBEEF" THEN C!debug_log(C!INFO, <<"test passed">>)
               ELSE C!debug_log(C!ERROR, <<"test failed">>)
  <2>1. line = 59
    BY <1>0, <1>10, Lines, Zenon DEF Call
  <2>2. read_value = "0xDEADBEEF"
    BY <2>1 DEF KernelInv, MappingInv
  <2>3. C!debug_log(C!INFO, <<Passed>>)
    BY <1>10, <2>2, Zenon DEF Passed
  <2>4. C!INFO \in 1 .. 5 /\ C!INFO = 3 /\ line \in 7 .. 92 /\ line # 84
    BY <2>1 DEF C!INFO
  <2>5. Passed \in Said
    BY Sayings
  <2> QED
    BY <1>1, <1>2, <1>10, <2>3, <2>4, <2>5, LogShows, Zenon
<1> QED
  BY <1>3, <1>4, <1>5, <1>6, <1>7, <1>8, <1>9, <1>10, Zenon DEF ConsoleCall

(* The other steps print nothing. *)
LEMMA OthersShowNothing ==
  ASSUME ShownInv, line \in 1 .. 93,
         UNCHANGED <<terminal_serial_output, debug_level, debug_target, serial_ok, shown>>,
         line' = line \/ (line \in PagingLines /\ line' = line + 1)
  PROVE  ShownInv'
<1>1. Mirrors(shown[C!VGA], shown[C!SERIAL], serial_ok)' = Mirrors(shown[C!VGA], shown[C!SERIAL], serial_ok)
  BY Zenon DEF Mirrors
<1>2. Shows(Passed)' = Shows(Passed)
  BY Zenon DEF Shows
<1>3. CASE line' = line
  BY <1>1, <1>2, <1>3 DEF ShownInv
<1>4. CASE line \in PagingLines /\ line' = line + 1
  BY <1>1, <1>2, <1>4 DEF ShownInv, PagingLines
<1> QED
  BY <1>3, <1>4

(* What is shown stays as it should. *)
LEMMA StepShownInv ==
  ASSUME KernelInv, ShownInv, [Next]_vars
  PROVE  ShownInv'
<1>0. line \in 1 .. 93
  BY DEF KernelInv, PagesInv
<1>1. CASE pc = "kernel_main" /\ ConsoleCall
  BY <1>1, ConsoleShows
<1>2. CASE PagingCall
  <2>1. UNCHANGED <<console, serial_ok, shown>>
    BY <1>2, Zenon DEF PagingCall
  <2>2. /\ line' = line + 1
        /\ Program[line].routine \in {"init_paging", "kmalloc_physical_page", "map_page_to_frame",
             "write", "flush_tlb_entry", "read", "unmap_page", "kfree_physical_page"}
    BY <1>2 DEF PagingCall, Call
  <2>3. line \in PagingLines
    BY <1>0, <2>2, Lines DEF PagingLines
  <2> QED
    BY <1>0, <2>1, <2>2, <2>3, OthersShowNothing DEF console
<1>3. CASE UNCHANGED <<console, main>>
  BY <1>0, <1>3, OthersShowNothing DEF console, main
<1>4. UNCHANGED vars => UNCHANGED <<console, main>>
  BY DEF vars
<1> QED
  BY <1>1, <1>2, <1>3, <1>4, ScriptSteps DEF Next, CpuStep, Halt, Stopped

(* At the start nothing is shown. *)
LEMMA InitShownInv == KernelInit => ShownInv
<1> SUFFICES ASSUME KernelInit  PROVE ShownInv
  OBVIOUS
<1>1. line = 1 /\ shown = C!Silence /\ terminal_serial_output = FALSE
  BY DEF KernelInit, C!Init
<1>2. shown \in [C!Devices -> Seq(Said)]
  BY <1>1 DEF C!Silence
<1> QED
  BY <1>1, <1>2 DEF ShownInv

(* The screen and the log of every run are as ShownInv says. *)
THEOREM ShownInvariant == Spec => []ShownInv
<1> QED
  BY KernelInvariant, InitShownInv, StepShownInv, PTL DEF Spec

(* kernel_main's own state stays typed, and no line end is taken for a text. *)
THEOREM KernelTypeCorrect == Spec => []TypeOK
<1>1. ASSUME KernelInv, ShownInv  PROVE TypeOK
  <2>1. Len(Program) = 93
    BY Script, Zenon DEF Fits
  <2>2. line \in 1 .. 93
    BY <1>1 DEF KernelInv, PagesInv
  <2>3. P!Index \subseteq P!Frame
    BY Assumed, PP!Layout, Same
  <2>4. pages \in Seq(P!Frame) /\ Len(pages) <= 3
    BY <1>1, <2>3 DEF KernelInv, PagesInv, Taken
  <2>5. used \subseteq P!Frame /\ held \subseteq P!Frame
    BY <1>1, Same DEF KernelInv, PP!PagingInv, PP!TypeOK
  <2>6. mem \in [P!Frame -> [P!Index -> P!Entry]] /\ Len(args) \in {0, 2}
    BY <1>1 DEF KernelInv, BootInv
  <2>7. read_value \in {"none", "0xDEADBEEF", "other"}
    BY <1>1 DEF KernelInv, MappingInv
  <2>8. ASSUME NEW d \in C!Devices, NEW i \in DOMAIN shown[d]  PROVE IsText(shown[d][i])
    <3>1. shown[d] \in Seq(Said)
      BY <1>1 DEF ShownInv
    <3>2. shown[d][i] \in Said
      BY <2>8, <3>1
    <3> QED
      BY <3>2, Zenon DEF Said
  <2>9. line \in 1 .. Len(Program)
    BY <2>1, <2>2
  <2> QED
    BY <2>4, <2>5, <2>6, <2>7, <2>8, <2>9, Zenon DEF TypeOK
<1> QED
  BY <1>1, KernelInvariant, ShownInvariant, PTL

(* With four free frames, test_memory_mapping may well leave its results     *)
(* unchecked: the three pages are real and different, and the test passes.   *)
THEOREM ResultsGood == Spec => []UncheckedResultsGood
<1>1. ASSUME KernelInv, ShownInv  PROVE UncheckedResultsGood
  <2>1. \A i, j \in DOMAIN pages :
          pages[i] \notin P!Reserved /\ (i # j => pages[i] # pages[j])
    BY <1>1 DEF KernelInv, PagesInv
  <2>2. read_value # "other"
    BY <1>1 DEF KernelInv, MappingInv
  <2>3. ASSUME pc = "hlt"
        PROVE  \E i \in DOMAIN shown[C!VGA] : shown[C!VGA][i] = Passed
    <3>1. line = 93
      BY <1>1, <2>3 DEF KernelInv, BootInv
    <3>2. Shows(Passed)
      BY <1>1, <3>1 DEF ShownInv
    <3>3. shown[C!VGA] \in Seq(Said)
      BY <1>1 DEF ShownInv, C!Devices
    <3> QED
      BY <3>2, <3>3 DEF Shows
  <2> QED
    BY <2>1, <2>2, <2>3, Zenon DEF UncheckedResultsGood, Passed
<1> QED
  BY <1>1, KernelInvariant, ShownInvariant, PTL

(* The serial log has all of the screen's lines in their order, less the two *)
(* of debug_init if there is no port.                                        *)
THEOREM LogIsScreen == Spec => []LogMirrorsScreen
<1>1. ASSUME KernelInv, ShownInv  PROVE LogMirrorsScreen
  <2> DEFINE s == shown[C!VGA]
             l == shown[C!SERIAL]
  <2>0. s \in Seq(Said) /\ l \in Seq(Said)
    BY <1>1 DEF ShownInv, C!Devices
  <2>1. CASE line = 1
    <3>1. s = <<>> /\ l = <<>>
      BY <1>1, <2>1 DEF ShownInv, C!Silence, C!Devices
    <3>2. SubSeq(<<>>, 3, Len(<<>>)) = <<>>
      OBVIOUS
    <3> QED
      BY <3>1, <3>2, Zenon DEF LogMirrorsScreen
  <2>2. CASE line >= 2 /\ serial_ok
    BY <1>1, <2>2 DEF ShownInv, Mirrors, LogMirrorsScreen
  <2>3. CASE line >= 2 /\ ~serial_ok
    <3>1. PICK first \in Seq(Said) : Len(first) = 2 /\ s = first \o l
      BY <1>1, <2>3 DEF ShownInv, Mirrors
    <3> HIDE DEF s, l
    <3>2. /\ Len(s) = 2 + Len(l) /\ Len(l) \in Nat
          /\ \A i \in 1 .. (2 + Len(l)) : s[i] = IF i <= 2 THEN first[i] ELSE l[i - 2]
      <4>1. Len(first \o l) = Len(first) + Len(l) /\ Len(l) \in Nat
        <5>1. first \in Seq(Said) /\ l \in Seq(Said)
          BY <2>0
        <5> QED
          BY <5>1, ConcatProperties
      <4>2. \A i \in 1 .. (Len(first) + Len(l)) :
              (first \o l)[i] = IF i <= Len(first) THEN first[i] ELSE l[i - Len(first)]
        BY <2>0, <3>1, ConcatProperties
      <4> QED
        BY <3>1, <4>1, <4>2
    <3>3. SubSeq(s, 3, Len(s)) = l
      <4> DEFINE r == SubSeq(s, 3, Len(s))
      <4>1. /\ r \in Seq(Said) /\ Len(r) = Len(l)
            /\ \A i \in 1 .. Len(l) : r[i] = s[2 + i]
        BY <2>0, <3>2
      <4> HIDE DEF r
      <4>2. \A i \in 1 .. Len(l) : r[i] = l[i]
        <5>1. ASSUME NEW i \in 1 .. Len(l)  PROVE r[i] = l[i]
          <6>1. 2 + i \in 1 .. (2 + Len(l)) /\ ~(2 + i <= 2) /\ (2 + i) - 2 = i
            BY <3>2
          <6> QED
            BY <3>2, <4>1, <6>1
        <5> QED
          BY <5>1
      <4>3. r = l
        BY <2>0, <4>1, <4>2, SeqEqual
      <4> QED
        BY <4>3 DEF r
    <3> QED
      BY <2>3, <3>3, Zenon DEF LogMirrorsScreen, s, l
  <2>4. line \in 1 .. 93
    BY <1>1 DEF KernelInv, PagesInv
  <2>5. line = 1 \/ line >= 2
    BY <2>4
  <2> QED
    BY <2>1, <2>2, <2>3, <2>5
<1> QED
  BY <1>1, KernelInvariant, ShownInvariant, PTL

=============================================================================
