------------------------------ MODULE Console -------------------------------
(***************************************************************************)
(* Who writes what to which device. Four layers share one screen and one   *)
(* serial port, and each has a switch of its own: the terminal of          *)
(* kernel/arch/i386/tty.c echoes to COM1, putchar and printf of libc/stdio *)
(* send to COM1 themselves, and kernel/kernel/debug.c chooses its targets. *)
(* kernel/kernel/panic.c prints through debug.c and stops the machine.     *)
(*                                                                         *)
(* A call of the interface is one step: interrupts are off and nothing     *)
(* runs beside it. A string is a sequence of characters in which a run of  *)
(* plain text is one character, since only line ends are treated apart.    *)
(* Prefixes, formatting and the 1024 byte buffer are in Format.            *)
(***************************************************************************)
EXTENDS Integers, SequencesExt

CONSTANTS
  CR, LF,      \* '\r' and '\n'
  Texts,       \* plain text, free of line ends
  Strings,     \* what callers pass to printf, puts, debug_log, debug_print and panic
  Dumps,       \* hex dumps: sequences of texts, one per row of 16 bytes
  LogLevels,   \* the levels callers pass to debug_log and debug_set_level
  Exceptions   \* the numbers passed to exception_handler

ConsoleChars == Texts \cup {CR, LF}

VGA == "VGA"
SERIAL == "SERIAL"
Devices == {VGA, SERIAL}    \* DEBUG_TARGET_ALL

NONE == 0
ERROR == 1
WARNING == 2
INFO == 3
DEBUG == 4
TRACE == 5

(* The texts of panic.c's and debug.c's own lines, told apart from those of *)
(* their callers.                                                           *)
OwnTexts == {"banner", "registers", "halted", "named exception", "unknown exception",
             "initialized", "serial ok", "serial failed"}

ASSUME ConsoleAssumption ==
  /\ CR # LF
  /\ OwnTexts \subseteq Texts
  /\ Texts \cap {CR, LF} = {}
  /\ Strings \subseteq Seq(ConsoleChars \ OwnTexts)
  /\ Dumps \subseteq Seq(Texts)
  /\ LogLevels \subseteq Int
  /\ Exceptions \subseteq Nat

VARIABLES
  terminal_serial_output, \* tty.c
  putchar_serial_output,  \* putchar.c
  serial_output_enabled,  \* printf.c
  debug_level,
  debug_target,           \* the devices whose bits are set
  debug_initialized,
  call,                   \* the last output call: its kind and its text
  out,                    \* what that call sent to each device
  halted                  \* panic has reached its hlt loop

switches == <<terminal_serial_output, putchar_serial_output, serial_output_enabled>>
debug == <<debug_level, debug_target, debug_initialized>>
vars == <<switches, debug, call, out, halted>>

Silence == [d \in Devices |-> <<>>]
Kinds == {"none", "putchar", "printf", "dropped", "debug_log", "debug_print",
          "debug_hex_dump", "debug_init", "panic"}
NoCall == [kind |-> "none", text |-> <<>>]

Init ==
  /\ terminal_serial_output = FALSE
  /\ putchar_serial_output = FALSE
  /\ serial_output_enabled = FALSE
  /\ debug_level = INFO
  /\ debug_target = {VGA}
  /\ debug_initialized = FALSE
  /\ call = NoCall
  /\ out = Silence
  /\ halted = FALSE

-----------------------------------------------------------------------------
(* The switches. *)

terminal_enable_serial(enable) ==
  /\ ~halted
  /\ terminal_serial_output' = enable
  /\ call' = NoCall /\ out' = Silence
  /\ UNCHANGED <<putchar_serial_output, serial_output_enabled, debug, halted>>

putchar_enable_serial(enable) ==
  /\ ~halted
  /\ putchar_serial_output' = enable
  /\ call' = NoCall /\ out' = Silence
  /\ UNCHANGED <<terminal_serial_output, serial_output_enabled, debug, halted>>

printf_enable_serial(enable) ==
  /\ ~halted
  /\ serial_output_enabled' = enable
  /\ call' = NoCall /\ out' = Silence
  /\ UNCHANGED <<terminal_serial_output, putchar_serial_output, debug, halted>>

TakesAnyLevel(level) ==
  /\ ~halted
  /\ debug_level' = level
  /\ call' = NoCall /\ out' = Silence
  /\ UNCHANGED <<switches, debug_target, debug_initialized, halted>>

(* A level out of range is ignored. *)
debug_set_level(level) ==
  /\ ~halted
  /\ debug_level' = IF level \in NONE .. TRACE THEN level ELSE debug_level
  /\ call' = NoCall /\ out' = Silence
  /\ UNCHANGED <<switches, debug_target, debug_initialized, halted>>

debug_set_target(target) ==
  /\ ~halted
  /\ debug_target' = target
  /\ call' = NoCall /\ out' = Silence
  /\ UNCHANGED <<switches, debug_level, debug_initialized, halted>>

-----------------------------------------------------------------------------
(* What each layer sends to COM1. *)

CrLf(c) == IF c = LF THEN <<CR, LF>> ELSE <<c>>

When(enabled, bytes) == IF enabled THEN bytes ELSE <<>>

(* The bytes that Bytes(c) gives, for each character of str in turn. *)
ForEach(Bytes(_), str) == FlattenSeq([i \in DOMAIN str |-> Bytes(str[i])])

terminal_putchar(c) == When(terminal_serial_output, CrLf(c))

terminal_write(str) == ForEach(terminal_putchar, str)

AlwaysSends(c) == terminal_putchar(c) \o When(putchar_serial_output, CrLf(c))

putchar_bytes(c) ==
  terminal_putchar(c)
    \o When(putchar_serial_output /\ ~terminal_serial_output, CrLf(c))

(* print() of printf.c calls putchar and then sends the byte as well. *)
print(c) ==
  putchar_bytes(c)
    \o When(serial_output_enabled /\ ~terminal_serial_output, CrLf(c))

Sent(screen, log) == [d \in Devices |-> IF d = VGA THEN screen ELSE log]

Both(first, second) == [d \in Devices |-> first[d] \o second[d]]

SendsTwice(target, str) ==
  [d \in Devices |->
     IF d = VGA THEN When(VGA \in target, str)
     ELSE When(VGA \in target, terminal_write(str)) \o When(SERIAL \in target, str)]

FirstTargetOnly(target, str) ==
  [d \in Devices |->
     IF d = VGA THEN When(VGA \in target, str)
     ELSE When(VGA \in target, terminal_write(str))
            \o When(target = {SERIAL} /\ ~terminal_serial_output, str)]

(* debug_write: the whole string to the terminal, then the whole string to  *)
(* COM1, byte for byte, unless the terminal echoes.                         *)
debug_write(target, str) ==
  [d \in Devices |->
     IF d = VGA THEN When(VGA \in target, str)
     ELSE When(VGA \in target, terminal_write(str))
            \o When(SERIAL \in target /\ ~terminal_serial_output, str)]

BareLineFeed(str) == str \o <<LF>>

(* The string as it was given, line feeds and all, and a line end. *)
DebugLine(str) == str \o <<CR, LF>>

(* A line of the given level, with debug_level = threshold. *)
debug_format_and_write(level, threshold, target, str) ==
  IF level > threshold THEN Silence ELSE debug_write(target, DebugLine(str))

-----------------------------------------------------------------------------
(* The calls that produce output. *)

Says(kind, text, output) ==
  /\ call' = [kind |-> kind, text |-> text]
  /\ out' = output

putchar(c) ==
  /\ ~halted
  /\ Says("putchar", <<c>>, Sent(<<c>>, putchar_bytes(c)))
  /\ UNCHANGED <<switches, debug, halted>>

(* printf; puts(s) is printf("%s\n", s). *)
printf(str) ==
  /\ ~halted
  /\ Says("printf", str, Sent(str, ForEach(print, str)))
  /\ UNCHANGED <<switches, debug, halted>>

(* debug_log, and debug_error .. debug_trace with their own level. *)
debug_log(level, str) ==
  /\ ~halted
  /\ Says(IF level > debug_level THEN "dropped" ELSE "debug_log", str,
          debug_format_and_write(level, debug_level, debug_target, str))
  /\ UNCHANGED <<switches, debug, halted>>

(* debug_print and debug_vprint ask for no level and add no line end. *)
debug_print(str) ==
  /\ ~halted
  /\ Says("debug_print", str, debug_write(debug_target, str))
  /\ UNCHANGED <<switches, debug, halted>>

(* A row of the dump is one debug_print. *)
debug_hex_dump(rows) ==
  /\ ~halted
  /\ Says("debug_hex_dump", rows,
          [d \in Devices |->
             ForEach(LAMBDA row : debug_write(debug_target, DebugLine(<<row>>))[d], rows)])
  /\ UNCHANGED <<switches, debug, halted>>

(* serial_ok is serial_init_com1's answer. A second call does nothing. *)
debug_init(serial_ok) ==
  /\ ~halted
  /\ ~debug_initialized
  /\ debug_initialized' = TRUE
  /\ debug_level' = INFO
  /\ debug_target' = {VGA} \cup (IF serial_ok THEN {SERIAL} ELSE {})
  /\ Says("debug_init", <<"initialized">>,
          Both(debug_format_and_write(INFO, INFO, debug_target', <<"initialized">>),
               IF serial_ok
               THEN debug_format_and_write(INFO, INFO, debug_target', <<"serial ok">>)
               ELSE debug_format_and_write(WARNING, INFO, debug_target', <<"serial failed">>)))
  /\ UNCHANGED <<switches, halted>>

(* The banner, the message, the registers and the last words: lines of the  *)
(* same kind that follow each other are one line here.                      *)
PanicLines(target, str) ==
  LET line(words) == debug_format_and_write(ERROR, debug_level, target, words)
  IN  Both(line(<<"banner">>), Both(line(str), Both(line(<<"registers">>), line(<<"halted">>))))

KeepsTarget(str) ==
  /\ ~halted
  /\ halted' = TRUE
  /\ Says("panic", str, PanicLines(debug_target, str))
  /\ UNCHANGED <<switches, debug>>

(* Sets the target to DEBUG_TARGET_ALL, leaves debug_level as it is, writes *)
(* its lines with debug_error and halts. panicf formats, then calls it.     *)
panic(str) ==
  /\ ~halted
  /\ debug_target' = Devices
  /\ halted' = TRUE
  /\ Says("panic", str, PanicLines(Devices, str))
  /\ UNCHANGED <<switches, debug_level, debug_initialized>>

exception_names == 32

exception_handler(n) ==
  panic(IF n < exception_names THEN <<"named exception">> ELSE <<"unknown exception">>)

-----------------------------------------------------------------------------
Next ==
  \/ \E enable \in BOOLEAN : terminal_enable_serial(enable)
  \/ \E enable \in BOOLEAN : putchar_enable_serial(enable)
  \/ \E enable \in BOOLEAN : printf_enable_serial(enable)
  \/ \E level \in LogLevels : debug_set_level(level)
  \/ \E target \in SUBSET Devices : debug_set_target(target)
  \/ \E serial_ok \in BOOLEAN : debug_init(serial_ok)
  \/ \E c \in ConsoleChars : putchar(c)
  \/ \E str \in Strings : printf(str)
  \/ \E level \in LogLevels, str \in Strings : debug_log(level, str)
  \/ \E str \in Strings : debug_print(str)
  \/ \E rows \in Dumps : debug_hex_dump(rows)
  \/ \E str \in Strings : panic(str)
  \/ \E n \in Exceptions : exception_handler(n)

Spec == Init /\ [][Next]_vars

-----------------------------------------------------------------------------
(* The level stays in the range of level_prefix, whatever debug_set_level   *)
(* is given, and devices get characters only.                               *)
TypeOK ==
  /\ terminal_serial_output \in BOOLEAN
  /\ putchar_serial_output \in BOOLEAN
  /\ serial_output_enabled \in BOOLEAN
  /\ debug_level \in NONE .. TRACE
  /\ debug_target \subseteq Devices
  /\ debug_initialized \in BOOLEAN
  /\ call \in [kind : Kinds, text : Seq(ConsoleChars)]
  /\ out \in [Devices -> Seq(ConsoleChars)]
  /\ halted \in BOOLEAN

(* How often a text is in a sequence, and how often it went to the device in *)
(* the last call.                                                            *)
Occurrences(text, seq) == Cardinality({i \in DOMAIN seq : seq[i] = text})
Copies(text, device) == Occurrences(text, out[device])

(* While the terminal echoes, the serial log is the screen's text with CR   *)
(* before each LF, whichever layer wrote it and whatever the other switches *)
(* say: nothing is missing, repeated or in another order.                   *)
SerialMirrorsScreen ==
  terminal_serial_output => out[SERIAL] = ForEach(CrLf, out[VGA])

(* "should now avoid duplicate serial output" (debug.c): no layer repeats   *)
(* what a layer below it has sent, so a text is sent once, or as often as   *)
(* the caller has it. Only printf over putchar repeats, when both of libc's *)
(* switches are on and the terminal's is off.                               *)
NoDuplicates ==
  \A text \in Texts :
    \/ Copies(text, SERIAL) <= 1
    \/ Copies(text, SERIAL) <= Occurrences(text, call.text)
    \/ /\ call.kind = "printf"
       /\ putchar_serial_output /\ serial_output_enabled /\ ~terminal_serial_output
       /\ Copies(text, SERIAL) = 2 * Copies(text, VGA)

(* The line feeds of a sequence with no carriage return right before them. *)
BareLineFeeds(seq) == {i \in DOMAIN seq : seq[i] = LF /\ (i = 1 \/ seq[i - 1] # CR)}

(* "CRLF for serial console" (debug.c), "Add CR before LF for serial        *)
(* terminals" (putchar.c): the terminal's echo, putchar, printf and every   *)
(* line end that the kernel adds itself send CR before LF. Only debug_write *)
(* passes on a string as it is: a bare line feed in the log is one that the *)
(* caller of debug_log, debug_print or panic had in its string, and that no *)
(* echo has completed.                                                      *)
LineFeedsAfterReturns ==
  BareLineFeeds(out[SERIAL]) # {} =>
    /\ ~terminal_serial_output
    /\ call.kind \in {"debug_log", "debug_print", "panic"}
    /\ BareLineFeeds(call.text) # {}

(* "This message should appear in both VGA and serial log" (kernel.c): with *)
(* both targets what debug_log (if the level admits it) and debug_print are *)
(* given is once on each, for all settings of the other layers' switches.   *)
BothTargetsReached ==
  call.kind \in {"debug_log", "debug_print"} /\ debug_target = Devices =>
    \A d \in Devices, text \in Texts : Copies(text, d) = Occurrences(text, call.text)

(* "Print panic message to all available outputs" (panic.c): whatever the   *)
(* target was before, if the level admits errors the message is on both     *)
(* devices, once, and so is every line of the panic's own.                  *)
PanicReachesAll ==
  halted /\ debug_level >= ERROR =>
    \A d \in Devices :
      /\ \A text \in {"banner", "registers", "halted"} : Copies(text, d) = 1
      /\ \A text \in Texts \ {"banner", "registers", "halted"} :
            Copies(text, d) = Occurrences(text, call.text)

=============================================================================
