------------------------------ MODULE MCKernel ------------------------------
(***************************************************************************)
(* Frame 0 is low memory with the VGA buffer, then .bootstrap_text, the    *)
(* directory, the table, two pages of boot stack and .text; four frames    *)
(* are free, as many as the memory test needs. The loader leaves its       *)
(* information in low memory or behind the kernel, with the right magic or *)
(* not.                                                                    *)
(***************************************************************************)
EXTENDS Kernel

MCLowFrames == {0}
MCKernelFrames == 1 .. 6
MCTestAddress == <<3, 0>>
MCClientPages == {MCTestAddress}
MCMagics == {"MULTIBOOT2_BOOTLOADER_MAGIC", "another magic"}
MCInfos == {0, 7}

=============================================================================
