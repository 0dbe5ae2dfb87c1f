------------------------------ MODULE MCPaging ------------------------------
(***************************************************************************)
(* A machine with small page tables: frame 0 is low memory, frames 1 and 2 *)
(* hold boot_page_directory and boot_page_table1. Directory entry 0 is the *)
(* identity map, 1 the kernel window, 2 the part of the window that the    *)
(* boot table does not reach, and the last one maps the directory itself.  *)
(* Callers map two pages that share a page table and one that does not.    *)
(***************************************************************************)
EXTENDS Paging

MCLowFrames == {0}
MCKernelFrames == {1, 2}
MCClientPages == {<<3, 0>>, <<3, 1>>, <<4, 0>>}

=============================================================================
