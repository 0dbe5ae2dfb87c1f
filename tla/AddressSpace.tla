---------------------------- MODULE AddressSpace ----------------------------
(***************************************************************************)
(* What the paging subsystem promises to its callers, with no bitmap, no   *)
(* page table and no TLB: a pool of physical pages, each held by at most   *)
(* one caller, and a function that takes each virtual page of the callers  *)
(* to the physical page it was last mapped to.                             *)
(*                                                                         *)
(* A call that finds no memory (kmalloc_physical_page returning NULL,      *)
(* map_page_to_frame returning without a page table) changes neither, so   *)
(* it is a stuttering step here.                                           *)
(***************************************************************************)

CONSTANTS
  Pages,       \* the virtual pages callers may map
  Allocatable, \* the physical pages the kernel may hand out
  None         \* "not mapped"

VARIABLES
  held,        \* the physical pages callers have been given and not returned
  mapping      \* virtual page |-> physical page, or None

vars == <<held, mapping>>

Init ==
  /\ held = {}
  /\ mapping = [v \in Pages |-> None]

(* A page that no caller holds is handed out. *)
Alloc ==
  /\ \E f \in Allocatable \ held : held' = held \cup {f}
  /\ UNCHANGED mapping

(* A caller returns a page that it holds and has unmapped everywhere. *)
Free ==
  /\ \E f \in held :
       /\ \A v \in Pages : mapping[v] # f
       /\ held' = held \ {f}
  /\ UNCHANGED mapping

(* Exactly one virtual page changes, and it leads to a page callers hold. *)
Map ==
  /\ \E v \in Pages, f \in held : mapping' = [mapping EXCEPT ![v] = f]
  /\ UNCHANGED held

Unmap ==
  /\ \E v \in Pages : mapping' = [mapping EXCEPT ![v] = None]
  /\ UNCHANGED held

Next == Alloc \/ Free \/ Map \/ Unmap

Spec == Init /\ [][Next]_vars

=============================================================================
