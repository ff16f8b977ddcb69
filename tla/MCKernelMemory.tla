--------------------------- MODULE MCKernelMemory ---------------------------
(***************************************************************************)
(* KernelMemory with the sizes the kernel really uses: 52 bytes for a task *)
(* control block, 2048 and 4096 in test_memory_management.  The pool has   *)
(* eight frames (one byte of the bitmap) so that it runs out; a page table *)
(* covers two pages so that the heap  needs more than one.                 *)
(***************************************************************************)
EXTENDS KernelMemory

MCSizes == {52, 2048, 4096}
=============================================================================
