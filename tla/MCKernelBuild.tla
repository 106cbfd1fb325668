--------------------------- MODULE MCKernelBuild ---------------------------
(* The kernel source preparation as TLC checks it: the real chain and tree. *)
EXTENDS KernelBuild, KernelChain

TheChain == FixupChain
TheTree  == PatchedTree
=============================================================================
