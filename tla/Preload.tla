------------------------------ MODULE Preload ------------------------------
(***************************************************************************)
(* The functions that the preload library replaces: those that allocate    *)
(* (PreloadRouting) and those that copy bytes (MemoryCopy), which the      *)
(* former use before libc can be called.  The bytes of the two are their   *)
(* own: a copy here is of any bytes, and interrupted by others.            *)
(***************************************************************************)
EXTENDS PreloadRouting

CONSTANTS Bytes, Depth, MaxCalls

VARIABLES bytes, frames, depth, calls

Memory == INSTANCE MemoryCopy WITH mem <- bytes

\* A call that returns has moved the bytes that the source had when it was
\* called, whatever interrupted it, and no byte outside the destination changes
\* (memmove, lib.rs:547).
CopiesExact == [][Memory!Exact]_(Memory!vars)
=============================================================================
