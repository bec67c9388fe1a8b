--------------------------- MODULE MCAtomicWrite ---------------------------
(***************************************************************************)
(* Instances of AtomicWrite for TLC.                                       *)
(***************************************************************************)
EXTENDS AtomicWrite, TLC

CONSTANTS c1, c2, c3, in, out, p, q

\* A document signed to another path and, in place, by the same process and by another.
MCInputOf   == (c1 :> in @@ c2 :> out @@ c3 :> in)
MCOutputOf  == (c1 :> out @@ c2 :> out @@ c3 :> out)
MCProcessOf == (c1 :> p @@ c2 :> p @@ c3 :> q)

\* Two threads of one process, with the same output.
ThreadsInputOf   == (c1 :> in @@ c2 :> in)
ThreadsOutputOf  == (c1 :> out @@ c2 :> out)
ThreadsProcessOf == (c1 :> p @@ c2 :> p)
=============================================================================
