-------------------------- MODULE MCLocalRegistry --------------------------
(* Values for the constants of LocalRegistry. *)
EXTENDS LocalRegistry, TLC

CONSTANTS t1, t2, t3, foo, Foo, bar, v1, v2, d1, d2

\* Foo and foo are two spellings of one crate: one index file, two .crate files per version.
MCKeyOf == [n \in Names |-> IF n = Foo THEN foo ELSE n]

\* Metadata that validate() rejects: any request for Foo with contents d2.
MCValid == {r \in Request : ~(r.name = Foo /\ r.data = d2)}

Symmetry == Permutations(Tasks)

=============================================================================
