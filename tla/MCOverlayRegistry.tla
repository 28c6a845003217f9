------------------------- MODULE MCOverlayRegistry -------------------------
(* Values for the constants of OverlayRegistry. *)
EXTENDS OverlayRegistry, TLC

CONSTANTS t1, t2, r1, foo, Foo, v1, v2, d1, d2

MCKeyOf == [n \in Names |-> IF n = Foo THEN foo ELSE n]

\* The upstream has version v1 of foo, with contents d2.
MCUpstreamIndex ==
  [k \in Keys |-> {[name |-> foo, vers |-> v1, cksum |-> Sha256(d2)]}]
MCUpstreamBlob ==
  [f \in Names \X Versions |-> IF f = <<foo, v1>> THEN d2 ELSE NoFile]

Symmetry == Permutations(Tasks)

=============================================================================
