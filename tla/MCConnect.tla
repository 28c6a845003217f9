----------------------------- MODULE MCConnect -----------------------------
(* Values for the constants of Connect: a server without a remote registry. *)
EXTENDS Connect, TLC

CONSTANTS cratesIo, indexCratesIo, staticCratesIo, other

MCHosts == {cratesIo, indexCratesIo, staticCratesIo, other}
MCSubdomainOf ==
  {<<indexCratesIo, cratesIo>>, <<staticCratesIo, cratesIo>>}
MCApi == <<"https://crates.io">>
MCIndex == <<"https://index.crates.io">>
MCHostOf == (MCApi :> cratesIo) @@ (MCIndex :> indexCratesIo)
MCUnits == [w \in Ways |-> 2]
MCSetups ==
  {[specs |-> <<FromStr(Arg("local", NoText))>>, proxy |-> TRUE]}

=============================================================================
