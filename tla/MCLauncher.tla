----------------------------- MODULE MCLauncher -----------------------------
(* Values for the constants of Launcher. *)
EXTENDS Launcher

CONSTANTS first, second, apart, p8080, p9090, inTemp, own, notGiven

\* The first process uses the defaults, the second another file, and the one
\* apart another port: each shares one thing with the first.
MCPort == [i \in Processes |-> IF i = apart THEN p9090 ELSE p8080]
MCCaCertOut == [i \in Processes |-> IF i = second THEN own ELSE notGiven]

=============================================================================
