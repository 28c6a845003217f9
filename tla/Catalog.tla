------------------------------ MODULE Catalog ------------------------------
(***************************************************************************)
(* What a registry promises of its listings, whatever it keeps them in: a  *)
(* publish takes effect at one instant, on the listing of its own crate    *)
(* only, and is acknowledged at that instant; a publish that fails leaves  *)
(* that listing as it was, or with a part of what it would have made of it.*)
(* "Publish a crate (store crate file and update index)",                  *)
(* src/src/registry/mod.rs:87.                                             *)
(***************************************************************************)
CONSTANTS Tasks, Keys, MayFail,
          Entry      \* entries; e.vers is the version an entry lists

VARIABLES
  listing,   \* the entries of each crate
  outcome,   \* how each request ended, if it has
  request    \* what each request asks for: an entry in the listing of a key

vars == <<listing, outcome, request>>

Init ==
  /\ listing = [k \in Keys |-> {}]
  /\ outcome = [t \in Tasks |-> "none"]
  /\ request \in [Tasks -> [key : Keys, entry : Entry]]

\* The listing of t's crate once t is published: one entry for its version.
After(t) ==
  LET new == request[t].entry
  IN  {e \in listing[request[t].key] : e.vers # new.vers} \cup {new}

Publish(t) ==
  /\ outcome[t] = "none"
  /\ outcome' = [outcome EXCEPT ![t] = "ok"]
  /\ listing' = [listing EXCEPT ![request[t].key] = After(t)]
  /\ UNCHANGED request

Refuse(t) ==
  /\ outcome[t] = "none"
  /\ outcome' = [outcome EXCEPT ![t] = "refused"]
  /\ UNCHANGED <<listing, request>>

Fail(t) ==
  /\ MayFail
  /\ outcome[t] = "none"
  /\ outcome' = [outcome EXCEPT ![t] = "failed"]
  /\ \E l \in {listing[request[t].key]} \cup SUBSET After(t) :
       listing' = [listing EXCEPT ![request[t].key] = l]
  /\ UNCHANGED request

Next == \E t \in Tasks : Publish(t) \/ Refuse(t) \/ Fail(t)

Spec == Init /\ [][Next]_vars

=============================================================================
