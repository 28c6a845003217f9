---------------------------- MODULE MCLayerStack ----------------------------
(* Values for the constants of LayerStack. *)
EXTENDS LayerStack, FiniteSets

CONSTANTS v1, v2

\* The first byte of a JSON text is the version and whether other rules than
\* those on the name are kept; the others are the characters of the name.
Kind == [x \in 0..4 |-> <<"letter", "digit", "sign", "lead", "rest">>[x + 1]]
Spelled(t) == [i \in 1..(Len(t) - 1) |-> Kind[t[i + 1]]]

Small == UNION {[1..n -> 0..4] : n \in 1..3}
Longer == {0} \X (0..4) \X (0..4) \X (0..4)
          \cup {<<0, 0, x, y, z>> : x \in {0, 3}, y, z \in {0, 1, 3, 4}}
          \cup {<<0, 0, 0, 0, x, y>> : x, y \in {0, 3, 4}}

MCMeaning == [t \in {u \in Small \cup Longer : u[1] <= 2 /\ Spelled(u) \in Name} |->
  [vers |-> IF t[1] = 2 THEN v2 ELSE v1, flawless |-> t[1] # 1, name |-> Spelled(t)]]

MCJson == DOMAIN MCMeaning
MCMetadata == {MCMeaning[t] : t \in MCJson}
MCSerialised == [m \in MCMetadata |-> CHOOSE t \in MCJson : MCMeaning[t] = m]

Frame(t, data) == LengthField(Len(t)) \o t \o LengthField(Len(data)) \o data

MCWant == <<"letter">>
Cr(v, d) == [name |-> MCWant, vers |-> v, data |-> <<d>>]

\* Bodies of every name; bodies that are cut, too long, or claim wrong lengths.
NameBodies == {Frame(t, <<0>>) : t \in MCJson}
Near(b) == {SubSeq(b, 1, n) : n \in 0..Len(b)}
           \cup {Append(b, x) : x \in {0, 5}}
           \cup {[b EXCEPT ![i] = x] : i \in DOMAIN b, x \in 0..3}
OddBodies == UNION {Near(Frame(t, d)) : t \in {<<0, 0>>, <<2>>, <<0, 1, 0>>},
                                         d \in {<<>>, <<3>>, <<1, 0>>}}
             \cup UNION {[1..n -> 0..2] : n \in 0..5}

Opts(n, readOnly, permissive) ==
  [specs : [1..n -> Kinds], readOnly : readOnly, permissive : permissive]

Alone ==
  [options : Opts(1, BOOLEAN, BOOLEAN), had : {<<{}>>},
   bodies : {NameBodies \cup OddBodies}]

Has == {{}, {Cr(v1, 1)}, {Cr(v1, 2), Cr(v2, 2)}}
Stacked(n, bodies) ==
  [options : Opts(n, {FALSE}, {FALSE}), had : [1..n -> Has], bodies : {bodies}]

Mine1 == Frame(<<0, 0>>, <<3>>)
Mine2 == Frame(<<2, 0>>, <<3>>)

MCWorkloads == Alone \cup Stacked(2, {Mine1, Mine2}) \cup Stacked(3, {Mine1})
MCOthers == {Cr(v1, 4)}

=============================================================================
