----------------------------- MODULE PublishBody -----------------------------
(***************************************************************************)
(* The body of a publish request: parse_publish_body                       *)
(* (src/src/endpoints.rs) and its inverse, with which a publish is         *)
(* forwarded (src/src/registry/remote.rs).  A body is a sequence of bytes: *)
(*     length of the JSON, JSON, length of the .crate file, .crate file    *)
(* with little-endian lengths.  A byte has Base values and a length two    *)
(* bytes, in place of 256 and four.                                        *)
(***************************************************************************)
EXTENDS Naturals, Sequences

CONSTANTS
  Base,        \* the values of a byte
  Texts,       \* JSON texts that mean something, sequences of bytes
  Metadata,    \* what they mean
  Meaning,     \* serde_json::from_slice, [Texts -> Metadata]
  Serialised,  \* serde_json::to_vec, [Metadata -> Texts]
  NotJson

Byte == 0..(Base - 1)

\* A length field holds the length of every text that is forwarded.
ASSUME TextAssumption ==
  /\ Base \in Nat \ {0, 1}
  /\ Texts \subseteq Seq(Byte)
  /\ Meaning \in [Texts -> Metadata]
  /\ Serialised \in [Metadata -> Texts]
  /\ \A m \in Metadata : Meaning[Serialised[m]] = m
  /\ \A t \in Texts : Len(t) < Base * Base
  /\ NotJson \notin Metadata

FromSlice(t) == IF t \in Texts THEN Meaning[t] ELSE NotJson

-----------------------------------------------------------------------------
\* u32::from_le_bytes, of the length field that starts at byte i.
LengthAt(b, i) == b[i] + Base * b[i + 1]

\* to_le_bytes, of the length as u32: what does not fit is cut off.
LengthField(n) == <<n % Base, (n \div Base) % Base>>

Malformed == [meta |-> NotJson, data |-> <<>>]

\* The .crate file is taken to reach to the end.   (slip)
ParseToTheEnd(b) ==
  LET json == LengthAt(b, 1)
      meta == FromSlice(SubSeq(b, 3, 2 + json))
  IN  IF Len(b) < 4 \/ Len(b) < 2 + json + 2 \/ meta = NotJson
        THEN Malformed
        ELSE [meta |-> meta, data |-> SubSeq(b, 5 + json, Len(b))]

\* Every length is compared with what there is before it is used; bytes after
\* the .crate file are ignored.
Parse(b) ==
  LET json == LengthAt(b, 1)
      meta == FromSlice(SubSeq(b, 3, 2 + json))
      data == LengthAt(b, 3 + json)
  IN  IF Len(b) < 4 \/ Len(b) < 2 + json + 2
        THEN Malformed
      ELSE IF meta = NotJson \/ Len(b) < 4 + json + data
        THEN Malformed
        ELSE [meta |-> meta, data |-> SubSeq(b, 5 + json, 4 + json + data)]

Encode(meta, data) ==
  LET text == Serialised[meta]
  IN  LengthField(Len(text)) \o text \o LengthField(Len(data)) \o data

-----------------------------------------------------------------------------
\* Reference: the JSON ends at byte i and the .crate file at byte k.
Framed(b, i, k) ==
  /\ 2 <= i /\ i + 2 <= k /\ k <= Len(b)
  /\ SubSeq(b, 1, 2) = LengthField(i - 2)
  /\ SubSeq(b, i + 1, i + 2) = LengthField(k - i - 2)
  /\ SubSeq(b, 3, i) \in Texts

\* A body is accepted if and only if it begins with a framed request, and then
\* read as that one: no length, however wrong, makes parse_publish_body read
\* outside of the body or take bytes that do not belong to a part.
ParsedAsFramed(b) ==
  IF Parse(b).meta = NotJson
    THEN \A i, k \in 0..Len(b) : ~Framed(b, i, k)
    ELSE \E i, k \in 0..Len(b) :
           /\ Framed(b, i, k)
           /\ Parse(b) = [meta |-> Meaning[SubSeq(b, 3, i)],
                          data |-> SubSeq(b, i + 3, k)]

=============================================================================
