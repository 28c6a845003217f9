------------------------- MODULE PublishBodyProofs -------------------------
(***************************************************************************)
(* Proofs about PublishBody, for every base, every set of texts and every  *)
(* body: what is encoded is read back, and what is read is what is framed. *)
(***************************************************************************)
EXTENDS PublishBody, SequenceTheorems, TLAPS

-----------------------------------------------------------------------------
(* Arithmetic of two digits. *)


\* Division with a remainder.
LEMMA DivMod ==
  ASSUME NEW n \in Nat, NEW b \in Nat \ {0}
  PROVE  /\ n \div b \in Nat /\ n % b \in 0..(b - 1)
         /\ n = b * (n \div b) + (n % b)
BY Z3

\* A number of two digits has a quotient of one.
LEMMA SmallQuotient ==
  ASSUME NEW b \in Nat \ {0}, NEW q \in Nat, NEW r \in Nat, NEW n \in Nat,
         n = b * q + r, n < b * b
  PROVE  q < b
<1> SUFFICES ASSUME q >= b PROVE FALSE
  OBVIOUS
<1>1. b * q >= b * b
  BY Z3
<1> QED BY <1>1

\* One digit is its own remainder.
LEMMA SmallMod ==
  ASSUME NEW b \in Nat \ {0}, NEW q \in Nat, q < b
  PROVE  q % b = q
BY Z3

\* A length of two bytes is written in full.
LEMMA FieldValue ==
  ASSUME NEW n \in Nat, n < Base * Base
  PROVE  /\ LengthField(n) \in Seq(Byte)
         /\ Len(LengthField(n)) = 2
         /\ LengthField(n)[1] + Base * LengthField(n)[2] = n
<1>1. Base \in Nat \ {0}
  BY TextAssumption
<1> DEFINE q == n \div Base
           r == n % Base
<1>2. /\ q \in Nat /\ r \in 0..(Base - 1)
      /\ n = Base * q + r
  BY <1>1, DivMod
<1> HIDE DEF q, r
<1>3. q < Base
  BY <1>1, <1>2, SmallQuotient
<1>4. q % Base = q
  BY <1>1, <1>2, <1>3, SmallMod
<1>5. LengthField(n) = <<r, q>>
  BY <1>4 DEF LengthField, q, r
<1>6. r \in Byte /\ q \in Byte
  BY <1>1, <1>2, <1>3 DEF Byte
<1>7. r + Base * q = n
  BY <1>1, <1>2
<1> QED BY <1>5, <1>6, <1>7

-----------------------------------------------------------------------------
(* Pieces of a sequence. *)

\* Where the elements of two sequences are after their concatenation.
LEMMA Joined ==
  ASSUME NEW S, NEW x \in Seq(S), NEW y \in Seq(S)
  PROVE  /\ x \o y \in Seq(S)
         /\ Len(x) \in Nat /\ Len(y) \in Nat
         /\ Len(x \o y) = Len(x) + Len(y)
         /\ \A i \in 1..Len(x) : (x \o y)[i] = x[i]
         /\ \A i \in 1..Len(y) : (x \o y)[Len(x) + i] = y[i]
<1>1. /\ x \o y \in Seq(S)
      /\ Len(x \o y) = Len(x) + Len(y)
      /\ \A i \in 1..(Len(x) + Len(y)) :
           (x \o y)[i] = IF i <= Len(x) THEN x[i] ELSE y[i - Len(x)]
  BY ConcatProperties
<1>2. Len(x) \in Nat /\ Len(y) \in Nat
  BY LenProperties
<1>3. \A i \in 1..Len(x) : (x \o y)[i] = x[i]
  BY <1>1, <1>2
<1>4. ASSUME NEW i \in 1..Len(y)
      PROVE  (x \o y)[Len(x) + i] = y[i]
  <2>1. /\ Len(x) + i \in 1..(Len(x) + Len(y))
        /\ ~(Len(x) + i <= Len(x)) /\ (Len(x) + i) - Len(x) = i
    BY <1>2
  <2> QED BY <1>1, <2>1
<1> QED BY <1>1, <1>2, <1>3, <1>4

\* A piece that is found element by element is cut out by SubSeq.
LEMMA CutOut ==
  ASSUME NEW S, NEW b \in Seq(S), NEW t \in Seq(S), NEW k \in Nat,
         k + Len(t) <= Len(b),
         \A i \in 1..Len(t) : b[k + i] = t[i]
  PROVE  SubSeq(b, k + 1, k + Len(t)) = t
<1> DEFINE n == k + Len(t)
           u == SubSeq(b, k + 1, n)
<1>1. Len(t) \in Nat /\ Len(b) \in Nat
  BY LenProperties
<1>2. n \in Int /\ k + 1 \in Int /\ n - (k + 1) + 1 = Len(t)
  BY <1>1
<1>3. \A i \in (k + 1)..n : b[i] \in S
  BY <1>1, LenProperties
<1> HIDE DEF n
<1>4. /\ u \in Seq(S)
      /\ Len(u) = IF k + 1 <= n THEN n - (k + 1) + 1 ELSE 0
      /\ \A i \in 1..(n - (k + 1) + 1) : u[i] = b[k + 1 + i - 1]
  BY <1>2, <1>3, SubSeqProperties
<1> HIDE DEF u
<1>5. Len(u) = Len(t)
  BY <1>1, <1>2, <1>4
<1>6. ASSUME NEW i \in 1..Len(u)
      PROVE  u[i] = t[i]
  <2>1. u[i] = b[k + 1 + i - 1] /\ k + 1 + i - 1 = k + i
    BY <1>1, <1>2, <1>4, <1>5
  <2> QED BY <1>5, <2>1
<1> QED BY <1>4, <1>5, <1>6, SeqEqual DEF u, n

\* Four pieces in a row, the first and the third of two bytes, each found where
\* the lengths of the others put it.
InARow(b, f, t, g, d) ==
  /\ Len(b) = 4 + Len(t) + Len(d)
  /\ b[1] = f[1] /\ b[2] = f[2]
  /\ SubSeq(b, 3, 2 + Len(t)) = t
  /\ b[3 + Len(t)] = g[1] /\ b[4 + Len(t)] = g[2]
  /\ SubSeq(b, 5 + Len(t), 4 + Len(t) + Len(d)) = d

\* A concatenation of four pieces is such a row.
LEMMA FourPieces ==
  ASSUME NEW S, NEW f \in Seq(S), NEW t \in Seq(S), NEW g \in Seq(S),
         NEW d \in Seq(S), Len(f) = 2, Len(g) = 2
  PROVE  /\ f \o t \o g \o d \in Seq(S)
         /\ InARow(f \o t \o g \o d, f, t, g, d)
<1> DEFINE x == f \o t
           y == x \o g
           b == f \o t \o g \o d
<1>0. \A v, w \in Seq(S) :
        /\ v \o w \in Seq(S)
        /\ Len(v) \in Nat /\ Len(w) \in Nat
        /\ Len(v \o w) = Len(v) + Len(w)
        /\ \A i \in 1..Len(v) : (v \o w)[i] = v[i]
        /\ \A i \in 1..Len(w) : (v \o w)[Len(v) + i] = w[i]
  BY Joined
<1>1. /\ x \in Seq(S) /\ Len(x) = 2 + Len(t) /\ Len(t) \in Nat
      /\ \A i \in 1..2 : x[i] = f[i]
      /\ \A i \in 1..Len(t) : x[2 + i] = t[i]
  <2>1. /\ x \in Seq(S) /\ Len(t) \in Nat /\ Len(x) = Len(f) + Len(t)
        /\ \A i \in 1..Len(f) : x[i] = f[i]
        /\ \A i \in 1..Len(t) : x[Len(f) + i] = t[i]
    BY <1>0, Zenon
  <2> QED BY <2>1
<1> HIDE DEF x
<1>2. /\ y \in Seq(S) /\ Len(y) = 4 + Len(t)
      /\ \A i \in 1..(2 + Len(t)) : y[i] = x[i]
      /\ \A i \in 1..2 : y[2 + Len(t) + i] = g[i]
  <2>1. /\ y \in Seq(S) /\ Len(y) = Len(x) + Len(g)
        /\ \A i \in 1..Len(x) : y[i] = x[i]
        /\ \A i \in 1..Len(g) : y[Len(x) + i] = g[i]
    BY <1>0, <1>1, Zenon
  <2> QED BY <1>1, <2>1
<1>3. b = y \o d
  BY DEF x
<1> HIDE DEF y, b
<1>4. /\ b \in Seq(S) /\ Len(b) = 4 + Len(t) + Len(d) /\ Len(d) \in Nat
      /\ \A i \in 1..(4 + Len(t)) : b[i] = y[i]
      /\ \A i \in 1..Len(d) : b[4 + Len(t) + i] = d[i]
  <2>1. /\ y \o d \in Seq(S) /\ Len(y \o d) = Len(y) + Len(d) /\ Len(d) \in Nat
        /\ \A i \in 1..Len(y) : (y \o d)[i] = y[i]
        /\ \A i \in 1..Len(d) : (y \o d)[Len(y) + i] = d[i]
    BY <1>0, <1>2, Zenon
  <2> QED BY <1>2, <1>3, <2>1
<1>5. b[1] = f[1] /\ b[2] = f[2]
  BY <1>1, <1>2, <1>4
<1>6. b[3 + Len(t)] = g[1] /\ b[4 + Len(t)] = g[2]
  <2>1. y[2 + Len(t) + 1] = g[1] /\ y[2 + Len(t) + 2] = g[2]
    BY <1>2
  <2>2. /\ 2 + Len(t) + 1 = 3 + Len(t) /\ 2 + Len(t) + 2 = 4 + Len(t)
        /\ 3 + Len(t) \in 1..(4 + Len(t)) /\ 4 + Len(t) \in 1..(4 + Len(t))
    BY <1>1
  <2>3. b[3 + Len(t)] = y[3 + Len(t)] /\ b[4 + Len(t)] = y[4 + Len(t)]
    BY <1>4, <2>2
  <2> QED BY <2>1, <2>2, <2>3
<1>7. \A i \in 1..Len(t) : b[2 + i] = t[i]
  BY <1>1, <1>2, <1>4
<1>8. SubSeq(b, 2 + 1, 2 + Len(t)) = t
  BY <1>1, <1>4, <1>7, CutOut
<1>9. SubSeq(b, (4 + Len(t)) + 1, (4 + Len(t)) + Len(d)) = d
  <2>1. 4 + Len(t) \in Nat /\ (4 + Len(t)) + Len(d) <= Len(b)
    BY <1>1, <1>4
  <2> QED BY <1>4, <2>1, CutOut
<1>10. (4 + Len(t)) + 1 = 5 + Len(t)
  BY <1>1
<1> QED BY <1>4, <1>5, <1>6, <1>8, <1>9, <1>10 DEF InARow, b

-----------------------------------------------------------------------------
\* What is encoded to be forwarded (registry/remote.rs) is what
\* parse_publish_body (endpoints.rs) reads from it, for every file that a length
\* field can describe.
THEOREM RoundTrip ==
  ASSUME NEW m \in Metadata, NEW d \in Seq(Byte), Len(d) < Base * Base
  PROVE  /\ Encode(m, d) \in Seq(Byte)
         /\ Parse(Encode(m, d)) = [meta |-> m, data |-> d]
<1> DEFINE t == Serialised[m]
           f == LengthField(Len(t))
           g == LengthField(Len(d))
           b == Encode(m, d)
<1>1. /\ t \in Texts /\ t \in Seq(Byte) /\ Len(t) < Base * Base
      /\ Meaning[t] = m /\ m # NotJson
      /\ Base \in Nat
  BY TextAssumption
<1>2. Len(t) \in Nat /\ Len(d) \in Nat
  BY <1>1, LenProperties
<1>3. /\ f \in Seq(Byte) /\ Len(f) = 2 /\ f[1] + Base * f[2] = Len(t)
      /\ g \in Seq(Byte) /\ Len(g) = 2 /\ g[1] + Base * g[2] = Len(d)
  BY <1>1, <1>2, FieldValue
<1>4. b = f \o t \o g \o d
  BY DEF Encode
<1> HIDE DEF t, f, g, b
<1>5. /\ b \in Seq(Byte)
      /\ Len(b) = 4 + Len(t) + Len(d)
      /\ b[1] = f[1] /\ b[2] = f[2]
      /\ SubSeq(b, 3, 2 + Len(t)) = t
      /\ b[3 + Len(t)] = g[1] /\ b[4 + Len(t)] = g[2]
      /\ SubSeq(b, 5 + Len(t), 4 + Len(t) + Len(d)) = d
  <2>1. b \in Seq(Byte) /\ InARow(b, f, t, g, d)
    BY <1>1, <1>3, <1>4, FourPieces
  <2> QED BY <2>1 DEF InARow
<1>6. LengthAt(b, 1) = Len(t)
  BY <1>3, <1>5 DEF LengthAt
<1>7. LengthAt(b, 3 + Len(t)) = Len(d)
  <2>1. 3 + Len(t) + 1 = 4 + Len(t)
    BY <1>2
  <2> QED BY <1>3, <1>5, <2>1 DEF LengthAt
<1>8. FromSlice(SubSeq(b, 3, 2 + Len(t))) = m
  BY <1>1, <1>5 DEF FromSlice
<1>9. /\ ~(Len(b) < 4) /\ ~(Len(b) < 2 + Len(t) + 2)
      /\ ~(Len(b) < 4 + Len(t) + Len(d))
  BY <1>2, <1>5
<1>10. Parse(b) = [meta |-> m, data |-> d]
  BY <1>1, <1>5, <1>6, <1>7, <1>8, <1>9 DEF Parse
<1> QED BY <1>5, <1>10 DEF b

-----------------------------------------------------------------------------
\* A length field holds the length, or, of a length too great for it, less.
LEMMA FieldHolds ==
  ASSUME NEW n \in Nat
  PROVE  /\ LengthField(n)[1] + Base * LengthField(n)[2] \in 0..n
         /\ n < Base * Base => LengthField(n)[1] + Base * LengthField(n)[2] = n
<1>1. Base \in Nat \ {0}
  BY TextAssumption
<1> DEFINE q == n \div Base
           r == n % Base
           w == q % Base
<1>2. q \in Nat /\ r \in 0..(Base - 1) /\ n = Base * q + r
  BY <1>1, DivMod
<1> HIDE DEF q, r
<1>3. w \in 0..(Base - 1) /\ w <= q
  <2>1. q \div Base \in Nat /\ w \in 0..(Base - 1) /\ q = Base * (q \div Base) + w
    BY <1>1, <1>2, DivMod
  <2> DEFINE z == Base * (q \div Base)
  <2>2. z \in Nat
    BY <1>1, <2>1
  <2> HIDE DEF w
  <2>3. q = z + w
    BY <2>1
  <2> HIDE DEF z
  <2> QED BY <1>1, <1>2, <2>1, <2>2, <2>3
<1> HIDE DEF w
<1>4. LengthField(n)[1] = r /\ LengthField(n)[2] = w
  BY DEF LengthField, r, q, w
<1>5. r + Base * w \in 0..n
  <2>1. Base * w <= Base * q /\ Base * w \in Nat /\ Base * q \in Nat
    BY <1>1, <1>2, <1>3, Z3
  <2> QED BY <1>1, <1>2, <2>1
<1> QED BY <1>4, <1>5, FieldValue

\* A length that is read is the one that the field is written from.
LEMMA FieldRead ==
  ASSUME NEW x \in Byte, NEW y \in Byte
  PROVE  /\ x + Base * y \in Nat
         /\ LengthField(x + Base * y) = <<x, y>>
<1> DEFINE n == x + Base * y
<1>1. Base \in Nat \ {0} /\ x \in Nat /\ y \in Nat /\ x < Base /\ y < Base
  BY TextAssumption DEF Byte
<1>2. n \in Nat
  BY <1>1, Z3
<1>3. (n % Base) = x /\ (n \div Base) = y
  BY <1>1, <1>2, Z3
<1>4. (y % Base) = y
  BY <1>1, SmallMod
<1> QED BY <1>2, <1>3, <1>4 DEF LengthField

\* Two bytes cut out of a sequence of bytes.
LEMMA TwoBytes ==
  ASSUME NEW b \in Seq(Byte), NEW i \in Nat \ {0}, i + 1 <= Len(b)
  PROVE  SubSeq(b, i, i + 1) = <<b[i], b[i + 1]>>
<1>1. Len(b) \in Nat /\ b \in [1..Len(b) -> Byte]
  BY LenProperties
<1>2. /\ b[i] \in Byte /\ b[i + 1] \in Byte
      /\ \A j \in i..(i + 1) : b[j] \in Byte
  BY <1>1
<1> DEFINE u == SubSeq(b, i, i + 1)
           v == <<b[i], b[i + 1]>>
<1>3. /\ u \in Seq(Byte)
      /\ Len(u) = IF i <= i + 1 THEN i + 1 - i + 1 ELSE 0
      /\ \A j \in 1..(i + 1 - i + 1) : u[j] = b[i + j - 1]
  BY <1>2, SubSeqProperties
<1> HIDE DEF u
<1>4. Len(u) = 2 /\ u[1] = b[i] /\ u[2] = b[i + 1]
  <2>1. i + 1 - i + 1 = 2 /\ i + 1 - 1 = i /\ i + 2 - 1 = i + 1 /\ i <= i + 1
    OBVIOUS
  <2>2. 1 \in 1..2 /\ 2 \in 1..2
    OBVIOUS
  <2> QED BY <1>3, <2>1, <2>2
<1>5. v \in Seq(Byte) /\ Len(v) = 2 /\ v[1] = b[i] /\ v[2] = b[i + 1]
  BY <1>2
<1> HIDE DEF v
<1>6. \A j \in 1..Len(u) : u[j] = v[j]
  BY <1>4, <1>5
<1> QED BY <1>3, <1>4, <1>5, <1>6, SeqEqual DEF u, v

\* parse_publish_body accepts exactly what is framed, and reads it so: every
\* body, every base and every set of texts.
THEOREM ParsesFrames ==
  ASSUME NEW b \in Seq(Byte)
  PROVE  ParsedAsFramed(b)
<1> DEFINE json == LengthAt(b, 1)
           data == LengthAt(b, 3 + json)
           meta == FromSlice(SubSeq(b, 3, 2 + json))
<1>1. /\ Len(b) \in Nat /\ b \in [1..Len(b) -> Byte]
      /\ Base \in Nat \ {0} /\ Byte \subseteq Nat
  BY TextAssumption, LenProperties DEF Byte
<1>2. CASE Parse(b).meta = NotJson
  <2> SUFFICES ASSUME NEW i \in 0..Len(b), NEW k \in 0..Len(b), Framed(b, i, k)
               PROVE  FALSE
    BY <1>2 DEF ParsedAsFramed
  <2>1. /\ 2 <= i /\ i + 2 <= k /\ k <= Len(b) /\ i \in Nat /\ k \in Nat
        /\ SubSeq(b, 1, 2) = LengthField(i - 2)
        /\ SubSeq(b, i + 1, i + 2) = LengthField(k - i - 2)
        /\ SubSeq(b, 3, i) \in Texts
    BY <1>1 DEF Framed
  <2>2. i - 2 < Base * Base
    <3>1. Len(SubSeq(b, 3, i)) = i - 2
      <4>1. \A j \in 3..i : b[j] \in Byte
        BY <1>1, <2>1
      <4>2. Len(SubSeq(b, 3, i)) = IF 3 <= i THEN i - 3 + 1 ELSE 0
        BY <2>1, <4>1, SubSeqProperties
      <4> QED BY <2>1, <4>2
    <3> QED BY <2>1, <3>1, TextAssumption
  <2>3. json = i - 2
    <3>1. <<b[1], b[2]>> = LengthField(i - 2)
      <4>1. SubSeq(b, 1, 1 + 1) = <<b[1], b[1 + 1]>>
        BY <1>1, <2>1, TwoBytes
      <4> QED BY <2>1, <4>1
    <3>2. i - 2 \in Nat
      BY <2>1
    <3>3. LengthField(i - 2)[1] + Base * LengthField(i - 2)[2] = i - 2
      BY <2>2, <3>2, FieldHolds
    <3>4. b[1] = LengthField(i - 2)[1] /\ b[2] = LengthField(i - 2)[2]
      BY <3>1 DEF LengthField
    <3> QED BY <3>3, <3>4 DEF LengthAt
  <2>4. data \in 0..(k - i - 2)
    <3>1. <<b[i + 1], b[i + 2]>> = LengthField(k - i - 2)
      <4>1. SubSeq(b, i + 1, (i + 1) + 1) = <<b[i + 1], b[(i + 1) + 1]>>
        BY <1>1, <2>1, TwoBytes
      <4> QED BY <2>1, <4>1
    <3>2. k - i - 2 \in Nat
      BY <2>1
    <3> DEFINE n == k - i - 2
    <3>3. LengthField(n)[1] + Base * LengthField(n)[2] \in 0..n
      BY <3>2, FieldHolds
    <3>4. b[i + 1] = LengthField(n)[1] /\ b[i + 2] = LengthField(n)[2]
      BY <3>1 DEF LengthField
    <3>5. 3 + json = i + 1 /\ 3 + json + 1 = i + 2
      BY <2>1, <2>3
    <3> QED BY <3>3, <3>4, <3>5 DEF LengthAt
  <2>5. meta = Meaning[SubSeq(b, 3, i)] /\ meta # NotJson
    <3>1. 2 + json = i
      BY <2>1, <2>3
    <3> QED BY <2>1, <3>1, TextAssumption DEF FromSlice
  <2> HIDE DEF json, data, meta
  <2>6. /\ ~(Len(b) < 4) /\ ~(Len(b) < 2 + json + 2)
        /\ ~(Len(b) < 4 + json + data)
    BY <1>1, <2>1, <2>3, <2>4
  <2>7. Parse(b).meta = meta
    BY <2>5, <2>6 DEF Parse, json, data, meta
  <2> QED BY <1>2, <2>5, <2>7
<1>3. CASE Parse(b).meta # NotJson
  <2>1. /\ Len(b) >= 4 /\ Len(b) >= 4 + json
        /\ meta # NotJson /\ Len(b) >= 4 + json + data
        /\ Parse(b) = [meta |-> meta, data |-> SubSeq(b, 5 + json, 4 + json + data)]
    <3>1. /\ ~(Len(b) < 4 \/ Len(b) < 2 + json + 2)
          /\ ~(meta = NotJson \/ Len(b) < 4 + json + data)
      BY <1>3 DEF Parse, Malformed
    <3>2. /\ Parse(b) = [meta |-> meta, data |-> SubSeq(b, 5 + json, 4 + json + data)]
      BY <3>1 DEF Parse
    <3>3. json \in Nat
      <4>1. b[1] \in Byte /\ b[2] \in Byte
        BY <1>1, <3>1
      <4>2. b[1] + Base * b[2] \in Nat
        BY <4>1, FieldRead
      <4>3. json = b[1] + Base * b[2]
        BY DEF LengthAt
      <4> QED BY <4>2, <4>3
    <3>4. data \in Nat
      <4> HIDE DEF json
      <4>1. b[3 + json] \in Byte /\ b[3 + json + 1] \in Byte
        BY <1>1, <3>1, <3>3
      <4> QED BY <1>1, <4>1, FieldRead DEF LengthAt
    <3> HIDE DEF json, data, meta
    <3> QED BY <1>1, <3>1, <3>2, <3>3, <3>4
  <2>2. json \in Nat /\ LengthField(json) = <<b[1], b[2]>>
    <3>1. b[1] \in Byte /\ b[2] \in Byte
      BY <1>1, <2>1
    <3> QED BY <3>1, FieldRead DEF LengthAt
  <2>3. data \in Nat /\ LengthField(data) = <<b[3 + json], b[3 + json + 1]>>
    <3> HIDE DEF json
    <3>1. b[3 + json] \in Byte /\ b[3 + json + 1] \in Byte
      BY <1>1, <2>1, <2>2
    <3> QED BY <3>1, FieldRead DEF LengthAt
  <2> DEFINE i == 2 + json
             k == 4 + json + data
  <2>4. /\ SubSeq(b, 3, i) \in Texts
        /\ meta = Meaning[SubSeq(b, 3, i)]
    BY <2>1 DEF FromSlice
  <2> HIDE DEF json, data, meta
  <2>5. /\ i \in 0..Len(b) /\ k \in 0..Len(b)
        /\ 2 <= i /\ i + 2 <= k /\ k <= Len(b)
        /\ i - 2 = json /\ k - i - 2 = data
        /\ i + 3 = 5 + json /\ i + 1 = 3 + json /\ i + 2 = (i + 1) + 1
    BY <1>1, <2>1, <2>2, <2>3
  <2> HIDE DEF i, k
  <2>6. SubSeq(b, 1, 2) = LengthField(i - 2)
    <3>1. SubSeq(b, 1, 1 + 1) = <<b[1], b[1 + 1]>>
      BY <1>1, <2>1, <2>2, TwoBytes
    <3> QED BY <2>2, <2>5, <3>1
  <2>7. SubSeq(b, i + 1, i + 2) = LengthField(k - i - 2)
    <3>1. SubSeq(b, i + 1, (i + 1) + 1) = <<b[i + 1], b[(i + 1) + 1]>>
      BY <1>1, <2>5, TwoBytes
    <3> QED BY <2>3, <2>5, <3>1
  <2>8. Framed(b, i, k)
    BY <2>4, <2>5, <2>6, <2>7 DEF Framed
  <2>9. Parse(b) = [meta |-> Meaning[SubSeq(b, 3, i)], data |-> SubSeq(b, i + 3, k)]
    BY <2>1, <2>4, <2>5 DEF k
  <2> QED BY <1>3, <2>5, <2>8, <2>9 DEF ParsedAsFramed
<1> QED BY <1>2, <1>3

\* What is read is a request, with a file that a length field can describe: it
\* can be encoded again.
LEMMA ParseReads ==
  ASSUME NEW b \in Seq(Byte), Parse(b) # Malformed
  PROVE  /\ Parse(b) \in [meta : Metadata, data : Seq(Byte)]
         /\ Len(Parse(b).data) < Base * Base
<1> DEFINE json == LengthAt(b, 1)
           data == LengthAt(b, 3 + json)
           text == SubSeq(b, 3, 2 + json)
           cut == SubSeq(b, 5 + json, 4 + json + data)
<1>1. /\ Len(b) \in Nat /\ b \in [1..Len(b) -> Byte]
      /\ Base \in Nat \ {0} /\ Byte \subseteq Nat
  BY TextAssumption, LenProperties DEF Byte
<1>2. /\ Len(b) >= 4 /\ Len(b) >= 2 + json + 2
      /\ FromSlice(text) # NotJson /\ Len(b) >= 4 + json + data
      /\ Parse(b) = [meta |-> FromSlice(text), data |-> cut]
  <2>1. /\ ~(Len(b) < 4 \/ Len(b) < 2 + json + 2)
        /\ ~(FromSlice(text) = NotJson \/ Len(b) < 4 + json + data)
    BY DEF Parse
  <2>2. Parse(b) = [meta |-> FromSlice(text), data |-> cut]
    BY <2>1 DEF Parse
  <2>3. json \in Nat
    <3>1. b[1] \in Byte /\ b[2] \in Byte
      BY <1>1, <2>1
    <3>2. b[1] + Base * b[2] \in Nat
      BY <3>1, FieldRead
    <3>3. json = b[1] + Base * b[2]
      BY DEF LengthAt
    <3> QED BY <3>2, <3>3
  <2> HIDE DEF json, text
  <2>4. data \in Nat
    <3>1. b[3 + json] \in Byte /\ b[3 + json + 1] \in Byte
      BY <1>1, <2>1, <2>3
    <3> QED BY <1>1, <3>1, FieldRead DEF LengthAt
  <2> HIDE DEF data, cut
  <2> QED BY <1>1, <2>1, <2>2, <2>3, <2>4
<1>3. FromSlice(text) \in Metadata
  BY <1>2, TextAssumption DEF FromSlice
<1>4. json \in Nat
  <2>1. b[1] \in Byte /\ b[2] \in Byte
    BY <1>1, <1>2
  <2>2. b[1] + Base * b[2] \in Nat
    BY <2>1, FieldRead
  <2>3. json = b[1] + Base * b[2]
    BY DEF LengthAt
  <2> QED BY <2>2, <2>3
<1> HIDE DEF json, text
<1>5. data \in Nat /\ data < Base * Base
  <2> DEFINE x == b[3 + json]
             y == b[3 + json + 1]
  <2>1. x \in 0..(Base - 1) /\ y \in 0..(Base - 1)
    BY <1>1, <1>2, <1>4 DEF Byte
  <2>2. data = x + Base * y
    BY DEF LengthAt
  <2> HIDE DEF x, y, data
  <2>3. /\ x + Base * y \in Nat
        /\ x + Base * y < Base * Base
    <3>1. Base * y <= Base * (Base - 1) /\ Base * y \in Nat
      BY <1>1, <2>1, Z3
    <3>2. Base * (Base - 1) = Base * Base - Base /\ Base * Base \in Nat
      BY <1>1, Z3
    <3> QED BY <1>1, <2>1, <3>1, <3>2
  <2> QED BY <2>2, <2>3
<1> HIDE DEF data
<1>6. cut \in Seq(Byte) /\ Len(cut) < Base * Base
  <2> DEFINE m == 5 + json
             n == 4 + json + data
  <2>1. m \in Int /\ n \in Int /\ n - m + 1 = data /\ m >= 1 /\ n <= Len(b)
    BY <1>1, <1>2, <1>4, <1>5
  <2> HIDE DEF m, n
  <2>2. \A i \in m..n : b[i] \in Byte
    BY <1>1, <2>1
  <2>3. /\ SubSeq(b, m, n) \in Seq(Byte)
        /\ Len(SubSeq(b, m, n)) = IF m <= n THEN n - m + 1 ELSE 0
    BY <2>1, <2>2, SubSeqProperties
  <2>4. Len(SubSeq(b, m, n)) < Base * Base
    BY <1>1, <1>5, <2>1, <2>3
  <2> QED BY <2>3, <2>4 DEF m, n
<1> QED BY <1>2, <1>3, <1>6

=============================================================================
