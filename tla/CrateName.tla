------------------------------ MODULE CrateName ------------------------------
(***************************************************************************)
(* Crate names: which ones PublishMetadata::validate (src/src/types.rs)    *)
(* accepts, and which ones the index_path functions (src/src/registry)     *)
(* can cut into a path.  A name is a str, a sequence of bytes; what        *)
(* matters of a byte is the kind of character it is, or is part of.        *)
(* Assumption: a character takes as many bytes in lower case.              *)
(***************************************************************************)
EXTENDS Naturals, Sequences

CONSTANT NameLimit   \* bytes of a name; 64 in the code

ASSUME NameAssumption == NameLimit \in Nat

\* A letter is one of ASCII or "_", a digit one of ASCII or "-", a sign any
\* other character of ASCII; any other character is a lead byte and the rest.
NameByte == {"letter", "digit", "sign", "lead", "rest"}

\* UTF-8: a character begins with a lead byte if it has several.
Name ==
  {n \in Seq(NameByte) :
     \A i \in DOMAIN n :
       /\ n[i] = "rest" => i > 1 /\ n[i - 1] \in {"lead", "rest"}
       /\ n[i] = "lead" => i < Len(n) /\ n[i + 1] = "rest"}

NameAcceptedByFirst(name) ==                     \* slip: the first one only
  Len(name) \in 1..NameLimit /\ name[1] = "letter"

NameAccepted(name) ==
  /\ Len(name) \in 1..NameLimit
  /\ name[1] = "letter"
  /\ \A i \in DOMAIN name : name[i] \in {"letter", "digit"}

\* A slice that ends inside a character, or outside of the name, panics.
CanCut(name, i) ==
  i <= Len(name) /\ (i < Len(name) => name[i + 1] # "rest")

HasIndexPath(name) ==
  CASE Len(name) \in {1, 2} -> TRUE
    [] Len(name) = 3 -> CanCut(name, 1)
    [] OTHER -> CanCut(name, 2) /\ CanCut(name, 4)

=============================================================================
