----------------------------- MODULE MCObjectDb -----------------------------
(* An instance of ObjectDb for TLC: bytes below 4, an off_t of two bytes   *)
(* (-8 .. 7), blocks of two bytes.                                         *)
EXTENDS ObjectDb

(* One name is the beginning of another; three, so that an object can be   *)
(* deleted from between two others.  Contents of no bytes, of less than a  *)
(* block, and of a block and a NUL; two files have the same name.          *)
SomeFiles == {<< <<1>>, <<2, 1, 0>> >>, << <<1, 2>>, <<1>> >>,
              << <<2>>, <<>> >>,        << <<2>>, <<2, 1, 0>> >>}
Powers    == [i \in 0 .. SizeBytes |-> Base ^ i]
AllOrSome == {<<>>, <<2>>}

(* Every field is an off_t, and what is written is what is read.           *)
ASSUME FieldsHoldSizes ==
  /\ \A f \in [1 .. SizeBytes -> Byte] : ValueAt(f, 0) \in off_t
  /\ \A n \in off_t : ValueAt(SizeField(n), 0) = n
=============================================================================
