------------------------------- MODULE DbFile -------------------------------
(***************************************************************************)
(* hw1: the format of the database file, and what reading it yields.  A    *)
(* file is a sequence of bytes: the magic number, then of every object its *)
(* name, a NUL, the length of its contents as an off_t, the contents.      *)
(* Offsets begin at 0.                                                     *)
(***************************************************************************)
EXTENDS Integers, Sequences, SequencesExt, FiniteSetsExt

CONSTANTS Base,       \* a byte is a number below it
          SizeBytes,  \* bytes of an off_t
          Weight,     \* of its byte at a place, counted from 0
          BlockSize   \* BLOCK_SIZE

ASSUME FormatAssumption ==
  /\ Base \in Nat \ {0} /\ Base % 2 = 0
  /\ SizeBytes \in Nat \ {0} /\ BlockSize \in Nat \ {0}
  /\ Weight \in [0 .. SizeBytes -> Nat \ {0}]
  /\ Weight[0] = 1 /\ \A i \in 1 .. SizeBytes : Weight[i] = Base * Weight[i - 1]

Byte  == 0 .. Base - 1
Magic == <<Base - 1, Base - 1>>

(* off_t is little endian and signed.                                      *)
off_t == -(Weight[SizeBytes] \div 2) .. Weight[SizeBytes] \div 2 - 1

SizeField(n) == [i \in 1 .. SizeBytes |-> (n \div Weight[i - 1]) % Base]

ValueAt(file, o) ==
  LET sum[i \in 0 .. SizeBytes] ==
        IF i = 0 THEN 0 ELSE sum[i - 1] + file[o + i] * Weight[i - 1]
  IN IF sum[SizeBytes] \in off_t THEN sum[SizeBytes] ELSE sum[SizeBytes] - Weight[SizeBytes]

-----------------------------------------------------------------------------
(* safe_read of n bytes at o: all of them, none at the end of the file, or *)
(* for ever the same tail that is too short.                               *)
safe_read(file, o, n) ==
  IF Len(file) - o >= n THEN "read" ELSE IF Len(file) <= o THEN "eof" ELSE "spin"

(* What the variable holds after safe_read of an off_t, which is an off_t. *)
(* END_FILE passes the tests for an error and leaves it as it was,         *)
(* uninitialised.                                                          *)
SizesAt(file, o) ==
  CASE safe_read(file, o, SizeBytes) = "read" -> {ValueAt(file, o)} \cap off_t
    [] safe_read(file, o, SizeBytes) = "eof"  -> off_t
    [] OTHER -> {}

(* Where read_object_name finds the NUL from o on; none is the end.        *)
NameEnds(file, o) ==
  {e \in o .. Len(file) - 1 : file[e + 1] = 0 /\ \A i \in o .. e - 1 : file[i + 1] # 0}

(* FAULT: what lseek says is not looked at.                                *)
passed_any(name, size, after) ==
  LET bytes == Len(name) + 1 + SizeBytes + size
  IN [is |-> IF bytes < 0 THEN "error" ELSE IF bytes = 1 THEN "end" ELSE "object",
      name |-> name, bytes |-> bytes, next |-> after + size]

(* What is said of an object with this name, whose contents begin at after *)
(* and claim this size: its length, and the offset lseek moves to.  Below  *)
(* zero both are errors, and a length of 1 is taken for END_FILE.          *)
Passed(name, size, after) ==
  LET bytes == Len(name) + 1 + SizeBytes + size
  IN [is |-> IF after + size < 0 \/ bytes < 0 THEN "error" ELSE IF bytes = 1 THEN "end" ELSE "object",
      name |-> name, bytes |-> bytes, next |-> after + size]

(* The outcomes of traverse_object from offset o.                          *)
traverse_object(file, o) ==
  IF NameEnds(file, o) = {}
  THEN {[is |-> "end", name |-> <<>>, bytes |-> 1, next |-> Max({o, Len(file)})]}
  ELSE LET e     == CHOOSE e \in NameEnds(file, o) : TRUE
           after == IF safe_read(file, e + 1, SizeBytes) = "read" THEN e + 1 + SizeBytes ELSE e + 1
       IN IF safe_read(file, e + 1, SizeBytes) = "spin"
          THEN {[is |-> "spin", name |-> <<>>, bytes |-> 0, next |-> e + 1]}
          ELSE {Passed(SubSeq(file, o + 1, e), size, after) : size \in SizesAt(file, e + 1)}

(* transfer_data of n bytes from o reads whole blocks, then the remainder. *)
(* At the end of the file the buffer is sent as it is; a tail shorter than *)
(* what is asked for spins.  A length below zero moves nothing.            *)
TransferSpins(file, o, n) ==
  LET left   == Len(file) - o
      blocks == Min({n \div BlockSize, left \div BlockSize})
  IN left \in 1 .. n - 1 /\ left > blocks * BlockSize

-----------------------------------------------------------------------------
(* What import_object writes of an object <<name, contents>>, call by call.*)
Pieces(object) ==
  << Append(object[1], 0), SizeField(Len(object[2])) >>
  \o [i \in 1 .. (Len(object[2]) + BlockSize - 1) \div BlockSize |->
        SubSeq(object[2], (i - 1) * BlockSize + 1, Min({i * BlockSize, Len(object[2])}))]

(* The reference: the objects of a well-formed file, in order, and the     *)
(* file of some objects.                                                   *)
Decode(file) ==
  LET objects[o \in 0 .. Len(file)] ==
        IF NameEnds(file, o) = {} THEN <<>>
        ELSE LET e    == CHOOSE e \in NameEnds(file, o) : TRUE
                 from == e + 1 + SizeBytes
                 to   == from + (IF from <= Len(file) THEN ValueAt(file, e + 1) ELSE 0)
             IN IF to \in from .. Len(file)
                THEN << <<SubSeq(file, o + 1, e), SubSeq(file, from + 1, to)>> >> \o objects[to]
                ELSE <<>>
  IN IF Len(file) < Len(Magic) THEN <<>> ELSE objects[Len(Magic)]

File(objects) ==
  Magic \o FlattenSeq([i \in DOMAIN objects |-> FlattenSeq(Pieces(objects[i]))])
=============================================================================
