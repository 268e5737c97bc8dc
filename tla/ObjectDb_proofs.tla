--------------------------- MODULE ObjectDb_proofs ---------------------------
(***************************************************************************)
(* Theorems about ObjectDb, for bytes, sizes and blocks of any width, any  *)
(* files to import, and any number of commands and faults.  First what can *)
(* be said of the bytes of the file without decoding them (FileOK); then   *)
(* that Decode undoes File, and what the file means (DataOK).              *)
(***************************************************************************)
EXTENDS ObjectDb, SequenceTheorems, LeastElement, TLAPS

LEMMA Widths == Base \in Nat \ {0} /\ SizeBytes \in Nat \ {0} /\ BlockSize \in Nat \ {0}
  BY FormatAssumption

USE Widths

Letters == Byte \ {0}

-----------------------------------------------------------------------------
(* The operators of DbFile.                                                *)
LEMMA PartOf ==
  ASSUME NEW S, NEW s \in Seq(S), NEW m \in Nat \ {0}, NEW n \in Int, n <= Len(s)
  PROVE  /\ SubSeq(s, m, n) \in Seq(S)
         /\ Len(SubSeq(s, m, n)) = IF m <= n THEN n - m + 1 ELSE 0
         /\ \A i \in 1 .. n - m + 1 : SubSeq(s, m, n)[i] = s[m + i - 1]
<1>1. \A i \in m .. n : s[i] \in S
  BY LenProperties
<1> QED BY <1>1, SubSeqProperties

(* A function on 1 .. n is a sequence of n elements.                       *)
LEMMA FunctionIsSequence ==
  ASSUME NEW S, NEW n \in Nat, NEW s \in [1 .. n -> S]
  PROVE  s \in Seq(S) /\ Len(s) = n
<1>1. s \in Seq(S)
  BY SeqDef
<1>2. Len(s) \in Nat /\ DOMAIN s = 1 .. Len(s) /\ DOMAIN s = 1 .. n
  BY <1>1, LenProperties
<1> QED BY <1>1, <1>2

LEMMA MinOfTwo ==
  \A x, y \in Int : Min({x, y}) = IF x <= y THEN x ELSE y
  BY DEF Min

LEMMA MaxOfTwo ==
  \A x, y \in Int : Max({x, y}) = IF x >= y THEN x ELSE y
  BY DEF Max

LEMMA OnlySizes == ASSUME NEW file, NEW o PROVE SizesAt(file, o) \subseteq Int
<1>1. off_t \subseteq Int
  BY DEF off_t
<1> QED BY <1>1 DEF SizesAt

LEMMA FieldOf == ASSUME NEW n \in Int PROVE SizeField(n) \in Seq(Byte) /\ Len(SizeField(n)) = SizeBytes
<1>1. \A i \in 1 .. SizeBytes : (n \div Weight[i - 1]) % Base \in Byte
  <2> SUFFICES ASSUME NEW i \in 1 .. SizeBytes PROVE (n \div Weight[i - 1]) % Base \in Byte
    OBVIOUS
  <2>1. PICK w \in Nat \ {0} : w = Weight[i - 1]
    BY FormatAssumption
  <2>2. n \div w \in Int
    BY ONLY n \in Int, w \in Nat \ {0}
  <2>3. PICK d \in Int : d = n \div w
    BY <2>2
  <2>4. d % Base \in Byte
    BY DEF Byte
  <2> QED BY <2>1, <2>3, <2>4
<1>2. SizeField(n) \in [1 .. SizeBytes -> Byte]
  BY <1>1 DEF SizeField
<1> QED BY <1>2, FunctionIsSequence

(* What traverse_object says is a name, a length and an offset; unless it  *)
(* is an error neither is below zero.                                      *)
LEMMA TraverseSays ==
  ASSUME NEW file \in Seq(Byte), NEW o \in Nat, NEW t \in traverse_object(file, o)
  PROVE  /\ t.is \in {"object", "end", "spin", "error"} /\ t.name \in Seq(Letters)
         /\ t.is \in {"object", "end"} => t.next \in Nat /\ t.bytes \in Nat
<1>1. CASE NameEnds(file, o) = {}
  <2>1. t = [is |-> "end", name |-> <<>>, bytes |-> 1, next |-> Max({o, Len(file)})]
    BY <1>1 DEF traverse_object
  <2>2. Max({o, Len(file)}) \in Nat
    <3>1. o \in Int /\ Len(file) \in Nat
      BY LenProperties
    <3> QED BY <3>1, MaxOfTwo
  <2> QED BY <2>1, <2>2
<1>2. CASE NameEnds(file, o) # {}
  <2> DEFINE e     == CHOOSE e \in NameEnds(file, o) : TRUE
             after == IF safe_read(file, e + 1, SizeBytes) = "read" THEN e + 1 + SizeBytes ELSE e + 1
  <2>1. /\ e \in o .. Len(file) - 1 /\ \A i \in o .. e - 1 : file[i + 1] # 0
    BY <1>2 DEF NameEnds
  <2>2. SubSeq(file, o + 1, e) \in Seq(Letters)
    <3>1. \A i \in o + 1 .. e : file[i] \in Letters
      <4> SUFFICES ASSUME NEW i \in o + 1 .. e PROVE file[i] \in Letters
        OBVIOUS
      <4>1. i - 1 \in o .. e - 1 /\ (i - 1) + 1 = i /\ i \in 1 .. Len(file)
        BY <2>1, LenProperties
      <4>2. file[i] # 0
        BY <2>1, <4>1
      <4> QED BY <4>1, <4>2 DEF Letters
    <3>2. e \in Int /\ o + 1 \in Int
      BY <2>1
    <3> HIDE DEF e
    <3> QED BY <3>1, <3>2, SubSeqProperties
  <2>3. \/ t = [is |-> "spin", name |-> <<>>, bytes |-> 0, next |-> e + 1]
        \/ \E n \in SizesAt(file, e + 1) : t = Passed(SubSeq(file, o + 1, e), n, after)
    BY <1>2 DEF traverse_object
  <2>4. e \in Int /\ after \in Int
    BY <2>1
  <2> HIDE DEF e, after
  <2>5. CASE t = [is |-> "spin", name |-> <<>>, bytes |-> 0, next |-> e + 1]
    BY <2>5
  <2>6. ASSUME NEW n \in SizesAt(file, e + 1), t = Passed(SubSeq(file, o + 1, e), n, after)
        PROVE  /\ t.is \in {"object", "end", "error"} /\ t.name \in Seq(Letters)
               /\ t.is \in {"object", "end"} => t.next \in Nat /\ t.bytes \in Nat
    <3>1. PICK name \in Seq(Letters) : name = SubSeq(file, o + 1, e)
      BY <2>2
    <3>2. n \in Int
      BY OnlySizes
    <3>3. PICK bytes, next : bytes = Len(name) + 1 + SizeBytes + n /\ next = after + n
      OBVIOUS
    <3>4. bytes \in Int /\ next \in Int
      BY <2>4, <3>2, <3>3, LenProperties
    <3>5. t = [is |-> IF next < 0 \/ bytes < 0 THEN "error" ELSE IF bytes = 1 THEN "end" ELSE "object",
               name |-> name, bytes |-> bytes, next |-> next]
      BY <2>6, <3>1, <3>3 DEF Passed
    <3> QED BY <3>4, <3>5
  <2> QED BY <2>3, <2>5, <2>6
<1> QED BY <1>1, <1>2

(* How many blocks n bytes take: when it is more than one, the first is    *)
(* full.                                                                   *)
LEMMA BlocksOf ==
  ASSUME NEW n \in Nat
  PROVE  /\ (n + BlockSize - 1) \div BlockSize \in Nat
         /\ (n + BlockSize - 1) \div BlockSize > 1 => BlockSize <= n
<1>1. PICK b \in Nat \ {0}, m \in Nat : b = BlockSize /\ m = n + BlockSize - 1
  OBVIOUS
<1>2. m \div b \in Nat
  BY ONLY m \in Nat, b \in Nat \ {0}
<1>3. ASSUME n < b PROVE m \div b <= 1
  <2>1. m < 2 * b
    BY <1>1, <1>3
  <2> QED BY ONLY m \in Nat, b \in Nat \ {0}, <2>1
<1> QED BY <1>1, <1>2, <1>3

(* What import_object writes: a name, a size, and blocks.                  *)
LEMMA PiecesAre ==
  ASSUME NEW name \in Seq(Letters), NEW bytes \in Seq(Byte)
  PROVE  LET P == Pieces(<<name, bytes>>) IN
           /\ P \in Seq(Seq(Byte)) /\ Len(P) \in Nat /\ Len(P) >= 2
           /\ \A i \in 3 .. Len(P) : Len(P[i]) <= BlockSize
           /\ Len(P) > 3 => Len(P[3]) = BlockSize
<1>1. PICK n \in Nat : n = Len(bytes)
  BY LenProperties
<1> DEFINE k    == (n + BlockSize - 1) \div BlockSize
           b(i) == SubSeq(bytes, (i - 1) * BlockSize + 1, Min({i * BlockSize, n}))
           B    == [i \in 1 .. k |-> b(i)]
           H    == << Append(name, 0), SizeField(n) >>
<1>2. k \in Nat /\ (k > 1 => BlockSize <= n)
  BY BlocksOf
<1> HIDE DEF k
<1>3. H \in Seq(Seq(Byte)) /\ Len(H) = 2
  <2>1. Append(name, 0) \in Seq(Byte)
    BY DEF Letters, Byte
  <2>2. SizeField(n) \in Seq(Byte)
    BY FieldOf
  <2> QED BY <2>1, <2>2
<1>4. ASSUME NEW i \in 1 .. k PROVE b(i) \in Seq(Byte) /\ Len(b(i)) <= BlockSize
  <2>1. PICK x \in Nat, y \in Nat : x = (i - 1) * BlockSize /\ y = i * BlockSize /\ y = x + BlockSize
    <3>1. i \in Nat /\ i - 1 \in Nat
      BY <1>2
    <3>2. (i - 1) * BlockSize \in Nat /\ i * BlockSize \in Nat /\ i * BlockSize = (i - 1) * BlockSize + BlockSize
      BY ONLY <3>1, BlockSize \in Nat
    <3> QED BY <3>2
  <2>2. PICK m \in Int : m = Min({y, n}) /\ m <= y /\ m <= n
    <3>1. Min({y, n}) = IF y <= n THEN y ELSE n
      BY MinOfTwo
    <3> QED BY <3>1
  <2>3. PICK z \in Nat \ {0} : z = x + 1
    OBVIOUS
  <2>4. SubSeq(bytes, z, m) \in Seq(Byte) /\ Len(SubSeq(bytes, z, m)) = IF z <= m THEN m - z + 1 ELSE 0
    <3>1. m <= Len(bytes)
      BY <1>1, <2>2
    <3> QED BY ONLY bytes \in Seq(Byte), z \in Nat \ {0}, m \in Int, <3>1, PartOf
  <2>5. b(i) = SubSeq(bytes, z, m)
    BY <2>1, <2>2, <2>3
  <2>6. Len(SubSeq(bytes, z, m)) <= BlockSize
    BY <2>1, <2>2, <2>3, <2>4
  <2> HIDE DEF b
  <2> QED BY <2>4, <2>5, <2>6
<1>5. k > 1 => Len(b(1)) = BlockSize
  <2> SUFFICES ASSUME k > 1 PROVE Len(b(1)) = BlockSize
    OBVIOUS
  <2>1. (1 - 1) * BlockSize + 1 = 1 /\ 1 * BlockSize = BlockSize
    OBVIOUS
  <2>2. Min({BlockSize, n}) = BlockSize
    BY <1>2, MinOfTwo
  <2>3. b(1) = SubSeq(bytes, 1, BlockSize)
    BY <2>1, <2>2
  <2>4. Len(SubSeq(bytes, 1, BlockSize)) = BlockSize
    BY <1>1, <1>2, PartOf
  <2> QED BY <2>3, <2>4
<1> HIDE DEF b
<1>6. B \in Seq(Seq(Byte)) /\ Len(B) = k /\ \A i \in 1 .. k : B[i] = b(i)
  <2>1. B \in [1 .. k -> Seq(Byte)] /\ \A i \in 1 .. k : B[i] = b(i)
    BY <1>4
  <2> HIDE DEF B
  <2> QED BY <1>2, <2>1, FunctionIsSequence
<1>7. Pieces(<<name, bytes>>) = H \o B
  BY <1>1 DEF Pieces, b, k
<1> HIDE DEF B, H
<1>8. PICK P \in Seq(Seq(Byte)) : /\ P = Pieces(<<name, bytes>>) /\ Len(P) = 2 + k
                                /\ \A i \in 1 .. 2 + k : P[i] = IF i <= 2 THEN H[i] ELSE B[i - 2]
  <2>1. /\ H \o B \in Seq(Seq(Byte)) /\ Len(H \o B) = Len(H) + Len(B)
        /\ \A i \in 1 .. Len(H) + Len(B) : (H \o B)[i] = IF i <= Len(H) THEN H[i] ELSE B[i - Len(H)]
    BY ONLY <1>3, <1>6, ConcatProperties
  <2> QED BY <1>3, <1>6, <1>7, <2>1
<1>9. ASSUME NEW i \in 3 .. Len(P) PROVE Len(P[i]) <= BlockSize /\ P[i] = b(i - 2)
  <2>1. i - 2 \in 1 .. k /\ i \in 1 .. 2 + k /\ ~(i <= 2)
    BY <1>2, <1>8
  <2>2. P[i] = b(i - 2)
    BY <1>6, <1>8, <2>1
  <2> QED BY <1>4, <2>1, <2>2
<1>10. Len(P) > 3 => Len(P[3]) = BlockSize
  <2> SUFFICES ASSUME Len(P) > 3 PROVE Len(P[3]) = BlockSize
    OBVIOUS
  <2>1. 3 \in 3 .. Len(P) /\ 3 - 2 = 1 /\ k > 1
    BY <1>2, <1>8
  <2> QED BY <1>5, <1>9, <2>1
<1>11. Len(P) \in Nat /\ Len(P) >= 2
  BY <1>2, <1>8
<1> QED BY <1>8, <1>9, <1>10, <1>11

-----------------------------------------------------------------------------
(* What a delete moves ends at the end of the file, and goes back by the   *)
(* length of the object; an import writes pieces that fit into a block.    *)
PiecesOf == Pieces(<<cmd.name, cmd.bytes>>)

Fits(pieces, P, file) ==
  /\ Len(pieces) <= Len(P)
  /\ \A i \in DOMAIN pieces : Len(pieces[i]) = Len(P[Len(P) - Len(pieces) + i])
  /\ Len(pieces) < Len(P) - 2 => Len(file) >= BlockSize

WorkOK ==
  /\ pc = "move" => src = dst + size /\ left = Len(db) - src /\ left > 0
  /\ pc = "write" => todo # <<>> /\ cmd.kind \in {"open", "import"}
  /\ cmd.kind = "import" => cmd.name \in Names /\ cmd.bytes \in Contents
  /\ pc = "write" /\ cmd.kind = "import" => Fits(todo, PiecesOf, db)

DbInv == TypeOK /\ WorkOK

LEMMA SourcesAre == Names \subseteq Seq(Letters) /\ Contents \subseteq Seq(Byte)
<1>1. \A f \in Sources : f[1] \in Seq(Letters) /\ f[2] \in Seq(Byte)
  BY DbAssumption DEF Letters
<1> QED BY <1>1 DEF Names, Contents

LEMMA DbInit == Init => DbInv
<1> SUFFICES ASSUME Init PROVE DbInv
  OBVIOUS
<1>1. /\ cmd \in [kind : {"none", "open", "import", "export", "find", "delete"},
                 name : Names \cup Patterns \cup {<<>>}, bytes : Contents \cup {<<>>}]
      /\ cmd.kind = "none" /\ pc = "off"
  BY DEF Init, NoCommand
<1>2. /\ made = FALSE /\ db = <<>> /\ pos = 0 /\ seen = {} /\ todo = <<>>
      /\ src = 0 /\ dst = 0 /\ left = 0 /\ size = 0 /\ commands = 0 /\ faults = 0 /\ intact = TRUE
  BY DEF Init
<1>3. MaxCommands \in Nat /\ MaxFaults \in Nat
  BY DbAssumption
<1>4. TypeOK
  <2>1. db \in Seq(Byte) /\ todo \in Seq(Seq(Byte)) /\ seen \subseteq Seq(Byte \ {0})
    BY <1>2
  <2>2. {pos, src, dst, left, size} \subseteq Nat /\ commands \in 0 .. MaxCommands /\ faults \in 0 .. MaxFaults
    BY <1>2, <1>3
  <2> QED BY <1>1, <1>2, <2>1, <2>2 DEF TypeOK
<1> QED BY <1>1, <1>4 DEF DbInv, WorkOK

(* What commands have in common when they end.                             *)
LEMMA IdleTypes ==
  ASSUME TypeOK, Idle, pc' \in {"menu", "off"}, made' = made, db' \in Seq(Byte), intact' \in BOOLEAN,
         commands' = commands, faults' \in 0 .. MaxFaults
  PROVE  DbInv'
<1>1. cmd' = NoCommand /\ pos' = 0 /\ seen' = {} /\ todo' = <<>> /\ src' = 0 /\ dst' = 0 /\ left' = 0 /\ size' = 0
  BY DEF Idle
<1>2. cmd' \in [kind : {"none", "open", "import", "export", "find", "delete"},
               name : Names \cup Patterns \cup {<<>>}, bytes : Contents \cup {<<>>}]
      /\ cmd'.kind = "none"
  BY <1>1 DEF NoCommand
<1>3. TypeOK'
  BY <1>1, <1>2 DEF TypeOK
<1>4. WorkOK'
  BY <1>2 DEF WorkOK
<1> QED BY <1>3, <1>4 DEF DbInv

LEMMA FinishTypes ==
  ASSUME TypeOK, NEW said, NEW bytes, NEW names, Finish(said, bytes, names),
         db' \in Seq(Byte), faults' \in 0 .. MaxFaults
  PROVE  DbInv'
<1>1. intact' \in BOOLEAN
  BY DEF Finish, TypeOK
<1> QED BY <1>1, IdleTypes DEF Finish

LEMMA FailTypes ==
  ASSUME TypeOK, Fail, db' \in Seq(Byte), faults' \in 0 .. MaxFaults PROVE DbInv'
<1>1. intact' \in BOOLEAN
  BY DEF Fail
<1> QED BY <1>1, IdleTypes DEF Fail

LEMMA EndTypes ==
  ASSUME TypeOK, NEW said, NEW bytes, NEW names, Ends(said, bytes, names) \/ Breaks PROVE DbInv'
<1>1. db' \in Seq(Byte) /\ faults' \in 0 .. MaxFaults
  BY DEF Ends, Breaks, TypeOK
<1> QED BY <1>1, FinishTypes, FailTypes DEF Ends, Breaks

LEMMA SpinTypes == ASSUME DbInv, Spin PROVE DbInv'
<1>1. pc' = "spin" /\ UNCHANGED <<made, db, cmd, pos, seen, todo, src, dst, left, size, commands, faults, intact>>
  BY DEF Spin, walk, moving, counts, history
<1> QED BY <1>1 DEF DbInv, TypeOK, WorkOK

(* Reading.                                                                *)
LEMMA FindTypes == ASSUME DbInv, find_object PROVE DbInv'
<1>1. PICK t \in traverse_object(db, pos) :
        \/ t.is = "end" /\ Ends("done", <<>>, seen)
        \/ t.is = "spin" /\ Spin
        \/ t.is = "error" /\ Breaks
        \/ /\ t.is = "object" /\ pos' = t.next
           /\ seen' = IF Occurs(cmd.name, t.name) THEN seen \cup {t.name} ELSE seen
           /\ UNCHANGED <<made, db, pc, cmd, todo, moving, counts, history>>
  BY DEF find_object
<1>2. t.name \in Seq(Letters) /\ (t.is = "object" => t.next \in Nat)
  BY TraverseSays DEF DbInv, TypeOK
<1>3. CASE t.is = "object" /\ pos' = t.next /\ seen' \in {seen, seen \cup {t.name}}
           /\ UNCHANGED <<made, db, pc, cmd, todo, moving, counts, history>>
  <2>1. UNCHANGED <<made, db, pc, cmd, todo, src, dst, left, size, commands, faults, intact>> /\ pc = "walk"
    BY <1>3 DEF moving, counts, history, find_object
  <2>2. seen' \subseteq Seq(Letters)
    BY <1>2, <1>3 DEF DbInv, TypeOK, Letters
  <2> QED BY <1>2, <1>3, <2>1, <2>2 DEF DbInv, TypeOK, WorkOK, Letters
<1> QED BY <1>1, <1>3, EndTypes, SpinTypes DEF DbInv

(* A delete begins.                                                        *)
LEMMA DeleteTypes == ASSUME DbInv, pc = "walk", NEW place \in Nat, delete_object(place) PROVE DbInv'
<1>1. PICK t \in traverse_object(db, place) :
        \/ t.is = "spin" /\ Spin
        \/ Breaks
        \/ /\ t.is \in {"end", "object"} /\ (t.next >= Len(db) \/ t.next >= t.bytes)
           /\ DeleteMoves(t) /\ size' = t.bytes
           /\ UNCHANGED <<made, db, cmd, walk, todo, counts, history>>
  BY DEF delete_object
<1>2. CASE /\ t.is \in {"end", "object"} /\ (t.next >= Len(db) \/ t.next >= t.bytes)
           /\ DeleteMoves(t) /\ size' = t.bytes
           /\ UNCHANGED <<made, db, cmd, walk, todo, counts, history>>
  <2>1. UNCHANGED <<made, db, cmd, pos, seen, todo, commands, faults, intact>>
    BY <1>2 DEF walk, counts, history
  <2>2. t.next \in Nat /\ t.bytes \in Nat /\ Len(db) \in Nat
    BY <1>2, TraverseSays, LenProperties DEF DbInv, TypeOK
  <2>3. CASE pc' = "truncate" /\ UNCHANGED <<src, dst, left>>
    BY <1>2, <2>1, <2>2, <2>3 DEF DbInv, TypeOK, WorkOK
  <2>4. CASE Len(db) - t.next > 0 /\ pc' = "move" /\ src' = t.next /\ dst' = t.next - t.bytes
             /\ left' = Len(db) - t.next
    <3>1. src' \in Nat /\ dst' \in Nat /\ left' \in Nat /\ size' \in Nat
          /\ src' = dst' + size' /\ left' > 0 /\ left' = Len(db') - src'
      BY <1>2, <2>1, <2>2, <2>4
    <3> QED BY <2>1, <2>4, <3>1 DEF DbInv, TypeOK, WorkOK
  <2> QED BY <1>2, <2>2, <2>3, <2>4 DEF DeleteMoves
<1> QED BY <1>1, <1>2, EndTypes, SpinTypes DEF DbInv

LEMMA LocateTypes == ASSUME DbInv, locate_object PROVE DbInv'
<1>1. PICK t \in traverse_object(db, pos) :
        \/ NotFound \/ Spin \/ Breaks
        \/ t.is = "object" /\ Found(t.next - t.bytes)
        \/ t.is = "object" /\ pos' = t.next /\ UNCHANGED <<made, db, pc, cmd, seen, todo, moving, counts, history>>
  BY DEF locate_object
<1>2. pc = "walk" /\ cmd.kind # "find"
  BY DEF locate_object
<1>3. t.is = "object" => t.next \in Nat /\ t.bytes \in Nat
  BY TraverseSays DEF DbInv, TypeOK
<1>4. CASE t.is = "object" /\ pos' = t.next /\ UNCHANGED <<made, db, pc, cmd, seen, todo, moving, counts, history>>
  <2>1. UNCHANGED <<made, db, pc, cmd, seen, todo, src, dst, left, size, commands, faults, intact>>
    BY <1>4 DEF moving, counts, history
  <2> QED BY <1>2, <1>3, <1>4, <2>1 DEF DbInv, TypeOK, WorkOK
<1>5. CASE NotFound
  <2>1. CASE cmd.kind # "import"
    BY <1>5, <2>1, EndTypes DEF NotFound, DbInv
  <2>2. CASE cmd.kind = "import"
    <3>1. /\ todo' = PiecesOf /\ pc' = "write"
          /\ UNCHANGED <<made, db, cmd, pos, seen, src, dst, left, size, commands, faults, intact>>
      BY <1>5, <2>2 DEF NotFound, PiecesOf, walk, moving, counts, history
    <3>2. cmd.name \in Seq(Letters) /\ cmd.bytes \in Seq(Byte)
      BY <2>2, SourcesAre DEF DbInv, WorkOK
    <3>3. PICK P \in Seq(Seq(Byte)) : P = PiecesOf /\ Len(P) >= 2 /\ Len(P) \in Nat
      BY <3>2, PiecesAre DEF PiecesOf
    <3>4. PiecesOf' = P
      BY <3>1, <3>3 DEF PiecesOf
    <3>5. todo' = P /\ P # <<>> /\ \A i \in DOMAIN P : (Len(P) - Len(P)) + i = i
      BY <3>1, <3>3
    <3>6. Fits(todo', P, db')
      BY <3>3, <3>5 DEF Fits
    <3>7. WorkOK'
      BY <2>2, <3>1, <3>4, <3>5, <3>6 DEF DbInv, WorkOK
    <3>8. TypeOK'
      BY <3>1, <3>3 DEF DbInv, TypeOK
    <3> QED BY <3>7, <3>8 DEF DbInv
  <2> QED BY <2>1, <2>2
<1>6. CASE t.is = "object" /\ Found(t.next - t.bytes)
  <2> DEFINE place == t.next - t.bytes
  <2>1. place \in Int /\ Found(place)
    BY <1>3, <1>6
  <2> HIDE DEF place
  <2>2. \/ Breaks \/ Ends("exists", <<>>, {}) \/ export_object(place)
        \/ place \in Nat /\ delete_object(place)
    BY <2>1 DEF Found
  <2>3. CASE export_object(place)
    <3>1. Spin \/ \E said, bytes : Ends(said, bytes, {})
      BY <2>3 DEF export_object
    <3> QED BY <3>1, SpinTypes, EndTypes DEF DbInv
  <2> QED BY <1>2, <2>2, <2>3, EndTypes, DeleteTypes DEF DbInv
<1> QED BY <1>1, <1>4, <1>5, <1>6, EndTypes, SpinTypes DEF DbInv

(* Writing.                                                                *)
LEMMA OpenTypes == ASSUME DbInv, open_database_file \/ Commands \/ Quit PROVE DbInv'
<1>1. CASE open_database_file
  <2>1. ASSUME UNCHANGED <<made, db, cmd, walk, todo, moving, counts, history>>, pc' \in {"menu", "off"}
        PROVE  DbInv'
    <3>1. UNCHANGED <<made, db, cmd, pos, seen, todo, src, dst, left, size, commands, faults, intact>>
      BY <2>1 DEF walk, moving, counts, history
    <3> QED BY <2>1, <3>1 DEF DbInv, TypeOK, WorkOK
  <2>2. CASE /\ made' = TRUE /\ pc' = "write" /\ todo' = <<Magic>> /\ cmd' = [NoCommand EXCEPT !.kind = "open"]
             /\ UNCHANGED <<db, walk, moving, counts, history>>
    <3>1. UNCHANGED <<db, pos, seen, src, dst, left, size, commands, faults, intact>>
      BY <2>2 DEF walk, moving, counts, history
    <3>2. Magic \in Seq(Byte) /\ todo' \in Seq(Seq(Byte)) /\ todo' # <<>>
      <4>1. Base - 1 \in Byte
        BY DEF Byte
      <4>2. Magic \in Seq(Byte)
        BY <4>1 DEF Magic
      <4> QED BY <2>2, <4>2
    <3>3. cmd' \in [kind : {"none", "open", "import", "export", "find", "delete"},
                   name : Names \cup Patterns \cup {<<>>}, bytes : Contents \cup {<<>>}]
          /\ cmd'.kind = "open"
      BY <2>2 DEF NoCommand
    <3>4. TypeOK'
      BY <2>2, <3>1, <3>2, <3>3 DEF DbInv, TypeOK
    <3>5. WorkOK'
      BY <2>2, <3>2, <3>3 DEF WorkOK
    <3> QED BY <3>4, <3>5 DEF DbInv
  <2> QED BY <1>1, <2>1, <2>2, SpinTypes DEF open_database_file
<1>2. CASE Commands
  <2>1. PICK kind \in {"import", "export", "find", "delete"}, name \in Names \cup Patterns,
             bytes \in Contents \cup {<<>>} :
          /\ Command(kind, name, bytes)
          /\ kind = "import" => name \in Names /\ bytes \in Contents
    BY <1>2 DEF Commands, Names, Contents
  <2>2. /\ pc = "menu" /\ commands < MaxCommands /\ commands' = commands + 1
        /\ cmd' = [kind |-> kind, name |-> name, bytes |-> bytes] /\ pos' = Len(Magic) /\ pc' = "walk"
        /\ UNCHANGED <<made, db, seen, todo, src, dst, left, size, faults, intact>>
    BY <2>1 DEF Command, moving, history
  <2>3. Len(Magic) \in Nat
    BY DEF Magic
  <2>4. cmd' \in [kind : {"none", "open", "import", "export", "find", "delete"},
                 name : Names \cup Patterns \cup {<<>>}, bytes : Contents \cup {<<>>}]
    BY <2>2
  <2>5. commands' \in 0 .. MaxCommands
    BY <2>2, DbAssumption DEF DbInv, TypeOK
  <2>6. TypeOK'
    BY <2>2, <2>3, <2>4, <2>5 DEF DbInv, TypeOK
  <2>7. WorkOK'
    BY <2>1, <2>2 DEF WorkOK
  <2> QED BY <2>6, <2>7 DEF DbInv
<1>3. CASE Quit
  <2>1. pc' = "off" /\ UNCHANGED <<made, db, cmd, pos, seen, todo, src, dst, left, size, commands, faults, intact>>
    BY <1>3 DEF Quit, walk, moving, counts, history
  <2> QED BY <2>1 DEF DbInv, TypeOK, WorkOK
<1> QED BY <1>1, <1>2, <1>3

(* The first of what is to be written, or some of it.                      *)
LEMMA HeadOfTodo ==
  ASSUME DbInv, pc = "write"
  PROVE  /\ todo \in Seq(Seq(Byte)) /\ todo # <<>> /\ Head(todo) \in Seq(Byte) /\ db \in Seq(Byte)
         /\ \A n \in 0 .. Len(Head(todo)) - 1 : SubSeq(Head(todo), 1, n) \in Seq(Byte)
<1>1. todo \in Seq(Seq(Byte)) /\ todo # <<>> /\ db \in Seq(Byte)
  BY DEF DbInv, TypeOK, WorkOK
<1>2. Head(todo) \in Seq(Byte)
  BY <1>1
<1>3. PICK h \in Seq(Byte) : h = Head(todo)
  BY <1>2
<1>4. ASSUME NEW n \in 0 .. Len(h) - 1 PROVE SubSeq(h, 1, n) \in Seq(Byte)
  <2>1. n \in Int /\ n <= Len(h) /\ 1 \in Nat \ {0}
    BY LenProperties
  <2> QED BY <2>1, PartOf
<1> QED BY <1>1, <1>3, <1>4

LEMMA PieceWritten ==
  ASSUME NEW P \in Seq(Seq(Byte)), Len(P) > 3 => Len(P[3]) = BlockSize,
         NEW s \in Seq(Seq(Byte)), Len(s) \in Nat, Len(s) > 1, NEW a, NEW b, Fits(s, P, a),
         Len(a) \in Nat, Len(b) = Len(a) + Len(Head(s)), Len(Head(s)) \in Nat
  PROVE  Fits(Tail(s), P, b)
<1>1. PICK n \in Nat, m \in Nat : n = Len(P) /\ m = Len(s) /\ m >= 2
  <2>1. Len(P) \in Nat
    BY LenProperties
  <2> QED BY <2>1
<1>2. /\ Tail(s) \in Seq(Seq(Byte)) /\ Len(Tail(s)) = m - 1
      /\ \A i \in 1 .. m - 1 : Tail(s)[i] = s[i + 1]
  BY <1>1
<1>3. DOMAIN s = 1 .. m /\ DOMAIN Tail(s) = 1 .. m - 1 /\ Head(s) = s[1]
  BY <1>1, <1>2, LenProperties
<1>4. /\ m <= n /\ \A i \in 1 .. m : Len(s[i]) = Len(P[n - m + i])
      /\ m < n - 2 => Len(a) >= BlockSize
  BY <1>1, <1>3 DEF Fits
<1>5. ASSUME NEW i \in 1 .. m - 1 PROVE Len(Tail(s)[i]) = Len(P[n - (m - 1) + i])
  <2>1. i + 1 \in 1 .. m /\ n - m + (i + 1) = n - (m - 1) + i
    OBVIOUS
  <2> QED BY <1>2, <1>4, <2>1
<1>6. ASSUME m - 1 < n - 2 PROVE Len(b) >= BlockSize
  <2>1. CASE m < n - 2
    BY <1>4, <2>1
  <2>2. CASE m = n - 2
    <3>1. 1 \in 1 .. m /\ n - m + 1 = 3 /\ n > 3
      BY ONLY <1>1, <2>2, n \in Nat, m \in Nat
    <3>2. Len(s[1]) = Len(P[3])
      BY <1>4, <3>1
    <3> QED BY <1>1, <1>3, <3>1, <3>2
  <2> QED BY <1>6, <2>1, <2>2
<1>7. PICK t : t = Tail(s)
  OBVIOUS
<1>8. /\ Len(t) = m - 1 /\ DOMAIN t = 1 .. m - 1 /\ Len(P) = n
      /\ \A i \in 1 .. m - 1 : Len(t[i]) = Len(P[n - (m - 1) + i])
  BY <1>1, <1>2, <1>3, <1>5, <1>7
<1>9. Fits(t, P, b)
  <2>1. Len(t) <= Len(P) /\ (Len(t) < Len(P) - 2 => Len(b) >= BlockSize)
    BY <1>1, <1>4, <1>6, <1>8
  <2>2. \A i \in DOMAIN t : Len(t[i]) = Len(P[Len(P) - Len(t) + i])
    BY <1>8
  <2> QED BY <2>1, <2>2 DEF Fits
<1> QED BY <1>7, <1>9

LEMMA WriteTypes == ASSUME DbInv, safe_write PROVE DbInv'
<1>1. pc = "write" /\ db' = db \o Head(todo) /\ faults' = faults
  BY DEF safe_write
<1>2. db' \in Seq(Byte) /\ Len(db') = Len(db) + Len(Head(todo)) /\ Len(db) \in Nat /\ Len(Head(todo)) \in Nat
  BY <1>1, HeadOfTodo, ConcatProperties, LenProperties
<1>3. CASE Len(todo) = 1
  <2>1. Finish("done", <<>>, {}) /\ faults' \in 0 .. MaxFaults
    BY <1>1, <1>3 DEF safe_write, DbInv, TypeOK
  <2> QED BY <1>2, <2>1, FinishTypes DEF DbInv
<1>4. CASE Len(todo) # 1
  <2>1. /\ todo' = Tail(todo) /\ UNCHANGED <<made, pc, cmd, pos, seen, src, dst, left, size, commands, intact>>
    BY <1>4 DEF safe_write, walk, moving, history
  <2>2. todo \in Seq(Seq(Byte)) /\ todo # <<>> /\ Len(todo) \in Nat /\ Len(todo) > 1
    <3>1. todo \in Seq(Seq(Byte)) /\ todo # <<>>
      BY <1>1, HeadOfTodo
    <3>2. PICK m \in Nat : m = Len(todo) /\ m # 0
      BY ONLY <3>1, EmptySeq
    <3>3. m > 1
      BY ONLY m \in Nat, <1>4, <3>2
    <3> QED BY <3>1, <3>2, <3>3
  <2>3. todo' \in Seq(Seq(Byte)) /\ Len(todo') = Len(todo) - 1 /\ todo' # <<>>
    <3>1. Tail(todo) \in Seq(Seq(Byte)) /\ Len(Tail(todo)) = Len(todo) - 1
      BY ONLY <2>2, HeadTailProperties
    <3>2. PICK t : t = Tail(todo)
      OBVIOUS
    <3>3. t # <<>>
      <4>1. PICK m \in Nat : m = Len(todo) /\ m > 1
        BY <2>2
      <4>2. Len(t) = m - 1
        BY <3>1, <3>2, <4>1
      <4>3. Len(t) # 0
        BY ONLY m \in Nat, <4>1, <4>2
      <4> QED BY ONLY <4>3, EmptySeq
    <3> QED BY <2>1, <3>1, <3>2, <3>3
  <2>4. TypeOK'
    BY <1>1, <1>2, <2>1, <2>3 DEF DbInv, TypeOK
  <2>5. WorkOK'
    <3>1. ASSUME cmd.kind = "import" PROVE Fits(todo', PiecesOf, db')
      <4>1. PICK P \in Seq(Seq(Byte)) : P = PiecesOf /\ (Len(P) > 3 => Len(P[3]) = BlockSize)
        BY <3>1, SourcesAre, PiecesAre DEF DbInv, WorkOK, PiecesOf
      <4>2. Fits(todo, P, db)
        BY <1>1, <3>1, <4>1 DEF DbInv, WorkOK
      <4> QED BY <1>2, <2>1, <2>2, <4>1, <4>2, PieceWritten
    <3>2. PiecesOf' = PiecesOf /\ pc' = "write" /\ cmd' = cmd
      BY <1>1, <2>1 DEF PiecesOf
    <3>3. /\ cmd'.kind \in {"open", "import"}
          /\ cmd'.kind = "import" => cmd'.name \in Names /\ cmd'.bytes \in Contents
      BY <1>1, <3>2 DEF DbInv, WorkOK
    <3>4. cmd'.kind = "import" => Fits(todo', PiecesOf', db')
      BY <3>1, <3>2
    <3> QED BY <2>3, <3>2, <3>3, <3>4 DEF WorkOK
  <2> QED BY <2>4, <2>5 DEF DbInv
<1> QED BY <1>3, <1>4

LEMMA FitsLonger ==
  ASSUME NEW s, NEW P, NEW a, NEW b, Fits(s, P, a), Len(a) \in Nat, Len(b) \in Nat, Len(a) <= Len(b)
  PROVE  Fits(s, P, b)
  BY DEF Fits

LEMMA ShortTypes == ASSUME DbInv, ShortWrite PROVE DbInv'
<1>1. PICK n \in 1 .. Len(Head(todo)) - 1 : db' = db \o SubSeq(Head(todo), 1, n)
  BY DEF ShortWrite
<1>2. /\ pc = "write" /\ faults' = faults + 1 /\ faults < MaxFaults /\ intact' = FALSE
      /\ UNCHANGED <<made, pc, cmd, pos, seen, todo, src, dst, left, size, commands>>
  BY DEF ShortWrite, Strike, walk, moving
<1>3. SubSeq(Head(todo), 1, n) \in Seq(Byte) /\ db \in Seq(Byte)
  <2>1. n \in 0 .. Len(Head(todo)) - 1
    BY <1>2, HeadOfTodo, LenProperties
  <2> QED BY <1>2, <2>1, HeadOfTodo
<1>4. db' \in Seq(Byte) /\ Len(db) \in Nat /\ Len(db') \in Nat /\ Len(db) <= Len(db')
  <2>1. PICK x \in Seq(Byte) : x = SubSeq(Head(todo), 1, n)
    BY <1>3
  <2>2. db \o x \in Seq(Byte) /\ Len(db \o x) = Len(db) + Len(x) /\ Len(db) \in Nat /\ Len(x) \in Nat
    BY ONLY <1>3, x \in Seq(Byte), ConcatProperties, LenProperties
  <2> QED BY <1>1, <2>1, <2>2
<1>5. faults' \in 0 .. MaxFaults
  BY <1>2, DbAssumption DEF DbInv, TypeOK
<1>6. TypeOK'
  BY <1>2, <1>4, <1>5 DEF DbInv, TypeOK
<1>7. WorkOK'
  <2>1. PiecesOf' = PiecesOf
    BY <1>2 DEF PiecesOf
  <2>2. cmd.kind = "import" => Fits(todo, PiecesOf, db')
    BY <1>2, <1>4, FitsLonger DEF DbInv, WorkOK
  <2> QED BY <1>2, <2>1, <2>2 DEF DbInv, WorkOK
<1> QED BY <1>6, <1>7 DEF DbInv

LEMMA FullTypes == ASSUME DbInv, DiskFull \/ Kill PROVE DbInv'
<1>1. Fail /\ faults' \in 0 .. MaxFaults
  BY DbAssumption DEF DiskFull, Kill, Strike, DbInv, TypeOK
<1>2. db' \in Seq(Byte)
  <2>1. CASE DiskFull
    <3>1. PICK n \in 0 .. Len(Head(todo)) - 1 : db' = db \o SubSeq(Head(todo), 1, n)
      BY <2>1 DEF DiskFull
    <3>2. PICK x \in Seq(Byte) : x = SubSeq(Head(todo), 1, n)
      BY <2>1, HeadOfTodo DEF DiskFull
    <3>3. db \o x \in Seq(Byte)
      BY ConcatProperties DEF DbInv, TypeOK
    <3> QED BY <3>1, <3>2, <3>3
  <2>2. CASE Kill
    BY <2>2 DEF Kill, DbInv, TypeOK
  <2> QED BY <2>1, <2>2
<1> QED BY <1>1, <1>2, FailTypes DEF DbInv

(* What is spoilt keeps its length.                                        *)
LEMMA ShrinkTypes == ASSUME DbInv, SourceShrinks PROVE DbInv'
<1>1. /\ pc = "write" /\ cmd.kind = "import" /\ Len(todo) <= Len(PiecesOf) - 2
      /\ faults' = faults + 1 /\ faults < MaxFaults /\ intact' = FALSE
      /\ UNCHANGED <<made, db, cmd, pos, seen, src, dst, left, size, commands>>
  BY DEF SourceShrinks, Strike, PiecesOf, walk, moving
<1>2. faults' \in 0 .. MaxFaults
  BY <1>1, DbAssumption DEF DbInv, TypeOK
<1>3. CASE pc' = "spin" /\ UNCHANGED todo
  BY <1>1, <1>2, <1>3 DEF DbInv, TypeOK, WorkOK
<1>4. CASE ~(pc' = "spin" /\ UNCHANGED todo)
  <2>1. PICK P \in Seq(Seq(Byte)) : P = PiecesOf /\ \A i \in 3 .. Len(P) : Len(P[i]) <= BlockSize
    BY <1>1, SourcesAre, PiecesAre DEF DbInv, WorkOK, PiecesOf
  <2>2. Fits(todo, P, db) /\ todo \in Seq(Seq(Byte)) /\ todo # <<>> /\ db \in Seq(Byte)
    BY <1>1, <2>1 DEF DbInv, TypeOK, WorkOK
  <2>3. PICK n \in Nat, m \in Nat : n = Len(P) /\ m = Len(todo)
    BY <2>2, LenProperties
  <2>4. m <= n - 2 /\ DOMAIN todo = 1 .. m /\ (m < n - 2 => Len(db) >= BlockSize)
    BY <1>1, <2>1, <2>2, <2>3, LenProperties DEF Fits
  <2>5. ASSUME NEW i \in 1 .. m PROVE Len(todo[i]) <= BlockSize /\ Len(todo[i]) \in Nat
    <3>1. n - m + i \in 3 .. n
      BY <2>4
    <3>2. Len(todo[i]) = Len(P[n - m + i])
      BY <2>2, <2>3, <2>4 DEF Fits
    <3>3. todo[i] \in Seq(Byte)
      BY <2>2, <2>4
    <3> QED BY <2>1, <2>3, <3>1, <3>2, <3>3, LenProperties
  <2>6. PICK buffer : /\ \/ m = n - 2 /\ \E b \in Byte : buffer = [i \in 1 .. BlockSize |-> b]
                         \/ m # n - 2 /\ buffer = SubSeq(db, Len(db) - BlockSize + 1, Len(db))
                      /\ todo' = [i \in DOMAIN todo |-> SubSeq(buffer, 1, Len(todo[i]))]
                      /\ pc' = pc
    BY <1>4, <2>1, <2>3 DEF SourceShrinks, PiecesOf
  <2>7. buffer \in Seq(Byte) /\ Len(buffer) = BlockSize
    <3>1. CASE m = n - 2
      <4>1. buffer \in [1 .. BlockSize -> Byte]
        BY <2>6, <3>1
      <4> QED BY <4>1, FunctionIsSequence
    <3>2. CASE m # n - 2
      <4>1. PICK z \in Nat : z = Len(db) /\ z >= BlockSize
        BY <2>2, <2>4, <3>2, LenProperties
      <4>2. PICK y \in Nat \ {0} : y = z - BlockSize + 1
        <5>1. z - BlockSize + 1 \in Nat \ {0}
          BY ONLY z \in Nat, BlockSize \in Nat, <4>1
        <5> QED BY <5>1
      <4>3. SubSeq(db, y, z) \in Seq(Byte) /\ Len(SubSeq(db, y, z)) = z - y + 1
        BY <2>2, <4>1, <4>2, PartOf
      <4>4. z - y + 1 = BlockSize
        BY <4>1, <4>2
      <4> QED BY <2>6, <3>2, <4>1, <4>2, <4>3, <4>4
    <3> QED BY <3>1, <3>2
  <2>8. ASSUME NEW i \in 1 .. m PROVE /\ SubSeq(buffer, 1, Len(todo[i])) \in Seq(Byte)
                                     /\ Len(SubSeq(buffer, 1, Len(todo[i]))) = Len(todo[i])
    <3>1. PICK k \in Nat : k = Len(todo[i]) /\ k <= BlockSize
      BY <2>5
    <3>2. SubSeq(buffer, 1, k) \in Seq(Byte) /\ Len(SubSeq(buffer, 1, k)) = IF 1 <= k THEN k - 1 + 1 ELSE 0
      BY <2>7, <3>1, PartOf
    <3> QED BY <3>1, <3>2
  <2>9. PICK t : t = todo' /\ t \in [1 .. m -> Seq(Byte)] /\ \A i \in 1 .. m : Len(t[i]) = Len(todo[i])
    BY <2>4, <2>6, <2>8
  <2>10. t \in Seq(Seq(Byte)) /\ Len(t) = m /\ t # <<>>
    <3>1. t \in Seq(Seq(Byte)) /\ Len(t) = m
      BY <2>9, FunctionIsSequence
    <3>2. m # 0
      BY <2>2, <2>3, EmptySeq
    <3> QED BY <3>1, <3>2, EmptySeq
  <2>11. Fits(t, P, db)
    <3>1. DOMAIN t = 1 .. m
      BY <2>9
    <3> QED BY <2>2, <2>3, <2>4, <2>9, <2>10, <3>1 DEF Fits
  <2>12. TypeOK'
    BY <1>1, <1>2, <2>6, <2>9, <2>10 DEF DbInv, TypeOK
  <2>13. WorkOK'
    <3>1. PiecesOf' = P
      BY <1>1, <2>1 DEF PiecesOf
    <3> QED BY <1>1, <2>6, <2>9, <2>10, <2>11, <3>1 DEF DbInv, WorkOK
  <2> QED BY <2>12, <2>13 DEF DbInv
<1> QED BY <1>3, <1>4

(* Moving.                                                                 *)
LEMMA MovedBlock ==
  ASSUME DbInv, transfer_data
  PROVE  \E n \in Nat \ {0} :
           /\ n <= left /\ src + n <= Len(db) /\ dst <= src
           /\ db' \in Seq(Byte) /\ Len(db') = Len(db)
           /\ \A i \in 1 .. Len(db) : db'[i] = IF i \in dst + 1 .. dst + n THEN db[src + i - dst] ELSE db[i]
           /\ src' = src + n /\ dst' = dst + n /\ left' = left - n
           /\ pc' = IF left = n THEN "truncate" ELSE "move"
<1>1. /\ pc = "move" /\ db \in Seq(Byte) /\ src \in Nat /\ dst \in Nat /\ left \in Nat /\ size \in Nat
      /\ src = dst + size /\ left = Len(db) - src /\ left > 0
  BY DEF DbInv, TypeOK, WorkOK, transfer_data
<1>2. PICK n \in Nat \ {0} : n = Min({BlockSize, left}) /\ n <= left
  <2>1. Min({BlockSize, left}) = IF BlockSize <= left THEN BlockSize ELSE left
    BY <1>1, MinOfTwo
  <2> QED BY <1>1, <2>1
<1>3. /\ db' = [i \in DOMAIN db |-> IF i \in dst + 1 .. dst + n THEN db[src + i - dst] ELSE db[i]]
      /\ src' = src + n /\ dst' = dst + n /\ left' = left - n
      /\ pc' = IF left = n THEN "truncate" ELSE "move"
  BY <1>2 DEF transfer_data
<1>4. PICK z \in Nat : z = Len(db) /\ DOMAIN db = 1 .. z
  BY <1>1, LenProperties
<1>5. ASSUME NEW i \in 1 .. z PROVE (IF i \in dst + 1 .. dst + n THEN db[src + i - dst] ELSE db[i]) \in Byte
  <2>1. CASE i \in dst + 1 .. dst + n
    <3>1. src + i - dst \in 1 .. z
      BY <1>1, <1>2, <1>4, <2>1
    <3> QED BY <1>1, <1>4, <2>1, <3>1
  <2>2. CASE i \notin dst + 1 .. dst + n
    BY <1>1, <1>4, <2>2
  <2> QED BY <2>1, <2>2
<1>6. db' \in [1 .. z -> Byte]
  BY <1>3, <1>4, <1>5
<1>7. db' \in Seq(Byte) /\ Len(db') = z
  BY <1>6, FunctionIsSequence
<1>8. src + n <= z /\ dst <= src
  BY <1>1, <1>2, <1>4
<1> QED BY <1>2, <1>3, <1>4, <1>7, <1>8

LEMMA TransferTypes == ASSUME DbInv, transfer_data PROVE DbInv'
<1>1. PICK n \in Nat \ {0} :
        /\ n <= left /\ db' \in Seq(Byte) /\ Len(db') = Len(db)
        /\ src' = src + n /\ dst' = dst + n /\ left' = left - n
        /\ pc' = IF left = n THEN "truncate" ELSE "move"
  BY MovedBlock
<1>2. pc = "move" /\ UNCHANGED <<made, cmd, pos, seen, todo, size, commands, faults, intact>>
  BY DEF transfer_data, walk, counts, history
<1>3. /\ src \in Nat /\ dst \in Nat /\ left \in Nat /\ size \in Nat /\ Len(db) \in Nat
      /\ src = dst + size /\ left = Len(db) - src
  BY <1>2, LenProperties DEF DbInv, TypeOK, WorkOK
<1>4. src' \in Nat /\ dst' \in Nat /\ left' \in Nat /\ src' = dst' + size /\ left' = Len(db) - src'
      /\ (pc' = "move" => left' > 0)
  BY <1>1, <1>3
<1>5. TypeOK'
  BY <1>1, <1>2, <1>3, <1>4 DEF DbInv, TypeOK
<1>6. WorkOK'
  BY <1>1, <1>2, <1>4 DEF DbInv, WorkOK
<1> QED BY <1>5, <1>6 DEF DbInv

LEMMA TruncateTypes == ASSUME DbInv, ftruncate PROVE DbInv'
<1>1. db \in Seq(Byte) /\ size \in Nat /\ Len(db) \in Nat /\ faults' \in 0 .. MaxFaults
  BY LenProperties DEF DbInv, TypeOK, ftruncate
<1>2. CASE size > Len(db)
  BY <1>1, <1>2, FailTypes DEF ftruncate, DbInv
<1>3. CASE ~(size > Len(db))
  <2>1. PICK k \in Nat : k = Len(db) - size
    BY <1>1, <1>3
  <2>2. SubSeq(db, 1, k) \in Seq(Byte)
    BY <1>1, <2>1, PartOf
  <2>3. db' \in Seq(Byte) /\ Finish("done", <<>>, {})
    BY <1>3, <2>1, <2>2 DEF ftruncate
  <2> QED BY <1>1, <2>3, FinishTypes DEF DbInv
<1> QED BY <1>2, <1>3

LEMMA DbStep == DbInv /\ [Next]_vars => DbInv'
<1> SUFFICES ASSUME DbInv, [Next]_vars PROVE DbInv'
  OBVIOUS
<1>1. CASE UNCHANGED vars
  <2>1. UNCHANGED <<made, db, pc, cmd, pos, seen, todo, src, dst, left, size, commands, faults, intact>>
    BY <1>1 DEF vars, walk, moving, counts, history
  <2> QED BY <2>1 DEF DbInv, TypeOK, WorkOK, PiecesOf
<1> QED BY <1>1, OpenTypes, FindTypes, LocateTypes, WriteTypes, TransferTypes, TruncateTypes,
           ShortTypes, FullTypes, ShrinkTypes DEF Next, Program

LEMMA DbAlways == Spec => []DbInv
  BY DbInit, DbStep, PTL DEF Spec

(* The types of hw1's state: whatever is read from a spoilt file, no       *)
(* offset and no length the program goes on with is below zero, and what   *)
(* it writes are bytes.                                                    *)
THEOREM ObjectDbTypes == Spec => []TypeOK
<1>1. DbInv => TypeOK
  BY DEF DbInv
<1> QED BY <1>1, DbAlways, PTL

-----------------------------------------------------------------------------
(* The file without n bytes behind the first p.                            *)
Cut(file, p, n) == SubSeq(file, 1, p) \o SubSeq(file, p + n + 1, Len(file))

(* The n bytes at p are those traverse_object takes, the second time, for  *)
(* the object that has the name and at which the walk stands.              *)
Traversed(p, n) ==
  \E t \in traverse_object(stable, pos) :
    /\ t.is = "object" /\ t.name = cmd.name /\ t.next - t.bytes \in Nat
    /\ \E u \in traverse_object(stable, t.next - t.bytes) :
         u.is \in {"object", "end"} /\ u.bytes = n /\ p = Min({u.next, Len(stable)}) - n

(* The first d bytes are those of the stable file without the n at p.      *)
Moved(p, d) ==
  /\ p \in 0 .. d /\ Traversed(p, size)
  /\ \A i \in 1 .. d : db[i] = stable[IF i <= p THEN i ELSE i + size]

FileOK ==
  intact =>
    /\ stable \in Seq(Byte)
    /\ pc \in {"off", "menu", "walk"} => db = stable
    /\ pc = "write" => Len(stable) <= Len(db) /\ \A i \in DOMAIN stable : db[i] = stable[i]
    /\ pc \in {"move", "truncate"} => Len(db) = Len(stable)
    /\ pc = "move" => /\ \E p \in Nat : Moved(p, dst)
                      /\ \A i \in src + 1 .. Len(db) : db[i] = stable[i]
    /\ pc = "truncate" /\ size <= Len(db) => \E p \in Nat : Moved(p, Len(db) - size)

-----------------------------------------------------------------------------
(* The steps.                                                              *)
LEMMA FileInit == Init => FileOK
  BY DEF Init, FileOK

LEMMA FileFinish ==
  ASSUME FileOK, DbInv', NEW said, NEW bytes, NEW names, Finish(said, bytes, names) PROVE FileOK'
<1>1. pc' = "menu" /\ intact' = intact /\ stable' = (IF intact THEN db' ELSE stable)
  BY DEF Finish
<1>2. db' \in Seq(Byte)
  BY DEF DbInv, TypeOK
<1> QED BY <1>1, <1>2 DEF FileOK

LEMMA FileFail == ASSUME FileOK, Fail PROVE FileOK'
  BY DEF Fail, FileOK

LEMMA FileEnds ==
  ASSUME FileOK, DbInv', NEW said, NEW bytes, NEW names, Ends(said, bytes, names) \/ Breaks PROVE FileOK'
  BY FileFinish, FileFail DEF Ends, Breaks

LEMMA FileQuiet ==
  ASSUME FileOK, UNCHANGED <<db, stable, intact>>, pc \in {"off", "menu", "walk"},
         pc' \in {"off", "menu", "walk", "write", "spin"}
  PROVE  FileOK'
<1>1. ASSUME intact' PROVE db' = stable' /\ stable' \in Seq(Byte) /\ pc' \notin {"move", "truncate"}
  BY <1>1 DEF FileOK
<1>2. intact' => /\ Len(stable') <= Len(db') /\ \A i \in DOMAIN stable' : db'[i] = stable'[i]
  <2>1. ASSUME intact' PROVE Len(stable') \in Nat
    BY <1>1, <2>1, LenProperties
  <2> QED BY <1>1, <2>1
<1> QED BY <1>1, <1>2 DEF FileOK

LEMMA FileReads ==
  ASSUME DbInv, DbInv', FileOK, open_database_file \/ Commands \/ Quit \/ find_object PROVE FileOK'
<1>1. CASE open_database_file
  <2>1. UNCHANGED <<db, stable, intact>> /\ pc = "off" /\ pc' \in {"off", "menu", "write", "spin"}
    BY <1>1 DEF open_database_file, Spin, history
  <2> QED BY <2>1, FileQuiet
<1>2. CASE Commands
  <2>1. UNCHANGED <<db, stable, intact>> /\ pc = "menu" /\ pc' = "walk"
    BY <1>2 DEF Commands, Command, history
  <2> QED BY <2>1, FileQuiet
<1>3. CASE Quit
  <2>1. UNCHANGED <<db, stable, intact>> /\ pc = "menu" /\ pc' = "off"
    BY <1>3 DEF Quit, history
  <2> QED BY <2>1, FileQuiet
<1>4. CASE find_object
  <2>1. \/ Ends("done", <<>>, seen) \/ Breaks
        \/ UNCHANGED <<db, stable, intact>> /\ pc = "walk" /\ pc' \in {"walk", "spin"}
    BY <1>4 DEF find_object, Spin, history
  <2> QED BY <2>1, FileQuiet, FileEnds
<1> QED BY <1>1, <1>2, <1>3, <1>4

(* A delete begins: nothing is moved yet, and if nothing has to be, the    *)
(* object is the last.                                                     *)
LEMMA FileDelete ==
  ASSUME DbInv, DbInv', FileOK, pc = "walk", NEW place \in Nat, delete_object(place),
         NEW found \in traverse_object(db, pos), found.is = "object", found.name = cmd.name,
         place = found.next - found.bytes
  PROVE  FileOK'
<1>1. PICK t \in traverse_object(db, place) :
        \/ t.is = "spin" /\ Spin
        \/ Breaks
        \/ /\ t.is \in {"end", "object"} /\ (t.next >= Len(db) \/ t.next >= t.bytes)
           /\ DeleteMoves(t) /\ size' = t.bytes
           /\ UNCHANGED <<made, db, cmd, walk, todo, counts, history>>
  BY DEF delete_object
<1>2. CASE Spin
  <2>1. UNCHANGED <<db, stable, intact>> /\ pc' = "spin"
    BY <1>2 DEF Spin, history
  <2> QED BY <2>1, FileQuiet
<1>3. CASE /\ t.is \in {"end", "object"} /\ (t.next >= Len(db) \/ t.next >= t.bytes)
           /\ DeleteMoves(t) /\ size' = t.bytes
           /\ UNCHANGED <<made, db, cmd, walk, todo, counts, history>>
  <2> SUFFICES ASSUME intact' PROVE FileOK'
    BY DEF FileOK
  <2>1. UNCHANGED <<db, stable, intact, pos, cmd>>
    BY <1>3 DEF history, walk
  <2>2. db = stable /\ stable \in Seq(Byte)
    BY <2>1 DEF FileOK
  <2>3. PICK next \in Nat, bytes \in Nat, z \in Nat : next = t.next /\ bytes = t.bytes /\ z = Len(stable)
    BY <1>3, <2>2, TraverseSays, LenProperties
  <2>4. PICK end \in Nat : end = Min({next, z}) /\ end = IF next <= z THEN next ELSE z
    BY MinOfTwo
  <2>5. ASSUME NEW p \in Nat, p = end - bytes PROVE Traversed(p, bytes)
    BY <1>3, <2>2, <2>3, <2>4, <2>5 DEF Traversed
  <2>6. ASSUME NEW p \in Nat, p = end - bytes, p <= z PROVE Moved(p, p)'
    <3>1. Traversed(p, size)'
      <4>1. Traversed(p, bytes) /\ size' = bytes
        BY <1>3, <2>3, <2>5, <2>6
      <4> QED BY ONLY <2>1, <4>1 DEF Traversed
    <3>2. \A i \in 1 .. p : db'[i] = stable'[i]
      BY <2>1, <2>2
    <3> QED BY <3>1, <3>2 DEF Moved
  <2>7. CASE pc' = "truncate" /\ z - next <= 0
    <3>1. ASSUME size' <= Len(db') PROVE \E p \in Nat : Moved(p, Len(db) - size)'
      <4>1. size' = bytes /\ Len(db') = z /\ end = z
        <5>1. size' = bytes
          BY <1>3, <2>3
        <5>2. Len(db') = z
          BY <2>1, <2>2, <2>3
        <5>3. end = z
          BY ONLY next \in Nat, z \in Nat, <2>4, <2>7
        <5> QED BY <5>1, <5>2, <5>3
      <4>2. PICK p \in Nat : p = z - bytes
        BY ONLY bytes \in Nat, z \in Nat, <3>1, <4>1
      <4>3. Moved(p, p)' /\ p = Len(db') - size'
        BY <2>6, <4>1, <4>2
      <4> QED BY <4>3
    <3> QED BY <2>1, <2>2, <2>7, <3>1 DEF FileOK
  <2>8. CASE z - next > 0 /\ pc' = "move" /\ src' = next /\ dst' = next - bytes
    <3>0. next >= bytes /\ end = next
      <4>1. next >= z \/ next >= bytes
        BY ONLY <1>3, <2>2, <2>3
      <4> QED BY <2>4, <2>8, <4>1
    <3>1. PICK p \in Nat : p = end - bytes /\ p = dst' /\ p <= z
      BY <2>8, <3>0
    <3>2. Moved(p, dst)'
      BY <2>6, <3>1
    <3>3. \A i \in src' + 1 .. Len(db') : db'[i] = stable'[i]
      BY <2>1, <2>2
    <3> QED BY <2>1, <2>2, <2>8, <3>2, <3>3 DEF FileOK
  <2> QED BY <1>3, <2>2, <2>3, <2>7, <2>8 DEF DeleteMoves
<1> QED BY <1>1, <1>2, <1>3, FileEnds

LEMMA FileLocate == ASSUME DbInv, DbInv', FileOK, locate_object PROVE FileOK'
<1>1. PICK t \in traverse_object(db, pos) :
        \/ NotFound \/ Spin \/ Breaks
        \/ t.is = "object" /\ t.name = cmd.name /\ Found(t.next - t.bytes)
        \/ t.is = "object" /\ pos' = t.next /\ UNCHANGED <<made, db, pc, cmd, seen, todo, moving, counts, history>>
  BY DEF locate_object, SameName
<1>2. pc = "walk"
  BY DEF locate_object
<1>3. t.is = "object" => t.next \in Nat /\ t.bytes \in Nat
  BY TraverseSays DEF DbInv, TypeOK
<1>4. CASE pos' = t.next /\ UNCHANGED <<made, db, pc, cmd, seen, todo, moving, counts, history>>
  <2>1. UNCHANGED <<db, stable, intact>> /\ pc' = "walk"
    BY <1>2, <1>4 DEF history
  <2> QED BY <1>2, <2>1, FileQuiet
<1>5. ASSUME Spin PROVE FileOK'
  <2>1. UNCHANGED <<db, stable, intact>> /\ pc' = "spin"
    BY <1>5 DEF Spin, history
  <2> QED BY <1>2, <2>1, FileQuiet
<1>6. CASE NotFound
  <2>1. Ends("missing", <<>>, {}) \/ (UNCHANGED <<db, stable, intact>> /\ pc' = "write")
    BY <1>6 DEF NotFound, history
  <2> QED BY <1>2, <2>1, FileEnds, FileQuiet
<1>7. CASE t.is = "object" /\ t.name = cmd.name /\ Found(t.next - t.bytes)
  <2>1. PICK place \in Int : Found(place) /\ place = t.next - t.bytes
    BY <1>3, <1>7
  <2>2. \/ Breaks \/ Ends("exists", <<>>, {}) \/ export_object(place)
        \/ place \in Nat /\ delete_object(place)
    BY <2>1 DEF Found
  <2>3. CASE export_object(place)
    <3>1. Spin \/ \E said, bytes : Ends(said, bytes, {})
      BY <2>3 DEF export_object
    <3> QED BY <1>5, <3>1, FileEnds
  <2> QED BY <1>2, <1>7, <2>1, <2>2, <2>3, FileEnds, FileDelete
<1> QED BY <1>1, <1>4, <1>5, <1>6, <1>7, FileEnds

LEMMA FileWrite == ASSUME DbInv, DbInv', FileOK, safe_write PROVE FileOK'
<1>1. pc = "write" /\ db' = db \o Head(todo)
  BY DEF safe_write
<1>2. CASE Len(todo) = 1
  BY <1>2, FileFinish DEF safe_write
<1>3. CASE Len(todo) # 1
  <2> SUFFICES ASSUME intact' PROVE FileOK'
    BY DEF FileOK
  <2>1. UNCHANGED <<pc, stable, intact>>
    BY <1>3 DEF safe_write, history
  <2>2. PICK x \in Seq(Byte) : x = Head(todo) /\ db \in Seq(Byte)
    BY <1>1, HeadOfTodo
  <2>3. PICK z \in Nat, n \in Nat, k \in Nat : z = Len(stable) /\ n = Len(db) /\ k = Len(x) /\ z <= n
    BY <1>1, <2>1, <2>2, LenProperties DEF FileOK
  <2>4. Len(db') = n + k /\ \A i \in 1 .. n + k : db'[i] = IF i <= n THEN db[i] ELSE x[i - n]
    BY <1>1, <2>2, <2>3, ConcatProperties
  <2>5. stable \in Seq(Byte) /\ DOMAIN stable = 1 .. z /\ \A i \in 1 .. z : db[i] = stable[i]
    BY <1>1, <2>1, <2>3, LenProperties DEF FileOK
  <2>6. Len(stable') <= Len(db') /\ \A i \in DOMAIN stable' : db'[i] = stable'[i]
    <3>1. \A i \in 1 .. z : db'[i] = stable[i]
      BY <2>3, <2>4, <2>5
    <3> QED BY <2>1, <2>3, <2>4, <2>5, <3>1
  <2> QED BY <1>1, <2>1, <2>5, <2>6 DEF FileOK
<1> QED BY <1>2, <1>3

(* A block is moved: it comes from where nothing has been written yet.     *)
LEMMA FileTransfer == ASSUME DbInv, FileOK, transfer_data PROVE FileOK'
<1> SUFFICES ASSUME intact' PROVE FileOK'
  BY DEF FileOK
<1>1. pc = "move" /\ UNCHANGED <<size, stable, intact, pos, cmd>>
  BY DEF transfer_data, history, walk
<1>2. PICK n \in Nat \ {0} :
        /\ n <= left /\ src + n <= Len(db) /\ dst <= src /\ Len(db') = Len(db)
        /\ \A i \in 1 .. Len(db) : db'[i] = IF i \in dst + 1 .. dst + n THEN db[src + i - dst] ELSE db[i]
        /\ src' = src + n /\ dst' = dst + n /\ pc' = IF left = n THEN "truncate" ELSE "move"
  BY MovedBlock
<1>3. PICK z \in Nat, s \in Nat, d \in Nat, k \in Nat :
        z = Len(db) /\ s = src /\ d = dst /\ k = size /\ s = d + k /\ left = z - s
  BY <1>1, LenProperties DEF DbInv, TypeOK, WorkOK
<1>4. /\ stable \in Seq(Byte) /\ Len(stable) = z
      /\ \A i \in s + 1 .. z : db[i] = stable[i]
  BY <1>1, <1>3 DEF FileOK
<1>5. PICK p \in Nat : /\ p \in 0 .. d /\ Traversed(p, k)
                       /\ \A i \in 1 .. d : db[i] = stable[IF i <= p THEN i ELSE i + k]
  BY <1>1, <1>3 DEF FileOK, Moved
<1>6. PICK f : f = db' /\ \A i \in 1 .. z : f[i] = IF i \in d + 1 .. d + n THEN db[s + i - d] ELSE db[i]
  BY <1>2, <1>3
<1>7. d + n <= z /\ s + n <= z
  BY <1>2, <1>3
<1>8. ASSUME NEW i \in 1 .. d + n PROVE f[i] = stable[IF i <= p THEN i ELSE i + k]
  <2>1. CASE i <= d
    <3>1. i \in 1 .. d /\ i \in 1 .. z /\ i \notin d + 1 .. d + n
      BY <1>7, <2>1
    <3>2. f[i] = db[i]
      BY ONLY <1>6, <3>1
    <3> QED BY ONLY <1>5, <3>1, <3>2
  <2>2. CASE i > d
    <3>1. i \in 1 .. z /\ i \in d + 1 .. d + n /\ s + i - d = i + k /\ i + k \in s + 1 .. z /\ ~(i <= p)
      BY <1>3, <1>5, <1>7, <2>2
    <3>2. f[i] = db[i + k]
      BY <1>6, <3>1
    <3> QED BY ONLY <1>4, <3>1, <3>2
  <2> QED BY <2>1, <2>2
<1>9. \A i \in s + n + 1 .. z : f[i] = stable[i]
  <2> SUFFICES ASSUME NEW i \in s + n + 1 .. z PROVE f[i] = stable[i]
    OBVIOUS
  <2>1. i \in 1 .. z /\ i \in s + 1 .. z /\ i \notin d + 1 .. d + n
    BY <1>3, <1>7
  <2> QED BY ONLY <1>4, <1>6, <2>1
<1>10. Moved(p, d + n)'
  <2>1. p \in 0 .. d + n
    BY <1>5
  <2>2. Traversed(p, size)'
    BY <1>1, <1>3, <1>5 DEF Traversed
  <2>3. \A i \in 1 .. d + n : db'[i] = stable'[IF i <= p THEN i ELSE i + size']
    BY <1>1, <1>3, <1>6, <1>8
  <2> QED BY <2>1, <2>2, <2>3 DEF Moved
<1>11. CASE left = n
  <2>1. Len(db') - size' = d + n /\ pc' = "truncate"
    <3>1. Len(db') = z /\ size' = k /\ pc' = "truncate" /\ n = z - s
      BY <1>1, <1>2, <1>3, <1>11
    <3>2. z - k = d + n
      BY <1>3, <3>1
    <3> QED BY <3>1, <3>2
  <2>2. Moved(p, Len(db) - size)'
    BY <1>10, <2>1
  <2> QED BY <1>1, <1>2, <1>3, <1>4, <2>1, <2>2 DEF FileOK
<1>12. CASE left # n
  <2>1. pc' = "move" /\ dst' = d + n /\ src' = s + n
    BY <1>2, <1>3, <1>12
  <2>2. Moved(p, dst)'
    BY <1>10, <2>1
  <2>3. \A i \in src' + 1 .. Len(db') : db'[i] = stable'[i]
    BY <1>1, <1>2, <1>3, <1>6, <1>9, <2>1
  <2> QED BY <1>1, <1>2, <1>3, <1>4, <2>1, <2>2, <2>3 DEF FileOK
<1> QED BY <1>11, <1>12

LEMMA FileStep == DbInv /\ FileOK /\ [Next]_vars => FileOK'
<1> SUFFICES ASSUME DbInv, FileOK, [Next]_vars PROVE FileOK'
  OBVIOUS
<1>1. DbInv'
  BY DbStep
<1>2. CASE UNCHANGED vars
  <2>1. UNCHANGED <<db, pc, cmd, pos, src, dst, size, stable, intact>>
    BY <1>2 DEF vars, walk, moving, history
  <2>2. ASSUME NEW p, NEW d PROVE Moved(p, d)' <=> Moved(p, d)
    <3>1. Traversed(p, size)' <=> Traversed(p, size)
      BY <2>1 DEF Traversed
    <3> QED BY <2>1, <3>1 DEF Moved
  <2>3. /\ (\E p \in Nat : Moved(p, dst)') <=> (\E p \in Nat : Moved(p, dst))
        /\ (\E p \in Nat : Moved(p, Len(db) - size)') <=> (\E p \in Nat : Moved(p, Len(db) - size))
    BY <2>1, <2>2
  <2> QED BY <2>1, <2>3 DEF FileOK
<1>3. CASE ShortWrite \/ SourceShrinks
  BY <1>3 DEF ShortWrite, SourceShrinks, FileOK
<1>4. CASE DiskFull \/ Kill
  BY <1>4, FileFail DEF DiskFull, Kill
<1>5. CASE ftruncate
  BY <1>1, <1>5, FileFail, FileFinish DEF ftruncate
<1> QED BY <1>1, <1>2, <1>3, <1>4, <1>5, FileReads, FileLocate, FileWrite, FileTransfer DEF Next, Program

LEMMA FileAlways == Spec => [](DbInv /\ FileOK)
  BY DbInit, DbStep, FileInit, FileStep, PTL DEF Spec

-----------------------------------------------------------------------------
(* What this says of sequences.                                            *)
LEMMA SameBytes ==
  ASSUME NEW a \in Seq(Byte), NEW b \in Seq(Byte), Len(a) = Len(b), \A i \in 1 .. Len(a) : a[i] = b[i]
  PROVE  a = b
<1>1. PICK n \in Nat : n = Len(a) /\ n = Len(b) /\ a \in [1 .. n -> Byte] /\ b \in [1 .. n -> Byte]
  BY LenProperties
<1> QED BY <1>1

LEMMA FrontOf ==
  ASSUME NEW a \in Seq(Byte), NEW n \in Nat, n <= Len(a)
  PROVE  SubSeq(a, 1, n) \in Seq(Byte) /\ Len(SubSeq(a, 1, n)) = n /\ \A i \in 1 .. n : SubSeq(a, 1, n)[i] = a[i]
<1>0. PICK m \in Nat \ {0} : m = 1
  OBVIOUS
<1>1. PICK x : x = SubSeq(a, m, n)
  OBVIOUS
<1>2. /\ x \in Seq(Byte) /\ Len(x) = IF m <= n THEN n - m + 1 ELSE 0
      /\ \A i \in 1 .. n - m + 1 : x[i] = a[m + i - 1]
  BY ONLY a \in Seq(Byte), m \in Nat \ {0}, n \in Nat, n <= Len(a), <1>1, PartOf
<1>3. Len(x) = n /\ \A i \in 1 .. n : x[i] = a[i]
  BY ONLY <1>0, <1>2, n \in Nat
<1> QED BY <1>0, <1>1, <1>2, <1>3

LEMMA RestOf ==
  ASSUME NEW a \in Seq(Byte), NEW n \in Nat, NEW z \in Nat, z = Len(a), n <= z
  PROVE  /\ SubSeq(a, n + 1, z) \in Seq(Byte) /\ Len(SubSeq(a, n + 1, z)) = z - n
         /\ \A i \in 1 .. z - n : SubSeq(a, n + 1, z)[i] = a[n + i]
<1>0. PICK m \in Nat \ {0} : m = n + 1
  OBVIOUS
<1>1. PICK x : x = SubSeq(a, m, z)
  OBVIOUS
<1>2. /\ x \in Seq(Byte) /\ Len(x) = IF m <= z THEN z - m + 1 ELSE 0
      /\ \A i \in 1 .. z - m + 1 : x[i] = a[m + i - 1]
  BY ONLY a \in Seq(Byte), m \in Nat \ {0}, z \in Nat, z = Len(a), <1>1, PartOf
<1>3. Len(x) = z - n /\ \A i \in 1 .. z - n : x[i] = a[n + i]
  BY ONLY <1>0, <1>2, n \in Nat, z \in Nat, n <= z
<1> QED BY <1>0, <1>1, <1>2, <1>3

(* A file without what is behind the first d bytes and in front of s.      *)
Lacks(c, a, z, d, n) ==
  c \in Seq(Byte) /\ Len(c) = z - n /\ \A i \in 1 .. z - n : c[i] = a[IF i <= d THEN i ELSE i + n]

LEMMA Joined ==
  ASSUME NEW a \in Seq(Byte), NEW z \in Nat, z = Len(a),
         NEW d \in Nat, NEW s \in Nat, NEW n \in Nat, s = d + n, s <= z
  PROVE  Lacks(SubSeq(a, 1, d) \o SubSeq(a, s + 1, z), a, z, d, n)
<1>1. d <= z /\ s <= z /\ z = Len(a)
  OBVIOUS
<1>2. PICK x \in Seq(Byte) : x = SubSeq(a, 1, d) /\ Len(x) = d /\ \A i \in 1 .. d : x[i] = a[i]
  <2>1. /\ SubSeq(a, 1, d) \in Seq(Byte) /\ Len(SubSeq(a, 1, d)) = d
        /\ \A i \in 1 .. d : SubSeq(a, 1, d)[i] = a[i]
    <3>1. d <= Len(a)
      BY <1>1
    <3> QED BY ONLY a \in Seq(Byte), d \in Nat, <3>1, FrontOf
  <2>2. PICK x : x = SubSeq(a, 1, d)
    OBVIOUS
  <2> QED BY ONLY <2>1, <2>2
<1>3. PICK y \in Seq(Byte) : y = SubSeq(a, s + 1, z) /\ Len(y) = z - s /\ \A i \in 1 .. z - s : y[i] = a[s + i]
  <2>1. /\ SubSeq(a, s + 1, z) \in Seq(Byte) /\ Len(SubSeq(a, s + 1, z)) = z - s
        /\ \A i \in 1 .. z - s : SubSeq(a, s + 1, z)[i] = a[s + i]
    BY ONLY a \in Seq(Byte), s \in Nat, z \in Nat, <1>1, RestOf
  <2>2. PICK y : y = SubSeq(a, s + 1, z)
    OBVIOUS
  <2> QED BY ONLY <2>1, <2>2
<1>4. PICK c \in Seq(Byte) : /\ c = x \o y /\ Len(c) = d + (z - s)
                             /\ \A i \in 1 .. d + (z - s) : c[i] = IF i <= d THEN x[i] ELSE y[i - d]
  <2>1. /\ x \o y \in Seq(Byte) /\ Len(x \o y) = Len(x) + Len(y)
        /\ \A i \in 1 .. Len(x) + Len(y) : (x \o y)[i] = IF i <= Len(x) THEN x[i] ELSE y[i - Len(x)]
    BY ONLY x \in Seq(Byte), y \in Seq(Byte), ConcatProperties
  <2>2. PICK c : c = x \o y
    OBVIOUS
  <2>3. /\ c \in Seq(Byte) /\ Len(c) = d + (z - s)
        /\ \A i \in 1 .. d + (z - s) : c[i] = IF i <= d THEN x[i] ELSE y[i - d]
    BY ONLY <1>2, <1>3, <2>1, <2>2
  <2> QED BY <2>2, <2>3
<1>5. ASSUME NEW i \in 1 .. z - n PROVE c[i] = a[IF i <= d THEN i ELSE i + n]
  <2>1. CASE i <= d
    <3>1. i \in 1 .. d /\ i \in 1 .. d + (z - s)
      BY <1>1, <2>1
    <3> QED BY ONLY <1>2, <1>4, <2>1, <3>1
  <2>2. CASE i > d
    <3>1. i - d \in 1 .. z - s /\ s + (i - d) = i + n /\ i \in 1 .. d + (z - s) /\ ~(i <= d)
      BY <1>1, <2>2
    <3> QED BY <1>3, <1>4, <3>1
  <2> QED BY <2>1, <2>2
<1>6. c = SubSeq(a, 1, d) \o SubSeq(a, s + 1, z) /\ Len(c) = z - n
  <2>1. d + (z - s) = z - n
    OBVIOUS
  <2> QED BY ONLY <1>2, <1>3, <1>4, <2>1
<1>7. Lacks(c, a, z, d, n)
  BY <1>5, <1>6 DEF Lacks
<1> QED BY <1>6, <1>7

(* The object that is cut lies within the file.                            *)
LEMMA TraversedWithin ==
  ASSUME stable \in Seq(Byte), NEW p \in Nat, NEW n \in Nat, Traversed(p, n) PROVE p + n <= Len(stable)
<1>1. PICK o \in Nat : \E t \in traverse_object(stable, o) :
        t.is \in {"object", "end"} /\ t.bytes = n /\ p = Min({t.next, Len(stable)}) - n
  BY DEF Traversed
<1>2. PICK t \in traverse_object(stable, o) :
        t.is \in {"object", "end"} /\ t.bytes = n /\ p = Min({t.next, Len(stable)}) - n
  BY <1>1
<1>3. PICK next \in Nat, z \in Nat : next = t.next /\ z = Len(stable)
  BY <1>2, TraverseSays, LenProperties
<1>4. PICK m \in Nat : m = Min({next, z}) /\ m <= z
  BY MinOfTwo
<1> QED BY <1>2, <1>3, <1>4

LEMMA CutIs ==
  ASSUME stable \in Seq(Byte), NEW p \in Nat, NEW n \in Nat, Traversed(p, n),
         NEW c \in Seq(Byte), Len(c) = Len(stable) - n,
         \A i \in 1 .. Len(c) : c[i] = stable[IF i <= p THEN i ELSE i + n]
  PROVE  c = Cut(stable, p, n)
<1>1. PICK z \in Nat, s \in Nat : z = Len(stable) /\ s = p + n /\ s <= z /\ s - p = n /\ p <= s
  BY TraversedWithin, LenProperties
<1>2. PICK e \in Seq(Byte) : /\ e = Cut(stable, p, n) /\ Len(e) = z - n
                             /\ \A i \in 1 .. z - n : e[i] = stable[IF i <= p THEN i ELSE i + n]
  <2>1. PICK e \in Seq(Byte) : /\ e = SubSeq(stable, 1, p) \o SubSeq(stable, s + 1, z) /\ Len(e) = z - n
                               /\ \A i \in 1 .. z - n : e[i] = stable[IF i <= p THEN i ELSE i + n]
    <3>1. z = Len(stable) /\ s = p + n /\ s <= z
      BY <1>1
    <3>2. PICK e : e = SubSeq(stable, 1, p) \o SubSeq(stable, s + 1, z)
      OBVIOUS
    <3>3. Lacks(e, stable, z, p, n)
      BY <3>1, <3>2, Joined
    <3> QED BY <3>2, <3>3 DEF Lacks
  <2>2. e = Cut(stable, p, n)
    BY <1>1, <2>1 DEF Cut
  <2> QED BY <2>1, <2>2
<1> QED BY <1>1, <1>2, SameBytes

(* hw1.c:275-289: while the rest of the file is moved over an object, the  *)
(* bytes that have been moved and those that have not are the file without *)
(* the bytes traverse_object took for that object, and those in front of   *)
(* it are where they were.                                                 *)
MoveKeepsTheBytes ==
  intact /\ pc = "move" =>
    \E p \in 0 .. dst :
      /\ Traversed(p, size) /\ SubSeq(db, 1, p) = SubSeq(stable, 1, p)
      /\ SubSeq(db, 1, dst) \o SubSeq(db, src + 1, Len(db)) = Cut(stable, p, size)

LEMMA MoveKeeps == DbInv /\ FileOK => MoveKeepsTheBytes
<1> SUFFICES ASSUME DbInv, FileOK, intact, pc = "move"
             PROVE  \E p \in 0 .. dst :
                      /\ Traversed(p, size) /\ SubSeq(db, 1, p) = SubSeq(stable, 1, p)
                      /\ SubSeq(db, 1, dst) \o SubSeq(db, src + 1, Len(db)) = Cut(stable, p, size)
  BY DEF MoveKeepsTheBytes
<1>1. PICK z \in Nat, s \in Nat, d \in Nat, k \in Nat :
        z = Len(db) /\ s = src /\ d = dst /\ k = size /\ s = d + k /\ s <= z
  <2>1. db \in Seq(Byte) /\ src \in Nat /\ dst \in Nat /\ size \in Nat /\ left \in Nat
        /\ src = dst + size /\ left = Len(db) - src
    BY DEF DbInv, TypeOK, WorkOK
  <2> QED BY <2>1, LenProperties
<1>2. /\ db \in Seq(Byte) /\ stable \in Seq(Byte) /\ Len(stable) = z
      /\ \A i \in s + 1 .. z : db[i] = stable[i]
  BY <1>1 DEF DbInv, TypeOK, FileOK
<1>3. PICK p \in Nat : /\ p \in 0 .. d /\ Traversed(p, k)
                       /\ \A i \in 1 .. d : db[i] = stable[IF i <= p THEN i ELSE i + k]
  BY <1>1 DEF FileOK, Moved
<1>4. SubSeq(db, 1, p) = SubSeq(stable, 1, p)
  <2>1. p \in Nat /\ p <= Len(db) /\ p <= Len(stable)
    BY <1>1, <1>2, <1>3
  <2>2. PICK x \in Seq(Byte), y \in Seq(Byte) :
          /\ x = SubSeq(db, 1, p) /\ Len(x) = p /\ \A i \in 1 .. p : x[i] = db[i]
          /\ y = SubSeq(stable, 1, p) /\ Len(y) = p /\ \A i \in 1 .. p : y[i] = stable[i]
    <3>1. /\ SubSeq(db, 1, p) \in Seq(Byte) /\ Len(SubSeq(db, 1, p)) = p
          /\ \A i \in 1 .. p : SubSeq(db, 1, p)[i] = db[i]
      BY ONLY <1>2, p \in Nat, <2>1, FrontOf
    <3>2. /\ SubSeq(stable, 1, p) \in Seq(Byte) /\ Len(SubSeq(stable, 1, p)) = p
          /\ \A i \in 1 .. p : SubSeq(stable, 1, p)[i] = stable[i]
      BY ONLY <1>2, p \in Nat, <2>1, FrontOf
    <3> QED BY ONLY <3>1, <3>2
  <2>3. \A i \in 1 .. p : db[i] = stable[i]
    BY <1>3
  <2> QED BY <2>2, <2>3, SameBytes
<1>5. PICK c \in Seq(Byte) : /\ c = SubSeq(db, 1, d) \o SubSeq(db, s + 1, z) /\ Len(c) = z - k
                             /\ \A i \in 1 .. z - k : c[i] = db[IF i <= d THEN i ELSE i + k]
  <2>1. z = Len(db) /\ s = d + k /\ s <= z
    BY <1>1
  <2>2. PICK c : c = SubSeq(db, 1, d) \o SubSeq(db, s + 1, z)
    OBVIOUS
  <2>3. Lacks(c, db, z, d, k)
    BY <1>2, <2>1, <2>2, Joined
  <2> QED BY <2>2, <2>3 DEF Lacks
<1>6. ASSUME NEW i \in 1 .. z - k PROVE c[i] = stable[IF i <= p THEN i ELSE i + k]
  <2>1. CASE i <= d
    BY <1>3, <1>5, <2>1
  <2>2. CASE i > d
    <3>1. i + k \in s + 1 .. z /\ ~(i <= p) /\ ~(i <= d)
      BY <1>1, <1>3, <2>2
    <3> QED BY <1>2, <1>5, <3>1
  <2> QED BY <2>1, <2>2
<1>7. c = Cut(stable, p, k)
  <2>1. stable \in Seq(Byte) /\ Len(c) = Len(stable) - k /\ Traversed(p, k) /\ p \in Nat
        /\ \A i \in 1 .. Len(c) : c[i] = stable[IF i <= p THEN i ELSE i + k]
    BY <1>2, <1>3, <1>5, <1>6
  <2> QED BY ONLY <2>1, c \in Seq(Byte), k \in Nat, CutIs
<1> QED BY <1>1, <1>3, <1>4, <1>5, <1>7

(* hw1.c:275-289: no block that is moved is written over before it has     *)
(* been read, whatever the file holds.                                     *)
THEOREM KeepsTheBytes == Spec => []MoveKeepsTheBytes
  BY MoveKeeps, FileAlways, PTL

(* What is left when a delete shortens the file.                           *)
LEMMA TruncateCuts ==
  ASSUME DbInv, FileOK, intact, pc = "truncate", size <= Len(db)
  PROVE  \E p \in 0 .. Len(stable) : Traversed(p, size) /\ SubSeq(db, 1, Len(db) - size) = Cut(stable, p, size)
<1>1. PICK z \in Nat, k \in Nat : z = Len(db) /\ z = Len(stable) /\ k = size
  <2>1. db \in Seq(Byte) /\ size \in Nat /\ Len(db) = Len(stable)
    BY DEF DbInv, TypeOK, FileOK
  <2> QED BY <2>1, LenProperties
<1>2. PICK d \in Nat : d = z - k
  <2>1. k <= z
    BY <1>1
  <2>2. z - k \in Nat
    BY ONLY z \in Nat, k \in Nat, <2>1
  <2> QED BY <2>2
<1>3. PICK p \in Nat : Moved(p, d)
  BY <1>1, <1>2 DEF FileOK
<1>4. /\ p \in 0 .. z /\ Traversed(p, k) /\ \A i \in 1 .. d : db[i] = stable[IF i <= p THEN i ELSE i + k]
  <2>1. p \in 0 .. d /\ Traversed(p, k) /\ \A i \in 1 .. d : db[i] = stable[IF i <= p THEN i ELSE i + k]
    BY <1>1, <1>3 DEF Moved
  <2> QED BY <1>1, <1>2, <2>1
<1>5. PICK c \in Seq(Byte) : c = SubSeq(db, 1, d) /\ Len(c) = d /\ \A i \in 1 .. d : c[i] = db[i]
  <2>1. db \in Seq(Byte) /\ d <= Len(db)
    BY <1>1, <1>2 DEF DbInv, TypeOK
  <2> QED BY <2>1, FrontOf
<1>6. c = Cut(stable, p, k)
  <2>1. stable \in Seq(Byte) /\ Len(c) = Len(stable) - k
    BY <1>1, <1>2, <1>5 DEF FileOK
  <2>2. p \in Nat /\ \A i \in 1 .. Len(c) : c[i] = stable[IF i <= p THEN i ELSE i + k]
    BY <1>4, <1>5
  <2> QED BY ONLY <1>4, <2>1, <2>2, c \in Seq(Byte), k \in Nat, CutIs
<1> QED BY <1>1, <1>2, <1>4, <1>5, <1>6

(* hw1.c:257-314: a delete takes from the file the bytes traverse_object   *)
(* took for the object with the name, and no others.                       *)
DeleteCutsOneObject ==
  [][intact /\ pc = "truncate" /\ pc' = "menu" =>
       \E p \in 0 .. Len(stable) : Traversed(p, size) /\ db' = Cut(stable, p, size)]_vars

(* hw1.c:257-314: when a delete has ended, the file is what it was without *)
(* the bytes of one object.                                                *)
THEOREM CutsOneObject == Spec => DeleteCutsOneObject
<1> DEFINE Cuts == intact /\ pc = "truncate" /\ pc' = "menu" =>
                     \E p \in 0 .. Len(stable) : Traversed(p, size) /\ db' = Cut(stable, p, size)
<1>1. DbInv /\ FileOK /\ [Next]_vars => [Cuts]_vars
  <2> SUFFICES ASSUME DbInv, FileOK, Next, intact, pc = "truncate", pc' = "menu"
               PROVE  \E p \in 0 .. Len(stable) : Traversed(p, size) /\ db' = Cut(stable, p, size)
    OBVIOUS
  <2>1. ftruncate
    <3>1. ~open_database_file /\ ~Commands /\ ~Quit /\ ~find_object /\ ~locate_object
      BY DEF open_database_file, Commands, Command, Quit, find_object, locate_object
    <3>2. ~safe_write /\ ~transfer_data /\ ~ShortWrite /\ ~DiskFull /\ ~SourceShrinks
      BY DEF safe_write, transfer_data, ShortWrite, DiskFull, SourceShrinks
    <3>3. ~Kill
      BY DEF Kill, Fail
    <3> QED BY <3>1, <3>2, <3>3 DEF Next, Program
  <2>2. ~(size > Len(db)) /\ db' = SubSeq(db, 1, Len(db) - size)
    BY <2>1 DEF ftruncate, Fail
  <2>3. size <= Len(db)
    <3>1. db \in Seq(Byte) /\ size \in Nat
      BY DEF DbInv, TypeOK
    <3> QED BY <2>2, <3>1, LenProperties
  <2> QED BY <2>2, <2>3, TruncateCuts
<1> QED BY <1>1, FileAlways, PTL DEF Spec, DeleteCutsOneObject

(* hw1.c:141-171, 517-531: until an import ends, and unless a fault        *)
(* strikes, what was in the file stays in front.                           *)
WritesOnlyAppend == intact /\ pc = "write" => IsPrefix(stable, db)

(* hw1.c:141-171, 517-531: an import adds at the end and changes nothing   *)
(* in front.                                                               *)
THEOREM OnlyAppends == Spec => []WritesOnlyAppend
<1>1. DbInv /\ FileOK => WritesOnlyAppend
  <2> SUFFICES ASSUME DbInv, FileOK, intact, pc = "write" PROVE IsPrefix(stable, db)
    BY DEF WritesOnlyAppend
  <2>1. PICK k \in Nat : k = Len(stable) /\ k <= Len(db) /\ \A i \in 1 .. k : db[i] = stable[i]
    BY LenProperties DEF FileOK
  <2>2. db \in Seq(Byte) /\ stable \in Seq(Byte)
    BY DEF DbInv, TypeOK, FileOK
  <2>3. k <= Len(stable)
    BY <2>1
  <2>4. PICK x \in Seq(Byte), y \in Seq(Byte) :
          /\ x = SubSeq(db, 1, k) /\ Len(x) = k /\ \A i \in 1 .. k : x[i] = db[i]
          /\ y = SubSeq(stable, 1, k) /\ Len(y) = k /\ \A i \in 1 .. k : y[i] = stable[i]
    BY <2>1, <2>2, <2>3, FrontOf
  <2>5. x = y
    BY <2>1, <2>4, SameBytes
  <2> QED BY <2>1, <2>4, <2>5 DEF IsPrefix
<1> QED BY <1>1, FileAlways, PTL

-----------------------------------------------------------------------------
(* Flattening.  FlattenSeq is a recursive function, so its equation needs  *)
(* a function that satisfies it, and the induction is on the least place   *)
(* where there is none.                                                    *)
IsFlat(f, seqs, z) ==
  \A i \in 1 .. z : f[i] = IF i = 1 THEN seqs[1] ELSE f[i - 1] \o seqs[i]

LEMMA FlatExists ==
  ASSUME NEW seqs, NEW z \in Nat PROVE \E f : IsFlat(f, seqs, z)
<1> DEFINE Bad == {y \in Nat : ~ \E f : IsFlat(f, seqs, y)}
<1>1. ASSUME Bad # {} PROVE FALSE
  <2>1. PICK k \in Bad : \A y \in Bad : k <= y
    BY <1>1, Least
  <2>2. k # 0
    <3>1. IsFlat(<<>>, seqs, 0)
      BY DEF IsFlat
    <3> QED BY <3>1
  <2>3. k \in Nat /\ k - 1 \in Nat
    BY <2>2
  <2>4. k - 1 \notin Bad
    <3> HIDE DEF Bad
    <3> QED BY <2>1, <2>3
  <2>5. PICK f : IsFlat(f, seqs, k - 1)
    BY <2>3, <2>4
  <2> DEFINE g == [i \in 1 .. k |-> IF i = k THEN (IF i = 1 THEN seqs[1] ELSE f[i - 1] \o seqs[i]) ELSE f[i]]
  <2>6. ASSUME NEW i \in 1 .. k PROVE g[i] = IF i = 1 THEN seqs[1] ELSE g[i - 1] \o seqs[i]
    <3>1. CASE i = k
      BY <2>3, <3>1
    <3>2. CASE i # k
      <4>1. i \in 1 .. k - 1 /\ i - 1 # k /\ (i # 1 => i - 1 \in 1 .. k)
        BY <2>3, <3>2
      <4> QED BY <2>5, <3>2, <4>1 DEF IsFlat
    <3> QED BY <3>1, <3>2
  <2>7. IsFlat(g, seqs, k)
    <3> HIDE DEF g
    <3> QED BY <2>6 DEF IsFlat
  <2>8. k \notin Bad
    BY <2>7
  <2> QED BY <2>1, <2>8
<1> QED BY <1>1

LEMMA FlatUnique ==
  ASSUME NEW seqs, NEW z \in Nat \ {0}, Len(seqs) = z, NEW f, IsFlat(f, seqs, z)
  PROVE  FlattenSeq(seqs) = f[z]
<1> DEFINE flatten == CHOOSE g : g = [i \in 1 .. z |-> IF i = 1 THEN seqs[i] ELSE g[i - 1] \o seqs[i]]
           h       == [i \in 1 .. z |-> f[i]]
<1>1. FlattenSeq(seqs) = flatten[z]
  BY DEF FlattenSeq
<1>2. h = [i \in 1 .. z |-> IF i = 1 THEN seqs[i] ELSE h[i - 1] \o seqs[i]]
  <2>1. ASSUME NEW i \in 1 .. z PROVE f[i] = IF i = 1 THEN seqs[i] ELSE h[i - 1] \o seqs[i]
    <3>1. i # 1 => i - 1 \in 1 .. z
      OBVIOUS
    <3> QED BY <3>1 DEF IsFlat
  <2>2. [i \in 1 .. z |-> f[i]] = [i \in 1 .. z |-> IF i = 1 THEN seqs[i] ELSE h[i - 1] \o seqs[i]]
    <3> HIDE DEF h
    <3> QED BY <2>1
  <2> QED BY <2>2
<1>3. flatten = [i \in 1 .. z |-> IF i = 1 THEN seqs[i] ELSE flatten[i - 1] \o seqs[i]]
  <2> HIDE DEF h
  <2> QED BY <1>2
<1> HIDE DEF flatten, h
<1>4. ASSUME NEW i \in 1 .. z PROVE flatten[i] = IF i = 1 THEN seqs[1] ELSE flatten[i - 1] \o seqs[i]
  BY <1>3
<1> DEFINE Bad == {i \in Nat : i \in 1 .. z /\ flatten[i] # f[i]}
<1>5. ASSUME Bad # {} PROVE FALSE
  <2>1. PICK k \in Bad : \A y \in Bad : k <= y
    BY <1>5, Least
  <2>2. k \in 1 .. z /\ k \in Nat
    BY <2>1
  <2>3. CASE k = 1
    BY <1>4, <2>1, <2>3 DEF IsFlat
  <2>4. CASE k # 1
    <3>1. k - 1 \in 1 .. z /\ k - 1 \in Nat
      BY <2>2, <2>4
    <3>2. k - 1 \notin Bad
      <4> HIDE DEF Bad
      <4> QED BY <2>1, <2>2, <3>1
    <3>3. flatten[k - 1] = f[k - 1]
      BY <3>1, <3>2
    <3> QED BY <1>4, <2>1, <2>2, <2>4, <3>3 DEF IsFlat
  <2> QED BY <2>3, <2>4
<1>6. z \in 1 .. z
  OBVIOUS
<1> QED BY <1>1, <1>5, <1>6

(* Of sequences over a set the running results are sequences over it.      *)
LEMMA FlatTyped ==
  ASSUME NEW S, NEW seqs \in Seq(Seq(S)), NEW f, IsFlat(f, seqs, Len(seqs))
  PROVE  \A i \in 1 .. Len(seqs) : f[i] \in Seq(S)
<1>1. PICK z \in Nat : z = Len(seqs) /\ \A i \in 1 .. z : seqs[i] \in Seq(S)
  BY LenProperties
<1> DEFINE Bad == {i \in Nat : i \in 1 .. z /\ f[i] \notin Seq(S)}
<1>2. ASSUME Bad # {} PROVE FALSE
  <2>1. PICK k \in Bad : \A y \in Bad : k <= y
    BY <1>2, Least
  <2>2. k \in 1 .. z /\ k \in Nat
    BY <2>1
  <2>3. CASE k = 1
    BY <1>1, <2>1, <2>2, <2>3 DEF IsFlat
  <2>4. CASE k # 1
    <3>1. k - 1 \in 1 .. z /\ k - 1 \in Nat
      BY <2>2, <2>4
    <3>2. k - 1 \notin Bad
      <4> HIDE DEF Bad
      <4> QED BY <2>1, <2>2, <3>1
    <3>3. PICK x \in Seq(S), y \in Seq(S) : x = f[k - 1] /\ y = seqs[k]
      BY <1>1, <2>2, <3>1, <3>2
    <3>4. x \o y \in Seq(S)
      BY ConcatProperties
    <3>5. f[k] = x \o y
      BY <1>1, <2>2, <2>4, <3>3 DEF IsFlat
    <3> QED BY <2>1, <3>4, <3>5
  <2> QED BY <2>3, <2>4
<1> QED BY <1>1, <1>2

LEMMA FlatEmpty == FlattenSeq(<<>>) = <<>>
  BY DEF FlattenSeq

LEMMA FlatOne == ASSUME NEW S, NEW x \in Seq(S) PROVE FlattenSeq(<<x>>) = x
<1>1. IsFlat(<<x>>, <<x>>, 1) /\ Len(<<x>>) = 1
  BY DEF IsFlat
<1>2. PICK s : s = <<x>>
  OBVIOUS
<1>0. PICK n \in Nat \ {0} : n = 1
  OBVIOUS
<1>3. IsFlat(s, s, n) /\ Len(s) = n
  BY <1>0, <1>1, <1>2
<1>4. FlattenSeq(s) = s[n]
  BY <1>3, FlatUnique
<1> QED BY <1>0, <1>2, <1>4

LEMMA FlatInSeq ==
  ASSUME NEW S, NEW seqs \in Seq(Seq(S)) PROVE FlattenSeq(seqs) \in Seq(S)
<1>1. CASE seqs = <<>>
  <2>1. <<>> \in Seq(S)
    BY EmptySeq
  <2> QED BY <1>1, <2>1, FlatEmpty
<1>2. CASE seqs # <<>>
  <2>1. PICK z \in Nat \ {0} : z = Len(seqs)
    BY <1>2, LenProperties, EmptySeq
  <2>2. PICK f : IsFlat(f, seqs, z)
    BY FlatExists
  <2>3. FlattenSeq(seqs) = f[z] /\ z \in 1 .. z
    BY <2>1, <2>2, FlatUnique
  <2> QED BY <2>1, <2>2, <2>3, FlatTyped
<1> QED BY <1>1, <1>2

LEMMA FlatConcat ==
  ASSUME NEW S, NEW a \in Seq(Seq(S)), NEW b \in Seq(Seq(S))
  PROVE  FlattenSeq(a \o b) = FlattenSeq(a) \o FlattenSeq(b)
<1>1. CASE a = <<>>
  <2>1. FlattenSeq(b) \in Seq(S)
    BY FlatInSeq
  <2>2. a \o b = b
    BY <1>1, ConcatEmptySeq
  <2>3. <<>> \o FlattenSeq(b) = FlattenSeq(b)
    BY <2>1, ConcatEmptySeq
  <2> QED BY <1>1, <2>2, <2>3, FlatEmpty
<1>2. CASE b = <<>>
  <2>1. FlattenSeq(a) \in Seq(S)
    BY FlatInSeq
  <2>2. a \o b = a
    BY <1>2, ConcatEmptySeq
  <2>3. FlattenSeq(a) \o <<>> = FlattenSeq(a)
    BY <2>1, ConcatEmptySeq
  <2> QED BY <1>2, <2>2, <2>3, FlatEmpty
<1>3. CASE a # <<>> /\ b # <<>>
  <2>1. PICK m \in Nat \ {0}, n \in Nat \ {0} : m = Len(a) /\ n = Len(b)
    BY <1>3, LenProperties, EmptySeq
  <2>2. PICK f : IsFlat(f, a, m)
    BY FlatExists
  <2>3. PICK g : IsFlat(g, b, n)
    BY FlatExists
  <2>4. FlattenSeq(a) = f[m] /\ FlattenSeq(b) = g[n]
    BY <2>1, <2>2, <2>3, FlatUnique
  <2>5. f[m] \in Seq(S) /\ \A i \in 1 .. n : g[i] \in Seq(S) /\ b[i] \in Seq(S)
    <3>1. m \in 1 .. m
      OBVIOUS
    <3>2. f[m] \in Seq(S)
      BY <2>1, <2>2, <3>1, FlatTyped
    <3>3. \A i \in 1 .. n : g[i] \in Seq(S)
      BY <2>1, <2>3, FlatTyped
    <3> QED BY <2>1, <3>2, <3>3, LenProperties
  <2>6. PICK c : c = a \o b /\ Len(c) = m + n /\ \A i \in 1 .. m + n : c[i] = IF i <= m THEN a[i] ELSE b[i - m]
    <3>1. /\ Len(a \o b) = Len(a) + Len(b)
          /\ \A i \in 1 .. Len(a) + Len(b) : (a \o b)[i] = IF i <= Len(a) THEN a[i] ELSE b[i - Len(a)]
      BY ConcatProperties
    <3> QED BY <2>1, <3>1
  <2> DEFINE h == [i \in 1 .. m + n |-> IF i <= m THEN f[i] ELSE f[m] \o g[i - m]]
  <2>7. ASSUME NEW i \in 1 .. m + n PROVE h[i] = IF i = 1 THEN c[1] ELSE h[i - 1] \o c[i]
    <3>1. CASE i <= m
      <4>1. i \in 1 .. m /\ 1 \in 1 .. m + n /\ 1 <= m /\ (i # 1 => i - 1 \in 1 .. m + n /\ i - 1 <= m)
        BY <3>1
      <4> QED BY <2>2, <2>6, <3>1, <4>1 DEF IsFlat
    <3>2. CASE i = m + 1
      <4>1. i - 1 = m /\ i - m = 1 /\ ~(i <= m) /\ i # 1 /\ m \in 1 .. m + n /\ m <= m /\ 1 \in 1 .. n
        BY <3>2
      <4>2. h[i] = f[m] \o g[1] /\ h[i - 1] = f[m] /\ c[i] = b[1] /\ g[1] = b[1]
        BY <2>3, <2>6, <4>1 DEF IsFlat
      <4> QED BY <4>1, <4>2
    <3>3. CASE i > m + 1
      <4>1. ~(i <= m) /\ ~(i - 1 <= m) /\ i # 1 /\ i - 1 \in 1 .. m + n /\ i - m \in 1 .. n /\ i - m # 1
            /\ (i - 1) - m = (i - m) - 1 /\ (i - m) - 1 \in 1 .. n
        BY <3>3
      <4>2. PICK x \in Seq(S), y \in Seq(S), w \in Seq(S) : x = f[m] /\ y = g[(i - m) - 1] /\ w = b[i - m]
        BY <2>5, <4>1
      <4>3. (x \o y) \o w = x \o (y \o w)
        BY ConcatAssociative
      <4>4. h[i] = x \o g[i - m] /\ h[i - 1] = x \o y /\ c[i] = w
        BY <2>6, <4>1, <4>2
      <4>5. g[i - m] = y \o w
        BY <2>3, <4>1, <4>2 DEF IsFlat
      <4> QED BY <4>1, <4>3, <4>4, <4>5
    <3> QED BY <3>1, <3>2, <3>3
  <2>8. IsFlat(h, c, m + n)
    <3> HIDE DEF h
    <3> QED BY <2>7 DEF IsFlat
  <2>9. FlattenSeq(c) = h[m + n]
    <3> HIDE DEF h
    <3>1. m + n \in Nat \ {0}
      OBVIOUS
    <3> QED BY <2>6, <2>8, <3>1, FlatUnique
  <2>10. h[m + n] = f[m] \o g[n]
    <3>1. m + n \in 1 .. m + n /\ ~(m + n <= m) /\ (m + n) - m = n
      OBVIOUS
    <3> QED BY <3>1
  <2> QED BY <2>4, <2>6, <2>9, <2>10
<1> QED BY <1>1, <1>2, <1>3

-----------------------------------------------------------------------------
(* Sizes.                                                                  *)
LEMMA Division ==
  ASSUME NEW b \in Nat \ {0}, NEW q \in Nat, NEW r \in 0 .. b - 1, NEW n \in Nat, n = b * q + r
  PROVE  n \div b = q /\ n % b = r
  OBVIOUS

LEMMA DivisionIs ==
  ASSUME NEW b \in Nat \ {0}, NEW n \in Nat
  PROVE  \E q \in Nat, r \in 0 .. b - 1 : q = n \div b /\ r = n % b /\ n = b * q + r
<1>1. n \div b \in Nat
  OBVIOUS
<1>2. n % b \in 0 .. b - 1
  OBVIOUS
<1>3. PICK q \in Nat : q = n \div b
  BY <1>1
<1>4. n % b = n - b * q
  BY <1>3
<1>5. PICK r \in 0 .. b - 1 : r = n % b
  BY <1>2
<1>6. b * q \in Nat
  BY ONLY b \in Nat \ {0}, q \in Nat
<1>7. n = b * q + r
  BY ONLY n \in Nat, r \in 0 .. b - 1, b \in Nat \ {0}, <1>4, <1>5, <1>6
<1> QED BY <1>3, <1>5, <1>7

LEMMA TwoDigits ==
  ASSUME NEW b \in Nat \ {0}, NEW w \in Nat \ {0}, NEW n \in Nat
  PROVE  n % (b * w) = (n % w) + ((n \div w) % b) * w
<1>1. PICK q \in Nat, r \in 0 .. w - 1 : q = n \div w /\ r = n % w /\ n = w * q + r
  BY DivisionIs
<1>2. PICK p \in Nat, t \in 0 .. b - 1 : p = q \div b /\ t = q % b /\ q = b * p + t
  BY DivisionIs
<1>3. PICK v \in Nat \ {0} : v = b * w
  <2>1. b * w \in Nat \ {0}
    BY ONLY b \in Nat \ {0}, w \in Nat \ {0}
  <2> QED BY <2>1
<1>4. PICK x \in Nat : x = t * w /\ x <= v - w
  <2>1. t * w \in Nat
    BY ONLY t \in 0 .. b - 1, b \in Nat \ {0}, w \in Nat \ {0}
  <2>2. t * w <= (b - 1) * w
    BY ONLY t \in 0 .. b - 1, b \in Nat \ {0}, w \in Nat \ {0}
  <2>3. (b - 1) * w = v - w
    BY ONLY b \in Nat \ {0}, w \in Nat \ {0}, <1>3
  <2> QED BY <2>1, <2>2, <2>3
<1>5. x + r \in 0 .. v - 1
  BY ONLY x \in Nat, v \in Nat \ {0}, w \in Nat \ {0}, r \in 0 .. w - 1, <1>4
<1>6. w * q = v * p + x
  <2>1. w * q = w * (b * p) + w * t
    BY ONLY b \in Nat \ {0}, w \in Nat \ {0}, p \in Nat, t \in 0 .. b - 1, q \in Nat, <1>2
  <2>2. w * (b * p) = v * p
    BY ONLY b \in Nat \ {0}, w \in Nat \ {0}, p \in Nat, <1>3
  <2>3. w * t = x
    BY ONLY w \in Nat \ {0}, t \in 0 .. b - 1, b \in Nat \ {0}, <1>4
  <2> QED BY <2>1, <2>2, <2>3
<1>7. n = v * p + (x + r)
  <2>1. v * p \in Nat /\ w * q \in Nat
    BY ONLY v \in Nat \ {0}, p \in Nat, w \in Nat \ {0}, q \in Nat
  <2> QED BY ONLY <2>1, <1>1, <1>6, x \in Nat, r \in 0 .. w - 1, w \in Nat \ {0}
<1>8. n % v = x + r
  <2>1. PICK y \in 0 .. v - 1 : y = x + r
    BY <1>5
  <2> QED BY <1>7, <2>1, Division
<1>9. x + r = r + x
  OBVIOUS
<1> QED BY <1>1, <1>2, <1>3, <1>4, <1>8, <1>9

LEMMA WeightIs ==
  /\ Weight[0] = 1
  /\ \A i \in 0 .. SizeBytes : Weight[i] \in Nat \ {0}
  /\ \A i \in 1 .. SizeBytes : i - 1 \in 0 .. SizeBytes /\ Weight[i] = Base * Weight[i - 1]
<1>1. Weight[0] = 1 /\ Weight \in [0 .. SizeBytes -> Nat \ {0}]
  BY FormatAssumption
<1>2. \A i \in 1 .. SizeBytes : Weight[i] = Base * Weight[i - 1]
  BY FormatAssumption
<1>3. \A i \in 1 .. SizeBytes : i - 1 \in 0 .. SizeBytes
  OBVIOUS
<1> QED BY <1>1, <1>2, <1>3

(* A length that is an off_t is read as it was written.                    *)
LEMMA ValueOfField ==
  ASSUME NEW file, NEW o \in Nat, NEW n \in Nat, n \in off_t,
         \A i \in 1 .. SizeBytes : file[o + i] = SizeField(n)[i]
  PROVE  ValueAt(file, o) = n
<1> DEFINE sum == CHOOSE s : s = [i \in 0 .. SizeBytes |->
                                   IF i = 0 THEN 0 ELSE s[i - 1] + file[o + i] * Weight[i - 1]]
           h   == [i \in 0 .. SizeBytes |-> n % Weight[i]]
<1>1. ValueAt(file, o) = IF sum[SizeBytes] \in off_t THEN sum[SizeBytes] ELSE sum[SizeBytes] - Weight[SizeBytes]
  BY DEF ValueAt
<1>2. ASSUME NEW i \in 1 .. SizeBytes
      PROVE  n % Weight[i] = (n % Weight[i - 1]) + file[o + i] * Weight[i - 1]
  <2>1. PICK w \in Nat \ {0} : w = Weight[i - 1] /\ Weight[i] = Base * w
    BY WeightIs
  <2>2. file[o + i] = (n \div w) % Base
    BY <2>1 DEF SizeField
  <2>3. n % (Base * w) = (n % w) + ((n \div w) % Base) * w
    BY TwoDigits
  <2> QED BY <2>1, <2>2, <2>3
<1>3. n % Weight[0] = 0
  <2>1. n % 1 = 0
    <3>1. n = 1 * n + 0 /\ 0 \in 0 .. 1 - 1 /\ 1 \in Nat \ {0}
      OBVIOUS
    <3> QED BY ONLY n \in Nat
  <2> QED BY <2>1, WeightIs
<1>4. h = [i \in 0 .. SizeBytes |-> IF i = 0 THEN 0 ELSE h[i - 1] + file[o + i] * Weight[i - 1]]
  <2>1. ASSUME NEW i \in 0 .. SizeBytes
        PROVE  n % Weight[i] = IF i = 0 THEN 0 ELSE h[i - 1] + file[o + i] * Weight[i - 1]
    <3>1. CASE i = 0
      BY <1>3, <3>1
    <3>2. CASE i # 0
      <4>1. i \in 1 .. SizeBytes /\ i - 1 \in 0 .. SizeBytes
        BY <3>2
      <4>2. h[i - 1] = n % Weight[i - 1]
        BY <4>1
      <4> QED BY <1>2, <3>2, <4>1, <4>2
    <3> QED BY <3>1, <3>2
  <2>2. [i \in 0 .. SizeBytes |-> n % Weight[i]]
          = [i \in 0 .. SizeBytes |-> IF i = 0 THEN 0 ELSE h[i - 1] + file[o + i] * Weight[i - 1]]
    <3> HIDE DEF h
    <3> QED BY <2>1
  <2> QED BY <2>2
<1>5. sum = [i \in 0 .. SizeBytes |-> IF i = 0 THEN 0 ELSE sum[i - 1] + file[o + i] * Weight[i - 1]]
  <2> HIDE DEF h
  <2> QED BY <1>4
<1> HIDE DEF sum, h
<1> DEFINE Bad == {i \in Nat : i <= SizeBytes /\ sum[i] # n % Weight[i]}
<1>6. ASSUME Bad # {} PROVE FALSE
  <2>1. PICK k \in Bad : \A y \in Bad : k <= y
    BY <1>6, Least
  <2>2. k \in 0 .. SizeBytes /\ k \in Nat
    BY <2>1
  <2>3. CASE k = 0
    BY <1>3, <1>5, <2>1, <2>2, <2>3
  <2>4. CASE k # 0
    <3>1. k \in 1 .. SizeBytes /\ k - 1 \in Nat /\ k - 1 <= SizeBytes
      BY <2>2, <2>4
    <3>2. k - 1 \notin Bad
      <4> HIDE DEF Bad
      <4> QED BY <2>1, <2>2, <3>1
    <3>3. sum[k - 1] = n % Weight[k - 1]
      BY <3>1, <3>2
    <3>4. sum[k] = sum[k - 1] + file[o + k] * Weight[k - 1]
      BY <1>5, <2>2, <2>4
    <3>5. sum[k] = n % Weight[k]
      BY <1>2, <3>1, <3>3, <3>4
    <3> QED BY <2>1, <3>5
  <2> QED BY <2>3, <2>4
<1>7. sum[SizeBytes] = n % Weight[SizeBytes]
  <2>1. SizeBytes \in Nat /\ SizeBytes <= SizeBytes
    OBVIOUS
  <2> QED BY <1>6, <2>1
<1>8. n % Weight[SizeBytes] = n
  <2>1. PICK w \in Nat \ {0} : w = Weight[SizeBytes]
    <3>1. SizeBytes \in 0 .. SizeBytes
      OBVIOUS
    <3> QED BY <3>1, WeightIs
  <2>2. n <= w \div 2 - 1
    BY <2>1 DEF off_t
  <2>3. w \div 2 <= w
    BY ONLY w \in Nat \ {0}
  <2>4. w \div 2 \in Nat
    BY ONLY w \in Nat \ {0}
  <2>5. PICK d \in Nat : d = w \div 2
    BY <2>4
  <2>6. n \in 0 .. w - 1 /\ n = w * 0 + n /\ 0 \in Nat
    BY ONLY n \in Nat, w \in Nat \ {0}, d \in Nat, <2>2, <2>3, <2>5
  <2>7. PICK q \in Nat, r \in 0 .. w - 1 : q = 0 /\ r = n /\ n = w * q + r
    BY <2>6
  <2>8. n % w = r
    BY ONLY w \in Nat \ {0}, n \in Nat, q \in Nat, r \in 0 .. w - 1, <2>7, Division
  <2> QED BY <2>1, <2>7, <2>8
<1> QED BY <1>1, <1>7, <1>8

-----------------------------------------------------------------------------
(* What is written for an object.                                          *)
Objects == Seq(Letters) \X {c \in Seq(Byte) : Len(c) \in off_t}

Enc(object) == FlattenSeq(Pieces(object))

(* The blocks of some contents are the contents.                           *)
LEMMA BlocksAre ==
  ASSUME NEW bytes \in Seq(Byte), NEW n \in Nat, n = Len(bytes)
  PROVE  FlattenSeq([i \in 1 .. (n + BlockSize - 1) \div BlockSize |->
                      SubSeq(bytes, (i - 1) * BlockSize + 1, Min({i * BlockSize, n}))]) = bytes
<1> DEFINE k    == (n + BlockSize - 1) \div BlockSize
           b(i) == SubSeq(bytes, (i - 1) * BlockSize + 1, Min({i * BlockSize, n}))
           B    == [i \in 1 .. k |-> b(i)]
           f    == [i \in 1 .. k |-> SubSeq(bytes, 1, Min({i * BlockSize, n}))]
<1>1. PICK z \in Nat \ {0}, m \in Nat : z = BlockSize /\ m = n + z - 1
  OBVIOUS
<1>2. PICK q \in Nat, r \in 0 .. z - 1 : q = m \div z /\ m = z * q + r
  BY ONLY z \in Nat \ {0}, m \in Nat, DivisionIs
<1>3. k = q
  BY <1>1, <1>2
<1> HIDE DEF k
<1>4. z * q \in Nat /\ n <= z * q /\ z * q < n + z
  <2>1. z * q \in Nat
    BY ONLY z \in Nat \ {0}, q \in Nat
  <2>2. PICK x \in Nat : x = z * q
    BY <2>1
  <2> QED BY ONLY <1>1, <1>2, <2>2, n \in Nat, z \in Nat \ {0}, r \in 0 .. z - 1, x \in Nat, m \in Nat
<1>5. CASE q = 0
  <2>1. n = 0
    BY <1>4, <1>5
  <2>2. bytes = <<>>
    BY <2>1, EmptySeq
  <2>3. B = <<>>
    BY <1>3, <1>5
  <2> QED BY <2>2, <2>3, FlatEmpty DEF k
<1>6. CASE q # 0
  <2>1. ASSUME NEW i \in 1 .. q
        PROVE  /\ i * z \in Nat /\ (i - 1) * z \in Nat /\ i * z = (i - 1) * z + z /\ (i - 1) * z < n
               /\ i = q => n <= i * z
    <3>1. i * z \in Nat /\ (i - 1) * z \in Nat /\ i * z = (i - 1) * z + z
      BY ONLY i \in 1 .. q, q \in Nat, z \in Nat \ {0}
    <3>2. i * z <= q * z
      BY ONLY i \in 1 .. q, q \in Nat, z \in Nat \ {0}
    <3>3. q * z = z * q
      BY ONLY q \in Nat, z \in Nat \ {0}
    <3>4. PICK x \in Nat, y \in Nat, w \in Nat : x = i * z /\ y = (i - 1) * z /\ w = z * q
      BY <1>4, <3>1
    <3>5. y < n
      BY ONLY x \in Nat, y \in Nat, w \in Nat, z \in Nat \ {0}, n \in Nat, <1>4, <3>1, <3>2, <3>3, <3>4
    <3>6. i = q => n <= x
      BY ONLY x \in Nat, w \in Nat, n \in Nat, <1>4, <3>3, <3>4
    <3> QED BY <3>1, <3>4, <3>5, <3>6
  <2>2. ASSUME NEW i \in 1 .. q PROVE Min({i * z, n}) \in Nat /\ Min({i * z, n}) <= n
                                  /\ Min({i * z, n}) = IF i * z <= n THEN i * z ELSE n
    <3>1. PICK x \in Nat : x = i * z
      BY <2>1
    <3>2. Min({x, n}) = IF x <= n THEN x ELSE n
      BY MinOfTwo
    <3> QED BY <3>1, <3>2
  <2>3. ASSUME NEW i \in 1 .. q PROVE f[i] = IF i = 1 THEN B[1] ELSE f[i - 1] \o B[i]
    <3>1. B[i] = SubSeq(bytes, (i - 1) * z + 1, Min({i * z, n})) /\ f[i] = SubSeq(bytes, 1, Min({i * z, n}))
      BY <1>1, <1>3
    <3> HIDE DEF b, B
    <3>2. CASE i = 1
      <4>1. (i - 1) * z + 1 = 1
        BY ONLY <3>2, z \in Nat \ {0}
      <4> QED BY <3>1, <3>2, <4>1
    <3>3. CASE i # 1
      <4>1. i - 1 \in 1 .. q
        BY <3>3
      <4>2. f[i - 1] = SubSeq(bytes, 1, Min({(i - 1) * z, n}))
        BY <1>1, <1>3, <4>1
      <4> HIDE DEF f
      <4>3. Min({(i - 1) * z, n}) = (i - 1) * z
        <5>1. PICK h \in 1 .. q : h = i - 1
          BY <4>1
        <5>2. Min({h * z, n}) = IF h * z <= n THEN h * z ELSE n
          BY <2>2
        <5>3. h * z < n /\ h * z \in Nat
          BY <2>1, <5>1
        <5> QED BY <5>1, <5>2, <5>3
      <4>4. PICK x \in Nat, y \in Nat, w \in Nat :
              x = i * z /\ y = (i - 1) * z /\ w = Min({i * z, n}) /\ x = y + z /\ y < n
        BY <2>1, <2>2
      <4>5. w \in y .. n /\ y \in 0 .. n /\ 1 \in 1 .. n + 1 /\ 1 - 1 = 0
        <5>1. w = IF x <= n THEN x ELSE n
          BY <2>2, <4>4
        <5> QED BY ONLY <4>4, <5>1, x \in Nat, y \in Nat, w \in Nat, n \in Nat, z \in Nat \ {0}
      <4>6. SubSeq(bytes, 1, y) \o SubSeq(bytes, y + 1, w) = SubSeq(bytes, 1, w)
        BY ONLY bytes \in Seq(Byte), n = Len(bytes), <4>5, ConcatAdjacentSubSeq
      <4>7. B[i] = SubSeq(bytes, y + 1, w) /\ f[i] = SubSeq(bytes, 1, w) /\ f[i - 1] = SubSeq(bytes, 1, y)
        BY <3>1, <4>2, <4>3, <4>4
      <4> QED BY <3>3, <4>6, <4>7
    <3> QED BY <3>2, <3>3
  <2>4. Len(B) = q
    <3>1. ASSUME NEW i \in 1 .. q PROVE b(i) \in Seq(Byte)
      <4>1. PICK y \in Nat, w \in Nat : y = (i - 1) * z /\ w = Min({i * z, n}) /\ w <= n
        BY <2>1, <2>2
      <4>2. PICK v \in Nat \ {0} : v = y + 1
        OBVIOUS
      <4>3. SubSeq(bytes, v, w) \in Seq(Byte)
        <5>1. w \in Int /\ w <= Len(bytes)
          BY <4>1
        <5> QED BY ONLY bytes \in Seq(Byte), v \in Nat \ {0}, <5>1, PartOf
      <4> QED BY <1>1, <4>1, <4>2, <4>3
    <3>2. B \in [1 .. q -> Seq(Byte)]
      <4> HIDE DEF b
      <4> QED BY <1>3, <3>1
    <3> HIDE DEF B
    <3> QED BY <3>2, FunctionIsSequence
  <2>5. IsFlat(f, B, q)
    <3> HIDE DEF f, B
    <3> QED BY <2>3 DEF IsFlat
  <2>6. f[q] = bytes
    <3>1. q \in 1 .. q /\ n <= q * z
      BY <1>6, <2>1
    <3>2. Min({q * z, n}) = n
      <4>1. PICK x \in Nat : x = q * z
        BY <2>1, <3>1
      <4> QED BY <2>2, <3>1, <4>1
    <3>3. f[q] = SubSeq(bytes, 1, Min({q * z, n}))
      BY <1>1, <1>3, <3>1
    <3>4. SubSeq(bytes, 1, Len(bytes)) = bytes
      BY SubSeqFull
    <3> QED BY <3>2, <3>3, <3>4
  <2>7. FlattenSeq(B) = f[q]
    <3> HIDE DEF f, B
    <3> QED BY <1>6, <2>4, <2>5, FlatUnique
  <2>8. FlattenSeq(B) = bytes
    <3> HIDE DEF f, B
    <3> QED BY <2>6, <2>7
  <2> QED BY <2>8 DEF k
<1> QED BY <1>5, <1>6

(* An object is a name, a NUL, a size, and contents.                       *)
LEMMA EncIs ==
  ASSUME NEW name \in Seq(Letters), NEW bytes \in Seq(Byte)
  PROVE  /\ Append(name, 0) \in Seq(Byte) /\ SizeField(Len(bytes)) \in Seq(Byte)
         /\ Enc(<<name, bytes>>) = (Append(name, 0) \o SizeField(Len(bytes))) \o bytes
<1>1. PICK n \in Nat : n = Len(bytes)
  BY LenProperties
<1>2. PICK x \in Seq(Byte), y \in Seq(Byte) : x = Append(name, 0) /\ y = SizeField(n)
  <2>1. Append(name, 0) \in Seq(Byte)
    BY DEF Letters, Byte
  <2>2. SizeField(n) \in Seq(Byte)
    BY FieldOf
  <2> QED BY <2>1, <2>2
<1> DEFINE k    == (n + BlockSize - 1) \div BlockSize
           b(i) == SubSeq(bytes, (i - 1) * BlockSize + 1, Min({i * BlockSize, n}))
           B    == [i \in 1 .. k |-> b(i)]
<1>3. Pieces(<<name, bytes>>) = <<x, y>> \o B
  BY <1>1, <1>2 DEF Pieces
<1>4. FlattenSeq(B) = bytes
  BY <1>1, BlocksAre
<1>5. B \in Seq(Seq(Byte))
  <2>1. k \in Nat
    BY BlocksOf
  <2>2. PICK q \in Nat : q = k
    BY <2>1
  <2> HIDE DEF k
  <2>3. ASSUME NEW i \in 1 .. q PROVE b(i) \in Seq(Byte)
    <3>1. (i - 1) * BlockSize \in Nat /\ i * BlockSize \in Nat
      BY ONLY i \in 1 .. q, q \in Nat, BlockSize \in Nat \ {0}
    <3>2. PICK v \in Nat, w \in Nat : v = (i - 1) * BlockSize /\ w = i * BlockSize
      BY <3>1
    <3>3. PICK m \in Int : m = Min({w, n}) /\ m <= Len(bytes)
      BY <1>1, MinOfTwo
    <3>4. PICK u \in Nat \ {0} : u = v + 1
      OBVIOUS
    <3>5. SubSeq(bytes, u, m) \in Seq(Byte)
      BY ONLY bytes \in Seq(Byte), u \in Nat \ {0}, m \in Int, <3>3, PartOf
    <3> QED BY <3>2, <3>3, <3>4, <3>5
  <2>4. B \in [1 .. q -> Seq(Byte)]
    <3> HIDE DEF b
    <3> QED BY <2>2, <2>3
  <2> HIDE DEF B
  <2> QED BY <2>4, FunctionIsSequence
<1> HIDE DEF B
<1>6. FlattenSeq(<<x, y>> \o B) = FlattenSeq(<<x, y>>) \o FlattenSeq(B)
  <2>1. <<x, y>> \in Seq(Seq(Byte))
    OBVIOUS
  <2> QED BY <1>5, <2>1, FlatConcat
<1>7. FlattenSeq(<<x, y>>) = x \o y
  <2>0. Len(<<x, y>>) = 2 /\ <<x, y>>[1] = x /\ <<x, y>>[2] = y
    OBVIOUS
  <2>1. PICK s : s = <<x, y>> /\ Len(s) = 2 /\ s[1] = x /\ s[2] = y
    BY ONLY <2>0
  <2>2. PICK f : f[1] = x /\ f[2] = x \o y
    <3>1. <<x, x \o y>>[1] = x /\ <<x, x \o y>>[2] = x \o y
      OBVIOUS
    <3> QED BY <3>1
  <2>3. PICK z \in Nat \ {0} : z = 2
    OBVIOUS
  <2>4. IsFlat(f, s, z)
    <3> SUFFICES ASSUME NEW i \in 1 .. z PROVE f[i] = IF i = 1 THEN s[1] ELSE f[i - 1] \o s[i]
      BY DEF IsFlat
    <3>1. i = 1 \/ (i = 2 /\ i - 1 = 1)
      BY <2>3
    <3> QED BY <2>1, <2>2, <3>1
  <2>5. FlattenSeq(s) = f[z]
    BY <2>1, <2>3, <2>4, FlatUnique
  <2> QED BY <2>1, <2>2, <2>3, <2>5
<1> QED BY <1>1, <1>2, <1>3, <1>4, <1>6, <1>7 DEF Enc

LEMMA EncLength ==
  ASSUME NEW ob \in Objects
  PROVE  /\ Enc(ob) \in Seq(Byte) /\ Len(Enc(ob)) = Len(ob[1]) + 1 + SizeBytes + Len(ob[2])
         /\ Len(ob[1]) \in Nat /\ Len(ob[2]) \in Nat
<1>1. PICK name \in Seq(Letters), bytes \in Seq(Byte) : ob = <<name, bytes>>
  BY DEF Objects
<1>2. PICK x \in Seq(Byte), y \in Seq(Byte) : x = Append(name, 0) /\ y = SizeField(Len(bytes))
                                              /\ Enc(ob) = (x \o y) \o bytes
  BY <1>1, EncIs
<1>3. Len(x) = Len(name) + 1 /\ Len(y) = SizeBytes /\ Len(name) \in Nat /\ Len(bytes) \in Nat
  <2>1. Len(name) \in Nat /\ Len(bytes) \in Nat
    BY LenProperties
  <2>2. Len(y) = SizeBytes
    BY <1>2, <2>1, FieldOf
  <2>3. Len(Append(name, 0)) = Len(name) + 1
    OBVIOUS
  <2> QED BY <1>2, <2>1, <2>2, <2>3
<1>4. x \o y \in Seq(Byte) /\ Len(x \o y) = Len(x) + Len(y)
  BY ConcatProperties
<1>5. PICK v \in Seq(Byte) : v = x \o y
  BY <1>4
<1>6. v \o bytes \in Seq(Byte) /\ Len(v \o bytes) = Len(v) + Len(bytes)
  BY ConcatProperties
<1>7. ob[1] = name /\ ob[2] = bytes
  BY <1>1
<1>8. (Len(name) + 1 + SizeBytes) + Len(bytes) = Len(name) + 1 + SizeBytes + Len(bytes)
  BY <1>3
<1> QED BY <1>2, <1>3, <1>4, <1>5, <1>6, <1>7, <1>8

-----------------------------------------------------------------------------
(* What is written for some objects.                                       *)
Body(objs) == FlattenSeq([i \in DOMAIN objs |-> Enc(objs[i])])

LEMMA FileIs == \A objs : File(objs) = Magic \o Body(objs)
  BY DEF File, Body, Enc

LEMMA Encoded ==
  ASSUME NEW objs \in Seq(Objects), NEW e, e = [i \in DOMAIN objs |-> Enc(objs[i])]
  PROVE  e \in Seq(Seq(Byte)) /\ Len(e) = Len(objs) /\ \A i \in 1 .. Len(objs) : e[i] = Enc(objs[i])
<1>1. PICK n \in Nat : n = Len(objs) /\ DOMAIN objs = 1 .. n /\ \A i \in 1 .. n : objs[i] \in Objects
  BY LenProperties
<1>2. \A i \in 1 .. n : Enc(objs[i]) \in Seq(Byte)
  BY <1>1, EncLength
<1>3. e \in [1 .. n -> Seq(Byte)] /\ \A i \in 1 .. n : e[i] = Enc(objs[i])
  BY <1>1, <1>2
<1> QED BY <1>1, <1>3, FunctionIsSequence

LEMMA BodyIn == ASSUME NEW objs \in Seq(Objects) PROVE Body(objs) \in Seq(Byte)
<1>1. PICK e : e = [i \in DOMAIN objs |-> Enc(objs[i])]
  OBVIOUS
<1>2. e \in Seq(Seq(Byte))
  BY <1>1, Encoded
<1>3. FlattenSeq(e) \in Seq(Byte)
  BY <1>2, FlatInSeq
<1> QED BY <1>1, <1>3 DEF Body

LEMMA BodyEmpty == Body(<<>>) = <<>>
<1>1. PICK e : e = [i \in DOMAIN <<>> |-> Enc(<<>>[i])]
  OBVIOUS
<1>2. <<>> \in Seq(Objects) /\ Len(<<>>) = 0
  OBVIOUS
<1>3. e \in Seq(Seq(Byte)) /\ Len(e) = 0
  BY <1>1, <1>2, Encoded
<1>4. e = <<>>
  BY <1>3, EmptySeq
<1> QED BY <1>1, <1>4, FlatEmpty DEF Body

LEMMA BodyConcat ==
  ASSUME NEW a \in Seq(Objects), NEW b \in Seq(Objects) PROVE Body(a \o b) = Body(a) \o Body(b)
<1>2. PICK m \in Nat, n \in Nat : m = Len(a) /\ n = Len(b)
  BY LenProperties
<1>1. PICK c \in Seq(Objects) : /\ c = a \o b /\ Len(c) = m + n
                              /\ \A i \in 1 .. m + n : c[i] = IF i <= m THEN a[i] ELSE b[i - m]
  <2>1. /\ a \o b \in Seq(Objects) /\ Len(a \o b) = Len(a) + Len(b)
        /\ \A i \in 1 .. Len(a) + Len(b) : (a \o b)[i] = IF i <= Len(a) THEN a[i] ELSE b[i - Len(a)]
    BY ConcatProperties
  <2> QED BY <1>2, <2>1
<1>3. PICK x : x = [i \in DOMAIN a |-> Enc(a[i])]
  OBVIOUS
<1>4. PICK y : y = [i \in DOMAIN b |-> Enc(b[i])]
  OBVIOUS
<1>5. PICK z : z = [i \in DOMAIN c |-> Enc(c[i])]
  OBVIOUS
<1>6. /\ x \in Seq(Seq(Byte)) /\ Len(x) = m /\ \A i \in 1 .. m : x[i] = Enc(a[i])
      /\ y \in Seq(Seq(Byte)) /\ Len(y) = n /\ \A i \in 1 .. n : y[i] = Enc(b[i])
      /\ z \in Seq(Seq(Byte)) /\ Len(z) = m + n /\ \A i \in 1 .. m + n : z[i] = Enc(c[i])
  <2>1. x \in Seq(Seq(Byte)) /\ Len(x) = Len(a) /\ \A i \in 1 .. Len(a) : x[i] = Enc(a[i])
    BY <1>3, Encoded
  <2>2. y \in Seq(Seq(Byte)) /\ Len(y) = Len(b) /\ \A i \in 1 .. Len(b) : y[i] = Enc(b[i])
    BY <1>4, Encoded
  <2>3. z \in Seq(Seq(Byte)) /\ Len(z) = Len(c) /\ \A i \in 1 .. Len(c) : z[i] = Enc(c[i])
    BY <1>5, Encoded
  <2> QED BY <1>1, <1>2, <2>1, <2>2, <2>3
<1>7. PICK w \in Seq(Seq(Byte)) : /\ w = x \o y /\ Len(w) = m + n
                                  /\ \A i \in 1 .. m + n : w[i] = IF i <= m THEN x[i] ELSE y[i - m]
  <2>1. /\ x \o y \in Seq(Seq(Byte)) /\ Len(x \o y) = Len(x) + Len(y)
        /\ \A i \in 1 .. Len(x) + Len(y) : (x \o y)[i] = IF i <= Len(x) THEN x[i] ELSE y[i - Len(x)]
    BY <1>6, ConcatProperties
  <2> QED BY <1>6, <2>1
<1>8. ASSUME NEW i \in 1 .. m + n PROVE z[i] = w[i]
  <2>1. CASE i <= m
    <3>1. i \in 1 .. m
      BY <2>1
    <3> QED BY <1>1, <1>2, <1>6, <1>7, <2>1, <3>1
  <2>2. CASE ~(i <= m)
    <3>1. i - m \in 1 .. n
      BY <2>2
    <3>2. z[i] = Enc(c[i]) /\ c[i] = b[i - m] /\ w[i] = y[i - m]
      BY <1>1, <1>6, <1>7, <2>2
    <3>3. y[i - m] = Enc(b[i - m])
      BY <1>6, <3>1
    <3> QED BY <3>2, <3>3
  <2> QED BY <2>1, <2>2
<1>9. z = w
  BY <1>6, <1>7, <1>8, SeqEqual
<1>10. FlattenSeq(x \o y) = FlattenSeq(x) \o FlattenSeq(y)
  BY <1>6, FlatConcat
<1> QED BY <1>1, <1>3, <1>4, <1>5, <1>7, <1>9, <1>10 DEF Body

LEMMA BodyOne == ASSUME NEW ob \in Objects PROVE Body(<<ob>>) = Enc(ob)
<1>1. PICK e : e = [i \in DOMAIN <<ob>> |-> Enc(<<ob>>[i])]
  OBVIOUS
<1>2. e = <<Enc(ob)>>
  BY <1>1
<1>3. FlattenSeq(<<Enc(ob)>>) = Enc(ob)
  BY EncLength, FlatOne
<1> QED BY <1>1, <1>2, <1>3 DEF Body

LEMMA MagicIn == Magic \in Seq(Byte) /\ Len(Magic) = 2
<1>1. Base - 1 \in Byte
  BY DEF Byte
<1> QED BY <1>1 DEF Magic

LEMMA FileIn ==
  ASSUME NEW objs \in Seq(Objects)
  PROVE  File(objs) \in Seq(Byte) /\ Len(File(objs)) = 2 + Len(Body(objs)) /\ Len(Body(objs)) \in Nat
<1>1. PICK x \in Seq(Byte) : x = Body(objs)
  BY BodyIn
<1>2. Magic \o x \in Seq(Byte) /\ Len(Magic \o x) = Len(Magic) + Len(x) /\ Len(x) \in Nat
  BY MagicIn, ConcatProperties, LenProperties
<1> QED BY <1>1, <1>2, MagicIn, FileIs

LEMMA FileEmpty == File(<<>>) = Magic
<1>1. Magic \o <<>> = Magic
  BY MagicIn, ConcatEmptySeq
<1> QED BY <1>1, FileIs, BodyEmpty

(* One object more, at the end.                                            *)
LEMMA FileConcat ==
  ASSUME NEW a \in Seq(Objects), NEW b \in Seq(Objects) PROVE File(a \o b) = File(a) \o Body(b)
<1>1. PICK x \in Seq(Byte), y \in Seq(Byte) : x = Body(a) /\ y = Body(b)
  BY BodyIn
<1>2. PICK m \in Seq(Byte) : m = Magic
  BY MagicIn
<1>3. (m \o x) \o y = m \o (x \o y)
  BY ConcatAssociative
<1> QED BY <1>1, <1>2, <1>3, BodyConcat, FileIs

LEMMA FileAppend ==
  ASSUME NEW objs \in Seq(Objects), NEW ob \in Objects
  PROVE  File(Append(objs, ob)) = File(objs) \o Enc(ob)
<1>1. Append(objs, ob) = objs \o <<ob>>
  BY AppendIsConcat
<1>2. <<ob>> \in Seq(Objects)
  OBVIOUS
<1> QED BY <1>1, <1>2, FileConcat, BodyOne

(* An object within a file, and the file without it.                       *)
Before(objs, j) == SubSeq(objs, 1, j - 1)
After(objs, j)  == SubSeq(objs, j + 1, Len(objs))

LEMMA Sides ==
  ASSUME NEW objs \in Seq(Objects), NEW j \in 1 .. Len(objs)
  PROVE  /\ Before(objs, j) \in Seq(Objects) /\ After(objs, j) \in Seq(Objects) /\ objs[j] \in Objects
         /\ RemoveAt(objs, j) = Before(objs, j) \o After(objs, j)
         /\ Append(Before(objs, j), objs[j]) = SubSeq(objs, 1, j)
         /\ SubSeq(objs, 1, j) \in Seq(Objects)
         /\ SubSeq(objs, 1, j) \o After(objs, j) = objs
<1>1. PICK n \in Nat : n = Len(objs) /\ j \in 1 .. n /\ \A i \in 1 .. n : objs[i] \in Objects
  BY LenProperties
<1>2. PICK i \in Nat, k \in Nat \ {0} : i = j - 1 /\ k = j + 1
  BY <1>1
<1>3. SubSeq(objs, 1, i) \in Seq(Objects)
  <2>1. 1 \in Nat \ {0} /\ i \in Int /\ i <= Len(objs)
    BY <1>1, <1>2
  <2> QED BY <2>1, PartOf
<1>4. SubSeq(objs, 1, j) \in Seq(Objects)
  <2>1. 1 \in Nat \ {0} /\ j \in Int /\ j <= Len(objs)
    BY <1>1, <1>2
  <2> QED BY <2>1, PartOf
<1>5. SubSeq(objs, k, n) \in Seq(Objects)
  <2>1. n \in Int /\ n <= Len(objs)
    BY <1>1, <1>2
  <2> QED BY <2>1, PartOf
<1>6. SubSeq(objs, 1, j) \o SubSeq(objs, j + 1, n) = SubSeq(objs, 1, n)
  <2>1. 1 \in 1 .. Len(objs) + 1 /\ j \in 1 - 1 .. Len(objs) /\ n \in j .. Len(objs)
    BY <1>1
  <2> QED BY <2>1, ConcatAdjacentSubSeq
<1>7. SubSeq(objs, 1, n) = objs
  BY <1>1, SubSeqFull
<1>8. SubSeq(objs, 1, j) = SubSeq(objs, 1, j - 1) \o <<objs[j]>>
  <2>1. 1 \in 1 .. Len(objs) /\ j \in 1 .. Len(objs)
    BY <1>1
  <2> QED BY <2>1, SubSeqRecursiveSecond
<1>9. PICK a \in Seq(Objects) : a = SubSeq(objs, 1, j - 1)
  BY <1>2, <1>3
<1>10. Append(a, objs[j]) = a \o <<objs[j]>>
  BY <1>1, AppendIsConcat
<1> QED BY <1>1, <1>2, <1>3, <1>4, <1>5, <1>6, <1>7, <1>8, <1>9, <1>10 DEF Before, After, RemoveAt

LEMMA FileAround ==
  ASSUME NEW objs \in Seq(Objects), NEW j \in 1 .. Len(objs)
  PROVE  /\ File(objs) = (File(Before(objs, j)) \o Enc(objs[j])) \o Body(After(objs, j))
         /\ File(RemoveAt(objs, j)) = File(Before(objs, j)) \o Body(After(objs, j))
         /\ File(SubSeq(objs, 1, j)) = File(Before(objs, j)) \o Enc(objs[j])
<1>0. /\ Before(objs, j) \in Seq(Objects) /\ After(objs, j) \in Seq(Objects) /\ objs[j] \in Objects
      /\ RemoveAt(objs, j) = Before(objs, j) \o After(objs, j)
      /\ Append(Before(objs, j), objs[j]) = SubSeq(objs, 1, j)
      /\ SubSeq(objs, 1, j) \in Seq(Objects)
      /\ SubSeq(objs, 1, j) \o After(objs, j) = objs
  BY Sides
<1>1. PICK a \in Seq(Objects), b \in Seq(Objects), c \in Seq(Objects), ob \in Objects :
        /\ a = Before(objs, j) /\ b = After(objs, j) /\ ob = objs[j] /\ c = SubSeq(objs, 1, j)
        /\ RemoveAt(objs, j) = a \o b /\ Append(a, ob) = c /\ c \o b = objs
  BY <1>0
<1>2. File(a \o b) = File(a) \o Body(b) /\ File(c \o b) = File(c) \o Body(b)
  BY FileConcat
<1>3. File(Append(a, ob)) = File(a) \o Enc(ob)
  BY FileAppend
<1> QED BY <1>1, <1>2, <1>3

-----------------------------------------------------------------------------
(* An object is where it was written.                                      *)
Written(file, o, name, bytes, l, n) ==
  /\ \A i \in 1 .. l : file[o + i] = name[i]
  /\ file[o + l + 1] = 0
  /\ \A i \in 1 .. SizeBytes : file[o + l + 1 + i] = SizeField(n)[i]
  /\ \A i \in 1 .. n : file[o + l + 1 + SizeBytes + i] = bytes[i]

Surrounded(file, a, o, l, n, z) ==
  /\ file \in Seq(Byte) /\ Len(file) = o + (l + 1 + SizeBytes + n) + z
  /\ \A i \in 1 .. o : file[i] = a[i]

Reads(file, o, name, bytes, n, e, s) ==
  /\ NameEnds(file, o) = {e}
  /\ SubSeq(file, o + 1, e) = name
  /\ safe_read(file, e + 1, SizeBytes) = "read"
  /\ ValueAt(file, e + 1) = n
  /\ SubSeq(file, s + 1, s + n) = bytes

Follows(c, a, b, m, n) ==
  /\ c \in Seq(Byte) /\ Len(c) = m + n
  /\ \A i \in 1 .. m : c[i] = a[i]
  /\ \A i \in 1 .. n : c[m + i] = b[i]

LEMMA Joint ==
  ASSUME NEW a \in Seq(Byte), NEW b \in Seq(Byte), NEW m \in Nat, NEW n \in Nat, m = Len(a), n = Len(b)
  PROVE  Follows(a \o b, a, b, m, n)
<1>1. /\ a \o b \in Seq(Byte) /\ Len(a \o b) = Len(a) + Len(b)
      /\ \A i \in 1 .. Len(a) + Len(b) : (a \o b)[i] = IF i <= Len(a) THEN a[i] ELSE b[i - Len(a)]
  BY ConcatProperties
<1>2. ASSUME NEW i \in 1 .. m PROVE (a \o b)[i] = a[i]
  <2>1. i \in 1 .. Len(a) + Len(b) /\ i <= Len(a)
    OBVIOUS
  <2> QED BY <1>1, <2>1
<1>3. ASSUME NEW i \in 1 .. n PROVE (a \o b)[m + i] = b[i]
  <2>1. m + i \in 1 .. Len(a) + Len(b) /\ ~(m + i <= Len(a)) /\ (m + i) - Len(a) = i
    OBVIOUS
  <2> QED BY <1>1, <2>1
<1> QED BY <1>1, <1>2, <1>3 DEF Follows

Lengths(a, name, bytes, b, o, l, n, z) ==
  /\ a \in Seq(Byte) /\ name \in Seq(Letters) /\ bytes \in Seq(Byte) /\ b \in Seq(Byte)
  /\ o \in Nat /\ l \in Nat /\ n \in Nat /\ z \in Nat
  /\ o = Len(a) /\ l = Len(name) /\ n = Len(bytes) /\ z = Len(b)

LEMMA WhereWritten ==
  ASSUME NEW a, NEW name, NEW bytes, NEW b, NEW o, NEW l, NEW n, NEW z, Lengths(a, name, bytes, b, o, l, n, z),
         NEW file, file = (a \o Enc(<<name, bytes>>)) \o b
  PROVE  Surrounded(file, a, o, l, n, z) /\ Written(file, o, name, bytes, l, n)
<1> USE DEF Lengths
<1>1. PICK x \in Seq(Byte), y \in Seq(Byte) :
        x = Append(name, 0) /\ y = SizeField(n) /\ Enc(<<name, bytes>>) = (x \o y) \o bytes
  BY EncIs
<1>2. Len(x) = l + 1 /\ x[l + 1] = 0 /\ \A i \in 1 .. l : x[i] = name[i]
  <2>1. /\ Len(Append(name, 0)) = Len(name) + 1 /\ Append(name, 0)[Len(name) + 1] = 0
        /\ \A i \in 1 .. Len(name) : Append(name, 0)[i] = name[i]
    OBVIOUS
  <2> QED BY <1>1, <2>1
<1>3. Len(y) = SizeBytes
  BY <1>1, FieldOf
<1> DEFINE p == l + 1
           m == p + SizeBytes
           k == m + n
           q == o + k
<1>4. /\ p \in Nat /\ m \in Nat /\ k \in Nat /\ q \in Nat
      /\ p = l + 1 /\ m = p + SizeBytes /\ k = m + n /\ q = o + k
  OBVIOUS
<1> HIDE DEF p, m, k, q
<1>5. PICK u \in Seq(Byte) : u = x \o y /\ Follows(u, x, y, p, SizeBytes)
  <2>1. Follows(x \o y, x, y, p, SizeBytes)
    BY <1>2, <1>3, <1>4, Joint
  <2> QED BY <2>1 DEF Follows
<1>6. PICK v \in Seq(Byte) : v = u \o bytes /\ Follows(v, u, bytes, m, n)
  <2>1. Len(u) = m
    BY <1>4, <1>5 DEF Follows
  <2>2. Follows(u \o bytes, u, bytes, m, n)
    BY <2>1, Joint
  <2> QED BY <2>2 DEF Follows
<1>7. PICK w \in Seq(Byte) : w = a \o v /\ Follows(w, a, v, o, k)
  <2>1. Len(v) = k
    BY <1>4, <1>6 DEF Follows
  <2>2. Follows(a \o v, a, v, o, k)
    BY <2>1, Joint
  <2> QED BY <2>2 DEF Follows
<1>8. Follows(file, w, b, q, z)
  <2>1. Len(w) = q
    BY <1>4, <1>7 DEF Follows
  <2>2. Follows(w \o b, w, b, q, z)
    BY <2>1, Joint
  <2>3. file = w \o b
    BY <1>1, <1>5, <1>6, <1>7
  <2> QED BY <2>2, <2>3
<1>9. \A i \in 1 .. k : file[o + i] = v[i]
  <2>1. ASSUME NEW i \in 1 .. k PROVE file[o + i] = v[i]
    <3>1. o + i \in 1 .. q
      BY <1>4
    <3>2. file[o + i] = w[o + i]
      BY <1>8, <3>1 DEF Follows
    <3>3. w[o + i] = v[i]
      BY <1>7 DEF Follows
    <3> QED BY <3>2, <3>3
  <2> QED BY <2>1
<1>16. \A i \in 1 .. m : file[o + i] = u[i]
  <2>1. ASSUME NEW i \in 1 .. m PROVE file[o + i] = u[i]
    <3>1. i \in 1 .. k
      BY <1>4
    <3>2. v[i] = u[i]
      BY <1>6 DEF Follows
    <3> QED BY <1>9, <3>1, <3>2
  <2> QED BY <2>1
<1>17. \A i \in 1 .. p : file[o + i] = x[i]
  <2>1. ASSUME NEW i \in 1 .. p PROVE file[o + i] = x[i]
    <3>1. i \in 1 .. m
      BY <1>4
    <3>2. u[i] = x[i]
      BY <1>5 DEF Follows
    <3> QED BY <1>16, <3>1, <3>2
  <2> QED BY <2>1
<1>10. \A i \in 1 .. l : file[o + i] = name[i]
  <2>1. ASSUME NEW i \in 1 .. l PROVE file[o + i] = name[i]
    <3>1. i \in 1 .. p
      BY <1>4
    <3> QED BY <1>2, <1>17, <3>1
  <2> QED BY <2>1
<1>11. file[o + l + 1] = 0
  <2>1. p \in 1 .. p /\ o + l + 1 = o + p /\ x[p] = 0
    BY <1>2, <1>4
  <2> QED BY <1>17, <2>1
<1>12. \A i \in 1 .. SizeBytes : file[o + l + 1 + i] = SizeField(n)[i]
  <2>1. ASSUME NEW i \in 1 .. SizeBytes PROVE file[o + l + 1 + i] = y[i]
    <3>1. PICK j \in 1 .. m : j = p + i
      <4>1. p + i \in 1 .. m
        BY <1>4
      <4> QED BY <4>1
    <3>2. o + l + 1 + i = o + j
      BY <1>4, <3>1
    <3>3. u[j] = y[i]
      BY <1>5, <3>1 DEF Follows
    <3> QED BY <1>16, <3>2, <3>3
  <2> QED BY <1>1, <2>1
<1>13. \A i \in 1 .. n : file[o + l + 1 + SizeBytes + i] = bytes[i]
  <2>1. ASSUME NEW i \in 1 .. n PROVE file[o + l + 1 + SizeBytes + i] = bytes[i]
    <3>1. PICK j \in 1 .. k : j = m + i
      <4>1. m + i \in 1 .. k
        BY <1>4
      <4> QED BY <4>1
    <3>2. o + l + 1 + SizeBytes + i = o + j
      BY <1>4, <3>1
    <3>3. v[j] = bytes[i]
      BY <1>6, <3>1 DEF Follows
    <3> QED BY <1>9, <3>2, <3>3
  <2> QED BY <2>1
<1>14. \A i \in 1 .. o : file[i] = a[i]
  <2>1. ASSUME NEW i \in 1 .. o PROVE file[i] = a[i]
    <3>1. i \in 1 .. q
      BY <1>4
    <3>2. file[i] = w[i]
      BY <1>8, <3>1 DEF Follows
    <3>3. w[i] = a[i]
      BY <1>7 DEF Follows
    <3> QED BY <3>2, <3>3
  <2> QED BY <2>1
<1>15. file \in Seq(Byte) /\ Len(file) = o + (l + 1 + SizeBytes + n) + z
  <2>1. file \in Seq(Byte) /\ Len(file) = q + z
    BY <1>8 DEF Follows
  <2>2. q + z = o + (l + 1 + SizeBytes + n) + z
    BY <1>4
  <2> QED BY <2>1, <2>2
<1> QED BY <1>10, <1>11, <1>12, <1>13, <1>14, <1>15 DEF Written, Surrounded

(* What is read of it.                                                     *)
Places(file, o, name, bytes, l, n, e, s) ==
  /\ file \in Seq(Byte) /\ o \in Nat /\ name \in Seq(Letters) /\ bytes \in Seq(Byte)
  /\ l \in Nat /\ n \in Nat /\ e \in Nat /\ s \in Nat
  /\ l = Len(name) /\ n = Len(bytes) /\ n \in off_t /\ e = o + l /\ s = e + 1 + SizeBytes /\ s + n <= Len(file)

LEMMA ReadsObject ==
  ASSUME NEW file, NEW o, NEW name, NEW bytes, NEW l, NEW n, NEW e, NEW s,
         Places(file, o, name, bytes, l, n, e, s), Written(file, o, name, bytes, l, n)
  PROVE  Reads(file, o, name, bytes, n, e, s)
<1> USE DEF Places
<1>1. PICK z \in Nat : z = Len(file) /\ e + 1 + SizeBytes <= z
  BY LenProperties
<1>2. /\ \A i \in 1 .. l : file[o + i] = name[i] /\ name[i] \in Letters
      /\ file[e + 1] = 0
      /\ \A i \in 1 .. SizeBytes : file[e + 1 + i] = SizeField(n)[i]
      /\ \A i \in 1 .. n : file[s + i] = bytes[i]
  BY LenProperties DEF Written
<1>3. \A i \in o .. e - 1 : file[i + 1] # 0
  <2>1. ASSUME NEW i \in o .. e - 1 PROVE file[i + 1] # 0
    <3>1. PICK j \in 1 .. l : j = i - o + 1 /\ o + j = i + 1
      <4>1. i - o + 1 \in 1 .. l /\ o + (i - o + 1) = i + 1
        OBVIOUS
      <4> QED BY <4>1
    <3>2. file[i + 1] \in Letters
      <4>1. file[o + j] \in Letters
        BY <1>2
      <4> QED BY <3>1, <4>1
    <3> QED BY <3>2 DEF Letters
  <2> QED BY <2>1
<1>4. e \in o .. z - 1
  BY <1>1
<1>5. NameEnds(file, o) = {e}
  <2>1. e \in NameEnds(file, o)
    BY <1>1, <1>2, <1>3, <1>4 DEF NameEnds
  <2>2. ASSUME NEW d \in NameEnds(file, o) PROVE d = e
    <3>1. d \in o .. z - 1 /\ file[d + 1] = 0 /\ \A i \in o .. d - 1 : file[i + 1] # 0
      BY <1>1 DEF NameEnds
    <3>2. ~(d < e)
      BY <1>3, <3>1
    <3>3. ~(e < d)
      <4> SUFFICES ASSUME e < d PROVE FALSE
        OBVIOUS
      <4>1. e \in o .. d - 1
        BY <1>4, <3>1
      <4> QED BY <1>2, <3>1, <4>1
    <3> QED BY <3>1, <3>2, <3>3
  <2> QED BY <2>1, <2>2
<1>6. SubSeq(file, o + 1, e) = name
  <2>1. PICK m \in Nat \ {0} : m = o + 1
    OBVIOUS
  <2>2. PICK x \in Seq(Byte) : /\ x = SubSeq(file, m, e) /\ Len(x) = (IF m <= e THEN e - m + 1 ELSE 0)
                               /\ \A i \in 1 .. e - m + 1 : x[i] = file[m + i - 1]
    <3>1. e \in Int /\ e <= Len(file)
      BY <1>1
    <3>2. /\ SubSeq(file, m, e) \in Seq(Byte) /\ Len(SubSeq(file, m, e)) = (IF m <= e THEN e - m + 1 ELSE 0)
          /\ \A i \in 1 .. e - m + 1 : SubSeq(file, m, e)[i] = file[m + i - 1]
      BY ONLY file \in Seq(Byte), m \in Nat \ {0}, <3>1, PartOf
    <3> QED BY ONLY <3>2
  <2>3. Len(x) = l
    BY <2>1, <2>2
  <2>4. ASSUME NEW i \in 1 .. l PROVE x[i] = name[i]
    <3>1. i \in 1 .. e - m + 1 /\ m + i - 1 = o + i
      BY <2>1
    <3> QED BY <1>2, <2>2, <3>1
  <2>5. name \in Seq(Byte)
    BY SeqMonotonic DEF Letters
  <2> QED BY <2>1, <2>2, <2>3, <2>4, <2>5, SeqEqual
<1>7. SubSeq(file, s + 1, s + n) = bytes
  <2>1. PICK m \in Nat \ {0}, k \in Nat : m = s + 1 /\ k = s + n
    OBVIOUS
  <2>2. PICK x \in Seq(Byte) : /\ x = SubSeq(file, m, k) /\ Len(x) = (IF m <= k THEN k - m + 1 ELSE 0)
                               /\ \A i \in 1 .. k - m + 1 : x[i] = file[m + i - 1]
    <3>1. k \in Int /\ k <= Len(file)
      BY <1>1, <2>1
    <3>2. /\ SubSeq(file, m, k) \in Seq(Byte) /\ Len(SubSeq(file, m, k)) = (IF m <= k THEN k - m + 1 ELSE 0)
          /\ \A i \in 1 .. k - m + 1 : SubSeq(file, m, k)[i] = file[m + i - 1]
      BY ONLY file \in Seq(Byte), m \in Nat \ {0}, <3>1, PartOf
    <3> QED BY ONLY <3>2
  <2>3. Len(x) = n
    BY <2>1, <2>2
  <2>4. ASSUME NEW i \in 1 .. n PROVE x[i] = bytes[i]
    <3>1. i \in 1 .. k - m + 1 /\ m + i - 1 = s + i
      BY <2>1
    <3> QED BY <1>2, <2>2, <3>1
  <2> QED BY <2>1, <2>2, <2>3, <2>4, SeqEqual
<1>8. safe_read(file, e + 1, SizeBytes) = "read"
  BY <1>1 DEF safe_read
<1>9. ValueAt(file, e + 1) = n
  <2>1. PICK d \in Nat : d = e + 1
    OBVIOUS
  <2>2. \A i \in 1 .. SizeBytes : file[d + i] = SizeField(n)[i]
    BY <1>2, <2>1
  <2>3. ValueAt(file, d) = n
    BY ONLY d \in Nat, n \in Nat, n \in off_t, <2>2, ValueOfField
  <2> QED BY <2>1, <2>3
<1> QED BY <1>5, <1>6, <1>7, <1>8, <1>9 DEF Reads

Passing(a, ob) == [is |-> "object", name |-> ob[1], bytes |-> Len(Enc(ob)), next |-> Len(a) + Len(Enc(ob))]

(* A file in which an object begins at the length of a: where its name     *)
(* ends, where its contents begin, and how long they are.                  *)
Lies(file, a, ob, z, e, s, n) ==
  /\ file \in Seq(Byte) /\ n = Len(ob[2]) /\ n \in off_t /\ s = e + 1 + SizeBytes
  /\ e = Len(a) + Len(ob[1]) /\ s + n = Len(a) + Len(Enc(ob)) /\ Len(file) = s + n + z
  /\ NameEnds(file, Len(a)) = {e}
  /\ SubSeq(file, Len(a) + 1, e) = ob[1]
  /\ safe_read(file, e + 1, SizeBytes) = "read"
  /\ ValueAt(file, e + 1) = n
  /\ SubSeq(file, s + 1, s + n) = ob[2]
  /\ \A i \in 1 .. Len(a) : file[i] = a[i]

LEMMA ObjectIn ==
  ASSUME NEW a \in Seq(Byte), NEW ob \in Objects, NEW b \in Seq(Byte), NEW file, file = (a \o Enc(ob)) \o b
  PROVE  \E e \in Nat, s \in Nat, n \in Nat : Lies(file, a, ob, Len(b), e, s, n)
<1>1. PICK name \in Seq(Letters), bytes \in Seq(Byte) : ob = <<name, bytes>> /\ Len(bytes) \in off_t
  BY DEF Objects
<1>2. ob[1] = name /\ ob[2] = bytes
  BY <1>1
<1>3. PICK o \in Nat, l \in Nat, n \in Nat, z \in Nat : o = Len(a) /\ l = Len(name) /\ n = Len(bytes) /\ z = Len(b)
  BY LenProperties
<1>4. Surrounded(file, a, o, l, n, z) /\ Written(file, o, name, bytes, l, n)
  <2>1. file = (a \o Enc(<<name, bytes>>)) \o b
    BY <1>1
  <2>2. Lengths(a, name, bytes, b, o, l, n, z)
    BY <1>3 DEF Lengths
  <2> QED BY ONLY <2>1, <2>2, WhereWritten
<1>5. PICK e \in Nat : e = o + l
  OBVIOUS
<1>6. PICK s \in Nat : s = e + 1 + SizeBytes
  OBVIOUS
<1>7. s + n <= Len(file) /\ Len(file) = s + n + z
  <2>1. o + (l + 1 + SizeBytes + n) + z = s + n + z /\ s + n <= s + n + z
    BY <1>5, <1>6
  <2> QED BY <1>4, <2>1 DEF Surrounded
<1>8. Reads(file, o, name, bytes, n, e, s)
  <2>1. file \in Seq(Byte) /\ Written(file, o, name, bytes, l, n) /\ n \in off_t /\ l = Len(name) /\ n = Len(bytes)
    BY <1>1, <1>3, <1>4 DEF Surrounded
  <2>2. Places(file, o, name, bytes, l, n, e, s)
    BY <1>5, <1>6, <1>7, <2>1 DEF Places
  <2> QED BY ONLY <2>1, <2>2, ReadsObject
<1>9. s + n = o + Len(Enc(ob)) /\ e = o + Len(ob[1])
  <2>1. Len(Enc(ob)) = Len(ob[1]) + 1 + SizeBytes + Len(ob[2])
    BY EncLength
  <2>2. Len(Enc(ob)) = l + 1 + SizeBytes + n /\ Len(ob[1]) = l
    BY <1>2, <1>3, <2>1
  <2> QED BY <1>5, <1>6, <2>2
<1>10. n \in off_t
  BY <1>1, <1>3
<1>11. Lies(file, a, ob, z, e, s, n)
  BY ONLY <1>2, <1>3, <1>4, <1>6, <1>7, <1>8, <1>9, <1>10 DEF Lies, Reads, Surrounded
<1> QED BY <1>3, <1>11

LEMMA TraverseObject ==
  ASSUME NEW a \in Seq(Byte), NEW ob \in Objects, NEW b \in Seq(Byte)
  PROVE  traverse_object((a \o Enc(ob)) \o b, Len(a)) = {Passing(a, ob)}
<1>0. PICK file : file = (a \o Enc(ob)) \o b
  OBVIOUS
<1>1. PICK e \in Nat, s \in Nat, n \in Nat : Lies(file, a, ob, Len(b), e, s, n)
  BY <1>0, ObjectIn
<1>2. SizesAt(file, e + 1) = {n}
  BY <1>1 DEF SizesAt, Lies
<1>3. (CHOOSE x \in NameEnds(file, Len(a)) : TRUE) = e
  BY <1>1 DEF Lies
<1>4. traverse_object(file, Len(a)) = {Passed(ob[1], x, s) : x \in {n}}
  BY <1>1, <1>2, <1>3 DEF traverse_object, Lies
<1>5. Passed(ob[1], n, s) = Passing(a, ob)
  <2>1. PICK l \in Nat, k \in Nat : l = Len(ob[1]) /\ k = Len(Enc(ob)) /\ k = l + 1 + SizeBytes + n
    <3>1. /\ Len(Enc(ob)) = Len(ob[1]) + 1 + SizeBytes + Len(ob[2]) /\ Enc(ob) \in Seq(Byte)
          /\ Len(ob[1]) \in Nat /\ Len(ob[2]) = n
      BY <1>1, EncLength DEF Lies
    <3>2. Len(Enc(ob)) \in Nat
      BY <3>1, LenProperties
    <3> QED BY <3>1, <3>2
  <2>2. k # 1 /\ ~(k < 0) /\ ~(s + n < 0)
    BY <2>1
  <2>3. Len(ob[1]) + 1 + SizeBytes + n = k /\ s + n = Len(a) + k
    BY <1>1, <2>1 DEF Lies
  <2> QED BY <2>1, <2>2, <2>3 DEF Passed, Passing
<1> QED BY <1>0, <1>4, <1>5

LEMMA TraverseEnd ==
  ASSUME NEW file \in Seq(Byte)
  PROVE  /\ NameEnds(file, Len(file)) = {}
         /\ traverse_object(file, Len(file)) = {[is |-> "end", name |-> <<>>, bytes |-> 1, next |-> Len(file)]}
<1>1. PICK z \in Nat : z = Len(file)
  BY LenProperties
<1>2. NameEnds(file, z) = {}
  BY <1>1 DEF NameEnds
<1>3. Max({z, z}) = z
  BY MaxOfTwo
<1> QED BY <1>1, <1>2, <1>3 DEF traverse_object

-----------------------------------------------------------------------------
(* Decode is a recursive function that looks ahead.                        *)
Further(D, file, o) ==
  IF NameEnds(file, o) = {} THEN <<>>
  ELSE LET e    == CHOOSE e \in NameEnds(file, o) : TRUE
           from == e + 1 + SizeBytes
           to   == from + (IF from <= Len(file) THEN ValueAt(file, e + 1) ELSE 0)
       IN IF to \in from .. Len(file)
          THEN << <<SubSeq(file, o + 1, e), SubSeq(file, from + 1, to)>> >> \o D[to]
          ELSE <<>>

Decodes(D, file, low) == \A o \in low .. Len(file) : D[o] = Further(D, file, o)

LEMMA FurtherAlike ==
  ASSUME NEW file \in Seq(Byte), NEW o \in Nat, NEW D, NEW E, \A x \in o + 1 .. Len(file) : D[x] = E[x]
  PROVE  Further(D, file, o) = Further(E, file, o)
<1>1. CASE NameEnds(file, o) = {}
  BY <1>1 DEF Further
<1>2. CASE NameEnds(file, o) # {}
  <2> DEFINE e    == CHOOSE e \in NameEnds(file, o) : TRUE
             from == e + 1 + SizeBytes
             to   == from + (IF from <= Len(file) THEN ValueAt(file, e + 1) ELSE 0)
  <2>1. PICK z \in Nat : z = Len(file)
    BY LenProperties
  <2>2. e \in NameEnds(file, o)
    BY <1>2
  <2>3. e \in o .. z - 1
    BY <2>1, <2>2 DEF NameEnds
  <2>4. from \in Nat /\ o + 1 <= from
    BY <2>3
  <2>5. to \in from .. z => D[to] = E[to]
    <3> HIDE DEF to, from, e
    <3> SUFFICES ASSUME to \in from .. z PROVE D[to] = E[to]
      OBVIOUS
    <3>1. to \in o + 1 .. z
      BY <2>4
    <3> QED BY <2>1, <3>1
  <2>6. /\ Further(D, file, o) = IF to \in from .. z
                                 THEN << <<SubSeq(file, o + 1, e), SubSeq(file, from + 1, to)>> >> \o D[to] ELSE <<>>
        /\ Further(E, file, o) = IF to \in from .. z
                                 THEN << <<SubSeq(file, o + 1, e), SubSeq(file, from + 1, to)>> >> \o E[to] ELSE <<>>
    BY <1>2, <2>1 DEF Further
  <2> HIDE DEF to, from, e
  <2> QED BY <2>5, <2>6
<1> QED BY <1>1, <1>2

LEMMA DecodesExists ==
  ASSUME NEW file \in Seq(Byte) PROVE \E D : Decodes(D, file, 0)
<1>1. PICK z \in Nat : z = Len(file)
  BY LenProperties
<1> DEFINE Bad == {y \in Nat : y <= z /\ ~ \E D : Decodes(D, file, z - y)}
<1>2. ASSUME Bad # {} PROVE FALSE
  <2>1. PICK k \in Bad : \A y \in Bad : k <= y
    BY <1>2, Least
  <2>2. k \in 0 .. z
    BY <2>1
  <2>3. PICK low \in Nat : low = z - k
    BY <2>2
  <2>4. \E E : Decodes(E, file, low + 1)
    <3>1. CASE k = 0
      <4>1. Decodes(<<>>, file, low + 1)
        BY <1>1, <2>3, <3>1 DEF Decodes
      <4> QED BY <4>1
    <3>2. CASE k # 0
      <4>1. k - 1 \in Nat /\ k - 1 <= z /\ z - (k - 1) = low + 1
        BY <2>2, <2>3, <3>2
      <4>2. k - 1 \notin Bad
        <5> HIDE DEF Bad
        <5> QED BY <2>1, <2>2, <4>1
      <4> QED BY <4>1, <4>2
    <3> QED BY <3>1, <3>2
  <2>5. PICK E : Decodes(E, file, low + 1)
    BY <2>4
  <2> DEFINE D == [o \in low .. z |-> IF o = low THEN Further(E, file, low) ELSE E[o]]
  <2>6. ASSUME NEW o \in low .. z PROVE D[o] = Further(D, file, o)
    <3>1. \A x \in o + 1 .. Len(file) : D[x] = E[x]
      BY <1>1
    <3>2. o \in Nat
      OBVIOUS
    <3>3. D[o] = Further(E, file, o)
      <4>1. CASE o = low
        BY <4>1
      <4>2. CASE o # low
        <5>1. o \in low + 1 .. Len(file)
          BY <1>1, <4>2
        <5>2. E[o] = Further(E, file, o)
          BY <2>5, <5>1 DEF Decodes
        <5> QED BY <4>2, <5>2
      <4> QED BY <4>1, <4>2
    <3> HIDE DEF D
    <3>4. Further(D, file, o) = Further(E, file, o)
      BY <3>1, <3>2, FurtherAlike
    <3> QED BY <3>3, <3>4
  <2>7. Decodes(D, file, low)
    <3> HIDE DEF D
    <3> QED BY <1>1, <2>6 DEF Decodes
  <2>8. \E F : Decodes(F, file, z - k)
    BY <2>3, <2>7
  <2> QED BY <2>1, <2>8
<1>3. z \in Nat /\ z <= z /\ z - z = 0
  OBVIOUS
<1>4. \E D : Decodes(D, file, z - z)
  BY <1>2, <1>3
<1> QED BY <1>3, <1>4

LEMMA DecodeIs ==
  ASSUME NEW file \in Seq(Byte), Len(file) >= 2
  PROVE  \E D : Decodes(D, file, 0) /\ Decode(file) = D[2]
<1>1. PICK z \in Nat : z = Len(file)
  BY LenProperties
<1> DEFINE D == CHOOSE f : f = [o \in 0 .. z |-> Further(f, file, o)]
<1>2. Decode(file) = D[2]
  <2>1. ~(z < Len(Magic)) /\ Len(Magic) = 2
    BY <1>1, MagicIn
  <2> QED BY <1>1, <2>1 DEF Decode, Further
<1>3. D = [o \in 0 .. z |-> Further(D, file, o)]
  <2>1. PICK E : Decodes(E, file, 0)
    BY DecodesExists
  <2>2. PICK F : F = [o \in 0 .. z |-> E[o]]
    OBVIOUS
  <2>3. ASSUME NEW o \in 0 .. z PROVE E[o] = Further(F, file, o)
    <3>1. \A x \in o + 1 .. Len(file) : E[x] = F[x]
      BY <1>1, <2>2
    <3>2. o \in Nat /\ E[o] = Further(E, file, o)
      BY <1>1, <2>1 DEF Decodes
    <3>3. Further(E, file, o) = Further(F, file, o)
      BY ONLY file \in Seq(Byte), <3>1, <3>2, FurtherAlike
    <3> QED BY <3>2, <3>3
  <2>4. F = [o \in 0 .. z |-> Further(F, file, o)]
    <3>1. [o \in 0 .. z |-> E[o]] = [o \in 0 .. z |-> Further(F, file, o)]
      BY <2>3
    <3> QED BY <2>2, <3>1
  <2> QED BY <2>4
<1> HIDE DEF D
<1>4. Decodes(D, file, 0)
  BY <1>1, <1>3 DEF Decodes
<1> QED BY <1>2, <1>4

Pairs == Seq(Byte) \X Seq(Byte)

LEMMA FurtherIn ==
  ASSUME NEW file \in Seq(Byte), NEW o \in Nat, NEW D, \A x \in o + 1 .. Len(file) : D[x] \in Seq(Pairs)
  PROVE  Further(D, file, o) \in Seq(Pairs)
<1>1. CASE NameEnds(file, o) = {}
  BY <1>1 DEF Further
<1>2. CASE NameEnds(file, o) # {}
  <2> DEFINE e    == CHOOSE e \in NameEnds(file, o) : TRUE
             from == e + 1 + SizeBytes
             to   == from + (IF from <= Len(file) THEN ValueAt(file, e + 1) ELSE 0)
  <2>1. PICK z \in Nat : z = Len(file)
    BY LenProperties
  <2>2. e \in NameEnds(file, o)
    BY <1>2
  <2>3. e \in o .. z - 1
    BY <2>1, <2>2 DEF NameEnds
  <2>4. from \in Nat /\ o + 1 <= from
    BY <2>3
  <2>5. Further(D, file, o) = IF to \in from .. z
                              THEN << <<SubSeq(file, o + 1, e), SubSeq(file, from + 1, to)>> >> \o D[to] ELSE <<>>
    BY <1>2, <2>1 DEF Further
  <2> HIDE DEF to, from, e
  <2>6. ASSUME to \in from .. z PROVE Further(D, file, o) \in Seq(Pairs)
    <3>1. to \in o + 1 .. z
      BY <2>4, <2>6
    <3>2. SubSeq(file, o + 1, e) \in Seq(Byte)
      <4>1. o + 1 \in Nat \ {0} /\ e \in Int /\ e <= Len(file)
        BY <2>1, <2>3
      <4> QED BY ONLY file \in Seq(Byte), <4>1, PartOf
    <3>3. SubSeq(file, from + 1, to) \in Seq(Byte)
      <4>1. from + 1 \in Nat \ {0} /\ to \in Int /\ to <= Len(file)
        BY <2>1, <2>4, <2>6
      <4> QED BY ONLY file \in Seq(Byte), <4>1, PartOf
    <3>4. PICK p \in Pairs : p = <<SubSeq(file, o + 1, e), SubSeq(file, from + 1, to)>>
      BY <3>2, <3>3 DEF Pairs
    <3>5. PICK d \in Seq(Pairs) : d = D[to]
      BY <2>1, <3>1
    <3>6. <<p>> \o d \in Seq(Pairs)
      BY ConcatProperties
    <3> QED BY <2>5, <2>6, <3>4, <3>5, <3>6
  <2>7. ASSUME ~(to \in from .. z) PROVE Further(D, file, o) \in Seq(Pairs)
    BY <2>5, <2>7
  <2> QED BY <2>6, <2>7
<1> QED BY <1>1, <1>2

LEMMA DecodesIn ==
  ASSUME NEW file \in Seq(Byte), NEW D, Decodes(D, file, 0)
  PROVE  \A o \in 0 .. Len(file) : D[o] \in Seq(Pairs)
<1>1. PICK z \in Nat : z = Len(file)
  BY LenProperties
<1> DEFINE Bad == {y \in Nat : y <= z /\ D[z - y] \notin Seq(Pairs)}
<1>2. ASSUME Bad # {} PROVE FALSE
  <2>1. PICK k \in Bad : \A y \in Bad : k <= y
    BY <1>2, Least
  <2>2. k \in 0 .. z
    BY <2>1
  <2>3. PICK o \in Nat : o = z - k
    BY <2>2
  <2>4. ASSUME NEW x \in o + 1 .. z PROVE D[x] \in Seq(Pairs)
    <3>1. PICK y \in Nat : y = z - x
      OBVIOUS
    <3>2. y <= z /\ ~(k <= y) /\ z - y = x
      BY <2>2, <2>3, <3>1
    <3>3. y \notin Bad
      <4> HIDE DEF Bad
      <4> QED BY <2>1, <2>2, <3>1, <3>2
    <3> QED BY <3>1, <3>2, <3>3
  <2>5. o \in 0 .. Len(file)
    BY <1>1, <2>2, <2>3
  <2>6. D[o] = Further(D, file, o)
    BY <2>5 DEF Decodes
  <2>7. Further(D, file, o) \in Seq(Pairs)
    BY <1>1, <2>4, FurtherIn
  <2>8. D[z - k] \notin Seq(Pairs)
    BY <2>1
  <2> QED BY <2>3, <2>6, <2>7, <2>8
<1>3. ASSUME NEW o \in 0 .. z PROVE D[o] \in Seq(Pairs)
  <2>1. z - o \in Nat /\ z - o <= z /\ z - (z - o) = o
    OBVIOUS
  <2>2. z - o \notin Bad
    <3> HIDE DEF Bad
    <3> QED BY <1>2
  <2> QED BY <2>1, <2>2
<1> QED BY <1>1, <1>3

LEMMA FurtherObject ==
  ASSUME NEW D, NEW a \in Seq(Byte), NEW ob \in Objects, NEW b \in Seq(Byte)
  PROVE  Further(D, (a \o Enc(ob)) \o b, Len(a)) = <<ob>> \o D[Len(a) + Len(Enc(ob))]
<1>0. PICK file : file = (a \o Enc(ob)) \o b
  OBVIOUS
<1>1. PICK e \in Nat, s \in Nat, n \in Nat : Lies(file, a, ob, Len(b), e, s, n)
  BY <1>0, ObjectIn
<1>2. (CHOOSE x \in NameEnds(file, Len(a)) : TRUE) = e /\ NameEnds(file, Len(a)) # {}
  BY <1>1 DEF Lies
<1>3. s <= Len(file) /\ s + n \in s .. Len(file)
  <2>1. PICK z \in Nat : z = Len(b)
    BY LenProperties
  <2>2. Len(file) = s + n + z
    BY <1>1, <2>1 DEF Lies
  <2> QED BY <2>2
<1>4. Further(D, file, Len(a)) = << <<SubSeq(file, Len(a) + 1, e), SubSeq(file, s + 1, s + n)>> >> \o D[s + n]
  <2>1. s = e + 1 + SizeBytes /\ ValueAt(file, e + 1) = n
    BY <1>1 DEF Lies
  <2> QED BY <1>2, <1>3, <2>1 DEF Further
<1>5. <<SubSeq(file, Len(a) + 1, e), SubSeq(file, s + 1, s + n)>> = ob /\ s + n = Len(a) + Len(Enc(ob))
  <2>1. ob = <<ob[1], ob[2]>>
    BY DEF Objects
  <2> QED BY <1>1, <2>1 DEF Lies
<1> QED BY <1>0, <1>4, <1>5

-----------------------------------------------------------------------------
(* The first k objects of a file: where the next one begins.               *)
First(objs, k) == SubSeq(objs, 1, k)
Place(objs, k) == Len(File(First(objs, k)))

LEMMA FirstIs ==
  ASSUME NEW objs \in Seq(Objects), NEW k \in 0 .. Len(objs)
  PROVE  /\ First(objs, k) \in Seq(Objects) /\ Len(First(objs, k)) = k
         /\ \A i \in 1 .. k : First(objs, k)[i] = objs[i]
         /\ First(objs, 0) = <<>> /\ First(objs, Len(objs)) = objs
         /\ \A i \in 1 .. Len(objs) : Before(objs, i) = First(objs, i - 1)
<1> USE DEF First, Before
<1>1. PICK n \in Nat : n = Len(objs)
  BY LenProperties
<1>2. /\ SubSeq(objs, 1, k) \in Seq(Objects) /\ Len(SubSeq(objs, 1, k)) = k
      /\ \A i \in 1 .. k : SubSeq(objs, 1, k)[i] = objs[i]
  BY <1>1
<1>3. SubSeq(objs, 1, 0) = <<>>
  OBVIOUS
<1>4. SubSeq(objs, 1, Len(objs)) = objs
  OBVIOUS
<1> QED BY <1>1, <1>2, <1>3, <1>4

(* The k-th object lies in the file where the ones in front of it end.     *)
Splits(file, objs, k, rest) ==
  /\ file = (File(First(objs, k - 1)) \o Enc(objs[k])) \o rest
  /\ File(First(objs, k - 1)) \in Seq(Byte) /\ objs[k] \in Objects
  /\ Place(objs, k - 1) + Len(Enc(objs[k])) = Place(objs, k)
  /\ Place(objs, k - 1) \in Nat /\ Len(Enc(objs[k])) \in Nat

LEMMA Between ==
  ASSUME NEW objs \in Seq(Objects), NEW b \in Seq(Byte), NEW k \in 1 .. Len(objs)
  PROVE  \E rest \in Seq(Byte) : Splits(File(objs) \o b, objs, k, rest)
<1>0. PICK file : file = File(objs) \o b
  OBVIOUS
<1>1. /\ Before(objs, k) \in Seq(Objects) /\ After(objs, k) \in Seq(Objects) /\ objs[k] \in Objects
  BY Sides
<1>2. PICK n \in Nat : n = Len(objs) /\ k \in 1 .. n
  BY LenProperties
<1>3. Before(objs, k) = First(objs, k - 1)
  BY <1>2, FirstIs
<1>4. PICK x \in Seq(Byte), y \in Seq(Byte), v \in Seq(Byte) :
        x = File(First(objs, k - 1)) /\ y = Enc(objs[k]) /\ v = Body(After(objs, k))
  BY <1>1, <1>3, FileIn, EncLength, BodyIn
<1>5. File(objs) = (x \o y) \o v /\ File(First(objs, k)) = x \o y
  BY <1>3, <1>4, FileAround DEF First
<1>6. (x \o y) \o v \in Seq(Byte) /\ x \o y \in Seq(Byte) /\ Len(x \o y) = Len(x) + Len(y) /\ v \o b \in Seq(Byte)
  BY ConcatProperties
<1>7. file = (x \o y) \o (v \o b)
  <2>1. PICK w \in Seq(Byte) : w = x \o y
    BY <1>6
  <2>2. (w \o v) \o b = w \o (v \o b)
    BY ONLY w \in Seq(Byte), v \in Seq(Byte), b \in Seq(Byte), ConcatAssociative
  <2> QED BY <1>0, <1>5, <2>1, <2>2
<1>8. Len(x) \in Nat /\ Len(y) \in Nat
  BY LenProperties
<1> QED BY <1>0, <1>1, <1>4, <1>5, <1>6, <1>7, <1>8 DEF Place, Splits

LEMMA FurtherSplit ==
  ASSUME NEW D, NEW file, NEW objs \in Seq(Objects), NEW k, NEW rest \in Seq(Byte), Splits(file, objs, k, rest)
  PROVE  Further(D, file, Place(objs, k - 1)) = <<objs[k]>> \o D[Place(objs, k)]
<1>1. PICK a \in Seq(Byte), ob \in Objects :
        a = File(First(objs, k - 1)) /\ ob = objs[k] /\ file = (a \o Enc(ob)) \o rest
  BY DEF Splits
<1>2. Further(D, (a \o Enc(ob)) \o rest, Len(a)) = <<ob>> \o D[Len(a) + Len(Enc(ob))]
  BY FurtherObject
<1> QED BY <1>1, <1>2 DEF Place, Splits

LEMMA Shift ==
  ASSUME NEW S, NEW x \in Seq(S), NEW p \in S, NEW d \in Seq(S)
  PROVE  x \o (<<p>> \o d) = Append(x, p) \o d
<1>1. PICK q \in Seq(S) : q = <<p>>
  <2>1. <<p>> \in Seq(S)
    OBVIOUS
  <2> QED BY <2>1
<1>2. (x \o q) \o d = x \o (q \o d)
  BY ConcatAssociative
<1>3. Append(x, p) = x \o <<p>>
  BY AppendIsConcat
<1> QED BY <1>1, <1>2, <1>3

LEMMA DecodeFile ==
  ASSUME NEW objs \in Seq(Objects), NEW b \in Seq(Byte), NEW file, file = File(objs) \o b
  PROVE  \E d \in Seq(Pairs) : Decode(file) = objs \o d /\ (b = <<>> => d = <<>>)
<1>1. /\ file \in Seq(Byte) /\ Len(file) = Len(File(objs)) + Len(b) /\ Len(b) \in Nat
      /\ Len(File(objs)) \in Nat /\ Len(File(objs)) >= 2
  <2>1. File(objs) \in Seq(Byte) /\ Len(File(objs)) = 2 + Len(Body(objs)) /\ Len(Body(objs)) \in Nat
    BY FileIn
  <2>2. File(objs) \o b \in Seq(Byte) /\ Len(File(objs) \o b) = Len(File(objs)) + Len(b) /\ Len(b) \in Nat
    BY <2>1, ConcatProperties, LenProperties
  <2> QED BY <2>1, <2>2
<1>2. PICK D : Decodes(D, file, 0) /\ Decode(file) = D[2]
  <2>1. file \in Seq(Byte) /\ Len(file) >= 2
    BY <1>1
  <2> QED BY ONLY <2>1, DecodeIs
<1>3. PICK n \in Nat : n = Len(objs)
  BY LenProperties
<1>4. \A k \in 0 .. n : Place(objs, k) \in 0 .. Len(file)
  <2>1. ASSUME NEW k \in 0 .. n PROVE Place(objs, k) \in 0 .. Len(file)
    <3>1. CASE k = 0
      <4>1. Place(objs, 0) = 2
        BY <1>3, FirstIs, FileEmpty, MagicIn DEF Place
      <4> QED BY <1>1, <3>1, <4>1
    <3>2. CASE k # 0
      <4>1. k \in 1 .. Len(objs)
        BY <1>3, <3>2
      <4>2. PICK rest \in Seq(Byte) : Splits(file, objs, k, rest)
        BY <4>1, Between
      <4>3. PICK x \in Seq(Byte), y \in Seq(Byte) : x = File(First(objs, k - 1)) /\ y = Enc(objs[k])
        BY <4>2, EncLength DEF Splits
      <4>4. x \o y \in Seq(Byte) /\ Len(x \o y) = Len(x) + Len(y)
            /\ Len((x \o y) \o rest) = Len(x \o y) + Len(rest) /\ Len(rest) \in Nat
        BY ConcatProperties, LenProperties
      <4> QED BY <4>2, <4>3, <4>4 DEF Place, Splits
    <3> QED BY <3>1, <3>2
  <2> QED BY <2>1
<1>5. \A k \in 0 .. n : D[Place(objs, k)] \in Seq(Pairs)
  BY <1>1, <1>2, <1>4, DecodesIn
<1> DEFINE Bad == {k \in Nat : k <= n /\ D[2] # First(objs, k) \o D[Place(objs, k)]}
<1>6. ASSUME Bad # {} PROVE FALSE
  <2>1. PICK k \in Bad : \A y \in Bad : k <= y
    BY <1>6, Least
  <2>2. k \in 0 .. n /\ D[2] # First(objs, k) \o D[Place(objs, k)]
    BY <2>1
  <2>3. k # 0
    <3> SUFFICES ASSUME k = 0 PROVE FALSE
      OBVIOUS
    <3>1. Place(objs, 0) = 2 /\ First(objs, 0) = <<>>
      BY <1>3, FirstIs, FileEmpty, MagicIn DEF Place
    <3>2. PICK d \in Seq(Pairs) : d = D[2]
      BY <1>3, <1>5, <3>1
    <3>3. <<>> \o d = d
      BY ConcatEmptySeq
    <3> QED BY <2>2, <3>1, <3>2, <3>3
  <2>4. k - 1 \in 0 .. n /\ k - 1 < k /\ k \in 1 .. Len(objs) /\ k - 1 \in Nat
    BY <1>3, <2>2, <2>3
  <2>5. k - 1 \notin Bad
    <3> HIDE DEF Bad
    <3> QED BY <2>1, <2>2, <2>4
  <2>6. D[2] = First(objs, k - 1) \o D[Place(objs, k - 1)]
    <3>1. k - 1 \in Nat /\ k - 1 <= n
      BY <2>4
    <3> QED BY <2>5, <3>1
  <2>7. PICK rest \in Seq(Byte) : Splits(file, objs, k, rest)
    BY <2>4, Between
  <2>8. D[Place(objs, k - 1)] = <<objs[k]>> \o D[Place(objs, k)]
    <3>1. Further(D, file, Place(objs, k - 1)) = <<objs[k]>> \o D[Place(objs, k)]
      BY <2>7, FurtherSplit
    <3>2. D[Place(objs, k - 1)] = Further(D, file, Place(objs, k - 1))
      BY <1>2, <1>4, <2>4 DEF Decodes
    <3> QED BY <3>1, <3>2
  <2>9. objs[k] \in Pairs /\ First(objs, k - 1) \in Seq(Pairs)
    <3>1. Objects \subseteq Pairs
      <4>1. \A s \in Seq(Letters) : s \in Seq(Byte)
        BY SeqMonotonic DEF Letters
      <4> QED BY <4>1 DEF Objects, Pairs
    <3>2. First(objs, k - 1) \in Seq(Objects)
      BY <1>3, <2>4, FirstIs
    <3> QED BY <2>7, <3>1, <3>2, SeqMonotonic DEF Splits
  <2>10. PICK x \in Seq(Pairs), d \in Seq(Pairs), p \in Pairs :
            x = First(objs, k - 1) /\ d = D[Place(objs, k)] /\ p = objs[k]
    BY <1>5, <2>2, <2>9
  <2>11. x \o (<<p>> \o d) = Append(x, p) \o d
    <3> HIDE DEF Bad
    <3> QED BY ONLY Shift, x \in Seq(Pairs), d \in Seq(Pairs), p \in Pairs
  <2>12. Append(x, p) = First(objs, k)
    <3>1. Append(Before(objs, k), objs[k]) = SubSeq(objs, 1, k)
      BY <2>4, Sides
    <3>2. Before(objs, k) = First(objs, k - 1)
      BY <1>3, <2>4, FirstIs
    <3> QED BY <2>10, <3>1, <3>2 DEF First
  <2> QED BY <2>2, <2>6, <2>8, <2>10, <2>11, <2>12
<1>7. D[2] = First(objs, n) \o D[Place(objs, n)]
  <2>1. n \notin Bad
    <3> HIDE DEF Bad
    <3> QED BY <1>6
  <2> QED BY <2>1
<1>8. First(objs, n) = objs /\ Place(objs, n) = Len(File(objs))
  BY <1>3, FirstIs DEF Place
<1>9. ASSUME b = <<>> PROVE D[Place(objs, n)] = <<>>
  <2>1. Place(objs, n) = Len(file)
    BY <1>1, <1>8, <1>9
  <2>2. D[Len(file)] = Further(D, file, Len(file))
    BY <1>2, <1>1 DEF Decodes
  <2>3. NameEnds(file, Len(file)) = {}
    BY <1>1, TraverseEnd
  <2> QED BY <2>1, <2>2, <2>3 DEF Further
<1>10. PICK d \in Seq(Pairs) : d = D[Place(objs, n)]
  BY <1>5
<1>11. Decode(file) = objs \o d /\ (b = <<>> => d = <<>>)
  BY <1>2, <1>7, <1>8, <1>9, <1>10
<1> QED BY <1>11

LEMMA DecodeAll ==
  ASSUME NEW objs \in Seq(Objects) PROVE Decode(File(objs)) = objs
<1>1. PICK f \in Seq(Byte) : f = File(objs)
  BY FileIn
<1>2. f = f \o <<>> /\ <<>> \in Seq(Byte)
  BY ConcatEmptySeq
<1>3. PICK d \in Seq(Pairs) : Decode(f) = objs \o d /\ (<<>> = <<>> => d = <<>>)
  BY <1>1, <1>2, DecodeFile
<1>4. objs \o <<>> = objs
  BY ConcatEmptySeq
<1> QED BY <1>1, <1>3, <1>4

LEMMA DecodeNothing == Decode(<<>>) = <<>>
<1>1. Len(<<>>) < Len(Magic)
  BY MagicIn
<1> QED BY <1>1 DEF Decode

-----------------------------------------------------------------------------
(* What the walk reads of a file of objects, k of which it has passed.     *)
Passes(objs, k) ==
  [is |-> "object", name |-> objs[k + 1][1], bytes |-> Len(Enc(objs[k + 1])), next |-> Place(objs, k + 1)]

LEMMA WalkReads ==
  ASSUME NEW objs \in Seq(Objects), NEW k \in 0 .. Len(objs) - 1
  PROVE  /\ traverse_object(File(objs), Place(objs, k)) = {Passes(objs, k)}
         /\ Place(objs, k + 1) - Len(Enc(objs[k + 1])) = Place(objs, k)
         /\ Place(objs, k) \in Nat /\ Place(objs, k + 1) \in Nat /\ Len(Enc(objs[k + 1])) \in Nat
         /\ Place(objs, k + 1) <= Len(File(objs))
<1>0. PICK n \in Nat : n = Len(objs)
  BY LenProperties
<1>1. k + 1 \in 1 .. Len(objs) /\ (k + 1) - 1 = k
  BY <1>0
<1>2. <<>> \in Seq(Byte) /\ File(objs) \o <<>> = File(objs)
  <2>1. PICK f \in Seq(Byte) : f = File(objs)
    BY FileIn
  <2> QED BY <2>1, ConcatEmptySeq
<1>3. PICK rest \in Seq(Byte) : Splits(File(objs), objs, k + 1, rest)
  BY <1>1, <1>2, Between
<1>4. PICK a \in Seq(Byte), ob \in Objects, m \in Nat, q \in Nat :
        /\ a = File(First(objs, k)) /\ ob = objs[k + 1] /\ m = Place(objs, k) /\ q = Len(Enc(ob))
        /\ m + q = Place(objs, k + 1)
        /\ File(objs) = (a \o Enc(ob)) \o rest
  BY <1>1, <1>3 DEF Splits
<1>5. traverse_object(File(objs), Len(a)) = {Passing(a, ob)}
  <2>1. traverse_object((a \o Enc(ob)) \o rest, Len(a)) = {Passing(a, ob)}
    BY TraverseObject
  <2> QED BY <1>4, <2>1
<1>6. Passing(a, ob) = Passes(objs, k)
  BY <1>4 DEF Passing, Passes, Place
<1>7. m + q <= Len(File(objs))
  <2>1. PICK e \in Seq(Byte) : e = Enc(ob)
    BY EncLength
  <2>2. a \o e \in Seq(Byte) /\ Len(a \o e) = Len(a) + Len(e)
        /\ Len((a \o e) \o rest) = Len(a \o e) + Len(rest) /\ Len(rest) \in Nat
    BY ConcatProperties, LenProperties
  <2>3. Len(File(objs)) = m + q + Len(rest) /\ Len(rest) \in Nat
    BY <1>4, <2>1, <2>2 DEF Place
  <2> QED BY <2>3
<1>8. (m + q) - q = m /\ m + q \in Nat
  OBVIOUS
<1> QED BY <1>4, <1>5, <1>6, <1>7, <1>8 DEF Place

LEMMA WalkEnds ==
  ASSUME NEW objs \in Seq(Objects)
  PROVE  traverse_object(File(objs), Place(objs, Len(objs)))
           = {[is |-> "end", name |-> <<>>, bytes |-> 1, next |-> Len(File(objs))]}
<1>1. First(objs, Len(objs)) = objs
  <2>1. Len(objs) \in 0 .. Len(objs)
    BY LenProperties
  <2> QED BY <2>1, FirstIs
<1>2. File(objs) \in Seq(Byte)
  BY FileIn
<1> QED BY <1>1, <1>2, TraverseEnd DEF Place

-----------------------------------------------------------------------------
(* While nothing has gone wrong, the file left alone last is that of some  *)
(* objects; the walk stands behind the k-th of them; what is written and   *)
(* what is still to be written make up one object more.                    *)
Stored == Names \X Contents

Distinct(objs) == \A i, j \in DOMAIN objs : objs[i][1] = objs[j][1] => i = j

CommandOK ==
  \/ cmd.kind = "find" /\ cmd.name \in Patterns
  \/ cmd.kind \in {"import", "export", "delete"} /\ cmd.name \in Names

Shown(objs, k) == {n \in {objs[i][1] : i \in 1 .. k} : Occurs(cmd.name, n)}

Walked(objs, k) ==
  /\ pos = Place(objs, k)
  /\ cmd.kind # "find" => \A i \in 1 .. k : objs[i][1] # cmd.name
  /\ cmd.kind = "find" => seen = Shown(objs, k)

Holds(objs) ==
  /\ stable = File(objs) /\ Distinct(objs) /\ made /\ pc # "spin"
  /\ pc \in {"off", "menu"} => seen = {} /\ cmd.kind # "open"
  /\ pc \notin {"off", "menu"} => CommandOK
  /\ pc \in {"walk", "move", "truncate"} => \E k \in 0 .. Len(objs) : Walked(objs, k)
  /\ pc \in {"move", "truncate"} => cmd.kind = "delete" /\ size <= Len(stable)
  /\ pc = "write" => /\ cmd.kind = "import" /\ \A i \in DOMAIN objs : objs[i][1] # cmd.name
                     /\ db \o FlattenSeq(todo) = stable \o Enc(<<cmd.name, cmd.bytes>>)

Unmade   == pc = "off" /\ ~made /\ stable = <<>> /\ seen = {} /\ cmd.kind # "open"
Creating == pc = "write" /\ made /\ cmd.kind = "open" /\ stable = <<>> /\ db = <<>> /\ todo = <<Magic>>

DataOK == intact => Unmade \/ Creating \/ \E objs \in Seq(Stored) : Holds(objs)

LEMMA StoredIsFile ==
  /\ Stored \subseteq Objects
  /\ \A objs \in Seq(Stored) : objs \in Seq(Objects)
  /\ \A ob \in Stored : ob[1] \in Names /\ ob[2] \in Contents /\ ob = <<ob[1], ob[2]>>
<1>1. Stored \subseteq Objects
  <2>1. \A s \in Sources : s[1] \in Seq(Letters) /\ s[2] \in {c \in Seq(Byte) : Len(c) \in off_t}
    BY DbAssumption DEF Letters
  <2> QED BY <2>1 DEF Stored, Objects, Names, Contents
<1> QED BY <1>1, SeqMonotonic DEF Stored

LEMMA DataInit == Init => DataOK
  BY DEF Init, DataOK, Unmade, NoCommand

LEMMA DataFail ==
  ASSUME DataOK, pc # "off", Fail PROVE DataOK'
<1> SUFFICES ASSUME intact' PROVE DataOK'
  BY DEF DataOK
<1>1. intact /\ cmd.kind # "open" /\ pc' = "off" /\ seen' = {} /\ cmd'.kind # "open" /\ made' = made /\ stable' = stable
  BY DEF Fail, Idle, NoCommand
<1>2. PICK objs \in Seq(Stored) : Holds(objs)
  BY <1>1 DEF DataOK, Unmade, Creating
<1>3. Holds(objs)'
  BY <1>1, <1>2 DEF Holds
<1> QED BY <1>3 DEF DataOK

LEMMA DataFinish ==
  ASSUME intact, made, NEW objs \in Seq(Stored), Distinct(objs), db' = File(objs),
         NEW said, NEW bytes, NEW names, Finish(said, bytes, names)
  PROVE  DataOK'
<1>1. pc' = "menu" /\ seen' = {} /\ cmd'.kind # "open" /\ made' = made /\ stable' = db'
  BY DEF Finish, Idle, NoCommand
<1>2. Holds(objs)'
  BY <1>1 DEF Holds
<1> QED BY <1>2 DEF DataOK

(* What is known when a command walks over the objects of a file.          *)
LEMMA Walking ==
  ASSUME DbInv, FileOK, DataOK, intact, pc = "walk"
  PROVE  \E objs \in Seq(Stored) : \E k \in 0 .. Len(objs) :
           Holds(objs) /\ Walked(objs, k) /\ db = File(objs) /\ objs \in Seq(Objects)
<1>1. PICK objs \in Seq(Stored) : Holds(objs)
  BY DEF DataOK, Unmade, Creating
<1>2. PICK k \in 0 .. Len(objs) : Walked(objs, k)
  BY <1>1 DEF Holds
<1>3. db = File(objs)
  BY <1>1 DEF Holds, FileOK
<1> QED BY <1>1, <1>2, <1>3, StoredIsFile

(* find_object reads the objects one after the other.                      *)
LEMMA FindReads ==
  ASSUME DbInv, FileOK, DataOK, intact, find_object
  PROVE  \E objs \in Seq(Stored) :
           /\ Holds(objs) /\ objs \in Seq(Objects) /\ pc = "walk" /\ cmd.kind = "find" /\ cmd.name \in Patterns
           /\ \/ Ends("done", <<>>, seen) /\ seen = Shown(objs, Len(objs))
              \/ /\ \E k \in 0 .. Len(objs) : pos' = Place(objs, k) /\ seen' = Shown(objs, k)
                 /\ UNCHANGED <<made, db, pc, cmd, todo, moving, counts, history>>
<1>0. pc = "walk" /\ cmd.kind = "find"
  BY DEF find_object
<1>1. PICK objs \in Seq(Stored), k \in Nat :
        k \in 0 .. Len(objs) /\ Holds(objs) /\ Walked(objs, k) /\ db = File(objs) /\ objs \in Seq(Objects)
  BY <1>0, Walking, LenProperties
<1>2. pos = Place(objs, k) /\ seen = Shown(objs, k) /\ cmd.name \in Patterns
  BY <1>0, <1>1 DEF Walked, Holds, CommandOK
<1>3. PICK t \in traverse_object(db, pos) :
       \/ t.is = "end" /\ Ends("done", <<>>, seen)
       \/ t.is = "spin" /\ Spin
       \/ t.is = "error" /\ Breaks
       \/ /\ t.is = "object"
          /\ pos' = t.next
          /\ seen' = IF Occurs(cmd.name, t.name) THEN seen \cup {t.name} ELSE seen
          /\ UNCHANGED <<made, db, pc, cmd, todo, moving, counts, history>>
  BY DEF find_object
<1>4. CASE k = Len(objs)
  <2>1. t.is = "end"
    BY <1>1, <1>2, <1>3, <1>4, WalkEnds
  <2> QED BY <1>0, <1>1, <1>2, <1>3, <1>4, <2>1
<1>5. CASE k # Len(objs)
  <2>1. k \in 0 .. Len(objs) - 1 /\ k + 1 \in 0 .. Len(objs)
    BY <1>1, <1>5, LenProperties
  <2>2. t = Passes(objs, k)
    BY <1>1, <1>2, <1>3, <2>1, WalkReads
  <2>3. /\ pos' = Place(objs, k + 1)
        /\ seen' = IF Occurs(cmd.name, objs[k + 1][1]) THEN seen \cup {objs[k + 1][1]} ELSE seen
        /\ UNCHANGED <<made, db, pc, cmd, todo, moving, counts, history>>
    BY <1>3, <2>2 DEF Passes
  <2>4. 1 .. k + 1 = (1 .. k) \cup {k + 1}
    BY <2>1
  <2>5. {objs[i][1] : i \in 1 .. k + 1} = {objs[i][1] : i \in 1 .. k} \cup {objs[k + 1][1]}
    BY <2>4
  <2>6. seen' = Shown(objs, k + 1)
    BY <1>2, <2>3, <2>5 DEF Shown
  <2> QED BY <1>0, <1>1, <1>2, <2>1, <2>3, <2>6
<1> QED BY <1>4, <1>5

(* locate_object reads the objects one after the other.                    *)
Located(objs, j) ==
  /\ objs \in Seq(Stored) /\ objs \in Seq(Objects) /\ Holds(objs) /\ db = File(objs)
  /\ j \in 1 .. Len(objs) /\ objs[j][1] = cmd.name /\ pos = Place(objs, j - 1) /\ pc = "walk"
  /\ cmd.kind \in {"import", "export", "delete"} /\ cmd.name \in Names
  /\ Walked(objs, j - 1)

LEMMA LocateReads ==
  ASSUME DbInv, FileOK, DataOK, intact, locate_object
  PROVE  \E objs \in Seq(Stored) :
           /\ Holds(objs) /\ objs \in Seq(Objects) /\ db = File(objs) /\ pc = "walk"
           /\ cmd.kind \in {"import", "export", "delete"} /\ cmd.name \in Names
           /\ \/ NotFound /\ \A i \in DOMAIN objs : objs[i][1] # cmd.name
              \/ \E j \in 1 .. Len(objs) : Located(objs, j) /\ Found(Place(objs, j - 1))
              \/ /\ \E k \in 0 .. Len(objs) : pos' = Place(objs, k) /\ \A i \in 1 .. k : objs[i][1] # cmd.name
                 /\ UNCHANGED <<made, db, pc, cmd, seen, todo, moving, counts, history>>
<1>0. pc = "walk" /\ cmd.kind # "find"
  BY DEF locate_object
<1>1. PICK objs \in Seq(Stored), k \in Nat :
        k \in 0 .. Len(objs) /\ Holds(objs) /\ Walked(objs, k) /\ db = File(objs) /\ objs \in Seq(Objects)
  BY <1>0, Walking, LenProperties
<1>2. /\ pos = Place(objs, k) /\ cmd.kind \in {"import", "export", "delete"} /\ cmd.name \in Names
      /\ \A i \in 1 .. k : objs[i][1] # cmd.name
  BY <1>0, <1>1 DEF Walked, Holds, CommandOK
<1>3. PICK t \in traverse_object(db, pos) :
       \/ t.is = "end" /\ NotFound
       \/ t.is = "spin" /\ Spin
       \/ t.is = "error" /\ Breaks
       \/ t.is = "object" /\ t.name = cmd.name /\ Found(t.next - t.bytes)
       \/ /\ t.is = "object" /\ t.name # cmd.name
          /\ pos' = t.next
          /\ UNCHANGED <<made, db, pc, cmd, seen, todo, moving, counts, history>>
  BY DEF locate_object, SameName
<1>4. CASE k = Len(objs)
  <2>1. t.is = "end"
    BY <1>1, <1>2, <1>3, <1>4, WalkEnds
  <2>2. NotFound
    BY <1>3, <2>1
  <2>3. DOMAIN objs = 1 .. k
    BY <1>4, LenProperties
  <2> QED BY <1>0, <1>1, <1>2, <2>2, <2>3
<1>5. CASE k # Len(objs)
  <2>1. k \in 0 .. Len(objs) - 1 /\ k + 1 \in 0 .. Len(objs) /\ k + 1 \in 1 .. Len(objs) /\ (k + 1) - 1 = k
    BY <1>1, <1>5, LenProperties
  <2>2. t = Passes(objs, k) /\ Place(objs, k + 1) - Len(Enc(objs[k + 1])) = Place(objs, k)
    BY <1>1, <1>2, <1>3, <2>1, WalkReads
  <2>3. t.is = "object" /\ t.name = objs[k + 1][1] /\ t.next = Place(objs, k + 1) /\ t.next - t.bytes = Place(objs, k)
    BY <2>2 DEF Passes
  <2>4. CASE objs[k + 1][1] = cmd.name
    <3>1. Found(Place(objs, k))
      BY <1>3, <2>3, <2>4
    <3>2. Located(objs, k + 1)
      BY <1>0, <1>1, <1>2, <2>1, <2>4 DEF Located
    <3> QED BY <1>0, <1>1, <1>2, <2>1, <3>1, <3>2
  <2>5. CASE objs[k + 1][1] # cmd.name
    <3>1. pos' = Place(objs, k + 1) /\ UNCHANGED <<made, db, pc, cmd, seen, todo, moving, counts, history>>
      BY <1>3, <2>3, <2>5
    <3>2. 1 .. k + 1 = (1 .. k) \cup {k + 1}
      BY <2>1
    <3>3. \A i \in 1 .. k + 1 : objs[i][1] # cmd.name
      BY <1>2, <2>5, <3>2
    <3> QED BY <1>0, <1>1, <1>2, <2>1, <3>1, <3>3
  <2> QED BY <2>4, <2>5
<1> QED BY <1>4, <1>5

LEMMA ExportReads ==
  ASSUME NEW objs, NEW j, Located(objs, j), export_object(Place(objs, j - 1))
  PROVE  Ends("exists", <<>>, {}) \/ Ends("done", objs[j][2], {})
<1>1. objs \in Seq(Objects) /\ db = File(objs) /\ j \in 1 .. Len(objs) /\ objs[j][1] = cmd.name
  BY DEF Located
<1>2. PICK rest \in Seq(Byte) : Splits(File(objs), objs, j, rest)
  <2>1. <<>> \in Seq(Byte) /\ File(objs) \o <<>> = File(objs)
    <3>1. PICK f \in Seq(Byte) : f = File(objs)
      BY <1>1, FileIn
    <3> QED BY <3>1, ConcatEmptySeq
  <2> QED BY <1>1, <2>1, Between
<1>3. PICK a \in Seq(Byte), ob \in Objects :
        /\ a = File(First(objs, j - 1)) /\ ob = objs[j] /\ db = (a \o Enc(ob)) \o rest
                                            /\ Len(a) = Place(objs, j - 1)
  BY <1>1, <1>2 DEF Splits, Place
<1>4. PICK e \in Nat, s \in Nat, n \in Nat : Lies(db, a, ob, Len(rest), e, s, n)
  BY <1>3, ObjectIn
<1>5. PICK z \in Nat : z = Len(rest)
  BY LenProperties
<1>6. Place(objs, j - 1) + Len(cmd.name) + 1 = e + 1
  BY <1>1, <1>3, <1>4 DEF Lies
<1>7. /\ safe_read(db, e + 1, SizeBytes) = "read" /\ e + 1 + SizeBytes = s /\ SizesAt(db, e + 1) = {n}
      /\ Len(db) = s + n + z /\ SubSeq(db, s + 1, s + n) = ob[2]
  BY <1>4, <1>5 DEF Lies, SizesAt
<1>8. ~TransferSpins(db, s, n)
  <2>1. Len(db) - s \notin 1 .. n - 1
    BY <1>5, <1>7
  <2> QED BY <2>1 DEF TransferSpins
<1>9. s + n <= Len(db) /\ Min({s + n, Len(db)}) = s + n
  BY <1>5, <1>7, MinOfTwo
<1> DEFINE o    == Place(objs, j - 1) + Len(cmd.name) + 1
           from == IF safe_read(db, o, SizeBytes) = "read" THEN o + SizeBytes ELSE o
<1>10. \/ Ends("exists", <<>>, {})
       \/ safe_read(db, o, SizeBytes) = "spin" /\ Spin
       \/ \E q \in SizesAt(db, o) :
          IF TransferSpins(db, from, q) THEN Spin
          ELSE Ends(IF from + q <= Len(db) THEN "done" ELSE "garbage",
                    SubSeq(db, from + 1, Min({from + q, Len(db)})), {})
  BY DEF export_object
<1>11. o = e + 1 /\ from = s
  BY <1>6, <1>7
<1> HIDE DEF o, from
<1>12. \/ Ends("exists", <<>>, {})
       \/ Ends(IF s + n <= Len(db) THEN "done" ELSE "garbage", SubSeq(db, s + 1, Min({s + n, Len(db)})), {})
  BY <1>7, <1>8, <1>10, <1>11
<1> QED BY <1>3, <1>7, <1>9, <1>12

LEMMA DeleteReads ==
  ASSUME NEW objs, NEW j, Located(objs, j), delete_object(Place(objs, j - 1))
  PROVE  /\ pc' \in {"move", "truncate"} /\ size' <= Len(db)
         /\ UNCHANGED <<made, db, cmd, walk, todo, counts, history>>
<1>1. objs \in Seq(Objects) /\ db = File(objs) /\ j \in 1 .. Len(objs)
  BY DEF Located
<1>2. j - 1 \in 0 .. Len(objs) - 1 /\ (j - 1) + 1 = j
  BY <1>1, LenProperties
<1>3. PICK p \in Nat, q \in Nat : /\ p = Place(objs, j) /\ q = Len(Enc(objs[j])) /\ Place(objs, j - 1) = p - q /\ p >= q
                                /\ q <= Len(db)
  <2>1. /\ Place(objs, (j - 1) + 1) - Len(Enc(objs[(j - 1) + 1])) = Place(objs, j - 1)
        /\ Place(objs, j - 1) \in Nat /\ Place(objs, (j - 1) + 1) \in Nat /\ Len(Enc(objs[(j - 1) + 1])) \in Nat
        /\ Place(objs, (j - 1) + 1) <= Len(File(objs))
    BY <1>1, <1>2, WalkReads
  <2>2. PICK z \in Nat : z = Len(db)
    <3>1. File(objs) \in Seq(Byte)
      BY <1>1, FileIn
    <3> QED BY <1>1, <3>1, LenProperties
  <2> QED BY <1>1, <1>2, <2>1, <2>2
<1>4. PICK t \in traverse_object(db, Place(objs, j - 1)) :
        \/ t.is = "spin" /\ Spin
        \/ t.is = "error" /\ Breaks
        \/ t.is \in {"end", "object"} /\ t.next < Len(db) /\ t.next < t.bytes /\ Breaks
        \/ /\ t.is \in {"end", "object"} /\ (t.next >= Len(db) \/ t.next >= t.bytes)
           /\ DeleteMoves(t) /\ size' = t.bytes
           /\ UNCHANGED <<made, db, cmd, walk, todo, counts, history>>
  BY DEF delete_object
<1>5. t = Passes(objs, j - 1)
  BY <1>1, <1>2, <1>4, WalkReads
<1>6. t.is = "object" /\ t.next = p /\ t.bytes = q
  BY <1>2, <1>3, <1>5 DEF Passes
<1>7. DeleteMoves(t) /\ size' = t.bytes /\ UNCHANGED <<made, db, cmd, walk, todo, counts, history>>
  <2>1. ~(t.next < t.bytes)
    BY <1>3, <1>6
  <2> QED BY <1>4, <1>6, <2>1
<1> QED BY <1>3, <1>6, <1>7 DEF DeleteMoves

-----------------------------------------------------------------------------
LEMMA FlatHead ==
  ASSUME NEW s \in Seq(Seq(Byte)), s # <<>>
  PROVE  /\ FlattenSeq(s) = Head(s) \o FlattenSeq(Tail(s)) /\ Head(s) \in Seq(Byte)
         /\ FlattenSeq(Tail(s)) \in Seq(Byte) /\ Tail(s) \in Seq(Seq(Byte)) /\ (Len(s) = 1 => Tail(s) = <<>>)
<1>1. /\ Head(s) \in Seq(Byte) /\ Tail(s) \in Seq(Seq(Byte)) /\ Len(Tail(s)) = Len(s) - 1
      /\ \A i \in 1 .. Len(Tail(s)) : Tail(s)[i] = s[i + 1]
  BY HeadTailProperties
<1>2. PICK n \in Nat : n = Len(s)
  BY LenProperties
<1>3. n # 0
  BY <1>2, EmptySeq
<1>4. PICK h \in Seq(Seq(Byte)), t \in Seq(Seq(Byte)) :
        /\ h = <<Head(s)>> /\ t = Tail(s) /\ Len(h) = 1 /\ h[1] = s[1] /\ Len(t) = n - 1
        /\ \A i \in 1 .. n - 1 : t[i] = s[i + 1]
  <2>1. <<Head(s)>> \in Seq(Seq(Byte)) /\ Len(<<Head(s)>>) = 1 /\ <<Head(s)>>[1] = s[1]
    BY <1>1
  <2> QED BY <1>1, <1>2, <2>1
<1>5. PICK c \in Seq(Seq(Byte)) : /\ c = h \o t /\ Len(c) = n
                                  /\ \A i \in 1 .. n : c[i] = IF i <= 1 THEN h[i] ELSE t[i - 1]
  <2>1. /\ h \o t \in Seq(Seq(Byte)) /\ Len(h \o t) = Len(h) + Len(t)
        /\ \A i \in 1 .. Len(h) + Len(t) : (h \o t)[i] = IF i <= Len(h) THEN h[i] ELSE t[i - Len(h)]
    BY ConcatProperties
  <2>2. 1 + (n - 1) = n
    BY <1>3
  <2>3. PICK c : c = h \o t
    OBVIOUS
  <2>4. c \in Seq(Seq(Byte)) /\ Len(c) = n /\ \A i \in 1 .. n : c[i] = IF i <= 1 THEN h[i] ELSE t[i - 1]
    BY ONLY <1>4, <2>1, <2>2, <2>3
  <2> QED BY ONLY <2>3, <2>4
<1>6. ASSUME NEW i \in 1 .. n PROVE c[i] = s[i]
  <2>1. CASE i <= 1
    <3>1. i = 1
      BY <2>1
    <3> QED BY <1>4, <1>5, <3>1
  <2>2. CASE ~(i <= 1)
    <3>1. i - 1 \in 1 .. n - 1 /\ (i - 1) + 1 = i
      BY <2>2
    <3> QED BY <1>4, <1>5, <2>2, <3>1
  <2> QED BY <2>1, <2>2
<1>7. c = s
  BY <1>2, <1>5, <1>6, SeqEqual
<1>8. FlattenSeq(h \o t) = FlattenSeq(h) \o FlattenSeq(t)
  BY FlatConcat
<1>9. FlattenSeq(h) = Head(s)
  BY <1>1, <1>4, FlatOne
<1>10. FlattenSeq(t) \in Seq(Byte)
  BY FlatInSeq
<1>11. Len(s) = 1 => t = <<>>
  <2>1. Len(s) = 1 => Len(t) = 0
    BY <1>2, <1>4
  <2> QED BY <2>1, EmptySeq
<1> QED BY <1>1, <1>4, <1>5, <1>7, <1>8, <1>9, <1>10, <1>11

(* Without its middle a file is what was in front and what was behind.     *)
LEMMA CutOut ==
  ASSUME NEW x \in Seq(Byte), NEW y \in Seq(Byte), NEW v \in Seq(Byte)
  PROVE  Cut((x \o y) \o v, Len(x), Len(y)) = x \o v
<1>1. PICK m \in Nat, n \in Nat, z \in Nat, d \in Nat : m = Len(x) /\ n = Len(y) /\ z = Len(v) /\ d = m + n
  BY LenProperties
<1>2. PICK w \in Seq(Byte) : w = x \o y /\ Follows(w, x, y, m, n)
  <2>1. Follows(x \o y, x, y, m, n)
    BY <1>1, Joint
  <2> QED BY <2>1 DEF Follows
<1>3. Len(w) = d
  BY <1>1, <1>2 DEF Follows
<1>4. PICK f \in Seq(Byte) : f = w \o v /\ Follows(f, w, v, d, z)
  <2>1. Follows(w \o v, w, v, d, z)
    BY <1>1, <1>3, Joint
  <2> QED BY <2>1 DEF Follows
<1>5. SubSeq(f, 1, m) = x
  <2>1. m <= Len(f)
    BY <1>1, <1>4 DEF Follows
  <2>2. PICK g \in Seq(Byte) : g = SubSeq(f, 1, m) /\ Len(g) = m /\ \A i \in 1 .. m : g[i] = f[i]
    BY <2>1, FrontOf
  <2>3. ASSUME NEW i \in 1 .. m PROVE g[i] = x[i]
    <3>1. i \in 1 .. d
      BY <1>1
    <3> QED BY <1>2, <1>4, <2>2, <3>1 DEF Follows
  <2> QED BY <1>1, <2>2, <2>3, SameBytes
<1>6. SubSeq(f, d + 1, d + z) = v
  <2>1. PICK l \in Nat : l = d + z /\ l = Len(f) /\ d <= l /\ l - d = z
    BY <1>4 DEF Follows
  <2>2. PICK g \in Seq(Byte) : g = SubSeq(f, d + 1, l) /\ Len(g) = z /\ \A i \in 1 .. z : g[i] = f[d + i]
    <3>1. /\ SubSeq(f, d + 1, l) \in Seq(Byte) /\ Len(SubSeq(f, d + 1, l)) = l - d
          /\ \A i \in 1 .. l - d : SubSeq(f, d + 1, l)[i] = f[d + i]
      BY ONLY f \in Seq(Byte), d \in Nat, l \in Nat, <2>1, RestOf
    <3> QED BY ONLY <2>1, <3>1
  <2>3. \A i \in 1 .. z : g[i] = v[i]
    BY <1>4, <2>2 DEF Follows
  <2> QED BY <1>1, <2>1, <2>2, <2>3, SameBytes
<1>7. Len(f) = d + z
  BY <1>4 DEF Follows
<1> QED BY <1>1, <1>2, <1>4, <1>5, <1>6, <1>7 DEF Cut

(* The object a delete has found is the one with the name, and without its *)
(* bytes the file is that of the other objects.                            *)
LEMMA CutObject ==
  ASSUME DataOK, intact, pc \in {"move", "truncate"}, NEW p, NEW n, Traversed(p, n)
  PROVE  \E objs \in Seq(Stored) : \E j \in 1 .. Len(objs) :
           /\ Holds(objs) /\ objs[j][1] = cmd.name /\ p = Place(objs, j - 1) /\ n = Len(Enc(objs[j]))
           /\ Cut(stable, p, n) = File(RemoveAt(objs, j)) /\ objs \in Seq(Objects)
<1>1. PICK objs \in Seq(Stored) : Holds(objs)
  BY DEF DataOK, Unmade, Creating
<1>2. stable = File(objs) /\ \E k \in 0 .. Len(objs) : Walked(objs, k)
  BY <1>1 DEF Holds
<1>3. PICK k \in 0 .. Len(objs) : pos = Place(objs, k)
  BY <1>2 DEF Walked
<1>4. objs \in Seq(Objects)
  BY StoredIsFile
<1>5. PICK t \in traverse_object(stable, pos) :
        /\ t.is = "object" /\ t.name = cmd.name
        /\ \E u \in traverse_object(stable, t.next - t.bytes) :
             u.bytes = n /\ p = Min({u.next, Len(stable)}) - n
  BY DEF Traversed
<1>6. k # Len(objs)
  <2> SUFFICES ASSUME k = Len(objs) PROVE FALSE
    OBVIOUS
  <2>1. t.is = "end"
    BY <1>2, <1>3, <1>4, <1>5, WalkEnds
  <2> QED BY <1>5, <2>1
<1>7. k \in 0 .. Len(objs) - 1 /\ k + 1 \in 1 .. Len(objs) /\ (k + 1) - 1 = k
  BY <1>4, <1>6, LenProperties
<1>8. t = Passes(objs, k)
  BY <1>2, <1>3, <1>4, <1>5, <1>7, WalkReads
<1>9. PICK a \in Nat, m \in Nat : /\ a = Place(objs, k) /\ m = Len(Enc(objs[k + 1])) /\ Place(objs, k + 1) = a + m
                                  /\ a + m <= Len(File(objs))
  <2>1. /\ Place(objs, k + 1) - Len(Enc(objs[k + 1])) = Place(objs, k)
        /\ Place(objs, k) \in Nat /\ Place(objs, k + 1) \in Nat /\ Len(Enc(objs[k + 1])) \in Nat
        /\ Place(objs, k + 1) <= Len(File(objs))
    BY <1>4, <1>7, WalkReads
  <2> QED BY <2>1
<1>10. objs[k + 1][1] = cmd.name /\ t.next - t.bytes = a
  BY <1>5, <1>8, <1>9 DEF Passes
<1>11. n = m /\ p = a
  <2>1. PICK u \in traverse_object(stable, a) : u.bytes = n /\ p = Min({u.next, Len(stable)}) - n
    BY <1>5, <1>10
  <2>2. u = Passes(objs, k)
    BY <1>2, <1>4, <1>7, <1>9, <2>1, WalkReads
  <2>3. u.bytes = m /\ u.next = a + m
    BY <1>9, <2>2 DEF Passes
  <2>4. PICK z \in Nat : z = Len(File(objs))
    <3>1. File(objs) \in Seq(Byte)
      BY <1>4, FileIn
    <3> QED BY <3>1, LenProperties
  <2>5. Min({a + m, z}) = a + m
    BY <1>9, <2>4, MinOfTwo
  <2> QED BY <1>2, <2>1, <2>3, <2>4, <2>5
<1>12. PICK j \in 1 .. Len(objs) : j = k + 1
  BY <1>7
<1>13. Cut(File(objs), Place(objs, j - 1), Len(Enc(objs[j]))) = File(RemoveAt(objs, j))
  <2>1. /\ Before(objs, j) \in Seq(Objects) /\ After(objs, j) \in Seq(Objects) /\ objs[j] \in Objects
    BY <1>4, Sides
  <2>2. PICK x \in Seq(Byte), y \in Seq(Byte), v \in Seq(Byte) :
          x = File(Before(objs, j)) /\ y = Enc(objs[j]) /\ v = Body(After(objs, j))
    BY <2>1, FileIn, EncLength, BodyIn
  <2>3. File(objs) = (x \o y) \o v /\ File(RemoveAt(objs, j)) = x \o v
    BY <1>4, <2>2, FileAround
  <2>4. Cut((x \o y) \o v, Len(x), Len(y)) = x \o v
    BY CutOut
  <2>5. Place(objs, j - 1) = Len(x)
    <3>1. k \in 0 .. Len(objs)
      OBVIOUS
    <3>2. Before(objs, j) = First(objs, j - 1)
      BY <1>4, <3>1, FirstIs
    <3> QED BY <2>2, <3>2 DEF Place
  <2> QED BY <2>2, <2>3, <2>4, <2>5
<1> QED BY <1>1, <1>2, <1>4, <1>7, <1>9, <1>10, <1>11, <1>12, <1>13

LEMMA RemovedIs ==
  ASSUME NEW S, NEW s \in Seq(S), NEW j \in 1 .. Len(s), NEW n \in Nat, n = Len(s)
  PROVE  /\ RemoveAt(s, j) \in Seq(S) /\ Len(RemoveAt(s, j)) = n - 1
         /\ \A i \in 1 .. n - 1 : RemoveAt(s, j)[i] = s[IF i < j THEN i ELSE i + 1]
<1>1. PICK a \in Nat, b \in Nat \ {0} : a = j - 1 /\ b = j + 1 /\ a <= n
  OBVIOUS
<1>2. PICK x \in Seq(S) : x = SubSeq(s, 1, a) /\ Len(x) = a /\ \A i \in 1 .. a : x[i] = s[i]
  <2>1. PICK o \in Nat \ {0} : o = 1
    OBVIOUS
  <2>2. /\ SubSeq(s, o, a) \in Seq(S) /\ Len(SubSeq(s, o, a)) = IF o <= a THEN a - o + 1 ELSE 0
        /\ \A i \in 1 .. a - o + 1 : SubSeq(s, o, a)[i] = s[o + i - 1]
    <3>1. a \in Int /\ a <= Len(s)
      BY <1>1
    <3> QED BY ONLY s \in Seq(S), o \in Nat \ {0}, <3>1, PartOf
  <2>3. PICK x : x = SubSeq(s, o, a)
    OBVIOUS
  <2>4. x \in Seq(S) /\ Len(x) = a /\ \A i \in 1 .. a : x[i] = s[i]
    BY ONLY a \in Nat, <2>1, <2>2, <2>3
  <2> QED BY <2>1, <2>3, <2>4
<1>3. PICK y \in Seq(S) : y = SubSeq(s, b, n) /\ Len(y) = n - j /\ \A i \in 1 .. n - j : y[i] = s[j + i]
  <2>2. /\ SubSeq(s, b, n) \in Seq(S) /\ Len(SubSeq(s, b, n)) = IF b <= n THEN n - b + 1 ELSE 0
        /\ \A i \in 1 .. n - b + 1 : SubSeq(s, b, n)[i] = s[b + i - 1]
    <3>1. n \in Int /\ n <= Len(s)
      BY <1>1
    <3> QED BY ONLY s \in Seq(S), b \in Nat \ {0}, <3>1, PartOf
  <2>3. PICK y : y = SubSeq(s, b, n)
    OBVIOUS
  <2>4. y \in Seq(S) /\ Len(y) = n - j /\ \A i \in 1 .. n - j : y[i] = s[j + i]
    BY ONLY n \in Nat, j \in 1 .. Len(s), n = Len(s), <1>1, <2>2, <2>3
  <2> QED BY <2>3, <2>4
<1>4. /\ x \o y \in Seq(S) /\ Len(x \o y) = Len(x) + Len(y)
      /\ \A i \in 1 .. Len(x) + Len(y) : (x \o y)[i] = IF i <= Len(x) THEN x[i] ELSE y[i - Len(x)]
  BY ConcatProperties
<1>5. PICK c \in Seq(S) : c = x \o y /\ Len(c) = n - 1 /\ \A i \in 1 .. n - 1 : c[i] = IF i <= a THEN x[i] ELSE y[i - a]
  <2>1. a + (n - j) = n - 1
    BY <1>1
  <2>2. PICK c : c = x \o y
    OBVIOUS
  <2>3. c \in Seq(S) /\ Len(c) = n - 1 /\ \A i \in 1 .. n - 1 : c[i] = IF i <= a THEN x[i] ELSE y[i - a]
    BY ONLY <1>2, <1>3, <1>4, <2>1, <2>2
  <2> QED BY ONLY <2>2, <2>3
<1>6. ASSUME NEW i \in 1 .. n - 1 PROVE c[i] = s[IF i < j THEN i ELSE i + 1]
  <2>1. CASE i < j
    <3>1. i <= a /\ i \in 1 .. a
      BY <1>1, <2>1
    <3> QED BY <1>2, <1>5, <2>1, <3>1
  <2>2. CASE ~(i < j)
    <3>1. ~(i <= a) /\ i - a \in 1 .. n - j /\ j + (i - a) = i + 1
      BY <1>1, <2>2
    <3> QED BY <1>3, <1>5, <2>2, <3>1
  <2> QED BY <2>1, <2>2
<1>7. RemoveAt(s, j) = c
  BY <1>1, <1>2, <1>3, <1>5 DEF RemoveAt
<1> QED BY <1>5, <1>6, <1>7

LEMMA DistinctRemoved ==
  ASSUME NEW objs \in Seq(Stored), Distinct(objs), NEW j \in 1 .. Len(objs)
  PROVE  RemoveAt(objs, j) \in Seq(Stored) /\ Distinct(RemoveAt(objs, j))
<1>1. PICK n \in Nat : n = Len(objs) /\ DOMAIN objs = 1 .. n
  BY LenProperties
<1>2. PICK c \in Seq(Stored) : /\ c = RemoveAt(objs, j) /\ Len(c) = n - 1
                               /\ \A i \in 1 .. n - 1 : c[i] = objs[IF i < j THEN i ELSE i + 1]
  <2>1. /\ RemoveAt(objs, j) \in Seq(Stored) /\ Len(RemoveAt(objs, j)) = n - 1
        /\ \A i \in 1 .. n - 1 : RemoveAt(objs, j)[i] = objs[IF i < j THEN i ELSE i + 1]
    BY ONLY <1>1, RemovedIs, objs \in Seq(Stored), n \in Nat, j \in 1 .. Len(objs)
  <2> QED BY ONLY <2>1
<1>3. DOMAIN c = 1 .. n - 1
  BY <1>2, LenProperties
<1>4. ASSUME NEW i \in 1 .. n - 1, NEW k \in 1 .. n - 1, c[i][1] = c[k][1] PROVE i = k
  <2>1. PICK a \in 1 .. n, b \in 1 .. n : a = (IF i < j THEN i ELSE i + 1) /\ b = IF k < j THEN k ELSE k + 1
    OBVIOUS
  <2>2. objs[a][1] = objs[b][1]
    BY <1>2, <1>4, <2>1
  <2>3. a = b
    BY <1>1, <2>2 DEF Distinct
  <2> QED BY <2>1, <2>3
<1> QED BY <1>2, <1>3, <1>4 DEF Distinct

LEMMA DistinctAppended ==
  ASSUME NEW objs \in Seq(Stored), Distinct(objs), NEW ob \in Stored, \A i \in DOMAIN objs : objs[i][1] # ob[1]
  PROVE  Append(objs, ob) \in Seq(Stored) /\ Distinct(Append(objs, ob))
<1>1. PICK n \in Nat : n = Len(objs) /\ DOMAIN objs = 1 .. n
  BY LenProperties
<1>2. PICK c \in Seq(Stored) : /\ c = Append(objs, ob) /\ Len(c) = n + 1 /\ DOMAIN c = 1 .. n + 1
                               /\ c[n + 1] = ob /\ \A i \in 1 .. n : c[i] = objs[i]
  <2>1. Append(objs, ob) \in Seq(Stored)
    OBVIOUS
  <2>2. /\ Len(Append(objs, ob)) = Len(objs) + 1 /\ Append(objs, ob)[Len(objs) + 1] = ob
        /\ \A i \in 1 .. Len(objs) : Append(objs, ob)[i] = objs[i]
    OBVIOUS
  <2> QED BY <1>1, <2>1, <2>2, LenProperties
<1>3. ASSUME NEW i \in 1 .. n + 1, NEW k \in 1 .. n + 1, c[i][1] = c[k][1] PROVE i = k
  <2>1. CASE i \in 1 .. n /\ k \in 1 .. n
    BY <1>1, <1>2, <1>3, <2>1 DEF Distinct
  <2>2. CASE i = n + 1 /\ k \in 1 .. n
    BY <1>1, <1>2, <1>3, <2>2
  <2>3. CASE i \in 1 .. n /\ k = n + 1
    BY <1>1, <1>2, <1>3, <2>3
  <2>4. CASE i = n + 1 /\ k = n + 1
    BY <2>4
  <2> QED BY <2>1, <2>2, <2>3, <2>4
<1> QED BY <1>2, <1>3 DEF Distinct

-----------------------------------------------------------------------------
(* The steps.                                                              *)
LEMMA DataOpen == ASSUME DbInv, FileOK, DataOK, open_database_file PROVE DataOK'
<1> SUFFICES ASSUME intact' PROVE DataOK'
  BY DEF DataOK
<1>1. pc = "off" /\ UNCHANGED <<db, seen, stable, intact>>
  BY DEF open_database_file, Spin, walk, history
<1>2. CASE Unmade
  <2>1. stable = <<>> /\ db = <<>> /\ ~made
    BY <1>1, <1>2 DEF Unmade, FileOK
  <2>2. made' /\ pc' = "write" /\ todo' = <<Magic>> /\ cmd'.kind = "open"
    BY <2>1 DEF open_database_file, NoCommand
  <2>3. Creating'
    BY <1>1, <2>1, <2>2 DEF Creating
  <2> QED BY <2>3 DEF DataOK
<1>3. CASE \E objs \in Seq(Stored) : Holds(objs)
  <2>1. PICK objs \in Seq(Stored) : Holds(objs)
    BY <1>3
  <2>2. db = File(objs) /\ made
    BY <1>1, <2>1 DEF Holds, FileOK
  <2>3. PICK z \in Nat : z = Len(db) /\ z >= 2
    <3>1. Len(File(objs)) = 2 + Len(Body(objs)) /\ Len(Body(objs)) \in Nat
      BY StoredIsFile, FileIn
    <3> QED BY <2>2, <3>1
  <2>4. safe_read(db, 0, Len(Magic)) = "read"
    BY <2>3, MagicIn DEF safe_read
  <2>5. pc' \in {"off", "menu"} /\ made' /\ cmd' = cmd
    BY <1>1, <2>2, <2>4 DEF open_database_file
  <2>6. Holds(objs)'
    BY <1>1, <2>1, <2>5 DEF Holds
  <2> QED BY <2>6 DEF DataOK
<1> QED BY <1>1, <1>2, <1>3 DEF DataOK, Creating

LEMMA PlaceFirst == ASSUME NEW objs \in Seq(Objects) PROVE Place(objs, 0) = Len(Magic) /\ 0 \in 0 .. Len(objs)
<1>1. 0 \in 0 .. Len(objs)
  BY LenProperties
<1>2. First(objs, 0) = <<>>
  BY <1>1, FirstIs
<1> QED BY <1>1, <1>2, FileEmpty DEF Place

LEMMA DataMenu == ASSUME DataOK, Commands \/ Quit PROVE DataOK'
<1> SUFFICES ASSUME intact' PROVE DataOK'
  BY DEF DataOK
<1>1. pc = "menu" /\ UNCHANGED <<made, seen, stable, intact>>
  BY DEF Commands, Command, Quit, walk, history
<1>2. PICK objs \in Seq(Stored) : Holds(objs)
  BY <1>1 DEF DataOK, Unmade, Creating
<1>3. CASE Quit
  <2>1. pc' = "off" /\ cmd' = cmd
    BY <1>3 DEF Quit
  <2>2. Holds(objs)'
    BY <1>1, <1>2, <2>1 DEF Holds
  <2> QED BY <2>2 DEF DataOK
<1>4. CASE Commands
  <2>1. pc' = "walk" /\ pos' = Len(Magic)
    BY <1>4 DEF Commands, Command
  <2>2. CommandOK'
    <3>1. ASSUME NEW f \in Sources, Command("import", f[1], f[2]) PROVE CommandOK'
      BY <3>1 DEF Command, CommandOK, Names
    <3>2. ASSUME NEW n \in Names, Command("export", n, <<>>) \/ Command("delete", n, <<>>) PROVE CommandOK'
      BY <3>2 DEF Command, CommandOK
    <3>3. ASSUME NEW p \in Patterns, Command("find", p, <<>>) PROVE CommandOK'
      BY <3>3 DEF Command, CommandOK
    <3> QED BY <1>4, <3>1, <3>2, <3>3 DEF Commands
  <2>3. Walked(objs, 0)'
    <3>1. pos' = Place(objs, 0)
      BY <2>1, StoredIsFile, PlaceFirst
    <3>2. 1 .. 0 = {}
      OBVIOUS
    <3>3. seen' = {}
      BY <1>1, <1>2 DEF Holds
    <3> QED BY <3>1, <3>2, <3>3 DEF Walked, Shown
  <2>4. \E k \in 0 .. Len(objs) : Walked(objs, k)'
    BY <2>3, StoredIsFile, PlaceFirst
  <2>5. Holds(objs)'
    BY <1>1, <1>2, <2>1, <2>2, <2>4 DEF Holds
  <2> QED BY <2>5 DEF DataOK
<1> QED BY <1>3, <1>4

LEMMA DataEnds ==
  ASSUME FileOK, NEW objs \in Seq(Stored), Holds(objs), intact, pc = "walk",
         NEW said, NEW bytes, NEW names, Ends(said, bytes, names)
  PROVE  DataOK'
<1>1. db = File(objs) /\ db' = db /\ Finish(said, bytes, names)
  BY DEF Holds, FileOK, Ends
<1> QED BY <1>1, DataFinish DEF Holds

LEMMA DataFind == ASSUME DbInv, FileOK, DataOK, find_object PROVE DataOK'
<1> SUFFICES ASSUME intact' PROVE DataOK'
  BY DEF DataOK
<1>0. intact
  BY DEF find_object, Ends, Finish, Spin, Breaks, Fail, history
<1>1. PICK objs \in Seq(Stored) :
        /\ Holds(objs) /\ pc = "walk" /\ cmd.kind = "find" /\ cmd.name \in Patterns
        /\ \/ Ends("done", <<>>, seen)
           \/ /\ \E k \in 0 .. Len(objs) : pos' = Place(objs, k) /\ seen' = Shown(objs, k)
              /\ UNCHANGED <<made, db, pc, cmd, todo, moving, counts, history>>
  BY <1>0, FindReads
<1>2. CASE Ends("done", <<>>, seen)
  BY <1>0, <1>1, <1>2, DataEnds
<1>3. CASE /\ \E k \in 0 .. Len(objs) : pos' = Place(objs, k) /\ seen' = Shown(objs, k)
           /\ UNCHANGED <<made, db, pc, cmd, todo, moving, counts, history>>
  <2>1. PICK k \in 0 .. Len(objs) : pos' = Place(objs, k) /\ seen' = Shown(objs, k)
    BY <1>3
  <2>2. UNCHANGED <<made, pc, cmd, stable>>
    BY <1>3 DEF history
  <2>3. Walked(objs, k)'
    BY <1>1, <2>1, <2>2 DEF Walked, Shown
  <2>4. CommandOK'
    BY <1>1, <2>2 DEF CommandOK
  <2>5. Holds(objs)'
    BY <1>1, <2>2, <2>3, <2>4 DEF Holds
  <2> QED BY <2>5 DEF DataOK
<1> QED BY <1>1, <1>2, <1>3

(* A step on the way of a delete, and one that ends the walk.              *)
LEMMA DataMoves ==
  ASSUME NEW objs \in Seq(Stored), Holds(objs), pc \in {"walk", "move"}, pc' \in {"move", "truncate"},
         cmd.kind = "delete", size' <= Len(stable), UNCHANGED <<made, cmd, pos, seen, stable>>
  PROVE  DataOK'
<1>1. PICK k \in 0 .. Len(objs) : Walked(objs, k)
  BY DEF Holds
<1>2. Walked(objs, k)'
  BY <1>1 DEF Walked, Shown
<1>3. CommandOK'
  BY DEF Holds, CommandOK
<1>4. Holds(objs)'
  BY <1>2, <1>3 DEF Holds
<1> QED BY <1>4 DEF DataOK

LEMMA PiecesFlat == \A ob : FlattenSeq(Pieces(ob)) = Enc(ob)
  BY DEF Enc

LEMMA DataLocate == ASSUME DbInv, FileOK, DataOK, locate_object PROVE DataOK'
<1> SUFFICES ASSUME intact' PROVE DataOK'
  BY DEF DataOK
<1>0. intact
  <2>1. \/ NotFound \/ Spin \/ Breaks \/ (\E place : Found(place)) \/ UNCHANGED history
    BY DEF locate_object
  <2>2. ASSUME NEW place, Found(place) PROVE intact
    BY <2>2 DEF Found, export_object, delete_object, Ends, Finish, Spin, Breaks, Fail, history
  <2> QED BY <2>1, <2>2 DEF NotFound, Ends, Finish, Spin, Breaks, Fail, history
<1>1. PICK objs \in Seq(Stored) :
        /\ Holds(objs) /\ objs \in Seq(Objects) /\ db = File(objs) /\ pc = "walk"
        /\ cmd.kind \in {"import", "export", "delete"} /\ cmd.name \in Names
        /\ \/ NotFound /\ \A i \in DOMAIN objs : objs[i][1] # cmd.name
           \/ \E j \in 1 .. Len(objs) : Located(objs, j) /\ Found(Place(objs, j - 1))
           \/ /\ \E k \in 0 .. Len(objs) : pos' = Place(objs, k) /\ \A i \in 1 .. k : objs[i][1] # cmd.name
              /\ UNCHANGED <<made, db, pc, cmd, seen, todo, moving, counts, history>>
  BY <1>0, LocateReads
<1>2. ASSUME NEW said, NEW bytes, Ends(said, bytes, {}) PROVE DataOK'
  BY <1>0, <1>1, <1>2, DataEnds
<1>3. CASE NotFound /\ \A i \in DOMAIN objs : objs[i][1] # cmd.name
  <2>1. CASE cmd.kind # "import"
    BY <1>2, <1>3, <2>1 DEF NotFound
  <2>2. CASE cmd.kind = "import"
    <3>1. /\ todo' = Pieces(<<cmd.name, cmd.bytes>>) /\ pc' = "write"
          /\ UNCHANGED <<made, db, cmd, seen, stable>>
      BY <1>3, <2>2 DEF NotFound, walk, history
    <3>2. (db \o FlattenSeq(todo) = stable \o Enc(<<cmd.name, cmd.bytes>>))'
      BY <1>1, <3>1, PiecesFlat DEF Holds
    <3>3. CommandOK'
      BY <1>1, <3>1 DEF CommandOK
    <3>4. Holds(objs)'
      BY <1>1, <1>3, <2>2, <3>1, <3>2, <3>3 DEF Holds
    <3> QED BY <3>4 DEF DataOK
  <2> QED BY <2>1, <2>2
<1>4. ASSUME NEW j \in 1 .. Len(objs), Located(objs, j), Found(Place(objs, j - 1)) PROVE DataOK'
  <2>1. Place(objs, j - 1) \in Nat
    <3>1. j - 1 \in 0 .. Len(objs) - 1
      BY <1>1, LenProperties
    <3> QED BY <1>1, <3>1, WalkReads
  <2>2. \/ Ends("exists", <<>>, {})
        \/ export_object(Place(objs, j - 1))
        \/ cmd.kind = "delete" /\ delete_object(Place(objs, j - 1))
    BY <1>4, <2>1 DEF Found
  <2>3. CASE export_object(Place(objs, j - 1))
    <3>1. Ends("exists", <<>>, {}) \/ Ends("done", objs[j][2], {})
      BY <1>4, <2>3, ExportReads
    <3> QED BY <1>2, <3>1
  <2>4. CASE cmd.kind = "delete" /\ delete_object(Place(objs, j - 1))
    <3>1. pc' \in {"move", "truncate"} /\ size' <= Len(stable) /\ UNCHANGED <<made, cmd, pos, seen, stable>>
      BY <1>1, <1>4, <2>4, DeleteReads DEF walk, history, Holds
    <3> QED BY <1>1, <2>4, <3>1, DataMoves
  <2> QED BY <1>2, <2>2, <2>3, <2>4
<1>5. CASE /\ \E k \in 0 .. Len(objs) : pos' = Place(objs, k) /\ \A i \in 1 .. k : objs[i][1] # cmd.name
           /\ UNCHANGED <<made, db, pc, cmd, seen, todo, moving, counts, history>>
  <2>1. PICK k \in 0 .. Len(objs) : pos' = Place(objs, k) /\ \A i \in 1 .. k : objs[i][1] # cmd.name
    BY <1>5
  <2>2. UNCHANGED <<made, pc, cmd, stable>>
    BY <1>5 DEF history
  <2>3. Walked(objs, k)'
    BY <1>1, <2>1, <2>2 DEF Walked
  <2>4. CommandOK'
    BY <1>1, <2>2 DEF CommandOK
  <2>5. Holds(objs)'
    BY <1>1, <2>2, <2>3, <2>4 DEF Holds
  <2> QED BY <2>5 DEF DataOK
<1> QED BY <1>1, <1>3, <1>4, <1>5

(* An import writes its pieces behind what is there; after the last one    *)
(* there is one object more.                                               *)
LEMMA ImportWrites ==
  ASSUME DbInv, NEW objs \in Seq(Stored), Holds(objs), pc = "write", safe_write
  PROVE  /\ db' \o FlattenSeq(Tail(todo)) = stable \o Enc(<<cmd.name, cmd.bytes>>)
         /\ Len(todo) = 1 => db' = File(Append(objs, <<cmd.name, cmd.bytes>>))
         /\ <<cmd.name, cmd.bytes>> \in Stored
<1>1. todo \in Seq(Seq(Byte)) /\ todo # <<>> /\ Head(todo) \in Seq(Byte) /\ db \in Seq(Byte) /\ db' = db \o Head(todo)
  BY HeadOfTodo DEF safe_write
<1>2. /\ FlattenSeq(todo) = Head(todo) \o FlattenSeq(Tail(todo))
      /\ FlattenSeq(Tail(todo)) \in Seq(Byte) /\ (Len(todo) = 1 => Tail(todo) = <<>>)
  BY <1>1, FlatHead
<1>3. PICK h \in Seq(Byte), t \in Seq(Byte), d \in Seq(Byte) : h = Head(todo) /\ t = FlattenSeq(Tail(todo)) /\ d = db
  BY <1>1, <1>2
<1>4. (d \o h) \o t = d \o (h \o t)
  BY ONLY h \in Seq(Byte), t \in Seq(Byte), d \in Seq(Byte), ConcatAssociative
<1>5. db \o FlattenSeq(todo) = stable \o Enc(<<cmd.name, cmd.bytes>>) /\ stable = File(objs) /\ cmd.kind = "import"
  BY DEF Holds
<1>6. <<cmd.name, cmd.bytes>> \in Stored
  BY <1>5 DEF DbInv, WorkOK, Stored
<1>7. ASSUME Len(todo) = 1 PROVE db' = File(Append(objs, <<cmd.name, cmd.bytes>>))
  <2>1. t = <<>>
    BY <1>2, <1>3, <1>7, FlatEmpty
  <2>2. d \o h \in Seq(Byte)
    BY ConcatProperties
  <2>3. (d \o h) \o <<>> = d \o h
    BY <2>2, ConcatEmptySeq
  <2>4. PICK ob \in Objects : ob = <<cmd.name, cmd.bytes>>
    BY <1>6, StoredIsFile
  <2>5. File(Append(objs, ob)) = File(objs) \o Enc(ob)
    BY StoredIsFile, FileAppend
  <2> QED BY <1>1, <1>2, <1>3, <1>4, <1>5, <2>1, <2>3, <2>4, <2>5
<1> QED BY <1>1, <1>2, <1>3, <1>4, <1>5, <1>6, <1>7

LEMMA DataWrite == ASSUME DbInv, DataOK, safe_write PROVE DataOK'
<1> SUFFICES ASSUME intact' PROVE DataOK'
  BY DEF DataOK
<1>1. pc = "write" /\ intact
  BY DEF safe_write, Finish, history
<1>2. CASE Creating
  <2>1. db' = <<>> \o Magic /\ Finish("done", <<>>, {})
    BY <1>2 DEF safe_write, Creating
  <2>2. PICK m \in Seq(Byte) : m = Magic
    BY MagicIn
  <2>3. <<>> \o m = m
    BY ConcatEmptySeq
  <2>4. <<>> \in Seq(Stored) /\ Distinct(<<>>)
    BY DEF Distinct
  <2>5. db' = File(<<>>)
    BY <2>1, <2>2, <2>3, FileEmpty
  <2> QED BY <1>1, <1>2, <2>1, <2>4, <2>5, DataFinish DEF Creating
<1>3. ASSUME NEW objs \in Seq(Stored), Holds(objs) PROVE DataOK'
  <2>1. /\ db' \o FlattenSeq(Tail(todo)) = stable \o Enc(<<cmd.name, cmd.bytes>>)
        /\ Len(todo) = 1 => db' = File(Append(objs, <<cmd.name, cmd.bytes>>))
        /\ <<cmd.name, cmd.bytes>> \in Stored
    BY <1>1, <1>3, ImportWrites
  <2>2. \A i \in DOMAIN objs : objs[i][1] # cmd.name
    BY <1>1, <1>3 DEF Holds
  <2>3. CASE Len(todo) = 1
    <3>1. Finish("done", <<>>, {})
      BY <2>3 DEF safe_write
    <3>2. PICK ob \in Stored : ob = <<cmd.name, cmd.bytes>> /\ ob[1] = cmd.name
      BY <2>1
    <3>3. Append(objs, ob) \in Seq(Stored) /\ Distinct(Append(objs, ob))
      BY <1>3, <2>2, <3>2, DistinctAppended DEF Holds
    <3> QED BY <1>1, <1>3, <2>1, <2>3, <3>1, <3>2, <3>3, DataFinish DEF Holds
  <2>4. CASE Len(todo) # 1
    <3>1. todo' = Tail(todo) /\ UNCHANGED <<made, pc, cmd, seen, stable>>
      BY <2>4 DEF safe_write, walk, history
    <3>2. CommandOK'
      BY <1>1, <1>3, <3>1 DEF Holds, CommandOK
    <3>3. Holds(objs)'
      BY <1>1, <1>3, <2>1, <2>2, <3>1, <3>2 DEF Holds
    <3> QED BY <3>3 DEF DataOK
  <2> QED BY <2>3, <2>4
<1> QED BY <1>1, <1>2, <1>3 DEF DataOK, Unmade

LEMMA DataTransfer == ASSUME DataOK, transfer_data PROVE DataOK'
<1> SUFFICES ASSUME intact' PROVE DataOK'
  BY DEF DataOK
<1>1. pc = "move" /\ pc' \in {"move", "truncate"} /\ UNCHANGED <<made, cmd, pos, seen, size, stable, intact>>
  BY DEF transfer_data, walk, history
<1>2. PICK objs \in Seq(Stored) : Holds(objs)
  BY <1>1 DEF DataOK, Unmade, Creating
<1> QED BY <1>1, <1>2, DataMoves DEF Holds

(* A delete that ends has removed the object with the name.                *)
LEMMA DeleteRemoves ==
  ASSUME DbInv, FileOK, DataOK, intact, ftruncate, size <= Len(db)
  PROVE  \E objs \in Seq(Stored) : \E j \in 1 .. Len(objs) :
           /\ Holds(objs) /\ objs[j][1] = cmd.name /\ db' = File(RemoveAt(objs, j))
           /\ Finish("done", <<>>, {}) /\ cmd.kind = "delete" /\ cmd.name \in Names
<1>1. pc = "truncate" /\ db' = SubSeq(db, 1, Len(db) - size) /\ Finish("done", <<>>, {})
  <2>1. ~(size > Len(db))
    <3>1. db \in Seq(Byte) /\ size \in Nat
      BY DEF DbInv, TypeOK
    <3> QED BY <3>1, LenProperties
  <2> QED BY <2>1 DEF ftruncate
<1>2. PICK p \in 0 .. Len(stable) : Traversed(p, size) /\ db' = Cut(stable, p, size)
  BY <1>1, TruncateCuts
<1>3. PICK objs \in Seq(Stored) : \E j \in 1 .. Len(objs) :
           /\ Holds(objs) /\ objs[j][1] = cmd.name /\ Cut(stable, p, size) = File(RemoveAt(objs, j))
  BY <1>1, <1>2, CutObject
<1>4. cmd.kind = "delete" /\ cmd.name \in Names
  BY <1>1, <1>3 DEF Holds, CommandOK
<1> QED BY <1>1, <1>2, <1>3, <1>4

LEMMA DataTruncate == ASSUME DbInv, FileOK, DataOK, ftruncate PROVE DataOK'
<1> SUFFICES ASSUME intact' PROVE DataOK'
  BY DEF DataOK
<1>1. pc = "truncate" /\ intact
  BY DEF ftruncate, Finish, Fail
<1>2. PICK z \in Nat, k \in Nat : z = Len(db) /\ k = size
  BY LenProperties DEF DbInv, TypeOK
<1>3. CASE k > z
  BY <1>1, <1>2, <1>3, DataFail DEF ftruncate
<1>4. CASE k <= z
  <2>1. PICK objs \in Seq(Stored), j \in Nat :
           /\ j \in 1 .. Len(objs) /\ Holds(objs) /\ db' = File(RemoveAt(objs, j)) /\ Finish("done", <<>>, {})
    BY <1>1, <1>2, <1>4, DeleteRemoves, LenProperties
  <2>2. RemoveAt(objs, j) \in Seq(Stored) /\ Distinct(RemoveAt(objs, j))
    BY <2>1, DistinctRemoved DEF Holds
  <2> QED BY <1>1, <2>1, <2>2, DataFinish DEF Holds
<1> QED BY <1>2, <1>3, <1>4

LEMMA DataStep == DbInv /\ FileOK /\ DataOK /\ [Next]_vars => DataOK'
<1> SUFFICES ASSUME DbInv, FileOK, DataOK, [Next]_vars PROVE DataOK'
  OBVIOUS
<1>1. CASE UNCHANGED vars
  <2>1. UNCHANGED <<made, db, pc, cmd, pos, seen, todo, size, stable, intact>>
    BY <1>1 DEF vars, walk, moving, history
  <2>2. ASSUME NEW objs \in Seq(Stored), Holds(objs) PROVE Holds(objs)'
    <3>1. \A k \in 0 .. Len(objs) : Walked(objs, k) => Walked(objs, k)'
      BY <2>1 DEF Walked, Shown
    <3>2. CommandOK' <=> CommandOK
      BY <2>1 DEF CommandOK
    <3> QED BY <2>1, <2>2, <3>1, <3>2 DEF Holds
  <2>3. Unmade => Unmade'
    BY <2>1 DEF Unmade
  <2>4. Creating => Creating'
    BY <2>1 DEF Creating
  <2> QED BY <2>1, <2>2, <2>3, <2>4 DEF DataOK
<1>2. CASE ShortWrite \/ SourceShrinks
  BY <1>2 DEF ShortWrite, SourceShrinks, DataOK
<1>3. CASE DiskFull \/ Kill
  BY <1>3, DataFail DEF DiskFull, Kill
<1> QED BY <1>1, <1>2, <1>3, DataOpen, DataMenu, DataFind, DataLocate, DataWrite, DataTransfer, DataTruncate
        DEF Next, Program

(* DataOK is the inductive invariant of what follows.                      *)
LEMMA DataAlways == Spec => [](DbInv /\ FileOK /\ DataOK)
  BY DbInit, DbStep, FileInit, FileStep, DataInit, DataStep, PTL DEF Spec

LEMMA DecodedIs == ASSUME NEW objs \in Seq(Stored), Holds(objs) PROVE Decode(stable) = objs
  BY StoredIsFile, DecodeAll DEF Holds

(* hw1.c:118, 220, 475: whenever the menu is shown and no fault has spoilt *)
(* a change, the file is the encoding of what it decodes to, to the last   *)
(* byte, and no two objects have one name.                                 *)
THEOREM FileStaysWellFormed == Spec => []FileWellFormed
<1>1. DbInv /\ FileOK /\ DataOK => FileWellFormed
  <2> SUFFICES ASSUME DbInv, FileOK, DataOK, intact, pc = "menu"
               PROVE  /\ db = File(Decode(db)) /\ stable = db
                      /\ \A i, j \in DOMAIN Decode(db) : Decode(db)[i][1] = Decode(db)[j][1] => i = j
    BY DEF FileWellFormed
  <2>1. PICK objs \in Seq(Stored) : Holds(objs)
    BY DEF DataOK, Unmade, Creating
  <2>2. Decode(stable) = objs /\ stable = db
    BY <2>1, DecodedIs DEF FileOK
  <2> QED BY <2>1, <2>2 DEF Holds, Distinct
<1> QED BY <1>1, DataAlways, PTL

(* hw1.c:275-289: while the rest of the file is moved over an object, what *)
(* is moved and what is not are together the file of the other objects:    *)
(* the object that goes is the one with the name, and every other one      *)
(* stays.                                                                  *)
THEOREM MovesLoseNothing == Spec => []MoveLosesNothing
<1>1. DbInv /\ FileOK /\ DataOK => MoveLosesNothing
  <2> SUFFICES ASSUME DbInv, FileOK, DataOK, intact, pc = "move"
               PROVE  \E i \in DOMAIN Decode(stable) :
                        /\ Decode(stable)[i][1] = cmd.name
                        /\ SubSeq(db, 1, dst) \o SubSeq(db, src + 1, Len(db)) = File(RemoveAt(Decode(stable), i))
    BY DEF MoveLosesNothing
  <2>1. PICK p \in 0 .. dst :
          /\ Traversed(p, size) /\ SubSeq(db, 1, dst) \o SubSeq(db, src + 1, Len(db)) = Cut(stable, p, size)
    BY MoveKeeps DEF MoveKeepsTheBytes
  <2>2. PICK objs \in Seq(Stored) : \E j \in 1 .. Len(objs) :
          Holds(objs) /\ objs[j][1] = cmd.name /\ Cut(stable, p, size) = File(RemoveAt(objs, j))
    BY <2>1, CutObject
  <2>3. PICK j \in 1 .. Len(objs) :
          Holds(objs) /\ objs[j][1] = cmd.name /\ Cut(stable, p, size) = File(RemoveAt(objs, j))
    BY <2>2
  <2>4. Decode(stable) = objs /\ j \in DOMAIN objs
    BY <2>3, DecodedIs, LenProperties
  <2> QED BY <2>1, <2>3, <2>4
<1> QED BY <1>1, DataAlways, PTL

-----------------------------------------------------------------------------
(* ObjectStore, step by step.                                              *)
StoreStep == [Store!Next]_<<Decode(stable), answer, intact>>

LEMMA StoreStutters == ASSUME UNCHANGED <<stable, answer, intact>> PROVE StoreStep
<1>1. Decode(stable)' = Decode(stable)
  OBVIOUS
<1> QED BY <1>1 DEF StoreStep

(* Once a change has been spoilt nothing is promised of the file.          *)
LEMMA SpoiltSteps == ASSUME ~intact, UNCHANGED <<stable, intact>> PROVE StoreStep
<1>1. Decode(stable)' = Decode(stable)
  OBVIOUS
<1>2. Store!Next
  BY <1>1 DEF Store!Next
<1> QED BY <1>2 DEF StoreStep

LEMMA SpoilingSteps == ASSUME intact, intact' = FALSE, UNCHANGED <<stable, answer>> PROVE StoreStep
<1>1. Decode(stable)' = Decode(stable)
  OBVIOUS
<1>2. Store!Next
  BY <1>1 DEF Store!Next
<1> QED BY <1>2 DEF StoreStep

LEMMA FailSteps == ASSUME DbInv, Fail PROVE StoreStep
<1>1. UNCHANGED <<stable, answer>> /\ intact \in BOOLEAN /\ intact' \in BOOLEAN /\ (intact' => intact)
  BY DEF Fail, DbInv, TypeOK
<1>2. CASE intact' = intact
  BY <1>1, <1>2, StoreStutters
<1>3. CASE intact' # intact
  <2>1. intact /\ intact' = FALSE
    BY <1>1, <1>3
  <2> QED BY <1>1, <2>1, SpoilingSteps
<1> QED BY <1>2, <1>3

(* What Finish leaves behind.                                              *)
Answers(said, bytes, names) ==
  answer' = [kind |-> cmd.kind, name |-> cmd.name, said |-> said, bytes |-> bytes, names |-> names]

LEMMA FinishAnswers ==
  ASSUME DbInv, intact, cmd.kind # "open", NEW said, NEW bytes, NEW names, Finish(said, bytes, names)
  PROVE  Answers(said, bytes, names) /\ intact' = intact /\ stable' = db'
  BY DEF Finish, Answers

LEMMA EndAnswers ==
  ASSUME DbInv, FileOK, intact, pc = "walk", cmd.kind # "open", NEW said, NEW bytes, NEW names, Ends(said, bytes, names)
  PROVE  Answers(said, bytes, names) /\ intact' = intact /\ stable' = stable
<1>1. db' = db /\ Finish(said, bytes, names) /\ db = stable
  BY DEF Ends, FileOK
<1> QED BY <1>1, FinishAnswers

LEMMA KnownIs ==
  ASSUME NEW objs \in Seq(Stored), Holds(objs)
  PROVE  Decode(stable) = objs /\ Store!Known = {objs[i][1] : i \in DOMAIN objs} /\ DOMAIN objs = 1 .. Len(objs)
<1>1. Decode(stable) = objs
  BY DecodedIs
<1> QED BY <1>1, LenProperties DEF Store!Known

LEMMA FindImplements == ASSUME DbInv, FileOK, DataOK, intact, find_object PROVE StoreStep
<1>1. PICK objs \in Seq(Stored) :
           /\ Holds(objs) /\ objs \in Seq(Objects) /\ pc = "walk" /\ cmd.kind = "find" /\ cmd.name \in Patterns
           /\ \/ Ends("done", <<>>, seen) /\ seen = Shown(objs, Len(objs))
              \/ UNCHANGED history
  BY FindReads
<1>2. CASE UNCHANGED history
  BY <1>2, StoreStutters DEF history
<1>3. CASE Ends("done", <<>>, seen) /\ seen = Shown(objs, Len(objs))
  <2>1. Answers("done", <<>>, seen) /\ intact' = intact /\ stable' = stable
    BY <1>1, <1>3, EndAnswers
  <2>2. seen = {n \in Store!Known : Store!Occurs(cmd.name, n)}
    <3>1. \A n : Store!Occurs(cmd.name, n) <=> Occurs(cmd.name, n)
      BY DEF Store!Occurs, Occurs, Store!IsPrefix, IsPrefix
    <3>2. Store!Known = {objs[i][1] : i \in 1 .. Len(objs)}
      BY <1>1, KnownIs
    <3> QED BY <1>3, <3>1, <3>2 DEF Shown
  <2>3. Store!Find(cmd.name)
    BY <1>1, <2>1, <2>2 DEF Store!Find, Store!Reply, Answers
  <2>4. Store!Next
    BY <1>1, <2>1, <2>3 DEF Store!Next
  <2> QED BY <2>4 DEF StoreStep
<1> QED BY <1>1, <1>2, <1>3

LEMMA LocateImplements == ASSUME DbInv, FileOK, DataOK, intact, locate_object PROVE StoreStep
<1>1. PICK objs \in Seq(Stored) :
        /\ Holds(objs) /\ objs \in Seq(Objects) /\ db = File(objs) /\ pc = "walk"
        /\ cmd.kind \in {"import", "export", "delete"} /\ cmd.name \in Names
        /\ \/ NotFound /\ \A i \in DOMAIN objs : objs[i][1] # cmd.name
           \/ \E j \in 1 .. Len(objs) : Located(objs, j) /\ Found(Place(objs, j - 1))
           \/ UNCHANGED history
  BY LocateReads
<1>2. Decode(stable) = objs /\ Store!Known = {objs[i][1] : i \in DOMAIN objs} /\ DOMAIN objs = 1 .. Len(objs)
  BY <1>1, KnownIs
<1>3. CASE UNCHANGED history
  BY <1>3, StoreStutters DEF history
<1>4. ASSUME NotFound, \A i \in DOMAIN objs : objs[i][1] # cmd.name PROVE StoreStep
  <2>1. CASE cmd.kind = "import"
    <3>1. UNCHANGED history
      BY <1>4, <2>1 DEF NotFound
    <3> QED BY <3>1, StoreStutters DEF history
  <2>2. CASE cmd.kind # "import"
    <3>1. Ends("missing", <<>>, {})
      BY <1>4, <2>2 DEF NotFound
    <3>2. Answers("missing", <<>>, {}) /\ intact' = intact /\ stable' = stable
      BY <1>1, <3>1, EndAnswers
    <3>3. cmd.name \notin Store!Known
      BY <1>2, <1>4
    <3>4. Store!Export(cmd.name) \/ Store!Delete(cmd.name)
      BY <1>1, <2>2, <3>2, <3>3 DEF Store!Export, Store!Delete, Store!Reply, Answers
    <3>5. Store!Next
      BY <1>1, <3>2, <3>4 DEF Store!Next
    <3> QED BY <3>5 DEF StoreStep
  <2> QED BY <2>1, <2>2
<1>5. ASSUME NEW j \in 1 .. Len(objs), Located(objs, j), Found(Place(objs, j - 1)) PROVE StoreStep
  <2>1. Place(objs, j - 1) \in Nat
    <3>1. j - 1 \in 0 .. Len(objs) - 1
      BY <1>1, LenProperties
    <3> QED BY <1>1, <3>1, WalkReads
  <2>2. objs[j][1] = cmd.name /\ j \in DOMAIN objs /\ cmd.name \in Store!Known
    BY <1>2, <1>5 DEF Located
  <2>3. \/ cmd.kind = "import" /\ Ends("exists", <<>>, {})
        \/ cmd.kind = "export" /\ export_object(Place(objs, j - 1))
        \/ cmd.kind = "delete" /\ delete_object(Place(objs, j - 1))
    BY <1>5, <2>1 DEF Found
  <2>4. CASE cmd.kind = "import" /\ Ends("exists", <<>>, {})
    <3>1. Answers("exists", <<>>, {}) /\ intact' = intact /\ stable' = stable
      BY <1>1, <2>4, EndAnswers
    <3>2. cmd.bytes \in Contents
      BY <2>4 DEF DbInv, WorkOK
    <3>3. Store!Import(cmd.name, cmd.bytes)
      BY <2>2, <2>4, <3>1 DEF Store!Import, Store!Reply, Answers
    <3>4. Store!Next
      BY <1>1, <3>1, <3>2, <3>3 DEF Store!Next
    <3> QED BY <3>4 DEF StoreStep
  <2>5. CASE cmd.kind = "export" /\ export_object(Place(objs, j - 1))
    <3>1. PICK said, bytes : /\ Ends(said, bytes, {})
                             /\ \/ said = "exists" /\ bytes = <<>>
                                \/ said = "done" /\ bytes = objs[j][2]
      BY <1>5, <2>5, ExportReads
    <3>2. Answers(said, bytes, {}) /\ intact' = intact /\ stable' = stable
      BY <1>1, <3>1, EndAnswers
    <3>3. Store!Export(cmd.name)
      BY <1>2, <2>2, <2>5, <3>1, <3>2 DEF Store!Export, Store!Reply, Answers
    <3>4. Store!Next
      BY <1>1, <3>2, <3>3 DEF Store!Next
    <3> QED BY <3>4 DEF StoreStep
  <2>6. CASE cmd.kind = "delete" /\ delete_object(Place(objs, j - 1))
    <3>1. UNCHANGED history
      BY <1>5, <2>6, DeleteReads
    <3> QED BY <3>1, StoreStutters DEF history
  <2> QED BY <2>3, <2>4, <2>5, <2>6
<1> QED BY <1>1, <1>3, <1>4, <1>5

LEMMA WriteImplements == ASSUME DbInv, FileOK, DataOK, intact, safe_write PROVE StoreStep
<1>1. pc = "write"
  BY DEF safe_write
<1>2. CASE Len(todo) # 1
  <2>1. UNCHANGED history
    BY <1>2 DEF safe_write
  <2> QED BY <2>1, StoreStutters DEF history
<1>3. CASE Len(todo) = 1 /\ Creating
  <2>1. stable = <<>> /\ db' = <<>> \o Magic /\ intact' = intact /\ stable' = db' /\ answer' = answer
    BY <1>3 DEF safe_write, Creating, Finish
  <2>2. PICK m \in Seq(Byte) : m = Magic
    BY MagicIn
  <2>3. <<>> \o m = m
    BY ConcatEmptySeq
  <2>4. stable' = File(<<>>)
    BY <2>1, <2>2, <2>3, FileEmpty
  <2>5. Decode(stable)' = Decode(stable)
    <3>1. Decode(File(<<>>)) = <<>>
      <4>1. <<>> \in Seq(Objects)
        OBVIOUS
      <4> QED BY <4>1, DecodeAll
    <3>2. Decode(stable)' = <<>>
      BY <2>4, <3>1
    <3>3. Decode(stable) = <<>>
      BY <2>1, DecodeNothing
    <3> QED BY <3>2, <3>3
  <2> QED BY <2>1, <2>5 DEF StoreStep
<1>4. ASSUME Len(todo) = 1, NEW objs \in Seq(Stored), Holds(objs) PROVE StoreStep
  <2>1. /\ db' = File(Append(objs, <<cmd.name, cmd.bytes>>)) /\ <<cmd.name, cmd.bytes>> \in Stored
    BY <1>1, <1>4, ImportWrites
  <2>2. cmd.kind = "import" /\ cmd.name \in Names /\ \A i \in DOMAIN objs : objs[i][1] # cmd.name
    BY <1>1, <1>4 DEF Holds, CommandOK
  <2>3. Finish("done", <<>>, {})
    BY <1>4 DEF safe_write
  <2>4. Answers("done", <<>>, {}) /\ intact' = intact /\ stable' = db'
    BY <2>2, <2>3, FinishAnswers
  <2>5. PICK new \in Seq(Objects) : new = Append(objs, <<cmd.name, cmd.bytes>>)
    <3>1. Append(objs, <<cmd.name, cmd.bytes>>) \in Seq(Stored)
      BY <2>1
    <3> QED BY <3>1, StoredIsFile
  <2>6. Decode(stable)' = Append(objs, <<cmd.name, cmd.bytes>>)
    <3>1. Decode(File(new)) = new
      BY DecodeAll
    <3> QED BY <2>1, <2>4, <2>5, <3>1
  <2>7. Decode(stable) = objs /\ cmd.name \notin Store!Known
    BY <1>4, <2>2, KnownIs
  <2>8. cmd.bytes \in Contents
    BY <2>2 DEF DbInv, WorkOK
  <2>9. Store!Import(cmd.name, cmd.bytes)
    BY <2>2, <2>4, <2>6, <2>7 DEF Store!Import, Store!Reply, Answers
  <2>10. Store!Next
    BY <2>2, <2>4, <2>8, <2>9 DEF Store!Next
  <2> QED BY <2>10 DEF StoreStep
<1> QED BY <1>1, <1>2, <1>3, <1>4 DEF DataOK, Unmade

LEMMA TruncateImplements == ASSUME DbInv, FileOK, DataOK, intact, ftruncate PROVE StoreStep
<1>1. PICK z \in Nat, k \in Nat : z = Len(db) /\ k = size
  BY LenProperties DEF DbInv, TypeOK
<1>2. CASE k > z
  BY <1>1, <1>2, FailSteps DEF ftruncate
<1>3. CASE k <= z
  <2>1. PICK objs \in Seq(Stored), j \in Nat :
           /\ j \in 1 .. Len(objs) /\ Holds(objs) /\ objs[j][1] = cmd.name /\ db' = File(RemoveAt(objs, j))
           /\ Finish("done", <<>>, {}) /\ cmd.kind = "delete" /\ cmd.name \in Names
    BY <1>1, <1>3, DeleteRemoves, LenProperties
  <2>2. Answers("done", <<>>, {}) /\ intact' = intact /\ stable' = db'
    BY <2>1, FinishAnswers
  <2>3. Decode(stable)' = RemoveAt(objs, j)
    <3>1. RemoveAt(objs, j) \in Seq(Stored)
      BY <2>1, DistinctRemoved DEF Holds
    <3>2. PICK new \in Seq(Objects) : new = RemoveAt(objs, j)
      BY <3>1, StoredIsFile
    <3>3. Decode(File(new)) = new
      BY DecodeAll
    <3> QED BY <2>1, <2>2, <3>2, <3>3
  <2>4. Decode(stable) = objs /\ j \in DOMAIN objs
    BY <2>1, KnownIs
  <2>5. Store!Delete(cmd.name)
    <3>1. Store!RemoveAt(objs, j) = RemoveAt(objs, j)
      BY DEF Store!RemoveAt, RemoveAt
    <3> QED BY <2>1, <2>2, <2>3, <2>4, <3>1 DEF Store!Delete, Store!Reply, Answers
  <2>6. Store!Next
    BY <2>1, <2>2, <2>5 DEF Store!Next
  <2> QED BY <2>6 DEF StoreStep
<1> QED BY <1>1, <1>2, <1>3

(* A step of a spoilt file leaves stable alone.                            *)
LEMMA SpoiltKeeps == ASSUME DbInv, ~intact, Next PROVE UNCHANGED <<stable, intact>>
<1>0. intact = FALSE
  BY DEF DbInv, TypeOK
<1>1. ASSUME NEW said, NEW bytes, NEW names, Finish(said, bytes, names) PROVE UNCHANGED <<stable, intact>>
  BY <1>0, <1>1 DEF Finish
<1>2. ASSUME Fail PROVE UNCHANGED <<stable, intact>>
  BY <1>0, <1>2 DEF Fail
<1>3. ASSUME Spin PROVE UNCHANGED <<stable, intact>>
  BY <1>3 DEF Spin, history
<1>4. CASE open_database_file \/ Commands \/ Quit
  BY <1>4, <1>3 DEF open_database_file, Commands, Command, Quit, history
<1>5. CASE find_object
  BY <1>5, <1>1, <1>2, <1>3 DEF find_object, Ends, Breaks, history
<1>6. CASE locate_object
  <2>1. ASSUME NEW place, Found(place) PROVE UNCHANGED <<stable, intact>>
    BY <2>1, <1>1, <1>2, <1>3 DEF Found, export_object, delete_object, Ends, Breaks, history
  <2> QED BY <1>6, <2>1, <1>1, <1>2, <1>3 DEF locate_object, NotFound, Ends, Breaks, history
<1>7. CASE safe_write \/ ftruncate \/ transfer_data
  BY <1>7, <1>1, <1>2 DEF safe_write, ftruncate, transfer_data, history
<1>8. CASE ShortWrite \/ SourceShrinks
  BY <1>0, <1>8 DEF ShortWrite, SourceShrinks
<1>9. CASE DiskFull \/ Kill
  BY <1>9, <1>2 DEF DiskFull, Kill
<1> QED BY <1>4, <1>5, <1>6, <1>7, <1>8, <1>9 DEF Next, Program

LEMMA StoreSteps == DbInv /\ FileOK /\ DataOK /\ [Next]_vars => StoreStep
<1> SUFFICES ASSUME DbInv, FileOK, DataOK, [Next]_vars PROVE StoreStep
  OBVIOUS
<1>1. CASE UNCHANGED vars
  BY <1>1, StoreStutters DEF vars, history
<1>2. CASE Next /\ ~intact
  BY <1>2, SpoiltKeeps, SpoiltSteps
<1>3. CASE Next /\ intact
  <2>1. CASE open_database_file \/ Commands \/ Quit
    <3>1. UNCHANGED history
      BY <2>1 DEF open_database_file, Commands, Command, Quit, Spin
    <3> QED BY <3>1, StoreStutters DEF history
  <2>2. CASE transfer_data
    <3>1. UNCHANGED history
      BY <2>2 DEF transfer_data
    <3> QED BY <3>1, StoreStutters DEF history
  <2>3. CASE ShortWrite \/ SourceShrinks
    BY <1>3, <2>3, SpoilingSteps DEF ShortWrite, SourceShrinks
  <2>4. CASE DiskFull \/ Kill
    BY <2>4, FailSteps DEF DiskFull, Kill
  <2> QED BY <1>3, <2>1, <2>2, <2>3, <2>4, FindImplements, LocateImplements, WriteImplements, TruncateImplements
          DEF Next, Program
<1> QED BY <1>1, <1>2, <1>3

(* The whole of hw1.c: seen through Decode, the commands import, export,   *)
(* find and delete objects as ObjectStore says, and answer as it does, for *)
(* as long as no fault has spoilt a change.                                *)
THEOREM DatabaseImplementsStore == Spec => ImplementsStore
<1>1. Init => Store!Init
  <2>1. Init => Decode(stable) = <<>>
    BY DecodeNothing DEF Init
  <2> QED BY <2>1 DEF Init, Store!Init, NoAnswer
<1>2. DbInv /\ FileOK /\ DataOK /\ [Next]_vars => [Store!Next]_<<Decode(stable), answer, intact>>
  BY StoreSteps DEF StoreStep
<1> QED BY <1>1, <1>2, DataAlways, PTL DEF Spec, ImplementsStore, Store!Spec

-----------------------------------------------------------------------------
(* A file that begins with that of some objects decodes to these first.    *)
LEMMA FrontIsPrefix ==
  ASSUME NEW S, NEW a \in Seq(S), NEW d \in Seq(S) PROVE IsPrefix(a, a \o d)
<1>1. PICK n \in Nat, k \in Nat : n = Len(a) /\ k = Len(d)
  BY LenProperties
<1>2. PICK c \in Seq(S) : c = a \o d /\ Len(c) = n + k /\ \A i \in 1 .. n : c[i] = a[i]
  <2>1. /\ a \o d \in Seq(S) /\ Len(a \o d) = Len(a) + Len(d)
        /\ \A i \in 1 .. Len(a) + Len(d) : (a \o d)[i] = IF i <= Len(a) THEN a[i] ELSE d[i - Len(a)]
    BY ConcatProperties
  <2>2. PICK c : c = a \o d
    OBVIOUS
  <2>3. c \in Seq(S) /\ Len(c) = n + k /\ \A i \in 1 .. n : c[i] = a[i]
    BY ONLY <1>1, <2>1, <2>2, n \in Nat, k \in Nat
  <2> QED BY ONLY <2>2, <2>3
<1>3. PICK m \in Nat \ {0} : m = 1
  OBVIOUS
<1>4. PICK x : x = SubSeq(c, m, n)
  OBVIOUS
<1>5. /\ x \in Seq(S) /\ Len(x) = IF m <= n THEN n - m + 1 ELSE 0
      /\ \A i \in 1 .. n - m + 1 : x[i] = c[m + i - 1]
  <2>1. n \in Int /\ n <= Len(c)
    BY <1>2
  <2> QED BY ONLY c \in Seq(S), m \in Nat \ {0}, <1>4, <2>1, PartOf
<1>6. Len(x) = n /\ \A i \in 1 .. n : x[i] = a[i]
  <2>1. Len(x) = n /\ \A i \in 1 .. n : x[i] = c[i]
    BY ONLY <1>3, <1>5, n \in Nat
  <2> QED BY <1>2, <2>1
<1>7. x = a
  BY <1>1, <1>5, <1>6, SeqEqual
<1>8. SubSeq(a, 1, Len(a)) = a
  OBVIOUS
<1>9. Len(a) <= Len(c)
  BY <1>1, <1>2
<1> QED BY <1>1, <1>2, <1>3, <1>4, <1>7, <1>8, <1>9 DEF IsPrefix

LEMMA Starts ==
  ASSUME NEW a \in Seq(Byte), NEW f \in Seq(Byte), Len(a) <= Len(f), \A i \in 1 .. Len(a) : f[i] = a[i]
  PROVE  \E b \in Seq(Byte) : f = a \o b
<1>1. PICK n \in Nat, z \in Nat, k \in Nat : n = Len(a) /\ z = Len(f) /\ n <= z /\ k = z - n
  <2>1. PICK n \in Nat, z \in Nat : n = Len(a) /\ z = Len(f) /\ n <= z
    BY LenProperties
  <2>2. z - n \in Nat
    BY <2>1
  <2> QED BY <2>1, <2>2
<1>2. PICK b \in Seq(Byte) : Len(b) = k /\ \A i \in 1 .. k : b[i] = f[n + i]
  <2>1. /\ SubSeq(f, n + 1, z) \in Seq(Byte) /\ Len(SubSeq(f, n + 1, z)) = z - n
        /\ \A i \in 1 .. z - n : SubSeq(f, n + 1, z)[i] = f[n + i]
    BY ONLY f \in Seq(Byte), n \in Nat, z \in Nat, <1>1, RestOf
  <2> QED BY <1>1, <2>1
<1>3. Follows(a \o b, a, b, n, k)
  BY <1>1, <1>2, Joint
<1>4. PICK c \in Seq(Byte) : /\ c = a \o b /\ Len(c) = n + k /\ \A i \in 1 .. n : c[i] = a[i]
                             /\ \A i \in 1 .. k : c[n + i] = b[i]
  BY <1>3 DEF Follows
<1>5. ASSUME NEW i \in 1 .. z PROVE c[i] = f[i]
  <2>1. CASE i <= n
    BY <1>1, <1>4, <2>1
  <2>2. CASE i > n
    <3>1. i - n \in 1 .. k /\ n + (i - n) = i
      BY <1>1, <2>2
    <3> QED BY <1>2, <1>4, <3>1
  <2> QED BY <1>1, <2>1, <2>2
<1>6. Len(c) = z
  BY <1>1, <1>4
<1>7. c = f
  BY <1>1, <1>5, <1>6, SameBytes
<1> QED BY <1>4, <1>7

LEMMA DecodeStarts ==
  ASSUME NEW objs \in Seq(Objects), NEW f \in Seq(Byte), Len(File(objs)) <= Len(f),
         \A i \in 1 .. Len(File(objs)) : f[i] = File(objs)[i]
  PROVE  IsPrefix(objs, Decode(f))
<1>1. PICK a \in Seq(Byte) : a = File(objs)
  BY FileIn
<1>2. PICK b \in Seq(Byte) : f = a \o b
  BY <1>1, Starts
<1>3. PICK d \in Seq(Pairs) : Decode(f) = objs \o d
  BY <1>1, <1>2, DecodeFile
<1>4. objs \in Seq(Pairs)
  <2>1. \A s \in Seq(Letters) : s \in Seq(Byte)
    BY SeqMonotonic DEF Letters
  <2>2. Objects \subseteq Pairs
    BY <2>1 DEF Objects, Pairs
  <2> QED BY <2>2, SeqMonotonic
<1> QED BY <1>3, <1>4, FrontIsPrefix

LEMMA DecodeIn == ASSUME NEW f \in Seq(Byte) PROVE Decode(f) \in Seq(Pairs)
<1>1. PICK z \in Nat : z = Len(f)
  BY LenProperties
<1>2. CASE z < 2
  <2>1. Len(f) < Len(Magic)
    BY <1>1, <1>2, MagicIn
  <2> QED BY <2>1 DEF Decode
<1>3. CASE z >= 2
  <2>1. PICK D : Decodes(D, f, 0) /\ Decode(f) = D[2]
    BY <1>1, <1>3, DecodeIs
  <2>2. 2 \in 0 .. Len(f)
    BY <1>1, <1>3
  <2> QED BY <2>1, <2>2, DecodesIn
<1> QED BY <1>2, <1>3

LEMMA NothingFirst == ASSUME NEW f \in Seq(Byte) PROVE IsPrefix(<<>>, Decode(f))
<1>1. PICK d \in Seq(Pairs) : d = Decode(f)
  BY DecodeIn
<1>2. <<>> \o d = d /\ <<>> \in Seq(Pairs)
  BY ConcatEmptySeq
<1> QED BY <1>1, <1>2, FrontIsPrefix

(* The file of the first objects stands in front of that of all of them.   *)
LEMMA FirstInFront ==
  ASSUME NEW objs \in Seq(Objects), NEW j \in 1 .. Len(objs)
  PROVE  /\ First(objs, j - 1) \in Seq(Objects) /\ File(First(objs, j - 1)) \in Seq(Byte)
         /\ Place(objs, j - 1) \in Nat
         /\ \A i \in 1 .. Place(objs, j - 1) : File(objs)[i] = File(First(objs, j - 1))[i]
<1>1. PICK f \in Seq(Byte) : f = File(objs) /\ f = File(objs) \o <<>> /\ <<>> \in Seq(Byte)
  BY FileIn, ConcatEmptySeq
<1>2. PICK rest \in Seq(Byte) : Splits(f, objs, j, rest)
  BY <1>1, Between
<1>3. PICK x \in Seq(Byte), y \in Seq(Byte) : x = File(First(objs, j - 1)) /\ y = Enc(objs[j]) /\ f = (x \o y) \o rest
  BY <1>2, EncLength DEF Splits
<1>4. PICK m \in Nat, n \in Nat, k \in Nat, d \in Nat : m = Len(x) /\ n = Len(y) /\ k = Len(rest) /\ d = m + n
  BY LenProperties
<1>5. PICK w \in Seq(Byte) : w = x \o y /\ Len(w) = d /\ \A i \in 1 .. m : w[i] = x[i]
  <2>1. Follows(x \o y, x, y, m, n)
    BY <1>4, Joint
  <2> QED BY <1>4, <2>1 DEF Follows
<1>6. \A i \in 1 .. d : f[i] = w[i]
  <2>1. Follows(w \o rest, w, rest, d, k)
    BY <1>4, <1>5, Joint
  <2> QED BY <1>3, <1>5, <2>1 DEF Follows
<1>7. \A i \in 1 .. m : f[i] = x[i]
  <2>1. ASSUME NEW i \in 1 .. m PROVE f[i] = x[i]
    <3>1. i \in 1 .. d
      BY <1>4
    <3> QED BY <1>5, <1>6, <3>1
  <2> QED BY <2>1
<1>8. First(objs, j - 1) \in Seq(Objects)
  <2>1. j - 1 \in 0 .. Len(objs)
    BY LenProperties
  <2> QED BY <2>1, FirstIs
<1> QED BY <1>1, <1>3, <1>4, <1>7, <1>8 DEF Place

-----------------------------------------------------------------------------
(* What a change leaves alone until it is finished.                        *)
LEMMA ImportSpares ==
  ASSUME DbInv, FileOK, intact, pc = "write", NEW objs \in Seq(Stored), Holds(objs),
         NEW x \in Seq(Byte), NEW f, f = db \o x
  PROVE  /\ InFront = objs /\ f \in Seq(Byte) /\ Len(File(objs)) <= Len(f)
         /\ \A i \in 1 .. Len(File(objs)) : f[i] = File(objs)[i]
<1>1. PICK n \in Nat : n = Len(objs)
  BY LenProperties
<1>2. InFront = objs
  <2>1. {i \in DOMAIN objs : objs[i][1] = cmd.name} = {}
    BY DEF Holds
  <2>2. Decode(stable) = objs
    BY DecodedIs
  <2>3. {n + 1} \cup {} = {n + 1, n + 1} /\ n + 1 \in Int /\ (n + 1) - 1 = n
    OBVIOUS
  <2>4. Min({n + 1, n + 1}) = n + 1
    BY <2>3, MinOfTwo
  <2>5. SubSeq(objs, 1, Len(objs)) = objs
    OBVIOUS
  <2> QED BY <1>1, <2>1, <2>2, <2>3, <2>4, <2>5 DEF InFront
<1>3. PICK a \in Seq(Byte), d \in Seq(Byte), l \in Nat, m \in Nat, k \in Nat :
        /\ a = File(objs) /\ d = db /\ l = Len(a) /\ m = Len(d) /\ k = Len(x) /\ l <= m
        /\ \A i \in 1 .. l : d[i] = a[i]
  <2>1. /\ stable \in Seq(Byte) /\ db \in Seq(Byte) /\ stable = File(objs) /\ Len(stable) <= Len(db)
        /\ \A i \in DOMAIN stable : db[i] = stable[i]
    BY DEF DbInv, TypeOK, FileOK, Holds
  <2>2. Len(stable) \in Nat /\ Len(db) \in Nat /\ Len(x) \in Nat /\ DOMAIN stable = 1 .. Len(stable)
    BY <2>1, LenProperties
  <2> QED BY <2>1, <2>2
<1>4. Follows(d \o x, d, x, m, k)
  BY <1>3, Joint
<1>5. f \in Seq(Byte) /\ Len(f) = m + k /\ \A i \in 1 .. m : f[i] = d[i]
  BY <1>3, <1>4 DEF Follows
<1>6. l <= m + k
  BY <1>3
<1>7. ASSUME NEW i \in 1 .. l PROVE f[i] = a[i]
  <2>1. i \in 1 .. m
    BY <1>3
  <2> QED BY <1>3, <1>5, <2>1
<1> QED BY <1>2, <1>3, <1>5, <1>6, <1>7

LEMMA DeleteSpares ==
  ASSUME DbInv, FileOK, DataOK, intact, pc \in {"move", "truncate"}
  PROVE  \E objs \in Seq(Objects) :
           InFront = objs /\ Len(File(objs)) <= Len(db) /\ \A i \in 1 .. Len(File(objs)) : db[i] = File(objs)[i]
<1>1. PICK d \in Nat : d <= Len(db) /\ \E p \in Nat : Moved(p, d)
  <2>1. PICK z \in Nat, k \in Nat : z = Len(db) /\ k = size
    <3>1. db \in Seq(Byte) /\ size \in Nat
      BY DEF DbInv, TypeOK
    <3> QED BY <3>1, LenProperties
  <2>2. CASE pc = "move"
    <3>1. src = dst + size /\ left = Len(db) - src /\ left \in Nat /\ src \in Nat /\ dst \in Nat /\ size \in Nat
      BY <2>2 DEF DbInv, TypeOK, WorkOK
    <3>2. dst <= Len(db) /\ dst \in Nat
      BY <2>1, <3>1
    <3>3. \E p \in Nat : Moved(p, dst)
      BY <2>2 DEF FileOK
    <3> QED BY <3>2, <3>3
  <2>3. CASE pc = "truncate"
    <3>1. size <= Len(stable) /\ Len(db) = Len(stable)
      BY <2>3 DEF FileOK, DataOK, Holds, Unmade, Creating
    <3>2. \E p \in Nat : Moved(p, Len(db) - size)
      BY <2>3, <3>1 DEF FileOK
    <3>3. Len(db) - size \in Nat /\ Len(db) - size <= Len(db)
      BY <2>1, <3>1
    <3> QED BY <3>2, <3>3
  <2> QED BY <2>2, <2>3
<1>2. PICK p \in Nat : p \in 0 .. d /\ Traversed(p, size) /\ \A i \in 1 .. p : db[i] = stable[i]
  <2>1. PICK p \in Nat : Moved(p, d)
    BY <1>1
  <2>2. p \in 0 .. d /\ Traversed(p, size) /\ \A i \in 1 .. d : db[i] = stable[IF i <= p THEN i ELSE i + size]
    BY <2>1 DEF Moved
  <2>3. ASSUME NEW i \in 1 .. p PROVE db[i] = stable[i]
    <3>1. i \in 1 .. d /\ i <= p
      BY <2>2
    <3> QED BY <2>2, <3>1
  <2> QED BY <2>2, <2>3
<1>3. PICK objs \in Seq(Stored) : \E j \in 1 .. Len(objs) :
        Holds(objs) /\ objs[j][1] = cmd.name /\ p = Place(objs, j - 1) /\ objs \in Seq(Objects)
  BY <1>2, CutObject
<1>4. PICK n \in Nat, j \in 1 .. Len(objs) :
        /\ n = Len(objs) /\ DOMAIN objs = 1 .. n /\ j \in 1 .. n
        /\ Holds(objs) /\ objs[j][1] = cmd.name /\ p = Place(objs, j - 1) /\ objs \in Seq(Objects)
  BY <1>3, LenProperties
<1>5. InFront = First(objs, j - 1)
  <2>1. {i \in DOMAIN objs : objs[i][1] = cmd.name} = {j}
    BY <1>4 DEF Holds, Distinct
  <2>2. Decode(stable) = objs
    BY <1>4, DecodedIs
  <2>3. {n + 1} \cup {j} = {n + 1, j} /\ n + 1 \in Int /\ j \in Int /\ ~(n + 1 <= j)
    BY <1>4
  <2>4. Min({n + 1, j}) = j
    BY <2>3, MinOfTwo
  <2> QED BY <1>4, <2>1, <2>2, <2>3, <2>4 DEF InFront, First
<1>6. /\ First(objs, j - 1) \in Seq(Objects) /\ File(First(objs, j - 1)) \in Seq(Byte)
      /\ Place(objs, j - 1) \in Nat
      /\ \A i \in 1 .. Place(objs, j - 1) : File(objs)[i] = File(First(objs, j - 1))[i]
  BY <1>4, FirstInFront
<1>7. stable = File(objs)
  BY <1>4 DEF Holds
<1>8. p <= Len(db)
  <2>1. db \in Seq(Byte)
    BY DEF DbInv, TypeOK
  <2>2. Len(db) \in Nat
    BY <2>1, LenProperties
  <2> QED BY <1>1, <1>2, <2>2
<1>9. Len(File(First(objs, j - 1))) = p
  BY <1>4 DEF Place
<1> QED BY <1>2, <1>4, <1>5, <1>6, <1>7, <1>8, <1>9

(* The steps that spoil a file that was whole.                             *)
Spoils ==
  \/ cmd.kind = "open"
  \/ pc = "write" /\ \E x \in Seq(Byte) : db' = db \o x
  \/ pc \in {"move", "truncate"} /\ db' = db

LEMMA FailSpoils ==
  ASSUME DbInv, FileOK, intact, ~intact', pc # "spin", db' = db, Fail PROVE Spoils
<1>1. CASE pc \in {"off", "menu", "walk"}
  <2>1. db = stable
    BY <1>1 DEF FileOK
  <2> QED BY <2>1 DEF Fail, Spoils
<1>2. CASE pc = "write"
  <2>1. db \in Seq(Byte) /\ db \o <<>> = db /\ <<>> \in Seq(Byte)
    BY ConcatEmptySeq DEF DbInv, TypeOK
  <2> QED BY <1>2, <2>1 DEF Spoils
<1>3. CASE pc \in {"move", "truncate"}
  BY <1>3 DEF Spoils
<1> QED BY <1>1, <1>2, <1>3 DEF DbInv, TypeOK

LEMMA OnlySpoils ==
  ASSUME DbInv, FileOK, DataOK, intact, Next, ~intact' PROVE Spoils
<1>0. pc # "spin"
  BY DEF DataOK, Unmade, Creating, Holds
<1>1. CASE open_database_file \/ Commands \/ Quit
  BY <1>1 DEF open_database_file, Commands, Command, Quit, Spin, history
<1>2. CASE find_object
  <2>1. Breaks
    BY <1>2 DEF find_object, Ends, Finish, Spin, history
  <2> QED BY <1>0, <2>1, FailSpoils DEF Breaks
<1>3. CASE locate_object
  <2>1. \/ NotFound \/ Spin \/ Breaks \/ (\E place : Found(place)) \/ UNCHANGED history
    BY <1>3 DEF locate_object
  <2>2. ASSUME NEW place, Found(place) PROVE Breaks
    BY <2>2 DEF Found, export_object, delete_object, Ends, Finish, Spin, history
  <2>3. Breaks
    BY <2>1, <2>2 DEF NotFound, Ends, Finish, Spin, history
  <2> QED BY <1>0, <2>3, FailSpoils DEF Breaks
<1>4. CASE safe_write \/ transfer_data
  BY <1>4 DEF safe_write, transfer_data, Finish, history
<1>5. CASE ftruncate
  <2>1. UNCHANGED db /\ Fail
    BY <1>5 DEF ftruncate, Finish
  <2> QED BY <1>0, <2>1, FailSpoils
<1>6. CASE ShortWrite \/ DiskFull
  <2>1. todo # <<>> /\ pc = "write" /\ Head(todo) \in Seq(Byte)
    BY <1>6, HeadOfTodo DEF ShortWrite, DiskFull
  <2>2. PICK n \in Nat : n <= Len(Head(todo)) /\ db' = db \o SubSeq(Head(todo), 1, n)
    <3>1. PICK l \in Nat : l = Len(Head(todo))
      BY <2>1, LenProperties
    <3>2. \E n \in Nat : n <= l /\ db' = db \o SubSeq(Head(todo), 1, n)
      <4>1. CASE ShortWrite
        <5>1. PICK n \in 1 .. l - 1 : db' = db \o SubSeq(Head(todo), 1, n)
          BY <3>1, <4>1 DEF ShortWrite
        <5>2. n \in Nat /\ n <= l
          BY ONLY l \in Nat, n \in 1 .. l - 1
        <5> QED BY <5>1, <5>2
      <4>2. CASE DiskFull
        <5>1. PICK n \in 0 .. l - 1 : db' = db \o SubSeq(Head(todo), 1, n)
          BY <3>1, <4>2 DEF DiskFull
        <5>2. n \in Nat /\ n <= l
          BY ONLY l \in Nat, n \in 0 .. l - 1
        <5> QED BY <5>1, <5>2
      <4> QED BY <1>6, <4>1, <4>2
    <3> QED BY <3>1, <3>2
  <2>3. SubSeq(Head(todo), 1, n) \in Seq(Byte)
    BY <2>1, <2>2, FrontOf
  <2> QED BY <2>1, <2>2, <2>3 DEF Spoils
<1>7. CASE SourceShrinks
  <2>1. pc = "write" /\ db' = db
    BY <1>7 DEF SourceShrinks
  <2>2. db \in Seq(Byte) /\ db \o <<>> = db /\ <<>> \in Seq(Byte)
    BY ConcatEmptySeq DEF DbInv, TypeOK
  <2> QED BY <2>1, <2>2 DEF Spoils
<1>8. CASE Kill
  BY <1>0, <1>8, FailSpoils DEF Kill
<1> QED BY <1>1, <1>2, <1>3, <1>4, <1>5, <1>6, <1>7, <1>8 DEF Next, Program

LEMMA Spares ==
  ASSUME DbInv, FileOK, DataOK, DbInv', Next, intact, ~intact'
  PROVE  IsPrefix(InFront, Decode(db'))
<1>0. db' \in Seq(Byte) /\ db \in Seq(Byte)
  BY DEF DbInv, TypeOK
<1>1. Spoils
  BY OnlySpoils
<1>2. CASE Creating \/ Unmade
  <2>1. Decode(stable) = <<>>
    BY <1>2, DecodeNothing DEF Creating, Unmade
  <2>2. {Len(<<>>) + 1} \cup {i \in DOMAIN <<>> : <<>>[i][1] = cmd.name} = {1, 1}
    OBVIOUS
  <2>3. Min({1, 1}) = 1
    BY MinOfTwo
  <2>4. InFront = <<>>
    BY <2>1, <2>2, <2>3 DEF InFront
  <2> QED BY <1>0, <2>4, NothingFirst
<1>3. ASSUME NEW objs \in Seq(Stored), Holds(objs) PROVE IsPrefix(InFront, Decode(db'))
  <2>1. CASE pc = "write"
    <3>1. PICK x \in Seq(Byte) : db' = db \o x
      BY <1>1, <1>3, <2>1 DEF Spoils, Holds
    <3>2. /\ InFront = objs /\ Len(File(objs)) <= Len(db')
          /\ \A i \in 1 .. Len(File(objs)) : db'[i] = File(objs)[i]
      BY <1>3, <2>1, <3>1, ImportSpares
    <3>3. objs \in Seq(Objects)
      BY StoredIsFile
    <3> QED BY <1>0, <3>2, <3>3, DecodeStarts
  <2>2. CASE pc \in {"move", "truncate"}
    <3>1. db' = db
      BY <1>1, <1>3, <2>2 DEF Spoils, Holds
    <3>2. PICK front \in Seq(Objects) :
            InFront = front /\ Len(File(front)) <= Len(db) /\ \A i \in 1 .. Len(File(front)) : db[i] = File(front)[i]
      BY <2>2, DeleteSpares
    <3>3. IsPrefix(front, Decode(db))
      BY <1>0, <3>2, DecodeStarts
    <3> QED BY <3>1, <3>2, <3>3
  <2>3. CASE pc \in {"off", "menu", "walk"}
    <3>1. cmd.kind = "open"
      BY <1>1, <2>3 DEF Spoils
    <3> QED BY <1>3, <2>3, <3>1 DEF Holds, CommandOK
  <2> QED BY <1>3, <2>1, <2>2, <2>3 DEF Holds, DbInv, TypeOK
<1> QED BY <1>2, <1>3 DEF DataOK

(* hw1.c:283, 513-528: when a kill, a short write, a full disk or a source *)
(* that shrinks spoils a change, the file still decodes to the objects in  *)
(* front of the one that is changed, and then to whatever else is found    *)
(* there.                                                                  *)
THEOREM SparesWhatIsInFront == Spec => CrashSparesWhatIsInFront
<1> DEFINE Spared == intact /\ ~intact' => IsPrefix(InFront, Decode(db'))
<1>1. (DbInv /\ FileOK /\ DataOK) /\ (DbInv /\ FileOK /\ DataOK)' /\ [Next]_vars => [Spared]_vars
  BY Spares
<1> QED BY <1>1, DataAlways, PTL DEF Spec, CrashSparesWhatIsInFront
=============================================================================
