-------------------------- MODULE ArchiveFlow_proofs --------------------------
(***************************************************************************)
(* What travels through the pipes of Archiver: theorems about the archive  *)
(* and about the files restored from one, and that Archiver implements     *)
(* CopyJob, for any number of files, pipes of any size, and any failures.  *)
(***************************************************************************)
EXTENDS Archiver_proofs, SequenceTheorems

USE DEF Stages, StageCount, Lives, Living, Status, Alive, parent, children, history, data
USE ArchiveAssumption

PartNames == {"length", "name", "meta", "body"}
Contents  == {"empty", "good", "garbage", "spoilt"}
Gone      == {"dead", "reaped"}

LEMMA FourParts ==
  /\ Len(Parts) = 4 /\ DOMAIN Parts = 1 .. 4 /\ Range(Parts) = PartNames
  /\ Parts[1] = "length" /\ Parts[2] = "name" /\ Parts[3] = "meta" /\ Parts[4] = "body"
<1>1. /\ Len(Parts) = 4 /\ DOMAIN Parts = 1 .. 4
      /\ Parts[1] = "length" /\ Parts[2] = "name" /\ Parts[3] = "meta" /\ Parts[4] = "body"
  BY DEF Parts
<1>2. Range(Parts) = PartNames
  BY <1>1 DEF Range, PartNames
<1> QED BY <1>1, <1>2

LEMMA ItemsAre ==
  /\ Items = Files \X ({"path"} \cup PartNames) \cup Shrinking \X {"stale"}
  /\ \A x \in Items : x[1] \in Files /\ x[2] # "spoilt" /\ (x[2] = "stale" => x[1] \in Shrinking)
<1>1. Items = Files \X ({"path"} \cup PartNames) \cup Shrinking \X {"stale"}
  BY FourParts DEF Items
<1> QED BY <1>1 DEF Files, PartNames

(* A function on 1 .. n is a sequence of n elements.                       *)
LEMMA FunctionIsSeq ==
  ASSUME NEW S, NEW n \in Nat, NEW s \in [1 .. n -> S]
  PROVE  s \in Seq(S) /\ Len(s) = n /\ DOMAIN s = 1 .. n
<1>1. s \in Seq(S)
  BY SeqDef
<1>2. Len(s) \in Nat /\ DOMAIN s = 1 .. Len(s)
  BY <1>1, LenProperties
<1>3. DOMAIN s = 1 .. n
  OBVIOUS
<1>4. Len(s) = n
  BY <1>2, <1>3
<1> QED BY <1>1, <1>3, <1>4

(* The parts p2archive sends of a file, the body maybe stale.              *)
Sent(f, body) == [Record(f) EXCEPT ![4] = body]

LEMMA RecordOf ==
  ASSUME NEW f \in Files, NEW body \in transfer_data(f)
  PROVE  /\ Sent(f, body) \in Seq(Items) /\ Len(Sent(f, body)) = 4
         /\ \A i \in 1 .. 4 : Framed(Sent(f, body)[i]) = <<f, Parts[i]>>
<1>1. Record(f) = [i \in 1 .. 4 |-> <<f, Parts[i]>>]
  BY FourParts DEF Record
<1>2. body = <<f, "body">> \/ (f \in Shrinking /\ body = <<f, "stale">>)
  BY DEF transfer_data
<1>3. Sent(f, body) = [i \in 1 .. 4 |-> IF i = 4 THEN body ELSE <<f, Parts[i]>>]
  BY <1>1 DEF Sent
<1>4. Sent(f, body) \in [1 .. 4 -> Items]
  BY <1>2, <1>3, FourParts, ItemsAre DEF PartNames
<1>5. Sent(f, body) \in Seq(Items) /\ Len(Sent(f, body)) = 4
  BY <1>4, FunctionIsSeq
<1>6. ASSUME NEW i \in 1 .. 4 PROVE Framed(Sent(f, body)[i]) = <<f, Parts[i]>>
  <2>1. Sent(f, body)[i] = IF i = 4 THEN body ELSE <<f, Parts[i]>>
    BY <1>3
  <2>2. CASE i = 4
    BY <1>2, <2>1, <2>2, FourParts DEF Framed
  <2>3. CASE i # 4
    BY <2>1, <2>3, FourParts DEF Framed
  <2> QED BY <2>2, <2>3
<1> QED BY <1>5, <1>6

LEMMA FirstInputType ==
  ASSUME mode # "create" => archive \in Seq(Items)
  PROVE  /\ FirstInput \in Seq(Items)
         /\ mode = "create" => Len(FirstInput) = NumFiles /\ \A f \in Files : FirstInput[f] = <<f, "path">>
<1>1. CASE mode = "create"
  <2>1. FirstInput = [f \in Files |-> <<f, "path">>]
    BY <1>1 DEF FirstInput
  <2>2. FirstInput \in [1 .. NumFiles -> Items]
    BY <2>1, ItemsAre DEF Files
  <2> QED BY <2>1, <2>2, FunctionIsSeq
<1>2. CASE mode # "create"
  BY <1>2 DEF FirstInput
<1> QED BY <1>1, <1>2

(* Which stage runs which program.                                         *)
LEMMA Programs ==
  ASSUME NEW k \in Stages, Runs(k)
  PROVE  /\ k > 1 /\ Program(k) = "p2archive" => mode = "create" /\ k = 2
         /\ k > 1 /\ Program(k) = "p2crypt" => mode = "create" /\ k = 3
         /\ Program(k) = "p2unarchive" => mode # "create" /\ k = 2
<1>1. CASE mode = "create"
  BY <1>1 DEF Program, Runs
<1>2. CASE mode # "create"
  BY <1>2 DEF Program, Runs
<1> QED BY <1>1, <1>2

-----------------------------------------------------------------------------
(* The types of what travels.                                              *)
BufOK ==
  /\ mode \in {"create", "extract"} /\ denied \subseteq Files
  /\ archive \in Seq(Items)
  /\ pipe \in [{1, 2} -> Seq(Items)] /\ \A i \in {1, 2} : Len(pipe[i]) <= PipeSize
  /\ todo \in [Stages -> Seq(Items)]

LEMMA BufInit == Init => BufOK
<1> SUFFICES ASSUME Init PROVE BufOK
  OBVIOUS
<1>1. archive \in Seq(Items)
  <2>1. CASE archive = <<>>
    BY <2>1
  <2>2. ASSUME NEW n \in 0 .. NumFiles * Len(Parts), archive = [i \in 1 .. n |-> Cell(i)]
        PROVE  archive \in Seq(Items)
    <3>1. n \in 0 .. NumFiles * 4
      BY FourParts
    <3>2. ASSUME NEW i \in 1 .. n PROVE Cell(i) \in Items
      <4>1. ((i - 1) \div 4) + 1 \in 1 .. NumFiles /\ ((i - 1) % 4) + 1 \in 1 .. 4
        BY <3>1
      <4>2. Parts[((i - 1) % 4) + 1] \in PartNames
        BY <4>1, FourParts DEF PartNames
      <4> QED BY <4>1, <4>2, FourParts, ItemsAre DEF Cell, Files
    <3>3. archive \in [1 .. n -> Items]
      BY <2>2, <3>2
    <3> QED BY <3>1, <3>3, FunctionIsSeq
  <2> QED BY <2>1, <2>2 DEF Init
<1>2. pipe \in [{1, 2} -> Seq(Items)] /\ \A i \in {1, 2} : Len(pipe[i]) <= PipeSize
  BY DEF Init
<1>3. todo \in [Stages -> Seq(Items)]
  BY DEF Init
<1>4. mode \in {"create", "extract"} /\ denied \subseteq Files
  BY DEF Init
<1> QED BY <1>1, <1>2, <1>3, <1>4 DEF BufOK

(* The parent moves nothing that travels.                                  *)
LEMMA ParentMovesNothing ==
  ASSUME ParentStep \/ ParentFails PROVE UNCHANGED <<data, pipe, todo>>
<1>1. CASE SetUp \/ my_fork \/ close_multiple_fd \/ SetUpFails
  BY <1>1 DEF SetUp, my_fork, close_multiple_fd, SetUpFails
<1>2. CASE wait_all_processes
  BY <1>2 DEF wait_all_processes, Waited, NobodyToWait, GiveUp
<1>3. CASE my_fork_fails
  BY <1>3 DEF my_fork_fails, GiveUp
<1>4. CASE close_fails
  BY <1>4 DEF close_fails, GiveUp
<1> QED BY <1>1, <1>2, <1>3, <1>4 DEF ParentStep, ParentFails

(* A write moves the first item of what a stage has in hand.               *)
LEMMA WriteBuf ==
  ASSUME BufOK, NEW k \in Stages, my_write(k), UNCHANGED <<mode, denied>> PROVE BufOK'
<1> USE DEF BufOK
<1>1. /\ Head(todo[k]) \in Items /\ [todo EXCEPT ![k] = Tail(@)] \in [Stages -> Seq(Items)]
      /\ Runs(k)
  BY DEF my_write
<1>2. CASE mode = "create" /\ k = 3
  <2>1. archive' = Append(archive, Head(todo[k])) /\ todo' = [todo EXCEPT ![k] = Tail(@)] /\ pipe' = pipe
    BY <1>2 DEF my_write, WriteArchive
  <2> QED BY <1>1, <2>1
<1>3. CASE ~(mode = "create" /\ k = 3)
  <2>1. WritePipe(k) /\ k \in {1, 2}
    BY <1>1, <1>3 DEF my_write, Runs
  <2>2. CASE UNCHANGED <<pipe, todo>>
    BY <2>1, <2>2 DEF WritePipe
  <2>3. CASE ~UNCHANGED <<pipe, todo>>
    <3>1. /\ Len(pipe[k]) < PipeSize /\ pipe' = [pipe EXCEPT ![k] = Append(@, Head(todo[k]))]
          /\ todo' = [todo EXCEPT ![k] = Tail(@)] /\ archive' = archive
      BY <2>1, <2>3 DEF WritePipe
    <3>2. /\ Append(pipe[k], Head(todo[k])) \in Seq(Items)
          /\ Len(Append(pipe[k], Head(todo[k]))) <= PipeSize
      BY <1>1, <2>1, <3>1
    <3> QED BY <1>1, <2>1, <3>1, <3>2
  <2> QED BY <2>2, <2>3
<1> QED BY <1>2, <1>3

(* A read takes the first item of a pipe.                                  *)
LEMMA ReadBuf ==
  ASSUME BufOK, NEW k \in Stages, NEW program, Reads(k, program)
  PROVE  /\ k - 1 \in {1, 2} /\ Head(pipe[k - 1]) \in Items
         /\ pipe' \in [{1, 2} -> Seq(Items)] /\ \A i \in {1, 2} : Len(pipe'[i]) <= PipeSize
         /\ pipe'[k - 1] = Tail(pipe[k - 1]) /\ \A i \in {1, 2} : i # k - 1 => pipe'[i] = pipe[i]
<1>1. /\ k - 1 \in {1, 2} /\ pipe[k - 1] # <<>> /\ pipe' = [pipe EXCEPT ![k - 1] = Tail(@)]
      /\ pipe[k - 1] \in Seq(Items) /\ Len(pipe[k - 1]) <= PipeSize
  BY DEF Reads, BufOK
<1>2. /\ Head(pipe[k - 1]) \in Items /\ Tail(pipe[k - 1]) \in Seq(Items)
      /\ Len(Tail(pipe[k - 1])) <= PipeSize
  BY <1>1
<1> QED BY <1>1, <1>2 DEF BufOK

LEMMA StageBuf ==
  ASSUME BufOK, NEW k \in Stages, Stage(k), UNCHANGED <<mode, denied>> PROVE BufOK'
<1>1. CASE my_write(k)
  BY <1>1, WriteBuf
<1>2. CASE archive_file(k)
  <2>1. Reads(k, "p2archive") /\ UNCHANGED archive
    BY <1>2 DEF archive_file
  <2>2. /\ k - 1 \in {1, 2} /\ Head(pipe[k - 1]) \in Items
        /\ pipe' \in [{1, 2} -> Seq(Items)] /\ \A i \in {1, 2} : Len(pipe'[i]) <= PipeSize
    BY <2>1, ReadBuf
  <2>3. Head(pipe[k - 1])[1] \in Files
    BY <2>2, ItemsAre
  <2>4. CASE todo' = todo
    BY <2>1, <2>2, <2>4 DEF BufOK
  <2>5. CASE todo' # todo
    <3>1. PICK body \in transfer_data(Head(pipe[k - 1])[1]) :
            todo' = [todo EXCEPT ![k] = Sent(Head(pipe[k - 1])[1], body)]
      BY <1>2, <2>5 DEF archive_file, Sent
    <3>2. Sent(Head(pipe[k - 1])[1], body) \in Seq(Items)
      BY <2>3, RecordOf
    <3> QED BY <2>1, <2>2, <3>1, <3>2 DEF BufOK
  <2> QED BY <2>4, <2>5
<1>3. CASE Encrypt(k)
  <2>1. Reads(k, "p2crypt") /\ UNCHANGED archive /\ todo' = [todo EXCEPT ![k] = <<Head(pipe[k - 1])>>]
    BY <1>3 DEF Encrypt
  <2>2. /\ Head(pipe[k - 1]) \in Items
        /\ pipe' \in [{1, 2} -> Seq(Items)] /\ \A i \in {1, 2} : Len(pipe'[i]) <= PipeSize
    BY <2>1, ReadBuf
  <2>3. <<Head(pipe[k - 1])>> \in Seq(Items)
    BY <2>2
  <2> QED BY <2>1, <2>2, <2>3 DEF BufOK
<1>4. CASE reproduce_file(k)
  <2>1. Reads(k, "p2unarchive") /\ UNCHANGED <<archive, todo>>
    BY <1>4 DEF reproduce_file
  <2>2. pipe' \in [{1, 2} -> Seq(Items)] /\ \A i \in {1, 2} : Len(pipe'[i]) <= PipeSize
    BY <2>1, ReadBuf
  <2> QED BY <2>1, <2>2 DEF BufOK
<1>5. CASE EndOfInput(k) \/ EndOfRecords(k) \/ FirstEnds
  BY <1>5 DEF EndOfInput, EndOfRecords, FirstEnds, BufOK
<1> QED BY <1>1, <1>2, <1>3, <1>4, <1>5 DEF Stage

LEMMA BufStep == BufOK /\ [Next]_vars => BufOK'
<1> SUFFICES ASSUME BufOK, [Next]_vars PROVE BufOK'
  OBVIOUS
<1>1. UNCHANGED <<mode, denied>>
  BY DEF Next, vars
<1>2. CASE UNCHANGED <<data, pipe, todo>>
  BY <1>1, <1>2 DEF BufOK
<1>3. ASSUME NEW k \in Stages, NEW input \in Seq(Items), redirected_exec(k, input) PROVE BufOK'
  BY <1>1, <1>3 DEF redirected_exec, BufOK
<1>4. FirstInput \in Seq(Items) /\ <<>> \in Seq(Items)
  BY FirstInputType DEF BufOK
<1>5. ASSUME NEW k \in Stages, Child(k) PROVE BufOK'
  BY <1>1, <1>3, <1>4, <1>5, StageBuf DEF Child
<1>6. CASE (\E k \in Stages : StageFails(k)) \/ UNCHANGED vars
  BY <1>2, <1>6 DEF StageFails, vars
<1> QED BY <1>2, <1>5, <1>6, ParentMovesNothing DEF Next

-----------------------------------------------------------------------------
(* How lives go on, as far as the flow depends on them: nobody is forked   *)
(* or run by anybody else's step, the dead stay dead, and a stage that     *)
(* ends normally has read and written everything.                          *)
Fresh(k) == life[k] \in {"none", "forked"}

Drained(k) ==
  /\ k > 1 => pipe[k - 1] = <<>>
  /\ k = 1 \/ mode = "create" => todo[k] = <<>>

HowOK ==
  /\ life \in [Stages -> Lives] /\ how \in [Stages -> Status]
  /\ \A k \in Stages : /\ life[k] \notin Gone => how[k] = "none"
                       /\ Fresh(k) => todo[k] = <<>>

LivesGoOn ==
  /\ life' \in [Stages -> Lives] /\ how' \in [Stages -> Status]
  /\ \A k \in Stages :
       /\ Fresh(k)' => Fresh(k)
       /\ life'[k] = "runs" => life[k] = "runs"
       /\ life[k] \in Gone => life'[k] \in Gone /\ how'[k] = how[k]
       /\ life'[k] \notin Gone => how'[k] = how[k]
       /\ how'[k] = "ok" => how[k] = "ok" \/ (life[k] = "runs" /\ Drained(k))

LEMMA EndGoesOn ==
  ASSUME HowOK, NEW k \in Stages, Alive(k), NEW status \in Status, End(k, status),
         status = "ok" => life[k] = "runs" /\ Drained(k)
  PROVE  LivesGoOn
<1>1. life' = [life EXCEPT ![k] = "dead"] /\ how' = [how EXCEPT ![k] = status]
  BY DEF End
<1>2. /\ life' \in [Stages -> Lives] /\ how' \in [Stages -> Status]
      /\ \A j \in Stages : /\ life'[j] = IF j = k THEN "dead" ELSE life[j]
                           /\ how'[j] = IF j = k THEN status ELSE how[j]
  BY <1>1 DEF HowOK
<1> QED BY <1>2 DEF LivesGoOn, Fresh, Gone

LEMMA SameGoesOn == ASSUME HowOK, UNCHANGED <<life, how>> PROVE LivesGoOn
  BY DEF HowOK, LivesGoOn, Fresh

(* kill_all_children ends who is alive, and knows who has been reaped.     *)
LEMMA GiveUpGoesOn ==
  ASSUME HowOK, NEW table, NEW n, NEW lives \in [Stages -> Lives], GiveUp(table, n, lives),
         \A k \in Stages : lives[k] = life[k] \/ (life[k] = "dead" /\ lives[k] = "reaped")
  PROVE  LivesGoOn
<1>1. PICK killed \in SUBSET Stages :
        /\ life' = [k \in Stages |-> IF k \in killed THEN "dead" ELSE lives[k]]
        /\ how' = [k \in Stages |-> IF k \in killed THEN "signal" ELSE how[k]]
        /\ \A k \in killed : lives[k] \in Living
  <2> DEFINE hit == Targets(table, n, lives)
             all == \E k \in hit : table[k] = -1
             killed == {k \in Stages : lives[k] \in Living /\ (all \/ k \in hit)}
  <2>1. kill_all_children(table, n, lives)
    BY DEF GiveUp
  <2>2. /\ life' = [k \in Stages |-> IF k \in killed THEN "dead" ELSE lives[k]]
        /\ how' = [k \in Stages |-> IF k \in killed THEN "signal" ELSE how[k]]
    BY <2>1 DEF kill_all_children
  <2>3. killed \in SUBSET Stages /\ \A k \in killed : lives[k] \in Living
    OBVIOUS
  <2> HIDE DEF killed
  <2> QED BY <2>2, <2>3
<1>2. /\ life' \in [Stages -> Lives] /\ how' \in [Stages -> Status]
      /\ \A j \in Stages : /\ life'[j] = IF j \in killed THEN "dead" ELSE lives[j]
                           /\ how'[j] = IF j \in killed THEN "signal" ELSE how[j]
  BY <1>1 DEF HowOK
<1> QED BY <1>1, <1>2 DEF LivesGoOn, Fresh, Gone

LEMMA ParentGoesOn == ASSUME ArchiveInv, HowOK, ParentStep \/ ParentFails PROVE LivesGoOn
<1>1. CASE SetUp \/ close_multiple_fd \/ SetUpFails
  BY <1>1, SameGoesOn DEF SetUp, close_multiple_fd, SetUpFails
<1>2. CASE my_fork
  <2>1. at \in Stages /\ life[at] = "none"
    BY <1>2 DEF ArchiveInv, ControlOK, TableOK, Forked, my_fork
  <2>2. life' = [life EXCEPT ![at] = "forked"] /\ how' = how
    BY <1>2 DEF my_fork
  <2>3. life' \in [Stages -> Lives] /\ \A j \in Stages : life'[j] = IF j = at THEN "forked" ELSE life[j]
    BY <2>1, <2>2 DEF HowOK
  <2> QED BY <2>1, <2>2, <2>3 DEF LivesGoOn, Fresh, Gone, HowOK
<1>3. CASE my_fork_fails
  <2>1. CASE UNCHANGED <<life, how>>
    BY <2>1, SameGoesOn
  <2>2. CASE ~UNCHANGED <<life, how>>
    <3>1. GiveUp([processes EXCEPT ![at] = -1], at - 1, life)
      BY <1>3, <2>2 DEF my_fork_fails
    <3> QED BY <3>1, GiveUpGoesOn DEF HowOK
  <2> QED BY <2>1, <2>2
<1>4. CASE close_fails
  BY <1>4, GiveUpGoesOn DEF close_fails, HowOK
<1>5. CASE NobodyToWait
  BY <1>5, GiveUpGoesOn DEF NobodyToWait, HowOK
<1>6. ASSUME NEW k \in Stages, Waited(k) PROVE LivesGoOn
  <2> DEFINE lives == [life EXCEPT ![k] = "reaped"]
             table == [j \in Stages |-> IF processes[j] = k /\ how[k] # "signal" THEN 0 ELSE processes[j]]
  <2>1. life[k] = "dead" /\ lives \in [Stages -> Lives]
        /\ \A j \in Stages : lives[j] = IF j = k THEN "reaped" ELSE life[j]
    BY <1>6 DEF Waited, HowOK
  <2>2. CASE how[k] = "ok"
    <3>1. life' = lives /\ how' = how
      BY <1>6, <2>2 DEF Waited
    <3> QED BY <2>1, <3>1 DEF LivesGoOn, Fresh, Gone, HowOK
  <2>3. CASE how[k] # "ok"
    <3>1. GiveUp(table, StageCount, lives)
      BY <1>6, <2>3 DEF Waited
    <3> HIDE DEF lives, table
    <3> QED BY <2>1, <3>1, GiveUpGoesOn
  <2> QED BY <2>2, <2>3
<1> QED BY <1>1, <1>2, <1>3, <1>4, <1>5, <1>6 DEF ParentStep, ParentFails, wait_all_processes

LEMMA StageGoesOn ==
  ASSUME HowOK, NEW k \in Stages, Stage(k) \/ StageFails(k) PROVE LivesGoOn
<1>1. CASE my_write(k)
  <2>1. Alive(k)
    BY <1>1 DEF my_write, Runs
  <2>2. UNCHANGED <<life, how>> \/ \E status \in {"fail", "signal"} : End(k, status)
    BY <1>1 DEF my_write, WriteArchive, WritePipe
  <2> QED BY <2>1, <2>2, SameGoesOn, EndGoesOn
<1>2. CASE archive_file(k) \/ Encrypt(k) \/ reproduce_file(k)
  BY <1>2, SameGoesOn DEF archive_file, Encrypt, reproduce_file
<1>3. CASE EndOfInput(k)
  BY <1>3, EndGoesOn DEF EndOfInput, Runs, AtEnd, Drained
<1>4. CASE EndOfRecords(k)
  <2>1. life[k] = "runs" /\ \E status \in {"ok", "fail"} : End(k, status)
    BY <1>4 DEF EndOfRecords, Runs
  <2>2. Drained(k)
    <3>1. k > 1 /\ Runs(k) /\ Program(k) = "p2unarchive" /\ pipe[k - 1] = <<>>
      BY <1>4 DEF EndOfRecords, AtEnd
    <3> QED BY <3>1, Programs DEF Drained
  <2> QED BY <2>1, <2>2, EndGoesOn
<1>5. CASE k = 1 /\ FirstEnds
  BY <1>5, EndGoesOn DEF FirstEnds, Runs, Drained
<1>6. CASE StageFails(k)
  BY <1>6, EndGoesOn DEF StageFails
<1> QED BY <1>1, <1>2, <1>3, <1>4, <1>5, <1>6 DEF Stage

(* Who runs has been run by redirected_exec, and touches only its own hand.*)
LEMMA HowStep == ArchiveInv /\ BufOK /\ HowOK /\ [Next]_vars => HowOK'
<1> SUFFICES ASSUME ArchiveInv, BufOK, HowOK, [Next]_vars PROVE HowOK'
  OBVIOUS
<1>1. ASSUME LivesGoOn, \A k \in Stages : todo'[k] = todo[k] \/ life[k] = "runs" PROVE HowOK'
  BY <1>1 DEF LivesGoOn, HowOK, Fresh, Gone
<1>2. CASE (ParentStep \/ ParentFails)
  BY <1>1, <1>2, ParentGoesOn, ParentMovesNothing
<1>3. ASSUME NEW k \in Stages, Stage(k) PROVE HowOK'
  <2>1. todo' = todo \/ (Runs(k) /\ \E s : todo' = [todo EXCEPT ![k] = s])
    BY <1>3 DEF Stage, my_write, WriteArchive, WritePipe, archive_file, Encrypt, reproduce_file,
                EndOfInput, EndOfRecords, FirstEnds, Reads
  <2>2. \A j \in Stages : todo'[j] = todo[j] \/ life[j] = "runs"
    BY <2>1 DEF Runs, BufOK
  <2> QED BY <1>1, <1>3, <2>2, StageGoesOn
<1>4. ASSUME NEW k \in Stages, StageFails(k) PROVE HowOK'
  BY <1>1, <1>4, StageGoesOn DEF StageFails
<1>5. ASSUME NEW k \in Stages, NEW input, redirected_exec(k, input) PROVE HowOK'
  <2>1. /\ life[k] = "forked" /\ life' = [life EXCEPT ![k] = "runs"] /\ how' = how
        /\ todo' = [todo EXCEPT ![k] = input]
    BY <1>5 DEF redirected_exec
  <2>2. /\ life' \in [Stages -> Lives] /\ how' \in [Stages -> Status]
        /\ \A j \in Stages : /\ life'[j] = IF j = k THEN "runs" ELSE life[j]
                             /\ j # k => todo'[j] = todo[j]
    BY <2>1 DEF HowOK, BufOK
  <2> QED BY <2>1, <2>2 DEF HowOK, Fresh, Gone
<1>6. CASE UNCHANGED vars
  BY <1>1, <1>6, SameGoesOn DEF vars
<1> QED BY <1>2, <1>3, <1>4, <1>5, <1>6 DEF Next, Child

-----------------------------------------------------------------------------
(* A buffer holds a run of a stream W, the items behind the first b.       *)
Run(s, b, W) == \A i \in DOMAIN s : b + i \in DOMAIN W /\ s[i] = W[b + i]

LEMMA EmptyRun == ASSUME NEW b, NEW W PROVE Run(<<>>, b, W)
  BY DEF Run

LEMMA WholeRun == ASSUME NEW S, NEW W \in Seq(S) PROVE Run(W, 0, W)
<1>1. \A i \in DOMAIN W : 0 + i = i
  OBVIOUS
<1> QED BY <1>1 DEF Run

LEMMA RunTail ==
  ASSUME NEW S, NEW s \in Seq(S), s # <<>>, NEW b \in Nat, NEW W, Run(s, b, W)
  PROVE  /\ b + 1 \in DOMAIN W /\ Head(s) = W[b + 1]
         /\ Run(Tail(s), b + 1, W) /\ Len(Tail(s)) = Len(s) - 1
<1>1. 1 \in DOMAIN s /\ Head(s) = s[1] /\ Len(Tail(s)) = Len(s) - 1
  OBVIOUS
<1>2. ASSUME NEW i \in DOMAIN Tail(s) PROVE (b + 1) + i \in DOMAIN W /\ Tail(s)[i] = W[(b + 1) + i]
  <2>1. i + 1 \in DOMAIN s /\ Tail(s)[i] = s[i + 1] /\ b + (i + 1) = (b + 1) + i
    BY <1>1
  <2>2. b + (i + 1) \in DOMAIN W /\ s[i + 1] = W[b + (i + 1)]
    BY <2>1 DEF Run
  <2> QED BY <2>1, <2>2
<1>3. b + 1 \in DOMAIN W /\ s[1] = W[b + 1]
  BY <1>1 DEF Run
<1> QED BY <1>1, <1>2, <1>3 DEF Run

LEMMA RunAppend ==
  ASSUME NEW S, NEW s \in Seq(S), NEW x \in S, NEW b \in Nat, NEW W, Run(s, b, W),
         b + Len(s) + 1 \in DOMAIN W, x = W[b + Len(s) + 1]
  PROVE  Run(Append(s, x), b, W) /\ Len(Append(s, x)) = Len(s) + 1
<1>1. Len(Append(s, x)) = Len(s) + 1 /\ DOMAIN Append(s, x) = 1 .. Len(s) + 1 /\ Len(s) \in Nat
  OBVIOUS
<1>2. ASSUME NEW i \in 1 .. Len(s) + 1 PROVE b + i \in DOMAIN W /\ Append(s, x)[i] = W[b + i]
  <2>1. CASE i = Len(s) + 1
    <3>1. b + i = b + Len(s) + 1 /\ Append(s, x)[i] = x
      BY <2>1
    <3> QED BY <3>1
  <2>2. CASE i # Len(s) + 1
    <3>1. i \in DOMAIN s /\ Append(s, x)[i] = s[i]
      BY <2>2
    <3> QED BY <3>1 DEF Run
  <2> QED BY <2>1, <2>2
<1> QED BY <1>1, <1>2 DEF Run

LEMMA RunOfOne ==
  ASSUME NEW x, NEW b \in Nat, NEW W, b + 1 \in DOMAIN W, x = W[b + 1]
  PROVE  Run(<<x>>, b, W) /\ Len(<<x>>) = 1
  BY DEF Run

LEMMA RunExtended ==
  ASSUME NEW s, NEW b, NEW S, NEW W \in Seq(S), NEW R \in Seq(S), Run(s, b, W)
  PROVE  Run(s, b, W \o R)
<1>1. DOMAIN W = 1 .. Len(W) /\ DOMAIN (W \o R) = 1 .. Len(W) + Len(R) /\ Len(R) \in Nat /\ Len(W) \in Nat
  OBVIOUS
<1>2. \A i \in DOMAIN W : i \in DOMAIN (W \o R) /\ (W \o R)[i] = W[i]
  BY <1>1
<1> QED BY <1>2 DEF Run

LEMMA RunOfRest ==
  ASSUME NEW S, NEW W \in Seq(S), NEW R \in Seq(S)
  PROVE  Run(R, Len(W), W \o R) /\ Len(W \o R) = Len(W) + Len(R)
<1>1. DOMAIN R = 1 .. Len(R) /\ DOMAIN (W \o R) = 1 .. Len(W) + Len(R) /\ Len(R) \in Nat /\ Len(W) \in Nat
  OBVIOUS
<1>2. ASSUME NEW i \in DOMAIN R PROVE Len(W) + i \in DOMAIN (W \o R) /\ R[i] = (W \o R)[Len(W) + i]
  <2>1. Len(W) + i \in Len(W) + 1 .. Len(W) + Len(R) /\ (Len(W) + i) - Len(W) = i
    BY <1>1
  <2>2. (W \o R)[Len(W) + i] = R[(Len(W) + i) - Len(W)]
    BY <1>1, <2>1
  <2> QED BY <1>1, <2>1, <2>2
<1> QED BY <1>1, <1>2 DEF Run

-----------------------------------------------------------------------------
(* ArchiveInOrder of any stream.                                           *)
FilesUpTo(c) == {f \in Files \ denied : f <= c}

InOrder(W) ==
  \A i \in DOMAIN W :
    /\ Framed(W[i])[2] = Parts[((i - 1) % Len(Parts)) + 1]
    /\ i > 1 => IF i % Len(Parts) = 1 THEN W[i - 1][1] < W[i][1] ELSE W[i - 1][1] = W[i][1]
    /\ {W[j][1] : j \in 1 .. i} = FilesUpTo(W[i][1])

Records(W, c) ==
  /\ W \in Seq(Items) /\ InOrder(W)
  /\ Len(W) % 4 = 0
  /\ {W[j][1] : j \in 1 .. Len(W)} = FilesUpTo(c)

LEMMA RunInOrder ==
  ASSUME NEW s \in Seq(Items), NEW W \in Seq(Items), InOrder(W), Run(s, 0, W)
  PROVE  InOrder(s)
<1>1. \A i \in DOMAIN s : i \in Nat \ {0} /\ i \in DOMAIN W /\ s[i] = W[i]
  BY DEF Run
<1>2. ASSUME NEW i \in DOMAIN s
      PROVE  /\ Framed(s[i])[2] = Parts[((i - 1) % Len(Parts)) + 1]
             /\ i > 1 => IF i % Len(Parts) = 1 THEN s[i - 1][1] < s[i][1] ELSE s[i - 1][1] = s[i][1]
             /\ {s[j][1] : j \in 1 .. i} = FilesUpTo(s[i][1])
  <2>1. \A j \in 1 .. i : j \in DOMAIN s /\ s[j] = W[j]
    BY <1>1
  <2>2. {s[j][1] : j \in 1 .. i} = {W[j][1] : j \in 1 .. i}
    BY <2>1
  <2>3. i > 1 => i - 1 \in 1 .. i
    BY <1>1
  <2>4. /\ Framed(W[i])[2] = Parts[((i - 1) % Len(Parts)) + 1]
        /\ i > 1 => IF i % Len(Parts) = 1 THEN W[i - 1][1] < W[i][1] ELSE W[i - 1][1] = W[i][1]
        /\ {W[j][1] : j \in 1 .. i} = FilesUpTo(W[i][1])
    BY <1>1 DEF InOrder
  <2>5. i > 1 => s[i - 1] = W[i - 1]
    BY <2>1, <2>3
  <2> QED BY <1>1, <2>2, <2>4, <2>5
<1> QED BY <1>2 DEF InOrder

(* The record of the next file goes on where the stream ends.              *)
LEMMA PlaceInRecord ==
  ASSUME NEW n \in Nat, n % 4 = 0, NEW r \in 1 .. 4
  PROVE  /\ ((n + r) - 1) % 4 = r - 1
         /\ (n + r) % 4 = 1 <=> r = 1
         /\ (n + 4) % 4 = 0
<1>1. \A k \in 0 .. 3 : (n + k) % 4 = k
  OBVIOUS
<1>2. (n + r) - 1 = n + (r - 1) /\ r - 1 \in 0 .. 3
  OBVIOUS
<1>3. (n + 4) % 4 = 0
  OBVIOUS
<1> QED BY <1>1, <1>2, <1>3

LEMMA FileDenied ==
  ASSUME NEW W, NEW c \in Nat, Records(W, c), c + 1 \in denied
  PROVE  Records(W, c + 1)
<1>1. FilesUpTo(c + 1) = FilesUpTo(c)
  BY DEF FilesUpTo, Files
<1> QED BY <1>1 DEF Records

LEMMA FileSent ==
  ASSUME NEW W, NEW c \in Nat, Records(W, c), c + 1 \in Files, c + 1 \notin denied,
         NEW body \in transfer_data(c + 1)
  PROVE  Records(W \o Sent(c + 1, body), c + 1)
<1> DEFINE f == c + 1
           R == Sent(f, body)
           V == W \o R
           n == Len(W)
<1>1. /\ W \in Seq(Items) /\ n \in Nat /\ n % 4 = 0 /\ DOMAIN W = 1 .. n
      /\ {W[j][1] : j \in 1 .. n} = FilesUpTo(c) /\ InOrder(W)
  BY DEF Records
<1>2. /\ R \in Seq(Items) /\ Len(R) = 4 /\ \A r \in 1 .. 4 : Framed(R[r]) = <<f, Parts[r]>>
  BY RecordOf
<1>3. \A r \in 1 .. 4 : R[r][1] = f
  BY <1>2, FourParts DEF Framed
<1> HIDE DEF R
<1>4. /\ V \in Seq(Items) /\ Len(V) = n + 4 /\ DOMAIN V = 1 .. n + 4
      /\ \A j \in 1 .. n : V[j] = W[j]
  <2>1. Len(V) = n + 4
    BY <1>1, <1>2, RunOfRest
  <2>2. V \in Seq(Items)
    BY <1>1, <1>2
  <2>3. ASSUME NEW j \in 1 .. n PROVE V[j] = W[j]
    <3>1. Run(W, 0, V)
      BY <1>1, <1>2, WholeRun, RunExtended
    <3>2. j \in DOMAIN W /\ 0 + j = j
      BY <1>1, <2>3
    <3> QED BY <3>1, <3>2 DEF Run
  <2> QED BY <2>1, <2>2, <2>3
<1>5. ASSUME NEW r \in 1 .. 4 PROVE V[n + r] = R[r]
  <2>1. Run(R, n, V)
    BY <1>1, <1>2, RunOfRest
  <2>2. r \in DOMAIN R
    BY <1>2
  <2> QED BY <2>1, <2>2 DEF Run
<1> HIDE DEF V, n
<1>6. ASSUME NEW r \in 1 .. 4 PROVE {V[j][1] : j \in 1 .. n + r} = FilesUpTo(f)
  <2>1. {V[j][1] : j \in 1 .. n + r} = FilesUpTo(c) \cup {f}
    <3>1. ASSUME NEW j \in 1 .. n + r PROVE V[j][1] \in FilesUpTo(c) \cup {f}
      <4>1. CASE j <= n
        BY <1>1, <1>4, <4>1
      <4>2. CASE j > n
        <5>1. j - n \in 1 .. 4 /\ n + (j - n) = j
          BY <1>1, <4>2
        <5> QED BY <1>3, <1>5, <5>1
      <4> QED BY <1>1, <4>1, <4>2
    <3>2. ASSUME NEW g \in FilesUpTo(c) PROVE \E j \in 1 .. n + r : V[j][1] = g
      <4>1. PICK j \in 1 .. n : W[j][1] = g
        BY <1>1
      <4>2. j \in 1 .. n + r /\ V[j] = W[j]
        BY <1>1, <1>4
      <4> QED BY <4>1, <4>2
    <3>3. \E j \in 1 .. n + r : V[j][1] = f
      <4>1. n + 1 \in 1 .. n + r /\ V[n + 1][1] = f
        BY <1>1, <1>3, <1>5
      <4> QED BY <4>1
    <3> QED BY <3>1, <3>2, <3>3
  <2>2. FilesUpTo(f) = FilesUpTo(c) \cup {f}
    BY DEF FilesUpTo, Files
  <2> QED BY <2>1, <2>2
<1>7. ASSUME NEW i \in 1 .. n + 4
      PROVE  /\ Framed(V[i])[2] = Parts[((i - 1) % Len(Parts)) + 1]
             /\ i > 1 => IF i % Len(Parts) = 1 THEN V[i - 1][1] < V[i][1] ELSE V[i - 1][1] = V[i][1]
             /\ {V[j][1] : j \in 1 .. i} = FilesUpTo(V[i][1])
  <2>1. CASE i <= n
    <3>1. i \in 1 .. n /\ V[i] = W[i] /\ (i > 1 => V[i - 1] = W[i - 1])
      BY <1>1, <1>4, <2>1
    <3>2. \A j \in 1 .. i : V[j] = W[j]
      BY <1>1, <1>4, <3>1
    <3>3. {V[j][1] : j \in 1 .. i} = {W[j][1] : j \in 1 .. i}
      BY <3>2
    <3> QED BY <1>1, <3>1, <3>3 DEF InOrder
  <2>2. CASE i > n
    <3>1. PICK r \in 1 .. 4 : i = n + r
      <4>1. i - n \in 1 .. 4 /\ i = n + (i - n)
        BY <1>1, <2>2
      <4> QED BY <4>1
    <3>2. /\ (i - 1) % 4 = r - 1
          /\ i % 4 = 1 <=> r = 1
      BY <1>1, <3>1, PlaceInRecord
    <3>3. V[i] = R[r] /\ V[i][1] = f
      BY <1>3, <1>5, <3>1
    <3>4. Framed(V[i])[2] = Parts[r] /\ (r - 1) + 1 = r
      BY <1>2, <3>3
    <3>5. r = 1 /\ i > 1 => V[i - 1][1] < f
      <4>1. ASSUME r = 1, i > 1 PROVE V[i - 1][1] < f
        <5>1. i - 1 \in 1 .. n /\ V[i - 1] = W[i - 1]
          BY <1>1, <1>4, <3>1, <4>1
        <5>2. W[i - 1][1] \in FilesUpTo(c)
          BY <1>1, <5>1
        <5> QED BY <5>1, <5>2 DEF FilesUpTo, Files
      <4> QED BY <4>1
    <3>6. r # 1 => V[i - 1][1] = f
      <4>1. ASSUME r # 1 PROVE V[i - 1][1] = f
        <5>1. r - 1 \in 1 .. 4 /\ i - 1 = n + (r - 1)
          BY <1>1, <3>1, <4>1
        <5> QED BY <1>3, <1>5, <5>1
      <4> QED BY <4>1
    <3>7. {V[j][1] : j \in 1 .. i} = FilesUpTo(V[i][1])
      BY <1>6, <3>1, <3>3
    <3>8. Len(Parts) = 4
      BY FourParts
    <3> QED BY <3>2, <3>3, <3>4, <3>5, <3>6, <3>7, <3>8
  <2> QED BY <1>1, <2>1, <2>2
<1>8. InOrder(V)
  BY <1>4, <1>7 DEF InOrder
<1>9. {V[j][1] : j \in 1 .. Len(V)} = FilesUpTo(f) /\ Len(V) % 4 = 0
  <2>1. {V[j][1] : j \in 1 .. n + 4} = FilesUpTo(f)
    BY <1>6
  <2>2. (n + 4) % 4 = 0
    BY <1>1, PlaceInRecord
  <2> QED BY <1>4, <2>1, <2>2
<1> QED BY <1>4, <1>8, <1>9 DEF Records, V, R, f

-----------------------------------------------------------------------------
(* Two buffers one behind the other: the first b + Len(p) items of W have  *)
(* left t, the first b have left p too.                                    *)
LEMMA RunsOn ==
  ASSUME NEW W, NEW b \in Nat, NEW p \in Seq(Items), NEW t \in Seq(Items), t # <<>>,
         Run(p, b, W), Run(t, b + Len(p), W)
  PROVE  /\ Run(Append(p, Head(t)), b, W) /\ Run(Tail(t), b + Len(Append(p, Head(t))), W)
         /\ b + Len(Append(p, Head(t))) + Len(Tail(t)) = b + Len(p) + Len(t)
<1> DEFINE n == Len(p)
           m == Len(t)
<1>1. n \in Nat /\ m \in Nat /\ Head(t) \in Items
  OBVIOUS
<1>2. /\ b + n + 1 \in DOMAIN W /\ Head(t) = W[b + n + 1]
      /\ Run(Tail(t), b + n + 1, W) /\ Len(Tail(t)) = m - 1
  BY <1>1, RunTail
<1>3. Run(Append(p, Head(t)), b, W) /\ Len(Append(p, Head(t))) = n + 1
  BY <1>1, <1>2, RunAppend
<1> HIDE DEF n, m
<1>4. b + (n + 1) = b + n + 1 /\ b + (n + 1) + (m - 1) = b + n + m
  BY <1>1
<1> QED BY <1>2, <1>3, <1>4 DEF n, m

LEMMA RunsOff ==
  ASSUME NEW W, NEW b \in Nat, NEW p \in Seq(Items), p # <<>>, Run(p, b, W)
  PROVE  /\ b + 1 \in DOMAIN W /\ Head(p) = W[b + 1]
         /\ Run(Tail(p), b + 1, W) /\ (b + 1) + Len(Tail(p)) = b + Len(p)
<1> DEFINE n == Len(p)
<1>1. /\ b + 1 \in DOMAIN W /\ Head(p) = W[b + 1]
      /\ Run(Tail(p), b + 1, W) /\ Len(Tail(p)) = n - 1
  BY RunTail
<1>2. n \in Nat
  OBVIOUS
<1> HIDE DEF n
<1>3. (b + 1) + (n - 1) = b + n
  BY <1>2
<1> QED BY <1>1, <1>3 DEF n

-----------------------------------------------------------------------------
(* Stage 2 has read c items of pipe 1: what is in the pipe and in the      *)
(* first stage's hand are the next ones of the first stage's input, all of *)
(* them unless it broke off.                                               *)
InputOK(c) ==
  /\ c + Len(pipe[1]) + Len(todo[1]) <= Len(FirstInput)
  /\ Run(pipe[1], c, FirstInput) /\ Run(todo[1], c + Len(pipe[1]), FirstInput)
  /\ Fresh(1) => c = 0 /\ pipe[1] = <<>>
  /\ life[1] = "runs" \/ how[1] = "ok" => c + Len(pipe[1]) + Len(todo[1]) = Len(FirstInput)
  /\ how[1] = "ok" => todo[1] = <<>>

LEMMA InputQuiet ==
  ASSUME NEW c \in Nat, InputOK(c), FirstInput' = FirstInput, pipe'[1] = pipe[1], todo'[1] = todo[1],
         Fresh(1)' => Fresh(1), life'[1] = "runs" => life[1] = "runs",
         how'[1] = "ok" => how[1] = "ok" \/ (life[1] = "runs" /\ todo[1] = <<>>)
  PROVE  InputOK(c)'
<1>1. Run(pipe'[1], c, FirstInput') /\ Run(todo'[1], c + Len(pipe'[1]), FirstInput')
  BY DEF InputOK
<1>2. c + Len(pipe'[1]) + Len(todo'[1]) = c + Len(pipe[1]) + Len(todo[1])
  OBVIOUS
<1>3. /\ c + Len(pipe'[1]) + Len(todo'[1]) <= Len(FirstInput')
      /\ life'[1] = "runs" \/ how'[1] = "ok" => c + Len(pipe'[1]) + Len(todo'[1]) = Len(FirstInput')
  BY <1>2 DEF InputOK
<1>4. /\ Fresh(1)' => c = 0 /\ pipe'[1] = <<>>
      /\ how'[1] = "ok" => todo'[1] = <<>>
  BY DEF InputOK
<1> QED BY <1>1, <1>3, <1>4 DEF InputOK

(* redirected_exec of the first stage gives it its input.                  *)
LEMMA InputExec ==
  ASSUME NEW c \in Nat, BufOK, HowOK, InputOK(c), redirected_exec(1, FirstInput), FirstInput' = FirstInput
  PROVE  InputOK(c)'
<1>1. /\ life[1] = "forked" /\ life' = [life EXCEPT ![1] = "runs"] /\ how' = how /\ pipe' = pipe
      /\ todo' = [todo EXCEPT ![1] = FirstInput]
  BY DEF redirected_exec
<1>2. /\ life'[1] = "runs" /\ how'[1] = "none" /\ todo'[1] = FirstInput /\ pipe'[1] = pipe[1]
  BY <1>1 DEF HowOK, BufOK, Gone
<1>3. c = 0 /\ pipe[1] = <<>>
  BY <1>1 DEF InputOK, Fresh
<1>4. FirstInput \in Seq(Items) /\ Len(FirstInput) \in Nat
  BY FirstInputType DEF BufOK
<1>5. c + Len(pipe'[1]) = 0 /\ c + Len(pipe'[1]) + Len(todo'[1]) = Len(FirstInput')
  BY <1>2, <1>3, <1>4
<1>6. Run(pipe'[1], c, FirstInput') /\ Run(todo'[1], 0, FirstInput')
  BY <1>2, <1>3, <1>4, EmptyRun, WholeRun
<1> QED BY <1>2, <1>4, <1>5, <1>6 DEF InputOK, Fresh

(* Items have moved on.                                                    *)
LEMMA InputMoved ==
  ASSUME NEW c \in Nat, NEW d \in Nat, InputOK(c), FirstInput' = FirstInput,
         ~Fresh(1), life'[1] = life[1], how'[1] = how[1], how[1] = "ok" => todo'[1] = <<>>,
         Run(pipe'[1], d, FirstInput), Run(todo'[1], d + Len(pipe'[1]), FirstInput),
         d + Len(pipe'[1]) + Len(todo'[1]) = c + Len(pipe[1]) + Len(todo[1])
  PROVE  InputOK(d)'
  BY DEF InputOK, Fresh

(* An item goes from the first stage's hand into pipe 1.                   *)
LEMMA InputWritten ==
  ASSUME NEW c \in Nat, BufOK, InputOK(c), FirstInput' = FirstInput, todo[1] # <<>>, life[1] = "runs",
         pipe'[1] = Append(pipe[1], Head(todo[1])), todo'[1] = Tail(todo[1]),
         life'[1] = life[1], how'[1] = how[1]
  PROVE  InputOK(c)'
<1> DEFINE p == Append(pipe[1], Head(todo[1]))
           t == Tail(todo[1])
<1>1. pipe[1] \in Seq(Items) /\ todo[1] \in Seq(Items)
  BY DEF BufOK
<1>2. Run(pipe[1], c, FirstInput) /\ Run(todo[1], c + Len(pipe[1]), FirstInput)
  BY DEF InputOK
<1>3. /\ Run(p, c, FirstInput) /\ Run(t, c + Len(p), FirstInput)
      /\ c + Len(p) + Len(t) = c + Len(pipe[1]) + Len(todo[1])
  <2>1. ASSUME NEW u, NEW v, u = pipe[1], v = todo[1]
        PROVE  /\ Run(Append(u, Head(v)), c, FirstInput)
               /\ Run(Tail(v), c + Len(Append(u, Head(v))), FirstInput)
               /\ c + Len(Append(u, Head(v))) + Len(Tail(v)) = c + Len(u) + Len(v)
    <3>1. u \in Seq(Items) /\ v \in Seq(Items) /\ v # <<>> /\ c \in Nat
      BY <1>1, <2>1
    <3>2. Run(u, c, FirstInput) /\ Run(v, c + Len(u), FirstInput)
      BY <1>2, <2>1
    <3> QED BY ONLY <3>1, <3>2, RunsOn
  <2> QED BY <2>1
<1>4. pipe'[1] = p /\ todo'[1] = t
  OBVIOUS
<1>5. ~Fresh(1) /\ how[1] # "ok"
  BY DEF Fresh, InputOK
<1> HIDE DEF p, t
<1> QED BY <1>3, <1>4, <1>5, InputMoved

(* Stage 2 reads the next item of the first stage's input.                 *)
LEMMA InputRead ==
  ASSUME NEW c \in Nat, BufOK, InputOK(c), FirstInput' = FirstInput, pipe[1] # <<>>,
         pipe'[1] = Tail(pipe[1]), todo'[1] = todo[1], life'[1] = life[1], how'[1] = how[1]
  PROVE  InputOK(c + 1)' /\ c + 1 \in DOMAIN FirstInput /\ Head(pipe[1]) = FirstInput[c + 1]
<1>1. pipe[1] \in Seq(Items) /\ todo[1] \in Seq(Items)
  BY DEF BufOK
<1>2. Run(pipe[1], c, FirstInput) /\ Run(todo[1], c + Len(pipe[1]), FirstInput)
  BY DEF InputOK
<1>3. /\ c + 1 \in DOMAIN FirstInput /\ Head(pipe[1]) = FirstInput[c + 1]
      /\ Run(pipe'[1], c + 1, FirstInput) /\ (c + 1) + Len(pipe'[1]) = c + Len(pipe[1])
  BY <1>1, <1>2, RunsOff
<1>4. (c + 1) + Len(pipe'[1]) + Len(todo'[1]) = c + Len(pipe[1]) + Len(todo[1])
  BY <1>3
<1>5. ~Fresh(1) /\ ~Fresh(1)'
  BY DEF InputOK, Fresh
<1>6. Run(todo'[1], (c + 1) + Len(pipe'[1]), FirstInput)
  BY <1>2, <1>3
<1> QED BY <1>3, <1>4, <1>5, <1>6 DEF InputOK

-----------------------------------------------------------------------------
(* A stream W cut into four pieces, the oldest first.                      *)
Chain(A, B, C, D, W) ==
  /\ Run(A, 0, W) /\ Run(B, Len(A), W) /\ Run(C, Len(A) + Len(B), W)
  /\ Run(D, Len(A) + Len(B) + Len(C), W)
  /\ Len(A) + Len(B) + Len(C) + Len(D) = Len(W)

(* WriteArchive: an item of the second piece goes to the first.            *)
LEMMA ChainToArchive ==
  ASSUME NEW A \in Seq(Items), NEW B \in Seq(Items), NEW C \in Seq(Items), NEW D \in Seq(Items),
         NEW W, Chain(A, B, C, D, W), B # <<>>
  PROVE  Chain(Append(A, Head(B)), Tail(B), C, D, W)
<1> DEFINE P == Append(A, Head(B))
           T == Tail(B)
<1>1. PICK z \in Nat : z = 0
  OBVIOUS
<1>2. Run(A, z, W) /\ Run(B, z + Len(A), W)
  BY <1>1 DEF Chain
<1>3. Run(P, z, W) /\ Run(T, z + Len(P), W) /\ z + Len(P) + Len(T) = z + Len(A) + Len(B)
  BY <1>2, RunsOn
<1>4. P \in Seq(Items) /\ T \in Seq(Items)
  OBVIOUS
<1> HIDE DEF P, T
<1>5. Len(P) \in Nat /\ Len(T) \in Nat
  BY <1>4, LenProperties
<1>6. Len(P) + Len(T) = Len(A) + Len(B) /\ z + Len(P) = Len(P)
  BY <1>1, <1>3, <1>5
<1> QED BY <1>1, <1>3, <1>6 DEF Chain, P, T

(* Encrypt: the first item of the third piece becomes the second.          *)
LEMMA ChainEncrypted ==
  ASSUME NEW A \in Seq(Items), NEW C \in Seq(Items), NEW D \in Seq(Items),
         NEW W, Chain(A, <<>>, C, D, W), C # <<>>
  PROVE  Chain(A, <<Head(C)>>, Tail(C), D, W)
<1> DEFINE a == Len(A)
           T == Tail(C)
<1>1. a \in Nat /\ Len(<<>>) = 0 /\ Len(C) \in Nat
  OBVIOUS
<1>2. Run(A, 0, W) /\ Run(C, a, W) /\ Run(D, a + Len(C), W) /\ a + Len(C) + Len(D) = Len(W)
  BY <1>1 DEF Chain
<1>3. a + 1 \in DOMAIN W /\ Head(C) = W[a + 1] /\ Run(T, a + 1, W) /\ (a + 1) + Len(T) = a + Len(C)
  BY <1>1, <1>2, RunsOff
<1>4. Run(<<Head(C)>>, a, W) /\ Len(<<Head(C)>>) = 1
  BY <1>1, <1>3, RunOfOne
<1> HIDE DEF T
<1> QED BY <1>2, <1>3, <1>4 DEF Chain, T

(* WritePipe: an item of the last piece goes to the third.                 *)
LEMMA ChainToPipe ==
  ASSUME NEW A \in Seq(Items), NEW B \in Seq(Items), NEW C \in Seq(Items), NEW D \in Seq(Items),
         NEW W, Chain(A, B, C, D, W), D # <<>>
  PROVE  Chain(A, B, Append(C, Head(D)), Tail(D), W)
<1> DEFINE b == Len(A) + Len(B)
           P == Append(C, Head(D))
           T == Tail(D)
<1>1. b \in Nat
  OBVIOUS
<1>2. Run(C, b, W) /\ Run(D, b + Len(C), W) /\ b + Len(C) + Len(D) = Len(W)
  BY DEF Chain
<1> HIDE DEF b
<1>3. Run(P, b, W) /\ Run(T, b + Len(P), W) /\ b + Len(P) + Len(T) = b + Len(C) + Len(D)
  BY <1>1, <1>2, RunsOn
<1> HIDE DEF P, T
<1> QED BY <1>2, <1>3 DEF Chain, b, P, T

(* archive_file: a record is added behind the last piece, which is used up.*)
LEMMA ChainSent ==
  ASSUME NEW A \in Seq(Items), NEW B \in Seq(Items), NEW C \in Seq(Items), NEW R \in Seq(Items),
         NEW W \in Seq(Items), Chain(A, B, C, <<>>, W)
  PROVE  Chain(A, B, C, R, W \o R)
<1>1. /\ Run(R, Len(W), W \o R) /\ Len(W \o R) = Len(W) + Len(R)
      /\ \A s, b : Run(s, b, W) => Run(s, b, W \o R)
  BY RunOfRest, RunExtended
<1>2. Len(A) + Len(B) + Len(C) = Len(W)
  <2>1. Len(<<>>) = 0 /\ Len(A) \in Nat /\ Len(B) \in Nat /\ Len(C) \in Nat
    OBVIOUS
  <2> QED BY <2>1 DEF Chain
<1>3. Len(A) + Len(B) + Len(C) + Len(R) = Len(W \o R)
  BY <1>1, <1>2
<1> QED BY <1>1, <1>2, <1>3 DEF Chain

-----------------------------------------------------------------------------
(* An archive being made: p2archive has read the first c paths, and what   *)
(* it has sent is in the archive, with p2crypt, in pipe 2 or in its hand.  *)
StreamOK(c, W) ==
  /\ Records(W, c) /\ Chain(archive, todo[3], pipe[2], todo[2], W)
  /\ restored = <<>> /\ part = 0

LEMMA StreamQuiet ==
  ASSUME NEW c, NEW W, StreamOK(c, W),
         UNCHANGED <<denied, archive, restored, part>>, pipe'[2] = pipe[2],
         todo'[2] = todo[2], todo'[3] = todo[3]
  PROVE  StreamOK(c, W)'
<1>1. Records(W, c)'
  BY DEF StreamOK, Records, InOrder, FilesUpTo
<1> QED BY <1>1 DEF StreamOK

LEMMA StreamStep ==
  ASSUME NEW c, NEW W, NEW A, NEW B, NEW C, NEW D, StreamOK(c, W),
         Chain(A, B, C, D, W), UNCHANGED <<denied, restored, part>>,
         archive' = A, todo'[3] = B, pipe'[2] = C, todo'[2] = D
  PROVE  StreamOK(c, W)'
<1>1. Records(W, c)'
  BY DEF StreamOK, Records, InOrder, FilesUpTo
<1> QED BY <1>1 DEF StreamOK

-----------------------------------------------------------------------------
(* An archive being taken apart: p2unarchive has read c parts.  As long as *)
(* it has met no end where it expected a part, the records it has read     *)
(* whole are files, and one whose metadata it has read is a file without   *)
(* contents.  If it has, the file behind those is torn or, inside a name,  *)
(* one of those is written over; whoever fed it is gone, and so is         *)
(* p2unarchive.                                                            *)
Intact(c) ==
  /\ Len(restored) = (c + 1) \div 4
  /\ \A i \in DOMAIN restored : restored[i] = <<i, IF i <= c \div 4 THEN "good" ELSE "empty">>

Broken(c) ==
  /\ Len(restored) = (c \div 4) + 1
  /\ \A i \in DOMAIN restored : restored[i] = <<i, IF i <= c \div 4 THEN "good" ELSE "garbage">>
  /\ Len(archive) % 4 # 0 \/ how[1] # "ok"

Overwritten(c) ==
  /\ c % 4 = 1
  /\ Len(restored) = c \div 4
  /\ \E k \in DOMAIN restored :
       \A i \in DOMAIN restored : restored[i] = <<i, IF i = k THEN "spoilt" ELSE "good">>
  /\ Len(archive) % 4 # 0 \/ how[1] # "ok"

ExtractOK(c) ==
  /\ todo[2] = <<>> /\ todo[3] = <<>> /\ pipe[2] = <<>>
  /\ \A i \in DOMAIN archive : archive[i] = Cell(i)
  /\ part = c % 4
  /\ restored \in Seq(Files \X Contents)
  /\ Intact(c) \/ (life[1] \in Gone /\ life[2] \in Gone /\ (Broken(c) \/ Overwritten(c)))

LEMMA ExtractQuiet ==
  ASSUME NEW c \in Nat, ExtractOK(c), UNCHANGED data,
         pipe'[2] = pipe[2], todo'[2] = todo[2], todo'[3] = todo[3],
         \A k \in {1, 2} : life[k] \in Gone => life'[k] \in Gone,
         how'[1] = "ok" => how[1] = "ok" \/ life[1] = "runs"
  PROVE  ExtractOK(c)'
<1>1. UNCHANGED <<archive, restored, part>>
  OBVIOUS
<1>2. Intact(c) => Intact(c)'
  BY <1>1 DEF Intact
<1>3. life[1] \in Gone /\ life[2] \in Gone /\ (Broken(c) \/ Overwritten(c))
      => life'[1] \in Gone /\ life'[2] \in Gone /\ (Broken(c)' \/ Overwritten(c)')
  BY <1>1 DEF Broken, Overwritten, Gone
<1>4. \A i \in DOMAIN archive' : archive'[i] = Cell(i)
  BY <1>1 DEF ExtractOK
<1> QED BY <1>1, <1>2, <1>3, <1>4 DEF ExtractOK, Cell

(* Numbers as records and parts.                                           *)
LEMMA Quarter ==
  ASSUME NEW c \in Nat
  PROVE  \E q \in Nat, r \in 0 .. 3 : c = 4 * q + r
<1>1. c \div 4 \in Nat /\ c % 4 \in 0 .. 3
  OBVIOUS
<1> QED BY <1>1

LEMMA QuarterIs ==
  ASSUME NEW q \in Nat, NEW r \in 0 .. 3
  PROVE  (4 * q + r) \div 4 = q /\ (4 * q + r) % 4 = r
  OBVIOUS

LEMMA NextQuarter ==
  ASSUME NEW q \in Nat, NEW r \in 0 .. 3
  PROVE  LET c == 4 * q + r IN
           /\ (c + 1) \div 4 = IF r = 3 THEN q + 1 ELSE q
           /\ ((c + 1) + 1) \div 4 = IF r \in {2, 3} THEN q + 1 ELSE q
           /\ (c + 1) % 4 = (r + 1) % 4
<1>1. q + 1 \in Nat /\ \A k \in 0 .. 3 : /\ (4 * q + k) \div 4 = q
                                         /\ (4 * (q + 1) + k) \div 4 = q + 1
  BY QuarterIs
<1>2. (4 * q + r) + 1 = 4 * q + (r + 1) /\ ((4 * q + r) + 1) + 1 = 4 * q + (r + 2)
  OBVIOUS
<1>3. 4 * q + 4 = 4 * (q + 1) + 0 /\ 4 * q + 5 = 4 * (q + 1) + 1
  OBVIOUS
<1>4. (4 * q + 4) \div 4 = q + 1 /\ (4 * q + 5) \div 4 = q + 1
  BY <1>1, <1>3
<1>5. /\ (4 * q + (r + 1)) \div 4 = IF r = 3 THEN q + 1 ELSE q
      /\ (4 * q + (r + 2)) \div 4 = IF r \in {2, 3} THEN q + 1 ELSE q
  <2>1. r \in {0, 1, 2, 3}
    OBVIOUS
  <2> QED BY <1>1, <1>4, <2>1
<1>6. (4 * q + (r + 1)) % 4 = (r + 1) % 4
  OBVIOUS
<1> QED BY <1>2, <1>5, <1>6

LEMMA PutSeq ==
  ASSUME NEW S, NEW s \in Seq(S), NEW i \in DOMAIN s, NEW x \in S,
         NEW t, t = [s EXCEPT ![i] = x]
  PROVE  /\ t \in Seq(S) /\ Len(t) = Len(s) /\ DOMAIN t = 1 .. Len(s)
         /\ \A j \in 1 .. Len(s) : t[j] = IF j = i THEN x ELSE s[j]
<1>1. DOMAIN s = 1 .. Len(s) /\ Len(s) \in Nat /\ \A j \in 1 .. Len(s) : s[j] \in S
  BY LenProperties
<1>2. t = [j \in 1 .. Len(s) |-> IF j = i THEN x ELSE s[j]]
  BY <1>1
<1>3. t \in [1 .. Len(s) -> S]
  BY <1>1, <1>2
<1>4. t \in Seq(S) /\ Len(t) = Len(s) /\ DOMAIN t = 1 .. Len(s)
  BY <1>1, <1>3, FunctionIsSeq
<1> QED BY <1>2, <1>4

(* reproduce_file reads part c + 1 of the archive.                         *)
LEMMA Reproduced ==
  ASSUME NEW c \in Nat, NEW f \in Files, ExtractOK(c), Intact(c), f = (c \div 4) + 1,
         part' = (part + 1) % Len(Parts), archive' = archive,
         restored' = CASE part = 2 -> Append(restored, <<f, "empty">>)
                       [] part = 3 -> [restored EXCEPT ![Len(restored)] = <<f, "good">>]
                       [] OTHER -> restored,
         pipe'[2] = pipe[2], UNCHANGED todo
  PROVE  ExtractOK(c + 1)' /\ Intact(c + 1)'
<1> DEFINE S == Files \X Contents
<1>1. PICK q \in Nat, r \in 0 .. 3 : c = 4 * q + r
  BY Quarter
<1>2. c \div 4 = q /\ c % 4 = r /\ f = q + 1
  BY <1>1, QuarterIs
<1>3. /\ part = r /\ restored \in Seq(S) /\ Len(restored) = (c + 1) \div 4
      /\ \A i \in DOMAIN restored : restored[i] = <<i, IF i <= q THEN "good" ELSE "empty">>
  BY <1>2 DEF ExtractOK, Intact
<1>4. <<f, "empty">> \in S /\ <<f, "good">> \in S
  BY DEF Contents
<1>5. part' = (c + 1) % 4
  <2>1. part' = (r + 1) % 4
    BY <1>3, FourParts
  <2>2. (r + 1) % 4 = (c + 1) % 4
    BY <1>1, NextQuarter
  <2> QED BY <2>1, <2>2
<1>6. restored' \in Seq(S) /\ Intact(c + 1)'
  <2>1. CASE r \in {0, 1}
    <3>1. restored' = restored
      BY <1>3, <2>1
    <3>2. (c + 1) \div 4 = q /\ ((c + 1) + 1) \div 4 = q
      <4>1. r # 3 /\ r \notin {2, 3}
        BY <2>1
      <4> QED BY <1>1, <4>1, NextQuarter
    <3> QED BY <1>3, <3>1, <3>2 DEF Intact
  <2>2. CASE r = 2
    <3>1. restored' = Append(restored, <<f, "empty">>)
      BY <1>3, <2>2
    <3>2. (c + 1) \div 4 = q /\ ((c + 1) + 1) \div 4 = q + 1
      BY <1>1, <2>2, NextQuarter
    <3>3. Len(restored) = q /\ DOMAIN restored = 1 .. q
      BY <1>3, <3>2
    <3>4. /\ restored' \in Seq(S) /\ Len(restored') = q + 1 /\ DOMAIN restored' = 1 .. q + 1
          /\ \A i \in 1 .. q + 1 : restored'[i] = IF i = q + 1 THEN <<f, "empty">> ELSE restored[i]
      BY <1>3, <1>4, <3>1, <3>3
    <3>5. \A i \in DOMAIN restored' : restored'[i] = <<i, IF i <= q THEN "good" ELSE "empty">>
      BY <1>2, <1>3, <3>3, <3>4
    <3> QED BY <3>2, <3>4, <3>5 DEF Intact
  <2>3. CASE r = 3
    <3>1. restored' = [restored EXCEPT ![Len(restored)] = <<f, "good">>]
      BY <1>3, <2>3
    <3>2. (c + 1) \div 4 = q + 1 /\ ((c + 1) + 1) \div 4 = q + 1
      BY <1>1, <2>3, NextQuarter
    <3>3. Len(restored) = q + 1 /\ DOMAIN restored = 1 .. q + 1
      BY <1>3, <3>2
    <3>4. /\ restored' \in Seq(S) /\ Len(restored') = q + 1 /\ DOMAIN restored' = 1 .. q + 1
          /\ \A i \in 1 .. q + 1 : restored'[i] = IF i = q + 1 THEN <<f, "good">> ELSE restored[i]
      <4>1. Len(restored) \in DOMAIN restored /\ Len(restored) = q + 1
        BY <3>3
      <4> HIDE DEF S
      <4>2. /\ restored' \in Seq(S) /\ Len(restored') = Len(restored) /\ DOMAIN restored' = 1 .. Len(restored)
            /\ \A i \in 1 .. Len(restored) :
                 restored'[i] = IF i = Len(restored) THEN <<f, "good">> ELSE restored[i]
        BY <1>3, <1>4, <3>1, <4>1, PutSeq
      <4> QED BY <4>1, <4>2
    <3>5. \A i \in DOMAIN restored' : restored'[i] = <<i, IF i <= q + 1 THEN "good" ELSE "empty">>
      BY <1>2, <1>3, <3>3, <3>4
    <3> QED BY <3>2, <3>4, <3>5 DEF Intact
  <2> QED BY <2>1, <2>2, <2>3
<1>7. \A i \in DOMAIN archive' : archive'[i] = Cell(i)
  BY DEF ExtractOK
<1> QED BY <1>5, <1>6, <1>7 DEF ExtractOK, Cell

(* EndOfRecords inside a name: a file restored before gets what is not its *)
(* contents.                                                               *)
LEMMA WrittenOver ==
  ASSUME NEW c \in Nat, NEW q \in Nat, c = 4 * q + 1, ExtractOK(c), Intact(c),
         life'[1] \in Gone, life'[2] \in Gone, how'[1] = "ok" => Len(archive) % 4 # 0,
         UNCHANGED <<archive, part, todo, pipe>>,
         NEW k \in DOMAIN restored, restored' = [restored EXCEPT ![k] = <<k, "spoilt">>]
  PROVE  ExtractOK(c)'
<1> DEFINE S == Files \X Contents
<1>1. (c + 1) \div 4 = q /\ c \div 4 = q /\ c % 4 = 1
  <2>1. (4 * q + 1) \div 4 = q /\ (4 * q + 1) % 4 = 1 /\ (4 * q + 2) \div 4 = q
    BY QuarterIs
  <2>2. (4 * q + 1) + 1 = 4 * q + 2
    OBVIOUS
  <2> QED BY <2>1, <2>2
<1>2. /\ restored \in Seq(S) /\ Len(restored) = q /\ DOMAIN restored = 1 .. q
      /\ \A i \in 1 .. q : restored[i] = <<i, "good">>
  <2>1. restored \in Seq(S) /\ Len(restored) = q
    BY <1>1 DEF ExtractOK, Intact
  <2>2. DOMAIN restored = 1 .. q
    BY <2>1, LenProperties
  <2>3. \A i \in DOMAIN restored : restored[i] = <<i, IF i <= q THEN "good" ELSE "empty">>
    BY <1>1 DEF Intact
  <2> QED BY <2>1, <2>2, <2>3
<1>3. <<k, "spoilt">> \in S
  <2>1. restored[k] \in S /\ restored[k] = <<k, "good">>
    BY <1>2
  <2> QED BY <2>1 DEF Contents
<1> HIDE DEF S
<1>4. /\ restored' \in Seq(S) /\ Len(restored') = q /\ DOMAIN restored' = 1 .. q
      /\ \A i \in 1 .. q : restored'[i] = IF i = k THEN <<k, "spoilt">> ELSE restored[i]
  BY <1>2, <1>3, PutSeq
<1>5. \A i \in 1 .. q : restored'[i] = <<i, IF i = k THEN "spoilt" ELSE "good">>
  BY <1>2, <1>4
<1>6. Overwritten(c)'
  <2>1. Len(archive') % 4 # 0 \/ how'[1] # "ok"
    OBVIOUS
  <2> QED BY <1>1, <1>2, <1>4, <1>5, <2>1 DEF Overwritten
<1>7. \A i \in DOMAIN archive' : archive'[i] = Cell(i)
  BY DEF ExtractOK
<1>8. restored' \in Seq(Files \X Contents)
  BY <1>4 DEF S
<1> QED BY <1>6, <1>7, <1>8 DEF ExtractOK, Cell

(* EndOfRecords inside a record: one more file, or the last one, gets what *)
(* is not its contents.                                                    *)
LEMMA Torn ==
  ASSUME NEW c \in Nat, NEW q \in Nat, NEW r \in 1 .. 3, c = 4 * q + r, q + 1 \in Files,
         ExtractOK(c), Intact(c), life'[1] \in Gone, life'[2] \in Gone,
         how'[1] = "ok" => Len(archive) % 4 # 0,
         UNCHANGED <<archive, part, todo, pipe>>,
         \/ r # 3 /\ restored' = Append(restored, <<Len(restored) + 1, "garbage">>)
         \/ r = 3 /\ restored' = [restored EXCEPT ![Len(restored)][2] = "garbage"]
  PROVE  ExtractOK(c)'
<1> DEFINE S == Files \X Contents
           n == Len(restored)
<1>1. /\ (c + 1) \div 4 = IF r = 3 THEN q + 1 ELSE q
      /\ c \div 4 = q
  <2>1. r \in 0 .. 3 /\ r \in Nat
    OBVIOUS
  <2>2. (4 * q + r) \div 4 = q
    BY <2>1, QuarterIs
  <2>3. ((4 * q + r) + 1) \div 4 = IF r = 3 THEN q + 1 ELSE q
    BY <2>1, NextQuarter
  <2> QED BY <2>2, <2>3
<1>2. /\ restored \in Seq(S) /\ n = (IF r = 3 THEN q + 1 ELSE q) /\ n \in Nat /\ DOMAIN restored = 1 .. n
      /\ \A i \in 1 .. n : restored[i] = <<i, IF i <= q THEN "good" ELSE "empty">>
  <2>1. restored \in Seq(S) /\ n = (c + 1) \div 4
    BY DEF ExtractOK, Intact
  <2>2. \A i \in DOMAIN restored : restored[i] = <<i, IF i <= c \div 4 THEN "good" ELSE "empty">>
    BY DEF Intact
  <2>3. n \in Nat /\ DOMAIN restored = 1 .. n
    BY <2>1, LenProperties
  <2> QED BY <1>1, <2>1, <2>2, <2>3
<1>3. <<q + 1, "garbage">> \in S
  BY DEF Contents
<1>4. /\ restored' \in Seq(S) /\ Len(restored') = q + 1 /\ DOMAIN restored' = 1 .. q + 1
      /\ \A i \in 1 .. q + 1 : restored'[i] = <<i, IF i <= q THEN "good" ELSE "garbage">>
  <2>1. CASE r # 3
    <3>1. n = q /\ restored' = Append(restored, <<q + 1, "garbage">>)
      BY <1>2, <2>1
    <3>2. /\ restored' \in Seq(S) /\ Len(restored') = q + 1 /\ DOMAIN restored' = 1 .. q + 1
          /\ \A i \in 1 .. q + 1 : restored'[i] = IF i = q + 1 THEN <<q + 1, "garbage">> ELSE restored[i]
      BY <1>2, <1>3, <3>1
    <3> QED BY <1>2, <3>1, <3>2
  <2>2. CASE r = 3
    <3>1. n = q + 1 /\ n \in DOMAIN restored /\ restored[n] = <<n, "empty">>
      BY <1>2, <2>2
    <3>2. restored' = [restored EXCEPT ![n] = <<n, "garbage">>]
      <4>1. restored' = [restored EXCEPT ![n] = [restored[n] EXCEPT ![2] = "garbage"]]
        BY <2>2
      <4>2. [<<n, "empty">> EXCEPT ![2] = "garbage"] = <<n, "garbage">>
        OBVIOUS
      <4> QED BY <3>1, <4>1, <4>2
    <3> HIDE DEF S, n
    <3>3. /\ restored' \in Seq(S) /\ Len(restored') = n /\ DOMAIN restored' = 1 .. n
          /\ \A i \in 1 .. n : restored'[i] = IF i = n THEN <<n, "garbage">> ELSE restored[i]
      <4>1. restored \in Seq(S) /\ n \in DOMAIN restored /\ <<n, "garbage">> \in S /\ n = Len(restored)
        BY <1>2, <1>3, <3>1 DEF n
      <4> QED BY <4>1, <3>2, PutSeq
    <3> QED BY <1>2, <3>1, <3>3
  <2> QED BY <2>1, <2>2
<1>5. Broken(c)'
  <2>1. Len(archive') % 4 # 0 \/ how'[1] # "ok"
    OBVIOUS
  <2> QED BY <1>1, <1>4, <2>1 DEF Broken
<1>6. \A i \in DOMAIN archive' : archive'[i] = Cell(i)
  BY DEF ExtractOK
<1> QED BY <1>4, <1>5, <1>6 DEF ExtractOK, Cell

LEMMA NotMore ==
  ASSUME NEW c \in Nat, NEW t \in Nat, NEW m \in Nat
  PROVE  (c + t <= m => c <= m) /\ (c + t = m /\ t = 0 => c = m)
  OBVIOUS

LEMMA RecordsEnd ==
  ASSUME NEW c \in Nat, BufOK, InputOK(c), ExtractOK(c), mode # "create", EndOfRecords(2),
         life[1] \in Gone, life' \in [Stages -> Lives], how'[1] = how[1], life'[1] = life[1]
  PROVE  ExtractOK(c)'
<1>1. /\ life[2] = "runs" /\ pipe[1] = <<>> /\ UNCHANGED <<archive, part, todo, pipe>>
      /\ part \in 0 .. 3
  BY DEF EndOfRecords, Runs, AtEnd, BufOK
<1>2. life'[2] \in Gone
  BY DEF EndOfRecords, End, Gone, BufOK, HowOK
<1>3. Intact(c)
  BY <1>1 DEF ExtractOK, Gone
<1>4. PICK q \in Nat, r \in 0 .. 3 : c = 4 * q + r
  BY Quarter
<1>5. part = r
  BY <1>4, QuarterIs DEF ExtractOK
<1>6. CASE UNCHANGED restored
  BY <1>1, <1>2, <1>6, ExtractQuiet
<1>7. CASE ~UNCHANGED restored
  <2>1. \/ r = 1 /\ \E i \in DOMAIN restored : restored' = [restored EXCEPT ![i] = <<i, "spoilt">>]
        \/ r \in {1, 2} /\ restored' = Append(restored, <<Len(restored) + 1, "garbage">>)
        \/ r = 3 /\ restored' = [restored EXCEPT ![Len(restored)][2] = "garbage"]
    BY <1>5, <1>7 DEF EndOfRecords
  <2>2. r \in 1 .. 3
    BY <2>1
  <2>3. /\ FirstInput = archive /\ archive \in Seq(Items)
        /\ Len(archive) \in Nat /\ DOMAIN archive = 1 .. Len(archive)
    BY DEF FirstInput, BufOK
  <2>4. Len(pipe[1]) = 0 /\ Len(todo[1]) \in Nat /\ (todo[1] = <<>> => Len(todo[1]) = 0)
    BY <1>1 DEF BufOK
  <2>5. c <= Len(archive) /\ (how[1] = "ok" => c = Len(archive))
    <3>1. c + Len(pipe[1]) + Len(todo[1]) = c + Len(todo[1])
      BY <2>4
    <3>2. c + Len(todo[1]) <= Len(archive)
      BY <2>3, <3>1 DEF InputOK
    <3>3. how[1] = "ok" => c + Len(todo[1]) = Len(archive) /\ Len(todo[1]) = 0
      BY <2>3, <2>4, <3>1 DEF InputOK
    <3>4. Len(todo[1]) \in Nat /\ Len(archive) \in Nat
      BY <2>3, <2>4
    <3> QED BY <3>2, <3>3, <3>4, NotMore
  <2>6. q + 1 \in Files
    <3>0. c \in 1 .. Len(archive)
      <4>1. c >= 1
        BY <1>4, <2>2
      <4>2. c <= Len(archive) /\ Len(archive) \in Nat
        BY <2>3, <2>5
      <4> QED BY <4>1, <4>2
    <3>1. c \in DOMAIN archive
      BY <2>3, <3>0
    <3>2. archive[c] \in Items /\ archive[c] = Cell(c)
      BY <2>3, <3>1 DEF ExtractOK
    <3>3. c - 1 = 4 * q + (r - 1) /\ r - 1 \in 0 .. 3
      BY <1>4, <2>2
    <3>4. Cell(c)[1] = q + 1
      BY <3>3, QuarterIs, FourParts DEF Cell
    <3> QED BY <3>2, <3>4, ItemsAre
  <2>7. c % 4 # 0
    BY <1>4, <2>2, QuarterIs
  <2>8. how'[1] = "ok" => Len(archive) % 4 # 0
    BY <2>5, <2>7
  <2>9. life'[1] \in Gone
    OBVIOUS
  <2>10. CASE r = 1 /\ \E i \in DOMAIN restored : restored' = [restored EXCEPT ![i] = <<i, "spoilt">>]
    BY <1>1, <1>2, <1>3, <1>4, <2>8, <2>9, <2>10, WrittenOver
  <2>11. CASE \/ r # 3 /\ restored' = Append(restored, <<Len(restored) + 1, "garbage">>)
              \/ r = 3 /\ restored' = [restored EXCEPT ![Len(restored)][2] = "garbage"]
    BY <1>1, <1>2, <1>3, <1>4, <2>2, <2>6, <2>8, <2>9, <2>11, Torn
  <2> QED BY <2>1, <2>10, <2>11
<1> QED BY <1>6, <1>7

-----------------------------------------------------------------------------
(* What travels is where it should be.                                     *)
FlowInv ==
  /\ mode = "create" => \E c \in Nat, W \in Seq(Items) : InputOK(c) /\ StreamOK(c, W)
  /\ mode # "create" => \E c \in Nat : InputOK(c) /\ ExtractOK(c)

LEMMA FlowInit == Init => FlowInv
<1> SUFFICES ASSUME Init PROVE FlowInv
  OBVIOUS
<1>1. /\ restored = <<>> /\ part = 0 /\ pipe[1] = <<>> /\ pipe[2] = <<>>
      /\ todo[1] = <<>> /\ todo[2] = <<>> /\ todo[3] = <<>>
      /\ life[1] = "none" /\ how[1] = "none"
  BY DEF Init
<1>2. InputOK(0)
  <2>1. FirstInput \in Seq(Items)
    BY BufInit, FirstInputType DEF BufOK
  <2>2. Len(FirstInput) \in Nat /\ Len(<<>>) = 0
    BY <2>1
  <2>3. \A b : Run(<<>>, b, FirstInput)
    BY EmptyRun
  <2> QED BY <1>1, <2>2, <2>3 DEF InputOK, Fresh
<1>3. CASE mode = "create"
  <2>1. archive = <<>>
    BY <1>3 DEF Init
  <2>2. Records(<<>>, 0)
    BY DEF Records, InOrder, FilesUpTo, Files
  <2>3. \A b : Run(<<>>, b, <<>>)
    BY EmptyRun
  <2>4. Chain(<<>>, <<>>, <<>>, <<>>, <<>>)
    BY <2>3 DEF Chain
  <2> QED BY <1>1, <1>2, <1>3, <2>1, <2>2, <2>4 DEF FlowInv, StreamOK, Records
<1>4. CASE mode # "create"
  <2>1. \A i \in DOMAIN archive : archive[i] = Cell(i)
    BY <1>4 DEF Init
  <2>2. Intact(0)
    <3>1. (0 + 1) \div 4 = 0 /\ Len(<<>>) = 0 /\ DOMAIN <<>> = {}
      OBVIOUS
    <3> QED BY <1>1, <3>1 DEF Intact
  <2>3. 0 % 4 = 0
    OBVIOUS
  <2> QED BY <1>1, <1>2, <1>4, <2>1, <2>2, <2>3 DEF FlowInv, ExtractOK
<1> QED BY <1>3, <1>4

LEMMA InputFixed ==
  ASSUME mode' = mode, mode # "create" => archive' = archive
  PROVE  FirstInput' = FirstInput
  BY DEF FirstInput

(* Lives go on, and nothing moves.                                         *)
LEMMA FlowQuiet ==
  ASSUME FlowInv, LivesGoOn, UNCHANGED <<mode, denied, data, pipe, todo>>
  PROVE  FlowInv'
<1>1. /\ FirstInput' = FirstInput /\ mode' = mode /\ denied' = denied
      /\ archive' = archive /\ restored' = restored /\ part' = part /\ pipe' = pipe /\ todo' = todo
  BY InputFixed
<1>2. /\ Fresh(1)' => Fresh(1)
      /\ life'[1] = "runs" => life[1] = "runs"
      /\ how'[1] = "ok" => how[1] = "ok" \/ (life[1] = "runs" /\ todo[1] = <<>>)
      /\ \A k \in {1, 2} : life[k] \in Gone => life'[k] \in Gone
  BY DEF LivesGoOn, Drained
<1>3. \A c \in Nat : InputOK(c) => InputOK(c)'
  BY <1>1, <1>2, InputQuiet
<1>4. \A c, W : StreamOK(c, W) => StreamOK(c, W)'
  BY <1>1, StreamQuiet
<1>5. \A c \in Nat : ExtractOK(c) => ExtractOK(c)'
  BY <1>1, <1>2, ExtractQuiet
<1>6. CASE mode = "create"
  <2>1. PICK c \in Nat, W \in Seq(Items) : InputOK(c) /\ StreamOK(c, W)
    BY <1>6 DEF FlowInv
  <2> QED BY <1>1, <1>3, <1>4, <1>6, <2>1 DEF FlowInv
<1>7. CASE mode # "create"
  <2>1. PICK c \in Nat : InputOK(c) /\ ExtractOK(c)
    BY <1>7 DEF FlowInv
  <2> QED BY <1>1, <1>3, <1>5, <1>7, <2>1 DEF FlowInv
<1> QED BY <1>6, <1>7

LEMMA FlowExec ==
  ASSUME BufOK, HowOK, FlowInv, NEW k \in Stages, UNCHANGED <<mode, denied>>,
         redirected_exec(k, IF k = 1 THEN FirstInput ELSE <<>>)
  PROVE  FlowInv'
<1>1. /\ life[k] = "forked" /\ life' = [life EXCEPT ![k] = "runs"] /\ UNCHANGED <<how, pipe, data>>
      /\ todo' = [todo EXCEPT ![k] = IF k = 1 THEN FirstInput ELSE <<>>]
  BY DEF redirected_exec
<1>2. /\ FirstInput' = FirstInput /\ mode' = mode /\ denied' = denied
      /\ archive' = archive /\ restored' = restored /\ part' = part
      /\ pipe'[1] = pipe[1] /\ pipe'[2] = pipe[2] /\ how'[1] = how[1]
  BY <1>1, InputFixed
<1>3. \A j \in Stages : j # k => life'[j] = life[j] /\ todo'[j] = todo[j]
  BY <1>1 DEF HowOK, BufOK
<1>4. todo[k] = <<>> /\ (k # 1 => todo'[k] = todo[k])
  BY <1>1 DEF HowOK, BufOK, Fresh
<1>5. todo'[2] = todo[2] /\ todo'[3] = todo[3]
  BY <1>3, <1>4
<1>6. \A c \in Nat : InputOK(c) => InputOK(c)'
  <2>1. CASE k = 1
    BY <1>2, <2>1, InputExec
  <2>2. CASE k # 1
    <3>1. life'[1] = life[1] /\ todo'[1] = todo[1] /\ (Fresh(1)' => Fresh(1))
      BY <1>3, <2>2 DEF Fresh
    <3> QED BY <1>2, <3>1, InputQuiet
  <2> QED BY <2>1, <2>2
<1>7. \A c, W : StreamOK(c, W) => StreamOK(c, W)'
  BY <1>2, <1>5, StreamQuiet
<1>8. \A c \in Nat : ExtractOK(c) => ExtractOK(c)'
  <2>1. \A j \in {1, 2} : life[j] \in Gone => life'[j] \in Gone
    BY <1>1, <1>3 DEF Gone
  <2> QED BY <1>1, <1>2, <1>5, <2>1, ExtractQuiet
<1>9. CASE mode = "create"
  <2>1. PICK c \in Nat, W \in Seq(Items) : InputOK(c) /\ StreamOK(c, W)
    BY <1>9 DEF FlowInv
  <2> QED BY <1>2, <1>6, <1>7, <1>9, <2>1 DEF FlowInv
<1>10. CASE mode # "create"
  <2>1. PICK c \in Nat : InputOK(c) /\ ExtractOK(c)
    BY <1>10 DEF FlowInv
  <2> QED BY <1>2, <1>6, <1>8, <1>10, <2>1 DEF FlowInv
<1> QED BY <1>9, <1>10

(* my_write, by each of the three stages.                                  *)
LEMMA FlowWrite ==
  ASSUME BufOK, HowOK, FlowInv, NEW k \in Stages, my_write(k), UNCHANGED <<mode, denied>>
  PROVE  FlowInv'
<1> DEFINE h == Head(todo[k])
<1>1. CASE UNCHANGED <<data, pipe, todo>>
  <2>1. Stage(k)
    BY DEF Stage
  <2> QED BY <1>1, <2>1, StageGoesOn, FlowQuiet
<1>2. CASE ~UNCHANGED <<data, pipe, todo>>
  <2>1. /\ Runs(k) /\ life[k] = "runs" /\ todo[k] # <<>> /\ UNCHANGED <<restored, part, life, how>>
        /\ todo' = [todo EXCEPT ![k] = Tail(@)]
        /\ IF mode = "create" /\ k = 3 THEN archive' = Append(archive, h) /\ pipe' = pipe
           ELSE k \in {1, 2} /\ archive' = archive /\ pipe' = [pipe EXCEPT ![k] = Append(@, h)]
    BY <1>2 DEF my_write, WriteArchive, WritePipe, Runs
  <2>2. todo'[k] = Tail(todo[k]) /\ \A j \in Stages : j # k => todo'[j] = todo[j]
    BY <2>1 DEF BufOK
  <2>3. mode' = mode /\ denied' = denied /\ FirstInput' = FirstInput /\ life' = life /\ how' = how
    BY <2>1, InputFixed
  <2>4. CASE k = 1
    <3>1. /\ archive' = archive /\ pipe'[1] = Append(pipe[1], Head(todo[1])) /\ pipe'[2] = pipe[2]
          /\ todo'[1] = Tail(todo[1]) /\ todo'[2] = todo[2] /\ todo'[3] = todo[3]
      BY <2>1, <2>2, <2>4 DEF BufOK
    <3>2. \A c \in Nat : InputOK(c) => InputOK(c)'
      BY <2>1, <2>3, <2>4, <3>1, InputWritten
    <3>3. \A c, W : StreamOK(c, W) => StreamOK(c, W)'
      BY <2>1, <2>3, <3>1, StreamQuiet
    <3>4. \A c \in Nat : ExtractOK(c) => ExtractOK(c)'
      BY <2>1, <2>3, <3>1, ExtractQuiet
    <3> QED BY <2>3, <3>2, <3>3, <3>4 DEF FlowInv
  <2>5. CASE k # 1
    <3>1. mode = "create"
      <4>1. CASE k = 2
        BY <2>1, <4>1 DEF FlowInv, ExtractOK
      <4>2. CASE k = 3
        BY <2>1, <4>2
      <4> QED BY <2>5, <4>1, <4>2
    <3>2. PICK c \in Nat, W \in Seq(Items) : InputOK(c) /\ StreamOK(c, W)
      BY <3>1 DEF FlowInv
    <3>3. pipe'[1] = pipe[1] /\ todo'[1] = todo[1]
      BY <2>1, <2>2, <2>5 DEF BufOK
    <3>4. InputOK(c)'
      BY <2>3, <3>2, <3>3, InputQuiet DEF Fresh
    <3>5. /\ archive \in Seq(Items) /\ todo[3] \in Seq(Items) /\ pipe[2] \in Seq(Items)
          /\ todo[2] \in Seq(Items) /\ Chain(archive, todo[3], pipe[2], todo[2], W)
      BY <3>2 DEF BufOK, StreamOK
    <3>6. StreamOK(c, W)'
      <4>1. CASE k = 2
        <5>1. /\ archive' = archive /\ todo'[3] = todo[3] /\ todo'[2] = Tail(todo[2])
              /\ pipe'[2] = Append(pipe[2], Head(todo[2]))
          BY <2>1, <2>2, <4>1 DEF BufOK
        <5>2. Chain(archive, todo[3], Append(pipe[2], Head(todo[2])), Tail(todo[2]), W)
          BY <2>1, <3>5, <4>1, ChainToPipe
        <5> QED BY <2>1, <2>3, <3>2, <5>1, <5>2, StreamStep
      <4>2. CASE k = 3
        <5>1. /\ archive' = Append(archive, Head(todo[3])) /\ todo'[3] = Tail(todo[3])
              /\ todo'[2] = todo[2] /\ pipe'[2] = pipe[2]
          BY <2>1, <2>2, <4>2
        <5>2. Chain(Append(archive, Head(todo[3])), Tail(todo[3]), pipe[2], todo[2], W)
          BY <2>1, <3>5, <4>2, ChainToArchive
        <5> QED BY <2>1, <2>3, <3>2, <5>1, <5>2, StreamStep
      <4> QED BY <2>5, <4>1, <4>2
    <3> QED BY <2>3, <3>1, <3>4, <3>6 DEF FlowInv
  <2> QED BY <2>4, <2>5
<1> QED BY <1>1, <1>2

(* p2archive takes a path and has its record, or nothing, to send.         *)
LEMMA FlowArchived ==
  ASSUME BufOK, FlowInv, NEW k \in Stages, archive_file(k), UNCHANGED <<mode, denied>>
  PROVE  FlowInv'
<1>1. /\ Reads(k, "p2archive") /\ UNCHANGED <<archive, restored, part, life, how>>
      /\ todo[k] = <<>> /\ pipe[k - 1] # <<>>
  BY DEF archive_file, Reads
<1>2. mode = "create" /\ k = 2
  BY <1>1, Programs DEF Reads
<1>3. /\ pipe[1] # <<>> /\ todo[2] = <<>> /\ pipe'[1] = Tail(pipe[1]) /\ pipe'[2] = pipe[2]
      /\ Head(pipe[1]) \in Items
  BY <1>1, <1>2, ReadBuf
<1>4. mode' = mode /\ denied' = denied /\ FirstInput' = FirstInput /\ life' = life /\ how' = how
  BY <1>1, InputFixed
<1>5. PICK c \in Nat, W \in Seq(Items) : InputOK(c) /\ StreamOK(c, W)
  BY <1>2 DEF FlowInv
<1>6. todo'[1] = todo[1] /\ todo'[3] = todo[3]
  BY <1>2 DEF archive_file, BufOK
<1>7. InputOK(c + 1)' /\ c + 1 \in DOMAIN FirstInput /\ Head(pipe[1]) = FirstInput[c + 1]
  BY <1>3, <1>4, <1>5, <1>6, InputRead
<1>8. c + 1 \in Files /\ Head(pipe[1])[1] = c + 1
  <2>1. FirstInput = [f \in Files |-> <<f, "path">>]
    BY <1>2 DEF FirstInput
  <2>2. c + 1 \in Files
    BY <1>7, <2>1
  <2> QED BY <1>7, <2>1, <2>2
<1>9. /\ archive \in Seq(Items) /\ todo[3] \in Seq(Items) /\ pipe[2] \in Seq(Items)
      /\ Records(W, c) /\ Chain(archive, todo[3], pipe[2], <<>>, W) /\ restored = <<>> /\ part = 0
  BY <1>3, <1>5 DEF BufOK, StreamOK
<1>10. CASE c + 1 \in denied
  <2>1. todo'[2] = <<>>
    BY <1>2, <1>3, <1>8, <1>10 DEF archive_file
  <2>2. Records(W, c + 1)
    BY <1>9, <1>10, FileDenied
  <2>3. StreamOK(c + 1, W)
    BY <1>3, <1>9, <2>2 DEF StreamOK
  <2>4. StreamOK(c + 1, W)'
    BY <1>1, <1>3, <1>4, <1>6, <2>1, <2>3, StreamQuiet
  <2> QED BY <1>2, <1>4, <1>7, <2>4 DEF FlowInv
<1>11. CASE c + 1 \notin denied
  <2>1. PICK body \in transfer_data(c + 1) : todo' = [todo EXCEPT ![2] = Sent(c + 1, body)]
    BY <1>2, <1>8, <1>11 DEF archive_file, Sent
  <2> DEFINE R == Sent(c + 1, body)
  <2>2. todo'[2] = R /\ R \in Seq(Items)
    BY <1>8, <2>1, RecordOf DEF BufOK
  <2>3. Records(W \o R, c + 1)
    BY <1>8, <1>9, <1>11, FileSent
  <2>4. Chain(archive, todo[3], pipe[2], R, W \o R) /\ W \o R \in Seq(Items)
    BY <1>9, <2>2, ChainSent
  <2> HIDE DEF R
  <2>5. Records(W \o R, c + 1)'
    BY <1>4, <2>3 DEF Records, InOrder, FilesUpTo
  <2>6. StreamOK(c + 1, W \o R)'
    BY <1>1, <1>3, <1>6, <1>9, <2>2, <2>4, <2>5 DEF StreamOK
  <2>7. \E d \in Nat, V \in Seq(Items) : InputOK(d)' /\ StreamOK(d, V)'
    <3>1. c + 1 \in Nat
      OBVIOUS
    <3> QED BY <1>7, <2>4, <2>6, <3>1
  <2> QED BY <1>2, <1>4, <2>7 DEF FlowInv
<1> QED BY <1>10, <1>11

(* p2crypt passes on what it reads.                                        *)
LEMMA FlowEncrypted ==
  ASSUME BufOK, FlowInv, NEW k \in Stages, Encrypt(k), UNCHANGED <<mode, denied>>
  PROVE  FlowInv'
<1>1. /\ Reads(k, "p2crypt") /\ UNCHANGED <<archive, restored, part, life, how>>
      /\ todo[k] = <<>> /\ pipe[k - 1] # <<>> /\ todo' = [todo EXCEPT ![k] = <<Head(pipe[k - 1])>>]
  BY DEF Encrypt, Reads
<1>2. mode = "create" /\ k = 3
  BY <1>1, Programs DEF Reads
<1>3. /\ pipe[2] # <<>> /\ todo[3] = <<>> /\ pipe'[2] = Tail(pipe[2]) /\ pipe'[1] = pipe[1]
  BY <1>1, <1>2, ReadBuf
<1>4. mode' = mode /\ denied' = denied /\ FirstInput' = FirstInput /\ life' = life /\ how' = how
  BY <1>1, InputFixed
<1>5. PICK c \in Nat, W \in Seq(Items) : InputOK(c) /\ StreamOK(c, W)
  BY <1>2 DEF FlowInv
<1>6. todo'[1] = todo[1] /\ todo'[2] = todo[2] /\ todo'[3] = <<Head(pipe[2])>>
  BY <1>1, <1>2 DEF BufOK
<1>7. InputOK(c)'
  BY <1>3, <1>4, <1>5, <1>6, InputQuiet DEF Fresh
<1>8. Chain(archive, <<Head(pipe[2])>>, Tail(pipe[2]), todo[2], W)
  <2>1. /\ archive \in Seq(Items) /\ pipe[2] \in Seq(Items) /\ todo[2] \in Seq(Items)
        /\ Chain(archive, <<>>, pipe[2], todo[2], W)
    BY <1>3, <1>5 DEF BufOK, StreamOK
  <2> QED BY <1>3, <2>1, ChainEncrypted
<1>9. StreamOK(c, W)'
  BY <1>1, <1>3, <1>4, <1>5, <1>6, <1>8, StreamStep
<1> QED BY <1>2, <1>4, <1>7, <1>9 DEF FlowInv

(* p2unarchive reads a part.                                               *)
LEMMA PartReproduced ==
  ASSUME BufOK, NEW k \in Stages, reproduce_file(k), UNCHANGED <<mode, denied>>,
         NEW c \in Nat, InputOK(c), ExtractOK(c)
  PROVE  mode # "create" /\ Intact(c) /\ c + 1 \in DOMAIN archive
         /\ InputOK(c + 1)' /\ ExtractOK(c + 1)' /\ Intact(c + 1)'
<1>1. /\ Reads(k, "p2unarchive") /\ UNCHANGED <<archive, life, how, todo>>
      /\ pipe[k - 1] # <<>> /\ Runs(k)
  BY DEF reproduce_file, Reads
<1>2. mode # "create" /\ k = 2
  BY <1>1, Programs DEF Reads
<1>3. /\ pipe[1] # <<>> /\ pipe'[1] = Tail(pipe[1]) /\ pipe'[2] = pipe[2]
      /\ Head(pipe[1]) \in Items
  BY <1>1, <1>2, ReadBuf
<1>4. mode' = mode /\ denied' = denied /\ FirstInput' = FirstInput /\ life' = life /\ how' = how
  BY <1>1, InputFixed
<1>5. InputOK(c + 1)' /\ c + 1 \in DOMAIN FirstInput /\ Head(pipe[1]) = FirstInput[c + 1]
  BY <1>1, <1>3, <1>4, InputRead
<1>6. Head(pipe[1])[1] = (c \div 4) + 1 /\ Head(pipe[1])[1] \in Files
  <2>1. c + 1 \in DOMAIN archive /\ Head(pipe[1]) = archive[c + 1]
    BY <1>2, <1>5 DEF FirstInput
  <2>2. Head(pipe[1]) = Cell(c + 1)
    BY <2>1 DEF ExtractOK
  <2>3. Cell(c + 1)[1] = (c \div 4) + 1
    BY FourParts DEF Cell
  <2> QED BY <1>3, <2>2, <2>3, ItemsAre
<1>7. Intact(c)
  BY <1>1, <1>2 DEF ExtractOK, Runs, Gone
<1>8. /\ part' = (part + 1) % Len(Parts)
      /\ restored' = CASE part = 2 -> Append(restored, <<Head(pipe[1])[1], "empty">>)
                       [] part = 3 -> [restored EXCEPT ![Len(restored)] = <<Head(pipe[1])[1], "good">>]
                       [] OTHER -> restored
  BY <1>2 DEF reproduce_file
<1>9. ExtractOK(c + 1)' /\ Intact(c + 1)'
  <2> DEFINE f == Head(pipe[1])[1]
  <2>1. /\ restored' = CASE part = 2 -> Append(restored, <<f, "empty">>)
                         [] part = 3 -> [restored EXCEPT ![Len(restored)] = <<f, "good">>]
                         [] OTHER -> restored
        /\ f \in Files /\ f = (c \div 4) + 1
    BY <1>6, <1>8
  <2> HIDE DEF f
  <2> QED BY <1>1, <1>3, <1>7, <1>8, <2>1, Reproduced
<1>10. c + 1 \in DOMAIN archive
  BY <1>2, <1>5 DEF FirstInput
<1> QED BY <1>2, <1>5, <1>7, <1>9, <1>10

LEMMA FlowReproduced ==
  ASSUME BufOK, FlowInv, NEW k \in Stages, reproduce_file(k), UNCHANGED <<mode, denied>>
  PROVE  FlowInv'
<1>1. mode # "create"
  BY Programs DEF reproduce_file, Reads
<1>2. PICK c \in Nat : InputOK(c) /\ ExtractOK(c)
  BY <1>1 DEF FlowInv
<1>3. InputOK(c + 1)' /\ ExtractOK(c + 1)' /\ c + 1 \in Nat
  BY <1>2, PartReproduced
<1> QED BY <1>1, <1>3 DEF FlowInv

(* An end of records, at last, needs the end of p2crypt.                   *)
LEMMA RecordsEndLate ==
  ASSUME ArchiveInv, BufOK, HowOK, NEW k \in Stages, EndOfRecords(k), UNCHANGED <<mode, denied>>,
         NEW c \in Nat, InputOK(c), ExtractOK(c)
  PROVE  mode # "create" /\ InputOK(c)' /\ ExtractOK(c)'
<1>1. mode # "create" /\ k = 2 /\ Runs(k) /\ AtEnd(k) /\ UNCHANGED <<archive, part, pipe, todo>>
  BY Programs DEF EndOfRecords
<1>2. life[1] \in Gone
  <2>1. life[k - 1] \in Gone
    BY <1>1, WriterIsGone DEF Gone
  <2> QED BY <1>1, <2>1
<1>3. LivesGoOn
  BY <1>1, StageGoesOn DEF Stage
<1>4. life' \in [Stages -> Lives] /\ how'[1] = how[1] /\ life'[1] = life[1]
  <2>1. PICK status \in {"ok", "fail"} : End(2, status)
    BY <1>1 DEF EndOfRecords
  <2> QED BY <2>1 DEF End, HowOK
<1>5. mode' = mode /\ FirstInput' = FirstInput /\ pipe' = pipe /\ todo' = todo
  BY <1>1, InputFixed
<1>6. ExtractOK(c)'
  BY <1>1, <1>2, <1>4, RecordsEnd
<1>7. InputOK(c)'
  BY <1>3, <1>5, InputQuiet DEF LivesGoOn, Drained
<1> QED BY <1>1, <1>6, <1>7

LEMMA FlowRecordsEnd ==
  ASSUME ArchiveInv, BufOK, HowOK, FlowInv, NEW k \in Stages, EndOfRecords(k), UNCHANGED <<mode, denied>>
  PROVE  FlowInv'
<1>1. mode # "create"
  BY Programs DEF EndOfRecords
<1>2. PICK c \in Nat : InputOK(c) /\ ExtractOK(c)
  BY <1>1 DEF FlowInv
<1>3. InputOK(c)' /\ ExtractOK(c)'
  BY <1>2, RecordsEndLate
<1> QED BY <1>1, <1>3 DEF FlowInv

LEMMA FlowStep == ArchiveInv /\ BufOK /\ HowOK /\ FlowInv /\ [Next]_vars => FlowInv'
<1> SUFFICES ASSUME ArchiveInv, BufOK, HowOK, FlowInv, [Next]_vars PROVE FlowInv'
  OBVIOUS
<1>1. UNCHANGED <<mode, denied>>
  BY DEF Next, vars
<1>2. CASE ParentStep \/ ParentFails
  BY <1>1, <1>2, ParentGoesOn, ParentMovesNothing, FlowQuiet
<1>3. ASSUME NEW k \in Stages, Child(k) PROVE FlowInv'
  <2>1. CASE redirected_exec(k, IF k = 1 THEN FirstInput ELSE <<>>)
    BY <1>1, <2>1, FlowExec
  <2>2. CASE my_write(k)
    BY <1>1, <2>2, FlowWrite
  <2>3. CASE archive_file(k)
    BY <1>1, <2>3, FlowArchived
  <2>4. CASE Encrypt(k)
    BY <1>1, <2>4, FlowEncrypted
  <2>5. CASE reproduce_file(k)
    BY <1>1, <2>5, FlowReproduced
  <2>6. CASE EndOfRecords(k)
    BY <1>1, <2>6, FlowRecordsEnd
  <2>7. CASE EndOfInput(k) \/ (k = 1 /\ FirstEnds)
    <3>1. Stage(k) /\ UNCHANGED <<data, pipe, todo>>
      BY <2>7 DEF Stage, EndOfInput, FirstEnds
    <3> QED BY <1>1, <3>1, StageGoesOn, FlowQuiet
  <2> QED BY <1>3, <2>1, <2>2, <2>3, <2>4, <2>5, <2>6, <2>7 DEF Child, Stage
<1>4. ASSUME NEW k \in Stages, StageFails(k) PROVE FlowInv'
  BY <1>1, <1>4, StageGoesOn, FlowQuiet DEF StageFails
<1>5. CASE UNCHANGED vars
  BY <1>1, <1>5, SameGoesOn, FlowQuiet DEF vars
<1> QED BY <1>2, <1>3, <1>4, <1>5 DEF Next

LEMMA HowInit == Init => HowOK
  BY DEF Init, HowOK, Gone, Fresh

FlowHolds == ArchiveInv /\ BufOK /\ HowOK /\ FlowInv

LEMMA FlowAlways == Spec => []FlowHolds
<1>1. Init => FlowHolds
  BY InitImplies, BufInit, HowInit, FlowInit DEF FlowHolds
<1>2. FlowHolds /\ [Next]_vars => FlowHolds'
  BY NextKeepsInv, BufStep, HowStep, FlowStep DEF FlowHolds
<1> QED BY <1>1, <1>2, PTL DEF Spec

-----------------------------------------------------------------------------
(* p2archive.c:103 with hw2_functions.c:163: whatever fails and whoever is *)
(* killed, the archive holds the records of the readable files, in order,  *)
(* none left out, whole but for the last.                                  *)
THEOREM WholeRecordsInOrder == Spec => []ArchiveInOrder
<1>1. ASSUME FlowHolds PROVE ArchiveInOrder
  <2>1. ASSUME mode = "create" PROVE InOrder(archive)
    <3>1. PICK c \in Nat, W \in Seq(Items) : InputOK(c) /\ StreamOK(c, W)
      BY <1>1, <2>1 DEF FlowHolds, FlowInv
    <3>2. InOrder(W) /\ Run(archive, 0, W)
      BY <3>1 DEF StreamOK, Records, Chain
    <3> QED BY <1>1, <3>2, RunInOrder DEF FlowHolds, BufOK
  <2> QED BY <2>1 DEF ArchiveInOrder, InOrder, FilesUpTo
<1> QED BY <1>1, FlowAlways, PTL

(* p2unarchive.c:79, 102: the files restored are those of the archive, in  *)
(* order, and at most one of them is not as it was: the last, or, of an    *)
(* input that ends inside a name, one written over; and other contents     *)
(* take an archive cut inside a record, or a p2crypt that broke off.       *)
THEOREM RestoredButForOne == Spec => []AtMostOneIsTorn
<1>1. ASSUME FlowHolds PROVE AtMostOneIsTorn
  <2>1. CASE mode = "create"
    <3>1. restored = <<>>
      BY <1>1, <2>1 DEF FlowHolds, FlowInv, StreamOK
    <3> QED BY <3>1 DEF AtMostOneIsTorn
  <2>2. CASE mode # "create"
    <3>1. PICK c \in Nat : ExtractOK(c)
      BY <1>1, <2>2 DEF FlowHolds, FlowInv
    <3>2. PICK n \in Nat : n = Len(restored) /\ DOMAIN restored = 1 .. n
      BY <3>1, LenProperties DEF ExtractOK
    <3>3. PICK q \in Nat : q = c \div 4 /\ (c + 1) \div 4 \in {q, q + 1}
      <4>1. PICK q \in Nat, r \in 0 .. 3 : c = 4 * q + r
        BY Quarter
      <4> QED BY <4>1, QuarterIs, NextQuarter
    <3>4. CASE Overwritten(c)
      <4>1. PICK k \in DOMAIN restored :
              \A i \in DOMAIN restored : restored[i] = <<i, IF i = k THEN "spoilt" ELSE "good">>
        BY <3>4 DEF Overwritten
      <4>2. part = 1 /\ (Len(archive) % 4 # 0 \/ how[1] # "ok")
        BY <3>1, <3>4 DEF Overwritten, ExtractOK
      <4> QED BY <3>2, <4>1, <4>2, FourParts DEF AtMostOneIsTorn
    <3>5. CASE Broken(c)
      <4>1. \A i \in 1 .. n : restored[i] = <<i, IF i <= q THEN "good" ELSE "garbage">>
        BY <3>2, <3>3, <3>5 DEF Broken
      <4>2. n = q + 1 /\ (Len(archive) % 4 # 0 \/ how[1] # "ok")
        BY <3>2, <3>3, <3>5 DEF Broken
      <4>3. \A i \in 1 .. n : i <= q \/ i = n
        BY <4>2
      <4> QED BY <3>2, <4>1, <4>2, <4>3, FourParts DEF AtMostOneIsTorn
    <3>6. CASE Intact(c)
      <4>1. \A i \in 1 .. n : restored[i] = <<i, IF i <= q THEN "good" ELSE "empty">>
        BY <3>2, <3>3, <3>6 DEF Intact
      <4>2. n \in {q, q + 1}
        BY <3>2, <3>3, <3>6 DEF Intact
      <4>3. \A i \in 1 .. n : i <= q \/ i = n
        BY <4>2
      <4> QED BY <3>2, <4>1, <4>2, <4>3, FourParts DEF AtMostOneIsTorn
    <3> QED BY <3>1, <3>4, <3>5, <3>6 DEF ExtractOK
  <2> QED BY <2>1, <2>2
<1> QED BY <1>1, FlowAlways, PTL

-----------------------------------------------------------------------------
(* The rest of the types: a child is waited for once, and nobody but a pid *)
(* of the table, or everybody, is given to kill.                           *)
RestOK ==
  /\ magic \in {"absent", "missing", "present"}
  /\ result \in {"none", "success", "refused", "failure"}
  /\ waits <= 3 /\ signalled \subseteq -1 .. 3 /\ missed \subseteq Stages

LEMMA GiveUpRest ==
  ASSUME RestOK, NEW table \in [Stages -> -1 .. 3], NEW n \in 0 .. 3, NEW lives,
         GiveUp(table, n, lives), waits' <= 3
  PROVE  RestOK'
<1> DEFINE hit == Targets(table, n, lives)
<1>1. /\ magic' = magic /\ result' = "failure"
      /\ signalled' = signalled \cup {table[k] : k \in hit}
      /\ missed' = missed \cup {k \in hit : table[k] > 0 /\ lives[k] = "reaped"}
  BY DEF GiveUp, kill_all_children
<1>2. hit \subseteq Stages
  BY DEF Targets
<1> HIDE DEF hit
<1>3. \A k \in hit : table[k] \in -1 .. 3
  BY <1>2
<1> QED BY <1>1, <1>2, <1>3 DEF RestOK

LEMMA RestStep == ArchiveInv /\ RestOK /\ [Next]_vars => RestOK'
<1> SUFFICES ASSUME ArchiveInv, RestOK, [Next]_vars PROVE RestOK'
  OBVIOUS
<1>1. ControlOK
  BY DEF ArchiveInv
<1>2. CASE UNCHANGED <<magic, result, waits, history>>
  BY <1>2 DEF RestOK
<1>3. CASE SetUp \/ SetUpFails
  BY <1>3 DEF SetUp, SetUpFails, RestOK
<1>4. CASE my_fork \/ close_multiple_fd
  BY <1>2, <1>4 DEF my_fork, close_multiple_fd
<1>5. CASE my_fork_fails
  <2> DEFINE table == [processes EXCEPT ![at] = -1]
  <2>1. table \in [Stages -> -1 .. 3] /\ at - 1 \in 0 .. 3 /\ waits' = waits
    BY <1>1, <1>5 DEF ControlOK, my_fork_fails
  <2>2. GiveUp(table, at - 1, life) \/ UNCHANGED <<magic, result, waits, history>>
    BY <1>5 DEF my_fork_fails
  <2> HIDE DEF table
  <2>3. CASE GiveUp(table, at - 1, life)
    BY <2>1, <2>3, GiveUpRest DEF RestOK
  <2> QED BY <1>2, <2>2, <2>3
<1>6. CASE close_fails
  <2>1. /\ GiveUp(processes, at, life) /\ waits' = waits
        /\ processes \in [Stages -> -1 .. 3] /\ at \in 0 .. 3
    BY <1>1, <1>6 DEF ControlOK, close_fails
  <2> QED BY <2>1, GiveUpRest DEF RestOK
<1>7. CASE pc = "wait" /\ NobodyToWait
  <2>1. /\ GiveUp(processes, StageCount, life) /\ waits' = waits
        /\ processes \in [Stages -> -1 .. 3] /\ StageCount \in 0 .. 3
    BY <1>1, <1>7 DEF ControlOK, NobodyToWait
  <2> QED BY <2>1, GiveUpRest DEF RestOK
<1>8. ASSUME pc = "wait", NEW k \in Stages, Waited(k) PROVE RestOK'
  <2> DEFINE lives == [life EXCEPT ![k] = "reaped"]
             table == [j \in Stages |-> IF processes[j] = k /\ how[k] # "signal" THEN 0 ELSE processes[j]]
  <2>1. waits' <= 3
    <3>1. waits' = waits + 1 /\ life[k] = "dead" /\ waits = One(1) + One(2) + One(3)
      BY <1>8 DEF Waited, ArchiveInv, WaitsOK
    <3>2. One(k) = 0 /\ One(1) \in {0, 1} /\ One(2) \in {0, 1} /\ One(3) \in {0, 1}
      BY <3>1 DEF One
    <3>3. k = 1 \/ k = 2 \/ k = 3
      OBVIOUS
    <3> QED BY <3>1, <3>2, <3>3
  <2>2. CASE how[k] = "ok"
    <3>1. magic' = magic /\ UNCHANGED history /\ result' \in {result, "success"}
      BY <1>8, <2>2 DEF Waited
    <3> QED BY <2>1, <3>1 DEF RestOK
  <2>3. CASE how[k] # "ok"
    <3>1. GiveUp(table, StageCount, lives)
      BY <1>8, <2>3 DEF Waited
    <3>2. table \in [Stages -> -1 .. 3] /\ StageCount \in 0 .. 3
      BY <1>1 DEF ControlOK
    <3> HIDE DEF table, lives, StageCount
    <3> QED BY <2>1, <3>1, <3>2, GiveUpRest
  <2> QED BY <2>2, <2>3
<1>9. ASSUME NEW k \in Stages, Child(k) PROVE RestOK'
  BY <1>2, <1>9 DEF Child, redirected_exec
<1>10. ASSUME NEW k \in Stages, UNCHANGED <<parent, history>> PROVE RestOK'
  BY <1>2, <1>10
<1>11. CASE UNCHANGED vars
  BY <1>2, <1>11 DEF vars
<1> QED BY <1>3, <1>4, <1>5, <1>6, <1>7, <1>8, <1>9, <1>10, <1>11
        DEF Next, ParentStep, ParentFails, wait_all_processes

(* The types of hw2's state.                                               *)
THEOREM ArchiverTypes == Spec => []TypeOK
<1>1. Init => RestOK
  BY DEF Init, RestOK
<1>2. ASSUME FlowHolds, RestOK PROVE TypeOK
  <2>1. restored \in Seq(Files \X Contents) /\ part \in 0 .. 3
    <3>1. CASE mode = "create"
      <4>1. restored = <<>> /\ part = 0
        BY <1>2, <3>1 DEF FlowHolds, FlowInv, StreamOK
      <4> QED BY <4>1
    <3>2. CASE mode # "create"
      <4>1. PICK c \in Nat : ExtractOK(c)
        BY <1>2, <3>2 DEF FlowHolds, FlowInv
      <4> QED BY <4>1 DEF ExtractOK
    <3> QED BY <3>1, <3>2
  <2>2. ControlOK /\ BufOK /\ RestOK
    BY <1>2 DEF FlowHolds, ArchiveInv
  <2>3. /\ mode \in {"create", "extract"} /\ denied \subseteq Files
        /\ magic \in {"absent", "missing", "present"} /\ archive \in Seq(Items)
        /\ restored \in Seq(Files \X {"empty", "good", "garbage", "spoilt"})
        /\ part \in 0 .. Len(Parts) - 1
    BY <2>1, <2>2, FourParts DEF BufOK, RestOK, Contents
  <2>4. /\ fds \in [0 .. 3 -> SUBSET Ends]
        /\ pipe \in [{1, 2} -> Seq(Items)] /\ \A i \in {1, 2} : Len(pipe[i]) <= PipeSize
        /\ life \in [Stages -> {"none", "forked", "runs", "dead", "reaped"}]
        /\ how \in [Stages -> {"none", "ok", "fail", "signal"}]
        /\ todo \in [Stages -> Seq(Items)]
    BY <2>2 DEF BufOK, ControlOK
  <2>5. /\ pc \in {"open", "fork", "close", "wait", "done"} /\ at \in Stages
        /\ processes \in [Stages -> -1 .. 3] /\ waits \in 0 .. 3
        /\ result \in {"none", "success", "refused", "failure"}
        /\ signalled \subseteq -1 .. 3 /\ missed \subseteq Stages
    BY <2>2 DEF RestOK, ControlOK
  <2> QED BY <2>3, <2>4, <2>5 DEF TypeOK
<1>3. Spec => []RestOK
  BY <1>1, RestStep, InvHolds, PTL DEF Spec
<1> QED BY <1>2, <1>3, FlowAlways, PTL

-----------------------------------------------------------------------------
(* The refinement.  A stage that has ended normally leaves nothing behind: *)
(* its input is empty, and stays so, for nobody is left who writes it.     *)
DrainedOK == \A k \in Stages : how[k] = "ok" => Drained(k)

LEMMA DrainedInit == Init => DrainedOK
  BY DEF Init, DrainedOK

(* What is taken from a pipe was in it, and what comes into one comes from *)
(* a living stage's hand.                                                  *)
LEMMA OnlyTheLivingMove ==
  ASSUME BufOK, NEW k \in Stages, Stage(k)
  PROVE  \A j \in Stages : /\ life[j] \in Gone => todo'[j] = todo[j]
                           /\ j < 3 /\ life[j] \in Gone /\ pipe[j] = <<>> => pipe'[j] = <<>>
<1>1. CASE my_write(k)
  <2>1. /\ life[k] = "runs"
        /\ todo' = todo \/ todo' = [todo EXCEPT ![k] = Tail(@)]
        /\ pipe' = pipe \/ (k < 3 /\ pipe' = [pipe EXCEPT ![k] = Append(@, Head(todo[k]))])
    BY <1>1 DEF my_write, Runs, WriteArchive, WritePipe
  <2> QED BY <2>1 DEF BufOK, Gone
<1>2. CASE archive_file(k) \/ Encrypt(k) \/ reproduce_file(k)
  <2>1. PICK program : Reads(k, program)
    BY <1>2 DEF archive_file, Encrypt, reproduce_file
  <2>2. todo' = todo \/ \E s : todo' = [todo EXCEPT ![k] = s]
    BY <1>2 DEF archive_file, Encrypt, reproduce_file
  <2>3. life[k] = "runs" /\ pipe[k - 1] # <<>> /\ \A i \in {1, 2} : i # k - 1 => pipe'[i] = pipe[i]
    BY <2>1, ReadBuf DEF Reads, Runs
  <2> QED BY <2>2, <2>3 DEF BufOK, Gone
<1>3. CASE EndOfInput(k) \/ EndOfRecords(k) \/ (k = 1 /\ FirstEnds)
  BY <1>3 DEF EndOfInput, EndOfRecords, FirstEnds
<1> QED BY <1>1, <1>2, <1>3 DEF Stage

LEMMA DrainedStep == FlowHolds /\ DrainedOK /\ [Next]_vars => DrainedOK'
<1> SUFFICES ASSUME FlowHolds, DrainedOK, [Next]_vars PROVE DrainedOK'
  OBVIOUS
<1> USE DEF FlowHolds
<1>1. ASSUME mode' = mode, LivesGoOn, how' = how \/ UNCHANGED <<pipe, todo>>,
             \A j \in Stages : /\ life[j] \in Gone => todo'[j] = todo[j]
                               /\ j < 3 /\ life[j] \in Gone /\ pipe[j] = <<>> => pipe'[j] = <<>>
      PROVE  DrainedOK'
  <2> SUFFICES ASSUME NEW k \in Stages, how'[k] = "ok" PROVE Drained(k)'
    BY DEF DrainedOK
  <2>1. Drained(k)
    BY <1>1 DEF DrainedOK, LivesGoOn
  <2>2. CASE UNCHANGED <<pipe, todo>>
    BY <1>1, <2>1, <2>2 DEF Drained
  <2>3. CASE how[k] = "ok"
    <3>1. todo'[k] = todo[k]
      BY <1>1, <2>3 DEF HowOK
    <3>2. ASSUME k > 1 PROVE pipe'[k - 1] = <<>>
      <4>1. k - 1 \in Stages /\ k - 1 < 3 /\ pipe[k - 1] = <<>>
        BY <2>1, <3>2 DEF Drained
      <4>2. life[k - 1] \in Gone
        BY <2>3, <3>2 DEF ArchiveInv, EndInOrder, Gone
      <4> QED BY <1>1, <4>1, <4>2
    <3> QED BY <1>1, <2>1, <3>1, <3>2 DEF Drained
  <2> QED BY <1>1, <2>2, <2>3
<1>2. mode' = mode
  BY DEF Next, vars
<1>3. CASE ParentStep \/ ParentFails
  BY <1>1, <1>2, <1>3, ParentGoesOn, ParentMovesNothing
<1>4. ASSUME NEW k \in Stages, Stage(k) PROVE DrainedOK'
  <2>1. how' = how \/ UNCHANGED <<pipe, todo>>
    BY <1>4 DEF Stage, my_write, WriteArchive, WritePipe, archive_file, Encrypt, reproduce_file,
                EndOfInput, EndOfRecords, FirstEnds
  <2> QED BY <1>1, <1>2, <1>4, <2>1, StageGoesOn, OnlyTheLivingMove
<1>5. ASSUME NEW k \in Stages, StageFails(k) PROVE DrainedOK'
  <2>1. UNCHANGED <<pipe, todo>>
    BY <1>5 DEF StageFails
  <2> QED BY <1>1, <1>2, <1>5, <2>1, StageGoesOn
<1>6. ASSUME NEW k \in Stages, NEW input, redirected_exec(k, input) PROVE DrainedOK'
  <2>1. /\ life[k] = "forked" /\ how' = how /\ pipe' = pipe /\ todo' = [todo EXCEPT ![k] = input]
    BY <1>6 DEF redirected_exec
  <2> SUFFICES ASSUME NEW j \in Stages, how'[j] = "ok" PROVE Drained(j)'
    BY DEF DrainedOK
  <2>2. Drained(j) /\ j # k
    BY <2>1 DEF DrainedOK, HowOK, Gone
  <2>3. todo'[j] = todo[j]
    BY <2>1, <2>2 DEF BufOK
  <2> QED BY <1>2, <2>1, <2>2, <2>3 DEF Drained
<1>7. CASE UNCHANGED vars
  <2>1. UNCHANGED <<life, how, pipe, todo>>
    BY <1>7 DEF vars
  <2> QED BY <1>1, <1>2, <2>1, SameGoesOn
<1> QED BY <1>3, <1>4, <1>5, <1>6, <1>7 DEF Next, Child

-----------------------------------------------------------------------------
(* Until the parent is done it has taken in nobody who failed; when it     *)
(* reports success it has taken in everybody.                              *)
SuccessOK ==
  /\ pc # "done" => result = "none" /\ \A k \in Stages : life[k] = "reaped" => how[k] = "ok"
  /\ result = "success" => pc = "done" /\ \A k \in 1 .. StageCount : how[k] = "ok"

LEMMA SuccessInit == Init => SuccessOK
  BY DEF Init, SuccessOK

(* The last child waited for: all the others have been.                    *)
LEMMA LastWaited ==
  ASSUME ArchiveInv, SuccessOK, pc = "wait", NEW k \in Stages, life[k] = "dead", how[k] = "ok",
         waits + 1 = StageCount
  PROVE  \A j \in 1 .. StageCount : how[j] = "ok"
<1>1. ControlOK /\ TableOK /\ WaitsOK
  BY DEF ArchiveInv
<1>2. \A j \in Stages : life[j] = "reaped" => how[j] = "ok"
  BY DEF SuccessOK
<1>3. waits = One(1) + One(2) + One(3)
  BY <1>1 DEF WaitsOK
<1>4. \A j \in Stages : j > StageCount => life[j] = "none"
  BY <1>1 DEF TableOK, ControlOK, Forked
<1>5. One(1) \in {0, 1} /\ One(2) \in {0, 1} /\ One(3) \in {0, 1} /\ One(k) = 0 /\ k \in {1, 2, 3}
  BY DEF One
<1>6. k <= StageCount
  BY <1>4
<1>7. CASE mode = "create"
  <2>1. \A j \in Stages : j # k => One(j) = 1
    BY <1>3, <1>5, <1>7
  <2> QED BY <1>2, <2>1 DEF One
<1>8. CASE mode # "create"
  <2>1. One(3) = 0
    BY <1>4, <1>8 DEF One
  <2>2. \A j \in {1, 2} : j # k => One(j) = 1
    BY <1>3, <1>5, <1>6, <1>8, <2>1
  <2> QED BY <1>2, <1>8, <2>2 DEF One
<1> QED BY <1>7, <1>8

(* What the parent does with the outcome.                                  *)
LEMMA ParentOutcome ==
  ASSUME FlowHolds, SuccessOK, ParentStep \/ ParentFails, UNCHANGED mode
  PROVE  /\ SuccessOK' /\ pc # "done"
         /\ \/ result' \in {"none", "refused", "failure"}
            \/ result' = "success" /\ \A k \in 1 .. StageCount : how[k] = "ok"
<1> USE DEF FlowHolds
<1>1. ASSUME pc # "done", NEW table, NEW n, NEW lives, GiveUp(table, n, lives)
      PROVE  SuccessOK' /\ result' = "failure"
  BY <1>1 DEF GiveUp, SuccessOK
<1>2. CASE SetUp
  <2>1. pc = "open" /\ life' = life /\ how' = how /\ pc' \in {"done", "fork"}
        /\ (pc' = "done" => result' = "refused") /\ (pc' = "fork" => result' = result)
    BY <1>2 DEF SetUp
  <2> QED BY <2>1 DEF SuccessOK
<1>3. CASE SetUpFails
  BY <1>3 DEF SetUpFails, SuccessOK
<1>4. CASE my_fork
  <2>1. /\ pc = "fork" /\ life' = [life EXCEPT ![at] = "forked"] /\ how' = how /\ pc' = "close"
        /\ result' = result /\ life \in [Stages -> Lives]
    BY <1>4 DEF my_fork, HowOK
  <2>2. \A k \in Stages : life'[k] = "reaped" => life[k] = "reaped"
    BY <2>1
  <2> QED BY <2>1, <2>2 DEF SuccessOK
<1>5. CASE close_multiple_fd
  <2>1. pc = "close" /\ life' = life /\ how' = how /\ result' = result /\ pc' \in {"fork", "wait"}
    BY <1>5 DEF close_multiple_fd
  <2> QED BY <2>1 DEF SuccessOK
<1>6. CASE my_fork_fails
  <2>1. pc = "fork"
    BY <1>6 DEF my_fork_fails
  <2>2. CASE GiveUp([processes EXCEPT ![at] = -1], at - 1, life)
    BY <1>1, <2>1, <2>2
  <2>3. CASE UNCHANGED <<life, how, result>> /\ pc' = "close"
    BY <2>1, <2>3 DEF SuccessOK
  <2> QED BY <1>6, <2>1, <2>2, <2>3 DEF my_fork_fails
<1>7. CASE close_fails
  BY <1>1, <1>7 DEF close_fails
<1>8. CASE pc = "wait" /\ NobodyToWait
  BY <1>1, <1>8 DEF NobodyToWait
<1>9. ASSUME NEW k \in Stages, pc = "wait", Waited(k)
      PROVE  /\ SuccessOK'
             /\ \/ result' \in {"none", "refused", "failure"}
                \/ result' = "success" /\ \A j \in 1 .. StageCount : how[j] = "ok"
  <2>1. CASE how[k] # "ok"
    <3>1. \E table, lives : GiveUp(table, StageCount, lives)
      BY <1>9, <2>1 DEF Waited
    <3> QED BY <1>1, <1>9, <3>1
  <2>2. CASE how[k] = "ok"
    <3>1. life[k] = "dead" /\ life' = [life EXCEPT ![k] = "reaped"] /\ how' = how
      BY <1>9, <2>2 DEF Waited
    <3>2. CASE waits + 1 = StageCount
      <4>1. pc' = "done" /\ result' = "success"
        BY <1>9, <2>2, <3>2 DEF Waited
      <4>2. \A j \in 1 .. StageCount : how[j] = "ok"
        BY <1>9, <2>2, <3>1, <3>2, LastWaited
      <4> QED BY <3>1, <4>1, <4>2 DEF SuccessOK
    <3>3. CASE waits + 1 # StageCount
      <4>1. pc' = pc /\ result' = result
        BY <1>9, <2>2, <3>3 DEF Waited
      <4>2. \A j \in Stages : life'[j] = "reaped" => life[j] = "reaped" \/ j = k
        BY <3>1 DEF HowOK
      <4> QED BY <1>9, <2>2, <3>1, <4>1, <4>2 DEF SuccessOK
    <3> QED BY <3>2, <3>3
  <2> QED BY <2>1, <2>2
<1>10. pc # "done"
  BY DEF ParentStep, ParentFails, SetUp, my_fork, close_multiple_fd, wait_all_processes,
         SetUpFails, my_fork_fails, close_fails
<1>11. CASE wait_all_processes
  BY <1>8, <1>9, <1>10, <1>11 DEF wait_all_processes
<1>12. result = "none"
  BY <1>10 DEF SuccessOK
<1> QED BY <1>1, <1>2, <1>3, <1>4, <1>5, <1>6, <1>7, <1>10, <1>11, <1>12
        DEF ParentStep, ParentFails, SetUp, SetUpFails, my_fork, my_fork_fails, close_multiple_fd,
            close_fails, GiveUp

LEMMA SuccessStep == FlowHolds /\ SuccessOK /\ [Next]_vars => SuccessOK'
<1> SUFFICES ASSUME FlowHolds, SuccessOK, [Next]_vars PROVE SuccessOK'
  OBVIOUS
<1>1. mode' = mode
  BY DEF Next, vars
<1>2. ASSUME pc' = pc, result' = result,
             \A k \in Stages : /\ life[k] \in Gone => how'[k] = how[k]
                               /\ life'[k] = "reaped" => life[k] = "reaped"
      PROVE  SuccessOK'
  <2>1. \A k \in Stages : how[k] = "ok" => how'[k] = "ok"
    BY <1>2 DEF FlowHolds, HowOK
  <2> QED BY <1>1, <1>2, <2>1 DEF SuccessOK, Gone
<1>3. CASE ParentStep \/ ParentFails
  BY <1>1, <1>3, ParentOutcome
<1>4. ASSUME NEW k \in Stages, Stage(k) \/ StageFails(k), UNCHANGED parent PROVE SuccessOK'
  <2>1. life' = life \/ \E status : End(k, status)
    BY <1>4 DEF Stage, StageFails, my_write, WriteArchive, WritePipe, archive_file, Encrypt, reproduce_file,
                EndOfInput, EndOfRecords, FirstEnds
  <2>2. \A j \in Stages : life'[j] = "reaped" => life[j] = "reaped"
    BY <2>1 DEF End, FlowHolds, HowOK
  <2>3. LivesGoOn
    BY <1>4, StageGoesOn DEF FlowHolds
  <2> QED BY <1>2, <1>4, <2>2, <2>3 DEF LivesGoOn
<1>5. ASSUME NEW k \in Stages, NEW input, redirected_exec(k, input) PROVE SuccessOK'
  <2>1. pc' = pc /\ result' = result /\ how' = how /\ life' = [life EXCEPT ![k] = "runs"]
    BY <1>5 DEF redirected_exec
  <2> QED BY <1>2, <2>1 DEF FlowHolds, HowOK
<1>6. CASE UNCHANGED vars
  BY <1>2, <1>6 DEF vars
<1> QED BY <1>3, <1>4, <1>5, <1>6 DEF Next, Child

-----------------------------------------------------------------------------
(* What has been copied.  Of an archive in order: a cell belongs to the    *)
(* file whose record ends behind it.                                       *)
LEMMA SameRecord ==
  ASSUME NEW a \in Seq(Items), InOrder(a), NEW q \in Nat, NEW r \in 1 .. 4, 4 * q + 4 \in DOMAIN a
  PROVE  4 * q + r \in DOMAIN a /\ a[4 * q + r][1] = a[4 * q + 4][1]
<1>1. DOMAIN a = 1 .. Len(a) /\ Len(a) \in Nat
  BY LenProperties
<1>2. \A k \in 1 .. 4 : 4 * q + k \in DOMAIN a
  BY <1>1
<1>3. ASSUME NEW k \in 1 .. 3 PROVE a[4 * q + k][1] = a[4 * q + (k + 1)][1]
  <2>1. 4 * q + (k + 1) \in DOMAIN a /\ 4 * q + (k + 1) > 1 /\ (4 * q + (k + 1)) - 1 = 4 * q + k
    BY <1>2
  <2>2. (4 * q + (k + 1)) % 4 # 1
    <3>1. CASE k = 3
      <4>1. 4 * q + (k + 1) = 4 * (q + 1) + 0
        BY <3>1
      <4> QED BY <4>1, QuarterIs
    <3>2. CASE k # 3
      <4>1. k + 1 \in 0 .. 3 /\ k + 1 # 1
        BY <3>2
      <4> QED BY <4>1, QuarterIs
    <3> QED BY <3>1, <3>2
  <2> QED BY <2>1, <2>2, FourParts DEF InOrder
<1>4. /\ a[4 * q + 1][1] = a[4 * q + 2][1] /\ a[4 * q + 2][1] = a[4 * q + 3][1]
      /\ a[4 * q + 3][1] = a[4 * q + 4][1]
  BY <1>3
<1> QED BY <1>2, <1>4

LEMMA ArchivedIs ==
  ASSUME NEW a \in Seq(Items), NEW q \in Nat, NEW r \in 0 .. 3, Len(a) = 4 * q + r
  PROVE  /\ Archived(a) = [i \in 1 .. q |-> a[4 * i][1]]
         /\ Archived(a) \in Seq(Files) /\ Len(Archived(a)) = q
<1>1. Len(a) \div 4 = q
  BY QuarterIs
<1>2. Archived(a) = [i \in 1 .. q |-> a[4 * i][1]]
  <2>1. \A i \in 1 .. q : i * 4 = 4 * i
    OBVIOUS
  <2> QED BY <1>1, <2>1, FourParts DEF Archived
<1>3. \A i \in 1 .. q : a[4 * i] \in Items
  <2>1. \A i \in 1 .. q : 4 * i \in 1 .. Len(a)
    OBVIOUS
  <2> QED BY <2>1
<1>4. Archived(a) \in [1 .. q -> Files]
  BY <1>2, <1>3, ItemsAre
<1> QED BY <1>2, <1>4, FunctionIsSeq

(* A cell more in the archive: it is no body, and ends no record, or ends  *)
(* the record of a file that was due.                                      *)
LEMMA OneMoreCell ==
  ASSUME NEW a \in Seq(Items), NEW x \in Items, NEW b, b = Append(a, x), InOrder(b)
  PROVE  \/ Archived(b) = Archived(a) /\ x[2] # "stale"
         \/ /\ Archived(b) = Append(Archived(a), x[1])
            /\ x[1] \in (Files \ denied) \ Range(Archived(a))
            /\ \A g \in Files \ denied : g < x[1] => g \in Range(Archived(a))
<1>1. PICK q \in Nat, r \in 0 .. 3 : Len(a) = 4 * q + r
  <2>1. Len(a) \in Nat
    OBVIOUS
  <2> QED BY <2>1, Quarter
<1>2. /\ b \in Seq(Items) /\ Len(b) = Len(a) + 1 /\ DOMAIN b = 1 .. Len(a) + 1 /\ DOMAIN a = 1 .. Len(a)
      /\ \A i \in 1 .. Len(a) : b[i] = a[i]
      /\ b[Len(a) + 1] = x
  OBVIOUS
<1>3. Archived(a) = [i \in 1 .. q |-> a[4 * i][1]] /\ Archived(a) \in Seq(Files) /\ Len(Archived(a)) = q
  BY <1>1, ArchivedIs
<1>4. CASE r # 3
  <2>1. r + 1 \in 0 .. 3 /\ Len(b) = 4 * q + (r + 1)
    BY <1>1, <1>2, <1>4
  <2>2. Archived(b) = [i \in 1 .. q |-> b[4 * i][1]]
    BY <1>2, <2>1, ArchivedIs
  <2>3. \A i \in 1 .. q : 4 * i \in 1 .. Len(a)
    BY <1>1
  <2>4. [i \in 1 .. q |-> b[4 * i][1]] = [i \in 1 .. q |-> a[4 * i][1]]
    BY <1>2, <2>3
  <2>5. x[2] # "stale"
    <3>1. Len(a) + 1 \in DOMAIN b /\ (Len(a) + 1) - 1 = 4 * q + r
      BY <1>1, <1>2
    <3>2. Framed(x)[2] = Parts[r + 1]
      BY <1>2, <3>1, QuarterIs, FourParts DEF InOrder
    <3>3. Parts[r + 1] # "body"
      BY <1>4, FourParts
    <3> QED BY <3>2, <3>3 DEF Framed
  <2> QED BY <1>3, <2>2, <2>4, <2>5
<1>5. CASE r = 3
  <2>1. Len(b) = 4 * (q + 1) + 0 /\ q + 1 \in Nat /\ Len(a) + 1 = 4 * q + 4 /\ 4 * (q + 1) = 4 * q + 4
    BY <1>1, <1>2, <1>5
  <2>2. Archived(b) = [i \in 1 .. q + 1 |-> b[4 * i][1]]
    <3>1. PICK p \in Nat, z \in 0 .. 3 : p = q + 1 /\ Len(b) = 4 * p + z
      BY <2>1
    <3>2. Archived(b) = [i \in 1 .. p |-> b[4 * i][1]]
      BY <1>2, <3>1, ArchivedIs
    <3> QED BY <3>1, <3>2
  <2>3. ASSUME NEW i \in 1 .. q PROVE b[4 * i] = a[4 * i] /\ 4 * i \in DOMAIN b
    <3>1. 4 * i \in 1 .. Len(a)
      BY <1>1
    <3> QED BY <1>2, <3>1
  <2>4. b[4 * (q + 1)] = x
    BY <1>2, <2>1
  <2>5. Archived(b) = Append(Archived(a), x[1])
    <3>1. x[1] \in Files
      BY ItemsAre
    <3>2. Append(Archived(a), x[1]) = [i \in 1 .. q + 1 |-> IF i = q + 1 THEN x[1] ELSE Archived(a)[i]]
      BY <1>3, <3>1
    <3>3. ASSUME NEW i \in 1 .. q + 1 PROVE b[4 * i][1] = IF i = q + 1 THEN x[1] ELSE Archived(a)[i]
      <4>1. CASE i = q + 1
        BY <2>4, <4>1
      <4>2. CASE i # q + 1
        <5>1. i \in 1 .. q
          BY <4>2
        <5>2. Archived(a)[i] = a[4 * i][1] /\ b[4 * i] = a[4 * i]
          BY <1>3, <2>3, <5>1
        <5> QED BY <4>2, <5>2
      <4> QED BY <4>1, <4>2
    <3> QED BY <2>2, <3>2, <3>3
  <2>6. {b[j][1] : j \in 1 .. 4 * q + 4} = FilesUpTo(x[1]) /\ 4 * q + 4 \in DOMAIN b /\ b[4 * q + 4] = x
    <3>1. 4 * q + 4 \in DOMAIN b /\ b[4 * q + 4] = x
      BY <1>2, <2>1
    <3>2. {b[j][1] : j \in 1 .. 4 * q + 4} = FilesUpTo(b[4 * q + 4][1])
      BY <3>1 DEF InOrder
    <3> QED BY <3>1, <3>2
  <2>7. Range(Archived(a)) = {b[4 * i][1] : i \in 1 .. q}
    <3>1. Range(Archived(a)) = {a[4 * i][1] : i \in 1 .. q}
      <4>1. PICK f : f = Archived(a)
        OBVIOUS
      <4>2. f = [i \in 1 .. q |-> a[4 * i][1]]
        BY <1>3, <4>1
      <4>3. DOMAIN f = 1 .. q /\ \A i \in 1 .. q : f[i] = a[4 * i][1]
        BY <4>2
      <4>4. Range(f) = {a[4 * i][1] : i \in 1 .. q}
        BY ONLY <4>3 DEF Range
      <4> QED BY <4>1, <4>4
    <3> QED BY <2>3, <3>1
  <2>8. ASSUME NEW i \in 1 .. q PROVE b[4 * i][1] # x[1]
    <3>1. 4 * i + 1 \in DOMAIN b /\ 4 * i + 1 > 1 /\ (4 * i + 1) - 1 = 4 * i /\ 4 * i + 1 \in 1 .. 4 * q + 4
      BY <1>2, <2>1
    <3>2. (4 * i + 1) % 4 = 1
      BY QuarterIs
    <3>3. b[4 * i][1] < b[4 * i + 1][1]
      BY <3>1, <3>2, FourParts DEF InOrder
    <3>4. b[4 * i + 1][1] \in FilesUpTo(x[1])
      BY <2>6, <3>1
    <3>5. b[4 * i + 1][1] <= x[1] /\ b[4 * i][1] \in Nat /\ b[4 * i + 1][1] \in Nat /\ x[1] \in Nat
      <4>1. \A j \in DOMAIN b : b[j] \in Items
        BY <1>2
      <4>2. \A y \in Items : y[1] \in Files
        BY ItemsAre
      <4>3. b[4 * i][1] \in Files /\ b[4 * i + 1][1] \in Files /\ x[1] \in Files
        BY <2>3, <3>1, <4>1, <4>2
      <4>4. b[4 * i + 1][1] <= x[1]
        BY <3>4 DEF FilesUpTo
      <4>5. Files \subseteq Nat
        BY DEF Files
      <4> QED BY <4>3, <4>4, <4>5
    <3> QED
      <4>1. PICK u, v, w : u = b[4 * i][1] /\ v = b[4 * i + 1][1] /\ w = x[1]
        OBVIOUS
      <4>2. u < v /\ v <= w /\ u \in Nat /\ v \in Nat /\ w \in Nat
        BY <3>3, <3>5, <4>1
      <4>3. u # w
        BY ONLY <4>2
      <4> QED BY <4>1, <4>3
  <2>9. ASSUME NEW g \in Files \ denied, g < x[1] PROVE \E i \in 1 .. q : g = b[4 * i][1]
    <3>1. x[1] \in Nat /\ g \in FilesUpTo(x[1])
      BY <2>9, ItemsAre DEF FilesUpTo, Files
    <3>2. PICK j \in 1 .. 4 * q + 4 : g = b[j][1]
      BY <2>6, <3>1
    <3>3. PICK p \in Nat, s \in 0 .. 3 : j - 1 = 4 * p + s
      <4>1. j - 1 \in Nat
        OBVIOUS
      <4> QED BY <4>1, Quarter
    <3>4. j = 4 * p + (s + 1) /\ s + 1 \in 1 .. 4 /\ p <= q /\ 4 * p + 4 \in DOMAIN b
      BY <1>2, <2>1, <3>3
    <3>5. g = b[4 * p + 4][1]
      BY <1>2, <3>2, <3>4, SameRecord
    <3>6. p # q
      <4>1. g \in Nat /\ x[1] \in Nat /\ g # x[1]
        BY <2>9, <3>1 DEF Files
      <4> QED BY <2>6, <3>5, <4>1
    <3>7. p + 1 \in 1 .. q /\ 4 * (p + 1) = 4 * p + 4
      BY <3>4, <3>6
    <3> QED BY <3>5, <3>7
  <2>10. x[1] \in Files \ denied
    BY <2>6 DEF FilesUpTo
  <2> QED BY <2>5, <2>7, <2>8, <2>9, <2>10
<1> QED BY <1>4, <1>5

(* What p2unarchive has restored is as many files as it has read records.  *)
Unharmed(R, c) ==
  \/ /\ Len(R) = (c + 1) \div 4
     /\ \A i \in DOMAIN R : R[i] = <<i, IF i <= c \div 4 THEN "good" ELSE "empty">>
  \/ /\ Len(R) = (c \div 4) + 1
     /\ \A i \in DOMAIN R : R[i] = <<i, IF i <= c \div 4 THEN "good" ELSE "garbage">>

OneSpoilt(R, c, k) ==
  /\ Len(R) = c \div 4
  /\ \A i \in DOMAIN R : R[i] = <<i, IF i = k THEN "spoilt" ELSE "good">>

LEMMA FilesMade ==
  ASSUME NEW c \in Nat, NEW R \in Seq(Files \X Contents),
         Unharmed(R, c) \/ \E k \in DOMAIN R : OneSpoilt(R, c, k)
  PROVE  Made(R) = [i \in 1 .. c \div 4 |-> i]
<1>1. PICK q \in Nat : q = c \div 4 /\ (c + 1) \div 4 \in {q, q + 1}
  <2>1. PICK q \in Nat, r \in 0 .. 3 : c = 4 * q + r
    BY Quarter
  <2> QED BY <2>1, QuarterIs, NextQuarter
<1>2. PICK n \in Nat : n = Len(R) /\ DOMAIN R = 1 .. n
  BY LenProperties
<1>3. n \in {q, q + 1}
  BY <1>1, <1>2 DEF Unharmed, OneSpoilt
<1>4. \A i \in 1 .. n : R[i][1] = i /\ (R[i][2] \in {"good", "spoilt"} <=> i <= q)
  <2>1. CASE Unharmed(R, c)
    <3>1. PICK w \in {"empty", "garbage"} :
            \A i \in DOMAIN R : R[i] = <<i, IF i <= q THEN "good" ELSE w>>
      BY <1>1, <2>1 DEF Unharmed
    <3> QED BY <1>2, <3>1
  <2>2. ASSUME NEW k \in DOMAIN R, OneSpoilt(R, c, k)
        PROVE  \A i \in 1 .. n : R[i][1] = i /\ (R[i][2] \in {"good", "spoilt"} <=> i <= q)
    <3>1. n = q
      BY <1>1, <1>2, <2>2 DEF OneSpoilt
    <3>2. \A i \in DOMAIN R : R[i] = <<i, IF i = k THEN "spoilt" ELSE "good">>
      BY <2>2 DEF OneSpoilt
    <3> QED BY ONLY <1>2, <3>1, <3>2
  <2> QED BY <2>1, <2>2
<1>5. {j \in DOMAIN R : R[j][2] \in {"good", "spoilt"}} = 1 .. q
  <2>1. 1 .. q \subseteq 1 .. n /\ \A j \in 1 .. n : j \in 1 .. q <=> j <= q
    BY ONLY <1>3, q \in Nat
  <2> QED BY <1>2, <1>4, <2>1
<1>6. \A i \in 1 .. q : R[i][1] = i
  <2>1. 1 .. q \subseteq 1 .. n
    BY ONLY <1>3, q \in Nat
  <2> QED BY <1>4, <2>1
<1> QED BY <1>1, <1>5, <1>6 DEF Made

(* The copies that are not what the file was.                              *)
SpoiltIn(s) == {item[1] : item \in {x \in Range(s) : x[2] \in {"stale", "spoilt"}}}

LEMMA SpoiltAre ==
  ASSUME NEW s
  PROVE  \A f : f \in SpoiltIn(s) <=> \E i \in DOMAIN s : s[i][1] = f /\ s[i][2] \in {"stale", "spoilt"}
  BY DEF SpoiltIn, Range

LEMMA StaleShrank ==
  ASSUME NEW a \in Seq(Items) PROVE SpoiltIn(a) \subseteq Shrinking
<1>1. \A i \in DOMAIN a : a[i] \in Items
  OBVIOUS
<1> QED BY <1>1, SpoiltAre, ItemsAre

LEMMA OneMoreStale ==
  ASSUME NEW a \in Seq(Items), NEW x \in Items, NEW b, b = Append(a, x)
  PROVE  SpoiltIn(b) = SpoiltIn(a) \cup (IF x[2] = "stale" THEN {x[1]} ELSE {})
<1>1. /\ DOMAIN b = DOMAIN a \cup {Len(a) + 1} /\ b[Len(a) + 1] = x
      /\ \A i \in DOMAIN a : b[i] = a[i]
  OBVIOUS
<1>2. x[2] # "spoilt"
  BY ItemsAre
<1>3. ASSUME NEW f PROVE f \in SpoiltIn(b) <=> f \in SpoiltIn(a) \/ (x[2] = "stale" /\ f = x[1])
  <2>1. f \in SpoiltIn(b) <=> \E i \in DOMAIN b : b[i][1] = f /\ b[i][2] \in {"stale", "spoilt"}
    BY SpoiltAre
  <2>2. f \in SpoiltIn(a) <=> \E i \in DOMAIN a : a[i][1] = f /\ a[i][2] \in {"stale", "spoilt"}
    BY SpoiltAre
  <2> QED BY ONLY <1>1, <1>2, <2>1, <2>2
<1> QED BY <1>3

LEMMA UnharmedSpoilt ==
  ASSUME NEW c, NEW R, Unharmed(R, c) PROVE SpoiltIn(R) = {}
<1>1. \A i \in DOMAIN R : R[i][2] \in {"good", "empty", "garbage"}
  BY DEF Unharmed
<1> QED BY <1>1, SpoiltAre

LEMMA OneIsSpoilt ==
  ASSUME NEW c, NEW R, NEW k \in DOMAIN R, OneSpoilt(R, c, k) PROVE SpoiltIn(R) = {k}
<1>1. \A i \in DOMAIN R : R[i][1] = i /\ (R[i][2] \in {"stale", "spoilt"} <=> i = k)
  BY DEF OneSpoilt
<1>2. \A f : f \in SpoiltIn(R) <=> f = k
  BY <1>1, SpoiltAre
<1> QED BY <1>2

-----------------------------------------------------------------------------
JobInv == FlowHolds /\ ArchiveInOrder /\ DrainedOK /\ SuccessOK

(* When every stage has ended normally everything has been copied.         *)
LEMMA EverythingIsArchived ==
  ASSUME JobInv, mode = "create", \A k \in 1 .. StageCount : how[k] = "ok"
  PROVE  Range(Copied) = Sources
<1>1. PICK c \in Nat, W \in Seq(Items) : InputOK(c) /\ StreamOK(c, W)
  BY DEF JobInv, FlowHolds, FlowInv
<1>2. /\ todo[1] = <<>> /\ todo[2] = <<>> /\ todo[3] = <<>>
      /\ pipe[1] = <<>> /\ pipe[2] = <<>>
  <2>1. \A k \in Stages : Drained(k)
    BY DEF JobInv, DrainedOK
  <2> QED BY <2>1 DEF Drained
<1>3. c = NumFiles
  <2>1. Len(FirstInput) = NumFiles
    BY FirstInputType
  <2>2. Len(pipe[1]) = 0 /\ Len(todo[1]) = 0
    BY <1>2
  <2>3. how[1] = "ok"
    OBVIOUS
  <2>4. c + Len(pipe[1]) + Len(todo[1]) = Len(FirstInput)
    BY <1>1, <2>3 DEF InputOK
  <2> QED BY <2>1, <2>2, <2>4
<1>4. /\ archive \in Seq(Items) /\ InOrder(archive) /\ Len(W) = Len(archive)
      /\ \A i \in 1 .. Len(W) : archive[i] = W[i]
  <2>1. archive \in Seq(Items)
    BY DEF JobInv, FlowHolds, BufOK
  <2>2. InOrder(archive)
    BY DEF JobInv, ArchiveInOrder, InOrder, FilesUpTo
  <2>3. Run(archive, 0, W) /\ Len(archive) + 0 + 0 + 0 = Len(W)
    <3>1. Chain(archive, <<>>, <<>>, <<>>, W) /\ Len(<<>>) = 0
      BY <1>1, <1>2 DEF StreamOK
    <3> QED BY <3>1 DEF Chain
  <2>4. Len(W) = Len(archive) /\ DOMAIN archive = 1 .. Len(W)
    BY <2>1, <2>3
  <2>5. \A i \in 1 .. Len(W) : 0 + i = i
    OBVIOUS
  <2> QED BY <2>1, <2>2, <2>3, <2>4, <2>5 DEF Run
<1>5. Len(W) % 4 = 0 /\ {W[j][1] : j \in 1 .. Len(W)} = Files \ denied
  <2>1. Records(W, NumFiles)
    BY <1>1, <1>3 DEF StreamOK
  <2>2. FilesUpTo(NumFiles) = Files \ denied
    BY DEF FilesUpTo, Files
  <2> QED BY <2>1, <2>2 DEF Records
<1>6. PICK q \in Nat : Len(W) = 4 * q
  <2>1. PICK q \in Nat, r \in 0 .. 3 : Len(W) = 4 * q + r
    BY Quarter, LenProperties
  <2>2. r = 0
    BY <1>5, <2>1, QuarterIs
  <2> QED BY <2>1, <2>2
<1>7. Archived(archive) = [i \in 1 .. q |-> archive[4 * i][1]]
  <2>1. PICK z \in 0 .. 3 : z = 0
    OBVIOUS
  <2>2. Len(archive) = 4 * q + z
    BY <1>4, <1>6, <2>1
  <2> QED BY <1>4, <2>2, ArchivedIs
<1>8. \A i \in 1 .. q : 4 * i \in 1 .. Len(W) /\ archive[4 * i] = W[4 * i]
  <2>1. \A i \in 1 .. q : 4 * i \in 1 .. Len(W)
    BY <1>6
  <2> QED BY <1>4, <2>1
<1>9. ASSUME NEW g \in Files \ denied PROVE \E i \in 1 .. q : g = archive[4 * i][1]
  <2>1. PICK j \in 1 .. Len(W) : g = W[j][1]
    BY <1>5
  <2>2. PICK p \in Nat, s \in 0 .. 3 : j - 1 = 4 * p + s
    <3>1. j - 1 \in Nat
      OBVIOUS
    <3> QED BY <3>1, Quarter
  <2>3. j = 4 * p + (s + 1) /\ s + 1 \in 1 .. 4 /\ 4 * p + 4 \in 1 .. Len(W) /\ p + 1 \in 1 .. q
    BY <1>6, <2>2
  <2>4. 4 * p + 4 \in DOMAIN archive
    BY <1>4, <2>3
  <2>5. archive[j][1] = archive[4 * p + 4][1]
    BY <1>4, <2>3, <2>4, SameRecord
  <2>6. g = archive[4 * (p + 1)][1]
    <3>1. 4 * (p + 1) = 4 * p + 4
      OBVIOUS
    <3> QED BY <1>4, <2>1, <2>5, <3>1
  <2> QED BY <2>3, <2>6
<1>10. ASSUME NEW i \in 1 .. q PROVE archive[4 * i][1] \in Files \ denied
  BY <1>5, <1>8
<1>11. Range(Copied) = {archive[4 * i][1] : i \in 1 .. q}
  <2>1. PICK f : f = Copied
    OBVIOUS
  <2>2. f = [i \in 1 .. q |-> archive[4 * i][1]]
    BY <1>7, <2>1 DEF Copied
  <2>3. DOMAIN f = 1 .. q /\ \A i \in 1 .. q : f[i] = archive[4 * i][1]
    BY <2>2
  <2>4. Range(f) = {archive[4 * i][1] : i \in 1 .. q}
    BY ONLY <2>3 DEF Range
  <2> QED BY <2>1, <2>4
<1>12. Sources = Files \ denied
  BY DEF Sources
<1>13. {archive[4 * i][1] : i \in 1 .. q} = Files \ denied
  <2>1. PICK F, C : F = Files \ denied /\ C = archive
    OBVIOUS
  <2>2. /\ \A g \in F : \E i \in 1 .. q : g = C[4 * i][1]
        /\ \A i \in 1 .. q : C[4 * i][1] \in F
    BY <1>9, <1>10, <2>1
  <2>3. {C[4 * i][1] : i \in 1 .. q} = F
    BY ONLY <2>2
  <2> QED BY <2>1, <2>3
<1> QED BY <1>11, <1>12, <1>13

LEMMA RangeOfNumbers ==
  ASSUME NEW n, NEW f, f = [i \in 1 .. n |-> i] PROVE Range(f) = 1 .. n
  BY DEF Range

LEMMA EverythingIsRestored ==
  ASSUME JobInv, mode # "create", \A k \in 1 .. StageCount : how[k] = "ok"
  PROVE  Range(Copied) = Sources /\ (Whole => Spoilt = {})
<1>1. PICK c \in Nat : InputOK(c) /\ ExtractOK(c)
  BY DEF JobInv, FlowHolds, FlowInv
<1>2. todo[1] = <<>> /\ pipe[1] = <<>>
  <2>1. Drained(1) /\ Drained(2)
    BY DEF JobInv, DrainedOK
  <2> QED BY <2>1 DEF Drained
<1>3. c = Len(archive)
  <2>1. FirstInput = archive /\ archive \in Seq(Items) /\ Len(archive) \in Nat
    BY DEF FirstInput, JobInv, FlowHolds, BufOK
  <2>2. Len(pipe[1]) = 0 /\ Len(todo[1]) = 0
    BY <1>2
  <2>3. how[1] = "ok"
    OBVIOUS
  <2>4. c + Len(pipe[1]) + Len(todo[1]) = Len(archive)
    BY <1>1, <2>1, <2>3 DEF InputOK
  <2> QED BY <2>1, <2>2, <2>4
<1>4. PICK R : /\ R = restored /\ R \in Seq(Files \X Contents)
               /\ Unharmed(R, c) \/ (~Whole /\ \E k \in DOMAIN R : OneSpoilt(R, c, k))
  BY <1>1, FourParts DEF ExtractOK, Intact, Broken, Overwritten, Unharmed, OneSpoilt, Whole
<1>5. Copied = [i \in 1 .. c \div 4 |-> i]
  <2>1. Made(R) = [i \in 1 .. c \div 4 |-> i]
    BY <1>4, FilesMade
  <2> QED BY <1>4, <2>1 DEF Copied
<1>6. Sources = 1 .. c \div 4
  BY <1>3, FourParts DEF Sources
<1>7. Whole => Spoilt = {}
  BY <1>4, UnharmedSpoilt DEF Spoilt, SpoiltIn
<1> QED BY <1>5, <1>6, <1>7, RangeOfNumbers

(* Nobody who could still copy is there when success has been reported.    *)
LEMMA CopiersAreGone ==
  ASSUME JobInv, NEW k \in 1 .. StageCount, life[k] = "runs" PROVE Outcome # "success"
<1>1. how[k] # "ok"
  BY DEF JobInv, FlowHolds, HowOK, Gone
<1> QED BY <1>1 DEF JobInv, SuccessOK, Outcome

LEMMA JobQuiet ==
  ASSUME UNCHANGED <<mode, denied, data>>
  PROVE  /\ Sources' = Sources /\ Unsteady' = Unsteady /\ Whole' = Whole
         /\ Copied' = Copied /\ Spoilt' = Spoilt /\ (result' = result => Outcome' = Outcome)
  BY DEF Sources, Unsteady, Whole, Copied, Archived, Made, Spoilt, Outcome

(* One file more, or one of those there spoilt.                            *)
JobCopies ==
  /\ Outcome # "success" /\ Outcome' = Outcome
  /\ Sources' = Sources /\ Unsteady' = Unsteady /\ Whole' = Whole
  /\ \/ Copied' = Copied /\ Spoilt' = Spoilt
     \/ \E f \in Sources : /\ f \notin Range(Copied) /\ \A g \in Sources : g < f => g \in Range(Copied)
                          /\ Copied' = Append(Copied, f)
                          /\ \/ Spoilt' = Spoilt
                             \/ f \in Unsteady /\ Spoilt' = Spoilt \cup {f}
     \/ /\ Copied' = Copied /\ Spoilt \subseteq Unsteady
        /\ \E f \in Range(Copied) : Spoilt' = Spoilt \cup {f}

LEMMA ArchivedCopies ==
  ASSUME JobInv, JobInv', mode = "create", Runs(3), todo[3] # <<>>, WriteArchive(3),
         UNCHANGED <<mode, denied, result>>
  PROVE  JobCopies
<1>1. /\ Outcome # "success" /\ Outcome' = Outcome /\ Sources' = Sources
      /\ Unsteady' = Unsteady /\ Whole' = Whole
  BY CopiersAreGone DEF Runs, Outcome, Sources, Unsteady, Whole
<1>2. archive \in Seq(Items) /\ Head(todo[3]) \in Items /\ archive' = Append(archive, Head(todo[3]))
  BY DEF WriteArchive, JobInv, FlowHolds, BufOK
<1>3. InOrder(archive')
  BY DEF JobInv, ArchiveInOrder, InOrder, FilesUpTo
<1>4. PICK x \in Items, b \in {archive'} : x = Head(todo[3]) /\ b = archive'
  BY <1>2
<1>5. \/ Archived(b) = Archived(archive) /\ x[2] # "stale"
      \/ /\ Archived(b) = Append(Archived(archive), x[1])
         /\ x[1] \in (Files \ denied) \ Range(Archived(archive))
         /\ \A g \in Files \ denied : g < x[1] => g \in Range(Archived(archive))
  BY <1>2, <1>3, <1>4, OneMoreCell
<1>6. Copied = Archived(archive) /\ Copied' = Archived(b) /\ Sources = Files \ denied
  BY <1>4 DEF Copied, Archived, Sources
<1>7. Spoilt' = Spoilt \cup (IF x[2] = "stale" THEN {x[1]} ELSE {})
  <2>1. SpoiltIn(b) = SpoiltIn(archive) \cup (IF x[2] = "stale" THEN {x[1]} ELSE {})
    BY <1>2, <1>4, OneMoreStale
  <2>2. Spoilt = SpoiltIn(archive) /\ Spoilt' = SpoiltIn(b)
    BY <1>4 DEF Spoilt, SpoiltIn
  <2> QED BY <2>1, <2>2
<1>8. x[2] = "stale" => x[1] \in Unsteady
  BY ItemsAre DEF Unsteady
<1>9. Spoilt' = Spoilt \/ (x[2] = "stale" /\ Spoilt' = Spoilt \cup {x[1]})
  BY <1>7
<1>10. CASE Archived(b) = Archived(archive) /\ x[2] # "stale"
  BY <1>1, <1>6, <1>9, <1>10 DEF JobCopies
<1>11. CASE \/ Archived(b) # Archived(archive)
            \/ x[2] = "stale"
  BY <1>1, <1>5, <1>6, <1>8, <1>9, <1>11 DEF JobCopies
<1> QED BY <1>10, <1>11

LEMMA RestoredCopies ==
  ASSUME JobInv, JobInv', NEW k \in Stages, reproduce_file(k), UNCHANGED <<mode, denied, result>>
  PROVE  JobCopies
<1>1. BufOK /\ FlowInv
  BY DEF JobInv, FlowHolds
<1>2. mode # "create" /\ Runs(k) /\ archive' = archive
  BY Programs DEF reproduce_file, Reads
<1>3. PICK c \in Nat : InputOK(c) /\ ExtractOK(c)
  BY <1>1, <1>2 DEF FlowInv
<1>4. Intact(c) /\ c + 1 \in DOMAIN archive /\ ExtractOK(c + 1)' /\ Intact(c + 1)'
  BY <1>1, <1>3, PartReproduced
<1>5. /\ Outcome # "success" /\ Outcome' = Outcome /\ Sources' = Sources
      /\ Unsteady' = Unsteady /\ Whole' = Whole
  BY <1>2, CopiersAreGone DEF Runs, Outcome, Sources, Unsteady, Whole
<1>6. Copied = [i \in 1 .. c \div 4 |-> i] /\ Spoilt = {}
  <2>1. PICK R : R = restored /\ R \in Seq(Files \X Contents) /\ Unharmed(R, c)
    BY <1>3, <1>4 DEF ExtractOK, Intact, Unharmed
  <2>2. Made(R) = [i \in 1 .. c \div 4 |-> i] /\ SpoiltIn(R) = {}
    BY <2>1, FilesMade, UnharmedSpoilt
  <2> QED BY <1>2, <2>1, <2>2 DEF Copied, Spoilt, SpoiltIn
<1>7. Copied' = [i \in 1 .. (c + 1) \div 4 |-> i] /\ Spoilt' = {}
  <2>1. PICK d \in Nat, R \in {restored'} : d = c + 1 /\ R = restored'
    OBVIOUS
  <2>2. R \in Seq(Files \X Contents) /\ Unharmed(R, d)
    BY <1>4, <2>1 DEF ExtractOK, Intact, Unharmed
  <2>3. Made(R) = [i \in 1 .. d \div 4 |-> i] /\ SpoiltIn(R) = {}
    BY <2>2, FilesMade, UnharmedSpoilt
  <2> QED BY <1>2, <2>1, <2>3 DEF Copied, Made, Spoilt, SpoiltIn
<1>8. PICK q \in Nat, r \in 0 .. 3 : c = 4 * q + r
  BY Quarter
<1>9. c \div 4 = q /\ (c + 1) \div 4 = IF r = 3 THEN q + 1 ELSE q
  BY <1>8, QuarterIs, NextQuarter
<1>10. CASE r # 3
  BY <1>5, <1>6, <1>7, <1>9, <1>10 DEF JobCopies
<1>11. CASE r = 3
  <2>1. q + 1 \in Sources /\ Sources \subseteq Nat
    <3>1. PICK n \in Nat : n = Len(archive) /\ c + 1 <= n /\ Sources = 1 .. n \div 4
      <4>1. archive \in Seq(Items)
        BY <1>1 DEF BufOK
      <4> QED BY <1>2, <1>4, <4>1, FourParts DEF Sources
    <3>2. PICK p \in Nat, s \in 0 .. 3 : n = 4 * p + s
      BY Quarter
    <3>3. n \div 4 = p
      BY <3>2, QuarterIs
    <3> QED BY <1>8, <1>11, <3>1, <3>2, <3>3
  <2>2. Range(Copied) = 1 .. q
    BY <1>6, <1>9, RangeOfNumbers
  <2>3. Copied' = Append(Copied, q + 1)
    <3>1. PICK s, t : s = Copied /\ t = Copied'
      OBVIOUS
    <3>2. s = [i \in 1 .. q |-> i] /\ t = [i \in 1 .. q + 1 |-> i]
      BY <1>6, <1>7, <1>9, <1>11, <3>1
    <3>3. s \in Seq(Nat) /\ Len(s) = q
      <4>1. s \in [1 .. q -> Nat]
        BY ONLY <3>2
      <4> QED BY <4>1, FunctionIsSeq
    <3>4. Append(s, q + 1) = [i \in 1 .. q + 1 |-> IF i = q + 1 THEN q + 1 ELSE s[i]]
      BY ONLY <3>3, q \in Nat
    <3>5. t = Append(s, q + 1)
      BY ONLY <3>2, <3>4, q \in Nat
    <3> QED BY <3>1, <3>5
  <2>4. q + 1 \notin 1 .. q /\ \A g \in Sources : g < q + 1 => g \in 1 .. q
    <3>1. \A g \in Sources : g >= 1 /\ g \in Nat
      BY <1>2, <2>1 DEF Sources
    <3> QED BY <3>1
  <2> QED BY <1>5, <1>6, <1>7, <2>1, <2>2, <2>3, <2>4 DEF JobCopies
<1> QED BY <1>10, <1>11

(* An end of the input restores nothing whole, takes nothing back, and     *)
(* spoils one file at most.                                                *)
LEMMA RecordsEndQuietly ==
  ASSUME JobInv, NEW k \in Stages, EndOfRecords(k), UNCHANGED <<mode, denied, result>>
  PROVE  JobCopies
<1>1. ArchiveInv /\ BufOK /\ HowOK /\ FlowInv
  BY DEF JobInv, FlowHolds
<1>2. mode # "create" /\ archive' = archive /\ life[2] = "runs" /\ k = 2
  BY Programs DEF EndOfRecords, Runs
<1>3. PICK c \in Nat : InputOK(c) /\ ExtractOK(c)
  BY <1>1, <1>2 DEF FlowInv
<1>4. ExtractOK(c)' /\ Intact(c)
  BY <1>1, <1>2, <1>3, RecordsEndLate DEF ExtractOK, Gone
<1>5. /\ Outcome # "success" /\ Outcome' = Outcome /\ Sources' = Sources
      /\ Unsteady' = Unsteady /\ Whole' = Whole
  BY <1>2, CopiersAreGone DEF Outcome, Sources, Unsteady, Whole
<1>6. Copied = [i \in 1 .. c \div 4 |-> i] /\ Spoilt = {}
  <2>1. PICK R : R = restored /\ R \in Seq(Files \X Contents) /\ Unharmed(R, c)
    BY <1>3, <1>4 DEF ExtractOK, Intact, Unharmed
  <2>2. Made(R) = [i \in 1 .. c \div 4 |-> i] /\ SpoiltIn(R) = {}
    BY <2>1, FilesMade, UnharmedSpoilt
  <2> QED BY <1>2, <2>1, <2>2 DEF Copied, Spoilt, SpoiltIn
<1>7. PICK R : /\ R = restored' /\ R \in Seq(Files \X Contents)
               /\ Unharmed(R, c) \/ \E i \in DOMAIN R : OneSpoilt(R, c, i)
  BY <1>4 DEF ExtractOK, Intact, Broken, Overwritten, Unharmed, OneSpoilt
<1>8. Copied' = [i \in 1 .. c \div 4 |-> i] /\ Spoilt' = SpoiltIn(R)
  <2>1. Made(R) = [i \in 1 .. c \div 4 |-> i]
    BY <1>7, FilesMade
  <2> QED BY <1>2, <1>7, <2>1 DEF Copied, Made, Spoilt, SpoiltIn
<1>9. CASE Unharmed(R, c)
  BY <1>5, <1>6, <1>8, <1>9, UnharmedSpoilt DEF JobCopies
<1>10. ASSUME NEW i \in DOMAIN R, OneSpoilt(R, c, i) PROVE JobCopies
  <2>1. SpoiltIn(R) = {i}
    BY <1>10, OneIsSpoilt
  <2>2. DOMAIN R = 1 .. c \div 4
    BY <1>7, <1>10, LenProperties DEF OneSpoilt
  <2>3. i \in Range(Copied)
    BY <1>6, <2>2, RangeOfNumbers
  <2> QED BY <1>5, <1>6, <1>8, <2>1, <2>3 DEF JobCopies
<1> QED BY <1>7, <1>9, <1>10

(* A step of the implementation is a step of the job, or none.             *)
JobView == <<Job!input, Copied, Spoilt, Outcome>>

LEMMA JobStep ==
  ASSUME JobInv, JobInv', [Next]_vars
  PROVE  JobCopies \/ [Job!Next]_JobView
<1>1. UNCHANGED <<mode, denied>>
  BY DEF Next, vars
<1>2. ASSUME UNCHANGED <<data, result>> PROVE UNCHANGED JobView
  BY <1>1, <1>2, JobQuiet DEF JobView, Job!input
<1>3. CASE ParentStep \/ ParentFails
  <2>1. /\ Sources' = Sources /\ Unsteady' = Unsteady /\ Whole' = Whole
        /\ Copied' = Copied /\ Spoilt' = Spoilt
    BY <1>1, <1>3, ParentMovesNothing, JobQuiet
  <2>2. /\ pc # "done"
        /\ \/ result' \in {"none", "refused", "failure"}
           \/ result' = "success" /\ \A k \in 1 .. StageCount : how[k] = "ok"
    BY <1>1, <1>3, ParentOutcome DEF JobInv
  <2>3. Outcome = "none"
    BY <2>2 DEF JobInv, SuccessOK, Outcome
  <2>4. CASE result' \in {"none", "refused"}
    BY <2>1, <2>3, <2>4 DEF Outcome, JobView, Job!input
  <2>5. CASE result' = "failure"
    BY <2>1, <2>3, <2>5 DEF Outcome, Job!Next, Job!Fail, Job!input
  <2>6. CASE result' = "success"
    <3>1. Range(Copied) = Sources /\ (Whole => Spoilt \subseteq Unsteady)
      <4>1. CASE mode = "create"
        <5>1. SpoiltIn(archive) \subseteq Shrinking
          BY StaleShrank DEF JobInv, FlowHolds, BufOK
        <5>2. Spoilt \subseteq Unsteady
          BY <4>1, <5>1 DEF Spoilt, SpoiltIn, Unsteady
        <5> QED BY <2>2, <2>6, <4>1, <5>2, EverythingIsArchived
      <4>2. CASE mode # "create"
        BY <2>2, <2>6, <4>2, EverythingIsRestored
      <4> QED BY <4>1, <4>2
    <3> QED BY <2>1, <2>3, <2>6, <3>1 DEF Outcome, Job!Next, Job!Succeed, Range, Job!Range, Job!input
  <2> QED BY <2>2, <2>4, <2>5, <2>6
<1>4. ASSUME NEW k \in Stages, Child(k)
      PROVE  JobCopies \/ UNCHANGED JobView
  <2>1. CASE redirected_exec(k, IF k = 1 THEN FirstInput ELSE <<>>)
    BY <1>2, <2>1 DEF redirected_exec
  <2>2. CASE my_write(k)
    <3>1. CASE mode = "create" /\ k = 3
      <4>1. Runs(3) /\ todo[3] # <<>> /\ WriteArchive(3) /\ result' = result
        BY <1>4, <2>2, <3>1 DEF my_write, Child, redirected_exec
      <4> QED BY <1>1, <3>1, <4>1, ArchivedCopies
    <3>2. CASE ~(mode = "create" /\ k = 3)
      BY <1>2, <1>4, <2>2, <3>2 DEF my_write, WritePipe, Child, redirected_exec
    <3> QED BY <3>1, <3>2
  <2>3. CASE archive_file(k) \/ Encrypt(k)
    BY <1>2, <1>4, <2>3 DEF archive_file, Encrypt, Child, redirected_exec
  <2>4. CASE reproduce_file(k)
    BY <1>1, <1>4, <2>4, RestoredCopies DEF Child, redirected_exec
  <2>5. CASE EndOfRecords(k)
    BY <1>1, <1>4, <2>5, RecordsEndQuietly DEF Child, redirected_exec
  <2>6. CASE EndOfInput(k) \/ (k = 1 /\ FirstEnds)
    BY <1>2, <1>4, <2>6 DEF EndOfInput, FirstEnds, Child, redirected_exec
  <2> QED BY <1>4, <2>1, <2>2, <2>3, <2>4, <2>5, <2>6 DEF Child, Stage
<1>5. ASSUME NEW k \in Stages, StageFails(k), UNCHANGED parent
      PROVE  UNCHANGED JobView
  BY <1>2, <1>5 DEF StageFails
<1>6. CASE UNCHANGED vars
  BY <1>2, <1>6 DEF vars
<1> QED BY <1>3, <1>4, <1>5, <1>6 DEF Next

LEMMA JobHolds == Spec => []JobInv
<1>1. Init => DrainedOK /\ SuccessOK
  BY DrainedInit, SuccessInit
<1>2. FlowHolds /\ DrainedOK /\ SuccessOK /\ [Next]_vars => DrainedOK' /\ SuccessOK'
  BY DrainedStep, SuccessStep
<1> QED BY <1>1, <1>2, FlowAlways, WholeRecordsInOrder, PTL DEF Spec, JobInv

(* hw2.c:182, 276, hw2_functions.c:174, p2unarchive.c:102: a command that  *)
(* reports success has copied every file it is about, in order, each once, *)
(* and as it was, but for files that got shorter meanwhile and, of an      *)
(* archive that is cut, for one file; whatever fails, no file is copied    *)
(* before the ones in front of it.                                         *)
THEOREM CopiesAsTheJob == Spec => ImplementsJob
<1>1. Init => Job!Init
  <2> SUFFICES ASSUME Init PROVE Job!Init
    OBVIOUS
  <2>1. Outcome = "none"
    BY DEF Init, Outcome
  <2>2. Copied = <<>>
    <3>1. CASE mode = "create"
      <4>1. archive = <<>>
        BY <3>1 DEF Init
      <4>2. PICK a \in Seq(Items), q \in Nat, r \in 0 .. 3 : a = archive /\ q = 0 /\ r = 0
        <5>1. archive \in Seq(Items) /\ 0 \in Nat /\ 0 \in 0 .. 3
          BY <4>1, EmptySeq
        <5> QED BY <5>1, Zenon
      <4>3. Archived(a) \in Seq(Files) /\ Len(Archived(a)) = q
        <5>1. Len(a) = 0 /\ 4 * q + r = 0
          BY <4>1, <4>2, EmptySeq
        <5> QED BY <4>2, <5>1, ArchivedIs
      <4> QED BY <3>1, <4>2, <4>3, EmptySeq DEF Copied
    <3>2. CASE mode # "create"
      <4>1. restored = <<>>
        BY DEF Init
      <4>2. DOMAIN Copied = {}
        BY <3>2, <4>1 DEF Copied, Made
      <4> QED BY <3>2, <4>1, <4>2 DEF Copied, Made
    <3> QED BY <3>1, <3>2
  <2>3. Spoilt = {}
    <3>1. PICK a : a = (IF mode = "create" THEN archive ELSE restored) /\ DOMAIN a = {}
      BY DEF Init
    <3>2. SpoiltIn(a) = {}
      BY <3>1, SpoiltAre
    <3> QED BY <3>1, <3>2 DEF Spoilt, SpoiltIn
  <2> QED BY <2>1, <2>2, <2>3 DEF Job!Init
<1>2. ASSUME JobCopies PROVE [Job!Next]_JobView
  <2>1. UNCHANGED <<Job!input, Outcome>>
    BY <1>2 DEF JobCopies, Job!input
  <2>2. Range(Copied) = Job!Range(Copied)
    BY DEF Range, Job!Range
  <2>3. CASE Copied' = Copied /\ Spoilt' = Spoilt
    BY <2>1, <2>3 DEF JobView
  <2>4. ASSUME NEW f \in Sources, f \notin Range(Copied), \A g \in Sources : g < f => g \in Range(Copied),
               Copied' = Append(Copied, f), Spoilt' = Spoilt \/ (f \in Unsteady /\ Spoilt' = Spoilt \cup {f})
        PROVE  Job!Copy
    BY <1>2, <2>1, <2>2, <2>4 DEF JobCopies, Job!Copy, Job!Due
  <2>5. ASSUME Copied' = Copied, Spoilt \subseteq Unsteady,
               \E f \in Range(Copied) : Spoilt' = Spoilt \cup {f}
        PROVE  Job!Spoil
    BY <1>2, <2>1, <2>2, <2>5 DEF JobCopies, Job!Spoil
  <2> QED BY <1>2, <2>3, <2>4, <2>5 DEF JobCopies, Job!Next
<1>3. JobInv /\ JobInv' /\ [Next]_vars => [Job!Next]_JobView
  BY <1>2, JobStep
<1> QED BY <1>1, <1>3, JobHolds, PTL DEF Spec, ImplementsJob, JobView, Job!Spec
=============================================================================
