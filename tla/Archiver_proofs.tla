-------------------------- MODULE Archiver_proofs --------------------------
(***************************************************************************)
(* Theorems about Archiver for any number of files, pipes of any size, and *)
(* any failures.                                                           *)
(***************************************************************************)
EXTENDS Archiver, TLAPS

Lives   == {"none", "forked", "runs", "dead", "reaped"}
Living  == {"forked", "runs"}
Status  == {"none", "ok", "fail", "signal"}

(* What the proofs need of the types.                                      *)
ControlOK ==
  /\ mode \in {"create", "extract"}
  /\ pc \in {"open", "fork", "close", "wait", "done"} /\ at \in 1 .. StageCount
  /\ pc = "open" => at = 1
  /\ pc = "wait" => at = StageCount
  /\ life \in [Stages -> Lives] /\ how \in [Stages -> Status]
  /\ fds \in [0 .. 3 -> SUBSET Ends]
  /\ processes \in [Stages -> -1 .. 3] /\ waits \in Nat

(* The stages that have been forked or should have been.                   *)
Forked(k) == k < at \/ (k = at /\ pc \in {"close", "wait"})

(* Until the parent is done: its table names every child that lives, under *)
(* its own pid, and kill has not been called.  A fork that failed is in it *)
(* only when it was the third.                                             *)
TableOK ==
  pc # "done" =>
    /\ \A k \in Stages :
         /\ processes[k] \in {0, k, -1}
         /\ processes[k] = -1 => mode = "create" /\ k = 3
         /\ life[k] \in Living => processes[k] = k
         /\ life[k] # "none" => Forked(k)
         /\ k < at \/ (k = at /\ pc = "close" /\ k < StageCount) => life[k] # "none"
    /\ signalled = {} /\ missed = {}

(* The children waited for, counted.                                       *)
One(k) == IF life[k] = "reaped" THEN 1 ELSE 0

WaitsOK == pc # "done" => waits = One(1) + One(2) + One(3)

(* Who is to write a pipe has its end: the parent until it has forked the  *)
(* writer, then the writer as long as it lives.                            *)
PipesOK ==
  /\ pc \in {"fork", "close"} => \A k \in 1 .. StageCount - 1 : k >= at => <<k, "w">> \in fds[0]
  /\ \A k \in 1 .. StageCount - 1 : life[k] \in Living => <<k, "w">> \in fds[k]
  /\ \A k \in {2, 3} : life[k] # "none" => life[k - 1] # "none"

ArchiveInv ==
  ControlOK /\ TableOK /\ WaitsOK /\ PipesOK /\ EndInOrder /\ KillsChildren /\ LeavesNoOrphans

USE DEF Stages, StageCount, Lives, Living, Status, Alive, parent, children, history

LEMMA StagesAreThree == Stages = {1, 2, 3}
  BY SMT

LEMMA InitImplies == Init => ArchiveInv
<1> SUFFICES ASSUME Init PROVE ArchiveInv
  OBVIOUS
<1>1. mode \in {"create", "extract"}
  BY DEF Init
<1>2. ControlOK
  BY <1>1 DEF Init, ControlOK
<1>3. TableOK
  BY <1>1 DEF Init, TableOK, Forked
<1>4. WaitsOK
  BY DEF Init, WaitsOK, One
<1>5. PipesOK
  BY <1>1 DEF Init, PipesOK
<1>6. EndInOrder /\ KillsChildren /\ LeavesNoOrphans
  BY DEF Init, EndInOrder, KillsChildren, LeavesNoOrphans
<1> QED BY <1>2, <1>3, <1>4, <1>5, <1>6 DEF ArchiveInv

-----------------------------------------------------------------------------
(* A step that moves only what travels.                                    *)
LEMMA QuietStep ==
  ASSUME ArchiveInv, UNCHANGED <<mode, parent, life, how, fds, history>>
  PROVE  ArchiveInv'
<1>1. /\ mode' = mode /\ pc' = pc /\ at' = at /\ processes' = processes /\ waits' = waits
      /\ life' = life /\ how' = how /\ fds' = fds /\ signalled' = signalled /\ missed' = missed
  OBVIOUS
<1>2. ControlOK'
  BY <1>1 DEF ArchiveInv, ControlOK
<1>3. TableOK'
  BY <1>1 DEF ArchiveInv, TableOK, Forked
<1>4. WaitsOK'
  BY <1>1 DEF ArchiveInv, WaitsOK, One
<1>5. PipesOK'
  BY <1>1 DEF ArchiveInv, PipesOK
<1>6. EndInOrder' /\ KillsChildren' /\ LeavesNoOrphans'
  BY <1>1 DEF ArchiveInv, EndInOrder, KillsChildren, LeavesNoOrphans, Finished
<1> QED BY <1>2, <1>3, <1>4, <1>5, <1>6 DEF ArchiveInv

(* A stage ends: normally only after the one it reads from.                *)
LEMMA EndStep ==
  ASSUME ArchiveInv, NEW k \in Stages, Alive(k), NEW status \in Status, End(k, status),
         status = "ok" /\ k > 1 => life[k - 1] \in {"dead", "reaped"},
         UNCHANGED <<mode, parent, history>>
  PROVE  ArchiveInv'
<1>1. /\ mode' = mode /\ pc' = pc /\ at' = at /\ processes' = processes /\ waits' = waits
      /\ signalled' = signalled /\ missed' = missed
  OBVIOUS
<1>2. ControlOK
  BY DEF ArchiveInv
<1>3. /\ life' = [life EXCEPT ![k] = "dead"] /\ how' = [how EXCEPT ![k] = status]
      /\ fds' = [fds EXCEPT ![k] = {}]
  BY DEF End
<1>4. ControlOK'
  BY <1>1, <1>2, <1>3 DEF ControlOK
<1>5. \A j \in Stages : life'[j] = IF j = k THEN "dead" ELSE life[j]
  BY <1>2, <1>3 DEF ControlOK
<1>6. TableOK'
  BY <1>1, <1>2, <1>5 DEF ArchiveInv, TableOK, Forked
<1>7. WaitsOK'
  <2>1. \A j \in Stages : One(j)' = One(j)
    BY <1>5 DEF One
  <2> QED BY <1>1, <2>1 DEF ArchiveInv, WaitsOK
<1>8. PipesOK'
  BY <1>1, <1>2, <1>3, <1>5 DEF ArchiveInv, PipesOK, ControlOK
<1>9. EndInOrder'
  <2>1. \A j \in Stages : how'[j] = IF j = k THEN status ELSE how[j]
    BY <1>2, <1>3 DEF ControlOK
  <2> QED BY <1>5, <2>1 DEF ArchiveInv, EndInOrder
<1>10. KillsChildren'
  BY <1>1 DEF ArchiveInv, KillsChildren
<1>11. LeavesNoOrphans'
  BY <1>1, <1>5 DEF ArchiveInv, LeavesNoOrphans, Finished
<1> QED BY <1>4, <1>6, <1>7, <1>8, <1>9, <1>10, <1>11 DEF ArchiveInv

-----------------------------------------------------------------------------
(* A child is running and will be found by kill_all_children.              *)
Covered(table, n, lives) ==
  \A k \in Stages :
    /\ table[k] \in {0, k, -1}
    /\ lives[k] \in Living => k <= n /\ table[k] = k

(* After kill_all_children, unless it has met a pid that was reaped,       *)
(* nobody is alive.                                                        *)
LEMMA NobodyIsLeft ==
  ASSUME NEW table, NEW n \in 0 .. 3, NEW lives, Covered(table, n, lives),
         kill_all_children(table, n, lives), missed' = {}
  PROVE  \A k \in Stages : life'[k] \notin Living
<1> DEFINE Gone == {k \in 1 .. n : table[k] > 0 /\ lives[k] = "reaped"}
           hit  == Targets(table, n, lives)
<1>1. \A k \in 1 .. n : k \in Stages /\ table[k] \in {0, k, -1}
  BY DEF Covered
<1>2. hit = {k \in 1 .. n : table[k] # 0 /\ \A j \in Gone : k <= j}
  BY DEF Targets
<1>3. {k \in hit : table[k] > 0 /\ lives[k] = "reaped"} = {}
  BY DEF kill_all_children
<1>4. Gone = {}
  <2>1. \A k \in Gone : \E j \in Gone : ~(k <= j)
    BY <1>1, <1>2, <1>3
  <2>2. Gone \subseteq {1, 2, 3}
    BY SMT
  <2> HIDE DEF Gone
  <2>3. 3 \notin Gone
    BY <2>1, <2>2
  <2>4. 2 \notin Gone
    BY <2>1, <2>2, <2>3
  <2>5. 1 \notin Gone
    BY <2>1, <2>2, <2>3, <2>4
  <2> QED BY <2>2, <2>3, <2>4, <2>5
<1>5. \A k \in Stages : lives[k] \in Living => k \in hit
  BY <1>2, <1>4 DEF Covered
<1>6. life' = [k \in Stages |->
                IF lives[k] \in Living /\ ((\E j \in hit : table[j] = -1) \/ k \in hit)
                THEN "dead" ELSE lives[k]]
  BY DEF kill_all_children
<1> HIDE DEF hit
<1> QED BY <1>5, <1>6

(* What waiting for a child does to lives.                                 *)
Follows(lives) ==
  /\ lives \in [Stages -> Lives]
  /\ \A k \in Stages :
       /\ lives[k] = "none" <=> life[k] = "none"
       /\ lives[k] \in Living <=> life[k] \in Living

LEMMA GiveUpStep ==
  ASSUME ArchiveInv, pc # "done", NEW table \in [Stages -> -1 .. 3], NEW n \in 0 .. 3, NEW lives,
         Follows(lives), Covered(table, n, lives),
         \A k \in 1 .. n : table[k] = -1 => mode = "create" /\ k = 3,
         GiveUp(table, n, lives), UNCHANGED mode, waits' \in Nat
  PROVE  ArchiveInv'
<1>1. /\ mode' = mode /\ at' = at /\ processes' = table /\ pc' = "done"
      /\ kill_all_children(table, n, lives)
  BY DEF GiveUp
<1>2. PICK killed \in SUBSET Stages :
        /\ \A k \in killed : lives[k] \in Living
        /\ life' = [k \in Stages |-> IF k \in killed THEN "dead" ELSE lives[k]]
        /\ how' = [k \in Stages |-> IF k \in killed THEN "signal" ELSE how[k]]
        /\ fds' = [p \in 0 .. 3 |-> IF p = 0 \/ p \in killed THEN {} ELSE fds[p]]
  BY <1>1 DEF kill_all_children
<1>3. ControlOK
  BY DEF ArchiveInv
<1>4. ControlOK'
  BY <1>1, <1>2, <1>3 DEF ControlOK, Follows
<1>5. TableOK' /\ WaitsOK'
  BY <1>1 DEF TableOK, WaitsOK
<1>6. \A k \in Stages : life'[k] = IF k \in killed THEN "dead" ELSE lives[k]
  BY <1>2
<1>7. PipesOK'
  BY <1>1, <1>2, <1>3, <1>6 DEF ArchiveInv, PipesOK, ControlOK, Follows
<1>8. EndInOrder'
  <2>1. \A k \in Stages : how'[k] = "ok" => how[k] = "ok"
    BY <1>2
  <2>2. \A k \in Stages : life[k] \in {"dead", "reaped"} => life'[k] \in {"dead", "reaped"}
    BY <1>3, <1>6 DEF Follows, ControlOK
  <2> QED BY <2>1, <2>2 DEF ArchiveInv, EndInOrder
<1>9. KillsChildren'
  <2>1. signalled' = {table[k] : k \in Targets(table, n, lives)}
    BY <1>1 DEF ArchiveInv, TableOK, kill_all_children
  <2>2. \A k \in Targets(table, n, lives) : k \in 1 .. n /\ table[k] # 0
    BY DEF Targets
  <2>3. \A k \in 1 .. n : k \in Stages /\ table[k] \in {0, k, -1}
    BY DEF Covered
  <2>4. CASE \E k \in 1 .. n : table[k] = -1
    BY <1>1, <2>4 DEF KillsChildren
  <2>5. CASE \A k \in 1 .. n : table[k] # -1
    BY <2>1, <2>2, <2>3, <2>5 DEF KillsChildren
  <2> QED BY <2>4, <2>5
<1>10. LeavesNoOrphans'
  BY <1>1, NobodyIsLeft DEF LeavesNoOrphans, Finished
<1> QED BY <1>4, <1>5, <1>7, <1>8, <1>9, <1>10 DEF ArchiveInv

-----------------------------------------------------------------------------
(* Every living child is covered as the table stands, and when a fork has  *)
(* just failed.                                                            *)
LEMMA TableCovers ==
  ASSUME ArchiveInv, pc # "done"
  PROVE  /\ Covered(processes, StageCount, life)
         /\ pc = "close" => Covered(processes, at, life)
         /\ pc = "fork" => Covered([processes EXCEPT ![at] = -1], at - 1, life)
<1>1. ControlOK /\ TableOK
  BY DEF ArchiveInv
<1>2. \A k \in Stages :
        /\ processes[k] \in {0, k, -1}
        /\ life[k] \in Living => processes[k] = k
        /\ life[k] \in Living => k < at \/ (k = at /\ pc \in {"close", "wait"})
  BY <1>1 DEF TableOK, Forked
<1>3. at \in 1 .. StageCount /\ at \in Stages /\ processes \in [Stages -> -1 .. 3]
  BY <1>1 DEF ControlOK
<1> QED BY <1>2, <1>3 DEF Covered

LEMMA SetUpStep ==
  ASSUME ArchiveInv, SetUp, UNCHANGED mode
  PROVE  ArchiveInv'
<1>1. ControlOK /\ pc = "open" /\ at = 1
  BY DEF ArchiveInv, ControlOK, SetUp
<1>2. \A k \in Stages : life[k] = "none"
  BY <1>1 DEF ArchiveInv, TableOK, Forked, ControlOK
<1>3. /\ mode' = mode /\ life' = life /\ how' = how /\ at' = at /\ processes' = processes
      /\ waits' = waits /\ signalled' = signalled /\ missed' = missed
  BY DEF SetUp
<1>4. CASE Refuses
  <2>1. pc' = "done" /\ fds' = fds
    BY <1>4 DEF SetUp
  <2>2. ControlOK'
    BY <1>1, <1>3, <2>1 DEF ControlOK
  <2>3. TableOK' /\ WaitsOK'
    BY <2>1 DEF TableOK, WaitsOK
  <2>4. PipesOK' /\ EndInOrder' /\ LeavesNoOrphans' /\ KillsChildren'
    BY <1>1, <1>2, <1>3, <2>1 DEF PipesOK, EndInOrder, LeavesNoOrphans, Finished, KillsChildren, ArchiveInv
  <2> QED BY <2>2, <2>3, <2>4 DEF ArchiveInv
<1>5. CASE ~Refuses
  <2>1. /\ pc' = "fork"
        /\ fds' = [fds EXCEPT ![0] = (IF mode = "create" THEN {1, 2} ELSE {1}) \X {"r", "w"}]
    BY <1>5 DEF SetUp
  <2>2. ControlOK'
    BY <1>1, <1>3, <2>1 DEF ControlOK, Ends
  <2>3. TableOK' /\ WaitsOK'
    BY <1>1, <1>2, <1>3, <2>1 DEF ArchiveInv, TableOK, Forked, WaitsOK, One
  <2>4. PipesOK'
    BY <1>1, <1>2, <1>3, <2>1 DEF PipesOK, ControlOK
  <2>5. EndInOrder' /\ LeavesNoOrphans' /\ KillsChildren'
    BY <1>3, <2>1 DEF EndInOrder, LeavesNoOrphans, KillsChildren, ArchiveInv
  <2> QED BY <2>2, <2>3, <2>4, <2>5 DEF ArchiveInv
<1> QED BY <1>4, <1>5

LEMMA SetUpFailsStep ==
  ASSUME ArchiveInv, SetUpFails, UNCHANGED mode
  PROVE  ArchiveInv'
<1>1. ControlOK /\ pc = "open" /\ at = 1
  BY DEF ArchiveInv, ControlOK, SetUpFails
<1>2. \A k \in Stages : life[k] = "none"
  BY <1>1 DEF ArchiveInv, TableOK, Forked, ControlOK
<1>3. /\ mode' = mode /\ life' = life /\ how' = how /\ at' = at /\ processes' = processes
      /\ waits' = waits /\ signalled' = signalled /\ missed' = missed /\ pc' = "done" /\ fds' = fds
  BY DEF SetUpFails
<1>4. ControlOK' /\ TableOK' /\ WaitsOK'
  BY <1>1, <1>3 DEF ControlOK, TableOK, WaitsOK
<1>5. PipesOK' /\ EndInOrder' /\ LeavesNoOrphans' /\ KillsChildren'
  BY <1>1, <1>2, <1>3 DEF PipesOK, EndInOrder, LeavesNoOrphans, Finished, KillsChildren, ArchiveInv
<1> QED BY <1>4, <1>5 DEF ArchiveInv

LEMMA ForkStep ==
  ASSUME ArchiveInv, my_fork, UNCHANGED mode
  PROVE  ArchiveInv'
<1>1. ControlOK /\ pc = "fork" /\ at \in Stages /\ at <= StageCount
  BY DEF ArchiveInv, ControlOK, my_fork
<1>2. /\ mode' = mode /\ pc' = "close" /\ how' = how /\ at' = at /\ waits' = waits
      /\ signalled' = signalled /\ missed' = missed
      /\ life' = [life EXCEPT ![at] = "forked"] /\ fds' = [fds EXCEPT ![at] = fds[0]]
      /\ processes' = [processes EXCEPT ![at] = at]
  BY DEF my_fork
<1>3. /\ \A k \in Stages : life'[k] = IF k = at THEN "forked" ELSE life[k]
      /\ \A k \in Stages : fds'[k] = IF k = at THEN fds[0] ELSE fds[k]
      /\ \A k \in Stages : processes'[k] = IF k = at THEN at ELSE processes[k]
  <2>1. \A k \in Stages : life'[k] = IF k = at THEN "forked" ELSE life[k]
    BY <1>1, <1>2 DEF ControlOK
  <2>2. \A k \in Stages : fds'[k] = IF k = at THEN fds[0] ELSE fds[k]
    BY <1>1, <1>2 DEF ControlOK
  <2>3. \A k \in Stages : processes'[k] = IF k = at THEN at ELSE processes[k]
    BY <1>1, <1>2 DEF ControlOK
  <2> QED BY <2>1, <2>2, <2>3
<1>4. life[at] = "none"
  BY <1>1 DEF ArchiveInv, TableOK, Forked
<1>5. ControlOK'
  BY <1>1, <1>2 DEF ControlOK
<1>6. TableOK'
  <2>1. \A k \in Stages : processes'[k] \in {0, k, -1} /\ (processes'[k] = -1 => mode = "create" /\ k = 3)
    BY <1>1, <1>3 DEF ArchiveInv, TableOK
  <2>2. \A k \in Stages : life'[k] \in Living => processes'[k] = k
    BY <1>1, <1>3 DEF ArchiveInv, TableOK
  <2>3. \A k \in Stages : life'[k] # "none" => k < at \/ k = at
    BY <1>1, <1>3 DEF ArchiveInv, TableOK, Forked
  <2>4. \A k \in Stages : k < at \/ k = at => life'[k] # "none"
    BY <1>1, <1>3 DEF ArchiveInv, TableOK
  <2>5. signalled = {} /\ missed = {}
    BY <1>1 DEF ArchiveInv, TableOK
  <2> QED BY <1>2, <2>1, <2>2, <2>3, <2>4, <2>5 DEF TableOK, Forked
<1>7. WaitsOK'
  <2>1. \A j \in Stages : One(j)' = One(j)
    BY <1>3, <1>4 DEF One
  <2> QED BY <1>1, <1>2, <2>1 DEF ArchiveInv, WaitsOK
<1>8. PipesOK'
  <2>1. fds'[0] = fds[0]
    BY <1>1, <1>2 DEF ControlOK
  <2>2. at > 1 => life[at - 1] # "none"
    BY <1>1 DEF ArchiveInv, TableOK
  <2> QED BY <1>1, <1>2, <1>3, <2>1, <2>2 DEF ArchiveInv, PipesOK
<1>9. EndInOrder'
  BY <1>2, <1>3, <1>4 DEF ArchiveInv, EndInOrder
<1>10. KillsChildren' /\ LeavesNoOrphans'
  BY <1>1, <1>2 DEF ArchiveInv, TableOK, KillsChildren, LeavesNoOrphans
<1> QED BY <1>5, <1>6, <1>7, <1>8, <1>9, <1>10 DEF ArchiveInv

(* A failed fork is noticed, unless it is the third.                       *)
LEMMA ForkFailsStep ==
  ASSUME ArchiveInv, my_fork_fails, UNCHANGED mode
  PROVE  ArchiveInv'
<1> DEFINE table == [processes EXCEPT ![at] = -1]
<1>1. ControlOK /\ pc = "fork" /\ at \in Stages /\ at <= StageCount
  BY DEF ArchiveInv, ControlOK, my_fork_fails
<1>2. mode' = mode /\ waits' = waits
  BY DEF my_fork_fails
<1>3. table \in [Stages -> -1 .. 3]
  BY <1>1 DEF ControlOK
<1>4. \A k \in Stages : k # at => table[k] = processes[k]
  BY <1>1 DEF ControlOK
<1>5. \A k \in Stages : k < at => processes[k] # -1
  BY <1>1 DEF ArchiveInv, TableOK, ControlOK
<1>6. CASE table[Plan[at].tested] < 0
  <2>1. GiveUp(table, at - 1, life)
    BY <1>6 DEF my_fork_fails
  <2>2. Covered(table, at - 1, life)
    BY <1>1, TableCovers
  <2>3. Follows(life)
    BY <1>1 DEF ControlOK, Follows
  <2>4. \A k \in 1 .. at - 1 : table[k] # -1
    BY <1>1, <1>4, <1>5
  <2> HIDE DEF table
  <2> QED BY <1>1, <1>2, <1>3, <2>1, <2>2, <2>3, <2>4, GiveUpStep DEF ControlOK
<1>7. CASE ~(table[Plan[at].tested] < 0)
  <2>1. /\ processes' = table /\ pc' = "close" /\ at' = at
        /\ life' = life /\ how' = how /\ fds' = fds /\ signalled' = signalled /\ missed' = missed
    BY <1>7 DEF my_fork_fails
  <2>2. mode = "create" /\ at = 3
    <3>1. CASE mode = "create"
      <4>1. Plan[1].tested = 1 /\ Plan[2].tested = 2
        BY <3>1 DEF Plan, create_encr_archive
      <4> QED BY <1>1, <1>7, <3>1, <4>1 DEF ControlOK
    <3>2. CASE mode # "create"
      <4>1. Plan[1].tested = 1 /\ Plan[2].tested = 2
        BY <3>2 DEF Plan, extract_encr_data
      <4> QED BY <1>1, <1>7, <3>2, <4>1 DEF ControlOK
    <3> QED BY <3>1, <3>2
  <2>3. ControlOK'
    BY <1>1, <1>2, <1>3, <2>1 DEF ControlOK
  <2>4. life[3] = "none"
    BY <1>1, <2>2 DEF ArchiveInv, TableOK, Forked
  <2>5. TableOK'
    BY <1>1, <1>2, <1>3, <1>4, <2>1, <2>2, <2>4 DEF ArchiveInv, TableOK, Forked, ControlOK
  <2>6. WaitsOK' /\ EndInOrder'
    BY <1>1, <1>2, <2>1 DEF ArchiveInv, WaitsOK, One, EndInOrder
  <2>7. PipesOK'
    BY <1>1, <1>2, <2>1 DEF ArchiveInv, PipesOK
  <2>8. KillsChildren' /\ LeavesNoOrphans'
    BY <1>1, <2>1 DEF ArchiveInv, TableOK, KillsChildren, LeavesNoOrphans
  <2> QED BY <2>3, <2>5, <2>6, <2>7, <2>8 DEF ArchiveInv
<1> QED BY <1>6, <1>7

LEMMA CloseStep ==
  ASSUME ArchiveInv, close_multiple_fd, UNCHANGED mode
  PROVE  ArchiveInv'
<1>1. ControlOK /\ pc = "close" /\ at \in 1 .. StageCount
  BY DEF ArchiveInv, ControlOK, close_multiple_fd
<1>2. /\ mode' = mode /\ life' = life /\ how' = how /\ processes' = processes /\ waits' = waits
      /\ signalled' = signalled /\ missed' = missed
      /\ fds' = [fds EXCEPT ![0] = @ \ Plan[at].parent]
  BY DEF close_multiple_fd
<1>3. IF at < StageCount THEN at' = at + 1 /\ pc' = "fork" ELSE pc' = "wait" /\ at' = at
  BY DEF close_multiple_fd
<1>4. /\ fds'[0] = fds[0] \ Plan[at].parent
      /\ \A k \in Stages : fds'[k] = fds[k]
  BY <1>1, <1>2 DEF ControlOK
<1>5. ControlOK'
  <2>1. fds' \in [0 .. 3 -> SUBSET Ends]
    BY <1>1, <1>2 DEF ControlOK
  <2> QED BY <1>1, <1>2, <1>3, <2>1 DEF ControlOK
<1>6. TableOK'
  <2>1. \A k \in Stages : life[k] # "none" => k < at \/ k = at
    BY <1>1 DEF ArchiveInv, TableOK, Forked
  <2>2. \A k \in Stages : k < at \/ (k = at /\ k < StageCount) => life[k] # "none"
    BY <1>1 DEF ArchiveInv, TableOK
  <2>3. \A k \in Stages : /\ processes[k] \in {0, k, -1}
                          /\ processes[k] = -1 => mode = "create" /\ k = 3
                          /\ life[k] \in Living => processes[k] = k
    BY <1>1 DEF ArchiveInv, TableOK
  <2>4. signalled = {} /\ missed = {}
    BY <1>1 DEF ArchiveInv, TableOK
  <2>5. CASE at < StageCount
    BY <1>1, <1>2, <1>3, <2>1, <2>2, <2>3, <2>4, <2>5 DEF TableOK, Forked
  <2>6. CASE ~(at < StageCount)
    BY <1>1, <1>2, <1>3, <2>1, <2>2, <2>3, <2>4, <2>6 DEF TableOK, Forked
  <2> QED BY <2>5, <2>6
<1>7. WaitsOK' /\ EndInOrder'
  BY <1>1, <1>2 DEF ArchiveInv, WaitsOK, One, EndInOrder
<1>8. PipesOK'
  <2>1. \A k \in 1 .. StageCount - 1 : k > at => <<k, "w">> \notin Plan[at].parent
    <3>1. CASE mode = "create"
      <4>1. Plan[1].parent = {<<1, "w">>}
        BY <3>1 DEF Plan, create_encr_archive
      <4> QED BY <1>1, <3>1, <4>1 DEF ControlOK
    <3>2. CASE mode # "create"
      BY <1>1, <3>2
    <3> QED BY <3>1, <3>2
  <2>2. \A k \in 1 .. StageCount - 1 : k > at => <<k, "w">> \in fds'[0]
    BY <1>1, <1>4, <2>1 DEF ArchiveInv, PipesOK
  <2> QED BY <1>1, <1>2, <1>3, <1>4, <2>2 DEF ArchiveInv, PipesOK
<1>9. KillsChildren' /\ LeavesNoOrphans'
  BY <1>1, <1>2, <1>3 DEF ArchiveInv, TableOK, KillsChildren, LeavesNoOrphans
<1> QED BY <1>5, <1>6, <1>7, <1>8, <1>9 DEF ArchiveInv

LEMMA CloseFailsStep ==
  ASSUME ArchiveInv, close_fails, UNCHANGED mode
  PROVE  ArchiveInv'
<1>1. ControlOK /\ pc = "close" /\ GiveUp(processes, at, life) /\ waits' = waits
  BY DEF ArchiveInv, close_fails
<1>2. \A k \in Stages : processes[k] = -1 => mode = "create" /\ k = 3
  BY <1>1 DEF ArchiveInv, TableOK
<1>3. Follows(life)
  BY <1>1 DEF ControlOK, Follows
<1>4. at \in 0 .. 3 /\ \A k \in 1 .. at : k \in Stages
  BY <1>1 DEF ControlOK
<1>5. processes \in [Stages -> -1 .. 3] /\ waits' \in Nat
  BY <1>1 DEF ControlOK
<1> QED BY <1>1, <1>2, <1>3, <1>4, <1>5, TableCovers, GiveUpStep

-----------------------------------------------------------------------------
LEMMA WaitedStep ==
  ASSUME ArchiveInv, pc = "wait", NEW k \in Stages, Waited(k), UNCHANGED mode
  PROVE  ArchiveInv'
<1> DEFINE lives == [life EXCEPT ![k] = "reaped"]
           table == [j \in Stages |-> IF processes[j] = k /\ how[k] # "signal" THEN 0 ELSE processes[j]]
<1>1. ControlOK /\ life[k] = "dead" /\ waits' = waits + 1 /\ mode' = mode
  BY DEF ArchiveInv, Waited
<1>2. \A j \in Stages : lives[j] = IF j = k THEN "reaped" ELSE life[j]
  BY <1>1 DEF ControlOK
<1>3. Follows(lives)
  BY <1>1, <1>2 DEF ControlOK, Follows
<1>4. table \in [Stages -> -1 .. 3]
  BY <1>1 DEF ControlOK
<1>5. \A j \in Stages : table[j] = processes[j] \/ (table[j] = 0 /\ processes[j] = k)
  OBVIOUS
<1>6. \A j \in Stages : /\ processes[j] \in {0, j, -1}
                        /\ processes[j] = -1 => mode = "create" /\ j = 3
                        /\ life[j] \in Living => processes[j] = j
  BY DEF ArchiveInv, TableOK
<1>7. \A j \in Stages : /\ table[j] \in {0, j, -1}
                        /\ table[j] = -1 => mode = "create" /\ j = 3
                        /\ lives[j] \in Living => table[j] = j
  BY <1>1, <1>2, <1>5, <1>6
<1>8. \A j \in Stages : lives[j] \in Living => j <= StageCount
  BY <1>1, <1>2 DEF ArchiveInv, TableOK, Forked, ControlOK
<1>9. CASE how[k] = "ok" /\ waits + 1 = StageCount
  <2>1. /\ life' = lives /\ processes' = table /\ pc' = "done" /\ fds' = [fds EXCEPT ![0] = {}]
        /\ at' = at /\ how' = how /\ signalled' = signalled /\ missed' = missed
    BY <1>9 DEF Waited
  <2>2. \A j \in Stages : life'[j] \notin Living
    <3>1. One(1) + One(2) + One(3) + 1 = StageCount
      BY <1>9 DEF ArchiveInv, WaitsOK
    <3>2. \A j \in Stages : One(j) \in {0, 1} /\ (life[j] \in Living \cup {"dead", "none"} => One(j) = 0)
      BY DEF One
    <3>3. mode # "create" => life[3] = "none"
      BY <1>1 DEF ArchiveInv, TableOK, Forked, ControlOK
    <3>4. ASSUME NEW j \in Stages, life[j] \in Living, j # k PROVE FALSE
      <4>1. One(j) = 0 /\ One(k) = 0
        BY <1>1, <3>2, <3>4
      <4>2. One(1) + One(2) + One(3) <= 1
        BY <3>2, <3>4, <4>1
      <4>3. StageCount = 2
        <5>1. StageCount \in {2, 3}
          OBVIOUS
        <5>2. One(1) \in {0, 1} /\ One(2) \in {0, 1} /\ One(3) \in {0, 1}
          BY <3>2
        <5> HIDE DEF StageCount
        <5> QED BY <3>1, <4>2, <5>1, <5>2
      <4>4. One(3) = 0 /\ j # 3 /\ k # 3
        BY <1>1, <3>2, <3>3, <3>4, <4>3
      <4>5. One(1) + One(2) + One(3) = 0
        BY <3>4, <4>1, <4>4
      <4> QED BY <3>1, <4>3, <4>5
    <3> QED BY <1>2, <2>1, <3>4
  <2>3. ControlOK'
    BY <1>1, <1>3, <1>4, <2>1 DEF ControlOK, Follows
  <2>4. TableOK' /\ WaitsOK'
    BY <2>1 DEF TableOK, WaitsOK
  <2>5. PipesOK'
    BY <1>1, <1>2, <2>1, <2>2 DEF ArchiveInv, PipesOK
  <2>6. EndInOrder'
    BY <1>1, <1>2, <2>1 DEF ArchiveInv, EndInOrder
  <2>7. KillsChildren'
    BY <2>1 DEF ArchiveInv, TableOK, KillsChildren
  <2>8. LeavesNoOrphans'
    BY <2>2 DEF LeavesNoOrphans, Finished
  <2> QED BY <2>3, <2>4, <2>5, <2>6, <2>7, <2>8 DEF ArchiveInv
<1>10. CASE how[k] = "ok" /\ waits + 1 # StageCount
  <2>1. /\ life' = lives /\ processes' = table /\ pc' = pc /\ fds' = fds
        /\ at' = at /\ how' = how /\ signalled' = signalled /\ missed' = missed
    BY <1>10 DEF Waited
  <2>2. ControlOK'
    BY <1>1, <1>3, <1>4, <2>1 DEF ControlOK, Follows
  <2>3. TableOK'
    <3>1. \A j \in Stages : (lives[j] # "none" <=> life[j] # "none")
      BY <1>3 DEF Follows
    <3>2. \A j \in Stages : /\ life[j] # "none" => j <= at
                            /\ j < at => life[j] # "none"
      BY <1>1 DEF ArchiveInv, TableOK, Forked, ControlOK
    <3>3. signalled = {} /\ missed = {}
      BY DEF ArchiveInv, TableOK
    <3> HIDE DEF lives, table
    <3> QED BY <1>1, <1>7, <2>1, <3>1, <3>2, <3>3 DEF TableOK, Forked, ControlOK
  <2>4. WaitsOK'
    <3>1. \A j \in Stages : j # k => One(j)' = One(j)
      BY <1>2, <2>1 DEF One
    <3>2. One(k) = 0 /\ One(k)' = 1
      BY <1>1, <1>2, <2>1 DEF One
    <3>3. waits = One(1) + One(2) + One(3)
      BY DEF ArchiveInv, WaitsOK
    <3>4. \A j \in Stages : One(j) \in Nat
      BY DEF One
    <3>5. waits' = One(1)' + One(2)' + One(3)'
      BY <1>1, <3>1, <3>2, <3>3, <3>4
    <3> QED BY <3>5 DEF WaitsOK
  <2>5. PipesOK'
    BY <1>1, <1>2, <2>1 DEF ArchiveInv, PipesOK
  <2>6. EndInOrder'
    BY <1>1, <1>2, <2>1 DEF ArchiveInv, EndInOrder
  <2>7. KillsChildren' /\ LeavesNoOrphans'
    BY <2>1 DEF ArchiveInv, TableOK, KillsChildren, LeavesNoOrphans
  <2> QED BY <2>2, <2>3, <2>4, <2>5, <2>6, <2>7 DEF ArchiveInv
<1>11. CASE how[k] # "ok"
  <2>1. GiveUp(table, StageCount, lives)
    BY <1>11 DEF Waited
  <2>2. Covered(table, StageCount, lives)
    BY <1>7, <1>8 DEF Covered
  <2>3. \A j \in 1 .. StageCount : table[j] = -1 => mode = "create" /\ j = 3
    BY <1>7
  <2>4. StageCount \in 0 .. 3 /\ waits' \in Nat
    BY <1>1 DEF ControlOK
  <2> HIDE DEF lives, table
  <2> QED BY <1>1, <1>3, <1>4, <2>1, <2>2, <2>3, <2>4, GiveUpStep
<1> QED BY <1>9, <1>10, <1>11

LEMMA NobodyToWaitStep ==
  ASSUME ArchiveInv, pc = "wait", NobodyToWait, UNCHANGED mode
  PROVE  ArchiveInv'
<1>1. ControlOK /\ GiveUp(processes, StageCount, life) /\ waits' = waits
  BY DEF ArchiveInv, NobodyToWait
<1>2. \A k \in 1 .. StageCount : processes[k] = -1 => mode = "create" /\ k = 3
  BY DEF ArchiveInv, TableOK
<1>3. Follows(life)
  BY <1>1 DEF ControlOK, Follows
<1>4. StageCount \in 0 .. 3 /\ processes \in [Stages -> -1 .. 3] /\ waits' \in Nat
  BY <1>1 DEF ControlOK
<1> QED BY <1>1, <1>2, <1>3, <1>4, TableCovers, GiveUpStep

-----------------------------------------------------------------------------
(* A child closes what it does not use, and keeps the pipe it writes.      *)
LEMMA ExecStep ==
  ASSUME ArchiveInv, NEW k \in Stages, NEW input, redirected_exec(k, input), UNCHANGED mode
  PROVE  ArchiveInv'
<1>1. ControlOK /\ life[k] = "forked"
  BY DEF ArchiveInv, redirected_exec
<1>2. /\ mode' = mode /\ pc' = pc /\ at' = at /\ processes' = processes /\ waits' = waits
      /\ how' = how /\ signalled' = signalled /\ missed' = missed
      /\ life' = [life EXCEPT ![k] = "runs"] /\ fds' = [fds EXCEPT ![k] = @ \ Plan[k].child]
  BY DEF redirected_exec
<1>3. \A j \in Stages : life'[j] = IF j = k THEN "runs" ELSE life[j]
  BY <1>1, <1>2 DEF ControlOK
<1>4. ControlOK'
  <2>1. fds' \in [0 .. 3 -> SUBSET Ends]
    BY <1>1, <1>2 DEF ControlOK
  <2>2. life' \in [Stages -> Lives]
    BY <1>1, <1>2 DEF ControlOK
  <2> QED BY <1>1, <1>2, <2>1, <2>2 DEF ControlOK
<1>5. TableOK'
  BY <1>1, <1>2, <1>3 DEF ArchiveInv, TableOK, Forked
<1>6. WaitsOK'
  <2>1. \A j \in Stages : One(j)' = One(j)
    BY <1>1, <1>3 DEF One
  <2> QED BY <1>2, <2>1 DEF ArchiveInv, WaitsOK
<1>7. PipesOK'
  <2>1. k <= StageCount - 1 => <<k, "w">> \notin Plan[k].child
    <3>1. CASE mode = "create"
      <4>1. /\ Plan[1].child = {<<1, "r">>} \cup ({2} \X {"r", "w"})
            /\ Plan[2].child = {<<2, "r">>}
        BY <3>1 DEF Plan, create_encr_archive
      <4> QED BY <3>1, <4>1
    <3>2. CASE mode # "create"
      <4>1. Plan[1].child = {<<1, "r">>}
        BY <3>2 DEF Plan, extract_encr_data
      <4> QED BY <3>2, <4>1
    <3> QED BY <3>1, <3>2
  <2>2. /\ fds'[0] = fds[0]
        /\ \A j \in Stages : j # k => fds'[j] = fds[j]
        /\ fds'[k] = fds[k] \ Plan[k].child
    BY <1>1, <1>2 DEF ControlOK
  <2> QED BY <1>1, <1>2, <1>3, <2>1, <2>2 DEF ArchiveInv, PipesOK
<1>8. EndInOrder'
  BY <1>1, <1>2, <1>3 DEF ArchiveInv, EndInOrder
<1>9. KillsChildren'
  BY <1>2 DEF ArchiveInv, KillsChildren
<1>10. LeavesNoOrphans'
  BY <1>1, <1>2 DEF ArchiveInv, LeavesNoOrphans, Finished
<1> QED BY <1>4, <1>5, <1>6, <1>7, <1>8, <1>9, <1>10 DEF ArchiveInv

(* The input of a stage ends when the stage before it has ended.           *)
LEMMA WriterIsGone ==
  ASSUME ArchiveInv, NEW k \in Stages, k > 1, Runs(k), AtEnd(k)
  PROVE  life[k - 1] \in {"dead", "reaped"}
<1>1. ControlOK /\ life[k] = "runs" /\ k <= StageCount /\ k - 1 \in Stages /\ k - 1 \in DOMAIN fds
  BY DEF ArchiveInv, ControlOK, Runs
<1>2. <<k - 1, "w">> \notin fds[k - 1]
  BY <1>1 DEF AtEnd, Open
<1>3. life[k - 1] \notin Living
  BY <1>1, <1>2 DEF ArchiveInv, PipesOK
<1>4. life[k - 1] # "none"
  BY <1>1 DEF ArchiveInv, PipesOK
<1> QED BY <1>1, <1>3, <1>4 DEF ControlOK

LEMMA StageStep ==
  ASSUME ArchiveInv, NEW k \in Stages, Stage(k), UNCHANGED <<mode, parent, history>>
  PROVE  ArchiveInv'
<1>1. CASE my_write(k)
  <2>1. Alive(k)
    BY <1>1 DEF my_write, Runs
  <2>2. CASE UNCHANGED <<life, how, fds>>
    BY <2>2, QuietStep
  <2>3. CASE \E status \in {"fail", "signal"} : End(k, status)
    BY <2>1, <2>3, EndStep
  <2> QED BY <1>1, <2>2, <2>3 DEF my_write, WriteArchive, WritePipe
<1>2. CASE archive_file(k)
  BY <1>2, QuietStep DEF archive_file
<1>3. CASE Encrypt(k)
  BY <1>3, QuietStep DEF Encrypt
<1>4. CASE reproduce_file(k)
  BY <1>4, QuietStep DEF reproduce_file
<1>5. CASE EndOfInput(k)
  <2>1. k > 1 /\ Runs(k) /\ AtEnd(k) /\ End(k, "ok")
    BY <1>5 DEF EndOfInput
  <2> QED BY <2>1, WriterIsGone, EndStep DEF Runs
<1>6. CASE EndOfRecords(k)
  <2>1. k > 1 /\ Runs(k) /\ AtEnd(k) /\ \E status \in {"ok", "fail"} : End(k, status)
    BY <1>6 DEF EndOfRecords
  <2> QED BY <2>1, WriterIsGone, EndStep DEF Runs
<1>7. CASE k = 1 /\ FirstEnds
  BY <1>7, EndStep DEF FirstEnds, Runs
<1> QED BY <1>1, <1>2, <1>3, <1>4, <1>5, <1>6, <1>7 DEF Stage

-----------------------------------------------------------------------------
LEMMA NextKeepsInv == ArchiveInv /\ [Next]_vars => ArchiveInv'
<1> SUFFICES ASSUME ArchiveInv, [Next]_vars PROVE ArchiveInv'
  OBVIOUS
<1>1. CASE UNCHANGED vars
  BY <1>1, QuietStep DEF vars
<1>2. CASE Next
  <2>1. UNCHANGED mode
    BY <1>2 DEF Next
  <2>2. CASE ParentStep
    <3>1. CASE wait_all_processes
      BY <2>1, <3>1, WaitedStep, NobodyToWaitStep DEF wait_all_processes
    <3> QED BY <2>1, <2>2, <3>1, SetUpStep, ForkStep, CloseStep DEF ParentStep
  <2>3. CASE ParentFails
    BY <2>1, <2>3, SetUpFailsStep, ForkFailsStep, CloseFailsStep DEF ParentFails
  <2>4. ASSUME NEW k \in Stages, Child(k) PROVE ArchiveInv'
    BY <2>1, <2>4, ExecStep, StageStep DEF Child
  <2>5. ASSUME NEW k \in Stages, StageFails(k), UNCHANGED <<parent, history>> PROVE ArchiveInv'
    BY <2>1, <2>5, EndStep DEF StageFails
  <2>6. CASE Finished /\ UNCHANGED vars
    BY <2>6, QuietStep DEF vars
  <2> QED BY <1>2, <2>2, <2>3, <2>4, <2>5, <2>6 DEF Next
<1> QED BY <1>1, <1>2

LEMMA InvHolds == Spec => []ArchiveInv
  BY InitImplies, NextKeepsInv, PTL DEF Spec

(* hw2.c:372: kill is called with the pids of children, unless the third   *)
(* fork has failed.                                                        *)
THEOREM KillsOnlyChildren == Spec => []KillsChildren
<1>1. ArchiveInv => KillsChildren
  BY DEF ArchiveInv
<1> QED BY <1>1, InvHolds, PTL

(* hw2.c:128, 153: when the parent is done and every kill has found its    *)
(* child, nobody is alive.                                                 *)
THEOREM NoOrphans == Spec => []LeavesNoOrphans
<1>1. ArchiveInv => LeavesNoOrphans
  BY DEF ArchiveInv
<1> QED BY <1>1, InvHolds, PTL

(* hw2.c:126, 150: a stage that exits normally outlives the one it reads   *)
(* from: the ends of the pipes are closed where they have to be, and       *)
(* nowhere else.                                                           *)
THEOREM StagesEndInOrder == Spec => []EndInOrder
<1>1. ArchiveInv => EndInOrder
  BY DEF ArchiveInv
<1> QED BY <1>1, InvHolds, PTL
=============================================================================
