------------------------------ MODULE Archiver ------------------------------
(***************************************************************************)
(* hw2: parent and stages together, and what is checked of them.           *)
(***************************************************************************)
EXTENDS ArchiveParent, ArchiveStages

Child(k) ==
  \/ redirected_exec(k, IF k = 1 THEN FirstInput ELSE <<>>)
  \/ Stage(k) /\ UNCHANGED <<parent, history>>

Finished == pc = "done" /\ ~\E k \in Stages : Alive(k)

Next ==
  /\ UNCHANGED <<mode, denied>>
  /\ \/ ParentStep
     \/ ParentFails
     \/ \E k \in Stages : Child(k)
     \/ \E k \in Stages : StageFails(k) /\ UNCHANGED <<parent, history>>
     \/ Finished /\ UNCHANGED vars

Spec == Init /\ [][Next]_vars

(* Parent and children are processes the system schedules.                 *)
FairSpec ==
  /\ Spec
  /\ WF_vars(ParentStep /\ UNCHANGED <<mode, denied>>)
  /\ \A k \in Stages : WF_vars(Child(k) /\ UNCHANGED <<mode, denied>>)

-----------------------------------------------------------------------------
TypeOK ==
  /\ mode \in {"create", "extract"} /\ denied \subseteq Files
  /\ magic \in {"absent", "missing", "present"}
  /\ archive \in Seq(Items)
  /\ restored \in Seq(Files \X {"empty", "good", "garbage", "spoilt"})
  /\ part \in 0 .. Len(Parts) - 1
  /\ fds \in [0 .. 3 -> SUBSET Ends]
  /\ pipe \in [{1, 2} -> Seq(Items)] /\ \A i \in {1, 2} : Len(pipe[i]) <= PipeSize
  /\ life \in [Stages -> {"none", "forked", "runs", "dead", "reaped"}]
  /\ how \in [Stages -> {"none", "ok", "fail", "signal"}]
  /\ todo \in [Stages -> Seq(Items)]
  /\ pc \in {"open", "fork", "close", "wait", "done"} /\ at \in Stages
  /\ processes \in [Stages -> -1 .. 3] /\ waits \in 0 .. 3
  /\ result \in {"none", "success", "refused", "failure"}
  /\ signalled \subseteq -1 .. 3 /\ missed \subseteq Stages

(* p2archive.c:103 with hw2_functions.c:163: whatever fails, whoever is    *)
(* killed, and also when a file shrinks under p2archive's hands, what is   *)
(* in the archive are records of readable files, in order and whole but    *)
(* for the last, and none is left out: the part at each place is the one   *)
(* due there, of the file before it or, behind a body, of a later one; a   *)
(* stale body takes the room that was announced.                           *)
Framed(cell) == IF cell[2] = "stale" THEN <<cell[1], "body">> ELSE cell

ArchiveInOrder ==
  mode = "create" => \A i \in DOMAIN archive :
    /\ Framed(archive[i])[2] = Parts[((i - 1) % Len(Parts)) + 1]
    /\ i > 1 => IF i % Len(Parts) = 1 THEN archive[i - 1][1] < archive[i][1]
                ELSE archive[i - 1][1] = archive[i][1]
    /\ {archive[j][1] : j \in 1 .. i} = {f \in Files \ denied : f <= archive[i][1]}

(* p2unarchive.c:79, 102: files are restored in order, and as they were    *)
(* but for one at most.  That is the last, without its contents yet or     *)
(* with others, or, of an input that ends inside a name, one restored      *)
(* before which is written over; and other contents take an archive cut    *)
(* inside a record or a p2crypt that broke off.                            *)
AtMostOneIsTorn ==
  \A i \in DOMAIN restored :
    /\ restored[i][1] = i
    /\ restored[i][2] # "good" =>
         /\ IF restored[i][2] = "spoilt" THEN part = 1 ELSE i = Len(restored)
         /\ restored[i][2] # "empty" => Len(archive) % Len(Parts) # 0 \/ how[1] # "ok"
         /\ \A j \in DOMAIN restored \ {i} : restored[j][2] = "good"

(* hw2.c:126, 150: nobody takes for the end of its input what is only a    *)
(* pipe without a writer yet: who exits normally outlives the one before.  *)
EndInOrder ==
  \A k \in {2, 3} : how[k] = "ok" => life[k - 1] \in {"dead", "reaped"}

(* hw2.c:372: kill is called with the pids of children, unless the third   *)
(* fork has failed: the test at 162 misses that, and -1 is everybody.      *)
KillsChildren == signalled \subseteq Stages \/ (mode = "create" /\ processes[3] = -1)

(* hw2.c:128, 153: the parent leaves no child behind that it has not       *)
(* killed, unless kill_all_children fails half way.                        *)
LeavesNoOrphans == pc = "done" /\ missed = {} => Finished

(* hw2.c:335: a pid leaves the table when its child has been waited for,   *)
(* so that kill does not target it.                                        *)
KillSparesTheReaped == missed = {}

(* hw2.c:126, 341: whatever fails, everybody ends: who reads sees the end  *)
(* of its input, who writes loses its reader, and the parent gets them     *)
(* all.                                                                    *)
EverybodyEnds == <>Finished

(* The command as a job of one process: the files it is about, those that  *)
(* change under its hands, whether its input is whole; and the files       *)
(* copied, archived or restored, with those whose copy is not the file.    *)
Sources == IF mode = "create" THEN Files \ denied ELSE 1 .. Len(archive) \div Len(Parts)

Unsteady == IF mode = "create" THEN Shrinking ELSE {}

Whole == mode = "create" \/ Len(archive) % Len(Parts) = 0

Archived(cells) == [i \in 1 .. Len(cells) \div Len(Parts) |-> cells[i * Len(Parts)][1]]

Made(files) == [i \in {j \in DOMAIN files : files[j][2] \in {"good", "spoilt"}} |-> files[i][1]]

Copied == IF mode = "create" THEN Archived(archive) ELSE Made(restored)

Spoilt == {item[1] : item \in {x \in Range(IF mode = "create" THEN archive ELSE restored) :
                                 x[2] \in {"stale", "spoilt"}}}

Outcome == IF result = "refused" THEN "none" ELSE result

Job == INSTANCE CopyJob WITH source <- Sources, unsteady <- Unsteady, whole <- Whole,
                             copied <- Copied, spoilt <- Spoilt, outcome <- Outcome

(* hw2.c:182, 276, hw2_functions.c:174, p2unarchive.c:102: a command that  *)
(* reports success has copied every file it is about, in order, and as it  *)
(* was, but for files that got shorter while p2archive read them and, of   *)
(* an archive that is cut, for one file.                                   *)
ImplementsJob == Job!Spec
=============================================================================
