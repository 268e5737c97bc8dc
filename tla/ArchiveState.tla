---------------------------- MODULE ArchiveState ----------------------------
(***************************************************************************)
(* hw2: one command, the processes that carry it out and the pipes between *)
(* them.  Stage k writes pipe k and reads pipe k - 1; process 0 is the     *)
(* parent.                                                                 *)
(***************************************************************************)
EXTENDS Integers, Sequences, SequencesExt

CONSTANTS NumFiles,   \* regular files of the directory, or of the archive
          PipeSize,   \* bound: items a pipe holds
          MayFail,    \* stages one of whose system calls may fail
          MayDie,     \* stages that somebody else may kill
          ParentMayFail, \* whether the parent's own calls may fail
          Shrinking   \* files that may get shorter while they are archived

ASSUME ArchiveAssumption ==
  /\ NumFiles \in Nat /\ PipeSize \in Nat \ {0}
  /\ MayFail \cup MayDie \subseteq 1 .. 3 /\ ParentMayFail \in BOOLEAN
  /\ Shrinking \subseteq 1 .. NumFiles

Files  == 1 .. NumFiles
Stages == 1 .. 3
Ends   == {1, 2} \X {"r", "w"}

(* What archive_file writes of a file, in this order.                      *)
Parts     == <<"length", "name", "meta", "body">>
Record(f) == [i \in 1 .. Len(Parts) |-> <<f, Parts[i]>>]

(* What travels: paths from dirlist, parts of records behind it.  A file   *)
(* that shrinks may have a stale body: as long as it was announced, with   *)
(* contents that are not the file's.                                       *)
Items == Files \X ({"path"} \cup Range(Parts)) \cup Shrinking \X {"stale"}

VARIABLES
  mode,     \* "create" or "extract"
  denied,   \* files p2archive may not read
  magic,    \* the archive's magic number: "absent" (no archive), "missing", "present"
  archive,  \* what follows it
  restored, \* files p2unarchive has made: <<file, contents>>; "spoilt" was good
  part,     \* parts p2unarchive has read of the record it is reading
  fds,      \* [0 .. 3 -> SUBSET Ends]: the pipe ends each process has open
  pipe,     \* [1 .. 2 -> Seq(Items)]
  life,     \* stage -> "none", "forked", "runs", "dead" (a zombie), "reaped"
  how,      \* how it ended: "none" yet, "ok" (exit 0), "fail" (exit 1), "signal"
  todo,     \* what a stage has read and not yet written
  pc, at,   \* the parent: "open", "fork", "close", "wait", "done"; the stage
  processes, \* its table of pids: stage k has pid k; 0 empty, -1 no process
  waits,    \* children waited for
  result,   \* "none", "success" (0), "refused" (0, nothing done), "failure" (-1)
  signalled, \* history: the pids given to kill
  missed    \* history: those that named a process already reaped

data     == <<archive, restored, part>>
children == <<fds, pipe, life, how, todo>>
parent   == <<pc, at, processes, waits, result, magic>>
history  == <<signalled, missed>>
vars     == <<mode, denied, data, children, parent, history>>

StageCount == IF mode = "create" THEN 3 ELSE 2

Alive(k) == life[k] \in {"forked", "runs"}
Open(e)  == \E p \in DOMAIN fds : e \in fds[p]

(* The end of a process closes its descriptors.                            *)
End(k, status) ==
  /\ life' = [life EXCEPT ![k] = "dead"]
  /\ how' = [how EXCEPT ![k] = status]
  /\ fds' = [fds EXCEPT ![k] = {}]

(* The items of the archive of all the files, one after the other.         *)
Cell(i) == <<((i - 1) \div Len(Parts)) + 1, Parts[((i - 1) % Len(Parts)) + 1]>>

(* An archive to extract is one that a create, complete or not, has left.  *)
Init ==
  /\ \/ mode = "create" /\ denied \in SUBSET Files /\ magic \in {"absent", "present"} /\ archive = <<>>
     \/ /\ mode = "extract" /\ denied = {}
        /\ \/ magic \in {"absent", "missing"} /\ archive = <<>>
           \/ magic = "present" /\ archive \in {[i \in 1 .. n |-> Cell(i)] : n \in 0 .. NumFiles * Len(Parts)}
  /\ restored = <<>> /\ part = 0
  /\ fds = [p \in 0 .. 3 |-> {}]
  /\ pipe = [i \in {1, 2} |-> <<>>]
  /\ life = [k \in Stages |-> "none"] /\ how = [k \in Stages |-> "none"]
  /\ todo = [k \in Stages |-> <<>>]
  /\ pc = "open" /\ at = 1 /\ waits = 0 /\ result = "none"
  /\ processes = [k \in Stages |-> 0]
  /\ signalled = {} /\ missed = {}
=============================================================================
