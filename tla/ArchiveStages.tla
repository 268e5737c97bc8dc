---------------------------- MODULE ArchiveStages ----------------------------
(***************************************************************************)
(* hw2: the children.  dirlist | p2archive | p2crypt > archive makes an    *)
(* archive, p2crypt < archive | p2unarchive takes it apart.  The cipher is *)
(* left out: p2crypt passes on what it reads.  What dirlist prints waits   *)
(* in stdio's buffer; an item of its pipe is a flushed path.               *)
(***************************************************************************)
EXTENDS ArchiveState

Program(k) ==
  IF mode = "create" THEN <<"dirlist", "p2archive", "p2crypt">>[k]
                     ELSE <<"p2crypt", "p2unarchive">>[k]

(* The first stage has all its input at hand: a directory, or the archive. *)
FirstInput ==
  IF mode = "create" THEN [f \in Files |-> <<f, "path">>] ELSE archive

Runs(k) == k <= StageCount /\ life[k] = "runs"

-----------------------------------------------------------------------------
(* Writing to a pipe blocks while it is full; without a reader it raises   *)
(* SIGPIPE; through a descriptor that has been closed it fails.            *)
WritePipe(k) ==
  /\ UNCHANGED <<restored, part, archive>>
  /\ \/ /\ <<k, "w">> \notin fds[k]
        /\ End(k, "fail") /\ UNCHANGED <<pipe, todo>>
     \/ /\ <<k, "w">> \in fds[k] /\ ~Open(<<k, "r">>)
        /\ End(k, "signal") /\ UNCHANGED <<pipe, todo>>
     \/ /\ <<k, "w">> \in fds[k] /\ Open(<<k, "r">>) /\ Len(pipe[k]) < PipeSize
        /\ pipe' = [pipe EXCEPT ![k] = Append(@, Head(todo[k]))]
        /\ todo' = [todo EXCEPT ![k] = Tail(@)]
        /\ UNCHANGED <<life, how, fds>>

WriteArchive(k) ==
  /\ archive' = Append(archive, Head(todo[k]))
  /\ todo' = [todo EXCEPT ![k] = Tail(@)]
  /\ UNCHANGED <<restored, part, pipe, life, how, fds>>

(* FAULT: what a short write leaves over is forgotten.                     *)
my_write_once(k) ==
  /\ Runs(k) /\ todo[k] # <<>>
  /\ \/ IF mode = "create" /\ k = 3 THEN WriteArchive(k) ELSE WritePipe(k)
     \/ /\ todo' = [todo EXCEPT ![k] = Tail(@)]
        /\ UNCHANGED <<data, pipe, life, how, fds>>

(* my_write goes on until everything is written.                           *)
my_write(k) ==
  /\ Runs(k) /\ todo[k] # <<>>
  /\ IF mode = "create" /\ k = 3 THEN WriteArchive(k) ELSE WritePipe(k)

(* The first stage leaves when it has written everything.                  *)
FirstEnds ==
  /\ Runs(1) /\ todo[1] = <<>>
  /\ End(1, "ok")
  /\ UNCHANGED <<data, pipe, todo>>

-----------------------------------------------------------------------------
AtEnd(k) == pipe[k - 1] = <<>> /\ ~Open(<<k - 1, "w">>)

Reads(k, program) ==
  /\ k > 1 /\ Runs(k) /\ Program(k) = program
  /\ todo[k] = <<>> /\ pipe[k - 1] # <<>>
  /\ pipe' = [pipe EXCEPT ![k - 1] = Tail(@)]

(* What transfer_data sends of a file: END_INPUT of a file that has become *)
(* shorter is no error to it, and as many bytes go out as were announced.  *)
transfer_data(f) ==
  {<<f, "body">>} \cup (IF f \in Shrinking THEN {<<f, "stale">>} ELSE {})

(* FAULT: what is gone from a file is not sent.                            *)
archive_file_short(k) ==
  /\ Reads(k, "p2archive")
  /\ LET f == Head(pipe[k - 1])[1] IN
       IF f \in denied THEN UNCHANGED todo
       ELSE \E body \in transfer_data(f) :
              todo' = [todo EXCEPT ![k] =
                         IF body[2] = "stale" THEN Front(Record(f)) ELSE [Record(f) EXCEPT ![4] = body]]
  /\ UNCHANGED <<data, fds, life, how>>

(* p2archive: a path, then the file's record; a file that may not be read  *)
(* is left out.                                                            *)
archive_file(k) ==
  /\ Reads(k, "p2archive")
  /\ LET f == Head(pipe[k - 1])[1] IN
       IF f \in denied THEN UNCHANGED todo
       ELSE \E body \in transfer_data(f) :
              todo' = [todo EXCEPT ![k] = [Record(f) EXCEPT ![4] = body]]
  /\ UNCHANGED <<data, fds, life, how>>

(* p2crypt *)
Encrypt(k) ==
  /\ Reads(k, "p2crypt")
  /\ todo' = [todo EXCEPT ![k] = <<Head(pipe[k - 1])>>]
  /\ UNCHANGED <<data, fds, life, how>>

(* FAULT: the next record goes on where this one ended.                    *)
reproduce_file_on(k) ==
  /\ Reads(k, "p2unarchive")
  /\ part' = part + 1
  /\ LET f == Head(pipe[k - 1])[1] IN
       restored' = CASE part = 2 -> Append(restored, <<f, "empty">>)
                     [] part = 3 -> [restored EXCEPT ![Len(restored)] = <<f, "good">>]
                     [] OTHER -> restored
  /\ UNCHANGED <<archive, fds, life, how, todo>>

(* p2unarchive: the file is made when its metadata are known, and then     *)
(* filled.                                                                 *)
reproduce_file(k) ==
  /\ Reads(k, "p2unarchive")
  /\ part' = (part + 1) % Len(Parts)
  /\ LET f == Head(pipe[k - 1])[1] IN
       restored' = CASE part = 2 -> Append(restored, <<f, "empty">>)
                     [] part = 3 -> [restored EXCEPT ![Len(restored)] = <<f, "good">>]
                     [] OTHER -> restored
  /\ UNCHANGED <<archive, fds, life, how, todo>>

-----------------------------------------------------------------------------
(* The end of the input.                                                   *)
EndOfInput(k) ==
  /\ k > 1 /\ Runs(k) /\ Program(k) # "p2unarchive"
  /\ todo[k] = <<>> /\ AtEnd(k)
  /\ End(k, "ok")
  /\ UNCHANGED <<data, pipe, todo>>

(* Only the first my_read of reproduce_file asks for END_INPUT; later ones *)
(* go on with what their variables happen to hold.  Without a name the     *)
(* path is the directory's and open fails.  Half a name may be that of a   *)
(* file already there, which open neither refuses nor empties, or may not  *)
(* be written; else a file of that name is made.  Without metadata size,   *)
(* mode and times are any: what is written may be nothing or fill the      *)
(* disk, the times may be refused.  Without a body the buffer goes into    *)
(* the file.                                                               *)
EndOfRecords(k) ==
  /\ k > 1 /\ Runs(k) /\ Program(k) = "p2unarchive" /\ AtEnd(k)
  /\ \/ part = 0 /\ End(k, "ok") /\ UNCHANGED restored
     \/ part = 1 /\ End(k, "fail") /\ UNCHANGED restored
     \/ /\ part = 1 /\ \E status \in {"ok", "fail"} : End(k, status)
        /\ \E i \in DOMAIN restored : restored' = [restored EXCEPT ![i] = <<i, "spoilt">>]
     \/ /\ part \in {1, 2} /\ \E status \in {"ok", "fail"} : End(k, status)
        /\ restored' = Append(restored, <<Len(restored) + 1, "garbage">>)
     \/ /\ part = 3 /\ End(k, "ok")
        /\ restored' = [restored EXCEPT ![Len(restored)][2] = "garbage"]
  /\ UNCHANGED <<archive, part, pipe, todo>>

-----------------------------------------------------------------------------
Stage(k) ==
  \/ my_write(k) \/ archive_file(k) \/ Encrypt(k) \/ reproduce_file(k)
  \/ EndOfInput(k) \/ EndOfRecords(k)
  \/ k = 1 /\ FirstEnds

(* Any call of a stage may fail, and all it does then is return 1; anybody *)
(* may kill it.                                                            *)
StageFails(k) ==
  /\ \/ Alive(k) /\ k \in MayFail /\ End(k, "fail")
     \/ Alive(k) /\ k \in MayDie /\ End(k, "signal")
  /\ UNCHANGED <<data, pipe, todo>>
=============================================================================
