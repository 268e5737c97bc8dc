------------------------------ MODULE ObjectDb ------------------------------
(***************************************************************************)
(* hw1.c: a program that keeps named objects in one file.  Reading the     *)
(* file is one step for every object passed, writing it one for every      *)
(* write; between two steps the program may be killed, and a write may     *)
(* come out short.                                                         *)
(***************************************************************************)
EXTENDS DbFile

CONSTANTS Sources,          \* the files there are to import: <<name, contents>>
          Patterns,         \* what is searched for; <<>> is "*"
          Faults,           \* of "kill", "full" (the disk), "short" (a write), "shrink" (a source)
          MaxCommands,      \* bound: commands given
          MaxFaults         \* bound: faults that strike

(* The length of a file is an off_t.                                       *)
ASSUME DbAssumption ==
  /\ Sources \subseteq Seq(Byte \ {0}) \X {c \in Seq(Byte) : Len(c) \in off_t}
  /\ Faults \subseteq {"kill", "full", "short", "shrink"}
  /\ MaxCommands \in Nat /\ MaxFaults \in Nat

Names    == {s[1] : s \in Sources}
Contents == {s[2] : s \in Sources}

VARIABLES
  made,     \* whether the file exists
  db,       \* the file
  pc,       \* "off", "menu", "walk", "write", "move", "truncate", "spin"
  cmd,      \* the command: its kind, name or pattern, and contents
  pos,      \* the offset of the walk over the objects
  seen,     \* the names find has shown
  todo,     \* byte strings still to be written
  src, dst, left,  \* delete: what is moved, whither, how much
  size,     \* delete: the object's length
  commands, faults,  \* counted
  answer,   \* history: the outcome of the last command that has ended
  stable,   \* history: the file when it was last left alone
  intact    \* history: whether all changes to the file have been finished

walk    == <<pos, seen>>
moving  == <<src, dst, left, size>>
counts  == <<commands, faults>>
history == <<answer, stable, intact>>
vars    == <<made, db, pc, cmd, walk, todo, moving, counts, history>>

NoCommand == [kind |-> "none", name |-> <<>>, bytes |-> <<>>]
NoAnswer  == [kind |-> "none", name |-> <<>>, said |-> "none", bytes |-> <<>>, names |-> {}]

Init ==
  /\ made = FALSE /\ db = <<>> /\ pc = "off" /\ cmd = NoCommand
  /\ pos = 0 /\ seen = {} /\ todo = <<>>
  /\ src = 0 /\ dst = 0 /\ left = 0 /\ size = 0
  /\ commands = 0 /\ faults = 0
  /\ answer = NoAnswer /\ stable = <<>> /\ intact = TRUE

(* Variables of a command that is over hold nothing.                       *)
Idle ==
  /\ cmd' = NoCommand /\ pos' = 0 /\ seen' = {} /\ todo' = <<>>
  /\ src' = 0 /\ dst' = 0 /\ left' = 0 /\ size' = 0

Strike(fault) == fault \in Faults /\ faults < MaxFaults /\ faults' = faults + 1

-----------------------------------------------------------------------------
(* Back to the menu.                                                       *)
Finish(said, bytes, names) ==
  /\ pc' = "menu" /\ Idle
  /\ answer' = IF cmd.kind = "open" THEN answer
               ELSE [kind |-> cmd.kind, name |-> cmd.name, said |-> said, bytes |-> bytes, names |-> names]
  /\ stable' = IF intact THEN db' ELSE stable
  /\ UNCHANGED <<made, commands, intact>>

(* A command that fails ends the program.                                  *)
Fail ==
  /\ pc' = "off" /\ Idle
  /\ intact' = (intact /\ db' = stable /\ cmd.kind # "open")
  /\ UNCHANGED <<made, commands, answer, stable>>

Ends(said, bytes, names) == UNCHANGED <<db, faults>> /\ Finish(said, bytes, names)

Breaks == UNCHANGED <<db, faults>> /\ Fail

Spin ==
  /\ pc' = "spin"
  /\ UNCHANGED <<made, db, cmd, walk, todo, moving, counts, history>>

-----------------------------------------------------------------------------
check_magic_number(file) == Len(file) >= Len(Magic) /\ SubSeq(file, 1, Len(Magic)) = Magic

(* A new file gets the magic number; one without it is refused, and a file *)
(* that ends inside it is read for ever.                                   *)
open_database_file ==
  /\ pc = "off"
  /\ \/ /\ ~made
        /\ made' = TRUE /\ pc' = "write" /\ todo' = <<Magic>> /\ cmd' = [NoCommand EXCEPT !.kind = "open"]
        /\ UNCHANGED <<db, walk, moving, counts, history>>
     \/ /\ made /\ safe_read(db, 0, Len(Magic)) = "spin" /\ Spin
     \/ /\ made /\ safe_read(db, 0, Len(Magic)) # "spin"
        /\ pc' = IF check_magic_number(db) THEN "menu" ELSE "off"
        /\ UNCHANGED <<made, db, cmd, walk, todo, moving, counts, history>>

(* The menu.                                                               *)
Command(kind, name, bytes) ==
  /\ pc = "menu" /\ commands < MaxCommands
  /\ commands' = commands + 1
  /\ cmd' = [kind |-> kind, name |-> name, bytes |-> bytes]
  /\ pos' = Len(Magic) /\ pc' = "walk"
  /\ UNCHANGED <<made, db, seen, todo, moving, faults, history>>

Commands ==
  \/ \E s \in Sources : Command("import", s[1], s[2])
  \/ \E n \in Names : Command("export", n, <<>>) \/ Command("delete", n, <<>>)
  \/ \E p \in Patterns : Command("find", p, <<>>)

Quit ==
  /\ pc = "menu" /\ pc' = "off"
  /\ UNCHANGED <<made, db, cmd, walk, todo, moving, counts, history>>

-----------------------------------------------------------------------------
(* strstr                                                                  *)
Occurs(pattern, name) ==
  \E i \in 0 .. Len(name) : IsPrefix(pattern, SubSeq(name, i + 1, Len(name)))

(* FAULT: the end of the file does not stop the walk.                      *)
find_past_end ==
  /\ pc = "walk" /\ cmd.kind = "find"
  /\ \E t \in traverse_object(db, pos) :
       \/ t.is = "spin" /\ Spin
       \/ t.is = "error" /\ Breaks
       \/ /\ t.is \in {"object", "end"}
          /\ pos' = t.next
          /\ seen' = IF Occurs(cmd.name, t.name) THEN seen \cup {t.name} ELSE seen
          /\ UNCHANGED <<made, db, pc, cmd, todo, moving, counts, history>>

(* print_all_objects and print_related_objects: one object further.        *)
find_object ==
  /\ pc = "walk" /\ cmd.kind = "find"
  /\ \E t \in traverse_object(db, pos) :
       \/ t.is = "end" /\ Ends("done", <<>>, seen)
       \/ t.is = "spin" /\ Spin
       \/ t.is = "error" /\ Breaks
       \/ /\ t.is = "object"
          /\ pos' = t.next
          /\ seen' = IF Occurs(cmd.name, t.name) THEN seen \cup {t.name} ELSE seen
          /\ UNCHANGED <<made, db, pc, cmd, todo, moving, counts, history>>

(* The object is at place: its name is skipped, its size read, and the     *)
(* contents sent to a file, which must not exist yet.                      *)
export_object(place) ==
  LET o    == place + Len(cmd.name) + 1
      from == IF safe_read(db, o, SizeBytes) = "read" THEN o + SizeBytes ELSE o
  IN \/ Ends("exists", <<>>, {})
     \/ safe_read(db, o, SizeBytes) = "spin" /\ Spin
     \/ \E n \in SizesAt(db, o) :
          IF TransferSpins(db, from, n) THEN Spin
          ELSE Ends(IF from + n <= Len(db) THEN "done" ELSE "garbage",
                    SubSeq(db, from + 1, Min({from + n, Len(db)})), {})

(* FAULT: the rest is moved to one byte in front of the object.            *)
delete_moves_off(t) ==
  LET rest == Len(db) - t.next
  IN IF rest <= 0 THEN pc' = "truncate" /\ UNCHANGED <<src, dst, left>>
     ELSE pc' = "move" /\ src' = t.next /\ dst' = t.next - t.bytes - 1 /\ left' = rest

(* What follows the object is to be moved over it.                         *)
DeleteMoves(t) ==
  LET rest == Len(db) - t.next
  IN IF rest <= 0 THEN pc' = "truncate" /\ UNCHANGED <<src, dst, left>>
     ELSE pc' = "move" /\ src' = t.next /\ dst' = t.next - t.bytes /\ left' = rest

(* The object at place is traversed again; only an error stops it here: at *)
(* the end of the file it goes on with END_FILE for a length.              *)
delete_object(place) ==
  \E t \in traverse_object(db, place) :
    \/ t.is = "spin" /\ Spin
    \/ t.is = "error" /\ Breaks
    \/ t.is \in {"end", "object"} /\ t.next < Len(db) /\ t.next < t.bytes /\ Breaks
    \/ /\ t.is \in {"end", "object"} /\ (t.next >= Len(db) \/ t.next >= t.bytes)
       /\ DeleteMoves(t) /\ size' = t.bytes
       /\ UNCHANGED <<made, db, cmd, walk, todo, counts, history>>

(* import_object appends a name, a size and the contents.                  *)
NotFound ==
  IF cmd.kind # "import" THEN Ends("missing", <<>>, {})
  ELSE /\ todo' = Pieces(<<cmd.name, cmd.bytes>>) /\ pc' = "write"
       /\ UNCHANGED <<made, db, cmd, walk, moving, counts, history>>

Found(place) ==
  \/ place < 0 /\ Breaks
  \/ place >= 0 /\ cmd.kind = "import" /\ Ends("exists", <<>>, {})
  \/ place >= 0 /\ cmd.kind = "export" /\ export_object(place)
  \/ place >= 0 /\ cmd.kind = "delete" /\ delete_object(place)

(* FAULT: a name that begins with the one looked for is taken for it.      *)
same_beginning(name) == IsPrefix(cmd.name, name)

SameName(name) == name = cmd.name

(* One object further; from the end of the object with the name it goes    *)
(* back by the length it has passed.                                       *)
locate_object ==
  /\ pc = "walk" /\ cmd.kind # "find"
  /\ \E t \in traverse_object(db, pos) :
       \/ t.is = "end" /\ NotFound
       \/ t.is = "spin" /\ Spin
       \/ t.is = "error" /\ Breaks
       \/ t.is = "object" /\ SameName(t.name) /\ Found(t.next - t.bytes)
       \/ /\ t.is = "object" /\ ~SameName(t.name)
          /\ pos' = t.next
          /\ UNCHANGED <<made, db, pc, cmd, seen, todo, moving, counts, history>>

-----------------------------------------------------------------------------
(* The database is opened with O_APPEND: a write goes to the end of the    *)
(* file whatever safe_write has done to the offset.                        *)
safe_write ==
  /\ pc = "write"
  /\ db' = db \o Head(todo) /\ UNCHANGED faults
  /\ IF Len(todo) = 1 THEN Finish("done", <<>>, {})
     ELSE /\ todo' = Tail(todo)
          /\ UNCHANGED <<made, pc, cmd, walk, moving, commands, history>>

(* A short write: safe_write goes back and writes everything again, behind *)
(* what it has just written.                                               *)
ShortWrite ==
  /\ pc = "write" /\ Strike("short")
  /\ \E n \in 1 .. Len(Head(todo)) - 1 : db' = db \o SubSeq(Head(todo), 1, n)
  /\ intact' = FALSE
  /\ UNCHANGED <<made, pc, cmd, walk, todo, moving, commands, answer, stable>>

(* The disk is full: some of the bytes, and then an error.                 *)
DiskFull ==
  /\ pc = "write" /\ Strike("full")
  /\ \E n \in 0 .. Len(Head(todo)) - 1 : db' = db \o SubSeq(Head(todo), 1, n)
  /\ Fail

(* FAULT: reader and writer share one offset.                              *)
transfer_one_offset ==
  /\ pc = "move"
  /\ LET n == Min({BlockSize, left})
     IN /\ db' = [i \in DOMAIN db |-> IF i \in src + n + 1 .. src + 2 * n THEN db[i - n] ELSE db[i]]
        /\ src' = src + n /\ dst' = dst + n /\ left' = left - n
        /\ pc' = IF left = n THEN "truncate" ELSE "move"
  /\ UNCHANGED <<made, cmd, walk, todo, size, counts, history>>

(* The file that is imported gets shorter after its size was written.      *)
(* Inside a block safe_read spins; at the end it says END_FILE, which      *)
(* transfer_data does not notice: what the buffer holds goes out instead,  *)
(* the last block or, before the first, anything (bound: all bytes alike). *)
SourceShrinks ==
  LET blocks == Len(Pieces(<<cmd.name, cmd.bytes>>)) - 2 IN
  /\ pc = "write" /\ cmd.kind = "import" /\ Len(todo) <= blocks
  /\ Strike("shrink") /\ intact' = FALSE
  /\ \/ Len(Head(todo)) > 1 /\ pc' = "spin" /\ UNCHANGED todo
     \/ \E buffer \in (IF Len(todo) = blocks THEN {[i \in 1 .. BlockSize |-> b] : b \in Byte}
                       ELSE {SubSeq(db, Len(db) - BlockSize + 1, Len(db))}) :
          /\ todo' = [i \in DOMAIN todo |-> SubSeq(buffer, 1, Len(todo[i]))]
          /\ UNCHANGED pc
  /\ UNCHANGED <<made, db, cmd, walk, moving, commands, answer, stable>>

(* transfer_data within the file, one block: read at src, write at dst.    *)
(* The remainder comes last.                                               *)
transfer_data ==
  /\ pc = "move"
  /\ LET n == Min({BlockSize, left})
     IN /\ db' = [i \in DOMAIN db |-> IF i \in dst + 1 .. dst + n THEN db[src + i - dst] ELSE db[i]]
        /\ src' = src + n /\ dst' = dst + n /\ left' = left - n
        /\ pc' = IF left = n THEN "truncate" ELSE "move"
  /\ UNCHANGED <<made, cmd, walk, todo, size, counts, history>>

(* FAULT: the object's NUL stays.                                          *)
ftruncate_less ==
  /\ pc = "truncate" /\ UNCHANGED faults
  /\ IF size > Len(db) THEN UNCHANGED db /\ Fail
     ELSE db' = SubSeq(db, 1, Len(db) - size + 1) /\ Finish("done", <<>>, {})

(* Whatever was moved, the file loses the length of the object.            *)
ftruncate ==
  /\ pc = "truncate" /\ UNCHANGED faults
  /\ IF size > Len(db) THEN UNCHANGED db /\ Fail
     ELSE db' = SubSeq(db, 1, Len(db) - size) /\ Finish("done", <<>>, {})

(* The program is killed; out of an endless loop that is the only way.     *)
Kill ==
  /\ pc # "off" /\ UNCHANGED db
  /\ IF pc = "spin" THEN UNCHANGED faults ELSE Strike("kill")
  /\ Fail

-----------------------------------------------------------------------------
Program ==
  \/ find_object \/ locate_object \/ safe_write \/ transfer_data \/ ftruncate

Next ==
  \/ open_database_file \/ Commands \/ Quit \/ Program
  \/ ShortWrite \/ DiskFull \/ SourceShrinks \/ Kill

Spec == Init /\ [][Next]_vars

(* The program goes on with what it has been told; nobody has to tell it   *)
(* anything.                                                               *)
FairSpec == Spec /\ WF_vars(Program)

-----------------------------------------------------------------------------
TypeOK ==
  /\ made \in BOOLEAN /\ db \in Seq(Byte)
  /\ pc \in {"off", "menu", "walk", "write", "move", "truncate", "spin"}
  /\ cmd \in [kind : {"none", "open", "import", "export", "find", "delete"},
             name : Names \cup Patterns \cup {<<>>}, bytes : Contents \cup {<<>>}]
  /\ {pos, src, dst, left, size} \subseteq Nat
  /\ seen \subseteq Seq(Byte \ {0}) /\ todo \in Seq(Seq(Byte))
  /\ commands \in 0 .. MaxCommands /\ faults \in 0 .. MaxFaults
  /\ intact \in BOOLEAN

(* hw1.c:118, 220, 475: between two commands the file is the encoding of   *)
(* the objects that are in it, byte for byte, and no name is there twice.  *)
FileWellFormed ==
  intact /\ pc = "menu" =>
    LET objects == Decode(db)
    IN /\ db = File(objects) /\ stable = db
       /\ \A i, j \in DOMAIN objects : objects[i][1] = objects[j][1] => i = j

(* hw1.c:275-289: while the rest of the file is moved over an object, what *)
(* has been moved and what has not make up the file without the object:    *)
(* no block is written over before it has been read.                       *)
MoveLosesNothing ==
  intact /\ pc = "move" =>
    LET objects == Decode(stable)
    IN \E i \in DOMAIN objects :
         /\ objects[i][1] = cmd.name
         /\ SubSeq(db, 1, dst) \o SubSeq(db, src + 1, Len(db)) = File(RemoveAt(objects, i))

(* hw1.c:283, 513-528: whatever spoils a change, the objects in front of   *)
(* the one that is changed (all of them, when it is imported) can still be *)
(* read.                                                                   *)
InFront ==
  LET objects == Decode(stable)
  IN SubSeq(objects, 1, Min({Len(objects) + 1} \cup {i \in DOMAIN objects : objects[i][1] = cmd.name}) - 1)

CrashSparesWhatIsInFront == [][intact /\ ~intact' => IsPrefix(InFront, Decode(db'))]_vars

Store == INSTANCE ObjectStore WITH objects <- Decode(stable)

(* The file keeps the objects; every answer is the one the objects give.   *)
ImplementsStore == Store!Spec

(* hw1.c:821: a command given to an intact file ends; only reading one     *)
(* that an unfinished change has left behind can go on for ever.           *)
CommandsEnd == (pc \notin {"off", "menu"}) ~> (pc \in {"off", "menu"} \/ ~intact)
=============================================================================
