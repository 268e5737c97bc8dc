---------------------------- MODULE ObjectStore ----------------------------
(***************************************************************************)
(* What hw1 promises: named objects, one step per command, until something *)
(* strikes in the middle of a change to the file.                          *)
(***************************************************************************)
EXTENDS Sequences, SequencesExt, Integers

CONSTANTS Names, Contents, Patterns

VARIABLES objects,  \* <<name, contents>>, in the order of import
          answer,   \* to the last command that has ended
          intact

Known == {objects[i][1] : i \in DOMAIN objects}

(* strstr; the empty pattern stands for "*".                               *)
Occurs(pattern, name) ==
  \E i \in 0 .. Len(name) : IsPrefix(pattern, SubSeq(name, i + 1, Len(name)))

Reply(kind, name, said, bytes, names) ==
  answer' = [kind |-> kind, name |-> name, said |-> said, bytes |-> bytes, names |-> names]

Init ==
  /\ objects = <<>> /\ intact = TRUE
  /\ answer = [kind |-> "none", name |-> <<>>, said |-> "none", bytes |-> <<>>, names |-> {}]

Import(n, c) ==
  IF n \in Known
  THEN Reply("import", n, "exists", <<>>, {}) /\ UNCHANGED objects
  ELSE Reply("import", n, "done", <<>>, {}) /\ objects' = Append(objects, <<n, c>>)

Export(n) ==
  /\ \/ \E i \in DOMAIN objects : objects[i][1] = n /\ Reply("export", n, "done", objects[i][2], {})
     \/ n \in Known /\ Reply("export", n, "exists", <<>>, {})
     \/ n \notin Known /\ Reply("export", n, "missing", <<>>, {})
  /\ UNCHANGED objects

Delete(n) ==
  \/ \E i \in DOMAIN objects :
       objects[i][1] = n /\ Reply("delete", n, "done", <<>>, {}) /\ objects' = RemoveAt(objects, i)
  \/ n \notin Known /\ Reply("delete", n, "missing", <<>>, {}) /\ UNCHANGED objects

Find(p) ==
  /\ Reply("find", p, "done", <<>>, {n \in Known : Occurs(p, n)})
  /\ UNCHANGED objects

Next ==
  \/ /\ intact
     /\ \/ \E n \in Names : (\E c \in Contents : Import(n, c)) \/ Export(n) \/ Delete(n)
        \/ \E p \in Patterns : Find(p)
     /\ UNCHANGED intact
  \/ intact /\ intact' = FALSE /\ UNCHANGED <<objects, answer>>
  \/ ~intact /\ UNCHANGED <<objects, intact>>

Spec == Init /\ [][Next]_<<objects, answer, intact>>
=============================================================================
