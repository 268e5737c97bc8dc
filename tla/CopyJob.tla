------------------------------ MODULE CopyJob ------------------------------
(***************************************************************************)
(* What hw2 promises of one command, children and pipes apart: the files   *)
(* of a source are copied in order, each once, and success is reported     *)
(* when all of them have been.  The copy of a file that changes meanwhile  *)
(* may be spoilt as it is made, and one copy more when the job fails or    *)
(* its input is not whole.  A job that fails may stop anywhere, and may go *)
(* on copying after it has said so.                                        *)
(***************************************************************************)
EXTENDS Sequences, Naturals, Functions

VARIABLES
  source,   \* the files to copy
  unsteady, \* those that may change while they are copied
  whole,    \* whether the input is complete
  copied,   \* the files copied
  spoilt,   \* those whose copy is not what the file was
  outcome   \* "none" yet, "success", "failure"

input == <<source, unsteady, whole>>

Init ==
  /\ copied = <<>> /\ spoilt = {}
  /\ outcome = "none"

(* The next file: everything in front of it has been copied.               *)
Due(f) ==
  /\ f \in source \ Range(copied)
  /\ \A g \in source : g < f => g \in Range(copied)

Copy ==
  /\ outcome # "success"
  /\ \E f \in source :
       /\ Due(f) /\ copied' = Append(copied, f)
       /\ \/ spoilt' = spoilt
          \/ f \in unsteady /\ spoilt' = spoilt \cup {f}
  /\ UNCHANGED <<input, outcome>>

(* At most one, which is then no success of a whole input.                 *)
Spoil ==
  /\ outcome # "success" /\ spoilt \subseteq unsteady
  /\ \E f \in Range(copied) : spoilt' = spoilt \cup {f}
  /\ UNCHANGED <<input, copied, outcome>>

Succeed ==
  /\ outcome = "none" /\ Range(copied) = source
  /\ whole => spoilt \subseteq unsteady
  /\ outcome' = "success"
  /\ UNCHANGED <<input, copied, spoilt>>

Fail ==
  /\ outcome = "none"
  /\ outcome' = "failure"
  /\ UNCHANGED <<input, copied, spoilt>>

Next == Copy \/ Spoil \/ Succeed \/ Fail

Spec == Init /\ [][Next]_<<input, copied, spoilt, outcome>>
=============================================================================
