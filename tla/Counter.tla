------------------------------- MODULE Counter -------------------------------
(***************************************************************************)
(* hw4/test.c: a process that prints its counter every five seconds and    *)
(* whose SIGUSR1 handler sets the counter to -1, to be taken for 0.  The   *)
(* handler runs between any two accesses to the counter, those of          *)
(* counter++ included; with "-b 1" SIGUSR1 is blocked until half of the    *)
(* repetitions have been printed.                                          *)
(***************************************************************************)
EXTENDS Integers

CONSTANTS Repetitions,  \* the values of -m
          MaxSignals    \* bound: SIGUSR1s sent

ASSUME CounterAssumption == Repetitions \subseteq Nat \ {0} /\ MaxSignals \in Nat

VARIABLES
  repetitions, block_mode,   \* the arguments
  counter,
  reg,       \* the value counter++ has loaded
  pc,
  blocked,   \* whether SIGUSR1 is blocked (0 or 1)
  alrm, usr1,  \* whether the signals are pending
  sent,      \* SIGUSR1s sent so far
  printed,   \* history: the last value printed, -2 before the first
  lines      \* history: lines printed, counted up to one more than the maximum

args == <<repetitions, block_mode>>
vars == <<args, counter, reg, pc, blocked, alrm, usr1, sent, printed, lines>>

-----------------------------------------------------------------------------
Init ==
  /\ repetitions \in Repetitions /\ block_mode \in {0, 1}
  /\ counter = 0 /\ reg = 0 /\ pc = "compare"
  /\ blocked = block_mode /\ alrm = 0 /\ usr1 = 0 /\ sent = 0
  /\ printed = -2 /\ lines = 0

(* FAULT: one repetition too many.                                         *)
CompareInclusive ==
  /\ pc = "compare"
  /\ pc' = IF counter <= repetitions THEN "wait" ELSE "done"
  /\ UNCHANGED <<args, counter, reg, blocked, alrm, usr1, sent, printed, lines>>

(* The loop's condition, then sigwait, which takes the pending SIGALRM.    *)
Compare ==
  /\ pc = "compare"
  /\ pc' = IF counter < repetitions THEN "wait" ELSE "done"
  /\ UNCHANGED <<args, counter, reg, blocked, alrm, usr1, sent, printed, lines>>

Wait ==
  /\ pc = "wait" /\ alrm = 1
  /\ alrm' = 0 /\ pc' = "check"
  /\ UNCHANGED <<args, counter, reg, blocked, usr1, sent, printed, lines>>

(* The test of the counter and the printing are two reads of it.           *)
Check ==
  /\ pc = "check"
  /\ pc' = IF counter = -1 THEN "zero" ELSE "print"
  /\ UNCHANGED <<args, counter, reg, blocked, alrm, usr1, sent, printed, lines>>

(* One line of output.                                                     *)
ShowLine(value) ==
  /\ printed' = value
  /\ lines' = IF lines <= repetitions THEN lines + 1 ELSE lines

PrintZero ==
  /\ pc = "zero"
  /\ ShowLine(0) /\ pc' = "reset"
  /\ UNCHANGED <<args, counter, reg, blocked, alrm, usr1, sent>>

(* FAULT: the counter goes on from where it was.                           *)
ResetToPrinted ==
  /\ pc = "reset"
  /\ counter' = counter + 2 /\ pc' = "half"
  /\ UNCHANGED <<args, reg, blocked, alrm, usr1, sent, printed, lines>>

Reset ==
  /\ pc = "reset"
  /\ counter' = 0 /\ pc' = "half"
  /\ UNCHANGED <<args, reg, blocked, alrm, usr1, sent, printed, lines>>

PrintCounter ==
  /\ pc = "print"
  /\ ShowLine(counter) /\ pc' = "half"
  /\ UNCHANGED <<args, counter, reg, blocked, alrm, usr1, sent>>

(* After half of them SIGUSR1 is unblocked, and delivered if pending.      *)
HalfWay ==
  block_mode = 1 /\ counter = (IF repetitions % 2 = 0 THEN repetitions \div 2 - 1 ELSE repetitions \div 2)

(* FAULT: unblocked at once.                                               *)
HalfAtOnce ==
  /\ pc = "half"
  /\ pc' = "load"
  /\ blocked' = 0
  /\ IF usr1 = 1 THEN counter' = -1 /\ usr1' = 0 ELSE UNCHANGED <<counter, usr1>>
  /\ UNCHANGED <<args, reg, alrm, sent, printed, lines>>

Half ==
  /\ pc = "half"
  /\ pc' = "load"
  /\ blocked' = IF HalfWay THEN 0 ELSE blocked
  /\ IF HalfWay /\ usr1 = 1 THEN counter' = -1 /\ usr1' = 0 ELSE UNCHANGED <<counter, usr1>>
  /\ UNCHANGED <<args, reg, alrm, sent, printed, lines>>

(* counter++ *)
Load ==
  /\ pc = "load"
  /\ reg' = counter /\ pc' = "store"
  /\ UNCHANGED <<args, counter, blocked, alrm, usr1, sent, printed, lines>>

Store ==
  /\ pc = "store"
  /\ counter' = reg + 1 /\ pc' = "compare"
  /\ UNCHANGED <<args, reg, blocked, alrm, usr1, sent, printed, lines>>

(* The timer goes off; somebody sends SIGUSR1, and sigusr1_handler runs    *)
(* unless it is blocked.                                                   *)
Tick ==
  /\ pc # "done" /\ alrm = 0
  /\ alrm' = 1
  /\ UNCHANGED <<args, counter, reg, pc, blocked, usr1, sent, printed, lines>>

sigusr1_handler ==
  /\ pc # "done" /\ sent < MaxSignals
  /\ sent' = sent + 1
  /\ IF blocked = 1 THEN usr1' = 1 /\ UNCHANGED counter
     ELSE counter' = -1 /\ UNCHANGED usr1
  /\ UNCHANGED <<args, reg, pc, blocked, alrm, printed, lines>>

Program ==
  \/ Compare \/ Wait \/ Check \/ PrintZero \/ Reset \/ PrintCounter \/ Half \/ Load \/ Store

Next == Program \/ Tick \/ sigusr1_handler \/ (pc = "done" /\ UNCHANGED vars)

Spec == Init /\ [][Next]_vars

(* The process is scheduled and its timer goes off.                        *)
FairSpec == Spec /\ WF_vars(Program) /\ WF_vars(Tick)

-----------------------------------------------------------------------------
(* Whatever the handler interrupts, a line goes on from the one before or  *)
(* starts again; -1 itself shows when the handler comes between the test   *)
(* and the printing (test.c:82-87).                                        *)
StepsByOne == [][printed' \in {printed, printed + 1, 0, -1}]_printed

(* test.c:89: with "-b 1" no SIGUSR1 disturbs the first half: its lines    *)
(* are 0, 1, 2, ...                                                        *)
FirstHalfInOrder ==
  block_mode = 1 /\ lines \in 1 .. (repetitions + 1) \div 2 => printed = lines - 1

(* test.c:75, 87: the program ends if SIGUSR1 stops coming, and the last   *)
(* line it has shown is the maximum.                                       *)
Ends == <>(pc = "done" /\ printed = repetitions - 1)
=============================================================================
