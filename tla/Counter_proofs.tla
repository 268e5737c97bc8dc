----------------------------- MODULE Counter_proofs -----------------------------
(***************************************************************************)
(* Theorems about Counter for any number of repetitions and of signals.    *)
(***************************************************************************)
EXTENDS Counter, TLAPS

USE CounterAssumption DEF args

CounterPc == {"compare", "wait", "check", "zero", "reset", "print", "half", "load", "store", "done"}

(* What every variable holds; SIGUSR1 is blocked with "-b 1" only.         *)
TypeInv ==
  /\ repetitions \in Nat \ {0} /\ block_mode \in {0, 1}
  /\ counter \in Int /\ reg \in Int /\ pc \in CounterPc
  /\ blocked \in {0, 1} /\ (blocked = 1 => block_mode = 1)
  /\ alrm \in {0, 1} /\ usr1 \in {0, 1} /\ sent \in Nat
  /\ printed \in Int /\ lines \in Nat

LEMMA CounterTypes == TypeInv /\ [Next]_vars => TypeInv'
<1> SUFFICES ASSUME TypeInv, [Next]_vars PROVE TypeInv'
  OBVIOUS
<1> USE DEF TypeInv, CounterPc
<1>1. CASE Compare \/ Wait \/ Check
  BY <1>1 DEF Compare, Wait, Check
<1>2. CASE PrintZero \/ PrintCounter
  <2>1. lines' \in Nat /\ printed' \in Int
    BY <1>2 DEF PrintZero, PrintCounter, ShowLine
  <2> QED BY <1>2, <2>1 DEF PrintZero, PrintCounter
<1>3. CASE Reset \/ Load \/ Store
  BY <1>3 DEF Reset, Load, Store
<1>4. CASE Half
  BY <1>4 DEF Half
<1>5. CASE Tick \/ sigusr1_handler
  BY <1>5 DEF Tick, sigusr1_handler
<1>6. CASE UNCHANGED vars
  BY <1>6 DEF vars
<1> QED BY <1>1, <1>2, <1>3, <1>4, <1>5, <1>6 DEF Next, Program

-----------------------------------------------------------------------------
(* Where the counter stands to the line before: at the loop's head and     *)
(* until it is printed it has gone on by one, or has been set back; from   *)
(* the printing to the store it is what was printed, or the -1 of a handler*)
(* that has run since.                                                     *)
Follows ==
  /\ pc \in {"compare", "wait", "check", "print"} => counter \in {-1, 0, printed + 1}
  /\ pc \in {"zero", "reset"} => counter = -1
  /\ pc = "reset" => printed = 0
  /\ pc \in {"half", "load", "store"} => counter \in {-1, printed}
  /\ pc = "store" => reg \in {-1, printed}

LEMMA FollowsStep == TypeInv /\ Follows /\ [Next]_vars => Follows'
<1> SUFFICES ASSUME TypeInv, Follows, [Next]_vars PROVE Follows'
  OBVIOUS
<1> USE DEF Follows
<1>1. CASE Compare \/ Wait \/ Check
  BY <1>1 DEF Compare, Wait, Check
<1>2. CASE PrintZero \/ PrintCounter
  BY <1>2 DEF PrintZero, PrintCounter, ShowLine
<1>3. CASE Reset
  BY <1>3 DEF Reset
<1>4. CASE Half
  BY <1>4 DEF Half
<1>5. CASE Load
  BY <1>5 DEF Load
<1>6. CASE Store
  BY <1>6 DEF Store, TypeInv
<1>7. CASE Tick \/ sigusr1_handler
  BY <1>7 DEF Tick, sigusr1_handler
<1>8. CASE UNCHANGED vars
  BY <1>8 DEF vars
<1> QED BY <1>1, <1>2, <1>3, <1>4, <1>5, <1>6, <1>7, <1>8 DEF Next, Program

-----------------------------------------------------------------------------
(* The number of lines of the first half.  The two tests of test.c:91-92   *)
(* (an even maximum, an odd one) are one: the last line of the first half  *)
(* has been printed.                                                       *)
FirstHalf == (repetitions + 1) \div 2

LEMMA HalfIsFirstHalf ==
  ASSUME TypeInv
  PROVE  /\ FirstHalf \in 1 .. repetitions
         /\ HalfWay <=> block_mode = 1 /\ counter = FirstHalf - 1
<1>1. FirstHalf \in 1 .. repetitions
  BY DEF TypeInv, FirstHalf
<1>2. CASE repetitions % 2 = 0
  <2>1. (repetitions + 1) \div 2 = repetitions \div 2
    BY <1>2 DEF TypeInv
  <2> QED BY <1>1, <1>2, <2>1 DEF HalfWay, FirstHalf
<1>3. CASE repetitions % 2 # 0
  <2>1. (repetitions + 1) \div 2 = (repetitions \div 2) + 1
    BY <1>3 DEF TypeInv
  <2>2. (repetitions + 1) \div 2 - 1 = repetitions \div 2
    BY <2>1 DEF TypeInv
  <2> QED BY <1>1, <1>3, <2>2 DEF HalfWay, FirstHalf
<1> QED BY <1>2, <1>3

(* While SIGUSR1 is blocked the counter is the number of lines, or one     *)
(* less once the line is out, and nothing but the loop writes it.  It is   *)
(* unblocked with the last line of the first half, not before it and not   *)
(* after it; what is printed then is of the second half.                   *)
Undisturbed ==
  /\ lines <= FirstHalf
  /\ lines > 0 => printed = lines - 1
  /\ pc \in {"compare", "wait", "check", "print"} => counter = lines /\ lines < FirstHalf
  /\ pc \in {"half", "load", "store"} => counter = lines - 1 /\ lines > 0
  /\ pc \in {"load", "store"} => lines < FirstHalf
  /\ pc = "store" => reg = counter
  /\ pc \notin {"zero", "reset", "done"}

InOrder ==
  block_mode = 1 => IF blocked = 1 THEN Undisturbed
                    ELSE lines >= FirstHalf /\ (lines = FirstHalf => printed = lines - 1)

LEMMA InOrderInit == Init => InOrder
<1> SUFFICES ASSUME Init PROVE InOrder
  OBVIOUS
<1>1. FirstHalf \in Nat \ {0}
  BY DEF Init, FirstHalf
<1>2. lines = 0 /\ pc = "compare" /\ counter = 0 /\ blocked = block_mode
  BY DEF Init
<1> QED BY <1>1, <1>2 DEF InOrder, Undisturbed

LEMMA InOrderStep == TypeInv /\ InOrder /\ [Next]_vars => InOrder'
<1> SUFFICES ASSUME TypeInv, InOrder, [Next]_vars PROVE InOrder'
  OBVIOUS
<1>1. UNCHANGED args
  BY DEF Next, Program, Compare, Wait, Check, PrintZero, Reset, PrintCounter, Half, Load, Store,
         Tick, sigusr1_handler, vars
<1>2. FirstHalf' = FirstHalf /\ FirstHalf \in 1 .. repetitions
  BY <1>1, HalfIsFirstHalf DEF FirstHalf
<1> USE DEF InOrder, Undisturbed
<1> SUFFICES ASSUME block_mode = 1 PROVE InOrder'
  BY <1>1
<1>3. CASE Compare
  BY <1>2, <1>3 DEF Compare, TypeInv
<1>4. CASE Wait \/ Check \/ Tick
  BY <1>2, <1>4 DEF Wait, Check, Tick, TypeInv
<1>5. CASE PrintZero \/ PrintCounter
  <2>1. UNCHANGED <<counter, reg, blocked>> /\ pc \in {"zero", "print"} /\ (pc = "print" => pc' = "half")
        /\ (pc = "print" => printed' = counter)
        /\ lines' = IF lines <= repetitions THEN lines + 1 ELSE lines
    BY <1>5 DEF PrintZero, PrintCounter, ShowLine
  <2>2. CASE blocked = 1
    BY <1>2, <2>1, <2>2 DEF TypeInv
  <2>3. CASE blocked = 0
    BY <1>2, <2>1, <2>3 DEF TypeInv
  <2> QED BY <2>2, <2>3 DEF TypeInv
<1>6. CASE Reset
  BY <1>2, <1>6 DEF Reset, TypeInv
<1>7. CASE Half
  <2>1. CASE HalfWay
    <3>1. blocked' = 0 /\ UNCHANGED <<lines, printed>> /\ counter = FirstHalf - 1 /\ pc = "half"
      BY <1>7, <2>1, HalfIsFirstHalf DEF Half
    <3> QED BY <1>1, <1>2, <3>1 DEF TypeInv
  <2>2. CASE ~HalfWay
    <3>1. /\ UNCHANGED <<blocked, lines, printed, counter, reg>> /\ counter # FirstHalf - 1
          /\ pc = "half" /\ pc' = "load"
      BY <1>7, <2>2, HalfIsFirstHalf DEF Half
    <3> QED BY <1>2, <3>1 DEF TypeInv
  <2> QED BY <2>1, <2>2
<1>8. CASE Load
  BY <1>2, <1>8 DEF Load, TypeInv
<1>9. CASE Store
  BY <1>2, <1>9 DEF Store, TypeInv
<1>10. CASE sigusr1_handler
  BY <1>2, <1>10 DEF sigusr1_handler, TypeInv
<1>11. CASE UNCHANGED vars
  BY <1>2, <1>11 DEF vars
<1> QED BY <1>3, <1>4, <1>5, <1>6, <1>7, <1>8, <1>9, <1>10, <1>11 DEF Next, Program

-----------------------------------------------------------------------------
CounterInv == TypeInv /\ Follows /\ InOrder

LEMMA CounterInvAlways == Spec => []CounterInv
<1>1. Init => CounterInv
  <2>1. Init => TypeInv /\ Follows
    BY DEF Init, TypeInv, CounterPc, Follows
  <2> QED BY <2>1, InOrderInit DEF CounterInv
<1>2. CounterInv /\ [Next]_vars => CounterInv'
  BY CounterTypes, FollowsStep, InOrderStep DEF CounterInv
<1> QED BY <1>1, <1>2, PTL DEF Spec

(* Wherever the handler strikes, inside counter++ included, a line goes on *)
(* from the one before or starts again, or shows the -1 of a handler that  *)
(* ran between the test and the printing (test.c:82-87).                   *)
THEOREM LinesGoOnByOne == Spec => StepsByOne
<1>1. CounterInv /\ [Next]_vars => [printed' \in {printed, printed + 1, 0, -1}]_printed
  <2> SUFFICES ASSUME CounterInv, [Next]_vars, printed' # printed
               PROVE  printed' \in {printed, printed + 1, 0, -1}
    OBVIOUS
  <2>1. PrintZero \/ PrintCounter
    BY DEF Next, Program, Compare, Wait, Check, Reset, Half, Load, Store, Tick, sigusr1_handler, vars
  <2>2. CASE PrintZero
    BY <2>2 DEF PrintZero, ShowLine
  <2>3. CASE PrintCounter
    BY <2>3 DEF PrintCounter, ShowLine, CounterInv, Follows
  <2> QED BY <2>1, <2>2, <2>3
<1> QED BY <1>1, CounterInvAlways, PTL DEF Spec, StepsByOne

(* With "-b 1" the lines of the first half are 0, 1, 2, ..., however many  *)
(* SIGUSR1s arrive, for every maximum (test.c:89).                         *)
THEOREM FirstHalfUndisturbed == Spec => []FirstHalfInOrder
<1>1. CounterInv => FirstHalfInOrder
  <2> SUFFICES ASSUME CounterInv, block_mode = 1, lines \in 1 .. FirstHalf PROVE printed = lines - 1
    BY DEF FirstHalfInOrder, FirstHalf
  <2>1. FirstHalf \in Nat
    BY HalfIsFirstHalf DEF CounterInv
  <2> QED BY <2>1 DEF CounterInv, InOrder, Undisturbed, TypeInv
<1> QED BY <1>1, CounterInvAlways, PTL

=============================================================================
