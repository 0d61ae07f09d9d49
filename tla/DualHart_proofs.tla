--------------------------- MODULE DualHart_proofs ---------------------------
(***************************************************************************)
(* For every number of yields and every sequence of images, the tag of the *)
(* instructions stays in step with the thread that runs.                   *)
(***************************************************************************)
EXTENDS DualHart, Integers, TLAPS

Before == {"idle", "init", "spawn"}      \* main, outside ztaDualHartExecute
During == {"start", "func", "wait"}
TaskAt == {"fresh", "start", "func", "wait", "loop"}

\* Process 1 is selected while the task runs, and for a part of ztaInitPcore.
TagInStep ==
  curr_vm_r = IF hart = "task" \/ pc["main"] = "init" THEN 1 ELSE 0

\* The task runs only during an execution, and it is first to be switched to.
SwitchedInTurn ==
  /\ pc["main"] \in Before \cup During /\ pc["task"] \in TaskAt
  /\ pc["main"] \in Before => hart = "main"
  /\ pc["main"] \in During /\ pc["task"] = "fresh" => hart = "task"

\* taskStatus is false only when the task's function has returned.
StatusTells ==
  /\ pc["main"] \in During /\ ~taskStatus => pc["task"] = "loop"
  /\ pc["main"] = "wait" => finished["main"]
  /\ pc["task"] \in {"wait", "loop"} => finished["task"]
  /\ pc["main"] \in Before => finished["main"] /\ finished["task"]

ImageLoaded ==
  pc["main"] # "init" => constants[0] = last_image /\ constants[1] = last_image

IInv == TypeOK /\ TagInStep /\ SwitchedInTurn /\ StatusTells /\ ImageLoaded

LEMMA InitIInv == Init => IInv
  <1> SUFFICES ASSUME Init PROVE IInv OBVIOUS
  <1>1. pc["main"] = "idle" /\ pc["task"] = "fresh" BY DEF Init, Harts
  <1>2. TypeOK
    <2>1. pc \in [Harts -> {"idle", "init", "spawn", "start", "func", "wait",
                            "fresh", "loop"}]
      BY DEF Init, Harts
    <2>2. left \in [Harts -> 0 .. MaxYields] BY ImagesAssumption DEF Init
    <2>3. constants \in [{0, 1} -> Images \cup {NoImage}] BY DEF Init
    <2> QED BY <2>1, <2>2, <2>3 DEF Init, TypeOK, Harts
  <1>3. TagInStep BY <1>1 DEF Init, TagInStep
  <1>4. SwitchedInTurn BY <1>1 DEF Init, SwitchedInTurn, Before, During, TaskAt
  <1>5. StatusTells BY <1>1 DEF Init, StatusTells, Harts, During
  <1>6. ImageLoaded BY DEF Init, ImageLoaded
  <1> QED BY <1>2, <1>3, <1>4, <1>5, <1>6 DEF IInv

LEMMA NextIInv == IInv /\ [Next]_vars => IInv'
  <1> SUFFICES ASSUME IInv, [Next]_vars PROVE IInv' OBVIOUS
  <1> USE ImagesAssumption
      DEF IInv, TypeOK, TagInStep, SwitchedInTurn, StatusTells, ImageLoaded,
          Harts, Before, During, TaskAt, At, Goto, Other, Yield, Toggle, Toggled
  <1>1. ASSUME NEW image \in Images, Call(image) PROVE IInv'
    BY <1>1 DEF Call
  <1>2. CASE InitPcore BY <1>2 DEF InitPcore
  <1>3. CASE Spawn BY <1>3 DEF Spawn, taskSpawn
  <1>4. CASE Wait BY <1>4 DEF Wait
  <1>5. CASE Enter BY <1>5 DEF Enter
  <1>6. CASE Leave BY <1>6 DEF Leave
  <1>7. CASE Loop BY <1>7 DEF Loop
  <1>8. ASSUME NEW h \in Harts, NEW n \in 0 .. MaxYields, FuncBegin(h, n) PROVE IInv'
    BY <1>8 DEF FuncBegin
  <1>9. ASSUME NEW h \in Harts, FuncYield(h) PROVE IInv'
    BY <1>9 DEF FuncYield
  <1>10. ASSUME NEW h \in Harts, FuncReturn(h) PROVE IInv'
    BY <1>10 DEF FuncReturn
  <1>11. CASE UNCHANGED vars BY <1>11 DEF vars
  <1> QED BY <1>1, <1>2, <1>3, <1>4, <1>5, <1>6, <1>7, <1>8, <1>9, <1>10, <1>11
          DEF Next, Running

\* The state of the two threads keeps its type.
THEOREM TypeCorrect == Spec => []TypeOK
  <1>1. IInv => TypeOK BY DEF IInv
  <1> QED BY InitIInv, NextIInv, <1>1, PTL DEF Spec

\* Whatever the two kernel functions do, each one's instructions are tagged
\* with its own process of the cores.
THEOREM TagsCorrect == Spec => []InstructionsCarryTheirProcess
  <1>1. IInv => InstructionsCarryTheirProcess
    BY DEF IInv, TagInStep, SwitchedInTurn, InstructionsCarryTheirProcess, At,
           Process, Harts, Before, During
  <1> QED BY InitIInv, NextIInv, <1>1, PTL DEF Spec

\* ztaDualHartExecute returns only after both functions have, with the tag
\* where it was.
THEOREM ReturnCorrect == Spec => []ReturnsWhenBothHave
  <1>1. IInv => ReturnsWhenBothHave
    BY DEF IInv, TagInStep, SwitchedInTurn, StatusTells, ReturnsWhenBothHave,
           Harts, Before
  <1> QED BY InitIInv, NextIInv, <1>1, PTL DEF Spec

\* A kernel function runs with the constants of its image in both processes.
THEOREM ConstantsCorrect == Spec => []ConstantsInPlace
  <1>1. IInv => ConstantsInPlace
    BY DEF IInv, SwitchedInTurn, ImageLoaded, ConstantsInPlace, At, Process,
           Harts, Before
  <1> QED BY InitIInv, NextIInv, <1>1, PTL DEF Spec
=============================================================================
