------------------------------ MODULE DualHart ------------------------------
(***************************************************************************)
(* Two threads of the host that share one stream of tensor instructions:   *)
(* ztaDualHartExecute and taskEntry (SW/base/ztalib.c), the coroutine      *)
(* switch _taskYield and _taskSpawn (SW/base/task.S), and ztaInitPcore     *)
(* (SW/apps/main/kernels/main.m).  The hardware tags each instruction it   *)
(* is given with curr_vm_r, the process of the cores it is for; a write to *)
(* REG_DP_VM_TOGGLE flips it.  Nothing but a toggle at every switch keeps  *)
(* the tag in step with the thread.                                        *)
(***************************************************************************)
EXTENDS Naturals

CONSTANTS Images,      \* code images of the cores
          NoImage,
          MaxYields    \* bound on the ztaTaskYield calls of a kernel function

ASSUME ImagesAssumption == NoImage \notin Images /\ MaxYields \in Nat

VARIABLES curr_vm_r,   \* the register of dp_fetch
          hart,        \* who runs: main or the spawned task
          pc,          \* where each of the two is
          left,        \* yields left in each one's kernel function
          taskStatus,
          last_image,
          constants,   \* image whose constants are in each core process
          finished     \* ghost: whose kernel function has returned

vars == <<curr_vm_r, hart, pc, left, taskStatus, last_image, constants, finished>>

Harts == {"main", "task"}

\* The core process of each hart's kernel function: its argument p2 or 0.
Process(h) == IF h = "main" THEN 0 ELSE 1

Other(h) == IF h = "main" THEN "task" ELSE "main"

\* ztaInit has spawned a task without a function.
Init ==
  /\ curr_vm_r = 0
  /\ hart = "main"
  /\ pc = [h \in Harts |-> IF h = "main" THEN "idle" ELSE "fresh"]
  /\ left = [h \in Harts |-> 0]
  /\ taskStatus = FALSE
  /\ last_image = NoImage
  /\ constants = [v \in {0, 1} |-> NoImage]
  /\ finished = [h \in Harts |-> TRUE]

At(h, where) == hart = h /\ pc[h] = where
Goto(h, where) == pc' = [pc EXCEPT ![h] = where]

\* register_vm_toggle.  Mutant: it counts.
ToggledCounts == curr_vm_r + 1

Toggled == 1 - curr_vm_r

Toggle == curr_vm_r' = Toggled

\* ztaTaskYield: toggle, then _taskYield.
Yield == Toggle /\ hart' = Other(hart)

----------------------------------------------------------------------------
(* The main thread. *)

\* A kernel's entry point calls ztaInitPcore, which returns at once when the
\* image is loaded and otherwise turns to the other process ...
Call(image) ==
  /\ At("main", "idle")
  /\ IF last_image = image
       THEN Goto("main", "spawn") /\ UNCHANGED <<curr_vm_r, last_image>>
       ELSE Goto("main", "init") /\ Toggle /\ last_image' = image
  /\ UNCHANGED <<hart, left, taskStatus, constants, finished>>

\* ... fills the constants of that one, turns back and fills its own.
\* Mutant: it forgets to turn back.
InitPcoreStays ==
  /\ At("main", "init")
  /\ constants' = [constants EXCEPT ![curr_vm_r] = last_image]
  /\ Goto("main", "spawn")
  /\ UNCHANGED <<curr_vm_r, hart, left, taskStatus, last_image, finished>>

InitPcore ==
  /\ At("main", "init")
  /\ Toggle
  /\ constants' = [constants EXCEPT ![curr_vm_r] = last_image,
                                    ![Toggled] = last_image]
  /\ Goto("main", "spawn")
  /\ UNCHANGED <<hart, left, taskStatus, last_image, finished>>

\* _taskSpawn: whatever the task was doing, it continues at the start of taskEntry.
taskSpawn == [pc EXCEPT !["task"] = "fresh"]

\* ztaDualHartExecute spawns the task and yields to it.
Spawn ==
  /\ At("main", "spawn")
  /\ taskStatus' = TRUE
  /\ pc' = [taskSpawn EXCEPT !["main"] = "start"]
  /\ Yield
  /\ finished' = [h \in Harts |-> FALSE]
  /\ UNCHANGED <<left, last_image, constants>>

\* It waits for the task.  Mutant: it returns when its own function has.
WaitNot ==
  /\ At("main", "wait")
  /\ Goto("main", "idle")
  /\ UNCHANGED <<curr_vm_r, hart, left, taskStatus, last_image, constants, finished>>

Wait ==
  /\ At("main", "wait")
  /\ IF taskStatus
       THEN Yield /\ UNCHANGED pc
       ELSE Goto("main", "idle") /\ UNCHANGED <<curr_vm_r, hart>>
  /\ UNCHANGED <<left, taskStatus, last_image, constants, finished>>

----------------------------------------------------------------------------
(* The task: taskEntry. *)

\* It yields at once, so that main starts first.  Mutant: without the toggle.
EnterSilently ==
  /\ At("task", "fresh")
  /\ Goto("task", "start")
  /\ hart' = Other(hart)
  /\ UNCHANGED <<curr_vm_r, left, taskStatus, last_image, constants, finished>>

Enter ==
  /\ At("task", "fresh")
  /\ Goto("task", "start")
  /\ Yield
  /\ UNCHANGED <<left, taskStatus, last_image, constants, finished>>

\* After its function it clears taskStatus ...  Mutant: it does not.
LeaveSilently ==
  /\ At("task", "wait")
  /\ Goto("task", "loop")
  /\ UNCHANGED <<curr_vm_r, hart, left, taskStatus, last_image, constants, finished>>

Leave ==
  /\ At("task", "wait")
  /\ taskStatus' = FALSE
  /\ Goto("task", "loop")
  /\ UNCHANGED <<curr_vm_r, hart, left, last_image, constants, finished>>

\* ... and yields for ever.
Loop ==
  /\ At("task", "loop")
  /\ Yield
  /\ UNCHANGED <<pc, left, taskStatus, last_image, constants, finished>>

----------------------------------------------------------------------------
(* The kernel function, run by both: it sends instructions and yields. *)

\* The number of yields follows from the size of the job and the thread's share of it.
FuncBegin(h, n) ==
  /\ At(h, "start")
  /\ Goto(h, "func")
  /\ left' = [left EXCEPT ![h] = n]
  /\ UNCHANGED <<curr_vm_r, hart, taskStatus, last_image, constants, finished>>

FuncYield(h) ==
  /\ At(h, "func") /\ left[h] > 0
  /\ left' = [left EXCEPT ![h] = @ - 1]
  /\ Yield
  /\ UNCHANGED <<pc, taskStatus, last_image, constants, finished>>

FuncReturn(h) ==
  /\ At(h, "func") /\ left[h] = 0
  /\ Goto(h, "wait")
  /\ finished' = [finished EXCEPT ![h] = TRUE]
  /\ UNCHANGED <<curr_vm_r, hart, left, taskStatus, last_image, constants>>

Running ==
  \/ InitPcore \/ Spawn \/ Wait \/ Enter \/ Leave \/ Loop
  \/ \E h \in Harts :
       \/ \E n \in 0 .. MaxYields : FuncBegin(h, n)
       \/ FuncYield(h) \/ FuncReturn(h)

Next == Running \/ \E image \in Images : Call(image)

Spec == Init /\ [][Next]_vars

\* The processor runs.
FairSpec == Spec /\ WF_vars(Running)
----------------------------------------------------------------------------
\* Type invariant.
TypeOK ==
  /\ curr_vm_r \in {0, 1}
  /\ hart \in Harts
  /\ pc \in [Harts -> {"idle", "init", "spawn", "start", "func", "wait",
                       "fresh", "loop"}]
  /\ left \in [Harts -> 0 .. MaxYields]
  /\ taskStatus \in BOOLEAN
  /\ last_image \in Images \cup {NoImage}
  /\ constants \in [{0, 1} -> Images \cup {NoImage}]
  /\ finished \in [Harts -> BOOLEAN]

\* A kernel function sends its instructions for its own process of the cores,
\* however often and in whatever pattern the two functions yield and return.
InstructionsCarryTheirProcess ==
  \A h \in Harts : At(h, "func") => curr_vm_r = Process(h)

\* ztaDualHartExecute returns when both functions have, and with the register
\* as it was, so that the next call starts the same way.
ReturnsWhenBothHave ==
  pc["main"] = "idle" =>
    hart = "main" /\ curr_vm_r = 0 /\ \A h \in Harts : finished[h]

\* A kernel function finds the constants of its image in its process, although
\* ztaInitPcore skips an image that it has loaded before.
ConstantsInPlace ==
  \A h \in Harts : At(h, "func") => constants[Process(h)] = last_image

\* A call of a kernel returns.
CallReturns == pc["main"] # "idle" ~> pc["main"] = "idle"
=============================================================================
