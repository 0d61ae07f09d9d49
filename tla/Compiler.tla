------------------------------ MODULE Compiler ------------------------------
(***************************************************************************)
(* The compiler's main loop for one kernel (SW/compiler/main.cpp and       *)
(* cInstruction::Optimize): generate, optimize pass by pass, place.        *)
(***************************************************************************)
EXTENDS KernelRegs

CONSTANTS Kernels,      \* kernels to compile
          Inputs,       \* values of the class's variables and parameters
          Rounds,       \* loop rounds after which a kernel counts as running for ever
          Steps         \* the same for instructions

VARIABLES kernel, pc, code, cont, home,
          tick          \* alternates, so that a pass that changes nothing is a step too

vars == <<kernel, pc, code, cont, home, tick>>

Init ==
  /\ kernel \in Kernels
  /\ pc = "gen" /\ code = <<>> /\ cont = FALSE /\ home = <<>> /\ tick = 0

Gen ==
  /\ pc = "gen"
  /\ code' = gen(kernel) /\ pc' = "jump"
  /\ UNCHANGED <<kernel, cont, home>>

\* while(compress_jump(begin)); before each of the other passes.
NextPass ==
  [p \in {"jump", "jump substG", "jump substL", "jump foldG", "jump foldL",
          "jump dead", "jump common", "jump compress"} |->
     CASE p = "jump" -> "jump substG"     [] p = "jump substG" -> "substG"
       [] p = "jump substL" -> "substL"   [] p = "jump foldG" -> "foldG"
       [] p = "jump foldL" -> "foldL"     [] p = "jump dead" -> "dead"
       [] p = "jump common" -> "common"   [] p = "jump compress" -> "compress"]

CompressJump ==
  LET r == compress_jump(code)
  IN  /\ pc \in DOMAIN NextPass
      /\ code' = r.code
      /\ pc' = IF r.rc THEN pc ELSE NextPass[pc]
      /\ cont' = (pc # "jump" /\ (cont \/ r.rc))
      /\ UNCHANGED <<kernel, home>>

\* A pass of one of Optimize's two inner loops: the global form, then the local
\* one, again while anything changed.
LoopPass(r, here, next) ==
  /\ pc = here
  /\ code' = r.code
  /\ pc' = next.pc
  /\ cont' = ((cont \/ r.rc) /\ next.keep)
  /\ UNCHANGED <<kernel, home>>

Goes(p, keep) == [pc |-> p, keep |-> keep]

SubstituteGlobal ==
  LoopPass(substituteAssignment(code, TRUE), "substG", Goes("jump substL", TRUE))

SubstituteLocal ==
  LET r == substituteAssignment(code, FALSE)
  IN  LoopPass(r, "substL", Goes(IF cont \/ r.rc THEN "jump substG" ELSE "jump foldG", FALSE))

FoldGlobal == LoopPass(constantFolding(code, TRUE), "foldG", Goes("jump foldL", TRUE))

FoldLocal ==
  LET r == constantFolding(code, FALSE)
  IN  LoopPass(r, "foldL", Goes(IF cont \/ r.rc THEN "jump foldG" ELSE "jump dead", FALSE))

Pass(here, new, next) ==
  /\ pc = here
  /\ code' = new /\ pc' = next
  /\ UNCHANGED <<kernel, cont, home>>

RemoveDead == Pass("dead", removeDeadCode(code), "jump common")
CommonExpression == Pass("common", findCommonExpression(code), "jump compress")
Compress == Pass("compress", DropFirst(compressFunction(code)), "place")

\* cGraph::Build.
Build ==
  LET b == buildFunc(code, kernel.index)
  IN  /\ pc = "place"
      /\ home' = b.home
      /\ pc' = IF b.ok THEN "done" ELSE "error"
      /\ UNCHANGED <<kernel, code, cont>>

Runs == pc \notin {"done", "error"} /\ tick' = 1 - tick

Next ==
  /\ Runs
  /\ \/ Gen \/ CompressJump \/ SubstituteGlobal \/ SubstituteLocal
     \/ FoldGlobal \/ FoldLocal \/ RemoveDead \/ CommonExpression \/ Compress \/ Build

\* Every step runs the compiler (Runs), and nothing stops it before it is done.
Spec == Init /\ [][Next]_vars /\ WF_tick(Runs)

-----------------------------------------------------------------------------
\* The code does what the kernel says from the first compress_jump on, which clears
\* the jump to itself that an empty else block leaves, and after every later pass:
\* with the same variables it leaves the same values in the class's variables, or
\* neither ends.
CodeMeansKernel ==
  pc \notin {"gen", "jump", "done", "error"} =>
    \A in \in Inputs :
      Run(code, [t \in Vars(code) |-> t], in, Steps) = Means(kernel, in, Rounds)

\* ... and still does once variables share registers.
PlacedCodeMeansKernel ==
  pc = "done" => \A in \in Inputs : Run(code, home, in, Steps) = Means(kernel, in, Rounds)

\* The optimizer's loops come to an end.
CompileEnds == <>(pc \in {"done", "error"})
=============================================================================
