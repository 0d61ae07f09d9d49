------------------------------- MODULE MCGraph -------------------------------
(* Two graphs on two slots, five ids, programs with and without a host     *)
(* operator.                                                               *)
EXTENDS Graph

Image == << <<"job">>, <<"job">> >>
Detect == << <<"job">>, <<"job", "none", "host">> >>
Broken == << <<"job", "fail">> >>

AllPrograms == {Image, Detect, Broken}
TwoPrograms == {Image, Detect}
=============================================================================
