---------------------------- MODULE MCCmConnect ----------------------------
(* Instances of CmConnect: two devices, two handles.                       *)
EXTENDS CmConnect, TLC

CONSTANTS a, b

TwoHandles == {1, 2}
OneOrBoth == {<<a>>, <<a, b>>}
ActiveIsG == {<<"SCAN", "G">>, <<"ADV", "T">>}
ModuleSymmetry == Permutations(Module)
=============================================================================
