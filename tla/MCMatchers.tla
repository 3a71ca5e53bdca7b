----------------------------- MODULE MCMatchers -----------------------------
(* The two matchers that search bytes, each over inputs of its own: the      *)
(* fragment encoder over long ones, the trees over short ones.               *)
EXTENDS FragmentEncoder, HashTree

\* A whole fragment of any words, and a second one that repeats itself.
Words == {<<0, 0, 0, 0>>, <<0, 1, 0, 1>>, <<1, 2, 0, 2>>}
LongInputs ==
  {FlattenSeq(f) \o <<1, 0, 1, 0, 1, 0, 1, 2, 0, 2, 0, 2>> : f \in [1..6 -> Words]}
ShortInputs == {<<0>> \o f : f \in [1..10 -> {0, 1}]}
MCInputs == LongInputs \cup ShortInputs

MCConfigs == {[min |-> 4, hash |-> "word", cap |-> 9], [min |-> 4, hash |-> "none", cap |-> 99],
              [min |-> 5, hash |-> "word", cap |-> 99], [min |-> 6, hash |-> "none", cap |-> 9]}

MCInit == FragmentInit /\ TreeInit /\ (input \in ShortInputs => config.min = 5)
Long == Len(input) > 12
MCNext == \/ Long /\ FragmentNext /\ UNCHANGED treeVars
          \/ ~Long /\ TreeNext /\ UNCHANGED fragmentVars
MCSpec == MCInit /\ [][MCNext]_<<fragmentVars, treeVars>>
=============================================================================
