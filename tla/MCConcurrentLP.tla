--------------------------- MODULE MCConcurrentLP ---------------------------
(* Instances of ConcurrentLP for TLC: two solves, settings that matter.    *)
EXTENDS ConcurrentLP

Defaults ==
  [batch |-> FALSE, method |-> "Concurrent", crossover |-> FALSE,
   detect |-> FALSE, strict |-> FALSE, first |-> FALSE, save |-> FALSE]

AllProblems == [Solves -> Kinds]

SomeSettings ==
  {Defaults,
   [Defaults EXCEPT !.detect = TRUE, !.strict = TRUE],
   [Defaults EXCEPT !.detect = TRUE, !.save = TRUE],
   [Defaults EXCEPT !.crossover = TRUE],
   [Defaults EXCEPT !.first = TRUE, !.method = "PDLP"],
   [Defaults EXCEPT !.method = "DualSimplex"],
   [Defaults EXCEPT !.batch = TRUE, !.save = TRUE, !.crossover = TRUE],
   [Defaults EXCEPT !.batch = TRUE, !.method = "DualSimplex"]}
=============================================================================
