-------------------------- MODULE MCEjectionSearch --------------------------
(* Instances of EjectionSearch for TLC.                                    *)
EXTENDS EjectionSearch

CONSTANTS a, b, c, d, u, v, w

\* Three requests, one of them large, for two vehicles of which one need not
\* take it: from plenty of room to too little.
Room ==
  [demand   : {a :> 1 @@ b :> 1 @@ c :> 2},
   capacity : {u :> i @@ v :> 2 : i \in {1, 2, 4}},
   min : {1, 2}, prize : BOOLEAN]

\* Four requests with one way to distribute them.
Tight ==
  [demand   : {a :> 1 @@ b :> 1 @@ c :> 2 @@ d :> 2},
   capacity : {u :> 3 @@ v :> 3}, min : {1}, prize : {FALSE}]

\* As many vehicles as requests, or more.
Fleet ==
  [demand   : {a :> 1 @@ b :> 1},
   capacity : {u :> 2 @@ v :> 1 @@ w :> 1}, min : 1..3, prize : BOOLEAN]

\* Two vehicles have to be used, and one of them can take no request: the
\* repair before the minimizer exceeds.
Forced ==
  [demand   : {a :> 2 @@ b :> 2},
   capacity : {u :> 1 @@ v :> 4},
   min : {2}, prize : BOOLEAN]

MCProblems == Room \cup Tight \cup Fleet \cup Forced
=============================================================================
