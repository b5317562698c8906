-------------------------------- MODULE Sums --------------------------------
(* The sum of a function's values, in a form whose facts can be proved and   *)
(* cited: the community modules' fold, with the function as its argument.    *)
EXTENDS FiniteSetsExt

SumOver(f, S) == MapThenSumSet(LAMBDA x : f[x], S)
=============================================================================
