---------------------------- MODULE MCDashboard ----------------------------
(* Instances of Dashboard for TLC. *)
EXTENDS Dashboard, TLC
CONSTANTS h1, h2, one, other, twin
MCPlain == <<"l">>
\* "other" spells a name so that it is not counted, and has the text of "twin".
MCWhere == (one :> 1) @@ (other :> 2) @@ (twin :> 2)
HandlerSymmetry == Permutations(Handlers)
=============================================================================
