------------------------------ MODULE MCParts ------------------------------
(* Three parts that share no state: a behaviour is one of part's, the      *)
(* others stay at their start, where no fairness asks anything of them.    *)
EXTENDS ConnectionBudget, Frontends, EngineLoop

VARIABLE part

partVars == <<part, budgetVars, frontVars, vars>>

MCUpdates == {[min |-> 0, max |-> 1], [min |-> 2, max |-> 2]}

PartsInit ==
  /\ part \in {"budget", "frontends", "loop"}
  /\ BudgetInit /\ FrontInit /\ Init
  /\ part # "frontends" => frontend.program = "service"

PartsNext ==
  /\ UNCHANGED part
  /\ \/ part = "budget" /\ BudgetNext /\ UNCHANGED <<frontVars, vars>>
     \/ part = "frontends" /\ FrontNext /\ UNCHANGED <<budgetVars, vars>>
     \/ part = "loop" /\ Next /\ UNCHANGED <<budgetVars, frontVars>>

PartsSpec ==
  /\ PartsInit /\ [][PartsNext]_partVars
  /\ BudgetFairness /\ FrontFairness /\ Fairness

\* Types of the budget and the front ends; the loop has TypeOK.
PartsTypeOK == BudgetTypeOK /\ FrontTypeOK
=============================================================================
