------------------------------ MODULE MCWizard ------------------------------
(* TLC instances of Wizard: every row starts with the first local port.    *)
EXTENDS Wizard
MCDefault == [r \in Remotes |-> CHOOSE l \in Locals : TRUE]
=============================================================================
