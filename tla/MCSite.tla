------------------------------- MODULE MCSite -------------------------------
(* Infrastructure rows, load balancers, join tokens and one agent's VM      *)
(* manager side by side: part says which of them a behaviour is about; the  *)
(* others keep their initial state.                                         *)
EXTENDS InfraRows, Balancer, Joining, AgentVM, TLC

CONSTANT SiteParts

VARIABLE part

siteVars == <<vars, lbVars, jnVars, amVars, part>>

MCKind == [t \in JnTokens |-> IF t = "tc" THEN "cluster" ELSE "node"]
MCMaxUses == [t \in JnTokens |-> 1]

SiteInit ==
    /\ part \in SiteParts
    /\ Init /\ LbInit /\ JnInit /\ AmInit
    /\ part # "infra" => \A r \in Res : row[r].name = CHOOSE n \in Names : TRUE
    /\ part # "balancer" => \A i \in LbIds : lbRow[i] = NoLb
    /\ part = "balancer" => lbRow[CHOOSE i \in LbIds : TRUE] # NoLb
    /\ part # "joining" => jnUses = {}

SiteNext ==
    /\ UNCHANGED part
    /\ \/ part = "infra" /\ Next /\ UNCHANGED <<lbVars, jnVars, amVars>>
       \/ part = "balancer" /\ LbNext /\ UNCHANGED <<vars, jnVars, amVars>>
       \/ part = "joining" /\ JnNext /\ UNCHANGED <<vars, lbVars, amVars>>
       \/ part = "agent" /\ AmNext /\ UNCHANGED <<vars, lbVars, jnVars>>

SiteSpec == SiteInit /\ [][SiteNext]_siteVars

(* The resources, names and callers of the rows are interchangeable.        *)
SiteSymmetry == Permutations(Res) \union Permutations(Callers) \union Permutations(Names)
=============================================================================
