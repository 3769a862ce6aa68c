------------------------------ MODULE MCAccess ------------------------------
(***************************************************************************)
(* Sessions, idempotency keys, users and paged lists side by side: four    *)
(* machines that share no state, one of which runs in a behaviour.         *)
(***************************************************************************)
EXTENDS Sessions, Idempotency, Users, Listing, TLC

VARIABLE part

accessVars == <<part, sessVars, idemVars, userVars, listVars>>

AccessInit ==
  /\ part \in {"sessions", "idempotency", "users", "lists"}
  /\ SessInit
  /\ IdemInit
  /\ UserInit
  /\ ListInit
  /\ part # "idempotency" => \A c \in IdemCalls : idemCall[c].body = CHOOSE b \in IdemBodies : TRUE
  /\ part # "lists" => listRows = {} /\ listQuery.kind = "users" /\ listQuery.limit = 1

AccessNext ==
  /\ UNCHANGED part
  /\ \/ /\ part = "sessions"
        /\ SessNext
        /\ UNCHANGED <<idemVars, userVars, listVars>>
     \/ /\ part = "idempotency"
        /\ IdemNext
        /\ UNCHANGED <<sessVars, userVars, listVars>>
     \/ /\ part = "users"
        /\ UserNext
        /\ UNCHANGED <<sessVars, idemVars, listVars>>
     \/ /\ part = "lists"
        /\ ListNext
        /\ UNCHANGED <<sessVars, idemVars, userVars>>

AccessSpec == AccessInit /\ [][AccessNext]_accessVars

(* The calls of the three machines are the same model values.              *)
AccessSymmetry == Permutations(SessCalls) \union Permutations(UserIds)
=============================================================================
