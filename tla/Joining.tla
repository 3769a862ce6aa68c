------------------------------ MODULE Joining ------------------------------
(***************************************************************************)
(* Redemption of join tokens: a node or gateway token enrols a node by     *)
(* name and issues its certificate; a cluster token admits a control-plane *)
(* replica as an etcd learner.  Every redemption counts against the        *)
(* token's max_uses, by a compare-and-set on the token's counter key, and  *)
(* a redemption whose answer was lost may be repeated.                     *)
(*                                                                         *)
(* A call is one request; its reads and transactions of etcd are steps.  A *)
(* certificate is named by the token and the counter revision it was       *)
(* issued at; only the unrevoked ones are kept.  Signing, endpoints and    *)
(* addresses are left out.                                                 *)
(***************************************************************************)
EXTENDS Naturals, FiniteSets

CONSTANTS
  JnNames,          \* names nodes join under
  JnTokens,         \* tokens
  JnKind,           \* token -> "node", "gateway" or "cluster"
  JnMaxUses,        \* token -> max_uses
  JnCalls,          \* request slots
  NoJn,             \* absence of a node row
  JnRetries,        \* joinRedeemCASRetries
  MaxJoins,         \* requests in a behaviour
  MaxJnFaults       \* transactions whose answer is lost

ASSUME JnAssumption == JnMaxUses \in [JnTokens -> Nat \ {0}]

VARIABLES
  jnNode,      \* name -> node row or NoJn
  jnNextId,    \* the next node id
  jnCount,     \* token -> value of its counter key
  jnRev,       \* token -> revision of its counter key, 0 when absent
  jnUses,      \* consumption rows
  jnCerts,     \* unrevoked certificates
  jnLearners,  \* names registered as etcd learners
  jnLive,      \* tokens that have not expired
  jnCall,      \* the calls
  jnJoins, jnFaults

jnStore == <<jnNode, jnNextId, jnCount, jnRev, jnUses, jnCerts, jnLearners, jnLive>>
jnVars == <<jnStore, jnCall, jnJoins, jnFaults>>

JnIdle == [pc |-> "idle", token |-> NoJn, name |-> NoJn, node |-> 0, row |-> NoJn, created |-> FALSE,
           cur |-> 0, rev |-> 0, counted |-> FALSE, old |-> {}, tries |-> 0]

JnGateway(t) == JnKind[t] = "gateway"

JnUsesOf(t) == {u \in jnUses : u.token = t}

(* The store starts empty, or with a node that redeemed a token before     *)
(* counter keys existed.                                                   *)
JnLegacy == {{}} \union {{<<t, n>>} : t \in {s \in JnTokens : JnKind[s] # "cluster"}, n \in JnNames}

JnEnrolled(legacy) ==
  /\ jnNode = [n \in JnNames |->
                 IF \E p \in legacy : p[2] = n
                 THEN [id |-> 1, hb |-> FALSE, gateway |-> \E p \in legacy : JnGateway(p[1])] ELSE NoJn]
  /\ jnUses = {[token |-> p[1], node |-> 1, no |-> 0] : p \in legacy}
  /\ jnCerts = {[token |-> p[1], no |-> 0, node |-> 1] : p \in legacy}

JnInit ==
  /\ \E legacy \in JnLegacy : JnEnrolled(legacy)
  /\ jnNextId = 2
  /\ jnCount = [t \in JnTokens |-> 0] /\ jnRev = [t \in JnTokens |-> 0]
  /\ jnLearners = {}
  /\ jnLive = JnTokens
  /\ jnCall = [c \in JnCalls |-> JnIdle]
  /\ jnJoins = 0 /\ jnFaults = 0

JnAt(c, pc) == jnCall[c].pc = pc

JnGoto(c, pc) == jnCall' = [jnCall EXCEPT ![c].pc = pc]

JnReturn(c) == jnCall' = [jnCall EXCEPT ![c] = JnIdle]

JnReads == UNCHANGED <<jnStore, jnJoins, jnFaults>>
-----------------------------------------------------------------------------
(* A request with a token that is known and not expired, for the endpoint  *)
(* of its kind; others are refused without effect.                         *)
validateRedeemTokenKind(c, t, n) ==
  /\ JnAt(c, "idle") /\ jnJoins < MaxJoins /\ t \in jnLive
  /\ jnCall' = [jnCall EXCEPT ![c] =
                  [JnIdle EXCEPT !.token = t, !.name = n,
                                 !.pc = IF JnKind[t] = "cluster" THEN "count" ELSE "precheck"]]
  /\ jnJoins' = jnJoins + 1
  /\ UNCHANGED <<jnStore, jnFaults>>

(* Mutant: a token without a counter key has no uses.                      *)
readNodeConsumedCountFresh(t) == jnCount[t]

(* The counter, or the consumption rows while the counter is absent; a     *)
(* cluster token reads the counter alone.                                  *)
readNodeConsumedCount(t) ==
  IF jnRev[t] = 0 /\ JnKind[t] # "cluster" THEN Cardinality(JnUsesOf(t)) ELSE jnCount[t]

hasConsumptionForNode(t, id) == \E u \in jnUses : u.token = t /\ u.node = id

(* A new node is refused early when the token is used up; a node the token *)
(* already counts is let through.                                          *)
precheckNodeMaxUses(c) ==
  LET t == jnCall[c].token
      row == jnNode[jnCall[c].name]
      counted == row # NoJn /\ hasConsumptionForNode(t, row.id)
  IN /\ JnAt(c, "precheck")
     /\ \/ ~counted /\ readNodeConsumedCount(t) >= JnMaxUses[t] /\ JnReturn(c)
        \/ (counted \/ readNodeConsumedCount(t) < JnMaxUses[t]) /\ JnGoto(c, "upsert")
     /\ JnReads

(* An existing row is reused unless the node has ever reported or has the  *)
(* other role.                                                             *)
Reuse(c, row) ==
  \/ (row.hb \/ row.gateway # JnGateway(jnCall[c].token)) /\ JnReturn(c)
  \/ /\ ~row.hb /\ row.gateway = JnGateway(jnCall[c].token)
     /\ jnCall' = [jnCall EXCEPT ![c].node = row.id, ![c].pc = "count"]

upsertJoinNode(c) ==
  LET row == jnNode[jnCall[c].name]
  IN /\ JnAt(c, "upsert")
     /\ \/ row = NoJn /\ JnGoto(c, "create")
        \/ row # NoJn /\ Reuse(c, row)
     /\ JnReads

(* The row and its name guard are created together, or a concurrent create *)
(* won the name.                                                           *)
CreateNode(c) ==
  LET n == jnCall[c].name
  IN /\ JnAt(c, "create")
     /\ \/ /\ jnNode[n] = NoJn
           /\ jnNode' = [jnNode EXCEPT ![n] = [id |-> jnNextId, hb |-> FALSE, gateway |-> JnGateway(jnCall[c].token)]]
           /\ jnNextId' = jnNextId + 1
           /\ jnCall' = [jnCall EXCEPT ![c].node = jnNextId, ![c].created = TRUE, ![c].pc = "count"]
        \/ /\ jnNode[n] # NoJn
           /\ Reuse(c, jnNode[n])
           /\ UNCHANGED <<jnNode, jnNextId>>
     /\ UNCHANGED <<jnCount, jnRev, jnUses, jnCerts, jnLearners, jnLive, jnJoins, jnFaults>>
-----------------------------------------------------------------------------
(* Each attempt of the commit reads the counter, ...                       *)
readConsumedCount(c) ==
  LET t == jnCall[c].token
  IN /\ JnAt(c, "count")
     /\ \/ jnCall[c].tries = JnRetries /\ JnReturn(c)
        \/ /\ jnCall[c].tries < JnRetries
           /\ jnCall' = [jnCall EXCEPT ![c].cur = readNodeConsumedCount(t), ![c].rev = jnRev[t],
                                       ![c].tries = @ + 1,
                                       ![c].pc = IF JnKind[t] = "cluster" THEN "txn" ELSE "counted"]
     /\ JnReads

(* ... looks whether the node is counted already: a new node beyond        *)
(* max_uses is refused, and a row this call created is then an orphan, ... *)
checkCounted(c) ==
  LET t == jnCall[c].token
      counted == hasConsumptionForNode(t, jnCall[c].node)
  IN /\ JnAt(c, "counted")
     /\ \/ /\ ~counted /\ jnCall[c].cur >= JnMaxUses[t]
           /\ IF jnCall[c].created THEN JnGoto(c, "orphan") ELSE JnReturn(c)
        \/ /\ counted \/ jnCall[c].cur < JnMaxUses[t]
           /\ jnCall' = [jnCall EXCEPT ![c].counted = counted, ![c].pc = "supersede"]
     /\ JnReads

JnCertsOf(id) == {k \in jnCerts : k.node = id}

(* ... reads the node's certificates, to supersede them, ...               *)
revokeNodeAgentCertsOps(c) == JnCertsOf(jnCall[c].node)

Supersede(c) ==
  /\ JnAt(c, "supersede")
  /\ jnCall' = [jnCall EXCEPT ![c].old = revokeNodeAgentCertsOps(c), ![c].pc = "txn"]
  /\ JnReads

(* The transaction's effect when the counter is as it was read: the        *)
(* counter is always written, a new node is counted.                       *)
CommitRedemption(c) ==
  LET t == jnCall[c].token
      id == jnCall[c].node
      new == ~jnCall[c].counted
      no == jnRev[t] + 1
  IN /\ jnRev' = [jnRev EXCEPT ![t] = no]
     /\ jnCount' = [jnCount EXCEPT ![t] = jnCall[c].cur + IF new THEN 1 ELSE 0]
     /\ jnUses' = IF new THEN jnUses \union {[token |-> t, node |-> id, no |-> no]} ELSE jnUses
     /\ jnCerts' = IF JnKind[t] = "cluster" THEN jnCerts
                   ELSE (jnCerts \ jnCall[c].old) \union {[token |-> t, no |-> no, node |-> id]}

CounterUnchanged(c) == jnRev[jnCall[c].token] = jnCall[c].rev

(* ... and commits.  A cluster redemption that is over its limit was       *)
(* refused when it read the counter.                                       *)
commitNodeRedemption(c) ==
  LET t == jnCall[c].token
      cluster == JnKind[t] = "cluster"
  IN /\ JnAt(c, "txn")
     /\ \/ /\ cluster /\ jnCall[c].cur >= JnMaxUses[t]
           /\ JnReturn(c)
           /\ UNCHANGED <<jnCount, jnRev, jnUses, jnCerts>>
        \/ /\ ~CounterUnchanged(c)
           /\ cluster => jnCall[c].cur < JnMaxUses[t]
           /\ JnGoto(c, "count")
           /\ UNCHANGED <<jnCount, jnRev, jnUses, jnCerts>>
        \/ /\ CounterUnchanged(c)
           /\ cluster => jnCall[c].cur < JnMaxUses[t]
           /\ CommitRedemption(c)
           /\ IF cluster THEN JnGoto(c, "learner") ELSE JnReturn(c)
     /\ UNCHANGED <<jnNode, jnNextId, jnLearners, jnLive, jnJoins, jnFaults>>

(* The commit's answer is lost: it took effect or it did not, the call     *)
(* fails and leaves the row it created.                                    *)
CommitUnknown(c) ==
  /\ JnAt(c, "txn") /\ jnFaults < MaxJnFaults
  /\ jnCall[c].cur < JnMaxUses[jnCall[c].token] \/ jnCall[c].counted
  /\ \/ CounterUnchanged(c) /\ CommitRedemption(c)
     \/ UNCHANGED <<jnCount, jnRev, jnUses, jnCerts>>
  /\ JnReturn(c)
  /\ jnFaults' = jnFaults + 1
  /\ UNCHANGED <<jnNode, jnNextId, jnLearners, jnLive, jnJoins>>

(* The replica is registered as a learner, which may fail and is           *)
(* idempotent.                                                             *)
RegisterLearner(c) ==
  /\ JnAt(c, "learner")
  /\ jnLearners' \in {jnLearners, jnLearners \union {jnCall[c].name}}
  /\ JnReturn(c)
  /\ UNCHANGED <<jnNode, jnNextId, jnCount, jnRev, jnUses, jnCerts, jnLive, jnJoins, jnFaults>>
-----------------------------------------------------------------------------
(* The orphan of a refused redemption: its row is read again and left      *)
(* alone when it is gone, has reported, ...                                *)
deleteOrphanedJoinNode(c) ==
  LET row == jnNode[jnCall[c].name]
      ours == row # NoJn /\ row.id = jnCall[c].node
  IN /\ JnAt(c, "orphan")
     /\ \/ ~(ours /\ ~row.hb) /\ JnReturn(c)
        \/ ours /\ ~row.hb /\ jnCall' = [jnCall EXCEPT ![c].row = row, ![c].pc = "hasCert"]
     /\ JnReads

(* ... or holds a certificate, ...                                         *)
NodeHasActiveCert(c) ==
  /\ JnAt(c, "hasCert")
  /\ \/ JnCertsOf(jnCall[c].node) # {} /\ JnReturn(c)
     \/ JnCertsOf(jnCall[c].node) = {} /\ JnGoto(c, "delete")
  /\ JnReads

(* ... and is deleted if the row has not changed since.                    *)
DeleteOrphan(c) ==
  /\ JnAt(c, "delete")
  /\ jnNode' = IF jnNode[jnCall[c].name] = jnCall[c].row THEN [jnNode EXCEPT ![jnCall[c].name] = NoJn] ELSE jnNode
  /\ JnReturn(c)
  /\ UNCHANGED <<jnNextId, jnCount, jnRev, jnUses, jnCerts, jnLearners, jnLive, jnJoins, jnFaults>>

(* The first heartbeat of a node that holds a certificate confirms it.     *)
FirstHeartbeat(n) ==
  /\ jnNode[n] # NoJn /\ ~jnNode[n].hb /\ JnCertsOf(jnNode[n].id) # {}
  /\ jnNode' = [jnNode EXCEPT ![n].hb = TRUE]
  /\ UNCHANGED <<jnNextId, jnCount, jnRev, jnUses, jnCerts, jnLearners, jnLive, jnCall, jnJoins, jnFaults>>

(* A revoked token expires now; calls under way have read it already.      *)
RevokeJoinToken(t) ==
  /\ t \in jnLive
  /\ jnLive' = jnLive \ {t}
  /\ UNCHANGED <<jnNode, jnNextId, jnCount, jnRev, jnUses, jnCerts, jnLearners, jnCall, jnJoins, jnFaults>>

JnNext ==
  \/ \E c \in JnCalls :
       \/ \E t \in JnTokens, n \in JnNames : validateRedeemTokenKind(c, t, n)
       \/ precheckNodeMaxUses(c) \/ upsertJoinNode(c) \/ CreateNode(c)
       \/ readConsumedCount(c) \/ checkCounted(c) \/ Supersede(c)
       \/ commitNodeRedemption(c) \/ CommitUnknown(c) \/ RegisterLearner(c)
       \/ deleteOrphanedJoinNode(c) \/ NodeHasActiveCert(c) \/ DeleteOrphan(c)
  \/ \E n \in JnNames : FirstHeartbeat(n)
  \/ \E t \in JnTokens : RevokeJoinToken(t)

JnSpec == JnInit /\ [][JnNext]_jnVars
-----------------------------------------------------------------------------
(* However redemptions overlap, fail and are repeated, a token admits at   *)
(* most max_uses consumers, and its counter agrees with the consumption    *)
(* rows from its first write on.                                           *)
UsesExact ==
  \A t \in JnTokens :
    /\ Cardinality(JnUsesOf(t)) <= JnMaxUses[t]
    /\ jnRev[t] > 0 => jnCount[t] = Cardinality(JnUsesOf(t))

(* Redemptions of one token for one node leave one valid certificate: the  *)
(* later supersedes the earlier even when it began before it committed.    *)
OneLeaf ==
  \A j, k \in jnCerts : j.node = k.node /\ j.token = k.token => j = k

=============================================================================
