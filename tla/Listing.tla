------------------------------ MODULE Listing ------------------------------
(***************************************************************************)
(* Every paged list of the API: the store's ListX functions and the list   *)
(* handlers over them, with the cursor of internal/api/pagination.  One    *)
(* client pages through one list while rows are created, changed and       *)
(* deleted.  A row carries what a list can filter on: "own" (its owner,    *)
(* VM, node or parent is the one asked for), "fits" (it has the status,    *)
(* type or architecture asked for; both may change under the reader) and   *)
(* "dead" (soft-deleted, revoked or expired).  createdAt comes from the    *)
(* clock of whichever API process created the row, so a row may appear     *)
(* anywhere in the order.                                                  *)
(***************************************************************************)
EXTENDS Naturals, FiniteSets

CONSTANTS ListIds,        \* 1..n: ids, compared as strings after createdAt
          ListTimes,      \* createdAt values: few, so that they collide
          ListLimits,     \* page sizes asked for
          MaxChurn        \* bound on the writes made during one reading

VARIABLES listRows,       \* the table: a set of rows
          listUsed,       \* ids ever used (uuid.New: never a second time)
          listQuery,      \* the request: which list, its filters, its cursor
          listScan,       \* ingress grants only: views gathered so far
          listGot,        \* how often each id was returned
          listStable,     \* rows there, and asked for, since the first page
          listChurn,      \* writes so far
          listOpen        \* FALSE once a page came without a cursor

listVars == <<listRows, listUsed, listQuery, listScan, listGot, listStable, listChurn, listOpen>>

NoCursor == [at |-> 0, id |-> 0]
ListKinds == {"users", "api_tokens", "firmwares", "load_balancers", "pools", "nodes",
              "networks", "ingress_grants", "artifact_pools", "join_tokens",
              "consumptions", "vms", "snapshots", "migrations", "tasks"}

-----------------------------------------------------------------------------
(* The order and the cursor.                                                *)
Precedes(r, s) == r.at < s.at \/ (r.at = s.at /\ r.id < s.id)
afterCursor(r, cur) == cur = NoCursor \/ Precedes(cur, r)


beforeCursor(r, cur) == cur = NoCursor \/ Precedes(r, cur)

(* Sort ascending (descending) and keep the first n.                        *)
sortByCreatedAtID(rows, n) == {r \in rows : Cardinality({s \in rows : Precedes(s, r)}) < n}
sortNewestFirst(rows, n) == {r \in rows : Cardinality({s \in rows : Precedes(r, s)}) < n}
OldestOf(rows) == CHOOSE r \in rows : \A s \in rows : s = r \/ Precedes(r, s)
NewestOf(rows) == CHOOSE r \in rows : \A s \in rows : s = r \/ Precedes(s, r)
Encode(r) == [at |-> r.at, id |-> r.id]

After(rows, q, n) == sortByCreatedAtID({r \in rows : afterCursor(r, q.cur)}, n)
Before(rows, q, n) == sortNewestFirst({r \in rows : beforeCursor(r, q.cur)}, n)
-----------------------------------------------------------------------------
(* The store's lists.  q.scoped asks for one owner, parent or VM, q.picked  *)
(* for one status or type, or leaves out revoked and expired tokens.        *)
ListUsers(q, n) == After({r \in listRows : ~r.dead}, q, n)
ListAPITokensByUser(q, n) == After({r \in listRows : r.own /\ (q.picked => ~r.dead)}, q, n)
ListFirmwares(q, n) == After({r \in listRows : q.picked => r.fits}, q, n)
ListLoadBalancers(q, n) == After(listRows, q, n)
ListPoolsEffective(q, n) == After({r \in listRows : (q.scoped => r.own) /\ (q.picked => r.fits)}, q, n)
nodeMatchesListFilters(q, r) == q.picked => r.fits
ListNodesEffective(q, n) == After({r \in listRows : ~r.dead /\ nodeMatchesListFilters(q, r)}, q, n)
ListNetworks(q, n) == After({r \in listRows : q.picked => r.fits}, q, n)
ListIngressGrants(q, n) == After(listRows, q, n)
ListArtifactPools(q, n) == After(listRows, q, n)
ListJoinTokens(q, n) == After({r \in listRows : q.picked => ~r.dead}, q, n)
ListJoinTokenConsumptions(q, n) == After({r \in listRows : r.own}, q, n)

vmMatchesFilters(q, r) == q.scoped => r.own
ListVMs(q, n) == Before({r \in listRows : ~r.dead /\ vmMatchesFilters(q, r)}, q, n)
snapshotMatchesFilters(q, r) == (q.scoped => r.own) /\ (q.picked => r.fits)
ListSnapshots(q, n) == Before({r \in listRows : ~r.dead /\ snapshotMatchesFilters(q, r)}, q, n)
migrationsByIndex == {r \in listRows : r.own}
ListMigrations(q, n) == Before(IF q.picked THEN migrationsByIndex ELSE listRows, q, n)
taskMatches(q, r) == (q.scoped => r.own) /\ (q.picked => r.fits)
listTasks(q, n) == Before({r \in listRows : taskMatches(q, r)}, q, n)
-----------------------------------------------------------------------------
(* A page: the rows shown and the cursor of the next one.  All handlers but *)
(* two ask for one row more than the limit to learn whether to go on.       *)
TrimAsc(rows, n) ==
  IF Cardinality(rows) > n
  THEN LET page == sortByCreatedAtID(rows, n) IN [data |-> page, next |-> Encode(NewestOf(page))]
  ELSE [data |-> rows, next |-> NoCursor]

TrimDesc(rows, n) ==
  IF Cardinality(rows) > n
  THEN LET page == sortNewestFirst(rows, n) IN [data |-> page, next |-> Encode(OldestOf(page))]
  ELSE [data |-> rows, next |-> NoCursor]

usersList(q) == TrimAsc(ListUsers(q, q.limit + 1), q.limit)
listForUser(q) == TrimAsc(ListAPITokensByUser(q, q.limit + 1), q.limit)
firmwaresList(q) == TrimAsc(ListFirmwares(q, q.limit + 1), q.limit)
loadBalancersList(q) == TrimAsc(ListLoadBalancers(q, q.limit + 1), q.limit)
poolsList(q) == TrimAsc(ListPoolsEffective(q, q.limit + 1), q.limit)
nodesList(q) == TrimAsc(ListNodesEffective(q, q.limit + 1), q.limit)
networksList(q) == TrimAsc(ListNetworks(q, q.limit + 1), q.limit)
artifactPoolsList(q) == TrimAsc(ListArtifactPools(q, q.limit + 1), q.limit)
joinTokensList(q) == TrimAsc(ListJoinTokens(q, q.limit + 1), q.limit)
consumptionsList(q) == TrimAsc(ListJoinTokenConsumptions(q, q.limit + 1), q.limit)
snapshotsList(q) == TrimDesc(ListSnapshots(q, q.limit + 1), q.limit)
tasksList(q) == TrimDesc(listTasks(q, q.limit + 1), q.limit)

(* Migrations drop what the caller does not own after the page is cut.      *)
callerOwnsMigration(r) == r.own
migrationsList(q) ==
  LET page == TrimDesc(ListMigrations(q, q.limit + 1), q.limit) IN
  [page EXCEPT !.data = {r \in @ : q.scoped => callerOwnsMigration(r)}]

(* VMs ask for exactly the limit, take a full page to mean "perhaps more",  *)
(* and apply the status filter to the page (projectPage), which may come    *)
(* out empty while its cursor goes on.                                      *)
projectPage(q, rows) == {r \in rows : q.picked => r.fits}
nextCursorFor(rows, n) == IF Cardinality(rows) < n THEN NoCursor ELSE Encode(OldestOf(rows))
vmsList(q) ==
  LET rows == ListVMs(q, q.limit) IN
  [data |-> projectPage(q, rows), next |-> nextCursorFor(rows, q.limit)]

Page(q) ==
  CASE q.kind = "users" -> usersList(q)
    [] q.kind = "api_tokens" -> listForUser(q)
    [] q.kind = "firmwares" -> firmwaresList(q)
    [] q.kind = "load_balancers" -> loadBalancersList(q)
    [] q.kind = "pools" -> poolsList(q)
    [] q.kind = "nodes" -> nodesList(q)
    [] q.kind = "networks" -> networksList(q)
    [] q.kind = "artifact_pools" -> artifactPoolsList(q)
    [] q.kind = "join_tokens" -> joinTokensList(q)
    [] q.kind = "consumptions" -> consumptionsList(q)
    [] q.kind = "snapshots" -> snapshotsList(q)
    [] q.kind = "tasks" -> tasksList(q)
    [] q.kind = "migrations" -> migrationsList(q)
    [] q.kind = "vms" -> vmsList(q)
-----------------------------------------------------------------------------
(* What the request asks for, said once and apart from the lists above.     *)
ScopedKinds == {"pools", "vms", "snapshots", "migrations", "tasks", "ingress_grants"}
PickedKinds == {"firmwares", "pools", "nodes", "networks", "vms", "snapshots", "migrations",
                "tasks", "api_tokens", "join_tokens"}
OwnCounts(q) == q.scoped \/ q.kind \in {"api_tokens", "consumptions"} \/ (q.kind = "migrations" /\ q.picked)
FitsCounts(q) == q.picked /\ q.kind \notin {"api_tokens", "join_tokens", "migrations"}
DeathCounts(q) ==
  q.kind \in {"users", "nodes", "vms", "snapshots"} \/ (q.picked /\ q.kind \in {"api_tokens", "join_tokens"})
AsksFor(q, r) ==
  (OwnCounts(q) => r.own) /\ (FitsCounts(q) => r.fits) /\ (DeathCounts(q) => ~r.dead)

(* A new row; what the request does not look at is held constant.           *)
NewRow(q) == [at : ListTimes, id : {0}, own : IF OwnCounts(q) THEN BOOLEAN ELSE {TRUE},
              fits : {TRUE}, dead : {FALSE}]

StillAsked(rows) == {id \in listStable : \E r \in rows : r.id = id /\ AsksFor(listQuery, r)}

ListInit ==
  /\ listQuery \in [kind : ListKinds, scoped : BOOLEAN, picked : BOOLEAN,
                    limit : ListLimits, cur : {NoCursor}]
  /\ listQuery.scoped => listQuery.kind \in ScopedKinds
  /\ listQuery.picked => listQuery.kind \in PickedKinds
  /\ \E f \in [ListIds -> NewRow(listQuery) \union {NoCursor}] :
       listRows = {[f[id] EXCEPT !.id = id] : id \in {i \in ListIds : f[i] # NoCursor}}
  /\ listUsed = {r.id : r \in listRows}
  /\ listScan = {}
  /\ listGot = [id \in ListIds |-> 0]
  /\ listStable = {r.id : r \in {s \in listRows : AsksFor(listQuery, s)}}
  /\ listChurn = 0
  /\ listOpen = TRUE

Answer(page) ==
  /\ listGot' = [id \in ListIds |-> listGot[id] + Cardinality({r \in page.data : r.id = id})]
  /\ listQuery' = [listQuery EXCEPT !.cur = page.next]
  /\ listOpen' = (page.next # NoCursor)
  /\ listScan' = {}
  /\ UNCHANGED <<listRows, listUsed, listStable, listChurn>>

(* The client fetches the next page.                                        *)
List ==
  /\ listOpen /\ listQuery.kind # "ingress_grants"
  /\ Answer(Page(listQuery))

(* One round of the ingress-grant handler's scan: it reads on until it has  *)
(* a full page of the caller's grants or the table ends; rows may change    *)
(* between two rounds of one request.                                       *)
ListGrants ==
  LET q == listQuery
      rows == ListIngressGrants(q, q.limit + 1)
      page == sortByCreatedAtID(rows, q.limit)
      want == q.limit - Cardinality(listScan)
      mine == sortByCreatedAtID({g \in page : q.scoped => g.own}, want)
  IN
  /\ listOpen /\ q.kind = "ingress_grants"
  /\ \/ /\ Cardinality(mine) = want
        /\ Answer([data |-> listScan \union mine, next |-> Encode(NewestOf(mine))])
     \/ /\ Cardinality(mine) < want
        /\ Cardinality(rows) <= q.limit
        /\ Answer([data |-> listScan \union mine, next |-> NoCursor])
     \/ /\ Cardinality(mine) < want
        /\ Cardinality(rows) > q.limit
        /\ listScan' = listScan \union mine
        /\ listQuery' = [q EXCEPT !.cur = Encode(NewestOf(page))]
        /\ UNCHANGED <<listRows, listUsed, listGot, listStable, listChurn, listOpen>>

(* The other writers: a row appears, disappears, dies or changes state.     *)
Rewrite(rows) ==
  /\ listOpen /\ listChurn < MaxChurn
  /\ listChurn' = listChurn + 1
  /\ listRows' = rows
  /\ listUsed' = listUsed \union {r.id : r \in rows}
  /\ listStable' = StillAsked(rows)
  /\ UNCHANGED <<listQuery, listScan, listGot, listOpen>>

RowCreated ==
  \E id \in ListIds \ listUsed, r \in NewRow(listQuery) :
    Rewrite(listRows \union {[r EXCEPT !.id = id]})
RowDeleted == \E r \in listRows : Rewrite(listRows \ {r})
RowDies ==
  \E r \in listRows :
    /\ DeathCounts(listQuery) /\ ~r.dead
    /\ Rewrite((listRows \ {r}) \union {[r EXCEPT !.dead = TRUE]})
RowChanges ==
  \E r \in listRows :
    FitsCounts(listQuery) /\ Rewrite((listRows \ {r}) \union {[r EXCEPT !.fits = ~@]})

ListNext == List \/ ListGrants \/ RowCreated \/ RowDeleted \/ RowDies \/ RowChanges
-----------------------------------------------------------------------------
=============================================================================
