------------------------------- MODULE Users -------------------------------
(***************************************************************************)
(* User rows, their username and email guards, and the API tokens they     *)
(* own: internal/etcdstore/users.go and api_tokens.go, driven by the users *)
(* and apitokens handlers, the login and token verification of             *)
(* internal/auth/service.go and the admin bootstrap of                     *)
(* internal/api/bootstrap.go.  Each call is a process whose steps are its  *)
(* round trips to etcd.  Passwords, display names and the like are one     *)
(* field, "own", that the user changes; "role" is what the admin changes.  *)
(***************************************************************************)
EXTENDS Naturals, FiniteSets

CONSTANTS UserIds,        \* ids of users (uuid.New, so never reused)
          UserNames, UserEmails,
          UserCalls,      \* the calls, each served once
          BootName        \* OTHERIX_BOOTSTRAP_ADMIN_USERNAME

(* "none" stands for no user; the bootstrap name is a username.             *)
ASSUME UserConstants == "none" \notin UserIds /\ BootName \in UserNames

VARIABLES userRow,        \* users/<id>
          userGuard,      \* uniq/users/...: <<kind, handle>> to user id
          userOwns,       \* the users some VM or snapshot row names as owner
          userTok,        \* the API token of each user
          userCall

userVars == <<userRow, userGuard, userOwns, userTok, userCall>>

NoUser == [state |-> "none"]
NoTok == [state |-> "none"]
NoEmail == "none"
Handles == ({"username"} \X UserNames) \union ({"email"} \X UserEmails)
Waiting == [pc |-> "new", user |-> "none", arg |-> NoUser, row |-> NoUser, tok |-> NoTok]

In(c, pc) == userCall[c].pc = pc
GotoU(c, pc) == userCall' = [userCall EXCEPT ![c].pc = pc]
Return(c) == userCall' = [userCall EXCEPT ![c] = [Waiting EXCEPT !.pc = "done"]]
Free(h) == userGuard[h] = "none"
UserByID(u) == userRow[u].state = "live"

HandlesOf(row) ==
  {<<"username", row.name>>} \union
  (IF row.email = NoEmail THEN {} ELSE {<<"email", row.email>>})

UserInit ==
  /\ userRow = [u \in UserIds |-> NoUser]
  /\ userGuard = [h \in Handles |-> "none"]
  /\ userOwns = {}
  /\ userTok = [u \in UserIds |-> NoTok]
  /\ userCall = [c \in UserCalls |-> Waiting]
-----------------------------------------------------------------------------
(* CreateUser: one transaction guarded by the absence of both handles.      *)
CreateUser(u, name, email, role) ==
  LET row == [state |-> "live", name |-> name, email |-> email, role |-> role,
              own |-> 0, login |-> FALSE, rev |-> 1] IN
  /\ userRow[u] = NoUser
  /\ \A h \in HandlesOf(row) : Free(h)
  /\ userRow' = [userRow EXCEPT ![u] = row]
  /\ userGuard' = [h \in Handles |-> IF h \in HandlesOf(row) THEN u ELSE userGuard[h]]

Create(c) ==
  /\ In(c, "new")
  /\ \E u \in UserIds, name \in UserNames, email \in UserEmails \union {NoEmail} :
       CreateUser(u, name, email, "user")
  /\ Return(c)
  /\ UNCHANGED <<userOwns, userTok>>

(* Each API replica bootstraps at start: no admin yet, then an insert whose *)
(* username collision means that another replica was first.                 *)
CountAdmins == Cardinality({u \in UserIds : UserByID(u) /\ userRow[u].role = "admin"})

BootstrapCount(c) ==
  /\ In(c, "new")
  /\ CountAdmins = 0
  /\ GotoU(c, "boot")
  /\ UNCHANGED <<userRow, userGuard, userOwns, userTok>>

BootstrapAdmin(c) ==
  /\ In(c, "boot")
  /\ \/ \E u \in UserIds : CreateUser(u, BootName, NoEmail, "admin")
     \/ ~Free(<<"username", BootName>>) /\ UNCHANGED <<userRow, userGuard>>
  /\ Return(c)
  /\ UNCHANGED <<userOwns, userTok>>
-----------------------------------------------------------------------------
(* Update and UpdateMe: the handler reads the row and applies the request's *)
(* fields to its copy, role included only for an admin; UpdateUser reads    *)
(* the row again and puts it back with the fields of that copy.  The email  *)
(* is never in the request, so no guard moves.                              *)
UpdateLoad(c, u, field) ==
  /\ In(c, "new")
  /\ UserByID(u)
  /\ userCall' = [userCall EXCEPT ![c] =
       [Waiting EXCEPT !.pc = "update", !.user = u,
          !.arg = IF field = "role"
                  THEN [userRow[u] EXCEPT !.role = IF @ = "admin" THEN "user" ELSE "admin"]
                  ELSE [userRow[u] EXCEPT !.own = 1]]]
  /\ UNCHANGED <<userRow, userGuard, userOwns, userTok>>

UpdateRead(c) ==
  /\ In(c, "update")
  /\ LET u == userCall[c].user IN
     IF UserByID(u)
     THEN userCall' = [userCall EXCEPT ![c].pc = "put", ![c].row = userRow[u]]
     ELSE Return(c)
  /\ UNCHANGED <<userRow, userGuard, userOwns, userTok>>

UpdateUser(c) ==
  /\ In(c, "put")
  /\ LET u == userCall[c].user
         arg == userCall[c].arg IN
     userRow' = [userRow EXCEPT ![u] =
       [userCall[c].row EXCEPT !.role = arg.role, !.own = arg.own, !.rev = userRow[u].rev + 1]]
  /\ Return(c)
  /\ UNCHANGED <<userGuard, userOwns, userTok>>

-----------------------------------------------------------------------------
(* Delete: the handler finds the user live and owning nothing; DeleteUser   *)
(* reads the row and the user's tokens and commits the soft delete, the     *)
(* guards' removal and the token revocations in one unguarded transaction.  *)
DeleteCheck(c, u) ==
  /\ In(c, "new")
  /\ UserByID(u)
  /\ u \notin userOwns
  /\ userCall' = [userCall EXCEPT ![c] = [Waiting EXCEPT !.pc = "delRead", !.user = u]]
  /\ UNCHANGED <<userRow, userGuard, userOwns, userTok>>

DeleteRead(c) ==
  /\ In(c, "delRead")
  /\ LET u == userCall[c].user IN
     IF UserByID(u)
     THEN userCall' = [userCall EXCEPT ![c].pc = "del", ![c].row = userRow[u],
                                       ![c].tok = userTok[u]]
     ELSE Return(c)
  /\ UNCHANGED <<userRow, userGuard, userOwns, userTok>>

revokeUserAPITokenOps(u, seen) ==
  IF seen = NoTok \/ seen.state = "revoked" THEN userTok
  ELSE [userTok EXCEPT ![u] = [state |-> "revoked", used |-> seen.used]]

(* Mutant: the email guard is left behind. *)
DropUsernameOnly(row) == {<<"username", row.name>>}

(* The guards the deletion drops. *)
DropGuards(row) == HandlesOf(row)

DeleteUser(c) ==
  /\ In(c, "del")
  /\ LET u == userCall[c].user
         row == userCall[c].row IN
     /\ userRow' = [userRow EXCEPT ![u] = [row EXCEPT !.state = "deleted",
                                                      !.rev = userRow[u].rev + 1]]
     /\ userGuard' = [h \in Handles |-> IF h \in DropGuards(row) THEN "none"
                                         ELSE userGuard[h]]
     /\ userTok' = revokeUserAPITokenOps(u, userCall[c].tok)
  /\ Return(c)
  /\ UNCHANGED userOwns

(* A VM or snapshot row of the user's is created or removed elsewhere.      *)
OwnResource(u) ==
  /\ UserByID(u)
  /\ userOwns' = IF u \in userOwns THEN userOwns \ {u} ELSE userOwns \union {u}
  /\ UNCHANGED <<userRow, userGuard, userTok, userCall>>
-----------------------------------------------------------------------------
(* Login finds the user through the username guard and, after the session   *)
(* is written, stamps last_login_at under a compare-and-set of the row it   *)
(* read.                                                                    *)
UserByUsername(c, name) ==
  /\ In(c, "new")
  /\ LET u == userGuard[<<"username", name>>] IN
     /\ u # "none"
     /\ UserByID(u)
     /\ userCall' = [userCall EXCEPT ![c] = [Waiting EXCEPT !.pc = "touchRead", !.user = u]]
  /\ UNCHANGED <<userRow, userGuard, userOwns, userTok>>

TouchLoginRead(c) ==
  /\ In(c, "touchRead")
  /\ LET u == userCall[c].user IN
     IF UserByID(u)
     THEN userCall' = [userCall EXCEPT ![c].pc = "touch", ![c].row = userRow[u]]
     ELSE Return(c)
  /\ UNCHANGED <<userRow, userGuard, userOwns, userTok>>

(* Mutant: the stamp is a plain put of the row as read. *)
blindUserUpdate(c) ==
  /\ In(c, "touch")
  /\ LET u == userCall[c].user IN
     userRow' = [userRow EXCEPT ![u] = [userCall[c].row EXCEPT !.login = TRUE,
                                                              !.rev = userRow[u].rev + 1]]
  /\ Return(c)
  /\ UNCHANGED <<userGuard, userOwns, userTok>>

casUserUpdate(c) ==
  /\ In(c, "touch")
  /\ LET u == userCall[c].user IN
     IF userRow[u].rev = userCall[c].row.rev
     THEN /\ userRow' = [userRow EXCEPT ![u] = [userCall[c].row EXCEPT !.login = TRUE,
                                                                     !.rev = @ + 1]]
          /\ Return(c)
     ELSE /\ GotoU(c, "touchRead") \/ Return(c)    \* again, up to maxAttempts
          /\ UNCHANGED userRow
  /\ UNCHANGED <<userGuard, userOwns, userTok>>
-----------------------------------------------------------------------------
(* API tokens: created for a live user, verified with a lookup of the       *)
(* token and of its user, stamped by a read and a put, revoked by a read    *)
(* and a put.                                                               *)
CreateCheck(c, u) ==
  /\ In(c, "new")
  /\ UserByID(u)
  /\ userCall' = [userCall EXCEPT ![c] = [Waiting EXCEPT !.pc = "mint", !.user = u]]
  /\ UNCHANGED <<userRow, userGuard, userOwns, userTok>>

CreateAPIToken(c) ==
  /\ In(c, "mint")
  /\ userTok[userCall[c].user] = NoTok
  /\ userTok' = [userTok EXCEPT ![userCall[c].user] = [state |-> "active", used |-> FALSE]]
  /\ Return(c)
  /\ UNCHANGED <<userRow, userGuard, userOwns>>

APITokenByHash(c, u) ==
  /\ In(c, "new")
  /\ userTok[u].state = "active"
  /\ userCall' = [userCall EXCEPT ![c] = [Waiting EXCEPT !.pc = "verify", !.user = u]]
  /\ UNCHANGED <<userRow, userGuard, userOwns, userTok>>

VerifyAPIToken(c) ==
  /\ In(c, "verify")
  /\ LET u == userCall[c].user IN
     IF UserByID(u)
     THEN GotoU(c, "stampRead")
     ELSE Return(c)
  /\ UNCHANGED <<userRow, userGuard, userOwns, userTok>>

TouchAPITokenRead(c) ==
  /\ In(c, "stampRead")
  /\ userCall' = [userCall EXCEPT ![c].pc = "stamp", ![c].tok = userTok[userCall[c].user]]
  /\ UNCHANGED <<userRow, userGuard, userOwns, userTok>>

TouchAPIToken(c) ==
  /\ In(c, "stamp")
  /\ userTok' = [userTok EXCEPT ![userCall[c].user] = [userCall[c].tok EXCEPT !.used = TRUE]]
  /\ Return(c)
  /\ UNCHANGED <<userRow, userGuard, userOwns>>

RevokeLoad(c, u) ==
  /\ In(c, "new")
  /\ userTok[u].state = "active"
  /\ userCall' = [userCall EXCEPT ![c] = [Waiting EXCEPT !.pc = "revoke", !.user = u,
                                                         !.tok = userTok[u]]]
  /\ UNCHANGED <<userRow, userGuard, userOwns, userTok>>

RevokeAPIToken(c) ==
  /\ In(c, "revoke")
  /\ userTok' = [userTok EXCEPT ![userCall[c].user] =
                   [userCall[c].tok EXCEPT !.state = "revoked"]]
  /\ Return(c)
  /\ UNCHANGED <<userRow, userGuard, userOwns>>

UserNext ==
  \/ \E c \in UserCalls :
       \/ Create(c) \/ BootstrapCount(c) \/ BootstrapAdmin(c)
       \/ UpdateRead(c) \/ UpdateUser(c) \/ DeleteRead(c) \/ DeleteUser(c)
       \/ TouchLoginRead(c) \/ casUserUpdate(c)
       \/ CreateAPIToken(c) \/ VerifyAPIToken(c) \/ TouchAPITokenRead(c)
       \/ TouchAPIToken(c) \/ RevokeAPIToken(c)
       \/ \E name \in UserNames : UserByUsername(c, name)
       \/ \E u \in UserIds :
            \/ \E field \in {"role", "own"} : UpdateLoad(c, u, field)
            \/ DeleteCheck(c, u) \/ CreateCheck(c, u)
            \/ APITokenByHash(c, u) \/ RevokeLoad(c, u)
  \/ \E u \in UserIds : OwnResource(u)

UserSpec == UserInit /\ [][UserNext]_userVars
-----------------------------------------------------------------------------
(* A handle that is taken names a live user who holds it: no interleaving   *)
(* of creations, deletions, bootstraps and updates leaves a username or an  *)
(* email that can neither be looked up nor be taken again.                  *)
HandlesFreed ==
  \A h \in Handles : ~Free(h) =>
    /\ UserByID(userGuard[h])
    /\ h \in HandlesOf(userRow[userGuard[h]])

StampKeeps ==
  \A u \in UserIds : \A c \in UserCalls :
    In(c, "touch") /\ userCall'[c].pc # "touch" /\ userRow'[u] # userRow[u] =>
      [userRow'[u] EXCEPT !.login = userRow[u].login, !.rev = userRow[u].rev]
        = userRow[u]

(* The last-login stamp of a login never reverts what another call wrote:   *)
(* a role change or a deletion that lands between the stamp's read and its  *)
(* write survives it.                                                       *)
LoginKeepsAdminWrite == [][StampKeeps]_userVars

=============================================================================
