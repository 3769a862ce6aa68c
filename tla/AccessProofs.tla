---------------------------- MODULE AccessProofs ----------------------------
(***************************************************************************)
(* Accounts and idempotency keys, for any number of users, handles and     *)
(* calls. First Users: a handle that is taken names a live user who holds  *)
(* it, and the stamp of a login undoes no administrator's write. Then      *)
(* Idempotency: a key enqueues at most one task while its index lives, and *)
(* an answer names a task of the request's own body.                       *)
(***************************************************************************)
EXTENDS Idempotency, Users, TLAPS

(* The user rows, and what a call remembers between round trips.           *)
UserRow == [state : {"live", "deleted"}, name : UserNames,
            email : UserEmails \cup {NoEmail}, role : {"user", "admin"},
            own : {0, 1}, login : BOOLEAN, rev : Nat]

UserTypeOK ==
    /\ userCall = [c \in UserCalls |-> userCall[c]]
    /\ userRow \in [UserIds -> UserRow \cup {NoUser}]
    /\ userGuard \in [Handles -> UserIds \cup {"none"}]
    /\ \A c \in UserCalls :
         DOMAIN userCall[c] = {"pc", "user", "arg", "row", "tok"}

(* A call that works on a user names one that was created, and what it     *)
(* read is that user's row but for the fields an update or a stamp sets;   *)
(* a stamp whose compare would succeed holds the row as it is.             *)
RowPcs == {"put", "del", "touch"}

UserHeld(c) ==
    LET k == userCall[c] IN
    /\ k.pc \in {"update", "put", "delRead", "del", "touchRead", "touch"} =>
         k.user \in UserIds /\ userRow[k.user] # NoUser
    /\ k.pc \in {"update", "put"} => k.arg \in UserRow
    /\ k.pc \in RowPcs =>
         /\ k.row \in UserRow /\ k.row.state = "live"
         /\ k.row.name = userRow[k.user].name
         /\ k.row.email = userRow[k.user].email
         /\ k.row.rev <= userRow[k.user].rev
    /\ k.pc = "touch" /\ k.row.rev = userRow[k.user].rev => k.row = userRow[k.user]

UserInv ==
    /\ UserTypeOK
    /\ HandlesFreed
    /\ \A c \in UserCalls : UserHeld(c)

(* What a call's own record becomes.                                       *)
LEMMA UserRecord ==
    ASSUME UserTypeOK, NEW c \in UserCalls, NEW r,
           userCall' = [userCall EXCEPT ![c] = r],
           DOMAIN r = {"pc", "user", "arg", "row", "tok"}
    PROVE  /\ userCall' = [e \in UserCalls |-> userCall'[e]]
           /\ \A e \in UserCalls :
                DOMAIN userCall'[e] = {"pc", "user", "arg", "row", "tok"}
           /\ userCall'[c] = r
           /\ \A e \in UserCalls \ {c} : userCall'[e] = userCall[e]
<1>1. userCall' = [e \in UserCalls |-> IF e = c THEN r ELSE userCall[e]]
  BY DEF UserTypeOK
<1> QED
  BY <1>1 DEF UserTypeOK

(* A step of c that leaves the rows and guards alone.                      *)
LEMMA UserMoves ==
    ASSUME UserInv, NEW c \in UserCalls, NEW r,
           userCall' = [userCall EXCEPT ![c] = r],
           DOMAIN r = {"pc", "user", "arg", "row", "tok"},
           UNCHANGED <<userRow, userGuard>>, UserHeld(c)'
    PROVE  UserInv'
<1>1. UserTypeOK
  BY DEF UserInv
<1>2. UserTypeOK'
  BY <1>1, UserRecord, ZenonT(20) DEF UserTypeOK
<1>3. HandlesFreed'
  BY DEF UserInv, HandlesFreed, Free, UserByID
<1>4. \A e \in UserCalls \ {c} : UserHeld(e)'
  BY <1>1, UserRecord DEF UserInv, UserHeld
<1> QED
  BY <1>2, <1>3, <1>4 DEF UserInv

(* A write of one row under a new revision, with the name and the email    *)
(* the row had, by a call that returns.                                    *)
LEMMA UserWrites ==
    ASSUME UserInv, NEW c \in UserCalls, NEW u \in UserIds, NEW row \in UserRow,
           Return(c), userRow' = [userRow EXCEPT ![u] = row],
           userRow[u] # NoUser => /\ row.name = userRow[u].name
                                  /\ row.email = userRow[u].email
                                  /\ row.rev = userRow[u].rev + 1,
           userGuard' \in [Handles -> UserIds \cup {"none"}], HandlesFreed'
    PROVE  UserInv'
<1> DEFINE r == [Waiting EXCEPT !.pc = "done"]
<1>1. DOMAIN r = {"pc", "user", "arg", "row", "tok"} /\ r.pc = "done"
  BY DEF Waiting
<1>2. userCall' = [userCall EXCEPT ![c] = r]
  BY DEF Return
<1> HIDE DEF r
<1>3. /\ UserTypeOK /\ userRow'[u] = row
      /\ \A v \in UserIds \ {u} : userRow'[v] = userRow[v]
      /\ userRow' \in [UserIds -> UserRow \cup {NoUser}]
  BY DEF UserInv, UserTypeOK
<1>4. UserTypeOK'
  BY <1>1, <1>2, <1>3, UserRecord, Zenon DEF UserTypeOK
<1>5. NoUser \notin UserRow
  BY DEF NoUser, UserRow
<1>6. UserHeld(c)'
  BY <1>1, <1>2, <1>3, UserRecord, Zenon DEF UserHeld, RowPcs
<1>7. ASSUME NEW e \in UserCalls \ {c}
      PROVE  UserHeld(e)'
  <2> DEFINE k == userCall[e]
  <2>1. userCall'[e] = k
    BY <1>1, <1>2, <1>3, UserRecord
  <2>2. UserHeld(e)
    BY DEF UserInv
  <2>3. k.pc \in {"update", "put"} => k.arg \in UserRow
    BY <2>2 DEF UserHeld
  <2>4. CASE k.pc \notin {"update", "put", "delRead", "del", "touchRead", "touch"}
    BY <2>1, <2>4 DEF UserHeld, RowPcs
  <2>5. CASE k.pc \in {"update", "put", "delRead", "del", "touchRead", "touch"}
    <3>1. k.user \in UserIds /\ userRow[k.user] \in UserRow
      BY <1>3, <2>2, <2>5 DEF UserHeld, UserTypeOK
    <3>2. k.pc \in RowPcs =>
            /\ k.row \in UserRow /\ k.row.state = "live"
            /\ k.row.name = userRow[k.user].name
            /\ k.row.email = userRow[k.user].email
            /\ k.row.rev <= userRow[k.user].rev
      BY <2>2 DEF UserHeld
    <3>3. CASE k.user = u
      <4>1. /\ row.name = userRow[u].name /\ row.email = userRow[u].email
            /\ row.rev = userRow[u].rev + 1 /\ userRow[u].rev \in Nat
        BY <1>5, <3>1, <3>3 DEF UserRow
      <4>2. k.pc \in RowPcs => k.row.rev < row.rev /\ k.row.rev \in Nat
        BY <3>2, <3>3, <4>1, SMTT(40) DEF UserRow
      <4> HIDE DEF k
      <4> QED
        BY <1>3, <1>5, <2>1, <2>3, <3>1, <3>2, <3>3, <4>1, <4>2
        DEF UserHeld, RowPcs, UserRow
    <3>4. CASE k.user # u
      <4>1. userRow'[k.user] = userRow[k.user]
        BY <1>3, <3>1, <3>4
      <4> QED
        BY <2>1, <2>2, <4>1 DEF UserHeld
    <3> QED
      BY <3>3, <3>4
  <2> QED
    BY <2>4, <2>5
<1> QED
  BY <1>4, <1>6, <1>7 DEF UserInv

(* A call that holds no user, one that names a user, one that has just     *)
(* read the user's row.                                                    *)
LEMMA PlainMove ==
    ASSUME UserInv, NEW c \in UserCalls, NEW r,
           userCall' = [userCall EXCEPT ![c] = r],
           DOMAIN r = {"pc", "user", "arg", "row", "tok"},
           r.pc \notin {"update", "put", "delRead", "del", "touchRead", "touch"},
           UNCHANGED <<userRow, userGuard>>
    PROVE  UserInv'
<1>1. userCall'[c] = r
  BY UserRecord, Zenon DEF UserInv
<1>2. UserHeld(c)'
  BY <1>1 DEF UserHeld, RowPcs
<1> QED
  BY <1>2, UserMoves, Zenon

(* A call that only looked a user up by name or id knows an id. *)
LEMMA NameMove ==
    ASSUME UserInv, NEW c \in UserCalls, NEW r,
           userCall' = [userCall EXCEPT ![c] = r],
           DOMAIN r = {"pc", "user", "arg", "row", "tok"},
           r.pc \in {"update", "delRead", "touchRead"},
           r.user \in UserIds, userRow[r.user] # NoUser,
           r.pc = "update" => r.arg \in UserRow,
           UNCHANGED <<userRow, userGuard>>
    PROVE  UserInv'
<1>1. userCall'[c] = r
  BY UserRecord, Zenon DEF UserInv
<1>2. UserHeld(c)'
  BY <1>1 DEF UserHeld, RowPcs
<1> QED
  BY <1>2, UserMoves, Zenon

(* A call that read a live row remembers a row that exists. *)
LEMMA SeenMove ==
    ASSUME UserInv, NEW c \in UserCalls, NEW r,
           userCall' = [userCall EXCEPT ![c] = r],
           DOMAIN r = {"pc", "user", "arg", "row", "tok"},
           r.pc \in RowPcs, r.user \in UserIds, r.row = userRow[r.user],
           UserByID(r.user), r.pc = "put" => r.arg \in UserRow,
           UNCHANGED <<userRow, userGuard>>
    PROVE  UserInv'
<1>1. userCall'[c] = r
  BY UserRecord, Zenon DEF UserInv
<1>2. userRow[r.user] \in UserRow /\ userRow[r.user] # NoUser
      /\ r.row.rev \in Nat /\ r.row.state = "live"
  BY DEF UserInv, UserTypeOK, UserByID, NoUser, UserRow
<1>3. UserHeld(c)'
  BY <1>1, <1>2 DEF UserHeld, RowPcs
<1> QED
  BY <1>3, UserMoves, Zenon

(* A call that returns forgets what it knew. *)
LEMMA ReturnMove ==
    ASSUME UserInv, NEW c \in UserCalls, Return(c),
           UNCHANGED <<userRow, userGuard>>
    PROVE  UserInv'
<1> DEFINE r == [Waiting EXCEPT !.pc = "done"]
<1>1. DOMAIN r = {"pc", "user", "arg", "row", "tok"} /\ r.pc = "done"
  BY DEF Waiting
<1>2. userCall' = [userCall EXCEPT ![c] = r]
  BY DEF Return
<1> HIDE DEF r
<1> QED
  BY <1>1, <1>2, PlainMove, Zenon

(* A call that moves on without writing keeps what it knew. *)
LEMMA GotoMove ==
    ASSUME UserInv, NEW c \in UserCalls, NEW pc, GotoU(c, pc),
           pc \in {"boot", "stampRead"}, UNCHANGED <<userRow, userGuard>>
    PROVE  UserInv'
<1> DEFINE r == [userCall[c] EXCEPT !.pc = pc]
<1>1. DOMAIN r = {"pc", "user", "arg", "row", "tok"} /\ r.pc = pc
  BY DEF UserInv, UserTypeOK
<1>2. userCall' = [userCall EXCEPT ![c] = r]
  BY DEF GotoU
<1> HIDE DEF r
<1> QED
  BY <1>1, <1>2, PlainMove, Zenon

(* A live row is a row.                                                    *)
LEMMA LiveRow ==
    ASSUME UserTypeOK, NEW u \in UserIds, UserByID(u)
    PROVE  userRow[u] \in UserRow /\ userRow[u] # NoUser
  BY DEF UserTypeOK, UserByID, NoUser

(* The calls that only read users.                                         *)
LEMMA UserReads ==
    ASSUME UserInv, NEW c \in UserCalls,
           \/ BootstrapCount(c) \/ UpdateRead(c) \/ DeleteRead(c)
           \/ TouchLoginRead(c)
           \/ \E name \in UserNames : UserByUsername(c, name)
           \/ \E u \in UserIds :
                \/ \E field \in {"role", "own"} : UpdateLoad(c, u, field)
                \/ DeleteCheck(c, u)
    PROVE  UserInv'
<1>1. UserTypeOK /\ UserHeld(c)
  BY DEF UserInv
<1>2. DOMAIN userCall[c] = {"pc", "user", "arg", "row", "tok"}
  BY <1>1 DEF UserTypeOK
<1>3. CASE BootstrapCount(c)
  BY <1>3, GotoMove DEF BootstrapCount
<1>4. CASE UpdateRead(c)
  <2> DEFINE u == userCall[c].user
             r == [userCall[c] EXCEPT !.pc = "put", !.row = userRow[u]]
  <2>1. u \in UserIds /\ userCall[c].arg \in UserRow
    BY <1>1, <1>4 DEF UpdateRead, In, UserHeld
  <2>2. /\ DOMAIN r = {"pc", "user", "arg", "row", "tok"} /\ r.pc = "put"
        /\ r.user = u /\ r.row = userRow[u] /\ r.arg = userCall[c].arg
    BY <1>2
  <2>3. \/ Return(c)
        \/ UserByID(u) /\ userCall' = [userCall EXCEPT ![c] = r]
    BY <1>4, Zenon DEF UpdateRead
  <2>4. UNCHANGED <<userRow, userGuard>>
    BY <1>4 DEF UpdateRead
  <2> HIDE DEF r, u
  <2>5. CASE Return(c)
    BY <2>4, <2>5, ReturnMove
  <2>6. CASE UserByID(u) /\ userCall' = [userCall EXCEPT ![c] = r]
    BY <2>1, <2>2, <2>4, <2>6, SeenMove, Zenon DEF RowPcs
  <2> QED
    BY <2>3, <2>5, <2>6
<1>5. CASE DeleteRead(c)
  <2> DEFINE u == userCall[c].user
             r == [userCall[c] EXCEPT !.pc = "del", !.row = userRow[u],
                                      !.tok = userTok[u]]
  <2>1. u \in UserIds
    BY <1>1, <1>5 DEF DeleteRead, In, UserHeld
  <2>2. /\ DOMAIN r = {"pc", "user", "arg", "row", "tok"} /\ r.pc = "del"
        /\ r.user = u /\ r.row = userRow[u]
    BY <1>2
  <2>3. \/ Return(c)
        \/ UserByID(u) /\ userCall' = [userCall EXCEPT ![c] = r]
    BY <1>5, Zenon DEF DeleteRead
  <2>4. UNCHANGED <<userRow, userGuard>>
    BY <1>5 DEF DeleteRead
  <2> HIDE DEF r, u
  <2>5. CASE Return(c)
    BY <2>4, <2>5, ReturnMove
  <2>6. CASE UserByID(u) /\ userCall' = [userCall EXCEPT ![c] = r]
    BY <2>1, <2>2, <2>4, <2>6, SeenMove, Zenon DEF RowPcs
  <2> QED
    BY <2>3, <2>5, <2>6
<1>6. CASE TouchLoginRead(c)
  <2> DEFINE u == userCall[c].user
             r == [userCall[c] EXCEPT !.pc = "touch", !.row = userRow[u]]
  <2>1. u \in UserIds
    BY <1>1, <1>6 DEF TouchLoginRead, In, UserHeld
  <2>2. /\ DOMAIN r = {"pc", "user", "arg", "row", "tok"} /\ r.pc = "touch"
        /\ r.user = u /\ r.row = userRow[u]
    BY <1>2
  <2>3. \/ Return(c)
        \/ UserByID(u) /\ userCall' = [userCall EXCEPT ![c] = r]
    BY <1>6, Zenon DEF TouchLoginRead
  <2>4. UNCHANGED <<userRow, userGuard>>
    BY <1>6 DEF TouchLoginRead
  <2> HIDE DEF r, u
  <2>5. CASE Return(c)
    BY <2>4, <2>5, ReturnMove
  <2>6. CASE UserByID(u) /\ userCall' = [userCall EXCEPT ![c] = r]
    BY <2>1, <2>2, <2>4, <2>6, SeenMove, Zenon DEF RowPcs
  <2> QED
    BY <2>3, <2>5, <2>6
<1>7. ASSUME NEW name \in UserNames, UserByUsername(c, name)
      PROVE  UserInv'
  <2> DEFINE u == userGuard[<<"username", name>>]
             r == [Waiting EXCEPT !.pc = "touchRead", !.user = u]
  <2>1. u \in UserIds /\ UserByID(u)
    <3>1. <<"username", name>> \in Handles
      BY DEF Handles
    <3> QED
      BY <1>1, <1>7, <3>1, Zenon DEF UserByUsername, UserTypeOK
  <2>2. /\ DOMAIN r = {"pc", "user", "arg", "row", "tok"}
        /\ r.pc = "touchRead" /\ r.user = u
    BY SMTT(40) DEF Waiting
  <2>3. userCall' = [userCall EXCEPT ![c] = r] /\ UNCHANGED <<userRow, userGuard>>
    BY <1>7, Zenon DEF UserByUsername
  <2> HIDE DEF r, u
  <2> QED
    BY <1>1, <2>1, <2>2, <2>3, LiveRow, NameMove, Zenon
<1>8. ASSUME NEW u \in UserIds, NEW field \in {"role", "own"},
             UpdateLoad(c, u, field)
      PROVE  UserInv'
  <2> DEFINE a == IF field = "role"
                  THEN [userRow[u] EXCEPT !.role = IF @ = "admin" THEN "user"
                                                   ELSE "admin"]
                  ELSE [userRow[u] EXCEPT !.own = 1]
             r == [Waiting EXCEPT !.pc = "update", !.user = u, !.arg = a]
  <2>1. userRow[u] \in UserRow /\ userRow[u] # NoUser
    BY <1>1, <1>8, LiveRow, Zenon DEF UpdateLoad
  <2>2. userCall' = [userCall EXCEPT ![c] = r] /\ UNCHANGED <<userRow, userGuard>>
    BY <1>8, Zenon DEF UpdateLoad
  <2>3. a \in UserRow
    BY <2>1 DEF UserRow
  <2> HIDE DEF a
  <2>4. /\ DOMAIN r = {"pc", "user", "arg", "row", "tok"}
        /\ r.pc = "update" /\ r.user = u /\ r.arg = a
    BY DEF Waiting
  <2> HIDE DEF r
  <2> QED
    BY <2>1, <2>2, <2>3, <2>4, NameMove, ZenonT(60)
<1>9. ASSUME NEW u \in UserIds, DeleteCheck(c, u)
      PROVE  UserInv'
  <2> DEFINE r == [Waiting EXCEPT !.pc = "delRead", !.user = u]
  <2>1. userRow[u] # NoUser
    BY <1>1, <1>9, LiveRow, Zenon DEF DeleteCheck
  <2>2. userCall' = [userCall EXCEPT ![c] = r] /\ UNCHANGED <<userRow, userGuard>>
    BY <1>9, Zenon DEF DeleteCheck
  <2>3. /\ DOMAIN r = {"pc", "user", "arg", "row", "tok"}
        /\ r.pc = "delRead" /\ r.user = u
    BY DEF Waiting
  <2> HIDE DEF r
  <2> QED
    BY <2>1, <2>2, <2>3, NameMove, ZenonT(60)
<1> QED
  BY <1>3, <1>4, <1>5, <1>6, <1>7, <1>8, <1>9

(* The calls about API tokens, which leave users and guards alone.         *)
LEMMA TokenCalls ==
    ASSUME UserInv, NEW c \in UserCalls,
           \/ CreateAPIToken(c) \/ VerifyAPIToken(c) \/ TouchAPITokenRead(c)
           \/ TouchAPIToken(c) \/ RevokeAPIToken(c)
           \/ \E u \in UserIds :
                CreateCheck(c, u) \/ APITokenByHash(c, u) \/ RevokeLoad(c, u)
    PROVE  UserInv'
<1>1. DOMAIN userCall[c] = {"pc", "user", "arg", "row", "tok"}
  BY DEF UserInv, UserTypeOK
<1>2. CASE CreateAPIToken(c) \/ TouchAPIToken(c) \/ RevokeAPIToken(c)
  BY <1>2, ReturnMove DEF CreateAPIToken, TouchAPIToken, RevokeAPIToken
<1>3. CASE VerifyAPIToken(c)
  BY <1>3, ReturnMove, GotoMove DEF VerifyAPIToken
<1>4. CASE TouchAPITokenRead(c)
  <2> DEFINE r == [userCall[c] EXCEPT !.pc = "stamp",
                                      !.tok = userTok[userCall[c].user]]
  <2>1. userCall' = [userCall EXCEPT ![c] = r] /\ UNCHANGED <<userRow, userGuard>>
    BY <1>4, Zenon DEF TouchAPITokenRead
  <2>2. DOMAIN r = {"pc", "user", "arg", "row", "tok"} /\ r.pc = "stamp"
    BY <1>1
  <2> HIDE DEF r
  <2> QED
    BY <2>1, <2>2, PlainMove, Zenon
<1>5. ASSUME NEW u \in UserIds, CreateCheck(c, u)
      PROVE  UserInv'
  <2> DEFINE r == [Waiting EXCEPT !.pc = "mint", !.user = u]
  <2>1. userCall' = [userCall EXCEPT ![c] = r] /\ UNCHANGED <<userRow, userGuard>>
    BY <1>5, Zenon DEF CreateCheck
  <2>2. DOMAIN r = {"pc", "user", "arg", "row", "tok"} /\ r.pc = "mint"
    BY DEF Waiting
  <2> HIDE DEF r
  <2> QED
    BY <2>1, <2>2, PlainMove, Zenon
<1>6. ASSUME NEW u \in UserIds, APITokenByHash(c, u)
      PROVE  UserInv'
  <2> DEFINE r == [Waiting EXCEPT !.pc = "verify", !.user = u]
  <2>1. userCall' = [userCall EXCEPT ![c] = r] /\ UNCHANGED <<userRow, userGuard>>
    BY <1>6, Zenon DEF APITokenByHash
  <2>2. DOMAIN r = {"pc", "user", "arg", "row", "tok"} /\ r.pc = "verify"
    BY DEF Waiting
  <2> HIDE DEF r
  <2> QED
    BY <2>1, <2>2, PlainMove, Zenon
<1>7. ASSUME NEW u \in UserIds, RevokeLoad(c, u)
      PROVE  UserInv'
  <2> DEFINE r == [Waiting EXCEPT !.pc = "revoke", !.user = u, !.tok = userTok[u]]
  <2>1. userCall' = [userCall EXCEPT ![c] = r] /\ UNCHANGED <<userRow, userGuard>>
    BY <1>7, Zenon DEF RevokeLoad
  <2>2. DOMAIN r = {"pc", "user", "arg", "row", "tok"} /\ r.pc = "revoke"
    BY DEF Waiting
  <2> HIDE DEF r
  <2> QED
    BY <2>1, <2>2, PlainMove, Zenon
<1> QED
  BY <1>2, <1>3, <1>4, <1>5, <1>6, <1>7

(* A new user takes handles that were free.                                *)
LEMMA CreateUserKeeps ==
    ASSUME UserInv, NEW c \in UserCalls, NEW u \in UserIds,
           NEW name \in UserNames, NEW email \in UserEmails \cup {NoEmail},
           NEW role \in {"user", "admin"},
           CreateUser(u, name, email, role), Return(c)
    PROVE  UserInv'
<1> DEFINE row == [state |-> "live", name |-> name, email |-> email,
                   role |-> role, own |-> 0, login |-> FALSE, rev |-> 1]
<1>1. row \in UserRow /\ row.state = "live"
  BY DEF UserRow
<1>2. /\ userRow[u] = NoUser /\ userRow' = [userRow EXCEPT ![u] = row]
      /\ userGuard' = [h \in Handles |-> IF h \in HandlesOf(row) THEN u
                                          ELSE userGuard[h]]
  BY DEF CreateUser
<1> HIDE DEF row
<1>3. /\ userRow'[u] = row /\ \A v \in UserIds \ {u} : userRow'[v] = userRow[v]
      /\ userGuard \in [Handles -> UserIds \cup {"none"}]
  BY <1>2 DEF UserInv, UserTypeOK
<1>4. userGuard' \in [Handles -> UserIds \cup {"none"}]
  BY <1>2, <1>3
<1>5. HandlesFreed'
  <2> SUFFICES ASSUME NEW h \in Handles, userGuard'[h] # "none"
               PROVE  /\ userRow'[userGuard'[h]].state = "live"
                      /\ h \in HandlesOf(userRow'[userGuard'[h]])
    BY DEF HandlesFreed, Free, UserByID, HandlesOf
  <2>1. CASE h \in HandlesOf(row)
    BY <1>1, <1>2, <1>3, <2>1
  <2>2. CASE h \notin HandlesOf(row)
    <3>1. userGuard'[h] = userGuard[h] /\ userGuard[h] \in UserIds
      BY <1>2, <1>3, <2>2
    <3>2. /\ userRow[userGuard[h]].state = "live"
          /\ h \in HandlesOf(userRow[userGuard[h]])
      BY <3>1 DEF UserInv, HandlesFreed, Free, UserByID
    <3>3. userGuard[h] # u
      BY <1>2, <3>2 DEF NoUser
    <3> QED
      BY <1>3, <3>1, <3>2, <3>3
  <2> QED
    BY <2>1, <2>2
<1> QED
  BY <1>1, <1>2, <1>4, <1>5, UserWrites, Zenon

(* The row an update, a deletion and a login's stamp write back.           *)
UpdatedRow(row, arg, n) == [row EXCEPT !.role = arg.role, !.own = arg.own, !.rev = n]
DeletedRow(row, n) == [row EXCEPT !.state = "deleted", !.rev = n]
StampedRow(row, n) == [row EXCEPT !.login = TRUE, !.rev = n]

(* An admin's write keeps the row's handles and its state. *)
LEMMA UpdatedFacts ==
    ASSUME NEW row \in UserRow, NEW arg \in UserRow, NEW n \in Nat
    PROVE  /\ UpdatedRow(row, arg, n) \in UserRow
           /\ UpdatedRow(row, arg, n).rev = n
           /\ UpdatedRow(row, arg, n).state = row.state
           /\ UpdatedRow(row, arg, n).name = row.name
           /\ UpdatedRow(row, arg, n).email = row.email
  BY Zenon DEF UpdatedRow, UserRow

(* A soft delete keeps the handles in the row. *)
LEMMA DeletedFacts ==
    ASSUME NEW row \in UserRow, NEW n \in Nat
    PROVE  /\ DeletedRow(row, n) \in UserRow /\ DeletedRow(row, n).rev = n
           /\ DeletedRow(row, n).name = row.name
           /\ DeletedRow(row, n).email = row.email
  BY Zenon DEF DeletedRow, UserRow

(* A login stamp keeps the row's handles and its state. *)
LEMMA StampedFacts ==
    ASSUME NEW row \in UserRow, NEW n \in Nat
    PROVE  /\ StampedRow(row, n) \in UserRow /\ StampedRow(row, n).rev = n
           /\ StampedRow(row, n).state = row.state
           /\ StampedRow(row, n).name = row.name
           /\ StampedRow(row, n).email = row.email
  BY Zenon DEF StampedRow, UserRow

(* But for the stamp and the revision the row is as it was.                *)
LEMMA StampedBack ==
    ASSUME NEW row \in UserRow, NEW n \in Nat
    PROVE  [StampedRow(row, n) EXCEPT !.login = row.login, !.rev = row.rev] = row
  BY Zenon DEF StampedRow, UserRow

(* A live row written back with its handles keeps every guard right.       *)
LEMMA GuardsKept ==
    ASSUME UserInv, NEW u \in UserIds, NEW row,
           userRow' = [userRow EXCEPT ![u] = row], UNCHANGED userGuard,
           row.state = "live", row.name = userRow[u].name,
           row.email = userRow[u].email
    PROVE  /\ userGuard' \in [Handles -> UserIds \cup {"none"}]
           /\ HandlesFreed'
<1>1. /\ userRow'[u] = row /\ \A v \in UserIds \ {u} : userRow'[v] = userRow[v]
      /\ userGuard \in [Handles -> UserIds \cup {"none"}]
  BY DEF UserInv, UserTypeOK
<1>2. HandlesOf(row) = HandlesOf(userRow[u])
  BY DEF HandlesOf
<1> SUFFICES ASSUME NEW h \in Handles, userGuard[h] # "none"
             PROVE  /\ userRow'[userGuard[h]].state = "live"
                    /\ h \in HandlesOf(userRow'[userGuard[h]])
  BY <1>1 DEF HandlesFreed, Free, UserByID, HandlesOf
<1>3. /\ userRow[userGuard[h]].state = "live" /\ userGuard[h] \in UserIds
      /\ h \in HandlesOf(userRow[userGuard[h]])
  BY <1>1 DEF UserInv, HandlesFreed, Free, UserByID
<1>4. CASE userGuard[h] = u
  BY <1>1, <1>2, <1>3, <1>4
<1>5. CASE userGuard[h] # u
  BY <1>1, <1>3, <1>5, SMTT(40)
<1> QED
  BY <1>4, <1>5

(* What a call at its write holds.                                         *)
LEMMA AtWrite ==
    ASSUME UserInv, NEW c \in UserCalls, userCall[c].pc \in RowPcs
    PROVE  LET k == userCall[c] IN
           /\ k.user \in UserIds /\ userRow[k.user] # NoUser
           /\ k.row \in UserRow /\ k.row.state = "live"
           /\ k.row.name = userRow[k.user].name
           /\ k.row.email = userRow[k.user].email
           /\ userRow[k.user].rev \in Nat
           /\ k.pc = "put" => k.arg \in UserRow
<1>1. UserHeld(c) /\ UserTypeOK
  BY DEF UserInv
<1> QED
  BY <1>1 DEF UserHeld, RowPcs, UserTypeOK, UserRow

(* The writes of user rows.                                                *)
LEMMA UserRowSteps ==
    ASSUME UserInv, NEW c \in UserCalls,
           \/ Create(c) \/ BootstrapAdmin(c) \/ UpdateUser(c) \/ DeleteUser(c)
    PROVE  UserInv'
<1>1. CASE Create(c)
  BY <1>1, CreateUserKeeps DEF Create
<1>2. CASE BootstrapAdmin(c)
  BY <1>2, CreateUserKeeps, ReturnMove, UserConstants DEF BootstrapAdmin
<1>3. CASE UpdateUser(c)
  <2> DEFINE k == userCall[c]
             u == k.user
             n == userRow[u].rev + 1
             row == UpdatedRow(k.row, k.arg, n)
  <2>1. k.pc = "put" /\ k.pc \in RowPcs
    BY <1>3 DEF UpdateUser, In, RowPcs
  <2>2. /\ u \in UserIds /\ userRow[u] # NoUser /\ k.row \in UserRow
        /\ k.row.state = "live" /\ k.row.name = userRow[u].name
        /\ k.row.email = userRow[u].email /\ n \in Nat /\ k.arg \in UserRow
    BY <2>1, AtWrite
  <2>3. /\ userRow' = [userRow EXCEPT ![u] = row] /\ Return(c) /\ UNCHANGED userGuard
    BY <1>3 DEF UpdateUser, UpdatedRow
  <2>6. userRow[u].rev + 1 = n
    OBVIOUS
  <2> HIDE DEF k, u, n
  <2>4. /\ row \in UserRow /\ row.rev = n /\ row.state = "live"
        /\ row.name = userRow[u].name /\ row.email = userRow[u].email
    BY <2>2, UpdatedFacts, ZenonT(60)
  <2> HIDE DEF row
  <2>5. /\ userGuard' \in [Handles -> UserIds \cup {"none"}] /\ HandlesFreed'
    BY <2>2, <2>3, <2>4, GuardsKept, Zenon
  <2> QED
    BY <2>2, <2>3, <2>4, <2>5, <2>6, UserWrites, Zenon
<1>4. CASE DeleteUser(c)
  <2> DEFINE k == userCall[c]
             u == k.user
             n == userRow[u].rev + 1
             row == DeletedRow(k.row, n)
  <2>1. k.pc = "del" /\ k.pc \in RowPcs
    BY <1>4 DEF DeleteUser, In, RowPcs
  <2>2. /\ u \in UserIds /\ userRow[u] # NoUser /\ k.row \in UserRow
        /\ k.row.state = "live" /\ k.row.name = userRow[u].name
        /\ k.row.email = userRow[u].email /\ n \in Nat
    BY <2>1, AtWrite
  <2>3. /\ userRow' = [userRow EXCEPT ![u] = row] /\ Return(c)
        /\ userGuard' = [h \in Handles |-> IF h \in HandlesOf(k.row) THEN "none"
                                            ELSE userGuard[h]]
    BY <1>4 DEF DeleteUser, DropGuards, DeletedRow
  <2>4. /\ row \in UserRow /\ row.rev = n
        /\ row.name = userRow[u].name /\ row.email = userRow[u].email
    BY <2>2, DeletedFacts, Zenon
  <2>5. HandlesOf(k.row) = HandlesOf(userRow[u])
    BY <2>2 DEF HandlesOf
  <2> HIDE DEF row, u, k
  <2>6. /\ \A v \in UserIds \ {u} : userRow'[v] = userRow[v]
        /\ userGuard \in [Handles -> UserIds \cup {"none"}]
    BY <2>3 DEF UserInv, UserTypeOK
  <2>7. userGuard' \in [Handles -> UserIds \cup {"none"}]
    BY <2>3, <2>6
  <2>8. HandlesFreed'
    <3> SUFFICES ASSUME NEW h \in Handles, userGuard'[h] # "none"
                 PROVE  /\ userRow'[userGuard'[h]].state = "live"
                        /\ h \in HandlesOf(userRow'[userGuard'[h]])
      BY DEF HandlesFreed, Free, UserByID, HandlesOf
    <3>1. userGuard'[h] = userGuard[h] /\ h \notin HandlesOf(userRow[u])
      BY <2>3, <2>5
    <3>2. /\ userRow[userGuard[h]].state = "live" /\ userGuard[h] \in UserIds
          /\ h \in HandlesOf(userRow[userGuard[h]])
      BY <2>6, <3>1 DEF UserInv, HandlesFreed, Free, UserByID
    <3>3. userGuard[h] # u
      BY <3>1, <3>2, SMTT(40)
    <3> QED
      BY <2>6, <3>1, <3>2, <3>3
  <2> QED
    BY <2>2, <2>3, <2>4, <2>7, <2>8, UserWrites, Zenon
<1> QED
  BY <1>1, <1>2, <1>3, <1>4

(* The last-login stamp: the row it writes is the row as it is, stamped.   *)
LEMMA StampStep ==
    ASSUME UserInv, NEW c \in UserCalls, casUserUpdate(c)
    PROVE  /\ UserInv'
           /\ \A u \in UserIds : userRow'[u] # userRow[u] =>
                [userRow'[u] EXCEPT !.login = userRow[u].login,
                                    !.rev = userRow[u].rev] = userRow[u]
<1> DEFINE k == userCall[c]
           u == k.user
<1>1. k.pc = "touch" /\ k.pc \in RowPcs
  BY DEF casUserUpdate, In, RowPcs
<1>2. /\ u \in UserIds /\ userRow[u] # NoUser /\ k.row \in UserRow
      /\ k.row.state = "live" /\ k.row.name = userRow[u].name
      /\ k.row.email = userRow[u].email /\ userRow[u].rev \in Nat
      /\ UNCHANGED userGuard
  BY <1>1, AtWrite, SMTT(40) DEF casUserUpdate
<1>3. CASE userRow[u].rev = k.row.rev
  <2> DEFINE n == k.row.rev + 1
             row == StampedRow(k.row, n)
  <2>1. userRow' = [userRow EXCEPT ![u] = row] /\ Return(c)
    BY <1>3, ZenonT(20) DEF casUserUpdate, StampedRow
  <2>2. userRow[u] = k.row /\ n \in Nat /\ n = userRow[u].rev + 1
    BY <1>1, <1>2, <1>3 DEF UserInv, UserHeld
  <2> HIDE DEF k, u, n
  <2>3. /\ row \in UserRow /\ row.rev = n /\ row.state = "live"
        /\ row.name = userRow[u].name /\ row.email = userRow[u].email
    BY <1>2, <2>2, StampedFacts, Zenon
  <2>8. k.row \in UserRow /\ n \in Nat
    BY <1>2, <2>2
  <2>9. [row EXCEPT !.login = k.row.login, !.rev = k.row.rev] = k.row
    BY <2>8, StampedBack, Zenon
  <2>7. [row EXCEPT !.login = userRow[u].login, !.rev = userRow[u].rev]
          = userRow[u]
    BY <2>2, <2>9
  <2> HIDE DEF row
  <2>4. /\ userGuard' \in [Handles -> UserIds \cup {"none"}] /\ HandlesFreed'
    BY <1>2, <2>1, <2>3, GuardsKept, Zenon
  <2>5. UserInv'
    BY <1>2, <2>1, <2>2, <2>3, <2>4, UserWrites, Zenon
  <2>6. userRow'[u] = row /\ \A v \in UserIds \ {u} : userRow'[v] = userRow[v]
    BY <1>2, <2>1 DEF UserInv, UserTypeOK
  <2> QED
    BY <2>5, <2>6, <2>7, Zenon
<1>4. CASE userRow[u].rev # k.row.rev
  <2> DEFINE r == [k EXCEPT !.pc = "touchRead"]
  <2>1. UNCHANGED userRow /\ (GotoU(c, "touchRead") \/ Return(c))
    BY <1>4 DEF casUserUpdate
  <2>2. CASE Return(c)
    BY <1>2, <2>1, <2>2, ReturnMove
  <2>3. CASE GotoU(c, "touchRead")
    <3>1. userCall' = [userCall EXCEPT ![c] = r]
      BY <2>3 DEF GotoU
    <3>2. DOMAIN r = {"pc", "user", "arg", "row", "tok"} /\ r.pc = "touchRead"
          /\ r.user = u
      BY DEF UserInv, UserTypeOK
    <3> HIDE DEF r, u
    <3> QED
      BY <1>2, <2>1, <3>1, <3>2, NameMove, Zenon
  <2> QED
    BY <2>1, <2>2, <2>3
<1> QED
  BY <1>3, <1>4, Zenon

(* The invariant holds initially. *)
LEMMA UserInvInit == UserInit => UserInv
<1> SUFFICES ASSUME UserInit
             PROVE  UserInv
  OBVIOUS
<1>1. Waiting.pc = "new" /\ DOMAIN Waiting = {"pc", "user", "arg", "row", "tok"}
  BY DEF Waiting
<1>2. UserTypeOK
  BY <1>1 DEF UserInit, UserTypeOK
<1>3. HandlesFreed
  BY DEF UserInit, HandlesFreed, Free
<1>4. \A c \in UserCalls : UserHeld(c)
  BY <1>1 DEF UserInit, UserHeld, RowPcs
<1> QED
  BY <1>2, <1>3, <1>4 DEF UserInv

(* A step of call c.                                                       *)
CallStep(c) ==
    \/ Create(c) \/ BootstrapCount(c) \/ BootstrapAdmin(c)
    \/ UpdateRead(c) \/ UpdateUser(c) \/ DeleteRead(c) \/ DeleteUser(c)
    \/ TouchLoginRead(c) \/ casUserUpdate(c)
    \/ CreateAPIToken(c) \/ VerifyAPIToken(c) \/ TouchAPITokenRead(c)
    \/ TouchAPIToken(c) \/ RevokeAPIToken(c)
    \/ \E name \in UserNames : UserByUsername(c, name)
    \/ \E u \in UserIds :
         \/ \E field \in {"role", "own"} : UpdateLoad(c, u, field)
         \/ DeleteCheck(c, u) \/ CreateCheck(c, u)
         \/ APITokenByHash(c, u) \/ RevokeLoad(c, u)

(* Every step of every call keeps the invariant. *)
LEMMA UserInvStep == UserInv /\ [UserNext]_userVars => UserInv'
<1> SUFFICES ASSUME UserInv, [UserNext]_userVars
             PROVE  UserInv'
  BY ZenonT(20)
<1>1. CASE UNCHANGED <<userRow, userGuard, userCall>>
  BY <1>1 DEF UserInv, UserTypeOK, HandlesFreed, Free, UserByID, UserHeld
<1>2. ASSUME NEW u \in UserIds, OwnResource(u)
      PROVE  UserInv'
  BY <1>1, <1>2, SMTT(40) DEF OwnResource
<1>3. ASSUME NEW c \in UserCalls, CallStep(c)
      PROVE  UserInv'
  BY <1>3, UserReads, TokenCalls, UserRowSteps, StampStep, Zenon DEF CallStep
<1> QED
  BY <1>1, <1>2, <1>3 DEF UserNext, CallStep, userVars

(* Users, their guards and what calls have read of them in every state.    *)
THEOREM UserInvariant == UserSpec => []UserInv
<1> QED
  BY UserInvInit, UserInvStep, PTL DEF UserSpec

(* A handle that is taken names a live user who holds it, whatever         *)
(* creations, deletions, bootstraps and unguarded updates interleave.      *)
THEOREM HandlesAlwaysFreed == UserSpec => []HandlesFreed
<1>1. UserInv => HandlesFreed
  BY ZenonT(20) DEF UserInv
<1> QED
  BY <1>1, UserInvariant, PTL

(* A call's step leaves the other calls where they are.                    *)
LEMMA CallFrame ==
    ASSUME UserTypeOK, NEW d \in UserCalls, CallStep(d),
           NEW c \in UserCalls, c # d
    PROVE  userCall'[c] = userCall[c]
<1>1. ASSUME NEW r, userCall' = [userCall EXCEPT ![d] = r]
      PROVE  userCall'[c] = userCall[c]
  BY <1>1 DEF UserTypeOK
<1>2. Return(d) => userCall'[c] = userCall[c]
  BY <1>1 DEF Return
<1>3. \A pc : GotoU(d, pc) => userCall'[c] = userCall[c]
  BY <1>1 DEF GotoU
<1>4. CASE Create(d) \/ BootstrapAdmin(d) \/ UpdateUser(d) \/ DeleteUser(d)
           \/ CreateAPIToken(d) \/ TouchAPIToken(d) \/ RevokeAPIToken(d)
  BY <1>2, <1>4 DEF Create, BootstrapAdmin, UpdateUser, DeleteUser,
     CreateAPIToken, TouchAPIToken, RevokeAPIToken
<1>5. CASE BootstrapCount(d) \/ casUserUpdate(d) \/ VerifyAPIToken(d)
  BY <1>2, <1>3, <1>5 DEF BootstrapCount, casUserUpdate, VerifyAPIToken
<1>6. CASE UpdateRead(d)
  BY <1>1, <1>2, <1>6 DEF UpdateRead
<1>7. CASE DeleteRead(d)
  BY <1>1, <1>2, <1>7 DEF DeleteRead
<1>8. CASE TouchLoginRead(d)
  BY <1>1, <1>2, <1>8 DEF TouchLoginRead
<1>9. CASE TouchAPITokenRead(d)
  BY <1>1, <1>9, ZenonT(60) DEF TouchAPITokenRead
<1>10. ASSUME NEW name \in UserNames, UserByUsername(d, name)
       PROVE  userCall'[c] = userCall[c]
  BY <1>1, <1>10 DEF UserByUsername
<1>11. ASSUME NEW u \in UserIds, NEW field \in {"role", "own"},
              UpdateLoad(d, u, field)
       PROVE  userCall'[c] = userCall[c]
  BY <1>1, <1>11 DEF UpdateLoad
<1>12. ASSUME NEW u \in UserIds,
              \/ DeleteCheck(d, u) \/ CreateCheck(d, u)
              \/ APITokenByHash(d, u) \/ RevokeLoad(d, u)
       PROVE  userCall'[c] = userCall[c]
  BY <1>1, <1>12 DEF DeleteCheck, CreateCheck, APITokenByHash, RevokeLoad
<1> QED
  BY <1>4, <1>5, <1>6, <1>7, <1>8, <1>9, <1>10, <1>11, <1>12 DEF CallStep

(* From its read to its write a login's stamp is the only step of its      *)
(* call.                                                                   *)
LEMMA OnlyStamp ==
    ASSUME NEW c \in UserCalls, CallStep(c), In(c, "touch")
    PROVE  casUserUpdate(c)
  BY DEF CallStep, In, Create, BootstrapCount, BootstrapAdmin, UpdateRead,
     UpdateUser, DeleteRead, DeleteUser, TouchLoginRead, CreateAPIToken,
     VerifyAPIToken, TouchAPITokenRead, TouchAPIToken, RevokeAPIToken,
     UserByUsername, UpdateLoad, DeleteCheck, CreateCheck, APITokenByHash,
     RevokeLoad

(* The last-login stamp never reverts a role change or a deletion that     *)
(* lands between its read and its write.                                   *)
THEOREM LoginKeepsWrites == UserSpec => LoginKeepsAdminWrite
<1>1. ASSUME UserInv, [UserNext]_userVars,
             NEW u \in UserIds, NEW c \in UserCalls, In(c, "touch"),
             userCall'[c].pc # "touch", userRow'[u] # userRow[u]
      PROVE  [userRow'[u] EXCEPT !.login = userRow[u].login,
                                 !.rev = userRow[u].rev] = userRow[u]
  <2>1. PICK d \in UserCalls : CallStep(d)
    BY <1>1 DEF UserNext, CallStep, OwnResource, userVars
  <2>2. d = c
    BY <1>1, <2>1, CallFrame DEF UserInv, In
  <2>3. casUserUpdate(c)
    BY <1>1, <2>1, <2>2, OnlyStamp, SMTT(40)
  <2> QED
    BY <1>1, <2>3, StampStep, Zenon
<1>2. UserInv /\ [UserNext]_userVars => [StampKeeps]_userVars
  BY <1>1, Zenon DEF StampKeeps
<1> QED
  BY <1>2, UserInvariant, PTL DEF UserSpec, LoginKeepsAdminWrite

(* The rows under idempotency_keys/ and its task index, and the answers.   *)
KeyRow == [state : {"in_flight", "completed"}, hash : IdemBodies, task : Nat,
           expired : BOOLEAN, owner : IdemCalls]
IndexRow == [task : Nat, hash : IdemBodies]
Reply == [status : {"503", "500", "mismatch", "inFlight", "error"}]
           \cup [status : {"2xx"}, task : Nat]

IdemPcs == {"new", "begin", "reclaimRead", "reclaim", "reread", "handler",
            "settleRead", "settle", "flush", "end"}

CallRow == [pc : IdemPcs, body : IdemBodies, rev : Nat,
            seen : KeyRow \cup {NoKey}, ok : BOOLEAN, task : Nat]

IdemTypeOK ==
    /\ idemRow \in KeyRow \cup {NoKey}
    /\ idemIndex \in IndexRow \cup {NoIndex}
    /\ idemTasks \in Seq(IdemBodies)
    /\ idemSince \in Nat
    /\ idemCall \in [IdemCalls -> CallRow]
    /\ idemWire \in [IdemCalls -> Seq(Reply)]
    /\ idemRev \in Nat

(* Task i was enqueued, and for this body.                                 *)
Asked(i, body) == i \in 1 .. Len(idemTasks) /\ idemTasks[i] = body

(* The index holds the task enqueued since it last lapsed, if there is one. *)
IndexExact ==
    /\ idemIndex = NoIndex => Len(idemTasks) = idemSince
    /\ idemIndex # NoIndex => /\ Len(idemTasks) = idemSince + 1
                              /\ Asked(idemIndex.task, idemIndex.hash)

(* From its reservation to its settlement a request holds the row, which   *)
(* cannot expire under it; a reclaim that still matches took an expired    *)
(* row.                                                                    *)
Holding == {"handler", "settleRead", "settle"}

HeldBy(c) ==
    /\ idemCall[c].pc \in Holding =>
         /\ idemRow \in KeyRow /\ idemRow.state = "in_flight"
         /\ idemRow.owner = c /\ idemRow.hash = idemCall[c].body
         /\ ~idemRow.expired
    /\ idemCall[c].pc = "settle" => idemCall[c].seen = idemRow
    /\ idemCall[c].pc = "reclaim" =>
         /\ idemCall[c].rev <= idemRev
         /\ idemCall[c].rev = idemRev /\ idemRow # NoKey => idemRow.expired

(* Whatever answers or will answer a 2xx names a task of its own body.     *)
RowTrue ==
    idemRow # NoKey /\ idemRow.state = "completed" =>
        Asked(idemRow.task, idemRow.hash)

Promised(c) ==
    idemCall[c].pc \in {"settleRead", "settle", "flush"} /\ idemCall[c].ok =>
        Asked(idemCall[c].task, idemCall[c].body)

Answered(c) ==
    \A i \in 1 .. Len(idemWire[c]) :
        idemWire[c][i].status = "2xx" =>
            Asked(idemWire[c][i].task, idemCall[c].body)

IdemInv ==
    /\ IdemTypeOK
    /\ IndexExact
    /\ RowTrue
    /\ \A c \in IdemCalls : HeldBy(c) /\ Promised(c) /\ Answered(c)

(* What a request's own record becomes when it moves on or ends.           *)
LEMMA StepEffect ==
    ASSUME IdemTypeOK, NEW c \in IdemCalls, NEW pc \in IdemPcs, Step(c, pc)
    PROVE  /\ idemCall' \in [IdemCalls -> CallRow]
           /\ idemCall'[c].pc = pc /\ idemCall'[c].body = idemCall[c].body
           /\ idemCall'[c].ok = idemCall[c].ok
           /\ idemCall'[c].task = idemCall[c].task
           /\ \A e \in IdemCalls \ {c} : idemCall'[e] = idemCall[e]
<1> DEFINE r == [idemCall[c] EXCEPT !.pc = pc]
<1>1. idemCall' = [idemCall EXCEPT ![c] = r]
  BY DEF Step
<1>2. r \in CallRow /\ r.pc = pc /\ r.body = idemCall[c].body
      /\ r.ok = idemCall[c].ok /\ r.task = idemCall[c].task
  BY Zenon DEF IdemTypeOK, CallRow
<1> HIDE DEF r
<1> QED
  BY <1>1, <1>2 DEF IdemTypeOK

(* A call that ends keeps its body and leaves the other calls alone. *)
LEMMA EndEffect ==
    ASSUME IdemTypeOK, NEW c \in IdemCalls, End(c)
    PROVE  /\ idemCall' \in [IdemCalls -> CallRow]
           /\ idemCall'[c].pc = "end" /\ idemCall'[c].body = idemCall[c].body
           /\ \A e \in IdemCalls \ {c} : idemCall'[e] = idemCall[e]
<1> DEFINE b == idemCall[c].body
           r == [IdemNew(b) EXCEPT !.pc = "end"]
<1>1. b \in IdemBodies
  BY DEF IdemTypeOK, CallRow
<1>2. r \in CallRow /\ r.pc = "end" /\ r.body = b
  BY <1>1, Zenon DEF IdemNew, CallRow, IdemPcs
<1>3. idemCall' = [idemCall EXCEPT ![c] = r]
  BY DEF End
<1> HIDE DEF r
<1> QED
  BY <1>2, <1>3 DEF IdemTypeOK

(* The handler's outcome is noted for the settlement.                      *)
LEMMA EnqueuedEffect ==
    ASSUME IdemTypeOK, NEW c \in IdemCalls, NEW ok \in BOOLEAN,
           NEW t \in Nat, Enqueued(c, ok, t)
    PROVE  /\ idemCall' \in [IdemCalls -> CallRow]
           /\ idemCall'[c].pc = "settleRead" /\ idemCall'[c].ok = ok
           /\ idemCall'[c].task = t /\ idemCall'[c].body = idemCall[c].body
           /\ \A e \in IdemCalls \ {c} : idemCall'[e] = idemCall[e]
<1> DEFINE r == [idemCall[c] EXCEPT !.pc = "settleRead", !.ok = ok, !.task = t]
<1>1. r \in CallRow /\ r.pc = "settleRead" /\ r.ok = ok /\ r.task = t
      /\ r.body = idemCall[c].body
  BY Zenon DEF IdemTypeOK, CallRow, IdemPcs
<1>2. idemCall' = [idemCall EXCEPT ![c] = r]
  BY Zenon DEF Enqueued
<1> HIDE DEF r
<1> QED
  BY <1>1, <1>2 DEF IdemTypeOK

(* The client of c alone may be sent something, and a 2xx names a task of  *)
(* its body.                                                               *)
Replied(c) ==
    /\ idemWire' \in [IdemCalls -> Seq(Reply)]
    /\ \A e \in IdemCalls : \A i \in 1 .. Len(idemWire'[e]) :
         \/ i \in 1 .. Len(idemWire[e]) /\ idemWire'[e][i] = idemWire[e][i]
         \/ /\ e = c
            /\ idemWire'[e][i].status = "2xx" =>
                 Asked(idemWire'[e][i].task, idemCall[c].body)

(* An answer written for a call is true of what that call asked. *)
LEMMA AppendReply ==
    ASSUME IdemTypeOK, NEW c \in IdemCalls, NEW a \in Reply,
           a.status = "2xx" => Asked(a.task, idemCall[c].body),
           \/ UNCHANGED idemWire
           \/ idemWire' = [idemWire EXCEPT ![c] = Append(@, a)]
    PROVE  Replied(c)
<1>1. CASE UNCHANGED idemWire
  BY <1>1 DEF Replied, IdemTypeOK
<1>2. CASE idemWire' = [idemWire EXCEPT ![c] = Append(@, a)]
  <2>1. idemWire[c] \in Seq(Reply)
    BY DEF IdemTypeOK
  <2>2. /\ Append(idemWire[c], a) \in Seq(Reply)
        /\ Len(Append(idemWire[c], a)) = Len(idemWire[c]) + 1
        /\ \A i \in 1 .. Len(idemWire[c]) :
              Append(idemWire[c], a)[i] = idemWire[c][i]
        /\ Append(idemWire[c], a)[Len(idemWire[c]) + 1] = a
        /\ Len(idemWire[c]) \in Nat
    BY <2>1
  <2>3. /\ idemWire'[c] = Append(idemWire[c], a)
        /\ \A e \in IdemCalls \ {c} : idemWire'[e] = idemWire[e]
        /\ idemWire' \in [IdemCalls -> Seq(Reply)]
    BY <1>2, <2>2 DEF IdemTypeOK
  <2>4. ASSUME NEW i \in 1 .. Len(idemWire'[c])
        PROVE  \/ i \in 1 .. Len(idemWire[c]) /\ idemWire'[c][i] = idemWire[c][i]
               \/ idemWire'[c][i] = a
    BY <2>2, <2>3
  <2>5. ASSUME NEW e \in IdemCalls, NEW i \in 1 .. Len(idemWire'[e])
        PROVE  \/ i \in 1 .. Len(idemWire[e]) /\ idemWire'[e][i] = idemWire[e][i]
               \/ e = c /\ idemWire'[e][i] = a
    <3>1. CASE e = c
      BY <3>1, <2>4
    <3>2. CASE e # c
      BY <3>2, <2>3
    <3> QED
      BY <3>1, <3>2, SMTT(40)
  <2> QED
    BY <2>3, <2>5, Zenon DEF Replied
<1> QED
  BY <1>1, <1>2

(* A refusal and a replay end the request with at most one answer.         *)
LEMMA RefuseEffect ==
    ASSUME IdemTypeOK, NEW c \in IdemCalls, NEW s, Refuse(c, s),
           s \in {"500", "mismatch", "inFlight", "error"}
    PROVE  End(c) /\ Replied(c)
<1> DEFINE a == [status |-> s]
<1>1. a \in Reply /\ a.status # "2xx"
  BY DEF Reply
<1>2. \/ UNCHANGED idemWire
      \/ idemWire' = [idemWire EXCEPT ![c] = Append(@, a)]
  BY DEF Refuse, WriteHeader
<1> HIDE DEF a
<1> QED
  BY <1>1, <1>2, AppendReply DEF Refuse

(* A replay answers with the task of the stored response. *)
LEMMA ReplayEffect ==
    ASSUME IdemTypeOK, NEW c \in IdemCalls, NEW t, Replay(c, t), t \in Nat,
           Asked(t, idemCall[c].body)
    PROVE  End(c) /\ Replied(c)
<1> DEFINE a == [status |-> "2xx", task |-> t]
<1>1. a \in Reply /\ a.task = t
  BY DEF Reply
<1>2. \/ UNCHANGED idemWire
      \/ idemWire' = [idemWire EXCEPT ![c] = Append(@, a)]
  BY DEF Replay, WriteHeader
<1> HIDE DEF a
<1> QED
  BY <1>1, <1>2, AppendReply DEF Replay

(* A call that finds the key taken is refused or replayed, truly. *)
LEMMA ResolveEffect ==
    ASSUME IdemTypeOK, RowTrue, NEW c \in IdemCalls, idemRow # NoKey,
           Resolve(c, idemRow, idemCall[c].body)
    PROVE  End(c) /\ Replied(c)
<1>0. idemRow \in KeyRow /\ idemRow.task \in Nat
      /\ idemRow.state \in {"in_flight", "completed"}
  BY DEF IdemTypeOK, KeyRow
<1>1. CASE idemRow.hash # idemCall[c].body
  BY <1>1, RefuseEffect DEF Resolve, determineAction
<1>2. CASE idemRow.hash = idemCall[c].body /\ idemRow.state = "in_flight"
  BY <1>2, RefuseEffect, SMTT(40) DEF Resolve, determineAction
<1>3. CASE idemRow.hash = idemCall[c].body /\ idemRow.state = "completed"
  BY <1>0, <1>3, ReplayEffect DEF Resolve, determineAction, RowTrue
<1> QED
  BY <1>0, <1>1, <1>2, <1>3

(* A step of request c that leaves the store alone keeps the invariant if  *)
(* it keeps it for c.                                                      *)
LEMMA CallSuffices ==
    ASSUME IdemInv, NEW c \in IdemCalls,
           idemCall' \in [IdemCalls -> CallRow],
           idemCall'[c].body = idemCall[c].body,
           \A e \in IdemCalls \ {c} : idemCall'[e] = idemCall[e],
           Replied(c),
           UNCHANGED <<idemRow, idemIndex, idemTasks, idemSince, idemRev>>,
           HeldBy(c)', Promised(c)'
    PROVE  IdemInv'
<1>1. IdemTypeOK'
  BY ZenonT(20) DEF IdemInv, IdemTypeOK, Replied
<1>2. IndexExact' /\ RowTrue'
  BY DEF IdemInv, IndexExact, RowTrue, Asked
<1>3. ASSUME NEW e \in IdemCalls
      PROVE  HeldBy(e)' /\ Promised(e)'
  <2>1. CASE e = c
    BY <2>1, ZenonT(20)
  <2>2. CASE e # c
    BY <2>2, SMTT(40) DEF IdemInv, HeldBy, Promised, Asked
  <2> QED
    BY <2>1, <2>2
<1>4. ASSUME NEW e \in IdemCalls
      PROVE  Answered(e)'
  <2>1. idemCall'[e].body = idemCall[e].body
    BY SMTT(40)
  <2>2. ASSUME NEW i \in 1 .. Len(idemWire'[e]),
               idemWire'[e][i].status = "2xx"
        PROVE  Asked(idemWire'[e][i].task, idemCall[e].body)
    BY <2>2, Zenon DEF Replied, IdemInv, Answered
  <2> QED
    BY <2>1, <2>2 DEF Answered, Asked
<1> QED
  BY <1>1, <1>2, <1>3, <1>4, ZenonT(20) DEF IdemInv

(* Once its request ends, c holds and promises nothing.                    *)
LEMMA EndSuffices ==
    ASSUME IdemInv, NEW c \in IdemCalls, End(c), Replied(c),
           UNCHANGED <<idemRow, idemIndex, idemTasks, idemSince, idemRev>>
    PROVE  IdemInv'
<1>1. IdemTypeOK
  BY SMTT(40) DEF IdemInv
<1>2. HeldBy(c)' /\ Promised(c)'
  BY <1>1, EndEffect, ZenonT(20) DEF HeldBy, Promised, Holding
<1> QED
  BY <1>1, <1>2, EndEffect, CallSuffices

(* Neither does a request that still acquires the key.                     *)
LEMMA MoveSuffices ==
    ASSUME IdemInv, NEW c \in IdemCalls,
           NEW pc \in {"begin", "reclaimRead", "reread"}, Step(c, pc),
           UNCHANGED <<idemRow, idemIndex, idemTasks, idemSince, idemRev, idemWire>>
    PROVE  IdemInv'
<1>1. IdemTypeOK /\ pc \in IdemPcs
  BY ZenonT(20) DEF IdemInv, IdemPcs
<1>2. HeldBy(c)' /\ Promised(c)'
  BY <1>1, StepEffect, ZenonT(20) DEF HeldBy, Promised, Holding
<1>3. Replied(c)
  BY <1>1 DEF Replied, IdemTypeOK
<1> QED
  BY <1>1, <1>2, <1>3, StepEffect, CallSuffices

(* A write of the row by c keeps the invariant if no other request holds   *)
(* the row and the new row is right for c.                                 *)
LEMMA RowSuffices ==
    ASSUME IdemInv, NEW c \in IdemCalls,
           idemCall' \in [IdemCalls -> CallRow],
           idemCall'[c].body = idemCall[c].body,
           \A e \in IdemCalls \ {c} : /\ idemCall'[e] = idemCall[e]
                                       /\ idemCall[e].pc \notin Holding,
           UNCHANGED <<idemIndex, idemTasks, idemSince, idemWire>>,
           idemRow' \in KeyRow \cup {NoKey}, idemRev' = idemRev + 1,
           RowTrue', HeldBy(c)', Promised(c)'
    PROVE  IdemInv'
<1>0. idemRev \in Nat /\ \A e \in IdemCalls : idemCall[e].rev \in Nat
  BY DEF IdemInv, IdemTypeOK, CallRow
<1>1. IdemTypeOK'
  BY <1>0, SMTT(40) DEF IdemInv, IdemTypeOK
<1>2. IndexExact'
  BY DEF IdemInv, IndexExact, Asked
<1>3. ASSUME NEW e \in IdemCalls
      PROVE  HeldBy(e)' /\ Promised(e)' /\ Answered(e)'
  <2>1. Answered(e)'
    BY SMTT(40) DEF IdemInv, Answered, Asked
  <2>2. CASE e = c
    BY <2>1, <2>2
  <2>3. CASE e # c
    <3>1. idemCall'[e] = idemCall[e] /\ idemCall[e].pc \notin Holding
      BY <2>3, ZenonT(20)
    <3>2. Promised(e)'
      BY <3>1, ZenonT(20) DEF IdemInv, Promised, Asked
    <3>3. HeldBy(e)'
      BY <3>1, <1>0, SMTT(40) DEF IdemInv, HeldBy, Holding
    <3> QED
      BY <2>1, <3>2, <3>3
  <2> QED
    BY <2>2, <2>3, ZenonT(20)
<1> QED
  BY <1>1, <1>2, <1>3 DEF IdemInv

(* At most one request holds the row.                                      *)
LEMMA HolderAlone ==
    ASSUME IdemInv
    PROVE  /\ NoKey \notin KeyRow
           /\ \A c \in IdemCalls : idemRow = NoKey => idemCall[c].pc \notin Holding
           /\ \A c \in IdemCalls : idemRow # NoKey /\ idemRow.expired =>
                                     idemCall[c].pc \notin Holding
           /\ \A c, e \in IdemCalls :
                 idemCall[c].pc \in Holding /\ idemCall[e].pc \in Holding => c = e
<1>1. NoKey \notin KeyRow
  BY DEF NoKey, KeyRow
<1> QED
  BY <1>1 DEF IdemInv, HeldBy

(* The steps of a request that read or answer.                             *)
LEMMA ReadSteps ==
    ASSUME IdemInv, NEW c \in IdemCalls,
           \/ Acquire(c) \/ AcquireFails(c) \/ ReclaimRead(c) \/ Reread(c)
           \/ SettleRead(c) \/ SettleFails(c) \/ Flush(c) \/ Timeout(c)
           \/ Crash(c)
    PROVE  IdemInv'
<1>1. IdemTypeOK /\ RowTrue /\ HeldBy(c) /\ Promised(c)
  BY ZenonT(20) DEF IdemInv
<1>2. UNCHANGED idemWire => Replied(c)
  BY <1>1 DEF Replied, IdemTypeOK
<1>3. CASE Acquire(c)
  <2>1. CASE idemRow = NoKey
    BY <1>3, <2>1, MoveSuffices, SMTT(40) DEF Acquire
  <2>2. CASE idemRow # NoKey /\ idemRow.expired
    BY <1>3, <2>2, MoveSuffices, ZenonT(20) DEF Acquire
  <2>3. CASE idemRow # NoKey /\ ~idemRow.expired
    BY <1>1, <1>3, <2>3, ResolveEffect, EndSuffices, SMTT(40) DEF Acquire
  <2> QED
    BY <2>1, <2>2, <2>3, ZenonT(20)
<1>4. CASE AcquireFails(c)
  BY <1>1, <1>4, RefuseEffect, EndSuffices, Zenon DEF AcquireFails
<1>5. CASE ReclaimRead(c)
  <2>1. CASE Step(c, "reread")
    BY <1>5, <2>1, MoveSuffices DEF ReclaimRead, OnlyCall
  <2>2. CASE ~(idemRow = NoKey \/ ~idemRow.expired)
    <3> DEFINE r == [idemCall[c] EXCEPT !.pc = "reclaim", !.rev = idemRev]
    <3>1. r \in CallRow /\ r.pc = "reclaim" /\ r.rev = idemRev
          /\ r.body = idemCall[c].body
      BY <1>1, Zenon DEF IdemTypeOK, CallRow, IdemPcs
    <3>2. idemCall' = [idemCall EXCEPT ![c] = r]
      BY <1>5, <2>2, Zenon DEF ReclaimRead
    <3> HIDE DEF r
    <3>3. /\ idemCall' \in [IdemCalls -> CallRow]
          /\ idemCall'[c] = r
          /\ \A e \in IdemCalls \ {c} : idemCall'[e] = idemCall[e]
      BY <1>1, <3>1, <3>2 DEF IdemTypeOK
    <3>4. HeldBy(c)' /\ Promised(c)'
      BY <1>1, <1>5, <2>2, <3>1, <3>3
      DEF HeldBy, Promised, Holding, ReclaimRead, OnlyCall, IdemTypeOK
    <3> QED
      BY <1>2, <1>5, <3>1, <3>3, <3>4, CallSuffices DEF ReclaimRead, OnlyCall
  <2> QED
    BY <1>5, <2>1, <2>2 DEF ReclaimRead
<1>6. CASE Reread(c)
  <2>1. CASE idemRow = NoKey
    BY <1>1, <1>6, <2>1, RefuseEffect, EndSuffices, ZenonT(20) DEF Reread
  <2>2. CASE idemRow # NoKey
    BY <1>1, <1>6, <2>2, ResolveEffect, EndSuffices DEF Reread
  <2> QED
    BY <2>1, <2>2, SMTT(40)
<1>7. CASE SettleRead(c)
  <2>1. idemRow # NoKey /\ idemRow.state = "in_flight" /\ idemRow \in KeyRow
    BY <1>1, <1>7, HolderAlone DEF SettleRead, On, HeldBy, Holding
  <2> DEFINE r == [idemCall[c] EXCEPT !.pc = "settle", !.seen = idemRow]
  <2>2. r \in CallRow /\ r.pc = "settle" /\ r.seen = idemRow
        /\ r.body = idemCall[c].body /\ r.ok = idemCall[c].ok
        /\ r.task = idemCall[c].task
    BY <1>1, <2>1, Zenon DEF IdemTypeOK, CallRow, IdemPcs
  <2>3. idemCall' = [idemCall EXCEPT ![c] = r]
    BY <1>7, <2>1, Zenon DEF SettleRead
  <2> HIDE DEF r
  <2>4. /\ idemCall' \in [IdemCalls -> CallRow]
        /\ idemCall'[c] = r
        /\ \A e \in IdemCalls \ {c} : idemCall'[e] = idemCall[e]
    BY <1>1, <2>2, <2>3, SMTT(40) DEF IdemTypeOK
  <2>5. HeldBy(c)' /\ Promised(c)'
    BY <1>1, <1>7, <2>2, <2>4, SMTT(40)
    DEF HeldBy, Promised, Holding, Asked, SettleRead, On, OnlyCall
  <2> QED
    BY <1>2, <1>7, <2>2, <2>4, <2>5, CallSuffices DEF SettleRead, OnlyCall
<1>8. CASE SettleFails(c)
  <2>1. Step(c, "flush") /\ idemCall[c] \in CallRow
    BY <1>1, <1>8, SMTT(40) DEF SettleFails, IdemTypeOK
  <2>2. /\ idemCall'[c].pc = "flush" /\ idemCall'[c].ok = idemCall[c].ok
        /\ idemCall'[c].task = idemCall[c].task
        /\ idemCall'[c].body = idemCall[c].body
    BY <1>1, <2>1, StepEffect, ZenonT(60) DEF IdemPcs
  <2>3. HeldBy(c)' /\ Promised(c)'
    BY <1>1, <1>8, <2>2, ZenonT(20)
    DEF HeldBy, Promised, Holding, Asked, SettleFails
  <2> QED
    BY <1>1, <1>2, <1>8, <2>1, <2>2, <2>3, StepEffect, CallSuffices, Zenon
    DEF SettleFails, IdemPcs
<1>9. CASE Flush(c)
  <2>1. CASE idemCall[c].ok
    <3>1. Asked(idemCall[c].task, idemCall[c].body) /\ idemCall[c].task \in Nat
      BY <1>1, <1>9, <2>1, ZenonT(20)
      DEF Flush, On, Promised, IdemTypeOK, CallRow
    <3> QED
      BY <1>1, <1>9, <2>1, <3>1, ReplayEffect, EndSuffices, Zenon DEF Flush
  <2>2. CASE ~idemCall[c].ok
    BY <1>1, <1>9, <2>2, RefuseEffect, EndSuffices, ZenonT(20) DEF Flush
  <2> QED
    BY <2>1, <2>2, SMTT(40)
<1>10. CASE Timeout(c)
  <2> DEFINE a == [status |-> "503"]
  <2>1. a \in Reply /\ a.status # "2xx"
    BY ZenonT(20) DEF Reply
  <2>2. \/ UNCHANGED idemWire
        \/ idemWire' = [idemWire EXCEPT ![c] = Append(@, a)]
    BY <1>10, ZenonT(20) DEF Timeout
  <2> HIDE DEF a
  <2>3. Replied(c)
    BY <1>1, <2>1, <2>2, AppendReply, SMTT(40)
  <2>4. HeldBy(c)' /\ Promised(c)'
    BY <1>1, <1>10, Zenon DEF HeldBy, Promised, Asked, Timeout
  <2> QED
    BY <1>1, <1>10, <2>3, <2>4, CallSuffices, ZenonT(20) DEF Timeout, IdemTypeOK
<1>11. CASE Crash(c)
  BY <1>2, <1>11, EndSuffices, SMTT(40) DEF Crash
<1> QED
  BY <1>3, <1>4, <1>5, <1>6, <1>7, <1>8, <1>9, <1>10, <1>11, SMTT(40)

(* A reservation takes the row for c.                                      *)
LEMMA FreshHeld ==
    ASSUME IdemInv, NEW c \in IdemCalls, PutRow(Fresh(idemCall[c].body, c)),
           Step(c, "handler"),
           \A e \in IdemCalls \ {c} : idemCall[e].pc \notin Holding,
           UNCHANGED <<idemIndex, idemTasks, idemSince, idemWire>>
    PROVE  IdemInv'
<1>1. IdemTypeOK /\ idemCall[c] \in CallRow
  BY SMTT(40) DEF IdemInv, IdemTypeOK
<1>2. /\ Fresh(idemCall[c].body, c) \in KeyRow
      /\ Fresh(idemCall[c].body, c).state = "in_flight"
      /\ Fresh(idemCall[c].body, c).owner = c
      /\ Fresh(idemCall[c].body, c).hash = idemCall[c].body
      /\ ~Fresh(idemCall[c].body, c).expired
  BY <1>1, Zenon DEF Fresh, KeyRow, CallRow
<1>3. idemRow' = Fresh(idemCall[c].body, c) /\ idemRev' = idemRev + 1
  BY ZenonT(20) DEF PutRow
<1>4. /\ idemCall' \in [IdemCalls -> CallRow]
      /\ idemCall'[c].pc = "handler" /\ idemCall'[c].body = idemCall[c].body
      /\ \A e \in IdemCalls \ {c} : idemCall'[e] = idemCall[e]
  BY <1>1, StepEffect, ZenonT(20) DEF IdemPcs
<1>5. RowTrue' /\ HeldBy(c)' /\ Promised(c)'
  BY <1>2, <1>3, <1>4, ZenonT(20) DEF RowTrue, HeldBy, Promised, Holding
<1> QED
  BY <1>2, <1>3, <1>4, <1>5, RowSuffices, Zenon

(* The settlement writes the row and moves on to the answer.               *)
LEMMA SettledRow ==
    ASSUME IdemInv, NEW c \in IdemCalls, NEW row \in KeyRow \cup {NoKey},
           On(c, "settle"), PutRow(row), Step(c, "flush"),
           row # NoKey /\ row.state = "completed" => Asked(row.task, row.hash),
           UNCHANGED <<idemIndex, idemTasks, idemSince, idemWire>>
    PROVE  IdemInv'
<1>1. IdemTypeOK /\ idemCall[c] \in CallRow /\ Promised(c)
  BY DEF IdemInv, IdemTypeOK
<1>2. idemRow' = row /\ idemRev' = idemRev + 1
  BY SMTT(40) DEF PutRow
<1>3. /\ idemCall' \in [IdemCalls -> CallRow]
      /\ idemCall'[c].pc = "flush" /\ idemCall'[c].body = idemCall[c].body
      /\ idemCall'[c].ok = idemCall[c].ok /\ idemCall'[c].task = idemCall[c].task
      /\ \A e \in IdemCalls \ {c} : idemCall'[e] = idemCall[e]
  BY <1>1, StepEffect, Zenon DEF IdemPcs
<1>4. RowTrue' /\ HeldBy(c)' /\ Promised(c)'
  BY <1>1, <1>2, <1>3, ZenonT(20)
  DEF RowTrue, HeldBy, Promised, Holding, Asked, On
<1>5. \A e \in IdemCalls \ {c} : idemCall[e].pc \notin Holding
  BY HolderAlone, ZenonT(20) DEF On, Holding
<1> QED
  BY <1>2, <1>3, <1>4, <1>5, RowSuffices, ZenonT(20)

(* The writes of the row by a request.                                     *)
LEMMA RowSteps ==
    ASSUME IdemInv, NEW c \in IdemCalls,
           \/ BeginIdempotencyKey(c) \/ ReclaimIdempotencyKey(c)
           \/ CompleteIdempotencyKey(c) \/ DeleteIdempotencyKey(c)
    PROVE  IdemInv'
<1>1. IdemTypeOK /\ HeldBy(c) /\ Promised(c) /\ idemCall[c] \in CallRow
  BY DEF IdemInv, IdemTypeOK
<1>3. CASE BeginIdempotencyKey(c)
  <2>1. CASE idemRow = NoKey
    BY <1>3, <2>1, HolderAlone, FreshHeld, ZenonT(20) DEF BeginIdempotencyKey
  <2>2. CASE idemRow # NoKey
    BY <1>3, <2>2, MoveSuffices DEF BeginIdempotencyKey
  <2> QED
    BY <2>1, <2>2, ZenonT(20)
<1>4. CASE ReclaimIdempotencyKey(c)
  <2>1. CASE idemRow # NoKey /\ idemRev = idemCall[c].rev
    <3>1. idemRow.expired
      BY <1>1, <1>4, <2>1, ZenonT(20) DEF ReclaimIdempotencyKey, On, HeldBy
    <3> QED
      BY <1>4, <2>1, <3>1, HolderAlone, FreshHeld, ZenonT(20)
      DEF ReclaimIdempotencyKey
  <2>2. CASE ~(idemRow # NoKey /\ idemRev = idemCall[c].rev)
    BY <1>4, <2>2, MoveSuffices, ZenonT(20) DEF ReclaimIdempotencyKey
  <2> QED
    BY <2>1, <2>2, ZenonT(20)
<1>5. CASE CompleteIdempotencyKey(c)
  <2> DEFINE s == idemCall[c].seen
             row == [s EXCEPT !.state = "completed", !.expired = FALSE,
                              !.task = idemCall[c].task]
  <2>1. /\ On(c, "settle") /\ idemCall[c].ok /\ s \in KeyRow
        /\ s.hash = idemCall[c].body /\ idemCall[c].task \in Nat
        /\ Asked(idemCall[c].task, idemCall[c].body)
    BY <1>1, <1>5
    DEF CompleteIdempotencyKey, On, HeldBy, Holding, Promised, CallRow
  <2>2. row \in KeyRow /\ row.task = idemCall[c].task /\ row.hash = s.hash
    BY <2>1, Zenon DEF KeyRow
  <2>3. PutRow(row) /\ Step(c, "flush")
        /\ UNCHANGED <<idemIndex, idemTasks, idemSince, idemWire>>
    BY <1>5 DEF CompleteIdempotencyKey
  <2> HIDE DEF row, s
  <2> QED
    BY <2>1, <2>2, <2>3, SettledRow
<1>6. CASE DeleteIdempotencyKey(c)
  BY <1>6, SettledRow DEF DeleteIdempotencyKey
<1> QED
  BY <1>3, <1>4, <1>5, <1>6

(* An enqueue adds a task, or answers from the index.                      *)
LEMMA HandlerStep ==
    ASSUME IdemInv, NEW c \in IdemCalls, Handler(c)
    PROVE  IdemInv'
<1>1. IdemTypeOK /\ IndexExact /\ idemCall[c].body \in IdemBodies /\ HeldBy(c)
  BY DEF IdemInv, IdemTypeOK, CallRow
<1>2. idemTasks \in Seq(IdemBodies) /\ Len(idemTasks) \in Nat /\ idemSince \in Nat
  BY <1>1 DEF IdemTypeOK
<1>3. CASE UNCHANGED <<idemTasks, idemIndex>>
  <2>1. PICK ok \in BOOLEAN, t \in Nat :
          Enqueued(c, ok, t) /\ (ok => Asked(t, idemCall[c].body))
    <3>1. CASE Enqueued(c, FALSE, 0)
      BY <3>1, Zenon
    <3>2. CASE EnqueueTask(c) /\ idemIndex = NoIndex
      <4>1. idemTasks' = Append(idemTasks, idemCall[c].body)
        BY <3>2 DEF EnqueueTask
      <4>2. Len(idemTasks') = Len(idemTasks) + 1
        BY <1>1, <1>2, <4>1, SMTT(40)
      <4> QED
        BY <1>2, <1>3, <4>2
    <3>3. CASE EnqueueTask(c) /\ idemIndex # NoIndex
      <4>1. Enqueued(c, idemIndex.hash = idemCall[c].body, idemIndex.task)
        BY <3>3 DEF EnqueueTask
      <4>2. idemIndex.task \in Nat
        BY <1>1, <3>3 DEF IdemTypeOK, IndexRow
      <4>3. Asked(idemIndex.task, idemIndex.hash)
        BY <1>1, <3>3, ZenonT(20) DEF IndexExact
      <4> QED
        BY <4>1, <4>2, <4>3, ZenonT(60)
    <3> QED
      BY <3>1, <3>2, <3>3, Zenon DEF Handler
  <2>2. /\ idemCall' \in [IdemCalls -> CallRow]
        /\ idemCall'[c].pc = "settleRead" /\ idemCall'[c].body = idemCall[c].body
        /\ idemCall'[c].ok = ok /\ idemCall'[c].task = t
        /\ \A e \in IdemCalls \ {c} : idemCall'[e] = idemCall[e]
    BY <1>1, <2>1, EnqueuedEffect
  <2>3. UNCHANGED <<idemRow, idemIndex, idemTasks, idemSince, idemRev, idemWire>>
    BY <1>3, ZenonT(20) DEF Handler
  <2>4. HeldBy(c)' /\ Promised(c)'
    BY <1>1, <2>1, <2>2, <2>3, SMTT(40)
    DEF HeldBy, Promised, Holding, Asked, Handler, On
  <2>5. Replied(c)
    BY <1>1, <2>3, Zenon DEF Replied, IdemTypeOK
  <2> QED
    BY <2>2, <2>3, <2>4, <2>5, CallSuffices
<1>4. CASE idemIndex = NoIndex /\ EnqueueTask(c)
  <2> DEFINE n == Len(idemTasks) + 1
             b == idemCall[c].body
  <2>1. PICK ok \in BOOLEAN : Enqueued(c, ok, n)
    BY <1>4, SMTT(40) DEF EnqueueTask
  <2>2. idemTasks' = Append(idemTasks, b) /\ idemIndex' = [task |-> n, hash |-> b]
    BY <1>4, ZenonT(20) DEF EnqueueTask
  <2>3. /\ idemTasks' \in Seq(IdemBodies) /\ Len(idemTasks') = n
        /\ idemTasks'[n] = b /\ n \in Nat /\ n > 0
        /\ \A i \in 1 .. Len(idemTasks) : idemTasks'[i] = idemTasks[i]
    BY <1>1, <1>2, <2>2
  <2>4. ASSUME NEW i, NEW body, Asked(i, body)
        PROVE  Asked(i, body)'
    BY <1>2, <2>3, <2>4, SMTT(40) DEF Asked
  <2>5. idemIndex' \in IndexRow /\ idemIndex' # NoIndex
        /\ Asked(idemIndex.task, idemIndex.hash)'
    BY <1>1, <2>2, <2>3, SMTT(40) DEF IndexRow, NoIndex, Asked
  <2> HIDE DEF n, b
  <2>6. /\ idemCall' \in [IdemCalls -> CallRow]
        /\ idemCall'[c].pc = "settleRead" /\ idemCall'[c].body = idemCall[c].body
        /\ idemCall'[c].ok = ok /\ idemCall'[c].task = n
        /\ \A e \in IdemCalls \ {c} : idemCall'[e] = idemCall[e]
    BY <1>1, <2>1, <2>3, EnqueuedEffect
  <2>7. UNCHANGED <<idemRow, idemSince, idemRev, idemWire>>
    BY ZenonT(20) DEF Handler
  <2>8. IdemTypeOK'
    BY <1>1, <2>3, <2>5, <2>6, <2>7, ZenonT(20) DEF IdemTypeOK
  <2>9. IndexExact'
    <3>1. n = idemSince + 1
      BY <1>1, <1>4, SMTT(40) DEF IndexExact, n
    <3> QED
      BY <2>3, <2>5, <2>7, <3>1, SMTT(40) DEF IndexExact
  <2>10. RowTrue'
    BY <2>4, <2>7 DEF IdemInv, RowTrue
  <2>11. ASSUME NEW e \in IdemCalls
         PROVE  HeldBy(e)' /\ Promised(e)' /\ Answered(e)'
    <3>1. idemCall'[e].body = idemCall[e].body
      BY <2>6, ZenonT(20)
    <3>2. Answered(e)'
      BY <2>4, <2>7, <3>1 DEF IdemInv, Answered
    <3>3. CASE e = c
      <4>1. n \in 1 .. Len(idemTasks') /\ idemTasks'[n] = idemCall'[c].body
        BY <2>3, <2>6, SMTT(40) DEF b
      <4>2. Promised(c)'
        BY <2>6, <4>1, ZenonT(20) DEF Promised, Asked
      <4>3. HeldBy(c)'
        BY <1>1, <2>6, <2>7, ZenonT(20) DEF HeldBy, Holding, Handler, On
      <4> QED
        BY <3>2, <3>3, <4>2, <4>3, ZenonT(20)
    <3>4. CASE e # c
      BY <2>4, <2>6, <2>7, <3>2, <3>4 DEF IdemInv, HeldBy, Promised
    <3> QED
      BY <3>3, <3>4, ZenonT(20)
  <2> QED
    BY <2>8, <2>9, <2>10, <2>11, ZenonT(20) DEF IdemInv
<1> QED
  BY <1>3, <1>4, Zenon DEF Handler, EnqueueTask

(* The clock and the cleanups.                                             *)
LEMMA CleanupSteps ==
    ASSUME IdemInv,
           \/ RowExpires \/ DeleteExpiredIdempotencyKeys
           \/ DeleteExpiredIdempotencyTaskIndex
    PROVE  IdemInv'
<1>1. IdemTypeOK /\ IndexExact /\ RowTrue
  BY DEF IdemInv
<1>2. CASE RowExpires
  <2> DEFINE row == [idemRow EXCEPT !.expired = TRUE]
  <2>1. idemRow \in KeyRow /\ idemRow # NoKey
    BY <1>1, <1>2 DEF RowExpires, IdemTypeOK
  <2>2. row \in KeyRow /\ row.expired /\ row.task = idemRow.task
        /\ row.hash = idemRow.hash /\ row.state = idemRow.state
    BY <2>1, Zenon DEF KeyRow
  <2>3. idemRow' = row
        /\ UNCHANGED <<idemIndex, idemTasks, idemSince, idemCall, idemWire, idemRev>>
    BY <1>2 DEF RowExpires
  <2> HIDE DEF row
  <2>4. \A c \in IdemCalls : idemCall[c].pc \notin Holding
    BY <1>2, <2>1, ZenonT(20) DEF RowExpires, Ended, IdemInv, HeldBy, Holding
  <2>5. IdemTypeOK' /\ IndexExact' /\ RowTrue'
    BY <1>1, <2>1, <2>2, <2>3, ZenonT(20) DEF IdemTypeOK, IndexExact, RowTrue, Asked
  <2>6. \A c \in IdemCalls : HeldBy(c)' /\ Promised(c)' /\ Answered(c)'
    BY <2>2, <2>3, <2>4, SMTT(40)
    DEF IdemInv, HeldBy, Promised, Answered, Asked, Holding
  <2> QED
    BY <2>5, <2>6 DEF IdemInv
<1>3. CASE DeleteExpiredIdempotencyKeys
  <2>1. /\ idemRow' = NoKey /\ idemRev' = idemRev + 1
        /\ UNCHANGED <<idemIndex, idemTasks, idemSince, idemCall, idemWire>>
        /\ \A c \in IdemCalls : idemCall[c].pc \notin Holding
    BY <1>3, HolderAlone DEF DeleteExpiredIdempotencyKeys, PutRow
  <2>2. idemRev \in Nat /\ \A c \in IdemCalls : idemCall[c].rev \in Nat
    BY <1>1, ZenonT(20) DEF IdemTypeOK, CallRow
  <2>3. IdemTypeOK' /\ IndexExact' /\ RowTrue'
    BY <1>1, <2>1, <2>2, SMTT(40) DEF IdemTypeOK, IndexExact, RowTrue, Asked
  <2>4. \A c \in IdemCalls : HeldBy(c)' /\ Promised(c)' /\ Answered(c)'
    BY <2>1, <2>2, SMTT(40)
    DEF IdemInv, HeldBy, Promised, Answered, Asked, Holding
  <2> QED
    BY <2>3, <2>4 DEF IdemInv
<1>4. CASE DeleteExpiredIdempotencyTaskIndex
  <2>1. /\ idemIndex' = NoIndex /\ idemSince' = Len(idemTasks)
        /\ UNCHANGED <<idemRow, idemTasks, idemCall, idemWire, idemRev>>
    BY <1>4 DEF DeleteExpiredIdempotencyTaskIndex
  <2>2. Len(idemTasks) \in Nat
    BY <1>1, SMTT(40) DEF IdemTypeOK
  <2>3. IdemTypeOK' /\ IndexExact' /\ RowTrue'
    BY <1>1, <2>1, <2>2, ZenonT(20) DEF IdemTypeOK, IndexExact, RowTrue, Asked
  <2>4. \A c \in IdemCalls : HeldBy(c)' /\ Promised(c)' /\ Answered(c)'
    BY <2>1 DEF IdemInv, HeldBy, Promised, Answered, Asked
  <2> QED
    BY <2>3, <2>4 DEF IdemInv
<1> QED
  BY <1>2, <1>3, <1>4

(* No request holds the row and no task exists before the first request.   *)
LEMMA IdemInvInit == IdemInit => IdemInv
<1> SUFFICES ASSUME IdemInit
             PROVE  IdemInv
  OBVIOUS
<1>1. PICK body \in [IdemCalls -> IdemBodies] :
        idemCall = [c \in IdemCalls |-> IdemNew(body[c])]
  BY ZenonT(20) DEF IdemInit
<1>2. ASSUME NEW b \in IdemBodies
      PROVE  IdemNew(b) \in CallRow /\ IdemNew(b).pc = "new"
  BY DEF IdemNew, CallRow, IdemPcs
<1>3. \A c \in IdemCalls : idemCall[c] \in CallRow /\ idemCall[c].pc = "new"
  BY <1>1, <1>2, ZenonT(20)
<1>4. IdemTypeOK
  BY <1>1, <1>3, SMTT(40) DEF IdemInit, IdemTypeOK
<1>5. IndexExact /\ RowTrue
  BY ZenonT(20) DEF IdemInit, IndexExact, RowTrue
<1>6. \A c \in IdemCalls : HeldBy(c) /\ Promised(c)
  BY <1>3, ZenonT(20) DEF HeldBy, Promised, Holding
<1>7. \A c \in IdemCalls : Len(idemWire[c]) = 0
  BY ZenonT(20) DEF IdemInit
<1>8. \A c \in IdemCalls : Answered(c)
  BY <1>7 DEF Answered
<1> QED
  BY <1>4, <1>5, <1>6, <1>8, ZenonT(20) DEF IdemInv

(* Every step of every call keeps the invariant. *)
LEMMA IdemInvStep == IdemInv /\ [IdemNext]_idemVars => IdemInv'
<1> SUFFICES ASSUME IdemInv, [IdemNext]_idemVars
             PROVE  IdemInv'
  OBVIOUS
<1>1. CASE UNCHANGED idemVars
  BY <1>1, ZenonT(60)
  DEF idemVars, IdemInv, IdemTypeOK, IndexExact, RowTrue, HeldBy, Promised,
      Answered, Asked
<1>2. CASE IdemNext
  BY <1>2, ReadSteps, RowSteps, HandlerStep, CleanupSteps DEF IdemNext
<1> QED
  BY <1>1, <1>2, SMTT(40)

(* The rows and answers of the idempotency middleware in every state.      *)
THEOREM IdemInvariant == IdemSpec => []IdemInv
<1> QED
  BY IdemInvInit, IdemInvStep, PTL DEF IdemSpec

(* However many retries, crashes, lapsed leases and lost answers there     *)
(* are, a key enqueues at most one task while its index lives, and a 2xx   *)
(* answer names a task of the request's own body.                          *)
THEOREM EnqueuedOnce == IdemSpec => []IdemExactlyOnce
<1>1. ASSUME IdemInv
      PROVE  IdemExactlyOnce
  <2>1. Len(idemTasks) <= idemSince + 1
    BY <1>1, SMTT(40) DEF IdemInv, IdemTypeOK, IndexExact
  <2>2. \A c \in IdemCalls : \A a \in Answers(c) :
          a.status = "2xx" => idemTasks[a.task] = idemCall[c].body
    BY <1>1 DEF IdemInv, Answered, Asked, Answers
  <2> QED
    BY <2>1, <2>2, Zenon DEF IdemExactlyOnce
<1> QED
  BY <1>1, IdemInvariant, PTL

====
