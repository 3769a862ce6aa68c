------------------------------ MODULE Sessions ------------------------------
(***************************************************************************)
(* Refresh-token sessions: internal/auth/service.go over                   *)
(* internal/etcdstore/refresh_tokens.go, as the login, refresh and logout  *)
(* handlers and the user-update handlers drive them.                       *)
(*                                                                         *)
(* A login starts a family; every refresh rotates the presented token into *)
(* a child of the same family; presenting a token that is already revoked, *)
(* or losing the rotation's compare-and-set, burns the family.  Each HTTP  *)
(* call is a process whose steps are its round trips to etcd.  One user    *)
(* holds all the families: the only cross-family operation, logout-all, is *)
(* per user.                                                               *)
(***************************************************************************)
EXTENDS Naturals, Sequences, FiniteSets

CONSTANTS SessCalls,    \* the HTTP calls, each served once
          MaxTokens     \* bound on the refresh tokens ever issued

VARIABLES sessTok,      \* refresh_tokens rows: [fam, revoked, expired, rev, kept]
          sessBar,      \* the families whose burn barrier key exists
          sessUser,     \* the user row: "live" or "deleted"
          sessCall,     \* where each call is and what it has read
          sessDead,     \* history: families a burn has swept to the end
          sessShown     \* history: [token |-> calls that presented it or revoked it]

sessVars == <<sessTok, sessBar, sessUser, sessCall, sessDead, sessShown>>

SessToks == 1 .. Len(sessTok)
Idle == [pc |-> "new", tok |-> 0, rev |-> 0, fams |-> {},
         rows |-> {}, then |-> "done"]
At(c, pc) == sessCall[c].pc = pc
Goto(c, pc) == sessCall' = [sessCall EXCEPT ![c].pc = pc]
Done(c) == sessCall' = [sessCall EXCEPT ![c] = [Idle EXCEPT !.pc = "done",
                                                            !.then = sessCall[c].then]]
Present(c, t) == sessShown' = [sessShown EXCEPT ![t] = @ \union {c}]

refreshTokenFromParams(fam) ==
  [fam |-> fam, revoked |-> FALSE, expired |-> FALSE, rev |-> 1, kept |-> TRUE]

SessInit ==
  /\ sessTok = <<refreshTokenFromParams(1)>>      \* a login has been answered
  /\ sessBar = {}
  /\ sessUser = "live"
  /\ sessCall = [c \in SessCalls |-> Idle]
  /\ sessDead = {}
  /\ sessShown = [t \in 1 .. MaxTokens |-> {}]

Revoked(row) == [row EXCEPT !.revoked = TRUE, !.rev = @ + 1]
-----------------------------------------------------------------------------
(* Login: the user is looked up and the password verified, then the first  *)
(* token of a new family is written in one transaction.                    *)
LoginRead(c) ==
  /\ At(c, "new")
  /\ sessUser = "live"
  /\ Goto(c, "create")
  /\ UNCHANGED <<sessTok, sessBar, sessUser, sessDead, sessShown>>

CreateRefreshToken(c) ==
  /\ At(c, "create")
  /\ Len(sessTok) < MaxTokens
  /\ sessTok' = Append(sessTok, refreshTokenFromParams(Len(sessTok) + 1))
  /\ Done(c)
  /\ UNCHANGED <<sessBar, sessUser, sessDead, sessShown>>
-----------------------------------------------------------------------------
(* Refresh: look the presented token up and branch on what was read.       *)
BurnFrom(c, f, then) ==
  sessCall' = [sessCall EXCEPT ![c] = [Idle EXCEPT !.pc = "bar", !.fams = {f},
                                                   !.then = then]]

Refresh(c, t) ==
  /\ At(c, "new")
  /\ sessTok[t].kept
  /\ Present(c, t)
  /\ IF sessTok[t].revoked THEN BurnFrom(c, sessTok[t].fam, "replay")
     ELSE IF sessTok[t].expired THEN Done(c)
     ELSE sessCall' = [sessCall EXCEPT ![c].pc = "user", ![c].tok = t]
  /\ UNCHANGED <<sessTok, sessBar, sessUser, sessDead>>

(* A soft-deleted user's session is revoked, never rotated.                *)
RefreshLoadUser(c) ==
  /\ At(c, "user")
  /\ Goto(c, IF sessUser = "live" THEN "rotateRead" ELSE "revokeRead")
  /\ UNCHANGED <<sessTok, sessBar, sessUser, sessDead, sessShown>>

RotateRead(c) ==
  /\ At(c, "rotateRead")
  /\ LET t == sessCall[c].tok IN
     IF ~sessTok[t].kept THEN Done(c)
     ELSE IF sessTok[t].revoked THEN BurnFrom(c, sessTok[t].fam, "replay")
     ELSE sessCall' = [sessCall EXCEPT ![c].pc = "rotate", ![c].rev = sessTok[t].rev]
  /\ UNCHANGED <<sessTok, sessBar, sessUser, sessDead, sessShown>>

(* Mutant: the rotation does not compare the barrier key. *)
RotateIgnoresBarrier(c, t) ==
  /\ sessTok[t].kept
  /\ sessTok[t].rev = sessCall[c].rev

(* The rotation's transaction: parent revoked and child inserted together,  *)
(* if the parent is as read and the family has no barrier.                  *)
RotateWins(c, t) ==
  /\ sessTok[t].kept
  /\ sessTok[t].rev = sessCall[c].rev
  /\ sessTok[t].fam \notin sessBar

RotateRefreshToken(c) ==
  /\ At(c, "rotate")
  /\ Len(sessTok) < MaxTokens
  /\ LET t == sessCall[c].tok IN
     IF RotateWins(c, t)
     THEN /\ sessTok' = Append([sessTok EXCEPT ![t] = Revoked(@)],
                               refreshTokenFromParams(sessTok[t].fam))
          /\ Goto(c, "touchRead")
     ELSE /\ BurnFrom(c, sessTok[t].fam, "replay")
          /\ UNCHANGED sessTok
  /\ UNCHANGED <<sessBar, sessUser, sessDead, sessShown>>

(* TouchRefreshToken stamps last_used_at on the parent under a              *)
(* compare-and-set that re-reads on a conflict.                             *)
touchTarget(c) == sessCall[c].tok

TouchRead(c) ==
  /\ At(c, "touchRead")
  /\ LET t == touchTarget(c) IN
     IF sessTok[t].kept
     THEN sessCall' = [sessCall EXCEPT ![c].pc = "touch", ![c].rev = sessTok[t].rev,
                                       ![c].tok = t]
     ELSE Done(c)
  /\ UNCHANGED <<sessTok, sessBar, sessUser, sessDead, sessShown>>

casRefreshTokenUpdate(c) ==
  /\ At(c, "touch")
  /\ LET t == sessCall[c].tok IN
     IF sessTok[t].kept /\ sessTok[t].rev = sessCall[c].rev
     THEN /\ sessTok' = [sessTok EXCEPT ![t].rev = @ + 1]
          /\ Done(c)
     ELSE /\ Goto(c, "touchRead")
          /\ UNCHANGED sessTok
  /\ UNCHANGED <<sessBar, sessUser, sessDead, sessShown>>
-----------------------------------------------------------------------------
(* Logout of one session, and the revoke of a deleted user's token: a read *)
(* and an unconditional put of the row as read, with revoked_at set.       *)
Logout(c, t) ==
  /\ At(c, "new")
  /\ sessTok[t].kept
  /\ Present(c, t)
  /\ sessCall' = [sessCall EXCEPT ![c].pc = "revokeRead", ![c].tok = t]
  /\ UNCHANGED <<sessTok, sessBar, sessUser, sessDead>>

RevokeRead(c) ==
  /\ At(c, "revokeRead")
  /\ LET t == sessCall[c].tok IN
     IF sessTok[t].kept /\ ~sessTok[t].revoked THEN Goto(c, "revoke") ELSE Done(c)
  /\ UNCHANGED <<sessTok, sessBar, sessUser, sessDead, sessShown>>

(* The put names the row's key, so it would also bring back a row the       *)
(* cleanup removed meanwhile, as revoked.                                   *)
RevokeRefreshToken(c) ==
  /\ At(c, "revoke")
  /\ sessTok' = [sessTok EXCEPT ![sessCall[c].tok] = [Revoked(@) EXCEPT !.kept = TRUE]]
  /\ Done(c)
  /\ UNCHANGED <<sessBar, sessUser, sessDead, sessShown>>
-----------------------------------------------------------------------------
(* Logout-all, and the session reset of a password or role change: the      *)
(* families the user holds now are read, barred, and swept.                 *)
userTokenFamilies == {sessTok[t].fam : t \in {u \in SessToks : sessTok[u].kept}}

RevokeAllUserRefreshTokens(c) ==
  /\ At(c, "new")
  /\ sessCall' = [sessCall EXCEPT ![c] = [Idle EXCEPT !.pc = "bar",
                                                      !.fams = userTokenFamilies]]
  /\ sessShown' = [t \in 1 .. MaxTokens |->
                     IF t \in SessToks THEN sessShown[t] \union {c} ELSE sessShown[t]]
  /\ UNCHANGED <<sessTok, sessBar, sessUser, sessDead>>

(* Every barrier is in place before the first sweep ranges.                 *)
putFamilyBarrier(c) ==
  /\ At(c, "bar")
  /\ LET todo == sessCall[c].fams \ sessBar IN
     IF todo = {}
     THEN /\ Goto(c, "sweep")
          /\ UNCHANGED sessBar
     ELSE /\ \E f \in todo : sessBar' = sessBar \union {f}
          /\ UNCHANGED sessCall
  /\ UNCHANGED <<sessTok, sessUser, sessDead, sessShown>>

(* revokeIndexed, one family at a time: the rows the index ranges over are  *)
(* read here and put back revoked by the commit.                            *)
Active(f) == {t \in SessToks : /\ sessTok[t].kept
                               /\ sessTok[t].fam = f
                               /\ ~sessTok[t].revoked}

SweepRange(c) ==
  /\ At(c, "sweep")
  /\ IF sessCall[c].fams = {} THEN Done(c)
     ELSE \E f \in sessCall[c].fams :
            sessCall' = [sessCall EXCEPT ![c].pc = "swept", ![c].tok = f,
                                         ![c].rows = Active(f)]
  /\ UNCHANGED <<sessTok, sessBar, sessUser, sessDead, sessShown>>

revokeIndexed(c) ==
  /\ At(c, "swept")
  /\ LET f == sessCall[c].tok IN
     /\ sessTok' = [t \in SessToks |-> IF t \in sessCall[c].rows
                                        THEN [Revoked(sessTok[t]) EXCEPT !.kept = TRUE]
                                        ELSE sessTok[t]]
     /\ sessDead' = sessDead \union {f}
     /\ sessCall' = [sessCall EXCEPT ![c].pc = "sweep", ![c].rows = {}, ![c].tok = 0,
                                     ![c].fams = @ \ {f}]
  /\ UNCHANGED <<sessBar, sessUser, sessShown>>

(* An etcd error or a crash between two round trips ends the call.          *)
CallFails(c) ==
  /\ sessCall[c].pc \notin {"new", "done"}
  /\ Done(c)
  /\ UNCHANGED <<sessTok, sessBar, sessUser, sessDead, sessShown>>
-----------------------------------------------------------------------------
DeleteSessionUser ==
  /\ sessUser = "live"
  /\ sessUser' = "deleted"
  /\ UNCHANGED <<sessTok, sessBar, sessCall, sessDead, sessShown>>

(* Tokens expire in the order they were issued: one lifetime for all.       *)
Expire(t) ==
  /\ ~sessTok[t].expired
  /\ \A u \in 1 .. t - 1 : sessTok[u].expired
  /\ sessTok' = [sessTok EXCEPT ![t].expired = TRUE]
  /\ UNCHANGED <<sessBar, sessUser, sessCall, sessDead, sessShown>>

(* The hourly cleanup deletes expired rows with their index keys, and a     *)
(* barrier whose own expiry - the token lifetime and a day from the burn -  *)
(* has passed, which is after every token of the family has expired.        *)
DeleteExpiredRefreshTokens ==
  LET old  == {t \in SessToks : sessTok[t].kept /\ sessTok[t].expired}
      late == {f \in sessBar : \A t \in SessToks : sessTok[t].fam = f => sessTok[t].expired} IN
  /\ old # {}
  /\ \E gone \in {{}, late} : sessBar' = sessBar \ gone
  /\ sessTok' = [t \in SessToks |-> [sessTok[t] EXCEPT !.kept = @ /\ t \notin old]]
  /\ UNCHANGED <<sessUser, sessCall, sessDead, sessShown>>

SessNext ==
  \/ \E c \in SessCalls :
       \/ LoginRead(c) \/ CreateRefreshToken(c)
       \/ RefreshLoadUser(c) \/ RotateRead(c) \/ RotateRefreshToken(c)
       \/ TouchRead(c) \/ casRefreshTokenUpdate(c)
       \/ RevokeRead(c) \/ RevokeRefreshToken(c)
       \/ RevokeAllUserRefreshTokens(c) \/ putFamilyBarrier(c)
       \/ SweepRange(c) \/ revokeIndexed(c)
       \/ CallFails(c)
       \/ \E t \in SessToks : Refresh(c, t) \/ Logout(c, t)
  \/ DeleteSessionUser
  \/ \E t \in SessToks : Expire(t)
  \/ DeleteExpiredRefreshTokens

SessSpec == SessInit /\ [][SessNext]_sessVars
-----------------------------------------------------------------------------
Live(f) == {t \in Active(f) : ~sessTok[t].expired}

(* A family has at most one token that can still be rotated, and none once  *)
(* a burn of it has swept to the end: neither a rotation racing the sweep,  *)
(* nor a touch or a logout putting back an older row, leaves a live token   *)
(* behind.                                                                  *)
FamilySound ==
  \A f \in SessToks :
    /\ Cardinality(Live(f)) <= 1
    /\ f \in sessDead => Live(f) = {}

=============================================================================
