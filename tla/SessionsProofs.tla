--------------------------- MODULE SessionsProofs ---------------------------
(***************************************************************************)
(* Refresh-token families, for any number of tokens, calls and faults: a   *)
(* family has at most one token that can still be rotated, and none once a *)
(* burn of it has swept to the end. The invariant has to say what each     *)
(* call relies on between its round trips, because a burn reads the rows   *)
(* of a family first and writes them one by one.                           *)
(***************************************************************************)
EXTENDS Sessions, TLAPS, FiniteSetTheorems, SequenceTheorems

(* The refresh-token rows and what a call remembers between round trips.   *)
TokRow == [fam : Nat, revoked : BOOLEAN, expired : BOOLEAN, rev : Nat,
           kept : BOOLEAN]
SessPcs == {"new", "create", "user", "rotateRead", "rotate", "touchRead",
            "touch", "revokeRead", "revoke", "bar", "sweep", "swept", "done"}
SessRow == [pc : SessPcs, tok : Nat, rev : Nat, fams : SUBSET Nat,
            rows : SUBSET Nat, then : {"done", "replay"}]

SessTypeOK ==
    /\ sessTok \in Seq(TokRow)
    /\ sessCall \in [SessCalls -> SessRow]
    /\ sessDead \subseteq SessToks
    /\ \A t \in SessToks : sessTok[t].fam \in SessToks

(* A family has one unrevoked token.                                       *)
OneActive ==
    \A t, u \in SessToks :
        /\ sessTok[t].fam = sessTok[u].fam
        /\ ~sessTok[t].revoked /\ ~sessTok[u].revoked
        => t = u

(* A token that no rotation can use any more, a family that can grow no    *)
(* more.                                                                   *)
Shut(t) == sessTok[t].revoked \/ ~sessTok[t].kept

ShutFamily(f) == \A t \in SessToks : sessTok[t].fam = f => Shut(t)

Closed(f) == f \in sessBar \/ ShutFamily(f)

DeadShut == \A f \in sessDead : ShutFamily(f)

(* What a call relies on between two round trips: a rotation that still    *)
(* matches has an unrevoked parent, and a sweep misses no token of a       *)
(* family that is barred or shut.                                          *)
TokPcs == {"user", "rotateRead", "rotate", "touchRead", "touch",
           "revokeRead", "revoke"}

Relies(c) ==
    /\ sessCall[c].pc \in TokPcs => sessCall[c].tok \in SessToks
    /\ sessCall[c].pc = "rotate" =>
         /\ sessCall[c].rev <= sessTok[sessCall[c].tok].rev
         /\ sessCall[c].rev = sessTok[sessCall[c].tok].rev =>
              ~sessTok[sessCall[c].tok].revoked
    /\ sessCall[c].pc \in {"bar", "sweep", "swept"} =>
         sessCall[c].fams \subseteq SessToks
    /\ sessCall[c].pc \in {"sweep", "swept"} =>
         \A f \in sessCall[c].fams : Closed(f)
    /\ sessCall[c].pc = "swept" =>
         /\ sessCall[c].tok \in sessCall[c].fams
         /\ \A t \in SessToks : sessTok[t].fam = sessCall[c].tok =>
              t \in sessCall[c].rows \/ Shut(t)

SessInv ==
    /\ SessTypeOK
    /\ OneActive
    /\ DeadShut
    /\ \A c \in SessCalls : Relies(c)

(* What a step may do to the rows: no row changes family or loses its      *)
(* revocation, a revocation shows in the revision, a shut row stays shut,  *)
(* and a family that is barred or shut gets no new token.                  *)
Ages ==
    /\ sessTok' \in Seq(TokRow)
    /\ Len(sessTok') >= Len(sessTok)
    /\ \A t \in SessToks :
         /\ sessTok'[t].fam = sessTok[t].fam
         /\ sessTok'[t].rev >= sessTok[t].rev
         /\ sessTok[t].revoked => sessTok'[t].revoked
         /\ sessTok'[t].rev = sessTok[t].rev =>
              sessTok'[t].revoked = sessTok[t].revoked
         /\ Shut(t) => Shut(t)'
    /\ \A t \in 1 .. Len(sessTok') : t \notin SessToks =>
         /\ sessTok'[t].fam \in 1 .. Len(sessTok')
         /\ sessTok'[t].fam \in SessToks => ~Closed(sessTok'[t].fam)
    /\ \A f \in sessBar : f \in sessBar' \/ ShutFamily(f)'

(* What the type invariant says of one row and of one call. *)
LEMMA SessTypes ==
    ASSUME SessTypeOK
    PROVE  /\ Len(sessTok) \in Nat
           /\ \A t \in SessToks : /\ t \in Nat /\ sessTok[t] \in TokRow
                                  /\ sessTok[t].rev \in Nat
                                  /\ sessTok[t].revoked \in BOOLEAN
                                  /\ sessTok[t].kept \in BOOLEAN
           /\ \A c \in SessCalls : /\ sessCall[c] \in SessRow
                                   /\ sessCall[c].rev \in Nat
                                   /\ sessCall[c].tok \in Nat
                                   /\ sessCall[c].fams \in SUBSET Nat
                                   /\ sessCall[c].rows \in SUBSET Nat
                                   /\ sessCall[c].then \in {"done", "replay"}
<1>1. Len(sessTok) \in Nat /\ \A t \in SessToks : sessTok[t] \in TokRow
  BY DEF SessTypeOK, SessToks
<1>2. \A t \in SessToks : /\ t \in Nat
                          /\ sessTok[t].rev \in Nat
                          /\ sessTok[t].revoked \in BOOLEAN
                          /\ sessTok[t].kept \in BOOLEAN
  BY <1>1 DEF TokRow, SessToks
<1>3. \A c \in SessCalls : sessCall[c] \in SessRow
  BY DEF SessTypeOK
<1> QED
  BY <1>1, <1>2, <1>3 DEF SessRow

(* Shut families and what other calls rely on survive such a step.         *)
LEMMA AgeKeeps ==
    ASSUME SessInv, Ages
    PROVE  /\ SessToks \subseteq SessToks'
           /\ \A f \in SessToks : ShutFamily(f) => ShutFamily(f)'
           /\ \A f \in SessToks : Closed(f) => Closed(f)'
           /\ \A e \in SessCalls : sessCall'[e] = sessCall[e] => Relies(e)'
<1>0. SessTypeOK /\ Len(sessTok) \in Nat /\ Len(sessTok') \in Nat
  BY SessTypes DEF SessInv, Ages
<1>1. SessToks \subseteq SessToks'
  BY <1>0 DEF Ages, SessToks
<1>2. ASSUME NEW f \in SessToks, ShutFamily(f)
      PROVE  ShutFamily(f)'
  <2>1. ASSUME NEW t \in SessToks', sessTok'[t].fam = f
        PROVE  Shut(t)'
    <3>1. CASE t \in SessToks
      BY <1>2, <2>1, <3>1 DEF Ages, ShutFamily
    <3>2. CASE t \notin SessToks
      BY <1>2, <2>1, <3>2 DEF Ages, Closed, SessToks
    <3> QED
      BY <3>1, <3>2
  <2> QED
    BY <2>1 DEF ShutFamily
<1>3. ASSUME NEW f \in SessToks, Closed(f)
      PROVE  Closed(f)'
  BY <1>2, <1>3 DEF Ages, Closed
<1>4. ASSUME NEW e \in SessCalls, sessCall'[e] = sessCall[e]
      PROVE  Relies(e)'
  <2> DEFINE k == sessCall[e]
  <2>1. sessCall'[e] = k /\ k.rev \in Nat
    BY <1>0, <1>4, SessTypes
  <2>2. Relies(e)
    BY DEF SessInv
  <2>3. ASSUME NEW t \in SessToks
        PROVE  sessTok[t].rev \in Nat /\ sessTok'[t].rev \in Nat
    <3>1. sessTok'[t] \in TokRow
      BY <1>0, <1>1, SMTT(40) DEF Ages, SessToks
    <3> QED
      BY <1>0, <3>1, SessTypes DEF TokRow
  <2>4. k.pc \in TokPcs => k.tok \in SessToks'
    BY <1>1, <2>2, ZenonT(20) DEF Relies
  <2>5. k.pc = "rotate" =>
          /\ k.rev <= sessTok'[k.tok].rev
          /\ k.rev = sessTok'[k.tok].rev => ~sessTok'[k.tok].revoked
    <3> SUFFICES ASSUME k.pc = "rotate"
                 PROVE  /\ k.rev <= sessTok'[k.tok].rev
                        /\ k.rev = sessTok'[k.tok].rev => ~sessTok'[k.tok].revoked
      OBVIOUS
    <3>1. /\ k.tok \in SessToks /\ k.rev <= sessTok[k.tok].rev
          /\ k.rev = sessTok[k.tok].rev => ~sessTok[k.tok].revoked
      BY <2>2 DEF Relies, TokPcs
    <3>2. /\ sessTok'[k.tok].rev >= sessTok[k.tok].rev
          /\ sessTok'[k.tok].rev = sessTok[k.tok].rev =>
               sessTok'[k.tok].revoked = sessTok[k.tok].revoked
      BY <3>1 DEF Ages
    <3> QED
      BY <2>1, <2>3, <3>1, <3>2, SMTT(40)
  <2>6. k.pc \in {"bar", "sweep", "swept"} => k.fams \subseteq SessToks'
    BY <1>1, <2>2 DEF Relies
  <2>7. k.pc \in {"sweep", "swept"} => \A f \in k.fams : Closed(f)'
    BY <1>3, <2>2 DEF Relies
  <2>8. k.pc = "swept" =>
          /\ k.tok \in k.fams
          /\ \A t \in SessToks' : sessTok'[t].fam = k.tok =>
               t \in k.rows \/ Shut(t)'
    <3> SUFFICES ASSUME k.pc = "swept", NEW t \in SessToks',
                        sessTok'[t].fam = k.tok
                 PROVE  t \in k.rows \/ Shut(t)'
      BY <2>2 DEF Relies
    <3>1. k.tok \in k.fams /\ k.tok \in SessToks /\ Closed(k.tok)
      BY <2>2 DEF Relies
    <3>2. CASE t \in SessToks
      BY <2>2, <3>2, SMTT(40) DEF Relies, Ages
    <3>3. CASE t \notin SessToks
      BY <3>1, <3>3 DEF Ages, SessToks
    <3> QED
      BY <3>2, <3>3
  <2> HIDE DEF k
  <2> QED
    BY <2>1, <2>4, <2>5, <2>6, <2>7, <2>8, ZenonT(20) DEF Relies
<1> QED
  BY <1>1, <1>2, <1>3, <1>4

(* So a step keeps the invariant if it keeps it for the call that took it, *)
(* for one active token a family, and for what it declares swept.          *)
LEMMA AgeSuffices ==
    ASSUME SessInv, Ages,
           sessCall' \in [SessCalls -> SessRow],
           \A e \in SessCalls : sessCall'[e] = sessCall[e] \/ Relies(e)',
           OneActive', sessDead' \subseteq SessToks,
           \A f \in sessDead' : f \in sessDead \/ ShutFamily(f)'
    PROVE  SessInv'
<1>1. \A e \in SessCalls : Relies(e)'
  BY AgeKeeps
<1>2. DeadShut'
  BY AgeKeeps DEF SessInv, SessTypeOK, DeadShut
<1>3. \A t \in SessToks' : sessTok'[t].fam \in SessToks'
  <2> SUFFICES ASSUME NEW t \in SessToks'
               PROVE  sessTok'[t].fam \in SessToks'
    OBVIOUS
  <2>1. CASE t \in SessToks
    BY <2>1, AgeKeeps, SMTT(40) DEF Ages, SessInv, SessTypeOK
  <2>2. CASE t \notin SessToks
    BY <2>2 DEF Ages, SessToks
  <2> QED
    BY <2>1, <2>2
<1>4. SessTypeOK'
  BY <1>3, AgeKeeps DEF Ages, SessTypeOK
<1> QED
  BY <1>1, <1>2, <1>4 DEF SessInv

(* A step of c that leaves the rows alone.                                 *)
LEMMA CallMoves ==
    ASSUME SessInv, NEW c \in SessCalls,
           sessCall' \in [SessCalls -> SessRow],
           \A e \in SessCalls \ {c} : sessCall'[e] = sessCall[e],
           UNCHANGED <<sessTok, sessDead>>, sessBar \subseteq sessBar',
           Relies(c)'
    PROVE  SessInv'
<1>1. Ages
  BY SessTypes DEF SessInv, SessTypeOK, Ages, Shut, SessToks
<1>2. OneActive'
  BY DEF SessInv, OneActive, SessToks
<1>3. sessDead' \subseteq SessToks
  BY DEF SessInv, SessTypeOK
<1> QED
  BY <1>1, <1>2, <1>3, AgeSuffices, SMTT(40)

(* What a call's own record becomes.                                       *)
LEMMA RecordEffect ==
    ASSUME SessTypeOK, NEW c \in SessCalls, NEW r \in SessRow,
           sessCall' = [sessCall EXCEPT ![c] = r]
    PROVE  /\ sessCall' \in [SessCalls -> SessRow]
           /\ sessCall'[c] = r
           /\ \A e \in SessCalls \ {c} : sessCall'[e] = sessCall[e]
  BY DEF SessTypeOK

(* A call that moves on keeps its token and families. *)
LEMMA GotoEffect ==
    ASSUME SessTypeOK, NEW c \in SessCalls, NEW pc \in SessPcs, Goto(c, pc)
    PROVE  /\ sessCall' \in [SessCalls -> SessRow]
           /\ sessCall'[c].pc = pc /\ sessCall'[c].tok = sessCall[c].tok
           /\ sessCall'[c].fams = sessCall[c].fams
           /\ \A e \in SessCalls \ {c} : sessCall'[e] = sessCall[e]
<1> DEFINE r == [sessCall[c] EXCEPT !.pc = pc]
<1>1. sessCall' = [sessCall EXCEPT ![c] = r]
  BY DEF Goto
<1>2. r \in SessRow /\ r.pc = pc /\ r.tok = sessCall[c].tok
      /\ r.fams = sessCall[c].fams
  BY SessTypes DEF SessRow
<1> HIDE DEF r
<1> QED
  BY <1>1, <1>2, RecordEffect, Zenon

(* A call that ends leaves the other calls alone. *)
LEMMA DoneEffect ==
    ASSUME SessTypeOK, NEW c \in SessCalls, Done(c)
    PROVE  /\ sessCall' \in [SessCalls -> SessRow]
           /\ sessCall'[c].pc = "done"
           /\ \A e \in SessCalls \ {c} : sessCall'[e] = sessCall[e]
<1> DEFINE r == [Idle EXCEPT !.pc = "done", !.then = sessCall[c].then]
<1>1. sessCall' = [sessCall EXCEPT ![c] = r]
  BY DEF Done
<1>2. r \in SessRow /\ r.pc = "done"
  BY SessTypes, Zenon DEF SessRow, Idle, SessPcs
<1> HIDE DEF r
<1> QED
  BY <1>1, <1>2, RecordEffect, Zenon

(* A call that is over relies on nothing.                                  *)
LEMMA DoneSuffices ==
    ASSUME SessInv, NEW c \in SessCalls, Done(c),
           UNCHANGED <<sessTok, sessBar, sessDead>>
    PROVE  SessInv'
<1>1. SessTypeOK
  BY DEF SessInv
<1>2. Relies(c)'
  BY <1>1, DoneEffect DEF Relies, TokPcs
<1> QED
  BY <1>1, <1>2, DoneEffect, CallMoves

(* Moving on without a write keeps the invariant. *)
LEMMA GotoSuffices ==
    ASSUME SessInv, NEW c \in SessCalls, NEW pc \in SessPcs, Goto(c, pc),
           pc \notin {"rotate", "bar", "sweep", "swept"},
           pc \in TokPcs => sessCall[c].tok \in SessToks,
           UNCHANGED <<sessTok, sessBar, sessDead>>
    PROVE  SessInv'
<1>1. SessTypeOK
  BY DEF SessInv
<1>2. Relies(c)'
  BY <1>1, GotoEffect DEF Relies, SessToks
<1> QED
  BY <1>1, <1>2, GotoEffect, CallMoves

(* The record of a call that burns the families F.                         *)
LEMMA BarRow ==
    ASSUME NEW F \in SUBSET Nat, NEW th \in {"done", "replay"}
    PROVE  /\ [Idle EXCEPT !.pc = "bar", !.fams = F, !.then = th] \in SessRow
           /\ [Idle EXCEPT !.pc = "bar", !.fams = F, !.then = th].pc = "bar"
           /\ [Idle EXCEPT !.pc = "bar", !.fams = F, !.then = th].fams = F
           /\ [Idle EXCEPT !.pc = "bar", !.fams = F] \in SessRow
           /\ [Idle EXCEPT !.pc = "bar", !.fams = F].pc = "bar"
           /\ [Idle EXCEPT !.pc = "bar", !.fams = F].fams = F
<1>1. [Idle EXCEPT !.pc = "bar", !.fams = F, !.then = th] \in SessRow
  BY Zenon DEF Idle, SessRow, SessPcs
<1>2. [Idle EXCEPT !.pc = "bar", !.fams = F] \in SessRow
  BY Zenon DEF Idle, SessRow, SessPcs
<1> QED
  BY <1>1, <1>2 DEF Idle

(* A new sweep starts from families that exist.                            *)
LEMMA BarSuffices ==
    ASSUME SessInv, NEW c \in SessCalls, NEW r \in SessRow,
           sessCall' = [sessCall EXCEPT ![c] = r],
           r.pc = "bar", r.fams \subseteq SessToks,
           UNCHANGED <<sessTok, sessBar, sessDead>>
    PROVE  SessInv'
<1>1. SessTypeOK
  BY DEF SessInv
<1>2. Relies(c)'
  BY <1>1, RecordEffect, Zenon DEF Relies, TokPcs, SessToks
<1> QED
  BY <1>1, <1>2, RecordEffect, CallMoves, Zenon

(* A replay starts to burn the family of the token it met. *)
LEMMA BurnSuffices ==
    ASSUME SessInv, NEW c \in SessCalls, NEW t \in SessToks,
           BurnFrom(c, sessTok[t].fam, "replay"),
           UNCHANGED <<sessTok, sessBar, sessDead>>
    PROVE  SessInv'
<1> DEFINE f == sessTok[t].fam
           r == [Idle EXCEPT !.pc = "bar", !.fams = {f}, !.then = "replay"]
<1>1. f \in SessToks /\ f \in Nat
  BY DEF SessInv, SessTypeOK, SessToks
<1>3. sessCall' = [sessCall EXCEPT ![c] = r]
  BY DEF BurnFrom
<1> HIDE DEF f
<1>2. r \in SessRow /\ r.pc = "bar" /\ r.fams = {f}
  BY <1>1, BarRow, Zenon
<1> HIDE DEF r
<1> QED
  BY <1>1, <1>2, <1>3, BarSuffices, Zenon

(* A call that takes note of a token.                                      *)
LEMMA TokenSuffices ==
    ASSUME SessInv, NEW c \in SessCalls, NEW r \in SessRow,
           sessCall' = [sessCall EXCEPT ![c] = r],
           r.pc \in TokPcs, r.tok \in SessToks,
           r.pc = "rotate" => /\ r.rev = sessTok[r.tok].rev
                              /\ ~sessTok[r.tok].revoked,
           UNCHANGED <<sessTok, sessBar, sessDead>>
    PROVE  SessInv'
<1>1. SessTypeOK
  BY DEF SessInv
<1>2. /\ sessCall'[c] = r /\ r.pc \notin {"bar", "sweep", "swept"}
      /\ sessTok[r.tok].rev \in Nat
  BY <1>1, RecordEffect, SessTypes, Zenon DEF TokPcs
<1>3. r.pc = "rotate" => /\ r.rev <= sessTok[r.tok].rev
                         /\ ~sessTok[r.tok].revoked
  BY <1>2
<1>4. Relies(c)'
  BY <1>2, <1>3 DEF Relies, SessToks
<1> QED
  BY <1>1, <1>4, RecordEffect, CallMoves, Zenon

(* The steps that only read.                                               *)
LEMMA SessReads ==
    ASSUME SessInv, NEW c \in SessCalls,
           \/ LoginRead(c) \/ RefreshLoadUser(c) \/ RotateRead(c)
           \/ TouchRead(c) \/ RevokeRead(c) \/ CallFails(c)
           \/ \E t \in SessToks : Refresh(c, t) \/ Logout(c, t)
    PROVE  SessInv'
<1>1. SessTypeOK /\ Relies(c)
  BY DEF SessInv
<1>2. CASE LoginRead(c)
  BY <1>2, GotoSuffices, ZenonT(20) DEF LoginRead, SessPcs, TokPcs
<1>3. CASE RefreshLoadUser(c)
  BY <1>1, <1>3, GotoSuffices, ZenonT(20)
  DEF RefreshLoadUser, At, Relies, SessPcs, TokPcs
<1>4. CASE RotateRead(c)
  <2> DEFINE t == sessCall[c].tok
             r == [sessCall[c] EXCEPT !.pc = "rotate", !.rev = sessTok[t].rev]
  <2>1. t \in SessToks
    BY <1>1, <1>4, ZenonT(20) DEF RotateRead, At, Relies, TokPcs
  <2>2. \/ Done(c)
        \/ BurnFrom(c, sessTok[t].fam, "replay")
        \/ ~sessTok[t].revoked /\ sessCall' = [sessCall EXCEPT ![c] = r]
    BY <1>4, Zenon DEF RotateRead
  <2>3. r \in SessRow /\ r.pc = "rotate" /\ r.tok = t /\ r.rev = sessTok[t].rev
    BY <1>1, <2>1, SessTypes, Zenon DEF SessRow, SessPcs
  <2>4. UNCHANGED <<sessTok, sessBar, sessDead>>
    BY <1>4 DEF RotateRead
  <2> HIDE DEF t, r
  <2>5. CASE Done(c)
    BY <2>4, <2>5, DoneSuffices, ZenonT(20)
  <2>6. CASE BurnFrom(c, sessTok[t].fam, "replay")
    BY <2>1, <2>4, <2>6, BurnSuffices, ZenonT(20)
  <2>7. CASE ~sessTok[t].revoked /\ sessCall' = [sessCall EXCEPT ![c] = r]
    BY <2>1, <2>3, <2>4, <2>7, TokenSuffices, Zenon DEF TokPcs
  <2> QED
    BY <2>2, <2>5, <2>6, <2>7, ZenonT(20)
<1>5. CASE TouchRead(c)
  <2> DEFINE t == sessCall[c].tok
             r == [sessCall[c] EXCEPT !.pc = "touch", !.rev = sessTok[t].rev,
                                      !.tok = t]
  <2>1. t \in SessToks
    BY <1>1, <1>5 DEF TouchRead, At, Relies, TokPcs
  <2>2. Done(c) \/ sessCall' = [sessCall EXCEPT ![c] = r]
    BY <1>5, Zenon DEF TouchRead, touchTarget
  <2>3. r \in SessRow /\ r.pc = "touch" /\ r.tok = t
    BY <1>1, <2>1, SessTypes, Zenon DEF SessRow, SessPcs
  <2>4. UNCHANGED <<sessTok, sessBar, sessDead>>
    BY <1>5, ZenonT(20) DEF TouchRead
  <2> HIDE DEF t, r
  <2>5. CASE Done(c)
    BY <2>4, <2>5, DoneSuffices
  <2>6. CASE sessCall' = [sessCall EXCEPT ![c] = r]
    BY <2>1, <2>3, <2>4, <2>6, TokenSuffices, Zenon DEF TokPcs
  <2> QED
    BY <2>2, <2>5, <2>6, ZenonT(20)
<1>6. CASE RevokeRead(c)
  <2>1. sessCall[c].tok \in SessToks
    BY <1>1, <1>6, ZenonT(20) DEF RevokeRead, At, Relies, TokPcs
  <2>2. Goto(c, "revoke") \/ Done(c)
    BY <1>6 DEF RevokeRead
  <2>3. UNCHANGED <<sessTok, sessBar, sessDead>>
    BY <1>6 DEF RevokeRead
  <2>4. CASE Goto(c, "revoke")
    BY <2>1, <2>3, <2>4, GotoSuffices, ZenonT(20) DEF SessPcs
  <2>5. CASE Done(c)
    BY <2>3, <2>5, DoneSuffices
  <2> QED
    BY <2>2, <2>4, <2>5, ZenonT(20)
<1>7. CASE CallFails(c)
  BY <1>7, DoneSuffices, SMTT(40) DEF CallFails
<1>8. ASSUME NEW t \in SessToks, Refresh(c, t)
      PROVE  SessInv'
  <2> DEFINE r == [sessCall[c] EXCEPT !.pc = "user", !.tok = t]
  <2>1. \/ Done(c)
        \/ BurnFrom(c, sessTok[t].fam, "replay")
        \/ sessCall' = [sessCall EXCEPT ![c] = r]
    BY <1>8, Zenon DEF Refresh
  <2>2. r \in SessRow /\ r.pc = "user" /\ r.tok = t
    BY <1>1, SessTypes, Zenon DEF SessRow, SessPcs
  <2>3. UNCHANGED <<sessTok, sessBar, sessDead>>
    BY <1>8 DEF Refresh
  <2> HIDE DEF r
  <2>4. CASE Done(c)
    BY <2>3, <2>4, DoneSuffices
  <2>5. CASE BurnFrom(c, sessTok[t].fam, "replay")
    BY <2>3, <2>5, BurnSuffices, SMTT(40)
  <2>6. CASE sessCall' = [sessCall EXCEPT ![c] = r]
    BY <2>2, <2>3, <2>6, TokenSuffices, Zenon DEF TokPcs
  <2> QED
    BY <2>1, <2>4, <2>5, <2>6, ZenonT(20)
<1>9. ASSUME NEW t \in SessToks, Logout(c, t)
      PROVE  SessInv'
  <2> DEFINE r == [sessCall[c] EXCEPT !.pc = "revokeRead", !.tok = t]
  <2>1. sessCall' = [sessCall EXCEPT ![c] = r]
    BY <1>9, Zenon DEF Logout
  <2>2. r \in SessRow /\ r.pc = "revokeRead" /\ r.tok = t
    BY <1>1, SessTypes, Zenon DEF SessRow, SessPcs
  <2>3. UNCHANGED <<sessTok, sessBar, sessDead>>
    BY <1>9 DEF Logout
  <2> HIDE DEF r
  <2> QED
    BY <2>1, <2>2, <2>3, TokenSuffices, Zenon DEF TokPcs
<1> QED
  BY <1>2, <1>3, <1>4, <1>5, <1>6, <1>7, <1>8, <1>9, ZenonT(20)

(* Bars and ranges of a burn.                                              *)
LEMMA BurnReads ==
    ASSUME SessInv, NEW c \in SessCalls,
           \/ RevokeAllUserRefreshTokens(c) \/ putFamilyBarrier(c)
           \/ SweepRange(c)
    PROVE  SessInv'
<1>1. SessTypeOK /\ Relies(c)
  BY DEF SessInv
<1>2. CASE RevokeAllUserRefreshTokens(c)
  <2> DEFINE F == userTokenFamilies
             r == [Idle EXCEPT !.pc = "bar", !.fams = F]
  <2>1. F \subseteq SessToks /\ F \subseteq Nat
    BY DEF SessInv, SessTypeOK, userTokenFamilies, SessToks
  <2>3. sessCall' = [sessCall EXCEPT ![c] = r]
        /\ UNCHANGED <<sessTok, sessBar, sessDead>>
    BY <1>2 DEF RevokeAllUserRefreshTokens
  <2> HIDE DEF F
  <2>2. r \in SessRow /\ r.pc = "bar" /\ r.fams = F
    BY <2>1, BarRow, Zenon
  <2> HIDE DEF r
  <2> QED
    BY <2>1, <2>2, <2>3, BarSuffices, Zenon
<1>3. CASE putFamilyBarrier(c)
  <2>1. CASE Goto(c, "sweep") /\ sessCall[c].fams \ sessBar = {} /\ UNCHANGED sessBar
    <3>1. /\ sessCall' \in [SessCalls -> SessRow]
          /\ sessCall'[c].pc = "sweep" /\ sessCall'[c].fams = sessCall[c].fams
          /\ \A e \in SessCalls \ {c} : sessCall'[e] = sessCall[e]
      BY <1>1, <2>1, GotoEffect, ZenonT(20) DEF SessPcs
    <3>2. UNCHANGED <<sessTok, sessDead>>
      BY <1>3, ZenonT(20) DEF putFamilyBarrier
    <3>3. sessCall[c].fams \subseteq SessToks /\ sessCall[c].fams \subseteq sessBar
      BY <1>1, <1>3, <2>1, ZenonT(20) DEF putFamilyBarrier, At, Relies
    <3>4. Relies(c)'
      BY <2>1, <3>1, <3>2, <3>3, ZenonT(20) DEF Relies, TokPcs, SessToks, Closed
    <3> QED
      BY <2>1, <3>1, <3>2, <3>4, CallMoves, ZenonT(20)
  <2>2. CASE sessBar \subseteq sessBar' /\ UNCHANGED sessCall
    <3>1. UNCHANGED <<sessTok, sessDead>>
      BY <1>3 DEF putFamilyBarrier
    <3>2. Relies(c)'
      BY <1>1, <1>3, <2>2, <3>1, ZenonT(20)
      DEF putFamilyBarrier, At, Relies, SessToks, TokPcs
    <3> QED
      BY <1>1, <2>2, <3>1, <3>2, CallMoves, ZenonT(20) DEF SessTypeOK
  <2> QED
    BY <1>3, <2>1, <2>2, ZenonT(20) DEF putFamilyBarrier
<1>4. CASE SweepRange(c)
  <2>1. UNCHANGED <<sessTok, sessBar, sessDead>>
    BY <1>4, Zenon DEF SweepRange
  <2>2. CASE Done(c)
    BY <2>1, <2>2, DoneSuffices, ZenonT(20)
  <2>3. CASE ~Done(c)
    <3>1. PICK f \in sessCall[c].fams :
            sessCall' = [sessCall EXCEPT ![c].pc = "swept", ![c].tok = f,
                                         ![c].rows = Active(f)]
      BY <1>4, <2>3, Zenon DEF SweepRange
    <3> DEFINE r == [sessCall[c] EXCEPT !.pc = "swept", !.tok = f,
                                        !.rows = Active(f)]
    <3>2. f \in Nat /\ Active(f) \subseteq Nat
      BY <1>1, SessTypes, ZenonT(20) DEF Active, SessToks
    <3>3. r \in SessRow /\ r.pc = "swept" /\ r.tok = f /\ r.rows = Active(f)
          /\ r.fams = sessCall[c].fams
      BY <1>1, <3>2, SessTypes, Zenon DEF SessRow, SessPcs
    <3>4. sessCall' = [sessCall EXCEPT ![c] = r]
      BY <3>1, Zenon
    <3> HIDE DEF r
    <3>5. /\ sessCall' \in [SessCalls -> SessRow]
          /\ sessCall'[c] = r
          /\ \A e \in SessCalls \ {c} : sessCall'[e] = sessCall[e]
      BY <1>1, <3>3, <3>4, RecordEffect, Zenon
    <3>6. \A t \in SessToks : sessTok[t].fam = f => t \in Active(f) \/ Shut(t)
      BY DEF Active, Shut
    <3>8. r.fams \subseteq SessToks /\ \A g \in r.fams : Closed(g)
      BY <1>1, <1>4, <3>3, Zenon DEF SweepRange, At, Relies
    <3>9. \A g : Closed(g) => Closed(g)'
      BY <2>1 DEF Closed, ShutFamily, Shut, SessToks
    <3>10. SessToks' = SessToks /\ \A t : Shut(t)' = Shut(t)
      BY <2>1, ZenonT(20) DEF SessToks, Shut
    <3>7. Relies(c)'
      BY <2>1, <3>3, <3>5, <3>6, <3>8, <3>9, <3>10, ZenonT(20)
      DEF Relies, TokPcs
    <3> QED
      BY <2>1, <3>5, <3>7, CallMoves, ZenonT(20)
  <2> QED
    BY <2>2, <2>3, SMTT(40)
<1> QED
  BY <1>2, <1>3, <1>4

(* A row with revoked_at set, and put back under its key.                  *)
LEMMA RevokedRow ==
    ASSUME NEW row \in TokRow
    PROVE  /\ Revoked(row) \in TokRow /\ Revoked(row).fam = row.fam
           /\ Revoked(row).revoked /\ Revoked(row).rev = row.rev + 1
           /\ [Revoked(row) EXCEPT !.kept = TRUE] \in TokRow
           /\ [Revoked(row) EXCEPT !.kept = TRUE].fam = row.fam
           /\ [Revoked(row) EXCEPT !.kept = TRUE].revoked
           /\ [Revoked(row) EXCEPT !.kept = TRUE].rev = row.rev + 1
<1> DEFINE r == Revoked(row)
<1>3. DOMAIN row = {"fam", "revoked", "expired", "rev", "kept"}
      /\ row.fam \in Nat /\ row.expired \in BOOLEAN /\ row.kept \in BOOLEAN
      /\ row.rev \in Nat /\ row.rev + 1 \in Nat
  BY DEF TokRow
<1>4. r = [row EXCEPT !.revoked = TRUE, !.rev = row.rev + 1]
  BY <1>3 DEF Revoked
<1>5. r.fam = row.fam /\ r.revoked /\ r.rev = row.rev + 1
  BY <1>3, <1>4
<1>6. r \in TokRow
  BY <1>3, <1>4, Zenon DEF TokRow
<1> HIDE DEF r
<1>1. r \in TokRow /\ r.fam = row.fam /\ r.revoked /\ r.rev = row.rev + 1
  BY <1>5, <1>6
<1>2. /\ [r EXCEPT !.kept = TRUE] \in TokRow
      /\ [r EXCEPT !.kept = TRUE].fam = r.fam
      /\ [r EXCEPT !.kept = TRUE].revoked = r.revoked
      /\ [r EXCEPT !.kept = TRUE].rev = r.rev
  BY <1>1, Zenon DEF TokRow
<1> QED
  BY <1>1, <1>2 DEF r

(* Rows rewritten in place: no row leaves or joins a family.               *)
LEMMA RewriteAges ==
    ASSUME SessInv, sessTok' \in Seq(TokRow), Len(sessTok') = Len(sessTok),
           \A t \in SessToks :
             /\ sessTok'[t].fam = sessTok[t].fam
             /\ \/ /\ sessTok'[t].rev = sessTok[t].rev
                   /\ sessTok'[t].revoked = sessTok[t].revoked
                \/ /\ sessTok'[t].rev = sessTok[t].rev + 1
                   /\ sessTok[t].revoked => sessTok'[t].revoked
             /\ Shut(t) => Shut(t)',
           \A f \in sessBar : f \in sessBar' \/ ShutFamily(f)'
    PROVE  Ages /\ OneActive'
<1>1. SessTypeOK /\ SessToks' = SessToks
  BY DEF SessInv, SessToks
<1>2. \A t \in SessToks : sessTok[t].rev \in Nat
  BY <1>1, SessTypes, ZenonT(20)
<1>3. \A t \in SessToks :
        /\ sessTok'[t].rev >= sessTok[t].rev
        /\ sessTok[t].revoked => sessTok'[t].revoked
        /\ sessTok'[t].rev = sessTok[t].rev =>
             sessTok'[t].revoked = sessTok[t].revoked
  BY <1>2, SMTT(40)
<1>4. Ages
  BY <1>1, <1>3, SessTypes, SMTT(40) DEF Ages, SessToks
<1>5. OneActive'
  BY <1>1, <1>3, SMTT(40) DEF SessInv, OneActive
<1> QED
  BY <1>4, <1>5, ZenonT(20)

(* One row rewritten.                                                      *)
LEMMA RowAges ==
    ASSUME SessInv, NEW t \in SessToks, NEW row \in TokRow,
           sessTok' = [sessTok EXCEPT ![t] = row], UNCHANGED sessBar,
           row.fam = sessTok[t].fam,
           \/ row.rev = sessTok[t].rev /\ row.revoked = sessTok[t].revoked
           \/ row.rev = sessTok[t].rev + 1
              /\ (sessTok[t].revoked => row.revoked),
           Shut(t) => row.revoked \/ ~row.kept
    PROVE  Ages /\ OneActive'
<1>1. sessTok \in Seq(TokRow)
  BY DEF SessInv, SessTypeOK
<1>2. /\ sessTok' \in Seq(TokRow) /\ Len(sessTok') = Len(sessTok)
      /\ sessTok'[t] = row
      /\ \A u \in SessToks \ {t} : sessTok'[u] = sessTok[u]
  BY <1>1, ExceptSeq, SMTT(40) DEF SessToks
<1>3. ASSUME NEW u \in SessToks
      PROVE  /\ sessTok'[u].fam = sessTok[u].fam
             /\ \/ /\ sessTok'[u].rev = sessTok[u].rev
                   /\ sessTok'[u].revoked = sessTok[u].revoked
                \/ /\ sessTok'[u].rev = sessTok[u].rev + 1
                   /\ sessTok[u].revoked => sessTok'[u].revoked
             /\ Shut(u) => Shut(u)'
  <2>1. CASE u = t
    BY <1>2, <2>1, ZenonT(20) DEF Shut
  <2>2. CASE u # t
    BY <1>2, <2>2, ZenonT(20) DEF Shut
  <2> QED
    BY <2>1, <2>2, ZenonT(20)
<1> QED
  BY <1>2, <1>3, RewriteAges, ZenonT(20)

(* A login writes the first token of a new family.                         *)
LEMMA CreateStep ==
    ASSUME SessInv, NEW c \in SessCalls, CreateRefreshToken(c)
    PROVE  SessInv'
<1>1. SessTypeOK /\ Len(sessTok) \in Nat /\ sessTok \in Seq(TokRow)
  BY SessTypes DEF SessInv, SessTypeOK
<1> DEFINE n == Len(sessTok) + 1
           row == refreshTokenFromParams(n)
<1>2. row \in TokRow /\ row.fam = n /\ n \in Nat
  BY <1>1 DEF TokRow, refreshTokenFromParams
<1>3. sessTok' = Append(sessTok, row) /\ UNCHANGED <<sessBar, sessDead>>
  BY DEF CreateRefreshToken
<1> HIDE DEF row
<1>4. /\ sessTok' \in Seq(TokRow) /\ Len(sessTok') = n
      /\ \A t \in SessToks : sessTok'[t] = sessTok[t]
      /\ sessTok'[n] = row
  BY <1>1, <1>2, <1>3, AppendProperties, SMTT(40) DEF SessToks
<1>5. /\ n \notin SessToks
      /\ SessToks' = SessToks \cup {n}
  BY <1>1, <1>4 DEF SessToks
<1> HIDE DEF n
<1>6. Len(sessTok') >= Len(sessTok)
  BY <1>1, <1>4, SMTT(40) DEF n
<1>7. \A t \in SessToks : sessTok[t].rev \in Nat /\ sessTok[t].fam \in SessToks
  BY <1>1, SessTypes, ZenonT(20) DEF SessTypeOK
<1>8. Ages
  BY <1>2, <1>3, <1>4, <1>5, <1>6, <1>7, SMTT(40) DEF Ages, Shut, SessToks
<1>9. OneActive'
  BY <1>2, <1>4, <1>5, <1>7, SMTT(40) DEF SessInv, OneActive
<1>10. Done(c)
  BY DEF CreateRefreshToken
<1>11. Relies(c)'
  BY <1>1, <1>10, DoneEffect, ZenonT(20) DEF Relies, TokPcs
<1> QED
  BY <1>1, <1>3, <1>8, <1>9, <1>10, <1>11, DoneEffect, AgeSuffices, ZenonT(20)
  DEF SessTypeOK

(* A rotation that wins revokes the parent and adds its child to a family  *)
(* that is neither barred nor shut.                                        *)
LEMMA RotateStep ==
    ASSUME SessInv, NEW c \in SessCalls, RotateRefreshToken(c)
    PROVE  SessInv'
<1> DEFINE p == sessCall[c].tok
<1>1. /\ SessTypeOK /\ Len(sessTok) \in Nat /\ sessTok \in Seq(TokRow)
      /\ Relies(c) /\ p \in SessToks
  BY SessTypes, ZenonT(20)
  DEF SessInv, SessTypeOK, RotateRefreshToken, At, Relies, TokPcs
<1>2. CASE ~RotateWins(c, p)
  BY <1>1, <1>2, BurnSuffices, ZenonT(20) DEF RotateRefreshToken
<1>3. CASE RotateWins(c, p)
  <2> DEFINE n == Len(sessTok) + 1
             f == sessTok[p].fam
             par == Revoked(sessTok[p])
             row == refreshTokenFromParams(f)
             mid == [sessTok EXCEPT ![p] = par]
  <2>1. /\ ~sessTok[p].revoked /\ sessTok[p].kept /\ f \notin sessBar
        /\ sessTok[p] \in TokRow /\ f \in SessToks /\ f \in Nat /\ f <= Len(sessTok)
    BY <1>1, <1>3, SessTypes, SMTT(40)
    DEF RotateWins, RotateRefreshToken, At, Relies, SessTypeOK, SessToks
  <2>2. /\ par \in TokRow /\ par.fam = f /\ par.revoked
        /\ par.rev = sessTok[p].rev + 1
    BY <2>1, RevokedRow, Zenon
  <2>3. row \in TokRow /\ row.fam = f
    BY <2>1, ZenonT(20) DEF TokRow, refreshTokenFromParams
  <2>4. sessTok' = Append(mid, row) /\ Goto(c, "touchRead")
        /\ UNCHANGED <<sessBar, sessDead>>
    BY <1>3 DEF RotateRefreshToken
  <2> HIDE DEF par, row
  <2>5. /\ mid \in Seq(TokRow) /\ Len(mid) = Len(sessTok)
        /\ \A t \in SessToks : mid[t] = IF t = p THEN par ELSE sessTok[t]
    BY <1>1, <2>2, ExceptSeq, SMTT(40) DEF SessToks
  <2> HIDE DEF mid
  <2>6. /\ sessTok' \in Seq(TokRow) /\ Len(sessTok') = n
        /\ \A t \in SessToks : sessTok'[t] = IF t = p THEN par ELSE sessTok[t]
        /\ sessTok'[n] = row
    BY <2>3, <2>4, <2>5, AppendProperties, SMTT(40) DEF SessToks
  <2>7. n \notin SessToks /\ SessToks' = SessToks \cup {n}
    BY <1>1, <2>6, SMTT(40) DEF SessToks
  <2>8. n \in Nat /\ n > Len(sessTok) /\ Len(sessTok') >= Len(sessTok)
    BY <1>1, <2>6, SMTT(40)
  <2> HIDE DEF n, f, p
  <2>9. \A t \in SessToks : sessTok[t].rev \in Nat
    BY <1>1, SessTypes, ZenonT(20)
  <2>10. ~Closed(f)
    BY <1>1, <2>1, ZenonT(20) DEF Closed, ShutFamily, Shut, f
  <2>11. ASSUME NEW t \in SessToks
         PROVE  /\ sessTok'[t].fam = sessTok[t].fam
                /\ sessTok'[t].rev >= sessTok[t].rev
                /\ sessTok[t].revoked => sessTok'[t].revoked
                /\ sessTok'[t].rev = sessTok[t].rev =>
                     sessTok'[t].revoked = sessTok[t].revoked
                /\ Shut(t) => Shut(t)'
    <3>1. CASE t = p
      BY <2>2, <2>6, <2>9, <3>1, SMTT(40) DEF Shut, f
    <3>2. CASE t # p
      BY <2>6, <2>9, <3>2, SMTT(40) DEF Shut
    <3> QED
      BY <3>1, <3>2, ZenonT(20)
  <2>12. ASSUME NEW t \in 1 .. Len(sessTok'), t \notin SessToks
         PROVE  /\ sessTok'[t].fam \in 1 .. Len(sessTok')
                /\ sessTok'[t].fam \in SessToks => ~Closed(sessTok'[t].fam)
    <3>1. t = n
      BY <2>7, <2>12, ZenonT(20) DEF SessToks
    <3>2. sessTok'[t].fam = f
      BY <2>3, <2>6, <3>1, ZenonT(20)
    <3>3. f \in SessToks'
      BY <2>1, <2>7, ZenonT(20)
    <3> QED
      BY <2>10, <3>2, <3>3, ZenonT(20) DEF SessToks
  <2>13. Ages
    BY <2>4, <2>6, <2>8, <2>11, <2>12, Zenon DEF Ages
  <2>14. OneActive'
    <3> SUFFICES ASSUME NEW t \in SessToks', NEW u \in SessToks',
                        sessTok'[t].fam = sessTok'[u].fam,
                        ~sessTok'[t].revoked, ~sessTok'[u].revoked
                 PROVE  t = u
      BY ZenonT(20) DEF OneActive
    <3>1. ASSUME NEW v \in SessToks, ~sessTok'[v].revoked
          PROVE  sessTok'[v].fam # f /\ ~sessTok[v].revoked
                 /\ sessTok'[v].fam = sessTok[v].fam
      <4>1. v # p
        BY <2>2, <2>6, <3>1, ZenonT(20)
      <4>2. ~sessTok[v].revoked /\ sessTok'[v].fam = sessTok[v].fam
        BY <2>11, <3>1, ZenonT(20)
      <4> QED
        BY <1>1, <2>1, <4>1, <4>2, ZenonT(20) DEF SessInv, OneActive, f
    <3>2. sessTok'[n].fam = f
      BY <2>3, <2>6, ZenonT(20)
    <3>3. CASE t \in SessToks /\ u \in SessToks
      BY <3>1, <3>3, ZenonT(20) DEF SessInv, OneActive
    <3>4. CASE t = n \/ u = n
      BY <2>7, <3>1, <3>2, <3>4, ZenonT(20)
    <3> QED
      BY <2>7, <3>3, <3>4, ZenonT(20)
  <2>15. /\ sessCall' \in [SessCalls -> SessRow]
         /\ sessCall'[c].pc = "touchRead" /\ sessCall'[c].tok = p
         /\ \A e \in SessCalls \ {c} : sessCall'[e] = sessCall[e]
    BY <1>1, <2>4, GotoEffect, ZenonT(20) DEF SessPcs, p
  <2>16. Relies(c)'
    BY <1>1, <2>7, <2>15, ZenonT(20) DEF Relies
  <2> QED
    BY <1>1, <2>4, <2>13, <2>14, <2>15, <2>16, AgeSuffices, ZenonT(20)
    DEF SessTypeOK
<1> QED
  BY <1>2, <1>3, ZenonT(20)

(* The last-used stamp and the revocation of one row.                      *)
LEMMA RowSteps2 ==
    ASSUME SessInv, NEW c \in SessCalls,
           casRefreshTokenUpdate(c) \/ RevokeRefreshToken(c)
    PROVE  SessInv'
<1> DEFINE t == sessCall[c].tok
<1>1. /\ SessTypeOK /\ Relies(c) /\ t \in SessToks /\ sessTok[t] \in TokRow
  BY SessTypes, ZenonT(20)
  DEF SessInv, casRefreshTokenUpdate, RevokeRefreshToken, At, Relies, TokPcs
<1>2. ASSUME Ages, OneActive', Done(c), UNCHANGED sessDead
      PROVE  SessInv'
  <2>1. Relies(c)'
    BY <1>1, <1>2, DoneEffect, ZenonT(20) DEF Relies, TokPcs
  <2> QED
    BY <1>1, <1>2, <2>1, DoneEffect, AgeSuffices, ZenonT(20) DEF SessTypeOK
<1>3. CASE casRefreshTokenUpdate(c)
  <2> DEFINE row == [sessTok[t] EXCEPT !.rev = @ + 1]
  <2>1. /\ row \in TokRow /\ row.fam = sessTok[t].fam
        /\ row.rev = sessTok[t].rev + 1 /\ row.revoked = sessTok[t].revoked
        /\ row.kept = sessTok[t].kept
    BY <1>1 DEF TokRow
  <2>2. CASE sessTok' = [sessTok EXCEPT ![t].rev = @ + 1] /\ Done(c)
    <3>1. sessTok' = [sessTok EXCEPT ![t] = row]
      BY <2>2, ZenonT(20)
    <3>2. UNCHANGED <<sessBar, sessDead>>
      BY <1>3, SMTT(40) DEF casRefreshTokenUpdate
    <3> HIDE DEF row, t
    <3>3. Ages /\ OneActive'
      BY <1>1, <2>1, <3>1, <3>2, RowAges, Zenon DEF Shut
    <3> QED
      BY <1>2, <2>2, <3>2, <3>3, ZenonT(20)
  <2>3. CASE Goto(c, "touchRead") /\ UNCHANGED sessTok
    BY <1>1, <1>3, <2>3, GotoSuffices, ZenonT(20) DEF casRefreshTokenUpdate, SessPcs
  <2> QED
    BY <1>3, <2>2, <2>3, ZenonT(20) DEF casRefreshTokenUpdate
<1>4. CASE RevokeRefreshToken(c)
  <2> DEFINE row == [Revoked(sessTok[t]) EXCEPT !.kept = TRUE]
  <2>1. /\ row \in TokRow /\ row.fam = sessTok[t].fam
        /\ row.rev = sessTok[t].rev + 1 /\ row.revoked
    BY <1>1, RevokedRow, ZenonT(20)
  <2>2. sessTok' = [sessTok EXCEPT ![t] = row] /\ Done(c)
        /\ UNCHANGED <<sessBar, sessDead>>
    BY <1>4, SMTT(40) DEF RevokeRefreshToken
  <2> HIDE DEF row, t
  <2>3. Ages /\ OneActive'
    BY <1>1, <2>1, <2>2, RowAges, Zenon
  <2> QED
    BY <1>2, <2>2, <2>3, ZenonT(20)
<1> QED
  BY <1>3, <1>4, ZenonT(20)

(* All rows rewritten at once, by a sweep or by the cleanup.               *)
LEMMA AllRows ==
    ASSUME SessTypeOK, NEW s,
           s = [t \in SessToks |-> s[t]], \A t \in SessToks : s[t] \in TokRow
    PROVE  s \in Seq(TokRow) /\ Len(s) = Len(sessTok)
<1>1. Len(sessTok) \in Nat /\ SessToks = 1 .. Len(sessTok)
  BY SessTypes DEF SessToks
<1>2. s \in [1 .. Len(sessTok) -> TokRow]
  BY <1>1
<1>3. s \in Seq(TokRow)
  BY <1>1, <1>2, SeqDef
<1>4. DOMAIN s = 1 .. Len(sessTok) /\ DOMAIN s = 1 .. Len(s) /\ Len(s) \in Nat
  BY <1>2, <1>3, LenProperties, ZenonT(20)
<1> QED
  BY <1>1, <1>3, <1>4

(* The sweep of one family: every row the range returned goes back         *)
(* revoked, and every other row of the family was shut and still is.       *)
LEMMA SweepStep ==
    ASSUME SessInv, NEW c \in SessCalls, revokeIndexed(c)
    PROVE  SessInv'
<1> DEFINE k == sessCall[c]
<1>0. PICK f : f = k.tok
  OBVIOUS
<1>1. /\ SessTypeOK /\ Relies(c) /\ k.pc = "swept" /\ k \in SessRow
      /\ \A t \in SessToks : sessTok[t] \in TokRow
  BY SessTypes, ZenonT(20) DEF SessInv, revokeIndexed, At
<1>2. /\ f \in k.fams /\ k.fams \subseteq SessToks
      /\ \A g \in k.fams : Closed(g)
      /\ \A t \in SessToks : sessTok[t].fam = f => t \in k.rows \/ Shut(t)
  BY <1>0, <1>1, ZenonT(20) DEF Relies
<1>3. /\ sessTok' = [t \in SessToks |->
                       IF t \in k.rows THEN [Revoked(sessTok[t]) EXCEPT !.kept = TRUE]
                       ELSE sessTok[t]]
      /\ sessDead' = sessDead \union {f} /\ UNCHANGED sessBar
  BY <1>0, SMTT(40) DEF revokeIndexed
<1> DEFINE r == [k EXCEPT !.pc = "sweep", !.rows = {}, !.tok = 0,
                          !.fams = k.fams \ {f}]
<1>4. sessCall' = [sessCall EXCEPT ![c] = r]
  BY <1>0, Zenon DEF revokeIndexed
<1>5. r \in SessRow /\ r.pc = "sweep" /\ r.fams = k.fams \ {f}
  BY <1>1, Zenon DEF SessRow, SessPcs
<1> HIDE DEF r, k
<1>6. ASSUME NEW t \in SessToks
      PROVE  /\ sessTok'[t] \in TokRow
             /\ sessTok'[t].fam = sessTok[t].fam
             /\ \/ sessTok'[t] = sessTok[t]
                \/ /\ sessTok'[t].rev = sessTok[t].rev + 1
                   /\ sessTok'[t].revoked
             /\ t \in k.rows => sessTok'[t].revoked
  <2>1. CASE t \in k.rows
    <3>1. sessTok'[t] = [Revoked(sessTok[t]) EXCEPT !.kept = TRUE]
      BY <1>3, <2>1, ZenonT(20)
    <3> QED
      BY <1>1, <3>1, RevokedRow, ZenonT(20)
  <2>2. CASE t \notin k.rows
    <3>1. sessTok'[t] = sessTok[t]
      BY <1>3, <2>2, ZenonT(20)
    <3> QED
      BY <1>1, <2>2, <3>1, ZenonT(20)
  <2> QED
    BY <2>1, <2>2
<1>7. sessTok' \in Seq(TokRow) /\ Len(sessTok') = Len(sessTok)
  <2>1. sessTok' = [t \in SessToks |-> sessTok'[t]]
    BY <1>3, ZenonT(20)
  <2> QED
    BY <1>1, <1>6, <2>1, AllRows, ZenonT(20)
<1>8. \A t \in SessToks : Shut(t) => Shut(t)'
  BY <1>6, SMTT(40) DEF Shut
<1>9. Ages /\ OneActive'
  BY <1>3, <1>6, <1>7, <1>8, RewriteAges, ZenonT(60)
<1>10. ShutFamily(f)'
  BY <1>2, <1>6, <1>7, <1>8, ZenonT(20) DEF ShutFamily, Shut, SessToks
<1>11. /\ sessCall' \in [SessCalls -> SessRow] /\ sessCall'[c] = r
       /\ \A e \in SessCalls \ {c} : sessCall'[e] = sessCall[e]
  BY <1>1, <1>4, <1>5, RecordEffect, Zenon
<1>12. Relies(c)'
  <2>1. SessToks \subseteq SessToks' /\ \A g \in SessToks : Closed(g) => Closed(g)'
    BY <1>9, AgeKeeps, SMTT(40)
  <2> QED
    BY <1>2, <1>5, <1>11, <2>1, ZenonT(20) DEF Relies, TokPcs
<1>13. sessDead' \subseteq SessToks
  BY <1>1, <1>2, <1>3, ZenonT(20) DEF SessTypeOK
<1>14. \A g \in sessDead' : g \in sessDead \/ ShutFamily(g)'
  BY <1>3, <1>10, ZenonT(20)
<1> QED
  BY <1>9, <1>11, <1>12, <1>13, <1>14, AgeSuffices, ZenonT(20)

(* Time, and the hourly cleanup.                                           *)
LEMMA ClockSteps ==
    ASSUME SessInv,
           \/ DeleteSessionUser \/ DeleteExpiredRefreshTokens
           \/ \E t \in SessToks : Expire(t)
    PROVE  SessInv'
<1>1. /\ SessTypeOK /\ \A t \in SessToks : sessTok[t] \in TokRow
  BY SessTypes, ZenonT(20) DEF SessInv
<1>2. ASSUME Ages, OneActive', UNCHANGED <<sessCall, sessDead>>
      PROVE  SessInv'
  BY <1>1, <1>2, AgeSuffices, ZenonT(20) DEF SessTypeOK
<1>3. CASE DeleteSessionUser
  <2>1. Ages /\ OneActive'
    BY <1>1, <1>3, RewriteAges, ZenonT(20)
    DEF SessTypeOK, DeleteSessionUser, Shut
  <2> QED
    BY <1>2, <1>3, <2>1, ZenonT(20) DEF DeleteSessionUser
<1>4. CASE DeleteExpiredRefreshTokens
  <2> DEFINE old == {t \in SessToks : sessTok[t].kept /\ sessTok[t].expired}
             late == {f \in sessBar : \A t \in SessToks :
                        sessTok[t].fam = f => sessTok[t].expired}
  <2>1. /\ sessTok' = [t \in SessToks |->
                         [sessTok[t] EXCEPT !.kept = @ /\ t \notin old]]
        /\ \A f \in sessBar : f \in sessBar' \/ f \in late
        /\ UNCHANGED <<sessCall, sessDead>>
    BY <1>4, ZenonT(20) DEF DeleteExpiredRefreshTokens
  <2>2. ASSUME NEW t \in SessToks
        PROVE  /\ sessTok'[t] \in TokRow
               /\ sessTok'[t].fam = sessTok[t].fam
               /\ sessTok'[t].rev = sessTok[t].rev
               /\ sessTok'[t].revoked = sessTok[t].revoked
               /\ sessTok'[t].kept = (sessTok[t].kept /\ t \notin old)
    <3> DEFINE b == sessTok[t].kept /\ t \notin old
    <3>1. sessTok'[t] = [sessTok[t] EXCEPT !.kept = b]
      BY <2>1
    <3>2. b \in BOOLEAN
      OBVIOUS
    <3> HIDE DEF b
    <3>3. /\ sessTok'[t] \in TokRow
          /\ sessTok'[t].fam = sessTok[t].fam
          /\ sessTok'[t].rev = sessTok[t].rev
          /\ sessTok'[t].revoked = sessTok[t].revoked
          /\ sessTok'[t].kept = b
      BY <1>1, <3>1, <3>2, ZenonT(20) DEF TokRow
    <3> QED
      BY <3>3 DEF b
  <2>3. sessTok' \in Seq(TokRow) /\ Len(sessTok') = Len(sessTok)
    <3>1. sessTok' = [t \in SessToks |-> sessTok'[t]]
      BY <2>1, SMTT(40)
    <3> QED
      BY <1>1, <2>2, <3>1, AllRows, ZenonT(20)
  <2>4. \A t \in SessToks : Shut(t) => Shut(t)'
    BY <2>2, Zenon DEF Shut
  <2>5. ASSUME NEW f \in late
        PROVE  ShutFamily(f)'
    BY <2>2, <2>3, ZenonT(60) DEF ShutFamily, Shut, SessToks
  <2>6. Ages /\ OneActive'
    BY <2>1, <2>2, <2>3, <2>4, <2>5, RewriteAges, Zenon
  <2> QED
    BY <1>2, <2>1, <2>6, ZenonT(20)
<1>5. ASSUME NEW t \in SessToks, Expire(t)
      PROVE  SessInv'
  <2> DEFINE row == [sessTok[t] EXCEPT !.expired = TRUE]
  <2>1. /\ row \in TokRow /\ row.fam = sessTok[t].fam
        /\ row.rev = sessTok[t].rev /\ row.revoked = sessTok[t].revoked
        /\ row.kept = sessTok[t].kept
    BY <1>1, Zenon DEF TokRow
  <2>2. sessTok' = [sessTok EXCEPT ![t] = row]
        /\ UNCHANGED <<sessBar, sessCall, sessDead>>
    BY <1>5 DEF Expire
  <2> HIDE DEF row
  <2>3. Ages /\ OneActive'
    BY <2>1, <2>2, RowAges, Zenon DEF Shut
  <2> QED
    BY <1>2, <2>2, <2>3, ZenonT(20)
<1> QED
  BY <1>3, <1>4, <1>5, ZenonT(20)

(* The invariant holds initially. *)
LEMMA SessInvInit == SessInit => SessInv
<1> SUFFICES ASSUME SessInit
             PROVE  SessInv
  OBVIOUS
<1> DEFINE row == refreshTokenFromParams(1)
<1>1. row \in TokRow /\ row.fam = 1
  BY DEF refreshTokenFromParams, TokRow
<1>2. sessTok = <<row>> /\ sessDead = {}
  BY DEF SessInit
<1> HIDE DEF row
<1>3. sessTok \in Seq(TokRow) /\ Len(sessTok) = 1 /\ sessTok[1] = row
  BY <1>1, <1>2, SMTT(40)
<1>4. SessToks = {1}
  BY <1>3, SMTT(40) DEF SessToks
<1>5. Idle \in SessRow /\ Idle.pc = "new"
  BY DEF Idle, SessRow, SessPcs
<1>6. sessCall = [c \in SessCalls |-> Idle]
  BY DEF SessInit
<1>7. SessTypeOK
  BY <1>1, <1>2, <1>3, <1>4, <1>5, <1>6, ZenonT(20) DEF SessTypeOK
<1>8. OneActive /\ DeadShut
  BY <1>2, <1>4, ZenonT(20) DEF OneActive, DeadShut
<1>9. \A c \in SessCalls : Relies(c)
  BY <1>5, <1>6, ZenonT(20) DEF Relies, TokPcs
<1> QED
  BY <1>7, <1>8, <1>9, ZenonT(20) DEF SessInv

(* Every step of every call keeps the invariant. *)
LEMMA SessInvStep == SessInv /\ [SessNext]_sessVars => SessInv'
<1> SUFFICES ASSUME SessInv, [SessNext]_sessVars
             PROVE  SessInv'
  BY ZenonT(20)
<1>1. CASE UNCHANGED sessVars
  BY <1>1, ZenonT(20)
  DEF sessVars, SessInv, SessTypeOK, OneActive, DeadShut, Relies, Closed,
      ShutFamily, Shut, SessToks
<1>2. CASE SessNext
  BY <1>2, SessReads, BurnReads, CreateStep, RotateStep, RowSteps2, SweepStep,
     ClockSteps, ZenonT(20) DEF SessNext
<1> QED
  BY <1>1, <1>2, ZenonT(20)

(* The rows, barriers and sweeps of the session store in every state.      *)
THEOREM SessInvariant == SessSpec => []SessInv
<1> QED
  BY SessInvInit, SessInvStep, PTL DEF SessSpec

(* A family has at most one token that can still be rotated, and none once *)
(* a burn of it has swept to the end, whatever rotations, stamps, logouts  *)
(* and cleanups interleave with the burn.                                  *)
THEOREM FamiliesSound == SessSpec => []FamilySound
<1>1. ASSUME SessInv
      PROVE  FamilySound
  <2> SUFFICES ASSUME NEW f \in SessToks
               PROVE  /\ Cardinality(Live(f)) <= 1
                      /\ f \in sessDead => Live(f) = {}
    BY DEF FamilySound
  <2>1. \A t, u \in Live(f) : t = u
    BY <1>1 DEF SessInv, OneActive, Live, Active
  <2>2. Cardinality(Live(f)) <= 1
    <3>1. CASE Live(f) = {}
      BY <3>1, FS_EmptySet, SMTT(40)
    <3>2. CASE Live(f) # {}
      <4>1. PICK t : t \in Live(f)
        BY <3>2, SMTT(40)
      <4>2. Live(f) = {t}
        BY <2>1, <4>1
      <4>3. Cardinality({t}) = 1
        BY FS_Singleton, Zenon
      <4> QED
        BY <4>2, <4>3, SMTT(40)
    <3> QED
      BY <3>1, <3>2, ZenonT(20)
  <2>3. f \in sessDead => Live(f) = {}
    BY <1>1 DEF SessInv, DeadShut, ShutFamily, Shut, Live, Active
  <2> QED
    BY <2>2, <2>3, ZenonT(20)
<1> QED
  BY <1>1, SessInvariant, PTL

====
