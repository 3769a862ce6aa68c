-------------------------- MODULE InfraRowsProofs ---------------------------
(***************************************************************************)
(* Proofs that no delete removes a resource in use, and that the guards    *)
(* are exact while no write replaces a row changed since it was read, for  *)
(* any number of resources, names, references and concurrent requests.     *)
(***************************************************************************)
EXTENDS InfraRows, TLAPS

-----------------------------------------------------------------------------
(* The inductive invariant *)

(* What a request in flight has read and been given. *)
CallShape ==
    \A c \in Callers :
        /\ call[c].at # "idle" =>
             call[c].res \in Res /\ call[c].seen \in LiveRow
        /\ call[c].at \in {"count", "clear", "finalize"} => call[c].rev \in 1 .. lastRev

(* No intent is newer than the last revision. *)
RevsBounded == \A r \in Res : intent[r] <= lastRev

(* A live default row holds the default guard. *)
DefaultsHeld == overlap \/ \A r \in Res : Live(r) /\ row[r].default => defGuard = r

IInv == /\ TypeOK /\ CallShape /\ RevsBounded /\ IntentProtects
        /\ GuardsExact /\ DefaultsHeld

-----------------------------------------------------------------------------
(* The steps that change only the requests, the intents or the references  *)
(* leave rows and guards alone.                                            *)
RowsKept == UNCHANGED <<row, guard, defGuard, overlap>>

(* Steps that leave rows and guards alone keep the guards exact. *)
LEMMA RowsKeptExact ==
    ASSUME GuardsExact, DefaultsHeld, RowsKept
    PROVE  GuardsExact' /\ DefaultsHeld'
BY DEF GuardsExact, DefaultsHeld, RowsKept, Live

(* No property depends on the crash counter. *)
LEMMA InitInv == Init => IInv
<1> SUFFICES ASSUME Init PROVE IInv
  OBVIOUS
<1> USE InfraAssumptions
<1>1. TypeOK
  <2>1. row \in [Res -> Row]
    <3>1. \A n \in Names : [state |-> "none", name |-> n, default |-> FALSE] \in Row
      BY DEF Row
    <3>2. \A r \in Res : row[r] \in Row
      BY <3>1 DEF Init
    <3>3. row = [r \in Res |-> row[r]]
      BY DEF Init
    <3> QED
      BY <3>2, <3>3
  <2>2. call \in [Callers -> Call]
    BY DEF Init, Call, Idle, Stages
  <2> QED
    BY <2>1, <2>2, ZenonT(20) DEF Init, TypeOK
<1>2. CallShape /\ RevsBounded /\ IntentProtects
  BY DEF Init, CallShape, RevsBounded, IntentProtects, Idle
<1>3. GuardsExact /\ DefaultsHeld
  BY DEF Init, GuardsExact, DefaultsHeld, Live
<1> QED
  BY <1>1, <1>2, <1>3 DEF IInv

-----------------------------------------------------------------------------
(* Type correctness and the shape of the requests *)

(* Types, the shape of the requests and the bound on revisions are kept. *)
LEMMA TypeStep == IInv /\ [Next]_vars => TypeOK' /\ CallShape' /\ RevsBounded'
<1> SUFFICES ASSUME IInv, [Next]_vars PROVE TypeOK' /\ CallShape' /\ RevsBounded'
  OBVIOUS
<1> USE InfraAssumptions DEF IInv
<1>1. CASE UNCHANGED vars
  BY <1>1 DEF vars, TypeOK, CallShape, RevsBounded
<1>2. ASSUME NEW r \in Res, NEW n \in Names, NEW d \in BOOLEAN, Create(r, n, d)
      PROVE  TypeOK' /\ CallShape' /\ RevsBounded'
  <2>1. TypeOK'
    BY <1>2 DEF Create, TypeOK, Row, refVars
  <2> QED
    BY <1>2, <2>1 DEF Create, CallShape, RevsBounded
<1>3. ASSUME NEW c \in Callers, Request(c)
      PROVE  TypeOK' /\ CallShape' /\ RevsBounded'
  <2>1. ASSUME NEW r \in Res, UpdateRead(c, r) \/ DeleteRead(c, r)
        PROVE  TypeOK' /\ CallShape' /\ RevsBounded'
    <3>1. TypeOK'
      BY <2>1
      DEF UpdateRead, DeleteRead, TypeOK, Call, Stages, LiveRow, Live,
          guards, refVars
    <3>2. CallShape' /\ RevsBounded'
      BY <2>1 DEF UpdateRead, DeleteRead, TypeOK, CallShape, RevsBounded, LiveRow, Live
    <3> QED
      BY <3>1, <3>2
  <2>2. ASSUME NEW n \in Names, NEW d \in BOOLEAN, UpdateWrite(c, n, d)
        PROVE  TypeOK' /\ CallShape' /\ RevsBounded'
    <3>1. call[c].res \in Res /\ call[c].seen \in Row
      BY <2>2 DEF UpdateWrite, CallShape, LiveRow
    <3>2. row' \in [Res -> Row]
      BY <2>2, <3>1, ZenonT(20) DEF UpdateWrite, TypeOK, Row
    <3>3. guard' \in [Names -> Res \cup {NoRes}] /\ defGuard' \in Res \cup {NoRes}
      BY <2>2, <3>1 DEF UpdateWrite, TypeOK, Row
    <3>4. call' \in [Callers -> Call] /\ overlap' \in BOOLEAN
      BY <2>2 DEF UpdateWrite, Return, Idle, TypeOK, Call, Stages
    <3>5. TypeOK'
      BY <2>2, <3>2, <3>3, <3>4 DEF UpdateWrite, TypeOK, refVars
    <3>6. CallShape' /\ RevsBounded'
      BY <2>2 DEF UpdateWrite, Return, Idle, TypeOK, CallShape, RevsBounded
    <3> QED
      BY <3>5, <3>6
  <2>3. CASE UpdateRefused(c) \/ FinalizeLost(c) \/ Crash(c)
    <3>1. TypeOK'
      BY <2>3 DEF UpdateRefused, FinalizeLost, Crash, Return, Idle, TypeOK, Call, Stages,
                  guards, refVars
    <3>2. CallShape' /\ RevsBounded'
      BY <2>3 DEF UpdateRefused, FinalizeLost, Crash, Return, Idle, TypeOK,
                  CallShape, RevsBounded
    <3> QED
      BY <3>1, <3>2
  <2>4. CASE setDeleteIntent(c)
    <3>1. call[c].res \in Res /\ call[c].seen \in LiveRow
      BY <2>4 DEF setDeleteIntent, CallShape
    <3>2. intent' \in [Res -> Nat] /\ lastRev' \in Nat /\ lastRev <= lastRev'
      BY <2>4, <3>1 DEF setDeleteIntent, TypeOK
    <3>3. intent'[call[c].res] \in 1 .. lastRev'
      BY <2>4, <3>1 DEF setDeleteIntent, TypeOK, RevsBounded
    <3>4. TypeOK'
      <4>1. intent'[call[c].res] \in Nat
        BY <3>1, <3>2
      <4>2. \A i \in Nat : [call[c] EXCEPT !.at = "count", !.rev = i] \in Call
        BY ZenonT(20) DEF TypeOK, Call, Stages
      <4>3. call' = [call EXCEPT ![c] = [call[c] EXCEPT !.at = "count",
                                                        !.rev = intent'[call[c].res]]]
        BY <2>4, ZenonT(20) DEF setDeleteIntent, TypeOK
      <4>4. call' \in [Callers -> Call]
        BY <4>1, <4>2, <4>3, ZenonT(20) DEF TypeOK
      <4> QED
        BY <2>4, <3>2, <4>4 DEF setDeleteIntent, TypeOK, guards, refVars
    <3>5. CallShape'
      <4>1. /\ call'[c].at = "count" /\ call'[c].rev = intent'[call[c].res]
            /\ call'[c].res = call[c].res /\ call'[c].seen = call[c].seen
        BY <2>4 DEF setDeleteIntent, TypeOK, Call
      <4>2. \A e \in Callers : e # c => call'[e] = call[e]
        BY <2>4 DEF setDeleteIntent, TypeOK
      <4>3. \A i \in 1 .. lastRev : i \in 1 .. lastRev'
        BY <3>2 DEF TypeOK
      <4> QED
        BY <3>1, <3>3, <4>1, <4>2, <4>3 DEF CallShape
    <3>6. RevsBounded'
      BY <2>4, <3>1 DEF setDeleteIntent, TypeOK, RevsBounded
    <3> QED
      BY <3>4, <3>5, <3>6
  <2>5. CASE CountReferences(c)
    <3>1. TypeOK'
      BY <2>5 DEF CountReferences, TypeOK, Call, Stages, guards, refVars
    <3>2. CallShape' /\ RevsBounded'
      BY <2>5 DEF CountReferences, TypeOK, CallShape, RevsBounded, Call
    <3> QED
      BY <3>1, <3>2
  <2>6. CASE clearDeleteIntent(c)
    <3>1. TypeOK'
      BY <2>6, ZenonT(20)
      DEF clearDeleteIntent, Return, Idle, TypeOK, Call, Stages, guards,
          refVars
    <3>2. CallShape' /\ RevsBounded'
      BY <2>6 DEF clearDeleteIntent, Return, Idle, TypeOK, CallShape, RevsBounded
    <3> QED
      BY <3>1, <3>2
  <2>7. CASE Finalize(c)
    <3>1. call[c].res \in Res /\ call[c].seen \in Row
      BY <2>7 DEF Finalize, CallShape, LiveRow
    <3>2. row' \in [Res -> Row]
      BY <2>7, <3>1 DEF Finalize, TypeOK, Row
    <3>3. guard' \in [Names -> Res \cup {NoRes}] /\ defGuard' \in Res \cup {NoRes}
      BY <2>7, <3>1 DEF Finalize, ReleaseGuards, TypeOK, Row
    <3>4. call' \in [Callers -> Call] /\ overlap' \in BOOLEAN
      BY <2>7 DEF Finalize, Return, Idle, TypeOK, Call, Stages
    <3>5. TypeOK'
      BY <2>7, <3>1, <3>2, <3>3, <3>4 DEF Finalize, TypeOK, refVars
    <3>6. CallShape' /\ RevsBounded'
      BY <2>7 DEF Finalize, Return, Idle, TypeOK, CallShape, RevsBounded
    <3> QED
      BY <3>5, <3>6
  <2> QED
    BY <1>3, <2>1, <2>2, <2>3, <2>4, <2>5, <2>6, <2>7 DEF Request
<1>4. ASSUME NEW r \in Res, ReapStaleDeleteIntents(r)
      PROVE  TypeOK' /\ CallShape' /\ RevsBounded'
  BY <1>4 DEF ReapStaleDeleteIntents, TypeOK, CallShape, RevsBounded, guards, refVars
<1>5. ASSUME NEW x \in Refs,
             (\E r \in Res : PlanReference(x, r)) \/ CommitReference(x) \/ DropReference(x)
      PROVE  TypeOK' /\ CallShape' /\ RevsBounded'
  BY <1>5 DEF PlanReference, CommitReference, DropReference, TypeOK, CallShape,
              RevsBounded, guards
<1> QED
  BY <1>1, <1>2, <1>3, <1>4, <1>5 DEF Next

-----------------------------------------------------------------------------
(* The intent protects the count *)

(* A count of no references stays true while the intent is held. *)
LEMMA ProtectStep == IInv /\ [Next]_vars => IntentProtects'
<1> SUFFICES ASSUME IInv, [Next]_vars,
                    NEW e \in Callers, (call[e].at = "finalize")', IntentHeld(e)'
             PROVE  ~Referenced(call[e].res)'
  BY DEF IntentProtects
<1> USE DEF IInv
<1>1. CASE UNCHANGED vars
  BY <1>1 DEF vars, IntentProtects, IntentHeld, Referenced
<1>2. ASSUME NEW r \in Res, NEW n \in Names, NEW d \in BOOLEAN, Create(r, n, d)
      PROVE  ~Referenced(call[e].res)'
  BY <1>2 DEF Create, refVars, IntentProtects, IntentHeld, Referenced
<1>3. ASSUME NEW c \in Callers, Request(c)
      PROVE  ~Referenced(call[e].res)'
  (* Only a setDeleteIntent changes an intent to a revision a request may   *)
  (* hold, and that revision is new; only CountReferences enters finalize.  *)
  <2>0. ref' = ref
    BY <1>3, ZenonT(20) DEF Request, UpdateRead, DeleteRead, UpdateWrite, UpdateRefused, setDeleteIntent,
                CountReferences, clearDeleteIntent, Finalize, FinalizeLost, Crash, refVars
  <2>1. CASE e # c /\ (setDeleteIntent(c) \/ clearDeleteIntent(c) \/ Finalize(c))
    <3>1. call'[e] = call[e]
      BY <2>1 DEF setDeleteIntent, clearDeleteIntent, Finalize, Return, TypeOK
    <3>2. call[e].res \in Res /\ call[e].rev \in 1 .. lastRev /\ call[c].res \in Res
      BY <2>1, <3>1 DEF CallShape, setDeleteIntent, clearDeleteIntent, Finalize
    <3>3. intent[call[e].res] = call[e].rev
      BY <2>1, <3>1, <3>2
      DEF setDeleteIntent, clearDeleteIntent, Finalize, IntentHeld, TypeOK
    <3> QED
      BY <2>0, <3>1, <3>3 DEF IntentProtects, IntentHeld, Referenced
  <2>2. CASE e = c /\ ~CountReferences(c)
    <3>1. CASE Return(c)
      BY <2>2, <3>1 DEF Return, Idle, TypeOK
    <3>2. CASE \E r \in Res : UpdateRead(c, r) \/ DeleteRead(c, r)
      BY <2>2, <3>2 DEF UpdateRead, DeleteRead, TypeOK
    <3>3. CASE setDeleteIntent(c)
      BY <2>2, <3>3 DEF setDeleteIntent, TypeOK, Call
    <3> QED
      BY <1>3, <2>2, <3>1, <3>2, <3>3, ZenonT(20) DEF Request, UpdateWrite, UpdateRefused,
         clearDeleteIntent, Finalize, FinalizeLost, Crash
  <2>3. CASE e = c /\ CountReferences(c)
    BY <2>0, <2>3 DEF CountReferences, TypeOK, Call, Referenced
  <2>4. CASE e # c /\ ~(setDeleteIntent(c) \/ clearDeleteIntent(c) \/ Finalize(c))
    <3>1. call'[e] = call[e] /\ intent' = intent
      BY <1>3, <2>4, ZenonT(20) DEF Request, UpdateRead, DeleteRead, UpdateWrite, UpdateRefused,
            CountReferences, FinalizeLost, Crash, Return, TypeOK
    <3> QED
      BY <2>0, <3>1, ZenonT(20) DEF IntentProtects, IntentHeld, Referenced
  <2> QED
    BY <2>1, <2>2, <2>3, <2>4, ZenonT(20)
<1>4. ASSUME NEW r \in Res, ReapStaleDeleteIntents(r)
      PROVE  ~Referenced(call[e].res)'
  <2>1. call' = call /\ ref' = ref
    BY <1>4 DEF ReapStaleDeleteIntents, refVars
  <2>2. call[e].res \in Res /\ call[e].rev \in 1 .. lastRev
    BY <2>1 DEF CallShape
  <2>3. intent[call[e].res] = call[e].rev
    BY <1>4, <2>1, <2>2 DEF ReapStaleDeleteIntents, IntentHeld, TypeOK
  <2> QED
    BY <2>1, <2>3 DEF IntentProtects, IntentHeld, Referenced
<1>5. ASSUME NEW x \in Refs,
             (\E r \in Res : PlanReference(x, r)) \/ CommitReference(x) \/ DropReference(x)
      PROVE  ~Referenced(call[e].res)'
  <2>1. call' = call /\ intent' = intent
    BY <1>5 DEF PlanReference, CommitReference, DropReference
  <2>2. call[e].res \in Res /\ call[e].rev \in 1 .. lastRev
    BY <2>1 DEF CallShape
  <2>3. intent[call[e].res] # 0 /\ ~Referenced(call[e].res)
    BY <2>1, <2>2 DEF IntentProtects, IntentHeld
  <2>4. \A y \in Refs : ref'[y] # call[e].res
    <3>1. \A y \in Refs : ref[y] # call[e].res
      BY <2>3 DEF Referenced
    <3>2. ASSUME NEW r \in Res, PlanReference(x, r) PROVE ref' = ref
      BY <3>2 DEF PlanReference
    <3>3. CASE CommitReference(x)
      BY <2>3, <3>1, <3>3 DEF CommitReference, TypeOK
    <3>4. CASE DropReference(x)
      BY <2>2, <3>1, <3>4, InfraAssumptions DEF DropReference, TypeOK
    <3> QED
      BY <1>5, <3>1, <3>2, <3>3, <3>4
  <2> QED
    BY <2>1, <2>4 DEF Referenced
<1> QED
  BY <1>1, <1>2, <1>3, <1>4, <1>5 DEF Next

-----------------------------------------------------------------------------
(* The guards *)

(* Rows and guards change together. *)
LEMMA GuardStep == IInv /\ [Next]_vars => GuardsExact' /\ DefaultsHeld'
<1> SUFFICES ASSUME IInv, [Next]_vars PROVE GuardsExact' /\ DefaultsHeld'
  OBVIOUS
<1> USE InfraAssumptions DEF IInv
<1>1. CASE RowsKept
  BY <1>1, RowsKeptExact
<1>2. ASSUME NEW r \in Res, NEW n \in Names, NEW d \in BOOLEAN, Create(r, n, d)
      PROVE  GuardsExact' /\ DefaultsHeld'
  <2>1. CASE overlap
    BY <1>2, <2>1 DEF Create, GuardsExact, DefaultsHeld
  <2>2. CASE ~overlap
    <3>1. ~overlap'
      BY <1>2, <2>2 DEF Create
    <3>2. \A m \in Names, s \in Res : guard'[m] = s <=> row'[s].state = "live" /\ row'[s].name = m
      BY <1>2, <2>2 DEF Create, GuardsExact, Live, TypeOK, Row
    <3>3. \A s \in Res : row'[s].state = "live" /\ row'[s].default => defGuard' = s
      BY <1>2, <2>2 DEF Create, DefaultsHeld, Live, TypeOK, Row
    <3> QED
      BY <3>2, <3>3 DEF GuardsExact, DefaultsHeld, Live
  <2> QED
    BY <2>1, <2>2
<1>3. ASSUME NEW c \in Callers, NEW n \in Names, NEW d \in BOOLEAN, UpdateWrite(c, n, d)
      PROVE  GuardsExact' /\ DefaultsHeld'
  <2>1. CASE overlap \/ Stale(c)
    BY <1>3, <2>1, ZenonT(20) DEF UpdateWrite, GuardsExact, DefaultsHeld
  <2>2. CASE ~overlap /\ ~Stale(c)
    <3> DEFINE r == call[c].res
    <3>1. r \in Res /\ row[r] = call[c].seen /\ Live(r)
      BY <1>3, <2>2 DEF UpdateWrite, CallShape, LiveRow, Stale, Live
    <3>2. row' = [row EXCEPT ![r] = [row[r] EXCEPT !.name = n, !.default = d]]
      BY <1>3, <3>1 DEF UpdateWrite
    <3>3. /\ row'[r].state = "live" /\ row'[r].name = n /\ row'[r].default = d
          /\ \A s \in Res : s # r => row'[s] = row[s]
      BY <3>1, <3>2 DEF TypeOK, Row, Live
    <3>4. guard[row[r].name] = r
      BY <2>2, <3>1 DEF GuardsExact, TypeOK, Row
    <3>5. \A m \in Names, s \in Res : guard'[m] = s <=> row'[s].state = "live" /\ row'[s].name = m
      <4>1. CASE Renames(c, n)
        <5>1. /\ guard' = [guard EXCEPT ![row[r].name] = NoRes, ![n] = r]
              /\ guard[n] = NoRes /\ row[r].name # n
          BY <1>3, <3>1, <4>1 DEF UpdateWrite, Renames, ClaimsFree
        <5> QED
          BY <2>2, <3>1, <3>3, <3>4, <5>1 DEF GuardsExact, Live, TypeOK, Row
      <4>2. CASE ~Renames(c, n)
        <5>1. guard' = guard /\ row[r].name = n
          BY <1>3, <3>1, <4>2 DEF UpdateWrite, Renames
        <5> QED
          BY <2>2, <3>1, <3>3, <5>1 DEF GuardsExact, Live
      <4> QED
        BY <4>1, <4>2
    <3>6. \A s \in Res : row'[s].state = "live" /\ row'[s].default => defGuard' = s
      <4>1. CASE TakesDefault(c, d)
        <5>1. defGuard' = r /\ defGuard = NoRes
          BY <1>3, <4>1 DEF UpdateWrite, ClaimsFree
        <5> QED
          BY <2>2, <3>3, <5>1 DEF DefaultsHeld, Live
      <4>2. CASE ~TakesDefault(c, d)
        <5>1. d => row[r].default
          BY <3>1, <4>2 DEF TakesDefault
        <5>2. defGuard' = defGuard \/ (~d /\ row[r].default)
          BY <1>3, <3>1, <4>2 DEF UpdateWrite, DropsDefault
        <5>3. row[r].default => defGuard = r
          BY <2>2, <3>1 DEF DefaultsHeld
        <5> QED
          BY <2>2, <3>1, <3>3, <5>1, <5>2, <5>3 DEF DefaultsHeld, Live
      <4> QED
        BY <4>1, <4>2
    <3> QED
      BY <3>5, <3>6 DEF GuardsExact, DefaultsHeld, Live
  <2> QED
    BY <2>1, <2>2
<1>4. ASSUME NEW c \in Callers, Finalize(c)
      PROVE  GuardsExact' /\ DefaultsHeld'
  <2>1. CASE overlap \/ Stale(c)
    BY <1>4, <2>1, ZenonT(20) DEF Finalize, GuardsExact, DefaultsHeld
  <2>2. CASE ~overlap /\ ~Stale(c)
    <3> DEFINE r == call[c].res
    <3>1. r \in Res /\ row[r] = call[c].seen /\ Live(r)
      BY <1>4, <2>2 DEF Finalize, CallShape, LiveRow, Stale, Live
    <3>2. /\ row'[r].state = "deleted"
          /\ \A s \in Res : s # r => row'[s] = row[s]
      BY <1>4, <3>1 DEF Finalize, TypeOK, Row
    <3>3. guard' = [guard EXCEPT ![row[r].name] = NoRes]
      BY <1>4, <2>2, <3>1 DEF Finalize, ReleaseGuards, GuardsExact, TypeOK, Row
    <3>4. \A m \in Names, s \in Res : guard'[m] = s <=> row'[s].state = "live" /\ row'[s].name = m
      BY <2>2, <3>1, <3>2, <3>3 DEF GuardsExact, Live, TypeOK, Row
    <3>5. defGuard' = defGuard \/ defGuard = r
      BY <1>4 DEF Finalize, ReleaseGuards
    <3>6. \A s \in Res : row'[s].state = "live" /\ row'[s].default => defGuard' = s
      BY <2>2, <3>1, <3>2, <3>5 DEF DefaultsHeld, Live
    <3> QED
      BY <3>4, <3>6 DEF GuardsExact, DefaultsHeld, Live
  <2> QED
    BY <2>1, <2>2
<1>5. ASSUME NEW c \in Callers, Request(c) PROVE GuardsExact' /\ DefaultsHeld'
  <2>1. CASE RowsKept
    BY <2>1, RowsKeptExact
  <2> QED
    BY <1>3, <1>4, <1>5, <2>1 DEF Request, UpdateRead, DeleteRead, UpdateRefused,
       setDeleteIntent, CountReferences, clearDeleteIntent, FinalizeLost, Crash,
       RowsKept, guards
<1> QED
  BY <1>1, <1>2, <1>5 DEF Next, RowsKept, ReapStaleDeleteIntents, PlanReference,
     CommitReference, DropReference, guards, vars

-----------------------------------------------------------------------------
(* The invariant holds, hence every invariant of the model-checking runs:   *)
(* the requests are well formed, the intent of a delete that counted no     *)
(* references keeps its resource unreferenced, guards are exact and live    *)
(* names unique while no write replaces a row changed since it was read.    *)
THEOREM Invariance == Spec => []IInv
<1>1. IInv /\ [Next]_vars => IInv'
  BY TypeStep, ProtectStep, GuardStep DEF IInv
<1> QED
  BY InitInv, <1>1, PTL DEF Spec

(* setDeleteIntent and deleteIntentGuard: the post-intent count stays       *)
(* authoritative until the finalize.                                        *)
THEOREM CountAuthoritative == Spec => []IntentProtects
<1>1. IInv => IntentProtects
  BY DEF IInv
<1> QED
  BY Invariance, <1>1, PTL

(* The name guards of networks, pools and firmwares are exact while no      *)
(* update or delete writes from a copy that is out of date.                 *)
THEOREM ExactGuards == Spec => []GuardsExact
<1>1. IInv => GuardsExact
  BY DEF IInv
<1> QED
  BY Invariance, <1>1, PTL

(* At most one live firmware is the default, under the same proviso.        *)
THEOREM DefaultUnique == Spec => []OneDefault
<1>1. IInv => OneDefault
  BY DEF IInv, DefaultsHeld, OneDefault
<1> QED
  BY Invariance, <1>1, PTL

(* Every delete of a network, storage pool or firmware removes an           *)
(* unreferenced row.                                                        *)
THEOREM DeletesAreSafe == Spec => NeverDeletedInUse
<1> DEFINE Safe == \A r \in Res :
              row[r].state = "live" /\ row'[r].state = "deleted" => ~Referenced(r)
<1>1. IInv /\ [Next]_vars => [Safe]_vars
  <2> SUFFICES ASSUME IInv, Next,
                      NEW r \in Res, row[r].state = "live", row'[r].state = "deleted"
               PROVE  ~Referenced(r)
    OBVIOUS
  <2> USE InfraAssumptions DEF IInv
  <2>1. ASSUME NEW s \in Res, NEW n \in Names, NEW d \in BOOLEAN, Create(s, n, d)
        PROVE  FALSE
    BY <2>1 DEF Create, TypeOK, Row
  <2>2. ASSUME NEW c \in Callers, NEW n \in Names, NEW d \in BOOLEAN, UpdateWrite(c, n, d)
        PROVE  FALSE
    <3>1. call[c].res \in Res /\ call[c].seen \in LiveRow
      BY <2>2 DEF UpdateWrite, CallShape, LiveRow
    <3> QED
      BY <2>2, <3>1 DEF UpdateWrite, TypeOK, LiveRow, Row
  <2>3. ASSUME NEW c \in Callers, Finalize(c) PROVE ~Referenced(r)
    <3>1. call[c].res = r
      BY <2>3 DEF Finalize, TypeOK, CallShape
    <3> QED
      BY <2>3, <3>1 DEF Finalize, IntentProtects
  <2>4. CASE UNCHANGED row
    BY <2>4
  <2>5. ASSUME NEW c \in Callers, Request(c) PROVE ~Referenced(r)
    BY <2>2, <2>3, <2>4, <2>5 DEF Request, UpdateRead, DeleteRead, UpdateRefused,
       setDeleteIntent, CountReferences, clearDeleteIntent, FinalizeLost, Crash
  <2> QED
    BY <2>1, <2>4, <2>5 DEF Next, ReapStaleDeleteIntents, PlanReference,
       CommitReference, DropReference
<1>2. NeverDeletedInUse <=> [][Safe]_vars
  BY DEF NeverDeletedInUse
<1> QED
  BY Invariance, <1>1, <1>2, PTL DEF Spec

=============================================================================
