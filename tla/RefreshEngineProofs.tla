------------------------ MODULE RefreshEngineProofs ------------------------
(***************************************************************************)
(* Proofs about RefreshEngine, for every set of processes and calls and    *)
(* every bound.  IInv is inductive; the safety properties follow from it.  *)
(***************************************************************************)
EXTENDS RefreshEngine, TLAPS

-----------------------------------------------------------------------------
(* Types of the records the model is built from.                           *)

\* The fields of a call built by CallOf.
LEMMA CallOfType ==
    ASSUME NEW d \in Daemons \cup {NoOne}, NEW i \in 0..MaxIncarnation,
           NEW v \in 0..MaxVersion, NEW t \in 0..MaxToken
    PROVE  /\ CallOf(d, i, v, t) \in Call
           /\ CallOf(d, i, v, t).d = d /\ CallOf(d, i, v, t).inc = i
           /\ CallOf(d, i, v, t).ver = v /\ CallOf(d, i, v, t).tok = t
BY ConstantsAssumption DEF Call, CallOf

\* The fields of no call.
LEMMA NoCallType ==
    /\ NoCall \in Call /\ NoCall.d = NoOne
    /\ NoCall.inc = 0 /\ NoCall.ver = 0 /\ NoCall.tok = 0
<1>1. /\ NoOne \in Daemons \cup {NoOne} /\ 0 \in 0..MaxIncarnation
      /\ 0 \in 0..MaxVersion /\ 0 \in 0..MaxToken
    BY ConstantsAssumption
<1> QED BY <1>1, CallOfType DEF NoCall

\* The fields of a stored row.
LEMMA RowType ==
    ASSUME TypeOK, row # None
    PROVE  /\ row \in Row
           /\ row.version \in 1..MaxVersion /\ row.version \in 0..MaxVersion
           /\ row.inc \in 1..MaxIncarnation /\ row.inc \in 0..MaxIncarnation
           /\ row.tok \in 1..MaxToken /\ row.tok \in 0..MaxToken
           /\ row.stale \in BOOLEAN /\ row.refreshable \in BOOLEAN
           /\ row.sound \in BOOLEAN /\ row.state \in States
<1>1. row \in Row BY DEF TypeOK
<1> QED BY <1>1, ConstantsAssumption DEF Row

\* The fields of a call.
LEMMA CallType ==
    ASSUME TypeOK, NEW r \in Requests
    PROVE  /\ req[r] \in Call /\ req[r].d \in Daemons \cup {NoOne}
           /\ req[r].inc \in 0..MaxIncarnation /\ req[r].adm \in 0..MaxIncarnation
           /\ req[r].ver0 \in 0..MaxVersion /\ req[r].ver \in 0..MaxVersion
           /\ req[r].tok \in 0..MaxToken /\ req[r].new \in 0..MaxToken
           /\ 0 \in 0..MaxToken /\ 0 \in 0..MaxVersion
<1>1. req[r] \in Call BY DEF TypeOK
<1> QED BY <1>1, ConstantsAssumption DEF Call

\* A call that copied the row names its version and token.
LEMMA CopiedType ==
    ASSUME TypeOK, NEW r \in Requests, row # None
    PROVE  /\ Copied(r) \in Call
           /\ Copied(r).d = req[r].d /\ Copied(r).inc = req[r].inc
           /\ Copied(r).ver = row.version /\ Copied(r).tok = row.tok
BY RowType, CallType DEF Call, Copied

\* A call that waits for the lock forgets its copy and keeps its lifetime.
LEMMA WaitingType ==
    ASSUME TypeOK, NEW r \in Requests, NEW due \in BOOLEAN
    PROVE  LET c == [CallOf(req[r].d, req[r].inc, 0, 0) EXCEPT
                        !.ver0 = req[r].ver, !.due = due]
           IN  /\ c \in Call /\ c.d = req[r].d /\ c.inc = req[r].inc
               /\ c.ver = 0
<1> DEFINE e == CallOf(req[r].d, req[r].inc, 0, 0)
<1>1. e \in Call /\ e.d = req[r].d /\ e.inc = req[r].inc /\ e.ver = 0
  <2>1. /\ req[r].d \in Daemons \cup {NoOne} /\ req[r].inc \in 0..MaxIncarnation
        /\ 0 \in 0..MaxToken /\ 0 \in 0..MaxVersion
      BY CallType
  <2> QED BY <2>1, CallOfType
<1> HIDE DEF e
<1>2. LET c == [e EXCEPT !.ver0 = req[r].ver, !.due = due]
      IN  /\ c \in Call /\ c.d = req[r].d /\ c.inc = req[r].inc
          /\ c.ver = 0
    BY <1>1, CallType DEF Call
<1> QED BY <1>2 DEF e

\* Storing a well-typed record at a well-typed place of a call.
LEMMA SetCall ==
    ASSUME TypeOK, NEW r \in Requests, NEW c \in Call, NEW w \in Pcs,
           req' = [req EXCEPT ![r] = c], Goto(r, w)
    PROVE  req' \in [Requests -> Call] /\ pc' \in [Requests -> Pcs]
BY DEF TypeOK, Goto

\* Releasing the single-flight lock keeps its type.
LEMMA FreeType ==
    ASSUME TypeOK, NEW r \in Requests, Free(r)
    PROVE  lock' \in [Daemons -> Requests \cup {NoOne}]
BY DEF TypeOK, Free

\* Returning an error keeps the types.
LEMMA ReturnType ==
    ASSUME TypeOK, NEW r \in Requests, Return(r)
    PROVE  /\ req' \in [Requests -> Call] /\ pc' \in [Requests -> Pcs]
           /\ lock' \in [Daemons -> Requests \cup {NoOne}]
BY NoCallType, FreeType DEF TypeOK, Return, Pcs

\* Serving a token keeps the types.
LEMMA ServeType ==
    ASSUME TypeOK, NEW r \in Requests, NEW v \in 0..MaxVersion,
           NEW t \in 0..MaxToken, Serve(r, v, t)
    PROVE  /\ req' \in [Requests -> Call] /\ pc' \in [Requests -> Pcs]
           /\ lock' \in [Daemons -> Requests \cup {NoOne}]
<1>1. CallOf(NoOne, req[r].inc, v, t) \in Call
    BY CallType, CallOfType
<1> QED BY <1>1, SetCall, FreeType DEF Serve, Pcs

\* Meeting damaged bytes keeps the types.
LEMMA ReadDamagedType ==
    ASSUME TypeOK, NEW r \in Requests, ReadDamaged(r)
    PROVE  req' \in [Requests -> Call] /\ pc' \in [Requests -> Pcs]
<1>1. /\ req[r].d \in Daemons \cup {NoOne} /\ req[r].inc \in 0..MaxIncarnation
      /\ row.version \in 0..MaxVersion /\ 0 \in 0..MaxToken
    BY CallType, RowType DEF ReadDamaged, Readable
<1>2. CallOf(req[r].d, req[r].inc, row.version, 0) \in Call
    BY <1>1, CallOfType
<1> QED BY <1>2, SetCall DEF ReadDamaged, Pcs

\* Latching fenced_out changes only the latch.
LEMMA LatchType ==
    ASSUME TypeOK, NEW d, Latch(d)
    PROVE  /\ phase' = phase /\ mine' = mine
           /\ fencedOut' \in [Daemons -> BOOLEAN]
BY DEF TypeOK, Latch

\* A write the fence refuses keeps the types.
LEMMA RefusedType ==
    ASSUME TypeOK, NEW r \in Requests, Refused(r)
    PROVE  TypeOK'
BY ReturnType, LatchType DEF Refused, TypeOK, store, history

\* An invalidation keeps the types of the row and the intent.
LEMMA InvalidateAtType ==
    ASSUME TypeOK, NEW i, NEW v, InvalidateAt(i, v)
    PROVE  row' \in Row \cup {None} /\ intent' \in Intent \cup {None}
<1>1. row # None => row \in Row BY RowType
<1> QED BY <1>1 DEF InvalidateAt, TypeOK, Row, States

-----------------------------------------------------------------------------
(* Type correctness, one action at a time.                                 *)

\* A call between its admission and its return belongs to a process.
LEMMA InProcess ==
    ASSUME IInv, NEW r \in Requests, pc[r] \notin {"idle", "served"}
    PROVE  req[r].d \in Daemons /\ phase[req[r].d] = "up" /\ mine[req[r].d] > 0
<1>1. req[r].d # NoOne /\ req[r].d \in Daemons \cup {NoOne}
    BY CallType DEF IInv, CallsPlaced
<1>2. phase[req[r].d] = "up" BY <1>1 DEF IInv, CallsPlaced
<1>3. mine[req[r].d] # 0 /\ mine[req[r].d] \in 0..MaxEpoch
    BY <1>1, <1>2 DEF IInv, EpochsApart, TypeOK
<1> QED BY <1>1, <1>2, <1>3, ConstantsAssumption

\* A step of a call keeps the types.
LEMMA StepType ==
    ASSUME IInv, NEW r \in Requests, Step(r)
    PROVE  TypeOK'
<1> USE DEF store, process, history
<1>0. TypeOK BY DEF IInv
<1>1. CASE Snapshot(r)
  <2>1. CASE Readable(r) /\ row.sound /\ Goto(r, "snapped")
             /\ req' = [req EXCEPT ![r] = Copied(r)] /\ UNCHANGED lock
    <3>1. Copied(r) \in Call BY <1>0, <2>1, CopiedType DEF Readable
    <3>2. req' \in [Requests -> Call] /\ pc' \in [Requests -> Pcs]
        BY <1>0, <2>1, <3>1, SetCall DEF Pcs
    <3> QED BY <1>0, <1>1, <2>1, <3>2 DEF Snapshot, TypeOK
  <2>2. CASE ReadDamaged(r) /\ UNCHANGED lock
      BY <1>0, <1>1, <2>2, ReadDamagedType DEF Snapshot, TypeOK
  <2>3. CASE ReadFails(r)
      BY <1>0, <1>1, <2>3, ReturnType DEF Snapshot, ReadFails, TypeOK
  <2> QED BY <1>0, <1>1, <2>1, <2>2, <2>3 DEF Snapshot
<1>2. CASE CheckIntent(r)
  <2>1. PICK due \in BOOLEAN :
          \/ Serve(r, req[r].ver, req[r].tok)
          \/ /\ Goto(r, "waiting")
             /\ req' = [req EXCEPT ![r] =
                   [CallOf(req[r].d, req[r].inc, 0, 0) EXCEPT
                      !.ver0 = req[r].ver, !.due = due]]
             /\ UNCHANGED lock
      BY <1>0, <1>2 DEF CheckIntent
  <2>2. /\ req' \in [Requests -> Call] /\ pc' \in [Requests -> Pcs]
        /\ lock' \in [Daemons -> Requests \cup {NoOne}]
    <3>1. CASE Serve(r, req[r].ver, req[r].tok) BY <1>0, <3>1, CallType, ServeType
    <3>2. CASE ~Serve(r, req[r].ver, req[r].tok)
        BY <1>0, <2>1, <3>2, WaitingType, SetCall DEF Pcs, TypeOK
    <3> QED BY <1>0, <3>1, <3>2
  <2> QED BY <1>0, <1>2, <2>2 DEF CheckIntent, TypeOK
<1>3. CASE Acquire(r)
  <2>1. lock' \in [Daemons -> Requests \cup {NoOne}]
      BY <1>0, <1>3, ReturnType DEF Acquire, ReadFails, TypeOK
  <2>2. req' \in [Requests -> Call] /\ pc' \in [Requests -> Pcs]
    <3>1. CASE Readable(r) /\ row.sound /\ Goto(r, "rechecked")
               /\ req' = [req EXCEPT ![r] = Copied(r)]
      <4>1. Copied(r) \in Call BY <1>0, <3>1, CopiedType DEF Readable
      <4> QED BY <1>0, <3>1, <4>1, SetCall DEF Pcs
    <3>2. CASE ReadDamaged(r) BY <1>0, <3>2, ReadDamagedType
    <3>3. CASE ReadFails(r) BY <1>0, <3>3, ReturnType DEF ReadFails
    <3> QED BY <1>0, <1>3, <3>1, <3>2, <3>3 DEF Acquire
  <2> QED BY <1>0, <1>3, <2>1, <2>2 DEF Acquire, TypeOK
<1>4. CASE FailOnIntent(r) BY <1>0, <1>4, ReturnType DEF FailOnIntent, TypeOK
<1>5. CASE ServeLocked(r)
    BY <1>0, <1>5, ServeType, CallType DEF ServeLocked, TypeOK
<1>6. CASE LatchStale(r)
  <2>1. CASE Refused(r) BY <1>0, <2>1, RefusedType
  <2>2. CASE ~Refused(r)
    <3>1. row' \in Row \cup {None} /\ intent' \in Intent \cup {None}
        BY <1>0, <1>6, <2>2, InvalidateAtType DEF LatchStale
    <3>2. pc' \in [Requests -> Pcs]
        BY <1>0, <1>6, <2>2 DEF LatchStale, Goto, Pcs, TypeOK
    <3> QED BY <1>0, <1>6, <2>2, <3>1, <3>2 DEF LatchStale, TypeOK
  <2> QED BY <1>0, <2>1, <2>2
<1>7. CASE OpenIntent(r)
  <2>1. CASE Refused(r) BY <1>0, <2>1, RefusedType
  <2>2. CASE ~Refused(r)
    <3>1. CallOf(req[r].d, req[r].inc, req[r].ver, req[r].tok) \in Call
        BY <1>0, CallType, CallOfType
    <3>2. req' \in [Requests -> Call] /\ pc' \in [Requests -> Pcs]
        BY <1>0, <1>7, <2>2, <3>1, SetCall DEF OpenIntent, Pcs, Exchanging
    <3>3. req[r].tok \in 1..MaxToken /\ req[r].ver \in 1..MaxVersion
        BY <1>7, <2>2, <1>0, RowType DEF OpenIntent, IInv, CopyCurrent
    <3>4. epoch \in 1..MaxEpoch
        BY <1>7, <2>2, <1>0, InProcess, ConstantsAssumption
        DEF OpenIntent, Holds, TypeOK
    <3>5. intent' \in Intent
        BY <1>7, <2>2, <3>3, <3>4 DEF OpenIntent, Intent
    <3>6. presented' \subseteq 1..MaxToken /\ vouched' \subseteq 1..MaxToken
        BY <1>0, <1>7, <2>2, <3>3 DEF OpenIntent, TypeOK
    <3> QED BY <1>0, <1>7, <2>2, <3>2, <3>5, <3>6 DEF OpenIntent, TypeOK
  <2> QED BY <2>1, <2>2, <1>0
<1>8. ASSUME NEW a \in Answers, Answer(r, a) PROVE TypeOK'
  <2>1. pc' \in [Requests -> Pcs]
      BY <1>0, <1>8 DEF Answer, Goto, Pcs, Exchanging, TypeOK
  <2>2. CASE a = "ok"
    <3>1. toks + 1 \in 0..MaxToken
        BY <1>0, <1>8, <2>2, ConstantsAssumption DEF Answer, TypeOK
    <3>2. [req[r] EXCEPT !.new = toks + 1] \in Call
        BY <1>0, <3>1, CallType DEF Call
    <3>3. req' \in [Requests -> Call]
        BY <1>0, <1>8, <2>2, <3>2 DEF Answer, TypeOK
    <3> QED BY <1>0, <1>8, <2>1, <2>2, <3>1, <3>3 DEF Answer, TypeOK
  <2>3. CASE a # "ok" BY <1>0, <1>8, <2>1, <2>3 DEF Answer, TypeOK
  <2> QED BY <2>2, <2>3
<1>9. CASE Commit(r)
  <2>1. CASE Refused(r) BY <1>0, <2>1, RefusedType
  <2>2. CASE Return(r) /\ UNCHANGED <<store, epoch, process, history>>
      BY <1>0, <2>2, ReturnType DEF TypeOK
  <2>3. CASE /\ Holds(req[r].d) /\ CommitsAt(req[r].ver)
             /\ row.version < MaxVersion
             /\ row' = [row EXCEPT !.version = req[r].ver + 1, !.stale = FALSE,
                                !.tok = req[r].new, !.sound = TRUE]
             /\ intent' = None
             /\ Goto(r, "reread")
             /\ UNCHANGED <<epoch, incs, toks, process, lock, req, history>>
    <3>1. row # None /\ row.version = req[r].ver BY <2>3 DEF CommitsAt
    <3>2. req[r].ver + 1 \in 1..MaxVersion
        BY <1>0, <2>3, <3>1, RowType, ConstantsAssumption
    <3>3. req[r].new \in 1..MaxToken
        BY <1>0, <1>9, ConstantsAssumption DEF Commit, IInv, TokensFresh, TypeOK
    <3>4. row' \in Row BY <1>0, <2>3, <3>1, <3>2, <3>3, RowType DEF Row
    <3>5. pc' \in [Requests -> Pcs] BY <1>0, <2>3 DEF Goto, Pcs, TypeOK
    <3> QED BY <1>0, <2>3, <3>4, <3>5 DEF TypeOK
  <2> QED BY <1>9, <2>1, <2>2, <2>3 DEF Commit
<1>10. CASE ClearAfterError(r)
  <2>1. CASE Refused(r) BY <1>0, <2>1, RefusedType
  <2>2. CASE ~Refused(r)
    <3>1. req[r].tok \in 1..MaxToken
        BY <1>0, <1>10, <2>2, RowType
        DEF ClearAfterError, IInv, CopyCurrent, Exchanging, Answers
    <3>2. vouched' \subseteq 1..MaxToken
        BY <1>0, <1>10, <2>2, <3>1 DEF ClearAfterError, TypeOK
    <3> QED BY <1>0, <1>10, <2>2, <3>2, ReturnType DEF ClearAfterError, TypeOK
  <2> QED BY <2>1, <2>2
<1>11. CASE GrantRefused(r)
  <2>1. CASE Refused(r) BY <1>0, <2>1, RefusedType
  <2>2. CASE ~Refused(r)
    <3>1. row' \in Row \cup {None} /\ intent' \in Intent \cup {None}
        BY <1>0, <1>11, <2>2, InvalidateAtType DEF GrantRefused, TypeOK
    <3> QED BY <1>0, <1>11, <2>2, <3>1, ReturnType DEF GrantRefused, TypeOK
  <2> QED BY <2>1, <2>2
<1>12. CASE StorageFails(r) BY <1>0, <1>12, ReturnType DEF StorageFails, TypeOK
<1>13. CASE Reread(r)
  <2>1. /\ req' \in [Requests -> Call] /\ pc' \in [Requests -> Pcs]
        /\ lock' \in [Daemons -> Requests \cup {NoOne}]
    <3>1. CASE Readable(r) /\ Serve(r, row.version, row.tok)
        BY <1>0, <3>1, RowType, ServeType DEF Readable
    <3>2. CASE ReadDamaged(r) /\ UNCHANGED lock
        BY <1>0, <3>2, ReadDamagedType DEF TypeOK
    <3>3. CASE ReadFails(r) BY <1>0, <3>3, ReturnType DEF ReadFails
    <3> QED BY <1>13, <3>1, <3>2, <3>3 DEF Reread
  <2> QED BY <1>0, <1>13, <2>1 DEF Reread, TypeOK
<1>14. CASE Quarantine(r)
  <2>1. CASE Refused(r) BY <1>0, <2>1, RefusedType
  <2>2. CASE ~Refused(r)
    <3>1. row' \in Row \cup {None}
        BY <1>0, <1>14, <2>2, RowType DEF Quarantine, TypeOK, Row, States
    <3> QED BY <1>0, <1>14, <2>2, <3>1, ReturnType DEF Quarantine, TypeOK
  <2> QED BY <2>1, <2>2
<1>15. CASE Forget(r) BY <1>0, <1>15, ReturnType DEF Forget, TypeOK
<1>16. CASE ReportApply(r)
  <2>1. CASE Refused(r) BY <1>0, <2>1, RefusedType
  <2>2. CASE ~Refused(r)
    <3>1. row' \in Row \cup {None} /\ intent' \in Intent \cup {None}
      <4>1. CASE IdRefreshable
        <5>1. /\ UNCHANGED intent
              /\ row' = row \/ (row # None /\ row' = [row EXCEPT !.stale = TRUE])
            BY <1>16, <2>2, <4>1 DEF ReportApply
        <5>2. row # None => [row EXCEPT !.stale = TRUE] \in Row
            BY <1>0, RowType DEF Row
        <5> QED BY <1>0, <5>1, <5>2 DEF TypeOK
      <4>2. CASE ~IdRefreshable
          BY <1>0, <1>16, <2>2, <4>2, InvalidateAtType DEF ReportApply
      <4> QED BY <4>1, <4>2
    <3>2. /\ Return(r) /\ UNCHANGED <<epoch, incs, toks, process, history>>
        BY <1>16, <2>2 DEF ReportApply
    <3> QED BY <1>0, <3>1, <3>2, ReturnType DEF TypeOK
  <2> QED BY <2>1, <2>2
<1> QED
    BY <1>1, <1>2, <1>3, <1>4, <1>5, <1>6, <1>7, <1>8, <1>9, <1>10, <1>11,
       <1>12, <1>13, <1>14, <1>15, <1>16
    DEF Step

\* An admin operation keeps the types.
LEMMA AdminType ==
    ASSUME TypeOK, NEW d \in Daemons, AdminOp(d)
    PROVE  TypeOK'
<1> USE DEF store, process, history
<1>1. CASE AdminRefused(d) BY <1>1, LatchType DEF AdminRefused, TypeOK
<1>2. ASSUME NEW f \in BOOLEAN, Create(d, f) PROVE TypeOK'
  <2>1. incs + 1 \in 1..MaxIncarnation /\ toks + 1 \in 1..MaxToken
        /\ 1 \in 1..MaxVersion
      BY <1>2, ConstantsAssumption DEF Create, TypeOK
  <2>2. row' \in Row BY <1>2, <2>1 DEF Create, Row, States
  <2>3. incs' \in 0..MaxIncarnation /\ toks' \in 0..MaxToken
      BY <1>2, <2>1, ConstantsAssumption DEF Create
  <2> QED BY <1>2, <2>2, <2>3 DEF Create, Admin, TypeOK
<1>3. ASSUME NEW f \in BOOLEAN, Replace(d, f) PROVE TypeOK'
  <2>1. row.version + 1 \in 1..MaxVersion /\ toks + 1 \in 1..MaxToken
      BY <1>3, RowType, ConstantsAssumption DEF Replace, TypeOK
  <2>2. row' \in Row BY <1>3, <2>1, RowType DEF Replace, Row, States
  <2>3. toks' \in 0..MaxToken BY <1>3, <2>1, ConstantsAssumption DEF Replace
  <2> QED BY <1>3, <2>2, <2>3 DEF Replace, Admin, TypeOK
<1>4. CASE SetIdentity(d)
  <2>1. row.version + 1 \in 1..MaxVersion
      BY <1>4, RowType, ConstantsAssumption DEF SetIdentity
  <2>2. row' \in Row BY <1>4, <2>1, RowType DEF SetIdentity, Row
  <2> QED BY <1>4, <2>2 DEF SetIdentity, Admin, TypeOK
<1>5. CASE Invalidate(d)
  <2>1. row' \in Row BY <1>5, RowType DEF Invalidate, Row, States
  <2> QED BY <1>5, <2>1 DEF Invalidate, Admin, TypeOK
<1>6. CASE Retire(d)
  <2>1. row' \in Row BY <1>6, RowType DEF Retire, Row, States
  <2> QED BY <1>6, <2>1 DEF Retire, Admin, TypeOK
<1>7. CASE Reactivate(d)
  <2>1. row' \in Row BY <1>7, RowType DEF Reactivate, Row, States
  <2>2. vouched' \subseteq 1..MaxToken
      BY <1>7, RowType DEF Reactivate, TypeOK
  <2> QED BY <1>7, <2>1, <2>2 DEF Reactivate, Admin, TypeOK
<1>8. CASE Remove(d) BY <1>8 DEF Remove, Admin, TypeOK
<1> QED BY <1>1, <1>2, <1>3, <1>4, <1>5, <1>6, <1>7, <1>8 DEF AdminOp

\* Opening, booting and dying keep the types.
LEMMA ProcessType ==
    ASSUME TypeOK, NEW d \in Daemons,
           \/ \E as \in {"boot", "cli"} : Open(d, as)
           \/ \E check \in CheckOutcomes : Reconcile(d, check)
           \/ Crash(d)
    PROVE  TypeOK'
<1> USE DEF store, process, history
<1>1. ASSUME NEW as \in {"boot", "cli"}, Open(d, as) PROVE TypeOK'
  <2>1. epoch + 1 \in 0..MaxEpoch
      BY <1>1, ConstantsAssumption DEF Open, TypeOK
  <2> QED BY <1>1, <2>1 DEF Open, TypeOK
<1>2. ASSUME NEW check \in CheckOutcomes, Reconcile(d, check) PROVE TypeOK'
  <2>1. /\ phase' \in [Daemons -> {"down", "boot", "up", "cli"}]
        /\ mine' \in [Daemons -> 0..MaxEpoch]
        /\ fencedOut' \in [Daemons -> BOOLEAN]
    <3>1. CASE Serves(d) BY <3>1 DEF Serves, TypeOK
    <3>2. CASE Dies(d) BY <3>2, ConstantsAssumption DEF Dies, TypeOK
    <3>3. CASE UNCHANGED process BY <3>3 DEF TypeOK
    <3> QED BY <1>2, <3>1, <3>2, <3>3 DEF Reconcile
  <2>2. /\ row' \in Row \cup {None} /\ intent' \in Intent \cup {None}
        /\ vouched' \subseteq 1..MaxToken
    <3>1. CASE UNCHANGED row
        BY <1>2, <3>1, RowType DEF Reconcile, TypeOK
    <3>2. CASE row' # row
      <4>1. row # None /\ (row' = [row EXCEPT !.state = "corrupt"]
                          \/ row' = [row EXCEPT !.state = "needs_reauth"])
          BY <1>2, <3>2 DEF Reconcile
      <4>2. row' \in Row BY <4>1, RowType DEF Row, States
      <4>3. UNCHANGED vouched /\ intent' \in {intent, None}
          BY <1>2, <3>2 DEF Reconcile
      <4> QED BY <4>2, <4>3 DEF TypeOK
    <3> QED BY <3>1, <3>2
  <2> QED BY <1>2, <2>1, <2>2 DEF Reconcile, TypeOK
<1>3. CASE Crash(d)
  <2>1. /\ req' \in [Requests -> Call] /\ pc' \in [Requests -> Pcs]
        /\ lock' \in [Daemons -> Requests \cup {NoOne}]
      BY <1>3, NoCallType DEF Crash, TypeOK, Pcs
  <2>2. /\ phase' \in [Daemons -> {"down", "boot", "up", "cli"}]
        /\ mine' \in [Daemons -> 0..MaxEpoch]
        /\ fencedOut' \in [Daemons -> BOOLEAN]
      BY <1>3, ConstantsAssumption DEF Crash, Dies, TypeOK
  <2> QED BY <1>3, <2>1, <2>2 DEF Crash, TypeOK
<1> QED BY <1>1, <1>2, <1>3

\* The inductive invariant keeps its first part, TypeOK, over every step.
LEMMA TypeOKStep ==
    ASSUME IInv, [Next]_vars
    PROVE  TypeOK'
<1> USE DEF store, process, history
<1>0. TypeOK BY DEF IInv
<1>1. CASE UNCHANGED vars BY <1>0, <1>1 DEF TypeOK, vars
<1>2. ASSUME NEW r \in Requests, Step(r) PROVE TypeOK' BY <1>2, StepType
<1>3. ASSUME NEW r \in Requests, NEW d \in Daemons, Admit(r, d) PROVE TypeOK'
  <2>1. row.inc \in 0..MaxIncarnation /\ 0 \in 0..MaxVersion /\ 0 \in 0..MaxToken
      BY <1>0, <1>3, RowType, CallType DEF Admit
  <2>2. CallOf(d, row.inc, 0, 0) \in Call BY <2>1, CallOfType
  <2>3. req' \in [Requests -> Call] /\ pc' \in [Requests -> Pcs]
      BY <1>0, <1>3, <2>2, SetCall DEF Admit, Pcs
  <2> QED BY <1>0, <1>3, <2>3 DEF Admit, TypeOK
<1>4. ASSUME NEW r \in Requests, NEW d \in Daemons, NEW path \in ReportPaths,
             ReportAdmit(r, d, path)
      PROVE  TypeOK'
  <2>1. [req[r] EXCEPT !.d = d, !.adm = row.inc] \in Call
      BY <1>0, <1>4, RowType, CallType DEF ReportAdmit, Call
  <2>2. req' \in [Requests -> Call] /\ pc' \in [Requests -> Pcs]
      BY <1>0, <1>4, <2>1, SetCall DEF ReportAdmit, Pcs
  <2> QED BY <1>0, <1>4, <2>2 DEF ReportAdmit, TypeOK
<1>5. ASSUME NEW d \in Daemons, AdminOp(d) PROVE TypeOK'
    BY <1>0, <1>5, AdminType
<1>6. ASSUME NEW d \in Daemons,
             \/ \E as \in {"boot", "cli"} : Open(d, as)
             \/ \E check \in CheckOutcomes : Reconcile(d, check)
             \/ Crash(d)
      PROVE  TypeOK'
    BY <1>0, <1>6, ProcessType
<1>7. CASE Damage
  <2>1. row' \in Row BY <1>0, <1>7, RowType DEF Damage, Row
  <2> QED BY <1>0, <1>7, <2>1 DEF Damage, TypeOK
<1> QED BY <1>1, <1>2, <1>3, <1>4, <1>5, <1>6, <1>7 DEF Next

-----------------------------------------------------------------------------
(* What a step of one call does, to itself and to everything else.         *)

\* The row stays, or only its state, mark or bytes change.
RowKept ==
    \/ row' = row
    \/ /\ row # None /\ row' # None
       /\ row'.version = row.version /\ row'.inc = row.inc /\ row'.tok = row.tok

\* Return and Serve leave other calls and other holders of locks alone.
LEMMA ReturnFrame ==
    ASSUME TypeOK, NEW r \in Requests, Return(r)
    PROVE  /\ pc'[r] = "idle" /\ req'[r] = NoCall
           /\ \A s \in Requests \ {r} : pc'[s] = pc[s] /\ req'[s] = req[s]
           /\ \A d \in Daemons, s \in Requests \ {r} : lock[d] = s => lock'[d] = s
BY DEF Return, Free, TypeOK

\* Serving moves one call and takes no other call's lock.
LEMMA ServeFrame ==
    ASSUME TypeOK, NEW r \in Requests, NEW v, NEW t, Serve(r, v, t)
    PROVE  /\ pc'[r] = "served" /\ req'[r] = CallOf(NoOne, req[r].inc, v, t)
           /\ \A s \in Requests \ {r} : pc'[s] = pc[s] /\ req'[s] = req[s]
           /\ \A d \in Daemons, s \in Requests \ {r} : lock[d] = s => lock'[d] = s
BY DEF Serve, Goto, Free, TypeOK

\* A step of call r leaves the other calls, their locks and the processes
\* alone; the latch is set only in a process that lost the lease.
LEMMA StepFrame ==
    ASSUME IInv, NEW r \in Requests, Step(r)
    PROVE  /\ \A s \in Requests \ {r} : pc'[s] = pc[s] /\ req'[s] = req[s]
           /\ \A d \in Daemons, s \in Requests \ {r} : lock[d] = s => lock'[d] = s
           /\ epoch' = epoch /\ phase' = phase /\ mine' = mine /\ incs' = incs
           /\ \A d \in Daemons : fencedOut'[d] =>
                 fencedOut[d] \/ (~Holds(d) /\ phase[d] # "down")
<1> DEFINE Frame ==
           /\ \A s \in Requests \ {r} : pc'[s] = pc[s] /\ req'[s] = req[s]
           /\ \A d \in Daemons, s \in Requests \ {r} : lock[d] = s => lock'[d] = s
           Proc ==
           /\ epoch' = epoch /\ phase' = phase /\ mine' = mine /\ incs' = incs
           /\ \A d \in Daemons : fencedOut'[d] =>
                 fencedOut[d] \/ (~Holds(d) /\ phase[d] # "down")
<1> SUFFICES Frame /\ Proc OBVIOUS
<1>0. TypeOK BY DEF IInv
<1> USE DEF store, process, history
<1>r. CASE Refused(r)
  <2>1. Frame BY <1>0, <1>r, ReturnFrame DEF Refused
  <2>2. req[r].d \in Daemons => phase[req[r].d] = "up"
      BY ConstantsAssumption DEF IInv, CallsPlaced
  <2>3. Proc BY <1>0, <1>r, <2>2 DEF Refused, Latch, TypeOK
  <2> QED BY <2>1, <2>3
<1>1. CASE Snapshot(r)
    BY <1>0, <1>1, ReturnFrame DEF Snapshot, ReadDamaged, ReadFails, Goto, TypeOK
<1>2. CASE CheckIntent(r)
    BY <1>0, <1>2, ServeFrame DEF CheckIntent, Goto, TypeOK
<1>3. CASE Acquire(r)
    BY <1>0, <1>3, ReturnFrame, ConstantsAssumption
    DEF Acquire, ReadDamaged, ReadFails, Goto, TypeOK
<1>4. CASE FailOnIntent(r) BY <1>0, <1>4, ReturnFrame DEF FailOnIntent
<1>5. CASE ServeLocked(r) BY <1>0, <1>5, ServeFrame DEF ServeLocked
<1>6. CASE LatchStale(r) BY <1>0, <1>6, <1>r DEF LatchStale, Goto, TypeOK
<1>7. CASE OpenIntent(r) BY <1>0, <1>7, <1>r DEF OpenIntent, Goto, TypeOK
<1>8. ASSUME NEW a \in Answers, Answer(r, a) PROVE Frame /\ Proc
    BY <1>0, <1>8 DEF Answer, Goto, TypeOK
<1>9. CASE Commit(r) BY <1>0, <1>9, <1>r, ReturnFrame DEF Commit, Goto, TypeOK
<1>10. CASE ClearAfterError(r) BY <1>0, <1>10, <1>r, ReturnFrame DEF ClearAfterError
<1>11. CASE GrantRefused(r) BY <1>0, <1>11, <1>r, ReturnFrame DEF GrantRefused
<1>12. CASE StorageFails(r) BY <1>0, <1>12, ReturnFrame DEF StorageFails
<1>13. CASE Reread(r)
    BY <1>0, <1>13, ReturnFrame, ServeFrame
    DEF Reread, ReadDamaged, ReadFails, Goto, TypeOK
<1>14. CASE Quarantine(r) BY <1>0, <1>14, <1>r, ReturnFrame DEF Quarantine
<1>15. CASE Forget(r) BY <1>0, <1>15, ReturnFrame DEF Forget
<1>16. CASE ReportApply(r) BY <1>0, <1>16, <1>r, ReturnFrame DEF ReportApply
<1> QED
    BY <1>1, <1>2, <1>3, <1>4, <1>5, <1>6, <1>7, <1>8, <1>9, <1>10, <1>11,
       <1>12, <1>13, <1>14, <1>15, <1>16
    DEF Step

\* Where call r is after its step, and what it then remembers.
Own(r) ==
    /\ req'[r].d = NoOne <=> pc'[r] \in {"idle", "served"}
    /\ req'[r].d \in {NoOne, req[r].d}
    /\ pc'[r] \in Locked => lock'[req[r].d] = r
    /\ pc'[r] # "reporting"
    /\ req'[r].inc \in {0, req[r].inc}
    /\ req'[r].ver \in {0, req[r].ver} \/ (Readable(r) /\ req'[r].ver = row.version)
    /\ pc'[r] \in Exchanging =>
          /\ pc[r] \in {"rechecked", "calling"}
          /\ req'[r].inc = req[r].inc
          /\ req'[r].ver = req[r].ver /\ req'[r].tok = req[r].tok
    /\ pc'[r] = "ok" => toks' = toks + 1 /\ req'[r].new = toks'
    /\ pc'[r] = "rechecked" => Readable(r) /\ req'[r].inc = req[r].inc
    /\ pc'[r] \in Remembers =>
          \/ /\ pc[r] \in Remembers
             /\ req'[r].ver = req[r].ver /\ req'[r].tok = req[r].tok
          \/ /\ Readable(r) /\ row' = row
             /\ req'[r].ver = row.version /\ req'[r].tok = row.tok
    /\ pc'[r] = "rechecked" => req'[r].ver = row.version /\ req'[r].tok = row.tok
                               /\ UNCHANGED <<row, intent, presented, vouched>>
    /\ pc'[r] = "damaged" => Readable(r) /\ ~row.sound /\ row' = row
                             /\ req'[r].ver = row.version

\* A returning call moves as its owner may.
LEMMA OwnReturn ==
    ASSUME TypeOK, NEW r \in Requests, Return(r)
    PROVE  Own(r)
<1>1. pc'[r] = "idle" /\ req'[r] = NoCall BY ReturnFrame
<1> QED BY <1>1, NoCallType DEF Own, Locked, Exchanging, Answers, Remembers

\* A serving call hands out what it copied or what is stored.
LEMMA OwnServe ==
    ASSUME TypeOK, NEW r \in Requests, NEW v \in 0..MaxVersion,
           NEW t \in 0..MaxToken, Serve(r, v, t),
           \/ pc[r] \in Remembers /\ v = req[r].ver /\ t = req[r].tok
           \/ Readable(r) /\ row' = row /\ v = row.version /\ t = row.tok
    PROVE  Own(r)
<1>1. pc'[r] = "served" /\ req'[r] = CallOf(NoOne, req[r].inc, v, t)
    BY ServeFrame
<1>2. req[r].inc \in 0..MaxIncarnation BY CallType
<1>3. /\ req'[r].d = NoOne /\ req'[r].inc = req[r].inc
      /\ req'[r].ver = v /\ req'[r].tok = t
    BY <1>1, <1>2, CallOfType
<1> QED BY <1>1, <1>3 DEF Own, Locked, Exchanging, Answers

\* A call that met damaged bytes remembers the bytes that are stored.
LEMMA OwnDamaged ==
    ASSUME TypeOK, NEW r \in Requests, ReadDamaged(r), req[r].d # NoOne, row' = row
    PROVE  Own(r)
<1>1. /\ pc'[r] = "damaged" /\ Readable(r) /\ ~row.sound
      /\ req'[r] = CallOf(req[r].d, req[r].inc, row.version, 0)
    BY DEF ReadDamaged, Goto, TypeOK
<1>2. /\ req[r].inc \in 0..MaxIncarnation /\ row.version \in 0..MaxVersion
      /\ req[r].d \in Daemons \cup {NoOne} /\ 0 \in 0..MaxToken
    BY <1>1, CallType, RowType DEF Readable
<1>3. /\ req'[r].d = req[r].d /\ req'[r].inc = req[r].inc
      /\ req'[r].ver = row.version
    BY <1>1, <1>2, CallOfType
<1> QED BY <1>1, <1>3 DEF Own, Locked, Exchanging, Answers, Remembers

\* Every step of a call moves only that call.
LEMMA OwnCall ==
    ASSUME IInv, NEW r \in Requests, Step(r)
    PROVE  Own(r)
<1>0. TypeOK BY DEF IInv
<1> USE DEF store, process, history
<1>p. pc[r] \notin {"idle", "served"} => req[r].d \in Daemons /\ req[r].d # NoOne
    BY InProcess, ConstantsAssumption
<1>l. pc[r] \in Locked => lock[req[r].d] = r BY DEF IInv, CallsPlaced
<1>r. CASE Refused(r) BY <1>0, <1>r, OwnReturn DEF Refused
<1>1. CASE Snapshot(r)
  <2>1. CASE Readable(r) /\ row.sound /\ Goto(r, "snapped")
             /\ req' = [req EXCEPT ![r] = Copied(r)] /\ UNCHANGED lock
    <3>1. pc'[r] = "snapped" /\ req'[r] = Copied(r)
        BY <1>0, <2>1 DEF Goto, TypeOK
    <3>2. /\ req'[r].d = req[r].d /\ req'[r].inc = req[r].inc
          /\ req'[r].ver = row.version /\ req'[r].tok = row.tok
        BY <1>0, <2>1, <3>1, CopiedType DEF Readable
    <3> QED BY <1>1, <1>p, <2>1, <3>1, <3>2
            DEF Snapshot, Own, Locked, Exchanging, Answers
  <2>2. CASE ReadDamaged(r) BY <1>0, <1>1, <1>p, <2>2, OwnDamaged DEF Snapshot
  <2>3. CASE ReadFails(r) BY <1>0, <2>3, OwnReturn DEF ReadFails
  <2> QED BY <1>1, <2>1, <2>2, <2>3 DEF Snapshot
<1>2. CASE CheckIntent(r)
  <2>1. PICK due \in BOOLEAN :
          \/ Serve(r, req[r].ver, req[r].tok)
          \/ /\ Goto(r, "waiting")
             /\ req' = [req EXCEPT ![r] =
                   [CallOf(req[r].d, req[r].inc, 0, 0) EXCEPT
                      !.ver0 = req[r].ver, !.due = due]]
      BY <1>2 DEF CheckIntent
  <2>2. CASE Serve(r, req[r].ver, req[r].tok)
      BY <1>0, <1>2, <2>2, CallType, OwnServe DEF CheckIntent, Remembers
  <2>3. CASE ~Serve(r, req[r].ver, req[r].tok)
    <3>1. /\ pc'[r] = "waiting"
          /\ req'[r] = [CallOf(req[r].d, req[r].inc, 0, 0) EXCEPT
                          !.ver0 = req[r].ver, !.due = due]
        BY <1>0, <2>1, <2>3 DEF Goto, TypeOK
    <3>2. /\ req'[r].d = req[r].d /\ req'[r].inc = req[r].inc
          /\ req'[r].ver = 0
        BY <1>0, <3>1, WaitingType
    <3> QED BY <1>2, <1>p, <3>1, <3>2
            DEF CheckIntent, Own, Locked, Exchanging, Answers, Remembers
  <2> QED BY <2>2, <2>3
<1>3. CASE Acquire(r)
  <2>1. CASE Readable(r) /\ Goto(r, "rechecked")
             /\ req' = [req EXCEPT ![r] = Copied(r)]
             /\ lock' = [lock EXCEPT ![req[r].d] = r]
    <3>1. pc'[r] = "rechecked" /\ req'[r] = Copied(r)
        BY <1>0, <2>1 DEF Goto, TypeOK
    <3>2. /\ req'[r].d = req[r].d /\ req'[r].inc = req[r].inc
          /\ req'[r].ver = row.version /\ req'[r].tok = row.tok
        BY <1>0, <2>1, <3>1, CopiedType DEF Readable
    <3>3. lock'[req[r].d] = r
        BY <1>0, <1>3, <1>p, <2>1 DEF Acquire, TypeOK
    <3> QED BY <1>3, <1>p, <2>1, <3>1, <3>2, <3>3
            DEF Acquire, Own, Exchanging, Answers
  <2>2. CASE ReadDamaged(r) BY <1>0, <1>3, <1>p, <2>2, OwnDamaged DEF Acquire
  <2>3. CASE ReadFails(r) BY <1>0, <2>3, OwnReturn DEF ReadFails
  <2> QED BY <1>3, <2>1, <2>2, <2>3 DEF Acquire
<1>4. CASE FailOnIntent(r) BY <1>0, <1>4, OwnReturn DEF FailOnIntent
<1>5. CASE ServeLocked(r)
    BY <1>0, <1>5, CallType, OwnServe DEF ServeLocked, Remembers
<1>6. CASE LatchStale(r)
  <2>1. CASE ~Refused(r)
    <3>1. pc'[r] = "reread" /\ req' = req /\ lock' = lock
        BY <1>0, <1>6, <2>1 DEF LatchStale, Goto, TypeOK
    <3> QED BY <1>6, <1>p, <1>l, <3>1
            DEF LatchStale, Own, Locked, Exchanging, Answers, Remembers
  <2> QED BY <1>r, <2>1
<1>7. CASE OpenIntent(r)
  <2>1. CASE ~Refused(r)
    <3>1. /\ pc'[r] = "calling" /\ lock' = lock
          /\ req'[r] = CallOf(req[r].d, req[r].inc, req[r].ver, req[r].tok)
        BY <1>0, <1>7, <2>1 DEF OpenIntent, Goto, TypeOK
    <3>2. /\ req'[r].d = req[r].d /\ req'[r].inc = req[r].inc
          /\ req'[r].ver = req[r].ver /\ req'[r].tok = req[r].tok
      <4>1. /\ req[r].d \in Daemons \cup {NoOne}
            /\ req[r].inc \in 0..MaxIncarnation
            /\ req[r].ver \in 0..MaxVersion /\ req[r].tok \in 0..MaxToken
          BY <1>0, CallType
      <4> QED BY <3>1, <4>1, CallOfType
    <3> QED BY <1>7, <1>p, <1>l, <3>1, <3>2
            DEF OpenIntent, Own, Locked, Exchanging, Answers, Remembers
  <2> QED BY <1>r, <2>1
<1>8. ASSUME NEW a \in Answers, Answer(r, a) PROVE Own(r)
  <2>1. pc'[r] = a /\ lock' = lock BY <1>0, <1>8 DEF Answer, Goto, TypeOK
  <2>2. /\ req'[r].d = req[r].d /\ req'[r].inc = req[r].inc
        /\ req'[r].ver = req[r].ver /\ req'[r].tok = req[r].tok
        /\ a = "ok" => toks' = toks + 1 /\ req'[r].new = toks'
    <3>1. CASE a = "ok"
      <4>1. req'[r] = [req[r] EXCEPT !.new = toks + 1] /\ toks' = toks + 1
          BY <1>0, <1>8, <3>1 DEF Answer, TypeOK
      <4> QED BY <1>0, <4>1, CallType DEF Call
    <3>2. CASE a # "ok" BY <1>8, <3>2 DEF Answer
    <3> QED BY <3>1, <3>2
  <2> QED BY <1>8, <1>p, <1>l, <2>1, <2>2
          DEF Answer, Own, Locked, Exchanging, Answers, Remembers
<1>9. CASE Commit(r)
  <2>1. CASE ~Refused(r) /\ ~Return(r)
    <3>1. pc'[r] = "reread" /\ req' = req /\ lock' = lock
        BY <1>0, <1>9, <2>1 DEF Commit, Goto, TypeOK
    <3> QED BY <1>9, <1>p, <1>l, <3>1
            DEF Commit, Own, Locked, Exchanging, Answers, Remembers
  <2>2. CASE Return(r) BY <1>0, <2>2, OwnReturn
  <2> QED BY <1>r, <2>1, <2>2
<1>10. CASE ClearAfterError(r) BY <1>0, <1>r, <1>10, OwnReturn DEF ClearAfterError
<1>11. CASE GrantRefused(r) BY <1>0, <1>r, <1>11, OwnReturn DEF GrantRefused
<1>12. CASE StorageFails(r) BY <1>0, <1>12, OwnReturn DEF StorageFails
<1>13. CASE Reread(r)
  <2>1. CASE Readable(r) /\ Serve(r, row.version, row.tok)
      BY <1>0, <1>13, <2>1, RowType, OwnServe DEF Reread, Readable
  <2>2. CASE ReadDamaged(r) BY <1>0, <1>13, <1>p, <2>2, OwnDamaged DEF Reread
  <2>3. CASE ReadFails(r) BY <1>0, <2>3, OwnReturn DEF ReadFails
  <2> QED BY <1>13, <2>1, <2>2, <2>3 DEF Reread
<1>14. CASE Quarantine(r) BY <1>0, <1>r, <1>14, OwnReturn DEF Quarantine
<1>15. CASE Forget(r) BY <1>0, <1>15, OwnReturn DEF Forget
<1>16. CASE ReportApply(r) BY <1>0, <1>r, <1>16, OwnReturn DEF ReportApply
<1> QED
    BY <1>1, <1>2, <1>3, <1>4, <1>5, <1>6, <1>7, <1>8, <1>9, <1>10, <1>11,
       <1>12, <1>13, <1>14, <1>15, <1>16
    DEF Step

-----------------------------------------------------------------------------
(* Who may write: the lease and the single-flight lock exclude the others. *)

\* At most one call with the lease is under the lock.
LEMMA HolderUnique ==
    ASSUME IInv, NEW r \in Requests, NEW s \in Requests,
           pc[r] \in Locked, pc[s] \in Locked,
           Holds(req[r].d), Holds(req[s].d)
    PROVE  r = s
<1>1. pc[r] \notin {"idle", "served"} /\ pc[s] \notin {"idle", "served"}
    BY DEF Locked, Exchanging, Answers
<1>2. /\ req[r].d \in Daemons /\ req[s].d \in Daemons
      /\ mine[req[r].d] > 0 /\ mine[req[s].d] > 0
    BY <1>1, InProcess
<1>3. req[r].d = req[s].d BY <1>2 DEF Holds, IInv, EpochsApart
<1> QED BY <1>3 DEF IInv, CallsPlaced

\* With the lease and the lock free, or still booting, a process knows that
\* no call under a lock has the lease.
LEMMA WriterExcludes ==
    ASSUME IInv, NEW d \in Daemons, phase[d] # "down", Holds(d),
           lock[d] = NoOne \/ phase[d] # "up",
           NEW s \in Requests, pc[s] \in Locked
    PROVE  ~Holds(req[s].d)
<1>1. pc[s] \notin {"idle", "served"} BY DEF Locked, Exchanging, Answers
<1>2. /\ req[s].d \in Daemons /\ phase[req[s].d] = "up"
      /\ mine[req[s].d] > 0
    BY <1>1, InProcess
<1>3. lock[req[s].d] = s /\ s # NoOne
    BY ConstantsAssumption DEF IInv, CallsPlaced
<1>4. req[s].d # d BY <1>2, <1>3
<1> QED BY <1>2, <1>4 DEF Holds, IInv, EpochsApart

-----------------------------------------------------------------------------
(* What a step of one call does to the stored row and its intent.          *)

\* The effect of a successful commit_refresh.
Committed(r) ==
    /\ pc[r] = "ok" /\ Holds(req[r].d)
    /\ row # None /\ row.version = req[r].ver /\ row.state = "active"
    /\ row' # None /\ row'.version = row.version + 1 /\ row'.inc = row.inc
    /\ row'.tok = req[r].new /\ row'.state = "active" /\ row'.sound
    /\ intent' = None /\ UNCHANGED <<toks, presented, vouched>>

Flags == UnresolvedIsFlagged /\ IntentMatchesStored /\ QuarantineOnlyDamaged

\* The row after invalidation, if anything changed at all.
LEMMA InvalidateAtEffect ==
    ASSUME TypeOK, NEW i, NEW v, InvalidateAt(i, v)
    PROVE  \/ UNCHANGED <<row, intent>>
           \/ /\ row # None /\ row' # None
              /\ row'.version = row.version /\ row'.inc = row.inc
              /\ row'.tok = row.tok /\ row'.sound = row.sound
              /\ row'.state = "needs_reauth" /\ intent' = None
<1>1. CASE UNCHANGED <<row, intent>> BY <1>1
<1>2. CASE ~UNCHANGED <<row, intent>>
  <2>1. /\ row # None /\ intent' = None
        /\ row' = [row EXCEPT !.state = "needs_reauth"]
      BY <1>2 DEF InvalidateAt
  <2>2. row \in Row BY <2>1, RowType
  <2>3. row' \in Row BY <2>1, <2>2 DEF Row, States
  <2> QED BY <2>1, <2>2, <2>3, NoneAssumption DEF Row
<1> QED BY <1>1, <1>2

\* A step of a call commits, or keeps the row and its flags.
LEMMA StepStore ==
    ASSUME IInv, NEW r \in Requests, Step(r)
    PROVE  /\ Flags'
           /\ Committed(r) \/ (RowKept /\ (row # None => row'.sound = row.sound))
<1> DEFINE Kept == RowKept /\ (row # None => row'.sound = row.sound)
           Goal == Flags' /\ (Committed(r) \/ Kept)
<1> SUFFICES Goal OBVIOUS
<1>0. TypeOK /\ Flags BY DEF IInv, Flags
<1> USE DEF store, process, history
<1>u. UNCHANGED <<row, intent, presented, vouched>> => Goal
    BY <1>0 DEF Flags, UnresolvedIsFlagged, IntentMatchesStored,
                QuarantineOnlyDamaged, RowKept
<1>i. ASSUME NEW i, NEW v, InvalidateAt(i, v), UNCHANGED history PROVE Goal
  <2>1. CASE UNCHANGED <<row, intent>> BY <1>i, <1>u, <2>1
  <2>2. CASE ~UNCHANGED <<row, intent>>
    <3>1. /\ row # None /\ row' # None
          /\ row'.version = row.version /\ row'.inc = row.inc
          /\ row'.tok = row.tok /\ row'.sound = row.sound
          /\ row'.state = "needs_reauth" /\ intent' = None
        BY <1>0, <1>i, <2>2, InvalidateAtEffect
    <3> QED BY <3>1 DEF Flags, UnresolvedIsFlagged, IntentMatchesStored,
                QuarantineOnlyDamaged, RowKept
  <2> QED BY <2>1, <2>2
<1>r. CASE Refused(r) BY <1>r, <1>u DEF Refused
<1>1. CASE Snapshot(r) BY <1>1, <1>u DEF Snapshot
<1>2. CASE CheckIntent(r) BY <1>2, <1>u DEF CheckIntent
<1>3. CASE Acquire(r) BY <1>3, <1>u DEF Acquire
<1>4. CASE FailOnIntent(r) BY <1>4, <1>u DEF FailOnIntent
<1>5. CASE ServeLocked(r) BY <1>5, <1>u DEF ServeLocked
<1>6. CASE LatchStale(r)
    BY <1>6, <1>r, <1>i DEF LatchStale
<1>7. CASE OpenIntent(r)
  <2>1. CASE ~Refused(r)
    <3>1. /\ row' = row /\ row # None /\ row.tok = req[r].tok
          /\ intent' = [version |-> req[r].ver, tok |-> req[r].tok,
                        epoch |-> epoch]
        BY <1>7, <2>1 DEF OpenIntent, IInv, CopyCurrent
    <3>2. intent'.tok = req[r].tok BY <3>1
    <3>3. intent' # None
      <4>1. intent' \in Intent
        <5>1. req[r].tok \in 1..MaxToken /\ req[r].ver \in 1..MaxVersion
            BY <1>7, <2>1, <1>0, RowType DEF OpenIntent, IInv, CopyCurrent
        <5>2. epoch \in 1..MaxEpoch
            BY <1>7, <2>1, <1>0, InProcess, ConstantsAssumption
            DEF OpenIntent, Holds, TypeOK
        <5> QED BY <3>1, <5>1, <5>2 DEF Intent
      <4> QED BY <4>1, NoneAssumption
    <3> QED BY <1>0, <3>1, <3>2, <3>3
            DEF Flags, UnresolvedIsFlagged, IntentMatchesStored,
                QuarantineOnlyDamaged, RowKept
  <2> QED BY <1>r, <2>1
<1>8. ASSUME NEW a \in Answers, Answer(r, a) PROVE Goal
    BY <1>8, <1>u DEF Answer
<1>9. CASE Commit(r)
  <2>1. CASE ~Refused(r) /\ ~Return(r)
    <3>1. /\ Holds(req[r].d) /\ CommitsAt(req[r].ver) /\ intent' = None
          /\ row' = [row EXCEPT !.version = req[r].ver + 1, !.stale = FALSE,
                                !.tok = req[r].new, !.sound = TRUE]
          /\ UNCHANGED <<toks, presented, vouched>>
        BY <1>9, <2>1 DEF Commit
    <3>2. row \in Row /\ row # None /\ row.state = "active"
          /\ row.version = req[r].ver
        BY <1>0, <3>1, RowType DEF CommitsAt
    <3>3. /\ row'.version = row.version + 1 /\ row'.inc = row.inc
          /\ row'.tok = req[r].new /\ row'.state = "active" /\ row'.sound = TRUE
        BY <3>1, <3>2 DEF Row
    <3>4. row' # None
      <4>1. req[r].ver + 1 \in 1..MaxVersion
          BY <1>0, <1>9, <2>1, <3>2, RowType, ConstantsAssumption DEF Commit
      <4>2. req[r].new \in 1..MaxToken
          BY <1>0, <1>9, ConstantsAssumption
          DEF Commit, IInv, TokensFresh, TypeOK
      <4>3. row' \in Row BY <3>1, <3>2, <4>1, <4>2 DEF Row
      <4> QED BY <4>3, NoneAssumption
    <3>5. req[r].new \notin presented
        BY <1>9 DEF Commit, IInv, TokensFresh
    <3>6. Committed(r) BY <1>9, <3>1, <3>2, <3>3, <3>4 DEF Committed, Commit
    <3> QED BY <3>1, <3>3, <3>5, <3>6
            DEF Flags, UnresolvedIsFlagged, IntentMatchesStored,
                QuarantineOnlyDamaged
  <2>2. CASE Return(r) /\ ~Refused(r)
    <3>1. pc'[r] = "idle" BY <1>0, <2>2, ReturnFrame
    <3> QED BY <1>0, <1>9, <1>u, <2>2, <3>1 DEF Commit, Goto, TypeOK
  <2> QED BY <1>r, <2>1, <2>2
<1>10. CASE ClearAfterError(r)
  <2>1. CASE ~Refused(r)
    <3>1. /\ row' = row /\ row # None /\ row.tok = req[r].tok /\ intent' = None
          /\ presented' = presented /\ vouched' = vouched \cup {req[r].tok}
        BY <1>10, <2>1
        DEF ClearAfterError, IInv, CopyCurrent, Exchanging, Answers
    <3> QED BY <1>0, <3>1
            DEF Flags, UnresolvedIsFlagged, IntentMatchesStored,
                QuarantineOnlyDamaged, RowKept
  <2> QED BY <1>r, <2>1
<1>11. CASE GrantRefused(r) BY <1>11, <1>r, <1>u, <1>i DEF GrantRefused
<1>12. CASE StorageFails(r) BY <1>12, <1>u DEF StorageFails
<1>13. CASE Reread(r) BY <1>13, <1>u DEF Reread
<1>14. CASE Quarantine(r)
  <2>1. CASE row' # row
    <3>1. /\ row # None /\ row.inc = req[r].inc /\ row.version = req[r].ver
          /\ row' = [row EXCEPT !.state = "corrupt"] /\ pc[r] = "damaged"
          /\ UNCHANGED <<intent, presented, vouched>>
        BY <1>14, <2>1 DEF Quarantine, Refused
    <3>2. ~row.sound BY <3>1 DEF IInv, VersionsName
    <3>3. row \in Row BY <1>0, <3>1, RowType
    <3>4. row' \in Row BY <3>1, <3>3 DEF Row, States
    <3>5. /\ row'.version = row.version /\ row'.inc = row.inc
          /\ row'.tok = row.tok /\ row'.sound = row.sound
          /\ row'.state = "corrupt" /\ row' # None
        BY <3>1, <3>3, <3>4, NoneAssumption DEF Row
    <3> QED BY <1>0, <3>1, <3>2, <3>5
            DEF Flags, UnresolvedIsFlagged, IntentMatchesStored,
                QuarantineOnlyDamaged, RowKept
  <2>2. CASE row' = row BY <1>14, <1>u, <2>2 DEF Quarantine, Refused
  <2> QED BY <2>1, <2>2
<1>15. CASE Forget(r) BY <1>15, <1>u DEF Forget
<1>16. CASE ReportApply(r)
  <2>1. CASE ~Refused(r) /\ IdRefreshable /\ row' # row
    <3>1. /\ row # None /\ row' = [row EXCEPT !.stale = TRUE]
          /\ UNCHANGED <<intent, presented, vouched>>
        BY <1>16, <2>1 DEF ReportApply
    <3>2. row \in Row BY <1>0, <3>1, RowType
    <3>3. row' \in Row BY <3>1, <3>2 DEF Row
    <3>4. /\ row'.version = row.version /\ row'.inc = row.inc
          /\ row'.tok = row.tok /\ row'.sound = row.sound
          /\ row'.state = row.state /\ row' # None
        BY <3>1, <3>2, <3>3, NoneAssumption DEF Row
    <3> QED BY <1>0, <3>1, <3>4
            DEF Flags, UnresolvedIsFlagged, IntentMatchesStored,
                QuarantineOnlyDamaged, RowKept
  <2>2. CASE ~Refused(r) /\ IdRefreshable /\ row' = row
      BY <1>16, <1>u, <2>2 DEF ReportApply
  <2>3. CASE ~Refused(r) /\ ~IdRefreshable
      BY <1>16, <1>i, <2>3 DEF ReportApply
  <2> QED BY <1>r, <2>1, <2>2, <2>3, ConstantsAssumption
<1> QED
    BY <1>1, <1>2, <1>3, <1>4, <1>5, <1>6, <1>7, <1>8, <1>9, <1>10, <1>11,
       <1>12, <1>13, <1>14, <1>15, <1>16
    DEF Step

\* The effect of open_intent, as far as tokens and the intent go.
Opened(r) ==
    /\ pc[r] = "rechecked" /\ Holds(req[r].d)
    /\ presented' = presented \cup {req[r].tok}
    /\ intent' # None /\ UNCHANGED <<row, toks>>

\* Tokens are minted one at a time, presented only under an opened intent.
LEMMA StepTokens ==
    ASSUME IInv, NEW r \in Requests, Step(r)
    PROVE  /\ \/ toks' = toks
              \/ toks' = toks + 1 /\ presented' = presented /\ row' = row
           /\ Opened(r) \/ (presented' = presented /\ vouched \subseteq vouched')
           /\ intent' # None => intent' = intent \/ intent'.epoch = epoch
           /\ \/ intent' = intent
              \/ pc[r] \in Locked /\ Holds(req[r].d)
              \/ ~IdRefreshable
<1> DEFINE Goal ==
           /\ \/ toks' = toks
              \/ toks' = toks + 1 /\ presented' = presented /\ row' = row
           /\ Opened(r) \/ (presented' = presented /\ vouched \subseteq vouched')
           /\ intent' # None => intent' = intent \/ intent'.epoch = epoch
           /\ \/ intent' = intent
              \/ pc[r] \in Locked /\ Holds(req[r].d)
              \/ ~IdRefreshable
<1> SUFFICES Goal OBVIOUS
<1>0. TypeOK BY DEF IInv
<1> USE DEF store, process, history
<1>u. UNCHANGED <<intent, presented, vouched, toks>> => Goal OBVIOUS
<1>i. ASSUME NEW i, NEW v, InvalidateAt(i, v), UNCHANGED <<toks, history>>,
             ~IdRefreshable \/ (pc[r] \in Locked /\ Holds(req[r].d))
      PROVE  Goal
  <2>1. UNCHANGED intent \/ intent' = None BY <1>i DEF InvalidateAt
  <2> QED BY <1>i, <2>1
<1>r. CASE Refused(r) BY <1>r, <1>u DEF Refused
<1>1. CASE Snapshot(r) BY <1>1, <1>u DEF Snapshot
<1>2. CASE CheckIntent(r) BY <1>2, <1>u DEF CheckIntent
<1>3. CASE Acquire(r) BY <1>3, <1>u DEF Acquire
<1>4. CASE FailOnIntent(r) BY <1>4, <1>u DEF FailOnIntent
<1>5. CASE ServeLocked(r) BY <1>5, <1>u DEF ServeLocked
<1>6. CASE LatchStale(r) BY <1>6, <1>r, <1>i DEF LatchStale, Locked
<1>7. CASE OpenIntent(r)
  <2>1. CASE ~Refused(r)
    <3>1. /\ pc[r] = "rechecked" /\ Holds(req[r].d) /\ UNCHANGED <<row, toks>>
          /\ presented' = presented \cup {req[r].tok}
          /\ intent' = [version |-> req[r].ver, tok |-> req[r].tok,
                        epoch |-> epoch]
        BY <1>7, <2>1 DEF OpenIntent
    <3>2. intent' # None
      <4>1. req[r].tok \in 1..MaxToken /\ req[r].ver \in 1..MaxVersion
          BY <3>1, <1>0, RowType DEF IInv, CopyCurrent
      <4>2. epoch \in 1..MaxEpoch
          BY <3>1, <1>0, InProcess, ConstantsAssumption DEF Holds, TypeOK
      <4>3. intent' \in Intent BY <3>1, <4>1, <4>2 DEF Intent
      <4> QED BY <4>3, NoneAssumption
    <3>3. intent'.epoch = epoch BY <3>1
    <3> QED BY <3>1, <3>2, <3>3 DEF Opened, Locked
  <2> QED BY <1>r, <2>1
<1>8. ASSUME NEW a \in Answers, Answer(r, a) PROVE Goal BY <1>8 DEF Answer
<1>9. CASE Commit(r)
    BY <1>9, <1>r, <1>u DEF Commit, Locked, Exchanging, Answers
<1>10. CASE ClearAfterError(r)
    BY <1>10, <1>r DEF ClearAfterError, Locked, Exchanging, Answers
<1>11. CASE GrantRefused(r)
    BY <1>11, <1>r, <1>u, <1>i DEF GrantRefused, Locked, Exchanging, Answers
<1>12. CASE StorageFails(r) BY <1>12, <1>u DEF StorageFails
<1>13. CASE Reread(r) BY <1>13, <1>u DEF Reread
<1>14. CASE Quarantine(r) BY <1>14, <1>r, <1>u DEF Quarantine
<1>15. CASE Forget(r) BY <1>15, <1>u DEF Forget
<1>16. CASE ReportApply(r) BY <1>16, <1>r, <1>u, <1>i DEF ReportApply
<1> QED
    BY <1>1, <1>2, <1>3, <1>4, <1>5, <1>6, <1>7, <1>8, <1>9, <1>10, <1>11,
       <1>12, <1>13, <1>14, <1>15, <1>16
    DEF Step

-----------------------------------------------------------------------------
(* The invariant over a step of a call, one conjunct at a time.            *)

\* A step of a call keeps the invariant.
LEMMA StepKeeps ==
    ASSUME IInv, NEW r \in Requests, Step(r)
    PROVE  IInv'
<1>t. TypeOK BY DEF IInv
<1>f. /\ \A s \in Requests \ {r} : pc'[s] = pc[s] /\ req'[s] = req[s]
      /\ \A d \in Daemons, s \in Requests \ {r} : lock[d] = s => lock'[d] = s
      /\ epoch' = epoch /\ phase' = phase /\ mine' = mine /\ incs' = incs
      /\ \A d \in Daemons : fencedOut'[d] =>
                 fencedOut[d] \/ (~Holds(d) /\ phase[d] # "down")
    BY StepFrame
<1>o. Own(r) BY OwnCall
<1>h. \A d : Holds(d)' <=> Holds(d) BY <1>f DEF Holds
<1>p. \A s \in Requests : pc[s] \in Locked => req[s].d \in Daemons
    BY InProcess DEF Locked, Exchanging, Answers
<1>1. TypeOK' BY StepType
<1>2. EpochsApart' BY <1>f DEF IInv, EpochsApart
<1>3. CallsPlaced'
  <2>1. ASSUME NEW s \in Requests, s # r
        PROVE  /\ pc'[s] \in {"idle", "served"} <=> req'[s].d = NoOne
               /\ req'[s].d # NoOne => phase'[req'[s].d] = "up"
               /\ pc'[s] \in Locked => lock'[req'[s].d] = s
    <3>1. pc'[s] = pc[s] /\ req'[s] = req[s] BY <1>f, <2>1
    <3>2. pc[s] \in Locked => lock[req[s].d] = s BY DEF IInv, CallsPlaced
    <3>3. pc[s] \in Locked => lock'[req[s].d] = s BY <1>f, <1>p, <2>1, <3>2
    <3> QED BY <1>f, <3>1, <3>3 DEF IInv, CallsPlaced
  <2>2. /\ pc'[r] \in {"idle", "served"} <=> req'[r].d = NoOne
        /\ req'[r].d # NoOne => phase'[req'[r].d] = "up"
        /\ pc'[r] \in Locked => lock'[req'[r].d] = r
      BY <1>f, <1>o DEF Own, IInv, CallsPlaced, Locked, Exchanging, Answers
  <2> QED BY <2>1, <2>2 DEF CallsPlaced
<1>4. CopyCurrent'
  <2> SUFFICES ASSUME NEW s \in Requests,
                      pc'[s] \in {"rechecked"} \cup Exchanging, Holds(req'[s].d)
               PROVE  /\ row' # None /\ row'.inc = req'[s].inc
                      /\ row'.version = req'[s].ver /\ row'.tok = req'[s].tok
      BY <1>h DEF CopyCurrent
  <2>1. CASE s # r
    <3>1. /\ pc[s] \in {"rechecked"} \cup Exchanging /\ Holds(req[s].d)
          /\ req'[s] = req[s]
        BY <1>f, <2>1
    <3>2. /\ row # None /\ row.inc = req[s].inc
          /\ row.version = req[s].ver /\ row.tok = req[s].tok
        BY <3>1 DEF IInv, CopyCurrent
    <3>3. ~Committed(r)
        BY <2>1, <3>1, HolderUnique DEF Committed, Locked, Exchanging, Answers
    <3> QED BY <3>1, <3>2, <3>3, StepStore DEF RowKept
  <2>2. CASE s = r /\ pc'[r] = "rechecked"
      BY <1>o, <2>2 DEF Own, Readable
  <2>3. CASE s = r /\ pc'[r] \in Exchanging
    <3>1. /\ pc[r] \in {"rechecked", "calling"}
          /\ req'[r].inc = req[r].inc
          /\ req'[r].ver = req[r].ver /\ req'[r].tok = req[r].tok
          /\ req'[r].d = req[r].d
        BY <1>o, <2>3 DEF Own, Exchanging, Answers
    <3>2. /\ row # None /\ row.inc = req[r].inc
          /\ row.version = req[r].ver /\ row.tok = req[r].tok
        BY <2>3, <3>1 DEF IInv, CopyCurrent, Exchanging
    <3> QED BY <2>3, <3>1, <3>2, StepStore DEF RowKept, Committed
  <2> QED BY <2>1, <2>2, <2>3
<1>5. TokensFresh'
  <2>0. toks \in Nat /\ toks' \in Nat /\ toks' >= toks
      BY <1>t, <1>1, StepTokens, ConstantsAssumption DEF TypeOK
  <2>1. \A t \in presented' : t <= toks'
    <3>1. CASE Opened(r)
      <4>1. req[r].tok <= toks
          BY <3>1 DEF Opened, IInv, CopyCurrent, TokensFresh
      <4> QED BY <3>1, <4>1 DEF Opened, IInv, TokensFresh
    <3>2. CASE presented' = presented
        BY <1>t, <2>0, <3>2, ConstantsAssumption DEF IInv, TokensFresh, TypeOK
    <3> QED BY <3>1, <3>2, StepTokens
  <2>2. row' # None => row'.tok <= toks'
    <3>1. CASE Committed(r)
        BY <2>0, <3>1 DEF Committed, IInv, TokensFresh
    <3>2. CASE RowKept
        BY <1>t, <2>0, <3>2, RowType DEF RowKept, IInv, TokensFresh
    <3> QED BY <3>1, <3>2, StepStore
  <2>3. ASSUME NEW s \in Requests, pc'[s] = "ok"
        PROVE  /\ req'[s].new \in 1..toks' /\ req'[s].new \notin presented'
               /\ row' # None => row'.tok # req'[s].new
               /\ \A u \in Requests :
                     pc'[u] = "ok" /\ req'[u].new = req'[s].new => u = s
    <3>1. CASE pc'[r] = "ok"
      <4>1. toks' = toks + 1 /\ req'[r].new = toks + 1 BY <1>o, <3>1 DEF Own
      <4>2. presented' = presented /\ row' = row
          BY <2>0, <4>1, StepTokens DEF Opened
      <4>3. \A u \in Requests \ {r} : pc'[u] = "ok" => req'[u].new \in 1..toks
          BY <1>f DEF IInv, TokensFresh
      <4>4. CASE s = r
        <5>1. req'[s].new \notin presented'
            BY <2>0, <4>1, <4>2, <4>4 DEF IInv, TokensFresh
        <5>2. row' # None => row'.tok # req'[s].new
            BY <2>0, <4>1, <4>2, <4>4 DEF IInv, TokensFresh
        <5> QED BY <2>0, <4>1, <4>3, <4>4, <5>1, <5>2
      <4>5. CASE s # r
          BY <1>f, <2>0, <2>3, <4>1, <4>2, <4>3, <4>5 DEF IInv, TokensFresh
      <4> QED BY <4>4, <4>5
    <3>2. CASE pc'[r] # "ok"
      <4>1. /\ pc[s] = "ok" /\ req'[s] = req[s] /\ s # r
            /\ \A u \in Requests : pc'[u] = "ok" => pc[u] = "ok" /\ req'[u] = req[u]
          BY <1>f, <2>3, <3>2
      <4>2. /\ req[s].new \in 1..toks /\ req[s].new \notin presented
            /\ row # None => row.tok # req[s].new
          BY <4>1 DEF IInv, TokensFresh
      <4>3. req'[s].new \notin presented'
        <5>1. CASE Opened(r)
          <6>1. req[r].tok = row.tok /\ row # None
              BY <5>1 DEF Opened, IInv, CopyCurrent
          <6> QED BY <4>1, <4>2, <5>1, <6>1 DEF Opened
        <5>2. CASE presented' = presented BY <4>1, <4>2, <5>2
        <5> QED BY <5>1, <5>2, StepTokens
      <4>4. row' # None => row'.tok # req'[s].new
        <5>1. CASE Committed(r)
            BY <4>1, <5>1 DEF Committed, IInv, TokensFresh
        <5>2. CASE RowKept BY <4>1, <4>2, <5>2 DEF RowKept
        <5> QED BY <5>1, <5>2, StepStore
      <4>5. \A u \in Requests :
               pc'[u] = "ok" /\ req'[u].new = req'[s].new => u = s
          BY <4>1 DEF IInv, TokensFresh
      <4>6. req'[s].new \in 1..toks' BY <2>0, <4>1, <4>2
      <4> QED BY <4>3, <4>4, <4>5, <4>6
    <3> QED BY <3>1, <3>2
  <2> QED BY <2>1, <2>2, <2>3 DEF TokensFresh
<1>6. IntentMatchesStored' /\ UnresolvedIsFlagged' /\ QuarantineOnlyDamaged'
    BY StepStore DEF Flags
<1>7. IntentStillThere'
  <2> SUFFICES ASSUME IdRefreshable, NEW s \in Requests,
                      pc'[s] = "rechecked", Holds(req'[s].d),
                      req'[s].tok \in presented' \ vouched'
               PROVE  intent' # None
      BY <1>h DEF IntentStillThere
  <2>1. CASE s = r
      BY <1>o, <2>1 DEF Own, Readable, IInv, UnresolvedIsFlagged
  <2>2. CASE s # r
    <3>1. pc[s] = "rechecked" /\ Holds(req[s].d) /\ req'[s] = req[s]
        BY <1>f, <2>2
    <3>2. CASE Opened(r) BY <3>2 DEF Opened
    <3>3. CASE presented' = presented /\ vouched \subseteq vouched'
      <4>1. intent # None
          BY <3>1, <3>3 DEF IInv, IntentStillThere
      <4>2. ~(pc[r] \in Locked /\ Holds(req[r].d))
          BY <2>2, <3>1, HolderUnique DEF Locked
      <4> QED BY <4>1, <4>2, StepTokens
    <3> QED BY <3>2, <3>3, StepTokens
  <2> QED BY <2>1, <2>2
<1>8. VersionsName'
  <2>0. row' # None =>
           /\ row # None /\ row'.inc = row.inc
           /\ \/ /\ row'.version = row.version /\ row'.tok = row.tok
                 /\ row'.sound = row.sound
              \/ row'.version = row.version + 1
      BY StepStore DEF RowKept, Committed
  <2>n. row # None => row.version \in Nat /\ row.inc \in Nat \ {0}
      BY <1>t, RowType, ConstantsAssumption
  <2>m. \A s \in Requests : req[s].ver \in Nat /\ req[s].inc \in Nat
      BY <1>t, CallType, ConstantsAssumption
  <2>i. incs \in Nat BY <1>t, ConstantsAssumption DEF TypeOK
  <2>1. row' # None => row'.inc <= incs'
      BY <1>f, <2>0 DEF IInv, VersionsName
  <2>2. ASSUME NEW s \in Requests
        PROVE  /\ req'[s].inc <= incs'
               /\ row' # None /\ row'.inc = req'[s].inc =>
                     /\ req'[s].ver <= row'.version
                     /\ pc'[s] \in Remembers /\ row'.version = req'[s].ver
                           => row'.tok = req'[s].tok
                     /\ pc'[s] = "damaged" /\ row'.version = req'[s].ver
                           => ~row'.sound
    <3>1. CASE s # r
        BY <1>f, <2>0, <2>n, <2>m, <3>1 DEF IInv, VersionsName
    <3>2. CASE s = r
      <4>1. req'[r].inc <= incs'
          BY <1>f, <1>o, <2>i DEF Own, IInv, VersionsName
      <4>2. ASSUME row' # None, row'.inc = req'[r].inc
            PROVE  /\ req'[r].ver <= row'.version
                   /\ pc'[r] \in Remembers /\ row'.version = req'[r].ver
                         => row'.tok = req'[r].tok
                   /\ pc'[r] = "damaged" /\ row'.version = req'[r].ver
                         => ~row'.sound
        <5>1. row.inc = req[r].inc /\ row # None
            BY <1>o, <2>0, <2>n, <4>2 DEF Own
        <5>2. /\ req[r].ver <= row.version
              /\ pc[r] \in Remembers /\ row.version = req[r].ver
                     => row.tok = req[r].tok
            BY <5>1 DEF IInv, VersionsName
        <5>3. req'[r].ver <= row'.version
            BY <1>o, <2>0, <2>n, <2>m, <4>2, <5>1, <5>2 DEF Own
        <5>4. ASSUME pc'[r] \in Remembers, row'.version = req'[r].ver
              PROVE  row'.tok = req'[r].tok
          <6>1. CASE /\ pc[r] \in Remembers
                     /\ req'[r].ver = req[r].ver /\ req'[r].tok = req[r].tok
              BY <2>0, <2>n, <2>m, <4>2, <5>2, <5>4, <6>1
          <6>2. CASE Readable(r) /\ row' = row /\ req'[r].tok = row.tok
              BY <6>2
          <6> QED BY <1>o, <5>4, <6>1, <6>2 DEF Own
        <5>5. pc'[r] = "damaged" => ~row'.sound BY <1>o DEF Own
        <5> QED BY <5>3, <5>4, <5>5
      <4> QED BY <3>2, <4>1, <4>2
    <3> QED BY <3>1, <3>2
  <2> QED BY <2>1, <2>2 DEF VersionsName
<1>9. ReportsPlaced'
    BY <1>f, <1>o DEF Own, IInv, ReportsPlaced
<1>10. GateKept'
  <2>1. ASSUME BootGate PROVE BootGate'
    <3>1. \/ intent' = None \/ intent' = intent \/ intent'.epoch = epoch
        BY StepTokens
    <3> QED BY <1>f, <1>h, <2>1, <3>1 DEF BootGate
  <2> QED BY <2>1 DEF IInv, GateKept
<1>11. LatchIsFinal'
  <2>1. \A d \in Daemons : mine[d] \in Nat /\ epoch \in Nat
      BY <1>t, ConstantsAssumption DEF TypeOK
  <2>2. \A d \in Daemons : mine[d] <= epoch BY DEF IInv, EpochsApart
  <2> QED BY <1>f, <2>1, <2>2 DEF IInv, LatchIsFinal, Holds
<1> QED
    BY <1>1, <1>2, <1>3, <1>4, <1>5, <1>6, <1>7, <1>8, <1>9, <1>10, <1>11
    DEF IInv

-----------------------------------------------------------------------------
(* The invariant over admin operations.                                    *)

\* What an admin operation may do to the row: nothing to its identity, or a
\* new lifetime, a new token, a new version of the same token, or removal.
AdminEffect ==
    \/ RowKept /\ (row # None => row'.sound = row.sound) /\ UNCHANGED <<incs, toks>>
    \/ /\ row' # None /\ row'.sound /\ row'.tok = toks + 1 /\ toks' = toks + 1
       /\ \/ row'.inc = incs + 1 /\ incs' = incs + 1
          \/ /\ row # None /\ incs' = incs /\ row'.inc = row.inc
             /\ row'.version = row.version + 1
    \/ /\ row # None /\ row' # None /\ UNCHANGED <<incs, toks>>
       /\ row'.version = row.version + 1
       /\ row'.inc = row.inc /\ row'.tok = row.tok
    \/ row' = None /\ UNCHANGED <<incs, toks>>

\* What an admin operation does to the row and the intent.
LEMMA AdminStore ==
    ASSUME IInv, NEW d \in Daemons, AdminOp(d), ~AdminRefused(d)
    PROVE  /\ Flags' /\ AdminEffect /\ Admin(d)
           /\ presented' = presented /\ vouched \subseteq vouched'
           /\ intent' \in {intent, None}
<1> DEFINE Goal == /\ Flags' /\ AdminEffect /\ Admin(d)
                   /\ presented' = presented /\ vouched \subseteq vouched'
                   /\ intent' \in {intent, None}
<1> SUFFICES Goal OBVIOUS
<1>0. TypeOK /\ Flags BY DEF IInv, Flags
<1>1. TypeOK' BY <1>0, AdminType
<1>r. row' # None => row' \in Row BY <1>1 DEF TypeOK
<1>f. \A t \in presented : t <= toks BY DEF IInv, TokensFresh
<1>n. toks \in Nat BY <1>0, ConstantsAssumption DEF TypeOK
<1> USE DEF Flags, UnresolvedIsFlagged, IntentMatchesStored, QuarantineOnlyDamaged
<1>2. ASSUME NEW f \in BOOLEAN, Create(d, f) PROVE Goal
  <2>1. /\ row' = [version |-> 1, state |-> "active", stale |-> FALSE,
                   inc |-> incs + 1, tok |-> toks + 1,
                   refreshable |-> f, sound |-> TRUE]
        /\ incs + 1 \in 1..MaxIncarnation /\ toks + 1 \in 1..MaxToken
        /\ 1 \in 1..MaxVersion
      BY <1>0, <1>2, ConstantsAssumption DEF Create, TypeOK
  <2>2. row' \in Row BY <2>1 DEF Row, States
  <2>3. row' # None BY <2>2, NoneAssumption
  <2>4. /\ row'.tok = toks + 1 /\ row'.inc = incs + 1 /\ row'.sound = TRUE
        /\ row'.state = "active"
      BY <2>1
  <2>5. AdminEffect BY <1>2, <2>3, <2>4 DEF AdminEffect, Create
  <2> QED BY <1>2, <1>f, <1>n, <2>3, <2>4, <2>5 DEF Create, Admin
<1>3. ASSUME NEW f \in BOOLEAN, Replace(d, f) PROVE Goal
  <2>1. /\ row # None /\ toks' = toks + 1 /\ incs' = incs
        /\ row' = [row EXCEPT !.version = row.version + 1, !.state = "active",
                          !.stale = FALSE, !.tok = toks + 1,
                          !.refreshable = f, !.sound = TRUE]
        /\ row.version + 1 \in 1..MaxVersion /\ toks + 1 \in 1..MaxToken
      BY <1>0, <1>3, RowType, ConstantsAssumption DEF Replace, TypeOK
  <2>2. row \in Row BY <1>0, <2>1, RowType
  <2>3. row' \in Row BY <2>1, <2>2 DEF Row, States
  <2>4. /\ row' # None /\ row'.tok = toks + 1 /\ row'.inc = row.inc
        /\ row'.version = row.version + 1 /\ row'.sound = TRUE
        /\ row'.state = "active"
      BY <2>1, <2>2, <2>3, NoneAssumption DEF Row
  <2>5. AdminEffect BY <2>1, <2>4 DEF AdminEffect
  <2> QED BY <1>3, <1>f, <1>n, <2>4, <2>5 DEF Replace, Admin
<1>4. CASE SetIdentity(d)
  <2>1. /\ row # None /\ row.sound
        /\ row' = [row EXCEPT !.version = row.version + 1]
        /\ row.version + 1 \in 1..MaxVersion
      BY <1>0, <1>4, RowType, ConstantsAssumption DEF SetIdentity
  <2>2. row \in Row BY <1>0, <2>1, RowType
  <2>3. row' \in Row BY <2>1, <2>2 DEF Row
  <2>4. /\ row' # None /\ row'.tok = row.tok /\ row'.inc = row.inc
        /\ row'.version = row.version + 1 /\ row'.sound = row.sound
        /\ row'.state = row.state
      BY <2>1, <2>2, <2>3, NoneAssumption DEF Row
  <2>5. AdminEffect BY <1>4, <2>1, <2>4 DEF AdminEffect, SetIdentity
  <2> QED BY <1>0, <1>4, <2>1, <2>4, <2>5 DEF SetIdentity, Admin
<1>5. ASSUME row # None, row' = row \/ \E st \in States \ {"corrupt"} :
                                          row' = [row EXCEPT !.state = st]
      PROVE  /\ AdminEffect \/ ~UNCHANGED <<incs, toks>>
             /\ row' # None /\ row'.tok = row.tok /\ row'.sound = row.sound
  <2>1. row \in Row BY <1>0, <1>5, RowType
  <2>2. row' \in Row BY <1>5, <2>1 DEF Row
  <2>3. /\ row' # None /\ row'.tok = row.tok /\ row'.sound = row.sound
        /\ row'.version = row.version /\ row'.inc = row.inc
      BY <1>5, <2>1, <2>2, NoneAssumption DEF Row
  <2> QED BY <1>5, <2>3 DEF AdminEffect, RowKept
<1>6. CASE Invalidate(d)
  <2>1. row # None /\ row \in Row BY <1>0, <1>6, RowType DEF Invalidate
  <2>2. row' # None => row'.state # "active"
                       /\ (row'.state = "corrupt" => row' = row)
      BY <1>6, <2>1 DEF Invalidate, Row
  <2>3. row' = row \/ \E st \in States \ {"corrupt"} : row' = [row EXCEPT !.state = st]
      BY <1>6 DEF Invalidate, States
  <2> QED BY <1>0, <1>5, <1>6, <2>1, <2>2, <2>3 DEF Invalidate, Admin
<1>7. CASE Retire(d)
  <2>1. row # None /\ row \in Row BY <1>0, <1>7, RowType DEF Retire
  <2>2. row' # None => row'.state # "active"
                       /\ (row'.state = "corrupt" => row' = row)
      BY <1>7, <2>1 DEF Retire, Row
  <2>3. row' = row \/ \E st \in States \ {"corrupt"} : row' = [row EXCEPT !.state = st]
      BY <1>7 DEF Retire, States
  <2> QED BY <1>0, <1>5, <1>7, <2>1, <2>2, <2>3 DEF Retire, Admin
<1>8. CASE Reactivate(d)
  <2>1. row # None /\ row \in Row BY <1>0, <1>8, RowType DEF Reactivate
  <2>2. row'.state = "active" BY <1>8, <2>1 DEF Reactivate, Row
  <2>3. row' = row \/ \E st \in States \ {"corrupt"} : row' = [row EXCEPT !.state = st]
      BY <1>8 DEF Reactivate, States
  <2> QED BY <1>0, <1>5, <1>8, <2>1, <2>2, <2>3 DEF Reactivate, Admin
<1>9. CASE Remove(d) BY <1>0, <1>9 DEF Remove, Admin, AdminEffect
<1> QED BY <1>2, <1>3, <1>4, <1>6, <1>7, <1>8, <1>9 DEF AdminOp

\* An admin operation keeps the invariant.
LEMMA AdminKeeps ==
    ASSUME IInv, NEW d \in Daemons, AdminOp(d)
    PROVE  IInv'
<1> USE DEF store, process, history
<1>t. TypeOK /\ TypeOK' BY AdminType DEF IInv
<1>r. CASE AdminRefused(d)
  <2>1. /\ UNCHANGED <<row, intent, epoch, incs, toks, phase, mine, lock, pc, req,
                       presented, vouched>>
        /\ ~Holds(d) /\ fencedOut' = [fencedOut EXCEPT ![d] = TRUE]
      BY <1>r DEF AdminRefused, Latch
  <2>0. phase[d] # "down" BY <1>r DEF AdminRefused
  <2>2. EpochsApart' /\ CallsPlaced' /\ CopyCurrent' /\ TokensFresh'
      BY <1>t, <2>0, <2>1 DEF IInv, TypeOK, EpochsApart, CallsPlaced, CopyCurrent, TokensFresh, Holds
  <2>3. /\ IntentMatchesStored' /\ UnresolvedIsFlagged' /\ IntentStillThere'
        /\ QuarantineOnlyDamaged'
      BY <2>1 DEF IInv, IntentMatchesStored, UnresolvedIsFlagged,
                  IntentStillThere, QuarantineOnlyDamaged, Holds
  <2>4. VersionsName' /\ ReportsPlaced' /\ GateKept'
      BY <2>1 DEF IInv, VersionsName, ReportsPlaced, GateKept, BootGate, Holds
  <2>5. LatchIsFinal'
    <3>1. mine[d] \in Nat /\ epoch \in Nat
        BY <1>t, ConstantsAssumption DEF TypeOK
    <3>2. mine[d] <= epoch BY DEF IInv, EpochsApart
    <3>3. \A e \in Daemons : fencedOut'[e] => fencedOut[e] \/ e = d
        BY <1>t, <2>1 DEF TypeOK
    <3> QED BY <2>1, <3>1, <3>2, <3>3 DEF IInv, LatchIsFinal, Holds
  <2> QED BY <1>t, <2>2, <2>3, <2>4, <2>5 DEF IInv
<1>a. CASE ~AdminRefused(d)
  <2>0. /\ Flags' /\ AdminEffect /\ Admin(d)
        /\ presented' = presented /\ vouched \subseteq vouched'
        /\ intent' \in {intent, None}
      BY <1>a, AdminStore
  <2>1. UNCHANGED <<epoch, phase, mine, fencedOut, lock, pc, req>>
      BY <2>0 DEF Admin
  <2>2. \A s \in Requests : pc[s] \in Locked => ~Holds(req[s].d)
      BY <2>0, WriterExcludes DEF Admin
  <2>n. toks \in Nat /\ incs \in Nat BY <1>t, ConstantsAssumption DEF TypeOK
  <2>3. EpochsApart' /\ CallsPlaced' /\ ReportsPlaced' /\ LatchIsFinal'
      BY <2>1 DEF IInv, EpochsApart, CallsPlaced, ReportsPlaced, LatchIsFinal
  <2>4. CopyCurrent'
      BY <2>1, <2>2 DEF CopyCurrent, Locked, Holds
  <2>5. IntentStillThere'
      BY <2>1, <2>2 DEF IntentStillThere, Locked, Holds
  <2>6. IntentMatchesStored' /\ UnresolvedIsFlagged' /\ QuarantineOnlyDamaged'
      BY <2>0 DEF Flags
  <2>7. GateKept' BY <2>0, <2>1 DEF IInv, GateKept, BootGate, Holds
  <2>8. TokensFresh'
    <3>1. toks' \in Nat /\ toks' >= toks BY <2>0, <2>n DEF AdminEffect
    <3>2. \A t \in presented' : t <= toks'
      <4>1. \A t \in presented : t \in Nat
          BY <1>t, ConstantsAssumption DEF TypeOK
      <4> QED BY <2>0, <2>n, <3>1, <4>1 DEF IInv, TokensFresh
    <3>3. row' # None => /\ row'.tok <= toks'
                         /\ row'.tok = toks + 1
                            \/ (row # None /\ row'.tok = row.tok)
        BY <2>0, <2>n DEF AdminEffect, RowKept, IInv, TokensFresh
    <3>4. ASSUME NEW s \in Requests, pc[s] = "ok"
          PROVE  /\ req[s].new \in 1..toks /\ req[s].new \notin presented
                 /\ row # None => row.tok # req[s].new
                 /\ \A u \in Requests :
                       pc[u] = "ok" /\ req[u].new = req[s].new => u = s
        BY <3>4 DEF IInv, TokensFresh
    <3>5. \A s \in Requests : pc[s] = "ok" => req[s].new \in 1..toks'
        BY <2>n, <3>1, <3>4
    <3>6. \A s \in Requests :
             pc[s] = "ok" /\ row' # None => row'.tok # req[s].new
        BY <2>n, <3>3, <3>4
    <3> QED BY <2>0, <2>1, <3>2, <3>3, <3>4, <3>5, <3>6 DEF TokensFresh
  <2>9. VersionsName'
    <3>1. row # None => row.version \in Nat /\ row.inc \in Nat
        BY <1>t, RowType, ConstantsAssumption
    <3>2. \A s \in Requests : req[s].ver \in Nat /\ req[s].inc \in Nat
        BY <1>t, CallType, ConstantsAssumption
    <3>3. incs' \in Nat /\ incs' >= incs BY <2>0, <2>n DEF AdminEffect
    <3>4. row' # None => row'.inc <= incs'
        BY <2>0, <2>n, <3>1 DEF AdminEffect, RowKept, IInv, VersionsName
    <3>5. row' # None =>
             \/ row'.inc = incs + 1
             \/ row # None /\ row'.inc = row.inc /\ row'.version = row.version + 1
             \/ /\ row # None /\ row'.inc = row.inc /\ row'.version = row.version
                /\ row'.tok = row.tok /\ row'.sound = row.sound
        BY <2>0 DEF AdminEffect, RowKept
    <3>6. ASSUME NEW s \in Requests
          PROVE  /\ req[s].inc <= incs'
                 /\ row' # None /\ row'.inc = req[s].inc =>
                       /\ req[s].ver <= row'.version
                       /\ pc[s] \in Remembers /\ row'.version = req[s].ver
                             => row'.tok = req[s].tok
                       /\ pc[s] = "damaged" /\ row'.version = req[s].ver
                             => ~row'.sound
      <4>1. req[s].inc <= incs BY DEF IInv, VersionsName
      <4>2. row # None /\ row.inc = req[s].inc =>
                /\ req[s].ver <= row.version
                /\ pc[s] \in Remembers /\ row.version = req[s].ver
                      => row.tok = req[s].tok
                /\ pc[s] = "damaged" /\ row.version = req[s].ver
                      => ~row.sound
          BY DEF IInv, VersionsName
      <4> QED BY <2>n, <3>1, <3>2, <3>3, <3>5, <4>1, <4>2
    <3> QED BY <2>1, <3>4, <3>6 DEF VersionsName
  <2> QED BY <1>t, <2>3, <2>4, <2>5, <2>6, <2>7, <2>8, <2>9 DEF IInv
<1> QED BY <1>r, <1>a

-----------------------------------------------------------------------------
(* The invariant over admissions, processes and the environment.           *)

\* A new call or report: only call r changes, and it is not under the lock.
LEMMA AdmitKeeps ==
    ASSUME IInv, TypeOK', NEW r \in Requests, NEW d \in Daemons,
           \/ Admit(r, d)
           \/ \E path \in ReportPaths : ReportAdmit(r, d, path)
    PROVE  IInv'
<1> USE DEF store, process, history
<1>t. TypeOK BY DEF IInv
<1>1. /\ UNCHANGED <<row, intent, epoch, incs, toks, phase, mine, fencedOut, lock,
                     presented, vouched>>
      /\ \A s \in Requests \ {r} : pc'[s] = pc[s] /\ req'[s] = req[s]
      /\ row # None /\ phase[d] = "up"
    BY <1>t DEF Admit, ReportAdmit, Goto, TypeOK
<1> DEFINE Placed ==
      /\ pc'[r] \in {"admitted", "reporting"} /\ req'[r].d = d
      /\ req'[r].inc <= incs
      /\ row.inc = req'[r].inc =>
            /\ req'[r].ver <= row.version
            /\ pc'[r] = "reporting" /\ row.version = req'[r].ver
                  => row.tok = req'[r].tok
      /\ pc'[r] = "reporting" /\ "scoped" \notin ReportPaths
            => req'[r].adm = req'[r].inc
<1>2. Placed
  <2>1. CASE Admit(r, d)
    <3>1. pc'[r] = "admitted" /\ req'[r] = CallOf(d, row.inc, 0, 0)
        BY <1>t, <2>1 DEF Admit, Goto, TypeOK
    <3>2. /\ row.inc \in 0..MaxIncarnation /\ 0 \in 0..MaxVersion
          /\ 0 \in 0..MaxToken /\ row.version \in Nat
        BY <1>t, <1>1, RowType, CallType, ConstantsAssumption
    <3>3. req'[r].d = d /\ req'[r].inc = row.inc /\ req'[r].ver = 0
        BY <3>1, <3>2, CallOfType
    <3>4. row.inc <= incs BY <1>1 DEF IInv, VersionsName
    <3> QED BY <3>1, <3>2, <3>3, <3>4
  <2>2. ASSUME NEW path \in ReportPaths, ReportAdmit(r, d, path)
        PROVE  Placed
    <3>1. /\ pc[r] = "served" /\ pc'[r] = "reporting"
          /\ req'[r] = [req[r] EXCEPT !.d = d, !.adm = row.inc]
          /\ path = "handle" => row.inc = req[r].inc
        BY <1>t, <2>2 DEF ReportAdmit, Goto, TypeOK
    <3>2. /\ req'[r].d = d /\ req'[r].inc = req[r].inc
          /\ req'[r].ver = req[r].ver /\ req'[r].tok = req[r].tok
          /\ req'[r].adm = row.inc
        BY <1>t, <3>1, CallType DEF Call
    <3>3. "scoped" \notin ReportPaths => path = "handle"
        BY ConstantsAssumption
    <3>4. /\ req[r].inc <= incs
          /\ row.inc = req[r].inc =>
                /\ req[r].ver <= row.version
                /\ row.version = req[r].ver => row.tok = req[r].tok
        BY <1>1, <3>1 DEF IInv, VersionsName, Remembers
    <3> QED BY <3>1, <3>2, <3>3, <3>4
  <2> QED BY <2>1, <2>2
<1>3. EpochsApart' /\ LatchIsFinal' /\ GateKept'
    BY <1>1 DEF IInv, EpochsApart, LatchIsFinal, GateKept, BootGate, Holds
<1>4. pc'[r] \notin Locked /\ pc'[r] \notin {"idle", "served", "damaged"}
    BY <1>2 DEF Locked, Exchanging, Answers
<1>5. CallsPlaced'
    BY <1>1, <1>2, <1>4, ConstantsAssumption DEF IInv, CallsPlaced
<1>6. CopyCurrent' /\ IntentStillThere'
    BY <1>1, <1>4 DEF IInv, CopyCurrent, IntentStillThere, Locked, Holds
<1>7. TokensFresh'
    BY <1>1, <1>2 DEF IInv, TokensFresh
<1>8. IntentMatchesStored' /\ UnresolvedIsFlagged' /\ QuarantineOnlyDamaged'
    BY <1>1 DEF IInv, IntentMatchesStored, UnresolvedIsFlagged,
                QuarantineOnlyDamaged
<1>9. VersionsName'
    BY <1>1, <1>2, <1>4
    DEF IInv, VersionsName, Remembers, Exchanging, Answers
<1>10. ReportsPlaced' BY <1>1, <1>2 DEF IInv, ReportsPlaced
<1> QED BY <1>3, <1>5, <1>6, <1>7, <1>8, <1>9, <1>10 DEF IInv

\* A process opens the store under a new epoch: every other one loses the
\* lease, and the new one has no calls yet.
LEMMA OpenKeeps ==
    ASSUME IInv, TypeOK', NEW d \in Daemons, NEW as \in {"boot", "cli"}, Open(d, as)
    PROVE  IInv'
<1> USE DEF store, process, history
<1>t. TypeOK BY DEF IInv
<1>1. /\ UNCHANGED <<row, intent, incs, toks, fencedOut, lock, pc, req,
                     presented, vouched>>
      /\ phase[d] = "down" /\ phase' = [phase EXCEPT ![d] = as]
      /\ epoch' = epoch + 1 /\ mine' = [mine EXCEPT ![d] = epoch + 1]
    BY DEF Open
<1>2. epoch \in Nat /\ \A e \in Daemons : mine[e] \in Nat /\ mine[e] <= epoch
  <2>1. \A e \in Daemons : mine[e] \in Nat BY <1>t, ConstantsAssumption DEF TypeOK
  <2> QED BY <1>t, <2>1, ConstantsAssumption DEF TypeOK, IInv, EpochsApart
<1>3. /\ mine'[d] = epoch + 1 /\ phase'[d] = as
      /\ \A e \in Daemons \ {d} : mine'[e] = mine[e] /\ phase'[e] = phase[e]
    BY <1>t, <1>1 DEF TypeOK
<1>4. \A e \in Daemons : Holds(e)' => e = d BY <1>1, <1>2, <1>3 DEF Holds
<1>5. \A s \in Requests : req[s].d # d BY <1>1, ConstantsAssumption DEF IInv, CallsPlaced
<1>6. EpochsApart'
  <2>1. \A e \in Daemons : phase[e] = "down" <=> mine[e] = 0
      BY DEF IInv, EpochsApart
  <2>2. \A e \in Daemons : phase[e] = "down" => ~fencedOut[e]
      BY DEF IInv, EpochsApart
  <2>3. \A e, f \in Daemons : mine[e] = mine[f] /\ mine[e] > 0 => e = f
      BY DEF IInv, EpochsApart
  <2>4. \A e \in Daemons : mine'[e] <= epoch' BY <1>1, <1>2, <1>3
  <2>5. ASSUME NEW e \in Daemons PROVE phase'[e] = "down" <=> mine'[e] = 0
    <3>1. CASE e = d
      <4>1. phase'[e] # "down" BY <1>3, <3>1
      <4>2. mine'[e] # 0 BY <1>2, <1>3, <3>1
      <4> QED BY <4>1, <4>2
    <3>2. CASE e # d BY <1>3, <2>1, <3>2
    <3> QED BY <3>1, <3>2
  <2>6. \A e \in Daemons : phase'[e] = "down" => ~fencedOut'[e]
      BY <1>1, <1>3, <2>2
  <2>7. \A e, f \in Daemons : mine'[e] = mine'[f] /\ mine'[e] > 0 => e = f
      BY <1>2, <1>3, <2>3
  <2> QED BY <2>4, <2>5, <2>6, <2>7 DEF EpochsApart
<1>7. LatchIsFinal'
  <2>1. ~fencedOut[d] BY <1>1 DEF IInv, EpochsApart
  <2> QED BY <1>1, <1>2, <1>3, <2>1 DEF IInv, LatchIsFinal
<1>8. CallsPlaced'
  <2> SUFFICES ASSUME NEW s \in Requests
               PROVE  /\ pc[s] \in {"idle", "served"} <=> req[s].d = NoOne
                      /\ req[s].d # NoOne => phase'[req[s].d] = "up"
                      /\ pc[s] \in Locked => lock[req[s].d] = s
      BY <1>1 DEF CallsPlaced
  <2>1. req[s].d # NoOne => req[s].d \in Daemons \ {d}
      BY <1>t, <1>5, CallType
  <2> QED BY <1>3, <2>1 DEF IInv, CallsPlaced
<1>9. \A s \in Requests : pc[s] \in Locked => ~Holds(req[s].d)'
  <2> SUFFICES ASSUME NEW s \in Requests, pc[s] \in Locked
               PROVE  ~Holds(req[s].d)'
      OBVIOUS
  <2>1. req[s].d \in Daemons BY InProcess DEF Locked, Exchanging, Answers
  <2> QED BY <1>1, <1>3, <1>2, <1>5, <2>1 DEF Holds
<1>10. CopyCurrent' /\ IntentStillThere'
    BY <1>1, <1>9 DEF CopyCurrent, IntentStillThere, Locked, Holds
<1>11. TokensFresh' BY <1>1 DEF IInv, TokensFresh
<1>12. IntentMatchesStored' /\ UnresolvedIsFlagged' /\ QuarantineOnlyDamaged'
    BY <1>1 DEF IInv, IntentMatchesStored, UnresolvedIsFlagged,
                QuarantineOnlyDamaged
<1>13. VersionsName' /\ ReportsPlaced'
    BY <1>1 DEF IInv, VersionsName, ReportsPlaced
<1>14. GateKept' BY <1>3, <1>4 DEF GateKept, BootGate
<1> QED BY <1>6, <1>7, <1>8, <1>10, <1>11, <1>12, <1>13, <1>14 DEF IInv

\* A process dies, by crashing or because its boot failed: its calls go too.
LEMMA DiesKeeps ==
    ASSUME IInv, TypeOK', NEW d \in Daemons, Dies(d),
           UNCHANGED <<row, intent, epoch, incs, toks, presented, vouched>>,
           \A e \in Daemons \ {d} : lock'[e] = lock[e],
           \A s \in Requests :
              /\ req[s].d = d => pc'[s] = "idle" /\ req'[s] = NoCall
              /\ req[s].d # d => pc'[s] = pc[s] /\ req'[s] = req[s]
    PROVE  IInv'
<1>t. TypeOK BY DEF IInv
<1>1. /\ phase'[d] = "down" /\ mine'[d] = 0 /\ fencedOut'[d] = FALSE
      /\ \A e \in Daemons \ {d} :
            phase'[e] = phase[e] /\ mine'[e] = mine[e] /\ fencedOut'[e] = fencedOut[e]
    BY <1>t DEF Dies, TypeOK
<1>2. epoch \in Nat /\ \A e \in Daemons : mine[e] \in Nat
    BY <1>t, ConstantsAssumption DEF TypeOK
<1>3. ASSUME NEW s \in Requests
      PROVE  \/ /\ pc'[s] = "idle" /\ req'[s].d = NoOne
                /\ req'[s].inc = 0
             \/ pc'[s] = pc[s] /\ req'[s] = req[s] /\ req[s].d # d
    BY NoCallType
<1>4. EpochsApart'
  <2>1. \A e \in Daemons : mine'[e] <= epoch'
      BY <1>1, <1>2 DEF IInv, EpochsApart
  <2>2. \A e \in Daemons : phase'[e] = "down" <=> mine'[e] = 0
      BY <1>1 DEF IInv, EpochsApart
  <2>3. \A e \in Daemons : phase'[e] = "down" => ~fencedOut'[e]
      BY <1>1 DEF IInv, EpochsApart
  <2>4. \A e, f \in Daemons : mine'[e] = mine'[f] /\ mine'[e] > 0 => e = f
      BY <1>1, <1>2 DEF IInv, EpochsApart
  <2> QED BY <2>1, <2>2, <2>3, <2>4 DEF EpochsApart
<1>5. LatchIsFinal' BY <1>1 DEF IInv, LatchIsFinal
<1>6. CallsPlaced'
  <2> SUFFICES ASSUME NEW s \in Requests
               PROVE  /\ pc'[s] \in {"idle", "served"} <=> req'[s].d = NoOne
                      /\ req'[s].d # NoOne => phase'[req'[s].d] = "up"
                      /\ pc'[s] \in Locked => lock'[req'[s].d] = s
      BY DEF CallsPlaced
  <2>1. CASE pc'[s] = "idle" /\ req'[s].d = NoOne
      BY <2>1 DEF Locked, Exchanging, Answers
  <2>2. CASE pc'[s] = pc[s] /\ req'[s] = req[s] /\ req[s].d # d
    <3>1. req[s].d # NoOne => req[s].d \in Daemons \ {d}
        BY <1>t, <2>2, CallType
    <3>2. pc[s] \in Locked => req[s].d # NoOne
        BY DEF IInv, CallsPlaced, Locked, Exchanging, Answers
    <3> QED BY <1>1, <2>2, <3>1, <3>2 DEF IInv, CallsPlaced
  <2> QED BY <1>3, <2>1, <2>2
<1>7. \A s \in Requests :
         pc'[s] \in Locked => /\ pc[s] = pc'[s] /\ req'[s] = req[s]
                              /\ Holds(req[s].d)' => Holds(req[s].d)
  <2> SUFFICES ASSUME NEW s \in Requests, pc'[s] \in Locked
               PROVE  /\ pc[s] = pc'[s] /\ req'[s] = req[s]
                      /\ Holds(req[s].d)' => Holds(req[s].d)
      OBVIOUS
  <2>1. pc'[s] = pc[s] /\ req'[s] = req[s] /\ req[s].d # d
      BY <1>3 DEF Locked, Exchanging, Answers
  <2>2. req[s].d \in Daemons BY <2>1, InProcess DEF Locked, Exchanging, Answers
  <2> QED BY <1>1, <2>1, <2>2 DEF Holds
<1>8. CopyCurrent' /\ IntentStillThere'
    BY <1>7 DEF IInv, CopyCurrent, IntentStillThere, Locked
<1>9. TokensFresh' BY <1>3 DEF IInv, TokensFresh
<1>10. IntentMatchesStored' /\ UnresolvedIsFlagged' /\ QuarantineOnlyDamaged'
    BY DEF IInv, IntentMatchesStored, UnresolvedIsFlagged, QuarantineOnlyDamaged
<1>11. VersionsName'
  <2>1. incs \in Nat BY <1>t, ConstantsAssumption DEF TypeOK
  <2>2. row # None => row.inc # 0 BY <1>t, RowType, ConstantsAssumption
  <2> QED BY <1>3, <2>1, <2>2 DEF IInv, VersionsName
<1>12. ReportsPlaced' BY <1>3 DEF IInv, ReportsPlaced
<1>13. GateKept' BY <1>1 DEF IInv, GateKept, BootGate, Holds
<1> QED BY <1>4, <1>5, <1>6, <1>8, <1>9, <1>10, <1>11, <1>12, <1>13 DEF IInv

\* Boot reconciliation: the booting process has the lease, so no call of
\* another process can be relying on the row or on the intent.
LEMMA ReconcileKeeps ==
    ASSUME IInv, TypeOK', NEW d \in Daemons, NEW check \in CheckOutcomes,
           Reconcile(d, check), ~Dies(d)
    PROVE  IInv'
<1> USE DEF process
<1>t. TypeOK BY DEF IInv
<1>1. /\ UNCHANGED <<epoch, incs, toks, lock, pc, req, presented, mine, fencedOut>>
      /\ phase[d] = "boot"
      /\ phase' = phase \/ (phase' = [phase EXCEPT ![d] = "up"]
                             /\ (intent' = None \/ check = "transient"))
    BY DEF Reconcile, Serves
<1>2. \A e \in Daemons : \/ phase'[e] = phase[e]
                          \/ /\ e = d /\ phase'[e] = "up"
                             /\ (intent' = None \/ check = "transient")
    BY <1>t, <1>1 DEF TypeOK
<1>3. /\ RowKept /\ (row # None => row'.sound = row.sound)
      /\ vouched \subseteq vouched' /\ intent' \in {intent, None}
      /\ Flags'
      /\ (row' = row /\ intent' = intent) \/ Holds(d)
  <2>1. CASE row' = row
    <3>0. row # None /\ row.state = "active"
             => row' # [row EXCEPT !.state = "needs_reauth"]
        BY <1>t, <2>1, RowType DEF Row
    <3>1. \/ intent' = intent /\ vouched' = vouched
          \/ /\ intent' = None
             /\ \/ row # None => row.state # "active"
                \/ row.tok \in vouched'
        BY <2>1, <3>0 DEF Reconcile
    <3>2. Flags'
        BY <1>1, <2>1, <3>1 DEF IInv, Flags, UnresolvedIsFlagged,
                          IntentMatchesStored, QuarantineOnlyDamaged
    <3> QED BY <2>1, <3>2 DEF Reconcile, RowKept
  <2>2. CASE row' # row
    <3>1. /\ row # None /\ Holds(d) /\ intent' \in {intent, None}
          /\ vouched' = vouched
          /\ \/ row' = [row EXCEPT !.state = "corrupt"] /\ ~row.sound
             \/ row' = [row EXCEPT !.state = "needs_reauth"]
        BY <2>2 DEF Reconcile
    <3>2. row \in Row BY <1>t, <3>1, RowType
    <3>3. row' \in Row BY <3>1, <3>2 DEF Row, States
    <3>4. /\ row' # None /\ row'.tok = row.tok /\ row'.sound = row.sound
          /\ row'.version = row.version /\ row'.inc = row.inc
          /\ \/ row'.state = "corrupt" /\ ~row.sound
             \/ row'.state = "needs_reauth"
        BY <3>1, <3>2, <3>3, NoneAssumption DEF Row
    <3>5. Flags'
        BY <3>1, <3>4 DEF IInv, Flags, UnresolvedIsFlagged,
                          IntentMatchesStored, QuarantineOnlyDamaged
    <3> QED BY <3>1, <3>4, <3>5 DEF RowKept
  <2> QED BY <2>1, <2>2
<1>4. \A e : Holds(e)' <=> Holds(e) BY <1>1 DEF Holds
<1>5. EpochsApart' /\ LatchIsFinal'
  <2>1. \A e \in Daemons : phase'[e] = "down" <=> phase[e] = "down"
      BY <1>1, <1>2
  <2> QED BY <1>1, <2>1 DEF IInv, EpochsApart, LatchIsFinal
<1>6. CallsPlaced'
  <2>1. \A e \in Daemons : phase[e] = "up" => phase'[e] = "up" BY <1>2
  <2>2. \A s \in Requests : req[s].d \in Daemons \cup {NoOne} BY <1>t, CallType
  <2> QED BY <1>1, <2>1, <2>2 DEF IInv, CallsPlaced
<1>7. CopyCurrent' BY <1>1, <1>3, <1>4 DEF IInv, CopyCurrent, RowKept
<1>8. IntentStillThere'
  <2>1. CASE Holds(d)
    <3>1. \A s \in Requests : pc[s] \in Locked => ~Holds(req[s].d)
        BY <1>1, <2>1, WriterExcludes
    <3> QED BY <1>1, <1>4, <3>1 DEF IntentStillThere, Locked
  <2>2. CASE ~Holds(d)
      BY <1>1, <1>3, <1>4, <2>2 DEF IInv, IntentStillThere
  <2> QED BY <2>1, <2>2
<1>9. TokensFresh' BY <1>1, <1>3 DEF IInv, TokensFresh, RowKept
<1>10. IntentMatchesStored' /\ UnresolvedIsFlagged' /\ QuarantineOnlyDamaged'
    BY <1>3 DEF Flags
<1>11. VersionsName'
  <2>1. row' # None => /\ row # None /\ row'.inc = row.inc
                       /\ row'.version = row.version /\ row'.tok = row.tok
                       /\ row'.sound = row.sound
      BY <1>3 DEF RowKept
  <2> QED BY <1>1, <2>1 DEF IInv, VersionsName
<1>12. ReportsPlaced' BY <1>1 DEF IInv, ReportsPlaced
<1>13. GateKept'
  <2>1. ASSUME "transient" \notin CheckOutcomes, BootGate PROVE BootGate'
    <3>1. check # "transient" BY <2>1
    <3> QED BY <1>1, <1>2, <1>3, <1>4, <2>1, <3>1 DEF BootGate
  <2> QED BY <2>1 DEF IInv, GateKept
<1> QED BY <1>5, <1>6, <1>7, <1>8, <1>9, <1>10, <1>11, <1>12, <1>13 DEF IInv

\* Bytes going bad touch nothing the other conjuncts speak of.
LEMMA DamageKeeps ==
    ASSUME IInv, TypeOK', Damage
    PROVE  IInv'
<1>t. TypeOK BY DEF IInv
<1>1. /\ UNCHANGED <<intent, epoch, incs, toks, phase, mine, fencedOut, lock, pc, req,
                     presented, vouched>>
      /\ row # None /\ row.sound /\ row' = [row EXCEPT !.sound = FALSE]
    BY DEF Damage, process, history
<1>2. row \in Row BY <1>t, <1>1, RowType
<1>3. row' \in Row BY <1>1, <1>2 DEF Row
<1>4. /\ row' # None /\ row'.tok = row.tok /\ row'.version = row.version
      /\ row'.inc = row.inc /\ row'.sound = FALSE /\ row'.state = row.state
    BY <1>1, <1>2, <1>3, NoneAssumption DEF Row
<1>5. EpochsApart' /\ LatchIsFinal' /\ CallsPlaced' /\ ReportsPlaced'
    BY <1>1 DEF IInv, EpochsApart, LatchIsFinal, CallsPlaced, ReportsPlaced
<1>6. CopyCurrent' /\ TokensFresh'
    BY <1>1, <1>4 DEF IInv, CopyCurrent, TokensFresh, Holds
<1>7. IntentMatchesStored' /\ UnresolvedIsFlagged' /\ QuarantineOnlyDamaged'
    BY <1>1, <1>4 DEF IInv, IntentMatchesStored, UnresolvedIsFlagged,
                      QuarantineOnlyDamaged
<1>8. IntentStillThere' /\ GateKept'
    BY <1>1 DEF IInv, IntentStillThere, GateKept, BootGate, Holds
<1>9. VersionsName' BY <1>1, <1>4 DEF IInv, VersionsName
<1> QED BY <1>5, <1>6, <1>7, <1>8, <1>9 DEF IInv

-----------------------------------------------------------------------------
(* The theorems.                                                           *)

\* Every initial state satisfies the inductive invariant.
LEMMA InitInv == Init => IInv
<1> SUFFICES ASSUME Init PROVE IInv OBVIOUS
<1>1. TypeOK BY NoCallType, ConstantsAssumption DEF Init, TypeOK, Pcs
<1>2. \A r \in Requests : pc[r] = "idle" /\ req[r] = NoCall BY DEF Init
<1>3. EpochsApart /\ LatchIsFinal BY DEF Init, EpochsApart, LatchIsFinal
<1>4. CallsPlaced /\ CopyCurrent /\ IntentStillThere
    BY <1>2, NoCallType
    DEF CallsPlaced, CopyCurrent, IntentStillThere, Locked, Exchanging, Answers
<1>5. TokensFresh /\ ReportsPlaced BY <1>2 DEF Init, TokensFresh, ReportsPlaced
<1>6. IntentMatchesStored /\ UnresolvedIsFlagged /\ QuarantineOnlyDamaged
    BY DEF Init, IntentMatchesStored, UnresolvedIsFlagged, QuarantineOnlyDamaged
<1>7. VersionsName BY <1>2, NoCallType DEF Init, VersionsName
<1>8. GateKept BY DEF Init, GateKept, BootGate
<1> QED BY <1>1, <1>3, <1>4, <1>5, <1>6, <1>7, <1>8 DEF IInv

\* Every step of the system preserves it.
LEMMA NextInv ==
    ASSUME IInv, [Next]_vars
    PROVE  IInv'
<1>t. TypeOK' BY TypeOKStep
<1>0. CASE UNCHANGED vars
  <2>1. UNCHANGED <<row, intent, epoch, incs, toks, phase, mine, fencedOut, lock,
                    pc, req, presented, vouched>>
      BY <1>0 DEF vars
  <2>2. EpochsApart' /\ CallsPlaced' /\ CopyCurrent' /\ TokensFresh'
      BY <2>1 DEF IInv, EpochsApart, CallsPlaced, CopyCurrent, TokensFresh, Holds
  <2>3. /\ IntentMatchesStored' /\ UnresolvedIsFlagged' /\ IntentStillThere'
        /\ QuarantineOnlyDamaged'
      BY <2>1 DEF IInv, IntentMatchesStored, UnresolvedIsFlagged,
                  IntentStillThere, QuarantineOnlyDamaged, Holds
  <2>4. VersionsName' /\ ReportsPlaced' /\ GateKept' /\ LatchIsFinal'
      BY <2>1 DEF IInv, VersionsName, ReportsPlaced, GateKept, BootGate, Holds,
                  LatchIsFinal
  <2> QED BY <1>t, <2>2, <2>3, <2>4 DEF IInv
<1>1. ASSUME NEW r \in Requests, Step(r) PROVE IInv' BY <1>1, StepKeeps
<1>2. ASSUME NEW r \in Requests, NEW d \in Daemons,
             \/ Admit(r, d)
             \/ \E path \in ReportPaths : ReportAdmit(r, d, path)
      PROVE  IInv'
    BY <1>t, <1>2, AdmitKeeps
<1>3. ASSUME NEW d \in Daemons, AdminOp(d) PROVE IInv' BY <1>3, AdminKeeps
<1>4. ASSUME NEW d \in Daemons, NEW as \in {"boot", "cli"}, Open(d, as)
      PROVE  IInv'
    BY <1>t, <1>4, OpenKeeps
<1>5. ASSUME NEW d \in Daemons, NEW check \in CheckOutcomes, Reconcile(d, check)
      PROVE  IInv'
  <2>1. CASE Dies(d)
    <3>1. /\ phase[d] = "boot" /\ phase' # phase
          /\ UNCHANGED <<epoch, incs, toks, lock, pc, req, presented>>
      <4>1. phase[d] = "boot" /\ UNCHANGED <<epoch, incs, toks, lock, pc, req, presented>>
          BY <1>5 DEF Reconcile
      <4>2. phase'[d] = "down" BY <2>1 DEF Dies, IInv, TypeOK
      <4> QED BY <4>1, <4>2
    <3>2. ~Serves(d) /\ ~UNCHANGED process
      <4>1. phase'[d] = "down" BY <2>1 DEF Dies, IInv, TypeOK
      <4> QED BY <3>1, <4>1 DEF Serves, process, IInv, TypeOK
    <3>3. UNCHANGED <<row, intent, vouched>> BY <1>5, <3>2 DEF Reconcile
    <3>4. \A s \in Requests : req[s].d # d
        BY <3>1, ConstantsAssumption DEF IInv, CallsPlaced
    <3> QED BY <1>t, <2>1, <3>1, <3>3, <3>4, DiesKeeps
  <2>2. CASE ~Dies(d) BY <1>t, <1>5, <2>2, ReconcileKeeps
  <2> QED BY <2>1, <2>2
<1>6. ASSUME NEW d \in Daemons, Crash(d) PROVE IInv'
  <2>1. /\ Dies(d) /\ UNCHANGED <<row, intent, epoch, incs, toks, presented, vouched>>
        /\ \A e \in Daemons \ {d} : lock'[e] = lock[e]
      BY <1>6 DEF Crash, store, history, IInv, TypeOK
  <2>2. \A s \in Requests :
           /\ req[s].d = d => pc'[s] = "idle" /\ req'[s] = NoCall
           /\ req[s].d # d => pc'[s] = pc[s] /\ req'[s] = req[s]
      BY <1>6 DEF Crash
  <2> QED BY <1>t, <2>1, <2>2, DiesKeeps
<1>7. CASE Damage BY <1>t, <1>7, DamageKeeps
<1> QED BY <1>0, <1>1, <1>2, <1>3, <1>4, <1>5, <1>6, <1>7 DEF Next, AdminOp

\* IInv holds in every reachable state: the lease fence and the per-credential
\* lock together make the row read under the lock (engine.rs:356) still the
\* stored one when the exchange ends.
THEOREM Inductive == Spec => []IInv
<1>1. IInv /\ [Next]_vars => IInv' BY NextInv
<1> QED BY <1>1, InitInv, PTL DEF Spec

\* Type correctness, for every set of processes and calls and every bound.
THEOREM TypeCorrect == Spec => []TypeOK
<1>1. IInv => TypeOK BY DEF IInv
<1> QED BY <1>1, Inductive, PTL

\* An active row never silently holds a refresh token whose exchange was left
\* without an outcome (do_refresh, commit_refresh, clear_intent, reconcile_one).
THEOREM UnresolvedStaysFlagged == Spec => []UnresolvedIsFlagged
<1>1. IInv => UnresolvedIsFlagged BY DEF IInv
<1> QED BY <1>1, Inductive, PTL

\* No interleaving of the vault's writers leaves an intent beside a row that
\* carries another refresh token (the guard at engine.rs:726 is unreachable).
THEOREM IntentsMatch == Spec => []IntentMatchesStored
<1>1. IInv => IntentMatchesStored BY DEF IInv
<1> QED BY <1>1, Inductive, PTL

\* The verdict of an exchange lands on the token and the lifetime it was about,
\* although commit_refresh and invalidate_if_version_reported test only the
\* version number.
THEOREM VerdictsLand == Spec => []VerdictLandsOnItsToken
<1>1. IInv => VerdictLandsOnItsToken
    BY DEF IInv, CopyCurrent, VerdictLandsOnItsToken, Exchanging
<1> QED BY <1>1, Inductive, PTL

\* Only bytes that do not open are ever quarantined: the version check of
\* quarantine_in_incarnation is enough against replacement and re-creation.
THEOREM QuarantineIsJust == Spec => []QuarantineOnlyDamaged
<1>1. IInv => QuarantineOnlyDamaged BY DEF IInv
<1> QED BY <1>1, Inductive, PTL

\* The fenced_out latch is only ever set in a process whose epoch is past.
THEOREM LatchStaysFinal == Spec => []LatchIsFinal
<1>1. IInv => LatchIsFinal BY DEF IInv
<1> QED BY <1>1, Inductive, PTL

\* Without a transient answer at boot, a serving process with the lease finds
\* no intent but its own (the gate of build_surface).
THEOREM GateHolds ==
    ASSUME "transient" \notin CheckOutcomes
    PROVE  Spec => []BootGate
<1>1. IInv => BootGate BY DEF IInv, GateKept
<1> QED BY <1>1, Inductive, PTL

\* Reports addressed by handle only ever reach the token the consumer was
\* served (report_auth_failure with resolve_handle_with_incarnation).
THEOREM HandleReportsHit ==
    ASSUME "scoped" \notin ReportPaths
    PROVE  Spec => []ReportHitsServedToken
<1>1. IInv => ReportHitsServedToken
    BY DEF IInv, VersionsName, ReportsPlaced, ReportHitsServedToken, Remembers
<1> QED BY <1>1, Inductive, PTL

\* The only step that sends a token is open_intent, and in a vault whose reports
\* mark stale it cannot meet a token with an unknown outcome.
LEMMA NoBlindStep ==
    ASSUME IdRefreshable, IInv, Next, NEW r \in Requests,
           pc[r] # "calling", pc'[r] = "calling"
    PROVE  req[r].tok \notin presented \ vouched
<1> USE DEF store, process, history
<1>t. TypeOK BY DEF IInv
<1>1. ASSUME NEW s \in Requests, Step(s)
      PROVE  req[r].tok \notin presented \ vouched
  <2>1. s = r BY <1>1, StepFrame
  <2>2. pc[r] = "rechecked"
      BY <1>1, <2>1, OwnCall DEF Own, Exchanging
  <2>3. OpenIntent(r)
    <3>1. ASSUME Refused(r) \/ Return(r) PROVE FALSE
        BY <1>t, <3>1, ReturnFrame DEF Refused
    <3>2. \A v, t : ~Serve(r, v, t) BY <1>t, ServeFrame
    <3>3. ~Goto(r, "reread") BY <1>t DEF Goto, TypeOK
    <3> QED BY <1>1, <2>1, <2>2, <3>1, <3>2, <3>3
            DEF Step, Snapshot, CheckIntent, Acquire, FailOnIntent, ServeLocked,
                LatchStale, Answer, Commit, ClearAfterError, GrantRefused,
                StorageFails, Reread, Quarantine, Forget, ReportApply, Answers
  <2>4. ~Refused(r) BY <1>t, ReturnFrame DEF Refused
  <2>5. intent = None /\ Holds(req[r].d) BY <2>3, <2>4 DEF OpenIntent
  <2> QED BY <2>2, <2>5 DEF IInv, IntentStillThere
<1>2. ASSUME NEW s \in Requests, NEW d \in Daemons, Admit(s, d) PROVE FALSE
    BY <1>t, <1>2 DEF Admit, Goto, TypeOK
<1>3. ASSUME NEW s \in Requests, NEW d \in Daemons, NEW path \in ReportPaths,
             ReportAdmit(s, d, path)
      PROVE  FALSE
    BY <1>t, <1>3 DEF ReportAdmit, Goto, TypeOK
<1>4. ASSUME NEW d \in Daemons, AdminOp(d) PROVE FALSE
  <2>1. pc' = pc
      BY <1>4 DEF AdminOp, AdminRefused, Create, Replace, SetIdentity, Invalidate,
                  Retire, Reactivate, Remove, Admin
  <2> QED BY <2>1
<1>5. ASSUME NEW d \in Daemons, NEW as \in {"boot", "cli"}, Open(d, as) PROVE FALSE
    BY <1>5 DEF Open
<1>6. ASSUME NEW d \in Daemons, NEW check \in CheckOutcomes, Reconcile(d, check)
      PROVE  FALSE
    BY <1>6 DEF Reconcile
<1>7. ASSUME NEW d \in Daemons, Crash(d) PROVE FALSE BY <1>7 DEF Crash
<1>8. CASE Damage BY <1>8 DEF Damage
<1> QED BY <1>1, <1>2, <1>3, <1>4, <1>5, <1>6, <1>7, <1>8 DEF Next

\* A refresh token whose last exchange has no known outcome is never presented
\* again, across every crash, lease handover, failed commit, report and admin
\* operation, in a vault whose reports mark stale (default_refresh_adapter).
THEOREM NeverReusedBlindly ==
    ASSUME IdRefreshable
    PROVE  Spec => NoBlindReuse
<1>1. IInv /\ [Next]_vars =>
         [\A r \in Requests :
            pc[r] # "calling" /\ pc'[r] = "calling"
               => req[r].tok \notin presented \ vouched]_vars
  <2> SUFFICES ASSUME IInv, Next, NEW r \in Requests,
                      pc[r] # "calling", pc'[r] = "calling"
               PROVE  req[r].tok \notin presented \ vouched
      OBVIOUS
  <2> QED BY NoBlindStep
<1> QED BY <1>1, Inductive, PTL DEF Spec, NoBlindReuse

-----------------------------------------------------------------------------
(* The lock is never orphaned.                                             *)

\* What a step of call r may do to the locks: one may pass to r, which is then
\* at a place where it holds it, and those of r may fall.
LocksPass(r) ==
    \A d \in Daemons :
       /\ lock'[d] = lock[d] \/ lock'[d] = NoOne \/ lock'[d] = r
       /\ lock'[d] = r => req'[r].d = d /\ pc'[r] \in Holding

\* A call that returns holds nothing.
LEMMA ReturnUnlocks ==
    ASSUME TypeOK, NEW r \in Requests, Return(r)
    PROVE  LocksPass(r)
BY ConstantsAssumption DEF Return, Free, LocksPass, TypeOK

\* A call that was served holds nothing.
LEMMA ServeUnlocks ==
    ASSUME TypeOK, NEW r \in Requests, NEW v, NEW t, Serve(r, v, t)
    PROVE  LocksPass(r)
BY ConstantsAssumption DEF Serve, Free, LocksPass, TypeOK

\* A call that goes on without releasing anything stays where it may hold.
LEMMA KeepsLocks ==
    ASSUME TypeOK, LockHasOwner, NEW r \in Requests, UNCHANGED lock,
           pc[r] \in Holding => pc'[r] \in Holding /\ req'[r].d = req[r].d
    PROVE  LocksPass(r)
BY DEF LocksPass, LockHasOwner, TypeOK

\* Every step of a call passes the lock on as LocksPass says.
LEMMA StepLocks ==
    ASSUME IInv, LockHasOwner, NEW r \in Requests, Step(r)
    PROVE  LocksPass(r)
<1>0. TypeOK BY DEF IInv
<1>h. Holding = {"rechecked", "reread", "damaged", "calling"} \cup Answers
    BY DEF Holding, Exchanging
<1>a. Answers \cap {"admitted", "snapped", "waiting", "rechecked", "reread",
                    "damaged", "reporting"} = {}
    BY DEF Answers
<1>c. req[r] \in Call BY <1>0 DEF TypeOK
<1>r. CASE Refused(r) BY <1>0, <1>r, ReturnUnlocks DEF Refused
<1>d. ASSUME ReadDamaged(r) PROVE pc'[r] = "damaged" /\ req'[r].d = req[r].d
  <2>1. pc'[r] = "damaged" /\ req'[r] = CallOf(req[r].d, req[r].inc, row.version, 0)
      BY <1>0, <1>d DEF ReadDamaged, Goto, TypeOK
  <2> QED BY <2>1 DEF CallOf
<1>1. CASE Snapshot(r)
  <2>1. CASE UNCHANGED lock BY <1>0, <1>1, <1>h, <1>a, <2>1, KeepsLocks DEF Snapshot
  <2>2. CASE ReadFails(r) BY <1>0, <2>2, ReturnUnlocks DEF ReadFails
  <2> QED BY <1>1, <2>1, <2>2 DEF Snapshot
<1>2. CASE CheckIntent(r)
  <2>1. CASE UNCHANGED lock
      BY <1>0, <1>2, <1>h, <1>a, <2>1, KeepsLocks DEF CheckIntent
  <2>2. CASE Serve(r, req[r].ver, req[r].tok) BY <1>0, <2>2, ServeUnlocks
  <2> QED BY <1>2, <2>1, <2>2 DEF CheckIntent
<1>3. CASE Acquire(r)
  <2>1. ASSUME lock' = [lock EXCEPT ![req[r].d] = r],
               pc'[r] \in Holding, req'[r].d = req[r].d
        PROVE  LocksPass(r)
    <3>1. pc[r] \notin Holding BY <1>3, <1>h, <1>a DEF Acquire
    <3>2. ASSUME NEW d \in Daemons PROVE lock[d] # r BY <3>1 DEF LockHasOwner
    <3> QED BY <1>0, <2>1, <3>2 DEF LocksPass, TypeOK
  <2>2. CASE /\ Readable(r) /\ Goto(r, "rechecked")
             /\ req' = [req EXCEPT ![r] = Copied(r)]
             /\ lock' = [lock EXCEPT ![req[r].d] = r]
    <3>1. pc'[r] \in Holding BY <1>0, <1>h, <2>2 DEF Goto, TypeOK
    <3>2. req'[r].d = req[r].d BY <1>0, <2>2, CopiedType DEF Readable, TypeOK
    <3> QED BY <2>1, <2>2, <3>1, <3>2
  <2>3. CASE ReadDamaged(r) /\ lock' = [lock EXCEPT ![req[r].d] = r]
      BY <1>d, <1>h, <2>1, <2>3
  <2>4. CASE ReadFails(r) BY <1>0, <2>4, ReturnUnlocks DEF ReadFails
  <2> QED BY <1>3, <2>2, <2>3, <2>4 DEF Acquire
<1>4. CASE FailOnIntent(r) \/ StorageFails(r) \/ Forget(r)
    BY <1>0, <1>4, ReturnUnlocks DEF FailOnIntent, StorageFails, Forget
<1>5. CASE ServeLocked(r) BY <1>0, <1>5, ServeUnlocks DEF ServeLocked
<1>6. CASE LatchStale(r)
  <2>1. CASE ~Refused(r)
    <3>1. pc'[r] = "reread" /\ req' = req /\ lock' = lock
        BY <1>0, <1>6, <2>1 DEF LatchStale, Goto, TypeOK
    <3> QED BY <1>0, <1>h, <3>1, KeepsLocks
  <2> QED BY <1>r, <2>1
<1>7. CASE OpenIntent(r)
  <2>1. CASE ~Refused(r)
    <3>1. /\ pc'[r] = "calling" /\ lock' = lock
          /\ req'[r] = CallOf(req[r].d, req[r].inc, req[r].ver, req[r].tok)
        BY <1>0, <1>7, <2>1 DEF OpenIntent, Goto, TypeOK
    <3>2. req'[r].d = req[r].d BY <3>1 DEF CallOf
    <3> QED BY <1>0, <1>h, <3>1, <3>2, KeepsLocks
  <2> QED BY <1>r, <2>1
<1>8. ASSUME NEW a \in Answers, Answer(r, a) PROVE LocksPass(r)
  <2>1. pc'[r] = a /\ lock' = lock BY <1>0, <1>8 DEF Answer, Goto, TypeOK
  <2>2. CASE a = "ok"
    <3>1. req'[r] = [req[r] EXCEPT !.new = toks + 1]
        BY <1>0, <1>8, <2>2 DEF Answer, TypeOK
    <3>2. req'[r].d = req[r].d BY <1>c, <3>1 DEF Call
    <3> QED BY <1>0, <1>h, <2>1, <3>2, KeepsLocks
  <2>3. CASE a # "ok"
    <3>1. req' = req BY <1>8, <2>3 DEF Answer
    <3> QED BY <1>0, <1>h, <2>1, <3>1, KeepsLocks
  <2> QED BY <2>2, <2>3
<1>9. CASE Commit(r)
  <2>1. CASE Goto(r, "reread") /\ UNCHANGED <<lock, req>>
    <3>1. pc'[r] = "reread" /\ req' = req /\ lock' = lock
        BY <1>0, <2>1 DEF Goto, TypeOK
    <3> QED BY <1>0, <1>h, <3>1, KeepsLocks
  <2>2. CASE Return(r) BY <1>0, <2>2, ReturnUnlocks
  <2> QED BY <1>9, <1>r, <2>1, <2>2 DEF Commit
<1>10. CASE ClearAfterError(r) \/ GrantRefused(r) \/ Quarantine(r) \/ ReportApply(r)
  <2>1. Return(r) \/ Refused(r)
      BY <1>10 DEF ClearAfterError, GrantRefused, Quarantine, ReportApply
  <2> QED BY <1>0, <1>r, <2>1, ReturnUnlocks
<1>11. CASE Reread(r)
  <2>1. CASE Serve(r, row.version, row.tok) BY <1>0, <2>1, ServeUnlocks
  <2>2. CASE ReadDamaged(r) /\ UNCHANGED lock BY <1>0, <1>d, <1>h, <2>2, KeepsLocks
  <2>3. CASE ReadFails(r) BY <1>0, <2>3, ReturnUnlocks DEF ReadFails
  <2> QED BY <1>11, <2>1, <2>2, <2>3 DEF Reread
<1> QED BY <1>1, <1>2, <1>3, <1>4, <1>5, <1>6, <1>7, <1>8, <1>9, <1>10, <1>11 DEF Step

\* No call waits for a lock that nobody will release: its owner is a call of
\* the same process on its way to its return (engine.rs:354).  With the fairness
\* of the owner's steps this is why every call returns.
THEOREM LocksAreOwned == Spec => []LockHasOwner
<1>1. Init => LockHasOwner
    BY ConstantsAssumption DEF Init, LockHasOwner
<1>2. ASSUME IInv, LockHasOwner, [Next]_vars PROVE LockHasOwner'
  <2>0. TypeOK BY <1>2 DEF IInv
  <2>1. ASSUME NEW r \in Requests, Step(r) PROVE LockHasOwner'
    <3>1. LocksPass(r) BY <1>2, <2>1, StepLocks
    <3>2. \A s \in Requests \ {r} : pc'[s] = pc[s] /\ req'[s] = req[s]
        BY <1>2, <2>1, StepFrame
    <3> QED BY <1>2, <3>1, <3>2, ConstantsAssumption DEF LocksPass, LockHasOwner
  <2>2. ASSUME NEW r \in Requests, pc[r] \in {"idle", "served"}, UNCHANGED lock,
               \A s \in Requests \ {r} : pc'[s] = pc[s] /\ req'[s] = req[s]
        PROVE  LockHasOwner'
    <3>1. pc[r] \notin Holding BY <2>2 DEF Holding, Exchanging, Answers
    <3> QED BY <1>2, <2>2, <3>1 DEF LockHasOwner
  <2>3. ASSUME NEW r \in Requests, NEW d \in Daemons, Admit(r, d) PROVE LockHasOwner'
      BY <2>0, <2>2, <2>3 DEF Admit, Goto, TypeOK
  <2>4. ASSUME NEW r \in Requests, NEW d \in Daemons, NEW path \in ReportPaths,
               ReportAdmit(r, d, path)
        PROVE  LockHasOwner'
      BY <2>0, <2>2, <2>4 DEF ReportAdmit, Goto, TypeOK
  <2>5. CASE UNCHANGED <<lock, pc, req>> BY <1>2, <2>5 DEF LockHasOwner
  <2>6. ASSUME NEW d \in Daemons, AdminOp(d) PROVE UNCHANGED <<lock, pc, req>>
    <3>1. CASE AdminRefused(d) BY <3>1 DEF AdminRefused
    <3>2. CASE Admin(d) BY <3>2 DEF Admin
    <3>3. ASSUME NEW f \in BOOLEAN, Create(d, f) \/ Replace(d, f) PROVE Admin(d)
        BY <3>3 DEF Create, Replace
    <3>4. CASE SetIdentity(d) \/ Invalidate(d) \/ Retire(d) BY <3>2, <3>4
        DEF SetIdentity, Invalidate, Retire
    <3>5. CASE Reactivate(d) \/ Remove(d) BY <3>2, <3>5 DEF Reactivate, Remove
    <3> QED BY <2>6, <3>1, <3>2, <3>3, <3>4, <3>5 DEF AdminOp
  <2>7. ASSUME NEW d \in Daemons, Crash(d) PROVE LockHasOwner'
    <3>1. /\ lock' = [lock EXCEPT ![d] = NoOne]
          /\ \A s \in Requests : req[s].d # d => pc'[s] = pc[s] /\ req'[s] = req[s]
        BY <2>7 DEF Crash
    <3>2. ASSUME NEW e \in Daemons, NEW s \in Requests, lock'[e] = s
          PROVE  req'[s].d = e /\ pc'[s] \in Holding
      <4>1. e # d /\ lock[e] = s BY <2>0, <3>1, <3>2, ConstantsAssumption DEF TypeOK
      <4> QED BY <1>2, <3>1, <4>1 DEF LockHasOwner
    <3> QED BY <3>2 DEF LockHasOwner
  <2> QED BY <1>2, <2>1, <2>3, <2>4, <2>5, <2>6, <2>7
          DEF Next, Open, Reconcile, Damage, vars
<1> QED BY <1>1, <1>2, Inductive, PTL DEF Spec

=============================================================================
