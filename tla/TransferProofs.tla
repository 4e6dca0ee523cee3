--------------------------- MODULE TransferProofs ---------------------------
(***************************************************************************)
(* What holds of Transfer for any number of deliveries, accepts, transfers *)
(* and keys, and for every cap: types, the bound of the queue, that only   *)
(* what opens is written, and that it implements TransferLife.             *)
(***************************************************************************)
EXTENDS Transfer, FiniteSetTheorems, TLAPS

\* Ids are minted in order, and whatever names a transfer names a sealed one.
Minted == \A t \in Ids : t > lastId => sealed[t] = None
RowsSealed == \A t \in Ids : out[t] # None \/ inc[t] # None => sealed[t] # None
CallsSealed ==
    \A c \in Calls : calls[c].at # "idle" =>
        calls[c].t \in Ids /\ sealed[calls[c].t] # None

\* An accept is of a transfer that queued; one that has opened it did so with the
\* key the envelope is sealed to, and while the row is pending that key has not been
\* retired: `init --replace` rejects every pending row, and a decided id never queues
\* again.
AcceptOK(plan) ==
    /\ sealed[plan.t] # None /\ inc[plan.t] # None
    /\ plan.at = "opened" =>
        /\ plan.own = sealed[plan.t].to
        /\ inc[plan.t] = "pending" => plan.own >= replaced
AcceptsOK == \A a \in Accepts : accepting[a] # None => AcceptOK(accepting[a])
ReplacedOK == replaced <= key[Receiver].gen

IInv == /\ TypeOK /\ Minted /\ RowsSealed /\ CallsSealed /\ AcceptsOK
        /\ ReplacedOK /\ QueueBounded

\* What a step that neither seals nor writes may do to the rows of the receiver.
EndsPending(t) == inc[t] = "pending" /\ inc'[t] \in {"rejected", "expired"}
Queues(t) == inc[t] = None /\ inc'[t] = "pending" /\ sealed[t] # None
Quiet ==
    /\ UNCHANGED <<sealed, written>>
    /\ inc' \in [Ids -> Incoming \cup {None}]
    /\ \A t \in Ids : inc'[t] # inc[t] => EndsPending(t) \/ Queues(t)

-----------------------------------------------------------------------------
(* Constants, records and the queue.                                       *)

LEMMA Bounds ==
    /\ MaxId \in Nat /\ MaxKeys \in Nat /\ MaxKeys >= 2 /\ Cap \in Nat /\ Cap >= 1
    /\ 1 \in Gens /\ \A g \in Gens : g \in Nat /\ g >= 1 /\ g <= MaxKeys - 1
    /\ \A t \in Ids : t \in Nat /\ t >= 1 /\ t <= MaxId
BY ConstantsAssumption DEF Gens, Ids

LEMMA NoneApart ==
    /\ None # "pending" /\ None # "abandoned" /\ None # "accepted"
    /\ None # "rejected" /\ None # "expired"
    /\ None \notin Envelope /\ None \notin AcceptPlan
BY NoneAssumption DEF Incoming, Decided

LEMMA PendingFinite ==
    ASSUME NEW rows
    PROVE  IsFiniteSet(Pending(rows)) /\ Cardinality(Pending(rows)) \in Nat
<1>1. IsFiniteSet(Ids)
  BY Bounds, FS_Interval DEF Ids
<1>2. Pending(rows) \subseteq Ids
  BY DEF Pending
<1> QED
  BY <1>1, <1>2, FS_Subset, FS_CardinalityType

\* A step that queues nothing keeps the bound.
LEMMA QueueShrinks ==
    ASSUME QueueBounded, \A t \in Ids : inc'[t] = "pending" => inc[t] = "pending"
    PROVE  QueueBounded'
<1>1. Pending(inc)' \subseteq Pending(inc)
  BY DEF Pending
<1>2. Cardinality(Pending(inc)') <= Cardinality(Pending(inc))
  BY <1>1, PendingFinite, FS_Subset
<1>3. Cardinality(Pending(inc)') \in Nat /\ Cardinality(Pending(inc)) \in Nat
  <2>1. Pending(inc)' = Pending(inc') BY DEF Pending
  <2> QED BY <2>1, PendingFinite
<1> QED
  BY <1>2, <1>3, Bounds DEF QueueBounded

LEMMA CallFacts ==
    ASSUME TypeOK, NEW c \in Calls
    PROVE  /\ calls[c] \in Call /\ Idle \in Call
           /\ calls[c].seen \in Gens \cup {0} /\ calls[c].t \in 0..MaxId
           /\ calls[c].waits \in BOOLEAN
BY Bounds DEF TypeOK, Call, Idle

\* An answer goes back on the call it belongs to, or to nobody.
LEMMA AnsweredSealed ==
    ASSUME IInv, NEW c \in Calls, calls[c].at # "idle", NEW reply,
           calls' = Answered(c, reply), sealed' = sealed
    PROVE  calls' \in [Calls -> Call] /\ CallsSealed'
<1>1. calls[c] \in Call /\ Idle \in Call /\ calls \in [Calls -> Call]
  BY CallFacts DEF IInv, TypeOK
<1>2. CASE calls[c].waits
  <2> DEFINE x == [calls[c] EXCEPT !.at = "answered", !.seen = 0, !.keep = KeepsRow(reply)]
  <2>1. calls' = [calls EXCEPT ![c] = x]
    BY <1>1, <1>2 DEF Answered
  <2>2. KeepsRow(reply) \in BOOLEAN
    BY DEF KeepsRow
  <2>3. x \in Call /\ x.t = calls[c].t
    BY <1>1, <2>2 DEF Call
  <2> QED
    BY <1>1, <2>1, <2>3 DEF CallsSealed, IInv
<1>3. CASE ~calls[c].waits
  <2>1. calls' = [calls EXCEPT ![c] = Idle]
    BY <1>3 DEF Answered
  <2> QED
    BY <1>1, <2>1 DEF CallsSealed, IInv, Idle
<1> QED
  BY <1>2, <1>3

LEMMA OnwardSealed ==
    ASSUME IInv, NEW c \in Calls, calls[c].at # "idle",
           NEW at \in {"looked", "opened"}, NEW seen \in Gens \cup {0},
           calls' = Onward(c, at, seen), sealed' = sealed
    PROVE  calls' \in [Calls -> Call] /\ CallsSealed'
<1> DEFINE x == [calls[c] EXCEPT !.at = at, !.seen = seen]
<1>1. calls[c] \in Call /\ calls \in [Calls -> Call]
  BY CallFacts DEF IInv, TypeOK
<1>2. x \in Call /\ x.t = calls[c].t
  BY <1>1 DEF Call
<1> QED
  BY <1>1, <1>2 DEF Onward, CallsSealed, IInv

\* A quiet step that replaces no key leaves the accepts that go on as they are: a
\* row one of them names is pending afterwards only if it was before.
LEMMA AcceptsKept ==
    ASSUME IInv, Quiet, replaced' = replaced,
           \A a \in Accepts : accepting'[a] # None => accepting'[a] = accepting[a]
    PROVE  AcceptsOK'
<1> SUFFICES ASSUME NEW a \in Accepts, accepting'[a] # None
             PROVE  AcceptOK(accepting[a])'
  BY DEF AcceptsOK
<1> DEFINE plan == accepting[a]
<1>1. accepting'[a] = plan /\ plan \in AcceptPlan /\ plan.t \in Ids /\ AcceptOK(plan)
  BY DEF IInv, TypeOK, AcceptsOK, AcceptPlan
<1>2. inc'[plan.t] # None /\ (inc'[plan.t] = "pending" => inc[plan.t] = "pending")
  BY <1>1, NoneApart DEF AcceptOK, Quiet, EndsPending, Queues
<1> QED
  BY <1>1, <1>2 DEF AcceptOK, Quiet

\* A quiet step that queues nothing and leaves the sender's table and the
\* accepts alone.
LEMMA QuietKeeps ==
    ASSUME IInv, Quiet, QueueBounded', UNCHANGED <<key, lastId, accepting, replaced>>,
           out' \in [Ids -> {None, "pending", "abandoned"}],
           \A t \in Ids : out'[t] # None => out[t] # None,
           calls' \in [Calls -> Call], CallsSealed'
    PROVE  IInv'
<1>1. TypeOK'
  BY DEF IInv, TypeOK, Quiet
<1>2. RowsSealed'
  BY NoneApart DEF IInv, RowsSealed, Quiet, EndsPending, Queues
<1>3. AcceptsOK'
  BY AcceptsKept
<1> QED
  BY <1>1, <1>2, <1>3 DEF IInv, Minted, ReplacedOK, Quiet

-----------------------------------------------------------------------------
(* The sender's actions.                                                   *)

LEMMA SameRowsQuiet ==
    ASSUME IInv, UNCHANGED <<sealed, written, inc>>
    PROVE  Quiet /\ QueueBounded'
BY QueueShrinks DEF IInv, TypeOK, Quiet, QueueBounded

LEMMA ExpireStep ==
    ASSUME IInv, NEW old \in SUBSET Ids, Expire(old)
    PROVE  IInv' /\ Quiet
<1>1. Quiet /\ QueueBounded'
  BY SameRowsQuiet DEF Expire, recvVars
<1>2. /\ out' \in [Ids -> {None, "pending", "abandoned"}]
      /\ \A t \in Ids : out'[t] # None => out[t] # None
  BY DEF Expire, SweptOut, IInv, TypeOK
<1>3. calls' \in [Calls -> Call] /\ CallsSealed'
  BY DEF Expire, IInv, TypeOK, CallsSealed
<1> QED
  BY <1>1, <1>2, <1>3, QuietKeeps DEF Expire, recvVars

LEMMA SendStep ==
    ASSUME IInv, NEW c \in Calls, NEW from \in 1..key[Sender].gen,
           NEW to \in Announced(Receiver), Send(c, from, to)
    PROVE  IInv' /\ Abstract!Seal(lastId + 1)
<1> DEFINE t == lastId + 1
           e == [from |-> from, to |-> to]
           x == [calls[c] EXCEPT !.at = "sent", !.t = t, !.waits = TRUE]
<1>1. /\ calls[c] = Idle /\ lastId < MaxId /\ lastId' = t
      /\ sealed' = [sealed EXCEPT ![t] = e]
      /\ out' = [out EXCEPT ![t] = "pending"]
      /\ calls' = [calls EXCEPT ![c] = x]
      /\ UNCHANGED <<key, inc, accepting, written, replaced>>
  BY DEF Send, recvVars
<1>2. t \in Ids /\ lastId \in Nat /\ t > lastId
  BY <1>1, Bounds DEF IInv, TypeOK, Ids
<1>3. e \in Envelope /\ e # None
  <2>1. key[Sender].gen \in Gens /\ key[Receiver].gen \in Gens
    BY DEF IInv, TypeOK, Vaults
  <2>2. to \in Gens /\ from \in Gens
    BY <2>1, Bounds DEF Announced, Gens
  <2> QED
    BY <2>1, <2>2, NoneApart DEF Envelope
<1>4. x \in Call /\ x.t = t
  <2>1. calls[c] \in Call BY CallFacts DEF IInv
  <2>2. t \in 0..MaxId BY <1>2, Bounds DEF Ids
  <2> QED BY <2>1, <2>2 DEF Call
<1>5. sealed[t] = None /\ inc[t] = None /\ inc'[t] = None
  BY <1>1, <1>2 DEF IInv, Minted, RowsSealed
<1> HIDE DEF e, x
<1>6. TypeOK'
  BY <1>1, <1>2, <1>3, <1>4 DEF IInv, TypeOK, Ids
<1>7. sealed'[t] # None /\ \A u \in Ids : u # t => sealed'[u] = sealed[u]
  BY <1>1, <1>2, <1>3 DEF IInv, TypeOK
<1>8. Minted'
  BY <1>1, <1>2, <1>7, Bounds DEF IInv, Minted
<1>9. RowsSealed'
  BY <1>1, <1>2, <1>7 DEF IInv, RowsSealed, TypeOK
<1>10. CallsSealed'
  BY <1>1, <1>2, <1>4, <1>7 DEF IInv, CallsSealed, TypeOK
<1>11. AcceptsOK' /\ ReplacedOK'
  <2>1. ASSUME NEW a \in Accepts, accepting'[a] # None
        PROVE  AcceptOK(accepting[a])'
    <3>1. accepting'[a] = accepting[a] /\ accepting[a].t \in Ids /\ AcceptOK(accepting[a])
      BY <1>1, <2>1 DEF IInv, TypeOK, AcceptsOK, AcceptPlan
    <3>2. accepting[a].t # t
      BY <1>5, <3>1 DEF AcceptOK
    <3> QED
      BY <1>1, <1>7, <3>1, <3>2 DEF AcceptOK
  <2> QED
    BY <1>1, <2>1 DEF AcceptsOK, ReplacedOK, IInv
<1>12. QueueBounded'
  BY <1>1, QueueShrinks DEF IInv
<1>13. life' = [life EXCEPT ![t] = "sealed"] /\ life[t] = "unsealed"
  <2>1. life[t] = "unsealed" /\ life'[t] = "sealed"
    BY <1>2, <1>5, <1>7 DEF life
  <2>2. \A u \in Ids : u # t => life'[u] = life[u]
    BY <1>1, <1>7 DEF life
  <2> QED
    BY <1>2, <2>1, <2>2 DEF life
<1> QED
  BY <1>1, <1>6, <1>8, <1>9, <1>10, <1>11, <1>12, <1>13 DEF IInv, Abstract!Seal

\* A step that moves a call and nothing else.
LEMMA OnlyCalls ==
    ASSUME IInv, UNCHANGED <<key, sendVars, recvVars>>,
           calls' \in [Calls -> Call], CallsSealed'
    PROVE  IInv' /\ Quiet
<1>1. Quiet /\ QueueBounded'
  BY SameRowsQuiet DEF sendVars, recvVars
<1>2. /\ out' \in [Ids -> {None, "pending", "abandoned"}]
      /\ \A t \in Ids : out'[t] # None => out[t] # None
  BY DEF sendVars, IInv, TypeOK
<1> QED
  BY <1>1, <1>2, QuietKeeps DEF sendVars, recvVars

LEMMA ResumeStep ==
    ASSUME IInv, NEW c \in Calls, NEW t \in Ids, Resume(c, t)
    PROVE  IInv' /\ Quiet
<1> DEFINE x == [calls[c] EXCEPT !.at = "sent", !.t = t, !.waits = TRUE]
<1>1. calls' = [calls EXCEPT ![c] = x] /\ UNCHANGED <<key, recvVars, sendVars>>
  BY DEF Resume
<1>2. x \in Call /\ x.t = t
  <2>1. calls[c] \in Call BY CallFacts DEF IInv
  <2>2. t \in 0..MaxId BY Bounds DEF Ids
  <2> QED BY <2>1, <2>2 DEF Call
<1>3. sealed[t] # None
  BY NoneApart DEF Resume, IInv, RowsSealed
<1> HIDE DEF x
<1>4. calls' \in [Calls -> Call] /\ CallsSealed'
  BY <1>1, <1>2, <1>3 DEF IInv, TypeOK, CallsSealed, sendVars
<1> QED
  BY <1>1, <1>4, OnlyCalls

LEMMA SettleStep ==
    ASSUME IInv, NEW c \in Calls, Settle(c)
    PROVE  IInv' /\ Quiet
<1>1. Quiet /\ QueueBounded'
  BY SameRowsQuiet DEF Settle, recvVars
<1>2. /\ out' \in [Ids -> {None, "pending", "abandoned"}]
      /\ \A t \in Ids : out'[t] # None => out[t] # None
  <2>1. calls[c].t \in Ids
    BY DEF Settle, IInv, CallsSealed
  <2> QED
    BY <2>1 DEF Settle, IInv, TypeOK
<1>3. calls' \in [Calls -> Call] /\ CallsSealed'
  <2>1. calls' = [calls EXCEPT ![c] = Idle] /\ sealed' = sealed
    BY DEF Settle
  <2>2. Idle \in Call /\ Idle.at = "idle"
    BY CallFacts DEF Idle, IInv
  <2> QED
    BY <2>1, <2>2 DEF IInv, TypeOK, CallsSealed
<1> QED
  BY <1>1, <1>2, <1>3, QuietKeeps DEF Settle, recvVars

LEMMA GiveUpStep ==
    ASSUME IInv, NEW c \in Calls, GiveUp(c)
    PROVE  IInv' /\ Quiet
<1> DEFINE x == [calls[c] EXCEPT !.waits = FALSE]
<1>1. calls' = [calls EXCEPT ![c] = x] /\ UNCHANGED <<key, recvVars, sendVars>>
  BY DEF GiveUp
<1>2. x \in Call /\ x.t = calls[c].t /\ x.at = calls[c].at
  BY CallFacts DEF IInv, Call
<1> HIDE DEF x
<1>3. calls' \in [Calls -> Call] /\ CallsSealed'
  BY <1>1, <1>2 DEF IInv, TypeOK, CallsSealed, sendVars
<1> QED
  BY <1>1, <1>3, OnlyCalls

-----------------------------------------------------------------------------
(* A delivery at the receiver.                                             *)

LEMMA AnsweringStep ==
    ASSUME IInv, NEW c \in Calls, calls[c].at # "idle", NEW reply,
           calls' = Answered(c, reply), UNCHANGED <<key, sendVars, recvVars>>
    PROVE  IInv' /\ Quiet
<1>1. calls' \in [Calls -> Call] /\ CallsSealed'
  BY AnsweredSealed DEF sendVars
<1> QED
  BY <1>1, OnlyCalls

LEMMA NotAdmittedStep ==
    ASSUME IInv, NEW c \in Calls, NotAdmitted(c)
    PROVE  IInv' /\ Quiet
BY AnsweringStep DEF NotAdmitted

LEMMA StoreFailsStep ==
    ASSUME IInv, NEW c \in Calls, StoreFails(c)
    PROVE  IInv' /\ Quiet
BY AnsweringStep DEF StoreFails

\* The sweep ends pending rows and touches no other.
LEMMA SweepEnds ==
    ASSUME IInv, NEW old \in SUBSET Ids, inc' = SweptIn(old), UNCHANGED <<sealed, written>>
    PROVE  Quiet /\ QueueBounded'
<1>1. /\ inc' \in [Ids -> Incoming \cup {None}]
      /\ \A t \in Ids : inc'[t] # inc[t] => EndsPending(t)
  BY DEF SweptIn, IInv, TypeOK, Incoming, Decided, EndsPending
<1>2. QueueBounded'
  BY <1>1, QueueShrinks DEF IInv, EndsPending
<1> QED
  BY <1>1, <1>2 DEF Quiet

LEMMA LookStep ==
    ASSUME IInv, NEW c \in Calls, NEW old \in SUBSET Ids, Look(c, old)
    PROVE  IInv' /\ Quiet
<1>1. calls[c].at # "idle" /\ inc' = SweptIn(old)
      /\ UNCHANGED <<key, sendVars, accepting, written, replaced>>
  BY DEF Look
<1>2. Quiet /\ QueueBounded'
  BY <1>1, SweepEnds DEF sendVars
<1>3. \/ \E reply : calls' = Answered(c, reply)
      \/ calls' = Onward(c, "looked", key[Receiver].gen)
  BY DEF Look
<1>4. key[Receiver].gen \in Gens
  BY DEF IInv, TypeOK, Vaults
<1>5. calls' \in [Calls -> Call] /\ CallsSealed'
  BY <1>1, <1>3, <1>4, AnsweredSealed, OnwardSealed DEF sendVars
<1>6. /\ out' \in [Ids -> {None, "pending", "abandoned"}]
      /\ \A t \in Ids : out'[t] # None => out[t] # None
  BY <1>1 DEF sendVars, IInv, TypeOK
<1> QED
  BY <1>1, <1>2, <1>5, <1>6, QuietKeeps DEF sendVars

LEMMA OpenEnvelopeStep ==
    ASSUME IInv, NEW c \in Calls, OpenEnvelope(c)
    PROVE  IInv' /\ Quiet
<1>1. calls[c].at # "idle" /\ UNCHANGED <<key, sendVars, recvVars>>
  BY DEF OpenEnvelope
<1>2. (\E reply : calls' = Answered(c, reply)) \/ calls' = Onward(c, "opened", 0)
  BY DEF OpenEnvelope
<1>3. calls' \in [Calls -> Call] /\ CallsSealed'
  BY <1>1, <1>2, AnsweredSealed, OnwardSealed DEF sendVars
<1> QED
  BY <1>1, <1>3, OnlyCalls

LEMMA InsertStep ==
    ASSUME IInv, NEW c \in Calls, Insert(c)
    PROVE  IInv' /\ Quiet
<1> DEFINE t == calls[c].t
<1>1. calls[c].at # "idle" /\ t \in Ids /\ sealed[t] # None
      /\ UNCHANGED <<key, sendVars, accepting, written, replaced>>
  BY DEF Insert, IInv, CallsSealed
<1>2. \E reply : calls' = Answered(c, reply)
  BY DEF Insert
<1>3. calls' \in [Calls -> Call] /\ CallsSealed'
  BY <1>1, <1>2, AnsweredSealed DEF sendVars
<1>4. Quiet /\ QueueBounded'
  <2>1. CASE inc' = inc
    BY <1>1, <2>1, SameRowsQuiet DEF sendVars
  <2>2. CASE inc[t] = None /\ ~Full(inc) /\ inc' = [inc EXCEPT ![t] = "pending"]
    <3>1. Quiet
      BY <1>1, <2>2 DEF Quiet, Queues, IInv, TypeOK, Incoming, sendVars
    <3>2. Pending(inc') = Pending(inc) \cup {t}
      BY <1>1, <2>2 DEF Pending, IInv, TypeOK
    <3>3. t \notin Pending(inc)
      BY <2>2, NoneApart DEF Pending
    <3>4. Cardinality(Pending(inc')) = Cardinality(Pending(inc)) + 1
      BY <3>2, <3>3, PendingFinite, FS_AddElement
    <3>5. Cardinality(Pending(inc)) < Cap
      BY <2>2, PendingFinite, Bounds DEF Full
    <3> QED
      BY <3>1, <3>4, <3>5, PendingFinite, Bounds DEF QueueBounded, Pending
  <2> QED
    BY <2>1, <2>2 DEF Insert
<1>5. /\ out' \in [Ids -> {None, "pending", "abandoned"}]
      /\ \A u \in Ids : out'[u] # None => out[u] # None
  BY <1>1 DEF sendVars, IInv, TypeOK
<1> QED
  BY <1>1, <1>3, <1>4, <1>5, QuietKeeps DEF sendVars

-----------------------------------------------------------------------------
(* The receiving operator.                                                 *)

\* A step of one accept that leaves every row alone.
LEMMA OneAccept ==
    ASSUME IInv, NEW a \in Accepts, NEW x \in AcceptPlan, AcceptOK(x),
           accepting' = [accepting EXCEPT ![a] = x],
           UNCHANGED <<key, sendVars, calls, inc, written, replaced>>
    PROVE  IInv' /\ Quiet
<1>1. Quiet /\ QueueBounded'
  BY SameRowsQuiet DEF sendVars
<1>2. TypeOK'
  BY DEF IInv, TypeOK, sendVars
<1>3. Minted' /\ RowsSealed' /\ CallsSealed' /\ ReplacedOK'
  BY DEF IInv, Minted, RowsSealed, CallsSealed, ReplacedOK, sendVars
<1>4. \A p : AcceptOK(p)' <=> AcceptOK(p)
  BY DEF AcceptOK, sendVars
<1>5. AcceptsOK'
  BY <1>4 DEF IInv, TypeOK, AcceptsOK
<1> QED
  BY <1>1, <1>2, <1>3, <1>5 DEF IInv

LEMMA AcceptPrepareStep ==
    ASSUME IInv, NEW a \in Accepts, NEW t \in Ids, NEW peer \in Announced(Sender),
           AcceptPrepare(a, t, peer)
    PROVE  IInv' /\ Quiet
<1> DEFINE x == [at |-> "prepared", t |-> t, from |-> peer, own |-> 0]
<1>1. accepting' = [accepting EXCEPT ![a] = x] /\ inc[t] = "pending"
      /\ UNCHANGED <<key, sendVars, calls, inc, written, replaced>>
  BY DEF AcceptPrepare
<1>2. x \in AcceptPlan
  <2>1. key[Sender].gen \in Gens BY DEF IInv, TypeOK, Vaults
  <2>2. peer \in Gens BY <2>1, Bounds DEF Announced, Gens
  <2> QED BY <2>2 DEF AcceptPlan
<1>3. AcceptOK(x)
  BY <1>1, NoneApart DEF IInv, RowsSealed, AcceptOK
<1> HIDE DEF x
<1> QED
  BY <1>1, <1>2, <1>3, OneAccept

LEMMA AcceptOpenStep ==
    ASSUME IInv, NEW a \in Accepts, AcceptOpen(a)
    PROVE  IInv' /\ Quiet
<1> DEFINE plan == accepting[a]
           own == key[Receiver].gen
           at == IF Opens(plan.t, own, plan.from) THEN "opened" ELSE "refused"
           x == [at |-> at, t |-> plan.t, from |-> 0, own |-> own]
<1>1. accepting' = [accepting EXCEPT ![a] = x]
      /\ UNCHANGED <<key, sendVars, calls, inc, written, replaced>>
  BY DEF AcceptOpen
<1>2. plan \in AcceptPlan /\ plan.t \in Ids /\ AcceptOK(plan) /\ own \in Gens
  BY DEF AcceptOpen, IInv, TypeOK, AcceptsOK, AcceptPlan, Vaults
<1>3. at \in {"opened", "refused"} /\ (at = "opened" => sealed[plan.t].to = own)
  BY DEF Opens
<1> HIDE DEF at, own
<1>4. x \in AcceptPlan /\ x.at = at /\ x.t = plan.t /\ x.own = own
  BY <1>2, <1>3 DEF AcceptPlan
<1>5. own >= replaced
  BY <1>2, Bounds DEF IInv, TypeOK, ReplacedOK, own
<1>6. AcceptOK(x)
  BY <1>2, <1>3, <1>4, <1>5 DEF AcceptOK
<1> HIDE DEF x
<1> QED
  BY <1>1, <1>4, <1>6, OneAccept

\* Steps of the receiver that leave the sender and the calls alone.
LEMMA ReceiverOnly ==
    ASSUME IInv, Quiet, QueueBounded', UNCHANGED <<key, sendVars, calls, replaced>>,
           accepting' \in [Accepts -> AcceptPlan \cup {None}],
           \A a \in Accepts : accepting'[a] # None => accepting'[a] = accepting[a]
    PROVE  IInv'
<1>1. TypeOK'
  BY DEF IInv, TypeOK, Quiet, sendVars
<1>2. RowsSealed'
  BY NoneApart DEF IInv, RowsSealed, Quiet, EndsPending, Queues, sendVars
<1>3. Minted' /\ CallsSealed' /\ ReplacedOK'
  BY DEF IInv, Minted, CallsSealed, ReplacedOK, sendVars
<1>4. AcceptsOK'
  BY AcceptsKept
<1> QED
  BY <1>1, <1>2, <1>3, <1>4 DEF IInv

\* One pending row is decided, not accepted.
LEMMA RejectOne ==
    ASSUME IInv, NEW t \in Ids, inc[t] = "pending",
           inc' = [inc EXCEPT ![t] = "rejected"], UNCHANGED <<sealed, written>>
    PROVE  Quiet /\ QueueBounded'
<1>1. /\ inc' \in [Ids -> Incoming \cup {None}]
      /\ \A u \in Ids : inc'[u] # inc[u] => EndsPending(u)
  BY DEF IInv, TypeOK, Incoming, Decided, EndsPending
<1> QED
  BY <1>1, QueueShrinks DEF IInv, EndsPending, Quiet

\* An accept that ends here has opened t with the key t is sealed to, which has not
\* been retired.
Opened(t) ==
    /\ sealed[t] # None /\ sealed[t].to >= replaced
    /\ \E a \in Accepts :
        /\ accepting[a] # None /\ accepting'[a] = None
        /\ accepting[a].t = t /\ accepting[a].own = sealed[t].to

\* The transfer t is written from its row.
Writes(t) ==
    /\ inc[t] = "pending" /\ inc' = [inc EXCEPT ![t] = "accepted"]
    /\ written' = [written EXCEPT ![t] = @ + 1]
    /\ Opened(t) /\ UNCHANGED sealed

LEMMA WritesAbstract ==
    ASSUME IInv, NEW t \in Ids, Writes(t)
    PROVE  Abstract!Accept(t)
<1>1. \A u \in Ids : u # t => inc'[u] = inc[u]
  BY DEF Writes, IInv, TypeOK
<1>2. inc'[t] = "accepted" /\ sealed'[t] # None
  BY DEF Writes, Opened, IInv, TypeOK
<1>3. life[t] = "queued" /\ life'[t] = "accepted"
  BY <1>2, NoneApart DEF Writes, life
<1>4. \A u \in Ids : u # t => life'[u] = life[u]
  BY <1>1 DEF life, Writes
<1>5. life' = [life EXCEPT ![t] = "accepted"]
  BY <1>3, <1>4 DEF life
<1> QED
  BY <1>3, <1>5 DEF Writes, Abstract!Accept

LEMMA AcceptRejectStep ==
    ASSUME IInv, NEW a \in Accepts, AcceptReject(a) \/ AcceptFails(a)
    PROVE  IInv' /\ Quiet
<1> DEFINE t == accepting[a].t
<1>1. UNCHANGED <<key, sendVars, calls, written, replaced>>
      /\ accepting' = [accepting EXCEPT ![a] = None]
  BY DEF AcceptReject, AcceptFails
<1>2. /\ accepting' \in [Accepts -> AcceptPlan \cup {None}]
      /\ \A b \in Accepts : accepting'[b] # None => accepting'[b] = accepting[b]
  BY <1>1 DEF IInv, TypeOK
<1>3. t \in Ids
  BY DEF AcceptReject, AcceptFails, IInv, TypeOK, AcceptPlan
<1>4. inc' = inc \/ (inc[t] = "pending" /\ inc' = [inc EXCEPT ![t] = "rejected"])
  BY DEF AcceptReject, AcceptFails
<1>5. Quiet /\ QueueBounded'
  BY <1>1, <1>3, <1>4, RejectOne, SameRowsQuiet DEF sendVars
<1> QED
  BY <1>1, <1>2, <1>5, ReceiverOnly

LEMMA AcceptCommitStep ==
    ASSUME IInv, NEW a \in Accepts, NEW existing, NEW replace \in BOOLEAN,
           AcceptCommit(a, existing, replace)
    PROVE  IInv' /\ (Quiet \/ \E t \in Ids : Writes(t))
<1> DEFINE t == accepting[a].t
<1>1. /\ accepting[a] \in AcceptPlan /\ accepting[a] # None /\ accepting[a].at = "opened"
      /\ t \in Ids /\ AcceptOK(accepting[a])
  BY DEF AcceptCommit, IInv, TypeOK, AcceptsOK, AcceptPlan
<1>2. UNCHANGED <<key, sendVars, calls, replaced>>
      /\ accepting' = [accepting EXCEPT ![a] = None]
  BY DEF AcceptCommit
<1>3. /\ accepting' \in [Accepts -> AcceptPlan \cup {None}] /\ accepting'[a] = None
      /\ \A b \in Accepts : accepting'[b] # None => accepting'[b] = accepting[b]
  BY <1>2 DEF IInv, TypeOK
<1>4. CASE UNCHANGED <<inc, written>>
  <2>1. Quiet /\ QueueBounded' BY <1>2, <1>4, SameRowsQuiet DEF sendVars
  <2> QED BY <1>2, <1>3, <2>1, ReceiverOnly
<1>5. CASE /\ inc[t] = "pending" /\ inc' = [inc EXCEPT ![t] = "accepted"]
           /\ written' = [written EXCEPT ![t] = @ + 1]
  <2>1. Writes(t)
    <3>1. Opened(t)
      BY <1>1, <1>3, <1>5 DEF Opened, AcceptOK
    <3> QED
      BY <1>2, <1>5, <3>1 DEF Writes, sendVars
  <2>2. inc' \in [Ids -> Incoming \cup {None}] /\ written' \in [Ids -> Nat]
    BY <1>1, <1>5 DEF IInv, TypeOK, Incoming, Decided
  <2>3. TypeOK'
    BY <1>2, <1>3, <2>2 DEF IInv, TypeOK, sendVars
  <2>4. /\ \A u \in Ids : u # t => inc'[u] = inc[u]
        /\ inc'[t] = "accepted"
    BY <1>1, <1>5 DEF IInv, TypeOK
  <2>5. RowsSealed'
    BY <1>1, <1>2, <2>4 DEF IInv, RowsSealed, AcceptOK, sendVars
  <2>6. Minted' /\ CallsSealed' /\ ReplacedOK'
    BY <1>2 DEF IInv, Minted, CallsSealed, ReplacedOK, sendVars
  <2>7. AcceptsOK'
    <3> SUFFICES ASSUME NEW b \in Accepts, accepting'[b] # None
                 PROVE  AcceptOK(accepting[b])'
      BY <1>3 DEF AcceptsOK
    <3>1. accepting[b] \in AcceptPlan /\ accepting[b].t \in Ids /\ AcceptOK(accepting[b])
          /\ accepting'[b] = accepting[b]
      BY <1>3 DEF IInv, TypeOK, AcceptsOK, AcceptPlan
    <3>2. /\ inc'[accepting[b].t] # None
          /\ inc'[accepting[b].t] = "pending" => inc[accepting[b].t] = "pending"
      BY <2>4, <3>1, NoneApart DEF AcceptOK
    <3> QED
      BY <1>2, <3>1, <3>2 DEF AcceptOK, sendVars
  <2>8. QueueBounded'
    <3>1. \A u \in Ids : inc'[u] = "pending" => inc[u] = "pending"
      BY <1>5, <2>4
    <3> QED BY <3>1, QueueShrinks DEF IInv
  <2> QED
    BY <1>1, <2>1, <2>3, <2>5, <2>6, <2>7, <2>8 DEF IInv
<1> QED
  BY <1>4, <1>5 DEF AcceptCommit

LEMMA RejectStep ==
    ASSUME IInv, NEW t \in Ids, Reject(t)
    PROVE  IInv' /\ Quiet
<1>1. Quiet /\ QueueBounded'
  BY RejectOne DEF Reject, sendVars
<1> QED
  BY <1>1, ReceiverOnly DEF Reject, IInv, TypeOK

LEMMA ReceiveStep ==
    ASSUME IInv, NEW old \in SUBSET Ids, Receive(old)
    PROVE  IInv' /\ Quiet
<1>1. Quiet /\ QueueBounded'
  BY SweepEnds DEF Receive, sendVars
<1> QED
  BY <1>1, ReceiverOnly DEF Receive, IInv, TypeOK

-----------------------------------------------------------------------------
(* Keys and crashes.                                                       *)

Keys == [Vaults -> [gen : Gens, active : BOOLEAN]]

\* A step that changes keys, ends rows and abandons transfers.
LEMMA KeysOnly ==
    ASSUME IInv, Quiet, QueueBounded', key' \in Keys, replaced' \in Gens, ReplacedOK',
           AcceptsOK', UNCHANGED <<lastId, sealed, calls, accepting>>,
           out' \in [Ids -> {None, "pending", "abandoned"}],
           \A t \in Ids : out'[t] # None => out[t] # None
    PROVE  IInv'
<1>1. TypeOK'
  BY DEF IInv, TypeOK, Quiet, Keys
<1>2. RowsSealed'
  BY NoneApart DEF IInv, RowsSealed, Quiet, EndsPending, Queues
<1> QED
  BY <1>1, <1>2 DEF IInv, Minted, CallsSealed

LEMMA KeyFailsStep ==
    ASSUME IInv, NEW v \in Vaults, KeyFails(v)
    PROVE  IInv' /\ Quiet
<1>1. Quiet /\ QueueBounded'
  BY SameRowsQuiet DEF KeyFails, sendVars, recvVars
<1>2. key' \in Keys /\ key'[Receiver].gen = key[Receiver].gen
  BY DEF KeyFails, IInv, TypeOK, Keys, Vaults
<1>3. replaced' \in Gens /\ ReplacedOK' /\ AcceptsOK'
  BY <1>1, <1>2, AcceptsKept DEF KeyFails, recvVars, IInv, TypeOK, ReplacedOK
<1> QED
  BY <1>1, <1>2, <1>3, KeysOnly DEF KeyFails, sendVars, recvVars, IInv, TypeOK

\* Within the bound a new generation is one of Gens.
LEMMA NewKey ==
    ASSUME IInv, NEW v \in Vaults, key[Sender].gen + key[Receiver].gen < MaxKeys,
           key' = [key EXCEPT ![v] = [gen |-> @.gen + 1, active |-> TRUE]]
    PROVE  /\ key' \in Keys /\ key[Receiver].gen <= key'[Receiver].gen
           /\ v = Receiver => key'[Receiver].gen \in Gens
<1>1. key[Sender].gen \in Gens /\ key[Receiver].gen \in Gens /\ key \in Keys
  BY DEF IInv, TypeOK, Vaults, Keys
<1>2. v = Sender \/ v = Receiver
  BY DEF Vaults
<1>3. key[v].gen + 1 \in Gens
  BY <1>1, <1>2, Bounds DEF Gens
<1>4. key' \in Keys
  BY <1>1, <1>3 DEF Keys
<1>5. key[Receiver].gen <= key'[Receiver].gen
  BY <1>1, <1>2, Bounds DEF Keys, Vaults
<1> QED
  BY <1>4, <1>5 DEF Keys, Vaults

LEMMA ReplaceKeyStep ==
    ASSUME IInv, NEW v \in Vaults, ReplaceKey(v)
    PROVE  IInv' /\ Quiet
<1>1. key' \in Keys /\ key[Receiver].gen <= key'[Receiver].gen
  BY NewKey DEF ReplaceKey
<1>2. UNCHANGED <<lastId, sealed, calls, accepting, written>>
  BY DEF ReplaceKey
<1>3. CASE v = Sender
  <2>1. Quiet /\ QueueBounded'
    BY <1>2, <1>3, SameRowsQuiet DEF ReplaceKey
  <2>2. /\ out' \in [Ids -> {None, "pending", "abandoned"}]
        /\ \A t \in Ids : out'[t] # None => out[t] # None
    BY <1>3, NoneApart DEF ReplaceKey, IInv, TypeOK
  <2>3. replaced' = replaced
    BY <1>3 DEF ReplaceKey
  <2>4. replaced' \in Gens /\ ReplacedOK' /\ AcceptsOK'
    <3>1. key[Receiver].gen \in Gens /\ key'[Receiver].gen \in Gens
      BY <1>1 DEF IInv, TypeOK, Keys, Vaults
    <3> QED
      BY <1>1, <1>2, <2>1, <2>3, <3>1, AcceptsKept, Bounds DEF IInv, TypeOK, ReplacedOK
  <2> QED
    BY <1>1, <1>2, <2>1, <2>2, <2>4, KeysOnly
<1>4. CASE v # Sender
  <2>1. /\ inc' \in [Ids -> Incoming \cup {None}]
        /\ \A t \in Ids : inc'[t] # inc[t] => EndsPending(t)
    BY <1>4 DEF ReplaceKey, IInv, TypeOK, Incoming, Decided, EndsPending
  <2>2. Quiet /\ QueueBounded'
    BY <1>2, <2>1, QueueShrinks DEF IInv, EndsPending, Quiet
  <2>3. v = Receiver /\ replaced' = key'[Receiver].gen /\ key'[Receiver].gen \in Gens
    BY <1>1, <1>4 DEF ReplaceKey, Vaults, Keys
  <2>4. ReplacedOK'
    BY <2>3, Bounds DEF ReplacedOK
  <2>5. AcceptsOK'
    <3> SUFFICES ASSUME NEW a \in Accepts, accepting'[a] # None
                 PROVE  AcceptOK(accepting[a])'
      BY <1>2 DEF AcceptsOK
    <3>1. accepting[a].t \in Ids /\ AcceptOK(accepting[a])
      BY <1>2 DEF IInv, TypeOK, AcceptsOK, AcceptPlan
    <3>2. inc'[accepting[a].t] # None /\ inc'[accepting[a].t] # "pending"
      BY <1>4, <3>1, NoneApart DEF ReplaceKey, AcceptOK
    <3> QED
      BY <1>2, <3>1, <3>2 DEF AcceptOK
  <2> QED
    BY <1>1, <1>2, <1>4, <2>2, <2>3, <2>4, <2>5, KeysOnly DEF ReplaceKey, IInv, TypeOK
<1> QED
  BY <1>3, <1>4

LEMMA InitKeyStep ==
    ASSUME IInv, NEW v \in Vaults, InitKey(v)
    PROVE  IInv' /\ Quiet
<1>1. Quiet /\ QueueBounded'
  BY SameRowsQuiet DEF InitKey, sendVars, recvVars
<1>2. key' \in Keys /\ key[Receiver].gen <= key'[Receiver].gen
  BY NewKey DEF InitKey
<1>3. replaced' \in Gens /\ ReplacedOK' /\ AcceptsOK'
  <2>1. key[Receiver].gen \in Gens /\ key'[Receiver].gen \in Gens
    BY <1>2 DEF IInv, TypeOK, Keys, Vaults
  <2> QED
    BY <1>1, <1>2, <2>1, AcceptsKept, Bounds DEF InitKey, recvVars, IInv, TypeOK, ReplacedOK
<1> QED
  BY <1>1, <1>2, <1>3, KeysOnly DEF InitKey, sendVars, recvVars, IInv, TypeOK

LEMMA CrashSenderStep ==
    ASSUME IInv, CrashSender
    PROVE  IInv' /\ Quiet
<1>1. \A c \in Calls : /\ Idle \in Call /\ Idle.at = "idle"
                       /\ [calls[c] EXCEPT !.waits = FALSE] \in Call
                       /\ [calls[c] EXCEPT !.waits = FALSE].t = calls[c].t
  BY CallFacts DEF IInv, Call, Idle
<1>2. calls' \in [Calls -> Call] /\ CallsSealed'
  BY <1>1 DEF CrashSender, IInv, CallsSealed, sendVars
<1> QED
  BY <1>2, OnlyCalls DEF CrashSender

LEMMA CrashReceiverStep ==
    ASSUME IInv, CrashReceiver
    PROVE  IInv' /\ Quiet
<1>1. \A c \in Calls :
        /\ Answered(c, "unreachable")[c] \in Call
        /\ Answered(c, "unreachable")[c].at # "idle"
              => Answered(c, "unreachable")[c].t = calls[c].t
  <2> SUFFICES ASSUME NEW c \in Calls
               PROVE  /\ Answered(c, "unreachable")[c] \in Call
                      /\ Answered(c, "unreachable")[c].at # "idle"
                            => Answered(c, "unreachable")[c].t = calls[c].t
    OBVIOUS
  <2>1. KeepsRow("unreachable") \in BOOLEAN
    BY DEF KeepsRow
  <2>2. calls[c] \in Call /\ Idle \in Call /\ calls \in [Calls -> Call] /\ Idle.at = "idle"
    BY CallFacts DEF IInv, TypeOK, Idle
  <2> QED
    BY <2>1, <2>2 DEF Answered, Call
<1>2. calls' \in [Calls -> Call] /\ CallsSealed'
  BY <1>1, CallFacts DEF CrashReceiver, IInv, TypeOK, CallsSealed, sendVars
<1>3. Quiet /\ QueueBounded'
  BY SameRowsQuiet DEF CrashReceiver, sendVars
<1>4. TypeOK'
  BY <1>2 DEF CrashReceiver, IInv, TypeOK, sendVars
<1>5. Minted' /\ RowsSealed' /\ ReplacedOK'
  BY DEF CrashReceiver, IInv, Minted, RowsSealed, ReplacedOK, sendVars
<1>6. AcceptsOK'
  BY DEF CrashReceiver, AcceptsOK
<1> QED
  BY <1>2, <1>3, <1>4, <1>5, <1>6 DEF IInv
-----------------------------------------------------------------------------
(* The invariant and the theorems.                                         *)

LEMMA QuietAbstract ==
    ASSUME IInv, Quiet
    PROVE  Abstract!EndAndQueue
<1>1. life' \in [Ids -> Abstract!Lives]
  BY DEF life, Abstract!Lives
<1>2. ASSUME NEW t \in Ids, life'[t] # life[t]
      PROVE  <<life[t], life'[t]>> \in {<<"queued", "ended">>, <<"sealed", "queued">>}
  <2>1. inc'[t] # inc[t] /\ sealed'[t] = sealed[t]
    BY <1>2 DEF life, Quiet
  <2>2. CASE EndsPending(t)
    <3>1. sealed[t] # None
      BY <2>2, NoneApart DEF IInv, RowsSealed, EndsPending
    <3>2. life[t] = "queued" /\ life'[t] = "ended"
      BY <2>1, <2>2, <3>1, NoneApart DEF life, EndsPending
    <3> QED
      BY <3>2
  <2>3. CASE Queues(t)
    <3>1. life[t] = "sealed" /\ life'[t] = "queued"
      BY <2>1, <2>3, NoneApart DEF life, Queues
    <3> QED
      BY <3>1
  <2> QED
    BY <2>1, <2>2, <2>3 DEF Quiet
<1> QED
  BY <1>1, <1>2 DEF Abstract!EndAndQueue, Quiet

LEMMA InitInv ==
    ASSUME Init PROVE IInv
<1>1. TypeOK
  <2>1. Idle \in Call
    BY Bounds DEF Idle, Call
  <2> QED
    BY <2>1, Bounds DEF Init, TypeOK
<1>2. Minted /\ RowsSealed /\ AcceptsOK /\ ReplacedOK
  BY DEF Init, Minted, RowsSealed, AcceptsOK, ReplacedOK, Vaults
<1>3. CallsSealed
  BY DEF Init, CallsSealed, Idle
<1>4. QueueBounded
  <2>1. Pending(inc) = {}
    BY NoneApart DEF Init, Pending
  <2> QED
    BY <2>1, FS_EmptySet, Bounds DEF QueueBounded
<1> QED
  BY <1>1, <1>2, <1>3, <1>4 DEF IInv

\* Every step is quiet, seals one transfer or writes one.
LEMMA Steps ==
    ASSUME IInv, Next
    PROVE  /\ IInv'
           /\ \/ Quiet
              \/ \E t \in Ids : Abstract!Seal(t)
              \/ \E t \in Ids : Writes(t)
<1>1. CASE CrashSender \/ CrashReceiver
  BY <1>1, CrashSenderStep, CrashReceiverStep
<1>2. CASE \/ \E old \in SUBSET {t \in Ids : out[t] # None} : Expire(old)
           \/ \E old \in SUBSET Pending(inc) : Receive(old)
  <2>1. \E old \in SUBSET Ids : Expire(old) \/ Receive(old)
    BY <1>2 DEF Pending
  <2> QED
    BY <2>1, ExpireStep, ReceiveStep
<1>3. ASSUME NEW c \in Calls,
             \/ Settle(c) \/ GiveUp(c) \/ NotAdmitted(c) \/ OpenEnvelope(c) \/ Insert(c)
             \/ StoreFails(c)
             \/ \E t \in Ids : Resume(c, t)
             \/ \E old \in SUBSET Pending(inc) : Look(c, old)
      PROVE  IInv' /\ Quiet
  <2>1. SUBSET Pending(inc) \subseteq SUBSET Ids
    BY DEF Pending
  <2> QED
    BY <1>3, <2>1, SettleStep, GiveUpStep, NotAdmittedStep, OpenEnvelopeStep, InsertStep,
       StoreFailsStep, ResumeStep, LookStep
<1>4. ASSUME NEW c \in Calls, NEW from \in 1..key[Sender].gen,
             NEW to \in Announced(Receiver), Send(c, from, to)
      PROVE  IInv' /\ \E t \in Ids : Abstract!Seal(t)
  <2>1. lastId + 1 \in Ids
    BY <1>4, Bounds DEF Send, IInv, TypeOK, Ids
  <2> QED
    BY <1>4, <2>1, SendStep
<1>5. ASSUME NEW a \in Accepts, NEW t \in Ids, NEW peer \in Announced(Sender),
             AcceptPrepare(a, t, peer)
      PROVE  IInv' /\ Quiet
  BY <1>5, AcceptPrepareStep
<1>6. ASSUME NEW a \in Accepts, NEW existing \in {"none", "static", "other"},
             NEW replace \in BOOLEAN, AcceptCommit(a, existing, replace)
      PROVE  IInv' /\ (Quiet \/ \E t \in Ids : Writes(t))
  BY <1>6, AcceptCommitStep
<1>9. ASSUME NEW a \in Accepts, AcceptOpen(a) \/ AcceptReject(a) \/ AcceptFails(a)
      PROVE  IInv' /\ Quiet
  BY <1>9, AcceptOpenStep, AcceptRejectStep
<1>7. ASSUME NEW t \in Ids, Reject(t)
      PROVE  IInv' /\ Quiet
  BY <1>7, RejectStep
<1>8. ASSUME NEW v \in Vaults, KeyFails(v) \/ ReplaceKey(v) \/ InitKey(v)
      PROVE  IInv' /\ Quiet
  BY <1>8, KeyFailsStep, ReplaceKeyStep, InitKeyStep
<1> QED
  BY <1>1, <1>2, <1>3, <1>4, <1>5, <1>6, <1>7, <1>8, <1>9 DEF Next

LEMMA StutterKeeps ==
    ASSUME IInv, UNCHANGED vars
    PROVE  IInv' /\ UNCHANGED <<life, written>>
BY DEF vars, sendVars, recvVars, IInv, TypeOK, Minted, RowsSealed, CallsSealed,
       AcceptsOK, AcceptOK, ReplacedOK, QueueBounded, Pending, life

(* Whatever names a transfer, a row at either vault, a delivery or an      *)
(* accept in progress, names one whose envelope was sealed under an id     *)
(* minted in order, and the types and the bound of the queue hold with it. *)
THEOREM Inductive == Spec => []IInv
<1>1. Init => IInv
  BY InitInv
<1>2. IInv /\ [Next]_vars => IInv'
  BY Steps, StutterKeeps
<1> QED
  BY <1>1, <1>2, PTL DEF Spec

(* Every variable keeps its type, whatever the number of deliveries.       *)
THEOREM TypeCorrect == Spec => []TypeOK
<1>1. IInv => TypeOK
  BY DEF IInv
<1> QED
  BY <1>1, Inductive, PTL

(* However many deliveries look at the queue before a lookup and insert    *)
(* after it, one sender never has more than the cap waiting: the insert    *)
(* counts again in its own transaction (store_federation.rs).              *)
THEOREM QueueStaysBounded == Spec => []QueueBounded
<1>1. IInv => QueueBounded
  BY DEF IInv
<1> QED
  BY <1>1, Inductive, PTL

(* accept_commit writes only from an envelope it opened itself, with the   *)
(* key it read for it, and never from one sealed to a key that a           *)
(* replacement has retired, though its transaction looks at no key.        *)
THEOREM OnlyOpenedIsWritten == Spec => WritesOnlyWhatOpens
<1>1. ASSUME IInv, [Next]_vars, NEW t \in Ids, written'[t] # written[t]
      PROVE  Opened(t)
  <2>1. CASE UNCHANGED vars
    BY <1>1, <2>1 DEF vars, recvVars
  <2>2. CASE Quiet \/ \E u \in Ids : Abstract!Seal(u)
    BY <1>1, <2>2 DEF Quiet, Abstract!Seal
  <2>3. CASE \E u \in Ids : Writes(u)
    <3>1. PICK u \in Ids : Writes(u)
      BY <2>3
    <3>2. t = u
      BY <1>1, <3>1 DEF Writes, IInv, TypeOK
    <3> QED
      BY <3>1, <3>2 DEF Writes
  <2> QED
    BY <1>1, <2>1, <2>2, <2>3, Steps
<1>2. IInv /\ [Next]_vars =>
        [\A t \in Ids : written'[t] # written[t] => Opened(t)]_vars
  BY <1>1
<1> QED
  BY <1>2, Inductive, PTL DEF Spec, WritesOnlyWhatOpens, Opened

(* Transfer implements TransferLife: each envelope is sealed once, queues  *)
(* at most once, and is then written once or ended for good, however the   *)
(* same bytes are delivered, resumed, swept or accepted again.             *)
THEOREM Refines == Spec => TransfersEndOnce
<1>1. Init => Abstract!Init
  BY DEF Init, Abstract!Init, life
<1>2. IInv /\ [Next]_vars => [Abstract!Next]_<<life, written>>
  <2> SUFFICES ASSUME IInv, [Next]_vars
               PROVE  [Abstract!Next]_<<life, written>>
    OBVIOUS
  <2>1. CASE UNCHANGED vars
    BY <2>1, StutterKeeps
  <2>2. CASE Quiet
    BY <2>2, QuietAbstract DEF Abstract!Next
  <2>3. CASE \E t \in Ids : Abstract!Seal(t)
    BY <2>3 DEF Abstract!Next
  <2>4. CASE \E t \in Ids : Writes(t)
    BY <2>4, WritesAbstract DEF Abstract!Next
  <2> QED
    BY <2>1, <2>2, <2>3, <2>4, Steps
<1> QED
  BY <1>1, <1>2, Inductive, PTL DEF Spec, TransfersEndOnce, Abstract!Spec
=============================================================================
