------------------------- MODULE SecretGrantsProofs -------------------------
(***************************************************************************)
(* What holds of SecretGrants for any scopes, flows, members, calls,       *)
(* nonces, deposits, lifetimes and caps: types, that an approval grants    *)
(* once and a once grant releases once, that grants and requests go with   *)
(* their secret, and that it implements SecretRequests.                    *)
(***************************************************************************)
EXTENDS SecretGrants, FiniteSetTheorems, TLAPS

\* A call that has read its snapshot carries its use.
CallsInv == \A u \in Calls : calls[u].pc = "fenced" => calls[u].use \in Uses
\* Incarnations are minted in order, and a deposit that made one has its tombstone.
OriginInv ==
    \A i \in 1..MaxInc :
        /\ origin[i] # None => i <= lastInc
        /\ origin[i] \in Deposits => origin[i] \in tombs
\* Requests are minted in order; a use is paid with a grant.
MintedInv ==
    /\ \A r \in Reqs : /\ r > lastReq => pending[r] = None /\ granted[r] = 0
                       /\ granted[r] <= 1 /\ spent[r] <= granted[r]
    /\ \A k \in Askers \X Flows : revoked[k] <= lastReq
\* An open request was not granted, and is newer than the last revocation.
PendInv ==
    \A r \in Reqs : pending[r] # None =>
        /\ secret # None /\ pending[r].inc = secret.inc
        /\ pending[r].delete <=> pending[r].holder = None
        /\ ~pending[r].consumed => granted[r] = 0
        /\ ~pending[r].consumed /\ pending[r].holder # None /\ IsFlow(pending[r].holder)
             => r > revoked[<<pending[r].asker, pending[r].holder[1]>>]
\* So is a grant, and a grant that still exists has paid for nothing.
GrantInv ==
    \A r \in Reqs : grants[r] # None =>
        /\ secret # None /\ grants[r].inc = secret.inc
        /\ granted[r] = 1 /\ spent[r] = 0
        /\ IsFlow(grants[r].holder)
             => r > revoked[<<grants[r].asker, grants[r].holder[1]>>]
HomeInv == home \in Members => secret = None
\* The receipt of an answered call lasts until the last retry may have come.
NonceInv ==
    \A k \in Keys :
        /\ sent[k] # None => sent[k] <= now
        /\ answered[k] # 0 =>
             /\ answered[k] = 1 /\ sent[k] # None
             /\ \/ receipts[k] # 0 /\ receipts[k] >= sent[k] + ReceiptLife
                \/ receipts[k] = 0 /\ now >= sent[k] + ReceiptLife

IInv == /\ TypeOK /\ CallsInv /\ OriginInv /\ DepositOnce /\ MintedInv /\ PendInv
        /\ GrantInv /\ HomeInv /\ NonceInv /\ QuarantineOnlyUnsound

\* What a step may do to the requests: one is opened, open ones are granted or
\* end, and grants end.
IsOpen(r) == pending[r] # None /\ ~pending[r].consumed
Forward ==
    /\ lastReq' \in {lastReq, lastReq + 1}
    /\ \A r \in Reqs :
        /\ IsOpen(r)' => IsOpen(r) \/ r > lastReq
        /\ r > lastReq /\ r <= lastReq' => IsOpen(r)'
        /\ grants'[r] # None => grants[r] # None \/ IsOpen(r)

-----------------------------------------------------------------------------
(* Constants and operators.                                                *)

LEMMA Bounds ==
    /\ MaxReq \in Nat /\ MaxInc \in Nat /\ MaxTime \in Nat
    /\ ReceiptLife \in Nat /\ ForwardDeadline \in Nat /\ ForwardDeadline < ReceiptLife
    /\ PendingLife \in Nat /\ FlowPendingLife \in Nat
    /\ \A r \in Reqs : r \in Nat /\ r >= 1 /\ r <= MaxReq
BY ConstantsAssumption, DeadlineAssumption DEF Reqs

LEMMA NoneApart ==
    /\ None \notin Secret /\ None \notin Row /\ None \notin Grant /\ None \notin Nat
    /\ None \notin Holders /\ None \notin Deposits /\ None \notin Members
BY NoneAssumption, DistinctAssumption

LEMMA UsesAreHolders == Uses \subseteq Holders /\ FlowHolders \subseteq Holders
<1>1. \A m \in Methods : {m} \in (SUBSET Methods) \ {{}}
  OBVIOUS
<1>2. Flows \X {{m} : m \in Methods} \subseteq FlowHolders
  BY <1>1 DEF FlowHolders
<1> QED
  BY <1>2 DEF Uses, Holders

\* The sweep only takes grants away.
LEMMA SweptShrinks ==
    ASSUME TypeOK
    PROVE  /\ Swept \in [Reqs -> Grant \cup {None}]
           /\ \A r \in Reqs : Swept[r] \in {grants[r], None}
BY DEF TypeOK, Swept

LEMMA ReceiptsSwept ==
    ASSUME TypeOK
    PROVE  /\ SweptReceipts \in [Keys -> Nat]
           /\ \A k \in Keys :
                SweptReceipts[k] = IF receipts[k] <= now THEN 0 ELSE receipts[k]
BY DEF TypeOK, SweptReceipts

LEMMA KeptShrinks ==
    ASSUME TypeOK
    PROVE  /\ Kept \in [Reqs -> Row \cup {None}]
           /\ \A r \in Reqs : Kept[r] \in {pending[r], None}
BY DEF TypeOK, Kept

LEMMA ChosenGrant ==
    ASSUME NEW gs, NEW a, NEW c, NEW r \in Chosen(gs, a, c)
    PROVE  r \in Reqs /\ gs[r] # None
BY DEF Chosen, Candidates

LEMMA Went ==
    ASSUME IInv, NEW u \in Calls, NEW x \in {"idle", "fenced", "refused"},
           NEW c \in Uses \cup {None}, x = "fenced" => c \in Uses, Goto(u, x, c)
    PROVE  /\ calls' \in [Calls -> [pc : {"idle", "fenced", "refused"},
                                    use : Uses \cup {None}]]
           /\ CallsInv'
BY DEF IInv, TypeOK, CallsInv, Goto

-----------------------------------------------------------------------------
(* What a step that grants and revokes nothing keeps.                      *)

SameInc == secret # None => secret' # None /\ secret'.inc = secret.inc
Cleared == \A r \in Reqs : pending'[r] = None /\ grants'[r] = None

PendShrink ==
    /\ lastReq' = lastReq /\ pending' \in [Reqs -> Row \cup {None}]
    /\ \A r \in Reqs : pending'[r] \in {pending[r], None}
\* One request is opened, for the secret that exists.
OpensOne ==
    /\ lastReq' = lastReq + 1 /\ lastReq' \in Reqs
    /\ pending' \in [Reqs -> Row \cup {None}]
    /\ \A r \in Reqs : r # lastReq' => pending'[r] \in {pending[r], None}
    /\ secret # None /\ secret' = secret /\ pending'[lastReq'] # None
    /\ pending'[lastReq'].inc = secret.inc /\ ~pending'[lastReq'].consumed
    /\ pending'[lastReq'].delete <=> pending'[lastReq'].holder = None
\* Grants end or are marked; one that pays for a use ends with it.
GrantsShrink ==
    /\ grants' \in [Reqs -> Grant \cup {None}] /\ spent' \in [Reqs -> Nat]
    /\ \A r \in Reqs :
        /\ grants'[r] # None =>
             /\ grants[r] # None /\ grants'[r].inc = grants[r].inc
             /\ grants'[r].asker = grants[r].asker
             /\ grants'[r].holder = grants[r].holder /\ spent'[r] = spent[r]
        /\ spent'[r] <= granted[r]

LEMMA RequestsKept ==
    ASSUME IInv, UNCHANGED <<granted, revoked>>, PendShrink \/ OpensOne,
           GrantsShrink, SameInc \/ Cleared
    PROVE  MintedInv' /\ PendInv' /\ GrantInv' /\ Forward
<1> USE Bounds
<1>1. /\ lastReq \in Nat /\ granted \in [Reqs -> Nat] /\ spent \in [Reqs -> Nat]
      /\ pending \in [Reqs -> Row \cup {None}] /\ grants \in [Reqs -> Grant \cup {None}]
      /\ \A k \in Askers \X Flows : revoked[k] \in Nat
  BY DEF IInv, TypeOK
<1>2. MintedInv'
  <2>1. CASE PendShrink
    BY <1>1, <2>1 DEF IInv, MintedInv, PendShrink, GrantsShrink
  <2>2. CASE OpensOne
    BY <1>1, <2>2 DEF IInv, MintedInv, OpensOne, GrantsShrink
  <2> QED
    BY <2>1, <2>2
<1>3. PendInv'
  <2>1. SUFFICES ASSUME NEW r \in Reqs, pending'[r] # None, SameInc
                 PROVE  PendInv!(r)'
    BY DEF PendInv, Cleared
  <2>2. CASE pending'[r] = pending[r]
    BY <2>1, <2>2 DEF IInv, PendInv, SameInc
  <2>3. CASE OpensOne /\ r = lastReq'
    <3>1. granted[r] = 0
      BY <1>1, <2>3 DEF IInv, MintedInv, OpensOne
    <3>2. pending'[r].asker \in Askers /\ pending'[r].holder \in Holders \cup {None}
      BY <2>1, <2>3 DEF OpensOne, Row
    <3>3. ASSUME pending'[r].holder # None, IsFlow(pending'[r].holder)
          PROVE  r > revoked[<<pending'[r].asker, pending'[r].holder[1]>>]
      <4>1. <<pending'[r].asker, pending'[r].holder[1]>> \in Askers \X Flows
        BY <3>2, <3>3 DEF IsFlow
      <4> QED
        BY <1>1, <2>3, <4>1 DEF IInv, MintedInv, OpensOne
    <3> QED
      BY <2>3, <3>1, <3>3 DEF OpensOne, IsFlow
  <2> QED
    BY <2>1, <2>2, <2>3 DEF PendShrink, OpensOne
<1>4. GrantInv'
  BY DEF IInv, GrantInv, GrantsShrink, SameInc, Cleared, IsFlow
<1>5. Forward
  <2>1. CASE PendShrink
    BY <1>1, <2>1 DEF PendShrink, GrantsShrink, Forward, IsOpen
  <2>2. CASE OpensOne
    BY <1>1, <2>2 DEF OpensOne, GrantsShrink, Forward, IsOpen
  <2> QED
    BY <2>1, <2>2
<1> QED
  BY <1>2, <1>3, <1>4, <1>5

\* The same when the tables stay as they are.
LEMMA TablesStay ==
    ASSUME IInv, UNCHANGED <<granted, revoked, lastReq, pending, grants, spent>>, SameInc
    PROVE  MintedInv' /\ PendInv' /\ GrantInv' /\ Forward
<1>1. PendShrink
  BY DEF IInv, TypeOK, PendShrink
<1>2. GrantsShrink
  BY DEF IInv, TypeOK, GrantsShrink, MintedInv
<1> QED
  BY <1>1, <1>2, RequestsKept

\* A step that neither creates nor answers a forwarded call.
LEMMA OriginsStay ==
    ASSUME IInv, UNCHANGED <<origin, lastInc, tombs>>
    PROVE  OriginInv' /\ DepositOnce'
BY DEF IInv, OriginInv, DepositOnce

LEMMA NoncesStay ==
    ASSUME IInv, UNCHANGED <<sent, answered>>, now' \in Nat, now' >= now,
           \/ receipts' = receipts
           \/ receipts' = SweptReceipts /\ now' = now
    PROVE  NonceInv' /\ receipts' \in [Keys -> Nat]
<1>1. /\ now \in Nat /\ receipts \in [Keys -> Nat] /\ answered \in [Keys -> Nat]
      /\ sent \in [Keys -> Nat \cup {None}]
  BY DEF IInv, TypeOK
<1>2. CASE receipts' = receipts
  BY <1>1, <1>2, Bounds DEF IInv, NonceInv
<1>3. CASE receipts' = SweptReceipts /\ now' = now
  <2>1. \A k \in Keys : receipts'[k] = IF receipts[k] <= now THEN 0 ELSE receipts[k]
    BY <1>3, ReceiptsSwept DEF IInv
  <2>2. NonceInv'
    <3>1. SUFFICES ASSUME NEW k \in Keys PROVE NonceInv!(k)'
      BY DEF NonceInv
    <3>2. /\ sent[k] \in Nat \cup {None} /\ receipts[k] \in Nat
          /\ receipts'[k] = IF receipts[k] <= now THEN 0 ELSE receipts[k]
          /\ sent'[k] = sent[k] /\ answered'[k] = answered[k]
      BY <1>1, <2>1
    <3> QED
      BY <1>1, <1>3, <3>2, Bounds DEF IInv, NonceInv
  <2> QED
    BY <1>3, <2>2, ReceiptsSwept DEF IInv
<1> QED
  BY <1>2, <1>3

LEMMA SecretStays ==
    ASSUME IInv, UNCHANGED <<secret, home>>
    PROVE  HomeInv' /\ QuarantineOnlyUnsound' /\ SameInc
BY DEF IInv, HomeInv, QuarantineOnlyUnsound, SameInc

-----------------------------------------------------------------------------
(* The parts of the steps that change the tables.                          *)

\* A grant releases: one for one use ends, another is marked.
LEMMA Released ==
    ASSUME IInv, NEW gs \in {grants, Swept}, NEW a, NEW c, NEW r \in Chosen(gs, a, c),
           grants' = AfterRelease(gs, r), spent' = Spend(gs, r)
    PROVE  GrantsShrink
<1>1. /\ gs \in [Reqs -> Grant \cup {None}] /\ spent \in [Reqs -> Nat]
      /\ granted \in [Reqs -> Nat] /\ grants \in [Reqs -> Grant \cup {None}]
      /\ \A q \in Reqs : gs[q] \in {grants[q], None}
  BY SweptShrinks DEF IInv, TypeOK
<1>2. r \in Reqs /\ gs[r] # None /\ gs[r] = grants[r] /\ gs[r] \in Grant
  BY <1>1, ChosenGrant
<1>3. granted[r] = 1 /\ spent[r] = 0 /\ \A q \in Reqs : spent[q] <= granted[q]
  BY <1>2 DEF IInv, GrantInv, MintedInv
<1>4. /\ spent' \in [Reqs -> Nat]
      /\ \A q \in Reqs : q # r => spent'[q] = spent[q]
      /\ spent'[r] = IF gs[r].duration = "once" THEN 1 ELSE spent[r]
  BY <1>1, <1>2, <1>3 DEF Spend
<1>5. /\ grants' \in [Reqs -> Grant \cup {None}]
      /\ \A q \in Reqs : q # r => grants'[q] = gs[q]
      /\ grants'[r] = IF gs[r].duration = "once" THEN None
                      ELSE [gs[r] EXCEPT !.first = TRUE]
  <2>1. [gs[r] EXCEPT !.first = TRUE] \in Grant
    BY <1>2 DEF Grant
  <2> QED
    BY <1>1, <1>2, <2>1 DEF AfterRelease
<1>6. /\ [gs[r] EXCEPT !.first = TRUE].inc = gs[r].inc
      /\ [gs[r] EXCEPT !.first = TRUE].asker = gs[r].asker
      /\ [gs[r] EXCEPT !.first = TRUE].holder = gs[r].holder
  BY <1>2 DEF Grant
<1>7. ASSUME NEW q \in Reqs
      PROVE  /\ grants'[q] # None =>
                  /\ grants[q] # None /\ grants'[q].inc = grants[q].inc
                  /\ grants'[q].asker = grants[q].asker
                  /\ grants'[q].holder = grants[q].holder /\ spent'[q] = spent[q]
             /\ spent'[q] <= granted[q]
  <2>1. CASE q = r
    <3>1. CASE gs[r].duration = "once"
      BY <1>2, <1>3, <1>4, <1>5, <2>1, <3>1
    <3>2. CASE gs[r].duration # "once"
      <4>1. grants'[r] = [gs[r] EXCEPT !.first = TRUE] /\ spent'[r] = spent[r]
        BY <1>4, <1>5, <3>2
      <4> QED
        BY <1>2, <1>3, <1>6, <2>1, <4>1
    <3> QED
      BY <3>1, <3>2
  <2>2. CASE q # r
    BY <1>1, <1>3, <1>4, <1>5, <2>2
  <2> QED
    BY <2>1, <2>2
<1> QED
  BY <1>4, <1>5, <1>7 DEF GrantsShrink

\* Grants end, and nothing is released.
LEMMA Ended ==
    ASSUME IInv, UNCHANGED spent, grants' \in [Reqs -> Grant \cup {None}],
           \A r \in Reqs : grants'[r] \in {grants[r], None}
    PROVE  GrantsShrink
BY DEF IInv, TypeOK, MintedInv, GrantsShrink

\* Whatever Open does.
LEMMA Opened ==
    ASSUME IInv, secret # None, UNCHANGED secret, NEW d \in BOOLEAN, NEW a \in Askers,
           NEW h \in Holders \cup {None}, d <=> h = None, Open(d, a, h)
    PROVE  PendShrink \/ OpensOne
<1>1. CASE self = None /\ UNCHANGED <<pending, lastReq>>
  BY <1>1 DEF IInv, TypeOK, PendShrink
<1>2. CASE pending' = Kept /\ UNCHANGED lastReq
  BY <1>2, KeptShrinks DEF IInv, PendShrink
<1>3. ASSUME self # None, lastReq < MaxReq, lastReq' = lastReq + 1, NEW x,
             x = [delete |-> d, inc |-> secret.inc, member |-> self, asker |-> a,
                  holder |-> h, consumed |-> FALSE, expiry |-> now + Lifetime(h)],
             pending' = [Kept EXCEPT ![lastReq + 1] = x]
      PROVE  OpensOne
  <2>1. lastReq + 1 \in Reqs /\ lastReq' \in Reqs
    BY <1>3, Bounds DEF IInv, TypeOK, Reqs
  <2>2. now + Lifetime(h) \in Nat
    BY Bounds DEF IInv, TypeOK, Lifetime
  <2>3. secret.inc \in 1..MaxInc /\ self \in Members
    BY <1>3 DEF IInv, TypeOK, Secret
  <2>4. x \in Row /\ x # None
    <3>1. x \in Row
      BY <1>3, <2>2, <2>3 DEF Row
    <3> QED
      BY <3>1, NoneApart
  <2>5. /\ x.inc = secret.inc /\ x.consumed = FALSE /\ x.delete = d /\ x.holder = h
    BY <1>3
  <2>6. /\ pending' \in [Reqs -> Row \cup {None}] /\ pending'[lastReq'] = x
        /\ \A r \in Reqs : r # lastReq' => pending'[r] = Kept[r]
    BY <1>3, <2>1, <2>4, KeptShrinks DEF IInv
  <2> QED
    BY <1>3, <2>1, <2>4, <2>5, <2>6, KeptShrinks DEF IInv, OpensOne
<1> QED
  BY <1>1, <1>2, <1>3 DEF Open

-----------------------------------------------------------------------------
(* Local uses.                                                             *)

LEMMA SnapshotStep ==
    ASSUME IInv, NEW u \in Calls, NEW c \in Uses, Snapshot(u, c)
    PROVE  IInv' /\ Forward
<1>1. UNCHANGED spent
  <2>1. ASSUME NEW r \in Chosen(grants, Local, c), Fast(c, r), spent' = Spend(grants, r)
        PROVE  UNCHANGED spent
    <3>1. r \in Reqs /\ grants[r].duration # "once"
      BY <2>1, ChosenGrant DEF Fast
    <3> QED
      BY <2>1, <3>1 DEF Spend, IInv, TypeOK
  <2> QED
    BY <2>1 DEF Snapshot
<1>2. /\ calls' \in [Calls -> [pc : {"idle", "fenced", "refused"},
                                use : Uses \cup {None}]]
      /\ CallsInv'
  <2>1. CASE UNCHANGED calls
    BY <2>1 DEF IInv, TypeOK, CallsInv
  <2>2. CASE Goto(u, "refused", None) \/ Goto(u, "fenced", c)
    BY <2>2, Went
  <2> QED
    BY <2>1, <2>2 DEF Snapshot
<1>3. UNCHANGED <<now, self, home, rows, lastInc, tombs, lastReq, signed,
                  replies, receipts, origin, granted, sent, answered, revoked>>
  BY DEF Snapshot
<1>4. MintedInv' /\ PendInv' /\ GrantInv' /\ Forward
  BY <1>1, <1>3, TablesStay DEF SameInc, rows
<1>5. OriginInv' /\ DepositOnce' /\ HomeInv' /\ QuarantineOnlyUnsound' /\ NonceInv'
  BY <1>3, OriginsStay, SecretStays, NoncesStay DEF rows, IInv, TypeOK
<1>6. TypeOK'
  BY <1>1, <1>2, <1>3 DEF IInv, TypeOK, rows
<1> QED
  BY <1>2, <1>4, <1>5, <1>6 DEF IInv

LEMMA FencedStep ==
    ASSUME IInv, NEW u \in Calls, Fenced(u)
    PROVE  IInv' /\ Forward
<1> DEFINE c == calls[u].use
           gs == IF IsFlow(c) THEN grants ELSE Swept
<1>1. c \in Uses /\ c \in Holders /\ c # None /\ gs \in {grants, Swept}
  BY UsesAreHolders, NoneApart DEF IInv, CallsInv, Fenced
<1>2. /\ secret # None /\ Goto(u, "idle", None)
      /\ receipts' = receipts \/ receipts' = SweptReceipts
      /\ UNCHANGED <<now, self, home, secret, lastInc, tombs, signed, replies,
                     origin, granted, sent, answered, revoked>>
  BY DEF Fenced, Usable
<1>3. \/ \E r \in Chosen(gs, Local, c) :
            /\ grants' = AfterRelease(gs, r) /\ spent' = Spend(gs, r)
            /\ UNCHANGED <<pending, lastReq>>
      \/ /\ grants' = gs /\ UNCHANGED spent
         /\ UNCHANGED <<pending, lastReq>> \/ Open(FALSE, Local, c)
  BY DEF Fenced
<1> HIDE DEF c, gs
<1>4. GrantsShrink
  <2>1. CASE grants' = gs /\ UNCHANGED spent
    BY <1>1, <2>1, Ended, SweptShrinks DEF IInv, TypeOK
  <2> QED
    BY <1>1, <1>3, <2>1, Released
<1>5. PendShrink \/ OpensOne
  <2>1. CASE UNCHANGED <<pending, lastReq>>
    BY <2>1 DEF IInv, TypeOK, PendShrink
  <2>2. CASE Open(FALSE, Local, c)
    BY <1>1, <1>2, <2>2, Opened DEF Askers
  <2> QED
    BY <1>3, <2>1, <2>2
<1>6. SameInc /\ HomeInv' /\ QuarantineOnlyUnsound' /\ OriginInv' /\ DepositOnce'
  BY <1>2, SecretStays, OriginsStay
<1>7. MintedInv' /\ PendInv' /\ GrantInv' /\ Forward
  BY <1>2, <1>4, <1>5, <1>6, RequestsKept
<1>8. NonceInv' /\ receipts' \in [Keys -> Nat]
  BY <1>2, NoncesStay DEF IInv, TypeOK
<1>9. /\ calls' \in [Calls -> [pc : {"idle", "fenced", "refused"},
                                use : Uses \cup {None}]]
      /\ CallsInv'
  BY <1>2, Went
<1>10. TypeOK'
  <2>1. pending' \in [Reqs -> Row \cup {None}] /\ lastReq' \in 0..MaxReq
    BY <1>5, Bounds DEF PendShrink, OpensOne, IInv, TypeOK, Reqs
  <2> QED
    BY <1>2, <1>4, <1>8, <1>9, <2>1 DEF IInv, TypeOK, GrantsShrink
<1> QED
  BY <1>6, <1>7, <1>8, <1>9, <1>10 DEF IInv

-----------------------------------------------------------------------------
(* Forwarded calls.                                                        *)

\* A nonce without a receipt that arrives in time was never answered.
LEMMA ArrivesFresh ==
    ASSUME IInv, NEW k \in Keys, receipts[k] = 0, Arrives(k)
    PROVE  /\ answered[k] = 0 /\ sent' \in [Keys -> Nat \cup {None}]
           /\ sent'[k] \in Nat /\ sent'[k] <= now
           /\ \A j \in Keys : j # k => sent'[j] = sent[j]
<1>1. /\ now \in Nat /\ receipts \in [Keys -> Nat] /\ answered \in [Keys -> Nat]
      /\ sent \in [Keys -> Nat \cup {None}]
  BY DEF IInv, TypeOK
<1>2. /\ sent[k] # None => now < sent[k] + ForwardDeadline
      /\ sent' \in [Keys -> Nat \cup {None}]
      /\ sent'[k] = IF sent[k] = None THEN now ELSE sent[k]
      /\ \A j \in Keys : j # k => sent'[j] = sent[j]
  BY <1>1 DEF Arrives
<1>3. answered[k] = 0
  <2>1. SUFFICES ASSUME answered[k] # 0 PROVE FALSE
    OBVIOUS
  <2>2. sent[k] # None /\ now >= sent[k] + ReceiptLife
    BY <2>1 DEF IInv, NonceInv
  <2>3. sent[k] \in Nat
    BY <1>1, <2>2
  <2> QED
    BY <1>1, <1>2, <2>2, <2>3, Bounds
<1>4. sent'[k] \in Nat /\ sent'[k] <= now
  BY <1>1, <1>2 DEF IInv, NonceInv
<1> QED
  BY <1>2, <1>3, <1>4

LEMMA ForwardedNonces ==
    ASSUME IInv, NEW k \in Keys, receipts[k] = 0, Arrives(k), UNCHANGED now,
           \/ /\ receipts' = [SweptReceipts EXCEPT ![k] = now + ReceiptLife]
              /\ answered' = [answered EXCEPT ![k] = @ + 1]
           \/ receipts' = SweptReceipts /\ UNCHANGED answered
    PROVE  /\ NonceInv' /\ receipts' \in [Keys -> Nat] /\ answered' \in [Keys -> Nat]
           /\ sent' \in [Keys -> Nat \cup {None}]
<1>1. /\ now \in Nat /\ receipts \in [Keys -> Nat] /\ answered \in [Keys -> Nat]
      /\ sent \in [Keys -> Nat \cup {None}]
  BY DEF IInv, TypeOK
<1>2. /\ answered[k] = 0 /\ sent' \in [Keys -> Nat \cup {None}]
      /\ sent'[k] \in Nat /\ sent'[k] # None /\ sent'[k] <= now
      /\ \A j \in Keys : j # k => sent'[j] = sent[j]
  BY ArrivesFresh, NoneApart
<1>3. /\ SweptReceipts \in [Keys -> Nat]
      /\ \A j \in Keys : SweptReceipts[j] = IF receipts[j] <= now THEN 0 ELSE receipts[j]
  BY ReceiptsSwept DEF IInv
<1>4. receipts' \in [Keys -> Nat] /\ answered' \in [Keys -> Nat]
  BY <1>1, <1>2, <1>3, Bounds
<1>5. \A j \in Keys : j # k =>
        /\ receipts'[j] = (IF receipts[j] <= now THEN 0 ELSE receipts[j])
        /\ answered'[j] = answered[j]
  BY <1>1, <1>3
<1>6. \/ receipts'[k] = now + ReceiptLife /\ answered'[k] = 1
      \/ answered'[k] = 0
  BY <1>1, <1>2, <1>3
<1>7. ASSUME NEW j \in Keys PROVE NonceInv!(j)'
  <2>1. CASE j = k
    BY <1>1, <1>2, <1>6, <2>1, Bounds
  <2>2. CASE j # k
    <3>1. sent[j] \in Nat \cup {None} /\ receipts[j] \in Nat /\ sent'[j] = sent[j]
      BY <1>1, <1>2, <2>2
    <3> QED
      BY <1>1, <1>5, <2>2, <3>1, Bounds DEF IInv, NonceInv
  <2> QED
    BY <2>1, <2>2
<1> QED
  BY <1>2, <1>4, <1>7 DEF NonceInv

LEMMA ForwardedStep ==
    ASSUME IInv, NEW a \in Members, NEW n \in Nonces, NEW c \in Uses, Forwarded(a, n, c)
    PROVE  IInv' /\ Forward
<1> DEFINE k == <<a, n>>
           gs == IF IsFlow(c) THEN grants ELSE Swept
<1>1. c \in Holders /\ c # None /\ gs \in {grants, Swept} /\ k \in Keys
  BY UsesAreHolders, NoneApart DEF Keys
<1>2. /\ secret # None /\ receipts[k] = 0 /\ Arrives(k)
      /\ UNCHANGED <<now, self, home, secret, lastInc, tombs, signed, replies,
                     calls, origin, granted, revoked>>
  BY DEF Forwarded, Usable
<1>3. \/ \E r \in Chosen(gs, a, c) :
            /\ grants' = AfterRelease(gs, r) /\ spent' = Spend(gs, r)
            /\ receipts' = [SweptReceipts EXCEPT ![k] = now + ReceiptLife]
            /\ answered' = [answered EXCEPT ![k] = @ + 1]
            /\ UNCHANGED <<pending, lastReq>>
      \/ /\ grants' = gs /\ receipts' = SweptReceipts /\ UNCHANGED <<spent, answered>>
         /\ UNCHANGED <<pending, lastReq>> \/ Open(FALSE, a, c)
  BY DEF Forwarded
<1> HIDE DEF k, gs
<1>4. GrantsShrink
  <2>1. CASE grants' = gs /\ UNCHANGED spent
    BY <1>1, <2>1, Ended, SweptShrinks DEF IInv, TypeOK
  <2> QED
    BY <1>1, <1>3, <2>1, Released
<1>5. PendShrink \/ OpensOne
  <2>1. CASE UNCHANGED <<pending, lastReq>>
    BY <2>1 DEF IInv, TypeOK, PendShrink
  <2>2. CASE Open(FALSE, a, c)
    BY <1>1, <1>2, <2>2, Opened DEF Askers
  <2> QED
    BY <1>3, <2>1, <2>2
<1>6. SameInc /\ HomeInv' /\ QuarantineOnlyUnsound' /\ OriginInv' /\ DepositOnce'
  BY <1>2, SecretStays, OriginsStay
<1>7. MintedInv' /\ PendInv' /\ GrantInv' /\ Forward
  BY <1>2, <1>4, <1>5, <1>6, RequestsKept
<1>8. /\ NonceInv' /\ receipts' \in [Keys -> Nat] /\ answered' \in [Keys -> Nat]
      /\ sent' \in [Keys -> Nat \cup {None}]
  BY <1>1, <1>2, <1>3, ForwardedNonces
<1>9. CallsInv'
  BY <1>2 DEF IInv, CallsInv
<1>10. TypeOK'
  <2>1. pending' \in [Reqs -> Row \cup {None}] /\ lastReq' \in 0..MaxReq
    BY <1>5, Bounds DEF PendShrink, OpensOne, IInv, TypeOK, Reqs
  <2> QED
    BY <1>2, <1>4, <1>8, <2>1 DEF IInv, TypeOK, GrantsShrink
<1> QED
  BY <1>6, <1>7, <1>8, <1>9, <1>10 DEF IInv

-----------------------------------------------------------------------------
(* Steps that open requests, and steps that end grants.                    *)

LEMMA OpenStep ==
    ASSUME IInv, secret # None, NEW d \in BOOLEAN, NEW a \in Askers,
           NEW h \in Holders \cup {None}, d <=> h = None, Open(d, a, h),
           UNCHANGED <<now, self, home, secret, lastInc, tombs, grants, signed,
                       replies, receipts, calls, hist>>
    PROVE  IInv' /\ Forward
<1> USE DEF hist
<1>1. GrantsShrink
  BY Ended DEF IInv, TypeOK
<1>2. PendShrink \/ OpensOne
  BY Opened
<1>3. SameInc /\ HomeInv' /\ QuarantineOnlyUnsound' /\ OriginInv' /\ DepositOnce'
  BY SecretStays, OriginsStay
<1>4. MintedInv' /\ PendInv' /\ GrantInv' /\ Forward
  BY <1>1, <1>2, <1>3, RequestsKept
<1>5. NonceInv' /\ CallsInv'
  BY NoncesStay DEF IInv, TypeOK, CallsInv
<1>6. pending' \in [Reqs -> Row \cup {None}] /\ lastReq' \in 0..MaxReq
  BY <1>2, Bounds DEF PendShrink, OpensOne, IInv, TypeOK, Reqs
<1>7. TypeOK'
  BY <1>6 DEF IInv, TypeOK
<1> QED
  BY <1>3, <1>4, <1>5, <1>7 DEF IInv

LEMMA RequestFlowStep ==
    ASSUME IInv, NEW a \in Askers, NEW h \in FlowHolders, RequestFlow(a, h)
    PROVE  IInv' /\ Forward
<1>1. h \in Holders /\ h # None
  BY UsesAreHolders, NoneApart
<1> QED
  BY <1>1, OpenStep DEF RequestFlow, Usable

LEMMA DeleteRequestStep ==
    ASSUME IInv, DeleteRequest
    PROVE  IInv' /\ Forward
BY OpenStep DEF DeleteRequest, Askers

LEMMA EndStep ==
    ASSUME IInv, grants' \in [Reqs -> Grant \cup {None}],
           \A r \in Reqs : grants'[r] \in {grants[r], None},
           receipts' = receipts \/ receipts' = SweptReceipts,
           UNCHANGED <<now, self, home, secret, lastInc, tombs, lastReq, pending,
                       signed, replies, calls, hist>>
    PROVE  IInv' /\ Forward
<1> USE DEF hist
<1>1. GrantsShrink /\ PendShrink
  BY Ended DEF IInv, TypeOK, PendShrink
<1>2. SameInc /\ HomeInv' /\ QuarantineOnlyUnsound' /\ OriginInv' /\ DepositOnce'
  BY SecretStays, OriginsStay
<1>3. MintedInv' /\ PendInv' /\ GrantInv' /\ Forward
  BY <1>1, <1>2, RequestsKept
<1>4. NonceInv' /\ receipts' \in [Keys -> Nat] /\ CallsInv'
  BY NoncesStay DEF IInv, TypeOK, CallsInv
<1>5. TypeOK'
  BY <1>4 DEF IInv, TypeOK
<1> QED
  BY <1>2, <1>3, <1>4, <1>5 DEF IInv

LEMMA ListStep ==
    ASSUME IInv, List PROVE IInv' /\ Forward
BY EndStep, SweptShrinks DEF List, IInv

LEMMA RevokeStep ==
    ASSUME IInv, NEW r \in Reqs, Revoke(r) PROVE IInv' /\ Forward
<1>1. /\ grants' \in [Reqs -> Grant \cup {None}]
      /\ \A q \in Reqs : grants'[q] \in {grants[q], None}
  BY DEF Revoke, IInv, TypeOK
<1> QED
  BY <1>1, EndStep DEF Revoke

\* A revocation ends the flow's grants and its open requests together.
LEMMA RevokeFlowsStep ==
    ASSUME IInv, NEW a \in Askers, NEW F \in SUBSET Flows, RevokeFlows(a, F)
    PROVE  IInv' /\ Forward
<1> DEFINE Taken(r) == Withdrawn(pending[r], a, F) /\ ~pending[r].consumed
<1>1. UNCHANGED <<now, self, home, secret, lastInc, tombs, lastReq, signed, replies,
                  receipts, calls, origin, granted, spent, sent, answered>>
  BY DEF RevokeFlows
<1>2. /\ grants' \in [Reqs -> Grant \cup {None}] /\ pending' \in [Reqs -> Row \cup {None}]
      /\ \A r \in Reqs :
           /\ grants'[r] = IF Withdrawn(grants[r], a, F) THEN None ELSE grants[r]
           /\ pending'[r] = IF Taken(r) THEN None ELSE pending[r]
  BY DEF RevokeFlows, IInv, TypeOK
<1>3. /\ lastReq \in 0..MaxReq /\ revoked' \in [Askers \X Flows -> 0..MaxReq]
      /\ \A x \in Askers, f \in Flows :
           revoked'[<<x, f>>] = IF x = a /\ f \in F THEN lastReq ELSE revoked[<<x, f>>]
  BY DEF RevokeFlows, IInv, TypeOK
<1>4. MintedInv'
  <2>1. \A k \in Askers \X Flows : revoked'[k] \in {lastReq, revoked[k]}
    BY DEF RevokeFlows
  <2> QED
    BY <1>1, <1>2, <1>3, <2>1, Bounds DEF IInv, MintedInv
<1>5. ASSUME NEW r \in Reqs, pending'[r] # None PROVE PendInv!(r)'
  <2>1. pending'[r] = pending[r] /\ ~Taken(r) /\ pending[r] \in Row
    BY <1>2, <1>5 DEF IInv, TypeOK
  <2>2. pending[r].asker \in Askers
    BY <2>1 DEF Row
  <2>3. ASSUME ~pending[r].consumed, pending[r].holder # None, IsFlow(pending[r].holder)
        PROVE  r > revoked'[<<pending[r].asker, pending[r].holder[1]>>]
    <3>1. pending[r].holder[1] \in Flows
      BY <2>3 DEF IsFlow
    <3>2. ~(pending[r].asker = a /\ pending[r].holder[1] \in F)
      BY <1>5, <2>1, <2>3 DEF Withdrawn
    <3>3. revoked'[<<pending[r].asker, pending[r].holder[1]>>]
            = revoked[<<pending[r].asker, pending[r].holder[1]>>]
      BY <1>3, <2>2, <3>1, <3>2
    <3> QED
      BY <1>5, <2>1, <2>3, <3>3 DEF IInv, PendInv
  <2> QED
    BY <1>1, <1>5, <2>1, <2>3 DEF IInv, PendInv, IsFlow
<1>6. ASSUME NEW r \in Reqs, grants'[r] # None PROVE GrantInv!(r)'
  <2>1. grants'[r] = grants[r] /\ ~Withdrawn(grants[r], a, F) /\ grants[r] \in Grant
    BY <1>2, <1>6 DEF IInv, TypeOK
  <2>2. grants[r].asker \in Askers /\ grants[r].holder # None
    BY <2>1, NoneApart DEF Grant
  <2>3. ASSUME IsFlow(grants[r].holder)
        PROVE  r > revoked'[<<grants[r].asker, grants[r].holder[1]>>]
    <3>1. grants[r].holder[1] \in Flows
      BY <2>3 DEF IsFlow
    <3>2. ~(grants[r].asker = a /\ grants[r].holder[1] \in F)
      BY <1>6, <2>1, <2>2 DEF Withdrawn
    <3>3. revoked'[<<grants[r].asker, grants[r].holder[1]>>]
            = revoked[<<grants[r].asker, grants[r].holder[1]>>]
      BY <1>3, <2>2, <3>1, <3>2
    <3> QED
      BY <1>6, <2>1, <2>3, <3>3 DEF IInv, GrantInv
  <2> QED
    BY <1>1, <1>6, <2>1, <2>3 DEF IInv, GrantInv, IsFlow
<1>7. Forward
  BY <1>1, <1>2, <1>3, Bounds DEF Forward, IsOpen
<1>8. /\ HomeInv' /\ QuarantineOnlyUnsound' /\ OriginInv' /\ DepositOnce'
      /\ NonceInv' /\ CallsInv'
  <2>1. HomeInv' /\ QuarantineOnlyUnsound' /\ OriginInv' /\ DepositOnce'
    BY <1>1, SecretStays, OriginsStay
  <2>2. now \in Nat
    BY DEF IInv, TypeOK
  <2>3. NonceInv'
    BY <1>1, <2>2, NoncesStay
  <2>4. CallsInv'
    BY <1>1 DEF IInv, CallsInv
  <2> QED
    BY <2>1, <2>3, <2>4
<1>9. TypeOK'
  BY <1>1, <1>2, <1>3 DEF IInv, TypeOK
<1> QED
  BY <1>4, <1>5, <1>6, <1>7, <1>8, <1>9 DEF IInv, PendInv, GrantInv

-----------------------------------------------------------------------------
(* Steps that leave the tables alone.                                      *)

LEMMA QuietStep ==
    ASSUME IInv, TypeOK', HomeInv', CallsInv', now' >= now,
           UNCHANGED <<rows, lastReq, lastInc, tombs, receipts, hist>>
    PROVE  IInv' /\ Forward
<1> USE DEF rows, hist
<1>1. MintedInv' /\ PendInv' /\ GrantInv' /\ Forward
  BY TablesStay DEF SameInc
<1>2. OriginInv' /\ DepositOnce' /\ QuarantineOnlyUnsound'
  BY OriginsStay DEF IInv, QuarantineOnlyUnsound
<1>3. NonceInv'
  BY NoncesStay DEF TypeOK
<1> QED
  BY <1>1, <1>2, <1>3 DEF IInv

LEMMA CallStep ==
    ASSUME IInv, NEW u \in Calls, NEW x \in {"idle", "refused"}, Goto(u, x, None),
           UNCHANGED <<now, self, home, rows, lastInc, tombs, lastReq, signed,
                       replies, receipts, hist>>
    PROVE  IInv' /\ Forward
<1> USE DEF rows, hist
<1>1. /\ calls' \in [Calls -> [pc : {"idle", "fenced", "refused"},
                               use : Uses \cup {None}]]
      /\ CallsInv'
  BY Went
<1>2. TypeOK' /\ now' >= now
  BY <1>1 DEF IInv, TypeOK
<1>3. HomeInv'
  BY DEF IInv, HomeInv
<1> QED
  BY <1>1, <1>2, <1>3, QuietStep

LEMMA FencedRefusedStep ==
    ASSUME IInv, NEW u \in Calls, FencedRefused(u) PROVE IInv' /\ Forward
<1>1. (IF Unsound THEN "refused" ELSE "idle") \in {"idle", "refused"}
  OBVIOUS
<1> QED
  BY <1>1, CallStep DEF FencedRefused

LEMMA RemoteRefusedStep ==
    ASSUME IInv, NEW u \in Calls, RemoteRefused(u) PROVE IInv' /\ Forward
BY CallStep DEF RemoteRefused

LEMMA SignStep ==
    ASSUME IInv, NEW r \in Reqs, NEW d \in Answers, NEW x \in Drifts, Sign(r, d, now + x)
    PROVE  IInv' /\ Forward
<1> USE DEF rows, hist
<1> DEFINE e == [req |-> r, delete |-> d = "none", duration |-> d, issued |-> now + x]
<1>1. d \in Durations /\ now + x \in Nat
  BY ConstantsAssumption DEF Sign, IInv, TypeOK
<1>2. e \in Envelope
  BY <1>1 DEF Envelope
<1>3. /\ signed' = signed \cup {e}
      /\ UNCHANGED <<now, self, home, rows, lastInc, tombs, lastReq, replies,
                     receipts, calls, hist>>
  BY DEF Sign
<1> HIDE DEF e
<1>4. TypeOK' /\ now' >= now
  BY <1>2, <1>3 DEF IInv, TypeOK
<1>5. HomeInv' /\ CallsInv'
  BY <1>3 DEF IInv, HomeInv, CallsInv
<1> QED
  BY <1>3, <1>4, <1>5, QuietStep

LEMMA SetHomeStep ==
    ASSUME IInv, NEW v \in Homes, SetHome(v) PROVE IInv' /\ Forward
<1> USE DEF rows, hist
<1>1. /\ home' \in {"unset", "self"} \cup Members
      /\ home' \in Members => secret = None
  BY ConstantsAssumption DEF SetHome
<1>2. UNCHANGED <<now, self, rows, lastInc, tombs, lastReq, signed, replies,
                  receipts, calls, hist>>
  BY DEF SetHome
<1>3. TypeOK' /\ now' >= now
  BY <1>1, <1>2 DEF IInv, TypeOK
<1>4. HomeInv' /\ CallsInv'
  BY <1>1, <1>2 DEF IInv, HomeInv, CallsInv
<1> QED
  BY <1>2, <1>3, <1>4, QuietStep

LEMMA SetSelfStep ==
    ASSUME IInv, NEW m \in Selves, SetSelf(m) PROVE IInv' /\ Forward
<1> USE DEF rows, hist, SetSelf
<1>1. TypeOK' /\ now' >= now
  BY ConstantsAssumption DEF IInv, TypeOK
<1>2. HomeInv' /\ CallsInv'
  BY DEF IInv, HomeInv, CallsInv
<1> QED
  BY <1>1, <1>2, QuietStep

LEMMA RestartStep ==
    ASSUME IInv, Restart PROVE IInv' /\ Forward
<1> USE DEF rows, hist, Restart
<1>1. TypeOK' /\ now' >= now
  BY DEF IInv, TypeOK
<1>2. HomeInv' /\ CallsInv'
  BY DEF IInv, HomeInv, CallsInv
<1> QED
  BY <1>1, <1>2, QuietStep

LEMMA TickStep ==
    ASSUME IInv, Tick PROVE IInv' /\ Forward
<1> USE DEF rows, hist, Tick
<1>1. TypeOK' /\ now' >= now
  BY DEF IInv, TypeOK
<1>2. HomeInv' /\ CallsInv'
  BY DEF IInv, HomeInv, CallsInv
<1> QED
  BY <1>1, <1>2, QuietStep

-----------------------------------------------------------------------------
(* Steps that mark, drop or create the secret.                             *)

\* The row is marked, damaged or kept; its incarnation stays.
Marked ==
    \/ secret' = secret
    \/ Unsound /\ secret' = [secret EXCEPT !.state = "corrupt"]
    \/ secret # None /\ secret' = [secret EXCEPT !.sound = FALSE]

LEMMA MarkedKeeps ==
    ASSUME IInv, Marked, UNCHANGED home
    PROVE  /\ secret' \in Secret \cup {None} /\ SameInc
           /\ HomeInv' /\ QuarantineOnlyUnsound'
<1>1. CASE secret' = secret
  BY <1>1, SecretStays DEF IInv, TypeOK
<1>2. CASE secret # None /\ secret' # secret
  <2>1. secret \in Secret
    BY <1>2 DEF IInv, TypeOK
  <2>2. /\ secret' \in Secret /\ secret'.inc = secret.inc
        /\ secret'.state = "corrupt" => ~secret'.sound
    <3>1. CASE Unsound /\ secret' = [secret EXCEPT !.state = "corrupt"]
      BY <2>1, <3>1 DEF Secret, Unsound
    <3>2. CASE secret' = [secret EXCEPT !.sound = FALSE]
      BY <2>1, <3>2 DEF Secret
    <3> QED
      BY <1>2, <3>1, <3>2 DEF Marked
  <2> QED
    BY <1>2, <2>2, NoneApart DEF IInv, SameInc, HomeInv, QuarantineOnlyUnsound
<1> QED
  BY <1>1, <1>2 DEF Marked, Unsound

LEMMA MarkStep ==
    ASSUME IInv, Marked, TypeOK', CallsInv',
           UNCHANGED <<now, home, lastInc, tombs, lastReq, pending, grants,
                       receipts, hist>>
    PROVE  IInv' /\ Forward
<1> USE DEF hist
<1>1. SameInc /\ HomeInv' /\ QuarantineOnlyUnsound'
  BY MarkedKeeps
<1>2. MintedInv' /\ PendInv' /\ GrantInv' /\ Forward
  BY <1>1, TablesStay
<1>3. OriginInv' /\ DepositOnce' /\ NonceInv'
  BY OriginsStay, NoncesStay DEF IInv, TypeOK
<1> QED
  BY <1>1, <1>2, <1>3 DEF IInv

LEMMA QuarantineStep ==
    ASSUME IInv, NEW u \in Calls, Quarantine(u) PROVE IInv' /\ Forward
<1> USE DEF hist
<1>1. Marked /\ secret' \in Secret \cup {None}
  BY MarkedKeeps DEF Quarantine, Marked
<1>2. /\ calls' \in [Calls -> [pc : {"idle", "fenced", "refused"},
                               use : Uses \cup {None}]]
      /\ CallsInv'
  BY Went DEF Quarantine
<1>3. TypeOK'
  BY <1>1, <1>2 DEF IInv, TypeOK, Quarantine
<1> QED
  BY <1>1, <1>2, <1>3, MarkStep DEF Quarantine

LEMMA DamageOrRotateStep ==
    ASSUME IInv, Damage \/ Rotate PROVE IInv' /\ Forward
<1> USE DEF hist
<1>1. /\ Marked
      /\ UNCHANGED <<now, self, home, lastInc, tombs, lastReq, pending, grants,
                     signed, replies, receipts, calls, hist>>
  BY DEF Damage, Rotate, Marked, Unsound
<1>2. secret' \in Secret \cup {None}
  BY <1>1, MarkedKeeps
<1>3. TypeOK' /\ CallsInv'
  BY <1>1, <1>2 DEF IInv, TypeOK, CallsInv
<1> QED
  BY <1>1, <1>3, MarkStep

\* With the secret go all of its grants and requests, and there are no others.
LEMMA Dropped ==
    ASSUME IInv, secret # None, DropSecret, UNCHANGED <<home, lastReq, spent>>
    PROVE  /\ secret' = None /\ Cleared /\ PendShrink /\ GrantsShrink
           /\ HomeInv' /\ QuarantineOnlyUnsound'
<1>1. /\ secret' = None /\ pending' \in [Reqs -> Row \cup {None}]
      /\ grants' \in [Reqs -> Grant \cup {None}]
      /\ \A r \in Reqs : pending'[r] \in {pending[r], None} /\ grants'[r] \in {grants[r], None}
  BY DEF DropSecret, WithoutSecret, IInv, TypeOK
<1>2. Cleared
  BY DEF DropSecret, WithoutSecret, IInv, PendInv, GrantInv, Cleared
<1>3. GrantsShrink
  BY <1>1, Ended
<1> QED
  BY <1>1, <1>2, <1>3 DEF PendShrink, HomeInv, QuarantineOnlyUnsound

LEMMA DropStep ==
    ASSUME IInv, secret # None, DropSecret, signed' = signed,
           replies' \subseteq signed \X BOOLEAN,
           UNCHANGED <<now, self, home, lastInc, tombs, lastReq, receipts, calls, hist>>
    PROVE  IInv' /\ Forward
<1> USE DEF hist
<1>1. /\ secret' = None /\ Cleared /\ PendShrink /\ GrantsShrink
      /\ HomeInv' /\ QuarantineOnlyUnsound'
  BY Dropped
<1>2. MintedInv' /\ PendInv' /\ GrantInv' /\ Forward
  BY <1>1, RequestsKept
<1>3. OriginInv' /\ DepositOnce' /\ NonceInv' /\ CallsInv'
  BY OriginsStay, NoncesStay DEF IInv, TypeOK, CallsInv
<1>4. TypeOK'
  BY <1>1 DEF IInv, TypeOK, PendShrink, GrantsShrink
<1> QED
  BY <1>1, <1>2, <1>3, <1>4 DEF IInv

LEMMA OperatorDeleteStep ==
    ASSUME IInv, OperatorDelete PROVE IInv' /\ Forward
<1>1. replies' \subseteq signed \X BOOLEAN
  BY DEF OperatorDelete, IInv, TypeOK
<1> QED
  BY <1>1, DropStep DEF OperatorDelete

\* A new incarnation: there is no grant and no request before it.
LEMMA CreateStep ==
    ASSUME IInv, NEW by \in Deposits \cup {"put"}, Create(by),
           \/ by = "put" /\ UNCHANGED tombs
           \/ by \in Deposits /\ by \notin tombs /\ tombs' = tombs \cup {by}
    PROVE  IInv' /\ Forward
<1>1. /\ lastInc \in 0..MaxInc /\ lastInc + 1 \in 1..MaxInc /\ lastInc' = lastInc + 1
      /\ origin \in [1..MaxInc -> Deposits \cup {"put", None}] /\ secret = None
  BY Bounds DEF Create, IInv, TypeOK
<1>2. /\ secret' = [inc |-> lastInc + 1, state |-> "active", sound |-> TRUE]
      /\ home \in {"unset", "self"}
      /\ UNCHANGED <<now, self, home, lastReq, pending, grants, signed, replies,
                     receipts, calls, granted, spent, sent, answered, revoked>>
  BY DEF Create, Serves
<1>3. secret' \in Secret /\ secret'.state = "active"
  BY <1>1, <1>2 DEF Secret
<1>4. /\ origin' \in [1..MaxInc -> Deposits \cup {"put", None}]
      /\ origin'[lastInc + 1] = by
      /\ \A i \in 1..MaxInc : i # lastInc + 1 => origin'[i] = origin[i]
  BY <1>1 DEF Create
<1>5. MintedInv' /\ PendInv' /\ GrantInv' /\ Forward
  BY <1>1, <1>2, TablesStay DEF SameInc
<1>6. HomeInv' /\ QuarantineOnlyUnsound'
  BY <1>2, <1>3, DistinctAssumption DEF HomeInv, QuarantineOnlyUnsound
<1>7. OriginInv'
  <2>1. \A i \in 1..MaxInc : i # lastInc + 1 =>
          /\ origin'[i] # None => i <= lastInc'
          /\ origin'[i] \in Deposits => origin'[i] \in tombs'
    BY <1>1, <1>4 DEF IInv, OriginInv
  <2>2. by \in Deposits => by \in tombs'
    BY DistinctAssumption
  <2> QED
    BY <1>1, <1>4, <2>1, <2>2 DEF OriginInv
<1>8. DepositOnce'
  <2>1. \A i \in 1..MaxInc : i # lastInc + 1 /\ origin'[i] \in Deposits => origin'[i] # by
    BY <1>4, DistinctAssumption DEF IInv, OriginInv
  <2> QED
    BY <1>4, <2>1 DEF IInv, DepositOnce
<1>9. NonceInv' /\ CallsInv'
  BY <1>2, NoncesStay DEF IInv, TypeOK, CallsInv
<1>10. TypeOK'
  <2>1. tombs' \subseteq Deposits /\ lastInc' \in 0..MaxInc
    BY <1>1 DEF IInv, TypeOK
  <2> QED
    BY <1>2, <1>3, <1>4, <2>1 DEF IInv, TypeOK
<1> QED
  BY <1>5, <1>6, <1>7, <1>8, <1>9, <1>10 DEF IInv

LEMMA PutStep ==
    ASSUME IInv, Put PROVE IInv' /\ Forward
BY CreateStep DEF Put

LEMMA DepositStep ==
    ASSUME IInv, NEW d \in Deposits, Deposit(d) PROVE IInv' /\ Forward
BY CreateStep DEF Deposit

-----------------------------------------------------------------------------
(* The phone's envelopes.                                                  *)

LEMMA RepliesKept ==
    ASSUME IInv, NEW e \in signed, NEW b \in BOOLEAN,
           replies' = LiveReplies \/ replies' = LiveReplies \cup {<<e, b>>}
    PROVE  replies' \subseteq signed \X BOOLEAN
BY DEF IInv, TypeOK, LiveReplies

\* An open request becomes a grant, and is open no more.
LEMMA GrantStep ==
    ASSUME IInv, NEW e \in signed, Valid(e), ~e.delete, Consume(e.req), UNCHANGED secret,
           grants' = [grants EXCEPT ![e.req] = GrantOf(e)],
           granted' = [granted EXCEPT ![e.req] = @ + 1],
           replies' \subseteq signed \X BOOLEAN,
           UNCHANGED <<now, self, home, lastInc, tombs, lastReq, signed, receipts,
                       calls, origin, spent, sent, answered, revoked>>
    PROVE  IInv' /\ Forward
<1> DEFINE r == e.req
           p == pending[r]
           g == GrantOf(e)
<1>1. /\ r \in Reqs /\ e.duration \in Durations /\ e.issued \in Nat
      /\ e.delete \in BOOLEAN
  BY DEF IInv, TypeOK, Envelope
<1>2. /\ p \in Row /\ p # None /\ ~p.consumed /\ p.delete = e.delete
      /\ secret # None /\ secret.inc = p.inc
  BY <1>1 DEF IInv, TypeOK, Valid
<1>3. /\ p.holder # None /\ granted[r] = 0
      /\ IsFlow(p.holder) => r > revoked[<<p.asker, p.holder[1]>>]
  BY <1>1, <1>2 DEF IInv, PendInv
<1>4. g \in Grant /\ g # None
  <2>1. p.inc \in 1..MaxInc /\ p.asker \in Askers /\ p.holder \in Holders
    BY <1>2, <1>3 DEF Row
  <2>2. (IF e.duration \in Timed THEN e.issued + Life[e.duration] ELSE 0) \in Nat
    <3>1. \A d \in Timed : Life[d] \in Nat
      BY ConstantsAssumption
    <3> QED
      BY <1>1, <3>1
  <2>3. g \in Grant
    BY <1>1, <2>1, <2>2 DEF GrantOf, Grant
  <2> QED
    BY <2>3, NoneApart
<1>5. g.inc = p.inc /\ g.asker = p.asker /\ g.holder = p.holder
  BY DEF GrantOf
<1>6. /\ grants' \in [Reqs -> Grant \cup {None}] /\ grants'[r] = g
      /\ \A q \in Reqs : q # r => grants'[q] = grants[q]
  BY <1>1, <1>4 DEF IInv, TypeOK
<1>7. /\ granted' \in [Reqs -> Nat] /\ granted'[r] = 1
      /\ \A q \in Reqs : q # r => granted'[q] = granted[q]
  BY <1>1, <1>3 DEF IInv, TypeOK
<1>8. /\ pending' \in [Reqs -> Row \cup {None}] /\ pending'[r].consumed
      /\ pending'[r] # None /\ pending'[r].inc = p.inc
      /\ pending'[r].delete = p.delete /\ pending'[r].holder = p.holder
      /\ \A q \in Reqs : q # r => pending'[q] = pending[q]
  <2>1. /\ [p EXCEPT !.consumed = TRUE] \in Row
        /\ [p EXCEPT !.consumed = TRUE].consumed
        /\ [p EXCEPT !.consumed = TRUE].inc = p.inc
        /\ [p EXCEPT !.consumed = TRUE].delete = p.delete
        /\ [p EXCEPT !.consumed = TRUE].holder = p.holder
    BY <1>2 DEF Row
  <2>2. pending' = [pending EXCEPT ![r] = [p EXCEPT !.consumed = TRUE]]
    BY DEF Consume
  <2> QED
    BY <1>1, <2>1, <2>2, NoneApart DEF IInv, TypeOK
<1>9. r <= lastReq /\ spent[r] = 0 /\ spent \in [Reqs -> Nat] /\ lastReq \in Nat
  BY <1>1, <1>2, <1>3, Bounds DEF IInv, MintedInv, TypeOK
<1> HIDE DEF r, p, g
<1>10. MintedInv'
  <2>1. ASSUME NEW q \in Reqs
        PROVE  /\ q > lastReq' => pending'[q] = None /\ granted'[q] = 0
               /\ granted'[q] <= 1 /\ spent'[q] <= granted'[q]
    <3>1. CASE q = r
      BY <1>1, <1>7, <1>9, <3>1, Bounds
    <3>2. CASE q # r
      BY <1>7, <1>8, <3>2 DEF IInv, MintedInv
    <3> QED
      BY <3>1, <3>2
  <2> QED
    BY <2>1 DEF IInv, MintedInv
<1>11. ASSUME NEW q \in Reqs, pending'[q] # None PROVE PendInv!(q)'
  <2>1. CASE q = r
    BY <1>1, <1>2, <1>8, <2>1 DEF p, IInv, PendInv
  <2>2. CASE q # r
    BY <1>7, <1>8, <1>11, <2>2 DEF IInv, PendInv, IsFlow
  <2> QED
    BY <2>1, <2>2
<1>12. ASSUME NEW q \in Reqs, grants'[q] # None PROVE GrantInv!(q)'
  <2>1. CASE q = r
    BY <1>2, <1>3, <1>5, <1>6, <1>7, <1>9, <2>1 DEF IsFlow
  <2>2. CASE q # r
    BY <1>6, <1>7, <1>12, <2>2 DEF IInv, GrantInv, IsFlow
  <2> QED
    BY <2>1, <2>2
<1>13. Forward
  BY <1>1, <1>2, <1>6, <1>8, <1>9, Bounds DEF p, Forward, IsOpen
<1>14. /\ HomeInv' /\ QuarantineOnlyUnsound' /\ OriginInv' /\ DepositOnce'
       /\ NonceInv' /\ CallsInv'
  BY SecretStays, OriginsStay, NoncesStay DEF IInv, TypeOK, CallsInv
<1>15. TypeOK'
  BY <1>6, <1>7, <1>8 DEF IInv, TypeOK
<1> QED
  BY <1>10, <1>11, <1>12, <1>13, <1>14, <1>15 DEF IInv, PendInv, GrantInv

LEMMA ApproveStep ==
    ASSUME IInv, NEW e \in signed, Approve(e) PROVE IInv' /\ Forward
<1> USE DEF hist
<1>1. UNCHANGED <<now, self, home, lastInc, tombs, lastReq, signed, receipts,
                  calls, origin, spent, sent, answered, revoked>>
  BY DEF Approve
<1>2. replies' \subseteq signed \X BOOLEAN
  BY RepliesKept DEF Approve
<1>3. CASE Marked /\ UNCHANGED <<pending, grants, granted>>
  <2>1. secret' \in Secret \cup {None}
    BY <1>1, <1>3, MarkedKeeps
  <2>2. TypeOK' /\ CallsInv'
    BY <1>1, <1>2, <1>3, <2>1 DEF IInv, TypeOK, CallsInv
  <2> QED
    BY <1>1, <1>3, <2>2, MarkStep
<1>4. CASE Granted(e)
  <2>1. Valid(e) /\ secret # None
    BY <1>4 DEF Granted, Valid
  <2>2. CASE DropSecret /\ UNCHANGED granted
    BY <1>1, <1>2, <2>1, <2>2, DropStep
  <2> QED
    BY <1>1, <1>2, <1>4, <2>1, <2>2, GrantStep DEF Granted
<1> QED
  BY <1>3, <1>4 DEF Approve, Refused, Marked, rows

-----------------------------------------------------------------------------
(* The invariant.                                                          *)

LEMMA InitInv == Init => IInv
<1> SUFFICES ASSUME Init PROVE IInv
  OBVIOUS
<1>1. TypeOK
  BY Bounds, ConstantsAssumption DEF Init, TypeOK
<1>2. CallsInv /\ OriginInv /\ DepositOnce
  BY NoneApart DEF Init, CallsInv, OriginInv, DepositOnce
<1>3. MintedInv /\ PendInv /\ GrantInv
  BY Bounds DEF Init, MintedInv, PendInv, GrantInv
<1>4. HomeInv /\ NonceInv /\ QuarantineOnlyUnsound
  BY DEF Init, HomeInv, NonceInv, QuarantineOnlyUnsound
<1> QED
  BY <1>1, <1>2, <1>3, <1>4 DEF IInv

LEMMA StepInv ==
    ASSUME IInv, Next PROVE IInv' /\ Forward
<1>1. CASE \E u \in Calls, c \in Uses : Snapshot(u, c)
  BY <1>1, SnapshotStep
<1>2. CASE \E u \in Calls :
             Fenced(u) \/ FencedRefused(u) \/ Quarantine(u) \/ RemoteRefused(u)
  BY <1>2, FencedStep, FencedRefusedStep, QuarantineStep, RemoteRefusedStep
<1>3. CASE \E a \in Members \ {self}, n \in Nonces, c \in Uses : Forwarded(a, n, c)
  BY <1>3, ForwardedStep
<1>4. CASE \E a \in Askers \ {self}, h \in FlowHolders : RequestFlow(a, h)
  BY <1>4, RequestFlowStep
<1>5. CASE \E a \in Askers \ {self}, F \in Installs \cup {{f} : f \in Flows} :
             RevokeFlows(a, F)
  <2>1. Installs \cup {{f} : f \in Flows} \subseteq SUBSET Flows
    BY ConstantsAssumption
  <2> QED
    BY <1>5, <2>1, RevokeFlowsStep
<1>6. CASE \E r \in Reqs, d \in Answers, x \in Drifts : Sign(r, d, now + x)
  BY <1>6, SignStep
<1>7. CASE \E e \in signed : Approve(e)
  BY <1>7, ApproveStep
<1>8. CASE \E d \in Deposits : Deposit(d)
  BY <1>8, DepositStep
<1>9. CASE \E r \in Reqs : Revoke(r)
  BY <1>9, RevokeStep
<1>10. CASE (\E v \in Homes : SetHome(v)) \/ \E m \in Selves : SetSelf(m)
  BY <1>10, SetHomeStep, SetSelfStep
<1>11. CASE DeleteRequest \/ List \/ Put \/ OperatorDelete
  BY <1>11, DeleteRequestStep, ListStep, PutStep, OperatorDeleteStep
<1>12. CASE Damage \/ Rotate \/ Restart \/ Tick
  BY <1>12, DamageOrRotateStep, RestartStep, TickStep
<1> QED
  BY <1>1, <1>2, <1>3, <1>4, <1>5, <1>6, <1>7, <1>8, <1>9, <1>10, <1>11, <1>12 DEF Next

LEMMA StutterInv ==
    ASSUME IInv, UNCHANGED vars PROVE IInv' /\ Forward
<1> USE DEF vars, hist
<1>1. TypeOK' /\ now' >= now
  BY DEF IInv, TypeOK
<1>2. HomeInv' /\ CallsInv'
  BY DEF IInv, HomeInv, CallsInv
<1> QED
  BY <1>1, <1>2, QuietStep DEF rows

\* The invariant of all proofs here: every transaction, refusal, retry, deletion
\* and restart keeps it.
THEOREM Inductive == Spec => []IInv
<1>1. IInv /\ [Next]_vars => IInv'
  BY StepInv, StutterInv
<1> QED
  BY <1>1, InitInv, PTL DEF Spec

\* Every reachable state of the vault's secret tables has its type.
THEOREM TypeCorrect == Spec => []TypeOK
<1>1. IInv => TypeOK
  BY DEF IInv
<1> QED
  BY <1>1, Inductive, PTL

\* An approval for one use releases the secret afresh once, however many local
\* and forwarded calls race for it (commit_agent_release, commit_flow_release).
THEOREM OnceReleasesOnce == Spec => []OnceIsOnce
<1>1. IInv => OnceIsOnce
  BY DEF IInv, TypeOK, MintedInv, OnceIsOnce
<1> QED
  BY <1>1, Inductive, PTL

\* secret_approval_item_tx grants a request once, whatever the phone signs for it
\* and however often it is sent.
THEOREM ApprovalGrantsOnce == Spec => []OneGrantPerRequest
<1>1. IInv => OneGrantPerRequest
  BY DEF IInv, MintedInv, OneGrantPerRequest
<1> QED
  BY <1>1, Inductive, PTL

\* The retries of a forwarded call get one fresh release: its receipt outlives
\* the deadline after which the asker stops (SECRET_FORWARD_DEADLINE).
THEOREM RetriesReleaseOnce == Spec => []NonceReleasedOnce
<1>1. IInv => NonceReleasedOnce
  <2> SUFFICES ASSUME IInv, NEW k \in Keys PROVE answered[k] <= 1
    BY DEF NonceReleasedOnce
  <2>1. answered[k] # 0 => answered[k] = 1
    BY DEF IInv, NonceInv
  <2> QED
    BY <2>1
<1> QED
  BY <1>1, Inductive, PTL

\* Grants and requests belong to the incarnation of the secret that exists.
THEOREM RowsFollowSecret == Spec => []GrantsFollowSecret
<1>1. IInv => GrantsFollowSecret
  <2> SUFFICES ASSUME IInv, NEW r \in Reqs, NEW t \in {pending, grants}, t[r] # None
               PROVE  secret # None /\ t[r].inc = secret.inc
    BY DEF GrantsFollowSecret
  <2>1. CASE t = pending
    BY <2>1 DEF IInv, PendInv
  <2>2. CASE t = grants
    BY <2>2 DEF IInv, GrantInv
  <2> QED
    BY <2>1, <2>2
<1> QED
  BY <1>1, Inductive, PTL

\* A vault whose secrets' home is another member holds no secret, grant or
\* request (set_secret_home_audited against local_create_allowed).
THEOREM ForeignHomeIsEmpty == Spec => []HomeNotStranded
<1>1. IInv => HomeNotStranded
  BY DEF IInv, HomeInv, PendInv, GrantInv, HomeNotStranded, Empty
<1> QED
  BY <1>1, Inductive, PTL

\* revoke_flow_grants_from takes the open requests with the grants, so no
\* envelope signed before brings the flow back.
THEOREM RevocationHolds == Spec => []RevokedFlowStaysRevoked
<1>1. IInv => RevokedFlowStaysRevoked
  BY DEF IInv, GrantInv, RevokedFlowStaysRevoked
<1> QED
  BY <1>1, Inductive, PTL

\* deposit_tx creates one secret for a deposit, however often it is sent.
THEOREM DepositCreatesOnce == Spec => []DepositOnce
<1>1. IInv => DepositOnce
  BY DEF IInv
<1> QED
  BY <1>1, Inductive, PTL

\* Only a row that does not open is quarantined, however late the mark comes
\* (refuse_secret_target, secret_approval_item_tx, rotate_agent_secrets_tx).
THEOREM QuarantineIsRight == Spec => []QuarantineOnlyUnsound
<1>1. IInv => QuarantineOnlyUnsound
  BY DEF IInv
<1> QED
  BY <1>1, Inductive, PTL

-----------------------------------------------------------------------------
(* The refinement.                                                         *)

\* The stage of a request is decided by whether it was made, open and granted.
Stage(r) ==
    /\ life[r] \in Abstract!Stages
    /\ r > lastReq <=> life[r] = "unmade"
    /\ grants[r] # None <=> life[r] = "granted"
    /\ IsOpen(r) <=> life[r] = "open"

LEMMA Staged == IInv => \A r \in Reqs : Stage(r)
<1> SUFFICES ASSUME IInv, NEW r \in Reqs PROVE Stage(r)
  OBVIOUS
<1>1. r > lastReq => pending[r] = None /\ granted[r] = 0
  BY DEF IInv, MintedInv
<1>2. grants[r] # None => granted[r] = 1
  BY DEF IInv, GrantInv
<1>3. IsOpen(r) => granted[r] = 0 /\ pending[r] # None
  BY DEF IInv, PendInv, IsOpen
<1>4. life[r] = IF r > lastReq THEN "unmade"
                ELSE IF grants[r] # None THEN "granted"
                ELSE IF IsOpen(r) THEN "open" ELSE "over"
  BY DEF life, IsOpen
<1> QED
  BY <1>1, <1>2, <1>3, <1>4 DEF Stage, Abstract!Stages

LEMMA StagedNext == IInv' => (\A r \in Reqs : Stage(r))'
BY Staged, PTL

\* A step moves every request forward or leaves it.
LEMMA StepMoves ==
    ASSUME IInv, IInv', Forward PROVE Abstract!Next
<1>1. ASSUME NEW r \in Reqs
      PROVE  /\ life'[r] \in Abstract!Stages
             /\ life'[r] = life[r] \/ <<life[r], life'[r]>> \in Abstract!Moves
  <2>0. lastReq \in Nat /\ r \in Nat
    BY Bounds DEF IInv, TypeOK
  <2>1. Stage(r)
    BY Staged
  <2>2. Stage(r)'
    BY StagedNext
  <2>3. /\ lastReq' \in {lastReq, lastReq + 1}
        /\ IsOpen(r)' => IsOpen(r) \/ r > lastReq
        /\ r > lastReq /\ r <= lastReq' => IsOpen(r)'
        /\ grants'[r] # None => grants[r] # None \/ IsOpen(r)
    BY DEF Forward
  <2> QED
    BY <2>0, <2>1, <2>2, <2>3 DEF Stage, Abstract!Stages, Abstract!Moves
<1>2. life' \in [Reqs -> Abstract!Stages]
  <2>1. life' = [r \in Reqs |-> life'[r]]
    BY DEF life
  <2> QED
    BY <1>1, <2>1
<1> QED
  BY <1>1, <1>2 DEF Abstract!Next

\* SecretGrants implements SecretRequests: a request is decided at most once, and
\* what is decided, expired, withdrawn, revoked or spent never comes back.
THEOREM Refines == Spec => RequestsMoveForward
<1>1. Init => Abstract!Init
  BY Bounds DEF Init, Abstract!Init, life
<1>2. IInv /\ [Next]_vars => [Abstract!Next]_life
  <2> SUFFICES ASSUME IInv, [Next]_vars PROVE Abstract!Next
    OBVIOUS
  <2>1. IInv' /\ Forward
    BY StepInv, StutterInv
  <2> QED
    BY <2>1, StepMoves
<1> QED
  BY <1>1, <1>2, Inductive, PTL DEF Spec, RequestsMoveForward, Abstract!Spec

-----------------------------------------------------------------------------
(* The queues.                                                             *)

\* The queues of the rows p, as QueuesBounded counts them.
Queued(p, flow) ==
    {r \in Reqs : /\ p[r] # None /\ ~p[r].delete
                  /\ IsFlow(p[r].holder) <=> flow}
OfScope(p, a, s) == {r \in Queued(p, FALSE) : p[r].asker = a /\ p[r].holder[1] = s}
OfInstall(p, a, i) == {r \in Queued(p, TRUE) : p[r].asker = a /\ p[r].holder[1] \in i}
WithinLimits(p) ==
    /\ \A flow \in BOOLEAN : Cardinality(Queued(p, flow)) <= MaxPending
    /\ \A a \in Askers :
        /\ \A s \in Scopes : Cardinality(OfScope(p, a, s)) <= MaxPerHolder
        /\ \A i \in Installs : Cardinality(OfInstall(p, a, i)) <= MaxPerHolder

LEMMA Limits == MaxPending \in Nat /\ MaxPerHolder \in Nat
BY ConstantsAssumption

LEMMA QueuesAreLimited == QueuesBounded <=> WithinLimits(pending)
<1>1. \A flow \in BOOLEAN :
        /\ Queue(flow) = Queued(pending, flow)
        /\ Cardinality(Queue(flow)) \in Nat
  <2>1. IsFiniteSet(Reqs)
    BY Bounds, FS_Interval DEF Reqs
  <2>2. \A flow \in BOOLEAN : Queue(flow) \subseteq Reqs
    BY DEF Queue
  <2>3. \A flow \in BOOLEAN : Cardinality(Queue(flow)) \in Nat
    BY <2>1, <2>2, FS_Subset, FS_CardinalityType
  <2> QED
    BY <2>3 DEF Queue, Queued
<1>2. TRUE \in BOOLEAN /\ FALSE \in BOOLEAN
  OBVIOUS
<1> QED
  BY <1>1, <1>2 DEF QueuesBounded, WithinLimits, OfScope, OfInstall

LEMMA Counted ==
    ASSUME NEW S \in SUBSET Reqs, NEW T \in SUBSET S
    PROVE  /\ IsFiniteSet(S) /\ Cardinality(S) \in Nat /\ Cardinality(T) \in Nat
           /\ Cardinality(T) <= Cardinality(S)
<1>1. IsFiniteSet(Reqs)
  BY Bounds, FS_Interval DEF Reqs
<1>2. IsFiniteSet(S) /\ IsFiniteSet(T) /\ Cardinality(T) <= Cardinality(S)
  BY <1>1, FS_Subset
<1> QED
  BY <1>2, FS_CardinalityType

LEMMA OneMore ==
    ASSUME NEW S \in SUBSET Reqs, NEW T \in SUBSET Reqs, NEW x, T \subseteq S \cup {x},
           NEW n \in Nat, ~(Cardinality(S) >= n)
    PROVE  Cardinality(T) <= n
<1>1. IsFiniteSet(S) /\ Cardinality(S) \in Nat /\ Cardinality(T) \in Nat
  BY Counted
<1>2. /\ IsFiniteSet(S \cup {x})
      /\ Cardinality(S \cup {x}) \in {Cardinality(S), Cardinality(S) + 1}
  BY <1>1, FS_AddElement
<1>3. Cardinality(T) <= Cardinality(S \cup {x})
  BY <1>2, FS_Subset
<1> QED
  BY <1>1, <1>2, <1>3

\* Rows go, or are marked in a way no queue counts.
Thins(p, q) ==
    \A r \in Reqs : q[r] # None =>
        /\ p[r] # None /\ q[r].delete = p[r].delete
        /\ q[r].asker = p[r].asker /\ q[r].holder = p[r].holder

LEMMA ThinnerIsWithin ==
    ASSUME NEW p, NEW q, WithinLimits(p), Thins(p, q) PROVE WithinLimits(q)
<1>1. \A flow \in BOOLEAN : Queued(q, flow) \subseteq Queued(p, flow)
  BY DEF Thins, Queued
<1>2. \A flow \in BOOLEAN : Queued(p, flow) \subseteq Reqs
  BY DEF Queued
<1>3. ASSUME NEW flow \in BOOLEAN PROVE Cardinality(Queued(q, flow)) <= MaxPending
  <2>1. Cardinality(Queued(p, flow)) <= MaxPending
    BY DEF WithinLimits
  <2> QED
    BY <1>1, <1>2, <2>1, Counted, Limits
<1>4. ASSUME NEW a \in Askers, NEW s \in Scopes
      PROVE  Cardinality(OfScope(q, a, s)) <= MaxPerHolder
  <2>1. Cardinality(OfScope(p, a, s)) <= MaxPerHolder
    BY DEF WithinLimits
  <2>2. OfScope(q, a, s) \subseteq OfScope(p, a, s) /\ OfScope(p, a, s) \subseteq Reqs
    BY DEF OfScope, Queued, Thins
  <2> QED
    BY <2>1, <2>2, Counted, Limits
<1>5. ASSUME NEW a \in Askers, NEW i \in Installs
      PROVE  Cardinality(OfInstall(q, a, i)) <= MaxPerHolder
  <2>1. Cardinality(OfInstall(p, a, i)) <= MaxPerHolder
    BY DEF WithinLimits
  <2>2. /\ OfInstall(q, a, i) \subseteq OfInstall(p, a, i)
        /\ OfInstall(p, a, i) \subseteq Reqs
    BY DEF OfInstall, Queued, Thins
  <2> QED
    BY <2>1, <2>2, Counted, Limits
<1> QED
  BY <1>3, <1>4, <1>5 DEF WithinLimits

\* A request is inserted where no queue it joins is full.
LEMMA RoomIsWithin ==
    ASSUME NEW p, NEW q, WithinLimits(p), NEW n \in Reqs, NEW a \in Askers, NEW h,
           q[n].asker = a, q[n].holder = h, q[n].delete \/ ~Full(p, a, h),
           \A r \in Reqs : r # n => q[r] = p[r]
    PROVE  WithinLimits(q)
<1> DEFINE pool == {r \in Reqs : /\ p[r] # None /\ ~p[r].delete
                                 /\ IsFlow(p[r].holder) <=> IsFlow(h)}
           own == {r \in pool : p[r].asker = a /\ SamePool(p[r].holder, h)}
<1>1. ~q[n].delete => /\ ~(Cardinality(pool) >= MaxPending)
                      /\ ~(Cardinality(own) >= MaxPerHolder)
  BY DEF Full
<1>2. pool \in SUBSET Reqs /\ own \in SUBSET Reqs
  OBVIOUS
<1>3. ASSUME NEW flow \in BOOLEAN PROVE Cardinality(Queued(q, flow)) <= MaxPending
  <2>1. Queued(q, flow) \in SUBSET Reqs /\ Queued(p, flow) \in SUBSET Reqs
    BY DEF Queued
  <2>2. CASE n \in Queued(q, flow)
    <3>1. ~q[n].delete /\ Queued(q, flow) \subseteq pool \cup {n}
      BY <2>2 DEF Queued
    <3> HIDE DEF pool, own
    <3> QED
      BY <1>1, <1>2, <2>1, <3>1, OneMore, Limits
  <2>3. CASE n \notin Queued(q, flow)
    <3>1. Queued(q, flow) \subseteq Queued(p, flow)
      BY <2>3 DEF Queued
    <3>2. Cardinality(Queued(p, flow)) <= MaxPending
      BY DEF WithinLimits
    <3> QED
      BY <2>1, <3>1, <3>2, Counted, Limits
  <2> QED
    BY <2>2, <2>3
<1>4. ASSUME NEW b \in Askers, NEW s \in Scopes
      PROVE  Cardinality(OfScope(q, b, s)) <= MaxPerHolder
  <2>1. OfScope(q, b, s) \in SUBSET Reqs /\ OfScope(p, b, s) \in SUBSET Reqs
    BY DEF OfScope, Queued
  <2>2. CASE n \in OfScope(q, b, s)
    <3>1. ~q[n].delete /\ ~IsFlow(h) /\ b = a /\ s = h[1]
      BY <2>2 DEF OfScope, Queued
    <3>2. OfScope(q, b, s) \subseteq own \cup {n}
      BY <3>1 DEF OfScope, Queued, SamePool
    <3> HIDE DEF pool, own
    <3> QED
      BY <1>1, <1>2, <2>1, <3>1, <3>2, OneMore, Limits
  <2>3. CASE n \notin OfScope(q, b, s)
    <3>1. OfScope(q, b, s) \subseteq OfScope(p, b, s)
      BY <2>3 DEF OfScope, Queued
    <3>2. Cardinality(OfScope(p, b, s)) <= MaxPerHolder
      BY DEF WithinLimits
    <3> QED
      BY <2>1, <3>1, <3>2, Counted, Limits
  <2> QED
    BY <2>2, <2>3
<1>5. ASSUME NEW b \in Askers, NEW i \in Installs
      PROVE  Cardinality(OfInstall(q, b, i)) <= MaxPerHolder
  <2>1. OfInstall(q, b, i) \in SUBSET Reqs /\ OfInstall(p, b, i) \in SUBSET Reqs
    BY DEF OfInstall, Queued
  <2>2. CASE n \in OfInstall(q, b, i)
    <3>1. ~q[n].delete /\ IsFlow(h) /\ b = a /\ h[1] \in i
      BY <2>2 DEF OfInstall, Queued
    <3>2. OfInstall(q, b, i) \subseteq own \cup {n}
      BY <3>1 DEF OfInstall, Queued, SamePool
    <3> HIDE DEF pool, own
    <3> QED
      BY <1>1, <1>2, <2>1, <3>1, <3>2, OneMore, Limits
  <2>3. CASE n \notin OfInstall(q, b, i)
    <3>1. OfInstall(q, b, i) \subseteq OfInstall(p, b, i)
      BY <2>3 DEF OfInstall, Queued
    <3>2. Cardinality(OfInstall(p, b, i)) <= MaxPerHolder
      BY DEF WithinLimits
    <3> QED
      BY <2>1, <3>1, <3>2, Counted, Limits
  <2> QED
    BY <2>2, <2>3
<1> QED
  BY <1>3, <1>4, <1>5 DEF WithinLimits

LEMMA OpenIsWithin ==
    ASSUME IInv, WithinLimits(pending), NEW d \in BOOLEAN, NEW a \in Askers, NEW h,
           Open(d, a, h)
    PROVE  WithinLimits(pending')
<1>1. WithinLimits(Kept)
  <2>1. Thins(pending, Kept)
    BY KeptShrinks DEF IInv, Thins
  <2> QED
    BY <2>1, ThinnerIsWithin
<1>2. CASE pending' = pending \/ pending' = Kept
  BY <1>1, <1>2
<1>3. ASSUME ~Settled(d, a, h), lastReq < MaxReq, NEW x,
             x = [delete |-> d, inc |-> secret.inc, member |-> self, asker |-> a,
                  holder |-> h, consumed |-> FALSE, expiry |-> now + Lifetime(h)],
             pending' = [Kept EXCEPT ![lastReq + 1] = x]
      PROVE  WithinLimits(pending')
  <2>1. lastReq + 1 \in Reqs
    BY <1>3, Bounds DEF IInv, TypeOK, Reqs
  <2>2. x.asker = a /\ x.holder = h /\ x.delete = d
    BY <1>3
  <2>3. /\ pending'[lastReq + 1] = x
        /\ \A r \in Reqs : r # lastReq + 1 => pending'[r] = Kept[r]
    BY <1>3, <2>1, KeptShrinks DEF IInv
  <2>4. d \/ ~Full(Kept, a, h)
    BY <1>3 DEF Settled
  <2> QED
    BY <1>1, <2>1, <2>2, <2>3, <2>4, RoomIsWithin
<1> QED
  BY <1>2, <1>3 DEF Open

LEMMA StepIsWithin ==
    ASSUME IInv, WithinLimits(pending), Next PROVE WithinLimits(pending')
<1> USE DEF rows
<1>1. CASE UNCHANGED pending
  BY <1>1
<1>2. ASSUME NEW u \in Calls, Fenced(u) PROVE WithinLimits(pending')
  <2>1. UNCHANGED pending \/ Open(FALSE, Local, calls[u].use)
    BY <1>2 DEF Fenced
  <2> QED
    BY <1>1, <2>1, OpenIsWithin DEF Askers
<1>3. ASSUME NEW a \in Members, NEW n \in Nonces, NEW c \in Uses, Forwarded(a, n, c)
      PROVE  WithinLimits(pending')
  <2>1. UNCHANGED pending \/ Open(FALSE, a, c)
    BY <1>3 DEF Forwarded
  <2> QED
    BY <1>1, <2>1, OpenIsWithin DEF Askers
<1>4. ASSUME NEW a \in Askers, NEW h \in FlowHolders, RequestFlow(a, h)
      PROVE  WithinLimits(pending')
  BY <1>4, OpenIsWithin DEF RequestFlow
<1>5. CASE DeleteRequest
  BY <1>5, OpenIsWithin DEF DeleteRequest, Askers
<1>6. ASSUME \A r \in Reqs : pending'[r] \in {pending[r], None}
      PROVE  WithinLimits(pending')
  <2>1. Thins(pending, pending')
    BY <1>6 DEF Thins
  <2> QED
    BY <2>1, ThinnerIsWithin
<1>7. ASSUME NEW a, NEW F, RevokeFlows(a, F) PROVE WithinLimits(pending')
  BY <1>6, <1>7 DEF RevokeFlows
<1>8. CASE DropSecret
  BY <1>6, <1>8 DEF DropSecret, WithoutSecret
<1>9. ASSUME NEW e \in signed, Valid(e), Consume(e.req) PROVE WithinLimits(pending')
  <2>1. e.req \in Reqs /\ pending[e.req] \in Row /\ pending[e.req] # None
    BY <1>9 DEF IInv, TypeOK, Envelope, Valid
  <2> DEFINE x == [pending[e.req] EXCEPT !.consumed = TRUE]
  <2>2. /\ x.delete = pending[e.req].delete /\ x.asker = pending[e.req].asker
        /\ x.holder = pending[e.req].holder
    BY <2>1 DEF Row
  <2>3. pending' = [pending EXCEPT ![e.req] = x]
    BY <1>9 DEF Consume
  <2> HIDE DEF x
  <2>4. Thins(pending, pending')
    BY <2>1, <2>2, <2>3 DEF Thins, IInv, TypeOK
  <2> QED
    BY <2>4, ThinnerIsWithin
<1>10. ASSUME NEW e \in signed, Approve(e) PROVE WithinLimits(pending')
  BY <1>1, <1>8, <1>9, <1>10 DEF Approve, Granted, Refused
<1>11. CASE OperatorDelete
  BY <1>8, <1>11 DEF OperatorDelete
<1>12. ASSUME NEW u \in Calls, FencedRefused(u) \/ Quarantine(u) \/ RemoteRefused(u)
       PROVE  UNCHANGED pending
  BY <1>12 DEF FencedRefused, Quarantine, RemoteRefused
<1>13. ASSUME NEW u, NEW c, Snapshot(u, c) PROVE UNCHANGED pending
  BY <1>13 DEF Snapshot
<1>14. ASSUME NEW r, NEW d, NEW x, Sign(r, d, x) PROVE UNCHANGED pending
  BY <1>14 DEF Sign
<1>15. ASSUME NEW x, Deposit(x) \/ Revoke(x) \/ SetHome(x) \/ SetSelf(x)
       PROVE  UNCHANGED pending
  BY <1>15 DEF Deposit, Create, Revoke, SetHome, SetSelf
<1>16. List \/ Put \/ Damage \/ Rotate \/ Restart \/ Tick => UNCHANGED pending
  BY DEF List, Put, Create, Damage, Rotate, Restart, Tick
<1> QED
  BY <1>1, <1>2, <1>3, <1>4, <1>5, <1>7, <1>10, <1>11, <1>12, <1>13, <1>14, <1>15,
     <1>16 DEF Next

\* However requests are opened, answered, revoked and swept, no queue of requests
\* outgrows its limit, in total or for one asker's scope or install (pending and
\* flow_pending, which count and insert in one transaction).
THEOREM QueuesStayBounded == Spec => []QueuesBounded
<1>1. Init => QueuesBounded
  <2> SUFFICES ASSUME Init PROVE WithinLimits(pending)
    BY QueuesAreLimited
  <2>1. \A S \in SUBSET Reqs : S = {} => Cardinality(S) = 0
    BY FS_EmptySet
  <2>2. \A flow \in BOOLEAN : Queued(pending, flow) = {}
    BY DEF Init, Queued
  <2>3. \A a \in Askers, s \in Scopes : OfScope(pending, a, s) = {}
    BY <2>2 DEF OfScope
  <2>4. \A a \in Askers, i \in Installs : OfInstall(pending, a, i) = {}
    BY <2>2 DEF OfInstall
  <2> QED
    BY <2>1, <2>2, <2>3, <2>4, Limits DEF WithinLimits
<1>2. IInv /\ WithinLimits(pending) /\ [Next]_vars => WithinLimits(pending')
  BY StepIsWithin DEF vars
<1>3. WithinLimits(pending') <=> WithinLimits(pending)'
  BY DEF WithinLimits, OfScope, OfInstall, Queued, Thins, IsFlow
<1> QED
  BY <1>1, <1>2, <1>3, QueuesAreLimited, Inductive, PTL DEF Spec
=============================================================================
