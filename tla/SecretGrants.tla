---------------------------- MODULE SecretGrants ----------------------------
(***************************************************************************)
(* Agent secrets of one vault: how a secret comes and goes, how a use that *)
(* no grant covers opens a request, how a phone's signed envelope turns    *)
(* the request into a grant, and how grants release the secret to local    *)
(* agents and flows and, sealed, to paired computers                       *)
(* (credentials-core/src/store_secret_*.rs, store_agent_secrets.rs;        *)
(* credentials-module/src/secret_*.rs).                                    *)
(*                                                                         *)
(* The tables are modelled for one secret name.  Every fenced write is one *)
(* transaction, so one step; a local use first reads a snapshot and then,  *)
(* if it has to write, decides again in a transaction of its own, and the  *)
(* quarantine that a refusal asks for is yet another transaction.  A call  *)
(* that changes nothing (a refusal, a replayed answer, a transaction that  *)
(* fails and rolls back) is a stuttering step.                             *)
(***************************************************************************)
EXTENDS Integers, FiniteSets

CONSTANTS
    Scopes, Heads,  \* asking scopes of agents and workers, and the heads
    Parent,         \* the linked head of a worker, or None
    Flows, Installs,  \* flow identities, and the sets of one install
    Methods,        \* methods a flow may use
    Members,        \* federation members: this vault and paired computers
    Local, None,    \* LOCAL_ASKING_MEMBER; no value
    Calls,          \* concurrent local calls
    Nonces,         \* nonces of forwarded calls
    Deposits,       \* deposit messages of the phone
    Life,           \* how long a grant of each timed duration lasts
    PendingLife, FlowPendingLife, \* SECRET_, FLOW_SECRET_PENDING_LIFETIME_LIMIT_MS
    Skew,           \* SECRET_ISSUE_SKEW_LIMIT_MS
    ReceiptLife,    \* SECRET_RELEASE_RECEIPT_LIFETIME_MS
    ForwardDeadline,  \* SECRET_FORWARD_DEADLINE
    MaxPerHolder, MaxPending,  \* MAX_SECRET_PENDING_PER_SCOPE, _TOTAL; of flows
    Selves, Homes,  \* member ids and home settings the operator may choose
    Answers,        \* durations the phone may sign, "none" for a deletion
    Faulty,         \* whether a row may be damaged
    Drifts,         \* the phone's clock minus the vault's
    MaxInc, MaxReq, MaxTime, MaxSigned  \* bounds: secrets, requests, time, envelopes

Timed == DOMAIN Life
Coverages == {"scope", "agent_and_workers"}
AgentHolders ==
    {h \in Scopes \X Coverages : h[2] = "scope" \/ h[1] \in Heads}
FlowHolders == Flows \X ((SUBSET Methods) \ {{}})
\* Whom a grant serves, and what a use asks for: an asking scope and the coverage
\* it would request, or a flow identity and methods (a login's use is one method).
Holders == AgentHolders \cup FlowHolders
Uses == AgentHolders \cup (Flows \X {{m} : m \in Methods})
Askers == {Local} \cup Members
Reqs == 1..MaxReq
Durations == Timed \cup {"permanent", "version", "none"}

ASSUME ConstantsAssumption ==
    /\ Heads \subseteq Scopes /\ Parent \in [Scopes -> Heads \cup {None}]
    /\ Installs \subseteq SUBSET Flows /\ Faulty \in BOOLEAN
    /\ Answers \subseteq Durations
    /\ Selves \subseteq Members /\ Homes \subseteq {"unset", "self"} \cup Members
    /\ Timed \subseteq {"once", "hour", "session"} /\ Life \in [Timed -> Nat \ {0}]
    /\ PendingLife \in Nat \ {0} /\ FlowPendingLife \in Nat \ {0} /\ Skew \in Nat
    /\ ReceiptLife \in Nat /\ ForwardDeadline \in Nat
    /\ MaxPerHolder \in Nat /\ MaxPending \in Nat /\ Drifts \subseteq Int
    /\ MaxInc \in Nat /\ MaxReq \in Nat /\ MaxTime \in Nat /\ MaxSigned \in Nat
\* The assertion on SECRET_FORWARD_DEADLINE in remote_read.rs.
ASSUME DeadlineAssumption == ForwardDeadline < ReceiptLife
ASSUME DistinctAssumption ==
    /\ Local \notin Members /\ Scopes \cap Flows = {}
    /\ None \notin Members \cup Holders \cup {Local} \cup Scopes \cup Deposits
    /\ "put" \notin Deposits /\ {"unset", "self"} \cap Members = {}

VARIABLES
    now,       \* the vault's wall clock
    self,      \* federation.self_member
    home,      \* secrets.home_member
    secret,    \* the agent_secrets row of the name
    lastInc,   \* incarnations minted
    tombs,     \* secret_deposit_tombstones
    lastReq,   \* request ids minted
    pending,   \* secret_pending_requests
    grants,    \* secret_grants and secret_flow_grants, by the request approved
    signed,    \* envelopes the phone signed; each may be sent any number of times
    replies,   \* secret_approval_replies
    receipts,  \* secret_release_receipts: the expiry of each (requester, nonce)
    calls,     \* local calls between their transactions
    \* history
    origin,    \* what created each incarnation
    granted,   \* how often each request was granted
    spent,     \* how often each once grant released afresh
    sent,      \* when a forwarded call first reached the vault
    answered,  \* how often a forwarded call got a fresh release
    revoked    \* the newest request when an asker last revoked a flow

rows == <<secret, pending, grants>>
hist == <<origin, granted, spent, sent, answered, revoked>>
vars == <<now, self, home, secret, lastInc, tombs, lastReq, pending, grants,
          signed, replies, receipts, calls, hist>>

\* `sound`: the columns and the sealed envelope open and agree.
Secret == [inc : 1..MaxInc, state : {"active", "corrupt"}, sound : BOOLEAN]
Row == [delete : BOOLEAN, inc : 1..MaxInc, member : Members, asker : Askers,
        holder : Holders \cup {None}, expiry : Nat, consumed : BOOLEAN]
\* The expiry of a permanent or a flow grant is 0 and means nothing.
Grant == [inc : 1..MaxInc, asker : Askers, holder : Holders,
          duration : Durations, expiry : Nat, first : BOOLEAN]
\* An approval envelope of one item.  The items of an envelope are decided one
\* by one and independently; a statement's digest is a function of its request.
Envelope == [req : Reqs, delete : BOOLEAN, duration : Durations, issued : Nat]
Keys == Members \X Nonces

ASSUME NoneAssumption == None \notin Secret \cup Row \cup Grant \cup Nat

Init ==
    /\ now = 0 /\ self \in Selves \cup {None} /\ home = "unset"
    /\ secret = None /\ lastInc = 0 /\ tombs = {}
    /\ lastReq = 0 /\ pending = [r \in Reqs |-> None]
    /\ grants = [r \in Reqs |-> None]
    /\ signed = {} /\ replies = {} /\ receipts = [k \in Keys |-> 0]
    /\ calls = [u \in Calls |-> [pc |-> "idle", use |-> None]]
    /\ origin = [i \in 1..MaxInc |-> None]
    /\ granted = [r \in Reqs |-> 0] /\ spent = [r \in Reqs |-> 0]
    /\ sent = [k \in Keys |-> None] /\ answered = [k \in Keys |-> 0]
    /\ revoked = [k \in Askers \X Flows |-> 0]

-----------------------------------------------------------------------------
(* Grants: which ones cover a use, in which order, and what a release does. *)

IsFlow(h) == h[1] \in Flows
Covers(h, c) ==
    /\ IsFlow(h) <=> IsFlow(c)
    /\ IF IsFlow(h) THEN h[1] = c[1] /\ c[2] \subseteq h[2]
       ELSE h[1] = c[1] \/ (h[2] = "agent_and_workers" /\ Parent[c[1]] = h[1])

Lasting(g) == g.duration \in {"permanent", "version"}
Live(g) == Lasting(g) \/ g.expiry > now

\* choose_grant and choose_flow_grant: a once grant last, a permanent one first,
\* then the one that expires last.  Ties go to the older grant, left open here.
Before(g, k) ==
    \/ g.duration # "once" /\ k.duration = "once"
    \/ /\ "once" \notin {g.duration, k.duration}
       /\ \/ Lasting(g) /\ ~Lasting(k)
          \/ ~Lasting(g) /\ ~Lasting(k) /\ g.expiry > k.expiry
Candidates(gs, a, c) ==
    {r \in Reqs : /\ gs[r] # None /\ gs[r].inc = secret.inc
                  /\ gs[r].asker = a /\ Live(gs[r]) /\ Covers(gs[r].holder, c)}
Chosen(gs, a, c) ==
    {r \in Candidates(gs, a, c) :
       \A q \in Candidates(gs, a, c) : ~Before(gs[q], gs[r])}

\* commit_agent_release, commit_flow_release.
AfterRelease(gs, r) ==
    [gs EXCEPT ![r] = IF @.duration = "once" THEN None
                      ELSE [@ EXCEPT !.first = TRUE]]
Spend(gs, r) ==
    [spent EXCEPT ![r] = IF gs[r].duration = "once" THEN @ + 1 ELSE @]

\* sweep: expired grants and receipts are deleted.
Swept == [r \in Reqs |-> IF grants[r] = None \/ Live(grants[r])
                         THEN grants[r] ELSE None]

\* Mutant: the sweep takes receipts that a retry may still need.
SweptReceiptsAll == [k \in Keys |-> 0]
SweptReceipts == [k \in Keys |-> IF receipts[k] <= now THEN 0 ELSE receipts[k]]

-----------------------------------------------------------------------------
(* Requests.                                                               *)

\* check_secret_target: a row that does not open asks for its quarantine.
Usable == secret # None /\ secret.state = "active" /\ secret.sound
Unsound == secret # None /\ secret.state = "active" /\ ~secret.sound

\* Mutant: a home setting that names this vault's own id counts as home.
ServesOwnId == home \in {"unset", "self", self}
\* The role is single or home: phone_deposit_refusal and local_create_allowed.
Serves == home \in {"unset", "self"}

\* The housekeeping before a request is opened.
Kept ==
    [r \in Reqs |->
       IF \/ pending[r] = None \/ pending[r].consumed
          \/ pending[r].expiry <= now \/ pending[r].member # self
       THEN None ELSE pending[r]]
SamePool(h, k) ==
    IF IsFlow(h) THEN \E i \in Installs : {h[1], k[1]} \subseteq i ELSE h[1] = k[1]
Full(p, a, h) ==
    LET pool == {r \in Reqs : /\ p[r] # None /\ ~p[r].delete
                              /\ IsFlow(p[r].holder) <=> IsFlow(h)}
    IN \/ Cardinality(pool) >= MaxPending
       \/ Cardinality({r \in pool : p[r].asker = a /\ SamePool(p[r].holder, h)})
            >= MaxPerHolder
Prior(p, delete, a, h) ==
    {r \in Reqs : /\ p[r] # None /\ p[r].delete = delete /\ p[r].inc = secret.inc
                  /\ p[r].asker = a /\ p[r].holder = h}
Lifetime(h) == IF h # None /\ IsFlow(h) THEN FlowPendingLife ELSE PendingLife

\* No new request: a live one is answered again, or the pool is full.
Settled(delete, a, h) ==
    Prior(Kept, delete, a, h) # {} \/ (~delete /\ Full(Kept, a, h))


\* pending, flow_pending and secret_delete_request_tx: without a self member the
\* vault has no statement to make; a live request is answered again; the pools
\* of agents and of flows are limited, in total and for one asker's scope.
Open(delete, a, h) ==
    \/ self = None /\ UNCHANGED <<pending, lastReq>>
    \/ /\ self # None /\ Settled(delete, a, h)
       /\ pending' = Kept /\ UNCHANGED lastReq
    \/ /\ self # None /\ ~Settled(delete, a, h) /\ lastReq < MaxReq
       /\ lastReq' = lastReq + 1
       /\ pending' = [Kept EXCEPT ![lastReq + 1] =
                        [delete |-> delete, inc |-> secret.inc, member |-> self,
                         asker |-> a, holder |-> h, consumed |-> FALSE,
                         expiry |-> now + Lifetime(h)]]

-----------------------------------------------------------------------------
(* Local uses: secret_use_from and secret_flow_use_from.                   *)

Goto(u, pc, c) == calls' = [calls EXCEPT ![u] = [pc |-> pc, use |-> c]]


\* Mutant: the snapshot alone releases a grant for one use.
FastOnce(c, r) == grants[r].duration = "once" \/ grants[r].first
\* What the snapshot alone may release: a grant that has released before.
Fast(c, r) ==
    /\ grants[r].first /\ grants[r].duration # "once"
    /\ IsFlow(c) \/ Swept = grants

Snapshot(u, c) ==
    /\ calls[u].pc = "idle"
    /\ \/ Unsound /\ Goto(u, "refused", None) /\ UNCHANGED spent
       \/ \E r \in Chosen(grants, Local, c) :
             /\ Usable /\ Fast(c, r)
             /\ spent' = Spend(grants, r) /\ UNCHANGED calls
       \/ \E r \in Chosen(grants, Local, c) :
             /\ Usable /\ ~Fast(c, r)
             /\ Goto(u, "fenced", c) /\ UNCHANGED spent
       \/ /\ Usable /\ Chosen(grants, Local, c) = {} /\ ~IsFlow(c)
          /\ Goto(u, "fenced", c) /\ UNCHANGED spent
    /\ UNCHANGED <<now, self, home, rows, lastInc, tombs, lastReq, signed,
                   replies, receipts, origin, granted, sent,
                   answered, revoked>>

\* The write transaction decides again, with a clock of its own.
Fenced(u) ==
    LET c == calls[u].use
        gs == IF IsFlow(c) THEN grants ELSE Swept
    IN /\ calls[u].pc = "fenced" /\ Usable
       /\ Goto(u, "idle", None)
       /\ receipts' = IF IsFlow(c) THEN receipts ELSE SweptReceipts
       /\ \/ \E r \in Chosen(gs, Local, c) :
                /\ grants' = AfterRelease(gs, r) /\ spent' = Spend(gs, r)
                /\ UNCHANGED <<pending, lastReq>>
          \/ /\ Chosen(gs, Local, c) = {} /\ grants' = gs /\ UNCHANGED spent
             /\ IF IsFlow(c) THEN UNCHANGED <<pending, lastReq>>
                ELSE Open(FALSE, Local, c)
       /\ UNCHANGED <<now, self, home, secret, lastInc, tombs, signed, replies,
                      origin, granted, sent, answered, revoked>>
FencedRefused(u) ==
    /\ calls[u].pc = "fenced" /\ ~Usable
    /\ Goto(u, IF Unsound THEN "refused" ELSE "idle", None)
    /\ UNCHANGED <<now, self, home, rows, lastInc, tombs, lastReq, signed,
                   replies, receipts, hist>>


\* Mutant: the mark lands on whatever row the name has now.
QuarantineBlind(u) ==
    /\ calls[u].pc = "refused" /\ Goto(u, "idle", None)
    /\ secret' = IF secret # None THEN [secret EXCEPT !.state = "corrupt"] ELSE secret
    /\ UNCHANGED <<now, self, home, lastInc, tombs, lastReq, pending, grants,
                   signed, replies, receipts, hist>>
\* refuse_secret_target: the row is checked again before it is marked.
Quarantine(u) ==
    /\ calls[u].pc = "refused" /\ Goto(u, "idle", None)
    /\ secret' = IF Unsound THEN [secret EXCEPT !.state = "corrupt"] ELSE secret
    /\ UNCHANGED <<now, self, home, lastInc, tombs, lastReq, pending, grants,
                   signed, replies, receipts, hist>>

-----------------------------------------------------------------------------
(* Calls forwarded by a paired computer.  The role, the pairing and the    *)
(* member grant were checked before the transaction and may have changed   *)
(* since, so none is a guard here.                                         *)

\* A paired computer sends one nonce for every retry of a call, and stops
\* before the deadline that counts from the first.
Arrives(k) ==
    /\ sent[k] # None => now < sent[k] + ForwardDeadline
    /\ sent' = [sent EXCEPT ![k] = IF @ = None THEN now ELSE @]

\* secret_use_sealed and secret_flow_use_sealed.  A nonce that has a receipt
\* is answered from it or refused, whatever the call says.
Forwarded(a, n, c) ==
    LET k == <<a, n>>
        gs == IF IsFlow(c) THEN grants ELSE Swept
    IN /\ Usable /\ receipts[k] = 0 /\ Arrives(k)
       /\ \/ \E r \in Chosen(gs, a, c) :
                /\ grants' = AfterRelease(gs, r) /\ spent' = Spend(gs, r)
                /\ receipts' = [SweptReceipts EXCEPT ![k] = now + ReceiptLife]
                /\ answered' = [answered EXCEPT ![k] = @ + 1]
                /\ UNCHANGED <<pending, lastReq>>
          \/ /\ Chosen(gs, a, c) = {} /\ grants' = gs
             /\ receipts' = SweptReceipts /\ UNCHANGED <<spent, answered>>
             /\ IF IsFlow(c) THEN UNCHANGED <<pending, lastReq>>
                ELSE Open(FALSE, a, c)
       /\ UNCHANGED <<now, self, home, secret, lastInc, tombs, signed, replies,
                      calls, origin, granted, revoked>>

\* secret_request_flow_approval_from, by this vault's basal or forwarded.
RequestFlow(a, h) ==
    /\ Usable /\ Open(FALSE, a, h)
    /\ UNCHANGED <<now, self, home, secret, lastInc, tombs, grants, signed,
                   replies, receipts, calls, hist>>
\* Either of them, on a row that does not open.
RemoteRefused(u) ==
    /\ calls[u].pc = "idle" /\ Unsound /\ Goto(u, "refused", None)
    /\ UNCHANGED <<now, self, home, rows, lastInc, tombs, lastReq, signed,
                   replies, receipts, hist>>

\* revoke_flow_grants_from: an install, or one version of it.
Withdrawn(x, a, F) == x # None /\ x.asker = a /\ x.holder # None /\ x.holder[1] \in F

\* Mutant: the open requests of the flow are left.
RevokeFlowsGranted(a, F) ==
    /\ grants' = [r \in Reqs |-> IF Withdrawn(grants[r], a, F) THEN None
                                 ELSE grants[r]]
    /\ revoked' = [k \in Askers \X Flows |->
                     IF k[1] = a /\ k[2] \in F THEN lastReq ELSE revoked[k]]
    /\ UNCHANGED <<now, self, home, secret, lastInc, tombs, lastReq, pending,
                   signed, replies, receipts, calls, origin, granted, spent,
                   sent, answered>>
RevokeFlows(a, F) ==
    /\ grants' = [r \in Reqs |-> IF Withdrawn(grants[r], a, F) THEN None
                                 ELSE grants[r]]
    /\ pending' = [r \in Reqs |->
                     IF Withdrawn(pending[r], a, F) /\ ~pending[r].consumed
                     THEN None ELSE pending[r]]
    /\ revoked' = [k \in Askers \X Flows |->
                     IF k[1] = a /\ k[2] \in F THEN lastReq ELSE revoked[k]]
    /\ UNCHANGED <<now, self, home, secret, lastInc, tombs, lastReq, signed,
                   replies, receipts, calls, origin, granted, spent,
                   sent, answered>>

-----------------------------------------------------------------------------
(* The phone's envelopes.                                                  *)

\* The phone signs with a clock of its own what it likes about any request.
Sign(r, duration, issued) ==
    /\ Cardinality(signed) < MaxSigned /\ r <= lastReq /\ issued >= 0
    /\ signed' = signed \cup {[req |-> r, delete |-> duration = "none",
                               duration |-> duration, issued |-> issued]}
    /\ UNCHANGED <<now, self, home, rows, lastInc, tombs, lastReq, replies,
                   receipts, calls, hist>>

\* The durations a statement offers.
Offered(p) ==
    IF p.delete THEN {"none"} ELSE IF IsFlow(p.holder) THEN {"version"}
    ELSE IF p.holder[2] = "agent_and_workers" THEN {"permanent"}
    ELSE Timed \cup {"permanent"}

InSkew(e) == now <= e.issued + Skew /\ e.issued <= now + Skew

\* Mutant: a request that was granted can be granted again.
ValidAgain(e) ==
    LET p == pending[e.req]
    IN /\ p # None /\ now < p.expiry
       /\ p.expiry - Lifetime(p.holder) <= e.issued /\ e.issued < p.expiry
       /\ InSkew(e) /\ p.member = self
       /\ p.delete = e.delete /\ e.duration \in Offered(p)
       /\ secret # None /\ secret.inc = p.inc
\* secret_approval_item_tx up to the state of the secret.
Valid(e) ==
    LET p == pending[e.req]
    IN /\ p # None /\ ~p.consumed /\ now < p.expiry
       /\ p.expiry - Lifetime(p.holder) <= e.issued /\ e.issued < p.expiry
       /\ InSkew(e) /\ p.member = self
       /\ p.delete = e.delete /\ e.duration \in Offered(p)
       /\ secret # None /\ secret.inc = p.inc

\* The rows of an incarnation go with its secret.
WithoutSecret(t) ==
    [r \in Reqs |-> IF t[r] # None /\ t[r].inc = secret.inc THEN None ELSE t[r]]

\* Mutant: the open requests outlive the secret.
DropSecretOnly ==
    secret' = None /\ grants' = WithoutSecret(grants) /\ UNCHANGED pending
DropSecret ==
    /\ secret' = None
    /\ grants' = WithoutSecret(grants) /\ pending' = WithoutSecret(pending)


\* Mutant: the request is not marked.
ConsumeNothing(r) == UNCHANGED pending
Consume(r) == pending' = [pending EXCEPT ![r].consumed = TRUE]
GrantOf(e) ==
    [inc |-> pending[e.req].inc, asker |-> pending[e.req].asker,
     holder |-> pending[e.req].holder, duration |-> e.duration, first |-> FALSE,
     expiry |-> IF e.duration \in Timed THEN e.issued + Life[e.duration] ELSE 0]

\* The item of an envelope is granted: a deletion, or a grant of the request.
Granted(e) ==
    /\ Valid(e) /\ (e.delete \/ Usable)
    /\ \/ e.delete /\ DropSecret /\ UNCHANGED granted
       \/ /\ ~e.delete /\ Consume(e.req) /\ UNCHANGED secret
          /\ grants' = [grants EXCEPT ![e.req] = GrantOf(e)]
          /\ granted' = [granted EXCEPT ![e.req] = @ + 1]
\* Or refused; an approval that meets a row it cannot open marks it at once.
Refused(e) ==
    /\ ~(Valid(e) /\ (e.delete \/ Usable))
    /\ secret' = IF Valid(e) /\ Unsound THEN [secret EXCEPT !.state = "corrupt"]
                 ELSE secret
    /\ UNCHANGED <<pending, grants, granted>>

\* secret_approval_tx: replies past the skew window are dropped, a stored reply
\* is given again, and a new one is stored with its outcome.
LiveReplies == {x \in replies : x[1].issued + Skew > now}
Approve(e) ==
    /\ Serves /\ e \in signed
    /\ \/ /\ \E x \in LiveReplies : x[1] = e
          /\ replies' = LiveReplies /\ UNCHANGED <<rows, granted>>
       \/ /\ \A x \in LiveReplies : x[1] # e
          /\ \/ Granted(e) /\ replies' = LiveReplies \cup {<<e, TRUE>>}
             \/ Refused(e) /\ replies' = LiveReplies \cup {<<e, FALSE>>}
    /\ UNCHANGED <<now, self, home, lastInc, tombs, lastReq, signed, receipts,
                   calls, origin, spent, sent, answered, revoked>>

\* secret.delete_request.
DeleteRequest ==
    /\ Serves /\ secret # None /\ Open(TRUE, Local, None)
    /\ UNCHANGED <<now, self, home, secret, lastInc, tombs, grants, signed,
                   replies, receipts, calls, hist>>
\* secret.list sweeps.
List ==
    /\ Serves /\ grants' = Swept /\ receipts' = SweptReceipts
    /\ UNCHANGED <<now, self, home, secret, lastInc, tombs, lastReq, pending,
                   signed, replies, calls, hist>>

-----------------------------------------------------------------------------
(* Secrets, grants and settings.                                           *)

Create(by) ==
    /\ Serves /\ secret = None /\ lastInc < MaxInc /\ lastInc' = lastInc + 1
    /\ secret' = [inc |-> lastInc + 1, state |-> "active", sound |-> TRUE]
    /\ origin' = [origin EXCEPT ![lastInc + 1] = by]
    /\ UNCHANGED <<now, self, home, lastReq, pending, grants, signed, replies,
                   receipts, calls, granted, spent, sent, answered,
                   revoked>>
\* secret_put_audited.
Put == Create("put") /\ UNCHANGED tombs

\* Mutant: a deposit does not look for its tombstone.
DepositAgain(d) == self # None /\ Create(d) /\ tombs' = tombs \cup {d}
\* deposit_tx: a deposit that has a tombstone is only answered; the deposit
\* key and the member it names are this vault's.
Deposit(d) == self # None /\ d \notin tombs /\ Create(d) /\ tombs' = tombs \cup {d}
\* secret_operator_delete_audited.
OperatorDelete ==
    /\ secret # None /\ DropSecret
    /\ UNCHANGED <<now, self, home, lastInc, tombs, lastReq, signed, replies,
                   receipts, calls, hist>>
\* revoke, for the phone, the operator and permissions.revoke.
Revoke(r) ==
    /\ grants[r] # None /\ Live(grants[r])
    /\ grants' = [grants EXCEPT ![r] = None]
    /\ UNCHANGED <<now, self, home, secret, lastInc, tombs, lastReq, pending,
                   signed, replies, receipts, calls, hist>>

\* set_secret_home_audited: naming another member needs empty tables.
Empty(t) == \A r \in Reqs : t[r] = None
SetHome(v) ==
    LET wanted == IF v = self THEN "self" ELSE v
    IN /\ wanted # home
       /\ wanted \in Members => secret = None /\ Empty(grants) /\ Empty(pending)
       /\ home' = wanted
       /\ UNCHANGED <<now, self, rows, lastInc, tombs, lastReq, signed, replies,
                      receipts, calls, hist>>
\* set_federation_self_member_audited.
SetSelf(m) ==
    /\ self # m /\ self' = m
    /\ UNCHANGED <<now, home, rows, lastInc, tombs, lastReq, signed, replies,
                   receipts, calls, hist>>

\* A row whose columns and envelope no longer agree, however that came about.
Damage ==
    /\ Faulty /\ secret # None /\ secret.sound
    /\ secret' = [secret EXCEPT !.sound = FALSE]
    /\ UNCHANGED <<now, self, home, lastInc, tombs, lastReq, pending, grants,
                   signed, replies, receipts, calls, hist>>
\* rotate_agent_secrets_tx marks a row that the old key does not open; one whose
\* columns alone are wrong is sealed again as it is.
Rotate ==
    /\ secret # None /\ ~secret.sound /\ secret.state = "active"
    /\ secret' = [secret EXCEPT !.state = "corrupt"]
    /\ UNCHANGED <<now, self, home, lastInc, tombs, lastReq, pending, grants,
                   signed, replies, receipts, calls, hist>>
\* The daemon restarts: calls are lost, the tables are not.
Restart ==
    /\ calls' = [u \in Calls |-> [pc |-> "idle", use |-> None]] /\ calls' # calls
    /\ UNCHANGED <<now, self, home, rows, lastInc, tombs, lastReq, signed,
                   replies, receipts, hist>>
Tick ==
    /\ now < MaxTime /\ now' = now + 1
    /\ UNCHANGED <<self, home, rows, lastInc, tombs, lastReq, signed, replies,
                   receipts, calls, hist>>

Next ==
    \/ \E u \in Calls, c \in Uses : Snapshot(u, c)
    \/ \E u \in Calls :
          Fenced(u) \/ FencedRefused(u) \/ Quarantine(u) \/ RemoteRefused(u)
    \/ \E a \in Members \ {self}, n \in Nonces, c \in Uses : Forwarded(a, n, c)
    \/ \E a \in Askers \ {self}, h \in FlowHolders : RequestFlow(a, h)
    \/ \E a \in Askers \ {self}, F \in Installs \cup {{f} : f \in Flows} :
          RevokeFlows(a, F)
    \/ \E r \in Reqs, d \in Answers, x \in Drifts : Sign(r, d, now + x)
    \/ \E e \in signed : Approve(e)
    \/ \E d \in Deposits : Deposit(d)
    \/ \E r \in Reqs : Revoke(r)
    \/ \E v \in Homes : SetHome(v)
    \/ \E m \in Selves : SetSelf(m)
    \/ DeleteRequest \/ List \/ Put \/ OperatorDelete \/ Damage \/ Rotate
    \/ Restart \/ Tick

Spec == Init /\ [][Next]_vars

-----------------------------------------------------------------------------
(* Properties.                                                             *)

\* Every variable has its type.
TypeOK ==
    /\ now \in Nat /\ self \in Members \cup {None}
    /\ home \in {"unset", "self"} \cup Members
    /\ secret \in Secret \cup {None} /\ lastInc \in 0..MaxInc
    /\ tombs \subseteq Deposits /\ lastReq \in 0..MaxReq
    /\ pending \in [Reqs -> Row \cup {None}]
    /\ grants \in [Reqs -> Grant \cup {None}]
    /\ signed \subseteq Envelope /\ replies \subseteq signed \X BOOLEAN
    /\ receipts \in [Keys -> Nat]
    /\ calls \in [Calls -> [pc : {"idle", "fenced", "refused"},
                            use : Uses \cup {None}]]
    /\ origin \in [1..MaxInc -> Deposits \cup {"put", None}]
    /\ granted \in [Reqs -> Nat]
    /\ spent \in [Reqs -> Nat] /\ sent \in [Keys -> Nat \cup {None}]
    /\ answered \in [Keys -> Nat] /\ revoked \in [Askers \X Flows -> 0..MaxReq]

\* An approval for one use releases the secret afresh at most once, however many
\* local and forwarded calls race for it, are retried or fall to a restart.
OnceIsOnce == \A r \in Reqs : spent[r] <= 1

\* A request is granted at most once: a second envelope, of another duration or
\* another issue time, or the same one sent again after its stored reply or the
\* consumed request is gone, grants nothing.
OneGrantPerRequest == \A r \in Reqs : granted[r] <= 1

\* Every grant and every request names the incarnation of the secret that
\* exists: no approval, however late, reaches a secret created again under the
\* name, and nothing is left behind by a deletion.
GrantsFollowSecret ==
    \A r \in Reqs, t \in {pending, grants} :
       t[r] # None => secret # None /\ t[r].inc = secret.inc

\* A vault that names another member as the home of its secrets holds none, and
\* no grant and no request either, whatever ran while the setting was written.
HomeNotStranded == home \in Members => secret = None /\ Empty(grants) /\ Empty(pending)

\* After an asker's flow was revoked, only a request made later can grant it: an
\* envelope already signed for an earlier request does not bring the flow back.
RevokedFlowStaysRevoked ==
    \A r \in Reqs :
       grants[r] # None /\ IsFlow(grants[r].holder)
         => r > revoked[<<grants[r].asker, grants[r].holder[1]>>]

\* A deposit creates at most one secret: sent again after the secret was deleted
\* it does not bring it back.
DepositOnce ==
    \A i, j \in 1..MaxInc :
       origin[i] \in Deposits /\ origin[i] = origin[j] => i = j

\* All retries of one forwarded call get at most one fresh release, so a lost
\* answer never costs the asker a second approval.
NonceReleasedOnce == \A k \in Keys : answered[k] <= 1

\* Only a row that does not open is marked corrupt, also when the secret was
\* deleted and created again between the refusal and the mark.
QuarantineOnlyUnsound ==
    secret # None /\ secret.state = "corrupt" => ~secret.sound

\* The queues of requests stay within their limits, in total and for one asker's
\* scope or install, whichever calls open requests and whatever is left of
\* decided ones (MAX_SECRET_PENDING_TOTAL, MAX_SECRET_PENDING_PER_SCOPE and the
\* limits of flows).
Queue(flow) ==
    {r \in Reqs : /\ pending[r] # None /\ ~pending[r].delete
                  /\ IsFlow(pending[r].holder) <=> flow}
QueuesBounded ==
    /\ \A flow \in BOOLEAN : Cardinality(Queue(flow)) <= MaxPending
    /\ \A a \in Askers :
        /\ \A s \in Scopes : MaxPerHolder >=
             Cardinality({r \in Queue(FALSE) : pending[r].asker = a
                                              /\ pending[r].holder[1] = s})
        /\ \A i \in Installs : MaxPerHolder >=
             Cardinality({r \in Queue(TRUE) : pending[r].asker = a
                                             /\ pending[r].holder[1] \in i})

\* A request moves only forward: unmade, open, granted, over.
life ==
    [r \in Reqs |->
       IF r > lastReq THEN "unmade"
       ELSE IF grants[r] # None THEN "granted"
       ELSE IF pending[r] # None /\ ~pending[r].consumed THEN "open" ELSE "over"]
Abstract == INSTANCE SecretRequests WITH Requests <- Reqs, life <- life
RequestsMoveForward == Abstract!Spec
=============================================================================
