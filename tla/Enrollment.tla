----------------------------- MODULE Enrollment -----------------------------
(***************************************************************************)
(* How a host-launched consumer gets a name that grants can reach: the     *)
(* enrollment ceremony (propose, approve or deny, poll), the token it ends *)
(* in (rotate, reissue, revoke), the grants that are keyed by the NAME and *)
(* not by the consumer, and the scoped read that resolves a token to its   *)
(* name first and looks the name's grants up next                          *)
(* (credentials-core/src/store.rs, enrollment.rs and                       *)
(* credentials-module/src/read_surface.rs).                                *)
(*                                                                         *)
(* Every operation of the store is one fenced transaction, so one step.    *)
(* A consumer is its request secret: it sends the hash when it proposes    *)
(* and the secret when it polls.  Any reply may be lost.  Refusals that    *)
(* change nothing are not steps.                                           *)
(***************************************************************************)
EXTENDS Naturals, FiniteSets

CONSTANTS
    Consumers,       \* request secrets, each with the process that minted it
    Names,           \* enrollment names
    None,            \* no row
    Readers,         \* consumers that read while the others only enroll
    Lossy,           \* whether replies can be lost and consumers restart
    LiveLimit,       \* ENROLLMENT_LIVE_LIMIT: rows pending or approved
    MaxRows,         \* ENROLLMENT_TERMINAL_MAX_ROWS: rows in all
    MaxRequests, MaxEnrollments, MaxTokens   \* bounds of the counters

ASSUME ConstantsAssumption ==
    /\ Readers \subseteq Consumers /\ Lossy \in BOOLEAN
    /\ LiveLimit \in Nat \ {0} /\ MaxRows \in Nat /\ LiveLimit < MaxRows
    /\ MaxRequests \in Nat \ {0} /\ MaxEnrollments \in Nat \ {0}
    /\ MaxTokens \in Nat \ {0}

VARIABLES
    pend,          \* pending_enrollments, by request id (in order of creation)
    reqs,          \* request ids minted so far
    lapsed, old,   \* the clock: requests 1..lapsed are past expires_at_ms and
                   \* 1..old past the retention of terminal rows
    cons,          \* enrolled_consumers, by enrollment id
    enrs, toks,    \* enrollment ids and tokens minted so far
    granted,       \* names that have grants
    since,         \* history: the enrollment a name's grants were given to, 0
                   \* if nobody held the name then
    held,          \* consumers: the token they hold, 0 if none
    read           \* consumers: their scoped read in flight

vars == <<pend, reqs, lapsed, old, cons, enrs, toks, granted, since, held,
          read>>
ceremony == <<pend, reqs>>
clock == <<lapsed, old>>
consumers == <<cons, enrs, toks>>
grants == <<granted, since>>

RequestIds == 1..MaxRequests
EnrollmentIds == 1..MaxEnrollments

Pending == [name : Names, by : Consumers, final : Names \cup {None},
            state : {"pending", "approved", "denied", "consumed", "expired"},
            enr : 0..MaxEnrollments, told : BOOLEAN]
\* `told` is history: whether the consumer has the request id.  `by` and `kept`
\* of an enrollment are history too: whose request was approved, and whether the
\* operator consented to the grants the name already had.
Consumer == [name : Names, token : 0..MaxTokens, gen : 0..MaxTokens,
             revoked : BOOLEAN, by : Consumers, kept : BOOLEAN]
Read == [pc : {"idle", "resolved", "allowed"}, name : Names \cup {None},
         enr : 0..MaxEnrollments]

ASSUME NoneAssumption == None \notin Names \cup Pending \cup Consumer

NoRead == [pc |-> "idle", name |-> None, enr |-> 0]

Init ==
    /\ pend = [q \in RequestIds |-> None] /\ reqs = 0
    /\ lapsed = 0 /\ old = 0
    /\ cons = [e \in EnrollmentIds |-> None] /\ enrs = 0 /\ toks = 0
    /\ granted = {} /\ since = [n \in Names |-> 0]
    /\ held = [c \in Consumers |-> 0]
    /\ read = [c \in Consumers |-> NoRead]

-----------------------------------------------------------------------------
Rows(p) == {q \in RequestIds : p[q] # None}
Live(p) == {q \in Rows(p) : p[q].state \in {"pending", "approved"}}
Ended(p) == Rows(p) \ Live(p)

LiveEnrollments == {e \in EnrollmentIds : cons[e] # None /\ ~cons[e].revoked}
\* The live enrollment of a name, 0 if there is none.
Holder(n) ==
    IF \E e \in LiveEnrollments : cons[e].name = n
    THEN CHOOSE e \in LiveEnrollments : cons[e].name = n ELSE 0

Marked(p, q, state) == [p EXCEPT ![q] = [p[q] EXCEPT !.state = state]]

\* sweep_pending_enrollments_tx: lapsed rows expire, old terminal rows go, and
\* the oldest terminal rows go until `reserve` more rows fit under MaxRows.
Swept(p, reserve) ==
    LET late == {q \in Live(p) : q <= lapsed}
        ended == {q \in Ended(p) \cup late : q > old}
        rows == ended \cup (Live(p) \ late)
        excess == {q \in ended : Cardinality({o \in ended : o < q}) + MaxRows
                                   < Cardinality(rows) + reserve}
    IN  [q \in RequestIds |->
           IF q \notin rows \ excess THEN None
           ELSE IF q \in late THEN [p[q] EXCEPT !.state = "expired"] ELSE p[q]]

-----------------------------------------------------------------------------
(* The consumer's half of the ceremony.                                    *)

\* Whether a reply arrives.
Arrives == IF Lossy THEN BOOLEAN ELSE {TRUE}

\* Mutant: the row about to be inserted is not counted by the sweep.
ProposeUnreserved(c, n) ==
    LET p == Swept(pend, 0)
    IN  /\ ~ \E q \in Live(p) : p[q].name = n
        /\ Cardinality(Live(p)) < LiveLimit /\ reqs < MaxRequests
        /\ reqs' = reqs + 1
        /\ pend' = [p EXCEPT ![reqs + 1] =
                      [name |-> n, by |-> c, state |-> "pending",
                       final |-> None, enr |-> 0, told |-> TRUE]]
        /\ UNCHANGED <<clock, consumers, grants, held, read>>

\* After the sweep left the rows p: resume the consumer's own pending request, or
\* refuse a name in use or a full queue, or insert.
ProposeSwept(c, n, p) ==
    LET own == {q \in Rows(p) :
                  p[q].name = n /\ p[q].by = c /\ p[q].state = "pending"}
        taken == \E q \in Live(p) : p[q].name = n
    IN  \/ /\ own # {}
           /\ \E q \in own, got \in Arrives :
                 pend' = [p EXCEPT ![q] =
                            [p[q] EXCEPT !.told = p[q].told \/ got]]
           /\ UNCHANGED reqs
        \/ /\ own = {} /\ (taken \/ Cardinality(Live(p)) >= LiveLimit)
           /\ pend' = p /\ UNCHANGED reqs
        \/ /\ own = {} /\ ~taken /\ Cardinality(Live(p)) < LiveLimit
           /\ reqs < MaxRequests
           /\ reqs' = reqs + 1
           /\ \E got \in Arrives :
                 pend' = [p EXCEPT ![reqs + 1] =
                            [name |-> n, by |-> c, state |-> "pending",
                             final |-> None, enr |-> 0, told |-> got]]

\* propose_enrollment: the sweep is part of the transaction.
Propose(c, n) ==
    /\ \E p \in {Swept(pend, 1)} : ProposeSwept(c, n, p)
    /\ UNCHANGED <<clock, consumers, grants, held, read>>

\* A new token for enrollment e; its consumer c receives it or the reply is
\* lost.
Mint(e, c, gen) ==
    /\ toks < MaxTokens /\ toks' = toks + 1
    /\ cons' = [cons EXCEPT ![e] = [@ EXCEPT !.token = toks + 1, !.gen = gen]]
    /\ \E got \in Arrives :
          held' = IF got THEN [held EXCEPT ![c] = toks + 1] ELSE held
    /\ UNCHANGED enrs

\* The enrollment may still be given its first token by request q.
Deliverable(q, e) ==
    /\ cons[e] # None /\ ~cons[e].revoked
    /\ cons[e].token = 0 /\ cons[e].gen = 0 /\ pend[q].final = cons[e].name

\* Mutant: the request secret is not compared.
PollUnchecked(c, q) ==
    /\ pend[q] # None /\ pend[q].state = "approved" /\ q > lapsed
    /\ Deliverable(q, pend[q].enr)
    /\ pend' = Marked(pend, q, "consumed")
    /\ Mint(pend[q].enr, c, 1)
    /\ UNCHANGED <<reqs, clock, grants, read>>

\* poll_enrollment with a known request id and the secret: a lapsed request
\* expires; an approved one mints the first token, once.
Poll(c, q) ==
    /\ pend[q] # None /\ pend[q].by = c /\ pend[q].told
    /\ \/ /\ q \in Live(pend) /\ q <= lapsed
          /\ pend' = Marked(pend, q, "expired")
          /\ UNCHANGED <<consumers, held>>
       \/ /\ pend[q].state = "approved" /\ q > lapsed
          /\ Deliverable(q, pend[q].enr)
          /\ pend' = Marked(pend, q, "consumed")
          /\ Mint(pend[q].enr, c, 1)
    /\ UNCHANGED <<reqs, clock, grants, read>>

\* rotate_enrollment: the presented token is the live one, and the generation
\* that came with it is then the current one.
Rotate(c) ==
    /\ held[c] # 0
    /\ \E e \in LiveEnrollments :
          /\ cons[e].token = held[c]
          /\ Mint(e, c, cons[e].gen + 1)
    /\ UNCHANGED <<ceremony, clock, grants, read>>

-----------------------------------------------------------------------------
(* The operator's half.                                                    *)

\* approve_enrollment_with_grants: admits the final name without minting; a
\* live name is refused, and one with grants needs consent.
Approve(q, n, keep) ==
    /\ pend[q] # None /\ pend[q].state = "pending"
    /\ \/ /\ q <= lapsed
          /\ pend' = Marked(pend, q, "expired")
          /\ UNCHANGED consumers
       \/ /\ q > lapsed /\ Holder(n) = 0 /\ (n \in granted => keep)
          /\ enrs < MaxEnrollments /\ enrs' = enrs + 1
          /\ cons' = [cons EXCEPT ![enrs + 1] =
                        [name |-> n, token |-> 0, gen |-> 0,
                         revoked |-> FALSE, by |-> pend[q].by,
                         kept |-> keep]]
          /\ pend' = [pend EXCEPT ![q] = [@ EXCEPT !.state = "approved",
                                             !.final = n, !.enr = enrs + 1]]
          /\ UNCHANGED toks
    /\ UNCHANGED <<reqs, clock, grants, held, read>>

\* deny_enrollment.
Deny(q) ==
    /\ pend[q] # None /\ pend[q].state = "pending"
    /\ pend' = Marked(pend, q, IF q <= lapsed THEN "expired" ELSE "denied")
    /\ UNCHANGED <<reqs, clock, consumers, grants, held, read>>

\* Mutant: the grants of the name outlive the enrollment.
RevokeKeepingGrants(n) ==
    /\ Holder(n) # 0
    /\ cons' = [cons EXCEPT ![Holder(n)] = [@ EXCEPT !.revoked = TRUE]]
    /\ UNCHANGED <<enrs, toks, ceremony, clock, grants, held, read>>

\* revoke_enrollment: the enrollment and every grant of its name.
Revoke(n) ==
    /\ Holder(n) # 0
    /\ cons' = [cons EXCEPT ![Holder(n)] = [@ EXCEPT !.revoked = TRUE]]
    /\ granted' = granted \ {n} /\ since' = [since EXCEPT ![n] = 0]
    /\ UNCHANGED <<enrs, toks, ceremony, clock, held, read>>

\* reissue_enrollment: a new token for the live enrollment, polled or not; the
\* operator hands it to the consumer the name was approved for, or not yet.
Reissue(n) ==
    /\ Holder(n) # 0
    /\ LET e == Holder(n) IN Mint(e, cons[e].by, cons[e].gen + 1)
    /\ UNCHANGED <<ceremony, clock, grants, read>>

\* create_read_grant_audited: the name need not be enrolled (yet).
Grant(n) ==
    /\ n \notin granted
    /\ granted' = granted \cup {n}
    /\ since' = [since EXCEPT ![n] = Holder(n)]
    /\ UNCHANGED <<ceremony, clock, consumers, held, read>>

\* revoke_read_grant_audited.
RevokeGrant(n) ==
    /\ n \in granted
    /\ granted' = granted \ {n} /\ since' = [since EXCEPT ![n] = 0]
    /\ UNCHANGED <<ceremony, clock, consumers, held, read>>

-----------------------------------------------------------------------------
(* The scoped read: two reads of the store, one after the other.           *)

\* scoped_principal: the token names a live enrollment's name.  A token that
\* does not resolve refuses the call.
Resolve(c) ==
    /\ c \in Readers /\ held[c] # 0 /\ read[c].pc = "idle"
    /\ \E e \in LiveEnrollments :
          /\ cons[e].token = held[c]
          /\ read' = [read EXCEPT ![c] = [pc |-> "resolved", enr |-> e,
                                          name |-> cons[e].name]]
    /\ UNCHANGED <<ceremony, clock, consumers, grants, held>>

\* evaluate_scoped_coverage: by name.
Evaluate(c) ==
    /\ read[c].pc = "resolved"
    /\ read' = [read EXCEPT ![c] = IF read[c].name \in granted
                                   THEN [@ EXCEPT !.pc = "allowed"] ELSE NoRead]
    /\ UNCHANGED <<ceremony, clock, consumers, grants, held>>

\* The record is loaded and returned.
Return(c) ==
    /\ read[c].pc = "allowed"
    /\ read' = [read EXCEPT ![c] = NoRead]
    /\ UNCHANGED <<ceremony, clock, consumers, grants, held>>

-----------------------------------------------------------------------------
(* Time and restarts.                                                      *)

\* Requests lapse, and rows age, in the order they were made.
Tick ==
    /\ \/ lapsed < reqs /\ lapsed' = lapsed + 1 /\ UNCHANGED old
       \/ old < lapsed /\ old' = old + 1 /\ UNCHANGED lapsed
    /\ UNCHANGED <<ceremony, consumers, grants, held, read>>

\* EncryptedStore::open sweeps; the calls of the last process are gone.
Reopen ==
    /\ pend' = Swept(pend, 0)
    /\ read' = [c \in Consumers |-> NoRead]
    /\ UNCHANGED <<reqs, clock, consumers, grants, held>>

\* The consumer restarts before it wrote the request ids down; its secret it
\* had written before it proposed.
Forget(c) ==
    /\ Lossy
    /\ pend' = [q \in RequestIds |->
                  IF q \in Rows(pend) /\ pend[q].by = c
                  THEN [pend[q] EXCEPT !.told = FALSE] ELSE pend[q]]
    /\ UNCHANGED <<reqs, clock, consumers, grants, held, read>>

Next ==
    \/ \E c \in Consumers :
          \/ \E n \in Names : Propose(c, n)
          \/ \E q \in RequestIds : Poll(c, q)
          \/ Rotate(c) \/ Resolve(c) \/ Evaluate(c) \/ Return(c) \/ Forget(c)
    \/ \E q \in RequestIds :
          \/ \E n \in Names, keep \in BOOLEAN : Approve(q, n, keep)
          \/ Deny(q)
    \/ \E n \in Names : Revoke(n) \/ Reissue(n) \/ Grant(n) \/ RevokeGrant(n)
    \/ Tick \/ Reopen

Spec == Init /\ [][Next]_vars

-----------------------------------------------------------------------------
(* Properties.                                                             *)

\* Every variable has the type of what it models.
TypeOK ==
    /\ pend \in [RequestIds -> Pending \cup {None}] /\ reqs \in 0..MaxRequests
    /\ lapsed \in 0..reqs /\ old \in 0..lapsed
    /\ cons \in [EnrollmentIds -> Consumer \cup {None}]
    /\ enrs \in 0..MaxEnrollments /\ toks \in 0..MaxTokens
    /\ granted \subseteq Names
    /\ since \in [Names -> 0..MaxEnrollments]
    /\ held \in [Consumers -> 0..MaxTokens]
    /\ read \in [Consumers -> Read]

\* A live consumer's reach is its own: the grants of its name were given while
\* it held the name, or were prepared for a name nobody held and kept with the
\* operator's consent; none was given to an earlier holder (store.rs:3171).
NoInheritedReach ==
    \A e \in LiveEnrollments :
       cons[e].name \in granted =>
          \/ since[cons[e].name] = e
          \/ since[cons[e].name] = 0 /\ cons[e].kept

\* A token that resolves speaks for one enrollment, and whoever holds it is the
\* consumer whose request the operator approved: no squatter on the name, no
\* earlier or later requester, collects it (docs/operator-runbook.md:778).
TokensReachTheApproved ==
    \A e \in LiveEnrollments :
       /\ \A f \in LiveEnrollments :
             \/ e = f
             \/ /\ cons[e].name # cons[f].name
                /\ cons[e].token = cons[f].token => cons[e].token = 0
       /\ \A c \in Consumers :
             held[c] # 0 /\ held[c] = cons[e].token => c = cons[e].by

\* Tokens of an enrollment are never replaced in silence: every change raises
\* the generation, no poll takes back what rotate or reissue minted, and a
\* revoked enrollment never changes again (store.rs:2785, 3123, 3243).
GenerationsRise ==
    [][\A e \in EnrollmentIds :
          cons[e] # None =>
             /\ cons'[e].token # cons[e].token => cons'[e].gen > cons[e].gen
             /\ cons'[e].gen >= cons[e].gen
             /\ cons[e].revoked => cons'[e] = cons[e]]_vars

\* The table is bounded whatever is proposed, denied or left to expire: the
\* live limit and the sweep before each insert keep it under MaxRows
\* (store.rs:6976).
RowsBounded ==
    /\ Cardinality(Rows(pend)) <= MaxRows
    /\ Cardinality(Live(pend)) <= LiveLimit

\* What store.rs:3322 says of grants: "a token only resolves to a name with a
\* LIVE enrollment, so a grant naming a name that never enrolled, or one since
\* revoked, reaches nothing".
GrantReachesLiveOnly ==
    [][\A c \in Consumers :
          read[c].pc = "resolved" /\ read'[c].pc = "allowed"
             => Holder(read[c].name) # 0]_vars
=============================================================================
