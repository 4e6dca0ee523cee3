-------------------------- MODULE EnrollmentProofs --------------------------
(***************************************************************************)
(* Proofs about Enrollment, for every set of consumers and names and every *)
(* bound.  IInv is inductive; the safety properties follow from it.        *)
(***************************************************************************)
EXTENDS Enrollment, FiniteSetTheorems, WellFoundedInduction, TLAPS

-----------------------------------------------------------------------------
(* The inductive invariant.                                                *)

\* Enrollment ids are taken in order.
IdsInOrder == \A e \in EnrollmentIds : cons[e] # None => e <= enrs

\* No two live enrollments share a name.
OneHolder ==
    \A e, f \in EnrollmentIds :
       /\ cons[e] # None /\ ~cons[e].revoked
       /\ cons[f] # None /\ ~cons[f].revoked
       /\ cons[e].name = cons[f].name
       => e = f

\* Tokens were minted, and none of them for two enrollments, revoked ones
\* included.
Minted ==
    \A e \in EnrollmentIds :
       cons[e] # None => cons[e].token <= toks /\ cons[e].gen <= toks
TokensApart ==
    \A e, f \in EnrollmentIds :
       /\ cons[e] # None /\ cons[f] # None /\ e # f
       /\ cons[e].token = cons[f].token
       => cons[e].token = 0

\* Consumers hold minted tokens, of enrollments approved for them.
HeldMinted == \A c \in Consumers : held[c] <= toks
HeldByApproved ==
    \A c \in Consumers, e \in EnrollmentIds :
       cons[e] # None /\ held[c] # 0 /\ held[c] = cons[e].token
          => c = cons[e].by

\* An approved request points to the enrollment made for its requester.
ApprovedPoints ==
    \A q \in RequestIds :
       pend[q] # None /\ pend[q].state = "approved" =>
          /\ pend[q].enr \in EnrollmentIds /\ cons[pend[q].enr] # None
          /\ cons[pend[q].enr].by = pend[q].by

\* Grants given to a holder of the name are grants of the present holder.
GivenToHolder ==
    \A n \in Names :
       since[n] # 0 => /\ since[n] \in EnrollmentIds /\ cons[since[n]] # None
                       /\ ~cons[since[n]].revoked /\ cons[since[n]].name = n

Core ==
    /\ IdsInOrder /\ OneHolder /\ Minted /\ TokensApart /\ HeldMinted
    /\ HeldByApproved /\ ApprovedPoints /\ GivenToHolder /\ NoInheritedReach
IInv == TypeOK /\ Core

-----------------------------------------------------------------------------
(* Types of the rows.                                                      *)

\* Bounds and ids are what they are declared to be.
LEMMA Bounds ==
    /\ MaxRequests \in Nat /\ MaxEnrollments \in Nat /\ MaxTokens \in Nat
    /\ 0 \in 0..MaxEnrollments /\ 0 \in 0..MaxTokens
    /\ EnrollmentIds \subseteq 0..MaxEnrollments
    /\ EnrollmentIds \subseteq Nat \ {0}
BY ConstantsAssumption DEF EnrollmentIds

\* The fields of a stored enrollment.
LEMMA ConsType ==
    ASSUME TypeOK, NEW e \in EnrollmentIds, cons[e] # None
    PROVE  /\ cons[e] \in Consumer /\ cons[e].name \in Names
           /\ cons[e].token \in 0..MaxTokens /\ cons[e].gen \in 0..MaxTokens
           /\ cons[e].token \in Nat /\ cons[e].gen \in Nat
           /\ cons[e].revoked \in BOOLEAN /\ cons[e].by \in Consumers
           /\ cons[e].kept \in BOOLEAN
<1>1. cons[e] \in Consumer BY DEF TypeOK
<1> QED BY <1>1, Bounds DEF Consumer

\* The fields of a stored request.
LEMMA PendType ==
    ASSUME NEW p \in [RequestIds -> Pending \cup {None}],
           NEW q \in RequestIds, p[q] # None
    PROVE  /\ p[q] \in Pending /\ p[q].name \in Names
           /\ p[q].by \in Consumers /\ p[q].final \in Names \cup {None}
           /\ p[q].enr \in 0..MaxEnrollments
<1>1. p[q] \in Pending OBVIOUS
<1> QED BY <1>1 DEF Pending

\* A new state, or a new `told`, keeps the row a row and the rest of it.
LEMMA Restated ==
    ASSUME NEW r \in Pending,
           NEW s \in {"pending", "approved", "denied", "consumed", "expired"}
    PROVE  /\ [r EXCEPT !.state = s] \in Pending
           /\ [r EXCEPT !.state = s].state = s
           /\ [r EXCEPT !.state = s].by = r.by
           /\ [r EXCEPT !.state = s].enr = r.enr
BY DEF Pending

\* Whether the consumer has its request id changes nothing else of the row.
LEMMA Retold ==
    ASSUME NEW r \in Pending, NEW t \in BOOLEAN
    PROVE  /\ [r EXCEPT !.told = t] \in Pending
           /\ [r EXCEPT !.told = t].state = r.state
           /\ [r EXCEPT !.told = t].by = r.by
           /\ [r EXCEPT !.told = t].enr = r.enr
           /\ r.told \in BOOLEAN
BY DEF Pending

\* The live enrollment of a name is live and has the name.
LEMMA HolderIsLive ==
    ASSUME NEW n, Holder(n) # 0
    PROVE  /\ Holder(n) \in EnrollmentIds /\ cons[Holder(n)] # None
           /\ ~cons[Holder(n)].revoked /\ cons[Holder(n)].name = n
BY DEF Holder, LiveEnrollments

\* A name without a holder is the name of no live enrollment.
LEMMA NoHolder ==
    ASSUME NEW n, Holder(n) = 0, NEW e \in EnrollmentIds,
           cons[e] # None, ~cons[e].revoked
    PROVE  cons[e].name # n
<1> SUFFICES ASSUME cons[e].name = n PROVE FALSE OBVIOUS
<1>1. \E f \in LiveEnrollments : cons[f].name = n BY DEF LiveEnrollments
<1>2. Holder(n) \in LiveEnrollments BY <1>1 DEF Holder
<1> QED BY <1>2, Bounds DEF LiveEnrollments

-----------------------------------------------------------------------------
(* Steps that leave enrollments, tokens and grants alone.                  *)

\* No approved row appears, and the ones that stay are about the same
\* enrollment and requester.
Faithful(p, r) ==
    \A q \in RequestIds :
       r[q] # None /\ r[q].state = "approved" =>
          /\ p[q] # None /\ p[q].state = "approved"
          /\ r[q].enr = p[q].enr /\ r[q].by = p[q].by

\* A step that only moves requests faithfully keeps the core.
LEMMA PendStep ==
    ASSUME Core, Faithful(pend, pend'), UNCHANGED <<consumers, grants, held>>
    PROVE  Core'
<1>1. UNCHANGED <<cons, enrs, toks, granted, since, held>>
    BY DEF consumers, grants
<1>2. ApprovedPoints' BY <1>1 DEF Core, ApprovedPoints, Faithful
<1>3. /\ IdsInOrder' /\ OneHolder' /\ Minted' /\ TokensApart'
      /\ HeldMinted' /\ HeldByApproved' /\ GivenToHolder'
    BY <1>1 DEF Core, IdsInOrder, OneHolder, Minted, TokensApart,
                HeldMinted, HeldByApproved, GivenToHolder
<1>4. NoInheritedReach'
    BY <1>1 DEF Core, NoInheritedReach, LiveEnrollments
<1> QED BY <1>2, <1>3, <1>4 DEF Core

\* A step that touches neither rows nor tokens keeps the core.
LEMMA SamePend ==
    ASSUME Core, UNCHANGED <<pend, consumers, grants, held>>
    PROVE  Core'
<1>1. Faithful(pend, pend') BY DEF Faithful
<1> QED BY <1>1, PendStep

\* The sweep deletes rows and expires rows, and does nothing else.
LEMMA SweepType ==
    ASSUME NEW p \in [RequestIds -> Pending \cup {None}], NEW k
    PROVE  /\ Swept(p, k) \in [RequestIds -> Pending \cup {None}]
           /\ Faithful(p, Swept(p, k))
<1> DEFINE late == {q \in Live(p) : q <= lapsed}
           ended == {q \in Ended(p) \cup late : q > old}
           rows == ended \cup (Live(p) \ late)
           excess == {q \in ended : Cardinality({o \in ended : o < q}) + MaxRows
                                      < Cardinality(rows) + k}
           row(q) == IF q \notin rows \ excess THEN None
                     ELSE IF q \in late THEN [p[q] EXCEPT !.state = "expired"]
                     ELSE p[q]
<1>1. Swept(p, k) = [q \in RequestIds |-> row(q)] BY DEF Swept
<1>2. \A q \in RequestIds : q \in rows => p[q] # None
    BY DEF Live, Ended, Rows
<1> HIDE DEF rows, excess, late, ended
<1>3. ASSUME NEW q \in RequestIds
      PROVE  /\ row(q) \in Pending \cup {None}
             /\ row(q) # None /\ row(q).state = "approved" => row(q) = p[q]
  <2>1. CASE q \notin rows \ excess BY <2>1
  <2>2. CASE q \in rows \ excess /\ q \in late
    <3>1. p[q] \in Pending BY <1>2, <2>2, PendType
    <3>2. row(q) = [p[q] EXCEPT !.state = "expired"] BY <2>2
    <3> QED BY <3>1, <3>2, Restated
  <2>3. CASE q \in rows \ excess /\ q \notin late
    <3>1. p[q] \in Pending BY <1>2, <2>3, PendType
    <3> QED BY <3>1, <2>3
  <2> QED BY <2>1, <2>2, <2>3
<1> HIDE DEF row
<1> QED BY <1>1, <1>3 DEF Faithful

\* A row of the table is replaced by a well-typed one.
LEMMA Stored ==
    ASSUME NEW p \in [RequestIds -> Pending \cup {None}],
           NEW q \in RequestIds, NEW r \in Pending
    PROVE  /\ [p EXCEPT ![q] = r] \in [RequestIds -> Pending \cup {None}]
           /\ [p EXCEPT ![q] = r][q] = r
           /\ \A o \in RequestIds : o # q => [p EXCEPT ![q] = r][o] = p[o]
           /\ r.state # "approved" => Faithful(p, [p EXCEPT ![q] = r])
           /\ p[q] # None /\ r.state = p[q].state /\ r.enr = p[q].enr
                 /\ r.by = p[q].by => Faithful(p, [p EXCEPT ![q] = r])
<1>1. /\ [p EXCEPT ![q] = r] \in [RequestIds -> Pending \cup {None}]
      /\ [p EXCEPT ![q] = r][q] = r
      /\ \A o \in RequestIds : o # q => [p EXCEPT ![q] = r][o] = p[o]
    OBVIOUS
<1> DEFINE s == [p EXCEPT ![q] = r]
<1> HIDE DEF s
<1>2. s[q] = r /\ \A o \in RequestIds : o # q => s[o] = p[o] BY <1>1 DEF s
<1>3. r.state # "approved" => Faithful(p, s) BY <1>2 DEF Faithful
<1>4. p[q] # None /\ r.state = p[q].state /\ r.enr = p[q].enr
         /\ r.by = p[q].by => Faithful(p, s)
    BY <1>2 DEF Faithful
<1> QED BY <1>1, <1>3, <1>4 DEF s

\* Faithful moves compose: a sweep followed by a change.
LEMMA FaithfulChain ==
    ASSUME NEW p, NEW r, NEW s, Faithful(p, r), Faithful(r, s)
    PROVE  Faithful(p, s)
BY DEF Faithful

\* A request is marked with a final state.
LEMMA MarkedType ==
    ASSUME TypeOK, NEW q \in RequestIds, pend[q] # None,
           NEW s \in {"denied", "consumed", "expired"}
    PROVE  /\ Marked(pend, q, s) \in [RequestIds -> Pending \cup {None}]
           /\ Faithful(pend, Marked(pend, q, s))
<1>1. pend \in [RequestIds -> Pending \cup {None}] BY DEF TypeOK
<1>2. pend[q] \in Pending BY <1>1, PendType
<1> DEFINE r == [pend[q] EXCEPT !.state = s]
<1>3. r \in Pending /\ r.state # "approved" BY <1>2, Restated
<1> HIDE DEF r
<1>4. /\ [pend EXCEPT ![q] = r] \in [RequestIds -> Pending \cup {None}]
      /\ Faithful(pend, [pend EXCEPT ![q] = r])
    BY <1>1, <1>3, Stored
<1> QED BY <1>4 DEF Marked, r

\* What is left of TypeOK when only the requests change.
LEMMA PendTypeOK ==
    ASSUME TypeOK, pend' \in [RequestIds -> Pending \cup {None}],
           reqs' \in reqs..MaxRequests,
           UNCHANGED <<clock, consumers, grants, held, read>>
    PROVE  TypeOK'
BY Bounds DEF TypeOK, clock, consumers, grants

\* propose, with its sweep and its resumption.
LEMMA ProposeStep ==
    ASSUME IInv, NEW c \in Consumers, NEW n \in Names, Propose(c, n)
    PROVE  IInv'
<1> DEFINE p == Swept(pend, 1)
<1>1. UNCHANGED <<clock, consumers, grants, held, read>> BY DEF Propose
<1>2. p \in [RequestIds -> Pending \cup {None}] /\ Faithful(pend, p)
    BY SweepType DEF IInv, TypeOK
<1>3. reqs \in 0..MaxRequests BY DEF IInv, TypeOK
<1>4. /\ pend' \in [RequestIds -> Pending \cup {None}] /\ Faithful(p, pend')
      /\ reqs' \in reqs..MaxRequests
  <2>1. \/ \E q \in Rows(p), got \in BOOLEAN :
              /\ pend' = [p EXCEPT ![q] = [p[q] EXCEPT !.told = p[q].told \/ got]]
              /\ reqs' = reqs
        \/ pend' = p /\ reqs' = reqs
        \/ /\ reqs < MaxRequests /\ reqs' = reqs + 1
           /\ \E got \in BOOLEAN :
                 pend' = [p EXCEPT ![reqs + 1] =
                            [name |-> n, by |-> c, state |-> "pending",
                             final |-> None, enr |-> 0, told |-> got]]
    <3>1. Arrives \subseteq BOOLEAN BY DEF Arrives
    <3> DEFINE own == {q \in Rows(p) :
                         p[q].name = n /\ p[q].by = c /\ p[q].state = "pending"}
               taken == \E q \in Live(p) : p[q].name = n
    <3>a. ProposeSwept(c, n, p) BY DEF Propose
    <3> HIDE DEF p
    <3>2. \/ \E q \in own, got \in Arrives :
                /\ pend' = [p EXCEPT ![q] =
                              [p[q] EXCEPT !.told = p[q].told \/ got]]
                /\ reqs' = reqs
          \/ pend' = p /\ reqs' = reqs
          \/ /\ reqs < MaxRequests /\ reqs' = reqs + 1
             /\ \E got \in Arrives :
                   pend' = [p EXCEPT ![reqs + 1] =
                              [name |-> n, by |-> c, state |-> "pending",
                               final |-> None, enr |-> 0, told |-> got]]
        BY <3>a DEF ProposeSwept
    <3>3. own \subseteq Rows(p) OBVIOUS
    <3> HIDE DEF own, taken
    <3> QED BY <3>1, <3>2, <3>3
  <2> HIDE DEF p
  <2>2. CASE \E q \in Rows(p), got \in BOOLEAN :
               /\ pend' = [p EXCEPT ![q] = [p[q] EXCEPT !.told = p[q].told \/ got]]
               /\ reqs' = reqs
    <3>1. PICK q \in Rows(p), got \in BOOLEAN :
             /\ pend' = [p EXCEPT ![q] = [p[q] EXCEPT !.told = p[q].told \/ got]]
             /\ reqs' = reqs
        BY <2>2
    <3>2. q \in RequestIds /\ p[q] # None /\ p[q] \in Pending
        BY <1>2, PendType DEF Rows
    <3> DEFINE r == [p[q] EXCEPT !.told = p[q].told \/ got]
    <3>3. /\ r \in Pending /\ r.state = p[q].state
          /\ r.by = p[q].by /\ r.enr = p[q].enr
      <4>1. p[q].told \in BOOLEAN BY <3>2, Retold
      <4>2. (p[q].told \/ got) \in BOOLEAN OBVIOUS
      <4> QED BY <3>2, <4>2, Retold
    <3>4. pend' = [p EXCEPT ![q] = r] BY <3>1
    <3>5. reqs' \in reqs..MaxRequests BY <1>3, <3>1, Bounds
    <3> HIDE DEF r
    <3>6. /\ [p EXCEPT ![q] = r] \in [RequestIds -> Pending \cup {None}]
          /\ Faithful(p, [p EXCEPT ![q] = r])
        BY <1>2, <3>2, <3>3, Stored
    <3> QED BY <3>4, <3>5, <3>6
  <2>3. CASE pend' = p /\ reqs' = reqs
    BY <1>2, <1>3, <2>3 DEF Faithful
  <2>4. CASE /\ reqs < MaxRequests /\ reqs' = reqs + 1
             /\ \E got \in BOOLEAN :
                   pend' = [p EXCEPT ![reqs + 1] =
                              [name |-> n, by |-> c, state |-> "pending",
                               final |-> None, enr |-> 0, told |-> got]]
    <3>1. PICK got \in BOOLEAN :
             pend' = [p EXCEPT ![reqs + 1] =
                        [name |-> n, by |-> c, state |-> "pending",
                         final |-> None, enr |-> 0, told |-> got]]
        BY <2>4
    <3> DEFINE r == [name |-> n, by |-> c, state |-> "pending",
                     final |-> None, enr |-> 0, told |-> got]
    <3>2. r \in Pending /\ r.state # "approved" BY Bounds DEF Pending
    <3>3. reqs + 1 \in RequestIds /\ reqs + 1 \in reqs..MaxRequests
        BY <1>3, <2>4, Bounds DEF RequestIds
    <3>4. pend' = [p EXCEPT ![reqs + 1] = r] BY <3>1
    <3> HIDE DEF r
    <3> QED BY <1>2, <2>4, <3>2, <3>3, <3>4, Stored
  <2> QED BY <2>1, <2>2, <2>3, <2>4
<1> HIDE DEF p
<1>5. TypeOK' BY <1>1, <1>4, PendTypeOK DEF IInv
<1>6. Core' BY <1>1, <1>2, <1>4, FaithfulChain, PendStep DEF IInv
<1> QED BY <1>5, <1>6 DEF IInv

\* deny ends a pending request and no enrollment.
LEMMA DenyStep ==
    ASSUME IInv, NEW q \in RequestIds, Deny(q)
    PROVE  IInv'
<1>1. /\ pend[q] # None /\ reqs' = reqs
      /\ UNCHANGED <<clock, consumers, grants, held, read>>
    BY DEF Deny
<1>2. \E s \in {"denied", "consumed", "expired"} : pend' = Marked(pend, q, s)
    BY DEF Deny
<1>3. pend' \in [RequestIds -> Pending \cup {None}] /\ Faithful(pend, pend')
    BY <1>1, <1>2, MarkedType DEF IInv
<1>4. reqs' \in reqs..MaxRequests BY <1>1, Bounds DEF IInv, TypeOK
<1> QED BY <1>1, <1>3, <1>4, PendTypeOK, PendStep DEF IInv

\* A request found lapsed is marked expired and keeps what it was approved for.
LEMMA ExpireStep ==
    ASSUME IInv, NEW q \in RequestIds, pend[q] # None,
           pend' = Marked(pend, q, "expired"),
           UNCHANGED <<reqs, clock, consumers, grants, held, read>>
    PROVE  IInv'
<1>1. pend' \in [RequestIds -> Pending \cup {None}] /\ Faithful(pend, pend')
    BY MarkedType DEF IInv
<1>2. reqs' \in reqs..MaxRequests BY Bounds DEF IInv, TypeOK
<1> QED BY <1>1, <1>2, PendTypeOK, PendStep DEF IInv

\* A consumer that forgets its request ids changes nothing the store keeps.
LEMMA ForgetStep ==
    ASSUME IInv, NEW c \in Consumers, Forget(c)
    PROVE  IInv'
<1>1. /\ reqs' = reqs /\ UNCHANGED <<clock, consumers, grants, held, read>>
      /\ pend' = [q \in RequestIds |->
                    IF q \in Rows(pend) /\ pend[q].by = c
                    THEN [pend[q] EXCEPT !.told = FALSE] ELSE pend[q]]
    BY DEF Forget
<1>2. pend \in [RequestIds -> Pending \cup {None}] BY DEF IInv, TypeOK
<1>3. ASSUME NEW q \in RequestIds
      PROVE  /\ pend'[q] \in Pending \cup {None}
             /\ pend'[q] # None /\ pend'[q].state = "approved" =>
                  /\ pend[q] # None /\ pend[q].state = "approved"
                  /\ pend'[q].enr = pend[q].enr /\ pend'[q].by = pend[q].by
  <2>1. CASE q \in Rows(pend) /\ pend[q].by = c
    <3>1. pend[q] \in Pending /\ pend[q] # None
        BY <2>1, <1>2, PendType DEF Rows
    <3>2. pend'[q] = [pend[q] EXCEPT !.told = FALSE] BY <1>1, <2>1
    <3> QED BY <3>1, <3>2, Retold
  <2>2. CASE ~ (q \in Rows(pend) /\ pend[q].by = c)
    BY <1>1, <1>2, <2>2
  <2> QED BY <2>1, <2>2
<1>4. Faithful(pend, pend') BY <1>3 DEF Faithful
<1>5. pend' \in [RequestIds -> Pending \cup {None}] BY <1>1, <1>3
<1>6. reqs' \in reqs..MaxRequests BY <1>1, Bounds DEF IInv, TypeOK
<1> QED BY <1>1, <1>4, <1>5, <1>6, PendTypeOK, PendStep DEF IInv

\* Opening the store sweeps the requests and touches no enrollment.
LEMMA ReopenStep ==
    ASSUME IInv, Reopen
    PROVE  IInv'
<1>1. pend' \in [RequestIds -> Pending \cup {None}] /\ Faithful(pend, pend')
    BY SweepType DEF IInv, TypeOK, Reopen
<1>2. NoRead \in Read BY Bounds DEF NoRead, Read
<1>3. read' \in [Consumers -> Read] BY <1>2 DEF Reopen
<1>4. TypeOK'
    BY <1>1, <1>3 DEF IInv, TypeOK, Reopen, clock, consumers, grants
<1>5. Core' BY <1>1, PendStep DEF IInv, Reopen
<1> QED BY <1>4, <1>5 DEF IInv

\* The passing of time changes no row.
LEMMA TickStep ==
    ASSUME IInv, Tick
    PROVE  IInv'
<1>1. Core' BY SamePend DEF IInv, Tick, ceremony
<1>2. lapsed' \in 0..reqs /\ old' \in 0..lapsed' BY Bounds DEF IInv, TypeOK, Tick
<1>3. TypeOK'
    BY <1>2 DEF IInv, TypeOK, Tick, ceremony, consumers, grants
<1> QED BY <1>1, <1>3 DEF IInv

\* A scoped read changes no row.
LEMMA ReadStep ==
    ASSUME IInv, NEW c \in Consumers, Resolve(c) \/ Evaluate(c) \/ Return(c)
    PROVE  IInv'
<1>1. UNCHANGED <<ceremony, clock, consumers, grants, held>>
    BY DEF Resolve, Evaluate, Return
<1>2. read[c] \in Read BY DEF IInv, TypeOK
<1>3. NoRead \in Read BY Bounds DEF NoRead, Read
<1>4. \E r \in Read : read' = [read EXCEPT ![c] = r]
  <2>1. CASE Resolve(c)
    <3>1. PICK e \in LiveEnrollments :
             read' = [read EXCEPT ![c] = [pc |-> "resolved", enr |-> e,
                                          name |-> cons[e].name]]
        BY <2>1 DEF Resolve
    <3>2. e \in 0..MaxEnrollments /\ cons[e].name \in Names
        BY ConsType, Bounds DEF LiveEnrollments, IInv
    <3>3. [pc |-> "resolved", enr |-> e, name |-> cons[e].name] \in Read
        BY <3>2 DEF Read
    <3> QED BY <3>1, <3>3
  <2>2. CASE Evaluate(c)
    <3>1. [read[c] EXCEPT !.pc = "allowed"] \in Read BY <1>2 DEF Read
    <3> QED BY <2>2, <1>3, <3>1 DEF Evaluate
  <2>3. CASE Return(c) BY <2>3, <1>3 DEF Return
  <2> QED BY <2>1, <2>2, <2>3
<1>5. TypeOK' BY <1>1, <1>4 DEF IInv, TypeOK, ceremony, clock, consumers, grants
<1>6. Core' BY <1>1, SamePend DEF IInv, ceremony
<1> QED BY <1>5, <1>6 DEF IInv

-----------------------------------------------------------------------------
(* Steps that mint a token.                                                *)

\* A minted token is the enrollment's own, at a higher generation.
LEMMA MintStep ==
    ASSUME IInv, NEW e \in EnrollmentIds, cons[e] # None, ~cons[e].revoked,
           NEW gen \in Nat, gen <= toks + 1, Mint(e, cons[e].by, gen),
           pend' \in [RequestIds -> Pending \cup {None}],
           Faithful(pend, pend'),
           UNCHANGED <<reqs, clock, grants, read>>
    PROVE  IInv'
<1> DEFINE c == cons[e].by
           r == [cons[e] EXCEPT !.token = toks + 1, !.gen = gen]
<1>1. /\ toks \in Nat /\ toks < MaxTokens /\ toks' = toks + 1 /\ enrs' = enrs
      /\ toks + 1 \in 0..MaxTokens /\ gen \in 0..MaxTokens
      /\ cons' = [cons EXCEPT ![e] = r]
      /\ held' = held \/ held' = [held EXCEPT ![c] = toks + 1]
    BY Bounds DEF IInv, TypeOK, Mint
<1>2. cons[e] \in Consumer /\ c \in Consumers BY ConsType DEF IInv
<1>3. /\ r \in Consumer /\ r.token = toks + 1 /\ r.gen = gen
      /\ r.name = cons[e].name /\ r.revoked = cons[e].revoked
      /\ r.by = cons[e].by /\ r.kept = cons[e].kept
    BY <1>1, <1>2 DEF Consumer
<1>4. r # None BY <1>3, NoneAssumption
<1>5. cons \in [EnrollmentIds -> Consumer \cup {None}]
    BY DEF IInv, TypeOK
<1>6. /\ cons' \in [EnrollmentIds -> Consumer \cup {None}] /\ cons'[e] = r
      /\ \A f \in EnrollmentIds : f # e => cons'[f] = cons[f]
  <2> HIDE DEF r
  <2> QED BY <1>1, <1>3, <1>5
<1> HIDE DEF r
\* The enrollments are the same but for the token and the generation of e.
<1>7. ASSUME NEW f \in EnrollmentIds
      PROVE  /\ cons'[f] # None <=> cons[f] # None
             /\ cons[f] # None =>
                   /\ cons'[f].name = cons[f].name
                   /\ cons'[f].revoked = cons[f].revoked
                   /\ cons'[f].by = cons[f].by /\ cons'[f].kept = cons[f].kept
    BY <1>3, <1>4, <1>6
<1>8. held \in [Consumers -> 0..MaxTokens] BY DEF IInv, TypeOK
<1>9. ASSUME NEW b \in Consumers
      PROVE  held'[b] = held[b] \/ (b = c /\ held'[b] = toks + 1)
    BY <1>1, <1>8
<1>10. held' \in [Consumers -> 0..MaxTokens] BY <1>1, <1>2, <1>8
<1> HIDE DEF c
<1>11. TypeOK'
    BY <1>1, <1>6, <1>10 DEF IInv, TypeOK, clock, grants
<1>12. IdsInOrder' BY <1>1, <1>7 DEF IInv, Core, IdsInOrder
<1>13. OneHolder' BY <1>7 DEF IInv, Core, OneHolder
<1>14. Minted'
  <2> SUFFICES ASSUME NEW f \in EnrollmentIds, cons'[f] # None
               PROVE  cons'[f].token <= toks + 1 /\ cons'[f].gen <= toks + 1
    BY <1>1 DEF Minted
  <2>1. CASE f = e BY <2>1, <1>1, <1>3, <1>6
  <2>2. CASE f # e
    <3>1. cons'[f] = cons[f] BY <2>2, <1>6
    <3>2. cons[f].token \in Nat /\ cons[f].gen \in Nat
        BY <3>1, ConsType DEF IInv
    <3>3. cons[f].token <= toks /\ cons[f].gen <= toks
        BY <3>1 DEF IInv, Core, Minted
    <3> QED BY <3>1, <3>2, <3>3, <1>1
  <2> QED BY <2>1, <2>2
<1>15. ASSUME NEW f \in EnrollmentIds, cons[f] # None
       PROVE  cons[f].token # toks + 1
  <2>1. cons[f].token \in Nat BY <1>15, ConsType DEF IInv
  <2>2. cons[f].token <= toks BY <1>15 DEF IInv, Core, Minted
  <2> QED BY <2>1, <2>2, <1>1
<1>16. TokensApart'
  <2> SUFFICES ASSUME NEW f \in EnrollmentIds, NEW g \in EnrollmentIds,
                      cons'[f] # None, cons'[g] # None, f # g,
                      cons'[f].token = cons'[g].token
               PROVE  cons'[f].token = 0
    BY DEF TokensApart
  <2>1. cons[f] # None /\ cons[g] # None BY <1>7
  <2>2. CASE f = e BY <2>1, <2>2, <1>3, <1>6, <1>15
  <2>3. CASE g = e BY <2>1, <2>3, <1>3, <1>6, <1>15
  <2>4. CASE f # e /\ g # e
    BY <2>1, <2>4, <1>6 DEF IInv, Core, TokensApart
  <2> QED BY <2>2, <2>3, <2>4
<1>17. HeldMinted'
  <2> SUFFICES ASSUME NEW b \in Consumers PROVE held'[b] <= toks + 1
    BY <1>1 DEF HeldMinted
  <2>1. held[b] \in Nat /\ held[b] <= toks
      BY <1>8, Bounds DEF IInv, Core, HeldMinted
  <2> QED BY <2>1, <1>1, <1>9
<1>18. HeldByApproved'
  <2> SUFFICES ASSUME NEW b \in Consumers, NEW f \in EnrollmentIds,
                      cons'[f] # None, held'[b] # 0,
                      held'[b] = cons'[f].token
               PROVE  b = cons'[f].by
    BY DEF HeldByApproved
  <2>1. cons[f] # None /\ cons'[f].by = cons[f].by BY <1>7
  <2>2. held[b] \in Nat /\ held[b] <= toks
      BY <1>8, Bounds DEF IInv, Core, HeldMinted
  <2>3. CASE f = e
    <3>1. held'[b] = toks + 1 BY <2>3, <1>3, <1>6
    <3>2. held[b] # toks + 1 BY <2>2, <1>1
    <3>3. b = c BY <3>1, <3>2, <1>9
    <3> QED BY <3>3, <2>3, <2>1 DEF c
  <2>4. CASE f # e
    <3>1. cons'[f] = cons[f] BY <2>4, <1>6
    <3>2. held'[b] # toks + 1 BY <3>1, <2>1, <1>15
    <3>3. held'[b] = held[b] BY <3>2, <1>9
    <3> QED BY <3>1, <3>3, <2>1 DEF IInv, Core, HeldByApproved
  <2> QED BY <2>3, <2>4
<1>19. ApprovedPoints'
  <2> SUFFICES ASSUME NEW q \in RequestIds, pend'[q] # None,
                      pend'[q].state = "approved"
               PROVE  /\ pend'[q].enr \in EnrollmentIds
                      /\ cons'[pend'[q].enr] # None
                      /\ cons'[pend'[q].enr].by = pend'[q].by
    BY DEF ApprovedPoints
  <2>1. /\ pend[q] # None /\ pend[q].state = "approved"
        /\ pend'[q].enr = pend[q].enr /\ pend'[q].by = pend[q].by
      BY DEF Faithful
  <2>2. /\ pend[q].enr \in EnrollmentIds /\ cons[pend[q].enr] # None
        /\ cons[pend[q].enr].by = pend[q].by
      BY <2>1 DEF IInv, Core, ApprovedPoints
  <2> QED BY <2>1, <2>2, <1>7
<1>20. UNCHANGED <<granted, since>> BY DEF grants
<1>21. GivenToHolder' BY <1>7, <1>20 DEF IInv, Core, GivenToHolder
<1>22. NoInheritedReach'
  <2> SUFFICES ASSUME NEW f \in EnrollmentIds, cons'[f] # None,
                      ~cons'[f].revoked, cons'[f].name \in granted
               PROVE  \/ since[cons'[f].name] = f
                      \/ since[cons'[f].name] = 0 /\ cons'[f].kept
    BY <1>20 DEF NoInheritedReach, LiveEnrollments
  <2>1. /\ cons[f] # None /\ ~cons[f].revoked
        /\ cons'[f].name = cons[f].name /\ cons'[f].kept = cons[f].kept
      BY <1>7
  <2> QED BY <2>1 DEF IInv, Core, NoInheritedReach, LiveEnrollments
<1> QED
  BY <1>11, <1>12, <1>13, <1>14, <1>16, <1>17, <1>18, <1>19, <1>21, <1>22
  DEF IInv, Core

\* poll gives the token to the request that was approved for it.
LEMMA PollStep ==
    ASSUME IInv, NEW c \in Consumers, NEW q \in RequestIds, Poll(c, q)
    PROVE  IInv'
<1>1. pend[q] # None /\ pend[q].by = c /\ UNCHANGED <<reqs, clock, grants, read>>
    BY DEF Poll
<1>2. CASE /\ pend' = Marked(pend, q, "expired") /\ UNCHANGED <<consumers, held>>
    BY <1>1, <1>2, ExpireStep
<1>3. CASE /\ pend[q].state = "approved" /\ Deliverable(q, pend[q].enr)
           /\ pend' = Marked(pend, q, "consumed") /\ Mint(pend[q].enr, c, 1)
  <2> DEFINE e == pend[q].enr
  <2>1. e \in EnrollmentIds /\ cons[e] # None /\ cons[e].by = c
      BY <1>1, <1>3 DEF IInv, Core, ApprovedPoints
  <2>2. ~cons[e].revoked BY <1>3 DEF Deliverable
  <2>3. pend' \in [RequestIds -> Pending \cup {None}] /\ Faithful(pend, pend')
      BY <1>1, <1>3, MarkedType DEF IInv
  <2>4. 1 \in Nat /\ 1 <= toks + 1 BY Bounds DEF IInv, TypeOK
  <2>5. Mint(e, cons[e].by, 1) BY <1>3, <2>1
  <2> HIDE DEF e
  <2> QED BY <1>1, <2>1, <2>2, <2>3, <2>4, <2>5, MintStep
<1> QED BY <1>2, <1>3 DEF Poll

\* A rotation or a reissue of a live enrollment.
LEMMA RenewStep ==
    ASSUME IInv, NEW e \in EnrollmentIds, cons[e] # None, ~cons[e].revoked,
           Mint(e, cons[e].by, cons[e].gen + 1),
           UNCHANGED <<ceremony, clock, grants, read>>
    PROVE  IInv'
<1>1. /\ cons[e].gen + 1 \in Nat /\ cons[e].gen + 1 <= toks + 1
  <2>1. cons[e].gen \in Nat /\ cons[e].gen <= toks
      BY ConsType DEF IInv, Core, Minted
  <2>2. toks \in Nat BY Bounds DEF IInv, TypeOK
  <2> QED BY <2>1, <2>2
<1>2. pend' \in [RequestIds -> Pending \cup {None}] /\ Faithful(pend, pend')
    BY DEF IInv, TypeOK, ceremony, Faithful
<1>3. UNCHANGED <<reqs, clock, grants, read>> BY DEF ceremony
<1> QED BY <1>1, <1>2, <1>3, MintStep

\* rotate gives the token to the holder of the previous one.
LEMMA RotateStep ==
    ASSUME IInv, NEW c \in Consumers, Rotate(c)
    PROVE  IInv'
<1>1. PICK e \in LiveEnrollments :
         cons[e].token = held[c] /\ Mint(e, c, cons[e].gen + 1)
    BY DEF Rotate
<1>2. e \in EnrollmentIds /\ cons[e] # None /\ ~cons[e].revoked
    BY DEF LiveEnrollments
<1>3. c = cons[e].by
    BY <1>1, <1>2 DEF Rotate, IInv, Core, HeldByApproved
<1>4. Mint(e, cons[e].by, cons[e].gen + 1) BY <1>1, <1>3
<1> QED BY <1>2, <1>4, RenewStep DEF Rotate

\* reissue replaces a lost token without reaching another enrollment.
LEMMA ReissueStep ==
    ASSUME IInv, NEW n \in Names, Reissue(n)
    PROVE  IInv'
<1> DEFINE e == Holder(n)
<1>1. /\ Mint(e, cons[e].by, cons[e].gen + 1)
      /\ UNCHANGED <<ceremony, clock, grants, read>>
    BY DEF Reissue
<1>2. e \in EnrollmentIds /\ cons[e] # None /\ ~cons[e].revoked
    BY HolderIsLive DEF Reissue
<1> HIDE DEF e
<1> QED BY <1>1, <1>2, RenewStep

-----------------------------------------------------------------------------
(* Steps of the operator that change enrollments or grants.                *)

\* approve makes the one live enrollment of its name.
LEMMA ApproveStep ==
    ASSUME IInv, NEW q \in RequestIds, NEW n \in Names, NEW keep \in BOOLEAN,
           Approve(q, n, keep)
    PROVE  IInv'
<1>1. pend[q] # None /\ UNCHANGED <<reqs, clock, grants, held, read>>
    BY DEF Approve
<1>2. CASE pend' = Marked(pend, q, "expired") /\ UNCHANGED consumers
    BY <1>1, <1>2, ExpireStep
<1> DEFINE e == enrs + 1
           r == [name |-> n, token |-> 0, gen |-> 0, revoked |-> FALSE,
                 by |-> pend[q].by, kept |-> keep]
           s == [pend[q] EXCEPT !.state = "approved", !.final = n, !.enr = e]
<1>3. CASE /\ Holder(n) = 0 /\ (n \in granted => keep)
           /\ enrs < MaxEnrollments /\ enrs' = e
           /\ cons' = [cons EXCEPT ![e] = r] /\ pend' = [pend EXCEPT ![q] = s]
           /\ toks' = toks
  <2>1. /\ e \in EnrollmentIds /\ e \in 0..MaxEnrollments /\ enrs < e
        /\ enrs \in Nat /\ e \in Nat
      BY <1>3, Bounds DEF IInv, TypeOK, EnrollmentIds
  <2>2. cons[e] = None
    <3>1. cons[e] # None => e <= enrs BY <2>1 DEF IInv, Core, IdsInOrder
    <3> QED BY <3>1, <2>1
  <2>3. pend[q] \in Pending /\ pend[q].by \in Consumers
      BY <1>1, PendType DEF IInv, TypeOK
  <2>4. /\ r \in Consumer /\ r # None /\ r.name = n /\ r.token = 0
        /\ r.gen = 0 /\ ~r.revoked /\ r.by = pend[q].by /\ r.kept = keep
    <3>1. r \in Consumer BY <2>3, Bounds DEF Consumer
    <3> QED BY <3>1, NoneAssumption
  <2>5. /\ s \in Pending /\ s.state = "approved" /\ s.enr = e
        /\ s.by = pend[q].by
      BY <2>1, <2>3 DEF Pending
  <2> HIDE DEF r, s, e
  <2>6. /\ cons \in [EnrollmentIds -> Consumer \cup {None}]
        /\ pend \in [RequestIds -> Pending \cup {None}]
      BY DEF IInv, TypeOK
  <2>7. /\ cons' \in [EnrollmentIds -> Consumer \cup {None}] /\ cons'[e] = r
        /\ \A f \in EnrollmentIds : f # e => cons'[f] = cons[f]
      BY <1>3, <2>1, <2>4, <2>6
  <2>8. /\ pend' \in [RequestIds -> Pending \cup {None}] /\ pend'[q] = s
        /\ \A o \in RequestIds : o # q => pend'[o] = pend[o]
      BY <1>3, <2>5, <2>6
  <2>9. UNCHANGED <<granted, since, held>> BY <1>1 DEF grants
  <2>10. TypeOK'
      BY <1>1, <1>3, <2>1, <2>7, <2>8 DEF IInv, TypeOK, clock, grants
  <2>11. IdsInOrder'
    <3> SUFFICES ASSUME NEW f \in EnrollmentIds, cons'[f] # None
                 PROVE  f <= e
      BY <1>3 DEF IdsInOrder
    <3>1. CASE f = e BY <3>1, <2>1
    <3>2. CASE f # e
      <4>1. f <= enrs BY <3>2, <2>7 DEF IInv, Core, IdsInOrder
      <4> QED BY <4>1, <2>1, Bounds
    <3> QED BY <3>1, <3>2
  <2>12. \A f \in EnrollmentIds :
            cons[f] # None /\ ~cons[f].revoked => cons[f].name # n
      BY <1>3, NoHolder
  <2>13. OneHolder'
    <3> SUFFICES ASSUME NEW f \in EnrollmentIds, NEW g \in EnrollmentIds,
                        cons'[f] # None, ~cons'[f].revoked,
                        cons'[g] # None, ~cons'[g].revoked,
                        cons'[f].name = cons'[g].name
                 PROVE  f = g
      BY DEF OneHolder
    <3>1. CASE f # e /\ g # e
      BY <3>1, <2>7 DEF IInv, Core, OneHolder
    <3>2. CASE f = e /\ g # e BY <3>2, <2>4, <2>7, <2>12
    <3>3. CASE f # e /\ g = e BY <3>3, <2>4, <2>7, <2>12
    <3> QED BY <3>1, <3>2, <3>3
  <2>14. Minted'
    <3>1. 0 <= toks BY Bounds DEF IInv, TypeOK
    <3> QED BY <1>3, <2>4, <2>7, <3>1 DEF IInv, Core, Minted
  <2>15. TokensApart' BY <2>4, <2>7 DEF IInv, Core, TokensApart
  <2>16. HeldMinted' BY <1>3, <2>9 DEF IInv, Core, HeldMinted
  <2>17. HeldByApproved' BY <2>4, <2>7, <2>9 DEF IInv, Core, HeldByApproved
  <2>18. ApprovedPoints'
    <3> SUFFICES ASSUME NEW o \in RequestIds, pend'[o] # None,
                        pend'[o].state = "approved"
                 PROVE  /\ pend'[o].enr \in EnrollmentIds
                        /\ cons'[pend'[o].enr] # None
                        /\ cons'[pend'[o].enr].by = pend'[o].by
      BY DEF ApprovedPoints
    <3>1. CASE o = q BY <3>1, <2>1, <2>4, <2>5, <2>7, <2>8
    <3>2. CASE o # q
      <4>1. pend'[o] = pend[o] BY <3>2, <2>8
      <4>2. /\ pend[o].enr \in EnrollmentIds /\ cons[pend[o].enr] # None
            /\ cons[pend[o].enr].by = pend[o].by
          BY <4>1 DEF IInv, Core, ApprovedPoints
      <4>3. pend[o].enr # e BY <4>2, <2>2
      <4> QED BY <4>1, <4>2, <4>3, <2>7
    <3> QED BY <3>1, <3>2
  <2>19. GivenToHolder'
    <3> SUFFICES ASSUME NEW m \in Names, since[m] # 0
                 PROVE  /\ since[m] \in EnrollmentIds /\ cons'[since[m]] # None
                        /\ ~cons'[since[m]].revoked /\ cons'[since[m]].name = m
      BY <2>9 DEF GivenToHolder
    <3>1. /\ since[m] \in EnrollmentIds /\ cons[since[m]] # None
          /\ ~cons[since[m]].revoked /\ cons[since[m]].name = m
        BY DEF IInv, Core, GivenToHolder
    <3>2. since[m] # e BY <3>1, <2>2
    <3> QED BY <3>1, <3>2, <2>7
  <2>20. NoInheritedReach'
    <3> SUFFICES ASSUME NEW f \in EnrollmentIds, cons'[f] # None,
                        ~cons'[f].revoked, cons'[f].name \in granted
                 PROVE  \/ since[cons'[f].name] = f
                        \/ since[cons'[f].name] = 0 /\ cons'[f].kept
      BY <2>9 DEF NoInheritedReach, LiveEnrollments
    <3>1. CASE f # e
      BY <3>1, <2>7 DEF IInv, Core, NoInheritedReach, LiveEnrollments
    <3>2. CASE f = e
      <4>1. cons'[f].name = n /\ cons'[f].kept = keep BY <3>2, <2>4, <2>7
      <4>2. keep BY <1>3, <4>1
      <4>3. since[n] = 0
        <5>1. since[n] # 0 =>
                 /\ since[n] \in EnrollmentIds /\ cons[since[n]] # None
                 /\ ~cons[since[n]].revoked /\ cons[since[n]].name = n
            BY DEF IInv, Core, GivenToHolder
        <5> QED BY <5>1, <2>12
      <4> QED BY <4>1, <4>2, <4>3
    <3> QED BY <3>1, <3>2
  <2> QED
    BY <2>10, <2>11, <2>13, <2>14, <2>15, <2>16, <2>17, <2>18, <2>19, <2>20
    DEF IInv, Core
<1> QED BY <1>2, <1>3 DEF Approve

\* revoke ends the enrollment together with its grants.
LEMMA RevokeStep ==
    ASSUME IInv, NEW n \in Names, Revoke(n)
    PROVE  IInv'
<1> DEFINE e == Holder(n)
           r == [cons[e] EXCEPT !.revoked = TRUE]
<1>1. /\ cons' = [cons EXCEPT ![e] = r]
      /\ granted' = granted \ {n} /\ since' = [since EXCEPT ![n] = 0]
      /\ UNCHANGED <<enrs, toks, ceremony, clock, held, read>>
    BY DEF Revoke
<1>2. /\ e \in EnrollmentIds /\ cons[e] # None /\ ~cons[e].revoked
      /\ cons[e].name = n
    BY HolderIsLive DEF Revoke
<1> HIDE DEF e
<1>3. cons[e] \in Consumer BY <1>2, ConsType DEF IInv
<1>4. /\ r \in Consumer /\ r # None /\ r.revoked /\ r.by = cons[e].by
      /\ r.token = cons[e].token /\ r.gen = cons[e].gen
  <2>1. /\ r \in Consumer /\ r.revoked /\ r.by = cons[e].by
        /\ r.token = cons[e].token /\ r.gen = cons[e].gen
      BY <1>3 DEF Consumer
  <2> QED BY <2>1, NoneAssumption
<1> HIDE DEF r
<1>5. cons \in [EnrollmentIds -> Consumer \cup {None}] BY DEF IInv, TypeOK
<1>6. /\ cons' \in [EnrollmentIds -> Consumer \cup {None}] /\ cons'[e] = r
      /\ \A f \in EnrollmentIds : f # e => cons'[f] = cons[f]
    BY <1>1, <1>2, <1>4, <1>5
<1>7. /\ since \in [Names -> 0..MaxEnrollments] /\ granted \subseteq Names
    BY DEF IInv, TypeOK
<1>8. since' \in [Names -> 0..MaxEnrollments] BY <1>1, <1>7, Bounds
<1>9. TypeOK'
    BY <1>1, <1>6, <1>7, <1>8 DEF IInv, TypeOK, ceremony, clock
<1>10. IdsInOrder' BY <1>1, <1>2, <1>4, <1>6 DEF IInv, Core, IdsInOrder
<1>11. OneHolder' BY <1>4, <1>6 DEF IInv, Core, OneHolder
<1>12. Minted' BY <1>1, <1>2, <1>4, <1>6 DEF IInv, Core, Minted
<1>13. TokensApart' BY <1>2, <1>4, <1>6 DEF IInv, Core, TokensApart
<1>14. HeldMinted' BY <1>1 DEF IInv, Core, HeldMinted
<1>15. HeldByApproved'
    BY <1>1, <1>2, <1>4, <1>6 DEF IInv, Core, HeldByApproved
<1>16. ApprovedPoints'
    BY <1>1, <1>2, <1>4, <1>6 DEF IInv, Core, ApprovedPoints, ceremony
<1>17. \A m \in Names : m # n => since'[m] = since[m] BY <1>1, <1>7
<1>18. since'[n] = 0 BY <1>1, <1>7
<1>19. GivenToHolder'
  <2> SUFFICES ASSUME NEW m \in Names, since'[m] # 0
               PROVE  /\ since'[m] \in EnrollmentIds /\ cons'[since'[m]] # None
                      /\ ~cons'[since'[m]].revoked /\ cons'[since'[m]].name = m
    BY DEF GivenToHolder
  <2>1. m # n /\ since'[m] = since[m] BY <1>17, <1>18
  <2>2. /\ since[m] \in EnrollmentIds /\ cons[since[m]] # None
        /\ ~cons[since[m]].revoked /\ cons[since[m]].name = m
      BY <2>1 DEF IInv, Core, GivenToHolder
  <2>3. since[m] # e BY <1>2, <2>1, <2>2
  <2> QED BY <2>1, <2>2, <2>3, <1>6
<1>20. NoInheritedReach'
  <2> SUFFICES ASSUME NEW f \in EnrollmentIds, cons'[f] # None,
                      ~cons'[f].revoked, cons'[f].name \in granted'
               PROVE  \/ since'[cons'[f].name] = f
                      \/ since'[cons'[f].name] = 0 /\ cons'[f].kept
    BY DEF NoInheritedReach, LiveEnrollments
  <2>1. f # e /\ cons'[f] = cons[f] BY <1>4, <1>6
  <2>2. cons[f].name \in Names /\ cons[f].name # n /\ cons[f].name \in granted
      BY <2>1, <1>1, <1>7
  <2>3. since'[cons[f].name] = since[cons[f].name] BY <2>2, <1>17
  <2>4. \/ since[cons[f].name] = f
        \/ since[cons[f].name] = 0 /\ cons[f].kept
      BY <2>1, <2>2 DEF IInv, Core, NoInheritedReach, LiveEnrollments
  <2> QED BY <2>1, <2>3, <2>4
<1> QED
  BY <1>9, <1>10, <1>11, <1>12, <1>13, <1>14, <1>15, <1>16, <1>19, <1>20
  DEF IInv, Core

\* A grant is given to the holder of the name, or taken back.
LEMMA GrantStep ==
    ASSUME IInv, NEW n \in Names, Grant(n) \/ RevokeGrant(n)
    PROVE  IInv'
<1>1. /\ UNCHANGED <<ceremony, clock, consumers, held, read>>
      /\ UNCHANGED <<pend, reqs, lapsed, old, cons, enrs, toks>>
    BY DEF Grant, RevokeGrant, ceremony, clock, consumers
<1>2. since \in [Names -> 0..MaxEnrollments] /\ granted \subseteq Names
    BY DEF IInv, TypeOK
<1>3. Holder(n) \in 0..MaxEnrollments
    BY HolderIsLive, Bounds
<1>4. /\ since' \in [Names -> 0..MaxEnrollments] /\ granted' \subseteq Names
      /\ \A m \in Names :
            m # n => since'[m] = since[m] /\ (m \in granted' <=> m \in granted)
      /\ \/ n \in granted' /\ since'[n] = Holder(n)
         \/ n \notin granted' /\ since'[n] = 0
  <2>1. CASE Grant(n) BY <2>1, <1>2, <1>3 DEF Grant
  <2>2. CASE RevokeGrant(n) BY <2>2, <1>2, Bounds DEF RevokeGrant
  <2> QED BY <2>1, <2>2
<1>5. TypeOK' BY <1>1, <1>4 DEF IInv, TypeOK
<1>6. /\ IdsInOrder' /\ OneHolder' /\ Minted' /\ TokensApart'
      /\ HeldMinted' /\ HeldByApproved' /\ ApprovedPoints'
    BY <1>1 DEF IInv, Core, IdsInOrder, OneHolder, Minted, TokensApart,
                HeldMinted, HeldByApproved, ApprovedPoints
<1>7. GivenToHolder'
  <2> SUFFICES ASSUME NEW m \in Names, since'[m] # 0
               PROVE  /\ since'[m] \in EnrollmentIds /\ cons[since'[m]] # None
                      /\ ~cons[since'[m]].revoked /\ cons[since'[m]].name = m
    BY <1>1 DEF GivenToHolder
  <2>1. CASE m # n BY <2>1, <1>4 DEF IInv, Core, GivenToHolder
  <2>2. CASE m = n BY <2>2, <1>4, HolderIsLive
  <2> QED BY <2>1, <2>2
<1>8. NoInheritedReach'
  <2> SUFFICES ASSUME NEW f \in EnrollmentIds, cons[f] # None,
                      ~cons[f].revoked, cons[f].name \in granted'
               PROVE  \/ since'[cons[f].name] = f
                      \/ since'[cons[f].name] = 0 /\ cons[f].kept
    BY <1>1 DEF NoInheritedReach, LiveEnrollments
  <2>1. cons[f].name \in Names BY <1>4
  <2>2. CASE cons[f].name # n
    BY <2>1, <2>2, <1>4 DEF IInv, Core, NoInheritedReach, LiveEnrollments
  <2>3. CASE cons[f].name = n
    <3>1. since'[n] = Holder(n) BY <2>3, <1>4
    <3>2. Holder(n) # 0 BY <2>3, NoHolder
    <3>3. /\ Holder(n) \in EnrollmentIds /\ cons[Holder(n)] # None
          /\ ~cons[Holder(n)].revoked /\ cons[Holder(n)].name = n
        BY <3>2, HolderIsLive
    <3>4. Holder(n) = f BY <2>3, <3>3 DEF IInv, Core, OneHolder
    <3> QED BY <2>3, <3>1, <3>4
  <2> QED BY <2>2, <2>3
<1> QED BY <1>5, <1>6, <1>7, <1>8 DEF IInv, Core

-----------------------------------------------------------------------------
(* The theorems.                                                           *)

\* The invariant holds at the start and every step of any actor keeps it.
THEOREM Inductive == Spec => []IInv
<1>1. Init => IInv
  <2> SUFFICES ASSUME Init PROVE IInv OBVIOUS
  <2>1. NoRead \in Read BY Bounds DEF NoRead, Read
  <2>2. TypeOK BY <2>1, Bounds, ConstantsAssumption DEF Init, TypeOK
  <2>3. \A e \in EnrollmentIds : cons[e] = None BY DEF Init
  <2>4. \A q \in RequestIds : pend[q] = None BY DEF Init
  <2>5. HeldMinted BY DEF Init, HeldMinted
  <2>6. GivenToHolder BY DEF Init, GivenToHolder
  <2>7. /\ IdsInOrder /\ OneHolder /\ Minted /\ TokensApart
        /\ HeldByApproved /\ ApprovedPoints /\ NoInheritedReach
      BY <2>3, <2>4 DEF IdsInOrder, OneHolder, Minted, TokensApart,
         HeldByApproved, ApprovedPoints, NoInheritedReach, LiveEnrollments
  <2> QED BY <2>2, <2>5, <2>6, <2>7 DEF IInv, Core
<1>2. IInv /\ [Next]_vars => IInv'
  <2> SUFFICES ASSUME IInv, [Next]_vars PROVE IInv' OBVIOUS
  <2>1. CASE UNCHANGED vars
    <3>1. TypeOK' BY <2>1 DEF IInv, TypeOK, vars
    <3>2. Core' BY <2>1, SamePend DEF IInv, vars, consumers, grants
    <3> QED BY <3>1, <3>2 DEF IInv
  <2>2. ASSUME NEW c \in Consumers, NEW n \in Names, Propose(c, n) PROVE IInv'
    BY <2>2, ProposeStep
  <2>3. ASSUME NEW c \in Consumers, NEW q \in RequestIds, Poll(c, q)
        PROVE  IInv'
    BY <2>3, PollStep
  <2>4. ASSUME NEW c \in Consumers, Rotate(c) PROVE IInv'
    BY <2>4, RotateStep
  <2>5. ASSUME NEW c \in Consumers, Resolve(c) \/ Evaluate(c) \/ Return(c)
        PROVE  IInv'
    BY <2>5, ReadStep
  <2>6. ASSUME NEW c \in Consumers, Forget(c) PROVE IInv'
    BY <2>6, ForgetStep
  <2>7. ASSUME NEW q \in RequestIds, NEW n \in Names, NEW keep \in BOOLEAN,
               Approve(q, n, keep)
        PROVE  IInv'
    BY <2>7, ApproveStep
  <2>8. ASSUME NEW q \in RequestIds, Deny(q) PROVE IInv'
    BY <2>8, DenyStep
  <2>9. ASSUME NEW n \in Names, Revoke(n) PROVE IInv' BY <2>9, RevokeStep
  <2>10. ASSUME NEW n \in Names, Reissue(n) PROVE IInv' BY <2>10, ReissueStep
  <2>11. ASSUME NEW n \in Names, Grant(n) \/ RevokeGrant(n) PROVE IInv'
    BY <2>11, GrantStep
  <2>12. CASE Tick BY <2>12, TickStep
  <2>13. CASE Reopen BY <2>13, ReopenStep
  <2> QED BY <2>1, <2>2, <2>3, <2>4, <2>5, <2>6, <2>7, <2>8, <2>9, <2>10,
             <2>11, <2>12, <2>13 DEF Next
<1> QED BY <1>1, <1>2, PTL DEF Spec

\* Type correctness of the enrollment tables, the tokens and the reads.
THEOREM TypeCorrect == Spec => []TypeOK
<1>1. IInv => TypeOK BY DEF IInv
<1> QED BY <1>1, Inductive, PTL

\* No enrollment inherits the grants of an earlier holder of its name.
THEOREM ReachIsOwn == Spec => []NoInheritedReach
<1>1. IInv => NoInheritedReach BY DEF IInv, Core
<1> QED BY <1>1, Inductive, PTL

\* A token that resolves is held by the consumer the operator approved, and by
\* nobody else.
THEOREM TokensAreOwn == Spec => []TokensReachTheApproved
<1>1. IInv => TokensReachTheApproved
  <2> SUFFICES ASSUME IInv PROVE TokensReachTheApproved OBVIOUS
  <2>1. ASSUME NEW e \in LiveEnrollments
        PROVE  /\ e \in EnrollmentIds /\ cons[e] # None /\ ~cons[e].revoked
    BY DEF LiveEnrollments
  <2>2. ASSUME NEW e \in LiveEnrollments, NEW f \in LiveEnrollments, e # f
        PROVE  /\ cons[e].name # cons[f].name
               /\ cons[e].token = cons[f].token => cons[e].token = 0
    BY <2>1, <2>2 DEF IInv, Core, OneHolder, TokensApart
  <2>3. ASSUME NEW e \in LiveEnrollments, NEW c \in Consumers,
               held[c] # 0, held[c] = cons[e].token
        PROVE  c = cons[e].by
    BY <2>1, <2>3 DEF IInv, Core, HeldByApproved
  <2> QED BY <2>2, <2>3 DEF TokensReachTheApproved
<1> QED BY <1>1, Inductive, PTL

\* What a step may do to the enrollment e.
Renewed(e) ==
    /\ cons'[e].token # cons[e].token => cons'[e].gen > cons[e].gen
    /\ cons'[e].gen >= cons[e].gen
    /\ cons[e].revoked => cons'[e] = cons[e]

\* An enrollment that is not touched keeps its generation.
LEMMA SameRenewed ==
    ASSUME IInv, NEW e \in EnrollmentIds, cons[e] # None, cons'[e] = cons[e]
    PROVE  Renewed(e)
<1>1. cons[e].gen \in Nat BY ConsType DEF IInv
<1> QED BY <1>1 DEF Renewed

\* An enrollment that gets a token rises in generation.
LEMMA MintRenewed ==
    ASSUME IInv, NEW f \in EnrollmentIds, cons[f] # None, ~cons[f].revoked,
           NEW c, NEW gen \in Nat, gen > cons[f].gen, Mint(f, c, gen),
           NEW e \in EnrollmentIds, cons[e] # None
    PROVE  Renewed(e)
<1>1. CASE e # f
  <2>1. cons'[e] = cons[e] BY <1>1 DEF Mint, IInv, TypeOK
  <2> QED BY <2>1, SameRenewed
<1>2. CASE e = f
  <2> DEFINE r == [cons[f] EXCEPT !.token = toks + 1, !.gen = gen]
  <2>1. cons'[f] = r BY DEF Mint, IInv, TypeOK
  <2>2. cons[f] \in Consumer /\ cons[f].gen \in Nat BY ConsType DEF IInv
  <2>3. r.gen = gen BY <2>2 DEF Consumer
  <2> HIDE DEF r
  <2> QED BY <1>2, <2>1, <2>2, <2>3 DEF Renewed
<1> QED BY <1>1, <1>2

\* Every change of a token raises the generation of its enrollment, and a
\* revoked enrollment stays as it is, whoever polls, rotates or reissues.
THEOREM GenerationsOnlyRise == Spec => GenerationsRise
<1> DEFINE Rises == \A e \in EnrollmentIds : cons[e] # None => Renewed(e)
<1>1. IInv /\ [Next]_vars => [Rises]_vars
  <2> SUFFICES ASSUME IInv, Next PROVE Rises OBVIOUS
  <2> SUFFICES ASSUME NEW e \in EnrollmentIds, cons[e] # None PROVE Renewed(e)
    OBVIOUS
  <2>1. CASE cons' = cons BY <2>1, SameRenewed
  <2>2. ASSUME NEW c \in Consumers, NEW q \in RequestIds, Poll(c, q)
        PROVE  Renewed(e)
    <3>1. CASE UNCHANGED consumers BY <3>1, <2>1 DEF consumers
    <3>2. CASE /\ pend[q].state = "approved" /\ Deliverable(q, pend[q].enr)
               /\ Mint(pend[q].enr, c, 1)
      <4>1. pend[q].enr \in EnrollmentIds
          BY <2>2, <3>2 DEF Poll, IInv, Core, ApprovedPoints
      <4>2. /\ cons[pend[q].enr] # None /\ ~cons[pend[q].enr].revoked
            /\ 1 > cons[pend[q].enr].gen
          BY <3>2 DEF Deliverable
      <4> QED BY <4>1, <4>2, <3>2, MintRenewed
    <3> QED BY <2>2, <3>1, <3>2 DEF Poll, consumers
  <2>3. ASSUME NEW f \in EnrollmentIds, cons[f] # None, ~cons[f].revoked,
               NEW c, Mint(f, c, cons[f].gen + 1)
        PROVE  Renewed(e)
    <3>1. cons[f].gen \in Nat BY <2>3, ConsType DEF IInv
    <3>2. cons[f].gen + 1 \in Nat /\ cons[f].gen + 1 > cons[f].gen BY <3>1
    <3> QED BY <2>3, <3>2, MintRenewed
  <2>4. ASSUME NEW c \in Consumers, Rotate(c) PROVE Renewed(e)
    BY <2>4, <2>3 DEF Rotate, LiveEnrollments
  <2>5. ASSUME NEW n \in Names, Reissue(n) PROVE Renewed(e)
    BY <2>5, <2>3, HolderIsLive DEF Reissue
  <2>6. ASSUME NEW q \in RequestIds, NEW n \in Names, NEW keep \in BOOLEAN,
               Approve(q, n, keep)
        PROVE  Renewed(e)
    <3>1. CASE UNCHANGED consumers BY <3>1, <2>1 DEF consumers
    <3>2. CASE \E r : cons' = [cons EXCEPT ![enrs + 1] = r]
      <4>1. e <= enrs BY DEF IInv, Core, IdsInOrder
      <4>2. e # enrs + 1 BY <4>1, Bounds DEF IInv, TypeOK, EnrollmentIds
      <4>3. cons'[e] = cons[e] BY <3>2, <4>2 DEF IInv, TypeOK
      <4> QED BY <4>3, SameRenewed
    <3> QED BY <2>6, <3>1, <3>2 DEF Approve
  <2>7. ASSUME NEW n \in Names, Revoke(n) PROVE Renewed(e)
    <3>1. CASE e # Holder(n)
      <4>1. cons'[e] = cons[e] BY <2>7, <3>1 DEF Revoke, IInv, TypeOK
      <4> QED BY <4>1, SameRenewed
    <3>2. CASE e = Holder(n)
      <4>1. ~cons[e].revoked BY <2>7, <3>2, HolderIsLive DEF Revoke
      <4>2. cons'[e] = [cons[e] EXCEPT !.revoked = TRUE]
          BY <2>7, <3>2 DEF Revoke, IInv, TypeOK
      <4>3. cons[e] \in Consumer /\ cons[e].gen \in Nat BY ConsType DEF IInv
      <4>4. cons'[e].token = cons[e].token /\ cons'[e].gen = cons[e].gen
          BY <4>2, <4>3 DEF Consumer
      <4> QED BY <4>1, <4>3, <4>4 DEF Renewed
    <3> QED BY <3>1, <3>2
  <2>8. ASSUME NEW c \in Consumers, NEW n \in Names, Propose(c, n)
        PROVE  cons' = cons
    BY <2>8 DEF Propose, consumers
  <2>9. ASSUME NEW c \in Consumers,
               Resolve(c) \/ Evaluate(c) \/ Return(c) \/ Forget(c)
        PROVE  cons' = cons
    BY <2>9 DEF Resolve, Evaluate, Return, Forget, consumers
  <2>10. ASSUME NEW q \in RequestIds, Deny(q) PROVE cons' = cons
    BY <2>10 DEF Deny, consumers
  <2>11. ASSUME NEW n \in Names, Grant(n) \/ RevokeGrant(n) PROVE cons' = cons
    BY <2>11 DEF Grant, RevokeGrant, consumers
  <2>12. Tick \/ Reopen => cons' = cons BY DEF Tick, Reopen, consumers
  <2> QED BY <2>1, <2>2, <2>4, <2>5, <2>6, <2>7, <2>8, <2>9, <2>10, <2>11,
             <2>12 DEF Next
<1>2. [Rises]_vars <=>
         [\A e \in EnrollmentIds :
            cons[e] # None =>
               /\ cons'[e].token # cons[e].token => cons'[e].gen > cons[e].gen
               /\ cons'[e].gen >= cons[e].gen
               /\ cons[e].revoked => cons'[e] = cons[e]]_vars
    BY DEF Renewed
<1> QED BY <1>1, <1>2, Inductive, PTL DEF Spec, GenerationsRise

-----------------------------------------------------------------------------
(* The bound of the table.                                                 *)

LEMMA Smallest ==
    ASSUME NEW T \in SUBSET Nat, T # {}
    PROVE  \E m \in T : \A x \in T : m <= x
<1>1. PICK m \in T : \A x \in T : ~(<<x, m>> \in OpToRel(<, Nat))
    BY WFMin, NatLessThanWellFounded
<1>2. \A x \in T : ~(x < m) BY <1>1 DEF OpToRel
<1> QED BY <1>2

\* Of a set E, the members that have few older ones are taken; what is left is so
\* much smaller than E as n is over M, unless nothing is left.
LEMMA OldestGo ==
    ASSUME NEW E \in SUBSET Nat, IsFiniteSet(E), NEW M \in Nat, NEW n \in Nat, NEW R,
           R = E \ {q \in E : Cardinality({o \in E : o < q}) + M < n}
    PROVE  IsFiniteSet(R) /\ (R = {} \/ Cardinality(R) + n <= Cardinality(E) + M)
<1>1. R \subseteq E /\ IsFiniteSet(R) /\ Cardinality(R) \in Nat /\ Cardinality(E) \in Nat
    BY FS_Subset, FS_CardinalityType
<1>2. ASSUME R # {} PROVE Cardinality(R) + n <= Cardinality(E) + M
  <2>1. PICK m \in R : \A x \in R : m <= x BY <1>1, <1>2, Smallest
  <2> DEFINE B == {o \in E : o < m}
  <2>2. B \subseteq E /\ IsFiniteSet(B) /\ Cardinality(B) \in Nat
      BY FS_Subset, FS_CardinalityType
  <2>3. m \in E /\ ~(Cardinality(B) + M < n) OBVIOUS
  <2>4. R \cap B = {}
    <3>1. \A x \in R : x \in Nat /\ m \in Nat /\ ~(x < m) BY <1>1, <2>1
    <3> QED BY <3>1
  <2> HIDE DEF B
  <2>5. Cardinality(R \cup B) = Cardinality(R) + Cardinality(B)
    <3>1. Cardinality(R \cap B) = 0 BY <2>4, FS_EmptySet
    <3>2. Cardinality(R \cup B)
            = Cardinality(R) + Cardinality(B) - Cardinality(R \cap B)
        BY <1>1, <2>2, FS_Union
    <3> QED BY <1>1, <2>2, <3>1, <3>2
  <2>6. Cardinality(R \cup B) <= Cardinality(E) BY <1>1, <2>2, FS_Subset
  <2> QED BY <1>1, <2>2, <2>3, <2>5, <2>6
<1> QED BY <1>1, <1>2

LEMMA TablesFinite ==
    ASSUME NEW p
    PROVE  /\ IsFiniteSet(Rows(p)) /\ IsFiniteSet(Live(p))
           /\ Cardinality(Rows(p)) \in Nat /\ Cardinality(Live(p)) \in Nat
<1>1. IsFiniteSet(RequestIds) BY Bounds, FS_Interval DEF RequestIds
<1>2. Rows(p) \subseteq RequestIds /\ Live(p) \subseteq RequestIds BY DEF Rows, Live
<1> QED BY <1>1, <1>2, FS_Subset, FS_CardinalityType

\* No row appears and no row becomes live.
Lessens(p, r) == Rows(r) \subseteq Rows(p) /\ Live(r) \subseteq Live(p)

LEMMA LessBounded ==
    ASSUME RowsBounded, Lessens(pend, pend') PROVE RowsBounded'
<1>1. /\ Cardinality(Rows(pend')) <= Cardinality(Rows(pend))
      /\ Cardinality(Live(pend')) <= Cardinality(Live(pend))
    BY TablesFinite, FS_Subset DEF Lessens
<1>2. MaxRows \in Nat /\ LiveLimit \in Nat BY ConstantsAssumption
<1>3. /\ Cardinality(Rows(pend')) \in Nat /\ Cardinality(Live(pend')) \in Nat
      /\ Cardinality(Rows(pend)) \in Nat /\ Cardinality(Live(pend)) \in Nat
    BY TablesFinite
<1> QED BY <1>1, <1>2, <1>3 DEF RowsBounded, Rows, Live

\* The sweep leaves room for the rows it reserves.
LEMMA SweepBounds ==
    ASSUME NEW p \in [RequestIds -> Pending \cup {None}], NEW k \in {0, 1},
           Cardinality(Live(p)) <= LiveLimit
    PROVE  /\ Lessens(p, Swept(p, k))
           /\ Cardinality(Rows(Swept(p, k))) + k <= MaxRows
<1> DEFINE late == {q \in Live(p) : q <= lapsed}
           ended == {q \in Ended(p) \cup late : q > old}
           live == Live(p) \ late
           rows == ended \cup live
           excess == {q \in ended : Cardinality({o \in ended : o < q}) + MaxRows
                                      < Cardinality(rows) + k}
           left == ended \ excess
           row(q) == IF q \notin rows \ excess THEN None
                     ELSE IF q \in late THEN [p[q] EXCEPT !.state = "expired"]
                     ELSE p[q]
<1>1. Swept(p, k) = [q \in RequestIds |-> row(q)] BY DEF Swept
<1>2. /\ ended \subseteq RequestIds /\ live \subseteq RequestIds /\ ended \cap live = {}
      /\ \A q \in ended : q \in Live(p) => q \in late
      /\ rows \subseteq Rows(p) /\ live \subseteq Live(p)
    BY DEF Live, Ended, Rows
<1>3. IsFiniteSet(RequestIds) /\ RequestIds \subseteq Nat
    BY Bounds, FS_Interval DEF RequestIds
<1>4. /\ IsFiniteSet(ended) /\ IsFiniteSet(live) /\ ended \in SUBSET Nat
      /\ Cardinality(ended) \in Nat /\ Cardinality(live) \in Nat
    BY <1>2, <1>3, FS_Subset, FS_CardinalityType
<1>5. /\ Cardinality(rows) = Cardinality(ended) + Cardinality(live)
      /\ Cardinality(rows) + k \in Nat
  <2> HIDE DEF ended, live
  <2>1. Cardinality(ended \cap live) = 0 BY <1>2, FS_EmptySet
  <2>2. Cardinality(rows)
          = Cardinality(ended) + Cardinality(live) - Cardinality(ended \cap live)
      BY <1>4, FS_Union
  <2> QED BY <1>4, <2>1, <2>2
<1>6. Cardinality(live) <= LiveLimit
  <2>1. Cardinality(live) <= Cardinality(Live(p)) BY <1>2, TablesFinite, FS_Subset
  <2> QED BY <1>4, <2>1, TablesFinite, ConstantsAssumption
<1>7. /\ IsFiniteSet(left) /\ Cardinality(left) \in Nat
      /\ left = {} \/ Cardinality(left) + (Cardinality(rows) + k)
                        <= Cardinality(ended) + MaxRows
  <2>1. MaxRows \in Nat BY ConstantsAssumption
  <2> HIDE DEF ended, rows
  <2>2. /\ IsFiniteSet(left)
        /\ left = {} \/ Cardinality(left) + (Cardinality(rows) + k)
                          <= Cardinality(ended) + MaxRows
      BY <1>4, <1>5, <2>1, OldestGo
  <2> QED BY <2>2, FS_CardinalityType
<1>8. \A q \in RequestIds : q \in rows => p[q] # None BY <1>2 DEF Rows
<1>9. rows \ excess = left \cup live BY <1>2
<1> HIDE DEF late, ended, live, rows, excess, left
<1>10. ASSUME NEW q \in RequestIds, row(q) # None
       PROVE  /\ q \in left \cup live /\ q \in Rows(p)
              /\ row(q).state \in {"pending", "approved"} => q \in Live(p)
  <2>1. q \in rows \ excess BY <1>10
  <2>2. q \in Rows(p) /\ p[q] \in Pending BY <1>2, <1>8, <2>1
  <2>3. CASE q \in late
    <3>1. row(q) = [p[q] EXCEPT !.state = "expired"] BY <2>1, <2>3
    <3>2. [p[q] EXCEPT !.state = "expired"].state = "expired" BY <2>2, Restated
    <3> HIDE DEF row
    <3>3. row(q).state = "expired" BY <3>1, <3>2
    <3> QED BY <1>9, <2>1, <2>2, <3>3
  <2>4. CASE q \notin late
    <3>1. row(q) = p[q] BY <2>1, <2>4
    <3> QED BY <1>9, <2>1, <2>2, <3>1 DEF Live
  <2> QED BY <2>3, <2>4
<1> HIDE DEF row
<1>11. \A q \in RequestIds : Swept(p, k)[q] = row(q) BY <1>1
<1>12. Lessens(p, Swept(p, k)) BY <1>10, <1>11 DEF Lessens, Rows, Live
<1>13. Rows(Swept(p, k)) \subseteq left \cup live BY <1>10, <1>11 DEF Rows
<1>14. Cardinality(Rows(Swept(p, k))) <= Cardinality(left) + Cardinality(live)
  <2>1. IsFiniteSet(left \cup live) BY <1>4, <1>7, FS_Union
  <2>2. Cardinality(left \cup live)
          = Cardinality(left) + Cardinality(live) - Cardinality(left \cap live)
      BY <1>4, <1>7, FS_Union
  <2>3. Cardinality(left \cap live) \in Nat
      BY <1>4, <1>7, FS_Intersection, FS_CardinalityType
  <2>4. Cardinality(Rows(Swept(p, k))) <= Cardinality(left \cup live)
      BY <1>13, <2>1, FS_Subset
  <2>5. Cardinality(Rows(Swept(p, k))) \in Nat BY TablesFinite
  <2> QED BY <1>4, <1>7, <2>2, <2>3, <2>4, <2>5
<1>15. Cardinality(Rows(Swept(p, k))) + k <= MaxRows
  <2>1. /\ Cardinality(Rows(Swept(p, k))) \in Nat /\ k \in Nat /\ k <= 1
        /\ LiveLimit \in Nat /\ MaxRows \in Nat /\ LiveLimit < MaxRows
      BY TablesFinite, ConstantsAssumption
  <2>2. CASE left = {}
    <3>1. Cardinality(left) = 0 BY <2>2, FS_EmptySet
    <3> QED BY <1>4, <1>6, <1>14, <2>1, <3>1
  <2>3. CASE left # {}
    BY <1>4, <1>5, <1>7, <1>14, <2>1, <2>3
  <2> QED BY <2>2, <2>3
<1> QED BY <1>12, <1>15

\* The same for propose, which inserts one row at most.
LEMMA ProposeBounded ==
    ASSUME IInv, RowsBounded, NEW c \in Consumers, NEW n \in Names, Propose(c, n)
    PROVE  RowsBounded'
<1>1. PICK p : p = Swept(pend, 1) /\ ProposeSwept(c, n, p) BY DEF Propose
<1>2. p \in [RequestIds -> Pending \cup {None}] BY <1>1, SweepType DEF IInv, TypeOK
<1>3. Lessens(pend, p) /\ Cardinality(Rows(p)) + 1 <= MaxRows
    BY <1>1, SweepBounds DEF IInv, TypeOK, RowsBounded
<1>4. CASE \E q \in Rows(p), b \in BOOLEAN :
             pend' = [p EXCEPT ![q] = [p[q] EXCEPT !.told = p[q].told \/ b]]
  <2>1. PICK q \in Rows(p), b \in BOOLEAN :
           pend' = [p EXCEPT ![q] = [p[q] EXCEPT !.told = p[q].told \/ b]]
      BY <1>4
  <2> DEFINE r == [p[q] EXCEPT !.told = p[q].told \/ b]
  <2>2. q \in RequestIds /\ p[q] \in Pending /\ p[q] # None BY <1>2 DEF Rows
  <2>3. r.state = p[q].state
    <3>1. p[q].told \in BOOLEAN BY <2>2, Retold
    <3>2. (p[q].told \/ b) \in BOOLEAN OBVIOUS
    <3> QED BY <2>2, <3>2, Retold
  <2> HIDE DEF r
  <2>4. pend'[q] = r /\ \A o \in RequestIds : o # q => pend'[o] = p[o]
      BY <1>2, <2>1, <2>2 DEF r
  <2>5. Lessens(p, pend') BY <2>2, <2>3, <2>4 DEF Lessens, Rows, Live
  <2> QED BY <1>3, <2>5, LessBounded DEF Lessens
<1>5. CASE pend' = p BY <1>3, <1>5, LessBounded
<1>6. CASE /\ Cardinality(Live(p)) < LiveLimit
           /\ \E r : pend' = [p EXCEPT ![reqs + 1] = r]
  <2>1. /\ Rows(pend') \subseteq Rows(p) \cup {reqs + 1}
        /\ Live(pend') \subseteq Live(p) \cup {reqs + 1}
      BY <1>2, <1>6 DEF Rows, Live
  <2>2. ASSUME NEW S, NEW T, IsFiniteSet(S), T \subseteq S \cup {reqs + 1}
        PROVE  Cardinality(T) <= Cardinality(S) + 1
    <3>1. /\ Cardinality(S) \in Nat /\ IsFiniteSet(S \cup {reqs + 1})
          /\ Cardinality(S \cup {reqs + 1}) \in {Cardinality(S), Cardinality(S) + 1}
        BY <2>2, FS_AddElement, FS_CardinalityType
    <3>2. Cardinality(T) <= Cardinality(S \cup {reqs + 1}) /\ Cardinality(T) \in Nat
        BY <2>2, <3>1, FS_Subset, FS_CardinalityType
    <3> QED BY <3>1, <3>2
  <2>3. /\ Cardinality(Rows(pend')) <= Cardinality(Rows(p)) + 1
        /\ Cardinality(Live(pend')) <= Cardinality(Live(p)) + 1
      BY <2>1, <2>2, TablesFinite
  <2>4. /\ Cardinality(Rows(pend')) \in Nat /\ Cardinality(Live(pend')) \in Nat
        /\ Cardinality(Rows(p)) \in Nat /\ Cardinality(Live(p)) \in Nat
        /\ MaxRows \in Nat /\ LiveLimit \in Nat
      BY TablesFinite, ConstantsAssumption
  <2>5. Cardinality(Rows(pend')) <= MaxRows /\ Cardinality(Live(pend')) <= LiveLimit
      BY <1>3, <1>6, <2>3, <2>4
  <2> QED BY <2>5 DEF RowsBounded, Rows, Live
<1> QED
  <2>1. Arrives \subseteq BOOLEAN BY DEF Arrives
  <2> QED BY <1>1, <1>4, <1>5, <1>6, <2>1 DEF ProposeSwept

\* A request is marked or approved: no row and no live row more.
LEMMA MarkLessens ==
    ASSUME IInv, NEW q \in RequestIds, pend[q] # None, NEW r \in Pending,
           pend' = [pend EXCEPT ![q] = r], r.state = "approved" => q \in Live(pend),
           r.state # "pending"
    PROVE  Lessens(pend, pend')
<1>1. pend'[q] = r /\ \A o \in RequestIds : o # q => pend'[o] = pend[o]
    BY DEF IInv, TypeOK
<1> QED BY <1>1 DEF Lessens, Rows, Live

LEMMA EndLessens ==
    ASSUME IInv, NEW q \in RequestIds, pend[q] # None,
           NEW s \in {"denied", "consumed", "expired"}, pend' = Marked(pend, q, s)
    PROVE  Lessens(pend, pend')
<1>1. pend[q] \in Pending BY PendType DEF IInv, TypeOK
<1> DEFINE r == [pend[q] EXCEPT !.state = s]
<1>2. r \in Pending /\ r.state = s BY <1>1 DEF Pending
<1>3. pend' = [pend EXCEPT ![q] = r] BY DEF Marked
<1> HIDE DEF r
<1> QED BY <1>2, <1>3, MarkLessens

LEMMA ApproveLessens ==
    ASSUME IInv, NEW q \in RequestIds, NEW n \in Names, NEW keep \in BOOLEAN,
           Approve(q, n, keep)
    PROVE  Lessens(pend, pend')
<1>1. pend[q] # None /\ pend[q].state = "pending" /\ q \in Live(pend)
    BY DEF Approve, Live, Rows
<1>2. CASE pend' = Marked(pend, q, "expired") BY <1>1, <1>2, EndLessens
<1> DEFINE r == [pend[q] EXCEPT !.state = "approved", !.final = n, !.enr = enrs + 1]
<1>3. CASE enrs < MaxEnrollments /\ pend' = [pend EXCEPT ![q] = r]
  <2>1. pend[q] \in Pending BY <1>1, PendType DEF IInv, TypeOK
  <2>2. enrs + 1 \in 0..MaxEnrollments BY <1>3, Bounds DEF IInv, TypeOK
  <2>3. r \in Pending /\ r.state = "approved" BY <2>1, <2>2 DEF Pending
  <2> HIDE DEF r
  <2> QED BY <1>1, <1>3, <2>3, MarkLessens
<1> QED BY <1>2, <1>3 DEF Approve

LEMMA ForgetLessens ==
    ASSUME IInv, NEW c \in Consumers, Forget(c)
    PROVE  Lessens(pend, pend')
<1>1. ASSUME NEW q \in RequestIds, pend'[q] # None
      PROVE  pend[q] # None /\ pend'[q].state = pend[q].state
  <2>1. CASE q \in Rows(pend) /\ pend[q].by = c
    <3>1. pend[q] \in Pending /\ pend[q] # None
        BY <2>1, PendType DEF Rows, IInv, TypeOK
    <3>2. pend'[q] = [pend[q] EXCEPT !.told = FALSE] BY <2>1 DEF Forget
    <3> QED BY <3>1, <3>2, Retold
  <2>2. CASE ~(q \in Rows(pend) /\ pend[q].by = c)
    BY <1>1, <2>2 DEF Forget
  <2> QED BY <2>1, <2>2
<1> QED BY <1>1 DEF Lessens, Rows, Live

\* The table of requests never has more than ENROLLMENT_TERMINAL_MAX_ROWS rows,
\* nor more than ENROLLMENT_LIVE_LIMIT live ones, whatever is proposed, denied,
\* left to lapse or swept, at any limits (propose_enrollment and its sweep).
THEOREM TableIsBounded == Spec => []RowsBounded
<1>1. Init => RowsBounded
  <2> SUFFICES ASSUME Init PROVE RowsBounded OBVIOUS
  <2>1. Rows(pend) = {} /\ Live(pend) = {} BY DEF Init, Rows, Live
  <2> QED BY <2>1, FS_EmptySet, ConstantsAssumption DEF RowsBounded
<1>2. IInv /\ RowsBounded /\ [Next]_vars => RowsBounded'
  <2> SUFFICES ASSUME IInv, RowsBounded, [Next]_vars PROVE RowsBounded' OBVIOUS
  <2>1. CASE pend' = pend BY <2>1, LessBounded DEF Lessens
  <2>2. ASSUME NEW c \in Consumers, NEW n \in Names, Propose(c, n) PROVE RowsBounded'
    BY <2>2, ProposeBounded
  <2>3. ASSUME NEW c \in Consumers, NEW q \in RequestIds, Poll(c, q)
        PROVE  RowsBounded'
    BY <2>3, EndLessens, LessBounded DEF Poll
  <2>4. ASSUME NEW c \in Consumers, Forget(c) PROVE RowsBounded'
    BY <2>4, ForgetLessens, LessBounded
  <2>5. ASSUME NEW q \in RequestIds, NEW n \in Names, NEW keep \in BOOLEAN,
               Approve(q, n, keep)
        PROVE  RowsBounded'
    BY <2>5, ApproveLessens, LessBounded
  <2>6. ASSUME NEW q \in RequestIds, Deny(q) PROVE RowsBounded'
    BY <2>6, EndLessens, LessBounded DEF Deny
  <2>7. CASE Reopen
    <3>1. Lessens(pend, pend')
        BY <2>7, SweepBounds DEF Reopen, IInv, TypeOK, RowsBounded
    <3> QED BY <3>1, LessBounded
  <2>8. ASSUME NEW c \in Consumers, Rotate(c) \/ Resolve(c) \/ Evaluate(c) \/ Return(c)
        PROVE  pend' = pend
    BY <2>8 DEF Rotate, Resolve, Evaluate, Return, ceremony
  <2>9. ASSUME NEW n \in Names, Revoke(n) \/ Reissue(n) \/ Grant(n) \/ RevokeGrant(n)
        PROVE  pend' = pend
    BY <2>9 DEF Revoke, Reissue, Grant, RevokeGrant, ceremony
  <2>10. Tick \/ UNCHANGED vars => pend' = pend BY DEF Tick, vars, ceremony
  <2> QED BY <2>1, <2>2, <2>3, <2>4, <2>5, <2>6, <2>7, <2>8, <2>9, <2>10 DEF Next
<1> QED BY <1>1, <1>2, Inductive, PTL DEF Spec
=============================================================================
