------------------------------ MODULE AdminAuth ------------------------------
(***************************************************************************)
(* How an admin operation is authorized on the wire: route binds and the   *)
(* principal the daemon stamped on them, single-use challenge nonces of    *)
(* which a bind holds at most one and all binds together at most           *)
(* MAX_OUTSTANDING_NONCES, and the claim of a nonce by a request whose tag *)
(* covers it (credentials-module/src/admin_surface.rs, main.rs and         *)
(* credentials-core/src/admin_auth.rs).                                    *)
(*                                                                         *)
(* The frame loop checks a frame against the channel's epoch, captures the *)
(* caller and spawns the request: any number of binds, route goodbyes and  *)
(* other requests may come before it runs.  Every access to the bind table *)
(* is one critical section, so one step.  Tags cannot be forged: a tag is  *)
(* a pair (nonce, body) that the holder of the master key signed, and it   *)
(* may be sent any number of times on any channel.                         *)
(***************************************************************************)
EXTENDS Integers, FiniteSets

CONSTANTS
    Channels,       \* route channels
    Requests,       \* admin requests, each accepted at most once
    Bodies,         \* operation bodies
    None,           \* no bind
    MaxOutstanding, \* MAX_OUTSTANDING_NONCES
    MaxEpoch, MaxNonce   \* bounds of the binds of a channel and of the nonces

ASSUME ConstantsAssumption ==
    /\ IsFiniteSet(Channels)
    /\ MaxOutstanding \in Nat \ {0} /\ MaxEpoch \in Nat /\ MaxNonce \in Nat

VARIABLES
    bind,          \* binds: the state of each bound channel
    epoch,         \* the epoch of each channel's last bind
    outstanding,   \* outstanding_nonces
    minted,        \* nonces generated so far
    signed,        \* tags the master key's holder produced
    req,           \* requests, with the caller captured when accepted
    issued         \* history: the bind each nonce was issued to

vars == <<bind, epoch, outstanding, minted, signed, req, issued>>

Nonces == 1..MaxNonce
\* A bind's principal matters only as Direct or not; nonce 0 is none; `old` says
\* that NONCE_TTL has passed since the nonce was issued.
BindState == [epoch : 1..MaxEpoch, direct : BOOLEAN, nonce : 0..MaxNonce,
              old : BOOLEAN]
Tags == Nonces \X Bodies
\* pc "claimed": the nonce is taken and the operation dispatched.
Request == [pc : {"new", "accepted", "answered", "full", "claimed", "refused"},
            kind : {"challenge", "execute"}, ch : Channels \cup {None},
            epoch : 0..MaxEpoch, direct : BOOLEAN,
            tag : Tags \cup {None}, body : Bodies \cup {None}]

ASSUME NoneAssumption ==
    None \notin Channels \cup Bodies \cup Tags \cup BindState

Init ==
    /\ bind = [ch \in Channels |-> None] /\ epoch = [ch \in Channels |-> 0]
    /\ outstanding = 0 /\ minted = 0 /\ signed = {}
    /\ req = [r \in Requests |-> [pc |-> "new", kind |-> "challenge",
                                  ch |-> None, epoch |-> 0, direct |-> FALSE,
                                  tag |-> None, body |-> None]]
    /\ issued = [n \in Nonces |-> <<None, 0>>]

-----------------------------------------------------------------------------
Holding(b) == {ch \in Channels : b[ch] # None /\ b[ch].nonce # 0}
Expired(b) == {ch \in Holding(b) : b[ch].old}
WithNonce(b, n) == [b EXCEPT !.nonce = n, !.old = FALSE]

-----------------------------------------------------------------------------
(* The frame loop.                                                         *)

\* Mutant: the counter keeps the replaced bind's nonce.
BindLeaking(ch, direct) ==
    /\ epoch[ch] < MaxEpoch /\ epoch' = [epoch EXCEPT ![ch] = @ + 1]
    /\ bind' = [bind EXCEPT ![ch] = [epoch |-> epoch[ch] + 1, nonce |-> 0,
                                     direct |-> direct, old |-> FALSE]]
    /\ UNCHANGED <<outstanding, minted, signed, req, issued>>
\* Mutant: the nonce outlives the bind it was issued to.
BindKeepingNonce(ch, direct) ==
    /\ epoch[ch] < MaxEpoch /\ epoch' = [epoch EXCEPT ![ch] = @ + 1]
    /\ bind' = [bind EXCEPT ![ch] =
                  [epoch |-> epoch[ch] + 1, direct |-> direct, old |-> FALSE,
                   nonce |-> IF @ = None THEN 0 ELSE @.nonce]]
    /\ UNCHANGED <<outstanding, minted, signed, req, issued>>

\* RouteBind: record_bind_at replaces the channel's state and its nonce.
Bind(ch, direct) ==
    /\ epoch[ch] < MaxEpoch /\ epoch' = [epoch EXCEPT ![ch] = @ + 1]
    /\ bind' = [bind EXCEPT ![ch] = [epoch |-> epoch[ch] + 1, nonce |-> 0,
                                     direct |-> direct, old |-> FALSE]]
    /\ outstanding' = outstanding - (IF ch \in Holding(bind) THEN 1 ELSE 0)
    /\ UNCHANGED <<minted, signed, req, issued>>

\* A route Goodbye: drop_bind.
DropBind(ch) ==
    /\ bind[ch] # None
    /\ bind' = [bind EXCEPT ![ch] = None]
    /\ outstanding' = outstanding - (IF ch \in Holding(bind) THEN 1 ELSE 0)
    /\ UNCHANGED <<epoch, minted, signed, req, issued>>

\* A request frame of the current epoch: route_caller is captured and the
\* request is spawned.  A tag is one that was signed, or anything else (None).
Accept(r, ch, kind, tag, body) ==
    /\ req[r].pc = "new" /\ bind[ch] # None
    /\ tag \in signed \cup {None}
    /\ req' = [req EXCEPT ![r] =
                 [pc |-> "accepted", kind |-> kind, ch |-> ch,
                  epoch |-> bind[ch].epoch, direct |-> bind[ch].direct,
                  tag |-> tag, body |-> body]]
    /\ UNCHANGED <<bind, epoch, outstanding, minted, signed, issued>>

-----------------------------------------------------------------------------
(* The requests.                                                           *)

Answer(r, pc) == req' = [req EXCEPT ![r] = [req[r] EXCEPT !.pc = pc]]

\* The captured principal is direct, and the channel still has the bind the
\* request was accepted under.
SameDirectBind(r, b) ==
    /\ req[r].direct /\ b[req[r].ch] # None
    /\ b[req[r].ch].epoch = req[r].epoch /\ b[req[r].ch].direct

\* Mutant: expired challenges of other binds keep their slots.
ChallengeUnswept(r) ==
    LET ch == req[r].ch
        room == ch \in Holding(bind) \/ outstanding < MaxOutstanding
    IN  /\ req[r].pc = "accepted" /\ req[r].kind = "challenge"
        /\ SameDirectBind(r, bind)
        /\ \/ /\ room /\ minted < MaxNonce /\ minted' = minted + 1
              /\ bind' = [bind EXCEPT ![ch] = WithNonce(bind[ch], minted + 1)]
              /\ outstanding' =
                    outstanding + (IF ch \in Holding(bind) THEN 0 ELSE 1)
              /\ issued' = [issued EXCEPT ![minted + 1] = <<ch, req[r].epoch>>]
              /\ Answer(r, "answered")
           \/ /\ ~room /\ Answer(r, "full")
              /\ UNCHANGED <<bind, outstanding, minted, issued>>
        /\ UNCHANGED <<epoch, signed>>

\* challenge_as, behind gate 1: expired challenges of all binds are dropped
\* first; then the bind is checked, a slot is reserved unless the bind has a
\* nonce to replace, and the nonce is issued.
Challenge(r) ==
    LET ch == req[r].ch
        swept == [c \in Channels |->
                    IF c \in Expired(bind) THEN WithNonce(bind[c], 0)
                    ELSE bind[c]]
        left == outstanding - Cardinality(Expired(bind))
        room == ch \in Holding(swept) \/ left < MaxOutstanding
    IN  /\ req[r].pc = "accepted" /\ req[r].kind = "challenge" /\ req[r].direct
        /\ \/ /\ SameDirectBind(r, swept) /\ room
              /\ minted < MaxNonce /\ minted' = minted + 1
              /\ bind' = [swept EXCEPT ![ch] = WithNonce(swept[ch], minted + 1)]
              /\ outstanding' = left + (IF ch \in Holding(swept) THEN 0 ELSE 1)
              /\ issued' = [issued EXCEPT ![minted + 1] = <<ch, req[r].epoch>>]
              /\ Answer(r, "answered")
           \/ /\ SameDirectBind(r, swept) => ~room
              /\ bind' = swept /\ outstanding' = left
              /\ Answer(r, IF SameDirectBind(r, swept) THEN "full"
                           ELSE "refused")
              /\ UNCHANGED <<minted, issued>>
        /\ UNCHANGED <<epoch, signed>>

\* Gate 1: the captured principal is not direct.
NotDirect(r) ==
    /\ req[r].pc = "accepted" /\ ~req[r].direct
    /\ Answer(r, "refused")
    /\ UNCHANGED <<bind, epoch, outstanding, minted, signed, issued>>

\* The tag is over the bind's nonce and the exact body.
Verified(r) ==
    req[r].tag # None /\ req[r].tag = <<bind[req[r].ch].nonce, req[r].body>>

\* Mutant: the nonce is not taken.
ExecuteUnclaimed(r) ==
    LET ch == req[r].ch
    IN  /\ req[r].pc = "accepted" /\ req[r].kind = "execute" /\ req[r].direct
        /\ SameDirectBind(r, bind) /\ ch \in Holding(bind) \ Expired(bind)
        /\ Verified(r) /\ Answer(r, "claimed")
        /\ UNCHANGED <<bind, epoch, outstanding, minted, signed, issued>>

\* execute_as, behind gate 1: bind, nonce, expiry and tag are checked in this
\* order under one lock, and the nonce is taken only when all of them pass.  A
\* tag that is none or a body that is too long is refused before the lock.
Execute(r) ==
    LET ch == req[r].ch
        holds == SameDirectBind(r, bind) /\ ch \in Holding(bind)
        dropped == [bind EXCEPT ![ch] = WithNonce(bind[ch], 0)]
    IN  /\ req[r].pc = "accepted" /\ req[r].kind = "execute" /\ req[r].direct
        /\ \/ /\ holds /\ ch \notin Expired(bind) /\ Verified(r)
              /\ bind' = dropped /\ outstanding' = outstanding - 1
              /\ Answer(r, "claimed")
           \/ /\ holds /\ ch \in Expired(bind)
              /\ bind' = dropped /\ outstanding' = outstanding - 1
              /\ Answer(r, "refused")
           \/ /\ \/ req[r].tag = None
                 \/ ~ (holds /\ (ch \in Expired(bind) \/ Verified(r)))
              /\ Answer(r, "refused") /\ UNCHANGED <<bind, outstanding>>
        /\ UNCHANGED <<epoch, minted, signed, issued>>

-----------------------------------------------------------------------------
(* The operator and the clock.                                             *)

\* The holder of the master key signs an operation for a nonce it was sent.
Sign(n, body) ==
    /\ n <= minted /\ signed' = signed \cup {<<n, body>>}
    /\ UNCHANGED <<bind, epoch, outstanding, minted, req, issued>>

\* NONCE_TTL passes.
Expire(ch) ==
    /\ ch \in Holding(bind) \ Expired(bind)
    /\ bind' = [bind EXCEPT ![ch] = [bind[ch] EXCEPT !.old = TRUE]]
    /\ UNCHANGED <<epoch, outstanding, minted, signed, req, issued>>

Next ==
    \/ \E ch \in Channels :
          DropBind(ch) \/ Expire(ch) \/ \E direct \in BOOLEAN : Bind(ch, direct)
    \/ \E r \in Requests :
          \/ \E ch \in Channels : Accept(r, ch, "challenge", None, None)
          \/ \E ch \in Channels, tag \in signed \cup {None}, body \in Bodies :
                Accept(r, ch, "execute", tag, body)
          \/ Challenge(r) \/ NotDirect(r) \/ Execute(r)
    \/ \E n \in Nonces, body \in Bodies : Sign(n, body)

Spec == Init /\ [][Next]_vars

-----------------------------------------------------------------------------
(* Properties.                                                             *)

\* Every variable has the type of what it models.
TypeOK ==
    /\ bind \in [Channels -> BindState \cup {None}]
    /\ epoch \in [Channels -> 0..MaxEpoch]
    /\ outstanding \in Nat /\ minted \in 0..MaxNonce
    /\ signed \subseteq Tags /\ req \in [Requests -> Request]
    /\ issued \in [Nonces -> (Channels \cup {None}) \X (0..MaxEpoch)]

\* The global counter is the number of challenges outstanding, through binds,
\* goodbyes, expiry, re-issue and claims; so it never passes the cap and never
\* wraps below zero (admin_surface.rs:222, 336, 374).
CountsNonces ==
    outstanding = Cardinality(Holding(bind)) /\ outstanding <= MaxOutstanding

\* A nonce authorizes at most one operation, however often and wherever its tag
\* is sent (admin_surface.rs:438: "exactly one claims the nonce").
OncePerNonce ==
    \A r, s \in Requests :
       /\ req[r].pc = "claimed" /\ req[s].pc = "claimed"
       /\ req[r].tag[1] = req[s].tag[1]
       => r = s

\* An operation that is applied was signed as it is, for a nonce that was issued
\* to the very bind its request was accepted under, and that bind is direct: a
\* request overtaken by a rebind lends nothing to the new bind and borrows
\* nothing from it (admin_surface.rs:78).
ClaimedOnItsBind ==
    \A r \in Requests :
       req[r].pc = "claimed" =>
          /\ req[r].tag \in signed /\ req[r].tag[2] = req[r].body
          /\ issued[req[r].tag[1]] = <<req[r].ch, req[r].epoch>>
          /\ req[r].direct

\* A challenge that has not expired ends only with its bind, by a new challenge
\* on its own bind or by its claim: neither a flood of challenges on other binds
\* nor a wrong tag takes it away (admin_surface.rs:50, 457).
ChallengesStay ==
    [][\A ch \in Holding(bind) \ Expired(bind) :
          \/ bind'[ch] # None /\ bind'[ch].nonce = bind[ch].nonce
          \/ bind'[ch] = None \/ bind'[ch].epoch # bind[ch].epoch
          \/ \E r \in Requests :
                /\ req[r].pc = "accepted" /\ req'[r].pc \in {"answered", "claimed"}
                /\ req[r].ch = ch /\ req[r].epoch = bind[ch].epoch]_vars

\* A challenge is refused for want of room only when the cap is taken up by
\* challenges that have not expired: quiet peers do not hold slots for ever
\* (admin_surface.rs:374).
FullIsFull ==
    [][\A r \in Requests :
          req[r].pc # "full" /\ req'[r].pc = "full" =>
             Cardinality(Holding(bind) \ Expired(bind)) >= MaxOutstanding]_vars
=============================================================================
