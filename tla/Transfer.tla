------------------------------ MODULE Transfer ------------------------------
(***************************************************************************)
(* Sealed transfers of a static credential from one vault to another       *)
(* (credentials-module/src/federation/transfer.rs and the transfer tables  *)
(* of credentials-core/src/store_federation.rs).                           *)
(*                                                                         *)
(* A send looks the receiver's key up, seals the record once and commits   *)
(* the outgoing row before anything is delivered; a delivery is one remote *)
(* call that may be lost on the way out or back, time out at the sender    *)
(* while the receiver goes on, or be repeated by `--resume`.  The receiver *)
(* admits it in steps separated by lookups at callosum (external), queues  *)
(* it, and an operator accepts or rejects it.  A store transaction is one  *)
(* step; a call that awaits is cut there.  A refusal that writes nothing   *)
(* is an answer of the call, or a stuttering step of an operator's.        *)
(*                                                                         *)
(* What only others decide is chosen where it is read: the payload of the  *)
(* sender's record, the record the receiver has under that id, which rows  *)
(* are past their retention (`old`), and the key callosum announces for a  *)
(* vault, which may be one the vault has replaced since.                   *)
(***************************************************************************)
EXTENDS Integers, FiniteSets

CONSTANTS
    Calls,       \* deliveries in progress
    Accepts,     \* accept commands in progress
    None,
    Cap,         \* TRANSFER_PENDING_PER_SENDER_CAP
    MaxId,       \* bound: transfers
    MaxKeys      \* bound: keys made at the two vaults together; the last stays good

Ids == 1..MaxId
Gens == 1..(MaxKeys - 1)
Sender == "sender"
Receiver == "receiver"
Vaults == {Sender, Receiver}

ASSUME ConstantsAssumption ==
    /\ Cap \in Nat \ {0}
    /\ MaxId \in Nat /\ MaxKeys \in Nat \ {0, 1}

VARIABLES
    key,        \* each vault's transfer key: its generation, and whether Active
    lastId,     \* transfer ids minted
    sealed,     \* the envelope of each id
    out,        \* outgoing_transfers
    calls,      \* deliveries
    inc,        \* pending_transfers of the receiver
    accepting,  \* accepts between their lookup and their end
    written,    \* history: how often a transfer wrote the record
    replaced    \* history: the receiver's key made by its last `init --replace`

recvVars == <<inc, accepting, written, replaced>>
sendVars == <<lastId, sealed, out>>
vars == <<key, sendVars, calls, recvVars>>

Envelope == [from : Gens, to : Gens]
Decided == {"accepted", "rejected", "expired"}
Incoming == {"pending"} \cup Decided
\* An accept: the sender's key its lookup found, and from the opening on the own
\* key it read for it.
AcceptPlan == [at : {"prepared", "opened", "refused"}, t : Ids, from : Gens \cup {0},
               own : Gens \cup {0}]
Call == [at : {"idle", "sent", "looked", "opened", "answered"},
         t : 0..MaxId, seen : Gens \cup {0}, waits : BOOLEAN, keep : BOOLEAN]
ASSUME NoneAssumption ==
    None \notin {"abandoned"} \cup Incoming \cup Envelope \cup AcceptPlan
Idle == [at |-> "idle", t |-> 0, seen |-> 0, waits |-> FALSE, keep |-> FALSE]

TypeOK ==
    /\ key \in [Vaults -> [gen : Gens, active : BOOLEAN]]
    /\ lastId \in 0..MaxId
    /\ sealed \in [Ids -> Envelope \cup {None}]
    /\ out \in [Ids -> {None, "pending", "abandoned"}]
    /\ calls \in [Calls -> Call]
    /\ inc \in [Ids -> Incoming \cup {None}]
    /\ accepting \in [Accepts -> AcceptPlan \cup {None}]
    /\ written \in [Ids -> Nat]
    /\ replaced \in Gens

Init ==
    /\ key = [v \in Vaults |-> [gen |-> 1, active |-> TRUE]]
    /\ lastId = 0
    /\ sealed = [t \in Ids |-> None]
    /\ out = [t \in Ids |-> None]
    /\ calls = [c \in Calls |-> Idle]
    /\ inc = [t \in Ids |-> None]
    /\ accepting = [a \in Accepts |-> None]
    /\ written = [t \in Ids |-> 0]
    /\ replaced = 1

-----------------------------------------------------------------------------
(* The sender.                                                             *)

\* expire_outgoing_transfers: an abandoned row expires like a pending one.
SweptOut(old) == [t \in Ids |-> IF t \in old THEN None ELSE out[t]]
Usable(v) == key[v].active  \* own_key
\* External: callosum learns a vault's public half some time after it is made.
Announced(v) == 1..key[v].gen

\* send_prepare and expire: the sweep commits even when the rest is refused.
Expire(old) ==
    /\ out' = SweptOut(old)
    /\ UNCHANGED <<key, calls, recvVars, lastId, sealed>>

\* send_prepare, send_commit and the start of send_deliver: the row that commits
\* under a fresh id was sealed to the key looked up before, with an own key read
\* before it, which may have been replaced since; only then is it sent.
Send(c, from, to) ==
    /\ calls[c] = Idle /\ lastId < MaxId
    /\ LET t == lastId + 1 IN
       /\ lastId' = t
       /\ sealed' = [sealed EXCEPT ![t] = [from |-> from, to |-> to]]
       /\ out' = [out EXCEPT ![t] = "pending"]
       /\ calls' = [calls EXCEPT ![c] =
                [@ EXCEPT !.at = "sent", !.t = t, !.waits = TRUE]]
    /\ UNCHANGED <<key, recvVars>>

\* send --resume: the stored bytes again, never an abandoned row.
Resume(c, t) ==
    /\ calls[c] = Idle
    /\ out[t] = "pending"
    /\ calls' = [calls EXCEPT ![c] =
            [@ EXCEPT !.at = "sent", !.t = t, !.waits = TRUE]]
    /\ UNCHANGED <<key, recvVars, sendVars>>

\* DeliveryReply::keeps_row.
KeepsRow(reply) ==
    reply \notin Decided \cup
        {"seal_invalid", "conflict", "too_large", "body_invalid", "setup_invalid",
         "not_found"}

\* deliver_row once an answer is there (a delete that fails is ignored), or once
\* the budget has run out.
Settle(c) ==
    /\ calls[c].at = "answered" /\ calls[c].waits
    /\ out' \in {out} \cup
        (IF calls[c].keep THEN {} ELSE {[out EXCEPT ![calls[c].t] = None]})
    /\ calls' = [calls EXCEPT ![c] = Idle]
    /\ UNCHANGED <<key, recvVars, lastId, sealed>>
GiveUp(c) ==
    /\ calls[c].at \notin {"idle", "answered"} /\ calls[c].waits
    /\ calls' = [calls EXCEPT ![c].waits = FALSE]
    /\ UNCHANGED <<key, sendVars, recvVars>>

-----------------------------------------------------------------------------
(* The receiver: deliver_inner.                                            *)

\* Mutant: an expired row is deleted, and with it the memory of its bytes.
SweptInDeleting(old) ==
    [t \in Ids |-> IF inc[t] = "pending" /\ t \in old THEN None ELSE inc[t]]
\* expire_incoming_transfers.
SweptIn(old) == [t \in Ids |-> IF inc[t] = "pending" /\ t \in old
                               THEN "expired" ELSE inc[t]]
Pending(rows) == {t \in Ids : rows[t] = "pending"}
Full(rows) == Cardinality(Pending(rows)) >= Cap

\* The sender reads of an answer only whether it keeps the row; an answer nobody
\* waits for is gone.
Answered(c, reply) ==
    IF calls[c].waits
    THEN [calls EXCEPT ![c] = [@ EXCEPT !.at = "answered", !.seen = 0,
                                        !.keep = KeepsRow(reply)]]
    ELSE [calls EXCEPT ![c] = Idle]
Onward(c, at, seen) ==
    [calls EXCEPT ![c] = [@ EXCEPT !.at = at, !.seen = seen]]

\* Step 2 and the parameters, the lookup of the current pairing and the grant made under it
\* (RemoteRead models them): refused, or the call or the lookup fails; callosum
\* may also refuse the sender's call for good before it gets there.  A body over
\* the cap is refused here too, though the code looks for its bytes first: a body
\* that large was never queued.
NotAdmitted(c) ==
    /\ calls[c].at = "sent"
    /\ calls' \in {Answered(c, "unreachable"), Answered(c, "unavailable"),
                   Answered(c, "setup_invalid"), Answered(c, "not_found"),
                   Answered(c, "too_large")}
    /\ UNCHANGED <<key, sendVars, recvVars>>

\* Admitted: dedup on the bytes before anything else, then the queue and this vault's own
\* key (read here, used after the next lookup).
Look(c, old) ==
    /\ calls[c].at = "sent"
    /\ inc' = SweptIn(old)
    /\ LET t == calls[c].t IN
       calls' = IF inc'[t] # None THEN Answered(c, inc'[t])
                ELSE IF Full(inc') THEN Answered(c, "queue_full")
                ELSE IF ~Usable(Receiver) THEN Answered(c, "setup_incomplete")
                ELSE Onward(c, "looked", key[Receiver].gen)
    /\ UNCHANGED <<key, sendVars, accepting, written, replaced>>

\* open_transfer: the envelope opens with the receiver's key `own` and the
\* sender's announced key `peer`.
Opens(t, own, peer) == sealed[t].to = own /\ sealed[t].from = peer

\* Step 6: the sender's announced key, the seal, then a row that appeared meanwhile,
\* then validate_body over what was sealed.
OpenEnvelope(c) ==
    /\ calls[c].at = "looked"
    /\ LET t == calls[c].t IN
       \/ calls' \in {Answered(c, "unavailable"), Answered(c, "setup_incomplete")}
       \/ \E peer \in Announced(Sender), valid \in BOOLEAN : calls' =
            IF ~Opens(t, calls[c].seen, peer) THEN Answered(c, "seal_invalid")
            ELSE IF inc[t] = "pending" THEN Answered(c, "pending")
            ELSE IF inc[t] # None THEN Answered(c, "conflict")
            ELSE IF ~valid THEN Answered(c, "body_invalid")
            ELSE Onward(c, "opened", 0)
    /\ UNCHANGED <<key, sendVars, recvVars>>

\* Mutant: the count taken before the lookup is trusted.
InsertUncounted(c) ==
    /\ calls[c].at = "opened"
    /\ inc' = IF inc[calls[c].t] # None THEN inc
              ELSE [inc EXCEPT ![calls[c].t] = "pending"]
    /\ calls' = Answered(c, inc'[calls[c].t])
    /\ UNCHANGED <<key, sendVars, accepting, written, replaced>>
\* insert_incoming_transfer: one transaction that looks at everything again.
Insert(c) ==
    /\ calls[c].at = "opened"
    /\ LET t == calls[c].t IN
       IF inc[t] # None THEN calls' = Answered(c, inc[t]) /\ UNCHANGED inc
       ELSE IF Full(inc)
            THEN calls' = Answered(c, "queue_full") /\ UNCHANGED inc
       ELSE /\ inc' = [inc EXCEPT ![t] = "pending"]
            /\ calls' = Answered(c, "pending")
    /\ UNCHANGED <<key, sendVars, accepting, written, replaced>>

\* Any step's transaction may fail; the answer is transient.
StoreFails(c) ==
    /\ calls[c].at \in {"sent", "looked", "opened"}
    /\ calls' = Answered(c, "store_error")
    /\ UNCHANGED <<key, sendVars, recvVars>>

-----------------------------------------------------------------------------
(* The receiving operator.                                                 *)

\* accept_prepare.  A decided row, a missing key or a failed lookup ends it there;
\* the sweep has committed.
AcceptPrepare(a, t, peer) ==
    /\ accepting[a] = None
    /\ inc[t] = "pending" /\ Usable(Receiver)
    /\ accepting' = [accepting EXCEPT ![a] =
            [at |-> "prepared", t |-> t, from |-> peer, own |-> 0]]
    /\ UNCHANGED <<key, sendVars, calls, inc, written, replaced>>

\* Mutant: the envelope was opened when it was queued, and is trusted.
AcceptUnopened(a) ==
    /\ accepting[a] # None /\ accepting[a].at = "prepared" /\ Usable(Receiver)
    /\ accepting' = [accepting EXCEPT ![a].at = "opened", ![a].own = key[Receiver].gen]
    /\ UNCHANGED <<key, sendVars, calls, inc, written, replaced>>
\* accept_commit up to its transaction: read the own key and open again with it.
\* The lock held is the accepted credential's, not the key's.  The body was
\* validated before the row was queued.
AcceptOpen(a) ==
    /\ accepting[a] # None /\ accepting[a].at = "prepared" /\ Usable(Receiver)
    /\ LET plan == accepting[a]
           own == key[Receiver].gen IN
       accepting' = [accepting EXCEPT ![a] =
            [at |-> IF Opens(plan.t, own, plan.from) THEN "opened" ELSE "refused",
             t |-> plan.t, from |-> 0, own |-> own]]
    /\ UNCHANGED <<key, sendVars, calls, inc, written, replaced>>

\* reject_incoming_transfer_audited, for what did not open.
AcceptReject(a) ==
    /\ accepting[a] # None /\ accepting[a].at = "refused"
    /\ accepting' = [accepting EXCEPT ![a] = None]
    /\ LET t == accepting[a].t IN
       inc' = IF inc[t] = "pending" THEN [inc EXCEPT ![t] = "rejected"] ELSE inc
    /\ UNCHANGED <<key, sendVars, calls, written, replaced>>

MayWrite(existing, replace) ==
    existing = "none" \/ (replace /\ existing = "static")
\* accept_incoming_transfer_audited: looks at the row again and at the record it
\* finds, and at no key.
AcceptCommit(a, existing, replace) ==
    /\ accepting[a] # None /\ accepting[a].at = "opened"
    /\ accepting' = [accepting EXCEPT ![a] = None]
    /\ LET t == accepting[a].t IN
       IF inc[t] = "pending" /\ MayWrite(existing, replace)
       THEN /\ inc' = [inc EXCEPT ![t] = "accepted"]
            /\ written' = [written EXCEPT ![t] = @ + 1]
       ELSE UNCHANGED <<inc, written>>
    /\ UNCHANGED <<key, sendVars, calls, replaced>>

\* The lock is not had in time, the key is missing or a transaction fails.
AcceptFails(a) ==
    /\ accepting[a] # None
    /\ accepting' = [accepting EXCEPT ![a] = None]
    /\ UNCHANGED <<key, sendVars, calls, inc, written, replaced>>

\* reject: no sweep first.
Reject(t) ==
    /\ inc[t] = "pending"
    /\ inc' = [inc EXCEPT ![t] = "rejected"]
    /\ UNCHANGED <<key, sendVars, calls, accepting, written, replaced>>

\* receive, expire, and the sweep accept_prepare starts with.
Receive(old) ==
    /\ inc' = SweptIn(old)
    /\ UNCHANGED <<key, sendVars, calls, accepting, written, replaced>>

-----------------------------------------------------------------------------
(* Keys and crashes.                                                       *)

\* The key's bytes no longer open and the read quarantined it.
KeyFails(v) ==
    /\ key[v].active /\ key[Sender].gen + key[Receiver].gen < MaxKeys
    /\ key' = [key EXCEPT ![v].active = FALSE]
    /\ UNCHANGED <<sendVars, calls, recvVars>>

\* transfer init --replace, only for a key off Active: a new key, every pending
\* incoming transfer rejected and every outgoing one abandoned.
ReplaceKey(v) ==
    /\ ~key[v].active /\ key[Sender].gen + key[Receiver].gen < MaxKeys
    /\ key' = [key EXCEPT ![v] = [gen |-> @.gen + 1, active |-> TRUE]]
    /\ IF v = Sender
       THEN /\ out' = [t \in Ids |-> IF out[t] = "pending" THEN "abandoned" ELSE out[t]]
            /\ UNCHANGED <<inc, replaced>>
       ELSE /\ inc' = [t \in Ids |-> IF inc[t] = "pending" THEN "rejected" ELSE inc[t]]
            /\ replaced' = key'[v].gen
            /\ UNCHANGED out
    /\ UNCHANGED <<lastId, sealed, calls, accepting, written>>

\* remove and transfer init: a new key, and the transfers stay as they are.
InitKey(v) ==
    /\ ~key[v].active /\ key[Sender].gen + key[Receiver].gen < MaxKeys
    /\ key' = [key EXCEPT ![v] = [gen |-> @.gen + 1, active |-> TRUE]]
    /\ UNCHANGED <<sendVars, calls, recvVars>>

\* A crash loses what is in memory: the sender's waits, or the
\* receiver's calls and accepts.
CrashSender ==
    /\ calls' = [c \in Calls |-> IF calls[c].at \in {"idle", "answered"} THEN Idle
                                 ELSE [calls[c] EXCEPT !.waits = FALSE]]
    /\ UNCHANGED <<key, sendVars, recvVars>>
CrashReceiver ==
    /\ accepting' = [a \in Accepts |-> None]
    /\ calls' = [c \in Calls |->
            IF calls[c].at \in {"idle", "answered"} THEN calls[c]
            ELSE Answered(c, "unreachable")[c]]
    /\ UNCHANGED <<key, sendVars, inc, written, replaced>>

Next ==
    \/ CrashSender \/ CrashReceiver
    \/ \E old \in SUBSET {t \in Ids : out[t] # None} : Expire(old)
    \/ \E old \in SUBSET Pending(inc) : Receive(old)
    \/ \E c \in Calls :
        \/ Settle(c) \/ GiveUp(c) \/ NotAdmitted(c) \/ OpenEnvelope(c) \/ Insert(c)
        \/ StoreFails(c)
        \/ \E from \in 1..key[Sender].gen, to \in Announced(Receiver) : Send(c, from, to)
        \/ \E t \in Ids : Resume(c, t)
        \/ \E old \in SUBSET Pending(inc) : Look(c, old)
    \/ \E a \in Accepts :
        \/ \E t \in Ids, peer \in Announced(Sender) : AcceptPrepare(a, t, peer)
        \/ AcceptOpen(a) \/ AcceptReject(a) \/ AcceptFails(a)
        \/ \E existing \in {"none", "static", "other"}, replace \in BOOLEAN :
            AcceptCommit(a, existing, replace)
    \/ \E t \in Ids : Reject(t)
    \/ \E v \in Vaults : KeyFails(v) \/ ReplaceKey(v) \/ InitKey(v)
Spec == Init /\ [][Next]_vars

-----------------------------------------------------------------------------
\* The queue of one sender never exceeds its cap, though deliveries look at the
\* count, wait for a lookup and queue later (transfer.rs:720, store_federation.rs:1455).
QueueBounded == Cardinality(Pending(inc)) <= Cap

\* A record is written only by an accept that opened the envelope itself, with the
\* key it read after its own lookup, however long ago the delivery was opened; and
\* never from an envelope sealed to a key that `init --replace` has retired, though
\* neither a delivery nor an accept looks at the key again in the transaction that
\* ends it.  A key that was removed and made anew between the opening and the
\* commit does not stop the write.
WritesOnlyWhatOpens ==
    [][\A t \in Ids : written'[t] # written[t] =>
        /\ sealed[t] # None /\ sealed[t].to >= replaced
        /\ \E a \in Accepts :
            /\ accepting[a] # None /\ accepting'[a] = None
            /\ accepting[a].t = t /\ accepting[a].own = sealed[t].to]_vars

\* The refinement mapping: what has become of each transfer.
life == [t \in Ids |->
    IF sealed[t] = None THEN "unsealed"
    ELSE IF inc[t] = None THEN "sealed"
    ELSE IF inc[t] = "pending" THEN "queued"
    ELSE IF inc[t] = "accepted" THEN "accepted" ELSE "ended"]
Abstract == INSTANCE TransferLife
\* However deliveries, resumes, sweeps, accepts and key changes interleave, a
\* transfer queues once, is written at most once, and what was rejected, expired
\* or accepted stays so when the same bytes arrive again.
TransfersEndOnce == Abstract!Spec
=============================================================================
