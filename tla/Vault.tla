------------------------------- MODULE Vault -------------------------------
(***************************************************************************)
(* The vault as a whole: the two slots of the master-key store, the        *)
(* database sealed under one of the keys, the processes that hold the      *)
(* writer lease one after the other (bootstrap, the daemon, an offline     *)
(* command, a master-key rotation), the command line that commits an       *)
(* operation through the daemon or, when there is none, by itself, and the *)
(* signatures the daemon gives out against the audit chain.                *)
(*                                                                         *)
(* The lease is an advisory lock that the kernel drops when its holder     *)
(* dies, so there is one holder, and a crash at any point is the holder's  *)
(* disappearance.  Commands read the anchor row and the key slots without  *)
(* the lease, one read at a time, while a rotation may be under way.  A    *)
(* key is the number of the order in which keys were generated; NoKey is   *)
(* an empty slot, or a database never opened with a key.                   *)
(***************************************************************************)
EXTENDS Naturals, Sequences, FiniteSets

CONSTANTS
    Credentials,     \* rows of the credentials table (signing keys here)
    AgentSecrets,    \* rows of the agent_secrets table
    Commands,        \* invocations of the command line
    Signers,         \* sign requests at the daemon
    MaxKey, MaxBoot, MaxVersion, MaxIncarnation   \* bounds of the counters

ASSUME VaultAssumption ==
    /\ MaxKey \in Nat /\ MaxBoot \in Nat
    /\ MaxVersion \in Nat \ {0} /\ MaxIncarnation \in Nat
    /\ "vault" \notin Credentials \cup AgentSecrets

VARIABLES
    slot,       \* the key store's Current and Next slots
    minted,     \* how many master keys have been generated
    anchor,     \* key_id of the sealed audit-key row; NoKey before it exists
    row,        \* the sealed rows
    incs,       \* incarnations given out
    audit,      \* the audit chain
    holder,     \* the process that holds the lease
    boots,      \* how many daemons have started
    cmd,        \* the commands
    sig         \* the sign requests

store == <<anchor, row, incs, audit>>
keys  == <<slot, minted>>
vars  == <<slot, minted, anchor, row, incs, audit, holder, boots, cmd, sig>>

-----------------------------------------------------------------------------
(* Values *)

Rows == Credentials \cup AgentSecrets
NoKey == 0
Key == 0..MaxKey

(* audited is the record's audit_each_signature, off unless its owner asks *)
(* for it when the key is minted or replaced.                              *)
NoRow == [inc |-> 0, ver |-> 0, key |-> NoKey, sound |-> TRUE, state |-> "absent",
          audited |-> FALSE]
Row == [inc : 0..MaxIncarnation, ver : 0..MaxVersion, key : Key, sound : BOOLEAN,
        state : {"absent", "active", "corrupt"}, audited : BOOLEAN]

(* The admin operations that matter here: those that seal or drop a row. *)
Ops == [do : {"create", "replace"}, on : Credentials, audited : BOOLEAN]
       \cup [do : {"create"}, on : AgentSecrets, audited : {FALSE}]
       \cup [do : {"remove"}, on : Rows, audited : {FALSE}]

Entry == [op : {"create", "replace", "remove", "sign", "rotate"},
          on : Rows \cup {"vault"}, inc : 0..MaxIncarnation, ver : 0..MaxVersion]

NoHolder == [kind |-> "none", step |-> "none", key |-> NoKey, new |-> NoKey]
Holder == [kind : {"none", "daemon", "rotation"}, key : Key, new : Key,
           step : {"none", "serve", "heal", "healed", "stage", "rewrap",
                   "promote", "promoted"}]

(* A command: pre is the key its preflight proved readable, want the       *)
(* fingerprint it looks for in the slots and then the key it signs with,   *)
(* boot the daemon it talks to, net what is on the wire, end its result.   *)
NoOp == [do |-> "none", on |-> "none", audited |-> FALSE]
Idle == [at |-> "start", op |-> NoOp, pre |-> NoKey, want |-> NoKey, boot |-> 0,
         net |-> "none", applied |-> 0, end |-> "none"]
Command == [at : {"start", "preflight", "preflightNext", "ready", "challenged",
                  "challengedNext", "signed", "sent", "offline", "done"},
            op : Ops \cup {NoOp}, pre : Key, want : Key,
            boot : 0..MaxBoot, net : {"none", "op", "ok", "refused"},
            applied : 0..2, end : {"none", "ok", "refused", "local", "indeterminate"}]

(* audited: the signature is given out only with its row in the chain.  Of *)
(* one given out without a row, and of one refused, nothing is kept.       *)
Unsigned == [at |-> "start", on |-> "none", inc |-> 0, ver |-> 0, boot |-> 0,
             audited |-> FALSE]
Unrecorded == [Unsigned EXCEPT !.at = "signed"]
Signature == [at : {"start", "prepared", "signed", "refused"},
              on : Credentials \cup {"none"}, inc : 0..MaxIncarnation,
              ver : 0..MaxVersion, boot : 0..MaxBoot, audited : BOOLEAN]

TypeOK ==
    /\ slot \in [{"current", "next"} -> Key]
    /\ minted \in Key /\ anchor \in Key
    /\ row \in [Rows -> Row]
    /\ incs \in 0..MaxIncarnation
    /\ audit \in Seq(Entry)
    /\ holder \in Holder
    /\ boots \in 0..MaxBoot
    /\ cmd \in [Commands -> Command]
    /\ sig \in [Signers -> Signature]

Init ==
    /\ slot = [s \in {"current", "next"} |-> NoKey]
    /\ minted = 0 /\ anchor = NoKey
    /\ row = [r \in Rows |-> NoRow]
    /\ incs = 0 /\ audit = <<>>
    /\ holder = NoHolder /\ boots = 0
    /\ cmd = [c \in Commands |-> Idle]
    /\ sig = [s \in Signers |-> Unsigned]

-----------------------------------------------------------------------------
(* Opening the vault under the lease.  Nobody else writes the slots then,  *)
(* so the two loads of the resolver are one step; a load that fails ends   *)
(* the process, which changes nothing.                                     *)

LeaseFree == holder.kind = "none"
Live(b) == holder.kind = "daemon" /\ boots = b

(* resolve_for_db, or resolve when the anchor row is not there yet. *)
Resolves(k) ==
    /\ k # NoKey
    /\ IF anchor = NoKey THEN k = slot["current"]
                         ELSE k = anchor /\ \E s \in {"current", "next"} : slot[s] = k

(* EncryptedStore::open: the audit key opens under the key, or is created  *)
(* in a store that holds nothing yet; anything else is a corrupt vault.    *)
Empty == audit = <<>> /\ \A r \in Rows : row[r] = NoRow
Opens(k) == IF anchor = NoKey THEN Empty ELSE anchor = k

Bootstrap ==
    /\ LeaseFree
    /\ slot["current"] = NoKey
    /\ minted < MaxKey
    /\ minted' = minted + 1
    /\ slot' = [slot EXCEPT !["current"] = minted']
    /\ UNCHANGED <<store, holder, boots, cmd, sig>>

StartDaemon ==
    /\ LeaseFree
    /\ boots < MaxBoot
    /\ \E k \in Key :
          /\ Resolves(k) /\ Opens(k)
          /\ anchor' = k
          /\ holder' = [kind |-> "daemon", step |-> "serve", key |-> k, new |-> NoKey]
    /\ boots' = boots + 1
    /\ UNCHANGED <<keys, row, incs, audit, cmd, sig>>

(* A process that exits or is killed loses the lease with it. *)
HolderEnds ==
    /\ ~LeaseFree
    /\ holder' = NoHolder
    /\ UNCHANGED <<keys, store, boots, cmd, sig>>

-----------------------------------------------------------------------------
(* cmd_rotate_master_key: open, heal, stage, re-wrap, promote.  An error   *)
(* at any step ends the process where it stands (HolderEnds).              *)

RotationOpens ==
    /\ LeaseFree
    /\ minted < MaxKey
    /\ minted' = minted + 1
    /\ \E k \in Key :
          /\ Resolves(k) /\ Opens(k)
          /\ anchor' = k
          /\ holder' = [kind |-> "rotation", step |-> "heal", key |-> k, new |-> minted']
    /\ UNCHANGED <<slot, row, incs, audit, boots, cmd, sig>>

At(step) == holder.kind = "rotation" /\ holder.step = step
Goes(step) == holder' = [holder EXCEPT !.step = step]

(* Mutant: stages without promoting the key a crashed rotation left in Next. *)
HealSkipped ==
    /\ At("heal") /\ Goes("stage")
    /\ UNCHANGED <<keys, store, boots, cmd, sig>>

Heal ==
    /\ At("heal")
    /\ \/ slot["current"] = holder.key /\ Goes("stage") /\ UNCHANGED slot
       \/ /\ slot["current"] # holder.key /\ slot["next"] = holder.key
          /\ slot' = [slot EXCEPT !["current"] = slot["next"]]
          /\ Goes("healed")
    /\ UNCHANGED <<minted, store, boots, cmd, sig>>

HealClears ==
    /\ At("healed") /\ Goes("stage")
    /\ slot' = [slot EXCEPT !["next"] = NoKey]
    /\ UNCHANGED <<minted, store, boots, cmd, sig>>

StageNext ==
    /\ At("stage") /\ Goes("rewrap")
    /\ slot' = [slot EXCEPT !["next"] = holder.new]
    /\ UNCHANGED <<minted, store, boots, cmd, sig>>

(* Mutant: only the credentials table is re-wrapped. *)
RewrappedCredentials(r) ==
    IF r \in Credentials /\ row[r].state # "absent"
    THEN [row[r] EXCEPT !.key = holder.new] ELSE row[r]

(* One row of the re-wrap: what opens under the old key is sealed again    *)
(* under the new one, the rest is quarantined where it is.                 *)
Rewrapped(r) ==
    IF row[r].state = "absent" THEN row[r]
    ELSE IF row[r].key = holder.key /\ row[r].sound
         THEN [row[r] EXCEPT !.key = holder.new]
         ELSE [row[r] EXCEPT !.state = "corrupt"]

Rewrap ==
    /\ At("rewrap")
    /\ row' = [r \in Rows |-> Rewrapped(r)]
    /\ anchor' = holder.new
    /\ audit' = Append(audit, [op |-> "rotate", on |-> "vault", inc |-> 0, ver |-> 0])
    /\ holder' = [holder EXCEPT !.step = "promote", !.key = holder.new]
    /\ UNCHANGED <<keys, incs, boots, cmd, sig>>

PromoteNext ==
    /\ At("promote")
    /\ \/ slot["next"] = NoKey /\ holder' = NoHolder /\ UNCHANGED slot
       \/ /\ slot["next"] # NoKey
          /\ slot' = [slot EXCEPT !["current"] = slot["next"]]
          /\ Goes("promoted")
    /\ UNCHANGED <<minted, store, boots, cmd, sig>>

PromoteClears ==
    /\ At("promoted")
    /\ slot' = [slot EXCEPT !["next"] = NoKey]
    /\ holder' = NoHolder
    /\ UNCHANGED <<minted, store, boots, cmd, sig>>

-----------------------------------------------------------------------------
(* admin_ops::apply, by the process that holds the lease, with its key. *)

Admits(op) == (op.do = "create") <=> (row[op.on].state = "absent")

(* The bounds of the counters. *)
Room(op) ==
    /\ op.do = "create" => incs < MaxIncarnation
    /\ op.do = "replace" => row[op.on].ver < MaxVersion

After(op, k) ==
    CASE op.do = "create" ->
            [inc |-> incs + 1, ver |-> 1, key |-> k, sound |-> TRUE, state |-> "active",
             audited |-> op.audited]
      [] op.do = "replace" ->
            [row[op.on] EXCEPT !.ver = @ + 1, !.key = k, !.sound = TRUE, !.state = "active",
                               !.audited = op.audited]
      [] op.do = "remove" -> NoRow

Apply(op, k) ==
    /\ Admits(op) /\ Room(op)
    /\ row' = [row EXCEPT ![op.on] = After(op, k)]
    /\ incs' = IF op.do = "create" THEN incs + 1 ELSE incs
    /\ audit' = Append(audit, [op |-> op.do, on |-> op.on,
                               inc |-> After(op, k).inc, ver |-> After(op, k).ver])

-----------------------------------------------------------------------------
(* A command.  Login proves that it can read the key before it spends its  *)
(* authorization; every other command starts without one.                  *)

Becomes(c, x) == cmd' = [cmd EXCEPT ![c] = x]
Moves(c, at) == Becomes(c, [cmd[c] EXCEPT !.at = at])

(* Of a command that has ended only its result counts, and what it left on *)
(* the wire.                                                               *)
Ended(end, applied) ==
    [Idle EXCEPT !.at = "done", !.end = end, !.applied = applied]
Ends(c, end) == Becomes(c, Ended(end, cmd[c].applied))
Rest == UNCHANGED <<keys, store, holder, boots, sig>>

StartCommand(c) ==
    /\ cmd[c].at = "start"
    /\ \E op \in Ops, at \in {"preflight", "ready"} :
          Becomes(c, [cmd[c] EXCEPT !.at = at, !.op = op,
                          !.want = IF at = "preflight" THEN anchor ELSE NoKey])
    /\ Rest

(* resolve_store_key: the anchor was read by StartCommand, and one that    *)
(* could not be read counts as none.  Current is looked at first; without  *)
(* an anchor it is taken as it is.                                         *)
Preflight(c) ==
    /\ cmd[c].at = "preflight"
    /\ \E want \in {cmd[c].want, NoKey}, found \in {slot["current"], NoKey} :
          \/ /\ found # NoKey /\ want \in {found, NoKey}
             /\ Becomes(c, [cmd[c] EXCEPT !.at = "ready", !.pre = found, !.want = NoKey])
          \/ /\ want # NoKey /\ found # want
             /\ Moves(c, "preflightNext")
          \/ /\ want = NoKey /\ found = NoKey
             /\ Ends(c, "local")
    /\ Rest

PreflightNext(c) ==
    /\ cmd[c].at = "preflightNext"
    /\ \/ /\ slot["next"] = cmd[c].want
          /\ Becomes(c, [cmd[c] EXCEPT !.at = "ready", !.pre = cmd[c].want, !.want = NoKey])
       \/ Ends(c, "local")
    /\ Rest

(* The daemon is reached and answers the challenge with its fingerprint,   *)
(* or it is not and the command goes on without it; a connection file      *)
(* named by the environment allows no way around the daemon.               *)
Challenge(c) ==
    /\ cmd[c].at = "ready"
    /\ \/ /\ holder.kind = "daemon"
          /\ Becomes(c, [cmd[c] EXCEPT
                             !.at = IF cmd[c].pre = holder.key THEN "signed" ELSE "challenged",
                             !.want = holder.key, !.boot = boots])
       \/ Moves(c, "offline")
       \/ Ends(c, "local")
    /\ Rest

ResolveSigning(c) ==
    /\ cmd[c].at = "challenged"
    /\ \/ slot["current"] = cmd[c].want /\ Moves(c, "signed")
       \/ Moves(c, "challengedNext")
    /\ Rest

ResolveSigningNext(c) ==
    /\ cmd[c].at = "challengedNext"
    /\ \/ slot["next"] = cmd[c].want /\ Moves(c, "signed")
       \/ Ends(c, "local")
    /\ Rest

(* The request is written, or the write fails and nothing was sent. *)
SendOp(c) ==
    /\ cmd[c].at = "signed"
    /\ \/ Becomes(c, [cmd[c] EXCEPT !.at = "sent", !.net = "op", !.pre = NoKey])
       \/ Becomes(c, [cmd[c] EXCEPT !.at = "offline", !.want = NoKey, !.boot = 0])
    /\ Rest

(* The daemon that gave the nonce checks the tag with its own key. *)
Verified(c) == Live(cmd[c].boot) /\ cmd[c].want = holder.key

(* The answer is on the wire if the command still waits for it. *)
Answered(c, answer, times) ==
    IF cmd[c].at = "sent"
    THEN [cmd[c] EXCEPT !.net = answer, !.applied = @ + times, !.want = NoKey, !.boot = 0]
    ELSE Ended(cmd[c].end, cmd[c].applied + times)

HandleOp(c) ==
    /\ cmd[c].net = "op" /\ Verified(c)
    /\ Apply(cmd[c].op, holder.key)
    /\ Becomes(c, Answered(c, "ok", 1))
    /\ UNCHANGED <<keys, anchor, holder, boots, sig>>

RefuseOp(c) ==
    /\ cmd[c].net = "op" /\ Live(cmd[c].boot)
    /\ cmd[c].want # holder.key \/ ~Admits(cmd[c].op)
    /\ Becomes(c, Answered(c, "refused", 0))
    /\ Rest

(* What a command that has sent its operation makes of the answer ... *)
Answer(c) ==
    /\ cmd[c].at = "sent"
    /\ cmd[c].net \in {"ok", "refused"}
    /\ Ends(c, cmd[c].net)
    /\ Rest

(* Mutant: a lost answer is taken for a daemon that was never reached. *)
LoseAnswerAndFallBack(c) ==
    /\ cmd[c].at = "sent"
    /\ Moves(c, "offline")
    /\ Rest

(* ... and of the connection that ends without one: the operation may      *)
(* still be on its way to a live daemon.                                   *)
LoseAnswer(c) ==
    /\ cmd[c].at = "sent"
    /\ \/ cmd[c].net = "op" /\ Live(cmd[c].boot)
          /\ Becomes(c, [cmd[c] EXCEPT !.at = "done", !.end = "indeterminate"])
       \/ Ends(c, "indeterminate")
    /\ Rest

(* open_for_admin_with_key: the anchor decides; the preflighted key counts *)
(* only while it matches, or in a store that has no anchor.                *)
AdminKey(c) ==
    IF anchor = NoKey
    THEN IF cmd[c].pre # NoKey THEN cmd[c].pre ELSE slot["current"]
    ELSE IF cmd[c].pre = anchor \/ Resolves(anchor) THEN anchor ELSE NoKey

CommitOffline(c) ==
    /\ cmd[c].at = "offline" /\ LeaseFree
    /\ LET k == AdminKey(c) IN
          /\ k # NoKey /\ Opens(k)
          /\ anchor' = k
          /\ Apply(cmd[c].op, k)
    /\ Becomes(c, Ended("ok", cmd[c].applied + 1))
    /\ UNCHANGED <<keys, holder, boots, sig>>

(* The lease is held, or no key opens the store. *)
FailOffline(c) ==
    /\ cmd[c].at = "offline"
    /\ ~LeaseFree \/ AdminKey(c) = NoKey \/ ~Opens(AdminKey(c))
    /\ Ends(c, "local")
    /\ Rest

(* The store opened, which may have created its audit key, and the         *)
(* operation was refused.                                                  *)
RefuseOffline(c) ==
    /\ cmd[c].at = "offline" /\ LeaseFree
    /\ AdminKey(c) # NoKey /\ Opens(AdminKey(c))
    /\ anchor' = AdminKey(c)
    /\ ~Admits(cmd[c].op)
    /\ Ends(c, "refused")
    /\ UNCHANGED <<keys, row, incs, audit, holder, boots, sig>>

-----------------------------------------------------------------------------
(* sign, seal and operator_sign.  The key is read and the signature        *)
(* prepared.  sign then gives the signature out as it is, with no row and  *)
(* nothing read again, unless the record has audit_each_signature; for a   *)
(* record that has it, and always for seal and operator_sign, the row of   *)
(* the chain is appended first, and only if what was read is still what is *)
(* stored.                                                                 *)

Sign(s) ==
    /\ sig[s].at = "start"
    /\ holder.kind = "daemon"
    /\ \E r \in Credentials :
          /\ row[r].state = "active" /\ row[r].sound /\ row[r].key = holder.key
          /\ \/ sig' = [sig EXCEPT ![s] = [at |-> "prepared", on |-> r, inc |-> row[r].inc,
                                           ver |-> row[r].ver, boot |-> boots, audited |-> TRUE]]
             \/ ~row[r].audited /\ sig' = [sig EXCEPT ![s] = Unrecorded]
    /\ UNCHANGED <<keys, store, holder, boots, cmd>>

(* Mutant: the key may have been replaced under the same incarnation. *)
StillIncarnate(s) ==
    /\ row[sig[s].on].state # "absent"
    /\ row[sig[s].on].inc = sig[s].inc

StillStored(s) ==
    /\ row[sig[s].on].state # "absent"
    /\ row[sig[s].on].inc = sig[s].inc
    /\ row[sig[s].on].ver = sig[s].ver

AppendSignature(s) ==
    /\ sig[s].at = "prepared" /\ Live(sig[s].boot)
    /\ StillStored(s)
    /\ audit' = Append(audit, [op |-> "sign", on |-> sig[s].on,
                               inc |-> sig[s].inc, ver |-> sig[s].ver])
    /\ sig' = [sig EXCEPT ![s].at = "signed"]
    /\ UNCHANGED <<keys, anchor, row, incs, holder, boots, cmd>>

RefuseSignature(s) ==
    /\ sig[s].at = "prepared"
    /\ ~Live(sig[s].boot) \/ ~StillStored(s)
    /\ sig' = [sig EXCEPT ![s] = [Unsigned EXCEPT !.at = "refused"]]
    /\ UNCHANGED <<keys, store, holder, boots, cmd>>

-----------------------------------------------------------------------------
(* A row's envelope no longer opens (damage outside the program). *)
Damage(r) ==
    /\ row[r].state = "active" /\ row[r].sound
    /\ row' = [row EXCEPT ![r].sound = FALSE]
    /\ UNCHANGED <<keys, anchor, incs, audit, holder, boots, cmd, sig>>

-----------------------------------------------------------------------------
Rotation ==
    \/ RotationOpens \/ Heal \/ HealClears \/ StageNext
    \/ Rewrap \/ PromoteNext \/ PromoteClears

CommandStep(c) ==
    \/ StartCommand(c) \/ Preflight(c) \/ PreflightNext(c) \/ Challenge(c)
    \/ ResolveSigning(c) \/ ResolveSigningNext(c) \/ SendOp(c) \/ HandleOp(c)
    \/ RefuseOp(c) \/ Answer(c) \/ LoseAnswer(c)
    \/ CommitOffline(c) \/ FailOffline(c) \/ RefuseOffline(c)

Next ==
    \/ Bootstrap \/ StartDaemon \/ HolderEnds \/ Rotation
    \/ \E c \in Commands : CommandStep(c)
    \/ \E s \in Signers : Sign(s) \/ AppendSignature(s) \/ RefuseSignature(s)
    \/ \E r \in Rows : Damage(r)

Spec == Init /\ [][Next]_vars

-----------------------------------------------------------------------------
(* Properties *)

(* Whatever a rotation leaves behind, and after any number of rotations    *)
(* that stopped half-way, one of the two slots holds the key the database  *)
(* is sealed under, so that resolve_for_db finds it; a rotation that has   *)
(* not yet re-wrapped holds that key in a slot the staged key does not     *)
(* take.                                                                   *)
NeverStranded ==
    anchor # NoKey => \E s \in {"current", "next"} : slot[s] = anchor

(* A row that is not quarantined is sealed under the database's key: a     *)
(* rotation leaves no table and no row behind, and no command writes with  *)
(* a key it read before a rotation.                                        *)
SealedOrQuarantined ==
    \A r \in Rows : row[r].state = "active" => row[r].key = anchor

(* An operation is applied at most once, through the daemon or offline and *)
(* never through both; a command that reports success was applied, and one *)
(* that reports a refusal or a local failure was not and has nothing on    *)
(* the wire that still could be.                                           *)
ReportedAsApplied ==
    \A c \in Commands :
        /\ cmd[c].applied <= 1
        /\ cmd[c].end = "ok" => cmd[c].applied = 1
        /\ cmd[c].end \in {"refused", "local"} => cmd[c].applied = 0 /\ cmd[c].net # "op"

(* Entry i of the chain put the key generation in place that entry j       *)
(* signed with, and nothing replaced or removed it between the two.        *)
InPlace(i, j) ==
    /\ audit[i].op \in {"create", "replace"}
    /\ audit[i].on = audit[j].on
    /\ audit[i].inc = audit[j].inc /\ audit[i].ver = audit[j].ver
    /\ \A m \in (i + 1)..(j - 1) : audit[m].on = audit[j].on => audit[m].op = "sign"

(* A signature in the chain stands within the life of the key generation   *)
(* that made it, never behind the entry of the key that took its place or  *)
(* of the removal; and a signature given out by a key that was read with   *)
(* audit_each_signature, by seal or by operator_sign has its entry there.  *)
(* Of the signatures of a key without the flag the chain says nothing:     *)
(* they are given out unrecorded.                                          *)
SignedInItsGeneration ==
    /\ \A j \in 1..Len(audit) : audit[j].op = "sign" => \E i \in 1..(j - 1) : InPlace(i, j)
    /\ \A s \in Signers : sig[s].at = "signed" /\ sig[s].audited =>
          \E j \in 1..Len(audit) :
              audit[j] = [op |-> "sign", on |-> sig[s].on, inc |-> sig[s].inc, ver |-> sig[s].ver]
=============================================================================
