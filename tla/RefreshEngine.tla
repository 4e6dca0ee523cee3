--------------------------- MODULE RefreshEngine ---------------------------
(***************************************************************************)
(* One credential of the vault and everything that can change it: the      *)
(* durable row and its refresh-intent log (credentials-core/src/store.rs), *)
(* the refresh-on-read engine with its per-credential single-flight lock   *)
(* and boot reconciliation (engine.rs), the admin operations that take the *)
(* same lock (admin_surface.rs, admin_ops.rs) and the consumer reports     *)
(* that do not take it (credentials-module/src/read_surface.rs).           *)
(*                                                                         *)
(* Several vault processes may be alive at once: a lease handover leaves   *)
(* the superseded one running, and only the epoch fence of the store keeps *)
(* it from writing.  Locks, staged tokens and read snapshots live in       *)
(* memory and die with their process; the row and the intent survive.      *)
(*                                                                         *)
(* Each transaction of the store is one step.  Two reads or writes of one  *)
(* handler that another thread can separate are two steps.                 *)
(***************************************************************************)
EXTENDS Naturals

CONSTANTS
    Daemons,         \* vault processes: daemons and offline command lines
    Requests,        \* consumers' concurrent `get` calls (and their reports)
    NoOne,           \* an unheld lock, an idle call's process
    None,            \* no row, no intent
    IdRefreshable,   \* default_refresh_adapter(id) is Some: decides the report arm
    ReportPaths,     \* how consumers address reports: "handle" and/or "scoped"
    CheckOutcomes,   \* what an adapter's non_mutating_check may answer at boot
    Damageable,      \* whether stored bytes may become undecryptable
    MaxVersion, MaxToken, MaxIncarnation, MaxEpoch   \* bounds of the counters

ASSUME ConstantsAssumption ==
    /\ NoOne \notin Daemons \cup Requests
    /\ IdRefreshable \in BOOLEAN /\ Damageable \in BOOLEAN
    /\ ReportPaths \subseteq {"handle", "scoped"}
    /\ CheckOutcomes \subseteq {"none", "valid", "invalid", "transient"}
    /\ MaxVersion \in Nat \ {0} /\ MaxToken \in Nat \ {0}
    /\ MaxIncarnation \in Nat \ {0} /\ MaxEpoch \in Nat \ {0}

VARIABLES
    row,         \* the `credentials` row, or None
    intent,      \* the `refresh_intent` row, or None
    epoch,       \* the lease epoch the store's fence compares with
    incs, toks,  \* incarnations and refresh tokens issued so far
    phase,       \* each process: down, booting, serving, or a command line
    mine,        \* the epoch each process opened the store with
    fencedOut,   \* each process's fenced_out latch
    lock,        \* each process's single-flight lock for this credential
    pc, req,     \* each get call: where it is and what it holds in memory
    presented,   \* history: refresh tokens ever sent to the provider
    vouched      \* history: of those, the ones known good for another attempt

store == <<row, intent, incs, toks>>
history == <<presented, vouched>>
process == <<phase, mine, fencedOut>>
vars == <<row, intent, epoch, incs, toks, phase, mine, fencedOut, lock, pc,
          req, presented, vouched>>

States == {"active", "needs_reauth", "retired", "corrupt"}

Row == [version : 1..MaxVersion, state : States, stale : BOOLEAN,
        inc : 1..MaxIncarnation, tok : 1..MaxToken,
        refreshable : BOOLEAN, sound : BOOLEAN]

Intent == [version : 1..MaxVersion, tok : 1..MaxToken, epoch : 1..MaxEpoch]

ASSUME NoneAssumption == None \notin Row /\ None \notin Intent

\* Answered calls of do_refresh, by what the provider said.
Answers == {"ok", "empty", "grant", "transient"}
Exchanging == {"calling"} \cup Answers
Pcs == {"idle", "admitted", "snapped", "damaged", "waiting", "rechecked",
        "reread", "served", "reporting"} \cup Exchanging

\* What a call keeps in memory: its process, the incarnation it was admitted
\* to, the version of the first read (ver0), the record read last, whether a refresh
\* is due for the caller's own reasons, the token the provider returned and
\* the incarnation a report was admitted to.
Call == [d : Daemons \cup {NoOne}, inc : 0..MaxIncarnation,
         ver0 : 0..MaxVersion, ver : 0..MaxVersion, tok : 0..MaxToken,
         stale : BOOLEAN, refreshable : BOOLEAN, due : BOOLEAN,
         new : 0..MaxToken, adm : 0..MaxIncarnation]

CallOf(d, inc, ver, tok) ==
    [d |-> d, inc |-> inc, ver0 |-> 0, ver |-> ver, tok |-> tok,
     stale |-> FALSE, refreshable |-> FALSE, due |-> FALSE,
     new |-> 0, adm |-> 0]
NoCall == CallOf(NoOne, 0, 0, 0)

Init ==
    /\ row = None /\ intent = None
    /\ epoch = 0 /\ incs = 0 /\ toks = 0
    /\ phase = [d \in Daemons |-> "down"]
    /\ mine = [d \in Daemons |-> 0]
    /\ fencedOut = [d \in Daemons |-> FALSE]
    /\ lock = [d \in Daemons |-> NoOne]
    /\ pc = [r \in Requests |-> "idle"]
    /\ req = [r \in Requests |-> NoCall]
    /\ presented = {} /\ vouched = {}

-----------------------------------------------------------------------------
(* The store's fence and the pieces every handler is made of.              *)

\* fenced_write lets the transaction through: no newer process has opened.
Holds(d) == mine[d] = epoch

\* fenced_write is rejected: the latch is set and nothing is written.
Latch(d) ==
    /\ fencedOut' = [fencedOut EXCEPT ![d] = TRUE]
    /\ UNCHANGED <<phase, mine>>

\* The call returns (a reply or an error) and its guard drops.
FreeNothing(r) == UNCHANGED lock   \* mutant: the guard is leaked
Free(r) == lock' = [d \in Daemons |-> IF lock[d] = r THEN NoOne ELSE lock[d]]
Return(r) ==
    /\ pc' = [pc EXCEPT ![r] = "idle"]
    /\ req' = [req EXCEPT ![r] = NoCall]
    /\ Free(r)
Goto(r, where) == pc' = [pc EXCEPT ![r] = where]

\* The guard drops and the consumer holds the record: what remains of the call
\* is which lifetime, version and token it was served.
Serve(r, ver, tok) ==
    /\ Goto(r, "served")
    /\ req' = [req EXCEPT ![r] = CallOf(NoOne, req[r].inc, ver, tok)]
    /\ Free(r)

\* A fenced write of call r is refused: the error ends the call.
Refused(r) ==
    /\ ~Holds(req[r].d)
    /\ Latch(req[r].d)
    /\ Return(r)
    /\ UNCHANGED <<store, epoch, history>>

\* read_snapshot for the admitted incarnation: what is there to be decoded.
Readable(r) == row # None /\ row.inc = req[r].inc /\ row.state = "active"

\* The call's copy of the row it just read.
Copied(r) == [req[r] EXCEPT !.ver = row.version, !.tok = row.tok,
                            !.stale = row.stale,
                            !.refreshable = row.refreshable]

\* decode_record_row refuses: NotFound, NeedsReauth or Quarantined.
ReadFails(r) == ~Readable(r) /\ Return(r)

\* The envelope does not open: decode_record_row goes on to quarantine it.
ReadDamaged(r) ==
    /\ Readable(r) /\ ~row.sound
    /\ Goto(r, "damaged")
    /\ req' = [req EXCEPT ![r] = CallOf(req[r].d, req[r].inc, row.version, 0)]

-----------------------------------------------------------------------------
(* The read path: get_for_incarnation.                                     *)

\* resolve_handle_with_incarnation, or credential_incarnation of a scoped
\* read: the row lifetime this call may be served from.
Admit(r, d) ==
    /\ pc[r] = "idle" /\ phase[d] = "up" /\ row # None
    /\ Goto(r, "admitted")
    /\ req' = [req EXCEPT ![r] = CallOf(d, row.inc, 0, 0)]
    /\ UNCHANGED <<store, epoch, process, lock, history>>

\* The first, unlocked snapshot.
Snapshot(r) ==
    /\ pc[r] = "admitted"
    /\ \/ /\ Readable(r) /\ row.sound
          /\ Goto(r, "snapped")
          /\ req' = [req EXCEPT ![r] = Copied(r)]
          /\ UNCHANGED lock
       \/ ReadDamaged(r) /\ UNCHANGED lock
       \/ ReadFails(r)
    /\ UNCHANGED <<store, epoch, process, history>>

\* has_refresh_intent, a separate read: a fresh record and no intent are
\* served without the lock.  `due` stands for force_refresh or is_stale.
CheckIntent(r) ==
    /\ pc[r] = "snapped"
    /\ \E due \in BOOLEAN :
          \/ /\ intent = None /\ ~due /\ ~req[r].stale
             /\ Serve(r, req[r].ver, req[r].tok)
          \/ /\ intent # None \/ due \/ req[r].stale
             /\ Goto(r, "waiting")
             /\ req' = [req EXCEPT ![r] =
                   [CallOf(req[r].d, req[r].inc, 0, 0) EXCEPT
                      !.ver0 = req[r].ver, !.due = due]]
             /\ UNCHANGED lock
    /\ UNCHANGED <<store, epoch, process, history>>

\* The single-flight lock is acquired and the row read again under it.
Acquire(r) ==
    /\ pc[r] = "waiting" /\ lock[req[r].d] = NoOne
    /\ \/ /\ Readable(r) /\ row.sound
          /\ Goto(r, "rechecked")
          /\ req' = [req EXCEPT ![r] = Copied(r)]
          /\ lock' = [lock EXCEPT ![req[r].d] = r]
       \/ /\ ReadDamaged(r)
          /\ lock' = [lock EXCEPT ![req[r].d] = r]
       \/ ReadFails(r)
    /\ UNCHANGED <<store, epoch, process, history>>

\* Under the lock, an intent the previous holder left behind is unresolved:
\* the call fails closed with NeedsReauth.
FailOnIntent(r) ==
    /\ pc[r] = "rechecked" /\ intent # None
    /\ Return(r)
    /\ UNCHANGED <<store, epoch, process, history>>

\* Served under the lock without a provider call: another holder refreshed
\* or an admin replaced the row; nothing asks for a refresh (any more); the
\* record cannot be refreshed; or only a stale mark asks and the report
\* cooldown is still running (the mark stays).
ServeLocked(r) ==
    /\ pc[r] = "rechecked" /\ intent = None
    /\ \/ req[r].ver # req[r].ver0
       \/ ~req[r].refreshable /\ ~req[r].stale
       \/ req[r].refreshable /\ ~req[r].due
    /\ Serve(r, req[r].ver, req[r].tok)
    /\ UNCHANGED <<store, epoch, process, history>>

\* invalidate_in_incarnation / invalidate_if_version_reported: the state flips
\* only from active at the expected version, and then clears the intent.
InvalidateAt(inc, ver) ==
    IF row # None /\ row.inc = inc /\ row.version = ver /\ row.state = "active"
    THEN /\ row' = [row EXCEPT !.state = "needs_reauth"]
         /\ intent' = None
    ELSE UNCHANGED <<row, intent>>

\* A stale mark on a record that cannot refresh is terminal for that version.
LatchStale(r) ==
    /\ pc[r] = "rechecked" /\ intent = None
    /\ req[r].ver = req[r].ver0 /\ req[r].stale /\ ~req[r].refreshable
    /\ \/ Refused(r)
       \/ /\ Holds(req[r].d)
          /\ InvalidateAt(req[r].inc, req[r].ver)
          /\ Goto(r, "reread")
          /\ UNCHANGED <<epoch, incs, toks, process, lock, req, history>>

\* Mutant: the intent left by the previous holder is not looked for.
OpenIntentUnchecked(r) ==
    /\ pc[r] = "rechecked" /\ Holds(req[r].d)
    /\ req[r].ver = req[r].ver0 /\ req[r].refreshable
    /\ intent' = [version |-> req[r].ver, tok |-> req[r].tok, epoch |-> epoch]
    /\ presented' = presented \cup {req[r].tok}
    /\ vouched' = vouched \ {req[r].tok}
    /\ Goto(r, "calling")
    /\ req' = [req EXCEPT ![r] = CallOf(req[r].d, req[r].inc,
                                       req[r].ver, req[r].tok)]
    /\ UNCHANGED <<row, epoch, incs, toks, process, lock>>

\* do_refresh, txn1: the intent is durable before the provider is called.
\* (has_refresh_intent and open_intent are two transactions; what can come
\* between them commutes with the first, so they are one step.)
OpenIntent(r) ==
    /\ pc[r] = "rechecked" /\ intent = None
    /\ req[r].ver = req[r].ver0 /\ req[r].refreshable
    \* is_stale is asked again: time may have made the token due meanwhile
    /\ \/ Refused(r)
       \/ /\ Holds(req[r].d)
          /\ intent' = [version |-> req[r].ver, tok |-> req[r].tok,
                        epoch |-> epoch]
          /\ presented' = presented \cup {req[r].tok}
          /\ vouched' = vouched \ {req[r].tok}
          /\ Goto(r, "calling")
          /\ req' = [req EXCEPT ![r] = CallOf(req[r].d, req[r].inc,
                                             req[r].ver, req[r].tok)]
          /\ UNCHANGED <<row, epoch, incs, toks, process, lock>>

\* The provider answers, or the transport gives up after its timeout.
Answer(r, answer) ==
    /\ pc[r] = "calling"
    /\ Goto(r, answer)
    /\ IF answer = "ok"
       THEN /\ toks < MaxToken
            /\ toks' = toks + 1
            /\ req' = [req EXCEPT ![r] = [req[r] EXCEPT !.new = toks + 1]]
       ELSE UNCHANGED <<toks, req>>
    /\ UNCHANGED <<row, intent, epoch, incs, process, lock, history>>

\* do_refresh, txn2 (commit_refresh): new tokens, version, cleared mark and
\* cleared intent commit together, on the expected version of an active row.
\* Fenced, or refused by its guard (CasMismatch), it discards the staged token
\* and leaves the intent as it is.
CommitsAt(ver) == row # None /\ row.version = ver /\ row.state = "active"
Commit(r) ==
    /\ pc[r] = "ok"
    /\ \/ Refused(r)
       \/ /\ Holds(req[r].d) /\ CommitsAt(req[r].ver) /\ row.version < MaxVersion
          /\ row' = [row EXCEPT !.version = req[r].ver + 1, !.stale = FALSE,
                                !.tok = req[r].new, !.sound = TRUE]
          /\ intent' = None
          /\ Goto(r, "reread")
          /\ UNCHANGED <<epoch, incs, toks, process, lock, req, history>>
       \/ /\ Holds(req[r].d) /\ ~CommitsAt(req[r].ver)
          /\ Return(r) /\ UNCHANGED <<store, epoch, process, history>>

\* A transient failure, or an answer without an access token, was handled by a
\* live engine: the intent is cleared and the record stays active for another
\* attempt with the same token.
ClearAfterError(r) ==
    /\ pc[r] \in {"empty", "transient"}
    /\ \/ Refused(r)
       \/ /\ Holds(req[r].d)
          /\ intent' = None
          /\ vouched' = vouched \cup {req[r].tok}
          /\ Return(r)
          /\ UNCHANGED <<row, epoch, incs, toks, process, presented>>

\* InvalidGrant or SubscriptionRequired: needs_reauth at the version observed.
\* invalidate_if_version_reported takes the CURRENT incarnation of the id.
GrantRefused(r) ==
    /\ pc[r] = "grant"
    /\ \/ Refused(r)
       \/ /\ Holds(req[r].d)
          /\ IF row = None THEN UNCHANGED <<row, intent>>
             ELSE InvalidateAt(row.inc, req[r].ver)
          /\ Return(r)
          /\ UNCHANGED <<epoch, incs, toks, process, history>>

\* Mutant: a cleanup on the way out clears the intent after any failure.
StorageFailsClearing(r) ==
    /\ pc[r] \in Answers
    /\ intent' = None
    /\ Return(r)
    /\ UNCHANGED <<row, epoch, incs, toks, process, history>>

\* The storage layer fails a read or a write of the call, or the record names an
\* adapter that is not registered: the error is returned and nothing applied;
\* an intent that was open stays, in a process that goes on serving.
StorageFails(r) ==
    /\ pc[r] \notin {"idle", "waiting", "calling", "served"}
    /\ Return(r)
    /\ UNCHANGED <<store, epoch, process, history>>

\* The read that follows a refresh or a stale latch, still under the lock.
Reread(r) ==
    /\ pc[r] = "reread"
    /\ \/ /\ Readable(r) /\ row.sound
          /\ Serve(r, row.version, row.tok)
       \/ ReadDamaged(r) /\ UNCHANGED lock
       \/ ReadFails(r)
    /\ UNCHANGED <<store, epoch, process, history>>

\* Mutant: the version inspected is not compared again.
QuarantineAnyVersion(r) ==
    /\ pc[r] = "damaged" /\ Holds(req[r].d)
    /\ row' = IF row # None /\ row.inc = req[r].inc
              THEN [row EXCEPT !.state = "corrupt"] ELSE row
    /\ Return(r)
    /\ UNCHANGED <<intent, epoch, incs, toks, process, history>>

\* quarantine_in_incarnation: only the version and lifetime inspected.
Quarantine(r) ==
    /\ pc[r] = "damaged"
    /\ \/ Refused(r)
       \/ /\ Holds(req[r].d)
          /\ row' = IF row # None /\ row.inc = req[r].inc
                                  /\ row.version = req[r].ver
                    THEN [row EXCEPT !.state = "corrupt"] ELSE row
          /\ Return(r)
          /\ UNCHANGED <<intent, epoch, incs, toks, process, history>>

\* The consumer is done with the record.
Forget(r) ==
    /\ pc[r] = "served"
    /\ Return(r)
    /\ UNCHANGED <<store, epoch, process, history>>

-----------------------------------------------------------------------------
(* report_auth_failure: no lock, version-gated.                            *)

\* The report is admitted: a handle still resolves only in the lifetime it was
\* minted for (remove deletes it), a scoped caller names just the id.
ReportAdmit(r, d, path) ==
    /\ pc[r] = "served" /\ phase[d] = "up"
    /\ row # None /\ (path = "handle" => row.inc = req[r].inc)
    /\ Goto(r, "reporting")
    /\ req' = [req EXCEPT ![r] = [req[r] EXCEPT !.d = d, !.adm = row.inc]]
    /\ UNCHANGED <<store, epoch, process, lock, history>>

\* The arm is chosen by the id: mark_stale_in_incarnation for a refreshable
\* one, invalidate_in_incarnation for the others.
ReportApply(r) ==
    /\ pc[r] = "reporting"
    /\ \/ Refused(r)
       \/ /\ Holds(req[r].d) /\ IdRefreshable
          /\ row' = IF row # None /\ row.inc = req[r].adm
                                  /\ row.version = req[r].ver
                    THEN [row EXCEPT !.stale = TRUE] ELSE row
          /\ Return(r)
          /\ UNCHANGED <<intent, epoch, incs, toks, process, history>>
       \/ /\ Holds(req[r].d) /\ ~IdRefreshable
          /\ InvalidateAt(req[r].adm, req[r].ver)
          /\ Return(r)
          /\ UNCHANGED <<epoch, incs, toks, process, history>>

-----------------------------------------------------------------------------
(* Admin operations, each one transaction under with_admin_lock (a daemon) *)
(* or in an offline command line that opened the store itself.             *)

\* Mutant: an admin operation does not wait for the credential's lock.
AdminUnlocked(d) ==
    /\ phase[d] \in {"up", "cli"} /\ Holds(d)
    /\ UNCHANGED <<epoch, process, lock, pc, req, presented>>
Admin(d) ==
    /\ phase[d] \in {"up", "cli"} /\ lock[d] = NoOne /\ Holds(d)
    /\ UNCHANGED <<epoch, process, lock, pc, req, presented>>

\* Any of them in a superseded process.
AdminRefused(d) ==
    /\ phase[d] \in {"up", "cli"} /\ lock[d] = NoOne /\ ~Holds(d)
    /\ Latch(d)
    /\ UNCHANGED <<store, epoch, lock, pc, req, history>>

\* create_audited: create-only, version 1, a new incarnation.
Create(d, refreshable) ==
    /\ Admin(d) /\ row = None
    /\ incs < MaxIncarnation /\ toks < MaxToken
    /\ incs' = incs + 1 /\ toks' = toks + 1
    /\ row' = [version |-> 1, state |-> "active", stale |-> FALSE,
               inc |-> incs + 1, tok |-> toks + 1,
               refreshable |-> refreshable, sound |-> TRUE]
    /\ intent' = None
    /\ UNCHANGED vouched

\* Mutant: the replacement forgets the intent of the material it replaces.
ReplaceKeepingIntent(d, refreshable) ==
    /\ Admin(d) /\ row # None
    /\ row.version < MaxVersion /\ toks < MaxToken
    /\ toks' = toks + 1
    /\ row' = [row EXCEPT !.version = row.version + 1, !.state = "active",
                          !.stale = FALSE, !.tok = toks + 1,
                          !.refreshable = refreshable, !.sound = TRUE]
    /\ UNCHANGED <<intent, incs, vouched>>

\* Mutant: the replacement keeps the version.
ReplaceInPlace(d, refreshable) ==
    /\ Admin(d) /\ row # None /\ toks < MaxToken
    /\ toks' = toks + 1
    /\ row' = [row EXCEPT !.state = "active", !.stale = FALSE, !.tok = toks + 1,
                          !.refreshable = refreshable, !.sound = TRUE]
    /\ intent' = None
    /\ UNCHANGED <<incs, vouched>>

\* overwrite_unconditional...audited: any state, version + 1, active again.
\* (overwrite_cas_audited reaches no further state: it adds preconditions.)
Replace(d, refreshable) ==
    /\ Admin(d) /\ row # None
    /\ row.version < MaxVersion /\ toks < MaxToken
    /\ toks' = toks + 1
    /\ row' = [row EXCEPT !.version = row.version + 1, !.state = "active",
                          !.stale = FALSE, !.tok = toks + 1,
                          !.refreshable = refreshable, !.sound = TRUE]
    /\ intent' = None
    /\ UNCHANGED <<incs, vouched>>

\* set_identity_audited: re-sealed at version + 1; state, mark, tokens and
\* intent are kept, and an envelope that does not open is refused.
SetIdentity(d) ==
    /\ Admin(d) /\ row # None /\ row.sound /\ row.version < MaxVersion
    /\ row' = [row EXCEPT !.version = row.version + 1]
    /\ UNCHANGED <<intent, incs, toks, vouched>>

\* invalidate_and_revoke_all_audited.
Invalidate(d) ==
    /\ Admin(d) /\ row # None
    /\ row' = IF row.state = "corrupt" THEN row
              ELSE [row EXCEPT !.state = "needs_reauth"]
    /\ intent' = None
    /\ UNCHANGED <<incs, toks, vouched>>

\* retire_and_revoke_all_audited (logout).
Retire(d) ==
    /\ Admin(d) /\ row # None
    /\ row' = IF row.state \in {"active", "needs_reauth"}
              THEN [row EXCEPT !.state = "retired"] ELSE row
    /\ intent' = None
    /\ UNCHANGED <<incs, toks, vouched>>

\* reactivate_audited: the operator asserts that the stored material is good.
Reactivate(d) ==
    /\ Admin(d) /\ row # None /\ row.state \in {"needs_reauth", "retired"}
    /\ row' = [row EXCEPT !.state = "active"]
    /\ vouched' = vouched \cup {row.tok}
    /\ UNCHANGED <<intent, incs, toks>>

\* remove_audited: the row, its intent and its handles go together.
Remove(d) ==
    /\ Admin(d) /\ row # None
    /\ row' = None /\ intent' = None
    /\ UNCHANGED <<incs, toks, vouched>>

-----------------------------------------------------------------------------
(* Processes and the environment.                                          *)

\* open_sqlite and EncryptedStore::open: the lease hands out a higher epoch,
\* whether or not the previous holder is gone.  A daemon goes on to the boot
\* gate; the offline command line reconciles nothing.
Open(d, as) ==
    /\ phase[d] = "down" /\ epoch < MaxEpoch
    /\ epoch' = epoch + 1
    /\ phase' = [phase EXCEPT ![d] = as]
    /\ mine' = [mine EXCEPT ![d] = epoch + 1]
    /\ UNCHANGED <<store, fencedOut, lock, pc, req, history>>

\* The process is gone, and its memory with it.
Dies(d) ==
    /\ phase' = [phase EXCEPT ![d] = "down"]
    /\ mine' = [mine EXCEPT ![d] = 0]
    /\ fencedOut' = [fencedOut EXCEPT ![d] = FALSE]

\* The boot gate is passed: reads are served.
Serves(d) ==
    /\ phase' = [phase EXCEPT ![d] = "up"]
    /\ UNCHANGED <<mine, fencedOut>>

\* reconcile and reconcile_one, before anything is served.  Only this process
\* can write meanwhile, so the read, the check and the write are one step.
Reconcile(d, check) ==
    /\ phase[d] = "boot"
    /\ \/ intent = None /\ Serves(d) /\ UNCHANGED <<row, intent, vouched>>
       \/ \* a write is refused: the boot fails
          /\ intent # None /\ ~Holds(d)
          /\ Dies(d)
          /\ UNCHANGED <<row, intent, vouched>>
       \/ \* nothing live to protect: OrphanCleared
          /\ intent # None /\ Holds(d)
          /\ (row # None => row.state # "active")
          /\ intent' = None /\ Serves(d) /\ UNCHANGED <<row, vouched>>
       \/ \* the envelope does not open: quarantined first, cleared next
          /\ intent # None /\ Holds(d)
          /\ row # None /\ row.state = "active" /\ ~row.sound
          /\ row' = [row EXCEPT !.state = "corrupt"]
          /\ UNCHANGED <<process, intent, vouched>>
       \/ /\ intent # None /\ Holds(d)
          /\ row # None /\ row.state = "active" /\ row.sound
          /\ Serves(d)
          /\ \/ /\ row.tok # intent.tok \/ check \in {"none", "invalid"}
                /\ row' = [row EXCEPT !.state = "needs_reauth"]
                /\ intent' = None /\ UNCHANGED vouched
             \/ /\ row.tok = intent.tok /\ check = "valid"
                /\ intent' = None /\ vouched' = vouched \cup {row.tok}
                /\ UNCHANGED row
             \/ /\ row.tok = intent.tok /\ check = "transient"
                /\ row' = [row EXCEPT !.state = "needs_reauth"]
                /\ UNCHANGED <<intent, vouched>>
    /\ UNCHANGED <<epoch, incs, toks, lock, pc, req, presented>>

\* The process dies; its calls, staged tokens and lock die with it.  A record
\* already served is the consumer's.
Crash(d) ==
    /\ phase[d] # "down"
    /\ Dies(d)
    /\ lock' = [lock EXCEPT ![d] = NoOne]
    /\ LET gone == {r \in Requests : req[r].d = d}
       IN  /\ pc' = [r \in Requests |-> IF r \in gone THEN "idle" ELSE pc[r]]
           /\ req' = [r \in Requests |-> IF r \in gone THEN NoCall ELSE req[r]]
    /\ UNCHANGED <<store, epoch, history>>

\* Stored bytes go bad (the reason the read path can quarantine).
Damage ==
    /\ Damageable /\ row # None /\ row.sound
    /\ row' = [row EXCEPT !.sound = FALSE]
    /\ UNCHANGED <<intent, epoch, incs, toks, process, lock, pc, req, history>>

-----------------------------------------------------------------------------
\* One step of call r in its own process.
Step(r) ==
    \/ Snapshot(r) \/ CheckIntent(r) \/ Acquire(r) \/ FailOnIntent(r)
    \/ ServeLocked(r) \/ LatchStale(r) \/ OpenIntent(r)
    \/ \E answer \in Answers : Answer(r, answer)
    \/ Commit(r) \/ ClearAfterError(r) \/ GrantRefused(r) \/ StorageFails(r)
    \/ Reread(r) \/ Quarantine(r) \/ Forget(r) \/ ReportApply(r)

AdminOp(d) ==
    \/ AdminRefused(d)
    \/ \E refreshable \in BOOLEAN :
          Create(d, refreshable) \/ Replace(d, refreshable)
    \/ SetIdentity(d) \/ Invalidate(d) \/ Retire(d) \/ Reactivate(d) \/ Remove(d)

Next ==
    \/ \E r \in Requests :
          \/ Step(r)
          \/ \E d \in Daemons : Admit(r, d)
          \/ \E d \in Daemons, path \in ReportPaths : ReportAdmit(r, d, path)
    \/ \E d \in Daemons :
          \/ AdminOp(d)
          \/ \E as \in {"boot", "cli"} : Open(d, as)
          \/ \E check \in CheckOutcomes : Reconcile(d, check)
          \/ Crash(d)
    \/ Damage

Spec == Init /\ [][Next]_vars

-----------------------------------------------------------------------------
(* Properties.                                                             *)

\* Every variable has the type of what it models.
TypeOK ==
    /\ row \in Row \cup {None}
    /\ intent \in Intent \cup {None}
    /\ epoch \in 0..MaxEpoch
    /\ incs \in 0..MaxIncarnation /\ toks \in 0..MaxToken
    /\ phase \in [Daemons -> {"down", "boot", "up", "cli"}]
    /\ mine \in [Daemons -> 0..MaxEpoch]
    /\ fencedOut \in [Daemons -> BOOLEAN]
    /\ lock \in [Daemons -> Requests \cup {NoOne}]
    /\ pc \in [Requests -> Pcs]
    /\ req \in [Requests -> Call]
    /\ presented \subseteq 1..MaxToken /\ vouched \subseteq 1..MaxToken

\* A refresh token whose last exchange has no known outcome (the process died,
\* lost the lease or failed to commit) is never sent to the provider again
\* unless an operator reactivated the credential or a live engine saw the
\* exchange fail: do_refresh behind the intent check at engine.rs:359, the
\* fence of open_intent and the boot gate.
NoBlindReuse ==
    [][\A r \in Requests :
          pc[r] # "calling" /\ pc'[r] = "calling"
             => req[r].tok \notin presented \ vouched]_vars

\* An active row never silently holds a refresh token whose exchange was left
\* without an outcome: the intent is still there to stop every refresh.
UnresolvedIsFlagged ==
    row # None /\ row.state = "active" /\ row.tok \in presented \ vouched
       => intent # None

\* The corruption guard of reconcile_one (engine.rs:726) can only fire on a
\* write from outside: no interleaving of the vault's own writers leaves an
\* intent beside a row that carries another refresh token.
IntentMatchesStored ==
    intent # None => row # None /\ row.tok = intent.tok

\* What a finished exchange does to the row (commit, or needs_reauth for a
\* refused grant) it does to the very token it presented: no replacement and
\* no re-created credential that merely reuses the version number is touched,
\* although commit_refresh and invalidate_if_version_reported look only at the
\* version.
VerdictLandsOnItsToken ==
    \A r \in Requests :
       pc[r] \in Answers /\ Holds(req[r].d) /\ CommitsAt(req[r].ver)
          => row.tok = req[r].tok /\ row.inc = req[r].inc

\* A stale integrity decision never poisons fresh material: only a row whose
\* bytes really do not open is ever quarantined.
QuarantineOnlyDamaged ==
    row # None /\ row.state = "corrupt" => ~row.sound

\* The version gate identifies the token: a report by handle that would take effect
\* is about the token the consumer was served (read_surface.rs: "a consumer can
\* only ever kill the exact version it saw, not whatever is current").
ReportHitsServedToken ==
    \A r \in Requests :
       pc[r] = "reporting" /\ row # None
       /\ row.inc = req[r].adm /\ row.version = req[r].ver
          => row.tok = req[r].tok

\* The boot gate: once a process that holds the lease serves, the only intent
\* there can be was opened by that process itself.
BootGate ==
    \A d \in Daemons :
       phase[d] = "up" /\ Holds(d) /\ intent # None
          => intent.epoch = epoch

\* fenced_out (store.rs:2091) is set only in a process that can never write
\* again: its permanence is inherited from the lease epoch only ever rising.
LatchIsFinal ==
    \A d \in Daemons : fencedOut[d] => mine[d] < epoch

-----------------------------------------------------------------------------
(* Liveness.  Calls are spawned tasks that nothing aborts, the transport    *)
(* times out, and tokio's mutex queues its waiters: every step of a call is *)
(* eventually taken, and a waiter is not overtaken for ever.                *)

Fairness ==
    /\ \A r \in Requests : WF_vars(Step(r))
    /\ \A r \in Requests : SF_vars(Acquire(r))

FairSpec == Spec /\ Fairness

\* Every get is answered and every report applied, whatever the calls, admin
\* operations, crashes and handovers around them: no lost single-flight lock
\* leaves a waiter behind (engine.rs:354).
EveryCallReturns ==
    \A r \in Requests :
       pc[r] \notin {"idle", "served"} ~> pc[r] \in {"idle", "served"}

\* The single-flight lock is never orphaned: whoever waits for it waits for a
\* call of the same process that is between its read under the lock and its
\* return, and so has a step to take (engine.rs:354).
Holding == {"rechecked", "reread", "damaged"} \cup Exchanging
LockHasOwner ==
    \A d \in Daemons, r \in Requests :
       lock[d] = r => req[r].d = d /\ pc[r] \in Holding

-----------------------------------------------------------------------------
(* The inductive invariant behind the safety properties.                   *)

\* Epochs are never shared, and a process that is not down has one.
EpochsApart ==
    /\ \A d \in Daemons :
          /\ mine[d] <= epoch
          /\ phase[d] = "down" <=> mine[d] = 0
          /\ phase[d] = "down" => ~fencedOut[d]
    /\ \A d, e \in Daemons :
          mine[d] = mine[e] /\ mine[d] > 0 => d = e

\* A call lives in a serving process and, from the second read to the end of
\* the exchange, holds that process's lock.
Locked == {"rechecked", "reread"} \cup Exchanging
CallsPlaced ==
    \A r \in Requests :
       /\ pc[r] \in {"idle", "served"} <=> req[r].d = NoOne
       /\ req[r].d # NoOne => phase[req[r].d] = "up"
       /\ pc[r] \in Locked => lock[req[r].d] = r

\* Under the lock, and as long as the lease is held, the call's copy names the
\* stored row: nobody else can replace, re-create, rotate or relabel it.
CopyCurrent ==
    \A r \in Requests :
       pc[r] \in {"rechecked"} \cup Exchanging /\ Holds(req[r].d)
          => /\ row # None /\ row.inc = req[r].inc
             /\ row.version = req[r].ver /\ row.tok = req[r].tok

\* A token returned by the provider is new: not stored, not sent, not shared.
TokensFresh ==
    /\ \A t \in presented : t <= toks
    /\ row # None => row.tok <= toks
    /\ \A r \in Requests :
          pc[r] = "ok" =>
             /\ req[r].new \in 1..toks /\ req[r].new \notin presented
             /\ row # None => row.tok # req[r].new
             /\ \A s \in Requests :
                   pc[s] = "ok" /\ req[s].new = req[r].new => s = r

\* A call that read an unresolved token under the lock still finds the intent.
\* (Only in a vault whose reports mark stale: an unlocked invalidate clears
\* the intent under the reader.)
IntentStillThere ==
    IdRefreshable =>
       \A r \in Requests :
          /\ pc[r] = "rechecked" /\ Holds(req[r].d)
          /\ req[r].tok \in presented \ vouched
          => intent # None

\* Versions only rise within a lifetime, and each names one token; a call that
\* saw damaged bytes and still matches is looking at them.
Remembers == {"snapped", "rechecked", "served", "reporting"} \cup Exchanging
VersionsName ==
    /\ row # None => row.inc <= incs
    /\ \A r \in Requests :
          /\ req[r].inc <= incs
          /\ row # None /\ row.inc = req[r].inc =>
                /\ req[r].ver <= row.version
                /\ pc[r] \in Remembers /\ row.version = req[r].ver
                      => row.tok = req[r].tok
                /\ pc[r] = "damaged" /\ row.version = req[r].ver
                      => ~row.sound

\* With handle-addressed reports a report stays in the lifetime it is about.
ReportsPlaced ==
    "scoped" \notin ReportPaths =>
       \A r \in Requests : pc[r] = "reporting" => req[r].adm = req[r].inc

\* Without the retain arm of reconciliation, the boot gate leaves no intent.
GateKept == "transient" \notin CheckOutcomes => BootGate

IInv ==
    /\ TypeOK /\ EpochsApart /\ CallsPlaced /\ CopyCurrent /\ TokensFresh
    /\ IntentMatchesStored /\ UnresolvedIsFlagged /\ IntentStillThere
    /\ QuarantineOnlyDamaged /\ VersionsName /\ ReportsPlaced /\ GateKept
    /\ LatchIsFinal
=============================================================================
