------------------------------ MODULE RemoteRead ------------------------------
(***************************************************************************)
(* Reading a credential whose home is another vault                        *)
(* (credentials-module/src/federation/remote_read.rs at the requester,     *)
(* ingress.rs at the home, the remote records, member grants and issue     *)
(* audit of credentials-core/src/store_federation.rs).                     *)
(*                                                                         *)
(* The requester keeps one remote record (no token) in its store and, in   *)
(* memory, a cached token and the fetches in progress, which concurrent    *)
(* reads share.  Reports of dead tokens and refusals of the home overtake  *)
(* fetches that are still out.  The home serves a fetch in steps, between  *)
(* which its own record is refreshed, replaced or created again and the    *)
(* member is granted, revoked or paired anew.  A fetch may get lost at any *)
(* step; the two vaults share nothing but the calls.                       *)
(*                                                                         *)
(* How long a token is good for and how much a reader asks for is chosen   *)
(* where it is compared: a cached token may at any time be too old to use, *)
(* and a fetch in progress too small to join.                              *)
(***************************************************************************)
EXTENDS Integers, FiniteSets

CONSTANTS
    Readers,      \* reads of the remote id
    Reporters,    \* failure reports of the remote id
    None,
    MaxFetch,     \* bound: fetches started
    MaxReport,    \* bound: reports made
    MaxInc,       \* bound: times the remote record is added
    MaxMaterial,  \* bound: materials the home's record has had
    MaxPair       \* bound: pairings

Fetches == 1..MaxFetch
Materials == 1..MaxMaterial
Versions == 1..MaxMaterial

ASSUME BoundsAssumption ==
    /\ MaxFetch \in Nat /\ MaxReport \in Nat /\ MaxInc \in Nat \ {0}
    /\ MaxMaterial \in Nat \ {0} /\ MaxPair \in Nat \ {0}

VARIABLES
    home,       \* the home's record, or None
    lastMat,    \* materials made
    pairing,    \* the pairing of the two vaults
    grant,      \* the pairing the remote_read grant was made under, 0 for none
    issued,     \* remote_issue_seen
    audits,     \* remote_issue rows of the home's chain, per material
    rec,        \* the requester's remote record, or None
    lastInc,    \* incarnations minted for it
    mem,        \* IdState of the remote id, or None
    fetches,    \* flights and what came of them
    readers,
    reporters,
    reports     \* reports made

homeVars == <<home, lastMat, pairing, grant, issued, audits>>
counts == <<lastInc, reports>>
vars == <<homeVars, rec, counts, mem, fetches, readers, reporters>>

Token == [mat : Materials, ver : Versions, recheck : BOOLEAN]
Verdict == 0
Overtakers == Versions \cup {Verdict}  \* the version reported, or a verdict applied
Answers == {"token", "verdict", "failed"}

Home == [mat : Materials, ver : Versions, inc : Materials, stale : BOOLEAN,
         active : BOOLEAN]
Record == [inc : 1..MaxInc, ver : Versions, active : BOOLEAN,
           reported : Versions \cup {0}]
IdState == [inc : 1..MaxInc, gen : Nat, next : Nat, auth : Nat,
            cache : Fetches \cup {0}, flights : SUBSET Fetches, verdicts : Nat,
            own : SUBSET Fetches]
Fetch == [at : {"none", "sent", "paired", "granted", "read", "answered", "done", "lost"},
          inc : 0..MaxInc, seq : Nat, gen : Nat, held : Nat, lacks : 0..MaxPair,
          got : Token \cup {None}, answer : Answers \cup {None},
          after : SUBSET Overtakers]
Reader == [at : {"idle", "checked", "waiting", "served"}, inc : 0..MaxInc,
           f : Fetches \cup {0}, verdicts : Nat, saw : SUBSET Overtakers]
Reporter == [at : {"idle", "resolved", "locked", "forwarded", "paired"},
             inc : 0..MaxInc, ver : Versions \cup {0}, held : 0..MaxPair]
ASSUME NoneAssumption ==
    None \notin Home \cup Record \cup IdState \cup Token \cup Answers

NoFetch == [at |-> "none", inc |-> 0, seq |-> 0, gen |-> 0,
            held |-> 0, lacks |-> 0, got |-> None, answer |-> None, after |-> {}]
IdleReader == [at |-> "idle", inc |-> 0, f |-> 0, verdicts |-> 0, saw |-> {}]
IdleReporter == [at |-> "idle", inc |-> 0, ver |-> 0, held |-> 0]

TypeOK ==
    /\ home \in Home \cup {None}
    /\ lastMat \in 0..MaxMaterial
    /\ pairing \in 1..MaxPair /\ grant \in 0..MaxPair
    /\ issued \subseteq Versions \X Materials
    /\ audits \in [Materials -> Nat]
    /\ rec \in Record \cup {None}
    /\ lastInc \in 0..MaxInc /\ reports \in 0..MaxReport
    /\ mem \in IdState \cup {None}
    /\ fetches \in [Fetches -> Fetch]
    /\ readers \in [Readers -> Reader]
    /\ reporters \in [Reporters -> Reporter]

Init ==
    /\ home = [mat |-> 1, ver |-> 1, inc |-> 1, stale |-> FALSE, active |-> TRUE]
    /\ lastMat = 1 /\ pairing = 1 /\ grant = 1
    /\ issued = {<<1, 1>>} /\ audits = [m \in Materials |-> IF m = 1 THEN 1 ELSE 0]
    /\ rec = [inc |-> 1, ver |-> 1, active |-> TRUE, reported |-> 0] /\ lastInc = 1
    /\ mem = None
    /\ fetches = [f \in Fetches |-> NoFetch]
    /\ readers = [r \in Readers |-> IdleReader]
    /\ reporters = [p \in Reporters |-> IdleReporter] /\ reports = 0

-----------------------------------------------------------------------------
(* The requester: reads.                                                   *)

Current(inc) == rec # None /\ rec.inc = inc  \* check_incarnation

\* state_for: what the lock holder works on, made anew for another incarnation.
StateFor(inc) ==
    IF mem # None /\ mem.inc = inc THEN mem
    ELSE [inc |-> inc, gen |-> 0, next |-> 1, auth |-> 0, cache |-> 0,
          flights |-> {}, verdicts |-> 0, own |-> {}]

\* get up to the lock: the record is resolved and is still the current one.
Check(r) ==
    /\ readers[r].at = "idle" /\ rec # None
    /\ readers' = [readers EXCEPT ![r] = [@ EXCEPT !.at = "checked", !.inc = rec.inc]]
    /\ UNCHANGED <<homeVars, rec, counts, mem, fetches, reporters>>

\* get under the lock: a cached token that is still good, else a fetch of this
\* generation to join, else a new fetch.
Unstarted == {f \in Fetches : fetches[f].at = "none"}
Enter(r) ==
    /\ readers[r].at = "checked"
    /\ LET st == StateFor(readers[r].inc)
           wait(f) == [readers EXCEPT ![r] =
                [@ EXCEPT !.at = "waiting", !.f = f, !.verdicts = st.verdicts,
                          !.saw = fetches[f].after]]
       IN
       /\ \/ /\ st.cache # 0
             /\ mem' = st /\ UNCHANGED fetches
             /\ readers' = [readers EXCEPT ![r] =
                    [@ EXCEPT !.at = "served", !.inc = 0, !.f = st.cache,
                              !.saw = fetches[st.cache].after]]
          \/ \E f \in st.flights :
             /\ fetches[f].gen = st.gen
             /\ mem' = st /\ UNCHANGED fetches
             /\ readers' = wait(f)
          \/ \E f \in Unstarted :
             /\ \A g \in Unstarted : f <= g
             /\ mem' = [st EXCEPT !.next = @ + 1, !.flights = @ \cup {f},
                                !.own = @ \cup {f}]
             /\ fetches' = [fetches EXCEPT ![f] =
                    [@ EXCEPT !.at = "sent", !.inc = st.inc, !.seq = st.next,
                              !.gen = st.gen,
                              !.lacks = IF grant = pairing THEN 0 ELSE pairing]]
             /\ readers' = wait(f)
    /\ UNCHANGED <<homeVars, rec, counts, reporters>>

\* get after the wait: the incarnation again, then a verdict applied meanwhile,
\* then the result.
Deliver(r) ==
    /\ readers[r].at = "waiting"
    /\ LET f == readers[r].f
           given == /\ fetches[f].at = "done" /\ fetches[f].answer = "token"
                    /\ Current(readers[r].inc)
                    /\ mem # None /\ mem.inc = readers[r].inc
                    /\ mem.verdicts <= readers[r].verdicts
       IN readers' = [readers EXCEPT ![r] =
            IF given THEN [@ EXCEPT !.at = "served", !.inc = 0, !.verdicts = 0]
            ELSE IdleReader]
    /\ UNCHANGED <<homeVars, rec, counts, mem, fetches, reporters>>
\* The answer is taken, or the deadline passes.
Leave(r) ==
    /\ readers[r].at \in {"served", "waiting"}
    /\ readers' = [readers EXCEPT ![r] = IdleReader]
    /\ UNCHANGED <<homeVars, rec, counts, mem, fetches, reporters>>

-----------------------------------------------------------------------------
(* The requester: what a fetch that came back does (run_flight, apply).    *)

\* remote_record_apply_success.
AppliedSuccess(got) ==
    [rec EXCEPT !.ver = got.ver, !.active = TRUE,
                !.reported = IF got.recheck /\ got.ver >= rec.ver /\ got.ver <= @
                             THEN @ ELSE 0]
\* remote_record_apply_home_state.
AppliedVerdict == [rec EXCEPT !.active = FALSE, !.reported = 0]

\* Mutant: the generation the fetch was started in is not compared.
AppliesAnyGeneration(f) ==
    fetches[f].answer \in {"token", "verdict"} /\ fetches[f].seq > mem.auth
\* Only an answer about the credential, newer than the last one applied and not
\* overtaken by a report or a verdict.
Applies(f) ==
    /\ fetches[f].answer \in {"token", "verdict"}
    /\ fetches[f].seq > mem.auth /\ fetches[f].gen = mem.gen
Overtaken(by, upto) ==
    [f \in Fetches |-> IF f \in upto
                       THEN [fetches[f] EXCEPT !.after = @ \cup {by}] ELSE fetches[f]]
Started == {f \in Fetches : fetches[f].at # "none"}
SameState(f) == mem # None /\ mem.inc = fetches[f].inc
Retired(m, f) == [m EXCEPT !.flights = {g \in @ : fetches[g].seq # fetches[f].seq}]
\* Of a finished fetch only the answer counts.
Done(fs, f) == [fs EXCEPT ![f] = [@ EXCEPT !.at = "done", !.inc = 0, !.seq = 0, !.gen = 0]]

\* The store refuses the write of a removed or re-added record, or fails: nothing
\* else is applied then.
Finish(f) ==
    /\ fetches[f].at = "answered"
    /\ \/ /\ SameState(f) /\ Applies(f) /\ Current(fetches[f].inc)
          /\ fetches[f].answer = "token"
          /\ rec' = AppliedSuccess(fetches[f].got)
          /\ mem' = Retired([mem EXCEPT !.auth = fetches[f].seq, !.cache = f], f)
          /\ fetches' = Done(fetches, f)
       \/ /\ SameState(f) /\ Applies(f) /\ Current(fetches[f].inc)
          /\ fetches[f].answer = "verdict"
          /\ rec' = AppliedVerdict
          /\ mem' = Retired([mem EXCEPT !.auth = fetches[f].seq, !.cache = 0,
                            !.gen = @ + 1, !.verdicts = @ + 1], f)
          /\ fetches' = Done(Overtaken(Verdict, Started \ {f}), f)
       \/ /\ mem' = IF SameState(f) THEN Retired(mem, f) ELSE mem
          /\ fetches' = Done(fetches, f)
          /\ UNCHANGED rec
    /\ UNCHANGED <<homeVars, counts, readers, reporters>>

-----------------------------------------------------------------------------
(* The requester: reports, and the record itself.                          *)

\* A consumer that was served a version reports it dead.
Resolve(p, r) ==
    /\ reporters[p].at = "idle" /\ rec # None
    /\ readers[r].at = "served" /\ reports < MaxReport
    /\ reports' = reports + 1
    /\ reporters' = [reporters EXCEPT ![p] = [@ EXCEPT !.at = "resolved",
            !.inc = rec.inc, !.ver = fetches[readers[r].f].got.ver]]
    /\ UNCHANGED <<homeVars, rec, lastInc, mem, fetches, readers>>

\* Mutant: the cache is dropped and the fetches in progress stay joinable.
OvertakeCacheOnly(p) ==
    /\ reporters[p].at = "resolved"
    /\ LET st == StateFor(reporters[p].inc)
           drop == st.cache # 0 /\ fetches[st.cache].got.ver = reporters[p].ver
       IN mem' = [st EXCEPT !.cache = IF drop THEN 0 ELSE @]
    /\ fetches' = Overtaken(reporters[p].ver, Started)
    /\ reporters' = [reporters EXCEPT ![p].at = "locked"]
    /\ UNCHANGED <<homeVars, rec, counts, readers>>
\* report under the lock.
Overtake(p) ==
    /\ reporters[p].at = "resolved"
    /\ LET st == StateFor(reporters[p].inc)
           drop == st.cache # 0 /\ fetches[st.cache].got.ver = reporters[p].ver
       IN mem' = [st EXCEPT !.gen = @ + 1, !.cache = IF drop THEN 0 ELSE @]
    /\ fetches' = Overtaken(reporters[p].ver, Started)
    /\ reporters' = [reporters EXCEPT ![p].at = "locked"]
    /\ UNCHANGED <<homeVars, rec, counts, readers>>

\* remote_record_raise_reported_version: only upwards, only this incarnation; then
\* the report is forwarded, or the store failed and it is not.
Raise(p) ==
    /\ reporters[p].at = "locked"
    /\ \/ /\ Current(reporters[p].inc)
          /\ rec' = [rec EXCEPT !.reported =
                IF @ < reporters[p].ver THEN reporters[p].ver ELSE @]
          /\ reporters' = [reporters EXCEPT ![p].at = "forwarded"]
       \/ reporters' = [reporters EXCEPT ![p] = IdleReporter] /\ UNCHANGED rec
    /\ UNCHANGED <<homeVars, counts, mem, fetches, readers>>

\* remote_add_audited with the version some fetch_for_add brought, which was issued
\* and may be out of date by now; remote_remove_audited.
Add ==
    /\ rec = None /\ lastInc < MaxInc
    /\ lastInc' = lastInc + 1
    /\ \E i \in issued :
        rec' = [inc |-> lastInc', ver |-> i[1], active |-> TRUE, reported |-> 0]
    /\ UNCHANGED <<homeVars, reports, mem, fetches, readers, reporters>>
Remove ==
    /\ rec # None /\ rec' = None
    /\ UNCHANGED <<homeVars, counts, mem, fetches, readers, reporters>>

\* The requester's daemon dies; its store stays.
Restart ==
    /\ mem' = None
    /\ fetches' = [f \in Fetches |->
            IF fetches[f].at \in {"none", "done"} THEN fetches[f]
            ELSE [NoFetch EXCEPT !.at = "lost"]]
    /\ readers' = [r \in Readers |-> IdleReader]
    /\ reporters' = [p \in Reporters |-> IdleReporter]
    /\ UNCHANGED <<homeVars, rec, counts>>

-----------------------------------------------------------------------------
(* The home: remote_token and report_auth_failure.                         *)

Reply(f, answer) == [fetches EXCEPT ![f] =
    [@ EXCEPT !.at = "answered", !.held = 0, !.lacks = 0, !.answer = answer]]

\* A lost call or answer, a spent budget, a lookup or a read that could not be made;
\* a member without an announced key (step 9) and a sealed answer that will not open
\* count as verdicts.
Fail(f) ==
    /\ fetches[f].at \in {"sent", "paired", "granted", "read", "answered"}
    /\ \E answer \in {"failed", "verdict"} :
        /\ answer = "verdict" => fetches[f].at = "granted" \/ fetches[f].answer = "token"
        /\ fetches' = [Reply(f, answer) EXCEPT ![f].got = None]
    /\ UNCHANGED <<homeVars, rec, counts, mem, readers, reporters>>

\* Step 2: the current pairing, or the member is not paired (between two pairings).
LookUpPairing(f) ==
    /\ fetches[f].at = "sent"
    /\ \/ fetches' = [fetches EXCEPT ![f] = [@ EXCEPT !.at = "paired", !.held = pairing]]
       \/ fetches' = Reply(f, "verdict")
    /\ UNCHANGED <<homeVars, rec, counts, mem, readers, reporters>>

\* Mutant: a grant made under an earlier pairing counts.
AuthorizeAnyPairing(f) ==
    /\ fetches[f].at = "paired"
    /\ fetches' = IF grant # 0 /\ home # None /\ home.active
                  THEN [fetches EXCEPT ![f] = [@ EXCEPT !.at = "granted", !.held = home.inc]]
                  ELSE Reply(f, "verdict")
    /\ UNCHANGED <<homeVars, rec, counts, mem, readers, reporters>>
\* Steps 7 and 8: the grant of that pairing and the lifetime of the record.
Authorize(f) ==
    /\ fetches[f].at = "paired"
    /\ fetches' = IF grant = fetches[f].held /\ home # None /\ home.active
                  THEN [fetches EXCEPT ![f] = [@ EXCEPT !.at = "granted", !.held = home.inc]]
                  ELSE Reply(f, "verdict")
    /\ UNCHANGED <<homeVars, rec, counts, mem, readers, reporters>>

\* Step 10: get_in_incarnation.  A record is served (a stale one with a time to ask
\* anew), or refreshed, or the refresh finds the credential dead.
Refreshed ==
    [home EXCEPT !.mat = lastMat + 1, !.ver = @ + 1, !.stale = FALSE]
Serve(f, row, recheck) == [fetches EXCEPT ![f] =
    [@ EXCEPT !.at = "read", !.held = 0, !.got = [mat |-> row.mat, ver |-> row.ver, recheck |-> recheck]]]
Read(f) ==
    /\ fetches[f].at = "granted"
    /\ IF home = None \/ home.inc # fetches[f].held \/ ~home.active
       THEN fetches' = Reply(f, "verdict") /\ UNCHANGED <<home, lastMat>>
       ELSE \/ /\ fetches' = Serve(f, home, home.stale)
               /\ UNCHANGED <<home, lastMat>>
            \/ /\ lastMat < MaxMaterial /\ lastMat' = lastMat + 1
               /\ home' = Refreshed
               /\ fetches' = Serve(f, home', FALSE)
            \/ /\ home' = [home EXCEPT !.active = FALSE]
               /\ fetches' = Reply(f, "verdict") /\ UNCHANGED lastMat
    /\ UNCHANGED <<pairing, grant, issued, audits, rec, counts, mem, 
                   readers, reporters>>

\* Mutant: what was issued is remembered by version alone.
IssueByVersion(f) ==
    /\ fetches[f].at = "read"
    /\ LET got == fetches[f].got IN
       IF home # None /\ home.mat = got.mat /\ home.ver = got.ver
       THEN /\ issued' = issued \cup {<<got.ver, got.mat>>}
            /\ audits' = IF \E i \in issued : i[1] = got.ver THEN audits
                         ELSE [audits EXCEPT ![got.mat] = @ + 1]
            /\ fetches' = Reply(f, "token")
       ELSE /\ fetches' = [Reply(f, "failed") EXCEPT ![f].got = None]
            /\ UNCHANGED <<issued, audits>>
    /\ UNCHANGED <<home, lastMat, pairing, grant, rec, counts, mem, 
                   readers, reporters>>
\* record_remote_issue_audited: a row of the chain for what was not issued before.
RecordIssue(ver, mat) ==
    /\ issued' = issued \cup {<<ver, mat>>}
    /\ audits' = IF <<ver, mat>> \in issued THEN audits
                 ELSE [audits EXCEPT ![mat] = @ + 1]
\* Steps 11 and 12: the issue is recorded, then the sealed reply.
Issue(f) ==
    /\ fetches[f].at = "read"
    /\ LET got == fetches[f].got IN
       IF home # None /\ home.mat = got.mat /\ home.ver = got.ver
       THEN /\ RecordIssue(got.ver, got.mat)
            /\ fetches' = Reply(f, "token")
       ELSE /\ fetches' = [Reply(f, "failed") EXCEPT ![f].got = None]
            /\ UNCHANGED <<issued, audits>>
    /\ UNCHANGED <<home, lastMat, pairing, grant, rec, counts, mem, 
                   readers, reporters>>

\* The same steps for the fetch_for_add of an id the requester does not hold: it
\* leaves nothing but the issue.
IssueForAdd ==
    /\ rec = None /\ grant = pairing /\ home # None /\ home.active
    /\ RecordIssue(home.ver, home.mat)
    /\ UNCHANGED <<home, lastMat, pairing, grant, rec, counts, mem, fetches,
                   readers, reporters>>

\* report_auth_failure at the home: the pairing, then the grant of that pairing and
\* mark_stale_in_incarnation of that version; any step may refuse or fail.
LookUpReporter(p) ==
    /\ reporters[p].at = "forwarded"
    /\ reporters' = [reporters EXCEPT ![p] = [@ EXCEPT !.at = "paired", !.held = pairing]]
    /\ UNCHANGED <<homeVars, rec, counts, mem, fetches, readers>>
MarkStale(p) ==
    /\ reporters[p].at = "paired"
    /\ grant = reporters[p].held /\ home # None /\ home.active
    /\ home.ver = reporters[p].ver
    /\ home' = [home EXCEPT !.stale = TRUE]
    /\ reporters' = [reporters EXCEPT ![p] = IdleReporter]
    /\ UNCHANGED <<lastMat, pairing, grant, issued, audits, rec, counts, mem,
                   fetches, readers>>
RefuseReport(p) ==
    /\ reporters[p].at \in {"forwarded", "paired"}
    /\ reporters' = [reporters EXCEPT ![p] = IdleReporter]
    /\ UNCHANGED <<homeVars, rec, counts, mem, fetches, readers>>

\* The operator of the home: a login in place, a removal, a deposit anew.
Relogin ==
    /\ home # None /\ lastMat < MaxMaterial /\ lastMat' = lastMat + 1
    /\ home' = [Refreshed EXCEPT !.active = TRUE]
    /\ UNCHANGED <<pairing, grant, issued, audits, rec, counts, mem, 
                   fetches, readers, reporters>>
RemoveHome ==
    /\ home # None /\ home' = None
    /\ UNCHANGED <<lastMat, pairing, grant, issued, audits, rec, counts, mem,
                   fetches, readers, reporters>>
Recreate ==
    /\ home = None /\ lastMat < MaxMaterial /\ lastMat' = lastMat + 1
    /\ home' = [mat |-> lastMat', ver |-> 1, inc |-> lastMat', stale |-> FALSE,
                active |-> TRUE]
    /\ UNCHANGED <<pairing, grant, issued, audits, rec, counts, mem, 
                   fetches, readers, reporters>>
\* member grant create, under a pairing looked up some time before it commits, and
\* revoke; a new pairing.
Granted(g) == [f \in Fetches |-> IF fetches[f].lacks # 0 /\ g >= fetches[f].lacks
                                 THEN [fetches[f] EXCEPT !.lacks = 0] ELSE fetches[f]]
Grant ==
    /\ grant' \in 1..pairing \ {grant}
    /\ fetches' = Granted(grant')
    /\ UNCHANGED <<home, lastMat, pairing, issued, audits, rec, counts, mem,
                   readers, reporters>>
Revoke ==
    /\ grant # 0 /\ grant' = 0
    /\ UNCHANGED <<home, lastMat, pairing, issued, audits, rec, counts, mem,
                   fetches, readers, reporters>>
RePair ==
    /\ pairing < MaxPair /\ pairing' = pairing + 1
    /\ UNCHANGED <<home, lastMat, grant, issued, audits, rec, counts, mem,
                   fetches, readers, reporters>>

Next ==
    \/ Add \/ IssueForAdd \/ Remove \/ Restart \/ Relogin \/ RemoveHome \/ Recreate
    \/ Grant \/ Revoke \/ RePair
    \/ \E r \in Readers : Check(r) \/ Enter(r) \/ Deliver(r) \/ Leave(r)
    \/ \E f \in Fetches :
        \/ Finish(f) \/ Fail(f) \/ LookUpPairing(f) \/ Authorize(f) \/ Read(f)
        \/ Issue(f)
    \/ \E p \in Reporters :
        \/ Overtake(p) \/ Raise(p) \/ LookUpReporter(p) \/ MarkStale(p)
        \/ RefuseReport(p)
        \/ \E r \in Readers : Resolve(p, r)
Spec == Init /\ [][Next]_vars

-----------------------------------------------------------------------------
\* A fetch belongs to the IdState it was started from, until that is reset.
InState(f) == mem # None /\ f \in mem.own

\* A read that begins after a report or a verdict is not answered by a fetch that
\* began before it: it joins none that was overtaken, and what the cache serves it
\* is not a version reported since that version was fetched.
ReadsAfterReports ==
    \A r \in Readers :
        /\ readers[r].at = "waiting" => readers[r].saw = {}
        /\ readers[r].at = "served" /\ InState(readers[r].f) =>
            /\ Verdict \notin readers[r].saw
            /\ fetches[readers[r].f].got.ver \notin readers[r].saw

\* A fetch that a report or a verdict overtook changes neither the record nor the
\* cache when it comes back.
OvertakenApplyNothing ==
    [][\A f \in Fetches :
        /\ fetches[f].at = "answered" /\ fetches'[f].at = "done"
        /\ fetches[f].after # {} /\ InState(f)
        => rec' = rec /\ mem'.cache = mem.cache /\ mem'.gen = mem.gen]_vars

\* Every token that left the home is in its audit chain under the material it
\* was read from, once, although versions repeat after a re-creation and a fetch
\* is repeated after a lost answer.
IssuedIsAudited ==
    /\ \A f \in Fetches : fetches[f].answer = "token" => audits[fetches[f].got.mat] = 1
    /\ \A m \in Materials : audits[m] <= 1

\* A re-pairing voids the grants made before it, and a revocation the grant: a call
\* made after either is authorized only by a grant of the pairing of that moment or
\* a later one, that was in place while the call was under way; although the pairing
\* is looked up first and the grants are read later.
ServedUnderCurrentGrant ==
    \A f \in Fetches : fetches[f].at \in {"granted", "read"} => fetches[f].lacks = 0
=============================================================================
