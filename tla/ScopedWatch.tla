----------------------------- MODULE ScopedWatch -----------------------------
(***************************************************************************)
(* Held subscriptions to a caller's scoped inventory, auth.watch_scoped:   *)
(* the hub that keeps one watch per route channel, the task behind each    *)
(* watch that recomputes the inventory digest after commits and publishes  *)
(* it when it changed (credentials-module/src/watch_scoped.rs), the commit *)
(* signal of the store (signal_commit, store.rs), and the consumer that    *)
(* follows the notices with a WatchTracker (claustrum-client/src/watch.rs).*)
(*                                                                         *)
(* Tasks, blocking snapshot jobs, the frame loop and consumers run         *)
(* concurrently.  The snapshot of a watch is two reads of the store: the   *)
(* token's principal first, its rows next.  Notices may be shed on the way *)
(* to the consumer, and reads of the store may fail.                       *)
(***************************************************************************)
EXTENDS Naturals, Sequences, FiniteSets

CONSTANTS
    Watches,       \* request correlations, each opened at most once
    Channels,      \* route channels
    Views,         \* inventory digests
    Changes,       \* the changes of digest that a commit may bring about
    None,          \* an empty slot, a digest never read
    MaxWatches,    \* MAX_WATCHES: open watches, and snapshot jobs
    Shedding,      \* whether notices may be lost on the way
    Faults,        \* whether reads of the store may fail
    MaxCommits     \* bound of the commits

ASSUME ConstantsAssumption ==
    /\ MaxWatches \in Nat \ {0} /\ MaxCommits \in Nat
    /\ Shedding \in BOOLEAN /\ Faults \in BOOLEAN
    /\ Changes \subseteq Views \X Views
    /\ None \notin Watches \cup Channels \cup Views
    /\ {"NotFound", "StoreError", "none"} \cap (Views \cup {None}) = {}

VARIABLES
    view,       \* the digest a snapshot would compute now
    revoked,    \* whether the watchers' token still resolves
    commits,    \* commits so far
    past,       \* history: the digests the store had before
    entry,      \* Registry::entries: the watch of each channel, or None
    drain,      \* the hub: "no", "draining" (finish_all waits) or "drained"
    awaited,    \* the watches finish_all waits for
    chan,       \* each watch: its channel
    stop,       \* each watch: what its entry's stop sender last said
    task,       \* each watch: where its task is
    job,        \* each watch: its blocking snapshot job, if one is running
    dirty,      \* each watch: a commit was signalled and not yet seen
    val,        \* each watch: what the job returned
    last, seq,  \* each watch: digest published last, notices so far
    wire,       \* each watch: frames on the way to the consumer
    got,        \* each consumer: sequence number seen last, 0 for none
    known,      \* each consumer: digest of the inventory it read last
    due,        \* each consumer: the tracker asks for a re-read
    over        \* each consumer: whether and how the watch ended for it

store == <<view, revoked, commits, past>>
hub == <<entry, drain, awaited, chan, stop>>
worker == <<task, job, dirty, val, last, seq>>
client == <<got, known, due, over>>
vars == <<store, hub, worker, wire, client>>

Stops == {"Running", "Silent", "Replaced", "Finished"}
Tasks == {"new", "snapshot", "computed", "waiting", "coalescing", "stopping",
          "cleanup", "done"}
Results == Views \cup {"NotFound", "StoreError", "none"}
Data == [type : {"StreamData"}, seq : Nat, view : Views]
Frame == Data \cup [type : {"Response", "StreamEnd"}]

Init ==
    /\ view \in Views /\ revoked = FALSE /\ commits = 0 /\ past = {}
    /\ entry = [ch \in Channels |-> None]
    /\ drain = "no" /\ awaited = {}
    /\ chan = [w \in Watches |-> None]
    /\ stop = [w \in Watches |-> "Running"]
    /\ task = [w \in Watches |-> "new"]
    /\ job = [w \in Watches |-> "none"]
    /\ dirty = [w \in Watches |-> FALSE]
    /\ val = [w \in Watches |-> "none"]
    /\ last = [w \in Watches |-> None] /\ seq = [w \in Watches |-> 0]
    /\ wire = [w \in Watches |-> <<>>]
    /\ got = [w \in Watches |-> 0] /\ known = [w \in Watches |-> None]
    /\ due = [w \in Watches |-> FALSE] /\ over = [w \in Watches |-> "open"]

-----------------------------------------------------------------------------
(* The store: every commit signals every subscribed receiver.              *)

Subscribed(w) == task[w] \notin {"new", "cleanup", "done"}

\* A commit changes what the watchers reach (or nothing of it), or revokes
\* their enrollment.
Commit ==
    /\ commits < MaxCommits /\ commits' = commits + 1
    /\ view' \in {v \in Views : <<view, v>> \in Changes}
    /\ past' = IF view' = view THEN past ELSE past \cup {view}
    /\ revoked' \in {revoked, TRUE}
    /\ dirty' = [w \in Watches |-> dirty[w] \/ Subscribed(w)]
    /\ UNCHANGED <<hub, task, job, val, last, seq, wire, client>>

-----------------------------------------------------------------------------
(* The hub, driven by the frame loop.                                      *)

Open(w, ch) ==
    /\ task[w] = "new" /\ drain = "no"
    /\ entry[ch] # None
          \/ Cardinality({c \in Channels : entry[c] # None}) < MaxWatches
    /\ entry' = [entry EXCEPT ![ch] = w]
    /\ chan' = [chan EXCEPT ![w] = ch]
    /\ stop' = IF entry[ch] = None THEN stop
               ELSE [stop EXCEPT ![entry[ch]] = "Replaced"]
    /\ task' = [task EXCEPT ![w] = "snapshot"]
    /\ UNCHANGED <<store, drain, awaited, job, dirty, val, last, seq, wire,
                   client>>

\* Refused at the cap or once draining: the caller gets the same Response as an
\* unauthorized one, and there is no task.  The frame loop takes no request
\* while it waits in finish_all.
OpenRefused(w, ch) ==
    /\ task[w] = "new"
    /\ drain # "draining"
    /\ \/ drain = "drained"
       \/ /\ entry[ch] = None
          /\ Cardinality({c \in Channels : entry[c] # None}) >= MaxWatches
    /\ task' = [task EXCEPT ![w] = "done"]
    /\ wire' = [wire EXCEPT ![w] = <<[type |-> "Response"]>>]
    /\ UNCHANGED <<store, hub, job, dirty, val, last, seq, client>>

\* close: the route is gone or bound anew; cancel: the consumer stops watch w.
Close(ch) ==
    /\ entry[ch] # None
    /\ stop' = [stop EXCEPT ![entry[ch]] = "Silent"]
    /\ entry' = [entry EXCEPT ![ch] = None]
    /\ over' = [over EXCEPT ![entry[ch]] = "stopped"]
    /\ UNCHANGED <<store, drain, awaited, chan, worker, wire, got, known, due>>

\* finish_all: drain the registry, then wait for every drained task.
FinishAll ==
    /\ drain = "no" /\ drain' = "draining"
    /\ awaited' = {w \in Watches : \E ch \in Channels : entry[ch] = w}
    /\ stop' = [w \in Watches |->
                  IF w \in awaited' THEN "Finished" ELSE stop[w]]
    /\ entry' = [ch \in Channels |-> None]
    /\ UNCHANGED <<store, chan, worker, wire, client>>

\* Mutant: finish_all returns once the tasks have been told.
FinishedUnawaited ==
    /\ drain = "draining" /\ drain' = "drained"
    /\ UNCHANGED <<store, entry, awaited, chan, stop, worker, wire, client>>
Finished ==
    /\ drain = "draining" /\ \A w \in awaited : task[w] = "done"
    /\ drain' = "drained"
    /\ UNCHANGED <<store, entry, awaited, chan, stop, worker, wire, client>>

-----------------------------------------------------------------------------
(* The task of one watch: Subscription::run.                               *)

Goto(w, where) == task' = [task EXCEPT ![w] = where]

\* Every await of the loop is in a select that stop wins.
Break(w) ==
    /\ task[w] \in {"snapshot", "computed", "waiting", "coalescing"}
    /\ stop[w] # "Running"
    /\ Goto(w, "stopping")
    /\ UNCHANGED <<store, hub, job, dirty, val, last, seq, wire, client>>

\* The snapshot is submitted once a slot is free.  The job owns its slot and
\* ends by itself, whether or not the task still waits for it.
StartJob(w) ==
    /\ task[w] = "snapshot" /\ stop[w] = "Running" /\ job[w] = "none"
    /\ Cardinality({v \in Watches : job[v] # "none"}) < MaxWatches
    /\ job' = [job EXCEPT ![w] = "resolving"]
    /\ UNCHANGED <<store, hub, task, dirty, val, last, seq, wire, client>>

JobReturns(w, result) ==
    /\ job' = [job EXCEPT ![w] = "none"]
    /\ IF task[w] = "snapshot"
       THEN Goto(w, "computed") /\ val' = [val EXCEPT ![w] = result]
       ELSE UNCHANGED <<task, val>>

\* scoped_principal: a token that does not resolve and a store that fails are
\* the same answer.
JobResolves(w) ==
    /\ job[w] = "resolving"
    /\ \/ ~revoked /\ job' = [job EXCEPT ![w] = "reading"]
          /\ UNCHANGED <<task, val>>
       \/ (revoked \/ Faults) /\ JobReturns(w, "NotFound")
    /\ UNCHANGED <<store, hub, dirty, last, seq, wire, client>>

\* watch_scoped_snapshot.
JobReads(w) ==
    /\ job[w] = "reading"
    /\ \/ JobReturns(w, view)
       \/ Faults /\ JobReturns(w, "StoreError")
    /\ UNCHANGED <<store, hub, dirty, last, seq, wire, client>>

Send(w, frame) == wire' = [wire EXCEPT ![w] = Append(@, frame)]

\* Mutants: a refusal after the first notice is taken for a failure that
\* passes; commits are marked as seen after the snapshot; the task goes on to
\* publish after a refusal.
PublishRetained(w) ==
    /\ task[w] = "computed" /\ stop[w] = "Running"
    /\ IF val[w] \in Views /\ val[w] # last[w]
       THEN /\ seq' = [seq EXCEPT ![w] = @ + 1]
            /\ last' = [last EXCEPT ![w] = val[w]]
            /\ Send(w, [type |-> "StreamData", seq |-> seq[w] + 1,
                        view |-> val[w]])
       ELSE UNCHANGED <<seq, last, wire>>
    /\ val' = [val EXCEPT ![w] = "none"] /\ Goto(w, "waiting")
    /\ UNCHANGED <<store, hub, job, dirty, client>>
PublishMarksSeen(w) ==
    /\ task[w] = "computed" /\ stop[w] = "Running"
    /\ IF val[w] \in Views /\ val[w] # last[w]
       THEN /\ seq' = [seq EXCEPT ![w] = @ + 1]
            /\ last' = [last EXCEPT ![w] = val[w]]
            /\ Send(w, [type |-> "StreamData", seq |-> seq[w] + 1,
                        view |-> val[w]])
       ELSE UNCHANGED <<seq, last, wire>>
    /\ val' = [val EXCEPT ![w] = "none"]
    /\ Goto(w, IF val[w] = "NotFound" THEN "cleanup" ELSE "waiting")
    /\ dirty' = [dirty EXCEPT ![w] = FALSE]
    /\ UNCHANGED <<store, hub, job, client>>
PublishAfterRefusal(w) ==
    /\ task[w] = "computed" /\ stop[w] = "Running"
    /\ IF val[w] \in Views
       THEN /\ seq' = [seq EXCEPT ![w] = @ + 1]
            /\ Send(w, [type |-> "StreamData", seq |-> seq[w] + 1,
                        view |-> val[w]])
       ELSE Send(w, [type |-> "Response"]) /\ UNCHANGED seq
    /\ val' = [val EXCEPT ![w] = "none"] /\ Goto(w, "waiting")
    /\ UNCHANGED <<store, hub, job, dirty, last, client>>

\* A changed digest is published; a refusal ends the watch; any other failure
\* after the first notice waits for the next commit.
Publish(w) ==
    /\ task[w] = "computed" /\ stop[w] = "Running"
    /\ \/ /\ val[w] \in Views /\ val[w] # last[w]
          /\ seq' = [seq EXCEPT ![w] = @ + 1]
          /\ last' = [last EXCEPT ![w] = val[w]]
          /\ Send(w, [type |-> "StreamData", seq |-> seq[w] + 1,
                      view |-> val[w]])
          /\ Goto(w, "waiting")
       \/ /\ val[w] = last[w] \/ (val[w] = "StoreError" /\ seq[w] > 0)
          /\ Goto(w, "waiting") /\ UNCHANGED <<seq, last, wire>>
       \/ /\ val[w] = "NotFound" \/ (val[w] = "StoreError" /\ seq[w] = 0)
          /\ Send(w, [type |-> "Response"])
          /\ Goto(w, "cleanup") /\ UNCHANGED <<seq, last>>
    /\ val' = [val EXCEPT ![w] = "none"]
    /\ UNCHANGED <<store, hub, job, dirty, client>>

\* writes.changed(): a commit since the last look, which it marks as seen.
Wake(w) ==
    /\ task[w] = "waiting" /\ stop[w] = "Running" /\ dirty[w]
    /\ dirty' = [dirty EXCEPT ![w] = FALSE]
    /\ Goto(w, "coalescing")
    /\ UNCHANGED <<store, hub, job, val, last, seq, wire, client>>

\* COALESCE has passed; borrow_and_update, before the next snapshot.
Coalesced(w) ==
    /\ task[w] = "coalescing" /\ stop[w] = "Running"
    /\ dirty' = [dirty EXCEPT ![w] = FALSE]
    /\ Goto(w, "snapshot")
    /\ UNCHANGED <<store, hub, job, val, last, seq, wire, client>>

\* Out of the loop: STREAM_END, unless the route is closed or cancelled.
EndStream(w) ==
    /\ task[w] = "stopping"
    /\ IF stop[w] = "Silent" THEN UNCHANGED wire
       ELSE Send(w, [type |-> "StreamEnd"])
    /\ Goto(w, "cleanup")
    /\ UNCHANGED <<store, hub, job, dirty, val, last, seq, client>>

\* Mutant: the slot of the channel is freed whoever holds it now.
CleanupAny(w) ==
    /\ task[w] = "cleanup" /\ Goto(w, "done")
    /\ entry' = [entry EXCEPT ![chan[w]] = None]
    /\ UNCHANGED <<store, drain, awaited, chan, stop, job, dirty, val, last,
                   seq, wire, client>>

\* The task's slot is freed unless another watch took it, and finish_all hears
\* that the task is done.
Cleanup(w) ==
    /\ task[w] = "cleanup" /\ Goto(w, "done")
    /\ entry' = [ch \in Channels |-> IF entry[ch] = w THEN None ELSE entry[ch]]
    /\ UNCHANGED <<store, drain, awaited, chan, stop, job, dirty, val, last,
                   seq, wire, client>>

-----------------------------------------------------------------------------
(* The consumer, following its WatchTracker.                               *)

Incoming(w) == wire[w] # <<>> /\ over[w] = "open"
Taken(w) == wire' = [wire EXCEPT ![w] = Tail(@)]

\* Mutant: only a gap in the sequence asks for a re-read.
HeedGaps(w) ==
    /\ Incoming(w) /\ Head(wire[w]).type = "StreamData"
    /\ Taken(w)
    /\ due' = [due EXCEPT ![w] = @ \/ Head(wire[w]).seq # got[w] + 1
                                   \/ got[w] = 0]
    /\ got' = [got EXCEPT ![w] = Head(wire[w]).seq]
    /\ UNCHANGED <<store, hub, worker, known, over>>

\* WatchTracker::notice: re-read after a discontinuity, or when the digest is
\* not the one read last.
Notice(w) ==
    /\ Incoming(w) /\ Head(wire[w]).type = "StreamData"
    /\ Taken(w)
    /\ due' = [due EXCEPT ![w] = @ \/ Head(wire[w]).seq # got[w] + 1
                                   \/ got[w] = 0
                                   \/ Head(wire[w]).view # known[w]]
    /\ got' = [got EXCEPT ![w] = Head(wire[w]).seq]
    /\ UNCHANGED <<store, hub, worker, known, over>>

\* list_scoped, then inventory_read.  A refused list ends the watch as well.
Reread(w) ==
    /\ due[w] /\ over[w] = "open"
    /\ IF revoked
       THEN over' = [over EXCEPT ![w] = "refused"] /\ UNCHANGED known
       ELSE known' = [known EXCEPT ![w] = view] /\ UNCHANGED over
    /\ due' = [due EXCEPT ![w] = FALSE]
    /\ UNCHANGED <<store, hub, worker, wire, got>>

\* A terminal frame: closed or refused.
Ended(w) ==
    /\ Incoming(w) /\ Head(wire[w]).type # "StreamData"
    /\ Taken(w)
    /\ over' = [over EXCEPT ![w] = IF Head(wire[w]).type = "Response"
                                   THEN "refused" ELSE "ended"]
    /\ UNCHANGED <<store, hub, worker, got, known, due>>

\* A sheddable notice is lost under load.
Shed(w) ==
    /\ Shedding /\ Incoming(w) /\ Head(wire[w]).type = "StreamData"
    /\ Taken(w)
    /\ UNCHANGED <<store, hub, worker, client>>

-----------------------------------------------------------------------------
TaskStep(w) ==
    \/ Break(w) \/ StartJob(w) \/ Publish(w) \/ Wake(w) \/ Coalesced(w)
    \/ EndStream(w) \/ Cleanup(w)
JobStep(w) == JobResolves(w) \/ JobReads(w)
ClientStep(w) == Notice(w) \/ Reread(w) \/ Ended(w)

Next ==
    \/ Commit
    \/ \E w \in Watches, ch \in Channels : Open(w, ch) \/ OpenRefused(w, ch)
    \/ \E ch \in Channels : Close(ch)
    \/ FinishAll \/ Finished
    \/ \E w \in Watches : TaskStep(w) \/ JobStep(w) \/ ClientStep(w) \/ Shed(w)

Spec == Init /\ [][Next]_vars

\* Tasks are polled, jobs run on the blocking pool until they end, timers fire,
\* and the consumer reads its socket.
Fairness ==
    \A w \in Watches :
       /\ WF_vars(TaskStep(w)) /\ SF_vars(StartJob(w))
       /\ WF_vars(JobStep(w)) /\ WF_vars(Notice(w) \/ Ended(w))
       /\ WF_vars(Reread(w))
FairSpec == Spec /\ Fairness /\ WF_vars(Finished)

-----------------------------------------------------------------------------
(* Properties.                                                             *)

\* Every variable has the type of what it models.
TypeOK ==
    /\ view \in Views /\ revoked \in BOOLEAN /\ commits \in 0..MaxCommits
    /\ past \subseteq Views
    /\ entry \in [Channels -> Watches \cup {None}]
    /\ drain \in {"no", "draining", "drained"} /\ awaited \subseteq Watches
    /\ chan \in [Watches -> Channels \cup {None}]
    /\ stop \in [Watches -> Stops] /\ task \in [Watches -> Tasks]
    /\ job \in [Watches -> {"none", "resolving", "reading"}]
    /\ dirty \in [Watches -> BOOLEAN] /\ val \in [Watches -> Results]
    /\ last \in [Watches -> Views \cup {None}] /\ seq \in [Watches -> Nat]
    /\ wire \in [Watches -> Seq(Frame)]
    /\ got \in [Watches -> Nat] /\ known \in [Watches -> Views \cup {None}]
    /\ due \in [Watches -> BOOLEAN]
    /\ over \in [Watches -> {"open", "ended", "refused", "stopped"}]

\* A watch that is running is the registered one of its channel, so that a
\* cancel, a route close or a drain reaches it, and one that is over has given
\* its slot back: the cleanup of a replaced watch does not unregister its
\* successor, and every way out passes through it (watch_scoped.rs:174).
RunningIsRegistered ==
    \A w \in Watches :
       /\ Subscribed(w) /\ stop[w] = "Running" => entry[chan[w]] = w
       /\ task[w] = "done" => \A ch \in Channels : entry[ch] # w

\* A watch whose consumer has been sent a terminal frame, or asked for none.
Told(w) ==
    \/ over[w] # "open"
    \/ \E i \in DOMAIN wire[w] : wire[w][i].type # "StreamData"

\* When finish_all returns, every watch it drained has its terminal frame on
\* the way (watch_scoped.rs:119: "Wait for its final send").
DrainTells == drain = "drained" => \A w \in awaited : Told(w)

\* A terminal frame is the last frame of its watch: a snapshot still running
\* when the watch is told to stop is not published (watch_scoped.rs:265).
TerminalIsLast ==
    \A w \in Watches : \A i \in DOMAIN wire[w] :
       wire[w][i].type # "StreamData" => i = Len(wire[w])

\* A task that waits for a commit while none is signalled has published the digest
\* of now: no commit falls between the subscription and the first snapshot, between
\* the two reads of a snapshot, or between a snapshot and the next wait
\* (watch_scoped.rs:157).  After a read that failed the task waits with an old one.
WaitingIsCurrent ==
    \A w \in Watches : task[w] = "waiting" /\ ~dirty[w] => last[w] = view

Following(w) ==
    /\ task[w] \notin {"new", "done"} /\ stop[w] = "Running"
    /\ over[w] = "open" /\ ~revoked

\* The notices of an open watch catch up with the store, when none is shed and
\* no read fails: no commit is missed between the subscription and the first
\* snapshot, or between a snapshot and the next wait (watch_scoped.rs:157).
NoticesCatchUp ==
    \A w \in Watches :
       <>[](Following(w) => last[w] = view /\ got[w] = seq[w])

\* A consumer that follows its WatchTracker ends up with the current inventory,
\* unless the digest it ends on is one the store had before.  Then the task may
\* compute what it published last, which is no notice (watch_scoped.rs:281), while
\* the consumer has read the digest in between; it stays with that one until the
\* next notice.
Converges ==
    \A w \in Watches : <>[](Following(w) /\ view \notin past => known[w] = view)

\* Revoking the watcher's enrollment ends its watch.
RevokedEnds ==
    \A w \in Watches :
       revoked /\ task[w] # "new" ~> task[w] = "done"
=============================================================================
