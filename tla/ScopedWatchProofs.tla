-------------------------- MODULE ScopedWatchProofs --------------------------
(***************************************************************************)
(* What holds of ScopedWatch for any watches, channels, digests and cap:   *)
(* types, that a running watch can be reached through the registry, that a *)
(* drained watch has been told, and that a terminal frame is the last one. *)
(***************************************************************************)
EXTENDS ScopedWatch, SequenceTheorems, TLAPS

\* A slot holds a watch that was opened on that channel and not told to stop.
EntriesInv ==
    \A ch \in Channels : entry[ch] # None =>
        /\ task[entry[ch]] \notin {"new", "done"} /\ chan[entry[ch]] = ch
        /\ stop[entry[ch]] = "Running"
\* A running watch holds the slot of its channel; one not opened was not stopped.
RunningInv ==
    \A w \in Watches :
        /\ Subscribed(w) =>
            chan[w] \in Channels /\ (stop[w] = "Running" => entry[chan[w]] = w)
        /\ task[w] = "new" => stop[w] = "Running"
\* Only a closed watch is silent, and what is past its end has said so.
ToldInv ==
    \A w \in Watches :
        /\ stop[w] = "Silent" => over[w] # "open"
        /\ task[w] \in {"cleanup", "done"} => Told(w)
\* No terminal frame before the end of the task's loop.
WireInv ==
    \A w \in Watches : task[w] \notin {"cleanup", "done"} =>
        \A i \in DOMAIN wire[w] : wire[w][i].type = "StreamData"
\* What a snapshot saw is what the store has, unless a commit was signalled since.
CurrentInv ==
    ~Faults => \A w \in Watches :
        /\ task[w] = "computed" /\ ~dirty[w] => val[w] \in {view, "NotFound"}
        /\ task[w] = "waiting" /\ ~dirty[w] => last[w] = view
\* finish_all waits for every task it told.
DrainInv == drain = "drained" => \A w \in awaited : task[w] = "done"

IInv == /\ TypeOK /\ EntriesInv /\ RunningInv /\ ToldInv /\ WireInv /\ TerminalIsLast
        /\ CurrentInv /\ DrainInv

-----------------------------------------------------------------------------
(* Frames.                                                                 *)

LEMMA Frames ==
    /\ [type |-> "Response"] \in Frame /\ [type |-> "StreamEnd"] \in Frame
    /\ \A n \in Nat, v \in Views :
        [type |-> "StreamData", seq |-> n, view |-> v] \in Frame
BY DEF Frame, Data

\* One frame more.
LEMMA Appended ==
    ASSUME NEW s \in Seq(Frame), NEW x \in Frame
    PROVE  /\ Append(s, x) \in Seq(Frame) /\ Len(Append(s, x)) = Len(s) + 1
           /\ Len(s) \in Nat /\ DOMAIN s = 1..Len(s)
           /\ DOMAIN Append(s, x) = 1..(Len(s) + 1)
           /\ \A i \in DOMAIN s : Append(s, x)[i] = s[i]
           /\ Append(s, x)[Len(s) + 1] = x
BY AppendProperties, LenProperties

\* The first frame is taken.
LEMMA Tailed ==
    ASSUME NEW s \in Seq(Frame), s # <<>>
    PROVE  /\ Tail(s) \in Seq(Frame) /\ Len(s) \in Nat /\ Len(s) >= 1
           /\ DOMAIN s = 1..Len(s)
           /\ Len(Tail(s)) = Len(s) - 1 /\ DOMAIN Tail(s) = 1..(Len(s) - 1)
           /\ \A i \in DOMAIN Tail(s) : Tail(s)[i] = s[i + 1]
           /\ Head(s) \in Frame /\ Head(s) = s[1]
BY HeadTailProperties, LenProperties, EmptySeq

-----------------------------------------------------------------------------
(* What the steps of one watch keep.                                       *)

Past == {"cleanup", "done"}

\* A task goes on, and the registry stays as it is.
LEMMA SlotsKept ==
    ASSUME IInv, UNCHANGED <<entry, chan, stop>>, NEW w \in Watches, NEW x \in Tasks,
           task' = [task EXCEPT ![w] = x], task[w] \notin {"new", "done"},
           x \notin {"new", "done"}, Subscribed(w) \/ x = "cleanup"
    PROVE  EntriesInv' /\ RunningInv'
<1>1. /\ task'[w] = x /\ \A v \in Watches : v # w => task'[v] = task[v]
      /\ entry \in [Channels -> Watches \cup {None}]
  BY DEF IInv, TypeOK
<1>2. EntriesInv'
  BY <1>1 DEF IInv, EntriesInv
<1>3. RunningInv'
  BY <1>1 DEF IInv, RunningInv, Subscribed
<1> QED
  BY <1>2, <1>3

LEMMA SlotsStay ==
    ASSUME IInv, UNCHANGED <<entry, chan, stop, task>>
    PROVE  EntriesInv' /\ RunningInv'
BY DEF IInv, EntriesInv, RunningInv, Subscribed

\* Nothing is sent and no task passes its end.
LEMMA NothingSent ==
    ASSUME IInv, UNCHANGED <<wire, stop, over>>,
           \A w \in Watches : task'[w] \in Past <=> task[w] \in Past
    PROVE  ToldInv' /\ WireInv' /\ TerminalIsLast'
BY DEF IInv, ToldInv, WireInv, TerminalIsLast, Told, Past

\* A frame is sent: a notice by a task in its loop, a terminal one on the way out.
LEMMA Sent ==
    ASSUME IInv, NEW w \in Watches, NEW x \in Frame,
           wire' = [wire EXCEPT ![w] = Append(@, x)], task[w] \notin Past,
           UNCHANGED <<stop, over>>, \A v \in Watches : v # w => task'[v] = task[v],
           \/ x.type = "StreamData" /\ task'[w] \notin Past
           \/ x.type # "StreamData" /\ task'[w] \in Past
    PROVE  /\ wire' \in [Watches -> Seq(Frame)]
           /\ ToldInv' /\ WireInv' /\ TerminalIsLast'
<1> DEFINE s == wire[w]
<1>1. wire \in [Watches -> Seq(Frame)] /\ s \in Seq(Frame)
  BY DEF IInv, TypeOK
<1>2. /\ wire'[w] = Append(s, x) /\ \A v \in Watches : v # w => wire'[v] = wire[v]
  BY <1>1
<1>3. /\ Append(s, x) \in Seq(Frame) /\ Len(Append(s, x)) = Len(s) + 1
      /\ Len(s) \in Nat /\ DOMAIN s = 1..Len(s)
      /\ DOMAIN Append(s, x) = 1..(Len(s) + 1)
      /\ \A i \in DOMAIN s : Append(s, x)[i] = s[i]
      /\ Append(s, x)[Len(s) + 1] = x
  BY <1>1, Appended
<1>4. \A i \in DOMAIN s : s[i].type = "StreamData"
  BY DEF IInv, WireInv, Past
<1> HIDE DEF s
<1>5. /\ \A i \in DOMAIN wire'[w] : wire'[w][i].type # "StreamData" =>
            i = Len(wire'[w]) /\ x.type # "StreamData"
      /\ x.type # "StreamData" =>
            \E i \in DOMAIN wire'[w] : wire'[w][i].type # "StreamData"
  <2>1. \A i \in 1..(Len(s) + 1) : i \in DOMAIN s \/ i = Len(s) + 1
    BY <1>3
  <2>2. Len(s) + 1 \in 1..(Len(s) + 1)
    BY <1>3
  <2> QED
    BY <1>2, <1>3, <1>4, <2>1, <2>2
<1>6. wire' \in [Watches -> Seq(Frame)]
  BY <1>1, <1>3 DEF s
<1>7. ToldInv'
  BY <1>2, <1>5 DEF IInv, ToldInv, Told, Past
<1>8. WireInv'
  BY <1>2, <1>5 DEF IInv, WireInv, Past
<1>9. TerminalIsLast'
  BY <1>2, <1>5 DEF IInv, TerminalIsLast
<1> QED
  BY <1>6, <1>7, <1>8, <1>9

\* The consumer takes a notice, or a terminal frame after which it is over.
LEMMA Took ==
    ASSUME IInv, NEW w \in Watches, Incoming(w), Taken(w), UNCHANGED <<task, stop>>,
           \/ Head(wire[w]).type = "StreamData" /\ over' = over
           \/ over'[w] # "open" /\ \A v \in Watches : v # w => over'[v] = over[v]
    PROVE  /\ wire' \in [Watches -> Seq(Frame)]
           /\ ToldInv' /\ WireInv' /\ TerminalIsLast'
<1> DEFINE s == wire[w]
<1>1. wire \in [Watches -> Seq(Frame)] /\ s \in Seq(Frame) /\ s # <<>>
  BY DEF IInv, TypeOK, Incoming
<1>2. /\ wire'[w] = Tail(s) /\ \A v \in Watches : v # w => wire'[v] = wire[v]
  BY <1>1 DEF Taken
<1>3. /\ Tail(s) \in Seq(Frame) /\ Len(s) \in Nat /\ Len(s) >= 1
      /\ DOMAIN s = 1..Len(s)
      /\ Len(Tail(s)) = Len(s) - 1 /\ DOMAIN Tail(s) = 1..(Len(s) - 1)
      /\ \A i \in DOMAIN Tail(s) : Tail(s)[i] = s[i + 1]
      /\ Head(s) \in Frame /\ Head(s) = s[1]
  BY <1>1, Tailed
<1>4. /\ \A i \in DOMAIN s : s[i].type # "StreamData" => i = Len(s)
      /\ task[w] \in Past \/ \A i \in DOMAIN s : s[i].type = "StreamData"
      /\ task[w] \in Past =>
            over[w] # "open" \/ \E i \in DOMAIN s : s[i].type # "StreamData"
  BY DEF IInv, TerminalIsLast, WireInv, ToldInv, Told, Past
<1>5. wire' \in [Watches -> Seq(Frame)]
  BY <1>1, <1>3 DEF Taken
<1>h. (Head(wire[w]).type = "StreamData" /\ over' = over) => s[1].type = "StreamData"
  BY <1>3
<1> HIDE DEF s
<1>6. \A i \in DOMAIN wire'[w] :
        /\ i + 1 \in DOMAIN s /\ wire'[w][i] = s[i + 1]
        /\ i + 1 = Len(s) => i = Len(wire'[w])
  BY <1>2, <1>3
<1>7. \A i \in DOMAIN s : i # 1 => i - 1 \in DOMAIN wire'[w] /\ wire'[w][i - 1] = s[i]
  BY <1>2, <1>3
<1>8. TerminalIsLast'
  <2>1. ASSUME NEW i \in DOMAIN wire'[w], wire'[w][i].type # "StreamData"
        PROVE  i = Len(wire'[w])
    <3>1. i + 1 \in DOMAIN s /\ s[i + 1].type # "StreamData"
      BY <1>6, <2>1
    <3>2. i + 1 = Len(s)
      BY <1>4, <3>1
    <3> QED
      BY <1>6, <3>2
  <2>2. \A v \in Watches : v # w =>
          \A i \in DOMAIN wire'[v] : wire'[v][i].type # "StreamData" => i = Len(wire'[v])
    BY <1>2 DEF IInv, TerminalIsLast
  <2> QED
    BY <2>1, <2>2 DEF TerminalIsLast
<1>9. WireInv'
  <2>1. ASSUME task[w] \notin Past, NEW i \in DOMAIN wire'[w]
        PROVE  wire'[w][i].type = "StreamData"
    <3>1. i + 1 \in DOMAIN s /\ wire'[w][i] = s[i + 1]
      BY <1>6
    <3> QED
      BY <1>4, <2>1, <3>1
  <2>2. \A v \in Watches : v # w /\ task[v] \notin Past =>
          \A i \in DOMAIN wire'[v] : wire'[v][i].type = "StreamData"
    BY <1>2 DEF IInv, WireInv, Past
  <2> QED
    BY <2>1, <2>2 DEF WireInv, Past
<1>10. ToldInv'
  <2>1. task[w] \in Past => Told(w)'
    <3> SUFFICES ASSUME task[w] \in Past, over'[w] = "open" PROVE Told(w)'
      BY DEF Told
    <3>1. over' = over /\ s[1].type = "StreamData"
      BY <1>h
    <3>2. PICK i \in DOMAIN s : s[i].type # "StreamData"
      BY <1>4, <3>1
    <3>3. i - 1 \in DOMAIN wire'[w] /\ wire'[w][i - 1].type # "StreamData"
      BY <1>7, <3>1, <3>2
    <3> QED
      BY <3>3 DEF Told
  <2>2. \A v \in Watches : v # w => (Told(v) => Told(v)')
    BY <1>2 DEF Told
  <2>3. \A v \in Watches : over[v] # "open" => over'[v] # "open"
    OBVIOUS
  <2> QED
    BY <2>1, <2>2, <2>3 DEF IInv, ToldInv, Past
<1> QED
  BY <1>5, <1>8, <1>9, <1>10

-----------------------------------------------------------------------------
(* The store and the hub.                                                  *)

LEMMA CommitStep ==
    ASSUME IInv, Commit
    PROVE  IInv'
<1>1. UNCHANGED <<hub, task, job, val, last, seq, wire, client>>
  BY DEF Commit
<1>2. EntriesInv' /\ RunningInv'
  BY <1>1, SlotsStay DEF hub
<1>3. ToldInv' /\ WireInv' /\ TerminalIsLast'
  BY <1>1, NothingSent DEF hub, client
<1>4. CurrentInv'
  <2>1. \A w \in Watches : task[w] \in {"computed", "waiting"} => dirty'[w]
    BY DEF Commit, Subscribed
  <2> QED
    BY <1>1, <2>1 DEF CurrentInv
<1>5. DrainInv'
  BY <1>1 DEF IInv, DrainInv, hub
<1>6. TypeOK'
  <2>1. view' \in Views /\ revoked' \in BOOLEAN /\ commits' \in 0..MaxCommits
    <3>1. commits' \in 0..MaxCommits
      BY ConstantsAssumption DEF Commit, IInv, TypeOK
    <3>2. view' \in Views
      BY DEF Commit
    <3>3. revoked' \in BOOLEAN
      BY DEF Commit, IInv, TypeOK
    <3> QED
      BY <3>1, <3>2, <3>3
  <2>2. dirty' \in [Watches -> BOOLEAN]
    BY DEF Commit, Subscribed, IInv, TypeOK
  <2>3. past' \subseteq Views
    <3>1. past \subseteq Views /\ view \in Views
      BY DEF IInv, TypeOK
    <3>2. past' = past \/ past' = past \cup {view}
      BY DEF Commit
    <3> QED
      BY <3>1, <3>2
  <2> QED
    BY <1>1, <2>1, <2>2, <2>3 DEF IInv, TypeOK, hub, client
<1> QED
  BY <1>2, <1>3, <1>4, <1>5, <1>6 DEF IInv

LEMMA OpenStep ==
    ASSUME IInv, NEW w \in Watches, NEW ch \in Channels, Open(w, ch)
    PROVE  IInv'
<1>1. /\ task[w] = "new" /\ drain = "no" /\ entry' = [entry EXCEPT ![ch] = w]
      /\ chan' = [chan EXCEPT ![w] = ch] /\ task' = [task EXCEPT ![w] = "snapshot"]
      /\ UNCHANGED <<store, drain, awaited, job, dirty, val, last, seq, wire, client>>
  BY DEF Open
<1>2. /\ entry \in [Channels -> Watches \cup {None}] /\ task \in [Watches -> Tasks]
      /\ chan \in [Watches -> Channels \cup {None}] /\ stop \in [Watches -> Stops]
      /\ w # None
  BY ConstantsAssumption DEF IInv, TypeOK
<1>3. /\ entry'[ch] = w /\ chan'[w] = ch /\ task'[w] = "snapshot"
      /\ \A c \in Channels : c # ch => entry'[c] = entry[c]
      /\ \A v \in Watches : v # w => chan'[v] = chan[v] /\ task'[v] = task[v]
  BY <1>1, <1>2
<1>4. \A c \in Channels : entry[c] # w
  BY <1>1, <1>2 DEF IInv, EntriesInv
<1>5. /\ \A v \in Watches : stop'[v] = IF v = entry[ch] THEN "Replaced" ELSE stop[v]
      /\ stop' \in [Watches -> Stops]
  <2>1. CASE entry[ch] = None
    BY <1>2, <2>1, ConstantsAssumption DEF Open
  <2>2. CASE entry[ch] # None
    BY <1>2, <2>2 DEF Open, Stops
  <2> QED
    BY <2>1, <2>2
<1>6. EntriesInv'
  <2> SUFFICES ASSUME NEW c \in Channels, entry'[c] # None
               PROVE  /\ task'[entry'[c]] \notin {"new", "done"}
                      /\ chan'[entry'[c]] = c /\ stop'[entry'[c]] = "Running"
    BY DEF EntriesInv
  <2>1. CASE c = ch
    <3>1. stop[w] = "Running"
      BY <1>1 DEF IInv, RunningInv
    <3> QED
      BY <1>3, <1>4, <1>5, <2>1, <3>1
  <2>2. CASE c # ch
    BY <1>2, <1>3, <1>4, <1>5, <2>2 DEF IInv, EntriesInv
  <2> QED
    BY <2>1, <2>2
<1>7. RunningInv'
  <2> SUFFICES ASSUME NEW v \in Watches
               PROVE  /\ Subscribed(v)' =>
                           /\ chan'[v] \in Channels
                           /\ stop'[v] = "Running" => entry'[chan'[v]] = v
                      /\ task'[v] = "new" => stop'[v] = "Running"
    BY DEF RunningInv
  <2>1. CASE v = w
    BY <1>3, <2>1
  <2>2. CASE v # w
    <3>1. /\ Subscribed(v) =>
                chan[v] \in Channels /\ (stop[v] = "Running" => entry[chan[v]] = v)
          /\ task[v] = "new" => stop[v] = "Running" /\ v # entry[ch]
      BY <1>2, ConstantsAssumption DEF IInv, RunningInv, EntriesInv
    <3>2. Subscribed(v)' <=> Subscribed(v)
      BY <1>3, <2>2 DEF Subscribed
    <3> QED
      BY <1>3, <1>5, <2>2, <3>1, <3>2
  <2> QED
    BY <2>1, <2>2
<1>8. ToldInv' /\ WireInv' /\ TerminalIsLast'
  <2>1. \A v \in Watches : task'[v] \in Past <=> task[v] \in Past
    BY <1>1, <1>3 DEF Past
  <2>2. UNCHANGED <<wire, over>> /\ \A v \in Watches : stop'[v] = "Silent" => stop[v] = "Silent"
    BY <1>1, <1>5 DEF client
  <2> QED
    BY <2>1, <2>2 DEF IInv, ToldInv, WireInv, TerminalIsLast, Told, Past
<1>9. CurrentInv'
  BY <1>1, <1>3 DEF IInv, CurrentInv, store
<1>10. DrainInv'
  BY <1>1 DEF DrainInv
<1>11. TypeOK'
  <2>1. entry' \in [Channels -> Watches \cup {None}] /\ task' \in [Watches -> Tasks]
        /\ chan' \in [Watches -> Channels \cup {None}]
    BY <1>1, <1>2 DEF Tasks
  <2> QED
    BY <1>1, <1>5, <2>1 DEF IInv, TypeOK, store, client
<1> QED
  BY <1>6, <1>7, <1>8, <1>9, <1>10, <1>11 DEF IInv

LEMMA OpenRefusedStep ==
    ASSUME IInv, NEW w \in Watches, NEW ch \in Channels, OpenRefused(w, ch)
    PROVE  IInv'
<1> DEFINE x == [type |-> "Response"]
<1>1. /\ task[w] = "new" /\ task' = [task EXCEPT ![w] = "done"]
      /\ wire' = [wire EXCEPT ![w] = <<x>>]
      /\ UNCHANGED <<store, hub, job, dirty, val, last, seq, client>>
  BY DEF OpenRefused
<1>2. x \in Frame /\ x.type # "StreamData"
  BY Frames
<1> HIDE DEF x
<1>3. /\ task'[w] = "done" /\ \A v \in Watches : v # w => task'[v] = task[v]
      /\ task' \in [Watches -> Tasks] /\ entry \in [Channels -> Watches \cup {None}]
  BY <1>1 DEF IInv, TypeOK, Tasks
<1>4. /\ wire'[w] = <<x>> /\ \A v \in Watches : v # w => wire'[v] = wire[v]
      /\ wire' \in [Watches -> Seq(Frame)]
  BY <1>1, <1>2 DEF IInv, TypeOK
<1>5. DOMAIN wire'[w] = {1} /\ wire'[w][1] = x /\ Len(wire'[w]) = 1
  BY <1>4
<1>6. EntriesInv' /\ RunningInv'
  <2>1. EntriesInv'
    BY <1>1, <1>3 DEF IInv, EntriesInv, hub
  <2>2. RunningInv'
    BY <1>1, <1>3 DEF IInv, RunningInv, Subscribed, hub
  <2> QED
    BY <2>1, <2>2
<1>7. ToldInv' /\ WireInv' /\ TerminalIsLast'
  <2>1. Told(w)'
    BY <1>2, <1>5 DEF Told
  <2>2. ToldInv'
    BY <1>1, <1>3, <1>4, <2>1 DEF IInv, ToldInv, Told, hub, client
  <2>3. WireInv'
    <3>1. \A v \in Watches : task'[v] \notin {"cleanup", "done"} =>
             task'[v] = task[v] /\ wire'[v] = wire[v]
      BY <1>3, <1>4
    <3> QED
      BY <3>1 DEF IInv, WireInv
  <2>4. TerminalIsLast'
    <3>1. \A i \in DOMAIN wire'[w] : i = Len(wire'[w])
      BY <1>5
    <3> QED
      BY <1>4, <3>1 DEF IInv, TerminalIsLast
  <2> QED
    BY <2>2, <2>3, <2>4
<1>8. CurrentInv' /\ DrainInv'
  BY <1>1, <1>3 DEF IInv, CurrentInv, DrainInv, TypeOK, store, hub
<1>9. TypeOK'
  BY <1>1, <1>3, <1>4 DEF IInv, TypeOK, store, hub, client
<1> QED
  BY <1>6, <1>7, <1>8, <1>9 DEF IInv

LEMMA CloseStep ==
    ASSUME IInv, NEW ch \in Channels, Close(ch)
    PROVE  IInv'
<1> DEFINE w == entry[ch]
<1>1. /\ w # None /\ stop' = [stop EXCEPT ![w] = "Silent"]
      /\ entry' = [entry EXCEPT ![ch] = None] /\ over' = [over EXCEPT ![w] = "stopped"]
      /\ UNCHANGED <<store, drain, awaited, chan, worker, wire, got, known, due>>
  BY DEF Close
<1>2. /\ w \in Watches /\ entry \in [Channels -> Watches \cup {None}] /\ entry[ch] = w
      /\ chan[w] = ch /\ task[w] # "new"
  BY <1>1 DEF IInv, TypeOK, EntriesInv
<1> HIDE DEF w
<1>3. /\ stop'[w] = "Silent" /\ over'[w] = "stopped" /\ entry'[ch] = None
      /\ \A v \in Watches : v # w => stop'[v] = stop[v] /\ over'[v] = over[v]
      /\ \A c \in Channels : c # ch => entry'[c] = entry[c]
      /\ stop' \in [Watches -> Stops] /\ entry' \in [Channels -> Watches \cup {None}]
      /\ over' \in [Watches -> {"open", "ended", "refused", "stopped"}]
  BY <1>1, <1>2 DEF IInv, TypeOK, Stops
<1>4. EntriesInv'
  <2>1. \A c \in Channels : c # ch /\ entry[c] # None => entry[c] # w /\ entry[c] \in Watches
    BY <1>2 DEF IInv, EntriesInv
  <2> QED
    BY <1>1, <1>3, <2>1 DEF IInv, EntriesInv, worker
<1>5. RunningInv'
  <2>1. \A v \in Watches : v # w /\ Subscribed(v) /\ stop[v] = "Running" => chan[v] # ch
    BY <1>2 DEF IInv, RunningInv
  <2> QED
    BY <1>1, <1>2, <1>3, <2>1 DEF IInv, RunningInv, Subscribed, worker
<1>6. ToldInv' /\ WireInv' /\ TerminalIsLast'
  <2>1. ToldInv'
    BY <1>1, <1>3 DEF IInv, ToldInv, Told, worker
  <2>2. WireInv' /\ TerminalIsLast'
    BY <1>1 DEF IInv, WireInv, TerminalIsLast, worker
  <2> QED
    BY <2>1, <2>2
<1>7. CurrentInv' /\ DrainInv'
  BY <1>1 DEF IInv, CurrentInv, DrainInv, store, worker
<1>8. TypeOK'
  BY <1>1, <1>3 DEF IInv, TypeOK, store, worker
<1> QED
  BY <1>4, <1>5, <1>6, <1>7, <1>8 DEF IInv

LEMMA FinishAllStep ==
    ASSUME IInv, FinishAll
    PROVE  IInv'
<1>1. /\ drain' = "draining" /\ awaited' = {w \in Watches : \E ch \in Channels : entry[ch] = w}
      /\ stop' = [w \in Watches |-> IF w \in awaited' THEN "Finished" ELSE stop[w]]
      /\ entry' = [ch \in Channels |-> None]
      /\ UNCHANGED <<store, chan, worker, wire, client>>
  BY DEF FinishAll
<1>2. EntriesInv'
  BY <1>1 DEF EntriesInv
<1>3. RunningInv'
  <2>1. \A w \in Watches : Subscribed(w) /\ stop[w] = "Running" => w \in awaited'
    BY <1>1 DEF IInv, RunningInv
  <2>2. \A w \in Watches : task[w] = "new" => w \notin awaited'
    BY <1>1, ConstantsAssumption DEF IInv, EntriesInv
  <2> QED
    BY <1>1, <2>1, <2>2 DEF IInv, RunningInv, Subscribed, worker
<1>4. ToldInv' /\ WireInv' /\ TerminalIsLast'
  <2>1. \A w \in Watches : stop'[w] = "Silent" => stop[w] = "Silent"
    BY <1>1
  <2>2. ToldInv'
    BY <1>1, <2>1 DEF IInv, ToldInv, Told, worker, client
  <2>3. WireInv' /\ TerminalIsLast'
    BY <1>1 DEF IInv, WireInv, TerminalIsLast, worker
  <2> QED
    BY <2>2, <2>3
<1>5. CurrentInv' /\ DrainInv'
  BY <1>1 DEF IInv, CurrentInv, DrainInv, store, worker
<1>6. TypeOK'
  <2>1. stop' \in [Watches -> Stops]
    BY <1>1 DEF IInv, TypeOK, Stops
  <2>2. awaited' \subseteq Watches /\ entry' \in [Channels -> Watches \cup {None}]
    BY <1>1
  <2> QED
    BY <1>1, <2>1, <2>2 DEF IInv, TypeOK, store, worker, client
<1> QED
  BY <1>2, <1>3, <1>4, <1>5, <1>6 DEF IInv

LEMMA FinishedStep ==
    ASSUME IInv, Finished
    PROVE  IInv'
<1>1. /\ drain' = "drained" /\ \A w \in awaited : task[w] = "done"
      /\ UNCHANGED <<store, entry, awaited, chan, stop, worker, wire, client>>
  BY DEF Finished
<1>2. EntriesInv' /\ RunningInv' /\ ToldInv' /\ WireInv' /\ TerminalIsLast'
  BY <1>1, SlotsStay, NothingSent DEF worker, client
<1>3. CurrentInv' /\ DrainInv'
  BY <1>1 DEF IInv, CurrentInv, DrainInv, store, worker
<1>4. TypeOK'
  BY <1>1 DEF IInv, TypeOK, store, worker, client
<1> QED
  BY <1>2, <1>3, <1>4 DEF IInv

-----------------------------------------------------------------------------
(* The task and its job.                                                   *)

\* A task in its loop goes on without sending.
LEMMA TaskGoesOn ==
    ASSUME IInv, NEW w \in Watches, NEW x \in Tasks, task' = [task EXCEPT ![w] = x],
           task[w] \notin {"new", "cleanup", "done"}, x \notin {"new", "cleanup", "done"},
           UNCHANGED <<hub, wire, client>>
    PROVE  /\ EntriesInv' /\ RunningInv' /\ ToldInv' /\ WireInv' /\ TerminalIsLast'
           /\ DrainInv' /\ task' \in [Watches -> Tasks] /\ task'[w] = x
           /\ \A v \in Watches : v # w => task'[v] = task[v]
<1>1. /\ task'[w] = x /\ \A v \in Watches : v # w => task'[v] = task[v]
      /\ task' \in [Watches -> Tasks]
  BY DEF IInv, TypeOK
<1>2. EntriesInv' /\ RunningInv'
  BY SlotsKept DEF hub, Subscribed
<1>3. ToldInv' /\ WireInv' /\ TerminalIsLast'
  BY <1>1, NothingSent DEF hub, client, Past
<1>4. DrainInv'
  BY <1>1 DEF IInv, DrainInv, TypeOK, hub
<1> QED
  BY <1>1, <1>2, <1>3, <1>4

LEMMA BreakStep ==
    ASSUME IInv, NEW w \in Watches, Break(w)
    PROVE  IInv'
<1>1. /\ task' = [task EXCEPT ![w] = "stopping"]
      /\ task[w] \notin {"new", "cleanup", "done"}
      /\ UNCHANGED <<store, hub, job, dirty, val, last, seq, wire, client>>
  BY DEF Break, Goto
<1>2. "stopping" \in Tasks
  BY DEF Tasks
<1>3. /\ EntriesInv' /\ RunningInv' /\ ToldInv' /\ WireInv' /\ TerminalIsLast'
      /\ DrainInv' /\ task' \in [Watches -> Tasks] /\ task'[w] = "stopping"
      /\ \A v \in Watches : v # w => task'[v] = task[v]
  BY <1>1, <1>2, TaskGoesOn
<1>4. CurrentInv'
  BY <1>1, <1>3 DEF IInv, CurrentInv, store
<1>5. TypeOK'
  BY <1>1, <1>3 DEF IInv, TypeOK, store, hub, client
<1> QED
  BY <1>3, <1>4, <1>5 DEF IInv

LEMMA StartJobStep ==
    ASSUME IInv, NEW w \in Watches, StartJob(w)
    PROVE  IInv'
<1>1. /\ job' = [job EXCEPT ![w] = "resolving"]
      /\ UNCHANGED <<store, hub, task, dirty, val, last, seq, wire, client>>
  BY DEF StartJob
<1>2. EntriesInv' /\ RunningInv' /\ ToldInv' /\ WireInv' /\ TerminalIsLast'
  BY <1>1, SlotsStay, NothingSent DEF hub, client
<1>3. CurrentInv' /\ DrainInv'
  BY <1>1 DEF IInv, CurrentInv, DrainInv, store, hub
<1>4. TypeOK'
  BY <1>1 DEF IInv, TypeOK, store, hub, client
<1> QED
  BY <1>2, <1>3, <1>4 DEF IInv

\* The result of a job is what the store has, or tells of a failure.
LEMMA Returned ==
    ASSUME IInv, NEW w \in Watches, NEW result \in Results, JobReturns(w, result),
           result \in {view, "NotFound"} \/ Faults,
           UNCHANGED <<store, hub, dirty, last, seq, wire, client>>
    PROVE  IInv'
<1>1. job' = [job EXCEPT ![w] = "none"]
  BY DEF JobReturns
<1>2. CASE task[w] = "snapshot"
  <2>1. task' = [task EXCEPT ![w] = "computed"] /\ val' = [val EXCEPT ![w] = result]
    BY <1>2 DEF JobReturns, Goto
  <2>2. "computed" \in Tasks
    BY DEF Tasks
  <2>3. /\ EntriesInv' /\ RunningInv' /\ ToldInv' /\ WireInv' /\ TerminalIsLast'
        /\ DrainInv' /\ task' \in [Watches -> Tasks] /\ task'[w] = "computed"
        /\ \A v \in Watches : v # w => task'[v] = task[v]
    BY <1>2, <2>1, <2>2, TaskGoesOn
  <2>4. val'[w] = result /\ \A v \in Watches : v # w => val'[v] = val[v]
    BY <2>1 DEF IInv, TypeOK
  <2>5. CurrentInv'
    BY <2>3, <2>4 DEF IInv, CurrentInv, store
  <2>6. TypeOK'
    BY <1>1, <2>1, <2>3 DEF IInv, TypeOK, store, hub, client
  <2> QED
    BY <2>3, <2>5, <2>6 DEF IInv
<1>3. CASE task[w] # "snapshot"
  <2>1. UNCHANGED <<task, val>>
    BY <1>3 DEF JobReturns
  <2>2. EntriesInv' /\ RunningInv' /\ ToldInv' /\ WireInv' /\ TerminalIsLast'
    BY <2>1, SlotsStay, NothingSent DEF hub, client
  <2>3. CurrentInv' /\ DrainInv'
    BY <2>1 DEF IInv, CurrentInv, DrainInv, store, hub
  <2>4. TypeOK'
    BY <1>1, <2>1 DEF IInv, TypeOK, store, hub, client
  <2> QED
    BY <2>2, <2>3, <2>4 DEF IInv
<1> QED
  BY <1>2, <1>3

LEMMA JobStepKeeps ==
    ASSUME IInv, NEW w \in Watches, JobResolves(w) \/ JobReads(w)
    PROVE  IInv'
<1>1. UNCHANGED <<store, hub, dirty, last, seq, wire, client>>
  BY DEF JobResolves, JobReads
<1>2. CASE job' = [job EXCEPT ![w] = "reading"] /\ UNCHANGED <<task, val>>
  <2>1. EntriesInv' /\ RunningInv' /\ ToldInv' /\ WireInv' /\ TerminalIsLast'
    BY <1>1, <1>2, SlotsStay, NothingSent DEF hub, client
  <2>2. CurrentInv' /\ DrainInv'
    BY <1>1, <1>2 DEF IInv, CurrentInv, DrainInv, store, hub
  <2>3. TypeOK'
    BY <1>1, <1>2 DEF IInv, TypeOK, store, hub, client
  <2> QED
    BY <2>1, <2>2, <2>3 DEF IInv
<1>3. ASSUME NEW result \in Results, JobReturns(w, result),
             result \in {view, "NotFound"} \/ Faults
      PROVE  IInv'
  BY <1>1, <1>3, Returned
<1>4. view \in Results /\ "NotFound" \in Results /\ "StoreError" \in Results
  BY DEF IInv, TypeOK, Results
<1> QED
  BY <1>2, <1>3, <1>4 DEF JobResolves, JobReads

LEMMA PublishStep ==
    ASSUME IInv, NEW w \in Watches, Publish(w)
    PROVE  IInv'
<1>1. /\ task[w] = "computed" /\ val' = [val EXCEPT ![w] = "none"]
      /\ UNCHANGED <<store, hub, job, dirty, client>>
  BY DEF Publish
<1>2. /\ val' \in [Watches -> Results] /\ \A v \in Watches : v # w => val'[v] = val[v]
      /\ task \in [Watches -> Tasks] /\ {"waiting", "cleanup"} \subseteq Tasks
      /\ seq[w] \in Nat /\ last \in [Watches -> Views \cup {None}] /\ view \in Views
      /\ val[w] \in Results
  BY <1>1 DEF IInv, TypeOK, Results, Tasks
<1>3. ~Faults /\ ~dirty[w] => val[w] \in {view, "NotFound"}
  BY <1>1 DEF IInv, CurrentInv
<1>4. \A x \in Views \cup {None} : x # "NotFound" /\ x # "StoreError"
  BY ConstantsAssumption
<1>5. CASE /\ val[w] \in Views /\ val[w] # last[w]
           /\ seq' = [seq EXCEPT ![w] = @ + 1] /\ last' = [last EXCEPT ![w] = val[w]]
           /\ Send(w, [type |-> "StreamData", seq |-> seq[w] + 1, view |-> val[w]])
           /\ Goto(w, "waiting")
  <2> DEFINE x == [type |-> "StreamData", seq |-> seq[w] + 1, view |-> val[w]]
  <2>1. x \in Frame /\ x.type = "StreamData"
    BY <1>2, <1>5, Frames
  <2>2. wire' = [wire EXCEPT ![w] = Append(@, x)] /\ task' = [task EXCEPT ![w] = "waiting"]
    BY <1>5 DEF Send, Goto
  <2> HIDE DEF x
  <2>3. /\ task'[w] = "waiting" /\ \A v \in Watches : v # w => task'[v] = task[v]
        /\ task' \in [Watches -> Tasks]
    BY <1>2, <2>2
  <2>4. wire' \in [Watches -> Seq(Frame)] /\ ToldInv' /\ WireInv' /\ TerminalIsLast'
    BY <1>1, <2>1, <2>2, <2>3, Sent DEF hub, client, Past
  <2>5. EntriesInv' /\ RunningInv'
    BY <1>1, <1>2, <2>2, SlotsKept DEF hub, Subscribed
  <2>6. /\ last'[w] = val[w] /\ \A v \in Watches : v # w => last'[v] = last[v]
        /\ last' \in [Watches -> Views \cup {None}]
    BY <1>2, <1>5
  <2>7. CurrentInv'
    BY <1>1, <1>2, <1>3, <1>4, <1>5, <2>3, <2>6 DEF IInv, CurrentInv, store
  <2>8. DrainInv'
    BY <1>1, <2>3 DEF IInv, DrainInv, TypeOK, hub
  <2>9. TypeOK'
    BY <1>1, <1>2, <1>5, <2>3, <2>4, <2>6 DEF IInv, TypeOK, store, hub, client
  <2> QED
    BY <2>4, <2>5, <2>7, <2>8, <2>9 DEF IInv
<1>6. CASE /\ val[w] = last[w] \/ (val[w] = "StoreError" /\ seq[w] > 0)
           /\ Goto(w, "waiting") /\ UNCHANGED <<seq, last, wire>>
  <2>1. /\ EntriesInv' /\ RunningInv' /\ ToldInv' /\ WireInv' /\ TerminalIsLast'
        /\ DrainInv' /\ task' \in [Watches -> Tasks] /\ task'[w] = "waiting"
        /\ \A v \in Watches : v # w => task'[v] = task[v]
    BY <1>1, <1>2, <1>6, TaskGoesOn DEF Goto
  <2>2. ~Faults /\ ~dirty[w] => last[w] = view
    BY <1>2, <1>3, <1>4, <1>6
  <2>3. CurrentInv'
    BY <1>1, <1>2, <1>6, <2>1, <2>2 DEF IInv, CurrentInv, store
  <2>4. TypeOK'
    BY <1>1, <1>2, <1>6, <2>1 DEF IInv, TypeOK, store, hub, client
  <2> QED
    BY <2>1, <2>3, <2>4 DEF IInv
<1>7. CASE /\ Send(w, [type |-> "Response"]) /\ Goto(w, "cleanup") /\ UNCHANGED <<seq, last>>
  <2> DEFINE x == [type |-> "Response"]
  <2>1. x \in Frame /\ x.type # "StreamData"
    BY Frames
  <2>2. wire' = [wire EXCEPT ![w] = Append(@, x)] /\ task' = [task EXCEPT ![w] = "cleanup"]
    BY <1>7 DEF Send, Goto
  <2> HIDE DEF x
  <2>3. /\ task'[w] = "cleanup" /\ \A v \in Watches : v # w => task'[v] = task[v]
        /\ task' \in [Watches -> Tasks]
    BY <1>2, <2>2
  <2>4. wire' \in [Watches -> Seq(Frame)] /\ ToldInv' /\ WireInv' /\ TerminalIsLast'
    BY <1>1, <2>1, <2>2, <2>3, Sent DEF hub, client, Past
  <2>5. EntriesInv' /\ RunningInv'
    BY <1>1, <1>2, <2>2, SlotsKept DEF hub
  <2>6. CurrentInv'
    BY <1>1, <1>2, <1>7, <2>3 DEF IInv, CurrentInv, store
  <2>7. DrainInv'
    BY <1>1, <2>3 DEF IInv, DrainInv, TypeOK, hub
  <2>8. TypeOK'
    BY <1>1, <1>2, <1>7, <2>3, <2>4 DEF IInv, TypeOK, store, hub, client
  <2> QED
    BY <2>4, <2>5, <2>6, <2>7, <2>8 DEF IInv
<1> QED
  BY <1>5, <1>6, <1>7 DEF Publish

LEMMA WakeStep ==
    ASSUME IInv, NEW w \in Watches, Wake(w) \/ Coalesced(w)
    PROVE  IInv'
<1>1. PICK x \in {"coalescing", "snapshot"} : task' = [task EXCEPT ![w] = x]
  BY DEF Wake, Coalesced, Goto
<1>2. /\ task[w] \in {"waiting", "coalescing"} /\ dirty' = [dirty EXCEPT ![w] = FALSE]
      /\ UNCHANGED <<store, hub, job, val, last, seq, wire, client>>
  BY DEF Wake, Coalesced
<1>3. /\ EntriesInv' /\ RunningInv' /\ ToldInv' /\ WireInv' /\ TerminalIsLast'
      /\ DrainInv' /\ task' \in [Watches -> Tasks] /\ task'[w] = x
      /\ \A v \in Watches : v # w => task'[v] = task[v]
  <2>1. x \in Tasks
    BY DEF Tasks
  <2> QED
    BY <1>1, <1>2, <2>1, TaskGoesOn
<1>4. /\ dirty' \in [Watches -> BOOLEAN] /\ \A v \in Watches : v # w => dirty'[v] = dirty[v]
  BY <1>2 DEF IInv, TypeOK
<1>5. CurrentInv'
  BY <1>2, <1>3, <1>4 DEF IInv, CurrentInv, store
<1>6. TypeOK'
  BY <1>2, <1>3, <1>4 DEF IInv, TypeOK, store, hub, client
<1> QED
  BY <1>3, <1>5, <1>6 DEF IInv

LEMMA EndStreamStep ==
    ASSUME IInv, NEW w \in Watches, EndStream(w)
    PROVE  IInv'
<1>1. /\ task[w] = "stopping" /\ task' = [task EXCEPT ![w] = "cleanup"]
      /\ UNCHANGED <<store, hub, job, dirty, val, last, seq, client>>
  BY DEF EndStream, Goto
<1>2. "cleanup" \in Tasks
  BY DEF Tasks
<1>3. /\ task'[w] = "cleanup" /\ \A v \in Watches : v # w => task'[v] = task[v]
      /\ task' \in [Watches -> Tasks]
  BY <1>1, <1>2 DEF IInv, TypeOK
<1>4. EntriesInv' /\ RunningInv'
  BY <1>1, <1>2, SlotsKept DEF hub
<1>5. wire' \in [Watches -> Seq(Frame)] /\ ToldInv' /\ WireInv' /\ TerminalIsLast'
  <2>1. CASE stop[w] = "Silent"
    <3>1. wire' = wire
      BY <2>1 DEF EndStream
    <3>2. over[w] # "open"
      BY <2>1 DEF IInv, ToldInv
    <3>3. ToldInv'
      BY <1>1, <1>3, <3>1, <3>2 DEF IInv, ToldInv, Told, hub, client
    <3>4. WireInv' /\ TerminalIsLast'
      BY <1>3, <3>1 DEF IInv, WireInv, TerminalIsLast
    <3> QED
      BY <3>1, <3>3, <3>4 DEF IInv, TypeOK
  <2>2. CASE stop[w] # "Silent"
    <3> DEFINE x == [type |-> "StreamEnd"]
    <3>1. x \in Frame /\ x.type # "StreamData"
      BY Frames
    <3>2. wire' = [wire EXCEPT ![w] = Append(@, x)]
      BY <2>2 DEF EndStream, Send
    <3> HIDE DEF x
    <3> QED
      BY <1>1, <1>3, <3>1, <3>2, Sent DEF hub, client, Past
  <2> QED
    BY <2>1, <2>2
<1>6. CurrentInv' /\ DrainInv'
  <2>1. CurrentInv'
    BY <1>1, <1>3 DEF IInv, CurrentInv, store
  <2>2. DrainInv'
    BY <1>1, <1>3 DEF IInv, DrainInv, TypeOK, hub
  <2> QED
    BY <2>1, <2>2
<1>7. TypeOK'
  BY <1>1, <1>3, <1>5 DEF IInv, TypeOK, store, hub, client
<1> QED
  BY <1>4, <1>5, <1>6, <1>7 DEF IInv

LEMMA CleanupStep ==
    ASSUME IInv, NEW w \in Watches, Cleanup(w)
    PROVE  IInv'
<1>1. /\ task[w] = "cleanup" /\ task' = [task EXCEPT ![w] = "done"]
      /\ entry' = [ch \in Channels |-> IF entry[ch] = w THEN None ELSE entry[ch]]
      /\ UNCHANGED <<store, drain, awaited, chan, stop, job, dirty, val, last,
                     seq, wire, client>>
  BY DEF Cleanup, Goto
<1>2. /\ task'[w] = "done" /\ \A v \in Watches : v # w => task'[v] = task[v]
      /\ task' \in [Watches -> Tasks] /\ entry' \in [Channels -> Watches \cup {None}]
      /\ entry \in [Channels -> Watches \cup {None}]
  BY <1>1 DEF IInv, TypeOK, Tasks
<1>3. \A ch \in Channels : entry'[ch] # None => entry'[ch] = entry[ch] /\ entry[ch] # w
  BY <1>1
<1>4. EntriesInv'
  BY <1>1, <1>2, <1>3 DEF IInv, EntriesInv
<1>5. RunningInv'
  <2>1. \A ch \in Channels : entry[ch] # w => entry'[ch] = entry[ch]
    BY <1>1
  <2> QED
    BY <1>1, <1>2, <2>1 DEF IInv, RunningInv, Subscribed
<1>6. ToldInv' /\ WireInv' /\ TerminalIsLast'
  BY <1>1, <1>2, NothingSent DEF client, Past
<1>7. CurrentInv'
  BY <1>1, <1>2 DEF IInv, CurrentInv, store
<1>8. DrainInv'
  BY <1>1, <1>2 DEF IInv, DrainInv
<1>9. TypeOK'
  BY <1>1, <1>2 DEF IInv, TypeOK, store, client
<1> QED
  BY <1>4, <1>5, <1>6, <1>7, <1>8, <1>9 DEF IInv

-----------------------------------------------------------------------------
(* The consumer.                                                           *)

\* A step of the consumer that takes a frame.
LEMMA ConsumerTakes ==
    ASSUME IInv, NEW w \in Watches, Incoming(w), Taken(w),
           \/ Head(wire[w]).type = "StreamData" /\ over' = over
           \/ over'[w] # "open" /\ \A v \in Watches : v # w => over'[v] = over[v],
           over' \in [Watches -> {"open", "ended", "refused", "stopped"}],
           got' \in [Watches -> Nat], due' \in [Watches -> BOOLEAN],
           UNCHANGED <<store, hub, worker, known>>
    PROVE  IInv'
<1>1. UNCHANGED <<task, stop>> /\ UNCHANGED <<entry, chan, stop, task>>
  BY DEF hub, worker
<1>2. wire' \in [Watches -> Seq(Frame)] /\ ToldInv' /\ WireInv' /\ TerminalIsLast'
  BY <1>1, Took
<1>3. EntriesInv' /\ RunningInv'
  BY <1>1, SlotsStay
<1>4. CurrentInv' /\ DrainInv'
  BY DEF IInv, CurrentInv, DrainInv, store, hub, worker
<1>5. TypeOK'
  BY <1>2 DEF IInv, TypeOK, store, hub, worker
<1> QED
  BY <1>2, <1>3, <1>4, <1>5 DEF IInv

LEMMA NoticeStep ==
    ASSUME IInv, NEW w \in Watches, Notice(w)
    PROVE  IInv'
<1>1. /\ Incoming(w) /\ Taken(w) /\ Head(wire[w]).type = "StreamData"
      /\ UNCHANGED <<store, hub, worker, known, over>>
      /\ got' = [got EXCEPT ![w] = Head(wire[w]).seq]
  BY DEF Notice
<1>2. Head(wire[w]).seq \in Nat
  <2>1. Head(wire[w]) \in Frame
    BY <1>1, Tailed DEF Incoming, IInv, TypeOK
  <2> QED
    BY <1>1, <2>1 DEF Frame, Data
<1>3. got' \in [Watches -> Nat] /\ due' \in [Watches -> BOOLEAN]
      /\ over' \in [Watches -> {"open", "ended", "refused", "stopped"}]
  <2>1. got' \in [Watches -> Nat]
    BY <1>1, <1>2 DEF IInv, TypeOK
  <2>2. due' \in [Watches -> BOOLEAN]
    BY DEF Notice, IInv, TypeOK
  <2> QED
    BY <1>1, <2>1, <2>2 DEF IInv, TypeOK
<1> QED
  BY <1>1, <1>3, ConsumerTakes

LEMMA EndedStep ==
    ASSUME IInv, NEW w \in Watches, Ended(w)
    PROVE  IInv'
<1> DEFINE x == IF Head(wire[w]).type = "Response" THEN "refused" ELSE "ended"
<1>1. /\ Incoming(w) /\ Taken(w) /\ over' = [over EXCEPT ![w] = x]
      /\ UNCHANGED <<store, hub, worker, got, known, due>>
  BY DEF Ended
<1>2. x \in {"ended", "refused"}
  OBVIOUS
<1> HIDE DEF x
<1>3. /\ over'[w] # "open" /\ \A v \in Watches : v # w => over'[v] = over[v]
      /\ over' \in [Watches -> {"open", "ended", "refused", "stopped"}]
      /\ got' \in [Watches -> Nat] /\ due' \in [Watches -> BOOLEAN]
  BY <1>1, <1>2 DEF IInv, TypeOK
<1> QED
  BY <1>1, <1>3, ConsumerTakes

LEMMA ShedStep ==
    ASSUME IInv, NEW w \in Watches, Shed(w)
    PROVE  IInv'
<1>1. /\ Incoming(w) /\ Taken(w) /\ Head(wire[w]).type = "StreamData"
      /\ UNCHANGED <<store, hub, worker, client>>
  BY DEF Shed
<1> QED
  BY <1>1, ConsumerTakes DEF client, IInv, TypeOK

LEMMA RereadStep ==
    ASSUME IInv, NEW w \in Watches, Reread(w)
    PROVE  IInv'
<1>1. UNCHANGED <<store, hub, worker, wire, got>> /\ due' = [due EXCEPT ![w] = FALSE]
  BY DEF Reread
<1>2. /\ \A v \in Watches : over[v] # "open" => over'[v] # "open"
      /\ over' \in [Watches -> {"open", "ended", "refused", "stopped"}]
      /\ known' \in [Watches -> Views \cup {None}]
  <2> DEFINE Ends == {"open", "ended", "refused", "stopped"}
  <2>0. /\ over \in [Watches -> Ends] /\ known \in [Watches -> Views \cup {None}]
        /\ view \in Views
    BY DEF IInv, TypeOK
  <2>1. CASE revoked
    <3>1. over' = [over EXCEPT ![w] = "refused"] /\ known' = known
      BY <2>1 DEF Reread
    <3> QED
      BY <2>0, <3>1
  <2>2. CASE ~revoked
    <3>1. over' = over /\ known' = [known EXCEPT ![w] = view]
      BY <2>2 DEF Reread
    <3> QED
      BY <2>0, <3>1
  <2> QED
    BY <2>1, <2>2
<1>3. EntriesInv' /\ RunningInv'
  BY <1>1, SlotsStay DEF hub, worker
<1>4. ToldInv' /\ WireInv' /\ TerminalIsLast'
  <2>1. ToldInv'
    BY <1>1, <1>2 DEF IInv, ToldInv, Told, hub, worker
  <2>2. WireInv' /\ TerminalIsLast'
    BY <1>1 DEF IInv, WireInv, TerminalIsLast, worker
  <2> QED
    BY <2>1, <2>2
<1>5. CurrentInv' /\ DrainInv'
  BY <1>1 DEF IInv, CurrentInv, DrainInv, store, hub, worker
<1>6. TypeOK'
  BY <1>1, <1>2 DEF IInv, TypeOK, store, hub, worker
<1> QED
  BY <1>3, <1>4, <1>5, <1>6 DEF IInv

-----------------------------------------------------------------------------
(* The induction, and what follows.                                        *)

LEMMA InitInv ==
    ASSUME Init
    PROVE  IInv
<1>1. TypeOK
  <2>1. wire \in [Watches -> Seq(Frame)]
    BY EmptySeq DEF Init
  <2>2. 0 \in 0..MaxCommits
    BY ConstantsAssumption
  <2> QED
    BY <2>1, <2>2 DEF Init, TypeOK, Stops, Tasks, Results
<1>2. EntriesInv /\ RunningInv /\ CurrentInv /\ DrainInv
  BY DEF Init, EntriesInv, RunningInv, CurrentInv, DrainInv, Subscribed
<1>3. ToldInv /\ WireInv /\ TerminalIsLast
  <2>1. \A w \in Watches : wire[w] = <<>> /\ DOMAIN wire[w] = {}
    BY DEF Init
  <2> QED
    BY <2>1 DEF Init, ToldInv, WireInv, TerminalIsLast
<1> QED
  BY <1>1, <1>2, <1>3 DEF IInv

LEMMA Steps ==
    ASSUME IInv, Next
    PROVE  IInv'
<1>1. CASE Commit \/ FinishAll \/ Finished
  BY <1>1, CommitStep, FinishAllStep, FinishedStep
<1>2. ASSUME NEW w \in Watches, NEW ch \in Channels, Open(w, ch) \/ OpenRefused(w, ch)
      PROVE  IInv'
  BY <1>2, OpenStep, OpenRefusedStep
<1>3. ASSUME NEW ch \in Channels, Close(ch)
      PROVE  IInv'
  BY <1>3, CloseStep
<1>4. ASSUME NEW w \in Watches, TaskStep(w)
      PROVE  IInv'
  BY <1>4, BreakStep, StartJobStep, PublishStep, WakeStep, EndStreamStep, CleanupStep
     DEF TaskStep
<1>5. ASSUME NEW w \in Watches, JobStep(w) \/ ClientStep(w) \/ Shed(w)
      PROVE  IInv'
  BY <1>5, JobStepKeeps, NoticeStep, RereadStep, EndedStep, ShedStep
     DEF JobStep, ClientStep
<1> QED
  BY <1>1, <1>2, <1>3, <1>4, <1>5 DEF Next

LEMMA StutterKeeps ==
    ASSUME IInv, UNCHANGED vars
    PROVE  IInv'
<1>1. UNCHANGED <<store, hub, worker, wire, client>>
  BY DEF vars
<1>2. EntriesInv' /\ RunningInv' /\ ToldInv' /\ WireInv' /\ TerminalIsLast'
  BY <1>1, SlotsStay, NothingSent DEF hub, worker, client
<1>3. CurrentInv' /\ DrainInv'
  BY <1>1 DEF IInv, CurrentInv, DrainInv, store, hub, worker
<1>4. TypeOK'
  BY <1>1 DEF IInv, TypeOK, store, hub, worker, client
<1> QED
  BY <1>2, <1>3, <1>4 DEF IInv

\* The conjunction above is an inductive invariant of hub, tasks, jobs and consumers.
THEOREM Inductive == Spec => []IInv
<1>1. Init => IInv
  BY InitInv
<1>2. IInv /\ [Next]_vars => IInv'
  BY Steps, StutterKeeps
<1> QED
  BY <1>1, <1>2, PTL DEF Spec

\* Every variable of hub, tasks, wire and consumers keeps its type.
THEOREM TypeCorrect == Spec => []TypeOK
<1>1. IInv => TypeOK
  BY DEF IInv
<1> QED
  BY <1>1, Inductive, PTL

\* WatchHub::open, close, finish_all and the cleanup of run: a running watch is the
\* registered one of its channel, and a watch that is over holds no slot.
THEOREM RegistryIsRight == Spec => []RunningIsRegistered
<1>1. IInv => RunningIsRegistered
  <2> SUFFICES ASSUME IInv, NEW w \in Watches
               PROVE  /\ Subscribed(w) /\ stop[w] = "Running" => entry[chan[w]] = w
                      /\ task[w] = "done" => \A ch \in Channels : entry[ch] # w
    BY DEF RunningIsRegistered
  <2>1. w # None
    BY ConstantsAssumption
  <2> QED
    BY <2>1 DEF IInv, RunningInv, EntriesInv
<1> QED
  BY <1>1, Inductive, PTL

\* finish_all returns only after every watch it drained has its terminal frame on
\* the way, or is over for its consumer.
THEOREM DrainIsHeard == Spec => []DrainTells
<1>1. IInv => DrainTells
  BY DEF IInv, DrainInv, ToldInv, DrainTells, TypeOK
<1> QED
  BY <1>1, Inductive, PTL

\* Subscription::run sends nothing after a terminal frame, although snapshots
\* outlive the watch that asked for them.
THEOREM TerminalEnds == Spec => []TerminalIsLast
<1>1. IInv => TerminalIsLast
  BY DEF IInv
<1> QED
  BY <1>1, Inductive, PTL

\* writes.changed and borrow_and_update: when no read of the store fails, a task that
\* waits with no commit signalled has published the digest of now.
THEOREM NoCommitIsMissed ==
    ASSUME ~Faults
    PROVE  Spec => []WaitingIsCurrent
<1>1. IInv => WaitingIsCurrent
  BY DEF IInv, CurrentInv, WaitingIsCurrent
<1> QED
  BY <1>1, Inductive, PTL
=============================================================================
