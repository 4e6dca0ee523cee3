-------------------------- MODULE RemoteReadProofs --------------------------
(***************************************************************************)
(* What holds of RemoteRead for any readers, reporters, fetches, lifetimes *)
(* of either record, materials and pairings: types, which grants are       *)
(* honoured, what the audit chain holds of issued tokens, and that reports *)
(* and verdicts overtake the fetches that were out.                        *)
(***************************************************************************)
EXTENDS RemoteRead, TLAPS

Busy == {"sent", "paired", "granted", "read", "answered"}

\* The home's record was made with one of the materials so far.
HomeInv == home # None =>
    home.ver <= lastMat /\ home.mat <= lastMat /\ home.inc <= lastMat
\* A material has one version, and one entry in the chain if it was issued.
IssueInv ==
    /\ \A i \in issued : i[2] <= lastMat
    /\ \A i, j \in issued : i[2] = j[2] => i[1] = j[1]
    /\ home # None => \A i \in issued : i[2] = home.mat => i[1] = home.ver
    /\ \A m \in Materials :
        audits[m] = IF \E i \in issued : i[2] = m THEN 1 ELSE 0
\* A call that has not met a grant of its time has not been authorized.
GrantInv ==
    /\ grant <= pairing
    /\ \A f \in Fetches :
        /\ fetches[f].lacks # 0 =>
            /\ fetches[f].at \in {"sent", "paired"}
            /\ grant < fetches[f].lacks /\ fetches[f].lacks <= pairing
        /\ fetches[f].at = "paired" =>
            fetches[f].lacks <= fetches[f].held /\ fetches[f].held <= pairing
\* What came back was issued.
FetchInv ==
    \A f \in Fetches :
        /\ fetches[f].at = "none" => fetches[f].after = {} /\ fetches[f].answer = None
        /\ fetches[f].at = "read" => fetches[f].got # None
        /\ fetches[f].answer = "token" =>
            /\ fetches[f].at \in {"answered", "done"} /\ fetches[f].got # None
            /\ <<fetches[f].got.ver, fetches[f].got.mat>> \in issued
\* A fetch that was overtaken is of an earlier generation than the state it
\* belongs to, and the cache holds no version reported since.
Good(m, fs) ==
    /\ m.cache # 0 => fs[m.cache].at = "done" /\ fs[m.cache].answer = "token"
    /\ \A f \in m.own :
        /\ fs[f].at # "none"
        /\ fs[f].at \in Busy =>
            /\ fs[f].gen <= m.gen
            /\ fs[f].after # {} => fs[f].gen < m.gen
    /\ \A f \in m.flights :
        f \in m.own /\ fs[f].at \in Busy /\ fs[f].inc = m.inc
    /\ m.cache # 0 /\ m.cache \in m.own =>
        Verdict \notin fs[m.cache].after /\ fs[m.cache].got.ver \notin fs[m.cache].after
MemInv == mem # None => Good(mem, fetches)
ReadersInv ==
    \A r \in Readers :
        /\ readers[r].at = "checked" => readers[r].inc \in 1..MaxInc
        /\ readers[r].at = "waiting" => readers[r].f \in Fetches /\ readers[r].saw = {}
        /\ readers[r].at = "served" =>
            /\ readers[r].f \in Fetches
            /\ fetches[readers[r].f].at = "done" /\ fetches[readers[r].f].answer = "token"
            /\ InState(readers[r].f) =>
                /\ Verdict \notin readers[r].saw
                /\ fetches[readers[r].f].got.ver \notin readers[r].saw
ReportersInv ==
    \A p \in Reporters : reporters[p].at = "resolved" =>
        reporters[p].inc \in 1..MaxInc /\ reporters[p].ver \in Versions

IInv == /\ TypeOK /\ HomeInv /\ IssueInv /\ GrantInv /\ FetchInv /\ MemInv
        /\ ReadersInv /\ ReportersInv

-----------------------------------------------------------------------------
(* Constants and types.                                                    *)

LEMMA Bounds ==
    /\ MaxFetch \in Nat /\ MaxReport \in Nat /\ MaxInc \in Nat /\ MaxInc >= 1
    /\ MaxMaterial \in Nat /\ MaxMaterial >= 1 /\ MaxPair \in Nat /\ MaxPair >= 1
    /\ 1 \in Materials /\ 1 \in Versions /\ 1 \in 1..MaxInc /\ 0 \notin Fetches
    /\ 0 \notin Versions
    /\ \A m \in Materials : m \in Nat /\ m >= 1 /\ m <= MaxMaterial
    /\ Versions = Materials
BY BoundsAssumption DEF Materials, Versions, Fetches

LEMMA NoneApart ==
    /\ None \notin Home /\ None \notin Record /\ None \notin IdState
    /\ None \notin Token /\ None # "token" /\ None # "verdict" /\ None # "failed"
BY NoneAssumption DEF Answers

LEMMA Idles ==
    IdleReader \in Reader /\ IdleReporter \in Reporter /\ NoFetch \in Fetch
<1>1. 0 \in 0..MaxInc /\ 0 \in 0..MaxPair
  BY Bounds
<1> QED
  BY <1>1 DEF IdleReader, IdleReporter, NoFetch, Reader, Reporter, Fetch

LEMMA FetchFacts ==
    ASSUME TypeOK, NEW f \in Fetches
    PROVE  /\ fetches[f] \in Fetch /\ fetches \in [Fetches -> Fetch]
           /\ fetches[f].inc \in 0..MaxInc /\ fetches[f].seq \in Nat
           /\ fetches[f].gen \in Nat /\ fetches[f].held \in Nat
           /\ fetches[f].lacks \in 0..MaxPair
           /\ fetches[f].got \in Token \cup {None}
           /\ fetches[f].after \in SUBSET Overtakers
BY DEF TypeOK, Fetch

LEMMA MemFacts ==
    ASSUME TypeOK, mem # None
    PROVE  /\ mem \in IdState /\ mem.inc \in 1..MaxInc /\ mem.gen \in Nat
           /\ mem.next \in Nat /\ mem.auth \in Nat /\ mem.cache \in Fetches \cup {0}
           /\ mem.flights \subseteq Fetches /\ mem.own \subseteq Fetches
           /\ mem.verdicts \in Nat
BY DEF TypeOK, IdState

\* The home's own state and its chain.
LEMMA HomeStays ==
    ASSUME IInv, UNCHANGED <<home, lastMat, issued, audits>>
    PROVE  HomeInv' /\ IssueInv'
BY DEF IInv, HomeInv, IssueInv

LEMMA FetchesStay ==
    ASSUME IInv, UNCHANGED <<fetches, issued, pairing, grant>>
    PROVE  GrantInv' /\ FetchInv'
BY DEF IInv, GrantInv, FetchInv

LEMMA RequesterStays ==
    ASSUME IInv, UNCHANGED <<fetches, mem, readers, reporters>>
    PROVE  MemInv' /\ ReadersInv' /\ ReportersInv'
BY DEF IInv, MemInv, Good, ReadersInv, ReportersInv, InState

-----------------------------------------------------------------------------
(* A call as the home serves it.                                           *)

\* One call goes on at the home: the requester's state does not see it.
LEMMA CallGoesOn ==
    ASSUME IInv, NEW f \in Fetches, NEW x \in Fetch,
           fetches[f].at \in Busy, x.at \in Busy, x.inc = fetches[f].inc,
           x.gen = fetches[f].gen, x.after = fetches[f].after,
           fetches' = [fetches EXCEPT ![f] = x], UNCHANGED <<mem, readers, reporters>>
    PROVE  fetches' \in [Fetches -> Fetch] /\ MemInv' /\ ReadersInv' /\ ReportersInv'
<1>1. fetches \in [Fetches -> Fetch] /\ fetches[f].at # "done" /\ fetches[f].at # "none"
  BY FetchFacts DEF IInv, Busy
<1>2. /\ fetches'[f] = x /\ \A g \in Fetches : g # f => fetches'[g] = fetches[g]
      /\ fetches' \in [Fetches -> Fetch]
  BY <1>1
<1>3. MemInv'
  <2> SUFFICES ASSUME mem # None PROVE MemInv'
    BY DEF MemInv, Good
  <2>1. mem.cache \in Fetches \cup {0} /\ mem.flights \subseteq Fetches
        /\ mem.own \subseteq Fetches
    BY MemFacts DEF IInv
  <2>2. mem.cache # 0 => mem.cache # f
    BY <1>1 DEF IInv, MemInv, Good
  <2>3. x.at # "none"
    BY DEF Busy
  <2> QED
    BY <1>2, <2>1, <2>2, <2>3 DEF IInv, MemInv, Good
<1>4. ReadersInv'
  BY <1>1, <1>2 DEF IInv, ReadersInv, InState
<1> QED
  BY <1>2, <1>3, <1>4 DEF IInv, ReportersInv

\* A call past its authorization: it has met its grant, and what it brings was issued.
LEMMA CallServed ==
    ASSUME IInv, NEW f \in Fetches, NEW x \in Fetch,
           fetches' = [fetches EXCEPT ![f] = x], issued \subseteq issued',
           UNCHANGED <<pairing, grant>>,
           x.lacks = 0, x.at \in {"granted", "read", "answered"},
           x.at = "read" => x.got # None,
           x.answer = "token" =>
                /\ x.at = "answered" /\ x.got # None
                /\ <<x.got.ver, x.got.mat>> \in issued'
    PROVE  GrantInv' /\ FetchInv'
<1>1. fetches'[f] = x /\ \A g \in Fetches : g # f => fetches'[g] = fetches[g]
  BY FetchFacts DEF IInv
<1>2. GrantInv'
  BY <1>1 DEF IInv, GrantInv
<1>3. FetchInv'
  BY <1>1 DEF IInv, FetchInv
<1> QED
  BY <1>2, <1>3

LEMMA Replied ==
    ASSUME IInv, NEW f \in Fetches, fetches[f].at \in Busy,
           NEW answer \in {"verdict", "failed"}, fetches' = Reply(f, answer),
           UNCHANGED <<pairing, grant, issued, mem, readers, reporters>>
    PROVE  /\ fetches' \in [Fetches -> Fetch]
           /\ GrantInv' /\ FetchInv' /\ MemInv' /\ ReadersInv' /\ ReportersInv'
<1> DEFINE x == [fetches[f] EXCEPT !.at = "answered", !.held = 0, !.lacks = 0,
                                   !.answer = answer]
<1>1. fetches' = [fetches EXCEPT ![f] = x]
  BY DEF Reply
<1>2. /\ x \in Fetch /\ x.at = "answered" /\ x.inc = fetches[f].inc
      /\ x.gen = fetches[f].gen /\ x.after = fetches[f].after
      /\ x.lacks = 0 /\ x.answer = answer
  <2>1. 0 \in 0..MaxPair BY Bounds
  <2>2. fetches[f] \in Fetch BY FetchFacts DEF IInv
  <2> QED BY <2>1, <2>2 DEF Fetch, Answers
<1> HIDE DEF x
<1>3. fetches' \in [Fetches -> Fetch] /\ MemInv' /\ ReadersInv' /\ ReportersInv'
  BY <1>1, <1>2, CallGoesOn DEF Busy
<1>4. GrantInv' /\ FetchInv'
  BY <1>1, <1>2, CallServed
<1> QED
  BY <1>3, <1>4

\* A call that ends with no token at all.
LEMMA Lost ==
    ASSUME IInv, NEW f \in Fetches, fetches[f].at \in Busy,
           NEW answer \in {"verdict", "failed"},
           fetches' = [Reply(f, answer) EXCEPT ![f].got = None],
           UNCHANGED <<homeVars, rec, counts, mem, readers, reporters>>
    PROVE  IInv'
<1> DEFINE x == [fetches[f] EXCEPT !.at = "answered", !.held = 0, !.lacks = 0,
                                   !.answer = answer, !.got = None]
<1>1. fetches' = [fetches EXCEPT ![f] = x]
  BY FetchFacts DEF Reply, IInv
<1>2. /\ x \in Fetch /\ x.at = "answered" /\ x.inc = fetches[f].inc
      /\ x.gen = fetches[f].gen /\ x.after = fetches[f].after
      /\ x.lacks = 0 /\ x.answer = answer
  <2>1. 0 \in 0..MaxPair BY Bounds
  <2>2. fetches[f] \in Fetch BY FetchFacts DEF IInv
  <2> QED BY <2>1, <2>2 DEF Fetch, Answers
<1> HIDE DEF x
<1>3. fetches' \in [Fetches -> Fetch] /\ MemInv' /\ ReadersInv' /\ ReportersInv'
  BY <1>1, <1>2, CallGoesOn DEF Busy
<1>4. GrantInv' /\ FetchInv'
  BY <1>1, <1>2, CallServed DEF homeVars
<1>5. HomeInv' /\ IssueInv'
  BY HomeStays DEF homeVars
<1>6. TypeOK'
  BY <1>3 DEF IInv, TypeOK, homeVars, counts
<1> QED
  BY <1>3, <1>4, <1>5, <1>6 DEF IInv

LEMMA FailStep ==
    ASSUME IInv, NEW f \in Fetches, Fail(f)
    PROVE  IInv'
<1>1. PICK answer \in {"failed", "verdict"} :
        fetches' = [Reply(f, answer) EXCEPT ![f].got = None]
  BY DEF Fail
<1>2. fetches[f].at \in Busy /\ UNCHANGED <<homeVars, rec, counts, mem, readers, reporters>>
  BY DEF Fail, Busy
<1> QED
  BY <1>1, <1>2, Lost

LEMMA LookUpPairingStep ==
    ASSUME IInv, NEW f \in Fetches, LookUpPairing(f)
    PROVE  IInv'
<1>1. fetches[f].at = "sent" /\ UNCHANGED <<homeVars, rec, counts, mem, readers, reporters>>
  BY DEF LookUpPairing
<1>2. HomeInv' /\ IssueInv'
  BY <1>1, HomeStays DEF homeVars
<1>3. fetches' \in [Fetches -> Fetch] /\ GrantInv' /\ FetchInv'
      /\ MemInv' /\ ReadersInv' /\ ReportersInv'
  <2>1. CASE fetches' = Reply(f, "verdict")
    BY <1>1, <2>1, Replied DEF Busy, homeVars
  <2> DEFINE x == [fetches[f] EXCEPT !.at = "paired", !.held = pairing]
  <2>2. CASE fetches' = [fetches EXCEPT ![f] = x]
    <3>1. /\ x \in Fetch /\ x.at = "paired" /\ x.inc = fetches[f].inc
          /\ x.gen = fetches[f].gen /\ x.after = fetches[f].after
          /\ x.lacks = fetches[f].lacks /\ x.answer = fetches[f].answer /\ x.held = pairing
      <4>1. pairing \in Nat BY DEF IInv, TypeOK
      <4> QED BY <4>1, FetchFacts DEF IInv, Fetch
    <3> HIDE DEF x
    <3>2. fetches' \in [Fetches -> Fetch] /\ MemInv' /\ ReadersInv' /\ ReportersInv'
      BY <1>1, <2>2, <3>1, CallGoesOn DEF Busy
    <3>3. FetchInv'
      BY <1>1, <2>2, <3>1, FetchFacts, NoneApart DEF IInv, FetchInv, homeVars
    <3>4. fetches[f].lacks <= pairing
      BY FetchFacts DEF IInv, GrantInv, TypeOK
    <3>5. GrantInv'
      BY <1>1, <2>2, <3>1, <3>4, FetchFacts DEF IInv, GrantInv, TypeOK, homeVars
    <3> QED
      BY <3>2, <3>3, <3>5
  <2> QED
    BY <2>1, <2>2 DEF LookUpPairing
<1>4. TypeOK'
  BY <1>1, <1>3 DEF IInv, TypeOK, homeVars, counts
<1> QED
  BY <1>2, <1>3, <1>4 DEF IInv

LEMMA AuthorizeStep ==
    ASSUME IInv, NEW f \in Fetches, Authorize(f)
    PROVE  IInv'
<1>1. fetches[f].at = "paired" /\ UNCHANGED <<homeVars, rec, counts, mem, readers, reporters>>
  BY DEF Authorize
<1>2. HomeInv' /\ IssueInv'
  BY <1>1, HomeStays DEF homeVars
<1>3. fetches' \in [Fetches -> Fetch] /\ GrantInv' /\ FetchInv'
      /\ MemInv' /\ ReadersInv' /\ ReportersInv'
  <2>1. CASE fetches' = Reply(f, "verdict")
    BY <1>1, <2>1, Replied DEF Busy, homeVars
  <2> DEFINE x == [fetches[f] EXCEPT !.at = "granted", !.held = home.inc]
  <2>2. CASE fetches' = [fetches EXCEPT ![f] = x] /\ grant = fetches[f].held /\ home # None
    <3>1. fetches[f].lacks = 0
      BY <2>2, <1>1, FetchFacts DEF IInv, GrantInv, TypeOK
    <3>2. home.inc \in Nat
      BY <2>2, Bounds DEF IInv, TypeOK, Home
    <3>3. /\ x \in Fetch /\ x.at = "granted" /\ x.inc = fetches[f].inc
          /\ x.gen = fetches[f].gen /\ x.after = fetches[f].after
          /\ x.lacks = fetches[f].lacks /\ x.answer = fetches[f].answer
      BY <3>2, FetchFacts DEF IInv, Fetch
    <3>4. x.answer # "token"
      BY <1>1, <3>3 DEF IInv, FetchInv
    <3> HIDE DEF x
    <3>5. fetches' \in [Fetches -> Fetch] /\ MemInv' /\ ReadersInv' /\ ReportersInv'
      BY <1>1, <2>2, <3>3, CallGoesOn DEF Busy
    <3>6. GrantInv' /\ FetchInv'
      BY <1>1, <2>2, <3>1, <3>3, <3>4, CallServed DEF homeVars
    <3> QED
      BY <3>5, <3>6
  <2> QED
    BY <2>1, <2>2 DEF Authorize
<1>4. TypeOK'
  BY <1>1, <1>3 DEF IInv, TypeOK, homeVars, counts
<1> QED
  BY <1>2, <1>3, <1>4 DEF IInv

\* What a change of the home's record keeps: the material and its version, or
\* nothing of a material that is new.
LEMMA SameMaterial ==
    ASSUME IInv, home # None, UNCHANGED <<lastMat, issued, audits>>,
           NEW h \in Home, home' = h, h.mat = home.mat, h.ver = home.ver, h.inc = home.inc
    PROVE  HomeInv' /\ IssueInv'
BY NoneApart DEF IInv, HomeInv, IssueInv

LEMMA NewMaterial ==
    ASSUME IInv, UNCHANGED <<issued, audits>>, lastMat' = lastMat + 1,
           NEW h \in Home, home' = h, h.mat = lastMat + 1,
           h.ver <= lastMat + 1, h.inc <= lastMat + 1
    PROVE  HomeInv' /\ IssueInv'
<1>1. lastMat \in Nat /\ \A i \in issued : i[2] \in Nat
  BY Bounds DEF IInv, TypeOK
<1>2. HomeInv'
  BY DEF HomeInv
<1>3. \A i \in issued : i[2] <= lastMat' /\ i[2] # h.mat
  BY <1>1 DEF IInv, IssueInv
<1> QED
  BY <1>2, <1>3 DEF IInv, IssueInv

LEMMA HomeTypes ==
    ASSUME IInv, home # None
    PROVE  /\ home \in Home /\ home.mat \in Materials /\ home.ver \in Versions
           /\ home.inc \in Materials /\ home.stale \in BOOLEAN
           /\ home.ver <= lastMat /\ home.inc <= lastMat /\ home.mat <= lastMat
BY DEF IInv, TypeOK, Home, HomeInv

LEMMA RefreshedHome ==
    ASSUME IInv, home # None, lastMat < MaxMaterial
    PROVE  /\ Refreshed \in Home /\ Refreshed.mat = lastMat + 1
           /\ Refreshed.ver <= lastMat + 1 /\ Refreshed.inc <= lastMat + 1
           /\ lastMat + 1 \in 0..MaxMaterial
<1>1. /\ home \in Home /\ home.ver \in Versions /\ home.ver <= lastMat
      /\ home.inc \in Materials /\ home.inc <= lastMat
  BY HomeTypes
<1>2. lastMat \in Nat /\ home.ver \in Nat /\ home.inc \in Nat /\ home.ver >= 1
  BY <1>1, Bounds DEF IInv, TypeOK
<1>3. lastMat + 1 \in Materials /\ home.ver + 1 \in Versions
      /\ home.ver + 1 <= lastMat + 1 /\ home.inc <= lastMat + 1
  BY <1>1, <1>2, Bounds DEF Materials, Versions
<1>4. lastMat + 1 \in 0..MaxMaterial
  BY <1>2, Bounds
<1> QED
  BY <1>1, <1>3, <1>4 DEF Refreshed, Home

LEMMA ReadServes ==
    ASSUME IInv, NEW f \in Fetches, fetches[f].at = "granted",
           NEW h \in Home, NEW recheck \in BOOLEAN, fetches' = Serve(f, h, recheck),
           UNCHANGED <<pairing, grant, issued, mem, readers, reporters>>
    PROVE  /\ fetches' \in [Fetches -> Fetch]
           /\ GrantInv' /\ FetchInv' /\ MemInv' /\ ReadersInv' /\ ReportersInv'
<1> DEFINE tok == [mat |-> h.mat, ver |-> h.ver, recheck |-> recheck]
           x == [fetches[f] EXCEPT !.at = "read", !.held = 0, !.got = tok]
<1>1. fetches' = [fetches EXCEPT ![f] = x]
  BY DEF Serve
<1>2. tok \in Token /\ tok # None
  BY NoneApart DEF Token, Home
<1> HIDE DEF tok
<1>3. /\ x \in Fetch /\ x.at = "read" /\ x.inc = fetches[f].inc
      /\ x.gen = fetches[f].gen /\ x.after = fetches[f].after
      /\ x.lacks = fetches[f].lacks /\ x.answer = fetches[f].answer /\ x.got = tok
  BY <1>2, FetchFacts DEF IInv, Fetch
<1>4. x.lacks = 0 /\ x.answer # "token"
  BY <1>3, FetchFacts DEF IInv, GrantInv, FetchInv
<1> HIDE DEF x
<1>5. fetches' \in [Fetches -> Fetch] /\ MemInv' /\ ReadersInv' /\ ReportersInv'
  BY <1>1, <1>3, CallGoesOn DEF Busy
<1>6. GrantInv' /\ FetchInv'
  BY <1>1, <1>2, <1>3, <1>4, CallServed
<1> QED
  BY <1>5, <1>6

LEMMA ReadStep ==
    ASSUME IInv, NEW f \in Fetches, Read(f)
    PROVE  IInv'
<1>1. fetches[f].at = "granted" /\ UNCHANGED <<pairing, grant, issued, audits, rec, lastInc,
                                               reports, mem, readers, reporters>>
  BY DEF Read, counts
<1> DEFINE Calls == /\ fetches' \in [Fetches -> Fetch]
                    /\ GrantInv' /\ FetchInv' /\ MemInv' /\ ReadersInv' /\ ReportersInv'
           Store == HomeInv' /\ IssueInv' /\ home' \in Home \cup {None}
                    /\ lastMat' \in 0..MaxMaterial
<1>2. CASE fetches' = Reply(f, "verdict") /\ UNCHANGED <<home, lastMat>>
  <2>1. Calls BY <1>1, <1>2, Replied DEF Busy
  <2>2. Store BY <1>1, <1>2, HomeStays DEF IInv, TypeOK
  <2> QED BY <1>1, <2>1, <2>2 DEF IInv, TypeOK
<1>3. CASE home # None /\ fetches' = Serve(f, home, home.stale) /\ UNCHANGED <<home, lastMat>>
  <2>1. Calls BY <1>1, <1>3, HomeTypes, ReadServes
  <2>2. Store BY <1>1, <1>3, HomeStays DEF IInv, TypeOK
  <2> QED BY <1>1, <2>1, <2>2 DEF IInv, TypeOK
<1>4. CASE /\ home # None /\ lastMat < MaxMaterial /\ lastMat' = lastMat + 1
           /\ home' = Refreshed /\ fetches' = Serve(f, home', FALSE)
  <2>1. Calls BY <1>1, <1>4, RefreshedHome, ReadServes
  <2>2. Store BY <1>1, <1>4, RefreshedHome, NewMaterial
  <2> QED BY <1>1, <2>1, <2>2 DEF IInv, TypeOK
<1>5. CASE /\ home # None /\ home' = [home EXCEPT !.active = FALSE]
           /\ fetches' = Reply(f, "verdict") /\ UNCHANGED lastMat
  <2> DEFINE h == [home EXCEPT !.active = FALSE]
  <2>1. Calls BY <1>1, <1>5, Replied DEF Busy
  <2>2. h \in Home /\ h.mat = home.mat /\ h.ver = home.ver /\ h.inc = home.inc
    BY <1>5, HomeTypes DEF Home
  <2>3. Store BY <1>1, <1>5, <2>2, SameMaterial DEF IInv, TypeOK
  <2> QED BY <1>1, <2>1, <2>3 DEF IInv, TypeOK
<1> QED
  BY <1>2, <1>3, <1>4, <1>5 DEF Read

\* What is issued is the home's current material, so it has one version and one row.
LEMMA IssueRecorded ==
    ASSUME IInv, home # None, RecordIssue(home.ver, home.mat), UNCHANGED <<home, lastMat>>
    PROVE  /\ issued' \subseteq Versions \X Materials /\ audits' \in [Materials -> Nat]
           /\ <<home.ver, home.mat>> \in issued' /\ issued \subseteq issued'
           /\ HomeInv' /\ IssueInv'
<1> DEFINE ver == home.ver
           mat == home.mat
<1>1. /\ issued' = issued \cup {<<ver, mat>>}
      /\ audits' = IF <<ver, mat>> \in issued THEN audits ELSE [audits EXCEPT ![mat] = @ + 1]
  BY DEF RecordIssue
<1>2. ver \in Versions /\ mat \in Materials /\ mat <= lastMat
  BY HomeTypes
<1>3. \A i \in issued : i[2] = mat => i[1] = ver
  BY DEF IInv, IssueInv
<1>4. issued' \subseteq Versions \X Materials
  BY <1>1, <1>2 DEF IInv, TypeOK
<1>5. <<ver, mat>>[1] = ver /\ <<ver, mat>>[2] = mat
  OBVIOUS
<1>6. \A i \in issued : i = <<i[1], i[2]>>
  BY DEF IInv, TypeOK
<1>7. HomeInv'
  BY DEF IInv, HomeInv
<1>8. CASE <<ver, mat>> \in issued
  <2>1. issued' = issued /\ audits' = audits BY <1>1, <1>8
  <2> QED BY <2>1, <1>4, <1>8, HomeStays DEF IInv, TypeOK
<1>9. CASE <<ver, mat>> \notin issued
  <2>1. \A i \in issued : i[2] # mat
    BY <1>3, <1>6, <1>9
  <2>2. audits[mat] = 0 /\ audits' = [audits EXCEPT ![mat] = @ + 1]
    BY <1>1, <1>2, <1>9, <2>1 DEF IInv, IssueInv
  <2>3. audits' \in [Materials -> Nat] /\ audits'[mat] = 1
        /\ \A m \in Materials : m # mat => audits'[m] = audits[m]
    BY <1>2, <2>2 DEF IInv, TypeOK
  <2>4. \A m \in Materials : audits'[m] = IF \E i \in issued' : i[2] = m THEN 1 ELSE 0
    <3> SUFFICES ASSUME NEW m \in Materials
                 PROVE  audits'[m] = IF \E i \in issued' : i[2] = m THEN 1 ELSE 0
      OBVIOUS
    <3>1. CASE m = mat
      BY <1>1, <1>5, <2>3, <3>1
    <3>2. CASE m # mat
      <4>1. (\E i \in issued' : i[2] = m) <=> \E i \in issued : i[2] = m
        BY <1>1, <1>5, <3>2
      <4> QED BY <2>3, <3>2, <4>1 DEF IInv, IssueInv
    <3> QED BY <3>1, <3>2
  <2>5. /\ \A i \in issued' : i[2] <= lastMat
        /\ \A i, j \in issued' : i[2] = j[2] => i[1] = j[1]
        /\ \A i \in issued' : i[2] = home.mat => i[1] = home.ver
    BY <1>1, <1>2, <1>3, <1>5 DEF IInv, IssueInv
  <2>6. IssueInv'
    BY <2>4, <2>5 DEF IssueInv
  <2> QED BY <1>1, <1>4, <1>7, <2>3, <2>6
<1> QED
  BY <1>8, <1>9

LEMMA IssueStep ==
    ASSUME IInv, NEW f \in Fetches, Issue(f)
    PROVE  IInv'
<1> DEFINE got == fetches[f].got
<1>1. fetches[f].at = "read" /\ UNCHANGED <<home, lastMat, pairing, grant, rec, lastInc,
                                            reports, mem, readers, reporters>>
  BY DEF Issue, counts
<1>2. got # None /\ got \in Token /\ got.ver \in Versions /\ got.mat \in Materials
  BY <1>1, FetchFacts DEF IInv, FetchInv, Token
<1>3. CASE /\ home # None /\ home.mat = got.mat /\ home.ver = got.ver
           /\ RecordIssue(got.ver, got.mat) /\ fetches' = Reply(f, "token")
  <2> DEFINE x == [fetches[f] EXCEPT !.at = "answered", !.held = 0, !.lacks = 0,
                                     !.answer = "token"]
  <2>1. fetches' = [fetches EXCEPT ![f] = x]
    BY <1>3 DEF Reply
  <2>2. /\ x \in Fetch /\ x.at = "answered" /\ x.inc = fetches[f].inc
        /\ x.gen = fetches[f].gen /\ x.after = fetches[f].after
        /\ x.lacks = 0 /\ x.answer = "token" /\ x.got = got
    <3>1. 0 \in 0..MaxPair BY Bounds
    <3>2. fetches[f] \in Fetch BY FetchFacts DEF IInv
    <3> QED BY <3>1, <3>2 DEF Fetch, Answers
  <2> HIDE DEF x
  <2>3. fetches' \in [Fetches -> Fetch] /\ MemInv' /\ ReadersInv' /\ ReportersInv'
    BY <1>1, <2>1, <2>2, CallGoesOn DEF Busy
  <2>4. RecordIssue(home.ver, home.mat)
    BY <1>3
  <2>5. /\ issued' \subseteq Versions \X Materials /\ audits' \in [Materials -> Nat]
        /\ <<got.ver, got.mat>> \in issued' /\ issued \subseteq issued'
        /\ HomeInv' /\ IssueInv'
    BY <1>1, <1>3, <2>4, IssueRecorded
  <2>6. GrantInv' /\ FetchInv'
    BY <1>1, <1>2, <2>1, <2>2, <2>5, CallServed
  <2> QED
    BY <1>1, <2>3, <2>5, <2>6 DEF IInv, TypeOK
<1>4. CASE /\ fetches' = [Reply(f, "failed") EXCEPT ![f].got = None]
           /\ UNCHANGED <<issued, audits>>
  BY <1>1, <1>4, Lost DEF Busy, homeVars, counts
<1> QED
  BY <1>3, <1>4 DEF Issue

LEMMA IssueForAddStep ==
    ASSUME IInv, IssueForAdd
    PROVE  IInv'
<1>1. /\ home # None /\ RecordIssue(home.ver, home.mat)
      /\ UNCHANGED <<home, lastMat, pairing, grant, rec, counts, mem, fetches, readers,
                     reporters>>
  BY DEF IssueForAdd
<1>2. /\ issued' \subseteq Versions \X Materials /\ audits' \in [Materials -> Nat]
      /\ issued \subseteq issued' /\ HomeInv' /\ IssueInv'
  BY <1>1, IssueRecorded
<1>3. GrantInv' /\ FetchInv'
  BY <1>1, <1>2 DEF IInv, GrantInv, FetchInv
<1>4. MemInv' /\ ReadersInv' /\ ReportersInv'
  BY <1>1, RequesterStays
<1>5. TypeOK'
  BY <1>1, <1>2 DEF IInv, TypeOK, counts
<1> QED
  BY <1>2, <1>3, <1>4, <1>5 DEF IInv

-----------------------------------------------------------------------------
(* The home's operator, its pairings, and reports.                         *)

\* A step of the home that no call in progress sees.
LEMMA HomeOnly ==
    ASSUME IInv, HomeInv', IssueInv', home' \in Home \cup {None},
           lastMat' \in 0..MaxMaterial,
           UNCHANGED <<pairing, grant, issued, audits, rec, counts, mem, fetches, readers>>,
           reporters' \in [Reporters -> Reporter], ReportersInv'
    PROVE  IInv'
<1>1. GrantInv' /\ FetchInv'
  BY FetchesStay
<1>2. MemInv' /\ ReadersInv'
  BY DEF IInv, MemInv, Good, ReadersInv, InState
<1>3. TypeOK'
  BY DEF IInv, TypeOK, counts
<1> QED
  BY <1>1, <1>2, <1>3 DEF IInv

LEMMA OperatorStep ==
    ASSUME IInv, Relogin \/ RemoveHome \/ Recreate
    PROVE  IInv'
<1>1. /\ UNCHANGED <<pairing, grant, issued, audits, rec, counts, mem, fetches, readers>>
      /\ reporters' = reporters
  BY DEF Relogin, RemoveHome, Recreate
<1>2. reporters' \in [Reporters -> Reporter] /\ ReportersInv'
  BY <1>1 DEF IInv, TypeOK, ReportersInv
<1>3. CASE Relogin
  <2> DEFINE h == [Refreshed EXCEPT !.active = TRUE]
  <2>1. home # None /\ lastMat < MaxMaterial /\ lastMat' = lastMat + 1 /\ home' = h
    BY <1>3 DEF Relogin
  <2>2. /\ h \in Home /\ h.mat = lastMat + 1 /\ h.ver <= lastMat + 1
        /\ h.inc <= lastMat + 1 /\ lastMat + 1 \in 0..MaxMaterial
    BY <2>1, RefreshedHome DEF Home
  <2> HIDE DEF h
  <2>3. HomeInv' /\ IssueInv'
    BY <1>1, <2>1, <2>2, NewMaterial
  <2> QED
    BY <1>1, <1>2, <2>1, <2>2, <2>3, HomeOnly
<1>4. CASE RemoveHome
  <2>1. home' = None /\ lastMat' = lastMat
    BY <1>4 DEF RemoveHome
  <2>2. HomeInv' /\ IssueInv'
    BY <1>1, <2>1 DEF IInv, HomeInv, IssueInv
  <2> QED
    BY <1>1, <1>2, <2>1, <2>2, HomeOnly DEF IInv, TypeOK
<1>5. CASE Recreate
  <2> DEFINE h == [mat |-> lastMat + 1, ver |-> 1, inc |-> lastMat + 1, stale |-> FALSE,
                   active |-> TRUE]
  <2>1. lastMat < MaxMaterial /\ lastMat' = lastMat + 1 /\ home' = h
    BY <1>5 DEF Recreate
  <2>2. lastMat \in Nat /\ lastMat + 1 \in Materials /\ 1 \in Versions
        /\ lastMat + 1 \in 0..MaxMaterial /\ 1 <= lastMat + 1
    BY <2>1, Bounds DEF IInv, TypeOK, Materials
  <2>3. /\ h \in Home /\ h.mat = lastMat + 1 /\ h.ver <= lastMat + 1
        /\ h.inc <= lastMat + 1
    BY <2>2 DEF Home
  <2> HIDE DEF h
  <2>4. HomeInv' /\ IssueInv'
    BY <1>1, <2>1, <2>3, NewMaterial
  <2> QED
    BY <1>1, <1>2, <2>1, <2>2, <2>3, <2>4, HomeOnly
<1> QED
  BY <1>3, <1>4, <1>5

LEMMA MarkStaleStep ==
    ASSUME IInv, NEW p \in Reporters, MarkStale(p)
    PROVE  IInv'
<1> DEFINE h == [home EXCEPT !.stale = TRUE]
<1>1. /\ home # None /\ home' = h /\ UNCHANGED <<lastMat, issued, audits>>
      /\ UNCHANGED <<pairing, grant, issued, audits, rec, counts, mem, fetches, readers>>
      /\ reporters' = [reporters EXCEPT ![p] = IdleReporter]
  BY DEF MarkStale
<1>2. h \in Home /\ h.mat = home.mat /\ h.ver = home.ver /\ h.inc = home.inc
  BY <1>1, HomeTypes DEF Home
<1> HIDE DEF h
<1>3. HomeInv' /\ IssueInv'
  BY <1>1, <1>2, SameMaterial
<1>4. reporters' \in [Reporters -> Reporter] /\ ReportersInv'
  BY <1>1, Idles DEF IInv, TypeOK, ReportersInv, IdleReporter
<1> QED
  BY <1>1, <1>2, <1>3, <1>4, HomeOnly DEF IInv, TypeOK

\* A step of a report that changes nothing but the report.
LEMMA ReporterOnly ==
    ASSUME IInv, NEW p \in Reporters, NEW x \in Reporter,
           reporters' = [reporters EXCEPT ![p] = x],
           x.at = "resolved" => x.inc \in 1..MaxInc /\ x.ver \in Versions,
           UNCHANGED <<homeVars, rec, lastInc, mem, fetches, readers>>,
           reports' \in 0..MaxReport
    PROVE  IInv'
<1>1. reporters' \in [Reporters -> Reporter] /\ ReportersInv'
  BY DEF IInv, TypeOK, ReportersInv
<1>2. HomeInv' /\ IssueInv' /\ GrantInv' /\ FetchInv'
  BY HomeStays, FetchesStay DEF homeVars
<1>3. MemInv' /\ ReadersInv'
  BY DEF IInv, MemInv, Good, ReadersInv, InState
<1>4. TypeOK'
  BY <1>1 DEF IInv, TypeOK, homeVars
<1> QED
  BY <1>1, <1>2, <1>3, <1>4 DEF IInv

LEMMA LookUpReporterStep ==
    ASSUME IInv, NEW p \in Reporters, LookUpReporter(p)
    PROVE  IInv'
<1> DEFINE x == [reporters[p] EXCEPT !.at = "paired", !.held = pairing]
<1>1. /\ reporters' = [reporters EXCEPT ![p] = x]
      /\ UNCHANGED <<homeVars, rec, lastInc, mem, fetches, readers>> /\ reports' = reports
  BY DEF LookUpReporter, counts
<1>2. x \in Reporter /\ x.at = "paired"
  <2>1. pairing \in 0..MaxPair BY Bounds DEF IInv, TypeOK
  <2> QED BY <2>1 DEF IInv, TypeOK, Reporter
<1> HIDE DEF x
<1> QED
  BY <1>1, <1>2, ReporterOnly DEF IInv, TypeOK

LEMMA RefuseReportStep ==
    ASSUME IInv, NEW p \in Reporters, RefuseReport(p)
    PROVE  IInv'
<1>1. IdleReporter.at = "idle" /\ reports' \in 0..MaxReport
  BY DEF IdleReporter, RefuseReport, IInv, TypeOK, counts
<1> QED
  BY <1>1, Idles, ReporterOnly DEF RefuseReport, counts

LEMMA GrantStep ==
    ASSUME IInv, Grant
    PROVE  IInv'
<1>1. /\ grant' \in 1..pairing /\ fetches' = Granted(grant')
      /\ UNCHANGED <<home, lastMat, pairing, issued, audits, rec, counts, mem,
                     readers, reporters>>
  BY DEF Grant
<1>2. grant' \in Nat /\ grant' <= pairing /\ grant' \in 0..MaxPair
  BY <1>1, Bounds DEF IInv, TypeOK
<1>3. \A f \in Fetches :
        /\ fetches'[f] \in Fetch
        /\ fetches'[f].at = fetches[f].at /\ fetches'[f].inc = fetches[f].inc
        /\ fetches'[f].gen = fetches[f].gen /\ fetches'[f].after = fetches[f].after
        /\ fetches'[f].got = fetches[f].got /\ fetches'[f].answer = fetches[f].answer
        /\ fetches'[f].held = fetches[f].held
        /\ fetches'[f].lacks = IF fetches[f].lacks # 0 /\ grant' >= fetches[f].lacks
                               THEN 0 ELSE fetches[f].lacks
  <2>1. 0 \in 0..MaxPair BY Bounds
  <2> QED BY <1>1, <2>1, FetchFacts DEF Granted, IInv, Fetch
<1>4. fetches' \in [Fetches -> Fetch]
  BY <1>1, <1>3 DEF Granted
<1>5. GrantInv'
  BY <1>1, <1>2, <1>3, FetchFacts DEF IInv, GrantInv
<1>6. FetchInv'
  BY <1>1, <1>3 DEF IInv, FetchInv
<1>7. MemInv' /\ ReadersInv' /\ ReportersInv'
  <2>1. MemInv'
    <3> SUFFICES ASSUME mem # None PROVE MemInv'
      BY <1>1 DEF MemInv, Good
    <3>1. mem.cache \in Fetches \cup {0} /\ mem.flights \subseteq Fetches
          /\ mem.own \subseteq Fetches
      BY MemFacts DEF IInv
    <3> QED
      BY <1>1, <1>3, <3>1 DEF IInv, MemInv, Good
  <2> QED
    BY <1>1, <1>3, <2>1 DEF IInv, ReadersInv, ReportersInv, InState
<1>8. HomeInv' /\ IssueInv'
  BY <1>1, HomeStays
<1>9. TypeOK'
  BY <1>1, <1>2, <1>4 DEF IInv, TypeOK, counts
<1> QED
  BY <1>5, <1>6, <1>7, <1>8, <1>9 DEF IInv

LEMMA PairingStep ==
    ASSUME IInv, Revoke \/ RePair
    PROVE  IInv'
<1>1. /\ grant' <= pairing' /\ grant' <= grant /\ pairing <= pairing' /\ pairing' \in 1..MaxPair
      /\ grant' \in 0..MaxPair /\ grant \in Nat /\ pairing \in Nat
      /\ UNCHANGED <<home, lastMat, issued, audits, rec, counts, mem, fetches, readers,
                     reporters>>
  BY Bounds DEF Revoke, RePair, IInv, GrantInv, TypeOK
<1>2. GrantInv'
  BY <1>1, FetchFacts DEF IInv, GrantInv
<1>3. FetchInv'
  BY <1>1 DEF IInv, FetchInv
<1>4. MemInv' /\ ReadersInv' /\ ReportersInv' /\ HomeInv' /\ IssueInv'
  BY <1>1, RequesterStays, HomeStays
<1>5. TypeOK'
  BY <1>1 DEF IInv, TypeOK, counts
<1> QED
  BY <1>2, <1>3, <1>4, <1>5 DEF IInv

-----------------------------------------------------------------------------
(* The requester's record, its readers and its reports.                    *)

LEMMA RecordStep ==
    ASSUME IInv, Add \/ Remove
    PROVE  IInv'
<1>1. UNCHANGED <<homeVars, reports, mem, fetches, readers, reporters>>
  BY DEF Add, Remove, counts
<1>2. HomeInv' /\ IssueInv' /\ GrantInv' /\ FetchInv' /\ MemInv' /\ ReadersInv'
      /\ ReportersInv'
  BY <1>1, HomeStays, FetchesStay, RequesterStays DEF homeVars
<1>3. rec' \in Record \cup {None} /\ lastInc' \in 0..MaxInc
  <2>1. CASE Remove
    BY <2>1 DEF Remove, IInv, TypeOK, counts
  <2>2. CASE Add
    <3>1. lastInc + 1 \in 1..MaxInc
      BY <2>2, Bounds DEF Add, IInv, TypeOK
    <3>2. \A i \in issued : i[1] \in Versions
      BY DEF IInv, TypeOK
    <3> QED
      BY <2>2, <3>1, <3>2, Bounds DEF Add, Record
  <2> QED
    BY <2>1, <2>2
<1>4. TypeOK'
  BY <1>1, <1>3 DEF IInv, TypeOK, homeVars
<1> QED
  BY <1>2, <1>4 DEF IInv

\* A step of a read that changes nothing but the read.
LEMMA ReaderOnly ==
    ASSUME IInv, NEW r \in Readers, NEW x \in Reader,
           readers' = [readers EXCEPT ![r] = x],
           x.at = "checked" => x.inc \in 1..MaxInc,
           x.at = "waiting" => x.f \in Fetches /\ x.saw = {},
           x.at = "served" => /\ x.f \in Fetches /\ x.saw = {}
                              /\ fetches[x.f].at = "done" /\ fetches[x.f].answer = "token",
           UNCHANGED <<homeVars, rec, counts, mem, fetches, reporters>>
    PROVE  IInv'
<1>1. readers' \in [Readers -> Reader]
  BY DEF IInv, TypeOK
<1>2. ReadersInv'
  BY DEF IInv, TypeOK, ReadersInv, InState
<1>3. HomeInv' /\ IssueInv' /\ GrantInv' /\ FetchInv'
  BY HomeStays, FetchesStay DEF homeVars
<1>4. MemInv' /\ ReportersInv'
  BY DEF IInv, MemInv, Good, ReportersInv
<1>5. TypeOK'
  BY <1>1 DEF IInv, TypeOK, homeVars, counts
<1> QED
  BY <1>2, <1>3, <1>4, <1>5 DEF IInv

LEMMA CheckStep ==
    ASSUME IInv, NEW r \in Readers, Check(r)
    PROVE  IInv'
<1> DEFINE x == [readers[r] EXCEPT !.at = "checked", !.inc = rec.inc]
<1>1. /\ rec # None /\ readers' = [readers EXCEPT ![r] = x]
      /\ UNCHANGED <<homeVars, rec, counts, mem, fetches, reporters>>
  BY DEF Check
<1>2. rec.inc \in 1..MaxInc
  BY <1>1 DEF IInv, TypeOK, Record
<1>3. rec.inc \in 0..MaxInc
  BY <1>2
<1>4. x \in Reader /\ x.at = "checked" /\ x.inc = rec.inc
  BY <1>3 DEF IInv, TypeOK, Reader
<1> HIDE DEF x
<1> QED
  BY <1>1, <1>2, <1>4, ReaderOnly

LEMMA DeliverStep ==
    ASSUME IInv, NEW r \in Readers, Deliver(r)
    PROVE  IInv'
<1> DEFINE x == [readers[r] EXCEPT !.at = "served", !.inc = 0, !.verdicts = 0]
<1>1. /\ readers[r].at = "waiting"
      /\ UNCHANGED <<homeVars, rec, counts, mem, fetches, reporters>>
  BY DEF Deliver
<1>2. CASE readers' = [readers EXCEPT ![r] = IdleReader]
  BY <1>1, <1>2, Idles, ReaderOnly DEF IdleReader
<1>3. CASE /\ readers' = [readers EXCEPT ![r] = x]
           /\ fetches[readers[r].f].at = "done" /\ fetches[readers[r].f].answer = "token"
  <2>1. 0 \in 0..MaxInc BY Bounds
  <2>2. x \in Reader /\ x.at = "served" /\ x.f = readers[r].f /\ x.saw = readers[r].saw
    BY <2>1 DEF IInv, TypeOK, Reader
  <2>3. x.f \in Fetches /\ x.saw = {}
    BY <1>1, <2>2 DEF IInv, ReadersInv
  <2> HIDE DEF x
  <2> QED
    BY <1>1, <1>3, <2>2, <2>3, ReaderOnly
<1> QED
  BY <1>2, <1>3 DEF Deliver

LEMMA LeaveStep ==
    ASSUME IInv, NEW r \in Readers, Leave(r)
    PROVE  IInv'
BY Idles, ReaderOnly DEF Leave, IdleReader

LEMMA ResolveStep ==
    ASSUME IInv, NEW p \in Reporters, NEW r \in Readers, Resolve(p, r)
    PROVE  IInv'
<1> DEFINE v == fetches[readers[r].f].got.ver
           x == [reporters[p] EXCEPT !.at = "resolved", !.inc = rec.inc, !.ver = v]
<1>1. /\ rec # None /\ readers[r].at = "served" /\ reports < MaxReport
      /\ reports' = reports + 1 /\ reporters' = [reporters EXCEPT ![p] = x]
      /\ UNCHANGED <<homeVars, rec, lastInc, mem, fetches, readers>>
  BY DEF Resolve
<1>2. rec.inc \in 1..MaxInc
  BY <1>1 DEF IInv, TypeOK, Record
<1>3. rec.inc \in 0..MaxInc
  BY <1>2
<1>4. v \in Versions
  <2>1. readers[r].f \in Fetches /\ fetches[readers[r].f].answer = "token"
    BY <1>1 DEF IInv, ReadersInv
  <2>2. fetches[readers[r].f].got \in Token
    BY <2>1, FetchFacts DEF IInv, FetchInv
  <2> QED BY <2>2 DEF Token
<1> HIDE DEF v
<1>5. x \in Reporter /\ x.inc = rec.inc /\ x.ver = v
  BY <1>3, <1>4 DEF IInv, TypeOK, Reporter
<1>6. reports' \in 0..MaxReport
  BY <1>1, Bounds DEF IInv, TypeOK
<1> HIDE DEF x
<1> QED
  BY <1>1, <1>2, <1>4, <1>5, <1>6, ReporterOnly

LEMMA RaiseStep ==
    ASSUME IInv, NEW p \in Reporters, Raise(p)
    PROVE  IInv'
<1>1. UNCHANGED <<homeVars, counts, mem, fetches, readers>>
  BY DEF Raise
<1>2. \E x \in Reporter : reporters' = [reporters EXCEPT ![p] = x] /\ x.at # "resolved"
  <2>1. CASE reporters' = [reporters EXCEPT ![p] = IdleReporter]
    BY <2>1, Idles DEF IdleReporter
  <2>2. CASE reporters' = [reporters EXCEPT ![p].at = "forwarded"]
    <3> DEFINE x == [reporters[p] EXCEPT !.at = "forwarded"]
    <3>1. x \in Reporter /\ x.at # "resolved"
      BY DEF IInv, TypeOK, Reporter
    <3> QED BY <2>2, <3>1
  <2> QED
    BY <2>1, <2>2 DEF Raise
<1>3. reporters' \in [Reporters -> Reporter] /\ ReportersInv'
  BY <1>2 DEF IInv, TypeOK, ReportersInv
<1>4. rec' \in Record \cup {None}
  <2>1. CASE rec' = rec
    BY <2>1 DEF IInv, TypeOK
  <2> DEFINE v == IF rec.reported < reporters[p].ver THEN reporters[p].ver ELSE rec.reported
  <2>2. CASE rec # None /\ rec' = [rec EXCEPT !.reported = v]
    <3>1. rec \in Record /\ v \in Versions \cup {0}
      BY <2>2 DEF IInv, TypeOK, Record, Reporter
    <3> HIDE DEF v
    <3> QED BY <2>2, <3>1 DEF Record
  <2> QED
    BY <2>1, <2>2 DEF Raise, Current
<1>5. HomeInv' /\ IssueInv' /\ GrantInv' /\ FetchInv'
  BY <1>1, HomeStays, FetchesStay DEF homeVars
<1>6. MemInv' /\ ReadersInv'
  BY <1>1 DEF IInv, MemInv, Good, ReadersInv, InState
<1>7. TypeOK'
  BY <1>1, <1>3, <1>4 DEF IInv, TypeOK, homeVars, counts
<1> QED
  BY <1>3, <1>5, <1>6, <1>7 DEF IInv

LEMMA RestartStep ==
    ASSUME IInv, Restart
    PROVE  IInv'
<1> DEFINE x == [NoFetch EXCEPT !.at = "lost"]
<1>1. /\ mem' = None /\ UNCHANGED <<homeVars, rec, counts>>
      /\ readers' = [r \in Readers |-> IdleReader]
      /\ reporters' = [p \in Reporters |-> IdleReporter]
      /\ fetches' = [f \in Fetches |->
            IF fetches[f].at \in {"none", "done"} THEN fetches[f] ELSE x]
  BY DEF Restart
<1>2. x \in Fetch /\ x.at = "lost" /\ x.lacks = 0 /\ x.answer = None
  BY Idles DEF NoFetch, Fetch
<1> HIDE DEF x
<1>3. fetches' \in [Fetches -> Fetch]
  BY <1>1, <1>2, FetchFacts DEF IInv
<1>4. GrantInv'
  BY <1>1, <1>2 DEF IInv, GrantInv, homeVars
<1>5. FetchInv'
  BY <1>1, <1>2, NoneApart DEF IInv, FetchInv, homeVars
<1>6. MemInv' /\ ReadersInv' /\ ReportersInv'
  BY <1>1 DEF MemInv, ReadersInv, ReportersInv, IdleReader, IdleReporter
<1>7. HomeInv' /\ IssueInv'
  BY <1>1, HomeStays DEF homeVars
<1>8. TypeOK'
  BY <1>1, <1>3, Idles DEF IInv, TypeOK, homeVars, counts
<1> QED
  BY <1>4, <1>5, <1>6, <1>7, <1>8 DEF IInv

-----------------------------------------------------------------------------
(* What works on the state of the id under its lock.                       *)

\* The state is the one there is, or a new one with no fetch of its own.
LEMMA StateForGood ==
    ASSUME IInv, NEW inc \in 1..MaxInc
    PROVE  /\ StateFor(inc) \in IdState /\ StateFor(inc) # None
           /\ Good(StateFor(inc), fetches) /\ StateFor(inc).inc = inc
           /\ StateFor(inc).own # {} => mem # None /\ StateFor(inc).own = mem.own
<1>1. CASE mem # None /\ mem.inc = inc
  BY <1>1, MemFacts DEF IInv, MemInv, StateFor
<1>2. CASE ~(mem # None /\ mem.inc = inc)
  <2> DEFINE m == [inc |-> inc, gen |-> 0, next |-> 1, auth |-> 0, cache |-> 0,
                   flights |-> {}, verdicts |-> 0, own |-> {}]
  <2>1. StateFor(inc) = m
    BY <1>2 DEF StateFor
  <2>2. m \in IdState /\ m.cache = 0 /\ m.own = {} /\ m.flights = {} /\ m.inc = inc
    BY DEF IdState
  <2> HIDE DEF m
  <2> QED
    BY <2>1, <2>2, NoneApart DEF Good
<1> QED
  BY <1>1, <1>2

\* Overtaking notes what overtook, and nothing else.
Alike(x, y) ==
    /\ x.at = y.at /\ x.inc = y.inc /\ x.gen = y.gen /\ x.got = y.got /\ x.seq = y.seq
    /\ x.answer = y.answer /\ x.held = y.held /\ x.lacks = y.lacks

LEMMA OvertakenFacts ==
    ASSUME IInv, NEW by \in Overtakers, NEW upto, NEW g \in Fetches
    PROVE  /\ Overtaken(by, upto) \in [Fetches -> Fetch]
           /\ Alike(Overtaken(by, upto)[g], fetches[g])
           /\ g \in upto => Overtaken(by, upto)[g].after = fetches[g].after \cup {by}
           /\ g \notin upto => Overtaken(by, upto)[g].after = fetches[g].after
<1>1. ASSUME NEW h \in Fetches
      PROVE  /\ [fetches[h] EXCEPT !.after = @ \cup {by}] \in Fetch
             /\ Alike([fetches[h] EXCEPT !.after = @ \cup {by}], fetches[h])
             /\ [fetches[h] EXCEPT !.after = @ \cup {by}].after = fetches[h].after \cup {by}
  BY FetchFacts DEF IInv, Fetch, Alike
<1>2. \A h \in Fetches : fetches[h] \in Fetch /\ Alike(fetches[h], fetches[h])
  BY FetchFacts DEF IInv, Alike
<1> QED
  BY <1>1, <1>2 DEF Overtaken

\* A served read keeps what it was told, as long as the state only gains fetches
\* that had not been started.
LEMMA ReadersKeep ==
    ASSUME IInv, NEW r \in Readers, readers'[r] = readers[r],
           \A f \in Fetches : fetches[f].at = "done" =>
                /\ fetches'[f].at = "done" /\ fetches'[f].answer = fetches[f].answer
                /\ fetches'[f].got = fetches[f].got,
           \A f \in Fetches : InState(f)' /\ fetches[f].at = "done" => InState(f)
    PROVE  /\ readers'[r].at = "checked" => readers'[r].inc \in 1..MaxInc
           /\ readers'[r].at = "waiting" => readers'[r].f \in Fetches /\ readers'[r].saw = {}
           /\ readers'[r].at = "served" =>
                /\ readers'[r].f \in Fetches
                /\ fetches'[readers'[r].f].at = "done"
                /\ fetches'[readers'[r].f].answer = "token"
                /\ InState(readers[r].f)' =>
                    /\ Verdict \notin readers'[r].saw
                    /\ fetches'[readers'[r].f].got.ver \notin readers'[r].saw
BY DEF IInv, ReadersInv

LEMMA OvertakeStep ==
    ASSUME IInv, NEW p \in Reporters, Overtake(p)
    PROVE  IInv'
<1> DEFINE st == StateFor(reporters[p].inc)
           v == reporters[p].ver
           drop == st.cache # 0 /\ fetches[st.cache].got.ver = v
           c == IF drop THEN 0 ELSE st.cache
           y == [reporters[p] EXCEPT !.at = "locked"]
<1>1. /\ mem' = [st EXCEPT !.gen = @ + 1, !.cache = c]
      /\ fetches' = Overtaken(v, Started)
      /\ reporters' = [reporters EXCEPT ![p] = y]
      /\ UNCHANGED <<homeVars, rec, counts, readers>>
  BY DEF Overtake
<1>2. reporters[p].inc \in 1..MaxInc /\ v \in Versions
  BY DEF Overtake, IInv, ReportersInv
<1>3. v \in Overtakers /\ v # Verdict
  BY <1>2, Bounds DEF Overtakers, Verdict
<1>4. /\ st \in IdState /\ st # None /\ Good(st, fetches)
      /\ st.own # {} => mem # None /\ st.own = mem.own
  BY <1>2, StateForGood
<1>5. \A f \in Fetches :
        /\ Alike(fetches'[f], fetches[f])
        /\ f \in Started => fetches'[f].after = fetches[f].after \cup {v}
        /\ f \notin Started => fetches'[f].after = fetches[f].after
  <2>1. fetches' = Overtaken(v, Started)
    BY <1>1
  <2> HIDE DEF v, st
  <2> QED
    BY <1>3, <2>1, OvertakenFacts
<1>6. fetches' \in [Fetches -> Fetch]
  <2>1. CASE Fetches = {}
    BY <1>1, <2>1 DEF Overtaken
  <2> QED
    BY <1>1, <1>3, <2>1, OvertakenFacts
<1>7. c \in Fetches \cup {0} /\ st.gen \in Nat /\ st.own \subseteq Fetches
      /\ st.flights \subseteq Fetches /\ st.cache \in Fetches \cup {0}
  BY <1>4 DEF IdState
<1>8. (c # 0 => c = st.cache /\ fetches[c].got.ver # v)
  OBVIOUS
<1> HIDE DEF c, st, v
<1>9. /\ mem' \in IdState /\ mem'.gen = st.gen + 1 /\ mem'.cache = c /\ mem'.own = st.own
      /\ mem'.flights = st.flights /\ mem'.inc = st.inc
  <2>1. st.gen + 1 \in Nat
    BY <1>7
  <2>2. mem' = [st EXCEPT !.gen = st.gen + 1, !.cache = c]
    BY <1>1
  <2> QED
    BY <1>4, <1>7, <2>1, <2>2 DEF IdState
<1>10. mem' # None
  BY <1>9, NoneApart
<1>11. Good(mem', fetches')
  <2>1. c # 0 => fetches'[c].at = "done" /\ fetches'[c].answer = "token"
    BY <1>4, <1>5, <1>7, <1>8 DEF Good, Alike
  <2>2. \A f \in st.own :
          /\ fetches'[f].at # "none"
          /\ fetches'[f].at \in Busy => fetches'[f].gen <= st.gen /\ fetches'[f].gen \in Nat
    <3> TAKE f \in st.own
    <3>1. f \in Fetches /\ fetches[f].gen \in Nat
      BY <1>7, FetchFacts DEF IInv
    <3> QED
      BY <1>4, <1>5, <3>1 DEF Good, Alike
  <2>3. \A f \in st.own : fetches'[f].at \in Busy =>
          fetches'[f].gen <= st.gen + 1 /\ fetches'[f].gen < st.gen + 1
    BY <1>7, <2>2
  <2>4. \A f \in st.flights :
          f \in st.own /\ fetches'[f].at \in Busy /\ fetches'[f].inc = st.inc
    BY <1>4, <1>5, <1>7 DEF Good, Alike
  <2>5. c # 0 /\ c \in st.own =>
          Verdict \notin fetches'[c].after /\ fetches'[c].got.ver \notin fetches'[c].after
    <3> SUFFICES ASSUME c # 0, c \in st.own
                 PROVE  Verdict \notin fetches'[c].after
                        /\ fetches'[c].got.ver \notin fetches'[c].after
      OBVIOUS
    <3>1. c \in Fetches /\ c = st.cache /\ fetches[c].got.ver # v
      BY <1>7, <1>8
    <3>2. Verdict \notin fetches[c].after /\ fetches[c].got.ver \notin fetches[c].after
      BY <1>4, <3>1 DEF Good, Alike
    <3>3. fetches'[c].got = fetches[c].got
          /\ \A z \in fetches'[c].after : z \in fetches[c].after \/ z = v
      BY <1>5, <3>1 DEF Alike
    <3> QED
      BY <1>3, <3>1, <3>2, <3>3
  <2> QED
    BY <1>9, <2>1, <2>2, <2>3, <2>4, <2>5 DEF Good, Alike
<1>12. ReadersInv'
  <2>1. \A f \in Fetches : InState(f)' => InState(f)
    BY <1>4, <1>9 DEF InState
  <2> QED
    BY <1>1, <1>5, <2>1, ReadersKeep DEF ReadersInv, Alike
<1>13. y \in Reporter /\ y.at = "locked"
  BY DEF IInv, TypeOK, Reporter
<1> HIDE DEF y
<1>14. reporters' \in [Reporters -> Reporter] /\ ReportersInv'
  BY <1>1, <1>13 DEF IInv, TypeOK, ReportersInv
<1>15. GrantInv' /\ FetchInv'
  <2>1. \A f \in Fetches : fetches[f].at = "none" => f \notin Started
    BY DEF Started
  <2>2. GrantInv'
    BY <1>1, <1>5 DEF IInv, GrantInv, homeVars, Alike
  <2>3. FetchInv'
    BY <1>1, <1>5, <2>1 DEF IInv, FetchInv, homeVars, Alike
  <2> QED
    BY <2>2, <2>3
<1>16. HomeInv' /\ IssueInv'
  BY <1>1, HomeStays DEF homeVars
<1>17. TypeOK'
  BY <1>1, <1>6, <1>9, <1>14 DEF IInv, TypeOK, homeVars, counts
<1> QED
  BY <1>10, <1>11, <1>12, <1>14, <1>15, <1>16, <1>17 DEF IInv, MemInv

\* A read that finds a good token, joins a fetch, or starts one.
LEMMA EnterStep ==
    ASSUME IInv, NEW r \in Readers, Enter(r)
    PROVE  IInv'
<1> DEFINE st == StateFor(readers[r].inc)
<1>1. readers[r].at = "checked" /\ UNCHANGED <<homeVars, rec, counts, reporters>>
  BY DEF Enter
<1>2. readers[r].inc \in 1..MaxInc /\ readers[r] \in Reader /\ readers \in [Readers -> Reader]
  BY <1>1 DEF IInv, ReadersInv, TypeOK
<1>3. /\ st \in IdState /\ st # None /\ Good(st, fetches) /\ st.inc = readers[r].inc
      /\ st.own # {} => mem # None /\ st.own = mem.own
  BY <1>2, StateForGood
<1>4. /\ st.own \subseteq Fetches /\ st.flights \subseteq Fetches
      /\ st.cache \in Fetches \cup {0} /\ st.gen \in Nat /\ st.next \in Nat
      /\ st.verdicts \in Nat
  BY <1>3 DEF IdState
<1>5. HomeInv' /\ IssueInv' /\ ReportersInv'
  BY <1>1, HomeStays DEF homeVars, IInv, ReportersInv
<1>6. CASE \/ /\ st.cache # 0 /\ mem' = st /\ UNCHANGED fetches
              /\ readers' = [readers EXCEPT ![r] =
                    [@ EXCEPT !.at = "served", !.inc = 0, !.f = st.cache,
                              !.saw = fetches[st.cache].after]]
           \/ \E f \in st.flights :
              /\ fetches[f].gen = st.gen /\ mem' = st /\ UNCHANGED fetches
              /\ readers' = [readers EXCEPT ![r] =
                    [@ EXCEPT !.at = "waiting", !.f = f, !.verdicts = st.verdicts,
                              !.saw = fetches[f].after]]
  <2>1. mem' = st /\ UNCHANGED fetches
    BY <1>6
  <2> HIDE DEF st
  <2>2. MemInv'
    BY <1>3, <2>1 DEF MemInv
  <2>3. GrantInv' /\ FetchInv'
    BY <1>1, <2>1, FetchesStay DEF homeVars
  <2>4. \A f \in Fetches : InState(f)' => InState(f)
    BY <1>3, <2>1 DEF InState
  <2>5. \A q \in Readers : q # r => readers'[q] = readers[q]
    BY <1>2, <1>6
  <2>6. \E x \in Reader :
          /\ readers' = [readers EXCEPT ![r] = x] /\ x.at \in {"waiting", "served"}
          /\ x.f \in Fetches
          /\ x.at = "waiting" => x.saw = {}
          /\ x.at = "served" =>
                /\ fetches[x.f].at = "done" /\ fetches[x.f].answer = "token"
                /\ x.f \in st.own =>
                    Verdict \notin x.saw /\ fetches[x.f].got.ver \notin x.saw
    <3>1. CASE /\ st.cache # 0
               /\ readers' = [readers EXCEPT ![r] =
                    [@ EXCEPT !.at = "served", !.inc = 0, !.f = st.cache,
                              !.saw = fetches[st.cache].after]]
      <4> DEFINE c == st.cache
                 x == [readers[r] EXCEPT !.at = "served", !.inc = 0, !.f = c,
                                         !.saw = fetches[c].after]
      <4>1. c \in Fetches /\ fetches[c].after \in SUBSET Overtakers /\ 0 \in 0..MaxInc
        BY <1>4, <3>1, FetchFacts, Bounds DEF IInv
      <4>2. x \in Reader /\ x.at = "served" /\ x.f = c /\ x.saw = fetches[c].after
        BY <1>2, <4>1 DEF Reader
      <4>3. /\ fetches[c].at = "done" /\ fetches[c].answer = "token"
            /\ c \in st.own => Verdict \notin fetches[c].after
                               /\ fetches[c].got.ver \notin fetches[c].after
        BY <1>3, <3>1 DEF Good
      <4>4. readers' = [readers EXCEPT ![r] = x]
        BY <3>1
      <4> HIDE DEF x, c
      <4> QED
        BY <4>1, <4>2, <4>3, <4>4
    <3>2. ASSUME NEW f \in st.flights, fetches[f].gen = st.gen,
                 readers' = [readers EXCEPT ![r] =
                    [@ EXCEPT !.at = "waiting", !.f = f, !.verdicts = st.verdicts,
                              !.saw = fetches[f].after]]
          PROVE  \E x \in Reader :
                  /\ readers' = [readers EXCEPT ![r] = x] /\ x.at = "waiting"
                  /\ x.f \in Fetches /\ x.saw = {}
      <4> DEFINE x == [readers[r] EXCEPT !.at = "waiting", !.f = f,
                                         !.verdicts = st.verdicts, !.saw = fetches[f].after]
      <4>1. f \in Fetches /\ fetches[f].after \in SUBSET Overtakers
        BY <1>4, FetchFacts DEF IInv
      <4>2. fetches[f].after = {}
        BY <1>3, <1>4, <3>2 DEF Good
      <4>3. x \in Reader /\ x.at = "waiting" /\ x.f = f /\ x.saw = fetches[f].after
        BY <1>2, <1>4, <4>1 DEF Reader
      <4>4. readers' = [readers EXCEPT ![r] = x]
        BY <3>2
      <4> HIDE DEF x
      <4> QED
        BY <4>1, <4>2, <4>3, <4>4
    <3> QED
      BY <1>6, <3>1, <3>2
  <2>7. readers' \in [Readers -> Reader]
    BY <1>2, <2>6
  <2>8. ReadersInv'
    <3> SUFFICES ASSUME NEW q \in Readers
                 PROVE  /\ readers'[q].at = "checked" => readers'[q].inc \in 1..MaxInc
                        /\ readers'[q].at = "waiting" =>
                             readers'[q].f \in Fetches /\ readers'[q].saw = {}
                        /\ readers'[q].at = "served" =>
                             /\ readers'[q].f \in Fetches
                             /\ fetches'[readers'[q].f].at = "done"
                             /\ fetches'[readers'[q].f].answer = "token"
                             /\ mem' # None /\ readers'[q].f \in mem'.own =>
                                 /\ Verdict \notin readers'[q].saw
                                 /\ fetches'[readers'[q].f].got.ver \notin readers'[q].saw
      BY DEF ReadersInv, InState
    <3>1. CASE q = r
      BY <1>2, <2>1, <2>6, <3>1
    <3>2. CASE q # r
      BY <2>1, <2>4, <2>5, <3>2, ReadersKeep DEF InState
    <3> QED
      BY <3>1, <3>2
  <2>9. TypeOK'
    BY <1>1, <1>3, <2>1, <2>7 DEF IInv, TypeOK, homeVars, counts
  <2> QED
    BY <1>5, <2>2, <2>3, <2>8, <2>9 DEF IInv
<1>7. ASSUME NEW f \in Unstarted,
             mem' = [st EXCEPT !.next = @ + 1, !.flights = @ \cup {f}, !.own = @ \cup {f}],
             fetches' = [fetches EXCEPT ![f] =
                [@ EXCEPT !.at = "sent", !.inc = st.inc, !.seq = st.next, !.gen = st.gen,
                          !.lacks = IF grant = pairing THEN 0 ELSE pairing]],
             readers' = [readers EXCEPT ![r] =
                [@ EXCEPT !.at = "waiting", !.f = f, !.verdicts = st.verdicts,
                          !.saw = fetches[f].after]]
      PROVE  IInv'
  <2> DEFINE k == IF grant = pairing THEN 0 ELSE pairing
             x == [fetches[f] EXCEPT !.at = "sent", !.inc = st.inc, !.seq = st.next,
                                     !.gen = st.gen, !.lacks = k]
             y == [readers[r] EXCEPT !.at = "waiting", !.f = f, !.verdicts = st.verdicts,
                                     !.saw = fetches[f].after]
  <2>1. /\ f \in Fetches /\ fetches[f].at = "none" /\ fetches[f].after = {}
        /\ fetches[f].answer = None /\ fetches[f] \in Fetch
        /\ fetches \in [Fetches -> Fetch]
    BY FetchFacts DEF Unstarted, IInv, FetchInv
  <2>2. k \in 0..MaxPair /\ (k # 0 => k = pairing /\ grant < pairing)
    BY Bounds DEF IInv, TypeOK, GrantInv
  <2>3. fetches' = [fetches EXCEPT ![f] = x] /\ readers' = [readers EXCEPT ![r] = y]
    BY <1>7
  <2>4. mem' = [st EXCEPT !.next = st.next + 1, !.flights = st.flights \cup {f},
                          !.own = st.own \cup {f}]
    BY <1>7
  <2> HIDE DEF st, k
  <2>5. /\ x \in Fetch /\ x.at = "sent" /\ x.inc = st.inc /\ x.gen = st.gen /\ x.lacks = k
        /\ x.after = {} /\ x.answer = None
    <3>1. st.inc \in 0..MaxInc BY <1>2, <1>3
    <3> QED BY <1>4, <2>1, <2>2, <3>1 DEF Fetch
  <2>6. y \in Reader /\ y.at = "waiting" /\ y.f = f /\ y.saw = {}
    <3>1. {} \in SUBSET Overtakers OBVIOUS
    <3> QED BY <1>2, <1>4, <2>1, <3>1 DEF Reader
  <2>7. /\ mem' \in IdState /\ mem'.own = st.own \cup {f} /\ mem'.cache = st.cache
        /\ mem'.flights = st.flights \cup {f} /\ mem'.gen = st.gen /\ mem'.inc = st.inc
    <3>1. /\ st.next + 1 \in Nat /\ st.flights \cup {f} \in SUBSET Fetches
          /\ st.own \cup {f} \in SUBSET Fetches
      BY <1>4, <2>1
    <3> QED BY <1>3, <2>4, <3>1 DEF IdState
  <2> HIDE DEF x, y
  <2>8. /\ fetches' \in [Fetches -> Fetch] /\ fetches'[f] = x
        /\ \A g \in Fetches : g # f => fetches'[g] = fetches[g]
    BY <2>1, <2>3, <2>5
  <2>9. /\ readers' \in [Readers -> Reader] /\ readers'[r] = y
        /\ \A q \in Readers : q # r => readers'[q] = readers[q]
    BY <1>2, <2>3, <2>6
  <2>10. Good(mem', fetches')
    <3>1. st.cache # 0 => st.cache # f /\ st.cache \in Fetches
      BY <1>3, <1>4, <2>1 DEF Good
    <3>2. f \notin st.own /\ f \notin st.flights
      BY <1>3, <2>1 DEF Good
    <3>3. st.cache # 0 => /\ fetches'[st.cache].at = "done"
                          /\ fetches'[st.cache].answer = "token"
      BY <1>3, <2>8, <3>1 DEF Good
    <3>4. \A g \in st.own \cup {f} :
            /\ fetches'[g].at # "none"
            /\ fetches'[g].at \in Busy =>
                /\ fetches'[g].gen <= st.gen
                /\ fetches'[g].after # {} => fetches'[g].gen < st.gen
      <4> TAKE g \in st.own \cup {f}
      <4>1. CASE g = f
        BY <1>4, <2>5, <2>8, <4>1
      <4>2. CASE g # f
        BY <1>3, <1>4, <2>8, <4>2 DEF Good
      <4> QED BY <4>1, <4>2
    <3>5. \A g \in st.flights \cup {f} :
            g \in st.own \cup {f} /\ fetches'[g].at \in Busy /\ fetches'[g].inc = st.inc
      BY <1>3, <1>4, <2>5, <2>8, <3>2 DEF Good, Busy
    <3>6. st.cache # 0 /\ st.cache \in st.own \cup {f} =>
            /\ Verdict \notin fetches'[st.cache].after
            /\ fetches'[st.cache].got.ver \notin fetches'[st.cache].after
      BY <1>3, <2>8, <3>1 DEF Good
    <3> QED
      BY <2>7, <3>3, <3>4, <3>5, <3>6 DEF Good
  <2>11. MemInv'
    BY <2>10 DEF MemInv
  <2>12. ReadersInv'
    <3>1. \A g \in Fetches : InState(g)' /\ fetches[g].at = "done" => InState(g)
      BY <1>3, <2>1, <2>7 DEF InState
    <3>2. \A g \in Fetches : fetches[g].at = "done" => fetches'[g] = fetches[g]
      BY <2>1, <2>8
    <3> SUFFICES ASSUME NEW q \in Readers
                 PROVE  /\ readers'[q].at = "checked" => readers'[q].inc \in 1..MaxInc
                        /\ readers'[q].at = "waiting" =>
                             readers'[q].f \in Fetches /\ readers'[q].saw = {}
                        /\ readers'[q].at = "served" =>
                             /\ readers'[q].f \in Fetches
                             /\ fetches'[readers'[q].f].at = "done"
                             /\ fetches'[readers'[q].f].answer = "token"
                             /\ mem' # None /\ readers'[q].f \in mem'.own =>
                                 /\ Verdict \notin readers'[q].saw
                                 /\ fetches'[readers'[q].f].got.ver \notin readers'[q].saw
      BY DEF ReadersInv, InState
    <3>3. CASE q = r
      BY <2>1, <2>6, <2>9, <3>3
    <3>4. CASE q # r
      BY <2>9, <3>1, <3>2, <3>4, ReadersKeep DEF InState
    <3> QED
      BY <3>3, <3>4
  <2>13. GrantInv'
    BY <1>1, <2>1, <2>2, <2>5, <2>8 DEF IInv, GrantInv, homeVars
  <2>14. FetchInv'
    BY <1>1, <2>5, <2>8, NoneApart DEF IInv, FetchInv, homeVars
  <2>15. TypeOK'
    BY <1>1, <2>7, <2>8, <2>9 DEF IInv, TypeOK, homeVars, counts
  <2> QED
    BY <1>5, <2>11, <2>12, <2>13, <2>14, <2>15 DEF IInv
<1> QED
  BY <1>6, <1>7 DEF Enter

-----------------------------------------------------------------------------
(* A fetch that came back.                                                 *)

LEMMA DoneFacts ==
    ASSUME NEW fs \in [Fetches -> Fetch], NEW f \in Fetches
    PROVE  /\ Done(fs, f) \in [Fetches -> Fetch]
           /\ \A g \in Fetches : g # f => Done(fs, f)[g] = fs[g]
           /\ Done(fs, f)[f].at = "done" /\ Done(fs, f)[f].got = fs[f].got
           /\ Done(fs, f)[f].answer = fs[f].answer /\ Done(fs, f)[f].after = fs[f].after
           /\ Done(fs, f)[f].lacks = fs[f].lacks
<1> DEFINE x == [fs[f] EXCEPT !.at = "done", !.inc = 0, !.seq = 0, !.gen = 0]
<1>1. 0 \in 0..MaxInc /\ fs[f] \in Fetch
  BY Bounds
<1>2. /\ x \in Fetch /\ x.at = "done" /\ x.got = fs[f].got /\ x.answer = fs[f].answer
      /\ x.after = fs[f].after /\ x.lacks = fs[f].lacks
  BY <1>1 DEF Fetch
<1>3. Done(fs, f) = [fs EXCEPT ![f] = x]
  BY DEF Done
<1> HIDE DEF x
<1> QED
  BY <1>2, <1>3

LEMMA RetiredFacts ==
    ASSUME NEW m \in IdState, NEW f \in Fetches
    PROVE  /\ Retired(m, f) \in IdState /\ Retired(m, f).gen = m.gen
           /\ Retired(m, f).cache = m.cache /\ Retired(m, f).own = m.own
           /\ Retired(m, f).inc = m.inc /\ Retired(m, f).flights \subseteq m.flights
           /\ f \notin Retired(m, f).flights
<1> DEFINE fl == {g \in m.flights : fetches[g].seq # fetches[f].seq}
<1>1. fl \in SUBSET Fetches /\ fl \subseteq m.flights /\ f \notin fl
  BY DEF IdState
<1>2. Retired(m, f) = [m EXCEPT !.flights = fl]
  BY DEF Retired
<1> HIDE DEF fl
<1> QED
  BY <1>1, <1>2 DEF IdState

\* The state of the id once a fetch of any answer is finished: nothing applied, a
\* token cached that nothing had overtaken, or a verdict that overtakes the others.
LEMMA FinishedGood ==
    ASSUME IInv, NEW f \in Fetches, fetches[f].at = "answered", mem # None,
           mem'.own = mem.own, mem'.inc = mem.inc, mem'.flights \subseteq mem.flights,
           f \notin mem'.flights,
           \A g \in Fetches : g # f => Alike(fetches'[g], fetches[g]),
           fetches'[f].at = "done", fetches'[f].got = fetches[f].got,
           fetches'[f].answer = fetches[f].answer,
           \/ /\ \A g \in Fetches : fetches'[g].after = fetches[g].after
              /\ mem'.gen = mem.gen
              /\ \/ mem'.cache = mem.cache
                 \/ /\ mem'.cache = f /\ fetches[f].answer = "token"
                    /\ fetches[f].gen = mem.gen
           \/ mem'.gen = mem.gen + 1 /\ mem'.cache = 0
    PROVE  Good(mem', fetches')
<1>1. /\ mem.cache \in Fetches \cup {0} /\ mem.gen \in Nat /\ mem.own \subseteq Fetches
      /\ mem.flights \subseteq Fetches /\ 0 \notin Fetches
  BY MemFacts, Bounds DEF IInv
<1>2. Good(mem, fetches)
  BY DEF IInv, MemInv
<1>3. mem.cache # f
  BY <1>1, <1>2 DEF Good
<1>4. \A g \in mem'.flights :
        g \in mem'.own /\ fetches'[g].at \in Busy /\ fetches'[g].inc = mem'.inc
  BY <1>1, <1>2 DEF Good, Alike
<1>5. \A g \in mem'.own :
        /\ fetches'[g].at # "none"
        /\ fetches'[g].at \in Busy =>
            /\ fetches'[g].gen <= mem'.gen
            /\ fetches'[g].after # {} => fetches'[g].gen < mem'.gen
  <2> TAKE g \in mem'.own
  <2>1. g \in Fetches /\ g \in mem.own /\ fetches[g].gen \in Nat
    BY <1>1, FetchFacts DEF IInv
  <2>2. CASE g = f
    BY <2>2 DEF Busy
  <2>3. CASE g # f
    <3>1. Alike(fetches'[g], fetches[g])
      BY <2>1, <2>3
    <3>2. /\ fetches[g].at # "none"
          /\ fetches[g].at \in Busy =>
                /\ fetches[g].gen <= mem.gen
                /\ fetches[g].after # {} => fetches[g].gen < mem.gen
      BY <1>2, <2>1 DEF Good
    <3> QED
      BY <1>1, <2>1, <3>1, <3>2 DEF Alike
  <2> QED BY <2>2, <2>3
<1>6. CASE mem'.cache = 0
  BY <1>4, <1>5, <1>6 DEF Good
<1>7. CASE /\ mem'.cache = mem.cache /\ mem.cache # 0
           /\ \A g \in Fetches : fetches'[g].after = fetches[g].after
  <2> DEFINE c == mem.cache
  <2>1. c \in Fetches /\ c # f /\ Alike(fetches'[c], fetches[c])
        /\ fetches'[c].after = fetches[c].after
    BY <1>1, <1>3, <1>7
  <2>2. /\ fetches[c].at = "done" /\ fetches[c].answer = "token"
        /\ c \in mem.own =>
            Verdict \notin fetches[c].after /\ fetches[c].got.ver \notin fetches[c].after
    BY <1>2, <1>7 DEF Good
  <2> QED
    BY <1>4, <1>5, <1>7, <2>1, <2>2 DEF Good, Alike
<1>8. CASE /\ mem'.cache = f /\ fetches[f].answer = "token" /\ fetches[f].gen = mem.gen
           /\ \A g \in Fetches : fetches'[g].after = fetches[g].after
  <2>1. f \in mem.own => fetches[f].after = {}
    BY <1>1, <1>2, <1>8 DEF Good, Busy
  <2> QED
    BY <1>4, <1>5, <1>8, <2>1 DEF Good
<1> QED
  BY <1>6, <1>7, <1>8

\* What the rest of the vault keeps when a fetch is finished.
LEMMA FinishedKeeps ==
    ASSUME IInv, NEW f \in Fetches, fetches[f].at = "answered",
           UNCHANGED <<homeVars, counts, readers, reporters>>,
           rec' \in Record \cup {None}, mem' \in IdState \cup {None},
           fetches' \in [Fetches -> Fetch],
           mem' # None => mem # None /\ mem'.own = mem.own,
           \A g \in Fetches : g # f => Alike(fetches'[g], fetches[g]),
           \A g \in Fetches : fetches[g].at = "none" => fetches'[g].after = fetches[g].after,
           fetches'[f].at = "done", fetches'[f].got = fetches[f].got,
           fetches'[f].answer = fetches[f].answer, fetches'[f].lacks = fetches[f].lacks,
           MemInv'
    PROVE  IInv'
<1>1. GrantInv'
  BY DEF IInv, GrantInv, homeVars, Alike
<1>2. FetchInv'
  BY DEF IInv, FetchInv, homeVars, Alike
<1>3. ReadersInv'
  <2>1. \A g \in Fetches : InState(g)' => InState(g)
    BY DEF InState
  <2>2. \A g \in Fetches : fetches[g].at = "done" =>
          /\ fetches'[g].at = "done" /\ fetches'[g].answer = fetches[g].answer
          /\ fetches'[g].got = fetches[g].got
    BY DEF Alike
  <2> QED
    BY <2>1, <2>2, ReadersKeep DEF ReadersInv
<1>4. ReportersInv' /\ HomeInv' /\ IssueInv'
  BY HomeStays DEF homeVars, IInv, ReportersInv
<1>5. TypeOK'
  BY DEF IInv, TypeOK, homeVars, counts
<1> QED
  BY <1>1, <1>2, <1>3, <1>4, <1>5 DEF IInv

LEMMA FinishToken ==
    ASSUME IInv, NEW f \in Fetches, fetches[f].at = "answered", SameState(f), Applies(f),
           Current(fetches[f].inc), fetches[f].answer = "token",
           rec' = AppliedSuccess(fetches[f].got),
           mem' = Retired([mem EXCEPT !.auth = fetches[f].seq, !.cache = f], f),
           fetches' = Done(fetches, f), UNCHANGED <<homeVars, counts, readers, reporters>>
    PROVE  IInv'
<1> DEFINE m == [mem EXCEPT !.auth = fetches[f].seq, !.cache = f]
<1>1. mem # None /\ mem \in IdState /\ fetches[f].seq \in Nat /\ fetches \in [Fetches -> Fetch]
  BY MemFacts, FetchFacts DEF SameState, IInv
<1>2. /\ m \in IdState /\ m.cache = f /\ m.own = mem.own /\ m.gen = mem.gen
      /\ m.inc = mem.inc /\ m.flights = mem.flights
  BY <1>1 DEF IdState
<1>3. mem' = Retired(m, f)
  OBVIOUS
<1> HIDE DEF m
<1>4. /\ mem' \in IdState /\ mem'.cache = f /\ mem'.own = mem.own /\ mem'.gen = mem.gen
      /\ mem'.inc = mem.inc /\ mem'.flights \subseteq mem.flights /\ f \notin mem'.flights
  BY <1>2, <1>3, RetiredFacts
<1>5. /\ fetches' \in [Fetches -> Fetch] /\ \A g \in Fetches : g # f => fetches'[g] = fetches[g]
      /\ fetches'[f].at = "done" /\ fetches'[f].got = fetches[f].got
      /\ fetches'[f].answer = fetches[f].answer /\ fetches'[f].after = fetches[f].after
      /\ fetches'[f].lacks = fetches[f].lacks
  BY <1>1, DoneFacts
<1>6. /\ \A g \in Fetches : g # f => Alike(fetches'[g], fetches[g])
      /\ \A g \in Fetches : fetches'[g].after = fetches[g].after
  BY <1>5 DEF Alike
<1>7. fetches[f].gen = mem.gen
  BY DEF Applies
<1>8. MemInv'
  BY <1>1, <1>4, <1>5, <1>6, <1>7, FinishedGood DEF MemInv
<1>9. rec' \in Record
  <2>1. rec \in Record
    BY DEF Current, IInv, TypeOK
  <2>2. fetches[f].got \in Token
    BY FetchFacts DEF IInv, FetchInv
  <2> DEFINE v == fetches[f].got.ver
             k == IF fetches[f].got.recheck /\ v >= rec.ver /\ v <= rec.reported
                  THEN rec.reported ELSE 0
  <2>3. v \in Versions
    BY <2>2 DEF Token
  <2>4. k \in Versions \cup {0}
    BY <2>1 DEF Record
  <2>5. rec' = [rec EXCEPT !.ver = v, !.active = TRUE, !.reported = k]
    BY DEF AppliedSuccess
  <2> HIDE DEF v, k
  <2> QED
    BY <2>1, <2>3, <2>4, <2>5 DEF Record
<1> QED
  BY <1>1, <1>4, <1>5, <1>6, <1>8, <1>9, FinishedKeeps

LEMMA FinishVerdict ==
    ASSUME IInv, NEW f \in Fetches, fetches[f].at = "answered", SameState(f),
           Current(fetches[f].inc), rec' = AppliedVerdict,
           mem' = Retired([mem EXCEPT !.auth = fetches[f].seq, !.cache = 0,
                                      !.gen = @ + 1, !.verdicts = @ + 1], f),
           fetches' = Done(Overtaken(Verdict, Started \ {f}), f),
           UNCHANGED <<homeVars, counts, readers, reporters>>
    PROVE  IInv'
<1> DEFINE m == [mem EXCEPT !.auth = fetches[f].seq, !.cache = 0, !.gen = @ + 1,
                            !.verdicts = @ + 1]
           fs == Overtaken(Verdict, Started \ {f})
<1>1. /\ mem # None /\ mem \in IdState /\ fetches[f].seq \in Nat
      /\ mem.gen \in Nat /\ mem.verdicts \in Nat
  BY MemFacts, FetchFacts DEF SameState, IInv
<1>2. /\ m \in IdState /\ m.cache = 0 /\ m.own = mem.own /\ m.gen = mem.gen + 1
      /\ m.inc = mem.inc /\ m.flights = mem.flights
  <2>1. mem.gen + 1 \in Nat /\ mem.verdicts + 1 \in Nat
    BY <1>1
  <2>2. m = [mem EXCEPT !.auth = fetches[f].seq, !.cache = 0, !.gen = mem.gen + 1,
                        !.verdicts = mem.verdicts + 1]
    OBVIOUS
  <2> HIDE DEF m
  <2> QED
    BY <1>1, <2>1, <2>2 DEF IdState
<1>3. mem' = Retired(m, f) /\ fetches' = Done(fs, f)
  OBVIOUS
<1>4. Verdict \in Overtakers
  BY DEF Overtakers
<1>5. /\ fs \in [Fetches -> Fetch]
      /\ \A g \in Fetches :
          /\ Alike(fs[g], fetches[g])
          /\ g \notin Started \ {f} => fs[g].after = fetches[g].after
  <2> HIDE DEF m
  <2>1. fs \in [Fetches -> Fetch]
    BY <1>4, OvertakenFacts
  <2>2. ASSUME NEW g \in Fetches
        PROVE  /\ Alike(fs[g], fetches[g])
               /\ g \notin Started \ {f} => fs[g].after = fetches[g].after
    BY <1>4, OvertakenFacts
  <2> QED
    BY <2>1, <2>2
<1> HIDE DEF m, fs
<1>6. /\ mem' \in IdState /\ mem'.cache = 0 /\ mem'.own = mem.own /\ mem'.gen = mem.gen + 1
      /\ mem'.inc = mem.inc /\ mem'.flights \subseteq mem.flights /\ f \notin mem'.flights
  BY <1>2, <1>3, RetiredFacts
<1>7. /\ fetches' \in [Fetches -> Fetch] /\ \A g \in Fetches : g # f => fetches'[g] = fs[g]
      /\ fetches'[f].at = "done" /\ fetches'[f].got = fs[f].got
      /\ fetches'[f].answer = fs[f].answer /\ fetches'[f].after = fs[f].after
      /\ fetches'[f].lacks = fs[f].lacks
  <2>1. /\ Done(fs, f) \in [Fetches -> Fetch]
        /\ \A g \in Fetches : g # f => Done(fs, f)[g] = fs[g]
        /\ Done(fs, f)[f].at = "done" /\ Done(fs, f)[f].got = fs[f].got
        /\ Done(fs, f)[f].answer = fs[f].answer /\ Done(fs, f)[f].after = fs[f].after
        /\ Done(fs, f)[f].lacks = fs[f].lacks
    BY <1>5, DoneFacts
  <2> QED
    BY <1>3, <2>1
<1>8. /\ \A g \in Fetches : g # f => Alike(fetches'[g], fetches[g])
      /\ fetches'[f].got = fetches[f].got /\ fetches'[f].answer = fetches[f].answer
      /\ fetches'[f].lacks = fetches[f].lacks
  <2>1. \A g \in Fetches : g # f => Alike(fetches'[g], fetches[g])
    BY <1>5, <1>7
  <2>2. Alike(fs[f], fetches[f])
    BY <1>5
  <2> QED
    BY <1>7, <2>1, <2>2 DEF Alike
<1>9. \A g \in Fetches : fetches[g].at = "none" => fetches'[g].after = fetches[g].after
  <2>1. \A g \in Fetches : fetches[g].at = "none" => g \notin Started \ {f}
    BY DEF Started
  <2> QED
    BY <1>5, <1>7, <2>1
<1>10. MemInv'
  BY <1>1, <1>6, <1>7, <1>8, FinishedGood DEF MemInv
<1>11. rec' \in Record
  <2>1. rec \in Record
    BY DEF Current, IInv, TypeOK
  <2> QED
    BY <2>1 DEF AppliedVerdict, Record
<1> QED
  BY <1>1, <1>6, <1>7, <1>8, <1>9, <1>10, <1>11, FinishedKeeps

LEMMA FinishNothing ==
    ASSUME IInv, NEW f \in Fetches, fetches[f].at = "answered", UNCHANGED rec,
           mem' = IF SameState(f) THEN Retired(mem, f) ELSE mem,
           fetches' = Done(fetches, f), UNCHANGED <<homeVars, counts, readers, reporters>>
    PROVE  IInv'
<1>1. fetches \in [Fetches -> Fetch]
  BY FetchFacts DEF IInv
<1>2. /\ fetches' \in [Fetches -> Fetch] /\ \A g \in Fetches : g # f => fetches'[g] = fetches[g]
      /\ fetches'[f].at = "done" /\ fetches'[f].got = fetches[f].got
      /\ fetches'[f].answer = fetches[f].answer /\ fetches'[f].after = fetches[f].after
      /\ fetches'[f].lacks = fetches[f].lacks
  BY <1>1, DoneFacts
<1>3. /\ \A g \in Fetches : g # f => Alike(fetches'[g], fetches[g])
      /\ \A g \in Fetches : fetches'[g].after = fetches[g].after
  BY <1>2 DEF Alike
<1>4. mem # None =>
        /\ mem' \in IdState /\ mem'.cache = mem.cache /\ mem'.own = mem.own
        /\ mem'.gen = mem.gen /\ mem'.inc = mem.inc /\ mem'.flights \subseteq mem.flights
        /\ f \notin mem'.flights
  <2> SUFFICES ASSUME mem # None
               PROVE  /\ mem' \in IdState /\ mem'.cache = mem.cache /\ mem'.own = mem.own
                      /\ mem'.gen = mem.gen /\ mem'.inc = mem.inc
                      /\ mem'.flights \subseteq mem.flights /\ f \notin mem'.flights
    OBVIOUS
  <2>1. mem \in IdState /\ Good(mem, fetches)
    BY MemFacts DEF IInv, MemInv
  <2>2. CASE SameState(f)
    BY <2>1, <2>2, RetiredFacts
  <2>3. CASE ~SameState(f)
    BY <2>1, <2>3 DEF SameState, Good
  <2> QED
    BY <2>2, <2>3
<1>5. mem = None => mem' = None
  BY DEF SameState
<1>6. MemInv'
  BY <1>2, <1>3, <1>4, <1>5, FinishedGood DEF MemInv
<1>7. rec' \in Record \cup {None}
  BY DEF IInv, TypeOK
<1> QED
  BY <1>2, <1>3, <1>4, <1>5, <1>6, <1>7, FinishedKeeps

LEMMA FinishStep ==
    ASSUME IInv, NEW f \in Fetches, Finish(f)
    PROVE  IInv'
BY FinishToken, FinishVerdict, FinishNothing DEF Finish

-----------------------------------------------------------------------------
(* The induction, and what follows.                                        *)

LEMMA InitInv ==
    ASSUME Init
    PROVE  IInv
<1>1. /\ home \in Home /\ home.ver = 1 /\ home.mat = 1 /\ home.inc = 1 /\ home # None
  <2>1. home = [mat |-> 1, ver |-> 1, inc |-> 1, stale |-> FALSE, active |-> TRUE]
    BY DEF Init
  <2>2. home \in Home
    BY <2>1, Bounds DEF Home
  <2> QED
    BY <2>1, <2>2, NoneApart
<1>2. rec \in Record /\ lastInc \in 0..MaxInc /\ 0 \in 0..MaxReport /\ 0 \in 0..MaxPair
      /\ 1 \in 1..MaxPair /\ 1 \in 0..MaxPair /\ 1 \in 0..MaxMaterial
  BY Bounds DEF Init, Record
<1>3. \A f \in Fetches : fetches[f] = NoFetch
  BY DEF Init
<1>4. \A r \in Readers : readers[r].at = "idle"
  BY DEF Init, IdleReader
<1>5. \A p \in Reporters : reporters[p].at = "idle"
  BY DEF Init, IdleReporter
<1>6. TypeOK
  <2>1. issued \subseteq Versions \X Materials
    BY Bounds DEF Init
  <2>2. audits \in [Materials -> Nat]
    BY DEF Init
  <2> QED
    BY <1>1, <1>2, <2>1, <2>2, Idles DEF Init, TypeOK
<1>7. HomeInv /\ IssueInv
  <2>1. /\ issued = {<<1, 1>>} /\ lastMat = 1
        /\ audits = [m \in Materials |-> IF m = 1 THEN 1 ELSE 0]
    BY DEF Init
  <2>2. \A i \in issued : i[1] = 1 /\ i[2] = 1
    BY <2>1
  <2>3. \A m \in Materials : audits[m] = IF \E i \in issued : i[2] = m THEN 1 ELSE 0
    BY <2>1
  <2> QED
    BY <1>1, <2>1, <2>2, <2>3 DEF HomeInv, IssueInv
<1>8. NoFetch.at = "none" /\ NoFetch.lacks = 0 /\ NoFetch.after = {} /\ NoFetch.answer = None
  BY DEF NoFetch
<1>9. GrantInv /\ FetchInv
  BY <1>3, <1>8, NoneApart DEF Init, GrantInv, FetchInv
<1>10. MemInv /\ ReadersInv /\ ReportersInv
  BY <1>4, <1>5 DEF Init, MemInv, ReadersInv, ReportersInv
<1> QED
  BY <1>6, <1>7, <1>9, <1>10 DEF IInv

LEMMA Steps ==
    ASSUME IInv, Next
    PROVE  IInv'
<1>1. CASE Add \/ IssueForAdd \/ Remove \/ Restart \/ Relogin \/ RemoveHome \/ Recreate
  BY <1>1, RecordStep, IssueForAddStep, RestartStep, OperatorStep
<1>2. CASE Grant \/ Revoke \/ RePair
  BY <1>2, GrantStep, PairingStep
<1>3. ASSUME NEW r \in Readers, Check(r) \/ Enter(r) \/ Deliver(r) \/ Leave(r)
      PROVE  IInv'
  BY <1>3, CheckStep, EnterStep, DeliverStep, LeaveStep
<1>4. ASSUME NEW f \in Fetches,
             \/ Finish(f) \/ Fail(f) \/ LookUpPairing(f) \/ Authorize(f) \/ Read(f)
             \/ Issue(f)
      PROVE  IInv'
  BY <1>4, FinishStep, FailStep, LookUpPairingStep, AuthorizeStep, ReadStep, IssueStep
<1>5. ASSUME NEW p \in Reporters,
             \/ Overtake(p) \/ Raise(p) \/ LookUpReporter(p) \/ MarkStale(p)
             \/ RefuseReport(p)
             \/ \E r \in Readers : Resolve(p, r)
      PROVE  IInv'
  BY <1>5, OvertakeStep, RaiseStep, LookUpReporterStep, MarkStaleStep, RefuseReportStep,
     ResolveStep
<1> QED
  BY <1>1, <1>2, <1>3, <1>4, <1>5 DEF Next

LEMMA StutterKeeps ==
    ASSUME IInv, UNCHANGED vars
    PROVE  IInv'
<1>1. /\ UNCHANGED <<home, lastMat, pairing, grant, issued, audits>> /\ UNCHANGED rec
      /\ UNCHANGED <<lastInc, reports>> /\ UNCHANGED <<mem, fetches, readers, reporters>>
  BY DEF vars, homeVars, counts
<1>2. HomeInv' /\ IssueInv' /\ GrantInv' /\ FetchInv' /\ MemInv' /\ ReadersInv' /\ ReportersInv'
  BY <1>1, HomeStays, FetchesStay, RequesterStays
<1>3. TypeOK'
  BY <1>1 DEF IInv, TypeOK
<1> QED
  BY <1>2, <1>3 DEF IInv

\* The conjunction above is an inductive invariant of the two vaults.
THEOREM Inductive == Spec => []IInv
<1>1. Init => IInv
  BY InitInv
<1>2. IInv /\ [Next]_vars => IInv'
  BY Steps, StutterKeeps
<1> QED
  BY <1>1, <1>2, PTL DEF Spec

\* Every variable keeps its type: what is counted stays within its bound, and what
\* is applied to the record and the cache is a token that was read.
THEOREM TypeCorrect == Spec => []TypeOK
<1>1. IInv => TypeOK
  BY DEF IInv
<1> QED
  BY <1>1, Inductive, PTL

\* remote_token authorizes a call only by a grant of the pairing at the call's start
\* or a later one, although the pairing is looked up before the grants are.
THEOREM GrantsAreCurrent == Spec => []ServedUnderCurrentGrant
<1>1. IInv => ServedUnderCurrentGrant
  BY DEF IInv, GrantInv, ServedUnderCurrentGrant
<1> QED
  BY <1>1, Inductive, PTL

\* record_remote_issue_audited: every token that left the home is in its chain under
\* the material it was read from, once.
THEOREM IssuesAreAudited == Spec => []IssuedIsAudited
<1>1. IInv => IssuedIsAudited
  <2> SUFFICES ASSUME IInv PROVE IssuedIsAudited
    OBVIOUS
  <2>1. \A m \in Materials : audits[m] \in {0, 1}
        /\ ((\E i \in issued : i[2] = m) => audits[m] = 1)
    BY DEF IInv, IssueInv
  <2>2. ASSUME NEW f \in Fetches, fetches[f].answer = "token"
        PROVE  audits[fetches[f].got.mat] = 1
    <3>1. fetches[f].got \in Token /\ <<fetches[f].got.ver, fetches[f].got.mat>> \in issued
      BY <2>2, FetchFacts DEF IInv, FetchInv
    <3>2. fetches[f].got.mat \in Materials
      BY <3>1 DEF Token
    <3> QED
      BY <2>1, <3>1, <3>2
  <2> QED
    BY <2>1, <2>2 DEF IssuedIsAudited
<1> QED
  BY <1>1, Inductive, PTL

\* report and run_flight: a read that begins after a report or a verdict joins no
\* fetch that was overtaken and is served no version reported since it was fetched.
THEOREM ReportsComeFirst == Spec => []ReadsAfterReports
<1>1. IInv => ReadsAfterReports
  BY DEF IInv, ReadersInv, ReadsAfterReports
<1> QED
  BY <1>1, Inductive, PTL

\* Only Finish ends a fetch that was answered.
LEMMA OnlyFinishEnds ==
    ASSUME IInv, Next, NEW f \in Fetches, fetches[f].at = "answered",
           fetches'[f].at = "done"
    PROVE  Finish(f)
<1>1. fetches \in [Fetches -> Fetch]
  BY FetchFacts DEF IInv
<1>2. fetches' # fetches
  OBVIOUS
<1>3. ~Restart
  BY DEF Restart, NoFetch
<1>4. ~Grant
  <2>1. fetches[f] \in Fetch /\ [fetches[f] EXCEPT !.lacks = 0].at = fetches[f].at
    BY <1>1 DEF Fetch
  <2> QED
    BY <2>1 DEF Grant, Granted
<1>5. ~(\/ Add \/ IssueForAdd \/ Remove \/ Relogin \/ RemoveHome \/ Recreate
        \/ Revoke \/ RePair)
  BY <1>2 DEF Add, IssueForAdd, Remove, Relogin, RemoveHome, Recreate, Revoke, RePair
<1>6. \A r \in Readers : ~(Check(r) \/ Enter(r) \/ Deliver(r) \/ Leave(r))
  BY <1>1, <1>2 DEF Check, Enter, Deliver, Leave, Unstarted
<1>7. \A p \in Reporters :
        ~(\/ Overtake(p) \/ Raise(p) \/ LookUpReporter(p) \/ MarkStale(p)
          \/ RefuseReport(p) \/ \E r \in Readers : Resolve(p, r))
  <2>1. \A p \in Reporters :
          ~(\/ Raise(p) \/ LookUpReporter(p) \/ MarkStale(p)
            \/ RefuseReport(p) \/ \E r \in Readers : Resolve(p, r))
    BY <1>2 DEF Raise, LookUpReporter, MarkStale, RefuseReport, Resolve
  <2>2. ASSUME NEW p \in Reporters, Overtake(p) PROVE FALSE
    <3>1. reporters[p].ver \in Overtakers /\ fetches' = Overtaken(reporters[p].ver, Started)
      BY <2>2 DEF Overtake, IInv, ReportersInv, Overtakers
    <3> QED
      BY <3>1, OvertakenFacts DEF Alike
  <2> QED
    BY <2>1, <2>2
<1>8. ASSUME NEW g \in Fetches,
             Fail(g) \/ LookUpPairing(g) \/ Authorize(g) \/ Read(g) \/ Issue(g)
      PROVE  FALSE
  <2>1. ASSUME NEW answer, fetches' = Reply(g, answer) PROVE FALSE
    BY <1>1, <2>1 DEF Reply, Fetch
  <2>2. ASSUME NEW answer, fetches' = [Reply(g, answer) EXCEPT ![g].got = None] PROVE FALSE
    BY <1>1, <2>2 DEF Reply, Fetch
  <2>3. CASE Fail(g)
    BY <2>2, <2>3 DEF Fail
  <2>4. CASE LookUpPairing(g)
    BY <1>1, <2>1, <2>4 DEF LookUpPairing
  <2>5. CASE Authorize(g) \/ Read(g) \/ Issue(g)
    BY <1>1, <2>1, <2>2, <2>5 DEF Authorize, Read, Issue, Serve
  <2> QED
    BY <1>8, <2>3, <2>4, <2>5
<1>9. ASSUME NEW g \in Fetches, Finish(g)
      PROVE  g = f
  <2> SUFFICES ASSUME g # f PROVE FALSE
    OBVIOUS
  <2>1. fetches[g].at = "answered"
        /\ (fetches' = Done(fetches, g) \/ fetches' = Done(Overtaken(Verdict, Started \ {g}), g))
    BY <1>9 DEF Finish
  <2>2. CASE fetches' = Done(fetches, g)
    BY <1>1, <2>2, DoneFacts
  <2>3. CASE fetches' = Done(Overtaken(Verdict, Started \ {g}), g)
    <3>1. Verdict \in Overtakers
      BY DEF Overtakers
    <3> DEFINE fs == Overtaken(Verdict, Started \ {g})
    <3>2. fs \in [Fetches -> Fetch] /\ Alike(fs[f], fetches[f])
      BY <3>1, OvertakenFacts
    <3> HIDE DEF fs
    <3>3. fetches'[f] = fs[f]
      BY <2>3, <3>2, DoneFacts DEF fs
    <3> QED
      BY <3>2, <3>3 DEF Alike
  <2> QED
    BY <2>1, <2>2, <2>3
<1> QED
  BY <1>3, <1>4, <1>5, <1>6, <1>7, <1>8, <1>9 DEF Next

\* apply after a report or a verdict: the generation is no longer the one the fetch
\* was started in, so its answer reaches neither the record nor the cache.
THEOREM OvertakenAreDropped == Spec => OvertakenApplyNothing
<1> DEFINE Dropped(f) ==
        /\ fetches[f].at = "answered" /\ fetches'[f].at = "done"
        /\ fetches[f].after # {} /\ InState(f)
        => rec' = rec /\ mem'.cache = mem.cache /\ mem'.gen = mem.gen
<1>1. ASSUME IInv, Next, NEW f \in Fetches
      PROVE  Dropped(f)
  <2> SUFFICES ASSUME fetches[f].at = "answered", fetches'[f].at = "done",
                      fetches[f].after # {}, InState(f)
               PROVE  rec' = rec /\ mem'.cache = mem.cache /\ mem'.gen = mem.gen
    OBVIOUS
  <2>1. Finish(f)
    BY <1>1, OnlyFinishEnds
  <2>2. /\ mem # None /\ mem \in IdState /\ mem.gen \in Nat /\ fetches[f].gen \in Nat
        /\ Good(mem, fetches) /\ f \in mem.own
    BY <1>1, MemFacts, FetchFacts DEF InState, IInv, MemInv
  <2>3. fetches[f].gen < mem.gen
    BY <2>2 DEF Good, Busy
  <2>4. ~Applies(f)
    BY <2>2, <2>3 DEF Applies
  <2>5. rec' = rec /\ mem' = IF SameState(f) THEN Retired(mem, f) ELSE mem
    BY <2>1, <2>4 DEF Finish
  <2> QED
    BY <2>2, <2>5, RetiredFacts
<1>2. IInv /\ [Next]_vars => [\A f \in Fetches : Dropped(f)]_vars
  BY <1>1
<1> QED
  BY <1>2, Inductive, PTL DEF Spec, OvertakenApplyNothing
=============================================================================
