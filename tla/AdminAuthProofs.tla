--------------------------- MODULE AdminAuthProofs ---------------------------
(***************************************************************************)
(* Proofs about AdminAuth, for every finite set of channels, every set of  *)
(* requests and bodies, and every bound.                                   *)
(***************************************************************************)
EXTENDS AdminAuth, FiniteSetTheorems, TLAPS

-----------------------------------------------------------------------------
(* The inductive invariant.                                                *)

\* A nonce that a bind holds was issued to that bind.
HeldWasIssued ==
    \A ch \in Channels :
       bind[ch] # None /\ bind[ch].nonce # 0 =>
          /\ bind[ch].nonce <= minted
          /\ issued[bind[ch].nonce] = <<ch, bind[ch].epoch>>

\* A tag that a request carries was signed.
TagsAreSigned == \A r \in Requests : req[r].tag # None => req[r].tag \in signed

\* A claimed nonce was issued, to the bind of the request that claimed it, and
\* no bind holds it any more.
ClaimedWasIssued ==
    \A r \in Requests :
       req[r].pc = "claimed" =>
          /\ req[r].tag \in Tags /\ req[r].tag[1] <= minted
          /\ req[r].tag[2] = req[r].body /\ req[r].direct
          /\ issued[req[r].tag[1]] = <<req[r].ch, req[r].epoch>>
ClaimedIsGone ==
    \A r \in Requests, ch \in Channels :
       req[r].pc = "claimed" /\ bind[ch] # None
          => bind[ch].nonce # req[r].tag[1]

\* A request that waits to run was accepted on a channel.
AcceptedOnChannel ==
    \A r \in Requests : req[r].pc = "accepted" => req[r].ch \in Channels

IInv == /\ TypeOK /\ CountsNonces /\ HeldWasIssued /\ TagsAreSigned
        /\ ClaimedWasIssued /\ ClaimedIsGone /\ OncePerNonce
        /\ AcceptedOnChannel

-----------------------------------------------------------------------------
(* Types.                                                                  *)

\* The bounds are naturals, and nonces are positive.
LEMMA Bounds ==
    /\ MaxOutstanding \in Nat /\ MaxEpoch \in Nat /\ MaxNonce \in Nat
    /\ 0 \in 0..MaxNonce /\ 0 \in 0..MaxEpoch
    /\ Nonces \subseteq Nat \ {0} /\ Nonces \subseteq 0..MaxNonce
BY ConstantsAssumption DEF Nonces

\* The fields of a bound channel.
LEMMA BindType ==
    ASSUME NEW b \in [Channels -> BindState \cup {None}],
           NEW ch \in Channels, b[ch] # None
    PROVE  /\ b[ch] \in BindState /\ b[ch].epoch \in 1..MaxEpoch
           /\ b[ch].epoch \in 0..MaxEpoch /\ b[ch].direct \in BOOLEAN
           /\ b[ch].nonce \in 0..MaxNonce /\ b[ch].nonce \in Nat
           /\ b[ch].nonce # 0 => b[ch].nonce \in Nonces
           /\ b[ch].old \in BOOLEAN
<1>1. b[ch] \in BindState OBVIOUS
<1> QED BY <1>1, Bounds DEF BindState, Nonces

\* A bind is not None.
LEMMA BindIsBound == ASSUME NEW x \in BindState PROVE x # None
BY NoneAssumption

\* Giving a bind a nonce, or none, changes nothing else of it but its age.
LEMMA WithNonceType ==
    ASSUME NEW x \in BindState, NEW n \in 0..MaxNonce
    PROVE  /\ WithNonce(x, n) \in BindState /\ WithNonce(x, n) # None
           /\ WithNonce(x, n).nonce = n /\ WithNonce(x, n).epoch = x.epoch
           /\ WithNonce(x, n).direct = x.direct /\ ~WithNonce(x, n).old
<1>1. /\ WithNonce(x, n) \in BindState
      /\ WithNonce(x, n).nonce = n /\ WithNonce(x, n).epoch = x.epoch
      /\ WithNonce(x, n).direct = x.direct /\ ~WithNonce(x, n).old
    BY DEF BindState, WithNonce
<1> QED BY <1>1, BindIsBound

\* The fields of a request.
LEMMA ReqType ==
    ASSUME TypeOK, NEW r \in Requests
    PROVE  /\ req[r] \in Request /\ req[r].ch \in Channels \cup {None}
           /\ req[r].epoch \in 0..MaxEpoch /\ req[r].direct \in BOOLEAN
           /\ req[r].tag \in Tags \cup {None}
           /\ req[r].body \in Bodies \cup {None}
<1>1. req[r] \in Request BY DEF TypeOK
<1> QED BY <1>1 DEF Request

\* An answer changes where one request is, and nothing else of any.
LEMMA AnswerType ==
    ASSUME TypeOK, NEW r \in Requests,
           NEW pc \in {"answered", "full", "claimed", "refused"},
           Answer(r, pc)
    PROVE  /\ req' \in [Requests -> Request] /\ req'[r].pc = pc
           /\ \A s \in Requests : s # r => req'[s] = req[s]
           /\ \A s \in Requests :
                 /\ req'[s].tag = req[s].tag /\ req'[s].body = req[s].body
                 /\ req'[s].ch = req[s].ch /\ req'[s].epoch = req[s].epoch
                 /\ req'[s].direct = req[s].direct
<1> DEFINE x == [req[r] EXCEPT !.pc = pc]
<1>1. req[r] \in Request BY ReqType
<1>2. /\ x \in Request /\ x.pc = pc /\ x.tag = req[r].tag
      /\ x.body = req[r].body /\ x.ch = req[r].ch /\ x.epoch = req[r].epoch
      /\ x.direct = req[r].direct
    BY <1>1 DEF Request
<1>3. req' = [req EXCEPT ![r] = x] BY DEF Answer
<1> HIDE DEF x
<1>4. req' \in [Requests -> Request] /\ req'[r] = x
      /\ \A s \in Requests : s # r => req'[s] = req[s]
    BY <1>2, <1>3 DEF TypeOK
<1> QED BY <1>2, <1>4

\* A channel that a direct request was accepted on is one.
LEMMA SameDirectBindType ==
    ASSUME TypeOK, NEW r \in Requests, req[r].ch \in Channels,
           NEW b, SameDirectBind(r, b)
    PROVE  b[req[r].ch] # None /\ b[req[r].ch].epoch = req[r].epoch /\ req[r].direct
BY DEF SameDirectBind

-----------------------------------------------------------------------------
(* Counting.                                                               *)

\* The sets that are counted are finite.
LEMMA HoldingFinite ==
    ASSUME NEW b
    PROVE  /\ IsFiniteSet(Holding(b)) /\ Cardinality(Holding(b)) \in Nat
           /\ IsFiniteSet(Expired(b)) /\ Cardinality(Expired(b)) \in Nat
<1>1. Holding(b) \in SUBSET Channels /\ Expired(b) \in SUBSET Channels
    BY DEF Holding, Expired
<1>2. IsFiniteSet(Holding(b)) /\ IsFiniteSet(Expired(b))
    BY <1>1, ConstantsAssumption, FS_Subset
<1> QED BY <1>2, FS_CardinalityType

\* A nonce less, one more, and the expired ones less.
LEMMA OneLess ==
    ASSUME CountsNonces, NEW ch, Holding(bind)' = Holding(bind) \ {ch},
           outstanding' = outstanding - (IF ch \in Holding(bind) THEN 1 ELSE 0)
    PROVE  CountsNonces' /\ outstanding' \in Nat
<1>1. IsFiniteSet(Holding(bind)) /\ Cardinality(Holding(bind)) \in Nat
    BY HoldingFinite
<1>2. /\ Cardinality(Holding(bind) \ {ch}) =
            IF ch \in Holding(bind) THEN Cardinality(Holding(bind)) - 1
            ELSE Cardinality(Holding(bind))
      /\ IsFiniteSet(Holding(bind) \ {ch})
    BY <1>1, FS_RemoveElement
<1>3. Cardinality(Holding(bind) \ {ch}) \in Nat BY <1>2, FS_CardinalityType
<1> QED BY <1>1, <1>2, <1>3, Bounds DEF CountsNonces

\* Without the expired challenges, the counter counts those that are left.
LEMMA ExpiredLess ==
    ASSUME CountsNonces
    PROVE  /\ IsFiniteSet(Holding(bind) \ Expired(bind))
           /\ Cardinality(Holding(bind) \ Expired(bind)) \in Nat
           /\ outstanding - Cardinality(Expired(bind))
                = Cardinality(Holding(bind) \ Expired(bind))
           /\ Cardinality(Holding(bind) \ Expired(bind)) <= MaxOutstanding
<1>1. /\ IsFiniteSet(Holding(bind)) /\ Cardinality(Holding(bind)) \in Nat
      /\ IsFiniteSet(Expired(bind)) /\ Cardinality(Expired(bind)) \in Nat
    BY HoldingFinite
<1>2. Expired(bind) \subseteq Holding(bind) BY DEF Expired
<1>3. /\ IsFiniteSet(Holding(bind) \ Expired(bind))
      /\ Cardinality(Holding(bind) \ Expired(bind))
           = Cardinality(Holding(bind)) - Cardinality(Holding(bind) \cap Expired(bind))
    BY <1>1, FS_Difference
<1>4. Holding(bind) \cap Expired(bind) = Expired(bind) BY <1>2
<1>5. Cardinality(Holding(bind) \ Expired(bind)) \in Nat
    BY <1>3, FS_CardinalityType
<1> QED BY <1>1, <1>3, <1>4, <1>5, Bounds DEF CountsNonces

-----------------------------------------------------------------------------
(* Steps that issue nothing and claim nothing.                             *)

\* Binds may lose their nonces, and no bind gets one.
Shrunk ==
    \A ch \in Channels :
       bind'[ch] # None /\ bind'[ch].nonce # 0 =>
          /\ bind[ch] # None /\ bind'[ch].nonce = bind[ch].nonce
          /\ bind'[ch].epoch = bind[ch].epoch

\* No request claims a nonce, and those that did stay as they are.
NoNewClaim ==
    \A r \in Requests :
       req'[r].pc = "claimed" => req[r].pc = "claimed" /\ req'[r] = req[r]

\* Such a step leaves what the invariant says of held and claimed nonces.
LEMMA Keeps ==
    ASSUME IInv, TypeOK', Shrunk, NoNewClaim, minted' = minted,
           issued' = issued
    PROVE  HeldWasIssued' /\ ClaimedWasIssued' /\ ClaimedIsGone' /\ OncePerNonce'
<1>1. HeldWasIssued'
    BY DEF IInv, Shrunk, HeldWasIssued
<1>2. ClaimedWasIssued'
    BY DEF IInv, NoNewClaim, ClaimedWasIssued
<1>3. ClaimedIsGone'
  <2> SUFFICES ASSUME NEW r \in Requests, NEW ch \in Channels,
                      req'[r].pc = "claimed", bind'[ch] # None
               PROVE  bind'[ch].nonce # req'[r].tag[1]
      BY DEF ClaimedIsGone
  <2>1. req[r].pc = "claimed" /\ req'[r] = req[r] BY DEF NoNewClaim
  <2>2. req[r].tag \in Tags BY <2>1 DEF IInv, ClaimedWasIssued
  <2>3. req[r].tag[1] \in Nat \ {0} BY <2>2, Bounds DEF Tags
  <2>4. CASE bind'[ch].nonce = 0 BY <2>1, <2>3, <2>4
  <2>5. CASE bind'[ch].nonce # 0
    <3>1. bind[ch] # None /\ bind'[ch].nonce = bind[ch].nonce
        BY <2>5 DEF Shrunk
    <3> QED BY <3>1, <2>1 DEF IInv, ClaimedIsGone
  <2> QED BY <2>4, <2>5
<1>4. OncePerNonce'
    BY DEF IInv, NoNewClaim, OncePerNonce
<1> QED BY <1>1, <1>2, <1>3, <1>4

\* A channel's bind is replaced by one without a nonce, or by none.
LEMMA Replaced ==
    ASSUME TypeOK, NEW ch \in Channels, NEW x \in BindState \cup {None},
           x # None => x.nonce = 0, bind' = [bind EXCEPT ![ch] = x]
    PROVE  /\ bind' \in [Channels -> BindState \cup {None}] /\ Shrunk
           /\ Holding(bind)' = Holding(bind) \ {ch}
<1>1. /\ bind' \in [Channels -> BindState \cup {None}] /\ bind'[ch] = x
      /\ \A c \in Channels : c # ch => bind'[c] = bind[c]
    BY DEF TypeOK
<1>2. Shrunk BY <1>1 DEF Shrunk
<1>3. Holding(bind)' = Holding(bind) \ {ch} BY <1>1 DEF Holding
<1> QED BY <1>1, <1>2, <1>3

\* Nothing happens to the binds.
LEMMA SameBinds ==
    ASSUME IInv, bind' = bind, outstanding' = outstanding
    PROVE  Shrunk /\ CountsNonces'
BY DEF Shrunk, IInv, CountsNonces, Holding

\* An answer that claims nothing.
LEMMA Unclaimed ==
    ASSUME IInv, NEW r \in Requests, NEW pc \in {"answered", "full", "refused"},
           Answer(r, pc), signed' = signed
    PROVE  NoNewClaim /\ TagsAreSigned' /\ AcceptedOnChannel'
<1>1. TypeOK BY DEF IInv
<1>2. /\ req'[r].pc = pc
      /\ \A s \in Requests : s # r => req'[s] = req[s]
      /\ \A s \in Requests : req'[s].tag = req[s].tag /\ req'[s].ch = req[s].ch
    BY <1>1, AnswerType
<1>3. NoNewClaim BY <1>2 DEF NoNewClaim
<1>4. TagsAreSigned' BY <1>2 DEF TagsAreSigned, IInv
<1>5. AcceptedOnChannel' BY <1>2 DEF AcceptedOnChannel, IInv
<1> QED BY <1>3, <1>4, <1>5

\* The requests do not move.
LEMMA SameRequests ==
    ASSUME IInv, req' = req, signed \subseteq signed'
    PROVE  NoNewClaim /\ TagsAreSigned' /\ AcceptedOnChannel'
BY DEF NoNewClaim, IInv, TagsAreSigned, AcceptedOnChannel

\* The invariant holds before the first bind.
LEMMA InitIInv == Init => IInv
<1> SUFFICES ASSUME Init PROVE IInv OBVIOUS
<1>1. TypeOK
  <2>1. req \in [Requests -> Request]
      BY Bounds DEF Init, Request
  <2> QED BY <2>1, Bounds DEF Init, TypeOK
<1>2. CountsNonces
  <2>1. Holding(bind) = {} BY DEF Init, Holding
  <2>2. Cardinality(Holding(bind)) = 0 BY <2>1, FS_EmptySet
  <2> QED BY <2>2, Bounds DEF CountsNonces, Init
<1>3. \A r \in Requests : req[r].pc = "new" /\ req[r].tag = None
    BY DEF Init
<1>4. HeldWasIssued BY DEF HeldWasIssued, Init
<1>5. TagsAreSigned BY <1>3 DEF TagsAreSigned
<1>6. ClaimedWasIssued /\ ClaimedIsGone /\ OncePerNonce /\ AcceptedOnChannel
    BY <1>3 DEF ClaimedWasIssued, ClaimedIsGone, OncePerNonce, AcceptedOnChannel
<1> QED BY <1>1, <1>2, <1>4, <1>5, <1>6 DEF IInv

\* record_bind_at takes the replaced bind's nonce off the counter.
LEMMA BindStep ==
    ASSUME IInv, NEW ch \in Channels, NEW direct \in BOOLEAN, Bind(ch, direct)
    PROVE  IInv'
<1> DEFINE x == [epoch |-> epoch[ch] + 1, nonce |-> 0, direct |-> direct,
                 old |-> FALSE]
<1>0. TypeOK BY DEF IInv
<1>1. epoch[ch] + 1 \in 1..MaxEpoch /\ epoch' \in [Channels -> 0..MaxEpoch]
    BY <1>0, Bounds DEF TypeOK, Bind
<1>2. x \in BindState /\ x.nonce = 0 BY <1>1, Bounds DEF BindState
<1>3. bind' = [bind EXCEPT ![ch] = x] BY DEF Bind
<1> HIDE DEF x
<1>4. /\ bind' \in [Channels -> BindState \cup {None}] /\ Shrunk
      /\ Holding(bind)' = Holding(bind) \ {ch}
    BY <1>0, <1>2, <1>3, Replaced
<1>5. CountsNonces' /\ outstanding' \in Nat
    BY <1>4, OneLess DEF IInv, Bind
<1>6. TypeOK' BY <1>0, <1>1, <1>4, <1>5 DEF TypeOK, Bind
<1>7. NoNewClaim /\ TagsAreSigned' /\ AcceptedOnChannel'
    BY SameRequests DEF Bind
<1>8. HeldWasIssued' /\ ClaimedWasIssued' /\ ClaimedIsGone' /\ OncePerNonce'
    BY <1>4, <1>6, <1>7, Keeps DEF Bind
<1> QED BY <1>5, <1>6, <1>7, <1>8 DEF IInv

\* drop_bind takes the bind's nonce off the counter.
LEMMA DropBindStep ==
    ASSUME IInv, NEW ch \in Channels, DropBind(ch) PROVE IInv'
<1>0. TypeOK BY DEF IInv
<1>4. /\ bind' \in [Channels -> BindState \cup {None}] /\ Shrunk
      /\ Holding(bind)' = Holding(bind) \ {ch}
    BY <1>0, Replaced DEF DropBind
<1>5. CountsNonces' /\ outstanding' \in Nat
    BY <1>4, OneLess DEF IInv, DropBind
<1>6. TypeOK' BY <1>0, <1>4, <1>5 DEF TypeOK, DropBind
<1>7. NoNewClaim /\ TagsAreSigned' /\ AcceptedOnChannel'
    BY SameRequests DEF DropBind
<1>8. HeldWasIssued' /\ ClaimedWasIssued' /\ ClaimedIsGone' /\ OncePerNonce'
    BY <1>4, <1>6, <1>7, Keeps DEF DropBind
<1> QED BY <1>5, <1>6, <1>7, <1>8 DEF IInv

\* The passing of NONCE_TTL leaves a nonce on its bind.
LEMMA ExpireStep ==
    ASSUME IInv, NEW ch \in Channels, Expire(ch) PROVE IInv'
<1> DEFINE x == [bind[ch] EXCEPT !.old = TRUE]
<1>0. TypeOK BY DEF IInv
<1>1. bind[ch] # None BY DEF Expire, Holding
<1>2. bind[ch] \in BindState BY <1>0, <1>1, BindType DEF TypeOK
<1>3. /\ x \in BindState /\ x.nonce = bind[ch].nonce
      /\ x.epoch = bind[ch].epoch
    BY <1>2 DEF BindState
<1>4. x # None BY <1>3, BindIsBound
<1>5. bind' = [bind EXCEPT ![ch] = x] BY DEF Expire
<1> HIDE DEF x
<1>6. /\ bind' \in [Channels -> BindState \cup {None}] /\ bind'[ch] = x
      /\ \A c \in Channels : c # ch => bind'[c] = bind[c]
    BY <1>0, <1>3, <1>5 DEF TypeOK
<1>7. Shrunk BY <1>1, <1>3, <1>6 DEF Shrunk
<1>8. Holding(bind)' = Holding(bind) BY <1>1, <1>3, <1>4, <1>6 DEF Holding
<1>9. CountsNonces' BY <1>8 DEF CountsNonces, IInv, Expire
<1>10. TypeOK' BY <1>0, <1>6 DEF TypeOK, Expire
<1>11. NoNewClaim /\ TagsAreSigned' /\ AcceptedOnChannel'
    BY SameRequests DEF Expire
<1>12. HeldWasIssued' /\ ClaimedWasIssued' /\ ClaimedIsGone' /\ OncePerNonce'
    BY <1>7, <1>10, <1>11, Keeps DEF Expire
<1> QED BY <1>9, <1>10, <1>11, <1>12 DEF IInv

\* An accepted request carries only tags that were signed.
LEMMA AcceptStep ==
    ASSUME IInv, NEW r \in Requests, NEW ch \in Channels,
           NEW kind \in {"challenge", "execute"}, NEW tag \in signed \cup {None},
           NEW body \in Bodies \cup {None}, Accept(r, ch, kind, tag, body)
    PROVE  IInv'
<1> DEFINE x == [pc |-> "accepted", kind |-> kind, ch |-> ch,
                 epoch |-> bind[ch].epoch, direct |-> bind[ch].direct,
                 tag |-> tag, body |-> body]
<1>0. TypeOK BY DEF IInv
<1>1. bind[ch].epoch \in 0..MaxEpoch /\ bind[ch].direct \in BOOLEAN
    BY <1>0, BindType DEF TypeOK, Accept
<1>2. tag \in Tags \cup {None} BY <1>0 DEF TypeOK
<1>3. x \in Request /\ x.pc = "accepted" /\ x.tag = tag /\ x.ch = ch
    BY <1>1, <1>2 DEF Request
<1>4. req' = [req EXCEPT ![r] = x] BY DEF Accept
<1> HIDE DEF x
<1>5. /\ req' \in [Requests -> Request] /\ req'[r] = x
      /\ \A s \in Requests : s # r => req'[s] = req[s]
    BY <1>0, <1>3, <1>4 DEF TypeOK
<1>6. TypeOK' BY <1>0, <1>5 DEF TypeOK, Accept
<1>7. NoNewClaim BY <1>3, <1>5 DEF NoNewClaim
<1>8. TagsAreSigned' BY <1>3, <1>5 DEF TagsAreSigned, IInv, Accept
<1>9. AcceptedOnChannel' BY <1>3, <1>5 DEF AcceptedOnChannel, IInv
<1>10. Shrunk /\ CountsNonces' BY SameBinds DEF Accept
<1>11. HeldWasIssued' /\ ClaimedWasIssued' /\ ClaimedIsGone' /\ OncePerNonce'
    BY <1>6, <1>7, <1>10, Keeps DEF Accept
<1> QED BY <1>6, <1>8, <1>9, <1>10, <1>11 DEF IInv

\* A request refused by gate 1 changes nothing.
LEMMA NotDirectStep ==
    ASSUME IInv, NEW r \in Requests, NotDirect(r) PROVE IInv'
<1>0. TypeOK BY DEF IInv
<1>1. req' \in [Requests -> Request] BY <1>0, AnswerType DEF NotDirect
<1>2. TypeOK' BY <1>0, <1>1 DEF TypeOK, NotDirect
<1>3. NoNewClaim /\ TagsAreSigned' /\ AcceptedOnChannel'
    BY Unclaimed DEF NotDirect
<1>4. Shrunk /\ CountsNonces' BY SameBinds DEF NotDirect
<1>5. HeldWasIssued' /\ ClaimedWasIssued' /\ ClaimedIsGone' /\ OncePerNonce'
    BY <1>2, <1>3, <1>4, Keeps DEF NotDirect
<1> QED BY <1>2, <1>3, <1>4, <1>5 DEF IInv

\* Signing adds a tag and changes no bind.
LEMMA SignStep ==
    ASSUME IInv, NEW n \in Nonces, NEW body \in Bodies, Sign(n, body)
    PROVE  IInv'
<1>0. TypeOK BY DEF IInv
<1>1. signed' \subseteq Tags BY <1>0 DEF Sign, Tags, TypeOK
<1>2. TypeOK' BY <1>0, <1>1 DEF TypeOK, Sign
<1>3. signed \subseteq signed' BY DEF Sign
<1>4. NoNewClaim /\ TagsAreSigned' /\ AcceptedOnChannel'
    BY <1>3, SameRequests DEF Sign
<1>5. Shrunk /\ CountsNonces' BY SameBinds DEF Sign
<1>6. HeldWasIssued' /\ ClaimedWasIssued' /\ ClaimedIsGone' /\ OncePerNonce'
    BY <1>2, <1>4, <1>5, Keeps DEF Sign
<1> QED BY <1>2, <1>4, <1>5, <1>6 DEF IInv

-----------------------------------------------------------------------------
(* execute_as.                                                             *)

\* What a channel that holds a nonce loses when it is dropped.
LEMMA DropsNonce ==
    ASSUME IInv, NEW ch \in Channels, ch \in Holding(bind),
           bind' = [bind EXCEPT ![ch] = WithNonce(bind[ch], 0)],
           outstanding' = outstanding - 1
    PROVE  /\ bind' \in [Channels -> BindState \cup {None}] /\ Shrunk
           /\ CountsNonces' /\ outstanding' \in Nat
           /\ bind'[ch].nonce = 0
           /\ \A c \in Channels : c # ch => bind'[c] = bind[c]
<1> DEFINE x == WithNonce(bind[ch], 0)
<1>0. TypeOK BY DEF IInv
<1>1. bind[ch] # None BY DEF Holding
<1>2. bind[ch] \in BindState BY <1>0, <1>1, BindType DEF TypeOK
<1>3. x \in BindState /\ x.nonce = 0 BY <1>2, WithNonceType, Bounds
<1>4. bind' = [bind EXCEPT ![ch] = x] OBVIOUS
<1> HIDE DEF x
<1>5. /\ bind' \in [Channels -> BindState \cup {None}] /\ Shrunk
      /\ Holding(bind)' = Holding(bind) \ {ch}
    BY <1>0, <1>3, <1>4, Replaced
<1>6. CountsNonces' /\ outstanding' \in Nat BY <1>5, OneLess DEF IInv
<1>7. bind'[ch] = x /\ \A c \in Channels : c # ch => bind'[c] = bind[c]
    BY <1>0, <1>4 DEF TypeOK
<1> QED BY <1>3, <1>5, <1>6, <1>7

\* A claim: the nonce was this bind's alone and nobody claimed it before.
LEMMA ExecuteClaims ==
    ASSUME IInv, NEW r \in Requests, NEW ch \in Channels, ch = req[r].ch,
           SameDirectBind(r, bind), ch \in Holding(bind), Verified(r),
           bind' = [bind EXCEPT ![ch] = WithNonce(bind[ch], 0)],
           outstanding' = outstanding - 1, Answer(r, "claimed"),
           UNCHANGED <<epoch, minted, signed, issued>>
    PROVE  IInv'
<1> DEFINE n == bind[ch].nonce
<1>0. TypeOK BY DEF IInv
<1>1. /\ bind' \in [Channels -> BindState \cup {None}] /\ Shrunk
      /\ CountsNonces' /\ outstanding' \in Nat
      /\ bind'[ch].nonce = 0
      /\ \A c \in Channels : c # ch => bind'[c] = bind[c]
    BY DropsNonce
<1>2. /\ req' \in [Requests -> Request] /\ req'[r].pc = "claimed"
      /\ \A s \in Requests : s # r => req'[s] = req[s]
      /\ \A s \in Requests :
            /\ req'[s].tag = req[s].tag /\ req'[s].body = req[s].body
            /\ req'[s].ch = req[s].ch /\ req'[s].epoch = req[s].epoch
            /\ req'[s].direct = req[s].direct
    BY <1>0, AnswerType
<1>3. TypeOK' BY <1>0, <1>1, <1>2 DEF TypeOK
<1>4. /\ bind[ch] # None /\ n # 0 /\ bind[ch].epoch = req[r].epoch
      /\ req[r].direct
    BY DEF SameDirectBind, Holding
<1>5. n \in Nonces BY <1>0, <1>4, BindType DEF TypeOK
<1>6. req[r].tag # None /\ req[r].tag = <<n, req[r].body>> BY DEF Verified
<1>7. req[r].tag \in Tags BY <1>0, <1>6, ReqType
<1>8. n <= minted /\ issued[n] = <<ch, req[r].epoch>>
    BY <1>4 DEF IInv, HeldWasIssued
<1>9. \A s \in Requests : s # r /\ req'[s].pc = "claimed" =>
         req[s].pc = "claimed" /\ req'[s] = req[s] /\ req[s].tag[1] # n
    BY <1>2, <1>4 DEF IInv, ClaimedIsGone
<1>10. req'[r].tag[1] = n /\ req'[r].tag[2] = req'[r].body
    BY <1>2, <1>6
<1> HIDE DEF n
<1>11. TagsAreSigned' BY <1>2 DEF TagsAreSigned, IInv
<1>12. AcceptedOnChannel' BY <1>2 DEF AcceptedOnChannel, IInv
<1>13. OncePerNonce' BY <1>9, <1>10 DEF OncePerNonce, IInv
<1>14. ClaimedWasIssued'
  <2> SUFFICES ASSUME NEW s \in Requests, req'[s].pc = "claimed"
               PROVE  /\ req'[s].tag \in Tags /\ req'[s].tag[1] <= minted
                      /\ req'[s].tag[2] = req'[s].body /\ req'[s].direct
                      /\ issued[req'[s].tag[1]] = <<req'[s].ch, req'[s].epoch>>
      BY DEF ClaimedWasIssued
  <2>1. CASE s = r BY <2>1, <1>2, <1>4, <1>7, <1>8, <1>10
  <2>2. CASE s # r BY <2>2, <1>9 DEF IInv, ClaimedWasIssued
  <2> QED BY <2>1, <2>2
<1>15. HeldWasIssued' BY <1>1 DEF IInv, Shrunk, HeldWasIssued
<1>16. ClaimedIsGone'
  <2> SUFFICES ASSUME NEW s \in Requests, NEW c \in Channels,
                      req'[s].pc = "claimed", bind'[c] # None
               PROVE  bind'[c].nonce # req'[s].tag[1]
      BY DEF ClaimedIsGone
  <2>1. req'[s].tag[1] \in Nat \ {0}
    <3>1. req'[s].tag \in Tags BY <1>14 DEF ClaimedWasIssued
    <3> QED BY <3>1, Bounds DEF Tags
  <2>2. CASE c = ch BY <2>1, <2>2, <1>1
  <2>3. CASE c # ch /\ s # r BY <2>3, <1>1, <1>9 DEF IInv, ClaimedIsGone
  <2>4. CASE c # ch /\ s = r
    <3> SUFFICES ASSUME bind[c].nonce = n PROVE FALSE BY <2>4, <1>1, <1>10
    <3>1. bind[c] # None /\ bind[c].nonce # 0 BY <2>4, <1>1, <1>5, Bounds
    <3>2. issued[n] = <<c, bind[c].epoch>>
        BY <3>1 DEF IInv, HeldWasIssued
    <3> QED BY <3>2, <1>8, <2>4
  <2> QED BY <2>2, <2>3, <2>4
<1> QED BY <1>1, <1>3, <1>11, <1>12, <1>13, <1>14, <1>15, <1>16 DEF IInv

\* execute_as, whether it claims the nonce, drops it or refuses.
LEMMA ExecuteStep ==
    ASSUME IInv, NEW r \in Requests, Execute(r) PROVE IInv'
<1> DEFINE ch == req[r].ch
<1>0. TypeOK BY DEF IInv
<1>1. ch \in Channels BY DEF IInv, AcceptedOnChannel, Execute
<1>2. CASE /\ SameDirectBind(r, bind) /\ ch \in Holding(bind) /\ Verified(r)
           /\ bind' = [bind EXCEPT ![ch] = WithNonce(bind[ch], 0)]
           /\ outstanding' = outstanding - 1 /\ Answer(r, "claimed")
    BY <1>1, <1>2, ExecuteClaims DEF Execute
<1>3. CASE /\ ch \in Holding(bind) /\ Answer(r, "refused")
           /\ bind' = [bind EXCEPT ![ch] = WithNonce(bind[ch], 0)]
           /\ outstanding' = outstanding - 1
  <2>1. /\ bind' \in [Channels -> BindState \cup {None}] /\ Shrunk
        /\ CountsNonces' /\ outstanding' \in Nat
      BY <1>1, <1>3, DropsNonce
  <2>2. req' \in [Requests -> Request] BY <1>0, <1>3, AnswerType
  <2>3. TypeOK' BY <1>0, <2>1, <2>2 DEF TypeOK, Execute
  <2>4. NoNewClaim /\ TagsAreSigned' /\ AcceptedOnChannel'
      BY <1>3, Unclaimed DEF Execute
  <2>5. HeldWasIssued' /\ ClaimedWasIssued' /\ ClaimedIsGone' /\ OncePerNonce'
      BY <2>1, <2>3, <2>4, Keeps DEF Execute
  <2> QED BY <2>1, <2>3, <2>4, <2>5 DEF IInv
<1>4. CASE Answer(r, "refused") /\ UNCHANGED <<bind, outstanding>>
  <2>1. req' \in [Requests -> Request] BY <1>0, <1>4, AnswerType
  <2>2. TypeOK' BY <1>0, <1>4, <2>1 DEF TypeOK, Execute
  <2>3. NoNewClaim /\ TagsAreSigned' /\ AcceptedOnChannel'
      BY <1>4, Unclaimed DEF Execute
  <2>4. Shrunk /\ CountsNonces' BY <1>4, SameBinds
  <2>5. HeldWasIssued' /\ ClaimedWasIssued' /\ ClaimedIsGone' /\ OncePerNonce'
      BY <2>2, <2>3, <2>4, Keeps DEF Execute
  <2> QED BY <2>2, <2>3, <2>4, <2>5 DEF IInv
<1> QED BY <1>2, <1>3, <1>4 DEF Execute

-----------------------------------------------------------------------------
(* challenge_as.                                                           *)

\* The binds once the expired challenges are dropped.
Sweep == [c \in Channels |->
            IF c \in Expired(bind) THEN WithNonce(bind[c], 0) ELSE bind[c]]

\* The sweep drops the expired challenges and nothing else.
LEMMA SweepDrops ==
    ASSUME IInv
    PROVE  /\ Sweep \in [Channels -> BindState \cup {None}]
           /\ Holding(Sweep) = Holding(bind) \ Expired(bind)
           /\ \A c \in Channels :
                 /\ Sweep[c] # None <=> bind[c] # None
                 /\ Sweep[c] # None => Sweep[c].epoch = bind[c].epoch
                 /\ Sweep[c] # None /\ Sweep[c].nonce # 0 =>
                       Sweep[c].nonce = bind[c].nonce
                 /\ c \notin Expired(bind) => Sweep[c] = bind[c]
<1>0. TypeOK BY DEF IInv
<1>1. ASSUME NEW c \in Channels
      PROVE  /\ Sweep[c] \in BindState \cup {None}
             /\ Sweep[c] # None <=> bind[c] # None
             /\ Sweep[c] # None => Sweep[c].epoch = bind[c].epoch
             /\ c \in Expired(bind) => Sweep[c] # None /\ Sweep[c].nonce = 0
             /\ c \notin Expired(bind) => Sweep[c] = bind[c]
  <2>1. CASE c \in Expired(bind)
    <3>1. bind[c] # None BY <2>1 DEF Expired, Holding
    <3>2. bind[c] \in BindState BY <1>0, <3>1, BindType DEF TypeOK
    <3>3. Sweep[c] = WithNonce(bind[c], 0) BY <2>1 DEF Sweep
    <3>4. /\ WithNonce(bind[c], 0) \in BindState
          /\ WithNonce(bind[c], 0) # None
          /\ WithNonce(bind[c], 0).nonce = 0
          /\ WithNonce(bind[c], 0).epoch = bind[c].epoch
        BY <3>2, WithNonceType, Bounds
    <3> QED BY <2>1, <3>1, <3>3, <3>4
  <2>2. CASE c \notin Expired(bind)
    <3>1. Sweep[c] = bind[c] BY <2>2 DEF Sweep
    <3> QED BY <1>0, <2>2, <3>1 DEF TypeOK
  <2> QED BY <2>1, <2>2
<1>2. Sweep \in [Channels -> BindState \cup {None}] BY <1>1 DEF Sweep
<1>3. Holding(Sweep) = Holding(bind) \ Expired(bind)
    BY <1>1 DEF Holding, Expired
<1> QED BY <1>1, <1>2, <1>3

\* A challenge that is issued is fresh and within the cap.
LEMMA ChallengeIssues ==
    ASSUME IInv, NEW r \in Requests, NEW ch \in Channels, ch = req[r].ch,
           NEW left, left = outstanding - Cardinality(Expired(bind)),
           SameDirectBind(r, Sweep),
           ch \in Holding(Sweep) \/ left < MaxOutstanding,
           minted < MaxNonce, minted' = minted + 1,
           bind' = [Sweep EXCEPT ![ch] = WithNonce(Sweep[ch], minted + 1)],
           outstanding' = left + (IF ch \in Holding(Sweep) THEN 0 ELSE 1),
           issued' = [issued EXCEPT ![minted + 1] = <<ch, req[r].epoch>>],
           Answer(r, "answered"), UNCHANGED <<epoch, signed>>
    PROVE  IInv'
<1> DEFINE n == minted + 1
           x == WithNonce(Sweep[ch], n)
<1>0. TypeOK BY DEF IInv
<1>1. /\ Sweep \in [Channels -> BindState \cup {None}]
      /\ Holding(Sweep) = Holding(bind) \ Expired(bind)
      /\ \A c \in Channels :
            /\ Sweep[c] # None <=> bind[c] # None
            /\ Sweep[c] # None => Sweep[c].epoch = bind[c].epoch
            /\ Sweep[c] # None /\ Sweep[c].nonce # 0 =>
                  Sweep[c].nonce = bind[c].nonce
    BY SweepDrops
<1>2. Sweep[ch] # None /\ Sweep[ch].epoch = req[r].epoch
    BY DEF SameDirectBind
<1>3. Sweep[ch] \in BindState BY <1>1, <1>2, BindType
<1>4. /\ n \in Nonces /\ n \in 0..MaxNonce /\ n \in Nat /\ n # 0
      /\ minted \in Nat /\ minted' \in 0..MaxNonce
    BY <1>0, Bounds DEF TypeOK, Nonces
<1>5. x \in BindState /\ x # None /\ x.nonce = n /\ x.epoch = req[r].epoch
    BY <1>2, <1>3, <1>4, WithNonceType
<1>6. bind' = [Sweep EXCEPT ![ch] = x] /\ minted' = n
      /\ issued' = [issued EXCEPT ![n] = <<ch, req[r].epoch>>]
    OBVIOUS
<1>7. minted < n /\ \A k \in Nat : k <= minted => k <= n /\ k # n
    BY <1>4
<1> HIDE DEF n, x
<1>8. /\ bind' \in [Channels -> BindState \cup {None}] /\ bind'[ch] = x
      /\ \A c \in Channels : c # ch => bind'[c] = Sweep[c]
    BY <1>1, <1>5, <1>6
<1>9. /\ req' \in [Requests -> Request]
      /\ NoNewClaim /\ TagsAreSigned' /\ AcceptedOnChannel'
    BY <1>0, AnswerType, Unclaimed
<1>10. CountsNonces' /\ outstanding' \in Nat
  <2>1. Holding(bind)' = Holding(Sweep) \cup {ch}
      BY <1>4, <1>5, <1>8 DEF Holding
  <2>2. /\ IsFiniteSet(Holding(Sweep)) /\ Cardinality(Holding(Sweep)) \in Nat
        /\ left = Cardinality(Holding(Sweep))
        /\ Cardinality(Holding(Sweep)) <= MaxOutstanding
      BY <1>1, ExpiredLess DEF IInv
  <2>3. Cardinality(Holding(Sweep) \cup {ch}) =
           IF ch \in Holding(Sweep) THEN Cardinality(Holding(Sweep))
           ELSE Cardinality(Holding(Sweep)) + 1
      BY <2>2, FS_AddElement
  <2> DEFINE k == Cardinality(Holding(Sweep))
  <2>4. CASE ch \in Holding(Sweep)
    <3>1. outstanding' = k /\ Cardinality(Holding(Sweep) \cup {ch}) = k
        BY <2>2, <2>3, <2>4
    <3> QED BY <2>1, <2>2, <3>1 DEF CountsNonces
  <2>5. CASE ch \notin Holding(Sweep)
    <3>1. /\ outstanding' = k + 1 /\ k < MaxOutstanding
          /\ Cardinality(Holding(Sweep) \cup {ch}) = k + 1
        BY <2>2, <2>3, <2>5
    <3>2. k + 1 \in Nat /\ k + 1 <= MaxOutstanding BY <2>2, <3>1, Bounds
    <3> QED BY <2>1, <3>1, <3>2 DEF CountsNonces
  <2> QED BY <2>4, <2>5
<1>11. /\ issued' \in [Nonces -> (Channels \cup {None}) \X (0..MaxEpoch)]
       /\ issued'[n] = <<ch, req[r].epoch>>
       /\ \A k \in Nonces : k # n => issued'[k] = issued[k]
    BY <1>0, <1>4, <1>6, ReqType DEF TypeOK
<1>12. TypeOK' BY <1>0, <1>4, <1>8, <1>9, <1>10, <1>11 DEF TypeOK
<1>13. HeldWasIssued'
  <2> SUFFICES ASSUME NEW c \in Channels, bind'[c] # None, bind'[c].nonce # 0
               PROVE  /\ bind'[c].nonce <= minted'
                      /\ issued'[bind'[c].nonce] = <<c, bind'[c].epoch>>
      BY DEF HeldWasIssued
  <2>1. CASE c = ch BY <2>1, <1>4, <1>5, <1>6, <1>8, <1>11
  <2>2. CASE c # ch
    <3>1. /\ bind[c] # None /\ bind'[c].nonce = bind[c].nonce
          /\ bind'[c].epoch = bind[c].epoch
        BY <2>2, <1>1, <1>8
    <3>2. bind[c].nonce \in Nonces /\ bind[c].nonce \in Nat
        BY <3>1, <1>0, BindType DEF TypeOK
    <3>3. bind[c].nonce <= minted /\ issued[bind[c].nonce] = <<c, bind[c].epoch>>
        BY <3>1 DEF IInv, HeldWasIssued
    <3> QED BY <3>1, <3>2, <3>3, <1>6, <1>7, <1>11
  <2> QED BY <2>1, <2>2
<1>14. ASSUME NEW s \in Requests, req'[s].pc = "claimed"
       PROVE  /\ req[s].pc = "claimed" /\ req'[s] = req[s]
              /\ req[s].tag \in Tags /\ req[s].tag[1] \in Nonces
              /\ req[s].tag[1] \in Nat \ {0} /\ req[s].tag[1] <= n
              /\ req[s].tag[1] # n
  <2>1. req[s].pc = "claimed" /\ req'[s] = req[s]
      BY <1>9, <1>14 DEF NoNewClaim
  <2>2. req[s].tag \in Tags /\ req[s].tag[1] <= minted
      BY <2>1 DEF IInv, ClaimedWasIssued
  <2>3. req[s].tag[1] \in Nonces /\ req[s].tag[1] \in Nat \ {0}
      BY <2>2, Bounds DEF Tags
  <2> QED BY <2>1, <2>2, <2>3, <1>7
<1>15. ClaimedWasIssued'
    BY <1>6, <1>11, <1>14 DEF IInv, ClaimedWasIssued
<1>16. OncePerNonce' BY <1>9 DEF IInv, NoNewClaim, OncePerNonce
<1>17. ClaimedIsGone'
  <2> SUFFICES ASSUME NEW s \in Requests, NEW c \in Channels,
                      req'[s].pc = "claimed", bind'[c] # None
               PROVE  bind'[c].nonce # req'[s].tag[1]
      BY DEF ClaimedIsGone
  <2>1. CASE c = ch BY <2>1, <1>5, <1>8, <1>14
  <2>2. CASE c # ch
    <3>1. CASE bind'[c].nonce = 0 BY <3>1, <1>14
    <3>2. CASE bind'[c].nonce # 0
      <4>1. bind[c] # None /\ bind'[c].nonce = bind[c].nonce
          BY <2>2, <3>2, <1>1, <1>8
      <4> QED BY <4>1, <1>14 DEF IInv, ClaimedIsGone
    <3> QED BY <3>1, <3>2
  <2> QED BY <2>1, <2>2
<1> QED BY <1>9, <1>10, <1>12, <1>13, <1>15, <1>16, <1>17 DEF IInv

\* A challenge that is refused only sweeps.
LEMMA ChallengeSweeps ==
    ASSUME IInv, NEW r \in Requests, NEW pc \in {"full", "refused"},
           bind' = Sweep,
           outstanding' = outstanding - Cardinality(Expired(bind)),
           Answer(r, pc), UNCHANGED <<epoch, signed, minted, issued>>
    PROVE  IInv'
<1>0. TypeOK BY DEF IInv
<1>1. /\ Sweep \in [Channels -> BindState \cup {None}]
      /\ Holding(Sweep) = Holding(bind) \ Expired(bind)
      /\ \A c \in Channels :
            /\ Sweep[c] # None <=> bind[c] # None
            /\ Sweep[c] # None => Sweep[c].epoch = bind[c].epoch
            /\ Sweep[c] # None /\ Sweep[c].nonce # 0 =>
                  Sweep[c].nonce = bind[c].nonce
    BY SweepDrops
<1>2. /\ req' \in [Requests -> Request]
      /\ NoNewClaim /\ TagsAreSigned' /\ AcceptedOnChannel'
    BY <1>0, AnswerType, Unclaimed
<1>3. Shrunk BY <1>1 DEF Shrunk
<1>4. Holding(bind)' = Holding(bind) \ Expired(bind)
    BY <1>1 DEF Holding
<1>5. CountsNonces' /\ outstanding' \in Nat
    BY <1>4, ExpiredLess DEF IInv, CountsNonces
<1>6. TypeOK' BY <1>0, <1>1, <1>2, <1>5 DEF TypeOK
<1>7. HeldWasIssued' /\ ClaimedWasIssued' /\ ClaimedIsGone' /\ OncePerNonce'
    BY <1>2, <1>3, <1>6, Keeps
<1> QED BY <1>2, <1>5, <1>6, <1>7 DEF IInv

\* challenge_as, whether it issues a nonce or refuses.
LEMMA ChallengeStep ==
    ASSUME IInv, NEW r \in Requests, Challenge(r) PROVE IInv'
<1> DEFINE ch == req[r].ch
           left == outstanding - Cardinality(Expired(bind))
<1>1. ch \in Channels BY DEF IInv, AcceptedOnChannel, Challenge
<1>2. \/ /\ SameDirectBind(r, Sweep)
         /\ ch \in Holding(Sweep) \/ left < MaxOutstanding
         /\ minted < MaxNonce /\ minted' = minted + 1
         /\ bind' = [Sweep EXCEPT ![ch] = WithNonce(Sweep[ch], minted + 1)]
         /\ outstanding' = left + (IF ch \in Holding(Sweep) THEN 0 ELSE 1)
         /\ issued' = [issued EXCEPT ![minted + 1] = <<ch, req[r].epoch>>]
         /\ Answer(r, "answered") /\ UNCHANGED <<epoch, signed>>
      \/ /\ bind' = Sweep /\ outstanding' = left
         /\ Answer(r, "full") \/ Answer(r, "refused")
         /\ UNCHANGED <<epoch, signed, minted, issued>>
    BY DEF Challenge, Sweep
<1> HIDE DEF left
<1>3. left = outstanding - Cardinality(Expired(bind)) BY DEF left
<1> QED BY <1>1, <1>2, <1>3, ChallengeIssues, ChallengeSweeps

-----------------------------------------------------------------------------
(* The theorems.                                                           *)

\* Every step keeps the invariant.
LEMMA NextIInv == IInv /\ [Next]_vars => IInv'
<1> SUFFICES ASSUME IInv, [Next]_vars PROVE IInv' OBVIOUS
<1>1. ASSUME NEW ch \in Channels, DropBind(ch) PROVE IInv'
    BY <1>1, DropBindStep
<1>2. ASSUME NEW ch \in Channels, Expire(ch) PROVE IInv'
    BY <1>2, ExpireStep
<1>3. ASSUME NEW ch \in Channels, NEW direct \in BOOLEAN, Bind(ch, direct)
      PROVE  IInv'
    BY <1>3, BindStep
<1>4. ASSUME NEW r \in Requests, NEW ch \in Channels,
             Accept(r, ch, "challenge", None, None)
      PROVE  IInv'
    BY <1>4, AcceptStep
<1>5. ASSUME NEW r \in Requests, NEW ch \in Channels,
             NEW tag \in signed \cup {None}, NEW body \in Bodies,
             Accept(r, ch, "execute", tag, body)
      PROVE  IInv'
    BY <1>5, AcceptStep
<1>6. ASSUME NEW r \in Requests, Challenge(r) \/ NotDirect(r) \/ Execute(r)
      PROVE  IInv'
    BY <1>6, ChallengeStep, NotDirectStep, ExecuteStep
<1>7. ASSUME NEW n \in Nonces, NEW body \in Bodies, Sign(n, body) PROVE IInv'
    BY <1>7, SignStep
<1>8. CASE UNCHANGED vars
    BY <1>8 DEF vars, IInv, TypeOK, CountsNonces, HeldWasIssued, TagsAreSigned,
       ClaimedWasIssued, ClaimedIsGone, OncePerNonce, AcceptedOnChannel, Holding
<1> QED BY <1>1, <1>2, <1>3, <1>4, <1>5, <1>6, <1>7, <1>8 DEF Next

\* The inductive invariant: a nonce on a bind was issued to that bind and is
\* claimed by nobody, and the counter counts such nonces.
THEOREM Inductive == Spec => []IInv
BY InitIInv, NextIInv, PTL DEF Spec

\* Type correctness, for every finite set of channels and every bound.
THEOREM TypeCorrect == Spec => []TypeOK
<1>1. IInv => TypeOK BY DEF IInv
<1> QED BY <1>1, Inductive, PTL

\* outstanding_nonces is always the number of challenges outstanding and never
\* passes MAX_OUTSTANDING_NONCES.
THEOREM CountsAreHonest == Spec => []CountsNonces
<1>1. IInv => CountsNonces BY DEF IInv
<1> QED BY <1>1, Inductive, PTL

\* A nonce authorizes at most one operation, for any number of replays on any
\* number of channels.
THEOREM NoncesAreSingleUse == Spec => []OncePerNonce
<1>1. IInv => OncePerNonce BY DEF IInv
<1> QED BY <1>1, Inductive, PTL

\* An applied operation was signed as it is, for a nonce of the direct bind its
\* request was accepted under.
THEOREM ClaimsAreOwn == Spec => []ClaimedOnItsBind
<1>1. ASSUME IInv PROVE ClaimedOnItsBind
  <2> SUFFICES ASSUME NEW r \in Requests, req[r].pc = "claimed"
               PROVE  /\ req[r].tag \in signed /\ req[r].tag[2] = req[r].body
                      /\ issued[req[r].tag[1]] = <<req[r].ch, req[r].epoch>>
                      /\ req[r].direct
      BY DEF ClaimedOnItsBind
  <2>1. /\ req[r].tag \in Tags /\ req[r].tag[2] = req[r].body /\ req[r].direct
        /\ issued[req[r].tag[1]] = <<req[r].ch, req[r].epoch>>
      BY <1>1 DEF IInv, ClaimedWasIssued
  <2>2. req[r].tag # None BY <2>1, NoneAssumption
  <2>3. req[r].tag \in signed BY <1>1, <2>2 DEF IInv, TagsAreSigned
  <2> QED BY <2>1, <2>3
<1> QED BY <1>1, Inductive, PTL

-----------------------------------------------------------------------------
(* What a step may never do.                                               *)

\* What FullIsFull and ChallengesStay say of one step.
FullStep ==
    \A r \in Requests :
       req[r].pc # "full" /\ req'[r].pc = "full" =>
          Cardinality(Holding(bind) \ Expired(bind)) >= MaxOutstanding
Stays(ch) ==
    \/ bind'[ch] # None /\ bind'[ch].nonce = bind[ch].nonce
    \/ bind'[ch] = None \/ bind'[ch].epoch # bind[ch].epoch
    \/ \E r \in Requests :
          /\ req[r].pc = "accepted" /\ req'[r].pc \in {"answered", "claimed"}
          /\ req[r].ch = ch /\ req[r].epoch = bind[ch].epoch

StayStep ==
    \A ch \in Holding(bind) \ Expired(bind) :
       \/ bind'[ch] # None /\ bind'[ch].nonce = bind[ch].nonce
       \/ bind'[ch] = None \/ bind'[ch].epoch # bind[ch].epoch
       \/ \E r \in Requests :
             /\ req[r].pc = "accepted" /\ req'[r].pc \in {"answered", "claimed"}
             /\ req[r].ch = ch /\ req[r].epoch = bind[ch].epoch

\* Only challenge_as answers that there is no room, after its sweep.
LEMMA FullNext == IInv /\ [Next]_vars => FullStep
<1> SUFFICES ASSUME IInv, [Next]_vars PROVE FullStep OBVIOUS
<1>0. TypeOK BY DEF IInv
<1>1. ASSUME req' = req PROVE FullStep BY <1>1 DEF FullStep
<1>2. ASSUME NEW r \in Requests, NEW pc \in {"answered", "claimed", "refused"},
             Answer(r, pc)
      PROVE  FullStep
  <2>1. req'[r].pc = pc /\ \A s \in Requests : s # r => req'[s] = req[s]
      BY <1>0, <1>2, AnswerType
  <2> QED BY <2>1 DEF FullStep
<1>3. ASSUME NEW r \in Requests, NEW ch \in Channels,
             NEW kind, NEW tag, NEW body, Accept(r, ch, kind, tag, body)
      PROVE  FullStep
    BY <1>0, <1>3 DEF FullStep, Accept, TypeOK
<1>4. ASSUME NEW r \in Requests, Challenge(r) PROVE FullStep
  <2> DEFINE left == outstanding - Cardinality(Expired(bind))
  <2>1. \/ Answer(r, "answered") \/ Answer(r, "refused")
        \/ /\ SameDirectBind(r, Sweep)
           /\ ~ (req[r].ch \in Holding(Sweep) \/ left < MaxOutstanding)
      BY <1>4 DEF Challenge, Sweep
  <2>2. CASE ~ (left < MaxOutstanding)
    <3>1. /\ left = Cardinality(Holding(bind) \ Expired(bind))
          /\ left \in Nat
        BY ExpiredLess DEF IInv
    <3>2. Cardinality(Holding(bind) \ Expired(bind)) >= MaxOutstanding
        BY <2>2, <3>1, Bounds
    <3> QED BY <3>2 DEF FullStep
  <2> QED BY <2>1, <2>2, <1>2
<1>5. ASSUME NEW r \in Requests, NotDirect(r) \/ Execute(r) PROVE FullStep
    BY <1>5, <1>2 DEF NotDirect, Execute
<1> QED BY <1>1, <1>3, <1>4, <1>5
        DEF Next, vars, Bind, DropBind, Expire, Sign

\* A bind's epoch is never past its channel's: the next bind has another one.
EpochsBehind ==
    \A ch \in Channels : bind[ch] # None => bind[ch].epoch <= epoch[ch]

\* A step that neither binds nor touches an epoch leaves EpochsBehind.
LEMMA EpochsKept ==
    ASSUME EpochsBehind, epoch' = epoch,
           \A ch \in Channels :
              bind'[ch] # None =>
                 bind[ch] # None /\ bind'[ch].epoch = bind[ch].epoch
    PROVE  EpochsBehind'
BY DEF EpochsBehind

\* Every step leaves each unexpired challenge or is entitled to end it.
LEMMA StaysNext ==
    ASSUME IInv, EpochsBehind, [Next]_vars
    PROVE  /\ EpochsBehind'
           /\ \A c \in Holding(bind) \ Expired(bind) : Stays(c)
<1> DEFINE Goal == /\ EpochsBehind'
                   /\ \A c \in Holding(bind) \ Expired(bind) : Stays(c)
<1> HIDE DEF Goal
<1>0. TypeOK BY DEF IInv
<1>1. \A c \in Holding(bind) : c \in Channels /\ bind[c] # None
    BY DEF Holding
<1>2. ASSUME bind' = bind, epoch' = epoch PROVE Goal
    BY <1>1, <1>2 DEF Goal, Stays, EpochsBehind
<1>3. ASSUME NEW ch \in Channels, NEW direct \in BOOLEAN, Bind(ch, direct)
      PROVE  Goal
  <2>1. /\ bind'[ch].epoch = epoch[ch] + 1 /\ epoch'[ch] = epoch[ch] + 1
        /\ \A c \in Channels : c # ch => bind'[c] = bind[c] /\ epoch'[c] = epoch[c]
        /\ epoch[ch] \in Nat
      BY <1>0, <1>3, Bounds DEF Bind, TypeOK
  <2>2. EpochsBehind' BY <2>1 DEF EpochsBehind
  <2>3. ASSUME NEW c \in Holding(bind) \ Expired(bind) PROVE Stays(c)
    <3>1. CASE c = ch
      <4>1. bind[c].epoch <= epoch[c] /\ bind[c].epoch \in 0..MaxEpoch
          BY <1>0, <1>1, BindType DEF EpochsBehind, TypeOK
      <4> QED BY <2>1, <3>1, <4>1, Bounds DEF Stays
    <3>2. CASE c # ch BY <1>1, <2>1, <3>2 DEF Stays
    <3> QED BY <3>1, <3>2
  <2> QED BY <2>2, <2>3 DEF Goal
<1>4. ASSUME NEW ch \in Channels, DropBind(ch) PROVE Goal
  <2>1. /\ bind'[ch] = None /\ epoch' = epoch
        /\ \A c \in Channels : c # ch => bind'[c] = bind[c]
      BY <1>0, <1>4 DEF DropBind, TypeOK
  <2>2. EpochsBehind' BY <2>1, EpochsKept
  <2> QED BY <1>1, <2>1, <2>2 DEF Goal, Stays
<1>5. ASSUME NEW ch \in Channels, Expire(ch) PROVE Goal
  <2>0. bind[ch] # None BY <1>5 DEF Expire, Holding
  <2>1. bind[ch] \in BindState BY <1>0, <2>0, BindType DEF TypeOK
  <2> DEFINE x == [bind[ch] EXCEPT !.old = TRUE]
  <2>2. /\ x \in BindState /\ x.nonce = bind[ch].nonce
        /\ x.epoch = bind[ch].epoch
      BY <2>1 DEF BindState
  <2>3. bind' = [bind EXCEPT ![ch] = x] /\ epoch' = epoch BY <1>5 DEF Expire
  <2>4. x # None BY <2>2, BindIsBound
  <2> HIDE DEF x
  <2>5. bind'[ch] = x /\ \A c \in Channels : c # ch => bind'[c] = bind[c]
      BY <1>0, <2>3 DEF TypeOK
  <2>6. EpochsBehind' BY <2>0, <2>2, <2>3, <2>5, EpochsKept
  <2> QED BY <1>1, <2>2, <2>4, <2>5, <2>6 DEF Goal, Stays
<1>6. ASSUME NEW r \in Requests, Challenge(r) PROVE Goal
  <2> DEFINE ch == req[r].ch
             x == WithNonce(Sweep[ch], minted + 1)
  <2>1. ch \in Channels /\ req[r].pc = "accepted" /\ epoch' = epoch
      BY <1>6 DEF IInv, AcceptedOnChannel, Challenge
  <2>2. \/ /\ SameDirectBind(r, Sweep) /\ minted < MaxNonce
           /\ bind' = [Sweep EXCEPT ![ch] = x] /\ Answer(r, "answered")
        \/ bind' = Sweep
      BY <1>6 DEF Challenge, Sweep
  <2>3. /\ Sweep \in [Channels -> BindState \cup {None}]
        /\ \A c \in Channels :
              /\ Sweep[c] # None <=> bind[c] # None
              /\ Sweep[c] # None => Sweep[c].epoch = bind[c].epoch
              /\ c \notin Expired(bind) => Sweep[c] = bind[c]
      BY SweepDrops
  <2>4. CASE bind' = Sweep
    <3>1. EpochsBehind' BY <2>1, <2>3, <2>4, EpochsKept
    <3> QED BY <1>1, <2>3, <2>4, <3>1 DEF Goal, Stays
  <2>5. CASE /\ SameDirectBind(r, Sweep) /\ minted < MaxNonce
             /\ bind' = [Sweep EXCEPT ![ch] = x] /\ Answer(r, "answered")
    <3>1. Sweep[ch] # None /\ Sweep[ch].epoch = req[r].epoch
        BY <2>5 DEF SameDirectBind
    <3>2. Sweep[ch] \in BindState BY <2>1, <2>3, <3>1, BindType
    <3>3. minted + 1 \in 0..MaxNonce BY <1>0, <2>5, Bounds DEF TypeOK
    <3>4. x # None /\ x.epoch = Sweep[ch].epoch
        BY <3>2, <3>3, WithNonceType
    <3>5. req'[r].pc = "answered" BY <1>0, <2>5, AnswerType
    <3> HIDE DEF x
    <3>6. bind'[ch] = x /\ \A c \in Channels : c # ch => bind'[c] = Sweep[c]
        BY <2>1, <2>3, <2>5
    <3>7. EpochsBehind' BY <2>1, <2>3, <3>1, <3>4, <3>6, EpochsKept
    <3>8. bind[ch].epoch = req[r].epoch BY <2>1, <2>3, <3>1
    <3>9. Stays(ch) BY <2>1, <3>5, <3>8 DEF Stays
    <3>10. \A c \in Holding(bind) \ Expired(bind) : c # ch => Stays(c)
        BY <1>1, <2>3, <3>6 DEF Stays
    <3> QED BY <3>7, <3>9, <3>10 DEF Goal
  <2> QED BY <2>2, <2>4, <2>5
<1>7. ASSUME NEW r \in Requests, Execute(r) PROVE Goal
  <2> DEFINE ch == req[r].ch
  <2>1. ch \in Channels /\ req[r].pc = "accepted" /\ epoch' = epoch
      BY <1>7 DEF IInv, AcceptedOnChannel, Execute
  <2>2. \/ bind' = bind
        \/ /\ SameDirectBind(r, bind) /\ ch \in Holding(bind)
           /\ bind' = [bind EXCEPT ![ch] = WithNonce(bind[ch], 0)]
           /\ ch \in Expired(bind) \/ Answer(r, "claimed")
      BY <1>7 DEF Execute
  <2>3. CASE bind' = bind BY <2>1, <2>3, <1>2
  <2>4. CASE /\ SameDirectBind(r, bind) /\ ch \in Holding(bind)
             /\ bind' = [bind EXCEPT ![ch] = WithNonce(bind[ch], 0)]
             /\ ch \in Expired(bind) \/ Answer(r, "claimed")
    <3>1. bind[ch] # None /\ bind[ch].epoch = req[r].epoch
        BY <2>4 DEF SameDirectBind
    <3>2. bind[ch] \in BindState BY <1>0, <2>1, <3>1, BindType DEF TypeOK
    <3>3. WithNonce(bind[ch], 0).epoch = bind[ch].epoch
        BY <3>2, WithNonceType, Bounds
    <3>4. /\ bind'[ch] = WithNonce(bind[ch], 0)
          /\ \A c \in Channels : c # ch => bind'[c] = bind[c]
        BY <1>0, <2>1, <2>4 DEF TypeOK
    <3>5. EpochsBehind' BY <2>1, <3>1, <3>3, <3>4, EpochsKept
    <3>6. ch \notin Expired(bind) => Stays(ch)
      <4>1. Answer(r, "claimed") => req'[r].pc = "claimed"
          BY <1>0, AnswerType
      <4> QED BY <2>1, <2>4, <3>1, <4>1 DEF Stays
    <3>7. \A c \in Holding(bind) \ Expired(bind) : c # ch => Stays(c)
        BY <1>1, <3>4 DEF Stays
    <3> QED BY <3>5, <3>6, <3>7 DEF Goal
  <2> QED BY <2>2, <2>3, <2>4
<1>8. ASSUME NEW r \in Requests, NotDirect(r) PROVE Goal
    BY <1>2, <1>8 DEF NotDirect
<1>9. ASSUME NEW r \in Requests, NEW ch \in Channels,
             NEW kind, NEW tag, NEW body, Accept(r, ch, kind, tag, body)
      PROVE  Goal
    BY <1>2, <1>9 DEF Accept
<1>10. ASSUME NEW n \in Nonces, NEW body \in Bodies, Sign(n, body) PROVE Goal
    BY <1>2, <1>10 DEF Sign
<1>11. ASSUME UNCHANGED vars PROVE Goal BY <1>2, <1>11 DEF vars
<1>12. Goal
    BY <1>3, <1>4, <1>5, <1>6, <1>7, <1>8, <1>9, <1>10, <1>11 DEF Next
<1> QED BY <1>12 DEF Goal

\* A challenge is refused for want of room only when the cap is taken up by
\* challenges that have not expired.
THEOREM RefusedOnlyWhenFull == Spec => FullIsFull
<1>1. IInv /\ [Next]_vars => [FullStep]_vars BY FullNext
<1>2. Spec => [][FullStep]_vars BY <1>1, Inductive, PTL DEF Spec
<1> QED BY <1>2 DEF FullIsFull, FullStep

\* Nothing but its own bind and its own channel's requests ends a challenge
\* that has not expired.
THEOREM ChallengesAreKept == Spec => ChallengesStay
<1>1. Init => EpochsBehind BY DEF Init, EpochsBehind
<1>2. IInv /\ EpochsBehind /\ [Next]_vars => EpochsBehind' /\ [StayStep]_vars
    BY StaysNext DEF StayStep, Stays
<1>3. Spec => [][StayStep]_vars BY <1>1, <1>2, Inductive, PTL DEF Spec
<1> QED BY <1>3 DEF ChallengesStay, StayStep
=============================================================================
