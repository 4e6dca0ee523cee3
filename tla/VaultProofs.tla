---------------------------- MODULE VaultProofs ----------------------------
(***************************************************************************)
(* What holds of Vault for every set of rows, commands and sign requests   *)
(* and for every bound of the counters.                                    *)
(***************************************************************************)
EXTENDS Vault, SequenceTheorems, TLAPS

(* The slots and the lease holder, step by step: a holder works with the   *)
(* database's key; from the heal to the re-wrap that key is in Current,    *)
(* from the re-wrap to the copy it is in Next; and a database that was     *)
(* never opened has one key at most, which is the one commands have read.  *)
KeysInv ==
    /\ NeverStranded
    /\ holder.kind # "none" => holder.key = anchor /\ anchor # NoKey
    /\ holder.kind = "rotation" =>
          /\ holder.new # NoKey
          /\ holder.step \in {"healed", "stage", "rewrap", "promoted"} => slot["current"] = anchor
          /\ holder.step = "rewrap" => slot["next"] = holder.new
          /\ holder.step = "promote" => slot["next"] = anchor
    /\ anchor = NoKey => /\ slot["next"] = NoKey
                         /\ \A c \in Commands : cmd[c].pre \in {NoKey, slot["current"]}

(* What a command has had applied follows from where it stands: before it  *)
(* has sent, nothing is; and the wire carries either the operation or the  *)
(* answer to it.                                                           *)
CommandOK(x) ==
    /\ x.at \notin {"sent", "done"} => x.applied = 0 /\ x.net = "none" /\ x.end = "none"
    /\ x.at = "sent" => x.end = "none"
    /\ x.net \in {"op", "refused"} => x.applied = 0
    /\ x.net = "ok" => x.applied = 1
    /\ x.at = "done" /\ x.end # "indeterminate" => x.net = "none"
    /\ x.end # "none" => x.at = "done"
    /\ x.end = "ok" => x.applied = 1
    /\ x.end \in {"refused", "local"} => x.applied = 0
    /\ x.applied \in {0, 1}
    /\ (x.at \notin {"start", "done"} \/ x.net = "op") => x.op \in Ops
    /\ x.at = "preflightNext" => x.want # NoKey

CommandsInv == \A c \in Commands : CommandOK(cmd[c])

(* The chain knows of every row how it came to be what it is. *)
PutLast(r, i) ==
    /\ audit[i].op \in {"create", "replace"}
    /\ audit[i].on = r
    /\ audit[i].inc = row[r].inc /\ audit[i].ver = row[r].ver
    /\ \A m \in (i + 1)..Len(audit) : audit[m].on = r => audit[m].op = "sign"

ChainInv ==
    /\ \A r \in Rows : row[r].state # "absent" => \E i \in 1..Len(audit) : PutLast(r, i)
    /\ SignedInItsGeneration

PreparedInv == \A s \in Signers : sig[s].at = "prepared" => sig[s].on \in Credentials

TypeInv == TypeOK /\ PreparedInv /\ CommandsInv

-----------------------------------------------------------------------------
(* Types.                                                                  *)

LEMMA Bounds ==
    /\ MaxKey \in Nat /\ MaxBoot \in Nat /\ MaxVersion \in Nat \ {0} /\ MaxIncarnation \in Nat
    /\ NoKey \in Key /\ NoRow \in Row /\ NoHolder \in Holder
    /\ Idle \in Command /\ Unsigned \in Signature
BY VaultAssumption DEF NoKey, Key, NoRow, Row, NoHolder, Holder, Idle, NoOp, Command,
                       Unsigned, Signature

(* A step of one command: its record changes, and the others' stay. *)
LEMMA OneCommand ==
    ASSUME TypeInv, NEW c \in Commands, NEW x \in Command, CommandOK(x), Becomes(c, x)
    PROVE  cmd' \in [Commands -> Command] /\ CommandsInv'
BY DEF TypeInv, TypeOK, CommandsInv, Becomes

LEMMA CommandFacts ==
    ASSUME TypeInv, NEW c \in Commands
    PROVE  /\ cmd[c] \in Command /\ CommandOK(cmd[c])
           /\ anchor \in Key /\ holder \in Holder /\ holder.key \in Key
           /\ slot["current"] \in Key /\ slot["next"] \in Key /\ boots \in 0..MaxBoot
BY DEF TypeInv, TypeOK, CommandsInv, Holder

LEMMA StartCommandType ==
    ASSUME TypeInv, NEW c \in Commands, StartCommand(c) PROVE TypeInv'
<1> DEFINE x(op, at) == [cmd[c] EXCEPT !.at = at, !.op = op,
                             !.want = IF at = "preflight" THEN anchor ELSE NoKey]
<1>1. PICK op \in Ops, at \in {"preflight", "ready"} : Becomes(c, x(op, at))
  BY DEF StartCommand
<1>2. x(op, at) \in Command /\ CommandOK(x(op, at))
  <2>1. x(op, at) \in Command
    <3>1. cmd[c] \in Command /\ anchor \in Key /\ NoKey \in Key /\ op \in Ops \cup {NoOp}
      BY CommandFacts, Bounds
    <3>2. (IF at = "preflight" THEN anchor ELSE NoKey) \in Key
      BY <3>1
    <3> QED
      BY <3>1, <3>2 DEF Command
  <2>2. cmd[c].at = "start" /\ cmd[c] \in Command /\ CommandOK(cmd[c])
    BY CommandFacts DEF StartCommand
  <2>3. CommandOK(x(op, at))
    BY <2>2 DEF Command, CommandOK
  <2> QED
    BY <2>1, <2>3
<1> HIDE DEF x
<1>3. cmd' \in [Commands -> Command] /\ CommandsInv'
  BY <1>1, <1>2, OneCommand
<1> QED
  BY <1>3 DEF StartCommand, Rest, keys, store, TypeInv, TypeOK, PreparedInv

(* The ways a command may go on that change nothing but the command. *)
LEMMA MovesType ==
    ASSUME TypeInv, NEW c \in Commands, NEW at, Moves(c, at),
           cmd[c].at \notin {"start", "sent", "done"},
           at \in {"preflightNext", "challengedNext", "signed", "offline"},
           at = "preflightNext" => cmd[c].want # NoKey
    PROVE  cmd' \in [Commands -> Command] /\ CommandsInv'
<1> DEFINE x == [cmd[c] EXCEPT !.at = at]
<1>1. x \in Command /\ CommandOK(x)
  BY CommandFacts DEF Command, CommandOK
<1>2. Becomes(c, x)
  BY DEF Moves
<1> QED
  BY <1>1, <1>2, OneCommand

LEMMA EndsType ==
    ASSUME TypeInv, NEW c \in Commands, NEW end, Ends(c, end),
           \/ end \in {"refused", "local"} /\ cmd[c].applied = 0
           \/ end = "ok" /\ cmd[c].applied = 1
           \/ end = "indeterminate"
    PROVE  cmd' \in [Commands -> Command] /\ CommandsInv'
<1> DEFINE x == Ended(end, cmd[c].applied)
<1>1. x \in Command
  <2>1. Idle \in Command /\ cmd[c].applied \in 0..2 /\ end \in {"ok", "refused", "local", "indeterminate"}
    BY CommandFacts, Bounds DEF Command
  <2> QED
    BY <2>1 DEF Ended, Command
<1>2. CommandOK(x)
  <2>1. cmd[c].applied \in {0, 1}
    BY CommandFacts DEF CommandOK
  <2> QED
    BY <2>1 DEF Ended, Idle, CommandOK
<1>3. Becomes(c, x)
  BY DEF Ends
<1> HIDE DEF x
<1> QED
  BY <1>1, <1>2, <1>3, OneCommand

LEMMA PreflightType ==
    ASSUME TypeInv, NEW c \in Commands, Preflight(c) PROVE TypeInv'
<1>1. PICK want \in {cmd[c].want, NoKey}, found \in {slot["current"], NoKey} :
         \/ /\ found # NoKey /\ want \in {found, NoKey}
            /\ Becomes(c, [cmd[c] EXCEPT !.at = "ready", !.pre = found, !.want = NoKey])
         \/ want # NoKey /\ found # want /\ Moves(c, "preflightNext")
         \/ want = NoKey /\ found = NoKey /\ Ends(c, "local")
  BY DEF Preflight
<1>2. cmd[c].at = "preflight" /\ cmd[c].applied = 0
  BY CommandFacts DEF Preflight, CommandOK
<1>3. cmd' \in [Commands -> Command] /\ CommandsInv'
  <2>1. CASE Becomes(c, [cmd[c] EXCEPT !.at = "ready", !.pre = found, !.want = NoKey])
    <3> DEFINE x == [cmd[c] EXCEPT !.at = "ready", !.pre = found, !.want = NoKey]
    <3>1. x \in Command
      BY CommandFacts, Bounds DEF Command
    <3>2. cmd[c] \in Command /\ CommandOK(cmd[c])
      BY CommandFacts
    <3>3. CommandOK(x)
      BY <1>2, <3>2 DEF Command, CommandOK
    <3> HIDE DEF x
    <3> QED
      BY <2>1, <3>1, <3>3, OneCommand DEF x
  <2>2. CASE want # NoKey /\ Moves(c, "preflightNext")
    BY <1>2, <2>2, MovesType
  <2>3. CASE Ends(c, "local")
    BY <1>2, <2>3, EndsType
  <2> QED
    BY <1>1, <2>1, <2>2, <2>3
<1> QED
  BY <1>3 DEF Preflight, Rest, keys, store, TypeInv, TypeOK, PreparedInv

LEMMA PreflightNextType ==
    ASSUME TypeInv, NEW c \in Commands, PreflightNext(c) PROVE TypeInv'
<1> DEFINE x == [cmd[c] EXCEPT !.at = "ready", !.pre = cmd[c].want, !.want = NoKey]
<1>1. cmd[c].at = "preflightNext" /\ cmd[c].applied = 0
  BY CommandFacts DEF PreflightNext, CommandOK
<1>2. x \in Command /\ CommandOK(x)
  <2>1. x \in Command
    BY CommandFacts, Bounds DEF Command
  <2>2. cmd[c] \in Command /\ CommandOK(cmd[c])
    BY CommandFacts
  <2>3. CommandOK(x)
    BY <1>1, <2>2 DEF Command, CommandOK
  <2> QED
    BY <2>1, <2>3
<1>3. Becomes(c, x) \/ Ends(c, "local")
  BY DEF PreflightNext
<1> HIDE DEF x
<1>4. cmd' \in [Commands -> Command] /\ CommandsInv'
  BY <1>1, <1>2, <1>3, OneCommand, EndsType
<1> QED
  BY <1>4 DEF PreflightNext, Rest, keys, store, TypeInv, TypeOK, PreparedInv

LEMMA ChallengeType ==
    ASSUME TypeInv, NEW c \in Commands, Challenge(c) PROVE TypeInv'
<1> DEFINE x == [cmd[c] EXCEPT
                    !.at = IF cmd[c].pre = holder.key THEN "signed" ELSE "challenged",
                    !.want = holder.key, !.boot = boots]
<1>1. cmd[c].at = "ready" /\ cmd[c].applied = 0
  BY CommandFacts DEF Challenge, CommandOK
<1>2. x \in Command /\ CommandOK(x)
  <2>1. cmd[c] \in Command /\ CommandOK(cmd[c])
    BY CommandFacts
  <2>2. holder.key \in Key /\ boots \in 0..MaxBoot
    BY CommandFacts
  <2>3. x \in Command
    <3>1. ASSUME NEW at \in {"signed", "challenged"}
          PROVE  [cmd[c] EXCEPT !.at = at, !.want = holder.key, !.boot = boots] \in Command
      BY <2>2, <2>1 DEF Command
    <3> QED
      BY <3>1
  <2>4. CommandOK(x)
    BY <1>1, <2>1 DEF Command, CommandOK
  <2> QED
    BY <2>3, <2>4
<1>3. Becomes(c, x) \/ Moves(c, "offline") \/ Ends(c, "local")
  BY DEF Challenge
<1> HIDE DEF x
<1>4. cmd' \in [Commands -> Command] /\ CommandsInv'
  BY <1>1, <1>2, <1>3, OneCommand, MovesType, EndsType
<1> QED
  BY <1>4 DEF Challenge, Rest, keys, store, TypeInv, TypeOK, PreparedInv

LEMMA ResolveSigningType ==
    ASSUME TypeInv, NEW c \in Commands, ResolveSigning(c) \/ ResolveSigningNext(c)
    PROVE  TypeInv'
<1>1. /\ cmd[c].at \in {"challenged", "challengedNext"} /\ cmd[c].applied = 0
      /\ Moves(c, "signed") \/ Moves(c, "challengedNext") \/ Ends(c, "local")
  BY CommandFacts DEF ResolveSigning, ResolveSigningNext, CommandOK
<1>2. cmd' \in [Commands -> Command] /\ CommandsInv'
  BY <1>1, MovesType, EndsType
<1> QED
  BY <1>2 DEF ResolveSigning, ResolveSigningNext, Rest, keys, store, TypeInv, TypeOK,
              PreparedInv

LEMMA SendOpType ==
    ASSUME TypeInv, NEW c \in Commands, SendOp(c) PROVE TypeInv'
<1> DEFINE x == [cmd[c] EXCEPT !.at = "sent", !.net = "op", !.pre = NoKey]
           y == [cmd[c] EXCEPT !.at = "offline", !.want = NoKey, !.boot = 0]
<1>1. x \in Command /\ CommandOK(x)
  <2>1. x \in Command
    BY CommandFacts, Bounds DEF Command
  <2>2. cmd[c].at = "signed" /\ cmd[c] \in Command /\ CommandOK(cmd[c])
    BY CommandFacts DEF SendOp
  <2>3. CommandOK(x)
    BY <2>2 DEF Command, CommandOK
  <2> QED
    BY <2>1, <2>3
<1>2. y \in Command
  <2>1. 0 \in 0..MaxBoot
    BY Bounds
  <2> QED
    BY <2>1, CommandFacts, Bounds DEF Command
<1>3. CommandOK(y)
  BY CommandFacts DEF Command, CommandOK, SendOp
<1>4. Becomes(c, x) \/ Becomes(c, y)
  BY DEF SendOp
<1> HIDE DEF x, y
<1>5. cmd' \in [Commands -> Command] /\ CommandsInv'
  BY <1>1, <1>2, <1>3, <1>4, OneCommand
<1> QED
  BY <1>5 DEF SendOp, Rest, keys, store, TypeInv, TypeOK, PreparedInv

(* An operation on the wire that the daemon has handled, either way. *)
LEMMA AnsweredOK ==
    ASSUME TypeInv, NEW c \in Commands, cmd[c].net = "op"
    PROVE  /\ Answered(c, "ok", 1) \in Command /\ CommandOK(Answered(c, "ok", 1))
           /\ Answered(c, "refused", 0) \in Command /\ CommandOK(Answered(c, "refused", 0))
<1>1. /\ cmd[c] \in Command /\ cmd[c].applied = 0 /\ cmd[c].op \in Ops
      /\ cmd[c].at \in {"sent", "done"}
      /\ cmd[c].at = "done" => cmd[c].end = "indeterminate"
      /\ cmd[c].at = "sent" => cmd[c].end = "none"
  BY CommandFacts DEF CommandOK, Command
<1>2. 0 \in 0..MaxBoot /\ 0 + 1 = 1 /\ 0 + 0 = 0 /\ 0 \in 0..2 /\ 1 \in 0..2
  BY Bounds
<1>3. CASE cmd[c].at = "sent"
  <2> DEFINE x(answer, n) ==
               [cmd[c] EXCEPT !.net = answer, !.applied = n, !.want = NoKey, !.boot = 0]
  <2>1. /\ Answered(c, "ok", 1) = x("ok", 1)
        /\ Answered(c, "refused", 0) = x("refused", 0)
    BY <1>1, <1>2, <1>3 DEF Answered, Command
  <2>2. x("ok", 1) \in Command /\ x("refused", 0) \in Command
    <3>1. NoKey \in Key
      BY Bounds
    <3>2. x("ok", 1) \in Command
      BY <1>1, <1>2, <3>1 DEF Command
    <3>3. x("refused", 0) \in Command
      BY <1>1, <1>2, <3>1 DEF Command
    <3> QED
      BY <3>2, <3>3
  <2>3. CommandOK(x("ok", 1)) /\ CommandOK(x("refused", 0))
    BY <1>1, <1>3 DEF Command, CommandOK
  <2> QED
    BY <2>1, <2>2, <2>3
<1>4. CASE cmd[c].at = "done"
  <2>1. /\ Answered(c, "ok", 1) = Ended("indeterminate", 1)
        /\ Answered(c, "refused", 0) = Ended("indeterminate", 0)
    BY <1>1, <1>2, <1>4 DEF Answered
  <2>2. /\ Ended("indeterminate", 1) \in Command /\ CommandOK(Ended("indeterminate", 1))
        /\ Ended("indeterminate", 0) \in Command /\ CommandOK(Ended("indeterminate", 0))
    BY <1>2, Bounds DEF Ended, Idle, NoOp, Command, CommandOK
  <2> QED
    BY <2>1, <2>2
<1> QED
  BY <1>1, <1>3, <1>4

LEMMA RefuseOpType ==
    ASSUME TypeInv, NEW c \in Commands, RefuseOp(c) PROVE TypeInv'
<1> DEFINE x == Answered(c, "refused", 0)
<1>1. x \in Command /\ CommandOK(x)
  BY AnsweredOK DEF RefuseOp
<1>2. Becomes(c, x)
  BY DEF RefuseOp
<1> HIDE DEF x
<1>3. cmd' \in [Commands -> Command] /\ CommandsInv'
  BY <1>1, <1>2, OneCommand
<1> QED
  BY <1>3 DEF RefuseOp, Rest, keys, store, TypeInv, TypeOK, PreparedInv

LEMMA AnswerType ==
    ASSUME TypeInv, NEW c \in Commands, Answer(c) \/ LoseAnswer(c) PROVE TypeInv'
<1> DEFINE x == [cmd[c] EXCEPT !.at = "done", !.end = "indeterminate"]
<1>1. cmd[c].at = "sent"
  BY DEF Answer, LoseAnswer
<1>2. CASE cmd[c].net = "op" /\ Becomes(c, x)
  <2>1. cmd[c] \in Command /\ CommandOK(cmd[c])
    BY CommandFacts
  <2>2. x \in Command
    BY <2>1 DEF Command
  <2>3. CommandOK(x)
    BY <1>1, <1>2, <2>1 DEF Command, CommandOK
  <2> HIDE DEF x
  <2> QED
    BY <1>2, <2>2, <2>3, OneCommand
       DEF Answer, LoseAnswer, Rest, keys, store, TypeInv, TypeOK, PreparedInv
<1>3. CASE cmd[c].net \in {"ok", "refused"} /\ Ends(c, cmd[c].net)
  <2>1. cmd[c].net = "ok" => cmd[c].applied = 1
    BY CommandFacts DEF CommandOK
  <2>2. cmd[c].net = "refused" => cmd[c].applied = 0
    BY CommandFacts DEF CommandOK
  <2>3. cmd' \in [Commands -> Command] /\ CommandsInv'
    BY <1>3, <2>1, <2>2, EndsType
  <2> QED
    BY <2>3 DEF Answer, LoseAnswer, Rest, keys, store, TypeInv, TypeOK, PreparedInv
<1>4. CASE Ends(c, "indeterminate")
  <2>1. cmd' \in [Commands -> Command] /\ CommandsInv'
    BY <1>4, EndsType
  <2> QED
    BY <2>1 DEF Answer, LoseAnswer, Rest, keys, store, TypeInv, TypeOK, PreparedInv
<1> QED
  BY <1>2, <1>3, <1>4 DEF Answer, LoseAnswer

(* An operation that is applied leaves well-formed rows and a chain. *)
LEMMA AfterType ==
    ASSUME TypeInv, NEW op \in Ops, NEW k \in Key, Admits(op), Room(op)
    PROVE  /\ op.on \in Rows /\ op.do \in {"create", "replace", "remove"}
           /\ After(op, k) \in Row
<1>1. op.on \in Rows /\ op.do \in {"create", "replace", "remove"} /\ op.audited \in BOOLEAN
  BY DEF Ops, Rows
<1>2. row[op.on] \in Row /\ incs \in 0..MaxIncarnation
  BY <1>1 DEF TypeInv, TypeOK
<1>3. CASE op.do = "create"
  <2>1. incs + 1 \in 0..MaxIncarnation
    BY <1>2, <1>3, Bounds DEF Room
  <2>2. 1 \in 0..MaxVersion
    BY <1>3, Bounds DEF Room
  <2> QED
    BY <1>1, <1>3, <2>1, <2>2 DEF After, Row
<1>4. CASE op.do = "replace"
  <2>1. row[op.on].ver + 1 \in 0..MaxVersion
    BY <1>2, <1>4, Bounds DEF Room, Row
  <2> QED
    BY <1>1, <1>2, <1>4, <2>1 DEF After, Row
<1>5. CASE op.do = "remove"
  BY <1>1, <1>5, Bounds DEF After
<1> QED
  BY <1>1, <1>3, <1>4, <1>5

LEMMA ApplyType ==
    ASSUME TypeInv, NEW op \in Ops, NEW k \in Key, Apply(op, k)
    PROVE  /\ row' \in [Rows -> Row] /\ incs' \in 0..MaxIncarnation /\ audit' \in Seq(Entry)
<1>1. /\ op.on \in Rows /\ op.do \in {"create", "replace", "remove"}
      /\ After(op, k) \in Row
  BY AfterType DEF Apply
<1>2. row' \in [Rows -> Row]
  BY <1>1 DEF Apply, TypeInv, TypeOK
<1>3. incs' \in 0..MaxIncarnation
  BY Bounds DEF Apply, Room, TypeInv, TypeOK
<1> DEFINE e == [op |-> op.do, on |-> op.on, inc |-> After(op, k).inc, ver |-> After(op, k).ver]
<1>4. e \in Entry
  BY <1>1 DEF Row, Entry
<1> HIDE DEF e
<1>5. audit' = Append(audit, e) /\ audit \in Seq(Entry)
  BY DEF Apply, e, TypeInv, TypeOK
<1> QED
  BY <1>2, <1>3, <1>4, <1>5, AppendProperties

LEMMA HandleOpType ==
    ASSUME TypeInv, NEW c \in Commands, HandleOp(c) PROVE TypeInv'
<1> DEFINE x == Answered(c, "ok", 1)
<1>1. cmd[c].net = "op" /\ cmd[c].applied = 0 /\ cmd[c].op \in Ops
      /\ cmd[c].at \in {"sent", "done"}
      /\ (cmd[c].at = "done" => cmd[c].end = "indeterminate")
      /\ (cmd[c].at = "sent" => cmd[c].end = "none")
  BY CommandFacts DEF HandleOp, CommandOK, Command
<1>3. x \in Command /\ CommandOK(x)
  BY <1>1, AnsweredOK
<1>5. Becomes(c, x)
  BY DEF HandleOp
<1> HIDE DEF x
<1>6. cmd' \in [Commands -> Command] /\ CommandsInv'
  BY <1>3, <1>5, OneCommand
<1>7. row' \in [Rows -> Row] /\ incs' \in 0..MaxIncarnation /\ audit' \in Seq(Entry)
  BY <1>1, CommandFacts, ApplyType DEF HandleOp
<1> QED
  BY <1>6, <1>7 DEF HandleOp, keys, TypeInv, TypeOK, PreparedInv

LEMMA AdminKeyType ==
    ASSUME TypeInv, NEW c \in Commands PROVE AdminKey(c) \in Key
BY CommandFacts, Bounds DEF AdminKey, Command

LEMMA CommitOfflineType ==
    ASSUME TypeInv, NEW c \in Commands, CommitOffline(c) PROVE TypeInv'
<1> DEFINE x == Ended("ok", cmd[c].applied + 1)
<1>1. cmd[c].at = "offline" /\ cmd[c].applied = 0 /\ cmd[c].op \in Ops
  BY CommandFacts DEF CommitOffline, CommandOK
<1>2. cmd[c].applied + 1 = 1 /\ 1 \in 0..2
  BY <1>1
<1>3. x \in Command /\ CommandOK(x)
  BY <1>2, Bounds DEF Ended, Idle, NoOp, Command, CommandOK
<1>4. Becomes(c, x) /\ anchor' = AdminKey(c) /\ Apply(cmd[c].op, AdminKey(c))
  BY DEF CommitOffline
<1> HIDE DEF x
<1>5. cmd' \in [Commands -> Command] /\ CommandsInv'
  BY <1>3, <1>4, OneCommand
<1>6. row' \in [Rows -> Row] /\ incs' \in 0..MaxIncarnation /\ audit' \in Seq(Entry)
  BY <1>1, <1>4, AdminKeyType, ApplyType
<1> QED
  BY <1>4, <1>5, <1>6, AdminKeyType DEF CommitOffline, keys, TypeInv, TypeOK, PreparedInv

LEMMA FailOfflineType ==
    ASSUME TypeInv, NEW c \in Commands, FailOffline(c) \/ RefuseOffline(c) PROVE TypeInv'
<1>1. /\ cmd[c].applied = 0
      /\ Ends(c, "local") \/ Ends(c, "refused")
      /\ anchor' \in {anchor, AdminKey(c)}
  BY CommandFacts DEF FailOffline, RefuseOffline, CommandOK, Rest, store
<1>2. cmd' \in [Commands -> Command] /\ CommandsInv'
  BY <1>1, EndsType
<1> QED
  BY <1>1, <1>2, AdminKeyType
     DEF FailOffline, RefuseOffline, Rest, keys, store, TypeInv, TypeOK, PreparedInv

(* No step of a command breaks the types. *)
LEMMA CommandStepType ==
    ASSUME TypeInv, NEW c \in Commands, CommandStep(c) PROVE TypeInv'
BY StartCommandType, PreflightType, PreflightNextType, ChallengeType, ResolveSigningType,
   SendOpType, HandleOpType, RefuseOpType, AnswerType, CommitOfflineType, FailOfflineType
   DEF CommandStep

LEMMA SignType ==
    ASSUME TypeInv, NEW s \in Signers, Sign(s) \/ AppendSignature(s) \/ RefuseSignature(s)
    PROVE  TypeInv'
<1>1. sig \in [Signers -> Signature] /\ sig[s] \in Signature /\ boots \in 0..MaxBoot
  BY DEF TypeInv, TypeOK
<1>2. CASE Sign(s)
  <2> DEFINE x(r) == [at |-> "prepared", on |-> r, inc |-> row[r].inc,
                      ver |-> row[r].ver, boot |-> boots, audited |-> TRUE]
  <2>1. PICK r \in Credentials : \/ sig' = [sig EXCEPT ![s] = x(r)]
                                 \/ sig' = [sig EXCEPT ![s] = Unrecorded]
    BY <1>2 DEF Sign
  <2>2. row[r] \in Row
    BY DEF TypeInv, TypeOK, Rows
  <2>3. /\ x(r) \in Signature /\ x(r).on \in Credentials
        /\ Unrecorded \in Signature /\ Unrecorded.at # "prepared"
    BY <1>1, <2>2, Bounds DEF Row, Signature, Unrecorded, Unsigned
  <2> HIDE DEF x
  <2>4. sig' \in [Signers -> Signature] /\ PreparedInv'
    BY <1>1, <2>1, <2>3 DEF PreparedInv, TypeInv
  <2> QED
    BY <1>2, <2>4 DEF Sign, keys, store, TypeInv, TypeOK, CommandsInv
<1>3. CASE AppendSignature(s)
  <2> DEFINE e == [op |-> "sign", on |-> sig[s].on, inc |-> sig[s].inc, ver |-> sig[s].ver]
  <2>1. sig[s].on \in Credentials
    BY <1>3 DEF AppendSignature, TypeInv, PreparedInv
  <2>2. e \in Entry
    BY <1>1, <2>1 DEF Signature, Entry, Rows
  <2> HIDE DEF e
  <2>3. audit' = Append(audit, e) /\ audit \in Seq(Entry)
    BY <1>3 DEF AppendSignature, e, TypeInv, TypeOK
  <2>4. audit' \in Seq(Entry)
    BY <2>2, <2>3, AppendProperties
  <2>5. sig' \in [Signers -> Signature] /\ PreparedInv'
    BY <1>1, <1>3 DEF AppendSignature, Signature, PreparedInv, TypeInv
  <2> QED
    BY <1>3, <2>4, <2>5 DEF AppendSignature, keys, TypeInv, TypeOK, CommandsInv
<1>4. CASE RefuseSignature(s)
  <2>1. sig' \in [Signers -> Signature] /\ PreparedInv'
    BY <1>1, <1>4, Bounds DEF RefuseSignature, Unsigned, Signature, PreparedInv, TypeInv
  <2> QED
    BY <1>4, <2>1 DEF RefuseSignature, keys, store, TypeInv, TypeOK, CommandsInv
<1> QED
  BY <1>2, <1>3, <1>4

LEMMA OpenType ==
    ASSUME TypeInv, Bootstrap \/ StartDaemon \/ HolderEnds \/ RotationOpens
    PROVE  TypeInv'
<1>1. /\ slot \in [{"current", "next"} -> Key] /\ minted \in Key /\ boots \in 0..MaxBoot
  BY DEF TypeInv, TypeOK
<1>2. minted < MaxKey => minted + 1 \in Key
  BY <1>1, Bounds DEF Key
<1>3. CASE Bootstrap
  BY <1>1, <1>2, <1>3
     DEF Bootstrap, store, TypeInv, TypeOK, PreparedInv, CommandsInv
<1>4. CASE StartDaemon
  <2>1. boots + 1 \in 0..MaxBoot
    BY <1>1, <1>4, Bounds DEF StartDaemon
  <2>2. anchor' \in Key /\ holder' \in Holder
    BY <1>4, Bounds DEF StartDaemon, Holder
  <2> QED
    BY <1>4, <2>1, <2>2 DEF StartDaemon, keys, TypeInv, TypeOK, PreparedInv, CommandsInv
<1>5. CASE HolderEnds
  BY <1>5, Bounds DEF HolderEnds, keys, store, TypeInv, TypeOK, PreparedInv, CommandsInv
<1>6. CASE RotationOpens
  <2>1. minted' \in Key
    BY <1>2, <1>6 DEF RotationOpens
  <2>2. anchor' \in Key /\ holder' \in Holder
    BY <1>6, <2>1 DEF RotationOpens, Holder
  <2> QED
    BY <1>6, <2>1, <2>2 DEF RotationOpens, TypeInv, TypeOK, PreparedInv, CommandsInv
<1> QED
  BY <1>3, <1>4, <1>5, <1>6

LEMMA SlotType ==
    ASSUME TypeInv, Heal \/ HealClears \/ StageNext \/ PromoteNext \/ PromoteClears
    PROVE  TypeInv'
<1>1. /\ slot \in [{"current", "next"} -> Key] /\ holder \in Holder
      /\ holder.new \in Key
  BY DEF TypeInv, TypeOK, Holder
<1>2. \A st \in {"healed", "stage", "rewrap", "promoted"} :
         [holder EXCEPT !.step = st] \in Holder
  BY <1>1 DEF Holder
<1>3. slot' \in [{"current", "next"} -> Key] /\ holder' \in Holder
  BY <1>1, <1>2, Bounds
     DEF Heal, HealClears, StageNext, PromoteNext, PromoteClears, Goes
<1> QED
  BY <1>3 DEF Heal, HealClears, StageNext, PromoteNext, PromoteClears, store,
              TypeInv, TypeOK, PreparedInv, CommandsInv

LEMMA RewrapType ==
    ASSUME TypeInv, Rewrap PROVE TypeInv'
<1>1. holder \in Holder /\ holder.new \in Key /\ row \in [Rows -> Row]
  BY DEF TypeInv, TypeOK, Holder
<1>2. \A r \in Rows : Rewrapped(r) \in Row
  BY <1>1 DEF Rewrapped, Row
<1>3. row' \in [Rows -> Row]
  BY <1>2 DEF Rewrap
<1>4. holder' \in Holder
  BY <1>1 DEF Rewrap, Holder
<1> DEFINE e == [op |-> "rotate", on |-> "vault", inc |-> 0, ver |-> 0]
<1>5. e \in Entry
  BY Bounds DEF Entry
<1> HIDE DEF e
<1>6. audit' = Append(audit, e) /\ audit \in Seq(Entry)
  BY DEF Rewrap, e, TypeInv, TypeOK
<1>7. audit' \in Seq(Entry)
  BY <1>5, <1>6, AppendProperties
<1> QED
  BY <1>1, <1>3, <1>4, <1>7 DEF Rewrap, keys, TypeInv, TypeOK, PreparedInv, CommandsInv

LEMMA DamageType ==
    ASSUME TypeInv, NEW r \in Rows, Damage(r) PROVE TypeInv'
<1>1. row' \in [Rows -> Row]
  <2>1. row \in [Rows -> Row] /\ row[r] \in Row
    BY DEF TypeInv, TypeOK
  <2>2. [row[r] EXCEPT !.sound = FALSE] \in Row
    BY <2>1 DEF Row
  <2>3. row' = [row EXCEPT ![r] = [row[r] EXCEPT !.sound = FALSE]]
    BY DEF Damage
  <2> QED
    BY <2>1, <2>2, <2>3
<1> QED
  BY <1>1 DEF Damage, keys, TypeInv, TypeOK, PreparedInv, CommandsInv

(* The types, and what commands have had applied, are kept by every step. *)
LEMMA TypeInductive ==
    ASSUME TypeInv, [Next]_vars PROVE TypeInv'
<1>1. CASE UNCHANGED vars
  BY <1>1 DEF vars, TypeInv, TypeOK, PreparedInv, CommandsInv
<1>2. CASE Next
  BY <1>2, OpenType, SlotType, RewrapType, CommandStepType, SignType, DamageType
     DEF Next, Rotation
<1> QED
  BY <1>1, <1>2

LEMMA TypeInitial == Init => TypeInv
<1> SUFFICES ASSUME Init PROVE TypeInv
  OBVIOUS
<1>1. CommandOK(Idle)
  BY DEF CommandOK, Idle, NoOp
<1>2. PreparedInv /\ CommandsInv
  BY <1>1 DEF Init, PreparedInv, CommandsInv, Unsigned
<1>3. <<>> \in Seq(Entry)
  OBVIOUS
<1>4. TypeOK
  BY <1>3, Bounds DEF Init, TypeOK, Key
<1> QED
  BY <1>2, <1>4 DEF TypeInv

(* Every variable of the vault keeps its type. *)
THEOREM TypesHold == Spec => []TypeOK
<1>1. TypeInv => TypeOK
  BY DEF TypeInv
<1> QED
  BY <1>1, TypeInitial, TypeInductive, PTL DEF Spec

(* An operation that a command commits through the daemon or offline is    *)
(* applied at most once, and what the command reports is what happened.    *)
THEOREM ReportsHold == Spec => []ReportedAsApplied
<1>1. ASSUME TypeInv PROVE ReportedAsApplied
  <2> SUFFICES ASSUME NEW c \in Commands
               PROVE  /\ cmd[c].applied <= 1
                      /\ cmd[c].end = "ok" => cmd[c].applied = 1
                      /\ cmd[c].end \in {"refused", "local"} =>
                            cmd[c].applied = 0 /\ cmd[c].net # "op"
    BY DEF ReportedAsApplied
  <2> QED
    BY <1>1, CommandFacts DEF CommandOK
<1> QED
  BY <1>1, TypeInitial, TypeInductive, PTL DEF Spec

-----------------------------------------------------------------------------
(* The keys.                                                               *)

KeyInv == TypeInv /\ KeysInv /\ SealedOrQuarantined

(* Opening the vault, by whoever holds the lease, makes the anchor a key   *)
(* that is in a slot; it moves the anchor only in a store with no rows.    *)
LEMMA OpenKeepsKeys ==
    ASSUME KeyInv, NEW k \in Key, Resolves(k), Opens(k)
    PROVE  /\ k # NoKey /\ \E s \in {"current", "next"} : slot[s] = k
           /\ anchor # NoKey => k = anchor
           /\ anchor = NoKey => \A r \in Rows : row[r] = NoRow
BY DEF Resolves, Opens, Empty, KeyInv, KeysInv, NeverStranded

(* The same of an offline command, whose key may be the preflighted one. *)
LEMMA AdminKeepsKeys ==
    ASSUME KeyInv, NEW c \in Commands, AdminKey(c) # NoKey, Opens(AdminKey(c))
    PROVE  /\ \E s \in {"current", "next"} : slot[s] = AdminKey(c)
           /\ anchor # NoKey => AdminKey(c) = anchor
           /\ anchor = NoKey => \A r \in Rows : row[r] = NoRow
<1>1. CASE anchor = NoKey
  BY <1>1 DEF AdminKey, Opens, Empty, KeyInv, KeysInv
<1>2. CASE anchor # NoKey
  BY <1>2 DEF AdminKey, Opens, KeyInv, KeysInv, NeverStranded
<1> QED
  BY <1>1, <1>2

(* What an operation seals is sealed under the key of its process. *)
LEMMA ApplySeals ==
    ASSUME TypeInv, NEW op \in Ops, NEW k \in Key, Apply(op, k),
           \A r \in Rows : row[r].state = "active" => row[r].key = k
    PROVE  \A r \in Rows : row'[r].state = "active" => row'[r].key = k
<1>1. op.on \in Rows /\ op.do \in {"create", "replace", "remove"}
  BY DEF Ops, Rows
<1>2. row \in [Rows -> Row] /\ row[op.on] \in Row
  BY <1>1 DEF TypeInv, TypeOK
<1>3. After(op, k).state = "active" => After(op, k).key = k
  BY <1>1, <1>2 DEF After, NoRow, Row
<1>4. row' = [row EXCEPT ![op.on] = After(op, k)]
  BY DEF Apply
<1> HIDE DEF After
<1> QED
  BY <1>1, <1>2, <1>3, <1>4

(* Before the database has a key, what commands have read is the Current   *)
(* slot's.                                                                 *)
ReadCurrent(x) == x.pre \in {NoKey, slot["current"]}

LEMMA BecomesPre ==
    ASSUME cmd \in [Commands -> Command], \A d \in Commands : ReadCurrent(cmd[d]),
           NEW c \in Commands, NEW x, Becomes(c, x), ReadCurrent(x)
    PROVE  \A d \in Commands : ReadCurrent(cmd'[d])
BY DEF Becomes

LEMMA MovesPre ==
    ASSUME cmd \in [Commands -> Command], \A d \in Commands : ReadCurrent(cmd[d]),
           NEW c \in Commands, NEW at, Moves(c, at)
    PROVE  \A d \in Commands : ReadCurrent(cmd'[d])
<1>1. ReadCurrent([cmd[c] EXCEPT !.at = at])
  BY DEF ReadCurrent, Command
<1> QED
  BY <1>1, BecomesPre DEF Moves

LEMMA EndsPre ==
    ASSUME cmd \in [Commands -> Command], \A d \in Commands : ReadCurrent(cmd[d]),
           NEW c \in Commands, NEW end, NEW n, Becomes(c, Ended(end, n))
    PROVE  \A d \in Commands : ReadCurrent(cmd'[d])
<1>1. ReadCurrent(Ended(end, n))
  BY DEF ReadCurrent, Ended, Idle
<1> QED
  BY <1>1, BecomesPre

LEMMA CommandPre ==
    ASSUME KeyInv, NEW c \in Commands, CommandStep(c), anchor = NoKey
    PROVE  \A d \in Commands : ReadCurrent(cmd'[d])
<1>1. /\ cmd \in [Commands -> Command] /\ cmd[c] \in Command /\ CommandOK(cmd[c])
      /\ slot["next"] = NoKey /\ holder.kind = "none"
      /\ \A d \in Commands : ReadCurrent(cmd[d])
  BY CommandFacts DEF KeyInv, TypeInv, TypeOK, KeysInv, ReadCurrent
<1>2. CASE StartCommand(c)
  <2>1. PICK op \in Ops, at \in {"preflight", "ready"} :
           Becomes(c, [cmd[c] EXCEPT !.at = at, !.op = op,
                           !.want = IF at = "preflight" THEN anchor ELSE NoKey])
    BY <1>2 DEF StartCommand
  <2>2. ReadCurrent([cmd[c] EXCEPT !.at = at, !.op = op,
                         !.want = IF at = "preflight" THEN anchor ELSE NoKey])
    BY <1>1 DEF ReadCurrent, Command
  <2> QED
    BY <1>1, <2>1, <2>2, BecomesPre
<1>3. CASE Preflight(c)
  <2>1. PICK found \in {slot["current"], NoKey} :
           \/ Becomes(c, [cmd[c] EXCEPT !.at = "ready", !.pre = found, !.want = NoKey])
           \/ Moves(c, "preflightNext") \/ Ends(c, "local")
    BY <1>3 DEF Preflight
  <2>2. ReadCurrent([cmd[c] EXCEPT !.at = "ready", !.pre = found, !.want = NoKey])
    BY <1>1 DEF ReadCurrent, Command
  <2> QED
    BY <1>1, <2>1, <2>2, BecomesPre, MovesPre, EndsPre DEF Ends
<1>4. CASE PreflightNext(c)
  <2>1. cmd[c].want # NoKey
    BY <1>1, <1>4 DEF PreflightNext, CommandOK
  <2>2. Ends(c, "local")
    BY <1>1, <1>4, <2>1 DEF PreflightNext
  <2> QED
    BY <1>1, <2>2, EndsPre DEF Ends
<1>5. CASE Challenge(c) \/ ResolveSigning(c) \/ ResolveSigningNext(c)
  <2>1. \/ Ends(c, "local")
        \/ \E at \in {"offline", "signed", "challengedNext"} : Moves(c, at)
    BY <1>1, <1>5 DEF Challenge, ResolveSigning, ResolveSigningNext
  <2> QED
    BY <1>1, <2>1, MovesPre, EndsPre DEF Ends
<1>6. CASE SendOp(c)
  <2>1. /\ ReadCurrent([cmd[c] EXCEPT !.at = "sent", !.net = "op", !.pre = NoKey])
        /\ ReadCurrent([cmd[c] EXCEPT !.at = "offline", !.want = NoKey, !.boot = 0])
    BY <1>1 DEF ReadCurrent, Command
  <2> QED
    BY <1>1, <1>6, <2>1, BecomesPre DEF SendOp
<1>7. CASE HandleOp(c) \/ RefuseOp(c)
  BY <1>1, <1>7 DEF HandleOp, RefuseOp, Live, Verified
<1>8. CASE Answer(c) \/ LoseAnswer(c)
  <2>1. ReadCurrent([cmd[c] EXCEPT !.at = "done", !.end = "indeterminate"])
    BY <1>1 DEF ReadCurrent, Command
  <2> QED
    BY <1>1, <1>8, <2>1, BecomesPre, EndsPre DEF Answer, LoseAnswer, Ends
<1>9. CASE CommitOffline(c) \/ FailOffline(c) \/ RefuseOffline(c)
  <2>1. \E end \in {"ok", "local", "refused"} :
           \E n \in {cmd[c].applied, cmd[c].applied + 1} : Becomes(c, Ended(end, n))
    BY <1>9 DEF CommitOffline, FailOffline, RefuseOffline, Ends
  <2> QED
    BY <1>1, <2>1, EndsPre
<1> QED
  BY <1>2, <1>3, <1>4, <1>5, <1>6, <1>7, <1>8, <1>9 DEF CommandStep

LEMMA CommandKeepsKeys ==
    ASSUME KeyInv, NEW c \in Commands, CommandStep(c)
    PROVE  KeysInv' /\ SealedOrQuarantined'
<1>1. slot' = slot /\ holder' = holder /\ holder \in Holder /\ cmd[c] \in Command
      /\ TypeInv /\ CommandOK(cmd[c])
  BY CommandFacts
     DEF CommandStep, StartCommand, Preflight, PreflightNext, Challenge, ResolveSigning,
         ResolveSigningNext, SendOp, HandleOp, RefuseOp, Answer, LoseAnswer, CommitOffline,
         FailOffline, RefuseOffline, Rest, keys, KeyInv
<1>2. CASE UNCHANGED <<anchor, row>>
  <2>1. anchor = NoKey => \A d \in Commands : cmd'[d].pre \in {NoKey, slot["current"]}
    BY CommandPre DEF ReadCurrent
  <2> QED
    BY <1>1, <1>2, <2>1 DEF KeyInv, KeysInv, NeverStranded, SealedOrQuarantined
<1>3. CASE HandleOp(c)
  <2>1. anchor' = anchor /\ holder.key = anchor /\ anchor # NoKey /\ holder.key \in Key
        /\ cmd[c].op \in Ops /\ Apply(cmd[c].op, holder.key)
    BY <1>1, <1>3, CommandFacts
       DEF HandleOp, Verified, Live, KeyInv, KeysInv, CommandOK
  <2>2. \A r \in Rows : row[r].state = "active" => row[r].key = holder.key
    BY <2>1 DEF KeyInv, SealedOrQuarantined
  <2>3. \A r \in Rows : row'[r].state = "active" => row'[r].key = holder.key
    BY <1>1, <2>1, <2>2, ApplySeals
  <2> QED
    BY <1>1, <2>1, <2>3 DEF KeyInv, KeysInv, NeverStranded, SealedOrQuarantined
<1>4. CASE CommitOffline(c)
  <2> DEFINE k == AdminKey(c)
  <2>1. /\ k # NoKey /\ Opens(k) /\ anchor' = k /\ Apply(cmd[c].op, k)
        /\ cmd[c].op \in Ops /\ holder.kind = "none" /\ k \in Key
    BY <1>1, <1>4, AdminKeyType DEF CommitOffline, LeaseFree, CommandOK
  <2>2. /\ \E s \in {"current", "next"} : slot[s] = k
        /\ anchor # NoKey => k = anchor
        /\ anchor = NoKey => \A r \in Rows : row[r] = NoRow
    BY <2>1, AdminKeepsKeys
  <2>3. \A r \in Rows : row[r].state = "active" => row[r].key = k
    BY <2>2 DEF KeyInv, SealedOrQuarantined, NoRow
  <2> HIDE DEF k
  <2>4. \A r \in Rows : row'[r].state = "active" => row'[r].key = k
    BY <1>1, <2>1, <2>3, ApplySeals
  <2> QED
    BY <1>1, <2>1, <2>2, <2>4 DEF KeyInv, KeysInv, NeverStranded, SealedOrQuarantined
<1>5. CASE RefuseOffline(c)
  <2> DEFINE k == AdminKey(c)
  <2>1. k # NoKey /\ Opens(k) /\ anchor' = k /\ holder.kind = "none" /\ row' = row
    BY <1>5 DEF RefuseOffline, LeaseFree
  <2>2. /\ \E s \in {"current", "next"} : slot[s] = k
        /\ anchor # NoKey => k = anchor
        /\ anchor = NoKey => \A r \in Rows : row[r] = NoRow
    BY <2>1, AdminKeepsKeys
  <2>3. \A r \in Rows : row[r].state = "active" => row[r].key = k
    BY <2>2 DEF KeyInv, SealedOrQuarantined, NoRow
  <2> HIDE DEF k
  <2> QED
    BY <1>1, <2>1, <2>2, <2>3 DEF KeyInv, KeysInv, NeverStranded, SealedOrQuarantined
<1> QED
  BY <1>2, <1>3, <1>4, <1>5
     DEF CommandStep, StartCommand, Preflight, PreflightNext, Challenge, ResolveSigning,
         ResolveSigningNext, SendOp, RefuseOp, Answer, LoseAnswer, FailOffline, Rest, store

LEMMA OpenKeepsInv ==
    ASSUME KeyInv, Bootstrap \/ StartDaemon \/ HolderEnds \/ RotationOpens
    PROVE  KeysInv' /\ SealedOrQuarantined'
<1>1. slot \in [{"current", "next"} -> Key] /\ minted \in Key /\ minted \in Nat
  BY Bounds DEF KeyInv, TypeInv, TypeOK, Key
<1>2. CASE Bootstrap
  <2>1. minted' # NoKey
    BY <1>1, <1>2 DEF Bootstrap, NoKey
  <2> QED
    BY <1>1, <1>2, <2>1
       DEF Bootstrap, LeaseFree, store, KeyInv, KeysInv, NeverStranded, SealedOrQuarantined
<1>3. CASE StartDaemon \/ RotationOpens
  <2>1. PICK k \in Key : /\ Resolves(k) /\ Opens(k) /\ anchor' = k /\ holder'.key = k
                         /\ holder'.kind \in {"daemon", "rotation"}
                         /\ holder'.kind = "rotation" => holder'.step = "heal"
                                                       /\ holder'.new = minted + 1
    BY <1>3 DEF StartDaemon, RotationOpens
  <2>2. /\ k # NoKey /\ \E s \in {"current", "next"} : slot[s] = k
        /\ anchor # NoKey => k = anchor
        /\ anchor = NoKey => \A r \in Rows : row[r] = NoRow
    BY <2>1, OpenKeepsKeys
  <2>3. \A r \in Rows : row[r].state = "active" => row[r].key = k
    BY <2>2 DEF KeyInv, SealedOrQuarantined, NoRow
  <2>4. slot' = slot /\ row' = row /\ cmd' = cmd
    BY <1>3 DEF StartDaemon, RotationOpens, keys
  <2>5. minted + 1 # NoKey
    BY <1>1 DEF NoKey
  <2>6. NeverStranded' /\ SealedOrQuarantined'
    BY <2>1, <2>2, <2>3, <2>4 DEF NeverStranded, SealedOrQuarantined
  <2> QED
    BY <2>1, <2>2, <2>4, <2>5, <2>6 DEF KeysInv
<1>4. CASE HolderEnds
  BY <1>4 DEF HolderEnds, NoHolder, keys, store, KeyInv, KeysInv, NeverStranded,
              SealedOrQuarantined
<1> QED
  BY <1>2, <1>3, <1>4

LEMMA RotationKeepsInv ==
    ASSUME KeyInv, Heal \/ HealClears \/ StageNext \/ Rewrap \/ PromoteNext \/ PromoteClears
    PROVE  KeysInv' /\ SealedOrQuarantined'
<1>1. /\ slot \in [{"current", "next"} -> Key] /\ holder \in Holder
      /\ holder.kind = "rotation" /\ holder.key = anchor /\ anchor # NoKey
      /\ holder.new # NoKey /\ cmd' = cmd
  BY DEF KeyInv, TypeInv, TypeOK, KeysInv, Heal, HealClears, StageNext, Rewrap,
         PromoteNext, PromoteClears, At
<1>2. CASE Heal
  BY <1>1, <1>2 DEF Heal, At, Goes, store, Holder, KeyInv, KeysInv, NeverStranded,
                    SealedOrQuarantined
<1>3. CASE HealClears
  BY <1>1, <1>3 DEF HealClears, At, Goes, store, Holder, KeyInv, KeysInv, NeverStranded,
                    SealedOrQuarantined
<1>4. CASE StageNext
  BY <1>1, <1>4 DEF StageNext, At, Goes, store, Holder, KeyInv, KeysInv, NeverStranded,
                    SealedOrQuarantined
<1>5. CASE Rewrap
  <2>1. slot' = slot /\ slot["next"] = holder.new /\ anchor' = holder.new
        /\ holder'.kind = "rotation" /\ holder'.step = "promote"
        /\ holder'.key = holder.new /\ holder'.new = holder.new
    BY <1>1, <1>5 DEF Rewrap, At, keys, Holder, KeyInv, KeysInv
  <2>2. \A r \in Rows : row[r] \in Row
    BY DEF KeyInv, TypeInv, TypeOK
  <2>3. \A r \in Rows : Rewrapped(r).state = "active" => Rewrapped(r).key = holder.new
    BY <2>2 DEF Rewrapped, Row
  <2>4. SealedOrQuarantined'
    BY <1>5, <2>1, <2>3 DEF Rewrap, SealedOrQuarantined
  <2> QED
    BY <1>1, <2>1, <2>4 DEF KeysInv, NeverStranded
<1>6. CASE PromoteNext
  BY <1>1, <1>6 DEF PromoteNext, NoHolder, At, Goes, store, Holder, KeyInv, KeysInv,
                    NeverStranded, SealedOrQuarantined
<1>7. CASE PromoteClears
  BY <1>1, <1>7 DEF PromoteClears, NoHolder, At, store, Holder, KeyInv, KeysInv,
                    NeverStranded, SealedOrQuarantined
<1> QED
  BY <1>2, <1>3, <1>4, <1>5, <1>6, <1>7

LEMMA KeyInductive ==
    ASSUME KeyInv, [Next]_vars PROVE KeyInv'
<1>1. TypeInv'
  BY TypeInductive DEF KeyInv
<1>2. CASE UNCHANGED vars
  BY <1>1, <1>2 DEF vars, KeyInv, KeysInv, NeverStranded, SealedOrQuarantined
<1>3. ASSUME NEW s \in Signers, Sign(s) \/ AppendSignature(s) \/ RefuseSignature(s)
      PROVE  KeysInv' /\ SealedOrQuarantined'
  BY <1>3 DEF Sign, AppendSignature, RefuseSignature, keys, store, KeyInv, KeysInv,
              NeverStranded, SealedOrQuarantined
<1>4. ASSUME NEW r \in Rows, Damage(r)
      PROVE  KeysInv' /\ SealedOrQuarantined'
  <2>1. \A q \in Rows : row'[q].state = row[q].state /\ row'[q].key = row[q].key
    BY <1>4 DEF Damage, KeyInv, TypeInv, TypeOK, Row
  <2> QED
    BY <1>4, <2>1 DEF Damage, keys, KeyInv, KeysInv, NeverStranded, SealedOrQuarantined
<1> QED
  BY <1>1, <1>2, <1>3, <1>4, OpenKeepsInv, RotationKeepsInv, CommandKeepsKeys
     DEF Next, Rotation, KeyInv

LEMMA KeyInitial == Init => KeyInv
BY TypeInitial DEF Init, KeyInv, KeysInv, NeverStranded, SealedOrQuarantined, NoHolder,
                   Idle, NoRow, NoKey

(* After any sequence of rotations, each of which may stop at any point,   *)
(* one of the two slots holds the key that opens the database.             *)
THEOREM KeyIsNeverLost == Spec => []NeverStranded
<1>1. KeyInv => NeverStranded
  BY DEF KeyInv, KeysInv
<1> QED
  BY <1>1, KeyInitial, KeyInductive, PTL DEF Spec

(* Every row of both tables is sealed under the key of the database or is  *)
(* quarantined.                                                            *)
THEOREM RowsStayReadable == Spec => []SealedOrQuarantined
<1>1. KeyInv => SealedOrQuarantined
  BY DEF KeyInv
<1> QED
  BY <1>1, KeyInitial, KeyInductive, PTL DEF Spec

-----------------------------------------------------------------------------
(* The audit chain.                                                        *)

(* The chain grows at its end by one entry. *)
Grows(e) == /\ Len(audit') = Len(audit) + 1
            /\ audit'[Len(audit) + 1] = e
            /\ \A i \in 1..Len(audit) : audit'[i] = audit[i]

LEMMA AppendGrows ==
    ASSUME TypeInv, NEW e \in Entry, audit' = Append(audit, e)
    PROVE  Grows(e) /\ Len(audit) \in Nat
BY AppendProperties DEF Grows, TypeInv, TypeOK

(* A row keeps its place in the chain when the new entry is of another row *)
(* or a signature.                                                         *)
LEMMA PutStays ==
    ASSUME NEW e, Grows(e), Len(audit) \in Nat, NEW r \in Rows,
           \E i \in 1..Len(audit) : PutLast(r, i),
           row'[r].inc = row[r].inc, row'[r].ver = row[r].ver,
           e.on # r \/ e.op = "sign"
    PROVE  \E i \in 1..Len(audit') : PutLast(r, i)'
<1>1. PICK i \in 1..Len(audit) : PutLast(r, i)
  OBVIOUS
<1>2. i \in 1..Len(audit') /\ audit'[i] = audit[i]
  BY <1>1 DEF Grows
<1>3. ASSUME NEW m \in (i + 1)..Len(audit'), audit'[m].on = r PROVE audit'[m].op = "sign"
  <2>1. CASE m = Len(audit) + 1
    BY <1>3, <2>1 DEF Grows
  <2>2. CASE m # Len(audit) + 1
    <3>1. m \in (i + 1)..Len(audit) /\ m \in 1..Len(audit)
      BY <1>1, <2>2 DEF Grows
    <3> QED
      BY <1>1, <1>3, <3>1 DEF Grows, PutLast
  <2> QED
    BY <2>1, <2>2
<1>4. PutLast(r, i)'
  BY <1>1, <1>2, <1>3 DEF PutLast
<1> QED
  BY <1>2, <1>4

(* A signature that stands in its generation goes on standing there. *)
LEMMA SignedStays ==
    ASSUME NEW e, Grows(e), Len(audit) \in Nat,
           NEW i \in Nat, NEW j \in 1..Len(audit), i \in 1..(j - 1), InPlace(i, j)
    PROVE  InPlace(i, j)'
<1>1. i \in 1..Len(audit) /\ \A m \in (i + 1)..(j - 1) : m \in 1..Len(audit)
  OBVIOUS
<1> QED
  BY <1>1 DEF Grows, InPlace

LEMMA SignedGrows ==
    ASSUME TypeInv, SignedInItsGeneration, NEW e \in Entry, Grows(e), Len(audit) \in Nat,
           NEW n \in Nat, n = Len(audit) + 1,
           e.op = "sign" => \E i \in 1..Len(audit) : InPlace(i, n)',
           \A s \in Signers : sig'[s].at = "signed" /\ sig'[s].audited =>
              \/ sig[s] = sig'[s]
              \/ e = [op |-> "sign", on |-> sig'[s].on, inc |-> sig'[s].inc, ver |-> sig'[s].ver]
    PROVE  SignedInItsGeneration'
<1>1. ASSUME NEW j \in 1..Len(audit'), audit'[j].op = "sign"
      PROVE  \E i \in 1..(j - 1) : InPlace(i, j)'
  <2>1. CASE j = n
    <3>1. e.op = "sign" /\ j - 1 = Len(audit)
      BY <1>1, <2>1 DEF Grows
    <3> QED
      BY <2>1, <3>1
  <2>2. CASE j # n
    <3>1. j \in 1..Len(audit)
      BY <2>2 DEF Grows
    <3>2. PICK i \in 1..(j - 1) : InPlace(i, j)
      BY <1>1, <3>1 DEF Grows, SignedInItsGeneration
    <3> QED
      BY <3>1, <3>2, SignedStays
  <2> QED
    BY <2>1, <2>2
<1>2. ASSUME NEW s \in Signers, sig'[s].at = "signed", sig'[s].audited
      PROVE  \E j \in 1..Len(audit') :
                audit'[j] = [op |-> "sign", on |-> sig'[s].on, inc |-> sig'[s].inc,
                             ver |-> sig'[s].ver]
  <2>1. CASE sig[s] = sig'[s]
    <3>1. PICK j \in 1..Len(audit) :
             audit[j] = [op |-> "sign", on |-> sig[s].on, inc |-> sig[s].inc,
                         ver |-> sig[s].ver]
      BY <1>2, <2>1 DEF SignedInItsGeneration
    <3>2. j \in 1..Len(audit') /\ audit'[j] = audit[j]
      BY <3>1 DEF Grows
    <3> QED
      BY <2>1, <3>1, <3>2
  <2>2. CASE e = [op |-> "sign", on |-> sig'[s].on, inc |-> sig'[s].inc, ver |-> sig'[s].ver]
    <3>1. Len(audit) + 1 \in 1..Len(audit') /\ audit'[Len(audit) + 1] = e
      BY DEF Grows
    <3> QED
      BY <2>2, <3>1
  <2> QED
    BY <1>2, <2>1, <2>2
<1> QED
  BY <1>1, <1>2 DEF SignedInItsGeneration

LEMMA ApplyChain ==
    ASSUME TypeInv, ChainInv, NEW op \in Ops, NEW k \in Key, Apply(op, k), sig' = sig
    PROVE  ChainInv'
<1> DEFINE e == [op |-> op.do, on |-> op.on, inc |-> After(op, k).inc, ver |-> After(op, k).ver]
<1>1. /\ op.on \in Rows /\ op.do \in {"create", "replace", "remove"}
      /\ After(op, k) \in Row /\ row \in [Rows -> Row] /\ row[op.on] \in Row
  BY AfterType DEF Apply, TypeInv, TypeOK
<1>2. e \in Entry /\ e.op = op.do /\ e.on = op.on
      /\ e.inc = After(op, k).inc /\ e.ver = After(op, k).ver
  BY <1>1 DEF Row, Entry
<1>3. row' = [row EXCEPT ![op.on] = After(op, k)] /\ audit' = Append(audit, e)
  BY DEF Apply
<1>4. op.do = "remove" <=> After(op, k).state = "absent"
  BY <1>1 DEF After, NoRow, Row
<1> HIDE DEF e
<1>5. Grows(e) /\ Len(audit) \in Nat
  BY <1>2, <1>3, AppendGrows
<1> PICK n \in Nat : n = Len(audit) + 1
  BY <1>5
<1>6. ASSUME NEW r \in Rows, row'[r].state # "absent"
      PROVE  \E i \in 1..Len(audit') : PutLast(r, i)'
  <2>1. CASE r = op.on
    <3>1. op.do \in {"create", "replace"} /\ row'[r] = After(op, k)
      BY <1>1, <1>3, <1>4, <1>6, <2>1
    <3>2. n \in 1..Len(audit') /\ audit'[n] = e /\ \A m \in (n + 1)..Len(audit') : FALSE
      BY <1>5 DEF Grows
    <3>3. PutLast(r, n)'
      BY <1>2, <2>1, <3>1, <3>2 DEF PutLast
    <3> QED
      BY <3>2, <3>3
  <2>2. CASE r # op.on
    <3>1. row'[r] = row[r]
      BY <1>1, <1>3, <2>2
    <3>2. \E i \in 1..Len(audit) : PutLast(r, i)
      BY <1>6, <3>1 DEF ChainInv
    <3> QED
      BY <1>2, <1>5, <2>2, <3>1, <3>2, PutStays
  <2> QED
    BY <2>1, <2>2
<1>7. SignedInItsGeneration'
  BY <1>1, <1>2, <1>5, SignedGrows DEF ChainInv
<1> QED
  BY <1>6, <1>7 DEF ChainInv

LEMMA RewrapChain ==
    ASSUME TypeInv, ChainInv, Rewrap PROVE ChainInv'
<1> DEFINE e == [op |-> "rotate", on |-> "vault", inc |-> 0, ver |-> 0]
<1>1. e \in Entry /\ e.op # "sign" /\ e.on \notin Rows
  BY Bounds, VaultAssumption DEF Entry, Rows
<1>2. audit' = Append(audit, e) /\ sig' = sig
  BY DEF Rewrap
<1> HIDE DEF e
<1>3. Grows(e) /\ Len(audit) \in Nat
  BY <1>1, <1>2, AppendGrows
<1>4. \A r \in Rows : /\ row'[r].inc = row[r].inc /\ row'[r].ver = row[r].ver
                      /\ row'[r].state # "absent" => row[r].state # "absent"
  <2>1. \A r \in Rows : row[r] \in Row
    BY DEF TypeInv, TypeOK
  <2>2. \A r \in Rows : /\ Rewrapped(r).inc = row[r].inc /\ Rewrapped(r).ver = row[r].ver
                        /\ Rewrapped(r).state # "absent" => row[r].state # "absent"
    BY <2>1 DEF Rewrapped, Row
  <2> QED
    BY <2>2 DEF Rewrap
<1>5. ASSUME NEW r \in Rows, row'[r].state # "absent"
      PROVE  \E i \in 1..Len(audit') : PutLast(r, i)'
  <2>1. e.on # r
    BY <1>1
  <2>2. row'[r].inc = row[r].inc /\ row'[r].ver = row[r].ver /\ row[r].state # "absent"
    BY <1>4, <1>5
  <2>3. \E i \in 1..Len(audit) : PutLast(r, i)
    BY <2>2 DEF ChainInv
  <2> QED
    BY <1>3, <2>1, <2>2, <2>3, PutStays
<1>6. SignedInItsGeneration'
  BY <1>1, <1>2, <1>3, SignedGrows DEF ChainInv
<1> QED
  BY <1>5, <1>6 DEF ChainInv

LEMMA SignatureChain ==
    ASSUME TypeInv, ChainInv, NEW s \in Signers, AppendSignature(s) PROVE ChainInv'
<1> DEFINE e == [op |-> "sign", on |-> sig[s].on, inc |-> sig[s].inc, ver |-> sig[s].ver]
           r == sig[s].on
<1>1. /\ sig \in [Signers -> Signature] /\ sig[s] \in Signature /\ r \in Rows
      /\ row[r].state # "absent" /\ row[r].inc = sig[s].inc /\ row[r].ver = sig[s].ver
  BY DEF AppendSignature, StillStored, TypeInv, TypeOK, PreparedInv, Rows
<1>2. e \in Entry /\ e.op = "sign" /\ e.on = r /\ e.inc = sig[s].inc /\ e.ver = sig[s].ver
  BY <1>1 DEF Signature, Entry
<1>3. audit' = Append(audit, e) /\ row' = row
  BY DEF AppendSignature
<1>4. /\ \A t \in Signers : t # s => sig'[t] = sig[t]
      /\ sig'[s].on = sig[s].on /\ sig'[s].inc = sig[s].inc /\ sig'[s].ver = sig[s].ver
  BY <1>1 DEF AppendSignature, Signature
<1>5. e = [op |-> "sign", on |-> sig'[s].on, inc |-> sig'[s].inc, ver |-> sig'[s].ver]
  BY <1>4
<1> HIDE DEF e, r
<1>6. Grows(e) /\ Len(audit) \in Nat
  BY <1>2, <1>3, AppendGrows
<1>7. \A q \in Rows : row'[q].state # "absent" => \E i \in 1..Len(audit') : PutLast(q, i)'
  BY <1>2, <1>3, <1>6, PutStays DEF ChainInv
<1>8. PICK i \in 1..Len(audit) : PutLast(r, i)
  BY <1>1 DEF ChainInv
<1> PICK n \in Nat : n = Len(audit) + 1
  BY <1>6
<1>9. InPlace(i, n)'
  <2>1. audit'[i] = audit[i] /\ audit'[n] = e
    BY <1>6, <1>8 DEF Grows
  <2>2. ASSUME NEW m \in (i + 1)..(n - 1), audit'[m].on = r
        PROVE  audit'[m].op = "sign"
    <3>1. m \in (i + 1)..Len(audit) /\ m \in 1..Len(audit) /\ audit'[m] = audit[m]
      BY <1>6 DEF Grows
    <3> QED
      BY <1>8, <2>2, <3>1 DEF PutLast
  <2> QED
    BY <1>1, <1>2, <1>8, <2>1, <2>2 DEF InPlace, PutLast
<1>10. SignedInItsGeneration'
  <2>1. \A t \in Signers : sig'[t].at = "signed" =>
           \/ sig[t] = sig'[t]
           \/ e = [op |-> "sign", on |-> sig'[t].on, inc |-> sig'[t].inc, ver |-> sig'[t].ver]
    BY <1>4, <1>5
  <2> QED
    BY <1>2, <1>6, <1>9, <2>1, SignedGrows DEF ChainInv
<1> QED
  BY <1>7, <1>10 DEF ChainInv

(* A step that leaves the chain and the generations of the rows alone, and *)
(* gives out no signature that has to be recorded.                         *)
LEMMA ChainStays ==
    ASSUME ChainInv, audit' = audit,
           \A r \in Rows : /\ row'[r].inc = row[r].inc /\ row'[r].ver = row[r].ver
                           /\ row'[r].state = row[r].state,
           \A s \in Signers : sig'[s].at = "signed" /\ sig'[s].audited => sig'[s] = sig[s]
    PROVE  ChainInv'
<1>1. \A r \in Rows : row'[r].state # "absent" => \E i \in 1..Len(audit') : PutLast(r, i)'
  BY DEF ChainInv, PutLast
<1>2. SignedInItsGeneration'
  BY DEF ChainInv, SignedInItsGeneration, InPlace
<1> QED
  BY <1>1, <1>2 DEF ChainInv

LEMMA ChainInductive ==
    ASSUME TypeInv, ChainInv, [Next]_vars PROVE ChainInv'
<1>1. CASE UNCHANGED <<audit, row, sig>>
  BY <1>1, ChainStays
<1>2. ASSUME NEW c \in Commands, HandleOp(c) PROVE ChainInv'
  <2>1. cmd[c].op \in Ops /\ holder.key \in Key /\ Apply(cmd[c].op, holder.key) /\ sig' = sig
    BY <1>2, CommandFacts DEF HandleOp, CommandOK
  <2> QED
    BY <2>1, ApplyChain
<1>3. ASSUME NEW c \in Commands, CommitOffline(c) PROVE ChainInv'
  <2>1. cmd[c].op \in Ops /\ AdminKey(c) \in Key /\ Apply(cmd[c].op, AdminKey(c)) /\ sig' = sig
    BY <1>3, CommandFacts, AdminKeyType DEF CommitOffline, CommandOK
  <2> QED
    BY <2>1, ApplyChain
<1>4. ASSUME NEW s \in Signers, Sign(s) \/ RefuseSignature(s) PROVE ChainInv'
  <2>1. \A t \in Signers : sig'[t].at = "signed" /\ sig'[t].audited => sig'[t] = sig[t]
    BY <1>4 DEF Sign, RefuseSignature, Unrecorded, Unsigned, TypeInv, TypeOK
  <2> QED
    BY <1>4, <2>1, ChainStays DEF Sign, RefuseSignature, store
<1>5. ASSUME NEW r \in Rows, Damage(r) PROVE ChainInv'
  <2>1. \A q \in Rows : /\ row'[q].inc = row[q].inc /\ row'[q].ver = row[q].ver
                        /\ row'[q].state = row[q].state
    BY <1>5 DEF Damage, TypeInv, TypeOK, Row
  <2> QED
    BY <1>5, <2>1, ChainStays DEF Damage
<1>6. ASSUME NEW c \in Commands, CommandStep(c) PROVE ChainInv'
  <2>1. \/ HandleOp(c) \/ CommitOffline(c) \/ UNCHANGED <<audit, row, sig>>
    BY <1>6 DEF CommandStep, StartCommand, Preflight, PreflightNext, Challenge,
                ResolveSigning, ResolveSigningNext, SendOp, RefuseOp, Answer, LoseAnswer,
                FailOffline, RefuseOffline, Rest, store
  <2> QED
    BY <1>1, <1>2, <1>3, <2>1
<1>7. CASE Bootstrap \/ StartDaemon \/ HolderEnds
  BY <1>1, <1>7 DEF Bootstrap, StartDaemon, HolderEnds, store
<1>8. CASE Rotation
  <2>1. Rewrap \/ UNCHANGED <<audit, row, sig>>
    BY <1>8 DEF Rotation, RotationOpens, Heal, HealClears, StageNext, PromoteNext,
                PromoteClears, store
  <2> QED
    BY <1>1, <2>1, RewrapChain
<1>9. CASE UNCHANGED vars
  BY <1>1, <1>9 DEF vars
<1> QED
  BY <1>4, <1>5, <1>6, <1>7, <1>8, <1>9, SignatureChain DEF Next

(* A signature in the audit chain stands within the life of the key that   *)
(* made it, and no signature of a key that asks for its entries, of seal   *)
(* or of operator_sign is given out that does not stand there.             *)
THEOREM SignaturesStandInPlace == Spec => []SignedInItsGeneration
<1>1. Init => ChainInv
  BY DEF Init, ChainInv, SignedInItsGeneration, NoRow, Unsigned
<1>2. ChainInv => SignedInItsGeneration
  BY DEF ChainInv
<1>3. TypeInv /\ ChainInv /\ [Next]_vars => (TypeInv /\ ChainInv)'
  BY TypeInductive, ChainInductive
<1> QED
  BY <1>1, <1>2, <1>3, TypeInitial, PTL DEF Spec

=============================================================================
