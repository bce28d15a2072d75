------------------------- MODULE GatewayCallProofs -------------------------
(***************************************************************************)
(* Proofs about GatewayCall for any set of calls, kinds and budget: its   *)
(* type invariant, that "not_applied" is never said of a mutation Alpaca  *)
(* applied or may still apply, that no request starts once the caller of  *)
(* a gated call was left without its result, and that the audit trail     *)
(* agrees with the answers and is complete after a clean exit.            *)
(***************************************************************************)
EXTENDS GatewayCall, FiniteSetTheorems, TLAPS

Ended == {"ready", "sent", "done"}

\* A request is only on the wire while its task awaits it, and a result only
\* exists once the work ended.
Control(c) ==
    /\ wire[c] # "none" => task[c] = "inflight"
    /\ result[c] # NoCode <=> task[c] \in Ended
    /\ chan[c] = "full" => result[c] # NoCode
    /\ handler[c] \in {"idle", "refused"} => task[c] = "none"
    /\ task[c] = "none" => written[c] = "no"
    /\ ~kind[c].mutates => written[c] = "no" /\ wire[c] \notin {"write", "landed"}

\* What the work believes of its writes is never less than the truth, until
\* the end of the process cuts it.
Belief(c) ==
    /\ written[c] = "no" /\ wire[c] # "landed" /\ task[c] # "cut"
         => ~applied[c] /\ ~stray[c]
    /\ result[c] \notin {NoCode, "ok", "outcome_unknown"} => written[c] = "no"

\* Where an answer comes from.
AnswerSource(c) ==
    /\ answer[c] # NoCode => handler[c] \in {"refused", "answered", "abandoned"}
    /\ handler[c] = "answered" => answer[c] = result[c] /\ result[c] # NoCode
    /\ handler[c] = "abandoned" => answer[c] = without_result(kind[c])

\* Where a record's code comes from.
RecordSource(c) ==
    \A i \in DOMAIN audit[c] :
        IF audit[c][i].traffic
        THEN task[c] = "done" /\ audit[c][i].code = result[c]
        ELSE handler[c] \in {"refused", "abandoned"} /\ audit[c][i].code = answer[c]

CallInv(c) == Control(c) /\ Belief(c) /\ AnswerSource(c) /\ RecordSource(c)

Inv == TypeOK /\ \A c \in Calls : CallInv(c)

\* Once the handler of a gated call left its wait without the result, the gate
\* is closed, or the process is shutting down and no gate opens.
Gate(c) ==
    handler[c] \in {"closing", "abandoned", "dropping", "gone"} /\ ~kind[c].stream
        => closed[c] \/ shutdown

\* The oneshot channel says who got the result: it is closed by a handler that
\* left, and the task's phase is settled when it found it so.
Channel(c) ==
    /\ chan[c] = "closed" <=> handler[c] \in {"abandoned", "gone"}
    /\ chan[c] = "full" => task[c] \in {"sent", "done"}
    /\ task[c] \in {"sent", "done"} =>
          IF phase[c] = "answered" THEN chan[c] = "full" \/ handler[c] = "gone"
          ELSE chan[c] = "closed"

\* The trail of a call: at most one record of the handler, without traffic, and
\* one of the task, with it, each as soon as its author is done.
Trail(c) ==
    /\ \A i, j \in DOMAIN audit[c] : audit[c][i].traffic = audit[c][j].traffic => i = j
    /\ \A i \in DOMAIN audit[c] :
          audit[c][i].phase = IF audit[c][i].traffic THEN phase[c] ELSE "answered"
    /\ task[c] = "done" => \E i \in DOMAIN audit[c] : audit[c][i].traffic
    /\ handler[c] \in {"refused", "abandoned"}
          => \E i \in DOMAIN audit[c] : ~audit[c][i].traffic

\* A process that exited within its grace left no task behind.
Clean ==
    proc = "exited" /\ ~grace => \A c \in Calls : task[c] \in {"none", "done"}

AuditInv == Clean /\ \A c \in Calls : Gate(c) /\ Channel(c) /\ Trail(c)

-----------------------------------------------------------------------------

USE DEF Tiers, Codes, NoCode

(* A record appended by emit is a record. *)
LEMMA EmitType ==
    ASSUME audit \in [Calls -> Seq(Record)], NEW c \in Calls,
           NEW p \in {"answered", "settled"}, NEW code \in Codes,
           NEW t \in BOOLEAN, emit(c, p, code, t)
    PROVE  audit' \in [Calls -> Seq(Record)]
<1>1. [phase |-> p, code |-> code, traffic |-> t] \in Record
    BY DEF Record
<1>2. Append(audit[c], [phase |-> p, code |-> code, traffic |-> t]) \in Seq(Record)
    BY <1>1
<1> QED BY <1>2 DEF emit

(* The budget check answers with a code, and take stays within it. *)
LEMMA AdmitType ==
    ASSUME NEW k \in Kinds, used \in 0..PerMinute, windowOver \in BOOLEAN,
           take(k)
    PROVE  /\ admit(k) \in Codes
           /\ used' \in 0..PerMinute
           /\ windowOver' \in BOOLEAN
<1>1. k.cost \in Nat /\ PerMinute \in Nat
    BY KindsAssumption, PerMinuteAssumption DEF Kind
<1>2. admit(k) \in Codes
    BY DEF admit
<1>3. UsedNow \in 0..PerMinute
    BY <1>1 DEF UsedNow
<1>4. CASE IsHuman(k) /\ k.cost > 0 /\ admit(k) \in {"ok", "backpressure"}
  <2>1. windowOver' = FALSE /\ used' = IF admit(k) = "ok" THEN UsedNow + k.cost ELSE UsedNow
    BY <1>4 DEF take
  <2>2. admit(k) = "ok" => UsedNow + k.cost <= PerMinute
    BY <1>1, <1>3, <1>4 DEF admit
  <2>3. CASE admit(k) = "ok"
    <3>1. used' = UsedNow + k.cost /\ UsedNow + k.cost <= PerMinute
      BY <2>1, <2>2, <2>3
    <3>2. UsedNow + k.cost \in 0..PerMinute
      <4> DEFINE u == UsedNow
                 x == k.cost
      <4>1. u \in Nat /\ x \in Nat /\ u + x <= PerMinute BY <1>1, <1>3, <3>1
      <4> HIDE DEF u, x
      <4>2. u + x \in 0..PerMinute BY <1>1, <4>1
      <4> QED BY <4>2 DEF u, x
    <3> QED BY <1>2, <2>1, <3>1, <3>2
  <2>4. CASE admit(k) # "ok" BY <1>2, <1>3, <2>1, <2>4
  <2> QED BY <2>3, <2>4
<1>5. CASE ~(IsHuman(k) /\ k.cost > 0 /\ admit(k) \in {"ok", "backpressure"})
  <2>1. UNCHANGED budgetVars
    BY <1>5 DEF take
  <2> QED BY <1>2, <2>1 DEF budgetVars
<1> QED BY <1>4, <1>5

(* The work ends with a code. *)
LEMMA FinishType ==
    ASSUME result \in [Calls -> Codes \cup {NoCode}],
           NEW c \in Calls, NEW code \in Codes, Finish(c, code)
    PROVE  /\ result' \in [Calls -> Codes \cup {NoCode}]
           /\ task' = [task EXCEPT ![c] = "ready"]
BY DEF Finish

(* Every step keeps the type invariant. *)
LEMMA TypeStep == Inv /\ [Next]_vars => TypeOK'
<1> SUFFICES ASSUME TypeOK, \A c \in Calls : Control(c), [Next]_vars PROVE TypeOK'
    BY DEF Inv, CallInv
<1> USE DEF vars, callVars, taskVars, procVars, budgetVars
<1>1. ASSUME NEW c \in Calls, TaskSteps(c) PROVE TypeOK'
  <2>0. FailureCode(c) \in Codes
    BY DEF FailureCode
  <2>1. CASE AskMint(c) BY <2>1 DEF AskMint, TypeOK
  <2>2. CASE StartMint(c) BY <2>2 DEF StartMint, TypeOK
  <2>3. CASE MintReturns(c) BY <2>3 DEF MintReturns, TypeOK
  <2>4. CASE HeldBack(c)
    <3>1. Finish(c, FailureCode(c)) BY <2>4 DEF HeldBack
    <3>2. /\ result' \in [Calls -> Codes \cup {NoCode}]
          /\ task' = [task EXCEPT ![c] = "ready"]
      BY <2>0, <3>1, FinishType DEF TypeOK
    <3> QED BY <2>4, <3>2 DEF HeldBack, TypeOK
  <2>5. CASE FinishWork(c)
    <3>1. PICK code \in Codes : Finish(c, code) BY <2>0, <2>5 DEF FinishWork
    <3>2. /\ result' \in [Calls -> Codes \cup {NoCode}]
          /\ task' = [task EXCEPT ![c] = "ready"]
      BY <3>1, FinishType DEF TypeOK
    <3> QED BY <2>5, <3>2 DEF FinishWork, TypeOK
  <2>6. CASE ReadReturns(c)
    <3>1. CASE kind[c].stream
      <4>1. PICK code \in Codes : Finish(c, code) BY <2>6, <3>1 DEF ReadReturns
      <4>2. /\ result' \in [Calls -> Codes \cup {NoCode}]
            /\ task' = [task EXCEPT ![c] = "ready"]
        BY <4>1, FinishType DEF TypeOK
      <4> QED BY <2>6, <4>2 DEF ReadReturns, TypeOK
    <3>2. CASE ~kind[c].stream BY <2>6, <3>2 DEF ReadReturns, TypeOK
    <3> QED BY <3>1, <3>2
  <2>7. CASE WriteOk(c) BY <2>7 DEF WriteOk, TypeOK
  <2>8. CASE WriteRefused(c) BY <2>8 DEF WriteRefused, TypeOK
  <2>9. CASE WriteLost(c) BY <2>9 DEF WriteLost, TypeOK
  <2>10. CASE Deliver(c) BY <2>10 DEF Deliver, TypeOK
  <2>11. CASE Emit(c)
    <3>1. result[c] \in Codes
      BY <2>11 DEF Emit, Control, Ended, TypeOK
    <3>2. [phase |-> phase[c], code |-> result[c], traffic |-> TRUE] \in Record
      BY <3>1 DEF Record, TypeOK
    <3>3. audit' \in [Calls -> Seq(Record)]
      BY <2>11, <3>2 DEF Emit, emit, TypeOK
    <3> QED BY <2>11, <3>3 DEF Emit, TypeOK
  <2>12. ASSUME NEW what \in {"read", "write"}, Send(c, what) PROVE TypeOK'
    BY <2>12 DEF Send, TypeOK
  <2> QED BY <1>1, <2>1, <2>2, <2>3, <2>4, <2>5, <2>6, <2>7, <2>8, <2>9, <2>10, <2>11, <2>12 DEF TaskSteps
<1>2. ASSUME NEW c \in Calls, HandlerSteps(c) PROVE TypeOK'
  <2>0. ASSUME NEW code \in Codes, NEW place, refuse(c, code, place)
        PROVE  audit' \in [Calls -> Seq(Record)] /\ answer' \in [Calls -> Codes \cup {NoCode}]
    BY <2>0, EmitType DEF refuse, TypeOK
  <2>1. CASE Reject(c)
    <3>1. refuse(c, "invalid_request", "refused") BY <2>1 DEF Reject
    <3>2. handler' = [handler EXCEPT ![c] = "refused"] BY <3>1 DEF refuse
    <3>3. audit' \in [Calls -> Seq(Record)] /\ answer' \in [Calls -> Codes \cup {NoCode}]
      BY <2>0, <3>1
    <3> QED BY <2>1, <3>2, <3>3 DEF Reject, TypeOK
  <2>2. CASE Refuse(c)
    <3>1. take(kind[c]) /\ refuse(c, admit(kind[c]), "refused") BY <2>2 DEF Refuse
    <3>2. handler' = [handler EXCEPT ![c] = "refused"] BY <3>1 DEF refuse
    <3>3. admit(kind[c]) \in Codes /\ used' \in 0..PerMinute /\ windowOver' \in BOOLEAN
      BY <3>1, AdmitType DEF TypeOK
    <3>4. audit' \in [Calls -> Seq(Record)] /\ answer' \in [Calls -> Codes \cup {NoCode}]
      BY <2>0, <3>1, <3>3
    <3> QED BY <2>2, <3>2, <3>3, <3>4 DEF Refuse, TypeOK
  <2>3. CASE Admit(c)
    <3>1. used' \in 0..PerMinute /\ windowOver' \in BOOLEAN
      BY <2>3, AdmitType DEF Admit, TypeOK
    <3> QED BY <2>3, <3>1 DEF Admit, TypeOK
  <2>4. CASE AnswerResult(c) BY <2>4 DEF AnswerResult, TypeOK
  <2>5. CASE GiveUp(c) BY <2>5 DEF GiveUp, TypeOK
  <2>6. CASE CloseChannel(c)
    <3>1. CASE chan[c] = "full" BY <2>6, <3>1 DEF CloseChannel, TypeOK
    <3>2. CASE chan[c] # "full"
      <4>1. without_result(kind[c]) \in Codes BY DEF without_result
      <4>2. refuse(c, without_result(kind[c]), "abandoned") BY <2>6, <3>2 DEF CloseChannel
      <4>3. handler' = [handler EXCEPT ![c] = "abandoned"] BY <4>2 DEF refuse
      <4>4. audit' \in [Calls -> Seq(Record)] /\ answer' \in [Calls -> Codes \cup {NoCode}]
        BY <2>0, <4>1, <4>2
      <4>5. /\ chan' = [chan EXCEPT ![c] = "closed"]
            /\ UNCHANGED <<kind, late, closed, taskVars, procVars, budgetVars>>
        BY <2>6, <3>2 DEF CloseChannel
      <4> QED BY <4>3, <4>4, <4>5 DEF TypeOK
    <3> QED BY <3>1, <3>2
  <2>7. CASE Disconnect(c) BY <2>7 DEF Disconnect, TypeOK
  <2>8. CASE DropReceiver(c) BY <2>8 DEF DropReceiver, TypeOK
  <2> QED BY <1>2, <2>1, <2>2, <2>3, <2>4, <2>5, <2>6, <2>7, <2>8 DEF HandlerSteps
<1>3. ASSUME NEW c \in Calls, Deadline(c) PROVE TypeOK' BY <1>3 DEF Deadline, TypeOK
<1>4. ASSUME NEW c \in Calls, Land(c) PROVE TypeOK'
  <2>1. /\ wire' \in {wire, [wire EXCEPT ![c] = "landed"]}
        /\ stray' \in {stray, [stray EXCEPT ![c] = FALSE]}
        /\ applied' = [applied EXCEPT ![c] = TRUE]
    BY <1>4 DEF Land
  <2>2. wire' \in [Calls -> {"none", "read", "write", "landed"}]
    BY <2>1 DEF TypeOK
  <2>3. stray' \in [Calls -> BOOLEAN] BY <2>1 DEF TypeOK
  <2>4. applied' \in [Calls -> BOOLEAN] BY <2>1 DEF TypeOK
  <2> QED BY <1>4, <2>2, <2>3, <2>4 DEF Land, TypeOK
<1>5. CASE WindowElapses BY <1>5 DEF WindowElapses, TypeOK
<1>6. CASE Signal BY <1>6 DEF Signal, TypeOK
<1>7. CASE GraceEnds BY <1>7 DEF GraceEnds, TypeOK
<1>8. CASE Drained BY <1>8 DEF Drained, TypeOK
<1>9. CASE Exit BY <1>9 DEF Exit, TypeOK
<1>10. CASE UNCHANGED vars BY <1>10 DEF TypeOK
<1> QED BY <1>1, <1>2, <1>3, <1>4, <1>5, <1>6, <1>7, <1>8, <1>9, <1>10 DEF Next

(* A record of an appended trail is an old one or the new one. *)
LEMMA AppendRecords ==
    ASSUME NEW s \in Seq(Record), NEW r \in Record, NEW i \in DOMAIN Append(s, r)
    PROVE  \/ i \in DOMAIN s /\ Append(s, r)[i] = s[i]
           \/ Append(s, r)[i] = r
OBVIOUS

(* The end of the work keeps the relations of its call. *)
LEMMA FinishStep ==
    ASSUME TypeOK, NEW c \in Calls, CallInv(c), NEW code \in Codes,
           task[c] \in Working \cup {"inflight"}, Finish(c, code),
           code \notin {"ok", "outcome_unknown"} => written[c] = "no",
           wire[c] \notin {"write", "landed"}, wire'[c] = "none",
           UNCHANGED <<callVars, written, stray, applied, audit>>
    PROVE  CallInv(c)'
<1> USE DEF Finish, TypeOK, callVars, Ended, Working
<1>1. /\ task' = [task EXCEPT ![c] = "ready"] /\ result' = [result EXCEPT ![c] = code]
      /\ task'[c] = "ready" /\ result'[c] = code
    OBVIOUS
<1>2. Control(c)' BY <1>1 DEF CallInv, Control
<1>3. Belief(c)' BY <1>1 DEF CallInv, Belief
<1>4. AnswerSource(c)' BY <1>1 DEF CallInv, AnswerSource, Control
<1>5. RecordSource(c)' BY <1>1 DEF CallInv, RecordSource
<1> QED BY <1>2, <1>3, <1>4, <1>5 DEF CallInv

(* A step that leaves a call's state alone keeps its relations. *)
LEMMA Frame ==
    ASSUME NEW d \in Calls, CallInv(d),
           kind'[d] = kind[d], handler'[d] = handler[d], chan'[d] = chan[d],
           answer'[d] = answer[d], task'[d] = task[d], wire'[d] = wire[d],
           written'[d] = written[d], stray'[d] = stray[d],
           applied'[d] = applied[d], result'[d] = result[d], audit'[d] = audit[d]
    PROVE  CallInv(d)'
BY DEF CallInv, Control, Belief, AnswerSource, RecordSource, without_result

(* Every step keeps what relates the state of each call. *)
LEMMA CallStep == Inv /\ [Next]_vars => \A d \in Calls : CallInv(d)'
<1> SUFFICES ASSUME TypeOK, \A c \in Calls : CallInv(c), [Next]_vars, NEW d \in Calls
             PROVE  CallInv(d)'
    BY DEF Inv
<1> USE DEF CallInv, Control, Belief, AnswerSource, RecordSource, Ended, Working,
            vars, callVars, taskVars, procVars, budgetVars
<1>0. TypeOK' BY TypeStep DEF Inv
<1>1. ASSUME NEW c \in Calls, TaskSteps(c) PROVE CallInv(d)'
  <2>1. CASE AskMint(c) BY <2>1 DEF AskMint, TypeOK
  <2>2. CASE StartMint(c) BY <2>2 DEF StartMint, TypeOK
  <2>3. CASE MintReturns(c) BY <2>3 DEF MintReturns, TypeOK
  <2>4. CASE HeldBack(c)
    <3>1. CASE d = c
      <4>1. wire[c] = "none" /\ wire'[c] = "none" BY <2>4 DEF HeldBack
      <4>2. /\ Finish(c, FailureCode(c)) /\ task[c] \in Working
            /\ UNCHANGED <<callVars, written, stray, applied, audit>>
        BY <2>4 DEF HeldBack
      <4>3. FailureCode(c) \in Codes
            /\ (FailureCode(c) \notin {"ok", "outcome_unknown"} => written[c] = "no")
        BY DEF FailureCode
      <4> HIDE DEF CallInv, callVars
      <4> QED BY <3>1, <4>1, <4>2, <4>3, FinishStep
    <3>2. CASE d # c
      <4>1. Finish(c, FailureCode(c)) BY <2>4 DEF HeldBack
      <4>2. task'[d] = task[d] /\ result'[d] = result[d]
        BY <3>2, <4>1 DEF Finish, TypeOK
      <4> QED BY <2>4, <4>2, Frame DEF HeldBack
    <3> QED BY <3>1, <3>2
  <2>5. CASE FinishWork(c)
    <3>0. PICK code \in Codes :
             /\ Finish(c, code)
             /\ code \notin {"ok", "outcome_unknown"} => written[c] = "no"
      BY <2>5 DEF FinishWork, FailureCode
    <3>1. CASE d = c
      <4>1. wire[c] = "none" /\ wire'[c] = "none" BY <2>5 DEF FinishWork
      <4>2. task[c] \in Working /\ UNCHANGED <<callVars, written, stray, applied, audit>>
        BY <2>5 DEF FinishWork
      <4> HIDE DEF CallInv, callVars
      <4> QED BY <3>0, <3>1, <4>1, <4>2, FinishStep
    <3>2. CASE d # c
      <4>1. task'[d] = task[d] /\ result'[d] = result[d]
        BY <3>0, <3>2 DEF Finish, TypeOK
      <4> QED BY <2>5, <4>1, Frame DEF FinishWork
    <3> QED BY <3>1, <3>2
  <2>6. CASE ReadReturns(c)
    <3>1. CASE ~kind[c].stream BY <2>6, <3>1 DEF ReadReturns, TypeOK
    <3>2. CASE kind[c].stream
      <4>0. PICK code \in {"ok", "unsent"} : Finish(c, code)
        BY <2>6, <3>2 DEF ReadReturns
      <4>1. CASE d = c
        <5>1. written[c] = "no"
          BY <3>2, KindsAssumption DEF TypeOK
        <5>2. wire[c] = "read" /\ wire'[c] = "none" BY <2>6 DEF ReadReturns, TypeOK
        <5>3. task[c] = "inflight" /\ UNCHANGED <<callVars, written, stray, applied, audit>>
          BY <2>6 DEF ReadReturns
        <5>4. code \in Codes OBVIOUS
        <5> HIDE DEF CallInv, callVars
        <5> QED BY <4>0, <4>1, <5>1, <5>2, <5>3, <5>4, FinishStep
      <4>2. CASE d # c
        <5>1. task'[d] = task[d] /\ result'[d] = result[d]
          BY <4>0, <4>2 DEF Finish, TypeOK
        <5>2. wire'[d] = wire[d] BY <2>6, <4>2 DEF ReadReturns, TypeOK
        <5> QED BY <2>6, <5>1, <5>2, Frame DEF ReadReturns
      <4> QED BY <4>1, <4>2
    <3> QED BY <3>1, <3>2
  <2>7. CASE WriteOk(c) BY <2>7 DEF WriteOk, TypeOK
  <2>8. CASE WriteRefused(c) BY <2>8 DEF WriteRefused, TypeOK
  <2>9. CASE WriteLost(c) BY <2>9 DEF WriteLost, TypeOK
  <2>10. CASE Deliver(c) BY <2>10 DEF Deliver, TypeOK
  <2>11. CASE Emit(c)
    <3> DEFINE r == [phase |-> phase[c], code |-> result[c], traffic |-> TRUE]
    <3>1. r \in Record BY <2>11 DEF Emit, Record, TypeOK
    <3>2. audit' = [audit EXCEPT ![c] = Append(audit[c], r)] /\ audit[c] \in Seq(Record)
      BY <2>11 DEF Emit, emit, TypeOK
    <3>3. CASE d = c
      <4>1. \A i \in DOMAIN audit'[c] :
               (i \in DOMAIN audit[c] /\ audit'[c][i] = audit[c][i]) \/ audit'[c][i] = r
        BY <3>1, <3>2, AppendRecords DEF TypeOK
      <4>2. r.traffic /\ r.code = result[c] OBVIOUS
      <4> HIDE DEF r
      <4>3. /\ task[c] = "sent" /\ task'[c] = "done" /\ result' = result
            /\ handler' = handler /\ answer' = answer
        BY <2>11 DEF Emit, TypeOK
      <4>5. \A i \in DOMAIN audit[c] : ~audit[c][i].traffic BY <4>3
      <4>6. RecordSource(c)' BY <4>1, <4>2, <4>3, <4>5
      <4>4. (Control(c) /\ Belief(c) /\ AnswerSource(c))' BY <2>11 DEF Emit, TypeOK
      <4> QED BY <3>3, <4>4, <4>6
    <3>4. CASE d # c
      <4>1. audit'[d] = audit[d] BY <3>2, <3>4 DEF TypeOK
      <4>2. task'[d] = task[d] BY <2>11, <3>4 DEF Emit, TypeOK
      <4> QED BY <2>11, <4>1, <4>2, Frame DEF Emit
    <3> QED BY <3>3, <3>4
  <2>12. ASSUME NEW what \in {"read", "write"}, Send(c, what) PROVE CallInv(d)'
    BY <2>12 DEF Send, TypeOK
  <2> QED BY <1>1, <2>1, <2>2, <2>3, <2>4, <2>5, <2>6, <2>7, <2>8, <2>9, <2>10, <2>11, <2>12 DEF TaskSteps
<1>2. ASSUME NEW c \in Calls, HandlerSteps(c) PROVE CallInv(d)'
  <2>0. ASSUME NEW code \in Codes, NEW place \in {"refused", "abandoned"},
               refuse(c, code, place), handler[c] \in {"idle", "closing"},
               chan'[d] = chan[d] \/ chan'[d] = "closed",
               place = "refused" => handler[c] = "idle",
               place = "abandoned" => handler[c] = "closing" /\ code = without_result(kind[c]),
               kind' = kind, taskVars' = taskVars
        PROVE  CallInv(d)'
    <3> DEFINE r == [phase |-> "answered", code |-> code, traffic |-> FALSE]
    <3>1. r \in Record BY DEF Record
    <3>2. /\ audit' = [audit EXCEPT ![c] = Append(audit[c], r)] /\ audit[c] \in Seq(Record)
          /\ answer' = [answer EXCEPT ![c] = code]
          /\ handler' = [handler EXCEPT ![c] = place]
      BY <2>0 DEF refuse, emit, TypeOK
    <3>3. CASE d = c
      <4>1. \A i \in DOMAIN audit'[c] :
               (i \in DOMAIN audit[c] /\ audit'[c][i] = audit[c][i]) \/ audit'[c][i] = r
        BY <3>1, <3>2, AppendRecords DEF TypeOK
      <4>2. ~r.traffic /\ r.code = code OBVIOUS
      <4> HIDE DEF r
      <4>3. handler'[c] = place /\ answer'[c] = code BY <3>2 DEF TypeOK
      <4>4. RecordSource(c)' BY <2>0, <4>1, <4>2, <4>3
      <4>5. (Control(c) /\ Belief(c))' BY <2>0, <3>3, <4>3
      <4>6. AnswerSource(c)' BY <2>0, <4>3 DEF without_result
      <4> QED BY <3>3, <4>4, <4>5, <4>6
    <3>4. CASE d # c
      <4>1. audit'[d] = audit[d] /\ answer'[d] = answer[d] /\ handler'[d] = handler[d]
        BY <3>2, <3>4 DEF TypeOK
      <4>2. (Control(d) /\ Belief(d) /\ AnswerSource(d) /\ RecordSource(d))'
        BY <2>0, <4>1 DEF without_result
      <4> QED BY <4>2
    <3> QED BY <3>3, <3>4
  <2>1. CASE Reject(c)
    <3>1. /\ refuse(c, "invalid_request", "refused") /\ handler[c] = "idle"
          /\ chan' = chan /\ kind' = kind /\ taskVars' = taskVars
      BY <2>1 DEF Reject
    <3> HIDE DEF CallInv, taskVars
    <3> QED BY <2>0, <3>1
  <2>2. CASE Refuse(c)
    <3>1. /\ refuse(c, admit(kind[c]), "refused") /\ handler[c] = "idle"
          /\ chan' = chan /\ kind' = kind /\ taskVars' = taskVars
      BY <2>2 DEF Refuse
    <3>2. admit(kind[c]) \in Codes BY DEF admit
    <3> HIDE DEF CallInv, taskVars
    <3> QED BY <2>0, <3>1, <3>2
  <2>3. CASE Admit(c) BY <2>3 DEF Admit, TypeOK
  <2>4. CASE AnswerResult(c) BY <2>4 DEF AnswerResult, TypeOK
  <2>5. CASE GiveUp(c) BY <2>5 DEF GiveUp, TypeOK
  <2>6. CASE CloseChannel(c)
    <3>1. CASE chan[c] = "full" BY <2>6, <3>1 DEF CloseChannel, TypeOK
    <3>2. CASE chan[c] # "full"
      <4>1. /\ refuse(c, without_result(kind[c]), "abandoned") /\ handler[c] = "closing"
            /\ chan' = [chan EXCEPT ![c] = "closed"] /\ kind' = kind /\ taskVars' = taskVars
        BY <2>6, <3>2 DEF CloseChannel
      <4>2. chan'[d] = chan[d] \/ chan'[d] = "closed" BY <4>1 DEF TypeOK
      <4>3. without_result(kind[c]) \in Codes BY DEF without_result
      <4> HIDE DEF CallInv, taskVars
      <4> QED BY <2>0, <4>1, <4>2, <4>3
    <3> QED BY <3>1, <3>2
  <2>7. CASE Disconnect(c) BY <2>7 DEF Disconnect, TypeOK
  <2>8. CASE DropReceiver(c) BY <2>8 DEF DropReceiver, TypeOK
  <2> QED BY <1>2, <2>1, <2>2, <2>3, <2>4, <2>5, <2>6, <2>7, <2>8 DEF HandlerSteps
<1>3. ASSUME NEW c \in Calls, Deadline(c) PROVE CallInv(d)' BY <1>3 DEF Deadline, TypeOK
<1>4. ASSUME NEW c \in Calls, Land(c) PROVE CallInv(d)' BY <1>4 DEF Land, TypeOK
<1>5. CASE WindowElapses BY <1>5 DEF WindowElapses
<1>6. CASE Signal BY <1>6 DEF Signal
<1>7. CASE GraceEnds BY <1>7 DEF GraceEnds
<1>8. CASE Drained BY <1>8 DEF Drained
<1>9. CASE Exit BY <1>9 DEF Exit, AwaitPoints, TypeOK
<1>10. CASE UNCHANGED vars BY <1>10
<1> QED BY <1>1, <1>2, <1>3, <1>4, <1>5, <1>6, <1>7, <1>8, <1>9, <1>10 DEF Next

(* Inv holds of every reachable state. *)
LEMMA Invariance == Spec => []Inv
<1>1. Init => Inv
  <2> SUFFICES ASSUME Init PROVE Inv OBVIOUS
  <2>1. TypeOK
    <3>1. \A c \in Calls : audit[c] \in Seq(Record) BY DEF Init
    <3>2. audit \in [Calls -> Seq(Record)] BY <3>1 DEF Init
    <3>3. used \in 0..PerMinute BY PerMinuteAssumption DEF Init
    <3> QED BY <3>2, <3>3 DEF Init, TypeOK
  <2>2. ASSUME NEW c \in Calls PROVE CallInv(c)
    BY DEF Init, CallInv, Control, Belief, AnswerSource, RecordSource, Ended
  <2> QED BY <2>1, <2>2 DEF Inv
<1>2. Inv /\ [Next]_vars => Inv'
  BY TypeStep, CallStep DEF Inv
<1> QED BY <1>1, <1>2, PTL DEF Spec

(* The state of the gateway always has its types, and the human budget of a *)
(* window is never overdrawn: state.rs, request_id.rs, budget.rs.           *)
THEOREM TypeCorrect == Spec => []TypeOK
<1>1. Inv => TypeOK BY DEF Inv
<1> QED BY <1>1, Invariance, PTL

(* "not_applied" is a promise the gateway keeps in the answer and in every  *)
(* audit record, whatever the interleaving of task, handler, Alpaca and     *)
(* shutdown: Failure::for_mutation over what the work knows of its writes.  *)
THEOREM NotAppliedHolds == Spec => []NotAppliedIsTrue
<1>1. Inv => NotAppliedIsTrue
  <2> SUFFICES ASSUME Inv, NEW c \in Calls,
                      \/ Outcome(kind[c], answer[c]) = "not_applied"
                      \/ \E r \in Records(c) : Outcome(kind[c], r.code) = "not_applied"
               PROVE  ~applied[c] /\ ~stray[c] /\ wire[c] \notin {"write", "landed"}
    BY DEF NotAppliedIsTrue
  <2>1. TypeOK /\ CallInv(c) BY DEF Inv
  <2> DEFINE Unsent(code) == code \notin {NoCode, "ok", "outcome_unknown"}
  <2>2. \A code : Outcome(kind[c], code) = "not_applied" => Unsent(code) /\ kind[c].mutates
    BY DEF Outcome
  <2>3. CASE task[c] = "none"
    <3>1. wire[c] = "none" BY <2>1, <2>3 DEF CallInv, Control
    <3>2. result[c] = NoCode BY <2>1, <2>3 DEF CallInv, Control, Ended
    <3> QED BY <2>1, <2>3, <3>1, <3>2 DEF CallInv, Control, Belief
  <2>4. CASE Unsent(result[c])
    BY <2>1, <2>4 DEF CallInv, Control, Belief, TypeOK, Ended
  <2>5. Unsent(answer[c]) /\ kind[c].mutates => task[c] = "none" \/ Unsent(result[c])
    <3>1. kind[c].stream => ~kind[c].mutates
      BY <2>1, KindsAssumption DEF TypeOK
    <3> QED BY <2>1, <3>1 DEF CallInv, Control, AnswerSource, without_result
  <2>6. ASSUME NEW r \in Records(c), Unsent(r.code), kind[c].mutates
        PROVE  task[c] = "none" \/ Unsent(result[c])
    <3>1. PICK i \in DOMAIN audit[c] : r = audit[c][i] BY DEF Records
    <3>2. r.code = result[c] \/ r.code = answer[c]
      BY <2>1, <3>1 DEF CallInv, RecordSource
    <3> QED BY <2>5, <2>6, <3>2
  <2> QED BY <2>2, <2>3, <2>4, <2>5, <2>6
<1> QED BY <1>1, Invariance, PTL

-----------------------------------------------------------------------------
(* The gate, and the audit trail *)

(* Every step keeps the gate of a call that was left closed. *)
LEMMA GateStep ==
    TypeOK /\ (\A c \in Calls : Gate(c)) /\ [Next]_vars => \A d \in Calls : Gate(d)'
<1> SUFFICES ASSUME TypeOK, \A c \in Calls : Gate(c), [Next]_vars, NEW d \in Calls
             PROVE  Gate(d)'
    OBVIOUS
<1> USE DEF Gate, shutdown, callVars, procVars
<1>1. ASSUME UNCHANGED <<kind, handler, closed>>, shutdown => shutdown' PROVE Gate(d)'
    BY <1>1
<1>2. ASSUME NEW c \in Calls, TaskSteps(c) \/ Deadline(c) \/ Land(c) PROVE Gate(d)'
    <2>1. UNCHANGED <<kind, handler, closed, proc>>
        BY <1>2 DEF TaskSteps, AskMint, StartMint, MintReturns, Send, HeldBack, FinishWork,
                    ReadReturns, WriteOk, WriteRefused, WriteLost, Deliver, Emit, Deadline, Land
    <2> QED BY <1>1, <2>1
<1>3. ASSUME NEW c \in Calls, HandlerSteps(c) PROVE Gate(d)'
    <2>1. kind' = kind /\ proc' = proc
        BY <1>3 DEF HandlerSteps, Reject, Refuse, Admit, AnswerResult, GiveUp, CloseChannel,
                    Disconnect, DropReceiver
    <2>2. \/ /\ closed' = closed
             /\ handler'[d] = handler[d]
                  \/ handler'[d] \in {"refused", "waiting", "answered"}
                  \/ handler[d] \in {"closing", "dropping"}
          \/ closed'[d] = ~kind[d].stream \/ closed'[d] = TRUE
          \/ closed'[d] = closed[d] /\ handler'[d] = handler[d]
        <3>1. CASE Reject(c) \/ Refuse(c) \/ Admit(c)
            <4>1. closed' = closed
                BY <3>1 DEF Reject, Refuse, Admit
            <4>2. \E place \in {"refused", "waiting"} : handler' = [handler EXCEPT ![c] = place]
                BY <3>1 DEF Reject, Refuse, Admit, refuse
            <4>3. DOMAIN handler = Calls
                BY DEF TypeOK
            <4> QED BY <4>1, <4>2, <4>3
        <3>2. CASE AnswerResult(c) \/ GiveUp(c) \/ Disconnect(c)
            BY <3>2 DEF AnswerResult, GiveUp, Disconnect, TypeOK
        <3>3. CASE CloseChannel(c) \/ DropReceiver(c)
            BY <3>3 DEF CloseChannel, DropReceiver, refuse, TypeOK
        <3> QED BY <1>3, <3>1, <3>2, <3>3 DEF HandlerSteps
    <2> QED BY <2>1, <2>2
<1>4. CASE WindowElapses \/ Signal \/ GraceEnds \/ Drained \/ UNCHANGED vars
    BY <1>1, <1>4 DEF WindowElapses, Signal, GraceEnds, Drained, vars
<1>5. CASE Exit
    BY <1>5 DEF Exit
<1> QED BY <1>2, <1>3, <1>4, <1>5 DEF Next

(* A step that leaves a call's channel, task and trail alone keeps what the *)
(* audit says of it.                                                         *)
LEMMA AuditFrame ==
    ASSUME NEW d \in Calls, Channel(d), Trail(d), handler'[d] = handler[d],
           chan'[d] = chan[d], task'[d] = task[d], phase'[d] = phase[d],
           audit'[d] = audit[d]
    PROVE  Channel(d)' /\ Trail(d)'
BY DEF Channel, Trail

(* An emitted record ends the trail, the records before it unchanged. *)
LEMMA EmitStep ==
    ASSUME TypeOK, NEW c \in Calls, NEW p \in {"answered", "settled"}, NEW code \in Codes,
           NEW t \in BOOLEAN, emit(c, p, code, t)
    PROVE  /\ \A e \in Calls \ {c} : audit'[e] = audit[e]
           /\ \A i \in DOMAIN audit[c] : i \in DOMAIN audit'[c] /\ audit'[c][i] = audit[c][i]
           /\ \E n \in DOMAIN audit'[c] :
                /\ audit'[c][n].phase = p /\ audit'[c][n].traffic = t
                /\ \A i \in DOMAIN audit'[c] : i = n \/ i \in DOMAIN audit[c]
<1> DEFINE r == [phase |-> p, code |-> code, traffic |-> t]
           s == audit[c]
<1>1. r \in Record /\ r.phase = p /\ r.traffic = t
    BY DEF Record
<1>2. s \in Seq(Record) /\ audit \in [Calls -> Seq(Record)]
    BY DEF TypeOK
<1>3. audit' = [audit EXCEPT ![c] = Append(s, r)]
    BY DEF emit
<1>4. audit'[c] = Append(s, r) /\ \A e \in Calls \ {c} : audit'[e] = audit[e]
    BY <1>2, <1>3
<1> HIDE DEF r, s
<1>5. /\ \A i \in DOMAIN s : i \in DOMAIN Append(s, r) /\ Append(s, r)[i] = s[i]
      /\ Len(s) + 1 \in DOMAIN Append(s, r) /\ Append(s, r)[Len(s) + 1] = r
      /\ \A i \in DOMAIN Append(s, r) : i = Len(s) + 1 \/ i \in DOMAIN s
    BY <1>1, <1>2
<1> QED BY <1>1, <1>4, <1>5 DEF s

(* A new record of an author that had none keeps the trail in order. *)
LEMMA TrailGrows ==
    ASSUME TypeOK, NEW c \in Calls, NEW p \in {"answered", "settled"}, NEW code \in Codes,
           NEW t \in BOOLEAN, emit(c, p, code, t), Trail(c),
           \A i \in DOMAIN audit[c] : audit[c][i].traffic = ~t,
           p = IF t THEN phase[c] ELSE "answered",
           phase' = phase,
           task'[c] = "done" => t \/ task[c] = "done",
           handler'[c] \in {"refused", "abandoned"}
              => ~t \/ handler[c] \in {"refused", "abandoned"}
    PROVE  Trail(c)'
<1>1. PICK n \in DOMAIN audit'[c] :
        /\ audit'[c][n].phase = p /\ audit'[c][n].traffic = t
        /\ \A i \in DOMAIN audit'[c] : i = n \/ i \in DOMAIN audit[c]
    BY EmitStep
<1>2. \A i \in DOMAIN audit[c] : i \in DOMAIN audit'[c] /\ audit'[c][i] = audit[c][i]
    BY EmitStep
<1>3. \A i, j \in DOMAIN audit'[c] : audit'[c][i].traffic = audit'[c][j].traffic => i = j
    BY <1>1, <1>2 DEF Trail
<1>4. \A i \in DOMAIN audit'[c] :
        audit'[c][i].phase = IF audit'[c][i].traffic THEN phase'[c] ELSE "answered"
    BY <1>1, <1>2 DEF Trail
<1>5. task'[c] = "done" => \E i \in DOMAIN audit'[c] : audit'[c][i].traffic
    BY <1>1, <1>2 DEF Trail
<1>6. handler'[c] \in {"refused", "abandoned"}
        => \E i \in DOMAIN audit'[c] : ~audit'[c][i].traffic
    BY <1>1, <1>2 DEF Trail
<1> QED BY <1>3, <1>4, <1>5, <1>6 DEF Trail

(* Every step keeps what relates the channel, the task and the trail. *)
LEMMA AuditStep ==
    ASSUME Inv, \A c \in Calls : Channel(c) /\ Trail(c), [Next]_vars, NEW d \in Calls
    PROVE  Channel(d)' /\ Trail(d)'
<1> USE DEF vars, callVars, taskVars, procVars, budgetVars
<1>0. TypeOK /\ CallInv(d) /\ Channel(d) /\ Trail(d)
    BY DEF Inv
<1>01. /\ DOMAIN task = Calls /\ DOMAIN phase = Calls /\ DOMAIN handler = Calls
       /\ DOMAIN chan = Calls /\ DOMAIN audit = Calls
    BY <1>0 DEF TypeOK
<1>02. \A i \in DOMAIN audit[d] : audit[d][i].traffic \in BOOLEAN
    <2>1. audit[d] \in Seq(Record)
        BY <1>0 DEF TypeOK
    <2>2. \A i \in DOMAIN audit[d] : audit[d][i] \in Record
        BY <2>1
    <2> QED BY <2>2 DEF Record
<1>1. ASSUME UNCHANGED <<handler, chan, phase, audit>>,
             task'[d] = task[d] \/ {task[d], task'[d]} \cap {"sent", "done"} = {}
      PROVE  Channel(d)' /\ Trail(d)'
    BY <1>0, <1>1 DEF Channel, Trail
<1>2. ASSUME UNCHANGED <<chan, task, phase, audit>>,
             handler'[d] = handler[d] \/ {handler[d], handler'[d]}
                \cap {"refused", "abandoned", "gone"} = {}
      PROVE  Channel(d)' /\ Trail(d)'
    BY <1>0, <1>2 DEF Channel, Trail
<1>3. ASSUME NEW c \in Calls, d # c, TaskSteps(c) \/ HandlerSteps(c)
      PROVE  Channel(d)' /\ Trail(d)'
    <2>1. task'[d] = task[d] /\ phase'[d] = phase[d]
        <3>1. CASE TaskSteps(c)
            BY <1>01, <1>3, <3>1 DEF TaskSteps, AskMint, StartMint, MintReturns, Send,
               HeldBack, FinishWork, Finish, ReadReturns, WriteOk, WriteRefused, WriteLost,
               Deliver, Emit
        <3>2. CASE HandlerSteps(c)
            BY <1>01, <1>3, <3>2 DEF HandlerSteps, Reject, Refuse, Admit, AnswerResult,
               GiveUp, CloseChannel, Disconnect, DropReceiver
        <3> QED BY <1>3, <3>1, <3>2
    <2>2. handler'[d] = handler[d] /\ chan'[d] = chan[d]
        <3>1. CASE TaskSteps(c)
            BY <1>01, <1>3, <3>1 DEF TaskSteps, AskMint, StartMint, MintReturns, Send,
               HeldBack, FinishWork, ReadReturns, WriteOk, WriteRefused, WriteLost,
               Deliver, Emit
        <3>2. CASE HandlerSteps(c)
            BY <1>01, <1>3, <3>2 DEF HandlerSteps, Reject, Refuse, Admit, AnswerResult,
               GiveUp, CloseChannel, Disconnect, DropReceiver, refuse
        <3> QED BY <1>3, <3>1, <3>2
    <2>3. audit'[d] = audit[d]
        <3>1. CASE TaskSteps(c)
            BY <1>01, <1>3, <3>1 DEF TaskSteps, AskMint, StartMint, MintReturns, Send,
               HeldBack, FinishWork, ReadReturns, WriteOk, WriteRefused, WriteLost,
               Deliver, Emit, emit
        <3>2. CASE HandlerSteps(c)
            BY <1>01, <1>3, <3>2 DEF HandlerSteps, Reject, Refuse, Admit, AnswerResult,
               GiveUp, CloseChannel, Disconnect, DropReceiver, refuse, emit
        <3> QED BY <1>3, <3>1, <3>2
    <2> QED BY <1>0, <2>1, <2>2, <2>3, AuditFrame
<1>4. CASE TaskSteps(d)
    <2>1. CASE \/ AskMint(d) \/ StartMint(d) \/ MintReturns(d) \/ HeldBack(d) \/ FinishWork(d)
               \/ (\E what \in {"read", "write"} : Send(d, what)) \/ ReadReturns(d)
               \/ WriteOk(d) \/ WriteRefused(d) \/ WriteLost(d)
        <3>1. UNCHANGED <<handler, chan, phase, audit>>
            BY <2>1 DEF AskMint, StartMint, MintReturns, HeldBack, FinishWork, Send,
               ReadReturns, WriteOk, WriteRefused, WriteLost
        <3>2. task'[d] \notin {"sent", "done"}
            BY <1>01, <2>1 DEF AskMint, StartMint, MintReturns, HeldBack, FinishWork,
               Finish, Send, ReadReturns, WriteOk, WriteRefused, WriteLost
        <3>3. task[d] \notin {"sent", "done"}
            BY <2>1 DEF AskMint, StartMint, MintReturns, HeldBack, FinishWork, Working,
               Send, ReadReturns, WriteOk, WriteRefused, WriteLost
        <3> QED BY <1>1, <3>1, <3>2, <3>3
    <2>2. CASE Deliver(d)
        <3>1. /\ task[d] = "ready" /\ task'[d] = "sent" /\ UNCHANGED <<handler, audit>>
              /\ chan'[d] = IF chan[d] = "open" THEN "full" ELSE chan[d]
              /\ phase'[d] = IF chan[d] = "open" THEN "answered" ELSE "settled"
            BY <1>0, <2>2 DEF Deliver, TypeOK
        <3>2. chan[d] # "full"
            BY <1>0, <3>1 DEF Channel
        <3>3. \A i \in DOMAIN audit[d] : ~audit[d][i].traffic
            BY <1>0, <3>1 DEF CallInv, RecordSource
        <3>4. Channel(d)'
            BY <1>0, <3>1, <3>2 DEF Channel, TypeOK
        <3>5. Trail(d)'
            BY <1>0, <3>1, <3>3 DEF Trail
        <3> QED BY <3>4, <3>5
    <2>3. CASE Emit(d)
        <3>1. /\ emit(d, phase[d], result[d], TRUE) /\ task[d] = "sent" /\ task'[d] = "done"
              /\ UNCHANGED <<handler, chan, phase>>
            BY <1>0, <2>3 DEF Emit, TypeOK
        <3>2. result[d] \in Codes /\ phase[d] \in {"answered", "settled"}
            BY <1>0, <3>1 DEF CallInv, Control, Ended, TypeOK
        <3>3. \A i \in DOMAIN audit[d] : audit[d][i].traffic = FALSE
            <4>1. \A i \in DOMAIN audit[d] : ~audit[d][i].traffic
                BY <1>0, <3>1 DEF CallInv, RecordSource
            <4> QED BY <1>02, <4>1
        <3>4. Channel(d)'
            BY <1>0, <3>1 DEF Channel
        <3>5. Trail(d)'
            BY <1>0, <3>1, <3>2, <3>3, TrailGrows
        <3> QED BY <3>4, <3>5
    <2> QED BY <1>4, <2>1, <2>2, <2>3 DEF TaskSteps
<1>5. CASE HandlerSteps(d)
    <2>1. ASSUME NEW code \in Codes, NEW place \in {"refused", "abandoned"},
                 refuse(d, code, place), handler[d] \in {"idle", "closing"},
                 UNCHANGED taskVars
          PROVE  Trail(d)'
        <3>1. /\ emit(d, "answered", code, FALSE) /\ handler'[d] = place
              /\ UNCHANGED <<task, phase>>
            BY <1>0, <2>1 DEF refuse, TypeOK
        <3>2. \A i \in DOMAIN audit[d] : audit[d][i].traffic = TRUE
            <4>1. \A i \in DOMAIN audit[d] : audit[d][i].traffic
                BY <1>0, <2>1 DEF CallInv, RecordSource
            <4> QED BY <1>02, <4>1
        <3> QED BY <1>0, <3>1, <3>2, TrailGrows
    <2>2. CASE Reject(d) \/ Refuse(d)
        <3>1. PICK code \in Codes : refuse(d, code, "refused")
            BY <2>2 DEF Reject, Refuse, admit
        <3>2. handler[d] = "idle" /\ UNCHANGED <<chan, taskVars>>
            BY <2>2 DEF Reject, Refuse
        <3>3. Trail(d)'
            BY <2>1, <3>1, <3>2
        <3>4. handler'[d] = "refused"
            BY <1>0, <3>1 DEF refuse, TypeOK
        <3>5. Channel(d)'
            BY <1>0, <3>2, <3>4 DEF Channel
        <3> QED BY <3>3, <3>5
    <2>3. CASE Admit(d)
        <3>1. /\ handler[d] = "idle" /\ handler'[d] = "waiting" /\ task'[d] = "work"
              /\ UNCHANGED <<chan, phase, audit>>
            BY <1>0, <2>3 DEF Admit, TypeOK
        <3>2. task[d] = "none"
            BY <1>0, <3>1 DEF CallInv, Control
        <3> QED BY <1>0, <3>1, <3>2 DEF Channel, Trail
    <2>4. CASE AnswerResult(d) \/ GiveUp(d) \/ Disconnect(d)
        <3>1. /\ handler[d] = "waiting" /\ handler'[d] \in {"answered", "closing", "dropping"}
              /\ UNCHANGED <<chan, task, phase, audit>>
            BY <1>0, <2>4 DEF AnswerResult, GiveUp, Disconnect, TypeOK
        <3> QED BY <1>2, <3>1
    <2>5. CASE CloseChannel(d)
        <3>1. handler[d] = "closing" /\ UNCHANGED taskVars
            BY <2>5 DEF CloseChannel
        <3>2. CASE chan[d] = "full"
            <4>1. handler'[d] = "answered" /\ UNCHANGED <<chan, audit>>
                BY <1>0, <2>5, <3>2 DEF CloseChannel, TypeOK
            <4> QED BY <1>2, <3>1, <4>1
        <3>3. CASE chan[d] # "full"
            <4>1. /\ refuse(d, without_result(kind[d]), "abandoned")
                  /\ chan' = [chan EXCEPT ![d] = "closed"]
                BY <2>5, <3>3 DEF CloseChannel
            <4>2. handler'[d] = "abandoned" /\ chan'[d] = "closed"
                BY <1>0, <4>1 DEF refuse, TypeOK
            <4>3. without_result(kind[d]) \in Codes
                BY DEF without_result
            <4>4. Trail(d)'
                BY <2>1, <3>1, <4>1, <4>3
            <4>5. task[d] \in {"sent", "done"} => phase[d] # "answered"
                BY <1>0, <3>1, <3>3 DEF Channel
            <4>6. Channel(d)'
                BY <3>1, <4>2, <4>5 DEF Channel
            <4> QED BY <4>4, <4>6
        <3> QED BY <3>2, <3>3
    <2>6. CASE DropReceiver(d)
        <3>1. /\ handler[d] = "dropping" /\ handler'[d] = "gone" /\ chan'[d] = "closed"
              /\ UNCHANGED <<task, phase, audit>>
            BY <1>0, <2>6 DEF DropReceiver, TypeOK
        <3> QED BY <1>0, <3>1 DEF Channel, Trail
    <2> QED BY <1>5, <2>2, <2>3, <2>4, <2>5, <2>6 DEF HandlerSteps
<1>6. CASE Exit
    <2>1. /\ UNCHANGED <<chan, phase, audit>>
          /\ task'[d] = IF task[d] \in AwaitPoints THEN "cut" ELSE task[d]
          /\ handler'[d] = IF handler[d] = "waiting" THEN "dropping" ELSE handler[d]
        BY <1>6 DEF Exit
    <2> QED BY <1>0, <2>1 DEF Channel, Trail, AwaitPoints, Working
<1>7. CASE \/ (\E c \in Calls : Deadline(c) \/ Land(c))
           \/ WindowElapses \/ Signal \/ GraceEnds \/ Drained \/ UNCHANGED vars
    <2>1. UNCHANGED <<handler, chan, phase, audit, task>>
        BY <1>7 DEF Deadline, Land, WindowElapses, Signal, GraceEnds, Drained
    <2> QED BY <1>1, <2>1
<1> QED
    <2>1. \/ \E c \in Calls : TaskSteps(c) \/ HandlerSteps(c)
          \/ \E c \in Calls : Deadline(c) \/ Land(c)
          \/ WindowElapses \/ Signal \/ GraceEnds \/ Drained \/ Exit \/ UNCHANGED vars
        BY DEF Next
    <2> QED BY <1>3, <1>4, <1>5, <1>6, <1>7, <2>1

(* Every step keeps it that a process which exited within its grace left no *)
(* task behind.                                                              *)
LEMMA CleanStep == TypeOK /\ Clean /\ [Next]_vars => Clean'
<1> SUFFICES ASSUME TypeOK, Clean, [Next]_vars, proc' = "exited", ~grace', NEW d \in Calls
             PROVE  task'[d] \in {"none", "done"}
    BY DEF Clean
<1> USE DEF vars, callVars, taskVars, procVars, budgetVars
<1>1. CASE Exit
    <2>1. grace' = grace /\ Tracked = {} /\ task'[d] = IF task[d] \in AwaitPoints THEN "cut"
                                                       ELSE task[d]
        BY <1>1 DEF Exit
    <2>2. task[d] \in {"none", "done"}
        BY <2>1 DEF Tracked
    <2> QED BY <2>1, <2>2 DEF AwaitPoints, Working
<1>2. CASE ~Exit
    <2>1. proc = "exited" /\ ~grace
        <3>1. CASE Signal \/ GraceEnds \/ Drained \/ WindowElapses \/ UNCHANGED vars
            BY <3>1 DEF Signal, GraceEnds, Drained, WindowElapses
        <3>2. ASSUME NEW c \in Calls,
                     TaskSteps(c) \/ HandlerSteps(c) \/ Deadline(c) \/ Land(c)
              PROVE  proc = "exited" /\ ~grace
            <4>1. UNCHANGED <<proc, grace>>
                BY <3>2 DEF TaskSteps, AskMint, StartMint, MintReturns, Send, HeldBack,
                   FinishWork, ReadReturns, WriteOk, WriteRefused, WriteLost, Deliver, Emit,
                   HandlerSteps, Reject, Refuse, Admit, AnswerResult, GiveUp, CloseChannel,
                   Disconnect, DropReceiver, Deadline, Land
            <4> QED BY <4>1
        <3> QED BY <1>2, <3>1, <3>2 DEF Next
    <2>2. \A c \in Calls : task[c] \in {"none", "done"}
        BY <2>1 DEF Clean
    <2>3. CASE UNCHANGED task
        BY <2>2, <2>3
    <2>4. ASSUME NEW c \in Calls, TaskSteps(c) PROVE FALSE
        BY <2>2, <2>4 DEF TaskSteps, AskMint, StartMint, MintReturns, Send, HeldBack,
           FinishWork, ReadReturns, WriteOk, WriteRefused, WriteLost, Deliver, Emit, Working
    <2>5. ASSUME NEW c \in Calls, HandlerSteps(c) \/ Deadline(c) \/ Land(c) PROVE UNCHANGED task
        BY <2>1, <2>5 DEF HandlerSteps, Reject, Refuse, Admit, AnswerResult, GiveUp,
           CloseChannel, Disconnect, DropReceiver, Deadline, Land
    <2>6. CASE Signal \/ GraceEnds \/ Drained \/ WindowElapses \/ UNCHANGED vars
        BY <2>3, <2>6 DEF Signal, GraceEnds, Drained, WindowElapses
    <2> QED BY <1>2, <2>3, <2>4, <2>5, <2>6 DEF Next
<1> QED BY <1>1, <1>2

(* AuditInv holds of every reachable state. *)
LEMMA AuditInvariance == Spec => []AuditInv
<1>1. Init => AuditInv
    <2> SUFFICES ASSUME Init PROVE AuditInv
        OBVIOUS
    <2>1. Clean
        BY DEF Init, Clean
    <2>2. ASSUME NEW c \in Calls PROVE Gate(c) /\ Channel(c) /\ Trail(c)
        <3>1. /\ handler[c] = "idle" /\ chan[c] = "open" /\ task[c] = "none"
              /\ audit[c] = << >>
            BY DEF Init
        <3>2. DOMAIN audit[c] = {}
            BY <3>1
        <3> QED BY <3>1, <3>2 DEF Gate, Channel, Trail
    <2> QED BY <2>1, <2>2 DEF AuditInv
<1>2. Inv /\ AuditInv /\ [Next]_vars => AuditInv'
    <2> SUFFICES ASSUME Inv, AuditInv, [Next]_vars PROVE AuditInv'
        OBVIOUS
    <2>1. Clean' /\ \A c \in Calls : Gate(c)'
        BY CleanStep, GateStep DEF Inv, AuditInv
    <2>2. \A c \in Calls : Channel(c)' /\ Trail(c)'
        BY AuditStep DEF AuditInv
    <2> QED BY <2>1, <2>2 DEF AuditInv
<1> QED BY <1>1, <1>2, Invariance, PTL DEF Spec

(* Once the caller of a gated call is gone, or was answered without the     *)
(* result, no step starts an Alpaca request of the call: SendGate::hold and *)
(* CloseOnDrop, whatever the deadline, the disconnect and the shutdown race.*)
THEOREM NoSendOnceAbandonedHolds == Spec => NoSendOnceAbandoned
<1> DEFINE Held ==
        \A c \in Calls :
          (handler[c] \in {"closing", "abandoned", "dropping", "gone"}
           /\ ~kind[c].stream)
          => (wire'[c] = "none" \/ wire[c] # "none")
<1>1. Inv /\ AuditInv /\ [Next]_vars => [Held]_vars
    <2> SUFFICES ASSUME Inv, AuditInv, Next, NEW d \in Calls,
                        handler[d] \in {"closing", "abandoned", "dropping", "gone"},
                        ~kind[d].stream, wire[d] = "none"
                 PROVE  wire'[d] = "none"
        BY DEF vars, taskVars
    <2> USE DEF vars, taskVars
    <2>1. ~MayStart(d) /\ wire \in [Calls -> {"none", "read", "write", "landed"}]
        BY DEF Inv, TypeOK, AuditInv, Gate, MayStart, hold
    <2>2. ASSUME NEW c \in Calls, NEW what, Send(c, what) PROVE wire'[d] = "none"
        <3>1. c # d
            BY <2>1, <2>2 DEF Send
        <3> QED BY <2>1, <2>2, <3>1 DEF Send
    <2>3. ASSUME NEW c \in Calls, ReadReturns(c) \/ WriteOk(c) \/ WriteRefused(c) \/ WriteLost(c)
          PROVE  wire'[d] = "none"
        BY <2>1, <2>3 DEF ReadReturns, WriteOk, WriteRefused, WriteLost
    <2>4. ASSUME NEW c \in Calls, Land(c) PROVE wire'[d] = "none"
        BY <2>1, <2>4 DEF Land
    <2>5. CASE Exit
        BY <2>5 DEF Exit
    <2>6. ASSUME NEW c \in Calls,
                 \/ AskMint(c) \/ StartMint(c) \/ MintReturns(c) \/ HeldBack(c)
                 \/ FinishWork(c) \/ Deliver(c) \/ Emit(c) \/ HandlerSteps(c) \/ Deadline(c)
          PROVE  wire'[d] = "none"
        BY <2>6 DEF AskMint, StartMint, MintReturns, HeldBack, FinishWork, Deliver, Emit,
           HandlerSteps, Reject, Refuse, Admit, AnswerResult, GiveUp, CloseChannel,
           Disconnect, DropReceiver, Deadline
    <2>7. CASE WindowElapses \/ Signal \/ GraceEnds \/ Drained
        BY <2>7 DEF WindowElapses, Signal, GraceEnds, Drained
    <2> QED BY <2>2, <2>3, <2>4, <2>5, <2>6, <2>7 DEF Next, TaskSteps
<1>2. Spec => [][Held]_vars
    BY <1>1, Invariance, AuditInvariance, PTL DEF Spec
<1> QED BY <1>2 DEF NoSendOnceAbandoned

(* The audit trail tells the answer: one answered record at most, with the  *)
(* code the caller got, one with traffic at most, a settled one only once   *)
(* the handler stopped waiting, and after an exit within the grace a record *)
(* with traffic of every admitted call: AuditSink::emit, TaskTracker, run. *)
THEOREM AuditTellsTheAnswerHolds == Spec => []AuditTellsTheAnswer
<1>1. Inv /\ AuditInv => AuditTellsTheAnswer
    <2> SUFFICES ASSUME Inv, AuditInv PROVE AuditTellsTheAnswer
        OBVIOUS
    <2>1. CleanExitRecordsAll
        <3> SUFFICES ASSUME proc = "exited", ~grace, NEW c \in Calls, task[c] # "none"
                     PROVE  \E r \in Records(c) : r.traffic
            BY DEF CleanExitRecordsAll
        <3>1. task[c] = "done" /\ Trail(c)
            BY DEF AuditInv, Clean
        <3> QED BY <3>1 DEF Trail, Records
    <2>2. ASSUME NEW S, \A i, j \in S : i = j PROVE Cardinality(S) <= 1
        <3>1. CASE S = {}
            BY <3>1, FS_EmptySet
        <3>2. CASE S # {}
            <4>1. PICK x : S = {x}
                BY <2>2, <3>2
            <4>2. Cardinality(S) = 1
                BY <4>1, FS_Singleton
            <4> QED BY <4>2
        <3> QED BY <3>1, <3>2
    <2>3. ASSUME NEW c \in Calls
          PROVE  /\ Cardinality({i \in DOMAIN audit[c] : audit[c][i].phase = "answered"}) <= 1
                 /\ Cardinality({i \in DOMAIN audit[c] : audit[c][i].traffic}) <= 1
                 /\ \A r \in Records(c) :
                      /\ r.phase = "answered" => answer[c] \in {NoCode, r.code}
                      /\ r.phase = "settled" => r.traffic /\ handler[c] \in {"abandoned", "gone"}
                 /\ handler[c] \in {"refused", "abandoned"}
                      => \E r \in Records(c) : r.phase = "answered" /\ ~r.traffic
        <3>1. CallInv(c) /\ Channel(c) /\ Trail(c)
            BY DEF Inv, AuditInv
        <3>2. \A i \in DOMAIN audit[c] : audit[c][i].traffic \in BOOLEAN
            <4>1. audit[c] \in Seq(Record)
                BY DEF Inv, TypeOK
            <4>2. \A i \in DOMAIN audit[c] : audit[c][i] \in Record
                BY <4>1
            <4> QED BY <4>2 DEF Record
        <3>3. \A i \in DOMAIN audit[c] :
                audit[c][i].traffic =>
                  /\ task[c] = "done" /\ audit[c][i].code = result[c]
                  /\ audit[c][i].phase = phase[c]
            BY <3>1 DEF CallInv, RecordSource, Trail
        <3>4. \A i \in DOMAIN audit[c] :
                ~audit[c][i].traffic =>
                  /\ handler[c] \in {"refused", "abandoned"} /\ audit[c][i].code = answer[c]
                  /\ audit[c][i].phase = "answered"
            BY <3>1 DEF CallInv, RecordSource, Trail
        \* A call with the handler's record has no answered one of the task.
        <3>5. ~(task[c] = "done" /\ phase[c] = "answered"
                /\ handler[c] \in {"refused", "abandoned"})
            BY <3>1 DEF CallInv, Control, Channel
        <3>6. \A i, j \in DOMAIN audit[c] : audit[c][i].traffic = audit[c][j].traffic => i = j
            BY <3>1 DEF Trail
        <3>7. \A i, j \in {k \in DOMAIN audit[c] : audit[c][k].phase = "answered"} : i = j
            BY <3>2, <3>3, <3>4, <3>5, <3>6
        <3>8. \A i, j \in {k \in DOMAIN audit[c] : audit[c][k].traffic} : i = j
            BY <3>2, <3>6
        <3>9. ASSUME NEW i \in DOMAIN audit[c], audit[c][i].phase = "answered"
              PROVE  answer[c] \in {NoCode, audit[c][i].code}
            <4>1. CASE audit[c][i].traffic
                <5>1. /\ task[c] = "done" /\ phase[c] = "answered"
                      /\ audit[c][i].code = result[c]
                    BY <3>3, <3>9, <4>1
                <5>2. answer[c] = NoCode \/ handler[c] = "answered"
                    BY <3>1, <3>5, <5>1 DEF CallInv, AnswerSource
                <5> QED BY <3>1, <5>1, <5>2 DEF CallInv, AnswerSource
            <4>2. CASE ~audit[c][i].traffic
                BY <3>4, <4>2
            <4> QED BY <4>1, <4>2
        <3>10. ASSUME NEW i \in DOMAIN audit[c], audit[c][i].phase = "settled"
               PROVE  audit[c][i].traffic /\ handler[c] \in {"abandoned", "gone"}
            <4>1. audit[c][i].traffic
                BY <3>4, <3>10
            <4>2. task[c] = "done" /\ phase[c] = "settled"
                BY <3>3, <3>10, <4>1
            <4> QED BY <3>1, <4>1, <4>2 DEF Channel
        <3>11. handler[c] \in {"refused", "abandoned"}
                 => \E r \in Records(c) : r.phase = "answered" /\ ~r.traffic
            BY <3>1, <3>4 DEF Trail, Records
        <3>12. /\ Cardinality({i \in DOMAIN audit[c] : audit[c][i].phase = "answered"}) <= 1
               /\ Cardinality({i \in DOMAIN audit[c] : audit[c][i].traffic}) <= 1
            BY <2>2, <3>7, <3>8
        <3>13. \A r \in Records(c) :
                 /\ r.phase = "answered" => answer[c] \in {NoCode, r.code}
                 /\ r.phase = "settled" => r.traffic /\ handler[c] \in {"abandoned", "gone"}
            BY <3>9, <3>10 DEF Records
        <3> QED BY <3>11, <3>12, <3>13
    <2>4. RecordsAgree
        BY <2>3 DEF RecordsAgree
    <2> QED BY <2>1, <2>4 DEF AuditTellsTheAnswer
<1> QED BY <1>1, Invariance, AuditInvariance, PTL
=============================================================================
