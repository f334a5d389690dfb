---------------------------- MODULE SessionProofs ---------------------------
(***************************************************************************)
(* What holds of Session for every set of in-dialog requests of whatever   *)
(* kinds, and every size of the queues.                                    *)
(***************************************************************************)
EXTENDS Session, TLAPS

\* The program counters of session.run: before the callee is acknowledged, up
\* to the transition to answered, in the command loop, and in the defers.
BeforeAck == {"routing", "trying", "resolve", "lease", "offer", "waiting",
              "early", "body", "ack"}
Inviting == BeforeAck \cup {"map", "answer"}
Handling == {"reinvite", "do", "hold", "relay"}
Established == Handling \cup {"loop", "ok", "terminate", "hangup", "bye", "finish"}
Unwound == {"media", "remove", "removed", "done"}
Ending == Unwound \cup {"join"}

CallRecords ==
  [kind : Kinds \cup {""}, at : {"idle", "found", "enqueue", "waiting", "over"},
   answers : Nat, closed : BOOLEAN, tx : {"open", "sent", "acked", "gone"}]

\* Every variable that the invariants below speak of has its type, and a
\* command that is being handled is one.
SessionTypeOK ==
  /\ pc \in Inviting \cup Established \cup Ending \cup {"fail"}
  /\ state \in States /\ late \in Seq(States)
  /\ busy \in BOOLEAN
  /\ origin \in {"caller", "callee"}
  /\ commands \in Seq(Requests)
  /\ pending \in Requests \cup {NoRequest}
  /\ req \in [Requests -> CallRecords]
  /\ pc \in Handling => cur \in Requests

InDialog == caller \in {"confirmed", "bye"}

AnsweredStates == {"answered", "held", "terminating", "terminated"}

LateAnswered == \A i \in 1..Len(late) : late[i] \in AnsweredStates

\* Once a dialog with the caller may exist, the call was answered, and no
\* command that the actor may still apply takes it out of these states.
AnswerInv ==
  /\ pc \in Inviting => late = <<>>
  /\ pc \in Inviting \cup {"fail", "ok", "terminate"} => ~InDialog
  /\ InDialog \/ pc \in Established =>
       state \in AnsweredStates /\ LateAnswered

\* What is known of the legs: a callee that hung up has no dialog any more, and
\* who has to be sent a BYE got it when the defers run.
LegInv ==
  /\ pc \in BeforeAck => callee \notin {"acked", "bye"}
  /\ pc = "fail" => callee # "acked"
  /\ \A r \in Requests : req[r].kind = "calleeBye" => callee = "bye"
  /\ pc \notin Ending \cup {"hangup", "bye", "finish"} => origin = "caller"
  /\ origin = "callee" => callee = "bye"
  /\ pc = "terminate" => callee = "bye"
  /\ pc \in Ending \cup {"finish"} /\ ~refused =>
       callee # "acked" /\ (origin = "callee" => caller # "confirmed")

\* What the defers have undone.
UnwindInv ==
  /\ pc \in Unwound => ~actorUp /\ pending = NoRequest
  /\ pc \in {"remove", "removed", "done"} => media \in {"none", "closed"}
  /\ pc \in {"removed", "done"} => ~mapped

\* The handlers that hold reInviteBusy, and the 2xx that waits for its ACK.
Active(r) ==
  req[r].kind \in ReInviteKinds /\ req[r].at \in {"enqueue", "waiting"}

PendingInv ==
  /\ pc \notin Unwound => \A r \in Requests : req[r].tx = "sent" => pending = r
  /\ pc \in {"do", "hold"} => \A r \in Requests : req[r].tx # "sent"

BusyInv ==
  /\ busy <=> \E r \in Requests : Active(r)
  /\ \A r, s \in Requests : Active(r) /\ Active(s) => r = s

\* A command of the session was handed over by its handler, which thus has not
\* been answered only while it waits.
HandedOver(r) == req[r].at \in {"waiting", "over"}

RequestOK(c) ==
  /\ c.at \in {"idle", "found"} => ~c.closed
  /\ c.closed \/ c.at = "over" \/ (c.at = "enqueue" /\ c.kind \in ByeKinds) =>
       c.answers > 0

AnswersInv ==
  /\ \A i \in 1..Len(commands) : HandedOver(commands[i])
  /\ pc \in Handling => HandedOver(cur)
  /\ \A r \in Requests : RequestOK(req[r])

SInv ==
  /\ SessionTypeOK /\ AnswerInv /\ LegInv /\ UnwindInv
  /\ PendingInv /\ BusyInv /\ AnswersInv

-----------------------------------------------------------------------------
\* The steps of the handlers, the callers and the callees.
ByHandler(r) ==
  \/ \E kind \in Arrivals : RequestArrives(r, kind)
  \/ Handler(r) \/ TransactionEnds(r)

\* They leave session.run, the actor and the media alone.
LEMMA HandlerFrame ==
  ASSUME NEW r \in Requests, ByHandler(r)
  PROVE  /\ UNCHANGED <<pc, state, actorUp, late, media, mapped, cur, origin, refused>>
         /\ pending' = pending \/ pending' = NoRequest
<1>1. CASE \E kind \in Arrivals : RequestArrives(r, kind)
  BY <1>1, Zenon DEF RequestArrives, actorVars
<1>2. CASE AdmitRequest(r) \/ Enqueue(r)
  BY <1>2, Zenon DEF AdmitRequest, Enqueue, actorVars, legVars
<1>3. CASE HandlerReturns(r) \/ CompletePending(r) \/ TransactionEnds(r)
  BY <1>3, Zenon DEF HandlerReturns, CompletePending, TransactionEnds, actorVars, legVars
<1> QED
  BY <1>1, <1>2, <1>3, Zenon DEF ByHandler, Handler

\* A leg changes when it hangs up, which needs a dialog.
LEMMA HandlerLegs ==
  ASSUME NEW r \in Requests, ByHandler(r)
  PROVE  /\ caller' = caller \/ (caller = "confirmed" /\ caller' = "bye")
         /\ callee' = callee \/ (callee = "acked" /\ callee' = "bye")
<1>1. CASE \E kind \in Arrivals : RequestArrives(r, kind)
  BY <1>1 DEF RequestArrives, FromCaller
<1>2. CASE AdmitRequest(r) \/ Enqueue(r)
  BY <1>2, Zenon DEF AdmitRequest, Enqueue, legVars
<1>3. CASE HandlerReturns(r) \/ CompletePending(r) \/ TransactionEnds(r)
  BY <1>3, Zenon DEF HandlerReturns, CompletePending, TransactionEnds, legVars
<1> QED
  BY <1>1, <1>2, <1>3, Zenon DEF ByHandler, Handler

\* What the defers have undone is not done again: UnwindInv is inductive alone.
LEMMA UnwindStep == UnwindInv /\ [Next]_vars => UnwindInv'
<1> SUFFICES ASSUME UnwindInv, [Next]_vars PROVE UnwindInv'
  OBVIOUS
<1> USE DEF UnwindInv, Unwound
<1>1. CASE Setup
  BY <1>1, Zenon DEF Setup, StartRouting, RespondTrying, ResolveCallee, LeaseMedia, SendInvite,
     Ringing, EarlyAnswer, EarlyMedia, CalleeRefuses, InviteEnds, CalleeAnswers,
     UseAnswer, AckCallee, MapOutbound, Answer, RespondOK
<1>2. CASE Loop
  BY <1>2, Zenon DEF Loop, TakeCommand, ShutdownHangup, MediaHangup, BeginHangup, SendBye,
     EndCall, BeginReInvite, RelayReInvite, HoldOrResume, Relay, Hangup, Finish
<1>3. CASE Unwind
  <2>1. CASE JoinActor
    BY <1>3, <2>1, Zenon DEF JoinActor, actorVars
  <2>2. CASE StopMedia
    BY <2>2, Zenon DEF StopMedia, actorVars, commandVars
  <2>3. CASE Remove
    BY <2>3, Zenon DEF Remove, actorVars, commandVars
  <2>4. CASE CloseDone
    BY <2>4, Zenon DEF CloseDone, actorVars, legVars, commandVars
  <2> QED
    BY <1>3, <2>1, <2>2, <2>3, <2>4, Zenon DEF Unwind
<1>4. CASE LateApplied \/ ActorExits
  BY <1>4, Zenon DEF LateApplied, ActorExits, legVars, commandVars
<1>5. CASE MediaRunReturns
  BY <1>5, Zenon DEF MediaRunReturns, actorVars, legVars, commandVars
<1>6. CASE CallerCancels \/ ProcessStops
  BY <1>6 DEF CallerCancels, ProcessStops, actorVars, legVars, commandVars
<1>7. ASSUME NEW r \in Requests, ByHandler(r)
      PROVE  UnwindInv'
  BY <1>7, HandlerFrame, Zenon
<1>8. CASE UNCHANGED vars
  BY <1>8, Zenon DEF vars, actorVars, legVars, commandVars
<1> QED
  BY <1>1, <1>2, <1>3, <1>4, <1>5, <1>6, <1>7, <1>8, Zenon DEF Next, Run, ByHandler

-----------------------------------------------------------------------------
\* A transition that is made, or refused and perhaps left in the mailbox, when
\* it asks for a state that an answered call may be in.
LEMMA TransitionAnswered ==
  ASSUME late \in Seq(States), NEW to \in AnsweredStates,
         state \in AnsweredStates, LateAnswered, Tries(to)
  PROVE  state' \in AnsweredStates /\ LateAnswered'
<1>1. CASE Moves(to)
  BY <1>1, Zenon DEF Moves, LateAnswered
<1>2. CASE Refuses(to)
  <2>1. state' = state /\ (late' = late \/ late' = Append(late, to))
    BY <1>2 DEF Refuses
  <2> QED
    BY <2>1 DEF LateAnswered
<1> QED
  BY <1>1, <1>2, Zenon DEF Tries

\* Steps of the setup before the transition to answered: no dialog with the
\* caller yet, and a refused transition ends the setup.
LEMMA AnswerSetup ==
  ASSUME AnswerInv, Setup, pc \in BeforeAck \cup {"map"}
  PROVE  AnswerInv'
<1> USE DEF Inviting, BeforeAck, Established, Handling
<1>0. late = <<>> /\ ~InDialog
  BY Zenon DEF AnswerInv
<1>1. caller' = caller \/ caller' = "rejected"
  BY Zenon DEF Setup, StartRouting, RespondTrying, ResolveCallee, LeaseMedia, SendInvite,
     Ringing, EarlyAnswer, EarlyMedia, CalleeRefuses, InviteEnds, CalleeAnswers,
     UseAnswer, AckCallee, MapOutbound, Answer, RespondOK, Reject, legVars
<1>2. pc' \in Inviting \cup {"fail", "join"}
  BY Zenon DEF Setup, StartRouting, RespondTrying, ResolveCallee, LeaseMedia, SendInvite,
     Ringing, EarlyAnswer, EarlyMedia, CalleeRefuses, InviteEnds, CalleeAnswers,
     UseAnswer, AckCallee, MapOutbound, Answer, RespondOK
<1>3. pc' \in Inviting => late' = late
  BY Zenon DEF Setup, StartRouting, RespondTrying, ResolveCallee, LeaseMedia, SendInvite,
     Ringing, EarlyAnswer, EarlyMedia, CalleeRefuses, InviteEnds, CalleeAnswers,
     UseAnswer, AckCallee, MapOutbound, Answer, RespondOK, Moves, actorVars
<1> QED
  BY <1>0, <1>1, <1>2, <1>3, Zenon DEF AnswerInv, InDialog

\* Steps of the command loop ask for such states only, except fail.
LEMMA AnswerLoop ==
  ASSUME SessionTypeOK, AnswerInv, Loop
  PROVE  AnswerInv'
<1> USE DEF Inviting, BeforeAck, Established, Handling, AnsweredStates
<1>0. UNCHANGED caller \/ (pc = "bye" /\ caller' = "bye")
  BY Zenon DEF Loop, TakeCommand, ShutdownHangup, MediaHangup, BeginHangup, SendBye,
     EndCall, BeginReInvite, RelayReInvite, HoldOrResume, Relay, legVars
<1>1. CASE pc = "fail"
  <2>1. pc' = "join" /\ UNCHANGED caller
    BY <1>1, Zenon DEF Loop, TakeCommand, ShutdownHangup, MediaHangup, BeginHangup,
       SendBye, EndCall, BeginReInvite, RelayReInvite, HoldOrResume, Relay, legVars
  <2> QED
    BY <1>1, <2>1, Zenon DEF AnswerInv, InDialog
<1>2. CASE pc # "fail"
  <2>1. pc \in Established
    BY <1>2, Zenon DEF Loop, TakeCommand, ShutdownHangup, MediaHangup, BeginHangup,
       SendBye, EndCall, BeginReInvite, RelayReInvite, HoldOrResume, Relay
  <2>2. pc' \notin Inviting \cup {"fail", "ok", "terminate"}
    BY Zenon DEF Loop, TakeCommand, ShutdownHangup, MediaHangup, BeginHangup, SendBye,
       EndCall, BeginReInvite, RelayReInvite, HoldOrResume, Relay, Hangup, Finish
  <2>3. UNCHANGED <<state, late>> \/ \E to \in AnsweredStates : Tries(to)
    BY <1>2, Zenon DEF Loop, TakeCommand, ShutdownHangup, MediaHangup, BeginHangup,
       SendBye, EndCall, BeginReInvite, RelayReInvite, HoldOrResume, Relay, Tries,
       actorVars
  <2>4. state' \in AnsweredStates /\ LateAnswered'
    <3>1. late \in Seq(States) /\ state \in AnsweredStates /\ LateAnswered
      BY <2>1, Zenon DEF AnswerInv, SessionTypeOK
    <3> QED
      BY <2>3, <3>1, TransitionAnswered, Zenon DEF LateAnswered
  <2> QED
    BY <2>2, <2>4, Zenon DEF AnswerInv
<1> QED
  BY <1>1, <1>2

\* A dialog with the caller begins with its 200, in any step of the program.
LEMMA AnswerStep ==
  SessionTypeOK /\ AnswerInv /\ [Next]_vars => AnswerInv'
<1> SUFFICES ASSUME SessionTypeOK, AnswerInv, [Next]_vars PROVE AnswerInv'
  OBVIOUS
<1>a. late \in Seq(States)
  BY Zenon DEF SessionTypeOK
<1>b. late' = <<>> => LateAnswered'
  BY DEF LateAnswered
<1>1. CASE Answer
  <2>1. late = <<>> /\ ~InDialog /\ UNCHANGED caller
    BY <1>1, Zenon DEF Answer, AnswerInv, Inviting
  <2>2. CASE Moves("answered") /\ pc' = "ok"
    BY <1>b, <2>1, <2>2, Zenon DEF Moves, AnswerInv, InDialog, Inviting, BeforeAck,
       AnsweredStates
  <2>3. CASE pc' = "join"
    BY <2>1, <2>3, Zenon DEF AnswerInv, InDialog, Inviting, BeforeAck, Established,
       Handling
  <2> QED
    BY <1>1, <2>2, <2>3, Zenon DEF Answer
<1>2. CASE RespondOK
  BY <1>2, Zenon DEF RespondOK, AnswerInv, InDialog, Inviting, BeforeAck, Established,
     Handling, LateAnswered, actorVars
<1>3. CASE Setup /\ pc \in BeforeAck \cup {"map"}
  BY <1>3, AnswerSetup, Zenon
<1>4. CASE Loop
  BY <1>4, AnswerLoop, Zenon
<1>5. CASE Unwind
  <2>1. UNCHANGED <<state, late, caller>> /\ pc' \in Unwound
    BY <1>5, Zenon DEF Unwind, JoinActor, StopMedia, Remove, CloseDone, actorVars,
       legVars, Unwound
  <2> QED
    BY <2>1, Zenon DEF AnswerInv, InDialog, LateAnswered, Unwound, Inviting, BeforeAck,
       Established, Handling
<1>6. CASE LateApplied
  <2>1. late # <<>> /\ UNCHANGED <<pc, caller>>
    BY <1>6, Zenon DEF LateApplied, legVars
  <2>2. LateAnswered /\ state \in AnsweredStates =>
          LateAnswered' /\ state' \in AnsweredStates
    <3>1. state' = state \/ state' = Head(late)
      BY <1>6, Zenon DEF LateApplied
    <3>2. late' = Tail(late) \/ late' = <<>>
      BY <1>6, Zenon DEF LateApplied
    <3> QED
      BY <1>a, <2>1, <3>1, <3>2 DEF LateAnswered
  <2> QED
    BY <2>1, <2>2, Zenon DEF AnswerInv, InDialog
<1>7. CASE ActorExits
  BY <1>7, <1>b, Zenon DEF ActorExits, AnswerInv, InDialog, legVars, AnsweredStates
<1>8. CASE MediaRunReturns \/ ProcessStops \/ UNCHANGED vars
  BY <1>8, Zenon DEF MediaRunReturns, ProcessStops, vars, AnswerInv, InDialog,
     LateAnswered, actorVars, legVars
<1>9. CASE CallerCancels
  BY <1>9, Zenon DEF CallerCancels, AnswerInv, InDialog, LateAnswered, actorVars
<1>10. ASSUME NEW r \in Requests, ByHandler(r)
       PROVE  AnswerInv'
  <2>1. UNCHANGED <<pc, state, late>>
    BY <1>10, HandlerFrame, Zenon
  <2>2. InDialog' => InDialog
    BY <1>10, HandlerLegs, Zenon DEF InDialog
  <2> QED
    BY <2>1, <2>2, Zenon DEF AnswerInv, LateAnswered
<1>11. Setup => Answer \/ RespondOK \/ pc \in BeforeAck \cup {"map"}
  BY Zenon DEF Setup, StartRouting, RespondTrying, ResolveCallee, LeaseMedia, SendInvite,
     Ringing, EarlyAnswer, EarlyMedia, CalleeRefuses, InviteEnds, CalleeAnswers,
     UseAnswer, AckCallee, MapOutbound, BeforeAck
<1> QED
  BY <1>1, <1>2, <1>3, <1>4, <1>5, <1>6, <1>7, <1>8, <1>9, <1>10, <1>11, Zenon
     DEF Next, Run, ByHandler

-----------------------------------------------------------------------------
(* The records of the requests.                                            *)

Record(k, a, n, c, t) ==
  [kind |-> k, at |-> a, answers |-> n, closed |-> c, tx |-> t]

IsRecord(v) == v = Record(v.kind, v.at, v.answers, v.closed, v.tx)

\* What the steps assign, one field after the other.
Arrived(v, k, a, n) == [[[v EXCEPT !.kind = k] EXCEPT !.at = a] EXCEPT !.answers = n]
Replied(v, n, a) == [[v EXCEPT !.answers = n] EXCEPT !.at = a]
Told(v, n, c) == [[v EXCEPT !.answers = n] EXCEPT !.closed = c]
Accepted(v, n, c, t) ==
  [[[v EXCEPT !.answers = n] EXCEPT !.closed = c] EXCEPT !.tx = t]
Moved(v, a) == [v EXCEPT !.at = a]
Completed(v, t) == [v EXCEPT !.tx = t]

\* The fields after those assignments.
LEMMA ArrivedFields ==
  ASSUME NEW v, IsRecord(v), NEW k, NEW a, NEW n
  PROVE  Arrived(v, k, a, n) = Record(k, a, n, v.closed, v.tx)
<1> DEFINE k0 == v.kind
           a0 == v.at
           n0 == v.answers
           c0 == v.closed
           t0 == v.tx
<1>0. v = Record(k0, a0, n0, c0, t0)
  BY Zenon DEF IsRecord
<1> HIDE DEF k0, a0, n0, c0, t0
<1>1. [v EXCEPT !.kind = k] = Record(k, a0, n0, c0, t0)
  BY <1>0 DEF Record
<1>2. [Record(k, a0, n0, c0, t0) EXCEPT !.at = a] = Record(k, a, n0, c0, t0)
  BY DEF Record
<1>3. [Record(k, a, n0, c0, t0) EXCEPT !.answers = n] = Record(k, a, n, c0, t0)
  BY DEF Record
<1> QED
  BY <1>1, <1>2, <1>3, Zenon DEF Arrived, c0, t0

\* The fields after a response: the handler moves on, or the command is told.
LEMMA AnswerFields ==
  ASSUME NEW v, IsRecord(v), NEW n, NEW x
  PROVE  /\ Replied(v, n, x) = Record(v.kind, x, n, v.closed, v.tx)
         /\ Told(v, n, x) = Record(v.kind, v.at, n, x, v.tx)
<1> DEFINE k0 == v.kind
           a0 == v.at
           n0 == v.answers
           c0 == v.closed
           t0 == v.tx
<1>0. v = Record(k0, a0, n0, c0, t0)
  BY Zenon DEF IsRecord
<1> HIDE DEF k0, a0, n0, c0, t0
<1>1. [v EXCEPT !.answers = n] = Record(k0, a0, n, c0, t0)
  BY <1>0 DEF Record
<1>2. /\ [Record(k0, a0, n, c0, t0) EXCEPT !.at = x] = Record(k0, x, n, c0, t0)
      /\ [Record(k0, a0, n, c0, t0) EXCEPT !.closed = x] = Record(k0, a0, n, x, t0)
  BY DEF Record
<1> QED
  BY <1>1, <1>2, Zenon DEF Replied, Told, k0, a0, c0, t0

\* The fields after the 200 of a re-INVITE.
LEMMA AcceptedFields ==
  ASSUME NEW v, IsRecord(v), NEW n, NEW c, NEW t
  PROVE  Accepted(v, n, c, t) = Record(v.kind, v.at, n, c, t)
<1> DEFINE k0 == v.kind
           a0 == v.at
           t0 == v.tx
<1>1. [[v EXCEPT !.answers = n] EXCEPT !.closed = c] = Record(k0, a0, n, c, t0)
  BY AnswerFields, Zenon DEF Told
<1> HIDE DEF k0, a0, t0
<1>2. [Record(k0, a0, n, c, t0) EXCEPT !.tx = t] = Record(k0, a0, n, c, t)
  BY DEF Record
<1> QED
  BY <1>1, <1>2, Zenon DEF Accepted, k0, a0

\* The fields after a handler has moved, or a server transaction has changed.
LEMMA OneField ==
  ASSUME NEW v, IsRecord(v), NEW x
  PROVE  /\ Moved(v, x) = Record(v.kind, x, v.answers, v.closed, v.tx)
         /\ Completed(v, x) = Record(v.kind, v.at, v.answers, v.closed, x)
<1> DEFINE k0 == v.kind
           a0 == v.at
           n0 == v.answers
           c0 == v.closed
           t0 == v.tx
<1>0. v = Record(k0, a0, n0, c0, t0)
  BY Zenon DEF IsRecord
<1> HIDE DEF k0, a0, n0, c0, t0
<1>1. /\ [v EXCEPT !.at = x] = Record(k0, x, n0, c0, t0)
      /\ [v EXCEPT !.tx = x] = Record(k0, a0, n0, c0, x)
  BY <1>0 DEF Record
<1> QED
  BY <1>1, Zenon DEF Moved, Completed, k0, a0, n0, c0, t0

\* A request whose record is replaced: its fields, and the other requests.
Becomes(r, k, a, n, c, t) ==
  /\ req' \in [Requests -> CallRecords]
  /\ \A q \in Requests : q # r => req'[q] = req[q]
  /\ req'[r].kind = k /\ req'[r].at = a /\ req'[r].answers = n
  /\ req'[r].closed = c /\ req'[r].tx = t

Places == {"idle", "found", "enqueue", "waiting", "over"}
Transactions == {"open", "sent", "acked", "gone"}

\* An assignment of a record.
LEMMA RecordReplaced ==
  ASSUME req \in [Requests -> CallRecords], NEW r \in Requests, NEW v,
         req' = [req EXCEPT ![r] = v],
         NEW k \in Kinds \cup {""}, NEW a \in Places, NEW n \in Nat, NEW c \in BOOLEAN,
         NEW t \in Transactions, v = Record(k, a, n, c, t)
  PROVE  Becomes(r, k, a, n, c, t)
<1>0. Record(k, a, n, c, t) \in CallRecords
  BY DEF Record, CallRecords, Places, Transactions
<1>1. req' \in [Requests -> CallRecords] /\ req'[r] = Record(k, a, n, c, t)
  BY <1>0, Zenon
<1>2. \A q \in Requests : q # r => req'[q] = req[q]
  BY Zenon
<1>3. /\ Record(k, a, n, c, t).kind = k /\ Record(k, a, n, c, t).at = a
      /\ Record(k, a, n, c, t).answers = n /\ Record(k, a, n, c, t).closed = c
      /\ Record(k, a, n, c, t).tx = t
  BY DEF Record
<1> QED
  BY <1>1, <1>2, <1>3, Zenon DEF Becomes

\* The record of a request before an assignment.
LEMMA RecordTyped ==
  ASSUME req \in [Requests -> CallRecords], NEW r \in Requests
  PROVE  /\ IsRecord(req[r])
         /\ req[r].kind \in Kinds \cup {""} /\ req[r].at \in Places
         /\ req[r].answers \in Nat /\ req[r].answers + 1 \in Nat
         /\ req[r].answers + 1 > 0
         /\ req[r].closed \in BOOLEAN /\ req[r].tx \in Transactions
<1>1. req[r] \in CallRecords
  BY Zenon
<1>2. ASSUME NEW v \in CallRecords PROVE IsRecord(v)
  BY DEF CallRecords, Record, IsRecord
<1>3. ASSUME NEW v \in CallRecords
      PROVE  v.kind \in Kinds \cup {""} /\ v.at \in Places /\ v.tx \in Transactions
  BY DEF CallRecords, Places, Transactions
<1>4. ASSUME NEW v \in CallRecords PROVE v.closed \in BOOLEAN
  BY Zenon DEF CallRecords
<1>5. ASSUME NEW v \in CallRecords
      PROVE  v.answers \in Nat /\ v.answers + 1 \in Nat /\ v.answers + 1 > 0
  <2>1. v.answers \in Nat
    BY Zenon DEF CallRecords
  <2> QED
    BY <2>1
<1> QED
  BY <1>1, <1>2, <1>3, <1>4, <1>5, Zenon

\* handleCommand answers and closes command.result.
LEMMA FinishReq ==
  ASSUME req \in [Requests -> CallRecords], cur \in Requests, Finish
  PROVE  Becomes(cur, req[cur].kind, req[cur].at, req[cur].answers + 1, TRUE,
                 req[cur].tx)
<1>a. /\ IsRecord(req[cur])
      /\ req[cur].kind \in Kinds \cup {""} /\ req[cur].at \in Places
      /\ req[cur].answers \in Nat /\ req[cur].answers + 1 \in Nat
      /\ req[cur].closed \in BOOLEAN /\ req[cur].tx \in Transactions
  BY RecordTyped, Zenon
<1>1. req' = [req EXCEPT ![cur] = Told(req[cur], req[cur].answers + 1, TRUE)]
  BY Zenon DEF Finish, Told
<1>2. Told(req[cur], req[cur].answers + 1, TRUE) =
        Record(req[cur].kind, req[cur].at, req[cur].answers + 1, TRUE, req[cur].tx)
  BY <1>a, AnswerFields, Zenon
<1> QED
  BY <1>1, <1>2, <1>a, RecordReplaced, Zenon

\* A re-INVITE is accepted: its 2xx waits for the ACK.
SendsOK ==
  req' = [req EXCEPT ![cur].answers = @ + 1, ![cur].closed = TRUE, ![cur].tx = "sent"]

\* The 200 of a re-INVITE changes the record of its request only.
LEMMA AcceptedReq ==
  ASSUME req \in [Requests -> CallRecords], cur \in Requests, SendsOK
  PROVE  Becomes(cur, req[cur].kind, req[cur].at, req[cur].answers + 1, TRUE, "sent")
<1>0. IsRecord(req[cur])
  BY RecordTyped, Zenon
<1>a. /\ req[cur].kind \in Kinds \cup {""} /\ req[cur].at \in Places
      /\ req[cur].answers + 1 \in Nat
  BY RecordTyped, Zenon
<1>1. req' = [req EXCEPT ![cur] = Accepted(req[cur], req[cur].answers + 1, TRUE, "sent")]
  BY Zenon DEF Accepted, SendsOK
<1>2. Accepted(req[cur], req[cur].answers + 1, TRUE, "sent") =
        Record(req[cur].kind, req[cur].at, req[cur].answers + 1, TRUE, "sent")
  BY <1>0, AcceptedFields, Zenon
<1>3. "sent" \in Transactions
  BY DEF Transactions
<1> QED
  BY <1>1, <1>2, <1>3, <1>a, RecordReplaced, Zenon

\* A request arrives.
LEMMA ArrivedReq ==
  ASSUME req \in [Requests -> CallRecords], NEW r \in Requests, NEW kind \in Arrivals,
         RequestArrives(r, kind)
  PROVE  \E a \in {"found", "over"}, n \in Nat :
           /\ a = "over" => n > 0
           /\ Becomes(r, kind, a, n, req[r].closed, req[r].tx)
<1>0. IsRecord(req[r])
  BY RecordTyped, Zenon
<1>a. req[r].closed \in BOOLEAN /\ req[r].tx \in Transactions
  BY RecordTyped, Zenon
<1> DEFINE a == IF Found(kind) THEN "found" ELSE "over"
           n == IF Found(kind) THEN 0 ELSE 1
<1>1. req' = [req EXCEPT ![r].kind = kind, ![r].at = a, ![r].answers = n]
  BY Zenon DEF RequestArrives
<1>2. a \in {"found", "over"} /\ n \in Nat /\ (a = "over" => n > 0)
  OBVIOUS
<1>3. kind \in Kinds \cup {""} /\ a \in Places
  BY <1>2, SessionAssumption, Zenon DEF Places
<1> HIDE DEF a, n
<1>4. req' = [req EXCEPT ![r] = Arrived(req[r], kind, a, n)]
  BY <1>1, Zenon DEF Arrived
<1>5. Arrived(req[r], kind, a, n) = Record(kind, a, n, req[r].closed, req[r].tx)
  BY <1>0, ArrivedFields, Zenon
<1>6. Becomes(r, kind, a, n, req[r].closed, req[r].tx)
  BY <1>2, <1>3, <1>4, <1>5, <1>a, RecordReplaced, Zenon
<1> QED
  BY <1>2, <1>6, Zenon

\* A handler answers its request and goes on.
LEMMA AnsweredReq ==
  ASSUME req \in [Requests -> CallRecords], NEW r \in Requests, NEW a \in Places,
         Answered(r, a)
  PROVE  Becomes(r, req[r].kind, a, req[r].answers + 1, req[r].closed, req[r].tx)
<1>a. /\ IsRecord(req[r])
      /\ req[r].kind \in Kinds \cup {""} /\ req[r].at \in Places
      /\ req[r].answers \in Nat /\ req[r].answers + 1 \in Nat
      /\ req[r].closed \in BOOLEAN /\ req[r].tx \in Transactions
  BY RecordTyped, Zenon
<1>1. req' = [req EXCEPT ![r] = Replied(req[r], req[r].answers + 1, a)]
  BY Zenon DEF Answered, Replied
<1>2. Replied(req[r], req[r].answers + 1, a) =
        Record(req[r].kind, a, req[r].answers + 1, req[r].closed, req[r].tx)
  BY <1>a, AnswerFields, Zenon
<1> QED
  BY <1>1, <1>2, <1>a, RecordReplaced, Zenon

\* A handler goes on without an answer.
MovesTo(r, a) == req' = [req EXCEPT ![r].at = a]

\* A handler that goes on changes only where its request is.
LEMMA MovedReq ==
  ASSUME req \in [Requests -> CallRecords], NEW r \in Requests, NEW a \in Places,
         MovesTo(r, a)
  PROVE  Becomes(r, req[r].kind, a, req[r].answers, req[r].closed, req[r].tx)
<1>a. /\ IsRecord(req[r])
      /\ req[r].kind \in Kinds \cup {""} /\ req[r].answers \in Nat
      /\ req[r].closed \in BOOLEAN /\ req[r].tx \in Transactions
  BY RecordTyped, Zenon
<1>1. req' = [req EXCEPT ![r] = Moved(req[r], a)]
  BY Zenon DEF Moved, MovesTo
<1>2. Moved(req[r], a) =
        Record(req[r].kind, a, req[r].answers, req[r].closed, req[r].tx)
  BY <1>a, OneField, Zenon
<1> QED
  BY <1>1, <1>2, <1>a, RecordReplaced, Zenon

\* A transaction ends.
LEMMA EndedReq ==
  ASSUME req \in [Requests -> CallRecords], NEW r \in Requests, TransactionEnds(r)
  PROVE  \E t \in {"acked", "gone"} :
           Becomes(r, req[r].kind, req[r].at, req[r].answers, req[r].closed, t)
<1>a. /\ IsRecord(req[r])
      /\ req[r].kind \in Kinds \cup {""} /\ req[r].at \in Places
      /\ req[r].answers \in Nat
      /\ req[r].closed \in BOOLEAN /\ req[r].tx \in Transactions
  BY RecordTyped, Zenon
<1>1. PICK t \in {"acked", "gone"} : req' = [req EXCEPT ![r].tx = t]
  BY Zenon DEF TransactionEnds
<1>2. req' = [req EXCEPT ![r] = Completed(req[r], t)] /\ t \in Transactions
  BY <1>1, Zenon DEF Completed, Transactions
<1>3. Completed(req[r], t) =
        Record(req[r].kind, req[r].at, req[r].answers, req[r].closed, t)
  BY <1>a, OneField, Zenon
<1>4. Becomes(r, req[r].kind, req[r].at, req[r].answers, req[r].closed, t)
  BY <1>2, <1>3, <1>a, RecordReplaced, Zenon
<1> QED
  BY <1>1, <1>4, Zenon

\* The loop answers the command it handles, and accepts it at "hold", or leaves
\* the requests alone.
Tells == Becomes(cur, req[cur].kind, req[cur].at, req[cur].answers + 1, TRUE, req[cur].tx)
Accepts ==
  Becomes(cur, req[cur].kind, req[cur].at, req[cur].answers + 1, TRUE, "sent")

\* What a step of session.run does to the requests: nothing, one response to the
\* command in hand, or the 200 of a re-INVITE, which is then pending.
LEMMA LoopReq ==
  ASSUME SessionTypeOK, Loop
  PROVE  \/ UNCHANGED req
         \/ pc \in Handling /\ pc' = "loop" /\ Tells
         \/ pc = "hold" /\ pc' = "loop" /\ pending' = cur /\ Accepts
<1> USE DEF Handling
<1>0. req \in [Requests -> CallRecords] /\ (pc \in Handling => cur \in Requests)
  BY Zenon DEF SessionTypeOK
<1>1. CASE pc \in Handling /\ Finish
  BY <1>0, <1>1, FinishReq, Zenon DEF Finish, Tells
<1>2. CASE HoldOrResume /\ ~Finish
  <2>1. pc = "hold" /\ pc' = "loop" /\ pending' = cur /\ SendsOK
    BY <1>2, Zenon DEF HoldOrResume, SendsOK
  <2> QED
    BY <1>0, <2>1, AcceptedReq, Zenon DEF Accepts
<1>3. UNCHANGED req \/ HoldOrResume \/ (pc \in Handling /\ Finish)
  BY Zenon DEF Loop, TakeCommand, ShutdownHangup, MediaHangup, BeginHangup, SendBye,
     EndCall, BeginReInvite, RelayReInvite, Relay, commandVars
<1>4. HoldOrResume => pc \in Handling
  BY Zenon DEF HoldOrResume
<1> QED
  BY <1>1, <1>2, <1>3, <1>4, Zenon

\* A handler passes beginReInvite and goes on, or answers and is over.
LEMMA AdmitReq ==
  ASSUME SessionTypeOK, NEW r \in Requests, AdmitRequest(r)
  PROVE  /\ req[r].at = "found"
         /\ \E a \in {"enqueue", "over"}, n \in Nat :
              /\ Becomes(r, req[r].kind, a, n, req[r].closed, req[r].tx)
              /\ n > 0 \/ (a = "enqueue" /\ req[r].kind \notin ByeKinds)
              /\ IF a = "enqueue" /\ req[r].kind \in ReInviteKinds
                   THEN busy = FALSE /\ busy' = TRUE ELSE busy' = busy
<1> USE DEF ByeKinds, ReInviteKinds
<1>0. /\ req \in [Requests -> CallRecords] /\ busy \in BOOLEAN
      /\ "enqueue" \in Places /\ "over" \in Places
  BY Zenon DEF SessionTypeOK, Places
<1>a. req[r].answers \in Nat /\ req[r].answers + 1 \in Nat /\ req[r].answers + 1 > 0
  BY <1>0, RecordTyped, Zenon
<1>1. CASE \E a \in {"enqueue", "over"} :
             /\ Answered(r, a) /\ busy' = busy
             /\ req[r].kind \in ReInviteKinds => a = "over"
  <2>1. PICK a \in {"enqueue", "over"} :
          /\ Answered(r, a) /\ busy' = busy
          /\ req[r].kind \in ReInviteKinds => a = "over"
    BY <1>1
  <2>2. Becomes(r, req[r].kind, a, req[r].answers + 1, req[r].closed, req[r].tx)
    BY <1>0, <2>1, AnsweredReq, Zenon
  <2> QED
    BY <1>a, <2>1, <2>2, Zenon DEF AdmitRequest
<1>2. CASE /\ MovesTo(r, "enqueue")
           /\ busy' = (busy \/ req[r].kind \in ReInviteKinds)
           /\ req[r].kind \notin ByeKinds
           /\ req[r].kind \in ReInviteKinds => ~busy
  <2>1. Becomes(r, req[r].kind, "enqueue", req[r].answers, req[r].closed, req[r].tx)
    BY <1>0, <1>2, MovedReq, Zenon
  <2>2. IF req[r].kind \in ReInviteKinds THEN busy = FALSE /\ busy' = TRUE
                                         ELSE busy' = busy
    BY <1>0, <1>2, Zenon
  <2> QED
    BY <1>2, <1>a, <2>1, <2>2, Zenon DEF AdmitRequest
<1>3. CASE req[r].kind \in ByeKinds
  <2>1. (Answered(r, "enqueue") \/ Answered(r, "over")) /\ busy' = busy
    BY <1>3, Zenon DEF AdmitRequest
  <2> QED
    BY <1>1, <1>3, <2>1, Zenon
<1>4. CASE req[r].kind \in ReInviteKinds /\ (busy \/ pending # NoRequest)
  <2>1. Answered(r, "over") /\ busy' = busy
    BY <1>4, Zenon DEF AdmitRequest
  <2> QED
    BY <1>1, <2>1, Zenon
<1>5. CASE /\ req[r].kind \notin ByeKinds
           /\ ~(req[r].kind \in ReInviteKinds /\ (busy \/ pending # NoRequest))
  <2>1. \/ MovesTo(r, "enqueue") /\ busy' = (busy \/ req[r].kind \in ReInviteKinds)
        \/ Answered(r, "over") /\ busy' = busy
    BY <1>5, Zenon DEF AdmitRequest, MovesTo
  <2> QED
    BY <1>1, <1>2, <1>5, <2>1, Zenon
<1> QED
  BY <1>3, <1>4, <1>5, Zenon

\* enqueue.
LEMMA EnqueueReq ==
  ASSUME SessionTypeOK, NEW r \in Requests, Enqueue(r)
  PROVE  /\ req[r].at = "enqueue" /\ UNCHANGED busy
         /\ commands' = commands \/ commands' = Append(commands, r)
         /\ \E a \in {"waiting", "over"} :
              /\ Becomes(r, req[r].kind, a, req[r].answers, req[r].closed, req[r].tx)
              /\ a = "over" <=> req[r].kind \in ByeKinds
<1> DEFINE a == IF req[r].kind \in ByeKinds THEN "over" ELSE "waiting"
<1>1. /\ req[r].at = "enqueue" /\ UNCHANGED busy
      /\ commands' = commands \/ commands' = Append(commands, r)
      /\ MovesTo(r, a)
  BY Zenon DEF Enqueue, MovesTo
<1>2. a \in {"waiting", "over"} /\ a \in Places /\ (a = "over" <=> req[r].kind \in ByeKinds)
  BY DEF Places
<1> HIDE DEF a
<1>3. Becomes(r, req[r].kind, a, req[r].answers, req[r].closed, req[r].tx)
  BY <1>1, <1>2, MovedReq, Zenon DEF SessionTypeOK
<1> QED
  BY <1>1, <1>2, <1>3, Zenon

\* enqueueAndWait returns.
LEMMA ReturnReq ==
  ASSUME SessionTypeOK, NEW r \in Requests, HandlerReturns(r)
  PROVE  /\ req[r].at = "waiting"
         /\ busy' = (busy /\ req[r].kind \notin ReInviteKinds)
         /\ \E n \in Nat :
              /\ Becomes(r, req[r].kind, "over", n, req[r].closed, req[r].tx)
              /\ n > 0 \/ (req[r].closed /\ n = req[r].answers)
<1>0. /\ req \in [Requests -> CallRecords] /\ "over" \in Places
      /\ req[r].at = "waiting" /\ busy' = (busy /\ req[r].kind \notin ReInviteKinds)
  BY Zenon DEF SessionTypeOK, HandlerReturns, Places
<1>a. req[r].answers \in Nat /\ req[r].answers + 1 \in Nat /\ req[r].answers + 1 > 0
  BY <1>0, RecordTyped, Zenon
<1>1. CASE req[r].closed /\ MovesTo(r, "over")
  <2>1. Becomes(r, req[r].kind, "over", req[r].answers, req[r].closed, req[r].tx)
    BY <1>0, <1>1, MovedReq, Zenon
  <2> QED
    BY <1>0, <1>1, <1>a, <2>1, Zenon
<1>2. CASE Answered(r, "over")
  <2>1. Becomes(r, req[r].kind, "over", req[r].answers + 1, req[r].closed, req[r].tx)
    BY <1>0, <1>2, AnsweredReq, Zenon
  <2> QED
    BY <1>0, <1>a, <2>1, Zenon
<1> QED
  BY <1>1, <1>2, Zenon DEF HandlerReturns, MovesTo

-----------------------------------------------------------------------------
\* session.transition leads from states to states.
LEMMA TransitionTyped ==
  ASSUME state \in States, late \in Seq(States), NEW to \in States, Tries(to)
  PROVE  state' \in States /\ late' \in Seq(States)
<1>1. state' \in {state, to}
  BY Zenon DEF Tries, Moves, Refuses
<1>2. late' = late \/ late' = Append(late, to)
  BY DEF Tries, Moves, Refuses
<1> QED
  BY <1>1, <1>2

\* Types, in the setup.
LEMMA TypeSetup ==
  ASSUME SessionTypeOK, Setup
  PROVE  SessionTypeOK'
<1> USE DEF Inviting, BeforeAck, Established, Handling, Ending, Unwound
<1>1. UNCHANGED <<busy, origin, commands, pending, req>>
  BY Zenon DEF Setup, StartRouting, RespondTrying, ResolveCallee, LeaseMedia, SendInvite,
     Ringing, EarlyAnswer, EarlyMedia, CalleeRefuses, InviteEnds, CalleeAnswers,
     UseAnswer, AckCallee, MapOutbound, Answer, RespondOK, commandVars
<1>2. pc' \in (Inviting \cup {"fail", "join", "ok", "loop", "terminate"}) \ Handling
  BY Zenon DEF Setup, StartRouting, RespondTrying, ResolveCallee, LeaseMedia, SendInvite,
     Ringing, EarlyAnswer, EarlyMedia, CalleeRefuses, InviteEnds, CalleeAnswers,
     UseAnswer, AckCallee, MapOutbound, Answer, RespondOK
<1>3. UNCHANGED <<state, late>> \/ \E to \in States : Tries(to)
  BY Zenon DEF Setup, StartRouting, RespondTrying, ResolveCallee, LeaseMedia, SendInvite,
     Ringing, EarlyAnswer, EarlyMedia, CalleeRefuses, InviteEnds, CalleeAnswers,
     UseAnswer, AckCallee, MapOutbound, Answer, RespondOK, actorVars, Tries, States
<1>4. state' \in States /\ late' \in Seq(States)
  BY <1>3, TransitionTyped, Zenon DEF SessionTypeOK
<1>5. pc' \in Inviting \cup Established \cup Ending \cup {"fail"} /\ pc' \notin Handling
  BY <1>2, Zenon
<1> QED
  BY <1>1, <1>4, <1>5, Zenon DEF SessionTypeOK

\* A command that is taken from the queue.
LEMMA TypeTake ==
  ASSUME SessionTypeOK, TakeCommand
  PROVE  SessionTypeOK'
<1> USE DEF Established, Handling
<1>1. commands \in Seq(Requests) /\ commands # <<>>
  BY Zenon DEF SessionTypeOK, TakeCommand
<1>2. Head(commands) \in Requests /\ Tail(commands) \in Seq(Requests)
  BY <1>1
<1>3. /\ pc' \in {"hangup", "reinvite", "relay"}
      /\ pc' \in Handling => cur' = Head(commands)
      /\ origin' \in {"caller", "callee", origin}
      /\ UNCHANGED <<state, late, busy, pending, req>> /\ commands' = Tail(commands)
  BY Zenon DEF TakeCommand, Hangup, actorVars
<1> QED
  BY <1>2, <1>3, Zenon DEF SessionTypeOK

\* Types, in the loop.
LEMMA TypeLoop ==
  ASSUME SessionTypeOK, Loop, ~TakeCommand
  PROVE  SessionTypeOK'
<1> USE DEF Established, Handling, Ending
<1>1. UNCHANGED <<busy, commands>> /\ pending' \in {pending, NoRequest, cur}
  BY Zenon DEF Loop, ShutdownHangup, MediaHangup, BeginHangup, SendBye,
     EndCall, BeginReInvite, RelayReInvite, HoldOrResume, Relay, commandVars
<1>2. origin' \in {origin, "caller"}
  BY Zenon DEF Loop, ShutdownHangup, MediaHangup, BeginHangup, SendBye,
     EndCall, BeginReInvite, RelayReInvite, HoldOrResume, Relay, commandVars, Hangup
<1>3. pc' \in {"hangup", "bye", "join", "finish", "loop", "do", "hold"}
  BY Zenon DEF Loop, ShutdownHangup, MediaHangup, BeginHangup, SendBye,
     EndCall, BeginReInvite, RelayReInvite, HoldOrResume, Relay, Hangup, Finish
<1>4. pc' \in Handling => pc \in Handling /\ cur' = cur
  BY Zenon DEF Loop, ShutdownHangup, MediaHangup, BeginHangup, SendBye,
     EndCall, BeginReInvite, RelayReInvite, HoldOrResume, Relay, Hangup, Finish
<1>5. pending' = cur => pc \in Handling \/ pending' = pending
  BY Zenon DEF Loop, ShutdownHangup, MediaHangup, BeginHangup, SendBye,
     EndCall, BeginReInvite, RelayReInvite, HoldOrResume, Relay, commandVars
<1>6. UNCHANGED <<state, late>> \/ \E to \in States : Tries(to)
  BY Zenon DEF Loop, ShutdownHangup, MediaHangup, BeginHangup, SendBye,
     EndCall, BeginReInvite, RelayReInvite, HoldOrResume, Relay, actorVars, Tries, States
<1>7. state' \in States /\ late' \in Seq(States)
  BY <1>6, TransitionTyped, Zenon DEF SessionTypeOK
<1>8. req' \in [Requests -> CallRecords]
  BY LoopReq, Zenon DEF Tells, Accepts, Becomes, SessionTypeOK
<1> QED
  BY <1>1, <1>2, <1>3, <1>4, <1>5, <1>7, <1>8, Zenon DEF SessionTypeOK

\* Types, in the handlers; and a BYE of the callee ends its dialog.
LEMMA TypeHandler ==
  ASSUME SessionTypeOK, NEW r \in Requests, ByHandler(r)
  PROVE  /\ SessionTypeOK'
         /\ \A q \in Requests : req'[q].kind = "calleeBye" =>
              req[q].kind = "calleeBye" \/ callee' = "bye"
<1>0. /\ UNCHANGED <<pc, state, late, cur, origin>>
      /\ pending' \in {pending, NoRequest}
  BY HandlerFrame, Zenon
<1> DEFINE Good == /\ req' \in [Requests -> CallRecords] /\ busy' \in BOOLEAN
                   /\ commands' \in Seq(Requests)
                   /\ \A q \in Requests : req'[q].kind = "calleeBye" =>
                        req[q].kind = "calleeBye" \/ callee' = "bye"
<1> SUFFICES Good
  BY <1>0, Zenon DEF SessionTypeOK
<1>a. /\ req \in [Requests -> CallRecords] /\ busy \in BOOLEAN
      /\ commands \in Seq(Requests)
  BY Zenon DEF SessionTypeOK
<1>1. ASSUME NEW kind \in Arrivals, RequestArrives(r, kind) PROVE Good
  <2>1. \E a, n : Becomes(r, kind, a, n, req[r].closed, req[r].tx)
    BY <1>a, <1>1, ArrivedReq, Zenon
  <2>2. UNCHANGED <<busy, commands>> /\ (kind = "calleeBye" => callee' = "bye")
    BY <1>1, Zenon DEF RequestArrives
  <2> QED
    BY <1>a, <2>1, <2>2, Zenon DEF Becomes
<1>2. CASE AdmitRequest(r)
  <2>1. \E a, n : Becomes(r, req[r].kind, a, n, req[r].closed, req[r].tx)
    BY <1>2, AdmitReq, Zenon
  <2>2. busy' \in BOOLEAN /\ UNCHANGED commands
    BY <1>a, <1>2, AdmitReq, Zenon DEF AdmitRequest
  <2> QED
    BY <1>a, <2>1, <2>2, Zenon DEF Becomes
<1>3. CASE Enqueue(r)
  <2>1. \E a : Becomes(r, req[r].kind, a, req[r].answers, req[r].closed, req[r].tx)
    BY <1>3, EnqueueReq, Zenon
  <2>2. UNCHANGED busy /\ (commands' = commands \/ commands' = Append(commands, r))
    BY <1>3, EnqueueReq, Zenon
  <2>3. commands' \in Seq(Requests)
    BY <1>a, <2>2
  <2> QED
    BY <1>a, <2>1, <2>2, <2>3, Zenon DEF Becomes
<1>4. CASE HandlerReturns(r)
  <2>1. \E n : Becomes(r, req[r].kind, "over", n, req[r].closed, req[r].tx)
    BY <1>4, ReturnReq, Zenon
  <2>2. busy' \in BOOLEAN /\ UNCHANGED commands
    BY <1>a, <1>4, Zenon DEF HandlerReturns
  <2> QED
    BY <1>a, <2>1, <2>2, Zenon DEF Becomes
<1>5. CASE TransactionEnds(r)
  <2>1. \E t : Becomes(r, req[r].kind, req[r].at, req[r].answers, req[r].closed, t)
    BY <1>a, <1>5, EndedReq, Zenon
  <2>2. UNCHANGED <<busy, commands>>
    BY <1>5, Zenon DEF TransactionEnds
  <2> QED
    BY <1>a, <2>1, <2>2, Zenon DEF Becomes
<1>6. CASE CompletePending(r)
  BY <1>a, <1>6, Zenon DEF CompletePending
<1> QED
  BY <1>1, <1>2, <1>3, <1>4, <1>5, <1>6, Zenon DEF ByHandler, Handler

\* Every step keeps the types.
LEMMA TypeStep == SessionTypeOK /\ [Next]_vars => SessionTypeOK'
<1> SUFFICES ASSUME SessionTypeOK, [Next]_vars PROVE SessionTypeOK'
  OBVIOUS
<1>1. CASE Setup
  BY <1>1, TypeSetup, Zenon
<1>2. CASE Loop
  BY <1>2, TypeTake, TypeLoop, Zenon
<1>3. CASE Unwind
  <2>1. /\ UNCHANGED <<state, late, busy, origin, commands, req>>
        /\ pending' \in {pending, NoRequest} /\ pc' \in Unwound
    BY <1>3, Zenon DEF Unwind, JoinActor, StopMedia, Remove, CloseDone, actorVars,
       commandVars, Unwound
  <2>2. pc' \in Inviting \cup Established \cup Ending \cup {"fail"} /\ pc' \notin Handling
    BY <2>1, Zenon DEF Ending, Unwound, Handling
  <2> QED
    BY <2>1, <2>2, Zenon DEF SessionTypeOK
<1>4. CASE LateApplied \/ ActorExits
  <2>1. UNCHANGED <<pc, cur, busy, origin, commands, req, pending>>
    BY <1>4, Zenon DEF LateApplied, ActorExits, commandVars
  <2>2. late \in Seq(States) /\ state \in States
    BY Zenon DEF SessionTypeOK
  <2>3. CASE LateApplied
    <3>1. late # <<>> /\ state' \in {state, Head(late)} /\ late' \in {Tail(late), <<>>}
      BY <2>3, Zenon DEF LateApplied
    <3>2. Head(late) \in States /\ Tail(late) \in Seq(States) /\ <<>> \in Seq(States)
      BY <2>2, <3>1
    <3>3. state' \in States /\ late' \in Seq(States)
      BY <2>2, <3>1, <3>2, Zenon
    <3> QED
      BY <2>1, <3>3, Zenon DEF SessionTypeOK
  <2>4. CASE ActorExits
    <3>1. state' \in {state, "terminating", "terminated"} /\ late' = <<>>
      BY <2>4, Zenon DEF ActorExits
    <3>2. state' \in States /\ late' \in Seq(States)
      BY <2>2, <3>1 DEF States
    <3> QED
      BY <2>1, <3>2, Zenon DEF SessionTypeOK
  <2> QED
    BY <1>4, <2>3, <2>4
<1>5. CASE MediaRunReturns \/ CallerCancels \/ ProcessStops \/ UNCHANGED vars
  <2>1. UNCHANGED <<pc, cur, busy, origin, commands, req, pending, state, late>>
    BY <1>5, Zenon DEF MediaRunReturns, CallerCancels, ProcessStops, vars, actorVars,
       commandVars
  <2> QED
    BY <2>1, Zenon DEF SessionTypeOK
<1>6. ASSUME NEW r \in Requests, ByHandler(r) PROVE SessionTypeOK'
  BY <1>6, TypeHandler, Zenon
<1> QED
  BY <1>1, <1>2, <1>3, <1>4, <1>5, <1>6, Zenon DEF Next, Run, ByHandler

-----------------------------------------------------------------------------
\* The legs during the setup.
LEMMA LegSetup ==
  ASSUME LegInv, Setup
  PROVE  LegInv'
<1> USE DEF Inviting, BeforeAck, Ending, Unwound
<1>0. UNCHANGED <<origin, req, refused>>
  BY Zenon DEF Setup, StartRouting, RespondTrying, ResolveCallee, LeaseMedia, SendInvite,
     Ringing, EarlyAnswer, EarlyMedia, CalleeRefuses, InviteEnds, CalleeAnswers,
     UseAnswer, AckCallee, MapOutbound, Answer, RespondOK, commandVars
<1>1. origin = "caller" /\ pc \in Inviting \cup {"ok"}
  BY Zenon DEF Setup, StartRouting, RespondTrying, ResolveCallee, LeaseMedia, SendInvite,
     Ringing, EarlyAnswer, EarlyMedia, CalleeRefuses, InviteEnds, CalleeAnswers,
     UseAnswer, AckCallee, MapOutbound, Answer, RespondOK, LegInv
<1>2. CASE pc \in BeforeAck
  <2>1. callee \notin {"acked", "bye"} /\ \A r \in Requests : req[r].kind # "calleeBye"
    BY <1>2, Zenon DEF LegInv
  <2>2. \/ pc' \in BeforeAck /\ callee' \in {callee, "invited", "answered"}
        \/ pc' = "fail" /\ callee' \in {callee, "refused", "cancelled", "bye"}
        \/ pc' = "join" /\ callee' = callee
        \/ pc' = "map"
    BY <1>2, Zenon DEF Setup, StartRouting, RespondTrying, ResolveCallee, LeaseMedia,
       SendInvite, Ringing, EarlyAnswer, EarlyMedia, CalleeRefuses, InviteEnds,
       CalleeAnswers, UseAnswer, AckCallee, MapOutbound, Answer, RespondOK, legVars
  <2> QED
    BY <1>0, <1>1, <2>1, <2>2, Zenon DEF LegInv
<1>3. CASE pc \notin BeforeAck
  <2>1. \/ pc' \in {"answer", "ok", "loop"} /\ callee' = callee
        \/ pc' \in {"join", "terminate"} /\ callee' = "bye"
    BY <1>3, Zenon DEF Setup, StartRouting, RespondTrying, ResolveCallee, LeaseMedia,
       SendInvite, Ringing, EarlyAnswer, EarlyMedia, CalleeRefuses, InviteEnds,
       CalleeAnswers, UseAnswer, AckCallee, MapOutbound, Answer, RespondOK, legVars
  <2> QED
    BY <1>0, <1>1, <2>1, Zenon DEF LegInv
<1> QED
  BY <1>2, <1>3, Zenon

\* A command leads to a hangup by the callee only when its dialog is over.
LEMMA LegTake ==
  ASSUME SessionTypeOK, LegInv, TakeCommand
  PROVE  LegInv'
<1> USE DEF BeforeAck, Ending, Unwound, ByeKinds
<1>1. UNCHANGED <<caller, callee, req, refused>> /\ pc = "loop" /\ origin = "caller"
  BY Zenon DEF TakeCommand, legVars, LegInv
<1>2. Head(commands) \in Requests
  BY DEF SessionTypeOK, TakeCommand
<1>3. \/ pc' = "hangup" /\ origin' = "caller"
      \/ pc' = "hangup" /\ req[Head(commands)].kind = "calleeBye"
      \/ pc' \in {"reinvite", "relay"} /\ origin' = origin
  BY Zenon DEF TakeCommand, Hangup
<1>4. pc' = "hangup" /\ req[Head(commands)].kind = "calleeBye" => callee = "bye"
  BY <1>2, Zenon DEF LegInv
<1> QED
  BY <1>1, <1>3, <1>4, Zenon DEF LegInv

\* The legs in the loop: SendBye releases the other one.
LEMMA LegLoop ==
  ASSUME SessionTypeOK, LegInv, Loop, ~TakeCommand
  PROVE  LegInv'
<1> USE DEF BeforeAck, Ending, Unwound, Handling
<1>0. \A r \in Requests : req'[r].kind = req[r].kind
  <2>1. pc \in Handling => cur \in Requests
    BY Zenon DEF SessionTypeOK
  <2> QED
    BY <2>1, LoopReq, Zenon DEF Tells, Accepts, Becomes
<1>1. CASE ShutdownHangup \/ MediaHangup
  BY <1>0, <1>1, Zenon DEF ShutdownHangup, MediaHangup, Hangup, LegInv, legVars
<1>2. CASE BeginHangup
  BY <1>0, <1>2, Zenon DEF BeginHangup, LegInv, legVars, commandVars
<1>3. CASE SendBye
  <2>1. /\ pc' = "finish" /\ UNCHANGED <<origin, refused>> /\ origin \in {"caller", "callee"}
        /\ IF origin = "caller" THEN callee' = "bye" /\ UNCHANGED caller
                                ELSE caller' = "bye" /\ UNCHANGED callee
    BY <1>3, Zenon DEF SendBye, commandVars, SessionTypeOK
  <2> QED
    BY <1>0, <2>1, Zenon DEF LegInv
<1>4. CASE EndCall
  <2>1. /\ UNCHANGED <<caller, callee, origin, refused>>
        /\ \/ pc = "fail" /\ pc' = "join"
           \/ pc = "terminate" /\ pc' = "finish"
           \/ pc = "finish" /\ pc' = "join"
    BY <1>4, Zenon DEF EndCall, legVars, commandVars
  <2> QED
    BY <1>0, <2>1, Zenon DEF LegInv
<1>5. CASE BeginReInvite \/ RelayReInvite \/ HoldOrResume \/ Relay
  <2>1. /\ UNCHANGED <<caller, callee, origin, refused>>
        /\ pc \in Handling /\ pc' \in {"loop", "do", "hold"}
    BY <1>5, Zenon DEF BeginReInvite, RelayReInvite, HoldOrResume, Relay, Finish, legVars
  <2> QED
    BY <1>0, <2>1, Zenon DEF LegInv
<1> QED
  BY <1>1, <1>2, <1>3, <1>4, <1>5, Zenon DEF Loop

\* Every step keeps what is known of the legs.
LEMMA LegStep == SessionTypeOK /\ LegInv /\ [Next]_vars => LegInv'
<1> SUFFICES ASSUME SessionTypeOK, LegInv, [Next]_vars PROVE LegInv'
  OBVIOUS
<1>1. CASE Setup
  BY <1>1, LegSetup, Zenon
<1>2. CASE Loop
  BY <1>2, LegTake, LegLoop, Zenon
<1>3. CASE Unwind
  <2>1. UNCHANGED <<caller, callee, origin, refused, req>> /\ pc \in Ending /\ pc' \in Unwound
    BY <1>3, Zenon DEF Unwind, JoinActor, StopMedia, Remove, CloseDone, legVars,
       commandVars, Unwound, Ending
  <2> QED
    BY <2>1, Zenon DEF LegInv, Ending, Unwound, BeforeAck
<1>4. CASE LateApplied \/ ActorExits \/ MediaRunReturns \/ ProcessStops \/ UNCHANGED vars
  <2>1. UNCHANGED <<pc, caller, callee, origin, refused, req>>
    BY <1>4, Zenon DEF LateApplied, ActorExits, MediaRunReturns, ProcessStops, vars,
       legVars, commandVars
  <2> QED
    BY <2>1, Zenon DEF LegInv
<1>5. CASE CallerCancels
  <2>1. UNCHANGED <<pc, callee, origin, refused, req>> /\ caller' = "cancelled"
    BY <1>5, Zenon DEF CallerCancels, commandVars
  <2> QED
    BY <2>1, Zenon DEF LegInv
<1>6. ASSUME NEW r \in Requests, ByHandler(r) PROVE LegInv'
  <2>1. UNCHANGED <<pc, origin, refused>>
    BY <1>6, HandlerFrame, Zenon
  <2>2. /\ caller' = caller \/ caller' = "bye"
        /\ callee' = callee \/ (callee = "acked" /\ callee' = "bye")
    BY <1>6, HandlerLegs, Zenon
  <2>3. \A q \in Requests : req'[q].kind = "calleeBye" =>
              req[q].kind = "calleeBye" \/ callee' = "bye"
    BY <1>6, TypeHandler, Zenon
  <2> QED
    BY <2>1, <2>2, <2>3, Zenon DEF LegInv
<1> QED
  BY <1>1, <1>2, <1>3, <1>4, <1>5, <1>6, Zenon DEF Next, Run, ByHandler

-----------------------------------------------------------------------------
\* An accepted re-INVITE is pending until its transaction ends, in the loop.
LEMMA PendingLoop ==
  ASSUME SessionTypeOK, PendingInv, Loop
  PROVE  PendingInv'
<1> USE DEF Unwound, Handling
<1>0. (pc \in Handling => cur \in Requests) /\ pending \in Requests \cup {NoRequest}
  BY Zenon DEF SessionTypeOK
<1>1. CASE UNCHANGED <<req, pending>> /\ pc \notin Unwound /\ pc' \notin {"do", "hold"}
  BY <1>1, Zenon DEF PendingInv
<1>2. ASSUME Tells, pc \in Handling PROVE \A q \in Requests : req'[q].tx = req[q].tx
  BY <1>0, <1>2, Zenon DEF Tells, Becomes
<1>3. CASE BeginReInvite
  <2>1. CASE pending # NoRequest /\ req[pending].tx # "acked"
    <3>1. Finish /\ UNCHANGED pending /\ pc' = "loop"
      BY <1>3, <2>1, Zenon DEF BeginReInvite, Finish
    <3>2. pc = "reinvite" /\ cur \in Requests
      BY <1>0, <1>3, Zenon DEF BeginReInvite
    <3>3. Tells
      BY <3>1, <3>2, FinishReq, Zenon DEF SessionTypeOK, Tells
    <3> QED
      BY <1>2, <3>1, <3>2, <3>3, Zenon DEF PendingInv
  <2>2. CASE ~(pending # NoRequest /\ req[pending].tx # "acked")
    <3>1. \A q \in Requests : req[q].tx # "sent"
      <4>1. \A q \in Requests : req[q].tx = "sent" => pending = q
        BY <1>3, Zenon DEF PendingInv, BeginReInvite
      <4>2. "acked" # "sent"
        OBVIOUS
      <4> QED
        BY <2>2, <4>1, <4>2, SessionAssumption, Zenon
    <3>2. \A q \in Requests : req'[q].tx = req[q].tx
      <4>1. UNCHANGED req \/ (pc \in Handling /\ Tells)
        BY <1>3, LoopReq, Zenon DEF BeginReInvite
      <4> QED
        BY <1>2, <4>1, Zenon
    <3> QED
      BY <3>1, <3>2, Zenon DEF PendingInv
  <2> QED
    BY <2>1, <2>2, Zenon
<1>4. CASE RelayReInvite \/ HoldOrResume
  <2>1. pc \in {"do", "hold"} /\ cur \in Requests /\ pc' \in {"loop", "hold"}
    BY <1>0, <1>4, Zenon DEF RelayReInvite, HoldOrResume, Finish
  <2>2. \A q \in Requests : req[q].tx # "sent"
    BY <2>1, Zenon DEF PendingInv
  <2>3. CASE UNCHANGED req \/ Tells
    <3>1. \A q \in Requests : req'[q].tx = req[q].tx
      BY <1>2, <2>1, <2>3, Zenon
    <3> QED
      BY <2>2, <3>1, Zenon DEF PendingInv
  <2>4. CASE pc' = "loop" /\ pending' = cur /\ Accepts
    BY <2>1, <2>2, <2>4, Zenon DEF PendingInv, Accepts, Becomes
  <2> QED
    BY <2>3, <2>4, LoopReq, Zenon
<1>5. CASE Relay
  <2>1. pc = "relay" /\ cur \in Requests /\ Finish /\ UNCHANGED pending /\ pc' = "loop"
    BY <1>0, <1>5, Zenon DEF Relay, Finish
  <2>2. Tells
    BY <2>1, FinishReq, Zenon DEF SessionTypeOK, Tells
  <2> QED
    BY <1>2, <2>1, <2>2, Zenon DEF PendingInv
<1>6. TakeCommand \/ ShutdownHangup \/ MediaHangup \/ BeginHangup \/ SendBye \/ EndCall =>
        UNCHANGED <<req, pending>> /\ pc \notin Unwound /\ pc' \notin {"do", "hold"}
  BY Zenon DEF TakeCommand, ShutdownHangup, MediaHangup, BeginHangup, SendBye, EndCall,
     Hangup, commandVars
<1> QED
  BY <1>1, <1>3, <1>4, <1>5, <1>6, Zenon DEF Loop

\* The handlers end transactions, and complete only what has ended.
LEMMA PendingHandler ==
  ASSUME SessionTypeOK, PendingInv, NEW r \in Requests, ByHandler(r)
  PROVE  PendingInv'
<1>0. UNCHANGED pc /\ req \in [Requests -> CallRecords]
  BY HandlerFrame, Zenon DEF SessionTypeOK
<1>1. CASE CompletePending(r)
  <2>1. UNCHANGED req /\ pending = r /\ req[r].tx # "sent"
    BY <1>1, Zenon DEF CompletePending
  <2> QED
    BY <1>0, <2>1, Zenon DEF PendingInv
<1>2. CASE /\ UNCHANGED pending
           /\ \A q \in Requests : req'[q].tx = "sent" => req[q].tx = "sent"
  BY <1>0, <1>2, Zenon DEF PendingInv
<1>3. ASSUME NEW kind \in Arrivals, RequestArrives(r, kind) PROVE PendingInv'
  <2>1. \E a, n : Becomes(r, kind, a, n, req[r].closed, req[r].tx)
    BY <1>0, <1>3, ArrivedReq, Zenon
  <2> QED
    BY <1>2, <1>3, <2>1, Zenon DEF Becomes, RequestArrives
<1>4. CASE AdmitRequest(r)
  <2>1. \E a, n : Becomes(r, req[r].kind, a, n, req[r].closed, req[r].tx)
    BY <1>4, AdmitReq, Zenon
  <2> QED
    BY <1>2, <1>4, <2>1, Zenon DEF Becomes, AdmitRequest
<1>5. CASE Enqueue(r)
  <2>1. \E a : Becomes(r, req[r].kind, a, req[r].answers, req[r].closed, req[r].tx)
    BY <1>5, EnqueueReq, Zenon
  <2> QED
    BY <1>2, <1>5, <2>1, Zenon DEF Becomes, Enqueue
<1>6. CASE HandlerReturns(r)
  <2>1. \E n : Becomes(r, req[r].kind, "over", n, req[r].closed, req[r].tx)
    BY <1>6, ReturnReq, Zenon
  <2> QED
    BY <1>2, <1>6, <2>1, Zenon DEF Becomes, HandlerReturns
<1>7. CASE TransactionEnds(r)
  <2>1. \E t \in {"acked", "gone"} :
          Becomes(r, req[r].kind, req[r].at, req[r].answers, req[r].closed, t)
    BY <1>0, <1>7, EndedReq, Zenon
  <2> QED
    BY <1>2, <1>7, <2>1, Zenon DEF Becomes, TransactionEnds
<1> QED
  BY <1>1, <1>3, <1>4, <1>5, <1>6, <1>7, Zenon DEF ByHandler, Handler

\* The setup, the actor, the media, the CANCEL and the process leave the
\* commands alone, and the defers complete what is pending.
Elsewhere ==
  \/ Setup \/ Unwind \/ LateApplied \/ ActorExits \/ MediaRunReturns
  \/ CallerCancels \/ ProcessStops \/ UNCHANGED vars

\* The steps outside the in-dialog loop and the handlers change no command and no
\* request, and pending only once the defers have begun.
LEMMA ElsewhereFrame ==
  ASSUME Elsewhere
  PROVE  /\ UNCHANGED <<commands, cur, busy, req>>
         /\ \/ UNCHANGED <<pc, pending>>
            \/ UNCHANGED pending /\ pc \notin Unwound /\ pc' \notin Handling
            \/ pc' \in Unwound
<1> USE DEF Unwound, Handling
<1>1. CASE Setup
  BY <1>1, Zenon DEF Setup, StartRouting, RespondTrying, ResolveCallee, LeaseMedia,
     SendInvite, Ringing, EarlyAnswer, EarlyMedia, CalleeRefuses, InviteEnds,
     CalleeAnswers, UseAnswer, AckCallee, MapOutbound, Answer, RespondOK, commandVars
<1>2. CASE Unwind
  BY <1>2, Zenon DEF Unwind, JoinActor, StopMedia, Remove, CloseDone, commandVars
<1>3. CASE LateApplied \/ ActorExits \/ MediaRunReturns
  BY <1>3, Zenon DEF LateApplied, ActorExits, MediaRunReturns, commandVars
<1>4. CASE CallerCancels \/ ProcessStops \/ UNCHANGED vars
  BY <1>4, Zenon DEF CallerCancels, ProcessStops, vars, commandVars
<1> QED
  BY <1>1, <1>2, <1>3, <1>4, Zenon DEF Elsewhere

\* Every step is one of these, a step of the loop or one of a handler.
LEMMA StepKinds ==
  [Next]_vars => Elsewhere \/ Loop \/ \E r \in Requests : ByHandler(r)
BY Zenon DEF Next, Run, ByHandler, Elsewhere

\* Every step keeps an accepted re-INVITE pending until its transaction ends.
LEMMA PendingStep == SessionTypeOK /\ PendingInv /\ [Next]_vars => PendingInv'
<1> SUFFICES ASSUME SessionTypeOK, PendingInv, [Next]_vars PROVE PendingInv'
  OBVIOUS
<1>1. CASE Elsewhere
  BY <1>1, ElsewhereFrame, Zenon DEF PendingInv, Unwound, Handling
<1>2. CASE Loop
  BY <1>2, PendingLoop, Zenon
<1>3. ASSUME NEW r \in Requests, ByHandler(r) PROVE PendingInv'
  BY <1>3, PendingHandler, Zenon
<1> QED
  BY <1>1, <1>2, <1>3, StepKinds, Zenon

-----------------------------------------------------------------------------
\* reInviteBusy is taken by one handler at a time, which gives it back.
LEMMA BusyHandler ==
  ASSUME SessionTypeOK, BusyInv, NEW r \in Requests, ByHandler(r)
  PROVE  BusyInv'
<1>0. req \in [Requests -> CallRecords]
  BY Zenon DEF SessionTypeOK
<1>1. CASE UNCHANGED busy /\ \A q \in Requests : Active(q)' <=> Active(q)
  BY <1>1, Zenon DEF BusyInv
<1>2. ASSUME \A q \in Requests : q # r => req'[q] = req[q]
      PROVE  \A q \in Requests : q # r => (Active(q)' <=> Active(q))
  BY <1>2, Zenon DEF Active
<1>3. ASSUME NEW kind \in Arrivals, RequestArrives(r, kind) PROVE BusyInv'
  <2>1. \E a \in {"found", "over"}, n \in Nat :
          Becomes(r, kind, a, n, req[r].closed, req[r].tx)
    BY <1>0, <1>3, ArrivedReq, Zenon
  <2>2. req[r].at = "idle" /\ UNCHANGED busy
    BY <1>3, Zenon DEF RequestArrives
  <2>3. ~Active(r) /\ ~Active(r)'
    BY <2>1, <2>2, Zenon DEF Becomes, Active
  <2> QED
    BY <1>1, <1>2, <2>1, <2>2, <2>3, Zenon DEF Becomes
<1>4. CASE AdmitRequest(r)
  <2>1. PICK a \in {"enqueue", "over"}, n \in Nat :
          /\ Becomes(r, req[r].kind, a, n, req[r].closed, req[r].tx)
          /\ IF a = "enqueue" /\ req[r].kind \in ReInviteKinds
               THEN busy = FALSE /\ busy' = TRUE ELSE busy' = busy
    BY <1>4, AdmitReq, Zenon
  <2>2. ~Active(r)
    BY <1>4, AdmitReq, Zenon DEF Active
  <2>3. \A q \in Requests : q # r => (Active(q)' <=> Active(q))
    BY <1>2, <2>1, Zenon DEF Becomes
  <2>4. CASE a = "enqueue" /\ req[r].kind \in ReInviteKinds
    <3>1. Active(r)' /\ busy' /\ ~busy
      BY <2>1, <2>4, Zenon DEF Becomes, Active
    <3> QED
      BY <2>3, <3>1, Zenon DEF BusyInv
  <2>5. CASE ~(a = "enqueue" /\ req[r].kind \in ReInviteKinds)
    <3>1. ~Active(r)' /\ UNCHANGED busy
      BY <2>1, <2>5, Zenon DEF Becomes, Active
    <3> QED
      BY <1>1, <2>2, <2>3, <3>1, Zenon
  <2> QED
    BY <2>4, <2>5, Zenon
<1>5. CASE Enqueue(r)
  <2>1. /\ req[r].at = "enqueue" /\ UNCHANGED busy
        /\ \E a \in {"waiting", "over"} :
             /\ Becomes(r, req[r].kind, a, req[r].answers, req[r].closed, req[r].tx)
             /\ a = "over" <=> req[r].kind \in ByeKinds
    BY <1>5, EnqueueReq, Zenon
  <2>2. Active(r)' <=> Active(r)
    BY <2>1, Zenon DEF Becomes, Active, ByeKinds, ReInviteKinds
  <2> QED
    BY <1>1, <1>2, <2>1, <2>2, Zenon DEF Becomes
<1>6. CASE HandlerReturns(r)
  <2>1. /\ req[r].at = "waiting" /\ busy' = (busy /\ req[r].kind \notin ReInviteKinds)
        /\ \E n \in Nat : Becomes(r, req[r].kind, "over", n, req[r].closed, req[r].tx)
    BY <1>6, ReturnReq, Zenon
  <2>2. \A q \in Requests : q # r => (Active(q)' <=> Active(q))
    BY <1>2, <2>1, Zenon DEF Becomes
  <2>3. ~Active(r)' /\ (Active(r) <=> req[r].kind \in ReInviteKinds)
    BY <2>1, Zenon DEF Becomes, Active
  <2>4. CASE Active(r)
    <3>1. ~busy' /\ \A q \in Requests : ~Active(q)'
      BY <2>1, <2>2, <2>3, <2>4, Zenon DEF BusyInv
    <3> QED
      BY <3>1, Zenon DEF BusyInv
  <2>5. CASE ~Active(r)
    <3>1. busy \in BOOLEAN /\ req[r].kind \notin ReInviteKinds
      BY <2>3, <2>5, Zenon DEF SessionTypeOK
    <3>2. UNCHANGED busy
      BY <2>1, <3>1, Zenon
    <3> QED
      BY <1>1, <2>2, <2>3, <2>5, <3>2, Zenon
  <2> QED
    BY <2>4, <2>5, Zenon
<1>7. CASE TransactionEnds(r)
  <2>1. \E t : Becomes(r, req[r].kind, req[r].at, req[r].answers, req[r].closed, t)
    BY <1>0, <1>7, EndedReq, Zenon
  <2>2. Active(r)' <=> Active(r)
    BY <2>1, Zenon DEF Becomes, Active
  <2> QED
    BY <1>1, <1>2, <1>7, <2>1, <2>2, Zenon DEF Becomes, TransactionEnds
<1>8. CASE CompletePending(r)
  BY <1>1, <1>8, Zenon DEF CompletePending, Active
<1> QED
  BY <1>3, <1>4, <1>5, <1>6, <1>7, <1>8, Zenon DEF ByHandler, Handler

\* Every step keeps reInviteBusy with the handler that resets it.
LEMMA BusyStep == SessionTypeOK /\ BusyInv /\ [Next]_vars => BusyInv'
<1> SUFFICES ASSUME SessionTypeOK, BusyInv, [Next]_vars PROVE BusyInv'
  OBVIOUS
<1>0. ASSUME UNCHANGED busy, \A q \in Requests : Active(q)' <=> Active(q)
      PROVE  BusyInv'
  BY <1>0, Zenon DEF BusyInv
<1>1. CASE Elsewhere
  BY <1>0, <1>1, ElsewhereFrame, Zenon DEF Active
<1>2. CASE Loop
  <2>1. UNCHANGED busy
    BY <1>2, Zenon DEF Loop, TakeCommand, ShutdownHangup, MediaHangup, BeginHangup,
       SendBye, EndCall, BeginReInvite, RelayReInvite, HoldOrResume, Relay, commandVars
  <2>2. UNCHANGED req \/ (pc \in Handling /\ Tells) \/ (pc \in Handling /\ Accepts)
    BY <1>2, LoopReq, Zenon DEF Handling
  <2>3. \A q \in Requests : req'[q].kind = req[q].kind /\ req'[q].at = req[q].at
    BY <2>2, Zenon DEF Tells, Accepts, Becomes, SessionTypeOK
  <2> QED
    BY <1>0, <2>1, <2>3, Zenon DEF Active
<1>3. ASSUME NEW r \in Requests, ByHandler(r) PROVE BusyInv'
  BY <1>3, BusyHandler, Zenon
<1> QED
  BY <1>1, <1>2, <1>3, StepKinds, Zenon

-----------------------------------------------------------------------------
\* A request is answered before its handler is over, in the loop.
LEMMA AnswersLoop ==
  ASSUME SessionTypeOK, AnswersInv, Loop
  PROVE  AnswersInv'
<1> USE DEF Handling
<1>0. /\ req \in [Requests -> CallRecords] /\ commands \in Seq(Requests)
      /\ pc \in Handling => cur \in Requests
  BY Zenon DEF SessionTypeOK
<1>1. (\A q \in Requests : HandedOver(q)' <=> HandedOver(q))
      /\ \A q \in Requests : RequestOK(req'[q])
  <2>1. CASE UNCHANGED req
    BY <2>1, Zenon DEF AnswersInv, HandedOver
  <2>2. CASE pc \in Handling /\ (Tells \/ Accepts)
    <3>1. \E t : Becomes(cur, req[cur].kind, req[cur].at, req[cur].answers + 1, TRUE, t)
      BY <2>2, Zenon DEF Tells, Accepts
    <3>2. HandedOver(cur) /\ req[cur].answers + 1 > 0 /\ cur \in Requests
      BY <1>0, <2>2, RecordTyped, Zenon DEF AnswersInv
    <3>3. \A q \in Requests : HandedOver(q)' <=> HandedOver(q)
      BY <3>1, <3>2, Zenon DEF HandedOver, Becomes
    <3>4. RequestOK(req'[cur])
      BY <3>1, <3>2, Zenon DEF HandedOver, Becomes, RequestOK
    <3>5. \A q \in Requests : q # cur => req'[q] = req[q]
      BY <3>1, Zenon DEF Becomes
    <3> QED
      BY <3>3, <3>4, <3>5, Zenon DEF AnswersInv
  <2> QED
    BY <2>1, <2>2, LoopReq, Zenon
<1>2. CASE TakeCommand
  <2>1. /\ commands # <<>> /\ commands' = Tail(commands)
        /\ pc' \in Handling => cur' = Head(commands)
    BY <1>2, Zenon DEF TakeCommand, Hangup
  <2>2. /\ Head(commands) \in Requests /\ Tail(commands) \in Seq(Requests)
        /\ Head(commands) = commands[1] /\ 1 \in 1..Len(commands)
        /\ \A i \in 1..Len(Tail(commands)) :
             i + 1 \in 1..Len(commands) /\ Tail(commands)[i] = commands[i + 1]
    BY <1>0, <2>1
  <2>3. UNCHANGED req
    BY <1>2, Zenon DEF TakeCommand
  <2>4. \A i \in 1..Len(commands') : req'[commands'[i]].at \in {"waiting", "over"}
    <3>1. \A i \in 1..Len(commands) : req[commands[i]].at \in {"waiting", "over"}
      BY Zenon DEF AnswersInv, HandedOver
    <3> QED
      BY <2>1, <2>2, <2>3, <3>1, Zenon
  <2> QED
    BY <1>1, <2>1, <2>2, <2>4, Zenon DEF AnswersInv, HandedOver
<1>3. CASE ~TakeCommand
  <2>1. /\ UNCHANGED commands
        /\ pc' \in Handling => pc \in Handling /\ UNCHANGED cur
    BY <1>3, Zenon DEF Loop, ShutdownHangup, MediaHangup, BeginHangup, SendBye, EndCall,
       BeginReInvite, RelayReInvite, HoldOrResume, Relay, Hangup, Finish, commandVars
  <2>2. \A i \in 1..Len(commands) : commands[i] \in Requests
    BY <1>0
  <2> QED
    BY <1>0, <1>1, <2>1, <2>2, Zenon DEF AnswersInv, HandedOver
<1> QED
  BY <1>2, <1>3, Zenon

\* A step of a handler takes no command back, and answers before it is over.
LEMMA AnswersHandler ==
  ASSUME SessionTypeOK, AnswersInv, NEW r \in Requests, ByHandler(r)
  PROVE  AnswersInv'
<1>0. req \in [Requests -> CallRecords] /\ commands \in Seq(Requests)
      /\ (pc \in Handling => cur \in Requests)
  BY Zenon DEF SessionTypeOK
<1>a. UNCHANGED <<pc, cur>>
  BY HandlerFrame, Zenon
<1>b. RequestOK(req[r])
  BY Zenon DEF AnswersInv
<1>c. ASSUME NEW k, NEW a, NEW n, NEW c, NEW t, Becomes(r, k, a, n, c, t),
             a \in {"waiting", "over"} \/ (a = req[r].at) \/ ~HandedOver(r),
             \/ commands' = commands
             \/ commands' = Append(commands, r) /\ a \in {"waiting", "over"},
             a \in {"idle", "found"} => ~c,
             c \/ a = "over" \/ (a = "enqueue" /\ k \in ByeKinds) => n > 0
      PROVE  AnswersInv'
  <2>1. \A q \in Requests : RequestOK(req'[q])
    <3>1. RequestOK(req'[r])
      BY <1>c, Zenon DEF Becomes, RequestOK
    <3>2. \A q \in Requests : q # r => req'[q] = req[q]
      BY <1>c, Zenon DEF Becomes
    <3> QED
      BY <3>1, <3>2, Zenon DEF AnswersInv
  <2>2. \A q \in Requests : req[q].at \in {"waiting", "over"} =>
                            req'[q].at \in {"waiting", "over"}
    BY <1>c, Zenon DEF Becomes, HandedOver
  <2>3. pc' \in Handling => req'[cur'].at \in {"waiting", "over"}
    BY <1>0, <1>a, <2>2, Zenon DEF AnswersInv, HandedOver
  <2>4. \A i \in 1..Len(commands) : commands[i] \in Requests
    BY <1>0
  <2>5. \A i \in 1..Len(commands) : req'[commands[i]].at \in {"waiting", "over"}
    BY <2>2, <2>4, Zenon DEF AnswersInv, HandedOver
  <2>6. \A i \in 1..Len(commands') :
          \/ i \in 1..Len(commands) /\ commands'[i] = commands[i]
          \/ commands'[i] = r /\ a \in {"waiting", "over"}
    BY <1>0, <1>c
  <2>7. \A i \in 1..Len(commands') : req'[commands'[i]].at \in {"waiting", "over"}
    BY <1>c, <2>5, <2>6, Zenon DEF Becomes
  <2> QED
    BY <2>1, <2>3, <2>7, Zenon DEF AnswersInv, HandedOver
<1>1. ASSUME NEW kind \in Arrivals, RequestArrives(r, kind) PROVE AnswersInv'
  <2>1. PICK a \in {"found", "over"}, n \in Nat :
          (a = "over" => n > 0) /\ Becomes(r, kind, a, n, req[r].closed, req[r].tx)
    BY <1>0, <1>1, ArrivedReq, Zenon
  <2>2. req[r].at = "idle" /\ UNCHANGED commands
    BY <1>1, Zenon DEF RequestArrives
  <2>3. ~req[r].closed /\ ~HandedOver(r)
    BY <1>b, <2>2, Zenon DEF RequestOK, HandedOver
  <2>4. a # "enqueue"
    BY <2>1
  <2>5. req[r].closed \/ a = "over" \/ (a = "enqueue" /\ kind \in ByeKinds) => n > 0
    BY <2>1, <2>3, <2>4, Zenon
  <2> QED
    BY <1>c, <2>1, <2>2, <2>3, <2>5
<1>2. CASE AdmitRequest(r)
  <2>1. PICK a \in {"enqueue", "over"}, n \in Nat :
          /\ Becomes(r, req[r].kind, a, n, req[r].closed, req[r].tx)
          /\ n > 0 \/ (a = "enqueue" /\ req[r].kind \notin ByeKinds)
    BY <1>2, AdmitReq, Zenon
  <2>2. req[r].at = "found" /\ UNCHANGED commands
    BY <1>2, Zenon DEF AdmitRequest
  <2>3. ~req[r].closed /\ ~HandedOver(r)
    BY <1>b, <2>2, Zenon DEF RequestOK, HandedOver
  <2> QED
    BY <1>c, <2>1, <2>2, <2>3, Zenon
<1>3. CASE Enqueue(r)
  <2>1. /\ req[r].at = "enqueue"
        /\ commands' = commands \/ commands' = Append(commands, r)
    BY <1>3, EnqueueReq, Zenon
  <2>2. PICK a \in {"waiting", "over"} :
          /\ Becomes(r, req[r].kind, a, req[r].answers, req[r].closed, req[r].tx)
          /\ a = "over" <=> req[r].kind \in ByeKinds
    BY <1>3, EnqueueReq, Zenon
  <2>3. req[r].closed \/ a = "over" => req[r].answers > 0
    BY <1>b, <2>1, <2>2, Zenon DEF RequestOK
  <2> QED
    BY <1>c, <2>1, <2>2, <2>3, Zenon
<1>4. CASE HandlerReturns(r)
  <2>1. PICK n \in Nat :
          /\ Becomes(r, req[r].kind, "over", n, req[r].closed, req[r].tx)
          /\ n > 0 \/ (req[r].closed /\ n = req[r].answers)
    BY <1>4, ReturnReq, Zenon
  <2>2. n > 0 /\ UNCHANGED commands
    BY <1>4, <1>b, <2>1, Zenon DEF RequestOK, HandlerReturns
  <2>3. "over" \notin {"idle", "found"}
    OBVIOUS
  <2> QED
    BY <1>c, <2>1, <2>2, <2>3, Zenon
<1>5. CASE TransactionEnds(r)
  <2>1. PICK t : Becomes(r, req[r].kind, req[r].at, req[r].answers, req[r].closed, t)
    BY <1>0, <1>5, EndedReq, Zenon
  <2>2. UNCHANGED commands
    BY <1>5, Zenon DEF TransactionEnds
  <2>3. /\ req[r].at \in {"idle", "found"} => ~req[r].closed
        /\ \/ req[r].closed \/ req[r].at = "over"
           \/ req[r].at = "enqueue" /\ req[r].kind \in ByeKinds
           => req[r].answers > 0
    BY <1>b, Zenon DEF RequestOK
  <2> QED
    BY <1>c, <2>1, <2>2, <2>3
<1>6. CASE CompletePending(r)
  <2>1. UNCHANGED <<commands, req>>
    BY <1>6, Zenon DEF CompletePending
  <2> QED
    BY <1>a, <2>1, Zenon DEF AnswersInv, HandedOver
<1> QED
  BY <1>1, <1>2, <1>3, <1>4, <1>5, <1>6, Zenon DEF ByHandler, Handler

\* Every step keeps the commands handed over and the answers given.
LEMMA AnswersStep == SessionTypeOK /\ AnswersInv /\ [Next]_vars => AnswersInv'
<1> SUFFICES ASSUME SessionTypeOK, AnswersInv, [Next]_vars PROVE AnswersInv'
  OBVIOUS
<1>1. CASE Elsewhere
  BY <1>1, ElsewhereFrame, Zenon DEF AnswersInv, HandedOver, Unwound, Handling
<1>2. CASE Loop
  BY <1>2, AnswersLoop, Zenon
<1>3. ASSUME NEW r \in Requests, ByHandler(r) PROVE AnswersInv'
  BY <1>3, AnswersHandler, Zenon
<1> QED
  BY <1>1, <1>2, <1>3, StepKinds, Zenon

-----------------------------------------------------------------------------
\* A new session satisfies the invariant.
LEMMA SessionInit == Init => SInv
<1> SUFFICES ASSUME Init PROVE SInv
  OBVIOUS
<1>1. \A r \in Requests : req[r] = NoCommand
  BY Zenon DEF Init
<1>2. /\ NoCommand.kind = "" /\ NoCommand.at = "idle" /\ NoCommand.answers = 0
      /\ NoCommand.tx = "open"
  BY DEF NoCommand
<1>3. NoCommand.closed = FALSE
  BY Zenon DEF NoCommand
<1>4. NoCommand \in CallRecords
  BY DEF NoCommand, CallRecords
<1>5. SessionTypeOK
  <2>1. req \in [Requests -> CallRecords]
    BY <1>4, Zenon DEF Init
  <2>2. late \in Seq(States) /\ commands \in Seq(Requests) /\ state \in States
    BY DEF Init, States
  <2>3. pc = "routing" /\ busy = FALSE /\ origin = "caller" /\ pending = NoRequest
    BY Zenon DEF Init
  <2> QED
    BY <2>1, <2>2, <2>3, Zenon DEF SessionTypeOK, Inviting, BeforeAck, Handling
<1>6. AnswerInv /\ LegInv /\ UnwindInv
  BY <1>1, <1>2, Zenon DEF Init, AnswerInv, LegInv, UnwindInv, InDialog, Inviting,
     BeforeAck, Established, Handling, Ending, Unwound
<1>7. PendingInv /\ BusyInv
  BY <1>1, <1>2, Zenon DEF Init, PendingInv, BusyInv, Active, Unwound, ReInviteKinds
<1>8. AnswersInv
  <2>1. RequestOK(NoCommand)
    BY <1>2, <1>3, Zenon DEF RequestOK
  <2>2. 1..Len(commands) = {}
    BY DEF Init
  <2> QED
    BY <1>1, <2>1, <2>2, Zenon DEF Init, AnswersInv, Handling
<1> QED
  BY <1>5, <1>6, <1>7, <1>8, Zenon DEF SInv

\* session.run, the handlers of its in-dialog requests and the actor behind it
\* keep the invariant in every interleaving.
THEOREM SessionInvariant == Spec => []SInv
<1>1. SInv /\ [Next]_vars => SInv'
  BY TypeStep, AnswerStep, LegStep, UnwindStep, PendingStep, BusyStep, AnswersStep, Zenon
     DEF SInv
<1> QED
  BY <1>1, SessionInit, PTL DEF Spec

\* The caller hears 200 only of a call that the actor has answered, and no late
\* transition takes the call back out of the answered states.
THEOREM AnsweredBeforeTheOK == Spec => []AnsweredBeforeOK
<1>1. SInv => AnsweredBeforeOK
  BY Zenon DEF SInv, AnswerInv, InDialog, AnsweredStates, AnsweredBeforeOK
<1> QED
  BY <1>1, SessionInvariant, PTL

\* A session that is over has released the acknowledged callee, and the caller
\* if the callee hung up, unless the actor refused the hangup.
THEOREM BothLegsReleased == Spec => []LegsReleased
<1>1. SInv => LegsReleased
  BY Zenon DEF SInv, LegInv, LegsReleased, Ending, Unwound
<1> QED
  BY <1>1, SessionInvariant, PTL

\* The defers of session.run join the actor, stop the media and remove the
\* session from the maps in this order.
THEOREM TornDownInOrder == Spec => []TeardownOrder
<1>1. SInv => TeardownOrder
  BY Zenon DEF SInv, UnwindInv, TeardownOrder, Unwound
<1> QED
  BY <1>1, SessionInvariant, PTL

\* No re-INVITE is relayed while an accepted one waits for its ACK, and
\* reInviteBusy is set exactly while a handler will reset it.
THEOREM OneReInviteAtATime == Spec => []ReInvitesSerial
<1>1. SInv => ReInvitesSerial
  BY Zenon DEF SInv, PendingInv, BusyInv, Active, ReInvitesSerial
<1> QED
  BY <1>1, SessionInvariant, PTL

\* Every in-dialog request has a final response when its handler returns:
\* from the handler, or from session.run that closed command.result.
THEOREM EveryRequestAnswered == Spec => []RequestsAnswered
<1>1. SInv => RequestsAnswered
  BY Zenon DEF SInv, AnswersInv, RequestOK, RequestsAnswered
<1> QED
  BY <1>1, SessionInvariant, PTL
=============================================================================
