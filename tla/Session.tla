------------------------------ MODULE Session -------------------------------
(***************************************************************************)
(* One B2BUA call: session.run of internal/sip/b2bua/engine.go, with the   *)
(* in-dialog requests of in_dialog.go that other goroutines hand to it.    *)
(*                                                                         *)
(* The call actor is abstracted to the state it keeps, whether it runs,    *)
(* and the commands whose Transition timed out and that it may still       *)
(* apply (module CallActor has the detail).  sipgo, the caller and the     *)
(* callee are external: a response or a BYE is an assignment to the leg it *)
(* goes to, every network operation may fail, every deadline may pass at   *)
(* any moment.                                                             *)
(***************************************************************************)
EXTENDS CallStates, Naturals, Sequences, FiniteSets

CONSTANTS
  Requests,     \* in-dialog requests, each with its handler goroutine
  Arrivals,     \* the kinds of request that arrive
  MailboxSize,  \* Config.MailboxSize
  NoRequest     \* none of them

VARIABLES
  pc,         \* where session.run is
  parentDone, \* the process context is done
  state,      \* the call's state, kept by the actor
  actorUp,    \* Actor.Run has not returned
  late,       \* commands left in the actor's mailbox by expired Transitions
  caller,     \* the caller's leg: its INVITE transaction, then its dialog
  callee,     \* the callee's leg
  mapped,     \* byOutbound holds the session
  media,      \* the media session
  commands,   \* session.commands
  cur,        \* the command being handled
  origin,     \* who hangs up
  busy,       \* session.reInviteBusy
  pending,    \* session.pendingReInvite
  req,        \* per request: its handler and its server transaction
  refused     \* handleHangup gave up because of its first transition (history)

actorVars == <<state, actorUp, late>>
legVars == <<caller, callee, mapped>>
commandVars == <<commands, cur, origin, busy, pending, req>>
vars == <<pc, parentDone, actorVars, legVars, media, commandVars, refused>>

ByeKinds == {"callerBye", "calleeBye"}
ReInviteKinds == {"hold", "resume"}
Kinds == ByeKinds \cup ReInviteKinds \cup {"refer", "notify"}

ASSUME SessionAssumption ==
  /\ MailboxSize \in Nat \ {0}
  /\ NoRequest \notin Requests
  /\ Arrivals \subseteq Kinds

\* at: the handler.  answers: number of final responses to the request.
\* closed: command.result is closed.  tx: the 2xx of a re-INVITE and its ACK.
NoCommand == [kind |-> "", at |-> "idle", answers |-> 0, closed |-> FALSE,
              tx |-> "open"]

Init ==
  /\ pc = "routing" /\ parentDone = FALSE
  /\ state = "new" /\ actorUp = TRUE /\ late = <<>>
  /\ caller = "inviting" /\ callee = "none" /\ mapped = FALSE
  /\ media = "none"
  /\ commands = <<>> /\ cur = NoRequest /\ origin = "caller"
  /\ busy = FALSE /\ pending = NoRequest
  /\ req = [r \in Requests |-> NoCommand]
  /\ refused = FALSE

-----------------------------------------------------------------------------
(* session.transition and the actor behind it.                             *)

\* Transition returns nil.
Moves(to) ==
  /\ actorUp /\ late = <<>>
  /\ state = to \/ allowedTransition(state, to)
  /\ state' = to
  /\ actorUp' = ~isTerminal(to)
  /\ UNCHANGED late

\* Transition returns an error: the actor has exited, the move is not in the
\* table, or a context is done, and then the command may still be queued.
Refuses(to) ==
  /\ late' \in {late} \cup {l \in {Append(late, to)} :
                              actorUp /\ Len(late) < MailboxSize}
  /\ UNCHANGED <<state, actorUp>>

\* A transition whose result is ignored.
Tries(to) == Moves(to) \/ Refuses(to)

\* The actor reaches a command that nobody waits for any more.
LateApplied ==
  /\ actorUp /\ late # <<>>
  /\ state' = IF allowedTransition(state, Head(late)) THEN Head(late) ELSE state
  /\ actorUp' = ~isTerminal(state')
  /\ late' = IF actorUp' THEN Tail(late) ELSE <<>>
  /\ UNCHANGED <<pc, parentDone, legVars, media, commandVars, refused>>

\* The actor's context is done: it terminates the call, as far as the bus
\* accepts the events.
ActorExits ==
  /\ actorUp /\ (parentDone \/ pc = "join")
  /\ actorUp' = FALSE
  /\ state' \in {state, "terminating", "terminated"}
  /\ late' = <<>>
  /\ UNCHANGED <<pc, parentDone, legVars, media, commandVars, refused>>

-----------------------------------------------------------------------------
(* session.run up to the answer.                                           *)

\* A final response to the INVITE.  It is lost if the transport fails, and it
\* finds no transaction once sipgo has answered a CANCEL with 487.
Reject == caller' \in IF caller = "inviting" THEN {"rejected", "inviting"}
                                             ELSE {caller}

\* applyMediaAnswer succeeds: startMedia runs the session unless it already was.
MediaStarted == media' = IF media = "leased" THEN "running" ELSE media

StartRouting ==
  /\ pc = "routing"
  /\ \/ Moves("routing") /\ pc' = "trying"
     \/ Refuses("routing") /\ pc' = "join"
  /\ UNCHANGED <<parentDone, legVars, media, commandVars, refused>>

RespondTrying ==
  /\ pc = "trying"
  /\ pc' \in {"resolve", "fail"}
  /\ UNCHANGED <<parentDone, actorVars, legVars, media, commandVars, refused>>

\* Resolve the callee and parse the offer, or answer 404 or 488.
ResolveCallee ==
  /\ pc = "resolve"
  /\ \/ pc' = "lease" /\ UNCHANGED caller
     \/ pc' = "fail" /\ Reject
  /\ UNCHANGED <<parentDone, actorVars, callee, mapped, media, commandVars,
                 refused>>

\* Factory.New leases the ports, or 503.
LeaseMedia ==
  /\ pc = "lease"
  /\ \/ pc' = "offer" /\ media' = "leased" /\ UNCHANGED caller
     \/ pc' = "fail" /\ Reject /\ UNCHANGED media
  /\ UNCHANGED <<parentDone, actorVars, callee, mapped, commandVars,
                 refused>>

\* Build the callee's offer and createOutbound, or 500, 488 or 503.
SendInvite ==
  /\ pc = "offer"
  /\ \/ pc' = "waiting" /\ callee' = "invited" /\ UNCHANGED caller
     \/ pc' = "fail" /\ Reject /\ UNCHANGED callee
  /\ UNCHANGED <<parentDone, actorVars, mapped, media, commandVars, refused>>

\* OnResponse: 180, or 183 without SDP, is relayed after the transition.  Any
\* error ends WaitAnswer, without a response to the caller.
Ringing ==
  /\ pc = "waiting"
  /\ \/ Moves("ringing") /\ pc' \in {"waiting", "fail"}
     \/ Refuses("ringing") /\ pc' = "fail"
  /\ UNCHANGED <<parentDone, legVars, media, commandVars, refused>>

\* OnResponse: 183 with SDP negotiates and starts media, or 488.
EarlyAnswer ==
  /\ pc = "waiting"
  /\ \/ pc' = "early" /\ MediaStarted /\ UNCHANGED caller
     \/ pc' = "fail" /\ Reject /\ UNCHANGED media
  /\ UNCHANGED <<parentDone, actorVars, callee, mapped, commandVars,
                 refused>>

EarlyMedia ==
  /\ pc = "early"
  /\ \/ Moves("early_media") /\ pc' \in {"waiting", "fail"}
     \/ Refuses("early_media") /\ pc' = "fail"
  /\ UNCHANGED <<parentDone, legVars, media, commandVars, refused>>

\* WaitAnswer returns the callee's final response, which is relayed.
CalleeRefuses ==
  /\ pc = "waiting"
  /\ pc' = "fail" /\ callee' = "refused" /\ Reject
  /\ UNCHANGED <<parentDone, actorVars, mapped, media, commandVars, refused>>

\* The INVITE context is done: InviteTimeout, the caller's CANCEL or shutdown.
\* sipgo cancels the callee's leg; no response goes to the caller.
InviteEnds ==
  /\ pc = "waiting"
  /\ pc' = "fail" /\ callee' = "cancelled"
  /\ UNCHANGED <<parentDone, actorVars, caller, mapped, media, commandVars,
                 refused>>

CalleeAnswers ==
  /\ pc = "waiting"
  /\ pc' = "body" /\ callee' = "answered"
  /\ UNCHANGED <<parentDone, actorVars, caller, mapped, media, commandVars,
                 refused>>

\* The 200's body is negotiated, or is empty after an early answer; otherwise
\* the callee is acknowledged and released, and the caller gets 488.
UseAnswer ==
  /\ pc = "body"
  /\ \/ pc' = "ack" /\ MediaStarted /\ UNCHANGED <<caller, callee>>
     \/ pc' = "fail" /\ callee' = "bye" /\ Reject /\ UNCHANGED media
  /\ UNCHANGED <<parentDone, actorVars, mapped, commandVars, refused>>

\* outbound.Ack.  A failed ACK is answered with 503.
AckCallee ==
  /\ pc = "ack"
  /\ \/ pc' = "map" /\ callee' = "acked" /\ UNCHANGED caller
     \/ pc' = "fail" /\ Reject /\ UNCHANGED callee
  /\ UNCHANGED <<parentDone, actorVars, mapped, media, commandVars, refused>>

\* From here on the callee's requests find the session.
MapOutbound ==
  /\ pc = "map"
  /\ mapped' = TRUE
  /\ pc' = "answer"
  /\ UNCHANGED <<parentDone, actorVars, caller, callee, media, commandVars,
                 refused>>

\* Mutant: the transition's error is ignored.
AnswerUnchecked ==
  /\ pc = "answer"
  /\ Tries("answered") /\ pc' = "ok"
  /\ UNCHANGED <<parentDone, legVars, media, commandVars, refused>>

\* The call is answered before the caller hears of it.
Answer ==
  /\ pc = "answer"
  /\ \/ Moves("answered") /\ pc' = "ok" /\ UNCHANGED callee
     \/ Refuses("answered") /\ pc' = "join" /\ callee' = "bye"
  /\ UNCHANGED <<parentDone, caller, mapped, media, commandVars, refused>>

\* Mutant: a 200 that cannot be sent is only logged.
RespondOKUnchecked ==
  /\ pc = "ok"
  /\ pc' = "loop"
  /\ caller' = IF caller = "inviting" THEN "confirmed" ELSE caller
  /\ UNCHANGED <<parentDone, actorVars, callee, mapped, media, commandVars,
                 refused>>

\* The caller's 200 is sent and acknowledged; a CANCEL that came first, or the
\* transport, makes it fail.
RespondOK ==
  /\ pc = "ok"
  /\ \/ /\ caller = "inviting"
        /\ pc' = "loop" /\ caller' = "confirmed" /\ UNCHANGED callee
     \/ pc' = "terminate" /\ callee' = "bye" /\ UNCHANGED caller
  /\ UNCHANGED <<parentDone, actorVars, mapped, media, commandVars, refused>>

Setup ==
  \/ StartRouting \/ RespondTrying \/ ResolveCallee \/ LeaseMedia \/ SendInvite
  \/ Ringing \/ EarlyAnswer \/ EarlyMedia \/ CalleeRefuses \/ InviteEnds
  \/ CalleeAnswers \/ UseAnswer \/ AckCallee \/ MapOutbound \/ Answer
  \/ RespondOK

-----------------------------------------------------------------------------
(* The command loop, handleHangup and handleReInviteCommand.               *)

Hangup(who) == pc' = "hangup" /\ origin' = who

\* The commands case of the select.
TakeCommand ==
  /\ pc = "loop" /\ commands # <<>>
  /\ LET r == Head(commands)
     IN  \/ /\ req[r].kind \in ByeKinds
            /\ Hangup(IF req[r].kind = "callerBye" THEN "caller" ELSE "callee")
            /\ UNCHANGED cur
         \/ /\ req[r].kind \notin ByeKinds
            /\ pc' = IF req[r].kind \in ReInviteKinds THEN "reinvite" ELSE "relay"
            /\ cur' = r
            /\ UNCHANGED origin
  /\ commands' = Tail(commands)
  /\ UNCHANGED <<parentDone, actorVars, legVars, media, busy, pending, req,
                 refused>>

\* The parent.Done case.
ShutdownHangup ==
  /\ pc = "loop" /\ parentDone
  /\ Hangup("caller")
  /\ UNCHANGED <<parentDone, actorVars, legVars, media, commands, cur, busy,
                 pending, req, refused>>

\* The mediaResult case.
MediaHangup ==
  /\ pc = "loop" /\ media = "ended"
  /\ media' = "reaped"
  /\ Hangup("caller")
  /\ UNCHANGED <<parentDone, actorVars, legVars, commands, cur, busy,
                 pending, req, refused>>

\* handleHangup, up to its first transition: an error leaves both legs alone.
BeginHangup ==
  /\ pc = "hangup"
  /\ \/ Moves("terminating") /\ pc' = "bye" /\ UNCHANGED refused
     \/ Refuses("terminating") /\ pc' = "join" /\ refused' = TRUE
  /\ UNCHANGED <<parentDone, legVars, media, commandVars>>

\* Mutant: the BYE goes back to the leg that hung up.
SendByeBack ==
  /\ pc = "bye"
  /\ IF origin = "callee" THEN callee' = "bye" /\ UNCHANGED caller
                          ELSE caller' = "bye" /\ UNCHANGED callee
  /\ pc' = "finish"
  /\ UNCHANGED <<parentDone, actorVars, mapped, media, commandVars, refused>>

\* The leg that did not hang up is sent a BYE.
SendBye ==
  /\ pc = "bye"
  /\ IF origin = "caller" THEN callee' = "bye" /\ UNCHANGED caller
                          ELSE caller' = "bye" /\ UNCHANGED callee
  /\ pc' = "finish"
  /\ UNCHANGED <<parentDone, actorVars, mapped, media, commandVars, refused>>

\* The last transition of handleHangup, and terminate and fail.
EndCall ==
  /\ \/ pc = "fail" /\ Tries("failed") /\ pc' = "join"
     \/ pc = "terminate" /\ Tries("terminating") /\ pc' = "finish"
     \/ pc = "finish" /\ Tries("terminated") /\ pc' = "join"
  /\ UNCHANGED <<parentDone, legVars, media, commandVars, refused>>

\* handleCommand answers the request and closes command.result.
Finish ==
  /\ req' = [req EXCEPT ![cur].answers = @ + 1, ![cur].closed = TRUE]
  /\ cur' = NoRequest
  /\ pc' = "loop"

\* Mutant: only beginReInvite looks for a pending re-INVITE.
BeginReInviteUnchecked ==
  /\ pc = "reinvite"
  /\ pending' = NoRequest
  /\ \/ Finish
     \/ pc' = "do" /\ UNCHANGED <<req, cur>>
  /\ UNCHANGED <<parentDone, actorVars, legVars, media, commands, origin, busy,
                 refused>>

\* hasPendingReInvite: a pending re-INVITE whose ACK has come is completed here;
\* otherwise 491.  Then the offer is parsed (488) and relayed.
BeginReInvite ==
  /\ pc = "reinvite"
  /\ IF pending # NoRequest /\ req[pending].tx # "acked"
       THEN Finish /\ UNCHANGED pending
       ELSE /\ pending' = NoRequest
            /\ \/ Finish
               \/ pc' = "do" /\ UNCHANGED <<req, cur>>
  /\ UNCHANGED <<parentDone, actorVars, legVars, media, commands, origin, busy,
                 refused>>

\* outbound.Do, Ack and applyMediaAnswer: the first that fails is answered with
\* 408, the callee's status, 503 or 488.
RelayReInvite ==
  /\ pc = "do"
  /\ \/ Finish
     \/ pc' = "hold" /\ UNCHANGED <<req, cur>>
  /\ UNCHANGED <<parentDone, actorVars, legVars, media, commands, origin, busy,
                 pending, refused>>

\* The call follows the new direction; setPendingReInvite precedes the 200.
\* A transition that fails is answered with 500.
HoldOrResume ==
  /\ pc = "hold"
  /\ LET to == IF req[cur].kind = "hold" THEN "held" ELSE "answered"
     IN  \/ /\ Moves(to)
            /\ pending' = cur
            /\ req' = [req EXCEPT ![cur].answers = @ + 1, ![cur].closed = TRUE,
                                  ![cur].tx = "sent"]
            /\ cur' = NoRequest
            /\ pc' = "loop"
         \/ Refuses(to) /\ Finish /\ UNCHANGED pending
  /\ UNCHANGED <<parentDone, legVars, media, commands, origin, busy, refused>>

\* relayToCallee, relayToCaller and respondRelayed.
Relay ==
  /\ pc = "relay"
  /\ Finish
  /\ UNCHANGED <<parentDone, actorVars, legVars, media, commands, origin, busy,
                 pending, refused>>

Loop ==
  \/ TakeCommand \/ ShutdownHangup \/ MediaHangup \/ BeginHangup \/ SendBye
  \/ EndCall \/ BeginReInvite \/ RelayReInvite \/ HoldOrResume \/ Relay

-----------------------------------------------------------------------------
(* The deferred calls of session.run, and the media goroutine.             *)

\* cancelActor and <-actorResult, then completePendingReInvite.
JoinActor ==
  /\ pc = "join" /\ ~actorUp
  /\ pc' = "media"
  /\ pending' = NoRequest
  /\ UNCHANGED <<parentDone, actorVars, legVars, media, commands, cur, origin,
                 busy, req, refused>>

\* Mutant: stopMedia does not wait for Run.
StopMediaUnjoined ==
  /\ pc = "media"
  /\ pc' = "remove"
  /\ UNCHANGED <<parentDone, actorVars, legVars, media, commandVars, refused>>

\* stopMedia closes the session and waits for its Run, if that was started and
\* its result not yet received.
StopMedia ==
  /\ pc = "media" /\ media # "running"
  /\ media' = IF media = "none" THEN "none" ELSE "closed"
  /\ pc' = "remove"
  /\ UNCHANGED <<parentDone, actorVars, legVars, commandVars, refused>>

Remove ==
  /\ pc = "remove"
  /\ mapped' = FALSE
  /\ pc' = "removed"
  /\ UNCHANGED <<parentDone, actorVars, caller, callee, media, commandVars,
                 refused>>

CloseDone ==
  /\ pc = "removed"
  /\ pc' = "done"
  /\ UNCHANGED <<parentDone, actorVars, legVars, media, commandVars, refused>>

Unwind == JoinActor \/ StopMedia \/ Remove \/ CloseDone

\* Session.Run of the media returns: an I/O error, its context, or Close.
MediaRunReturns ==
  /\ media = "running"
  /\ media' = "ended"
  /\ UNCHANGED <<pc, parentDone, actorVars, legVars, commandVars, refused>>

-----------------------------------------------------------------------------
(* The handlers of in-dialog requests: handleBye, handleReInvite,          *)
(* handleRefer and handleNotify.                                           *)

FromCaller(kind) == kind \in {"callerBye", "hold", "resume", "refer"}

\* byInbound and byOutbound.
Found(kind) ==
  IF FromCaller(kind) THEN pc \notin {"removed", "done"} ELSE mapped

Answered(r, at) ==
  req' = [req EXCEPT ![r].answers = @ + 1, ![r].at = at]

\* A request arrives in an established dialog and its session is looked up, or
\* 481.  A BYE ends the dialog for the side that sends it.
RequestArrives(r, kind) ==
  /\ req[r].at = "idle"
  /\ IF FromCaller(kind) THEN caller = "confirmed" ELSE callee = "acked"
  /\ req' = [req EXCEPT ![r].kind = kind,
                        ![r].at = IF Found(kind) THEN "found" ELSE "over",
                        ![r].answers = IF Found(kind) THEN 0 ELSE 1]
  /\ caller' = IF kind = "callerBye" THEN "bye" ELSE caller
  /\ callee' = IF kind = "calleeBye" THEN "bye" ELSE callee
  /\ UNCHANGED <<pc, parentDone, actorVars, mapped, media, commands, cur,
                 origin, busy, pending, refused>>

\* ReadBye answers a BYE with 200.  A re-INVITE passes beginReInvite or gets 491.
\* ReadRequest and ReadBye may reject the request.
AdmitRequest(r) ==
  /\ req[r].at = "found"
  /\ CASE req[r].kind \in ByeKinds ->
            /\ Answered(r, "enqueue") \/ Answered(r, "over")
            /\ UNCHANGED busy
       [] req[r].kind \in ReInviteKinds /\ (busy \/ pending # NoRequest) ->
            Answered(r, "over") /\ UNCHANGED busy
       [] OTHER ->
            \/ /\ req' = [req EXCEPT ![r].at = "enqueue"]
               /\ busy' = (busy \/ req[r].kind \in ReInviteKinds)
            \/ Answered(r, "over") /\ UNCHANGED busy
  /\ UNCHANGED <<pc, parentDone, actorVars, legVars, media, commands, cur,
                 origin, pending, refused>>

\* enqueue: the command is queued, or dropped when the session is done or the
\* queue stays full for DispatchTimeout, which it cannot while the session is
\* in its select.  Only the handler of a BYE then ends.
Enqueue(r) ==
  /\ req[r].at = "enqueue"
  /\ \/ Len(commands) < MailboxSize /\ commands' = Append(commands, r)
     \/ pc = "done" /\ UNCHANGED commands
     \/ Len(commands) = MailboxSize /\ pc # "loop" /\ UNCHANGED commands
  /\ req' = [req EXCEPT ![r].at =
               IF req[r].kind \in ByeKinds THEN "over" ELSE "waiting"]
  /\ UNCHANGED <<pc, parentDone, actorVars, legVars, media, cur, origin, busy,
                 pending, refused>>

\* Mutant: a handler that finds the session done does not answer, and
\* finishReInvite is called only after a result.
HandlerReturnsSilently(r) ==
  /\ req[r].at = "waiting"
  /\ \/ /\ req[r].closed /\ req' = [req EXCEPT ![r].at = "over"]
        /\ busy' = (busy /\ req[r].kind \notin ReInviteKinds)
     \/ /\ req' = [req EXCEPT ![r].at = "over"]
        /\ UNCHANGED busy
  /\ UNCHANGED <<pc, parentDone, actorVars, legVars, media, commands, cur,
                 origin, pending, refused>>

\* enqueueAndWait ends with the result, or with 408 when the session is done or
\* InviteTimeout has passed.  finishReInvite is deferred.
HandlerReturns(r) ==
  /\ req[r].at = "waiting"
  /\ \/ req[r].closed /\ req' = [req EXCEPT ![r].at = "over"]
     \/ Answered(r, "over")
  /\ busy' = (busy /\ req[r].kind \notin ReInviteKinds)
  /\ UNCHANGED <<pc, parentDone, actorVars, legVars, media, commands, cur,
                 origin, pending, refused>>

\* The 2xx of a re-INVITE is acknowledged, or its transaction gives up.
TransactionEnds(r) ==
  /\ req[r].tx = "sent"
  /\ \E how \in {"acked", "gone"} : req' = [req EXCEPT ![r].tx = how]
  /\ UNCHANGED <<pc, parentDone, actorVars, legVars, media, commands, cur,
                 origin, busy, pending, refused>>

\* OnAck and watchPendingReInvite.
CompletePending(r) ==
  /\ pending = r /\ req[r].tx \in {"acked", "gone"}
  /\ pending' = NoRequest
  /\ UNCHANGED <<pc, parentDone, actorVars, legVars, media, commands, cur,
                 origin, busy, req, refused>>

Handler(r) ==
  AdmitRequest(r) \/ Enqueue(r) \/ HandlerReturns(r) \/ CompletePending(r)

\* The caller's CANCEL, which sipgo answers, together with the INVITE (487).
CallerCancels ==
  /\ caller = "inviting" /\ pc # "done"
  /\ caller' = "cancelled"
  /\ UNCHANGED <<pc, parentDone, actorVars, callee, mapped, media,
                 commandVars, refused>>

ProcessStops ==
  /\ ~parentDone
  /\ parentDone' = TRUE
  /\ UNCHANGED <<pc, actorVars, legVars, media, commandVars, refused>>

-----------------------------------------------------------------------------
Run == Setup \/ Loop \/ Unwind

Next ==
  \/ Run \/ LateApplied \/ ActorExits \/ MediaRunReturns
  \/ CallerCancels \/ ProcessStops
  \/ \E r \in Requests :
       \/ \E kind \in Arrivals : RequestArrives(r, kind)
       \/ Handler(r) \/ TransactionEnds(r)

Spec == Init /\ [][Next]_vars

\* The goroutines are scheduled and timers fire.  A done context stays done, so
\* its case of WaitAnswer's select is taken in the end, however many provisional
\* responses come.  Run of the media returns once it is closed (StopReturns in
\* MediaLoops); its context alone does not end it while packets keep coming.
FairSpec ==
  /\ Spec
  /\ WF_vars(Run) /\ SF_vars(InviteEnds)
  /\ WF_vars(LateApplied) /\ WF_vars(ActorExits)
  /\ WF_vars(pc = "media" /\ MediaRunReturns)
  /\ \A r \in Requests : WF_vars(Handler(r))

-----------------------------------------------------------------------------
(* Properties.                                                             *)

\* The caller hears 200 only when the call has been answered in the event log,
\* and no fail() queued by an earlier step of the setup undoes it later.
AnsweredBeforeOK ==
  caller \in {"confirmed", "bye"} =>
    state \in {"answered", "held", "terminating", "terminated"}

\* When the session is over, an acknowledged callee has been released, and so
\* has the caller if the callee hung up; unless the actor refused to terminate
\* the call, which makes handleHangup return before any BYE.
LegsReleased ==
  pc = "done" /\ ~refused =>
    callee # "acked" /\ (origin = "callee" => caller # "confirmed")

\* The session gives nothing up before what depends on it: when it leaves the
\* maps its actor has exited, its media is closed and no re-INVITE is pending,
\* and media in use belongs to a session still in the maps.
TeardownOrder ==
  /\ pc \in {"remove", "removed", "done"} =>
       ~actorUp /\ media \in {"none", "closed"} /\ pending = NoRequest
  /\ pc = "done" => ~mapped
  /\ media \in {"running", "ended"} => pc \notin {"remove", "removed", "done"}

\* A re-INVITE is relayed to the callee only when every earlier one that was
\* accepted has been acknowledged or given up: a second one before the ACK gets
\* 491, even if the handler of the first has already timed out.  And
\* reInviteBusy is held by exactly the handlers that will reset it.
ReInvitesSerial ==
  /\ pc \in {"do", "hold"} => \A r \in Requests : req[r].tx # "sent"
  /\ busy <=> \E r \in Requests : req[r].kind \in ReInviteKinds
                                   /\ req[r].at \in {"enqueue", "waiting"}

\* Every in-dialog request is answered by the time its handler is over.
RequestsAnswered ==
  \A r \in Requests : req[r].at = "over" => req[r].answers > 0

\* A cancelled INVITE, or the end of the process, ends the session: neither the
\* 200 that raced with the CANCEL nor a full bus keeps it.
CancelledSessionEnds == caller = "cancelled" \/ parentDone ~> pc = "done"

\* A BYE that was admitted ends the session: protocol-critical events are not
\* silently dropped (ADR-0002).  enqueue drops it when the queue stays full, so
\* this does not hold.
ByeEndsSession ==
  \A r \in Requests :
    (req[r].kind \in ByeKinds /\ req[r].at = "enqueue") ~> (pc = "done")

=============================================================================
