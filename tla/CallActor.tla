----------------------------- MODULE CallActor ------------------------------
(***************************************************************************)
(* One call actor (internal/core/call/actor.go), the goroutines that ask   *)
(* it for transitions, the bounded event bus it publishes to               *)
(* (internal/event/call_bus.go), and the MySQL writer behind the bus       *)
(* (WriteCallEvent of internal/platform/mysql/store.go).                   *)
(*                                                                         *)
(* A member of Requests is one call of Actor.Transition.  Go's select is   *)
(* the disjunction of its ready cases.  A deadline may pass at any moment, *)
(* so the case of an expiring context is enabled whenever the select is.   *)
(* Run takes one step for every effect that another goroutine can see: the *)
(* send to the bus, the new snapshot, the reply and the close of done are  *)
(* steps of their own, and readers may come in between.                    *)
(* Timestamps are abstracted to the sequence number of the publication     *)
(* they belong to, which has the same order; 0 is the zero time.           *)
(***************************************************************************)
EXTENDS CallStates, Naturals, Sequences, FiniteSets

CONSTANTS
  Requests,          \* calls of Actor.Transition
  Targets,           \* the states those calls ask for
  MailboxCapacity,   \* ActorConfig.MailboxCapacity
  BusCapacity        \* capacity of the CallBus channel

ASSUME TargetsAssumption == Targets \subseteq States \ {"new"}
ASSUME CapacityAssumption ==
  /\ MailboxCapacity \in Nat \ {0}
  /\ BusCapacity \in Nat \ {0}

VARIABLES
  pc,         \* where Actor.Run is
  state,      \* Call.State
  answeredAt, \* Call.AnsweredAt
  endedAt,    \* Call.EndedAt
  sequence,   \* Actor.sequence
  snapshot,   \* *Actor.snapshot
  inHand,     \* the event that apply is publishing
  mailbox,    \* Actor.mailbox
  cancelled,  \* cancelActor() was called by the session
  req,        \* per Transition call: where it is, what it asked, its result
  bus,        \* CallBus.events
  published,  \* every event Publish accepted, in order (history)
  writing,    \* the event CallBus.Run has taken and not stored, if any
  busRunning, \* CallBus.Run has not returned
  groupDone,  \* the errgroup context, parent of the actor's, is done
  rows,       \* table call_events, in insertion order
  cdr         \* the call's row of table calls

actorVars == <<pc, state, answeredAt, endedAt, sequence, snapshot, inHand>>
storeVars == <<writing, rows, cdr>>
vars == <<actorVars, mailbox, cancelled, req, bus, published, busRunning,
          groupDone, storeVars>>

-----------------------------------------------------------------------------
\* call.Event.  cmd stands for the fields copied from the command (LegID,
\* Reason, ProtocolEvent), which identify the Transition call.
Event(n, old, new, cmd) == [seq |-> n, old |-> old, new |-> new, cmd |-> cmd]

NoOne == "none"              \* published by Run itself, not for a command
NoEvent == Event(0, NoState, NoState, NoOne)
NoResult == "none"           \* the result channel is still empty
NoRow == [state |-> NoState, answeredAt |-> 0, endedAt |-> 0]

ASSUME RequestsAssumption == NoOne \notin Requests

Replies == {"ok", "invalid", "publish"}      \* what the actor sends back
CtxDone == cancelled \/ groupDone     \* actorCtx.Done()
done == pc = "exited"                 \* Actor.done is closed

Init ==
  /\ pc = "start"
  /\ state = "new"
  /\ answeredAt = 0 /\ endedAt = 0
  /\ sequence = 0
  /\ snapshot = [state |-> "new", answeredAt |-> 0, endedAt |-> 0]
  /\ inHand = NoEvent
  /\ mailbox = <<>>
  /\ cancelled = FALSE
  /\ req = [r \in Requests |->
              [at |-> "idle", to |-> NoState, result |-> NoResult,
               returned |-> NoResult]]
  /\ bus = <<>> /\ published = <<>>
  /\ busRunning = TRUE /\ groupDone = FALSE
  /\ writing = <<>> /\ rows = <<>> /\ cdr = NoRow

-----------------------------------------------------------------------------
(* CallBus.Publish and the two halves of Actor.apply around it.            *)

\* The send case of Publish: the channel has room.
Send(e) ==
  /\ Len(bus) < BusCapacity
  /\ bus' = Append(bus, e)
  /\ published' = Append(published, e)

\* apply up to the blocking Publish: the call is changed before the event is
\* accepted, and publish has already consumed a sequence number.
BeginApply(by, to) ==
  /\ state' = to
  /\ answeredAt' = IF to = "answered" THEN sequence + 1 ELSE answeredAt
  /\ endedAt' = IF isTerminal(to) THEN sequence + 1 ELSE endedAt
  /\ sequence' = sequence + 1
  /\ inHand' = Event(sequence + 1, state, to, by)

storeSnapshot ==
  snapshot' = [state |-> state, answeredAt |-> answeredAt, endedAt |-> endedAt]

\* Mutant: nothing is put back.
NotRolledBack ==
  /\ inHand' = NoEvent
  /\ UNCHANGED <<state, answeredAt, endedAt, sequence, snapshot, bus, published>>

\* apply after a Publish that gave up: only State is put back.
RolledBack ==
  /\ state' = inHand.old
  /\ inHand' = NoEvent
  /\ UNCHANGED <<answeredAt, endedAt, sequence, snapshot, bus, published>>

Reply(r, result) == req' = [req EXCEPT ![r].result = result]

-----------------------------------------------------------------------------
(* Actor.Run.                                                              *)

RunStarts ==
  /\ pc = "start"
  /\ sequence' = sequence + 1
  /\ inHand' = Event(sequence + 1, state, NoState, NoOne)
  /\ pc' = "created"
  /\ UNCHANGED <<state, answeredAt, endedAt, snapshot, mailbox, cancelled, req,
                 bus, published, busRunning, groupDone, storeVars>>

CreatedPublished ==
  /\ pc = "created"
  /\ Send(inHand)
  /\ inHand' = NoEvent
  /\ pc' = "loop"
  /\ UNCHANGED <<state, answeredAt, endedAt, sequence, snapshot, mailbox,
                 cancelled, req, busRunning, groupDone, storeVars>>

CreatedCancelled ==
  /\ pc = "created" /\ CtxDone
  /\ inHand' = NoEvent
  /\ pc' = "closing"
  /\ UNCHANGED <<state, answeredAt, endedAt, sequence, snapshot, mailbox,
                 cancelled, req, bus, published, busRunning, groupDone,
                 storeVars>>

\* The mailbox case of the loop, when apply returns without publishing.
CommandAnswered ==
  /\ pc = "loop" /\ mailbox # <<>>
  /\ LET r == Head(mailbox)
     IN  \/ /\ req[r].to = state
            /\ Reply(r, "ok")
         \/ /\ req[r].to # state /\ ~allowedTransition(state, req[r].to)
            /\ Reply(r, "invalid")
  /\ mailbox' = Tail(mailbox)
  /\ UNCHANGED <<actorVars, cancelled, bus, published, busRunning, groupDone,
                 storeVars>>

\* Mutant: the snapshot is refreshed before the event is accepted.
CommandAppliesShown ==
  /\ pc = "loop" /\ mailbox # <<>>
  /\ allowedTransition(state, req[Head(mailbox)].to)
  /\ BeginApply(Head(mailbox), req[Head(mailbox)].to)
  /\ snapshot' = [state |-> state', answeredAt |-> answeredAt', endedAt |-> endedAt']
  /\ mailbox' = Tail(mailbox)
  /\ pc' = "apply"
  /\ UNCHANGED <<cancelled, req, bus, published, busRunning, groupDone, storeVars>>

CommandApplies ==
  /\ pc = "loop" /\ mailbox # <<>>
  /\ allowedTransition(state, req[Head(mailbox)].to)
  /\ BeginApply(Head(mailbox), req[Head(mailbox)].to)
  /\ mailbox' = Tail(mailbox)
  /\ pc' = "apply"
  /\ UNCHANGED <<snapshot, cancelled, req, bus, published, busRunning,
                 groupDone, storeVars>>

\* Mutant: an accepted event is offered to the bus once more.
CommandPublishedAgain ==
  /\ pc = "apply"
  /\ Send(inHand)
  /\ UNCHANGED <<actorVars, mailbox, cancelled, req, busRunning, groupDone,
                 storeVars>>

\* Mutant: the caller is told before the snapshot is refreshed.
CommandToldEarly ==
  /\ pc = "apply"
  /\ Send(inHand)
  /\ Reply(inHand.cmd, "ok")
  /\ pc' = "store"
  /\ UNCHANGED <<state, answeredAt, endedAt, sequence, snapshot, inHand,
                 mailbox, cancelled, busRunning, groupDone, storeVars>>

\* Publish returns nil.  The event can be read and stored from now on, while
\* the snapshot still shows the call before it.
CommandPublished ==
  /\ pc = "apply"
  /\ Send(inHand)
  /\ pc' = "store"
  /\ UNCHANGED <<state, answeredAt, endedAt, sequence, snapshot, inHand,
                 mailbox, cancelled, req, busRunning, groupDone, storeVars>>

\* apply has returned nil: the caller is told, and a terminal state ends Run.
CommandReplied ==
  /\ pc = "reply"
  /\ Reply(inHand.cmd, "ok")
  /\ inHand' = NoEvent
  /\ pc' = IF isTerminal(state) THEN "closing" ELSE "loop"
  /\ UNCHANGED <<state, answeredAt, endedAt, sequence, snapshot, mailbox,
                 cancelled, bus, published, busRunning, groupDone, storeVars>>

\* Mutant: the publish error is swallowed.
CommandCancelledUnreported ==
  /\ pc = "apply" /\ CtxDone
  /\ RolledBack
  /\ Reply(inHand.cmd, "ok")
  /\ pc' = "loop"
  /\ UNCHANGED <<mailbox, cancelled, busRunning, groupDone, storeVars>>

CommandCancelled ==
  /\ pc = "apply" /\ CtxDone
  /\ RolledBack
  /\ Reply(inHand.cmd, "publish")
  /\ pc' = "loop"
  /\ UNCHANGED <<mailbox, cancelled, busRunning, groupDone, storeVars>>

\* The ctx.Done case of the loop: terminating, then terminated, both under
\* one fresh one-second context that outlives the cancelled one.
ShutdownStarts ==
  /\ pc = "loop" /\ CtxDone
  /\ pc' = "shutdown"
  /\ UNCHANGED <<state, answeredAt, endedAt, sequence, snapshot, inHand,
                 mailbox, cancelled, req, bus, published, busRunning,
                 groupDone, storeVars>>

ShutdownApplies ==
  /\ pc = "shutdown"
  /\ BeginApply(NoOne, IF state = "terminating" THEN "terminated"
                                                ELSE "terminating")
  /\ pc' = "shutdownApply"
  /\ UNCHANGED <<snapshot, mailbox, cancelled, req, bus, published, busRunning,
                 groupDone, storeVars>>

ShutdownPublished ==
  /\ pc = "shutdownApply"
  /\ Send(inHand)
  /\ pc' = "shutdownStore"
  /\ UNCHANGED <<state, answeredAt, endedAt, sequence, snapshot, inHand,
                 mailbox, cancelled, req, busRunning, groupDone, storeVars>>

\* Mutant: the shutdown context has no deadline.
ShutdownNeverExpires ==
  /\ pc = "shutdownApply" /\ inHand = NoEvent
  /\ UNCHANGED vars

ShutdownExpires ==
  /\ pc = "shutdownApply"
  /\ RolledBack
  /\ pc' = "closing"
  /\ UNCHANGED <<mailbox, cancelled, req, busRunning, groupDone, storeVars>>

\* apply after an accepted Publish, for a command or in the shutdown branch.
SnapshotStored ==
  /\ storeSnapshot
  /\ \/ pc = "store" /\ pc' = "reply" /\ UNCHANGED inHand
     \/ /\ pc = "shutdownStore" /\ inHand' = NoEvent
        /\ pc' = IF isTerminal(state) THEN "closing" ELSE "shutdown"
  /\ UNCHANGED <<state, answeredAt, endedAt, sequence, mailbox, cancelled, req,
                 bus, published, busRunning, groupDone, storeVars>>

\* The deferred close(a.done).
RunReturns ==
  /\ pc = "closing"
  /\ pc' = "exited"
  /\ UNCHANGED <<state, answeredAt, endedAt, sequence, snapshot, inHand,
                 mailbox, cancelled, req, bus, published, busRunning,
                 groupDone, storeVars>>

ActorRun ==
  \/ RunStarts \/ CreatedPublished \/ CreatedCancelled
  \/ CommandAnswered \/ CommandApplies \/ CommandPublished \/ CommandCancelled
  \/ ShutdownStarts \/ ShutdownApplies \/ ShutdownPublished \/ ShutdownExpires
  \/ SnapshotStored \/ CommandReplied \/ RunReturns

-----------------------------------------------------------------------------
(* Actor.Transition.                                                       *)

Return(r, value) ==
  req' = [req EXCEPT ![r].at = "returned", ![r].returned = value]

TransitionCalled(r, to) ==
  /\ req[r].at = "idle"
  /\ req' = [req EXCEPT ![r].at = "sending", ![r].to = to]
  /\ UNCHANGED <<actorVars, mailbox, cancelled, bus, published, busRunning,
                 groupDone, storeVars>>

\* First select: the mailbox has room (even if the actor has exited).
CommandSent(r) ==
  /\ req[r].at = "sending" /\ Len(mailbox) < MailboxCapacity
  /\ mailbox' = Append(mailbox, r)
  /\ req' = [req EXCEPT ![r].at = "waiting"]
  /\ UNCHANGED <<actorVars, cancelled, bus, published, busRunning, groupDone,
                 storeVars>>

\* Second select: the buffered result has arrived.
ResultReceived(r) ==
  /\ req[r].at = "waiting" /\ req[r].result # NoResult
  /\ Return(r, req[r].result)
  /\ UNCHANGED <<actorVars, mailbox, cancelled, bus, published, busRunning,
                 groupDone, storeVars>>

\* Mutant: only the first select watches done.
ActorClosedOnSend(r) ==
  /\ req[r].at = "sending" /\ done
  /\ Return(r, "closed")
  /\ UNCHANGED <<actorVars, mailbox, cancelled, bus, published, busRunning,
                 groupDone, storeVars>>

\* Either select: done is closed, or the caller's context has expired.
ActorClosed(r) ==
  /\ req[r].at \in {"sending", "waiting"} /\ done
  /\ Return(r, "closed")
  /\ UNCHANGED <<actorVars, mailbox, cancelled, bus, published, busRunning,
                 groupDone, storeVars>>

DispatchExpires(r) ==
  /\ req[r].at \in {"sending", "waiting"}
  /\ Return(r, "ctx")
  /\ UNCHANGED <<actorVars, mailbox, cancelled, bus, published, busRunning,
                 groupDone, storeVars>>

TransitionRuns(r) == CommandSent(r) \/ ResultReceived(r) \/ ActorClosed(r)

-----------------------------------------------------------------------------
(* CallBus.Run with Store.WriteCallEvent, and the contexts above them.     *)

\* Mutant: answered_at is filled in whatever the new state is.
UpsertAnyAnswer(row, e) ==
  [state      |-> e.new,
   answeredAt |-> IF row.answeredAt # 0 THEN row.answeredAt ELSE e.seq,
   endedAt    |-> IF isTerminal(e.new) THEN e.seq ELSE row.endedAt]

\* INSERT INTO calls ... ON DUPLICATE KEY UPDATE.
Upsert(row, e) ==
  [state      |-> e.new,
   answeredAt |-> IF row.answeredAt # 0 \/ e.new # "answered"
                    THEN row.answeredAt ELSE e.seq,
   endedAt    |-> IF isTerminal(e.new) THEN e.seq ELSE row.endedAt]

\* The events case of the select: the queue has room again, and the event is
\* neither queued nor stored until its transaction ends.
EventReceived ==
  /\ busRunning /\ writing = <<>> /\ bus # <<>>
  /\ writing' = <<Head(bus)>>
  /\ bus' = Tail(bus)
  /\ UNCHANGED <<actorVars, mailbox, cancelled, req, published, busRunning,
                 groupDone, rows, cdr>>

\* One transaction: both statements commit.  It needs a live context.
EventWritten ==
  /\ busRunning /\ writing # <<>> /\ ~groupDone
  /\ rows' = Append(rows, Head(writing))
  /\ cdr' = Upsert(cdr, Head(writing))
  /\ writing' = <<>>
  /\ UNCHANGED <<actorVars, mailbox, cancelled, req, bus, published,
                 busRunning, groupDone>>

\* Mutant: the error is logged and the loop goes on.
WriteFailsSilently ==
  /\ busRunning /\ writing # <<>>
  /\ writing' = <<>>
  /\ UNCHANGED <<actorVars, mailbox, cancelled, req, bus, published,
                 busRunning, groupDone, rows, cdr>>

\* The transaction fails: Run returns the error, errgroup cancels the group.
WriteFails ==
  /\ busRunning /\ writing # <<>>
  /\ writing' = <<>>
  /\ busRunning' = FALSE
  /\ groupDone' = TRUE
  /\ UNCHANGED <<actorVars, mailbox, cancelled, req, bus, published, rows, cdr>>

\* The ctx.Done case: Run returns without draining the queue.
BusStops ==
  /\ busRunning /\ writing = <<>> /\ groupDone
  /\ busRunning' = FALSE
  /\ UNCHANGED <<actorVars, mailbox, cancelled, req, bus, published, groupDone,
                 storeVars>>

BusRun == EventReceived \/ EventWritten \/ WriteFails \/ BusStops

\* A signal, or another member of the errgroup returning.
GroupCancelled ==
  /\ ~groupDone
  /\ groupDone' = TRUE
  /\ UNCHANGED <<actorVars, mailbox, cancelled, req, bus, published,
                 busRunning, storeVars>>

\* The deferred cancelActor() of the session that owns the actor.
cancelActor ==
  /\ ~cancelled
  /\ cancelled' = TRUE
  /\ UNCHANGED <<actorVars, mailbox, req, bus, published, busRunning,
                 groupDone, storeVars>>

-----------------------------------------------------------------------------
Next ==
  \/ ActorRun \/ BusRun \/ GroupCancelled \/ cancelActor
  \/ \E r \in Requests :
       \/ \E to \in Targets : TransitionCalled(r, to)
       \/ TransitionRuns(r)
       \/ DispatchExpires(r)

Spec == Init /\ [][Next]_vars

\* Every goroutine that can run is eventually scheduled.  Nothing is assumed
\* of the callers' deadlines, of the group or of cancelActor.
Fairness ==
  /\ WF_vars(ActorRun)
  /\ WF_vars(BusRun)
  /\ \A r \in Requests : WF_vars(TransitionRuns(r))

FairSpec == Spec /\ Fairness
-----------------------------------------------------------------------------
(* Properties.                                                             *)

Events == [seq : Nat, old : States \cup {NoState}, new : States \cup {NoState},
           cmd : Requests \cup {NoOne}]
Stamped(S) == [state : S, answeredAt : Nat, endedAt : Nat]

Calls == [at : {"idle", "sending", "waiting", "returned"},
          to : Targets \cup {NoState},
          result : Replies \cup {NoResult},
          returned : Replies \cup {NoResult, "closed", "ctx"}]

ActorTypeOK ==
  /\ pc \in {"start", "created", "loop", "apply", "store", "reply", "shutdown",
             "shutdownApply", "shutdownStore", "closing", "exited"}
  /\ state \in States
  /\ answeredAt \in Nat /\ endedAt \in Nat /\ sequence \in Nat
  /\ snapshot \in Stamped(States)
  /\ inHand \in Events
CallsTypeOK == mailbox \in Seq(Requests) /\ req \in [Requests -> Calls]
FlagsTypeOK == cancelled \in BOOLEAN /\ busRunning \in BOOLEAN /\ groupDone \in BOOLEAN
LogTypeOK ==
  /\ bus \in Seq(Events) /\ published \in Seq(Events) /\ rows \in Seq(Events)
  /\ writing \in Seq(Events) /\ Len(writing) <= 1
  /\ cdr \in Stamped(States \cup {NoState})

\* Every variable has the shape of the Go value it stands for.
TypeOK == ActorTypeOK /\ CallsTypeOK /\ FlagsTypeOK /\ LogTypeOK

\* The state a reader of the event log believes the call to be in.
StateAfter(log) == IF Len(log) <= 1 THEN "new" ELSE log[Len(log)].new

\* The accepted events are one path of the transition table, each starting
\* where the previous one ended, with increasing sequence numbers: a Publish
\* that gave up and was rolled back leaves no trace but a gap in the numbers.
EventsFormPath ==
  \A i \in 1..Len(published) :
    IF i = 1 THEN published[i].old = "new" /\ published[i].new = NoState
    ELSE /\ published[i].seq > published[i-1].seq
         /\ published[i].old = IF i = 2 THEN "new" ELSE published[i-1].new
         /\ allowedTransition(published[i].old, published[i].new)

\* Time t is not contradicted by event e: it is not older than e if e entered
\* a state of S, and it is not the time of e if e entered another state.
TimeFits(t, e, S) ==
  /\ e.new \in S => e.seq <= t
  /\ e.seq = t => e.new \in S

\* shot is the call after the first k events of log.  Each of its times is that
\* of the newest of them that entered such a state, or of a later attempt to,
\* which Publish gave up and apply rolled back in State only.
Shows(shot, log, k) ==
  /\ shot.state = IF k <= 1 THEN "new" ELSE log[k].new
  /\ \A i \in 1..k :
       /\ TimeFits(shot.answeredAt, log[i], {"answered"})
       /\ TimeFits(shot.endedAt, log[i], {s \in States : isTerminal(s)})

\* What Snapshot() returns is the call after the whole event log, or after all
\* of it but the newest event, which a reader of the bus or of MySQL may thus
\* see first.  A caller that was told nil for its event finds it in the
\* snapshot, and once done is closed the snapshot shows the whole log.
SnapshotMatchesLog ==
  \E k \in 0..Len(published) :
    /\ Shows(snapshot, published, k)
    /\ k >= Len(published) - 1
    /\ done => k = Len(published)
    /\ \A r \in Requests : req[r].returned = "ok" =>
         \A i \in (k+1)..Len(published) : published[i].cmd # r

\* One command is never applied twice, whatever its caller was told.
CommandsApplyOnce ==
  \A i, j \in 1..Len(published) :
    i # j /\ published[i].cmd = published[j].cmd => published[i].cmd = NoOne

\* The verdict of Transition is true: nil means the requested state is in the
\* log, an error of the actor means the command left no event.
VerdictIsTrue ==
  \A r \in Requests :
    /\ req[r].returned = "ok" =>
         \E i \in 1..Len(published) : published[i].new = req[r].to
    /\ req[r].returned \in {"invalid", "publish"} =>
         \A i \in 1..Len(published) : published[i].cmd # r

\* What MySQL holds at any moment (so also after a crash of the process) is a
\* gapless prefix of the accepted events, and while the consumer runs the rest
\* of them is in its hands or still queued, in order.
RowsArePrefix ==
  /\ Len(rows) <= Len(published)
  /\ \A i \in 1..Len(rows) : rows[i] = published[i]
  /\ busRunning => published = rows \o writing \o bus

\* The CDR summarises exactly the stored rows: last state, time of the first
\* answer, time of the end.
CdrSummarisesRows ==
  /\ rows # <<>> => cdr.state = rows[Len(rows)].new
  /\ IF cdr.answeredAt = 0
       THEN \A i \in 1..Len(rows) : rows[i].new # "answered"
       ELSE \E i \in 1..Len(rows) :
              /\ rows[i].new = "answered" /\ rows[i].seq = cdr.answeredAt
              /\ \A j \in 1..(i-1) : rows[j].new # "answered"
  /\ IF cdr.endedAt = 0
       THEN \A i \in 1..Len(rows) : ~isTerminal(rows[i].new)
       ELSE \E i \in 1..Len(rows) :
              isTerminal(rows[i].new) /\ rows[i].seq = cdr.endedAt

\* An actor that announced its call does not exit before it has published the
\* terminal state (ADR-0002).  A full bus makes the shutdown branch give up, so
\* this does not hold.
TerminalStatePublished ==
  done /\ published # <<>> => isTerminal(StateAfter(published))

\* The actor implements the abstract lifecycle of CallLifecycle.
Lifecycle == INSTANCE CallLifecycle WITH visible <- snapshot.state,
                                         log <- published, stored <- rows
LifecycleSpec == Lifecycle!LSpec

\* Every call of Transition returns, even if its own context never expires:
\* the actor answers it or closes done, also when the writer fails.
TransitionsReturn ==
  \A r \in Requests :
    (req[r].at \in {"sending", "waiting"}) ~> (req[r].at = "returned")

\* A cancelled actor exits, so the session's <-actorResult does not hang, even
\* when the bus is full and its consumer has stopped.
CancelledActorExits == CtxDone ~> done

\* Every accepted event is stored, unless the consumer stops first.
EventsAreStored ==
  \A n \in 1..(Cardinality(Requests) + 3) :
    (Len(published) >= n) ~> (Len(rows) >= n \/ ~busRunning)

=============================================================================
