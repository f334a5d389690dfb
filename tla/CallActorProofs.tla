--------------------------- MODULE CallActorProofs --------------------------
(***************************************************************************)
(* What holds of CallActor for every set of Transition calls and every     *)
(* capacity of the mailbox and the bus: of the call, its event log and its *)
(* snapshot; of the rows that MySQL keeps of the log; that the actor       *)
(* implements CallLifecycle; and of the answers that callers get.          *)
(***************************************************************************)
EXTENDS CallActor, TLAPS

\* An event waits for the bus; it was accepted, and apply is not finished; the
\* snapshot is not refreshed yet.
Publishing == pc \in {"apply", "shutdownApply"}
Settling == pc \in {"store", "reply", "shutdownStore"}
Lagging == pc \in {"store", "shutdownStore"}

\* Commands in the mailbox name a state their caller asked for.
MailboxOK == \A i \in 1..Len(mailbox) : req[mailbox[i]].to \in Targets

\* A call that is being sent names one too.
SendingOK == \A r \in Requests : req[r].at = "sending" => req[r].to \in Targets

\* Between publications the call is where the log says; while an event waits
\* for the bus, the call is already one allowed step ahead of the log.
CallFollowsLog ==
  /\ ~Publishing => state = StateAfter(published)
  /\ Publishing =>
       /\ published # <<>>
       /\ inHand.seq = sequence
       /\ inHand.old = StateAfter(published) /\ inHand.new = state
       /\ allowedTransition(inHand.old, inHand.new)
  /\ Settling =>
       Len(published) >= 2 /\ inHand = published[Len(published)]
  /\ pc \in {"apply", "store", "reply"} => inHand.cmd \in Requests
  /\ pc \in {"loop", "shutdown"} => published # <<>> /\ ~isTerminal(state)
  /\ pc \in {"start", "created"} => published = <<>>
  /\ pc = "created" =>
       inHand.old = "new" /\ inHand.new = NoState /\ inHand.seq = sequence

\* Sequence numbers in the log are below the next one to be accepted.
SequenceOK ==
  \A i \in 1..Len(published) :
    /\ published[i].seq <= sequence
    /\ Publishing => published[i].seq < sequence

IInv ==
  /\ TypeOK /\ MailboxOK /\ SendingOK
  /\ CallFollowsLog /\ SequenceOK
  /\ EventsFormPath

-----------------------------------------------------------------------------
\* The transition table leads from states to states, and never out of a
\* terminal one.
LEMMA SuccessorsOK ==
  ASSUME NEW from \in States, NEW to, allowedTransition(from, to)
  PROVE  to \in States /\ ~isTerminal(from)
  BY Zenon DEF States, allowedTransition, isTerminal

\* Shutdown may always move on: every state that is not terminal allows
\* terminating, and terminating allows terminated.
LEMMA ShutdownAllowed ==
  ASSUME NEW from \in States, ~isTerminal(from)
  PROVE  allowedTransition(from, IF from = "terminating" THEN "terminated"
                                                         ELSE "terminating")
  BY DEF States, allowedTransition, isTerminal

\* What one accepted event does to the log.
LEMMA AppendLog ==
  ASSUME NEW log \in Seq(Events), NEW e \in Events
  PROVE  /\ Append(log, e) \in Seq(Events)
         /\ Len(Append(log, e)) = Len(log) + 1
         /\ Append(log, e) # <<>>
         /\ Append(log, e)[Len(log) + 1] = e
         /\ \A i \in 1..Len(log) : Append(log, e)[i] = log[i]
         /\ StateAfter(Append(log, e)) = IF log = <<>> THEN "new" ELSE e.new
  BY DEF StateAfter

\* An event that continues the log keeps it a path.
LEMMA PathExtends ==
  ASSUME TypeOK, EventsFormPath, NEW e \in Events,
         published' = Append(published, e),
         IF published = <<>>
           THEN e.old = "new" /\ e.new = NoState
           ELSE /\ e.seq > published[Len(published)].seq
                /\ e.old = StateAfter(published)
                /\ allowedTransition(e.old, e.new)
  PROVE  EventsFormPath'
<1> DEFINE n == Len(published)
<1>0. published \in Seq(Events)
  BY DEF TypeOK, LogTypeOK
<1>1. /\ Len(published') = n + 1 /\ published'[n + 1] = e
      /\ \A i \in 1..n : published'[i] = published[i]
  BY <1>0, AppendLog
<1>2. n \in Nat /\ (published = <<>> <=> n = 0)
  BY <1>0
<1> SUFFICES ASSUME NEW i \in 1..(n + 1)
             PROVE  IF i = 1 THEN published'[i].old = "new" /\ published'[i].new = NoState
                    ELSE /\ published'[i].seq > published'[i-1].seq
                         /\ published'[i].old = IF i = 2 THEN "new" ELSE published'[i-1].new
                         /\ allowedTransition(published'[i].old, published'[i].new)
  BY <1>1 DEF EventsFormPath
<1>3. CASE i \in 1..n
  BY <1>1, <1>2, <1>3 DEF EventsFormPath
<1>4. CASE i = n + 1
  BY <1>1, <1>2, <1>4 DEF StateAfter
<1> QED
  BY <1>2, <1>3, <1>4

\* Initially nothing is published and the call is new.
LEMMA InitOK == Init => IInv
<1> SUFFICES ASSUME Init PROVE IInv
  OBVIOUS
<1>1. TypeOK
  <2>1. ActorTypeOK
    BY DEF Init, ActorTypeOK, Events, Stamped, NoEvent, Event, States
  <2>2. CallsTypeOK
    BY DEF Init, CallsTypeOK, Calls
  <2>3. FlagsTypeOK
    BY Zenon DEF Init, FlagsTypeOK
  <2>4. LogTypeOK
    BY DEF Init, LogTypeOK, NoRow, Stamped
  <2> QED
    BY <2>1, <2>2, <2>3, <2>4 DEF TypeOK
<1>2. /\ MailboxOK /\ SendingOK /\ CallFollowsLog /\ SequenceOK
      /\ EventsFormPath
  BY DEF Init, MailboxOK, SendingOK, CallFollowsLog, SequenceOK, EventsFormPath,
         StateAfter, Publishing, Settling
<1> QED
  BY <1>1, <1>2 DEF IInv

-----------------------------------------------------------------------------
\* Steps of other goroutines leave the actor and the log alone.
LEMMA ActorFrame ==
  ASSUME IInv, UNCHANGED <<actorVars, published>>
  PROVE  /\ ActorTypeOK' /\ CallFollowsLog' /\ SequenceOK'
         /\ EventsFormPath'
<1>1. ActorTypeOK'
  BY DEF IInv, TypeOK, ActorTypeOK, actorVars
<1>2. CallFollowsLog' /\ SequenceOK'
  BY DEF IInv, CallFollowsLog, SequenceOK, Publishing, Settling, StateAfter, actorVars
<1>3. EventsFormPath'
  BY DEF IInv, EventsFormPath
<1> QED
  BY <1>1, <1>2, <1>3

\* A step that leaves mailbox and req alone keeps what is said of them.
LEMMA MailboxFrame ==
  ASSUME IInv, UNCHANGED <<mailbox, req>>
  PROVE  CallsTypeOK' /\ MailboxOK' /\ SendingOK'
  BY DEF IInv, TypeOK, CallsTypeOK, MailboxOK, SendingOK

\* Answering or returning to a caller does not change what it asked for.
LEMMA ReplyOK ==
  ASSUME IInv, NEW r \in Requests, NEW result \in Replies, Reply(r, result)
  PROVE  /\ req' \in [Requests -> Calls]
         /\ \A q \in Requests : req'[q].to = req[q].to /\ req'[q].at = req[q].at
         /\ SendingOK'
<1>0. req \in [Requests -> Calls] /\ SendingOK
  BY DEF IInv, TypeOK, CallsTypeOK
<1>1. req' \in [Requests -> Calls]
  BY <1>0 DEF Calls, Reply
<1>2. \A q \in Requests : req'[q].to = req[q].to /\ req'[q].at = req[q].at
  BY <1>0 DEF Calls, Reply
<1> QED
  BY <1>0, <1>1, <1>2 DEF SendingOK

\* The head of a non-empty mailbox is a call with a target; the tail keeps that.
LEMMA TakeOK ==
  ASSUME IInv, mailbox # <<>>
  PROVE  /\ Head(mailbox) \in Requests /\ req[Head(mailbox)].to \in Targets
         /\ Tail(mailbox) \in Seq(Requests)
         /\ \A i \in 1..Len(Tail(mailbox)) : req[Tail(mailbox)[i]].to \in Targets
  BY DEF IInv, TypeOK, CallsTypeOK, MailboxOK

-----------------------------------------------------------------------------
\* Steps of the callers of Transition keep the invariant.
LEMMA CallerStep ==
  ASSUME IInv, NEW r \in Requests,
         (\E to \in Targets : TransitionCalled(r, to)) \/ TransitionRuns(r)
           \/ DispatchExpires(r)
  PROVE  IInv'
<1>0. r \in DOMAIN req /\ req[r] \in Calls /\ mailbox \in Seq(Requests)
  BY DEF IInv, TypeOK, CallsTypeOK
<1>1. UNCHANGED <<actorVars, published, bus, writing, rows, cdr, cancelled,
                  busRunning, groupDone>>
  BY DEF TransitionCalled, TransitionRuns, CommandSent, ResultReceived,
         ActorClosed, DispatchExpires, storeVars
<1>2. LogTypeOK' /\ FlagsTypeOK'
  BY <1>1 DEF IInv, TypeOK, LogTypeOK, FlagsTypeOK
<1>3. CallsTypeOK' /\ MailboxOK' /\ SendingOK'
  <2>1. CASE \E to \in Targets : TransitionCalled(r, to)
    <3> PICK to \in Targets : TransitionCalled(r, to)
      BY <2>1
    <3>1. req' \in [Requests -> Calls] /\ mailbox' = mailbox
      BY <1>0, Zenon DEF IInv, TypeOK, CallsTypeOK, Calls, TransitionCalled
    <3>2. \A q \in Requests : IF q = r THEN req'[q].to = to ELSE req'[q] = req[q]
      BY <1>0, Zenon DEF IInv, TypeOK, CallsTypeOK, Calls, TransitionCalled
    <3> QED
      BY <1>0, <3>1, <3>2 DEF IInv, CallsTypeOK, MailboxOK, SendingOK
  <2>2. CASE CommandSent(r)
    <3> DEFINE mb == Append(mailbox, r)
    <3>0. mailbox' = mb
      BY <2>2 DEF CommandSent
    <3>1. req' \in [Requests -> Calls] /\ mb \in Seq(Requests)
      BY <1>0, <2>2 DEF IInv, TypeOK, CallsTypeOK, Calls, CommandSent
    <3>2. \A q \in Requests : /\ req'[q].to = req[q].to
                              /\ req'[q].at = "sending" => req[q].at = "sending"
      BY <1>0, <2>2 DEF IInv, TypeOK, CallsTypeOK, Calls, CommandSent
    <3>3. req[r].to \in Targets
      BY <2>2 DEF CommandSent, IInv, SendingOK
    <3> QED
      BY <1>0, <3>0, <3>1, <3>2, <3>3 DEF IInv, CallsTypeOK, MailboxOK, SendingOK
  <2>3. CASE ResultReceived(r) \/ ActorClosed(r) \/ DispatchExpires(r)
    <3>1. PICK value \in Replies \cup {NoResult, "closed", "ctx"} : Return(r, value)
      BY <1>0, <2>3 DEF ResultReceived, ActorClosed, DispatchExpires, Calls
    <3>2. /\ req' \in [Requests -> Calls]
          /\ \A q \in Requests : /\ req'[q].to = req[q].to
                                 /\ req'[q].at = "sending" => req[q].at = "sending"
      BY <1>0, <3>1, Zenon DEF IInv, TypeOK, CallsTypeOK, Calls, Return
    <3>3. mailbox' = mailbox
      BY <2>3, Zenon DEF ResultReceived, ActorClosed, DispatchExpires
    <3> QED
      BY <1>0, <3>2, <3>3 DEF IInv, CallsTypeOK, MailboxOK, SendingOK
  <2> QED
    BY <2>1, <2>2, <2>3 DEF TransitionRuns
<1> QED
  BY <1>1, <1>2, <1>3, ActorFrame DEF IInv, TypeOK

\* Steps of the bus consumer and of the contexts keep the invariant.
LEMMA BusStep ==
  ASSUME IInv, BusRun \/ GroupCancelled \/ cancelActor
  PROVE  IInv'
<1>1. UNCHANGED <<actorVars, published, mailbox, req>>
  BY Zenon DEF BusRun, EventReceived, EventWritten, WriteFails, BusStops,
         GroupCancelled, cancelActor
<1>2. FlagsTypeOK'
  BY Zenon DEF IInv, TypeOK, FlagsTypeOK, BusRun, EventReceived, EventWritten,
         WriteFails, BusStops, GroupCancelled, cancelActor
<1>3. LogTypeOK'
  <2>0. LogTypeOK
    BY Zenon DEF IInv, TypeOK
  <2>1. CASE EventWritten
    <3>1. Head(writing) \in Events
      BY <2>0, <2>1 DEF EventWritten, LogTypeOK
    <3>2. cdr' \in Stamped(States \cup {NoState})
      BY <2>0, <2>1, <3>1, Zenon DEF EventWritten, Upsert, Stamped, Events, LogTypeOK
    <3> QED
      BY <2>0, <2>1, <3>1, <3>2 DEF EventWritten, LogTypeOK
  <2>2. CASE EventReceived
    <3>1. Head(bus) \in Events /\ Tail(bus) \in Seq(Events)
      BY <2>0, <2>2 DEF EventReceived, LogTypeOK
    <3> QED
      BY <2>0, <2>2, <3>1 DEF EventReceived, LogTypeOK
  <2>3. CASE WriteFails
    BY <2>0, <2>3 DEF WriteFails, LogTypeOK
  <2>4. CASE BusStops \/ GroupCancelled \/ cancelActor
    BY <2>0, <2>4, Zenon DEF BusStops, GroupCancelled, cancelActor, LogTypeOK, storeVars
  <2> QED
    BY <2>1, <2>2, <2>3, <2>4 DEF BusRun
<1> QED
  BY <1>1, <1>2, <1>3, ActorFrame, MailboxFrame DEF IInv, TypeOK

-----------------------------------------------------------------------------
\* An accepted transition extends the path, to where the call already is.
LEMMA AcceptedOK ==
  ASSUME IInv, Publishing, Send(inHand)
  PROVE  /\ bus' \in Seq(Events) /\ published' \in Seq(Events)
         /\ Len(published') >= 2 /\ inHand = published'[Len(published')]
         /\ state = StateAfter(published')
         /\ EventsFormPath'
         /\ \A i \in 1..Len(published') : published'[i].seq <= sequence
<1>0. /\ inHand \in Events /\ published \in Seq(Events) /\ bus \in Seq(Events)
      /\ published # <<>> /\ sequence \in Nat
  BY DEF IInv, TypeOK, ActorTypeOK, LogTypeOK, CallFollowsLog
<1>1. published' = Append(published, inHand) /\ bus' = Append(bus, inHand)
  BY DEF Send
<1>2. /\ published' \in Seq(Events) /\ bus' \in Seq(Events)
      /\ StateAfter(published') = inHand.new
      /\ Len(published') = Len(published) + 1
      /\ published'[Len(published) + 1] = inHand
      /\ \A i \in 1..Len(published) : published'[i] = published[i]
  BY <1>0, <1>1, AppendLog, Zenon
<1>3. state = inHand.new
  BY DEF IInv, CallFollowsLog
<1>4. Len(published') >= 2 /\ inHand = published'[Len(published')]
  BY <1>0, <1>2
<1>5. EventsFormPath'
  <2>1. inHand.seq > published[Len(published)].seq
    BY <1>0 DEF IInv, SequenceOK, CallFollowsLog, Events
  <2>2. inHand.old = StateAfter(published) /\ allowedTransition(inHand.old, inHand.new)
    BY DEF IInv, CallFollowsLog
  <2> QED
    BY <1>0, <1>1, <2>1, <2>2, PathExtends DEF IInv
<1>6. \A i \in 1..Len(published') : published'[i].seq <= sequence
  <2>1. inHand.seq <= sequence
    BY <1>0 DEF IInv, CallFollowsLog
  <2>2. \A i \in 1..Len(published) : published[i].seq <= sequence
    BY DEF IInv, SequenceOK
  <2>3. Len(published) \in Nat
    BY <1>0
  <2> QED
    BY <1>2, <2>1, <2>2, <2>3
<1> QED
  BY <1>2, <1>3, <1>4, <1>5, <1>6, Zenon

\* A publication that gave up puts the call back where the log is.
LEMMA RolledBackOK ==
  ASSUME IInv, Publishing, RolledBack
  PROVE  /\ state' = StateAfter(published) /\ ~isTerminal(state') /\ state' \in States
         /\ published # <<>> /\ inHand' \in Events
         /\ UNCHANGED <<answeredAt, endedAt, sequence, snapshot, bus, published>>
<1>1. /\ state' = StateAfter(published) /\ published # <<>>
      /\ allowedTransition(state', inHand.new)
  BY DEF IInv, CallFollowsLog, RolledBack
<1>2. state' \in States
  BY <1>1 DEF States, allowedTransition
<1>3. inHand' \in Events
  BY DEF RolledBack, NoEvent, Event, Events
<1> QED
  BY <1>1, <1>2, <1>3, SuccessorsOK DEF RolledBack

\* apply up to the publication, from a state that is not terminal.
LEMMA BeginApplyOK ==
  ASSUME IInv, published # <<>>, ~Publishing,
         NEW by \in Requests \cup {NoOne}, NEW to, allowedTransition(state, to),
         BeginApply(by, to)
  PROVE  /\ state' \in States /\ inHand' \in Events
         /\ answeredAt' \in Nat /\ endedAt' \in Nat /\ sequence' \in Nat
         /\ inHand'.seq = sequence' /\ inHand'.old = StateAfter(published)
         /\ inHand'.new = state' /\ inHand'.cmd = by
         /\ allowedTransition(inHand'.old, inHand'.new)
         /\ \A i \in 1..Len(published) : published[i].seq < sequence'
<1>0. /\ state \in States /\ answeredAt \in Nat /\ endedAt \in Nat /\ sequence \in Nat
      /\ state = StateAfter(published) /\ published \in Seq(Events)
  BY Zenon DEF IInv, TypeOK, ActorTypeOK, LogTypeOK, CallFollowsLog
<1>1. to \in States
  BY <1>0, SuccessorsOK
<1>2. inHand' = Event(sequence + 1, state, to, by) /\ sequence' = sequence + 1
  BY DEF BeginApply
<1>3. inHand' \in Events
  BY <1>0, <1>1, <1>2 DEF Event, Events
<1>4. \A i \in 1..Len(published) : published[i].seq < sequence'
  <2>0. \A i \in 1..Len(published) : published[i] \in Events
    BY <1>0
  <2>1. \A i \in 1..Len(published) : published[i].seq \in Nat
    BY <2>0 DEF Events
  <2>2. \A i \in 1..Len(published) : published[i].seq <= sequence
    BY DEF IInv, SequenceOK
  <2> QED
    BY <1>0, <1>2, <2>1, <2>2
<1> QED
  BY <1>0, <1>1, <1>2, <1>3, <1>4 DEF BeginApply, Event

-----------------------------------------------------------------------------
\* Steps of Actor.Run keep the invariant.
LEMMA ActorStep ==
  ASSUME IInv, ActorRun
  PROVE  IInv'
<1>0. /\ state \in States /\ answeredAt \in Nat /\ endedAt \in Nat /\ sequence \in Nat
      /\ snapshot \in Stamped(States) /\ inHand \in Events
      /\ bus \in Seq(Events) /\ published \in Seq(Events) /\ rows \in Seq(Events)
      /\ writing \in Seq(Events) /\ Len(writing) <= 1
      /\ cdr \in Stamped(States \cup {NoState})
  BY DEF IInv, TypeOK, ActorTypeOK, LogTypeOK
<1>1. UNCHANGED <<writing, rows, cdr, cancelled, busRunning, groupDone>>
  BY Zenon DEF ActorRun, RunStarts, CreatedPublished, CreatedCancelled, CommandAnswered,
         CommandApplies, CommandPublished, CommandCancelled, ShutdownStarts,
         ShutdownApplies, ShutdownPublished, ShutdownExpires, SnapshotStored,
         CommandReplied, RunReturns, storeVars
<1>2. FlagsTypeOK'
  BY <1>1 DEF IInv, TypeOK, FlagsTypeOK
<1>3. LogTypeOK' <=> bus' \in Seq(Events) /\ published' \in Seq(Events)
  BY <1>0, <1>1 DEF LogTypeOK
<1>4. NoEvent \in Events
  BY DEF NoEvent, Event, Events
<1> SUFFICES /\ ActorTypeOK' /\ CallsTypeOK' /\ LogTypeOK' /\ MailboxOK' /\ SendingOK'
             /\ CallFollowsLog' /\ SequenceOK' /\ EventsFormPath'
  BY <1>2 DEF IInv, TypeOK
<1>5. CASE RunStarts
  <2>1. UNCHANGED <<mailbox, req, bus, published, state, snapshot, answeredAt, endedAt>>
    BY <1>5 DEF RunStarts
  <2>2. pc' = "created" /\ sequence' = sequence + 1 /\ published = <<>>
    BY <1>5 DEF RunStarts, IInv, CallFollowsLog
  <2>3. state = "new" /\ inHand' = Event(sequence + 1, "new", NoState, NoOne)
    BY <1>5, <2>2 DEF RunStarts, IInv, CallFollowsLog, Publishing, Settling, StateAfter
  <2>4. ActorTypeOK'
    BY <1>0, <2>1, <2>2, <2>3 DEF ActorTypeOK, Event, Events, States
  <2>5. CallFollowsLog'
    BY <1>0, <2>1, <2>2, <2>3 DEF CallFollowsLog, Publishing, Settling, StateAfter, Event
  <2>6. SequenceOK' /\ EventsFormPath'
    BY <2>1, <2>2 DEF IInv, SequenceOK, EventsFormPath
  <2> QED
    BY <1>0, <1>3, <2>1, <2>4, <2>5, <2>6, MailboxFrame, Zenon
<1>6. CASE CreatedPublished
  <2>1. /\ UNCHANGED <<mailbox, req, state, snapshot, answeredAt, endedAt, sequence>>
        /\ pc' = "loop" /\ inHand' = NoEvent
        /\ published' = Append(published, inHand) /\ bus' = Append(bus, inHand)
    BY <1>6 DEF CreatedPublished, Send
  <2>2. /\ published = <<>> /\ state = "new"
        /\ inHand.old = "new" /\ inHand.new = NoState /\ inHand.seq = sequence
    BY <1>6 DEF CreatedPublished, IInv, CallFollowsLog, Publishing, Settling, StateAfter
  <2>3. /\ published' \in Seq(Events) /\ published' # <<>> /\ Len(published') = 1
        /\ published'[1] = inHand /\ StateAfter(published') = "new"
        /\ bus' \in Seq(Events)
    <3>1. Len(published) = 0
      BY <2>2
    <3>2. /\ published' \in Seq(Events) /\ published' # <<>>
          /\ Len(published') = Len(published) + 1
          /\ published'[Len(published) + 1] = inHand
          /\ StateAfter(published') = "new"
      BY <1>0, <2>1, <2>2, AppendLog, Zenon
    <3>3. bus' \in Seq(Events)
      BY <1>0, <2>1, AppendLog, Zenon
    <3> QED
      BY <3>1, <3>2, <3>3
  <2>4. ActorTypeOK'
    BY <1>0, <1>4, <2>1 DEF ActorTypeOK
  <2>5. CallFollowsLog'
    BY <2>1, <2>2, <2>3, Zenon DEF CallFollowsLog, Publishing, Settling, isTerminal
  <2>6. SequenceOK' /\ EventsFormPath'
    BY <1>0, <2>1, <2>2, <2>3 DEF SequenceOK, EventsFormPath, Publishing
  <2> QED
    BY <1>3, <2>1, <2>3, <2>4, <2>5, <2>6, MailboxFrame, Zenon
<1>7. CASE CreatedCancelled
  <2>1. /\ UNCHANGED <<mailbox, req, state, snapshot, answeredAt, endedAt, sequence,
                       bus, published>>
        /\ pc = "created" /\ pc' = "closing" /\ inHand' = NoEvent
    BY <1>7 DEF CreatedCancelled
  <2>2. ActorTypeOK'
    BY <1>0, <1>4, <2>1 DEF ActorTypeOK
  <2>3. CallFollowsLog'
    BY <2>1, Zenon DEF IInv, CallFollowsLog, Publishing, Settling, StateAfter
  <2>4. SequenceOK' /\ EventsFormPath'
    BY <2>1, Zenon DEF IInv, SequenceOK, EventsFormPath, Publishing
  <2> QED
    BY <1>0, <1>3, <2>1, <2>2, <2>3, <2>4, MailboxFrame, Zenon
<1>8. CASE CommandAnswered
  <2> DEFINE r == Head(mailbox)
  <2>1. mailbox # <<>> /\ mailbox' = Tail(mailbox)
        /\ UNCHANGED <<actorVars, bus, published>>
    BY <1>8 DEF CommandAnswered
  <2>2. PICK result \in Replies : Reply(r, result)
    BY <1>8 DEF CommandAnswered, Replies
  <2>3. CallsTypeOK' /\ MailboxOK' /\ SendingOK'
    BY <2>1, <2>2, TakeOK, ReplyOK DEF CallsTypeOK, MailboxOK
  <2> QED
    BY <1>0, <1>3, <2>1, <2>3, ActorFrame
<1>9. CASE CommandApplies
  <2> DEFINE r == Head(mailbox)
  <2>1. /\ pc = "loop" /\ pc' = "apply" /\ mailbox # <<>> /\ mailbox' = Tail(mailbox)
        /\ allowedTransition(state, req[r].to) /\ BeginApply(r, req[r].to)
        /\ UNCHANGED <<snapshot, req, bus, published>>
    BY <1>9 DEF CommandApplies
  <2>2. r \in Requests /\ CallsTypeOK' /\ MailboxOK' /\ SendingOK'
    BY <2>1, TakeOK, Zenon DEF IInv, TypeOK, CallsTypeOK, MailboxOK, SendingOK
  <2>3. published # <<>> /\ ~Publishing
    BY <2>1, Zenon DEF IInv, CallFollowsLog, Publishing, Settling
  <2>4. /\ state' \in States /\ inHand' \in Events
        /\ answeredAt' \in Nat /\ endedAt' \in Nat /\ sequence' \in Nat
        /\ inHand'.seq = sequence' /\ inHand'.old = StateAfter(published)
        /\ inHand'.new = state' /\ inHand'.cmd = r
        /\ allowedTransition(inHand'.old, inHand'.new)
        /\ \A i \in 1..Len(published) : published[i].seq < sequence'
    BY <2>1, <2>2, <2>3, BeginApplyOK, Zenon
  <2>5. ActorTypeOK'
    BY <1>0, <2>1, <2>4, Zenon DEF ActorTypeOK
  <2>6. CallFollowsLog'
    BY <2>1, <2>2, <2>3, <2>4, Zenon DEF CallFollowsLog, Publishing, Settling, StateAfter
  <2>7. SequenceOK' /\ EventsFormPath'
    <3>1. \A i \in 1..Len(published) : published[i].seq \in Nat
      <4>1. \A i \in 1..Len(published) : published[i] \in Events
        BY <1>0
      <4> QED BY <4>1 DEF Events
    <3>2. SequenceOK'
      BY <2>1, <2>4, <3>1 DEF SequenceOK
    <3>3. EventsFormPath'
      BY <2>1, Zenon DEF IInv, EventsFormPath
    <3> QED
      BY <3>2, <3>3
  <2> QED
    BY <1>0, <1>3, <2>1, <2>2, <2>5, <2>6, <2>7, Zenon
<1>10. CASE CommandPublished \/ ShutdownPublished
  <2>1. /\ Publishing /\ Send(inHand) /\ pc' \in {"store", "shutdownStore"}
        /\ pc' = "store" => inHand.cmd \in Requests
        /\ UNCHANGED <<mailbox, req, state, answeredAt, endedAt, sequence, snapshot,
                       inHand>>
    BY <1>10, Zenon DEF CommandPublished, ShutdownPublished, Publishing, IInv,
                        CallFollowsLog
  <2>2. /\ bus' \in Seq(Events) /\ published' \in Seq(Events)
        /\ Len(published') >= 2 /\ inHand = published'[Len(published')]
        /\ state = StateAfter(published')
        /\ EventsFormPath'
        /\ \A i \in 1..Len(published') : published'[i].seq <= sequence
    BY <2>1, AcceptedOK, Zenon
  <2>3. ActorTypeOK'
    BY <1>0, <2>1, Zenon DEF ActorTypeOK
  <2>4. CallFollowsLog' /\ SequenceOK'
    BY <2>1, <2>2, Zenon DEF CallFollowsLog, SequenceOK, Publishing, Settling
  <2> QED
    BY <1>3, <2>1, <2>2, <2>3, <2>4, MailboxFrame, Zenon
<1>11. CASE CommandCancelled
  <2>1. /\ pc = "apply" /\ Publishing /\ RolledBack /\ inHand.cmd \in Requests
        /\ Reply(inHand.cmd, "publish") /\ mailbox' = mailbox /\ pc' = "loop"
    BY <1>11, Zenon DEF CommandCancelled, Publishing, IInv, CallFollowsLog
  <2>2. /\ state' = StateAfter(published) /\ ~isTerminal(state') /\ state' \in States
        /\ published # <<>> /\ inHand' \in Events
        /\ UNCHANGED <<answeredAt, endedAt, sequence, snapshot, bus, published>>
    BY <2>1, RolledBackOK
  <2>3. CallsTypeOK' /\ MailboxOK' /\ SendingOK'
    BY <2>1, ReplyOK DEF IInv, TypeOK, CallsTypeOK, MailboxOK, Replies
  <2>4. ActorTypeOK'
    BY <1>0, <2>1, <2>2, Zenon DEF ActorTypeOK
  <2>5. CallFollowsLog'
    BY <2>1, <2>2, Zenon DEF CallFollowsLog, Publishing, Settling, StateAfter
  <2>6. SequenceOK' /\ EventsFormPath'
    BY <2>1, <2>2, Zenon DEF IInv, SequenceOK, EventsFormPath, Publishing
  <2> QED
    BY <1>0, <1>3, <2>2, <2>3, <2>4, <2>5, <2>6, Zenon
<1>12. CASE ShutdownStarts
  <2>1. /\ UNCHANGED <<state, answeredAt, endedAt, sequence, snapshot, inHand, mailbox,
                       req, bus, published>>
        /\ pc = "loop" /\ pc' = "shutdown"
    BY <1>12 DEF ShutdownStarts
  <2>2. ActorTypeOK'
    BY <1>0, <2>1 DEF ActorTypeOK
  <2>3. CallFollowsLog'
    BY <2>1, Zenon DEF IInv, CallFollowsLog, Publishing, Settling, StateAfter
  <2>4. SequenceOK' /\ EventsFormPath'
    BY <2>1, Zenon DEF IInv, SequenceOK, EventsFormPath, Publishing
  <2> QED
    BY <1>0, <1>3, <2>1, <2>2, <2>3, <2>4, MailboxFrame, Zenon
<1>13. CASE ShutdownApplies
  <2> DEFINE to == IF state = "terminating" THEN "terminated" ELSE "terminating"
  <2>1. /\ pc = "shutdown" /\ pc' = "shutdownApply" /\ BeginApply(NoOne, to)
        /\ UNCHANGED <<snapshot, mailbox, req, bus, published>>
    BY <1>13 DEF ShutdownApplies
  <2>2. published # <<>> /\ ~Publishing /\ ~isTerminal(state)
    BY <2>1 DEF IInv, CallFollowsLog, Publishing, Settling
  <2>3. allowedTransition(state, to)
    BY <1>0, <2>2, ShutdownAllowed
  <2>4. /\ state' \in States /\ inHand' \in Events
        /\ answeredAt' \in Nat /\ endedAt' \in Nat /\ sequence' \in Nat
        /\ inHand'.seq = sequence' /\ inHand'.old = StateAfter(published)
        /\ inHand'.new = state'
        /\ allowedTransition(inHand'.old, inHand'.new)
        /\ \A i \in 1..Len(published) : published[i].seq < sequence'
    <3> HIDE DEF to
    <3> QED
      BY <2>1, <2>2, <2>3, BeginApplyOK, Zenon
  <2>5. ActorTypeOK'
    BY <1>0, <2>1, <2>4, Zenon DEF ActorTypeOK
  <2>6. CallFollowsLog'
    BY <2>1, <2>2, <2>4, Zenon DEF CallFollowsLog, Publishing, Settling, StateAfter
  <2>7. SequenceOK' /\ EventsFormPath'
    <3>1. \A i \in 1..Len(published) : published[i].seq \in Nat
      <4>1. \A i \in 1..Len(published) : published[i] \in Events
        BY <1>0
      <4> QED BY <4>1 DEF Events
    <3>2. SequenceOK'
      BY <2>1, <2>4, <3>1 DEF SequenceOK
    <3>3. EventsFormPath'
      BY <2>1, Zenon DEF IInv, EventsFormPath
    <3> QED
      BY <3>2, <3>3
  <2> QED
    BY <1>0, <1>3, <2>1, <2>5, <2>6, <2>7, MailboxFrame, Zenon
<1>14. CASE SnapshotStored
  <2>1. /\ UNCHANGED <<state, answeredAt, endedAt, sequence, mailbox, req, bus,
                       published>>
        /\ Settling /\ ~Publishing
        /\ \/ pc = "store" /\ pc' = "reply" /\ inHand' = inHand
           \/ pc' = "closing" /\ inHand' = NoEvent
           \/ pc' = "shutdown" /\ inHand' = NoEvent /\ ~isTerminal(state)
    BY <1>14, Zenon DEF SnapshotStored, Settling, Publishing
  <2>2. snapshot' \in Stamped(States)
    BY <1>0, <1>14 DEF SnapshotStored, storeSnapshot, Stamped
  <2>3. ActorTypeOK'
    BY <1>0, <1>4, <2>1, <2>2, Zenon DEF ActorTypeOK
  <2>4. CallFollowsLog'
    <3>1. state = StateAfter(published) /\ Len(published) >= 2
          /\ (pc = "store" => inHand.cmd \in Requests)
          /\ inHand = published[Len(published)]
      BY <2>1, Zenon DEF IInv, CallFollowsLog
    <3>2. published # <<>>
      BY <1>0, <3>1
    <3> QED
      BY <2>1, <3>1, <3>2, Zenon DEF CallFollowsLog, Publishing, Settling, StateAfter
  <2>5. SequenceOK' /\ EventsFormPath'
    BY <2>1, Zenon DEF IInv, SequenceOK, EventsFormPath, Publishing
  <2> QED
    BY <1>0, <1>3, <2>1, <2>3, <2>4, <2>5, MailboxFrame, Zenon
<1>15. CASE ShutdownExpires
  <2>1. /\ pc = "shutdownApply" /\ Publishing /\ RolledBack /\ pc' = "closing"
        /\ UNCHANGED <<mailbox, req>>
    BY <1>15 DEF ShutdownExpires, Publishing
  <2>2. /\ state' = StateAfter(published) /\ state' \in States
        /\ published # <<>> /\ inHand' \in Events
        /\ UNCHANGED <<answeredAt, endedAt, sequence, snapshot, bus, published>>
    BY <2>1, RolledBackOK
  <2>3. ActorTypeOK'
    BY <1>0, <2>1, <2>2, Zenon DEF ActorTypeOK
  <2>4. CallFollowsLog'
    BY <2>1, <2>2, Zenon DEF CallFollowsLog, Publishing, Settling, StateAfter
  <2>5. SequenceOK' /\ EventsFormPath'
    BY <2>1, <2>2, Zenon DEF IInv, SequenceOK, EventsFormPath, Publishing
  <2> QED
    BY <1>0, <1>3, <2>1, <2>2, <2>3, <2>4, <2>5, MailboxFrame, Zenon
<1>16. CASE CommandReplied
  <2>1. /\ UNCHANGED <<state, answeredAt, endedAt, sequence, snapshot, mailbox, bus,
                       published>>
        /\ pc = "reply" /\ Settling /\ ~Publishing /\ Reply(inHand.cmd, "ok")
        /\ inHand' = NoEvent
        /\ \/ pc' = "closing"
           \/ pc' = "loop" /\ ~isTerminal(state)
    BY <1>16, Zenon DEF CommandReplied, Settling, Publishing
  <2>2. inHand.cmd \in Requests /\ state = StateAfter(published) /\ Len(published) >= 2
    BY <2>1, Zenon DEF IInv, CallFollowsLog
  <2>3. CallsTypeOK' /\ MailboxOK' /\ SendingOK'
    BY <2>1, <2>2, ReplyOK DEF IInv, TypeOK, CallsTypeOK, MailboxOK, Replies
  <2>4. ActorTypeOK'
    BY <1>0, <1>4, <2>1, Zenon DEF ActorTypeOK
  <2>5. CallFollowsLog'
    <3>1. published # <<>>
      BY <1>0, <2>2
    <3> QED
      BY <2>1, <2>2, <3>1, Zenon DEF CallFollowsLog, Publishing, Settling, StateAfter
  <2>6. SequenceOK' /\ EventsFormPath'
    BY <2>1, Zenon DEF IInv, SequenceOK, EventsFormPath, Publishing
  <2> QED
    BY <1>0, <1>3, <2>1, <2>3, <2>4, <2>5, <2>6, Zenon
<1>17. CASE RunReturns
  <2>1. /\ UNCHANGED <<state, answeredAt, endedAt, sequence, snapshot, inHand, mailbox,
                       req, bus, published>>
        /\ pc = "closing" /\ pc' = "exited"
    BY <1>17, Zenon DEF RunReturns
  <2>2. ActorTypeOK'
    BY <1>0, <2>1, Zenon DEF ActorTypeOK
  <2>3. CallFollowsLog'
    BY <2>1, Zenon DEF IInv, CallFollowsLog, Publishing, Settling, StateAfter
  <2>4. SequenceOK' /\ EventsFormPath'
    BY <2>1, Zenon DEF IInv, SequenceOK, EventsFormPath, Publishing
  <2> QED
    BY <1>0, <1>3, <2>1, <2>2, <2>3, <2>4, MailboxFrame, Zenon
<1> QED
  BY <1>5, <1>6, <1>7, <1>8, <1>9, <1>10, <1>11, <1>12, <1>13, <1>14, <1>15, <1>16,
     <1>17, Zenon
  DEF ActorRun

-----------------------------------------------------------------------------
\* IInv is an invariant of the actor with its callers and its bus.
THEOREM InvariantHolds == Spec => []IInv
<1>1. Init => IInv
  BY InitOK
<1>2. IInv /\ [Next]_vars => IInv'
  <2> SUFFICES ASSUME IInv, [Next]_vars PROVE IInv'
    OBVIOUS
  <2>1. CASE ActorRun
    BY <2>1, ActorStep
  <2>2. CASE BusRun \/ GroupCancelled \/ cancelActor
    BY <2>2, BusStep
  <2>3. CASE \E r \in Requests : \/ \E to \in Targets : TransitionCalled(r, to)
                                 \/ TransitionRuns(r)
                                 \/ DispatchExpires(r)
    BY <2>3, CallerStep
  <2>4. CASE UNCHANGED vars
    <3>1. /\ UNCHANGED <<actorVars, published>> /\ UNCHANGED <<mailbox, req>>
          /\ UNCHANGED <<bus, writing, rows, cdr, cancelled, busRunning, groupDone>>
      BY <2>4 DEF vars, storeVars
    <3>2. FlagsTypeOK'
      BY <3>1 DEF IInv, TypeOK, FlagsTypeOK
    <3>3. LogTypeOK'
      BY <3>1 DEF IInv, TypeOK, LogTypeOK
    <3> QED
      BY <3>1, <3>2, <3>3, ActorFrame, MailboxFrame, Zenon DEF IInv, TypeOK
  <2> QED
    BY <2>1, <2>2, <2>3, <2>4 DEF Next
<1> QED
  BY <1>1, <1>2, PTL DEF Spec

\* Every variable keeps the shape of the Go value it stands for.
THEOREM TypesHold == Spec => []TypeOK
<1>1. IInv => TypeOK
  BY DEF IInv
<1> QED
  BY <1>1, InvariantHolds, PTL

\* Whatever publications fail, and however callers and shutdown race, the
\* events the bus accepted form one path of allowedTransition.
THEOREM EventsPath == Spec => []EventsFormPath
<1>1. IInv => EventsFormPath
  BY DEF IInv
<1> QED
  BY <1>1, InvariantHolds, PTL

-----------------------------------------------------------------------------
(* The event log, and the rows of the store.                               *)

\* The event in hand is accepted by the bus.
Sends == Send(inHand) /\ UNCHANGED <<writing, rows, cdr, busRunning>>

\* Nothing happens to the log; the consumer may stop.
Leaves == UNCHANGED <<published, bus, writing, rows, cdr>> /\ (busRunning' => busRunning)

\* All that a step may do to the log, the queue and the rows.
LEMMA LogStep ==
  ASSUME [Next]_vars
  PROVE  Sends \/ Leaves \/ EventReceived \/ EventWritten \/ WriteFails
<1>1. CASE ActorRun
  <2>1. CASE CreatedPublished \/ CommandPublished \/ ShutdownPublished
    BY <2>1, Zenon DEF CreatedPublished, CommandPublished, ShutdownPublished, Sends,
                storeVars
  <2>2. CASE RunStarts \/ CreatedCancelled \/ CommandAnswered \/ CommandApplies
    BY <2>2, Zenon DEF RunStarts, CreatedCancelled, CommandAnswered, CommandApplies, Leaves,
                storeVars
  <2>3. CASE CommandCancelled \/ ShutdownStarts \/ ShutdownApplies \/ ShutdownExpires
    BY <2>3, Zenon DEF CommandCancelled, ShutdownStarts, ShutdownApplies, ShutdownExpires,
                RolledBack, Leaves, storeVars
  <2>4. CASE SnapshotStored \/ CommandReplied \/ RunReturns
    BY <2>4, Zenon DEF SnapshotStored, CommandReplied, RunReturns, Leaves, storeVars
  <2> QED
    BY <1>1, <2>1, <2>2, <2>3, <2>4, Zenon DEF ActorRun
<1>2. CASE BusRun \/ GroupCancelled \/ cancelActor
  BY <1>2, Zenon DEF BusRun, BusStops, GroupCancelled, cancelActor, Leaves, storeVars
<1>3. CASE \E r \in Requests : \/ \E to \in Targets : TransitionCalled(r, to)
                               \/ TransitionRuns(r) \/ DispatchExpires(r)
  BY <1>3, Zenon DEF TransitionCalled, TransitionRuns, CommandSent, ResultReceived,
              ActorClosed, DispatchExpires, Leaves, storeVars
<1>4. CASE UNCHANGED vars
  BY <1>4, Zenon DEF vars, storeVars, Leaves
<1> QED
  BY <1>1, <1>2, <1>3, <1>4, Zenon DEF Next

\* Two sequences with the same members in the same places are the same.
LEMMA SameSequence ==
  ASSUME NEW x \in Seq(Events), NEW y \in Seq(Events), Len(x) = Len(y),
         \A i \in 1..Len(x) : x[i] = y[i]
  PROVE  x = y
  OBVIOUS

\* Accepting an event at the end of the queue appends it to rows and queue.
LEMMA AppendConcat ==
  ASSUME NEW r \in Seq(Events), NEW b \in Seq(Events), NEW e \in Events
  PROVE  Append(r \o b, e) = r \o Append(b, e)
<1> DEFINE x == Append(r \o b, e)
           y == r \o Append(b, e)
<1>1. x \in Seq(Events) /\ y \in Seq(Events)
  OBVIOUS
<1>2. Len(x) = Len(r) + Len(b) + 1 /\ Len(y) = Len(r) + Len(b) + 1
  OBVIOUS
<1>3. \A i \in 1..(Len(r) + Len(b) + 1) : x[i] = y[i]
  OBVIOUS
<1> HIDE DEF x, y
<1>4. x = y
  BY <1>1, <1>2, <1>3, SameSequence
<1> QED
  BY <1>4 DEF x, y

\* What is where in two sequences put together.
LEMMA Concat ==
  ASSUME NEW r \in Seq(Events), NEW b \in Seq(Events)
  PROVE  /\ r \o b \in Seq(Events) /\ Len(r \o b) = Len(r) + Len(b)
         /\ Len(r) \in Nat /\ Len(b) \in Nat
         /\ \A i \in 1..Len(r) : (r \o b)[i] = r[i]
         /\ \A i \in (Len(r) + 1)..(Len(r) + Len(b)) : (r \o b)[i] = b[i - Len(r)]
  OBVIOUS

\* Head, tail and the sequence of the head alone.
LEMMA TakeFirst ==
  ASSUME NEW b \in Seq(Events), b # <<>>
  PROVE  /\ Head(b) \in Events /\ Tail(b) \in Seq(Events) /\ Head(b) = b[1]
         /\ Len(b) \in Nat \ {0} /\ Len(Tail(b)) = Len(b) - 1
         /\ \A i \in 1..(Len(b) - 1) : Tail(b)[i] = b[i + 1]
         /\ <<Head(b)>> \in Seq(Events) /\ Len(<<Head(b)>>) = 1
         /\ <<Head(b)>>[1] = b[1]
  OBVIOUS

\* Taking the first event of the queue does not change rows, hand and queue
\* put together.
LEMMA TakeConcat ==
  ASSUME NEW r \in Seq(Events), NEW b \in Seq(Events), b # <<>>,
         NEW n \in Seq(Events), Len(n) = 0
  PROVE  (r \o n) \o b = (r \o <<Head(b)>>) \o Tail(b)
<1> DEFINE h == <<Head(b)>>
           t == Tail(b)
           p == r \o n
           q == r \o h
           x == p \o b
           y == q \o t
<1>1. /\ h \in Seq(Events) /\ t \in Seq(Events) /\ Len(h) = 1 /\ h[1] = b[1]
      /\ Len(b) \in Nat \ {0} /\ Len(t) = Len(b) - 1 /\ Len(r) \in Nat
      /\ \A i \in 1..(Len(b) - 1) : t[i] = b[i + 1]
  BY TakeFirst
<1> HIDE DEF h, t
<1>2. /\ p \in Seq(Events) /\ Len(p) = Len(r) + Len(n)
      /\ \A i \in 1..Len(r) : p[i] = r[i]
  BY Concat, Zenon
<1>3. /\ q \in Seq(Events) /\ Len(q) = Len(r) + Len(h)
      /\ \A i \in 1..Len(r) : q[i] = r[i]
      /\ \A i \in (Len(r) + 1)..(Len(r) + Len(h)) : q[i] = h[i - Len(r)]
  <2>1. h \in Seq(Events)
    BY <1>1, Zenon
  <2> QED
    BY <2>1, Concat, Zenon
<1> HIDE DEF p, q
<1>4. /\ x \in Seq(Events) /\ Len(x) = Len(p) + Len(b)
      /\ \A i \in 1..Len(p) : x[i] = p[i]
      /\ \A i \in (Len(p) + 1)..(Len(p) + Len(b)) : x[i] = b[i - Len(p)]
  BY <1>2, Concat, Zenon
<1>5. /\ y \in Seq(Events) /\ Len(y) = Len(q) + Len(t)
      /\ \A i \in 1..Len(q) : y[i] = q[i]
      /\ \A i \in (Len(q) + 1)..(Len(q) + Len(t)) : y[i] = t[i - Len(q)]
  <2>1. t \in Seq(Events) /\ q \in Seq(Events)
    BY <1>1, <1>3, Zenon
  <2> QED
    BY <2>1, Concat, Zenon
<1> HIDE DEF x, y
<1> DEFINE k == Len(r)
           m == Len(b)
<1>6. \A i \in 1..Len(x) : x[i] = y[i]
  <2>0. /\ k \in Nat /\ m \in Nat \ {0} /\ Len(p) = k /\ Len(q) = k + 1
        /\ Len(t) = m - 1 /\ Len(h) = 1 /\ Len(x) = k + m
    BY <1>1, <1>2, <1>3, <1>4
  <2> HIDE DEF k, m
  <2> SUFFICES ASSUME NEW i \in 1..(k + m) PROVE x[i] = y[i]
    BY <2>0
  <2>1. CASE i \in 1..k
    <3>1. i \in 1..Len(p) /\ i \in 1..Len(q) /\ i \in 1..Len(r)
      BY <2>0, <2>1 DEF k
    <3> QED
      BY <1>2, <1>3, <1>4, <1>5, <3>1, Zenon
  <2>2. CASE i = k + 1
    <3>1. /\ i \in (Len(p) + 1)..(Len(p) + Len(b)) /\ i \in 1..Len(q)
          /\ i \in (Len(r) + 1)..(Len(r) + Len(h))
          /\ i - Len(p) = 1 /\ i - Len(r) = 1
      BY <2>0, <2>2 DEF k, m
    <3>2. x[i] = b[i - Len(p)] /\ y[i] = q[i]
      BY <1>4, <1>5, <3>1, Zenon
    <3>3. q[i] = h[i - Len(r)] /\ h[1] = b[1]
      BY <1>1, <1>3, <3>1, Zenon
    <3> QED
      BY <3>1, <3>2, <3>3, Zenon
  <2>3. CASE i \in (k + 2)..(k + m)
    <3>1. /\ i \in (Len(p) + 1)..(Len(p) + Len(b))
          /\ i \in (Len(q) + 1)..(Len(q) + Len(t))
          /\ i - Len(q) \in 1..(Len(b) - 1)
          /\ (i - Len(q)) + 1 = i - Len(p)
      BY <2>0, <2>3 DEF k, m
    <3>2. x[i] = b[i - Len(p)] /\ y[i] = t[i - Len(q)]
      BY <1>4, <1>5, <3>1, Zenon
    <3>3. t[i - Len(q)] = b[(i - Len(q)) + 1]
      BY <1>1, <3>1, Zenon
    <3> QED
      BY <3>1, <3>2, <3>3, Zenon
  <2> QED
    BY <2>0, <2>1, <2>2, <2>3
<1>7. x = y
  <2>1. Len(x) = Len(y)
    <3>1. /\ k \in Nat /\ m \in Nat \ {0} /\ Len(p) = k /\ Len(q) = k + 1
          /\ Len(t) = m - 1
      BY <1>1, <1>2, <1>3
    <3>2. Len(x) = Len(p) + m /\ Len(y) = Len(q) + Len(t)
      BY <1>4, <1>5, Zenon
    <3> HIDE DEF k, m
    <3> QED
      BY <3>1, <3>2
  <2> QED
    BY <1>4, <1>5, <1>6, <2>1, SameSequence, Zenon
<1> QED
  BY <1>7 DEF x, y, p, q, h, t

\* The consumer appends the event it took to the rows.
LEMMA WrittenNext ==
  ASSUME TypeOK, RowsArePrefix, EventWritten
  PROVE  /\ rows' \in Seq(Events) /\ Len(rows') = Len(rows) + 1
         /\ \A i \in 1..Len(rows) : rows'[i] = rows[i]
         /\ rows'[Len(rows) + 1] = Head(writing) /\ Head(writing) \in Events
         /\ Len(rows) + 1 <= Len(published)
         /\ published[Len(rows) + 1] = Head(writing)
         /\ published = rows' \o writing' \o bus
<1> DEFINE e == Head(writing)
           w == rows \o writing
           v == rows' \o <<>>
<1>1. /\ rows \in Seq(Events) /\ bus \in Seq(Events) /\ writing \in Seq(Events)
      /\ writing # <<>> /\ Len(writing) <= 1
  BY Zenon DEF TypeOK, LogTypeOK, EventWritten
<1>2. /\ rows' = Append(rows, e) /\ writing' = <<>> /\ published = w \o bus
  BY Zenon DEF EventWritten, RowsArePrefix
<1>3. e \in Events /\ e = writing[1] /\ Len(writing) = 1
  <2>1. Len(writing) \in Nat \ {0} /\ e \in Events /\ e = writing[1]
    BY <1>1, TakeFirst, Zenon
  <2>2. Len(writing) <= 1
    BY <1>1
  <2>3. Len(writing) = 1
    <3> DEFINE l == Len(writing)
    <3>1. l \in Nat \ {0} /\ l <= 1
      BY <2>1, <2>2, Zenon
    <3> HIDE DEF l
    <3>2. l = 1
      BY <3>1
    <3> QED
      BY <3>2 DEF l
  <2> QED
    BY <2>1, <2>3, Zenon
<1> HIDE DEF e
<1>4. /\ rows' \in Seq(Events) /\ Len(rows') = Len(rows) + 1
      /\ \A i \in 1..Len(rows) : rows'[i] = rows[i]
      /\ rows'[Len(rows) + 1] = e
  BY <1>1, <1>2, <1>3, AppendLog, Zenon
<1>5. /\ w \in Seq(Events) /\ Len(w) = Len(rows) + 1 /\ w[Len(rows) + 1] = e
      /\ \A i \in 1..Len(rows) : w[i] = rows[i]
  <2>1. /\ w \in Seq(Events) /\ Len(w) = Len(rows) + Len(writing)
        /\ \A i \in 1..Len(rows) : w[i] = rows[i]
        /\ \A i \in (Len(rows) + 1)..(Len(rows) + Len(writing)) :
             w[i] = writing[i - Len(rows)]
    BY <1>1, Concat, Zenon
  <2> HIDE DEF w
  <2>2. Len(rows) + 1 \in (Len(rows) + 1)..(Len(rows) + Len(writing))
        /\ (Len(rows) + 1) - Len(rows) = 1
    BY <1>1, <1>3
  <2> QED
    BY <1>3, <2>1, <2>2, Zenon
<1>6. /\ v \in Seq(Events) /\ Len(v) = Len(rows')
      /\ \A i \in 1..Len(rows') : v[i] = rows'[i]
  BY <1>4
<1> HIDE DEF w, v
<1>7. v = w
  <2>1. Len(rows) \in Nat
    BY <1>1
  <2>2. \A i \in 1..Len(v) : v[i] = w[i]
    BY <1>4, <1>5, <1>6, <2>1
  <2> QED
    BY <1>4, <1>5, <1>6, <2>2, SameSequence, Zenon
<1>8. Len(rows) + 1 <= Len(published) /\ published[Len(rows) + 1] = e
  <2>1. Len(rows) \in Nat
    BY <1>1
  <2> QED
    BY <1>1, <1>2, <1>5, <2>1, Concat
<1>9. published = rows' \o writing' \o bus
  BY <1>2, <1>7, Zenon DEF v
<1> QED
  BY <1>3, <1>4, <1>8, <1>9, Zenon DEF e

\* Every step keeps the rows a prefix of the accepted events.
LEMMA PrefixStep ==
  ASSUME TypeOK, RowsArePrefix, inHand \in Events, [Next]_vars
  PROVE  RowsArePrefix'
<1>0. published \in Seq(Events) /\ rows \in Seq(Events) /\ bus \in Seq(Events)
      /\ writing \in Seq(Events)
  BY DEF TypeOK, LogTypeOK
<1>1. CASE Sends
  <2>1. /\ published' = Append(published, inHand) /\ bus' = Append(bus, inHand)
        /\ rows' = rows /\ writing' = writing /\ busRunning' = busRunning
    BY <1>1 DEF Sends, Send
  <2>2. /\ Len(published') = Len(published) + 1
        /\ \A i \in 1..Len(published) : published'[i] = published[i]
    BY <1>0, <2>1
  <2>3. Len(rows) <= Len(published) /\ \A i \in 1..Len(rows) : rows[i] = published[i]
    BY DEF RowsArePrefix
  <2>4. busRunning' => published' = rows' \o writing' \o bus'
    <3>0. rows \o writing \in Seq(Events)
      BY <1>0
    <3>1. Append(rows \o writing \o bus, inHand) = rows \o writing \o Append(bus, inHand)
      BY <1>0, <3>0, AppendConcat, Zenon
    <3>2. busRunning => published = rows \o writing \o bus
      BY Zenon DEF RowsArePrefix
    <3> QED
      BY <2>1, <3>1, <3>2, Zenon
  <2>5. Len(rows') <= Len(published') /\ \A i \in 1..Len(rows') : rows'[i] = published'[i]
    BY <1>0, <2>1, <2>2, <2>3
  <2> QED
    BY <2>4, <2>5, Zenon DEF RowsArePrefix
<1>2. CASE Leaves
  BY <1>2, Zenon DEF Leaves, RowsArePrefix
<1>3. CASE EventWritten
  <2>1. UNCHANGED <<published, busRunning, bus>>
    BY <1>3, Zenon DEF EventWritten
  <2>2. \A i \in 1..Len(rows') : rows'[i] = published[i]
    <3>1. \A i \in 1..Len(rows) : rows[i] = published[i]
      BY Zenon DEF RowsArePrefix
    <3>2. /\ Len(rows') = Len(rows) + 1 /\ \A i \in 1..Len(rows) : rows'[i] = rows[i]
          /\ rows'[Len(rows) + 1] = published[Len(rows) + 1]
      BY <1>3, WrittenNext, Zenon
    <3>3. Len(rows) \in Nat
      BY <1>0
    <3> QED
      BY <3>1, <3>2, <3>3
  <2> QED
    BY <1>3, <2>1, <2>2, WrittenNext, Zenon DEF RowsArePrefix
<1>4. CASE EventReceived
  <2>1. /\ UNCHANGED <<published, busRunning, rows>> /\ bus # <<>>
        /\ writing = <<>> /\ writing' = <<Head(bus)>> /\ bus' = Tail(bus)
    BY <1>4, Zenon DEF EventReceived
  <2>2. rows \o writing \o bus = rows' \o writing' \o bus'
    <3>1. Len(writing) = 0
      BY <2>1
    <3> QED
      <4>1. rows \o writing \o bus = rows \o <<Head(bus)>> \o Tail(bus)
        BY <1>0, <2>1, <3>1, TakeConcat, Zenon
      <4>2. rows' = rows /\ writing' = <<Head(bus)>> /\ bus' = Tail(bus)
        BY <2>1, Zenon
      <4> QED
        BY <4>1, <4>2, Zenon
  <2> QED
    BY <2>1, <2>2, Zenon DEF RowsArePrefix
<1>5. CASE WriteFails
  BY <1>5, Zenon DEF WriteFails, RowsArePrefix
<1> QED
  BY <1>1, <1>2, <1>3, <1>4, <1>5, LogStep, Zenon

\* Only the first row can have sequence number 0, and it names no state.
LEMMA RowsNumbered ==
  ASSUME IInv, NEW n \in 1..Len(published), published[n].new # NoState
  PROVE  published[n].seq \in Nat \ {0}
<1>1. published \in Seq(Events)
  BY Zenon DEF IInv, TypeOK, LogTypeOK
<1>2. n # 1 /\ n - 1 \in 1..Len(published)
  BY <1>1 DEF IInv, EventsFormPath
<1>3. published[n] \in Events /\ published[n - 1] \in Events
  BY <1>1, <1>2
<1>4. published[n].seq \in Nat /\ published[n - 1].seq \in Nat
  BY <1>3, Zenon DEF Events
<1>5. published[n].seq > published[n - 1].seq
  BY <1>2, Zenon DEF IInv, EventsFormPath
<1> QED
  BY <1>4, <1>5

\* One upsert keeps the summary exact: the first answer stays.
LEMMA CdrStep ==
  ASSUME IInv, RowsArePrefix, CdrSummarisesRows, [Next]_vars
  PROVE  CdrSummarisesRows'
<1>1. CASE Sends \/ Leaves \/ EventReceived \/ WriteFails
  <2>1. rows' = rows /\ cdr' = cdr
    BY <1>1, Zenon DEF Sends, Leaves, EventReceived, WriteFails
  <2> QED
    BY <2>1, Zenon DEF CdrSummarisesRows
<1>2. CASE EventWritten
  <2> DEFINE n == Len(rows) + 1
             e == Head(writing)
  <2>0. TypeOK /\ cdr \in Stamped(States \cup {NoState}) /\ Len(rows) \in Nat
    BY DEF IInv, TypeOK, LogTypeOK
  <2>1. /\ Len(rows') = n /\ rows'[n] = e /\ e \in Events
        /\ \A i \in 1..Len(rows) : rows'[i] = rows[i]
        /\ n \in 1..Len(published) /\ published[n] = e /\ rows' # <<>>
    BY <1>2, <2>0, WrittenNext
  <2>2. cdr' = Upsert(cdr, e)
    BY <1>2 DEF EventWritten
  <2>3. e.new # NoState => e.seq \in Nat \ {0}
    BY <2>1, RowsNumbered
  <2>4. cdr'.state = e.new
    BY <2>2, Zenon DEF Upsert
  <2>5. IF cdr'.answeredAt = 0
          THEN \A i \in 1..n : rows'[i].new # "answered"
          ELSE \E i \in 1..n :
                 /\ rows'[i].new = "answered" /\ rows'[i].seq = cdr'.answeredAt
                 /\ \A j \in 1..(i-1) : rows'[j].new # "answered"
    <3>1. CASE cdr.answeredAt # 0
      <4>1. cdr'.answeredAt = cdr.answeredAt
        BY <2>2, <3>1, Zenon DEF Upsert
      <4>2. PICK i \in 1..Len(rows) :
                   /\ rows[i].new = "answered" /\ rows[i].seq = cdr.answeredAt
                   /\ \A j \in 1..(i-1) : rows[j].new # "answered"
        BY <3>1, Zenon DEF CdrSummarisesRows
      <4>3. /\ i \in 1..n /\ rows'[i] = rows[i]
            /\ \A j \in 1..(i-1) : rows'[j] = rows[j]
        BY <2>0, <2>1
      <4> QED
        BY <3>1, <4>1, <4>2, <4>3, Zenon
    <3>2. CASE cdr.answeredAt = 0 /\ e.new = "answered"
      <4>1. cdr'.answeredAt = e.seq /\ e.seq # 0
        BY <2>2, <2>3, <3>2, Zenon DEF Upsert, NoState
      <4>2. \A j \in 1..(n-1) : rows'[j].new # "answered"
        BY <2>0, <2>1, <3>2 DEF CdrSummarisesRows
      <4>3. n \in 1..n
        BY <2>0
      <4> QED
        BY <2>1, <3>2, <4>1, <4>2, <4>3, Zenon
    <3>3. CASE cdr.answeredAt = 0 /\ e.new # "answered"
      <4>1. cdr'.answeredAt = 0
        BY <2>2, <3>3, Zenon DEF Upsert
      <4> QED
        BY <2>0, <2>1, <3>3, <4>1 DEF CdrSummarisesRows
    <3> QED
      BY <3>1, <3>2, <3>3, Zenon
  <2>6. IF cdr'.endedAt = 0
          THEN \A i \in 1..n : ~isTerminal(rows'[i].new)
          ELSE \E i \in 1..n : isTerminal(rows'[i].new) /\ rows'[i].seq = cdr'.endedAt
    <3>1. CASE isTerminal(e.new)
      <4>1. cdr'.endedAt = e.seq
        BY <2>2, <3>1, Zenon DEF Upsert
      <4>2. e.seq # 0
        BY <2>3, <3>1 DEF isTerminal, NoState
      <4>3. n \in 1..n
        BY <2>0
      <4> QED
        BY <2>1, <3>1, <4>1, <4>2, <4>3, Zenon
    <3>2. CASE ~isTerminal(e.new)
      <4>1. cdr'.endedAt = cdr.endedAt
        BY <2>2, <3>2, Zenon DEF Upsert
      <4>2. CASE cdr.endedAt = 0
        BY <2>0, <2>1, <3>2, <4>1, <4>2 DEF CdrSummarisesRows
      <4>3. CASE cdr.endedAt # 0
        <5>1. PICK i \in 1..Len(rows) :
                     isTerminal(rows[i].new) /\ rows[i].seq = cdr.endedAt
          BY <4>3, Zenon DEF CdrSummarisesRows
        <5>2. i \in 1..n /\ rows'[i] = rows[i]
          BY <2>0, <2>1
        <5> QED
          BY <4>1, <4>3, <5>1, <5>2, Zenon
      <4> QED
        BY <4>2, <4>3, Zenon
    <3> QED
      BY <3>1, <3>2, Zenon
  <2> QED
    BY <2>1, <2>4, <2>5, <2>6, Zenon DEF CdrSummarisesRows
<1> QED
  BY <1>1, <1>2, LogStep

-----------------------------------------------------------------------------
\* Whatever fails and whenever the process stops, call_events is a gapless
\* prefix of what CallBus.Publish accepted.
THEOREM RowsPrefix == Spec => []RowsArePrefix
<1>1. Init => RowsArePrefix
  BY DEF Init, RowsArePrefix
<1>2. IInv /\ RowsArePrefix /\ [Next]_vars => RowsArePrefix'
  <2>1. IInv => TypeOK /\ inHand \in Events
    BY DEF IInv, TypeOK, ActorTypeOK
  <2> QED
    BY <2>1, PrefixStep
<1> QED
  BY <1>1, <1>2, InvariantHolds, PTL DEF Spec

\* The row of calls always summarises the rows of call_events: a call that is
\* held and resumed any number of times keeps the time of its first answer.
THEOREM CdrFollowsRows == Spec => []CdrSummarisesRows
<1>1. Init => CdrSummarisesRows
  BY DEF Init, CdrSummarisesRows, NoRow
<1>2. IInv /\ RowsArePrefix /\ CdrSummarisesRows /\ [Next]_vars => CdrSummarisesRows'
  BY CdrStep
<1> QED
  BY <1>1, <1>2, InvariantHolds, RowsPrefix, PTL DEF Spec

-----------------------------------------------------------------------------
(* What the callers of Transition are told.  A command is in one place, the *)
(* mailbox, the actor's hand or behind it, and it is answered once, when it *)
(* leaves the hand; its event is in the log before that.                    *)

InBox(q, r) == \E i \in 1..Len(q) : q[i] = r
Distinct(q) == \A i, j \in 1..Len(q) : q[i] = q[j] => i = j
Applied(log, r) == \E i \in 1..Len(log) : log[i].cmd = r
Reached(log, s) == \E i \in 1..Len(log) : log[i].new = s
Once(log) == \A i, j \in 1..Len(log) : i # j /\ log[i].cmd = log[j].cmd => log[i].cmd = NoOne

\* The command was handed over and not answered.
Untold(call) == call.at \in {"waiting", "returned"} /\ call.result = NoResult

\* The command in the actor's hand, and whether its event is in the log already.
Holding == pc \in {"apply", "store", "reply"}
Telling == IF pc \in {"store", "reply"} THEN {inHand.cmd} ELSE {}

\* What a call of Transition and the log know of each other.  The calls in
\* telling were applied and are not told yet.
CallOK(call, r, log, telling) ==
  /\ Applied(log, r) => call.result = "ok" \/ r \in telling
  /\ call.result = "ok" => Reached(log, call.to)
  /\ call.result # NoResult => call.at \in {"waiting", "returned"}
  /\ call.returned \in Replies => call.returned = call.result

HandOK ==
  /\ Holding =>
       /\ Untold(req[inHand.cmd]) /\ ~InBox(mailbox, inHand.cmd)
       /\ req[inHand.cmd].to = inHand.new
  /\ pc \in {"created", "shutdownApply", "shutdownStore"} => inHand.cmd = NoOne

VInv ==
  /\ Distinct(mailbox) /\ Once(published) /\ HandOK
  /\ \A r \in Requests :
       /\ InBox(mailbox, r) => Untold(req[r])
       /\ CallOK(req[r], r, published, Telling)

-----------------------------------------------------------------------------
\* Taking the first command out of the mailbox.
LEMMA TailBox ==
  ASSUME NEW q \in Seq(Requests), q # <<>>, Distinct(q)
  PROVE  /\ Head(q) \in Requests /\ InBox(q, Head(q))
         /\ Distinct(Tail(q))
         /\ ~InBox(Tail(q), Head(q))
         /\ \A r : InBox(Tail(q), r) => InBox(q, r)
<1>1. /\ Len(q) \in Nat /\ Len(q) >= 1 /\ Len(Tail(q)) = Len(q) - 1
      /\ Head(q) = q[1] /\ q[1] \in Requests
  OBVIOUS
<1>2. \A i \in 1..(Len(q) - 1) : Tail(q)[i] = q[i + 1]
  OBVIOUS
<1>3. Distinct(Tail(q))
  BY <1>1, <1>2 DEF Distinct
<1>4. ~InBox(Tail(q), Head(q))
  BY <1>1, <1>2 DEF Distinct, InBox
<1>5. \A r : InBox(Tail(q), r) => InBox(q, r)
  <2> SUFFICES ASSUME NEW r, NEW i \in 1..(Len(q) - 1), Tail(q)[i] = r
               PROVE  \E j \in 1..Len(q) : q[j] = r
    BY <1>1 DEF InBox
  <2>1. i + 1 \in 1..Len(q) /\ q[i + 1] = r
    BY <1>1, <1>2
  <2> QED
    BY <2>1
<1> QED
  BY <1>1, <1>3, <1>4, <1>5 DEF InBox

\* Putting a command into the mailbox.
LEMMA AppendBox ==
  ASSUME NEW q \in Seq(Requests), NEW c \in Requests, Distinct(q), ~InBox(q, c)
  PROVE  /\ Distinct(Append(q, c))
         /\ \A r : InBox(Append(q, c), r) <=> InBox(q, r) \/ r = c
<1>1. /\ Len(q) \in Nat /\ Len(Append(q, c)) = Len(q) + 1
      /\ Append(q, c)[Len(q) + 1] = c
      /\ \A i \in 1..Len(q) : Append(q, c)[i] = q[i]
  OBVIOUS
<1> QED
  BY <1>1 DEF Distinct, InBox

\* What an accepted event adds to the log.
LEMMA AppendEvent ==
  ASSUME NEW log \in Seq(Events), NEW e \in Events, Once(log),
         e.cmd = NoOne \/ ~Applied(log, e.cmd)
  PROVE  /\ Once(Append(log, e))
         /\ \A r : Applied(Append(log, e), r) <=> Applied(log, r) \/ r = e.cmd
         /\ \A s : Reached(Append(log, e), s) <=> Reached(log, s) \/ s = e.new
<1>1. /\ Len(log) \in Nat /\ Len(Append(log, e)) = Len(log) + 1
      /\ Append(log, e)[Len(log) + 1] = e
      /\ \A i \in 1..Len(log) : Append(log, e)[i] = log[i]
  OBVIOUS
<1>2. Once(Append(log, e))
  BY <1>1 DEF Once, Applied
<1>3. \A r : Applied(Append(log, e), r) <=> Applied(log, r) \/ r = e.cmd
  BY <1>1 DEF Applied
<1>4. \A s : Reached(Append(log, e), s) <=> Reached(log, s) \/ s = e.new
  BY <1>1 DEF Reached
<1> QED
  BY <1>2, <1>3, <1>4, Zenon

\* Types of what the steps below change.
LEMMA Typed ==
  ASSUME IInv
  PROVE  /\ mailbox \in Seq(Requests) /\ published \in Seq(Events)
         /\ req \in [Requests -> Calls] /\ inHand \in Events
         /\ Holding => inHand.cmd \in Requests
  BY Zenon DEF IInv, TypeOK, ActorTypeOK, CallsTypeOK, LogTypeOK, CallFollowsLog,
               Holding

\* Initially no command was given.
LEMMA VerdictInit == Init => VInv
<1> SUFFICES ASSUME Init PROVE VInv
  OBVIOUS
<1>1. Len(mailbox) = 0 /\ Len(published) = 0 /\ pc = "start"
  BY DEF Init
<1>2. Distinct(mailbox) /\ Once(published)
  BY <1>1 DEF Distinct, Once
<1>3. \A r : ~InBox(mailbox, r) /\ ~Applied(published, r)
  BY <1>1 DEF InBox, Applied
<1>4. HandOK
  BY <1>1, Zenon DEF HandOK, Holding
<1>5. ASSUME NEW r \in Requests PROVE CallOK(req[r], r, published, Telling)
  <2>1. req[r].result = NoResult /\ req[r].returned = NoResult
    BY Zenon DEF Init
  <2>2. NoResult \notin Replies /\ NoResult # "ok"
    BY Zenon DEF NoResult, Replies
  <2> QED
    BY <1>3, <2>1, <2>2, Zenon DEF CallOK
<1> QED
  BY <1>2, <1>3, <1>4, <1>5, Zenon DEF VInv

\* Steps that touch neither commands nor the log.
LEMMA VerdictFrame ==
  ASSUME VInv, UNCHANGED <<mailbox, req, published>>,
         \/ UNCHANGED <<pc, inHand>>
         \/ pc = "store" /\ pc' = "reply" /\ inHand' = inHand
         \/ /\ pc \notin {"store", "reply"} /\ pc' \notin {"apply", "store", "reply"}
            /\ \/ pc' \notin {"created", "shutdownApply", "shutdownStore"}
               \/ inHand'.cmd = NoOne
  PROVE  VInv'
<1>1. HandOK'
  BY Zenon DEF VInv, HandOK, Holding
<1>2. Telling' = Telling
  BY Zenon DEF Telling
<1> QED
  BY <1>1, <1>2, Zenon DEF VInv

\* An event of Run itself is accepted.
LEMMA OwnEvent ==
  ASSUME IInv, VInv, Send(inHand), UNCHANGED <<mailbox, req>>,
         \/ pc = "created" /\ pc' = "loop"
         \/ pc = "shutdownApply" /\ pc' = "shutdownStore" /\ inHand' = inHand
  PROVE  VInv'
<1>1. inHand.cmd = NoOne
  BY Zenon DEF VInv, HandOK
<1>2. published' = Append(published, inHand)
  BY DEF Send
<1>3. /\ Once(published')
      /\ \A r : Applied(published', r) <=> Applied(published, r) \/ r = NoOne
      /\ \A s : Reached(published, s) => Reached(published', s)
  BY <1>1, <1>2, Typed, AppendEvent, Zenon DEF VInv
<1>4. HandOK'
  BY <1>1, Zenon DEF HandOK, Holding
<1>5. ASSUME NEW r \in Requests PROVE CallOK(req[r], r, published', Telling')
  <2>1. Telling = {} /\ Telling' = {}
    BY Zenon DEF Telling
  <2> QED
    BY <1>3, <1>5, <2>1, RequestsAssumption, Zenon DEF VInv, CallOK
<1> QED
  BY <1>3, <1>4, <1>5, Zenon DEF VInv

\* A command is answered without an event: it is where it asks to be, and then
\* the log says so, or the table refuses it.
LEMMA AnsweredStep ==
  ASSUME IInv, VInv, CommandAnswered
  PROVE  VInv'
<1> DEFINE c == Head(mailbox)
<1>1. mailbox \in Seq(Requests) /\ mailbox # <<>> /\ mailbox' = Tail(mailbox)
      /\ Distinct(mailbox) /\ UNCHANGED <<actorVars, published>> /\ pc = "loop"
  BY Typed, Zenon DEF CommandAnswered, VInv
<1>2. /\ c \in Requests /\ InBox(mailbox, c) /\ Distinct(mailbox')
      /\ ~InBox(mailbox', c) /\ \A r : InBox(mailbox', r) => InBox(mailbox, r)
  BY <1>1, TailBox, Zenon
<1> HIDE DEF c
<1>3. PICK result \in {"ok", "invalid"} :
         /\ req' = [req EXCEPT ![c].result = result]
         /\ result = "ok" => req[c].to = state
  BY DEF CommandAnswered, Reply, c
<1>4. result = "ok" => Reached(published, req[c].to)
  <2> SUFFICES ASSUME req[c].to = state PROVE Reached(published, state)
    BY <1>3
  <2>1. state = StateAfter(published) /\ published \in Seq(Events)
    BY <1>1, Typed, Zenon DEF IInv, CallFollowsLog, Publishing
  <2>2. req[c].to \in Targets
    BY <1>1 DEF IInv, MailboxOK, c
  <2>3. state # "new"
    BY <2>2, TargetsAssumption, Zenon
  <2> QED
    BY <2>1, <2>3 DEF StateAfter, Reached
<1>5. HandOK' /\ Once(published')
  BY <1>1, Zenon DEF HandOK, Holding, VInv, actorVars
<1>6. Telling = {} /\ Telling' = {}
  BY <1>1, Zenon DEF Telling, actorVars
<1>7. ASSUME NEW r \in Requests
      PROVE  /\ InBox(mailbox', r) => Untold(req'[r])
             /\ CallOK(req'[r], r, published', Telling')
  <2>1. CASE r = c
    <3>1. Untold(req[c]) /\ CallOK(req[c], c, published, Telling)
      BY <1>2, Zenon DEF VInv
    <3>2. /\ req'[c].result = result /\ req'[c].at = req[c].at
          /\ req'[c].to = req[c].to /\ req'[c].returned = req[c].returned
      BY <1>2, <1>3, Typed DEF Calls
    <3> QED
      BY <1>1, <1>2, <1>3, <1>4, <1>6, <2>1, <3>1, <3>2, Zenon
      DEF CallOK, Untold, NoResult, Replies
  <2>2. CASE r # c
    <3>1. req'[r] = req[r]
      BY <1>3, <2>2, Typed
    <3> QED
      BY <1>1, <1>2, <1>7, <1>6, <3>1, Zenon DEF VInv
  <2> QED
    BY <2>1, <2>2, Zenon
<1> QED
  BY <1>2, <1>5, <1>7, Zenon DEF VInv

\* A command moves from the mailbox into the actor's hand.
LEMMA AppliesStep ==
  ASSUME IInv, VInv, CommandApplies
  PROVE  VInv'
<1> DEFINE c == Head(mailbox)
<1>1. mailbox \in Seq(Requests) /\ mailbox # <<>> /\ mailbox' = Tail(mailbox)
      /\ Distinct(mailbox) /\ UNCHANGED <<req, published>>
  BY Typed, Zenon DEF CommandApplies, VInv
<1>2. /\ c \in Requests /\ InBox(mailbox, c) /\ Distinct(mailbox')
      /\ ~InBox(mailbox', c) /\ \A r : InBox(mailbox', r) => InBox(mailbox, r)
  BY <1>1, TailBox, Zenon
<1>3. inHand'.cmd = c /\ inHand'.new = req[c].to /\ pc' = "apply"
  BY Zenon DEF CommandApplies, BeginApply, Event
<1> HIDE DEF c
<1>4. HandOK'
  BY <1>1, <1>2, <1>3, Zenon DEF HandOK, Holding, VInv
<1>5. Telling = {} /\ Telling' = {}
  BY <1>3, Zenon DEF CommandApplies, Telling
<1> QED
  BY <1>1, <1>2, <1>4, <1>5, Zenon DEF VInv

\* The event of the command in the hand is accepted; nobody is told yet.
LEMMA PublishedStep ==
  ASSUME IInv, VInv, CommandPublished
  PROVE  VInv'
<1> DEFINE c == inHand.cmd
<1>1. /\ pc = "apply" /\ pc' = "store" /\ UNCHANGED <<mailbox, req, inHand>>
      /\ published' = Append(published, inHand)
  BY Zenon DEF CommandPublished, Send
<1>2. /\ c \in Requests /\ Untold(req[c]) /\ CallOK(req[c], c, published, Telling)
      /\ Telling = {} /\ Telling' = {c}
  BY <1>1, Typed, Zenon DEF VInv, HandOK, Holding, Telling
<1>3. ~Applied(published, c)
  BY <1>2, Zenon DEF CallOK, Untold, NoResult
<1>4. /\ Once(published')
      /\ \A r : Applied(published', r) <=> Applied(published, r) \/ r = c
      /\ \A s : Reached(published, s) => Reached(published', s)
  BY <1>1, <1>3, Typed, AppendEvent, Zenon DEF VInv
<1>5. HandOK'
  BY <1>1, Zenon DEF VInv, HandOK, Holding
<1>6. ASSUME NEW r \in Requests PROVE CallOK(req'[r], r, published', Telling')
  BY <1>1, <1>2, <1>4, <1>6, Zenon DEF VInv, CallOK
<1> QED
  BY <1>1, <1>4, <1>5, <1>6, Zenon DEF VInv

\* The command in the hand leaves it with its verdict: ok with its event in the
\* log, or an error without one.
LEMMA ToldStep ==
  ASSUME IInv, VInv, CommandCancelled \/ CommandReplied
  PROVE  VInv'
<1> DEFINE c == inHand.cmd
<1>1. /\ Holding /\ UNCHANGED <<mailbox, published>> /\ pc' \in {"loop", "closing"}
  BY Zenon DEF CommandCancelled, CommandReplied, RolledBack, Holding
<1>2. /\ c \in Requests /\ Untold(req[c]) /\ ~InBox(mailbox, c)
      /\ req[c].to = inHand.new /\ CallOK(req[c], c, published, Telling)
  BY <1>1, Typed, Zenon DEF VInv, HandOK
<1>3. PICK result \in {"ok", "publish"} :
         /\ req' = [req EXCEPT ![c].result = result]
         /\ result = "ok" => pc = "reply"
         /\ result = "publish" => pc = "apply"
  BY Zenon DEF CommandCancelled, CommandReplied, Reply
<1>4. result = "ok" => Reached(published, inHand.new)
  <2> SUFFICES ASSUME pc = "reply" PROVE Reached(published, inHand.new)
    BY <1>3
  <2>1. published \in Seq(Events) /\ Len(published) >= 2
        /\ inHand = published[Len(published)]
    BY Typed, Zenon DEF IInv, CallFollowsLog, Settling
  <2> QED
    BY <2>1 DEF Reached
<1>5. result = "publish" => ~Applied(published, c)
  BY <1>2, <1>3, Zenon DEF CallOK, Untold, NoResult, Telling
<1>6. HandOK' /\ Telling' = {} /\ Telling \subseteq {c}
  BY <1>1, Zenon DEF HandOK, Holding, Telling
<1>7. ASSUME NEW r \in Requests
      PROVE  /\ InBox(mailbox', r) => Untold(req'[r])
             /\ CallOK(req'[r], r, published', Telling')
  <2>1. CASE r = c
    <3>1. /\ req'[c].result = result /\ req'[c].at = req[c].at
          /\ req'[c].to = req[c].to /\ req'[c].returned = req[c].returned
      BY <1>2, <1>3, Typed DEF Calls
    <3>2. CallOK(req'[c], c, published, {})
      BY <1>2, <1>3, <1>4, <1>5, <3>1, Zenon DEF CallOK, Untold, NoResult, Replies
    <3> QED
      BY <1>1, <1>2, <1>6, <2>1, <3>2, Zenon
  <2>2. CASE r # c
    <3>1. req'[r] = req[r]
      BY <1>3, <2>2, Typed
    <3> QED
      BY <1>1, <1>6, <1>7, <2>2, <3>1, Zenon DEF VInv, CallOK
  <2> QED
    BY <2>1, <2>2, Zenon
<1> QED
  BY <1>1, <1>6, <1>7, Zenon DEF VInv

\* A step of one call of Transition.
Calling(r) ==
  \/ \E to \in Targets : TransitionCalled(r, to)
  \/ TransitionRuns(r) \/ DispatchExpires(r)

\* The caller hands its command over, is answered, or gives up waiting.
LEMMA VerdictCaller ==
  ASSUME IInv, VInv, NEW r \in Requests, Calling(r)
  PROVE  VInv'
<1>1. UNCHANGED <<pc, inHand, published>>
  BY DEF Calling, TransitionCalled, TransitionRuns, CommandSent,
         ResultReceived, ActorClosed, DispatchExpires, actorVars
<1>2. req \in [Requests -> Calls] /\ CallOK(req[r], r, published, Telling)
      /\ mailbox \in Seq(Requests) /\ Distinct(mailbox)
      /\ (InBox(mailbox, r) => Untold(req[r]))
  BY Typed, Zenon DEF VInv
<1>3. /\ \A q \in Requests \ {r} : req'[q] = req[q]
      /\ CallOK(req'[r], r, published, Telling)
      /\ Untold(req[r]) => Untold(req'[r]) /\ req'[r].to = req[r].to
      /\ \/ mailbox' = mailbox
         \/ /\ mailbox' = Append(mailbox, r)
            /\ ~Untold(req[r]) /\ Untold(req'[r])
  <2>1. CASE \E to \in Targets : TransitionCalled(r, to)
    <3>1. PICK to \in Targets : TransitionCalled(r, to)
      BY <2>1
    <3>2. /\ req[r].at = "idle" /\ req'[r].at = "sending"
          /\ req'[r].result = req[r].result /\ req'[r].returned = req[r].returned
      BY <1>2, <3>1 DEF TransitionCalled, Calls
    <3>3. \A q \in Requests \ {r} : req'[q] = req[q]
      BY <1>2, <3>1 DEF TransitionCalled
    <3>4. CallOK(req'[r], r, published, Telling) /\ ~Untold(req[r])
      BY <1>2, <3>2, Zenon DEF CallOK, Untold, NoResult
    <3> QED
      BY <3>1, <3>3, <3>4, Zenon DEF TransitionCalled
  <2>2. CASE CommandSent(r)
    <3>1. /\ req[r].at = "sending" /\ req'[r].at = "waiting" /\ req'[r].to = req[r].to
          /\ req'[r].result = req[r].result /\ req'[r].returned = req[r].returned
          /\ mailbox' = Append(mailbox, r)
      BY <1>2, <2>2 DEF CommandSent, Calls
    <3>2. \A q \in Requests \ {r} : req'[q] = req[q]
      BY <1>2, <2>2 DEF CommandSent
    <3>3. CallOK(req'[r], r, published, Telling) /\ ~Untold(req[r]) /\ Untold(req'[r])
      BY <1>2, <3>1, Zenon DEF CallOK, Untold
    <3> QED
      BY <3>1, <3>2, <3>3, Zenon
  <2>3. CASE ResultReceived(r) \/ ActorClosed(r) \/ DispatchExpires(r)
    <3>1. PICK value \in {req[r].result, "closed", "ctx"} :
            /\ req' = [req EXCEPT ![r].at = "returned", ![r].returned = value]
            /\ mailbox' = mailbox
      BY <2>3, Zenon DEF ResultReceived, ActorClosed, DispatchExpires, Return
    <3>2. /\ req'[r].at = "returned" /\ req'[r].returned = value
          /\ req'[r].result = req[r].result /\ req'[r].to = req[r].to
      BY <1>2, <3>1 DEF Calls
    <3>3. \A q \in Requests \ {r} : req'[q] = req[q]
      BY <1>2, <3>1
    <3>4. CallOK(req'[r], r, published, Telling) /\ (Untold(req[r]) => Untold(req'[r]))
      BY <1>2, <3>2, Zenon DEF CallOK, Untold, Replies
    <3> QED
      BY <3>1, <3>2, <3>3, <3>4, Zenon
  <2> QED
    BY <2>1, <2>2, <2>3, Zenon DEF Calling, TransitionRuns
<1>4. Distinct(mailbox') /\ \A q : InBox(mailbox', q) =>
         InBox(mailbox, q) \/ (q = r /\ ~Untold(req[r]) /\ Untold(req'[r]))
  <2>1. CASE mailbox' = mailbox
    BY <1>2, <2>1, Zenon
  <2>2. CASE mailbox' = Append(mailbox, r) /\ ~Untold(req[r]) /\ Untold(req'[r])
    <3>1. ~InBox(mailbox, r)
      BY <1>2, <2>2, Zenon
    <3>2. /\ Distinct(Append(mailbox, r))
          /\ \A q : InBox(Append(mailbox, r), q) <=> InBox(mailbox, q) \/ q = r
      BY <1>2, <3>1, AppendBox, Zenon
    <3> QED
      BY <2>2, <3>2, Zenon
  <2> QED
    BY <1>3, <2>1, <2>2, Zenon
<1>5. \A q \in Requests : InBox(mailbox', q) => Untold(req'[q])
  BY <1>3, <1>4, Zenon DEF VInv
<1>6. \A q \in Requests : CallOK(req'[q], q, published', Telling')
  <2>1. Telling' = Telling
    BY <1>1, Zenon DEF Telling
  <2> QED
    BY <1>1, <1>3, <2>1, Zenon DEF VInv
<1>7. HandOK'
  <2> SUFFICES ASSUME Holding
               PROVE  /\ Untold(req'[inHand.cmd]) /\ ~InBox(mailbox', inHand.cmd)
                      /\ req'[inHand.cmd].to = inHand.new
    BY <1>1, Zenon DEF VInv, HandOK, Holding
  <2>1. /\ inHand.cmd \in Requests /\ Untold(req[inHand.cmd])
        /\ ~InBox(mailbox, inHand.cmd) /\ req[inHand.cmd].to = inHand.new
    BY Typed, Zenon DEF VInv, HandOK
  <2> QED
    BY <1>3, <1>4, <2>1, Zenon
<1> QED
  BY <1>1, <1>4, <1>5, <1>6, <1>7, Zenon DEF VInv

-----------------------------------------------------------------------------
\* The inductive invariant holds in every state.
THEOREM VerdictInvariant == Spec => []VInv
<1>1. IInv /\ VInv /\ [Next]_vars => VInv'
  <2> SUFFICES ASSUME IInv, VInv, [Next]_vars PROVE VInv'
    OBVIOUS
  <2>1. CASE ActorRun
    <3>1. CASE RunStarts \/ ShutdownApplies
      <4>1. /\ UNCHANGED <<mailbox, req, published>> /\ pc \in {"start", "shutdown"}
            /\ pc' \in {"created", "shutdownApply"}
            /\ \E n, old, new : inHand' = Event(n, old, new, NoOne)
        BY <3>1, Zenon DEF RunStarts, ShutdownApplies, BeginApply
      <4>2. inHand'.cmd = NoOne
        BY <4>1 DEF Event
      <4> QED
        BY <4>1, <4>2, VerdictFrame, Zenon
    <3>2. CASE CreatedCancelled \/ ShutdownStarts \/ ShutdownExpires \/ RunReturns
      BY <3>2, VerdictFrame, Zenon
      DEF CreatedCancelled, ShutdownStarts, ShutdownExpires, RunReturns, RolledBack
    <3>3. CASE CreatedPublished \/ ShutdownPublished
      BY <3>3, OwnEvent, Zenon DEF CreatedPublished, ShutdownPublished
    <3>4. CASE SnapshotStored
      <4>1. UNCHANGED <<mailbox, req, published>>
            /\ \/ pc = "store" /\ pc' = "reply" /\ inHand' = inHand
               \/ pc = "shutdownStore" /\ pc' \in {"closing", "shutdown"}
        BY <3>4, Zenon DEF SnapshotStored
      <4> QED
        BY <4>1, VerdictFrame, Zenon
    <3> QED
      BY <2>1, <3>1, <3>2, <3>3, <3>4, AnsweredStep, AppliesStep, PublishedStep,
         ToldStep, Zenon DEF ActorRun
  <2>2. CASE BusRun \/ GroupCancelled \/ cancelActor \/ UNCHANGED vars
    <3>1. UNCHANGED <<mailbox, req, published, pc, inHand>>
      BY <2>2, Zenon DEF BusRun, EventReceived, EventWritten, WriteFails, BusStops, GroupCancelled,
                  cancelActor, vars, actorVars
    <3> QED
      BY <3>1, VerdictFrame, Zenon
  <2> QED
    BY <2>1, <2>2, VerdictCaller, Zenon DEF Next, Calling
<1> QED
  BY <1>1, VerdictInit, InvariantHolds, PTL DEF Spec

\* No command is applied twice, also when its caller has given up and another
\* caller asks for the same.
THEOREM AppliedOnce == Spec => []CommandsApplyOnce
<1>1. VInv => CommandsApplyOnce
  BY Zenon DEF VInv, Once, CommandsApplyOnce
<1> QED
  BY <1>1, VerdictInvariant, PTL

\* nil from Transition means that the log has reached the state, an error of the
\* actor that the command left no event.
THEOREM VerdictsAreTrue == Spec => []VerdictIsTrue
<1>1. VInv => VerdictIsTrue
  <2> SUFFICES ASSUME VInv, NEW r \in Requests
               PROVE  /\ req[r].returned = "ok" => Reached(published, req[r].to)
                      /\ req[r].returned \in {"invalid", "publish"} =>
                           ~Applied(published, r)
    BY Zenon DEF VerdictIsTrue, Reached, Applied
  <2>1. r \in Telling => req[r].result = NoResult
    BY Zenon DEF VInv, HandOK, Holding, Telling, Untold
  <2> QED
    BY <2>1, Zenon DEF VInv, CallOK, Replies, NoResult
<1> QED
  BY <1>1, VerdictInvariant, PTL
-----------------------------------------------------------------------------
(* The snapshot and the log.  The two are refreshed one after the other, so *)
(* the snapshot is one event behind between the send and storeSnapshot; and *)
(* its times come from a call record that a rolled back publication has     *)
(* changed.                                                                 *)

Ends == {s \in States : isTerminal(s)}

\* The event that publish has numbered and the bus has not accepted.
Offered == IF pc \in {"created", "apply", "shutdownApply"} THEN {inHand} ELSE {}

\* Time t of the call record, whose numbers go up to n, fits the log and the
\* event that is offered.
StampOK(t, S, log, n, offered) ==
  /\ t \in Nat /\ t <= n
  /\ \A i \in 1..Len(log) : TimeFits(t, log[i], S)
  /\ \A e \in offered : TimeFits(t, e, S)

Stamps ==
  /\ StampOK(answeredAt, {"answered"}, published, sequence, Offered)
  /\ StampOK(endedAt, Ends, published, sequence, Offered)

\* How many events the snapshot shows.
ShownEvents == IF Lagging THEN Len(published) - 1 ELSE Len(published)

SInv ==
  /\ Stamps
  /\ Shows(snapshot, published, ShownEvents)
  /\ pc \in {"start", "created"} =>
       snapshot.answeredAt = answeredAt /\ snapshot.endedAt = endedAt

-----------------------------------------------------------------------------
\* A time is set with the number of the event that is offered next, or kept.
LEMMA StampNew ==
  ASSUME NEW log \in Seq(Events), NEW n \in Nat, NEW S, NEW t, NEW H, NEW e,
         StampOK(t, S, log, n, H), e.seq = n + 1,
         \A i \in 1..Len(log) : log[i].seq <= n
  PROVE  StampOK(IF e.new \in S THEN n + 1 ELSE t, S, log, n + 1, {e})
<1> DEFINE u == IF e.new \in S THEN n + 1 ELSE t
<1>1. t \in Nat /\ t <= n /\ \A i \in 1..Len(log) : TimeFits(t, log[i], S)
  BY Zenon DEF StampOK
<1>2. u \in Nat /\ u <= n + 1 /\ t <= u /\ (u = t \/ u = n + 1)
  <2>1. t \in Nat /\ t <= n
    BY <1>1, Zenon
  <2> QED
    BY <2>1
<1>3. TimeFits(u, e, S)
  BY <1>1 DEF TimeFits
<1> HIDE DEF u
<1>4. ASSUME NEW i \in 1..Len(log) PROVE TimeFits(u, log[i], S)
  <2>1. log[i] \in Events
    BY <1>4
  <2>2. log[i].seq \in Nat
    BY <2>1, Zenon DEF Events
  <2>3. log[i].seq <= n /\ TimeFits(t, log[i], S)
    BY <1>1, <1>4, Zenon
  <2> DEFINE q == log[i].seq
             b == log[i].new \in S
  <2>4. q \in Nat /\ q <= n /\ (b => q <= t) /\ (q = t => b)
    BY <2>2, <2>3, Zenon DEF TimeFits
  <2> HIDE DEF q, b
  <2>5. (b => q <= u) /\ (q = u => b)
    BY <1>1, <1>2, <2>4
  <2> QED
    BY <2>5, Zenon DEF q, b, TimeFits
<1>5. StampOK(u, S, log, n + 1, {e})
  BY <1>2, <1>3, <1>4, Zenon DEF StampOK
<1> QED
  BY <1>5 DEF u

\* The offered event becomes the last one of the log.
LEMMA StampSent ==
  ASSUME NEW log \in Seq(Events), NEW n \in Nat, NEW S, NEW t, NEW e \in Events,
         StampOK(t, S, log, n, {e})
  PROVE  StampOK(t, S, Append(log, e), n, {})
<1>1. /\ Len(Append(log, e)) = Len(log) + 1 /\ Len(log) \in Nat
      /\ Append(log, e)[Len(log) + 1] = e
      /\ \A i \in 1..Len(log) : Append(log, e)[i] = log[i]
  OBVIOUS
<1>2. \A i \in 1..(Len(log) + 1) : i \in 1..Len(log) \/ i = Len(log) + 1
  BY <1>1
<1> QED
  BY <1>1, <1>2, Zenon DEF StampOK

\* The times of the call record keep fitting the log.
LEMMA StampStep ==
  ASSUME IInv, Stamps, [Next]_vars
  PROVE  Stamps'
<1>0. /\ published \in Seq(Events) /\ inHand \in Events /\ sequence \in Nat
      /\ state \in States
      /\ \A i \in 1..Len(published) : published[i].seq <= sequence
  BY Zenon DEF IInv, TypeOK, ActorTypeOK, LogTypeOK, SequenceOK
<1>1. CASE RunStarts
  <2>1. /\ UNCHANGED <<answeredAt, endedAt, published>> /\ sequence' = sequence + 1
        /\ inHand' = Event(sequence + 1, state, NoState, NoOne)
        /\ pc' = "created"
    BY <1>1, Zenon DEF RunStarts
  <2>2. inHand'.seq = sequence + 1 /\ inHand'.new = NoState /\ Offered' = {inHand'}
    BY <2>1, Zenon DEF Event, Offered
  <2>3. NoState \notin {"answered"} /\ NoState \notin Ends
    BY DEF NoState, Ends, States
  <2>4. /\ StampOK(IF inHand'.new \in {"answered"} THEN sequence + 1 ELSE answeredAt,
                   {"answered"}, published, sequence + 1, {inHand'})
        /\ StampOK(IF inHand'.new \in Ends THEN sequence + 1 ELSE endedAt,
                   Ends, published, sequence + 1, {inHand'})
    BY <1>0, <2>2, StampNew, Zenon DEF Stamps
  <2> QED
    BY <2>1, <2>2, <2>3, <2>4, Zenon DEF Stamps
<1>2. CASE CommandApplies \/ ShutdownApplies
  <2>1. PICK by, to : BeginApply(by, to) /\ to \in States
    <3>1. CASE CommandApplies
      BY <1>0, <3>1, SuccessorsOK, Zenon DEF CommandApplies
    <3>2. CASE ShutdownApplies
      BY <3>2, Zenon DEF ShutdownApplies, States
    <3> QED
      BY <1>2, <3>1, <3>2, Zenon
  <2>2. published' = published /\ pc' \in {"apply", "shutdownApply"}
    BY <1>2, Zenon DEF CommandApplies, ShutdownApplies
  <2>3. /\ inHand'.seq = sequence + 1 /\ inHand'.new = to /\ Offered' = {inHand'}
        /\ sequence' = sequence + 1
    BY <2>1, <2>2, Zenon DEF BeginApply, Event, Offered
  <2>4. /\ StampOK(IF inHand'.new \in {"answered"} THEN sequence + 1 ELSE answeredAt,
                   {"answered"}, published, sequence + 1, {inHand'})
        /\ StampOK(IF inHand'.new \in Ends THEN sequence + 1 ELSE endedAt,
                   Ends, published, sequence + 1, {inHand'})
    BY <1>0, <2>3, StampNew, Zenon DEF Stamps
  <2>5. /\ answeredAt' = IF to \in {"answered"} THEN sequence + 1 ELSE answeredAt
        /\ endedAt' = IF to \in Ends THEN sequence + 1 ELSE endedAt
    BY <2>1, Zenon DEF BeginApply, Ends
  <2> QED
    BY <2>2, <2>3, <2>4, <2>5, Zenon DEF Stamps
<1>3. CASE CreatedPublished \/ CommandPublished \/ ShutdownPublished
  <2>1. /\ UNCHANGED <<answeredAt, endedAt, sequence>>
        /\ published' = Append(published, inHand)
        /\ Offered = {inHand} /\ Offered' = {}
    BY <1>3, Zenon DEF CreatedPublished, CommandPublished, ShutdownPublished, Send,
                       Offered
  <2>2. /\ StampOK(answeredAt, {"answered"}, Append(published, inHand), sequence, {})
        /\ StampOK(endedAt, Ends, Append(published, inHand), sequence, {})
    BY <1>0, <2>1, StampSent, Zenon DEF Stamps
  <2> QED
    BY <2>1, <2>2, Zenon DEF Stamps
<1>4. ASSUME UNCHANGED <<answeredAt, endedAt, sequence, published>>,
             UNCHANGED <<pc, inHand>>
               \/ pc' \notin {"created", "apply", "shutdownApply"}
      PROVE  Stamps'
  <2>1. Offered' = Offered \/ Offered' = {}
    BY <1>4, Zenon DEF Offered
  <2> QED
    BY <1>4, <2>1, Zenon DEF Stamps, StampOK
<1>5. CASE CreatedCancelled \/ CommandAnswered \/ CommandCancelled \/ ShutdownStarts
  BY <1>4, <1>5, Zenon DEF CreatedCancelled, CommandAnswered, CommandCancelled,
                           ShutdownStarts, RolledBack, actorVars
<1>6. CASE ShutdownExpires \/ SnapshotStored \/ CommandReplied \/ RunReturns
  BY <1>4, <1>6, Zenon DEF ShutdownExpires, SnapshotStored, CommandReplied,
                           RunReturns, RolledBack
<1>7. CASE BusRun \/ GroupCancelled \/ cancelActor \/ UNCHANGED vars
  BY <1>4, <1>7, Zenon DEF BusRun, EventReceived, EventWritten, WriteFails, BusStops,
                           GroupCancelled, cancelActor, vars, actorVars
<1>8. CASE \E r \in Requests : Calling(r)
  BY <1>4, <1>8, Zenon DEF Calling, TransitionCalled, TransitionRuns, CommandSent,
                           ResultReceived, ActorClosed, DispatchExpires, actorVars
<1> QED
  BY <1>1, <1>2, <1>3, <1>5, <1>6, <1>7, <1>8, Zenon DEF Next, ActorRun, Calling

-----------------------------------------------------------------------------
\* All that a step may do to the log and the snapshot.
LEMMA ShownStep ==
  ASSUME [Next]_vars
  PROVE  \/ CreatedPublished \/ CommandPublished \/ ShutdownPublished
         \/ SnapshotStored
         \/ /\ UNCHANGED <<snapshot, published>> /\ (Lagging' <=> Lagging)
            /\ \/ UNCHANGED <<pc, answeredAt, endedAt>>
               \/ pc = "start" /\ UNCHANGED <<answeredAt, endedAt>>
               \/ pc' \notin {"start", "created"}
<1>1. CASE RunStarts \/ CreatedCancelled \/ CommandAnswered \/ CommandApplies
  BY <1>1, Zenon DEF RunStarts, CreatedCancelled, CommandAnswered, CommandApplies,
                     Lagging, actorVars
<1>2. CASE CommandCancelled \/ ShutdownStarts \/ ShutdownApplies \/ ShutdownExpires
  BY <1>2, Zenon DEF CommandCancelled, ShutdownStarts, ShutdownApplies,
                     ShutdownExpires, RolledBack, Lagging
<1>3. CASE CommandReplied \/ RunReturns
  BY <1>3, Zenon DEF CommandReplied, RunReturns, Lagging
<1>4. CASE BusRun \/ GroupCancelled \/ cancelActor \/ UNCHANGED vars
  BY <1>4, Zenon DEF BusRun, EventReceived, EventWritten, WriteFails, BusStops,
                     GroupCancelled, cancelActor, vars, actorVars, Lagging
<1>5. CASE \E r \in Requests : Calling(r)
  BY <1>5, Zenon DEF Calling, TransitionCalled, TransitionRuns, CommandSent,
                     ResultReceived, ActorClosed, DispatchExpires, actorVars, Lagging
<1> QED
  BY <1>1, <1>2, <1>3, <1>4, <1>5, Zenon DEF Next, ActorRun, Calling

\* Every step keeps the snapshot at the end of the log, or one event before it.
LEMMA SnapshotStep ==
  ASSUME IInv, SInv, [Next]_vars
  PROVE  SInv'
<1>0. published \in Seq(Events) /\ inHand \in Events /\ Len(published) \in Nat
  BY DEF IInv, TypeOK, ActorTypeOK, LogTypeOK
<1>1. Stamps'
  BY StampStep, Zenon DEF SInv
<1>2. CASE CreatedPublished
  <2>1. /\ pc = "created" /\ pc' = "loop" /\ snapshot' = snapshot
        /\ published' = Append(published, inHand)
    BY <1>2, Zenon DEF CreatedPublished, Send
  <2>2. published = <<>> /\ ~Lagging /\ ~Lagging'
    BY <2>1, Zenon DEF IInv, CallFollowsLog, Lagging
  <2>3. Len(published) = 0 /\ Len(published') = 1 /\ published'[1] = inHand
    BY <1>0, <2>1, <2>2
  <2>4. ShownEvents = 0 /\ ShownEvents' = 1
    BY <2>2, <2>3, Zenon DEF ShownEvents
  <2>5. snapshot.state = "new"
    BY <2>4 DEF SInv, Shows
  <2>6. /\ TimeFits(snapshot.answeredAt, inHand, {"answered"})
        /\ TimeFits(snapshot.endedAt, inHand, Ends)
    BY <2>1, Zenon DEF SInv, Stamps, StampOK, Offered
  <2>7. Shows(snapshot', published', 1)
    BY <2>1, <2>3, <2>5, <2>6 DEF Shows, Ends
  <2> QED
    BY <1>1, <2>1, <2>4, <2>7, Zenon DEF SInv
<1>3. CASE CommandPublished \/ ShutdownPublished
  <2>1. /\ ~Lagging /\ Lagging' /\ snapshot' = snapshot
        /\ published' = Append(published, inHand) /\ pc' \notin {"start", "created"}
    BY <1>3, Zenon DEF CommandPublished, ShutdownPublished, Send, Lagging
  <2>2. /\ Len(published') = Len(published) + 1
        /\ \A i \in 1..Len(published) : published'[i] = published[i]
    BY <1>0, <2>1
  <2>3. ShownEvents = Len(published) /\ ShownEvents' = Len(published)
    BY <1>0, <2>1, <2>2 DEF ShownEvents
  <2>4. Len(published) <= 1 \/ Len(published) \in 1..Len(published)
    BY <1>0
  <2>5. Shows(snapshot', published', Len(published))
    BY <2>1, <2>2, <2>3, <2>4, Zenon DEF SInv, Shows
  <2> QED
    BY <1>1, <2>1, <2>3, <2>5, Zenon DEF SInv
<1>4. CASE SnapshotStored
  <2>1. /\ Settling /\ ~Publishing /\ ~Lagging' /\ published' = published
        /\ snapshot' = [state |-> state, answeredAt |-> answeredAt, endedAt |-> endedAt]
        /\ pc' \notin {"start", "created"}
    BY <1>4, Zenon DEF SnapshotStored, storeSnapshot, Settling, Publishing, Lagging
  <2>2. /\ snapshot'.state = state /\ snapshot'.answeredAt = answeredAt
        /\ snapshot'.endedAt = endedAt
    BY <2>1, Zenon
  <2>3. state = StateAfter(published) /\ ShownEvents' = Len(published)
    BY <2>1, Zenon DEF IInv, CallFollowsLog, ShownEvents
  <2>4. Shows(snapshot', published, Len(published))
    BY <2>2, <2>3, Zenon DEF Shows, StateAfter, SInv, Stamps, StampOK, Ends
  <2> QED
    BY <1>1, <2>1, <2>3, <2>4, Zenon DEF SInv
<1>5. CASE /\ UNCHANGED <<snapshot, published>> /\ (Lagging' <=> Lagging)
           /\ \/ UNCHANGED <<pc, answeredAt, endedAt>>
              \/ pc = "start" /\ UNCHANGED <<answeredAt, endedAt>>
              \/ pc' \notin {"start", "created"}
  <2>1. ShownEvents' = ShownEvents
    BY <1>5, Zenon DEF ShownEvents
  <2> QED
    BY <1>1, <1>5, <2>1, Zenon DEF SInv
<1> QED
  BY <1>2, <1>3, <1>4, <1>5, ShownStep, Zenon

\* The inductive invariant of the snapshot, the call record and the log.
THEOREM SnapshotInvariant == Spec => []SInv
<1>1. Init => SInv
  <2> SUFFICES ASSUME Init PROVE SInv
    OBVIOUS
  <2>1. Stamps
    BY DEF Init, Stamps, StampOK, Offered
  <2>2. ShownEvents = 0
    BY DEF Init, ShownEvents, Lagging
  <2>3. Shows(snapshot, published, 0)
    BY DEF Init, Shows
  <2> QED
    BY <2>1, <2>2, <2>3, Zenon DEF SInv, Init
<1>2. IInv /\ SInv /\ [Next]_vars => SInv'
  BY SnapshotStep
<1> QED
  BY <1>1, <1>2, InvariantHolds, PTL DEF Spec

\* Actor.Snapshot is at most one accepted event behind; a caller that was told
\* nil finds its own event in it, and so does everyone once the actor is done.
\* Its times are those of the log, or of a publication that was given up.
THEOREM SnapshotFollowsLog == Spec => []SnapshotMatchesLog
<1>1. IInv /\ VInv /\ SInv => SnapshotMatchesLog
  <2> SUFFICES ASSUME IInv, VInv, SInv PROVE SnapshotMatchesLog
    OBVIOUS
  <2> DEFINE k == ShownEvents
             n == Len(published)
  <2>1. Len(published) \in Nat /\ (Lagging => Len(published) >= 2)
    BY DEF IInv, TypeOK, LogTypeOK, CallFollowsLog, Settling, Lagging
  <2>2. k \in 0..n /\ k >= n - 1 /\ (~Lagging => k = n) /\ (Lagging => k = n - 1)
    BY <2>1 DEF ShownEvents
  <2>3. done => ~Lagging
    BY DEF done, Lagging
  <2>4. ASSUME NEW r \in Requests, req[r].returned = "ok", NEW i \in (k + 1)..n
        PROVE  published[i].cmd # r
    <3>1. Lagging /\ i = Len(published)
      BY <2>1, <2>2, <2>4
    <3>2. published[i] = inHand
      BY <3>1, Zenon DEF IInv, CallFollowsLog, Settling, Lagging
    <3>3. CASE pc = "shutdownStore"
      BY <2>4, <3>2, <3>3, RequestsAssumption, Zenon DEF VInv, HandOK
    <3>4. CASE pc = "store"
      <4>1. Untold(req[inHand.cmd])
        BY <3>4, Zenon DEF VInv, HandOK, Holding
      <4>2. req[r].returned = req[r].result
        BY <2>4, Zenon DEF VInv, CallOK, Replies
      <4>3. req[r].result # NoResult
        BY <2>4, <4>2, Zenon DEF NoResult
      <4> QED
        BY <3>2, <4>1, <4>3, Zenon DEF Untold
    <3> QED
      BY <3>1, <3>3, <3>4, Zenon DEF Lagging
  <2>5. Shows(snapshot, published, k)
    BY Zenon DEF SInv
  <2> HIDE DEF k
  <2> QED
    BY <2>2, <2>3, <2>4, <2>5, Zenon DEF SnapshotMatchesLog
<1> QED
  BY <1>1, InvariantHolds, VerdictInvariant, SnapshotInvariant, PTL

-----------------------------------------------------------------------------
(* The refinement of CallLifecycle.                                         *)

\* Outside the window after a send the snapshot shows where the log ends.
LEMMA VisibleState ==
  ASSUME SInv, ~Lagging
  PROVE  snapshot.state = StateAfter(published)
  BY Zenon DEF SInv, Shows, ShownEvents, StateAfter

\* An accepted event is a step of the lifecycle.
LEMMA AcceptedIsStep ==
  ASSUME IInv, SInv, published' = Append(published, inHand),
         UNCHANGED <<snapshot, rows>>, pc = "created" \/ Publishing
  PROVE  Lifecycle!Accepted
<1>0. published \in Seq(Events) /\ inHand \in Events /\ sequence \in Nat
  BY Zenon DEF IInv, TypeOK, ActorTypeOK, LogTypeOK
<1>1. /\ published' # <<>> /\ Len(published') = Len(published) + 1
      /\ published'[Len(published')] = inHand
  BY <1>0, AppendLog
<1>2. snapshot.state = StateAfter(published)
  BY VisibleState, Zenon DEF Publishing, Lagging
<1>3. Lifecycle!Created(inHand) \/ Lifecycle!Moved(inHand)
  <2>1. CASE pc = "created"
    <3>1. published = <<>> /\ inHand.old = "new" /\ inHand.new = NoState
      BY <2>1, Zenon DEF IInv, CallFollowsLog
    <3>2. StateAfter(published) = "new"
      BY <3>1 DEF StateAfter
    <3> QED
      BY <1>2, <3>1, <3>2, Zenon DEF Lifecycle!Created, NoState, Lifecycle!NoState
  <2>2. CASE Publishing
    <3>1. /\ published # <<>> /\ inHand.seq = sequence
          /\ inHand.old = snapshot.state
          /\ allowedTransition(inHand.old, inHand.new)
      BY <1>2, <2>2, Zenon DEF IInv, CallFollowsLog
    <3>2. published[Len(published)].seq < sequence
      BY <1>0, <2>2, <3>1 DEF IInv, SequenceOK
    <3>3. Len(published) > 1 => snapshot.state = published[Len(published)].new
      BY <1>0, <1>2 DEF StateAfter
    <3>4. inHand.seq > published[Len(published)].seq
      BY <3>1, <3>2
    <3> QED
      BY <3>1, <3>3, <3>4, Zenon DEF Lifecycle!Moved, allowedTransition,
                              Lifecycle!allowedTransition
  <2> QED
    BY <2>1, <2>2, Zenon
<1> QED
  BY <1>1, <1>3, Zenon DEF Lifecycle!Accepted

\* Every step of the actor, its callers and the bus is a step of the lifecycle
\* or leaves log, snapshot and rows alone.
LEMMA LifecycleStep ==
  ASSUME IInv, SInv, RowsArePrefix, [Next]_vars
  PROVE  Lifecycle!LNext \/ UNCHANGED <<snapshot, published, rows>>
<1>1. CASE CreatedPublished \/ CommandPublished \/ ShutdownPublished
  <2>1. /\ published' = Append(published, inHand) /\ UNCHANGED <<snapshot, rows>>
        /\ pc = "created" \/ Publishing
    BY <1>1, Zenon DEF CreatedPublished, CommandPublished, ShutdownPublished, Send,
                       Publishing, storeVars
  <2> QED
    BY <2>1, AcceptedIsStep, Zenon DEF Lifecycle!LNext
<1>2. CASE SnapshotStored
  <2>1. /\ Settling /\ ~Publishing /\ UNCHANGED <<published, rows>>
        /\ snapshot'.state = state
    BY <1>2 DEF SnapshotStored, storeSnapshot, Settling, Publishing, storeVars
  <2>2. state = StateAfter(published) /\ Len(published) >= 2 /\ published \in Seq(Events)
    BY <2>1, Zenon DEF IInv, TypeOK, LogTypeOK, CallFollowsLog
  <2>3. Len(published) > 1 /\ state = published[Len(published)].new
    BY <2>2 DEF StateAfter
  <2> QED
    BY <2>1, <2>3, Zenon DEF Lifecycle!LNext, Lifecycle!Shown
<1>3. CASE EventWritten
  <2>1. UNCHANGED <<snapshot, published>> /\ rows' = Append(rows, Head(writing))
    BY <1>3, Zenon DEF EventWritten, actorVars
  <2>2. Len(rows) + 1 <= Len(published) /\ published[Len(rows) + 1] = Head(writing)
    BY <1>3, WrittenNext, Zenon DEF IInv
  <2>3. Len(rows) < Len(published)
    <3>1. Len(rows) \in Nat /\ Len(published) \in Nat
      BY DEF IInv, TypeOK, LogTypeOK
    <3> QED
      BY <2>2, <3>1
  <2> QED
    BY <2>1, <2>2, <2>3, Zenon DEF Lifecycle!LNext, Lifecycle!Stored
<1>4. CASE UNCHANGED <<snapshot, published>> /\ ~EventWritten
  <2>1. rows' = rows
    BY <1>4, LogStep, Zenon DEF Sends, Leaves, EventReceived, WriteFails
  <2> QED
    BY <1>4, <2>1, Zenon
<1> QED
  BY <1>1, <1>2, <1>3, <1>4, ShownStep, Zenon

\* For every number of callers and every capacity the actor, its bus and its
\* store implement CallLifecycle: events, snapshots and rows show one and the
\* same path of the transition table, none of them ever steps back, and an event
\* is accepted only when the snapshot shows the ones before it.
THEOREM ImplementsLifecycle == Spec => LifecycleSpec
<1>1. Init => Lifecycle!LInit
  BY DEF Init, Lifecycle!LInit
<1>2. IInv /\ SInv /\ RowsArePrefix /\ [Next]_vars => [Lifecycle!LNext]_(Lifecycle!lvars)
  BY LifecycleStep, Zenon DEF Lifecycle!lvars
<1> QED
  BY <1>1, <1>2, InvariantHolds, SnapshotInvariant, RowsPrefix, PTL
  DEF Spec, LifecycleSpec, Lifecycle!LSpec
=============================================================================
