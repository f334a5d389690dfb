# Verification of aixvolink-pbx

TLA+ models of the PBX in `src/`, the TLC runs that check them on small instances,
and proofs that TLAPS checks for every instance. `PROJECT.json` maps each definition
to the lines it models and lists the hazards, the runs, the mutants and the theorems.

## The system

The process (`cmd/aixvolinkpbx`) is an errgroup of three goroutines: the call event
bus, the media summary bus and the application. The application serves SIP over
UDP and TCP, expires registrations on a ticker, and on shutdown waits for the calls.

* A **REGISTER** goes to the registrar handler, the registration manager and one of
  two stores (memory, MySQL).
* An **INVITE** is admitted by the B2BUA engine, which gives it a *session*
  goroutine. The session resolves the callee, leases RTP ports, invites the callee
  and relays the answer, then handles in-dialog requests from a bounded queue.
* The session owns a **call actor**, which alone changes the call's state. Other
  goroutines ask it for transitions through a bounded mailbox. It publishes each
  transition to the call bus, whose consumer writes `call_events` and the call's CDR.
* The session also owns a **media session**: two leased port pairs, two endpoints
  that each answer reconfigures, and five goroutines that forward RTP, read RTCP and
  write reports. They read the endpoints through atomics, without a lock.

| Part of the system | Source (`src/`) | Modules | Status |
|---|---|---|---|
| Call actor, transition table | `internal/core/call` | CallStates, CallActor, CallLifecycle; CallActorProofs | modelled, safety proved |
| Call event bus | `internal/event/call_bus.go` | CallActor; CallActorProofs | modelled, safety proved |
| Call event store | `internal/platform/mysql/store.go` | CallActor; CallActorProofs | `WriteCallEvent`, proved |
| B2BUA session, in-dialog requests | `internal/sip/b2bua` | Session; SessionProofs | modelled, safety proved |
| Engine admission, application, process | `internal/sip/b2bua/engine.go`, `internal/app`, `cmd` | App; AppProofs | modelled, safety proved |
| Port pool | `internal/media/portalloc` | PortPool; PortPoolProofs | modelled, safety proved |
| Media session lifecycle | `internal/media/session/session.go` | PortPool, MediaLoops; PortPoolProofs, MediaLoopsProofs | modelled, safety proved |
| SDP offer/answer | `internal/sip/sdp` | Sdp; MediaEndpointsProofs | rules, without the text |
| Media endpoints, forwarding | `internal/media/session` | MediaEndpoints; MediaEndpointsProofs | modelled, proved |
| RTP receive statistics, rewriter | `internal/media/rtp` | RtpTracker, RtpForward; RtpProofs | `Observe` without jitter; `Rewrite`; proved |
| RTCP and quality | `internal/media/session/rtcp.go`, `quality.go` | MediaLoops, Rtcp; RtpProofs | control and arithmetic |
| Registrar, manager | `internal/sip/registrar`, `internal/core/registration` | Registration; RegistrationProofs | without authentication and `Resolve`; proved |
| Registration stores | `internal/platform/memory`, `internal/platform/mysql` | Registration; RegistrationProofs | modelled |
| Digest authentication, DTMF codec, migrations, spikes | | | not modelled |

## The modules

**CallStates** is `allowedTransition` and `isTerminal`.

**CallActor** has one variable per field of `Actor` and `Call` that matters, the
mailbox, one record per call of `Actor.Transition`, the bus channel, and the two
tables. `pc` says where `Actor.Run` is. `apply` is split at its blocking `Publish`,
because the call is changed before the event is accepted and rolled back if it is
not. It is split again behind it: the send to the bus, `storeSnapshot`, the reply to
the caller and the close of `done` are four steps, and the store, a reader of
snapshots or a caller may run between any two. The bus consumer likewise takes an event
(`writing`) and stores it in two steps. Each case of each Go `select` is an action, so a
select with several ready cases is a choice. `published` is a history variable: all events the bus accepted.
A timestamp is the sequence number of its publication.

**CallLifecycle** is what the actor promises to someone who sees only its events, its
snapshots and the event table. Each of the three changes in a step of its own: a
transition is accepted only from the state that the snapshot shows, and then snapshot
and table follow the log, in either order. `LifecycleSpec` instantiates it with
`visible <- snapshot.state`, `log <- published` and `stored <- rows`, so that every step
of CallActor is a step or a stutter of it.

**Session** is `session.run` with the handlers that feed its queue. The actor is
reduced to the state it keeps and to the commands that expired `Transition` calls
have left in its mailbox (`late`), which it may still apply. The legs are external:
a response or a BYE is an assignment to `caller` or `callee`, and any network
operation may fail. The deferred calls run as the steps `JoinActor`, `StopMedia`,
`Remove` and `CloseDone`, in the reverse order of registration.

**App** is the errgroup, `App.Run` and the engine's counters. A session is one state
that ends at any time, and does end when its context is done. That second part is
`CancelledSessionEnds` of Session, and there it rests on `CancelledActorExits` of
CallActor and on `StopReturns` of MediaLoops.

**PortPool** is `Pool.Acquire` and `Release`, `Factory.New` and `Session.Close` for
several media sessions. The channel is a set with the channel's capacity.

**MediaLoops** is `Session.run` of the media session: the errgroup with its five
goroutines, `Close` with its `sync.Once` and the two leases it releases socket by
socket, and `startMedia` and `stopMedia` of the B2BUA. A packet is only an event
here. A loop looks at its context only when a read or a write fails, as in the code.

**Sdp** has `ParseAudio`, `Negotiate`, `BuildAudio` and `CodecListForAnswer` as
operators on descriptions; the RTCP port is the RTP port plus one in the width of a
port. A list of codecs is a function on the places of the description: the code only
goes through such a list in order, so an unsupported codec leaves its place empty.

**MediaEndpoints** is `applyMediaAnswer`, `Session.Configure`, `endpoint.configure`
and `forwardRTP` with `acceptsRTP`, `payloadMapping`, `canSend`, `canReceive` and
`rtpTarget`. Each atomic load, store or compare-and-swap is one action, so a packet
may meet any part of a Configure. `said`, `pinner`, `crossed` and the loops' `clean`
are history.

**RtpTracker** is `Tracker.Observe` next to the sender's own unbounded numbering
(history), with a smaller modulus and window. **RtpForward** extends it with the rest of
`forwardRTP`: what the tracker does not drop, and the legs do not refuse, is renumbered
(`Rewrite`), and then it is sent (`Written`), or dropped because it cannot be marshalled
or has no target (`Discarded`). `sent`, `origin` and `unsent` are history.

**Rtcp** is the arithmetic of RTCP reports: the compact NTP clock, the delay since
the last report, the fraction lost and the round trip time, in their real widths.

**Registration** is one address of record. The handler reads the clock and calls the
store in separate steps, as the code does, so time passes and other requests run in
between. `Backend` selects the store. The field `until` is history.

`MCCallActor` and `MCRegistration` add symmetry sets, `MCMedia` the descriptions of
the two peers. Definitions marked "Mutant" are plausible bugs. No specification uses
them; each is substituted for the definition after it to confirm that a property
notices. The modules named `...Proofs` hold the theorems about the modules they extend.

## What the runs check

Deadlock checking is off everywhere: a call, a process, a request or a bounded
stream may come to its end.

| Run | Instance | What it shows |
|---|---|---|
| CallActor_safety | 3 Transition calls, 3 target states, mailbox and bus of 1 | The accepted events are one path of the table; a snapshot is at most one event behind them, never behind what its reader was told, and complete when the actor has exited; no command is applied twice; callers are told the truth; the stored rows are a prefix of the log and the CDR is their summary |
| CallActor_liveness | 2 calls, 2 targets | The actor implements CallLifecycle; each Transition returns; a cancelled actor exits; accepted events are stored unless the consumer stops |
| PortPool | 4 pairs, 2 sessions, 2 closers each | No pair is shared, lost or returned twice; New and Close return; Close is a barrier for all its callers |
| Session | 2 in-dialog requests of five kinds, queue of 1 | A 200 reaches the caller only for an answered call; legs are released; teardown order; re-INVITEs are serial; requests are answered; CANCEL and shutdown end the session |
| App | 3 INVITEs, limit 2 | Counters are exact; nothing is admitted once Run has returned; a cancelled process ends; one with a failed listener ends once its calls have |
| Registration | 2 requests of up to 2 contacts, 2 contacts and `*`, limit 1, clock to 3, MySQL | The limit is exceeded only by a refresh that expires between clock and store; cleanup never removes an active binding; the 200 shows the request's effect |
| MediaEndpoints | 3 caller and 4 callee descriptions (hold, moved host, other codec), 2 answers, 2 packets | A packet leaves with the payload type its receiver announced for its encoding; hold is obeyed; a learned port belongs to the peer |
| MediaLoops | one media session | stopMedia joins every goroutine and releases both leases; it returns although the peers keep sending; a failure ends Run when the peers pause |
| RtpForward | modulus 8, window 4, 5 packets | Extended numbers, loss bound, reported number and recognised repeats agree with the sender; the output is one stream that misses only the numbers of packets dropped after `Rewrite`, without a shift in media time |

Three runs end in a violation. Each states what a document or comment of the
repository says, and shows a behaviour of the code that disagrees; the findings in
`PROJECT.json` quote the lines.

| Run | What happens |
|---|---|
| CallActor_terminal | With the bus full for the whole shutdown deadline the actor exits without a terminal event |
| Session_bye | A BYE is answered with 200 and then dropped because the queue stays full; the session goes on |
| Registration_memory | The memory store refreshes an expired row without counting, and exceeds the limit |

Several passing properties have an exception that the code needs, and each is stated
in the property:

* `LegsReleased` excludes a hangup whose first transition was refused.
* `LimitExceededOnlyByLag` names the one stale refresh.
* `ErrorReturns` excludes a call that runs for ever: after a listener error `App.Run`
  waits for the calls and nobody cancels them.
* `FailureEndsRun` excludes a peer that never pauses for one read deadline.
* `PinnedFromPeer` excludes a port learned from a packet that overlapped the Configure
  that replaced the host. Such a port survives, and keeps packets of the new
  host out until its address changes again.
* `HoldObeyed` is about packets read after Configure returned.
* `ReportedSequence` is one cycle ahead after a late packet from before a wrap. All
  tracker properties stop once another stream arrives or a fresh packet was taken for
  a repeat (its slot still held the number from a cycle ago), and `RepeatsDropped` also
  once a packet older than the window came. `LostNeverOverstated` is an upper bound
  only.
* `OutputContinuous` allows a missing number for each packet that was dropped between
  `Rewrite` and the write, and for nothing else.
* `SnapshotMatchesLog` allows the newest event to be missing from the snapshot while no
  caller has been told of it. `AnsweredAt` and `EndedAt` may be those of an attempt that
  `Publish` refused, since the rollback restores `State` only; such a time is never
  older than the accepted one, nor that of an event of another kind.

### Bounds

Queues of one place make every "full" and "empty" case, and every blocking send,
reachable within a few steps. Three Transition calls are enough for one in hand, one
queued and one blocked; their targets include a terminal state and rejected moves.
Four port pairs for two sessions let both run, and failing binds make exhaustion
happen with pairs still leased. Three INVITEs exceed the limit of two. A lifetime of
two units and a clock of three let a binding be stored, refreshed, expire and be
cleaned up. Two answers are a first configuration and one that replaces it; two
packets are one that learns the port and one that meets it, or one in each loop. Five
packets suffice to wrap, lose, reorder and repeat around a modulus of eight; starting
at 0 and at 6 puts the wrap early. MediaLoops has no bound. Symmetry is used only in
runs without liveness properties.

The bounds do not cover the width of the 32-bit cycle counter (2^32 packets of one
stream). Where a property is also proved, no bound on the instance remains.

### Fairness

Weak fairness of each goroutine's own steps stands for the Go scheduler. It is never
assumed that a peer answers, that anyone hangs up, or that a signal comes.
In CallActor the callers' deadlines are not assumed to fire. The actor's one-second
shutdown deadline is a step of the actor, so it does. In Session, timers fire, the
media goroutine returns once stopMedia waits for it (`StopReturns` of MediaLoops shows
this), and `InviteEnds` has strong fairness: a done context stays done, and a Go
select that is repeated often enough takes a case that stays ready. In MediaLoops a
read ends by its deadline when no packet comes, and by the closed socket; packets may
come for ever. `reportLoop` takes its done context with strong fairness, for the same
reason as `InviteEnds`. A publication of a summary ends by its timeout. In App, a bus
and a session return when their context is done, and `Serve` when its socket is
closed. In PortPool only goroutine steps are fair.

## What is proved

| Module | Theorems | For every |
|---|---|---|
| CallActorProofs | `TypesHold`, `InvariantHolds`, `EventsPath`; `SnapshotInvariant`, `SnapshotFollowsLog`; `RowsPrefix`, `CdrFollowsRows`, `ImplementsLifecycle`; `VerdictInvariant`, `AppliedOnce`, `VerdictsAreTrue` | set of requests, targets other than `new`, positive capacities |
| SessionProofs | `SessionInvariant`, `AnsweredBeforeTheOK`, `BothLegsReleased`, `TornDownInOrder`, `OneReInviteAtATime`, `EveryRequestAnswered` | set of in-dialog requests of any of the kinds, positive queue |
| PortPoolProofs | `PoolInvariant`, `PairsStayExclusive`, `LeasesBothOrNone`, `ClosingIsBarrier`, `NoPairsLost` | finite set of pairs, sets of sessions and closers |
| MediaLoopsProofs | `LoopsInvariant`, `StopMediaIsBarrier` | (no constants) |
| AppProofs | `AppInvariant`, `AdmissionStaysExact`, `RunIsBarrier` | finite set of INVITEs, positive limit |
| RegistrationProofs | `RegistrationInvariant`, `LimitKept`, `RemovedByRequest`, `RepliesShowRequest` | number of REGISTERs, finite set of contacts, lifetimes, clock |
| MediaEndpointsProofs | `MediaInvariant`, `HoldIsObeyed`, `PortsArePeers`, `EncodingInvariant`, `EncodingsAreKept` | descriptions, number of answers and packets |
| RtpProofs | `TrackerInvariant`, `ForwardKeepsTracker`, `ExtendedNumberExact`, `LossesNotOverstated`, `ReportedNumber`, `RepeatsAreDropped`, `OutputIsContinuous` | window, modulus that is a multiple of twice the window, timestamp modulus, start and number of packets |
| RtpProofs | `RttExact`, `RttTaken`, `OverstatedIgnored`, `RttFits`, `DelaySaturates`, `FractionBounded` | time, delay and count |

Every invariant and every action property of the passing runs is one of these theorems.
The assumptions on the constants are the named `ASSUME`s of the modules. Each proof
has an inductive invariant, one lemma per group of actions with a step for each
action, and lemmas for what the sequences and records do.

**The event log.** `EventsFormPath` is not inductive: it says nothing of the event
that waits for the bus or of the state the actor will start from next. `IInv` adds
`CallFollowsLog`: between publications the call is in the state the log ends in;
while an event waits, the call is one allowed step ahead and the event records the
step. It adds `SequenceOK`, by which the waiting event is newer than all accepted
ones, and `MailboxOK` and `SendingOK`, by which a command names a real target.
`RolledBackOK` shows that a failed publication returns the call to where the log is,
and `ShutdownAllowed` that the shutdown branch never asks for a move outside the
table.

**The snapshot.** Between the send and `storeSnapshot` (`Lagging`) the snapshot shows all
events but the newest, otherwise all (`SInv`). Its state follows from `IInv`. Its times need
`Stamps`: the times of the call record, which a rolled back attempt has changed, are not
contradicted by any accepted event nor by the one on offer. They stay so because an
attempt takes a number above all earlier ones. That a caller who was told nil
finds its event rests on `VInv` below: the event the snapshot may lack belongs to the
command in hand, which is still untold.

**The lifecycle.** With these and the rows, a send is one `Accepted` of CallLifecycle, from
the state the snapshot shows because nothing is sent while it lags; `SnapshotStored` is
a `Shown`, `EventWritten` a `Stored`, and every other step a stutter.

**The rows.** The log is always rows, then the event being written, then queue
(`published = rows \o writing \o bus`) while the consumer runs. `EventReceived` and
`EventWritten` move the boundaries, and the latter updates the CDR in the same
transaction; a failed write stops the consumer, which keeps the prefix.

**The verdicts.** A command is in one place: the mailbox (at most once), the actor's
hand, or behind it. `VInv` says that it is unanswered in the first two, that it
has an event in the log only if its answer is nil, and that what `Transition`
returned is that answer. An expired context changes the caller only, so the command
may still be applied, but once.

**The session.** `SInv` has one conjunct per question. `AnswerInv`: while the INVITE
is under way the actor has no late command, and from the point where the 200 is sent
its state, and every target of a late command, is an answered one, so nothing
undoes the answer. `LegInv`: the callee counts as the origin of the hangup only when it
sent a BYE, and once the session unwinds no leg is left that still needs one, unless
the actor refused the move to terminating. `UnwindInv` is what the defers have undone so
far. `PendingInv`: until the defers have released it, a 2xx that was sent and not
acknowledged is the pending one, and none is out while a re-INVITE is being
handled. `BusyInv`: `reInviteBusy` is set exactly while a re-INVITE handler is enqueuing
or waiting, and there is at most one. `AnswersInv`: a command in the queue or in hand
was handed over by its handler, and a request whose result is closed or whose handler
returned was answered.

**The pool.** `PInv` says where each pair is (`OnePlace`), that none is nowhere
(`Accounted`), and what a session holds at each point of `New` and `Close` (`Shape`).
`Counted` adds that `inUse` is the number of pairs whose sockets are open; each
action changes both by the same amount.

**The media goroutines.** `LoopsInv` relates `Close`, the errgroup and `stopMedia`:
`Run` is past its wait only when all five loops have ended, `Close` has returned only
when both leases are released, and `stopMedia` is past its own wait only when `Run` has
returned or never began.

**Shutdown.** `AInv` counts: listeners that serve, results in the channel and results
taken are two. So draining two results waits for both listeners, and `Wait` starts
with nothing left that could admit a call.

**Registrations.** `RInv` says that every clock value read earlier is not in the
future, and that a row is what the last request for it stored unless it expired and
was cleaned up. `LimitKept` needs the MySQL store, which counts active rows in the
transaction that inserts; Registration_memory shows that the memory store does not.

**The endpoints.** `MInv` follows one packet: as long as no Configure has begun since
it was read, what the loop has asked of the two remotes so far is still what they say
(`CleanOK`). A packet that may set the port came from the host it was compared with
(`SourceOK`). A learned port that no Configure overlapped belongs to the stored host,
and when configure is about to store and has not reset the port, to the new host too
(`PinOK`).

**The encodings.** `EInv` says that once the loops run both remotes use the payload
types of the one mapping that was ever accepted (`RunningOK`, `AcceptedOK`), so it does
not matter which half of a Configure a packet meets. `NegotiatedPair` shows that
`Negotiate` pairs payload types that the two descriptions list under the same name, for
lists of any length; `FirstPlace`, on which `findCodec` rests, is the least-number
principle. `PacketOK` then follows a packet from its read to its write. The assumptions
(`BodiesAssumption`) are that a peer does not give a payload type another meaning
during a call, and that payload types are natural numbers.

**The tracker.** `TrackerInv` holds the receiver's numbers against the sender's, which
are unbounded: `maxSeq` and `cycles` are remainder and rest of the newest number, the
loss counter is at most the number of missing packets, and each received packet among
the `Window` newest is in its slot, unless a packet older than the window came. It says
so of one stream (`Faithful`): no other source was mixed in, and no packet was taken for
a repeat because its slot still held the number from one cycle earlier. For a packet
within half the modulus of the newest, the difference on the wire is the difference at
the sender (`DeltaExact`), and a wrap is counted exactly when a new cycle begins
(`WrapCounted`). The
modulus is a constant, so these rest on the lemmas about remainders at the head of the
module. `PlaceInv` counts from the first packet that left: the distance of the rewriter's
number from it is the number of packets sent or discarded since, modulo 2^16 in the
code, and its timestamp is its input shifted by the two bases. The rewriter
leaves the tracker alone (`ForwardKeepsTracker`).

**RTCP.** The clock is a count of 1/65536 s modulo 2^32. A truthful report gives the
travel time exactly or no sample; there is a sample unless the clock wraps during the
travel. `DelaySaturates` is valid while the peer's last report is less than 39 hours
old, when the 64-bit product would overflow. These numbers are beyond TLC's integers,
so Rtcp is in no run.

Each inductive invariant was also checked with TLC on the instance of its run.

Only model-checked are the liveness properties, since liveness under fairness and
ENABLED are outside what the installed prover handles: `TransitionsReturn`,
`CancelledActorExits`, `EventsAreStored`, `NewReturns`, `ClosesReturn`,
`CancelledSessionEnds`, `ShutdownReturns`, `ErrorReturns`, `StopReturns` and
`FailureEndsRun`. `ImplementsLifecycle` is the safety part of the refinement, which is
all that CallLifecycle states. The properties of the three runs that end in a violation are
false, so they have no theorem.

## Not modelled

* SIP and SDP text, header parsing, logging, configuration and dependency setup. A
  parse error is a nondeterministic rejection where it changes control flow.
* Digest authentication: what it promises is a security property of hashes and nonces;
  the registrar and the engine see accepted or rejected.
* `Resolve`'s choice among active bindings by `q` and time, a sort without state.
  Session has the found and not found cases. CSeq, which the registrar does not read.
* `sipgo`, `pion` and MySQL: external, as the code uses them. A transaction is one step
  that commits or fails. Contacts are compared as values; the collation of the
  contact column, under which MySQL may take two spellings for one, is left out.
* Jitter, byte counts, the `timedOut` flag, the fields of the quality summary, and the
  DTMF codec, which has no state. The pair `lastRemoteSR`, `lastRemoteSRNanos` is
  stored in two steps; a report in between mixes them, which moves the peer's round
  trip time by at most one report interval.
* The queue of the media summary bus, which carries quality samples only.
* The migrations, the spikes and the SIPp test server, which are not part of the
  running service.
* Session and CallActor are not composed in one specification: Session keeps of the
  actor its state, whether it is up, and the commands whose caller no longer waits.
