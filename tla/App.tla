-------------------------------- MODULE App ---------------------------------
(***************************************************************************)
(* The process around the calls: the errgroup of cmd/aixvolinkpbx/main.go  *)
(* with its three members (call bus, media bus, application), App.Run of   *)
(* internal/app/app.go with its two listeners, and the admission of        *)
(* INVITEs by the engine (reserve, release, remove and Wait of             *)
(* internal/sip/b2bua/engine.go).                                          *)
(*                                                                         *)
(* A session.run is one state here: it may end at any time, and it does    *)
(* end once its context is done (module Session, CancelledSessionEnds).    *)
(* The buses are reduced to whether they run (module CallActor).           *)
(***************************************************************************)
EXTENDS Naturals, FiniteSets

CONSTANTS
  Invites,         \* INVITE requests, each with its handler goroutine
  MaxActiveCalls   \* Config.MaxActiveCalls

ASSUME AppAssumption == IsFiniteSet(Invites) /\ MaxActiveCalls \in Nat \ {0}

Listeners == {"udp", "tcp"}
Buses == {"callBus", "mediaBus"}

VARIABLES
  ctxDone,    \* groupCtx: a signal, or an error of a member of the group
  members,    \* the group's goroutines that have not returned
  storeOpen,  \* store.Close has not been called
  pc,         \* where App.Run is
  failed,     \* App.Run: runErr is not nil
  sockets,    \* the listening sockets that are open
  serving,    \* the listeners whose Serve has not returned
  results,    \* number of values in the channel serveErrors
  received,   \* number of values taken out of it
  stopping,   \* Engine.stopping
  reserved,   \* Engine.reserved
  wg,         \* Engine.wg
  invite      \* where the handler of each INVITE is

groupVars == <<ctxDone, members, storeOpen>>
runVars == <<pc, failed, sockets, serving, results, received>>
engineVars == <<stopping, reserved, wg, invite>>
vars == <<groupVars, runVars, engineVars>>

Init ==
  /\ ctxDone = FALSE
  /\ members = Buses \cup {"app"}
  /\ storeOpen = TRUE
  /\ pc = "listen"
  /\ failed = FALSE
  /\ sockets = {} /\ serving = {}
  /\ results = 0 /\ received = 0
  /\ stopping = FALSE /\ reserved = 0 /\ wg = 0
  /\ invite = [i \in Invites |-> "none"]

-----------------------------------------------------------------------------
(* The errgroup and its members.                                           *)

Signal ==
  /\ ~ctxDone
  /\ ctxDone' = TRUE
  /\ UNCHANGED <<members, storeOpen, runVars, engineVars>>

\* A bus returns the writer's error, which cancels the group, or nil when the
\* context is done.
BusReturns(b) ==
  /\ b \in members
  /\ ctxDone' = TRUE
  /\ members' = members \ {b}
  /\ UNCHANGED <<storeOpen, runVars, engineVars>>

\* group.Wait returns to main, whose deferred call closes the store.
GroupWaits ==
  /\ members = {} /\ storeOpen
  /\ storeOpen' = FALSE
  /\ UNCHANGED <<ctxDone, members, runVars, engineVars>>

-----------------------------------------------------------------------------
(* App.Run.                                                                *)

\* App.Run returns, and with it the member of the group.
Return(err) ==
  /\ pc' = "returned"
  /\ failed' = err
  /\ members' = members \ {"app"}
  /\ ctxDone' = (ctxDone \/ err)

\* Both sockets are bound and served.
Listen ==
  /\ pc = "listen"
  /\ pc' = "serve"
  /\ sockets' = Listeners /\ serving' = Listeners
  /\ UNCHANGED <<groupVars, failed, results, received, engineVars>>

\* One of them cannot be bound.
ListenFails ==
  /\ pc = "listen"
  /\ Return(TRUE)
  /\ UNCHANGED <<storeOpen, sockets, serving, results, received, engineVars>>

\* ServeUDP or ServeTCP returns, by itself or because its socket is closed.
ServeReturns(l) ==
  /\ l \in serving
  /\ serving' = serving \ {l}
  /\ results' = results + 1
  /\ UNCHANGED <<groupVars, pc, failed, sockets, received, engineVars>>

LoopCancelled ==
  /\ pc = "serve" /\ ctxDone
  /\ pc' = "close"
  /\ UNCHANGED <<groupVars, failed, sockets, serving, results, received,
                 engineVars>>

\* Mutant: received is not counted here.
LoopServeErrorUncounted ==
  /\ pc = "serve" /\ results > 0
  /\ results' = results - 1
  /\ failed' = TRUE
  /\ pc' = "close"
  /\ UNCHANGED <<groupVars, sockets, serving, received, engineVars>>

LoopServeError ==
  /\ pc = "serve" /\ results > 0
  /\ results' = results - 1 /\ received' = received + 1
  /\ failed' = TRUE
  /\ pc' = "close"
  /\ UNCHANGED <<groupVars, sockets, serving, engineVars>>

\* The tick: Manager.Expire fails while the context is not done.  (When it
\* succeeds the loop goes on unchanged.)
LoopCleanupError ==
  /\ pc = "serve" /\ ~ctxDone
  /\ failed' = TRUE
  /\ pc' = "close"
  /\ UNCHANGED <<groupVars, sockets, serving, results, received, engineVars>>

\* Mutant: after an error the sockets are left to the deferred ua.Close.
CloseSocketsUnlessFailed ==
  /\ pc = "close"
  /\ sockets' = IF failed THEN sockets ELSE {}
  /\ failed' \in {failed, TRUE}
  /\ pc' = "drain"
  /\ UNCHANGED <<groupVars, serving, results, received, engineVars>>

\* Closing, and the results of Serve, may add an error of their own.
CloseSockets ==
  /\ pc = "close"
  /\ sockets' = {}
  /\ failed' \in {failed, TRUE}
  /\ pc' = "drain"
  /\ UNCHANGED <<groupVars, serving, results, received, engineVars>>

Drain ==
  /\ pc = "drain" /\ received < 2 /\ results > 0
  /\ results' = results - 1 /\ received' = received + 1
  /\ failed' \in {failed, TRUE}
  /\ UNCHANGED <<groupVars, pc, sockets, serving, engineVars>>

\* Mutant: Wait does not refuse new calls.
StopAdmissionOmitted ==
  /\ pc = "drain" /\ received = 2
  /\ pc' = "wait"
  /\ UNCHANGED <<groupVars, failed, sockets, serving, results, received,
                 engineVars>>

\* Engine.Wait: no INVITE is admitted from here on.
StopAdmission ==
  /\ pc = "drain" /\ received = 2
  /\ stopping' = TRUE
  /\ pc' = "wait"
  /\ UNCHANGED <<groupVars, failed, sockets, serving, results, received,
                 reserved, wg, invite>>

\* wg.Wait returns, and so does App.Run, after the deferred ua.Close.
WaitReturns ==
  /\ pc = "wait" /\ wg = 0
  /\ \E err \in {failed, TRUE} : Return(err)
  /\ UNCHANGED <<storeOpen, sockets, serving, results, received, engineVars>>

AppRun ==
  \/ Listen \/ ListenFails \/ LoopCancelled \/ LoopServeError
  \/ LoopCleanupError \/ CloseSockets \/ Drain \/ StopAdmission \/ WaitReturns

-----------------------------------------------------------------------------
(* handleInvite.                                                           *)

At(i, where) == invite' = [invite EXCEPT ![i] = where]

\* sipgo starts a handler for a request that a listener has read.
InviteArrives(i) ==
  /\ invite[i] = "none" /\ serving # {}
  /\ At(i, "arrived")
  /\ UNCHANGED <<groupVars, runVars, stopping, reserved, wg>>

\* Mutant: one call too many.
ReserveOneMore(i) ==
  /\ invite[i] = "arrived"
  /\ ~stopping /\ reserved <= MaxActiveCalls
  /\ reserved' = reserved + 1 /\ wg' = wg + 1
  /\ At(i, "admitted")
  /\ UNCHANGED <<groupVars, runVars, stopping>>

Reserve(i) ==
  /\ invite[i] = "arrived"
  /\ ~stopping /\ reserved < MaxActiveCalls
  /\ reserved' = reserved + 1 /\ wg' = wg + 1
  /\ At(i, "admitted")
  /\ UNCHANGED <<groupVars, runVars, stopping>>

\* 503.
ReserveRefuses(i) ==
  /\ invite[i] = "arrived"
  /\ stopping \/ reserved >= MaxActiveCalls
  /\ At(i, "over")
  /\ UNCHANGED <<groupVars, runVars, stopping, reserved, wg>>

\* The request is checked, the actor created and the session registered.
SessionStarts(i) ==
  /\ invite[i] = "admitted"
  /\ At(i, "running")
  /\ UNCHANGED <<groupVars, runVars, stopping, reserved, wg>>

\* Engine.release gives the slot back after 400, 403 or 500; Engine.remove does
\* when session.run unwinds.
SlotReturned(i) ==
  /\ invite[i] \in {"admitted", "running"}
  /\ reserved' = reserved - 1
  /\ At(i, "removed")
  /\ UNCHANGED <<groupVars, runVars, stopping, wg>>

\* wg.Done, last.
HandlerDone(i) ==
  /\ invite[i] = "removed"
  /\ wg' = wg - 1
  /\ At(i, "over")
  /\ UNCHANGED <<groupVars, runVars, stopping, reserved>>

\* What a handler does without help from the two parties.
HandlerRuns(i) ==
  \/ Reserve(i) \/ ReserveRefuses(i) \/ SessionStarts(i)
  \/ ctxDone /\ SlotReturned(i)
  \/ HandlerDone(i)

-----------------------------------------------------------------------------
Next ==
  \/ Signal \/ GroupWaits \/ AppRun
  \/ \E b \in Buses : BusReturns(b)
  \/ \E l \in Listeners : ServeReturns(l)
  \/ \E i \in Invites : InviteArrives(i) \/ SlotReturned(i) \/ HandlerRuns(i)

Spec == Init /\ [][Next]_vars

\* Goroutines are scheduled; a bus or a session returns when the context is
\* done, Serve when its socket is closed.  Nobody needs to hang up.
FairSpec ==
  /\ Spec
  /\ WF_vars(AppRun) /\ WF_vars(GroupWaits)
  /\ \A b \in Buses : WF_vars(ctxDone /\ BusReturns(b))
  /\ \A l \in Listeners : WF_vars(l \notin sockets /\ ServeReturns(l))
  /\ \A i \in Invites : WF_vars(HandlerRuns(i))

-----------------------------------------------------------------------------
(* Properties.                                                             *)

Holding == {i \in Invites : invite[i] \in {"admitted", "running"}}
Unfinished == {i \in Invites : invite[i] \in {"admitted", "running", "removed"}}

\* The engine counts exactly the calls it admitted, never more than its limit,
\* and the wait group every handler that still has something to release.
AdmissionExact ==
  /\ reserved = Cardinality(Holding) /\ reserved <= MaxActiveCalls
  /\ wg = Cardinality(Unfinished)

\* Once App.Run has returned, and so before the store is closed, no handler
\* holds a call, and none that is still on its way to reserve gets one.
ReturnIsBarrier ==
  /\ pc = "returned" => Unfinished = {} /\ serving = {} /\ sockets = {}
  /\ ~storeOpen => pc = "returned"

\* A signal, or the failure of a bus, ends the process, in whatever state the
\* listeners and the calls are.
ShutdownReturns == ctxDone ~> ~storeOpen

\* Once App.Run has an error (a listener that stopped, a failed cleanup) it
\* returns, unless a call runs for ever: it closes the listeners and collects
\* both results, and then waits for the calls without cancelling them.
ErrorReturns ==
  \/ \E i \in Invites : <>[](invite[i] = "running")
  \/ failed ~> pc = "returned"
=============================================================================
